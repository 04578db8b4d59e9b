---- MODULE LinearUseProofs ----
(***************************************************************************)
(* Linearity is sound: what a run of an accepted function still has to use *)
(* is what the check has counted for the part of the body it has reached.  *)
(***************************************************************************)
EXTENDS LinearUse, Foundations

(***************************************************************************)
(* Recursion over sized things.                                            *)
(***************************************************************************)

\* The functions that have a value of V[x] for each x in D.
Choices(D, V) == {f \in [D -> UNION {V[x] : x \in D}] : \A x \in D : f[x] \in V[x]}

\* f is as rule says, for what is smaller than n.
Solved(rule, D, V, size, n, f) ==
    f \in Choices(D, V) /\ \A x \in D : size[x] < n => rule[f][x] = f[x]

\* The sizes are natural, and what rule makes of f at x depends on what f is
\* below x only.
Descends(rule, D, V, size) ==
    /\ \A x \in D : size[x] \in Nat
    /\ \A f \in Choices(D, V) : rule[f] \in Choices(D, V)
    /\ \A f, g \in Choices(D, V) : \A x \in D :
           (\A y \in D : size[y] < size[x] => f[y] = g[y]) => rule[f][x] = rule[g][x]

\* Two solutions agree as far as both go.
LEMMA SolutionsAgree ==
    ASSUME NEW D, NEW V, NEW size, NEW rule, Descends(rule, D, V, size),
           NEW m \in Nat, NEW n \in Nat, NEW f, NEW g,
           Solved(rule, D, V, size, m, f), Solved(rule, D, V, size, n, g)
    PROVE  \A x \in D : size[x] < m /\ size[x] < n => f[x] = g[x]
<1> DEFINE Bad == {x \in D : size[x] < m /\ size[x] < n /\ f[x] # g[x]}
           sizes == {size[x] : x \in Bad}
<1>1. SUFFICES ASSUME Bad # {} PROVE FALSE
  OBVIOUS
<1>2. sizes \in SUBSET Nat /\ sizes # {}
  BY <1>1 DEF Descends
<1>3. PICK s \in sizes : \A r \in sizes : s <= r
  <2> HIDE DEF sizes
  <2>1. QED
    BY <1>2, LeastExists
<1>4. PICK x \in Bad : size[x] = s
  OBVIOUS
<1>5. \A y \in D : size[y] < size[x] => f[y] = g[y]
  <2>1. SUFFICES ASSUME NEW y \in D, size[y] < size[x], f[y] # g[y] PROVE FALSE
    OBVIOUS
  <2>2. y \in Bad
    <3>1. size[x] \in Nat /\ size[y] \in Nat /\ size[x] < m /\ size[x] < n
      BY DEF Descends
    <3>2. size[y] < m /\ size[y] < n
      BY <2>1, <3>1
    <3>3. QED
      BY <2>1, <3>2
  <2>3. size[x] <= size[y] /\ size[x] \in Nat /\ size[y] \in Nat
    BY <1>3, <1>4, <2>2 DEF Descends
  <2>4. QED
    BY <2>1, <2>3
<1>6. rule[f][x] = rule[g][x]
  BY <1>5 DEF Solved, Descends
<1>7. QED
  BY <1>4, <1>6 DEF Solved

\* A rule whose value at x depends on what is smaller than x has a solution.
LEMMA RecursionSolved ==
    ASSUME NEW D, NEW V, NEW size, NEW rule, Descends(rule, D, V, size),
           NEW start \in Choices(D, V)
    PROVE  \E f \in Choices(D, V) : rule[f] = f
<1> DEFINE Goes(n) == \E f : Solved(rule, D, V, size, n, f)
           Far == {n \in Nat : Goes(n)}
<1>0. \A x \in D : size[x] \in Nat
  BY DEF Descends
<1>1. 0 \in Far
  <2>1. Solved(rule, D, V, size, 0, start)
    BY <1>0 DEF Solved
  <2>2. QED
    BY <2>1
<1>2. ASSUME NEW n \in Nat, n \in Far PROVE n + 1 \in Far
  <2>1. PICK f : Solved(rule, D, V, size, n, f)
    BY <1>2
  <2>2. ASSUME NEW x \in D, size[x] < n + 1 PROVE rule[rule[f]][x] = rule[f][x]
    <3>1. \A y \in D : size[y] < size[x] => rule[f][y] = f[y]
      BY <1>0, <2>1, <2>2 DEF Solved
    <3>2. QED
      BY <2>1, <3>1 DEF Solved, Descends
  <2>3. Solved(rule, D, V, size, n + 1, rule[f])
    BY <2>1, <2>2 DEF Solved, Descends
  <2>4. QED
    BY <2>3
<1>3. ASSUME NEW n \in Nat PROVE Goes(n)
  <2>1. 0 .. n \subseteq Far
    <3> HIDE DEF Far
    <3>1. \A k \in 0 .. n - 1 : k \in Far => k + 1 \in Far
      BY <1>2
    <3>2. QED
      BY <1>1, <3>1, CountingUp
  <2>2. QED
    BY <2>1
<1> DEFINE F(n) == CHOOSE f : Solved(rule, D, V, size, n, f)
<1>4. ASSUME NEW n \in Nat PROVE Solved(rule, D, V, size, n, F(n))
  <2>1. Goes(n)
    BY <1>3
  <2> HIDE DEF Solved
  <2>2. QED
    BY <2>1
<1> HIDE DEF F
<1> DEFINE all == [x \in D |-> F(size[x] + 1)[x]]
<1>5. ASSUME NEW x \in D
      PROVE  \A y \in D : size[y] <= size[x] => all[y] = F(size[x] + 1)[y]
  <2>1. SUFFICES ASSUME NEW y \in D, size[y] <= size[x]
                 PROVE  F(size[y] + 1)[y] = F(size[x] + 1)[y]
    OBVIOUS
  <2>2. /\ Solved(rule, D, V, size, size[x] + 1, F(size[x] + 1))
        /\ Solved(rule, D, V, size, size[y] + 1, F(size[y] + 1))
    BY <1>0, <1>4
  <2>3. /\ size[y] < size[x] + 1 /\ size[y] < size[y] + 1
        /\ size[x] + 1 \in Nat /\ size[y] + 1 \in Nat
    BY <1>0, <2>1
  <2> HIDE DEF all
  <2>4. \A z \in D : size[z] < size[x] + 1 /\ size[z] < size[y] + 1 =>
            F(size[x] + 1)[z] = F(size[y] + 1)[z]
    BY <2>2, <2>3, SolutionsAgree
  <2>5. QED
    BY <2>3, <2>4
<1>6. all \in Choices(D, V)
  <2>1. ASSUME NEW x \in D PROVE all[x] \in V[x]
    <3>1. F(size[x] + 1) \in Choices(D, V)
      BY <1>0, <1>4 DEF Solved
    <3>2. QED
      BY <3>1 DEF Choices
  <2>2. QED
    BY <2>1 DEF Choices
<1>7. ASSUME NEW x \in D PROVE rule[all][x] = all[x]
  <2>1. Solved(rule, D, V, size, size[x] + 1, F(size[x] + 1))
    BY <1>0, <1>4
  <2>2. \A y \in D : size[y] < size[x] => all[y] = F(size[x] + 1)[y]
    BY <1>0, <1>5
  <2> HIDE DEF all
  <2>3. rule[all][x] = rule[F(size[x] + 1)][x]
    BY <1>6, <2>1, <2>2 DEF Solved, Descends
  <2>4. rule[F(size[x] + 1)][x] = F(size[x] + 1)[x]
    BY <1>0, <2>1 DEF Solved
  <2>5. all[x] = F(size[x] + 1)[x]
    BY <1>0, <1>5
  <2>6. QED
    BY <2>3, <2>4, <2>5
<1>8. rule[all] = all
  <2>1. rule[all] \in Choices(D, V)
    BY <1>6 DEF Descends
  <2> HIDE DEF all
  <2>2. QED
    BY <1>6, <1>7, <2>1 DEF Choices
<1>9. QED
  BY <1>6, <1>8

-----------------------------------------------------------------------------
(***************************************************************************)
(* The recursion of synth.                                                 *)
(***************************************************************************)

OutTypes == Types \cup {"Any"}

\* What synth can find of a term.
Outs(bs) == [type : OutTypes, uses : [DOMAIN bs -> Nat \X Nat], ok : BOOLEAN]

OutsOf == [x \in Inputs |-> Outs(x[2])]
SizeOf == [x \in Inputs |-> Size(x[1])]

\* A term has the parts its kind asks for.
LEMMA TermParts ==
    ASSUME NEW t \in AllTerms
    PROVE  \E n \in DOMAIN Terms : n \in Nat /\ t \in Terms[n] /\ IsTerm(t, n) /\ Size(t) \in Nat
BY TermsAssumption DEF AllTerms

\* A part of a term is a smaller term.
LEMMA PartTerm ==
    ASSUME NEW t, NEW n, NEW whole, Part(t, n, whole)
    PROVE  t \in AllTerms /\ Size(t) < Size(whole)
BY DEF Part, AllTerms

\* Every atom has a type.
LEMMA AtomTyped ==
    ASSUME NEW bs \in Environments, NEW v
    PROVE  AtomType(bs, v) \in OutTypes
<1>1. \A k \in DOMAIN bs : bs[k] \in [type : OutTypes, linear : BOOLEAN]
  <2> DEFINE B == [type : OutTypes, linear : BOOLEAN]
  <2>1. bs \in Seq(B)
    BY DEF Environments, OutTypes
  <2> HIDE DEF B
  <2>2. \A k \in DOMAIN bs : bs[k] \in B
    BY <2>1
  <2>3. QED
    BY <2>2 DEF B
<1>2. \A k \in DOMAIN bs : bs[k].type \in OutTypes
  BY <1>1
<1>3. "Plain" \in OutTypes /\ "Any" \in OutTypes
  BY DEF OutTypes, Types
<1>4. QED
  BY <1>2, <1>3 DEF AtomType

\* A binder more makes an environment, of one variable more.
LEMMA BoundEnvironment ==
    ASSUME NEW bs \in Environments, NEW T \in OutTypes, NEW linear \in BOOLEAN
    PROVE  /\ Append(bs, Binder(T, linear)) \in Environments
           /\ Append(bs, Bind(T)) \in Environments
           /\ DOMAIN bs = 1 .. Len(bs) /\ Len(bs) \in Nat
           /\ DOMAIN Append(bs, Binder(T, linear)) = 1 .. Len(bs) + 1
           /\ DOMAIN Append(bs, Bind(T)) = 1 .. Len(bs) + 1
<1>1. Binder(T, linear) \in [type : OutTypes, linear : BOOLEAN]
  BY DEF Binder
<1>2. Bind(T) \in [type : OutTypes, linear : BOOLEAN]
  BY DEF Bind, Binder
<1>3. QED
  BY <1>1, <1>2 DEF Environments, OutTypes

\* Uses are pairs of numbers, one for each variable.
LEMMA UsesTyped ==
    ASSUME NEW bs \in Environments, NEW v, NEW args
    PROVE  /\ NoUses(bs) \in [DOMAIN bs -> Nat \X Nat]
           /\ AtomUses(bs, v) \in [DOMAIN bs -> Nat \X Nat]
BY DEF NoUses, AtomUses

\* The same of what two parts, one of two arms, and a loop use.
LEMMA SummedTyped ==
    ASSUME NEW bs, NEW a \in [DOMAIN bs -> Nat \X Nat], NEW b \in [DOMAIN bs -> Nat \X Nat]
    PROVE  /\ InSequence(a, b) \in [DOMAIN bs -> Nat \X Nat]
           /\ Merged(a, b) \in [DOMAIN bs -> Nat \X Nat]
           /\ AnyTurns(a) \in [DOMAIN bs -> Nat \X Nat]
BY DEF InSequence, Merged, AnyTurns

\* The same of what is used outside of a binder.
LEMMA OutsideTyped ==
    ASSUME NEW bs \in Environments, NEW n \in Nat, n = Len(bs) + 1,
           NEW a \in [1 .. n -> Nat \X Nat]
    PROVE  Outside(bs, a) \in [DOMAIN bs -> Nat \X Nat]
<1>1. DOMAIN bs = 1 .. Len(bs) /\ Len(bs) \in Nat
  BY DEF Environments
<1>2. \A k \in DOMAIN bs : k \in 1 .. n
  BY <1>1
<1>3. QED
  BY <1>2 DEF Outside

\* The same of what arguments use.
LEMMA ArgumentsTyped ==
    ASSUME NEW bs, NEW n, NEW args \in Seq(0 .. n)
    PROVE  ArgumentUses(bs, args) \in [DOMAIN bs -> Nat \X Nat]
<1>1. ASSUME NEW k PROVE Cardinality({i \in DOMAIN args : args[i] = k}) \in Nat
  <2>1. IsFiniteSet(1 .. Len(args)) /\ DOMAIN args = 1 .. Len(args)
    BY FS_Interval
  <2>2. IsFiniteSet({i \in DOMAIN args : args[i] = k})
    BY <2>1, FS_Subset
  <2>3. QED
    BY <2>2, FS_CardinalityType
<1>2. QED
  BY <1>1 DEF ArgumentUses

\* What is found is well typed if it is so for the parts.
LEMMA FoundAt ==
    ASSUME NEW f \in Choices(Inputs, OutsOf), NEW t \in AllTerms,
           NEW bs \in Environments, NEW ret \in Types, NEW c \in BOOLEAN
    PROVE  f[<<t, bs, ret, c>>] \in Outs(bs)
<1>1. <<t, bs, ret, c>> \in Inputs
  BY DEF Inputs
<1>2. OutsOf[<<t, bs, ret, c>>] = Outs(bs)
  BY <1>1 DEF OutsOf
<1>3. QED
  BY <1>1, <1>2 DEF Choices

\* What is found of a term, from what is found of its parts, is an Out.
LEMMA FindingTyped ==
    ASSUME NEW f \in Choices(Inputs, OutsOf), NEW t \in AllTerms,
           NEW bs \in Environments, NEW ret \in Types, NEW c \in BOOLEAN
    PROVE  Finding(f, t, bs, ret, c) \in Outs(bs)
<1>1. PICK n \in DOMAIN Terms : n \in Nat /\ t \in Terms[n] /\ IsTerm(t, n)
  BY TermParts
<1>2. DOMAIN bs = 1 .. Len(bs) /\ Len(bs) \in Nat
  BY DEF Environments
<1>3. \A type \in OutTypes, us \in [DOMAIN bs -> Nat \X Nat], ok \in BOOLEAN :
          Out(type, us, ok) \in Outs(bs)
  BY DEF Out, Outs
<1>4. CASE t.do = "atom"
  <2>1. Finding(f, t, bs, ret, c) = Out(AtomType(bs, t.v), AtomUses(bs, t.v), TRUE)
    BY <1>4 DEF Finding
  <2>2. QED
    BY <2>1, AtomTyped, UsesTyped DEF Out, Outs
<1>5. CASE t.do = "app"
  <2>1. Finding(f, t, bs, ret, c) =
            Out(t.ret, ArgumentUses(bs, t.args),
                \A i \in DOMAIN t.params :
                    Compatible(t.params[i], AtomType(bs, t.args[i])))
    BY <1>5 DEF Finding
  <2>2. t.ret \in OutTypes /\ t.args \in Seq(0 .. n)
    BY <1>1, <1>5 DEF IsTerm, OutTypes
  <2>3. ArgumentUses(bs, t.args) \in [DOMAIN bs -> Nat \X Nat]
    BY <2>2, ArgumentsTyped
  <2>4. QED
    BY <1>3, <2>1, <2>2, <2>3
<1>6. CASE t.do = "let"
  <2> DEFINE value == f[<<t.value, bs, ret, c>>]
             inner == Append(bs, Bind(value.type))
             body == f[<<t.body, inner, ret, c>>]
  <2>1. Finding(f, t, bs, ret, c) = OfLet(bs, value, body)
    BY <1>6 DEF Finding
  <2>2. t.value \in AllTerms /\ t.body \in AllTerms
    BY <1>1, <1>6, PartTerm DEF IsTerm
  <2>3. value \in Outs(bs)
    BY <2>2, FoundAt
  <2>4. value.type \in OutTypes
    BY <2>3 DEF Outs
  <2> HIDE DEF value
  <2>5. inner \in Environments /\ DOMAIN inner = 1 .. Len(bs) + 1
    BY <2>4, BoundEnvironment
  <2> HIDE DEF inner
  <2>6. body \in Outs(inner)
    BY <2>2, <2>5, FoundAt
  <2> HIDE DEF body
  <2>7. Outside(bs, body.uses) \in [DOMAIN bs -> Nat \X Nat]
    BY <1>2, <2>5, <2>6, OutsideTyped DEF Outs
  <2>8. /\ InSequence(value.uses, Outside(bs, body.uses)) \in [DOMAIN bs -> Nat \X Nat]
        /\ body.type \in OutTypes
    BY <2>3, <2>6, <2>7, SummedTyped DEF Outs
  <2>9. QED
    BY <1>3, <2>1, <2>8 DEF OfLet
<1>7. CASE t.do = "match"
  <2> DEFINE a == f[<<t.arms[1], bs, ret, c>>]
             b == f[<<t.arms[2], bs, ret, c>>]
  <2>1. Finding(f, t, bs, ret, c) = OfMatch(a, b)
    BY <1>7 DEF Finding
  <2>2. t.arms[1] \in AllTerms /\ t.arms[2] \in AllTerms
    BY <1>1, <1>7, PartTerm DEF IsTerm
  <2>3. a \in Outs(bs) /\ b \in Outs(bs)
    BY <2>2, FoundAt
  <2> HIDE DEF a, b
  <2>4. Merged(a.uses, b.uses) \in [DOMAIN bs -> Nat \X Nat]
    BY <2>3, SummedTyped DEF Outs
  <2>5. (IF a.type = "Any" THEN b.type ELSE a.type) \in OutTypes
    BY <2>3 DEF Outs
  <2>6. QED
    BY <1>3, <2>1, <2>4, <2>5 DEF OfMatch
<1>8. CASE t.do = "raise"
  <2>1. Finding(f, t, bs, ret, c) = Out("Any", NoUses(bs), TRUE)
    BY <1>8 DEF Finding
  <2>2. QED
    BY <2>1, UsesTyped DEF Out, Outs, OutTypes
<1>9. CASE t.do = "return"
  <2>1. Finding(f, t, bs, ret, c) =
            Out("Any", AtomUses(bs, t.v), Compatible(ret, AtomType(bs, t.v)))
    BY <1>9 DEF Finding
  <2>2. Compatible(ret, AtomType(bs, t.v)) \in BOOLEAN
    BY DEF Compatible
  <2>3. QED
    BY <2>1, <2>2, UsesTyped DEF Out, Outs, OutTypes
<1>10. CASE t.do = "loop"
  <2> DEFINE inner == Append(bs, Carried(t, bs))
             cond == f[<<t.cond, inner, ret, c>>]
             body == f[<<t.body, inner, ret, c>>]
  <2>1. Finding(f, t, bs, ret, c) = OfLoop(t, bs, cond, body, c)
    BY <1>10 DEF Finding
  <2>2. t.cond \in AllTerms /\ t.body \in AllTerms
    BY <1>1, <1>10, PartTerm DEF IsTerm
  <2>3. inner \in Environments /\ DOMAIN inner = 1 .. Len(bs) + 1
    BY AtomTyped, BoundEnvironment DEF Carried
  <2> HIDE DEF inner
  <2>4. cond \in Outs(inner) /\ body \in Outs(inner)
    BY <2>2, <2>3, FoundAt
  <2> HIDE DEF cond, body
  <2>5. /\ Outside(bs, cond.uses) \in [DOMAIN bs -> Nat \X Nat]
        /\ Outside(bs, body.uses) \in [DOMAIN bs -> Nat \X Nat]
    <3>1. /\ cond.uses \in [1 .. Len(bs) + 1 -> Nat \X Nat]
          /\ body.uses \in [1 .. Len(bs) + 1 -> Nat \X Nat]
      BY <2>3, <2>4 DEF Outs
    <3>2. Len(bs) + 1 \in Nat
      BY <1>2
    <3>3. QED
      BY <3>1, <3>2, OutsideTyped
  <2>6. InSequence(AtomUses(bs, t.init),
            InSequence(Outside(bs, cond.uses), AnyTurns(Outside(bs, body.uses))))
            \in [DOMAIN bs -> Nat \X Nat]
    <3>1. AnyTurns(Outside(bs, body.uses)) \in [DOMAIN bs -> Nat \X Nat]
      BY <2>5, SummedTyped
    <3>2. InSequence(Outside(bs, cond.uses), AnyTurns(Outside(bs, body.uses)))
              \in [DOMAIN bs -> Nat \X Nat]
      BY <2>5, <3>1, SummedTyped
    <3>3. QED
      BY <3>2, UsesTyped, SummedTyped
  <2>7. AtomType(bs, t.init) \in OutTypes
    BY AtomTyped
  <2>8. QED
    BY <1>3, <2>1, <2>6, <2>7 DEF OfLoop
<1>11. QED
  BY <1>1, <1>4, <1>5, <1>6, <1>7, <1>8, <1>9, <1>10 DEF IsTerm

\* What is found of a term depends on its parts only, which are smaller.
LEMMA FindingLocal ==
    ASSUME NEW f \in Choices(Inputs, OutsOf), NEW g \in Choices(Inputs, OutsOf),
           NEW t \in AllTerms, NEW bs \in Environments, NEW ret \in Types, NEW c \in BOOLEAN,
           \A x \in Inputs : SizeOf[x] < Size(t) => f[x] = g[x]
    PROVE  Finding(f, t, bs, ret, c) = Finding(g, t, bs, ret, c)
<1>1. PICK n \in DOMAIN Terms : n \in Nat /\ t \in Terms[n] /\ IsTerm(t, n)
  BY TermParts
<1>2. ASSUME NEW p, NEW m, Part(p, m, t), NEW es \in Environments
      PROVE  f[<<p, es, ret, c>>] = g[<<p, es, ret, c>>]
  <2>1. <<p, es, ret, c>> \in Inputs
    BY <1>2, PartTerm DEF Inputs
  <2>2. SizeOf[<<p, es, ret, c>>] = Size(p)
    BY <2>1 DEF SizeOf
  <2>3. QED
    BY <1>2, <2>1, <2>2, PartTerm
<1>3. CASE t.do = "let"
  <2> DEFINE value == f[<<t.value, bs, ret, c>>]
             inner == Append(bs, Bind(value.type))
  <2>1. value = g[<<t.value, bs, ret, c>>]
    BY <1>1, <1>2, <1>3 DEF IsTerm
  <2>2. value.type \in OutTypes
    <3>1. t.value \in AllTerms
      BY <1>1, <1>3, PartTerm DEF IsTerm
    <3>2. value \in Outs(bs)
      BY <3>1, FoundAt
    <3>3. QED
      BY <3>2 DEF Outs
  <2> HIDE DEF value
  <2>3. inner \in Environments
    BY <2>2, BoundEnvironment
  <2>4. f[<<t.body, inner, ret, c>>] = g[<<t.body, inner, ret, c>>]
    BY <1>1, <1>2, <1>3, <2>3 DEF IsTerm
  <2>5. Finding(f, t, bs, ret, c) = OfLet(bs, value, f[<<t.body, inner, ret, c>>])
    BY <1>3 DEF Finding, value
  <2>6. Finding(g, t, bs, ret, c) = OfLet(bs, value, g[<<t.body, inner, ret, c>>])
    BY <1>3, <2>1 DEF Finding
  <2>7. QED
    BY <2>4, <2>5, <2>6
<1>4. CASE t.do = "match"
  <2>1. /\ f[<<t.arms[1], bs, ret, c>>] = g[<<t.arms[1], bs, ret, c>>]
        /\ f[<<t.arms[2], bs, ret, c>>] = g[<<t.arms[2], bs, ret, c>>]
    BY <1>1, <1>2, <1>4 DEF IsTerm
  <2>2. QED
    BY <1>4, <2>1 DEF Finding
<1>5. CASE t.do = "loop"
  <2> DEFINE inner == Append(bs, Carried(t, bs))
  <2>1. inner \in Environments
    BY AtomTyped, BoundEnvironment DEF Carried
  <2> HIDE DEF inner
  <2>2. /\ f[<<t.cond, inner, ret, c>>] = g[<<t.cond, inner, ret, c>>]
        /\ f[<<t.body, inner, ret, c>>] = g[<<t.body, inner, ret, c>>]
    BY <1>1, <1>2, <1>5, <2>1 DEF IsTerm
  <2>3. QED
    BY <1>5, <2>2 DEF Finding, inner
<1>6. CASE t.do \in {"atom", "app", "raise", "return"}
  BY <1>6 DEF Finding
<1>7. QED
  BY <1>1, <1>3, <1>4, <1>5, <1>6 DEF IsTerm

\* What synth finds is as it says, and well typed.
LEMMA Synthesized ==
    ASSUME NEW t \in AllTerms, NEW bs \in Environments, NEW ret \in Types, NEW c \in BOOLEAN
    PROVE  Synth[<<t, bs, ret, c>>] = Finding(Synth, t, bs, ret, c)
<1> DEFINE Rule(f) == [x \in Inputs |-> Finding(f, x[1], x[2], x[3], x[4])]
           rule == [f \in Choices(Inputs, OutsOf) |-> Rule(f)]
           start == [x \in Inputs |-> Out("Any", NoUses(x[2]), TRUE)]
<1>1. ASSUME NEW x \in Inputs
      PROVE  /\ x[1] \in AllTerms /\ x[2] \in Environments
             /\ x[3] \in Types /\ x[4] \in BOOLEAN
             /\ OutsOf[x] = Outs(x[2]) /\ SizeOf[x] = Size(x[1])
  BY DEF Inputs, OutsOf, SizeOf
<1>2. start \in Choices(Inputs, OutsOf)
  <2>1. ASSUME NEW x \in Inputs PROVE start[x] \in OutsOf[x]
    <3>1. NoUses(x[2]) \in [DOMAIN x[2] -> Nat \X Nat]
      BY <1>1, UsesTyped
    <3>2. QED
      BY <1>1, <3>1 DEF Out, Outs, OutTypes
  <2>2. QED
    BY <2>1 DEF Choices
<1>3. ASSUME NEW f \in Choices(Inputs, OutsOf) PROVE rule[f] \in Choices(Inputs, OutsOf)
  <2>1. ASSUME NEW x \in Inputs PROVE Rule(f)[x] \in OutsOf[x]
    BY <1>1, FindingTyped
  <2>2. QED
    BY <2>1 DEF Choices
<1>4. ASSUME NEW f \in Choices(Inputs, OutsOf), NEW g \in Choices(Inputs, OutsOf),
             NEW x \in Inputs, \A y \in Inputs : SizeOf[y] < SizeOf[x] => f[y] = g[y]
      PROVE  rule[f][x] = rule[g][x]
  <2>1. Finding(f, x[1], x[2], x[3], x[4]) = Finding(g, x[1], x[2], x[3], x[4])
    BY <1>1, <1>4, FindingLocal
  <2>2. QED
    BY <2>1
<1>5. \A x \in Inputs : SizeOf[x] \in Nat
  BY <1>1, TermParts
<1> HIDE DEF Rule, start
<1>6. Descends(rule, Inputs, OutsOf, SizeOf)
  <2> HIDE DEF rule
  <2>1. QED
    BY <1>3, <1>4, <1>5 DEF Descends
<1>7. \E f \in Choices(Inputs, OutsOf) : rule[f] = f
  <2> HIDE DEF rule
  <2>1. QED
    BY <1>2, <1>6, RecursionSolved
<1>8. \E f : f = Rule(f)
  BY <1>7
<1>9. Synth = CHOOSE f : f = Rule(f)
  BY DEF Synth, Rule
<1>10. Synth = Rule(Synth)
  BY <1>8, <1>9
<1>11. <<t, bs, ret, c>> \in Inputs
  BY DEF Inputs
<1>12. Rule(Synth)[<<t, bs, ret, c>>] = Finding(Synth, t, bs, ret, c)
  BY <1>11 DEF Rule
<1>13. QED
  BY <1>10, <1>12

-----------------------------------------------------------------------------
(***************************************************************************)
(* What synth counts.                                                      *)
(***************************************************************************)

\* No path has more than the most uses, and what is not linear has none.
Bounded(us, bs) ==
    /\ us \in [DOMAIN bs -> Nat \X Nat]
    /\ \A k \in DOMAIN bs :
          /\ us[k][1] <= us[k][2]
          /\ ~ bs[k].linear => us[k] = <<0, 0>>

Found(out, bs) == out.type \in OutTypes /\ out.ok \in BOOLEAN /\ Bounded(out.uses, bs)

\* Uses of no variable and of one are bounded as counts are.
LEMMA BoundedUses ==
    ASSUME NEW bs, NEW v
    PROVE  Bounded(NoUses(bs), bs) /\ Bounded(AtomUses(bs, v), bs)
BY DEF Bounded, NoUses, AtomUses

\* So are the uses of arguments.
LEMMA BoundedArguments ==
    ASSUME NEW bs, NEW n, NEW args \in Seq(0 .. n)
    PROVE  Bounded(ArgumentUses(bs, args), bs)
<1> DEFINE N(k) == Cardinality({i \in DOMAIN args : args[i] = k})
           us == ArgumentUses(bs, args)
<1>1. us \in [DOMAIN bs -> Nat \X Nat]
  BY ArgumentsTyped
<1>2. \A k \in DOMAIN bs : us[k] = IF bs[k].linear THEN <<N(k), N(k)>> ELSE <<0, 0>>
  BY DEF ArgumentUses
<1> HIDE DEF us, N
<1>3. \A k \in DOMAIN bs : us[k][1] \in Nat
  BY <1>1
<1>4. ASSUME NEW k \in DOMAIN bs
      PROVE  us[k][1] <= us[k][2] /\ (~ bs[k].linear => us[k] = <<0, 0>>)
  <2>1. us[k] = IF bs[k].linear THEN <<N(k), N(k)>> ELSE <<0, 0>>
    BY <1>2
  <2>2. us[k] = <<N(k), N(k)>> \/ us[k] = <<0, 0>>
    BY <2>1, Zenon
  <2>3. us[k][1] = us[k][2]
    BY <2>2
  <2>4. ~ bs[k].linear => us[k] = <<0, 0>>
    BY <2>1, Zenon
  <2>5. QED
    BY <1>3, <2>3, <2>4
<1>5. Bounded(us, bs)
  BY <1>1, <1>4 DEF Bounded
<1>6. QED
  BY <1>5 DEF us

\* So are those of two parts, of one of two arms, and of a loop.
LEMMA BoundedSums ==
    ASSUME NEW bs, NEW a, NEW b, Bounded(a, bs), Bounded(b, bs)
    PROVE  /\ Bounded(InSequence(a, b), bs)
           /\ Bounded(Merged(a, b), bs)
           /\ Bounded(AnyTurns(a), bs)
<1>1. /\ InSequence(a, b) \in [DOMAIN bs -> Nat \X Nat]
      /\ Merged(a, b) \in [DOMAIN bs -> Nat \X Nat]
      /\ AnyTurns(a) \in [DOMAIN bs -> Nat \X Nat]
  BY SummedTyped DEF Bounded
<1>2. DOMAIN a = DOMAIN bs /\ DOMAIN b = DOMAIN bs
  BY DEF Bounded
<1>3. \A k \in DOMAIN bs :
          /\ a[k][1] \in Nat /\ a[k][2] \in Nat /\ b[k][1] \in Nat /\ b[k][2] \in Nat
          /\ a[k][1] <= a[k][2] /\ b[k][1] <= b[k][2]
          /\ ~ bs[k].linear => a[k] = <<0, 0>> /\ b[k] = <<0, 0>>
  BY DEF Bounded
<1>4. ASSUME NEW k \in DOMAIN bs
      PROVE  /\ InSequence(a, b)[k] = <<a[k][1] + b[k][1], a[k][2] + b[k][2]>>
             /\ Merged(a, b)[k] = <<IF b[k][1] < a[k][1] THEN b[k][1] ELSE a[k][1],
                                    IF b[k][2] > a[k][2] THEN b[k][2] ELSE a[k][2]>>
             /\ AnyTurns(a)[k] = IF a[k][2] >= 1 THEN <<0, 2>> ELSE <<0, 0>>
  BY <1>2 DEF InSequence, Merged, AnyTurns
<1>5. ASSUME NEW k \in DOMAIN bs
      PROVE  /\ InSequence(a, b)[k][1] <= InSequence(a, b)[k][2]
             /\ ~ bs[k].linear => InSequence(a, b)[k] = <<0, 0>>
  <2>1. a[k][1] + b[k][1] <= a[k][2] + b[k][2]
    BY <1>3
  <2>2. ~ bs[k].linear =>
            a[k][1] = 0 /\ a[k][2] = 0 /\ b[k][1] = 0 /\ b[k][2] = 0
    BY <1>3
  <2>3. QED
    BY <1>4, <2>1, <2>2
<1>6. \A k \in DOMAIN bs :
          /\ Merged(a, b)[k][1] <= Merged(a, b)[k][2]
          /\ ~ bs[k].linear => Merged(a, b)[k] = <<0, 0>>
  BY <1>3, <1>4
<1>7. \A k \in DOMAIN bs :
          /\ AnyTurns(a)[k][1] <= AnyTurns(a)[k][2]
          /\ ~ bs[k].linear => AnyTurns(a)[k] = <<0, 0>>
  BY <1>3, <1>4
<1>8. QED
  BY <1>1, <1>5, <1>6, <1>7 DEF Bounded

\* So are those outside of a binder, and they are the same there.
LEMMA BoundedOutside ==
    ASSUME NEW bs \in Environments, NEW b, NEW us, Bounded(us, Append(bs, b)),
           b \in [type : OutTypes, linear : BOOLEAN]
    PROVE  /\ Bounded(Outside(bs, us), bs)
           /\ \A k \in 1 .. Len(bs) : Outside(bs, us)[k] = us[k]
<1>1. /\ DOMAIN bs = 1 .. Len(bs) /\ Len(bs) \in Nat
      /\ DOMAIN Append(bs, b) = 1 .. Len(bs) + 1
      /\ \A k \in 1 .. Len(bs) : Append(bs, b)[k] = bs[k]
  BY DEF Environments, OutTypes
<1>2. \A k \in 1 .. Len(bs) : k \in 1 .. Len(bs) + 1
  BY <1>1
<1>3. QED
  BY <1>1, <1>2 DEF Bounded, Outside

\* What synth finds is within bounds.
LEMMA SynthBounded ==
    ASSUME NEW term \in AllTerms, NEW es \in Environments, NEW re \in Types, NEW ca \in BOOLEAN
    PROVE  Found(Synth[<<term, es, re, ca>>], es)
<1> DEFINE Good(t) == \A bs \in Environments : \A ret \in Types : \A c \in BOOLEAN :
                          Found(Synth[<<t, bs, ret, c>>], bs)
           Bad == {t \in AllTerms : ~ Good(t)}
           sizes == {Size(t) : t \in Bad}
<1>1. SUFFICES ASSUME Bad # {} PROVE FALSE
  <2>1. Good(term)
    BY <1>1
  <2>2. QED
    BY <2>1
<1>2. sizes \in SUBSET Nat /\ sizes # {}
  BY <1>1, TermParts
<1>3. PICK s \in sizes : \A r \in sizes : s <= r
  <2> HIDE DEF sizes
  <2>1. QED
    BY <1>2, LeastExists
<1>4. PICK t \in Bad : Size(t) = s
  OBVIOUS
<1>5. PICK bs \in Environments, ret \in Types, c \in BOOLEAN :
          ~ Found(Synth[<<t, bs, ret, c>>], bs)
  BY <1>4
<1> DEFINE out == Synth[<<t, bs, ret, c>>]
<1>6. PICK n \in DOMAIN Terms : n \in Nat /\ t \in Terms[n] /\ IsTerm(t, n) /\ Size(t) \in Nat
  BY <1>4, TermParts
<1>7. ASSUME NEW p, NEW m, Part(p, m, t), NEW in \in Environments
      PROVE  Found(Synth[<<p, in, ret, c>>], in)
  <2>1. p \in AllTerms /\ Size(p) < Size(t) /\ Size(p) \in Nat
    BY <1>7, PartTerm, TermParts
  <2>2. p \notin Bad
    BY <1>3, <1>4, <1>6, <2>1
  <2>3. Good(p)
    BY <2>1, <2>2
  <2>4. QED
    BY <2>3
<1>8. out = Finding(Synth, t, bs, ret, c)
  BY <1>4, Synthesized
<1>9. DOMAIN bs = 1 .. Len(bs) /\ Len(bs) \in Nat
  BY DEF Environments
<1> HIDE DEF Bad, sizes
<1>10. CASE t.do = "atom"
  <2>1. out = Out(AtomType(bs, t.v), AtomUses(bs, t.v), TRUE)
    BY <1>8, <1>10 DEF Finding
  <2>2. QED
    BY <1>5, <2>1, AtomTyped, BoundedUses DEF Found, Out
<1>11. CASE t.do = "app"
  <2> DEFINE fit == \A i \in DOMAIN t.params :
                        Compatible(t.params[i], AtomType(bs, t.args[i]))
  <2>0. out = Out(t.ret, ArgumentUses(bs, t.args), fit)
    BY <1>8, <1>11 DEF Finding
  <2>a. fit \in BOOLEAN
    OBVIOUS
  <2> HIDE DEF fit
  <2>1. /\ out.type = t.ret /\ out.uses = ArgumentUses(bs, t.args)
        /\ out.ok \in BOOLEAN
    BY <2>0, <2>a DEF Out
  <2>2. t.ret \in OutTypes /\ t.args \in Seq(0 .. n)
    BY <1>6, <1>11 DEF IsTerm, OutTypes
  <2>3. QED
    BY <1>5, <2>1, <2>2, BoundedArguments DEF Found
<1>12. CASE t.do = "let"
  <2> DEFINE value == Synth[<<t.value, bs, ret, c>>]
             inner == Append(bs, Bind(value.type))
             body == Synth[<<t.body, inner, ret, c>>]
  <2>1. out = OfLet(bs, value, body)
    BY <1>8, <1>12 DEF Finding
  <2>2. Found(value, bs)
    BY <1>6, <1>7, <1>12 DEF IsTerm
  <2> HIDE DEF value
  <2>3. inner \in Environments /\ Bind(value.type) \in [type : OutTypes, linear : BOOLEAN]
    BY <2>2, BoundEnvironment DEF Found, Bind, Binder
  <2>4. Found(body, inner)
    BY <1>6, <1>7, <1>12, <2>3 DEF IsTerm
  <2> HIDE DEF body
  <2>5. Bounded(Outside(bs, body.uses), bs)
    BY <2>3, <2>4, BoundedOutside DEF Found
  <2>6. Bounded(InSequence(value.uses, Outside(bs, body.uses)), bs)
    BY <2>2, <2>5, BoundedSums DEF Found
  <2>7. QED
    BY <1>5, <2>1, <2>4, <2>6 DEF Found, OfLet, Out
<1>13. CASE t.do = "match"
  <2> DEFINE a == Synth[<<t.arms[1], bs, ret, c>>]
             b == Synth[<<t.arms[2], bs, ret, c>>]
  <2>1. out = OfMatch(a, b)
    BY <1>8, <1>13 DEF Finding
  <2>2. Part(t.arms[1], n, t) /\ Part(t.arms[2], n, t)
    BY <1>6, <1>13 DEF IsTerm
  <2>3. Found(a, bs) /\ Found(b, bs)
    BY <1>7, <2>2
  <2> HIDE DEF a, b
  <2>4. QED
    BY <1>5, <2>1, <2>3, BoundedSums DEF Found, OfMatch, Out
<1>14. CASE t.do = "raise"
  <2>1. out = Out("Any", NoUses(bs), TRUE)
    BY <1>8, <1>14 DEF Finding
  <2>2. QED
    BY <1>5, <2>1, BoundedUses DEF Found, Out, OutTypes
<1>15. CASE t.do = "return"
  <2>1. out = Out("Any", AtomUses(bs, t.v), Compatible(ret, AtomType(bs, t.v)))
    BY <1>8, <1>15 DEF Finding
  <2>2. QED
    BY <1>5, <2>1, BoundedUses DEF Found, Out, OutTypes, Compatible
<1>16. CASE t.do = "loop"
  <2> DEFINE inner == Append(bs, Carried(t, bs))
             cond == Synth[<<t.cond, inner, ret, c>>]
             body == Synth[<<t.body, inner, ret, c>>]
  <2>1. out = OfLoop(t, bs, cond, body, c)
    BY <1>8, <1>16 DEF Finding
  <2>2. inner \in Environments /\ Carried(t, bs) \in [type : OutTypes, linear : BOOLEAN]
    BY AtomTyped, BoundEnvironment DEF Carried, Binder
  <2>3. Found(cond, inner) /\ Found(body, inner)
    BY <1>6, <1>7, <1>16, <2>2 DEF IsTerm
  <2> HIDE DEF cond, body
  <2>4. /\ Bounded(Outside(bs, cond.uses), bs)
        /\ Bounded(AnyTurns(Outside(bs, body.uses)), bs)
    BY <2>2, <2>3, BoundedOutside, BoundedSums DEF Found
  <2>5. Bounded(InSequence(Outside(bs, cond.uses), AnyTurns(Outside(bs, body.uses))), bs)
    BY <2>4, BoundedSums
  <2>6. Bounded(InSequence(AtomUses(bs, t.init),
            InSequence(Outside(bs, cond.uses), AnyTurns(Outside(bs, body.uses)))), bs)
    BY <2>5, BoundedUses, BoundedSums
  <2>7. QED
    BY <1>5, <2>1, <2>6, AtomTyped DEF Found, OfLoop, Out
<1>17. QED
  BY <1>6, <1>10, <1>11, <1>12, <1>13, <1>14, <1>15, <1>16 DEF IsTerm

-----------------------------------------------------------------------------
(***************************************************************************)
(* What a part of an accepted body still has to use.                       *)
(***************************************************************************)

Fits(type, wanted) == type \in {wanted, "Any"}

\* The variables in owed are used once on every path, the others on none.
Owes(us, owed, n) ==
    /\ owed \in SUBSET (1 .. n)
    /\ \A k \in 1 .. n : us[k] = IF k \in owed THEN <<1, 1>> ELSE <<0, 0>>

\* A term that yields a value of a type, if any, and uses what it owes.
Checks(t, bs, ret, type, owed) ==
    /\ Len(bs) \in DOMAIN Terms /\ t \in Terms[Len(bs)]
    /\ LET out == Synth[<<t, bs, ret, TRUE>>]
       IN  out.ok /\ Fits(out.type, type) /\ Owes(out.uses, owed, Len(bs))

\* Binders of lets, parameters and loops that carry something plain.
Proper(bs) == bs \in Environments /\ \A k \in DOMAIN bs : bs[k] = Bind(bs[k].type)

\* What a new variable of a type owes.
New(type, k) == IF type = "Linear" THEN {k} ELSE {}

\* A term that checks is one, and what synth says of it is its finding.
LEMMA CheckedTerm ==
    ASSUME NEW t, NEW bs, Proper(bs), NEW ret \in Types, NEW type, NEW owed,
           Checks(t, bs, ret, type, owed)
    PROVE  /\ t \in AllTerms /\ t \in Terms[Len(bs)] /\ IsTerm(t, Len(bs)) /\ bs \in Environments
           /\ Len(bs) \in DOMAIN Terms
           /\ DOMAIN bs = 1 .. Len(bs) /\ Len(bs) \in Nat
           /\ Synth[<<t, bs, ret, TRUE>>] = Finding(Synth, t, bs, ret, TRUE)
           /\ Found(Synth[<<t, bs, ret, TRUE>>], bs)
<1>1. t \in AllTerms /\ bs \in Environments
  BY DEF Checks, AllTerms, Proper
<1>2. IsTerm(t, Len(bs))
  BY TermsAssumption DEF Checks
<1>3. DOMAIN bs = 1 .. Len(bs) /\ Len(bs) \in Nat
  BY <1>1 DEF Environments
<1>4. TRUE \in BOOLEAN
  OBVIOUS
<1>5. QED
  BY <1>1, <1>2, <1>3, <1>4, Synthesized, SynthBounded DEF Checks

\* A binder is linear if its type is.
LEMMA LinearBinder ==
    ASSUME NEW bs, Proper(bs), NEW k \in DOMAIN bs
    PROVE  bs[k].type \in OutTypes /\ bs[k].linear = (bs[k].type = "Linear")
<1>1. bs[k] = Bind(bs[k].type)
  BY DEF Proper
<1>2. Bind(bs[k].type).linear = (bs[k].type = "Linear")
  BY DEF Bind, Binder
<1>3. AtomType(bs, k) = bs[k].type \/ k = 0
  BY DEF AtomType
<1>4. k # 0
  BY DEF Proper, Environments
<1>5. bs[k].type \in OutTypes
  BY <1>3, <1>4, AtomTyped DEF Proper
<1>6. QED
  BY <1>1, <1>2, <1>5

\* A variable is used by an atom that is it, if it is linear.
LEMMA AtomUsesAt ==
    ASSUME NEW bs, Proper(bs), NEW k \in DOMAIN bs, NEW v
    PROVE  AtomUses(bs, v)[k] =
               IF k = v /\ bs[k].type = "Linear" THEN <<1, 1>> ELSE <<0, 0>>
<1>1. AtomUses(bs, v)[k] = IF k = v /\ bs[k].linear THEN <<1, 1>> ELSE <<0, 0>>
  BY DEF AtomUses
<1>2. bs[k].linear <=> bs[k].type = "Linear"
  BY LinearBinder
<1>3. QED
  BY <1>1, <1>2, Zenon

\* A part of a term is a term of as many variables.
LEMMA PartOf ==
    ASSUME NEW t, NEW n, NEW whole, Part(t, n, whole)
    PROVE  n \in DOMAIN Terms /\ t \in Terms[n] /\ t \in AllTerms
BY DEF Part, AllTerms

\* A binder more keeps the others.
LEMMA ProperBound ==
    ASSUME NEW bs, Proper(bs), NEW T \in OutTypes
    PROVE  /\ Proper(Append(bs, Bind(T))) /\ Len(Append(bs, Bind(T))) = Len(bs) + 1
           /\ Append(bs, Bind(T))[Len(bs) + 1] = Bind(T)
           /\ \A k \in 1 .. Len(bs) : Append(bs, Bind(T))[k] = bs[k]
<1>1. bs \in Environments /\ DOMAIN bs = 1 .. Len(bs) /\ Len(bs) \in Nat
  BY DEF Proper, Environments
<1>2. /\ Append(bs, Bind(T)) \in Environments
      /\ DOMAIN Append(bs, Bind(T)) = 1 .. Len(bs) + 1
  BY <1>1, BoundEnvironment
<1>3. /\ Append(bs, Bind(T))[Len(bs) + 1] = Bind(T)
      /\ \A k \in 1 .. Len(bs) : Append(bs, Bind(T))[k] = bs[k]
      /\ Len(Append(bs, Bind(T))) = Len(bs) + 1
  BY <1>1 DEF Environments
<1>4. Bind(T).type = T
  BY DEF Bind, Binder
<1>5. QED
  BY <1>1, <1>2, <1>3, <1>4 DEF Proper

\* If two parts run and a variable is used once in all, one of them uses it.
LEMMA OwesSplit ==
    ASSUME NEW bs, Proper(bs), NEW a, NEW b, Bounded(a, bs), Bounded(b, bs),
           NEW owed, Owes(InSequence(a, b), owed, Len(bs))
    PROVE  \E x, y : /\ x \cup y = owed /\ x \cap y = {}
                     /\ Owes(a, x, Len(bs)) /\ Owes(b, y, Len(bs))
<1> DEFINE n == Len(bs)
           x == {k \in owed : a[k] = <<1, 1>>}
           y == {k \in owed : b[k] = <<1, 1>>}
<1>1. DOMAIN bs = 1 .. n
  BY DEF Proper, Environments
<1>2. ASSUME NEW k \in 1 .. n
      PROVE  /\ a[k] = <<a[k][1], a[k][2]>> /\ b[k] = <<b[k][1], b[k][2]>>
             /\ a[k][1] \in Nat /\ a[k][2] \in Nat /\ b[k][1] \in Nat /\ b[k][2] \in Nat
             /\ a[k][1] <= a[k][2] /\ b[k][1] <= b[k][2]
             /\ InSequence(a, b)[k] = <<a[k][1] + b[k][1], a[k][2] + b[k][2]>>
  <2>1. a[k] \in Nat \X Nat /\ b[k] \in Nat \X Nat /\ k \in DOMAIN a
    BY <1>1 DEF Bounded
  <2>2. a[k][1] <= a[k][2] /\ b[k][1] <= b[k][2]
    BY <1>1 DEF Bounded
  <2>3. QED
    BY <2>1, <2>2 DEF InSequence
<1>3. ASSUME NEW k \in 1 .. n, k \in owed
      PROVE  \/ a[k] = <<1, 1>> /\ b[k] = <<0, 0>>
             \/ a[k] = <<0, 0>> /\ b[k] = <<1, 1>>
  <2>1. InSequence(a, b)[k] = <<1, 1>>
    BY <1>3 DEF Owes
  <2>2. a[k][1] + b[k][1] = 1 /\ a[k][2] + b[k][2] = 1
    BY <1>2, <2>1
  <2>3. \/ a[k][1] = 1 /\ a[k][2] = 1 /\ b[k][1] = 0 /\ b[k][2] = 0
        \/ a[k][1] = 0 /\ a[k][2] = 0 /\ b[k][1] = 1 /\ b[k][2] = 1
    BY <1>2, <2>2
  <2>4. QED
    BY <1>2, <2>3
<1>4. ASSUME NEW k \in 1 .. n, k \notin owed
      PROVE  a[k] = <<0, 0>> /\ b[k] = <<0, 0>>
  <2>1. InSequence(a, b)[k] = <<0, 0>>
    BY <1>4 DEF Owes
  <2>2. a[k][1] + b[k][1] = 0 /\ a[k][2] + b[k][2] = 0
    BY <1>2, <2>1
  <2>3. a[k][1] = 0 /\ a[k][2] = 0 /\ b[k][1] = 0 /\ b[k][2] = 0
    BY <1>2, <2>2
  <2>4. QED
    BY <1>2, <2>3
<1>5. owed \in SUBSET (1 .. n)
  BY DEF Owes
<1>6. <<1, 1>> # <<0, 0>>
  OBVIOUS
<1>7. x \cup y = owed /\ x \cap y = {}
  <2>1. \A k \in owed : (k \in x /\ k \notin y) \/ (k \notin x /\ k \in y)
    BY <1>3, <1>5, <1>6
  <2>2. x \subseteq owed /\ y \subseteq owed
    OBVIOUS
  <2> HIDE DEF x, y
  <2>3. QED
    BY <2>1, <2>2
<1>8. Owes(a, x, n)
  BY <1>3, <1>4, <1>5, <1>6 DEF Owes
<1>9. Owes(b, y, n)
  BY <1>3, <1>4, <1>5, <1>6 DEF Owes
<1>10. QED
  BY <1>7, <1>8, <1>9

\* What a let owes is owed by its value or its body, which owes the new variable
\* too if that is linear.
LEMMA CheckLet ==
    ASSUME NEW t, NEW bs, Proper(bs), NEW ret \in Types, NEW type, NEW owed,
           Checks(t, bs, ret, type, owed), t.do = "let"
    PROVE  \E T \in OutTypes : \E x, y :
              /\ x \cup y = owed /\ x \cap y = {}
              /\ Checks(t.value, bs, ret, T, x)
              /\ Checks(t.body, Append(bs, Bind(T)), ret, type, y \cup New(T, Len(bs) + 1))
<1> DEFINE out == Synth[<<t, bs, ret, TRUE>>]
           value == Synth[<<t.value, bs, ret, TRUE>>]
           T == value.type
           inner == Append(bs, Bind(T))
           body == Synth[<<t.body, inner, ret, TRUE>>]
           n == Len(bs)
<1>1. /\ IsTerm(t, n) /\ out = Finding(Synth, t, bs, ret, TRUE) /\ bs \in Environments
      /\ DOMAIN bs = 1 .. n /\ n \in Nat
  BY CheckedTerm
<1>2. out = OfLet(bs, value, body)
  BY <1>1 DEF Finding
<1>3. Part(t.value, n, t) /\ Part(t.body, n + 1, t)
  BY <1>1 DEF IsTerm
<1>4. /\ t.value \in AllTerms /\ t.value \in Terms[n] /\ n \in DOMAIN Terms
      /\ t.body \in AllTerms /\ t.body \in Terms[n + 1] /\ n + 1 \in DOMAIN Terms
  BY <1>3, PartOf
<1>5. Found(value, bs)
  BY <1>1, <1>4, SynthBounded
<1>6. T \in OutTypes
  BY <1>5 DEF Found
<1>7. /\ Proper(inner) /\ Len(inner) = n + 1 /\ inner[n + 1] = Bind(T)
      /\ inner \in Environments /\ DOMAIN inner = 1 .. n + 1
  <2>1. Proper(inner) /\ Len(inner) = n + 1 /\ inner[n + 1] = Bind(T)
    BY <1>6, ProperBound
  <2> HIDE DEF inner
  <2>2. QED
    BY <2>1 DEF Proper, Environments
<1>8. Found(body, inner)
  BY <1>4, <1>7, SynthBounded
<1>9. Bind(T) \in [type : OutTypes, linear : BOOLEAN] /\ Bind(T).linear = (T = "Linear")
  BY <1>6 DEF Bind, Binder
<1>10. /\ Bounded(Outside(bs, body.uses), bs)
       /\ \A k \in 1 .. n : Outside(bs, body.uses)[k] = body.uses[k]
  <2>1. Bounded(body.uses, inner)
    BY <1>8 DEF Found
  <2> DEFINE bind == Bind(T)
             us == body.uses
  <2>2. Bounded(us, Append(bs, bind)) /\ bind \in [type : OutTypes, linear : BOOLEAN]
    BY <1>9, <2>1
  <2> HIDE DEF bind, us
  <2>3. Bounded(Outside(bs, us), bs) /\ \A k \in 1 .. n : Outside(bs, us)[k] = us[k]
    BY <1>1, <2>2, BoundedOutside
  <2>4. QED
    BY <2>3 DEF us
<1>11. /\ out.ok /\ Fits(out.type, type) /\ Owes(out.uses, owed, n)
  BY DEF Checks
<1> HIDE DEF out, value, body, inner
<1>12. /\ value.ok /\ body.ok /\ out.type = body.type
       /\ T = "Linear" => body.uses[n + 1] = <<1, 1>>
       /\ out.uses = InSequence(value.uses, Outside(bs, body.uses))
  BY <1>2, <1>9, <1>11 DEF OfLet, Out, Once
<1>13. PICK x, y : /\ x \cup y = owed /\ x \cap y = {}
                   /\ Owes(value.uses, x, n) /\ Owes(Outside(bs, body.uses), y, n)
  <2>1. Owes(InSequence(value.uses, Outside(bs, body.uses)), owed, n)
    BY <1>11, <1>12
  <2>2. Bounded(value.uses, bs)
    BY <1>5 DEF Found
  <2>3. QED
    BY <1>10, <2>1, <2>2, OwesSplit
<1>14. Checks(t.value, bs, ret, T, x)
  BY <1>4, <1>12, <1>13 DEF Checks, Fits, value
<1>15. Owes(body.uses, y \cup New(T, n + 1), n + 1)
  <2>1. body.uses[n + 1] = IF T = "Linear" THEN <<1, 1>> ELSE <<0, 0>>
    <3>1. CASE T = "Linear"
      BY <1>12, <3>1
    <3>2. CASE T # "Linear"
      <4>1. ~ inner[n + 1].linear
        BY <1>7, <1>9, <3>2
      <4>2. n + 1 \in DOMAIN inner
        BY <1>1, <1>7
      <4>3. QED
        BY <1>8, <3>2, <4>1, <4>2 DEF Found, Bounded
    <3>3. QED
      BY <3>1, <3>2
  <2>2. y \in SUBSET (1 .. n)
    BY <1>13 DEF Owes
  <2>3. \A k \in 1 .. n : body.uses[k] = IF k \in y THEN <<1, 1>> ELSE <<0, 0>>
    BY <1>10, <1>13 DEF Owes
  <2>4. n + 1 \notin y /\ \A k \in 1 .. n : k # n + 1
    BY <1>1, <2>2
  <2>5. \A k \in 1 .. n + 1 : k \in 1 .. n \/ k = n + 1
    BY <1>1
  <2>6. n + 1 \in 1 .. n + 1 /\ 1 .. n \subseteq 1 .. n + 1
    BY <1>1
  <2>7. QED
    BY <2>1, <2>2, <2>3, <2>4, <2>5, <2>6 DEF Owes, New
<1>16. Checks(t.body, inner, ret, type, y \cup New(T, n + 1))
  BY <1>4, <1>7, <1>11, <1>12, <1>15 DEF Checks, body
<1>17. QED
  BY <1>6, <1>13, <1>14, <1>16 DEF inner

\* Whichever arm runs, it uses what the match owes.
LEMMA CheckMatch ==
    ASSUME NEW t, NEW bs, Proper(bs), NEW ret \in Types, NEW type, NEW owed,
           Checks(t, bs, ret, type, owed), t.do = "match", NEW i \in DOMAIN t.arms
    PROVE  Checks(t.arms[i], bs, ret, type, owed)
<1> DEFINE out == Synth[<<t, bs, ret, TRUE>>]
           a == Synth[<<t.arms[1], bs, ret, TRUE>>]
           b == Synth[<<t.arms[2], bs, ret, TRUE>>]
           n == Len(bs)
<1>1. /\ IsTerm(t, n) /\ out = Finding(Synth, t, bs, ret, TRUE) /\ bs \in Environments
      /\ DOMAIN bs = 1 .. n /\ n \in Nat
  BY CheckedTerm
<1>2. out = OfMatch(a, b)
  BY <1>1 DEF Finding
<1>3. Part(t.arms[1], n, t) /\ Part(t.arms[2], n, t) /\ i \in {1, 2}
  BY <1>1 DEF IsTerm
<1>4. /\ t.arms[1] \in AllTerms /\ t.arms[1] \in Terms[n] /\ n \in DOMAIN Terms
      /\ t.arms[2] \in AllTerms /\ t.arms[2] \in Terms[n]
  BY <1>3, PartOf
<1>5. Found(a, bs) /\ Found(b, bs)
  BY <1>1, <1>4, SynthBounded
<1>6. out.ok /\ Fits(out.type, type) /\ Owes(out.uses, owed, n)
  BY DEF Checks
<1> HIDE DEF out, a, b
<1>7. /\ a.ok /\ b.ok /\ Compatible(a.type, b.type) /\ out.uses = Merged(a.uses, b.uses)
      /\ out.type = IF a.type = "Any" THEN b.type ELSE a.type
  BY <1>2, <1>6 DEF OfMatch, Out
<1>8. Fits(a.type, type) /\ Fits(b.type, type)
  BY <1>6, <1>7 DEF Fits, Compatible
<1>9. ASSUME NEW k \in 1 .. n
      PROVE  /\ a.uses[k] = IF k \in owed THEN <<1, 1>> ELSE <<0, 0>>
             /\ b.uses[k] = IF k \in owed THEN <<1, 1>> ELSE <<0, 0>>
  <2> DEFINE u == a.uses[k]
             v == b.uses[k]
  <2>1. /\ u = <<u[1], u[2]>> /\ v = <<v[1], v[2]>>
        /\ u[1] \in Nat /\ u[2] \in Nat /\ v[1] \in Nat /\ v[2] \in Nat
        /\ u[1] <= u[2] /\ v[1] <= v[2]
    BY <1>1, <1>5 DEF Found, Bounded
  <2>2. Merged(a.uses, b.uses)[k] =
            <<IF v[1] < u[1] THEN v[1] ELSE u[1], IF v[2] > u[2] THEN v[2] ELSE u[2]>>
    BY <1>1, <1>5 DEF Merged, Found, Bounded
  <2>3. Merged(a.uses, b.uses)[k] = IF k \in owed THEN <<1, 1>> ELSE <<0, 0>>
    BY <1>6, <1>7 DEF Owes
  <2> HIDE DEF u, v
  <2>4. CASE k \in owed
    <3>1. /\ (IF v[1] < u[1] THEN v[1] ELSE u[1]) = 1
          /\ (IF v[2] > u[2] THEN v[2] ELSE u[2]) = 1
      BY <2>2, <2>3, <2>4
    <3>2. u[1] = 1 /\ u[2] = 1 /\ v[1] = 1 /\ v[2] = 1
      BY <2>1, <3>1
    <3>3. QED
      BY <2>1, <2>4, <3>2 DEF u, v
  <2>5. CASE k \notin owed
    <3>1. (IF v[2] > u[2] THEN v[2] ELSE u[2]) = 0
      BY <2>2, <2>3, <2>5
    <3>2. u[1] = 0 /\ u[2] = 0 /\ v[1] = 0 /\ v[2] = 0
      BY <2>1, <3>1
    <3>3. QED
      BY <2>1, <2>5, <3>2 DEF u, v
  <2>6. QED
    BY <2>4, <2>5
<1>10. owed \in SUBSET (1 .. n)
  BY <1>6 DEF Owes
<1>11. Owes(a.uses, owed, n) /\ Owes(b.uses, owed, n)
  BY <1>9, <1>10 DEF Owes
<1>12. Checks(t.arms[1], bs, ret, type, owed) /\ Checks(t.arms[2], bs, ret, type, owed)
  BY <1>4, <1>7, <1>8, <1>11 DEF Checks, a, b
<1>13. QED
  BY <1>3, <1>12

\* A counted loop carries something plain and uses nothing of its outside.
LEMMA CheckLoop ==
    ASSUME NEW t, NEW bs, Proper(bs), NEW ret \in Types, NEW type \in OutTypes, NEW owed,
           Checks(t, bs, ret, type, owed), t.do = "loop"
    PROVE  /\ AtomType(bs, t.init) = "Plain" /\ type = "Plain" /\ owed = {}
           /\ Checks(t.cond, Append(bs, Bind("Plain")), ret, "Plain", {})
           /\ Checks(t.body, Append(bs, Bind("Plain")), ret, "Plain", {})
<1> DEFINE out == Synth[<<t, bs, ret, TRUE>>]
           inner == Append(bs, Bind("Plain"))
           cond == Synth[<<t.cond, inner, ret, TRUE>>]
           body == Synth[<<t.body, inner, ret, TRUE>>]
           n == Len(bs)
<1>1. /\ IsTerm(t, n) /\ out = Finding(Synth, t, bs, ret, TRUE) /\ bs \in Environments
      /\ DOMAIN bs = 1 .. n /\ n \in Nat
  BY CheckedTerm
<1>2. out.ok /\ Fits(out.type, type) /\ Owes(out.uses, owed, n)
  BY DEF Checks
<1>3. AtomType(bs, t.init) = "Plain"
  <2> DEFINE around == Append(bs, Carried(t, bs))
             con == Synth[<<t.cond, around, ret, TRUE>>]
             bod == Synth[<<t.body, around, ret, TRUE>>]
  <2>1. out = OfLoop(t, bs, con, bod, TRUE)
    BY <1>1 DEF Finding
  <2> HIDE DEF out, con, bod
  <2>2. QED
    BY <1>2, <2>1 DEF OfLoop, Out, Counted
<1>4. Carried(t, bs) = Bind("Plain")
  BY <1>3 DEF Carried, Bind, Binder
<1>5. out = OfLoop(t, bs, cond, body, TRUE)
  BY <1>1, <1>4 DEF Finding
<1>6. Part(t.cond, n + 1, t) /\ Part(t.body, n + 1, t)
  BY <1>1 DEF IsTerm
<1>7. /\ t.cond \in AllTerms /\ t.cond \in Terms[n + 1] /\ n + 1 \in DOMAIN Terms
      /\ t.body \in AllTerms /\ t.body \in Terms[n + 1]
  BY <1>6, PartOf
<1>8. "Plain" \in OutTypes
  BY DEF OutTypes, Types
<1>9. /\ Proper(inner) /\ Len(inner) = n + 1 /\ inner[n + 1] = Bind("Plain")
      /\ inner \in Environments /\ DOMAIN inner = 1 .. n + 1
  <2>1. Proper(inner) /\ Len(inner) = n + 1 /\ inner[n + 1] = Bind("Plain")
    BY <1>8, ProperBound
  <2> HIDE DEF inner
  <2>2. QED
    BY <2>1 DEF Proper, Environments
<1>10. Found(cond, inner) /\ Found(body, inner)
  BY <1>7, <1>9, SynthBounded
<1>11. ASSUME NEW us, Bounded(us, inner)
       PROVE  /\ Bounded(Outside(bs, us), bs)
              /\ \A k \in 1 .. n : Outside(bs, us)[k] = us[k]
              /\ us[n + 1] = <<0, 0>>
  <2>1. Bind("Plain") \in [type : OutTypes, linear : BOOLEAN] /\ ~ Bind("Plain").linear
    BY <1>8 DEF Bind, Binder
  <2>2. n + 1 \in DOMAIN inner /\ ~ inner[n + 1].linear
    BY <1>1, <1>9, <2>1
  <2>3. us[n + 1] = <<0, 0>>
    BY <1>11, <2>2 DEF Bounded
  <2>4. QED
    BY <1>1, <1>11, <2>1, <2>3, BoundedOutside
<1> HIDE DEF out, cond, body
<1>12. /\ cond.ok /\ body.ok /\ Compatible("Plain", cond.type)
       /\ Outside(bs, cond.uses) = NoUses(bs) /\ body.type # "Linear"
       /\ out.type = "Plain"
       /\ out.uses = InSequence(AtomUses(bs, t.init),
                          InSequence(Outside(bs, cond.uses), AnyTurns(Outside(bs, body.uses))))
  BY <1>2, <1>3, <1>5 DEF OfLoop, Out, Counted
<1>13. type = "Plain"
  BY <1>2, <1>12 DEF Fits
<1>14. ASSUME NEW k \in 1 .. n
       PROVE  cond.uses[k] = <<0, 0>> /\ body.uses[k] = <<0, 0>> /\ k \notin owed
  <2> DEFINE u == body.uses[k]
  <2>1. NoUses(bs)[k] = <<0, 0>> /\ AtomUses(bs, t.init)[k] = <<0, 0>>
    <3>1. k = t.init => bs[k].type = "Plain"
      BY <1>1, <1>3 DEF AtomType
    <3>2. AtomUses(bs, t.init)[k] =
              IF k = t.init /\ bs[k].type = "Linear" THEN <<1, 1>> ELSE <<0, 0>>
      BY <1>1, AtomUsesAt
    <3>3. QED
      BY <1>1, <3>1, <3>2 DEF NoUses
  <2>2. /\ cond.uses[k] = <<0, 0>>
        /\ Bounded(Outside(bs, body.uses), bs) /\ Outside(bs, body.uses)[k] = u
    BY <1>10, <1>11, <1>12, <2>1 DEF Found
  <2>3. AnyTurns(Outside(bs, body.uses))[k] = IF u[2] >= 1 THEN <<0, 2>> ELSE <<0, 0>>
    BY <1>1, <2>2 DEF AnyTurns, Bounded
  <2>4. InSequence(Outside(bs, cond.uses), AnyTurns(Outside(bs, body.uses)))[k] =
            IF u[2] >= 1 THEN <<0, 2>> ELSE <<0, 0>>
    BY <1>1, <1>12, <2>1, <2>3 DEF InSequence, NoUses
  <2>5. out.uses[k] = IF u[2] >= 1 THEN <<0, 2>> ELSE <<0, 0>>
    <3> DEFINE after == InSequence(Outside(bs, cond.uses), AnyTurns(Outside(bs, body.uses)))
    <3>1. k \in DOMAIN AtomUses(bs, t.init)
      BY <1>1 DEF AtomUses
    <3>2. InSequence(AtomUses(bs, t.init), after)[k] =
              <<AtomUses(bs, t.init)[k][1] + after[k][1], AtomUses(bs, t.init)[k][2] + after[k][2]>>
      BY <3>1 DEF InSequence
    <3> HIDE DEF after
    <3>3. CASE u[2] >= 1
      <4>1. after[k] = <<0, 2>>
        BY <2>4, <3>3 DEF after
      <4>2. QED
        BY <1>12, <2>1, <3>2, <3>3, <4>1 DEF after
    <3>4. CASE ~ (u[2] >= 1)
      <4>1. after[k] = <<0, 0>>
        BY <2>4, <3>4 DEF after
      <4>2. QED
        BY <1>12, <2>1, <3>2, <3>4, <4>1 DEF after
    <3>5. QED
      BY <3>3, <3>4
  <2>6. out.uses[k] = IF k \in owed THEN <<1, 1>> ELSE <<0, 0>>
    BY <1>2 DEF Owes
  <2>7. k \notin owed /\ ~ (u[2] >= 1)
    BY <2>5, <2>6
  <2>8. u \in Nat \X Nat /\ u[1] <= u[2]
    BY <1>1, <2>2 DEF Bounded
  <2>9. u = <<0, 0>>
    BY <2>7, <2>8
  <2>10. QED
    BY <2>2, <2>7, <2>9
<1>15. owed = {}
  BY <1>2, <1>14 DEF Owes
<1>16. Owes(cond.uses, {}, n + 1) /\ Owes(body.uses, {}, n + 1)
  <2>1. cond.uses[n + 1] = <<0, 0>> /\ body.uses[n + 1] = <<0, 0>>
    BY <1>10, <1>11 DEF Found
  <2>2. \A k \in 1 .. n + 1 : k \in 1 .. n \/ k = n + 1
    BY <1>1
  <2>3. QED
    BY <1>14, <2>1, <2>2 DEF Owes
<1>17. Fits(cond.type, "Plain") /\ Fits(body.type, "Plain")
  BY <1>10, <1>12 DEF Fits, Compatible, Found, OutTypes, Types
<1>18. Checks(t.cond, inner, ret, "Plain", {}) /\ Checks(t.body, inner, ret, "Plain", {})
  BY <1>7, <1>9, <1>12, <1>16, <1>17 DEF Checks, cond, body
<1>19. QED
  BY <1>3, <1>13, <1>15, <1>18

\* An atom has the value and the type of its variable, and uses that.
LEMMA CheckAtom ==
    ASSUME NEW t, NEW bs, Proper(bs), NEW ret \in Types, NEW type, NEW owed,
           Checks(t, bs, ret, type, owed), t.do = "atom"
    PROVE  /\ t.v \in 0 .. Len(bs)
           /\ t.v = 0 => type = "Plain" /\ owed = {}
           /\ t.v # 0 => /\ Fits(bs[t.v].type, type)
                         /\ owed = New(bs[t.v].type, t.v)
<1> DEFINE out == Synth[<<t, bs, ret, TRUE>>]
           n == Len(bs)
<1>1. /\ IsTerm(t, n) /\ out = Finding(Synth, t, bs, ret, TRUE)
      /\ DOMAIN bs = 1 .. n /\ n \in Nat
  BY CheckedTerm
<1>2. out.ok /\ Fits(out.type, type) /\ Owes(out.uses, owed, n)
  BY DEF Checks
<1>3. out = Out(AtomType(bs, t.v), AtomUses(bs, t.v), TRUE) /\ t.v \in 0 .. n
  BY <1>1 DEF Finding, IsTerm
<1> HIDE DEF out
<1>4. ASSUME NEW k \in 1 .. n
      PROVE  (k \in owed) <=> (k = t.v /\ bs[k].type = "Linear")
  <2>1. AtomUses(bs, t.v)[k] =
            IF k = t.v /\ bs[k].type = "Linear" THEN <<1, 1>> ELSE <<0, 0>>
    BY <1>1, AtomUsesAt
  <2>2. AtomUses(bs, t.v)[k] = IF k \in owed THEN <<1, 1>> ELSE <<0, 0>>
    BY <1>2, <1>3 DEF Owes, Out
  <2>3. QED
    BY <2>1, <2>2
<1>5. owed \subseteq 1 .. n
  BY <1>2 DEF Owes
<1>6. CASE t.v = 0
  <2>1. owed = {}
    BY <1>1, <1>4, <1>5, <1>6
  <2>2. QED
    BY <1>2, <1>3, <1>6, <2>1 DEF Out, AtomType, Fits
<1>7. CASE t.v # 0
  <2>1. t.v \in 1 .. n
    BY <1>1, <1>3, <1>7
  <2>2. owed = New(bs[t.v].type, t.v)
    BY <1>4, <1>5, <2>1 DEF New
  <2>3. AtomType(bs, t.v) = bs[t.v].type
    BY <1>1, <1>7, <2>1 DEF AtomType
  <2>4. QED
    BY <1>2, <1>3, <1>7, <2>2, <2>3 DEF Out
<1>8. QED
  BY <1>6, <1>7

\* A return consumes its variable.
LEMMA CheckReturn ==
    ASSUME NEW t, NEW bs, Proper(bs), NEW ret \in Types, NEW type, NEW owed,
           Checks(t, bs, ret, type, owed), t.do = "return"
    PROVE  /\ t.v \in 0 .. Len(bs)
           /\ t.v = 0 => owed = {}
           /\ t.v # 0 => owed = New(bs[t.v].type, t.v)
<1> DEFINE out == Synth[<<t, bs, ret, TRUE>>]
           n == Len(bs)
<1>1. /\ IsTerm(t, n) /\ out = Finding(Synth, t, bs, ret, TRUE)
      /\ DOMAIN bs = 1 .. n /\ n \in Nat
  BY CheckedTerm
<1>2. Owes(out.uses, owed, n)
  BY DEF Checks
<1>3. /\ out = Out("Any", AtomUses(bs, t.v), Compatible(ret, AtomType(bs, t.v)))
      /\ t.v \in 0 .. n
  BY <1>1 DEF Finding, IsTerm
<1> HIDE DEF out
<1>4. ASSUME NEW k \in 1 .. n
      PROVE  (k \in owed) <=> (k = t.v /\ bs[k].type = "Linear")
  <2>1. AtomUses(bs, t.v)[k] =
            IF k = t.v /\ bs[k].type = "Linear" THEN <<1, 1>> ELSE <<0, 0>>
    BY <1>1, AtomUsesAt
  <2>2. AtomUses(bs, t.v)[k] = IF k \in owed THEN <<1, 1>> ELSE <<0, 0>>
    BY <1>2, <1>3 DEF Owes, Out
  <2>3. QED
    BY <2>1, <2>2
<1>5. owed \subseteq 1 .. n
  BY <1>2 DEF Owes
<1>6. CASE t.v = 0
  BY <1>1, <1>3, <1>4, <1>5, <1>6
<1>7. CASE t.v # 0
  <2>1. t.v \in 1 .. n
    BY <1>1, <1>3, <1>7
  <2>2. owed = New(bs[t.v].type, t.v)
    BY <1>4, <1>5, <2>1 DEF New
  <2>3. QED
    BY <1>3, <1>7, <2>2
<1>8. QED
  BY <1>6, <1>7

\* A call owes the linear variables among its arguments, each of which is one
\* argument only.
LEMMA CheckApp ==
    ASSUME NEW t, NEW bs, Proper(bs), NEW ret \in Types, NEW type, NEW owed,
           Checks(t, bs, ret, type, owed), t.do = "app"
    PROVE  /\ t.ret = type /\ t.ret \in Types /\ t.args \in Seq(0 .. Len(bs))
           /\ \A i \in DOMAIN t.args :
                 t.args[i] # 0 /\ bs[t.args[i]].type = "Linear" => t.args[i] \in owed
           /\ \A k \in owed : \E i \in DOMAIN t.args :
                 {j \in DOMAIN t.args : t.args[j] = k} = {i}
<1> DEFINE out == Synth[<<t, bs, ret, TRUE>>]
           n == Len(bs)
           fit == \A i \in DOMAIN t.params :
                      Compatible(t.params[i], AtomType(bs, t.args[i]))
           Here(k) == {i \in DOMAIN t.args : t.args[i] = k}
<1>1. /\ IsTerm(t, n) /\ out = Finding(Synth, t, bs, ret, TRUE)
      /\ DOMAIN bs = 1 .. n /\ n \in Nat
  BY CheckedTerm
<1>2. out.ok /\ Fits(out.type, type) /\ Owes(out.uses, owed, n)
  BY DEF Checks
<1>3. /\ out = Out(t.ret, ArgumentUses(bs, t.args), fit)
      /\ t.args \in Seq(0 .. n) /\ t.ret \in Types
  BY <1>1 DEF Finding, IsTerm
<1> HIDE DEF out, fit
<1>4. t.ret = type
  BY <1>2, <1>3 DEF Fits, Out, Types
<1>5. ASSUME NEW k
      PROVE  /\ IsFiniteSet(Here(k)) /\ Cardinality(Here(k)) \in Nat
             /\ Cardinality(Here(k)) = 0 <=> Here(k) = {}
  <2>0. DOMAIN t.args = 1 .. Len(t.args) /\ Len(t.args) \in Int /\ 1 \in Int
    BY <1>3
  <2>1. IsFiniteSet(1 .. Len(t.args))
    BY <2>0, FS_Interval
  <2>2. IsFiniteSet(Here(k))
    BY <2>0, <2>1, FS_Subset
  <2>3. QED
    BY <2>2, FS_CardinalityType, FS_EmptySet
<1>6. ASSUME NEW k \in 1 .. n
      PROVE  /\ k \in owed => Cardinality(Here(k)) = 1
             /\ k \notin owed /\ bs[k].type = "Linear" => Cardinality(Here(k)) = 0
  <2> DEFINE c == Cardinality(Here(k))
  <2>1. ArgumentUses(bs, t.args)[k] = IF bs[k].linear THEN <<c, c>> ELSE <<0, 0>>
    BY <1>1 DEF ArgumentUses
  <2>2. bs[k].linear <=> bs[k].type = "Linear"
    BY <1>1, LinearBinder
  <2>3. ArgumentUses(bs, t.args)[k] = IF k \in owed THEN <<1, 1>> ELSE <<0, 0>>
    BY <1>2, <1>3 DEF Owes, Out
  <2> HIDE DEF c
  <2>4. bs[k].type = "Linear" => ArgumentUses(bs, t.args)[k] = <<c, c>>
    BY <2>1, <2>2, Zenon
  <2>5. bs[k].type # "Linear" => ArgumentUses(bs, t.args)[k] = <<0, 0>>
    BY <2>1, <2>2, Zenon
  <2>6. QED
    BY <2>3, <2>4, <2>5 DEF c
<1>7. ASSUME NEW i \in DOMAIN t.args, t.args[i] # 0, bs[t.args[i]].type = "Linear"
      PROVE  t.args[i] \in owed
  <2>1. t.args[i] \in 1 .. n
    BY <1>1, <1>3, <1>7
  <2>2. i \in Here(t.args[i])
    OBVIOUS
  <2>3. Cardinality(Here(t.args[i])) # 0
    BY <1>5, <2>2
  <2> HIDE DEF Here
  <2>4. QED
    BY <1>6, <1>7, <2>1, <2>3
<1>8. ASSUME NEW k \in owed PROVE \E i \in DOMAIN t.args : Here(k) = {i}
  <2>1. Cardinality(Here(k)) = 1
    BY <1>2, <1>6 DEF Owes
  <2>2. \E i : Here(k) = {i}
    <3> HIDE DEF Here
    <3>1. QED
      BY <1>5, <2>1, FS_Singleton
  <2>3. QED
    BY <2>2
<1>9. QED
  BY <1>3, <1>4, <1>7, <1>8

-----------------------------------------------------------------------------
(***************************************************************************)
(* A run. Beside its state: the binders of its variables (bs), what focus  *)
(* owes (now) and, of each part that waits for a value, the type it waits  *)
(* for, what the part owes of its own and the binders it is to see.        *)
(***************************************************************************)

Frames == [do : {"let"}, body : AllTerms, depth : Nat]
              \cup [do : {"cond", "next"}, loop : AllTerms, depth : Nat]
Waits == [type : OutTypes, owes : SUBSET Nat, scope : Environments]

\* A linear value is a token, a plain one is 0, and nothing else has a value.
Valued(v, type, n) ==
    \/ type = "Plain" /\ v = 0
    \/ type = "Linear" /\ v \in 1 .. n

Truthful(values, bs, us) ==
    /\ Proper(bs) /\ values \in Seq(Nat) /\ us \in Seq({0, 1})
    /\ Len(values) = Len(bs)
    /\ \A k \in 1 .. Len(bs) : Valued(values[k], bs[k].type, Len(us))

\* The type of the value that the part before the i-th waits for.
Awaited(waits, ret, i) == IF i = 0 THEN ret ELSE waits[i].type

Focused(f, bs, ret, type, now, n) ==
    IF f.do = "value" THEN now = {} /\ Valued(f.value, type, n)
    ELSE Checks(f, bs, ret, type, now)

\* Part p waits as w says, and yields a value of a type.
Resumes(p, w, ret, type) ==
    /\ Proper(w.scope)
    /\ p.do = "let" =>
          /\ Len(w.scope) = p.depth /\ w.owes \in SUBSET (1 .. p.depth)
          /\ Checks(p.body, Append(w.scope, Bind(w.type)), ret, type,
                    w.owes \cup New(w.type, p.depth + 1))
    /\ p.do # "let" =>
          /\ Len(w.scope) = p.depth + 1 /\ w.scope[p.depth + 1] = Bind("Plain")
          /\ w.owes = {} /\ w.type = "Plain" /\ type = "Plain"
          /\ Checks(p.loop.cond, w.scope, ret, "Plain", {})
          /\ Checks(p.loop.body, w.scope, ret, "Plain", {})

\* The variables of scope are still there.
Reaches(scope, bs) ==
    Len(scope) <= Len(bs) /\ \A k \in 1 .. Len(scope) : bs[k] = scope[k]

Stacked(parts, waits, bs, ret) ==
    /\ parts \in Seq(Frames) /\ waits \in Seq(Waits) /\ Len(parts) = Len(waits)
    /\ \A i \in 1 .. Len(parts) :
          /\ Resumes(parts[i], waits[i], ret, Awaited(waits, ret, i - 1))
          /\ Reaches(waits[i].scope, bs)
    /\ \A i, j \in 1 .. Len(parts) : i < j => Len(waits[i].scope) <= parts[j].depth

\* No two owe the same.
Shared(waits, now) ==
    /\ \A i \in 1 .. Len(waits) : waits[i].owes \cap now = {}
    /\ \A i, j \in 1 .. Len(waits) : i # j => waits[i].owes \cap waits[j].owes = {}

Held(waits) == UNION {waits[i].owes : i \in 1 .. Len(waits)}

\* What is owed, and the value in focus, is what has not been consumed.
Debts(values, us, token, all) ==
    /\ all \in SUBSET (1 .. Len(values))
    /\ \A k \in all : /\ values[k] \in 1 .. Len(us) /\ us[values[k]] = 0
                       /\ values[k] # token
    /\ \A j, k \in all : values[j] = values[k] => j = k
    /\ \A t \in 1 .. Len(us) : us[t] = 0 => t = token \/ \E k \in all : values[k] = t
    /\ token # 0 => token \in 1 .. Len(us) /\ us[token] = 0

Token(f) == IF f.do = "value" THEN f.value ELSE 0

Config(f, values, parts, us, ret, bs, waits, now) ==
    /\ Truthful(values, bs, us)
    /\ Focused(f, bs, ret, Awaited(waits, ret, Len(waits)), now, Len(us))
    /\ Stacked(parts, waits, bs, ret)
    /\ Shared(waits, now)
    /\ Debts(values, us, Token(f), now \cup Held(waits))

Going(f, values, parts, us, ret) ==
    \E bs, waits, now : Config(f, values, parts, us, ret, bs, waits, now)

\* A sequence as a function.
LEMMA Elements ==
    ASSUME NEW S, NEW s \in Seq(S), NEW n \in Nat, Len(s) = n
    PROVE  DOMAIN s = 1 .. n /\ \A i \in 1 .. n : s[i] \in S
OBVIOUS

\* The first elements of a sequence.
LEMMA Prefix ==
    ASSUME NEW S, NEW s \in Seq(S), NEW n \in Nat, n <= Len(s)
    PROVE  /\ SubSeq(s, 1, n) \in Seq(S) /\ Len(SubSeq(s, 1, n)) = n
           /\ \A i \in 1 .. n : SubSeq(s, 1, n)[i] = s[i]
OBVIOUS

\* A sequence is one over its elements.
LEMMA NarrowSequence ==
    ASSUME NEW S, NEW T, NEW s \in Seq(T), \A i \in 1 .. Len(s) : s[i] \in S
    PROVE  s \in Seq(S)
<1>1. Len(s) \in Nat /\ s = [i \in 1 .. Len(s) |-> s[i]]
  OBVIOUS
<1>2. [i \in 1 .. Len(s) |-> s[i]] \in Seq(S)
  OBVIOUS
<1>3. QED
  BY <1>1, <1>2

\* A part that begins to wait.
LEMMA HeldMore ==
    ASSUME NEW waits \in Seq(Waits), NEW w \in Waits
    PROVE  /\ Append(waits, w) \in Seq(Waits) /\ Len(Append(waits, w)) = Len(waits) + 1
           /\ Append(waits, w)[Len(waits) + 1] = w
           /\ \A i \in 1 .. Len(waits) : Append(waits, w)[i] = waits[i]
           /\ \A i \in 1 .. Len(waits) + 1 : i \in 1 .. Len(waits) \/ i = Len(waits) + 1
           /\ Held(Append(waits, w)) = Held(waits) \cup w.owes
<1> DEFINE more == Append(waits, w)
           n == Len(waits)
<1>1. /\ more \in Seq(Waits) /\ Len(more) = n + 1 /\ more[n + 1] = w
      /\ \A i \in 1 .. n : more[i] = waits[i]
      /\ n \in Nat
  OBVIOUS
<1> HIDE DEF more
<1>2. /\ \A i \in 1 .. n + 1 : i \in 1 .. n \/ i = n + 1
      /\ n + 1 \in 1 .. n + 1 /\ 1 .. n \subseteq 1 .. n + 1
  BY <1>1
<1>3. Held(more) = Held(waits) \cup w.owes
  BY <1>1, <1>2 DEF Held
<1>4. QED
  BY <1>1, <1>2, <1>3 DEF more

\* The innermost part goes on.
LEMMA HeldLess ==
    ASSUME NEW waits \in Seq(Waits), Len(waits) # 0, NEW n \in Nat, n = Len(waits) - 1
    PROVE  /\ SubSeq(waits, 1, n) \in Seq(Waits) /\ Len(SubSeq(waits, 1, n)) = n
           /\ \A i \in 1 .. n : SubSeq(waits, 1, n)[i] = waits[i]
           /\ waits[n + 1] \in Waits
           /\ Held(waits) = Held(SubSeq(waits, 1, n)) \cup waits[n + 1].owes
<1> DEFINE less == SubSeq(waits, 1, n)
<1>1. /\ less \in Seq(Waits) /\ Len(less) = n /\ \A i \in 1 .. n : less[i] = waits[i]
      /\ Len(waits) = n + 1 /\ waits[n + 1] \in Waits
  <2>1. Len(waits) = n + 1 /\ DOMAIN waits = 1 .. n + 1 /\ n + 1 \in 1 .. n + 1
    OBVIOUS
  <2>2. waits[n + 1] \in Waits
    BY <2>1
  <2>3. less \in Seq(Waits) /\ Len(less) = n /\ \A i \in 1 .. n : less[i] = waits[i]
    BY <2>1
  <2>4. QED
    BY <2>1, <2>2, <2>3
<1> HIDE DEF less
<1>2. /\ \A i \in 1 .. n + 1 : i \in 1 .. n \/ i = n + 1
      /\ n + 1 \in 1 .. n + 1 /\ 1 .. n \subseteq 1 .. n + 1
  OBVIOUS
<1>3. Held(waits) = Held(less) \cup waits[n + 1].owes
  BY <1>1, <1>2 DEF Held
<1>4. QED
  BY <1>1, <1>3 DEF less

\* A part more that waits, with its variables in scope.
LEMMA StackedMore ==
    ASSUME NEW parts, NEW waits, NEW bs, NEW ret, Stacked(parts, waits, bs, ret),
           NEW p \in Frames, NEW w \in Waits, NEW wider,
           Resumes(p, w, ret, Awaited(waits, ret, Len(waits))), Reaches(w.scope, wider),
           Len(bs) \in Nat, Len(wider) \in Nat, Len(bs) <= Len(wider),
           \A k \in 1 .. Len(bs) : wider[k] = bs[k], p.depth = Len(bs)
    PROVE  Stacked(Append(parts, p), Append(waits, w), wider, ret)
<1> DEFINE n == Len(parts)
           ps == Append(parts, p)
           ws == Append(waits, w)
<1>1. /\ parts \in Seq(Frames) /\ waits \in Seq(Waits) /\ n = Len(waits) /\ n \in Nat
      /\ \A i \in 1 .. n : /\ Resumes(parts[i], waits[i], ret, Awaited(waits, ret, i - 1))
                          /\ Reaches(waits[i].scope, bs)
      /\ \A i, j \in 1 .. n : i < j => Len(waits[i].scope) <= parts[j].depth
  BY DEF Stacked
<1>2. /\ ps \in Seq(Frames) /\ Len(ps) = n + 1 /\ ps[n + 1] = p
      /\ \A i \in 1 .. n : ps[i] = parts[i]
  BY <1>1
<1>3. /\ ws \in Seq(Waits) /\ Len(ws) = n + 1 /\ ws[n + 1] = w
      /\ \A i \in 1 .. n : ws[i] = waits[i]
      /\ \A i \in 1 .. n + 1 : i \in 1 .. n \/ i = n + 1
  BY <1>1, HeldMore
<1> HIDE DEF ps, ws, n
<1>4. \A i \in 0 .. n : Awaited(ws, ret, i) = Awaited(waits, ret, i)
  BY <1>1, <1>3 DEF Awaited
<1>5. ASSUME NEW i \in 1 .. n
      PROVE  /\ Resumes(ps[i], ws[i], ret, Awaited(ws, ret, i - 1))
             /\ Reaches(ws[i].scope, wider)
             /\ Len(ws[i].scope) <= Len(bs)
  <2>1. i - 1 \in 0 .. n
    BY <1>1
  <2>2. Resumes(ps[i], ws[i], ret, Awaited(ws, ret, i - 1))
    BY <1>1, <1>2, <1>3, <1>4, <2>1
  <2>3. waits[i] \in Waits
    BY <1>1
  <2>4. Len(waits[i].scope) \in Nat
    BY <2>3 DEF Waits, Environments
  <2>5. Reaches(waits[i].scope, bs)
    BY <1>1
  <2>6. Reaches(waits[i].scope, wider)
    BY <2>4, <2>5 DEF Reaches
  <2>7. QED
    BY <1>3, <2>2, <2>5, <2>6 DEF Reaches
<1>6. Resumes(ps[n + 1], ws[n + 1], ret, Awaited(ws, ret, n)) /\ Reaches(ws[n + 1].scope, wider)
  BY <1>1, <1>2, <1>3, <1>4
<1>7. ASSUME NEW i \in 1 .. n + 1, NEW j \in 1 .. n + 1, i < j
      PROVE  Len(ws[i].scope) <= ps[j].depth
  <2>0. n \in Nat
    BY <1>1
  <2>1. i \in 1 .. n /\ (j \in 1 .. n \/ j = n + 1)
    <3>1. i \in Nat /\ j \in Nat /\ 1 <= i /\ i <= n + 1 /\ 1 <= j /\ j <= n + 1
      BY <2>0
    <3>2. i <= n
      BY <1>7, <2>0, <3>1
    <3>3. QED
      BY <2>0, <3>1, <3>2
  <2>2. CASE j \in 1 .. n
    BY <1>1, <1>2, <1>3, <1>7, <2>1, <2>2
  <2>3. CASE j = n + 1
    BY <1>2, <1>5, <2>1, <2>3
  <2>4. QED
    BY <2>1, <2>2, <2>3
<1>8. ASSUME NEW i \in 1 .. n + 1
      PROVE  /\ Resumes(ps[i], ws[i], ret, Awaited(ws, ret, i - 1))
             /\ Reaches(ws[i].scope, wider)
  <2>1. CASE i \in 1 .. n
    BY <1>5, <2>1
  <2>2. CASE i = n + 1
    BY <1>1, <1>6, <2>2
  <2>3. QED
    BY <1>3, <2>1, <2>2
<1>9. QED
  BY <1>2, <1>3, <1>7, <1>8 DEF Stacked, ps, ws

\* The part that goes on, and how the others see the variables it does not see.
LEMMA StackedTop ==
    ASSUME NEW parts, NEW waits, NEW bs, NEW ret, Stacked(parts, waits, bs, ret),
           NEW n \in Nat, n = Len(parts) - 1, Len(parts) # 0
    PROVE  /\ parts[n + 1] \in Frames /\ waits[n + 1] \in Waits
           /\ parts[n + 1].depth \in Nat /\ parts[n + 1].depth <= Len(waits[n + 1].scope)
           /\ Resumes(parts[n + 1], waits[n + 1], ret, Awaited(waits, ret, n))
           /\ Reaches(waits[n + 1].scope, bs)
           /\ Len(waits) = n + 1
           /\ \A i \in 1 .. n : Len(waits[i].scope) <= parts[n + 1].depth
<1>1. /\ parts \in Seq(Frames) /\ waits \in Seq(Waits) /\ Len(parts) = Len(waits)
      /\ Len(parts) = n + 1 /\ n + 1 \in 1 .. n + 1 /\ (n + 1) - 1 = n
  BY DEF Stacked
<1>2. parts[n + 1] \in Frames /\ waits[n + 1] \in Waits
  <2>1. n + 1 \in Nat
    OBVIOUS
  <2>2. QED
    BY <1>1, <2>1, Elements
<1>3. /\ Resumes(parts[n + 1], waits[n + 1], ret, Awaited(waits, ret, n))
      /\ Reaches(waits[n + 1].scope, bs)
  BY <1>1 DEF Stacked
<1>4. parts[n + 1].depth \in Nat
  BY <1>2 DEF Frames
<1>5. parts[n + 1].depth <= Len(waits[n + 1].scope)
  BY <1>3, <1>4 DEF Resumes
<1>6. ASSUME NEW i \in 1 .. n PROVE Len(waits[i].scope) <= parts[n + 1].depth
  <2>1. i \in 1 .. n + 1 /\ i < n + 1
    OBVIOUS
  <2>2. QED
    BY <1>1, <2>1 DEF Stacked
<1>7. QED
  BY <1>1, <1>2, <1>3, <1>4, <1>5, <1>6

\* The innermost part goes on, the others still wait.
LEMMA StackedLess ==
    ASSUME NEW parts, NEW waits, NEW bs, NEW ret, Stacked(parts, waits, bs, ret),
           NEW n \in Nat, n = Len(parts) - 1, Len(parts) # 0, NEW inner,
           Len(inner) \in Nat, parts[n + 1].depth <= Len(inner),
           \A k \in 1 .. parts[n + 1].depth : inner[k] = bs[k]
    PROVE  Stacked(SubSeq(parts, 1, n), SubSeq(waits, 1, n), inner, ret)
<1> DEFINE ps == SubSeq(parts, 1, n)
           ws == SubSeq(waits, 1, n)
           d == parts[n + 1].depth
<1>1. /\ parts \in Seq(Frames) /\ waits \in Seq(Waits) /\ Len(parts) = Len(waits)
      /\ Len(parts) = n + 1
  BY DEF Stacked
<1>0. n <= Len(parts) /\ n <= Len(waits)
  BY <1>1
<1>2. ps \in Seq(Frames) /\ Len(ps) = n /\ \A i \in 1 .. n : ps[i] = parts[i]
  BY <1>0, <1>1, Prefix
<1>3. ws \in Seq(Waits) /\ Len(ws) = n /\ \A i \in 1 .. n : ws[i] = waits[i]
  BY <1>0, <1>1, Prefix
<1>4. d \in Nat /\ \A i \in 1 .. n : Len(waits[i].scope) <= d
  BY StackedTop
<1> HIDE DEF ps, ws, d
<1>5. \A i \in 0 .. n : Awaited(ws, ret, i) = Awaited(waits, ret, i)
  BY <1>3 DEF Awaited
<1>6. ASSUME NEW i \in 1 .. n
      PROVE  /\ Resumes(ps[i], ws[i], ret, Awaited(ws, ret, i - 1))
             /\ Reaches(ws[i].scope, inner)
  <2>1. i \in 1 .. n + 1 /\ i - 1 \in 0 .. n
    OBVIOUS
  <2>2. /\ Resumes(parts[i], waits[i], ret, Awaited(waits, ret, i - 1))
        /\ Reaches(waits[i].scope, bs)
    BY <1>1, <2>1 DEF Stacked
  <2>3. waits[i] \in Waits
    <3>1. n + 1 \in Nat
      OBVIOUS
    <3>2. QED
      BY <1>1, <2>1, <3>1, Elements
  <2>4. Len(waits[i].scope) \in Nat
    BY <2>3 DEF Waits, Environments
  <2>5. Len(waits[i].scope) <= d /\ d <= Len(inner)
    BY <1>4 DEF d
  <2>6. \A k \in 1 .. d : inner[k] = bs[k]
    BY DEF d
  <2>7. Reaches(waits[i].scope, inner)
    <3>1. \A k \in 1 .. Len(waits[i].scope) : k \in 1 .. d
      BY <1>4, <2>4, <2>5
    <3>2. Len(waits[i].scope) <= Len(inner)
      BY <1>4, <2>4, <2>5
    <3>3. QED
      BY <2>2, <2>6, <3>1, <3>2 DEF Reaches
  <2>8. QED
    BY <1>2, <1>3, <1>5, <2>1, <2>2, <2>7
<1>7. ASSUME NEW i \in 1 .. n, NEW j \in 1 .. n, i < j
      PROVE  Len(ws[i].scope) <= ps[j].depth
  <2>1. i \in 1 .. n + 1 /\ j \in 1 .. n + 1
    OBVIOUS
  <2>2. QED
    BY <1>1, <1>2, <1>3, <1>7, <2>1 DEF Stacked
<1>8. QED
  BY <1>2, <1>3, <1>6, <1>7 DEF Stacked, ps, ws

\* A loop goes from its condition to its body or back.
LEMMA StackedTurn ==
    ASSUME NEW parts, NEW waits, NEW bs, NEW ret, Stacked(parts, waits, bs, ret),
           NEW n \in Nat, n = Len(parts) - 1, Len(parts) # 0,
           parts[n + 1].do # "let", NEW next \in {"cond", "next"}
    PROVE  Stacked([parts EXCEPT ![n + 1].do = next], waits, waits[n + 1].scope, ret)
<1> DEFINE ps == [parts EXCEPT ![n + 1].do = next]
           p == parts[n + 1]
           scope == waits[n + 1].scope
<1>1. /\ parts \in Seq(Frames) /\ waits \in Seq(Waits) /\ Len(parts) = Len(waits)
      /\ Len(parts) = n + 1 /\ n + 1 \in 1 .. n + 1
  BY DEF Stacked
<1>2. /\ p \in Frames /\ p.depth \in Nat /\ Resumes(p, waits[n + 1], ret, Awaited(waits, ret, n))
      /\ Reaches(scope, bs) /\ \A i \in 1 .. n : Len(waits[i].scope) <= p.depth
      /\ p.depth <= Len(scope) /\ waits[n + 1] \in Waits
  BY StackedTop
<1>3. p \in [do : {"cond", "next"}, loop : AllTerms, depth : Nat]
  BY <1>2 DEF Frames
<1> DEFINE q == [p EXCEPT !.do = next]
<1>4. /\ q \in Frames /\ q.do # "let" /\ q.loop = p.loop /\ q.depth = p.depth
  BY <1>3 DEF Frames
<1>5. ps = [i \in 1 .. n + 1 |-> IF i = n + 1 THEN q ELSE parts[i]]
  <2>1. n + 1 \in Nat
    OBVIOUS
  <2>2. DOMAIN parts = 1 .. n + 1
    BY <1>1, <2>1, Elements
  <2>3. QED
    BY <2>2
<1> HIDE DEF ps, q
<1>6. ps \in Seq(Frames) /\ Len(ps) = n + 1
  BY <1>1, <1>4, <1>5
<1>7. Len(scope) \in Nat
  BY <1>2 DEF Waits, Environments
<1>8. ASSUME NEW i \in 1 .. n
      PROVE  /\ Resumes(ps[i], waits[i], ret, Awaited(waits, ret, i - 1))
             /\ Reaches(waits[i].scope, scope)
  <2>1. i \in 1 .. n + 1 /\ i # n + 1
    OBVIOUS
  <2>2. /\ Resumes(parts[i], waits[i], ret, Awaited(waits, ret, i - 1))
        /\ Reaches(waits[i].scope, bs)
    BY <1>1, <2>1 DEF Stacked
  <2>3. waits[i] \in Waits
    <3>1. n + 1 \in Nat
      OBVIOUS
    <3>2. QED
      BY <1>1, <2>1, <3>1, Elements
  <2>4. Len(waits[i].scope) \in Nat
    BY <2>3 DEF Waits, Environments
  <2>5. Len(waits[i].scope) <= p.depth
    BY <1>2
  <2> HIDE DEF scope, p
  <2>6. Reaches(waits[i].scope, scope)
    BY <1>2, <1>7, <2>2, <2>4, <2>5 DEF Reaches
  <2>7. QED
    BY <1>5, <2>1, <2>2, <2>6
<1>9. /\ Resumes(ps[n + 1], waits[n + 1], ret, Awaited(waits, ret, n))
      /\ Reaches(scope, scope)
  <2>1. ps[n + 1] = q
    BY <1>5
  <2>2. Resumes(q, waits[n + 1], ret, Awaited(waits, ret, n))
    BY <1>2, <1>4 DEF Resumes
  <2>3. QED
    BY <1>7, <2>1, <2>2 DEF Reaches
<1>10. ASSUME NEW i \in 1 .. n + 1, NEW j \in 1 .. n + 1, i < j
       PROVE  Len(waits[i].scope) <= ps[j].depth
  <2>1. ps[j].depth = parts[j].depth
    BY <1>4, <1>5
  <2>2. QED
    BY <1>1, <1>10, <2>1 DEF Stacked
<1>11. ASSUME NEW i \in 1 .. n + 1
       PROVE  /\ Resumes(ps[i], waits[i], ret, Awaited(waits, ret, i - 1))
              /\ Reaches(waits[i].scope, scope)
  <2>1. CASE i = n + 1
    BY <1>9, <2>1
  <2>2. CASE i # n + 1
    BY <1>8, <2>2
  <2>3. QED
    BY <2>1, <2>2
<1>12. QED
  BY <1>1, <1>6, <1>10, <1>11 DEF Stacked, ps

\* A variable is read.
LEMMA DebtTaken ==
    ASSUME NEW values \in Seq(Nat), NEW us \in Seq({0, 1}), NEW all,
           Debts(values, us, 0, all), NEW v \in all
    PROVE  Debts(values, us, values[v], all \ {v}) /\ values[v] # 0
<1>1. values[v] \in 1 .. Len(us) /\ us[values[v]] = 0 /\ values[v] # 0
  BY DEF Debts
<1>2. all \ {v} \in SUBSET (1 .. Len(values))
  BY DEF Debts
<1>3. \A k \in all \ {v} : /\ values[k] \in 1 .. Len(us) /\ us[values[k]] = 0
                           /\ values[k] # values[v]
  BY DEF Debts
<1>4. \A j, k \in all \ {v} : values[j] = values[k] => j = k
  BY DEF Debts
<1>5. ASSUME NEW t \in 1 .. Len(us), us[t] = 0, t # values[v]
      PROVE  \E k \in all \ {v} : values[k] = t
  <2>1. t # 0
    OBVIOUS
  <2>2. PICK k \in all : values[k] = t
    BY <1>5, <2>1 DEF Debts
  <2>3. QED
    BY <1>5, <2>2
<1>6. QED
  BY <1>1, <1>2, <1>3, <1>4, <1>5 DEF Debts

\* The first d of values, and token.
Bound(after, values, d, token) ==
    /\ after \in Seq(Nat) /\ Len(after) = d + 1 /\ after[d + 1] = token
    /\ \A k \in 1 .. d : after[k] = values[k]

\* A value is bound to variable d + 1, and the variables from d + 1 on are left.
LEMMA DebtBound ==
    ASSUME NEW values \in Seq(Nat), NEW us \in Seq({0, 1}), NEW token \in Nat, NEW all,
           Debts(values, us, token, all), NEW d \in Nat, all \in SUBSET (1 .. d),
           NEW after, Bound(after, values, d, token), NEW more,
           more = IF token # 0 THEN {d + 1} ELSE {}
    PROVE  Debts(after, us, 0, all \cup more)
<1>0. /\ after \in Seq(Nat) /\ Len(after) = d + 1 /\ after[d + 1] = token
      /\ \A k \in 1 .. d : after[k] = values[k]
  BY DEF Bound
<1>1. /\ d + 1 \notin all /\ \A k \in all : after[k] = values[k]
      /\ \A k \in all : values[k] # token /\ values[k] \in 1 .. Len(us) /\ us[values[k]] = 0
      /\ \A j, k \in all : values[j] = values[k] => j = k
      /\ \A t \in 1 .. Len(us) : us[t] = 0 => t = token \/ \E k \in all : values[k] = t
      /\ token # 0 => token \in 1 .. Len(us) /\ us[token] = 0
  BY <1>0 DEF Debts
<1>2. all \cup more \in SUBSET (1 .. Len(after))
  BY <1>0
<1>3. ASSUME NEW k \in all \cup more
      PROVE  after[k] \in 1 .. Len(us) /\ us[after[k]] = 0 /\ after[k] # 0
  <2>1. CASE k \in all
    <3>1. after[k] = values[k] /\ values[k] \in 1 .. Len(us) /\ us[values[k]] = 0
      BY <1>1, <2>1
    <3>2. QED
      BY <3>1
  <2>2. CASE k \in more
    <3>1. k = d + 1 /\ token # 0
      BY <2>2
    <3>2. QED
      BY <1>0, <1>1, <3>1
  <2>3. QED
    BY <2>1, <2>2
<1>4. ASSUME NEW j \in all \cup more, NEW k \in all \cup more, after[j] = after[k]
      PROVE  j = k
  <2>1. (j \in all \/ j = d + 1) /\ (k \in all \/ k = d + 1)
    OBVIOUS
  <2>2. CASE j \in all /\ k \in all
    BY <1>1, <1>4, <2>2
  <2>3. CASE j \in all /\ k = d + 1
    BY <1>0, <1>1, <1>4, <2>3
  <2>4. CASE j = d + 1 /\ k \in all
    BY <1>0, <1>1, <1>4, <2>4
  <2>5. QED
    BY <2>1, <2>2, <2>3, <2>4
<1>5. ASSUME NEW t \in 1 .. Len(us), us[t] = 0
      PROVE  \E k \in all \cup more : after[k] = t
  <2>1. CASE t = token
    <3>1. d + 1 \in more
      BY <2>1
    <3>2. QED
      BY <1>0, <2>1, <3>1
  <2>2. CASE t # token
    <3>1. PICK k \in all : values[k] = t
      BY <1>1, <1>5, <2>2
    <3>2. QED
      BY <1>1, <3>1
  <2>3. QED
    BY <2>1, <2>2
<1>6. QED
  BY <1>2, <1>3, <1>4, <1>5 DEF Debts

\* Variables that owe nothing come or go.
LEMMA DebtKept ==
    ASSUME NEW values \in Seq(Nat), NEW us, NEW all, Debts(values, us, 0, all),
           NEW after \in Seq(Nat),
           \A k \in all : k \in 1 .. Len(after) /\ after[k] = values[k]
    PROVE  Debts(after, us, 0, all)
<1>1. all \in SUBSET (1 .. Len(after))
  OBVIOUS
<1>2. \A k \in all : after[k] \in 1 .. Len(us) /\ us[after[k]] = 0 /\ after[k] # 0
  BY DEF Debts
<1>3. \A j, k \in all : after[j] = after[k] => j = k
  BY DEF Debts
<1>4. ASSUME NEW t \in 1 .. Len(us), us[t] = 0
      PROVE  t = 0 \/ \E k \in all : after[k] = t
  <2>1. CASE t = 0
    BY <2>1
  <2>2. CASE \E k \in all : values[k] = t
    <3>1. PICK k \in all : values[k] = t
      BY <2>2
    <3>2. QED
      BY <3>1
  <2>3. QED
    BY <1>4, <2>1, <2>2 DEF Debts
<1>5. QED
  BY <1>1, <1>2, <1>3, <1>4 DEF Debts

\* after is us, when what the variables in now hold has been consumed.
Paying(after, us, values, now) ==
    /\ after \in Seq(Nat) /\ Len(after) = Len(us)
    /\ \A t \in 1 .. Len(us) :
          after[t] = us[t] + IF \E k \in now : values[k] = t THEN 1 ELSE 0

\* What is owed now is paid, each once: the rest of the debt is what was held.
LEMMA DebtPaid ==
    ASSUME NEW values \in Seq(Nat), NEW us \in Seq({0, 1}), NEW now, NEW held,
           Debts(values, us, 0, now \cup held), now \cap held = {},
           NEW after, Paying(after, us, values, now)
    PROVE  after \in Seq({0, 1}) /\ Debts(values, after, 0, held)
<1>0. /\ after \in Seq(Nat) /\ Len(after) = Len(us)
      /\ \A t \in 1 .. Len(us) :
            after[t] = us[t] + IF \E k \in now : values[k] = t THEN 1 ELSE 0
  BY DEF Paying
<1> DEFINE Paid(t) == \E k \in now : values[k] = t
<1>1. /\ now \cup held \in SUBSET (1 .. Len(values))
      /\ \A k \in now \cup held : values[k] \in 1 .. Len(us) /\ us[values[k]] = 0
      /\ \A k \in now \cup held : values[k] # 0
      /\ \A j, k \in now \cup held : values[j] = values[k] => j = k
      /\ \A t \in 1 .. Len(us) : us[t] = 0 => t = 0 \/ \E k \in now \cup held : values[k] = t
  BY DEF Debts
<1>2. \A t \in 1 .. Len(us) : us[t] \in {0, 1}
  OBVIOUS
<1>3. ASSUME NEW t \in 1 .. Len(us)
      PROVE  /\ Paid(t) => after[t] = 1
             /\ ~ Paid(t) => after[t] = us[t]
             /\ after[t] \in {0, 1}
  <2>1. CASE Paid(t)
    <3>1. us[t] = 0
      BY <1>1, <2>1
    <3>2. QED
      BY <1>0, <2>1, <3>1
  <2>2. CASE ~ Paid(t)
    <3>1. after[t] = us[t] + 0
      BY <1>0, <2>2
    <3>2. after[t] = us[t] /\ after[t] \in {0, 1}
      BY <1>2, <3>1
    <3>3. QED
      BY <2>2, <3>2
  <2>3. QED
    BY <2>1, <2>2
<1>4. \A k \in held : ~ Paid(values[k])
  BY <1>1
<1> HIDE DEF Paid
<1>5. after \in Seq({0, 1})
  <2>1. \A t \in 1 .. Len(after) : after[t] \in {0, 1}
    BY <1>0, <1>3
  <2>2. QED
    BY <1>0, <2>1, NarrowSequence
<1>6. \A k \in held : values[k] \in 1 .. Len(after) /\ after[values[k]] = 0 /\ values[k] # 0
  BY <1>0, <1>1, <1>3, <1>4
<1>7. ASSUME NEW t \in 1 .. Len(after), after[t] = 0
      PROVE  \E k \in held : values[k] = t
  <2>1. ~ Paid(t) /\ us[t] = 0
    BY <1>0, <1>3, <1>7
  <2>2. PICK k \in now \cup held : values[k] = t
    BY <1>0, <1>1, <2>1
  <2>3. QED
    BY <2>1, <2>2 DEF Paid
<1>8. QED
  BY <1>1, <1>5, <1>6, <1>7 DEF Debts

\* A linear value is made.
LEMMA DebtMade ==
    ASSUME NEW values \in Seq(Nat), NEW us \in Seq({0, 1}), NEW all,
           Debts(values, us, 0, all)
    PROVE  /\ Append(us, 0) \in Seq({0, 1}) /\ Len(Append(us, 0)) = Len(us) + 1
           /\ Debts(values, Append(us, 0), Len(us) + 1, all)
<1> DEFINE more == Append(us, 0)
           n == Len(us)
<1>1. /\ more \in Seq({0, 1}) /\ Len(more) = n + 1 /\ more[n + 1] = 0 /\ n \in Nat
      /\ \A t \in 1 .. n : more[t] = us[t]
  OBVIOUS
<1> HIDE DEF more, n
<1>2. /\ all \in SUBSET (1 .. Len(values))
      /\ \A k \in all : values[k] \in 1 .. n /\ us[values[k]] = 0
      /\ \A j, k \in all : values[j] = values[k] => j = k
      /\ \A t \in 1 .. n : us[t] = 0 => t = 0 \/ \E k \in all : values[k] = t
  BY DEF Debts, n
<1>3. \A k \in all : /\ values[k] \in 1 .. n + 1 /\ more[values[k]] = 0
                     /\ values[k] # n + 1
  BY <1>1, <1>2
<1>4. ASSUME NEW t \in 1 .. n + 1, more[t] = 0
      PROVE  t = n + 1 \/ \E k \in all : values[k] = t
  <2>1. CASE t = n + 1
    BY <2>1
  <2>2. CASE t # n + 1
    <3>1. t \in 1 .. n /\ t # 0
      BY <1>1, <2>2
    <3>2. QED
      BY <1>1, <1>2, <1>4, <3>1
  <2>3. QED
    BY <2>1, <2>2
<1>5. n + 1 \in 1 .. n + 1
  BY <1>1
<1>6. QED
  BY <1>1, <1>2, <1>3, <1>4, <1>5 DEF Debts, more, n

\* What focus owes is owed by no part that waits.
LEMMA SharedHeld ==
    ASSUME NEW waits, NEW now, Shared(waits, now)
    PROVE  now \cap Held(waits) = {} /\ Shared(waits, {})
BY DEF Shared, Held

\* A part waits for a value of some type.
LEMMA AwaitedType ==
    ASSUME NEW waits \in Seq(Waits), NEW ret \in Types
    PROVE  Awaited(waits, ret, Len(waits)) \in OutTypes
<1>1. CASE Len(waits) = 0
  BY <1>1 DEF Awaited, OutTypes
<1>2. CASE Len(waits) # 0
  <2>1. waits[Len(waits)] \in Waits
    BY <1>2
  <2>2. QED
    BY <1>2, <2>1 DEF Awaited, Waits
<1>3. QED
  BY <1>1, <1>2

-----------------------------------------------------------------------------
(***************************************************************************)
(* Every step of the interpreter leads to such a run again.                *)
(***************************************************************************)

\* EvalAtom: the value of the atom is what the focus owed.
LEMMA AtomGoes ==
    ASSUME NEW f, NEW values, NEW parts, NEW us, NEW ret \in Types,
           Going(f, values, parts, us, ret), f.do = "atom",
           NEW v, v = IF f.v = 0 THEN 0 ELSE values[f.v]
    PROVE  Going(Value(v), values, parts, us, ret)
<1>1. PICK bs, waits, now : Config(f, values, parts, us, ret, bs, waits, now)
  BY DEF Going
<1> DEFINE type == Awaited(waits, ret, Len(waits))
<1>2. /\ Truthful(values, bs, us) /\ Proper(bs) /\ Checks(f, bs, ret, type, now)
      /\ Stacked(parts, waits, bs, ret) /\ Shared(waits, now)
      /\ Debts(values, us, 0, now \cup Held(waits))
      /\ values \in Seq(Nat) /\ us \in Seq({0, 1})
  BY <1>1 DEF Config, Focused, Token, Truthful
<1>3. /\ f.v \in 0 .. Len(bs)
      /\ f.v = 0 => type = "Plain" /\ now = {}
      /\ f.v # 0 => Fits(bs[f.v].type, type) /\ now = New(bs[f.v].type, f.v)
  BY <1>2, CheckAtom
<1> HIDE DEF type
<1>4. Shared(waits, {}) /\ now \cap Held(waits) = {}
  BY <1>2, SharedHeld
<1>5. SUFFICES Valued(v, type, Len(us)) /\ Debts(values, us, v, Held(waits))
  <2>1. Config(Value(v), values, parts, us, ret, bs, waits, {})
    BY <1>2, <1>4, <1>5 DEF Config, Focused, Token, Value, type
  <2>2. QED
    BY <2>1 DEF Going
<1>6. CASE f.v = 0
  <2>1. v = 0 /\ type = "Plain" /\ now \cup Held(waits) = Held(waits)
    BY <1>3, <1>6
  <2>2. QED
    BY <1>2, <2>1 DEF Valued
<1>7. CASE f.v # 0
  <2>1. f.v \in 1 .. Len(bs)
    BY <1>2, <1>3, <1>7, CheckedTerm
  <2>2. Valued(v, bs[f.v].type, Len(us))
    BY <1>2, <1>7, <2>1 DEF Truthful
  <2>3. bs[f.v].type = type
    BY <1>3, <1>7, <2>2 DEF Valued, Fits
  <2>4. CASE type = "Linear"
    <3>1. now = {f.v} /\ v = values[f.v]
      BY <1>3, <1>7, <2>3, <2>4 DEF New
    <3>2. (now \cup Held(waits)) \ {f.v} = Held(waits)
      BY <1>4, <3>1
    <3> DEFINE all == now \cup Held(waits)
               k == f.v
    <3>3. Debts(values, us, v, all \ {k})
      <4>1. k \in all /\ Debts(values, us, 0, all) /\ v = values[k]
        BY <1>2, <3>1
      <4> HIDE DEF all, k
      <4>2. QED
        BY <1>2, <4>1, DebtTaken
    <3>4. QED
      BY <2>2, <2>3, <3>2, <3>3
  <2>5. CASE type # "Linear"
    <3>1. v = 0 /\ now = {}
      BY <1>3, <1>7, <2>2, <2>3, <2>5 DEF New, Valued
    <3>2. QED
      BY <1>2, <2>2, <2>3, <3>1
  <2>6. QED
    BY <2>4, <2>5
<1>8. QED
  BY <1>6, <1>7

\* EnterLet: the body waits with what it owes, the value owes the rest.
LEMMA LetGoes ==
    ASSUME NEW f, NEW values, NEW parts, NEW us, NEW ret \in Types,
           Going(f, values, parts, us, ret), f.do = "let"
    PROVE  Going(f.value, values,
                 Append(parts, [do |-> "let", body |-> f.body, depth |-> Len(values)]),
                 us, ret)
<1>1. PICK bs, waits, now : Config(f, values, parts, us, ret, bs, waits, now)
  BY DEF Going
<1> DEFINE type == Awaited(waits, ret, Len(waits))
           n == Len(bs)
           p == [do |-> "let", body |-> f.body, depth |-> Len(values)]
<1>2. /\ Truthful(values, bs, us) /\ Proper(bs) /\ Checks(f, bs, ret, type, now)
      /\ Stacked(parts, waits, bs, ret) /\ Shared(waits, now)
      /\ Debts(values, us, 0, now \cup Held(waits))
      /\ values \in Seq(Nat) /\ us \in Seq({0, 1}) /\ Len(values) = n
  BY <1>1 DEF Config, Focused, Token, Truthful
<1>3. PICK T \in OutTypes : \E x, y :
              /\ x \cup y = now /\ x \cap y = {}
              /\ Checks(f.value, bs, ret, T, x)
              /\ Checks(f.body, Append(bs, Bind(T)), ret, type, y \cup New(T, n + 1))
  <2> HIDE DEF type
  <2>1. Proper(bs) /\ Checks(f, bs, ret, type, now)
    BY <1>2
  <2>2. QED
    BY <2>1, CheckLet
<1>4. PICK x, y : /\ x \cup y = now /\ x \cap y = {}
                  /\ Checks(f.value, bs, ret, T, x)
                  /\ Checks(f.body, Append(bs, Bind(T)), ret, type, y \cup New(T, n + 1))
  BY <1>3
<1>5. /\ IsTerm(f, n) /\ bs \in Environments /\ n \in Nat /\ now \in SUBSET (1 .. n)
      /\ f \in AllTerms
  <2>1. now \in SUBSET (1 .. n)
    BY <1>2 DEF Checks, Owes
  <2>2. QED
    BY <1>2, <2>1, CheckedTerm
<1>6. f.body \in AllTerms /\ f.value \in AllTerms
  <2>1. Part(f.value, n, f) /\ Part(f.body, n + 1, f)
    BY <1>2, <1>5 DEF IsTerm
  <2>2. QED
    BY <2>1, PartOf
<1>7. f.value.do # "value"
  <2>1. IsTerm(f.value, n)
    BY <1>2, <1>4, CheckedTerm
  <2>2. QED
    BY <2>1 DEF IsTerm
<1> DEFINE w == [type |-> T, owes |-> y, scope |-> bs]
           ws == Append(waits, w)
<1>8. p \in Frames /\ w \in Waits /\ p.depth = n
  <2>1. y \in SUBSET Nat
    <3>1. y \subseteq now /\ now \subseteq 1 .. n
      BY <1>4, <1>5
    <3>2. 1 .. n \subseteq Nat
      OBVIOUS
    <3>3. QED
      BY <3>1, <3>2
  <2>2. QED
    BY <1>2, <1>5, <1>6, <2>1 DEF Frames, Waits
<1>9. Resumes(p, w, ret, type)
  <2>1. y \in SUBSET (1 .. n)
    BY <1>4, <1>5
  <2>2. QED
    BY <1>2, <1>4, <2>1 DEF Resumes
<1>10. Reaches(w.scope, bs)
  BY <1>5 DEF Reaches
<1> HIDE DEF p
<1>11. Stacked(Append(parts, p), ws, bs, ret)
  <2> HIDE DEF w
  <2>1. QED
    BY <1>2, <1>5, <1>8, <1>9, <1>10, StackedMore
<1>12. /\ Len(ws) = Len(waits) + 1 /\ Len(waits) \in Nat /\ ws[Len(waits) + 1] = w
       /\ \A i \in 1 .. Len(waits) : ws[i] = waits[i]
       /\ \A i \in 1 .. Len(waits) + 1 : i \in 1 .. Len(waits) \/ i = Len(waits) + 1
       /\ Held(ws) = Held(waits) \cup y
  <2>1. waits \in Seq(Waits) /\ Len(waits) \in Nat
    BY <1>2 DEF Stacked
  <2>2. w.owes = y
    OBVIOUS
  <2> HIDE DEF w
  <2>3. QED
    BY <1>8, <2>1, <2>2, HeldMore
<1> HIDE DEF ws
<1>13. Shared(ws, x)
  <2>1. \A i \in 1 .. Len(waits) : waits[i].owes \cap x = {} /\ waits[i].owes \cap y = {}
    BY <1>2, <1>4 DEF Shared
  <2>2. \A i, j \in 1 .. Len(waits) : i # j => waits[i].owes \cap waits[j].owes = {}
    BY <1>2 DEF Shared
  <2>3. w.owes = y
    OBVIOUS
  <2> HIDE DEF w
  <2>4. \A i \in 1 .. Len(ws) : ws[i].owes \cap x = {}
    BY <1>4, <1>12, <2>1, <2>3
  <2>5. ASSUME NEW i \in 1 .. Len(ws), NEW j \in 1 .. Len(ws), i # j
        PROVE  ws[i].owes \cap ws[j].owes = {}
    <3>1. CASE i \in 1 .. Len(waits) /\ j \in 1 .. Len(waits)
      BY <1>12, <2>2, <2>5, <3>1
    <3>2. CASE i \in 1 .. Len(waits) /\ j = Len(waits) + 1
      BY <1>12, <2>1, <2>3, <3>2
    <3>3. CASE j \in 1 .. Len(waits) /\ i = Len(waits) + 1
      BY <1>12, <2>1, <2>3, <3>3
    <3>4. QED
      BY <1>12, <2>5, <3>1, <3>2, <3>3
  <2>6. QED
    BY <2>4, <2>5 DEF Shared
<1>14. Awaited(ws, ret, Len(ws)) = T
  BY <1>12 DEF Awaited
<1>15. x \cup Held(ws) = now \cup Held(waits)
  BY <1>4, <1>12
<1>16. Config(f.value, values, Append(parts, p), us, ret, bs, ws, x)
  BY <1>2, <1>4, <1>7, <1>11, <1>13, <1>14, <1>15 DEF Config, Focused, Token
<1>17. QED
  BY <1>16 DEF Going, p

\* Match: either arm owes what the match owed.
LEMMA MatchGoes ==
    ASSUME NEW f, NEW values, NEW parts, NEW us, NEW ret \in Types,
           Going(f, values, parts, us, ret), f.do = "match", NEW i \in DOMAIN f.arms
    PROVE  Going(f.arms[i], values, parts, us, ret)
<1>1. PICK bs, waits, now : Config(f, values, parts, us, ret, bs, waits, now)
  BY DEF Going
<1> DEFINE type == Awaited(waits, ret, Len(waits))
<1>2. /\ Proper(bs) /\ Checks(f, bs, ret, type, now)
      /\ Debts(values, us, 0, now \cup Held(waits))
  BY <1>1 DEF Config, Focused, Token, Truthful
<1>3. Checks(f.arms[i], bs, ret, type, now)
  <2> HIDE DEF type
  <2>1. QED
    BY <1>2, CheckMatch
<1>4. f.arms[i].do # "value"
  <2>1. IsTerm(f.arms[i], Len(bs))
    BY <1>2, <1>3, CheckedTerm
  <2>2. QED
    BY <2>1 DEF IsTerm
<1>5. Config(f.arms[i], values, parts, us, ret, bs, waits, now)
  BY <1>1, <1>2, <1>3, <1>4 DEF Config, Focused, Token
<1>6. QED
  BY <1>5 DEF Going

\* EnterLoop: what is carried is plain, and the loop waits and owes nothing.
LEMMA LoopGoes ==
    ASSUME NEW f, NEW values, NEW parts, NEW us, NEW ret \in Types,
           Going(f, values, parts, us, ret), f.do = "loop"
    PROVE  /\ f.init # 0 => values[f.init] = 0
           /\ Going(f.cond, Append(values, 0),
                    Append(parts, [do |-> "cond", loop |-> f, depth |-> Len(values)]),
                    us, ret)
<1>1. PICK bs, waits, now : Config(f, values, parts, us, ret, bs, waits, now)
  BY DEF Going
<1> DEFINE type == Awaited(waits, ret, Len(waits))
           n == Len(bs)
           inner == Append(bs, Bind("Plain"))
           more == Append(values, 0)
           p == [do |-> "cond", loop |-> f, depth |-> Len(values)]
           w == [type |-> "Plain", owes |-> {}, scope |-> inner]
           ws == Append(waits, w)
<1>2. /\ Truthful(values, bs, us) /\ Proper(bs) /\ Checks(f, bs, ret, type, now)
      /\ Stacked(parts, waits, bs, ret) /\ Shared(waits, now)
      /\ Debts(values, us, 0, now \cup Held(waits))
      /\ values \in Seq(Nat) /\ us \in Seq({0, 1}) /\ Len(values) = n
      /\ \A k \in 1 .. n : Valued(values[k], bs[k].type, Len(us))
  BY <1>1 DEF Config, Focused, Token, Truthful
<1>3. waits \in Seq(Waits) /\ Len(waits) \in Nat
  BY <1>2 DEF Stacked
<1>4. /\ AtomType(bs, f.init) = "Plain" /\ type = "Plain" /\ now = {}
      /\ Checks(f.cond, inner, ret, "Plain", {})
      /\ Checks(f.body, inner, ret, "Plain", {})
  <2>1. type \in OutTypes
    BY <1>3, AwaitedType
  <2> HIDE DEF type
  <2>2. QED
    BY <1>2, <2>1, CheckLoop
<1>5. /\ IsTerm(f, n) /\ bs \in Environments /\ n \in Nat /\ f \in AllTerms
  <2> HIDE DEF type
  <2>1. QED
    BY <1>2, CheckedTerm
<1>5a. f.init # 0 => values[f.init] = 0
  <2>1. SUFFICES ASSUME f.init # 0 PROVE values[f.init] = 0
    OBVIOUS
  <2>2. f.init \in 1 .. n
    BY <1>5, <2>1 DEF IsTerm
  <2>3. bs[f.init].type = "Plain"
    BY <1>4, <1>5, <2>1, <2>2 DEF AtomType, Environments
  <2>4. QED
    BY <1>2, <2>2, <2>3 DEF Valued
<1>6. /\ Proper(inner) /\ Len(inner) = n + 1 /\ inner[n + 1] = Bind("Plain")
      /\ \A k \in 1 .. n : inner[k] = bs[k]
  BY <1>2, ProperBound DEF OutTypes, Types
<1>7. f.cond.do # "value"
  <2> HIDE DEF inner
  <2>1. IsTerm(f.cond, n + 1)
    BY <1>4, <1>6, CheckedTerm
  <2>2. QED
    BY <2>1 DEF IsTerm
<1>8. more \in Seq(Nat) /\ Len(more) = n + 1 /\ more[n + 1] = 0
      /\ \A k \in 1 .. n : more[k] = values[k]
  BY <1>2
<1> HIDE DEF inner, more
<1>9. Truthful(more, inner, us)
  <2>1. Bind("Plain").type = "Plain"
    BY DEF Bind, Binder
  <2>2. \A k \in 1 .. n + 1 : k \in 1 .. n \/ k = n + 1
    BY <1>5
  <2>3. ASSUME NEW k \in 1 .. n + 1 PROVE Valued(more[k], inner[k].type, Len(us))
    <3>1. CASE k \in 1 .. n
      BY <1>2, <1>6, <1>8, <3>1
    <3>2. CASE k = n + 1
      BY <1>6, <1>8, <2>1, <3>2 DEF Valued
    <3>3. QED
      BY <2>2, <3>1, <3>2
  <2>4. QED
    BY <1>2, <1>6, <1>8, <2>3 DEF Truthful
<1>10. p \in Frames /\ w \in Waits /\ p.depth = n
  <2>1. inner \in Environments
    BY <1>6 DEF Proper
  <2>2. QED
    BY <1>2, <1>5, <2>1 DEF Frames, Waits, OutTypes, Types
<1>11. Resumes(p, w, ret, type)
  BY <1>2, <1>4, <1>6 DEF Resumes
<1>12. Reaches(w.scope, inner)
  BY <1>5, <1>6 DEF Reaches
<1> HIDE DEF p
<1>13. Stacked(Append(parts, p), ws, inner, ret)
  <2>1. Len(bs) <= Len(inner) /\ Len(inner) \in Nat
    BY <1>5, <1>6
  <2> HIDE DEF w
  <2>2. QED
    BY <1>2, <1>5, <1>6, <1>10, <1>11, <1>12, <2>1, StackedMore
<1>14. /\ Len(ws) = Len(waits) + 1 /\ ws[Len(waits) + 1] = w
       /\ \A i \in 1 .. Len(waits) : ws[i] = waits[i]
       /\ \A i \in 1 .. Len(waits) + 1 : i \in 1 .. Len(waits) \/ i = Len(waits) + 1
       /\ Held(ws) = Held(waits)
  <2>1. w.owes = {}
    OBVIOUS
  <2> HIDE DEF w
  <2>2. Held(ws) = Held(waits) \cup w.owes
    BY <1>3, <1>10, HeldMore
  <2>3. Held(ws) = Held(waits)
    BY <2>1, <2>2
  <2>4. QED
    BY <1>3, <1>10, <2>3, HeldMore
<1> HIDE DEF ws
<1>15. Shared(ws, {})
  <2>1. w.owes = {}
    OBVIOUS
  <2> HIDE DEF w
  <2>2. \A i, j \in 1 .. Len(waits) : i # j => waits[i].owes \cap waits[j].owes = {}
    BY <1>2 DEF Shared
  <2>3. ASSUME NEW i \in 1 .. Len(ws), NEW j \in 1 .. Len(ws), i # j
        PROVE  ws[i].owes \cap ws[j].owes = {}
    <3>1. CASE i \in 1 .. Len(waits) /\ j \in 1 .. Len(waits)
      BY <1>14, <2>2, <2>3, <3>1
    <3>2. CASE i = Len(waits) + 1 \/ j = Len(waits) + 1
      BY <1>14, <2>1, <3>2
    <3>3. QED
      BY <1>14, <3>1, <3>2
  <2>4. QED
    BY <2>3 DEF Shared
<1>16. Awaited(ws, ret, Len(ws)) = "Plain"
  BY <1>3, <1>14 DEF Awaited
<1>17. Debts(more, us, 0, {} \cup Held(ws))
  <2> DEFINE all == Held(waits)
  <2>1. Debts(values, us, 0, all) /\ {} \cup Held(ws) = all
    <3>1. now \cup Held(waits) = all
      BY <1>4
    <3>2. QED
      BY <1>2, <1>14, <3>1
  <2>2. \A k \in all : k \in 1 .. n
    BY <1>2, <2>1 DEF Debts
  <2> HIDE DEF all
  <2>3. \A k \in all : k \in 1 .. Len(more) /\ more[k] = values[k]
    BY <1>5, <1>8, <2>2
  <2>4. Debts(more, us, 0, all)
    BY <1>2, <1>8, <2>1, <2>3, DebtKept
  <2>5. QED
    BY <2>1, <2>4
<1>18. Config(f.cond, more, Append(parts, p), us, ret, inner, ws, {})
  BY <1>4, <1>7, <1>9, <1>13, <1>15, <1>16, <1>17 DEF Config, Focused, Token
<1>19. QED
  BY <1>18, <1>5a DEF Going, p, more

\* A value is there and a part waits for it.  p is the innermost part, which
\* waits as w says; less are the others.
AtValue(f, values, parts, us, ret, bs, waits, n, p, w, less) ==
    /\ Truthful(values, bs, us) /\ Stacked(parts, waits, bs, ret) /\ Shared(waits, {})
    /\ Valued(f.value, w.type, Len(us)) /\ f.value \in Nat
    /\ Debts(values, us, f.value, Held(less) \cup w.owes)
    /\ Len(waits) = n + 1 /\ waits \in Seq(Waits) /\ Held(waits) = Held(less) \cup w.owes
    /\ Len(less) = n /\ Awaited(less, ret, n) = Awaited(waits, ret, n)
    /\ Resumes(p, w, ret, Awaited(waits, ret, n)) /\ Reaches(w.scope, bs)
    /\ p \in Frames /\ w \in Waits /\ p.depth \in Nat /\ p.depth <= Len(w.scope)
    /\ Len(w.scope) \in Nat /\ Len(w.scope) <= Len(bs) /\ Len(bs) \in Nat
    /\ Held(less) \in SUBSET (1 .. p.depth)
    /\ Shared(less, w.owes)

\* When a value is there, the innermost part is all that sees more variables
\* than its depth, and nothing is owed but by parts.
LEMMA ValueGoes ==
    ASSUME NEW f, NEW values, NEW parts, NEW us, NEW ret \in Types, NEW bs, NEW waits, NEW now,
           Config(f, values, parts, us, ret, bs, waits, now), f.do = "value",
           Len(parts) # 0, NEW n \in Nat, n = Len(parts) - 1,
           NEW p, p = parts[n + 1], NEW w, w = waits[n + 1],
           NEW less, less = SubSeq(waits, 1, n)
    PROVE  AtValue(f, values, parts, us, ret, bs, waits, n, p, w, less)
<1>1. /\ Truthful(values, bs, us) /\ Stacked(parts, waits, bs, ret) /\ Shared(waits, now)
      /\ now = {} /\ Valued(f.value, Awaited(waits, ret, Len(waits)), Len(us))
      /\ Debts(values, us, f.value, now \cup Held(waits))
  BY DEF Config, Focused, Token
<1>2. waits \in Seq(Waits) /\ Len(waits) = n + 1 /\ Len(waits) # 0
  BY <1>1 DEF Stacked
<1>3. /\ p \in Frames /\ w \in Waits /\ p.depth \in Nat /\ p.depth <= Len(w.scope)
      /\ Resumes(p, w, ret, Awaited(waits, ret, n)) /\ Reaches(w.scope, bs)
      /\ \A i \in 1 .. n : Len(waits[i].scope) <= p.depth
  BY <1>1, StackedTop
<1>4. /\ Len(less) = n /\ \A i \in 1 .. n : less[i] = waits[i]
      /\ Held(waits) = Held(less) \cup w.owes
  BY <1>2, HeldLess
<1>5. Valued(f.value, w.type, Len(us)) /\ f.value \in Nat
  <2>1. Awaited(waits, ret, Len(waits)) = w.type
    BY <1>2 DEF Awaited
  <2>2. QED
    BY <1>1, <2>1 DEF Valued
<1>6. Awaited(less, ret, n) = Awaited(waits, ret, n)
  BY <1>4 DEF Awaited
<1>7. /\ Len(w.scope) \in Nat /\ Len(w.scope) <= Len(bs) /\ Len(bs) \in Nat
  <2>1. Len(w.scope) \in Nat
    BY <1>3 DEF Waits, Environments
  <2>2. Len(bs) \in Nat
    BY <1>1 DEF Truthful, Proper, Environments
  <2>3. QED
    BY <1>3, <2>1, <2>2 DEF Reaches
<1>8. ASSUME NEW i \in 1 .. n PROVE waits[i].owes \in SUBSET (1 .. p.depth)
  <2>1. i \in 1 .. n + 1
    OBVIOUS
  <2>2. Resumes(parts[i], waits[i], ret, Awaited(waits, ret, i - 1))
    BY <1>2, <2>1, <1>1 DEF Stacked
  <2>3. waits[i] \in Waits
    <3>1. n + 1 \in Nat
      OBVIOUS
    <3>2. QED
      BY <1>2, <2>1, <3>1, Elements
  <2>4. Len(waits[i].scope) \in Nat /\ Len(waits[i].scope) <= p.depth
    BY <1>3, <2>3 DEF Waits, Environments
  <2>5. waits[i].owes \in SUBSET (1 .. Len(waits[i].scope))
    BY <2>2 DEF Resumes
  <2>6. 1 .. Len(waits[i].scope) \subseteq 1 .. p.depth
    BY <1>3, <2>4
  <2>7. QED
    BY <2>5, <2>6
<1>9. Held(less) \in SUBSET (1 .. p.depth)
  BY <1>4, <1>8 DEF Held
<1>10. Shared(less, w.owes)
  <2>1. \A i, j \in 1 .. n + 1 : i # j => waits[i].owes \cap waits[j].owes = {}
    BY <1>1, <1>2 DEF Shared
  <2>2. \A i \in 1 .. n : i \in 1 .. n + 1 /\ i # n + 1 /\ n + 1 \in 1 .. n + 1
    OBVIOUS
  <2>3. ASSUME NEW i \in 1 .. n PROVE less[i].owes \cap w.owes = {}
    <3>1. waits[i].owes \cap waits[n + 1].owes = {}
      BY <2>1, <2>2
    <3>2. QED
      BY <1>4, <3>1
  <2>4. ASSUME NEW i \in 1 .. n, NEW j \in 1 .. n, i # j
        PROVE  less[i].owes \cap less[j].owes = {}
    <3>1. waits[i].owes \cap waits[j].owes = {}
      BY <2>1, <2>2, <2>4
    <3>2. QED
      BY <1>4, <3>1
  <2>5. QED
    BY <1>4, <2>3, <2>4 DEF Shared
<1>11. Shared(waits, {}) /\ Debts(values, us, f.value, Held(less) \cup w.owes)
  <2>1. now \cup Held(waits) = Held(less) \cup w.owes
    BY <1>1, <1>4
  <2>2. QED
    BY <1>1, <2>1
<1>12. QED
  BY <1>1, <1>2, <1>3, <1>4, <1>5, <1>6, <1>7, <1>9, <1>10, <1>11 DEF AtValue

\* BindLet: the body owes what it waited with, and the new variable if that is
\* linear.
LEMMA BindGoes ==
    ASSUME NEW f, NEW values, NEW parts, NEW us, NEW ret \in Types,
           Going(f, values, parts, us, ret), f.do = "value",
           Len(parts) # 0, NEW n \in Nat, n = Len(parts) - 1,
           NEW p, p = parts[n + 1], p.do = "let"
    PROVE  Going(p.body, Append(SubSeq(values, 1, p.depth), f.value), SubSeq(parts, 1, n), us, ret)
<1>1. PICK bs, waits, now : Config(f, values, parts, us, ret, bs, waits, now)
  BY DEF Going
<1> DEFINE w == waits[n + 1]
           less == SubSeq(waits, 1, n)
           T == w.type
           d == p.depth
           inner == Append(w.scope, Bind(T))
           after == Append(SubSeq(values, 1, d), f.value)
           fewer == SubSeq(parts, 1, n)
           type == Awaited(waits, ret, n)
<1>2. /\ Truthful(values, bs, us) /\ Stacked(parts, waits, bs, ret)
      /\ Valued(f.value, w.type, Len(us)) /\ f.value \in Nat
      /\ Debts(values, us, f.value, Held(less) \cup w.owes)
      /\ Len(less) = n /\ Awaited(less, ret, n) = type
      /\ Resumes(p, w, ret, type) /\ Reaches(w.scope, bs)
      /\ w \in Waits /\ p.depth \in Nat
      /\ Len(w.scope) \in Nat /\ Len(w.scope) <= Len(bs) /\ Len(bs) \in Nat
      /\ Held(less) \in SUBSET (1 .. p.depth)
      /\ Shared(less, w.owes)
  <2>1. w = waits[n + 1] /\ less = SubSeq(waits, 1, n)
    OBVIOUS
  <2> HIDE DEF w, less
  <2>2. AtValue(f, values, parts, us, ret, bs, waits, n, p, w, less)
    BY <1>1, <2>1, ValueGoes
  <2>3. QED
    BY <2>2 DEF AtValue
<1>3. /\ Proper(w.scope) /\ Len(w.scope) = d /\ w.owes \in SUBSET (1 .. d)
      /\ Checks(p.body, inner, ret, type, w.owes \cup New(T, d + 1))
      /\ d \in Nat /\ T \in OutTypes /\ d <= Len(bs) /\ T \in Types
  BY <1>2 DEF Resumes, Waits, Valued, Types
<1>4. /\ Len(values) = Len(bs) /\ values \in Seq(Nat) /\ us \in Seq({0, 1})
      /\ \A k \in 1 .. Len(bs) : Valued(values[k], bs[k].type, Len(us))
      /\ \A k \in 1 .. d : bs[k] = w.scope[k]
  BY <1>2, <1>3 DEF Truthful, Reaches
<1>5. /\ Proper(inner) /\ Len(inner) = d + 1 /\ inner[d + 1] = Bind(T)
      /\ \A k \in 1 .. d : inner[k] = w.scope[k]
  <2> DEFINE scope == w.scope
             ty == w.type
  <2>1. Proper(scope) /\ ty \in OutTypes /\ Len(scope) = d
    BY <1>3
  <2> HIDE DEF scope, ty
  <2>2. /\ Proper(Append(scope, Bind(ty))) /\ Len(Append(scope, Bind(ty))) = d + 1
        /\ Append(scope, Bind(ty))[d + 1] = Bind(ty)
        /\ \A k \in 1 .. d : Append(scope, Bind(ty))[k] = scope[k]
    BY <2>1, ProperBound
  <2>3. QED
    BY <2>2 DEF scope, ty
<1>6. /\ after \in Seq(Nat) /\ Len(after) = d + 1 /\ after[d + 1] = f.value
      /\ \A k \in 1 .. d : after[k] = values[k]
  <2> DEFINE front == SubSeq(values, 1, d)
  <2>0. d <= Len(values) /\ d \in Nat
    BY <1>3, <1>4
  <2>1. front \in Seq(Nat) /\ Len(front) = d /\ \A k \in 1 .. d : front[k] = values[k]
    <3> HIDE DEF d
    <3>1. QED
      BY <1>4, <2>0, Prefix
  <2> HIDE DEF front
  <2>2. /\ Append(front, f.value) \in Seq(Nat) /\ Len(Append(front, f.value)) = d + 1
        /\ Append(front, f.value)[d + 1] = f.value
        /\ \A k \in 1 .. d : Append(front, f.value)[k] = front[k]
    BY <1>2, <1>3, <2>1
  <2>3. QED
    BY <2>1, <2>2 DEF front
<1> HIDE DEF inner, after, fewer, less, w, type
<1>7. Truthful(after, inner, us)
  <2>1. Bind(T).type = T
    BY DEF Bind, Binder
  <2>2. ASSUME NEW k \in 1 .. d + 1 PROVE Valued(after[k], inner[k].type, Len(us))
    <3>1. CASE k = d + 1
      BY <1>2, <1>5, <1>6, <2>1, <3>1
    <3>2. CASE k # d + 1
      <4>1. k \in 1 .. d
        BY <1>3, <3>2
      <4>2. k \in 1 .. Len(bs)
        <5>1. d <= Len(bs) /\ d \in Nat /\ Len(bs) \in Nat
          BY <1>2, <1>3
        <5>2. QED
          BY <4>1, <5>1
      <4>3. QED
        BY <1>4, <1>5, <1>6, <4>1, <4>2
    <3>3. QED
      BY <3>1, <3>2
  <2>3. QED
    BY <1>4, <1>5, <1>6, <2>2 DEF Truthful
<1>8. Stacked(fewer, less, inner, ret)
  <2>1. /\ d <= Len(inner) /\ Len(inner) \in Nat
        /\ \A k \in 1 .. d : inner[k] = bs[k]
    BY <1>3, <1>4, <1>5
  <2>2. QED
    BY <1>2, <2>1, StackedLess DEF fewer, less
<1>9. Shared(less, w.owes \cup New(T, d + 1))
  <2>1. d + 1 \notin Held(less)
    BY <1>2, <1>3
  <2>2. \A i \in 1 .. Len(less) : d + 1 \notin less[i].owes
    BY <2>1 DEF Held
  <2>3. \A i \in 1 .. Len(less) : less[i].owes \cap New(T, d + 1) = {}
    BY <2>2 DEF New
  <2>4. QED
    BY <1>2, <2>3 DEF Shared
<1>10. Debts(after, us, 0, (w.owes \cup New(T, d + 1)) \cup Held(less))
  <2> DEFINE all == Held(less) \cup w.owes
             more == New(T, d + 1)
             token == f.value
  <2>1. more = IF f.value # 0 THEN {d + 1} ELSE {}
    BY <1>2 DEF New, Valued
  <2>2. all \in SUBSET (1 .. d) /\ Debts(values, us, f.value, all)
    BY <1>2, <1>3
  <2>3. Debts(after, us, 0, all \cup more)
    <3>1. /\ token \in Nat /\ Debts(values, us, token, all) /\ all \in SUBSET (1 .. d)
          /\ after[d + 1] = token /\ more = IF token # 0 THEN {d + 1} ELSE {}
      BY <1>2, <1>6, <2>1, <2>2
    <3>2. Bound(after, values, d, token) /\ d \in Nat
      BY <1>3, <1>6 DEF Bound
    <3> HIDE DEF all, more, token
    <3>3. QED
      BY <1>4, <3>1, <3>2, DebtBound
  <2>4. all \cup more = (w.owes \cup New(T, d + 1)) \cup Held(less)
    BY DEF all, more
  <2>5. QED
    BY <2>3, <2>4
<1>11. p.body.do # "value"
  <2>1. IsTerm(p.body, Len(inner))
    BY <1>3, <1>5, CheckedTerm DEF inner
  <2>2. QED
    BY <2>1 DEF IsTerm
<1>12. Config(p.body, after, fewer, us, ret, inner, less, w.owes \cup New(T, d + 1))
  <2>1. Checks(p.body, inner, ret, type, w.owes \cup New(T, d + 1))
    BY <1>3 DEF inner
  <2>2. QED
    BY <1>2, <1>7, <1>8, <1>9, <1>10, <1>11, <2>1 DEF Config, Focused, Token
<1>13. QED
  BY <1>12 DEF Going, after, fewer

\* Turn and NextTurn: loop p, the innermost part, evaluates its body or its
\* condition next, with its variable as it was or anew.
Turning(f, values, parts, n, p, term, after, ps) ==
    /\ p = parts[n + 1] /\ p.do # "let" /\ term \in {p.loop.cond, p.loop.body}
    /\ after \in {SubSeq(values, 1, p.depth + 1),
                  Append(SubSeq(values, 1, p.depth), f.value)}
    /\ \E next \in {"cond", "next"} : ps = [parts EXCEPT ![n + 1].do = next]

\* Turn and NextTurn: body and condition owe nothing, whatever the turn.
LEMMA TurnGoes ==
    ASSUME NEW f, NEW values, NEW parts, NEW us, NEW ret \in Types,
           Going(f, values, parts, us, ret), f.do = "value",
           Len(parts) # 0, NEW n \in Nat, n = Len(parts) - 1,
           NEW p, NEW term, NEW after, NEW ps, Turning(f, values, parts, n, p, term, after, ps)
    PROVE  Going(term, after, ps, us, ret)
<1>0. PICK next \in {"cond", "next"} :
          /\ p = parts[n + 1] /\ p.do # "let" /\ term \in {p.loop.cond, p.loop.body}
          /\ after \in {SubSeq(values, 1, p.depth + 1),
                        Append(SubSeq(values, 1, p.depth), f.value)}
          /\ ps = [parts EXCEPT ![n + 1].do = next]
  BY DEF Turning
<1>1. PICK bs, waits, now : Config(f, values, parts, us, ret, bs, waits, now)
  BY DEF Going
<1> DEFINE w == waits[n + 1]
           less == SubSeq(waits, 1, n)
           d == p.depth
           scope == w.scope
           type == Awaited(waits, ret, n)
<1>2. /\ Truthful(values, bs, us) /\ Stacked(parts, waits, bs, ret) /\ Shared(waits, {})
      /\ Valued(f.value, w.type, Len(us))
      /\ Debts(values, us, f.value, Held(less) \cup w.owes)
      /\ Held(waits) = Held(less) \cup w.owes /\ Len(waits) = n + 1
      /\ Resumes(p, w, ret, type) /\ Reaches(w.scope, bs)
      /\ d \in Nat /\ Len(bs) \in Nat /\ Len(scope) <= Len(bs)
      /\ Held(less) \in SUBSET (1 .. d)
  <2>1. w = waits[n + 1] /\ less = SubSeq(waits, 1, n)
    OBVIOUS
  <2> HIDE DEF w, less
  <2>2. AtValue(f, values, parts, us, ret, bs, waits, n, p, w, less)
    BY <1>0, <1>1, <2>1, ValueGoes
  <2>3. QED
    BY <2>2 DEF AtValue
<1>3. /\ Proper(scope) /\ Len(scope) = d + 1 /\ scope[d + 1] = Bind("Plain")
      /\ w.owes = {} /\ w.type = "Plain" /\ Checks(term, scope, ret, "Plain", {})
  BY <1>0, <1>2 DEF Resumes
<1>4. /\ Len(values) = Len(bs) /\ values \in Seq(Nat) /\ us \in Seq({0, 1})
      /\ \A k \in 1 .. Len(bs) : Valued(values[k], bs[k].type, Len(us))
      /\ \A k \in 1 .. d + 1 : bs[k] = scope[k]
      /\ d + 1 <= Len(bs) /\ d <= Len(bs)
  BY <1>2, <1>3 DEF Truthful, Reaches
<1>5. Stacked(ps, waits, scope, ret)
  BY <1>0, <1>2, StackedTurn
<1>6. Awaited(waits, ret, Len(waits)) = "Plain"
  BY <1>2, <1>3 DEF Awaited
<1> HIDE DEF less, w, scope, type, d
<1>7. f.value = 0 /\ values[d + 1] = 0
  <2>1. Bind("Plain").type = "Plain" /\ d + 1 \in 1 .. d + 1 /\ d + 1 \in 1 .. Len(bs)
    BY <1>2, <1>4 DEF Bind, Binder
  <2>2. Valued(values[d + 1], "Plain", Len(us))
    BY <1>3, <1>4, <2>1
  <2>3. QED
    BY <1>2, <1>3, <2>2 DEF Valued
<1>8. Bound(after, values, d, 0)
  <2> DEFINE front == SubSeq(values, 1, d)
             wide == SubSeq(values, 1, d + 1)
  <2>1. front \in Seq(Nat) /\ Len(front) = d /\ \A k \in 1 .. d : front[k] = values[k]
    BY <1>2, <1>4, Prefix
  <2>2. /\ wide \in Seq(Nat) /\ Len(wide) = d + 1
        /\ \A k \in 1 .. d + 1 : wide[k] = values[k]
    <3>1. d + 1 \in Nat /\ d + 1 <= Len(values)
      BY <1>2, <1>4
    <3>2. QED
      BY <1>4, <3>1, Prefix
  <2>3. after \in {wide, Append(front, 0)}
    BY <1>0, <1>7 DEF d
  <2> HIDE DEF front, wide
  <2>4. Bound(wide, values, d, 0)
    <3>1. d + 1 \in 1 .. d + 1 /\ 1 .. d \subseteq 1 .. d + 1
      BY <1>2
    <3>2. QED
      BY <1>7, <2>2, <3>1 DEF Bound
  <2>5. Bound(Append(front, 0), values, d, 0)
    <3>1. /\ Append(front, 0) \in Seq(Nat) /\ Len(Append(front, 0)) = d + 1
          /\ Append(front, 0)[d + 1] = 0 /\ \A k \in 1 .. d : Append(front, 0)[k] = front[k]
      BY <2>1
    <3>2. QED
      BY <2>1, <3>1 DEF Bound
  <2>6. QED
    BY <2>3, <2>4, <2>5
<1>9. Truthful(after, scope, us)
  <2>1. ASSUME NEW k \in 1 .. d + 1 PROVE Valued(after[k], scope[k].type, Len(us))
    <3>1. CASE k = d + 1
      <4>1. after[k] = 0 /\ scope[k].type = "Plain"
        BY <1>3, <1>8, <3>1 DEF Bound, Bind, Binder
      <4>2. QED
        BY <4>1 DEF Valued
    <3>2. CASE k # d + 1
      <4>1. k \in 1 .. d /\ k \in 1 .. Len(bs)
        <5>1. d + 1 <= Len(bs) /\ d \in Nat /\ Len(bs) \in Nat
          BY <1>2, <1>4
        <5>2. QED
          BY <3>2, <5>1
      <4>2. QED
        BY <1>4, <1>8, <4>1 DEF Bound
    <3>3. QED
      BY <3>1, <3>2
  <2>2. QED
    BY <1>3, <1>4, <1>8, <2>1 DEF Truthful, Bound
<1>10. Debts(after, us, 0, {} \cup Held(waits))
  <2> DEFINE all == Held(waits)
             more == IF 0 # 0 THEN {d + 1} ELSE {}
  <2>1. Debts(values, us, 0, all) /\ all \in SUBSET (1 .. d) /\ more = {}
    BY <1>2, <1>3, <1>7 DEF d
  <2>2. Debts(after, us, 0, all \cup more)
    <3>1. 0 \in Nat /\ more = IF 0 # 0 THEN {d + 1} ELSE {}
      OBVIOUS
    <3> HIDE DEF all, more
    <3>2. QED
      BY <1>2, <1>4, <1>8, <2>1, <3>1, DebtBound
  <2>3. all \cup more = {} \cup Held(waits)
    BY <2>1
  <2>4. QED
    BY <2>2, <2>3
<1>11. term.do # "value"
  <2>1. IsTerm(term, Len(scope))
    BY <1>3, CheckedTerm
  <2>2. QED
    BY <2>1 DEF IsTerm
<1>12. Config(term, after, ps, us, ret, scope, waits, {})
  BY <1>2, <1>3, <1>5, <1>6, <1>9, <1>10, <1>11 DEF Config, Focused, Token
<1>13. QED
  BY <1>12 DEF Going

\* LeaveLoop: the value is the carried one, which is plain.
LEMMA LeaveGoes ==
    ASSUME NEW f, NEW values, NEW parts, NEW us, NEW ret \in Types,
           Going(f, values, parts, us, ret), f.do = "value",
           Len(parts) # 0, NEW n \in Nat, n = Len(parts) - 1,
           NEW p, p = parts[n + 1], p.do # "let"
    PROVE  Going(Value(values[p.depth + 1]), SubSeq(values, 1, p.depth),
                 SubSeq(parts, 1, n), us, ret)
<1>1. PICK bs, waits, now : Config(f, values, parts, us, ret, bs, waits, now)
  BY DEF Going
<1> DEFINE w == waits[n + 1]
           less == SubSeq(waits, 1, n)
           d == p.depth
           type == Awaited(waits, ret, n)
           outer == SubSeq(bs, 1, d)
           after == SubSeq(values, 1, d)
           fewer == SubSeq(parts, 1, n)
<1>2. /\ Truthful(values, bs, us) /\ Stacked(parts, waits, bs, ret)
      /\ Valued(f.value, w.type, Len(us))
      /\ Debts(values, us, f.value, Held(less) \cup w.owes)
      /\ Len(less) = n /\ Awaited(less, ret, n) = type
      /\ Resumes(p, w, ret, type) /\ Reaches(w.scope, bs)
      /\ d \in Nat /\ Len(bs) \in Nat /\ Len(w.scope) <= Len(bs)
      /\ Held(less) \in SUBSET (1 .. d) /\ Shared(less, w.owes)
  <2>1. w = waits[n + 1] /\ less = SubSeq(waits, 1, n)
    OBVIOUS
  <2> HIDE DEF w, less
  <2>2. AtValue(f, values, parts, us, ret, bs, waits, n, p, w, less)
    BY <1>1, <2>1, ValueGoes
  <2>3. QED
    BY <2>2 DEF AtValue
<1>3. /\ Len(w.scope) = d + 1 /\ w.scope[d + 1] = Bind("Plain")
      /\ w.owes = {} /\ w.type = "Plain" /\ type = "Plain"
  BY <1>2 DEF Resumes
<1>4. /\ Len(values) = Len(bs) /\ values \in Seq(Nat) /\ us \in Seq({0, 1})
      /\ \A k \in 1 .. Len(bs) : Valued(values[k], bs[k].type, Len(us))
      /\ d + 1 <= Len(bs) /\ Proper(bs)
  BY <1>2, <1>3 DEF Truthful
<1>a. d \in Nat /\ Len(bs) \in Nat /\ d + 1 <= Len(bs)
  BY <1>2, <1>4
<1>b. d <= Len(bs) /\ 1 .. d \subseteq 1 .. Len(bs) /\ d + 1 \in 1 .. Len(bs) /\ d + 1 \in 1 .. d + 1
  <2> HIDE DEF d
  <2>1. QED
    BY <1>a
<1>5. values[d + 1] = 0 /\ f.value = 0
  <2>1. d + 1 \in 1 .. d + 1 /\ d + 1 \in 1 .. Len(bs)
    BY <1>b
  <2>2. bs[d + 1] = Bind("Plain") /\ Bind("Plain").type = "Plain"
    BY <1>2, <1>3, <2>1 DEF Reaches, Bind, Binder
  <2>3. Valued(values[d + 1], "Plain", Len(us))
    BY <1>4, <2>1, <2>2
  <2>4. QED
    BY <1>2, <1>3, <2>3 DEF Valued
<1> HIDE DEF d, outer, after, fewer, type, less, w
<1>6. d <= Len(bs) /\ 1 .. d \subseteq 1 .. Len(bs)
  BY <1>b
<1>7. /\ outer \in Environments /\ Len(outer) = d /\ \A k \in 1 .. d : outer[k] = bs[k]
  BY <1>2, <1>4, <1>6, Prefix DEF outer, Proper, Environments
<1>8. Proper(outer)
  <2>1. DOMAIN outer = 1 .. d /\ DOMAIN bs = 1 .. Len(bs)
    BY <1>4, <1>7 DEF Environments, Proper
  <2>2. QED
    BY <1>4, <1>6, <1>7, <2>1 DEF Proper
<1>9. after \in Seq(Nat) /\ Len(after) = d /\ \A k \in 1 .. d : after[k] = values[k]
  BY <1>2, <1>4, <1>6, Prefix DEF after
<1>10. Truthful(after, outer, us)
  BY <1>4, <1>6, <1>7, <1>8, <1>9 DEF Truthful
<1>11. Stacked(fewer, less, outer, ret)
  BY <1>2, <1>7, StackedLess DEF fewer, less, d
<1>12. Debts(after, us, 0, {} \cup Held(less)) /\ Shared(less, {})
  <2> DEFINE all == Held(less)
  <2>1. Held(less) \cup w.owes = all /\ {} \cup Held(less) = all
    BY <1>3
  <2>2. Debts(values, us, 0, all) /\ all \in SUBSET (1 .. d)
    BY <1>2, <1>5, <2>1
  <2>3. Shared(less, {})
    BY <1>2, <1>3
  <2> HIDE DEF all
  <2>4. \A k \in all : k \in 1 .. Len(after) /\ after[k] = values[k]
    BY <1>9, <2>2
  <2>5. Debts(after, us, 0, all)
    BY <1>4, <1>9, <2>2, <2>4, DebtKept
  <2>6. QED
    BY <2>1, <2>3, <2>5
<1>13. Config(Value(0), after, fewer, us, ret, outer, less, {})
  BY <1>2, <1>3, <1>10, <1>11, <1>12 DEF Config, Focused, Token, Value, Valued
<1>14. QED
  BY <1>5, <1>13 DEF Going, after, fewer, d

-----------------------------------------------------------------------------
(***************************************************************************)
(* What a call, a return and the end of a function consume.                *)
(***************************************************************************)

\* us, when tokens have been consumed.
Spent(us, tokens) ==
    [t \in DOMAIN us |-> us[t] + Cardinality({i \in DOMAIN tokens : tokens[i] = t})]

Read(values, args) == [i \in DOMAIN args |-> IF args[i] = 0 THEN 0 ELSE values[args[i]]]

\* Consuming changes the counts only.
LEMMA SpentSequence ==
    ASSUME NEW us \in Seq({0, 1}), NEW S, NEW tokens \in Seq(S)
    PROVE  Spent(us, tokens) \in Seq(Nat) /\ Len(Spent(us, tokens)) = Len(us)
<1>1. ASSUME NEW t PROVE Cardinality({i \in DOMAIN tokens : tokens[i] = t}) \in Nat
  <2>0. DOMAIN tokens = 1 .. Len(tokens) /\ Len(tokens) \in Int /\ 1 \in Int
    OBVIOUS
  <2>1. IsFiniteSet(1 .. Len(tokens))
    BY <2>0, FS_Interval
  <2>2. IsFiniteSet({i \in DOMAIN tokens : tokens[i] = t})
    BY <2>0, <2>1, FS_Subset
  <2>3. QED
    BY <2>2, FS_CardinalityType
<1>2. /\ DOMAIN us = 1 .. Len(us) /\ Len(us) \in Nat
      /\ \A t \in 1 .. Len(us) : us[t] \in Nat
  OBVIOUS
<1>3. ASSUME NEW t \in 1 .. Len(us)
      PROVE  us[t] + Cardinality({i \in DOMAIN tokens : tokens[i] = t}) \in Nat
  <2> DEFINE c == Cardinality({i \in DOMAIN tokens : tokens[i] = t})
  <2>1. c \in Nat /\ us[t] \in Nat
    BY <1>1, <1>2
  <2> HIDE DEF c
  <2>2. us[t] + c \in Nat
    BY <2>1
  <2>3. QED
    BY <2>2 DEF c
<1> DEFINE F(t) == us[t] + Cardinality({i \in DOMAIN tokens : tokens[i] = t})
<1>4. Spent(us, tokens) = [t \in 1 .. Len(us) |-> F(t)]
  BY <1>2 DEF Spent
<1>5. \A t \in 1 .. Len(us) : F(t) \in Nat
  BY <1>3
<1> HIDE DEF F
<1>6. [t \in 1 .. Len(us) |-> F(t)] \in Seq(Nat) /\ Len([t \in 1 .. Len(us) |-> F(t)]) = Len(us)
  BY <1>2, <1>5
<1>7. QED
  BY <1>4, <1>6

\* Apply: each linear argument is consumed, once, and was owed by nothing else;
\* a linear result is a new token.
LEMMA AppGoes ==
    ASSUME NEW f, NEW values, NEW parts, NEW us, NEW ret \in Types,
           Going(f, values, parts, us, ret), f.do = "app",
           NEW after, after = Spent(us, Read(values, f.args))
    PROVE  /\ f.ret = "Linear" => /\ Going(Value(Len(us) + 1), values, parts, Append(after, 0), ret)
                                  /\ Len(Append(after, 0)) = Len(us) + 1
           /\ f.ret # "Linear" => Going(Value(0), values, parts, after, ret)
<1>1. PICK bs, waits, now : Config(f, values, parts, us, ret, bs, waits, now)
  BY DEF Going
<1> DEFINE type == Awaited(waits, ret, Len(waits))
           n == Len(bs)
           tokens == Read(values, f.args)
           held == Held(waits)
<1>2. /\ Truthful(values, bs, us) /\ Proper(bs) /\ Checks(f, bs, ret, type, now)
      /\ Stacked(parts, waits, bs, ret) /\ Shared(waits, now)
      /\ Debts(values, us, 0, now \cup held)
      /\ values \in Seq(Nat) /\ us \in Seq({0, 1}) /\ Len(values) = n
      /\ \A k \in 1 .. n : Valued(values[k], bs[k].type, Len(us))
  BY <1>1 DEF Config, Focused, Token, Truthful
<1>3. /\ f.ret = type /\ f.ret \in Types /\ f.args \in Seq(0 .. n)
      /\ \A i \in DOMAIN f.args :
            f.args[i] # 0 /\ bs[f.args[i]].type = "Linear" => f.args[i] \in now
      /\ \A k \in now : \E i \in DOMAIN f.args :
            {j \in DOMAIN f.args : f.args[j] = k} = {i}
  <2>1. Proper(bs) /\ Checks(f, bs, ret, type, now)
    BY <1>2
  <2> HIDE DEF type
  <2>2. QED
    BY <2>1, CheckApp
<1>4. Shared(waits, {}) /\ now \cap held = {}
  BY <1>2, SharedHeld
<1>5. n \in Nat /\ now \in SUBSET (1 .. n)
  <2>1. now \in SUBSET (1 .. n)
    BY <1>2 DEF Checks, Owes
  <2>2. QED
    BY <1>2, <2>1 DEF Proper, Environments
<1>6. after \in Seq(Nat) /\ Len(after) = Len(us)
  <2>1. tokens = [i \in 1 .. Len(f.args) |-> tokens[i]] /\ Len(f.args) \in Nat
    BY <1>3 DEF Read
  <2>2. \A i \in 1 .. Len(f.args) : tokens[i] \in {tokens[j] : j \in 1 .. Len(f.args)}
    OBVIOUS
  <2> HIDE DEF tokens
  <2>3. tokens \in Seq({tokens[j] : j \in 1 .. Len(f.args)})
    BY <2>1, <2>2
  <2>4. QED
    BY <1>2, <2>3, SpentSequence DEF tokens
<1>7. /\ DOMAIN tokens = DOMAIN f.args
      /\ \A i \in DOMAIN f.args : tokens[i] = IF f.args[i] = 0 THEN 0 ELSE values[f.args[i]]
  BY DEF Read
<1> DEFINE Spenders(t) == {i \in DOMAIN tokens : tokens[i] = t}
<1>8. ASSUME NEW t \in 1 .. Len(us), NEW i \in Spenders(t)
      PROVE  f.args[i] \in now /\ values[f.args[i]] = t
  <2>1. i \in DOMAIN f.args /\ tokens[i] = t /\ t # 0
    BY <1>7
  <2>2. f.args[i] # 0 /\ values[f.args[i]] = t
    BY <1>7, <2>1
  <2>3. f.args[i] \in 1 .. n
    BY <1>3, <2>1, <2>2
  <2>4. bs[f.args[i]].type = "Linear"
    BY <1>2, <2>1, <2>2, <2>3 DEF Valued
  <2>5. QED
    BY <1>3, <2>1, <2>2, <2>4
<1> HIDE DEF tokens
<1>9. ASSUME NEW t \in 1 .. Len(us)
      PROVE  Cardinality(Spenders(t)) = IF \E k \in now : values[k] = t THEN 1 ELSE 0
  <2>1. CASE \E k \in now : values[k] = t
    <3>1. PICK k \in now : values[k] = t
      BY <2>1
    <3>2. PICK i \in DOMAIN f.args : {j \in DOMAIN f.args : f.args[j] = k} = {i}
      BY <1>3
    <3>3. \A j \in now : values[j] = t => j = k
      BY <1>2, <3>1 DEF Debts
    <3>4. Spenders(t) \subseteq {i}
      <4>1. ASSUME NEW j \in Spenders(t) PROVE j = i
        <5>1. f.args[j] = k /\ j \in DOMAIN f.args
          BY <1>7, <1>8, <3>3
        <5>2. QED
          BY <3>2, <5>1
      <4>2. QED
        BY <4>1
    <3>5. i \in Spenders(t)
      <4>1. f.args[i] = k /\ k # 0
        BY <1>5, <3>2
      <4>2. QED
        BY <1>7, <3>1, <4>1
    <3>6. Spenders(t) = {i}
      BY <3>4, <3>5
    <3> HIDE DEF Spenders
    <3>7. QED
      BY <2>1, <3>6, FS_Singleton
  <2>2. CASE ~ \E k \in now : values[k] = t
    <3>1. Spenders(t) = {}
      BY <1>8, <2>2
    <3> HIDE DEF Spenders
    <3>2. QED
      BY <2>2, <3>1, FS_EmptySet
  <2>3. QED
    BY <2>1, <2>2
<1>10. after \in Seq({0, 1}) /\ Debts(values, after, 0, held)
  <2>1. \A t \in 1 .. Len(us) : after[t] = us[t] + Cardinality(Spenders(t))
    BY <1>2 DEF Spent, tokens
  <2>2. \A t \in 1 .. Len(us) :
            after[t] = us[t] + IF \E k \in now : values[k] = t THEN 1 ELSE 0
    <3> HIDE DEF Spenders
    <3>1. QED
      BY <1>9, <2>1
  <2>3. Debts(values, us, 0, now \cup held) /\ now \cap held = {}
    BY <1>2, <1>4
  <2> HIDE DEF held
  <2>4. values \in Seq(Nat) /\ us \in Seq({0, 1})
    BY <1>2
  <2>5. Paying(after, us, values, now)
    BY <1>6, <2>2 DEF Paying
  <2>6. QED
    BY <2>3, <2>4, <2>5, DebtPaid
<1>11. CASE f.ret = "Linear"
  <2> DEFINE more == Append(after, 0)
  <2>1. /\ more \in Seq({0, 1}) /\ Len(more) = Len(us) + 1
        /\ Debts(values, more, Len(us) + 1, held)
    BY <1>2, <1>6, <1>10, DebtMade
  <2>2. \A k \in 1 .. n : Valued(values[k], bs[k].type, Len(more))
    <3>1. Len(us) \in Nat
      BY <1>2
    <3> HIDE DEF more
    <3>2. 1 .. Len(us) \subseteq 1 .. Len(more)
      BY <2>1, <3>1
    <3>3. QED
      BY <1>2, <3>2 DEF Valued
  <2> HIDE DEF more
  <2>3. Truthful(values, bs, more)
    BY <1>2, <2>1, <2>2 DEF Truthful
  <2>4. Len(us) + 1 \in 1 .. Len(more)
    <3>1. Len(us) \in Nat
      BY <1>2
    <3>2. QED
      BY <2>1, <3>1
  <2>5. Valued(Len(us) + 1, type, Len(more))
    BY <1>3, <1>11, <2>4 DEF Valued
  <2>6. Debts(values, more, Len(us) + 1, {} \cup Held(waits))
    <3>1. {} \cup Held(waits) = held
      OBVIOUS
    <3>2. QED
      BY <2>1, <3>1
  <2>7. Config(Value(Len(us) + 1), values, parts, more, ret, bs, waits, {})
    BY <1>2, <1>4, <2>3, <2>5, <2>6 DEF Config, Focused, Token, Value
  <2>8. QED
    BY <1>11, <2>1, <2>7 DEF Going, more
<1>12. CASE f.ret # "Linear"
  <2>1. Truthful(values, bs, after)
    BY <1>2, <1>6, <1>10 DEF Truthful
  <2>2. Valued(0, type, Len(after))
    BY <1>3, <1>12 DEF Valued, Types
  <2>3. Debts(values, after, 0, {} \cup Held(waits))
    <3>1. {} \cup Held(waits) = held
      OBVIOUS
    <3>2. QED
      BY <1>10, <3>1
  <2>4. Config(Value(0), values, parts, after, ret, bs, waits, {})
    BY <1>2, <1>4, <2>1, <2>2, <2>3 DEF Config, Focused, Token, Value
  <2>5. QED
    BY <1>12, <2>4 DEF Going
<1>13. QED
  BY <1>11, <1>12

\* Consuming one token.
LEMMA SpentOne ==
    ASSUME NEW us \in Seq({0, 1}), NEW v
    PROVE  /\ Spent(us, <<v>>) \in Seq(Nat) /\ Len(Spent(us, <<v>>)) = Len(us)
           /\ DOMAIN Spent(us, <<v>>) = 1 .. Len(us)
           /\ \A t \in 1 .. Len(us) :
                 /\ us[t] \in {0, 1}
                 /\ t = v => Spent(us, <<v>>)[t] = us[t] + 1
                 /\ t # v => Spent(us, <<v>>)[t] = us[t]
<1>1. Spent(us, <<v>>) \in Seq(Nat) /\ Len(Spent(us, <<v>>)) = Len(us)
  <2>1. <<v>> \in Seq({v})
    OBVIOUS
  <2>2. QED
    BY <2>1, SpentSequence
<1>2. DOMAIN us = 1 .. Len(us) /\ \A t \in 1 .. Len(us) : us[t] \in {0, 1}
  OBVIOUS
<1>3. ASSUME NEW t \in 1 .. Len(us)
      PROVE  /\ t = v => Spent(us, <<v>>)[t] = us[t] + 1
             /\ t # v => Spent(us, <<v>>)[t] = us[t]
  <2> DEFINE Spenders == {i \in DOMAIN <<v>> : <<v>>[i] = t}
  <2>1. DOMAIN <<v>> = {1} /\ <<v>>[1] = v
    OBVIOUS
  <2>2. (t = v => Spenders = {1}) /\ (t # v => Spenders = {})
    BY <2>1
  <2>3. Spent(us, <<v>>)[t] = us[t] + Cardinality(Spenders)
    BY <1>2 DEF Spent
  <2> HIDE DEF Spenders
  <2>4. Cardinality({1}) = 1 /\ Cardinality({}) = 0
    BY FS_Singleton, FS_EmptySet
  <2>5. ASSUME t # v PROVE Spent(us, <<v>>)[t] = us[t]
    <3>1. Cardinality(Spenders) = 0
      BY <2>2, <2>4, <2>5
    <3>2. us[t] \in Nat
      BY <1>2
    <3>3. QED
      BY <2>3, <3>1, <3>2
  <2>6. QED
    BY <2>2, <2>3, <2>4, <2>5
<1>4. DOMAIN Spent(us, <<v>>) = 1 .. Len(us)
  BY <1>2 DEF Spent
<1>5. QED
  BY <1>1, <1>2, <1>3, <1>4

\* Return: the value was not consumed before.
LEMMA ReturnEnds ==
    ASSUME NEW f, NEW values, NEW parts, NEW us, NEW ret \in Types,
           Going(f, values, parts, us, ret), f.do = "return",
           NEW v, v = IF f.v = 0 THEN 0 ELSE values[f.v]
    PROVE  \A t \in DOMAIN Spent(us, <<v>>) : Spent(us, <<v>>)[t] <= 1
<1>1. PICK bs, waits, now : Config(f, values, parts, us, ret, bs, waits, now)
  BY DEF Going
<1> DEFINE type == Awaited(waits, ret, Len(waits))
<1>2. /\ Truthful(values, bs, us) /\ Proper(bs) /\ Checks(f, bs, ret, type, now)
      /\ Debts(values, us, 0, now \cup Held(waits)) /\ us \in Seq({0, 1})
  BY <1>1 DEF Config, Focused, Token, Truthful
<1>3. f.v \in 0 .. Len(bs) /\ (f.v # 0 => now = New(bs[f.v].type, f.v))
  BY <1>2, CheckReturn
<1>4. v = 0 \/ us[v] = 0
  <2>1. CASE f.v = 0
    BY <2>1
  <2>2. CASE f.v # 0
    <3>1. f.v \in 1 .. Len(bs)
      BY <1>2, <1>3, <2>2, CheckedTerm
    <3>2. Valued(v, bs[f.v].type, Len(us))
      BY <1>2, <2>2, <3>1 DEF Truthful
    <3>3. CASE bs[f.v].type = "Linear"
      <4>1. f.v \in now
        BY <1>3, <2>2, <3>3 DEF New
      <4>2. QED
        BY <1>2, <2>2, <4>1 DEF Debts
    <3>4. CASE bs[f.v].type # "Linear"
      BY <3>2, <3>4 DEF Valued
    <3>5. QED
      BY <3>3, <3>4
  <2>3. QED
    BY <2>1, <2>2
<1>5. ASSUME NEW t \in 1 .. Len(us) PROVE Spent(us, <<v>>)[t] <= 1
  <2>1. /\ us[t] \in {0, 1}
        /\ t = v => Spent(us, <<v>>)[t] = us[t] + 1
        /\ t # v => Spent(us, <<v>>)[t] = us[t]
    BY <1>2, SpentOne
  <2>2. CASE t = v
    <3>1. us[t] = 0
      BY <1>4, <2>2
    <3>2. QED
      BY <2>1, <2>2, <3>1
  <2>3. CASE t # v
    BY <2>1, <2>3
  <2>4. QED
    BY <2>2, <2>3
<1>6. QED
  BY <1>2, <1>5, SpentOne

\* Finish: nothing is owed any more but the value.
LEMMA FinishEnds ==
    ASSUME NEW f, NEW values, NEW parts, NEW us, NEW ret \in Types,
           Going(f, values, parts, us, ret), f.do = "value", Len(parts) = 0
    PROVE  \A t \in DOMAIN Spent(us, <<f.value>>) : Spent(us, <<f.value>>)[t] = 1
<1>1. PICK bs, waits, now : Config(f, values, parts, us, ret, bs, waits, now)
  BY DEF Going
<1>2. /\ us \in Seq({0, 1}) /\ Debts(values, us, f.value, now \cup Held(waits))
      /\ now = {} /\ Len(waits) = 0
  BY <1>1 DEF Config, Focused, Token, Truthful, Stacked
<1>3. now \cup Held(waits) = {}
  BY <1>2 DEF Held
<1>4. /\ \A t \in 1 .. Len(us) : us[t] = 0 => t = f.value
      /\ f.value # 0 => us[f.value] = 0
  BY <1>2, <1>3 DEF Debts
<1>5. ASSUME NEW t \in 1 .. Len(us) PROVE Spent(us, <<f.value>>)[t] = 1
  <2>1. /\ us[t] \in {0, 1}
        /\ t = f.value => Spent(us, <<f.value>>)[t] = us[t] + 1
        /\ t # f.value => Spent(us, <<f.value>>)[t] = us[t]
    BY <1>2, SpentOne
  <2>2. CASE t = f.value
    <3>1. us[t] = 0
      BY <1>4, <2>2
    <3>2. QED
      BY <2>1, <2>2, <3>1
  <2>3. CASE t # f.value
    <3>1. us[t] = 1
      BY <1>4, <2>1, <2>3
    <3>2. QED
      BY <2>1, <2>3, <3>1
  <2>4. QED
    BY <2>2, <2>3
<1>6. QED
  BY <1>2, <1>5, SpentOne

\* An accepted body owes its linear parameter.
LEMMA BodyGoes ==
    ASSUME NEW f \in Bodies, Passes(f, TRUE)
    PROVE  Going(f.body, <<1>>, <<>>, <<0>>, f.ret) /\ f.ret \in Types
<1> DEFINE bs == <<Bind("Linear")>>
           out == Synth[<<f.body, bs, f.ret, TRUE>>]
<1>1. /\ f.body \in Terms[1] /\ f.ret \in Types /\ 1 \in DOMAIN Terms
      /\ IsTerm(f.body, 1)
  BY TermsAssumption
<1>2. out.ok /\ Compatible(f.ret, out.type) /\ Once(out.uses[1])
  BY DEF Passes
<1>3. Len(bs) = 1 /\ bs[1] = Bind("Linear") /\ DOMAIN bs = {1} /\ bs \in Environments
  <2>1. Bind("Linear") \in [type : OutTypes, linear : BOOLEAN]
    BY DEF Bind, Binder, OutTypes, Types
  <2>2. QED
    BY <2>1 DEF Environments, OutTypes
<1>4. Proper(bs) /\ bs[1].type = "Linear"
  BY <1>3 DEF Proper, Bind, Binder
<1>5. Fits(out.type, f.ret)
  BY <1>1, <1>2 DEF Fits, Compatible, Types
<1>6. Owes(out.uses, {1}, 1)
  <2>1. 1 .. 1 = {1}
    OBVIOUS
  <2>2. QED
    BY <1>2, <2>1 DEF Owes, Once
<1> HIDE DEF bs
<1>7. Checks(f.body, bs, f.ret, f.ret, {1})
  BY <1>1, <1>2, <1>3, <1>5, <1>6 DEF Checks
<1>8. Truthful(<<1>>, bs, <<0>>)
  BY <1>3, <1>4 DEF Truthful, Valued
<1>9. Stacked(<<>>, <<>>, bs, f.ret) /\ Shared(<<>>, {1}) /\ Held(<<>>) = {}
  BY DEF Stacked, Shared, Held
<1>10. Debts(<<1>>, <<0>>, 0, {1} \cup Held(<<>>))
  <2>1. {1} \cup Held(<<>>) = {1} /\ 1 .. Len(<<1>>) = {1} /\ 1 .. Len(<<0>>) = {1}
    BY <1>9
  <2>2. <<1>>[1] = 1 /\ <<0>>[1] = 0
    OBVIOUS
  <2>3. QED
    BY <2>1, <2>2 DEF Debts
<1>11. f.body.do # "value"
  BY <1>1 DEF IsTerm
<1>12. Config(f.body, <<1>>, <<>>, <<0>>, f.ret, bs, <<>>, {1})
  BY <1>7, <1>8, <1>9, <1>10, <1>11 DEF Config, Focused, Token, Awaited
<1>13. QED
  BY <1>1, <1>12 DEF Going

-----------------------------------------------------------------------------
(***************************************************************************)
(* The invariant of a run.                                                 *)
(***************************************************************************)

LinearInv ==
    /\ fn \in Bodies
    /\ phase = "check" => focus = fn.body /\ env = <<1>> /\ rest = <<>> /\ uses = <<0>>
    /\ phase \notin {"check", "run"} =>
          /\ Passes(fn, TRUE) => \A t \in DOMAIN uses : uses[t] <= 1
          /\ Passes(fn, TRUE) /\ phase = "finished" => \A t \in DOMAIN uses : uses[t] = 1
    /\ phase = "run" /\ Passes(fn, TRUE) => Going(focus, env, rest, uses, fn.ret)

\* What a run has consumed so far it has consumed once.
LEMMA GoingOnce ==
    ASSUME NEW f, NEW values, NEW parts, NEW us, NEW ret, Going(f, values, parts, us, ret)
    PROVE  us \in Seq({0, 1}) /\ parts \in Seq(Frames) /\ \A t \in DOMAIN us : us[t] <= 1
<1>1. us \in Seq({0, 1}) /\ parts \in Seq(Frames)
  BY DEF Going, Config, Truthful, Stacked
<1>2. QED
  BY <1>1

\* The part that waits is the last of rest.
LEMMA WaitingPart ==
    ASSUME rest \in Seq(Frames), rest # <<>>
    PROVE  /\ Len(rest) # 0 /\ Len(rest) - 1 \in Nat /\ (Len(rest) - 1) + 1 = Len(rest)
           /\ Innermost = rest[(Len(rest) - 1) + 1] /\ Leave = SubSeq(rest, 1, Len(rest) - 1)
BY DEF Innermost, Leave

\* A function begins unchecked, with its parameter unconsumed.
LEMMA LinearInit ==
    ASSUME Init PROVE LinearInv
BY DEF Init, LinearInv

\* Consumed, with the counts as an argument.
LEMMA ConsumedSpent ==
    ASSUME NEW tokens
    PROVE  Consumed(tokens) = Spent(uses, tokens)
BY DEF Consumed, Spent

\* Every step keeps the invariant.
LEMMA LinearNext ==
    ASSUME LinearInv, [Next]_vars PROVE LinearInv'
<1> DEFINE ok == Passes(fn, TRUE)
           n == Len(rest) - 1
<1> USE DEF LinearInv
<1>1. CASE UNCHANGED vars
  BY <1>1 DEF vars
<1>2. CASE Check
  <2>1. fn' = fn /\ phase' \in {"run", "rejected"} /\ UNCHANGED <<focus, env, rest, uses>>
    BY <1>2 DEF Check
  <2>2. focus = fn.body /\ env = <<1>> /\ rest = <<>> /\ uses = <<0>>
    BY <1>2 DEF Check
  <2>3. ok => Going(focus, env, rest, uses, fn.ret)
    BY <2>2, BodyGoes
  <2>4. \A t \in DOMAIN uses : uses[t] <= 1
    BY <2>2
  <2>5. QED
    BY <2>1, <2>3, <2>4
<1>3. ASSUME phase = "run", phase' = "run", fn' = fn,
             ok => Going(focus', env', rest', uses', fn.ret)
      PROVE  LinearInv'
  BY <1>3
<1>4. ASSUME phase = "run", fn' = fn, phase' \notin {"check", "run"},
             ok => \A t \in DOMAIN uses' : uses'[t] <= 1,
             ok /\ phase' = "finished" => \A t \in DOMAIN uses' : uses'[t] = 1
      PROVE  LinearInv'
  BY <1>4
<1>5. phase = "run" /\ ok => /\ Going(focus, env, rest, uses, fn.ret) /\ fn.ret \in Types
                             /\ uses \in Seq({0, 1}) /\ rest \in Seq(Frames)
                             /\ \A t \in DOMAIN uses : uses[t] <= 1
  BY GoingOnce, BodyGoes
<1> HIDE DEF LinearInv
<1>6. CASE EvalAtom
  <2>1. phase = "run" /\ phase' = "run" /\ fn' = fn /\ focus.do = "atom"
    BY <1>6 DEF EvalAtom, At
  <2>2. ok => Going(focus', env', rest', uses', fn.ret)
    BY <1>5, <1>6, <2>1, AtomGoes DEF EvalAtom, ValueOf
  <2>3. QED
    BY <1>3, <2>1, <2>2
<1>7. CASE Apply
  <2> DEFINE tokens == [i \in DOMAIN focus.args |-> ValueOf(focus.args[i])]
  <2>1. phase = "run" /\ phase' = "run" /\ fn' = fn /\ focus.do = "app"
    BY <1>7 DEF Apply, At
  <2>2. tokens = Read(env, focus.args)
    BY DEF Read, ValueOf
  <2>3. Consumed(tokens) = Spent(uses, Read(env, focus.args))
    BY <2>2, ConsumedSpent
  <2> DEFINE after == Spent(uses, Read(env, focus.args))
  <2>4. ASSUME ok PROVE Going(focus', env', rest', uses', fn.ret)
    <3>1. /\ focus.ret = "Linear" =>
               /\ Going(Value(Len(uses) + 1), env, rest, Append(after, 0), fn.ret)
               /\ Len(Append(after, 0)) = Len(uses) + 1
          /\ focus.ret # "Linear" => Going(Value(0), env, rest, after, fn.ret)
      BY <1>5, <2>1, <2>4, AppGoes
    <3>2. CASE focus.ret = "Linear"
      <4>1. uses' = Append(after, 0) /\ focus' = Value(Len(uses')) /\ UNCHANGED <<env, rest>>
        BY <1>7, <2>3, <3>2 DEF Apply
      <4>2. QED
        BY <3>1, <3>2, <4>1
    <3>3. CASE focus.ret # "Linear"
      <4>1. uses' = after /\ focus' = Value(0) /\ UNCHANGED <<env, rest>>
        BY <1>7, <2>3, <3>3 DEF Apply
      <4>2. QED
        BY <3>1, <3>3, <4>1
    <3>4. QED
      BY <3>2, <3>3
  <2>5. QED
    BY <1>3, <2>1, <2>4
<1>8. CASE EnterLet
  <2>1. phase = "run" /\ phase' = "run" /\ fn' = fn /\ focus.do = "let"
    BY <1>8 DEF EnterLet, At
  <2>2. ok => Going(focus', env', rest', uses', fn.ret)
    BY <1>5, <1>8, <2>1, LetGoes DEF EnterLet
  <2>3. QED
    BY <1>3, <2>1, <2>2
<1>9. CASE Match
  <2>1. phase = "run" /\ phase' = "run" /\ fn' = fn /\ focus.do = "match"
    BY <1>9 DEF Match, At
  <2>2. PICK i \in DOMAIN focus.arms : focus' = focus.arms[i] /\ UNCHANGED <<env, rest, uses>>
    BY <1>9 DEF Match
  <2>3. ok => Going(focus', env', rest', uses', fn.ret)
    BY <1>5, <2>1, <2>2, MatchGoes
  <2>4. QED
    BY <1>3, <2>1, <2>3
<1>10. CASE EnterLoop
  <2>1. phase = "run" /\ phase' = "run" /\ fn' = fn /\ focus.do = "loop"
    BY <1>10 DEF EnterLoop, At
  <2>2. /\ env' = Append(env, ValueOf(focus.init)) /\ focus' = focus.cond /\ uses' = uses
        /\ rest' = Append(rest, [do |-> "cond", loop |-> focus, depth |-> Len(env)])
    BY <1>10 DEF EnterLoop
  <2>3. ASSUME ok PROVE Going(focus', env', rest', uses', fn.ret)
    <3>1. /\ focus.init # 0 => env[focus.init] = 0
          /\ Going(focus.cond, Append(env, 0),
                   Append(rest, [do |-> "cond", loop |-> focus, depth |-> Len(env)]),
                   uses, fn.ret)
      BY <1>5, <2>1, <2>3, LoopGoes
    <3>2. ValueOf(focus.init) = 0
      BY <3>1 DEF ValueOf
    <3>3. QED
      BY <2>2, <3>1, <3>2
  <2>4. QED
    BY <1>3, <2>1, <2>3
<1>11. CASE BindLet
  <2>1. /\ phase = "run" /\ phase' = "run" /\ fn' = fn /\ focus.do = "value" /\ rest # <<>>
        /\ Innermost.do = "let" /\ env' = Append(SubSeq(env, 1, Innermost.depth), focus.value)
        /\ focus' = Innermost.body /\ rest' = Leave /\ uses' = uses
    BY <1>11 DEF BindLet, Waiting, At, Outer
  <2>2. ASSUME ok PROVE Going(focus', env', rest', uses', fn.ret)
    <3>1. /\ Len(rest) # 0 /\ n \in Nat /\ Innermost = rest[n + 1] /\ Leave = SubSeq(rest, 1, n)
      BY <1>5, <2>1, <2>2, WaitingPart
    <3> HIDE DEF n
    <3>2. n = Len(rest) - 1
      BY DEF n
    <3>3. Going(Innermost.body, Append(SubSeq(env, 1, Innermost.depth), focus.value),
                SubSeq(rest, 1, n), uses, fn.ret)
      BY <1>5, <2>1, <2>2, <3>1, <3>2, BindGoes
    <3>4. QED
      BY <2>1, <3>1, <3>3
  <2>3. QED
    BY <1>3, <2>1, <2>2
<1>12. ASSUME NEW next \in {"cond", "next"},
              /\ phase = "run" /\ phase' = "run" /\ fn' = fn /\ focus.do = "value" /\ rest # <<>>
              /\ Innermost.do # "let" /\ focus' \in {Innermost.loop.cond, Innermost.loop.body}
              /\ env' \in {SubSeq(env, 1, Innermost.depth + 1),
                           Append(SubSeq(env, 1, Innermost.depth), focus.value)}
              /\ rest' = [rest EXCEPT ![Len(rest)].do = next] /\ uses' = uses
       PROVE  LinearInv'
  <2>1. ASSUME ok PROVE Going(focus', env', rest', uses', fn.ret)
    <3>1. /\ Len(rest) # 0 /\ n \in Nat /\ Innermost = rest[n + 1] /\ n + 1 = Len(rest)
      BY <1>5, <1>12, <2>1, WaitingPart
    <3> HIDE DEF n
    <3>2. n = Len(rest) - 1
      BY DEF n
    <3>3. Turning(focus, env, rest, n, Innermost, focus', env', rest')
      BY <1>12, <3>1 DEF Turning
    <3>4. QED
      BY <1>5, <1>12, <2>1, <3>1, <3>2, <3>3, TurnGoes
  <2>2. QED
    BY <1>3, <1>12, <2>1
<1>13. CASE Turn
  BY <1>12, <1>13 DEF Turn, Waiting, At
<1>14. CASE NextTurn
  BY <1>12, <1>14 DEF NextTurn, Waiting, At, Outer
<1>15. CASE LeaveLoop
  <2>1. /\ phase = "run" /\ phase' = "run" /\ fn' = fn /\ focus.do = "value" /\ rest # <<>>
        /\ Innermost.do # "let" /\ env' = SubSeq(env, 1, Innermost.depth)
        /\ focus' = Value(env[Innermost.depth + 1]) /\ rest' = Leave /\ uses' = uses
    BY <1>15 DEF LeaveLoop, Waiting, At, Outer
  <2>2. ASSUME ok PROVE Going(focus', env', rest', uses', fn.ret)
    <3>1. /\ Len(rest) # 0 /\ n \in Nat /\ Innermost = rest[n + 1] /\ Leave = SubSeq(rest, 1, n)
      BY <1>5, <2>1, <2>2, WaitingPart
    <3> HIDE DEF n
    <3>2. n = Len(rest) - 1
      BY DEF n
    <3> DEFINE p == Innermost
    <3>a. /\ focus.do = "value" /\ p.do # "let" /\ p = rest[n + 1]
          /\ Going(focus, env, rest, uses, fn.ret) /\ fn.ret \in Types
      BY <1>5, <2>1, <2>2, <3>1
    <3> HIDE DEF p
    <3>b. Going(Value(env[p.depth + 1]), SubSeq(env, 1, p.depth), SubSeq(rest, 1, n), uses, fn.ret)
      BY <3>1, <3>2, <3>a, LeaveGoes
    <3>3. Going(Value(env[Innermost.depth + 1]), SubSeq(env, 1, Innermost.depth),
                SubSeq(rest, 1, n), uses, fn.ret)
      BY <3>b DEF p
    <3>4. QED
      BY <2>1, <3>1, <3>3
  <2>3. QED
    BY <1>3, <2>1, <2>2
<1>16. CASE Raise
  <2>1. phase = "run" /\ phase' = "raised" /\ fn' = fn /\ uses' = uses
    BY <1>16 DEF Raise, At
  <2>2. QED
    BY <1>4, <1>5, <2>1
<1>17. CASE Return
  <2>1. phase = "run" /\ phase' = "returned" /\ fn' = fn /\ focus.do = "return"
    BY <1>17 DEF Return, At
  <2>2. uses' = Spent(uses, <<ValueOf(focus.v)>>)
    BY <1>17, ConsumedSpent DEF Return
  <2>3. ok => \A t \in DOMAIN uses' : uses'[t] <= 1
    BY <1>5, <2>1, <2>2, ReturnEnds DEF ValueOf
  <2>4. phase' \notin {"check", "run"} /\ phase' # "finished"
    BY <2>1
  <2> HIDE DEF ok
  <2>5. QED
    BY <1>4, <2>1, <2>3, <2>4
<1>18. CASE Finish
  <2>1. phase = "run" /\ phase' = "finished" /\ fn' = fn /\ focus.do = "value" /\ Len(rest) = 0
    BY <1>18 DEF Finish, At
  <2>2. uses' = Spent(uses, <<focus.value>>)
    BY <1>18, ConsumedSpent DEF Finish
  <2>3. ok => \A t \in DOMAIN uses' : uses'[t] = 1
    BY <1>5, <2>1, <2>2, FinishEnds
  <2>4. ok => \A t \in DOMAIN uses' : uses'[t] <= 1
    BY <2>3
  <2>5. QED
    BY <1>4, <2>1, <2>3, <2>4
<1>19. QED
  BY <1>1, <1>2, <1>6, <1>7, <1>8, <1>9, <1>10, <1>11, <1>13, <1>14, <1>15, <1>16, <1>17, <1>18
     DEF Next

\* In every reachable state what is not consumed is owed by a part of the body,
\* as the check has counted it.
THEOREM LinearRuns == Spec => []LinearInv
<1>1. Init => LinearInv
  BY LinearInit
<1>2. LinearInv /\ [Next]_vars => LinearInv'
  BY LinearNext
<1>3. QED
  BY <1>1, <1>2, PTL DEF Spec

\* check.rs is right to accept a function: whatever arms and turns its run
\* takes, no linear value is consumed after it has been consumed or given away.
THEOREM NeverTwiceAlways == Spec => []NeverTwice
<1>1. LinearInv => NeverTwice
  <2>1. SUFFICES ASSUME LinearInv, phase # "check", Passes(fn, TRUE)
                 PROVE  \A t \in DOMAIN uses : uses[t] <= 1
    BY DEF NeverTwice
  <2>2. CASE phase = "run"
    BY <2>1, <2>2, GoingOnce DEF LinearInv
  <2>3. CASE phase # "run"
    BY <2>1, <2>3 DEF LinearInv
  <2>4. QED
    BY <2>2, <2>3
<1>2. QED
  BY <1>1, LinearRuns, PTL

\* Nor is one left when such a run ends where the body does: each has been
\* consumed or handed on.
THEOREM NothingLeftAlways == Spec => []NothingLeft
<1>1. LinearInv => NothingLeft
  BY DEF LinearInv, NothingLeft
<1>2. QED
  BY <1>1, LinearRuns, PTL

====
