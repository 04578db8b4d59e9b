---- MODULE Verifier ----
(***************************************************************************)
(* The contract verifier (marv-verify).  A body is evaluated symbolically  *)
(* to solver terms; on the way each loop with an invariant asks whether the*)
(* invariant can fail on entry and whether the body can break it, and what *)
(* follows the loop knows only that it holds and the condition does not.   *)
(* Each ensures is then asked the same way: a query with a model is a      *)
(* counterexample, no model of any query is a proof.                       *)
(*                                                                         *)
(* A symbolic value is a record with a field s; "stop" is a construct      *)
(* outside the verified subset.  The solver's assertions and the queries so*)
(* far are threaded through as st.                                         *)
(***************************************************************************)
EXTENDS Contracts

CONSTANTS
    Unspecified, \* what SMT-LIB may make of a quotient by zero or an element
    MaxItems,    \* indices that arrays, lists and strings of a model tell apart
    Elements     \* what the solver may put there, in the word or not

(***************************************************************************)
(* The solver as marv-verify uses it: terms over unbounded integers,       *)
(* booleans and arrays, and the models of a list of assertions.  A         *)
(* constant carries the set of values the solver may give it: of a scalar  *)
(* and a length the range asserted when it is declared.  No range is       *)
(* asserted of the elements of an array, which may lie outside the word.   *)
(*                                                                         *)
(* An array is total: at gives its first elements, else all others.  What  *)
(* SMT-LIB leaves open, a quotient by zero or an element nobody stored, is *)
(* one of Unspecified, the same throughout a model.                        *)
(***************************************************************************)

Literal(v) == [f |-> "lit", v |-> v]
Const(name, range) == [f |-> "const", name |-> name, range |-> range]
BoundVar(name) == [f |-> "bound", name |-> name]
Op(f, of) == [f |-> f, of |-> of]
Quantified(exists, name, lo, hi, body) ==
    [f |-> "quant", exists |-> exists, name |-> name, of |-> <<lo, hi, body>>]

ByZero == <<"by zero">>

\* Euclidean division: the remainder is never negative.
Euclid(x, y) == IF y > 0 THEN x \div y ELSE -(x \div (-y))

RECURSIVE Denotes(_, _)
Denotes(t, m) ==
    LET v(i) == Denotes(t.of[i], m)
    IN  CASE t.f = "lit" -> t.v
          [] t.f \in {"const", "bound"} -> m[t.name]
          [] t.f = "add" -> v(1) + v(2)
          [] t.f = "sub" -> v(1) - v(2)
          [] t.f = "mul" -> v(1) * v(2)
          [] t.f = "div" -> IF v(2) = 0 THEN m[ByZero] ELSE Euclid(v(1), v(2))
          [] t.f = "mod" -> IF v(2) = 0 THEN m[ByZero]
                            ELSE v(1) - v(2) * Euclid(v(1), v(2))
          [] t.f = "eq" -> v(1) = v(2)
          [] t.f = "lt" -> v(1) < v(2)
          [] t.f = "le" -> v(1) <= v(2)
          [] t.f = "not" -> ~ v(1)
          [] t.f = "and" -> v(1) /\ v(2)
          [] t.f = "or" -> v(1) \/ v(2)
          [] t.f = "imp" -> v(1) => v(2)
          [] t.f = "ite" -> IF v(1) THEN v(2) ELSE v(3)
          [] t.f = "select" -> IF v(2) \in DOMAIN v(1).at THEN v(1).at[v(2)] ELSE v(1).else
          [] t.f = "store" ->
                LET a == v(1)
                    i == v(2)
                    x == v(3)
                IN  [a EXCEPT !.at = [j \in DOMAIN @ \cup {i} |-> IF j = i THEN x ELSE @[j]]]
          [] t.f = "quant" ->
                LET holds(i) == Denotes(t.of[3], [n \in DOMAIN m \cup {t.name} |->
                                                    IF n = t.name THEN i ELSE m[n]])
                IN  IF t.exists THEN \E i \in v(1) .. v(2) - 1 : holds(i)
                    ELSE \A i \in v(1) .. v(2) - 1 : holds(i)

\* The constants of a term, each with its range.
RECURSIVE Consts(_)
Consts(t) ==
    CASE t.f \in {"lit", "bound"} -> {}
      [] t.f = "const" -> {<<t.name, t.range>>}
      [] OTHER -> (IF t.f \in {"div", "mod"} THEN {<<ByZero, Unspecified>>} ELSE {})
                  \cup UNION {Consts(t.of[i]) : i \in DOMAIN t.of}

\* The assignments that extend m to the constants cs and satisfy every
\* assertion, an assertion being <<term, names of its constants>>.
RECURSIVE Extensions(_, _, _)
Extensions(cs, asserts, m) ==
    LET name == cs[1][1]
        known == DOMAIN m \cup {name}
        ready(a) == name \in a[2] /\ a[2] \subseteq known
        with(v) == [n \in known |-> IF n = name THEN v ELSE m[n]]
        fits(m1) == \A i \in DOMAIN asserts :
                        ready(asserts[i]) => Denotes(asserts[i][1], m1)
    IN  IF cs = <<>> THEN {m}
        ELSE UNION {Extensions(Tail(cs), asserts, m1) :
                        m1 \in {m2 \in {with(v) : v \in cs[1][2]} : fits(m2)}}

\* check-sat and get-model: the models of the assertions.
Models(terms) ==
    LET consts == [i \in DOMAIN terms |-> Consts(terms[i])]
        asserts == [i \in DOMAIN terms |-> <<terms[i], {c[1] : c \in consts[i]}>>]
        ground == {i \in DOMAIN terms : consts[i] = {}}
    IN  IF \E i \in ground : ~ Denotes(terms[i], <<>>) THEN {}
        ELSE Extensions(SetToSeq(UNION {consts[i] : i \in DOMAIN terms}), asserts, <<>>)
-----------------------------------------------------------------------------
Scalar(e, sort) == [s |-> "scalar", e |-> e, sort |-> sort]
Array(arr, len, elem) == [s |-> "array", arr |-> arr, len |-> len, elem |-> elem]
\* variants: for each tag None or <<"fields", its values>>.
Adt(ty, args, tag, variants) ==
    [s |-> "adt", ty |-> ty, args |-> args, tag |-> tag, variants |-> variants]
Tuple(items) == [s |-> "tuple", items |-> items]
UnitSym == [s |-> "unit"]
Stop == [s |-> "stop"]
IsStop(x) == x.s = "stop"

\* One after the other, up to the first that stops.
Whole(xs, K(_)) == IF \E i \in DOMAIN xs : IsStop(xs[i]) THEN Stop ELSE K(xs)
OnScalars(xs, K(_)) ==
    IF \E i \in DOMAIN xs : xs[i].s # "scalar" THEN Stop
    ELSE K([i \in DOMAIN xs |-> xs[i].e])

N(n) == Literal(n)
TrueTerm == Literal(TRUE)
And(x, y) == Op("and", <<x, y>>)
Not(x) == Op("not", <<x>>)
Ite(c, x, y) == Op("ite", <<c, x, y>>)
-----------------------------------------------------------------------------
\* Mutant: arithmetic on unbounded integers.
WrappedNot(v) == v

\* ((v + half) mod modulus) - half.
Wrapped(v) ==
    Op("sub", <<Op("mod", <<Op("add", <<v, N(2 ^ (Width - 1))>>), N(2 ^ Width)>>),
                N(2 ^ (Width - 1))>>)

\* Mutant: the Euclidean quotient as it is.
TdivEuclid(x, y) == Op("div", <<x, y>>)

\* The Euclidean quotient, one step nearer to zero when it is inexact and the
\* dividend negative.
Tdiv(x, y) ==
    LET q == Op("div", <<x, y>>)
        agrees == Op("or", <<Op("le", <<N(0), x>>),
                             Op("eq", <<Op("mod", <<x, y>>), N(0)>>)>>)
    IN  Ite(agrees, q, Ite(Op("lt", <<N(0), y>>), Op("add", <<q, N(1)>>),
                           Op("sub", <<q, N(1)>>)))

Arith(op, x, y) ==
    Wrapped(CASE op \in {"add", "sub", "mul"} -> Op(op, <<x, y>>)
              [] op = "div" -> Tdiv(x, y)
              [] op = "rem" -> Op("sub", <<x, Op("mul", <<y, Tdiv(x, y)>>)>>))

Compare(op, x, y) ==
    CASE op = "eq" -> Op("eq", <<x, y>>)
      [] op = "ne" -> Not(Op("eq", <<x, y>>))
      [] op = "lt" -> Op("lt", <<x, y>>)
      [] op = "le" -> Op("le", <<x, y>>)
      [] op = "gt" -> Op("lt", <<y, x>>)
      [] op = "ge" -> Op("le", <<y, x>>)

\* Operations on scalars.
ScalarPrim(op, as) ==
    CASE op \in Arithmetic -> Scalar(Arith(op, as[1], as[2]), "int")
      [] op \in Comparisons -> Scalar(Compare(op, as[1], as[2]), "bool")
      [] op \in {"and", "or"} -> Scalar(Op(op, as), "bool")
      [] op = "not" -> Scalar(Not(as[1]), "bool")
      [] op = "neg" -> Scalar(Wrapped(Op("sub", <<N(0), as[1]>>)), "int")

\* A subscript out of bounds reads whatever the array has there.
ReadItem(x, i) ==
    IF x.s = "array" /\ i.s = "scalar"
    THEN Scalar(Op("select", <<x.arr, i.e>>), x.elem) ELSE Stop
LengthOf(x) == IF x.s = "array" THEN Scalar(x.len, "int") ELSE Stop
\* A field of a struct: of an aggregate with one variant.
FieldOf(x, idx) ==
    CASE x.s = "tuple" /\ idx + 1 \in DOMAIN x.items -> x.items[idx + 1]
      [] x.s = "adt" ->
            IF Len(x.variants) = 1 /\ x.variants[1] # None
               /\ idx + 1 \in DOMAIN x.variants[1][2]
            THEN x.variants[1][2][idx + 1] ELSE Stop
      [] OTHER -> Stop

PrimSym(op, as) ==
    CASE op = "len" -> LengthOf(as[1])
      [] op = "index" -> ReadItem(as[1], as[2])
      [] op \in {"slice", "from_chars"} -> Stop
      [] OTHER -> OnScalars(as, LAMBDA es : ScalarPrim(op, es))
-----------------------------------------------------------------------------
\* Fresh values.
Word == -(2 ^ (Width - 1)) .. 2 ^ (Width - 1) - 1
Length == 0 .. 2 ^ (Width - 1) - 1
SortOf(ty) == CASE ty[1] \in {"i64", "i8", "u8", "usize", "char"} -> "int"
                [] ty[1] = "bool" -> "bool"
                [] OTHER -> "none"
\* The elements of a declared array are any integers.
ItemsOf(sort) == IF sort = "bool" THEN BOOLEAN ELSE Elements
Arrays(sort) ==
    [at : [0 .. MaxItems - 1 -> ItemsOf(sort)],
     else : IF sort = "bool" THEN {FALSE} ELSE Unspecified]
\* What a new array or list has before anything is stored.
Blank(sort, name) ==
    Const(name, [at : [{} -> {0}], else : IF sort = "bool" THEN {FALSE} ELSE Unspecified])
\* An array with these items.
Filled(sort, items, name) ==
    Array(FoldLeft(LAMBDA acc, i : Op("store", <<acc, N(i - 1), items[i]>>),
                   Blank(sort, name), [i \in DOMAIN items |-> i]), N(Len(items)), sort)

HavocScalar(sort, name) ==
    Scalar(Const(name, IF sort = "bool" THEN BOOLEAN ELSE Word), sort)
HavocArray(sort, name, len) ==
    IF sort = "none" THEN Stop ELSE Array(Const(name, Arrays(sort)), len, sort)
AnyLength(name) == Const(Append(name, "len"), Length)

\* A fresh value of a type; visiting holds the nominal types around it.
RECURSIVE HavocType(_, _, _)
HavocFields(tys, args, name, visiting) ==
    [i \in DOMAIN tys |-> HavocType(Subst(tys[i], args), name \o <<"f", i>>, visiting)]

\* A tag in range and fields for every variant.
HavocNominal(ty, args, name, visiting) ==
    LET n == Len(Enums[ty])
        fields(k) == HavocFields(Enums[ty][k][2], args, name \o <<"v", k>>, visiting)
    IN  CASE ty \in DOMAIN Structs ->
                Whole(HavocFields([i \in DOMAIN Structs[ty] |-> Structs[ty][i][2]],
                                  args, name, visiting),
                      LAMBDA fs : Adt(ty, args, N(0), <<<<"fields", fs>>>>))
          [] ty \in DOMAIN Enums ->
                IF \E k \in 1 .. n : \E i \in DOMAIN fields(k) : IsStop(fields(k)[i])
                THEN Stop
                ELSE Adt(ty, args, Const(Append(name, "tag"), 0 .. n - 1),
                         [k \in 1 .. n |-> <<"fields", fields(k)>>])
          [] OTHER -> Stop

HavocType(ty, name, visiting) ==
    CASE ty[1] = "unit" \/ ty = <<"nominal", "Alloc", <<>>>> -> UnitSym
      [] SortOf(ty) # "none" -> HavocScalar(SortOf(ty), name)
      [] ty[1] = "str" -> HavocArray("int", name, AnyLength(name))
      [] ty[1] = "array" -> HavocArray(SortOf(ty[2]), name, N(ty[3]))
      [] ty[1] = "slice" -> HavocArray(SortOf(ty[2]), name, AnyLength(name))
      [] ty[1] = "nominal" /\ ty[2] # "Alloc" ->
            IF IsList(ty) THEN HavocArray(SortOf(ty[3][1]), name, AnyLength(name))
            ELSE IF ty[2] \in visiting THEN Stop
            ELSE HavocNominal(ty[2], ty[3], name, visiting \cup {ty[2]})
      [] OTHER -> Stop

\* A fresh value of the shape of another: a carried variable.
HavocLike(x, name) ==
    CASE x.s = "unit" -> UnitSym
      [] x.s = "scalar" -> HavocScalar(x.sort, name)
      [] x.s = "array" -> HavocArray(x.elem, name, AnyLength(name))
      [] x.s = "adt" -> HavocNominal(x.ty, x.args, name, {x.ty})
      [] OTHER -> Stop
-----------------------------------------------------------------------------
\* The atoms of a body: indices into the environment.
AtomSym(a, env) ==
    LET v == a[2]
    IN  CASE a[1] = "var" -> IF v < Len(env) THEN env[Len(env) - v] ELSE Stop
          [] a[1] = "fn" -> Stop
          [] v[1] \in {"int", "char"} -> Scalar(N(v[2]), "int")
          [] v[1] = "bool" -> Scalar(Literal(v[2]), "bool")
          [] v[1] = "str" -> Filled("int", [i \in DOMAIN v[2] |-> N(v[2][i])], <<"str", v[2]>>)
          [] v[1] = "unit" -> UnitSym
AtomSyms(as, env) == [i \in DOMAIN as |-> AtomSym(as[i], env)]

\* Clauses: those of the function count parameters, the result (Stop before
\* there is one) and quantified variables; those of a loop are indices.
ClauseAtom(a, scope, binders) ==
    LET n == Len(scope.params)
        binder(name) == Scalar(BoundVar(name), "int")
    IN  CASE ~ scope.flat ->
                AtomSym(a, scope.env \o [i \in DOMAIN binders |-> binder(binders[i])])
          [] scope.flat /\ a[1] = "var" ->
                CASE a[2] < n -> scope.params[a[2] + 1]
                  [] a[2] = n -> scope.result
                  [] a[2] - n \in DOMAIN binders -> binder(binders[a[2] - n])
                  [] OTHER -> Stop
          [] scope.flat /\ a[1] = "lit" /\ a[2][1] \notin {"str", "unit"} ->
                AtomSym(a, <<>>)
          [] OTHER -> Stop

RECURSIVE ClauseOperand(_, _, _)
ClauseOperand(x, scope, binders) ==
    LET of(y) == ClauseOperand(y, scope, binders)
    IN  CASE x.k = "atom" -> ClauseAtom(x.a, scope, binders)
          [] x.k = "bin" -> OnScalars(<<of(x.l), of(x.r)>>,
                                LAMBDA es : Scalar(Arith(x.op, es[1], es[2]), "int"))
          [] x.k = "neg" -> OnScalars(<<of(x.x)>>, LAMBDA es : ScalarPrim("neg", es))
          [] x.k = "len" -> LengthOf(of(x.x))
          [] x.k = "index" -> ReadItem(of(x.x), of(x.i))
          [] x.k = "proj" -> IF of(x.x).s = "adt" THEN FieldOf(of(x.x), x.idx) ELSE Stop

\* A clause as a boolean; booleans have no order.
RECURSIVE Clause(_, _, _)
Clause(p, scope, binders) ==
    LET of(q) == Clause(q, scope, binders)
        operand(x) == ClauseOperand(x, scope, binders)
        name == <<"q", Len(binders)>>
        compared(x, y) ==
            IF p.op \notin {"eq", "ne"} /\ x.s = "scalar" /\ x.sort = "bool" THEN Stop
            ELSE OnScalars(<<x, y>>, LAMBDA es : Scalar(Compare(p.op, es[1], es[2]), "bool"))
        both(op) == OnScalars(<<of(p.l), of(p.r)>>, LAMBDA es : Scalar(Op(op, es), "bool"))
    IN  CASE p.k = "const" -> Scalar(Literal(p.p), "bool")
          [] p.k = "cmp" -> compared(operand(p.l), operand(p.r))
          [] p.k \in {"and", "or"} -> both(p.k)
          [] p.k = "not" -> OnScalars(<<of(p.p)>>, LAMBDA es : Scalar(Not(es[1]), "bool"))
          [] p.k = "quant" ->
                OnScalars(<<operand(p.lo), operand(p.hi),
                            Clause(p.p, scope, Append(binders, name))>>,
                    LAMBDA es : Scalar(Quantified(p.exists, name, es[1], es[2], es[3]), "bool"))

InvariantAt(inv, env) == Clause(inv, [flat |-> FALSE, params |-> <<>>, env |-> env], <<>>)
FunctionClause(p, params, result) ==
    Clause(p, [flat |-> TRUE, params |-> params, result |-> result], <<>>)
-----------------------------------------------------------------------------
\* The value of two branches: componentwise; a variant that only one side can
\* have is that side's.
RECURSIVE Merge(_, _, _)
MergeAll(c, xs, ys) ==
    IF Len(xs) # Len(ys) THEN <<Stop>> ELSE [i \in DOMAIN xs |-> Merge(c, xs[i], ys[i])]

MergeVariants(c, xs, ys) ==
    LET at(vs, k) == IF k \in DOMAIN vs THEN vs[k] ELSE None
        merged(x, y) == CASE x = None -> y
                          [] x # None /\ y = None -> x
                          [] OTHER -> <<"fields", MergeAll(c, x[2], y[2])>>
        most == IF Len(xs) > Len(ys) THEN Len(xs) ELSE Len(ys)
    IN  [k \in 1 .. most |-> merged(at(xs, k), at(ys, k))]

Merge(c, x, y) ==
    LET variants == MergeVariants(c, x.variants, y.variants)
    IN  CASE x.s = "unit" /\ y.s = "unit" -> UnitSym
          [] x.s = "scalar" /\ y.s = "scalar" -> Scalar(Ite(c, x.e, y.e), x.sort)
          [] x.s = "array" /\ y.s = "array" ->
                Array(Ite(c, x.arr, y.arr), Ite(c, x.len, y.len), x.elem)
          [] x.s = "adt" /\ y.s = "adt" ->
                IF \E k \in DOMAIN variants : variants[k] # None
                        /\ \E i \in DOMAIN variants[k][2] : IsStop(variants[k][2][i])
                THEN Stop
                ELSE Adt(x.ty, IF x.args = <<>> THEN y.args ELSE x.args,
                         Ite(c, x.tag, y.tag), variants)
          [] x.s = "tuple" /\ y.s = "tuple" ->
                Whole(MergeAll(c, x.items, y.items), Tuple)
          [] OTHER -> Stop
-----------------------------------------------------------------------------
\* The solver: what is asserted, the queries so far, the names given.
Started == [asserts |-> <<>>, queries |-> <<>>, names |-> 0]
Assuming(st, t) == [st EXCEPT !.asserts = Append(@, t)]
Named(st) == [st EXCEPT !.names = @ + 1]
\* Whether the goal follows from the assertions.
Ask(st, kind, goal) ==
    [st EXCEPT !.queries = Append(@, [kind |-> kind, asserts |-> Append(st.asserts, Not(goal))])]

Encoded(x, st) == [x |-> x, st |-> st]
Continue(r, K(_, _)) == IF IsStop(r.x) THEN r ELSE K(r.x, r.st)
ContinueScalar(r, K(_, _)) ==
    IF r.x.s = "scalar" THEN K(r.x.e, r.st) ELSE Encoded(Stop, r.st)

RECURSIVE Encode(_, _, _, _)

\* if has its branches as tags 0 and 1; each branch of a match runs under the
\* condition that the tag is its own, and the last one is the default.
EncodeMatch(x, branches, env, path, st) ==
    LET under(c, i, binds, s) == Encode(branches[i].body, env \o binds, And(path, c), s)
        is(k) == Op("eq", <<x.tag, N(k - 1)>>)
        fields(k) ==
            CASE branches[k].binds = 0 -> <<"fields", <<>>>>
              [] branches[k].binds # 0 /\ k \in DOMAIN x.variants -> x.variants[k]
              [] OTHER -> None
        arm(acc, k) ==
            IF IsStop(acc.x) THEN acc
            ELSE IF fields(k) = None THEN [acc EXCEPT !.x = Stop]
            ELSE IF Len(fields(k)[2]) # branches[k].binds THEN [acc EXCEPT !.x = Stop]
            ELSE LET r == under(is(k), k, fields(k)[2], acc.st)
                 IN  [x |-> r.x, st |-> r.st, arms |-> Append(acc.arms, <<is(k), r.x>>)]
        all == FoldLeft(arm, [x |-> UnitSym, st |-> st, arms |-> <<>>],
                        [k \in DOMAIN branches |-> k])
        join(a, acc) == IF IsStop(acc) THEN acc ELSE Merge(a[1], a[2], acc)
    IN  CASE x.s = "scalar" /\ x.sort = "bool" ->
                IF Len(branches) # 2 \/ branches[1].binds + branches[2].binds # 0
                THEN Encoded(Stop, st)
                ELSE Continue(under(x.e, 2, <<>>, st), LAMBDA yes, s1 :
                     Continue(under(Not(x.e), 1, <<>>, s1), LAMBDA no, s2 :
                        Encoded(Merge(x.e, yes, no), s2)))
          [] x.s = "adt" /\ branches # <<>> ->
                IF IsStop(all.x) THEN Encoded(Stop, all.st)
                ELSE Encoded(FoldRight(join, Front(all.arms), Last(all.arms)[2]), all.st)
          [] OTHER -> Encoded(Stop, st)

\* The next values of k carried variables.
StateOf(x, k) ==
    LET values == CASE x.s = "adt" /\ Len(x.variants) = 1 ->
                            IF x.variants[1] = None THEN <<Stop>> ELSE x.variants[1][2]
                    [] x.s = "tuple" -> x.items
                    [] x.s = "unit" /\ k = 0 -> <<>>
                    [] OTHER -> <<Stop>>
    IN  IF Len(values) = k THEN values ELSE <<Stop>>

\* A loop: the invariant on entry; that an iteration from an arbitrary state
\* keeps it, all the assumptions of which are dropped again; and what a state
\* after the loop is known to satisfy where the loop is reached.  The invariant
\* of a loop without one is the constant TRUE.
EncodeLoop(c, env, path, st) ==
    LET k == Len(c.state)
        id == st.names
        inits == AtomSyms(c.state, env)
        like(prefix) == [j \in 1 .. k |-> HavocLike(inits[j], <<prefix, id, j>>)]
        havoc == like("s")
        exit == like("x")
        inv(state) == InvariantAt(c.invariant, env \o state)
        usable(xs) == \A i \in DOMAIN xs : ~ IsStop(xs[i])
        cond(state, s) == Encode(c.cond, env \o state, path, s)
        entered == Ask(Assuming(Named(st), path), "entry", inv(inits).e)
        begun == [entered EXCEPT !.asserts = st.asserts \o <<path, inv(havoc).e>>]
        iteration(g, s) ==
            Encode(c.body, env \o havoc, And(And(path, g), inv(havoc).e), Assuming(s, g))
        kept(next, s) == [Ask(s, "kept", inv(next).e) EXCEPT !.asserts = st.asserts]
        known(g, s) ==
            Encoded(Tuple(exit), Assuming(s, Op("imp", <<path, And(inv(exit).e, Not(g))>>)))
    IN  IF ~ usable(inits) \/ IsStop(inv(inits)) THEN Encoded(Stop, st)
        ELSE IF ~ usable(havoc) THEN Encoded(Stop, entered)
        ELSE ContinueScalar(cond(havoc, begun), LAMBDA g, s1 :
             Continue(iteration(g, s1), LAMBDA x, s2 :
                LET next == StateOf(x, k)
                IN  IF ~ usable(next) \/ IsStop(inv(next)) THEN Encoded(Stop, s2)
                    ELSE ContinueScalar(cond(exit, kept(next, s2)), known)))

\* A variant built: the others are empty, as many as the type declares.
Built(c, fields) ==
    LET declared == CASE c.ty \in DOMAIN Enums -> Len(Enums[c.ty])
                      [] c.ty \in DOMAIN Structs -> 1
                      [] OTHER -> 0
        most == IF declared > c.tag THEN declared ELSE c.tag + 1
    IN  Adt(c.ty, <<>>, N(c.tag),
            [k \in 1 .. most |-> IF k = c.tag + 1 THEN <<"fields", fields>> ELSE None])

\* Arrays and lists are values of their own: an element stored, one added.
StoreAt(x, i, e) ==
    IF x.s = "array" /\ i.s = "scalar" /\ e.s = "scalar"
    THEN [x EXCEPT !.arr = Op("store", <<@, i.e, e.e>>)] ELSE Stop
Pushed(x, e) ==
    IF x.s = "array" /\ e.s = "scalar"
    THEN Array(Op("store", <<x.arr, x.len, e.e>>), Arith("add", x.len, N(1)), x.elem)
    ELSE Stop
Popped(x) ==
    IF x.s = "array" THEN [x EXCEPT !.len = Op("sub", <<@, N(1)>>)] ELSE Stop

Encode(c, env, path, st) ==
    LET atom(a) == AtomSym(a, env)
        new == <<"new", st.names>>
    IN  CASE c.k = "let" ->
                Continue(Encode(c.value, env, path, st), LAMBDA x, s :
                    Encode(c.body, Append(env, x), path, s))
          [] c.k = "match" -> EncodeMatch(atom(c.scrutinee), c.branches, env, path, st)
          [] c.k = "loop" -> EncodeLoop(c, env, path, st)
          [] c.k = "atom" -> Encoded(atom(c.a), st)
          [] c.k = "prim" ->
                Encoded(Whole(AtomSyms(c.args, env), LAMBDA xs : PrimSym(c.op, xs)), st)
          [] c.k = "proj" -> Encoded(FieldOf(atom(c.base), c.idx), st)
          [] c.k = "ctor" ->
                Encoded(Whole(AtomSyms(c.fields, env), LAMBDA xs : Built(c, xs)), st)
          [] c.k = "array" ->
                LET filled(es) == Filled(SortOf(c.elem), es, new)
                IN  Encoded(IF SortOf(c.elem) = "none" THEN Stop
                            ELSE OnScalars(AtomSyms(c.fields, env), filled), Named(st))
          [] c.k = "list_new" ->
                Encoded(IF SortOf(c.elem) = "none" \/ atom(c.capacity).s # "scalar" THEN Stop
                        ELSE Filled(SortOf(c.elem), <<>>, new), Named(st))
          [] c.k = "index_set" ->
                Encoded(StoreAt(atom(c.base), atom(c.index), atom(c.value)), st)
          [] c.k = "list_set" ->
                Encoded(StoreAt(atom(c.list), atom(c.index), atom(c.value)), st)
          [] c.k = "list_push" -> Encoded(Pushed(atom(c.list), atom(c.value)), st)
          [] c.k = "list_pop" -> Encoded(Popped(atom(c.list)), st)
          [] OTHER -> Encoded(Stop, st)
-----------------------------------------------------------------------------
RECURSIVE HasInvariant(_)
HasInvariant(c) ==
    CASE c.k = "let" -> HasInvariant(c.value) \/ HasInvariant(c.body)
      [] c.k = "match" -> \E i \in DOMAIN c.branches : HasInvariant(c.branches[i].body)
      [] c.k = "loop" ->
            c.invariant.k # "const" \/ HasInvariant(c.cond) \/ HasInvariant(c.body)
      [] OTHER -> FALSE

Params(def) == [i \in DOMAIN def.types |-> HavocType(def.types[i], <<"p", i>>, {})]

Required(def, params) ==
    [i \in DOMAIN def.requires |-> FunctionClause(def.requires[i], params, Stop)]

\* Each ensures after the body; one outside the subset ends the encoding.
AskEnsures(ensures, params, body) ==
    LET ask(acc, goal) ==
            IF IsStop(acc.x) \/ IsStop(goal) THEN Encoded(Stop, acc.st)
            ELSE Encoded(acc.x, Ask(acc.st, "ensures", goal.e))
    IN  FoldLeft(ask, body, [i \in DOMAIN ensures |->
                                FunctionClause(ensures[i], params, body.x)])

EncodeFunction(def, params, requires) ==
    IF \E x \in Range(params \o requires) : IsStop(x) THEN Encoded(Stop, Started)
    ELSE AskEnsures(def.ensures, params,
            Encode(def.body, params, TrueTerm,
                   [Started EXCEPT !.asserts = [i \in DOMAIN requires |-> requires[i].e]]))

\* The queries of a function, in the order they are asked, and whether some
\* part of it is outside the subset.
Obligations(def, params) ==
    IF def.ensures = <<>> /\ ~ HasInvariant(def.body) THEN Encoded(UnitSym, Started)
    ELSE EncodeFunction(def, params, Required(def, params))

\* The value in a model of what HavocType made of a type.
RECURSIVE ValueIn(_, _, _)
ValueIn(x, ty, m) ==
    LET scalar(e, sort) == IF sort = "bool" THEN Truth(Denotes(e, m)) ELSE Num(Denotes(e, m))
        items == [i \in 1 .. Denotes(x.len, m) |->
                    scalar(Op("select", <<x.arr, N(i - 1)>>), x.elem)]
        tag == Denotes(x.tag, m)
        fields == x.variants[tag + 1][2]
    IN  CASE x.s = "unit" -> Unit
          [] x.s = "scalar" -> scalar(x.e, x.sort)
          [] x.s = "array" ->
                IF IsList(ty) THEN List(items, Len(items))
                ELSE IF ty[1] = "str" THEN Str([i \in DOMAIN items |-> items[i][2]])
                ELSE Agg(0, items)
          [] x.s = "adt" ->
                Agg(tag, [i \in DOMAIN fields |->
                            ValueIn(fields[i], VariantFields(ty, tag)[2][i], m)])

RECURSIVE TermsOf(_)
TermsOf(x) ==
    CASE x.s = "scalar" -> {x.e}
      [] x.s = "array" -> {x.arr, x.len}
      [] x.s = "adt" ->
            {x.tag} \cup UNION {UNION {TermsOf(x.variants[k][2][i]) : i \in DOMAIN x.variants[k][2]} :
                                    k \in DOMAIN x.variants}
      [] OTHER -> {}

Proved == [result |-> "proved"]
Unsupported == [result |-> "unsupported"]

\* The first query that has a model decides, and its counterexample is any of
\* them; nth counts the queries asked.
Answers(def, params, o) ==
    LET declared == SetToSeq({Op("eq", <<t, t>>) : t \in UNION {TermsOf(params[i]) : i \in DOMAIN params}})
        queries == o.st.queries
        failing == {q \in DOMAIN queries : Models(queries[q].asserts) # {}}
        first == CHOOSE q \in failing : \A r \in failing : q <= r
        given(m) == [i \in DOMAIN params |-> ValueIn(params[i], def.types[i], m)]
    IN  IF failing # {}
        THEN {[result |-> "failed", nth |-> first, kind |-> queries[first].kind,
               args |-> given(m)] : m \in Models(queries[first].asserts \o declared)}
        ELSE IF IsStop(o.x) THEN {Unsupported} ELSE {Proved}

\* What verify may answer.
Verdicts(def) ==
    LET about(params) == Answers(def, params, Obligations(def, params))
    IN  about(Params(def))
====
