---- MODULE LinearUse ----
(***************************************************************************)
(* Linearity, marv-types/src/check.rs: every binding of a linear type is   *)
(* to be consumed exactly once on every control path.  The checker counts, *)
(* for each binder, the fewest and the most uses on a path to a point; the *)
(* interpreter runs the body it has accepted.                              *)
(*                                                                         *)
(* A body is a term of the Core IR:                                        *)
(*   atom v                  variable v, or a literal if v is 0;           *)
(*   app params, args, ret   a call, operation or constructor: it consumes *)
(*                           its arguments and yields a value of type ret; *)
(*   let value, body         body has one variable more;                   *)
(*   match arms              on a plain value, one arm runs;               *)
(*   raise                   an error, which nothing catches;              *)
(*   return v                leaves the function; lowering emits it only   *)
(*                           where the body of a loop ends;                *)
(*   loop init, cond, body   while cond, with one carried variable that    *)
(*                           starts as init and becomes what body yields;  *)
(*                           its value is the final one of that variable.  *)
(* Variables are de Bruijn levels, the only parameter is variable 1. Types *)
(* are Plain, Linear and the Any of a term that yields no value.           *)
(***************************************************************************)
EXTENDS Naturals, Sequences, FiniteSets

CONSTANTS
    Terms,      \* n -> the terms with variables 1 to n
    Size(_),    \* the size of a term
    Bodies,     \* the functions: [body, ret], of one linear parameter
    MaxTurns    \* bound on the turns of the loops of a run

Types == {"Plain", "Linear"}

Part(t, n, whole) == n \in DOMAIN Terms /\ t \in Terms[n] /\ Size(t) < Size(whole)

IsTerm(t, n) ==
    \/ t.do = "atom" /\ t.v \in 0 .. n
    \/ /\ t.do = "app"
       /\ t.params \in Seq(Types) /\ t.args \in Seq(0 .. n) /\ t.ret \in Types
       /\ Len(t.params) = Len(t.args)
    \/ t.do = "let" /\ Part(t.value, n, t) /\ Part(t.body, n + 1, t)
    \/ t.do = "match" /\ t.arms \in Seq(Terms[n]) /\ Len(t.arms) = 2
          /\ \A i \in 1 .. 2 : Part(t.arms[i], n, t)
    \/ t.do = "raise"
    \/ t.do = "return" /\ t.v \in 0 .. n
    \/ t.do = "loop" /\ t.init \in 0 .. n /\ Part(t.cond, n + 1, t) /\ Part(t.body, n + 1, t)

\* Core lowering emits: every variable is bound, and terms are finite.
ASSUME TermsAssumption ==
    /\ \A n \in DOMAIN Terms : n \in Nat
    /\ \A n \in DOMAIN Terms : \A t \in Terms[n] : Size(t) \in Nat /\ IsTerm(t, n)
    /\ 1 \in DOMAIN Terms
    /\ \A f \in Bodies : f.body \in Terms[1] /\ f.ret \in Types

Binder(type, linear) == [type |-> type, linear |-> linear]

\* let, a parameter or a field of a variant; a carried variable is never
\* linear.
Bind(type) == Binder(type, type = "Linear")

AtomType(env, v) ==
    IF v = 0 THEN "Plain" ELSE IF v \in DOMAIN env THEN env[v].type ELSE "Any"

\* The fewest and the most uses of each variable.
NoUses(env) == [k \in DOMAIN env |-> <<0, 0>>]

AtomUses(env, v) ==
    [k \in DOMAIN env |-> IF k = v /\ env[k].linear THEN <<1, 1>> ELSE <<0, 0>>]

\* seq: both parts run.
InSequence(a, b) == [k \in DOMAIN a |-> <<a[k][1] + b[k][1], a[k][2] + b[k][2]>>]

\* Mutant: the most uses of any arm count for all.
MostOf(a, b) ==
    [k \in DOMAIN a |->
        IF b[k][2] > a[k][2] THEN <<b[k][2], b[k][2]>> ELSE <<a[k][2], a[k][2]>>]

\* branch_merge: exactly one arm runs.
Merged(a, b) ==
    [k \in DOMAIN a |->
        <<IF b[k][1] < a[k][1] THEN b[k][1] ELSE a[k][1],
          IF b[k][2] > a[k][2] THEN b[k][2] ELSE a[k][2]>>]

\* Mutant: the body of a loop runs once.
OneTurn(uses) == uses

\* A loop's body runs any number of times: any use in it is no use on one
\* path and two on another.
AnyTurns(uses) ==
    [k \in DOMAIN uses |-> IF uses[k][2] >= 1 THEN <<0, 2>> ELSE <<0, 0>>]

ArgumentUses(env, args) ==
    [k \in DOMAIN env |->
        LET n == Cardinality({i \in DOMAIN args : args[i] = k})
        IN  IF env[k].linear THEN <<n, n>> ELSE <<0, 0>>]

\* What is used of the variables outside of a binder.
Outside(env, uses) == [k \in DOMAIN env |-> uses[k]]

\* compatible: no type coerces to another, only that of a raise fits any.
Compatible(expected, type) == type = expected \/ "Any" \in {type, expected}

\* check_linear
Once(count) == count = <<1, 1>>

Out(type, uses, ok) == [type |-> type, uses |-> uses, ok |-> ok]

\* Let and Match of synth, from what it finds of their parts.
OfLet(env, value, body) ==
    Out(body.type, InSequence(value.uses, Outside(env, body.uses)),
        /\ value.ok /\ body.ok
        /\ Bind(value.type).linear => Once(body.uses[Len(env) + 1]))

OfMatch(a, b) ==
    Out(IF a.type = "Any" THEN b.type ELSE a.type, Merged(a.uses, b.uses),
        a.ok /\ b.ok /\ Compatible(a.type, b.type))

\* The checker counts neither the uses of a carried variable nor a condition
\* that is tested again, and does not compare what the body yields with what
\* is carried.
Counted(term, env, cond, body) ==
    /\ AtomType(env, term.init) = "Plain"
    /\ Outside(env, cond.uses) = NoUses(env)
    /\ body.type # "Linear"

\* Loop of synth. A careful check would refuse what it does not count.
OfLoop(term, env, cond, body, careful) ==
    Out(AtomType(env, term.init),
        InSequence(AtomUses(env, term.init),
            InSequence(Outside(env, cond.uses), AnyTurns(Outside(env, body.uses)))),
        /\ cond.ok /\ body.ok /\ Compatible("Plain", cond.type)
        /\ careful => Counted(term, env, cond, body))

Carried(term, env) == Binder(AtomType(env, term.init), FALSE)

\* synth, where careful is FALSE, from what it finds of the parts of a term.
Finding(synth, term, env, ret, careful) ==
    CASE term.do = "atom" ->
            Out(AtomType(env, term.v), AtomUses(env, term.v), TRUE)
      [] term.do = "app" ->
            Out(term.ret, ArgumentUses(env, term.args),
                \A i \in DOMAIN term.params :
                    Compatible(term.params[i], AtomType(env, term.args[i])))
      [] term.do = "let" ->
            LET value == synth[<<term.value, env, ret, careful>>]
            IN  OfLet(env, value,
                      synth[<<term.body, Append(env, Bind(value.type)), ret, careful>>])
      [] term.do = "match" ->
            OfMatch(synth[<<term.arms[1], env, ret, careful>>],
                    synth[<<term.arms[2], env, ret, careful>>])
      [] term.do = "raise" -> Out("Any", NoUses(env), TRUE)
      [] term.do = "return" ->
            Out("Any", AtomUses(env, term.v),
                Compatible(ret, AtomType(env, term.v)))
      [] term.do = "loop" ->
            LET inner == Append(env, Carried(term, env))
            IN  OfLoop(term, env, synth[<<term.cond, inner, ret, careful>>],
                       synth[<<term.body, inner, ret, careful>>], careful)

AllTerms == UNION {Terms[n] : n \in DOMAIN Terms}
Environments == Seq([type : Types \cup {"Any"}, linear : BOOLEAN])

Inputs == AllTerms \X Environments \X Types \X BOOLEAN

Synth[x \in Inputs] == Finding(Synth, x[1], x[2], x[3], x[4])

\* check_fn, where careful is FALSE.
Passes(f, careful) ==
    LET out == Synth[<<f.body, <<Bind("Linear")>>, f.ret, careful>>]
    IN  out.ok /\ Compatible(f.ret, out.type) /\ Once(out.uses[1])

Accepted(f) == Passes(f, FALSE)
-----------------------------------------------------------------------------
(***************************************************************************)
(* The interpreter.  A linear value is a token, its position in uses; any  *)
(* other value is 0.                                                       *)
(***************************************************************************)
VARIABLES
    fn,         \* the function
    phase,      \* "check", "run", or how it ended
    focus,      \* the term to evaluate, or [do |-> "value", value |-> n]
    env,        \* the values of the variables in scope
    rest,       \* what is left to do after focus, innermost last
    uses,       \* how often each linear value has been consumed or given away
    turns       \* turns of loops so far

vars == <<fn, phase, focus, env, rest, uses, turns>>

Value(n) == [do |-> "value", value |-> n]
ValueOf(v) == IF v = 0 THEN 0 ELSE env[v]

Consumed(tokens) ==
    [t \in DOMAIN uses |-> uses[t] + Cardinality({i \in DOMAIN tokens : tokens[i] = t})]

At(what) == phase = "run" /\ focus.do = what

\* A value has been computed, for the innermost part that waits for one.
Innermost == rest[Len(rest)]
Waiting(what) == At("value") /\ rest # <<>> /\ Innermost.do = what

\* The variables of that part.
Outer == SubSeq(env, 1, Innermost.depth)

Leave == SubSeq(rest, 1, Len(rest) - 1)

Init ==
    /\ fn \in Bodies
    /\ phase = "check"
    /\ focus = fn.body
    /\ env = <<1>>
    /\ rest = <<>>
    /\ uses = <<0>>
    /\ turns = 0

Check ==
    /\ phase = "check"
    /\ phase' = IF Accepted(fn) THEN "run" ELSE "rejected"
    /\ UNCHANGED <<fn, focus, env, rest, uses, turns>>

EvalAtom ==
    /\ At("atom")
    /\ focus' = Value(ValueOf(focus.v))
    /\ UNCHANGED <<fn, phase, env, rest, uses, turns>>

Apply ==
    LET after == Consumed([i \in DOMAIN focus.args |-> ValueOf(focus.args[i])])
    IN  /\ At("app")
        /\ IF focus.ret = "Linear"
           THEN uses' = Append(after, 0) /\ focus' = Value(Len(uses'))
           ELSE uses' = after /\ focus' = Value(0)
        /\ UNCHANGED <<fn, phase, env, rest, turns>>

EnterLet ==
    /\ At("let")
    /\ focus' = focus.value
    /\ rest' = Append(rest, [do |-> "let", body |-> focus.body, depth |-> Len(env)])
    /\ UNCHANGED <<fn, phase, env, uses, turns>>

BindLet ==
    /\ Waiting("let")
    /\ env' = Append(Outer, focus.value)
    /\ focus' = Innermost.body
    /\ rest' = Leave
    /\ UNCHANGED <<fn, phase, uses, turns>>

Match ==
    /\ At("match")
    /\ \E i \in DOMAIN focus.arms : focus' = focus.arms[i]
    /\ UNCHANGED <<fn, phase, env, rest, uses, turns>>

EnterLoop ==
    /\ At("loop")
    /\ env' = Append(env, ValueOf(focus.init))
    /\ focus' = focus.cond
    /\ rest' = Append(rest, [do |-> "cond", loop |-> focus, depth |-> Len(env)])
    /\ UNCHANGED <<fn, phase, uses, turns>>

\* The condition holds.
Turn ==
    /\ Waiting("cond")
    /\ turns < MaxTurns
    /\ env' = SubSeq(env, 1, Innermost.depth + 1)
    /\ focus' = Innermost.loop.body
    /\ rest' = [rest EXCEPT ![Len(rest)].do = "next"]
    /\ turns' = turns + 1
    /\ UNCHANGED <<fn, phase, uses>>

NextTurn ==
    /\ Waiting("next")
    /\ env' = Append(Outer, focus.value)
    /\ focus' = Innermost.loop.cond
    /\ rest' = [rest EXCEPT ![Len(rest)].do = "cond"]
    /\ UNCHANGED <<fn, phase, uses, turns>>

\* The condition does not hold.
LeaveLoop ==
    /\ Waiting("cond")
    /\ focus' = Value(env[Innermost.depth + 1])
    /\ env' = Outer
    /\ rest' = Leave
    /\ UNCHANGED <<fn, phase, uses, turns>>

Raise ==
    /\ At("raise")
    /\ phase' = "raised"
    /\ UNCHANGED <<fn, focus, env, rest, uses, turns>>

\* The result is the caller's from here on.
Return ==
    /\ At("return")
    /\ phase' = "returned"
    /\ uses' = Consumed(<<ValueOf(focus.v)>>)
    /\ UNCHANGED <<fn, focus, env, rest, turns>>

Finish ==
    /\ At("value")
    /\ rest = <<>>
    /\ phase' = "finished"
    /\ uses' = Consumed(<<focus.value>>)
    /\ UNCHANGED <<fn, focus, env, rest, turns>>

Next ==
    \/ Check
    \/ EvalAtom
    \/ Apply
    \/ EnterLet
    \/ BindLet
    \/ Match
    \/ EnterLoop
    \/ Turn
    \/ NextTurn
    \/ LeaveLoop
    \/ Raise
    \/ Return
    \/ Finish

Spec == Init /\ [][Next]_vars
-----------------------------------------------------------------------------
\* No linear value of an accepted function, its loops counted, is consumed
\* again after it has been consumed or given away, whatever arms and turns its
\* run takes.
NeverTwice ==
    phase # "check" /\ Passes(fn, TRUE) => \A t \in DOMAIN uses : uses[t] <= 1

\* A run that reaches the end of such a function has consumed or given away
\* every linear value it was handed or made.
NothingLeft ==
    phase = "finished" /\ Passes(fn, TRUE) => \A t \in DOMAIN uses : uses[t] = 1

\* docs/checker.md, "Linearity": exactly once on every control path, also
\* where a loop tests its condition or carries the value, and where a return
\* leaves it.
ExactlyOnce ==
    /\ \A t \in DOMAIN uses : uses[t] <= 1
    /\ phase \in {"finished", "returned"} => \A t \in DOMAIN uses : uses[t] = 1
====
