---- MODULE Verify ----
(***************************************************************************)
(* A function whose contracts are verified (Tier 2) and which is then      *)
(* called under the checks of the interpreter (Tier 1).                    *)
(***************************************************************************)
EXTENDS CoreEval, Verifier

CONSTANTS
    Programs,      \* names of programs
    Source(_),     \* the functions of one, main among them
    Arguments(_)   \* what main is called with, () for a capability

VARIABLES
    program,
    core,      \* its definitions after lowering, None before
    verdict,   \* of marv verify, None before
    tested     \* of main afterwards: its arguments and how it ended

vars == <<program, core, verdict, tested>>

Functions == core[2]
Main == Functions["main"]
-----------------------------------------------------------------------------
Init ==
    /\ program \in Programs
    /\ core = None
    /\ verdict = None
    /\ tested = None

Lower ==
    /\ core = None
    /\ core' = <<"core", LowerModule(Source(program))>>
    /\ UNCHANGED <<program, verdict, tested>>

Verify ==
    /\ core # None
    /\ verdict = None
    /\ verdict' \in {<<"answer", v>> : v \in Verdicts(Main)}
    /\ UNCHANGED <<program, core, tested>>

\* A value a program can have: all its integers are words.
RECURSIVE OfMachine(_)
OfMachine(x) ==
    CASE x[1] = "int" -> x[2] \in Word
      [] x[1] = "agg" -> \A i \in DOMAIN x[3] : OfMachine(x[3][i])
      [] x[1] = "list" -> \A i \in DOMAIN x[2] : OfMachine(x[2][i])
      [] x[1] = "str" -> \A i \in DOMAIN x[2] : x[2][i] \in Word
      [] OTHER -> TRUE

\* No call has the arguments of a counterexample with an element out of range.
Callable(args) == \A i \in DOMAIN args : OfMachine(args[i])

Tried ==
    {args \in IF verdict[2].result = "failed" THEN {verdict[2].args}
              ELSE Arguments(program) : Callable(args)}

Call ==
    /\ verdict # None
    /\ tested = None
    /\ \E args \in Tried :
        tested' = <<"call", args, Run(Functions, "main", args)>>
    /\ UNCHANGED <<program, core, verdict>>

Next == Lower \/ Verify \/ Call

Spec == Init /\ [][Next]_vars
-----------------------------------------------------------------------------
Answer == verdict[2].result
End == tested[3]

\* The preconditions say something of these arguments: a clause the interpreter
\* cannot evaluate is skipped by it and assumed by the verifier.
Assumed == \A i \in DOMAIN Main.requires :
              EvalPred(Main.requires[i], FlatValues(tested[2], None), <<>>) = Known(TRUE)

\* "never an unsound proved" (docs/verification.md): no call of a proved function
\* whose preconditions hold ends in a broken postcondition or loop invariant.
ProvedSound ==
    tested # None /\ Answer = "proved" /\ Assumed =>
        End \notin {Error("ensures"), Error("invariant")}

\* How a run may end that never evaluates the clause.
Stopped == {Error("bounds"), Error("division by zero"), Error("fuel")}
Undecided ==
    /\ IsOk(End)
    /\ \E i \in DOMAIN Main.ensures :
           EvalPred(Main.ensures[i], FlatValues(tested[2], Known(End[2])), <<>>) = None

RECURSIVE HasLoop(_)
HasLoop(c) ==
    CASE c.k = "let" -> HasLoop(c.value) \/ HasLoop(c.body)
      [] c.k = "match" -> \E i \in DOMAIN c.branches : HasLoop(c.branches[i].body)
      [] OTHER -> c.k = "loop"

\* A counterexample that can be called is one: where nothing was abstracted,
\* that is without a loop or at the entry of the first, the arguments of the
\* model satisfy the preconditions and break the clause.  One with an array
\* element outside the word cannot be called, and none is tested.
CounterexampleReal ==
    tested # None /\ Answer = "failed" =>
        CASE verdict[2].kind = "ensures" /\ ~ HasLoop(Main.body) ->
                End \in {Error("ensures")} \cup Stopped \/ Undecided
          [] verdict[2].kind = "entry" /\ verdict[2].nth = 1 ->
                End \in {Error("invariant")} \cup Stopped
          [] OTHER -> TRUE
====
