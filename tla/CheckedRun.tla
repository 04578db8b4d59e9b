---- MODULE CheckedRun ----
(***************************************************************************)
(* A program from check to run: analyze_source of marv-db (single-file     *)
(* checks of the query server) propagates the effect rows through the call *)
(* graph before it checks; Loaded::check of marv-cli and the check of a    *)
(* snapshot of several files take the rows the front end lowered.  marv    *)
(* run executes an accepted program in the interpreter: the entry gets its *)
(* capabilities from the grant, a perform is logged as an effect, an error *)
(* unwinds the whole stack.                                                *)
(***************************************************************************)
EXTENDS Effects

CONSTANTS
    Programs,   \* the programs a session may be about
    Entry,      \* the name of their entry
    MaxDepth    \* bound on the depth of the call stack

\* What lowering makes of a source file whose names resolve.
Program(p) ==
    /\ Entry \in DOMAIN p
    /\ \A n \in DOMAIN p :
          /\ p[n].params \in Seq(Caps \cup {Plain})
          /\ p[n].types \in Seq(Caps \cup {Plain})
          /\ Len(p[n].body) \in Nat
          /\ DOMAIN p[n].body = 1 .. Len(p[n].body)
          /\ Len(p[n].types) = Len(p[n].body)
          /\ \A i \in Steps(p[n], "call") : p[n].body[i].args \in Seq(Nat)
          /\ Callees(p[n]) \subseteq DOMAIN p

ASSUME ProgramsAssumption == \A p \in Programs : Program(p)

VARIABLES
    prog,       \* the program
    checker,    \* "server" (one file) or "cli"
    grant,      \* the capabilities the host grants
    rows,       \* name -> the row of its arrow in the checker's world
    phase,      \* "infer", "check", "load", "run", or how it ended
    stack,      \* the interpreter's frames, the running one last
    effects     \* history: each effect, with the functions it happened under

vars == <<prog, checker, grant, rows, phase, stack, effects>>

Frame(fn, env) == [fn |-> fn, pc |-> 1, env |-> env]
Top == stack[Len(stack)]
Running == {stack[k].fn : k \in DOMAIN stack}

\* The value of variable k in a frame; a literal is plain.
ValueIn(frame, k) == IF k = 0 THEN Plain ELSE frame.env[k]

\* A frame after its current step has yielded a value.
Bound(frame, value) ==
    LET step == prog[frame.fn].body[frame.pc]
    IN  [frame EXCEPT !.pc = @ + 1,
                      !.env = Append(@, IF step.arm THEN Plain ELSE value)]

AtStep(what) ==
    /\ phase = "run"
    /\ Top.pc \in DOMAIN prog[Top.fn].body
    /\ prog[Top.fn].body[Top.pc].do = what
Step == prog[Top.fn].body[Top.pc]
-----------------------------------------------------------------------------
Init ==
    /\ prog \in Programs
    /\ checker \in {"server", "cli"}
    /\ grant = {}
    /\ rows = DeclaredRows(prog)
    /\ phase = IF checker = "server" THEN "infer" ELSE "check"
    /\ stack = <<>>
    /\ effects = {}

\* Mutant: a single pass.
PropagateOnce ==
    /\ phase = "infer"
    /\ rows' = PropagatedRows(prog, rows)
    /\ phase' = "check"
    /\ UNCHANGED <<prog, checker, grant, stack, effects>>

\* world_with_propagated_effects: passes until no row has grown.
Propagate ==
    /\ phase = "infer"
    /\ rows' = PropagatedRows(prog, rows)
    /\ phase' = IF rows' = rows THEN "check" ELSE "infer"
    /\ UNCHANGED <<prog, checker, grant, stack, effects>>

Check ==
    /\ phase = "check"
    /\ phase' = IF Accepted(prog, rows) THEN "load" ELSE "rejected"
    /\ UNCHANGED <<prog, checker, grant, rows, stack, effects>>

\* Mutant: the entry gets the capabilities it asks for.
GrantIgnored(params, granted) == TRUE

\* bind_param: every capability parameter of the entry has been granted.
Granted(params, granted) == Range(params) \cap Caps \subseteq granted

\* marv run with the granted capabilities.
Load(granted) ==
    LET params == prog[Entry].params
        ok == Granted(params, granted)
    IN  /\ phase = "load"
        /\ grant' = granted
        /\ phase' = IF ok THEN "run" ELSE "ungranted"
        /\ stack' = IF ok THEN <<Frame(Entry, params)>> ELSE <<>>
        /\ UNCHANGED <<prog, checker, rows, effects>>

\* The condition around the step is false.
Skip ==
    /\ phase = "run"
    /\ Top.pc \in DOMAIN prog[Top.fn].body
    /\ Step.arm
    /\ stack' = [stack EXCEPT ![Len(stack)] = Bound(Top, Plain)]
    /\ UNCHANGED <<prog, checker, grant, rows, phase, effects>>

\* A narrowing operation yields the narrowed capability; a perform on
\* something else is a run-time error.
Perform ==
    LET cap == ValueIn(Top, Step.cap)
    IN  /\ AtStep("perform")
        /\ IF cap \in Caps
           THEN /\ effects' = effects \cup {[cap |-> cap, under |-> Running]}
                /\ stack' = [stack EXCEPT ![Len(stack)] =
                                Bound(Top, Ops[cap][Step.op])]
                /\ UNCHANGED phase
           ELSE phase' = "stuck" /\ UNCHANGED <<stack, effects>>
        /\ UNCHANGED <<prog, checker, grant, rows>>

Call ==
    /\ AtStep("call")
    /\ Len(stack) < MaxDepth
    /\ stack' = Append(stack,
           Frame(Step.fn, [j \in DOMAIN Step.args |->
                              ValueIn(Top, Step.args[j])]))
    /\ UNCHANGED <<prog, checker, grant, rows, phase, effects>>

\* Nothing catches an error: it ends the run.
Raise ==
    /\ AtStep("raise")
    /\ phase' = "uncaught"
    /\ UNCHANGED <<prog, checker, grant, rows, stack, effects>>

\* The last frame's result becomes the value of the step its caller is at.
Return ==
    LET depth == Len(stack)
        value == ValueIn(Top, prog[Top.fn].result)
    IN  /\ phase = "run"
        /\ Top.pc = Len(prog[Top.fn].body) + 1
        /\ phase' = IF depth = 1 THEN "returned" ELSE "run"
        /\ stack' = [k \in 1 .. depth - 1 |->
                        IF k = depth - 1 THEN Bound(stack[k], value) ELSE stack[k]]
        /\ UNCHANGED <<prog, checker, grant, rows, effects>>

Next ==
    \/ Propagate
    \/ Check
    \/ \E granted \in SUBSET Caps : Load(granted)
    \/ Skip
    \/ Perform
    \/ Call
    \/ Raise
    \/ Return

Spec == Init /\ [][Next]_vars /\ WF_vars(Propagate)
-----------------------------------------------------------------------------
\* The frames are those of the program, the values those the checker's types
\* promise, and a caller waits at the call of the frame above it.
FrameOK(frame) ==
    LET f == prog[frame.fn]
    IN  /\ frame.fn \in DOMAIN prog
        /\ frame.pc \in 1 .. Len(f.body) + 1
        /\ DOMAIN frame.env = 1 .. Len(f.params) + frame.pc - 1
        /\ \A k \in DOMAIN frame.env : frame.env[k] = TypeOf(f, k)

TypeOK ==
    /\ phase \in {"infer", "check", "load", "run", "rejected", "ungranted",
                  "stuck", "uncaught", "returned"}
    /\ phase = "run" => stack # <<>>
    /\ \A k \in DOMAIN stack : FrameOK(stack[k])

\* docs/checker.md, "Effect-row inference": a function exercises no
\* capability that its signature does not declare or narrow to, itself or
\* through whatever it calls.
EffectsDeclared ==
    \A e \in effects :
        \A n \in e.under : e.cap \in Authorized(DeclaredRow(prog[n]).caps)

\* The grant bounds the effects of a run: none is of a capability that the
\* granted ones do not narrow to.
EffectsGranted == \A e \in effects : e.cap \in Authorized(grant)

\* An accepted program never performs on a value that is not a capability.
NeverStuck == phase # "stuck"

\* The effects the query server reports for a function cover all it does.
EffectsReported ==
    checker = "server" =>
        \A e \in effects : \A n \in e.under : e.cap \in rows[n].caps

\* The propagated row of a function is exactly what it and the functions it
\* reaches declare, perform and raise: nothing is missed in a cycle, and
\* nothing else gets in.
CallGraphOf(p) == [n \in DOMAIN p |-> Callees(p[n])]
ReachableRow(p, n) ==
    LET reached == Reachable(CallGraphOf(p), {n})
    IN  Row(UNION {DeclaredRow(p[m]).caps \cup OwnRow(p[m]).caps : m \in reached},
            UNION {DeclaredRow(p[m]).errors \cup OwnRow(p[m]).errors : m \in reached})
PropagationExact ==
    checker = "server" /\ phase # "infer" =>
        \A n \in DOMAIN prog : rows[n] = ReachableRow(prog, n)

\* The passes end, also for recursive functions.
PropagationEnds == <>(phase # "infer")

\* docs/checker.md, "Error-set inference": an error passes only through
\* functions whose error set is open.  True of the server's check of a file.
ErrorsContained ==
    checker = "server" /\ phase = "uncaught" =>
        \A n \in Running : prog[n].open

====
