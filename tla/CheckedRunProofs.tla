---- MODULE CheckedRunProofs ----
(***************************************************************************)
(* What the checker's rows say of a run, for every program, every world of *)
(* capabilities and any depth of calls.                                    *)
(***************************************************************************)
EXTENDS CheckedRun, Foundations

\* Rows are compared part by part.
RowIn(a, b) == a.caps \subseteq b.caps /\ a.errors \subseteq b.errors

\* Every function of the program can be looked up.
WellFormed(p) == \A n \in DOMAIN p : Callees(p[n]) \subseteq DOMAIN p

\* Programs call their own functions and have an entry.
LEMMA ProgramsWellFormed ==
    ASSUME NEW p \in Programs
    PROVE  WellFormed(p) /\ Entry \in DOMAIN p
BY ProgramsAssumption DEF WellFormed, Program
-----------------------------------------------------------------------------
(***************************************************************************)
(* Propagation.                                                            *)
(***************************************************************************)

\* What a function reaches includes itself and what its callees reach.
LEMMA ReachedStep ==
    ASSUME NEW p, WellFormed(p), NEW n \in DOMAIN p
    PROVE  /\ n \in Reachable(CallGraphOf(p), {n})
           /\ Reachable(CallGraphOf(p), {n}) \subseteq DOMAIN p
           /\ \A g \in Callees(p[n]) :
                 Reachable(CallGraphOf(p), {g})
                     \subseteq Reachable(CallGraphOf(p), {n})
<1> DEFINE G == CallGraphOf(p)
<1>1. DOMAIN G = DOMAIN p /\ \A m \in DOMAIN p : G[m] = Callees(p[m])
  BY DEF CallGraphOf
<1>2. /\ Reachable(G, {n}) \subseteq DOMAIN G
      /\ Saturated(G, {n}, Reachable(G, {n}))
  BY ReachableSaturated
<1>3. n \in Reachable(G, {n})
  BY <1>1, <1>2 DEF Saturated
<1>4. ASSUME NEW g \in Callees(p[n])
      PROVE  Reachable(G, {g}) \subseteq Reachable(G, {n})
  <2>1. g \in Reachable(G, {n})
    BY <1>1, <1>2, <1>3 DEF Saturated, WellFormed
  <2>2. Saturated(G, {g}, Reachable(G, {n}))
    BY <1>2, <2>1 DEF Saturated
  <2> HIDE DEF G
  <2>3. QED
    BY <1>2, <2>2, ReachableLeast
<1>5. QED
  BY <1>1, <1>2, <1>3, <1>4

\* The row of what a function reaches has its own and those of its callees.
LEMMA ReachableRowGrows ==
    ASSUME NEW p, WellFormed(p), NEW n \in DOMAIN p
    PROVE  /\ RowIn(DeclaredRow(p[n]), ReachableRow(p, n))
           /\ RowIn(OwnRow(p[n]), ReachableRow(p, n))
           /\ \A g \in Callees(p[n]) :
                 RowIn(ReachableRow(p, g), ReachableRow(p, n))
<1>1. /\ n \in Reachable(CallGraphOf(p), {n})
      /\ \A g \in Callees(p[n]) :
            Reachable(CallGraphOf(p), {g}) \subseteq Reachable(CallGraphOf(p), {n})
  BY ReachedStep
<1> DEFINE reached(m) == Reachable(CallGraphOf(p), {m})
<1>2. \A m : ReachableRow(p, m).caps =
                UNION {DeclaredRow(p[k]).caps \cup OwnRow(p[k]).caps : k \in reached(m)}
  BY DEF ReachableRow, Row
<1>3. \A m : ReachableRow(p, m).errors =
                UNION {DeclaredRow(p[k]).errors \cup OwnRow(p[k]).errors : k \in reached(m)}
  BY DEF ReachableRow, Row
<1> HIDE DEF reached
<1>4. n \in reached(n) /\ \A g \in Callees(p[n]) : reached(g) \subseteq reached(n)
  BY <1>1 DEF reached
<1>5. QED
  BY <1>2, <1>3, <1>4 DEF RowIn

\* Rows that contain what a function declares, exercises and calls contain
\* what it reaches.
LEMMA ReachableRowLeast ==
    ASSUME NEW p, WellFormed(p), NEW R,
           \A m \in DOMAIN p :
              /\ RowIn(DeclaredRow(p[m]), R[m])
              /\ RowIn(OwnRow(p[m]), R[m])
              /\ \A g \in Callees(p[m]) : RowIn(R[g], R[m]),
           NEW n \in DOMAIN p
    PROVE  RowIn(ReachableRow(p, n), R[n])
<1> DEFINE G == CallGraphOf(p)
           S == {m \in DOMAIN p : RowIn(R[m], R[n])}
<1>1. DOMAIN G = DOMAIN p /\ \A m \in DOMAIN p : G[m] = Callees(p[m])
  BY DEF CallGraphOf
<1>2. S \in SUBSET DOMAIN G
  BY <1>1
<1>3. Saturated(G, {n}, S)
  BY <1>1 DEF Saturated, RowIn, WellFormed
<1>4. Reachable(G, {n}) \subseteq S
  <2> HIDE DEF G, S
  <2>1. QED
    BY <1>2, <1>3, ReachableLeast
<1>5. \A m \in Reachable(G, {n}) :
         RowIn(DeclaredRow(p[m]), R[n]) /\ RowIn(OwnRow(p[m]), R[n])
  BY <1>4 DEF RowIn
<1>6. QED
  BY <1>5 DEF RowIn, ReachableRow, Row

\* Rows between the declared and the reachable ones.
RowsBetween(p, R) ==
    /\ p \in Programs
    /\ R = [n \in DOMAIN p |-> Row(R[n].caps, R[n].errors)]
    /\ \A n \in DOMAIN p :
          RowIn(DeclaredRow(p[n]), R[n]) /\ RowIn(R[n], ReachableRow(p, n))

\* The invariant of the inference: a pass stays between these bounds, and
\* when it is over nothing is left to add.
RowsInv ==
    /\ RowsBetween(prog, rows)
    /\ checker = "server" /\ phase # "infer" => rows = PropagatedRows(prog, rows)

\* The rows begin as declared.
LEMMA RowsInit == Init => RowsInv
<1> SUFFICES ASSUME Init PROVE RowsInv
  OBVIOUS
<1>1. prog \in Programs /\ WellFormed(prog)
  BY ProgramsWellFormed DEF Init
<1>2. rows = [n \in DOMAIN prog |-> Row(rows[n].caps, rows[n].errors)]
  BY DEF Init, DeclaredRows, DeclaredRow, Row
<1>3. ASSUME NEW n \in DOMAIN prog
      PROVE  /\ RowIn(DeclaredRow(prog[n]), rows[n])
             /\ RowIn(rows[n], ReachableRow(prog, n))
  <2>1. rows[n] = DeclaredRow(prog[n])
    BY DEF Init, DeclaredRows
  <2>2. QED
    BY <1>1, <2>1, ReachableRowGrows DEF RowIn
<1>4. checker = "server" => phase = "infer"
  BY DEF Init
<1>5. QED
  BY <1>1, <1>2, <1>3, <1>4 DEF RowsInv, RowsBetween

\* A pass of propagation keeps the rows between their bounds.
LEMMA RowsStep == RowsInv /\ [Next]_vars => RowsInv'
<1> SUFFICES ASSUME RowsInv, [Next]_vars PROVE RowsInv'
  OBVIOUS
<1>1. CASE Propagate
  <2>1. prog' = prog /\ rows' = PropagatedRows(prog, rows) /\ checker' = checker
    BY <1>1 DEF Propagate
  <2>2. WellFormed(prog)
    BY ProgramsWellFormed DEF RowsInv, RowsBetween
  <2>3. rows' = [n \in DOMAIN prog |-> Row(rows'[n].caps, rows'[n].errors)]
    BY <2>1 DEF PropagatedRows, RowUnion, Row
  <2>4. ASSUME NEW n \in DOMAIN prog
        PROVE  /\ RowIn(DeclaredRow(prog[n]), rows'[n])
               /\ RowIn(rows'[n], ReachableRow(prog, n))
    <3>1. rows'[n] = RowUnion(rows[n], InferredRow(rows, prog[n]))
      BY <2>1 DEF PropagatedRows
    <3>2. \A g \in Callees(prog[n]) : RowIn(rows[g], ReachableRow(prog, n))
      BY <2>2, ReachableRowGrows DEF RowsInv, RowsBetween, RowIn, WellFormed
    <3>3. RowIn(OwnRow(prog[n]), ReachableRow(prog, n))
      BY <2>2, ReachableRowGrows
    <3>4. RowIn(InferredRow(rows, prog[n]), ReachableRow(prog, n))
      BY <3>2, <3>3 DEF InferredRow, RowUnion, Row, RowIn
    <3>5. QED
      BY <3>1, <3>4 DEF RowsInv, RowsBetween, RowUnion, Row, RowIn
  <2>5. phase' # "infer" => rows' = PropagatedRows(prog', rows')
    BY <1>1, <2>1 DEF Propagate
  <2>6. QED
    <3>1. RowsBetween(prog', rows')
      BY <2>1, <2>3, <2>4 DEF RowsInv, RowsBetween
    <3>2. QED
      BY <3>1, <2>5 DEF RowsInv
<1>2. CASE UNCHANGED <<prog, checker, rows>> /\ (phase = "infer" => phase' = "infer")
  <2>1. RowsBetween(prog', rows')
    BY <1>2 DEF RowsInv
  <2>2. PropagatedRows(prog', rows') = PropagatedRows(prog, rows)
    BY <1>2
  <2>3. QED
    BY <1>2, <2>1, <2>2 DEF RowsInv
<1>3. CASE Check
  BY <1>2, <1>3 DEF Check
<1>4. CASE \E granted \in SUBSET Caps : Load(granted)
  BY <1>2, <1>4 DEF Load
<1>5. CASE Skip \/ Perform \/ Call \/ Raise \/ Return
  BY <1>2, <1>5 DEF Skip, Perform, AtStep, Call, Raise, Return
<1>6. CASE UNCHANGED vars
  BY <1>2, <1>6 DEF vars
<1>7. QED
  BY <1>1, <1>3, <1>4, <1>5, <1>6 DEF Next

\* For every program: once the passes have ended, the row of a function is
\* exactly what it and the functions it reaches declare and exercise.
THEOREM RowsExact == Spec => []PropagationExact
<1>1. RowsInv => PropagationExact
  <2> SUFFICES ASSUME RowsInv, checker = "server", phase # "infer",
                      NEW n \in DOMAIN prog
               PROVE  rows[n] = ReachableRow(prog, n)
    BY DEF PropagationExact
  <2>1. WellFormed(prog)
    BY ProgramsWellFormed DEF RowsInv, RowsBetween
  <2>2. \A m \in DOMAIN prog :
           rows[m] = RowUnion(rows[m], InferredRow(rows, prog[m]))
    BY DEF RowsInv, RowsBetween, PropagatedRows
  <2>3. \A m \in DOMAIN prog :
           /\ RowIn(DeclaredRow(prog[m]), rows[m])
           /\ RowIn(OwnRow(prog[m]), rows[m])
           /\ \A g \in Callees(prog[m]) : RowIn(rows[g], rows[m])
    <3>1. ASSUME NEW m \in DOMAIN prog
          PROVE  RowIn(InferredRow(rows, prog[m]), rows[m])
      <4>1. \A a, b : /\ RowUnion(a, b).caps = a.caps \cup b.caps
                      /\ RowUnion(a, b).errors = a.errors \cup b.errors
        BY DEF RowUnion, Row
      <4>2. QED
        BY <2>2, <4>1 DEF RowIn
    <3>2. ASSUME NEW m \in DOMAIN prog
          PROVE  /\ RowIn(OwnRow(prog[m]), rows[m])
                 /\ \A g \in Callees(prog[m]) : RowIn(rows[g], rows[m])
      BY <3>1 DEF InferredRow, RowUnion, Row, RowIn
    <3>3. QED
      BY <3>2 DEF RowsInv, RowsBetween
  <2>4. RowIn(ReachableRow(prog, n), rows[n])
    BY <2>1, <2>3, ReachableRowLeast
  <2>5. RowIn(rows[n], ReachableRow(prog, n))
    BY DEF RowsInv, RowsBetween
  <2>6. rows[n] = Row(rows[n].caps, rows[n].errors)
    BY DEF RowsInv, RowsBetween
  <2>7. QED
    BY <2>4, <2>5, <2>6 DEF RowIn, ReachableRow, Row
<1>2. QED
  BY <1>1, RowsInit, RowsStep, PTL DEF Spec
-----------------------------------------------------------------------------
(***************************************************************************)
(* Authority: closures of capabilities, and what acceptance says of a call *)
(* and of a perform.                                                       *)
(***************************************************************************)

\* Narrowing what has been narrowed is narrowing.
LEMMA AuthorizedClosed ==
    ASSUME NEW A, NEW B, A \subseteq Caps, A \subseteq Authorized(B)
    PROVE  Authorized(A) \subseteq Authorized(B)
<1>1. Saturated(Narrowing, B, Authorized(B)) /\ Authorized(B) \subseteq DOMAIN Narrowing
  BY ReachableSaturated DEF Authorized
<1>2. Saturated(Narrowing, A, Authorized(B))
  BY <1>1 DEF Saturated
<1>3. QED
  BY <1>1, <1>2, ReachableLeast DEF Authorized

\* A capability authorizes itself.
LEMMA AuthorizedSelf ==
    ASSUME NEW A, A \subseteq Caps
    PROVE  A \subseteq Authorized(A)
<1>1. DOMAIN Narrowing = Caps
  BY DEF Narrowing
<1>2. Saturated(Narrowing, A, Reachable(Narrowing, A))
  BY ReachableSaturated
<1>3. QED
  BY <1>1, <1>2 DEF Saturated, Authorized

\* Declared rows have capabilities and no errors.
LEMMA DeclaredCaps ==
    ASSUME NEW f
    PROVE  DeclaredRow(f).caps \subseteq Caps /\ DeclaredRow(f).errors = {}
BY DEF DeclaredRow, Row

\* What an accepted world of rows says of the calls in it.
LEMMA CalleeCovered ==
    ASSUME NEW p, NEW R, RowsBetween(p, R), Accepted(p, R),
           NEW n \in DOMAIN p, NEW g \in Callees(p[n])
    PROVE  /\ Authorized(DeclaredRow(p[g]).caps)
                  \subseteq Authorized(DeclaredRow(p[n]).caps)
           /\ ~ p[n].open => R[g].errors = {}
<1>1. g \in DOMAIN p
  BY ProgramsWellFormed DEF RowsBetween, WellFormed
<1>2. RowIn(R[g], InferredRow(R, p[n]))
  BY DEF InferredRow, RowUnion, Row, RowIn
<1>3. /\ InferredRow(R, p[n]).caps \subseteq Authorized(DeclaredRow(p[n]).caps)
      /\ ~ p[n].open => InferredRow(R, p[n]).errors = {}
  BY DeclaredCaps DEF Accepted, Subsumed
<1>4. DeclaredRow(p[g]).caps \subseteq R[g].caps
  BY <1>1 DEF RowsBetween, RowIn
<1>5. DeclaredRow(p[g]).caps \subseteq Authorized(DeclaredRow(p[n]).caps)
  BY <1>2, <1>3, <1>4 DEF RowIn
<1>6. QED
  BY <1>2, <1>3, <1>5, DeclaredCaps, AuthorizedClosed DEF RowIn

\* What an accepted function performs is well typed and declared.
LEMMA PerformCovered ==
    ASSUME NEW p, NEW R, Accepted(p, R), NEW n \in DOMAIN p,
           NEW i \in Steps(p[n], "perform")
    PROVE  /\ PerformFits(p[n], i)
           /\ TypeOf(p[n], p[n].body[i].cap) \in OwnRow(p[n]).caps
           /\ TypeOf(p[n], p[n].body[i].cap)
                  \in Authorized(DeclaredRow(p[n]).caps)
<1>1. PerformFits(p[n], i)
  BY DEF Accepted, WellTyped, StepFits, Steps
<1>2. TypeOf(p[n], p[n].body[i].cap) \in OwnRow(p[n]).caps
  BY <1>1 DEF PerformFits, OwnRow, Row
<1>3. OwnRow(p[n]).caps \subseteq InferredRow(R, p[n]).caps
  BY DEF InferredRow, RowUnion, Row
<1>4. QED
  BY <1>1, <1>2, <1>3 DEF Accepted, Subsumed

\* In a settled world a row contains what its function exercises and calls.
LEMMA SettledRows ==
    ASSUME NEW p, NEW R, R = PropagatedRows(p, R), NEW n \in DOMAIN p
    PROVE  /\ RowIn(OwnRow(p[n]), R[n])
           /\ \A g \in Callees(p[n]) : RowIn(R[g], R[n])
<1>1. R[n] = RowUnion(R[n], InferredRow(R, p[n]))
  BY DEF PropagatedRows
<1>2. \A a, b : /\ RowUnion(a, b).caps = a.caps \cup b.caps
                /\ RowUnion(a, b).errors = a.errors \cup b.errors
  BY DEF RowUnion, Row
<1>3. RowIn(InferredRow(R, p[n]), R[n])
  BY <1>1, <1>2 DEF RowIn
<1>4. QED
  BY <1>3 DEF InferredRow, RowUnion, Row, RowIn
-----------------------------------------------------------------------------
(***************************************************************************)
(* The stack.                                                              *)
(***************************************************************************)

Values == Caps \cup {Plain}
Frames(p) == [fn : DOMAIN p, pc : Nat, env : Seq(Values)]

\* A frame holds the values the types of its function promise.
Fits(p, frame) ==
    LET f == p[frame.fn]
    IN  /\ frame.pc \in 1 .. Len(f.body) + 1
        /\ Len(frame.env) = Len(f.params) + frame.pc - 1
        /\ \A k \in 1 .. Len(frame.env) : frame.env[k] = TypeOf(f, k)

\* A frame's current step.
At(p, frame, what) == frame.pc \in Steps(p[frame.fn], what)

\* m declares whatever n may exercise, and under the server's check its row
\* says so.
Covers(p, R, c, m, n) ==
    /\ Authorized(DeclaredRow(p[n]).caps) \subseteq Authorized(DeclaredRow(p[m]).caps)
    /\ c = "server" => RowIn(R[n], R[m])

StackOK(p, R, c, s) ==
    /\ s \in Seq(Frames(p))
    /\ \A k \in 1 .. Len(s) : Fits(p, s[k])
    /\ \A k \in 1 .. Len(s) - 1 :
          /\ At(p, s[k], "call")
          /\ s[k + 1].fn = p[s[k].fn].body[s[k].pc].fn
    /\ \A i, j \in 1 .. Len(s) : i <= j => Covers(p, R, c, s[i].fn, s[j].fn)
    /\ s # <<>> => s[1].fn = Entry

\* Programs are lists of steps, whatever else they are.
LEMMA ProgramShape ==
    ASSUME NEW p \in Programs, NEW n \in DOMAIN p
    PROVE  /\ p[n].params \in Seq(Values)
           /\ p[n].types \in Seq(Values)
           /\ Len(p[n].body) \in Nat
           /\ DOMAIN p[n].body = 1 .. Len(p[n].body)
           /\ Len(p[n].types) = Len(p[n].body)
BY ProgramsAssumption DEF Values, Program

\* Arguments of calls are variables, by number.
LEMMA ProgramArguments ==
    ASSUME NEW p \in Programs, NEW n \in DOMAIN p, NEW i \in Steps(p[n], "call")
    PROVE  p[n].body[i].args \in Seq(Nat)
BY ProgramsAssumption DEF Program

\* A variable in scope has the value its type promises.
LEMMA ValueFits ==
    ASSUME NEW p \in Programs, NEW frame \in Frames(p), Fits(p, frame),
           NEW k \in Scope(p[frame.fn], frame.pc)
    PROVE  ValueIn(frame, k) = TypeOf(p[frame.fn], k) /\ ValueIn(frame, k) \in Values
<1>1. frame.fn \in DOMAIN p /\ frame.pc \in Nat
  BY DEF Frames
<1>2. Len(p[frame.fn].params) \in Nat
  BY <1>1, ProgramShape
<1>3. CASE k = 0
  BY <1>3 DEF ValueIn, TypeOf, Values
<1>4. CASE k # 0
  <2>1. k \in 1 .. Len(frame.env)
    BY <1>1, <1>2, <1>4 DEF Scope, Fits
  <2>2. QED
    BY <1>4, <2>1 DEF ValueIn, Fits, Frames
<1>5. QED
  BY <1>3, <1>4

\* A frame that binds a value of the synthesized type still fits.
LEMMA BoundFits ==
    ASSUME prog \in Programs, NEW frame \in Frames(prog), Fits(prog, frame),
           frame.pc \in DOMAIN prog[frame.fn].body, NEW value \in Values,
           prog[frame.fn].types[frame.pc] =
               IF prog[frame.fn].body[frame.pc].arm THEN Plain ELSE value
    PROVE  /\ Bound(frame, value) \in Frames(prog)
           /\ Bound(frame, value).fn = frame.fn
           /\ Fits(prog, Bound(frame, value))
<1> DEFINE f == prog[frame.fn]
           v == IF f.body[frame.pc].arm THEN Plain ELSE value
           new == Bound(frame, value)
<1>1. frame.fn \in DOMAIN prog /\ frame.pc \in Nat /\ frame.env \in Seq(Values)
  BY DEF Frames
<1>2. /\ Len(f.params) \in Nat
      /\ DOMAIN f.body = 1 .. Len(f.body) /\ Len(f.body) \in Nat
  BY <1>1, ProgramShape
<1>3. v \in Values
  BY DEF Values
<1>4. new = [frame EXCEPT !.pc = frame.pc + 1, !.env = Append(frame.env, v)]
  BY DEF Bound
<1>5. /\ new.fn = frame.fn /\ new.pc = frame.pc + 1
      /\ new.env = Append(frame.env, v)
  BY <1>4 DEF Frames
<1>6. /\ Append(frame.env, v) \in Seq(Values)
      /\ Len(Append(frame.env, v)) = Len(frame.env) + 1
      /\ Len(frame.env) \in Nat
      /\ frame.pc + 1 \in Nat
      /\ \A k \in 1 .. Len(frame.env) : Append(frame.env, v)[k] = frame.env[k]
      /\ Append(frame.env, v)[Len(frame.env) + 1] = v
  <2> HIDE DEF v
  <2>1. QED
    BY <1>1, <1>3
<1> HIDE DEF v, new
<1>7. new \in Frames(prog)
  BY <1>1, <1>4, <1>6 DEF Frames
<1>8. Len(frame.env) = Len(f.params) + frame.pc - 1
  BY DEF Fits
<1>9. /\ new.pc \in 1 .. Len(f.body) + 1
      /\ Len(new.env) = Len(f.params) + new.pc - 1
  <2> HIDE DEF f
  <2>1. frame.pc \in 1 .. Len(f.body)
    BY <1>2 DEF f
  <2>2. new.pc \in 1 .. Len(f.body) + 1
    BY <1>1, <1>2, <1>5, <2>1
  <2>3. Len(new.env) = Len(frame.env) + 1
    BY <1>5, <1>6
  <2>4. Len(f.params) + new.pc - 1 = Len(f.params) + frame.pc
    BY <1>1, <1>2, <1>5
  <2>5. Len(frame.env) + 1 = Len(f.params) + frame.pc
    <3>1. Len(f.params) \in Nat /\ frame.pc \in Nat
      BY <1>1, <1>2
    <3>2. QED
      BY <1>8, <3>1
  <2>6. QED
    BY <2>2, <2>3, <2>4, <2>5
<1>10. ASSUME NEW k \in 1 .. Len(new.env)
       PROVE  new.env[k] = TypeOf(f, k)
  <2>1. CASE k \in 1 .. Len(frame.env)
    BY <1>5, <1>6, <2>1 DEF Fits
  <2>2. CASE k = Len(frame.env) + 1
    <3>1. k # 0 /\ ~ (k <= Len(f.params)) /\ k - Len(f.params) = frame.pc
      <4> HIDE DEF f
      <4>1. frame.pc >= 1
        BY <1>2 DEF f
      <4>2. QED
        BY <1>1, <1>2, <1>8, <2>2, <4>1
    <3>2. TypeOf(f, k) = f.types[frame.pc]
      BY <3>1 DEF TypeOf
    <3>3. QED
      BY <1>5, <1>6, <2>2, <3>2 DEF v
  <2>3. QED
    BY <1>5, <1>6, <2>1, <2>2
<1>11. QED
  BY <1>5, <1>7, <1>9, <1>10 DEF Fits, new

\* The top frame goes on in its function.
LEMMA ReplaceTop ==
    ASSUME NEW p, NEW R, NEW c, NEW s, StackOK(p, R, c, s), s # <<>>,
           NEW t \in Frames(p), t.fn = s[Len(s)].fn, Fits(p, t)
    PROVE  StackOK(p, R, c, [s EXCEPT ![Len(s)] = t])
<1> DEFINE new == [s EXCEPT ![Len(s)] = t]
<1>1. s \in Seq(Frames(p)) /\ Len(s) \in Nat \ {0} /\ DOMAIN s = 1 .. Len(s)
  BY DEF StackOK
<1>9. 1 \in 1 .. Len(s)
  BY <1>1
<1>2. /\ new \in Seq(Frames(p)) /\ Len(new) = Len(s)
      /\ \A k \in 1 .. Len(s) : new[k] = IF k = Len(s) THEN t ELSE s[k]
  BY <1>1
<1>3. \A k \in 1 .. Len(s) : new[k].fn = s[k].fn
  BY <1>1, <1>2
<1> HIDE DEF new
<1>4. \A k \in 1 .. Len(new) : Fits(p, new[k])
  BY <1>1, <1>2 DEF StackOK
<1>5. \A k \in 1 .. Len(new) - 1 :
          /\ At(p, new[k], "call")
          /\ new[k + 1].fn = p[new[k].fn].body[new[k].pc].fn
  <2> TAKE k \in 1 .. Len(new) - 1
  <2>1. k \in 1 .. Len(s) - 1 /\ k + 1 \in 1 .. Len(s) /\ k \in 1 .. Len(s) /\ k # Len(s)
    <3> DEFINE n == Len(s)
    <3>1. n \in Nat /\ k \in 1 .. n - 1
      BY <1>1, <1>2
    <3> HIDE DEF n
    <3>2. k \in 1 .. n - 1 /\ k + 1 \in 1 .. n /\ k \in 1 .. n /\ k # n
      BY <3>1
    <3>3. QED
      BY <3>2 DEF n
  <2>2. new[k] = s[k] /\ new[k + 1].fn = s[k + 1].fn
    BY <1>2, <1>3, <2>1
  <2>3. QED
    BY <2>1, <2>2 DEF StackOK
<1>6. \A i, j \in 1 .. Len(new) :
          i <= j => Covers(p, R, c, new[i].fn, new[j].fn)
  BY <1>2, <1>3 DEF StackOK
<1>7. new[1].fn = Entry
  BY <1>3, <1>9 DEF StackOK
<1>8. QED
  BY <1>2, <1>4, <1>5, <1>6, <1>7 DEF StackOK, new

\* A frame that covers one that covers a third covers the third.
LEMMA CoversTransitive ==
    ASSUME NEW p, NEW R, NEW c, NEW a, NEW b, NEW d,
           Covers(p, R, c, a, b), Covers(p, R, c, b, d)
    PROVE  Covers(p, R, c, a, d)
BY DEF Covers, RowIn

\* A sequence that is not empty has a first element.
LEMMA NonEmptyLength ==
    ASSUME NEW S, NEW s \in Seq(S), s # <<>>
    PROVE  Len(s) \in Nat /\ Len(s) >= 1 /\ 1 \in 1 .. Len(s)
OBVIOUS

\* The elements of a sequence with one more.
LEMMA Appended ==
    ASSUME NEW S, NEW s \in Seq(S), NEW t \in S
    PROVE  /\ Append(s, t) \in Seq(S) /\ Len(Append(s, t)) = Len(s) + 1
           /\ \A k \in 1 .. Len(s) : Append(s, t)[k] = s[k]
           /\ Append(s, t)[Len(s) + 1] = t
OBVIOUS

\* A call adds the frame of a function that the caller covers.
LEMMA PushFrame ==
    ASSUME NEW p, NEW R, NEW c, NEW s, StackOK(p, R, c, s), s # <<>>,
           At(p, s[Len(s)], "call"),
           NEW t \in Frames(p), Fits(p, t),
           t.fn = p[s[Len(s)].fn].body[s[Len(s)].pc].fn,
           Covers(p, R, c, s[Len(s)].fn, t.fn)
    PROVE  StackOK(p, R, c, Append(s, t))
<1> DEFINE new == Append(s, t)
           n == Len(s)
<1>1. s \in Seq(Frames(p))
  BY DEF StackOK
<1>2. n \in Nat /\ n >= 1 /\ 1 \in 1 .. n
  BY <1>1, NonEmptyLength
<1>3. new \in Seq(Frames(p))
  BY <1>1, Appended
<1>4. Len(new) = n + 1
  BY <1>1, Appended
<1>5. \A k \in 1 .. n : new[k] = s[k]
  BY <1>1, Appended
<1>6. new[n + 1] = t
  BY <1>1, Appended
<1>7. Covers(p, R, c, t.fn, t.fn)
  BY DEF Covers, RowIn
<1>8. /\ \A k \in 1 .. n : Fits(p, s[k])
      /\ \A k \in 1 .. n - 1 :
            /\ At(p, s[k], "call")
            /\ s[k + 1].fn = p[s[k].fn].body[s[k].pc].fn
      /\ \A i, j \in 1 .. n : i <= j => Covers(p, R, c, s[i].fn, s[j].fn)
      /\ s[1].fn = Entry
  BY DEF StackOK
<1>9. At(p, s[n], "call") /\ t.fn = p[s[n].fn].body[s[n].pc].fn
  OBVIOUS
<1>10. Covers(p, R, c, s[n].fn, t.fn)
  OBVIOUS
<1> HIDE DEF new, n
<1>11. \A k \in 1 .. n + 1 : k \in 1 .. n \/ k = n + 1
  BY <1>2
<1>12. \A k \in 1 .. n : (k \in 1 .. n - 1 /\ k + 1 \in 1 .. n) \/ k = n
  BY <1>2
<1>13. \A k \in 1 .. Len(new) : Fits(p, new[k])
  BY <1>4, <1>5, <1>6, <1>8, <1>11
<1>14. \A k \in 1 .. n :
          /\ At(p, new[k], "call")
          /\ new[k + 1].fn = p[new[k].fn].body[new[k].pc].fn
  <2> TAKE k \in 1 .. n
  <2>1. CASE k = n
    BY <1>5, <1>6, <1>9, <2>1
  <2>2. CASE k \in 1 .. n - 1 /\ k + 1 \in 1 .. n
    BY <1>5, <1>8, <2>2
  <2>3. QED
    BY <1>12, <2>1, <2>2
<1>15. \A i, j \in 1 .. n + 1 :
          i <= j => Covers(p, R, c, new[i].fn, new[j].fn)
  <2> SUFFICES ASSUME NEW i \in 1 .. n + 1, NEW j \in 1 .. n + 1, i <= j
               PROVE  Covers(p, R, c, new[i].fn, new[j].fn)
    OBVIOUS
  <2>1. \/ i \in 1 .. n /\ j \in 1 .. n
        \/ i \in 1 .. n /\ i <= n /\ n \in 1 .. n /\ j = n + 1
        \/ i = n + 1 /\ j = n + 1
    BY <1>2
  <2>2. CASE i \in 1 .. n /\ j \in 1 .. n
    BY <1>5, <1>8, <2>2
  <2>3. CASE i \in 1 .. n /\ i <= n /\ n \in 1 .. n /\ j = n + 1
    <3>1. Covers(p, R, c, s[i].fn, s[n].fn)
      BY <1>8, <2>3
    <3>2. QED
      BY <1>5, <1>6, <1>10, <2>3, <3>1, CoversTransitive
  <2>4. CASE i = n + 1 /\ j = n + 1
    BY <1>6, <1>7, <2>4
  <2>5. QED
    BY <2>1, <2>2, <2>3, <2>4
<1>16. new[1].fn = Entry
  BY <1>2, <1>5, <1>8
<1>17. Len(new) - 1 = n
  BY <1>2, <1>4
<1>18. QED
  BY <1>3, <1>4, <1>13, <1>14, <1>15, <1>16, <1>17 DEF StackOK, new

\* A return drops the top frame, and the caller goes on.
LEMMA PopFrame ==
    ASSUME NEW p, NEW R, NEW c, NEW s, StackOK(p, R, c, s), Len(s) > 1,
           NEW t \in Frames(p), t.fn = s[Len(s) - 1].fn, Fits(p, t)
    PROVE  StackOK(p, R, c, [k \in 1 .. Len(s) - 1 |->
                                IF k = Len(s) - 1 THEN t ELSE s[k]])
<1> DEFINE below == [k \in 1 .. Len(s) - 1 |-> s[k]]
<1>1. s \in Seq(Frames(p)) /\ Len(s) \in Nat
  BY DEF StackOK
<1>2. below \in Seq(Frames(p)) /\ Len(below) = Len(s) - 1
  BY <1>1
<1>3. \A k \in 1 .. Len(s) - 1 : below[k] = s[k]
  OBVIOUS
<1> HIDE DEF below
<1>4. StackOK(p, R, c, below)
  <2>1. \A k \in 1 .. Len(below) : Fits(p, below[k])
    BY <1>1, <1>2, <1>3 DEF StackOK
  <2>2. \A k \in 1 .. Len(below) - 1 :
            /\ At(p, below[k], "call")
            /\ below[k + 1].fn = p[below[k].fn].body[below[k].pc].fn
    <3> TAKE k \in 1 .. Len(below) - 1
    <3>1. k \in 1 .. Len(s) - 1 /\ k + 1 \in 1 .. Len(s) - 1
      BY <1>1, <1>2
    <3>2. QED
      BY <1>3, <3>1 DEF StackOK
  <2>3. \A i, j \in 1 .. Len(below) :
            i <= j => Covers(p, R, c, below[i].fn, below[j].fn)
    <3> TAKE i, j \in 1 .. Len(below)
    <3>1. i \in 1 .. Len(s) /\ j \in 1 .. Len(s)
      BY <1>1, <1>2
    <3>2. QED
      BY <1>2, <1>3, <3>1 DEF StackOK
  <2>4. below[1].fn = Entry
    BY <1>1, <1>3 DEF StackOK
  <2>5. QED
    BY <1>2, <2>1, <2>2, <2>3, <2>4 DEF StackOK
<1>5. below # <<>> /\ below[Len(below)].fn = t.fn
  BY <1>1, <1>2, <1>3
<1>6. StackOK(p, R, c, [below EXCEPT ![Len(below)] = t])
  BY <1>4, <1>5, ReplaceTop
<1>7. [below EXCEPT ![Len(below)] = t]
          = [k \in 1 .. Len(s) - 1 |-> IF k = Len(s) - 1 THEN t ELSE s[k]]
  BY <1>2, <1>3
<1>8. QED
  BY <1>6, <1>7

\* No frames, nothing to hold.
LEMMA EmptyStack ==
    ASSUME NEW p, NEW R, NEW c
    PROVE  StackOK(p, R, c, <<>>)
BY DEF StackOK

\* Calls stay under what their caller declares and, once the passes of the
\* server are over, under the caller's row.
LEMMA CallCovers ==
    ASSUME NEW p, NEW R, NEW c, RowsBetween(p, R), Accepted(p, R),
           c = "server" => R = PropagatedRows(p, R),
           NEW n \in DOMAIN p, NEW g \in Callees(p[n])
    PROVE  Covers(p, R, c, n, g)
<1>1. Authorized(DeclaredRow(p[g]).caps) \subseteq Authorized(DeclaredRow(p[n]).caps)
  BY CalleeCovered
<1>2. c = "server" => RowIn(R[g], R[n])
  BY SettledRows
<1>3. QED
  BY <1>1, <1>2 DEF Covers
-----------------------------------------------------------------------------
(***************************************************************************)
(* The run.                                                                *)
(***************************************************************************)

Before == {"infer", "check", "rejected"}
Started == {"run", "uncaught", "returned"}

EffectOK(p, R, c, e) ==
    /\ Entry \in e.under
    /\ \A n \in e.under :
          /\ e.cap \in Authorized(DeclaredRow(p[n]).caps)
          /\ c = "server" => e.cap \in R[n].caps

\* What is true of a run: nothing happens before the check has accepted the
\* program and the grant covers what its entry declares.
RunInv ==
    /\ phase \in Before \cup {"load", "ungranted"} \cup Started
    /\ phase \notin Before => Accepted(prog, rows)
    /\ phase \notin Started => stack = <<>> /\ effects = {}
    /\ phase \in {"run", "uncaught"} => stack # <<>>
    /\ phase = "uncaught" => At(prog, Top, "raise")
    /\ grant \subseteq Caps
    /\ phase \in Started => DeclaredRow(prog[Entry]).caps \subseteq grant
    /\ StackOK(prog, rows, checker, stack)
    /\ \A e \in effects : EffectOK(prog, rows, checker, e)

Inv == RowsInv /\ RunInv

\* The invariant holds before the check.
LEMMA InvInit == Init => Inv
<1> SUFFICES ASSUME Init PROVE Inv
  OBVIOUS
<1>1. phase \in {"infer", "check"} /\ stack = <<>> /\ effects = {} /\ grant = {}
  BY DEF Init
<1>2. RunInv
  BY <1>1, EmptyStack DEF RunInv, Before, Started
<1>3. QED
  BY <1>2, RowsInit DEF Inv

\* What a running program knows of its last frame.
LEMMA TopFrame ==
    ASSUME Inv, phase \in {"run", "uncaught"}
    PROVE  /\ Len(stack) \in Nat \ {0}
           /\ prog \in Programs
           /\ Top \in Frames(prog) /\ Fits(prog, Top)
           /\ Top.fn \in DOMAIN prog /\ Top.pc \in Nat
           /\ Accepted(prog, rows) /\ RowsBetween(prog, rows)
           /\ checker = "server" => rows = PropagatedRows(prog, rows)
           /\ stack # <<>>
           /\ StackOK(prog, rows, checker, stack)
<1>1. /\ stack # <<>> /\ StackOK(prog, rows, checker, stack)
      /\ Accepted(prog, rows) /\ RowsBetween(prog, rows)
      /\ checker = "server" => rows = PropagatedRows(prog, rows)
  BY DEF Inv, RunInv, RowsInv, Before
<1>2. stack \in Seq(Frames(prog)) /\ Len(stack) \in Nat \ {0}
  BY <1>1 DEF StackOK
<1>3. Len(stack) \in 1 .. Len(stack)
  BY <1>2
<1>4. Top \in Frames(prog) /\ Fits(prog, Top)
  BY <1>1, <1>2, <1>3 DEF StackOK, Top
<1>5. Top.fn \in DOMAIN prog /\ Top.pc \in Nat
  BY <1>4 DEF Frames
<1>6. QED
  BY <1>1, <1>2, <1>4, <1>5 DEF RowsBetween

\* Load keeps the invariant.
LEMMA LoadStep ==
    ASSUME Inv, NEW granted \in SUBSET Caps, Load(granted)
    PROVE  RunInv'
<1> DEFINE params == prog[Entry].params
           ok == Granted(params, granted)
<1>1. /\ phase = "load" /\ grant' = granted
      /\ phase' = IF ok THEN "run" ELSE "ungranted"
      /\ stack' = IF ok THEN <<Frame(Entry, params)>> ELSE <<>>
      /\ UNCHANGED <<prog, checker, rows, effects>>
  BY DEF Load
<1>2. prog \in Programs /\ Entry \in DOMAIN prog /\ Accepted(prog, rows) /\ effects = {}
  BY <1>1, ProgramsWellFormed DEF Inv, RowsInv, RowsBetween, RunInv, Before, Started
<1>3. CASE ~ ok
  BY <1>1, <1>2, <1>3, EmptyStack DEF RunInv, Before, Started
<1>4. CASE ok
  <2> DEFINE t == Frame(Entry, params)
  <2>1. t.fn = Entry /\ t.pc = 1 /\ t.env = params /\ t = [fn |-> Entry, pc |-> 1, env |-> params]
    BY DEF Frame
  <2>2. /\ params \in Seq(Values) /\ Len(params) \in Nat
        /\ Len(prog[Entry].body) \in Nat
    BY <1>2, ProgramShape
  <2>3. t \in Frames(prog)
    BY <1>2, <2>1, <2>2 DEF Frames
  <2>4. Fits(prog, t)
    BY <2>1, <2>2 DEF Fits, TypeOf
  <2> HIDE DEF t
  <2>5. stack' = <<t>>
    BY <1>1, <1>4 DEF t
  <2>6. Covers(prog, rows, checker, Entry, Entry)
    BY DEF Covers, RowIn
  <2>7. StackOK(prog, rows, checker, <<t>>)
    BY <2>1, <2>3, <2>4, <2>6 DEF StackOK
  <2>8. DeclaredRow(prog[Entry]).caps \subseteq granted
    BY <1>4 DEF Granted, DeclaredRow, Row
  <2>9. phase' = "run" /\ stack' # <<>>
    BY <1>1, <1>4, <2>5
  <2>10. StackOK(prog', rows', checker', stack')
    BY <1>1, <2>5, <2>7
  <2>11. QED
    BY <1>1, <1>2, <2>8, <2>9, <2>10 DEF RunInv, Before, Started
<1>5. QED
  BY <1>3, <1>4

\* A step that binds a value of the synthesized type in the last frame.
LEMMA BindTop ==
    ASSUME Inv, phase = "run", Top.pc \in DOMAIN prog[Top.fn].body,
           NEW value \in Values,
           prog[Top.fn].types[Top.pc] =
               IF prog[Top.fn].body[Top.pc].arm THEN Plain ELSE value
    PROVE  StackOK(prog, rows, checker,
                   [stack EXCEPT ![Len(stack)] = Bound(Top, value)])
<1>1. /\ prog \in Programs /\ Top \in Frames(prog) /\ Fits(prog, Top)
      /\ stack # <<>> /\ StackOK(prog, rows, checker, stack)
  BY TopFrame
<1>2. /\ Bound(Top, value) \in Frames(prog)
      /\ Bound(Top, value).fn = Top.fn
      /\ Fits(prog, Bound(Top, value))
  BY <1>1, BoundFits
<1>3. QED
  BY <1>1, <1>2, ReplaceTop DEF Top

\* The last frame is replaced, the rest stays.
LEMMA SameRun ==
    ASSUME Inv, phase = "run", phase' = "run",
           UNCHANGED <<prog, checker, grant, rows>>,
           StackOK(prog, rows, checker, stack'), stack' # <<>>,
           \A e \in effects' : e \in effects \/ EffectOK(prog, rows, checker, e)
    PROVE  RunInv'
BY DEF Inv, RunInv, Before, Started

\* A sequence with an element replaced is not empty.
LEMMA ReplacedNotEmpty ==
    ASSUME NEW S, NEW s \in Seq(S), s # <<>>, NEW i, NEW t
    PROVE  [s EXCEPT ![i] = t] # <<>>
<1>1. 1 \in DOMAIN s
  OBVIOUS
<1>2. 1 \in DOMAIN [s EXCEPT ![i] = t]
  BY <1>1
<1>3. QED
  BY <1>2

\* Skip keeps the invariant.
LEMMA SkipStep ==
    ASSUME Inv, Skip
    PROVE  RunInv'
<1>1. /\ phase = "run" /\ Top.pc \in DOMAIN prog[Top.fn].body
      /\ prog[Top.fn].body[Top.pc].arm
      /\ stack' = [stack EXCEPT ![Len(stack)] = Bound(Top, Plain)]
      /\ UNCHANGED <<prog, checker, grant, rows, phase, effects>>
  BY DEF Skip, Step
<1>2. /\ Accepted(prog, rows) /\ Top.fn \in DOMAIN prog /\ stack # <<>>
      /\ Len(stack) \in Nat \ {0} /\ StackOK(prog, rows, checker, stack)
  BY <1>1, TopFrame
<1>3. StepFits(prog, prog[Top.fn], Top.pc)
  BY <1>1, <1>2 DEF Accepted, WellTyped
<1>4. prog[Top.fn].types[Top.pc] = Plain
  BY <1>1, <1>3 DEF StepFits, PerformFits, CallFits
<1>5. StackOK(prog, rows, checker, stack')
  BY <1>1, <1>4, BindTop DEF Values
<1>6. stack' # <<>>
  <2>1. stack \in Seq(Frames(prog))
    BY <1>2 DEF StackOK
  <2>2. QED
    BY <1>1, <1>2, <2>1, ReplacedNotEmpty
<1>7. QED
  BY <1>1, <1>5, <1>6, SameRun

\* Perform keeps the invariant: the effect is covered along the stack.
LEMMA PerformStep ==
    ASSUME Inv, Perform
    PROVE  RunInv'
<1> DEFINE f == prog[Top.fn]
           i == Top.pc
           cap == ValueIn(Top, f.body[i].cap)
<1>1. /\ phase = "run" /\ i \in DOMAIN f.body /\ f.body[i].do = "perform"
      /\ IF cap \in Caps
         THEN /\ effects' = effects \cup {[cap |-> cap, under |-> Running]}
              /\ stack' = [stack EXCEPT ![Len(stack)] =
                              Bound(Top, Ops[cap][f.body[i].op])]
              /\ UNCHANGED phase
         ELSE phase' = "stuck" /\ UNCHANGED <<stack, effects>>
      /\ UNCHANGED <<prog, checker, grant, rows>>
  BY DEF Perform, AtStep, Step
<1>2. /\ Accepted(prog, rows) /\ Top.fn \in DOMAIN prog /\ stack # <<>>
      /\ prog \in Programs /\ Top \in Frames(prog) /\ Fits(prog, Top)
      /\ Len(stack) \in Nat \ {0} /\ StackOK(prog, rows, checker, stack)
      /\ checker = "server" => rows = PropagatedRows(prog, rows)
  BY <1>1, TopFrame
<1>3. i \in Steps(f, "perform")
  BY <1>1 DEF Steps
<1>4. /\ PerformFits(f, i)
      /\ TypeOf(f, f.body[i].cap) \in OwnRow(f).caps
      /\ TypeOf(f, f.body[i].cap) \in Authorized(DeclaredRow(f).caps)
  BY <1>2, <1>3, PerformCovered
<1>5. cap = TypeOf(f, f.body[i].cap) /\ cap \in Caps
  BY <1>2, <1>4, ValueFits DEF PerformFits
<1>6. /\ effects' = effects \cup {[cap |-> cap, under |-> Running]}
      /\ stack' = [stack EXCEPT ![Len(stack)] = Bound(Top, Ops[cap][f.body[i].op])]
      /\ phase' = "run"
  BY <1>1, <1>5
<1>7. Ops[cap][f.body[i].op] \in Values
  <2>1. Ops[cap] \in Seq(Values)
    BY <1>5, CapsAssumption DEF Values
  <2>2. f.body[i].op \in DOMAIN Ops[cap]
    BY <1>4, <1>5 DEF PerformFits
  <2>3. QED
    BY <2>1, <2>2
<1>8. f.types[i] = IF f.body[i].arm THEN Plain ELSE Ops[cap][f.body[i].op]
  BY <1>4, <1>5 DEF PerformFits
<1>9. StackOK(prog, rows, checker, stack')
  BY <1>1, <1>6, <1>7, <1>8, BindTop
<1>10. stack' # <<>>
  <2>1. stack \in Seq(Frames(prog))
    BY <1>2 DEF StackOK
  <2>2. QED
    BY <1>2, <1>6, <2>1, ReplacedNotEmpty
<1> HIDE DEF cap
<1>11. EffectOK(prog, rows, checker, [cap |-> cap, under |-> Running])
  <2>1. Entry \in Running
    <3>1. 1 \in DOMAIN stack /\ stack[1].fn = Entry
      BY <1>2 DEF StackOK
    <3>2. QED
      BY <3>1 DEF Running
  <2>2. ASSUME NEW n \in Running
        PROVE  /\ cap \in Authorized(DeclaredRow(prog[n]).caps)
               /\ checker = "server" => cap \in rows[n].caps
    <3>1. PICK k \in DOMAIN stack : n = stack[k].fn
      BY DEF Running
    <3>2. k \in 1 .. Len(stack) /\ Len(stack) \in 1 .. Len(stack) /\ k <= Len(stack)
      BY <1>2, <3>1 DEF StackOK
    <3>3. Covers(prog, rows, checker, n, Top.fn)
      BY <1>2, <3>1, <3>2 DEF StackOK, Top
    <3>4. checker = "server" => RowIn(OwnRow(f), rows[Top.fn])
      BY <1>2, SettledRows
    <3>5. QED
      BY <1>4, <1>5, <3>3, <3>4 DEF Covers, RowIn
  <2>3. QED
    BY <2>1, <2>2 DEF EffectOK
<1>12. QED
  BY <1>1, <1>6, <1>9, <1>10, <1>11, SameRun

\* A sequence is the function of its elements.
LEMMA SequenceIsFunction ==
    ASSUME NEW S, NEW q \in Seq(S)
    PROVE  q = [j \in DOMAIN q |-> q[j]]
<1>1. q \in [1 .. Len(q) -> S]
  OBVIOUS
<1>2. QED
  BY <1>1

\* Call keeps the invariant.
LEMMA CallStep ==
    ASSUME Inv, Call
    PROVE  RunInv'
<1> DEFINE f == prog[Top.fn]
           i == Top.pc
           g == f.body[i].fn
           args == [j \in DOMAIN f.body[i].args |-> ValueIn(Top, f.body[i].args[j])]
           t == Frame(g, args)
<1>1. /\ phase = "run" /\ i \in DOMAIN f.body /\ f.body[i].do = "call"
      /\ stack' = Append(stack, t)
      /\ UNCHANGED <<prog, checker, grant, rows, phase, effects>>
  BY DEF Call, AtStep, Step
<1>2. /\ Accepted(prog, rows) /\ Top.fn \in DOMAIN prog /\ stack # <<>>
      /\ prog \in Programs /\ Top \in Frames(prog) /\ Fits(prog, Top)
      /\ StackOK(prog, rows, checker, stack) /\ RowsBetween(prog, rows)
      /\ checker = "server" => rows = PropagatedRows(prog, rows)
  BY <1>1, TopFrame
<1>3. At(prog, Top, "call") /\ g \in Callees(f)
  BY <1>1 DEF At, Steps, Callees
<1>4. CallFits(prog, f, i)
  BY <1>1, <1>2 DEF Accepted, WellTyped, StepFits
<1>5. /\ g \in DOMAIN prog
      /\ Len(f.body[i].args) = Len(prog[g].params)
      /\ \A j \in DOMAIN prog[g].params :
            /\ f.body[i].args[j] \in Scope(f, i)
            /\ TypeOf(f, f.body[i].args[j]) = prog[g].params[j]
  BY <1>4 DEF CallFits, ArgumentsFit
<1>6. /\ prog[g].params \in Seq(Values) /\ Len(prog[g].params) \in Nat
      /\ Len(prog[g].body) \in Nat
      /\ DOMAIN prog[g].params = 1 .. Len(prog[g].params)
  <2> HIDE DEF g
  <2>1. prog[g].params \in Seq(Values) /\ Len(prog[g].body) \in Nat
    BY <1>2, <1>5, ProgramShape
  <2>2. \A q \in Seq(Values) : Len(q) \in Nat /\ DOMAIN q = 1 .. Len(q)
    OBVIOUS
  <2>3. QED
    BY <2>1, <2>2
<1>7. DOMAIN f.body[i].args = DOMAIN prog[g].params
  <2>1. f.body[i].args \in Seq(Nat)
    BY <1>2, <1>3, ProgramArguments DEF At
  <2>2. \A q \in Seq(Nat) : DOMAIN q = 1 .. Len(q)
    OBVIOUS
  <2> HIDE DEF f, i, g
  <2>3. QED
    BY <1>5, <1>6, <2>1, <2>2
<1>8. args = prog[g].params
  <2>1. \A j \in DOMAIN prog[g].params : args[j] = prog[g].params[j]
    BY <1>2, <1>5, <1>7, ValueFits
  <2>2. DOMAIN args = DOMAIN prog[g].params
    BY <1>7
  <2>3. args = [j \in DOMAIN prog[g].params |-> args[j]]
    BY <2>2
  <2>4. prog[g].params = [j \in DOMAIN prog[g].params |-> prog[g].params[j]]
    BY <1>6, SequenceIsFunction
  <2> HIDE DEF args, g
  <2>5. QED
    BY <2>1, <2>3, <2>4
<1> HIDE DEF args, g, f, i
<1>9. t = [fn |-> g, pc |-> 1, env |-> prog[g].params]
  BY <1>8 DEF Frame
<1>10. t \in Frames(prog) /\ t.fn = g
  BY <1>5, <1>6, <1>9 DEF Frames
<1>11. Fits(prog, t)
  BY <1>6, <1>9 DEF Fits, TypeOf
<1>12. Covers(prog, rows, checker, Top.fn, g)
  BY <1>2, <1>3, CallCovers DEF f
<1>13. StackOK(prog, rows, checker, Append(stack, t))
  BY <1>2, <1>3, <1>10, <1>11, <1>12, PushFrame DEF Top, f, g, i
<1>14. stack' # <<>>
  BY <1>1, <1>2 DEF StackOK
<1>15. QED
  BY <1>1, <1>13, <1>14, SameRun

\* Raise keeps the invariant.
LEMMA RaiseStep ==
    ASSUME Inv, Raise
    PROVE  RunInv'
<1>1. /\ phase = "run" /\ phase' = "uncaught"
      /\ UNCHANGED <<prog, checker, grant, rows, stack, effects>>
      /\ At(prog, Top, "raise")
  BY DEF Raise, AtStep, At, Steps
<1>2. At(prog', Top', "raise")
  BY <1>1 DEF Top
<1>3. QED
  BY <1>1, <1>2 DEF Inv, RunInv, Before, Started

\* Return keeps the invariant.
LEMMA ReturnStep ==
    ASSUME Inv, Return
    PROVE  RunInv'
<1> DEFINE depth == Len(stack)
           f == prog[Top.fn]
           value == ValueIn(Top, f.result)
           caller == stack[depth - 1]
           t == Bound(caller, value)
<1>1. /\ phase = "run" /\ Top.pc = Len(f.body) + 1
      /\ phase' = IF depth = 1 THEN "returned" ELSE "run"
      /\ stack' = [k \in 1 .. depth - 1 |->
                      IF k = depth - 1 THEN Bound(stack[k], value) ELSE stack[k]]
      /\ UNCHANGED <<prog, checker, grant, rows, effects>>
  BY DEF Return
<1>2. /\ Accepted(prog, rows) /\ Top.fn \in DOMAIN prog
      /\ prog \in Programs /\ Top \in Frames(prog) /\ Fits(prog, Top)
      /\ StackOK(prog, rows, checker, stack) /\ depth \in Nat \ {0}
  BY <1>1, TopFrame
<1>3. CASE depth = 1
  <2>1. stack' = <<>> /\ phase' = "returned"
    BY <1>1, <1>3
  <2>2. StackOK(prog', rows', checker', stack')
    BY <2>1, EmptyStack
  <2>3. QED
    BY <1>1, <2>1, <2>2 DEF Inv, RunInv, Before, Started
<1>4. CASE depth # 1
  <2> HIDE DEF depth, f, value, caller, t
  <2>1. depth - 1 \in 1 .. depth - 1 /\ depth - 1 \in 1 .. depth /\ depth > 1
        /\ depth - 1 + 1 = depth
    BY <1>2, <1>4
  <2>2. caller \in Frames(prog) /\ Fits(prog, caller) /\ caller.fn \in DOMAIN prog
    <3>1. stack \in Seq(Frames(prog)) /\ depth - 1 \in 1 .. Len(stack)
      BY <1>2, <2>1 DEF StackOK, depth
    <3>2. caller \in Frames(prog)
      BY <3>1 DEF caller
    <3>3. Fits(prog, caller)
      BY <1>2, <3>1 DEF StackOK, caller
    <3>4. QED
      BY <3>2, <3>3 DEF Frames
  <2>3. At(prog, caller, "call") /\ Top.fn = prog[caller.fn].body[caller.pc].fn
    <3>1. stack[depth - 1 + 1] = Top
      BY <2>1 DEF Top, depth
    <3>2. QED
      BY <1>2, <2>1, <3>1 DEF StackOK, caller, depth
  <2>4. /\ caller.pc \in DOMAIN prog[caller.fn].body
        /\ prog[caller.fn].body[caller.pc].do = "call"
    BY <2>3 DEF At, Steps
  <2>5. CallFits(prog, prog[caller.fn], caller.pc)
    BY <1>2, <2>2, <2>4 DEF Accepted, WellTyped, StepFits
  <2>6. prog[caller.fn].types[caller.pc] =
            IF prog[caller.fn].body[caller.pc].arm THEN Plain ELSE f.ret
    BY <2>3, <2>5 DEF CallFits, f
  <2>7. value = f.ret /\ value \in Values
    <3>1. f.result \in Scope(f, Len(f.body) + 1) /\ TypeOf(f, f.result) = f.ret
      BY <1>2 DEF Accepted, WellTyped, f
    <3>2. QED
      BY <1>1, <1>2, <3>1, ValueFits DEF f, value
  <2>8. t \in Frames(prog) /\ t.fn = caller.fn /\ Fits(prog, t)
    BY <1>2, <2>2, <2>4, <2>6, <2>7, BoundFits DEF t
  <2>9. stack' = [k \in 1 .. depth - 1 |-> IF k = depth - 1 THEN t ELSE stack[k]]
    BY <1>1 DEF t, caller
  <2>10. StackOK(prog, rows, checker, stack')
    BY <1>2, <2>1, <2>8, <2>9, PopFrame DEF depth, caller
  <2>11. stack' # <<>> /\ phase' = "run"
    BY <1>1, <1>2, <1>4, <2>1, <2>9
  <2>12. QED
    BY <1>1, <2>10, <2>11, SameRun
<1>5. QED
  BY <1>3, <1>4

\* Every step keeps the invariant.
LEMMA InvStep == Inv /\ [Next]_vars => Inv'
<1> SUFFICES ASSUME Inv, [Next]_vars PROVE Inv'
  OBVIOUS
<1>1. RowsInv'
  BY RowsStep DEF Inv
<1>2. CASE Propagate
  <2>1. /\ phase = "infer" /\ phase' \in {"infer", "check"}
        /\ UNCHANGED <<checker, grant, stack, effects>>
    BY <1>2 DEF Propagate
  <2>2. stack' = <<>> /\ effects' = {} /\ grant' \subseteq Caps
    BY <2>1 DEF Inv, RunInv, Started
  <2>3. StackOK(prog', rows', checker', stack')
    BY <2>2, EmptyStack
  <2>4. RunInv'
    BY <2>1, <2>2, <2>3 DEF RunInv, Before, Started
  <2>5. QED
    BY <1>1, <2>4 DEF Inv
<1>3. CASE Check
  <2>1. /\ phase = "check"
        /\ phase' = IF Accepted(prog, rows) THEN "load" ELSE "rejected"
        /\ UNCHANGED <<prog, checker, grant, rows, stack, effects>>
    BY <1>3 DEF Check
  <2>2. RunInv'
    BY <2>1 DEF Inv, RunInv, Before, Started
  <2>3. QED
    BY <1>1, <2>2 DEF Inv
<1>4. CASE \E granted \in SUBSET Caps : Load(granted)
  BY <1>1, <1>4, LoadStep DEF Inv
<1>5. CASE Skip
  BY <1>1, <1>5, SkipStep DEF Inv
<1>6. CASE Perform
  BY <1>1, <1>6, PerformStep DEF Inv
<1>7. CASE Call
  BY <1>1, <1>7, CallStep DEF Inv
<1>8. CASE Raise
  BY <1>1, <1>8, RaiseStep DEF Inv
<1>9. CASE Return
  BY <1>1, <1>9, ReturnStep DEF Inv
<1>10. CASE UNCHANGED vars
  <2>1. RunInv'
    BY <1>10 DEF vars, Inv, RunInv, Top
  <2>2. QED
    BY <1>1, <2>1 DEF Inv
<1>11. QED
  BY <1>2, <1>3, <1>4, <1>5, <1>6, <1>7, <1>8, <1>9, <1>10 DEF Next

\* The invariant of checked runs.
LEMMA InvHolds == Spec => []Inv
BY InvInit, InvStep, PTL DEF Spec

\* The frames of a run are those of the program and hold values of the
\* synthesized types, in every accepted program.
THEOREM TypesHold == Spec => []TypeOK
<1>1. Inv => TypeOK
  <2> SUFFICES ASSUME Inv PROVE TypeOK
    OBVIOUS
  <2>1. /\ phase \in {"infer", "check", "load", "run", "rejected", "ungranted",
                      "stuck", "uncaught", "returned"}
        /\ phase = "run" => stack # <<>>
    BY DEF Inv, RunInv, Before, Started
  <2>2. ASSUME NEW k \in DOMAIN stack
        PROVE  FrameOK(stack[k])
    <3>1. stack[k] \in Frames(prog) /\ Fits(prog, stack[k])
      BY DEF Inv, RunInv, StackOK
    <3>2. DOMAIN stack[k].env = 1 .. Len(stack[k].env)
      BY <3>1 DEF Frames
    <3>3. QED
      BY <3>1, <3>2 DEF Fits, FrameOK, Frames
  <2>3. QED
    BY <2>1, <2>2 DEF TypeOK
<1>2. QED
  BY <1>1, InvHolds, PTL

\* No effect happens under a function whose signature does not declare it or
\* a capability that is narrowed to it.
THEOREM EffectsAreDeclared == Spec => []EffectsDeclared
<1>1. Inv => EffectsDeclared
  BY DEF Inv, RunInv, EffectOK, EffectsDeclared
<1>2. QED
  BY <1>1, InvHolds, PTL

\* No effect happens that the grant does not cover.
THEOREM EffectsAreGranted == Spec => []EffectsGranted
<1>1. Inv => EffectsGranted
  <2> SUFFICES ASSUME Inv, NEW e \in effects
               PROVE  e.cap \in Authorized(grant)
    BY DEF EffectsGranted
  <2>1. e.cap \in Authorized(DeclaredRow(prog[Entry]).caps)
    BY DEF Inv, RunInv, EffectOK
  <2>2. DeclaredRow(prog[Entry]).caps \subseteq grant /\ grant \subseteq Caps
    BY DEF Inv, RunInv
  <2>3. DeclaredRow(prog[Entry]).caps \subseteq Authorized(grant)
    BY <2>2, AuthorizedSelf
  <2>4. QED
    BY <2>1, <2>3, AuthorizedClosed, DeclaredCaps
<1>2. QED
  BY <1>1, InvHolds, PTL

\* A perform never meets a value that is not a capability.
THEOREM RunsNeverStick == Spec => []NeverStuck
<1>1. Inv => NeverStuck
  BY DEF Inv, RunInv, NeverStuck, Before, Started
<1>2. QED
  BY <1>1, InvHolds, PTL

\* Under the server's check of a file the propagated rows cover every effect.
THEOREM EffectsAreReported == Spec => []EffectsReported
<1>1. Inv => EffectsReported
  BY DEF Inv, RunInv, EffectOK, EffectsReported
<1>2. QED
  BY <1>1, InvHolds, PTL

\* Under the server's check of a file an error leaves only functions whose
\* error set is open.
THEOREM ErrorsAreContained == Spec => []ErrorsContained
<1>1. Inv => ErrorsContained
  <2> SUFFICES ASSUME Inv, checker = "server", phase = "uncaught",
                      NEW k \in DOMAIN stack
               PROVE  prog[stack[k].fn].open
    BY DEF ErrorsContained, Running
  <2>1. /\ Accepted(prog, rows) /\ Top.fn \in DOMAIN prog
        /\ rows = PropagatedRows(prog, rows)
        /\ StackOK(prog, rows, checker, stack) /\ Len(stack) \in Nat \ {0}
    BY TopFrame
  <2>2. k \in 1 .. Len(stack) /\ Len(stack) \in 1 .. Len(stack) /\ k <= Len(stack)
    BY <2>1 DEF StackOK
  <2>3. Top.pc \in Steps(prog[Top.fn], "raise")
    BY DEF Inv, RunInv, At
  <2>4. OwnRow(prog[Top.fn]).errors # {}
    BY <2>3 DEF OwnRow, Row
  <2>5. CASE k = Len(stack)
    <3>1. InferredRow(rows, prog[Top.fn]).errors # {}
      BY <2>4 DEF InferredRow, RowUnion, Row
    <3>2. QED
      BY <2>1, <2>5, <3>1, DeclaredCaps DEF Accepted, Subsumed, Top
  <2>6. CASE k # Len(stack)
    <3>1. k \in 1 .. Len(stack) - 1 /\ k + 1 \in 1 .. Len(stack) /\ k + 1 <= Len(stack)
      BY <2>1, <2>2, <2>6
    <3>2. stack[k].fn \in DOMAIN prog /\ stack[k + 1].fn \in Callees(prog[stack[k].fn])
      <4>1. stack \in Seq(Frames(prog)) /\ stack[k] \in Frames(prog)
        BY <2>1, <2>2 DEF StackOK
      <4>2. /\ stack[k].pc \in Steps(prog[stack[k].fn], "call")
            /\ stack[k + 1].fn = prog[stack[k].fn].body[stack[k].pc].fn
        BY <2>1, <3>1 DEF StackOK, At
      <4>3. QED
        BY <4>1, <4>2 DEF Frames, Callees
    <3>3. Covers(prog, rows, checker, stack[k + 1].fn, Top.fn)
      BY <2>1, <2>2, <3>1 DEF StackOK, Top
    <3>4. RowIn(OwnRow(prog[Top.fn]), rows[Top.fn])
      BY <2>1, SettledRows
    <3>5. rows[stack[k + 1].fn].errors # {}
      BY <2>4, <3>3, <3>4 DEF Covers, RowIn
    <3>6. RowsBetween(prog, rows)
      BY TopFrame
    <3>7. QED
      BY <2>1, <3>2, <3>5, <3>6, CalleeCovered
  <2>7. QED
    BY <2>5, <2>6
<1>2. QED
  BY <1>1, InvHolds, PTL
====
