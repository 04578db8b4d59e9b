---- MODULE PinTable ----
(***************************************************************************)
(* What the commands that share a store directory promise together: a     *)
(* table of bindings.  A commit rebinds all the names of its batch at      *)
(* once, resolved against the table it found, or none of them; nothing     *)
(* else changes the table, except that it can be lost as a whole.  A hash  *)
(* determines everything it reaches, so the table says what every binding  *)
(* fetches.                                                                *)
(***************************************************************************)
EXTENDS StoreOps

CONSTANTS
    Batches,        \* the batches of entries a commit may be given
    InitialPins,    \* the bindings the directory starts with
    Lost            \* the value of a table that cannot be read any more

VARIABLE pins

Init == pins = InitialPins

Rebind(batch) ==
    /\ pins # Lost
    /\ pins' = Inserted(pins, Rebinding(batch, DagHashes(batch, pins)))

Lose == pins' = Lost

Next == (\E batch \in Batches : Rebind(batch)) \/ Lose

Spec == Init /\ [][Next]_pins
====
