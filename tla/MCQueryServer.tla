---- MODULE MCQueryServer ----
(***************************************************************************)
(* The server seen twice, since one request runs at a time: sessions of    *)
(* whole requests, in which no edit is under way, and the inside of one    *)
(* request that edits a file, during which no other request is served.     *)
(*                                                                         *)
(* Sessions have two modules: one with the definition a, which calls b, in *)
(* canonical and in other layout, and one with b, faulty or not; and one   *)
(* broken text.  Edit requests have a text of three characters or one of   *)
(* two, the second of two bytes, and every list of one or two edits with   *)
(* spans in and just past the text: insertions, deletions and              *)
(* replacements, disjoint, touching, overlapping and inside the wide       *)
(* character.  Lists of three have spans in the text.                      *)
(***************************************************************************)
EXTENDS QueryServer, TextEdits

Fn(name, refs) ==
    [name |-> name, kind |-> "fn", tag |-> 0, refs |-> refs, row |-> {},
     ops |-> {}, unsafe |-> {}]

MCPaths == {"m", "n"}
MCTexts == {"user", "loose", "callee", "faulty", "broken"}
MCUnparsable == {"broken"}
MCDefs ==
    [t \in MCTexts |->
        CASE t \in {"user", "loose"} -> <<Fn("a", <<"b">>)>>
          [] t = "callee" -> <<Fn("b", <<>>)>>
          [] t = "faulty" -> <<Fn("b", <<"b">>)>>
          [] t = "broken" -> <<>>]
MCCanonical == [t \in MCTexts |-> IF t = "loose" THEN "user" ELSE t]
MCFaulty == {"faulty", "loose"}
MCRepaired ==
    [t \in MCFaulty |-> IF t = "faulty" THEN "callee" ELSE "none"]

File(path, text) == [path |-> path, text |-> text]
MCOpenings ==
    {<<File("m", "loose"), File("n", "faulty")>>,
     <<File("n", "callee"), File("m", "user")>>}

MCBytes == {"a", "b", "c", "b1", "b2", "x"}
MCContinuation == {"b2"}
MCBuffers == {<<"a", "b1", "b2">>, <<"a", "b", "c">>}

EditsUpTo(n) ==
    {[start |-> s, end |-> e, new |-> t] :
        s \in 0 .. n, e \in 0 .. n + 1, t \in {<<>>, <<"x">>}}

InText == {e \in EditsUpTo(3) : e.start <= e.end /\ e.end <= 3 /\ e.new # <<>>}

MCEditLists ==
    (UNION {[1 .. k -> EditsUpTo(3)] : k \in 1 .. 2}) \cup [1 .. 3 -> InText]
-----------------------------------------------------------------------------
NoEdit ==
    /\ original = <<>> /\ request = <<>> /\ checked = FALSE
    /\ buf = <<>> /\ rest = <<>> /\ status = "done"

MCInit == Init /\ (NoEdit \/ EditInit)

InSession == NoEdit /\ Next /\ UNCHANGED editVars
InRequest == EditNext /\ UNCHANGED vars

MCNext == InSession \/ InRequest

MCSpec == MCInit /\ [][MCNext]_<<vars, editVars>>
====
