---- MODULE TextEdits ----
(***************************************************************************)
(* How marv-server applies byte edits to a file: apply_edits for the edits *)
(* of a request, apply_src_edits for those of a fix.  Both sort the edits  *)
(* by start, highest first, and apply them one by one to the same buffer.  *)
(* Only the second checks that a span lies on character boundaries; in the *)
(* first String::replace_range panics when it does not.                    *)
(*                                                                         *)
(* A text is a sequence of bytes; offsets count from 0, so a span covers   *)
(* the bytes start + 1 .. end.  An edit is [start, end, new].              *)
(***************************************************************************)
EXTENDS Naturals, Sequences, FiniteSets

CONSTANTS
    Bytes,          \* what a text is made of
    Buffers,        \* the file contents edits are applied to
    Continuation,   \* bytes that do not start a character
    EditLists       \* lists of edits

ASSUME BuffersAssumption == Buffers \subseteq Seq(Bytes)

Edits == [start : Nat, end : Nat, new : Seq(Bytes)]

\* The new text of an edit is a string of its own: it starts a character.
ASSUME EditListsAssumption ==
    /\ EditLists \subseteq Seq(Edits)
    /\ \A edits \in EditLists : \A i \in DOMAIN edits :
          edits[i].new # <<>> => edits[i].new[1] \notin Continuation

VARIABLES
    original,   \* the text of the base snapshot
    request,    \* the edits, as they were given
    checked,    \* whether boundaries are checked: apply_src_edits
    buf,        \* the text so far
    rest,       \* the edits still to apply, in order
    status      \* "editing", "done", "error" or "panic"

editVars == <<original, request, checked, buf, rest, status>>

\* Mutant: the edits are sorted by start, lowest first.
LeftToRight(edits, i, j) ==
    \/ edits[i].start < edits[j].start
    \/ edits[i].start = edits[j].start /\ i < j

\* The order of a stable sort by start, highest first.
Precedes(edits, i, j) ==
    \/ edits[i].start > edits[j].start
    \/ edits[i].start = edits[j].start /\ i < j

Sorted(edits) ==
    [p \in DOMAIN edits |->
        edits[CHOOSE i \in DOMAIN edits :
            Cardinality({j \in DOMAIN edits : Precedes(edits, j, i)}) = p - 1]]

\* The end of the text and the offsets before the start of a character.
Boundaries(text) ==
    {at \in 0 .. Len(text) :
        at = Len(text) \/ text[at + 1] \notin Continuation}

OnBoundaries(text, edit) == {edit.start, edit.end} \subseteq Boundaries(text)

\* Mutant: a fix's span is checked against the text the fix was made for.
AcceptedBefore(text, edit) ==
    /\ edit.start <= edit.end
    /\ edit.end <= Len(original)
    /\ checked => OnBoundaries(original, edit)

\* The check before an edit is applied, against the buffer as it is by now.
Accepted(text, edit) ==
    /\ edit.start <= edit.end
    /\ edit.end <= Len(text)
    /\ checked => OnBoundaries(text, edit)

\* replace_range panics outside the text and inside a character.
Panics(text, edit) == ~ OnBoundaries(text, edit)

\* replace_range.
Replaced(text, edit) ==
    SubSeq(text, 1, edit.start) \o edit.new
        \o SubSeq(text, edit.end + 1, Len(text))
-----------------------------------------------------------------------------
EditInit ==
    /\ original \in Buffers
    /\ request \in EditLists
    /\ checked \in BOOLEAN
    /\ buf = original
    /\ rest = Sorted(request)
    /\ status = "editing"

Stop(outcome) ==
    /\ status' = outcome
    /\ UNCHANGED <<original, request, checked, buf, rest>>

Apply ==
    /\ status = "editing" /\ rest # <<>>
    /\ Accepted(buf, Head(rest)) /\ ~ Panics(buf, Head(rest))
    /\ buf' = Replaced(buf, Head(rest))
    /\ rest' = Tail(rest)
    /\ UNCHANGED <<original, request, checked, status>>

Reject ==
    /\ status = "editing" /\ rest # <<>>
    /\ ~ Accepted(buf, Head(rest))
    /\ Stop("error")

Panic ==
    /\ status = "editing" /\ rest # <<>>
    /\ Accepted(buf, Head(rest)) /\ Panics(buf, Head(rest))
    /\ Stop("panic")

Finish ==
    /\ status = "editing" /\ rest = <<>>
    /\ Stop("done")

EditNext == Apply \/ Reject \/ Panic \/ Finish

EditSpec == EditInit /\ [][EditNext]_editVars
-----------------------------------------------------------------------------
\* The edits fit the original text, each on its own.
Valid ==
    \A i \in DOMAIN request :
        /\ request[i].start <= request[i].end
        /\ request[i].end <= Len(original)
        /\ OnBoundaries(original, request[i])

\* No two spans share a byte.
Disjoint ==
    \A i, j \in DOMAIN request :
        i # j => \/ request[i].end <= request[j].start
                 \/ request[j].end <= request[i].start

DistinctStarts ==
    \A i, j \in DOMAIN request :
        i # j => request[i].start # request[j].start

\* The bytes the edits replace.
Covered(edits, at) ==
    \E i \in DOMAIN edits : edits[i].start < at /\ at <= edits[i].end

NewAt(edits, offset) ==
    IF \E i \in DOMAIN edits : edits[i].start = offset
    THEN edits[CHOOSE i \in DOMAIN edits : edits[i].start = offset].new
    ELSE <<>>

\* The byte before an offset if no edit covers it, and then the new text of
\* the edit that starts there.
Piece(text, edits, at) ==
    (IF at = 0 \/ Covered(edits, at) THEN <<>> ELSE <<text[at]>>)
        \o NewAt(edits, at)

\* What the edits mean when they are all taken at once, up to every offset.
Merged(text, edits) ==
    LET upTo[at \in 0 .. Len(text)] ==
            IF at = 0
            THEN Piece(text, edits, 0)
            ELSE upTo[at - 1] \o Piece(text, edits, at)
    IN  upTo

Simultaneous == Merged(original, request)[Len(original)]

\* Edits that do not overlap and start at different offsets are all applied,
\* as if at once, in whatever order they were listed: none is refused because
\* an earlier replacement has changed the length of the text or its
\* characters.
DisjointEditsApply ==
    Valid /\ Disjoint /\ DistinctStarts =>
        /\ status \in {"editing", "done"}
        /\ status = "done" => buf = Simultaneous

\* A fix never brings the server down, whatever its edits do to the buffer
\* the later ones are applied to.
FixesNeverPanic == checked => status # "panic"
====
