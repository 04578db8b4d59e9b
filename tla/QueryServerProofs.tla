---- MODULE QueryServerProofs ----
(***************************************************************************)
(* What snapshots and commits of the query server keep, proved for every   *)
(* set of texts, whatever their definitions, and every bound on requests.  *)
(***************************************************************************)
EXTENDS QueryServer, Foundations, SequenceTheorems

Files == Seq([path: Paths, text: Texts])

-----------------------------------------------------------------------------
(***************************************************************************)
(* Snapshots.                                                              *)
(***************************************************************************)

\* A snapshot is a list of files, each with the input that has its text.
GoodSnapshot(files, known) ==
    /\ Len(files) \in Nat
    /\ DOMAIN files = 1 .. Len(files)
    /\ \A k \in DOMAIN files :
          /\ files[k].path \in Paths
          /\ files[k].text \in Texts
          /\ files[k].input \in DOMAIN known
          /\ known[files[k].input] =
                [path |-> files[k].path, text |-> files[k].text]

SnapshotInv ==
    /\ nextId \in Nat
    /\ inputs \in Files
    /\ \A id \in DOMAIN snapshots :
          id \in Nat /\ id < nextId /\ GoodSnapshot(snapshots[id], inputs)

\* A function on positions is a sequence of its length.
LEMMA PositionsSeq ==
    ASSUME NEW S, NEW n \in Nat, NEW f \in [1 .. n -> S]
    PROVE  f \in Seq(S) /\ Len(f) = n
<1>1. f \in Seq(S)
  BY SeqDef
<1>2. Len(f) \in Nat /\ DOMAIN f = 1 .. Len(f) /\ DOMAIN f = 1 .. n
  BY <1>1, LenProperties
<1>3. Len(f) = n
  BY <1>2
<1>4. QED
  BY <1>1, <1>3

\* What a list of files has.
LEMMA FilesType ==
    ASSUME NEW files \in Files
    PROVE  /\ Len(files) \in Nat
           /\ DOMAIN files = 1 .. Len(files)
           /\ \A k \in DOMAIN files :
                 files[k] \in [path: Paths, text: Texts]
BY LenProperties DEF Files

\* The inputs after a request: the old ones, then one for each fresh file.
LEMMA InputsGrow ==
    ASSUME SnapshotInv, NEW base, NEW wanted \in Files
    PROVE  LET fresh == Fresh(base, wanted)
               new == inputs \o NewInputs(base, wanted)
           IN  /\ new \in Files
               /\ Len(new) = Len(inputs) + Cardinality(fresh)
               /\ \A i \in DOMAIN inputs : i \in DOMAIN new /\ new[i] = inputs[i]
               /\ \A k \in fresh :
                     LET i == Len(inputs) + PositionIn(fresh, k)
                     IN  /\ i \in DOMAIN new
                         /\ new[i] = [path |-> wanted[k].path,
                                      text |-> wanted[k].text]
<1> DEFINE fresh == Fresh(base, wanted)
           added == NewInputs(base, wanted)
           new == inputs \o added
           c == Cardinality(fresh)
<1>1. /\ Len(wanted) \in Nat
      /\ DOMAIN wanted = 1 .. Len(wanted)
      /\ \A k \in DOMAIN wanted : wanted[k] \in [path: Paths, text: Texts]
  BY FilesType
<1>2. fresh \in SUBSET (1 .. Len(wanted))
  BY <1>1 DEF Fresh
<1> HIDE DEF fresh
<1>3. /\ c \in Nat
      /\ \A k \in fresh : PositionIn(fresh, k) \in 1 .. c
  BY <1>1, <1>2, PositionsCount
<1>4. \A p \in 1 .. c : MemberAt(fresh, p) \in fresh
  BY <1>1, <1>2, MembersAt
<1>5. \A k \in fresh : MemberAt(fresh, PositionIn(fresh, k)) = k
  BY <1>1, <1>2, MembersAt
<1>6. added = [p \in 1 .. c |->
                  [path |-> wanted[MemberAt(fresh, p)].path,
                   text |-> wanted[MemberAt(fresh, p)].text]]
  BY DEF NewInputs, fresh
<1>7. \A p \in 1 .. c :
          [path |-> wanted[MemberAt(fresh, p)].path,
           text |-> wanted[MemberAt(fresh, p)].text] \in [path: Paths, text: Texts]
  BY <1>1, <1>2, <1>4
<1>8. added \in [1 .. c -> [path: Paths, text: Texts]]
  <2> HIDE DEF c, added
  <2>1. QED
    BY <1>6, <1>7
<1> HIDE DEF c, added
<1>9. added \in Files /\ Len(added) = c
  BY <1>3, <1>8, PositionsSeq DEF Files
<1>10. inputs \in Files
  BY DEF SnapshotInv
<1>11. /\ new \in Files
       /\ Len(new) = Len(inputs) + Len(added)
       /\ \A i \in 1 .. Len(inputs) + Len(added) :
             new[i] = IF i <= Len(inputs) THEN inputs[i] ELSE added[i - Len(inputs)]
  BY <1>9, <1>10, ConcatProperties DEF Files
<1> HIDE DEF new
<1>12. /\ Len(inputs) \in Nat /\ DOMAIN inputs = 1 .. Len(inputs)
       /\ DOMAIN new = 1 .. Len(inputs) + c
  BY <1>9, <1>10, <1>11, FilesType
<1>13. ASSUME NEW i \in DOMAIN inputs
       PROVE  i \in DOMAIN new /\ new[i] = inputs[i]
  BY <1>3, <1>9, <1>11, <1>12
<1>14. ASSUME NEW k \in fresh
       PROVE  /\ Len(inputs) + PositionIn(fresh, k) \in DOMAIN new
              /\ new[Len(inputs) + PositionIn(fresh, k)] =
                    [path |-> wanted[k].path, text |-> wanted[k].text]
  <2> DEFINE p == PositionIn(fresh, k)
             i == Len(inputs) + p
  <2>1. p \in 1 .. c /\ MemberAt(fresh, p) = k
    BY <1>3, <1>5
  <2> HIDE DEF p
  <2>2. i \in 1 .. Len(inputs) + c /\ ~ (i <= Len(inputs)) /\ i - Len(inputs) = p
    BY <1>3, <1>12, <2>1
  <2>3. added[p] = [path |-> wanted[k].path, text |-> wanted[k].text]
    BY <1>6, <2>1
  <2>4. i \in DOMAIN new /\ new[i] = added[p]
    <3> HIDE DEF i
    <3>1. QED
      BY <1>9, <1>11, <1>12, <2>2
  <2>5. QED
    BY <2>3, <2>4 DEF p
<1>15. QED
  BY <1>9, <1>11, <1>13, <1>14 DEF new, added, c, fresh

\* What a request registers is a snapshot over the inputs it leaves.
LEMMA RebuiltGood ==
    ASSUME SnapshotInv, NEW base,
           \A j \in DOMAIN base :
              /\ base[j].input \in DOMAIN inputs
              /\ inputs[base[j].input] =
                    [path |-> base[j].path, text |-> base[j].text],
           NEW wanted \in Files, Register(base, wanted)
    PROVE  /\ GoodSnapshot(Rebuilt(base, wanted), inputs')
           /\ inputs' \in Files
           /\ \A i \in DOMAIN inputs : i \in DOMAIN inputs' /\ inputs'[i] = inputs[i]
<1> DEFINE fresh == Fresh(base, wanted)
           new == Rebuilt(base, wanted)
<1>1. inputs' = inputs \o NewInputs(base, wanted)
  BY DEF Register
<1>2. /\ inputs' \in Files
      /\ \A i \in DOMAIN inputs : i \in DOMAIN inputs' /\ inputs'[i] = inputs[i]
  BY <1>1, InputsGrow
<1>3. ASSUME NEW k \in fresh
      PROVE  /\ Len(inputs) + PositionIn(fresh, k) \in DOMAIN inputs'
             /\ inputs'[Len(inputs) + PositionIn(fresh, k)] =
                   [path |-> wanted[k].path, text |-> wanted[k].text]
  BY <1>1, InputsGrow
<1>4. /\ Len(wanted) \in Nat
      /\ DOMAIN wanted = 1 .. Len(wanted)
      /\ \A k \in DOMAIN wanted : wanted[k] \in [path: Paths, text: Texts]
  BY FilesType
<1> DEFINE From(k) == CHOOSE j \in DOMAIN base : Unchanged(base[j], wanted[k])
           Input(k) == IF k \in fresh
                       THEN Len(inputs) + PositionIn(fresh, k)
                       ELSE base[From(k)].input
<1>5. new = [k \in DOMAIN wanted |->
                [path |-> wanted[k].path, text |-> wanted[k].text,
                 input |-> Input(k)]]
  BY DEF Rebuilt
<1>6. ASSUME NEW k \in DOMAIN wanted
      PROVE  /\ Input(k) \in DOMAIN inputs'
             /\ inputs'[Input(k)] =
                   [path |-> wanted[k].path, text |-> wanted[k].text]
  <2>1. CASE k \in fresh
    BY <1>3, <2>1
  <2>2. CASE k \notin fresh
    <3>1. \E j \in DOMAIN base : Unchanged(base[j], wanted[k])
      BY <2>2 DEF Fresh
    <3>2. From(k) \in DOMAIN base /\ Unchanged(base[From(k)], wanted[k])
      BY <3>1
    <3>3. Input(k) = base[From(k)].input
      BY <2>2
    <3> HIDE DEF From, Input, fresh
    <3>4. QED
      BY <1>2, <3>2, <3>3 DEF Unchanged
  <2>3. QED
    BY <2>1, <2>2
<1> HIDE DEF new, Input
<1>7. DOMAIN new = 1 .. Len(wanted)
  BY <1>4, <1>5
<1>8. \A k \in DOMAIN new : /\ new[k].path = wanted[k].path
                           /\ new[k].text = wanted[k].text
                           /\ new[k].input = Input(k)
                           /\ wanted[k].path \in Paths /\ wanted[k].text \in Texts
  BY <1>4, <1>5
<1>9. Len(new) = Len(wanted)
  <2> DEFINE S == {new[k] : k \in 1 .. Len(wanted)}
  <2>1. new \in [1 .. Len(wanted) -> S]
    BY <1>4, <1>5, <1>7
  <2> HIDE DEF S
  <2>2. QED
    BY <1>4, <2>1, PositionsSeq
<1>10. GoodSnapshot(new, inputs')
  BY <1>4, <1>6, <1>7, <1>8, <1>9 DEF GoodSnapshot
<1>11. QED
  BY <1>2, <1>10 DEF new

\* A request that registers a snapshot gives it the next id.
LEMMA RegisterStep ==
    ASSUME SnapshotInv, NEW base,
           \A j \in DOMAIN base :
              /\ base[j].input \in DOMAIN inputs
              /\ inputs[base[j].input] =
                    [path |-> base[j].path, text |-> base[j].text],
           NEW wanted \in Files, Register(base, wanted)
    PROVE  /\ SnapshotInv'
           /\ DOMAIN snapshots' = DOMAIN snapshots \cup {nextId}
           /\ \A id \in DOMAIN snapshots : snapshots'[id] = snapshots[id]
<1>1. /\ GoodSnapshot(Rebuilt(base, wanted), inputs')
      /\ inputs' \in Files
      /\ \A i \in DOMAIN inputs : i \in DOMAIN inputs' /\ inputs'[i] = inputs[i]
  BY RebuiltGood
<1>2. /\ DOMAIN snapshots' = DOMAIN snapshots \cup {nextId}
      /\ snapshots'[nextId] = Rebuilt(base, wanted)
      /\ \A id \in DOMAIN snapshots \ {nextId} : snapshots'[id] = snapshots[id]
      /\ nextId' = nextId + 1
  BY DEF Register, Inserted, FreshId
<1>3. nextId \in Nat /\ \A id \in DOMAIN snapshots :
          id \in Nat /\ id < nextId /\ GoodSnapshot(snapshots[id], inputs)
  BY DEF SnapshotInv
<1>4. \A id \in DOMAIN snapshots : snapshots'[id] = snapshots[id]
  BY <1>2, <1>3
<1>5. \A id \in DOMAIN snapshots : GoodSnapshot(snapshots[id], inputs')
  BY <1>1, <1>3 DEF GoodSnapshot
<1>6. \A id \in DOMAIN snapshots' :
          id \in Nat /\ id < nextId' /\ GoodSnapshot(snapshots'[id], inputs')
  BY <1>1, <1>2, <1>3, <1>4, <1>5
<1>7. SnapshotInv'
  BY <1>1, <1>2, <1>3, <1>6 DEF SnapshotInv
<1>8. QED
  BY <1>2, <1>4, <1>7

\* An edit leaves a list of files.
LEMMA EditedFiles ==
    ASSUME NEW base, NEW known, GoodSnapshot(base, known),
           NEW path \in Paths, NEW text \in Texts
    PROVE  Edited(base, path, text) \in Files
<1> DEFINE File == [path: Paths, text: Texts]
           kept == [k \in DOMAIN base |->
                       [path |-> base[k].path, text |-> base[k].text]]
           changed == [k \in DOMAIN base |->
                          [path |-> base[k].path,
                           text |-> IF base[k].path = path THEN text
                                    ELSE base[k].text]]
           extra == <<[path |-> path, text |-> text]>>
<1>1. /\ Len(base) \in Nat /\ DOMAIN base = 1 .. Len(base)
      /\ \A k \in DOMAIN base : base[k].path \in Paths /\ base[k].text \in Texts
  BY DEF GoodSnapshot
<1>2. kept \in [1 .. Len(base) -> File] /\ changed \in [1 .. Len(base) -> File]
  BY <1>1
<1>3. kept \in Seq(File) /\ changed \in Seq(File)
  <2> HIDE DEF kept, changed, File
  <2>1. QED
    BY <1>1, <1>2, PositionsSeq
<1>4. extra \in Seq(File)
  OBVIOUS
<1>5. kept \o extra \in Seq(File)
  <2> HIDE DEF kept, extra, File
  <2>1. QED
    BY <1>3, <1>4, ConcatProperties
<1>6. Edited(base, path, text) = changed \/ Edited(base, path, text) = kept \o extra
  BY DEF Edited
<1>7. QED
  BY <1>3, <1>5, <1>6 DEF Files

\* Whatever a request does to the snapshots, it registers one over the files
\* of another, or closes one, or leaves them all.
LEMMA RequestShape ==
    ASSUME SnapshotInv, [Next]_vars
    PROVE  \/ \E base, wanted :
                 /\ \A j \in DOMAIN base :
                       /\ base[j].input \in DOMAIN inputs
                       /\ inputs[base[j].input] =
                             [path |-> base[j].path, text |-> base[j].text]
                 /\ wanted \in Files
                 /\ Register(base, wanted)
           \/ \E id \in DOMAIN snapshots :
                 /\ snapshots' = Restrict(snapshots, DOMAIN snapshots \ {id})
                 /\ UNCHANGED <<inputs, nextId>>
           \/ UNCHANGED <<inputs, snapshots, nextId>>
<1> DEFINE Sound(base) ==
        \A j \in DOMAIN base :
           /\ base[j].input \in DOMAIN inputs
           /\ inputs[base[j].input] =
                 [path |-> base[j].path, text |-> base[j].text]
<1>1. ASSUME NEW files \in Openings, OpenSnapshot(files)
      PROVE  Sound(<<>>) /\ files \in Files /\ Register(<<>>, files)
  <2>1. files \in Files
    BY OpeningsAssumption DEF Files
  <2>2. Sound(<<>>)
    OBVIOUS
  <2>3. Register(<<>>, files)
    BY <1>1 DEF OpenSnapshot
  <2>4. QED
    BY <2>1, <2>2, <2>3
<1>2. ASSUME NEW id \in DOMAIN snapshots
      PROVE  GoodSnapshot(snapshots[id], inputs) /\ Sound(snapshots[id])
  BY DEF SnapshotInv, GoodSnapshot
<1>3. ASSUME NEW id \in DOMAIN snapshots, NEW path \in Paths, NEW text \in Texts,
             ApplyEdits(id, path, text)
      PROVE  \E wanted \in Files : Register(snapshots[id], wanted)
  BY <1>2, <1>3, EditedFiles DEF ApplyEdits
<1>4. ASSUME NEW id \in DOMAIN snapshots, ApplyFix(id)
      PROVE  \E wanted \in Files : Register(snapshots[id], wanted)
  <2> DEFINE base == snapshots[id]
             found == {k \in DOMAIN base : base[k].text \in Faulty}
             first == CHOOSE k \in found : \A j \in found : k <= j
             f == base[first]
  <2>1. /\ found # {}
        /\ Repaired[f.text] # NoFix
        /\ Register(base, Edited(base, f.path, Repaired[f.text]))
    BY <1>4 DEF ApplyFix
  <2>2. DOMAIN base = 1 .. Len(base) /\ Len(base) \in Nat
    BY <1>2 DEF GoodSnapshot
  <2>3. found \in SUBSET Nat
    BY <2>2
  <2>4. \E k \in found : \A j \in found : k <= j
    <3> HIDE DEF found
    <3>1. QED
      BY <2>1, <2>3, LeastExists
  <2>5. first \in found
    BY <2>4
  <2>6. f.text \in Faulty /\ f.path \in Paths
    BY <1>2, <2>5 DEF GoodSnapshot
  <2>7. Repaired[f.text] \in Texts
    BY <2>1, <2>6, TextAssumption
  <2> HIDE DEF f
  <2>8. Edited(base, f.path, Repaired[f.text]) \in Files
    BY <1>2, <2>6, <2>7, EditedFiles
  <2>9. QED
    BY <2>1, <2>8
<1>5. ASSUME NEW id \in DOMAIN snapshots, Format(id)
      PROVE  \E wanted \in Files : Register(snapshots[id], wanted)
  <2> DEFINE base == snapshots[id]
             File == [path: Paths, text: Texts]
             wanted == [k \in DOMAIN base |->
                           [path |-> base[k].path, text |-> Canonical[base[k].text]]]
  <2>1. /\ Len(base) \in Nat /\ DOMAIN base = 1 .. Len(base)
        /\ \A k \in DOMAIN base : base[k].path \in Paths /\ base[k].text \in Texts
    BY <1>2 DEF GoodSnapshot
  <2>2. wanted \in [1 .. Len(base) -> File]
    BY <2>1, TextAssumption
  <2>3. Register(base, wanted)
    BY <1>5 DEF Format
  <2> HIDE DEF wanted, File
  <2>4. wanted \in Seq(File)
    BY <2>1, <2>2, PositionsSeq
  <2>5. QED
    BY <2>3, <2>4 DEF File, Files
<1>6. ASSUME NEW id \in DOMAIN snapshots, CloseSnapshot(id)
      PROVE  /\ snapshots' = Restrict(snapshots, DOMAIN snapshots \ {id})
             /\ UNCHANGED <<inputs, nextId>>
  BY <1>6 DEF CloseSnapshot
<1>7. ASSUME NEW id \in DOMAIN snapshots, Commit(id)
      PROVE  UNCHANGED <<inputs, snapshots, nextId>>
  BY <1>7 DEF Commit
<1>8. CASE UNCHANGED vars
  BY <1>8 DEF vars
<1> HIDE DEF Sound
<1>9. CASE \E files \in Openings : OpenSnapshot(files)
  <2>1. \E base, wanted : Sound(base) /\ wanted \in Files /\ Register(base, wanted)
    BY <1>1, <1>9
  <2>2. QED
    BY <2>1 DEF Sound
<1>10. ASSUME NEW id \in DOMAIN snapshots,
              \/ \E path \in Paths, text \in Texts : ApplyEdits(id, path, text)
              \/ ApplyFix(id)
              \/ Format(id)
       PROVE  \E base, wanted :
                 /\ \A j \in DOMAIN base :
                       /\ base[j].input \in DOMAIN inputs
                       /\ inputs[base[j].input] =
                             [path |-> base[j].path, text |-> base[j].text]
                 /\ wanted \in Files
                 /\ Register(base, wanted)
  <2>1. \E wanted \in Files : Register(snapshots[id], wanted)
    BY <1>3, <1>4, <1>5, <1>10
  <2>2. Sound(snapshots[id])
    BY <1>2
  <2>3. QED
    BY <2>1, <2>2 DEF Sound
<1>11. QED
  BY <1>6, <1>7, <1>8, <1>9, <1>10 DEF Next

\* A request keeps snapshots and inputs in step, never changes what a live
\* id denotes and never reuses an id.
LEMMA SnapshotStep ==
    ASSUME SnapshotInv, [Next]_vars
    PROVE  /\ SnapshotInv'
           /\ \A id \in DOMAIN snapshots \cap DOMAIN snapshots' :
                 snapshots'[id] = snapshots[id]
           /\ \A id \in DOMAIN snapshots' \ DOMAIN snapshots : id >= nextId
<1>1. nextId \in Nat
  BY DEF SnapshotInv
<1>2. ASSUME NEW base, NEW wanted,
             \A j \in DOMAIN base :
                /\ base[j].input \in DOMAIN inputs
                /\ inputs[base[j].input] =
                      [path |-> base[j].path, text |-> base[j].text],
             wanted \in Files,
             Register(base, wanted)
      PROVE  /\ SnapshotInv'
             /\ \A id \in DOMAIN snapshots \cap DOMAIN snapshots' :
                   snapshots'[id] = snapshots[id]
             /\ \A id \in DOMAIN snapshots' \ DOMAIN snapshots : id >= nextId
  <2>1. /\ SnapshotInv'
        /\ DOMAIN snapshots' = DOMAIN snapshots \cup {nextId}
        /\ \A id \in DOMAIN snapshots : snapshots'[id] = snapshots[id]
    BY <1>2, RegisterStep
  <2>2. QED
    BY <1>1, <2>1
<1>3. ASSUME NEW id \in DOMAIN snapshots,
             snapshots' = Restrict(snapshots, DOMAIN snapshots \ {id}),
             UNCHANGED <<inputs, nextId>>
      PROVE  /\ SnapshotInv'
             /\ \A i \in DOMAIN snapshots \cap DOMAIN snapshots' :
                   snapshots'[i] = snapshots[i]
             /\ \A i \in DOMAIN snapshots' \ DOMAIN snapshots : i >= nextId
  <2>1. /\ DOMAIN snapshots' = DOMAIN snapshots \ {id}
        /\ \A i \in DOMAIN snapshots' : snapshots'[i] = snapshots[i]
    BY <1>3 DEF Restrict
  <2>2. QED
    BY <1>3, <2>1 DEF SnapshotInv
<1>4. CASE UNCHANGED <<inputs, snapshots, nextId>>
  BY <1>4 DEF SnapshotInv
<1>5. QED
  BY <1>2, <1>3, <1>4, RequestShape

\* SnapshotInv is inductive.
LEMMA SnapshotAlways == Spec => []SnapshotInv
<1>1. Init => SnapshotInv
  BY EmptySeq DEF Init, SnapshotInv, Files
<1>2. SnapshotInv /\ [Next]_vars => SnapshotInv'
  BY SnapshotStep
<1>3. QED
  BY <1>1, <1>2, PTL DEF Spec

\* The two views of a file always agree: its input's memoized analysis is of
\* the text the snapshot holds.
THEOREM AnswersAlwaysMatch == Spec => []AnswersMatchSnapshot
<1>1. SnapshotInv => AnswersMatchSnapshot
  BY DEF SnapshotInv, GoodSnapshot, AnswersMatchSnapshot
<1>2. QED
  BY <1>1, SnapshotAlways, PTL

\* No request changes the files a live id denotes or gives an id twice.
THEOREM IdsStable == Spec => IdsDenoteForever
<1> DEFINE Kept ==
        /\ \A id \in DOMAIN snapshots \cap DOMAIN snapshots' :
              snapshots'[id] = snapshots[id]
        /\ \A id \in DOMAIN snapshots' \ DOMAIN snapshots : id >= nextId
<1>1. SnapshotInv /\ [Next]_vars => [Kept]_vars
  BY SnapshotStep
<1> HIDE DEF Kept
<1>2. Spec => [][Kept]_vars
  BY <1>1, SnapshotAlways, PTL DEF Spec
<1>3. QED
  BY <1>2 DEF Kept, IdsDenoteForever

-----------------------------------------------------------------------------
(***************************************************************************)
(* Commits, file by file.                                                  *)
(***************************************************************************)

\* A list of files, as far as a commit is concerned.
Listed(files) ==
    /\ Len(files) \in Nat
    /\ DOMAIN files = 1 .. Len(files)
    /\ \A k \in DOMAIN files : files[k].text \in Texts

\* A commit's tables are defined, one file after the other.
LEMMA ProgressDefined ==
    ASSUME NEW table, NEW files, Len(files) \in Nat
    PROVE  LET after == Progress(table, files)
           IN  /\ after[0] = table
               /\ \A n \in 1 .. Len(files) :
                     after[n] = CommittedFile(table.lock, after[n - 1], files[n])
<1> DEFINE N == Len(files)
           Step(t, n) == CommittedFile(table.lock, t, files[n])
           Body(m, f) == [n \in 0 .. m |-> IF n = 0 THEN table ELSE Step(f[n - 1], n)]
           Some == {m \in Nat : \E f : f = Body(m, f)}
           after == CHOOSE f : f = Body(N, f)
<1>1. Progress(table, files) = [n \in 0 .. N |-> after[n]]
  BY DEF Progress
<1> HIDE DEF Step
<1>2. 0 \in Some
  <2> DEFINE f == [n \in 0 .. 0 |-> table]
  <2>1. f = Body(0, f)
    OBVIOUS
  <2> HIDE DEF Body, f
  <2>2. QED
    BY <2>1
<1>3. ASSUME NEW m \in 0 .. N - 1, m \in Some PROVE m + 1 \in Some
  <2>1. PICK f : f = Body(m, f)
    BY <1>3
  <2> DEFINE g == [n \in 0 .. m + 1 |-> IF n = m + 1 THEN Step(f[m], m + 1) ELSE f[n]]
  <2>2. DOMAIN f = 0 .. m
    BY <2>1
  <2>3. ASSUME NEW n \in 0 .. m
        PROVE  f[n] = IF n = 0 THEN table ELSE Step(f[n - 1], n)
    BY <2>1
  <2>4. ASSUME NEW n \in 0 .. m + 1
        PROVE  g[n] = IF n = 0 THEN table ELSE Step(g[n - 1], n)
    <3>1. CASE n = m + 1
      <4>1. g[n] = Step(f[m], m + 1) /\ n - 1 = m /\ n # 0
        BY <3>1
      <4>2. g[m] = f[m]
        OBVIOUS
      <4> HIDE DEF g
      <4>3. QED
        BY <3>1, <4>1, <4>2
    <3>2. CASE n # m + 1
      <4>1. n \in 0 .. m /\ g[n] = f[n]
        BY <3>2
      <4>2. n # 0 => g[n - 1] = f[n - 1]
        BY <3>2
      <4> HIDE DEF g
      <4>3. QED
        BY <2>3, <4>1, <4>2
    <3>3. QED
      BY <3>1, <3>2
  <2>5. g = [n \in 0 .. m + 1 |-> g[n]]
    OBVIOUS
  <2> HIDE DEF g
  <2>6. g = Body(m + 1, g)
    BY <2>4, <2>5
  <2> HIDE DEF Body
  <2>7. QED
    BY <2>6
<1>4. N \in Some
  <2> HIDE DEF Some
  <2>1. 0 .. N \subseteq Some
    BY <1>2, <1>3, CountingUp
  <2>2. QED
    BY <2>1
<1>5. after = Body(N, after)
  <2>1. \E f : f = Body(N, f)
    BY <1>4
  <2> HIDE DEF Body
  <2>2. QED
    BY <2>1
<1> HIDE DEF after
<1>6. \A n \in 0 .. N : after[n] = IF n = 0 THEN table ELSE Step(after[n - 1], n)
  BY <1>5
<1>7. after[0] = table /\ \A n \in 1 .. N : after[n] = Step(after[n - 1], n)
  BY <1>6
<1>8. \A n \in 0 .. N : Progress(table, files)[n] = after[n]
  BY <1>1
<1>9. \A n \in 1 .. N : n - 1 \in 0 .. N /\ n \in 0 .. N
  OBVIOUS
<1>10. 0 \in 0 .. N
  OBVIOUS
<1>11. QED
  BY <1>7, <1>8, <1>9, <1>10 DEF Step

\* So are the tables after each commit of a series.
LEMMA RoundsDefined ==
    ASSUME NEW table, NEW files, Len(files) \in Nat
    PROVE  LET after == Rounds(table, files)
           IN  /\ after[0] = table
               /\ \A n \in 1 .. Len(files) :
                     after[n] = Committed(after[n - 1], files)
<1> DEFINE N == Len(files)
           Step(t) == Committed(t, files)
           Body(m, f) == [n \in 0 .. m |-> IF n = 0 THEN table ELSE Step(f[n - 1])]
           Some == {m \in Nat : \E f : f = Body(m, f)}
           after == CHOOSE f : f = Body(N, f)
<1>1. Rounds(table, files) = [n \in 0 .. N |-> after[n]]
  BY DEF Rounds
<1> HIDE DEF Step
<1>2. 0 \in Some
  <2> DEFINE f == [n \in 0 .. 0 |-> table]
  <2>1. f = Body(0, f)
    OBVIOUS
  <2> HIDE DEF Body, f
  <2>2. QED
    BY <2>1
<1>3. ASSUME NEW m \in 0 .. N - 1, m \in Some PROVE m + 1 \in Some
  <2>1. PICK f : f = Body(m, f)
    BY <1>3
  <2> DEFINE g == [n \in 0 .. m + 1 |-> IF n = m + 1 THEN Step(f[m]) ELSE f[n]]
  <2>2. DOMAIN f = 0 .. m
    BY <2>1
  <2>3. ASSUME NEW n \in 0 .. m
        PROVE  f[n] = IF n = 0 THEN table ELSE Step(f[n - 1])
    BY <2>1
  <2>4. ASSUME NEW n \in 0 .. m + 1
        PROVE  g[n] = IF n = 0 THEN table ELSE Step(g[n - 1])
    <3>1. CASE n = m + 1
      <4>1. g[n] = Step(f[m]) /\ n - 1 = m /\ n # 0
        BY <3>1
      <4>2. g[m] = f[m]
        OBVIOUS
      <4> HIDE DEF g
      <4>3. QED
        BY <3>1, <4>1, <4>2
    <3>2. CASE n # m + 1
      <4>1. n \in 0 .. m /\ g[n] = f[n]
        BY <3>2
      <4>2. n # 0 => g[n - 1] = f[n - 1]
        BY <3>2
      <4> HIDE DEF g
      <4>3. QED
        BY <2>3, <4>1, <4>2
    <3>3. QED
      BY <3>1, <3>2
  <2>5. g = [n \in 0 .. m + 1 |-> g[n]]
    OBVIOUS
  <2> HIDE DEF g
  <2>6. g = Body(m + 1, g)
    BY <2>4, <2>5
  <2> HIDE DEF Body
  <2>7. QED
    BY <2>6
<1>4. N \in Some
  <2> HIDE DEF Some
  <2>1. 0 .. N \subseteq Some
    BY <1>2, <1>3, CountingUp
  <2>2. QED
    BY <2>1
<1>5. after = Body(N, after)
  <2>1. \E f : f = Body(N, f)
    BY <1>4
  <2> HIDE DEF Body
  <2>2. QED
    BY <2>1
<1> HIDE DEF after
<1>6. \A n \in 0 .. N : after[n] = IF n = 0 THEN table ELSE Step(after[n - 1])
  BY <1>5
<1>7. after[0] = table /\ \A n \in 1 .. N : after[n] = Step(after[n - 1])
  BY <1>6
<1>8. \A n \in 0 .. N : Rounds(table, files)[n] = after[n]
  BY <1>1
<1>9. \A n \in 1 .. N : n - 1 \in 0 .. N /\ n \in 0 .. N
  OBVIOUS
<1>10. 0 \in 0 .. N
  OBVIOUS
<1>11. QED
  BY <1>7, <1>8, <1>9, <1>10 DEF Step

\* A store and lockfile as commits leave them.
SoundTable(t) ==
    /\ GoodStore(t.store)
    /\ Ranked(DOMAIN t.store)
    /\ Range(t.lock) \subseteq DOMAIN t.store
    /\ \A h \in DOMAIN t.store : t.store[h].deps \subseteq DOMAIN t.store

\* What a file's commit makes of the table.
LEMMA FileParts ==
    ASSUME NEW found, NEW t, NEW file
    PROVE  LET b == Defs[file.text]
               dag == DagHashes(b, t.lock)
               new == CommittedFile(found, t, file)
           IN  /\ new.store = CommittedStore(t.store, b, dag, t.lock)
               /\ new.lock = Inserted(t.lock, Rebinding(b, dag))
               /\ new = [store |-> new.store, lock |-> new.lock]
BY DEF CommittedFile

\* A file's commit leaves a sound table sound.
LEMMA FileSound ==
    ASSUME NEW found, NEW t, SoundTable(t), NEW file, file.text \in Texts
    PROVE  SoundTable(CommittedFile(found, t, file))
<1> DEFINE b == Defs[file.text]
           dag == DagHashes(b, t.lock)
           new == CommittedFile(found, t, file)
<1>1. IsBatch(b)
  BY TextAssumption
<1>2. /\ new.store = CommittedStore(t.store, b, dag, t.lock)
      /\ new.lock = Inserted(t.lock, Rebinding(b, dag))
  BY FileParts
<1> HIDE DEF b, new
<1>3. /\ GoodStore(t.store) /\ Ranked(DOMAIN t.store)
      /\ Range(t.lock) \subseteq DOMAIN t.store
      /\ \A h \in DOMAIN t.store : t.store[h].deps \subseteq DOMAIN t.store
  BY DEF SoundTable
<1>4. GoodStore(new.store) /\ Ranked(DOMAIN new.store)
  BY <1>1, <1>2, <1>3, CommittedGood
<1>5. /\ Range(new.lock) \subseteq DOMAIN new.store
      /\ \A h \in DOMAIN new.store : new.store[h].deps \subseteq DOMAIN new.store
  BY <1>1, <1>2, <1>3, CommittedClosed
<1>6. QED
  BY <1>4, <1>5 DEF SoundTable, new

\* So do the files of a commit, one after the other.
LEMMA ProgressSound ==
    ASSUME NEW table, SoundTable(table), NEW files, Listed(files)
    PROVE  /\ \A n \in 0 .. Len(files) : SoundTable(Progress(table, files)[n])
           /\ SoundTable(Committed(table, files))
<1> DEFINE N == Len(files)
           after == Progress(table, files)
           Some == {n \in 0 .. N : SoundTable(after[n])}
<1>1. /\ N \in Nat
      /\ \A n \in 1 .. N : files[n].text \in Texts
  BY DEF Listed
<1>2. /\ after[0] = table
      /\ \A n \in 1 .. N : after[n] = CommittedFile(table.lock, after[n - 1], files[n])
  BY <1>1, ProgressDefined
<1>3. after[N] = Committed(table, files)
  BY DEF Committed
<1> HIDE DEF N, after
<1>4. 0 \in Some
  BY <1>1, <1>2
<1>5. ASSUME NEW n \in 0 .. N - 1, n \in Some PROVE n + 1 \in Some
  <2>1. n + 1 \in 1 .. N /\ n + 1 - 1 = n /\ SoundTable(after[n])
    BY <1>1, <1>5
  <2>2. after[n + 1] = CommittedFile(table.lock, after[n], files[n + 1])
    BY <1>2, <2>1
  <2>3. SoundTable(after[n + 1])
    BY <1>1, <2>1, <2>2, FileSound
  <2>4. QED
    BY <1>1, <2>1, <2>3
<1>6. 0 .. N \subseteq Some
  <2> HIDE DEF Some
  <2>1. QED
    BY <1>1, <1>4, <1>5, CountingUp
<1>7. \A n \in 0 .. N : SoundTable(after[n])
  BY <1>6
<1>8. SoundTable(Committed(table, files))
  BY <1>1, <1>3, <1>7
<1>9. QED
  BY <1>7, <1>8 DEF N, after

Table == [store |-> store, lock |-> lock]

\* Only a commit changes the store or the lockfile.
LEMMA TableStep ==
    ASSUME [Next]_vars
    PROVE  \/ UNCHANGED <<store, lock>>
           \/ \E id \in DOMAIN snapshots : Commit(id)
<1>1. ASSUME NEW files \in Openings, OpenSnapshot(files)
      PROVE  UNCHANGED <<store, lock>>
  BY <1>1 DEF OpenSnapshot, Register
<1>2. ASSUME NEW id \in DOMAIN snapshots, NEW path \in Paths, NEW text \in Texts,
             ApplyEdits(id, path, text)
      PROVE  UNCHANGED <<store, lock>>
  BY <1>2 DEF ApplyEdits, Register
<1>3. ASSUME NEW base, NEW wanted, Register(base, wanted)
      PROVE  UNCHANGED <<store, lock>>
  BY <1>3 DEF Register
<1>4. ASSUME NEW id \in DOMAIN snapshots, CloseSnapshot(id)
      PROVE  UNCHANGED <<store, lock>>
  BY <1>4 DEF CloseSnapshot
<1>5. ASSUME NEW id \in DOMAIN snapshots, ApplyFix(id)
      PROVE  UNCHANGED <<store, lock>>
  BY <1>3, <1>5 DEF ApplyFix
<1>6. ASSUME NEW id \in DOMAIN snapshots, Format(id)
      PROVE  UNCHANGED <<store, lock>>
  BY <1>3, <1>6 DEF Format
<1>7. CASE UNCHANGED vars
  BY <1>7 DEF vars
<1>8. QED
  BY <1>1, <1>2, <1>4, <1>5, <1>6, <1>7 DEF Next

\* A commit yields a store and a lockfile, nothing else.
LEMMA CommittedRecord ==
    ASSUME NEW table, table = [store |-> table.store, lock |-> table.lock],
           NEW files, Len(files) \in Nat
    PROVE  Committed(table, files) = [store |-> Committed(table, files).store,
                                      lock |-> Committed(table, files).lock]
<1> DEFINE N == Len(files)
           after == Progress(table, files)
<1>1. /\ after[0] = table
      /\ \A n \in 1 .. N : after[n] = CommittedFile(table.lock, after[n - 1], files[n])
  BY ProgressDefined
<1>2. after[N] = Committed(table, files)
  BY DEF Committed
<1> HIDE DEF N, after
<1>3. CASE N = 0
  BY <1>1, <1>2, <1>3
<1>4. CASE N # 0
  <2>1. N \in 1 .. N
    BY <1>4 DEF N
  <2>2. after[N] = CommittedFile(table.lock, after[N - 1], files[N])
    BY <1>1, <2>1
  <2>3. QED
    BY <1>2, <2>2, FileParts
<1>5. QED
  BY <1>3, <1>4

\* A commit moves the table to what its snapshot's files make of it.
LEMMA CommitTable ==
    ASSUME NEW id, Listed(snapshots[id]), Commit(id)
    PROVE  Table' = Committed(Table, snapshots[id])
<1> DEFINE files == snapshots[id]
           after == Committed(Table, files)
<1>1. store' = after.store /\ lock' = after.lock
  BY DEF Commit, Table
<1>2. Table = [store |-> Table.store, lock |-> Table.lock]
  BY DEF Table
<1>3. Len(files) \in Nat
  BY DEF Listed
<1>4. after = [store |-> after.store, lock |-> after.lock]
  <2> HIDE DEF files
  <2>1. QED
    BY <1>2, <1>3, CommittedRecord
<1> HIDE DEF after
<1>5. Table' = [store |-> after.store, lock |-> after.lock]
  BY <1>1 DEF Table
<1>6. QED
  BY <1>4, <1>5 DEF after

\* A snapshot's files are what a commit takes.
LEMMA SnapshotListed ==
    ASSUME SnapshotInv, NEW id \in DOMAIN snapshots
    PROVE  Listed(snapshots[id])
BY DEF SnapshotInv, GoodSnapshot, Listed

\* The store is sound in every state.
LEMMA TableAlways == Spec => []SoundTable(Table)
<1>1. Init => SoundTable(Table)
  <2> SUFFICES ASSUME Init PROVE SoundTable(Table)
    OBVIOUS
  <2>1. Table.store = <<>> /\ Table.lock = <<>>
    BY DEF Init, Table
  <2>2. DOMAIN Table.store = {} /\ Range(Table.lock) = {}
    BY <2>1 DEF Range
  <2>3. Ranked({})
    <3>1. Ranking(<<>>, 0, {})
      BY DEF Ranking
    <3>2. QED
      BY <3>1 DEF Ranked
  <2>4. QED
    BY <2>2, <2>3 DEF SoundTable, GoodStore
<1>2. SnapshotInv /\ SoundTable(Table) /\ [Next]_vars => SoundTable(Table)'
  <2> SUFFICES ASSUME SnapshotInv, SoundTable(Table), [Next]_vars
               PROVE  SoundTable(Table')
    OBVIOUS
  <2>1. CASE UNCHANGED <<store, lock>>
    BY <2>1 DEF Table
  <2>2. ASSUME NEW id \in DOMAIN snapshots, Commit(id)
        PROVE  SoundTable(Table')
    BY <2>2, SnapshotListed, CommitTable, ProgressSound
  <2>3. QED
    BY <2>1, <2>2, TableStep
<1>3. QED
  BY <1>1, <1>2, SnapshotAlways, PTL DEF Spec

\* Commits file by file keep the store closed, for whatever texts: every
\* binding can be fetched, and every dependency of a blob that can.
THEOREM CommitsClosed == Spec => []StoreClosed
<1>1. SoundTable(Table) => StoreClosed
  BY DEF SoundTable, Table, StoreClosed
<1>2. QED
  BY <1>1, TableAlways, PTL

-----------------------------------------------------------------------------
(***************************************************************************)
(* Committing again.                                                       *)
(***************************************************************************)

\* The entries of a file of a list, the table after the first n files, and
\* the hashes file k gets in the commit of the list.
EntriesAt(files, k) == Defs[files[k].text]
TableAt(table, files, n) == Progress(table, files)[n]
HashesAt(table, files, k) ==
    DagHashes(EntriesAt(files, k), TableAt(table, files, k - 1).lock)

\* Two lockfiles bind a name alike.
SameAt(one, other, x) ==
    /\ x \in DOMAIN one <=> x \in DOMAIN other
    /\ x \in DOMAIN one => one[x] = other[x]

\* A lockfile binds a name to a hash.
BoundTo(lk, x, hash) == x \in DOMAIN lk /\ lk[x] = hash

\* What file n does to the lockfile and the store.
LEMMA TableStepAt ==
    ASSUME NEW table, NEW files, Listed(files), NEW n \in 1 .. Len(files)
    PROVE  /\ IsBatch(EntriesAt(files, n))
           /\ NamesIn(files[n]) = LocalNames(EntriesAt(files, n))
           /\ TableAt(table, files, n).lock =
                 Inserted(TableAt(table, files, n - 1).lock,
                          Rebinding(EntriesAt(files, n), HashesAt(table, files, n)))
           /\ TableAt(table, files, n).store =
                 CommittedStore(TableAt(table, files, n - 1).store,
                                EntriesAt(files, n), HashesAt(table, files, n),
                                TableAt(table, files, n - 1).lock)
<1>1. Len(files) \in Nat /\ files[n].text \in Texts
  BY DEF Listed
<1>2. Progress(table, files)[n] =
          CommittedFile(table.lock, Progress(table, files)[n - 1], files[n])
  BY <1>1, ProgressDefined
<1>3. IsBatch(EntriesAt(files, n))
  BY <1>1, TextAssumption DEF EntriesAt
<1>4. NamesIn(files[n]) = LocalNames(EntriesAt(files, n))
  BY DEF NamesIn, EntriesAt
<1>5. QED
  BY <1>2, <1>3, <1>4, FileParts DEF TableAt, HashesAt, EntriesAt

\* A commit leaves alone the bindings of names that no file declares.
LEMMA BindingKept ==
    ASSUME NEW table, NEW files, Listed(files),
           NEW m \in 0 .. Len(files), NEW n \in m .. Len(files), NEW x,
           \A k \in m + 1 .. n : x \notin NamesIn(files[k])
    PROVE  SameAt(TableAt(table, files, m).lock, TableAt(table, files, n).lock, x)
<1> DEFINE Lock(k) == TableAt(table, files, k).lock
           Some == {k \in m .. n : SameAt(Lock(m), Lock(k), x)}
<1>1. Len(files) \in Nat
  BY DEF Listed
<1>2. ASSUME NEW k \in m + 1 .. n PROVE SameAt(Lock(k - 1), Lock(k), x)
  <2> DEFINE new == Rebinding(EntriesAt(files, k), HashesAt(table, files, k))
  <2>1. k \in 1 .. Len(files) /\ x \notin NamesIn(files[k])
    BY <1>1
  <2>2. /\ NamesIn(files[k]) = LocalNames(EntriesAt(files, k))
        /\ Lock(k) = Inserted(Lock(k - 1), new)
    BY <2>1, TableStepAt
  <2>3. DOMAIN new = LocalNames(EntriesAt(files, k))
    BY DEF Rebinding
  <2> HIDE DEF Lock, new
  <2>4. x \notin DOMAIN new
    BY <2>1, <2>2, <2>3
  <2>5. QED
    BY <2>2, <2>4 DEF SameAt, Inserted
<1> HIDE DEF Lock
<1>3. m \in Some
  BY DEF SameAt
<1>4. ASSUME NEW k \in m .. n - 1, k \in Some PROVE k + 1 \in Some
  <2>1. k + 1 \in m + 1 .. n /\ k + 1 - 1 = k /\ k + 1 \in m .. n
    BY <1>1
  <2>2. SameAt(Lock(k), Lock(k + 1), x)
    BY <1>2, <2>1
  <2>3. SameAt(Lock(m), Lock(k), x)
    BY <1>4
  <2>4. SameAt(Lock(m), Lock(k + 1), x)
    BY <2>2, <2>3 DEF SameAt
  <2>5. QED
    BY <2>1, <2>4
<1>5. m .. n \subseteq Some
  <2> HIDE DEF Some
  <2>1. m \in Nat /\ n \in Nat
    BY <1>1
  <2>2. QED
    BY <2>1, <1>3, <1>4, CountingUp
<1>6. n \in m .. n
  BY <1>1
<1>7. SameAt(Lock(m), Lock(n), x)
  BY <1>5, <1>6
<1>8. QED
  BY <1>7 DEF Lock

\* A name is bound to what the last file that declares it makes of it.
LEMMA BindingOf ==
    ASSUME NEW table, NEW files, Listed(files), NEW k \in 1 .. Len(files),
           NEW n \in k .. Len(files), NEW x \in NamesIn(files[k]),
           \A j \in k + 1 .. n : x \notin NamesIn(files[j])
    PROVE  BoundTo(TableAt(table, files, n).lock, x,
                   Rebinding(EntriesAt(files, k), HashesAt(table, files, k))[x])
<1> DEFINE own == TableAt(table, files, k).lock
           lk == TableAt(table, files, n).lock
           new == Rebinding(EntriesAt(files, k), HashesAt(table, files, k))
<1>1. k \in 0 .. Len(files)
  BY DEF Listed
<1>2. SameAt(own, lk, x)
  BY <1>1, BindingKept
<1>3. /\ NamesIn(files[k]) = LocalNames(EntriesAt(files, k))
      /\ own = Inserted(TableAt(table, files, k - 1).lock, new)
  BY TableStepAt
<1>4. x \in DOMAIN new
  BY <1>3 DEF Rebinding
<1> HIDE DEF new, own, lk
<1>5. x \in DOMAIN own /\ own[x] = new[x]
  BY <1>3, <1>4 DEF Inserted
<1>6. x \in DOMAIN lk /\ lk[x] = new[x]
  BY <1>2, <1>5 DEF SameAt
<1>7. QED
  BY <1>6 DEF new, lk, BoundTo

\* A commit removes no blob and no unsafe site.
LEMMA BlobsKept ==
    ASSUME NEW table, SoundTable(table), NEW files, Listed(files),
           NEW m \in 0 .. Len(files), NEW n \in m .. Len(files), NEW h,
           h \in DOMAIN TableAt(table, files, m).store
    PROVE  /\ h \in DOMAIN TableAt(table, files, n).store
           /\ TableAt(table, files, m).store[h].unsafe
                 \subseteq TableAt(table, files, n).store[h].unsafe
<1> DEFINE St(k) == TableAt(table, files, k).store
           Some == {k \in m .. n : /\ h \in DOMAIN St(k)
                                   /\ St(m)[h].unsafe \subseteq St(k)[h].unsafe}
<1>1. Len(files) \in Nat
  BY DEF Listed
<1>2. ASSUME NEW k \in m + 1 .. n, h \in DOMAIN St(k - 1)
      PROVE  h \in DOMAIN St(k) /\ St(k - 1)[h].unsafe \subseteq St(k)[h].unsafe
  <2> DEFINE b == EntriesAt(files, k)
             dag == HashesAt(table, files, k)
             external == TableAt(table, files, k - 1).lock
             sites == SitesOf(b, dag, h)
  <2>1. k \in 1 .. Len(files) /\ k - 1 \in 0 .. Len(files)
    BY <1>1
  <2>2. St(k) = CommittedStore(St(k - 1), b, dag, external)
    BY <2>1, TableStepAt
  <2>3. GoodStore(St(k - 1))
    BY <2>1, ProgressSound DEF SoundTable, TableAt
  <2> HIDE DEF St, b, dag, external
  <2>4. h \in DOMAIN St(k)
    <3>1. DOMAIN CommittedStore(St(k - 1), b, dag, external) =
              DOMAIN St(k - 1) \cup Range(dag)
      BY CommittedDomain
    <3>2. QED
      BY <1>2, <2>2, <3>1
  <2>5. St(k)[h] = GrownBlob(St(k - 1)[h], sites)
    BY <1>2, <2>2, <2>3, CommittedOld
  <2>6. GoodBlob(h, St(k - 1)[h])
    BY <1>2, <2>3 DEF GoodStore
  <2> HIDE DEF sites
  <2>7. St(k)[h].unsafe = St(k - 1)[h].unsafe \cup sites
    BY <2>5, <2>6, GrownGood
  <2>8. QED
    BY <2>4, <2>7
<1>3. h \in DOMAIN St(m)
  OBVIOUS
<1> HIDE DEF St
<1>4. m \in Some
  BY <1>3
<1>5. ASSUME NEW k \in m .. n - 1, k \in Some PROVE k + 1 \in Some
  <2>1. k + 1 \in m + 1 .. n /\ k + 1 - 1 = k /\ k + 1 \in m .. n
    BY <1>1
  <2>2. h \in DOMAIN St(k) /\ St(m)[h].unsafe \subseteq St(k)[h].unsafe
    BY <1>5
  <2>3. h \in DOMAIN St(k + 1) /\ St(k)[h].unsafe \subseteq St(k + 1)[h].unsafe
    BY <1>2, <2>1, <2>2
  <2>4. QED
    BY <2>1, <2>2, <2>3
<1>6. m .. n \subseteq Some
  <2> HIDE DEF Some
  <2>1. m \in Nat /\ n \in Nat
    BY <1>1
  <2>2. QED
    BY <2>1, <1>4, <1>5, CountingUp
<1>7. n \in m .. n
  BY <1>1
<1>8. h \in DOMAIN St(n) /\ St(m)[h].unsafe \subseteq St(n)[h].unsafe
  BY <1>6, <1>7
<1>9. QED
  BY <1>8 DEF St

\* The hashes of a file stay in the store, with the unsafe sites it declares.
LEMMA HashesStored ==
    ASSUME NEW table, SoundTable(table), NEW files, Listed(files),
           NEW k \in 1 .. Len(files), NEW n \in k .. Len(files),
           NEW h \in Range(HashesAt(table, files, k))
    PROVE  /\ h \in DOMAIN TableAt(table, files, n).store
           /\ SitesOf(EntriesAt(files, k), HashesAt(table, files, k), h)
                 \subseteq TableAt(table, files, n).store[h].unsafe
<1> DEFINE b == EntriesAt(files, k)
           dag == HashesAt(table, files, k)
           before == TableAt(table, files, k - 1)
           own == TableAt(table, files, k).store
           last == TableAt(table, files, n).store
<1>1. Len(files) \in Nat
  BY DEF Listed
<1>2. k - 1 \in 0 .. Len(files) /\ k \in 0 .. Len(files)
  BY <1>1
<1>3. IsBatch(b) /\ own = CommittedStore(before.store, b, dag, before.lock)
  BY TableStepAt
<1>4. SoundTable(before)
  BY <1>2, ProgressSound DEF TableAt
<1>5. dag = DagHashes(b, before.lock)
  BY DEF HashesAt
<1>6. DOMAIN dag = DOMAIN b
  BY <1>3, <1>5, DagHashesDefined
<1>7. h \in Range(dag)
  OBVIOUS
<1> HIDE DEF b, own, before
<1>8. \A i \in DOMAIN b :
          dag[i] \in DOMAIN own /\ b[i].unsafe \subseteq own[dag[i]].unsafe
  <2>1. /\ GoodStore(before.store) /\ Ranked(DOMAIN before.store)
        /\ Range(before.lock) \subseteq DOMAIN before.store
    BY <1>4 DEF SoundTable
  <2> HIDE DEF dag
  <2>2. QED
    BY <1>3, <1>5, <2>1, CommittedGood
<1> HIDE DEF dag
<1>9. h \in DOMAIN own
  BY <1>6, <1>7, <1>8 DEF Range
<1>10. SitesOf(b, dag, h) \subseteq own[h].unsafe
  BY <1>6, <1>8 DEF SitesOf, EntriesOf
<1>11. h \in DOMAIN last /\ own[h].unsafe \subseteq last[h].unsafe
  <2>1. h \in DOMAIN TableAt(table, files, k).store
    BY <1>9 DEF own
  <2>2. QED
    BY <1>2, <2>1, BlobsKept DEF own
<1> HIDE DEF last
<1>12. h \in DOMAIN last /\ SitesOf(b, dag, h) \subseteq last[h].unsafe
  BY <1>10, <1>11
<1>13. QED
  BY <1>12 DEF last, b, dag

\* Committing a batch whose bindings and blobs are there changes nothing.
LEMMA NothingNew ==
    ASSUME NEW st, GoodStore(st), st = [h \in DOMAIN st |-> st[h]],
           NEW lk, lk = [x \in DOMAIN lk |-> lk[x]],
           NEW b, NEW dag, DOMAIN dag = DOMAIN b,
           Range(dag) \subseteq DOMAIN st,
           \A h \in Range(dag) : SitesOf(b, dag, h) \subseteq st[h].unsafe,
           \A x \in LocalNames(b) :
               x \in DOMAIN lk /\ lk[x] = Rebinding(b, dag)[x]
    PROVE  /\ CommittedStore(st, b, dag, lk) = st
           /\ Inserted(lk, Rebinding(b, dag)) = lk
<1> DEFINE new == CommittedStore(st, b, dag, lk)
           table == Inserted(lk, Rebinding(b, dag))
<1>1. DOMAIN new = DOMAIN st
  BY DEF CommittedStore
<1>2. ASSUME NEW h \in DOMAIN st PROVE new[h] = st[h]
  <2> DEFINE sites == SitesOf(b, dag, h)
             blob == st[h]
  <2>1. sites \subseteq blob.unsafe
    <3>1. CASE h \in Range(dag)
      BY <3>1
    <3>2. CASE h \notin Range(dag)
      BY <3>2 DEF SitesOf, EntriesOf, Range
    <3>3. QED
      BY <3>1, <3>2
  <2>2. new[h] = GrownBlob(blob, sites)
    BY CommittedOld
  <2>3. blob = [name |-> blob.name, def |-> blob.def, ops |-> blob.ops,
                unsafe |-> blob.unsafe, deps |-> blob.deps,
                reviewed |-> blob.reviewed]
    BY DEF GoodStore, GoodBlob
  <2> HIDE DEF sites, blob, new
  <2>4. blob.unsafe \cup sites = blob.unsafe
    BY <2>1
  <2>5. GrownBlob(blob, sites) = blob
    BY <2>3, <2>4 DEF GrownBlob
  <2>6. QED
    BY <2>2, <2>5 DEF blob
<1>3. new = [h \in DOMAIN st |-> new[h]]
  BY <1>1 DEF CommittedStore
<1>4. new = st
  <2> HIDE DEF new
  <2>1. QED
    BY <1>2, <1>3
<1>5. DOMAIN Rebinding(b, dag) = LocalNames(b)
  BY DEF Rebinding
<1> DEFINE bound == Rebinding(b, dag)
<1>6. table = [x \in DOMAIN lk \cup DOMAIN bound |->
                  IF x \in DOMAIN bound THEN bound[x] ELSE lk[x]]
  BY DEF Inserted
<1> HIDE DEF bound, table
<1>7. table = [x \in DOMAIN lk |-> lk[x]]
  BY <1>5, <1>6 DEF bound
<1>8. QED
  BY <1>4, <1>7 DEF table

\* What a file's definition refers to is among the file's references.
LEMMA FileRefs ==
    ASSUME NEW files, NEW k, NEW i \in DOMAIN EntriesAt(files, k),
           NEW x \in Range(EntriesAt(files, k)[i].refs)
    PROVE  x \in RefsOf(files[k])
BY DEF EntriesAt, RefsOf

\* In a snapshot that lists imports first, a file's hashes are the same
\* against the lockfile the whole commit has left.
LEMMA InOrderHashes ==
    ASSUME NEW table, NEW files, Listed(files), InOrder(files),
           NEW k \in 1 .. Len(files)
    PROVE  HashesAt(table, files, k) =
               DagHashes(EntriesAt(files, k), TableAt(table, files, Len(files)).lock)
<1> DEFINE N == Len(files)
           b == EntriesAt(files, k)
           before == TableAt(table, files, k - 1).lock
           last == TableAt(table, files, N).lock
<1>1. N \in Nat /\ k - 1 \in 0 .. N /\ N \in k - 1 .. N /\ DOMAIN files = 1 .. N
  BY DEF Listed
<1>2. IsBatch(b) /\ LocalNames(b) = NamesIn(files[k])
  BY TableStepAt
<1>3. ASSUME NEW i \in DOMAIN b, NEW x \in Range(b[i].refs) \ LocalNames(b)
      PROVE  ExternalHash(before, x) = ExternalHash(last, x)
  <2>1. x \in RefsOf(files[k])
    BY FileRefs
  <2>2. ASSUME NEW j \in k - 1 + 1 .. N PROVE x \notin NamesIn(files[j])
    <3>1. j \in k .. N /\ k \in DOMAIN files /\ j \in DOMAIN files
      BY <1>1
    <3>2. CASE j = k
      BY <1>2, <3>2
    <3>3. CASE j # k /\ x \in NamesIn(files[j])
      <4>1. j \in Imports(files, k)
        BY <2>1, <3>1, <3>3 DEF Imports
      <4>2. j < k
        BY <3>1, <4>1 DEF InOrder
      <4>3. QED
        BY <1>1, <3>1, <4>2
    <3>4. QED
      BY <3>2, <3>3
  <2>3. SameAt(before, last, x)
    BY <1>1, <2>2, BindingKept
  <2>4. QED
    BY <2>3 DEF SameAt, ExternalHash
<1> HIDE DEF b, before, last
<1>4. DagHashes(b, before) = DagHashes(b, last)
  BY <1>2, <1>3, DagHashesExternal
<1>5. QED
  BY <1>4 DEF b, before, last, HashesAt

\* So a file of it changes nothing when it is committed again.
LEMMA InOrderFixed ==
    ASSUME NEW table, SoundTable(table), NEW files, Listed(files), InOrder(files),
           NEW found, NEW k \in 1 .. Len(files)
    PROVE  CommittedFile(found, TableAt(table, files, Len(files)), files[k]) =
               TableAt(table, files, Len(files))
<1> DEFINE N == Len(files)
           b == EntriesAt(files, k)
           dag == HashesAt(table, files, k)
           last == TableAt(table, files, N)
           new == CommittedFile(found, last, files[k])
<1>1. /\ N \in Nat /\ k \in 0 .. N /\ N \in k .. N /\ N \in 1 .. N /\ N \in 0 .. N
      /\ k - 1 \in 0 .. N
      /\ DOMAIN files = 1 .. N
  BY DEF Listed
<1>2. IsBatch(b) /\ LocalNames(b) = NamesIn(files[k])
  BY TableStepAt
<1>3. dag = DagHashes(b, last.lock)
  BY InOrderHashes
<1>4. DOMAIN dag = DOMAIN b
  BY <1>2, <1>3, DagHashesDefined
<1>5. GoodStore(last.store)
  BY <1>1, ProgressSound DEF SoundTable, TableAt
<1>6. /\ last.store = [h \in DOMAIN last.store |-> last.store[h]]
      /\ last.lock = [x \in DOMAIN last.lock |-> last.lock[x]]
  <2>1. /\ last.lock = Inserted(TableAt(table, files, N - 1).lock,
                          Rebinding(EntriesAt(files, N), HashesAt(table, files, N)))
        /\ last.store = CommittedStore(TableAt(table, files, N - 1).store,
                                EntriesAt(files, N), HashesAt(table, files, N),
                                TableAt(table, files, N - 1).lock)
    BY <1>1, TableStepAt
  <2> HIDE DEF last
  <2>2. QED
    BY <2>1 DEF Inserted, CommittedStore
<1>7. last = [store |-> last.store, lock |-> last.lock]
  <2>1. Progress(table, files)[N] =
            CommittedFile(table.lock, Progress(table, files)[N - 1], files[N])
    BY <1>1, ProgressDefined
  <2>2. QED
    BY <2>1, FileParts DEF TableAt
<1>8. ASSUME NEW h \in Range(dag)
      PROVE  /\ h \in DOMAIN last.store
             /\ SitesOf(b, dag, h) \subseteq last.store[h].unsafe
  BY <1>1, HashesStored
<1>9. ASSUME NEW x \in LocalNames(b)
      PROVE  x \in DOMAIN last.lock /\ last.lock[x] = Rebinding(b, dag)[x]
  <2>1. ASSUME NEW j \in k + 1 .. N PROVE x \notin NamesIn(files[j])
    <3>1. j \in DOMAIN files /\ k \in DOMAIN files /\ j # k
      BY <1>1
    <3>2. QED
      BY <1>2, <3>1 DEF InOrder
  <2>2. x \in NamesIn(files[k]) /\ N \in k .. N
    BY <1>1, <1>2
  <2>3. \A j \in k + 1 .. N : x \notin NamesIn(files[j])
    BY <2>1
  <2>4. BoundTo(last.lock, x, Rebinding(b, dag)[x])
    BY <2>2, <2>3, BindingOf
  <2>5. QED
    BY <2>4 DEF BoundTo
<1>10. /\ new.store = CommittedStore(last.store, b, DagHashes(b, last.lock), last.lock)
       /\ new.lock = Inserted(last.lock, Rebinding(b, DagHashes(b, last.lock)))
       /\ new = [store |-> new.store, lock |-> new.lock]
  BY FileParts DEF EntriesAt
<1> HIDE DEF b, dag, last, new
<1>11. Range(dag) \subseteq DOMAIN last.store
  BY <1>8
<1>12. /\ CommittedStore(last.store, b, dag, last.lock) = last.store
       /\ Inserted(last.lock, Rebinding(b, dag)) = last.lock
  BY <1>4, <1>5, <1>6, <1>8, <1>9, <1>11, NothingNew
<1>13. new.store = last.store /\ new.lock = last.lock
  BY <1>3, <1>10, <1>12
<1>14. new = last
  BY <1>7, <1>10, <1>13
<1>15. QED
  BY <1>14 DEF new, last

\* Nor does the whole list.
LEMMA InOrderAgain ==
    ASSUME NEW table, SoundTable(table), NEW files, Listed(files), InOrder(files)
    PROVE  Committed(Committed(table, files), files) = Committed(table, files)
<1> DEFINE N == Len(files)
           last == TableAt(table, files, N)
           again == Progress(last, files)
           Some == {n \in 0 .. N : again[n] = last}
<1>1. N \in Nat
  BY DEF Listed
<1>2. /\ again[0] = last
      /\ \A n \in 1 .. N : again[n] = CommittedFile(last.lock, again[n - 1], files[n])
  BY <1>1, ProgressDefined
<1>3. ASSUME NEW n \in 1 .. N PROVE CommittedFile(last.lock, last, files[n]) = last
  BY InOrderFixed
<1>4. /\ last = Committed(table, files)
      /\ again[N] = Committed(last, files)
  BY DEF TableAt, Committed
<1> HIDE DEF N, last, again
<1>5. 0 \in Some
  BY <1>1, <1>2
<1>6. ASSUME NEW n \in 0 .. N - 1, n \in Some PROVE n + 1 \in Some
  <2>1. n + 1 \in 1 .. N /\ n + 1 - 1 = n /\ again[n] = last
    BY <1>1, <1>6
  <2>2. again[n + 1] = CommittedFile(last.lock, last, files[n + 1])
    BY <1>2, <2>1
  <2>3. QED
    BY <1>1, <1>3, <2>1, <2>2
<1>7. 0 .. N \subseteq Some
  <2> HIDE DEF Some
  <2>1. QED
    BY <1>1, <1>5, <1>6, CountingUp
<1>8. again[N] = last
  BY <1>1, <1>7
<1>9. QED
  BY <1>4, <1>8

\* Whatever a snapshot's texts, to commit it again changes nothing if it
\* lists every module once and after its imports.
THEOREM CommitsIdempotent == Spec => InOrderIdempotent
<1> DEFINE Again ==
        \A id \in DOMAIN snapshots :
          InOrder(snapshots[id]) /\ Commit(id) =>
            Committed([store |-> store', lock |-> lock'], snapshots[id])
              = [store |-> store', lock |-> lock']
<1>1. SnapshotInv /\ SoundTable(Table) => Again
  <2> SUFFICES ASSUME SnapshotInv, SoundTable(Table),
                      NEW id \in DOMAIN snapshots,
                      InOrder(snapshots[id]), Commit(id)
               PROVE  Committed([store |-> store', lock |-> lock'], snapshots[id])
                        = [store |-> store', lock |-> lock']
    OBVIOUS
  <2>1. Listed(snapshots[id])
    BY SnapshotListed
  <2>2. Table' = Committed(Table, snapshots[id])
    BY <2>1, CommitTable
  <2>3. Committed(Committed(Table, snapshots[id]), snapshots[id]) =
            Committed(Table, snapshots[id])
    BY <2>1, InOrderAgain
  <2>4. Committed(Table', snapshots[id]) = Table'
    BY <2>2, <2>3
  <2>5. QED
    BY <2>4 DEF Table
<1> HIDE DEF Again
<1>2. Spec => [][Again]_vars
  BY <1>1, SnapshotAlways, TableAlways, PTL DEF Spec
<1>3. QED
  BY <1>2 DEF Again, InOrderIdempotent

-----------------------------------------------------------------------------
(***************************************************************************)
(* Committing until the hashes settle.                                     *)
(***************************************************************************)

\* Acyclic imports can be numbered so that every file imports lower ones.
LEMMA ImportRanks ==
    ASSUME NEW files, Listed(files), AcyclicImports(files)
    PROVE  \E rank : \A k \in 1 .. Len(files) :
              /\ rank[k] \in 1 .. Len(files)
              /\ \A j \in Imports(files, k) :
                    j \in 1 .. Len(files) /\ rank[j] < rank[k]
<1> DEFINE N == Len(files)
           graph == [k \in DOMAIN files |-> Imports(files, k)]
           Reach(k) == Reachable(graph, {k})
           rank == [k \in 1 .. N |-> Cardinality(Reach(k))]
<1>1. N \in Nat /\ DOMAIN files = 1 .. N
  BY DEF Listed
<1>2. /\ DOMAIN graph = 1 .. N
      /\ \A k \in 1 .. N : graph[k] = Imports(files, k) /\ graph[k] \subseteq 1 .. N
  BY <1>1 DEF Imports
<1>3. \A k \in 1 .. N : k \notin Reachable(graph, graph[k])
  BY <1>1 DEF AcyclicImports
<1> HIDE DEF graph
<1>4. \A n \in Nat : Cardinality(1 .. n) = n
  <2>1. \A n \in Nat : 1 \in Int /\ n \in Int
    OBVIOUS
  <2>2. QED
    BY <2>1, FS_Interval
<1> HIDE DEF N
<1>5. ASSUME NEW k \in 1 .. N
      PROVE  /\ Reach(k) \in SUBSET (1 .. N)
             /\ IsFiniteSet(Reach(k))
             /\ Cardinality(Reach(k)) \in 1 .. N
  <2>1. Reach(k) \in SUBSET (1 .. N) /\ k \in Reach(k)
    BY <1>2, ReachableSaturated, ReachableTransitive
  <2> HIDE DEF Reach
  <2>2. IsFiniteSet(Reach(k)) /\ Cardinality(Reach(k)) \in Nat
    BY <1>1, <2>1, PositionsFinite
  <2>3. Cardinality(Reach(k)) # 0
    BY <2>1, <2>2, FS_EmptySet
  <2>4. IsFiniteSet(1 .. N) /\ Cardinality(1 .. N) = N
    BY <1>1, <1>4, PositionsFinite
  <2>5. Cardinality(Reach(k)) <= N
    BY <2>1, <2>4, FS_Subset
  <2>6. QED
    BY <1>1, <2>1, <2>2, <2>3, <2>5
<1>6. ASSUME NEW k \in 1 .. N, NEW j \in Imports(files, k)
      PROVE  j \in 1 .. N /\ Cardinality(Reach(j)) < Cardinality(Reach(k))
  <2>1. j \in graph[k] \cap DOMAIN graph /\ j \in 1 .. N /\ k \in DOMAIN graph
    BY <1>2
  <2>2. j \notin Component(graph, k)
    <3>1. Reachable(graph, graph[k]) \in SUBSET DOMAIN graph
      BY ReachableSaturated
    <3>2. Saturated(graph, {j}, Reachable(graph, graph[k]))
      BY <2>1, ReachableSaturated DEF Saturated
    <3>3. Reach(j) \subseteq Reachable(graph, graph[k])
      BY <3>1, <3>2, ReachableLeast
    <3>4. QED
      BY <1>3, <3>3 DEF Component
  <2>3. Reach(j) \subseteq Reach(k) /\ k \in Reach(k) /\ k \notin Reach(j)
    BY <2>1, <2>2, SuccessorBelow
  <2>4. IsFiniteSet(Reach(k))
    BY <1>5
  <2>5. Cardinality(Reach(j)) \in 1 .. N /\ Cardinality(Reach(k)) \in 1 .. N
    BY <1>5, <2>1
  <2> HIDE DEF Reach
  <2>6. /\ Cardinality(Reach(j)) <= Cardinality(Reach(k))
        /\ Cardinality(Reach(j)) # Cardinality(Reach(k))
    BY <2>3, <2>4, FS_Subset
  <2>7. QED
    BY <1>1, <2>1, <2>5, <2>6
<1> HIDE DEF Reach
<1>7. ASSUME NEW k \in 1 .. N
      PROVE  /\ rank[k] \in 1 .. N
             /\ \A j \in Imports(files, k) : j \in 1 .. N /\ rank[j] < rank[k]
  <2>1. rank[k] = Cardinality(Reach(k)) /\ rank[k] \in 1 .. N
    BY <1>5
  <2>2. ASSUME NEW j \in Imports(files, k)
        PROVE  j \in 1 .. N /\ rank[j] < rank[k]
    <3>1. j \in 1 .. N /\ Cardinality(Reach(j)) < Cardinality(Reach(k))
      BY <1>6
    <3>2. rank[j] = Cardinality(Reach(j))
      BY <3>1
    <3> HIDE DEF rank
    <3>3. QED
      BY <2>1, <3>1, <3>2
  <2>3. QED
    BY <2>1, <2>2
<1> HIDE DEF rank
<1>8. QED
  BY <1>7 DEF N

\* The table before commit q of a series, counted from 0, and the hashes
\* file k gets in that commit.
RoundAt(table, files, q) == Rounds(table, files)[q]
RoundHashes(table, files, q, k) == HashesAt(RoundAt(table, files, q), files, k)

\* What the file makes of its names then.
RoundBinding(table, files, q, k) ==
    Rebinding(EntriesAt(files, k), RoundHashes(table, files, q, k))

\* The lockfile after the first n files of commit q.
RoundLock(table, files, q, n) ==
    TableAt(RoundAt(table, files, q), files, n).lock

\* A commit of the series starts where the one before it ended.
LEMMA RoundsJoined ==
    ASSUME NEW table, NEW files, Listed(files)
    PROVE  /\ RoundLock(table, files, 0, 0) = table.lock
           /\ \A q \in 1 .. Len(files) :
                 RoundLock(table, files, q, 0) =
                     RoundLock(table, files, q - 1, Len(files))
<1>1. Len(files) \in Nat
  BY DEF Listed
<1>2. /\ Rounds(table, files)[0] = table
      /\ \A q \in 1 .. Len(files) :
            Rounds(table, files)[q] = Committed(Rounds(table, files)[q - 1], files)
  BY <1>1, RoundsDefined
<1>3. \A t : Progress(t, files)[0] = t
  BY <1>1, ProgressDefined
<1>4. QED
  BY <1>2, <1>3 DEF RoundLock, RoundAt, TableAt, Committed

\* A name no file declares is never bound anew.
LEMMA RoundUnowned ==
    ASSUME NEW table, NEW files, Listed(files), NEW x,
           \A k \in 1 .. Len(files) : x \notin NamesIn(files[k]),
           NEW q \in 0 .. Len(files), NEW n \in 0 .. Len(files)
    PROVE  SameAt(table.lock, RoundLock(table, files, q, n), x)
<1> DEFINE N == Len(files)
           Lock(p, m) == RoundLock(table, files, p, m)
           Some == {p \in 0 .. N : SameAt(table.lock, Lock(p, 0), x)}
<1>1. N \in Nat
  BY DEF Listed
<1>2. ASSUME NEW p, NEW m \in 0 .. N PROVE SameAt(Lock(p, 0), Lock(p, m), x)
  <2>1. \A k \in 0 + 1 .. m : x \notin NamesIn(files[k])
    BY <1>1
  <2>2. 0 \in 0 .. N /\ m \in 0 .. N
    BY <1>1
  <2>3. QED
    BY <2>1, <2>2, BindingKept DEF RoundLock
<1>3. /\ Lock(0, 0) = table.lock
      /\ \A p \in 1 .. N : Lock(p, 0) = Lock(p - 1, N)
  BY RoundsJoined
<1> HIDE DEF N, Lock
<1>4. 0 \in Some
  BY <1>1, <1>3 DEF SameAt
<1>5. ASSUME NEW p \in 0 .. N - 1, p \in Some PROVE p + 1 \in Some
  <2>1. p + 1 \in 1 .. N /\ p + 1 - 1 = p /\ N \in 0 .. N
    BY <1>1
  <2>2. SameAt(table.lock, Lock(p, 0), x)
    BY <1>5
  <2>3. SameAt(Lock(p, 0), Lock(p, N), x) /\ Lock(p + 1, 0) = Lock(p, N)
    BY <1>2, <1>3, <2>1
  <2>4. SameAt(table.lock, Lock(p + 1, 0), x)
    BY <2>2, <2>3 DEF SameAt
  <2>5. QED
    BY <1>1, <2>1, <2>4
<1>6. 0 .. N \subseteq Some
  <2> HIDE DEF Some
  <2>1. QED
    BY <1>1, <1>4, <1>5, CountingUp
<1>7. SameAt(table.lock, Lock(q, 0), x)
  BY <1>6 DEF N
<1>8. SameAt(Lock(q, 0), Lock(q, n), x)
  BY <1>2 DEF N
<1>9. SameAt(table.lock, Lock(q, n), x)
  BY <1>7, <1>8 DEF SameAt
<1>10. QED
  BY <1>9 DEF Lock

\* A name one file declares is bound to what the file made of it, in this
\* commit from the file on, in the commit before it up to the file.
LEMMA RoundOwned ==
    ASSUME NEW table, NEW files, Listed(files), NEW j \in 1 .. Len(files),
           NEW x \in NamesIn(files[j]),
           \A k \in 1 .. Len(files) : k # j => x \notin NamesIn(files[k]),
           NEW q \in 0 .. Len(files), NEW n \in 0 .. Len(files)
    PROVE  /\ j <= n => BoundTo(RoundLock(table, files, q, n), x,
                                RoundBinding(table, files, q, j)[x])
           /\ n < j /\ 1 <= q => BoundTo(RoundLock(table, files, q, n), x,
                                         RoundBinding(table, files, q - 1, j)[x])
<1> DEFINE N == Len(files)
           Lock(p, m) == RoundLock(table, files, p, m)
           Value(p) == RoundBinding(table, files, p, j)[x]
<1>1. N \in Nat
  BY DEF Listed
<1>2. ASSUME NEW p, NEW m \in 0 .. N, j <= m PROVE BoundTo(Lock(p, m), x, Value(p))
  <2>1. m \in j .. N
    BY <1>1, <1>2
  <2>2. \A k \in j + 1 .. m : x \notin NamesIn(files[k])
    BY <1>1
  <2>3. QED
    BY <2>1, <2>2, BindingOf DEF RoundLock, RoundBinding, RoundHashes
<1>3. ASSUME n < j, 1 <= q PROVE BoundTo(Lock(q, n), x, Value(q - 1))
  <2>1. N \in 0 .. N /\ j <= N /\ q \in 1 .. N /\ 0 \in 0 .. N /\ n \in 0 .. N
    BY <1>1, <1>3
  <2>2. BoundTo(Lock(q - 1, N), x, Value(q - 1))
    BY <1>2, <2>1
  <2>3. Lock(q, 0) = Lock(q - 1, N)
    BY <2>1, RoundsJoined
  <2>4. \A k \in 0 + 1 .. n : x \notin NamesIn(files[k])
    BY <1>1, <1>3
  <2>5. SameAt(Lock(q, 0), Lock(q, n), x)
    BY <2>1, <2>4, BindingKept DEF RoundLock
  <2> HIDE DEF Lock, Value
  <2>6. QED
    BY <2>2, <2>3, <2>5 DEF BoundTo, SameAt
<1>4. QED
  BY <1>2, <1>3

\* A file's hashes settle one commit after those of the files it imports.
LEMMA FileSettles ==
    ASSUME NEW table, NEW files, Listed(files), AcyclicImports(files),
           NEW k \in 1 .. Len(files), NEW q \in 1 .. Len(files),
           \A j \in Imports(files, k) :
              /\ 2 <= q
              /\ RoundHashes(table, files, q, j) = RoundHashes(table, files, q - 1, j)
              /\ RoundHashes(table, files, q - 1, j)
                    = RoundHashes(table, files, q - 2, j)
    PROVE  RoundHashes(table, files, q, k) = RoundHashes(table, files, q - 1, k)
<1> DEFINE N == Len(files)
           b == EntriesAt(files, k)
           now == RoundLock(table, files, q, k - 1)
           then == RoundLock(table, files, q - 1, k - 1)
<1>1. /\ N \in Nat /\ DOMAIN files = 1 .. N
      /\ k - 1 \in 0 .. N /\ q \in 0 .. N /\ q - 1 \in 0 .. N
  BY DEF Listed
<1>2. IsBatch(b) /\ LocalNames(b) = NamesIn(files[k])
  BY TableStepAt
<1>3. ASSUME NEW i \in DOMAIN b, NEW x \in Range(b[i].refs) \ LocalNames(b)
      PROVE  ExternalHash(then, x) = ExternalHash(now, x)
  <2>1. CASE \A j \in 1 .. N : x \notin NamesIn(files[j])
    <3>1. SameAt(table.lock, now, x)
      BY <1>1, <2>1, RoundUnowned
    <3>2. SameAt(table.lock, then, x)
      BY <1>1, <2>1, RoundUnowned
    <3> HIDE DEF now, then
    <3>3. QED
      BY <3>1, <3>2 DEF SameAt, ExternalHash
  <2>2. ASSUME NEW j \in 1 .. N, x \in NamesIn(files[j])
        PROVE  ExternalHash(then, x) = ExternalHash(now, x)
    <3> DEFINE Value(p) == RoundBinding(table, files, p, j)[x]
    <3>1. j # k
      BY <1>2, <2>2
    <3>2. x \in RefsOf(files[k])
      BY FileRefs
    <3>3. j \in Imports(files, k)
      BY <1>1, <2>2, <3>1, <3>2 DEF Imports
    <3>4. /\ 2 <= q /\ q - 2 \in 0 .. N /\ 1 <= q /\ 1 <= q - 1 /\ q - 1 - 1 = q - 2
          /\ RoundHashes(table, files, q, j) = RoundHashes(table, files, q - 1, j)
          /\ RoundHashes(table, files, q - 1, j)
                = RoundHashes(table, files, q - 2, j)
      BY <1>1, <3>3
    <3>5. Value(q) = Value(q - 1) /\ Value(q - 1) = Value(q - 2)
      BY <3>4 DEF RoundBinding
    <3>6. \A m \in 1 .. N : m # j => x \notin NamesIn(files[m])
      BY <1>1, <2>2 DEF AcyclicImports
    <3>7. /\ j <= k - 1 => BoundTo(now, x, Value(q))
          /\ k - 1 < j /\ 1 <= q => BoundTo(now, x, Value(q - 1))
      BY <1>1, <2>2, <3>6, RoundOwned
    <3>8. /\ j <= k - 1 => BoundTo(then, x, Value(q - 1))
          /\ k - 1 < j /\ 1 <= q - 1 => BoundTo(then, x, Value(q - 1 - 1))
      BY <1>1, <2>2, <3>6, RoundOwned
    <3> HIDE DEF now, then, Value
    <3>9. BoundTo(now, x, Value(q - 1)) /\ BoundTo(then, x, Value(q - 1))
      BY <1>1, <3>4, <3>5, <3>7, <3>8
    <3>10. QED
      BY <3>9 DEF BoundTo, ExternalHash
  <2>3. QED
    BY <2>1, <2>2
<1> HIDE DEF b, now, then
<1>4. DagHashes(b, then) = DagHashes(b, now)
  BY <1>2, <1>3, DagHashesExternal
<1>5. QED
  BY <1>4 DEF b, now, then, RoundHashes, HashesAt, RoundLock

\* After as many commits as there are files, all hashes have settled.
LEMMA HashesSettle ==
    ASSUME NEW table, NEW files, Listed(files), AcyclicImports(files),
           NEW k \in 1 .. Len(files)
    PROVE  RoundHashes(table, files, Len(files), k) =
               RoundHashes(table, files, Len(files) - 1, k)
<1> DEFINE N == Len(files)
           H(q, j) == RoundHashes(table, files, q, j)
<1>1. N \in Nat
  BY DEF Listed
<1>2. PICK rank : \A j \in 1 .. N :
                     /\ rank[j] \in 1 .. N
                     /\ \A i \in Imports(files, j) : i \in 1 .. N /\ rank[i] < rank[j]
  BY ImportRanks
<1>3. ASSUME NEW j \in 1 .. N, NEW q \in 1 .. N,
             \A i \in Imports(files, j) :
                2 <= q /\ H(q, i) = H(q - 1, i) /\ H(q - 1, i) = H(q - 2, i)
      PROVE  H(q, j) = H(q - 1, j)
  BY <1>3, FileSettles
<1> DEFINE Settled(s) ==
        \A j \in 1 .. N : rank[j] <= s =>
            \A q \in 1 .. N : s <= q => H(q, j) = H(q - 1, j)
<1> DEFINE Some == {s \in 0 .. N : Settled(s)}
<1> HIDE DEF N, H
<1>4. 0 \in Some
  <2>1. \A j \in 1 .. N : ~ (rank[j] <= 0)
    BY <1>1, <1>2
  <2>2. QED
    BY <1>1, <2>1
<1>5. ASSUME NEW s \in 0 .. N - 1, s \in Some PROVE s + 1 \in Some
  <2>1. s + 1 \in 0 .. N /\ Settled(s)
    BY <1>1, <1>5
  <2>2. ASSUME NEW j \in 1 .. N, rank[j] <= s + 1, NEW q \in 1 .. N, s + 1 <= q
        PROVE  H(q, j) = H(q - 1, j)
    <3>1. ASSUME NEW i \in Imports(files, j)
          PROVE  2 <= q /\ H(q, i) = H(q - 1, i) /\ H(q - 1, i) = H(q - 2, i)
      <4>1. /\ i \in 1 .. N /\ rank[i] \in 1 .. N /\ rank[j] \in 1 .. N
            /\ rank[i] < rank[j]
        BY <1>2
      <4>2. rank[i] <= s /\ 2 <= q /\ q - 1 \in 1 .. N /\ s <= q /\ s <= q - 1
        BY <1>1, <2>2, <4>1
      <4>3. q - 1 - 1 = q - 2
        OBVIOUS
      <4>4. H(q, i) = H(q - 1, i)
        BY <2>1, <4>1, <4>2
      <4>5. H(q - 1, i) = H(q - 1 - 1, i)
        BY <2>1, <4>1, <4>2
      <4>6. QED
        BY <4>2, <4>3, <4>4, <4>5
    <3>2. QED
      BY <1>3, <3>1
  <2>3. Settled(s + 1)
    BY <2>2
  <2> HIDE DEF Settled
  <2>4. QED
    BY <2>1, <2>3
<1>6. 0 .. N \subseteq Some
  <2> HIDE DEF Some
  <2>1. QED
    BY <1>1, <1>4, <1>5, CountingUp
<1>7. N \in 0 .. N /\ k \in 1 .. N /\ N \in 1 .. N
  BY <1>1 DEF N
<1>8. Settled(N)
  <2> HIDE DEF Settled
  <2>1. QED
    BY <1>6, <1>7
<1>9. rank[k] <= N /\ N <= N
  BY <1>1, <1>2, <1>7
<1>10. H(N, k) = H(N - 1, k)
  BY <1>7, <1>8, <1>9
<1>11. QED
  BY <1>10 DEF H, N

\* One more commit leaves the lockfile as it is.
LEMMA LockSettles ==
    ASSUME NEW table, NEW files, Listed(files), AcyclicImports(files)
    PROVE  LET settled == Rounds(table, files)[Len(files)]
           IN  Committed(settled, files).lock = settled.lock
<1> DEFINE N == Len(files)
           settled == Rounds(table, files)[N]
           again == Committed(settled, files)
<1>1. N \in Nat /\ DOMAIN files = 1 .. N
  BY DEF Listed
<1>2. CASE N = 0
  <2>1. Progress(settled, files)[0] = settled
    BY <1>1, ProgressDefined
  <2>2. again = settled
    BY <1>2, <2>1 DEF Committed
  <2>3. QED
    BY <2>2
<1>3. CASE N # 0
  <2> DEFINE old == RoundLock(table, files, N - 1, N)
             new == RoundLock(table, files, N, N)
  <2>1. N \in 1 .. N /\ N - 1 \in 0 .. N /\ N \in 0 .. N
    BY <1>1, <1>3
  <2>2. settled = Committed(Rounds(table, files)[N - 1], files)
    BY <1>1, <2>1, RoundsDefined
  <2>3. settled.lock = old /\ again.lock = new
    BY <2>2 DEF RoundLock, RoundAt, TableAt, Committed
  <2>4. /\ old = [x \in DOMAIN old |-> old[x]]
        /\ new = [x \in DOMAIN new |-> new[x]]
    <3>1. ASSUME NEW t
          PROVE  TableAt(t, files, N).lock =
                    [x \in DOMAIN TableAt(t, files, N).lock |->
                        TableAt(t, files, N).lock[x]]
      <4> DEFINE lk == TableAt(t, files, N).lock
      <4>1. lk = Inserted(TableAt(t, files, N - 1).lock,
                          Rebinding(EntriesAt(files, N), HashesAt(t, files, N)))
        BY <2>1, TableStepAt
      <4> HIDE DEF lk
      <4>2. lk = [x \in DOMAIN lk |-> lk[x]]
        BY <4>1 DEF Inserted
      <4>3. QED
        BY <4>2 DEF lk
    <3>2. QED
      BY <3>1 DEF RoundLock
  <2>5. ASSUME NEW x PROVE SameAt(old, new, x)
    <3>1. CASE \A j \in 1 .. N : x \notin NamesIn(files[j])
      <4>1. SameAt(table.lock, old, x)
        BY <2>1, <3>1, RoundUnowned
      <4>2. SameAt(table.lock, new, x)
        BY <2>1, <3>1, RoundUnowned
      <4> HIDE DEF old, new
      <4>3. QED
        BY <4>1, <4>2 DEF SameAt
    <3>2. ASSUME NEW j \in 1 .. N, x \in NamesIn(files[j]) PROVE SameAt(old, new, x)
      <4>1. \A m \in 1 .. N : m # j => x \notin NamesIn(files[m])
        BY <1>1, <3>2 DEF AcyclicImports
      <4>2. j <= N
        BY <1>1
      <4>3. BoundTo(new, x, RoundBinding(table, files, N, j)[x])
        BY <2>1, <3>2, <4>1, <4>2, RoundOwned
      <4>4. BoundTo(old, x, RoundBinding(table, files, N - 1, j)[x])
        BY <2>1, <3>2, <4>1, <4>2, RoundOwned
      <4>5. RoundBinding(table, files, N, j) = RoundBinding(table, files, N - 1, j)
        BY HashesSettle DEF RoundBinding
      <4> HIDE DEF old, new
      <4>6. QED
        BY <4>3, <4>4, <4>5 DEF SameAt, BoundTo
    <3>3. QED
      BY <3>1, <3>2
  <2> HIDE DEF old, new
  <2>6. DOMAIN old = DOMAIN new /\ \A x \in DOMAIN old : old[x] = new[x]
    BY <2>5 DEF SameAt
  <2>7. old = new
    BY <2>4, <2>6
  <2>8. QED
    BY <2>3, <2>7
<1>4. QED
  BY <1>2, <1>3

\* Whatever order a snapshot lists its files in, and whatever the lockfile
\* held, their hashes settle within as many commits as there are files,
\* unless imports are cyclic or two files declare a name.
THEOREM CommitsSettle == Spec => []AcyclicCommitsSettle
<1>1. SnapshotInv => AcyclicCommitsSettle
  BY SnapshotListed, LockSettles DEF AcyclicCommitsSettle
<1>2. QED
  BY <1>1, SnapshotAlways, PTL
====
