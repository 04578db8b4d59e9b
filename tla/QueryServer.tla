---- MODULE QueryServer ----
(***************************************************************************)
(* marv-server/src/lib.rs over marv-db: the agent's workspace as immutable *)
(* snapshots over a growing set of salsa inputs, one request at a time,    *)
(* and the store a snapshot is committed to.                               *)
(*                                                                         *)
(* A text is an opaque value; what the compiler sees in it is given by the *)
(* constants below, and the kind of a file, source or Core, counts as part *)
(* of its text.  The byte edits of applyEdits appear here by the texts     *)
(* they produce; module TextEdits models the editing itself.  Requests     *)
(* that only read, or that report an error, change nothing but salsa's     *)
(* memo of the inputs they analyze: an input's analysis runs at most once, *)
(* so the inputs count the analyses.                                       *)
(***************************************************************************)
EXTENDS StoreOps

CONSTANTS
    Paths,          \* file paths
    Texts,          \* file contents
    Unparsable,     \* the texts that do not parse or lower
    Defs,           \* text -> the entries of its module, <<>> if unparsable
    Canonical,      \* text -> its canonical form, itself if it does not parse
    Faulty,         \* the texts whose analysis reports a diagnostic
    Repaired,       \* faulty text -> what its fix makes of it, or NoFix
    NoFix,          \* the fix has no resolvable span
    Openings,       \* the file lists an openSnapshot may be given
    MaxRequests     \* bound on the requests that register a snapshot or commit

ASSUME TextAssumption ==
    /\ Unparsable \subseteq Texts
    /\ Faulty \subseteq Texts
    /\ \A t \in Texts : Canonical[t] \in Texts
    /\ \A t \in Texts : IsBatch(Defs[t])
    /\ \A t \in Unparsable : Defs[t] = <<>>
    /\ \A t \in Faulty : Repaired[t] \in Texts \cup {NoFix}

\* No snapshot is opened with two files of one path: applyEdits would give
\* both the later text.
ASSUME OpeningsAssumption ==
    /\ Openings \subseteq Seq([path: Paths, text: Texts])
    /\ \A files \in Openings :
          \A j, k \in DOMAIN files : files[j].path = files[k].path => j = k

VARIABLES
    inputs,     \* the salsa inputs created so far, <<path and text>>
    snapshots,  \* live snapshot id -> its files
    nextId,     \* next_id
    store, lock,
    commits     \* history: number of commits so far

vars == <<inputs, snapshots, nextId, store, lock, commits>>

\* Mutant: a file that keeps its path keeps its input.
SamePath(f, wanted) == f.path = wanted.path

\* Whether base file f is the wanted file, unchanged.
Unchanged(f, wanted) == f.path = wanted.path /\ f.text = wanted.text

\* The positions of the wanted files that need an input of their own.
Fresh(base, wanted) ==
    {k \in DOMAIN wanted :
        \A j \in DOMAIN base : ~ Unchanged(base[j], wanted[k])}

\* The wanted files with their inputs: an unchanged file keeps the one of the
\* base snapshot, the others get new ones in order.
Rebuilt(base, wanted) ==
    LET fresh == Fresh(base, wanted)
    IN  [k \in DOMAIN wanted |->
            [path |-> wanted[k].path, text |-> wanted[k].text,
             input |-> IF k \in fresh
                       THEN Len(inputs) + PositionIn(fresh, k)
                       ELSE LET j == CHOOSE j \in DOMAIN base :
                                        Unchanged(base[j], wanted[k])
                            IN  base[j].input]]

NewInputs(base, wanted) ==
    LET fresh == Fresh(base, wanted)
    IN  [p \in 1 .. Cardinality(fresh) |->
            LET f == wanted[MemberAt(fresh, p)]
            IN  [path |-> f.path, text |-> f.text]]

\* Mutant: an id is the number of live snapshots, counted from one.
NextOfLive == Cardinality(DOMAIN snapshots) + 1

FreshId == nextId

Requests == nextId - 1 + commits

\* register: the new snapshot lists the wanted files.
Register(base, wanted) ==
    /\ Requests < MaxRequests
    /\ inputs' = inputs \o NewInputs(base, wanted)
    /\ snapshots' = Inserted(snapshots,
                        [i \in {FreshId} |-> Rebuilt(base, wanted)])
    /\ nextId' = nextId + 1
    /\ UNCHANGED <<store, lock, commits>>
-----------------------------------------------------------------------------
Init ==
    /\ inputs = <<>>
    /\ snapshots = <<>>
    /\ nextId = 1
    /\ store = <<>>
    /\ lock = <<>>
    /\ commits = 0

\* openSnapshot, and openPackage with the sources the package loader found.
OpenSnapshot(files) == Register(<<>>, files)

\* The files of a snapshot with path's text replaced; a path the snapshot
\* does not have is appended.
Edited(base, path, text) ==
    IF \E k \in DOMAIN base : base[k].path = path
    THEN [k \in DOMAIN base |->
            [path |-> base[k].path,
             text |-> IF base[k].path = path THEN text ELSE base[k].text]]
    ELSE [k \in DOMAIN base |->
            [path |-> base[k].path, text |-> base[k].text]]
         \o <<[path |-> path, text |-> text]>>

ApplyEdits(id, path, text) ==
    Register(snapshots[id], Edited(snapshots[id], path, text))

CloseSnapshot(id) ==
    /\ snapshots' = Restrict(snapshots, DOMAIN snapshots \ {id})
    /\ UNCHANGED <<inputs, nextId, store, lock, commits>>

\* applyFix: the file of the first diagnostic is repaired, every copy of it.
ApplyFix(id) ==
    LET base == snapshots[id]
        found == {k \in DOMAIN base : base[k].text \in Faulty}
    IN  /\ found # {}
        /\ LET f == base[CHOOSE k \in found : \A j \in found : k <= j]
           IN  /\ Repaired[f.text] # NoFix
               /\ Register(base, Edited(base, f.path, Repaired[f.text]))

\* format: every file is replaced by its canonical form.
Format(id) ==
    LET base == snapshots[id]
    IN  Register(base, [k \in DOMAIN base |->
            [path |-> base[k].path, text |-> Canonical[base[k].text]]])

\* Mutant: every file is resolved against the lockfile the request found.
StaleFile(found, table, file) ==
    LET batch == Defs[file.text]
        dag == DagHashes(batch, found)
    IN  [store |-> CommittedStore(table.store, batch, dag, found),
         lock |-> Inserted(table.lock, Rebinding(batch, dag))]

\* Mutant: every file goes to a store of its own, the last one stays.
OwnStoreFile(found, table, file) ==
    LET batch == Defs[file.text]
        dag == DagHashes(batch, table.lock)
    IN  [store |-> CommittedStore(<<>>, batch, dag, table.lock),
         lock |-> Inserted(table.lock, Rebinding(batch, dag))]

\* One file of a commit: a batch of its own, resolved against the lockfile
\* the files before it have left.  A file that does not parse has none.
CommittedFile(found, table, file) ==
    LET batch == Defs[file.text]
        dag == DagHashes(batch, table.lock)
    IN  [store |-> CommittedStore(table.store, batch, dag, table.lock),
         lock |-> Inserted(table.lock, Rebinding(batch, dag))]

\* The store and lockfile after the first n files, for every n.
Progress(table, files) ==
    LET after[n \in 0 .. Len(files)] ==
            IF n = 0 THEN table
            ELSE CommittedFile(table.lock, after[n - 1], files[n])
    IN  [n \in 0 .. Len(files) |-> after[n]]

\* The store and lockfile after committing the files in order.
Committed(table, files) == Progress(table, files)[Len(files)]

\* commit: nothing is checked first.
Commit(id) ==
    LET after == Committed([store |-> store, lock |-> lock], snapshots[id])
    IN  /\ Requests < MaxRequests
        /\ store' = after.store
        /\ lock' = after.lock
        /\ commits' = commits + 1
        /\ UNCHANGED <<inputs, snapshots, nextId>>

Next ==
    \/ \E files \in Openings : OpenSnapshot(files)
    \/ \E id \in DOMAIN snapshots :
          \/ \E path \in Paths, text \in Texts : ApplyEdits(id, path, text)
          \/ CloseSnapshot(id)
          \/ ApplyFix(id)
          \/ Format(id)
          \/ Commit(id)

Spec == Init /\ [][Next]_vars
-----------------------------------------------------------------------------
\* The two views of a file agree: queries answer from its input's memoized
\* analysis, check, verify and commit from the text the snapshot holds.
AnswersMatchSnapshot ==
    \A id \in DOMAIN snapshots :
        \A k \in DOMAIN snapshots[id] :
            LET f == snapshots[id][k]
            IN  /\ f.input \in DOMAIN inputs
                /\ inputs[f.input] = [path |-> f.path, text |-> f.text]

\* An id an agent holds denotes the files it was returned for as long as it
\* denotes anything: no later request changes them, and no id is given twice.
IdsDenoteForever ==
    [][/\ \A id \in DOMAIN snapshots \cap DOMAIN snapshots' :
              snapshots'[id] = snapshots[id]
       /\ \A id \in DOMAIN snapshots' \ DOMAIN snapshots : id >= nextId]_vars

\* Commits file by file keep the store closed: every binding can be fetched.
StoreClosed ==
    /\ Range(lock) \subseteq DOMAIN store
    /\ \A h \in DOMAIN store : store[h].deps \subseteq DOMAIN store

NamesIn(f) == LocalNames(Defs[f.text])
RefsOf(f) == UNION {Range(Defs[f.text][i].refs) : i \in DOMAIN Defs[f.text]}
Imports(files, k) ==
    {j \in DOMAIN files \ {k} : RefsOf(files[k]) \cap NamesIn(files[j]) # {}}

\* No module is declared by two files, and every import precedes its user.
InOrder(files) ==
    \A k \in DOMAIN files :
        /\ \A j \in DOMAIN files \ {k} : NamesIn(files[j]) \cap NamesIn(files[k]) = {}
        /\ \A j \in Imports(files, k) : j < k

\* docs/query-server.md and the comment on commit: re-committing is
\* idempotent.  It is so for snapshots that list a module after its imports.
InOrderIdempotent ==
    [][\A id \in DOMAIN snapshots :
          InOrder(snapshots[id]) /\ Commit(id) =>
            Committed([store |-> store', lock |-> lock'], snapshots[id])
              = [store |-> store', lock |-> lock']]_vars

\* No file imports, through others, itself, and no name has two owners.
AcyclicImports(files) ==
    LET graph == [k \in DOMAIN files |-> Imports(files, k)]
    IN  \A k \in DOMAIN files :
            /\ k \notin Reachable(graph, graph[k])
            /\ \A j \in DOMAIN files \ {k} :
                  NamesIn(files[j]) \cap NamesIn(files[k]) = {}

\* The tables after each of as many commits as there are files.
Rounds(table, files) ==
    LET after[n \in 0 .. Len(files)] ==
            IF n = 0 THEN table ELSE Committed(after[n - 1], files)
    IN  [n \in 0 .. Len(files) |-> after[n]]

\* In any other order the hashes settle after as many commits as there are
\* files, unless the imports are cyclic.
AcyclicCommitsSettle ==
    \A id \in DOMAIN snapshots :
        LET files == snapshots[id]
            settled == Rounds([store |-> store, lock |-> lock], files)[Len(files)]
        IN  AcyclicImports(files) =>
                Committed(settled, files).lock = settled.lock
====
