---- MODULE MarvStore ----
(***************************************************************************)
(* marv-store/src/lib.rs: the content-addressed store of definitions and   *)
(* the lockfile that names them.  The store maps a dag hash to a blob, the *)
(* lockfile a qualified name to a dag hash.  A commit freezes one batch of *)
(* source definitions and rebinds their names; a garbage collection drops  *)
(* the blobs no binding reaches.  Nothing ever unbinds a name.             *)
(***************************************************************************)
EXTENDS StoreOps

CONSTANTS
    Names,        \* qualified names
    Batches,      \* the batches of entries a commit may be given
    MaxCommits,   \* bound on the number of commits of a behaviour
    Sources       \* the module sets a build may be given

ASSUME NamesAssumption == \A b \in Batches : LocalNames(b) \subseteq Names
ASSUME BatchesAssumption == \A b \in Batches : IsBatch(b)
ASSUME MaxCommitsAssumption == MaxCommits \in Nat
ASSUME SourcesAssumption == \A source \in Sources : IsBatch(source)

VARIABLES
    store,      \* dag hash -> blob
    lock,       \* qualified name -> dag hash
    declared,   \* history: qualified name -> the entry last committed for it
    commits     \* history: number of commits so far

vars == <<store, lock, declared, commits>>
-----------------------------------------------------------------------------
Init ==
    /\ store = <<>>
    /\ lock = <<>>
    /\ declared = <<>>
    /\ commits = 0

\* commit_with_meta: references out of the batch resolve against the lockfile
\* as it was before the batch.
Commit(batch) ==
    LET dag == DagHashes(batch, lock)
    IN  /\ commits < MaxCommits
        /\ store' = CommittedStore(store, batch, dag, lock)
        /\ lock' = Inserted(lock, Rebinding(batch, dag))
        /\ declared' = Inserted(declared, Rebinding(batch, batch))
        /\ commits' = commits + 1

Gc ==
    /\ store' = CollectedStore(store, lock)
    /\ UNCHANGED <<lock, declared, commits>>

Next == (\E batch \in Batches : Commit(batch)) \/ Gc

Spec == Init /\ [][Next]_vars
-----------------------------------------------------------------------------
\* A blob has exactly the fields of StoredDef (its key is the hash field).
BlobFields == {"name", "def", "ops", "unsafe", "deps", "reviewed"}

\* Every binding is of a name some commit declared, every blob is reviewed
\* and carries the label of some definition.
TypeOK ==
    /\ DOMAIN lock \subseteq Names
    /\ DOMAIN declared = DOMAIN lock
    /\ commits \in 0 .. MaxCommits
    /\ \A h \in DOMAIN store :
          /\ DOMAIN store[h] = BlobFields
          /\ store[h].name \in Names
          /\ store[h].reviewed = TRUE

\* A pinned build can always be fetched: every binding's blob is stored, and
\* so is every blob a stored blob depends on (fetch never fails with
\* MissingDef inside closure_for_names).
LockClosed ==
    /\ Range(lock) \subseteq DOMAIN store
    /\ \A h \in DOMAIN store : store[h].deps \subseteq DOMAIN store

\* The blob under a hash is the definition the hash was computed from: with
\* the hashes of its own component turned back into positions, its content is
\* the one its component hash commits to at its position.
MerkleSound ==
    \A h \in DOMAIN store :
        LET def == store[h].def
            Placeholder(r) ==
                IF r[1] = "member" /\ r[2] = h[2] THEN RecHash(r[3]) ELSE r
        IN  h[2][2][h[3]] =
              ContentHash([def EXCEPT !.refs =
                  [k \in DOMAIN def.refs |-> Placeholder(def.refs[k])]])

\* The edges recorded for a blob are exactly the stored hashes its definition
\* mentions, so the closure over edges fetches all the code it can run.
EdgesComplete ==
    \A h \in DOMAIN store :
        store[h].deps = {r \in Range(store[h].def.refs) : r[1] = "member"}

\* The audit shows every unsafe site of a definition that is still bound,
\* whichever name or commit first froze its hash.
UnsafeSitesAudited ==
    \A n \in DOMAIN lock : declared[n].unsafe \subseteq store[lock[n]].unsafe

\* Rebinding names and collecting garbage never disturb what a binding that
\* stays in place fetches: the same blobs with the same definitions.
PinnedClosureStable ==
    [][\A n \in DOMAIN lock :
          lock'[n] = lock[n] =>
            LET old == Reachable(DepGraph(store), {lock[n]})
            IN  /\ Reachable(DepGraph(store)', {lock[n]}) = old
                /\ \A h \in old : store'[h].def = store[h].def]_vars

\* A collection keeps exactly the blobs the audit shows as reachable.
GcExact ==
    [][Gc => DOMAIN store' = Retained(store, lock)]_vars

\* StoredDef documents its metadata as what rebuilds the declaration world
\* when the blob is fetched without its source: a bound capability interface
\* carries the operations it was declared with.
FetchedCapabilityOps ==
    \A n \in DOMAIN lock : store[lock[n]].ops = declared[n].ops
-----------------------------------------------------------------------------
(***************************************************************************)
(* marv build and marv run with --store (pin_loaded of marv-cli): the      *)
(* loaded source is resolved against the lockfile, and the program is what *)
(* the entry reaches, each definition taken from the source when the       *)
(* source resolves to its hash and from the store otherwise.  A build      *)
(* changes nothing; it is a function of the source and of the state of the *)
(* store it runs in.                                                       *)
(***************************************************************************)

\* The blobs of the source itself: a later definition replaces an earlier one
\* that resolves to the same hash.
LastOf(dag, h) ==
    CHOOSE i \in EntriesOf(dag, h) : \A j \in EntriesOf(dag, h) : j <= i
LocalBlobs(source, external) ==
    LET dag == DagHashes(source, external)
    IN  [h \in Range(dag) |->
            LET i == LastOf(dag, h)
            IN  [name |-> source[i].name,
                 def |-> ResolvedDef(source, dag, external, i),
                 ops |-> source[i].ops,
                 deps |-> DepsOf(source, dag, external, i)]]

\* Mutant: the dependencies of the source's own definitions are not fetched.
StoredOnly(source, st, external) == st

\* visit_pinned looks a hash up in the source before the store.
Available(source, st, external) ==
    Inserted(st, LocalBlobs(source, external))

\* A build from root succeeds when every hash it meets is available.
Builds(source, st, external, root) ==
    Complete(DepGraph(Available(source, st, external)), {root})

\* The program: the definition of every hash the root reaches.
Program(source, st, external, root) ==
    LET known == Available(source, st, external)
    IN  [h \in Reachable(DepGraph(known), {root}) |-> known[h].def]

\* The names of other modules that a source refers to.
Imported(source) ==
    (UNION {Range(source[i].refs) : i \in DOMAIN source}) \ LocalNames(source)

\* No build meets a missing definition, whatever has been committed and
\* collected: the hard error of visit_pinned is never reached.
BuildsComplete ==
    \A source \in Sources :
        \A i \in DOMAIN source :
            Builds(source, store, lock, DagHashes(source, lock)[i])

\* A source that has just been committed builds exactly the reviewed
\* definitions in the store.
CommittedIsBuilt ==
    [][\A source \in Sources \cap Batches :
          Commit(source) =>
            \A i \in DOMAIN source :
              LET root == DagHashes(source, lock')[i]
                  fetched == Reachable(DepGraph(store'), {root})
              IN  Program(source, store', lock', root) =
                    [h \in fetched |-> store'[h].def]]_vars

\* A program depends on the bindings its source imports and on nothing else:
\* other commits and collections leave it as it is.
BuildReproducible ==
    [][\A source \in Sources :
          (\A n \in Imported(source) :
              /\ n \in DOMAIN lock <=> n \in DOMAIN lock'
              /\ n \in DOMAIN lock => lock'[n] = lock[n]) =>
          \A i \in DOMAIN source :
              LET root == DagHashes(source, lock)[i]
              IN  /\ DagHashes(source, lock')[i] = root
                  /\ Program(source, store', lock', root) =
                        Program(source, store, lock, root)]_vars
====
