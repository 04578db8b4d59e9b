---- MODULE MarvStoreProofs ----
(***************************************************************************)
(* Invariance proofs for modules MarvStore and Workspace, for every set of *)
(* names, every set of batches, every bound on the commits and every set   *)
(* of workspaces.                                                          *)
(***************************************************************************)
EXTENDS Workspace, Foundations, SequenceTheorems

\* Resolving assigns a hash to every definition of the batch.
LEMMA DagHashesDomain ==
    ASSUME NEW b, NEW external
    PROVE  DOMAIN DagHashes(b, external) = DOMAIN b
BY DEF DagHashes

-----------------------------------------------------------------------------
(***************************************************************************)
(* Every binding can be fetched.                                           *)
(***************************************************************************)

\* A commit keeps the store closed under references and binds names only to
\* stored blobs.
LEMMA CommitClosed ==
    ASSUME NEW b \in Batches, Commit(b), LockClosed, TypeOK
    PROVE  LockClosed'
<1> DEFINE dag == DagHashes(b, lock)
<1>1. DOMAIN dag = DOMAIN b
  BY DagHashesDomain
<1>2. store' = CommittedStore(store, b, dag, lock)
  BY DEF Commit
<1>3. DOMAIN store' = DOMAIN store \cup Range(dag)
  BY <1>2 DEF CommittedStore
<1>4. Range(lock') \subseteq DOMAIN store'
  <2>1. lock' = Inserted(lock, Rebinding(b, dag))
    BY DEF Commit
  <2>2. Range(lock') \subseteq Range(lock) \cup Range(Rebinding(b, dag))
    BY <2>1 DEF Range, Inserted
  <2>3. Range(Rebinding(b, dag)) \subseteq Range(dag)
    BY <1>1, BatchesAssumption, IndexOfLocal DEF Rebinding, Range
  <2>4. QED
    BY <2>2, <2>3, <1>3 DEF LockClosed
<1>5. ASSUME NEW h \in DOMAIN store'
      PROVE  store'[h].deps \subseteq DOMAIN store'
  <2>1. store'[h] = CommittedBlob(store, b, dag, lock, h)
    BY <1>2, <1>3 DEF CommittedStore
  <2>2. CASE h \in DOMAIN store
    <3>1. store'[h].deps = store[h].deps
      BY <2>1, <2>2 DEF CommittedBlob, TypeOK, BlobFields
    <3>2. QED
      BY <3>1, <2>2, <1>3 DEF LockClosed
  <2>3. CASE h \notin DOMAIN store
    <3>1. h \in Range(dag)
      BY <2>3, <1>3
    <3>2. FirstOf(dag, h) \in DOMAIN b
      BY <1>1, <3>1, BatchesAssumption, FirstOfEntry
    <3>3. store'[h].deps = DepsOf(b, dag, lock, FirstOf(dag, h))
      BY <2>1, <2>3 DEF CommittedBlob
    <3>4. store'[h].deps \subseteq Range(dag) \cup Range(lock)
      BY <1>1, <3>2, <3>3, BatchesAssumption, DepsResolved
    <3>5. QED
      BY <3>4, <1>3 DEF LockClosed
  <2>4. QED
    BY <2>2, <2>3
<1>6. QED
  BY <1>4, <1>5 DEF LockClosed

\* What a collection keeps is closed under references.
LEMMA GcClosed ==
    ASSUME Gc, LockClosed
    PROVE  LockClosed'
<1> DEFINE graph == DepGraph(store)
<1>1. DOMAIN graph = DOMAIN store
  BY DEF DepGraph
<1>2. CASE Complete(graph, Range(lock))
  <2>1. store' = [h \in Retained(store, lock) |-> store[h]]
    BY <1>2 DEF Gc, CollectedStore
  <2>2. Retained(store, lock) \subseteq DOMAIN store
    BY <1>1, ReachableSaturated DEF Retained
  <2>3. Range(lock) \subseteq Retained(store, lock)
    BY <1>1, ReachableSaturated DEF Retained, Saturated, LockClosed
  <2>4. ASSUME NEW h \in Retained(store, lock)
        PROVE  store[h].deps \subseteq Retained(store, lock)
    <3>1. graph[h] = store[h].deps /\ h \in DOMAIN store
      BY <2>2 DEF DepGraph
    <3>2. graph[h] \cap DOMAIN graph \subseteq Retained(store, lock)
      BY ReachableSaturated DEF Retained, Saturated
    <3>3. QED
      BY <3>1, <3>2, <1>1 DEF LockClosed
  <2>5. lock' = lock
    BY DEF Gc
  <2>6. QED
    BY <2>1, <2>3, <2>4, <2>5 DEF LockClosed
<1>3. CASE ~ Complete(graph, Range(lock))
  BY <1>3 DEF Gc, CollectedStore, LockClosed
<1>4. QED
  BY <1>2, <1>3

\* A commit or a collection leaves a well-formed store and lockfile.
LEMMA TypeStep == TypeOK /\ [Next]_vars => TypeOK'
<1> SUFFICES ASSUME TypeOK, [Next]_vars PROVE TypeOK'
  OBVIOUS
<1>1. ASSUME NEW b \in Batches, Commit(b) PROVE TypeOK'
  <2> DEFINE dag == DagHashes(b, lock)
  <2>1. DOMAIN dag = DOMAIN b
    BY DagHashesDomain
  <2>2. DOMAIN lock' = DOMAIN lock \cup LocalNames(b)
    BY <1>1 DEF Commit, Inserted, Rebinding
  <2>3. DOMAIN declared' = DOMAIN declared \cup LocalNames(b)
    BY <1>1 DEF Commit, Inserted, Rebinding
  <2>4. commits' \in 0 .. MaxCommits
    BY <1>1, MaxCommitsAssumption DEF Commit, TypeOK
  <2>5. ASSUME NEW h \in DOMAIN store'
        PROVE  /\ DOMAIN store'[h] = BlobFields
               /\ store'[h].name \in Names
               /\ store'[h].reviewed = TRUE
    <3>1. h \in DOMAIN store \cup Range(dag)
      BY <1>1 DEF Commit, CommittedStore
    <3>2. store'[h] = CommittedBlob(store, b, dag, lock, h)
      BY <1>1, <3>1 DEF Commit, CommittedStore
    <3>3. CASE h \in DOMAIN store
      BY <3>2, <3>3 DEF CommittedBlob, TypeOK, BlobFields
    <3>4. CASE h \notin DOMAIN store
      <4>1. FirstOf(dag, h) \in DOMAIN b
        BY <2>1, <3>1, <3>4, BatchesAssumption, FirstOfEntry
      <4>2. b[FirstOf(dag, h)].name \in Names
        BY <4>1, NamesAssumption DEF LocalNames
      <4>3. QED
        BY <3>2, <3>4, <4>2 DEF CommittedBlob, BlobFields
    <3>5. QED
      BY <3>3, <3>4
  <2>6. QED
    BY <2>2, <2>3, <2>4, <2>5, NamesAssumption DEF TypeOK
<1>2. ASSUME Gc PROVE TypeOK'
  <2>1. \A h \in DOMAIN store' : h \in DOMAIN store /\ store'[h] = store[h]
    BY <1>2, ReachableSaturated DEF Gc, CollectedStore, Retained, DepGraph
  <2>2. QED
    BY <1>2, <2>1 DEF Gc, TypeOK
<1>3. CASE UNCHANGED vars
  BY <1>3 DEF vars, TypeOK
<1>4. QED
  BY <1>1, <1>2, <1>3 DEF Next

\* Every reachable state of the store is well formed.
THEOREM TypeCorrect == Spec => []TypeOK
<1>1. Init => TypeOK
  BY MaxCommitsAssumption DEF Init, TypeOK
<1>2. QED
  BY <1>1, TypeStep, PTL DEF Spec

\* A step keeps every binding fetchable.
LEMMA ClosedStep == TypeOK /\ LockClosed /\ [Next]_vars => LockClosed'
<1> SUFFICES ASSUME TypeOK, LockClosed, [Next]_vars PROVE LockClosed'
  OBVIOUS
<1>1. CASE Next
  BY <1>1, CommitClosed, GcClosed DEF Next
<1>2. CASE UNCHANGED vars
  BY <1>2 DEF vars, LockClosed
<1>3. QED
  BY <1>1, <1>2

\* Whatever is committed and collected, in whatever order, a pinned build can
\* be fetched whole.
THEOREM StoreClosed == Spec => []LockClosed
<1>1. Init => LockClosed
  BY DEF Init, LockClosed, Range
<1>2. QED
  BY <1>1, ClosedStep, TypeCorrect, PTL DEF Spec

-----------------------------------------------------------------------------
(***************************************************************************)
(* What a binding fetches.                                                 *)
(***************************************************************************)

\* A commit adds blobs; to one that exists it adds unsafe sites at most.
LEMMA CommitExtends ==
    ASSUME NEW b \in Batches, Commit(b), TypeOK
    PROVE  /\ DOMAIN store \subseteq DOMAIN store'
           /\ \A h \in DOMAIN store :
                 /\ store'[h].def = store[h].def
                 /\ store'[h].deps = store[h].deps
                 /\ store[h].unsafe \subseteq store'[h].unsafe
<1> DEFINE dag == DagHashes(b, lock)
<1>1. store' = CommittedStore(store, b, dag, lock)
  BY DEF Commit
<1>2. DOMAIN store \subseteq DOMAIN store'
  BY <1>1 DEF CommittedStore
<1>3. ASSUME NEW h \in DOMAIN store
      PROVE  /\ store'[h].def = store[h].def
             /\ store'[h].deps = store[h].deps
             /\ store[h].unsafe \subseteq store'[h].unsafe
  <2>1. store'[h] = [store[h] EXCEPT !.unsafe = @ \cup SitesOf(b, dag, h)]
    BY <1>1 DEF CommittedStore, CommittedBlob
  <2>2. QED
    BY <2>1 DEF TypeOK, BlobFields
<1>4. QED
  BY <1>2, <1>3

\* A collection keeps what the bindings reach, as it is.
LEMMA GcKeeps ==
    ASSUME Gc, LockClosed
    PROVE  /\ DOMAIN store' = Retained(store, lock)
           /\ DOMAIN store' \subseteq DOMAIN store
           /\ \A h \in DOMAIN store' : store'[h] = store[h]
<1> DEFINE graph == DepGraph(store)
<1>1. DOMAIN graph = DOMAIN store
  BY DEF DepGraph
<1>2. Retained(store, lock) \subseteq DOMAIN store
  BY <1>1, ReachableSaturated DEF Retained
<1>3. Complete(graph, Range(lock))
  <2>1. \A h \in DOMAIN store : graph[h] = store[h].deps
    BY DEF DepGraph
  <2>2. QED
    BY <1>1, <1>2, <2>1 DEF Complete, LockClosed, Retained
<1>4. store' = [h \in Retained(store, lock) |-> store[h]]
  BY <1>3 DEF Gc, CollectedStore
<1>5. QED
  BY <1>2, <1>4

\* A step leaves what a binding that stays in place fetches alone.
LEMMA PinnedStep ==
    ASSUME TypeOK, LockClosed, LockClosed', [Next]_vars,
           NEW n \in DOMAIN lock, lock'[n] = lock[n]
    PROVE  LET old == Reachable(DepGraph(store), {lock[n]})
           IN  /\ Reachable(DepGraph(store)', {lock[n]}) = old
               /\ \A h \in old : store'[h].def = store[h].def
<1> DEFINE small == DepGraph(store)
           large == DepGraph(store')
           old == Reachable(small, {lock[n]})
<1>1. DOMAIN small = DOMAIN store /\ DOMAIN large = DOMAIN store'
  BY DEF DepGraph
<1>2. /\ \A h \in DOMAIN store : small[h] = store[h].deps
      /\ \A h \in DOMAIN store' : large[h] = store'[h].deps
  BY DEF DepGraph
<1>3. old \subseteq DOMAIN store
  BY <1>1, ReachableSaturated
<1>3a. DOMAIN lock \subseteq DOMAIN lock'
  BY DEF Next, Commit, Gc, vars, Inserted
<1>4. /\ {lock[n]} \subseteq DOMAIN store
      /\ {lock[n]} \subseteq DOMAIN store'
  BY <1>3a DEF LockClosed, Range
<1>5. CASE \E b \in Batches : Commit(b)
  <2>1. /\ DOMAIN store \subseteq DOMAIN store'
        /\ \A h \in DOMAIN store :
              store'[h].def = store[h].def /\ store'[h].deps = store[h].deps
    BY <1>5, CommitExtends
  <2>2. \A h \in DOMAIN small :
            small[h] = large[h] /\ small[h] \subseteq DOMAIN small
    BY <2>1, <1>1, <1>2 DEF LockClosed
  <2>3. Reachable(large, {lock[n]}) = old
    <3> HIDE DEF small, large
    <3>1. QED
      BY <2>1, <2>2, <1>1, <1>4, ReachableEmbedded
  <2>4. QED
    BY <2>1, <2>3, <1>3
<1>6. CASE Gc
  <2>1. /\ DOMAIN store' \subseteq DOMAIN store
        /\ \A h \in DOMAIN store' : store'[h] = store[h]
    BY <1>6, GcKeeps
  <2>2. \A h \in DOMAIN large :
            large[h] = small[h] /\ large[h] \subseteq DOMAIN large
    BY <2>1, <1>1, <1>2 DEF LockClosed
  <2>3. Reachable(large, {lock[n]}) = old
    <3> HIDE DEF small, large
    <3>1. QED
      BY <2>1, <2>2, <1>1, <1>4, ReachableEmbedded
  <2>4. old \subseteq DOMAIN store'
    BY <2>3, <1>1, ReachableSaturated
  <2>5. QED
    BY <2>1, <2>3, <2>4
<1>7. CASE UNCHANGED vars
  BY <1>7 DEF vars, DepGraph
<1>8. QED
  BY <1>5, <1>6, <1>7 DEF Next

\* No later commit, rename or collection changes what a binding that stays in
\* place fetches.
THEOREM PinnedStable == Spec => PinnedClosureStable
<1> DEFINE Stable ==
        \A n \in DOMAIN lock :
            lock'[n] = lock[n] =>
              LET old == Reachable(DepGraph(store), {lock[n]})
              IN  /\ Reachable(DepGraph(store)', {lock[n]}) = old
                  /\ \A h \in old : store'[h].def = store[h].def
<1>1. TypeOK /\ LockClosed /\ LockClosed' /\ [Next]_vars => Stable
  BY PinnedStep
<1>2. TypeOK /\ LockClosed /\ LockClosed' /\ [Next]_vars => [Stable]_vars
  BY <1>1
<1> HIDE DEF Stable
<1>3. Spec => [][Stable]_vars
  BY <1>2, TypeCorrect, StoreClosed, PTL DEF Spec
<1>4. QED
  BY <1>3 DEF Stable, PinnedClosureStable

\* A collection keeps exactly what the audit shows as reachable: in a closed
\* store the error path of gc is never taken.
THEOREM CollectionExact == Spec => GcExact
<1>1. LockClosed /\ [Next]_vars =>
          [Gc => DOMAIN store' = Retained(store, lock)]_vars
  BY GcKeeps
<1>2. QED
  BY <1>1, StoreClosed, PTL DEF Spec, GcExact

-----------------------------------------------------------------------------
\* A step keeps every unsafe site of a bound definition under audit.
LEMMA AuditedStep ==
    TypeOK /\ LockClosed /\ UnsafeSitesAudited /\ [Next]_vars
        => UnsafeSitesAudited'
<1> SUFFICES ASSUME TypeOK, LockClosed, UnsafeSitesAudited, [Next]_vars
             PROVE  UnsafeSitesAudited'
  OBVIOUS
<1>1. ASSUME NEW b \in Batches, Commit(b) PROVE UnsafeSitesAudited'
  <2> DEFINE dag == DagHashes(b, lock)
  <2>1. DOMAIN dag = DOMAIN b
    BY DagHashesDomain
  <2>2. /\ lock' = Inserted(lock, Rebinding(b, dag))
        /\ declared' = Inserted(declared, Rebinding(b, b))
        /\ store' = CommittedStore(store, b, dag, lock)
    BY <1>1 DEF Commit
  <2> HIDE DEF dag
  <2>3. ASSUME NEW n \in LocalNames(b)
        PROVE  declared'[n].unsafe \subseteq store'[lock'[n]].unsafe
    <3> DEFINE i == IndexOf(b, n)
    <3>1. i \in DOMAIN b
      BY BatchesAssumption, IndexOfLocal
    <3>2. lock'[n] = dag[i] /\ declared'[n] = b[i]
      BY <2>2 DEF Inserted, Rebinding
    <3> HIDE DEF i
    <3>3. dag[i] \in Range(dag) /\ i \in EntriesOf(dag, dag[i])
      BY <2>1, <3>1 DEF EntriesOf, Range
    <3>4. b[i].unsafe \subseteq SitesOf(b, dag, dag[i])
      BY <3>3 DEF SitesOf
    <3>5. store'[dag[i]] = CommittedBlob(store, b, dag, lock, dag[i])
      BY <2>2, <3>3 DEF CommittedStore
    <3>6. SitesOf(b, dag, dag[i]) \subseteq store'[dag[i]].unsafe
      <4>1. CASE dag[i] \in DOMAIN store
        BY <4>1, <3>5 DEF CommittedBlob, TypeOK, BlobFields
      <4>2. CASE dag[i] \notin DOMAIN store
        BY <4>2, <3>5 DEF CommittedBlob
      <4>3. QED
        BY <4>1, <4>2
    <3>7. QED
      BY <3>2, <3>4, <3>6
  <2>4. ASSUME NEW n \in DOMAIN lock, n \notin LocalNames(b)
        PROVE  declared'[n].unsafe \subseteq store'[lock'[n]].unsafe
    <3>1. lock'[n] = lock[n] /\ declared'[n] = declared[n]
      BY <2>2, <2>4 DEF Inserted, Rebinding, TypeOK
    <3>2. lock[n] \in DOMAIN store
      BY <2>4 DEF LockClosed, Range
    <3>3. store[lock[n]].unsafe \subseteq store'[lock[n]].unsafe
      BY <1>1, <3>2, CommitExtends
    <3>4. QED
      BY <3>1, <3>3 DEF UnsafeSitesAudited
  <2>5. DOMAIN lock' = DOMAIN lock \cup LocalNames(b)
    BY <2>2 DEF Inserted, Rebinding
  <2>6. QED
    BY <2>3, <2>4, <2>5 DEF UnsafeSitesAudited
<1>2. ASSUME Gc PROVE UnsafeSitesAudited'
  <2>1. lock' = lock /\ declared' = declared
    BY <1>2 DEF Gc
  <2>2. Range(lock) \subseteq DOMAIN store'
    BY <1>2, <2>1, GcClosed DEF LockClosed
  <2>3. \A n \in DOMAIN lock : store'[lock[n]] = store[lock[n]]
    BY <1>2, <2>2, GcKeeps DEF Range
  <2>4. QED
    BY <2>1, <2>3 DEF UnsafeSitesAudited
<1>3. CASE UNCHANGED vars
  BY <1>3 DEF vars, UnsafeSitesAudited
<1>4. QED
  BY <1>1, <1>2, <1>3 DEF Next

\* No unsafe site of a bound definition escapes the audit, although blobs are
\* shared between names and never rewritten.
THEOREM UnsafeAudited == Spec => []UnsafeSitesAudited
<1>1. Init => UnsafeSitesAudited
  BY DEF Init, UnsafeSitesAudited
<1>2. QED
  BY <1>1, AuditedStep, TypeCorrect, StoreClosed, PTL DEF Spec

-----------------------------------------------------------------------------
(***************************************************************************)
(* What is stored under a hash.                                            *)
(***************************************************************************)

\* Every blob is what its hash was computed from, and no hash mentions itself.
StoreSound == GoodStore(store) /\ Ranked(DOMAIN store)

\* A commit stores sound blobs, a collection keeps some of them.
LEMMA SoundStep == LockClosed /\ StoreSound /\ [Next]_vars => StoreSound'
<1> SUFFICES ASSUME LockClosed, StoreSound, [Next]_vars PROVE StoreSound'
  OBVIOUS
<1>1. ASSUME NEW b \in Batches, Commit(b) PROVE StoreSound'
  <2>1. store' = CommittedStore(store, b, DagHashes(b, lock), lock)
    BY <1>1 DEF Commit
  <2>2. IsBatch(b) /\ Range(lock) \subseteq DOMAIN store
    BY BatchesAssumption DEF LockClosed
  <2>3. GoodStore(store) /\ Ranked(DOMAIN store)
    BY DEF StoreSound
  <2>4. GoodStore(store') /\ Ranked(DOMAIN store')
    BY <2>1, <2>2, <2>3, CommittedGood
  <2>5. QED
    BY <2>4 DEF StoreSound
<1>2. ASSUME Gc PROVE StoreSound'
  <2>1. /\ DOMAIN store' \subseteq DOMAIN store
        /\ \A h \in DOMAIN store' : store'[h] = store[h]
    BY <1>2, GcKeeps
  <2>2. GoodStore(store')
    BY <2>1 DEF StoreSound, GoodStore
  <2>3. Ranked(DOMAIN store')
    BY <2>1, RankedSubset DEF StoreSound
  <2>4. QED
    BY <2>2, <2>3 DEF StoreSound
<1>3. CASE UNCHANGED vars
  BY <1>3 DEF vars, StoreSound
<1>4. QED
  BY <1>1, <1>2, <1>3 DEF Next

\* Every reachable store is sound.
THEOREM SoundAlways == Spec => []StoreSound
<1>1. Init => StoreSound
  <2>1. Init => DOMAIN store = {}
    BY DEF Init
  <2>2. Ranked({})
    <3>1. Ranking(<<>>, 0, {})
      BY DEF Ranking
    <3>2. QED
      BY <3>1 DEF Ranked
  <2>3. QED
    BY <2>1, <2>2 DEF StoreSound, GoodStore
<1>2. QED
  BY <1>1, SoundStep, StoreClosed, PTL DEF Spec

\* A blob is always the definition its hash was computed from: no order of
\* commits, renames and collections leaves one that was resolved against
\* another lockfile under the hash.
THEOREM MerkleAlways == Spec => []MerkleSound
<1>1. StoreSound => MerkleSound
  <2> SUFFICES ASSUME StoreSound, NEW h \in DOMAIN store
               PROVE  LET def == store[h].def
                          Placeholder(r) ==
                              IF r[1] = "member" /\ r[2] = h[2]
                              THEN RecHash(r[3]) ELSE r
                      IN  h[2][2][h[3]] =
                            ContentHash([def EXCEPT !.refs =
                                [k \in DOMAIN def.refs |->
                                    Placeholder(def.refs[k])]])
    BY DEF MerkleSound
  <2>1. GoodDef(h, store[h].def)
    BY DEF StoreSound, GoodStore, GoodBlob
  <2>2. QED
    BY <2>1 DEF GoodDef, AsHashed
<1>2. QED
  BY <1>1, SoundAlways, PTL

\* The edges of a blob are always the stored hashes its code mentions.
THEOREM EdgesAlways == Spec => []EdgesComplete
<1>1. StoreSound => EdgesComplete
  BY DEF StoreSound, GoodStore, GoodBlob, EdgesOf, EdgesComplete
<1>2. QED
  BY <1>1, SoundAlways, PTL

-----------------------------------------------------------------------------
(***************************************************************************)
(* What pinned builds fetch, proved for every store and lockfile commits   *)
(* and collections lead to, and every source.                              *)
(***************************************************************************)

\* A blob of the source comes from an entry of it.
LEMMA LastOfEntry ==
    ASSUME NEW b, IsBatch(b), NEW dag, DOMAIN dag = DOMAIN b,
           NEW h \in Range(dag)
    PROVE  LastOf(dag, h) \in DOMAIN b /\ dag[LastOf(dag, h)] = h
<1>1. DOMAIN b = 1 .. Len(b) /\ Len(b) \in Nat
  BY DEF IsBatch
<1>2. EntriesOf(dag, h) \in SUBSET (1 .. Len(b)) /\ EntriesOf(dag, h) # {}
  BY <1>1 DEF EntriesOf, Range
<1>3. \E i \in EntriesOf(dag, h) : \A j \in EntriesOf(dag, h) : j <= i
  BY <1>1, <1>2, LastExists
<1>4. LastOf(dag, h) \in EntriesOf(dag, h)
  BY <1>3 DEF LastOf
<1>5. QED
  BY <1>4 DEF EntriesOf

\* What is available under a hash of the source is what an entry resolves to.
LEMMA LocalShape ==
    ASSUME NEW b, IsBatch(b), NEW st, NEW external,
           NEW h \in Range(DagHashes(b, external))
    PROVE  \E i \in DOMAIN b :
              LET dag == DagHashes(b, external)
                  known == Available(b, st, external)
              IN  /\ dag[i] = h
                  /\ known[h].def = ResolvedDef(b, dag, external, i)
                  /\ known[h].deps = DepsOf(b, dag, external, i)
<1> DEFINE dag == DagHashes(b, external)
           i == LastOf(dag, h)
           local == LocalBlobs(b, external)
<1>1. DOMAIN dag = DOMAIN b
  BY DagHashesDefined
<1>2. i \in DOMAIN b /\ dag[i] = h
  <2> HIDE DEF dag
  <2>1. QED
    BY <1>1, LastOfEntry DEF dag
<1>3. h \in DOMAIN local /\ Available(b, st, external)[h] = local[h]
  BY DEF LocalBlobs, Available, Inserted
<1>4. /\ local[h].def = ResolvedDef(b, dag, external, i)
      /\ local[h].deps = DepsOf(b, dag, external, i)
  BY DEF LocalBlobs
<1>5. QED
  BY <1>2, <1>3, <1>4

\* The rest is what is stored.
LEMMA AvailableDomain ==
    ASSUME NEW b, NEW st, NEW external
    PROVE  DOMAIN Available(b, st, external) =
               DOMAIN st \cup Range(DagHashes(b, external))
BY DEF Available, Inserted, LocalBlobs

\* A blob that the batch does not replace is available as it is stored.
LEMMA AvailableStored ==
    ASSUME NEW b, NEW st, NEW external,
           NEW h \in DOMAIN st \ Range(DagHashes(b, external))
    PROVE  Available(b, st, external)[h] = st[h]
BY DEF Available, Inserted, LocalBlobs

\* What is available over a sound and closed store is sound and closed, and
\* agrees with the store where both have a blob.
LEMMA AvailableSound ==
    ASSUME NEW b, IsBatch(b), NEW st, GoodStore(st), Ranked(DOMAIN st),
           \A h \in DOMAIN st : st[h].deps \subseteq DOMAIN st,
           NEW external, Range(external) \subseteq DOMAIN st
    PROVE  LET known == Available(b, st, external)
           IN  \A h \in DOMAIN known :
                  /\ GoodDef(h, known[h].def)
                  /\ known[h].deps = EdgesOf(known[h].def)
                  /\ known[h].deps \subseteq DOMAIN known
                  /\ h \in DOMAIN st =>
                        known[h].def = st[h].def /\ known[h].deps = st[h].deps
<1> DEFINE dag == DagHashes(b, external)
           known == Available(b, st, external)
<1>1. DOMAIN known = DOMAIN st \cup Range(dag)
  BY AvailableDomain
<1>2. Ranked(Range(external)) /\ \A h \in Range(external) : IsMember(h)
  BY RankedSubset DEF GoodStore
<1>3. \A h \in DOMAIN st : GoodDef(h, st[h].def) /\ st[h].deps = EdgesOf(st[h].def)
  BY DEF GoodStore, GoodBlob
<1>4. ASSUME NEW h \in Range(dag)
      PROVE  /\ GoodDef(h, known[h].def)
             /\ known[h].deps = EdgesOf(known[h].def)
             /\ known[h].deps \subseteq Range(dag) \cup Range(external)
  <2>1. PICK i \in DOMAIN b :
             /\ dag[i] = h
             /\ known[h].def = ResolvedDef(b, dag, external, i)
             /\ known[h].deps = DepsOf(b, dag, external, i)
    BY LocalShape
  <2>2. /\ GoodDef(dag[i], ResolvedDef(b, dag, external, i))
        /\ DepsOf(b, dag, external, i) = EdgesOf(ResolvedDef(b, dag, external, i))
    BY <1>2, ResolvedGood
  <2>3. DOMAIN dag = DOMAIN b
    BY DagHashesDefined
  <2> HIDE DEF dag, known
  <2>4. DepsOf(b, dag, external, i) \subseteq Range(dag) \cup Range(external)
    BY <2>3, DepsResolved
  <2>5. QED
    BY <2>1, <2>2, <2>4
<1>5. ASSUME NEW h \in DOMAIN st \ Range(dag) PROVE known[h] = st[h]
  BY AvailableStored
<1> HIDE DEF dag, known
<1>6. ASSUME NEW h \in DOMAIN known
      PROVE  /\ GoodDef(h, known[h].def)
             /\ known[h].deps = EdgesOf(known[h].def)
             /\ known[h].deps \subseteq DOMAIN known
             /\ h \in DOMAIN st =>
                   known[h].def = st[h].def /\ known[h].deps = st[h].deps
  <2>1. CASE h \in Range(dag)
    <3>1. h \in DOMAIN st => known[h].def = st[h].def
      BY <1>3, <1>4, <2>1, DefDetermined
    <3>2. QED
      BY <1>1, <1>3, <1>4, <2>1, <3>1
  <2>2. CASE h \notin Range(dag)
    BY <1>1, <1>3, <1>5, <2>2
  <2>3. QED
    BY <2>1, <2>2
<1>7. QED
  BY <1>6 DEF known

-----------------------------------------------------------------------------
\* No build meets a missing definition: what a source refers to is in the
\* source or behind a binding, and every binding's closure is stored.
THEOREM BuildsAlwaysComplete == Spec => []BuildsComplete
<1>1. ASSUME LockClosed, StoreSound, NEW source \in Sources, NEW i \in DOMAIN source
      PROVE  Builds(source, store, lock, DagHashes(source, lock)[i])
  <2> DEFINE dag == DagHashes(source, lock)
             known == Available(source, store, lock)
             graph == DepGraph(known)
  <2>1. IsBatch(source)
    BY SourcesAssumption
  <2>2. dag[i] \in DOMAIN known
    <3>1. DOMAIN known = DOMAIN store \cup Range(dag)
      BY AvailableDomain
    <3>2. dag[i] \in Range(dag)
      BY <2>1, DagHashesMembers
    <3> HIDE DEF dag, known
    <3>3. QED
      BY <3>1, <3>2
  <2>3. \A h \in DOMAIN known : known[h].deps \subseteq DOMAIN known
    BY <1>1, <2>1, AvailableSound DEF LockClosed, StoreSound
  <2> HIDE DEF dag, known
  <2>4. DOMAIN graph = DOMAIN known /\ \A h \in DOMAIN known : graph[h] = known[h].deps
    BY DEF DepGraph
  <2> HIDE DEF graph
  <2>5. Complete(graph, {dag[i]})
    BY <2>2, <2>3, <2>4, CompleteWithin
  <2>6. QED
    BY <2>5 DEF Builds, dag, known, graph
<1>2. LockClosed /\ StoreSound => BuildsComplete
  BY <1>1 DEF BuildsComplete
<1>3. QED
  BY <1>2, StoreClosed, SoundAlways, PTL

-----------------------------------------------------------------------------
\* Two sound and closed sets of blobs give the same program to a hash both
\* have.
LEMMA SameProgram ==
    ASSUME NEW known, NEW other,
           \A h \in DOMAIN known :
              /\ GoodDef(h, known[h].def)
              /\ known[h].deps = EdgesOf(known[h].def)
              /\ known[h].deps \subseteq DOMAIN known,
           \A h \in DOMAIN other :
              /\ GoodDef(h, other[h].def)
              /\ other[h].deps = EdgesOf(other[h].def)
              /\ other[h].deps \subseteq DOMAIN other,
           NEW root \in DOMAIN known \cap DOMAIN other
    PROVE  [h \in Reachable(DepGraph(known), {root}) |-> known[h].def] =
           [h \in Reachable(DepGraph(other), {root}) |-> other[h].def]
<1> DEFINE both == DOMAIN known \cap DOMAIN other
           g == DepGraph(known)
           k == DepGraph(other)
           common == [h \in both |-> known[h].deps]
<1>1. \A h \in both : known[h].def = other[h].def
  BY DefDetermined
<1>2. \A h \in both : known[h].deps = other[h].deps /\ known[h].deps \subseteq both
  BY <1>1
<1>3. /\ DOMAIN g = DOMAIN known /\ \A h \in DOMAIN known : g[h] = known[h].deps
      /\ DOMAIN k = DOMAIN other /\ \A h \in DOMAIN other : k[h] = other[h].deps
      /\ DOMAIN common = both /\ \A h \in both : common[h] = known[h].deps
  BY DEF DepGraph
<1> HIDE DEF g, k, common
<1>4. Reachable(common, {root}) = Reachable(g, {root})
  <2>1. \A h \in DOMAIN common : common[h] = g[h] /\ common[h] \subseteq DOMAIN common
    BY <1>2, <1>3
  <2>2. QED
    BY <1>3, <2>1, ReachableEmbedded
<1>5. Reachable(common, {root}) = Reachable(k, {root})
  <2>1. \A h \in DOMAIN common : common[h] = k[h] /\ common[h] \subseteq DOMAIN common
    BY <1>2, <1>3
  <2>2. QED
    BY <1>3, <2>1, ReachableEmbedded
<1>6. Reachable(common, {root}) \subseteq both
  BY <1>3, ReachableSaturated
<1>7. [h \in Reachable(g, {root}) |-> known[h].def] =
      [h \in Reachable(k, {root}) |-> other[h].def]
  BY <1>1, <1>4, <1>5, <1>6
<1>8. QED
  BY <1>7 DEF g, k

\* A build of a source, whatever the lockfile, finds its root.
LEMMA RootAvailable ==
    ASSUME NEW b, IsBatch(b), NEW i \in DOMAIN b, NEW st, NEW external
    PROVE  DagHashes(b, external)[i] \in DOMAIN Available(b, st, external)
<1>1. DagHashes(b, external)[i] \in Range(DagHashes(b, external))
  BY DagHashesMembers
<1>2. QED
  BY <1>1, AvailableDomain

\* A program is the same before and after a step that leaves the imports of
\* its source alone.
LEMMA ReproducibleStep ==
    ASSUME LockClosed, StoreSound, LockClosed', StoreSound',
           NEW source \in Sources,
           \A n \in Imported(source) :
              /\ n \in DOMAIN lock <=> n \in DOMAIN lock'
              /\ n \in DOMAIN lock => lock'[n] = lock[n],
           NEW i \in DOMAIN source
    PROVE  LET root == DagHashes(source, lock)[i]
           IN  /\ DagHashes(source, lock')[i] = root
               /\ Program(source, store', lock', root) =
                     Program(source, store, lock, root)
<1> DEFINE root == DagHashes(source, lock)[i]
           known == Available(source, store, lock)
           other == Available(source, store', lock')
<1>1. IsBatch(source)
  BY SourcesAssumption
<1>2. DagHashes(source, lock) = DagHashes(source, lock')
  <2>1. ASSUME NEW j \in DOMAIN source,
               NEW n \in Range(source[j].refs) \ LocalNames(source)
        PROVE  ExternalHash(lock, n) = ExternalHash(lock', n)
    <3>1. n \in Imported(source)
      BY DEF Imported
    <3>2. QED
      BY <3>1 DEF ExternalHash
  <2>2. QED
    BY <1>1, <2>1, DagHashesExternal
<1>3. root \in DOMAIN known /\ root \in DOMAIN other
  <2>1. root \in DOMAIN known
    BY <1>1, RootAvailable
  <2>2. DagHashes(source, lock')[i] \in DOMAIN other
    BY <1>1, RootAvailable
  <2>3. QED
    BY <1>2, <2>1, <2>2
<1>4. \A h \in DOMAIN known :
          /\ GoodDef(h, known[h].def)
          /\ known[h].deps = EdgesOf(known[h].def)
          /\ known[h].deps \subseteq DOMAIN known
  BY <1>1, AvailableSound DEF LockClosed, StoreSound
<1>5. \A h \in DOMAIN other :
          /\ GoodDef(h, other[h].def)
          /\ other[h].deps = EdgesOf(other[h].def)
          /\ other[h].deps \subseteq DOMAIN other
  BY <1>1, AvailableSound DEF LockClosed, StoreSound
<1>6. Program(source, store', lock', root) = Program(source, store, lock, root)
  <2> HIDE DEF root, known, other
  <2>1. [h \in Reachable(DepGraph(known), {root}) |-> known[h].def] =
        [h \in Reachable(DepGraph(other), {root}) |-> other[h].def]
    BY <1>3, <1>4, <1>5, SameProgram
  <2>2. QED
    BY <2>1 DEF Program, known, other
<1>7. QED
  BY <1>2, <1>6

\* Commits of other modules, renames and collections leave a program as it
\* is, and its root hash too.
THEOREM BuildsReproducible == Spec => BuildReproducible
<1> DEFINE Reproduced ==
        \A source \in Sources :
            (\A n \in Imported(source) :
                /\ n \in DOMAIN lock <=> n \in DOMAIN lock'
                /\ n \in DOMAIN lock => lock'[n] = lock[n]) =>
            \A i \in DOMAIN source :
                LET root == DagHashes(source, lock)[i]
                IN  /\ DagHashes(source, lock')[i] = root
                    /\ Program(source, store', lock', root) =
                          Program(source, store, lock, root)
<1>1. LockClosed /\ StoreSound /\ LockClosed' /\ StoreSound' => Reproduced
  BY ReproducibleStep
<1> HIDE DEF Reproduced
<1>2. LockClosed /\ StoreSound /\ LockClosed' /\ StoreSound' => [Reproduced]_vars
  BY <1>1
<1>3. Spec => [][Reproduced]_vars
  BY <1>2, StoreClosed, SoundAlways, PTL
<1>4. QED
  BY <1>3 DEF Reproduced, BuildReproducible

\* After a commit of a source, its program is the closure of the store.
LEMMA CommittedStep ==
    ASSUME LockClosed, StoreSound, LockClosed', StoreSound',
           NEW source \in Sources \cap Batches, Commit(source),
           NEW i \in DOMAIN source
    PROVE  LET root == DagHashes(source, lock')[i]
               fetched == Reachable(DepGraph(store'), {root})
           IN  Program(source, store', lock', root) =
                 [h \in fetched |-> store'[h].def]
<1> DEFINE dag == DagHashes(source, lock)
           root == DagHashes(source, lock')[i]
           known == Available(source, store', lock')
<1>1. IsBatch(source)
  BY SourcesAssumption
<1>2. /\ store' = CommittedStore(store, source, dag, lock)
      /\ lock' = Inserted(lock, Rebinding(source, dag))
  BY DEF Commit
<1>3. DagHashes(source, lock) = DagHashes(source, lock')
  BY <1>1, <1>2, RecommitAgrees
<1>4. root \in DOMAIN known /\ root \in DOMAIN store'
  <2>1. root \in DOMAIN known
    BY <1>1, RootAvailable
  <2>2. dag[i] \in Range(dag)
    BY <1>1, DagHashesMembers
  <2>3. DOMAIN store' = DOMAIN store \cup Range(dag)
    BY <1>2, CommittedDomain
  <2>4. QED
    BY <1>3, <2>1, <2>2, <2>3
<1>5. \A h \in DOMAIN known :
          /\ GoodDef(h, known[h].def)
          /\ known[h].deps = EdgesOf(known[h].def)
          /\ known[h].deps \subseteq DOMAIN known
  BY <1>1, AvailableSound DEF LockClosed, StoreSound
<1>6. \A h \in DOMAIN store' :
          /\ GoodDef(h, store'[h].def)
          /\ store'[h].deps = EdgesOf(store'[h].def)
          /\ store'[h].deps \subseteq DOMAIN store'
  BY DEF LockClosed, StoreSound, GoodStore, GoodBlob
<1>7. QED
  <2> HIDE DEF root, known
  <2>1. [h \in Reachable(DepGraph(known), {root}) |-> known[h].def] =
        [h \in Reachable(DepGraph(store'), {root}) |-> store'[h].def]
    BY <1>4, <1>5, <1>6, SameProgram
  <2>2. QED
    BY <2>1 DEF Program, known, root

\* What has just been committed is what is built: the definitions a build
\* takes from the source are the reviewed ones of the store.
THEOREM CommittedAlwaysBuilt == Spec => CommittedIsBuilt
<1> DEFINE Built ==
        \A source \in Sources \cap Batches :
            Commit(source) =>
              \A i \in DOMAIN source :
                LET root == DagHashes(source, lock')[i]
                    fetched == Reachable(DepGraph(store'), {root})
                IN  Program(source, store', lock', root) =
                      [h \in fetched |-> store'[h].def]
<1>1. LockClosed /\ StoreSound /\ LockClosed' /\ StoreSound' => Built
  BY CommittedStep
<1> HIDE DEF Built
<1>2. LockClosed /\ StoreSound /\ LockClosed' /\ StoreSound' => [Built]_vars
  BY <1>1
<1>3. Spec => [][Built]_vars
  BY <1>2, StoreClosed, SoundAlways, PTL
<1>4. QED
  BY <1>3 DEF Built, CommittedIsBuilt

-----------------------------------------------------------------------------
(***************************************************************************)
(* The searches and the rounds of commits go step by step.                 *)
(***************************************************************************)

\* The loader visits one dependency after the other.
LEMMA VisitsDefined ==
    ASSUME NEW disk, NEW dir, Cardinality(Dependencies(disk)) \in Nat
    PROVE  LET f == Visits(disk, dir)
           IN  /\ f[0] = [ok |-> TRUE,
                          todo |-> <<[name |-> disk.packages[dir].name, dir |-> dir]>>,
                          seen |-> {}, sources |-> {}]
               /\ \A k \in 1 .. 1 + Cardinality(Dependencies(disk)) :
                     f[k] = Visit(disk, f[k - 1])
<1> DEFINE last == 1 + Cardinality(Dependencies(disk))
           start == [ok |-> TRUE, todo |-> <<[name |-> disk.packages[dir].name, dir |-> dir]>>,
                     seen |-> {}, sources |-> {}]
           After(t, k) == Visit(disk, t)
           Right(f, m) == \A k \in 0 .. m : f[k] = IF k = 0 THEN start ELSE After(f[k - 1], k)
           Some == {m \in Nat : \E f : Right(f, m)}
           Body(f) == f = [k \in 0 .. last |-> IF k = 0 THEN start ELSE After(f[k - 1], k)]
           it == CHOOSE f : Body(f)
<1>1. Visits(disk, dir) = it
  BY DEF Visits
<1>2. last \in Nat
  OBVIOUS
<1> HIDE DEF last, start, After
<1>3. 0 \in Some
  <2> DEFINE f == [k \in {0} |-> start]
  <2>1. Right(f, 0)
    OBVIOUS
  <2>2. QED
    BY <2>1
<1>4. ASSUME NEW m \in 0 .. last - 1, m \in Some PROVE m + 1 \in Some
  <2>1. PICK f : Right(f, m)
    BY <1>4
  <2> DEFINE g == [k \in 0 .. last |-> IF k = m + 1 THEN After(f[m], m + 1) ELSE f[k]]
  <2>2. /\ g[m + 1] = After(f[m], m + 1)
        /\ \A k \in 0 .. m : g[k] = f[k]
    BY <1>2
  <2> HIDE DEF g
  <2>3. ASSUME NEW k \in 0 .. m + 1
        PROVE  g[k] = IF k = 0 THEN start ELSE After(g[k - 1], k)
    <3>1. CASE k = m + 1
      BY <2>2, <3>1
    <3>2. CASE k \in 0 .. m
      <4>1. g[k] = f[k] /\ (k # 0 => g[k - 1] = f[k - 1])
        BY <2>2, <3>2
      <4>2. QED
        BY <2>1, <3>2, <4>1
    <3>3. QED
      BY <3>1, <3>2
  <2>4. Right(g, m + 1)
    BY <2>3
  <2>5. QED
    BY <2>4
<1>5. last \in Some
  <2> HIDE DEF Some
  <2>1. 0 .. last \subseteq Some
    BY <1>2, <1>3, <1>4, CountingUp
  <2>2. QED
    BY <1>2, <2>1
<1>6. PICK f : Right(f, last)
  BY <1>5
<1> DEFINE h == [k \in 0 .. last |-> f[k]]
<1>7. Body(h)
  <2>1. \A k \in 0 .. last : k # 0 => k - 1 \in 0 .. last
    BY <1>2
  <2>2. QED
    BY <1>6, <2>1
<1>8. Body(it)
  <2> HIDE DEF Body
  <2>1. QED
    BY <1>7
<1>9. /\ it[0] = start
      /\ \A k \in 1 .. last : it[k] = After(it[k - 1], k)
  <2> HIDE DEF it
  <2>1. QED
    BY <1>2, <1>8
<1>10. QED
  BY <1>1, <1>9 DEF last, start, After

\* Imports are followed one after the other.
LEMMA FollowsDefined ==
    ASSUME NEW disk, NEW project, NEW std, NEW root, Cardinality(Imports(disk)) \in Nat
    PROVE  LET f == Follows(disk, project, std, root)
           IN  /\ f[0] = [ok |-> TRUE, queue |-> disk.files[root].imports,
                          seen |-> {disk.files[root].module}, defs |-> disk.files[root].defs]
               /\ \A k \in 1 .. Cardinality(Imports(disk)) :
                     f[k] = Follow(disk, project, std, f[k - 1])
<1> DEFINE last == Cardinality(Imports(disk))
           start == [ok |-> TRUE, queue |-> disk.files[root].imports,
                     seen |-> {disk.files[root].module}, defs |-> disk.files[root].defs]
           After(t, k) == Follow(disk, project, std, t)
           Right(f, m) == \A k \in 0 .. m : f[k] = IF k = 0 THEN start ELSE After(f[k - 1], k)
           Some == {m \in Nat : \E f : Right(f, m)}
           Body(f) == f = [k \in 0 .. last |-> IF k = 0 THEN start ELSE After(f[k - 1], k)]
           it == CHOOSE f : Body(f)
<1>1. Follows(disk, project, std, root) = it
  BY DEF Follows
<1>2. last \in Nat
  OBVIOUS
<1> HIDE DEF last, start, After
<1>3. 0 \in Some
  <2> DEFINE f == [k \in {0} |-> start]
  <2>1. Right(f, 0)
    OBVIOUS
  <2>2. QED
    BY <2>1
<1>4. ASSUME NEW m \in 0 .. last - 1, m \in Some PROVE m + 1 \in Some
  <2>1. PICK f : Right(f, m)
    BY <1>4
  <2> DEFINE g == [k \in 0 .. last |-> IF k = m + 1 THEN After(f[m], m + 1) ELSE f[k]]
  <2>2. /\ g[m + 1] = After(f[m], m + 1)
        /\ \A k \in 0 .. m : g[k] = f[k]
    BY <1>2
  <2> HIDE DEF g
  <2>3. ASSUME NEW k \in 0 .. m + 1
        PROVE  g[k] = IF k = 0 THEN start ELSE After(g[k - 1], k)
    <3>1. CASE k = m + 1
      BY <2>2, <3>1
    <3>2. CASE k \in 0 .. m
      <4>1. g[k] = f[k] /\ (k # 0 => g[k - 1] = f[k - 1])
        BY <2>2, <3>2
      <4>2. QED
        BY <2>1, <3>2, <4>1
    <3>3. QED
      BY <3>1, <3>2
  <2>4. Right(g, m + 1)
    BY <2>3
  <2>5. QED
    BY <2>4
<1>5. last \in Some
  <2> HIDE DEF Some
  <2>1. 0 .. last \subseteq Some
    BY <1>2, <1>3, <1>4, CountingUp
  <2>2. QED
    BY <1>2, <2>1
<1>6. PICK f : Right(f, last)
  BY <1>5
<1> DEFINE h == [k \in 0 .. last |-> f[k]]
<1>7. Body(h)
  <2>1. \A k \in 0 .. last : k # 0 => k - 1 \in 0 .. last
    BY <1>2
  <2>2. QED
    BY <1>6, <2>1
<1>8. Body(it)
  <2> HIDE DEF Body
  <2>1. QED
    BY <1>7
<1>9. /\ it[0] = start
      /\ \A k \in 1 .. last : it[k] = After(it[k - 1], k)
  <2> HIDE DEF it
  <2>1. QED
    BY <1>2, <1>8
<1>10. QED
  BY <1>1, <1>9 DEF last, start, After

\* Batches are committed one after the other.
LEMMA CommitsDefined ==
    ASSUME NEW table, NEW batches, Len(batches) \in Nat
    PROVE  LET f == Commits(table, batches)
           IN  /\ f[0] = table
               /\ \A k \in 1 .. Len(batches) : f[k] = LockAfter(f[k - 1], batches[k])
<1> DEFINE last == Len(batches)
           start == table
           After(t, k) == LockAfter(t, batches[k])
           Right(f, m) == \A k \in 0 .. m : f[k] = IF k = 0 THEN start ELSE After(f[k - 1], k)
           Some == {m \in Nat : \E f : Right(f, m)}
           Body(f) == f = [k \in 0 .. last |-> IF k = 0 THEN start ELSE After(f[k - 1], k)]
           it == CHOOSE f : Body(f)
<1>1. Commits(table, batches) = it
  BY DEF Commits
<1>2. last \in Nat
  OBVIOUS
<1> HIDE DEF last, start, After
<1>3. 0 \in Some
  <2> DEFINE f == [k \in {0} |-> start]
  <2>1. Right(f, 0)
    OBVIOUS
  <2>2. QED
    BY <2>1
<1>4. ASSUME NEW m \in 0 .. last - 1, m \in Some PROVE m + 1 \in Some
  <2>1. PICK f : Right(f, m)
    BY <1>4
  <2> DEFINE g == [k \in 0 .. last |-> IF k = m + 1 THEN After(f[m], m + 1) ELSE f[k]]
  <2>2. /\ g[m + 1] = After(f[m], m + 1)
        /\ \A k \in 0 .. m : g[k] = f[k]
    BY <1>2
  <2> HIDE DEF g
  <2>3. ASSUME NEW k \in 0 .. m + 1
        PROVE  g[k] = IF k = 0 THEN start ELSE After(g[k - 1], k)
    <3>1. CASE k = m + 1
      BY <2>2, <3>1
    <3>2. CASE k \in 0 .. m
      <4>1. g[k] = f[k] /\ (k # 0 => g[k - 1] = f[k - 1])
        BY <2>2, <3>2
      <4>2. QED
        BY <2>1, <3>2, <4>1
    <3>3. QED
      BY <3>1, <3>2
  <2>4. Right(g, m + 1)
    BY <2>3
  <2>5. QED
    BY <2>4
<1>5. last \in Some
  <2> HIDE DEF Some
  <2>1. 0 .. last \subseteq Some
    BY <1>2, <1>3, <1>4, CountingUp
  <2>2. QED
    BY <1>2, <2>1
<1>6. PICK f : Right(f, last)
  BY <1>5
<1> DEFINE h == [k \in 0 .. last |-> f[k]]
<1>7. Body(h)
  <2>1. \A k \in 0 .. last : k # 0 => k - 1 \in 0 .. last
    BY <1>2
  <2>2. QED
    BY <1>6, <2>1
<1>8. Body(it)
  <2> HIDE DEF Body
  <2>1. QED
    BY <1>7
<1>9. /\ it[0] = start
      /\ \A k \in 1 .. last : it[k] = After(it[k - 1], k)
  <2> HIDE DEF it
  <2>1. QED
    BY <1>2, <1>8
<1>10. QED
  BY <1>1, <1>9 DEF last, start, After

\* And all of them, round after round.
LEMMA RoundsDefined ==
    ASSUME NEW table, NEW batches, NEW program, Len(program) \in Nat
    PROVE  LET f == Rounds(table, batches, program)
           IN  /\ f[0] = table
               /\ \A k \in 1 .. Len(program) : f[k] = LockAfterAll(f[k - 1], batches)
<1> DEFINE last == Len(program)
           start == table
           After(t, k) == LockAfterAll(t, batches)
           Right(f, m) == \A k \in 0 .. m : f[k] = IF k = 0 THEN start ELSE After(f[k - 1], k)
           Some == {m \in Nat : \E f : Right(f, m)}
           Body(f) == f = [k \in 0 .. last |-> IF k = 0 THEN start ELSE After(f[k - 1], k)]
           it == CHOOSE f : Body(f)
<1>1. Rounds(table, batches, program) = it
  BY DEF Rounds
<1>2. last \in Nat
  OBVIOUS
<1> HIDE DEF last, start, After
<1>3. 0 \in Some
  <2> DEFINE f == [k \in {0} |-> start]
  <2>1. Right(f, 0)
    OBVIOUS
  <2>2. QED
    BY <2>1
<1>4. ASSUME NEW m \in 0 .. last - 1, m \in Some PROVE m + 1 \in Some
  <2>1. PICK f : Right(f, m)
    BY <1>4
  <2> DEFINE g == [k \in 0 .. last |-> IF k = m + 1 THEN After(f[m], m + 1) ELSE f[k]]
  <2>2. /\ g[m + 1] = After(f[m], m + 1)
        /\ \A k \in 0 .. m : g[k] = f[k]
    BY <1>2
  <2> HIDE DEF g
  <2>3. ASSUME NEW k \in 0 .. m + 1
        PROVE  g[k] = IF k = 0 THEN start ELSE After(g[k - 1], k)
    <3>1. CASE k = m + 1
      BY <2>2, <3>1
    <3>2. CASE k \in 0 .. m
      <4>1. g[k] = f[k] /\ (k # 0 => g[k - 1] = f[k - 1])
        BY <2>2, <3>2
      <4>2. QED
        BY <2>1, <3>2, <4>1
    <3>3. QED
      BY <3>1, <3>2
  <2>4. Right(g, m + 1)
    BY <2>3
  <2>5. QED
    BY <2>4
<1>5. last \in Some
  <2> HIDE DEF Some
  <2>1. 0 .. last \subseteq Some
    BY <1>2, <1>3, <1>4, CountingUp
  <2>2. QED
    BY <1>2, <2>1
<1>6. PICK f : Right(f, last)
  BY <1>5
<1> DEFINE h == [k \in 0 .. last |-> f[k]]
<1>7. Body(h)
  <2>1. \A k \in 0 .. last : k # 0 => k - 1 \in 0 .. last
    BY <1>2
  <2>2. QED
    BY <1>6, <2>1
<1>8. Body(it)
  <2> HIDE DEF Body
  <2>1. QED
    BY <1>7
<1>9. /\ it[0] = start
      /\ \A k \in 1 .. last : it[k] = After(it[k - 1], k)
  <2> HIDE DEF it
  <2>1. QED
    BY <1>2, <1>8
<1>10. QED
  BY <1>1, <1>9 DEF last, start, After

-----------------------------------------------------------------------------
(***************************************************************************)
(* Programs made of files.                                                 *)
(***************************************************************************)

\* The files F are modules, and a name is of one of them.
Separate(F) ==
    /\ \A x \in F : IsBatch(x.defs)
    /\ \A x, y \in F : LocalNames(x.defs) \cap LocalNames(y.defs) # {} => x = y

\* The program consists of the definitions of the files X, those of each file
\* together and in order: the first of x comes after at[x] others.
LaidOut(program, X, at) ==
    /\ IsBatch(program)
    /\ at \in [X -> Nat]
    /\ \A x \in X : \A j \in DOMAIN x.defs :
          at[x] + j \in DOMAIN program /\ program[at[x] + j] = x.defs[j]
    /\ \A i \in DOMAIN program : \E x \in X : \E j \in DOMAIN x.defs : i = at[x] + j

\* It has all that its files mention.
IsLoad(F, program, X, at) ==
    /\ X \subseteq F
    /\ LaidOut(program, X, at)
    /\ \A x \in X, y \in F : Mentions(x.defs) \cap LocalNames(y.defs) # {} => y \in X

FilesOfDefs(F) == {x.defs : x \in F}

\* The file a definition of the program is of.
FileOf(X, at, i) == CHOOSE x \in X : \E j \in DOMAIN x.defs : i = at[x] + j

\* A place in the program is of one file, and is one place in it.
LEMMA Places ==
    ASSUME NEW F, Separate(F), NEW P, NEW X, NEW at, IsLoad(F, P, X, at)
    PROVE  /\ \A x, y \in X : \A j \in DOMAIN x.defs, k \in DOMAIN y.defs :
                 at[x] + j = at[y] + k => x = y /\ j = k
           /\ \A i \in DOMAIN P :
                 LET x == FileOf(X, at, i)
                 IN  /\ x \in X /\ at[x] \in Nat
                     /\ i - at[x] \in DOMAIN x.defs
                     /\ P[i] = x.defs[i - at[x]]
           /\ \A x \in X : \A j \in DOMAIN x.defs : FileOf(X, at, at[x] + j) = x
<1>1. /\ X \subseteq F /\ at \in [X -> Nat]
      /\ \A x \in X : \A j \in DOMAIN x.defs :
            at[x] + j \in DOMAIN P /\ P[at[x] + j] = x.defs[j]
      /\ \A i \in DOMAIN P : \E x \in X : \E j \in DOMAIN x.defs : i = at[x] + j
  BY DEF IsLoad, LaidOut
<1>2. \A x \in X : \A j \in DOMAIN x.defs : j \in Nat
  BY <1>1 DEF Separate, IsBatch
<1>3. ASSUME NEW x \in X, NEW y \in X, NEW j \in DOMAIN x.defs, NEW k \in DOMAIN y.defs,
             at[x] + j = at[y] + k
      PROVE  x = y /\ j = k
  <2>1. x.defs[j].name \in LocalNames(x.defs) /\ x.defs[j].name \in LocalNames(y.defs)
    <3>1. x.defs[j] = y.defs[k]
      BY <1>1, <1>3
    <3>2. QED
      BY <3>1 DEF LocalNames
  <2>2. x = y
    BY <1>1, <2>1 DEF Separate
  <2>3. at[x] \in Nat /\ j \in Nat /\ k \in Nat
    BY <1>1, <1>2
  <2>4. QED
    BY <1>3, <2>2, <2>3
<1>4. ASSUME NEW i \in DOMAIN P
      PROVE  LET x == FileOf(X, at, i)
             IN  /\ x \in X /\ at[x] \in Nat
                 /\ i - at[x] \in DOMAIN x.defs
                 /\ P[i] = x.defs[i - at[x]]
  <2> DEFINE x == FileOf(X, at, i)
  <2>1. x \in X /\ \E j \in DOMAIN x.defs : i = at[x] + j
    BY <1>1 DEF FileOf
  <2> HIDE DEF x
  <2>2. PICK j \in DOMAIN x.defs : i = at[x] + j
    BY <2>1
  <2>3. at[x] \in Nat /\ j \in Nat
    BY <1>1, <1>2, <2>1
  <2>4. i - at[x] = j
    BY <2>2, <2>3
  <2>5. P[i] = x.defs[j]
    BY <1>1, <2>1, <2>2
  <2>6. QED
    BY <2>1, <2>3, <2>4, <2>5 DEF x
<1>5. ASSUME NEW x \in X, NEW j \in DOMAIN x.defs
      PROVE  FileOf(X, at, at[x] + j) = x
  BY <1>3 DEF FileOf
<1>6. QED
  BY <1>3, <1>4, <1>5

\* A name of a file is a name of the program, and means the same there.
LEMMA NamesOfLoad ==
    ASSUME NEW F, Separate(F), NEW P, NEW X, NEW at, IsLoad(F, P, X, at)
    PROVE  /\ \A n \in LocalNames(P) : \E x \in X : n \in LocalNames(x.defs)
           /\ \A x \in X : \A n \in LocalNames(x.defs) :
                 /\ n \in LocalNames(P)
                 /\ IndexOf(x.defs, n) \in DOMAIN x.defs
                 /\ IndexOf(P, n) = at[x] + IndexOf(x.defs, n)
           /\ \A x \in F : LocalNames(x.defs) \cap LocalNames(P) # {} => x \in X
<1>1. /\ X \subseteq F /\ at \in [X -> Nat] /\ IsBatch(P)
      /\ \A x \in X : \A j \in DOMAIN x.defs :
            at[x] + j \in DOMAIN P /\ P[at[x] + j] = x.defs[j]
      /\ \A i \in DOMAIN P : \E x \in X : \E j \in DOMAIN x.defs : i = at[x] + j
  BY DEF IsLoad, LaidOut
<1>2. ASSUME NEW l \in DOMAIN P
      PROVE  \E x \in X : \E j \in DOMAIN x.defs :
                 l = at[x] + j /\ P[l] = x.defs[j] /\ P[l].name \in LocalNames(x.defs)
  <2>1. PICK x \in X : \E j \in DOMAIN x.defs : l = at[x] + j
    BY <1>1
  <2>2. PICK j \in DOMAIN x.defs : l = at[x] + j
    BY <2>1
  <2>3. P[l] = x.defs[j]
    BY <1>1, <2>2
  <2>4. QED
    BY <2>2, <2>3 DEF LocalNames
<1>3. ASSUME NEW n \in LocalNames(P)
      PROVE  \E x \in X : n \in LocalNames(x.defs)
  <2>1. PICK l \in DOMAIN P : n = P[l].name
    BY DEF LocalNames
  <2>2. QED
    BY <1>2, <2>1
<1>4. ASSUME NEW x \in X, NEW n \in LocalNames(x.defs)
      PROVE  /\ n \in LocalNames(P)
             /\ IndexOf(x.defs, n) \in DOMAIN x.defs
             /\ IndexOf(P, n) = at[x] + IndexOf(x.defs, n)
  <2> DEFINE j == IndexOf(x.defs, n)
             i == at[x] + j
  <2>1. IsBatch(x.defs) /\ at[x] \in Nat
    BY <1>1 DEF Separate
  <2>2. /\ j \in DOMAIN x.defs /\ x.defs[j].name = n
        /\ \A k \in DOMAIN x.defs : x.defs[k].name = n => k <= j
    BY <2>1, IndexOfLocal
  <2> HIDE DEF j
  <2>3. i \in DOMAIN P /\ P[i].name = n
    BY <1>1, <2>2
  <2>4. ASSUME NEW l \in DOMAIN P, P[l].name = n
        PROVE  l <= i
    <3>1. PICK y \in X : \E k \in DOMAIN y.defs :
              l = at[y] + k /\ P[l] = y.defs[k] /\ P[l].name \in LocalNames(y.defs)
      BY <1>2
    <3>2. PICK k \in DOMAIN y.defs :
              l = at[y] + k /\ P[l] = y.defs[k] /\ P[l].name \in LocalNames(y.defs)
      BY <3>1
    <3>3. x = y
      BY <1>1, <2>4, <3>2 DEF Separate
    <3>4. k <= j
      BY <2>2, <2>4, <3>2, <3>3
    <3>5. k \in Nat /\ j \in Nat
      BY <2>1, <2>2, <3>2, <3>3 DEF IsBatch
    <3>6. QED
      BY <2>1, <3>2, <3>3, <3>4, <3>5
  <2>5. IndexOf(P, P[i].name) = i
    <3> HIDE DEF i
    <3>1. QED
      BY <1>1, <2>3, <2>4, IndexOfLast
  <2>6. n \in LocalNames(P)
    BY <2>3 DEF LocalNames
  <2>7. QED
    BY <2>2, <2>3, <2>5, <2>6 DEF j
<1>5. ASSUME NEW x \in F, NEW n \in LocalNames(x.defs) \cap LocalNames(P)
      PROVE  x \in X
  <2>1. PICK y \in X : n \in LocalNames(y.defs)
    BY <1>3
  <2>2. x = y
    BY <1>1, <2>1 DEF Separate
  <2>3. QED
    BY <2>2
<1>6. QED
  BY <1>3, <1>4, <1>5

\* What a file of the program mentions is of the program, or of no file.
LEMMA MentionedIn ==
    ASSUME NEW F, NEW P, NEW X, NEW at, IsLoad(F, P, X, at), Separate(F),
           NEW x \in X, NEW j \in DOMAIN x.defs, NEW k \in DOMAIN x.defs[j].refs,
           NEW y \in F, x.defs[j].refs[k] \in LocalNames(y.defs)
    PROVE  y \in X /\ x.defs[j].refs[k] \in LocalNames(P)
<1>1. x.defs[j].refs[k] \in Mentions(x.defs)
  BY DEF Mentions, Range
<1>2. y \in X
  BY <1>1 DEF IsLoad
<1>3. QED
  BY <1>2, NamesOfLoad

\* Without recursion across files, a component of a program is of one file.
LEMMA ComponentOfFile ==
    ASSUME NEW F, Separate(F), NEW P, NEW X, NEW at, IsLoad(F, P, X, at),
           LocalRecursion(FilesOfDefs(F), P),
           NEW x \in X, NEW j \in DOMAIN x.defs,
           NEW i \in ComponentOf(P, at[x] + j)
    PROVE  /\ i - at[x] \in DOMAIN x.defs
           /\ at[x] \in Nat
           /\ P[i].name \in LocalNames(x.defs)
<1>1. /\ X \subseteq F /\ IsBatch(P) /\ at[x] \in Nat
      /\ at[x] + j \in DOMAIN P /\ P[at[x] + j] = x.defs[j]
  BY DEF IsLoad, LaidOut
<1>2. i \in DOMAIN P
  BY <1>1, ComponentPositions
<1>3. PICK y \in F : {P[at[x] + j].name, P[i].name} \subseteq LocalNames(y.defs)
  BY <1>1, <1>2 DEF LocalRecursion, FilesOfDefs, ComponentOf
<1>4. x = y
  <2>1. x.defs[j].name \in LocalNames(x.defs)
    BY DEF LocalNames
  <2>2. x.defs[j].name \in LocalNames(y.defs)
    BY <1>1, <1>3
  <2>3. QED
    BY <1>1, <2>1, <2>2 DEF Separate
<1> DEFINE z == FileOf(X, at, i)
<1>5. z \in X /\ i - at[z] \in DOMAIN z.defs /\ P[i] = z.defs[i - at[z]]
  BY <1>2, Places
<1>6. P[i].name \in LocalNames(z.defs)
  BY <1>5 DEF LocalNames
<1>7. z = x
  BY <1>1, <1>3, <1>4, <1>5, <1>6 DEF Separate
<1>8. QED
  BY <1>1, <1>5, <1>6, <1>7

\* A file has the same hashes in every program it is of.
LEMMA LoadedAlike ==
    ASSUME NEW F, Separate(F), NEW lk,
           NEW P, NEW X, NEW at, IsLoad(F, P, X, at), LocalRecursion(FilesOfDefs(F), P),
           NEW Q, NEW Y, NEW bt, IsLoad(F, Q, Y, bt)
    PROVE  \A x \in X \cap Y : \A j \in DOMAIN x.defs :
               DagHashes(Q, lk)[bt[x] + j] = DagHashes(P, lk)[at[x] + j]
<1> DEFINE of(i) == FileOf(X, at, i)
           S == {i \in DOMAIN P : of(i) \in Y}
           s == [i \in S |-> bt[of(i)] + (i - at[of(i)])]
<1>1. /\ IsBatch(P) /\ IsBatch(Q) /\ X \subseteq F /\ Y \subseteq F
      /\ bt \in [Y -> Nat]
      /\ \A x \in X : \A j \in DOMAIN x.defs :
            at[x] + j \in DOMAIN P /\ P[at[x] + j] = x.defs[j]
      /\ \A y \in Y : \A j \in DOMAIN y.defs :
            bt[y] + j \in DOMAIN Q /\ Q[bt[y] + j] = y.defs[j]
  BY DEF IsLoad, LaidOut
<1>2. ASSUME NEW i \in S
      PROVE  /\ of(i) \in X /\ of(i) \in Y /\ at[of(i)] \in Nat
             /\ i - at[of(i)] \in DOMAIN of(i).defs
             /\ P[i] = of(i).defs[i - at[of(i)]]
             /\ s[i] \in DOMAIN Q /\ Q[s[i]] = P[i]
  <2>1. /\ of(i) \in X /\ of(i) \in Y /\ at[of(i)] \in Nat
        /\ i - at[of(i)] \in DOMAIN of(i).defs
        /\ P[i] = of(i).defs[i - at[of(i)]]
    BY Places
  <2> HIDE DEF of
  <2>2. QED
    BY <1>1, <2>1
<1>3. ASSUME NEW x \in X \cap Y, NEW j \in DOMAIN x.defs
      PROVE  /\ at[x] + j \in S
             /\ s[at[x] + j] = bt[x] + j
  <2>1. of(at[x] + j) = x /\ at[x] + j \in DOMAIN P
    BY <1>1, Places
  <2>2. at[x] \in Nat /\ j \in Nat
    BY <1>1 DEF IsLoad, LaidOut, Separate, IsBatch
  <2>3. at[x] + j \in S
    BY <2>1
  <2>4. s[at[x] + j] = bt[x] + ((at[x] + j) - at[x])
    BY <2>1, <2>3
  <2>5. (at[x] + j) - at[x] = j
    BY <2>2
  <2> HIDE DEF s
  <2>6. QED
    BY <2>3, <2>4, <2>5
<1> HIDE DEF S, s, of
<1>4. S \subseteq DOMAIN P /\ s \in [S -> DOMAIN Q]
  <2>1. S \subseteq DOMAIN P /\ s = [i \in S |-> s[i]]
    BY DEF S, s
  <2>2. QED
    BY <1>2, <2>1
<1>5. ASSUME NEW i \in S, NEW k \in S, s[i] = s[k]
      PROVE  i = k
  <2> DEFINE x == of(i)
             y == of(k)
  <2>1. /\ x \in Y /\ y \in Y /\ at[x] \in Nat /\ at[y] \in Nat
        /\ i - at[x] \in DOMAIN x.defs /\ k - at[y] \in DOMAIN y.defs
        /\ s[i] = bt[x] + (i - at[x]) /\ s[k] = bt[y] + (k - at[y])
    BY <1>2 DEF s
  <2> HIDE DEF x, y
  <2>2. x = y /\ i - at[x] = k - at[y]
    <3>1. \A u, v \in Y : \A l \in DOMAIN u.defs, m \in DOMAIN v.defs :
              bt[u] + l = bt[v] + m => u = v /\ l = m
      BY Places
    <3> DEFINE l == i - at[x]
               m == k - at[y]
    <3>2. x \in Y /\ y \in Y /\ l \in DOMAIN x.defs /\ m \in DOMAIN y.defs
      BY <2>1
    <3>3. bt[x] + l = bt[y] + m
      BY <1>5, <2>1
    <3> HIDE DEF l, m
    <3>4. x = y /\ l = m
      BY <3>1, <3>2, <3>3
    <3>5. QED
      BY <3>4 DEF l, m
  <2>3. i \in Int /\ k \in Int
    BY <1>1, <1>4 DEF IsBatch
  <2>4. QED
    BY <2>1, <2>2, <2>3
<1>6. \A i \in S : SameShape(P[i], Q[s[i]])
  BY <1>2 DEF SameShape
<1>7. ASSUME NEW i \in S, NEW k \in DOMAIN P[i].refs
      PROVE  SameReference(P, lk, Q, lk, S, s, s[i], P[i].refs[k], Q[s[i]].refs[k])
  <2> DEFINE x == of(i)
             j == i - at[x]
             n == P[i].refs[k]
  <2>1. /\ x \in X /\ x \in Y /\ x \in F /\ j \in DOMAIN x.defs
        /\ P[i] = x.defs[j] /\ Q[s[i]] = P[i]
    BY <1>1, <1>2
  <2> HIDE DEF x, j
  <2>2. CASE n \in LocalNames(P)
    <3>1. PICK y \in X : n \in LocalNames(y.defs)
      BY <2>2, NamesOfLoad
    <3>2. y \in Y
      BY <1>1, <2>1, <3>1, MentionedIn
    <3>3. /\ n \in LocalNames(Q)
          /\ IndexOf(y.defs, n) \in DOMAIN y.defs
          /\ IndexOf(P, n) = at[y] + IndexOf(y.defs, n)
      BY <3>1, NamesOfLoad, <3>2
    <3>4. IndexOf(Q, n) = bt[y] + IndexOf(y.defs, n)
      BY <3>1, NamesOfLoad, <3>2
    <3>5. IndexOf(P, n) \in S /\ s[IndexOf(P, n)] = IndexOf(Q, n)
      BY <1>3, <3>2, <3>3, <3>4
    <3>6. QED
      BY <2>1, <2>2, <3>3, <3>5 DEF SameReference
  <2>3. CASE n \notin LocalNames(P)
    <3>1. n \notin LocalNames(Q)
      <4>1. SUFFICES ASSUME n \in LocalNames(Q) PROVE FALSE
        OBVIOUS
      <4>2. PICK y \in Y : n \in LocalNames(y.defs)
        BY <4>1, NamesOfLoad
      <4>3. n \in LocalNames(P)
        BY <1>1, <2>1, <4>2, MentionedIn
      <4>4. QED
        BY <2>3, <4>3
    <3>2. QED
      BY <2>1, <2>3, <3>1 DEF SameReference
  <2>4. QED
    BY <2>2, <2>3
<1>8. ASSUME NEW i \in S, NEW k \in ComponentOf(P, i)
      PROVE  k <= i <=> s[k] <= s[i]
  <2> DEFINE x == of(i)
             j == i - at[x]
  <2>1. /\ x \in X \cap Y /\ at[x] \in Nat /\ j \in DOMAIN x.defs
    BY <1>2
  <2>2. i \in Int /\ k \in Int
    BY <1>1, <1>4, ComponentPositions DEF IsBatch
  <2>3. i = at[x] + j
    BY <2>1, <2>2
  <2> HIDE DEF x, j
  <2>4. k - at[x] \in DOMAIN x.defs
    BY <2>1, <2>3, ComponentOfFile
  <2>5. s[at[x] + (k - at[x])] = bt[x] + (k - at[x]) /\ s[at[x] + j] = bt[x] + j
    BY <1>3, <2>1, <2>4
  <2>6. at[x] + (k - at[x]) = k
    BY <2>1, <2>2
  <2>7. bt[x] \in Nat /\ j \in Nat
    BY <1>1, <2>1 DEF Separate, IsBatch
  <2>8. QED
    BY <2>1, <2>2, <2>3, <2>5, <2>6, <2>7
<1>9. Corresponds(P, lk, Q, lk, S, s)
  BY <1>4, <1>5, <1>6, <1>7, <1>8 DEF Corresponds
<1>10. \A i \in S : DagHashes(Q, lk)[s[i]] = DagHashes(P, lk)[i]
  BY <1>1, <1>9, HashesCorrespond
<1>11. QED
  BY <1>3, <1>10

\* What a commit binds, and what it leaves alone.
LEMMA LockAfterValues ==
    ASSUME NEW b, IsBatch(b), NEW table
    PROVE  /\ DOMAIN LockAfter(table, b) = DOMAIN table \cup LocalNames(b)
           /\ \A n \in LocalNames(b) :
                 LockAfter(table, b)[n] = DagHashes(b, table)[IndexOf(b, n)]
           /\ \A n : n \notin LocalNames(b) =>
                 /\ n \in DOMAIN table => LockAfter(table, b)[n] = table[n]
                 /\ ExternalHash(LockAfter(table, b), n) = ExternalHash(table, n)
<1> DEFINE dag == DagHashes(b, table)
           new == Rebinding(b, dag)
           after == LockAfter(table, b)
<1>1. DOMAIN dag = DOMAIN b
  BY DagHashesDefined
<1>2. after = Inserted(table, new)
  BY DEF LockAfter
<1> HIDE DEF dag, after
<1>3. DOMAIN new = LocalNames(b) /\ \A n \in LocalNames(b) : new[n] = dag[IndexOf(b, n)]
  BY <1>1, RebindingValues
<1> HIDE DEF new
<1>4. /\ DOMAIN after = DOMAIN table \cup DOMAIN new
      /\ \A n \in DOMAIN new : after[n] = new[n]
      /\ \A n \in DOMAIN table \ DOMAIN new : after[n] = table[n]
  BY <1>2 DEF Inserted
<1>5. \A n : n \notin LocalNames(b) => ExternalHash(after, n) = ExternalHash(table, n)
  BY <1>3, <1>4 DEF ExternalHash
<1>6. QED
  BY <1>3, <1>4, <1>5 DEF after, dag

\* So a program leaves the same bindings of a name as any other that has it.
LEMMA LoadsAgree ==
    ASSUME NEW F, Separate(F), NEW lk,
           NEW P, NEW X, NEW at, IsLoad(F, P, X, at), LocalRecursion(FilesOfDefs(F), P),
           NEW Q, NEW Y, NEW bt, IsLoad(F, Q, Y, bt)
    PROVE  Agree(LockAfter(lk, Q), LocalNames(Q), P, DagHashes(P, lk))
<1>1. SUFFICES ASSUME NEW n \in LocalNames(P) \cap LocalNames(Q)
               PROVE  LockAfter(lk, Q)[n] = DagHashes(P, lk)[IndexOf(P, n)]
  BY DEF Agree
<1>2. PICK x \in X : n \in LocalNames(x.defs)
  BY NamesOfLoad
<1>3. x \in Y
  <2>1. x \in F
    BY DEF IsLoad
  <2>2. QED
    BY <1>2, <2>1, NamesOfLoad
<1>4. IndexOf(x.defs, n) \in DOMAIN x.defs /\ IndexOf(P, n) = at[x] + IndexOf(x.defs, n)
  BY <1>2, NamesOfLoad
<1>5. IndexOf(Q, n) = bt[x] + IndexOf(x.defs, n)
  BY <1>2, <1>3, NamesOfLoad
<1>6. DagHashes(Q, lk)[IndexOf(Q, n)] = DagHashes(P, lk)[IndexOf(P, n)]
  BY <1>3, <1>4, <1>5, LoadedAlike
<1>7. LockAfter(lk, Q)[n] = DagHashes(Q, lk)[IndexOf(Q, n)]
  <2>1. IsBatch(Q)
    BY DEF IsLoad, LaidOut
  <2>2. QED
    BY <2>1, LockAfterValues
<1>8. QED
  BY <1>6, <1>7

-----------------------------------------------------------------------------
(***************************************************************************)
(* File by file, round after round.                                        *)
(***************************************************************************)

\* The names a table has the program's hashes for.
Bound(table, program, dag, names) ==
    \A n \in names : n \in DOMAIN table /\ table[n] = dag[IndexOf(program, n)]

\* What the files of a program take from elsewhere is as before.
SameOutside(table, lk, program, X) ==
    \A x \in X : \A n \in Mentions(x.defs) \ LocalNames(program) :
        ExternalHash(table, n) = ExternalHash(lk, n)

\* The names that are not to be committed, and those of definitions that reach
\* no more than r.
LowNames(program, own, r) ==
    {n \in LocalNames(program) : n \notin own \/ Below(program, IndexOf(program, n)) <= r}

\* A reference leads to the component, or to a definition that reaches less.
LEMMA ReferenceBelow ==
    ASSUME NEW b, IsBatch(b), NEW i \in DOMAIN b, NEW k \in DOMAIN b[i].refs,
           b[i].refs[k] \in LocalNames(b)
    PROVE  LET m == IndexOf(b, b[i].refs[k])
           IN  /\ m \in DOMAIN b
               /\ m \in ComponentOf(b, i) => Below(b, m) = Below(b, i)
               /\ m \notin ComponentOf(b, i) => Below(b, m) < Below(b, i)
<1> DEFINE n == b[i].refs[k]
           m == IndexOf(b, n)
<1>1. n \in Range(b[i].refs) \cap LocalNames(b)
  BY DEF Range
<1>2. i \in ComponentOf(b, i) /\ i \in DOMAIN CallGraph(b)
  BY ComponentPositions, CallGraphEdges
<1>3. m \in DOMAIN b
  BY IndexOfLocal
<1>4. ASSUME m \in ComponentOf(b, i)
      PROVE  Below(b, m) = Below(b, i)
  BY <1>2, <1>4, ComponentShared DEF ComponentOf, Below
<1>5. ASSUME m \notin ComponentOf(b, i)
      PROVE  Below(b, m) < Below(b, i)
  BY <1>1, <1>2, <1>5, ReferencesBelow
<1>6. QED
  BY <1>3, <1>4, <1>5

\* A file committed alone gets the hashes it has in a program as far as the
\* table has those of what it refers to in other files.
LEMMA FileHashes ==
    ASSUME NEW F, Separate(F), NEW lk,
           NEW P, NEW X, NEW at, IsLoad(F, P, X, at), LocalRecursion(FilesOfDefs(F), P),
           NEW own, NEW table, NEW r \in Nat, SameOutside(table, lk, P, X),
           Bound(table, P, DagHashes(P, lk), LowNames(P, own, r)),
           NEW x \in X
    PROVE  \A j \in DOMAIN x.defs :
               Below(P, at[x] + j) <= r + 1 =>
                   DagHashes(x.defs, table)[j] = DagHashes(P, lk)[at[x] + j]
<1> DEFINE b == x.defs
           dag == DagHashes(P, lk)
           S == {j \in DOMAIN b : Below(P, at[x] + j) <= r + 1}
           s == [j \in S |-> at[x] + j]
<1>1. /\ IsBatch(b) /\ IsBatch(P) /\ at[x] \in Nat /\ x \in F
      /\ \A j \in DOMAIN b : /\ at[x] + j \in DOMAIN P /\ P[at[x] + j] = b[j]
                             /\ j \in Nat
  BY DEF IsLoad, LaidOut, Separate, IsBatch
<1>2. \A i \in DOMAIN P : Below(P, i) \in Nat
  <2>1. \A i \in DOMAIN P : Below(P, i) \in 1 .. Len(P)
    BY <1>1, SizeNatural
  <2>2. QED
    BY <1>1, <2>1 DEF IsBatch
<1>3. /\ S \subseteq DOMAIN b /\ s \in [S -> DOMAIN P]
      /\ \A j \in S : s[j] = at[x] + j
  BY <1>1
<1>4. \A j, k \in S : s[j] = s[k] => j = k
  BY <1>1, <1>3
<1>5. \A j \in S : P[s[j]] = b[j]
  BY <1>1, <1>3
<1>6. ASSUME NEW j \in S, NEW k \in DOMAIN b[j].refs, b[j].refs[k] \in LocalNames(b)
      PROVE  LET n == b[j].refs[k]
             IN  /\ n \in LocalNames(P) /\ IndexOf(b, n) \in S
                 /\ s[IndexOf(b, n)] = IndexOf(P, n)
  <2> DEFINE n == b[j].refs[k]
             m == IndexOf(P, n)
             i == at[x] + j
  <2>1. /\ n \in LocalNames(P) /\ IndexOf(b, n) \in DOMAIN b
        /\ m = at[x] + IndexOf(b, n)
    BY <1>6, NamesOfLoad
  <2>2. i \in DOMAIN P /\ P[i] = b[j] /\ Below(P, i) <= r + 1
    BY <1>1
  <2> HIDE DEF i
  <2>3. /\ m \in DOMAIN P
        /\ m \in ComponentOf(P, i) => Below(P, m) = Below(P, i)
        /\ m \notin ComponentOf(P, i) => Below(P, m) < Below(P, i)
    BY <1>1, <1>6, <2>1, <2>2, ReferenceBelow
  <2>4. Below(P, m) <= r + 1
    BY <1>2, <2>2, <2>3
  <2>5. IndexOf(b, n) \in S
    BY <2>1, <2>4
  <2> HIDE DEF S, s, m
  <2>6. QED
    BY <1>3, <2>1, <2>5 DEF m
<1>7. ASSUME NEW j \in S, NEW k \in DOMAIN b[j].refs
      PROVE  SameReference(b, table, P, lk, S, s, s[j], b[j].refs[k], P[s[j]].refs[k])
  <2> DEFINE n == b[j].refs[k]
             m == IndexOf(P, n)
             i == at[x] + j
  <2>1. /\ j \in DOMAIN b /\ i \in DOMAIN P /\ P[i] = b[j] /\ s[j] = i
        /\ Below(P, i) <= r + 1
    BY <1>1, <1>3
  <2>2. CASE n \in LocalNames(b)
    BY <1>5, <1>6, <2>2 DEF SameReference
  <2>3. CASE n \notin LocalNames(b) /\ n \in LocalNames(P)
    <3>1. m \notin ComponentOf(P, i)
      <4>1. SUFFICES ASSUME m \in ComponentOf(P, i) PROVE FALSE
        OBVIOUS
      <4>2. P[m].name \in LocalNames(b)
        BY <2>1, <4>1, ComponentOfFile
      <4>3. P[m].name = n
        BY <1>1, <2>3, IndexOfLocal
      <4>4. QED
        BY <2>3, <4>2, <4>3
    <3> HIDE DEF i
    <3>2. m \in DOMAIN P /\ Below(P, m) < Below(P, i)
      BY <1>1, <2>1, <2>3, <3>1, ReferenceBelow
    <3>3. Below(P, m) <= r
      BY <1>2, <2>1, <3>2
    <3>4. n \in DOMAIN table /\ table[n] = dag[m]
      BY <2>3, <3>3 DEF Bound, LowNames
    <3>5. ExternalHash(table, n) = dag[m]
      BY <3>4 DEF ExternalHash
    <3>6. QED
      BY <1>5, <2>1, <2>3, <3>1, <3>5 DEF SameReference
  <2>4. CASE n \notin LocalNames(P)
    <3>1. n \notin LocalNames(b)
      BY <2>4, NamesOfLoad
    <3>2. n \in Mentions(b)
      BY <2>1 DEF Mentions, Range
    <3>3. ExternalHash(table, n) = ExternalHash(lk, n)
      BY <2>4, <3>2 DEF SameOutside
    <3>4. QED
      BY <1>5, <2>4, <3>1, <3>3 DEF SameReference
  <2>5. QED
    BY <2>2, <2>3, <2>4
<1> HIDE DEF S, s, b
<1>8. ASSUME NEW j \in S, NEW k \in ComponentOf(b, j)
      PROVE  k <= j <=> s[k] <= s[j]
  <2>1. ASSUME NEW l \in S, NEW m \in CallGraph(b)[l]
        PROVE  m \in S
    BY <1>3, <1>6, <2>1, EdgeOf
  <2>2. Saturated(CallGraph(b), {j}, S)
    BY <2>1 DEF Saturated
  <2>3. Reachable(CallGraph(b), {j}) \subseteq S
    BY <1>1, <1>3, <2>2, CallGraphEdges, ReachableLeast
  <2>4. k \in S
    BY <2>3 DEF ComponentOf, Component
  <2>5. j \in Nat /\ k \in Nat
    BY <1>1, <1>3, <2>4 DEF b
  <2>6. QED
    BY <1>1, <1>3, <2>4, <2>5
<1>9. \A j \in S : SameShape(b[j], P[s[j]])
  BY <1>5 DEF SameShape
<1>10. Corresponds(b, table, P, lk, S, s)
  BY <1>3, <1>4, <1>7, <1>8, <1>9 DEF Corresponds
<1>11. \A j \in S : dag[s[j]] = DagHashes(b, table)[j]
  BY <1>1, <1>10, HashesCorrespond
<1>12. QED
  BY <1>3, <1>11 DEF S, b

\* A commit of one file settles the names of the file that reach one more
\* definition than those already settled, and disturbs none.
LEMMA CommitSettles ==
    ASSUME NEW F, Separate(F), NEW lk,
           NEW P, NEW X, NEW at, IsLoad(F, P, X, at), LocalRecursion(FilesOfDefs(F), P),
           NEW own, NEW table, NEW r \in Nat, SameOutside(table, lk, P, X),
           Bound(table, P, DagHashes(P, lk), LowNames(P, own, r)),
           NEW names, Bound(table, P, DagHashes(P, lk), LowNames(P, own, r + 1) \cap names),
           NEW x \in F, LocalNames(x.defs) \subseteq own
    PROVE  LET after == LockAfter(table, x.defs)
           IN  /\ SameOutside(after, lk, P, X)
               /\ Bound(after, P, DagHashes(P, lk), LowNames(P, own, r))
               /\ Bound(after, P, DagHashes(P, lk),
                        LowNames(P, own, r + 1) \cap (names \cup LocalNames(x.defs)))
<1> DEFINE b == x.defs
           after == LockAfter(table, b)
           dag == DagHashes(P, lk)
           low == LowNames(P, own, r)
           next == LowNames(P, own, r + 1)
<1>1. IsBatch(b) /\ X \subseteq F
  BY DEF Separate, IsLoad
<1>2. /\ DOMAIN after = DOMAIN table \cup LocalNames(b)
      /\ \A n \in LocalNames(b) : after[n] = DagHashes(b, table)[IndexOf(b, n)]
      /\ \A n : n \notin LocalNames(b) =>
            /\ n \in DOMAIN table => after[n] = table[n]
            /\ ExternalHash(after, n) = ExternalHash(table, n)
  BY <1>1, LockAfterValues
<1>3. SameOutside(after, lk, P, X)
  <2>1. SUFFICES ASSUME NEW y \in X, NEW n \in Mentions(y.defs), n \notin LocalNames(P)
                 PROVE  ExternalHash(after, n) = ExternalHash(lk, n)
    BY DEF SameOutside
  <2>2. n \notin LocalNames(b)
    <3>1. SUFFICES ASSUME n \in LocalNames(b) PROVE FALSE
      OBVIOUS
    <3>2. x \in X
      BY <2>1, <3>1 DEF IsLoad
    <3>3. n \in LocalNames(P)
      BY <3>1, <3>2, NamesOfLoad
    <3>4. QED
      BY <2>1, <3>3
  <2>3. QED
    BY <1>2, <2>1, <2>2 DEF SameOutside
<1>4. \A i \in DOMAIN P : Below(P, i) \in Nat
  <2>1. IsBatch(P)
    BY DEF IsLoad, LaidOut
  <2>2. \A i \in DOMAIN P : Below(P, i) \in 1 .. Len(P)
    BY <2>1, SizeNatural
  <2>3. QED
    BY <2>1, <2>2 DEF IsBatch
<1>5. low \subseteq next
  <2>1. \A n \in LocalNames(P) : IndexOf(P, n) \in DOMAIN P
    BY IndexOfLocal DEF IsLoad, LaidOut
  <2>2. QED
    BY <1>4, <2>1 DEF LowNames
<1>6. ASSUME NEW n \in next \cap LocalNames(b)
      PROVE  n \in DOMAIN after /\ after[n] = dag[IndexOf(P, n)]
  <2>1. n \in LocalNames(P) /\ Below(P, IndexOf(P, n)) <= r + 1
    BY <1>6 DEF LowNames
  <2>2. x \in X
    BY <2>1, NamesOfLoad
  <2>3. /\ IndexOf(b, n) \in DOMAIN b
        /\ IndexOf(P, n) = at[x] + IndexOf(b, n)
    BY <2>2, NamesOfLoad
  <2>4. \A j \in DOMAIN b :
            Below(P, at[x] + j) <= r + 1 => DagHashes(b, table)[j] = dag[at[x] + j]
    BY <2>2, FileHashes
  <2>5. DagHashes(b, table)[IndexOf(b, n)] = dag[IndexOf(P, n)]
    BY <2>1, <2>3, <2>4
  <2>6. QED
    BY <1>2, <2>5
<1> HIDE DEF b, after, dag, low, next
<1>7. ASSUME NEW n \in (low \cup (next \cap names)) \ LocalNames(b)
      PROVE  n \in DOMAIN after /\ after[n] = dag[IndexOf(P, n)]
  <2>1. n \in DOMAIN table /\ table[n] = dag[IndexOf(P, n)]
    BY <1>7 DEF Bound, low, next, dag
  <2>2. QED
    BY <1>2, <2>1, <1>7
<1>8. Bound(after, P, dag, low)
  BY <1>5, <1>6, <1>7 DEF Bound
<1>9. Bound(after, P, dag, next \cap (names \cup LocalNames(b)))
  BY <1>6, <1>7 DEF Bound
<1>10. QED
  BY <1>3, <1>8, <1>9 DEF after, b, dag, low, next

\* A sequence of files.
IsPush(F, push) ==
    /\ Len(push) \in Nat /\ DOMAIN push = 1 .. Len(push)
    /\ \A i \in DOMAIN push : \E x \in F : push[i] = x.defs

NamesOfPush(push) == UNION {LocalNames(push[i]) : i \in DOMAIN push}

\* A round settles what reaches one more definition.
LEMMA RoundSettles ==
    ASSUME NEW F, Separate(F), NEW lk,
           NEW P, NEW X, NEW at, IsLoad(F, P, X, at), LocalRecursion(FilesOfDefs(F), P),
           NEW push, IsPush(F, push),
           NEW table, NEW r \in Nat, SameOutside(table, lk, P, X),
           Bound(table, P, DagHashes(P, lk), LowNames(P, NamesOfPush(push), r))
    PROVE  LET after == LockAfterAll(table, push)
           IN  /\ SameOutside(after, lk, P, X)
               /\ Bound(after, P, DagHashes(P, lk), LowNames(P, NamesOfPush(push), r + 1))
<1> DEFINE own == NamesOfPush(push)
           dag == DagHashes(P, lk)
           low == LowNames(P, own, r)
           next == LowNames(P, own, r + 1)
           after == Commits(table, push)
           sofar(i) == UNION {LocalNames(push[j]) : j \in 1 .. i}
           Good == {i \in 0 .. Len(push) :
                       /\ SameOutside(after[i], lk, P, X)
                       /\ Bound(after[i], P, dag, low)
                       /\ Bound(after[i], P, dag, next \cap sofar(i))}
<1>1. Len(push) \in Nat /\ DOMAIN push = 1 .. Len(push)
  BY DEF IsPush
<1>2. /\ after[0] = table
      /\ \A i \in 1 .. Len(push) : after[i] = LockAfter(after[i - 1], push[i])
  BY <1>1, CommitsDefined
<1> HIDE DEF after
<1>3. 0 \in Good
  <2>1. sofar(0) = {}
    OBVIOUS
  <2> DEFINE some == next \cap sofar(0)
  <2>2. some = {}
    BY <2>1
  <2> HIDE DEF sofar, some
  <2>3. Bound(table, P, dag, some)
    BY <2>2 DEF Bound
  <2>4. 0 \in 0 .. Len(push)
    BY <1>1
  <2> DEFINE first == after[0]
  <2>5. first = table
    BY <1>2
  <2> HIDE DEF first, low, dag, own
  <2>6. SameOutside(first, lk, P, X) /\ Bound(first, P, dag, low) /\ Bound(first, P, dag, some)
    BY <2>3, <2>5 DEF low, dag, own
  <2>7. QED
    BY <2>4, <2>6 DEF some, first, low
<1>4. ASSUME NEW i \in 0 .. Len(push) - 1, i \in Good PROVE i + 1 \in Good
  <2>1. i + 1 \in DOMAIN push /\ after[i + 1] = LockAfter(after[i], push[i + 1])
    BY <1>1, <1>2
  <2>2. PICK x \in F : push[i + 1] = x.defs
    BY <2>1 DEF IsPush
  <2>3. LocalNames(x.defs) \subseteq own
    BY <2>1, <2>2 DEF NamesOfPush
  <2>4. sofar(i + 1) = sofar(i) \cup LocalNames(x.defs)
    <3>1. 1 .. i + 1 = (1 .. i) \cup {i + 1}
      BY <1>1
    <3>2. QED
      BY <2>2, <3>1
  <2> DEFINE before == after[i]
             names == sofar(i)
  <2>5. /\ SameOutside(before, lk, P, X)
        /\ Bound(before, P, dag, low)
        /\ Bound(before, P, dag, next \cap names)
    BY <1>4
  <2> HIDE DEF before, names, sofar, own
  <2>6. LET then == LockAfter(before, x.defs)
        IN  /\ SameOutside(then, lk, P, X)
            /\ Bound(then, P, dag, low)
            /\ Bound(then, P, dag, next \cap (names \cup LocalNames(x.defs)))
    BY <2>3, <2>5, CommitSettles
  <2>7. after[i + 1] = LockAfter(before, x.defs)
    BY <2>1, <2>2 DEF before
  <2>8. sofar(i + 1) = names \cup LocalNames(x.defs)
    BY <2>4 DEF names
  <2>9. i + 1 \in 0 .. Len(push)
    BY <1>1
  <2>10. QED
    BY <2>6, <2>7, <2>8, <2>9
<1>5. Len(push) \in Good
  <2> HIDE DEF Good
  <2>1. 0 .. Len(push) \subseteq Good
    BY <1>1, <1>3, <1>4, CountingUp
  <2>2. QED
    BY <1>1, <2>1
<1> DEFINE last == after[Len(push)]
<1>6. /\ SameOutside(last, lk, P, X)
      /\ Bound(last, P, dag, low)
      /\ Bound(last, P, dag, next \cap own)
  BY <1>1, <1>5 DEF NamesOfPush
<1>7. next \subseteq low \cup (next \cap own)
  BY DEF LowNames
<1> HIDE DEF last, low, next, dag
<1>8. Bound(last, P, dag, next)
  BY <1>6, <1>7 DEF Bound
<1>9. last = LockAfterAll(table, push)
  BY DEF LockAfterAll, last, after
<1>10. QED
  BY <1>6, <1>8, <1>9 DEF dag, next

\* After as many rounds as the program has definitions all of it is settled.
LEMMA RoundsSettle ==
    ASSUME NEW F, Separate(F), NEW lk,
           NEW P, NEW X, NEW at, IsLoad(F, P, X, at), LocalRecursion(FilesOfDefs(F), P),
           NEW push, IsPush(F, push),
           LocalNames(P) \ NamesOfPush(push) \subseteq DOMAIN lk,
           Agree(lk, LocalNames(P) \ NamesOfPush(push), P, DagHashes(P, lk))
    PROVE  Agree(Settled(lk, push, P), NamesOfPush(push), P, DagHashes(P, lk))
<1> DEFINE own == NamesOfPush(push)
           dag == DagHashes(P, lk)
           after == Rounds(lk, push, P)
           Good == {r \in Nat : /\ SameOutside(after[r], lk, P, X)
                                /\ Bound(after[r], P, dag, LowNames(P, own, r))}
<1>1. /\ IsBatch(P) /\ Len(P) \in Nat
      /\ \A n \in LocalNames(P) : IndexOf(P, n) \in DOMAIN P
  BY IndexOfLocal DEF IsLoad, LaidOut, IsBatch
<1>2. \A i \in DOMAIN P : Below(P, i) \in 1 .. Len(P)
  BY <1>1, SizeNatural
<1>3. /\ after[0] = lk
      /\ \A r \in 1 .. Len(P) : after[r] = LockAfterAll(after[r - 1], push)
  BY <1>1, RoundsDefined
<1> HIDE DEF after, own, dag
<1>4. 0 \in Good
  <2>1. SameOutside(lk, lk, P, X)
    BY DEF SameOutside
  <2>2. \A n \in LowNames(P, own, 0) : n \in LocalNames(P) \ own
    BY <1>1, <1>2 DEF LowNames
  <2>3. Bound(lk, P, dag, LowNames(P, own, 0))
    BY <2>2 DEF Bound, Agree, own, dag
  <2>4. QED
    BY <1>3, <2>1, <2>3
<1>5. ASSUME NEW r \in 0 .. Len(P) - 1, r \in Good PROVE r + 1 \in Good
  <2> DEFINE before == after[r]
             then == LockAfterAll(before, push)
  <2>1. after[r + 1] = then /\ r \in Nat
    BY <1>1, <1>3
  <2>2. SameOutside(before, lk, P, X) /\ Bound(before, P, dag, LowNames(P, own, r))
    BY <1>5
  <2> HIDE DEF before
  <2>3. SameOutside(then, lk, P, X) /\ Bound(then, P, dag, LowNames(P, own, r + 1))
    BY <2>1, <2>2, RoundSettles DEF own, dag
  <2> HIDE DEF then
  <2>4. QED
    BY <2>1, <2>3
<1>6. Len(P) \in Good
  <2> HIDE DEF Good
  <2>1. 0 .. Len(P) \subseteq Good
    BY <1>1, <1>4, <1>5, CountingUp
  <2>2. QED
    BY <1>1, <2>1
<1>7. Bound(after[Len(P)], P, dag, LowNames(P, own, Len(P)))
  BY <1>6
<1>8. \A n \in LocalNames(P) : n \in LowNames(P, own, Len(P))
  BY <1>1, <1>2 DEF LowNames
<1>9. QED
  BY <1>7, <1>8 DEF Bound, Agree, Settled, after, own, dag


-----------------------------------------------------------------------------
(***************************************************************************)
(* Loading a file gives a program made of files.                           *)
(***************************************************************************)

\* The modules of F are apart, and what a file mentions it imports.
Modular(F) ==
    /\ Separate(F)
    /\ \A x \in F : /\ x.imports \in Seq(Range(x.imports))
                    /\ x.defs \in Seq(Range(x.defs))
    /\ \A x, y \in F :
          /\ x.module = y.module => x = y
          /\ Mentions(x.defs) \cap LocalNames(y.defs) # {} =>
                x = y \/ y.module \in Range(x.imports)

ImportsIn(F) == UNION {Range(x.imports) : x \in F}
DefsIn(F) == UNION {Range(x.defs) : x \in F}

\* A search has loaded files whose imports it has seen or will see, and every
\* file of a module it has seen.
Searching(F, st) ==
    /\ st.queue \in Seq(ImportsIn(F)) /\ st.defs \in Seq(DefsIn(F))
    /\ \E X, at :
          /\ X \subseteq F /\ LaidOut(st.defs, X, at)
          /\ \A x \in X : /\ x.module \in st.seen
                          /\ Range(x.imports) \subseteq st.seen \cup Range(st.queue)
          /\ \A y \in F : y.module \in st.seen => y \in X

\* The files that a search takes are in F, and those of std can be found.
Within(F, disk, sources) == \A x \in sources : disk.files[x.file] \in F
StdFound(F, disk, std) ==
    \A y \in F : Head(y.module) = "std" =>
        \E x \in std : Declaring(disk, std, y.module) = {x}

\* A file added to a program comes after what is there.
LEMMA LaidOneMore ==
    ASSUME NEW S, NEW defs \in Seq(S), NEW X, NEW at, LaidOut(defs, X, at),
           NEW x, x \notin X, x.defs \in Seq(S),
           NEW next \in [X \cup {x} -> Nat],
           next[x] = Len(defs), \A y \in X : next[y] = at[y]
    PROVE  LaidOut(defs \o x.defs, X \cup {x}, next)
<1> DEFINE new == x.defs
           both == defs \o new
<1>1. /\ Len(defs) \in Nat /\ DOMAIN defs = 1 .. Len(defs)
      /\ Len(new) \in Nat /\ DOMAIN new = 1 .. Len(new)
  BY LenProperties
<1>2. /\ both \in Seq(S) /\ Len(both) = Len(defs) + Len(new)
      /\ \A i \in 1 .. Len(defs) + Len(new) :
            both[i] = IF i <= Len(defs) THEN defs[i] ELSE new[i - Len(defs)]
  BY ConcatProperties
<1>3. DOMAIN both = 1 .. Len(defs) + Len(new)
  BY <1>2, LenProperties
<1>4. /\ at \in [X -> Nat]
      /\ \A y \in X : \A j \in DOMAIN y.defs :
            at[y] + j \in DOMAIN defs /\ defs[at[y] + j] = y.defs[j]
      /\ \A i \in DOMAIN defs : \E y \in X : \E j \in DOMAIN y.defs : i = at[y] + j
  BY DEF LaidOut
<1>5. next \in [X \cup {x} -> Nat]
  OBVIOUS
<1> HIDE DEF both
<1>6. ASSUME NEW y \in X \cup {x}, NEW j \in DOMAIN y.defs
      PROVE  next[y] + j \in DOMAIN both /\ both[next[y] + j] = y.defs[j]
  <2>1. CASE y \in X
    <3> DEFINE i == at[y] + j
    <3>1. i \in DOMAIN defs /\ defs[i] = y.defs[j]
      BY <1>4, <2>1
    <3> HIDE DEF i
    <3>2. i \in DOMAIN both /\ both[i] = defs[i]
      BY <1>1, <1>2, <1>3, <3>1
    <3>3. next[y] + j = i
      BY <2>1 DEF i
    <3>4. QED
      BY <3>1, <3>2, <3>3
  <2>2. CASE y = x
    <3>1. j \in 1 .. Len(new)
      BY <1>1, <2>2
    <3> DEFINE i == Len(defs) + j
    <3>2. i \in 1 .. Len(defs) + Len(new) /\ ~ (i <= Len(defs)) /\ i - Len(defs) = j
      BY <1>1, <3>1
    <3> HIDE DEF i
    <3>3. i \in DOMAIN both /\ both[i] = new[j]
      BY <1>2, <1>3, <3>2
    <3>4. next[y] + j = i
      BY <2>2 DEF i
    <3>5. QED
      BY <2>2, <3>3, <3>4
  <2>3. QED
    BY <2>1, <2>2
<1>7. ASSUME NEW i \in DOMAIN both
      PROVE  \E y \in X \cup {x} : \E j \in DOMAIN y.defs : i = next[y] + j
  <2>1. CASE i \in DOMAIN defs
    <3>1. PICK y \in X : \E j \in DOMAIN y.defs : i = at[y] + j
      BY <1>4, <2>1
    <3>2. QED
      BY <3>1
  <2>2. CASE i \notin DOMAIN defs
    <3>1. i - Len(defs) \in DOMAIN new /\ i = Len(defs) + (i - Len(defs))
      BY <1>1, <1>3, <2>2
    <3>2. QED
      BY <3>1
  <2>3. QED
    BY <2>1, <2>2
<1>8. IsBatch(both)
  BY <1>1, <1>2, <1>3 DEF IsBatch
<1>9. LaidOut(both, X \cup {x}, next)
  BY <1>5, <1>6, <1>7, <1>8 DEF LaidOut
<1>10. QED
  BY <1>9 DEF both

\* A search begins so.
LEMMA SearchBegins ==
    ASSUME NEW F, Modular(F), NEW x \in F, NEW st,
           st.queue = x.imports, st.defs = x.defs, st.seen = {x.module}
    PROVE  Searching(F, st)
<1> DEFINE at == [y \in {x} |-> 0]
<1>1. /\ x.imports \in Seq(Range(x.imports)) /\ x.defs \in Seq(Range(x.defs))
      /\ IsBatch(x.defs)
  BY DEF Modular, Separate
<1>2. x.imports \in Seq(ImportsIn(F)) /\ x.defs \in Seq(DefsIn(F))
  <2>1. Range(x.imports) \subseteq ImportsIn(F) /\ Range(x.defs) \subseteq DefsIn(F)
    BY DEF ImportsIn, DefsIn
  <2>2. QED
    BY <1>1, <2>1, SeqMonotonic
<1>3. LaidOut(x.defs, {x}, at)
  <2>1. \A j \in DOMAIN x.defs : 0 + j = j
    BY <1>1 DEF IsBatch
  <2>2. QED
    BY <1>1, <2>1 DEF LaidOut
<1>4. \A y \in F : y.module = x.module => y = x
  BY DEF Modular
<1> HIDE DEF at
<1>5. \E X, bt :
          /\ X \subseteq F /\ LaidOut(x.defs, X, bt)
          /\ \A y \in X : /\ y.module \in {x.module}
                          /\ Range(y.imports) \subseteq {x.module} \cup Range(x.imports)
          /\ \A y \in F : y.module \in {x.module} => y \in X
  <2>1. /\ {x} \subseteq F /\ LaidOut(x.defs, {x}, at)
        /\ \A y \in {x} : /\ y.module \in {x.module}
                          /\ Range(y.imports) \subseteq {x.module} \cup Range(x.imports)
        /\ \A y \in F : y.module \in {x.module} => y \in {x}
    BY <1>3, <1>4
  <2>2. QED
    BY <2>1
<1>6. QED
  BY <1>2, <1>5 DEF Searching

\* An import that is followed adds its file, one that is not adds nothing.
LEMMA SearchFollows ==
    ASSUME NEW F, Modular(F), NEW disk, NEW project, NEW std,
           Within(F, disk, project), Within(F, disk, std), StdFound(F, disk, std),
           NEW st, st.ok => Searching(F, st),
           Follow(disk, project, std, st).ok
    PROVE  Searching(F, Follow(disk, project, std, st))
<1> DEFINE next == Follow(disk, project, std, st)
           module == Head(st.queue)
           inStd == Head(module) = "std"
           sources == IF inStd THEN std ELSE project
           declaring == Declaring(disk, sources, module)
           once == \E x \in declaring : declaring = {x}
           file == (CHOOSE x \in declaring : TRUE).file
<1>1. CASE ~ st.ok \/ st.queue = <<>>
  <2>1. next = st
    BY <1>1 DEF Follow
  <2>2. QED
    BY <2>1
<1>2. CASE st.ok /\ st.queue # <<>>
  <2>1. st.queue \in Seq(ImportsIn(F)) /\ st.defs \in Seq(DefsIn(F))
    BY <1>2 DEF Searching
  <2>2. PICK X, at :
            /\ X \subseteq F /\ LaidOut(st.defs, X, at)
            /\ \A x \in X : /\ x.module \in st.seen
                            /\ Range(x.imports) \subseteq st.seen \cup Range(st.queue)
            /\ \A y \in F : y.module \in st.seen => y \in X
    BY <1>2 DEF Searching
  <2>3. Tail(st.queue) \in Seq(ImportsIn(F))
    BY <1>2, <2>1, HeadTailProperties
  <2>4. Range(st.queue) \subseteq {module} \cup Range(Tail(st.queue))
    <3> DEFINE q == st.queue
               t == Tail(q)
    <3>1. /\ DOMAIN q = 1 .. Len(q) /\ Len(q) \in Nat /\ DOMAIN t = 1 .. Len(t)
          /\ Len(t) = Len(q) - 1 /\ \A i \in 1 .. Len(t) : t[i] = q[i + 1]
      BY <1>2, <2>1, <2>3, HeadTailProperties, LenProperties
    <3>2. q[1] = module
      BY DEF Head
    <3> HIDE DEF q, t, module
    <3>3. ASSUME NEW i \in DOMAIN q PROVE q[i] \in {module} \cup Range(t)
      <4>1. CASE i = 1
        BY <3>2, <4>1
      <4>2. CASE i # 1
        <5>1. i - 1 \in DOMAIN t /\ t[i - 1] = q[(i - 1) + 1] /\ (i - 1) + 1 = i
          BY <3>1, <3>3, <4>2
        <5>2. QED
          BY <5>1 DEF Range
      <4>3. QED
        BY <4>1, <4>2
    <3>4. QED
      BY <3>3 DEF Range, q, t
  <2>5. CASE module \in st.seen \/ (inStd /\ ~ once)
    <3>1. next = [ok |-> TRUE, queue |-> Tail(st.queue), seen |-> st.seen \cup {module},
                  defs |-> st.defs]
      BY <1>2, <2>5 DEF Follow
    <3>2. ASSUME NEW y \in F, y.module \in st.seen \cup {module} PROVE y \in X
      <4>1. CASE y.module \in st.seen
        BY <2>2, <4>1
      <4>2. CASE y.module \notin st.seen
        <5>1. y.module = module /\ inStd /\ ~ once
          BY <2>5, <3>2, <4>2
        <5>2. \E x \in std : Declaring(disk, std, module) = {x}
          BY <5>1 DEF StdFound
        <5>3. QED
          BY <5>1, <5>2
      <4>3. QED
        BY <4>1, <4>2
    <3> HIDE DEF module
    <3>3. \A x \in X : /\ x.module \in st.seen \cup {module}
                       /\ Range(x.imports) \subseteq
                             (st.seen \cup {module}) \cup Range(Tail(st.queue))
      BY <2>2, <2>4
    <3> HIDE DEF next
    <3>4. /\ next.queue = Tail(st.queue) /\ next.seen = st.seen \cup {module}
          /\ next.defs = st.defs
      BY <3>1
    <3>5. Searching(F, next)
      BY <2>1, <2>2, <2>3, <3>2, <3>3, <3>4 DEF Searching
    <3>6. QED
      BY <3>5 DEF next
  <2>6. CASE ~ (module \in st.seen \/ (inStd /\ ~ once))
    <3>1. once
      <4>1. SUFFICES ASSUME ~ once PROVE FALSE
        OBVIOUS
      <4>2. next = Failed
        BY <1>2, <2>6, <4>1 DEF Follow
      <4>3. QED
        BY <4>2 DEF Failed
    <3> DEFINE new == disk.files[file]
    <3>2. next = [ok |-> TRUE, queue |-> Tail(st.queue) \o new.imports,
                  seen |-> st.seen \cup {module}, defs |-> st.defs \o new.defs]
      BY <1>2, <2>6, <3>1 DEF Follow, ImportsOf
    <3>3. new \in F /\ new.module = module
      <4>1. (CHOOSE x \in declaring : TRUE) \in declaring
        BY <3>1
      <4>2. QED
        BY <4>1 DEF Declaring, Within
    <3> HIDE DEF new, module
    <3>4. new \notin X /\ module \notin st.seen
      BY <2>2, <2>6, <3>3
    <3>5. /\ new.imports \in Seq(Range(new.imports)) /\ new.defs \in Seq(Range(new.defs))
          /\ Range(new.imports) \subseteq ImportsIn(F) /\ Range(new.defs) \subseteq DefsIn(F)
      BY <3>3 DEF Modular, ImportsIn, DefsIn
    <3>6. new.imports \in Seq(ImportsIn(F)) /\ new.defs \in Seq(DefsIn(F))
      BY <3>5, SeqMonotonic
    <3>7. /\ Tail(st.queue) \o new.imports \in Seq(ImportsIn(F))
          /\ st.defs \o new.defs \in Seq(DefsIn(F))
      BY <2>1, <2>3, <3>6, ConcatProperties
    <3>8. Range(Tail(st.queue) \o new.imports) = Range(Tail(st.queue)) \cup Range(new.imports)
      <4> DEFINE t == Tail(st.queue)
                 u == new.imports
                 S == ImportsIn(F)
      <4>1. t \in Seq(S) /\ u \in Seq(S)
        BY <2>3, <3>6
      <4> HIDE DEF t, u, S
      <4>2. Range(t \o u) = Range(t) \cup Range(u)
        BY <4>1, RangeConcatenation
      <4>3. QED
        BY <4>2 DEF t, u
    <3> DEFINE bt == [y \in X \cup {new} |-> IF y = new THEN Len(st.defs) ELSE at[y]]
    <3>9. LaidOut(st.defs \o new.defs, X \cup {new}, bt)
      <4> DEFINE defs == st.defs
                 S == DefsIn(F)
      <4>1. /\ defs \in Seq(S) /\ LaidOut(defs, X, at)
            /\ new \notin X /\ new.defs \in Seq(S)
        BY <2>1, <2>2, <3>4, <3>6
      <4>2. /\ bt \in [X \cup {new} -> Nat] /\ bt[new] = Len(defs)
            /\ \A y \in X : bt[y] = at[y]
        <5>1. Len(defs) \in Nat /\ at \in [X -> Nat]
          BY <4>1, LenProperties DEF LaidOut
        <5> HIDE DEF defs
        <5>2. QED
          BY <3>4, <5>1 DEF defs
      <4> HIDE DEF defs, S, bt
      <4>3. LaidOut(defs \o new.defs, X \cup {new}, bt)
        BY <4>1, <4>2, LaidOneMore
      <4>4. QED
        BY <4>3 DEF defs
    <3>10. \A y \in F : y.module \in st.seen \cup {module} => y \in X \cup {new}
      BY <2>2, <3>3 DEF Modular
    <3>11. ASSUME NEW x \in X \cup {new}
           PROVE  /\ x.module \in st.seen \cup {module}
                  /\ Range(x.imports) \subseteq (st.seen \cup {module}) \cup
                        (Range(Tail(st.queue)) \cup Range(new.imports))
      BY <2>2, <2>4, <3>3
    <3> HIDE DEF next, bt
    <3>12. /\ next.queue = Tail(st.queue) \o new.imports
           /\ next.seen = st.seen \cup {module} /\ next.defs = st.defs \o new.defs
      BY <3>2
    <3>13. X \cup {new} \subseteq F
      BY <2>2, <3>3
    <3>14. Searching(F, next)
      BY <3>7, <3>8, <3>9, <3>10, <3>11, <3>12, <3>13 DEF Searching
    <3>15. QED
      BY <3>14 DEF next
  <2>7. QED
    BY <2>5, <2>6
<1>3. QED
  BY <1>1, <1>2

\* Where nothing is left to follow the program has all that it mentions.
LEMMA SearchEnds ==
    ASSUME NEW F, Modular(F), NEW st, Searching(F, st), st.queue = <<>>
    PROVE  \E X, at : IsLoad(F, st.defs, X, at)
<1>1. PICK X, at :
          /\ X \subseteq F /\ LaidOut(st.defs, X, at)
          /\ \A x \in X : /\ x.module \in st.seen
                          /\ Range(x.imports) \subseteq st.seen \cup Range(st.queue)
          /\ \A y \in F : y.module \in st.seen => y \in X
  BY DEF Searching
<1>2. Range(st.queue) = {}
  BY EmptySeq DEF Range
<1>3. ASSUME NEW x \in X, NEW y \in F, Mentions(x.defs) \cap LocalNames(y.defs) # {}
      PROVE  y \in X
  <2>1. x = y \/ y.module \in Range(x.imports)
    BY <1>1, <1>3 DEF Modular
  <2>2. QED
    BY <1>1, <1>2, <2>1
<1>4. IsLoad(F, st.defs, X, at)
  BY <1>1, <1>3 DEF IsLoad
<1>5. QED
  BY <1>4

\* Sources of one set of layouts are modules, and each disk has finitely many.
LEMMA DiskFacts ==
    ASSUME NEW same \in Workspaces
    PROVE  /\ Modular(ParsedOf(same))
           /\ \A disk \in same :
                 /\ \A f \in DOMAIN disk.files :
                       disk.files[f].parses => disk.files[f] \in ParsedOf(same)
                 /\ Cardinality(Dependencies(disk)) \in Nat
                 /\ Cardinality(Imports(disk)) \in Nat
<1> DEFINE F == ParsedOf(same)
<1>1. \A disk \in same : IsDisk(disk)
  BY WorkspacesAssumption
<1>2. ASSUME NEW x \in F
      PROVE  /\ x.imports \in Seq(Range(x.imports))
             /\ x.defs \in Seq(Range(x.defs)) /\ IsBatch(x.defs)
  <2>1. PICK disk \in same :
            x \in {disk.files[f] : f \in {g \in DOMAIN disk.files : disk.files[g].parses}}
    BY <1>2 DEF ParsedOf
  <2>2. PICK f \in DOMAIN disk.files : disk.files[f].parses /\ x = disk.files[f]
    BY <2>1
  <2>3. /\ x.imports \in Seq(Range(x.imports))
        /\ x.defs \in Seq(Range(x.defs))
    BY <1>1, <2>2 DEF IsDisk
  <2>4. IsBatch(x.defs)
    BY <2>3, LenProperties DEF IsBatch
  <2>5. QED
    BY <2>3, <2>4
<1>3. \A x, y \in F :
          /\ x.module = y.module => x = y
          /\ LocalNames(x.defs) \cap LocalNames(y.defs) # {} => x = y
          /\ Mentions(x.defs) \cap LocalNames(y.defs) # {} =>
                x = y \/ y.module \in Range(x.imports)
  BY WorkspacesAssumption
<1>4. Modular(F)
  BY <1>2, <1>3 DEF Modular, Separate
<1>5. \A disk \in same : \A f \in DOMAIN disk.files :
          disk.files[f].parses => disk.files[f] \in F
  BY DEF ParsedOf
<1>6. \A disk \in same : /\ Cardinality(Dependencies(disk)) \in Nat
                         /\ Cardinality(Imports(disk)) \in Nat
  BY <1>1, FS_CardinalityType DEF IsDisk
<1>7. QED
  BY <1>4, <1>5, <1>6

\* A package's sources are files that parse, found below roots of packages.
LEMMA PackageSources ==
    ASSUME NEW same \in Workspaces, NEW disk \in same, NEW dir,
           LoadPackage(disk, dir).ok
    PROVE  LET sources == LoadPackage(disk, dir).sources
           IN  /\ IsFiniteSet(sources)
               /\ \A x \in sources : x.file \in DOMAIN disk.files
               /\ Within(ParsedOf(same), disk, sources)
<1> DEFINE all == UNION {Found(disk, d) : d \in DOMAIN disk.packages}
           last == 1 + Cardinality(Dependencies(disk))
           visits == Visits(disk, dir)
           Kept(st) == st.ok =>
               st.sources \subseteq {x \in all : disk.files[x.file].parses}
           Good == {k \in 0 .. last : Kept(visits[k])}
<1>1. last \in Nat /\ Cardinality(Dependencies(disk)) \in Nat
  BY DiskFacts
<1>2. LoadPackage(disk, dir) = visits[last]
  BY DEF LoadPackage, Failed
<1>3. /\ visits[0] = [ok |-> TRUE, todo |-> <<[name |-> disk.packages[dir].name, dir |-> dir]>>,
                      seen |-> {}, sources |-> {}]
      /\ \A k \in 1 .. last : visits[k] = Visit(disk, visits[k - 1])
  BY <1>1, VisitsDefined
<1> HIDE DEF visits, last
<1>4. ASSUME NEW st, Kept(st) PROVE Kept(Visit(disk, st))
  <2> DEFINE dep == Head(st.todo)
             next == Visit(disk, st)
  <2>1. CASE ~ st.ok \/ st.todo = <<>>
    BY <1>4, <2>1 DEF Visit
  <2>2. CASE st.ok /\ st.todo # <<>> /\ dep.dir \in st.seen
    <3>1. next.sources = st.sources
      BY <2>2 DEF Visit
    <3>2. QED
      BY <1>4, <2>2, <3>1
  <2>3. CASE st.ok /\ st.todo # <<>> /\ dep.dir \notin st.seen
    <3> DEFINE wrong == \/ dep.dir \notin DOMAIN disk.packages
                        \/ disk.packages[dep.dir].name # dep.name
                        \/ \E x \in Found(disk, dep.dir) : ~ Belongs(disk, x.file, dep.name)
    <3>1. CASE wrong
      <4>1. next = Failed
        BY <2>3, <3>1 DEF Visit
      <4>2. QED
        BY <4>1 DEF Failed
    <3>2. CASE ~ wrong
      <4>1. next.sources = st.sources \cup Found(disk, dep.dir)
        BY <2>3, <3>2 DEF Visit
      <4>2. /\ Found(disk, dep.dir) \subseteq all
            /\ \A x \in Found(disk, dep.dir) : disk.files[x.file].parses
        BY <3>2 DEF Belongs
      <4> HIDE DEF next, all
      <4>3. Kept(next)
        BY <1>4, <2>3, <4>1, <4>2
      <4>4. QED
        BY <4>3 DEF next, all
    <3>3. QED
      BY <3>1, <3>2
  <2>4. QED
    BY <2>1, <2>2, <2>3
<1>5. 0 \in Good
  BY <1>1, <1>3
<1> HIDE DEF Kept
<1>6. ASSUME NEW k \in 0 .. last - 1, k \in Good PROVE k + 1 \in Good
  <2>1. k + 1 \in 1 .. last /\ k + 1 \in 0 .. last /\ (k + 1) - 1 = k
    BY <1>1
  <2>2. visits[k + 1] = Visit(disk, visits[k])
    BY <1>3, <2>1
  <2>3. QED
    BY <1>4, <1>6, <2>1, <2>2
<1>7. Kept(visits[last])
  <2> HIDE DEF Good
  <2>1. 0 .. last \subseteq Good
    BY <1>1, <1>5, <1>6, CountingUp
  <2>2. last \in Good
    BY <1>1, <2>1
  <2>3. QED
    BY <2>2 DEF Good
<1> DEFINE sources == LoadPackage(disk, dir).sources
<1>8. \A x \in sources : x \in all /\ disk.files[x.file].parses
  BY <1>2, <1>7 DEF Kept
<1>9. IsDisk(disk)
  BY WorkspacesAssumption
<1>10. ASSUME NEW x \in all PROVE x.file \in DOMAIN disk.files
  <2>1. PICK d \in DOMAIN disk.packages : x \in Found(disk, d)
    OBVIOUS
  <2> DEFINE roots == disk.packages[d].roots
  <2>2. PICK r \in DOMAIN roots : \E f \in roots[r] : x = [file |-> f, dir |-> d, root |-> r]
    BY <2>1 DEF Found
  <2>3. x.file \in roots[r]
    BY <2>2
  <2>4. x.file \in UNION Range(roots)
    BY <2>3 DEF Range
  <2>5. QED
    BY <1>9, <2>4 DEF IsDisk
<1>11. IsFiniteSet(sources)
  <2>1. IsFiniteSet(all)
    BY <1>9 DEF IsDisk
  <2> HIDE DEF all, sources
  <2>2. sources \in SUBSET all
    BY <1>8
  <2>3. QED
    BY <2>1, <2>2, FS_Subset
<1>12. \A x \in sources : x.file \in DOMAIN disk.files /\ disk.files[x.file] \in ParsedOf(same)
  <2> HIDE DEF all, sources
  <2>1. QED
    BY <1>8, <1>10, DiskFacts
<1>13. QED
  BY <1>11, <1>12 DEF Within

\* Files that are indexed parse.
LEMMA IndexedSources ==
    ASSUME NEW same \in Workspaces, NEW disk \in same,
           NEW fs, fs \subseteq DOMAIN disk.files, Indexed(disk, fs).ok
    PROVE  /\ Indexed(disk, fs).sources = {[file |-> g] : g \in fs}
           /\ \A g \in fs : disk.files[g].parses
           /\ Within(ParsedOf(same), disk, Indexed(disk, fs).sources)
<1>1. \A g \in fs : disk.files[g].parses
  BY DEF Indexed, Failed
<1>2. Indexed(disk, fs).sources = {[file |-> g] : g \in fs}
  BY <1>1 DEF Indexed
<1>3. \A g \in fs : disk.files[g] \in ParsedOf(same)
  BY <1>1, DiskFacts
<1>4. Within(ParsedOf(same), disk, Indexed(disk, fs).sources)
  BY <1>2, <1>3 DEF Within
<1>5. QED
  BY <1>1, <1>2, <1>4

\* What is loaded from a file is a program made of files.
LEMMA LoadIsProgram ==
    ASSUME NEW same \in Workspaces, NEW disk \in same, NEW f \in DOMAIN disk.files,
           LoadSource(disk, f).ok
    PROVE  \E X, at : IsLoad(ParsedOf(same), LoadSource(disk, f).defs, X, at)
<1> DEFINE F == ParsedOf(same)
           file == disk.files[f]
           project == ProjectSources(disk, f)
           std == Indexed(disk, disk.std)
           load == LoadSource(disk, f)
           start == [ok |-> TRUE, queue |-> file.imports, seen |-> {file.module},
                     defs |-> file.defs]
<1>1. file.parses
  BY DEF LoadSource, Failed
<1>2. file \in F /\ Modular(F)
  BY <1>1, DiskFacts
<1>3. Searching(F, start)
  <2>1. /\ start.queue = file.imports /\ start.defs = file.defs
        /\ start.seen = {file.module}
    OBVIOUS
  <2> HIDE DEF F, file, start
  <2>2. QED
    BY <1>2, <2>1, SearchBegins
<1>4. CASE file.imports = <<>>
  <2>1. load.defs = start.defs
    BY <1>1, <1>4 DEF LoadSource
  <2>2. start.queue = <<>>
    BY <1>4
  <2> HIDE DEF F, start, load
  <2>3. QED
    BY <1>2, <1>3, <2>1, <2>2, SearchEnds DEF F, load
<1>5. CASE file.imports # <<>>
  <2>1. /\ project.ok /\ std.ok
        /\ load = Selected(disk, project.sources, std.sources, f)
    BY <1>1, <1>5 DEF LoadSource, Failed
  <2> DEFINE P == project.sources
             S == std.sources
             last == Cardinality(Imports(disk))
             follows == Follows(disk, P, S, f)
             Good == {k \in 0 .. last : follows[k].ok => Searching(F, follows[k])}
  <2>2. IsDisk(disk)
    BY WorkspacesAssumption
  <2>3. disk.std \subseteq DOMAIN disk.files
    BY <2>2 DEF IsDisk
  <2>4. /\ S = {[file |-> g] : g \in disk.std}
        /\ \A g \in disk.std : disk.files[g].parses
        /\ Within(F, disk, S)
    BY <2>1, <2>3, IndexedSources
  <2>5. StdFound(F, disk, S)
    <3>1. SUFFICES ASSUME NEW y \in F, Head(y.module) = "std"
                   PROVE  \E x \in S : Declaring(disk, S, y.module) = {x}
      BY DEF StdFound
    <3>2. PICK g \in disk.std :
              /\ disk.files[g] = y
              /\ \A h \in disk.std \ {g} :
                    disk.files[h].parses => disk.files[h].module # y.module
      BY <3>1, WorkspacesAssumption
    <3> HIDE DEF S, F
    <3> DEFINE x == [file |-> g]
    <3>3. x \in S /\ x.file = g
      BY <2>4
    <3>4. ASSUME NEW z \in S, disk.files[z.file].module = y.module PROVE z = x
      BY <2>4, <3>2, <3>4
    <3>5. Declaring(disk, S, y.module) = {x}
      BY <3>2, <3>3, <3>4 DEF Declaring
    <3>6. QED
      BY <3>3, <3>5
  <2>6. Within(F, disk, P)
    <3>1. CASE disk.home[f] = Nowhere
      <4>1. disk.below[f] \subseteq DOMAIN disk.files
        BY <2>2 DEF IsDisk
      <4>2. project = Indexed(disk, disk.below[f])
        BY <3>1 DEF ProjectSources
      <4>3. QED
        BY <2>1, <4>1, <4>2, IndexedSources
    <3>2. CASE disk.home[f] # Nowhere
      <4>1. project = LoadPackage(disk, disk.home[f])
        BY <3>2 DEF ProjectSources
      <4>2. QED
        BY <2>1, <4>1, PackageSources
    <3>3. QED
      BY <3>1, <3>2
  <2>7. last \in Nat
    BY DiskFacts
  <2>8. /\ follows[0] = start
        /\ \A k \in 1 .. last : follows[k] = Follow(disk, P, S, follows[k - 1])
    BY <2>7, FollowsDefined
  <2>9. load.ok /\ load.queue = <<>> /\ load = follows[last]
    BY <2>1 DEF Selected, Failed
  <2> HIDE DEF P, S, last, follows, start, load, F
  <2>10. 0 \in Good
    BY <1>3, <2>7, <2>8
  <2>11. ASSUME NEW k \in 0 .. last - 1, k \in Good PROVE k + 1 \in Good
    <3> DEFINE st == follows[k]
               next == Follow(disk, P, S, st)
    <3>1. k + 1 \in 0 .. last /\ follows[k + 1] = next
      <4>1. k + 1 \in 1 .. last /\ (k + 1) - 1 = k
        BY <2>7
      <4>2. QED
        BY <2>8, <4>1
    <3>2. st.ok => Searching(F, st)
      BY <2>11
    <3> HIDE DEF st
    <3>3. next.ok => Searching(F, next)
      BY <1>2, <2>4, <2>5, <2>6, <3>2, SearchFollows
    <3>4. QED
      BY <3>1, <3>3
  <2>12. Searching(F, follows[last])
    <3> HIDE DEF Good
    <3>1. 0 .. last \subseteq Good
      BY <2>7, <2>10, <2>11, CountingUp
    <3>2. last \in Good
      BY <2>7, <3>1
    <3>3. QED
      BY <2>9, <3>2 DEF Good
  <2>13. QED
    BY <1>2, <2>9, <2>12, SearchEnds DEF F, load
<1>6. QED
  BY <1>4, <1>5

-----------------------------------------------------------------------------
(***************************************************************************)
(* The batches of the server are files, and all paths agree.               *)
(***************************************************************************)

\* The sources in order of paths are sources.
LEMMA FilesInOrder ==
    ASSUME NEW T, IsFiniteSet(T), NEW n \in Nat, \A x \in T : x.file \in 1 .. n,
           NEW p \in 1 .. Cardinality(T)
    PROVE  \E x \in T : FileAt(T, p) = x.file
<1> DEFINE UpTo(v) == {y \in T : y.file <= v}
           Under(v) == {y \in T : y.file < v}
           S == {v \in Nat : p <= Cardinality(UpTo(v))}
<1>1. Cardinality(T) \in Nat
  BY FS_CardinalityType
<1>2. ASSUME NEW v PROVE Cardinality(UpTo(v)) \in Nat /\ Cardinality(Under(v)) \in Nat
  <2>1. UpTo(v) \in SUBSET T /\ Under(v) \in SUBSET T
    OBVIOUS
  <2>2. QED
    BY <2>1, FS_Subset, FS_CardinalityType
<1>3. n \in S
  <2>1. UpTo(n) = T
    OBVIOUS
  <2>2. QED
    BY <1>1, <2>1
<1>4. PICK v \in S : \A w \in S : v <= w
  <2>1. S \in SUBSET Nat /\ S # {}
    BY <1>3
  <2> HIDE DEF S
  <2>2. QED
    BY <2>1, LeastExists
<1>5. v \in Nat /\ p <= Cardinality(UpTo(v))
  BY <1>4
<1>6. Cardinality(Under(v)) < p
  <2>1. CASE v = 0
    <3>1. Under(v) = {}
      BY <2>1
    <3>2. Cardinality(Under(v)) = 0
      BY <3>1, FS_EmptySet
    <3>3. QED
      BY <1>1, <3>2
  <2>2. CASE v # 0
    <3> DEFINE u == v - 1
               few == Cardinality(UpTo(u))
    <3>1. u \in Nat /\ u \notin S
      BY <1>4, <1>5, <2>2
    <3>2. Under(v) = UpTo(u)
      BY <1>5
    <3>3. few \in Nat /\ ~ (p <= few)
      BY <1>2, <3>1
    <3>4. Cardinality(Under(v)) = few
      BY <3>2
    <3> HIDE DEF few, Under
    <3>5. QED
      BY <1>1, <3>3, <3>4
  <2>3. QED
    BY <2>1, <2>2
<1>7. PICK z \in T : z.file = v
  <2>1. SUFFICES ASSUME \A z \in T : z.file # v PROVE FALSE
    OBVIOUS
  <2>2. UpTo(v) = Under(v)
    BY <1>5, <2>1
  <2>3. Cardinality(UpTo(v)) \in Nat
    BY <1>2
  <2>4. QED
    BY <1>1, <1>5, <1>6, <2>2, <2>3
<1> DEFINE Fits(x) == /\ Cardinality({y \in T : y.file < x.file}) < p
                      /\ p <= Cardinality({y \in T : y.file <= x.file})
<1>8. Fits(z)
  BY <1>5, <1>6, <1>7
<1>9. FileAt(T, p) = (CHOOSE x \in T : Fits(x)).file
  BY DEF FileAt
<1> HIDE DEF Fits
<1>10. (CHOOSE x \in T : Fits(x)) \in T
  BY <1>8
<1>11. QED
  BY <1>9, <1>10

\* So what the server commits of a package is a sequence of files.
LEMMA CommitsAreFiles ==
    ASSUME NEW same \in Workspaces, NEW disk \in same, NEW push \in FileCommitsOf(disk)
    PROVE  IsPush(ParsedOf(same), push)
<1>1. PICK dir \in DOMAIN disk.packages :
          LoadPackage(disk, dir).ok /\ push = FileCommits(disk, dir)
  BY DEF FileCommitsOf
<1> DEFINE T == LoadPackage(disk, dir).sources
<1>2. /\ IsFiniteSet(T) /\ \A x \in T : x.file \in DOMAIN disk.files
      /\ \A x \in T : disk.files[x.file] \in ParsedOf(same)
  BY <1>1, PackageSources DEF Within
<1>3. push = [p \in 1 .. Cardinality(T) |-> disk.files[FileAt(T, p)].defs]
  BY <1>1 DEF FileCommits
<1>4. Len(disk.files) \in Nat /\ DOMAIN disk.files = 1 .. Len(disk.files)
  <2>1. disk.files \in Seq(Range(disk.files))
    BY WorkspacesAssumption DEF IsDisk
  <2>2. QED
    BY <2>1, LenProperties
<1>5. Cardinality(T) \in Nat
  BY <1>2, FS_CardinalityType
<1> HIDE DEF T
<1>6. Len(push) = Cardinality(T) /\ DOMAIN push = 1 .. Cardinality(T)
  BY <1>3, <1>5
<1>7. ASSUME NEW p \in 1 .. Cardinality(T)
      PROVE  \E x \in ParsedOf(same) : push[p] = x.defs
  <2>1. PICK x \in T : FileAt(T, p) = x.file
    BY <1>2, <1>4, FilesInOrder
  <2>2. QED
    BY <1>2, <1>3, <2>1
<1>8. QED
  BY <1>5, <1>6, <1>7 DEF IsPush

\* In every state, however a definition comes to the store it has the hash it
\* has in the program that is loaded: committed again, loaded from another file
\* or in another layout of packages, or pushed file by file by the server.
THEOREM PathsAlwaysAgree == Spec => []CommitPathsAgree
<1>1. ASSUME NEW b \in Batches
      PROVE  DagHashes(b, LockAfter(lock, b)) = DagHashes(b, lock)
  BY BatchesAssumption, RecommitAgrees DEF LockAfter
<1>2. ASSUME NEW way \in Ways, NEW program \in way.loads,
             LocalRecursion(way.files, program)
      PROVE  LET dag == DagHashes(program, lock)
             IN  /\ \A other \in way.loads :
                       Agree(LockAfter(lock, other), LocalNames(other), program, dag)
                 /\ \A push \in way.pushes :
                       LET own == UNION {LocalNames(push[i]) : i \in DOMAIN push}
                       IN  (/\ LocalNames(program) \ own \subseteq DOMAIN lock
                            /\ Agree(lock, LocalNames(program) \ own, program, dag)) =>
                           Agree(Settled(lock, push, program), own, program, dag)
  <2>1. PICK same \in Workspaces :
            way = [files |-> {x.defs : x \in ParsedOf(same)},
                   loads |-> UNION {Loads(d) : d \in same},
                   pushes |-> UNION {FileCommitsOf(d) : d \in same}]
    BY DEF Ways
  <2> DEFINE F == ParsedOf(same)
  <2>2. Separate(F)
    BY DiskFacts DEF Modular
  <2>3. ASSUME NEW b \in way.loads
        PROVE  \E X, at : IsLoad(F, b, X, at)
    <3>1. PICK disk \in same : b \in Loads(disk)
      BY <2>1, <2>3
    <3>2. PICK f \in DOMAIN disk.files :
              LoadSource(disk, f).ok /\ b = LoadSource(disk, f).defs
      BY <3>1 DEF Loads
    <3>3. QED
      BY <3>2, LoadIsProgram
  <2>4. LocalRecursion(FilesOfDefs(F), program)
    BY <1>2, <2>1 DEF FilesOfDefs
  <2>5. ASSUME NEW push \in way.pushes PROVE IsPush(F, push)
    <3>1. PICK disk \in same : push \in FileCommitsOf(disk)
      BY <2>1, <2>5
    <3>2. QED
      BY <3>1, CommitsAreFiles
  <2> HIDE DEF F
  <2>6. PICK X, at : IsLoad(F, program, X, at)
    BY <1>2, <2>3
  <2>7. ASSUME NEW other \in way.loads
        PROVE  Agree(LockAfter(lock, other), LocalNames(other), program,
                     DagHashes(program, lock))
    <3>1. PICK Y, bt : IsLoad(F, other, Y, bt)
      BY <2>3
    <3>2. QED
      BY <2>2, <2>4, <2>6, <3>1, LoadsAgree
  <2>8. ASSUME NEW push \in way.pushes,
               LocalNames(program) \ NamesOfPush(push) \subseteq DOMAIN lock,
               Agree(lock, LocalNames(program) \ NamesOfPush(push), program,
                     DagHashes(program, lock))
        PROVE  Agree(Settled(lock, push, program), NamesOfPush(push), program,
                     DagHashes(program, lock))
    BY <2>2, <2>4, <2>5, <2>6, <2>8, RoundsSettle
  <2>9. QED
    BY <2>7, <2>8 DEF NamesOfPush
<1>3. CommitPathsAgree
  BY <1>1, <1>2 DEF CommitPathsAgree
<1>4. QED
  BY <1>3, PTL DEF Spec
====
