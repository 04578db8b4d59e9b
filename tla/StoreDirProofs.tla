---- MODULE StoreDirProofs ----
(***************************************************************************)
(* What a store directory keeps when commands are cut off anywhere, proved *)
(* for every set of batches, every number of commands and whatever a torn  *)
(* file reads as.                                                          *)
(***************************************************************************)
EXTENDS StoreDir, Foundations

\* What a load should find: sound blobs, with the closure of every binding,
\* and every unsafe site of a bound definition.
Good(st, lk, decl) ==
    /\ GoodStore(st)
    /\ Ranked(DOMAIN st)
    /\ Complete(DepGraph(st), Range(lk))
    /\ DOMAIN decl = DOMAIN lk
    /\ \A n \in DOMAIN decl : decl[n].unsafe \subseteq st[lk[n]].unsafe

Fetched(st, lk) == Reachable(DepGraph(st), Range(lk))

\* The graph of a store.
LEMMA DepGraphOf ==
    ASSUME NEW st
    PROVE  /\ DOMAIN DepGraph(st) = DOMAIN st
           /\ \A h \in DOMAIN st : DepGraph(st)[h] = st[h].deps
BY DEF DepGraph

\* A good store has what its bindings fetch.
LEMMA GoodFetched ==
    ASSUME NEW st, NEW lk, NEW decl, Good(st, lk, decl)
    PROVE  /\ Fetched(st, lk) \subseteq DOMAIN st
           /\ Range(lk) \subseteq Fetched(st, lk)
           /\ \A h \in Fetched(st, lk) : st[h].deps \subseteq Fetched(st, lk)
<1>1. Complete(DepGraph(st), Range(lk))
  BY DEF Good
<1>2. /\ Fetched(st, lk) \subseteq DOMAIN DepGraph(st)
      /\ Range(lk) \subseteq Fetched(st, lk)
      /\ \A h \in Fetched(st, lk) : DepGraph(st)[h] \subseteq Fetched(st, lk)
  BY <1>1, CompleteReachable DEF Fetched
<1>3. QED
  BY <1>2, DepGraphOf

\* A set of blobs with all their references holds what is fetched from it.
LEMMA FetchedWithin ==
    ASSUME NEW st, NEW lk, NEW S \in SUBSET DOMAIN st,
           Range(lk) \subseteq S, \A h \in S : st[h].deps \subseteq S
    PROVE  /\ Complete(DepGraph(st), Range(lk))
           /\ Fetched(st, lk) \subseteq S
<1> DEFINE graph == DepGraph(st)
<1>1. DOMAIN graph = DOMAIN st /\ \A h \in S : graph[h] \subseteq S
  BY DepGraphOf
<1> HIDE DEF graph
<1>2. Complete(graph, Range(lk)) /\ Reachable(graph, Range(lk)) \subseteq S
  BY <1>1, CompleteWithin
<1>3. QED
  BY <1>2 DEF graph, Fetched

-----------------------------------------------------------------------------
(***************************************************************************)
(* What the commands make of a good store.                                 *)
(***************************************************************************)

\* A commit makes a good store of a good one, and disturbs none of its blobs
\* but for unsafe sites.
LEMMA GoodCommit ==
    ASSUME NEW b, IsBatch(b), NEW st, NEW lk, NEW decl, Good(st, lk, decl)
    PROVE  LET dag == DagHashes(b, lk)
               new == CommittedStore(st, b, dag, lk)
           IN  /\ Good(new, Inserted(lk, Rebinding(b, dag)),
                       Inserted(decl, Rebinding(b, b)))
               /\ DOMAIN st \subseteq DOMAIN new
               /\ \A h \in DOMAIN st : st[h].unsafe \subseteq new[h].unsafe
<1> DEFINE dag == DagHashes(b, lk)
           new == CommittedStore(st, b, dag, lk)
           newlk == Inserted(lk, Rebinding(b, dag))
           newdecl == Inserted(decl, Rebinding(b, b))
           S == Fetched(st, lk) \cup Range(dag)
<1>1. /\ Fetched(st, lk) \subseteq DOMAIN st
      /\ Range(lk) \subseteq Fetched(st, lk)
      /\ \A h \in Fetched(st, lk) : st[h].deps \subseteq Fetched(st, lk)
  BY GoodFetched
<1>2. GoodStore(st) /\ Ranked(DOMAIN st) /\ Range(lk) \subseteq DOMAIN st
  BY <1>1 DEF Good
<1>3. GoodStore(new) /\ Ranked(DOMAIN new)
  BY <1>2, CommittedGood
<1>4. ASSUME NEW i \in DOMAIN b
      PROVE  /\ dag[i] \in DOMAIN new
             /\ new[dag[i]].deps = DepsOf(b, dag, lk, i)
             /\ b[i].unsafe \subseteq new[dag[i]].unsafe
  BY <1>2, CommittedGood
<1>5. DOMAIN dag = DOMAIN b
  BY DagHashesDefined
<1> HIDE DEF dag
<1>6. DOMAIN new = DOMAIN st \cup Range(dag)
  BY CommittedDomain
<1>7. ASSUME NEW h \in DOMAIN st
      PROVE  /\ new[h].deps = st[h].deps
             /\ st[h].unsafe \subseteq new[h].unsafe
  <2>1. new[h] = GrownBlob(st[h], SitesOf(b, dag, h))
    BY <1>2, CommittedOld
  <2>2. GoodBlob(h, st[h])
    BY <1>2 DEF GoodStore
  <2> HIDE DEF new
  <2>3. QED
    BY <2>1, <2>2, GrownGood
<1> HIDE DEF new
<1>8. \A h \in S : new[h].deps \subseteq S
  <2>1. ASSUME NEW h \in Range(dag) PROVE new[h].deps \subseteq S
    <3>1. PICK i \in DOMAIN b : dag[i] = h
      BY <1>5 DEF Range
    <3>2. new[h].deps \subseteq Range(dag) \cup Range(lk)
      BY <1>4, <1>5, <3>1, DepsResolved
    <3>3. QED
      BY <1>1, <3>2
  <2>2. QED
    BY <1>1, <1>7, <2>1
<1>9. /\ DOMAIN Rebinding(b, dag) = LocalNames(b)
      /\ Range(Rebinding(b, dag)) \subseteq Range(dag)
  BY <1>5, RebindingValues
<1>10. Range(newlk) \subseteq S
  <2>1. Range(newlk) \subseteq Range(lk) \cup Range(Rebinding(b, dag))
    BY InsertedValues
  <2>2. QED
    BY <1>1, <1>9, <2>1
<1>11. Complete(DepGraph(new), Range(newlk))
  <2>1. S \in SUBSET DOMAIN new
    BY <1>1, <1>6
  <2> HIDE DEF S, newlk
  <2>2. QED
    BY <2>1, <1>8, <1>10, FetchedWithin
<1>12. DOMAIN Rebinding(b, b) = LocalNames(b)
  BY DEF Rebinding
<1>13. /\ DOMAIN newlk = DOMAIN lk \cup LocalNames(b)
       /\ DOMAIN newdecl = DOMAIN decl \cup LocalNames(b)
       /\ DOMAIN decl = DOMAIN lk
  <2>1. DOMAIN newlk = DOMAIN lk \cup LocalNames(b)
    BY <1>9 DEF Inserted
  <2>2. DOMAIN newdecl = DOMAIN decl \cup LocalNames(b)
    BY <1>12 DEF Inserted
  <2>3. QED
    BY <2>1, <2>2 DEF Good
<1>14. ASSUME NEW n \in LocalNames(b)
       PROVE  newdecl[n].unsafe \subseteq new[newlk[n]].unsafe
  <2> DEFINE i == IndexOf(b, n)
  <2>1. i \in DOMAIN b /\ Rebinding(b, dag)[n] = dag[i] /\ Rebinding(b, b)[n] = b[i]
    BY <1>5, RebindingValues
  <2>2. newlk[n] = Rebinding(b, dag)[n] /\ newdecl[n] = Rebinding(b, b)[n]
    BY <1>9, <1>12 DEF Inserted
  <2> HIDE DEF i, newlk, newdecl
  <2>3. QED
    BY <1>4, <2>1, <2>2
<1>15. ASSUME NEW n \in DOMAIN decl \ LocalNames(b)
       PROVE  newdecl[n].unsafe \subseteq new[newlk[n]].unsafe
  <2>1. newlk[n] = lk[n] /\ newdecl[n] = decl[n]
    BY <1>9, <1>12, <1>13 DEF Inserted
  <2>2. lk[n] \in DOMAIN st
    BY <1>2, <1>13 DEF Range
  <2>3. decl[n].unsafe \subseteq st[lk[n]].unsafe
    BY DEF Good
  <2> HIDE DEF newlk, newdecl
  <2>4. QED
    BY <1>7, <2>1, <2>2, <2>3
<1>16. Good(new, newlk, newdecl)
  <2> HIDE DEF newlk, newdecl
  <2>1. QED
    BY <1>3, <1>11, <1>13, <1>14, <1>15 DEF Good
<1>17. QED
  BY <1>6, <1>7, <1>16 DEF new, dag

\* A collection keeps what is fetched of a good store, as it is.
LEMMA GoodCollection ==
    ASSUME NEW st, NEW lk, NEW decl, Good(st, lk, decl)
    PROVE  LET new == CollectedStore(st, lk)
           IN  /\ Good(new, lk, decl)
               /\ Fetched(st, lk) \subseteq DOMAIN new
               /\ DOMAIN new \subseteq DOMAIN st
               /\ \A h \in DOMAIN new : new[h] = st[h]
<1> DEFINE new == CollectedStore(st, lk)
           S == Fetched(st, lk)
<1>1. /\ S \subseteq DOMAIN st
      /\ Range(lk) \subseteq S
      /\ \A h \in S : st[h].deps \subseteq S
  BY GoodFetched
<1>2. new = [h \in S |-> st[h]]
  BY DEF Good, CollectedStore, Retained, Fetched
<1> HIDE DEF new, S
<1>3. DOMAIN new = S /\ \A h \in S : new[h] = st[h]
  BY <1>2
<1>4. GoodStore(new) /\ Ranked(DOMAIN new)
  <2>1. GoodStore(new)
    BY <1>1, <1>3 DEF Good, GoodStore
  <2>2. Ranked(DOMAIN new)
    BY <1>1, <1>3, RankedSubset DEF Good
  <2>3. QED
    BY <2>1, <2>2
<1>5. Complete(DepGraph(new), Range(lk))
  BY <1>1, <1>3, FetchedWithin
<1>6. /\ DOMAIN decl = DOMAIN lk
      /\ \A n \in DOMAIN decl : decl[n].unsafe \subseteq new[lk[n]].unsafe
  BY <1>1, <1>3 DEF Good, Range
<1>7. Good(new, lk, decl)
  BY <1>4, <1>5, <1>6 DEF Good
<1>8. QED
  BY <1>1, <1>3, <1>7 DEF new, S

\* Removing the file of a blob that nothing fetches leaves a good directory.
LEMMA GoodRemoval ==
    ASSUME NEW st, NEW lk, NEW decl, Good(st, lk, decl),
           NEW h, h \notin Fetched(st, lk)
    PROVE  LET new == Restrict(st, DOMAIN st \ {h})
           IN  /\ Good(new, lk, decl)
               /\ Fetched(new, lk) \subseteq Fetched(st, lk)
               /\ DOMAIN new = DOMAIN st \ {h}
               /\ \A x \in DOMAIN new : new[x] = st[x]
<1> DEFINE new == Restrict(st, DOMAIN st \ {h})
           S == Fetched(st, lk)
<1>1. /\ S \subseteq DOMAIN st
      /\ Range(lk) \subseteq S
      /\ \A x \in S : st[x].deps \subseteq S
  BY GoodFetched
<1>2. DOMAIN new = DOMAIN st \ {h} /\ \A x \in DOMAIN new : new[x] = st[x]
  BY DEF Restrict
<1> HIDE DEF new, S
<1>3. S \subseteq DOMAIN new
  BY <1>1, <1>2 DEF S
<1>4. GoodStore(new)
  BY <1>2 DEF Good, GoodStore
<1>5. Ranked(DOMAIN new)
  BY <1>2, RankedSubset DEF Good
<1>6. Complete(DepGraph(new), Range(lk)) /\ Fetched(new, lk) \subseteq S
  <2>1. \A x \in S : new[x].deps \subseteq S
    BY <1>1, <1>2, <1>3
  <2>2. QED
    BY <1>1, <1>3, <2>1, FetchedWithin
<1>7. /\ DOMAIN decl = DOMAIN lk
      /\ \A n \in DOMAIN decl : decl[n].unsafe \subseteq new[lk[n]].unsafe
  BY <1>1, <1>2, <1>3 DEF Good, Range
<1>8. Good(new, lk, decl)
  BY <1>4, <1>5, <1>6, <1>7 DEF Good
<1>9. QED
  BY <1>2, <1>6, <1>8 DEF new, S

\* Writing the file of a blob over what is there leaves a good directory: the
\* hash determines the definition, and unsafe sites are only added.
LEMMA GoodWrite ==
    ASSUME NEW st, NEW lk, NEW decl, Good(st, lk, decl),
           NEW goal, GoodStore(goal), Ranked(DOMAIN goal),
           DOMAIN st \subseteq DOMAIN goal,
           \A x \in DOMAIN st : st[x].unsafe \subseteq goal[x].unsafe,
           NEW h \in DOMAIN goal, NEW new,
           DOMAIN new = DOMAIN st \cup {h},
           new[h] = goal[h],
           \A x \in DOMAIN st \ {h} : new[x] = st[x]
    PROVE  /\ Good(new, lk, decl)
           /\ Fetched(new, lk) \subseteq Fetched(st, lk)
<1> DEFINE S == Fetched(st, lk)
<1>1. /\ S \subseteq DOMAIN st
      /\ Range(lk) \subseteq S
      /\ \A x \in S : st[x].deps \subseteq S
  BY GoodFetched
<1>2. /\ DOMAIN new = DOMAIN st \cup {h}
      /\ new[h] = goal[h]
      /\ \A x \in DOMAIN st \ {h} : new[x] = st[x]
  OBVIOUS
<1> HIDE DEF S
<1>3. \A x \in DOMAIN st : /\ GoodDef(x, st[x].def) /\ st[x].deps = EdgesOf(st[x].def)
                          /\ GoodDef(x, goal[x].def) /\ goal[x].deps = EdgesOf(goal[x].def)
  BY DEF Good, GoodStore, GoodBlob
<1>4. \A x \in DOMAIN st : st[x].deps = goal[x].deps
  BY <1>3, DefDetermined
<1>5. \A x \in DOMAIN st : new[x].deps = st[x].deps /\ st[x].unsafe \subseteq new[x].unsafe
  BY <1>2, <1>4
<1>6. GoodStore(new)
  <2>1. \A x \in DOMAIN st : IsMember(x) /\ GoodBlob(x, st[x])
    BY DEF Good, GoodStore
  <2>2. \A x \in DOMAIN goal : IsMember(x) /\ GoodBlob(x, goal[x])
    BY DEF GoodStore
  <2>3. QED
    BY <1>2, <2>1, <2>2 DEF GoodStore
<1>7. Ranked(DOMAIN new)
  BY <1>2, RankedSubset
<1>8. Complete(DepGraph(new), Range(lk)) /\ Fetched(new, lk) \subseteq S
  <2>1. \A x \in S : new[x].deps \subseteq S
    BY <1>1, <1>5
  <2>2. S \in SUBSET DOMAIN new
    BY <1>1, <1>2
  <2>3. QED
    BY <1>1, <2>1, <2>2, FetchedWithin
<1>9. /\ DOMAIN decl = DOMAIN lk
      /\ \A n \in DOMAIN decl : decl[n].unsafe \subseteq new[lk[n]].unsafe
  <2>1. DOMAIN decl = DOMAIN lk
    BY DEF Good
  <2>2. ASSUME NEW n \in DOMAIN decl
        PROVE  decl[n].unsafe \subseteq new[lk[n]].unsafe
    <3>1. lk[n] \in DOMAIN st
      BY <1>1, <2>1 DEF Range
    <3>2. decl[n].unsafe \subseteq st[lk[n]].unsafe
      BY DEF Good
    <3>3. QED
      BY <1>5, <3>1, <3>2
  <2>3. QED
    BY <2>1, <2>2
<1>10. Good(new, lk, decl)
  BY <1>6, <1>7, <1>8, <1>9 DEF Good
<1>11. QED
  BY <1>8, <1>10 DEF S

-----------------------------------------------------------------------------
(***************************************************************************)
(* The directory while a command runs.                                     *)
(***************************************************************************)

\* What the running command is going to save is good, is made from what is
\* on disk, and lacks nothing of what the lockfile on disk still fetches.
Pending ==
    /\ lockfile # Torn
    /\ Good(mem.store, mem.lock, mem.declared)
    /\ Fetched(blobs, lockfile) \subseteq DOMAIN mem.store
    /\ \A h \in DOMAIN blobs \cap DOMAIN mem.store :
          blobs[h].unsafe \subseteq mem.store[h].unsafe
    /\ \/ mem.lock = lockfile
       \/ \E b \in Batches :
             mem.lock = Inserted(lockfile, Rebinding(b, DagHashes(b, lockfile)))

\* While nothing is torn the directory is good, between any two files.
DirInv ==
    /\ phase \in {"idle", "prune", "write"}
    /\ Readable \/ phase # "idle" => Good(blobs, lockfile, declared)
    /\ phase # "idle" => Pending
    /\ phase = "prune" => todo = DOMAIN blobs \ DOMAIN mem.store
    /\ phase = "write" =>
          /\ DOMAIN blobs \subseteq DOMAIN mem.store
          /\ todo \subseteq DOMAIN mem.store
          /\ \A h \in DOMAIN mem.store \ todo :
                h \in DOMAIN blobs /\ blobs[h] = mem.store[h]

\* An empty directory is good.
LEMMA InitGood == Good(<<>>, <<>>, <<>>)
<1>1. DOMAIN <<>> = {}
  OBVIOUS
<1>2. Range(<<>>) = {}
  BY DEF Range
<1>3. Ranked({})
  <2>1. Ranking(<<>>, 0, {})
    BY DEF Ranking
  <2>2. QED
    BY <2>1 DEF Ranked
<1>4. Complete(DepGraph(<<>>), {})
  <2>1. DOMAIN DepGraph(<<>>) = {}
    BY DEF DepGraph
  <2>2. QED
    BY <2>1, CompleteWithin
<1>5. QED
  BY <1>1, <1>2, <1>3, <1>4 DEF Good, GoodStore

\* A commit command starts to save a good store.
LEMMA CommitStep ==
    ASSUME DirInv, NEW b \in Batches, CommitCommand(b)
    PROVE  DirInv'
<1> DEFINE dag == DagHashes(b, lockfile)
<1>1. /\ Readable /\ phase = "idle"
      /\ blobs' = blobs /\ lockfile' = lockfile /\ declared' = declared
  BY DEF CommitCommand, Load
<1>2. /\ mem' = [store |-> CommittedStore(blobs, b, dag, lockfile),
                 lock |-> Inserted(lockfile, Rebinding(b, dag)),
                 declared |-> Inserted(declared, Rebinding(b, b))]
      /\ todo' = DOMAIN blobs \ DOMAIN CommittedStore(blobs, b, dag, lockfile)
      /\ phase' = "prune"
  BY DEF CommitCommand, Save
<1>3. Good(blobs, lockfile, declared) /\ lockfile # Torn
  BY <1>1 DEF DirInv, Readable
<1>4. /\ Good(CommittedStore(blobs, b, dag, lockfile),
              Inserted(lockfile, Rebinding(b, dag)),
              Inserted(declared, Rebinding(b, b)))
      /\ DOMAIN blobs \subseteq DOMAIN CommittedStore(blobs, b, dag, lockfile)
      /\ \A h \in DOMAIN blobs :
            blobs[h].unsafe \subseteq CommittedStore(blobs, b, dag, lockfile)[h].unsafe
  BY <1>3, BatchesAssumption, GoodCommit
<1>5. Fetched(blobs, lockfile) \subseteq DOMAIN blobs
  BY <1>3, GoodFetched
<1>6. /\ mem'.store = CommittedStore(blobs, b, dag, lockfile)
      /\ mem'.lock = Inserted(lockfile, Rebinding(b, dag))
      /\ mem'.declared = Inserted(declared, Rebinding(b, b))
  BY <1>2
<1>7. Pending'
  BY <1>1, <1>3, <1>4, <1>5, <1>6 DEF Pending
<1>8. QED
  BY <1>1, <1>2, <1>3, <1>6, <1>7 DEF DirInv

\* So does a collection.
LEMMA GcStep ==
    ASSUME DirInv, GcCommand
    PROVE  DirInv'
<1> DEFINE new == CollectedStore(blobs, lockfile)
<1>1. /\ Readable /\ phase = "idle"
      /\ blobs' = blobs /\ lockfile' = lockfile /\ declared' = declared
  BY DEF GcCommand, Load
<1>2. /\ mem' = [store |-> new, lock |-> lockfile, declared |-> declared]
      /\ todo' = DOMAIN blobs \ DOMAIN new
      /\ phase' = "prune"
  BY DEF GcCommand, Save
<1>3. Good(blobs, lockfile, declared) /\ lockfile # Torn
  BY <1>1 DEF DirInv, Readable
<1>4. /\ Good(new, lockfile, declared)
      /\ Fetched(blobs, lockfile) \subseteq DOMAIN new
      /\ \A h \in DOMAIN new : new[h] = blobs[h]
  BY <1>3, GoodCollection
<1> HIDE DEF new
<1>5. mem'.store = new /\ mem'.lock = lockfile /\ mem'.declared = declared
  BY <1>2
<1>6. Pending'
  BY <1>1, <1>3, <1>4, <1>5 DEF Pending
<1>7. QED
  BY <1>1, <1>2, <1>3, <1>5, <1>6 DEF DirInv

\* A removed file is of a blob that nothing on disk fetches.
LEMMA RemoveStep ==
    ASSUME DirInv, RemoveBlob
    PROVE  DirInv'
<1>1. PICK h \in todo : /\ blobs' = Restrict(blobs, DOMAIN blobs \ {h})
                        /\ todo' = todo \ {h}
  BY DEF RemoveBlob
<1>2. /\ phase = "prune" /\ phase' = phase
      /\ lockfile' = lockfile /\ mem' = mem /\ declared' = declared
  BY DEF RemoveBlob
<1>3. Good(blobs, lockfile, declared) /\ Pending
  BY <1>2 DEF DirInv
<1>4. h \notin Fetched(blobs, lockfile)
  BY <1>2, <1>3 DEF DirInv, Pending
<1>5. /\ Good(blobs', lockfile, declared)
      /\ Fetched(blobs', lockfile) \subseteq Fetched(blobs, lockfile)
      /\ DOMAIN blobs' = DOMAIN blobs \ {h}
      /\ \A x \in DOMAIN blobs' : blobs'[x] = blobs[x]
  BY <1>1, <1>3, <1>4, GoodRemoval
<1>6. Pending'
  BY <1>2, <1>3, <1>5 DEF Pending
<1>7. todo' = DOMAIN blobs' \ DOMAIN mem'.store
  BY <1>1, <1>2, <1>5 DEF DirInv
<1>8. QED
  BY <1>2, <1>5, <1>6, <1>7 DEF DirInv

\* A written file is of a blob whose references are all on disk or are not
\* yet fetched by the lockfile on disk.
LEMMA WriteStep ==
    ASSUME DirInv, WriteBlob
    PROVE  DirInv'
<1>1. PICK h \in todo : /\ blobs' = Inserted(blobs, [x \in {h} |-> mem.store[x]])
                        /\ todo' = todo \ {h}
  BY DEF WriteBlob
<1>2. /\ phase = "write" /\ phase' = phase
      /\ lockfile' = lockfile /\ mem' = mem /\ declared' = declared
  BY DEF WriteBlob
<1>3. Good(blobs, lockfile, declared) /\ Pending
  BY <1>2 DEF DirInv
<1>4. /\ DOMAIN blobs \subseteq DOMAIN mem.store
      /\ h \in DOMAIN mem.store
      /\ \A x \in DOMAIN mem.store \ todo :
            x \in DOMAIN blobs /\ blobs[x] = mem.store[x]
  BY <1>2 DEF DirInv
<1>5. /\ GoodStore(mem.store) /\ Ranked(DOMAIN mem.store)
      /\ \A x \in DOMAIN blobs : blobs[x].unsafe \subseteq mem.store[x].unsafe
  BY <1>3, <1>4 DEF Pending, Good
<1>6. /\ Good(blobs', lockfile, declared)
      /\ Fetched(blobs', lockfile) \subseteq Fetched(blobs, lockfile)
      /\ DOMAIN blobs' = DOMAIN blobs \cup {h}
      /\ blobs'[h] = mem.store[h]
      /\ \A x \in DOMAIN blobs \ {h} : blobs'[x] = blobs[x]
  <2> DEFINE goal == mem.store
             new == Inserted(blobs, [x \in {h} |-> goal[x]])
  <2>1. /\ GoodStore(goal) /\ Ranked(DOMAIN goal)
        /\ DOMAIN blobs \subseteq DOMAIN goal
        /\ \A x \in DOMAIN blobs : blobs[x].unsafe \subseteq goal[x].unsafe
        /\ h \in DOMAIN goal
    BY <1>4, <1>5
  <2>2. blobs' = new
    BY <1>1
  <2> HIDE DEF goal
  <2>3. /\ DOMAIN new = DOMAIN blobs \cup {h}
        /\ new[h] = goal[h]
        /\ \A x \in DOMAIN blobs \ {h} : new[x] = blobs[x]
    BY DEF Inserted
  <2> HIDE DEF new
  <2>4. /\ Good(new, lockfile, declared)
        /\ Fetched(new, lockfile) \subseteq Fetched(blobs, lockfile)
    BY <1>3, <2>1, <2>3, GoodWrite
  <2>5. QED
    BY <2>2, <2>3, <2>4 DEF goal
<1>7. Pending'
  <2>1. \A x \in DOMAIN blobs' \cap DOMAIN mem.store :
            blobs'[x].unsafe \subseteq mem.store[x].unsafe
    BY <1>5, <1>6
  <2>2. QED
    BY <1>2, <1>3, <1>6, <2>1 DEF Pending
<1>8. /\ DOMAIN blobs' \subseteq DOMAIN mem.store
      /\ todo' \subseteq DOMAIN mem.store
      /\ \A x \in DOMAIN mem.store \ todo' :
            x \in DOMAIN blobs' /\ blobs'[x] = mem.store[x]
  BY <1>1, <1>2, <1>4, <1>6 DEF DirInv
<1>9. QED
  BY <1>2, <1>6, <1>7, <1>8 DEF DirInv

\* The lockfile is written when every blob of the new store is on disk.
LEMMA LockStep ==
    ASSUME DirInv, WriteLock
    PROVE  DirInv'
<1>1. /\ phase = "write" /\ todo = {} /\ blobs' = blobs /\ phase' = "idle"
      /\ lockfile' = mem.lock /\ declared' = mem.declared
  BY DEF WriteLock, Idle
<1>2. Good(mem.store, mem.lock, mem.declared)
  BY <1>1 DEF DirInv, Pending
<1>3. /\ DOMAIN blobs = DOMAIN mem.store
      /\ \A h \in DOMAIN blobs : blobs[h] = mem.store[h]
  BY <1>1 DEF DirInv
<1>4. DepGraph(blobs) = DepGraph(mem.store)
  BY <1>3 DEF DepGraph
<1>5. Range(mem.lock) \subseteq DOMAIN blobs
  BY <1>2, <1>3, GoodFetched
<1>6. Good(blobs, mem.lock, mem.declared)
  BY <1>2, <1>3, <1>4, <1>5 DEF Good, GoodStore, Range
<1>7. QED
  BY <1>1, <1>6 DEF DirInv

\* Whatever is cut off, what can still be read is good.
LEMMA DirStep == DirInv /\ [Next]_vars => DirInv'
<1> SUFFICES ASSUME DirInv, [Next]_vars PROVE DirInv'
  OBVIOUS
<1>1. CASE \E b \in Batches : CommitCommand(b)
  BY <1>1, CommitStep
<1>2. CASE GcCommand
  BY <1>2, GcStep
<1>3. CASE RemoveBlob
  BY <1>3, RemoveStep
<1>4. CASE StartWriting
  <2>1. /\ phase = "prune" /\ todo = {} /\ phase' = "write"
        /\ todo' = DOMAIN mem.store
        /\ blobs' = blobs /\ lockfile' = lockfile /\ mem' = mem
        /\ declared' = declared
    BY <1>4 DEF StartWriting
  <2>2. Good(blobs, lockfile, declared) /\ Pending
    BY <2>1 DEF DirInv
  <2>3. DOMAIN blobs \subseteq DOMAIN mem.store
    BY <2>1 DEF DirInv
  <2>4. Pending'
    BY <2>1, <2>2 DEF Pending
  <2>5. QED
    BY <2>1, <2>2, <2>3, <2>4 DEF DirInv
<1>5. CASE WriteBlob
  BY <1>5, WriteStep
<1>6. CASE WriteLock
  BY <1>6, LockStep
<1>7. CASE Crash
  <2>1. /\ phase # "idle" /\ phase' = "idle" /\ blobs' = blobs
        /\ lockfile' = lockfile /\ declared' = declared
    BY <1>7 DEF Crash, Idle
  <2>2. QED
    BY <2>1 DEF DirInv
<1>8. CASE CrashInBlob
  <2>1. PICK h \in todo : blobs' = Inserted(blobs, [x \in {h} |-> Torn])
    BY <1>8 DEF CrashInBlob
  <2>2. h \in DOMAIN blobs' /\ blobs'[h] = Torn
    BY <2>1 DEF Inserted
  <2>3. phase' = "idle" /\ ~ Readable'
    BY <1>8, <2>2 DEF CrashInBlob, Idle, Readable
  <2>4. QED
    BY <2>3 DEF DirInv
<1>9. CASE CrashInLock
  <2>1. phase' = "idle" /\ ~ Readable'
    BY <1>9 DEF CrashInLock, Idle, Readable
  <2>2. QED
    BY <2>1 DEF DirInv
<1>10. CASE UNCHANGED vars
  BY <1>10 DEF vars, DirInv, Pending, Readable
<1>11. QED
  BY <1>1, <1>2, <1>3, <1>4, <1>5, <1>6, <1>7, <1>8, <1>9, <1>10 DEF Next

\* DirInv is inductive.
LEMMA DirAlways == Spec => []DirInv
<1>1. Init => DirInv
  BY InitGood DEF Init, DirInv
<1>2. QED
  BY <1>1, DirStep, PTL DEF Spec

\* A load that succeeds never finds a binding whose closure is missing,
\* wherever the commands before it were cut off.
THEOREM DirClosed == Spec => []LoadedClosed
<1>1. DirInv => LoadedClosed
  BY DEF DirInv, LoadedClosed, Good
<1>2. QED
  BY <1>1, DirAlways, PTL

\* Nor one whose unsafe sites the audit would miss.
THEOREM DirAudited == Spec => []LoadedAudited
<1>1. DirInv => LoadedAudited
  BY DEF DirInv, LoadedAudited, Good
<1>2. QED
  BY <1>1, DirAlways, PTL

-----------------------------------------------------------------------------
(***************************************************************************)
(* Commands are atomic.  The table's operators are those of this module.   *)
(***************************************************************************)

\* Each lemma says that an operator of the table is that of this module.
LEMMA PinsReachable ==
    ASSUME NEW next, NEW roots
    PROVE  Pins!Reachable(next, roots) = Reachable(next, roots)
BY DEF Pins!Reachable, Pins!Saturated, Reachable, Saturated

LEMMA PinsComponent ==
    ASSUME NEW next, NEW n
    PROVE  Pins!Component(next, n) = Component(next, n)
BY PinsReachable DEF Pins!Component, Component

LEMMA PinsRange ==
    ASSUME NEW f
    PROVE  Pins!Range(f) = Range(f)
BY DEF Pins!Range, Range

LEMMA PinsCount ==
    ASSUME NEW S
    PROVE  Pins!Cardinality(S) = Cardinality(S)
BY DEF Pins!Cardinality, Cardinality

LEMMA PinsPosition ==
    ASSUME NEW comp, NEW i
    PROVE  Pins!PositionIn(comp, i) = PositionIn(comp, i)
BY PinsCount DEF Pins!PositionIn, PositionIn

LEMMA PinsNames ==
    ASSUME NEW b
    PROVE  Pins!LocalNames(b) = LocalNames(b)
BY DEF Pins!LocalNames, LocalNames

LEMMA PinsIndex ==
    ASSUME NEW b, NEW n
    PROVE  Pins!IndexOf(b, n) = IndexOf(b, n)
BY DEF Pins!IndexOf, IndexOf

LEMMA PinsMember ==
    ASSUME NEW comp, NEW p
    PROVE  Pins!MemberAt(comp, p) = MemberAt(comp, p)
BY PinsPosition DEF Pins!MemberAt, MemberAt

LEMMA PinsGraph ==
    ASSUME NEW b
    PROVE  Pins!CallGraph(b) = CallGraph(b)
BY PinsNames, PinsIndex, PinsRange DEF Pins!CallGraph, CallGraph

LEMMA PinsReferences ==
    ASSUME NEW b, NEW external, NEW comp, NEW dag, NEW i
    PROVE  Pins!ReferenceHashes(b, external, comp, dag, i) =
               ReferenceHashes(b, external, comp, dag, i)
<1>1. ASSUME NEW n
      PROVE  Pins!ReferenceHash(b, external, comp, dag, n) =
                 ReferenceHash(b, external, comp, dag, n)
  BY PinsNames, PinsIndex, PinsPosition
     DEF Pins!ReferenceHash, ReferenceHash, Pins!ExternalHash, ExternalHash,
         Pins!SymbolHash, SymbolHash, Pins!RecHash, RecHash
<1>2. QED
  BY <1>1 DEF Pins!ReferenceHashes, ReferenceHashes

LEMMA PinsContents ==
    ASSUME NEW b, NEW external, NEW comp, NEW dag
    PROVE  Pins!ComponentContents(b, external, comp, dag) =
               ComponentContents(b, external, comp, dag)
<1>1. ASSUME NEW entry, NEW hs
      PROVE  Pins!ContentHash(Pins!Substituted(entry, hs)) =
                 ContentHash(Substituted(entry, hs))
  BY DEF Pins!ContentHash, ContentHash, Pins!Substituted, Substituted,
         Pins!SymbolHash, SymbolHash
<1>2. QED
  BY <1>1, PinsCount, PinsMember, PinsReferences
     DEF Pins!ComponentContents, ComponentContents

LEMMA PinsHashIn ==
    ASSUME NEW b, NEW external, NEW comp, NEW dag, NEW i
    PROVE  Pins!HashIn(b, external, comp, dag, i) =
               HashIn(b, external, comp, dag, i)
BY PinsContents, PinsPosition
   DEF Pins!HashIn, HashIn, Pins!MemberHash, MemberHash,
       Pins!ComponentHash, ComponentHash

LEMMA PinsDagHashes ==
    ASSUME NEW b, NEW external
    PROVE  Pins!DagHashes(b, external) = DagHashes(b, external)
<1> DEFINE comp == [i \in DOMAIN b |-> Component(CallGraph(b), i)]
           pcomp == [i \in DOMAIN b |-> Pins!Component(Pins!CallGraph(b), i)]
           Body(f) == [i \in DOMAIN b |-> HashIn(b, external, comp[i], f, i)]
           PBody(f) == [i \in DOMAIN b |-> Pins!HashIn(b, external, pcomp[i], f, i)]
           dag == CHOOSE f : f = Body(f)
           pdag == CHOOSE f : f = PBody(f)
<1>1. DagHashes(b, external) = [i \in DOMAIN b |-> dag[i]]
  BY DEF DagHashes
<1>2. Pins!DagHashes(b, external) = [i \in DOMAIN b |-> pdag[i]]
  BY DEF Pins!DagHashes
<1>3. pcomp = comp
  BY PinsComponent, PinsGraph
<1> HIDE DEF comp, pcomp
<1>4. \A f : PBody(f) = Body(f)
  BY <1>3, PinsHashIn
<1> HIDE DEF Body, PBody
<1>5. pdag = dag
  BY <1>4
<1>6. QED
  BY <1>1, <1>2, <1>5

\* So a commit rebinds in the table what it rebinds in the directory.
LEMMA PinsRebinding ==
    ASSUME NEW table, NEW b, NEW values
    PROVE  Pins!Inserted(table, Pins!Rebinding(b, values)) =
               Inserted(table, Rebinding(b, values))
<1>1. Pins!Rebinding(b, values) = Rebinding(b, values)
  BY PinsNames, PinsIndex DEF Pins!Rebinding, Rebinding
<1>2. ASSUME NEW new
      PROVE  Pins!Inserted(table, new) = Inserted(table, new)
  BY DEF Pins!Inserted, Inserted
<1>3. QED
  BY <1>1, <1>2

\* A step of the directory writes a whole lockfile made from the one on disk,
\* loses it, or leaves it alone.
LEMMA AtomicStep == DirInv /\ [Next]_vars => [Pins!Next]_lockfile
<1> SUFFICES ASSUME DirInv, [Next]_vars, lockfile' # lockfile
             PROVE  Pins!Next
  OBVIOUS
<1>1. WriteLock \/ CrashInLock
  BY DEF Next, vars, CommitCommand, GcCommand, Load, RemoveBlob, StartWriting,
         WriteBlob, Crash, CrashInBlob
<1>2. CASE WriteLock
  <2>1. lockfile' = mem.lock /\ Pending
    BY <1>2 DEF WriteLock, DirInv
  <2>2. PICK b \in Batches :
             mem.lock = Inserted(lockfile, Rebinding(b, DagHashes(b, lockfile)))
    BY <2>1 DEF Pending
  <2>3. lockfile' = Pins!Inserted(lockfile, Pins!Rebinding(b, Pins!DagHashes(b, lockfile)))
    BY <2>1, <2>2, PinsDagHashes, PinsRebinding
  <2>4. Pins!Rebind(b)
    BY <2>1, <2>3 DEF Pins!Rebind, Pending
  <2>5. QED
    BY <2>4 DEF Pins!Next
<1>3. CASE CrashInLock
  BY <1>3 DEF CrashInLock, Pins!Next, Pins!Lose
<1>4. QED
  BY <1>1, <1>2, <1>3

\* Seen from the lockfile, a commit binds all its names or none and nothing
\* else binds any, wherever commands are cut off.
THEOREM CommandsAtomic == Spec => AtomicCommands
<1>1. Init => Pins!Init
  BY DEF Init, Pins!Init
<1>2. QED
  BY <1>1, AtomicStep, DirAlways, PTL DEF Spec, AtomicCommands, Pins!Spec
====
