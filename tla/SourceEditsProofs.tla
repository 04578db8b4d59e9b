---- MODULE SourceEditsProofs ----
(***************************************************************************)
(* What an edit does to the hashes of a module, for every module, every    *)
(* lockfile and any number of edits, whatever the printer and the parser   *)
(* do.                                                                     *)
(***************************************************************************)
EXTENDS SourceEdits, Foundations

\* Entries have the fields that are hashed and those that are renamed.
IsSource(defs) ==
    /\ IsBatch(defs)
    /\ \A i \in DOMAIN defs :
          {"name", "kind", "tag", "refs", "row"} \subseteq DOMAIN defs[i]

\* The module stays one that can be resolved.
Inv == IsSource(source)

-----------------------------------------------------------------------------
(***************************************************************************)
(* What the edits leave of a module.                                       *)
(***************************************************************************)

LEMMA RenamedFields ==
    ASSUME NEW defs, IsSource(defs), NEW from, NEW to
    PROVE  LET new == RenamedSource(defs, from, to)
           IN  /\ IsSource(new)
               /\ DOMAIN new = DOMAIN defs
               /\ \A i \in DOMAIN defs :
                     /\ new[i].kind = defs[i].kind
                     /\ new[i].tag = defs[i].tag
                     /\ new[i].name = Renamed(defs[i].name, from, to)
                     /\ DOMAIN new[i].refs = DOMAIN defs[i].refs
                     /\ \A k \in DOMAIN defs[i].refs :
                           new[i].refs[k] = Renamed(defs[i].refs[k], from, to)
                     /\ new[i].row = {Renamed(c, from, to) : c \in defs[i].row}
<1> DEFINE new == RenamedSource(defs, from, to)
<1>1. DOMAIN defs = 1 .. Len(defs) /\ Len(defs) \in Nat
  BY DEF IsSource, IsBatch
<1>2. DOMAIN new = DOMAIN defs
  BY DEF RenamedSource
<1>3. IsBatch(new)
  BY <1>1, <1>2 DEF IsBatch
<1>4. ASSUME NEW i \in DOMAIN defs
      PROVE  /\ DOMAIN new[i] = DOMAIN defs[i]
             /\ new[i].kind = defs[i].kind
             /\ new[i].tag = defs[i].tag
             /\ new[i].name = Renamed(defs[i].name, from, to)
             /\ new[i].refs = [k \in DOMAIN defs[i].refs |-> Renamed(defs[i].refs[k], from, to)]
             /\ new[i].row = {Renamed(c, from, to) : c \in defs[i].row}
  <2>1. {"name", "kind", "tag", "refs", "row"} \subseteq DOMAIN defs[i]
    BY DEF IsSource
  <2>2. QED
    BY <2>1 DEF RenamedSource
<1> HIDE DEF new
<1>5. IsSource(new)
  BY <1>2, <1>3, <1>4 DEF IsSource
<1>6. QED
  BY <1>2, <1>4, <1>5 DEF new

LEMMA SwappedFields ==
    ASSUME NEW defs, IsSource(defs), NEW i \in DOMAIN defs, i + 1 \in DOMAIN defs
    PROVE  /\ IsSource(Swapped(defs, i))
           /\ DOMAIN Swapped(defs, i) = DOMAIN defs
<1>1. DOMAIN defs = 1 .. Len(defs) /\ Len(defs) \in Nat
  BY DEF IsSource, IsBatch
<1>2. DOMAIN Swapped(defs, i) = DOMAIN defs
  BY DEF Swapped
<1>3. IsBatch(Swapped(defs, i))
  BY <1>1, <1>2 DEF IsBatch
<1>4. \A j \in DOMAIN defs : Swapped(defs, i)[j] \in {defs[j], defs[i], defs[i + 1]}
  BY DEF Swapped
<1>5. QED
  BY <1>2, <1>3, <1>4 DEF IsSource

\* The module with another tree for one definition.
Changed(defs, i, t) == [defs EXCEPT ![i].tag = t]

LEMMA ChangedFields ==
    ASSUME NEW defs, IsSource(defs), NEW i \in DOMAIN defs, NEW t
    PROVE  LET new == Changed(defs, i, t)
           IN  /\ IsSource(new)
               /\ DOMAIN new = DOMAIN defs
               /\ new[i].tag = t
               /\ \A j \in DOMAIN defs :
                     /\ new[j].name = defs[j].name
                     /\ new[j].kind = defs[j].kind
                     /\ new[j].refs = defs[j].refs
                     /\ new[j].row = defs[j].row
                     /\ j # i => new[j].tag = defs[j].tag
<1> DEFINE new == Changed(defs, i, t)
<1>1. DOMAIN defs = 1 .. Len(defs) /\ Len(defs) \in Nat
  BY DEF IsSource, IsBatch
<1>2. DOMAIN new = DOMAIN defs
  BY DEF Changed
<1>3. IsBatch(new)
  BY <1>1, <1>2 DEF IsBatch
<1>4. ASSUME NEW j \in DOMAIN defs
      PROVE  /\ DOMAIN new[j] = DOMAIN defs[j]
             /\ new[j].name = defs[j].name
             /\ new[j].kind = defs[j].kind
             /\ new[j].refs = defs[j].refs
             /\ new[j].row = defs[j].row
             /\ j # i => new[j].tag = defs[j].tag
             /\ j = i => new[j].tag = t
  <2>1. {"name", "kind", "tag", "refs", "row"} \subseteq DOMAIN defs[j]
    BY DEF IsSource
  <2>2. QED
    BY <2>1 DEF Changed
<1> HIDE DEF new
<1>5. IsSource(new)
  BY <1>2, <1>3, <1>4 DEF IsSource
<1>6. QED
  BY <1>2, <1>4, <1>5 DEF new

-----------------------------------------------------------------------------
(***************************************************************************)
(* What they leave of its hashes.                                          *)
(***************************************************************************)

\* A name takes the place of another, of which it keeps all occurrences.
LEMMA RenameKeeps ==
    ASSUME NEW defs, IsSource(defs), NEW i \in DOMAIN defs,
           NEW to, to \notin NamesIn(defs), ~ IsCapability(defs, i)
    PROVE  Hashes(RenamedSource(defs, defs[i].name, to)) = Hashes(defs)
<1> DEFINE from == defs[i].name
           new == RenamedSource(defs, from, to)
           Now(n) == Renamed(n, from, to)
           s == [j \in DOMAIN defs |-> j]
<1>1. /\ IsBatch(defs) /\ IsBatch(new)
      /\ DOMAIN new = DOMAIN defs
      /\ \A j \in DOMAIN defs :
            /\ new[j].kind = defs[j].kind
            /\ new[j].tag = defs[j].tag
            /\ new[j].name = Now(defs[j].name)
            /\ DOMAIN new[j].refs = DOMAIN defs[j].refs
            /\ \A k \in DOMAIN defs[j].refs : new[j].refs[k] = Now(defs[j].refs[k])
            /\ new[j].row = {Now(c) : c \in defs[j].row}
  BY RenamedFields DEF IsSource
<1>2. /\ from \in LocalNames(defs)
      /\ LocalNames(defs) \subseteq NamesIn(defs)
      /\ \A j \in DOMAIN defs : \A k \in DOMAIN defs[j].refs : defs[j].refs[k] \in NamesIn(defs)
  BY DEF LocalNames, NamesIn, Range
<1>3. \A m, n \in NamesIn(defs) : Now(m) = Now(n) => m = n
  BY DEF Renamed
<1> HIDE DEF new
<1>4. ASSUME NEW n \in NamesIn(defs)
      PROVE  Now(n) \in LocalNames(new) <=> n \in LocalNames(defs)
  <2>1. Now(n) \in LocalNames(new) <=> \E j \in DOMAIN defs : Now(n) = Now(defs[j].name)
    BY <1>1 DEF LocalNames
  <2>2. n \in LocalNames(defs) <=> \E j \in DOMAIN defs : n = defs[j].name
    BY DEF LocalNames
  <2>3. \A j \in DOMAIN defs : defs[j].name \in NamesIn(defs)
    BY <1>2 DEF LocalNames
  <2> HIDE DEF Now
  <2>4. QED
    BY <1>3, <2>1, <2>2, <2>3
<1>5. ASSUME NEW n \in LocalNames(defs)
      PROVE  IndexOf(new, Now(n)) = IndexOf(defs, n)
  <2> DEFINE j == IndexOf(defs, n)
  <2>1. /\ j \in DOMAIN defs /\ defs[j].name = n
        /\ \A l \in DOMAIN defs : defs[l].name = n => l <= j
    BY <1>1, IndexOfLocal
  <2>2. \A l \in DOMAIN defs : defs[l].name \in NamesIn(defs)
    BY <1>2 DEF LocalNames
  <2> HIDE DEF j, Now
  <2>3. new[j].name = Now(n)
    BY <1>1, <2>1
  <2>4. \A l \in DOMAIN new : new[l].name = new[j].name => l <= j
    BY <1>1, <1>3, <2>1, <2>2
  <2>5. IndexOf(new, new[j].name) = j
    BY <1>1, <2>1, <2>4, IndexOfLast
  <2>6. QED
    BY <2>3, <2>5 DEF j
<1>6. ASSUME NEW j \in DOMAIN defs
      PROVE  SameShape(defs[j], new[j])
  <2>1. \A c \in defs[j].row : Now(c) = c
    BY DEF IsCapability, Renamed
  <2>2. {Now(c) : c \in defs[j].row} = defs[j].row
    <3> HIDE DEF Now
    <3>1. QED
      BY <2>1
  <2> HIDE DEF Now
  <2>3. QED
    BY <1>1, <2>2 DEF SameShape
<1>7. ASSUME NEW j \in DOMAIN defs, NEW k \in DOMAIN defs[j].refs
      PROVE  SameReference(defs, Locked, new, Locked, DOMAIN defs, s, s[j],
                           defs[j].refs[k], new[j].refs[k])
  <2> DEFINE n == defs[j].refs[k]
  <2>1. n \in NamesIn(defs) /\ new[j].refs[k] = Now(n)
    BY <1>1, <1>2
  <2>2. CASE n \in LocalNames(defs)
    <3>1. IndexOf(defs, n) \in DOMAIN defs /\ s[IndexOf(defs, n)] = IndexOf(defs, n)
      BY <1>1, <2>2, IndexOfLocal
    <3> HIDE DEF s, n, Now
    <3>2. QED
      BY <1>4, <1>5, <2>1, <2>2, <3>1 DEF SameReference, n
  <2>3. CASE n \notin LocalNames(defs)
    <3>1. Now(n) = n
      BY <1>2, <2>3 DEF Renamed
    <3> HIDE DEF s, n, Now
    <3>2. QED
      BY <1>4, <2>1, <2>3, <3>1 DEF SameReference, n
  <2>4. QED
    BY <2>2, <2>3
<1>8. Corresponds(defs, Locked, new, Locked, DOMAIN defs, s)
  <2>1. s \in [DOMAIN defs -> DOMAIN new] /\ \A j \in DOMAIN defs : s[j] = j
    BY <1>1
  <2>2. \A j \in DOMAIN defs : ComponentOf(defs, j) \subseteq DOMAIN defs
    BY <1>1, ComponentPositions
  <2> HIDE DEF s, Now
  <2>3. QED
    BY <1>6, <1>7, <2>1, <2>2 DEF Corresponds
<1>9. \A j \in DOMAIN defs : DagHashes(new, Locked)[j] = DagHashes(defs, Locked)[j]
  <2>1. \A j \in DOMAIN defs : s[j] = j
    OBVIOUS
  <2> HIDE DEF s, Now
  <2>2. \A j \in DOMAIN defs : DagHashes(new, Locked)[s[j]] = DagHashes(defs, Locked)[j]
    BY <1>1, <1>8, HashesCorrespond
  <2>3. QED
    BY <2>1, <2>2
<1>10. DagHashes(new, Locked) = DagHashes(defs, Locked)
  BY <1>1, <1>9, SameHashes
<1>11. QED
  BY <1>10 DEF Hashes, new

\* Two definitions that are not of one cycle trade places.
LEMMA SwapKeeps ==
    ASSUME NEW defs, IsSource(defs), NEW i \in DOMAIN defs, i + 1 \in DOMAIN defs,
           i + 1 \notin Component(CallGraph(defs), i),
           defs[i].name # defs[i + 1].name
    PROVE  Hashes(Swapped(defs, i)) = Swapped(Hashes(defs), i)
<1> DEFINE new == Swapped(defs, i)
           s == [j \in DOMAIN defs |-> IF j = i THEN i + 1 ELSE IF j = i + 1 THEN i ELSE j]
           dag == DagHashes(defs, Locked)
           after == DagHashes(new, Locked)
<1>1. /\ IsBatch(defs) /\ IsBatch(new)
      /\ DOMAIN new = DOMAIN defs
  BY SwappedFields DEF IsSource
<1>2. \A j \in DOMAIN defs : j \in Nat
  BY <1>1 DEF IsBatch
<1>3. /\ s \in [DOMAIN defs -> DOMAIN defs]
      /\ s[i] = i + 1 /\ s[i + 1] = i
      /\ \A j \in DOMAIN defs \ {i, i + 1} : s[j] = j
  BY <1>2
<1>4. \A j \in DOMAIN defs : s[s[j]] = j /\ new[s[j]] = defs[j]
  BY <1>2, <1>3 DEF Swapped
<1>5. \A j, k \in DOMAIN defs : {j, k} # {i, i + 1} => (k <= j <=> s[k] <= s[j])
  <2> HIDE DEF s
  <2>1. QED
    BY <1>2, <1>3
<1> HIDE DEF new, s
<1>6. LocalNames(new) = LocalNames(defs)
  BY <1>1, <1>3, <1>4 DEF LocalNames
<1>7. ASSUME NEW n \in LocalNames(defs)
      PROVE  /\ IndexOf(defs, n) \in DOMAIN defs
             /\ IndexOf(new, n) = s[IndexOf(defs, n)]
  <2> DEFINE j == IndexOf(defs, n)
  <2>1. /\ j \in DOMAIN defs /\ defs[j].name = n
        /\ \A l \in DOMAIN defs : defs[l].name = n => l <= j
    BY <1>1, IndexOfLocal
  <2> HIDE DEF j
  <2>2. s[j] \in DOMAIN new /\ new[s[j]].name = n
    BY <1>1, <1>3, <1>4, <2>1
  <2>3. ASSUME NEW l \in DOMAIN new, new[l].name = n
        PROVE  l <= s[j]
    <3>1. s[l] \in DOMAIN defs /\ s[s[l]] = l /\ defs[s[l]].name = n
      BY <1>1, <1>3, <1>4, <2>3
    <3>2. s[l] <= j
      BY <2>1, <3>1
    <3>3. {j, s[l]} # {i, i + 1}
      BY <2>1, <3>1
    <3>4. QED
      BY <1>5, <2>1, <3>1, <3>2, <3>3
  <2>4. IndexOf(new, new[s[j]].name) = s[j]
    BY <1>1, <2>2, <2>3, IndexOfLast
  <2>5. QED
    BY <2>1, <2>2, <2>4 DEF j
<1>8. ASSUME NEW j \in DOMAIN defs, NEW k \in DOMAIN defs[j].refs
      PROVE  SameReference(defs, Locked, new, Locked, DOMAIN defs, s, s[j],
                           defs[j].refs[k], new[s[j]].refs[k])
  BY <1>4, <1>6, <1>7 DEF SameReference
<1>9. ASSUME NEW j \in DOMAIN defs, NEW k \in ComponentOf(defs, j)
      PROVE  k \in DOMAIN defs /\ (k <= j <=> s[k] <= s[j])
  <2>1. k \in DOMAIN defs
    BY <1>1, ComponentPositions
  <2>2. ComponentOf(defs, k) = ComponentOf(defs, j) /\ j \in ComponentOf(defs, j)
    BY <1>1, CallGraphEdges, ComponentShared DEF ComponentOf
  <2>3. k = i => j # i + 1
    BY <2>2 DEF ComponentOf
  <2>4. j = i => k # i + 1
    BY DEF ComponentOf
  <2>5. {j, k} # {i, i + 1}
    BY <1>2, <2>3, <2>4
  <2>6. QED
    BY <1>5, <2>1, <2>5
<1>10. Corresponds(defs, Locked, new, Locked, DOMAIN defs, s)
  <2>1. \A j, k \in DOMAIN defs : s[j] = s[k] => j = k
    BY <1>4
  <2>2. \A j \in DOMAIN defs : SameShape(defs[j], new[s[j]])
    BY <1>4 DEF SameShape
  <2>3. QED
    BY <1>1, <1>3, <1>8, <1>9, <2>1, <2>2 DEF Corresponds
<1>11. \A j \in DOMAIN defs : after[s[j]] = dag[j]
  BY <1>1, <1>10, HashesCorrespond
<1>12. /\ dag = [j \in DOMAIN defs |-> dag[j]]
       /\ after = [j \in DOMAIN defs |-> after[j]]
  BY <1>1, HashesFunction
<1> HIDE DEF dag, after
<1>13. Swapped(dag, i) = after
  <2>1. Swapped(dag, i) = [j \in DOMAIN defs |->
            IF j = i + 1 THEN dag[i] ELSE IF j = i THEN dag[i + 1] ELSE dag[j]]
    BY <1>2, <1>12 DEF Swapped
  <2>2. \A j \in DOMAIN defs : Swapped(dag, i)[j] = after[j]
    <3>1. after[i] = dag[i + 1] /\ after[i + 1] = dag[i]
      BY <1>3, <1>11
    <3>2. \A j \in DOMAIN defs \ {i, i + 1} : after[j] = dag[j]
      BY <1>3, <1>11
    <3>3. QED
      BY <1>2, <2>1, <3>1, <3>2
  <2>3. QED
    BY <1>12, <2>1, <2>2
<1>14. QED
  BY <1>13 DEF Hashes, dag, after, new

\* A change of a definition leaves the module's graph.
LEMMA ChangeGraph ==
    ASSUME NEW defs, IsSource(defs), NEW i \in DOMAIN defs, NEW t
    PROVE  LET new == Changed(defs, i, t)
           IN  /\ LocalNames(new) = LocalNames(defs)
               /\ \A n : IndexOf(new, n) = IndexOf(defs, n)
               /\ CallGraph(new) = CallGraph(defs)
<1> DEFINE new == Changed(defs, i, t)
<1>1. /\ DOMAIN new = DOMAIN defs
      /\ \A j \in DOMAIN defs : new[j].name = defs[j].name /\ new[j].refs = defs[j].refs
  BY ChangedFields
<1> HIDE DEF new
<1>2. LocalNames(new) = LocalNames(defs)
  BY <1>1 DEF LocalNames
<1>3. ASSUME NEW n
      PROVE  IndexOf(new, n) = IndexOf(defs, n)
  BY <1>1 DEF IndexOf
<1>4. CallGraph(new) = CallGraph(defs)
  BY <1>1, <1>2, <1>3 DEF CallGraph
<1>5. QED
  BY <1>2, <1>3, <1>4 DEF new

\* A definition keeps its hash if it does not reach the change, or if there is
\* none.
LEMMA ChangeKeeps ==
    ASSUME NEW defs, IsSource(defs), NEW i \in DOMAIN defs, NEW t,
           NEW j \in DOMAIN defs,
           i \notin Reachable(CallGraph(defs), {j}) \/ t = defs[i].tag
    PROVE  Hashes(Changed(defs, i, t))[j] = Hashes(defs)[j]
<1> DEFINE new == Changed(defs, i, t)
           S == {k \in DOMAIN defs :
                   i \notin Reachable(CallGraph(defs), {k}) \/ t = defs[i].tag}
           s == [k \in S |-> k]
<1>1. /\ IsBatch(defs) /\ IsBatch(new) /\ DOMAIN new = DOMAIN defs
      /\ \A k \in DOMAIN defs : /\ new[k].kind = defs[k].kind
                                /\ new[k].refs = defs[k].refs
                                /\ new[k].row = defs[k].row
                                /\ new[k].tag = IF k = i THEN t ELSE defs[k].tag
  BY ChangedFields DEF IsSource
<1>2. /\ LocalNames(new) = LocalNames(defs)
      /\ \A n : IndexOf(new, n) = IndexOf(defs, n)
  BY ChangeGraph
<1> HIDE DEF new
<1>3. i \in S => t = defs[i].tag
  BY <1>1, CallGraphEdges, ReachableTransitive
<1>4. ASSUME NEW k \in S, NEW n \in Range(defs[k].refs) \cap LocalNames(defs)
      PROVE  IndexOf(defs, n) \in S
  <2> DEFINE graph == CallGraph(defs)
             l == IndexOf(defs, n)
  <2>1. /\ DOMAIN graph = DOMAIN defs /\ l \in DOMAIN defs
        /\ l \in graph[k]
    BY <1>1, CallGraphEdges, IndexOfLocal
  <2>2. k \in Reachable(graph, {k})
    BY <2>1, ReachableTransitive
  <2>3. l \in Reachable(graph, {k})
    BY <2>1, <2>2, ReachableSaturated DEF Saturated
  <2>4. Reachable(graph, {l}) \subseteq Reachable(graph, {k})
    BY <2>1, <2>3, ReachableTransitive
  <2>5. QED
    BY <2>1, <2>4
<1>5. ASSUME NEW k \in S, NEW p \in DOMAIN defs[k].refs
      PROVE  SameReference(defs, Locked, new, Locked, S, s, s[k],
                           defs[k].refs[p], new[s[k]].refs[p])
  <2>1. s[k] = k /\ new[k].refs = defs[k].refs
    BY <1>1
  <2>2. defs[k].refs[p] \in LocalNames(defs) =>
            /\ IndexOf(defs, defs[k].refs[p]) \in S
            /\ s[IndexOf(defs, defs[k].refs[p])] = IndexOf(defs, defs[k].refs[p])
    BY <1>4 DEF Range
  <2> HIDE DEF s, S
  <2>3. QED
    BY <1>2, <2>1, <2>2 DEF SameReference
<1>6. Corresponds(defs, Locked, new, Locked, S, s)
  <2>1. s \in [S -> DOMAIN new] /\ \A k \in S : s[k] = k
    BY <1>1
  <2>2. \A k \in S : SameShape(defs[k], new[k])
    BY <1>1, <1>3 DEF SameShape
  <2>3. \A k \in S : ComponentOf(defs, k) \subseteq S
    <3>1. SUFFICES ASSUME NEW k \in S, NEW l \in ComponentOf(defs, k)
                   PROVE  l \in S
      OBVIOUS
    <3>2. Reachable(CallGraph(defs), {l}) = Reachable(CallGraph(defs), {k}) /\ l \in DOMAIN defs
      BY <1>1, CallGraphEdges, ComponentShared DEF ComponentOf
    <3>3. QED
      BY <3>2
  <2>4. S \subseteq DOMAIN defs
    OBVIOUS
  <2> HIDE DEF s, S
  <2>5. QED
    BY <1>5, <2>1, <2>2, <2>3, <2>4 DEF Corresponds
<1>7. j \in S /\ s[j] = j
  OBVIOUS
<1> HIDE DEF s, S
<1>8. DagHashes(new, Locked)[s[j]] = DagHashes(defs, Locked)[j]
  BY <1>1, <1>6, <1>7, HashesCorrespond
<1>9. QED
  BY <1>7, <1>8 DEF Hashes, new

\* A definition that reaches the change has another hash: in the component of
\* the change by its contents, elsewhere by the hash of a definition nearer
\* to it.
LEMMA ChangeReaches ==
    ASSUME NEW defs, IsSource(defs), NEW i \in DOMAIN defs, NEW t, t # defs[i].tag
    PROVE  \A j \in DOMAIN defs :
               i \in Reachable(CallGraph(defs), {j}) =>
                   Hashes(Changed(defs, i, t))[j] # Hashes(defs)[j]
<1> DEFINE new == Changed(defs, i, t)
           graph == CallGraph(defs)
           dag == DagHashes(defs, Locked)
           after == DagHashes(new, Locked)
           wrong == {j \in DOMAIN defs : i \in Reachable(graph, {j}) /\ after[j] = dag[j]}
           counts == {Below(defs, j) : j \in wrong}
<1>1. SUFFICES ASSUME wrong # {} PROVE FALSE
  BY DEF Hashes
<1>2. /\ IsBatch(defs) /\ IsBatch(new) /\ DOMAIN new = DOMAIN defs
      /\ new[i].tag = t
      /\ \A k \in DOMAIN defs : new[k].refs = defs[k].refs
  BY ChangedFields DEF IsSource
<1>3. /\ LocalNames(new) = LocalNames(defs)
      /\ \A n : IndexOf(new, n) = IndexOf(defs, n)
      /\ CallGraph(new) = CallGraph(defs)
  BY ChangeGraph
<1>4. \A j \in DOMAIN defs : Below(defs, j) \in Nat
  <2>1. \A j \in DOMAIN defs : Below(defs, j) \in 1 .. Len(defs)
    BY <1>2, SizeNatural
  <2>2. QED
    BY <1>2, <2>1 DEF IsBatch
<1>5. PICK j \in wrong : \A k \in wrong : Below(defs, j) <= Below(defs, k)
  <2>1. counts \in SUBSET Nat /\ counts # {}
    BY <1>1, <1>4
  <2>2. \E x \in counts : \A y \in counts : x <= y
    <3> HIDE DEF counts
    <3>1. QED
      BY <2>1, LeastExists
  <2>3. QED
    BY <2>2
<1> DEFINE comp == ComponentOf(defs, j)
<1>6. j \in DOMAIN defs /\ i \in Reachable(graph, {j}) /\ after[j] = dag[j]
  OBVIOUS
<1>7. ASSUME NEW k \in DOMAIN defs, i \in Reachable(graph, {k}), Below(defs, k) < Below(defs, j)
      PROVE  after[k] # dag[k]
  BY <1>4, <1>5, <1>7
<1> HIDE DEF wrong, counts, dag, after, new
<1>8. ComponentOf(new, j) = comp
  BY <1>3 DEF ComponentOf
<1>9. ContentsOf(new, Locked, j) = ContentsOf(defs, Locked, j)
  <2>1. j \in comp /\ j \in ComponentOf(new, j)
    BY <1>2, <1>6, ComponentPositions
  <2>2. /\ dag[j] = MemberHash(ComponentHash(ContentsOf(defs, Locked, j)), PositionIn(comp, j))
        /\ after[j] = MemberHash(ComponentHash(ContentsOf(new, Locked, j)),
                                 PositionIn(ComponentOf(new, j), j))
    BY <1>2, <1>6, <2>1, HashParts DEF dag, after
  <2>3. QED
    BY <1>6, <2>2 DEF MemberHash, ComponentHash
<1> DEFINE Hashed(b, h, m) == Substituted(b[m], ReferenceHashes(b, Locked, comp, h, m))
<1>10. ASSUME NEW m \in comp
       PROVE  /\ new[m].tag = defs[m].tag
              /\ ReferenceHashes(new, Locked, comp, after, m)
                     = ReferenceHashes(defs, Locked, comp, dag, m)
  <2>1. ContentsOf(defs, Locked, j)[PositionIn(comp, m)] = ContentHash(Hashed(defs, dag, m))
    BY <1>2, <1>6, ContentsAt DEF dag
  <2>2. ContentsOf(new, Locked, j)[PositionIn(comp, m)] = ContentHash(Hashed(new, after, m))
    BY <1>2, <1>6, <1>8, ContentsAt DEF after
  <2>3. ContentHash(Hashed(new, after, m)) = ContentHash(Hashed(defs, dag, m))
    BY <1>9, <2>1, <2>2
  <2>4. Hashed(new, after, m) = Hashed(defs, dag, m)
    <3> HIDE DEF Hashed
    <3>1. QED
      BY <2>3 DEF ContentHash
  <2>5. QED
    BY <2>4 DEF Substituted
<1>11. i \notin comp
  BY <1>2, <1>10
<1>12. PICK m \in comp : \E k \in graph[m] \cap DOMAIN graph :
           k \notin comp /\ i \in Reachable(graph, {k})
  <2>1. j \in DOMAIN graph
    BY <1>2, <1>6, CallGraphEdges
  <2>2. QED
    BY <1>6, <1>11, <2>1, ComponentLeft DEF ComponentOf
<1>13. PICK k \in graph[m] \cap DOMAIN graph : k \notin comp /\ i \in Reachable(graph, {k})
  BY <1>12
<1>14. m \in DOMAIN defs /\ k \in DOMAIN defs
  BY <1>2, <1>6, <1>13, ComponentPositions, CallGraphEdges
<1>15. PICK p \in DOMAIN defs[m].refs : /\ defs[m].refs[p] \in LocalNames(defs)
                                        /\ k = IndexOf(defs, defs[m].refs[p])
  BY <1>13, <1>14, EdgeOf
<1>16. after[k] = dag[k]
  <2> DEFINE n == defs[m].refs[p]
  <2>1. ReferenceHash(new, Locked, comp, after, n) = ReferenceHash(defs, Locked, comp, dag, n)
    BY <1>2, <1>10, <1>14, <1>15 DEF ReferenceHashes
  <2>2. /\ ReferenceHash(defs, Locked, comp, dag, n) = dag[k]
        /\ ReferenceHash(new, Locked, comp, after, n) = after[k]
    BY <1>3, <1>13, <1>15 DEF ReferenceHash
  <2>3. QED
    BY <2>1, <2>2
<1>17. Below(defs, k) < Below(defs, j)
  <2>1. defs[m].refs[p] \in Range(defs[m].refs) \cap LocalNames(defs)
    BY <1>15 DEF Range
  <2>2. QED
    BY <1>2, <1>6, <1>13, <1>15, <2>1, ReferencesBelow
<1>18. QED
  BY <1>7, <1>13, <1>14, <1>16, <1>17

-----------------------------------------------------------------------------
(***************************************************************************)
(* Every edit of a session.                                                *)
(***************************************************************************)

LEMMA InitInv == Init => Inv
BY SourcesAssumption DEF Init, Inv, IsSource

LEMMA NextInv == Inv /\ [Next]_vars => Inv'
<1> SUFFICES ASSUME Inv, [Next]_vars PROVE Inv'
  OBVIOUS
<1>1. ASSUME NEW i \in DOMAIN source, Rename(i)
      PROVE  Inv'
  <2>1. PICK to : source' = RenamedSource(source, source[i].name, to)
    BY <1>1 DEF Rename, Edit
  <2>2. QED
    BY <2>1, RenamedFields DEF Inv
<1>2. ASSUME NEW i \in DOMAIN source, MoveDown(i)
      PROVE  Inv'
  <2>1. i + 1 \in DOMAIN source /\ source' = Swapped(source, i)
    BY <1>2 DEF MoveDown, Edit
  <2>2. QED
    BY <2>1, SwappedFields DEF Inv
<1>3. ASSUME NEW i \in DOMAIN source, NEW t, source' = Changed(source, i, t)
      PROVE  Inv'
  BY <1>3, ChangedFields DEF Inv
<1>4. ASSUME NEW i \in DOMAIN source, ChangeBody(i)
      PROVE  Inv'
  <2>1. PICK t : source' = [source EXCEPT ![i].tag = t]
    BY <1>4 DEF ChangeBody, Edit
  <2>2. QED
    BY <1>3, <2>1 DEF Changed
<1>5. ASSUME NEW i \in DOMAIN source, NEW style, Reprint(i, style)
      PROVE  Inv'
  <2>1. source' = Changed(source, i, Reparsed(source[i].tag, style))
    BY <1>5 DEF Reprint, Edit, Changed
  <2>2. QED
    BY <1>3, <2>1
<1>6. CASE UNCHANGED vars
  BY <1>6 DEF vars, Inv
<1>7. QED
  BY <1>1, <1>2, <1>4, <1>5, <1>6 DEF Next

LEMMA AlwaysInv == Spec => []Inv
BY InitInv, NextInv, PTL DEF Spec

\* Names and the order of definitions are no part of a hash: renaming a
\* definition that is no capability keeps all hashes, with its callers, its
\* cycle and the bindings of other modules; and so does moving it past one
\* that is not of its cycle.
THEOREM HashesNameAndOrderFree == Spec => NameAndOrderFree
<1> DEFINE Kept(i) ==
              /\ Rename(i) /\ ~IsCapability(source, i) =>
                    Hashes(source') = Hashes(source)
              /\ /\ MoveDown(i)
                 /\ i + 1 \notin Component(CallGraph(source), i)
                 /\ source[i].name # source[i + 1].name
                 => Hashes(source') = Swapped(Hashes(source), i)
<1>1. ASSUME Inv, NEW i \in DOMAIN source
      PROVE  Kept(i)
  <2>1. ASSUME Rename(i), ~IsCapability(source, i)
        PROVE  Hashes(source') = Hashes(source)
    <3>1. PICK to : /\ to \notin NamesIn(source)
                    /\ source' = RenamedSource(source, source[i].name, to)
      BY <2>1 DEF Rename, Edit
    <3>2. QED
      BY <1>1, <2>1, <3>1, RenameKeeps DEF Inv
  <2>2. ASSUME MoveDown(i),
               i + 1 \notin Component(CallGraph(source), i),
               source[i].name # source[i + 1].name
        PROVE  Hashes(source') = Swapped(Hashes(source), i)
    <3>1. i + 1 \in DOMAIN source /\ source' = Swapped(source, i)
      BY <2>2 DEF MoveDown, Edit
    <3>2. QED
      BY <1>1, <2>2, <3>1, SwapKeeps DEF Inv
  <2>3. QED
    BY <2>1, <2>2
<1>2. Inv => \A i \in DOMAIN source : Kept(i)
  BY <1>1
<1>3. Inv /\ [Next]_vars => [\A i \in DOMAIN source : Kept(i)]_vars
  BY <1>2
<1>4. QED
  BY <1>3, AlwaysInv, PTL DEF Spec, NameAndOrderFree

\* The graph a hash commits to is all of what a definition reaches, and only
\* that: a body that changes changes the hash of every definition that reaches
\* it, through any number of components, and of no other.
THEOREM HashesFollowChanges == Spec => ChangePropagates
<1> DEFINE Follows(i) ==
              ChangeBody(i) =>
                  \A j \in DOMAIN source :
                      Hashes(source')[j] # Hashes(source)[j] <=>
                          i \in Reachable(CallGraph(source), {j})
<1>1. ASSUME Inv, NEW i \in DOMAIN source, ChangeBody(i), NEW j \in DOMAIN source
      PROVE  Hashes(source')[j] # Hashes(source)[j] <=>
                 i \in Reachable(CallGraph(source), {j})
  <2>1. PICK t : t # source[i].tag /\ source' = Changed(source, i, t)
    BY <1>1 DEF ChangeBody, Edit, Changed
  <2>2. QED
    BY <1>1, <2>1, ChangeKeeps, ChangeReaches DEF Inv
<1>2. Inv => \A i \in DOMAIN source : Follows(i)
  BY <1>1
<1>3. Inv /\ [Next]_vars => [\A i \in DOMAIN source : Follows(i)]_vars
  BY <1>2
<1>4. QED
  BY <1>3, AlwaysInv, PTL DEF Spec, ChangePropagates

\* Hashes see a reprint exactly if the parser reads another tree than was
\* printed.
THEOREM HashesSeeTrees ==
    Spec => [][\A i \in DOMAIN source : \A style \in Styles :
                  Reprint(i, style) =>
                      (Hashes(source') = Hashes(source) <=>
                          Reparsed(source[i].tag, style) = source[i].tag)]_vars
<1> DEFINE Sees(i, style) ==
              Reprint(i, style) =>
                  (Hashes(source') = Hashes(source) <=>
                      Reparsed(source[i].tag, style) = source[i].tag)
<1>1. ASSUME Inv, NEW i \in DOMAIN source, NEW style \in Styles, Reprint(i, style)
      PROVE  Hashes(source') = Hashes(source) <=>
                 Reparsed(source[i].tag, style) = source[i].tag
  <2> DEFINE t == Reparsed(source[i].tag, style)
  <2>1. source' = Changed(source, i, t)
    BY <1>1 DEF Reprint, Edit, Changed
  <2>2. CASE t = source[i].tag
    <3>1. \A j \in DOMAIN source : Hashes(source')[j] = Hashes(source)[j]
      BY <1>1, <2>1, <2>2, ChangeKeeps DEF Inv
    <3>2. DOMAIN source' = DOMAIN source
      BY <1>1, <2>1, ChangedFields DEF Inv
    <3>3. Hashes(source') = Hashes(source)
      BY <3>1, <3>2, SameHashes DEF Hashes
    <3>4. QED
      BY <2>2, <3>3
  <2>3. CASE t # source[i].tag
    <3>1. i \in Reachable(CallGraph(source), {i})
      BY <1>1, CallGraphEdges, ReachableTransitive DEF Inv, IsSource
    <3>2. Hashes(source')[i] # Hashes(source)[i]
      BY <1>1, <2>1, <2>3, <3>1, ChangeReaches DEF Inv
    <3>3. QED
      BY <2>3, <3>2
  <2>4. QED
    BY <2>2, <2>3
<1>2. Inv => \A i \in DOMAIN source : \A style \in Styles : Sees(i, style)
  BY <1>1
<1>3. Inv /\ [Next]_vars => [\A i \in DOMAIN source : \A style \in Styles : Sees(i, style)]_vars
  BY <1>2
<1>4. QED
  BY <1>3, AlwaysInv, PTL DEF Spec
====
