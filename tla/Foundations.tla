---- MODULE Foundations ----
(***************************************************************************)
(* What the proofs rest on, for every graph, every batch, every store and  *)
(* every lockfile: facts about the searches of module Dag and about        *)
(* counting; then about the operators of Resolve and StoreOps, that dag    *)
(* hashes are defined, what they depend on and what they commit to, and    *)
(* what a commit and a collection keep.                                    *)
(***************************************************************************)
EXTENDS StoreOps, FiniteSetTheorems, TLAPS

\* A search visits only nodes that exist, the roots among them, and with a
\* node each of its existing successors.
LEMMA ReachableSaturated ==
    ASSUME NEW next, NEW roots
    PROVE  /\ Reachable(next, roots) \subseteq DOMAIN next
           /\ Saturated(next, roots, Reachable(next, roots))
<1>1. Reachable(next, roots) \subseteq DOMAIN next
  BY DEF Reachable
<1>2. roots \cap DOMAIN next \subseteq Reachable(next, roots)
  BY DEF Reachable, Saturated
<1>3. ASSUME NEW n \in Reachable(next, roots),
             NEW m \in next[n] \cap DOMAIN next
      PROVE  m \in Reachable(next, roots)
  <2>1. ASSUME NEW S \in SUBSET DOMAIN next, Saturated(next, roots, S)
        PROVE  m \in S
    <3>1. n \in S
      BY <2>1, <1>3 DEF Reachable
    <3>2. QED
      BY <3>1, <2>1, <1>3 DEF Saturated
  <2>2. QED
    BY <2>1, <1>3 DEF Reachable
<1>4. QED
  BY <1>1, <1>2, <1>3 DEF Saturated

\* A search stays inside every saturated set.
LEMMA ReachableLeast ==
    ASSUME NEW next, NEW roots, NEW S \in SUBSET DOMAIN next,
           Saturated(next, roots, S)
    PROVE  Reachable(next, roots) \subseteq S
BY DEF Reachable

\* A graph in which no successor is missing stays as it is, seen from roots
\* inside it, when it is embedded in a larger one.
LEMMA ReachableEmbedded ==
    ASSUME NEW small, NEW large, NEW roots,
           roots \subseteq DOMAIN small,
           DOMAIN small \subseteq DOMAIN large,
           \A n \in DOMAIN small :
               small[n] = large[n] /\ small[n] \subseteq DOMAIN small
    PROVE  Reachable(small, roots) = Reachable(large, roots)
<1>1. Reachable(large, roots) \subseteq Reachable(small, roots)
  <2>1. Reachable(small, roots) \in SUBSET DOMAIN large
    BY ReachableSaturated
  <2>2. Saturated(large, roots, Reachable(small, roots))
    BY ReachableSaturated DEF Saturated
  <2>3. QED
    BY <2>1, <2>2, ReachableLeast
<1>2. Reachable(small, roots) \subseteq Reachable(large, roots)
  <2>1. Reachable(large, roots) \subseteq DOMAIN small
    BY <1>1, ReachableSaturated
  <2>2. Saturated(small, roots, Reachable(large, roots))
    <3>1. Saturated(large, roots, Reachable(large, roots))
      BY ReachableSaturated
    <3>2. QED
      BY <3>1, <2>1 DEF Saturated
  <2>3. QED
    BY <2>1, <2>2, ReachableLeast
<1>3. QED
  BY <1>1, <1>2

\* A search that meets no missing node is one that stays inside some set of
\* nodes with all their successors.
LEMMA CompleteWithin ==
    ASSUME NEW next, NEW roots, NEW S \in SUBSET DOMAIN next,
           roots \subseteq S,
           \A n \in S : next[n] \subseteq S
    PROVE  /\ Complete(next, roots)
           /\ Reachable(next, roots) \subseteq S
<1>1. Saturated(next, roots, S)
  BY DEF Saturated
<1>2. Reachable(next, roots) \subseteq S
  BY <1>1, ReachableLeast
<1>3. QED
  BY <1>2 DEF Complete

\* A complete search stays inside what it visits.
LEMMA CompleteReachable ==
    ASSUME NEW next, NEW roots, Complete(next, roots)
    PROVE  /\ Reachable(next, roots) \in SUBSET DOMAIN next
           /\ roots \subseteq Reachable(next, roots)
           /\ \A n \in Reachable(next, roots) :
                 next[n] \subseteq Reachable(next, roots)
<1>1. /\ Reachable(next, roots) \subseteq DOMAIN next
      /\ Saturated(next, roots, Reachable(next, roots))
  BY ReachableSaturated
<1>2. QED
  BY <1>1 DEF Complete, Saturated

-----------------------------------------------------------------------------
\* A node reaches itself, and what a node reaches reaches no more than it.
LEMMA ReachableTransitive ==
    ASSUME NEW next, NEW n \in DOMAIN next
    PROVE  /\ n \in Reachable(next, {n})
           /\ \A m \in Reachable(next, {n}) :
                 Reachable(next, {m}) \subseteq Reachable(next, {n})
<1>1. n \in Reachable(next, {n})
  BY ReachableSaturated DEF Saturated
<1>2. ASSUME NEW m \in Reachable(next, {n})
      PROVE  Reachable(next, {m}) \subseteq Reachable(next, {n})
  <2>1. Saturated(next, {m}, Reachable(next, {n}))
    BY ReachableSaturated DEF Saturated
  <2>2. Reachable(next, {n}) \in SUBSET DOMAIN next
    BY ReachableSaturated
  <2>3. QED
    BY <2>1, <2>2, ReachableLeast
<1>3. QED
  BY <1>1, <1>2

\* A component is the component of each of its members.
LEMMA ComponentShared ==
    ASSUME NEW next, NEW n \in DOMAIN next, NEW m \in Component(next, n)
    PROVE  /\ m \in DOMAIN next
           /\ n \in Component(next, n)
           /\ Reachable(next, {m}) = Reachable(next, {n})
           /\ Component(next, m) = Component(next, n)
<1>1. m \in Reachable(next, {n}) /\ n \in Reachable(next, {m})
  BY DEF Component
<1>2. m \in DOMAIN next
  BY <1>1, ReachableSaturated
<1>3. Reachable(next, {m}) = Reachable(next, {n})
  <2>1. Reachable(next, {m}) \subseteq Reachable(next, {n})
    BY <1>1, ReachableTransitive
  <2>2. Reachable(next, {n}) \subseteq Reachable(next, {m})
    BY <1>1, <1>2, ReachableTransitive
  <2>3. QED
    BY <2>1, <2>2
<1>4. n \in Component(next, n)
  BY ReachableTransitive DEF Component
<1>5. Component(next, m) = Component(next, n)
  <2>1. ASSUME NEW k \in Reachable(next, {n}), m \in Reachable(next, {k})
        PROVE  n \in Reachable(next, {k})
    <3>1. k \in DOMAIN next
      BY ReachableSaturated
    <3>2. QED
      BY <2>1, <3>1, <1>1, ReachableTransitive
  <2>2. ASSUME NEW k \in Reachable(next, {n}), n \in Reachable(next, {k})
        PROVE  m \in Reachable(next, {k})
    <3>1. k \in DOMAIN next
      BY ReachableSaturated
    <3>2. QED
      BY <2>2, <3>1, <1>1, ReachableTransitive
  <2>3. QED
    BY <1>3, <2>1, <2>2 DEF Component
<1>6. QED
  BY <1>2, <1>3, <1>4, <1>5

\* A successor in another component reaches strictly less.
LEMMA SuccessorBelow ==
    ASSUME NEW next, NEW n \in DOMAIN next,
           NEW m \in next[n] \cap DOMAIN next, m \notin Component(next, n)
    PROVE  /\ Reachable(next, {m}) \subseteq Reachable(next, {n})
           /\ n \in Reachable(next, {n})
           /\ n \notin Reachable(next, {m})
<1>1. n \in Reachable(next, {n})
  BY ReachableTransitive
<1>2. m \in Reachable(next, {n})
  BY <1>1, ReachableSaturated DEF Saturated
<1>3. QED
  BY <1>1, <1>2, ReachableTransitive DEF Component

\* What a node reaches outside its component, an edge that leaves the component
\* leads to.
LEMMA ComponentLeft ==
    ASSUME NEW next, NEW n \in DOMAIN next,
           NEW m \in Reachable(next, {n}), m \notin Component(next, n)
    PROVE  \E k \in Component(next, n) : \E l \in next[k] \cap DOMAIN next :
               l \notin Component(next, n) /\ m \in Reachable(next, {l})
<1> DEFINE comp == Component(next, n)
           Through(x) == \E k \in comp : \E l \in next[k] \cap DOMAIN next :
                             l \notin comp /\ x \in Reachable(next, {l})
           T == {x \in DOMAIN next : x \in comp \/ Through(x)}
<1>1. ASSUME NEW x \in T, NEW y \in next[x] \cap DOMAIN next
      PROVE  y \in T
  <2>1. CASE x \in comp /\ y \notin comp
    <3>1. y \in Reachable(next, {y})
      BY ReachableTransitive
    <3>2. QED
      BY <2>1, <3>1
  <2>2. CASE Through(x)
    <3>1. PICK k \in comp : \E l \in next[k] \cap DOMAIN next :
              l \notin comp /\ x \in Reachable(next, {l})
      BY <2>2
    <3>2. PICK l \in next[k] \cap DOMAIN next : l \notin comp /\ x \in Reachable(next, {l})
      BY <3>1
    <3>3. y \in Reachable(next, {l})
      BY <3>2, ReachableSaturated DEF Saturated
    <3>4. QED
      BY <3>2, <3>3
  <2>3. CASE y \in comp
    BY <2>3
  <2>4. QED
    BY <2>1, <2>2, <2>3
<1>2. n \in T
  BY ReachableTransitive DEF Component
<1>3. T \in SUBSET DOMAIN next
  OBVIOUS
<1>4. Saturated(next, {n}, T)
  <2> HIDE DEF T
  <2>1. QED
    BY <1>1, <1>2 DEF Saturated
<1>5. Reachable(next, {n}) \subseteq T
  <2> HIDE DEF T
  <2>1. QED
    BY <1>3, <1>4, ReachableLeast
<1>6. QED
  BY <1>5

\* S, a part of the graph small that no edge leaves, is laid into another
\* graph by s.  What more edges there are in that graph leave the component.
LaidInto(small, large, S, s) ==
    /\ S \subseteq DOMAIN small
    /\ s \in [S -> DOMAIN large]
    /\ \A n, m \in S : s[n] = s[m] => n = m
    /\ \A n \in S : /\ small[n] \subseteq S
                    /\ {s[m] : m \in small[n]} \subseteq large[s[n]]
                    /\ large[s[n]] \cap Component(large, s[n]) \subseteq {s[m] : m \in small[n]}

\* What a node reaches here, its image reaches there.
LEMMA ReachableImage ==
    ASSUME NEW small, NEW large,
           NEW S, NEW s, LaidInto(small, large, S, s),
           NEW n \in S
    PROVE  /\ Reachable(small, {n}) \subseteq S
           /\ \A m \in Reachable(small, {n}) : s[m] \in Reachable(large, {s[n]})
<1> DEFINE here == Reachable(small, {n})
           there == Reachable(large, {s[n]})
           U == {m \in here : s[m] \in there}
<1>0. /\ S \subseteq DOMAIN small /\ s \in [S -> DOMAIN large]
      /\ \A m \in S : small[m] \subseteq S /\ {s[k] : k \in small[m]} \subseteq large[s[m]]
  BY DEF LaidInto
<1>1. /\ here \subseteq DOMAIN small /\ n \in here
      /\ \A m \in here : small[m] \cap DOMAIN small \subseteq here
  BY <1>0, ReachableSaturated DEF Saturated
<1>2. here \subseteq S
  <2>1. Saturated(small, {n}, S)
    BY <1>0 DEF Saturated
  <2>2. QED
    BY <1>0, <2>1, ReachableLeast
<1>3. /\ s[n] \in there
      /\ \A x \in there : large[x] \cap DOMAIN large \subseteq there
  BY <1>0, ReachableSaturated DEF Saturated
<1>4. ASSUME NEW m \in U, NEW k \in small[m] \cap DOMAIN small
      PROVE  k \in U
  <2>1. m \in S /\ k \in here /\ k \in S
    BY <1>0, <1>1, <1>2
  <2>2. s[k] \in large[s[m]] /\ s[k] \in DOMAIN large
    BY <1>0, <2>1
  <2>3. s[k] \in there
    BY <1>3, <2>2
  <2>4. QED
    BY <2>1, <2>3
<1>5. Saturated(small, {n}, U)
  BY <1>1, <1>3, <1>4 DEF Saturated
<1>6. U \in SUBSET DOMAIN small
  BY <1>1
<1> HIDE DEF U
<1>7. here \subseteq U
  BY <1>5, <1>6, ReachableLeast
<1>8. QED
  BY <1>2, <1>7 DEF U

\* The component of its image has no other node than images.
LEMMA ComponentWithin ==
    ASSUME NEW small, NEW large,
           NEW S, NEW s, LaidInto(small, large, S, s),
           NEW n \in S
    PROVE  \A x \in Component(large, s[n]) : \E m \in Reachable(small, {n}) : x = s[m]
<1> DEFINE R == Reachable(small, {n})
           there == Reachable(large, {s[n]})
           comp == Component(large, s[n])
           image == {s[m] : m \in R}
           T == image \cup (there \ comp)
<1>0. /\ S \subseteq DOMAIN small /\ s \in [S -> DOMAIN large]
      /\ \A m \in S :
            /\ small[m] \subseteq S
            /\ large[s[m]] \cap Component(large, s[m]) \subseteq {s[k] : k \in small[m]}
  BY DEF LaidInto
<1>1. /\ R \subseteq S /\ n \in R
      /\ \A m \in R : small[m] \subseteq R /\ s[m] \in there
  <2>1. /\ n \in R
        /\ \A m \in R : small[m] \cap DOMAIN small \subseteq R
    BY <1>0, ReachableSaturated DEF Saturated
  <2>2. /\ R \subseteq S
        /\ \A m \in R : s[m] \in there
    BY ReachableImage
  <2>3. QED
    BY <1>0, <2>1, <2>2
<1>2. /\ s[n] \in there /\ there \subseteq DOMAIN large
      /\ \A x \in there : large[x] \cap DOMAIN large \subseteq there
  BY <1>0, ReachableSaturated DEF Saturated
<1>3. ASSUME NEW x \in there, NEW y \in large[x] \cap DOMAIN large, y \in comp
      PROVE  /\ x \in comp
             /\ y \in Component(large, x)
  <2>1. s[n] \in Reachable(large, {y}) /\ x \in DOMAIN large
    BY <1>2, <1>3 DEF Component
  <2>2. y \in Reachable(large, {x})
    <3>1. x \in Reachable(large, {x})
      BY <2>1, ReachableSaturated DEF Saturated
    <3>2. QED
      BY <3>1, ReachableSaturated DEF Saturated
  <2>3. s[n] \in Reachable(large, {x})
    BY <2>1, <2>2, ReachableTransitive
  <2>4. x \in comp
    BY <2>3 DEF Component
  <2>5. Component(large, x) = comp
    BY <1>0, <2>4, ComponentShared
  <2>6. QED
    BY <1>3, <2>4, <2>5
<1>4. ASSUME NEW x \in T, NEW y \in large[x] \cap DOMAIN large
      PROVE  y \in T
  <2>1. x \in there /\ y \in there
    BY <1>1, <1>2
  <2>2. CASE y \notin comp
    BY <2>1, <2>2
  <2>3. CASE y \in comp
    <3>1. x \in comp /\ y \in Component(large, x)
      BY <1>3, <2>1, <2>3
    <3>2. PICK m \in R : x = s[m]
      BY <3>1
    <3>3. y \in {s[k] : k \in small[m]}
      BY <1>0, <1>1, <3>1, <3>2
    <3>4. QED
      BY <1>1, <3>2, <3>3
  <2>4. QED
    BY <2>2, <2>3
<1>5. s[n] \in T
  BY <1>1
<1>6. T \in SUBSET DOMAIN large
  BY <1>1, <1>2
<1>7. there \subseteq T
  <2> HIDE DEF T
  <2>1. Saturated(large, {s[n]}, T)
    BY <1>4, <1>5 DEF Saturated
  <2>2. QED
    BY <1>6, <2>1, ReachableLeast
<1>8. comp \subseteq there
  BY DEF Component
<1>9. QED
  BY <1>7, <1>8

\* Its components are the components of their images.
LEMMA ComponentImage ==
    ASSUME NEW small, NEW large,
           NEW S, NEW s, LaidInto(small, large, S, s),
           NEW n \in S
    PROVE  /\ Component(small, n) \subseteq S
           /\ Component(large, s[n]) = {s[m] : m \in Component(small, n)}
<1>0. s \in [S -> DOMAIN large] /\ \A k, m \in S : s[k] = s[m] => k = m
  BY DEF LaidInto
<1>1. ASSUME NEW m \in S
      PROVE  /\ Reachable(small, {m}) \subseteq S
             /\ \A k \in Reachable(small, {m}) : s[k] \in Reachable(large, {s[m]})
             /\ \A x \in Component(large, s[m]) :
                   \E k \in Reachable(small, {m}) : x = s[k]
  <2>1. /\ Reachable(small, {m}) \subseteq S
        /\ \A k \in Reachable(small, {m}) : s[k] \in Reachable(large, {s[m]})
    BY ReachableImage
  <2>2. \A x \in Component(large, s[m]) : \E k \in Reachable(small, {m}) : x = s[k]
    BY ComponentWithin
  <2>3. QED
    BY <2>1, <2>2
<1>2. Component(small, n) \subseteq S
  BY <1>1 DEF Component
<1>3. ASSUME NEW m \in Component(small, n)
      PROVE  s[m] \in Component(large, s[n])
  BY <1>1, <1>2 DEF Component
<1>4. ASSUME NEW x \in Component(large, s[n])
      PROVE  \E m \in Component(small, n) : x = s[m]
  <2>1. PICK m \in Reachable(small, {n}) : x = s[m]
    BY <1>1
  <2>2. m \in S
    BY <1>1, <2>1
  <2>3. s[n] \in Component(large, s[m])
    <3>1. Component(large, x) = Component(large, s[n])
      BY <1>0, ComponentShared
    <3>2. s[n] \in Component(large, s[n])
      BY <1>0, ReachableTransitive DEF Component
    <3>3. QED
      BY <2>1, <3>1, <3>2
  <2>4. PICK k \in Reachable(small, {m}) : s[n] = s[k]
    BY <1>1, <2>2, <2>3
  <2>5. k = n
    BY <1>0, <1>1, <2>2, <2>4
  <2>6. QED
    BY <2>1, <2>4, <2>5 DEF Component
<1>5. QED
  BY <1>2, <1>3, <1>4

-----------------------------------------------------------------------------
(***************************************************************************)
(* Counting.                                                               *)
(***************************************************************************)

\* A nonempty set of naturals has a least member.
LEMMA LeastExists ==
    ASSUME NEW S \in SUBSET Nat, S # {}
    PROVE  \E i \in S : \A j \in S : i <= j
<1> DEFINE R == OpToRel(<, Nat)
<1>1. IsWellFoundedOn(R, Nat)
  BY NatLessThanWellFounded
<1>2. \A x, y \in Nat : <<x, y>> \notin R => ~ (x < y)
  BY DEF OpToRel
<1> HIDE DEF R
<1>3. S \subseteq Nat
  OBVIOUS
<1>4. PICK i \in S : \A j \in S : ~ (<<j, i>> \in R)
  BY <1>1, <1>3, WFMin, ZenonT(20)
<1>5. \A j \in S : ~ (j < i)
  BY <1>2, <1>4
<1>6. QED
  BY <1>5

\* Counting up from m, one stays in a set that has the next number with each.
LEMMA CountingUp ==
    ASSUME NEW m \in Nat, NEW n \in Nat, NEW S, m \in S,
           \A k \in m .. n - 1 : k \in S => k + 1 \in S
    PROVE  m .. n \subseteq S
<1> DEFINE out == {k \in m .. n : k \notin S}
<1>1. SUFFICES ASSUME out # {} PROVE FALSE
  OBVIOUS
<1>2. out \in SUBSET Nat
  OBVIOUS
<1>3. PICK k \in out : \A l \in out : k <= l
  <2> HIDE DEF out
  <2>1. QED
    BY <1>1, <1>2, LeastExists
<1>4. k \in m .. n /\ k \notin S /\ k # m
  OBVIOUS
<1>5. k - 1 \in m .. n - 1 /\ k - 1 \notin out
  BY <1>3, <1>4
<1>6. k - 1 \in S
  BY <1>5
<1>7. QED
  BY <1>4, <1>5, <1>6

\* Sets of positions are finite.
LEMMA PositionsFinite ==
    ASSUME NEW n \in Nat, NEW comp \in SUBSET (1 .. n)
    PROVE  IsFiniteSet(comp) /\ Cardinality(comp) \in Nat
<1>1. 1 \in Int /\ n \in Int
  OBVIOUS
<1>2. IsFiniteSet(1 .. n)
  BY <1>1, FS_Interval
<1>3. IsFiniteSet(comp)
  BY <1>2, FS_Subset
<1>4. QED
  BY <1>3, FS_CardinalityType

\* A set and its image under an injection have as many members.
LEMMA ImageCardinality ==
    ASSUME NEW T, IsFiniteSet(T), NEW s,
           \A i, j \in T : s[i] = s[j] => i = j
    PROVE  Cardinality({s[i] : i \in T}) = Cardinality(T)
<1> DEFINE image == {s[i] : i \in T}
           f == [i \in T |-> s[i]]
<1>1. f \in Bijection(T, image)
  <2>1. f \in [T -> image] /\ IsInjective(f)
    BY DEF IsInjective
  <2>2. \A x \in image : \E i \in T : f[i] = x
    OBVIOUS
  <2>3. QED
    BY <2>1, <2>2 DEF Bijection, Injection, Surjection
<1> HIDE DEF f, image
<1>2. ExistsBijection(T, image)
  BY <1>1 DEF ExistsBijection
<1>3. Cardinality(image) = Cardinality(T)
  BY <1>2, FS_Bijection
<1>4. QED
  BY <1>3 DEF image

-----------------------------------------------------------------------------
(***************************************************************************)
(* Choices by source order.                                                *)
(***************************************************************************)

\* A nonempty set of positions has a last one.
LEMMA LastExists ==
    ASSUME NEW n \in Nat, NEW S \in SUBSET (1 .. n), S # {}
    PROVE  \E i \in S : \A j \in S : j <= i
<1> DEFINE T == {k \in Nat : \E i \in S : k = n - i}
<1>1. T \in SUBSET Nat /\ T # {}
  <2>1. PICK i \in S : TRUE
    OBVIOUS
  <2>2. n - i \in T
    OBVIOUS
  <2>3. QED
    BY <2>2
<1>2. PICK k \in T : \A l \in T : k <= l
  <2> HIDE DEF T
  <2>1. QED
    BY <1>1, LeastExists
<1>3. PICK i \in S : k = n - i
  BY <1>2
<1>4. ASSUME NEW j \in S PROVE j <= i
  <2>1. n - j \in T
    OBVIOUS
  <2>2. n - i <= n - j
    BY <2>1, <1>2, <1>3
  <2>3. QED
    BY <2>2
<1>5. QED
  BY <1>4

-----------------------------------------------------------------------------
(***************************************************************************)
(* Positions in a component.                                               *)
(***************************************************************************)

\* A later member has a later position.
LEMMA PositionsIncrease ==
    ASSUME NEW n \in Nat, NEW comp \in SUBSET (1 .. n),
           NEW i \in comp, NEW j \in comp, i < j
    PROVE  PositionIn(comp, i) < PositionIn(comp, j)
<1> DEFINE low == {l \in comp : l <= i}
           high == {l \in comp : l <= j}
<1>1. low \in SUBSET (1 .. n) /\ high \in SUBSET (1 .. n)
  OBVIOUS
<1>2. low \in SUBSET high /\ j \in high /\ j \notin low
  <2>1. \A l \in comp : l \in Int
    OBVIOUS
  <2>2. \A l \in low : l \in high
    BY <2>1
  <2>3. j \in high /\ j \notin low
    BY <2>1
  <2>4. QED
    BY <2>2, <2>3
<1> HIDE DEF low, high
<1>3. /\ IsFiniteSet(high)
      /\ Cardinality(low) \in Nat /\ Cardinality(high) \in Nat
  BY <1>1, PositionsFinite
<1>4. /\ Cardinality(low) <= Cardinality(high)
      /\ Cardinality(high) = Cardinality(low) => high = low
  BY <1>2, <1>3, FS_Subset
<1>5. Cardinality(low) < Cardinality(high)
  BY <1>2, <1>3, <1>4
<1>6. QED
  BY <1>5 DEF PositionIn, low, high

\* Positions count the members from one.
LEMMA PositionsCount ==
    ASSUME NEW n \in Nat, NEW comp \in SUBSET (1 .. n)
    PROVE  /\ Cardinality(comp) \in Nat
           /\ \A i \in comp : PositionIn(comp, i) \in 1 .. Cardinality(comp)
           /\ \A i, j \in comp : PositionIn(comp, i) = PositionIn(comp, j) => i = j
<1>1. IsFiniteSet(comp)
  BY PositionsFinite
<1>2. Cardinality(comp) \in Nat
  BY PositionsFinite
<1>3. ASSUME NEW i \in comp
      PROVE  PositionIn(comp, i) \in 1 .. Cardinality(comp)
  <2> DEFINE below == {l \in comp : l <= i}
  <2>1. below \in SUBSET comp /\ i \in below
    OBVIOUS
  <2> HIDE DEF below
  <2>2. IsFiniteSet(below) /\ Cardinality(below) <= Cardinality(comp)
    BY <1>1, <2>1, FS_Subset
  <2>3. Cardinality(below) \in Nat /\ Cardinality(below) # 0
    BY <2>1, <2>2, FS_CardinalityType, FS_EmptySet
  <2>4. Cardinality(below) \in 1 .. Cardinality(comp)
    BY <1>2, <2>2, <2>3
  <2>5. QED
    BY <2>4 DEF PositionIn, below
<1>4. ASSUME NEW i \in comp, NEW j \in comp,
             PositionIn(comp, i) = PositionIn(comp, j)
      PROVE  i = j
  <2>1. PositionIn(comp, i) \in Nat /\ PositionIn(comp, j) \in Nat
    BY <1>2, <1>3
  <2>2. i \in Int /\ j \in Int
    OBVIOUS
  <2>3. ~ (i < j)
    <3>1. i < j => PositionIn(comp, i) < PositionIn(comp, j)
      BY PositionsIncrease
    <3>2. QED
      BY <3>1, <1>4, <2>1
  <2>3a. ~ (j < i)
    <3>1. j < i => PositionIn(comp, j) < PositionIn(comp, i)
      BY PositionsIncrease
    <3>2. QED
      BY <3>1, <1>4, <2>1
  <2>4. QED
    BY <2>2, <2>3, <2>3a
<1>5. QED
  BY <1>2, <1>3, <1>4

\* Every position is that of one member, and a member is found at its own.
LEMMA MembersAt ==
    ASSUME NEW n \in Nat, NEW comp \in SUBSET (1 .. n)
    PROVE  /\ \A i \in comp : MemberAt(comp, PositionIn(comp, i)) = i
           /\ \A p \in 1 .. Cardinality(comp) :
                 MemberAt(comp, p) \in comp /\ PositionIn(comp, MemberAt(comp, p)) = p
<1> DEFINE T == 1 .. Cardinality(comp)
           f == [i \in comp |-> PositionIn(comp, i)]
<1>1. Cardinality(comp) \in Nat
  BY PositionsCount
<1>2. f \in Injection(comp, T)
  <2>1. f \in [comp -> T]
    BY PositionsCount
  <2>2. IsInjective(f)
    BY PositionsCount DEF IsInjective
  <2>3. QED
    BY <2>1, <2>2 DEF Injection
<1>3. IsFiniteSet(T) /\ Cardinality(T) = Cardinality(comp)
  BY <1>1, FS_Interval
<1>4. f \in Surjection(comp, T)
  <2> HIDE DEF f, T
  <2>1. QED
    BY <1>2, <1>3, FS_Injection
<1>5. \A p \in T : \E i \in comp : PositionIn(comp, i) = p
  BY <1>4 DEF Surjection
<1>6. ASSUME NEW i \in comp
      PROVE  MemberAt(comp, PositionIn(comp, i)) = i
  BY PositionsCount DEF MemberAt
<1>7. ASSUME NEW p \in 1 .. Cardinality(comp)
      PROVE  MemberAt(comp, p) \in comp /\ PositionIn(comp, MemberAt(comp, p)) = p
  <2>1. \E i \in comp : PositionIn(comp, i) = p
    BY <1>5
  <2>2. QED
    BY <2>1 DEF MemberAt
<1>8. QED
  BY <1>6, <1>7

\* Members keep their positions when a component is moved in order.
LEMMA PositionsImage ==
    ASSUME NEW n \in Nat, NEW comp \in SUBSET (1 .. n), NEW s,
           \A i, j \in comp : s[i] = s[j] => i = j,
           \A i, j \in comp : j <= i <=> s[j] <= s[i]
    PROVE  LET image == {s[i] : i \in comp}
           IN  /\ Cardinality(image) = Cardinality(comp)
               /\ \A i \in comp : PositionIn(image, s[i]) = PositionIn(comp, i)
<1> DEFINE image == {s[i] : i \in comp}
<1>1. IsFiniteSet(comp)
  BY PositionsFinite
<1>2. Cardinality(image) = Cardinality(comp)
  BY <1>1, ImageCardinality
<1>3. ASSUME NEW i \in comp
      PROVE  PositionIn(image, s[i]) = PositionIn(comp, i)
  <2> DEFINE low == {j \in comp : j <= i}
  <2>1. {x \in image : x <= s[i]} = {s[j] : j \in low}
    OBVIOUS
  <2>2. IsFiniteSet(low)
    <3>1. low \in SUBSET comp
      OBVIOUS
    <3> HIDE DEF low
    <3>2. QED
      BY <1>1, <3>1, FS_Subset
  <2>3. \A j, k \in low : s[j] = s[k] => j = k
    OBVIOUS
  <2> HIDE DEF low
  <2>4. Cardinality({s[j] : j \in low}) = Cardinality(low)
    BY <2>2, <2>3, ImageCardinality
  <2>5. QED
    BY <2>1, <2>4 DEF PositionIn, low
<1>4. QED
  BY <1>2, <1>3

-----------------------------------------------------------------------------
(***************************************************************************)
(* Entries of a batch.                                                     *)
(***************************************************************************)

\* sym_to_idx finds a definition of every name the module declares.
LEMMA IndexOfLocal ==
    ASSUME NEW b, IsBatch(b), NEW n \in LocalNames(b)
    PROVE  /\ IndexOf(b, n) \in DOMAIN b
           /\ b[IndexOf(b, n)].name = n
           /\ \A j \in DOMAIN b : b[j].name = n => j <= IndexOf(b, n)
<1> DEFINE S == {i \in DOMAIN b : b[i].name = n}
<1>1. DOMAIN b = 1 .. Len(b) /\ Len(b) \in Nat
  BY DEF IsBatch
<1>2. S \in SUBSET (1 .. Len(b)) /\ S # {}
  BY <1>1 DEF LocalNames
<1>3. \E i \in S : \A j \in S : j <= i
  BY <1>1, <1>2, LastExists
<1>4. \E i \in DOMAIN b :
          b[i].name = n /\ \A j \in DOMAIN b : b[j].name = n => j <= i
  BY <1>3
<1>5. QED
  BY <1>4 DEF IndexOf

\* It is the last of them.
LEMMA IndexOfLast ==
    ASSUME NEW b, IsBatch(b), NEW j \in DOMAIN b,
           \A l \in DOMAIN b : b[l].name = b[j].name => l <= j
    PROVE  IndexOf(b, b[j].name) = j
<1> DEFINE n == b[j].name
           P(i) == b[i].name = n /\ \A l \in DOMAIN b : b[l].name = n => l <= i
<1>1. \A i \in DOMAIN b : P(i) <=> i = j
  <2>1. DOMAIN b = 1 .. Len(b) /\ Len(b) \in Nat
    BY DEF IsBatch
  <2>2. \A i \in DOMAIN b : i \in Int
    BY <2>1
  <2>3. ASSUME NEW i \in DOMAIN b, P(i) PROVE i = j
    <3>1. j <= i /\ i <= j
      BY <2>3
    <3>2. QED
      BY <2>2, <3>1
  <2>4. QED
    BY <2>3
<1>2. IndexOf(b, n) = CHOOSE i \in DOMAIN b : P(i)
  BY DEF IndexOf
<1> HIDE DEF P
<1>3. QED
  BY <1>1, <1>2

\* A new blob comes from an entry of the batch.
LEMMA FirstOfEntry ==
    ASSUME NEW b, IsBatch(b), NEW dag, DOMAIN dag = DOMAIN b,
           NEW h \in Range(dag)
    PROVE  FirstOf(dag, h) \in DOMAIN b /\ dag[FirstOf(dag, h)] = h
<1>1. DOMAIN b = 1 .. Len(b) /\ Len(b) \in Nat
  BY DEF IsBatch
<1>2. EntriesOf(dag, h) \in SUBSET Nat /\ EntriesOf(dag, h) # {}
  BY <1>1 DEF EntriesOf, Range
<1>3. \E i \in EntriesOf(dag, h) : \A j \in EntriesOf(dag, h) : i <= j
  BY <1>2, LeastExists
<1>4. FirstOf(dag, h) \in EntriesOf(dag, h)
  BY <1>3 DEF FirstOf
<1>5. QED
  BY <1>4 DEF EntriesOf

-----------------------------------------------------------------------------
(***************************************************************************)
(* Dag hashes are defined.  A definition outside the component of those    *)
(* that refer to it reaches fewer definitions than they do, so the         *)
(* recursion of DagHashes is on the number of definitions reached.         *)
(***************************************************************************)

\* The component a definition is hashed with, and how many it reaches.
ComponentOf(b, i) == Component(CallGraph(b), i)
Below(b, i) == Cardinality(Reachable(CallGraph(b), {i}))

\* The call graph is on the positions of the definitions, and a reference to
\* a definition of the module is an edge.
LEMMA CallGraphEdges ==
    ASSUME NEW b, IsBatch(b)
    PROVE  /\ DOMAIN CallGraph(b) = DOMAIN b
           /\ \A i \in DOMAIN b : CallGraph(b)[i] \subseteq DOMAIN b
           /\ \A i \in DOMAIN b : \A n \in Range(b[i].refs) \cap LocalNames(b) :
                 IndexOf(b, n) \in CallGraph(b)[i]
BY IndexOfLocal DEF CallGraph

\* Searches are finite.
LEMMA SizeNatural ==
    ASSUME NEW b, IsBatch(b), NEW i \in DOMAIN b
    PROVE  /\ IsFiniteSet(Reachable(CallGraph(b), {i}))
           /\ Below(b, i) \in 1 .. Len(b)
<1> DEFINE reach == Reachable(CallGraph(b), {i})
<1>1. DOMAIN b = 1 .. Len(b) /\ Len(b) \in Nat
  BY DEF IsBatch
<1>2. reach \in SUBSET (1 .. Len(b))
  BY <1>1, ReachableSaturated, CallGraphEdges
<1>3. i \in reach
  BY ReachableTransitive, CallGraphEdges
<1> HIDE DEF reach
<1>4. IsFiniteSet(reach) /\ Cardinality(reach) \in Nat
  BY <1>1, <1>2, PositionsFinite
<1>5. Cardinality(reach) # 0
  BY <1>3, <1>4, FS_EmptySet
<1>6. Cardinality(reach) <= Len(b)
  <2>1. \A n \in Nat : Cardinality(1 .. n) = n
    <3>1. \A n \in Nat : 1 \in Int /\ n \in Int
      OBVIOUS
    <3>2. QED
      BY <3>1, FS_Interval
  <2>2. IsFiniteSet(1 .. Len(b)) /\ Cardinality(1 .. Len(b)) = Len(b)
    BY <1>1, <2>1, PositionsFinite
  <2>3. QED
    BY <1>2, <2>2, FS_Subset
<1>7. QED
  BY <1>1, <1>4, <1>5, <1>6 DEF reach, Below

\* A component is a set of positions.
LEMMA ComponentPositions ==
    ASSUME NEW b, IsBatch(b), NEW i \in DOMAIN b
    PROVE  /\ Len(b) \in Nat
           /\ ComponentOf(b, i) \in SUBSET (1 .. Len(b))
           /\ ComponentOf(b, i) \subseteq DOMAIN b
           /\ i \in ComponentOf(b, i)
<1>1. DOMAIN b = 1 .. Len(b) /\ Len(b) \in Nat
  BY DEF IsBatch
<1>2. i \in DOMAIN CallGraph(b)
  BY CallGraphEdges
<1>3. i \in ComponentOf(b, i)
  BY <1>2, ReachableTransitive DEF ComponentOf, Component
<1>4. ComponentOf(b, i) \subseteq DOMAIN b
  BY CallGraphEdges, ReachableSaturated DEF ComponentOf, Component
<1>5. QED
  BY <1>1, <1>3, <1>4

\* A definition a component refers to is in it or reaches fewer definitions.
LEMMA ReferencesBelow ==
    ASSUME NEW b, IsBatch(b), NEW i \in DOMAIN b, NEW m \in ComponentOf(b, i),
           NEW n \in Range(b[m].refs) \cap LocalNames(b),
           IndexOf(b, n) \notin ComponentOf(b, i)
    PROVE  /\ IndexOf(b, n) \in DOMAIN b
           /\ Below(b, IndexOf(b, n)) < Below(b, i)
<1> DEFINE graph == CallGraph(b)
           k == IndexOf(b, n)
<1>1. DOMAIN graph = DOMAIN b
  BY CallGraphEdges
<1>2. /\ m \in DOMAIN graph
      /\ Reachable(graph, {m}) = Reachable(graph, {i})
      /\ Component(graph, m) = Component(graph, i)
  BY <1>1, ComponentShared DEF ComponentOf
<1>3. k \in graph[m] \cap DOMAIN graph
  BY <1>1, <1>2, CallGraphEdges
<1>4. k \notin Component(graph, m)
  BY <1>2 DEF ComponentOf
<1>5. /\ Reachable(graph, {k}) \subseteq Reachable(graph, {m})
      /\ m \in Reachable(graph, {m})
      /\ m \notin Reachable(graph, {k})
  <2> HIDE DEF graph, k
  <2>1. QED
    BY <1>2, <1>3, <1>4, SuccessorBelow
<1>6. IsFiniteSet(Reachable(graph, {i}))
  BY SizeNatural
<1>7. Below(b, k) \in Nat /\ Below(b, i) \in Nat
  <2>1. k \in DOMAIN b
    BY <1>1, <1>3
  <2>2. Below(b, k) \in 1 .. Len(b) /\ Below(b, i) \in 1 .. Len(b)
    BY <2>1, SizeNatural
  <2>3. QED
    BY <2>2, ComponentPositions
<1>8. /\ Cardinality(Reachable(graph, {k})) <= Cardinality(Reachable(graph, {i}))
      /\ Cardinality(Reachable(graph, {k})) # Cardinality(Reachable(graph, {i}))
  <2> HIDE DEF graph, k
  <2>1. QED
    BY <1>2, <1>5, <1>6, FS_Subset
<1>9. QED
  BY <1>1, <1>3, <1>7, <1>8 DEF Below

\* A component's hash depends on the hashes of the definitions it refers to
\* and on no others.
LEMMA HashInLocal ==
    ASSUME NEW b, IsBatch(b), NEW external, NEW i \in DOMAIN b,
           NEW f, NEW g,
           \A j \in DOMAIN b : Below(b, j) < Below(b, i) => f[j] = g[j]
    PROVE  HashIn(b, external, ComponentOf(b, i), f, i) =
           HashIn(b, external, ComponentOf(b, i), g, i)
<1> DEFINE comp == ComponentOf(b, i)
<1>1. ASSUME NEW m \in comp
      PROVE  ReferenceHashes(b, external, comp, f, m) =
             ReferenceHashes(b, external, comp, g, m)
  <2>1. ASSUME NEW k \in DOMAIN b[m].refs
        PROVE  ReferenceHash(b, external, comp, f, b[m].refs[k]) =
               ReferenceHash(b, external, comp, g, b[m].refs[k])
    <3> DEFINE n == b[m].refs[k]
    <3>1. n \in Range(b[m].refs)
      BY DEF Range
    <3>2. n \in LocalNames(b) /\ IndexOf(b, n) \notin comp
              => f[IndexOf(b, n)] = g[IndexOf(b, n)]
      BY <3>1, ReferencesBelow
    <3> HIDE DEF n
    <3>3. QED
      BY <3>2 DEF ReferenceHash, n
  <2>2. QED
    BY <2>1 DEF ReferenceHashes
<1>2. \A p \in 1 .. Cardinality(comp) : MemberAt(comp, p) \in comp
  <2>1. Len(b) \in Nat /\ comp \in SUBSET (1 .. Len(b))
    BY ComponentPositions
  <2> HIDE DEF comp
  <2>2. QED
    BY <2>1, MembersAt
<1> HIDE DEF comp
<1>3. ComponentContents(b, external, comp, f) = ComponentContents(b, external, comp, g)
  BY <1>1, <1>2 DEF ComponentContents
<1>4. QED
  BY <1>3 DEF HashIn, comp

\* Hashes that are right as far as definitions of fewer than k successors go.
RightBelow(b, external, k, f) ==
    \A i \in DOMAIN b :
        Below(b, i) < k => f[i] = HashIn(b, external, ComponentOf(b, i), f, i)

\* There are such hashes for every k, and so for all definitions.
LEMMA RightExists ==
    ASSUME NEW b, IsBatch(b), NEW external
    PROVE  \A k \in Nat : \E f : RightBelow(b, external, k, f)
<1> DEFINE wrong == {k \in Nat : ~ \E f : RightBelow(b, external, k, f)}
<1>1. SUFFICES ASSUME wrong # {} PROVE FALSE
  OBVIOUS
<1>2. PICK k \in wrong : \A l \in wrong : k <= l
  <2>1. wrong \in SUBSET Nat
    OBVIOUS
  <2> HIDE DEF wrong
  <2>2. QED
    BY <1>1, <2>1, LeastExists
<1>3. \A i \in DOMAIN b : Below(b, i) \in Nat /\ Below(b, i) # 0
  <2>1. \A i \in DOMAIN b : Below(b, i) \in 1 .. Len(b)
    BY SizeNatural
  <2>2. QED
    BY <2>1 DEF IsBatch
<1>4. k # 0
  <2>1. \A f : RightBelow(b, external, 0, f)
    BY <1>3 DEF RightBelow
  <2>2. QED
    BY <2>1
<1>5. k \in Nat /\ k - 1 \in Nat /\ k - 1 \notin wrong
  BY <1>2, <1>4
<1>6. PICK f : RightBelow(b, external, k - 1, f)
  BY <1>5
<1> DEFINE g == [i \in DOMAIN b |-> HashIn(b, external, ComponentOf(b, i), f, i)]
<1>7. ASSUME NEW i \in DOMAIN b, Below(b, i) < k
      PROVE  g[i] = HashIn(b, external, ComponentOf(b, i), g, i)
  <2>1. ASSUME NEW j \in DOMAIN b, Below(b, j) < Below(b, i)
        PROVE  f[j] = g[j]
    <3>1. Below(b, j) < k - 1
      BY <1>3, <1>5, <1>7, <2>1
    <3>2. QED
      BY <1>6, <3>1 DEF RightBelow
  <2>2. g[i] = HashIn(b, external, ComponentOf(b, i), f, i)
    OBVIOUS
  <2> HIDE DEF g
  <2>3. QED
    BY <2>1, <2>2, HashInLocal
<1>8. RightBelow(b, external, k, g)
  <2> HIDE DEF g
  <2>1. QED
    BY <1>7 DEF RightBelow
<1>9. QED
  BY <1>2, <1>8

\* The equation DagHashes is written as holds: every definition has the hash
\* of its component's contents, with the hashes of what they refer to.
THEOREM DagHashesDefined ==
    ASSUME NEW b, IsBatch(b), NEW external
    PROVE  /\ DOMAIN DagHashes(b, external) = DOMAIN b
           /\ \A i \in DOMAIN b :
                 DagHashes(b, external)[i] =
                     HashIn(b, external, ComponentOf(b, i), DagHashes(b, external), i)
<1> DEFINE comp == [i \in DOMAIN b |-> Component(CallGraph(b), i)]
           Right(f) == f = [i \in DOMAIN b |-> HashIn(b, external, comp[i], f, i)]
           dag == CHOOSE f : Right(f)
<1>1. PICK f : RightBelow(b, external, Len(b) + 1, f)
  <2>1. Len(b) + 1 \in Nat
    BY DEF IsBatch
  <2>2. QED
    BY <2>1, RightExists
<1> DEFINE g == [i \in DOMAIN b |-> HashIn(b, external, ComponentOf(b, i), f, i)]
<1>2. ASSUME NEW i \in DOMAIN b PROVE g[i] = f[i]
  <2>1. Below(b, i) < Len(b) + 1
    <3>1. Below(b, i) \in 1 .. Len(b) /\ Len(b) \in Nat
      BY SizeNatural DEF IsBatch
    <3>2. QED
      BY <3>1
  <2>2. QED
    BY <1>1, <2>1 DEF RightBelow
<1>3. ASSUME NEW i \in DOMAIN b
      PROVE  HashIn(b, external, ComponentOf(b, i), f, i) = HashIn(b, external, ComponentOf(b, i), g, i)
  <2> HIDE DEF g
  <2>1. QED
    BY <1>2, HashInLocal
<1>4. Right(g)
  BY <1>3 DEF ComponentOf
<1>5. Right(dag)
  <2> HIDE DEF Right, g
  <2>1. QED
    BY <1>4
<1>6. DagHashes(b, external) = [i \in DOMAIN b |-> dag[i]]
  BY DEF DagHashes
<1>7. DagHashes(b, external) = dag
  <2> HIDE DEF dag
  <2>1. dag = [i \in DOMAIN b |-> HashIn(b, external, comp[i], dag, i)]
    BY <1>5
  <2>2. QED
    BY <1>6, <2>1
<1>8. QED
  <2> HIDE DEF dag
  <2>1. dag = [i \in DOMAIN b |-> HashIn(b, external, comp[i], dag, i)]
    BY <1>5
  <2>2. QED
    BY <1>7, <2>1 DEF ComponentOf

\* Dag hashes are a function of the positions.
LEMMA HashesFunction ==
    ASSUME NEW b, NEW external
    PROVE  DagHashes(b, external) = [i \in DOMAIN b |-> DagHashes(b, external)[i]]
<1> DEFINE dag == CHOOSE f : f = [i \in DOMAIN b |-> HashIn(b, external,
                      [j \in DOMAIN b |-> Component(CallGraph(b), j)][i], f, i)]
<1>1. DagHashes(b, external) = [i \in DOMAIN b |-> dag[i]]
  BY DEF DagHashes
<1> HIDE DEF dag
<1>2. QED
  BY <1>1

\* So they are equal when each of them is.
LEMMA SameHashes ==
    ASSUME NEW b, NEW before, NEW c, NEW after, DOMAIN c = DOMAIN b,
           \A i \in DOMAIN b : DagHashes(c, after)[i] = DagHashes(b, before)[i]
    PROVE  DagHashes(c, after) = DagHashes(b, before)
<1> DEFINE f == DagHashes(b, before)
           g == DagHashes(c, after)
<1>1. /\ f = [i \in DOMAIN b |-> f[i]]
      /\ g = [i \in DOMAIN b |-> g[i]]
  BY HashesFunction
<1> HIDE DEF f, g
<1>2. (\A i \in DOMAIN b : g[i] = f[i]) => g = f
  BY <1>1
<1>3. QED
  BY <1>2 DEF f, g

\* A module's hashes depend on the lockfile only in what it has for the names
\* the module imports.
THEOREM DagHashesExternal ==
    ASSUME NEW b, IsBatch(b), NEW before, NEW after,
           \A i \in DOMAIN b : \A n \in Range(b[i].refs) \ LocalNames(b) :
               ExternalHash(before, n) = ExternalHash(after, n)
    PROVE  DagHashes(b, before) = DagHashes(b, after)
<1> DEFINE comp == [i \in DOMAIN b |-> Component(CallGraph(b), i)]
           Body(external, f) == [i \in DOMAIN b |-> HashIn(b, external, comp[i], f, i)]
<1>1. ASSUME NEW f, NEW i \in DOMAIN b
      PROVE  HashIn(b, before, comp[i], f, i) = HashIn(b, after, comp[i], f, i)
  <2> DEFINE own == comp[i]
  <2>1. ASSUME NEW m \in own
        PROVE  ReferenceHashes(b, before, own, f, m) = ReferenceHashes(b, after, own, f, m)
    <3>1. m \in DOMAIN b
      BY ComponentPositions DEF ComponentOf
    <3>2. ASSUME NEW k \in DOMAIN b[m].refs
          PROVE  ReferenceHash(b, before, own, f, b[m].refs[k]) =
                 ReferenceHash(b, after, own, f, b[m].refs[k])
      <4>1. b[m].refs[k] \notin LocalNames(b) =>
                ExternalHash(before, b[m].refs[k]) = ExternalHash(after, b[m].refs[k])
        BY <3>1 DEF Range
      <4> HIDE DEF own
      <4>2. QED
        BY <4>1 DEF ReferenceHash
    <3> HIDE DEF own
    <3>3. QED
      BY <3>2 DEF ReferenceHashes
  <2>2. \A p \in 1 .. Cardinality(own) : MemberAt(own, p) \in own
    <3>1. Len(b) \in Nat /\ own \in SUBSET (1 .. Len(b))
      BY ComponentPositions DEF ComponentOf
    <3> HIDE DEF own
    <3>2. QED
      BY <3>1, MembersAt
  <2> HIDE DEF own
  <2>3. ComponentContents(b, before, own, f) = ComponentContents(b, after, own, f)
    BY <2>1, <2>2 DEF ComponentContents
  <2>4. QED
    BY <2>3 DEF HashIn, own
<1>2. \A f : Body(before, f) = Body(after, f)
  <2> HIDE DEF comp
  <2>1. QED
    BY <1>1
<1>3. (CHOOSE f : f = Body(before, f)) = (CHOOSE f : f = Body(after, f))
  <2> HIDE DEF Body
  <2>1. QED
    BY <1>2
<1> DEFINE Chosen(external) == CHOOSE f : f = Body(external, f)
<1>4. /\ DagHashes(b, before) = [i \in DOMAIN b |-> Chosen(before)[i]]
      /\ DagHashes(b, after) = [i \in DOMAIN b |-> Chosen(after)[i]]
  BY DEF DagHashes
<1>5. Chosen(before) = Chosen(after)
  <2> HIDE DEF Body
  <2>1. QED
    BY <1>3
<1> HIDE DEF Chosen
<1>6. QED
  BY <1>4, <1>5

-----------------------------------------------------------------------------
(***************************************************************************)
(* What a dag hash commits to.                                             *)
(***************************************************************************)

\* The contents a definition's hash is computed from.
ContentsOf(b, external, i) ==
    ComponentContents(b, external, ComponentOf(b, i), DagHashes(b, external))

\* A hash is a component and a position in it, and the members of a component
\* share the component.
LEMMA HashParts ==
    ASSUME NEW b, IsBatch(b), NEW external, NEW i \in DOMAIN b,
           NEW m \in ComponentOf(b, i)
    PROVE  /\ m \in DOMAIN b
           /\ DagHashes(b, external)[m] =
                 MemberHash(ComponentHash(ContentsOf(b, external, i)),
                            PositionIn(ComponentOf(b, i), m))
<1> DEFINE dag == DagHashes(b, external)
<1>1. m \in DOMAIN b
  BY ComponentPositions
<1>2. ComponentOf(b, m) = ComponentOf(b, i)
  BY CallGraphEdges, ComponentShared DEF ComponentOf
<1>3. dag[m] = HashIn(b, external, ComponentOf(b, m), dag, m)
  BY <1>1, DagHashesDefined
<1> HIDE DEF dag
<1>4. QED
  BY <1>1, <1>2, <1>3 DEF HashIn, ContentsOf, dag

\* The same, taken apart.
LEMMA HashProjections ==
    ASSUME NEW b, IsBatch(b), NEW external, NEW i \in DOMAIN b,
           NEW m \in ComponentOf(b, i)
    PROVE  LET h == DagHashes(b, external)[m]
           IN  /\ h[1] = "member"
               /\ h[2] = ComponentHash(ContentsOf(b, external, i))
               /\ h[2][2] = ContentsOf(b, external, i)
               /\ h[3] = PositionIn(ComponentOf(b, i), m)
               /\ h = MemberHash(h[2], h[3])
<1> DEFINE h == DagHashes(b, external)[m]
           c == ContentsOf(b, external, i)
           p == PositionIn(ComponentOf(b, i), m)
<1>1. h = MemberHash(ComponentHash(c), p)
  BY HashParts
<1> HIDE DEF h, c, p
<1>2. /\ h[1] = "member" /\ h[2] = ComponentHash(c) /\ h[3] = p
      /\ ComponentHash(c)[2] = c
  BY <1>1 DEF MemberHash, ComponentHash
<1>3. QED
  BY <1>1, <1>2 DEF h, c, p

\* At the position of a member, the contents are its definition with the
\* hashes its references have while the component is hashed.
LEMMA ContentsAt ==
    ASSUME NEW b, IsBatch(b), NEW external, NEW i \in DOMAIN b
    PROVE  LET dag == DagHashes(b, external)
               comp == ComponentOf(b, i)
               Content(m) == ContentHash(Substituted(b[m],
                                 ReferenceHashes(b, external, comp, dag, m)))
           IN  /\ DOMAIN ContentsOf(b, external, i) = 1 .. Cardinality(comp)
               /\ \A p \in 1 .. Cardinality(comp) :
                     /\ MemberAt(comp, p) \in comp
                     /\ ContentsOf(b, external, i)[p] = Content(MemberAt(comp, p))
               /\ \A m \in comp :
                     /\ PositionIn(comp, m) \in 1 .. Cardinality(comp)
                     /\ ContentsOf(b, external, i)[PositionIn(comp, m)] = Content(m)
<1> DEFINE dag == DagHashes(b, external)
           comp == ComponentOf(b, i)
           Content(m) == ContentHash(Substituted(b[m],
                             ReferenceHashes(b, external, comp, dag, m)))
<1>1. Len(b) \in Nat /\ comp \in SUBSET (1 .. Len(b))
  BY ComponentPositions
<1> HIDE DEF comp
<1>2. \A p \in 1 .. Cardinality(comp) : MemberAt(comp, p) \in comp
  BY <1>1, MembersAt
<1>3. \A m \in comp : /\ PositionIn(comp, m) \in 1 .. Cardinality(comp)
                      /\ MemberAt(comp, PositionIn(comp, m)) = m
  BY <1>1, MembersAt, PositionsCount
<1>4. ContentsOf(b, external, i) =
          [p \in 1 .. Cardinality(comp) |-> Content(MemberAt(comp, p))]
  BY DEF ContentsOf, ComponentContents, comp
<1> HIDE DEF Content, dag
<1>5. /\ DOMAIN ContentsOf(b, external, i) = 1 .. Cardinality(comp)
      /\ \A p \in 1 .. Cardinality(comp) :
            ContentsOf(b, external, i)[p] = Content(MemberAt(comp, p))
  BY <1>4
<1>6. \A m \in comp : ContentsOf(b, external, i)[PositionIn(comp, m)] = Content(m)
  BY <1>3, <1>5
<1>7. QED
  BY <1>2, <1>3, <1>5, <1>6 DEF Content, dag, comp

-----------------------------------------------------------------------------
(***************************************************************************)
(* Definitions that hash alike, in two batches.                            *)
(***************************************************************************)

\* They say the same but for what they refer to.
SameShape(d, e) ==
    /\ d.kind = e.kind /\ d.tag = e.tag /\ d.row = e.row
    /\ DOMAIN d.refs = DOMAIN e.refs

\* Two names are of counterparts, or both are taken from outside as the same
\* hash, or one from outside as the hash of the other, a definition in another
\* component than the one of c at place i that refers to it.
SameReference(b, before, c, after, S, s, i, m, n) ==
    \/ /\ m \in LocalNames(b) /\ n \in LocalNames(c)
       /\ IndexOf(b, m) \in S
       /\ s[IndexOf(b, m)] = IndexOf(c, n)
    \/ /\ m \notin LocalNames(b) /\ n \notin LocalNames(c)
       /\ ExternalHash(before, m) = ExternalHash(after, n)
    \/ /\ m \notin LocalNames(b) /\ n \in LocalNames(c)
       /\ IndexOf(c, n) \notin ComponentOf(c, i)
       /\ ExternalHash(before, m) = DagHashes(c, after)[IndexOf(c, n)]

\* Each of the definitions S of b has a counterpart in c, found by s, that
\* says the same and refers to the counterparts or to the same hashes; and the
\* members of a cycle come in the same order.
Corresponds(b, before, c, after, S, s) ==
    /\ S \subseteq DOMAIN b
    /\ s \in [S -> DOMAIN c]
    /\ \A i, j \in S : s[i] = s[j] => i = j
    /\ \A i \in S : SameShape(b[i], c[s[i]])
    /\ \A i \in S : \A k \in DOMAIN b[i].refs :
          SameReference(b, before, c, after, S, s, s[i], b[i].refs[k], c[s[i]].refs[k])
    /\ \A i \in S : \A j \in ComponentOf(b, i) : j <= i <=> s[j] <= s[i]

\* An edge is a reference to a name of the module.
LEMMA EdgeOf ==
    ASSUME NEW b, NEW i \in DOMAIN b, NEW x
    PROVE  x \in CallGraph(b)[i] <=>
               \E k \in DOMAIN b[i].refs : /\ b[i].refs[k] \in LocalNames(b)
                                           /\ x = IndexOf(b, b[i].refs[k])
<1>1. CallGraph(b)[i] = {IndexOf(b, n) : n \in Range(b[i].refs) \cap LocalNames(b)}
  BY DEF CallGraph
<1>2. \A n : n \in Range(b[i].refs) <=> \E k \in DOMAIN b[i].refs : n = b[i].refs[k]
  BY DEF Range
<1>3. QED
  BY <1>1, <1>2

\* Counterparts form the same components.
LEMMA CorrespondingComponents ==
    ASSUME NEW b, IsBatch(b), NEW c, IsBatch(c), NEW before, NEW after,
           NEW S, NEW s, Corresponds(b, before, c, after, S, s),
           NEW i \in S
    PROVE  /\ ComponentOf(b, i) \subseteq S
           /\ ComponentOf(c, s[i]) = {s[m] : m \in ComponentOf(b, i)}
           /\ Cardinality(ComponentOf(c, s[i])) = Cardinality(ComponentOf(b, i))
           /\ \A m \in ComponentOf(b, i) :
                 PositionIn(ComponentOf(c, s[i]), s[m]) = PositionIn(ComponentOf(b, i), m)
<1> DEFINE small == CallGraph(b)
           large == CallGraph(c)
           comp == ComponentOf(b, i)
<1>1. /\ S \subseteq DOMAIN b /\ s \in [S -> DOMAIN c]
      /\ \A m, n \in S : s[m] = s[n] => m = n
  BY DEF Corresponds
<1>2. ASSUME NEW m \in S
      PROVE  /\ small[m] \subseteq S
             /\ {s[k] : k \in small[m]} \subseteq large[s[m]]
             /\ large[s[m]] \cap Component(large, s[m]) \subseteq {s[k] : k \in small[m]}
  <2> DEFINE R == b[m].refs
             Q == c[s[m]].refs
  <2>1. DOMAIN R = DOMAIN Q
    BY DEF Corresponds, SameShape
  <2>2. \A k \in DOMAIN R : SameReference(b, before, c, after, S, s, s[m], R[k], Q[k])
    BY DEF Corresponds
  <2>3. \A k \in DOMAIN R :
            /\ R[k] \in LocalNames(b) => /\ Q[k] \in LocalNames(c)
                                         /\ IndexOf(b, R[k]) \in S
                                         /\ s[IndexOf(b, R[k])] = IndexOf(c, Q[k])
            /\ Q[k] \in LocalNames(c) /\ IndexOf(c, Q[k]) \in ComponentOf(c, s[m]) =>
                  R[k] \in LocalNames(b)
    BY <2>2 DEF SameReference
  <2>4. \A x : x \in small[m] <=>
            \E k \in DOMAIN R : R[k] \in LocalNames(b) /\ x = IndexOf(b, R[k])
    BY <1>1, EdgeOf
  <2>5. \A x : x \in large[s[m]] <=>
            \E k \in DOMAIN Q : Q[k] \in LocalNames(c) /\ x = IndexOf(c, Q[k])
    BY <1>1, EdgeOf
  <2> DEFINE C == ComponentOf(c, s[m])
  <2>6. C = Component(large, s[m])
    BY DEF ComponentOf
  <2> HIDE DEF R, Q, small, large, C
  <2>7. small[m] \subseteq S
    BY <2>3, <2>4
  <2>8. \A k \in small[m] : s[k] \in large[s[m]]
    BY <2>1, <2>3, <2>4, <2>5
  <2>9. \A x \in large[s[m]] : x \in C => \E k \in small[m] : x = s[k]
    BY <2>1, <2>3, <2>4, <2>5 DEF C
  <2>10. QED
    BY <2>6, <2>7, <2>8, <2>9
<1>3. LaidInto(small, large, S, s)
  BY <1>1, <1>2, CallGraphEdges DEF LaidInto
<1>4. /\ comp \subseteq S
      /\ ComponentOf(c, s[i]) = {s[m] : m \in comp}
  BY <1>1, <1>3, ComponentImage DEF ComponentOf
<1>5. Len(b) \in Nat /\ comp \in SUBSET (1 .. Len(b))
  BY <1>1, ComponentPositions
<1>6. ASSUME NEW m \in comp, NEW n \in comp
      PROVE  n <= m <=> s[n] <= s[m]
  <2>1. i \in DOMAIN small
    BY <1>1, CallGraphEdges
  <2>2. ComponentOf(b, m) = comp
    BY <2>1, ComponentShared DEF ComponentOf
  <2>3. QED
    BY <1>4, <2>2 DEF Corresponds
<1>7. \A m, n \in comp : s[m] = s[n] => m = n
  BY <1>1, <1>4
<1> HIDE DEF comp
<1>8. LET image == {s[m] : m \in comp}
      IN  /\ Cardinality(image) = Cardinality(comp)
          /\ \A m \in comp : PositionIn(image, s[m]) = PositionIn(comp, m)
  BY <1>5, <1>6, <1>7, PositionsImage
<1>9. QED
  BY <1>4, <1>8 DEF comp

\* The hash of a definition is that of its counterpart: names, the order of
\* definitions outside a cycle, and whatever it does not reach are no part of
\* it.
THEOREM HashesCorrespond ==
    ASSUME NEW b, IsBatch(b), NEW c, IsBatch(c), NEW before, NEW after,
           NEW S, NEW s, Corresponds(b, before, c, after, S, s)
    PROVE  \A i \in S : DagHashes(c, after)[s[i]] = DagHashes(b, before)[i]
<1> DEFINE dag == DagHashes(b, before)
           new == DagHashes(c, after)
           wrong == {i \in S : new[s[i]] # dag[i]}
           counts == {Below(b, i) : i \in wrong}
<1>1. SUFFICES ASSUME wrong # {} PROVE FALSE
  OBVIOUS
<1>2. /\ S \subseteq DOMAIN b /\ s \in [S -> DOMAIN c]
      /\ \A m, n \in S : s[m] = s[n] => m = n
  BY DEF Corresponds
<1>3. \A i \in S : Below(b, i) \in Nat
  <2>1. \A i \in DOMAIN b : Below(b, i) \in 1 .. Len(b)
    BY SizeNatural
  <2>2. QED
    BY <1>2, <2>1 DEF IsBatch
<1>4. PICK i \in wrong : \A j \in wrong : Below(b, i) <= Below(b, j)
  <2>1. counts \in SUBSET Nat /\ counts # {}
    BY <1>1, <1>3
  <2>2. \E x \in counts : \A y \in counts : x <= y
    <3> HIDE DEF counts
    <3>1. QED
      BY <2>1, LeastExists
  <2>3. QED
    BY <2>2
<1>5. i \in S /\ new[s[i]] # dag[i]
  OBVIOUS
<1>6. ASSUME NEW j \in S, Below(b, j) < Below(b, i)
      PROVE  new[s[j]] = dag[j]
  BY <1>3, <1>4, <1>6
<1> DEFINE comp == ComponentOf(b, i)
           there == ComponentOf(c, s[i])
<1> HIDE DEF dag, new, wrong, counts
<1>7. /\ comp \subseteq S /\ i \in comp
      /\ there = {s[m] : m \in comp}
      /\ Cardinality(there) = Cardinality(comp)
      /\ \A m \in comp : PositionIn(there, s[m]) = PositionIn(comp, m)
  <2>1. i \in S
    BY <1>5
  <2>2. i \in comp
    BY <1>2, <2>1, ComponentPositions
  <2>3. /\ ComponentOf(b, i) \subseteq S
        /\ ComponentOf(c, s[i]) = {s[m] : m \in ComponentOf(b, i)}
        /\ Cardinality(ComponentOf(c, s[i])) = Cardinality(ComponentOf(b, i))
        /\ \A m \in ComponentOf(b, i) :
              PositionIn(ComponentOf(c, s[i]), s[m]) = PositionIn(ComponentOf(b, i), m)
    BY <2>1, CorrespondingComponents
  <2>4. QED
    BY <2>2, <2>3
<1>8. s[i] \in DOMAIN c
  BY <1>2, <1>5
<1>9. ASSUME NEW m \in comp
      PROVE  ContentHash(Substituted(c[s[m]], ReferenceHashes(c, after, there, new, s[m])))
           = ContentHash(Substituted(b[m], ReferenceHashes(b, before, comp, dag, m)))
  <2> DEFINE R == b[m].refs
             Q == c[s[m]].refs
  <2>1. m \in S /\ m \in DOMAIN b
    BY <1>2, <1>7
  <2>2. SameShape(b[m], c[s[m]])
    BY <2>1 DEF Corresponds
  <2>3. ASSUME NEW k \in DOMAIN R
        PROVE  ReferenceHash(c, after, there, new, Q[k]) =
               ReferenceHash(b, before, comp, dag, R[k])
    <3>1. SameReference(b, before, c, after, S, s, s[m], R[k], Q[k])
      BY <2>1, <2>3 DEF Corresponds
    <3>2. CASE /\ R[k] \notin LocalNames(b) /\ Q[k] \notin LocalNames(c)
               /\ ExternalHash(before, R[k]) = ExternalHash(after, Q[k])
      BY <3>2 DEF ReferenceHash
    <3>3. CASE /\ R[k] \in LocalNames(b) /\ Q[k] \in LocalNames(c)
               /\ IndexOf(b, R[k]) \in S
               /\ s[IndexOf(b, R[k])] = IndexOf(c, Q[k])
      <4> DEFINE j == IndexOf(b, R[k])
      <4>1. j \in S /\ s[j] = IndexOf(c, Q[k])
        BY <3>3
      <4>2. /\ ReferenceHash(b, before, comp, dag, R[k]) =
                   (IF j \in comp THEN RecHash(PositionIn(comp, j)) ELSE dag[j])
            /\ ReferenceHash(c, after, there, new, Q[k]) =
                   (IF s[j] \in there THEN RecHash(PositionIn(there, s[j])) ELSE new[s[j]])
        BY <3>3 DEF ReferenceHash
      <4>3. j \in comp <=> s[j] \in there
        BY <1>2, <1>7, <4>1
      <4>4. CASE j \in comp
        BY <1>7, <4>2, <4>3, <4>4
      <4>5. CASE j \notin comp
        <5>1. R[k] \in Range(b[m].refs) \cap LocalNames(b)
          BY <2>3, <3>3 DEF Range
        <5>2. Below(b, j) < Below(b, i)
          BY <1>2, <1>5, <4>5, <5>1, ReferencesBelow DEF comp
        <5>3. new[s[j]] = dag[j]
          BY <1>6, <4>1, <5>2
        <5>4. QED
          BY <4>2, <4>3, <4>5, <5>3
      <4>6. QED
        BY <4>4, <4>5
    <3>4. CASE /\ R[k] \notin LocalNames(b) /\ Q[k] \in LocalNames(c)
               /\ IndexOf(c, Q[k]) \notin ComponentOf(c, s[m])
               /\ ExternalHash(before, R[k]) = new[IndexOf(c, Q[k])]
      <4>1. ComponentOf(c, s[m]) = there
        <5>1. s[m] \in Component(CallGraph(c), s[i]) /\ s[i] \in DOMAIN CallGraph(c)
          BY <1>7, <1>8, CallGraphEdges DEF there, ComponentOf
        <5>2. QED
          BY <5>1, ComponentShared DEF there, ComponentOf
      <4>2. QED
        BY <3>4, <4>1 DEF ReferenceHash
    <3>5. QED
      BY <3>1, <3>2, <3>3, <3>4 DEF SameReference, new
  <2>4. ReferenceHashes(c, after, there, new, s[m]) = ReferenceHashes(b, before, comp, dag, m)
    BY <2>2, <2>3 DEF ReferenceHashes, SameShape
  <2>5. QED
    BY <2>2, <2>4 DEF Substituted, SameShape
<1>10. ContentsOf(c, after, s[i]) = ContentsOf(b, before, i)
  <2>1. /\ Len(b) \in Nat /\ comp \in SUBSET (1 .. Len(b))
        /\ Len(c) \in Nat /\ there \in SUBSET (1 .. Len(c))
    BY <1>2, <1>5, <1>8, ComponentPositions DEF comp, there
  <2>2. ASSUME NEW p \in 1 .. Cardinality(comp)
        PROVE  MemberAt(comp, p) \in comp /\ MemberAt(there, p) = s[MemberAt(comp, p)]
    <3> DEFINE m == MemberAt(comp, p)
    <3> HIDE DEF comp, there
    <3>1. m \in comp /\ PositionIn(comp, m) = p
      BY <2>1, MembersAt
    <3>2. s[m] \in there /\ PositionIn(there, s[m]) = p
      BY <1>7, <3>1
    <3>3. MemberAt(there, PositionIn(there, s[m])) = s[m]
      BY <2>1, <3>2, MembersAt
    <3>4. QED
      BY <3>1, <3>2, <3>3
  <2>3. \A p \in 1 .. Cardinality(comp) :
            ContentHash(Substituted(c[MemberAt(there, p)],
                ReferenceHashes(c, after, there, new, MemberAt(there, p))))
          = ContentHash(Substituted(b[MemberAt(comp, p)],
                ReferenceHashes(b, before, comp, dag, MemberAt(comp, p))))
    BY <1>9, <2>2
  <2>4. ComponentContents(c, after, there, new) = ComponentContents(b, before, comp, dag)
    BY <1>7, <2>3 DEF ComponentContents
  <2>5. QED
    BY <2>4 DEF ContentsOf, comp, there, dag, new
<1>11. /\ new[s[i]] = MemberHash(ComponentHash(ContentsOf(c, after, s[i])),
                                 PositionIn(there, s[i]))
       /\ dag[i] = MemberHash(ComponentHash(ContentsOf(b, before, i)), PositionIn(comp, i))
  <2>1. i \in DOMAIN b /\ s[i] \in DOMAIN c /\ i \in comp /\ s[i] \in there
    BY <1>2, <1>7, <1>8
  <2>2. QED
    BY <2>1, HashParts DEF comp, there, dag, new
<1>12. QED
  BY <1>5, <1>7, <1>10, <1>11

-----------------------------------------------------------------------------
(***************************************************************************)
(* What a hash mentions, and the definition it determines.                 *)
(***************************************************************************)

\* The hashes of other definitions that a component's contents mention.
Mentioned(comp) ==
    {r \in UNION {Range(comp[2][p][2].refs) : p \in DOMAIN comp[2]} : r[1] = "member"}

\* A component mentions hashes from the lockfile, and hashes of definitions
\* that reach fewer definitions than its own.
LEMMA MentionedBelow ==
    ASSUME NEW b, IsBatch(b), NEW external, NEW i \in DOMAIN b,
           NEW r \in Mentioned(DagHashes(b, external)[i][2])
    PROVE  \/ r \in Range(external)
           \/ \E k \in DOMAIN b : /\ r = DagHashes(b, external)[k]
                                 /\ Below(b, k) < Below(b, i)
<1> DEFINE dag == DagHashes(b, external)
           comp == ComponentOf(b, i)
           contents == ContentsOf(b, external, i)
<1>1. dag[i][2][2] = contents
  BY ComponentPositions, HashProjections
<1>2. PICK p \in DOMAIN contents : r \in Range(contents[p][2].refs)
  BY <1>1 DEF Mentioned
<1>3. r[1] = "member"
  BY DEF Mentioned
<1>4. PICK m \in comp :
          contents[p] = ContentHash(Substituted(b[m],
                            ReferenceHashes(b, external, comp, dag, m)))
  <2>1. p \in 1 .. Cardinality(comp)
    BY <1>2, ContentsAt
  <2>2. /\ MemberAt(comp, p) \in comp
        /\ contents[p] = ContentHash(Substituted(b[MemberAt(comp, p)],
                             ReferenceHashes(b, external, comp, dag, MemberAt(comp, p))))
    BY <2>1, ContentsAt
  <2> HIDE DEF contents, comp, dag
  <2>3. QED
    BY <2>2
<1>5. contents[p][2].refs = ReferenceHashes(b, external, comp, dag, m)
  <2> DEFINE hs == ReferenceHashes(b, external, comp, dag, m)
  <2> HIDE DEF hs, contents
  <2>1. QED
    BY <1>4 DEF ContentHash, Substituted, hs
<1>6. PICK k \in DOMAIN b[m].refs :
          r = ReferenceHash(b, external, comp, dag, b[m].refs[k])
  BY <1>2, <1>5 DEF Range, ReferenceHashes
<1> DEFINE n == b[m].refs[k]
<1>7. n \in Range(b[m].refs)
  BY DEF Range
<1>8. CASE n \in LocalNames(b)
  <2>1. CASE IndexOf(b, n) \in comp
    <3>1. r = RecHash(PositionIn(comp, IndexOf(b, n)))
      BY <1>6, <1>8, <2>1 DEF ReferenceHash
    <3>2. r[1] = "rec"
      BY <3>1 DEF RecHash
    <3>3. QED
      BY <1>3, <3>2
  <2>2. CASE IndexOf(b, n) \notin comp
    <3>1. r = dag[IndexOf(b, n)]
      BY <1>6, <1>8, <2>2 DEF ReferenceHash
    <3>2. QED
      BY <3>1, <1>7, <1>8, <2>2, ReferencesBelow
  <2>3. QED
    BY <2>1, <2>2
<1>9. CASE n \notin LocalNames(b)
  <2>1. r = ExternalHash(external, n)
    BY <1>6, <1>9 DEF ReferenceHash
  <2>2. n \in DOMAIN external
    <3>1. SymbolHash(n)[1] = "sym"
      BY DEF SymbolHash
    <3>2. QED
      BY <2>1, <3>1, <1>3 DEF ExternalHash
  <2>3. QED
    BY <2>1, <2>2 DEF ExternalHash, Range
<1>10. QED
  BY <1>8, <1>9

\* A numbering of components in which every component mentions only lower
\* ones, with all those that hashes belong to.  It stands for the finite
\* depth of a hash: a component is never mentioned by its own contents.
Ranking(rank, bound, hashes) ==
    /\ bound \in Nat
    /\ \A c \in DOMAIN rank :
          /\ rank[c] \in 0 .. bound
          /\ \A r \in Mentioned(c) : r[2] \in DOMAIN rank /\ rank[r[2]] < rank[c]
    /\ \A h \in hashes : h[2] \in DOMAIN rank

Ranked(hashes) == \E rank, bound : Ranking(rank, bound, hashes)

\* Where every hash of the lockfile has a rank, the hashes of a module do.
LEMMA RankingExtends ==
    ASSUME NEW b, IsBatch(b), NEW external, NEW hashes,
           Ranked(hashes), Range(external) \subseteq hashes
    PROVE  Ranked(hashes \cup Range(DagHashes(b, external)))
<1> DEFINE dag == DagHashes(b, external)
           new == {dag[i][2] : i \in DOMAIN b}
           Found(c) == {Below(b, i) : i \in {k \in DOMAIN b : dag[k][2] = c}}
           least(c) == CHOOSE s \in Found(c) : \A t \in Found(c) : s <= t
<1>1. PICK rank, bound : Ranking(rank, bound, hashes)
  BY DEF Ranked
<1> DEFINE wide == [c \in DOMAIN rank \cup new |->
                       IF c \in DOMAIN rank THEN rank[c] ELSE bound + least(c)]
<1>2. bound \in Nat /\ Len(b) \in Nat /\ DOMAIN b = 1 .. Len(b)
  BY <1>1 DEF Ranking, IsBatch
<1>3. \A i \in DOMAIN b : Below(b, i) \in 1 .. Len(b)
  BY SizeNatural
<1>4. ASSUME NEW c \in new
      PROVE  /\ least(c) \in 1 .. Len(b)
             /\ \E i \in DOMAIN b : dag[i][2] = c /\ Below(b, i) = least(c)
             /\ \A i \in DOMAIN b : dag[i][2] = c => least(c) <= Below(b, i)
  <2>1. Found(c) \in SUBSET Nat /\ Found(c) # {}
    BY <1>2, <1>3
  <2>2. \E s \in Found(c) : \A t \in Found(c) : s <= t
    <3> HIDE DEF Found
    <3>1. QED
      BY <2>1, LeastExists
  <2>3. least(c) \in Found(c) /\ \A t \in Found(c) : least(c) <= t
    <3> HIDE DEF Found
    <3>1. QED
      BY <2>2
  <2> HIDE DEF least, dag
  <2>4. QED
    BY <2>3, <1>3
<1>5. \A c \in DOMAIN rank : wide[c] = rank[c]
  OBVIOUS
<1>6. \A c \in new \ DOMAIN rank : wide[c] = bound + least(c)
  OBVIOUS
<1>7. DOMAIN wide = DOMAIN rank \cup new
  OBVIOUS
<1> HIDE DEF wide, least, Found
<1>8. \A c \in DOMAIN rank : /\ rank[c] \in 0 .. bound
                            /\ \A r \in Mentioned(c) : r[2] \in DOMAIN rank
                                                         /\ rank[r[2]] < rank[c]
  BY <1>1 DEF Ranking
<1>9. ASSUME NEW c \in DOMAIN wide
      PROVE  wide[c] \in 0 .. bound + Len(b)
  <2>1. CASE c \in DOMAIN rank
    <3>1. rank[c] \in 0 .. bound
      BY <1>8, <2>1
    <3>2. QED
      BY <1>2, <1>5, <2>1, <3>1
  <2>2. CASE c \notin DOMAIN rank
    <3>1. least(c) \in 1 .. Len(b) /\ wide[c] = bound + least(c)
      BY <1>4, <1>6, <1>7, <2>2
    <3>2. QED
      BY <1>2, <3>1
  <2>3. QED
    BY <2>1, <2>2
<1>10. ASSUME NEW c \in DOMAIN wide, NEW r \in Mentioned(c)
       PROVE  r[2] \in DOMAIN wide /\ wide[r[2]] < wide[c]
  <2>1. CASE c \in DOMAIN rank
    BY <1>5, <1>7, <1>8, <2>1
  <2>2. CASE c \notin DOMAIN rank
    <3>1. c \in new /\ wide[c] = bound + least(c)
      BY <1>6, <1>7, <2>2
    <3>2. PICK i \in DOMAIN b : dag[i][2] = c /\ Below(b, i) = least(c)
      BY <1>4, <3>1
    <3>3. wide[c] = bound + Below(b, i) /\ Below(b, i) \in 1 .. Len(b)
      BY <1>3, <3>1, <3>2
    <3>4. CASE r[2] \in DOMAIN rank
      <4>1. rank[r[2]] \in 0 .. bound
        BY <1>8, <3>4
      <4>2. QED
        BY <1>2, <1>5, <1>7, <3>3, <3>4, <4>1
    <3>5. CASE r[2] \notin DOMAIN rank
      <4>1. r \notin Range(external)
        BY <1>1, <3>5 DEF Ranking
      <4>2. PICK k \in DOMAIN b : r = dag[k] /\ Below(b, k) < Below(b, i)
        BY <3>2, <4>1, MentionedBelow
      <4>3. r[2] \in new
        BY <4>2
      <4>4. least(r[2]) <= Below(b, k) /\ least(r[2]) \in 1 .. Len(b)
        BY <1>4, <4>2, <4>3
      <4>5. wide[r[2]] = bound + least(r[2])
        BY <1>6, <3>5, <4>3
      <4>6. Below(b, k) \in 1 .. Len(b)
        BY <1>3
      <4>7. wide[r[2]] < wide[c]
        BY <1>2, <3>3, <4>2, <4>4, <4>5, <4>6
      <4>8. QED
        BY <1>7, <4>3, <4>7
    <3>6. QED
      BY <3>4, <3>5
  <2>3. QED
    BY <2>1, <2>2
<1>11. ASSUME NEW h \in hashes \cup Range(dag)
       PROVE  h[2] \in DOMAIN wide
  <2>1. DOMAIN dag = DOMAIN b
    BY DagHashesDefined
  <2>2. h \in hashes => h[2] \in DOMAIN rank
    BY <1>1 DEF Ranking
  <2> HIDE DEF dag
  <2>3. h \in Range(dag) => \E i \in DOMAIN b : h = dag[i]
    BY <2>1 DEF Range
  <2>4. QED
    BY <2>2, <2>3, <1>7
<1>12. bound + Len(b) \in Nat
  BY <1>2
<1>13. Ranking(wide, bound + Len(b), hashes \cup Range(dag))
  BY <1>9, <1>10, <1>11, <1>12 DEF Ranking
<1>14. QED
  BY <1>13 DEF Ranked

-----------------------------------------------------------------------------
(***************************************************************************)
(* What is stored under a hash.                                            *)
(***************************************************************************)

\* A reference as it is hashed in the component of h.
AsHashed(h, r) ==
    IF r[1] = "member" /\ r[2] = h[2] THEN RecHash(r[3]) ELSE r

IsMember(h) == h = MemberHash(h[2], h[3])
IsReference(r) == r = SymbolHash(r[2]) \/ IsMember(r)

\* A resolved definition that is the one hash h was computed from.
GoodDef(h, def) ==
    /\ def = [kind |-> def.kind, tag |-> def.tag, refs |-> def.refs, row |-> def.row]
    /\ def.refs = [k \in DOMAIN def.refs |-> def.refs[k]]
    /\ \A k \in DOMAIN def.refs : IsReference(def.refs[k])
    /\ h[2][2][h[3]] =
          ContentHash([def EXCEPT !.refs =
              [k \in DOMAIN def.refs |-> AsHashed(h, def.refs[k])]])

EdgesOf(def) == {r \in Range(def.refs) : r[1] = "member"}

GoodBlob(h, blob) ==
    /\ blob = [name |-> blob.name, def |-> blob.def, ops |-> blob.ops,
               unsafe |-> blob.unsafe, deps |-> blob.deps,
               reviewed |-> blob.reviewed]
    /\ GoodDef(h, blob.def)
    /\ blob.deps = EdgesOf(blob.def)

GoodStore(st) == \A h \in DOMAIN st : IsMember(h) /\ GoodBlob(h, st[h])

\* What a symbol, a position and a member are told apart by.
LEMMA HashHeads ==
    /\ \A n : SymbolHash(n)[1] = "sym" /\ SymbolHash(n)[2] = n
    /\ \A p : RecHash(p)[1] = "rec" /\ RecHash(p)[2] = p
    /\ \A c, p : /\ MemberHash(c, p)[1] = "member"
                 /\ MemberHash(c, p)[2] = c /\ MemberHash(c, p)[3] = p
BY DEF SymbolHash, RecHash, MemberHash

\* Hashing a reference can be undone.
LEMMA AsHashedInjective ==
    ASSUME NEW h, NEW r, IsReference(r), NEW s, IsReference(s),
           AsHashed(h, r) = AsHashed(h, s)
    PROVE  r = s
<1>1. \A x : IsReference(x) => x[1] # "rec"
  BY HashHeads DEF IsReference, IsMember
<1>2. CASE r[1] = "member" /\ r[2] = h[2]
  <2>1. AsHashed(h, s) = RecHash(r[3])
    BY <1>2 DEF AsHashed
  <2>2. s[1] = "member" /\ s[2] = h[2]
    BY <1>1, <2>1, HashHeads DEF AsHashed
  <2>3. RecHash(r[3]) = RecHash(s[3])
    BY <2>1, <2>2 DEF AsHashed
  <2>4. r[3] = s[3]
    BY <2>3, HashHeads
  <2>5. r = MemberHash(r[2], r[3]) /\ s = MemberHash(s[2], s[3])
    BY <1>2, <2>2, HashHeads DEF IsReference, IsMember
  <2>6. QED
    BY <1>2, <2>2, <2>4, <2>5
<1>3. CASE ~ (r[1] = "member" /\ r[2] = h[2])
  <2>1. AsHashed(h, s) = r
    BY <1>3 DEF AsHashed
  <2>2. ~ (s[1] = "member" /\ s[2] = h[2])
    BY <1>1, <2>1, HashHeads DEF AsHashed
  <2>3. QED
    BY <2>1, <2>2 DEF AsHashed
<1>4. QED
  BY <1>2, <1>3

\* A hash determines the definition it was computed from.
THEOREM DefDetermined ==
    ASSUME NEW h, NEW d, GoodDef(h, d), NEW e, GoodDef(h, e)
    PROVE  d = e
<1> DEFINE hashed(x) == [k \in DOMAIN x.refs |-> AsHashed(h, x.refs[k])]
<1>1. /\ d = [kind |-> d.kind, tag |-> d.tag, refs |-> d.refs, row |-> d.row]
      /\ e = [kind |-> e.kind, tag |-> e.tag, refs |-> e.refs, row |-> e.row]
      /\ d.refs = [k \in DOMAIN d.refs |-> d.refs[k]]
      /\ e.refs = [k \in DOMAIN e.refs |-> e.refs[k]]
  BY DEF GoodDef
<1>2. /\ \A k \in DOMAIN d.refs : IsReference(d.refs[k])
      /\ \A k \in DOMAIN e.refs : IsReference(e.refs[k])
  BY DEF GoodDef
<1>3. [d EXCEPT !.refs = hashed(d)] = [e EXCEPT !.refs = hashed(e)]
  <2>1. ContentHash([d EXCEPT !.refs = hashed(d)]) = ContentHash([e EXCEPT !.refs = hashed(e)])
    BY DEF GoodDef
  <2>2. \A x : ContentHash(x)[2] = x
    BY DEF ContentHash
  <2> HIDE DEF hashed
  <2>3. QED
    BY <2>1, <2>2
<1>4. /\ [d EXCEPT !.refs = hashed(d)] =
            [kind |-> d.kind, tag |-> d.tag, refs |-> hashed(d), row |-> d.row]
      /\ [e EXCEPT !.refs = hashed(e)] =
            [kind |-> e.kind, tag |-> e.tag, refs |-> hashed(e), row |-> e.row]
  <2> HIDE DEF hashed
  <2>1. QED
    BY <1>1
<1>5. d.kind = e.kind /\ d.tag = e.tag /\ hashed(d) = hashed(e) /\ d.row = e.row
  <2> HIDE DEF hashed
  <2>1. QED
    BY <1>3, <1>4
<1>6. DOMAIN d.refs = DOMAIN e.refs
  <2>1. DOMAIN hashed(d) = DOMAIN d.refs /\ DOMAIN hashed(e) = DOMAIN e.refs
    OBVIOUS
  <2>2. QED
    BY <1>5, <2>1
<1>7. ASSUME NEW k \in DOMAIN d.refs PROVE d.refs[k] = e.refs[k]
  <2>1. AsHashed(h, d.refs[k]) = AsHashed(h, e.refs[k])
    <3>1. hashed(d)[k] = AsHashed(h, d.refs[k]) /\ hashed(e)[k] = AsHashed(h, e.refs[k])
      BY <1>6
    <3> HIDE DEF hashed
    <3>2. QED
      BY <1>5, <3>1
  <2>2. QED
    BY <1>2, <1>6, <2>1, AsHashedInjective
<1>8. d.refs = e.refs
  BY <1>1, <1>6, <1>7
<1>9. QED
  BY <1>1, <1>5, <1>8

\* A component mentions no hash of its own.
LEMMA NotOwnMention ==
    ASSUME NEW b, IsBatch(b), NEW external, Ranked(Range(external)),
           NEW i \in DOMAIN b,
           NEW r \in Mentioned(DagHashes(b, external)[i][2])
    PROVE  r[2] # DagHashes(b, external)[i][2]
<1> DEFINE dag == DagHashes(b, external)
           c == dag[i][2]
<1>1. PICK rank, bound : Ranking(rank, bound, Range(external) \cup Range(dag))
  BY RankingExtends DEF Ranked
<1>2. dag[i] \in Range(dag)
  BY DagHashesDefined DEF Range
<1> HIDE DEF dag
<1>3. c \in DOMAIN rank /\ bound \in Nat
  BY <1>1, <1>2 DEF Ranking
<1>4. rank[c] \in 0 .. bound /\ rank[r[2]] < rank[c]
  BY <1>1, <1>3 DEF Ranking, dag
<1>5. QED
  BY <1>3, <1>4 DEF dag

\* The reference to a name in a resolved definition is the one that was
\* hashed, but for positions in the component itself.
LEMMA FinalAsHashed ==
    ASSUME NEW b, IsBatch(b), NEW external, Ranked(Range(external)),
           \A h \in Range(external) : IsMember(h),
           NEW i \in DOMAIN b, NEW n \in Range(b[i].refs)
    PROVE  LET dag == DagHashes(b, external)
               final == FinalHash(b, dag, external, n)
           IN  /\ IsReference(final)
               /\ AsHashed(dag[i], final) =
                     ReferenceHash(b, external, ComponentOf(b, i), dag, n)
               /\ final[1] = "member" <=> n \in LocalNames(b) \cup DOMAIN external
<1> DEFINE dag == DagHashes(b, external)
           comp == ComponentOf(b, i)
           final == FinalHash(b, dag, external, n)
           ref == ReferenceHash(b, external, comp, dag, n)
           contents == ContentsOf(b, external, i)
<1>1. i \in comp
  BY ComponentPositions
<1>2. dag[i][2][2] = contents
  BY <1>1, HashProjections
<1>3. ref[1] = "member" => ref \in Mentioned(dag[i][2])
  <2> DEFINE hs == ReferenceHashes(b, external, comp, dag, i)
             p == PositionIn(comp, i)
  <2>1. p \in DOMAIN contents /\ contents[p] = ContentHash(Substituted(b[i], hs))
    <3>1. DOMAIN contents = 1 .. Cardinality(comp)
      BY ContentsAt
    <3>2. p \in 1 .. Cardinality(comp) /\ contents[p] = ContentHash(Substituted(b[i], hs))
      BY <1>1, ContentsAt
    <3>3. QED
      BY <3>1, <3>2
  <2>2. ref \in Range(hs)
    BY DEF ReferenceHashes, Range
  <2> HIDE DEF hs, p, contents, ref
  <2>3. contents[p][2].refs = hs
    BY <2>1 DEF ContentHash, Substituted
  <2> HIDE DEF dag
  <2>4. QED
    BY <1>2, <2>1, <2>2, <2>3 DEF Mentioned
<1>4. ref[1] = "member" => ref[2] # dag[i][2]
  BY <1>3, NotOwnMention
<1>5. CASE n \in LocalNames(b)
  <2> DEFINE k == IndexOf(b, n)
  <2>1. k \in DOMAIN b /\ final = dag[k]
    BY <1>5, IndexOfLocal DEF FinalHash
  <2>2. final[1] = "member" /\ IsMember(final)
    <3>1. k \in ComponentOf(b, k)
      BY <2>1, ComponentPositions
    <3> HIDE DEF k
    <3>2. dag[k][1] = "member" /\ dag[k] = MemberHash(dag[k][2], dag[k][3])
      BY <2>1, <3>1, HashProjections
    <3>3. QED
      BY <2>1, <3>2 DEF IsMember
  <2>3. CASE k \in comp
    <3>1. ref = RecHash(PositionIn(comp, k))
      BY <1>5, <2>3 DEF ReferenceHash
    <3>2. dag[k][2] = dag[i][2] /\ dag[k][3] = PositionIn(comp, k)
      BY <1>1, <2>3, HashProjections
    <3> HIDE DEF dag, comp, k, ref, final
    <3>3. AsHashed(dag[i], final) = ref
      BY <2>1, <2>2, <3>1, <3>2 DEF AsHashed
    <3>4. QED
      BY <1>5, <2>2, <3>3 DEF dag, comp, ref, final, IsReference
  <2>4. CASE k \notin comp
    <3>1. ref = final
      BY <1>5, <2>1, <2>4 DEF ReferenceHash
    <3> HIDE DEF dag, comp, k, ref, final
    <3>2. AsHashed(dag[i], final) = ref
      BY <1>4, <2>2, <3>1 DEF AsHashed
    <3>3. QED
      BY <1>5, <2>2, <3>2 DEF dag, comp, ref, final, IsReference
  <2>5. QED
    BY <2>3, <2>4
<1>6. CASE n \notin LocalNames(b)
  <2>1. ref = final /\ final = ExternalHash(external, n)
    BY <1>6 DEF ReferenceHash, FinalHash
  <2> HIDE DEF dag, ref, final
  <2>2. CASE n \in DOMAIN external
    <3>1. final \in Range(external)
      BY <2>1, <2>2 DEF ExternalHash, Range
    <3>2. IsMember(final) /\ final[1] = "member"
      BY <3>1, HashHeads DEF IsMember
    <3>3. AsHashed(dag[i], final) = ref
      BY <1>4, <2>1, <3>2 DEF AsHashed
    <3>4. QED
      BY <2>2, <3>2, <3>3 DEF dag, ref, final, IsReference
  <2>3. CASE n \notin DOMAIN external
    <3>1. final = SymbolHash(n)
      BY <2>1, <2>3 DEF ExternalHash
    <3>2. final[1] # "member" /\ IsReference(final)
      BY <3>1, HashHeads DEF IsReference
    <3>3. AsHashed(dag[i], final) = ref
      BY <2>1, <3>2 DEF AsHashed
    <3>4. QED
      BY <1>6, <2>3, <3>2, <3>3 DEF dag, ref, final
  <2>4. QED
    BY <2>2, <2>3
<1>7. QED
  BY <1>5, <1>6

\* What is stored for a definition is what its hash was computed from, with
\* the edges it mentions.
THEOREM ResolvedGood ==
    ASSUME NEW b, IsBatch(b), NEW external, Ranked(Range(external)),
           \A h \in Range(external) : IsMember(h),
           NEW i \in DOMAIN b
    PROVE  LET dag == DagHashes(b, external)
               def == ResolvedDef(b, dag, external, i)
           IN  /\ GoodDef(dag[i], def)
               /\ DepsOf(b, dag, external, i) = EdgesOf(def)
<1> DEFINE dag == DagHashes(b, external)
           comp == ComponentOf(b, i)
           F(n) == FinalHash(b, dag, external, n)
           hs == [k \in DOMAIN b[i].refs |-> F(b[i].refs[k])]
           def == ResolvedDef(b, dag, external, i)
<1>1. /\ def = [kind |-> b[i].kind, tag |-> b[i].tag, refs |-> hs,
               row |-> {SymbolHash(c) : c \in b[i].row}]
      /\ def.refs = hs
  BY DEF ResolvedDef, Substituted
<1>2. \A k \in DOMAIN b[i].refs :
          /\ IsReference(F(b[i].refs[k]))
          /\ AsHashed(dag[i], F(b[i].refs[k])) =
                ReferenceHash(b, external, comp, dag, b[i].refs[k])
  <2>1. \A k \in DOMAIN b[i].refs : b[i].refs[k] \in Range(b[i].refs)
    BY DEF Range
  <2>2. QED
    BY <2>1, FinalAsHashed
<1>3. [k \in DOMAIN hs |-> AsHashed(dag[i], hs[k])] =
          ReferenceHashes(b, external, comp, dag, i)
  <2> HIDE DEF F, dag, comp
  <2>1. QED
    BY <1>2 DEF ReferenceHashes
<1>4. dag[i][2][2][dag[i][3]] =
          ContentHash(Substituted(b[i], ReferenceHashes(b, external, comp, dag, i)))
  <2>1. i \in comp
    BY ComponentPositions
  <2>2. /\ dag[i][2][2] = ContentsOf(b, external, i)
        /\ dag[i][3] = PositionIn(comp, i)
    BY <2>1, HashProjections
  <2>3. ContentsOf(b, external, i)[PositionIn(comp, i)] =
            ContentHash(Substituted(b[i], ReferenceHashes(b, external, comp, dag, i)))
    BY <2>1, ContentsAt
  <2> HIDE DEF dag, comp
  <2>4. QED
    BY <2>2, <2>3
<1>5. GoodDef(dag[i], def)
  <2> DEFINE rs == ReferenceHashes(b, external, comp, dag, i)
  <2>1. [def EXCEPT !.refs = rs] = Substituted(b[i], rs)
    <3> HIDE DEF rs, hs, def, dag
    <3>1. QED
      BY <1>1 DEF Substituted
  <2>2. \A k \in DOMAIN def.refs : IsReference(def.refs[k])
    <3> HIDE DEF F, def
    <3>1. QED
      BY <1>1, <1>2
  <2>3. def.refs = [k \in DOMAIN def.refs |-> def.refs[k]]
    <3> HIDE DEF F, def
    <3>1. QED
      BY <1>1
  <2>4. [k \in DOMAIN def.refs |-> AsHashed(dag[i], def.refs[k])] = rs
    <3> HIDE DEF F, def, dag, rs
    <3>1. QED
      BY <1>1, <1>3 DEF rs
  <2>5. def = [kind |-> def.kind, tag |-> def.tag, refs |-> def.refs, row |-> def.row]
    <3> HIDE DEF hs, def
    <3>1. QED
      BY <1>1
  <2> HIDE DEF rs, def, dag
  <2>6. QED
    BY <1>4, <2>1, <2>2, <2>3, <2>4, <2>5 DEF GoodDef, rs
<1>6. DepsOf(b, dag, external, i) = EdgesOf(def)
  <2>1. \A n \in Range(b[i].refs) :
            F(n)[1] = "member" <=> n \in LocalNames(b) \cup DOMAIN external
    BY FinalAsHashed
  <2>2. Range(def.refs) = {F(n) : n \in Range(b[i].refs)}
    <3> HIDE DEF F, def
    <3>1. QED
      BY <1>1 DEF Range
  <2> HIDE DEF def, dag
  <2>3. QED
    BY <2>1, <2>2 DEF DepsOf, EdgesOf
<1>7. QED
  BY <1>5, <1>6

-----------------------------------------------------------------------------
(***************************************************************************)
(* Commits and collections.                                                *)
(***************************************************************************)

\* The edges of a new blob lead to the batch or to what the lockfile pins.
LEMMA DepsResolved ==
    ASSUME NEW b, IsBatch(b), NEW dag, DOMAIN dag = DOMAIN b,
           NEW external, NEW i \in DOMAIN b
    PROVE  DepsOf(b, dag, external, i) \subseteq Range(dag) \cup Range(external)
<1>1. ASSUME NEW n \in LocalNames(b)
      PROVE  FinalHash(b, dag, external, n) \in Range(dag)
  BY <1>1, IndexOfLocal DEF FinalHash, Range
<1>2. ASSUME NEW n \in DOMAIN external, n \notin LocalNames(b)
      PROVE  FinalHash(b, dag, external, n) \in Range(external)
  BY <1>2 DEF FinalHash, ExternalHash, Range
<1>3. QED
  BY <1>1, <1>2 DEF DepsOf

\* Fewer hashes are ranked when more are.
LEMMA RankedSubset ==
    ASSUME NEW hashes, Ranked(hashes), NEW some \in SUBSET hashes
    PROVE  Ranked(some)
BY DEF Ranked, Ranking

\* A table after insertions has old or new values only.
LEMMA InsertedValues ==
    ASSUME NEW map, NEW new
    PROVE  /\ DOMAIN Inserted(map, new) = DOMAIN map \cup DOMAIN new
           /\ \A n \in DOMAIN new : Inserted(map, new)[n] = new[n]
           /\ \A n \in DOMAIN map \ DOMAIN new : Inserted(map, new)[n] = map[n]
           /\ Range(Inserted(map, new)) \subseteq Range(map) \cup Range(new)
<1> DEFINE all == Inserted(map, new)
<1>1. /\ DOMAIN all = DOMAIN map \cup DOMAIN new
      /\ \A n \in DOMAIN map \cup DOMAIN new :
            all[n] = IF n \in DOMAIN new THEN new[n] ELSE map[n]
  BY DEF Inserted
<1> HIDE DEF all
<1>2. /\ \A n \in DOMAIN new : all[n] = new[n]
      /\ \A n \in DOMAIN map \ DOMAIN new : all[n] = map[n]
  BY <1>1
<1>3. Range(all) \subseteq Range(map) \cup Range(new)
  BY <1>1, <1>2 DEF Range
<1>4. QED
  BY <1>1, <1>2, <1>3 DEF all

\* A commit binds every name of its batch to what belongs to an entry of it.
LEMMA RebindingValues ==
    ASSUME NEW b, IsBatch(b), NEW values, DOMAIN values = DOMAIN b
    PROVE  /\ DOMAIN Rebinding(b, values) = LocalNames(b)
           /\ \A n \in LocalNames(b) :
                 /\ IndexOf(b, n) \in DOMAIN b
                 /\ Rebinding(b, values)[n] = values[IndexOf(b, n)]
           /\ Range(Rebinding(b, values)) \subseteq Range(values)
BY IndexOfLocal DEF Rebinding, Range

\* A blob after a commit, and the blob an entry of a batch is stored as.
GrownBlob(blob, sites) ==
    [name |-> blob.name, def |-> blob.def, ops |-> blob.ops,
     unsafe |-> blob.unsafe \cup sites, deps |-> blob.deps,
     reviewed |-> blob.reviewed]
FreshBlob(b, dag, external, i, h) ==
    [name |-> b[i].name, def |-> ResolvedDef(b, dag, external, i),
     ops |-> b[i].ops, unsafe |-> SitesOf(b, dag, h),
     deps |-> DepsOf(b, dag, external, i), reviewed |-> TRUE]

\* A commit adds the hashes of its batch.
LEMMA CommittedDomain ==
    ASSUME NEW st, NEW b, NEW dag, NEW external
    PROVE  DOMAIN CommittedStore(st, b, dag, external) = DOMAIN st \cup Range(dag)
BY DEF CommittedStore

\* A commit keeps the blobs that are there but for unsafe sites.
LEMMA CommittedOld ==
    ASSUME NEW st, GoodStore(st), NEW b, NEW dag, NEW external,
           NEW h \in DOMAIN st
    PROVE  CommittedStore(st, b, dag, external)[h] =
               GrownBlob(st[h], SitesOf(b, dag, h))
<1>1. CommittedStore(st, b, dag, external)[h] =
          [st[h] EXCEPT !.unsafe = @ \cup SitesOf(b, dag, h)]
  BY DEF CommittedStore, CommittedBlob
<1>2. st[h] = [name |-> st[h].name, def |-> st[h].def, ops |-> st[h].ops,
               unsafe |-> st[h].unsafe, deps |-> st[h].deps,
               reviewed |-> st[h].reviewed]
  BY DEF GoodStore, GoodBlob
<1>3. QED
  BY <1>1, <1>2 DEF GrownBlob

\* A new blob is what some entry of the batch is stored as.
LEMMA CommittedNew ==
    ASSUME NEW st, NEW b, IsBatch(b), NEW dag, DOMAIN dag = DOMAIN b,
           NEW external, NEW h \in Range(dag) \ DOMAIN st
    PROVE  \E i \in DOMAIN b :
              /\ dag[i] = h
              /\ CommittedStore(st, b, dag, external)[h] =
                    FreshBlob(b, dag, external, i, h)
<1>1. FirstOf(dag, h) \in DOMAIN b /\ dag[FirstOf(dag, h)] = h
  BY FirstOfEntry
<1>2. CommittedStore(st, b, dag, external)[h] =
          CommittedBlob(st, b, dag, external, h)
  BY DEF CommittedStore
<1>3. CommittedBlob(st, b, dag, external, h) =
          FreshBlob(b, dag, external, FirstOf(dag, h), h)
  BY DEF CommittedBlob, FreshBlob
<1>4. QED
  BY <1>1, <1>2, <1>3

\* What belongs to a good blob also belongs to the one it grows into.
LEMMA GrownGood ==
    ASSUME NEW h, NEW blob, GoodBlob(h, blob), NEW sites
    PROVE  /\ GoodBlob(h, GrownBlob(blob, sites))
           /\ GrownBlob(blob, sites).def = blob.def
           /\ GrownBlob(blob, sites).deps = blob.deps
           /\ GrownBlob(blob, sites).unsafe = blob.unsafe \cup sites
<1> DEFINE new == GrownBlob(blob, sites)
<1>1. /\ new = [name |-> blob.name, def |-> blob.def, ops |-> blob.ops,
                unsafe |-> blob.unsafe \cup sites, deps |-> blob.deps,
                reviewed |-> blob.reviewed]
      /\ new.def = blob.def /\ new.deps = blob.deps
      /\ new.name = blob.name /\ new.ops = blob.ops
      /\ new.unsafe = blob.unsafe \cup sites
      /\ new.reviewed = blob.reviewed
  BY DEF GrownBlob
<1> HIDE DEF new
<1>2. new = [name |-> new.name, def |-> new.def, ops |-> new.ops,
             unsafe |-> new.unsafe, deps |-> new.deps,
             reviewed |-> new.reviewed]
  BY <1>1
<1>3. GoodDef(h, new.def) /\ new.deps = EdgesOf(new.def)
  BY <1>1 DEF GoodBlob
<1>4. GoodBlob(h, new)
  BY <1>2, <1>3 DEF GoodBlob
<1>5. QED
  BY <1>1, <1>4 DEF new

\* What an entry is stored as is good when its definition is.
LEMMA FreshGood ==
    ASSUME NEW b, NEW dag, NEW external, NEW i, NEW h,
           GoodDef(h, ResolvedDef(b, dag, external, i)),
           DepsOf(b, dag, external, i) =
               EdgesOf(ResolvedDef(b, dag, external, i))
    PROVE  /\ GoodBlob(h, FreshBlob(b, dag, external, i, h))
           /\ FreshBlob(b, dag, external, i, h).unsafe = SitesOf(b, dag, h)
<1> DEFINE new == FreshBlob(b, dag, external, i, h)
           def == ResolvedDef(b, dag, external, i)
<1>1. /\ new = [name |-> b[i].name, def |-> def, ops |-> b[i].ops,
                unsafe |-> SitesOf(b, dag, h),
                deps |-> DepsOf(b, dag, external, i), reviewed |-> TRUE]
      /\ new.def = def /\ new.deps = DepsOf(b, dag, external, i)
      /\ new.name = b[i].name /\ new.ops = b[i].ops
      /\ new.unsafe = SitesOf(b, dag, h) /\ new.reviewed = TRUE
  BY DEF FreshBlob
<1> HIDE DEF new
<1>2. new = [name |-> new.name, def |-> new.def, ops |-> new.ops,
             unsafe |-> new.unsafe, deps |-> new.deps,
             reviewed |-> new.reviewed]
  BY <1>1
<1>3. GoodDef(h, new.def) /\ new.deps = EdgesOf(new.def)
  BY <1>1
<1>4. GoodBlob(h, new)
  BY <1>2, <1>3 DEF GoodBlob
<1>5. QED
  BY <1>1, <1>4 DEF new

\* Every hash of a batch is one a component was computed for.
LEMMA DagHashesMembers ==
    ASSUME NEW b, IsBatch(b), NEW external, NEW i \in DOMAIN b
    PROVE  /\ DOMAIN DagHashes(b, external) = DOMAIN b
           /\ IsMember(DagHashes(b, external)[i])
           /\ DagHashes(b, external)[i] \in Range(DagHashes(b, external))
<1> DEFINE dag == DagHashes(b, external)
<1>1. DOMAIN dag = DOMAIN b
  BY DagHashesDefined
<1>2. i \in ComponentOf(b, i)
  BY ComponentPositions
<1>3. dag[i][1] = "member" /\ dag[i] = MemberHash(dag[i][2], dag[i][3])
  BY <1>2, HashProjections
<1> HIDE DEF dag
<1>4. IsMember(dag[i]) /\ dag[i] \in Range(dag)
  BY <1>1, <1>3 DEF IsMember, Range
<1>5. QED
  BY <1>1, <1>4 DEF dag

\* A commit stores under every hash what the hash was computed from.
THEOREM CommittedGood ==
    ASSUME NEW b, IsBatch(b), NEW st, NEW lk,
           GoodStore(st), Ranked(DOMAIN st), Range(lk) \subseteq DOMAIN st
    PROVE  LET dag == DagHashes(b, lk)
               new == CommittedStore(st, b, dag, lk)
           IN  /\ GoodStore(new)
               /\ Ranked(DOMAIN new)
               /\ \A i \in DOMAIN b :
                     /\ dag[i] \in DOMAIN new
                     /\ new[dag[i]].def = ResolvedDef(b, dag, lk, i)
                     /\ new[dag[i]].deps = DepsOf(b, dag, lk, i)
                     /\ b[i].unsafe \subseteq new[dag[i]].unsafe
<1> DEFINE dag == DagHashes(b, lk)
           new == CommittedStore(st, b, dag, lk)
<1>1. DOMAIN dag = DOMAIN b
  BY DagHashesDefined
<1>2. Ranked(Range(lk)) /\ \A h \in Range(lk) : IsMember(h)
  BY RankedSubset DEF GoodStore
<1>3. ASSUME NEW i \in DOMAIN b
      PROVE  /\ IsMember(dag[i])
             /\ GoodDef(dag[i], ResolvedDef(b, dag, lk, i))
             /\ DepsOf(b, dag, lk, i) = EdgesOf(ResolvedDef(b, dag, lk, i))
  BY <1>2, DagHashesMembers, ResolvedGood
<1>4. Ranked(DOMAIN st \cup Range(dag))
  BY RankingExtends
<1> HIDE DEF dag
<1>5. DOMAIN new = DOMAIN st \cup Range(dag)
  BY CommittedDomain
<1>6. ASSUME NEW h \in DOMAIN st
      PROVE  /\ new[h] = GrownBlob(st[h], SitesOf(b, dag, h))
             /\ IsMember(h)
             /\ GoodBlob(h, new[h])
             /\ SitesOf(b, dag, h) \subseteq new[h].unsafe
  <2>1. new[h] = GrownBlob(st[h], SitesOf(b, dag, h))
    BY CommittedOld
  <2> HIDE DEF new
  <2>2. IsMember(h) /\ GoodBlob(h, st[h])
    BY DEF GoodStore
  <2>3. QED
    BY <2>1, <2>2, GrownGood
<1>7. ASSUME NEW h \in Range(dag) \ DOMAIN st
      PROVE  /\ IsMember(h)
             /\ GoodBlob(h, new[h])
             /\ SitesOf(b, dag, h) \subseteq new[h].unsafe
  <2>1. PICK i \in DOMAIN b :
             dag[i] = h /\ new[h] = FreshBlob(b, dag, lk, i, h)
    BY <1>1, CommittedNew
  <2> HIDE DEF new
  <2>2. QED
    BY <1>3, <2>1, FreshGood
<1> HIDE DEF new
<1>8. \A h \in DOMAIN new : IsMember(h) /\ GoodBlob(h, new[h])
  BY <1>5, <1>6, <1>7
<1>9. GoodStore(new)
  BY <1>8 DEF GoodStore
<1>10. ASSUME NEW i \in DOMAIN b
       PROVE  /\ dag[i] \in DOMAIN new
              /\ new[dag[i]].def = ResolvedDef(b, dag, lk, i)
              /\ new[dag[i]].deps = DepsOf(b, dag, lk, i)
              /\ b[i].unsafe \subseteq new[dag[i]].unsafe
  <2>1. dag[i] \in Range(dag) /\ dag[i] \in DOMAIN new
    BY <1>1, <1>5 DEF Range
  <2>2. GoodBlob(dag[i], new[dag[i]])
    BY <1>8, <2>1
  <2>3. new[dag[i]].def = ResolvedDef(b, dag, lk, i)
    BY <1>3, <2>2, DefDetermined DEF GoodBlob
  <2>4. new[dag[i]].deps = DepsOf(b, dag, lk, i)
    BY <1>3, <2>2, <2>3 DEF GoodBlob
  <2>5. b[i].unsafe \subseteq SitesOf(b, dag, dag[i])
    BY <1>1 DEF SitesOf, EntriesOf
  <2>6. SitesOf(b, dag, dag[i]) \subseteq new[dag[i]].unsafe
    BY <1>6, <1>7, <2>1
  <2>7. QED
    BY <2>1, <2>3, <2>4, <2>5, <2>6
<1>11. Ranked(DOMAIN new)
  BY <1>4, <1>5
<1>12. QED
  BY <1>9, <1>10, <1>11 DEF new, dag

\* A commit keeps a store closed under references, with all that is bound.
THEOREM CommittedClosed ==
    ASSUME NEW b, IsBatch(b), NEW st, NEW lk,
           GoodStore(st), Ranked(DOMAIN st), Range(lk) \subseteq DOMAIN st,
           \A h \in DOMAIN st : st[h].deps \subseteq DOMAIN st
    PROVE  LET dag == DagHashes(b, lk)
               new == CommittedStore(st, b, dag, lk)
           IN  /\ Range(Inserted(lk, Rebinding(b, dag))) \subseteq DOMAIN new
               /\ \A h \in DOMAIN new : new[h].deps \subseteq DOMAIN new
<1> DEFINE dag == DagHashes(b, lk)
           new == CommittedStore(st, b, dag, lk)
           table == Inserted(lk, Rebinding(b, dag))
<1>1. DOMAIN dag = DOMAIN b
  BY DagHashesDefined
<1>2. ASSUME NEW i \in DOMAIN b PROVE new[dag[i]].deps = DepsOf(b, dag, lk, i)
  BY CommittedGood
<1> HIDE DEF dag
<1>3. DOMAIN new = DOMAIN st \cup Range(dag)
  BY CommittedDomain
<1>4. ASSUME NEW h \in DOMAIN st PROVE new[h].deps = st[h].deps
  <2>1. new[h] = GrownBlob(st[h], SitesOf(b, dag, h))
    BY CommittedOld
  <2>2. GoodBlob(h, st[h])
    BY DEF GoodStore
  <2> HIDE DEF new
  <2>3. QED
    BY <2>1, <2>2, GrownGood
<1> HIDE DEF new
<1>5. ASSUME NEW h \in Range(dag) PROVE new[h].deps \subseteq DOMAIN new
  <2>1. PICK i \in DOMAIN b : dag[i] = h
    BY <1>1 DEF Range
  <2>2. DepsOf(b, dag, lk, i) \subseteq Range(dag) \cup Range(lk)
    BY <1>1, DepsResolved
  <2>3. QED
    BY <1>2, <1>3, <2>1, <2>2
<1>6. \A h \in DOMAIN new : new[h].deps \subseteq DOMAIN new
  BY <1>3, <1>4, <1>5
<1>7. Range(table) \subseteq DOMAIN new
  <2>1. Range(Rebinding(b, dag)) \subseteq Range(dag)
    BY <1>1, RebindingValues
  <2>2. Range(table) \subseteq Range(lk) \cup Range(Rebinding(b, dag))
    BY InsertedValues
  <2>3. QED
    BY <1>3, <2>1, <2>2
<1>8. QED
  BY <1>6, <1>7 DEF new, dag

\* Resolving a batch again after it is committed gives the same hashes.
THEOREM RecommitAgrees ==
    ASSUME NEW b, IsBatch(b), NEW lk
    PROVE  DagHashes(b, Inserted(lk, Rebinding(b, DagHashes(b, lk)))) =
               DagHashes(b, lk)
<1> DEFINE values == DagHashes(b, lk)
           table == Inserted(lk, Rebinding(b, values))
<1>1. DOMAIN Rebinding(b, values) = LocalNames(b)
  BY DEF Rebinding
<1> HIDE DEF values
<1>2. ASSUME NEW i \in DOMAIN b, NEW n \in Range(b[i].refs) \ LocalNames(b)
      PROVE  ExternalHash(table, n) = ExternalHash(lk, n)
  BY <1>1 DEF ExternalHash, Inserted
<1> HIDE DEF table
<1>3. DagHashes(b, table) = DagHashes(b, lk)
  BY <1>2, DagHashesExternal
<1>4. QED
  BY <1>3 DEF table, values
====
