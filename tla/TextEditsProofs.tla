---- MODULE TextEditsProofs ----
(***************************************************************************)
(* For every text and every list of edits: the sort by start is a stable   *)
(* permutation, edits that do not overlap and start at different offsets   *)
(* are applied as if at once, and a fix never panics.                      *)
(***************************************************************************)
EXTENDS TextEdits, Foundations, SequenceTheorems

-----------------------------------------------------------------------------
(***************************************************************************)
(* The order edits are applied in.                                         *)
(***************************************************************************)

\* How many edits come before one.
Rank(edits, i) == Cardinality({j \in DOMAIN edits : Precedes(edits, j, i)})

\* An edit has fewer before it than one it precedes, and fewer than there
\* are.
LEMMA RankIncreases ==
    ASSUME NEW edits \in Seq(Edits)
    PROVE  /\ \A i \in DOMAIN edits : Rank(edits, i) \in 0 .. Len(edits) - 1
           /\ \A i, j \in DOMAIN edits :
                  Precedes(edits, i, j) => Rank(edits, i) < Rank(edits, j)
           /\ \A i, j \in DOMAIN edits :
                  i # j => Precedes(edits, i, j) \/ Precedes(edits, j, i)
<1> DEFINE n == Len(edits)
           before(i) == {j \in DOMAIN edits : Precedes(edits, j, i)}
<1>1. n \in Nat /\ DOMAIN edits = 1 .. n
  OBVIOUS
<1>2. \A i \in DOMAIN edits : i \in Nat /\ edits[i].start \in Nat
  <2>1. \A i \in DOMAIN edits : edits[i] \in Edits
    OBVIOUS
  <2>2. QED
    BY <1>1, <2>1 DEF Edits
<1>3. \A i \in DOMAIN edits : before(i) \in SUBSET (1 .. n) /\ i \notin before(i)
  BY <1>1, <1>2 DEF Precedes
<1>4. ASSUME NEW i \in DOMAIN edits, NEW j \in DOMAIN edits,
             Precedes(edits, i, j)
      PROVE  before(i) \subseteq before(j) /\ i \in before(j)
  BY <1>2, <1>4 DEF Precedes
<1>5. \A i, j \in DOMAIN edits :
          i # j => Precedes(edits, i, j) \/ Precedes(edits, j, i)
  BY <1>2 DEF Precedes
<1> HIDE DEF before
<1>6. ASSUME NEW i \in DOMAIN edits
      PROVE  /\ IsFiniteSet(before(i))
             /\ Cardinality(before(i)) \in Nat
  BY <1>1, <1>3, PositionsFinite
<1>7. ASSUME NEW i \in DOMAIN edits
      PROVE  Cardinality(before(i)) \in 0 .. n - 1
  <2>1. IsFiniteSet(1 .. n) /\ Cardinality(1 .. n) = n
    <3>1. 1 \in Int /\ n \in Int
      BY <1>1
    <3>2. /\ IsFiniteSet(1 .. n)
          /\ Cardinality(1 .. n) = IF 1 > n THEN 0 ELSE n - 1 + 1
      BY <3>1, FS_Interval
    <3>3. QED
      BY <1>1, <3>2
  <2>2. /\ Cardinality(before(i)) <= Cardinality(1 .. n)
        /\ Cardinality(before(i)) = Cardinality(1 .. n) => before(i) = 1 .. n
    BY <1>3, <2>1, FS_Subset
  <2>3. before(i) # 1 .. n
    BY <1>1, <1>3
  <2>4. QED
    BY <1>1, <1>6, <2>1, <2>2, <2>3
<1>8. ASSUME NEW i \in DOMAIN edits, NEW j \in DOMAIN edits,
             Precedes(edits, i, j)
      PROVE  Cardinality(before(i)) < Cardinality(before(j))
  <2>1. before(i) \in SUBSET before(j) /\ before(i) # before(j)
    BY <1>3, <1>4, <1>8
  <2>2. IsFiniteSet(before(j))
    BY <1>6
  <2>3. /\ Cardinality(before(i)) <= Cardinality(before(j))
        /\ Cardinality(before(i)) = Cardinality(before(j)) => before(i) = before(j)
    BY <2>1, <2>2, FS_Subset
  <2>4. QED
    BY <1>6, <2>1, <2>3
<1>9. \A i \in DOMAIN edits : Rank(edits, i) = Cardinality(before(i))
  BY DEF Rank, before
<1>10. QED
  BY <1>5, <1>7, <1>8, <1>9

\* sort_by is stable and loses nothing: the sorted edits are the given ones,
\* each at one place, and every one comes before those it precedes.
THEOREM SortedPermutes ==
    ASSUME NEW edits \in Seq(Edits)
    PROVE  \E at \in Bijection(DOMAIN edits, DOMAIN edits) :
               /\ Sorted(edits) = [p \in DOMAIN edits |-> edits[at[p]]]
               /\ \A p, q \in DOMAIN edits :
                      p < q => Precedes(edits, at[p], at[q])
<1> DEFINE n == Len(edits)
           place == [i \in 1 .. n |-> Rank(edits, i) + 1]
           at == [p \in 1 .. n |-> CHOOSE i \in 1 .. n : Rank(edits, i) = p - 1]
<1>1. n \in Nat /\ DOMAIN edits = 1 .. n
  OBVIOUS
<1>2. /\ \A i \in 1 .. n : Rank(edits, i) \in 0 .. n - 1
      /\ \A i, j \in 1 .. n :
             Precedes(edits, i, j) => Rank(edits, i) < Rank(edits, j)
      /\ \A i, j \in 1 .. n :
             i # j => Precedes(edits, i, j) \/ Precedes(edits, j, i)
  BY <1>1, RankIncreases
<1>3. place \in Injection(1 .. n, 1 .. n)
  <2>1. place \in [1 .. n -> 1 .. n]
    BY <1>1, <1>2
  <2>2. ASSUME NEW i \in 1 .. n, NEW j \in 1 .. n, place[i] = place[j]
        PROVE  i = j
    <3>1. Rank(edits, i) = Rank(edits, j)
      BY <1>2, <2>2
    <3>2. QED
      BY <1>2, <3>1
  <2>3. QED
    BY <2>1, <2>2 DEF Injection, IsInjective
<1>4. place \in Surjection(1 .. n, 1 .. n)
  <2>1. 1 \in Int /\ n \in Int
    BY <1>1
  <2>2. IsFiniteSet(1 .. n)
    BY <2>1, FS_Interval
  <2> HIDE DEF place
  <2>3. QED
    BY <1>3, <2>2, FS_Injection
<1>5. ASSUME NEW p \in 1 .. n
      PROVE  at[p] \in 1 .. n /\ Rank(edits, at[p]) = p - 1
  <2>1. \E i \in 1 .. n : place[i] = p
    BY <1>4 DEF Surjection
  <2>2. \E i \in 1 .. n : Rank(edits, i) = p - 1
    BY <1>2, <2>1
  <2>3. QED
    BY <2>2
<1> HIDE DEF place
<1>6. at \in Bijection(1 .. n, 1 .. n)
  <2>1. at \in [1 .. n -> 1 .. n]
    BY <1>5
  <2>2. ASSUME NEW p \in 1 .. n, NEW q \in 1 .. n, at[p] = at[q]
        PROVE  p = q
    <3>1. p - 1 = q - 1
      BY <1>5, <2>2
    <3>2. QED
      BY <3>1
  <2>3. ASSUME NEW i \in 1 .. n
        PROVE  \E p \in 1 .. n : at[p] = i
    <3>1. Rank(edits, i) + 1 \in 1 .. n
      BY <1>1, <1>2
    <3>2. /\ at[Rank(edits, i) + 1] \in 1 .. n
          /\ Rank(edits, at[Rank(edits, i) + 1]) = Rank(edits, i)
      BY <1>2, <1>5, <3>1
    <3>3. at[Rank(edits, i) + 1] = i
      <4> HIDE DEF at
      <4>1. QED
        BY <1>2, <3>2
    <3>4. QED
      BY <3>1, <3>3
  <2>4. QED
    <3> HIDE DEF at
    <3>1. QED
      BY <2>1, <2>2, <2>3 DEF Bijection, Injection, IsInjective, Surjection
<1>7. Sorted(edits) = [p \in 1 .. n |-> edits[at[p]]]
  BY <1>1 DEF Sorted, Rank
<1>8. ASSUME NEW p \in 1 .. n, NEW q \in 1 .. n, p < q
      PROVE  Precedes(edits, at[p], at[q])
  <2>1. /\ at[p] \in 1 .. n /\ at[q] \in 1 .. n
        /\ Rank(edits, at[p]) = p - 1 /\ Rank(edits, at[q]) = q - 1
    BY <1>5
  <2> HIDE DEF at
  <2>2. at[p] # at[q]
    BY <2>1, <1>8
  <2>3. ~ Precedes(edits, at[q], at[p])
    BY <2>1, <1>2, <1>8
  <2>4. QED
    BY <2>1, <2>2, <2>3, <1>2
<1>9. QED
  <2> HIDE DEF at
  <2>1. QED
    BY <1>1, <1>6, <1>7, <1>8

-----------------------------------------------------------------------------
(***************************************************************************)
(* What the edits mean when they are all taken at once.                    *)
(***************************************************************************)

\* What one offset contributes is a text.
LEMMA PieceText ==
    ASSUME NEW text \in Seq(Bytes), NEW edits \in Seq(Edits),
           NEW at \in 0 .. Len(text)
    PROVE  /\ NewAt(edits, at) \in Seq(Bytes)
           /\ Piece(text, edits, at) \in Seq(Bytes)
<1>1. NewAt(edits, at) \in Seq(Bytes)
  <2>1. CASE \E i \in DOMAIN edits : edits[i].start = at
    <3> DEFINE c == CHOOSE i \in DOMAIN edits : edits[i].start = at
    <3>1. c \in DOMAIN edits
      BY <2>1
    <3>2. edits[c] \in Edits
      BY <3>1
    <3>3. edits[c].new \in Seq(Bytes)
      BY <3>2 DEF Edits
    <3>4. NewAt(edits, at) = edits[c].new
      BY <2>1 DEF NewAt
    <3>5. QED
      BY <3>3, <3>4
  <2>2. CASE ~ \E i \in DOMAIN edits : edits[i].start = at
    <3>1. NewAt(edits, at) = <<>>
      BY <2>2 DEF NewAt
    <3>2. QED
      BY <3>1
  <2>3. QED
    BY <2>1, <2>2
<1>2. (IF at = 0 \/ Covered(edits, at) THEN <<>> ELSE <<text[at]>>) \in Seq(Bytes)
  <2>1. at # 0 => text[at] \in Bytes
    OBVIOUS
  <2>2. QED
    BY <2>1
<1>3. QED
  BY <1>1, <1>2 DEF Piece

\* The recursion of Merged has a solution: on every prefix of the offsets,
\* one more each time.
LEMMA MergedDefined ==
    ASSUME NEW text \in Seq(Bytes), NEW edits \in Seq(Edits)
    PROVE  /\ Merged(text, edits)[0] = Piece(text, edits, 0)
           /\ \A at \in 0 .. Len(text) - 1 :
                  Merged(text, edits)[at + 1] =
                      Merged(text, edits)[at] \o Piece(text, edits, at + 1)
           /\ \A at \in 0 .. Len(text) : Merged(text, edits)[at] \in Seq(Bytes)
<1> DEFINE Merges(f, n) ==
               f = [at \in 0 .. n |->
                       IF at = 0
                       THEN Piece(text, edits, 0)
                       ELSE f[at - 1] \o Piece(text, edits, at)]
           Some == {n \in Nat : \E f : Merges(f, n)}
           upTo == Merged(text, edits)
<1>1. Len(text) \in Nat
  OBVIOUS
<1>2. 0 \in Some
  <2>1. Merges([at \in 0 .. 0 |-> Piece(text, edits, 0)], 0)
    OBVIOUS
  <2>2. QED
    BY <2>1
<1>3. ASSUME NEW n \in 0 .. Len(text) - 1, n \in Some
      PROVE  n + 1 \in Some
  <2>1. PICK f : Merges(f, n)
    BY <1>3
  <2> DEFINE g == [at \in 0 .. n + 1 |->
                      IF at = n + 1
                      THEN f[n] \o Piece(text, edits, n + 1)
                      ELSE f[at]]
  <2>2. ASSUME NEW at \in 0 .. n + 1
        PROVE  g[at] = IF at = 0
                       THEN Piece(text, edits, 0)
                       ELSE g[at - 1] \o Piece(text, edits, at)
    <3>1. CASE at = n + 1
      <4>1. g[at] = f[n] \o Piece(text, edits, n + 1)
        BY <3>1
      <4>2. g[at - 1] = f[n]
        BY <3>1
      <4>3. at # 0
        BY <3>1
      <4>4. QED
        <5> HIDE DEF g
        <5>1. QED
          BY <3>1, <4>1, <4>2, <4>3
    <3>2. CASE at # n + 1
      <4>1. at \in 0 .. n /\ g[at] = f[at]
        BY <3>2
      <4>2. f[at] = IF at = 0
                    THEN Piece(text, edits, 0)
                    ELSE f[at - 1] \o Piece(text, edits, at)
        BY <2>1, <4>1
      <4>3. at # 0 => g[at - 1] = f[at - 1]
        BY <4>1
      <4>4. QED
        <5> HIDE DEF g
        <5>1. QED
          BY <4>1, <4>2, <4>3
    <3>3. QED
      BY <3>1, <3>2
  <2>3. Merges(g, n + 1)
    <3>1. g = [at \in 0 .. n + 1 |-> g[at]]
      OBVIOUS
    <3> HIDE DEF g
    <3>2. QED
      BY <3>1, <2>2
  <2>4. n + 1 \in Nat
    OBVIOUS
  <2> HIDE DEF g, Merges
  <2>5. QED
    BY <2>3, <2>4
<1>4. 0 .. Len(text) \subseteq Some
  <2> HIDE DEF Some
  <2>1. QED
    BY <1>1, <1>2, <1>3, CountingUp
<1>5. \E f : Merges(f, Len(text))
  <2>1. Len(text) \in Some
    <3> HIDE DEF Some
    <3>1. QED
      BY <1>1, <1>4
  <2> HIDE DEF Merges
  <2>2. QED
    BY <2>1
<1>6. upTo = CHOOSE f : Merges(f, Len(text))
  BY DEF Merged
<1>7. Merges(upTo, Len(text))
  <2> HIDE DEF Merges, upTo
  <2>1. QED
    BY <1>5, <1>6
<1> HIDE DEF upTo
<1>8. ASSUME NEW at \in 0 .. Len(text)
      PROVE  upTo[at] = IF at = 0
                        THEN Piece(text, edits, 0)
                        ELSE upTo[at - 1] \o Piece(text, edits, at)
  BY <1>7
<1> HIDE DEF Merges, Some
<1>9. upTo[0] = Piece(text, edits, 0)
  BY <1>1, <1>8
<1>10. ASSUME NEW at \in 0 .. Len(text) - 1
       PROVE  upTo[at + 1] = upTo[at] \o Piece(text, edits, at + 1)
  <2>1. at + 1 \in 0 .. Len(text) /\ at + 1 # 0 /\ (at + 1) - 1 = at
    BY <1>1
  <2>2. upTo[at + 1] = upTo[(at + 1) - 1] \o Piece(text, edits, at + 1)
    BY <1>8, <2>1
  <2>3. QED
    BY <2>1, <2>2
<1>11. \A at \in 0 .. Len(text) : upTo[at] \in Seq(Bytes)
  <2> DEFINE Texted == {at \in Nat : upTo[at] \in Seq(Bytes)}
  <2>1. 0 \in Texted
    BY <1>1, <1>9, PieceText
  <2>2. ASSUME NEW at \in 0 .. Len(text) - 1, at \in Texted
        PROVE  at + 1 \in Texted
    <3>1. at + 1 \in 0 .. Len(text) /\ at + 1 \in Nat
      BY <1>1
    <3>2. Piece(text, edits, at + 1) \in Seq(Bytes)
      BY <3>1, PieceText
    <3>3. upTo[at + 1] = upTo[at] \o Piece(text, edits, at + 1)
      BY <1>10
    <3>4. upTo[at] \in Seq(Bytes)
      BY <2>2
    <3>5. upTo[at] \o Piece(text, edits, at + 1) \in Seq(Bytes)
      BY <3>2, <3>4
    <3>6. QED
      BY <3>1, <3>3, <3>5
  <2>3. 0 .. Len(text) \subseteq Texted
    <3> HIDE DEF Texted
    <3>1. QED
      BY <1>1, <2>1, <2>2, CountingUp
  <2>4. QED
    BY <2>3
<1>12. QED
  BY <1>9, <1>10, <1>11 DEF upTo

\* The meaning of a list of edits is the only text that grows by its pieces.
LEMMA MergedOnly ==
    ASSUME NEW text \in Seq(Bytes), NEW edits \in Seq(Edits), NEW f,
           NEW n \in 0 .. Len(text),
           f[0] = Piece(text, edits, 0),
           \A at \in 0 .. n - 1 : f[at + 1] = f[at] \o Piece(text, edits, at + 1)
    PROVE  f[n] = Merged(text, edits)[n]
<1> DEFINE upTo == Merged(text, edits)
           Equal == {at \in Nat : f[at] = upTo[at]}
<1>1. Len(text) \in Nat
  OBVIOUS
<1>2. /\ upTo[0] = Piece(text, edits, 0)
      /\ \A at \in 0 .. Len(text) - 1 :
             upTo[at + 1] = upTo[at] \o Piece(text, edits, at + 1)
  BY MergedDefined
<1> HIDE DEF upTo
<1>3. 0 \in Equal
  BY <1>2
<1>4. ASSUME NEW at \in 0 .. n - 1, at \in Equal
      PROVE  at + 1 \in Equal
  <2>1. at \in 0 .. Len(text) - 1 /\ at + 1 \in Nat
    BY <1>1
  <2>2. f[at + 1] = f[at] \o Piece(text, edits, at + 1)
    OBVIOUS
  <2>3. upTo[at + 1] = upTo[at] \o Piece(text, edits, at + 1)
    BY <1>2, <2>1
  <2>4. f[at] = upTo[at]
    BY <1>4
  <2>5. QED
    BY <2>1, <2>2, <2>3, <2>4
<1>5. 0 .. n \subseteq Equal
  <2>1. n \in Nat
    BY <1>1
  <2> HIDE DEF Equal
  <2>2. QED
    BY <2>1, <1>3, <1>4, CountingUp
<1>6. n \in Equal
  <2> HIDE DEF Equal
  <2>1. QED
    BY <1>1, <1>5
<1>7. QED
  BY <1>6 DEF upTo

-----------------------------------------------------------------------------
(***************************************************************************)
(* Edits in the order they are applied in.                                 *)
(***************************************************************************)

\* The edits fit the first upTo bytes of the text, the last ones first, and
\* no two of them touch the same byte.
Fits(text, edits, upTo) ==
    /\ edits \in Seq(Edits)
    /\ \A p \in DOMAIN edits :
          /\ edits[p].start <= edits[p].end
          /\ edits[p].end <= upTo
          /\ OnBoundaries(text, edits[p])
          /\ edits[p].new # <<>> => edits[p].new[1] \notin Continuation
    /\ \A p, q \in DOMAIN edits :
          p < q => /\ edits[q].start < edits[p].start
                   /\ edits[q].end <= edits[p].start

\* The edits after the first lie before it.
LEMMA TailFits ==
    ASSUME NEW text, NEW edits, NEW upTo, Fits(text, edits, upTo),
           edits # <<>>
    PROVE  /\ Head(edits) \in Edits
           /\ Head(edits) = edits[1] /\ 1 \in DOMAIN edits
           /\ Tail(edits) \in Seq(Edits)
           /\ \A q \in DOMAIN Tail(edits) :
                  /\ q + 1 \in DOMAIN edits
                  /\ Tail(edits)[q] = edits[q + 1]
                  /\ Tail(edits)[q] \in Edits
           /\ \A p \in DOMAIN edits :
                  p # 1 => /\ p - 1 \in DOMAIN Tail(edits)
                           /\ Tail(edits)[p - 1] = edits[p]
           /\ Fits(text, Tail(edits), Head(edits).start)
<1>1. edits \in Seq(Edits)
  BY DEF Fits
<1>2. /\ Head(edits) \in Edits
      /\ Head(edits) = edits[1] /\ 1 \in DOMAIN edits
      /\ Tail(edits) \in Seq(Edits)
      /\ DOMAIN Tail(edits) = 1 .. Len(edits) - 1
      /\ DOMAIN edits = 1 .. Len(edits) /\ Len(edits) \in Nat
      /\ \A q \in 1 .. Len(edits) - 1 : Tail(edits)[q] = edits[q + 1]
  BY <1>1
<1>3. ASSUME NEW q \in DOMAIN Tail(edits)
      PROVE  /\ q \in Nat
             /\ q + 1 \in DOMAIN edits
             /\ Tail(edits)[q] = edits[q + 1]
             /\ Tail(edits)[q] \in Edits
  BY <1>2
<1>4. ASSUME NEW p \in DOMAIN edits
      PROVE  p # 1 => /\ p - 1 \in DOMAIN Tail(edits)
                      /\ Tail(edits)[p - 1] = edits[p]
  <2>1. p # 1 => p - 1 \in DOMAIN Tail(edits) /\ (p - 1) + 1 = p
    BY <1>2
  <2>2. QED
    BY <2>1, <1>3
<1>5. ASSUME NEW p \in DOMAIN Tail(edits)
      PROVE  /\ Tail(edits)[p].start <= Tail(edits)[p].end
             /\ Tail(edits)[p].end <= Head(edits).start
             /\ OnBoundaries(text, Tail(edits)[p])
             /\ Tail(edits)[p].new # <<>>
                    => Tail(edits)[p].new[1] \notin Continuation
  <2>1. 1 < p + 1
    BY <1>3
  <2>2. QED
    BY <1>2, <1>3, <2>1 DEF Fits
<1>6. ASSUME NEW p \in DOMAIN Tail(edits), NEW q \in DOMAIN Tail(edits), p < q
      PROVE  /\ Tail(edits)[q].start < Tail(edits)[p].start
             /\ Tail(edits)[q].end <= Tail(edits)[p].start
  <2>1. p + 1 < q + 1
    BY <1>3, <1>6
  <2>2. QED
    BY <1>3, <2>1 DEF Fits
<1>7. Fits(text, Tail(edits), Head(edits).start)
  BY <1>2, <1>5, <1>6 DEF Fits
<1>8. QED
  BY <1>2, <1>3, <1>4, <1>7

\* Of edits that start at different offsets, the one that starts at an offset
\* is the one whose text goes there.
LEMMA NewAtStart ==
    ASSUME NEW edits, NEW i \in DOMAIN edits,
           \A j \in DOMAIN edits : edits[j].start = edits[i].start => j = i
    PROVE  NewAt(edits, edits[i].start) = edits[i].new
BY DEF NewAt

\* Edits that fit start at different offsets.
LEMMA FitsDistinct ==
    ASSUME NEW text, NEW edits, NEW upTo, Fits(text, edits, upTo),
           NEW i \in DOMAIN edits, NEW j \in DOMAIN edits,
           edits[i].start = edits[j].start
    PROVE  i = j
<1>1. edits \in Seq(Edits)
  BY DEF Fits
<1>2. i \in Nat /\ j \in Nat /\ edits[i] \in Edits /\ edits[j] \in Edits
  BY <1>1
<1>3. edits[i].start \in Nat /\ edits[j].start \in Nat
  BY <1>2 DEF Edits
<1>4. ~ (i < j)
  BY <1>3 DEF Fits
<1>5. ~ (j < i)
  BY <1>3 DEF Fits
<1>6. QED
  BY <1>2, <1>4, <1>5

\* What an offset contributes, by where it lies about the first edit.
LEMMA PieceAround ==
    ASSUME NEW text \in Seq(Bytes), NEW edits, NEW upTo \in 0 .. Len(text),
           Fits(text, edits, upTo), edits # <<>>, NEW at \in 0 .. upTo
    PROVE  /\ at < Head(edits).start =>
                  Piece(text, edits, at) = Piece(text, Tail(edits), at)
           /\ at = Head(edits).start =>
                  Piece(text, edits, at) =
                      Piece(text, Tail(edits), at) \o Head(edits).new
           /\ Head(edits).start < at /\ at <= Head(edits).end =>
                  Piece(text, edits, at) = <<>>
           /\ Head(edits).end < at => Piece(text, edits, at) = <<text[at]>>
<1> DEFINE e == Head(edits)
           after == Tail(edits)
<1>1. /\ e \in Edits /\ e = edits[1] /\ 1 \in DOMAIN edits
      /\ after \in Seq(Edits)
      /\ \A q \in DOMAIN after :
             /\ q + 1 \in DOMAIN edits
             /\ after[q] = edits[q + 1]
             /\ after[q] \in Edits
      /\ \A p \in DOMAIN edits :
             p # 1 => p - 1 \in DOMAIN after /\ after[p - 1] = edits[p]
      /\ Fits(text, after, e.start)
  BY TailFits
<1>2. e.start <= e.end /\ e.end <= upTo /\ edits \in Seq(Edits)
  BY <1>1 DEF Fits
<1>3. e.start \in Nat /\ e.end \in Nat /\ e.new \in Seq(Bytes) /\ at \in Nat
  BY <1>1 DEF Edits
<1>4. \A q \in DOMAIN after : /\ q \in Nat /\ after[q].start \in Nat
                               /\ after[q].end \in Nat
                               /\ after[q].end <= e.start
                               /\ after[q].start <= after[q].end
  BY <1>1 DEF Fits, Edits
<1>5. \A p \in DOMAIN edits : p # 1 => edits[p].start < e.start
  <2>1. \A p \in DOMAIN edits : p \in Nat /\ (p # 1 => 1 < p)
    BY <1>2
  <2>2. QED
    BY <1>1, <2>1 DEF Fits
<1>6. Covered(edits, at) <=>
          (e.start < at /\ at <= e.end) \/ Covered(after, at)
  <2>1. (e.start < at /\ at <= e.end) => Covered(edits, at)
    BY <1>1 DEF Covered
  <2>2. Covered(after, at) => Covered(edits, at)
    BY <1>1 DEF Covered
  <2>3. Covered(edits, at) /\ ~ Covered(after, at) => (e.start < at /\ at <= e.end)
    BY <1>1 DEF Covered
  <2>4. QED
    BY <2>1, <2>2, <2>3
<1>7. e.start < at => ~ Covered(after, at)
  BY <1>3, <1>4 DEF Covered
<1>8. at = e.start => NewAt(edits, at) = e.new
  <2>1. \A j \in DOMAIN edits : edits[j].start = edits[1].start => j = 1
    BY <1>1, FitsDistinct
  <2>2. NewAt(edits, edits[1].start) = edits[1].new
    BY <1>1, <2>1, NewAtStart
  <2>3. QED
    BY <1>1, <2>2
<1>9. e.start <= at => NewAt(after, at) = <<>>
  <2>1. \A q \in DOMAIN after : after[q].start < e.start
    <3>1. \A q \in DOMAIN after : q + 1 # 1
      BY <1>4
    <3>2. QED
      BY <1>1, <1>5, <3>1
  <2>2. QED
    BY <1>3, <1>4, <2>1 DEF NewAt
<1>10. e.start < at => NewAt(edits, at) = <<>>
  <2>1. \A p \in DOMAIN edits : edits[p].start <= e.start /\ edits[p].start \in Nat
    <3>1. ASSUME NEW p \in DOMAIN edits
          PROVE  edits[p].start \in Nat
      <4>1. edits[p] \in Edits
        BY <1>2
      <4>2. QED
        BY <4>1 DEF Edits
    <3>2. QED
      BY <1>1, <1>3, <1>5, <3>1
  <2>2. QED
    BY <1>3, <2>1 DEF NewAt
<1>11. ASSUME at < e.start
       PROVE  NewAt(edits, at) = NewAt(after, at)
  <2>1. CASE \E q \in DOMAIN after : after[q].start = at
    <3>1. PICK q \in DOMAIN after : after[q].start = at
      BY <2>1
    <3>2. \A j \in DOMAIN after : after[j].start = after[q].start => j = q
      BY <1>1, <3>1, FitsDistinct
    <3>3. NewAt(after, at) = after[q].new
      BY <3>1, <3>2, NewAtStart
    <3>4. q + 1 \in DOMAIN edits /\ edits[q + 1] = after[q]
      BY <1>1
    <3>5. \A j \in DOMAIN edits : edits[j].start = edits[q + 1].start => j = q + 1
      BY <3>4, FitsDistinct
    <3>6. NewAt(edits, edits[q + 1].start) = edits[q + 1].new
      BY <3>4, <3>5, NewAtStart
    <3>7. QED
      BY <3>1, <3>3, <3>4, <3>6
  <2>2. CASE ~ \E q \in DOMAIN after : after[q].start = at
    <3>1. ASSUME NEW p \in DOMAIN edits
          PROVE  edits[p].start # at
      <4>1. p = 1 => edits[p].start # at
        BY <1>1, <1>3, <1>11
      <4>2. p # 1 => edits[p].start # at
        BY <1>1, <2>2
      <4>3. QED
        BY <4>1, <4>2
    <3>2. QED
      BY <2>2, <3>1 DEF NewAt
  <2>3. QED
    BY <2>1, <2>2
<1> DEFINE byte == IF at = 0 \/ Covered(after, at) THEN <<>> ELSE <<text[at]>>
<1>12. NewAt(after, at) \in Seq(Bytes) /\ byte \in Seq(Bytes)
  <2>1. at \in 0 .. Len(text)
    OBVIOUS
  <2>2. NewAt(after, at) \in Seq(Bytes)
    BY <1>1, <2>1, PieceText
  <2>3. at # 0 => text[at] \in Bytes
    BY <2>1
  <2>4. QED
    BY <2>2, <2>3
<1>13. Piece(text, after, at) = byte \o NewAt(after, at)
  BY DEF Piece
<1>14. Piece(text, edits, at) =
           (IF at = 0 \/ Covered(edits, at) THEN <<>> ELSE <<text[at]>>)
               \o NewAt(edits, at)
  BY DEF Piece
<1> HIDE DEF e, after
<1>15. at < e.start => Piece(text, edits, at) = Piece(text, after, at)
  <2>1. at < e.start => ~ (e.start < at /\ at <= e.end)
    BY <1>3
  <2>2. QED
    BY <1>6, <1>11, <1>13, <1>14, <2>1
<1>16. at = e.start => Piece(text, edits, at) = Piece(text, after, at) \o e.new
  <2>1. at = e.start => ~ (e.start < at /\ at <= e.end)
    BY <1>3
  <2>2. at = e.start => Piece(text, edits, at) = byte \o e.new
    BY <1>6, <1>8, <1>14, <2>1
  <2>3. at = e.start => Piece(text, after, at) = byte \o <<>>
    BY <1>3, <1>9, <1>13
  <2>4. byte \o <<>> = byte
    <3> HIDE DEF byte
    <3>1. QED
      BY <1>12
  <2>5. QED
    BY <2>2, <2>3, <2>4
<1>17. e.start < at /\ at <= e.end => Piece(text, edits, at) = <<>>
  <2>1. e.start < at /\ at <= e.end => Piece(text, edits, at) = <<>> \o <<>>
    BY <1>6, <1>10, <1>14
  <2>2. QED
    BY <2>1
<1>18. e.end < at => Piece(text, edits, at) = <<text[at]>>
  <2>1. e.end < at => e.start < at /\ at # 0 /\ ~ (at <= e.end)
    BY <1>2, <1>3
  <2>2. e.end < at => Piece(text, edits, at) = <<text[at]>> \o <<>>
    BY <1>6, <1>7, <1>10, <1>14, <2>1
  <2>3. QED
    BY <2>2
<1>19. QED
  BY <1>15, <1>16, <1>17, <1>18 DEF e, after

\* Texts are put together in any grouping.
LEMMA TextsJoin ==
    ASSUME NEW s \in Seq(Bytes), NEW t \in Seq(Bytes), NEW u \in Seq(Bytes)
    PROVE  (s \o t) \o u = s \o (t \o u)
BY ConcatAssociative

\* What edits that fit mean is what those after the first mean before it, the
\* new text of the first, and the bytes after it.
LEMMA MergedAround ==
    ASSUME NEW text \in Seq(Bytes), NEW edits, NEW upTo \in 0 .. Len(text),
           Fits(text, edits, upTo), edits # <<>>
    PROVE  Merged(text, edits)[upTo] =
               (Merged(text, Tail(edits))[Head(edits).start] \o Head(edits).new)
                   \o SubSeq(text, Head(edits).end + 1, upTo)
<1> DEFINE e == Head(edits)
           after == Tail(edits)
           low == Merged(text, after)
           middle == low[e.start] \o e.new
           g == [n \in 0 .. upTo |->
                    IF n < e.start THEN low[n]
                    ELSE IF n < e.end THEN middle
                    ELSE middle \o SubSeq(text, e.end + 1, n)]
<1>1. Len(text) \in Nat /\ upTo \in Nat
  OBVIOUS
<1>2. /\ e \in Edits /\ e = edits[1] /\ 1 \in DOMAIN edits
      /\ after \in Seq(Edits)
      /\ edits \in Seq(Edits)
  BY TailFits DEF Fits
<1>3. e.start <= e.end /\ e.end <= upTo
  BY <1>2 DEF Fits
<1>4. e.start \in Nat /\ e.end \in Nat /\ e.new \in Seq(Bytes)
  BY <1>2 DEF Edits
<1>5. /\ low[0] = Piece(text, after, 0)
      /\ \A n \in 0 .. Len(text) - 1 :
             low[n + 1] = low[n] \o Piece(text, after, n + 1)
      /\ \A n \in 0 .. Len(text) : low[n] \in Seq(Bytes)
  BY <1>2, MergedDefined
<1>6. ASSUME NEW n \in 0 .. upTo
      PROVE  /\ n < e.start =>
                    Piece(text, edits, n) = Piece(text, after, n)
             /\ n = e.start =>
                    Piece(text, edits, n) = Piece(text, after, n) \o e.new
             /\ e.start < n /\ n <= e.end => Piece(text, edits, n) = <<>>
             /\ e.end < n => Piece(text, edits, n) = <<text[n]>>
             /\ Piece(text, after, n) \in Seq(Bytes)
  <2>1. n \in 0 .. Len(text)
    BY <1>1
  <2>2. Piece(text, after, n) \in Seq(Bytes)
    BY <1>2, <2>1, PieceText
  <2>3. QED
    BY <2>2, PieceAround
<1> HIDE DEF low, e, after
<1>7. middle \in Seq(Bytes)
  <2>1. e.start \in 0 .. Len(text)
    BY <1>1, <1>3, <1>4
  <2>2. QED
    BY <1>4, <1>5, <2>1
<1> HIDE DEF middle
<1>8. \A n \in 0 .. e.end : middle \o SubSeq(text, e.end + 1, n) = middle
  <2>1. \A n \in 0 .. e.end : SubSeq(text, e.end + 1, n) = <<>>
    BY <1>4
  <2>2. middle \o <<>> = middle
    BY <1>7
  <2>3. QED
    BY <2>1, <2>2
<1>9. ASSUME NEW n \in 0 .. upTo
      PROVE  /\ n < e.start => g[n] = low[n]
             /\ e.start <= n /\ n <= e.end => g[n] = middle
             /\ e.end <= n => g[n] = middle \o SubSeq(text, e.end + 1, n)
  <2>1. n < e.start => g[n] = low[n]
    OBVIOUS
  <2>2. n \in Nat
    OBVIOUS
  <2>3. e.start <= n /\ n < e.end => g[n] = middle
    BY <1>4, <2>2
  <2>4. ASSUME e.end <= n
        PROVE  g[n] = middle \o SubSeq(text, e.end + 1, n)
    <3>1. ~ (n < e.start) /\ ~ (n < e.end)
      BY <1>3, <1>4, <2>2, <2>4
    <3>2. QED
      BY <3>1
  <2>5. n = e.end => g[n] = middle
    BY <1>3, <1>4, <1>8, <2>4
  <2>6. n <= e.end => n < e.end \/ n = e.end
    BY <1>4, <2>2
  <2> HIDE DEF g
  <2>7. QED
    BY <2>1, <2>3, <2>4, <2>5, <2>6
<1> HIDE DEF g
<1>10. g[0] = Piece(text, edits, 0)
  <2>1. 0 \in 0 .. upTo
    BY <1>1
  <2>2. 0 < e.start => g[0] = Piece(text, edits, 0)
    BY <1>5, <1>6, <1>9, <2>1
  <2>3. 0 = e.start => g[0] = Piece(text, edits, 0)
    <3>1. 0 = e.start => g[0] = middle
      BY <1>3, <1>4, <1>9, <2>1
    <3>2. 0 = e.start => middle = Piece(text, after, 0) \o e.new
      BY <1>5 DEF middle
    <3>3. QED
      BY <1>6, <2>1, <3>1, <3>2
  <2>4. QED
    BY <1>4, <2>2, <2>3
<1>11. ASSUME NEW n \in 0 .. upTo - 1
       PROVE  g[n + 1] = g[n] \o Piece(text, edits, n + 1)
  <2>1. /\ n \in 0 .. upTo /\ n + 1 \in 0 .. upTo /\ n \in 0 .. Len(text) - 1
        /\ n \in 0 .. Len(text) /\ n + 1 \in 0 .. Len(text) /\ n \in Nat
    BY <1>1
  <2>2. CASE n + 1 < e.start
    <3>1. n < e.start
      BY <1>4, <2>1, <2>2
    <3>2. g[n + 1] = low[n + 1] /\ g[n] = low[n]
      BY <1>9, <2>1, <2>2, <3>1
    <3>3. low[n + 1] = low[n] \o Piece(text, after, n + 1)
      BY <1>5, <2>1
    <3>4. Piece(text, edits, n + 1) = Piece(text, after, n + 1)
      BY <1>6, <2>1, <2>2
    <3>5. QED
      BY <3>2, <3>3, <3>4
  <2>3. CASE n + 1 = e.start
    <3>1. n < e.start /\ e.start <= n + 1 /\ n + 1 <= e.end
      BY <1>3, <1>4, <2>1, <2>3
    <3>2. g[n + 1] = middle /\ g[n] = low[n]
      BY <1>9, <2>1, <3>1
    <3>3. middle = (low[n] \o Piece(text, after, n + 1)) \o e.new
      BY <1>5, <2>1, <2>3 DEF middle
    <3>4. Piece(text, edits, n + 1) = Piece(text, after, n + 1) \o e.new
      BY <1>6, <2>1, <2>3
    <3>5. low[n] \in Seq(Bytes) /\ Piece(text, after, n + 1) \in Seq(Bytes)
      BY <1>5, <1>6, <2>1
    <3>6. (low[n] \o Piece(text, after, n + 1)) \o e.new =
              low[n] \o (Piece(text, after, n + 1) \o e.new)
      BY <1>4, <3>5, TextsJoin, Zenon
    <3>7. QED
      BY <3>2, <3>3, <3>4, <3>6
  <2>4. CASE e.start < n + 1 /\ n + 1 <= e.end
    <3>1. e.start <= n /\ n <= e.end /\ e.start <= n + 1
      BY <1>4, <2>1, <2>4
    <3>2. g[n + 1] = middle /\ g[n] = middle
      BY <1>9, <2>1, <2>4, <3>1
    <3>3. Piece(text, edits, n + 1) = <<>>
      BY <1>6, <2>1, <2>4
    <3>4. middle \o <<>> = middle
      BY <1>7
    <3>5. QED
      BY <3>2, <3>3, <3>4
  <2>5. CASE e.end < n + 1
    <3>1. e.end <= n /\ e.end <= n + 1
      BY <1>4, <2>1, <2>5
    <3>2. /\ g[n + 1] = middle \o SubSeq(text, e.end + 1, n + 1)
          /\ g[n] = middle \o SubSeq(text, e.end + 1, n)
      BY <1>9, <2>1, <3>1
    <3>3. Piece(text, edits, n + 1) = <<text[n + 1]>>
      BY <1>6, <2>1, <2>5
    <3>4. SubSeq(text, e.end + 1, n + 1) =
              SubSeq(text, e.end + 1, n) \o <<text[n + 1]>>
      <4>1. /\ e.end + 1 \in 1 .. Len(text)
            /\ n + 1 \in e.end + 1 .. Len(text)
            /\ (n + 1) - 1 = n
        BY <1>1, <1>4, <2>1, <3>1
      <4>2. SubSeq(text, e.end + 1, n + 1) =
                SubSeq(text, e.end + 1, (n + 1) - 1) \o <<text[n + 1]>>
        BY <4>1, SubSeqRecursiveSecond
      <4>3. QED
        BY <4>1, <4>2
    <3>5. SubSeq(text, e.end + 1, n) \in Seq(Bytes) /\ <<text[n + 1]>> \in Seq(Bytes)
      <4>1. text[n + 1] \in Bytes
        BY <1>1, <2>1
      <4>2. \A i \in e.end + 1 .. n : text[i] \in Bytes
        BY <1>1, <1>4, <2>1
      <4>3. e.end + 1 \in Int /\ n \in Int
        BY <1>4, <2>1
      <4>4. QED
        BY <4>1, <4>2, <4>3, SubSeqProperties
    <3>6. middle \o (SubSeq(text, e.end + 1, n) \o <<text[n + 1]>>) =
              (middle \o SubSeq(text, e.end + 1, n)) \o <<text[n + 1]>>
      BY <1>7, <3>5, TextsJoin, Zenon
    <3>7. QED
      BY <3>2, <3>3, <3>4, <3>6
  <2>6. \/ n + 1 < e.start
        \/ n + 1 = e.start
        \/ e.start < n + 1 /\ n + 1 <= e.end
        \/ e.end < n + 1
    BY <1>4, <2>1
  <2>7. QED
    BY <2>2, <2>3, <2>4, <2>5, <2>6
<1>12. g[upTo] = Merged(text, edits)[upTo]
  BY <1>2, <1>10, <1>11, MergedOnly
<1>13. upTo \in 0 .. upTo
  BY <1>1
<1>14. QED
  BY <1>3, <1>9, <1>12, <1>13 DEF middle, low, e, after

-----------------------------------------------------------------------------
(***************************************************************************)
(* One edit applied.                                                       *)
(***************************************************************************)

\* The bytes of a text between two offsets.
LEMMA Slice ==
    ASSUME NEW text \in Seq(Bytes), NEW from \in Nat, NEW to \in Nat,
           from <= to, to <= Len(text)
    PROVE  /\ SubSeq(text, from + 1, to) \in Seq(Bytes)
           /\ Len(SubSeq(text, from + 1, to)) = to - from
           /\ \A i \in 1 .. to - from : SubSeq(text, from + 1, to)[i] = text[from + i]
<1>1. Len(text) \in Nat
  OBVIOUS
<1>2. \A i \in from + 1 .. to : text[i] \in Bytes
  BY <1>1
<1>3. from + 1 \in Int /\ to \in Int
  OBVIOUS
<1>4. /\ SubSeq(text, from + 1, to) \in Seq(Bytes)
      /\ Len(SubSeq(text, from + 1, to)) =
             IF from + 1 <= to THEN to - (from + 1) + 1 ELSE 0
  BY <1>2, <1>3, SubSeqProperties
<1>5. Len(SubSeq(text, from + 1, to)) = to - from
  BY <1>4
<1>6. ASSUME NEW i \in 1 .. to - from
      PROVE  SubSeq(text, from + 1, to)[i] = text[from + i]
  BY <1>1
<1>7. QED
  BY <1>4, <1>5, <1>6

\* The start of a text and what follows it, taken apart.
LEMMA PrefixAndRest ==
    ASSUME NEW text \in Seq(Bytes), NEW upTo \in 0 .. Len(text),
           NEW edited \in Seq(Bytes)
    PROVE  LET both == SubSeq(text, 1, upTo) \o edited
           IN  /\ SubSeq(text, 1, upTo) \in Seq(Bytes)
               /\ both \in Seq(Bytes)
               /\ Len(both) = upTo + Len(edited)
               /\ \A i \in 1 .. upTo : both[i] = text[i]
               /\ \A i \in 1 .. Len(edited) : both[upTo + i] = edited[i]
<1> DEFINE first == SubSeq(text, 1, upTo)
<1>1. upTo \in Nat /\ Len(text) \in Nat /\ Len(edited) \in Nat
  OBVIOUS
<1>2. /\ first \in Seq(Bytes) /\ Len(first) = upTo
      /\ \A i \in 1 .. upTo : first[i] = text[i]
  OBVIOUS
<1> HIDE DEF first
<1>3. /\ first \o edited \in Seq(Bytes)
      /\ Len(first \o edited) = upTo + Len(edited)
      /\ \A i \in 1 .. upTo + Len(edited) :
             (first \o edited)[i] = IF i <= upTo THEN first[i] ELSE edited[i - upTo]
  BY <1>1, <1>2
<1>4. \A i \in 1 .. upTo : (first \o edited)[i] = text[i]
  BY <1>1, <1>2, <1>3
<1>5. ASSUME NEW i \in 1 .. Len(edited)
      PROVE  (first \o edited)[upTo + i] = edited[i]
  <2>1. /\ upTo + i \in 1 .. upTo + Len(edited)
        /\ ~ (upTo + i <= upTo) /\ (upTo + i) - upTo = i
    BY <1>1
  <2>2. QED
    BY <1>3, <2>1
<1>6. QED
  BY <1>2, <1>3, <1>4, <1>5 DEF first

\* What follows the start of a text is found again behind it.
LEMMA RestFound ==
    ASSUME NEW text \in Seq(Bytes), NEW upTo \in 0 .. Len(text),
           NEW edited \in Seq(Bytes), NEW both,
           both = SubSeq(text, 1, upTo) \o edited
    PROVE  SubSeq(both, upTo + 1, Len(both)) = edited
<1>1. upTo \in Nat /\ Len(edited) \in Nat
  OBVIOUS
<1>2. /\ both \in Seq(Bytes) /\ Len(both) = upTo + Len(edited)
      /\ \A i \in 1 .. Len(edited) : both[upTo + i] = edited[i]
  BY PrefixAndRest
<1> DEFINE found == SubSeq(both, upTo + 1, Len(both))
<1>3. found \in Seq(Bytes) /\ Len(found) = Len(edited)
  BY <1>1, <1>2
<1>4. \A i \in 1 .. Len(edited) : found[i] = both[upTo + i]
  BY <1>1, <1>2
<1> HIDE DEF found
<1>5. \A i \in 1 .. Len(found) : found[i] = edited[i]
  BY <1>2, <1>3, <1>4
<1>6. found = edited
  BY <1>3, <1>5, SeqEqual
<1>7. QED
  BY <1>6 DEF found

\* A text with one edit in it, and what is already edited behind an offset.
Spliced(text, upTo, edited, e) ==
    SubSeq(text, 1, e.start)
        \o (e.new \o (SubSeq(text, e.end + 1, upTo) \o edited))

\* replace_range before what is already edited: the text before the span, the
\* new text, the text behind the span and what is already edited.
LEMMA ReplacedBefore ==
    ASSUME NEW text \in Seq(Bytes), NEW upTo \in 0 .. Len(text),
           NEW edited \in Seq(Bytes), NEW e \in Edits,
           e.start <= e.end, e.end <= upTo, NEW both,
           both = SubSeq(text, 1, upTo) \o edited
    PROVE  Replaced(both, e) = Spliced(text, upTo, edited, e)
<1> DEFINE before == SubSeq(text, 1, e.start)
           between == SubSeq(text, e.end + 1, upTo)
<1>1. /\ upTo \in Nat /\ Len(edited) \in Nat /\ Len(text) \in Nat
      /\ e.start \in Nat /\ e.end \in Nat /\ e.new \in Seq(Bytes)
  BY DEF Edits
<1>2. /\ both \in Seq(Bytes) /\ Len(both) = upTo + Len(edited)
      /\ \A i \in 1 .. upTo : both[i] = text[i]
      /\ \A i \in 1 .. Len(edited) : both[upTo + i] = edited[i]
  BY PrefixAndRest
<1>3. SubSeq(both, 1, e.start) = before /\ before \in Seq(Bytes)
  <2>1. /\ SubSeq(both, 1, e.start) \in Seq(Bytes) /\ before \in Seq(Bytes)
        /\ Len(SubSeq(both, 1, e.start)) = e.start /\ Len(before) = e.start
        /\ \A i \in 1 .. e.start : SubSeq(both, 1, e.start)[i] = both[i]
        /\ \A i \in 1 .. e.start : before[i] = text[i]
    BY <1>1, <1>2
  <2>2. \A i \in 1 .. e.start : i \in 1 .. upTo
    BY <1>1
  <2> HIDE DEF before
  <2>3. \A i \in 1 .. e.start : SubSeq(both, 1, e.start)[i] = before[i]
    BY <1>2, <2>1, <2>2
  <2>4. SubSeq(both, 1, e.start) = before
    BY <2>1, <2>3, SeqEqual
  <2>5. QED
    BY <2>1, <2>4
<1>4. /\ between \in Seq(Bytes) /\ Len(between) = upTo - e.end
      /\ \A i \in 1 .. upTo - e.end : between[i] = text[e.end + i]
  <2>1. e.end <= upTo /\ upTo <= Len(text) /\ e.end \in Nat /\ upTo \in Nat
    BY <1>1
  <2>2. QED
    BY <2>1, Slice, Zenon
<1> DEFINE behind == SubSeq(both, e.end + 1, Len(both))
<1>5. /\ behind \in Seq(Bytes) /\ Len(behind) = (upTo - e.end) + Len(edited)
      /\ \A i \in 1 .. (upTo - e.end) + Len(edited) : behind[i] = both[e.end + i]
  <2>1. /\ e.end <= Len(both) /\ Len(both) <= Len(both) /\ Len(both) \in Nat
        /\ Len(both) - e.end = (upTo - e.end) + Len(edited)
    BY <1>1, <1>2
  <2>2. /\ behind \in Seq(Bytes) /\ Len(behind) = Len(both) - e.end
        /\ \A i \in 1 .. Len(both) - e.end : behind[i] = both[e.end + i]
    <3>1. e.end \in Nat /\ both \in Seq(Bytes)
      BY <1>1, <1>2
    <3>2. QED
      BY <2>1, <3>1, Slice, Zenon
  <2>3. QED
    BY <2>1, <2>2
<1> HIDE DEF before, between, behind
<1>6. behind = between \o edited
  <2> DEFINE joined == between \o edited
  <2>1. /\ joined \in Seq(Bytes) /\ Len(joined) = (upTo - e.end) + Len(edited)
        /\ \A i \in 1 .. (upTo - e.end) + Len(edited) :
               joined[i] = IF i <= upTo - e.end
                           THEN between[i] ELSE edited[i - (upTo - e.end)]
    <3>1. /\ joined \in Seq(Bytes) /\ Len(joined) = Len(between) + Len(edited)
          /\ \A i \in 1 .. Len(between) + Len(edited) :
                 joined[i] = IF i <= Len(between)
                             THEN between[i] ELSE edited[i - Len(between)]
      BY <1>4, ConcatProperties
    <3>2. QED
      <4> HIDE DEF joined
      <4>1. QED
        BY <1>4, <3>1
  <2> HIDE DEF joined
  <2>2. ASSUME NEW i \in 1 .. (upTo - e.end) + Len(edited)
        PROVE  behind[i] = joined[i]
    <3>1. CASE i <= upTo - e.end
      <4>1. i \in 1 .. upTo - e.end /\ e.end + i \in 1 .. upTo
        BY <1>1, <3>1
      <4>2. both[e.end + i] = text[e.end + i]
        BY <1>2, <4>1
      <4>3. between[i] = text[e.end + i]
        BY <1>4, <4>1
      <4>4. joined[i] = between[i]
        BY <2>1, <3>1
      <4>5. QED
        BY <1>5, <4>2, <4>3, <4>4
    <3>2. CASE ~ (i <= upTo - e.end)
      <4>1. /\ i - (upTo - e.end) \in 1 .. Len(edited)
            /\ upTo + (i - (upTo - e.end)) = e.end + i
        BY <1>1, <3>2
      <4>2. both[e.end + i] = edited[i - (upTo - e.end)]
        BY <1>2, <4>1
      <4>3. joined[i] = edited[i - (upTo - e.end)]
        BY <2>1, <3>2
      <4>4. QED
        BY <1>5, <4>2, <4>3
    <3>3. QED
      BY <3>1, <3>2
  <2>3. \A i \in 1 .. Len(behind) : behind[i] = joined[i]
    BY <1>5, <2>2
  <2>4. behind = joined
    BY <1>5, <2>1, <2>3, SeqEqual
  <2>5. QED
    BY <2>4 DEF joined
<1>7. Replaced(both, e) = (before \o e.new) \o behind
  BY <1>3 DEF Replaced, behind
<1>8. behind \in Seq(Bytes)
  BY <1>5
<1>9. (before \o e.new) \o behind = before \o (e.new \o behind)
  BY <1>1, <1>3, <1>8, TextsJoin, Zenon
<1>10. QED
  BY <1>6, <1>7, <1>9 DEF before, between, Spliced

\* An offset into the part not edited yet is still a boundary.
LEMMA BoundaryKept ==
    ASSUME NEW text \in Seq(Bytes), NEW upTo \in 0 .. Len(text),
           NEW edited \in Seq(Bytes), NEW both,
           both = SubSeq(text, 1, upTo) \o edited,
           edited # <<>> => edited[1] \notin Continuation,
           NEW at \in 0 .. upTo, at \in Boundaries(text)
    PROVE  at \in Boundaries(both)
<1>1. upTo \in Nat /\ Len(edited) \in Nat /\ Len(text) \in Nat
  OBVIOUS
<1>2. /\ both \in Seq(Bytes) /\ Len(both) = upTo + Len(edited)
      /\ \A i \in 1 .. upTo : both[i] = text[i]
      /\ \A i \in 1 .. Len(edited) : both[upTo + i] = edited[i]
  BY PrefixAndRest
<1>3. at \in 0 .. Len(both)
  BY <1>1, <1>2
<1>4. CASE at < upTo
  <2>1. at + 1 \in 1 .. upTo /\ at # Len(text)
    BY <1>1, <1>4
  <2>2. both[at + 1] = text[at + 1]
    BY <1>2, <2>1
  <2>3. text[at + 1] \notin Continuation
    BY <2>1 DEF Boundaries
  <2>4. QED
    BY <1>3, <2>2, <2>3 DEF Boundaries
<1>5. CASE at = upTo /\ edited = <<>>
  <2>1. at = Len(both)
    BY <1>1, <1>2, <1>5
  <2>2. QED
    BY <1>3, <2>1 DEF Boundaries
<1>6. CASE at = upTo /\ edited # <<>>
  <2>1. 1 \in 1 .. Len(edited)
    BY <1>1, <1>6
  <2>2. both[at + 1] = edited[1]
    BY <1>2, <1>6, <2>1
  <2>3. QED
    BY <1>3, <1>6, <2>2 DEF Boundaries
<1>7. QED
  BY <1>1, <1>4, <1>5, <1>6

-----------------------------------------------------------------------------
(***************************************************************************)
(* The theorems.                                                           *)
(***************************************************************************)

\* The text, the request and the boundary check are those of the start.
GivenInv ==
    /\ original \in Buffers
    /\ request \in EditLists
    /\ checked \in BOOLEAN

\* A text is the original up to an offset, and edited from there on: what the
\* edits that remain mean up to that offset is all that is missing.
Halfway(text, edits, both, meaning, upTo, edited) ==
    /\ Fits(text, edits, upTo)
    /\ edited \in Seq(Bytes)
    /\ both = SubSeq(text, 1, upTo) \o edited
    /\ edited # <<>> => edited[1] \notin Continuation
    /\ meaning = Merged(text, edits)[upTo] \o edited

EditsInv ==
    Valid /\ Disjoint /\ DistinctStarts =>
        /\ status \in {"editing", "done"}
        /\ status = "done" => rest = <<>>
        /\ \E upTo \in 0 .. Len(original) :
               Halfway(original, rest, buf, Simultaneous,
                       upTo, SubSeq(buf, upTo + 1, Len(buf)))

Inv == GivenInv /\ EditsInv

\* Without edits a text means itself.
LEMMA MergedNothing ==
    ASSUME NEW text \in Seq(Bytes), NEW upTo \in 0 .. Len(text)
    PROVE  Merged(text, <<>>)[upTo] = SubSeq(text, 1, upTo)
<1> DEFINE f == [n \in 0 .. upTo |-> SubSeq(text, 1, n)]
<1>1. Len(text) \in Nat /\ upTo \in Nat /\ <<>> \in Seq(Edits)
  OBVIOUS
<1>2. \A n \in 0 .. upTo : f[n] = SubSeq(text, 1, n)
  OBVIOUS
<1> HIDE DEF f
<1>3. ASSUME NEW n \in 0 .. upTo
      PROVE  /\ n = 0 => Piece(text, <<>>, n) = <<>>
             /\ n # 0 => Piece(text, <<>>, n) = <<text[n]>>
  <2>1. ~ Covered(<<>>, n) /\ NewAt(<<>>, n) = <<>>
    <3>1. DOMAIN <<>> = {}
      OBVIOUS
    <3>2. QED
      BY <3>1 DEF Covered, NewAt
  <2>2. Piece(text, <<>>, n) = (IF n = 0 THEN <<>> ELSE <<text[n]>>) \o <<>>
    BY <2>1 DEF Piece
  <2>3. n # 0 => text[n] \in Bytes
    BY <1>1
  <2>4. QED
    BY <2>2, <2>3
<1>4. f[0] = Piece(text, <<>>, 0)
  <2>1. 0 \in 0 .. upTo
    BY <1>1
  <2>2. SubSeq(text, 1, 0) = <<>>
    OBVIOUS
  <2>3. QED
    BY <1>2, <1>3, <2>1, <2>2
<1>5. ASSUME NEW n \in 0 .. upTo - 1
      PROVE  f[n + 1] = f[n] \o Piece(text, <<>>, n + 1)
  <2>1. /\ n \in 0 .. upTo /\ n + 1 \in 0 .. upTo /\ n + 1 # 0
        /\ 1 \in 1 .. Len(text) /\ n + 1 \in 1 .. Len(text) /\ (n + 1) - 1 = n
    BY <1>1
  <2>2. SubSeq(text, 1, n + 1) = SubSeq(text, 1, (n + 1) - 1) \o <<text[n + 1]>>
    BY <2>1, SubSeqRecursiveSecond
  <2>3. f[n + 1] = SubSeq(text, 1, n + 1) /\ f[n] = SubSeq(text, 1, n)
    BY <1>2, <2>1
  <2>4. Piece(text, <<>>, n + 1) = <<text[n + 1]>>
    BY <1>3, <2>1
  <2>5. QED
    BY <2>1, <2>2, <2>3, <2>4
<1>6. f[upTo] = Merged(text, <<>>)[upTo]
  BY <1>1, <1>4, <1>5, MergedOnly
<1>7. QED
  BY <1>1, <1>2, <1>6

\* The constants' assumptions on what is given.
LEMMA GivenTypes ==
    ASSUME GivenInv
    PROVE  /\ original \in Seq(Bytes)
           /\ request \in Seq(Edits)
           /\ \A i \in DOMAIN request :
                  request[i].new # <<>> => request[i].new[1] \notin Continuation
BY BuffersAssumption, EditListsAssumption DEF GivenInv

\* The sorted edits fit the text, and mean what the request means.
LEMMA SortedFits ==
    ASSUME GivenInv, Valid, Disjoint, DistinctStarts
    PROVE  /\ Fits(original, Sorted(request), Len(original))
           /\ Merged(original, Sorted(request))[Len(original)] = Simultaneous
<1> DEFINE sorted == Sorted(request)
           n == Len(request)
<1>1. /\ original \in Seq(Bytes) /\ request \in Seq(Edits)
      /\ \A i \in DOMAIN request :
             request[i].new # <<>> => request[i].new[1] \notin Continuation
  BY GivenTypes
<1>2. n \in Nat /\ DOMAIN request = 1 .. n /\ Len(original) \in Nat
  BY <1>1
<1>3. PICK at \in Bijection(DOMAIN request, DOMAIN request) :
          /\ sorted = [p \in DOMAIN request |-> request[at[p]]]
          /\ \A p, q \in DOMAIN request :
                 p < q => Precedes(request, at[p], at[q])
  BY <1>1, SortedPermutes
<1>4. /\ at \in [1 .. n -> 1 .. n]
      /\ \A i \in 1 .. n : \E p \in 1 .. n : at[p] = i
      /\ \A p, q \in 1 .. n : at[p] = at[q] => p = q
  BY <1>2, <1>3 DEF Bijection, Injection, IsInjective, Surjection
<1>5. /\ DOMAIN sorted = 1 .. n
      /\ \A p \in 1 .. n : sorted[p] = request[at[p]] /\ at[p] \in 1 .. n
  BY <1>2, <1>3, <1>4
<1>6. \A i \in 1 .. n : request[i] \in Edits
  BY <1>1, <1>2
<1>7. sorted \in Seq(Edits) /\ Len(sorted) = n
  <2>1. sorted \in [1 .. n -> Edits]
    BY <1>2, <1>3, <1>5, <1>6
  <2> HIDE DEF sorted
  <2>2. QED
    BY <1>2, <2>1
<1> HIDE DEF sorted, n
<1>8. \A i \in 1 .. n : request[i].start \in Nat /\ request[i].end \in Nat
  BY <1>6 DEF Edits
<1>9. ASSUME NEW p \in DOMAIN sorted
      PROVE  /\ sorted[p].start <= sorted[p].end
             /\ sorted[p].end <= Len(original)
             /\ OnBoundaries(original, sorted[p])
             /\ sorted[p].new # <<>> => sorted[p].new[1] \notin Continuation
  BY <1>1, <1>2, <1>5 DEF Valid
<1>10. ASSUME NEW p \in DOMAIN sorted, NEW q \in DOMAIN sorted, p < q
       PROVE  /\ sorted[q].start < sorted[p].start
              /\ sorted[q].end <= sorted[p].start
  <2>1. p \in 1 .. n /\ q \in 1 .. n /\ p # q
    BY <1>2, <1>5, <1>10
  <2>2. at[p] \in 1 .. n /\ at[q] \in 1 .. n /\ at[p] # at[q]
    BY <1>4, <2>1
  <2>3. Precedes(request, at[p], at[q])
    BY <1>2, <1>3, <1>10, <2>1
  <2>4. request[at[p]].start # request[at[q]].start
    BY <1>2, <2>2 DEF DistinctStarts
  <2>5. request[at[q]].start < request[at[p]].start
    BY <1>8, <2>2, <2>3, <2>4 DEF Precedes
  <2>6. \/ request[at[p]].end <= request[at[q]].start
        \/ request[at[q]].end <= request[at[p]].start
    BY <1>2, <2>2 DEF Disjoint
  <2>7. request[at[p]].start <= request[at[p]].end
    BY <1>2, <2>2 DEF Valid
  <2>8. request[at[q]].end <= request[at[p]].start
    BY <1>8, <2>2, <2>5, <2>6, <2>7
  <2>9. sorted[p] = request[at[p]] /\ sorted[q] = request[at[q]]
    BY <1>5, <2>1
  <2>10. QED
    BY <2>5, <2>8, <2>9
<1>11. Fits(original, sorted, Len(original))
  BY <1>7, <1>9, <1>10 DEF Fits
<1>12. ASSUME NEW offset \in 0 .. Len(original)
       PROVE  Piece(original, sorted, offset) = Piece(original, request, offset)
  <2>1. Covered(sorted, offset) <=> Covered(request, offset)
    <3>1. Covered(sorted, offset) => Covered(request, offset)
      BY <1>2, <1>5 DEF Covered
    <3>2. Covered(request, offset) => Covered(sorted, offset)
      <4>1. ASSUME NEW i \in 1 .. n
            PROVE  \E p \in 1 .. n : sorted[p] = request[i]
        <5>1. PICK p \in 1 .. n : at[p] = i
          BY <1>4
        <5>2. sorted[p] = request[at[p]]
          BY <1>5
        <5>3. QED
          BY <5>1, <5>2
      <4>2. QED
        BY <1>2, <1>5, <4>1 DEF Covered
    <3>3. QED
      BY <3>1, <3>2
  <2>2. NewAt(sorted, offset) = NewAt(request, offset)
    <3>1. CASE \E p \in DOMAIN sorted : sorted[p].start = offset
      <4>1. PICK p \in DOMAIN sorted : sorted[p].start = offset
        BY <3>1
      <4>2. NewAt(sorted, sorted[p].start) = sorted[p].new
        <5>1. \A j \in DOMAIN sorted : sorted[j].start = sorted[p].start => j = p
          BY <1>11, FitsDistinct
        <5>2. QED
          BY <5>1, NewAtStart
      <4>3. at[p] \in DOMAIN request /\ request[at[p]] = sorted[p]
        BY <1>2, <1>5
      <4>4. NewAt(request, request[at[p]].start) = request[at[p]].new
        <5>1. \A j \in DOMAIN request :
                  request[j].start = request[at[p]].start => j = at[p]
          BY <4>3 DEF DistinctStarts
        <5>2. QED
          BY <4>3, <5>1, NewAtStart
      <4>5. QED
        BY <4>1, <4>2, <4>3, <4>4
    <3>2. CASE ~ \E p \in DOMAIN sorted : sorted[p].start = offset
      <4>1. ~ \E i \in DOMAIN request : request[i].start = offset
        BY <1>2, <1>4, <1>5, <3>2
      <4>2. QED
        BY <3>2, <4>1 DEF NewAt
    <3>3. QED
      BY <3>1, <3>2
  <2>3. QED
    BY <2>1, <2>2 DEF Piece
<1>13. Merged(original, sorted)[Len(original)] = Simultaneous
  <2> DEFINE f == Merged(original, sorted)
  <2>1. /\ f[0] = Piece(original, sorted, 0)
        /\ \A m \in 0 .. Len(original) - 1 :
               f[m + 1] = f[m] \o Piece(original, sorted, m + 1)
    BY <1>1, <1>7, MergedDefined
  <2> HIDE DEF f
  <2>2. f[0] = Piece(original, request, 0)
    <3>1. 0 \in 0 .. Len(original)
      BY <1>2
    <3>2. QED
      BY <1>12, <2>1, <3>1
  <2>3. ASSUME NEW m \in 0 .. Len(original) - 1
        PROVE  f[m + 1] = f[m] \o Piece(original, request, m + 1)
    <3>1. m + 1 \in 0 .. Len(original)
      BY <1>2
    <3>2. QED
      BY <1>12, <2>1, <3>1
  <2>4. Len(original) \in 0 .. Len(original)
    BY <1>2
  <2>5. f[Len(original)] = Merged(original, request)[Len(original)]
    BY <1>1, <2>2, <2>3, <2>4, MergedOnly
  <2>6. QED
    BY <2>5 DEF f, Simultaneous
<1>14. QED
  BY <1>11, <1>13 DEF sorted

\* An edit that fits is accepted, and once it is applied the text is halfway
\* at its start.
LEMMA HalfwayOn ==
    ASSUME NEW text \in Seq(Bytes), NEW edits, NEW both, NEW meaning,
           NEW upTo \in 0 .. Len(text), NEW edited,
           Halfway(text, edits, both, meaning, upTo, edited), edits # <<>>
    PROVE  /\ Head(edits).start <= Head(edits).end
           /\ Head(edits).end <= Len(both)
           /\ OnBoundaries(both, Head(edits))
           /\ \E at \in 0 .. Len(text), more \in Seq(Bytes) :
                  Halfway(text, Tail(edits), Replaced(both, Head(edits)),
                          meaning, at, more)
<1> DEFINE e == Head(edits)
           behind == SubSeq(text, e.end + 1, upTo)
           kept == behind \o edited
           more == e.new \o kept
<1>1. /\ edited \in Seq(Bytes)
      /\ both = SubSeq(text, 1, upTo) \o edited
      /\ Fits(text, edits, upTo)
      /\ edited # <<>> => edited[1] \notin Continuation
      /\ meaning = Merged(text, edits)[upTo] \o edited
  BY DEF Halfway
<1>2. /\ e \in Edits /\ e = edits[1] /\ 1 \in DOMAIN edits
      /\ Tail(edits) \in Seq(Edits)
      /\ Fits(text, Tail(edits), e.start)
  BY <1>1, TailFits
<1>3. /\ e.start <= e.end /\ e.end <= upTo
      /\ OnBoundaries(text, e)
      /\ e.new # <<>> => e.new[1] \notin Continuation
  BY <1>1, <1>2 DEF Fits
<1> HIDE DEF e
<1>4. /\ e.start \in Nat /\ e.end \in Nat /\ e.new \in Seq(Bytes)
      /\ upTo \in Nat /\ Len(text) \in Nat /\ upTo <= Len(text)
  <2>1. e.start \in Nat /\ e.end \in Nat /\ e.new \in Seq(Bytes)
    BY <1>2 DEF Edits
  <2>2. QED
    BY <2>1
<1>5. OnBoundaries(both, e)
  <2>1. e.start \in 0 .. upTo /\ e.end \in 0 .. upTo
    BY <1>3, <1>4
  <2>2. e.start \in Boundaries(text) /\ e.end \in Boundaries(text)
    BY <1>3 DEF OnBoundaries
  <2>3. e.start \in Boundaries(both)
    BY <1>1, <2>1, <2>2, BoundaryKept
  <2>4. e.end \in Boundaries(both)
    BY <1>1, <2>1, <2>2, BoundaryKept
  <2>5. QED
    BY <2>3, <2>4 DEF OnBoundaries
<1>6. Len(both) = upTo + Len(edited) /\ Len(edited) \in Nat
  BY <1>1, PrefixAndRest
<1>7. e.start <= e.end /\ e.end <= Len(both)
  BY <1>3, <1>4, <1>6
<1>8. /\ behind \in Seq(Bytes) /\ Len(behind) = upTo - e.end
      /\ \A i \in 1 .. upTo - e.end : behind[i] = text[e.end + i]
  BY <1>1, <1>3, <1>4, Slice, Zenon
<1> HIDE DEF behind
<1>9. kept \in Seq(Bytes) /\ (kept # <<>> => kept[1] \notin Continuation)
  <2>1. CASE e.end < upTo
    <3>1. 1 \in 1 .. upTo - e.end /\ 1 \in 1 .. Len(behind)
      BY <1>4, <1>8, <2>1
    <3>2. behind[1] = text[e.end + 1]
      BY <1>8, <3>1
    <3>3. text[e.end + 1] \notin Continuation
      <4>1. e.end # Len(text)
        BY <1>4, <2>1
      <4>2. QED
        BY <1>3, <4>1 DEF OnBoundaries, Boundaries
    <3>4. kept \in Seq(Bytes) /\ kept[1] = behind[1]
      BY <1>1, <1>8, <3>1
    <3>5. QED
      <4> HIDE DEF kept
      <4>1. QED
        BY <3>2, <3>3, <3>4
  <2>2. CASE e.end = upTo
    <3>1. behind = <<>>
      BY <1>4, <1>8, <2>2
    <3>2. kept = edited
      BY <1>1, <3>1
    <3>3. QED
      <4> HIDE DEF kept
      <4>1. QED
        BY <1>1, <3>2
  <2>3. QED
    BY <1>3, <1>4, <2>1, <2>2
<1>10. more \in Seq(Bytes) /\ (more # <<>> => more[1] \notin Continuation)
  <2> HIDE DEF kept
  <2>1. CASE e.new = <<>>
    <3>1. more = kept
      BY <1>9, <2>1
    <3> HIDE DEF more
    <3>2. QED
      BY <1>9, <3>1
  <2>2. CASE e.new # <<>>
    <3>1. more \in Seq(Bytes) /\ more[1] = e.new[1]
      BY <1>4, <1>9, <2>2
    <3> HIDE DEF more
    <3>2. QED
      BY <1>3, <2>2, <3>1
  <2>3. QED
    BY <2>1, <2>2
<1>11. Replaced(both, e) = SubSeq(text, 1, e.start) \o more
  <2>1. Replaced(both, e) = Spliced(text, upTo, edited, e)
    BY <1>1, <1>2, <1>3, ReplacedBefore
  <2>2. QED
    BY <2>1 DEF Spliced, behind
<1>12. meaning = Merged(text, Tail(edits))[e.start] \o more
  <2> DEFINE low == Merged(text, Tail(edits))[e.start]
  <2>1. Merged(text, edits)[upTo] = (low \o e.new) \o behind
    BY <1>1, MergedAround DEF e, behind
  <2>2. low \in Seq(Bytes)
    <3>1. e.start \in 0 .. Len(text)
      BY <1>3, <1>4
    <3>2. QED
      BY <1>1, <1>2, <3>1, MergedDefined
  <2> HIDE DEF low
  <2>3. low \o e.new \in Seq(Bytes)
    BY <1>4, <2>2
  <2>4. ((low \o e.new) \o behind) \o edited = (low \o e.new) \o kept
    BY <1>1, <1>8, <2>3, TextsJoin, Zenon
  <2>5. (low \o e.new) \o kept = low \o more
    <3> HIDE DEF kept
    <3>1. QED
      BY <1>4, <1>9, <2>2, TextsJoin, Zenon DEF more
  <2>6. QED
    BY <1>1, <2>1, <2>4, <2>5 DEF low
<1>13. e.start \in 0 .. Len(text)
  BY <1>3, <1>4
<1>14. Halfway(text, Tail(edits), Replaced(both, e), meaning, e.start, more)
  <2> HIDE DEF more, kept
  <2>1. QED
    BY <1>2, <1>10, <1>11, <1>12 DEF Halfway
<1>15. \E at \in 0 .. Len(text), add \in Seq(Bytes) :
           Halfway(text, Tail(edits), Replaced(both, e), meaning, at, add)
  <2> HIDE DEF more
  <2>1. QED
    BY <1>10, <1>13, <1>14
<1>16. QED
  BY <1>5, <1>7, <1>15 DEF e

\* The text is taken apart again at the offset it is edited from.
LEMMA HalfwayFound ==
    ASSUME NEW text \in Seq(Bytes), NEW edits, NEW both, NEW meaning,
           NEW upTo \in 0 .. Len(text), NEW edited,
           Halfway(text, edits, both, meaning, upTo, edited)
    PROVE  Halfway(text, edits, both, meaning,
                   upTo, SubSeq(both, upTo + 1, Len(both)))
<1>1. SubSeq(both, upTo + 1, Len(both)) = edited
  BY RestFound DEF Halfway
<1>2. QED
  BY <1>1

\* At the start the whole text is the original and every edit remains.
LEMMA HalfwayFirst ==
    ASSUME GivenInv, Valid, Disjoint, DistinctStarts
    PROVE  Halfway(original, Sorted(request), original, Simultaneous,
                   Len(original), <<>>)
<1>1. /\ original \in Seq(Bytes)
      /\ Fits(original, Sorted(request), Len(original))
      /\ Merged(original, Sorted(request))[Len(original)] = Simultaneous
  BY GivenTypes, SortedFits
<1>2. Sorted(request) \in Seq(Edits) /\ Len(original) \in 0 .. Len(original)
  BY <1>1 DEF Fits
<1>3. Simultaneous \in Seq(Bytes)
  BY <1>1, <1>2, MergedDefined
<1>4. SubSeq(original, 1, Len(original)) = original
  BY <1>1, SubSeqFull
<1>5. /\ original \o <<>> = original
      /\ Simultaneous \o <<>> = Simultaneous
  <2> HIDE DEF Simultaneous
  <2>1. QED
    BY <1>1, <1>3, ConcatEmptySeq
<1>6. <<>> \in Seq(Bytes)
  OBVIOUS
<1>7. QED
  BY <1>1, <1>4, <1>5, <1>6 DEF Halfway

\* When no edit remains the text is what the edits mean.
LEMMA HalfwayLast ==
    ASSUME NEW text \in Seq(Bytes), NEW both, NEW meaning,
           NEW upTo \in 0 .. Len(text), NEW edited,
           Halfway(text, <<>>, both, meaning, upTo, edited)
    PROVE  both = meaning
BY MergedNothing DEF Halfway

\* The invariant holds at the start.
LEMMA InvInit == EditInit => Inv
<1> SUFFICES ASSUME EditInit PROVE Inv
  OBVIOUS
<1>1. GivenInv
  BY DEF EditInit, GivenInv
<1>2. ASSUME Valid, Disjoint, DistinctStarts
      PROVE  \E upTo \in 0 .. Len(original) :
                 Halfway(original, rest, buf, Simultaneous,
                         upTo, SubSeq(buf, upTo + 1, Len(buf)))
  <2>1. original \in Seq(Bytes) /\ Len(original) \in 0 .. Len(original)
    BY <1>1, GivenTypes
  <2>2. Halfway(original, rest, buf, Simultaneous, Len(original), <<>>)
    BY <1>1, <1>2, HalfwayFirst DEF EditInit
  <2>3. Halfway(original, rest, buf, Simultaneous,
                Len(original), SubSeq(buf, Len(original) + 1, Len(buf)))
    BY <2>1, <2>2, HalfwayFound
  <2>4. QED
    BY <2>1, <2>3
<1>3. EditsInv
  BY <1>2 DEF EditsInv, EditInit
<1>4. QED
  BY <1>1, <1>3 DEF Inv

\* The invariant is kept by every step.
LEMMA InvNext == Inv /\ [EditNext]_editVars => Inv'
<1> SUFFICES ASSUME Inv, [EditNext]_editVars PROVE Inv'
  OBVIOUS
<1>1. GivenInv /\ EditsInv
  BY DEF Inv
<1>2. UNCHANGED <<original, request, checked>>
  BY DEF EditNext, Apply, Reject, Panic, Finish, Stop, editVars
<1>3. GivenInv'
  BY <1>1, <1>2 DEF GivenInv
<1>4. /\ Valid' <=> Valid
      /\ Disjoint' <=> Disjoint
      /\ DistinctStarts' <=> DistinctStarts
      /\ Simultaneous' = Simultaneous
  BY <1>2 DEF Valid, Disjoint, DistinctStarts, Simultaneous
<1>5. ASSUME Valid, Disjoint, DistinctStarts
      PROVE  /\ status' \in {"editing", "done"}
             /\ status' = "done" => rest' = <<>>
             /\ \E upTo \in 0 .. Len(original) :
                    Halfway(original, rest', buf', Simultaneous,
                            upTo, SubSeq(buf', upTo + 1, Len(buf')))
  <2>1. original \in Seq(Bytes)
    BY <1>1, GivenTypes
  <2>2. /\ status \in {"editing", "done"}
        /\ status = "done" => rest = <<>>
    BY <1>1, <1>5 DEF EditsInv
  <2>3. PICK upTo \in 0 .. Len(original) :
            Halfway(original, rest, buf, Simultaneous,
                    upTo, SubSeq(buf, upTo + 1, Len(buf)))
    BY <1>1, <1>5 DEF EditsInv
  <2> DEFINE edited == SubSeq(buf, upTo + 1, Len(buf))
  <2> HIDE DEF edited
  <2>4. Halfway(original, rest, buf, Simultaneous, upTo, edited)
    BY <2>3 DEF edited
  <2>5. ASSUME rest # <<>>
        PROVE  /\ Accepted(buf, Head(rest)) /\ ~ Panics(buf, Head(rest))
               /\ \E at \in 0 .. Len(original), more \in Seq(Bytes) :
                      Halfway(original, Tail(rest), Replaced(buf, Head(rest)),
                              Simultaneous, at, more)
    <3> HIDE DEF Simultaneous
    <3>1. /\ Head(rest).start <= Head(rest).end
          /\ Head(rest).end <= Len(buf)
          /\ OnBoundaries(buf, Head(rest))
          /\ \E at \in 0 .. Len(original), more \in Seq(Bytes) :
                 Halfway(original, Tail(rest), Replaced(buf, Head(rest)),
                         Simultaneous, at, more)
      BY <2>1, <2>4, <2>5, HalfwayOn
    <3>2. QED
      BY <3>1 DEF Accepted, Panics
  <2>6. CASE Apply
    <3>1. /\ rest # <<>> /\ status' = status /\ status = "editing"
          /\ buf' = Replaced(buf, Head(rest)) /\ rest' = Tail(rest)
      BY <2>6 DEF Apply
    <3>2. PICK at \in 0 .. Len(original), more \in Seq(Bytes) :
              Halfway(original, rest', buf', Simultaneous, at, more)
      BY <2>5, <3>1
    <3>3. Halfway(original, rest', buf', Simultaneous,
                  at, SubSeq(buf', at + 1, Len(buf')))
      BY <2>1, <3>2, HalfwayFound
    <3>4. QED
      BY <2>2, <3>1, <3>3
  <2>7. CASE Reject
    BY <2>5, <2>7 DEF Reject
  <2>8. CASE Panic
    BY <2>5, <2>8 DEF Panic
  <2>9. CASE Finish
    <3>1. status' = "done" /\ rest' = <<>> /\ rest' = rest /\ buf' = buf
      BY <2>9 DEF Finish, Stop
    <3>2. QED
      BY <2>3, <3>1
  <2>10. CASE UNCHANGED editVars
    <3>1. status' = status /\ rest' = rest /\ buf' = buf
      BY <2>10 DEF editVars
    <3>2. QED
      BY <2>2, <2>3, <3>1
  <2>11. QED
    BY <2>6, <2>7, <2>8, <2>9, <2>10 DEF EditNext
<1>6. EditsInv'
  BY <1>2, <1>4, <1>5 DEF EditsInv
<1>7. QED
  BY <1>3, <1>6 DEF Inv

\* apply_edits and apply_src_edits do with edits that fit the text, do not
\* overlap and start at different offsets what the edits mean when they are
\* all taken at once: none of them is refused or panics, whatever the order
\* they came in, and however the earlier ones change the length of the text.
THEOREM DisjointEditsAlwaysApply == EditSpec => []DisjointEditsApply
<1>1. Inv => DisjointEditsApply
  <2>1. ASSUME Inv, Valid, Disjoint, DistinctStarts, status = "done"
        PROVE  buf = Simultaneous
    <3>1. original \in Seq(Bytes) /\ rest = <<>>
      BY <2>1, GivenTypes DEF Inv, EditsInv
    <3>2. PICK upTo \in 0 .. Len(original) :
              Halfway(original, <<>>, buf, Simultaneous,
                      upTo, SubSeq(buf, upTo + 1, Len(buf)))
      BY <2>1, <3>1 DEF Inv, EditsInv
    <3> HIDE DEF Simultaneous
    <3>3. QED
      BY <3>1, <3>2, HalfwayLast
  <2>2. QED
    BY <2>1 DEF Inv, EditsInv, DisjointEditsApply
<1>2. QED
  BY <1>1, InvInit, InvNext, PTL DEF EditSpec

\* A fix's edits never panic, whatever they are: with boundaries checked
\* against the text as it is by then, replace_range meets only spans it takes.
THEOREM FixesNeverPanicAlways == EditSpec => []FixesNeverPanic
<1>1. EditInit => FixesNeverPanic
  BY DEF EditInit, FixesNeverPanic
<1>2. FixesNeverPanic /\ [EditNext]_editVars => FixesNeverPanic'
  <2> SUFFICES ASSUME FixesNeverPanic, [EditNext]_editVars PROVE FixesNeverPanic'
    OBVIOUS
  <2>1. CASE Apply
    BY <2>1 DEF Apply, FixesNeverPanic
  <2>2. CASE Reject
    BY <2>2 DEF Reject, Stop, FixesNeverPanic
  <2>3. CASE Panic
    <3>1. ~ checked
      BY <2>3 DEF Panic, Accepted, Panics
    <3>2. QED
      BY <2>3, <3>1 DEF Panic, Stop, FixesNeverPanic
  <2>4. CASE Finish
    BY <2>4 DEF Finish, Stop, FixesNeverPanic
  <2>5. CASE UNCHANGED editVars
    BY <2>5 DEF editVars, FixesNeverPanic
  <2>6. QED
    BY <2>1, <2>2, <2>3, <2>4, <2>5 DEF EditNext
<1>3. QED
  BY <1>1, <1>2, PTL DEF EditSpec
====
