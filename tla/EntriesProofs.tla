--------------------------- MODULE EntriesProofs ---------------------------
(***************************************************************************)
(* What appending to a sequence does, to the sequence and to the entries   *)
(* that EntriesAt selects from it.                                         *)
(***************************************************************************)
EXTENDS Entries, FiniteSetTheorems, TLAPS

\* What appending does to a sequence.
LEMMA AppendFacts ==
  ASSUME NEW X, NEW s \in Seq(X), NEW x \in X
  PROVE  /\ Append(s, x) \in Seq(X) /\ Append(s, x) # <<>>
         /\ Len(Append(s, x)) = Len(s) + 1
         /\ Append(s, x)[Len(s) + 1] = x
         /\ \A i \in DOMAIN s : Append(s, x)[i] = s[i]
         /\ DOMAIN Append(s, x) = 1..(Len(s) + 1)
         /\ DOMAIN s = 1..Len(s) /\ Len(s) \in Nat
  OBVIOUS

\* Positions of a sequence are finitely many, and so are those up to one.
LEMMA PositionsFinite ==
  ASSUME NEW n \in Nat, NEW I \in SUBSET (1..n)
  PROVE  /\ IsFiniteSet(I) /\ Cardinality(I) \in Nat
         /\ \A i : /\ IsFiniteSet(I \cap 1..i)
                   /\ Rank(I, i) \in Nat /\ Rank(I, i) <= Cardinality(I)
<1>1. IsFiniteSet(I)
  <2>1. IsFiniteSet(1..n)
    BY FS_Interval
  <2> QED
    BY <2>1, FS_Subset
<1>2. ASSUME NEW i
      PROVE  IsFiniteSet(I \cap 1..i) /\ Cardinality(I \cap 1..i) <= Cardinality(I)
  <2>1. I \cap 1..i \in SUBSET I
    OBVIOUS
  <2> QED
    BY <1>1, <2>1, FS_Subset
<1> QED
  BY <1>1, <1>2, FS_CardinalityType DEF Rank

\* The positions' ranks are exactly 1 up to their number.
LEMMA RankOnto ==
  ASSUME NEW n \in Nat, NEW I \in SUBSET (1..n)
  PROVE  \A j \in 1..Cardinality(I) : \E i \in I : Rank(I, i) = j
<1> DEFINE f == [i \in I |-> Rank(I, i)]
<1> DEFINE C == Cardinality(I)
<1>1. IsFiniteSet(I) /\ C \in Nat
  BY PositionsFinite
<1>2. ASSUME NEW i \in I
      PROVE  Rank(I, i) \in 1..C
  <2>1. I \cap 1..i # {}
    OBVIOUS
  <2>2. IsFiniteSet(I \cap 1..i)
    BY PositionsFinite
  <2>3. Rank(I, i) # 0
    BY <2>1, <2>2, FS_EmptySet, Zenon DEF Rank
  <2>4. Rank(I, i) \in Nat /\ Rank(I, i) <= C
    BY PositionsFinite
  <2> QED
    BY <1>1, <2>3, <2>4
<1>3. ASSUME NEW i \in I, NEW k \in I, i < k
      PROVE  Rank(I, i) # Rank(I, k)
  <2>1. I \cap 1..i \in SUBSET (I \cap 1..k) /\ I \cap 1..i # I \cap 1..k
    BY <1>3
  <2> QED
    BY <2>1, PositionsFinite, FS_Subset DEF Rank
<1>4. f \in Injection(I, 1..C)
  <2>1. f \in [I -> 1..C]
    BY <1>2
  <2>2. \A i, k \in I : f[i] = f[k] => i = k
    BY <1>3
  <2> QED
    BY <2>1, <2>2 DEF Injection, IsInjective
<1>5. IsFiniteSet(1..C) /\ Cardinality(1..C) = C
  BY <1>1, FS_Interval
<1>6. f \in Surjection(I, 1..C)
  BY <1>4, <1>5, FS_Injection
<1> QED
  BY <1>6 DEF Surjection

\* Each number up to theirs has its position.
LEMMA NthType ==
  ASSUME NEW n \in Nat, NEW I \in SUBSET (1..n), NEW j \in 1..Cardinality(I)
  PROVE  Nth(I, j) \in I /\ Rank(I, Nth(I, j)) = j
<1>1. \E i \in I : Rank(I, i) = j
  BY RankOnto
<1> QED
  BY <1>1, Zenon DEF Nth

\* A position behind all the others is the last, and moves none of them.
LEMMA NthAdd ==
  ASSUME NEW n \in Nat, NEW I \in SUBSET (1..n)
  PROVE  LET K == I \cup {n + 1}
         IN  /\ Cardinality(K) = Cardinality(I) + 1
             /\ \A j \in 1..Cardinality(I) : Nth(K, j) = Nth(I, j)
             /\ Nth(K, Cardinality(I) + 1) = n + 1
<1> DEFINE K == I \cup {n + 1}
           C == Cardinality(I)
<1>1. /\ n + 1 \notin I /\ \A i \in I : i \in 1..n
      /\ IsFiniteSet(I) /\ C \in Nat
  <2>1. IsFiniteSet(I) /\ C \in Nat
    BY PositionsFinite
  <2>2. n + 1 \notin 1..n
    OBVIOUS
  <2> QED
    BY <2>1, <2>2
<1>2. Cardinality(K) = C + 1
  BY <1>1, FS_AddElement
<1>3. ASSUME NEW i \in I
      PROVE  Rank(K, i) = Rank(I, i) /\ Rank(I, i) # C + 1
  <2>1. K \cap 1..i = I \cap 1..i
    <3>1. n + 1 \notin 1..i
      BY <1>1
    <3> QED
      BY <3>1
  <2>2. Rank(I, i) \in Nat /\ Rank(I, i) <= C
    BY PositionsFinite
  <2>3. Rank(K, i) = Rank(I, i)
    BY <2>1, Zenon DEF Rank
  <2> QED
    BY <1>1, <2>2, <2>3
<1>4. Rank(K, n + 1) = C + 1
  <2>1. K \cap 1..(n + 1) = K
    <3>1. \A i \in K : i \in 1..(n + 1)
      BY <1>1
    <3> QED
      BY <3>1, Zenon
  <2> QED
    BY <1>2, <2>1, Zenon DEF Rank
<1>5. ASSUME NEW j \in 1..C
      PROVE  Nth(K, j) = Nth(I, j)
  <2>1. \A i : i \in K /\ Rank(K, i) = j <=> i \in I /\ Rank(I, i) = j
    <3>1. Rank(K, n + 1) # j
      BY <1>1, <1>4
    <3> QED
      BY <1>3, <3>1, Zenon
  <2>2. Nth(K, j) = CHOOSE k : k \in K /\ Rank(K, k) = j
    BY Zenon DEF Nth
  <2>3. Nth(I, j) = CHOOSE k : k \in I /\ Rank(I, k) = j
    BY Zenon DEF Nth
  <2> QED
    BY <2>1, <2>2, <2>3, Zenon
<1>6. Nth(K, C + 1) = n + 1
  <2>1. \A i \in K : Rank(K, i) = C + 1 <=> i = n + 1
    BY <1>3, <1>4
  <2>2. n + 1 \in K
    OBVIOUS
  <2> HIDE DEF K
  <2> QED
    BY <2>1, <2>2, Zenon DEF Nth
<1> QED
  BY <1>2, <1>5, <1>6, Zenon

-----------------------------------------------------------------------------
\* EntriesAt returns a sequence, one entry for each position, each of them an
\* entry of s at a selected position.
LEMMA EntriesType ==
  ASSUME NEW X, NEW s \in Seq(X), NEW I \in SUBSET (1..Len(s))
  PROVE  /\ EntriesAt(s, I) \in Seq(X)
         /\ Len(EntriesAt(s, I)) = Cardinality(I)
         /\ \A j \in 1..Cardinality(I) : \E i \in I : EntriesAt(s, I)[j] = s[i]
<1>1. Len(s) \in Nat
  OBVIOUS
<1>2. Cardinality(I) \in Nat
  BY <1>1, PositionsFinite
<1>3. \A j \in 1..Cardinality(I) : Nth(I, j) \in I
  BY <1>1, NthType
<1>4. \A j \in 1..Cardinality(I) : s[Nth(I, j)] \in X
  <2>1. \A i \in I : s[i] \in X
    OBVIOUS
  <2> QED
    BY <1>3, <2>1, Zenon
<1>5. EntriesAt(s, I) = [j \in 1..Cardinality(I) |-> s[Nth(I, j)]]
  BY Zenon DEF EntriesAt
<1>6. EntriesAt(s, I) \in Seq(X) /\ Len(EntriesAt(s, I)) = Cardinality(I)
  BY <1>2, <1>4, <1>5
<1> QED
  BY <1>3, <1>5, <1>6, Zenon

\* No position selected, nothing selected.
LEMMA EntriesEmpty ==
  ASSUME NEW s
  PROVE  EntriesAt(s, {}) = <<>>
<1>1. Cardinality({}) = 0
  BY FS_EmptySet
<1> QED
  BY <1>1 DEF EntriesAt

\* An entry appended and not selected changes nothing.
LEMMA EntriesAppendOut ==
  ASSUME NEW X, NEW s \in Seq(X), NEW e \in X, NEW I \in SUBSET (1..Len(s))
  PROVE  EntriesAt(Append(s, e), I) = EntriesAt(s, I)
<1>1. Len(s) \in Nat
  OBVIOUS
<1>2. \A j \in 1..Cardinality(I) : Nth(I, j) \in I
  BY <1>1, NthType
<1>3. \A i \in I : Append(s, e)[i] = s[i]
  OBVIOUS
<1> QED
  BY <1>2, <1>3 DEF EntriesAt

\* An entry appended and selected is appended to what was selected.
LEMMA EntriesAppendIn ==
  ASSUME NEW X, NEW s \in Seq(X), NEW e \in X, NEW I \in SUBSET (1..Len(s))
  PROVE  EntriesAt(Append(s, e), I \cup {Len(s) + 1}) = Append(EntriesAt(s, I), e)
<1> DEFINE K == I \cup {Len(s) + 1}
           C == Cardinality(I)
<1>1. Len(s) \in Nat
  OBVIOUS
<1>2. C \in Nat /\ \A j \in 1..C : Nth(I, j) \in I
  BY <1>1, PositionsFinite, NthType
<1>3. /\ Cardinality(K) = C + 1
      /\ \A j \in 1..C : Nth(K, j) = Nth(I, j)
      /\ Nth(K, C + 1) = Len(s) + 1
  BY <1>1, NthAdd
<1>4. \A i \in I : Append(s, e)[i] = s[i]
  OBVIOUS
<1>5. Append(s, e)[Len(s) + 1] = e
  OBVIOUS
<1>6. EntriesAt(s, I) \in Seq(X) /\ Len(EntriesAt(s, I)) = C
  BY EntriesType
<1>7. EntriesAt(s, I) = [j \in 1..C |-> s[Nth(I, j)]]
  BY Zenon DEF EntriesAt
<1>8. EntriesAt(Append(s, e), K) = [j \in 1..(C + 1) |-> Append(s, e)[Nth(K, j)]]
  BY <1>3, Zenon DEF EntriesAt
<1> HIDE DEF K, C
<1>9. Append(EntriesAt(s, I), e) =
         [j \in 1..(C + 1) |-> IF j = C + 1 THEN e ELSE s[Nth(I, j)]]
  BY <1>2, <1>6, <1>7
<1>10. EntriesAt(Append(s, e), K) =
         [j \in 1..(C + 1) |-> IF j = C + 1 THEN e ELSE s[Nth(I, j)]]
  <2>1. ASSUME NEW j \in 1..(C + 1)
        PROVE  Append(s, e)[Nth(K, j)] = IF j = C + 1 THEN e ELSE s[Nth(I, j)]
    <3>1. CASE j = C + 1
      BY <1>3, <1>5, <3>1
    <3>2. CASE j # C + 1
      <4>1. j \in 1..C
        BY <1>2, <3>2
      <4>2. Nth(K, j) = Nth(I, j) /\ Nth(I, j) \in I
        BY <1>2, <1>3, <4>1
      <4>3. Append(s, e)[Nth(I, j)] = s[Nth(I, j)]
        BY <1>4, <4>2, Zenon
      <4> QED
        BY <3>2, <4>2, <4>3
    <3> QED
      BY <3>1, <3>2
  <2> QED
    BY <1>8, <2>1
<1> QED
  BY <1>9, <1>10 DEF K

\* Each selected position has its place, and distinct places have distinct
\* positions.
LEMMA NthOnto ==
  ASSUME NEW n \in Nat, NEW I \in SUBSET (1..n)
  PROVE  /\ \A i \in I : \E j \in 1..Cardinality(I) : Nth(I, j) = i
         /\ \A j, k \in 1..Cardinality(I) : Nth(I, j) = Nth(I, k) => j = k
<1> DEFINE C == Cardinality(I)
<1>1. IsFiniteSet(I) /\ C \in Nat
  BY PositionsFinite
<1>2. \A j \in 1..C : Nth(I, j) \in I /\ Rank(I, Nth(I, j)) = j
  BY NthType
<1>3. \A j, k \in 1..C : Nth(I, j) = Nth(I, k) => j = k
  BY <1>2, Zenon
<1>4. IsFiniteSet(1..C) /\ Cardinality(1..C) = C
  BY <1>1, FS_Interval
<1> DEFINE f == [j \in 1..C |-> Nth(I, j)]
<1> HIDE DEF C
<1>5. f \in Injection(1..C, I)
  BY <1>2, <1>3 DEF Injection, IsInjective
<1>6. f \in Surjection(1..C, I)
  BY <1>1, <1>4, <1>5, FS_Injection DEF C
<1> QED
  BY <1>3, <1>6 DEF Surjection, C

\* Every selected entry is there, and once if s has it once.
LEMMA EntriesOnce ==
  ASSUME NEW X, NEW s \in Seq(X), NEW I \in SUBSET (1..Len(s))
  PROVE  /\ \A i \in I : \E j \in DOMAIN EntriesAt(s, I) : EntriesAt(s, I)[j] = s[i]
         /\ (\A i, k \in DOMAIN s : s[i] = s[k] => i = k) =>
              \A j, k \in DOMAIN EntriesAt(s, I) :
                EntriesAt(s, I)[j] = EntriesAt(s, I)[k] => j = k
<1>1. Len(s) \in Nat /\ DOMAIN s = 1..Len(s)
  OBVIOUS
<1>2. \A j \in 1..Cardinality(I) : Nth(I, j) \in I
  BY <1>1, NthType
<1>3. /\ \A i \in I : \E j \in 1..Cardinality(I) : Nth(I, j) = i
      /\ \A j, k \in 1..Cardinality(I) : Nth(I, j) = Nth(I, k) => j = k
  BY <1>1, NthOnto
<1>4. EntriesAt(s, I) = [j \in 1..Cardinality(I) |-> s[Nth(I, j)]]
  BY Zenon DEF EntriesAt
<1>5. /\ DOMAIN EntriesAt(s, I) = 1..Cardinality(I)
      /\ \A j \in 1..Cardinality(I) : EntriesAt(s, I)[j] = s[Nth(I, j)]
  BY <1>4
<1>6. \A i \in I : \E j \in DOMAIN EntriesAt(s, I) : EntriesAt(s, I)[j] = s[i]
  BY <1>3, <1>5, Zenon
<1>7. \A j \in 1..Cardinality(I) : Nth(I, j) \in DOMAIN s
  BY <1>1, <1>2, Zenon
<1>8. ASSUME \A i, k \in DOMAIN s : s[i] = s[k] => i = k,
             NEW j \in DOMAIN EntriesAt(s, I), NEW k \in DOMAIN EntriesAt(s, I),
             EntriesAt(s, I)[j] = EntriesAt(s, I)[k]
      PROVE  j = k
  <2>1. j \in 1..Cardinality(I) /\ k \in 1..Cardinality(I)
    BY <1>5, <1>8, Zenon
  <2>2. s[Nth(I, j)] = s[Nth(I, k)]
    BY <1>5, <1>8, <2>1, Zenon
  <2>3. Nth(I, j) = Nth(I, k)
    BY <1>7, <1>8, <2>1, <2>2, Zenon
  <2> QED
    BY <1>3, <2>1, <2>3, Zenon
<1> QED
  BY <1>6, <1>8, Zenon
=============================================================================
