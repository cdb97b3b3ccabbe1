---------------------------- MODULE RouterProofs ----------------------------
(***************************************************************************)
(* Proofs about Router, for any patterns, paths and limits: the trees      *)
(* record what was registered, and matchRecursive, which is a recursive    *)
(* function, finds in them what the reference says.  The induction over    *)
(* the segments that are left goes through sets of numbers: the library's  *)
(* theorem that every set of numbers has a least element takes no operator *)
(* as a parameter.                                                         *)
(***************************************************************************)
EXTENDS Router, EntriesProofs, WellFoundedInduction, TLAPS

-----------------------------------------------------------------------------
(* Induction and recursion over numbers *)

\* A set of numbers that is not empty has a least element.
LEMMA LeastNat ==
  ASSUME NEW T \in SUBSET Nat, T # {}
  PROVE  \E x \in T : \A y \in T : x <= y
<1> DEFINE R == {ss \in Nat \X Nat : ss[1] < ss[2]}
<1>1. IsWellFoundedOn(OpToRel(<, Nat), Nat)
  BY NatLessThanWellFounded, Zenon
<1>2. IsWellFoundedOn(R, Nat)
  BY <1>1, Zenon DEF OpToRel
<1>3. PICK x \in T : \A y \in T : ~(<<y, x>> \in R)
  BY <1>2, WFMin
<1>4. \A y \in T : ~(y < x)
  BY <1>3
<1>5. \A y \in T : x <= y
  BY <1>4
<1> QED
  BY <1>5

\* Induction: a set with 0 and with the successors of its numbers has them all.
LEMMA NatSetInduction ==
  ASSUME NEW S, 0 \in S, \A n \in Nat : n \in S => n + 1 \in S
  PROVE  Nat \subseteq S
<1> DEFINE T == Nat \ S
<1>1. SUFFICES ASSUME T # {} PROVE FALSE
  OBVIOUS
<1>2. PICK x \in T : \A y \in T : x <= y
  <2>1. T \in SUBSET Nat
    OBVIOUS
  <2> HIDE DEF T
  <2> QED
    BY <1>1, <2>1, LeastNat
<1>3. x # 0 /\ x \in Nat
  BY <1>2
<1>4. x - 1 \in Nat /\ x - 1 \notin T
  BY <1>2, <1>3
<1> QED
  BY <1>3, <1>4

\* The first n + 1 values of matchRecursive's function.
IsStart(tree, path, g, n) ==
  g = [k \in 0..n |-> MatchNode(tree, path, k, g[k - 1])]

\* With no segment left there is no deeper call.
LEMMA BottomNode ==
  ASSUME NEW tree, NEW path, NEW d, NEW e
  PROVE  MatchNode(tree, path, 0, d) = MatchNode(tree, path, 0, e)
BY Zenon DEF MatchNode

\* With no segment left every call is settled by the node's own route.
LEMMA BottomCalls ==
  ASSUME NEW tree, NEW path, NEW d
  PROVE  \A c \in DOMAIN tree, q \in Params :
           MatchNode(tree, path, 0, d)[<<c, q>>] = MatchEnd(tree, c, q)
<1>1. TAKE c \in DOMAIN tree, q \in Params
<1>2. <<c, q>> \in (DOMAIN tree) \X Params /\ <<c, q>>[1] = c /\ <<c, q>>[2] = q
  BY Zenon
<1> QED
  BY <1>2, Zenon DEF MatchNode

\* A call with segments left goes through the literals first.
LEMMA InnerCalls ==
  ASSUME NEW tree, NEW path, NEW left, left # 0, NEW d
  PROVE  \A c \in DOMAIN tree, q \in Params :
           MatchNode(tree, path, left, d)[<<c, q>>]
             = MatchStatic(tree, path, Len(SegmentsOf(path)) - left + 1, c, q, d)
<1>1. TAKE c \in DOMAIN tree, q \in Params
<1>2. <<c, q>> \in (DOMAIN tree) \X Params /\ <<c, q>>[1] = c /\ <<c, q>>[2] = q
  BY Zenon
<1> QED
  BY <1>2, Zenon DEF MatchNode

\* Two starts agree where both are defined.
LEMMA StartsAgree ==
  ASSUME NEW tree, NEW path, NEW m \in Nat, NEW n \in Nat, NEW g, NEW h,
         IsStart(tree, path, g, m), IsStart(tree, path, h, n)
  PROVE  \A k \in Nat : k <= m /\ k <= n => g[k] = h[k]
<1> DEFINE S == {k \in Nat : k <= m /\ k <= n => g[k] = h[k]}
<1>1. \A k \in 0..m : g[k] = MatchNode(tree, path, k, g[k - 1])
  BY Zenon DEF IsStart
<1>2. \A k \in 0..n : h[k] = MatchNode(tree, path, k, h[k - 1])
  BY Zenon DEF IsStart
<1>3. 0 \in S
  <2>1. g[0] = MatchNode(tree, path, 0, g[0 - 1]) /\ h[0] = MatchNode(tree, path, 0, h[0 - 1])
    BY <1>1, <1>2
  <2> QED
    BY <2>1, BottomNode
<1>4. ASSUME NEW k \in Nat, k \in S PROVE k + 1 \in S
  <2>1. SUFFICES ASSUME k + 1 <= m, k + 1 <= n PROVE g[k + 1] = h[k + 1]
    OBVIOUS
  <2>2. g[k] = h[k]
    BY <1>4, <2>1
  <2>3. k + 1 \in 0..m /\ k + 1 \in 0..n /\ (k + 1) - 1 = k
    BY <2>1
  <2>4. g[k + 1] = MatchNode(tree, path, k + 1, g[k])
    BY <1>1, <2>3
  <2>5. h[k + 1] = MatchNode(tree, path, k + 1, h[k])
    BY <1>2, <2>3
  <2> QED
    BY <2>2, <2>4, <2>5
<1> HIDE DEF S
<1>5. Nat \subseteq S
  BY <1>3, <1>4, NatSetInduction
<1> QED
  BY <1>5 DEF S

\* There is a start of every length.
LEMMA StartExists ==
  ASSUME NEW tree, NEW path
  PROVE  \A n \in Nat : \E g : IsStart(tree, path, g, n)
<1> DEFINE S == {n \in Nat : \E g : IsStart(tree, path, g, n)}
<1>1. 0 \in S
  <2> DEFINE g == [k \in 0..0 |-> MatchNode(tree, path, k, <<>>)]
  <2>1. g = [k \in 0..0 |-> MatchNode(tree, path, k, g[k - 1])]
    <3>1. \A k \in 0..0 : k = 0
      OBVIOUS
    <3>2. \A k \in 0..0 : MatchNode(tree, path, k, <<>>) = MatchNode(tree, path, k, g[k - 1])
      BY <3>1, BottomNode
    <3> QED
      BY <3>2, Zenon
  <2> QED
    BY <2>1, Zenon DEF IsStart
<1>2. ASSUME NEW n \in Nat, n \in S PROVE n + 1 \in S
  <2>1. PICK g : IsStart(tree, path, g, n)
    BY <1>2
  <2> DEFINE h == [k \in 0..(n + 1) |-> IF k = n + 1 THEN MatchNode(tree, path, n + 1, g[n])
                                        ELSE g[k]]
  <2>2. \A k \in 0..(n + 1) :
          (IF k = n + 1 THEN MatchNode(tree, path, n + 1, g[n]) ELSE g[k])
            = MatchNode(tree, path, k, h[k - 1])
    <3>1. TAKE k \in 0..(n + 1)
    <3>2. CASE k = n + 1
      <4>1. h[k - 1] = g[n]
        BY <3>2
      <4> QED
        BY <3>2, <4>1
    <3>3. CASE k # n + 1 /\ k # 0
      <4>1. k \in 0..n /\ k - 1 \in 0..(n + 1) /\ k - 1 # n + 1
        BY <3>3
      <4>2. h[k - 1] = g[k - 1]
        BY <4>1
      <4>3. g[k] = MatchNode(tree, path, k, g[k - 1])
        BY <2>1, <4>1, Zenon DEF IsStart
      <4> QED
        BY <3>3, <4>2, <4>3
    <3>4. CASE k = 0
      <4>1. 0 \in 0..n /\ 0 # n + 1
        OBVIOUS
      <4>2. g[0] = MatchNode(tree, path, 0, g[0 - 1])
        BY <2>1, <4>1, Zenon DEF IsStart
      <4> QED
        BY <3>4, <4>1, <4>2, BottomNode
    <3> QED
      BY <3>2, <3>3, <3>4
  <2>3. h = [k \in 0..(n + 1) |-> MatchNode(tree, path, k, h[k - 1])]
    BY <2>2, Zenon
  <2>4. IsStart(tree, path, h, n + 1)
    BY <2>3, Zenon DEF IsStart
  <2> HIDE DEF h
  <2> QED
    BY <2>4
<1> HIDE DEF S
<1>3. Nat \subseteq S
  BY <1>1, <1>2, NatSetInduction
<1> QED
  BY <1>3 DEF S

\* matchRecursive is what its definition says: each call from those one deeper.
LEMMA MatchUnfolds ==
  ASSUME NEW tree, NEW path
  PROVE  \A k \in Nat :
           MatchRecursive(tree, path)[k]
             = MatchNode(tree, path, k, MatchRecursive(tree, path)[k - 1])
<1> DEFINE G(n) == CHOOSE g : IsStart(tree, path, g, n)
           f == [k \in Nat |-> G(k)[k]]
           m == MatchRecursive(tree, path)
<1>1. \A n \in Nat : IsStart(tree, path, G(n), n)
  BY StartExists, Zenon
<1> HIDE DEF G
<1>2. \A k \in Nat : f[k] = MatchNode(tree, path, k, f[k - 1])
  <2>1. TAKE k \in Nat
  <2>2. k \in 0..k /\ IsStart(tree, path, G(k), k)
    BY <1>1
  <2>3. G(k)[k] = MatchNode(tree, path, k, G(k)[k - 1])
    BY <2>2, Zenon DEF IsStart
  <2>4. CASE k = 0
    BY <2>3, <2>4, BottomNode
  <2>5. CASE k # 0
    <3>1. k - 1 \in Nat /\ k - 1 <= k
      BY <2>5
    <3>2. IsStart(tree, path, G(k - 1), k - 1)
      BY <1>1, <3>1
    <3>3. G(k)[k - 1] = G(k - 1)[k - 1]
      BY <2>2, <3>1, <3>2, StartsAgree
    <3> QED
      BY <2>3, <3>1, <3>3
  <2> QED
    BY <2>4, <2>5
<1>3. f = [k \in Nat |-> MatchNode(tree, path, k, f[k - 1])]
  BY <1>2, Zenon
<1>4. m = CHOOSE g : g = [k \in Nat |-> MatchNode(tree, path, k, g[k - 1])]
  BY Zenon DEF MatchRecursive
<1> HIDE DEF f
<1>5. m = [k \in Nat |-> MatchNode(tree, path, k, m[k - 1])]
  BY <1>3, <1>4, Zenon
<1> HIDE DEF m
<1>6. \A k \in Nat : m[k] = MatchNode(tree, path, k, m[k - 1])
  BY <1>5, Zenon
<1> QED
  BY <1>6, Zenon DEF m

-----------------------------------------------------------------------------
(* Segments and nodes *)

\* The segments of a path are strings, as many as its offsets.
LEMMA SegmentFacts ==
  ASSUME NEW path \in Seq(STRING)
  PROVE  /\ SegmentsOf(path) \in Seq(STRING) /\ Len(SegmentsOf(path)) \in Nat
         /\ DOMAIN SegmentsOf(path) = 1..Len(SegmentsOf(path))
         /\ DOMAIN Offsets(path) = 1..Len(SegmentsOf(path))
         /\ \A j \in 1..Len(SegmentsOf(path)) :
              /\ Offsets(path)[j] \in 1..Len(path)
              /\ SegmentsOf(path)[j] = path[Offsets(path)[j]]
<1> DEFINE I == {i \in DOMAIN path : path[i] # ""}
           s == [i \in DOMAIN path |-> i]
           n == Cardinality(I)
<1>1. DOMAIN path = 1..Len(path) /\ Len(path) \in Nat
  OBVIOUS
<1>2. s \in Seq(1..Len(path)) /\ Len(s) = Len(path) /\ I \in SUBSET (1..Len(path))
  <2>1. s = [i \in 1..Len(path) |-> i] /\ I \in SUBSET (1..Len(path))
    BY <1>1
  <2>2. ASSUME NEW len \in Nat
        PROVE  [i \in 1..len |-> i] \in Seq(1..len) /\ Len([i \in 1..len |-> i]) = len
    OBVIOUS
  <2>3. [i \in 1..Len(path) |-> i] \in Seq(1..Len(path))
        /\ Len([i \in 1..Len(path) |-> i]) = Len(path)
    BY <1>1, <2>2
  <2> HIDE DEF s
  <2> QED
    BY <2>1, <2>3
<1>3. Offsets(path) = EntriesAt(s, I)
  BY Zenon DEF Offsets
<1>4. n \in Nat
  BY <1>1, <1>2, PositionsFinite
<1> HIDE DEF s, I
<1>5. EntriesAt(s, I) \in Seq(1..Len(path)) /\ Len(EntriesAt(s, I)) = n
  BY <1>2, EntriesType
<1>6. Offsets(path) \in [1..n -> 1..Len(path)]
  BY <1>3, <1>4, <1>5
<1>7. SegmentsOf(path) = [j \in 1..n |-> path[Offsets(path)[j]]]
  BY <1>6 DEF SegmentsOf
<1>8. \A j \in 1..n : path[Offsets(path)[j]] \in STRING
  BY <1>1, <1>6
<1>9. SegmentsOf(path) \in Seq(STRING) /\ Len(SegmentsOf(path)) = n
  BY <1>4, <1>7, <1>8
<1> QED
  BY <1>4, <1>6, <1>7, <1>9

\* What follows the first keys of a node is below it.
Below(n, x) == Len(n) <= Len(x) /\ \A j \in DOMAIN n : x[j] = n[j]

\* The node after the first j keys.
Up(x, j) == [l \in 1..j |-> x[l]]

\* Parts as they are found in nodes: only a literal keeps its text.
Keys == {Static(s) : s \in STRING} \cup {Param, Wildcard}

\* Kinds and texts of keys.
LEMMA KeyFacts ==
  /\ Param \in Keys /\ Wildcard \in Keys /\ \A s \in STRING : Static(s) \in Keys
  /\ Param.kind = "param" /\ Wildcard.kind = "wildcard"
  /\ \A s : Static(s).kind = "static" /\ Static(s).text = s
<1>1. /\ Param.kind = "param" /\ Wildcard.kind = "wildcard"
      /\ \A s : Static(s).kind = "static" /\ Static(s).text = s
  BY DEF Param, Wildcard, Static
<1>2. /\ Param \in Keys /\ Wildcard \in Keys /\ \A s \in STRING : Static(s) \in Keys
  BY Zenon DEF Keys
<1> QED
  BY <1>1, <1>2

LEMMA KeyCases ==
  ASSUME NEW k \in Keys
  PROVE  /\ k.kind = "static" \/ k.kind = "param" \/ k.kind = "wildcard"
         /\ k.kind = "static" => k = Static(k.text)
         /\ k.kind = "param" => k = Param
         /\ k.kind = "wildcard" => k = Wildcard
<1>1. k = Param \/ k = Wildcard \/ \E s \in STRING : k = Static(s)
  BY Zenon DEF Keys
<1> QED
  BY <1>1, KeyFacts

\* What the search relies on, and insertRoute provides where a wildcard can only
\* be the last part: nodes are made with all those above them, and a wildcard has
\* a route.
GoodTree(tree) ==
  /\ DOMAIN tree \subseteq Seq(Keys)
  /\ \A x \in DOMAIN tree : \A j \in 0..Len(x) : Up(x, j) \in DOMAIN tree
  /\ \A x \in DOMAIN tree : tree[x].route \in Nat
  /\ \A x \in DOMAIN tree : \A j \in DOMAIN x :
       /\ x[j].kind # "static" => tree[Up(x, j)].param_name \in Names
       /\ x[j].kind = "wildcard" => j = Len(x) /\ tree[x].route # NoRoute

LEMMA UpFacts ==
  ASSUME NEW X, NEW x \in Seq(X), NEW j \in 0..Len(x)
  PROVE  /\ Up(x, j) \in Seq(X) /\ Len(Up(x, j)) = j /\ DOMAIN Up(x, j) = 1..j
         /\ \A l \in 1..j : Up(x, j)[l] = x[l]
         /\ Below(Up(x, j), x)
<1>1. Len(x) \in Nat /\ DOMAIN x = 1..Len(x) /\ \A l \in 1..Len(x) : x[l] \in X
  OBVIOUS
<1>2. j \in Nat /\ \A l \in 1..j : l \in 1..Len(x)
  BY <1>1
<1>3. Up(x, j) \in Seq(X) /\ Len(Up(x, j)) = j
  BY <1>1, <1>2 DEF Up
<1>4. DOMAIN Up(x, j) = 1..j /\ \A l \in 1..j : Up(x, j)[l] = x[l]
  BY <1>2 DEF Up
<1> QED
  BY <1>1, <1>2, <1>3, <1>4 DEF Below

\* Sequences are equal when their lengths and entries are.
LEMMA SameSeq ==
  ASSUME NEW X, NEW x \in Seq(X), NEW y \in Seq(X), Len(x) = Len(y),
         \A j \in 1..Len(x) : x[j] = y[j]
  PROVE  x = y
<1>1. x \in [1..Len(x) -> X] /\ y \in [1..Len(x) -> X]
  OBVIOUS
<1> QED
  BY <1>1

LEMMA UpWhole ==
  ASSUME NEW X, NEW x \in Seq(X)
  PROVE  Up(x, Len(x)) = x
<1>1. Len(x) \in 0..Len(x)
  OBVIOUS
<1> QED
  BY <1>1, UpFacts, SameSeq

\* The node one key further down.
LEMMA UpNext ==
  ASSUME NEW n \in Seq(Keys), NEW x \in Seq(Keys), Below(n, x), Len(n) < Len(x)
  PROVE  /\ Up(x, Len(n) + 1) = Append(n, x[Len(n) + 1])
         /\ x[Len(n) + 1] \in Keys
<1> DEFINE j == Len(n) + 1
           a == Append(n, x[j])
           u == Up(x, j)
<1>1. Len(n) \in Nat /\ Len(x) \in Nat /\ j \in 1..Len(x) /\ j \in 0..Len(x)
      /\ DOMAIN n = 1..Len(n)
  OBVIOUS
<1>2. x[j] \in Keys
  BY <1>1
<1>3. a \in Seq(Keys) /\ Len(a) = j /\ a[j] = x[j] /\ \A l \in DOMAIN n : a[l] = n[l]
  BY <1>2, AppendFacts
<1>4. u \in Seq(Keys) /\ Len(u) = j /\ \A l \in 1..j : u[l] = x[l]
  BY <1>1, UpFacts
<1>5. \A l \in 1..j : u[l] = a[l]
  <2>1. TAKE l \in 1..j
  <2>2. CASE l = j
    BY <1>3, <1>4, <2>2
  <2>3. CASE l # j
    <3>1. l \in DOMAIN n
      BY <1>1, <2>3
    <3>2. x[l] = n[l]
      BY <3>1 DEF Below
    <3> QED
      BY <1>3, <1>4, <3>1, <3>2
  <2> QED
    BY <2>2, <2>3
<1> HIDE DEF a, u, j
<1>6. u = a
  BY <1>3, <1>4, <1>5, SameSeq
<1> QED
  BY <1>2, <1>6 DEF a, u, j

-----------------------------------------------------------------------------
(* One call of matchRecursive *)

\* The search can stand at this node: what led to it describes the path so far.
Along(n, path) ==
  \A j \in DOMAIN n : /\ n[j].kind # "wildcard"
                      /\ n[j].kind = "static" => n[j].text = SegmentsOf(path)[j]

\* The nodes below n whose routes the path may be given.
Targets(tree, path, n) ==
  {x \in DOMAIN tree : Describes(x, path) /\ tree[x].route # NoRoute /\ Below(n, x)}

\* Where a call from n with segments left may end up.
LEMMA Children ==
  ASSUME NEW tree, NEW path \in Seq(STRING), GoodTree(tree),
         NEW n \in DOMAIN tree, Along(n, path), Len(n) < Len(SegmentsOf(path)),
         NEW y \in Targets(tree, path, n)
  PROVE  LET i == Len(n) + 1
             c == Append(n, y[i])
         IN  /\ i \in 1..Len(y) /\ y[i] \in Keys
             /\ c \in DOMAIN tree
             /\ y[i].kind = "static" => y[i] = Static(SegmentsOf(path)[i])
             /\ y[i].kind = "param" => y[i] = Param
             /\ y[i].kind = "wildcard" => y[i] = Wildcard /\ y = c
             /\ y \in Targets(tree, path, c)
<1> DEFINE i == Len(n) + 1
           c == Append(n, y[i])
           S == SegmentsOf(path)
<1>1. /\ y \in DOMAIN tree /\ Describes(y, path) /\ tree[y].route # NoRoute /\ Below(n, y)
      /\ n \in Seq(Keys) /\ y \in Seq(Keys)
  BY DEF Targets, GoodTree
<1>2. Len(n) \in Nat /\ Len(y) \in Nat /\ Len(S) \in Nat /\ Len(n) <= Len(y)
      /\ DOMAIN n = 1..Len(n) /\ DOMAIN y = 1..Len(y)
  BY <1>1, SegmentFacts DEF Below
<1>3. Len(n) < Len(y)
  <2>1. ASSUME Len(n) = Len(y) PROVE FALSE
    <3>2. \A j \in 1..Len(y) : n[j] = y[j]
      BY <1>1, <1>2, <2>1 DEF Below
    <3>3. n = y
      BY <1>1, <2>1, <3>2, SameSeq
    <3>4. ~(y # <<>> /\ y[Len(y)].kind = "wildcard")
      <4>1. SUFFICES ASSUME y # <<>> PROVE y[Len(y)].kind # "wildcard"
        OBVIOUS
      <4>2. Len(y) \in DOMAIN n
        BY <1>1, <1>2, <2>1, <4>1
      <4> QED
        BY <3>3, <4>2 DEF Along
    <3>5. Len(S) = Len(y)
      BY <1>1, <3>4, Zenon DEF Describes
    <3> QED
      BY <1>2, <2>1, <3>5
  <2>2. Len(n) \in Nat /\ Len(y) \in Nat /\ Len(n) <= Len(y)
    BY <1>2
  <2> QED
    BY <2>1, <2>2
<1>4. i \in 1..Len(y) /\ i \in 0..Len(y) /\ i \in DOMAIN y
  BY <1>2, <1>3
<1>5. Up(y, i) = c /\ y[i] \in Keys
  BY <1>1, <1>3, UpNext
<1>6. c \in DOMAIN tree
  BY <1>1, <1>4, <1>5 DEF GoodTree
<1>7. Below(c, y)
  BY <1>1, <1>4, <1>5, UpFacts
<1>8. y \in Targets(tree, path, c)
  BY <1>1, <1>7 DEF Targets
<1>9. y[i].kind = "static" => y[i] = Static(S[i])
  <2>1. y[i].kind = "static" => y[i].text = S[i]
    BY <1>1, <1>4, Zenon DEF Describes
  <2> QED
    BY <1>5, <2>1, KeyCases
<1>10. /\ y[i].kind = "param" => y[i] = Param
       /\ y[i].kind = "wildcard" => y[i] = Wildcard
  BY <1>5, KeyCases
<1>11. y[i].kind = "wildcard" => y = c
  <2>1. SUFFICES ASSUME y[i].kind = "wildcard" PROVE y = c
    OBVIOUS
  <2>2. i = Len(y)
    BY <1>1, <1>4, <2>1 DEF GoodTree
  <2> QED
    BY <1>1, <1>5, <2>2, UpWhole
<1> QED
  BY <1>4, <1>5, <1>6, <1>8, <1>9, <1>10, <1>11

\* The search goes on from the literal and the parameter child.
LEMMA AlongChild ==
  ASSUME NEW path \in Seq(STRING), NEW n \in Seq(Keys), Along(n, path), NEW k \in Keys,
         k.kind # "wildcard", k.kind = "static" => k.text = SegmentsOf(path)[Len(n) + 1]
  PROVE  Along(Append(n, k), path) /\ Len(Append(n, k)) = Len(n) + 1
<1> DEFINE c == Append(n, k)
<1>1. /\ Len(c) = Len(n) + 1 /\ c[Len(n) + 1] = k /\ \A j \in DOMAIN n : c[j] = n[j]
      /\ DOMAIN c = 1..(Len(n) + 1) /\ DOMAIN n = 1..Len(n) /\ Len(n) \in Nat
  BY AppendFacts
<1> HIDE DEF c
<1>2. \A j \in DOMAIN c : j = Len(n) + 1 \/ j \in DOMAIN n
  BY <1>1
<1> QED
  BY <1>1, <1>2 DEF Along, c

\* Below a child, below its parent.
LEMMA BelowChild ==
  ASSUME NEW n \in Seq(Keys), NEW k \in Keys, NEW y, Below(Append(n, k), y), Len(y) \in Nat
  PROVE  Below(n, y) /\ y[Len(n) + 1] = k /\ Len(n) + 1 <= Len(y)
<1> DEFINE c == Append(n, k)
<1>1. /\ Len(c) = Len(n) + 1 /\ c[Len(n) + 1] = k /\ \A j \in DOMAIN n : c[j] = n[j]
      /\ DOMAIN c = 1..(Len(n) + 1) /\ DOMAIN n = 1..Len(n) /\ Len(n) \in Nat
  BY AppendFacts
<1> HIDE DEF c
<1>2. Below(c, y)
  BY DEF c
<1>3. \A j \in DOMAIN n : j \in DOMAIN c
  BY <1>1
<1> QED
  BY <1>1, <1>2, <1>3 DEF Below

\* Precedence decides between the branches of a node.
LEMMA BranchOrder ==
  ASSUME NEW n \in Seq(Keys), NEW x \in Seq(Keys), NEW y \in Seq(Keys),
         Below(n, x), Below(n, y), Len(n) < Len(x), Len(n) < Len(y),
         Precedence(x[Len(n) + 1]) < Precedence(y[Len(n) + 1])
  PROVE  MoreSpecific(x, y)
<1> DEFINE i == Len(n) + 1
<1>1. i \in DOMAIN x \cap DOMAIN y /\ DOMAIN n = 1..(i - 1)
  OBVIOUS
<1>2. \A j \in 1..(i - 1) : x[j] = y[j]
  BY <1>1 DEF Below
<1>3. \A j \in 1..(i - 1) : Precedence(x[j]) = Precedence(y[j])
  BY <1>2
<1> HIDE DEF i
<1> QED
  BY <1>1, <1>3 DEF MoreSpecific, i

\* What a call returns.
Results == [outcome : {"hit", "miss", "error"}, node : Seq(Keys), params : Params]

\* The best of the nodes below n, or that there is none.
Found(tree, path, n, r) ==
  /\ r.outcome = "hit" =>
       /\ r.node \in Targets(tree, path, n)
       /\ \A y \in Targets(tree, path, n) : y # r.node => MoreSpecific(r.node, y)
  /\ r.outcome = "miss" => Targets(tree, path, n) = {}

\* What is assumed of the calls one level deeper.
FindsFrom(tree, path, deeper, len) ==
  \A c \in DOMAIN tree, q \in Params :
    Len(c) = len /\ Along(c, path) =>
      deeper[<<c, q>>] \in Results /\ Found(tree, path, c, deeper[<<c, q>>])

LEMMA ResultFacts ==
  ASSUME NEW node \in Seq(Keys), NEW params \in Params
  PROVE  /\ Hit(node, params) \in Results /\ Miss(params) \in Results
         /\ TooManyParams(params) \in Results
         /\ Hit(node, params).outcome = "hit" /\ Hit(node, params).node = node
         /\ Hit(node, params).params = params
         /\ Miss(params).outcome = "miss" /\ Miss(params).params = params
         /\ TooManyParams(params).outcome = "error"
         /\ TooManyParams(params).params = params
<1>1. << >> \in Seq(Keys)
  OBVIOUS
<1> QED
  BY <1>1 DEF Hit, Miss, TooManyParams, Results

\* A map of parameters stays one.
LEMMA PutFacts ==
  ASSUME NEW params \in Params, NEW name \in Names, NEW v \in Seq(STRING)
  PROVE  /\ Put(params, name, v) \in Params /\ Without(params, name) \in Params
         /\ Backtrack(params, name) = Without(params, name)
         /\ Put(params, name, v)[name] = v /\ Without(params, name)[name] = <<>>
         /\ \A o \in Names : o # name => /\ Put(params, name, v)[o] = params[o]
                                         /\ Without(params, name)[o] = params[o]
<1>1. << >> \in Seq(STRING)
  OBVIOUS
<1> QED
  BY <1>1 DEF Put, Without, Params, Backtrack

\* Facts about a node with the key of a child.
LEMMA ChildFacts ==
  ASSUME NEW tree, GoodTree(tree), NEW n \in DOMAIN tree, NEW k \in Keys,
         Append(n, k) \in DOMAIN tree
  PROVE  LET c == Append(n, k)
         IN  /\ n \in Seq(Keys) /\ c \in Seq(Keys) /\ Len(c) = Len(n) + 1 /\ Len(n) \in Nat
             /\ c[Len(n) + 1] = k /\ DOMAIN c = 1..(Len(n) + 1) /\ DOMAIN n = 1..Len(n)
             /\ \A j \in DOMAIN n : c[j] = n[j]
             /\ Below(n, c) /\ c # <<>>
             /\ k.kind # "static" => tree[c].param_name \in Names
             /\ k.kind = "wildcard" => tree[c].route # NoRoute
<1> DEFINE c == Append(n, k)
<1>1. n \in Seq(Keys)
  BY DEF GoodTree
<1>2. /\ c \in Seq(Keys) /\ Len(c) = Len(n) + 1 /\ Len(n) \in Nat /\ c[Len(n) + 1] = k
      /\ DOMAIN c = 1..(Len(n) + 1) /\ DOMAIN n = 1..Len(n) /\ \A j \in DOMAIN n : c[j] = n[j]
      /\ c # <<>>
  BY <1>1, AppendFacts
<1> HIDE DEF c
<1>3. Up(c, Len(n) + 1) = c
  BY <1>2, UpWhole
<1>4. Below(n, c)
  BY <1>2 DEF Below
<1>5. Len(n) + 1 \in DOMAIN c /\ c \in DOMAIN tree
  BY <1>2 DEF c
<1>6. /\ k.kind # "static" => tree[c].param_name \in Names
      /\ k.kind = "wildcard" => tree[c].route # NoRoute
  BY <1>2, <1>3, <1>5 DEF GoodTree
<1> QED
  BY <1>1, <1>2, <1>4, <1>6 DEF c

\* The last branch: the wildcard child, if there is one, is a target itself.
LEMMA WildcardFound ==
  ASSUME NEW tree, NEW path \in Seq(STRING), GoodTree(tree),
         NEW n \in DOMAIN tree, Along(n, path), Len(n) < Len(SegmentsOf(path)),
         NEW params \in Params
  PROVE  LET r == MatchWildcard(tree, path, Len(n) + 1, n, params)
             w == Append(n, Wildcard)
         IN  /\ r \in Results
             /\ r.outcome = "hit" => r.node = w /\ w \in Targets(tree, path, n)
             /\ r.outcome = "miss" => w \notin DOMAIN tree
<1> DEFINE r == MatchWildcard(tree, path, Len(n) + 1, n, params)
           w == Append(n, Wildcard)
           v == SubSeq(path, Offsets(path)[Len(n) + 1], Len(path))
           q == Put(params, tree[w].param_name, v)
<1>1. r = IF w \notin DOMAIN tree THEN Miss(params)
          ELSE IF Full(params) THEN TooManyParams(params) ELSE Hit(w, q)
  BY Zenon DEF MatchWildcard
<1>2. CASE w \notin DOMAIN tree
  <2>1. r = Miss(params)
    BY <1>1, <1>2, Zenon
  <2>2. r \in Results /\ r.outcome = "miss"
    <3>1. << >> \in Seq(Keys)
      OBVIOUS
    <3> HIDE DEF r
    <3> QED
      BY <2>1, <3>1, ResultFacts
  <2> HIDE DEF r, w
  <2> QED
    BY <1>2, <2>2 DEF r, w
<1>3. CASE w \in DOMAIN tree
  <2>1. /\ n \in Seq(Keys) /\ w \in Seq(Keys) /\ Len(w) = Len(n) + 1 /\ Len(n) \in Nat
        /\ w[Len(n) + 1] = Wildcard /\ DOMAIN w = 1..(Len(n) + 1) /\ DOMAIN n = 1..Len(n)
        /\ \A j \in DOMAIN n : w[j] = n[j]
        /\ Below(n, w) /\ w # <<>>
        /\ tree[w].param_name \in Names /\ tree[w].route # NoRoute
    BY <1>3, ChildFacts, KeyFacts
  <2> HIDE DEF w
  <2>2. v \in Seq(STRING)
    <3>1. Len(n) + 1 \in 1..Len(SegmentsOf(path))
      BY <2>1, SegmentFacts
    <3>2. Offsets(path)[Len(n) + 1] \in 1..Len(path)
      BY <3>1, SegmentFacts
    <3> QED
      BY <3>2
  <2> HIDE DEF v
  <2>3. q \in Params
    BY <2>1, <2>2, PutFacts
  <2> HIDE DEF q
  <2>4. Describes(w, path)
    <3>1. Len(SegmentsOf(path)) \in Nat
      BY SegmentFacts
    <3>2. Len(SegmentsOf(path)) >= Len(w)
      BY <2>1, <3>1
    <3>3. \A j \in DOMAIN w : w[j].kind = "static" => w[j].text = SegmentsOf(path)[j]
      <4>1. TAKE j \in DOMAIN w
      <4>2. CASE j = Len(n) + 1
        BY <2>1, <4>2, KeyFacts
      <4>3. CASE j # Len(n) + 1
        <5>1. j \in DOMAIN n /\ w[j] = n[j]
          BY <2>1, <4>3
        <5> QED
          BY <5>1 DEF Along
      <4> QED
        BY <4>2, <4>3
    <3>4. w # <<>> /\ w[Len(w)].kind = "wildcard"
      BY <2>1, KeyFacts
    <3> QED
      BY <3>2, <3>3, <3>4, Zenon DEF Describes
  <2>5. w \in Targets(tree, path, n)
    BY <1>3, <2>1, <2>4 DEF Targets
  <2>6. r = TooManyParams(params) \/ r = Hit(w, q)
    BY <1>1, <1>3, Zenon
  <2> HIDE DEF r
  <2>7. /\ r \in Results /\ r.outcome # "miss"
        /\ r.outcome = "hit" => r.node = w
    BY <2>1, <2>3, <2>6, ResultFacts
  <2> QED
    BY <2>5, <2>7 DEF r, w
<1> QED
  BY <1>2, <1>3

LEMMA TargetsBelow ==
  ASSUME NEW tree, NEW path, GoodTree(tree), NEW n \in DOMAIN tree, NEW k \in Keys,
         NEW y \in Targets(tree, path, Append(n, k))
  PROVE  /\ y \in Targets(tree, path, n) /\ y[Len(n) + 1] = k
         /\ y \in Seq(Keys) /\ Below(n, y) /\ Len(n) < Len(y)
<1>1. n \in Seq(Keys) /\ y \in Seq(Keys) /\ y \in DOMAIN tree
  BY DEF GoodTree, Targets
<1>2. Len(n) \in Nat /\ Len(y) \in Nat
  BY <1>1
<1>3. Below(Append(n, k), y)
  BY DEF Targets
<1>4. Below(n, y) /\ y[Len(n) + 1] = k /\ Len(n) + 1 <= Len(y)
  BY <1>1, <1>2, <1>3, BelowChild
<1>5. y \in Targets(tree, path, n)
  BY <1>1, <1>4 DEF Targets
<1> QED
  BY <1>1, <1>2, <1>4, <1>5

\* The three kinds of target, and which of them come first.
LEMMA TargetKinds ==
  ASSUME NEW tree, NEW path \in Seq(STRING), GoodTree(tree),
         NEW n \in DOMAIN tree, Along(n, path), Len(n) < Len(SegmentsOf(path)),
         NEW y \in Targets(tree, path, n)
  PROVE  LET i == Len(n) + 1
             s == Append(n, Static(SegmentsOf(path)[i]))
             p == Append(n, Param)
             w == Append(n, Wildcard)
         IN  /\ \/ y[i].kind = "static" /\ s \in DOMAIN tree /\ y \in Targets(tree, path, s)
                \/ y[i].kind = "param" /\ p \in DOMAIN tree /\ y \in Targets(tree, path, p)
                \/ y[i].kind = "wildcard" /\ w \in DOMAIN tree /\ y = w
             /\ \A x \in Targets(tree, path, n) :
                  \/ x[i].kind = "static" /\ y[i].kind # "static"
                  \/ x[i].kind = "param" /\ y[i].kind = "wildcard"
                  => MoreSpecific(x, y)
<1> DEFINE i == Len(n) + 1
           s == Append(n, Static(SegmentsOf(path)[i]))
           p == Append(n, Param)
           w == Append(n, Wildcard)
           c == Append(n, y[i])
<1>1. /\ i \in 1..Len(y) /\ y[i] \in Keys
      /\ c \in DOMAIN tree
      /\ y[i].kind = "static" => y[i] = Static(SegmentsOf(path)[i])
      /\ y[i].kind = "param" => y[i] = Param
      /\ y[i].kind = "wildcard" => y[i] = Wildcard /\ y = c
      /\ y \in Targets(tree, path, c)
  BY Children
<1>2. y[i].kind = "static" \/ y[i].kind = "param" \/ y[i].kind = "wildcard"
  BY <1>1, KeyCases
<1>3. \/ y[i].kind = "static" /\ s \in DOMAIN tree /\ y \in Targets(tree, path, s)
      \/ y[i].kind = "param" /\ p \in DOMAIN tree /\ y \in Targets(tree, path, p)
      \/ y[i].kind = "wildcard" /\ w \in DOMAIN tree /\ y = w
  BY <1>1, <1>2, Zenon
<1>4. ASSUME NEW x \in Targets(tree, path, n),
             \/ x[i].kind = "static" /\ y[i].kind # "static"
             \/ x[i].kind = "param" /\ y[i].kind = "wildcard"
      PROVE  MoreSpecific(x, y)
  <2>1. i \in 1..Len(x) /\ x[i] \in Keys
    BY Children
  <2>2. /\ n \in Seq(Keys) /\ x \in Seq(Keys) /\ y \in Seq(Keys) /\ Below(n, x) /\ Below(n, y)
    BY DEF Targets, GoodTree
  <2>3. Len(n) \in Nat /\ Len(x) \in Nat /\ Len(y) \in Nat
    BY <2>2
  <2>4. Len(n) < Len(x) /\ Len(n) < Len(y)
    BY <1>1, <2>1, <2>3
  <2>5. Precedence(x[i]) < Precedence(y[i])
    BY <1>2, <1>4 DEF Precedence
  <2> QED
    BY <2>2, <2>4, <2>5, BranchOrder
<1> HIDE DEF i, s, p, w
<1> QED
  BY <1>3, <1>4 DEF i, s, p, w

\* The second and third branch: the best of the targets that do not go on with
\* the literal.
LEMMA ParamFound ==
  ASSUME NEW tree, NEW path \in Seq(STRING), GoodTree(tree),
         NEW n \in DOMAIN tree, Along(n, path), Len(n) < Len(SegmentsOf(path)),
         NEW params \in Params, NEW deeper, FindsFrom(tree, path, deeper, Len(n) + 1)
  PROVE  LET i == Len(n) + 1
             r == MatchParam(tree, path, i, n, params, deeper)
         IN  /\ r \in Results
             /\ r.outcome = "hit" =>
                  /\ r.node \in Targets(tree, path, n) /\ r.node[i].kind # "static"
                  /\ \A y \in Targets(tree, path, n) :
                       y # r.node /\ y[i].kind # "static" => MoreSpecific(r.node, y)
             /\ r.outcome = "miss" =>
                  \A y \in Targets(tree, path, n) : y[i].kind = "static"
<1> DEFINE i == Len(n) + 1
           r == MatchParam(tree, path, i, n, params, deeper)
           p == Append(n, Param)
           w == Append(n, Wildcard)
           name == tree[p].param_name
           q == Put(params, name, <<SegmentsOf(path)[i]>>)
           below == deeper[<<p, q>>]
           W(u) == MatchWildcard(tree, path, i, n, u)
<1>1. r = IF p \notin DOMAIN tree THEN W(params)
          ELSE IF Full(params) THEN TooManyParams(params)
          ELSE IF below.outcome # "miss" THEN below ELSE W(Backtrack(below.params, name))
  BY Zenon DEF MatchParam
<1>2. \A y \in Targets(tree, path, n) :
        \/ y[i].kind = "static"
        \/ y[i].kind = "param" /\ p \in DOMAIN tree /\ y \in Targets(tree, path, p)
        \/ y[i].kind = "wildcard" /\ w \in DOMAIN tree /\ y = w
  BY TargetKinds
<1>3. \A x, y \in Targets(tree, path, n) :
        x[i].kind = "param" /\ y[i].kind = "wildcard" => MoreSpecific(x, y)
  BY TargetKinds
<1>4. w \in DOMAIN tree => w[i].kind = "wildcard"
  BY ChildFacts, KeyFacts
<1>5. n \in Seq(Keys) /\ SegmentsOf(path)[i] \in STRING
  <2>1. n \in Seq(Keys)
    BY DEF GoodTree
  <2>2. Len(n) \in Nat /\ Len(SegmentsOf(path)) \in Nat
    BY <2>1, SegmentFacts
  <2>3. i \in 1..Len(SegmentsOf(path))
    BY <2>2
  <2> QED
    BY <2>1, <2>3, SegmentFacts
<1>6. ASSUME NEW u \in Params, r = W(u), p \in DOMAIN tree => Targets(tree, path, p) = {}
      PROVE  /\ r \in Results
             /\ r.outcome = "hit" =>
                  /\ r.node \in Targets(tree, path, n) /\ r.node[i].kind # "static"
                  /\ \A y \in Targets(tree, path, n) :
                       y # r.node /\ y[i].kind # "static" => MoreSpecific(r.node, y)
             /\ r.outcome = "miss" =>
                  \A y \in Targets(tree, path, n) : y[i].kind = "static"
  <2>1. /\ r \in Results
        /\ r.outcome = "hit" => r.node = w /\ w \in Targets(tree, path, n)
        /\ r.outcome = "miss" => w \notin DOMAIN tree
    BY <1>6, WildcardFound
  <2>2. \A y \in Targets(tree, path, n) : y[i].kind = "static" \/ (w \in DOMAIN tree /\ y = w)
    BY <1>2, <1>6, Zenon
  <2>3. w \in Targets(tree, path, n) => w \in DOMAIN tree
    BY DEF Targets
  <2> HIDE DEF r, w, i
  <2> QED
    BY <1>4, <2>1, <2>2, <2>3
<1>7. CASE p \notin DOMAIN tree
  BY <1>1, <1>6, <1>7, Zenon
<1>8. CASE p \in DOMAIN tree /\ Full(params)
  <2>1. r = TooManyParams(params)
    BY <1>1, <1>8, Zenon
  <2> HIDE DEF r
  <2>2. r \in Results /\ r.outcome = "error"
    BY <1>5, <2>1, ResultFacts
  <2> QED
    BY <2>2 DEF r
<1>9. CASE p \in DOMAIN tree /\ ~Full(params)
  <2>1. /\ Len(p) = i /\ name \in Names
    BY <1>9, ChildFacts, KeyFacts
  <2>2. Along(p, path)
    BY <1>5, AlongChild, KeyFacts
  <2>3. <<SegmentsOf(path)[i]>> \in Seq(STRING)
    BY <1>5
  <2>4. q \in Params
    BY <2>1, <2>3, PutFacts
  <2>5. below \in Results /\ Found(tree, path, p, below)
    BY <1>9, <2>1, <2>2, <2>4, Zenon DEF FindsFrom
  <2>6. CASE below.outcome # "miss"
    <3>1. r = below
      BY <1>1, <1>9, <2>6, Zenon
    <3>2. \A y \in Targets(tree, path, p) : y \in Targets(tree, path, n) /\ y[i] = Param
      BY KeyFacts, TargetsBelow
    <3>3. r.outcome = "hit" =>
            /\ r.node \in Targets(tree, path, p)
            /\ \A y \in Targets(tree, path, p) : y # r.node => MoreSpecific(r.node, y)
      BY <2>5, <3>1, Zenon DEF Found
    <3> HIDE DEF r, p, i, w, below
    <3>4. r.outcome = "hit" =>
            /\ r.node \in Targets(tree, path, n) /\ r.node[i].kind = "param"
            /\ \A y \in Targets(tree, path, n) :
                 y # r.node /\ y[i].kind # "static" => MoreSpecific(r.node, y)
      <4>1. SUFFICES ASSUME r.outcome = "hit"
                     PROVE  /\ r.node \in Targets(tree, path, n) /\ r.node[i].kind = "param"
                            /\ \A y \in Targets(tree, path, n) :
                                 y # r.node /\ y[i].kind # "static" => MoreSpecific(r.node, y)
        OBVIOUS
      <4>2. r.node \in Targets(tree, path, n) /\ r.node[i].kind = "param"
        BY <3>2, <3>3, <4>1, KeyFacts
      <4>3. ASSUME NEW y \in Targets(tree, path, n), y # r.node, y[i].kind # "static"
            PROVE  MoreSpecific(r.node, y)
        BY <1>2, <1>3, <3>3, <4>1, <4>2, <4>3, Zenon
      <4> QED
        BY <4>2, <4>3, Zenon
    <3>5. r.outcome # "miss" /\ r \in Results
      BY <2>5, <2>6, <3>1
    <3> QED
      BY <3>4, <3>5 DEF r, i
  <2>7. CASE below.outcome = "miss"
    <3>1. r = W(Backtrack(below.params, name))
      BY <1>1, <1>9, <2>7, Zenon
    <3>2. Targets(tree, path, p) = {}
      BY <2>5, <2>7, Zenon DEF Found
    <3>3. below.params \in Params
      BY <2>5 DEF Results
    <3>4. Backtrack(below.params, name) \in Params
      BY <2>1, <2>3, <3>3, PutFacts
    <3> QED
      BY <1>6, <3>1, <3>2, <3>4, Zenon
  <2> QED
    BY <2>6, <2>7
<1> QED
  BY <1>7, <1>8, <1>9

\* All three branches of a call: the best of the targets below the node.
LEMMA StaticFound ==
  ASSUME NEW tree, NEW path \in Seq(STRING), GoodTree(tree),
         NEW n \in DOMAIN tree, Along(n, path), Len(n) < Len(SegmentsOf(path)),
         NEW params \in Params, NEW deeper, FindsFrom(tree, path, deeper, Len(n) + 1)
  PROVE  LET r == MatchStatic(tree, path, Len(n) + 1, n, params, deeper)
         IN  r \in Results /\ Found(tree, path, n, r)
<1> DEFINE i == Len(n) + 1
           r == MatchStatic(tree, path, i, n, params, deeper)
           k == Static(SegmentsOf(path)[i])
           s == Append(n, k)
           below == deeper[<<s, params>>]
           P(u) == MatchParam(tree, path, i, n, u, deeper)
<1>1. r = IF s \notin DOMAIN tree THEN P(params)
          ELSE IF below.outcome # "miss" THEN below ELSE P(below.params)
  BY Zenon DEF MatchStatic
<1>2. \A y \in Targets(tree, path, n) :
        y[i].kind = "static" => s \in DOMAIN tree /\ y \in Targets(tree, path, s)
  BY TargetKinds
<1>3. \A x, y \in Targets(tree, path, n) :
        x[i].kind = "static" /\ y[i].kind # "static" => MoreSpecific(x, y)
  BY TargetKinds
<1>4. n \in Seq(Keys) /\ k \in Keys /\ k.kind = "static" /\ k.text = SegmentsOf(path)[i]
  <2>1. n \in Seq(Keys)
    BY DEF GoodTree
  <2>2. Len(n) \in Nat /\ Len(SegmentsOf(path)) \in Nat
    BY <2>1, SegmentFacts
  <2>3. i \in 1..Len(SegmentsOf(path))
    BY <2>2
  <2>4. SegmentsOf(path)[i] \in STRING
    BY <2>1, <2>3, SegmentFacts
  <2> QED
    BY <2>1, <2>4, KeyFacts
<1> HIDE DEF k
<1>5. ASSUME NEW u \in Params, r = P(u), s \in DOMAIN tree => Targets(tree, path, s) = {}
      PROVE  r \in Results /\ Found(tree, path, n, r)
  <2>1. /\ r \in Results
        /\ r.outcome = "hit" =>
             /\ r.node \in Targets(tree, path, n) /\ r.node[i].kind # "static"
             /\ \A y \in Targets(tree, path, n) :
                  y # r.node /\ y[i].kind # "static" => MoreSpecific(r.node, y)
        /\ r.outcome = "miss" => \A y \in Targets(tree, path, n) : y[i].kind = "static"
    BY <1>5, ParamFound
  <2>2. \A y \in Targets(tree, path, n) : y[i].kind # "static"
    BY <1>2, <1>5, Zenon
  <2> HIDE DEF r, i
  <2> QED
    BY <2>1, <2>2, Zenon DEF Found
<1>6. CASE s \notin DOMAIN tree
  BY <1>1, <1>5, <1>6, Zenon
<1>7. CASE s \in DOMAIN tree
  <2>1. Along(s, path) /\ Len(s) = i
    BY <1>4, AlongChild
  <2>2. below \in Results /\ Found(tree, path, s, below)
    BY <1>7, <2>1, Zenon DEF FindsFrom
  <2>3. CASE below.outcome # "miss"
    <3>1. r = below
      BY <1>1, <1>7, <2>3, Zenon
    <3>2. \A y \in Targets(tree, path, s) : y \in Targets(tree, path, n) /\ y[i] = k
      BY <1>4, TargetsBelow
    <3>3. r.outcome = "hit" =>
            /\ r.node \in Targets(tree, path, s)
            /\ \A y \in Targets(tree, path, s) : y # r.node => MoreSpecific(r.node, y)
      BY <2>2, <3>1, Zenon DEF Found
    <3> HIDE DEF r, s, i, below
    <3>4. ASSUME r.outcome = "hit", NEW y \in Targets(tree, path, n), y # r.node
          PROVE  MoreSpecific(r.node, y)
      <4>1. r.node \in Targets(tree, path, n) /\ r.node[i].kind = "static"
        BY <1>4, <3>2, <3>3, <3>4, Zenon
      <4> QED
        BY <1>2, <1>3, <3>3, <3>4, <4>1, Zenon
    <3>5. r.outcome # "miss" /\ r \in Results
      BY <2>2, <2>3, <3>1
    <3> QED
      BY <3>2, <3>3, <3>4, <3>5, Zenon DEF Found, r, i
  <2>4. CASE below.outcome = "miss"
    <3>1. r = P(below.params)
      BY <1>1, <1>7, <2>4, Zenon
    <3>2. Targets(tree, path, s) = {}
      BY <2>2, <2>4, Zenon DEF Found
    <3>3. below.params \in Params
      BY <2>2 DEF Results
    <3> QED
      BY <1>5, <3>1, <3>2, <3>3, Zenon
  <2> QED
    BY <2>3, <2>4
<1> QED
  BY <1>6, <1>7

\* The end of the path: the node itself, if it has a route.
LEMMA EndFound ==
  ASSUME NEW tree, NEW path \in Seq(STRING), GoodTree(tree),
         NEW n \in DOMAIN tree, Along(n, path), Len(n) = Len(SegmentsOf(path)),
         NEW params \in Params
  PROVE  LET r == MatchEnd(tree, n, params)
         IN  r \in Results /\ Found(tree, path, n, r)
<1> DEFINE r == MatchEnd(tree, n, params)
           N == Len(SegmentsOf(path))
<1>1. n \in Seq(Keys) /\ DOMAIN n = 1..N /\ N \in Nat
  <2>1. n \in Seq(Keys)
    BY DEF GoodTree
  <2> QED
    BY <2>1, SegmentFacts
<1>2. ASSUME NEW y \in Targets(tree, path, n) PROVE y = n
  <2>1. y \in DOMAIN tree /\ y \in Seq(Keys) /\ Describes(y, path) /\ Below(n, y)
    BY DEF Targets, GoodTree
  <2>2. Len(y) <= N
    <3>1. Len(y) \in Nat
      BY <2>1
    <3>2. N >= Len(y) \/ N = Len(y)
      BY <2>1, Zenon DEF Describes
    <3> QED
      BY <1>1, <3>1, <3>2
  <2>3. Len(n) = Len(y) /\ \A j \in 1..Len(n) : n[j] = y[j]
    BY <1>1, <2>1, <2>2 DEF Below
  <2> QED
    BY <1>1, <2>1, <2>3, SameSeq
<1>3. Describes(n, path)
  <2>1. ~(n # <<>> /\ n[Len(n)].kind = "wildcard")
    <3>1. SUFFICES ASSUME n # <<>> PROVE n[Len(n)].kind # "wildcard"
      OBVIOUS
    <3>2. Len(n) \in DOMAIN n
      BY <1>1, <3>1
    <3> QED
      BY <3>2 DEF Along
  <2>2. \A j \in DOMAIN n : n[j].kind = "static" => n[j].text = SegmentsOf(path)[j]
    BY DEF Along
  <2> QED
    BY <2>1, <2>2, Zenon DEF Describes
<1>4. Below(n, n)
  BY <1>1 DEF Below
<1>5. CASE tree[n].route = NoRoute
  <2>1. r = Miss(params)
    BY <1>5 DEF MatchEnd
  <2>2. Targets(tree, path, n) = {}
    BY <1>2, <1>5 DEF Targets
  <2> HIDE DEF r
  <2>3. r \in Results /\ r.outcome = "miss"
    BY <1>1, <2>1, ResultFacts
  <2> QED
    BY <2>2, <2>3 DEF Found, r
<1>6. CASE tree[n].route # NoRoute
  <2>1. r = Hit(n, params)
    BY <1>6 DEF MatchEnd
  <2>2. n \in Targets(tree, path, n)
    BY <1>3, <1>4, <1>6 DEF Targets
  <2> HIDE DEF r
  <2>3. r \in Results /\ r.outcome = "hit" /\ r.node = n
    BY <1>1, <2>1, ResultFacts
  <2> QED
    BY <1>2, <2>2, <2>3 DEF Found, r
<1> QED
  BY <1>5, <1>6

\* The calls of each level, by induction on the segments left.
LEMMA LevelFinds ==
  ASSUME NEW tree, NEW path \in Seq(STRING), GoodTree(tree)
  PROVE  \A left \in Nat : left <= Len(SegmentsOf(path)) =>
           FindsFrom(tree, path, MatchRecursive(tree, path)[left],
                     Len(SegmentsOf(path)) - left)
<1> DEFINE N == Len(SegmentsOf(path))
           m == MatchRecursive(tree, path)
           S == {left \in Nat : left <= N => FindsFrom(tree, path, m[left], N - left)}
<1>1. N \in Nat
  BY SegmentFacts
<1>2. \A left \in Nat : m[left] = MatchNode(tree, path, left, m[left - 1])
  BY MatchUnfolds
<1> HIDE DEF m
<1>3. 0 \in S
  <2>1. ASSUME NEW c \in DOMAIN tree, NEW q \in Params, Len(c) = N - 0, Along(c, path)
        PROVE  m[0][<<c, q>>] \in Results /\ Found(tree, path, c, m[0][<<c, q>>])
    <3>1. m[0][<<c, q>>] = MatchEnd(tree, c, q)
      BY <1>2, BottomCalls
    <3>2. Len(c) = N
      BY <1>1, <2>1
    <3> QED
      BY <2>1, <3>1, <3>2, EndFound
  <2> HIDE DEF N
  <2>2. FindsFrom(tree, path, m[0], N - 0)
    BY <2>1, Zenon DEF FindsFrom
  <2> QED
    BY <2>2
<1>4. ASSUME NEW left \in Nat, left \in S PROVE left + 1 \in S
  <2>1. SUFFICES ASSUME left + 1 <= N
                 PROVE  FindsFrom(tree, path, m[left + 1], N - (left + 1))
    BY <1>4
  <2>2. FindsFrom(tree, path, m[left], N - left)
    BY <1>1, <1>4, <2>1
  <2>3. ASSUME NEW c \in DOMAIN tree, NEW q \in Params,
               Len(c) = N - (left + 1), Along(c, path)
        PROVE  m[left + 1][<<c, q>>] \in Results
               /\ Found(tree, path, c, m[left + 1][<<c, q>>])
    <3>1. N - (left + 1) + 1 = Len(c) + 1 /\ Len(c) + 1 = N - left /\ Len(c) < N
          /\ left + 1 # 0 /\ (left + 1) - 1 = left /\ left + 1 \in Nat
      BY <1>1, <2>1, <2>3
    <3>2. m[left + 1] = MatchNode(tree, path, left + 1, m[left])
      BY <1>2, <3>1
    <3>3. m[left + 1][<<c, q>>]
            = MatchStatic(tree, path, N - (left + 1) + 1, c, q, m[left])
      BY <3>1, <3>2, InnerCalls
    <3>4. m[left + 1][<<c, q>>] = MatchStatic(tree, path, Len(c) + 1, c, q, m[left])
      BY <3>1, <3>3
    <3>5. FindsFrom(tree, path, m[left], Len(c) + 1)
      BY <2>2, <3>1
    <3> QED
      BY <2>3, <3>1, <3>4, <3>5, StaticFound
  <2> HIDE DEF N
  <2> QED
    BY <2>3, Zenon DEF FindsFrom
<1> HIDE DEF S
<1>5. Nat \subseteq S
  BY <1>3, <1>4, NatSetInduction
<1> HIDE DEF N
<1>6. \A left \in Nat : left <= N => FindsFrom(tree, path, m[left], N - left)
  BY <1>5 DEF S
<1> QED
  BY <1>6 DEF N, m

\* The whole search: the best target of the tree, or that there is none.
LEMMA MatchInFinds ==
  ASSUME NEW tree, NEW path \in Seq(STRING), GoodTree(tree), NEW params \in Params
  PROVE  LET r == MatchIn(tree, path, params)
             left == Len(SegmentsOf(path))
         IN  /\ r \in Results /\ Found(tree, path, <<>>, r)
             /\ \/ r = Miss(params)
                \/ /\ <<>> \in DOMAIN tree
                   /\ r = MatchRecursive(tree, path)[left][<< <<>>, params >>]
<1> DEFINE r == MatchIn(tree, path, params)
           N == Len(SegmentsOf(path))
           m == MatchRecursive(tree, path)[N][<< <<>>, params >>]
<1>1. r = IF DOMAIN tree = {} THEN Miss(params)
          ELSE IF m.outcome = "hit" /\ tree[m.node].route = NoRoute THEN Miss(m.params) ELSE m
  BY Zenon DEF MatchIn
<1>2. CASE DOMAIN tree = {}
  <2>1. r = Miss(params) /\ Targets(tree, path, <<>>) = {} /\ << >> \in Seq(Keys)
    BY <1>1, <1>2 DEF Targets
  <2> HIDE DEF r
  <2>2. r \in Results /\ r.outcome = "miss"
    BY <2>1, ResultFacts
  <2>3. Found(tree, path, <<>>, r)
    BY <2>1, <2>2 DEF Found
  <2> QED
    BY <2>1, <2>2, <2>3, Zenon DEF r
<1>3. CASE DOMAIN tree # {}
  <2>1. <<>> \in DOMAIN tree
    <3>1. PICK x \in DOMAIN tree : TRUE
      BY <1>3
    <3>2. x \in Seq(Keys) /\ 0 \in 0..Len(x)
      BY DEF GoodTree
    <3>3. Up(x, 0) \in DOMAIN tree
      BY <3>2 DEF GoodTree
    <3>4. Up(x, 0) = <<>>
      BY DEF Up
    <3> QED
      BY <3>3, <3>4
  <2>2. N \in Nat /\ N <= N /\ N - N = 0
    BY SegmentFacts
  <2>3. FindsFrom(tree, path, MatchRecursive(tree, path)[N], 0)
    BY <2>2, LevelFinds
  <2>4. Len(<<>>) = 0 /\ Along(<<>>, path)
    BY DEF Along
  <2>5. m \in Results /\ Found(tree, path, <<>>, m)
    BY <2>1, <2>3, <2>4, Zenon DEF FindsFrom
  <2> HIDE DEF m
  <2>6. m.outcome = "hit" => tree[m.node].route # NoRoute
    BY <2>5 DEF Found, Targets
  <2>7. r = m
    BY <1>1, <1>3, <2>6, Zenon
  <2> QED
    BY <2>1, <2>5, <2>7, Zenon DEF m
<1> QED
  BY <1>2, <1>3

-----------------------------------------------------------------------------
(* What insertRoute records *)

Whole(p) == NodeAt(p, Len(p))
OnWay(x, p) == \E j \in 0..Len(p) : x = NodeAt(p, j)

\* A tree holds the nodes of the patterns registered for its method, with the
\* name of one of them and the route of the last.
Recorded(tree, m, reg) ==
  /\ \A x : x \in DOMAIN tree <=>
       \E r \in DOMAIN reg : m \in reg[r].methods /\ OnWay(x, reg[r].pattern)
  /\ \A x \in DOMAIN tree :
       /\ tree[x].route \in Nat
       /\ tree[x].route # NoRoute =>
            /\ tree[x].route \in DOMAIN reg
            /\ m \in reg[tree[x].route].methods
            /\ x = Whole(reg[tree[x].route].pattern)
       /\ x # <<>> =>
            \E r \in DOMAIN reg : /\ m \in reg[r].methods
                                  /\ Len(x) \in 1..Len(reg[r].pattern)
                                  /\ x = NodeAt(reg[r].pattern, Len(x))
                                  /\ tree[x].param_name = NameOf(reg[r].pattern[Len(x)])
  /\ \A r \in DOMAIN reg :
       m \in reg[r].methods => tree[Whole(reg[r].pattern)].route >= r

Routes == [methods : SUBSET Methods, pattern : Patterns]

RouteInv ==
  /\ registered \in Seq(Routes)
  /\ trees = [m \in Methods |-> trees[m]]
  /\ \A m \in Methods : Recorded(trees[m], m, registered)

LEMMA PartKeys ==
  ASSUME NEW part \in Part
  PROVE  /\ Key(part) \in Keys /\ Key(part).kind = part.kind
         /\ part.kind = "static" => Key(part).text = part.text
<1>1. part \in [kind : {"static", "param", "wildcard"}, text : STRING]
  BY DEF Part
<1>2. CASE part.kind = "static"
  <2>1. part = Static(part.text) /\ part.text \in STRING
    BY <1>1, <1>2 DEF Static
  <2> QED
    BY <1>2, <2>1, KeyFacts DEF Key
<1>3. CASE part.kind = "param"
  <2>1. Key(part) = Param
    BY <1>3 DEF Key, Param
  <2> QED
    BY <1>3, <2>1, KeyFacts
<1>4. CASE part.kind = "wildcard"
  <2>1. Key(part) = Wildcard
    BY <1>4 DEF Key, Wildcard
  <2> QED
    BY <1>4, <2>1, KeyFacts
<1> QED
  BY <1>1, <1>2, <1>3, <1>4

LEMMA NodeFacts ==
  ASSUME NEW p \in Seq(Part), NEW j \in 0..Len(p)
  PROVE  /\ NodeAt(p, j) \in Seq(Keys) /\ Len(NodeAt(p, j)) = j
         /\ DOMAIN NodeAt(p, j) = 1..j
         /\ \A l \in 1..j : /\ l \in 1..Len(p) /\ p[l] \in Part
                            /\ NodeAt(p, j)[l] = Key(p[l])
                            /\ NodeAt(p, j)[l].kind = p[l].kind
                            /\ p[l].kind = "static" => NodeAt(p, j)[l].text = p[l].text
         /\ \A l \in 0..j : Up(NodeAt(p, j), l) = NodeAt(p, l)
         /\ NodeAt(p, j) = <<>> <=> j = 0
<1>1. Len(p) \in Nat /\ \A l \in 1..Len(p) : p[l] \in Part
  OBVIOUS
<1>2. j \in Nat /\ \A l \in 1..j : l \in 1..Len(p) /\ Key(p[l]) \in Keys
  BY <1>1, PartKeys
<1>3. NodeAt(p, j) \in Seq(Keys) /\ Len(NodeAt(p, j)) = j
  BY <1>2 DEF NodeAt
<1>4. DOMAIN NodeAt(p, j) = 1..j /\ \A l \in 1..j : NodeAt(p, j)[l] = Key(p[l])
  BY <1>2 DEF NodeAt
<1>5. \A l \in 1..j : /\ NodeAt(p, j)[l].kind = p[l].kind
                      /\ p[l].kind = "static" => NodeAt(p, j)[l].text = p[l].text
  BY <1>1, <1>2, <1>4, PartKeys
<1>6. ASSUME NEW l \in 0..j PROVE Up(NodeAt(p, j), l) = NodeAt(p, l)
  <2>1. \A i \in 1..l : NodeAt(p, j)[i] = Key(p[i])
    BY <1>2, <1>4
  <2> QED
    BY <2>1, Zenon DEF Up, NodeAt
<1>7. NodeAt(p, j) = <<>> <=> j = 0
  BY <1>2, <1>3
<1> QED
  BY <1>1, <1>2, <1>3, <1>4, <1>5, <1>6, <1>7

\* What insertRoute returns, field by field.
LEMMA InsertFacts ==
  ASSUME NEW tree, NEW p \in Seq(Part), NEW k
  PROVE  LET t == InsertRoute(tree, p, k)
         IN  /\ \A x : x \in DOMAIN t <=>
                  x \in DOMAIN tree \/ OnWay(x, p)
             /\ Whole(p) \in DOMAIN t
             /\ \A x \in DOMAIN t :
                  /\ t[x].route = IF x = Whole(p) THEN k
                                  ELSE IF x \in DOMAIN tree THEN tree[x].route ELSE NoRoute
                  /\ x \in DOMAIN tree => t[x].param_name = tree[x].param_name
                  /\ x \notin DOMAIN tree /\ x # <<>> =>
                       t[x].param_name = NameOf(p[Len(x)])
<1> DEFINE t == InsertRoute(tree, p, k)
           made == {NodeAt(p, n) : n \in 0..Len(p)}
           P(x) == IF x \in DOMAIN tree THEN tree[x].param_name
                   ELSE IF x = <<>> THEN "" ELSE NameOf(p[Len(x)])
           R(x) == IF x = Whole(p) THEN k
                   ELSE IF x \in DOMAIN tree THEN tree[x].route ELSE NoRoute
<1>1. t = [x \in DOMAIN tree \cup made |-> [param_name |-> P(x), route |-> R(x)]]
  BY Zenon DEF InsertRoute, Whole
<1> HIDE DEF t
<1>2. DOMAIN t = DOMAIN tree \cup made
  BY <1>1, Zenon
<1>3. \A x : x \in made <=> \E j \in 0..Len(p) : x = NodeAt(p, j)
  BY Zenon
<1>4. Whole(p) \in made
  <2>1. Len(p) \in 0..Len(p)
    OBVIOUS
  <2> QED
    BY <2>1, <1>3 DEF Whole
<1> HIDE DEF made, P, R
<1>5. \A x \in DOMAIN t : t[x].route = R(x) /\ t[x].param_name = P(x)
  BY <1>1, <1>2
<1>6. \A x : /\ x \in DOMAIN tree => P(x) = tree[x].param_name
             /\ x \notin DOMAIN tree /\ x # <<>> => P(x) = NameOf(p[Len(x)])
  BY Zenon DEF P
<1>7. \A x \in DOMAIN t :
        t[x].route = IF x = Whole(p) THEN k
                     ELSE IF x \in DOMAIN tree THEN tree[x].route ELSE NoRoute
  BY <1>5, Zenon DEF R
<1>8. \A x \in DOMAIN t :
        /\ x \in DOMAIN tree => t[x].param_name = tree[x].param_name
        /\ x \notin DOMAIN tree /\ x # <<>> => t[x].param_name = NameOf(p[Len(x)])
  BY <1>5, <1>6, Zenon
<1>9. \A x : x \in DOMAIN t <=> x \in DOMAIN tree \/ OnWay(x, p)
  BY <1>2, <1>3, Zenon DEF OnWay
<1>10. Whole(p) \in DOMAIN t
  BY <1>2, <1>4, Zenon
<1> QED
  BY <1>7, <1>8, <1>9, <1>10, Zenon DEF t

\* One more registration.
LEMMA RegAppend ==
  ASSUME NEW reg \in Seq(Routes), NEW e \in Routes
  PROVE  LET g == Append(reg, e)
         IN  /\ g \in Seq(Routes) /\ Len(g) = Len(reg) + 1 /\ Len(reg) \in Nat
             /\ DOMAIN g = 1..(Len(reg) + 1) /\ DOMAIN reg = 1..Len(reg)
             /\ g[Len(reg) + 1] = e /\ \A r \in DOMAIN reg : g[r] = reg[r]
             /\ \A r \in DOMAIN g : r \in DOMAIN reg \/ r = Len(reg) + 1
             /\ \A r \in DOMAIN reg : r \in DOMAIN g /\ r < Len(reg) + 1
             /\ Len(reg) + 1 \in DOMAIN g
<1> DEFINE g == Append(reg, e)
<1>1. /\ g \in Seq(Routes) /\ Len(g) = Len(reg) + 1 /\ Len(reg) \in Nat
      /\ DOMAIN g = 1..(Len(reg) + 1) /\ DOMAIN reg = 1..Len(reg)
      /\ g[Len(reg) + 1] = e /\ \A r \in DOMAIN reg : g[r] = reg[r]
  BY AppendFacts
<1> HIDE DEF g
<1> QED
  BY <1>1 DEF g

\* insertRoute keeps a tree a record of what was registered for its method.
LEMMA InsertRecords ==
  ASSUME NEW tree, NEW m \in Methods, NEW reg \in Seq(Routes), Recorded(tree, m, reg),
         NEW M \in SUBSET Methods, m \in M, NEW p \in Patterns
  PROVE  Recorded(InsertRoute(tree, p, Len(reg) + 1), m,
                  Append(reg, [methods |-> M, pattern |-> p]))
<1> DEFINE k == Len(reg) + 1
           t == InsertRoute(tree, p, k)
           e == [methods |-> M, pattern |-> p]
           g == Append(reg, e)
<1>1. p \in Seq(Part)
  BY RouterAssumption
<1>2. e \in Routes /\ e.methods = M /\ e.pattern = p
  BY DEF Routes
<1> HIDE DEF e
<1>3. /\ Len(reg) \in Nat /\ k \in DOMAIN g
      /\ g[k] = e /\ \A r \in DOMAIN reg : g[r] = reg[r] /\ r \in DOMAIN g /\ r < k
      /\ \A r \in DOMAIN g : r \in DOMAIN reg \/ r = k
      /\ DOMAIN reg = 1..Len(reg)
  BY <1>2, RegAppend
<1>4. /\ \A x : x \in DOMAIN t <=>
           x \in DOMAIN tree \/ OnWay(x, p)
      /\ Whole(p) \in DOMAIN t
      /\ \A x \in DOMAIN t :
           /\ t[x].route = IF x = Whole(p) THEN k
                           ELSE IF x \in DOMAIN tree THEN tree[x].route ELSE NoRoute
           /\ x \in DOMAIN tree => t[x].param_name = tree[x].param_name
           /\ x \notin DOMAIN tree /\ x # <<>> => t[x].param_name = NameOf(p[Len(x)])
  BY <1>1, InsertFacts
<1> HIDE DEF t, g
<1>5. \A x : x \in DOMAIN t <=>
        \E r \in DOMAIN g : m \in g[r].methods /\ OnWay(x, g[r].pattern)
  <2>1. \A x : x \in DOMAIN tree <=>
          \E r \in DOMAIN reg : m \in reg[r].methods /\ OnWay(x, reg[r].pattern)
    BY Zenon DEF Recorded
  <2>2. \A x : OnWay(x, p) <=> (m \in g[k].methods /\ OnWay(x, g[k].pattern))
    BY <1>2, <1>3, Zenon
  <2> HIDE DEF k
  <2> QED
    BY <1>3, <1>4, <2>1, <2>2, Zenon
<1>6. ASSUME NEW x \in DOMAIN t
      PROVE  /\ t[x].route \in Nat
             /\ t[x].route # NoRoute =>
                  /\ t[x].route \in DOMAIN g
                  /\ m \in g[t[x].route].methods
                  /\ x = Whole(g[t[x].route].pattern)
  <2>1. CASE x = Whole(p)
    <3>1. t[x].route = k /\ k \in Nat
      BY <1>3, <1>4, <2>1
    <3> QED
      BY <1>2, <1>3, <2>1, <3>1
  <2>2. CASE x # Whole(p) /\ x \in DOMAIN tree
    <3>1. t[x].route = tree[x].route
      BY <1>4, <2>2, Zenon
    <3>2. /\ tree[x].route \in Nat
          /\ tree[x].route # NoRoute =>
               /\ tree[x].route \in DOMAIN reg
               /\ m \in reg[tree[x].route].methods
               /\ x = Whole(reg[tree[x].route].pattern)
      BY <2>2, Zenon DEF Recorded
    <3> QED
      BY <1>3, <3>1, <3>2, Zenon
  <2>3. CASE x # Whole(p) /\ x \notin DOMAIN tree
    <3>1. t[x].route = NoRoute
      BY <1>4, <2>3, Zenon
    <3> QED
      BY <3>1 DEF NoRoute
  <2> QED
    BY <2>1, <2>2, <2>3
<1>7. ASSUME NEW x \in DOMAIN t, x # <<>>
      PROVE  \E r \in DOMAIN g : /\ m \in g[r].methods
                                 /\ Len(x) \in 1..Len(g[r].pattern)
                                 /\ x = NodeAt(g[r].pattern, Len(x))
                                 /\ t[x].param_name = NameOf(g[r].pattern[Len(x)])
  <2>1. CASE x \in DOMAIN tree
    <3>1. PICK r \in DOMAIN reg : /\ m \in reg[r].methods
                                  /\ Len(x) \in 1..Len(reg[r].pattern)
                                  /\ x = NodeAt(reg[r].pattern, Len(x))
                                  /\ tree[x].param_name = NameOf(reg[r].pattern[Len(x)])
      BY <1>7, <2>1, Zenon DEF Recorded
    <3> QED
      BY <1>3, <1>4, <2>1, <3>1, Zenon
  <2>2. CASE x \notin DOMAIN tree
    <3>1. PICK j \in 0..Len(p) : x = NodeAt(p, j)
      BY <1>4, <2>2, Zenon DEF OnWay
    <3>2. Len(x) = j /\ j # 0
      BY <1>1, <1>7, <3>1, NodeFacts
    <3>3. Len(x) \in 1..Len(p) /\ x = NodeAt(p, Len(x))
      BY <1>1, <3>1, <3>2
    <3>4. t[x].param_name = NameOf(p[Len(x)])
      BY <1>4, <1>7, <2>2, Zenon
    <3> QED
      BY <1>2, <1>3, <3>3, <3>4, Zenon
  <2> QED
    BY <2>1, <2>2
<1>8. ASSUME NEW r \in DOMAIN g, m \in g[r].methods
      PROVE  t[Whole(g[r].pattern)].route >= r
  <2>1. CASE r = k
    <3>1. g[r].pattern = p
      BY <1>2, <1>3, <2>1
    <3>2. t[Whole(p)].route = k
      BY <1>4
    <3> QED
      BY <1>3, <2>1, <3>1, <3>2
  <2>2. CASE r \in DOMAIN reg
    <3> DEFINE x == Whole(reg[r].pattern)
    <3>1. g[r] = reg[r] /\ r < k /\ r \in Nat /\ k \in Nat
      BY <1>3, <2>2
    <3>2. tree[x].route >= r
      BY <1>8, <2>2, <3>1 DEF Recorded
    <3>3. x \in DOMAIN tree
      <4>1. reg[r] \in Routes
        BY <2>2
      <4>2. reg[r].pattern \in Seq(Part)
        BY <4>1, RouterAssumption DEF Routes
      <4>3. Len(reg[r].pattern) \in 0..Len(reg[r].pattern)
        BY <4>2
      <4> QED
        BY <1>8, <2>2, <3>1, <4>3, Zenon DEF Recorded, Whole, OnWay
    <3>4. t[x].route = k \/ t[x].route = tree[x].route
      BY <1>4, <3>3, Zenon
    <3> QED
      BY <3>1, <3>2, <3>4
  <2> QED
    BY <1>3, <2>1, <2>2
<1>9. Recorded(t, m, g)
  BY <1>5, <1>6, <1>7, <1>8, Zenon DEF Recorded
<1> QED
  BY <1>9, Zenon DEF t, g, e

\* A registration for other methods leaves a tree's record whole.
LEMMA OthersRecorded ==
  ASSUME NEW tree, NEW m \in Methods, NEW reg \in Seq(Routes), Recorded(tree, m, reg),
         NEW M \in SUBSET Methods, m \notin M, NEW p \in Patterns
  PROVE  Recorded(tree, m, Append(reg, [methods |-> M, pattern |-> p]))
<1> DEFINE k == Len(reg) + 1
           e == [methods |-> M, pattern |-> p]
           g == Append(reg, e)
<1>1. e \in Routes /\ e.methods = M
  BY DEF Routes
<1> HIDE DEF e
<1>2. /\ g[k] = e /\ \A r \in DOMAIN reg : g[r] = reg[r] /\ r \in DOMAIN g
      /\ \A r \in DOMAIN g : r \in DOMAIN reg \/ r = k
  BY <1>1, RegAppend
<1>3. \A r \in DOMAIN g : m \in g[r].methods => r \in DOMAIN reg
  BY <1>1, <1>2, Zenon
<1> HIDE DEF g
<1>4. \A x : x \in DOMAIN tree <=>
        \E r \in DOMAIN g : m \in g[r].methods /\ OnWay(x, g[r].pattern)
  BY <1>2, <1>3, Zenon DEF Recorded
<1>5. \A x \in DOMAIN tree :
       /\ tree[x].route \in Nat
       /\ tree[x].route # NoRoute =>
            /\ tree[x].route \in DOMAIN g
            /\ m \in g[tree[x].route].methods
            /\ x = Whole(g[tree[x].route].pattern)
  BY <1>2, Zenon DEF Recorded
<1>6. \A x \in DOMAIN tree :
       x # <<>> =>
            \E r \in DOMAIN g : /\ m \in g[r].methods
                                /\ Len(x) \in 1..Len(g[r].pattern)
                                /\ x = NodeAt(g[r].pattern, Len(x))
                                /\ tree[x].param_name = NameOf(g[r].pattern[Len(x)])
  BY <1>2, Zenon DEF Recorded
<1>7. \A r \in DOMAIN g :
       m \in g[r].methods => tree[Whole(g[r].pattern)].route >= r
  BY <1>2, <1>3, Zenon DEF Recorded
<1>8. Recorded(tree, m, g)
  BY <1>4, <1>5, <1>6, <1>7, Zenon DEF Recorded
<1> QED
  BY <1>8, Zenon DEF g, e

-----------------------------------------------------------------------------
(* The invariant, and what it says of the trees *)

LEMMA RoutePattern ==
  ASSUME NEW reg \in Seq(Routes), NEW r \in DOMAIN reg
  PROVE  /\ reg[r].pattern \in Patterns /\ reg[r].pattern \in Seq(Part) /\ r \in Nat \ {0}
         /\ Len(reg[r].pattern) \in Nat
         /\ DOMAIN reg[r].pattern = 1..Len(reg[r].pattern)
<1>1. reg[r] \in Routes /\ r \in Nat \ {0}
  OBVIOUS
<1>2. reg[r].pattern \in Patterns /\ reg[r].pattern \in Seq(Part)
  BY <1>1, RouterAssumption DEF Routes
<1> QED
  BY <1>1, <1>2

\* The trees are as the search needs them.
LEMMA RecordedIsGood ==
  ASSUME NEW tree, NEW m, NEW reg \in Seq(Routes), Recorded(tree, m, reg), WildcardsLast
  PROVE  GoodTree(tree)
<1>1. ASSUME NEW x \in DOMAIN tree
      PROVE  \E r \in DOMAIN reg : /\ m \in reg[r].methods
                                   /\ \E j \in 0..Len(reg[r].pattern) : x = NodeAt(reg[r].pattern, j)
  BY Zenon DEF Recorded, OnWay
<1>2. \A x \in DOMAIN tree : tree[x].route \in Nat
  BY Zenon DEF Recorded
<1>3. ASSUME NEW x \in DOMAIN tree
      PROVE  /\ x \in Seq(Keys)
             /\ \A j \in 0..Len(x) : Up(x, j) \in DOMAIN tree
  <2>1. PICK r \in DOMAIN reg : /\ m \in reg[r].methods
                                /\ \E j \in 0..Len(reg[r].pattern) : x = NodeAt(reg[r].pattern, j)
    BY <1>1
  <2> DEFINE p == reg[r].pattern
  <2>2. p \in Seq(Part) /\ Len(p) \in Nat
    BY RoutePattern
  <2>3. PICK l \in 0..Len(p) : x = NodeAt(p, l)
    BY <2>1
  <2>4. x \in Seq(Keys) /\ Len(x) = l /\ \A j \in 0..l : Up(x, j) = NodeAt(p, j)
    BY <2>2, <2>3, NodeFacts
  <2>5. \A j \in 0..l : j \in 0..Len(p)
    BY <2>2
  <2>6. \A j \in 0..l : NodeAt(p, j) \in DOMAIN tree
    BY <2>1, <2>5, Zenon DEF Recorded, OnWay
  <2> QED
    BY <2>4, <2>6, Zenon
<1>4. ASSUME NEW x \in DOMAIN tree, NEW j \in DOMAIN x, x[j].kind # "static"
      PROVE  tree[Up(x, j)].param_name \in Names
  <2> DEFINE y == Up(x, j)
  <2>1. x \in Seq(Keys) /\ j \in 0..Len(x) /\ j \in 1..Len(x)
    BY <1>3
  <2>2. y \in DOMAIN tree /\ Len(y) = j /\ y[j] = x[j]
    BY <1>3, <2>1, UpFacts
  <2> HIDE DEF y
  <2>3. y # <<>> /\ j \in Nat \ {0}
    BY <2>1, <2>2
  <2>4. PICK r \in DOMAIN reg : /\ m \in reg[r].methods
                                /\ Len(y) \in 1..Len(reg[r].pattern)
                                /\ y = NodeAt(reg[r].pattern, Len(y))
                                /\ tree[y].param_name = NameOf(reg[r].pattern[Len(y)])
    BY <2>2, <2>3, Zenon DEF Recorded
  <2> DEFINE p == reg[r].pattern
  <2>5. p \in Patterns /\ p \in Seq(Part) /\ Len(p) \in Nat /\ DOMAIN p = 1..Len(p)
    BY RoutePattern
  <2>6. j \in 0..Len(p) /\ j \in 1..j /\ j \in DOMAIN p
    BY <2>2, <2>3, <2>4, <2>5
  <2>7. y[j].kind = p[j].kind
    <3>1. y = NodeAt(p, j)
      BY <2>2, <2>4
    <3> HIDE DEF p
    <3> QED
      BY <2>5, <2>6, <3>1, NodeFacts
  <2>8. tree[y].param_name = p[j].text
    BY <1>4, <2>2, <2>4, <2>7 DEF NameOf
  <2>9. p[j].text \in Names
    <3> HIDE DEF p
    <3>1. p[j].text \in {p[i].text : i \in DOMAIN p}
      BY <2>6
    <3>2. {p[i].text : i \in DOMAIN p} \in {{o[i].text : i \in DOMAIN o} : o \in Patterns}
      BY <2>5, Zenon
    <3> QED
      BY <3>1, <3>2, Zenon DEF Names
  <2> QED
    BY <2>8, <2>9 DEF y
<1>5. ASSUME NEW x \in DOMAIN tree, NEW j \in DOMAIN x, x[j].kind = "wildcard"
      PROVE  j = Len(x) /\ tree[x].route # NoRoute
  <2>1. PICK r \in DOMAIN reg : /\ m \in reg[r].methods
                                /\ \E l \in 0..Len(reg[r].pattern) : x = NodeAt(reg[r].pattern, l)
    BY <1>1
  <2> DEFINE p == reg[r].pattern
  <2>2. /\ p \in Patterns /\ p \in Seq(Part) /\ Len(p) \in Nat /\ DOMAIN p = 1..Len(p)
        /\ r \in Nat \ {0}
    BY RoutePattern
  <2>3. PICK l \in 0..Len(p) : x = NodeAt(p, l)
    BY <2>1
  <2>4. /\ Len(x) = l /\ DOMAIN x = 1..l /\ j \in 1..Len(p) /\ x[j].kind = p[j].kind
    <3> HIDE DEF p
    <3>1. Len(x) = l /\ DOMAIN x = 1..l /\ \A i \in 1..l : x[i].kind = p[i].kind
      BY <2>2, <2>3, NodeFacts
    <3> QED
      BY <2>2, <3>1
  <2>5. j = Len(p)
    BY <1>5, <2>2, <2>4 DEF WildcardsLast
  <2>6. l = Len(p)
    BY <2>2, <2>4, <2>5
  <2>7. x = Whole(p)
    BY <2>3, <2>6 DEF Whole
  <2>8. tree[x].route >= r /\ tree[x].route \in Nat
    BY <2>1, <2>7, Zenon DEF Recorded
  <2> QED
    BY <2>2, <2>4, <2>5, <2>6, <2>8 DEF NoRoute
<1> QED
  BY <1>2, <1>3, <1>4, <1>5, Zenon DEF GoodTree

\* A registration in the trees that the request's method has.
LEMMA RegisterKeeps ==
  ASSUME RouteInv, NEW M \in SUBSET Methods, NEW p \in Patterns,
         registered' = Append(registered, [methods |-> M, pattern |-> p]),
         trees' = [m \in Methods |-> IF m \in M THEN InsertRoute(trees[m], p, Len(registered) + 1)
                                     ELSE trees[m]]
  PROVE  RouteInv'
<1> DEFINE e == [methods |-> M, pattern |-> p]
<1>1. e \in Routes
  BY DEF Routes
<1>2. registered' \in Seq(Routes)
  BY <1>1, RegAppend DEF RouteInv
<1>3. ASSUME NEW m \in Methods PROVE Recorded(trees'[m], m, registered')
  <2>1. Recorded(trees[m], m, registered) /\ registered \in Seq(Routes)
    BY DEF RouteInv
  <2>2. CASE m \in M
    <3>1. trees'[m] = InsertRoute(trees[m], p, Len(registered) + 1)
      BY <2>2
    <3> QED
      BY <2>1, <2>2, <3>1, InsertRecords
  <2>3. CASE m \notin M
    <3>1. trees'[m] = trees[m]
      BY <2>3
    <3> QED
      BY <2>1, <2>3, <3>1, OthersRecorded
  <2> QED
    BY <2>2, <2>3
<1>4. trees' = [m \in Methods |-> trees'[m]]
  BY Zenon
<1> QED
  BY <1>2, <1>3, <1>4, Zenon DEF RouteInv

\* Register and RegisterAny, as one step.
LEMMA RegisterStep ==
  ASSUME RouteInv,
         \/ \E m \in Methods, p \in Patterns : Register(m, p)
         \/ \E p \in Patterns : RegisterAny(p)
  PROVE  /\ answer = NoAnswer /\ answer' = answer
         /\ \E M \in SUBSET Methods, p \in Patterns :
              /\ registered' = Append(registered, [methods |-> M, pattern |-> p])
              /\ trees' = [m \in Methods |->
                   IF m \in M THEN InsertRoute(trees[m], p, Len(registered) + 1)
                   ELSE trees[m]]
<1>0. registered \in Seq(Routes) /\ trees = [m \in Methods |-> trees[m]]
  BY DEF RouteInv
<1>1. ASSUME NEW M \in SUBSET Methods, NEW p \in Patterns,
             registered' = Append(registered, [methods |-> M, pattern |-> p])
      PROVE  Len(registered') = Len(registered) + 1
  <2>1. [methods |-> M, pattern |-> p] \in Routes
    BY DEF Routes
  <2> QED
    BY <1>0, <1>1, <2>1, RegAppend
<1>2. CASE \E m \in Methods, p \in Patterns : Register(m, p)
  <2>1. PICK m \in Methods, p \in Patterns : Register(m, p)
    BY <1>2
  <2>2. {m} \in SUBSET Methods /\ answer = NoAnswer /\ answer' = answer
        /\ registered' = Append(registered, [methods |-> {m}, pattern |-> p])
    BY <2>1 DEF Register
  <2>3. Len(registered') = Len(registered) + 1
    BY <1>1, <2>2
  <2>4. trees' = [trees EXCEPT ![m] = InsertRoute(trees[m], p, Len(registered) + 1)]
    BY <2>1, <2>3 DEF Register
  <2>5. trees' = [o \in Methods |-> IF o \in {m} THEN InsertRoute(trees[o], p, Len(registered) + 1)
                                    ELSE trees[o]]
    BY <1>0, <2>4
  <2> QED
    BY <2>2, <2>5
<1>3. CASE \E p \in Patterns : RegisterAny(p)
  <2>1. PICK p \in Patterns : RegisterAny(p)
    BY <1>3
  <2>2. Methods \in SUBSET Methods /\ answer = NoAnswer /\ answer' = answer
        /\ registered' = Append(registered, [methods |-> Methods, pattern |-> p])
    BY <2>1 DEF RegisterAny
  <2>3. Len(registered') = Len(registered) + 1
    BY <1>1, <2>2
  <2>4. trees' = [m \in Methods |-> InsertRoute(trees[m], p, Len(registered) + 1)]
    BY <2>1, <2>3 DEF RegisterAny
  <2>5. trees' = [m \in Methods |-> IF m \in Methods THEN InsertRoute(trees[m], p, Len(registered) + 1)
                                    ELSE trees[m]]
    BY <2>4
  <2> QED
    BY <2>2, <2>5
<1> QED
  BY <1>2, <1>3

\* The steps that leave the routes alone.
LEMMA OtherSteps ==
  ASSUME [Next]_vars
  PROVE  \/ \E m \in Methods, p \in Patterns : Register(m, p)
         \/ \E p \in Patterns : RegisterAny(p)
         \/ /\ trees' = trees /\ registered' = registered
            /\ \/ answer' = answer
               \/ answer' = NoAnswer
               \/ \E m \in Methods, p \in Paths, q \in Queries : Find(m, p, q)
BY Zenon DEF Next, vars, Find, NextRequest

LEMMA RouteInvInit ==
  Init => RouteInv
<1> SUFFICES ASSUME Init PROVE RouteInv
  OBVIOUS
<1>1. registered = <<>> /\ registered \in Seq(Routes) /\ DOMAIN registered = {}
  BY DEF Init
<1>2. trees = [m \in Methods |-> trees[m]]
  BY DEF Init
<1>3. ASSUME NEW m \in Methods PROVE Recorded(trees[m], m, registered)
  <2>1. DOMAIN trees[m] = {}
    BY DEF Init, NoTree
  <2> QED
    BY <1>1, <2>1, Zenon DEF Recorded
<1> QED
  BY <1>1, <1>2, <1>3 DEF RouteInv

LEMMA RouteInvNext ==
  RouteInv /\ [Next]_vars => RouteInv'
<1> SUFFICES ASSUME RouteInv, [Next]_vars PROVE RouteInv'
  OBVIOUS
<1>1. CASE \/ \E m \in Methods, p \in Patterns : Register(m, p)
           \/ \E p \in Patterns : RegisterAny(p)
  BY <1>1, RegisterStep, RegisterKeeps
<1>2. CASE trees' = trees /\ registered' = registered
  BY <1>2 DEF RouteInv
<1> QED
  BY <1>1, <1>2, OtherSteps

\* The trees record what was registered: insertRoute adds the nodes of a pattern,
\* loses none, and the last registration of a pattern has its route.
THEOREM TreesRecord ==
  Spec => []RouteInv
BY RouteInvInit, RouteInvNext, PTL DEF Spec

-----------------------------------------------------------------------------
(* FindsBest *)

\* A pattern and its node describe the same paths and rank alike.
LEMMA WholeFacts ==
  ASSUME NEW p \in Seq(Part)
  PROVE  LET w == Whole(p)
         IN  /\ w \in Seq(Keys) /\ Len(w) = Len(p) /\ Len(p) \in Nat
             /\ DOMAIN w = 1..Len(p) /\ DOMAIN p = 1..Len(p)
             /\ w = <<>> <=> p = <<>>
             /\ \A i \in 1..Len(p) :
                  /\ p[i] \in Part /\ w[i].kind = p[i].kind
                  /\ p[i].kind = "static" => w[i].text = p[i].text
                  /\ Precedence(w[i]) = Precedence(p[i])
<1> DEFINE w == Whole(p)
<1>1. Len(p) \in Nat /\ DOMAIN p = 1..Len(p) /\ Len(p) \in 0..Len(p) /\ (p = <<>> <=> Len(p) = 0)
  OBVIOUS
<1>2. /\ w \in Seq(Keys) /\ Len(w) = Len(p) /\ DOMAIN w = 1..Len(p)
      /\ w = <<>> <=> Len(p) = 0
      /\ \A i \in 1..Len(p) :
           /\ p[i] \in Part /\ w[i].kind = p[i].kind
           /\ p[i].kind = "static" => w[i].text = p[i].text
  BY <1>1, NodeFacts DEF Whole
<1> HIDE DEF w
<1>3. \A i \in 1..Len(p) : Precedence(w[i]) = Precedence(p[i])
  BY <1>2 DEF Precedence
<1> QED
  BY <1>1, <1>2, <1>3 DEF w

LEMMA WholeDescribes ==
  ASSUME NEW p \in Seq(Part), NEW path
  PROVE  Describes(p, path) <=> Describes(Whole(p), path)
<1> DEFINE w == Whole(p)
           N == Len(SegmentsOf(path))
<1>1. /\ Len(w) = Len(p) /\ Len(p) \in Nat
      /\ DOMAIN w = 1..Len(p) /\ DOMAIN p = 1..Len(p)
      /\ w = <<>> <=> p = <<>>
      /\ \A i \in 1..Len(p) :
           /\ p[i] \in Part /\ w[i].kind = p[i].kind
           /\ p[i].kind = "static" => w[i].text = p[i].text
  BY WholeFacts
<1> HIDE DEF w
<1>2. p # <<>> => Len(p) \in 1..Len(p)
  <2>1. p # <<>> => Len(p) # 0
    OBVIOUS
  <2> QED
    BY <1>1, <2>1
<1>3. (p # <<>> /\ p[Len(p)].kind = "wildcard") <=> (w # <<>> /\ w[Len(w)].kind = "wildcard")
  BY <1>1, <1>2, Zenon
<1>4. (\A i \in DOMAIN p : p[i].kind = "static" => p[i].text = SegmentsOf(path)[i])
      <=> (\A i \in DOMAIN w : w[i].kind = "static" => w[i].text = SegmentsOf(path)[i])
  BY <1>1, Zenon
<1> QED
  BY <1>1, <1>3, <1>4, Zenon DEF Describes, w

LEMMA WholeSpecific ==
  ASSUME NEW p \in Seq(Part), NEW q \in Seq(Part)
  PROVE  MoreSpecific(p, q) <=> MoreSpecific(Whole(p), Whole(q))
<1> DEFINE v == Whole(p)
           w == Whole(q)
<1>1. /\ DOMAIN v = DOMAIN p /\ DOMAIN p = 1..Len(p) /\ Len(p) \in Nat
      /\ \A i \in DOMAIN p : Precedence(v[i]) = Precedence(p[i])
  BY WholeFacts
<1>2. /\ DOMAIN w = DOMAIN q /\ DOMAIN q = 1..Len(q) /\ Len(q) \in Nat
      /\ \A i \in DOMAIN q : Precedence(w[i]) = Precedence(q[i])
  BY WholeFacts
<1> HIDE DEF v, w
<1>3. \A i \in DOMAIN p \cap DOMAIN q : \A j \in 1..(i - 1) : j \in DOMAIN p /\ j \in DOMAIN q
  BY <1>1, <1>2
<1> QED
  BY <1>1, <1>2, <1>3 DEF MoreSpecific, v, w

\* No two nodes are each more specific than the other.
LEMMA SpecificIsStrict ==
  ASSUME NEW x \in Seq(Keys), NEW y \in Seq(Keys), MoreSpecific(x, y)
  PROVE  ~MoreSpecific(y, x)
<1>1. SUFFICES ASSUME MoreSpecific(y, x) PROVE FALSE
  OBVIOUS
<1>2. PICK i \in DOMAIN x \cap DOMAIN y :
        /\ Precedence(x[i]) < Precedence(y[i])
        /\ \A j \in 1..(i - 1) : Precedence(x[j]) = Precedence(y[j])
  BY DEF MoreSpecific
<1>3. PICK k \in DOMAIN y \cap DOMAIN x :
        /\ Precedence(y[k]) < Precedence(x[k])
        /\ \A j \in 1..(k - 1) : Precedence(y[j]) = Precedence(x[j])
  BY <1>1 DEF MoreSpecific
<1>4. i \in Nat \ {0} /\ k \in Nat \ {0} /\ x[i] \in Keys /\ y[i] \in Keys
      /\ x[k] \in Keys /\ y[k] \in Keys
  OBVIOUS
<1>5. \A key \in Keys : Precedence(key) \in Nat
  BY KeyCases DEF Precedence
<1>6. /\ Precedence(x[i]) \in Nat /\ Precedence(y[i]) \in Nat
      /\ Precedence(x[k]) \in Nat /\ Precedence(y[k]) \in Nat
  BY <1>4, <1>5
<1>7. CASE i < k
  BY <1>2, <1>3, <1>4, <1>6, <1>7
<1>8. CASE k < i
  BY <1>2, <1>3, <1>4, <1>6, <1>8
<1>9. CASE i = k
  BY <1>2, <1>3, <1>6, <1>9
<1> QED
  BY <1>4, <1>7, <1>8, <1>9

\* Where a registered route that describes the path is found.
LEMMA CandidateTarget ==
  ASSUME RouteInv, NEW m \in Methods, NEW path \in Seq(STRING), NEW s \in Candidates(m, path)
  PROVE  LET y == Whole(registered[s].pattern)
         IN  /\ y \in Targets(trees[m], path, <<>>) /\ trees[m][y].route >= s
             /\ s \in Nat \ {0} /\ trees[m][y].route \in Nat
             /\ registered[s].pattern \in Seq(Part)
<1> DEFINE p == registered[s].pattern
           y == Whole(p)
<1>1. s \in DOMAIN registered /\ m \in registered[s].methods /\ Describes(p, path)
  BY Zenon DEF Candidates
<1>2. Recorded(trees[m], m, registered) /\ registered \in Seq(Routes)
  BY DEF RouteInv
<1>3. p \in Seq(Part) /\ s \in Nat \ {0} /\ Len(p) \in Nat
  BY <1>1, <1>2, RoutePattern
<1>4. Len(p) \in 0..Len(p)
  BY <1>3
<1>5. y \in DOMAIN trees[m]
  BY <1>1, <1>2, <1>4, Zenon DEF Recorded, OnWay, Whole
<1>6. trees[m][y].route >= s /\ trees[m][y].route \in Nat
  BY <1>1, <1>2, <1>5, Zenon DEF Recorded
<1>7. Describes(y, path)
  BY <1>1, <1>3, WholeDescribes
<1>8. y \in Seq(Keys)
  BY <1>3, WholeFacts
<1> HIDE DEF y
<1>9. Below(<<>>, y)
  BY <1>8 DEF Below
<1>10. trees[m][y].route # NoRoute
  BY <1>3, <1>6 DEF NoRoute
<1>11. y \in Targets(trees[m], path, <<>>)
  BY <1>5, <1>7, <1>9, <1>10, Zenon DEF Targets
<1> QED
  BY <1>3, <1>6, <1>11 DEF y

\* The route of the best node is the best route.
LEMMA BestNode ==
  ASSUME RouteInv, NEW m \in Methods, NEW path \in Seq(STRING),
         NEW x \in Targets(trees[m], path, <<>>),
         \A y \in Targets(trees[m], path, <<>>) : y # x => MoreSpecific(x, y)
  PROVE  /\ trees[m][x].route = BestOf(m, path) /\ trees[m][x].route # NoRoute
         /\ trees[m][x].route \in DOMAIN registered
         /\ m \in registered[trees[m][x].route].methods
         /\ x = Whole(registered[trees[m][x].route].pattern)
<1> DEFINE tree == trees[m]
           k == tree[x].route
           c == Candidates(m, path)
           pat(r) == registered[r].pattern
           Beats(r) == \A s \in c \ {r} :
                         \/ MoreSpecific(pat(r), pat(s))
                         \/ ~MoreSpecific(pat(s), pat(r)) /\ s < r
<1>1. x \in DOMAIN tree /\ Describes(x, path) /\ k # NoRoute
  BY Zenon DEF Targets
<1>2. Recorded(tree, m, registered) /\ registered \in Seq(Routes)
  BY DEF RouteInv
<1>3. k \in DOMAIN registered /\ m \in registered[k].methods /\ x = Whole(pat(k)) /\ k \in Nat
  BY <1>1, <1>2, Zenon DEF Recorded
<1>4. pat(k) \in Seq(Part)
  BY <1>2, <1>3, RoutePattern
<1> HIDE DEF k
<1>5. k \in c
  <2>1. Describes(pat(k), path)
    BY <1>1, <1>3, <1>4, WholeDescribes
  <2> QED
    BY <1>3, <2>1, Zenon DEF Candidates
<1>6. \A s \in c : pat(s) \in Seq(Part) /\ s \in Nat
  BY CandidateTarget
<1>7. \A r, s \in c : MoreSpecific(pat(r), pat(s)) => ~MoreSpecific(pat(s), pat(r))
  <2>1. TAKE r, s \in c
  <2>2. pat(r) \in Seq(Part) /\ pat(s) \in Seq(Part)
    BY <1>6
  <2> HIDE DEF pat
  <2>3. Whole(pat(r)) \in Seq(Keys) /\ Whole(pat(s)) \in Seq(Keys)
    BY <2>2, WholeFacts
  <2> QED
    BY <2>2, <2>3, WholeSpecific, SpecificIsStrict
<1>8. Beats(k)
  <2>1. TAKE s \in c \ {k}
  <2> DEFINE y == Whole(pat(s))
  <2>2. /\ y \in Targets(tree, path, <<>>) /\ tree[y].route >= s /\ s \in Nat
        /\ pat(s) \in Seq(Part)
    BY CandidateTarget
  <2>3. CASE y # x
    <3>1. MoreSpecific(x, y)
      BY <2>2, <2>3
    <3> QED
      BY <1>3, <1>4, <2>2, <3>1, WholeSpecific
  <2>4. CASE y = x
    <3>1. s < k
      BY <1>3, <2>1, <2>2, <2>4 DEF k
    <3>2. ~MoreSpecific(x, x)
      <4>1. x \in Seq(Keys)
        BY <1>3, <1>4, WholeFacts
      <4> QED
        BY <4>1, SpecificIsStrict
    <3>3. ~MoreSpecific(pat(s), pat(k))
      BY <1>3, <1>4, <2>2, <2>4, <3>2, WholeSpecific
    <3> QED
      BY <3>1, <3>3
  <2> QED
    BY <2>3, <2>4
<1> HIDE DEF c, pat
<1>9. ASSUME NEW r \in c, Beats(r) PROVE r = k
  <2>1. SUFFICES ASSUME r # k PROVE FALSE
    OBVIOUS
  <2>2. MoreSpecific(pat(r), pat(k)) \/ (~MoreSpecific(pat(k), pat(r)) /\ k < r)
    BY <1>5, <1>9, <2>1
  <2>3. MoreSpecific(pat(k), pat(r)) \/ (~MoreSpecific(pat(r), pat(k)) /\ r < k)
    BY <1>8, <1>9, <2>1
  <2>4. r \in Nat /\ k \in Nat
    BY <1>3, <1>6, <1>9
  <2>5. ~(MoreSpecific(pat(r), pat(k)) /\ MoreSpecific(pat(k), pat(r)))
    BY <1>5, <1>7, <1>9
  <2> QED
    BY <2>2, <2>3, <2>4, <2>5
<1>10. BestOf(m, path) = CHOOSE r \in c : Beats(r)
  <2>1. c # {}
    BY <1>5
  <2> QED
    BY <2>1, Zenon DEF BestOf, c, pat
<1> HIDE DEF Beats
<1>11. (CHOOSE r \in c : Beats(r)) = k
  BY <1>5, <1>8, <1>9, Zenon
<1> QED
  BY <1>1, <1>3, <1>10, <1>11, Zenon DEF k, pat

\* What matchIn finds in a method's tree is that method's best route.
LEMMA MatchInBest ==
  ASSUME RouteInv, WildcardsLast, NEW m \in Methods, NEW path \in Seq(STRING),
         NEW params \in Params
  PROVE  LET r == MatchIn(trees[m], path, params)
         IN  /\ r \in Results
             /\ r.outcome = "hit" =>
                  /\ trees[m][r.node].route = BestOf(m, path) /\ BestOf(m, path) # NoRoute
                  /\ BestOf(m, path) \in DOMAIN registered
                  /\ m \in registered[BestOf(m, path)].methods
                  /\ r.node = Whole(registered[BestOf(m, path)].pattern)
             /\ r.outcome = "miss" => BestOf(m, path) = NoRoute
<1> DEFINE r == MatchIn(trees[m], path, params)
<1>1. GoodTree(trees[m])
  BY RecordedIsGood DEF RouteInv
<1>2. r \in Results /\ Found(trees[m], path, <<>>, r)
  BY <1>1, MatchInFinds
<1> HIDE DEF r
<1>3. r.outcome = "hit" =>
        /\ trees[m][r.node].route = BestOf(m, path) /\ BestOf(m, path) # NoRoute
        /\ BestOf(m, path) \in DOMAIN registered
        /\ m \in registered[BestOf(m, path)].methods
        /\ r.node = Whole(registered[BestOf(m, path)].pattern)
  <2>1. SUFFICES ASSUME r.outcome = "hit"
                 PROVE  /\ trees[m][r.node].route = BestOf(m, path) /\ BestOf(m, path) # NoRoute
                        /\ BestOf(m, path) \in DOMAIN registered
                        /\ m \in registered[BestOf(m, path)].methods
                        /\ r.node = Whole(registered[BestOf(m, path)].pattern)
    OBVIOUS
  <2>2. /\ r.node \in Targets(trees[m], path, <<>>)
        /\ \A y \in Targets(trees[m], path, <<>>) : y # r.node => MoreSpecific(r.node, y)
    BY <1>2, <2>1, Zenon DEF Found
  <2>3. /\ trees[m][r.node].route = BestOf(m, path) /\ trees[m][r.node].route # NoRoute
        /\ trees[m][r.node].route \in DOMAIN registered
        /\ m \in registered[trees[m][r.node].route].methods
        /\ r.node = Whole(registered[trees[m][r.node].route].pattern)
    BY <2>2, BestNode
  <2> QED
    BY <2>3, Zenon
<1>4. r.outcome = "miss" => BestOf(m, path) = NoRoute
  <2>1. r.outcome = "miss" => Targets(trees[m], path, <<>>) = {}
    BY <1>2, Zenon DEF Found
  <2>2. r.outcome = "miss" => Candidates(m, path) = {}
    BY <2>1, CandidateTarget
  <2> QED
    BY <2>2, Zenon DEF BestOf
<1> QED
  BY <1>2, <1>3, <1>4 DEF r

LEMMA NoParamsFacts ==
  /\ NoParams \in Params /\ \A n \in Names : NoParams[n] = <<>>
<1>1. << >> \in Seq(STRING)
  OBVIOUS
<1> QED
  BY <1>1 DEF NoParams, Params


\* findHandler, with the fallback of a HEAD: the expected route.
LEMMA FindHandlerBest ==
  ASSUME RouteInv, WildcardsLast, NEW m \in Methods, NEW path \in Seq(STRING)
  PROVE  LET f == FindHandler(trees, m, path)
         IN  /\ f.outcome \in {"hit", "miss", "error"} /\ f.params \in Params
             /\ f.outcome = "hit" =>
                  /\ trees[f.node[1]][f.node[2]].route = Expected(m, path)
                  /\ Expected(m, path) \in DOMAIN registered
                  /\ f.node[2] = Whole(registered[Expected(m, path)].pattern)
             /\ f.outcome = "miss" => Expected(m, path) = NoRoute
<1> DEFINE f == FindHandler(trees, m, path)
           own == MatchIn(trees[m], path, NoParams)
           get == MatchIn(trees["GET"], path, own.params)
<1>1. NoParams \in Params /\ "GET" \in Methods
  BY NoParamsFacts, RouterAssumption
<1>2. /\ own \in Results
      /\ own.outcome = "hit" =>
           /\ trees[m][own.node].route = BestOf(m, path) /\ BestOf(m, path) # NoRoute
           /\ BestOf(m, path) \in DOMAIN registered
           /\ own.node = Whole(registered[BestOf(m, path)].pattern)
      /\ own.outcome = "miss" => BestOf(m, path) = NoRoute
  BY <1>1, MatchInBest
<1>3. own.params \in Params
  BY <1>2 DEF Results
<1>4. /\ get \in Results
      /\ get.outcome = "hit" =>
           /\ trees["GET"][get.node].route = BestOf("GET", path)
           /\ BestOf("GET", path) \in DOMAIN registered
           /\ get.node = Whole(registered[BestOf("GET", path)].pattern)
      /\ get.outcome = "miss" => BestOf("GET", path) = NoRoute
  BY <1>1, <1>3, MatchInBest
<1>5. f = IF own.outcome = "miss" /\ m = "HEAD" THEN [get EXCEPT !.node = <<"GET", get.node>>]
          ELSE [own EXCEPT !.node = <<m, own.node>>]
  BY Zenon DEF FindHandler
<1> HIDE DEF f, own, get
<1>6. CASE own.outcome = "miss" /\ m = "HEAD"
  <2>1. f = [get EXCEPT !.node = <<"GET", get.node>>]
    BY <1>5, <1>6, Zenon
  <2>2. /\ f.outcome = get.outcome /\ f.params = get.params /\ f.node = <<"GET", get.node>>
        /\ get.outcome \in {"hit", "miss", "error"} /\ get.params \in Params
    BY <1>4, <2>1 DEF Results
  <2>3. Expected(m, path) = BestOf("GET", path)
    BY <1>2, <1>6, Zenon DEF Expected
  <2> QED
    BY <1>4, <2>2, <2>3 DEF f
<1>7. CASE ~(own.outcome = "miss" /\ m = "HEAD")
  <2>1. f = [own EXCEPT !.node = <<m, own.node>>]
    BY <1>5, <1>7, Zenon
  <2>2. /\ f.outcome = own.outcome /\ f.params = own.params /\ f.node = <<m, own.node>>
        /\ own.outcome \in {"hit", "miss", "error"} /\ own.params \in Params
    BY <1>2, <2>1 DEF Results
  <2>3. own.outcome # "error" => Expected(m, path) = BestOf(m, path)
    BY <1>2, <1>7, <2>2 DEF Expected
  <2> QED
    BY <1>2, <2>2, <2>3 DEF f
<1> QED
  BY <1>6, <1>7

\* The reference, as a function of what was registered.
CandidatesIn(reg, method, path) ==
  {r \in DOMAIN reg : method \in reg[r].methods /\ Describes(reg[r].pattern, path)}

BestIn(reg, method, path) ==
  LET c == CandidatesIn(reg, method, path) IN
  IF c = {} THEN NoRoute
  ELSE CHOOSE r \in c :
         \A s \in c \ {r} :
           \/ MoreSpecific(reg[r].pattern, reg[s].pattern)
           \/ /\ ~MoreSpecific(reg[s].pattern, reg[r].pattern)
              /\ s < r

ExpectedIn(reg, method, path) ==
  IF method = "HEAD" /\ BestIn(reg, "HEAD", path) = NoRoute THEN BestIn(reg, "GET", path)
  ELSE BestIn(reg, method, path)

LEMMA SameExpected ==
  ASSUME registered' = registered, NEW m, NEW path
  PROVE  Expected(m, path)' = Expected(m, path)
<1>1. Expected(m, path) = ExpectedIn(registered, m, path)
  BY Zenon DEF Expected, BestOf, Candidates, ExpectedIn, BestIn, CandidatesIn
<1>2. Expected(m, path)' = ExpectedIn(registered', m, path)
  BY Zenon DEF Expected, BestOf, Candidates, ExpectedIn, BestIn, CandidatesIn
<1> QED
  BY <1>1, <1>2, Zenon

\* What Find answers.
LEMMA FindFacts ==
  ASSUME NEW m, NEW p, NEW q, Find(m, p, q)
  PROVE  LET f == FindHandler(trees, m, p)
         IN  /\ answer'.method = m /\ answer'.path = p /\ answer'.query = q
             /\ answer'.outcome = IF QueryFits(q) THEN f.outcome ELSE "error"
             /\ answer'.route = IF f.outcome = "hit" /\ QueryFits(q)
                                THEN trees[f.node[1]][f.node[2]].route ELSE NoRoute
             /\ answer'.params = IF QueryFits(q) THEN f.params ELSE NoParams
             /\ registered' = registered /\ trees' = trees
<1> DEFINE f == FindHandler(trees, m, p)
<1>1. answer' = [outcome |-> IF QueryFits(q) THEN f.outcome ELSE "error",
                 route |-> IF f.outcome = "hit" /\ QueryFits(q)
                           THEN trees[f.node[1]][f.node[2]].route ELSE NoRoute,
                 params |-> IF QueryFits(q) THEN f.params ELSE NoParams,
                 method |-> m, path |-> p, query |-> q]
      /\ registered' = registered /\ trees' = trees
  BY Zenon DEF Find
<1> HIDE DEF f
<1> QED
  BY <1>1 DEF f

LEMMA FindsBestStep ==
  ASSUME RouteInv, WildcardsLast, FindsBest, [Next]_vars
  PROVE  FindsBest'
<1>1. NoAnswer.outcome = "none"
  BY DEF NoAnswer
<1>2. CASE \/ \E m \in Methods, p \in Patterns : Register(m, p)
           \/ \E p \in Patterns : RegisterAny(p)
  <2>1. answer'.outcome = "none"
    BY <1>1, <1>2, RegisterStep
  <2> QED
    BY <2>1 DEF FindsBest
<1>3. CASE answer' = NoAnswer
  BY <1>1, <1>3 DEF FindsBest
<1>4. CASE registered' = registered /\ answer' = answer
  <2>1. Expected(answer.method, answer.path)' = Expected(answer.method, answer.path)
    <3>1. \A m, path : Expected(m, path)' = Expected(m, path)
      BY <1>4, SameExpected
    <3> QED
      BY <1>4, SameExpected
  <2> QED
    BY <1>4, <2>1 DEF FindsBest
<1>5. CASE \E m \in Methods, p \in Paths, q \in Queries : Find(m, p, q)
  <2>1. PICK m \in Methods, p \in Paths, q \in Queries : Find(m, p, q)
    BY <1>5
  <2>2. p \in Seq(STRING)
    BY RouterAssumption
  <2> DEFINE f == FindHandler(trees, m, p)
  <2>3. /\ answer'.method = m /\ answer'.path = p /\ answer'.query = q
        /\ answer'.outcome = IF QueryFits(q) THEN f.outcome ELSE "error"
        /\ answer'.route = IF f.outcome = "hit" /\ QueryFits(q)
                           THEN trees[f.node[1]][f.node[2]].route ELSE NoRoute
        /\ registered' = registered
    BY <2>1, FindFacts
  <2>4. /\ f.outcome = "hit" => trees[f.node[1]][f.node[2]].route = Expected(m, p)
        /\ f.outcome = "miss" => Expected(m, p) = NoRoute
    BY <2>2, FindHandlerBest
  <2>5. Expected(m, p)' = Expected(m, p)
    BY <2>3, SameExpected
  <2> HIDE DEF f
  <2>6. answer'.outcome \in {"hit", "miss"} => answer'.route = Expected(m, p)
    BY <2>3, <2>4
  <2> QED
    BY <2>3, <2>5, <2>6 DEF FindsBest
<1> QED
  BY <1>2, <1>3, <1>4, <1>5, OtherSteps

\* Where a wildcard ends its pattern: whatever was registered, in whatever order,
\* the backtracking search answers with the most specific route that describes the
\* path, the last registered among equals, and with none only where there is none.
THEOREM BestRouteFound ==
  ASSUME WildcardsLast
  PROVE  Spec => []FindsBest
<1>1. Init => RouteInv /\ FindsBest
  <2>1. NoAnswer.outcome = "none"
    BY DEF NoAnswer
  <2>2. Init => FindsBest
    BY <2>1 DEF Init, FindsBest
  <2> QED
    BY <2>2, RouteInvInit
<1>2. (RouteInv /\ FindsBest) /\ [Next]_vars => (RouteInv /\ FindsBest)'
  BY RouteInvNext, FindsBestStep
<1> QED
  BY <1>1, <1>2, PTL DEF Spec

-----------------------------------------------------------------------------
(* ParamsExact: how many parameters are captured *)

Support(params) == {n \in Names : params[n] # <<>>}

\* So many parameters as there are names on the way, and within the limit.
Within(n, q) ==
  /\ IsFiniteSet(Support(q)) /\ Count(q) <= MaxParams
  /\ Count(q) <= Cardinality(Captures(n))

\* What a call does to the number of parameters.
Limited(tree, q, r) ==
  /\ r.outcome = "miss" => Support(r.params) \subseteq Support(q)
  /\ r.outcome = "hit" => Count(r.params) <= MaxParams
  /\ r.outcome = "error" => \E x \in DOMAIN tree : Cardinality(Captures(x)) > MaxParams

LimitsFrom(tree, path, deeper, len) ==
  \A c \in DOMAIN tree, q \in Params :
    Len(c) = len /\ Along(c, path) /\ Within(c, q) => Limited(tree, q, deeper[<<c, q>>])

\* How putting and removing a parameter change how many there are.
LEMMA SupportFacts ==
  ASSUME NEW params \in Params, IsFiniteSet(Support(params))
  PROVE  /\ Count(params) \in Nat
         /\ \A u \in Params : Support(u) \subseteq Support(params) =>
              IsFiniteSet(Support(u)) /\ Count(u) \in Nat /\ Count(u) <= Count(params)
         /\ \A name \in Names, v \in Seq(STRING) :
              LET u == Put(params, name, v)
              IN  /\ IsFiniteSet(Support(u)) /\ Count(u) \in Nat /\ Count(u) <= Count(params) + 1
                  /\ \A o \in Params : Support(o) \subseteq Support(u) =>
                       Support(Backtrack(o, name)) \subseteq Support(params)
<1>1. \A u : Count(u) = Cardinality(Support(u))
  BY DEF Count, Support
<1>2. Count(params) \in Nat
  BY <1>1, FS_CardinalityType
<1>3. ASSUME NEW u \in Params, Support(u) \subseteq Support(params)
      PROVE  IsFiniteSet(Support(u)) /\ Count(u) \in Nat /\ Count(u) <= Count(params)
  <2>1. IsFiniteSet(Support(u)) /\ Cardinality(Support(u)) <= Cardinality(Support(params))
    BY <1>3, FS_Subset
  <2> QED
    BY <1>1, <2>1, FS_CardinalityType
<1>4. ASSUME NEW name \in Names, NEW v \in Seq(STRING)
      PROVE  LET u == Put(params, name, v)
             IN  /\ IsFiniteSet(Support(u)) /\ Count(u) \in Nat /\ Count(u) <= Count(params) + 1
                 /\ \A o \in Params : Support(o) \subseteq Support(u) =>
                      Support(Backtrack(o, name)) \subseteq Support(params)
  <2> DEFINE u == Put(params, name, v)
             T == Support(params) \cup {name}
  <2>1. IsFiniteSet(T) /\ Cardinality(T) <= Cardinality(Support(params)) + 1
        /\ Cardinality(T) \in Nat
    <3>1. IsFiniteSet(T) /\ Cardinality(T) = IF name \in Support(params)
                                             THEN Cardinality(Support(params))
                                             ELSE Cardinality(Support(params)) + 1
      BY FS_AddElement
    <3> QED
      BY <1>1, <1>2, <3>1, FS_CardinalityType
  <2>2. u \in Params /\ \A o \in Names : o # name => u[o] = params[o]
    BY PutFacts
  <2> HIDE DEF u
  <2>3. Support(u) \subseteq T
    BY <2>2 DEF Support
  <2>4. IsFiniteSet(Support(u)) /\ Cardinality(Support(u)) <= Cardinality(T)
    BY <2>1, <2>3, FS_Subset
  <2>5. Count(u) \in Nat /\ Count(u) <= Count(params) + 1
    <3>1. Cardinality(Support(u)) \in Nat
      BY <2>4, FS_CardinalityType
    <3> QED
      BY <1>1, <1>2, <2>1, <2>4, <3>1
  <2>6. ASSUME NEW o \in Params, Support(o) \subseteq Support(u)
        PROVE  Support(Backtrack(o, name)) \subseteq Support(params)
    <3> DEFINE b == Backtrack(o, name)
    <3>1. b[name] = <<>> /\ \A x \in Names : x # name => b[x] = o[x]
      BY PutFacts
    <3> HIDE DEF b
    <3>2. ASSUME NEW x \in Support(b) PROVE x \in Support(params)
      <4>1. x \in Names /\ b[x] # <<>>
        BY <3>2 DEF Support
      <4>2. x # name /\ o[x] # <<>>
        BY <3>1, <4>1
      <4>3. x \in Support(u)
        BY <2>6, <4>1, <4>2 DEF Support
      <4> QED
        BY <2>3, <4>2, <4>3
    <3> QED
      BY <3>2 DEF b
  <2> QED
    BY <2>4, <2>5, <2>6 DEF u
<1> QED
  BY <1>2, <1>3, <1>4

\* The captures of a node and of its child.
LEMMA CapturesChild ==
  ASSUME NEW n \in Seq(Keys), NEW k \in Keys
  PROVE  /\ IsFiniteSet(Captures(n)) /\ Cardinality(Captures(n)) \in Nat
         /\ \A j \in Captures(n) : j \in 1..Len(n) /\ j \in DOMAIN n /\ j # Len(n) + 1
         /\ k.kind = "static" => Captures(Append(n, k)) = Captures(n)
         /\ k.kind # "static" =>
              /\ Captures(Append(n, k)) = Captures(n) \cup {Len(n) + 1}
              /\ Cardinality(Captures(Append(n, k))) = Cardinality(Captures(n)) + 1
<1> DEFINE c == Append(n, k)
<1>1. /\ Len(c) = Len(n) + 1 /\ c[Len(n) + 1] = k /\ \A j \in DOMAIN n : c[j] = n[j]
      /\ DOMAIN c = 1..(Len(n) + 1) /\ DOMAIN n = 1..Len(n) /\ Len(n) \in Nat
  BY AppendFacts
<1> HIDE DEF c
<1>2. Captures(n) \in SUBSET (1..Len(n))
  BY <1>1 DEF Captures
<1>3. IsFiniteSet(Captures(n)) /\ Cardinality(Captures(n)) \in Nat
  BY <1>1, <1>2, PositionsFinite
<1>4. \A j \in Captures(n) : j \in 1..Len(n) /\ j \in DOMAIN n /\ j # Len(n) + 1
  BY <1>1, <1>2
<1>5. DOMAIN c = DOMAIN n \cup {Len(n) + 1}
  BY <1>1
<1>6. k.kind = "static" => Captures(c) = Captures(n)
  BY <1>1, <1>5 DEF Captures
<1>7. k.kind # "static" => Captures(c) = Captures(n) \cup {Len(n) + 1}
  BY <1>1, <1>5 DEF Captures
<1>8. Cardinality(Captures(n) \cup {Len(n) + 1}) = Cardinality(Captures(n)) + 1
  BY <1>3, <1>4, FS_AddElement
<1> QED
  BY <1>3, <1>4, <1>6, <1>7, <1>8 DEF c

\* One more capture: refused only below a node with more names than the limit.
LEMMA OneMore ==
  ASSUME NEW tree, GoodTree(tree), NEW n \in DOMAIN tree, NEW k \in Keys,
         Append(n, k) \in DOMAIN tree, k.kind # "static",
         NEW params \in Params, Within(n, params)
  PROVE  /\ Full(params) => \E x \in DOMAIN tree : Cardinality(Captures(x)) > MaxParams
         /\ ~Full(params) => \A v \in Seq(STRING) :
              Within(Append(n, k), Put(params, tree[Append(n, k)].param_name, v))
<1> DEFINE c == Append(n, k)
<1>1. n \in Seq(Keys) /\ tree[c].param_name \in Names
  BY ChildFacts
<1>2. Cardinality(Captures(n)) \in Nat /\ Cardinality(Captures(c)) = Cardinality(Captures(n)) + 1
  BY <1>1, CapturesChild
<1>3. /\ IsFiniteSet(Support(params)) /\ Count(params) <= MaxParams
      /\ Count(params) <= Cardinality(Captures(n)) /\ MaxParams \in Nat
  BY RouterAssumption DEF Within
<1>4. Count(params) \in Nat
  BY <1>3, SupportFacts
<1> HIDE DEF c
<1>5. ASSUME Full(params) PROVE \E x \in DOMAIN tree : Cardinality(Captures(x)) > MaxParams
  <2>1. Cardinality(Captures(c)) > MaxParams
    BY <1>2, <1>3, <1>4, <1>5 DEF Full
  <2> QED
    BY <2>1 DEF c
<1>6. ASSUME ~Full(params), NEW v \in Seq(STRING)
      PROVE  Within(c, Put(params, tree[c].param_name, v))
  <2> DEFINE u == Put(params, tree[c].param_name, v)
  <2>1. IsFiniteSet(Support(u)) /\ Count(u) \in Nat /\ Count(u) <= Count(params) + 1
    BY <1>1, <1>3, SupportFacts
  <2> HIDE DEF u
  <2>2. Count(params) + 1 <= MaxParams
    BY <1>3, <1>4, <1>6 DEF Full
  <2>3. Count(u) <= MaxParams /\ Count(u) <= Cardinality(Captures(c))
    BY <1>2, <1>3, <1>4, <2>1, <2>2
  <2> QED
    BY <2>1, <2>3 DEF Within, u
<1> QED
  BY <1>5, <1>6 DEF c

LEMMA SmallerWithin ==
  ASSUME NEW n \in Seq(Keys), NEW q \in Params, Within(n, q), NEW u \in Params,
         Support(u) \subseteq Support(q)
  PROVE  Within(n, u)
<1>1. IsFiniteSet(Support(q)) /\ Count(q) <= MaxParams /\ Count(q) <= Cardinality(Captures(n))
  BY DEF Within
<1>2. IsFiniteSet(Support(u)) /\ Count(u) \in Nat /\ Count(u) <= Count(q) /\ Count(q) \in Nat
  BY <1>1, SupportFacts
<1>3. Cardinality(Captures(n)) \in Nat /\ MaxParams \in Nat
  BY CapturesChild, KeyFacts, RouterAssumption
<1> QED
  BY <1>1, <1>2, <1>3 DEF Within

\* What the wildcard stands for.
LEMMA RestFacts ==
  ASSUME NEW path \in Seq(STRING), NEW n \in Seq(Keys), Len(n) < Len(SegmentsOf(path))
  PROVE  /\ SubSeq(path, Offsets(path)[Len(n) + 1], Len(path)) \in Seq(STRING)
         /\ <<SegmentsOf(path)[Len(n) + 1]>> \in Seq(STRING)
         /\ SegmentsOf(path)[Len(n) + 1] \in STRING
<1>1. Len(n) + 1 \in 1..Len(SegmentsOf(path))
  BY SegmentFacts
<1>2. Offsets(path)[Len(n) + 1] \in 1..Len(path) /\ SegmentsOf(path)[Len(n) + 1] \in STRING
  BY <1>1, SegmentFacts
<1> QED
  BY <1>2

LEMMA WildcardLimits ==
  ASSUME NEW tree, NEW path \in Seq(STRING), GoodTree(tree),
         NEW n \in DOMAIN tree, Len(n) < Len(SegmentsOf(path)),
         NEW params \in Params, Within(n, params)
  PROVE  Limited(tree, params, MatchWildcard(tree, path, Len(n) + 1, n, params))
<1> DEFINE r == MatchWildcard(tree, path, Len(n) + 1, n, params)
           w == Append(n, Wildcard)
           v == SubSeq(path, Offsets(path)[Len(n) + 1], Len(path))
           q == Put(params, tree[w].param_name, v)
<1>1. r = IF w \notin DOMAIN tree THEN Miss(params)
          ELSE IF Full(params) THEN TooManyParams(params) ELSE Hit(w, q)
  BY Zenon DEF MatchWildcard
<1>2. n \in Seq(Keys)
  BY DEF GoodTree
<1>3. CASE w \notin DOMAIN tree
  <2>1. r = Miss(params)
    BY <1>1, <1>3, Zenon
  <2> HIDE DEF r
  <2>2. r.outcome = "miss" /\ r.params = params
    BY <2>1 DEF Miss
  <2> QED
    BY <2>2 DEF Limited, r
<1>4. CASE w \in DOMAIN tree /\ Full(params)
  <2>1. r = TooManyParams(params)
    BY <1>1, <1>4, Zenon
  <2>2. \E x \in DOMAIN tree : Cardinality(Captures(x)) > MaxParams
    BY <1>4, KeyFacts, OneMore
  <2> HIDE DEF r
  <2>3. r.outcome = "error"
    BY <2>1 DEF TooManyParams
  <2> QED
    BY <2>2, <2>3 DEF Limited, r
<1>5. CASE w \in DOMAIN tree /\ ~Full(params)
  <2>1. r = Hit(w, q)
    BY <1>1, <1>5, Zenon
  <2>2. v \in Seq(STRING)
    BY <1>2, RestFacts
  <2>3. Within(w, q)
    BY <1>5, <2>2, KeyFacts, OneMore
  <2> HIDE DEF r, q
  <2>4. r.outcome = "hit" /\ r.params = q
    BY <2>1 DEF Hit
  <2> QED
    BY <2>3, <2>4 DEF Limited, Within, r
<1> QED
  BY <1>3, <1>4, <1>5

LEMMA ParamLimits ==
  ASSUME NEW tree, NEW path \in Seq(STRING), GoodTree(tree),
         NEW n \in DOMAIN tree, Along(n, path), Len(n) < Len(SegmentsOf(path)),
         NEW params \in Params, Within(n, params),
         NEW deeper, FindsFrom(tree, path, deeper, Len(n) + 1),
         LimitsFrom(tree, path, deeper, Len(n) + 1)
  PROVE  Limited(tree, params, MatchParam(tree, path, Len(n) + 1, n, params, deeper))
<1> DEFINE i == Len(n) + 1
           r == MatchParam(tree, path, i, n, params, deeper)
           p == Append(n, Param)
           name == tree[p].param_name
           q == Put(params, name, <<SegmentsOf(path)[i]>>)
           below == deeper[<<p, q>>]
           W(u) == MatchWildcard(tree, path, i, n, u)
<1>1. r = IF p \notin DOMAIN tree THEN W(params)
          ELSE IF Full(params) THEN TooManyParams(params)
          ELSE IF below.outcome # "miss" THEN below ELSE W(Backtrack(below.params, name))
  BY Zenon DEF MatchParam
<1>2. n \in Seq(Keys)
  BY DEF GoodTree
<1>3. ASSUME NEW u \in Params, r = W(u), Support(u) \subseteq Support(params)
      PROVE  Limited(tree, params, r)
  <2>1. Within(n, u)
    BY <1>2, <1>3, SmallerWithin
  <2>2. Limited(tree, u, r)
    BY <1>3, <2>1, WildcardLimits
  <2> HIDE DEF r
  <2> QED
    BY <1>3, <2>2 DEF Limited
<1>4. CASE p \notin DOMAIN tree
  BY <1>1, <1>3, <1>4, Zenon
<1>5. CASE p \in DOMAIN tree /\ Full(params)
  <2>1. r = TooManyParams(params)
    BY <1>1, <1>5, Zenon
  <2>2. \E x \in DOMAIN tree : Cardinality(Captures(x)) > MaxParams
    BY <1>5, KeyFacts, OneMore
  <2> HIDE DEF r
  <2>3. r.outcome = "error"
    BY <2>1 DEF TooManyParams
  <2> QED
    BY <2>2, <2>3 DEF Limited, r
<1>6. CASE p \in DOMAIN tree /\ ~Full(params)
  <2>1. Len(p) = i /\ name \in Names
    BY <1>6, ChildFacts, KeyFacts
  <2>2. Along(p, path)
    BY <1>2, AlongChild, KeyFacts
  <2>3. <<SegmentsOf(path)[i]>> \in Seq(STRING)
    BY <1>2, RestFacts
  <2>4. q \in Params
    BY <2>1, <2>3, PutFacts
  <2>5. Within(p, q)
    BY <1>6, <2>3, KeyFacts, OneMore
  <2>6. below \in Results /\ Limited(tree, q, below)
    BY <1>6, <2>1, <2>2, <2>4, <2>5, Zenon DEF FindsFrom, LimitsFrom
  <2>7. CASE below.outcome # "miss"
    <3>1. r = below
      BY <1>1, <1>6, <2>7, Zenon
    <3> HIDE DEF r, below
    <3> QED
      BY <2>6, <2>7, <3>1 DEF Limited, r
  <2>8. CASE below.outcome = "miss"
    <3>1. r = W(Backtrack(below.params, name))
      BY <1>1, <1>6, <2>8, Zenon
    <3>2. below.params \in Params /\ Support(below.params) \subseteq Support(q)
      BY <2>6, <2>8 DEF Results, Limited
    <3>3. Backtrack(below.params, name) \in Params
      BY <2>1, <2>3, <3>2, PutFacts
    <3>4. Support(Backtrack(below.params, name)) \subseteq Support(params)
      <4>1. IsFiniteSet(Support(params))
        BY DEF Within
      <4> HIDE DEF below, name
      <4> QED
        BY <2>1, <2>3, <3>2, <4>1, SupportFacts
    <3> QED
      BY <1>3, <3>1, <3>3, <3>4, Zenon
  <2> QED
    BY <2>7, <2>8
<1> QED
  BY <1>4, <1>5, <1>6

LEMMA StaticLimits ==
  ASSUME NEW tree, NEW path \in Seq(STRING), GoodTree(tree),
         NEW n \in DOMAIN tree, Along(n, path), Len(n) < Len(SegmentsOf(path)),
         NEW params \in Params, Within(n, params),
         NEW deeper, FindsFrom(tree, path, deeper, Len(n) + 1),
         LimitsFrom(tree, path, deeper, Len(n) + 1)
  PROVE  Limited(tree, params, MatchStatic(tree, path, Len(n) + 1, n, params, deeper))
<1> DEFINE i == Len(n) + 1
           r == MatchStatic(tree, path, i, n, params, deeper)
           k == Static(SegmentsOf(path)[i])
           s == Append(n, k)
           below == deeper[<<s, params>>]
           P(u) == MatchParam(tree, path, i, n, u, deeper)
<1>1. r = IF s \notin DOMAIN tree THEN P(params)
          ELSE IF below.outcome # "miss" THEN below ELSE P(below.params)
  BY Zenon DEF MatchStatic
<1>2. n \in Seq(Keys)
  BY DEF GoodTree
<1>3. k \in Keys /\ k.kind = "static" /\ k.text = SegmentsOf(path)[i]
  BY <1>2, RestFacts, KeyFacts
<1> HIDE DEF k
<1>4. ASSUME NEW u \in Params, r = P(u), Support(u) \subseteq Support(params)
      PROVE  Limited(tree, params, r)
  <2>1. Within(n, u)
    BY <1>2, <1>4, SmallerWithin
  <2>2. Limited(tree, u, r)
    BY <1>4, <2>1, ParamLimits
  <2> HIDE DEF r
  <2> QED
    BY <1>4, <2>2 DEF Limited
<1>5. CASE s \notin DOMAIN tree
  BY <1>1, <1>4, <1>5, Zenon
<1>6. CASE s \in DOMAIN tree
  <2>1. Along(s, path) /\ Len(s) = i
    BY <1>2, <1>3, AlongChild
  <2>2. Within(s, params)
    BY <1>2, <1>3, CapturesChild DEF Within
  <2>3. below \in Results /\ Limited(tree, params, below)
    BY <1>6, <2>1, <2>2, Zenon DEF FindsFrom, LimitsFrom
  <2>4. CASE below.outcome # "miss"
    <3>1. r = below
      BY <1>1, <1>6, <2>4, Zenon
    <3> QED
      BY <2>3, <3>1, Zenon
  <2>5. CASE below.outcome = "miss"
    <3>1. r = P(below.params)
      BY <1>1, <1>6, <2>5, Zenon
    <3>2. below.params \in Params /\ Support(below.params) \subseteq Support(params)
      BY <2>3, <2>5 DEF Results, Limited
    <3> QED
      BY <1>4, <3>1, <3>2, Zenon
  <2> QED
    BY <2>4, <2>5
<1> QED
  BY <1>5, <1>6

-----------------------------------------------------------------------------
(* ParamsExact: which parameters are captured *)

\* The name of the j-th key of a node, and what it captures from the path.
NameAt(tree, x, j) == tree[Up(x, j)].param_name
ValueAt(path, x, j) ==
  IF x[j].kind = "param" THEN <<SegmentsOf(path)[j]>>
  ELSE SubSeq(path, Offsets(path)[j], Len(path))

\* No name stands twice on the way to a node.
DistinctNames(tree) ==
  \A x \in DOMAIN tree : \A i, j \in Captures(x) : NameAt(tree, x, i) = NameAt(tree, x, j) => i = j

\* q holds what is captured on the way to x, and nothing else.
CapturedAt(tree, path, x, q) ==
  /\ \A j \in Captures(x) : q[NameAt(tree, x, j)] = ValueAt(path, x, j)
  /\ \A n \in Names : q[n] # <<>> => \E j \in Captures(x) : n = NameAt(tree, x, j)

\* A call that finds a node captures what is on the way to it, and one that does
\* not leaves the parameters as they were.
Exact(tree, path, q, r) ==
  /\ r.outcome = "hit" => CapturedAt(tree, path, r.node, r.params)
  /\ r.outcome = "miss" => r.params = q

ExactFrom(tree, path, deeper, len) ==
  \A c \in DOMAIN tree, q \in Params :
    Len(c) = len /\ Along(c, path) /\ CapturedAt(tree, path, c, q)
      => Exact(tree, path, q, deeper[<<c, q>>])

LEMMA UpChild ==
  ASSUME NEW n \in Seq(Keys), NEW k \in Keys
  PROVE  /\ \A j \in 0..Len(n) : Up(Append(n, k), j) = Up(n, j)
         /\ Up(Append(n, k), Len(n) + 1) = Append(n, k)
<1> DEFINE c == Append(n, k)
<1>1. /\ c \in Seq(Keys) /\ Len(c) = Len(n) + 1 /\ \A j \in DOMAIN n : c[j] = n[j]
      /\ DOMAIN n = 1..Len(n) /\ Len(n) \in Nat
  BY AppendFacts
<1> HIDE DEF c
<1>2. Up(c, Len(n) + 1) = c
  BY <1>1, UpWhole
<1>3. ASSUME NEW j \in 0..Len(n) PROVE Up(c, j) = Up(n, j)
  <2>1. \A l \in 1..j : c[l] = n[l]
    BY <1>1
  <2> QED
    BY <2>1, Zenon DEF Up
<1> QED
  BY <1>2, <1>3 DEF c

\* What was captured on the way to a node is captured on the way to its child.
LEMMA ChildCaptures ==
  ASSUME NEW tree, NEW path, NEW n \in Seq(Keys), NEW k \in Keys
  PROVE  \A j \in Captures(n) : /\ NameAt(tree, Append(n, k), j) = NameAt(tree, n, j)
                                /\ ValueAt(path, Append(n, k), j) = ValueAt(path, n, j)
<1>1. TAKE j \in Captures(n)
<1>2. j \in DOMAIN n /\ j \in 1..Len(n)
  BY CapturesChild
<1>3. Up(Append(n, k), j) = Up(n, j)
  BY <1>2, UpChild
<1>4. Append(n, k)[j] = n[j]
  BY <1>2, AppendFacts
<1> QED
  BY <1>3, <1>4 DEF NameAt, ValueAt

\* A capture under a new name adds to what the way captured, and backtracking
\* takes it away again.
LEMMA CaptureMore ==
  ASSUME NEW tree, NEW path, GoodTree(tree), DistinctNames(tree),
         NEW n \in DOMAIN tree, NEW k \in Keys, Append(n, k) \in DOMAIN tree, k.kind # "static",
         NEW params \in Params, CapturedAt(tree, path, n, params),
         NEW v \in Seq(STRING), v = ValueAt(path, Append(n, k), Len(n) + 1)
  PROVE  LET name == tree[Append(n, k)].param_name
         IN  /\ CapturedAt(tree, path, Append(n, k), Put(params, name, v))
             /\ Backtrack(Put(params, name, v), name) = params
<1> DEFINE c == Append(n, k)
           name == tree[c].param_name
           u == Put(params, name, v)
           i == Len(n) + 1
<1>1. n \in Seq(Keys) /\ name \in Names
  BY ChildFacts
<1>2. /\ Captures(c) = Captures(n) \cup {i}
      /\ \A j \in Captures(n) : j \in 1..Len(n) /\ j \in DOMAIN n /\ j # i
  BY <1>1, CapturesChild
<1>3. /\ NameAt(tree, c, i) = name
      /\ \A j \in Captures(n) : /\ NameAt(tree, c, j) = NameAt(tree, n, j)
                                /\ ValueAt(path, c, j) = ValueAt(path, n, j)
  <2>1. Up(c, i) = c
    BY <1>1, UpChild
  <2>2. NameAt(tree, c, i) = name
    BY <2>1 DEF NameAt
  <2> QED
    BY <1>1, <2>2, ChildCaptures
<1>4. /\ u \in Params /\ u[name] = v
      /\ \A o \in Names : o # name => u[o] = params[o]
  BY <1>1, PutFacts
<1>5. v = ValueAt(path, c, i) /\ c \in DOMAIN tree
  OBVIOUS
<1>6. \A j \in Captures(n) : NameAt(tree, n, j) # name
  <2>1. TAKE j \in Captures(n)
  <2>2. j \in Captures(c) /\ i \in Captures(c) /\ j # i
    BY <1>2
  <2> HIDE DEF c, i
  <2>3. NameAt(tree, c, j) # NameAt(tree, c, i)
    BY <1>5, <2>2 DEF DistinctNames
  <2> QED
    BY <1>3, <2>3
<1> HIDE DEF c, u, i, name
<1>7. params[name] = <<>>
  BY <1>1, <1>6 DEF CapturedAt
<1>8. \A j \in Captures(n) : NameAt(tree, n, j) \in Names
  <2>1. TAKE j \in Captures(n)
  <2>2. j \in DOMAIN n /\ n[j].kind # "static"
    BY DEF Captures
  <2> QED
    BY <2>2 DEF GoodTree, NameAt
<1>9. ASSUME NEW j \in Captures(c) PROVE u[NameAt(tree, c, j)] = ValueAt(path, c, j)
  <2>1. CASE j = i
    BY <1>3, <1>4, <1>5, <2>1
  <2>2. CASE j \in Captures(n)
    <3>1. u[NameAt(tree, n, j)] = params[NameAt(tree, n, j)]
      BY <1>4, <1>6, <1>8, <2>2
    <3>2. params[NameAt(tree, n, j)] = ValueAt(path, n, j)
      BY <2>2 DEF CapturedAt
    <3> QED
      BY <1>3, <2>2, <3>1, <3>2
  <2> QED
    BY <1>2, <2>1, <2>2
<1>10. ASSUME NEW o \in Names, u[o] # <<>> PROVE \E j \in Captures(c) : o = NameAt(tree, c, j)
  <2>1. CASE o = name
    BY <1>2, <1>3, <2>1
  <2>2. CASE o # name
    <3>1. params[o] # <<>>
      BY <1>4, <1>10, <2>2
    <3>2. PICK j \in Captures(n) : o = NameAt(tree, n, j)
      BY <3>1 DEF CapturedAt
    <3> QED
      BY <1>2, <1>3, <3>2
  <2> QED
    BY <2>1, <2>2
<1>11. CapturedAt(tree, path, c, u)
  BY <1>9, <1>10 DEF CapturedAt
<1>12. Backtrack(u, name) = params
  <2> DEFINE b == Backtrack(u, name)
  <2>1. b = Without(u, name) /\ b \in Params /\ b[name] = <<>>
        /\ \A o \in Names : o # name => b[o] = u[o]
    BY <1>1, <1>4, PutFacts
  <2> HIDE DEF b
  <2>2. \A o \in Names : b[o] = params[o]
    BY <1>4, <1>7, <2>1
  <2>3. b = params
    BY <2>1, <2>2 DEF Params
  <2> QED
    BY <2>3 DEF b
<1> QED
  BY <1>11, <1>12 DEF c, u, name

LEMMA WildcardExact ==
  ASSUME NEW tree, NEW path \in Seq(STRING), GoodTree(tree), DistinctNames(tree),
         NEW n \in DOMAIN tree, Len(n) < Len(SegmentsOf(path)),
         NEW params \in Params, CapturedAt(tree, path, n, params)
  PROVE  Exact(tree, path, params, MatchWildcard(tree, path, Len(n) + 1, n, params))
<1> DEFINE i == Len(n) + 1
           r == MatchWildcard(tree, path, i, n, params)
           w == Append(n, Wildcard)
           v == SubSeq(path, Offsets(path)[i], Len(path))
           q == Put(params, tree[w].param_name, v)
<1>1. r = IF w \notin DOMAIN tree THEN Miss(params)
          ELSE IF Full(params) THEN TooManyParams(params) ELSE Hit(w, q)
  BY Zenon DEF MatchWildcard
<1>2. n \in Seq(Keys)
  BY DEF GoodTree
<1>3. CASE w \notin DOMAIN tree
  <2>1. r = Miss(params)
    BY <1>1, <1>3, Zenon
  <2> HIDE DEF r
  <2>2. r.outcome = "miss" /\ r.params = params
    BY <2>1 DEF Miss
  <2> QED
    BY <2>2 DEF Exact, r
<1>4. CASE w \in DOMAIN tree /\ Full(params)
  <2>1. r = TooManyParams(params)
    BY <1>1, <1>4, Zenon
  <2> HIDE DEF r
  <2>2. r.outcome = "error"
    BY <2>1 DEF TooManyParams
  <2> QED
    BY <2>2 DEF Exact, r
<1>5. CASE w \in DOMAIN tree /\ ~Full(params)
  <2>1. r = Hit(w, q)
    BY <1>1, <1>5, Zenon
  <2>2. v \in Seq(STRING)
    BY <1>2, RestFacts
  <2>3. v = ValueAt(path, w, i)
    <3>1. w[i] = Wildcard
      BY <1>2, KeyFacts, AppendFacts
    <3> HIDE DEF w
    <3> QED
      BY <3>1, KeyFacts DEF ValueAt
  <2>4. CapturedAt(tree, path, w, q)
    BY <1>5, <2>2, <2>3, KeyFacts, CaptureMore
  <2> HIDE DEF r, q, w
  <2>5. r.outcome = "hit" /\ r.params = q /\ r.node = w
    BY <2>1 DEF Hit
  <2> QED
    BY <2>4, <2>5 DEF Exact, r
<1> QED
  BY <1>3, <1>4, <1>5

LEMMA ParamExact ==
  ASSUME NEW tree, NEW path \in Seq(STRING), GoodTree(tree), DistinctNames(tree),
         NEW n \in DOMAIN tree, Along(n, path), Len(n) < Len(SegmentsOf(path)),
         NEW params \in Params, CapturedAt(tree, path, n, params),
         NEW deeper, ExactFrom(tree, path, deeper, Len(n) + 1)
  PROVE  Exact(tree, path, params, MatchParam(tree, path, Len(n) + 1, n, params, deeper))
<1> DEFINE i == Len(n) + 1
           r == MatchParam(tree, path, i, n, params, deeper)
           p == Append(n, Param)
           name == tree[p].param_name
           v == <<SegmentsOf(path)[i]>>
           q == Put(params, name, v)
           below == deeper[<<p, q>>]
           W(u) == MatchWildcard(tree, path, i, n, u)
<1>1. r = IF p \notin DOMAIN tree THEN W(params)
          ELSE IF Full(params) THEN TooManyParams(params)
          ELSE IF below.outcome # "miss" THEN below ELSE W(Backtrack(below.params, name))
  BY Zenon DEF MatchParam
<1>2. n \in Seq(Keys)
  BY DEF GoodTree
<1>3. Exact(tree, path, params, W(params))
  BY WildcardExact
<1>4. CASE p \notin DOMAIN tree
  BY <1>1, <1>3, <1>4, Zenon
<1>5. CASE p \in DOMAIN tree /\ Full(params)
  <2>1. r = TooManyParams(params)
    BY <1>1, <1>5, Zenon
  <2> HIDE DEF r
  <2>2. r.outcome = "error"
    BY <2>1 DEF TooManyParams
  <2> QED
    BY <2>2 DEF Exact, r
<1>6. CASE p \in DOMAIN tree /\ ~Full(params)
  <2>1. Len(p) = i /\ name \in Names
    BY <1>6, ChildFacts, KeyFacts
  <2>2. Along(p, path)
    BY <1>2, AlongChild, KeyFacts
  <2>3. v \in Seq(STRING)
    BY <1>2, RestFacts
  <2>4. q \in Params
    BY <2>1, <2>3, PutFacts
  <2>5. v = ValueAt(path, p, i)
    <3>1. p[i] = Param
      BY <1>2, KeyFacts, AppendFacts
    <3> HIDE DEF p
    <3> QED
      BY <3>1, KeyFacts DEF ValueAt
  <2>6. CapturedAt(tree, path, p, q) /\ Backtrack(q, name) = params
    <3> HIDE DEF v
    <3>1. Param \in Keys /\ Param.kind # "static"
      BY KeyFacts
    <3> QED
      BY <1>6, <2>3, <2>5, <3>1, CaptureMore
  <2>7. Exact(tree, path, q, below)
    BY <1>6, <2>1, <2>2, <2>4, <2>6, Zenon DEF ExactFrom
  <2>8. CASE below.outcome # "miss"
    <3>1. r = below
      BY <1>1, <1>6, <2>8, Zenon
    <3> HIDE DEF r, below
    <3> QED
      BY <2>7, <2>8, <3>1 DEF Exact, r
  <2>9. CASE below.outcome = "miss"
    <3>1. r = W(Backtrack(below.params, name))
      BY <1>1, <1>6, <2>9, Zenon
    <3>2. below.params = q
      BY <2>7, <2>9 DEF Exact
    <3> QED
      BY <1>3, <2>6, <3>1, <3>2, Zenon
  <2> QED
    BY <2>8, <2>9
<1> QED
  BY <1>4, <1>5, <1>6

LEMMA StaticExact ==
  ASSUME NEW tree, NEW path \in Seq(STRING), GoodTree(tree), DistinctNames(tree),
         NEW n \in DOMAIN tree, Along(n, path), Len(n) < Len(SegmentsOf(path)),
         NEW params \in Params, CapturedAt(tree, path, n, params),
         NEW deeper, ExactFrom(tree, path, deeper, Len(n) + 1)
  PROVE  Exact(tree, path, params, MatchStatic(tree, path, Len(n) + 1, n, params, deeper))
<1> DEFINE i == Len(n) + 1
           r == MatchStatic(tree, path, i, n, params, deeper)
           k == Static(SegmentsOf(path)[i])
           s == Append(n, k)
           below == deeper[<<s, params>>]
           P(u) == MatchParam(tree, path, i, n, u, deeper)
<1>1. r = IF s \notin DOMAIN tree THEN P(params)
          ELSE IF below.outcome # "miss" THEN below ELSE P(below.params)
  BY Zenon DEF MatchStatic
<1>2. n \in Seq(Keys)
  BY DEF GoodTree
<1>3. k \in Keys /\ k.kind = "static" /\ k.text = SegmentsOf(path)[i]
  BY <1>2, RestFacts, KeyFacts
<1> HIDE DEF k
<1>4. Exact(tree, path, params, P(params))
  BY ParamExact
<1>5. CASE s \notin DOMAIN tree
  BY <1>1, <1>4, <1>5, Zenon
<1>6. CASE s \in DOMAIN tree
  <2>1. Along(s, path) /\ Len(s) = i
    BY <1>2, <1>3, AlongChild
  <2>2. CapturedAt(tree, path, s, params)
    <3>1. /\ Captures(s) = Captures(n)
          /\ \A j \in Captures(n) : /\ NameAt(tree, s, j) = NameAt(tree, n, j)
                                    /\ ValueAt(path, s, j) = ValueAt(path, n, j)
      BY <1>2, <1>3, CapturesChild, ChildCaptures
    <3> HIDE DEF s
    <3> QED
      BY <3>1 DEF CapturedAt
  <2>3. Exact(tree, path, params, below)
    BY <1>6, <2>1, <2>2, Zenon DEF ExactFrom
  <2>4. CASE below.outcome # "miss"
    <3>1. r = below
      BY <1>1, <1>6, <2>4, Zenon
    <3> QED
      BY <2>3, <3>1, Zenon
  <2>5. CASE below.outcome = "miss"
    <3>1. r = P(below.params)
      BY <1>1, <1>6, <2>5, Zenon
    <3>2. below.params = params
      BY <2>3, <2>5 DEF Exact
    <3> QED
      BY <1>4, <3>1, <3>2, Zenon
  <2> QED
    BY <2>4, <2>5
<1> QED
  BY <1>5, <1>6

\* Both, level by level.
LEMMA LevelParams ==
  ASSUME NEW tree, NEW path \in Seq(STRING), GoodTree(tree)
  PROVE  \A left \in Nat : left <= Len(SegmentsOf(path)) =>
           LET d == MatchRecursive(tree, path)[left]
               len == Len(SegmentsOf(path)) - left
           IN  /\ LimitsFrom(tree, path, d, len)
               /\ DistinctNames(tree) => ExactFrom(tree, path, d, len)
<1> DEFINE N == Len(SegmentsOf(path))
           m == MatchRecursive(tree, path)
           Good(left) == /\ LimitsFrom(tree, path, m[left], N - left)
                         /\ DistinctNames(tree) => ExactFrom(tree, path, m[left], N - left)
           S == {left \in Nat : left <= N => Good(left)}
<1>1. N \in Nat
  BY SegmentFacts
<1>2. \A left \in Nat : m[left] = MatchNode(tree, path, left, m[left - 1])
  BY MatchUnfolds
<1>3. \A left \in Nat : left <= N => FindsFrom(tree, path, m[left], N - left)
  BY LevelFinds
<1> HIDE DEF m
<1>4. 0 \in S
  <2>1. ASSUME NEW c \in DOMAIN tree, NEW q \in Params
        PROVE  /\ Within(c, q) => Limited(tree, q, m[0][<<c, q>>])
               /\ CapturedAt(tree, path, c, q) => Exact(tree, path, q, m[0][<<c, q>>])
    <3> DEFINE r == m[0][<<c, q>>]
    <3>1. r = MatchEnd(tree, c, q)
      BY <1>2, BottomCalls
    <3> HIDE DEF r
    <3>2. r.params = q /\ (r.outcome = "hit" \/ r.outcome = "miss")
          /\ (r.outcome = "hit" => r.node = c)
      BY <3>1 DEF MatchEnd, Hit, Miss
    <3> QED
      BY <3>2 DEF Within, Limited, Exact, r
  <2> HIDE DEF N
  <2>2. Good(0)
    BY <2>1, Zenon DEF LimitsFrom, ExactFrom
  <2> HIDE DEF Good
  <2> QED
    BY <2>2
<1>5. ASSUME NEW left \in Nat, left \in S PROVE left + 1 \in S
  <2>1. SUFFICES ASSUME left + 1 <= N PROVE Good(left + 1)
    BY <1>5
  <2>2. Good(left) /\ FindsFrom(tree, path, m[left], N - left)
    BY <1>1, <1>3, <1>5, <2>1
  <2>3. ASSUME NEW c \in DOMAIN tree, NEW q \in Params,
               Len(c) = N - (left + 1), Along(c, path)
        PROVE  /\ Within(c, q) => Limited(tree, q, m[left + 1][<<c, q>>])
               /\ DistinctNames(tree) /\ CapturedAt(tree, path, c, q)
                    => Exact(tree, path, q, m[left + 1][<<c, q>>])
    <3>1. N - (left + 1) + 1 = Len(c) + 1 /\ Len(c) + 1 = N - left /\ Len(c) < N
          /\ left + 1 # 0 /\ (left + 1) - 1 = left /\ left + 1 \in Nat
      BY <1>1, <2>1, <2>3
    <3>2. m[left + 1] = MatchNode(tree, path, left + 1, m[left])
      BY <1>2, <3>1
    <3>3. m[left + 1][<<c, q>>]
            = MatchStatic(tree, path, N - (left + 1) + 1, c, q, m[left])
      BY <3>1, <3>2, InnerCalls
    <3>4. m[left + 1][<<c, q>>] = MatchStatic(tree, path, Len(c) + 1, c, q, m[left])
      BY <3>1, <3>3
    <3>5. /\ FindsFrom(tree, path, m[left], Len(c) + 1)
          /\ LimitsFrom(tree, path, m[left], Len(c) + 1)
          /\ DistinctNames(tree) => ExactFrom(tree, path, m[left], Len(c) + 1)
      BY <2>2, <3>1
    <3>6. Within(c, q) => Limited(tree, q, m[left + 1][<<c, q>>])
      BY <2>3, <3>1, <3>4, <3>5, StaticLimits
    <3>7. DistinctNames(tree) /\ CapturedAt(tree, path, c, q)
            => Exact(tree, path, q, m[left + 1][<<c, q>>])
      BY <2>3, <3>1, <3>4, <3>5, StaticExact
    <3> QED
      BY <3>6, <3>7
  <2> HIDE DEF N
  <2> QED
    BY <2>3, Zenon DEF LimitsFrom, ExactFrom
<1> HIDE DEF S
<1>6. Nat \subseteq S
  BY <1>4, <1>5, NatSetInduction
<1>7. \A left \in Nat : left <= N => Good(left)
  BY <1>6 DEF S
<1> QED
  BY <1>7, Zenon DEF m

LEMMA MatchInParams ==
  ASSUME NEW tree, NEW path \in Seq(STRING), GoodTree(tree)
  PROVE  LET r == MatchIn(tree, path, NoParams)
         IN  /\ r \in Results
             /\ r.outcome = "miss" => r.params = NoParams
             /\ r.outcome = "hit" => Count(r.params) <= MaxParams
             /\ r.outcome = "error" =>
                  \E x \in DOMAIN tree : Cardinality(Captures(x)) > MaxParams
             /\ DistinctNames(tree) /\ r.outcome = "hit" =>
                  CapturedAt(tree, path, r.node, r.params)
<1> DEFINE r == MatchIn(tree, path, NoParams)
           N == Len(SegmentsOf(path))
<1>1. NoParams \in Params /\ Support(NoParams) = {}
  BY NoParamsFacts DEF Support
<1>2. /\ r \in Results
      /\ \/ r = Miss(NoParams)
         \/ <<>> \in DOMAIN tree /\ r = MatchRecursive(tree, path)[N][<< <<>>, NoParams >>]
  BY <1>1, MatchInFinds
<1>3. Captures(<<>>) = {} /\ Len(<<>>) = 0 /\ Along(<<>>, path)
  BY DEF Captures, Along
<1>4. CapturedAt(tree, path, <<>>, NoParams)
  BY <1>3, NoParamsFacts DEF CapturedAt
<1>5. Within(<<>>, NoParams)
  <2>1. Count(NoParams) = Cardinality(Support(NoParams))
    BY DEF Count, Support
  <2>2. IsFiniteSet(Support(NoParams)) /\ Count(NoParams) = 0 /\ Cardinality(Captures(<<>>)) = 0
    BY <1>1, <1>3, <2>1, FS_EmptySet
  <2> QED
    BY <2>2, RouterAssumption DEF Within
<1>6. CASE r = Miss(NoParams)
  <2> HIDE DEF r
  <2>1. r.outcome = "miss" /\ r.params = NoParams
    BY <1>6 DEF Miss
  <2> QED
    BY <1>2, <2>1 DEF r
<1>7. CASE <<>> \in DOMAIN tree /\ r = MatchRecursive(tree, path)[N][<< <<>>, NoParams >>]
  <2> DEFINE d == MatchRecursive(tree, path)[N]
  <2>1. N \in Nat /\ N <= N /\ N - N = 0
    BY SegmentFacts
  <2>2. LimitsFrom(tree, path, d, 0) /\ (DistinctNames(tree) => ExactFrom(tree, path, d, 0))
    BY <2>1, LevelParams
  <2>3. r = d[<< <<>>, NoParams >>]
    BY <1>7
  <2> HIDE DEF d, r
  <2>4. Limited(tree, NoParams, r)
    BY <1>1, <1>3, <1>5, <1>7, <2>2, <2>3, Zenon DEF LimitsFrom
  <2>5. DistinctNames(tree) => Exact(tree, path, NoParams, r)
    BY <1>1, <1>3, <1>4, <1>7, <2>2, <2>3, Zenon DEF ExactFrom
  <2>6. ASSUME r.outcome = "miss" PROVE r.params = NoParams
    <3>1. r.params \in Params /\ Support(r.params) = {}
      BY <1>1, <1>2, <2>4, <2>6 DEF Limited, Results
    <3>2. \A n \in Names : r.params[n] = <<>>
      BY <3>1 DEF Support
    <3> QED
      BY <1>1, <3>1, <3>2, NoParamsFacts DEF Params
  <2> QED
    BY <1>2, <2>4, <2>5, <2>6 DEF Limited, Exact, r
<1> QED
  BY <1>2, <1>6, <1>7

\* NamesAgree, of any registrations.
NamesAgreeIn(reg) ==
  \A r, s \in DOMAIN reg :
    \A i \in Captures(reg[r].pattern) \cap Captures(reg[s].pattern) :
      NodeAt(reg[r].pattern, i) = NodeAt(reg[s].pattern, i)
        => reg[r].pattern[i].text = reg[s].pattern[i].text

\* Where names agree, a pattern's parameter nodes have its own names.
LEMMA NodeNames ==
  ASSUME NEW tree, NEW m, NEW reg \in Seq(Routes), Recorded(tree, m, reg), NamesAgreeIn(reg),
         NEW r \in DOMAIN reg, m \in reg[r].methods, NEW j \in Captures(reg[r].pattern)
  PROVE  tree[NodeAt(reg[r].pattern, j)].param_name = reg[r].pattern[j].text
<1> DEFINE p == reg[r].pattern
           y == NodeAt(p, j)
<1>2. p \in Seq(Part) /\ Len(p) \in Nat /\ DOMAIN p = 1..Len(p)
  BY RoutePattern
<1>3. j \in 1..Len(p) /\ p[j].kind # "static"
  BY <1>2 DEF Captures
<1>4. j \in 0..Len(p) /\ j \in 1..j /\ j # 0
  BY <1>2, <1>3
<1>5. Len(y) = j /\ y # <<>> /\ y[j].kind = p[j].kind
  <2> HIDE DEF p
  <2> QED
    BY <1>2, <1>4, NodeFacts
<1>6. y \in DOMAIN tree
  BY <1>4, Zenon DEF Recorded, OnWay
<1>7. PICK s \in DOMAIN reg :
        /\ Len(y) \in 1..Len(reg[s].pattern)
        /\ y = NodeAt(reg[s].pattern, Len(y))
        /\ tree[y].param_name = NameOf(reg[s].pattern[Len(y)])
  BY <1>5, <1>6, Zenon DEF Recorded
<1> DEFINE q == reg[s].pattern
<1>8. q \in Seq(Part) /\ Len(q) \in Nat /\ DOMAIN q = 1..Len(q)
  BY RoutePattern
<1>9. j \in DOMAIN q /\ j \in 0..Len(q) /\ y = NodeAt(q, j) /\ tree[y].param_name = NameOf(q[j])
  BY <1>4, <1>5, <1>7, <1>8
<1>10. y[j].kind = q[j].kind
  <2> HIDE DEF q, y
  <2> QED
    BY <1>4, <1>8, <1>9, NodeFacts
<1>11. q[j].kind # "static"
  BY <1>3, <1>5, <1>10
<1>12. j \in Captures(q)
  BY <1>9, <1>11 DEF Captures
<1>13. q[j].text = p[j].text
  BY <1>9, <1>12 DEF NamesAgreeIn
<1>14. NameOf(q[j]) = q[j].text
  BY <1>11 DEF NameOf
<1> QED
  BY <1>9, <1>13, <1>14

\* Where names agree and no pattern uses one twice, no way in a tree does.
LEMMA NamesDistinct ==
  ASSUME NEW tree, NEW m, NEW reg \in Seq(Routes), Recorded(tree, m, reg), NamesAgreeIn(reg),
         NamesOnce
  PROVE  DistinctNames(tree)
<1>1. SUFFICES ASSUME NEW x \in DOMAIN tree, NEW i \in Captures(x), NEW j \in Captures(x),
                      NameAt(tree, x, i) = NameAt(tree, x, j)
               PROVE  i = j
  BY Zenon DEF DistinctNames
<1>3. PICK r \in DOMAIN reg :
        m \in reg[r].methods /\ OnWay(x, reg[r].pattern)
  BY Zenon DEF Recorded
<1> DEFINE p == reg[r].pattern
<1>4. p \in Patterns /\ p \in Seq(Part) /\ Len(p) \in Nat /\ DOMAIN p = 1..Len(p)
  BY RoutePattern
<1>5. PICK l \in 0..Len(p) : x = NodeAt(p, l)
  BY <1>3, Zenon DEF OnWay
<1>6. ASSUME NEW k \in Captures(x)
      PROVE  k \in Captures(p) /\ NameAt(tree, x, k) = p[k].text
  <2>1. /\ DOMAIN x = 1..l /\ \A o \in 1..l : x[o].kind = p[o].kind /\ o \in 1..Len(p)
        /\ \A o \in 0..l : Up(x, o) = NodeAt(p, o)
    <3> HIDE DEF p
    <3> QED
      BY <1>4, <1>5, NodeFacts
  <2>2. k \in 1..l /\ x[k].kind # "static" /\ k \in 0..l
    BY <1>4, <1>5, <2>1 DEF Captures
  <2>3. k \in Captures(p)
    BY <1>4, <2>1, <2>2 DEF Captures
  <2>4. tree[NodeAt(p, k)].param_name = p[k].text
    BY <1>3, <2>3, NodeNames
  <2> QED
    BY <2>1, <2>2, <2>3, <2>4 DEF NameAt
<1>7. p[i].text = p[j].text /\ i \in Captures(p) /\ j \in Captures(p)
  BY <1>1, <1>6
<1> HIDE DEF p
<1> QED
  BY <1>4, <1>7 DEF NamesOnce

\* What is captured on the way to a pattern's node is what the pattern captures.
LEMMA CapturedWhole ==
  ASSUME RouteInv, NamesAgree, NEW m \in Methods, NEW r \in DOMAIN registered,
         m \in registered[r].methods, NEW path, NEW q \in Params,
         CapturedAt(trees[m], path, Whole(registered[r].pattern), q)
  PROVE  q = Captured(registered[r].pattern, path)
<1> DEFINE p == registered[r].pattern
           x == Whole(p)
           V(i) == IF p[i].kind = "param" THEN <<SegmentsOf(path)[i]>>
                   ELSE SubSeq(path, Offsets(path)[i], Len(path))
           E(n) == IF \A i \in Captures(p) : p[i].text # n THEN <<>>
                   ELSE V(CHOOSE j \in Captures(p) : p[j].text = n)
<1>1. registered \in Seq(Routes)
  BY DEF RouteInv
<1>2. p \in Seq(Part) /\ Len(p) \in Nat /\ DOMAIN p = 1..Len(p)
  BY <1>1, RoutePattern
<1>3. Captured(p, path) = [n \in Names |-> E(n)]
  BY Zenon DEF Captured
<1>4. ASSUME NEW j \in Captures(p)
      PROVE  trees[m][NodeAt(p, j)].param_name = p[j].text
  <2>1. NamesAgreeIn(registered) /\ Recorded(trees[m], m, registered)
    BY Zenon DEF NamesAgree, NamesAgreeIn, RouteInv
  <2> QED
    BY <1>1, <2>1, NodeNames
<1> HIDE DEF p
<1>5. /\ DOMAIN x = 1..Len(p) /\ \A j \in 1..Len(p) : x[j].kind = p[j].kind
      /\ \A j \in 0..Len(p) : Up(x, j) = NodeAt(p, j)
  <2>1. Len(p) \in 0..Len(p)
    BY <1>2
  <2> QED
    BY <1>2, <2>1, NodeFacts DEF Whole
<1>6. CapturedAt(trees[m], path, x, q)
  BY DEF p
<1> HIDE DEF x
<1>7. Captures(x) = Captures(p)
  BY <1>2, <1>5 DEF Captures
<1>8. ASSUME NEW j \in Captures(p)
      PROVE  NameAt(trees[m], x, j) = p[j].text /\ ValueAt(path, x, j) = V(j)
  <2>1. j \in 1..Len(p) /\ j \in 0..Len(p)
    BY <1>2 DEF Captures
  <2> QED
    BY <1>4, <1>5, <2>1 DEF NameAt, ValueAt
<1>9. \A j \in Captures(p) : q[p[j].text] = V(j)
  <2>1. TAKE j \in Captures(p)
  <2>2. q[NameAt(trees[m], x, j)] = ValueAt(path, x, j)
    BY <1>6, <1>7, Zenon DEF CapturedAt
  <2> HIDE DEF V
  <2> QED
    BY <1>8, <2>2
<1> HIDE DEF V
<1>10. ASSUME NEW n \in Names PROVE q[n] = E(n)
  <2>1. CASE \A i \in Captures(p) : p[i].text # n
    <3>1. \A j \in Captures(x) : n # NameAt(trees[m], x, j)
      BY <1>7, <1>8, <2>1
    <3>2. q[n] = <<>>
      BY <1>6, <3>1, Zenon DEF CapturedAt
    <3> QED
      BY <2>1, <3>2, Zenon
  <2>2. CASE ~\A i \in Captures(p) : p[i].text # n
    <3> DEFINE j == CHOOSE j \in Captures(p) : p[j].text = n
    <3>1. j \in Captures(p) /\ p[j].text = n
      BY <2>2, Zenon
    <3>2. E(n) = V(j)
      BY <2>2, Zenon
    <3> HIDE DEF j, E
    <3> QED
      BY <1>9, <3>1, <3>2
  <2> QED
    BY <2>1, <2>2
<1> HIDE DEF E
<1>11. q = [n \in Names |-> q[n]]
  BY DEF Params
<1>12. q = [n \in Names |-> E(n)]
  BY <1>10, <1>11, Zenon
<1> QED
  BY <1>3, <1>12, Zenon DEF p

\* A node with more names than the limit is on the way of a pattern with more.
LEMMA OverLimit ==
  ASSUME NEW tree, NEW m, NEW reg \in Seq(Routes), Recorded(tree, m, reg),
         NEW x \in DOMAIN tree, Cardinality(Captures(x)) > MaxParams
  PROVE  \E r \in DOMAIN reg : ~(Cardinality(Captures(reg[r].pattern)) <= MaxParams)
<1>2. PICK r \in DOMAIN reg : OnWay(x, reg[r].pattern)
  BY Zenon DEF Recorded
<1> DEFINE p == reg[r].pattern
<1>3. p \in Seq(Part) /\ Len(p) \in Nat /\ DOMAIN p = 1..Len(p)
  BY RoutePattern
<1>4. PICK l \in 0..Len(p) : x = NodeAt(p, l)
  BY <1>2, Zenon DEF OnWay
<1>5. ~(Cardinality(Captures(p)) <= MaxParams)
  <2> HIDE DEF p
  <2>1. DOMAIN x = 1..l /\ \A o \in 1..l : x[o].kind = p[o].kind /\ o \in 1..Len(p)
    BY <1>3, <1>4, NodeFacts
  <2>2. Captures(x) \in SUBSET Captures(p) /\ Captures(p) \in SUBSET (1..Len(p))
    BY <1>3, <2>1 DEF Captures
  <2>3. IsFiniteSet(Captures(p)) /\ Cardinality(Captures(p)) \in Nat
    BY <1>3, <2>2, PositionsFinite
  <2>4. IsFiniteSet(Captures(x)) /\ Cardinality(Captures(x)) <= Cardinality(Captures(p))
    BY <2>2, <2>3, FS_Subset
  <2>5. Cardinality(Captures(x)) \in Nat /\ MaxParams \in Nat
    BY <2>4, FS_CardinalityType, RouterAssumption
  <2> QED
    BY <2>3, <2>4, <2>5
<1> QED
  BY <1>5

\* What findHandler leaves in the parameters.
LEMMA FindHandlerParams ==
  ASSUME RouteInv, WildcardsLast, NEW m \in Methods, NEW path \in Seq(STRING)
  PROVE  LET f == FindHandler(trees, m, path)
         IN  /\ f.outcome = "miss" => f.params = NoParams
             /\ f.outcome = "hit" => Count(f.params) <= MaxParams
             /\ f.outcome = "error" => \E r \in DOMAIN registered : ~WithinLimit(r)
             /\ NamesAgree /\ NamesOnce /\ f.outcome = "hit" =>
                  f.params = Captured(registered[Expected(m, path)].pattern, path)
<1> DEFINE f == FindHandler(trees, m, path)
           own == MatchIn(trees[m], path, NoParams)
           get == MatchIn(trees["GET"], path, own.params)
<1>1. NoParams \in Params /\ "GET" \in Methods
  BY NoParamsFacts, RouterAssumption
<1>2. ASSUME NEW o \in Methods
      PROVE  LET r == MatchIn(trees[o], path, NoParams)
             IN  /\ r \in Results
                 /\ r.outcome = "miss" => r.params = NoParams /\ BestOf(o, path) = NoRoute
                 /\ r.outcome = "hit" => BestOf(o, path) # NoRoute /\ Count(r.params) <= MaxParams
                 /\ r.outcome = "error" => \E k \in DOMAIN registered : ~WithinLimit(k)
                 /\ NamesAgree /\ NamesOnce /\ r.outcome = "hit" =>
                      r.params = Captured(registered[BestOf(o, path)].pattern, path)
  <2> DEFINE r == MatchIn(trees[o], path, NoParams)
  <2>1. GoodTree(trees[o])
    BY RecordedIsGood DEF RouteInv
  <2>2. /\ r \in Results
        /\ r.outcome = "miss" => r.params = NoParams
        /\ r.outcome = "hit" => Count(r.params) <= MaxParams
        /\ r.outcome = "error" =>
             \E x \in DOMAIN trees[o] : Cardinality(Captures(x)) > MaxParams
        /\ DistinctNames(trees[o]) /\ r.outcome = "hit" =>
             CapturedAt(trees[o], path, r.node, r.params)
    BY <2>1, MatchInParams
  <2>3. /\ r.outcome = "hit" =>
             /\ BestOf(o, path) # NoRoute /\ BestOf(o, path) \in DOMAIN registered
             /\ o \in registered[BestOf(o, path)].methods
             /\ r.node = Whole(registered[BestOf(o, path)].pattern)
        /\ r.outcome = "miss" => BestOf(o, path) = NoRoute
    BY <1>1, MatchInBest
  <2> HIDE DEF r
  <2>4. r.outcome = "error" => \E k \in DOMAIN registered : ~WithinLimit(k)
    BY <2>2, OverLimit DEF RouteInv, WithinLimit
  <2>5. ASSUME NamesAgree, NamesOnce, r.outcome = "hit"
        PROVE  r.params = Captured(registered[BestOf(o, path)].pattern, path)
    <3>1. DistinctNames(trees[o])
      <4>1. NamesAgreeIn(registered)
        BY <2>5, Zenon DEF NamesAgree, NamesAgreeIn
      <4> QED
        BY <2>5, <4>1, NamesDistinct DEF RouteInv
    <3>2. /\ CapturedAt(trees[o], path, Whole(registered[BestOf(o, path)].pattern), r.params)
          /\ r.params \in Params
          /\ BestOf(o, path) \in DOMAIN registered
          /\ o \in registered[BestOf(o, path)].methods
      BY <2>2, <2>3, <2>5, <3>1 DEF Results
    <3> QED
      BY <2>5, <3>2, CapturedWhole
  <2> QED
    BY <2>2, <2>3, <2>4, <2>5 DEF r
<1>3. /\ own \in Results
      /\ own.outcome = "miss" => own.params = NoParams /\ BestOf(m, path) = NoRoute
      /\ own.outcome = "hit" => BestOf(m, path) # NoRoute /\ Count(own.params) <= MaxParams
      /\ own.outcome = "error" => \E k \in DOMAIN registered : ~WithinLimit(k)
      /\ NamesAgree /\ NamesOnce /\ own.outcome = "hit" =>
           own.params = Captured(registered[BestOf(m, path)].pattern, path)
  BY <1>2
<1>4. own.outcome = "miss" =>
      /\ get \in Results
      /\ get.outcome = "miss" => get.params = NoParams
      /\ get.outcome = "hit" => Count(get.params) <= MaxParams
      /\ get.outcome = "error" => \E k \in DOMAIN registered : ~WithinLimit(k)
      /\ NamesAgree /\ NamesOnce /\ get.outcome = "hit" =>
           get.params = Captured(registered[BestOf("GET", path)].pattern, path)
  <2>1. SUFFICES ASSUME own.outcome = "miss"
                 PROVE  /\ get \in Results
                        /\ get.outcome = "miss" => get.params = NoParams
                        /\ get.outcome = "hit" => Count(get.params) <= MaxParams
                        /\ get.outcome = "error" => \E k \in DOMAIN registered : ~WithinLimit(k)
                        /\ NamesAgree /\ NamesOnce /\ get.outcome = "hit" =>
                             get.params = Captured(registered[BestOf("GET", path)].pattern, path)
    OBVIOUS
  <2>2. own.params = NoParams
    BY <1>3, <2>1
  <2>3. get = MatchIn(trees["GET"], path, NoParams)
    BY <2>2
  <2> HIDE DEF get, own
  <2> QED
    BY <1>1, <1>2, <2>3
<1>5. f = IF own.outcome = "miss" /\ m = "HEAD" THEN [get EXCEPT !.node = <<"GET", get.node>>]
          ELSE [own EXCEPT !.node = <<m, own.node>>]
  BY Zenon DEF FindHandler
<1> HIDE DEF f, own, get
<1>6. CASE own.outcome = "miss" /\ m = "HEAD"
  <2>1. f = [get EXCEPT !.node = <<"GET", get.node>>]
    BY <1>5, <1>6, Zenon
  <2>2. f.outcome = get.outcome /\ f.params = get.params
    BY <1>4, <1>6, <2>1 DEF Results
  <2>3. Expected(m, path) = BestOf("GET", path)
    BY <1>3, <1>6, Zenon DEF Expected
  <2> QED
    BY <1>4, <1>6, <2>2, <2>3 DEF f
<1>7. CASE ~(own.outcome = "miss" /\ m = "HEAD")
  <2>1. f = [own EXCEPT !.node = <<m, own.node>>]
    BY <1>5, <1>7, Zenon
  <2>2. f.outcome = own.outcome /\ f.params = own.params
    BY <1>3, <2>1 DEF Results
  <2>3. own.outcome = "hit" => Expected(m, path) = BestOf(m, path)
    BY <1>3 DEF Expected
  <2> QED
    BY <1>3, <2>2, <2>3 DEF f
<1> QED
  BY <1>6, <1>7

\* The keys of so many pairs are no more than the pairs.
LEMMA KeyCount ==
  ASSUME NEW q \in Seq(STRING), NEW i \in 0..Len(q)
  PROVE  LET K == {q[j] : j \in 1..i}
         IN  IsFiniteSet(K) /\ Cardinality(K) \in Nat /\ Cardinality(K) <= i
<1> DEFINE K == {q[j] : j \in 1..i}
           g == [j \in 1..i |-> q[j]]
<1>1. i \in Nat /\ IsFiniteSet(1..i) /\ Cardinality(1..i) = i
  <2>1. i \in Nat
    OBVIOUS
  <2>2. IsFiniteSet(1..i) /\ Cardinality(1..i) = IF 1 > i THEN 0 ELSE i - 1 + 1
    BY <2>1, FS_Interval
  <2> QED
    BY <2>1, <2>2
<1>2. g \in Surjection(1..i, K)
  <2>1. g \in [1..i -> K]
    BY Zenon
  <2>2. \A k \in K : \E j \in 1..i : g[j] = k
    BY Zenon
  <2> QED
    BY <2>1, <2>2, Zenon DEF Surjection
<1> HIDE DEF K, g
<1>3. IsFiniteSet(K) /\ Cardinality(K) <= i
  BY <1>1, <1>2, FS_Surjection
<1> QED
  BY <1>3, FS_CardinalityType DEF K

\* parseQueryString keeps its table within the limit, and refuses only a query
\* with more pairs.
LEMMA QueryLimit ==
  ASSUME NEW q \in Seq(STRING)
  PROVE  /\ QueryFits(q) => Cardinality({q[i] : i \in DOMAIN q}) <= MaxQuery
         /\ ~QueryFits(q) => Len(q) > MaxQuery
<1>1. Len(q) \in Nat /\ DOMAIN q = 1..Len(q) /\ MaxQuery \in Nat
  BY RouterAssumption
<1>2. ASSUME QueryFits(q) PROVE Cardinality({q[i] : i \in 1..Len(q)}) <= MaxQuery
  <2>1. CASE Len(q) = 0
    <3> DEFINE A == {q[i] : i \in 1..Len(q)}
    <3>1. A = {}
      BY <2>1
    <3> HIDE DEF A
    <3>2. Cardinality(A) = 0
      BY <3>1, FS_EmptySet
    <3>3. Cardinality(A) <= MaxQuery
      BY <1>1, <3>2
    <3> QED
      BY <3>3 DEF A
  <2>2. CASE Len(q) # 0
    <3> DEFINE n == Len(q)
               K == {q[j] : j \in 1..(n - 1)}
               A == {q[i] : i \in 1..n}
    <3>1. n \in DOMAIN q /\ n - 1 \in 0..Len(q) /\ n \in Nat \ {0}
      BY <1>1, <2>2
    <3>2. IsFiniteSet(K) /\ Cardinality(K) \in Nat
      BY <3>1, KeyCount
    <3>3. Cardinality(K) < MaxQuery
      BY <1>2, <3>1, Zenon DEF QueryFits
    <3>4. A = K \cup {q[n]}
      <4>1. 1..n = 1..(n - 1) \cup {n}
        BY <3>1
      <4> HIDE DEF n
      <4> QED
        BY <4>1
    <3> HIDE DEF K, n, A
    <3>5. Cardinality(K \cup {q[n]}) <= Cardinality(K) + 1 /\ Cardinality(K \cup {q[n]}) \in Nat
      <4>1. Cardinality(K \cup {q[n]}) = IF q[n] \in K THEN Cardinality(K) ELSE Cardinality(K) + 1
        BY <3>2, FS_AddElement
      <4> QED
        BY <3>2, <4>1
    <3>6. Cardinality(A) <= MaxQuery
      BY <1>1, <3>2, <3>3, <3>4, <3>5
    <3> QED
      BY <3>6 DEF n, A
  <2> QED
    BY <2>1, <2>2
<1>3. ASSUME ~QueryFits(q) PROVE Len(q) > MaxQuery
  <2>1. PICK i \in DOMAIN q : ~(Cardinality({q[j] : j \in 1..(i - 1)}) < MaxQuery)
    BY <1>3, Zenon DEF QueryFits
  <2>2. i - 1 \in 0..Len(q) /\ i \in Nat /\ i <= Len(q)
    BY <1>1
  <2>3. /\ Cardinality({q[j] : j \in 1..(i - 1)}) \in Nat
        /\ Cardinality({q[j] : j \in 1..(i - 1)}) <= i - 1
    BY <2>2, KeyCount
  <2> QED
    BY <1>1, <2>1, <2>2, <2>3
<1>4. {q[i] : i \in DOMAIN q} = {q[i] : i \in 1..Len(q)}
  BY <1>1
<1> QED
  BY <1>2, <1>3, <1>4

LEMMA ParamsExactStep ==
  ASSUME RouteInv, WildcardsLast, NamesOnce, ParamsExact, [Next]_vars
  PROVE  ParamsExact'
<1>1. NoAnswer.outcome = "none"
  BY DEF NoAnswer
<1>2. CASE \/ \E m \in Methods, p \in Patterns : Register(m, p)
           \/ \E p \in Patterns : RegisterAny(p)
  <2>1. answer'.outcome = "none"
    BY <1>1, <1>2, RegisterStep
  <2> QED
    BY <2>1 DEF ParamsExact
<1>3. CASE answer' = NoAnswer
  <2>1. answer'.outcome = "none"
    BY <1>1, <1>3
  <2> QED
    BY <2>1 DEF ParamsExact
<1>4. CASE registered' = registered /\ answer' = answer
  <2>1. NamesAgree' => NamesAgree
    BY <1>4, Zenon DEF NamesAgree
  <2>2. \A r : WithinLimit(r)' <=> WithinLimit(r)
    BY <1>4, Zenon DEF WithinLimit
  <2>3. (\E r \in DOMAIN registered : ~WithinLimit(r))
          => (\E r \in DOMAIN registered : ~WithinLimit(r))'
    BY <1>4, <2>2
  <2> QED
    BY <1>4, <2>1, <2>3, Zenon DEF ParamsExact
<1>5. CASE \E m \in Methods, p \in Paths, q \in Queries : Find(m, p, q)
  <2>1. PICK m \in Methods, p \in Paths, q \in Queries : Find(m, p, q)
    BY <1>5
  <2>2. p \in Seq(STRING) /\ q \in Seq(STRING)
    BY RouterAssumption
  <2> DEFINE f == FindHandler(trees, m, p)
  <2>3. /\ answer'.path = p /\ answer'.query = q
        /\ answer'.outcome = IF QueryFits(q) THEN f.outcome ELSE "error"
        /\ answer'.route = IF f.outcome = "hit" /\ QueryFits(q)
                           THEN trees[f.node[1]][f.node[2]].route ELSE NoRoute
        /\ answer'.params = IF QueryFits(q) THEN f.params ELSE NoParams
        /\ registered' = registered
    BY <2>1, FindFacts
  <2>4. f.outcome = "hit" => trees[f.node[1]][f.node[2]].route = Expected(m, p)
    BY <2>2, FindHandlerBest
  <2>5. /\ f.outcome = "miss" => f.params = NoParams
        /\ f.outcome = "hit" => Count(f.params) <= MaxParams
        /\ f.outcome = "error" => \E r \in DOMAIN registered : ~WithinLimit(r)
        /\ NamesAgree /\ f.outcome = "hit" =>
             f.params = Captured(registered[Expected(m, p)].pattern, p)
    BY <2>2, FindHandlerParams
  <2>6. /\ QueryFits(q) => Cardinality({q[i] : i \in DOMAIN q}) <= MaxQuery
        /\ ~QueryFits(q) => Len(q) > MaxQuery
    BY <2>2, QueryLimit
  <2> HIDE DEF f
  <2>7. NamesAgree' => NamesAgree
    BY <2>3, Zenon DEF NamesAgree
  <2>8. \A r : WithinLimit(r)' <=> WithinLimit(r)
    BY <2>3, Zenon DEF WithinLimit
  <2>9. NamesAgree' /\ answer'.outcome \in {"hit", "miss"} =>
          answer'.params = IF answer'.outcome = "miss" THEN NoParams
                           ELSE Captured(registered'[answer'.route].pattern, answer'.path)
    <3>1. SUFFICES ASSUME NamesAgree', answer'.outcome \in {"hit", "miss"}
                   PROVE  answer'.params =
                            IF answer'.outcome = "miss" THEN NoParams
                            ELSE Captured(registered'[answer'.route].pattern, answer'.path)
      OBVIOUS
    <3>2. QueryFits(q) /\ answer'.outcome = f.outcome /\ answer'.params = f.params
      BY <2>3, <3>1
    <3>3. CASE f.outcome = "miss"
      BY <2>5, <3>2, <3>3
    <3>4. CASE f.outcome = "hit"
      BY <2>3, <2>4, <2>5, <2>7, <3>1, <3>2, <3>4
    <3> QED
      BY <3>1, <3>2, <3>3, <3>4
  <2>10. answer'.outcome = "hit" =>
           /\ Count(answer'.params) <= MaxParams
           /\ Cardinality({answer'.query[i] : i \in DOMAIN answer'.query}) <= MaxQuery
    <3>1. SUFFICES ASSUME answer'.outcome = "hit"
                   PROVE  /\ Count(answer'.params) <= MaxParams
                          /\ Cardinality({answer'.query[i] : i \in DOMAIN answer'.query}) <= MaxQuery
      OBVIOUS
    <3>2. QueryFits(q) /\ f.outcome = "hit" /\ answer'.params = f.params
      BY <2>3, <3>1
    <3>3. {answer'.query[i] : i \in DOMAIN answer'.query} = {q[i] : i \in DOMAIN q}
      BY <2>3
    <3> QED
      BY <2>5, <2>6, <3>2, <3>3
  <2>11. answer'.outcome = "error" =>
           (\E r \in DOMAIN registered' : ~(WithinLimit(r)')) \/ Len(answer'.query) > MaxQuery
    BY <2>3, <2>5, <2>6, <2>8
  <2> QED
    BY <2>9, <2>10, <2>11, Zenon DEF ParamsExact
<1> QED
  BY <1>2, <1>3, <1>4, <1>5, OtherSteps

\* Where a wildcard ends its pattern and a pattern names its parameters apart: a
\* handler gets exactly what its route captures and nothing that the search had
\* captured on a way it gave up, no table outgrows its limit, and a request is
\* refused only where a route or its query has more than the limit.
THEOREM ParametersExact ==
  ASSUME WildcardsLast, NamesOnce
  PROVE  Spec => []ParamsExact
<1>1. Init => RouteInv /\ ParamsExact
  <2>1. NoAnswer.outcome = "none"
    BY DEF NoAnswer
  <2>2. Init => ParamsExact
    BY <2>1 DEF Init, ParamsExact
  <2> QED
    BY <2>2, RouteInvInit
<1>2. (RouteInv /\ ParamsExact) /\ [Next]_vars => (RouteInv /\ ParamsExact)'
  BY RouteInvNext, ParamsExactStep
<1> QED
  BY <1>1, <1>2, PTL DEF Spec

-----------------------------------------------------------------------------
(* AddingIsLocal *)

\* A miss names no node.
LEMMA MissNode ==
  ASSUME NEW tree, NEW path \in Seq(STRING), GoodTree(tree)
  PROVE  LET r == MatchIn(tree, path, NoParams)
         IN  r.outcome = "miss" => r.node = <<>>
<1> DEFINE r == MatchIn(tree, path, NoParams)
           N == Len(SegmentsOf(path))
           d == MatchRecursive(tree, path)[N - 1]
<1>1. \/ r = Miss(NoParams)
      \/ <<>> \in DOMAIN tree /\ r = MatchRecursive(tree, path)[N][<< <<>>, NoParams >>]
  BY NoParamsFacts, MatchInFinds
<1>2. N \in Nat /\ NoParams \in Params
  BY SegmentFacts, NoParamsFacts
<1>3. MatchRecursive(tree, path)[N] = MatchNode(tree, path, N, d)
  BY <1>2, MatchUnfolds
<1>4. \A q : Miss(q).node = <<>>
  BY DEF Miss
<1>5. \A q : Hit(<<>>, q).outcome # "miss" /\ TooManyParams(q).outcome # "miss"
  BY DEF Hit, TooManyParams
<1>6. \A i, n, q : LET w == MatchWildcard(tree, path, i, n, q) IN w.outcome = "miss" => w.node = <<>>
  <2>1. \A n, q : Hit(n, q).outcome # "miss" /\ TooManyParams(q).outcome # "miss"
    BY DEF Hit, TooManyParams
  <2> QED
    BY <1>4, <2>1, Zenon DEF MatchWildcard
<1>7. \A i, n, q : LET p == MatchParam(tree, path, i, n, q, d) IN p.outcome = "miss" => p.node = <<>>
  BY <1>5, <1>6, Zenon DEF MatchParam
<1>8. \A i, n, q : LET s == MatchStatic(tree, path, i, n, q, d) IN s.outcome = "miss" => s.node = <<>>
  BY <1>7, Zenon DEF MatchStatic
<1>9. CASE r = Miss(NoParams)
  BY <1>4, <1>9, Zenon
<1>10. CASE <<>> \in DOMAIN tree /\ r = MatchRecursive(tree, path)[N][<< <<>>, NoParams >>]
  <2>1. r = MatchNode(tree, path, N, d)[<< <<>>, NoParams >>]
    BY <1>3, <1>10, Zenon
  <2> HIDE DEF r, N, d
  <2>2. r = IF N = 0 THEN MatchEnd(tree, <<>>, NoParams)
            ELSE MatchStatic(tree, path, Len(SegmentsOf(path)) - N + 1, <<>>, NoParams, d)
    BY <1>2, <1>10, <2>1 DEF MatchNode
  <2>3. LET e == MatchEnd(tree, <<>>, NoParams) IN e.outcome = "miss" => e.node = <<>>
    BY <1>4, <1>5, Zenon DEF MatchEnd
  <2> QED
    BY <1>8, <2>2, <2>3, Zenon DEF r
<1> QED
  BY <1>1, <1>9, <1>10

\* What is captured on the way to a node depends on the names there only.
LEMMA CapturedOnce ==
  ASSUME NEW tree, NEW t, NEW path, NEW x, NEW q \in Params, NEW u \in Params,
         CapturedAt(tree, path, x, q), CapturedAt(t, path, x, u),
         \A j \in Captures(x) : NameAt(tree, x, j) = NameAt(t, x, j)
  PROVE  q = u
<1>1. ASSUME NEW n \in Names PROVE q[n] = u[n]
  <2>1. CASE \E j \in Captures(x) : n = NameAt(tree, x, j)
    <3>1. PICK j \in Captures(x) : n = NameAt(tree, x, j)
      BY <2>1
    <3>2. n = NameAt(t, x, j)
      BY <3>1
    <3>3. q[n] = ValueAt(path, x, j)
      BY <3>1, Zenon DEF CapturedAt
    <3>4. u[n] = ValueAt(path, x, j)
      BY <3>1, <3>2, Zenon DEF CapturedAt
    <3> QED
      BY <3>3, <3>4
  <2>2. CASE ~\E j \in Captures(x) : n = NameAt(tree, x, j)
    <3>1. ~\E j \in Captures(x) : n = NameAt(t, x, j)
      BY <2>2
    <3>2. q[n] = <<>>
      BY <2>2, Zenon DEF CapturedAt
    <3>3. u[n] = <<>>
      BY <3>1, Zenon DEF CapturedAt
    <3> QED
      BY <3>2, <3>3
  <2> QED
    BY <2>1, <2>2
<1> QED
  BY <1>1 DEF Params

\* Two searches with the same result, and the same parameters if P.
SameResult(r, s, P) ==
  /\ r \in Results /\ s \in Results
  /\ r.outcome = s.outcome /\ r.node = s.node
  /\ r.outcome = "miss" => r.params = NoParams /\ s.params = NoParams
  /\ P => r.params = s.params

\* Two trees with the same targets and, where both have a node, the same names.
LEMMA SameSearch ==
  ASSUME NEW tree, NEW t, NEW path \in Seq(STRING), GoodTree(tree), GoodTree(t),
         Targets(tree, path, <<>>) = Targets(t, path, <<>>),
         \A x \in DOMAIN tree : x \in DOMAIN t /\ t[x].param_name = tree[x].param_name,
         \A x \in DOMAIN tree : ~(Cardinality(Captures(x)) > MaxParams),
         \A x \in DOMAIN t : ~(Cardinality(Captures(x)) > MaxParams)
  PROVE  SameResult(MatchIn(tree, path, NoParams), MatchIn(t, path, NoParams),
                    DistinctNames(tree) /\ DistinctNames(t))
<1> DEFINE r == MatchIn(tree, path, NoParams)
           s == MatchIn(t, path, NoParams)
           T == Targets(tree, path, <<>>)
<1>1. /\ r \in Results
      /\ r.outcome = "miss" => r.params = NoParams
      /\ r.outcome # "error"
      /\ DistinctNames(tree) /\ r.outcome = "hit" => CapturedAt(tree, path, r.node, r.params)
  BY MatchInParams
<1>2. /\ s \in Results
      /\ s.outcome = "miss" => s.params = NoParams
      /\ s.outcome # "error"
      /\ DistinctNames(t) /\ s.outcome = "hit" => CapturedAt(t, path, s.node, s.params)
  BY MatchInParams
<1>3. Found(tree, path, <<>>, r) /\ Found(t, path, <<>>, s)
  BY NoParamsFacts, MatchInFinds
<1>4. /\ r.outcome = "miss" => r.node = <<>>
      /\ s.outcome = "miss" => s.node = <<>>
  BY MissNode
<1> HIDE DEF r, s
<1>5. /\ r.outcome = "hit" => r.node \in T /\ \A y \in T : y # r.node => MoreSpecific(r.node, y)
      /\ s.outcome = "hit" => s.node \in T /\ \A y \in T : y # s.node => MoreSpecific(s.node, y)
      /\ r.outcome = "miss" => T = {}
      /\ s.outcome = "miss" => T = {}
  BY <1>3, Zenon DEF Found
<1>6. /\ r.outcome = "hit" \/ r.outcome = "miss"
      /\ s.outcome = "hit" \/ s.outcome = "miss"
      /\ r.node \in Seq(Keys) /\ s.node \in Seq(Keys)
      /\ r.params \in Params /\ s.params \in Params
  BY <1>1, <1>2 DEF Results
<1>7. r.outcome = s.outcome
  BY <1>5, <1>6
<1>8. r.node = s.node
  <2>1. CASE r.outcome = "miss"
    BY <1>4, <1>7, <2>1
  <2>2. CASE r.outcome = "hit"
    <3>1. SUFFICES ASSUME r.node # s.node PROVE FALSE
      OBVIOUS
    <3>2. MoreSpecific(r.node, s.node) /\ MoreSpecific(s.node, r.node)
      BY <1>5, <1>7, <2>2, <3>1
    <3> QED
      BY <1>6, <3>2, SpecificIsStrict
  <2> QED
    BY <1>6, <2>1, <2>2
<1>9. ASSUME DistinctNames(tree), DistinctNames(t) PROVE r.params = s.params
  <2>1. CASE r.outcome = "miss"
    BY <1>1, <1>2, <1>7, <2>1
  <2>2. CASE r.outcome = "hit"
    <3> DEFINE x == r.node
    <3>1. /\ CapturedAt(tree, path, x, r.params) /\ CapturedAt(t, path, x, s.params)
      BY <1>1, <1>2, <1>7, <1>8, <1>9, <2>2
    <3>2. x \in DOMAIN tree /\ x \in Seq(Keys)
      BY <1>5, <1>6, <2>2 DEF Targets
    <3> HIDE DEF x
    <3>3. \A j \in Captures(x) : NameAt(tree, x, j) = NameAt(t, x, j)
      <4>1. TAKE j \in Captures(x)
      <4>2. j \in 0..Len(x)
        BY <3>2 DEF Captures
      <4>3. Up(x, j) \in DOMAIN tree
        BY <3>2, <4>2 DEF GoodTree
      <4> QED
        BY <4>3 DEF NameAt
    <3> QED
      BY <1>6, <3>1, <3>3, CapturedOnce
  <2> QED
    BY <1>6, <2>1, <2>2
<1> QED
  BY <1>1, <1>2, <1>7, <1>8, <1>9, Zenon DEF SameResult, r, s

\* A pattern that does not describe the path adds no target.
LEMMA SameTargets ==
  ASSUME NEW tree, NEW p \in Seq(Part), NEW k, NEW path, ~Describes(p, path)
  PROVE  LET t == InsertRoute(tree, p, k)
         IN  /\ Targets(tree, path, <<>>) = Targets(t, path, <<>>)
             /\ \A x \in DOMAIN tree : x \in DOMAIN t /\ t[x].param_name = tree[x].param_name
<1> DEFINE t == InsertRoute(tree, p, k)
<1>1. /\ \A x : x \in DOMAIN t <=> x \in DOMAIN tree \/ OnWay(x, p)
      /\ \A x \in DOMAIN t :
           /\ t[x].route = IF x = Whole(p) THEN k
                           ELSE IF x \in DOMAIN tree THEN tree[x].route ELSE NoRoute
           /\ x \in DOMAIN tree => t[x].param_name = tree[x].param_name
  BY InsertFacts
<1>2. ~Describes(Whole(p), path)
  BY WholeDescribes
<1> HIDE DEF t
<1>3. \A x : x \in Targets(tree, path, <<>>) <=> x \in Targets(t, path, <<>>)
  BY <1>1, <1>2, Zenon DEF Targets
<1>4. Targets(tree, path, <<>>) = Targets(t, path, <<>>)
  BY <1>3, Zenon
<1> QED
  BY <1>1, <1>4 DEF t

\* findHandler from one set of trees and from another, when each search is the same.
LEMMA SameFind ==
  ASSUME NEW ts, NEW us, NEW m, NEW path, NEW P \in BOOLEAN,
         \A o \in {m, "GET"} :
           SameResult(MatchIn(ts[o], path, NoParams), MatchIn(us[o], path, NoParams), P)
  PROVE  LET f == FindHandler(ts, m, path)
             g == FindHandler(us, m, path)
         IN  f.outcome = g.outcome /\ f.node = g.node /\ (P => f.params = g.params)
<1> DEFINE f == FindHandler(ts, m, path)
           g == FindHandler(us, m, path)
           R(o) == MatchIn(ts[o], path, NoParams)
           S(o) == MatchIn(us[o], path, NoParams)
<1>1. \A o \in {m, "GET"} :
        /\ R(o) \in Results /\ S(o) \in Results
        /\ R(o).outcome = S(o).outcome /\ R(o).node = S(o).node
        /\ R(o).outcome = "miss" => R(o).params = NoParams /\ S(o).params = NoParams
        /\ P => R(o).params = S(o).params
  BY Zenon DEF SameResult
<1>2. f = IF R(m).outcome = "miss" /\ m = "HEAD"
          THEN [MatchIn(ts["GET"], path, R(m).params)
                  EXCEPT !.node = <<"GET", MatchIn(ts["GET"], path, R(m).params).node>>]
          ELSE [R(m) EXCEPT !.node = <<m, R(m).node>>]
  BY Zenon DEF FindHandler
<1>3. g = IF S(m).outcome = "miss" /\ m = "HEAD"
          THEN [MatchIn(us["GET"], path, S(m).params)
                  EXCEPT !.node = <<"GET", MatchIn(us["GET"], path, S(m).params).node>>]
          ELSE [S(m) EXCEPT !.node = <<m, S(m).node>>]
  BY Zenon DEF FindHandler
<1>4. f = IF R(m).outcome = "miss" /\ m = "HEAD"
          THEN [R("GET") EXCEPT !.node = <<"GET", R("GET").node>>]
          ELSE [R(m) EXCEPT !.node = <<m, R(m).node>>]
  BY <1>1, <1>2, Zenon
<1>5. g = IF S(m).outcome = "miss" /\ m = "HEAD"
          THEN [S("GET") EXCEPT !.node = <<"GET", S("GET").node>>]
          ELSE [S(m) EXCEPT !.node = <<m, S(m).node>>]
  BY <1>1, <1>3, Zenon
<1> HIDE DEF f, g, R, S
<1>6. \A x \in Results : \A y : /\ [x EXCEPT !.node = y].outcome = x.outcome
                                /\ [x EXCEPT !.node = y].params = x.params
                                /\ [x EXCEPT !.node = y].node = y
  BY DEF Results
<1>7. PICK o \in {m, "GET"} : f = [R(o) EXCEPT !.node = <<o, R(o).node>>]
                              /\ g = [S(o) EXCEPT !.node = <<o, S(o).node>>]
  BY <1>1, <1>4, <1>5, Zenon
<1>8. /\ f.outcome = R(o).outcome /\ f.params = R(o).params /\ f.node = <<o, R(o).node>>
      /\ g.outcome = S(o).outcome /\ g.params = S(o).params /\ g.node = <<o, S(o).node>>
  BY <1>1, <1>6, <1>7
<1>9. f.outcome = g.outcome /\ f.node = g.node /\ (P => f.params = g.params)
  BY <1>1, <1>8
<1> QED
  BY <1>9, Zenon DEF f, g

\* Names that agree after a registration agreed before it.
LEMMA AgreedBefore ==
  ASSUME NEW reg, NEW g, \A r \in DOMAIN reg : r \in DOMAIN g /\ g[r] = reg[r], NamesAgreeIn(g)
  PROVE  NamesAgreeIn(reg)
<1>1. SUFFICES ASSUME NEW r \in DOMAIN reg, NEW s \in DOMAIN reg,
                      NEW i \in Captures(reg[r].pattern) \cap Captures(reg[s].pattern),
                      NodeAt(reg[r].pattern, i) = NodeAt(reg[s].pattern, i)
               PROVE  reg[r].pattern[i].text = reg[s].pattern[i].text
  BY Zenon DEF NamesAgreeIn
<1>2. r \in DOMAIN g /\ s \in DOMAIN g /\ g[r] = reg[r] /\ g[s] = reg[s]
  OBVIOUS
<1>3. /\ i \in Captures(g[r].pattern) \cap Captures(g[s].pattern)
      /\ NodeAt(g[r].pattern, i) = NodeAt(g[s].pattern, i)
  BY <1>1, <1>2
<1>4. g[r].pattern[i].text = g[s].pattern[i].text
  BY <1>2, <1>3, Zenon DEF NamesAgreeIn
<1> QED
  BY <1>2, <1>4

\* A registration changes no search for a path that its pattern does not describe.
LEMMA AddsLocallyStep ==
  ASSUME WildcardsLast, NamesOnce, RouteInv, RouteInv', [Next]_vars
  PROVE  AddsLocally
<1>1. SUFFICES ASSUME registered' # registered,
                      \A r \in DOMAIN registered' :
                        Cardinality(Captures(registered'[r].pattern)) <= MaxParams,
                      NEW m \in Methods, NEW path \in Paths,
                      ~Describes(registered'[Len(registered')].pattern, path)
               PROVE  LET old == FindHandler(trees, m, path)
                          new == FindHandler(trees', m, path)
                      IN  /\ old.outcome = new.outcome /\ old.node = new.node
                          /\ NamesAgree' => old.params = new.params
  BY Zenon DEF AddsLocally
<1>2. PICK M \in SUBSET Methods, p \in Patterns :
        /\ registered' = Append(registered, [methods |-> M, pattern |-> p])
        /\ trees' = [o \in Methods |-> IF o \in M THEN InsertRoute(trees[o], p, Len(registered) + 1)
                                       ELSE trees[o]]
  BY <1>1, OtherSteps, RegisterStep
<1>3. path \in Seq(STRING) /\ p \in Seq(Part) /\ "GET" \in Methods
  BY RouterAssumption
<1>4. registered \in Seq(Routes) /\ registered' \in Seq(Routes)
  BY DEF RouteInv
<1> DEFINE e == [methods |-> M, pattern |-> p]
           reg == registered'
<1>5. /\ Len(reg) = Len(registered) + 1 /\ reg[Len(registered) + 1] = e /\ e.pattern = p
      /\ \A r \in DOMAIN registered : r \in DOMAIN reg /\ reg[r] = registered[r]
  <2>1. e \in Routes /\ e.pattern = p
    BY DEF Routes
  <2> HIDE DEF e
  <2> QED
    BY <1>2, <1>4, <2>1, RegAppend DEF e
<1>6. ~Describes(p, path)
  BY <1>1, <1>5
<1>7. NamesAgree' => NamesAgreeIn(registered) /\ NamesAgreeIn(registered')
  <2>1. NamesAgree' => NamesAgreeIn(registered')
    BY Zenon DEF NamesAgree, NamesAgreeIn
  <2>2. \A r \in DOMAIN registered : r \in DOMAIN reg /\ reg[r] = registered[r]
    BY <1>5
  <2> HIDE DEF reg
  <2>3. NamesAgreeIn(reg) => NamesAgreeIn(registered)
    BY <2>2, AgreedBefore
  <2> QED
    BY <2>1, <2>3 DEF reg
<1>8. \A r \in DOMAIN registered : Cardinality(Captures(registered[r].pattern)) <= MaxParams
  BY <1>1, <1>5
<1>9. ASSUME NEW o \in Methods
      PROVE  SameResult(MatchIn(trees[o], path, NoParams), MatchIn(trees'[o], path, NoParams),
                        NamesAgree' <=> TRUE)
  <2> DEFINE tree == trees[o]
             t == trees'[o]
  <2>1. Recorded(tree, o, registered) /\ Recorded(t, o, registered')
    BY DEF RouteInv
  <2>2. GoodTree(tree) /\ GoodTree(t)
    BY <1>4, <2>1, RecordedIsGood
  <2>3. /\ Targets(tree, path, <<>>) = Targets(t, path, <<>>)
        /\ \A x \in DOMAIN tree : x \in DOMAIN t /\ t[x].param_name = tree[x].param_name
    <3>1. CASE o \in M
      <4>1. t = InsertRoute(tree, p, Len(registered) + 1)
        BY <1>2, <3>1
      <4> HIDE DEF t, tree
      <4> QED
        BY <1>3, <1>6, <4>1, SameTargets
    <3>2. CASE o \notin M
      <4>1. t = tree
        BY <1>2, <3>2
      <4> QED
        BY <4>1
    <3> QED
      BY <3>1, <3>2
  <2>4. \A x \in DOMAIN tree : ~(Cardinality(Captures(x)) > MaxParams)
    BY <1>4, <1>8, <2>1, OverLimit
  <2>5. \A x \in DOMAIN t : ~(Cardinality(Captures(x)) > MaxParams)
    BY <1>1, <1>4, <2>1, OverLimit
  <2>6. NamesAgree' => DistinctNames(tree) /\ DistinctNames(t)
    BY <1>4, <1>7, <2>1, NamesDistinct
  <2> HIDE DEF tree, t
  <2>7. SameResult(MatchIn(tree, path, NoParams), MatchIn(t, path, NoParams),
                   DistinctNames(tree) /\ DistinctNames(t))
    BY <1>3, <2>2, <2>3, <2>4, <2>5, SameSearch
  <2> QED
    BY <2>6, <2>7, Zenon DEF SameResult, tree, t
<1> DEFINE ts == trees
           us == trees'
           P == NamesAgree' <=> TRUE
<1>10. \A o \in {m, "GET"} : o \in Methods
  BY <1>3
<1>11. \A o \in {m, "GET"} :
         SameResult(MatchIn(ts[o], path, NoParams), MatchIn(us[o], path, NoParams), P)
  BY <1>9, <1>10, Zenon
<1>12. P \in BOOLEAN
  OBVIOUS
<1> HIDE DEF ts, us, P
<1>13. LET f == FindHandler(ts, m, path)
           g == FindHandler(us, m, path)
       IN  f.outcome = g.outcome /\ f.node = g.node /\ (P => f.params = g.params)
  BY <1>11, <1>12, SameFind
<1> QED
  BY <1>13, Zenon DEF ts, us, P

\* Where a wildcard ends its pattern and a pattern names its parameters apart: a
\* route that does not describe a path changes neither the route nor the parameters
\* that a request for the path gets, whatever was registered before.
THEOREM RoutesAddLocally ==
  ASSUME WildcardsLast, NamesOnce
  PROVE  Spec => AddingIsLocal
<1>1. RouteInv /\ RouteInv' /\ [Next]_vars => AddsLocally
  BY AddsLocallyStep
<1> QED
  BY <1>1, TreesRecord, PTL DEF Spec, AddingIsLocal
=============================================================================
