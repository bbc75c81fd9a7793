--------------------------- MODULE InterfacesProofs ---------------------------
(***************************************************************************)
(* Proofs about Interfaces: what the loops over the list of interfaces     *)
(* select, what the walks over descriptors find, and from both that the    *)
(* tables agree for every device.                                          *)
(***************************************************************************)
EXTENDS Interfaces, SequenceTheorems, FiniteSetTheorems, FunctionTheorems, WellFoundedInduction,
        NaturalsInduction, TLAPS

-----------------------------------------------------------------------------
(* Induction over the natural numbers, as a fact about sets of them.       *)

Below == {ss \in Nat \X Nat : ss[1] < ss[2]}

(* The order of the natural numbers, as a relation, is well-founded.       *)
LEMMA BelowWellFounded == IsWellFoundedOn(Below, Nat)
  BY NatLessThanWellFounded DEF OpToRel, Below

(* A set of natural numbers has a least element, if it has any.            *)
LEMMA Least ==
  ASSUME NEW T \in SUBSET Nat, T # {}
  PROVE  \E x \in T : \A y \in T : x <= y
<1>1. PICK x \in T : \A y \in T : ~(<<y, x>> \in Below)
  BY BelowWellFounded, WFMin
<1>2. \A y \in T : ~(y < x)
  BY <1>1 DEF Below
<1> QED BY <1>2

(* A set that has 0 and, with a number, the next one, has all of them.     *)
LEMMA SetInduction ==
  ASSUME NEW S, 0 \in S, \A n \in Nat : n \in S => n + 1 \in S
  PROVE  \A n \in Nat : n \in S
<1> SUFFICES ASSUME NEW m \in Nat, m \notin S PROVE FALSE
  OBVIOUS
<1> DEFINE T == Nat \ S
<1>1. PICK x \in T : \A y \in T : x <= y
  <2>1. T \in SUBSET Nat /\ T # {}
    OBVIOUS
  <2> HIDE DEF T
  <2> QED BY <2>1, Least
<1>2. x \in Nat /\ x # 0 /\ x \notin S
  OBVIOUS
<1>3. x - 1 \in Nat /\ (x - 1) + 1 = x
  BY <1>2
<1>4. x - 1 \notin T
  BY <1>1, <1>2, <1>3
<1>5. x - 1 \in S
  BY <1>3, <1>4
<1> QED BY <1>2, <1>3, <1>5

(* A set of integers that has one, and none above n, has a greatest one,   *)
(* which is its Max.                                                       *)
LEMMA MaxIs ==
  ASSUME NEW n \in Nat, NEW T \in SUBSET (1..n), T # {}
  PROVE  Max(T) \in T /\ \A y \in T : y <= Max(T)
<1> DEFINE U == {n - x : x \in T}
<1>1. U \in SUBSET Nat /\ U # {}
  <2>1. \A x \in T : n - x \in Nat
    OBVIOUS
  <2>2. PICK x \in T : TRUE
    OBVIOUS
  <2>3. n - x \in U
    OBVIOUS
  <2> QED BY <2>1, <2>3
<1>2. PICK u \in U : \A y \in U : u <= y
  <2> HIDE DEF U
  <2> QED BY <1>1, Least
<1>3. PICK x \in T : u = n - x
  OBVIOUS
<1>4. \A y \in T : x >= y
  <2> TAKE y \in T
  <2>1. n - y \in U
    OBVIOUS
  <2> HIDE DEF U
  <2>2. x \in 1..n /\ y \in 1..n
    OBVIOUS
  <2>3. u <= n - y
    BY <2>1, <1>2
  <2> QED BY <2>2, <2>3, <1>3
<1>5. \A y \in T : Max(T) \in T /\ Max(T) >= y
  BY <1>4 DEF Max
<1> QED BY <1>5

(* Bytes are numbers.                                                      *)
LEMMA ByteNat == \A b \in Byte : b \in Nat /\ b <= 255
  BY DEF Byte

-----------------------------------------------------------------------------
(* Select                                                                  *)

(* The position in the list of the j-th element that is selected.          *)
Rank(K, k) == Cardinality(K \cap 1..k)
Pos(K) == [j \in 1..Cardinality(K) |-> CHOOSE k \in K : Rank(K, k) = j]

(* Select takes the elements at those positions.                           *)
LEMMA SelectPos ==
  ASSUME NEW s, NEW K
  PROVE  /\ Select(s, K) = [j \in 1..Cardinality(K) |-> s[Pos(K)[j]]]
         /\ DOMAIN Select(s, K) = 1..Cardinality(K)
BY DEF Select, Pos, Rank

(* The number of positions up to the k-th is bounded, grows with k, and by *)
(* one at each position that is selected.                                  *)
LEMMA RankGrows ==
  ASSUME NEW n \in Nat, NEW K \in SUBSET (1..n)
  PROVE  /\ IsFiniteSet(K) /\ Cardinality(K) \in Nat
         /\ \A k \in Nat : Rank(K, k) \in 0..Cardinality(K)
         /\ Rank(K, 0) = 0
         /\ Rank(K, n) = Cardinality(K)
         /\ \A k \in Nat : Rank(K, k + 1) = IF k + 1 \in K THEN Rank(K, k) + 1 ELSE Rank(K, k)
         /\ \A j, k \in Nat : j <= k => Rank(K, j) <= Rank(K, k)
<1>1. IsFiniteSet(K) /\ Cardinality(K) \in Nat
  <2>1. IsFiniteSet(1..n)
    BY FS_Interval
  <2>2. IsFiniteSet(K)
    BY <2>1, FS_Subset
  <2> QED BY <2>2, FS_CardinalityType
<1>2. \A k \in Nat : IsFiniteSet(K \cap 1..k) /\ Rank(K, k) \in 0..Cardinality(K)
  <2> TAKE k \in Nat
  <2>1. IsFiniteSet(K \cap 1..k) /\ Cardinality(K \cap 1..k) <= Cardinality(K)
    BY <1>1, FS_Subset
  <2>2. Cardinality(K \cap 1..k) \in Nat
    BY <2>1, FS_CardinalityType
  <2> QED BY <1>1, <2>1, <2>2 DEF Rank
<1>3. Rank(K, 0) = 0
  <2>1. K \cap 1..0 = {}
    OBVIOUS
  <2> QED BY <2>1, FS_EmptySet DEF Rank
<1>4. Rank(K, n) = Cardinality(K)
  <2>1. K \cap 1..n = K
    OBVIOUS
  <2> QED BY <2>1 DEF Rank
<1>5. \A k \in Nat : Rank(K, k + 1) = IF k + 1 \in K THEN Rank(K, k) + 1 ELSE Rank(K, k)
  <2> TAKE k \in Nat
  <2>1. CASE k + 1 \in K
    <3>1. K \cap 1..(k + 1) = (K \cap 1..k) \cup {k + 1} /\ k + 1 \notin K \cap 1..k
      BY <2>1
    <3> QED BY <2>1, <3>1, <1>2, FS_AddElement DEF Rank
  <2>2. CASE k + 1 \notin K
    <3>1. K \cap 1..(k + 1) = K \cap 1..k
      BY <2>2
    <3> QED BY <2>2, <3>1 DEF Rank
  <2> QED BY <2>1, <2>2
<1>6. \A j, k \in Nat : j <= k => Rank(K, j) <= Rank(K, k)
  <2> TAKE j, k \in Nat
  <2> HAVE j <= k
  <2>1. K \cap 1..j \in SUBSET (K \cap 1..k)
    OBVIOUS
  <2> QED BY <2>1, <1>2, FS_Subset DEF Rank
<1> QED BY <1>1, <1>2, <1>3, <1>4, <1>5, <1>6

(* No two positions have the same rank, and each rank up to the number of  *)
(* positions is that of one of them.                                       *)
LEMMA RankOrders ==
  ASSUME NEW n \in Nat, NEW K \in SUBSET (1..n)
  PROVE  /\ \A j, k \in K : j < k => Rank(K, j) < Rank(K, k)
         /\ \A k \in K : Rank(K, k) \in 1..Cardinality(K)
         /\ \A r \in 1..Cardinality(K) : \E k \in K : Rank(K, k) = r
<1> USE RankGrows
<1>1. \A k \in K : k \in Nat /\ k - 1 \in Nat /\ Rank(K, k) = Rank(K, k - 1) + 1
  <2> TAKE k \in K
  <2>1. k \in Nat /\ k - 1 \in Nat /\ (k - 1) + 1 = k
    OBVIOUS
  <2>2. Rank(K, (k - 1) + 1) = Rank(K, k - 1) + 1
    BY <2>1
  <2> QED BY <2>1, <2>2
<1>2. \A j, k \in K : j < k => Rank(K, j) < Rank(K, k)
  <2> TAKE j, k \in K
  <2> HAVE j < k
  <2>1. j \in Nat /\ k - 1 \in Nat /\ k \in Nat /\ j <= k - 1
    BY <1>1
  <2>2. Rank(K, j) <= Rank(K, k - 1)
    BY <2>1
  <2>3. Rank(K, k) = Rank(K, k - 1) + 1
    BY <1>1
  <2>4. Rank(K, j) \in 0..Cardinality(K) /\ Rank(K, k - 1) \in 0..Cardinality(K)
    BY <2>1
  <2> QED BY <2>2, <2>3, <2>4
<1>3. \A k \in K : Rank(K, k) \in 1..Cardinality(K)
  <2> TAKE k \in K
  <2>1. k \in Nat /\ k - 1 \in Nat /\ Rank(K, k) = Rank(K, k - 1) + 1
    BY <1>1
  <2>2. Rank(K, k) \in 0..Cardinality(K) /\ Rank(K, k - 1) \in 0..Cardinality(K) /\ Cardinality(K) \in Nat
    BY <2>1
  <2> QED BY <2>1, <2>2
<1>4. \A r \in 1..Cardinality(K) : \E k \in K : Rank(K, k) = r
  <2> TAKE r \in 1..Cardinality(K)
  <2> DEFINE T == {k \in Nat : Rank(K, k) >= r}
  <2>1. T \in SUBSET Nat /\ n \in T
    OBVIOUS
  <2>2. PICK k \in T : \A y \in T : k <= y
    <3> HIDE DEF T
    <3> QED BY <2>1, Least
  <2>3. k \in Nat /\ Rank(K, k) >= r /\ k # 0 /\ Cardinality(K) \in Nat
    OBVIOUS
  <2>4. k - 1 \in Nat /\ (k - 1) + 1 = k /\ k - 1 \notin T
    BY <2>2, <2>3
  <2>5. ~(Rank(K, k - 1) >= r) /\ Rank(K, k - 1) \in 0..Cardinality(K) /\ Rank(K, k) \in 0..Cardinality(K)
    BY <2>3, <2>4
  <2>6. Rank(K, (k - 1) + 1) = IF (k - 1) + 1 \in K THEN Rank(K, k - 1) + 1 ELSE Rank(K, k - 1)
    BY <2>4
  <2>7. Rank(K, k) = IF k \in K THEN Rank(K, k - 1) + 1 ELSE Rank(K, k - 1)
    BY <2>4, <2>6
  <2> QED BY <2>3, <2>5, <2>7
<1> QED BY <1>2, <1>3, <1>4

(* The positions are those selected, each once and in order.               *)
LEMMA PosIs ==
  ASSUME NEW n \in Nat, NEW K \in SUBSET (1..n)
  PROVE  /\ IsFiniteSet(K) /\ Cardinality(K) \in Nat
         /\ Pos(K) \in [1..Cardinality(K) -> K]
         /\ \A i, j \in 1..Cardinality(K) : i < j => Pos(K)[i] < Pos(K)[j]
         /\ \A k \in K : Rank(K, k) \in 1..Cardinality(K) /\ Pos(K)[Rank(K, k)] = k
<1>0. IsFiniteSet(K) /\ Cardinality(K) \in Nat /\ \A k \in Nat : Rank(K, k) \in 0..Cardinality(K)
  BY RankGrows
<1>1. \A j \in 1..Cardinality(K) : Pos(K)[j] \in K /\ Rank(K, Pos(K)[j]) = j
  BY RankOrders DEF Pos
<1>2. Pos(K) \in [1..Cardinality(K) -> K]
  BY <1>1 DEF Pos
<1>3. \A j, k \in K : Rank(K, j) = Rank(K, k) => j = k
  <2> TAKE j, k \in K
  <2>1. j \in Nat /\ k \in Nat /\ Rank(K, j) \in Int /\ Rank(K, k) \in Int
    BY <1>0
  <2>2. (j < k => Rank(K, j) < Rank(K, k)) /\ (k < j => Rank(K, k) < Rank(K, j))
    BY RankOrders
  <2> QED BY <2>1, <2>2
<1>4. \A k \in K : Rank(K, k) \in 1..Cardinality(K) /\ Pos(K)[Rank(K, k)] = k
  BY <1>1, <1>3, RankOrders
<1>5. ASSUME NEW i \in 1..Cardinality(K), NEW j \in 1..Cardinality(K), i < j
      PROVE  Pos(K)[i] < Pos(K)[j]
  <2>1. Pos(K)[i] \in K /\ Pos(K)[j] \in K
    BY <1>1
  <2>4. Pos(K)[i] \in Nat /\ Pos(K)[j] \in Nat
    <3>1. \A k \in K : k \in Nat
      OBVIOUS
    <3> QED BY <2>1, <3>1
  <2>2. Pos(K)[j] < Pos(K)[i] => j < i
    <3>1. Pos(K)[j] < Pos(K)[i] => Rank(K, Pos(K)[j]) < Rank(K, Pos(K)[i])
      BY <2>1, RankOrders
    <3> QED BY <3>1, <1>1
  <2>3. Pos(K)[j] = Pos(K)[i] => j = i
    BY <1>1
  <2> QED BY <1>5, <2>2, <2>3, <2>4
<1> QED BY <1>0, <1>2, <1>4, <1>5

-----------------------------------------------------------------------------
(* Recursive definitions                                                   *)

(* A walk over the natural numbers: what f has at a number is given where  *)
(* the walk stops, and added to what it has at the next one elsewhere.     *)
Walks(f, Stop, val, add, next) ==
  \A o \in Nat : f[o] = IF o \in Stop THEN val[o] ELSE add[o] + f[next[o]]

(* It goes up, and stops at a limit at the latest.                         *)
Walkable(L, Stop, val, add, next) ==
  /\ L \in Nat /\ \A o \in Nat : o >= L => o \in Stop
  /\ val \in [Nat -> Nat] /\ add \in [Nat -> Nat] /\ next \in [Nat -> Nat]
  /\ \A o \in Nat : o \notin Stop => next[o] > o

(* Such a walk is a function.                                              *)
LEMMA WalkExists ==
  ASSUME NEW L, NEW Stop, NEW val, NEW add, NEW next, Walkable(L, Stop, val, add, next)
  PROVE  \E f \in [Nat -> Nat] : Walks(f, Stop, val, add, next)
<1>0. /\ L \in Nat /\ \A o \in Nat : o >= L => o \in Stop
      /\ val \in [Nat -> Nat] /\ add \in [Nat -> Nat] /\ next \in [Nat -> Nat]
      /\ \A o \in Nat : o \notin Stop => next[o] > o
  BY DEF Walkable
<1> USE <1>0
<1> DEFINE Dom(m) == {o \in Nat : o + m >= L}
           S == {m \in Nat : \E g \in [Dom(m) -> Nat] : \A o \in Dom(m) :
                   g[o] = IF o \in Stop THEN val[o] ELSE add[o] + g[next[o]]}
<1>1. 0 \in S
  <2> DEFINE g == [o \in Dom(0) |-> val[o]]
  <2>1. g \in [Dom(0) -> Nat]
    OBVIOUS
  <2>2. \A o \in Dom(0) : o \in Stop /\ g[o] = val[o]
    OBVIOUS
  <2> QED BY <2>1, <2>2
<1>2. ASSUME NEW m \in Nat, m \in S PROVE m + 1 \in S
  <2>1. PICK g \in [Dom(m) -> Nat] : \A o \in Dom(m) :
          g[o] = IF o \in Stop THEN val[o] ELSE add[o] + g[next[o]]
    BY <1>2
  <2> DEFINE h == [o \in Dom(m + 1) |->
                     IF o \in Dom(m) THEN g[o]
                     ELSE IF o \in Stop THEN val[o] ELSE add[o] + g[next[o]]]
  <2>2. ASSUME NEW o \in Dom(m + 1) PROVE o \in Stop \/ next[o] \in Dom(m)
    <3>1. CASE o \notin Stop
      <4>1. o \in Nat /\ o + (m + 1) >= L /\ next[o] \in Nat /\ next[o] > o
        BY <3>1
      <4>2. next[o] + m >= L
        BY <4>1
      <4> QED BY <4>1, <4>2
    <3> QED BY <3>1
  <2>3. \A o \in Dom(m) : o \in Dom(m + 1)
    OBVIOUS
  <2>4. h \in [Dom(m + 1) -> Nat]
    <3>1. \A o \in Dom(m + 1) :
            (IF o \in Dom(m) THEN g[o] ELSE IF o \in Stop THEN val[o] ELSE add[o] + g[next[o]]) \in Nat
      <4> TAKE o \in Dom(m + 1)
      <4>1. CASE o \in Dom(m)
        BY <4>1
      <4>2. CASE o \notin Dom(m) /\ o \in Stop
        BY <4>2
      <4>3. CASE o \notin Dom(m) /\ o \notin Stop
        <5>1. g[next[o]] \in Nat /\ add[o] \in Nat
          BY <2>2, <4>3
        <5> HIDE DEF Dom
        <5> QED BY <4>3, <5>1
      <4> QED BY <4>1, <4>2, <4>3
    <3> HIDE DEF Dom
    <3> QED BY <3>1
  <2>5. \A o \in Dom(m) : h[o] = g[o]
    BY <2>3
  <2>6. \A o \in Dom(m + 1) : h[o] = IF o \in Stop THEN val[o] ELSE add[o] + h[next[o]]
    <3> TAKE o \in Dom(m + 1)
    <3>1. o \notin Stop => h[next[o]] = g[next[o]]
      BY <2>2, <2>5
    <3>2. h[o] = IF o \in Stop THEN val[o] ELSE add[o] + g[next[o]]
      <4>1. CASE o \in Dom(m)
        <5>1. h[o] = g[o] /\ g[o] = IF o \in Stop THEN val[o] ELSE add[o] + g[next[o]]
          BY <4>1, <2>1, <2>5
        <5> HIDE DEF h, Dom
        <5> QED BY <5>1
      <4>2. CASE o \notin Dom(m)
        <5> HIDE DEF Dom
        <5> QED BY <4>2
      <4> QED BY <4>1, <4>2
    <3> HIDE DEF h, Dom
    <3> QED BY <3>1, <3>2
  <2>7. \E f \in [Dom(m + 1) -> Nat] : \A o \in Dom(m + 1) :
          f[o] = IF o \in Stop THEN val[o] ELSE add[o] + f[next[o]]
    <3> HIDE DEF h, Dom
    <3> QED BY <2>4, <2>6
  <2> HIDE DEF h, Dom
  <2> QED BY <2>7
<1>3. L \in S
  <2> HIDE DEF S
  <2> QED BY <1>1, <1>2, SetInduction
<1>4. Dom(L) = Nat
  OBVIOUS
<1>5. PICK f \in [Dom(L) -> Nat] : \A o \in Dom(L) :
        f[o] = IF o \in Stop THEN val[o] ELSE add[o] + f[next[o]]
  BY <1>3
<1> HIDE DEF Dom
<1> QED BY <1>4, <1>5 DEF Walks

(* What is accumulated along a list is a function too.                     *)
LEMMA FlattenParts ==
  ASSUME NEW S, NEW ss \in Seq(Seq(S))
  PROVE  \E F \in [0..Len(ss) -> Seq(S)] :
           F[0] = <<>> /\ \A i \in 1..Len(ss) : F[i] = F[i - 1] \o ss[i]
<1> DEFINE n == Len(ss)
           Parts(F, m) == F[0] = <<>> /\ \A i \in 1..m : F[i] = F[i - 1] \o ss[i]
           T == {m \in Nat : m <= n => \E F \in [0..m -> Seq(S)] : Parts(F, m)}
<1>0. n \in Nat /\ \A i \in 1..n : ss[i] \in Seq(S)
  BY ElementOfSeq
<1> HIDE DEF n, Parts
<1>1. 0 \in T
  <2> DEFINE F == [i \in 0..0 |-> <<>>]
  <2>1. F \in [0..0 -> Seq(S)]
    BY EmptySeq
  <2>2. Parts(F, 0)
    BY DEF Parts
  <2> QED BY <2>1, <2>2
<1>2. ASSUME NEW m \in Nat, m \in T PROVE m + 1 \in T
  <2> SUFFICES ASSUME m + 1 <= n
               PROVE  \E F \in [0..(m + 1) -> Seq(S)] : Parts(F, m + 1)
    OBVIOUS
  <2>1. PICK F \in [0..m -> Seq(S)] : Parts(F, m)
    BY <1>0, <1>2
  <2> DEFINE H == [i \in 0..(m + 1) |-> IF i = m + 1 THEN F[m] \o ss[m + 1] ELSE F[i]]
  <2>2. F[m] \o ss[m + 1] \in Seq(S)
    <3>1. F[m] \in Seq(S) /\ ss[m + 1] \in Seq(S)
      BY <1>0
    <3> QED BY <3>1, ConcatProperties
  <2>3. \A i \in 0..(m + 1) : i = m + 1 \/ i \in 0..m
    OBVIOUS
  <2>4. H \in [0..(m + 1) -> Seq(S)]
    BY <2>2, <2>3
  <2>5. H[m + 1] = F[m] \o ss[m + 1] /\ \A i \in 0..m : H[i] = F[i]
    OBVIOUS
  <2> HIDE DEF H
  <2>8. F[0] = <<>> /\ \A i \in 1..m : F[i] = F[i - 1] \o ss[i]
    BY <2>1 DEF Parts
  <2>6. ASSUME NEW i \in 1..(m + 1) PROVE H[i] = H[i - 1] \o ss[i]
    <3>1. CASE i = m + 1
      <4>1. i - 1 = m /\ m \in 0..m
        BY <3>1
      <4>2. H[i - 1] = F[m]
        BY <4>1, <2>5
      <4>3. H[i] = F[m] \o ss[i]
        BY <3>1, <2>5
      <4> QED BY <4>2, <4>3
    <3>2. CASE i \in 1..m
      <4>1. i \in 0..m /\ i - 1 \in 0..m
        BY <3>2
      <4>2. F[i] = F[i - 1] \o ss[i]
        BY <3>2, <2>8
      <4>3. H[i] = F[i] /\ H[i - 1] = F[i - 1]
        BY <4>1, <2>5
      <4> QED BY <4>2, <4>3
    <3>3. i = m + 1 \/ i \in 1..m
      OBVIOUS
    <3> QED BY <3>1, <3>2, <3>3
  <2>7. H[0] = <<>>
    BY <2>8, <2>5
  <2>9. Parts(H, m + 1)
    BY <2>6, <2>7 DEF Parts
  <2> QED BY <2>4, <2>9
<1>3. n \in T
  <2> HIDE DEF T
  <2> QED BY <1>0, <1>1, <1>2, SetInduction
<1>4. \E F \in [0..n -> Seq(S)] : Parts(F, n)
  BY <1>0, <1>3
<1> QED BY <1>4 DEF n, Parts

(* FlattenSeq concatenates the parts.                                      *)
LEMMA FlattenIs ==
  ASSUME NEW S, NEW ss \in Seq(Seq(S)), NEW F \in [0..Len(ss) -> Seq(S)], F[0] = <<>>,
         \A i \in 1..Len(ss) : F[i] = F[i - 1] \o ss[i]
  PROVE  FlattenSeq(ss) = F[Len(ss)]
<1> DEFINE n == Len(ss)
           Rec(f) == f = [i \in 1..n |-> IF i = 1 THEN ss[i] ELSE f[i - 1] \o ss[i]]
           f == CHOOSE f : Rec(f)
<1>0. n \in Nat /\ \A i \in 1..n : ss[i] \in Seq(S)
  BY ElementOfSeq
<1>1. CASE n = 0
  <2>1. ss = <<>>
    BY <1>1, EmptySeq
  <2> QED BY <1>1, <2>1 DEF FlattenSeq
<1>2. CASE n # 0
  <2>1. FlattenSeq(ss) = f[n]
    BY <1>2 DEF FlattenSeq
  <2> HIDE DEF n
  <2>2. Rec(f)
    <3> DEFINE g == [i \in 1..n |-> F[i]]
    <3>1. ASSUME NEW i \in 1..n
          PROVE  g[i] = IF i = 1 THEN ss[i] ELSE g[i - 1] \o ss[i]
      <4>1. CASE i = 1
        <5>3. 1 \in 1..n /\ 1 - 1 = 0
          BY <4>1
        <5>4. ss[1] \in Seq(S)
          BY <5>3, <1>0
        <5>5. F[1] = F[1 - 1] \o ss[1]
          BY <5>3 DEF n
        <5>1. ss[1] \in Seq(S) /\ F[1] = F[0] \o ss[1]
          BY <5>3, <5>4, <5>5
        <5>2. F[1] = ss[1]
          BY <5>1, ConcatEmptySeq
        <5> QED BY <4>1, <5>2
      <4>2. CASE i # 1
        <5>1. i - 1 \in 1..n
          BY <4>2, <1>0
        <5>2. F[i] = F[i - 1] \o ss[i]
          BY DEF n
        <5> QED BY <4>2, <5>1, <5>2
      <4> QED BY <4>1, <4>2
    <3>2. g = [i \in 1..n |-> IF i = 1 THEN ss[i] ELSE g[i - 1] \o ss[i]]
      <4>1. g = [i \in 1..n |-> g[i]]
        OBVIOUS
      <4> HIDE DEF g
      <4> QED BY <4>1, <3>1
    <3> HIDE DEF g
    <3>3. Rec(g)
      BY <3>2
    <3> HIDE DEF Rec
    <3> QED BY <3>3
  <2> HIDE DEF f
  <2>3. \A i \in 1..n : f[i] = IF i = 1 THEN ss[i] ELSE f[i - 1] \o ss[i]
    BY <2>2
  <2> DEFINE T == {m \in Nat : m \in 1..n => f[m] = F[m]}
  <2>4. 0 \in T
    OBVIOUS
  <2>5. ASSUME NEW m \in Nat, m \in T PROVE m + 1 \in T
    <3> SUFFICES ASSUME m + 1 \in 1..n PROVE f[m + 1] = F[m + 1]
      OBVIOUS
    <3>1. F[m + 1] = F[m] \o ss[m + 1]
      <4>1. (m + 1) - 1 = m
        OBVIOUS
      <4>2. F[m + 1] = F[(m + 1) - 1] \o ss[m + 1]
        BY DEF n
      <4> QED BY <4>1, <4>2
    <3>2. CASE m = 0
      <4>2. 1 \in 1..n
        BY <3>2
      <4>3. f[1] = ss[1] /\ ss[1] \in Seq(S)
        BY <4>2, <2>3, <1>0
      <4>5. m + 1 = 1 /\ F[m] = <<>>
        BY <3>2
      <4>4. F[1] = <<>> \o ss[1]
        BY <3>1, <4>5
      <4>1. f[1] = ss[1] /\ ss[1] \in Seq(S) /\ F[1] = <<>> \o ss[1]
        BY <4>3, <4>4
      <4> QED BY <4>1, <3>2, ConcatEmptySeq
    <3>3. CASE m # 0
      <4>1. m \in 1..n /\ (m + 1) - 1 = m /\ m + 1 # 1
        BY <3>3, <1>0
      <4>2. f[m + 1] = f[m] \o ss[m + 1]
        BY <4>1, <2>3
      <4>3. f[m] = F[m]
        BY <4>1, <2>5
      <4> QED BY <4>2, <4>3, <3>1
    <3> QED BY <3>2, <3>3
  <2>6. n \in T
    <3> HIDE DEF T
    <3> QED BY <2>4, <2>5, <1>0, SetInduction
  <2>7. f[n] = F[n]
    BY <2>6, <1>2, <1>0
  <2> QED BY <2>1, <2>7 DEF n
<1> QED BY <1>1, <1>2

(* Something that begins at a, within it.                                  *)
LEMMA Within ==
  ASSUME NEW a \in Nat, NEW l \in Nat, NEW j \in 1..l
  PROVE  /\ a + j \in Nat /\ 1 <= a + j /\ a + j <= a + l
         /\ a + j \in 1..(a + l) /\ ~(a + j <= a) /\ (a + j) - a = j
OBVIOUS

(* The parts of a list that was flattened, one after another, each at its  *)
(* offset.                                                                 *)
Blocks(ss, flat, off) ==
  /\ off[0] = 0 /\ off[Len(ss)] = Len(flat)
  /\ \A i \in 1..Len(ss) : off[i] = off[i - 1] + Len(ss[i]) /\ off[i] <= off[Len(ss)]
  /\ \A i \in 1..Len(ss) : \A j \in 1..Len(ss[i]) : flat[off[i - 1] + j] = ss[i][j]
  /\ \A p \in 1..Len(flat) : \E i \in 1..Len(ss) : \E j \in 1..Len(ss[i]) : p = off[i - 1] + j

(* It has the elements of each part, at an offset that is the length of the *)
(* parts before it, and nothing else.                                      *)
LEMMA FlattenBlocks ==
  ASSUME NEW S, NEW ss \in Seq(Seq(S))
  PROVE  /\ FlattenSeq(ss) \in Seq(S)
         /\ \E off \in [0..Len(ss) -> Nat] : Blocks(ss, FlattenSeq(ss), off)
<1>1. PICK F \in [0..Len(ss) -> Seq(S)] :
        F[0] = <<>> /\ \A i \in 1..Len(ss) : F[i] = F[i - 1] \o ss[i]
  BY FlattenParts
<1>2. FlattenSeq(ss) = F[Len(ss)]
  BY <1>1, FlattenIs
<1> DEFINE n == Len(ss)
           off == [i \in 0..n |-> Len(F[i])]
<1>3. n \in Nat /\ \A i \in 1..n : ss[i] \in Seq(S) /\ Len(ss[i]) \in Nat
  BY ElementOfSeq, LenProperties
<1>4. \A i \in 0..n : F[i] \in Seq(S) /\ Len(F[i]) \in Nat
  BY LenProperties
<1>5. \A i \in 1..n : F[i] = F[i - 1] \o ss[i]
  BY <1>1
<1> HIDE DEF n
<1>6. off \in [0..n -> Nat] /\ off[0] = 0 /\ off[n] = Len(F[n])
  BY <1>1, <1>3, <1>4
<1>7. \A i \in 0..n : off[i] = Len(F[i])
  OBVIOUS
<1> HIDE DEF off
<1>8. ASSUME NEW i \in 1..n
      PROVE  /\ i - 1 \in 0..n /\ i \in 0..n /\ off[i] = off[i - 1] + Len(ss[i])
             /\ \A p \in 1..off[i] : F[i][p] = IF p <= off[i - 1] THEN F[i - 1][p]
                                               ELSE ss[i][p - off[i - 1]]
  <2>1. i - 1 \in 0..n /\ i \in 0..n
    BY <1>3
  <2>2. F[i - 1] \in Seq(S) /\ ss[i] \in Seq(S) /\ F[i] = F[i - 1] \o ss[i]
    BY <2>1, <1>3, <1>4, <1>5
  <2>3. off[i - 1] = Len(F[i - 1]) /\ off[i] = Len(F[i])
    BY <2>1, <1>7
  <2>4. /\ Len(F[i - 1] \o ss[i]) = Len(F[i - 1]) + Len(ss[i])
        /\ \A p \in 1..(Len(F[i - 1]) + Len(ss[i])) :
             (F[i - 1] \o ss[i])[p] = IF p <= Len(F[i - 1]) THEN F[i - 1][p]
                                      ELSE ss[i][p - Len(F[i - 1])]
    BY <2>2, ConcatProperties
  <2>5. off[i] = off[i - 1] + Len(ss[i])
    BY <2>2, <2>3, <2>4
  <2>6. \A p \in 1..off[i] : F[i][p] = IF p <= off[i - 1] THEN F[i - 1][p]
                                        ELSE ss[i][p - off[i - 1]]
    BY <2>2, <2>3, <2>4
  <2> QED BY <2>1, <2>5, <2>6
<1> DEFINE Has(m) == /\ \A i \in 1..m : off[i] <= off[m]
                     /\ \A i \in 1..m : \A j \in 1..Len(ss[i]) : F[m][off[i - 1] + j] = ss[i][j]
                     /\ \A p \in 1..off[m] :
                          \E i \in 1..m : \E j \in 1..Len(ss[i]) : p = off[i - 1] + j
           T == {m \in Nat : m <= n => Has(m)}
<1>9. 0 \in T
  BY <1>6
<1>10. ASSUME NEW m \in Nat, m \in T PROVE m + 1 \in T
  <2> SUFFICES ASSUME m + 1 <= n PROVE Has(m + 1)
    OBVIOUS
  <2>1. Has(m)
    BY <1>3, <1>10
  <2>2. m + 1 \in 1..n /\ (m + 1) - 1 = m /\ m \in 0..n /\ m + 1 \in 0..n
    BY <1>3
  <2>3. /\ off[m + 1] = off[m] + Len(ss[m + 1])
        /\ \A p \in 1..off[m + 1] : F[m + 1][p] = IF p <= off[m] THEN F[m][p]
                                                    ELSE ss[m + 1][p - off[m]]
    BY <2>2, <1>8
  <2>4. off[m] \in Nat /\ off[m + 1] \in Nat /\ Len(ss[m + 1]) \in Nat
    BY <2>2, <1>3, <1>6
  <2>5. \A i \in 1..(m + 1) : i = m + 1 \/ i \in 1..m
    OBVIOUS
  <2>6. \A i \in 1..m : i \in 1..n /\ i - 1 \in 0..n /\ i \in 0..n /\ off[i - 1] \in Nat /\ off[i] \in Nat
                          /\ off[i] = off[i - 1] + Len(ss[i]) /\ Len(ss[i]) \in Nat
    <3> TAKE i \in 1..m
    <3>1. i \in 1..n
      BY <1>3
    <3>2. i - 1 \in 0..n /\ i \in 0..n /\ off[i] = off[i - 1] + Len(ss[i])
      BY <3>1, <1>8
    <3> QED BY <3>1, <3>2, <1>3, <1>6
  <2>7. ASSUME NEW i \in 1..(m + 1) PROVE off[i] <= off[m + 1]
    <3>1. CASE i = m + 1
      BY <3>1, <2>4
    <3>2. CASE i \in 1..m
      <4>1. off[i] <= off[m] /\ off[i] \in Nat
        BY <3>2, <2>1, <2>6
      <4> QED BY <4>1, <2>3, <2>4
    <3> QED BY <2>5, <3>1, <3>2
  <2>8. ASSUME NEW i \in 1..(m + 1), NEW j \in 1..Len(ss[i])
        PROVE  F[m + 1][off[i - 1] + j] = ss[i][j]
    <3>1. CASE i = m + 1
      <4>1. j \in 1..Len(ss[m + 1]) /\ i - 1 = m
        BY <3>1
      <4>5. off[m] + j \in 1..(off[m] + Len(ss[m + 1])) /\ ~(off[m] + j <= off[m]) /\ (off[m] + j) - off[m] = j
        BY <4>1, <2>4, Within
      <4>2. off[m] + j \in 1..off[m + 1] /\ ~(off[m] + j <= off[m]) /\ (off[m] + j) - off[m] = j
        BY <4>5, <2>3
      <4>3. F[m + 1][off[m] + j] = ss[m + 1][(off[m] + j) - off[m]]
        BY <4>2, <2>3
      <4>4. F[m + 1][off[m] + j] = ss[m + 1][j]
        BY <4>2, <4>3
      <4> QED BY <3>1, <4>1, <4>4
    <3>2. CASE i \in 1..m
      <4>1. off[i] <= off[m] /\ off[i] = off[i - 1] + Len(ss[i]) /\ off[i - 1] \in Nat /\ Len(ss[i]) \in Nat
        BY <3>2, <2>1, <2>6
      <4>5. off[i - 1] + j \in Nat /\ 1 <= off[i - 1] + j /\ off[i - 1] + j <= off[i - 1] + Len(ss[i])
        BY <4>1, Within
      <4> DEFINE p == off[i - 1] + j
      <4>6. off[m] <= off[m + 1]
        BY <2>3, <2>4
      <4>7. off[i] \in Nat /\ p <= off[i] /\ p \in Nat /\ 1 <= p
        BY <4>1, <4>5
      <4>8. p \in 1..off[m + 1] /\ p <= off[m]
        <5>1. off[i] <= off[m]
          BY <4>1
        <5> HIDE DEF p
        <5> QED BY <5>1, <4>6, <4>7, <2>4
      <4>2. off[i - 1] + j \in 1..off[m + 1] /\ off[i - 1] + j <= off[m]
        BY <4>8
      <4>3. F[m + 1][off[i - 1] + j] = F[m][off[i - 1] + j]
        BY <4>2, <2>3
      <4>4. F[m][off[i - 1] + j] = ss[i][j]
        BY <3>2, <2>1
      <4> QED BY <4>3, <4>4
    <3> QED BY <2>5, <3>1, <3>2
  <2>9. ASSUME NEW p \in 1..off[m + 1]
        PROVE  \E i \in 1..(m + 1) : \E j \in 1..Len(ss[i]) : p = off[i - 1] + j
    <3>1. CASE p <= off[m]
      <4>1. p \in 1..off[m]
        BY <3>1, <2>4
      <4>2. PICK i \in 1..m : \E j \in 1..Len(ss[i]) : p = off[i - 1] + j
        BY <4>1, <2>1
      <4>3. i \in 1..(m + 1)
        OBVIOUS
      <4> QED BY <4>2, <4>3
    <3>2. CASE ~(p <= off[m])
      <4>1. p - off[m] \in 1..Len(ss[m + 1]) /\ p = off[m] + (p - off[m])
        BY <3>2, <2>3, <2>4
      <4>2. m + 1 \in 1..(m + 1) /\ p = off[(m + 1) - 1] + (p - off[m])
        BY <4>1, <2>2
      <4> QED BY <4>1, <4>2
    <3> QED BY <3>1, <3>2
  <2> QED BY <2>7, <2>8, <2>9
<1>11. Has(n)
  <2>1. n \in T
    <3> HIDE DEF T
    <3> QED BY <1>3, <1>9, <1>10, SetInduction
  <2> QED BY <2>1, <1>3
<1>12. FlattenSeq(ss) = F[n] /\ F[n] \in Seq(S) /\ off[n] = Len(F[n])
  BY <1>2, <1>3, <1>4, <1>6 DEF n
<1>13. \A i \in 1..n : off[i] = off[i - 1] + Len(ss[i]) /\ off[i] <= off[n]
  BY <1>8, <1>11
<1> HIDE DEF Has
<1>14. /\ \A i \in 1..n : \A j \in 1..Len(ss[i]) : F[n][off[i - 1] + j] = ss[i][j]
       /\ \A p \in 1..off[n] : \E i \in 1..n : \E j \in 1..Len(ss[i]) : p = off[i - 1] + j
  BY <1>11 DEF Has
<1>15. Blocks(ss, F[n], off)
  BY <1>6, <1>12, <1>13, <1>14 DEF n, Blocks
<1>16. off \in [0..Len(ss) -> Nat]
  BY <1>6 DEF n
<1> QED BY <1>12, <1>15, <1>16

(* Its elements are those of the parts.                                    *)
LEMMA FlattenElements ==
  ASSUME NEW S, NEW ss \in Seq(Seq(S))
  PROVE  \A x : x \in ToSet(FlattenSeq(ss)) <=>
                \E i \in 1..Len(ss) : \E j \in 1..Len(ss[i]) : x = ss[i][j]
<1>1. FlattenSeq(ss) \in Seq(S)
  BY FlattenBlocks
<1>2. PICK off \in [0..Len(ss) -> Nat] : Blocks(ss, FlattenSeq(ss), off)
  BY FlattenBlocks
<1> DEFINE flat == FlattenSeq(ss)
<1> HIDE DEF flat
<1>3. DOMAIN flat = 1..Len(flat) /\ Len(flat) \in Nat
  BY <1>1, LenProperties DEF flat
<1>4. /\ \A i \in 1..Len(ss) : \A j \in 1..Len(ss[i]) : flat[off[i - 1] + j] = ss[i][j]
      /\ \A p \in 1..Len(flat) : \E i \in 1..Len(ss) : \E j \in 1..Len(ss[i]) : p = off[i - 1] + j
  BY <1>2 DEF Blocks, flat
<1>5. ASSUME NEW i \in 1..Len(ss), NEW j \in 1..Len(ss[i])
      PROVE  off[i - 1] + j \in 1..Len(flat)
  <2>1. off[i] = off[i - 1] + Len(ss[i]) /\ off[i] <= Len(flat)
    BY <1>2 DEF Blocks, flat
  <2>2. Len(ss) \in Nat /\ ss[i] \in Seq(S)
    BY ElementOfSeq, LenProperties
  <2>3. i - 1 \in 0..Len(ss)
    BY <2>2
  <2>4. off[i - 1] \in Nat /\ Len(ss[i]) \in Nat
    BY <2>2, <2>3, LenProperties
  <2>5. off[i - 1] + j \in Nat /\ 1 <= off[i - 1] + j /\ off[i - 1] + j <= off[i - 1] + Len(ss[i])
    BY <2>4, Within
  <2> DEFINE p == off[i - 1] + j
  <2>6. p \in Nat /\ 1 <= p /\ p <= off[i] /\ off[i] \in Nat
    BY <2>1, <2>4, <2>5
  <2>7. p \in 1..Len(flat)
    <3> HIDE DEF p
    <3> QED BY <2>1, <2>6, <1>3
  <2> QED BY <2>7
<1>6. ASSUME NEW x, x \in ToSet(flat)
      PROVE  \E i \in 1..Len(ss) : \E j \in 1..Len(ss[i]) : x = ss[i][j]
  <2>1. PICK p \in 1..Len(flat) : x = flat[p]
    BY <1>3, <1>6 DEF ToSet
  <2>2. PICK i \in 1..Len(ss) : \E j \in 1..Len(ss[i]) : p = off[i - 1] + j
    BY <1>4
  <2>3. PICK j \in 1..Len(ss[i]) : p = off[i - 1] + j
    BY <2>2
  <2>4. flat[off[i - 1] + j] = ss[i][j]
    BY <1>4
  <2> QED BY <2>1, <2>3, <2>4
<1>7. ASSUME NEW x, NEW i \in 1..Len(ss), NEW j \in 1..Len(ss[i]), x = ss[i][j]
      PROVE  x \in ToSet(flat)
  <2>1. off[i - 1] + j \in DOMAIN flat
    BY <1>3, <1>5
  <2>2. flat[off[i - 1] + j] = x
    BY <1>4, <1>7
  <2> QED BY <2>1, <2>2 DEF ToSet
<1> QED BY <1>6, <1>7 DEF flat

-----------------------------------------------------------------------------
(* The length of the report descriptor                                     *)

(* What findHIDReportDescriptorLen walks over.                             *)
HidWalk(extra, walk) ==
  walk = [off \in Nat |->
            IF off + 2 > Len(extra) THEN 0
            ELSE LET n == extra[off + 1] IN
                 IF n < 2 \/ off + n > Len(extra) THEN 0
                 ELSE IF extra[off + 2] = 33 /\ n >= 9 THEN extra[off + 8] + 256 * extra[off + 9]
                 ELSE walk[off + n]]

(* Over any bytes, the walk ends.                                          *)
LEMMA HidWalkExists ==
  ASSUME NEW extra \in Seq(Byte)
  PROVE  \E walk : HidWalk(extra, walk)
<1> DEFINE L == Len(extra)
           Cut == {o \in Nat : o + 2 > L \/ extra[o + 1] < 2 \/ o + extra[o + 1] > L}
           Found == {o \in Nat : o \notin Cut /\ extra[o + 2] = 33 /\ extra[o + 1] >= 9}
           val == [o \in Nat |-> IF o \in Found THEN extra[o + 8] + 256 * extra[o + 9] ELSE 0]
           add == [o \in Nat |-> 0]
           next == [o \in Nat |-> IF o \in Cut THEN 0 ELSE o + extra[o + 1]]
           Stop == Cut \cup Found
<1>0. L \in Nat /\ \A p \in 1..L : extra[p] \in Nat
  <2>1. \A p \in 1..L : extra[p] \in Byte
    BY ElementOfSeq
  <2>2. L \in Nat
    BY LenProperties
  <2> HIDE DEF L
  <2>3. \A p \in 1..L : extra[p] \in Nat
    BY <2>1, ByteNat
  <2> QED BY <2>2, <2>3
<1> HIDE DEF L
<1>1. \A o \in Nat : o >= L => o \in Stop
  BY <1>0
<1>2. ASSUME NEW o \in Nat, o \notin Cut
      PROVE  o + 1 \in 1..L /\ extra[o + 1] \in Nat /\ extra[o + 1] >= 2 /\ o + extra[o + 1] <= L
  <2>1. ~(o + 2 > L) /\ ~(extra[o + 1] < 2) /\ ~(o + extra[o + 1] > L)
    BY <1>2
  <2>2. o + 1 \in 1..L
    BY <2>1, <1>0
  <2>3. extra[o + 1] \in Nat
    BY <2>2, <1>0
  <2> QED BY <2>1, <2>2, <2>3, <1>0
<1>3. ASSUME NEW o \in Found
      PROVE  extra[o + 8] + 256 * extra[o + 9] \in Nat
  <2>1. o \in Nat /\ o \notin Cut /\ extra[o + 1] >= 9
    OBVIOUS
  <2>2. extra[o + 1] \in Nat /\ o + extra[o + 1] <= L
    BY <2>1, <1>2
  <2>3. o + 8 \in 1..L /\ o + 9 \in 1..L
    BY <2>1, <2>2, <1>0
  <2>4. extra[o + 8] \in Nat /\ extra[o + 9] \in Nat
    BY <2>3, <1>0
  <2> QED BY <2>4
<1>4. \A o \in Nat : o \notin Stop => next[o] \in Nat /\ next[o] > o /\ next[o] = o + extra[o + 1]
  <2> TAKE o \in Nat
  <2> HAVE o \notin Stop
  <2>1. next[o] = o + extra[o + 1] /\ extra[o + 1] \in Nat /\ extra[o + 1] >= 2
    BY <1>2
  <2> QED BY <2>1
<1>5. val \in [Nat -> Nat] /\ add \in [Nat -> Nat] /\ next \in [Nat -> Nat]
  <2>1. \A o \in Nat : (IF o \in Found THEN extra[o + 8] + 256 * extra[o + 9] ELSE 0) \in Nat
    BY <1>3
  <2>2. \A o \in Nat : (IF o \in Cut THEN 0 ELSE o + extra[o + 1]) \in Nat
    BY <1>2
  <2> HIDE DEF Cut, Found
  <2> QED BY <2>1, <2>2
<1>6. PICK f \in [Nat -> Nat] : Walks(f, Stop, val, add, next)
  <2>1. L \in Nat /\ \A o \in Nat : o \notin Stop => next[o] > o
    BY <1>0, <1>4
  <2> HIDE DEF Stop, val, add, next
  <2>2. Walkable(L, Stop, val, add, next)
    BY <2>1, <1>1, <1>5 DEF Walkable
  <2> QED BY <2>2, WalkExists
<1>7. \A o \in Nat : f[o] = IF o \in Stop THEN val[o] ELSE f[next[o]]
  <2> TAKE o \in Nat
  <2>1. f[o] = IF o \in Stop THEN val[o] ELSE add[o] + f[next[o]]
    <3> HIDE DEF Stop, val, add, next
    <3> QED BY <1>6 DEF Walks
  <2>2. add[o] = 0 /\ next[o] \in Nat
    <3> HIDE DEF Stop, Cut, val
    <3> QED BY <1>5
  <2>3. f[next[o]] \in Nat
    <3> HIDE DEF next
    <3> QED BY <2>2
  <2>4. add[o] + f[next[o]] = f[next[o]]
    <3> HIDE DEF next
    <3> QED BY <2>2, <2>3
  <2> HIDE DEF Stop, val, add, next
  <2> QED BY <2>1, <2>4
<1> DEFINE Body(o) == IF o + 2 > Len(extra) THEN 0
                      ELSE LET n == extra[o + 1] IN
                           IF n < 2 \/ o + n > Len(extra) THEN 0
                           ELSE IF extra[o + 2] = 33 /\ n >= 9 THEN extra[o + 8] + 256 * extra[o + 9]
                           ELSE f[o + n]
<1>8. ASSUME NEW o \in Nat PROVE f[o] = Body(o)
  <2>1. CASE o \in Cut
    <3>1. f[o] = 0
      BY <2>1, <1>7
    <3>2. o + 2 > L \/ extra[o + 1] < 2 \/ o + extra[o + 1] > L
      BY <2>1
    <3> QED BY <3>1, <3>2 DEF L
  <2>2. CASE o \in Found
    <3>1. f[o] = extra[o + 8] + 256 * extra[o + 9]
      <4>1. f[o] = val[o]
        BY <2>2, <1>7
      <4>2. val[o] = extra[o + 8] + 256 * extra[o + 9]
        <5> HIDE DEF Found
        <5> QED BY <2>2
      <4> QED BY <4>1, <4>2
    <3>2. ~(o + 2 > L \/ extra[o + 1] < 2 \/ o + extra[o + 1] > L) /\ extra[o + 2] = 33 /\ extra[o + 1] >= 9
      BY <2>2
    <3> HIDE DEF val, Cut, Found, Stop
    <3> QED BY <3>1, <3>2 DEF L
  <2>3. CASE o \notin Stop
    <3>1. f[o] = f[o + extra[o + 1]]
      <4>1. f[o] = f[next[o]]
        <5> HIDE DEF Stop, next
        <5> QED BY <2>3, <1>7
      <4> QED BY <2>3, <4>1, <1>4
    <3>2. ~(o + 2 > L \/ extra[o + 1] < 2 \/ o + extra[o + 1] > L) /\ ~(extra[o + 2] = 33 /\ extra[o + 1] >= 9)
      BY <2>3
    <3> HIDE DEF val, Cut, Found, Stop
    <3> QED BY <3>1, <3>2 DEF L
  <2> QED BY <2>1, <2>2, <2>3
<1>9. DOMAIN f = Nat
  OBVIOUS
<1>10. f = [o \in Nat |-> Body(o)]
  <2> HIDE DEF Body
  <2> QED BY <1>8, <1>9
<1>11. HidWalk(extra, f)
  BY <1>10 DEF HidWalk
<1> QED BY <1>11

(* Over any bytes, it finds the first whole HID descriptor, if there is    *)
(* one, and ends where they are cut short.                                 *)
LEMMA FindsHidDesc ==
  ASSUME NEW extra \in Seq(Seq(Byte)),
         \A k \in DOMAIN extra :
           IsDescriptor(extra[k]) \/ (k = Len(extra) /\ IsCutShort(extra[k]))
  PROVE  findHIDReportDescriptorLen(FlattenSeq(extra)) = DeclaredLen(extra)
<1> DEFINE flat == FlattenSeq(extra)
           walk == CHOOSE walk : HidWalk(flat, walk)
           n == Len(extra)
           hid == {k \in DOMAIN extra : IsHidDesc(extra[k])}
<1>0. findHIDReportDescriptorLen(flat) = walk[0]
  BY DEF findHIDReportDescriptorLen, HidWalk
<1>1. flat \in Seq(Byte) /\ \E off \in [0..n -> Nat] : Blocks(extra, flat, off)
  BY FlattenBlocks
<1>2. PICK off \in [0..n -> Nat] : Blocks(extra, flat, off)
  BY <1>1
<1>3. HidWalk(flat, walk)
  BY <1>1, HidWalkExists
<1>4. n \in Nat /\ DOMAIN extra = 1..n
  BY LenProperties
<1>15. hid = {k \in 1..n : IsHidDesc(extra[k])}
  BY <1>4
<1>16. \A k \in 1..n : /\ extra[k] \in Seq(Byte)
                       /\ IsDescriptor(extra[k]) \/ (k = n /\ IsCutShort(extra[k]))
  <2> TAKE k \in 1..n
  <2>1. k \in DOMAIN extra
    BY <1>4
  <2>2. extra[k] \in Seq(Byte)
    BY ElementOfSeq
  <2> QED BY <2>1, <2>2
<1> HIDE DEF flat, walk, n, hid
<1>5. \A o \in Nat : walk[o] =
        IF o + 2 > Len(flat) THEN 0
        ELSE LET m == flat[o + 1] IN
             IF m < 2 \/ o + m > Len(flat) THEN 0
             ELSE IF flat[o + 2] = 33 /\ m >= 9 THEN flat[o + 8] + 256 * flat[o + 9]
             ELSE walk[o + m]
  BY <1>3 DEF HidWalk
<1>17. Len(flat) \in Nat
  BY <1>1, LenProperties
<1>18. \A k \in 1..n : /\ off[k - 1] \in Nat /\ off[k] \in Nat /\ off[k] = off[k - 1] + Len(extra[k])
                       /\ off[k] <= Len(flat)
                       /\ \A j \in 1..Len(extra[k]) : flat[off[k - 1] + j] = extra[k][j]
  <2> TAKE k \in 1..n
  <2>1. k \in 0..n /\ k - 1 \in 0..n
    BY <1>4
  <2>2. off[k - 1] \in Nat /\ off[k] \in Nat
    BY <2>1 DEF n
  <2> QED BY <1>2, <2>2 DEF Blocks, n
<1>19. off[0] = 0 /\ off[n] = Len(flat)
  BY <1>2 DEF Blocks, n
<1> DEFINE Value(k) == extra[k][8] + 256 * extra[k][9]
<1>6. ASSUME NEW k \in 1..n, IsDescriptor(extra[k])
      PROVE  walk[off[k - 1]] = IF IsHidDesc(extra[k]) THEN Value(k) ELSE walk[off[k]]
  <2> DEFINE d == extra[k]
             o == off[k - 1]
  <2>1. d \in Seq(Byte) /\ Len(d) >= 2 /\ d[1] = Len(d) /\ Len(d) \in Nat
    <3>1. d \in Seq(Byte) /\ IsDescriptor(d)
      BY <1>6, <1>16
    <3> HIDE DEF d
    <3> QED BY <3>1, LenProperties DEF IsDescriptor
  <2>2. o \in Nat /\ off[k] \in Nat
    BY <1>18
  <2>3. off[k] = o + Len(d) /\ off[k] <= Len(flat) /\ \A j \in 1..Len(d) : flat[o + j] = d[j]
    BY <1>18
  <2>10. IsDescriptor(d)
    BY <1>6
  <2> HIDE DEF d, o
  <2>5. flat[o + 1] = Len(d) /\ flat[o + 2] = d[2]
    <3>1. 1 \in 1..Len(d) /\ 2 \in 1..Len(d)
      BY <2>1
    <3> QED BY <3>1, <2>1, <2>3
  <2>6. ~(o + 2 > Len(flat)) /\ ~(Len(d) < 2 \/ o + Len(d) > Len(flat))
    BY <2>1, <2>2, <2>3, <1>17
  <2>7. walk[o] = IF d[2] = 33 /\ Len(d) >= 9 THEN flat[o + 8] + 256 * flat[o + 9] ELSE walk[o + Len(d)]
    <3>1. walk[o] =
            IF o + 2 > Len(flat) THEN 0
            ELSE LET m == flat[o + 1] IN
                 IF m < 2 \/ o + m > Len(flat) THEN 0
                 ELSE IF flat[o + 2] = 33 /\ m >= 9 THEN flat[o + 8] + 256 * flat[o + 9]
                 ELSE walk[o + m]
      BY <2>2, <1>5
    <3> QED BY <3>1, <2>5, <2>6
  <2>8. CASE IsHidDesc(d)
    <3>1. d[2] = 33 /\ Len(d) >= 9
      BY <2>8 DEF IsHidDesc
    <3>2. 8 \in 1..Len(d) /\ 9 \in 1..Len(d)
      BY <3>1, <2>1
    <3>3. flat[o + 8] = d[8] /\ flat[o + 9] = d[9]
      BY <3>2, <2>3
    <3> QED BY <2>7, <2>8, <3>1, <3>3 DEF d, o
  <2>9. CASE ~IsHidDesc(d)
    <3>1. ~(d[2] = 33 /\ Len(d) >= 9)
      BY <2>9, <2>10 DEF IsHidDesc
    <3>2. walk[o] = walk[off[k]]
      BY <3>1, <2>3, <2>7
    <3> QED BY <2>9, <3>2 DEF d, o
  <2> QED BY <2>8, <2>9
<1>7. ASSUME NEW k \in 1..n, k = n, IsCutShort(extra[k]) PROVE walk[off[k - 1]] = 0
  <2> DEFINE d == extra[k]
             o == off[k - 1]
  <2>1. d \in Seq(Byte) /\ Len(d) \in Nat
    BY <1>16, LenProperties
  <2>2. o \in Nat /\ Len(flat) = o + Len(d) /\ \A j \in 1..Len(d) : flat[o + j] = d[j]
    BY <1>7, <1>18, <1>19
  <2>3. Len(d) < 2 \/ d[1] < 2 \/ d[1] > Len(d)
    BY <1>7 DEF IsCutShort
  <2>4. ASSUME ~(Len(d) < 2) PROVE flat[o + 1] = d[1] /\ d[1] \in Nat
    <3> HIDE DEF d, o
    <3>1. 1 \in 1..Len(d)
      BY <2>1, <2>4
    <3>2. d[1] \in Byte
      BY <3>1, <2>1, ElementOfSeq
    <3> QED BY <3>1, <3>2, <2>2, ByteNat
  <2>5. walk[o] =
          IF o + 2 > Len(flat) THEN 0
          ELSE LET m == flat[o + 1] IN
               IF m < 2 \/ o + m > Len(flat) THEN 0
               ELSE IF flat[o + 2] = 33 /\ m >= 9 THEN flat[o + 8] + 256 * flat[o + 9]
               ELSE walk[o + m]
    BY <2>2, <1>5
  <2> HIDE DEF d, o
  <2>6. CASE Len(d) < 2
    <3>1. o + 2 > Len(flat)
      BY <2>1, <2>2, <2>6
    <3> QED BY <2>5, <3>1 DEF o
  <2>7. CASE ~(Len(d) < 2)
    <3>1. flat[o + 1] < 2 \/ o + flat[o + 1] > Len(flat)
      BY <2>1, <2>2, <2>3, <2>4, <2>7
    <3> QED BY <2>5, <3>1 DEF o
  <2> QED BY <2>6, <2>7
<1> HIDE DEF Value
<1>8. ASSUME NEW m \in 0..n, NEW v, walk[off[m]] = v,
             \A k \in 1..m : ~IsHidDesc(extra[k]),
             \A k \in 1..m : IsDescriptor(extra[k]) \/ v = 0
      PROVE  walk[0] = v
  <2> DEFINE T == {j \in Nat : j <= m => walk[off[m - j]] = v}
  <2>0. m \in Nat /\ m <= n
    BY <1>4
  <2>1. 0 \in T
    <3>1. m - 0 = m
      BY <2>0
    <3> QED BY <3>1, <1>8
  <2>2. ASSUME NEW j \in Nat, j \in T PROVE j + 1 \in T
    <3> SUFFICES ASSUME j + 1 <= m PROVE walk[off[m - (j + 1)]] = v
      OBVIOUS
    <3> DEFINE k == m - j
    <3>1. k \in 1..m /\ m - (j + 1) = k - 1 /\ j <= m
      BY <2>0
    <3>2. walk[off[k]] = v
      BY <3>1, <2>2
    <3> HIDE DEF k
    <3>6. k \in 1..n
      BY <3>1, <2>0, <1>4
    <3>3. k \in 1..n /\ ~IsHidDesc(extra[k])
      BY <3>1, <3>6, <1>8
    <3>4. CASE IsDescriptor(extra[k])
      BY <3>1, <3>2, <3>3, <3>4, <1>6
    <3>5. CASE ~IsDescriptor(extra[k])
      <4>1. k = n /\ IsCutShort(extra[k]) /\ v = 0
        BY <3>1, <3>3, <3>5, <1>8, <1>16
      <4>2. walk[off[k - 1]] = 0
        BY <3>3, <4>1, <1>7
      <4> QED BY <3>1, <4>1, <4>2
    <3> QED BY <3>4, <3>5
  <2> HIDE DEF T
  <2>3. m \in T
    BY <2>0, <2>1, <2>2, SetInduction
  <2>4. walk[off[m - m]] = v
    BY <2>0, <2>3 DEF T
  <2>5. m - m = 0
    BY <2>0
  <2> QED BY <2>4, <2>5, <1>19
<1>9. CASE hid = {}
  <2>1. \A k \in 1..n : ~IsHidDesc(extra[k])
    BY <1>9, <1>15
  <2>2. walk[off[n]] = 0
    <3> DEFINE o == off[n]
    <3>1. o + 2 > Len(flat) /\ o \in Nat
      BY <1>17, <1>19
    <3> HIDE DEF o
    <3>2. walk[o] =
            IF o + 2 > Len(flat) THEN 0
            ELSE LET m == flat[o + 1] IN
                 IF m < 2 \/ o + m > Len(flat) THEN 0
                 ELSE IF flat[o + 2] = 33 /\ m >= 9 THEN flat[o + 8] + 256 * flat[o + 9]
                 ELSE walk[o + m]
      BY <3>1, <1>5
    <3> QED BY <3>1, <3>2 DEF o
  <2>3. n \in 0..n
    BY <1>4
  <2>4. walk[0] = 0
    BY <2>1, <2>2, <2>3, <1>8
  <2>5. DeclaredLen(extra) = 0
    BY <1>9 DEF DeclaredLen, hid
  <2> QED BY <2>4, <2>5, <1>0 DEF flat
<1>10. CASE hid # {}
  <2> DEFINE h == Min(hid)
  <2>1. h \in hid /\ \A y \in hid : h <= y
    <3>1. hid \in SUBSET Nat
      BY <1>15, <1>4
    <3>2. \E x \in hid : \A y \in hid : x <= y
      BY <3>1, <1>10, Least
    <3> QED BY <3>2 DEF Min
  <2>6. DeclaredLen(extra) = Value(h)
    BY <1>10 DEF DeclaredLen, hid, Value
  <2> HIDE DEF h
  <2>2. h \in 1..n /\ IsHidDesc(extra[h]) /\ h - 1 \in 0..n
    BY <2>1, <1>4, <1>15
  <2>3. \A k \in 1..(h - 1) : /\ k \in 1..n /\ ~IsHidDesc(extra[k])
                              /\ IsDescriptor(extra[k])
    <3> TAKE k \in 1..(h - 1)
    <3>1. k \in 1..n /\ k < h /\ k # n
      BY <2>2, <1>4
    <3>2. k \notin hid
      BY <3>1, <2>1, <2>2
    <3> QED BY <3>1, <3>2, <1>15, <1>16
  <2>4. walk[off[h - 1]] = Value(h)
    <3>1. IsDescriptor(extra[h])
      BY <2>2 DEF IsHidDesc
    <3> QED BY <2>2, <3>1, <1>6
  <2>5. walk[0] = Value(h)
    BY <2>2, <2>3, <2>4, <1>8
  <2> QED BY <2>5, <2>6, <1>0 DEF flat
<1> QED BY <1>9, <1>10

-----------------------------------------------------------------------------
(* The list of interfaces                                                  *)

Endpoint == [addr : Byte, size : Word]

Extra == HidExtra \cup {<<>>}

Setting ==
  [num : IfaceNum, alt : Byte, class : {3, 8}, eps : Seq(Endpoint), str : String,
   extra : Extra, report : Seq(Byte)]

(* The numbers of a setting are numbers, and its endpoints a list.         *)
LEMMA SettingFields ==
  ASSUME NEW i \in Setting
  PROVE  /\ i.num \in IfaceNum /\ i.num \in Nat /\ i.alt \in Nat /\ i.class \in {3, 8}
         /\ i.alt \in Byte /\ i.num \in Byte
         /\ i.eps \in Seq(Endpoint) /\ i.str \in String /\ i.extra \in Extra
<1>1. IfaceNum \subseteq Byte
  BY InterfacesAssumption DEF InterfacesAssumption
<1>2. i.num \in IfaceNum /\ i.alt \in Byte /\ i.class \in {3, 8}
  BY DEF Setting
<1>3. i.eps \in Seq(Endpoint) /\ i.str \in String /\ i.extra \in Extra
  BY DEF Setting
<1>4. i.num \in Byte
  BY <1>1, <1>2
<1>5. i.num \in Nat /\ i.alt \in Nat
  BY <1>2, <1>4 DEF Byte
<1> QED BY <1>2, <1>3, <1>4, <1>5

(* The order of the settings: by interface, and then by number.            *)
Before(i, j) ==
  \/ i.num < j.num
  \/ i.num = j.num /\ i.class = j.class /\ i.alt < j.alt

(* What a setting has is what the device may give it.                      *)
Given(i) ==
  /\ i.eps \in EndpointsOf[i.num] /\ i.str \in Names
  /\ i.extra \in (IF i.class = 3 THEN HidExtra ELSE {<<>>})
  /\ i.report \in ReportDescriptors(i.extra)

(* The settings come in order, and an interface that has any has the first. *)
ListInv ==
  /\ ifaces \in Seq(Setting)
  /\ Len(ifaces) <= MaxAlts
  /\ \A k \in DOMAIN ifaces : Given(ifaces[k])
  /\ \A j, k \in DOMAIN ifaces : j < k => Before(ifaces[j], ifaces[k])
  /\ \A k \in DOMAIN ifaces : \E j \in DOMAIN ifaces :
       ifaces[j].num = ifaces[k].num /\ ifaces[j].class = ifaces[k].class /\ ifaces[j].alt = 0

(* What is read as a report descriptor is bytes.                           *)
LEMMA ReportBytes ==
  ASSUME NEW extra, NEW report \in ReportDescriptors(extra)
  PROVE  report \in Seq(Byte) /\ Len(report) <= findHIDReportDescriptorLen(FlattenSeq(extra))
<1>1. <<>> \in Seq(Byte) /\ Reports \subseteq Seq(Byte)
  BY EmptySeq, InterfacesAssumption DEF InterfacesAssumption
<1> QED BY <1>1 DEF ReportDescriptors

(* A setting that comes after the last, and that is the first of its       *)
(* interface or one of an interface that has one, keeps the list in order. *)
LEMMA ListAppend ==
  ASSUME ListInv, Len(ifaces) < MaxAlts,
         NEW i \in Setting, Given(i), ifaces' = Append(ifaces, i),
         ifaces # <<>> => Before(Last(ifaces), i),
         \/ i.alt = 0
         \/ /\ ifaces # <<>> /\ Last(ifaces).num = i.num
            /\ Last(ifaces).class = i.class
  PROVE  ListInv'
<1> DEFINE n == Len(ifaces)
<1>0. n \in Nat /\ ifaces \in Seq(Setting) /\ DOMAIN ifaces = 1..n
  BY LenProperties DEF ListInv
<1>1. /\ ifaces' \in Seq(Setting)
      /\ Len(ifaces') = n + 1
      /\ \A k \in 1..n : ifaces'[k] = ifaces[k]
      /\ ifaces'[n + 1] = i
  BY <1>0, AppendProperties
<1>2. DOMAIN ifaces' = 1..(n + 1)
  BY <1>1, LenProperties
<1>3. \A k \in 1..(n + 1) : k \in 1..n \/ k = n + 1
  BY <1>0
<1>4. Len(ifaces') <= MaxAlts
  <2>1. MaxAlts \in Nat
    BY InterfacesAssumption DEF InterfacesAssumption
  <2> QED BY <1>0, <1>1, <2>1
<1>5. \A k \in DOMAIN ifaces' : Given(ifaces'[k])
  BY <1>0, <1>1, <1>2, <1>3 DEF ListInv
<1>6. ASSUME NEW j \in 1..n PROVE Before(ifaces[j], i)
  <2>1. ifaces # <<>> /\ n \in 1..n /\ Last(ifaces) = ifaces[n]
    BY <1>0 DEF Last
  <2>2. Before(ifaces[n], i)
    BY <2>1
  <2>3. j = n \/ Before(ifaces[j], ifaces[n])
    <3>1. \A a, b \in 1..n : a < b => Before(ifaces[a], ifaces[b])
      BY <1>0 DEF ListInv
    <3>0. n \in Nat
      BY <1>0
    <3> HIDE DEF n
    <3>2. j = n \/ j < n
      BY <3>0
    <3> QED BY <2>1, <3>1, <3>2
  <2>4. ifaces[j].num \in Nat /\ ifaces[j].alt \in Nat /\ ifaces[n].num \in Nat /\ ifaces[n].alt \in Nat
    <3>1. ifaces[j] \in Setting /\ ifaces[n] \in Setting
      BY <1>0, <2>1, ElementOfSeq
    <3> QED BY <3>1, SettingFields
  <2>5. i.num \in Nat /\ i.alt \in Nat
    BY SettingFields
  <2> QED BY <2>1, <2>2, <2>3, <2>4, <2>5 DEF Before
<1>7. ASSUME NEW j \in DOMAIN ifaces', NEW k \in DOMAIN ifaces', j < k
      PROVE  Before(ifaces'[j], ifaces'[k])
  <2>1. j \in 1..n
    BY <1>0, <1>2, <1>7
  <2>2. CASE k \in 1..n
    BY <2>1, <2>2, <1>0, <1>1, <1>7 DEF ListInv
  <2>3. CASE k = n + 1
    BY <2>1, <2>3, <1>1, <1>6
  <2> QED BY <1>2, <1>3, <2>2, <2>3
<1>8. ASSUME NEW k \in DOMAIN ifaces'
      PROVE  \E j \in DOMAIN ifaces' : /\ ifaces'[j].num = ifaces'[k].num
                                       /\ ifaces'[j].class = ifaces'[k].class
                                       /\ ifaces'[j].alt = 0
  <2>1. \A m \in 1..n : \E j \in 1..n :
          ifaces[j].num = ifaces[m].num /\ ifaces[j].class = ifaces[m].class /\ ifaces[j].alt = 0
    BY <1>0 DEF ListInv
  <2>2. CASE k \in 1..n
    <3>1. PICK j \in 1..n : /\ ifaces[j].num = ifaces[k].num /\ ifaces[j].class = ifaces[k].class
                            /\ ifaces[j].alt = 0
      BY <2>1, <2>2
    <3>2. j \in 1..(n + 1) /\ ifaces'[j] = ifaces[j] /\ ifaces'[k] = ifaces[k]
      BY <2>2, <1>0, <1>1
    <3> QED BY <3>1, <3>2, <1>2
  <2>3. CASE k = n + 1 /\ i.alt = 0
    <3>1. n + 1 \in 1..(n + 1) /\ ifaces'[n + 1] = i
      BY <1>0, <1>1
    <3>2. k \in DOMAIN ifaces' /\ ifaces'[k].alt = 0
      BY <2>3, <3>1
    <3> QED BY <3>2
  <2>4. CASE k = n + 1 /\ i.alt # 0
    <3>1. n \in 1..n /\ Last(ifaces) = ifaces[n] /\ Last(ifaces).num = i.num /\ Last(ifaces).class = i.class
      BY <2>4, <1>0, EmptySeq DEF Last
    <3>2. PICK j \in 1..n : ifaces[j].num = i.num /\ ifaces[j].class = i.class /\ ifaces[j].alt = 0
      <4>1. \E j \in 1..n : /\ ifaces[j].num = ifaces[n].num /\ ifaces[j].class = ifaces[n].class
                             /\ ifaces[j].alt = 0
        BY <3>1, <2>1
      <4>2. ifaces[n].num = i.num /\ ifaces[n].class = i.class
        BY <3>1
      <4> HIDE DEF n
      <4> QED BY <4>1, <4>2
    <3>3. j \in 1..(n + 1) /\ ifaces'[j] = ifaces[j] /\ ifaces'[k] = i
      BY <2>4, <1>0, <1>1
    <3> QED BY <3>2, <3>3, <1>2
  <2> QED BY <1>2, <1>3, <2>2, <2>3, <2>4
<1> QED BY <1>1, <1>4, <1>5, <1>7, <1>8 DEF ListInv

(* The order of the settings is kept by the parser.                        *)
THEOREM ListCorrect == Spec => []ListInv
<1>1. Init => ListInv
  <2> SUFFICES ASSUME Init PROVE ListInv
    OBVIOUS
  <2>1. ifaces = <<>> /\ DOMAIN ifaces = {} /\ Len(ifaces) = 0 /\ ifaces \in Seq(Setting)
    BY EmptySeq DEF Init
  <2>2. MaxAlts \in Nat
    BY InterfacesAssumption DEF InterfacesAssumption
  <2>3. Len(ifaces) <= MaxAlts
    BY <2>1, <2>2
  <2> QED BY <2>1, <2>3 DEF ListInv
<1>2. ListInv /\ [Next]_vars => ListInv'
  <2> SUFFICES ASSUME ListInv, [Next]_vars PROVE ListInv'
    OBVIOUS
  <2>1. ASSUME NEW num \in IfaceNum, NEW alt \in Byte, NEW class \in {3, 8},
               AddAltSetting(num, alt, class)
        PROVE  \E i \in Setting : /\ Given(i) /\ ifaces' = Append(ifaces, i)
                                  /\ i.num = num /\ i.alt = alt /\ i.class = class
    <3>1. PICK str \in Names, eps \in EndpointsOf[num],
               extra \in (IF class = 3 THEN HidExtra ELSE {<<>>}) :
            \E report \in ReportDescriptors(extra) : ifaces' = Append(ifaces,
              [num |-> num, alt |-> alt, class |-> class, eps |-> eps, str |-> str, extra |-> extra,
               report |-> report])
      BY <2>1 DEF AddAltSetting
    <3>5. PICK report \in ReportDescriptors(extra) : ifaces' = Append(ifaces,
            [num |-> num, alt |-> alt, class |-> class, eps |-> eps, str |-> str, extra |-> extra,
             report |-> report])
      BY <3>1
    <3> DEFINE i == [num |-> num, alt |-> alt, class |-> class, eps |-> eps, str |-> str,
                     extra |-> extra, report |-> report]
    <3>2. str \in String /\ eps \in Seq(Endpoint)
      <4>1. /\ \A name \in Names : name \in String
            /\ \A x \in EndpointsOf[num] : x \in Seq(Endpoint)
        BY InterfacesAssumption DEF InterfacesAssumption, Endpoint
      <4> QED BY <4>1
    <3>3. i \in Setting
      <4>1. extra \in Extra
        BY DEF Extra
      <4>2. report \in Seq(Byte)
        BY ReportBytes
      <4> QED BY <3>2, <4>1, <4>2 DEF Setting
    <3>4. Given(i)
      BY DEF Given
    <3> QED BY <3>3, <3>4, <3>5
  <2>2. CASE NewInterface
    <3>1. PICK class \in {3, 8}, num \in IfaceNum :
            /\ ifaces # <<>> => num > Last(ifaces).num
            /\ AddAltSetting(num, 0, class)
      BY <2>2 DEF NewInterface
    <3>2. 0 \in Byte
      BY DEF Byte
    <3>3. PICK i \in Setting : /\ Given(i) /\ ifaces' = Append(ifaces, i)
                               /\ i.num = num /\ i.alt = 0 /\ i.class = class
      BY <2>1, <3>1, <3>2
    <3>4. ifaces # <<>> => Before(Last(ifaces), i)
      BY <3>1, <3>3 DEF Before
    <3> QED BY <2>2, <3>3, <3>4, ListAppend DEF NewInterface
  <2>3. CASE NewAltSetting
    <3> DEFINE l == Last(ifaces)
    <3>1. ifaces # <<>> /\ l.alt + 1 \in Byte /\ AddAltSetting(l.num, l.alt + 1, l.class)
      BY <2>3 DEF NewAltSetting
    <3>2. l \in Setting
      <4>1. Len(ifaces) \in 1..Len(ifaces) /\ ifaces \in Seq(Setting)
        BY <3>1, EmptySeq DEF ListInv
      <4> QED BY <4>1, ElementOfSeq DEF Last
    <3>3. l.num \in IfaceNum /\ l.class \in {3, 8} /\ l.alt \in Nat
      BY <3>2, SettingFields
    <3>4. PICK i \in Setting : /\ Given(i) /\ ifaces' = Append(ifaces, i)
                               /\ i.num = l.num /\ i.alt = l.alt + 1 /\ i.class = l.class
      <4> HIDE DEF l
      <4> QED BY <2>1, <3>1, <3>3
    <3>5. Before(l, i)
      BY <3>3, <3>4 DEF Before
    <3> QED BY <2>3, <3>1, <3>4, <3>5, ListAppend DEF NewAltSetting
  <2>4. CASE UNCHANGED vars
    BY <2>4 DEF vars, ListInv, Given
  <2> QED BY <2>2, <2>3, <2>4 DEF Next
<1> QED BY <1>1, <1>2, PTL DEF Spec

(* No two interfaces have the same number, and they come in its order.     *)
LEMMA ListFacts ==
  ASSUME ListInv
  PROVE  /\ Len(ifaces) \in Nat /\ DOMAIN ifaces = 1..Len(ifaces)
         /\ \A k \in DOMAIN ifaces : ifaces[k] \in Setting
         /\ \A j, k \in DOMAIN ifaces : ifaces[j].alt = 0 /\ ifaces[k].alt = 0 =>
              /\ j < k => ifaces[j].num < ifaces[k].num
              /\ ifaces[j].num = ifaces[k].num => j = k
<1>1. Len(ifaces) \in Nat /\ DOMAIN ifaces = 1..Len(ifaces)
  BY LenProperties DEF ListInv
<1>2. \A k \in DOMAIN ifaces : ifaces[k] \in Setting
  BY <1>1, ElementOfSeq DEF ListInv
<1>3. \A k \in DOMAIN ifaces : ifaces[k].num \in Nat /\ ifaces[k].alt \in Nat
  BY <1>2, SettingFields
<1>4. ASSUME NEW j \in DOMAIN ifaces, NEW k \in DOMAIN ifaces, j < k,
             ifaces[j].alt = 0, ifaces[k].alt = 0
      PROVE  ifaces[j].num < ifaces[k].num
  <2>1. Before(ifaces[j], ifaces[k])
    BY <1>4 DEF ListInv
  <2> QED BY <2>1, <1>4 DEF Before
<1>5. ASSUME NEW j \in DOMAIN ifaces, NEW k \in DOMAIN ifaces,
             ifaces[j].alt = 0, ifaces[k].alt = 0, ifaces[j].num = ifaces[k].num
      PROVE  j = k
  <2>1. j \in Nat /\ k \in Nat /\ ~(ifaces[j].num < ifaces[k].num) /\ ~(ifaces[k].num < ifaces[j].num)
    BY <1>1, <1>3, <1>5
  <2>2. ~(j < k) /\ ~(k < j)
    BY <2>1, <1>4, <1>5
  <2> QED BY <2>1, <2>2
<1> QED BY <1>1, <1>2, <1>4, <1>5

-----------------------------------------------------------------------------
(* The HID functions                                                       *)

HidAt == {k \in DOMAIN ifaces : IsHid(ifaces[k]) /\ ifaces[k].alt = 0}

(* The HID functions are those of the HID interfaces, which have a number  *)
(* of their own each.                                                      *)
LEMMA EmulatedIs ==
  ASSUME ListInv
  PROVE  /\ Cardinality(HidAt) \in Nat /\ DOMAIN EmulatedHid = 1..Cardinality(HidAt)
         /\ \A k \in DOMAIN EmulatedHid :
              /\ Pos(HidAt)[k] \in HidAt
              /\ EmulatedHid[k] = HidFunction(ifaces[Pos(HidAt)[k]])
              /\ EmulatedHid[k].num = ifaces[Pos(HidAt)[k]].num
         /\ \A p \in HidAt : \E k \in DOMAIN EmulatedHid : Pos(HidAt)[k] = p
         /\ \A j, k \in DOMAIN EmulatedHid : EmulatedHid[j].num = EmulatedHid[k].num => j = k
<1> DEFINE n == Len(ifaces)
           K == HidAt
<1>1. n \in Nat /\ K \in SUBSET (1..n)
  BY ListFacts DEF HidAt
<1>2. /\ Cardinality(K) \in Nat
      /\ Pos(K) \in [1..Cardinality(K) -> K]
      /\ \A i, j \in 1..Cardinality(K) : i < j => Pos(K)[i] < Pos(K)[j]
      /\ \A k \in K : Rank(K, k) \in 1..Cardinality(K) /\ Pos(K)[Rank(K, k)] = k
  <2> HIDE DEF n, K
  <2> QED BY <1>1, PosIs
<1>3. /\ DOMAIN EmulatedHid = 1..Cardinality(K)
      /\ \A k \in 1..Cardinality(K) : EmulatedHid[k] = HidFunction(ifaces[Pos(K)[k]])
  <2> DEFINE alt0 == Select(ifaces, K)
  <2>1. alt0 = [j \in 1..Cardinality(K) |-> ifaces[Pos(K)[j]]] /\ DOMAIN alt0 = 1..Cardinality(K)
    <3> HIDE DEF K
    <3> QED BY SelectPos
  <2>2. EmulatedHid = [k \in DOMAIN alt0 |-> HidFunction(alt0[k])]
    BY DEF EmulatedHid, HidAt
  <2> HIDE DEF alt0, K
  <2> QED BY <2>1, <2>2
<1>4. \A k \in 1..Cardinality(K) : Pos(K)[k] \in K
  <2> HIDE DEF K
  <2> QED BY <1>2
<1>5. \A k \in 1..Cardinality(K) : EmulatedHid[k].num = ifaces[Pos(K)[k]].num
  BY <1>3 DEF HidFunction
<1>6. ASSUME NEW j \in 1..Cardinality(K), NEW k \in 1..Cardinality(K),
             EmulatedHid[j].num = EmulatedHid[k].num
      PROVE  j = k
  <2>1. Pos(K)[j] \in K /\ Pos(K)[k] \in K
    BY <1>4
  <2>2. ifaces[Pos(K)[j]].num = ifaces[Pos(K)[k]].num
    BY <1>5, <1>6
  <2>3. \A p, q \in HidAt : ifaces[p].num = ifaces[q].num => p = q
    BY ListFacts DEF HidAt
  <2>4. Pos(K)[j] = Pos(K)[k]
    BY <2>1, <2>2, <2>3
  <2>5. \A p \in K : p \in Nat
    BY <1>1
  <2>6. Pos(K)[j] \in Nat /\ ~(Pos(K)[j] < Pos(K)[k]) /\ ~(Pos(K)[k] < Pos(K)[j])
    BY <2>1, <2>4, <2>5
  <2>7. ~(j < k) /\ ~(k < j)
    BY <2>6, <1>2
  <2> HIDE DEF K
  <2> QED BY <2>7, <1>2
<1> HIDE DEF K
<1>7. \A p \in K : \E k \in 1..Cardinality(K) : Pos(K)[k] = p
  BY <1>2
<1>8. Cardinality(K) \in Nat
  BY <1>2
<1> QED BY <1>3, <1>4, <1>5, <1>6, <1>7, <1>8 DEF K

(* In both directions a hidg number stands for the same interface.         *)
LEMMA RoundTrip ==
  ASSUME ListInv
  PROVE  \A k \in DOMAIN EmulatedHid :
           /\ EmulatedHid[k].num \in DOMAIN IfaceToHidIdx(EmulatedHid)
           /\ IfaceToHidIdx(EmulatedHid)[EmulatedHid[k].num] = k - 1
           /\ HidIdxToIface(IfaceToHidIdx(EmulatedHid), k - 1) = EmulatedHid[k].num
<1> DEFINE E == EmulatedHid
           map == IfaceToHidIdx(E)
<1>1. /\ \A k \in DOMAIN E : k \in Nat
      /\ \A j, k \in DOMAIN E : E[j].num = E[k].num => j = k
  BY EmulatedIs
<1> SUFFICES ASSUME NEW k \in DOMAIN E
             PROVE  /\ E[k].num \in DOMAIN map /\ map[E[k].num] = k - 1
                    /\ HidIdxToIface(map, k - 1) = E[k].num
  OBVIOUS
<1> HIDE DEF E
<1>2. map = [n \in {E[j].num : j \in DOMAIN E} |-> (CHOOSE j \in DOMAIN E : E[j].num = n) - 1]
  BY DEF IfaceToHidIdx
<1>3. \A j \in DOMAIN E : (CHOOSE i \in DOMAIN E : E[i].num = E[j].num) = j
  BY <1>1
<1>4. \A j \in DOMAIN E : E[j].num \in DOMAIN map /\ map[E[j].num] = j - 1
  <2> TAKE j \in DOMAIN E
  <2> HIDE DEF map
  <2>1. E[j].num \in DOMAIN map
    BY <1>2
  <2>2. map[E[j].num] = (CHOOSE i \in DOMAIN E : E[i].num = E[j].num) - 1
    BY <2>1, <1>2
  <2> QED BY <2>1, <2>2, <1>3
<1>5. \A n \in DOMAIN map : \E j \in DOMAIN E : E[j].num = n
  BY <1>2
<1> HIDE DEF map
<1>6. \A n \in DOMAIN map : map[n] = k - 1 => n = E[k].num
  <2> TAKE n \in DOMAIN map
  <2> HAVE map[n] = k - 1
  <2>1. PICK j \in DOMAIN E : E[j].num = n
    BY <1>5
  <2>2. j - 1 = k - 1 /\ j \in Nat /\ k \in Nat
    BY <2>1, <1>1, <1>4
  <2> QED BY <2>1, <2>2
<1>7. \E n \in DOMAIN map : map[n] = k - 1
  BY <1>4
<1>8. (CHOOSE n \in DOMAIN map : map[n] = k - 1) = E[k].num
  BY <1>6, <1>7
<1>9. HidIdxToIface(map, k - 1) = E[k].num
  BY <1>7, <1>8 DEF HidIdxToIface
<1> QED BY <1>4, <1>9

(* Whatever numbers its interfaces have, output and reports of a hidg are  *)
(* those of one interface.                                                 *)
THEOREM HidgRoundTripCorrect == Spec => []HidgRoundTrip
<1>1. ListInv => HidgRoundTrip
  BY RoundTrip DEF HidgRoundTrip
<1> QED BY <1>1, ListCorrect, PTL

(* Two digits make a byte again.                                           *)
LEMMA DigitsBack ==
  ASSUME NEW bytes \in Seq(Byte)
  PROVE  DecodeString(EncodeToString(bytes)) = bytes
<1> DEFINE n == Len(bytes)
           digits == EncodeToString(bytes)
<1>1. n \in Nat /\ DOMAIN bytes = 1..n /\ \A k \in 1..n : bytes[k] \in Nat /\ bytes[k] <= 255
  <2>1. n \in Nat /\ DOMAIN bytes = 1..n
    BY LenProperties
  <2>2. \A k \in 1..n : bytes[k] \in Byte
    BY ElementOfSeq
  <2> QED BY <2>1, <2>2, ByteNat
<1>2. digits = [j \in 1..2 * n |->
                  IF j % 2 = 1 THEN bytes[(j + 1) \div 2] \div 16 ELSE bytes[j \div 2] % 16]
  BY DEF EncodeToString
<1> HIDE DEF n, digits
<1>3. Len(digits) = 2 * n
  BY <1>1, <1>2
<1>4. Len(digits) \div 2 = n
  BY <1>1, <1>3
<1>5. \A k \in 1..n : 16 * digits[2 * k - 1] + digits[2 * k] = bytes[k]
  <2> TAKE k \in 1..n
  <2>1. /\ 2 * k - 1 \in 1..2 * n /\ 2 * k \in 1..2 * n /\ (2 * k - 1) % 2 = 1 /\ (2 * k) % 2 # 1
        /\ ((2 * k - 1) + 1) \div 2 = k /\ (2 * k) \div 2 = k
    BY <1>1
  <2>2. digits[2 * k - 1] = bytes[k] \div 16 /\ digits[2 * k] = bytes[k] % 16
    BY <1>2, <2>1
  <2>3. 16 * (bytes[k] \div 16) + (bytes[k] % 16) = bytes[k]
    BY <1>1
  <2> QED BY <2>2, <2>3
<1>6. DecodeString(digits) = [j \in 1..n |-> 16 * digits[2 * j - 1] + digits[2 * j]]
  BY <1>4 DEF DecodeString
<1>7. DecodeString(digits) = [j \in 1..n |-> bytes[j]]
  BY <1>5, <1>6
<1>8. bytes = [j \in 1..n |-> bytes[j]]
  BY <1>1
<1> QED BY <1>7, <1>8 DEF digits

(* The loops over the endpoints, that of emulate and that of load, find    *)
(* the same one.                                                           *)
LEMMA SameReportLen ==
  ASSUME NEW i, NEW j, i.eps \in Seq(Endpoint), j.eps = i.eps
  PROVE  LoadedReportLen(j) = ReportLen(i)
<1> DEFINE eps == i.eps
           ins == {k \in DOMAIN eps : IsIn(eps[k])}
           In(k) == k \in DOMAIN eps /\ IsIn(eps[k])
           First(k) == In(k) /\ \A m \in 1..k - 1 : ~In(m)
<1>1. DOMAIN eps = 1..Len(eps) /\ Len(eps) \in Nat
  BY LenProperties
<1>2. ReportLen(i) = IF ins = {} THEN 64 ELSE eps[Min(ins)].size
  BY DEF ReportLen
<1>3. LoadedReportLen(j) = IF \E k \in DOMAIN eps : In(k)
                             THEN eps[CHOOSE k \in DOMAIN eps : First(k)].size ELSE 64
  BY DEF LoadedReportLen
<1> HIDE DEF eps
<1>4. CASE ins = {}
  BY <1>2, <1>3, <1>4
<1>5. CASE ins # {}
  <2>1. ins \in SUBSET Nat
    BY <1>1
  <2>2. \E x \in ins : \A y \in ins : x <= y
    <3> HIDE DEF ins
    <3> QED BY <2>1, <1>5, Least
  <2>3. Min(ins) \in ins /\ \A y \in ins : Min(ins) <= y
    BY <2>2 DEF Min
  <2> DEFINE h == Min(ins)
  <2>4. h \in DOMAIN eps /\ First(h)
    <3>1. h \in 1..Len(eps) /\ In(h)
      BY <2>3, <1>1
    <3>2. ASSUME NEW m \in 1..h - 1, In(m) PROVE FALSE
      <4>1. m \in ins /\ h <= m
        BY <3>2, <2>3
      <4> HIDE DEF h, ins, In
      <4> QED BY <3>1, <3>2, <4>1
    <3> QED BY <3>1, <3>2, <1>1
  <2>5. ASSUME NEW k \in DOMAIN eps, First(k) PROVE k = h
    <3>1. k \in ins /\ h \in ins /\ h <= k
      BY <2>3, <2>5
    <3>2. ~(h \in 1..k - 1)
      BY <2>4, <2>5
    <3>3. k \in 1..Len(eps) /\ h \in 1..Len(eps)
      BY <2>4, <1>1
    <3> HIDE DEF h
    <3> QED BY <3>1, <3>2, <3>3, <1>1
  <2> HIDE DEF h
  <2>6. (CHOOSE k \in DOMAIN eps : First(k)) = h
    <3> HIDE DEF First
    <3> QED BY <2>4, <2>5
  <2>7. \E k \in DOMAIN eps : In(k)
    BY <2>4
  <2> QED BY <1>2, <1>3, <1>5, <2>6, <2>7 DEF h
<1> QED BY <1>4, <1>5

(* What save wrote of a list of settings, once read by load, is a list of  *)
(* the same functions as those emulate makes of the settings.              *)
THEOREM LoadMatchesEmulateCorrect == Spec => []LoadMatchesEmulate
<1>1. ASSUME ListInv PROVE LoadedHid(Profile) = EmulatedHid
  <2> DEFINE K == HidAt
             P == Profile
             Func(i) == [num |-> i.num, len |-> LoadedReportLen(i),
                         desc |-> DecodeString(i.report), str |-> i.str]
  <2>1. /\ DOMAIN P = DOMAIN ifaces
        /\ \A k \in DOMAIN ifaces : /\ P[k].num = ifaces[k].num /\ P[k].alt = ifaces[k].alt
                                    /\ P[k].class = ifaces[k].class /\ P[k].eps = ifaces[k].eps
                                    /\ P[k].str = ifaces[k].str
                                    /\ P[k].report = EncodeToString(ifaces[k].report)
    BY DEF Profile
  <2> HIDE DEF P
  <2>2. {k \in DOMAIN P : P[k].class = 3 /\ P[k].alt = 0} = K
    BY <2>1 DEF HidAt, IsHid
  <2>3. \A k \in K : Func(P[k]) = HidFunction(ifaces[k])
    <3> TAKE k \in K
    <3>0. k \in DOMAIN ifaces
      BY DEF HidAt
    <3>1. ifaces[k].eps \in Seq(Endpoint) /\ ifaces[k].report \in Seq(Byte)
      <4>1. ifaces[k] \in Setting
        BY <1>1, <3>0, ListFacts
      <4> QED BY <4>1 DEF Setting
    <3>2. LoadedReportLen(P[k]) = ReportLen(ifaces[k])
      BY <3>0, <3>1, <2>1, SameReportLen
    <3>3. DecodeString(P[k].report) = ifaces[k].report
      BY <3>0, <3>1, <2>1, DigitsBack
    <3> QED BY <3>0, <3>2, <3>3, <2>1 DEF HidFunction
  <2>4. LoadedHid(P) = [k \in DOMAIN Select(P, K) |-> Func(Select(P, K)[k])]
    BY <2>2 DEF LoadedHid
  <2> HIDE DEF Func
  <2>5. /\ DOMAIN EmulatedHid = 1..Cardinality(K)
        /\ \A k \in 1..Cardinality(K) : /\ Pos(K)[k] \in K
                                         /\ EmulatedHid[k] = HidFunction(ifaces[Pos(K)[k]])
    BY <1>1, EmulatedIs
  <2> HIDE DEF K
  <2>6. /\ Select(P, K) = [j \in 1..Cardinality(K) |-> P[Pos(K)[j]]]
        /\ DOMAIN Select(P, K) = 1..Cardinality(K)
    BY SelectPos
  <2>7. \A k \in 1..Cardinality(K) : Select(P, K)[k] = P[Pos(K)[k]]
    BY <2>6
  <2>8. \A k \in 1..Cardinality(K) : Func(Select(P, K)[k]) = EmulatedHid[k]
    BY <2>3, <2>5, <2>7
  <2>9. LoadedHid(P) = [k \in 1..Cardinality(K) |-> EmulatedHid[k]]
    BY <2>4, <2>6, <2>8
  <2>10. EmulatedHid = [k \in 1..Cardinality(K) |-> EmulatedHid[k]]
    <3>1. EmulatedHid = [k \in DOMAIN EmulatedHid |-> EmulatedHid[k]]
      BY DEF EmulatedHid
    <3> QED BY <3>1, <2>5
  <2> QED BY <2>9, <2>10 DEF P
<1>2. ListInv => LoadMatchesEmulate
  BY <1>1 DEF LoadMatchesEmulate
<1> QED BY <1>2, ListCorrect, PTL

(* For any device, with extra bytes of any form, no HID function gets more *)
(* of a report descriptor than is declared.                                *)
THEOREM ReportsDeclaredCorrect == Spec => []ReportsDeclared
<1>1. ASSUME ListInv, NEW k \in DOMAIN EmulatedHid
      PROVE  \E i \in ToSet(ifaces) : /\ i.num = EmulatedHid[k].num /\ i.alt = 0
                                      /\ Len(EmulatedHid[k].desc) <= DeclaredLen(i.extra)
  <2> DEFINE p == Pos(HidAt)[k]
             i == ifaces[p]
  <2>1. p \in HidAt /\ EmulatedHid[k] = HidFunction(i)
    BY <1>1, EmulatedIs
  <2> HIDE DEF p
  <2>2. p \in DOMAIN ifaces /\ i.class = 3 /\ i.alt = 0
    BY <2>1 DEF HidAt, IsHid
  <2>3. Given(i)
    BY <1>1, <2>2 DEF ListInv
  <2>4. i \in ToSet(ifaces)
    BY <2>2 DEF ToSet
  <2> HIDE DEF i
  <2>5. i.extra \in HidExtra /\ i.report \in ReportDescriptors(i.extra)
    BY <2>2, <2>3 DEF Given
  <2>6. findHIDReportDescriptorLen(FlattenSeq(i.extra)) = DeclaredLen(i.extra)
    <3>1. /\ i.extra \in Seq(Seq(Byte))
          /\ \A m \in DOMAIN i.extra :
               IsDescriptor(i.extra[m]) \/ (m = Len(i.extra) /\ IsCutShort(i.extra[m]))
      BY <2>5, InterfacesAssumption DEF InterfacesAssumption
    <3> QED BY <3>1, FindsHidDesc
  <2>7. Len(i.report) <= DeclaredLen(i.extra)
    BY <2>5, <2>6, ReportBytes
  <2>8. EmulatedHid[k].num = i.num /\ EmulatedHid[k].desc = i.report
    BY <2>1 DEF HidFunction
  <2> QED BY <2>2, <2>4, <2>7, <2>8
<1>2. ListInv => ReportsDeclared
  BY <1>1 DEF ReportsDeclared
<1> QED BY <1>2, ListCorrect, PTL

-----------------------------------------------------------------------------
(* The FFS function                                                        *)

(* The two bytes of a number.                                              *)
LEMMA LE16Bytes ==
  ASSUME NEW x \in Nat
  PROVE  /\ LE16(x) \in Seq(Byte) /\ Len(LE16(x)) = 2
         /\ LE16(x)[1] = x % 256 /\ LE16(x)[2] = (x \div 256) % 256
<1>1. x % 256 \in Byte /\ (x \div 256) % 256 \in Byte
  BY DEF Byte
<1> DEFINE a == x % 256
           b == (x \div 256) % 256
<1>2. LE16(x) = <<a, b>>
  BY DEF LE16
<1>3. a \in Byte /\ b \in Byte
  BY <1>1
<1> HIDE DEF a, b
<1>4. <<a, b>> \in Seq(Byte) /\ Len(<<a, b>>) = 2 /\ <<a, b>>[1] = a /\ <<a, b>>[2] = b
  BY <1>3
<1> QED BY <1>2, <1>4 DEF a, b

(* Packet sizes are numbers.                                               *)
LEMMA WordNat == \A w \in Word : w \in Nat
  BY DEF Word

(* An endpoint descriptor is one, and not that of an interface.            *)
LEMMA EPDescIs ==
  ASSUME NEW ep \in Endpoint
  PROVE  /\ buildEPDesc(ep) \in Seq(Byte) /\ IsDescriptor(buildEPDesc(ep))
         /\ buildEPDesc(ep)[2] = 5 /\ Len(buildEPDesc(ep)) <= 9
<1> DEFINE a == <<7, 5, ep.addr, 3>>
           b == LE16(ep.size)
           c == <<1>>
<1>1. ep.addr \in Byte /\ ep.size \in Nat
  BY WordNat DEF Endpoint
<1>2. a \in Seq(Byte) /\ Len(a) = 4 /\ a[1] = 7 /\ a[2] = 5
  <2>1. 7 \in Byte /\ 5 \in Byte /\ 3 \in Byte
    BY DEF Byte
  <2> QED BY <1>1, <2>1
<1>3. c \in Seq(Byte) /\ Len(c) = 1
  <2>1. 1 \in Byte
    BY DEF Byte
  <2> QED BY <2>1
<1>4. b \in Seq(Byte) /\ Len(b) = 2
  BY <1>1, LE16Bytes
<1> HIDE DEF a, b, c
<1>5. a \o b \in Seq(Byte) /\ Len(a \o b) = 6 /\ (a \o b)[1] = 7 /\ (a \o b)[2] = 5
  <2>1. /\ a \o b \in Seq(Byte) /\ Len(a \o b) = Len(a) + Len(b)
        /\ \A p \in 1..(Len(a) + Len(b)) :
             (a \o b)[p] = IF p <= Len(a) THEN a[p] ELSE b[p - Len(a)]
    BY <1>2, <1>4, ConcatProperties
  <2>2. Len(a) + Len(b) = 6 /\ 1 \in 1..6 /\ 2 \in 1..6 /\ 1 <= Len(a) /\ 2 <= Len(a)
    BY <1>2, <1>4
  <2>3. (a \o b)[1] = a[1] /\ (a \o b)[2] = a[2]
    BY <2>1, <2>2
  <2> QED BY <2>1, <2>2, <2>3, <1>2
<1>6. /\ (a \o b) \o c \in Seq(Byte) /\ Len((a \o b) \o c) = 7
      /\ ((a \o b) \o c)[1] = 7 /\ ((a \o b) \o c)[2] = 5
  <2> DEFINE e == a \o b
  <2>1. e \in Seq(Byte) /\ Len(e) = 6 /\ e[1] = 7 /\ e[2] = 5
    BY <1>5
  <2> HIDE DEF e
  <2>2. e \o c \in Seq(Byte) /\ Len(e \o c) = 7 /\ (e \o c)[1] = 7 /\ (e \o c)[2] = 5
    <3>1. /\ e \o c \in Seq(Byte) /\ Len(e \o c) = Len(e) + Len(c)
          /\ \A p \in 1..(Len(e) + Len(c)) :
               (e \o c)[p] = IF p <= Len(e) THEN e[p] ELSE c[p - Len(e)]
      BY <2>1, <1>3, ConcatProperties
    <3>2. Len(e) + Len(c) = 7 /\ 1 \in 1..7 /\ 2 \in 1..7 /\ 1 <= Len(e) /\ 2 <= Len(e)
      BY <2>1, <1>3
    <3>3. (e \o c)[1] = e[1] /\ (e \o c)[2] = e[2]
      BY <3>1, <3>2
    <3> QED BY <3>1, <3>2, <3>3, <2>1
  <2> QED BY <2>2 DEF e
<1>7. buildEPDesc(ep) = (a \o b) \o c
  BY DEF buildEPDesc, a, b, c
<1> QED BY <1>6, <1>7 DEF IsDescriptor

(* An interface descriptor is one, and has the number of the interface.    *)
LEMMA IfaceDescIs ==
  ASSUME NEW i \in Setting, Len(i.eps) \in Byte, NEW iInterface \in Byte
  PROVE  LET d == buildIfaceDescWithStr(i, iInterface) IN
         d \in Seq(Byte) /\ IsDescriptor(d) /\ d[2] = 4 /\ d[3] = i.num /\ Len(d) <= 9
<1>1. i.num \in Byte /\ i.alt \in Byte /\ i.class \in {3, 8}
  BY SettingFields
<1>2. 9 \in Byte /\ 4 \in Byte /\ 0 \in Byte /\ 3 \in Byte /\ 8 \in Byte
  BY DEF Byte
<1>3. i.class \in Byte
  BY <1>1, <1>2
<1> DEFINE d == <<9, 4, i.num, i.alt, Len(i.eps), i.class, 0, 0, iInterface>>
<1>4. d \in Seq(Byte) /\ Len(d) = 9 /\ d[1] = 9 /\ d[2] = 4 /\ d[3] = i.num
  BY <1>1, <1>2, <1>3
<1>5. buildIfaceDescWithStr(i, iInterface) = d
  BY DEF buildIfaceDescWithStr
<1> HIDE DEF d
<1>6. Len(d) >= 2 /\ d[1] = Len(d) /\ Len(d) <= 9
  BY <1>4
<1> QED BY <1>4, <1>5, <1>6 DEF IsDescriptor

(* The descriptors of a setting: that of the interface, and others.        *)
LEMMA SettingDescsAre ==
  ASSUME NEW i \in Setting, Len(i.eps) \in Byte, NEW iInterface \in Byte
  PROVE  /\ settingDescs(i, iInterface) \in Seq(Seq(Byte))
         /\ Len(settingDescs(i, iInterface)) = 1 + Len(i.eps)
         /\ \A j \in 1..(1 + Len(i.eps)) :
              LET d == settingDescs(i, iInterface)[j] IN
              /\ IsDescriptor(d) /\ Len(d) <= 9
              /\ IF j = 1 THEN d[2] = 4 /\ d[3] = i.num ELSE d[2] = 5
<1> DEFINE b == buildIfaceDescWithStr(i, iInterface)
           a == <<b>>
           e == [k \in DOMAIN i.eps |-> buildEPDesc(i.eps[k])]
           n == Len(i.eps)
<1>1. i.eps \in Seq(Endpoint) /\ n \in Nat /\ DOMAIN i.eps = 1..n
  BY SettingFields, LenProperties
<1>2. b \in Seq(Byte) /\ IsDescriptor(b) /\ b[2] = 4 /\ b[3] = i.num /\ Len(b) <= 9
  BY IfaceDescIs
<1>3. \A k \in 1..n : buildEPDesc(i.eps[k]) \in Seq(Byte) /\ IsDescriptor(buildEPDesc(i.eps[k]))
                       /\ buildEPDesc(i.eps[k])[2] = 5 /\ Len(buildEPDesc(i.eps[k])) <= 9
  BY <1>1, ElementOfSeq, EPDescIs
<1>4. e \in Seq(Seq(Byte)) /\ Len(e) = n /\ \A k \in 1..n : e[k] = buildEPDesc(i.eps[k])
  <2> HIDE DEF n
  <2>1. e = [k \in 1..n |-> buildEPDesc(i.eps[k])]
    BY <1>1
  <2>2. e \in [1..n -> Seq(Byte)]
    BY <2>1, <1>3
  <2>3. e \in Seq(Seq(Byte)) /\ Len(e) = n
    <3> HIDE DEF e
    <3> QED BY <2>2, <1>1
  <2>4. \A k \in 1..n : e[k] = buildEPDesc(i.eps[k])
    BY <1>1
  <2> QED BY <2>3, <2>4
<1> HIDE DEF b, n
<1>5. a \in Seq(Seq(Byte)) /\ Len(a) = 1 /\ a[1] = b
  BY <1>2
<1> HIDE DEF a, e
<1>6. /\ a \o e \in Seq(Seq(Byte)) /\ Len(a \o e) = 1 + n
      /\ \A j \in 1..(1 + n) : (a \o e)[j] = IF j <= 1 THEN a[j] ELSE e[j - 1]
  <2>1. /\ a \o e \in Seq(Seq(Byte)) /\ Len(a \o e) = Len(a) + Len(e)
        /\ \A j \in 1..(Len(a) + Len(e)) :
             (a \o e)[j] = IF j <= Len(a) THEN a[j] ELSE e[j - Len(a)]
    <3>1. a \in Seq(Seq(Byte)) /\ e \in Seq(Seq(Byte))
      BY <1>4, <1>5
    <3> QED BY <3>1, ConcatProperties
  <2>2. Len(a) = 1 /\ Len(e) = n
    BY <1>4, <1>5
  <2> QED BY <2>1, <2>2
<1>7. settingDescs(i, iInterface) = a \o e
  BY DEF settingDescs, a, b, e
<1>8. ASSUME NEW j \in 1..(1 + n)
      PROVE  /\ IsDescriptor((a \o e)[j]) /\ Len((a \o e)[j]) <= 9
             /\ IF j = 1 THEN (a \o e)[j][2] = 4 /\ (a \o e)[j][3] = i.num ELSE (a \o e)[j][2] = 5
  <2>1. CASE j = 1
    <3>1. (a \o e)[j] = b
      BY <2>1, <1>1, <1>5, <1>6
    <3> QED BY <2>1, <3>1, <1>2
  <2>2. CASE j # 1
    <3>1. j - 1 \in 1..n
      BY <2>2, <1>1
    <3>2. (a \o e)[j] = e[j - 1]
      BY <2>2, <1>1, <1>6
    <3>3. (a \o e)[j] = buildEPDesc(i.eps[j - 1])
      BY <3>1, <3>2, <1>4
    <3> QED BY <2>2, <3>1, <3>3, <1>3
  <2> QED BY <2>1, <2>2
<1> QED BY <1>6, <1>7, <1>8 DEF n

NonHidAt == {k \in DOMAIN ifaces : ~IsHid(ifaces[k])}

(* The settings that are not HID, in their order.                          *)
LEMMA NonHidIs ==
  ASSUME ListInv
  PROVE  /\ NonHidAt \in SUBSET (1..Len(ifaces)) /\ Len(ifaces) \in Nat
         /\ Cardinality(NonHidAt) \in Nat /\ Pos(NonHidAt) \in [1..Cardinality(NonHidAt) -> NonHidAt]
         /\ NonHid = Select(ifaces, NonHidAt)
         /\ DOMAIN NonHid = 1..Cardinality(NonHidAt) /\ Len(NonHid) = Cardinality(NonHidAt)
         /\ NonHid \in Seq(Setting)
         /\ \A k \in DOMAIN NonHid :
              /\ NonHid[k] = ifaces[Pos(NonHidAt)[k]] /\ NonHid[k] \in Setting
              /\ Len(NonHid[k].eps) \in Byte
         /\ \A p \in NonHidAt : \E k \in DOMAIN NonHid : Pos(NonHidAt)[k] = p
<1> DEFINE n == Len(ifaces)
           K == NonHidAt
           m == Cardinality(K)
<1>1. /\ n \in Nat /\ K \in SUBSET (1..n)
      /\ \A k \in K : ifaces[k] \in Setting /\ Given(ifaces[k])
  <2>1. \A k \in DOMAIN ifaces : Given(ifaces[k])
    BY DEF ListInv
  <2> QED BY <2>1, ListFacts DEF NonHidAt
<1>2. NonHid = Select(ifaces, K)
  BY DEF NonHid, NonHidAt
<1> HIDE DEF K, n
<1>3. /\ m \in Nat /\ Pos(K) \in [1..m -> K]
      /\ \A k \in K : Rank(K, k) \in 1..m /\ Pos(K)[Rank(K, k)] = k
  BY <1>1, PosIs
<1>4. NonHid = [j \in 1..m |-> ifaces[Pos(K)[j]]]
  BY <1>2, SelectPos
<1> HIDE DEF m
<1>5. \A j \in 1..m : NonHid[j] = ifaces[Pos(K)[j]] /\ NonHid[j] \in Setting /\ Given(NonHid[j])
  BY <1>1, <1>3, <1>4
<1>6. NonHid \in [1..m -> Setting]
  BY <1>4, <1>5
<1>7. NonHid \in Seq(Setting) /\ Len(NonHid) = m /\ DOMAIN NonHid = 1..m
  BY <1>6, <1>3
<1>8. \A j \in 1..m : Len(NonHid[j].eps) \in Byte
  <2> TAKE j \in 1..m
  <2> DEFINE i == NonHid[j]
  <2>1. i \in Setting /\ Given(i)
    BY <1>5
  <2> HIDE DEF i
  <2>2. i.num \in IfaceNum /\ i.eps \in EndpointsOf[i.num]
    BY <2>1, SettingFields DEF Given
  <2>3. \A num \in IfaceNum : \A eps \in EndpointsOf[num] : Len(eps) \in Byte
    BY InterfacesAssumption DEF InterfacesAssumption
  <2>4. Len(i.eps) \in Byte
    BY <2>2, <2>3
  <2> QED BY <2>4 DEF i
<1>9. \A p \in K : \E k \in 1..m : Pos(K)[k] = p
  BY <1>3
<1> QED BY <1>1, <1>2, <1>3, <1>5, <1>7, <1>8, <1>9 DEF K, m, n

(* The strings are counted by rank.                                        *)
NamedAt == {k \in DOMAIN NonHid : NonHid[k].str # NoString}

(* iInterface is a byte, and it counts the strings.                        *)
LEMMA StrIdxIs ==
  ASSUME ListInv
  PROVE  \A k \in DOMAIN NonHid :
           /\ Named(NonHid, k) = Rank(NamedAt, k) /\ Named(NonHid, k) \in Nat
           /\ StrIdx(k) \in Byte
<1> TAKE k \in DOMAIN NonHid
<1>1. Cardinality(NonHidAt) \in Nat /\ DOMAIN NonHid = 1..Cardinality(NonHidAt)
  BY NonHidIs
<1>2. k \in Nat /\ NamedAt \in SUBSET (1..Cardinality(NonHidAt))
  BY <1>1 DEF NamedAt
<1>3. {j \in 1..k : NonHid[j].str # NoString} = NamedAt \cap 1..k
  BY <1>1 DEF NamedAt
<1>4. Named(NonHid, k) = Rank(NamedAt, k)
  BY <1>3 DEF Named, Rank
<1>5. Rank(NamedAt, k) \in Nat
  <2>1. Cardinality(NamedAt) \in Nat /\ Rank(NamedAt, k) \in 0..Cardinality(NamedAt)
    BY <1>1, <1>2, RankGrows
  <2> QED BY <2>1
<1>6. StrIdx(k) \in Byte
  <2>1. StrIdx(k) = 0 \/ StrIdx(k) = Named(NonHid, k) % 256
    BY DEF StrIdx
  <2> DEFINE x == Named(NonHid, k)
  <2>2. x \in Nat
    BY <1>4, <1>5
  <2> HIDE DEF x
  <2>3. 0 \in Byte /\ x % 256 \in Byte
    BY <2>2 DEF Byte
  <2> QED BY <2>1, <2>3 DEF x
<1> QED BY <1>4, <1>5, <1>6

(* What is announced of each setting.                                      *)
Announced == [k \in DOMAIN NonHid |-> settingDescs(NonHid[k], StrIdx(k))]

(* The descriptors are those of the settings, of which that of an          *)
(* interface is the first.                                                 *)
LEMMA AnnouncedIs ==
  ASSUME ListInv
  PROVE  /\ Announced \in Seq(Seq(Seq(Byte))) /\ Len(Announced) = Len(NonHid)
         /\ FfsDescriptors = FlattenSeq(Announced)
         /\ \A k \in DOMAIN NonHid :
              /\ Announced[k] = settingDescs(NonHid[k], StrIdx(k))
              /\ Len(Announced[k]) = 1 + Len(NonHid[k].eps) /\ Len(NonHid[k].eps) \in Nat
              /\ \A j \in 1..Len(Announced[k]) :
                   /\ IsDescriptor(Announced[k][j]) /\ Len(Announced[k][j]) <= 9
                   /\ IF j = 1 THEN Announced[k][j][2] = 4 /\ Announced[k][j][3] = NonHid[k].num
                               ELSE Announced[k][j][2] = 5
<1> DEFINE m == Len(NonHid)
<1>1. /\ m \in Nat /\ DOMAIN NonHid = 1..m
      /\ \A k \in 1..m : NonHid[k] \in Setting /\ Len(NonHid[k].eps) \in Byte
  BY NonHidIs
<1>2. \A k \in 1..m : StrIdx(k) \in Byte
  BY <1>1, StrIdxIs
<1> HIDE DEF m
<1>3. Announced = [k \in 1..m |-> settingDescs(NonHid[k], StrIdx(k))]
  BY <1>1 DEF Announced
<1>4. ASSUME NEW k \in 1..m
      PROVE  /\ Announced[k] = settingDescs(NonHid[k], StrIdx(k))
             /\ Announced[k] \in Seq(Seq(Byte))
             /\ Len(Announced[k]) = 1 + Len(NonHid[k].eps) /\ Len(NonHid[k].eps) \in Nat
             /\ \A j \in 1..Len(Announced[k]) :
                  /\ IsDescriptor(Announced[k][j]) /\ Len(Announced[k][j]) <= 9
                  /\ IF j = 1 THEN Announced[k][j][2] = 4 /\ Announced[k][j][3] = NonHid[k].num
                              ELSE Announced[k][j][2] = 5
  <2> DEFINE i == NonHid[k]
             x == StrIdx(k)
             D == settingDescs(i, x)
  <2>1. Announced[k] = D
    BY <1>3
  <2>2. i \in Setting /\ Len(i.eps) \in Byte /\ x \in Byte
    BY <1>1, <1>2
  <2> HIDE DEF i, x
  <2>3. /\ D \in Seq(Seq(Byte)) /\ Len(D) = 1 + Len(i.eps)
        /\ \A j \in 1..(1 + Len(i.eps)) :
             /\ IsDescriptor(D[j]) /\ Len(D[j]) <= 9
             /\ IF j = 1 THEN D[j][2] = 4 /\ D[j][3] = i.num ELSE D[j][2] = 5
    BY <2>2, SettingDescsAre
  <2>4. Len(i.eps) \in Nat
    BY <2>2, ByteNat
  <2> HIDE DEF D
  <2> QED BY <2>1, <2>3, <2>4 DEF D, i, x
<1>5. Announced \in Seq(Seq(Seq(Byte))) /\ Len(Announced) = m
  <2>1. Announced \in [1..m -> Seq(Seq(Byte))]
    BY <1>3, <1>4
  <2> QED BY <2>1, <1>1
<1>6. FfsDescriptors = FlattenSeq(Announced)
  BY DEF FfsDescriptors, Announced
<1> QED BY <1>1, <1>4, <1>5, <1>6 DEF m

(* The interfaces whose output is left to FFS have FFS descriptors, and    *)
(* are not HID interfaces.                                                 *)
THEOREM FfsTablesAgreeCorrect == Spec => []FfsTablesAgree
<1>1. ASSUME ListInv
      PROVE  ToSet(NonHidIfaceNums) = {ifaces[k].num : k \in {p \in DOMAIN ifaces :
                                             ~IsHid(ifaces[p]) /\ ifaces[p].alt = 0}}
  <2> DEFINE n == Len(ifaces)
             L == {k \in DOMAIN ifaces : ~IsHid(ifaces[k]) /\ ifaces[k].alt = 0}
  <2>1. n \in Nat /\ L \in SUBSET (1..n)
    BY <1>1, ListFacts
  <2>2. NonHidIfaceNums = [k \in DOMAIN Select(ifaces, L) |-> Select(ifaces, L)[k].num]
    BY DEF NonHidIfaceNums
  <2> HIDE DEF n, L
  <2>3. /\ Cardinality(L) \in Nat /\ Pos(L) \in [1..Cardinality(L) -> L]
        /\ \A k \in L : Rank(L, k) \in 1..Cardinality(L) /\ Pos(L)[Rank(L, k)] = k
    BY <2>1, PosIs
  <2>4. /\ Select(ifaces, L) = [j \in 1..Cardinality(L) |-> ifaces[Pos(L)[j]]]
        /\ DOMAIN Select(ifaces, L) = 1..Cardinality(L)
    BY SelectPos
  <2>5. /\ DOMAIN NonHidIfaceNums = 1..Cardinality(L)
        /\ \A j \in 1..Cardinality(L) : NonHidIfaceNums[j] = ifaces[Pos(L)[j]].num
    BY <2>2, <2>4
  <2>6. ASSUME NEW x, x \in ToSet(NonHidIfaceNums) PROVE x \in {ifaces[k].num : k \in L}
    BY <2>3, <2>5, <2>6 DEF ToSet
  <2>7. ASSUME NEW k \in L PROVE ifaces[k].num \in ToSet(NonHidIfaceNums)
    BY <2>3, <2>5 DEF ToSet
  <2> QED BY <2>6, <2>7 DEF L
<1>2. ASSUME ListInv
      PROVE  {d[3] : d \in {e \in ToSet(FfsDescriptors) : e[2] = 4}}
               = {ifaces[k].num : k \in {p \in DOMAIN ifaces : ~IsHid(ifaces[p]) /\ ifaces[p].alt = 0}}
  <2> DEFINE Nums == {d[3] : d \in {e \in ToSet(FfsDescriptors) : e[2] = 4}}
             Alt0 == {p \in DOMAIN ifaces : ~IsHid(ifaces[p]) /\ ifaces[p].alt = 0}
             m == Len(NonHid)
  <2>1. /\ \A x : x \in ToSet(FfsDescriptors) <=>
                   \E k \in 1..m : \E j \in 1..Len(Announced[k]) : x = Announced[k][j]
        /\ \A k \in 1..m :
             /\ Len(Announced[k]) >= 1 /\ Len(Announced[k]) \in Nat
             /\ \A j \in 1..Len(Announced[k]) :
                  IF j = 1 THEN Announced[k][j][2] = 4 /\ Announced[k][j][3] = NonHid[k].num
                           ELSE Announced[k][j][2] = 5
    <3>1. Announced \in Seq(Seq(Seq(Byte))) /\ Len(Announced) = m /\ FfsDescriptors = FlattenSeq(Announced)
      BY <1>2, AnnouncedIs
    <3>2. \A x : x \in ToSet(FlattenSeq(Announced)) <=>
                   \E k \in 1..Len(Announced) : \E j \in 1..Len(Announced[k]) : x = Announced[k][j]
      BY <3>1, FlattenElements
    <3>3. DOMAIN NonHid = 1..m
      BY <1>2, NonHidIs
    <3>4. \A k \in 1..m : /\ Len(Announced[k]) = 1 + Len(NonHid[k].eps) /\ Len(NonHid[k].eps) \in Nat
                          /\ \A j \in 1..Len(Announced[k]) :
                               IF j = 1 THEN Announced[k][j][2] = 4 /\ Announced[k][j][3] = NonHid[k].num
                                        ELSE Announced[k][j][2] = 5
      BY <1>2, <3>3, AnnouncedIs
    <3>5. \A k \in 1..m : Len(Announced[k]) >= 1 /\ Len(Announced[k]) \in Nat
      BY <3>4
    <3> QED BY <3>1, <3>2, <3>4, <3>5
  <2>2. /\ DOMAIN NonHid = 1..m
        /\ \A k \in 1..m : NonHid[k] = ifaces[Pos(NonHidAt)[k]] /\ Pos(NonHidAt)[k] \in NonHidAt
        /\ \A p \in NonHidAt : \E k \in 1..m : Pos(NonHidAt)[k] = p
    BY <1>2, NonHidIs
  <2>3. \A k \in DOMAIN ifaces : \E j \in DOMAIN ifaces :
          ifaces[j].num = ifaces[k].num /\ ifaces[j].class = ifaces[k].class /\ ifaces[j].alt = 0
    BY <1>2 DEF ListInv
  <2> HIDE DEF m
  <2>4. ASSUME NEW x, x \in Nums PROVE x \in {ifaces[k].num : k \in Alt0}
    <3>1. PICK d \in ToSet(FfsDescriptors) : d[2] = 4 /\ x = d[3]
      BY <2>4
    <3>2. PICK k \in 1..m : \E j \in 1..Len(Announced[k]) : d = Announced[k][j]
      BY <3>1, <2>1
    <3>3. PICK j \in 1..Len(Announced[k]) : d = Announced[k][j]
      BY <3>2
    <3>4. x = NonHid[k].num
      <4>1. IF j = 1 THEN d[2] = 4 /\ d[3] = NonHid[k].num ELSE d[2] = 5
        BY <3>3, <2>1
      <4> QED BY <3>1, <4>1
    <3> DEFINE p == Pos(NonHidAt)[k]
    <3>5. p \in DOMAIN ifaces /\ ~IsHid(ifaces[p]) /\ x = ifaces[p].num
      BY <3>4, <2>2 DEF NonHidAt
    <3> HIDE DEF p
    <3>6. PICK q \in DOMAIN ifaces :
            ifaces[q].num = ifaces[p].num /\ ifaces[q].class = ifaces[p].class /\ ifaces[q].alt = 0
      BY <3>5, <2>3
    <3>7. q \in Alt0 /\ x = ifaces[q].num
      BY <3>5, <3>6 DEF IsHid
    <3> QED BY <3>7
  <2>5. ASSUME NEW q \in Alt0 PROVE ifaces[q].num \in Nums
    <3>1. q \in NonHidAt
      BY DEF NonHidAt
    <3>2. PICK k \in 1..m : Pos(NonHidAt)[k] = q
      BY <3>1, <2>2
    <3> DEFINE d == Announced[k][1]
    <3>3. 1 \in 1..Len(Announced[k])
      BY <2>1
    <3>4. d[2] = 4 /\ d[3] = NonHid[k].num
      BY <3>3, <2>1
    <3>5. d \in ToSet(FfsDescriptors)
      BY <3>3, <2>1
    <3>6. d[3] = ifaces[q].num
      BY <3>2, <3>4, <2>2
    <3> HIDE DEF d
    <3> QED BY <3>4, <3>5, <3>6
  <2> HIDE DEF Nums, Alt0
  <2>6. Nums = {ifaces[k].num : k \in Alt0}
    BY <2>4, <2>5
  <2> QED BY <2>6 DEF Nums, Alt0
<1>3. ASSUME ListInv
      PROVE  {ifaces[k].num : k \in {p \in DOMAIN ifaces : ~IsHid(ifaces[p]) /\ ifaces[p].alt = 0}}
               \cap DOMAIN IfaceToHidIdx(EmulatedHid) = {}
  <2> SUFFICES ASSUME NEW p \in DOMAIN ifaces, ~IsHid(ifaces[p]), ifaces[p].alt = 0,
                      ifaces[p].num \in DOMAIN IfaceToHidIdx(EmulatedHid)
               PROVE  FALSE
    OBVIOUS
  <2>1. PICK k \in DOMAIN EmulatedHid : EmulatedHid[k].num = ifaces[p].num
    BY DEF IfaceToHidIdx
  <2> DEFINE q == Pos(HidAt)[k]
  <2>2. q \in HidAt /\ ifaces[q].num = ifaces[p].num
    BY <1>3, <2>1, EmulatedIs
  <2> HIDE DEF q
  <2>3. q \in DOMAIN ifaces /\ IsHid(ifaces[q]) /\ ifaces[q].alt = 0
    BY <2>2 DEF HidAt
  <2>4. p = q
    BY <1>3, <2>2, <2>3, ListFacts
  <2> QED BY <2>3, <2>4
<1>4. ListInv => FfsTablesAgree
  <2> SUFFICES ASSUME ListInv PROVE FfsTablesAgree
    OBVIOUS
  <2> QED BY <1>1, <1>2, <1>3 DEF FfsTablesAgree
<1> QED BY <1>4, ListCorrect, PTL

(* Positions in a list are no more than it has.                            *)
LEMMA PositionsBound ==
  ASSUME NEW n \in Nat, NEW K \in SUBSET (1..n)
  PROVE  Cardinality(K) <= n
<1>1. IsFiniteSet(1..n) /\ Cardinality(1..n) = n
  <2>1. IsFiniteSet(1..n) /\ Cardinality(1..n) = IF 1 <= n THEN n - 1 + 1 ELSE 0
    BY FS_Interval
  <2> QED BY <2>1
<1>2. Cardinality(K) <= Cardinality(1..n)
  BY <1>1, FS_Subset
<1> QED BY <1>1, <1>2

(* The strings of the device are three at most, and short.                 *)
DevInv ==
  /\ devStrings \in Seq(String) /\ Len(devStrings) <= 3
  /\ \A k \in 1..Len(devStrings) : Len(devStrings[k]) <= 126

(* They are chosen once, from those a device may have.                     *)
LEMMA DevCorrect == Spec => []DevInv
<1>1. Init => DevInv
  <2> SUFFICES ASSUME Init PROVE DevInv
    OBVIOUS
  <2> DEFINE n == Len(DeviceStrings)
  <2>1. PICK have \in SUBSET DOMAIN DeviceStrings : devStrings = Select(DeviceStrings, have)
    BY DEF Init
  <2>2. /\ DeviceStrings \in Seq(String) /\ n <= 3
        /\ \A name \in Names \cup ToSet(DeviceStrings) : Len(name) <= 126
    BY InterfacesAssumption
  <2>3. n \in Nat /\ DOMAIN DeviceStrings = 1..n /\ have \in SUBSET (1..n)
    BY <2>1, <2>2, LenProperties
  <2>4. \A k \in 1..n : DeviceStrings[k] \in String /\ Len(DeviceStrings[k]) <= 126
    <3> TAKE k \in 1..n
    <3>1. DeviceStrings[k] \in ToSet(DeviceStrings)
      BY <2>3 DEF ToSet
    <3> QED BY <3>1, <2>2, ElementOfSeq
  <2> HIDE DEF n
  <2> DEFINE c == Cardinality(have)
  <2>5. c \in Nat /\ Pos(have) \in [1..c -> have] /\ c <= n
    BY <2>3, PosIs, PositionsBound
  <2>6. devStrings = [j \in 1..c |-> DeviceStrings[Pos(have)[j]]]
    BY <2>1, SelectPos
  <2> HIDE DEF c
  <2>7. devStrings \in [1..c -> String] /\ \A k \in 1..c : Len(devStrings[k]) <= 126
    BY <2>3, <2>4, <2>5, <2>6
  <2>8. devStrings \in Seq(String) /\ Len(devStrings) = c
    BY <2>5, <2>7
  <2>9. c <= 3
    BY <2>2, <2>3, <2>5
  <2> QED BY <2>7, <2>8, <2>9 DEF DevInv
<1>2. DevInv /\ [Next]_vars => DevInv'
  <2> SUFFICES ASSUME DevInv, [Next]_vars PROVE DevInv'
    OBVIOUS
  <2>1. devStrings' = devStrings
    BY DEF Next, NewInterface, NewAltSetting, vars
  <2> QED BY <2>1 DEF DevInv
<1> QED BY <1>1, <1>2, PTL DEF Spec

(* A string index is too low by the number of strings the device has.       *)
OffByDevice ==
  \A k \in DOMAIN NonHid :
    NonHid[k].str # NoString =>
      /\ Len(devStrings) + StrIdx(k) \in DOMAIN FfsStrings
      /\ FfsStrings[Len(devStrings) + StrIdx(k)] = NonHid[k].str

(* Each setting that is not HID is given the index of its string among      *)
(* those of the settings, but FunctionFS is given the strings of the device *)
(* before them: every index is off by their number, as long as a byte       *)
(* counts the settings.                                                    *)
THEOREM StringsOffByDevice == Spec => [](Len(NonHid) < 256 => OffByDevice)
<1>1. ASSUME ListInv, DevInv, Len(NonHid) < 256,
             NEW k \in DOMAIN NonHid, NonHid[k].str # NoString
      PROVE  /\ Len(devStrings) + StrIdx(k) \in DOMAIN FfsStrings
             /\ FfsStrings[Len(devStrings) + StrIdx(k)] = NonHid[k].str
  <2> DEFINE m == Len(NonHid)
             K == NamedAt
             c == Cardinality(K)
             names == [j \in 1..c |-> NonHid[Pos(K)[j]].str]
  <2>1. m \in Nat /\ DOMAIN NonHid = 1..m /\ \A j \in 1..m : NonHid[j] \in Setting
    BY <1>1, NonHidIs
  <2>2. K \in SUBSET (1..m)
    BY <2>1 DEF NamedAt
  <2>3. k \in K
    BY <1>1 DEF NamedAt
  <2>4. Select(NonHid, K) = [j \in 1..c |-> NonHid[Pos(K)[j]]] /\ DOMAIN Select(NonHid, K) = 1..c
    <3> HIDE DEF K
    <3> QED BY SelectPos
  <2>5. FfsStrings = devStrings \o [j \in DOMAIN Select(NonHid, K) |-> Select(NonHid, K)[j].str]
    BY DEF FfsStrings, NamedAt
  <2>14. Named(NonHid, k) = Rank(K, k)
    BY <1>1, StrIdxIs
  <2> HIDE DEF K, m
  <2>6. /\ c \in Nat /\ Pos(K) \in [1..c -> K]
        /\ Rank(K, k) \in 1..c /\ Pos(K)[Rank(K, k)] = k
    BY <2>1, <2>2, <2>3, PosIs
  <2>7. c <= m
    BY <2>1, <2>2, PositionsBound
  <2>8. [j \in DOMAIN Select(NonHid, K) |-> Select(NonHid, K)[j].str] = names
    BY <2>4
  <2> HIDE DEF c
  <2>9. names \in Seq(String) /\ DOMAIN names = 1..c
    <3>1. \A j \in 1..c : NonHid[Pos(K)[j]].str \in String
      BY <2>1, <2>2, <2>6, SettingFields
    <3>2. names \in [1..c -> String]
      BY <3>1
    <3> HIDE DEF names
    <3> QED BY <3>2, <2>6
  <2> DEFINE d == Len(devStrings)
             all == devStrings \o names
  <2>10. FfsStrings = all
    BY <2>5, <2>8, Zenon
  <2> HIDE DEF names
  <2>15. /\ all \in Seq(String) /\ Len(all) = Len(devStrings) + Len(names)
         /\ \A i \in 1..(Len(devStrings) + Len(names)) :
              all[i] = IF i <= Len(devStrings) THEN devStrings[i] ELSE names[i - Len(devStrings)]
    BY <1>1, <2>9, ConcatProperties DEF DevInv
  <2>16. d \in Nat /\ Len(names) = c
    BY <1>1, <2>6, <2>9, LenProperties DEF DevInv
  <2> HIDE DEF all
  <2>17. DOMAIN all = 1..(d + c) /\ \A i \in 1..(d + c) : all[i] = IF i <= d THEN devStrings[i] ELSE names[i - d]
    BY <2>15, <2>16, LenProperties
  <2> HIDE DEF d
  <2>11. StrIdx(k) = Rank(K, k) % 256
    BY <1>1, <2>14 DEF StrIdx
  <2>12. Rank(K, k) % 256 = Rank(K, k)
    <3> DEFINE r == Rank(K, k)
    <3>1. r \in Nat /\ r < 256
      BY <2>6, <2>7, <2>1, <1>1 DEF m
    <3> HIDE DEF r
    <3>2. r % 256 = r
      BY <3>1
    <3> QED BY <3>2 DEF r
  <2>13. names[Rank(K, k)] = NonHid[k].str
    BY <2>6 DEF names
  <2>18. all[d + Rank(K, k)] = names[Rank(K, k)] /\ d + Rank(K, k) \in DOMAIN all
    <3> DEFINE r == Rank(K, k)
    <3>1. r \in 1..c
      BY <2>6
    <3> HIDE DEF r
    <3>2. d + r \in 1..(d + c) /\ ~(d + r <= d) /\ (d + r) - d = r
      BY <3>1, <2>6, <2>16
    <3>3. all[d + r] = names[r] /\ d + r \in DOMAIN all
      BY <3>2, <2>17
    <3> QED BY <3>3 DEF r
  <2> QED BY <2>10, <2>11, <2>12, <2>13, <2>18 DEF d
<1>2. ListInv /\ DevInv => (Len(NonHid) < 256 => OffByDevice)
  BY <1>1 DEF OffByDevice
<1> QED BY <1>2, ListCorrect, DevCorrect, PTL

(* As long as the device has no strings of its own, and the settings that  *)
(* are not HID are fewer than a byte counts, each is given its string.     *)
THEOREM StringsResolveWithoutDevice ==
  Spec => [](devStrings = <<>> /\ Len(NonHid) < 256 => StringsResolve)
<1>1. ASSUME ListInv, devStrings = <<>>, OffByDevice PROVE StringsResolve
  <2> SUFFICES ASSUME NEW k \in DOMAIN NonHid, NonHid[k].str # NoString
               PROVE  StrIdx(k) \in DOMAIN FfsStrings /\ FfsStrings[StrIdx(k)] = NonHid[k].str
    BY DEF StringsResolve
  <2>1. /\ Len(devStrings) + StrIdx(k) \in DOMAIN FfsStrings
        /\ FfsStrings[Len(devStrings) + StrIdx(k)] = NonHid[k].str
    BY <1>1 DEF OffByDevice
  <2>2. StrIdx(k) \in Nat
    BY <1>1, StrIdxIs, ByteNat
  <2>3. Len(devStrings) + StrIdx(k) = StrIdx(k)
    BY <1>1, <2>2
  <2> QED BY <2>1, <2>3
<1> QED BY <1>1, StringsOffByDevice, ListCorrect, PTL

-----------------------------------------------------------------------------
(* The way of output                                                       *)

OpenEndpoint == [iface : Byte, addr : Byte, size : Word]

Opened(claimed) == {k \in DOMAIN ifaces : ifaces[k].alt = 0 /\ ifaces[k].num \in claimed}

(* The endpoints in use are those of the first settings of the interfaces  *)
(* that were claimed.                                                      *)
LEMMA OpenIs ==
  ASSUME ListInv, NEW claimed
  PROVE  /\ openRealDevice(claimed) \in Seq(OpenEndpoint)
         /\ \A x : x \in ToSet(openRealDevice(claimed)) <=>
              \E p \in Opened(claimed) : \E j \in DOMAIN ifaces[p].eps :
                x = [iface |-> ifaces[p].num, addr |-> ifaces[p].eps[j].addr,
                     size |-> ifaces[p].eps[j].size]
<1> DEFINE n == Len(ifaces)
           K == Opened(claimed)
           c == Cardinality(K)
           open == Select(ifaces, K)
           parts == [k \in DOMAIN open |-> endpoints(open[k])]
           E(i, j) == [iface |-> i.num, addr |-> i.eps[j].addr, size |-> i.eps[j].size]
<1>1. n \in Nat /\ K \in SUBSET (1..n) /\ \A k \in K : ifaces[k] \in Setting
  BY ListFacts DEF Opened
<1>2. openRealDevice(claimed) = FlattenSeq(parts)
  BY DEF openRealDevice, Opened
<1>3. open = [j \in 1..c |-> ifaces[Pos(K)[j]]] /\ DOMAIN open = 1..c
  <2> HIDE DEF K
  <2> QED BY SelectPos
<1> HIDE DEF n, K
<1>4. /\ c \in Nat /\ Pos(K) \in [1..c -> K]
      /\ \A p \in K : Rank(K, p) \in 1..c /\ Pos(K)[Rank(K, p)] = p
  BY <1>1, PosIs
<1> HIDE DEF c, open
<1>5. parts = [k \in 1..c |-> endpoints(ifaces[Pos(K)[k]])]
  BY <1>3
<1>6. ASSUME NEW p \in K
      PROVE  /\ endpoints(ifaces[p]) \in Seq(OpenEndpoint)
             /\ Len(endpoints(ifaces[p])) = Len(ifaces[p].eps)
             /\ DOMAIN ifaces[p].eps = 1..Len(ifaces[p].eps)
             /\ \A j \in 1..Len(ifaces[p].eps) : endpoints(ifaces[p])[j] = E(ifaces[p], j)
  <2> DEFINE i == ifaces[p]
             l == Len(i.eps)
  <2>1. i \in Setting
    BY <1>1
  <2> HIDE DEF i
  <2>2. i.num \in Byte /\ i.eps \in Seq(Endpoint) /\ l \in Nat /\ DOMAIN i.eps = 1..l
    BY <2>1, SettingFields, LenProperties
  <2>3. \A j \in 1..l : i.eps[j] \in Endpoint
    BY <2>2, ElementOfSeq
  <2> HIDE DEF l
  <2>4. \A j \in 1..l : E(i, j) \in OpenEndpoint
    BY <2>2, <2>3 DEF Endpoint, OpenEndpoint
  <2>5. endpoints(i) = [j \in 1..l |-> E(i, j)]
    BY <2>2 DEF endpoints
  <2> HIDE DEF E
  <2>6. endpoints(i) \in [1..l -> OpenEndpoint]
    BY <2>4, <2>5
  <2>7. endpoints(i) \in Seq(OpenEndpoint) /\ Len(endpoints(i)) = l
    BY <2>2, <2>6
  <2>8. \A j \in 1..l : endpoints(i)[j] = E(i, j)
    BY <2>5
  <2> QED BY <2>2, <2>7, <2>8 DEF i, l, E
<1>7. \A k \in 1..c : parts[k] = endpoints(ifaces[Pos(K)[k]]) /\ Pos(K)[k] \in K
  BY <1>4, <1>5
<1> HIDE DEF E
<1>8. parts \in Seq(Seq(OpenEndpoint)) /\ Len(parts) = c
  <2>1. parts \in [1..c -> Seq(OpenEndpoint)]
    BY <1>5, <1>6, <1>7
  <2> HIDE DEF parts
  <2> QED BY <1>4, <2>1
<1> HIDE DEF parts
<1>9. /\ FlattenSeq(parts) \in Seq(OpenEndpoint)
      /\ \A x : x \in ToSet(FlattenSeq(parts)) <=>
                   \E k \in 1..c : \E j \in 1..Len(parts[k]) : x = parts[k][j]
  BY <1>8, FlattenBlocks, FlattenElements
<1>10. ASSUME NEW x, x \in ToSet(FlattenSeq(parts))
       PROVE  \E p \in K : \E j \in DOMAIN ifaces[p].eps : x = E(ifaces[p], j)
  <2>1. PICK k \in 1..c : \E j \in 1..Len(parts[k]) : x = parts[k][j]
    BY <1>9, <1>10
  <2>2. PICK j \in 1..Len(parts[k]) : x = parts[k][j]
    BY <2>1
  <2> DEFINE p == Pos(K)[k]
  <2>3. p \in K /\ parts[k] = endpoints(ifaces[p])
    BY <1>7
  <2> HIDE DEF p
  <2>4. j \in DOMAIN ifaces[p].eps /\ x = E(ifaces[p], j)
    BY <2>2, <2>3, <1>6
  <2> QED BY <2>3, <2>4
<1>11. ASSUME NEW p \in K, NEW j \in DOMAIN ifaces[p].eps
       PROVE  E(ifaces[p], j) \in ToSet(FlattenSeq(parts))
  <2> DEFINE k == Rank(K, p)
  <2>1. k \in 1..c /\ Pos(K)[k] = p
    BY <1>4
  <2> HIDE DEF k
  <2>2. parts[k] = endpoints(ifaces[p])
    BY <2>1, <1>7
  <2>3. j \in 1..Len(parts[k]) /\ parts[k][j] = E(ifaces[p], j)
    BY <2>2, <1>6
  <2> QED BY <2>1, <2>3, <1>9
<1>12. \A x : x \in ToSet(FlattenSeq(parts)) <=>
               \E p \in K : \E j \in DOMAIN ifaces[p].eps : x = E(ifaces[p], j)
  BY <1>10, <1>11
<1> QED BY <1>2, <1>9, <1>12 DEF K, E

(* outMap has the interfaces of OUT endpoints, and one of the endpoints of *)
(* each.                                                                   *)
LEMMA OutMapIs ==
  ASSUME NEW eps \in Seq(OpenEndpoint)
  PROVE  /\ \A n : n \in DOMAIN outMap(eps) <=> \E x \in ToSet(eps) : ~IsIn(x) /\ x.iface = n
         /\ \A n \in DOMAIN outMap(eps) :
              outMap(eps)[n] \in ToSet(eps) /\ ~IsIn(outMap(eps)[n]) /\ outMap(eps)[n].iface = n
<1> DEFINE outs == {k \in DOMAIN eps : ~IsIn(eps[k])}
           T(n) == {k \in outs : eps[k].iface = n}
<1>1. Len(eps) \in Nat /\ DOMAIN eps = 1..Len(eps)
  BY LenProperties
<1>2. outMap(eps) = [n \in {eps[k].iface : k \in outs} |-> eps[Max(T(n))]]
  BY DEF outMap
<1>3. ASSUME NEW n, n \in DOMAIN outMap(eps) PROVE \E x \in ToSet(eps) : ~IsIn(x) /\ x.iface = n
  <2>1. PICK k \in outs : eps[k].iface = n
    BY <1>2, <1>3
  <2>2. eps[k] \in ToSet(eps) /\ ~IsIn(eps[k])
    BY DEF ToSet
  <2> QED BY <2>1, <2>2
<1>4. ASSUME NEW x \in ToSet(eps), ~IsIn(x) PROVE x.iface \in DOMAIN outMap(eps)
  <2>1. PICK k \in DOMAIN eps : x = eps[k]
    BY DEF ToSet
  <2>2. k \in outs
    BY <1>4, <2>1
  <2> HIDE DEF T
  <2> QED BY <2>1, <2>2, <1>2
<1>5. ASSUME NEW n \in DOMAIN outMap(eps)
      PROVE  outMap(eps)[n] \in ToSet(eps) /\ ~IsIn(outMap(eps)[n]) /\ outMap(eps)[n].iface = n
  <2>1. T(n) \in SUBSET (1..Len(eps)) /\ T(n) # {}
    <3>1. PICK k \in outs : eps[k].iface = n
      BY <1>2
    <3>2. k \in T(n)
      BY <3>1
    <3> QED BY <3>2, <1>1
  <2> HIDE DEF T
  <2>2. Max(T(n)) \in T(n)
    BY <2>1, <1>1, MaxIs
  <2>3. outMap(eps)[n] = eps[Max(T(n))]
    BY <1>2
  <2>4. Max(T(n)) \in outs /\ eps[Max(T(n))].iface = n
    BY <2>2 DEF T
  <2> QED BY <2>3, <2>4 DEF ToSet
<1> QED BY <1>3, <1>4, <1>5

(* Whatever is claimed, output goes to where the reports come from, or     *)
(* nowhere.                                                                *)
THEOREM OutputComesHomeCorrect == Spec => []OutputComesHome
<1>1. ASSUME ListInv, NEW claimed, NEW k \in DOMAIN EmulatedHid
      PROVE  LET out == outMap(openRealDevice(claimed))
                 n == HidIdxToIface(IfaceToHidIdx(EmulatedHid), k - 1)
                 setting == CHOOSE i \in ToSet(ifaces) : i.num = EmulatedHid[k].num /\ i.alt = 0
                 outs == {ep \in ToSet(setting.eps) : ~IsIn(ep)}
             IN IF outs = {} \/ setting.num \notin claimed
                  THEN n \notin DOMAIN out
                  ELSE \E ep \in outs :
                         out[n] = [iface |-> setting.num, addr |-> ep.addr, size |-> ep.size]
  <2> DEFINE eps == openRealDevice(claimed)
             out == outMap(eps)
             n == HidIdxToIface(IfaceToHidIdx(EmulatedHid), k - 1)
             num == EmulatedHid[k].num
             setting == CHOOSE i \in ToSet(ifaces) : i.num = num /\ i.alt = 0
             p == Pos(HidAt)[k]
             outs == {ep \in ToSet(setting.eps) : ~IsIn(ep)}
  <2>1. n = num
    BY <1>1, RoundTrip
  <2>2. p \in HidAt /\ ifaces[p].num = num
    BY <1>1, EmulatedIs
  <2> HIDE DEF p, num, n
  <2>3. p \in DOMAIN ifaces /\ ifaces[p].alt = 0
    BY <2>2 DEF HidAt
  <2>4. \A q \in DOMAIN ifaces : ifaces[q].alt = 0 /\ ifaces[q].num = num => q = p
    BY <1>1, <2>2, <2>3, ListFacts
  <2>5. setting = ifaces[p]
    <3>1. \A i \in ToSet(ifaces) : i.num = num /\ i.alt = 0 => i = ifaces[p]
      BY <2>4 DEF ToSet
    <3>2. ifaces[p] \in ToSet(ifaces)
      BY <2>3 DEF ToSet
    <3> QED BY <3>1, <3>2, <2>2, <2>3
  <2> HIDE DEF setting
  <2>6. /\ eps \in Seq(OpenEndpoint)
        /\ \A x : x \in ToSet(eps) <=>
             \E q \in Opened(claimed) : \E j \in DOMAIN ifaces[q].eps :
               x = [iface |-> ifaces[q].num, addr |-> ifaces[q].eps[j].addr, size |-> ifaces[q].eps[j].size]
    BY <1>1, OpenIs
  <2> HIDE DEF eps
  <2>7. /\ \A m : m \in DOMAIN out <=> \E x \in ToSet(eps) : ~IsIn(x) /\ x.iface = m
        /\ \A m \in DOMAIN out : out[m] \in ToSet(eps) /\ ~IsIn(out[m]) /\ out[m].iface = m
    BY <2>6, OutMapIs
  <2> HIDE DEF out
  <2>8. ASSUME NEW x \in ToSet(eps), ~IsIn(x), x.iface = num
        PROVE  /\ num \in claimed
               /\ \E ep \in outs : x = [iface |-> num, addr |-> ep.addr, size |-> ep.size]
    <3>1. PICK q \in Opened(claimed) : \E j \in DOMAIN ifaces[q].eps :
            x = [iface |-> ifaces[q].num, addr |-> ifaces[q].eps[j].addr, size |-> ifaces[q].eps[j].size]
      BY <2>6
    <3>2. PICK j \in DOMAIN ifaces[q].eps :
            x = [iface |-> ifaces[q].num, addr |-> ifaces[q].eps[j].addr, size |-> ifaces[q].eps[j].size]
      BY <3>1
    <3> DEFINE ep == ifaces[q].eps[j]
    <3>3. q = p /\ num \in claimed
      BY <2>4, <2>8, <3>2 DEF Opened
    <3>4. ep \in ToSet(setting.eps)
      BY <2>5, <3>3 DEF ToSet
    <3>5. x = [iface |-> num, addr |-> ep.addr, size |-> ep.size]
      BY <2>2, <3>2, <3>3
    <3> HIDE DEF ep
    <3>6. ~IsIn(ep)
      BY <2>8, <3>5 DEF IsIn
    <3> QED BY <3>3, <3>4, <3>5, <3>6
  <2>9. ASSUME NEW ep \in outs, num \in claimed
        PROVE  num \in DOMAIN out
    <3>1. PICK j \in DOMAIN ifaces[p].eps : ep = ifaces[p].eps[j]
      BY <2>5 DEF ToSet
    <3> DEFINE x == [iface |-> num, addr |-> ep.addr, size |-> ep.size]
    <3>2. p \in Opened(claimed)
      BY <2>2, <2>3, <2>9 DEF Opened
    <3>3. x = [iface |-> ifaces[p].num, addr |-> ifaces[p].eps[j].addr, size |-> ifaces[p].eps[j].size]
      BY <2>2, <3>1
    <3>4. x \in ToSet(eps)
      BY <2>6, <3>2, <3>3
    <3>5. ~IsIn(x) /\ x.iface = num
      BY DEF IsIn
    <3> HIDE DEF x
    <3> QED BY <2>7, <3>4, <3>5
  <2>10. setting.num = num
    BY <2>2, <2>5
  <2>11. CASE outs = {} \/ num \notin claimed
    <3>1. num \notin DOMAIN out
      BY <2>7, <2>8, <2>11
    <3> QED BY <2>1, <2>10, <2>11, <3>1 DEF out, eps, n, num, setting
  <2>12. CASE ~(outs = {} \/ num \notin claimed)
    <3>1. num \in DOMAIN out
      BY <2>9, <2>12
    <3>2. \E ep \in outs : out[num] = [iface |-> num, addr |-> ep.addr, size |-> ep.size]
      BY <2>7, <2>8, <3>1
    <3> QED BY <2>1, <2>10, <2>12, <3>2 DEF out, eps, n, num, setting
  <2> QED BY <2>11, <2>12
<1>2. ListInv => OutputComesHome
  BY <1>1 DEF OutputComesHome
<1> QED BY <1>2, ListCorrect, PTL

-----------------------------------------------------------------------------
(* Numbers of four bytes                                                   *)

(* What four bytes have room for.                                          *)
Fits(x) == x \in Nat /\ x < 65536 * 65536

(* A number that fits is read as it was written.                           *)
LEMMA LE32Reads ==
  ASSUME NEW x \in Nat, Fits(x)
  PROVE  LE32(x) \in Seq(Byte) /\ Len(LE32(x)) = 4 /\ int32(LE32(x), 1) = x
<1> DEFINE l == x % 65536
           h == x \div 65536
<1>1. l \in Nat /\ h \in Nat /\ l < 65536 /\ h < 65536 /\ x = l + 65536 * h
  BY SMT DEF Fits
<1> HIDE DEF l, h
<1>2. ASSUME NEW w \in Nat, w < 65536
      PROVE  (w % 256) + 256 * ((w \div 256) % 256) = w
  BY <1>2, SMT
<1>3. /\ LE16(l) \in Seq(Byte) /\ Len(LE16(l)) = 2
      /\ LE16(l)[1] = l % 256 /\ LE16(l)[2] = (l \div 256) % 256
      /\ LE16(h) \in Seq(Byte) /\ Len(LE16(h)) = 2
      /\ LE16(h)[1] = h % 256 /\ LE16(h)[2] = (h \div 256) % 256
  <2>1. l \in Nat /\ h \in Nat
    BY <1>1
  <2>2. /\ LE16(l) \in Seq(Byte) /\ Len(LE16(l)) = 2
        /\ LE16(l)[1] = l % 256 /\ LE16(l)[2] = (l \div 256) % 256
    BY <2>1, LE16Bytes
  <2>3. /\ LE16(h) \in Seq(Byte) /\ Len(LE16(h)) = 2
        /\ LE16(h)[1] = h % 256 /\ LE16(h)[2] = (h \div 256) % 256
    BY <2>1, LE16Bytes
  <2> QED BY <2>2, <2>3
<1>4. LE32(x) = LE16(l) \o LE16(h)
  BY DEF LE32, l, h
<1> DEFINE p == LE16(l)
           q == LE16(h)
           s == p \o q
<1>5. /\ s \in Seq(Byte) /\ Len(s) = Len(p) + Len(q)
      /\ \A i \in 1..(Len(p) + Len(q)) : s[i] = IF i <= Len(p) THEN p[i] ELSE q[i - Len(p)]
  BY <1>3, ConcatProperties
<1>6. Len(p) = 2 /\ Len(q) = 2
  BY <1>3
<1> HIDE DEF s
<1>7. Len(s) = 4 /\ s[1] = p[1] /\ s[2] = p[2] /\ s[3] = q[1] /\ s[4] = q[2]
  <2> HIDE DEF p, q
  <2>1. Len(p) + Len(q) = 4 /\ 1 <= Len(p) /\ 2 <= Len(p) /\ ~(3 <= Len(p)) /\ ~(4 <= Len(p))
        /\ 3 - Len(p) = 1 /\ 4 - Len(p) = 2
    BY <1>6
  <2>2. 1 \in 1..4 /\ 2 \in 1..4 /\ 3 \in 1..4 /\ 4 \in 1..4
    OBVIOUS
  <2> QED BY <1>5, <2>1, <2>2
<1>8. s[1] + 256 * s[2] = l /\ s[3] + 256 * s[4] = h
  BY <1>1, <1>2, <1>3, <1>7
<1>9. s[1] \in Nat /\ s[2] \in Nat /\ s[3] \in Nat /\ s[4] \in Nat
  <2>1. 1 \in 1..Len(s) /\ 2 \in 1..Len(s) /\ 3 \in 1..Len(s) /\ 4 \in 1..Len(s)
    BY <1>7
  <2> QED BY <1>5, <2>1, ElementOfSeq, ByteNat
<1>10. s[1] + 256 * s[2] + 65536 * s[3] + 16777216 * s[4] = x
  <2> DEFINE s1 == s[1]
             s2 == s[2]
             s3 == s[3]
             s4 == s[4]
  <2>1. s1 \in Nat /\ s2 \in Nat /\ s3 \in Nat /\ s4 \in Nat /\ s1 + 256 * s2 = l /\ s3 + 256 * s4 = h
    BY <1>8, <1>9
  <2> HIDE DEF s1, s2, s3, s4
  <2>2. s1 + 256 * s2 + 65536 * s3 + 16777216 * s4 = l + 65536 * h
    BY <2>1, SMT
  <2>3. s1 + 256 * s2 + 65536 * s3 + 16777216 * s4 = x
    BY <2>2, <1>1
  <2> QED BY <2>3 DEF s1, s2, s3, s4
<1>11. int32(s, 1) = x
  <2>1. 1 + 1 = 2 /\ 1 + 2 = 3 /\ 1 + 3 = 4
    OBVIOUS
  <2> QED BY <2>1, <1>10 DEF int32
<1> QED BY <1>4, <1>5, <1>7, <1>11 DEF s

(* A number is read from where it stands.                                  *)
LEMMA Int32Left ==
  ASSUME NEW a \in Seq(Byte), NEW b \in Seq(Byte), NEW at \in Nat, 1 <= at, at + 3 <= Len(a)
  PROVE  int32(a \o b, at) = int32(a, at)
<1>1. Len(a) \in Nat /\ Len(b) \in Nat
  BY LenProperties
<1>2. \A p \in 1..(Len(a) + Len(b)) : (a \o b)[p] = IF p <= Len(a) THEN a[p] ELSE b[p - Len(a)]
  BY ConcatProperties
<1>3. \A p \in 1..Len(a) : (a \o b)[p] = a[p]
  <2> TAKE p \in 1..Len(a)
  <2>1. p \in 1..(Len(a) + Len(b)) /\ p <= Len(a)
    BY <1>1
  <2> QED BY <2>1, <1>2
<1>4. at \in 1..Len(a) /\ at + 1 \in 1..Len(a) /\ at + 2 \in 1..Len(a) /\ at + 3 \in 1..Len(a)
  BY <1>1
<1>5. /\ (a \o b)[at] = a[at] /\ (a \o b)[at + 1] = a[at + 1]
      /\ (a \o b)[at + 2] = a[at + 2] /\ (a \o b)[at + 3] = a[at + 3]
  BY <1>3, <1>4
<1> QED BY <1>5 DEF int32

(* Also if that is after a prefix.                                         *)
LEMMA Int32Right ==
  ASSUME NEW a \in Seq(Byte), NEW b \in Seq(Byte), NEW at \in Nat, 1 <= at, at + 3 <= Len(b)
  PROVE  int32(a \o b, Len(a) + at) = int32(b, at)
<1>1. Len(a) \in Nat /\ Len(b) \in Nat
  BY LenProperties
<1>2. \A p \in 1..(Len(a) + Len(b)) : (a \o b)[p] = IF p <= Len(a) THEN a[p] ELSE b[p - Len(a)]
  BY ConcatProperties
<1> DEFINE l == Len(a)
<1>3. \A p \in 1..Len(b) : (a \o b)[l + p] = b[p]
  <2> TAKE p \in 1..Len(b)
  <2>1. l + p \in 1..(l + Len(b)) /\ ~(l + p <= l) /\ (l + p) - l = p
    BY <1>1, Within
  <2> QED BY <2>1, <1>2
<1>4. /\ at \in 1..Len(b) /\ at + 1 \in 1..Len(b) /\ at + 2 \in 1..Len(b) /\ at + 3 \in 1..Len(b)
      /\ l + (at + 1) = (l + at) + 1 /\ l + (at + 2) = (l + at) + 2 /\ l + (at + 3) = (l + at) + 3
  BY <1>1
<1>5. /\ (a \o b)[l + at] = b[at] /\ (a \o b)[(l + at) + 1] = b[at + 1]
      /\ (a \o b)[(l + at) + 2] = b[at + 2] /\ (a \o b)[(l + at) + 3] = b[at + 3]
  <2>1. /\ (a \o b)[l + at] = b[at] /\ (a \o b)[l + (at + 1)] = b[at + 1]
        /\ (a \o b)[l + (at + 2)] = b[at + 2] /\ (a \o b)[l + (at + 3)] = b[at + 3]
    BY <1>3, <1>4
  <2> QED BY <2>1, <1>4
<1> QED BY <1>5 DEF int32

(* What follows a prefix.                                                  *)
LEMMA DropPrefix ==
  ASSUME NEW S, NEW a \in Seq(S), NEW b \in Seq(S)
  PROVE  SubSeq(a \o b, Len(a) + 1, Len(a \o b)) = b
<1> DEFINE l == Len(a)
           m == Len(b)
           c == a \o b
           d == SubSeq(c, l + 1, l + m)
<1>1. l \in Nat /\ m \in Nat
  BY LenProperties
<1>2. c \in Seq(S) /\ Len(c) = l + m
      /\ \A p \in 1..(l + m) : c[p] = IF p <= l THEN a[p] ELSE b[p - l]
  BY ConcatProperties
<1> HIDE DEF c, l, m
<1>3. \A i \in (l + 1)..(l + m) : c[i] \in S
  <2> TAKE i \in (l + 1)..(l + m)
  <2>1. i \in 1..Len(c)
    BY <1>1, <1>2
  <2> QED BY <2>1, <1>2, ElementOfSeq
<1>4. /\ d \in Seq(S)
      /\ Len(d) = IF l + 1 <= l + m THEN (l + m) - (l + 1) + 1 ELSE 0
      /\ \A i \in 1..((l + m) - (l + 1) + 1) : d[i] = c[(l + 1) + i - 1]
  <2>1. l + 1 \in Int /\ l + m \in Int
    BY <1>1
  <2> QED BY <2>1, <1>3, SubSeqProperties
<1> HIDE DEF d
<1>5. Len(d) = m /\ (l + m) - (l + 1) + 1 = m
  BY <1>1, <1>4
<1>6. ASSUME NEW i \in 1..m PROVE d[i] = b[i]
  <2>1. l + i \in 1..(l + m) /\ ~(l + i <= l) /\ (l + i) - l = i
    BY <1>1, Within
  <2>2. (l + 1) + i - 1 = l + i
    BY <1>1
  <2>3. d[i] = c[(l + 1) + i - 1]
    BY <1>4, <1>5
  <2> QED BY <2>1, <2>2, <2>3, <1>2
<1>7. d = b
  BY <1>4, <1>5, <1>6, SeqEqual DEF m
<1> QED BY <1>2, <1>7 DEF c, d, l

(* A function on the numbers up to m that starts with x and takes one step  *)
(* of G after another.                                                     *)
Steps(h, m, x, G) == h[0] = x /\ \A k \in Nat : k < m => h[k + 1] = G[h[k]]

(* There is one on all numbers.                                            *)
LEMMA StepsExist ==
  ASSUME NEW X, NEW G \in [X -> X], NEW x \in X
  PROVE  \E f \in [Nat -> X] : \A m \in Nat : Steps(f, m, x, G)
<1> DEFINE S == {m \in Nat : \E h \in [0..m -> X] : Steps(h, m, x, G)}
<1>1. 0 \in S
  <2> DEFINE h == [k \in 0..0 |-> x]
  <2>1. h \in [0..0 -> X] /\ h[0] = x
    OBVIOUS
  <2>2. \A k \in Nat : ~(k < 0)
    OBVIOUS
  <2> HIDE DEF h
  <2>3. Steps(h, 0, x, G)
    BY <2>1, <2>2 DEF Steps
  <2> QED BY <2>1, <2>3
<1>2. ASSUME NEW m \in Nat, m \in S PROVE m + 1 \in S
  <2>1. PICK g \in [0..m -> X] : Steps(g, m, x, G)
    BY <1>2
  <2> DEFINE h == [k \in 0..(m + 1) |-> IF k = m + 1 THEN G[g[m]] ELSE g[k]]
  <2>2. \A k \in 0..(m + 1) : k = m + 1 \/ k \in 0..m
    OBVIOUS
  <2>3. h \in [0..(m + 1) -> X]
    BY <2>2
  <2>4. h[m + 1] = G[g[m]] /\ \A k \in 0..m : h[k] = g[k]
    OBVIOUS
  <2> HIDE DEF h
  <2>5. h[0] = x
    BY <2>1, <2>4 DEF Steps
  <2>6. ASSUME NEW k \in Nat, k < m + 1 PROVE h[k + 1] = G[h[k]]
    <3>1. CASE k = m
      <4>1. k \in 0..m
        BY <3>1
      <4> QED BY <3>1, <4>1, <2>4
    <3>2. CASE k < m
      <4>1. k \in 0..m /\ k + 1 \in 0..m
        BY <3>2
      <4>2. g[k + 1] = G[g[k]]
        BY <3>2, <2>1 DEF Steps
      <4> QED BY <4>1, <4>2, <2>4
    <3> QED BY <3>1, <3>2, <2>6
  <2>7. Steps(h, m + 1, x, G)
    BY <2>5, <2>6 DEF Steps
  <2> QED BY <2>3, <2>7
<1>3. \A m \in Nat : \E h \in [0..m -> X] : Steps(h, m, x, G)
  <2>1. \A m \in Nat : m \in S
    <3> HIDE DEF S
    <3> QED BY <1>1, <1>2, SetInduction
  <2> QED BY <2>1
<1> DEFINE H == [m \in Nat |-> CHOOSE h \in [0..m -> X] : Steps(h, m, x, G)]
<1>4. \A m \in Nat : H[m] \in [0..m -> X] /\ Steps(H[m], m, x, G)
  BY <1>3
<1> HIDE DEF H
<1>5. ASSUME NEW m \in Nat PROVE H[m + 1][m] = H[m][m]
  <2> DEFINE a == H[m]
             b == H[m + 1]
             T == {k \in Nat : k <= m => b[k] = a[k]}
  <2>1. Steps(a, m, x, G) /\ Steps(b, m + 1, x, G)
    BY <1>4
  <2> HIDE DEF a, b
  <2>2. 0 \in T
    BY <2>1 DEF Steps
  <2>3. ASSUME NEW k \in Nat, k \in T PROVE k + 1 \in T
    <3> SUFFICES ASSUME k + 1 <= m PROVE b[k + 1] = a[k + 1]
      OBVIOUS
    <3>1. k <= m /\ k < m /\ k < m + 1
      OBVIOUS
    <3>2. b[k] = a[k]
      BY <3>1, <2>3
    <3> QED BY <3>1, <3>2, <2>1 DEF Steps
  <2>4. m \in T
    <3> HIDE DEF T
    <3> QED BY <2>2, <2>3, SetInduction
  <2> QED BY <2>4 DEF a, b
<1> DEFINE f == [m \in Nat |-> H[m][m]]
<1>6. f \in [Nat -> X]
  <2>1. \A m \in Nat : m \in 0..m
    OBVIOUS
  <2> QED BY <2>1, <1>4
<1>7. f[0] = x
  BY <1>4 DEF Steps
<1>8. ASSUME NEW k \in Nat PROVE f[k + 1] = G[f[k]]
  <2>1. f[k + 1] = H[k + 1][k + 1] /\ f[k] = H[k][k] /\ k < k + 1
    OBVIOUS
  <2> HIDE DEF f
  <2>2. H[k + 1][k + 1] = G[H[k + 1][k]]
    BY <2>1, <1>4 DEF Steps
  <2> QED BY <2>1, <2>2, <1>5
<1> HIDE DEF f
<1>9. \A m \in Nat : Steps(f, m, x, G)
  BY <1>7, <1>8 DEF Steps
<1> QED BY <1>6, <1>9

(* How far the reader has come.                                            *)
Reading == [ok : BOOLEAN, got : Seq(Seq(Byte)), rest : Seq(Byte)]

(* It reads one more element.                                              *)
ReadOne(s, len) ==
  IF ~s.ok \/ s.rest = <<>> \/ len[s.rest[1]] \notin 1..Len(s.rest)
    THEN [s EXCEPT !.ok = FALSE]
    ELSE [ok |-> TRUE,
          got |-> Append(s.got, SubSeq(s.rest, 1, len[s.rest[1]])),
          rest |-> SubSeq(s.rest, len[s.rest[1]] + 1, Len(s.rest))]

(* What split goes by.                                                     *)
Splits(b, len, step) ==
  step = [k \in Nat |->
            IF k = 0 THEN [ok |-> TRUE, got |-> <<>>, rest |-> b]
            ELSE LET s == step[k - 1] IN
                 IF ~s.ok \/ s.rest = <<>> \/ len[s.rest[1]] \notin 1..Len(s.rest)
                   THEN [s EXCEPT !.ok = FALSE]
                   ELSE [ok |-> TRUE,
                         got |-> Append(s.got, SubSeq(s.rest, 1, len[s.rest[1]])),
                         rest |-> SubSeq(s.rest, len[s.rest[1]] + 1, Len(s.rest))]]

(* It reads a list of strings of bytes.                                    *)
LEMMA ReadOneIs ==
  ASSUME NEW s \in Reading, NEW len \in [Byte -> Int]
  PROVE  ReadOne(s, len) \in Reading
<1>1. s.ok \in BOOLEAN /\ s.got \in Seq(Seq(Byte)) /\ s.rest \in Seq(Byte)
  BY DEF Reading
<1>2. s = [ok |-> s.ok, got |-> s.got, rest |-> s.rest]
  BY DEF Reading
<1>3. [s EXCEPT !.ok = FALSE] \in Reading
  BY DEF Reading
<1>4. CASE ~s.ok \/ s.rest = <<>> \/ len[s.rest[1]] \notin 1..Len(s.rest)
  BY <1>3, <1>4 DEF ReadOne
<1>5. CASE s.ok /\ s.rest # <<>> /\ len[s.rest[1]] \in 1..Len(s.rest)
  <2> DEFINE r == s.rest
             n == len[r[1]]
             p == SubSeq(r, 1, n)
             q == SubSeq(r, n + 1, Len(r))
  <2>1. r \in Seq(Byte) /\ Len(r) \in Nat /\ n \in 1..Len(r)
    BY <1>1, <1>5, LenProperties
  <2> HIDE DEF n
  <2> HIDE DEF r
  <2>2. (\A i \in 1..n : r[i] \in Byte) /\ (\A i \in (n + 1)..Len(r) : r[i] \in Byte)
    <3>1. (\A i \in 1..n : i \in 1..Len(r)) /\ (\A i \in (n + 1)..Len(r) : i \in 1..Len(r))
      BY <2>1
    <3> QED BY <3>1, <2>1, ElementOfSeq
  <2>3. p \in Seq(Byte) /\ q \in Seq(Byte)
    <3>1. n \in Int /\ Len(r) \in Int /\ n + 1 \in Int
      BY <2>1
    <3> QED BY <3>1, <2>2, SubSeqProperties
  <2> HIDE DEF p, q
  <2>4. Append(s.got, p) \in Seq(Seq(Byte))
    BY <1>1, <2>3, AppendProperties
  <2>5. ReadOne(s, len) = [ok |-> TRUE, got |-> Append(s.got, p), rest |-> q]
    BY <1>5 DEF ReadOne, p, q, n, r
  <2> QED BY <2>3, <2>4, <2>5 DEF Reading
<1> QED BY <1>4, <1>5

(* Over any bytes, there is what split goes by.                            *)
LEMMA SplitExists ==
  ASSUME NEW b \in Seq(Byte), NEW len \in [Byte -> Int]
  PROVE  \E step : Splits(b, len, step)
<1> DEFINE x == [ok |-> TRUE, got |-> <<>>, rest |-> b]
           G == [s \in Reading |-> ReadOne(s, len)]
<1>1. x \in Reading
  <2>1. <<>> \in Seq(Seq(Byte))
    BY EmptySeq
  <2> QED BY <2>1 DEF Reading
<1>2. G \in [Reading -> Reading]
  BY ReadOneIs
<1>3. \A s \in Reading : G[s] = ReadOne(s, len)
  OBVIOUS
<1> HIDE DEF x, G
<1>9. PICK f \in [Nat -> Reading] : \A m \in Nat : Steps(f, m, x, G)
  BY <1>1, <1>2, StepsExist
<1>4. f[0] = x /\ \A k \in Nat : f[k + 1] = G[f[k]]
  <2>1. f[0] = x
    BY <1>9 DEF Steps
  <2>2. ASSUME NEW k \in Nat PROVE f[k + 1] = G[f[k]]
    <3>1. Steps(f, k + 1, x, G) /\ k < k + 1
      BY <1>9
    <3> QED BY <3>1 DEF Steps
  <2> QED BY <2>1, <2>2
<1>5. ASSUME NEW k \in Nat
      PROVE  f[k] = IF k = 0 THEN x ELSE ReadOne(f[k - 1], len)
  <2>1. CASE k = 0
    BY <2>1, <1>4
  <2>2. CASE k # 0
    <3>1. k - 1 \in Nat /\ (k - 1) + 1 = k
      BY <2>2
    <3>2. f[k - 1] \in Reading
      BY <3>1
    <3>3. f[(k - 1) + 1] = G[f[k - 1]]
      BY <3>1, <1>4
    <3> QED BY <2>2, <3>1, <3>2, <3>3, <1>3
  <2> QED BY <2>1, <2>2
<1>6. f = [k \in Nat |-> IF k = 0 THEN x ELSE ReadOne(f[k - 1], len)]
  <2>1. f = [k \in Nat |-> f[k]]
    OBVIOUS
  <2> QED BY <2>1, <1>5
<1>7. Splits(b, len, f)
  BY <1>6 DEF Splits, ReadOne, x
<1> QED BY <1>7

(* split takes one step of it after another.                               *)
LEMMA SplitIs ==
  ASSUME NEW b \in Seq(Byte), NEW len \in [Byte -> Int]
  PROVE  \E f : /\ f[0] = [ok |-> TRUE, got |-> <<>>, rest |-> b]
                /\ \A k \in Nat : f[k + 1] = ReadOne(f[k], len)
                /\ \A n \in Nat : split(b, n, len) = f[n]
<1> DEFINE step == CHOOSE f : Splits(b, len, f)
<1>1. Splits(b, len, step)
  <2>1. \E f : Splits(b, len, f)
    BY SplitExists
  <2> HIDE DEF Splits
  <2> QED BY <2>1
<1>2. \A n \in Nat : split(b, n, len) = step[n]
  BY DEF split, Splits
<1> HIDE DEF step
<1>3. \A k \in Nat : step[k] = IF k = 0 THEN [ok |-> TRUE, got |-> <<>>, rest |-> b]
                               ELSE ReadOne(step[k - 1], len)
  BY <1>1 DEF Splits, ReadOne
<1>4. \A k \in Nat : step[k + 1] = ReadOne(step[k], len)
  <2> TAKE k \in Nat
  <2>1. k + 1 \in Nat /\ k + 1 # 0 /\ (k + 1) - 1 = k
    OBVIOUS
  <2> QED BY <2>1, <1>3
<1>5. step[0] = [ok |-> TRUE, got |-> <<>>, rest |-> b]
  BY <1>3
<1> QED BY <1>2, <1>4, <1>5

(* An element at the head of what is to be read is taken off, if len gives *)
(* its length.                                                             *)
LEMMA ReadOneTakes ==
  ASSUME NEW len, NEW got \in Seq(Seq(Byte)), NEW p \in Seq(Byte), NEW r \in Seq(Byte),
         Len(p) >= 1, len[p[1]] = Len(p)
  PROVE  ReadOne([ok |-> TRUE, got |-> got, rest |-> p \o r], len)
           = [ok |-> TRUE, got |-> Append(got, p), rest |-> r]
<1> DEFINE b == p \o r
           s == [ok |-> TRUE, got |-> got, rest |-> b]
           n == Len(p)
<1>1. n \in Nat /\ Len(r) \in Nat /\ n >= 1
  BY LenProperties
<1>2. b \in Seq(Byte) /\ Len(b) = n + Len(r)
      /\ \A i \in 1..(n + Len(r)) : b[i] = IF i <= n THEN p[i] ELSE r[i - n]
  BY ConcatProperties
<1>3. SubSeq(b, n + 1, Len(b)) = r
  BY DropPrefix
<1>4. SubSeq(b, 1, n) = p
  <2>1. 1 \in 1..n /\ n \in 1..n
    BY <1>1
  <2>2. SubSeq(b, 1, n) = SubSeq(p, 1, n)
    BY <2>1, SubSeqOfConcat1
  <2> QED BY <2>2, SubSeqFull
<1> HIDE DEF b, n
<1>5. b[1] = p[1] /\ b # <<>> /\ n \in 1..Len(b)
  <2>1. 1 \in 1..(n + Len(r)) /\ 1 <= n
    BY <1>1
  <2>2. Len(b) >= 1 /\ n \in 1..Len(b)
    BY <1>1, <1>2
  <2>3. b # <<>>
    BY <2>2, EmptySeq
  <2> QED BY <2>1, <2>2, <2>3, <1>2
<1>6. s.ok = TRUE /\ s.rest = b /\ s.got = got
  OBVIOUS
<1> HIDE DEF s
<1>7. len[b[1]] = n
  BY <1>5 DEF n
<1>8. ReadOne(s, len) = [ok |-> TRUE, got |-> Append(got, p), rest |-> r]
  BY <1>3, <1>4, <1>5, <1>6, <1>7 DEF ReadOne
<1> QED BY <1>8 DEF s, b

(* What is left of a flattened list when parts are taken off.              *)
Leaves(ss, rest) ==
  /\ rest[0] = FlattenSeq(ss) /\ rest[Len(ss)] = <<>>
  /\ \A i \in 1..Len(ss) : rest[i - 1] = ss[i] \o rest[i]

(* They can be taken off one after another.                                *)
LEMMA LeavesExist ==
  ASSUME NEW S, NEW ss \in Seq(Seq(S))
  PROVE  \E rest \in [0..Len(ss) -> Seq(S)] : Leaves(ss, rest)
<1> DEFINE flat == FlattenSeq(ss)
           n == Len(ss)
<1>1. flat \in Seq(S)
  BY FlattenBlocks
<1>2. PICK off \in [0..n -> Nat] : Blocks(ss, flat, off)
  BY FlattenBlocks
<1>3. n \in Nat /\ Len(flat) \in Nat /\ \A i \in 1..n : ss[i] \in Seq(S) /\ Len(ss[i]) \in Nat
  BY <1>1, LenProperties, ElementOfSeq
<1> HIDE DEF flat, n
<1>4. /\ off[0] = 0 /\ off[n] = Len(flat)
      /\ \A i \in 1..n : off[i] = off[i - 1] + Len(ss[i]) /\ off[i] <= off[n]
      /\ \A i \in 1..n : \A j \in 1..Len(ss[i]) : flat[off[i - 1] + j] = ss[i][j]
  BY <1>2 DEF Blocks, n
<1> DEFINE rest == [i \in 0..n |-> SubSeq(flat, off[i] + 1, Len(flat))]
<1>5. ASSUME NEW i \in 0..n
      PROVE  off[i] \in Nat /\ off[i] <= Len(flat)
  <2>1. CASE i = 0
    BY <2>1, <1>3, <1>4
  <2>2. CASE i # 0
    <3>1. i \in 1..n
      BY <2>2, <1>3
    <3> QED BY <3>1, <1>4
  <2> QED BY <2>1, <2>2
<1>6. \A i \in 0..n : SubSeq(flat, off[i] + 1, Len(flat)) \in Seq(S)
  <2> TAKE i \in 0..n
  <2>1. off[i] + 1 \in Int /\ Len(flat) \in Int
    BY <1>3, <1>5
  <2>2. \A k \in (off[i] + 1)..Len(flat) : k \in 1..Len(flat)
    BY <1>3, <1>5
  <2>3. \A k \in (off[i] + 1)..Len(flat) : flat[k] \in S
    BY <2>2, <1>1, ElementOfSeq
  <2> QED BY <2>1, <2>3, SubSeqProperties
<1>7. rest \in [0..n -> Seq(S)] /\ \A i \in 0..n : rest[i] = SubSeq(flat, off[i] + 1, Len(flat))
  BY <1>6
<1> HIDE DEF rest
<1>8. rest[0] = flat
  <2>1. 0 \in 0..n /\ off[0] + 1 = 1
    BY <1>3, <1>4
  <2> QED BY <2>1, <1>1, <1>7, SubSeqFull
<1>9. rest[n] = <<>>
  <2>1. n \in 0..n /\ Len(flat) + 1 \in Int /\ Len(flat) \in Int /\ Len(flat) < Len(flat) + 1
    BY <1>3
  <2>2. SubSeq(flat, Len(flat) + 1, Len(flat)) = <<>>
    BY <2>1, SubSeqEmpty
  <2> QED BY <2>1, <2>2, <1>4, <1>7
<1>10. ASSUME NEW i \in 1..n
       PROVE  rest[i - 1] = ss[i] \o rest[i]
  <2> DEFINE a == off[i - 1]
             l == Len(ss[i])
             c == off[i]
             m == Len(flat)
  <2>1. i - 1 \in 0..n /\ i \in 0..n
    BY <1>3
  <2>2. a \in Nat /\ l \in Nat /\ c \in Nat /\ m \in Nat /\ c = a + l /\ c <= m
    BY <2>1, <1>3, <1>4, <1>5
  <2>3. \A j \in 1..l : flat[a + j] = ss[i][j]
    BY <1>4
  <2>4. ss[i] \in Seq(S)
    BY <1>3
  <2> HIDE DEF a, l, c, m
  <2>5. SubSeq(flat, a + 1, c) = ss[i]
    <3> DEFINE d == SubSeq(flat, a + 1, c)
    <3>1. a + 1 \in Int /\ c \in Int /\ c - (a + 1) + 1 = l
      BY <2>2
    <3>2. \A k \in (a + 1)..c : k \in 1..m
      BY <2>2
    <3>3. \A k \in (a + 1)..c : flat[k] \in S
      BY <3>2, <1>1, ElementOfSeq DEF m
    <3>4. /\ d \in Seq(S) /\ Len(d) = (IF a + 1 <= c THEN c - (a + 1) + 1 ELSE 0)
          /\ \A k \in 1..(c - (a + 1) + 1) : d[k] = flat[(a + 1) + k - 1]
      BY <3>1, <3>3, SubSeqProperties
    <3> HIDE DEF d
    <3>5. Len(d) = l
      BY <3>4, <2>2
    <3>6. \A k \in 1..l : d[k] = ss[i][k]
      <4> TAKE k \in 1..l
      <4>1. (a + 1) + k - 1 = a + k
        BY <2>2
      <4> QED BY <4>1, <3>1, <3>4, <2>3
    <3>7. d = ss[i]
      BY <3>4, <3>5, <3>6, <2>4, SeqEqual DEF l
    <3> QED BY <3>7 DEF d
  <2>6. SubSeq(flat, a + 1, c) \o SubSeq(flat, c + 1, m) = SubSeq(flat, a + 1, m)
    <3>1. a + 1 \in 1..(m + 1) /\ c \in ((a + 1) - 1)..m /\ m \in c..m
      BY <2>2
    <3> QED BY <3>1, <1>1, ConcatAdjacentSubSeq DEF m
  <2> QED BY <2>1, <2>5, <2>6, <1>7 DEF a, c, m
<1>11. Leaves(ss, rest)
  BY <1>8, <1>9, <1>10 DEF Leaves, flat, n
<1> QED BY <1>7, <1>11 DEF n

(* Concatenation, of bytes.                                                *)
LEMMA ConcatBytes ==
  ASSUME NEW a \in Seq(Byte), NEW b \in Seq(Byte)
  PROVE  a \o b \in Seq(Byte) /\ Len(a \o b) = Len(a) + Len(b)
BY ConcatProperties

(* It may be grouped in any way.                                           *)
LEMMA GroupBytes ==
  ASSUME NEW a \in Seq(Byte), NEW b \in Seq(Byte), NEW c \in Seq(Byte)
  PROVE  (a \o b) \o c = a \o (b \o c)
BY ConcatAssociative

(* split finds the parts that were flattened, if len gives the length of   *)
(* each, and leaves what comes after them.                                 *)
LEMMA SplitReads ==
  ASSUME NEW len \in [Byte -> Int], NEW parts \in Seq(Seq(Byte)), NEW r \in Seq(Byte),
         \A i \in 1..Len(parts) : Len(parts[i]) >= 1 /\ len[parts[i][1]] = Len(parts[i])
  PROVE  split(FlattenSeq(parts) \o r, Len(parts), len)
           = [ok |-> TRUE, got |-> parts, rest |-> r]
<1> DEFINE n == Len(parts)
           b == FlattenSeq(parts) \o r
<1>0. n \in Nat /\ \A i \in 1..n : parts[i] \in Seq(Byte)
  BY LenProperties, ElementOfSeq
<1>1. PICK rest \in [0..n -> Seq(Byte)] : Leaves(parts, rest)
  BY LeavesExist
<1>2. /\ rest[0] = FlattenSeq(parts) /\ rest[n] = <<>>
      /\ \A i \in 1..n : rest[i - 1] = parts[i] \o rest[i]
  BY <1>1 DEF Leaves
<1>3. b \in Seq(Byte)
  BY FlattenBlocks, ConcatProperties
<1>4. b = rest[0] \o r
  BY <1>2
<1> HIDE DEF b
<1>5. PICK f : /\ f[0] = [ok |-> TRUE, got |-> <<>>, rest |-> b]
               /\ \A k \in Nat : f[k + 1] = ReadOne(f[k], len)
               /\ \A k \in Nat : split(b, k, len) = f[k]
  BY <1>3, SplitIs
<1> HIDE DEF n
<1> DEFINE at(k) == [ok |-> TRUE, got |-> SubSeq(parts, 1, k), rest |-> rest[k] \o r]
           T == {k \in Nat : k <= n => f[k] = at(k)}
<1>6. 0 \in T
  <2>1. SubSeq(parts, 1, 0) = <<>>
    BY SubSeqEmpty
  <2> QED BY <2>1, <1>4, <1>5
<1>7. ASSUME NEW k \in Nat, k \in T PROVE k + 1 \in T
  <2> SUFFICES ASSUME k + 1 <= n PROVE f[k + 1] = at(k + 1)
    OBVIOUS
  <2>1. k <= n /\ k + 1 \in 1..n /\ (k + 1) - 1 = k /\ k \in 0..n /\ k + 1 \in 0..n
    BY <1>0
  <2>2. f[k] = at(k)
    BY <2>1, <1>7
  <2> DEFINE p == parts[k + 1]
             q == rest[k + 1] \o r
             got == SubSeq(parts, 1, k)
  <2>3. p \in Seq(Byte) /\ Len(p) >= 1 /\ len[p[1]] = Len(p)
    BY <2>1, <1>0 DEF n
  <2>4. q \in Seq(Byte)
    BY <2>1, ConcatProperties
  <2>5. rest[k] \o r = p \o q
    <3>1. rest[k] = p \o rest[k + 1]
      BY <2>1, <1>2
    <3>2. p \in Seq(Byte) /\ rest[k + 1] \in Seq(Byte)
      BY <2>1, <2>3
    <3> DEFINE x == rest[k + 1]
    <3>3. rest[k] = p \o x /\ p \in Seq(Byte) /\ x \in Seq(Byte)
      BY <3>1, <3>2
    <3> HIDE DEF p, x
    <3>4. (p \o x) \o r = p \o (x \o r)
      BY <3>3, GroupBytes
    <3>5. rest[k] \o r = (p \o x) \o r
      BY <3>3
    <3>6. rest[k] \o r = p \o (x \o r)
      BY <3>4, <3>5
    <3> QED BY <3>6 DEF x
  <2>6. got \in Seq(Seq(Byte)) /\ SubSeq(parts, 1, k + 1) = Append(got, p)
    <3>1. \A i \in 1..k : parts[i] \in Seq(Byte)
      BY <2>1, <1>0
    <3>2. got \in Seq(Seq(Byte))
      BY <3>1, SubSeqProperties
    <3>3. 1 \in 1..Len(parts) /\ k + 1 \in 1..Len(parts) /\ (k + 1) - 1 = k
      BY <2>1 DEF n
    <3>4. SubSeq(parts, 1, k + 1) = SubSeq(parts, 1, (k + 1) - 1) \o <<parts[k + 1]>>
      BY <3>3, SubSeqRecursiveSecond
    <3>5. SubSeq(parts, 1, k + 1) = got \o <<p>>
      BY <3>3, <3>4
    <3> HIDE DEF p, got
    <3> QED BY <3>2, <3>5, <2>3, AppendIsConcat
  <2> HIDE DEF p, q, got
  <2>7. ReadOne([ok |-> TRUE, got |-> got, rest |-> p \o q], len)
          = [ok |-> TRUE, got |-> Append(got, p), rest |-> q]
    BY <2>3, <2>4, <2>6, ReadOneTakes
  <2>8. f[k + 1] = ReadOne(f[k], len)
    BY <1>5
  <2>9. f[k] = [ok |-> TRUE, got |-> got, rest |-> p \o q]
    BY <2>2, <2>5 DEF got
  <2>10. at(k + 1) = [ok |-> TRUE, got |-> Append(got, p), rest |-> q]
    BY <2>6 DEF q
  <2> QED BY <2>7, <2>8, <2>9, <2>10
<1>8. n \in T
  <2> HIDE DEF T
  <2> QED BY <1>0, <1>6, <1>7, SetInduction
<1>9. f[n] = at(n)
  BY <1>0, <1>8
<1>10. SubSeq(parts, 1, n) = parts /\ rest[n] \o r = r
  BY <1>2, SubSeqFull, ConcatEmptySeq DEF n
<1> QED BY <1>0, <1>5, <1>9, <1>10 DEF n, b

-----------------------------------------------------------------------------
(* The number of descriptors                                               *)

(* What countDescriptors walks over.                                       *)
CountWalk(data, count) ==
  count = [off \in Nat |->
             IF off + 1 >= Len(data) \/ data[off + 1] < 2
               THEN 0
               ELSE 1 + count[off + data[off + 1]]]

(* Over any bytes, the walk ends.                                          *)
LEMMA CountWalkExists ==
  ASSUME NEW data \in Seq(Byte)
  PROVE  \E count : CountWalk(data, count)
<1> DEFINE L == Len(data)
           Stop == {o \in Nat : o + 1 >= L \/ data[o + 1] < 2}
           val == [o \in Nat |-> 0]
           add == [o \in Nat |-> 1]
           next == [o \in Nat |-> IF o \in Stop THEN 0 ELSE o + data[o + 1]]
<1>0. L \in Nat /\ \A p \in 1..L : data[p] \in Nat
  <2>1. \A p \in 1..L : data[p] \in Byte
    BY ElementOfSeq
  <2>2. L \in Nat
    BY LenProperties
  <2> HIDE DEF L
  <2>3. \A p \in 1..L : data[p] \in Nat
    BY <2>1, ByteNat
  <2> QED BY <2>2, <2>3
<1> HIDE DEF L
<1>1. \A o \in Nat : o >= L => o \in Stop
  BY <1>0
<1>2. ASSUME NEW o \in Nat, o \notin Stop
      PROVE  data[o + 1] \in Nat /\ data[o + 1] >= 2
  <2>1. ~(o + 1 >= L) /\ ~(data[o + 1] < 2)
    BY <1>2
  <2>2. o + 1 \in 1..L
    BY <2>1, <1>0
  <2> QED BY <2>1, <2>2, <1>0
<1>3. \A o \in Nat : o \notin Stop => next[o] > o /\ next[o] = o + data[o + 1]
  <2> TAKE o \in Nat
  <2> HAVE o \notin Stop
  <2>1. next[o] = o + data[o + 1] /\ data[o + 1] \in Nat /\ data[o + 1] >= 2
    BY <1>2
  <2> QED BY <2>1
<1>4. val \in [Nat -> Nat] /\ add \in [Nat -> Nat] /\ next \in [Nat -> Nat]
  <2>1. \A o \in Nat : (IF o \in Stop THEN 0 ELSE o + data[o + 1]) \in Nat
    BY <1>2
  <2> HIDE DEF Stop
  <2> QED BY <2>1
<1>5. PICK f \in [Nat -> Nat] : Walks(f, Stop, val, add, next)
  <2> HIDE DEF Stop, val, add, next
  <2>1. Walkable(L, Stop, val, add, next)
    BY <1>0, <1>1, <1>3, <1>4 DEF Walkable
  <2> QED BY <2>1, WalkExists
<1>6. \A o \in Nat : f[o] = IF o \in Stop THEN val[o] ELSE add[o] + f[next[o]]
  <2> HIDE DEF Stop, val, add, next
  <2> QED BY <1>5 DEF Walks
<1>7. \A o \in Nat : f[o] = IF o + 1 >= L \/ data[o + 1] < 2 THEN 0 ELSE 1 + f[o + data[o + 1]]
  <2> TAKE o \in Nat
  <2>1. val[o] = 0 /\ add[o] = 1
    OBVIOUS
  <2>2. o \in Stop <=> o + 1 >= L \/ data[o + 1] < 2
    OBVIOUS
  <2> HIDE DEF Stop, val, add, next
  <2> QED BY <2>1, <2>2, <1>3, <1>6
<1>8. f = [o \in Nat |-> IF o + 1 >= L \/ data[o + 1] < 2 THEN 0 ELSE 1 + f[o + data[o + 1]]]
  <2>1. f = [o \in Nat |-> f[o]]
    OBVIOUS
  <2> QED BY <2>1, <1>7
<1>9. CountWalk(data, f)
  BY <1>8 DEF CountWalk, L
<1> QED BY <1>9

(* It counts descriptors that follow one another.                          *)
LEMMA CountIs ==
  ASSUME NEW ss \in Seq(Seq(Byte)), \A i \in 1..Len(ss) : IsDescriptor(ss[i])
  PROVE  countDescriptors(FlattenSeq(ss)) = Len(ss)
<1> DEFINE flat == FlattenSeq(ss)
           n == Len(ss)
           count == CHOOSE f : CountWalk(flat, f)
<1>1. flat \in Seq(Byte)
  BY FlattenBlocks
<1>2. PICK off \in [0..n -> Nat] : Blocks(ss, flat, off)
  BY FlattenBlocks
<1>3. countDescriptors(flat) = count[0]
  BY DEF countDescriptors, CountWalk
<1>4. CountWalk(flat, count)
  <2>1. \E f : CountWalk(flat, f)
    BY <1>1, CountWalkExists
  <2> HIDE DEF CountWalk
  <2> QED BY <2>1
<1> HIDE DEF flat, count
<1>5. /\ n \in Nat /\ Len(flat) \in Nat
      /\ \A i \in 1..n : Len(ss[i]) \in Nat /\ Len(ss[i]) >= 2 /\ ss[i][1] = Len(ss[i])
  <2>1. \A i \in 1..n : ss[i] \in Seq(Byte)
    BY ElementOfSeq
  <2>2. \A i \in 1..n : Len(ss[i]) \in Nat
    BY <2>1, LenProperties
  <2>3. n \in Nat /\ Len(flat) \in Nat
    BY <1>1, LenProperties
  <2> QED BY <2>2, <2>3 DEF IsDescriptor
<1> HIDE DEF n
<1>6. /\ off[0] = 0 /\ off[n] = Len(flat)
      /\ \A i \in 1..n : off[i] = off[i - 1] + Len(ss[i]) /\ off[i] <= off[n]
      /\ \A i \in 1..n : \A j \in 1..Len(ss[i]) : flat[off[i - 1] + j] = ss[i][j]
  BY <1>2 DEF Blocks, n
<1>7. \A o \in Nat : count[o] = IF o + 1 >= Len(flat) \/ flat[o + 1] < 2
                                  THEN 0 ELSE 1 + count[o + flat[o + 1]]
  BY <1>4 DEF CountWalk
<1> DEFINE T == {m \in Nat : m <= n => count[off[n - m]] = m}
<1>8. 0 \in T
  <2>1. off[n] \in Nat /\ off[n] + 1 >= Len(flat) /\ n - 0 = n
    BY <1>5, <1>6
  <2> QED BY <2>1, <1>7
<1>9. ASSUME NEW m \in Nat, m \in T PROVE m + 1 \in T
  <2> SUFFICES ASSUME m + 1 <= n PROVE count[off[n - (m + 1)]] = m + 1
    OBVIOUS
  <2> DEFINE i == n - m
             o == off[i - 1]
             l == Len(ss[i])
  <2>1. i \in 1..n /\ i - 1 \in 0..n /\ n - (m + 1) = i - 1 /\ m <= n
    BY <1>5
  <2>2. count[off[i]] = m
    BY <2>1, <1>9
  <2>3. off[i] = o + l /\ off[i] <= Len(flat) /\ o \in Nat /\ l \in Nat /\ l >= 2 /\ ss[i][1] = l
    BY <2>1, <1>5, <1>6
  <2>4. 1 \in 1..l
    BY <2>3
  <2>5. flat[o + 1] = l
    BY <2>1, <2>3, <2>4, <1>6
  <2> HIDE DEF i, l, o
  <2>6. ~(o + 1 >= Len(flat)) /\ ~(flat[o + 1] < 2)
    BY <2>3, <2>5, <1>5
  <2>7. count[o] = 1 + count[o + flat[o + 1]]
    BY <2>3, <2>6, <1>7
  <2>8. count[o] = 1 + m
    BY <2>2, <2>3, <2>5, <2>7
  <2> QED BY <2>1, <2>8 DEF o
<1>10. n \in T
  <2> HIDE DEF T
  <2> QED BY <1>5, <1>8, <1>9, SetInduction
<1>11. count[off[0]] = n
  <2>1. n - n = 0 /\ n <= n
    BY <1>5
  <2> QED BY <2>1, <1>10
<1> QED BY <1>3, <1>6, <1>11 DEF flat, n

-----------------------------------------------------------------------------
(* Lengths                                                                 *)

(* Parts of limited length make a list of limited length.                  *)
LEMMA FlattenBound ==
  ASSUME NEW S, NEW ss \in Seq(Seq(S)), NEW B \in Nat, \A i \in 1..Len(ss) : Len(ss[i]) <= B
  PROVE  Len(FlattenSeq(ss)) \in Nat /\ Len(FlattenSeq(ss)) <= B * Len(ss)
<1> DEFINE flat == FlattenSeq(ss)
           n == Len(ss)
<1>1. PICK off \in [0..n -> Nat] : Blocks(ss, flat, off)
  BY FlattenBlocks
<1>2. /\ off[0] = 0 /\ off[n] = Len(flat)
      /\ \A i \in 1..n : off[i] = off[i - 1] + Len(ss[i])
  BY <1>1 DEF Blocks
<1>3. n \in Nat /\ \A i \in 1..n : Len(ss[i]) \in Nat /\ Len(ss[i]) <= B
  BY ElementOfSeq, LenProperties
<1> HIDE DEF flat, n
<1> DEFINE T == {m \in Nat : m <= n => off[m] <= B * m}
<1>4. 0 \in T
  BY <1>2
<1>5. ASSUME NEW m \in Nat, m \in T PROVE m + 1 \in T
  <2> SUFFICES ASSUME m + 1 <= n PROVE off[m + 1] <= B * (m + 1)
    OBVIOUS
  <2>1. m <= n /\ m + 1 \in 1..n /\ (m + 1) - 1 = m /\ m \in 0..n /\ m + 1 \in 0..n
    BY <1>3
  <2>2. off[m] <= B * m
    BY <2>1, <1>5
  <2>3. off[m + 1] = off[m] + Len(ss[m + 1])
    BY <2>1, <1>2
  <2>4. off[m] \in Nat /\ Len(ss[m + 1]) \in Nat /\ Len(ss[m + 1]) <= B
    BY <2>1, <1>3
  <2>5. B * (m + 1) = B * m + B /\ B * m \in Nat
    OBVIOUS
  <2> QED BY <2>2, <2>3, <2>4, <2>5
<1>6. n \in T
  <2> HIDE DEF T
  <2> QED BY <1>3, <1>4, <1>5, SetInduction
<1>7. off[n] <= B * n /\ off[n] \in Nat
  BY <1>3, <1>6
<1> QED BY <1>2, <1>7 DEF flat, n

(* What Total goes by.                                                     *)
Totals(s, upTo) == upTo = [k \in 0..Len(s) |-> IF k = 0 THEN 0 ELSE upTo[k - 1] + s[k]]

(* The lengths of the parts add up to that of the list.                    *)
LEMMA TotalIs ==
  ASSUME NEW S, NEW ss \in Seq(Seq(S)),
         NEW s \in Seq(Nat), Len(s) = Len(ss), \A k \in 1..Len(ss) : s[k] = Len(ss[k])
  PROVE  Total(s) = Len(FlattenSeq(ss))
<1> DEFINE flat == FlattenSeq(ss)
           n == Len(ss)
           upTo == CHOOSE f : Totals(s, f)
<1>1. PICK off \in [0..n -> Nat] : Blocks(ss, flat, off)
  BY FlattenBlocks
<1>2. /\ off[0] = 0 /\ off[n] = Len(flat)
      /\ \A i \in 1..n : off[i] = off[i - 1] + Len(ss[i])
  BY <1>1 DEF Blocks
<1>3. n \in Nat /\ Len(s) = n /\ \A k \in 1..n : s[k] = Len(ss[k]) /\ Len(ss[k]) \in Nat
  BY ElementOfSeq, LenProperties
<1>4. Total(s) = upTo[n]
  BY <1>3 DEF Total, Totals
<1> HIDE DEF upTo, n
<1>5. Totals(s, off)
  <2>1. \A k \in 0..n : off[k] = IF k = 0 THEN 0 ELSE off[k - 1] + s[k]
    <3> TAKE k \in 0..n
    <3>1. CASE k = 0
      BY <3>1, <1>2
    <3>2. CASE k # 0
      <4>1. k \in 1..n
        BY <3>2, <1>3
      <4> QED BY <3>2, <4>1, <1>2, <1>3
    <3> QED BY <3>1, <3>2
  <2>2. off = [k \in 0..n |-> off[k]]
    OBVIOUS
  <2>3. off = [k \in 0..n |-> IF k = 0 THEN 0 ELSE off[k - 1] + s[k]]
    BY <2>1, <2>2
  <2> QED BY <2>3, <1>3 DEF Totals
<1>6. Totals(s, upTo)
  BY <1>5 DEF upTo
<1>7. \A k \in 0..n : upTo[k] = IF k = 0 THEN 0 ELSE upTo[k - 1] + s[k]
  BY <1>3, <1>6 DEF Totals
<1> DEFINE T == {m \in Nat : m <= n => upTo[m] = off[m]}
<1>8. 0 \in T
  BY <1>2, <1>3, <1>7
<1>9. ASSUME NEW m \in Nat, m \in T PROVE m + 1 \in T
  <2> SUFFICES ASSUME m + 1 <= n PROVE upTo[m + 1] = off[m + 1]
    OBVIOUS
  <2>1. m <= n /\ m + 1 \in 1..n /\ (m + 1) - 1 = m /\ m + 1 \in 0..n /\ m + 1 # 0
    BY <1>3
  <2>2. upTo[m] = off[m]
    BY <2>1, <1>9
  <2>3. off[m + 1] = off[m] + Len(ss[m + 1])
    BY <2>1, <1>2
  <2>4. upTo[m + 1] = upTo[m] + s[m + 1]
    BY <2>1, <1>7
  <2> QED BY <2>1, <2>2, <2>3, <2>4, <1>3
<1>10. n \in T
  <2> HIDE DEF T
  <2> QED BY <1>3, <1>8, <1>9, SetInduction
<1>11. upTo[n] = off[n]
  BY <1>3, <1>10
<1> QED BY <1>2, <1>4, <1>11 DEF flat

(* There are only so many settings: a byte and another one tell them apart. *)
LEMMA ListBound ==
  ASSUME ListInv
  PROVE  Len(ifaces) \in Nat /\ Len(ifaces) <= 65536
<1> DEFINE n == Len(ifaces)
           key(k) == 256 * ifaces[k].num + ifaces[k].alt
<1>1. n \in Nat /\ DOMAIN ifaces = 1..n /\ \A k \in 1..n : ifaces[k] \in Setting
  BY ListFacts
<1>2. \A k \in 1..n : /\ ifaces[k].num \in Nat /\ ifaces[k].num <= 255
                      /\ ifaces[k].alt \in Nat /\ ifaces[k].alt <= 255
  BY <1>1, SettingFields, ByteNat
<1>3. \A j, k \in 1..n : j < k => Before(ifaces[j], ifaces[k])
  BY <1>1 DEF ListInv
<1> HIDE DEF n
<1>4. ASSUME NEW j \in 1..n, NEW k \in 1..n, j < k PROVE key(j) < key(k)
  <2> DEFINE a == ifaces[j].num
             b == ifaces[j].alt
             c == ifaces[k].num
             d == ifaces[k].alt
  <2>1. a \in Nat /\ b \in Nat /\ b <= 255 /\ c \in Nat /\ d \in Nat
    BY <1>2
  <2>2. a < c \/ (a = c /\ b < d)
    BY <1>3, <1>4 DEF Before
  <2> HIDE DEF a, b, c, d
  <2>3. 256 * a + b < 256 * c + d
    BY <2>1, <2>2
  <2> QED BY <2>3 DEF a, b, c, d
<1>5. \A k \in 1..n : key(k) \in Nat /\ key(k) <= 65535
  <2> TAKE k \in 1..n
  <2> DEFINE a == ifaces[k].num
             b == ifaces[k].alt
  <2>1. a \in Nat /\ a <= 255 /\ b \in Nat /\ b <= 255
    BY <1>2
  <2> HIDE DEF a, b
  <2>2. 256 * a + b \in Nat /\ 256 * a + b <= 65535
    BY <2>1
  <2> QED BY <2>2 DEF a, b
<1> HIDE DEF key
<1> DEFINE T == {m \in Nat : m + 1 <= n => key(m + 1) >= m}
<1>6. 0 \in T
  <2> SUFFICES ASSUME 0 + 1 <= n PROVE key(0 + 1) >= 0
    OBVIOUS
  <2>1. 0 + 1 \in 1..n
    BY <1>1
  <2> QED BY <2>1, <1>5
<1>7. ASSUME NEW m \in Nat, m \in T PROVE m + 1 \in T
  <2> SUFFICES ASSUME (m + 1) + 1 <= n PROVE key((m + 1) + 1) >= m + 1
    OBVIOUS
  <2>1. m + 1 \in 1..n /\ (m + 1) + 1 \in 1..n /\ m + 1 <= n /\ m + 1 < (m + 1) + 1
    BY <1>1
  <2>2. key(m + 1) >= m
    BY <2>1, <1>7
  <2>3. key(m + 1) < key((m + 1) + 1)
    BY <2>1, <1>4
  <2>4. key(m + 1) \in Nat /\ key((m + 1) + 1) \in Nat
    BY <2>1, <1>5
  <2> QED BY <2>2, <2>3, <2>4
<1>8. CASE n > 65536
  <2>1. n - 1 \in Nat /\ (n - 1) + 1 = n /\ n \in 1..n
    BY <1>1, <1>8
  <2>2. n - 1 \in T
    <3> HIDE DEF T
    <3> QED BY <2>1, <1>6, <1>7, SetInduction
  <2>3. key(n) >= n - 1
    BY <2>1, <2>2
  <2>4. key(n) \in Nat /\ key(n) <= 65535
    BY <2>1, <1>5
  <2> QED BY <2>3, <2>4, <1>1, <1>8
<1> QED BY <1>1, <1>8 DEF n

-----------------------------------------------------------------------------
(* Encoded strings                                                         *)

(* Code points are numbers.                                                *)
LEMMA CodePointNat == \A c \in CodePoint : c \in Nat
<1>1. MaxRune \in Int
  BY SMT DEF MaxRune
<1> QED BY <1>1 DEF CodePoint

(* A code point takes one unit or two.                                     *)
LEMMA UnitsIs ==
  ASSUME NEW c \in Nat
  PROVE  units(c) \in Seq(Byte) /\ Len(units(c)) = IF OneUnit(c) THEN 2 ELSE 4
<1>1. CASE OneUnit(c)
  <2>2. LE16(c) \in Seq(Byte) /\ Len(LE16(c)) = 2
    BY LE16Bytes
  <2> QED BY <1>1, <2>2 DEF units
<1>2. CASE ~OneUnit(c)
  <2> DEFINE x == 55296 + (c - 65536) \div 1024
             y == 56320 + ((c - 65536) % 1024)
  <2>1. x \in Nat /\ y \in Nat
    BY <1>2, SMT DEF OneUnit
  <2> HIDE DEF x, y
  <2>2. LE16(x) \in Seq(Byte) /\ Len(LE16(x)) = 2 /\ LE16(y) \in Seq(Byte) /\ Len(LE16(y)) = 2
    BY <2>1, LE16Bytes
  <2>3. LE16(x) \o LE16(y) \in Seq(Byte) /\ Len(LE16(x) \o LE16(y)) = Len(LE16(x)) + Len(LE16(y))
    BY <2>2, ConcatBytes
  <2>4. units(c) = LE16(x) \o LE16(y)
    BY <1>2 DEF units, x, y
  <2>5. Len(units(c)) = 4
    BY <2>2, <2>3, <2>4
  <2> QED BY <1>2, <2>3, <2>4, <2>5
<1> QED BY <1>1, <1>2

(* Parts of two bytes or four make a list of an even number of them.       *)
LEMMA FlattenEven ==
  ASSUME NEW S, NEW ss \in Seq(Seq(S)), \A i \in 1..Len(ss) : Len(ss[i]) \in {2, 4}
  PROVE  \E h \in Nat : Len(FlattenSeq(ss)) = 2 * h /\ h <= 2 * Len(ss)
<1> DEFINE flat == FlattenSeq(ss)
           n == Len(ss)
<1>1. PICK off \in [0..n -> Nat] : Blocks(ss, flat, off)
  BY FlattenBlocks
<1>2. /\ off[0] = 0 /\ off[n] = Len(flat)
      /\ \A i \in 1..n : off[i] = off[i - 1] + Len(ss[i])
  BY <1>1 DEF Blocks
<1>3. n \in Nat /\ \A i \in 1..n : Len(ss[i]) = 2 \/ Len(ss[i]) = 4
  BY LenProperties
<1> HIDE DEF flat, n
<1> DEFINE T == {m \in Nat : m <= n => \E h \in Nat : off[m] = 2 * h /\ h <= 2 * m}
<1>4. 0 \in T
  <2>1. 0 \in Nat /\ off[0] = 2 * 0 /\ 0 <= 2 * 0
    BY <1>2
  <2> QED BY <2>1
<1>5. ASSUME NEW m \in Nat, m \in T PROVE m + 1 \in T
  <2> SUFFICES ASSUME m + 1 <= n PROVE \E h \in Nat : off[m + 1] = 2 * h /\ h <= 2 * (m + 1)
    OBVIOUS
  <2>1. m <= n /\ m + 1 \in 1..n /\ (m + 1) - 1 = m
    BY <1>3
  <2>2. PICK h \in Nat : off[m] = 2 * h /\ h <= 2 * m
    BY <2>1, <1>5
  <2>3. off[m + 1] = off[m] + Len(ss[m + 1])
    BY <2>1, <1>2
  <2>4. CASE Len(ss[m + 1]) = 2
    <3>1. h + 1 \in Nat /\ off[m + 1] = 2 * (h + 1) /\ h + 1 <= 2 * (m + 1)
      BY <2>2, <2>3, <2>4
    <3> QED BY <3>1
  <2>5. CASE Len(ss[m + 1]) = 4
    <3>1. h + 2 \in Nat /\ off[m + 1] = 2 * (h + 2) /\ h + 2 <= 2 * (m + 1)
      BY <2>2, <2>3, <2>5
    <3> QED BY <3>1
  <2> QED BY <2>1, <2>4, <2>5, <1>3
<1>6. n \in T
  <2> HIDE DEF T
  <2> QED BY <1>3, <1>4, <1>5, SetInduction
<1>7. \E h \in Nat : off[n] = 2 * h /\ h <= 2 * n
  BY <1>3, <1>6
<1> QED BY <1>2, <1>7 DEF flat, n

(* The encoding of a string.                                               *)
Encoded(s) == [k \in DOMAIN s |-> units(s[k])]

(* A string as it is written: its length comes first, and is that added up *)
(* for it.                                                                 *)
Sized(s, bytes) ==
  /\ bytes \in Seq(Byte) /\ Len(bytes) \in Nat /\ Len(bytes) >= 1 /\ Len(bytes) <= 505
  /\ 2 * bytes[1] - 1 = Len(bytes)
  /\ sizeOf(s) = Len(bytes)

(* After it comes the encoding.                                            *)
Written(s, bytes) == Sized(s, bytes) /\ Tail(bytes) = FlattenSeq(Encoded(s))

(* A short string is.                                                      *)
LEMMA StringBytesIs ==
  ASSUME NEW s \in String, Len(s) <= 126
  PROVE  Written(s, stringBytes(s))
<1> DEFINE n == Len(s)
           enc == Encoded(s)
           buf == FlattenSeq(enc)
           two == [k \in DOMAIN s |-> IF OneUnit(s[k]) THEN 2 ELSE 4]
<1>1. n \in Nat /\ DOMAIN s = 1..n /\ n <= 126
  BY LenProperties DEF String
<1>2. \A k \in 1..n : s[k] \in Nat
  BY ElementOfSeq, CodePointNat DEF String
<1> HIDE DEF n
<1>3. ASSUME NEW k \in 1..n
      PROVE  units(s[k]) \in Seq(Byte) /\ Len(units(s[k])) = IF OneUnit(s[k]) THEN 2 ELSE 4
  <2> DEFINE c == s[k]
  <2>1. c \in Nat
    BY <1>2
  <2> HIDE DEF c
  <2>2. units(c) \in Seq(Byte) /\ Len(units(c)) = IF OneUnit(c) THEN 2 ELSE 4
    BY <2>1, UnitsIs
  <2> QED BY <2>2 DEF c
<1>4. /\ enc \in Seq(Seq(Byte)) /\ Len(enc) = n
      /\ \A k \in 1..n : enc[k] = units(s[k])
  <2>1. enc = [k \in 1..n |-> units(s[k])]
    BY <1>1 DEF Encoded
  <2>2. enc \in [1..n -> Seq(Byte)]
    BY <2>1, <1>3
  <2> HIDE DEF enc
  <2> QED BY <2>1, <2>2, <1>1
<1>5. two \in Seq(Nat) /\ Len(two) = n /\ \A k \in 1..n : two[k] = IF OneUnit(s[k]) THEN 2 ELSE 4
  <2>1. two = [k \in 1..n |-> IF OneUnit(s[k]) THEN 2 ELSE 4]
    BY <1>1
  <2>2. two \in [1..n -> Nat]
    BY <2>1
  <2> HIDE DEF two
  <2> QED BY <2>1, <2>2, <1>1
<1> HIDE DEF enc, two
<1>6. buf \in Seq(Byte)
  BY <1>4, FlattenBlocks
<1>7. \A k \in 1..Len(enc) : Len(enc[k]) \in {2, 4} /\ two[k] = Len(enc[k])
  <2> TAKE k \in 1..Len(enc)
  <2>1. k \in 1..n
    BY <1>4
  <2>4. enc[k] = units(s[k])
    BY <2>1, <1>4
  <2>2. Len(enc[k]) = IF OneUnit(s[k]) THEN 2 ELSE 4
    BY <2>1, <2>4, <1>3
  <2>3. two[k] = IF OneUnit(s[k]) THEN 2 ELSE 4
    BY <2>1, <1>5
  <2> QED BY <2>2, <2>3
<1>8. Total(two) = Len(buf)
  BY <1>4, <1>5, <1>7, TotalIs
<1>9. PICK h \in Nat : Len(buf) = 2 * h /\ h <= 2 * Len(enc)
  BY <1>4, <1>7, FlattenEven
<1> HIDE DEF buf
<1>10. h <= 252
  BY <1>1, <1>4, <1>9
<1>11. (1 + Len(buf) \div 2) % 256 = 1 + h
  <2>1. Len(buf) \div 2 = h
    BY <1>9
  <2>2. (1 + h) % 256 = 1 + h
    BY <1>10
  <2> QED BY <2>1, <2>2
<1> DEFINE a == <<1 + h>>
           c == a \o buf
<1>12. stringBytes(s) = c
  BY <1>11 DEF stringBytes, buf, enc, Encoded
<1>13. a \in Seq(Byte) /\ Len(a) = 1 /\ a[1] = 1 + h
  <2>1. 1 + h \in Byte
    BY <1>10 DEF Byte
  <2> QED BY <2>1
<1> HIDE DEF a
<1>14. c \in Seq(Byte) /\ Len(c) = 1 + 2 * h /\ c[1] = 1 + h
  <2>1. /\ c \in Seq(Byte) /\ Len(c) = Len(a) + Len(buf)
        /\ \A i \in 1..(Len(a) + Len(buf)) : c[i] = IF i <= Len(a) THEN a[i] ELSE buf[i - Len(a)]
    BY <1>6, <1>13, ConcatProperties
  <2> HIDE DEF c
  <2>2. 1 \in 1..(Len(a) + Len(buf)) /\ 1 <= Len(a) /\ Len(a) + Len(buf) = 1 + 2 * h
    BY <1>9, <1>13
  <2> QED BY <2>1, <2>2, <1>13
<1>15. Tail(c) = buf
  <2>1. SubSeq(c, Len(a) + 1, Len(c)) = buf
    BY <1>6, <1>13, DropPrefix
  <2> HIDE DEF c
  <2>2. c # <<>>
    BY <1>9, <1>14, EmptySeq
  <2>3. Tail(c) = SubSeq(c, 2, Len(c))
    BY <2>2, <1>14, TailIsSubSeq
  <2>4. Len(a) + 1 = 2
    BY <1>13
  <2> QED BY <2>1, <2>3, <2>4
<1> HIDE DEF c
<1>16. sizeOf(s) = 1 + 2 * h
  BY <1>8, <1>9 DEF sizeOf, two
<1>17. Len(c) \in Nat /\ Len(c) >= 1 /\ Len(c) <= 505 /\ 2 * c[1] - 1 = Len(c)
  BY <1>10, <1>14
<1>18. Tail(c) = FlattenSeq(Encoded(s))
  BY <1>15, Zenon DEF buf, enc
<1>19. /\ sizeOf(s) = Len(c) /\ c \in Seq(Byte) /\ Len(c) \in Nat /\ Len(c) >= 1 /\ Len(c) <= 505
       /\ 2 * c[1] - 1 = Len(c)
  BY <1>14, <1>16, <1>17
<1>20. Sized(s, c)
  BY <1>19, Zenon DEF Sized
<1>21. Written(s, c)
  BY <1>18, <1>20, Zenon DEF Written
<1> QED BY <1>12, <1>21, Zenon

-----------------------------------------------------------------------------
(* Headers                                                                 *)

(* A number at the head of what is read, and what comes after it.          *)
LEMMA WordReads ==
  ASSUME NEW x, Fits(x), NEW t \in Seq(Byte)
  PROVE  /\ LE32(x) \o t \in Seq(Byte) /\ Len(LE32(x) \o t) = 4 + Len(t)
         /\ int32(LE32(x) \o t, 1) = x
         /\ \A at \in Nat : 1 <= at /\ at + 3 <= Len(t) =>
              int32(LE32(x) \o t, 4 + at) = int32(t, at)
<1>1. LE32(x) \in Seq(Byte) /\ Len(LE32(x)) = 4 /\ int32(LE32(x), 1) = x
  <2>1. x \in Nat
    BY DEF Fits
  <2> QED BY <2>1, LE32Reads
<1> DEFINE w == LE32(x)
<1>2. w \in Seq(Byte) /\ Len(w) = 4 /\ int32(w, 1) = x
  BY <1>1
<1> HIDE DEF w
<1>3. w \o t \in Seq(Byte) /\ Len(w \o t) = Len(w) + Len(t)
  BY <1>2, ConcatBytes
<1>4. int32(w \o t, 1) = x
  <2>1. 1 \in Nat /\ 1 <= 1 /\ 1 + 3 <= Len(w)
    BY <1>2
  <2> QED BY <2>1, <1>2, Int32Left
<1>5. ASSUME NEW at \in Nat, 1 <= at, at + 3 <= Len(t)
      PROVE  int32(w \o t, 4 + at) = int32(t, at)
  <2>1. int32(w \o t, Len(w) + at) = int32(t, at)
    BY <1>2, <1>5, Int32Right
  <2> QED BY <2>1, <1>2
<1>6. Len(w \o t) = 4 + Len(t)
  BY <1>2, <1>3
<1> QED BY <1>3, <1>4, <1>5, <1>6 DEF w

(* A header of four numbers.                                               *)
Headed(b, x1, x2, x3, x4, t) ==
  b = LE32(x1) \o (LE32(x2) \o (LE32(x3) \o (LE32(x4) \o t)))

(* They are read as they were written.                                     *)
LEMMA HeaderReads ==
  ASSUME NEW x1, NEW x2, NEW x3, NEW x4, Fits(x1), Fits(x2), Fits(x3), Fits(x4),
         NEW t \in Seq(Byte), NEW b, Headed(b, x1, x2, x3, x4, t)
  PROVE  /\ b \in Seq(Byte) /\ Len(b) = 16 + Len(t)
         /\ int32(b, 1) = x1 /\ int32(b, 5) = x2 /\ int32(b, 9) = x3 /\ int32(b, 13) = x4
         /\ \A at \in Nat : 1 <= at /\ at + 3 <= Len(t) => int32(b, 16 + at) = int32(t, at)
<1> DEFINE t4 == LE32(x4) \o t
           t3 == LE32(x3) \o t4
           t2 == LE32(x2) \o t3
           t1 == LE32(x1) \o t2
<1>0. Len(t) \in Nat
  BY LenProperties
<1>4. /\ t4 \in Seq(Byte) /\ Len(t4) = 4 + Len(t) /\ int32(t4, 1) = x4
      /\ \A at \in Nat : 1 <= at /\ at + 3 <= Len(t) => int32(t4, 4 + at) = int32(t, at)
  BY WordReads
<1> HIDE DEF t4
<1>3. /\ t3 \in Seq(Byte) /\ Len(t3) = 4 + Len(t4) /\ int32(t3, 1) = x3
      /\ \A at \in Nat : 1 <= at /\ at + 3 <= Len(t4) => int32(t3, 4 + at) = int32(t4, at)
  <2>1. t4 \in Seq(Byte)
    BY <1>4
  <2> QED BY <2>1, WordReads
<1> HIDE DEF t3
<1>2. /\ t2 \in Seq(Byte) /\ Len(t2) = 4 + Len(t3) /\ int32(t2, 1) = x2
      /\ \A at \in Nat : 1 <= at /\ at + 3 <= Len(t3) => int32(t2, 4 + at) = int32(t3, at)
  <2>1. t3 \in Seq(Byte)
    BY <1>3
  <2> QED BY <2>1, WordReads
<1> HIDE DEF t2
<1>1. /\ t1 \in Seq(Byte) /\ Len(t1) = 4 + Len(t2) /\ int32(t1, 1) = x1
      /\ \A at \in Nat : 1 <= at /\ at + 3 <= Len(t2) => int32(t1, 4 + at) = int32(t2, at)
  <2>1. t2 \in Seq(Byte)
    BY <1>2
  <2> QED BY <2>1, WordReads
<1> HIDE DEF t1
<1>5. /\ Len(t4) = 4 + Len(t) /\ Len(t3) = 8 + Len(t) /\ Len(t2) = 12 + Len(t)
      /\ Len(t1) = 16 + Len(t)
  BY <1>0, <1>1, <1>2, <1>3, <1>4
<1>6. \A at \in Nat : 1 <= at /\ at + 3 <= Len(t) => int32(t1, 16 + at) = int32(t, at)
  <2> TAKE at \in Nat
  <2> HAVE 1 <= at /\ at + 3 <= Len(t)
  <2>1. int32(t4, 4 + at) = int32(t, at)
    BY <1>4
  <2>2. int32(t3, 4 + (4 + at)) = int32(t4, 4 + at)
    <3>1. 4 + at \in Nat /\ 1 <= 4 + at /\ (4 + at) + 3 <= Len(t4)
      BY <1>0, <1>5
    <3> QED BY <3>1, <1>3
  <2>3. int32(t2, 4 + (8 + at)) = int32(t3, 8 + at)
    <3>1. 8 + at \in Nat /\ 1 <= 8 + at /\ (8 + at) + 3 <= Len(t3)
      BY <1>0, <1>5
    <3> QED BY <3>1, <1>2
  <2>4. int32(t1, 4 + (12 + at)) = int32(t2, 12 + at)
    <3>1. 12 + at \in Nat /\ 1 <= 12 + at /\ (12 + at) + 3 <= Len(t2)
      BY <1>0, <1>5
    <3> QED BY <3>1, <1>1
  <2>5. 4 + (4 + at) = 8 + at /\ 4 + (8 + at) = 12 + at /\ 4 + (12 + at) = 16 + at
    OBVIOUS
  <2> QED BY <2>1, <2>2, <2>3, <2>4, <2>5
<1>7. int32(t1, 5) = int32(t2, 1) /\ int32(t2, 5) = int32(t3, 1) /\ int32(t3, 5) = int32(t4, 1)
  <2>1. /\ 1 \in Nat /\ 1 <= 1 /\ 4 + 1 = 5
        /\ 1 + 3 <= Len(t2) /\ 1 + 3 <= Len(t3) /\ 1 + 3 <= Len(t4)
    BY <1>0, <1>5
  <2> QED BY <2>1, <1>1, <1>2, <1>3
<1>8. int32(t1, 9) = int32(t2, 5) /\ int32(t2, 9) = int32(t3, 5)
  <2>1. 5 \in Nat /\ 1 <= 5 /\ 4 + 5 = 9 /\ 5 + 3 <= Len(t2) /\ 5 + 3 <= Len(t3)
    BY <1>0, <1>5
  <2> QED BY <2>1, <1>1, <1>2
<1>9. int32(t1, 13) = int32(t2, 9)
  <2>1. 9 \in Nat /\ 1 <= 9 /\ 4 + 9 = 13 /\ 9 + 3 <= Len(t2)
    BY <1>0, <1>5
  <2> QED BY <2>1, <1>1
<1>10. int32(t1, 5) = x2 /\ int32(t1, 9) = x3 /\ int32(t1, 13) = x4
  BY <1>2, <1>3, <1>4, <1>7, <1>8, <1>9
<1>11. b = t1
  BY DEF t1, t2, t3, t4, Headed
<1> QED BY <1>1, <1>5, <1>6, <1>10, <1>11

(* Four parts and the rest, taken from the left.                           *)
Grouped(a, b, c, d, t) == (((a \o b) \o c) \o d) \o t = a \o (b \o (c \o (d \o t)))

(* They may be grouped from the right.                                     *)
LEMMA Regroup ==
  ASSUME NEW a \in Seq(Byte), NEW b \in Seq(Byte), NEW c \in Seq(Byte), NEW d \in Seq(Byte),
         NEW t \in Seq(Byte)
  PROVE  Grouped(a, b, c, d, t)
<1> DEFINE ab == a \o b
           abc == ab \o c
           dt == d \o t
           cdt == c \o dt
<1>1. ab \in Seq(Byte) /\ dt \in Seq(Byte)
  BY ConcatBytes
<1>2. \A x \in Seq(Byte) : ab \o x = a \o (b \o x)
  BY GroupBytes
<1> HIDE DEF ab
<1>3. abc \in Seq(Byte)
  BY <1>1, ConcatBytes
<1>4. \A x \in Seq(Byte) : abc \o x = ab \o (c \o x)
  BY <1>1, GroupBytes
<1> HIDE DEF abc
<1>5. (abc \o d) \o t = abc \o dt
  BY <1>3, GroupBytes
<1> HIDE DEF dt
<1>6. cdt \in Seq(Byte)
  BY <1>1, ConcatBytes
<1>7. abc \o dt = ab \o cdt
  BY <1>1, <1>4
<1> HIDE DEF cdt
<1>8. ab \o cdt = a \o (b \o cdt)
  BY <1>2, <1>6
<1> QED BY <1>5, <1>7, <1>8 DEF abc, ab, dt, cdt, Grouped

(* Descriptors are read as they were written, if their number and the      *)
(* length of the blob fit.                                                 *)
LEMMA DescriptorsRead ==
  ASSUME NEW D \in Seq(Seq(Byte)), Len(D) >= 1, \A i \in 1..Len(D) : IsDescriptor(D[i]),
         Fits(Len(D)), Fits(20 + 2 * Len(FlattenSeq(D)))
  PROVE  LET blob == FlattenSeq(D)
             count == countDescriptors(blob)
             descs == readDescriptors(buildDescriptorsBlob(blob, blob, count, count))
         IN descs.ok /\ descs.fs = D /\ descs.hs = D
<1> DEFINE blob == FlattenSeq(D)
           c == Len(D)
           x == 20 + 2 * Len(blob)
           w == LE32(c)
           b == buildDescriptorsBlob(blob, blob, c, c)
           len == [first \in Byte |-> first]
           bb == blob \o blob
<1>1. blob \in Seq(Byte) /\ countDescriptors(blob) = c
  BY FlattenBlocks, CountIs
<1>2. c \in Nat /\ c >= 1 /\ Fits(c) /\ Fits(x) /\ Fits(3)
  <2>1. Fits(3)
    BY SMT DEF Fits
  <2> QED BY <2>1, LenProperties
<1>3. /\ len \in [Byte -> Int]
      /\ \A i \in 1..c : Len(D[i]) >= 1 /\ len[D[i][1]] = Len(D[i])
  <2>1. \A f \in Byte : f \in Int
    BY ByteNat
  <2>2. len \in [Byte -> Int]
    BY <2>1
  <2>3. ASSUME NEW i \in 1..c PROVE Len(D[i]) >= 1 /\ len[D[i][1]] = Len(D[i])
    <3> DEFINE d == D[i]
    <3>1. d \in Seq(Byte) /\ Len(d) >= 2 /\ d[1] = Len(d)
      BY ElementOfSeq DEF IsDescriptor
    <3>2. Len(d) \in Nat
      BY <3>1, LenProperties
    <3> HIDE DEF d
    <3>3. 1 \in 1..Len(d)
      BY <3>1, <3>2
    <3>4. d[1] \in Byte
      BY <3>1, <3>3, ElementOfSeq
    <3>5. len[d[1]] = d[1]
      BY <3>4
    <3>6. Len(d) >= 1 /\ len[d[1]] = Len(d)
      BY <3>1, <3>2, <3>5
    <3> QED BY <3>6 DEF d
  <2> QED BY <2>2, <2>3
<1> HIDE DEF len
<1>4. split(bb, c, len) = [ok |-> TRUE, got |-> D, rest |-> blob]
  BY <1>1, <1>3, SplitReads
<1>5. split(blob, c, len) = [ok |-> TRUE, got |-> D, rest |-> <<>>]
  <2>1. <<>> \in Seq(Byte) /\ blob \o <<>> = blob
    BY <1>1, EmptySeq, ConcatEmptySeq
  <2>2. split(blob \o <<>>, c, len) = [ok |-> TRUE, got |-> D, rest |-> <<>>]
    BY <2>1, <1>3, SplitReads
  <2> QED BY <2>1, <2>2
<1> HIDE DEF blob, c
<1>6. bb \in Seq(Byte) /\ Len(bb) = Len(blob) + Len(blob) /\ Len(blob) \in Nat
  BY <1>1, ConcatBytes, LenProperties
<1>7. w \in Seq(Byte) /\ Len(w) = 4
  BY <1>2, LE32Reads
<1>8. LE32(3) \in Seq(Byte) /\ LE32(x) \in Seq(Byte)
  <2>1. 3 \in Nat /\ x \in Nat /\ Fits(3) /\ Fits(x)
    BY <1>2, <1>6
  <2> HIDE DEF x
  <2> QED BY <2>1, LE32Reads
<1> HIDE DEF bb
<1> DEFINE ww == w \o w
           h == ((LE32(3) \o LE32(x)) \o LE32(3)) \o ww
           t == w \o bb
<1>9. ww \in Seq(Byte) /\ Len(ww) = 8
  <2>1. ww \in Seq(Byte) /\ Len(ww) = Len(w) + Len(w)
    BY <1>7, ConcatBytes
  <2> HIDE DEF w
  <2> QED BY <2>1, <1>7
<1>10. b = (h \o blob) \o blob
  <2>1. c > 0 /\ 1 + 2 = 3
    BY <1>2
  <2>2. 12 + Len(ww) + Len(blob) + Len(blob) = x
    BY <1>6, <1>9
  <2> HIDE DEF x
  <2>3. b = (((((LE32(3) \o LE32(12 + Len(ww) + Len(blob) + Len(blob))) \o LE32(3)) \o ww) \o blob) \o blob)
    BY <2>1 DEF buildDescriptorsBlob
  <2> QED BY <2>2, <2>3
<1> HIDE DEF b, x, w
<1>11. h \in Seq(Byte)
  <2>1. LE32(3) \o LE32(x) \in Seq(Byte)
    BY <1>8, ConcatBytes
  <2>2. (LE32(3) \o LE32(x)) \o LE32(3) \in Seq(Byte)
    BY <2>1, <1>8, ConcatBytes
  <2> QED BY <2>2, <1>9, ConcatBytes
<1>12. b = h \o bb
  <2> HIDE DEF h
  <2>1. (h \o blob) \o blob = h \o (blob \o blob)
    BY <1>1, <1>11, GroupBytes
  <2> QED BY <2>1, <1>10 DEF bb
<1>13. h \o bb = LE32(3) \o (LE32(x) \o (LE32(3) \o (ww \o bb)))
  <2> DEFINE w3 == LE32(3)
             wx == LE32(x)
  <2>1. w3 \in Seq(Byte) /\ wx \in Seq(Byte) /\ ww \in Seq(Byte) /\ bb \in Seq(Byte)
    BY <1>6, <1>8, <1>9
  <2> HIDE DEF ww, w3, wx
  <2>2. Grouped(w3, wx, w3, ww, bb)
    BY <2>1, Regroup
  <2> QED BY <2>2 DEF w3, wx, Grouped
<1>14. ww \o bb = w \o (w \o bb)
  BY <1>6, <1>7, GroupBytes
<1>15. b = LE32(3) \o (LE32(x) \o (LE32(3) \o (LE32(c) \o t)))
  BY <1>12, <1>13, <1>14 DEF w
<1>16. t \in Seq(Byte) /\ Len(t) = 4 + Len(bb) /\ int32(t, 1) = c
  BY <1>2, <1>6, WordReads DEF w
<1> HIDE DEF t, h
<1>17. /\ b \in Seq(Byte) /\ Len(b) = 16 + Len(t)
       /\ int32(b, 1) = 3 /\ int32(b, 5) = x /\ int32(b, 9) = 3 /\ int32(b, 13) = c
       /\ \A at \in Nat : 1 <= at /\ at + 3 <= Len(t) => int32(b, 16 + at) = int32(t, at)
  <2>1. t \in Seq(Byte) /\ Fits(3) /\ Fits(x) /\ Fits(c)
    BY <1>2, <1>16 DEF x
  <2>2. Headed(b, 3, x, 3, c, t)
    BY <1>15 DEF Headed
  <2> QED BY <2>1, <2>2, HeaderReads
<1>18. int32(b, 17) = c
  <2>1. 1 \in Nat /\ 1 <= 1 /\ 1 + 3 <= Len(t) /\ 16 + 1 = 17
    BY <1>6, <1>16
  <2> QED BY <2>1, <1>16, <1>17
<1>19. Len(b) = x /\ Len(h) + 1 = 21
  <2>1. Len(b) = Len(h) + Len(bb)
    BY <1>6, <1>11, <1>12, ConcatBytes
  <2>2. Len(h) \in Nat
    BY <1>11, LenProperties
  <2>3. Len(b) = 20 + Len(bb)
    BY <1>6, <1>16, <1>17
  <2>4. Len(h) = 20
    <3> DEFINE l == Len(h)
               m == Len(bb)
               n == Len(b)
    <3>1. l \in Nat
      BY <2>2
    <3>2. m \in Nat
      BY <1>6, LenProperties
    <3>3. n = l + m
      BY <2>1
    <3>4. n = 20 + m
      BY <2>3
    <3> HIDE DEF l, m, n
    <3>5. l = 20
      BY <3>1, <3>2, <3>3, <3>4
    <3> QED BY <3>5 DEF l
  <2>5. Len(b) = 20 + 2 * Len(blob)
    BY <2>3, <1>6
  <2> QED BY <2>4, <2>5 DEF x
<1>20. SubSeq(b, 21, Len(b)) = bb
  <2>1. SubSeq(h \o bb, Len(h) + 1, Len(h \o bb)) = bb
    BY <1>6, <1>11, DropPrefix
  <2> QED BY <2>1, <1>12, <1>19
<1> DEFINE descs == readDescriptors(b)
<1>21. descs.ok /\ descs.fs = D /\ descs.hs = D
  <2> DEFINE fs == split(SubSeq(b, 21, Len(b)), int32(b, 13), len)
             hs == split(fs.rest, int32(b, 17), len)
  <2>1. fs = [ok |-> TRUE, got |-> D, rest |-> blob]
    BY <1>4, <1>17, <1>20
  <2> HIDE DEF fs
  <2>2. fs.ok = TRUE /\ fs.got = D /\ fs.rest = blob
    BY <2>1
  <2>3. hs = [ok |-> TRUE, got |-> D, rest |-> <<>>]
    BY <2>2, <1>5, <1>18
  <2> HIDE DEF hs
  <2>4. hs.ok = TRUE /\ hs.got = D /\ hs.rest = <<>>
    BY <2>3
  <2>5. descs = [ok |-> /\ int32(b, 1) = 3 /\ int32(b, 5) = Len(b) /\ int32(b, 9) = 3
                        /\ fs.ok /\ hs.ok /\ hs.rest = <<>>,
                 fs |-> fs.got, hs |-> hs.got]
    BY DEF readDescriptors, fs, hs, len
  <2>6. int32(b, 1) = 3 /\ int32(b, 5) = Len(b) /\ int32(b, 9) = 3
    BY <1>17, <1>19
  <2> HIDE DEF descs
  <2> QED BY <2>2, <2>4, <2>5, <2>6
<1> QED BY <1>1, <1>21 DEF b, blob, c

(* Short strings are read as they were written.                            *)
LEMMA StringsRead ==
  ASSUME NEW strings \in Seq(String), strings # <<>>, Fits(18 + 505 * Len(strings)),
         \A k \in 1..Len(strings) : Len(strings[k]) <= 126
  PROVE  LET r == readStrings(buildStringsBlob(strings)) IN
         r.ok /\ r.got = [k \in DOMAIN strings |-> FlattenSeq(Encoded(strings[k]))]
<1> DEFINE n == Len(strings)
           ss == [k \in DOMAIN strings |-> stringBytes(strings[k])]
           f == FlattenSeq(ss)
           sizes == [k \in DOMAIN strings |-> sizeOf(strings[k])]
           x == 18 + Total(sizes)
           len == [first \in Byte |-> 2 * first - 1]
           b == buildStringsBlob(strings)
<1>1. n \in Nat /\ DOMAIN strings = 1..n /\ \A k \in 1..n : strings[k] \in String
  BY LenProperties, ElementOfSeq
<1>2. n \in Nat /\ Fits(18 + 505 * n) /\ \A k \in 1..n : Len(strings[k]) <= 126
  BY <1>1
<1> HIDE DEF n
<1>3. ASSUME NEW k \in 1..n
      PROVE  Written(strings[k], stringBytes(strings[k]))
  BY <1>1, <1>2, StringBytesIs
<1>27. ASSUME NEW k \in 1..n
       PROVE  Sized(strings[k], stringBytes(strings[k]))
  <2> DEFINE d == stringBytes(strings[k])
             s == strings[k]
  <2>1. Written(s, d)
    BY <1>3
  <2> HIDE DEF d, s
  <2>2. Sized(s, d)
    BY <2>1, Zenon DEF Written
  <2> QED BY <2>2 DEF d, s
<1>4. ss \in Seq(Seq(Byte)) /\ Len(ss) = n /\ \A k \in 1..n : ss[k] = stringBytes(strings[k])
  <2>1. ss = [k \in 1..n |-> stringBytes(strings[k])]
    BY <1>1
  <2>3. \A k \in 1..n : stringBytes(strings[k]) \in Seq(Byte)
    BY <1>27 DEF Sized
  <2>2. ss \in [1..n -> Seq(Byte)]
    BY <2>1, <2>3
  <2> HIDE DEF ss
  <2> QED BY <2>1, <2>2, <1>1
<1>5. sizes \in Seq(Nat) /\ Len(sizes) = n /\ \A k \in 1..n : sizes[k] = sizeOf(strings[k])
  <2>1. sizes = [k \in 1..n |-> sizeOf(strings[k])]
    BY <1>1
  <2>2. \A k \in 1..n : sizeOf(strings[k]) \in Nat
    <3> TAKE k \in 1..n
    <3> QED BY <1>27 DEF Sized
  <2>3. sizes \in [1..n -> Nat]
    BY <2>1, <2>2
  <2> HIDE DEF sizes
  <2> QED BY <2>1, <2>3, <1>1
<1>6. b = (((((LE32(2) \o LE32(x)) \o LE32(n)) \o LE32(1)) \o LE16(lang)) \o f)
  BY Zenon DEF buildStringsBlob, n
<1> HIDE DEF ss, sizes
<1>7. \A k \in 1..Len(ss) : Len(ss[k]) \in Nat /\ Len(ss[k]) <= 505 /\ sizes[k] = Len(ss[k])
  <2> TAKE k \in 1..Len(ss)
  <2>1. k \in 1..n
    BY <1>4
  <2>2. ss[k] = stringBytes(strings[k]) /\ sizes[k] = sizeOf(strings[k])
    BY <2>1, <1>4, <1>5
  <2>3. Sized(strings[k], ss[k])
    BY <2>1, <2>2, <1>27
  <2> QED BY <2>2, <2>3 DEF Sized
<1>8. f \in Seq(Byte) /\ Total(sizes) = Len(f)
  BY <1>4, <1>5, <1>7, FlattenBlocks, TotalIs
<1>9. Len(f) \in Nat /\ Len(f) <= 505 * n
  <2>1. 505 \in Nat
    OBVIOUS
  <2>3. \A k \in 1..Len(ss) : Len(ss[k]) <= 505
    BY <1>7
  <2>4. ss \in Seq(Seq(Byte))
    BY <1>4
  <2>2. Len(f) \in Nat /\ Len(f) <= 505 * Len(ss)
    BY <2>1, <2>3, <2>4, FlattenBound
  <2> QED BY <2>2, <1>4
<1>10. Fits(x) /\ Fits(n) /\ Fits(1) /\ Fits(2)
  <2> DEFINE l == Len(f)
  <2>1. l \in Nat /\ l <= 505 * n /\ x = 18 + l
    BY <1>8, <1>9
  <2> HIDE DEF l, x
  <2>2. Fits(x) /\ Fits(n) /\ Fits(1) /\ Fits(2)
    BY <2>1, <1>2, SMT DEF Fits
  <2> QED BY <2>2
<1> HIDE DEF f
<1>11. x = 18 + Len(f)
  BY <1>8
<1> HIDE DEF x, b
<1> DEFINE w1 == LE32(2)
           w2 == LE32(x)
           w3 == LE32(n)
           w4 == LE32(1)
           e == LE16(lang)
           h4 == ((w1 \o w2) \o w3) \o w4
           h == h4 \o e
           t == e \o f
<1>12. /\ w1 \in Seq(Byte) /\ w2 \in Seq(Byte) /\ w3 \in Seq(Byte) /\ w4 \in Seq(Byte)
       /\ e \in Seq(Byte) /\ Len(e) = 2
  <2>1. x \in Nat /\ n \in Nat /\ 2 \in Nat /\ 1 \in Nat /\ lang \in Nat
    BY <1>2, <1>10 DEF Fits, lang
  <2>2. \A y \in {2, x, n, 1} : LE32(y) \in Seq(Byte)
    BY <2>1, <1>10, LE32Reads
  <2>3. e \in Seq(Byte) /\ Len(e) = 2
    BY <2>1, LE16Bytes
  <2> QED BY <2>2, <2>3
<1>13. b = h \o f
  BY <1>6, Zenon
<1> HIDE DEF w1, w2, w3, w4, e
<1>14. h4 \in Seq(Byte) /\ h \in Seq(Byte) /\ t \in Seq(Byte) /\ Len(t) = 2 + Len(f)
  <2>1. w1 \o w2 \in Seq(Byte)
    BY <1>12, ConcatBytes
  <2>2. (w1 \o w2) \o w3 \in Seq(Byte)
    BY <2>1, <1>12, ConcatBytes
  <2>3. h4 \in Seq(Byte)
    BY <2>2, <1>12, ConcatBytes
  <2> HIDE DEF h4
  <2>4. h \in Seq(Byte)
    BY <2>3, <1>12, ConcatBytes
  <2>5. t \in Seq(Byte) /\ Len(t) = Len(e) + Len(f)
    BY <1>8, <1>12, ConcatBytes
  <2> QED BY <2>3, <2>4, <2>5, <1>12
<1>15. b = h4 \o t
  <2> HIDE DEF h4
  <2>1. h4 \in Seq(Byte) /\ e \in Seq(Byte) /\ f \in Seq(Byte)
    BY <1>8, <1>12, <1>14
  <2>2. (h4 \o e) \o f = h4 \o (e \o f)
    BY <2>1, GroupBytes, Zenon
  <2> QED BY <2>2, <1>13, Zenon
<1>16. Headed(b, 2, x, n, 1, t)
  <2> HIDE DEF t
  <2>1. Grouped(w1, w2, w3, w4, t)
    BY <1>12, <1>14, Regroup
  <2>2. b = w1 \o (w2 \o (w3 \o (w4 \o t)))
    BY <2>1, <1>15, Zenon DEF Grouped
  <2> QED BY <2>2, Zenon DEF Headed, w1, w2, w3, w4
<1> HIDE DEF h4, h, t
<1>17. /\ b \in Seq(Byte) /\ Len(b) = 16 + Len(t)
       /\ int32(b, 1) = 2 /\ int32(b, 5) = x /\ int32(b, 9) = n /\ int32(b, 13) = 1
  <2>1. t \in Seq(Byte) /\ Fits(1) /\ Fits(2) /\ Fits(x) /\ Fits(n)
    BY <1>10, <1>14
  <2> QED BY <2>1, <1>16, HeaderReads
<1>18. Len(b) = x
  BY <1>9, <1>11, <1>14, <1>17
<1>19. SubSeq(b, 19, Len(b)) = f
  <2> DEFINE l == Len(h)
             m == Len(f)
             k == Len(b)
  <2>1. l \in Nat
    BY <1>14, LenProperties
  <2>2. m \in Nat
    BY <1>9
  <2>3. k = l + m
    BY <1>8, <1>13, <1>14, ConcatBytes
  <2>4. k = 18 + m
    BY <1>11, <1>18
  <2> HIDE DEF l, m, k
  <2>5. l + 1 = 19
    BY <2>1, <2>2, <2>3, <2>4
  <2>6. SubSeq(h \o f, Len(h) + 1, Len(h \o f)) = f
    BY <1>8, <1>14, DropPrefix
  <2> QED BY <2>5, <2>6, <1>13 DEF l
<1>20. /\ len \in [Byte -> Int]
       /\ \A k \in 1..Len(ss) : Len(ss[k]) >= 1 /\ len[ss[k][1]] = Len(ss[k])
  <2>1. \A c \in Byte : 2 * c - 1 \in Int
    BY ByteNat
  <2>2. len \in [Byte -> Int]
    BY <2>1
  <2>3. ASSUME NEW k \in 1..Len(ss) PROVE Len(ss[k]) >= 1 /\ len[ss[k][1]] = Len(ss[k])
    <3> DEFINE d == ss[k]
    <3>1. k \in 1..n
      BY <1>4
    <3>2. d = stringBytes(strings[k])
      BY <3>1, <1>4
    <3>8. Sized(strings[k], d)
      BY <3>1, <3>2, <1>27
    <3> HIDE DEF d
    <3>3. d \in Seq(Byte) /\ Len(d) \in Nat /\ Len(d) >= 1 /\ 2 * d[1] - 1 = Len(d)
      BY <3>8 DEF Sized
    <3>4. Len(d) >= 1 /\ 1 \in 1..Len(d)
      BY <3>3
    <3>5. d[1] \in Byte
      BY <3>3, <3>4, ElementOfSeq
    <3>6. len[d[1]] = 2 * d[1] - 1
      BY <3>5
    <3>7. Len(d) >= 1 /\ len[d[1]] = Len(d)
      BY <3>3, <3>4, <3>6
    <3> QED BY <3>7 DEF d
  <2> QED BY <2>2, <2>3
<1> HIDE DEF len
<1>21. split(f, n, len) = [ok |-> TRUE, got |-> ss, rest |-> <<>>]
  <2>1. <<>> \in Seq(Byte) /\ f \o <<>> = f
    BY <1>8, EmptySeq, ConcatEmptySeq
  <2>2. split(FlattenSeq(ss) \o <<>>, Len(ss), len) = [ok |-> TRUE, got |-> ss, rest |-> <<>>]
    BY <2>1, <1>4, <1>20, SplitReads
  <2> QED BY <2>1, <2>2, <1>4 DEF f
<1> DEFINE all == split(SubSeq(b, 19, Len(b)), int32(b, 9), len)
           r == readStrings(b)
<1>22. all = [ok |-> TRUE, got |-> ss, rest |-> <<>>]
  BY <1>17, <1>19, <1>21
<1> HIDE DEF all
<1>23. all.ok = TRUE /\ all.got = ss /\ all.rest = <<>>
  BY <1>22
<1>24. r = [ok |-> /\ int32(b, 1) = 2 /\ int32(b, 5) = Len(b) /\ int32(b, 13) = 1
                   /\ all.ok /\ all.rest = <<>>,
            got |-> [k \in DOMAIN all.got |-> Tail(all.got[k])]]
  BY DEF readStrings, all, len
<1> HIDE DEF r
<1>25. r.ok
  BY <1>17, <1>18, <1>23, <1>24
<1>26. r.got = [k \in DOMAIN strings |-> FlattenSeq(Encoded(strings[k]))]
  <2>1. r.got = [k \in DOMAIN ss |-> Tail(ss[k])]
    BY <1>23, <1>24
  <2>2. DOMAIN ss = 1..n
    BY <1>4, LenProperties
  <2>3. \A k \in 1..n : Tail(ss[k]) = FlattenSeq(Encoded(strings[k]))
    <3> TAKE k \in 1..n
    <3> DEFINE d == stringBytes(strings[k])
               s == strings[k]
    <3>1. Written(s, d)
      BY <1>3
    <3>2. ss[k] = d
      BY <1>4
    <3> HIDE DEF d, s
    <3>3. Tail(d) = FlattenSeq(Encoded(s))
      BY <3>1, Zenon DEF Written
    <3> QED BY <3>2, <3>3, Zenon DEF s
  <2> QED BY <2>1, <2>2, <2>3, <1>1
<1> QED BY <1>25, <1>26 DEF r, b

-----------------------------------------------------------------------------
(* What is written                                                         *)

(* The strings FunctionFS is given can be counted and are short.           *)
LEMMA FfsStringsAre ==
  ASSUME ListInv, DevInv
  PROVE  /\ FfsStrings \in Seq(String) /\ Fits(18 + 505 * Len(FfsStrings))
         /\ \A k \in 1..Len(FfsStrings) : Len(FfsStrings[k]) <= 126
<1> DEFINE m == Len(NonHid)
           c == Cardinality(NamedAt)
           named == Select(NonHid, NamedAt)
           strs == [k \in DOMAIN named |-> named[k].str]
           d == Len(devStrings)
<1>1. m \in Nat /\ m <= 65536 /\ DOMAIN NonHid = 1..m
  BY NonHidIs, PositionsBound, ListBound
<1>2. \A k \in 1..m : NonHid[k].str \in String /\ Len(NonHid[k].str) <= 126
  <2> TAKE k \in 1..m
  <2>1. NonHid[k] = ifaces[Pos(NonHidAt)[k]] /\ Pos(NonHidAt)[k] \in NonHidAt
    BY <1>1, NonHidIs
  <2>2. Given(NonHid[k])
    BY <2>1 DEF ListInv, NonHidAt
  <2>3. NonHid[k].str \in Names
    BY <2>2 DEF Given
  <2> QED BY <2>3, InterfacesAssumption
<1>3. NamedAt \in SUBSET (1..m)
  BY <1>1 DEF NamedAt
<1> HIDE DEF m
<1>4. c \in Nat /\ Pos(NamedAt) \in [1..c -> NamedAt] /\ c <= m
  <2>3. m \in Nat
    BY <1>1
  <2>1. c \in Nat /\ Pos(NamedAt) \in [1..c -> NamedAt]
    BY <2>3, <1>3, PosIs, Zenon
  <2>2. c <= m
    BY <1>1, <1>3, PositionsBound
  <2> QED BY <2>1, <2>2
<1>5. named = [j \in 1..c |-> NonHid[Pos(NamedAt)[j]]]
  BY SelectPos
<1>6. FfsStrings = devStrings \o strs
  BY Zenon DEF FfsStrings, NamedAt
<1> HIDE DEF c, named
<1>7. /\ strs \in [1..c -> String]
      /\ \A k \in 1..c : Len(strs[k]) <= 126
  <2>1. strs = [k \in 1..c |-> named[k].str]
    BY <1>5
  <2>2. \A k \in 1..c : Pos(NamedAt)[k] \in 1..m /\ named[k].str = NonHid[Pos(NamedAt)[k]].str
    BY <1>3, <1>4, <1>5
  <2> HIDE DEF strs
  <2>3. \A k \in 1..c : named[k].str \in String /\ Len(named[k].str) <= 126
    BY <2>2, <1>2
  <2> QED BY <2>1, <2>3
<1> HIDE DEF strs
<1>8. strs \in Seq(String) /\ Len(strs) = c
  BY <1>4, <1>7
<1>9. d \in Nat /\ d <= 3 /\ devStrings \in Seq(String) /\ \A k \in 1..d : Len(devStrings[k]) <= 126
  BY LenProperties DEF DevInv
<1> DEFINE all == devStrings \o strs
<1>10. /\ all \in Seq(String) /\ Len(all) = Len(devStrings) + Len(strs)
       /\ \A i \in 1..(Len(devStrings) + Len(strs)) :
            all[i] = IF i <= Len(devStrings) THEN devStrings[i] ELSE strs[i - Len(devStrings)]
  BY <1>8, <1>9, ConcatProperties
<1> HIDE DEF all
<1>11. /\ Len(all) = d + c
       /\ \A i \in 1..(d + c) : all[i] = IF i <= d THEN devStrings[i] ELSE strs[i - d]
  BY <1>8, <1>10
<1> HIDE DEF d
<1>12. \A k \in 1..(d + c) : Len(all[k]) <= 126
  <2> TAKE k \in 1..(d + c)
  <2>1. CASE k <= d
    <3>1. k \in 1..d
      BY <1>9, <2>1
    <3>2. all[k] = devStrings[k]
      BY <1>11, <2>1
    <3> QED BY <3>1, <3>2, <1>9
  <2>2. CASE ~(k <= d)
    <3>1. k - d \in 1..c
      BY <1>4, <1>9, <2>2
    <3>2. all[k] = strs[k - d]
      BY <1>11, <2>2
    <3> QED BY <3>1, <3>2, <1>7
  <2> QED BY <2>1, <2>2
<1>13. Fits(18 + 505 * (d + c))
  <2>1. 18 + 505 * (d + c) \in Nat /\ 18 + 505 * (d + c) < 65536 * 65536
    BY <1>1, <1>4, <1>9, SMT
  <2> QED BY <2>1 DEF Fits
<1>14. FfsStrings = all
  BY <1>6, Zenon DEF all
<1> QED BY <1>10, <1>11, <1>12, <1>13, <1>14

(* So can its descriptors.                                                 *)
LEMMA FfsDescriptorsAre ==
  ASSUME ListInv, NonHid # <<>>
  PROVE  /\ FfsDescriptors \in Seq(Seq(Byte)) /\ Len(FfsDescriptors) >= 1
         /\ \A i \in 1..Len(FfsDescriptors) : IsDescriptor(FfsDescriptors[i])
         /\ Fits(Len(FfsDescriptors)) /\ Fits(20 + 2 * Len(FlattenSeq(FfsDescriptors)))
<1> DEFINE m == Len(NonHid)
           D == FfsDescriptors
           blob == FlattenSeq(D)
<1>1. m \in Nat /\ m <= 65536 /\ DOMAIN NonHid = 1..m /\ NonHid \in Seq(Setting)
  BY NonHidIs, PositionsBound, ListBound
<1>2. m >= 1
  BY <1>1, EmptySeq
<1>3. /\ Announced \in Seq(Seq(Seq(Byte))) /\ Len(Announced) = m /\ D = FlattenSeq(Announced)
      /\ \A k \in 1..m : Len(Announced[k]) \in Nat /\ Len(Announced[k]) >= 1 /\ Len(Announced[k]) <= 256
      /\ \A k \in 1..m : \A j \in 1..Len(Announced[k]) :
           IsDescriptor(Announced[k][j]) /\ Len(Announced[k][j]) <= 9
  <2>1. \A k \in 1..m : /\ Len(Announced[k]) = 1 + Len(NonHid[k].eps) /\ Len(NonHid[k].eps) \in Nat
                        /\ Len(NonHid[k].eps) \in Byte
    <3>1. \A k \in DOMAIN NonHid : Len(NonHid[k].eps) \in Byte
      BY NonHidIs
    <3>2. \A k \in DOMAIN NonHid :
            Len(Announced[k]) = 1 + Len(NonHid[k].eps) /\ Len(NonHid[k].eps) \in Nat
      BY AnnouncedIs
    <3> QED BY <1>1, <3>1, <3>2
  <2>2. \A k \in 1..m : Len(Announced[k]) \in Nat /\ Len(Announced[k]) >= 1 /\ Len(Announced[k]) <= 256
    <3> TAKE k \in 1..m
    <3>1. Len(NonHid[k].eps) \in Nat /\ Len(NonHid[k].eps) <= 255
      BY <2>1, ByteNat
    <3> QED BY <3>1, <2>1
  <2>3. Announced \in Seq(Seq(Seq(Byte))) /\ Len(Announced) = m /\ D = FlattenSeq(Announced)
    BY AnnouncedIs
  <2>4. \A k \in DOMAIN NonHid : \A j \in 1..Len(Announced[k]) :
          IsDescriptor(Announced[k][j]) /\ Len(Announced[k][j]) <= 9
    BY AnnouncedIs, Zenon
  <2>6. DOMAIN NonHid = 1..m
    BY <1>1
  <2> HIDE DEF m, D
  <2>5. \A k \in 1..m : \A j \in 1..Len(Announced[k]) :
          IsDescriptor(Announced[k][j]) /\ Len(Announced[k][j]) <= 9
    BY <2>4, <2>6, Zenon
  <2> QED BY <2>2, <2>3, <2>5, Zenon
<1> HIDE DEF m
<1>4. D \in Seq(Seq(Byte))
  BY <1>3, FlattenBlocks
<1>5. \A x : x \in ToSet(D) <=> \E k \in 1..m : \E j \in 1..Len(Announced[k]) : x = Announced[k][j]
  <2>1. Announced \in Seq(Seq(Seq(Byte)))
    BY <1>3
  <2>2. \A x : x \in ToSet(FlattenSeq(Announced)) <=>
              \E k \in 1..Len(Announced) : \E j \in 1..Len(Announced[k]) : x = Announced[k][j]
    BY <2>1, FlattenElements
  <2>3. Len(Announced) = m /\ D = FlattenSeq(Announced)
    BY <1>3
  <2> HIDE DEF D
  <2> QED BY <2>2, <2>3
<1> HIDE DEF D
<1>6. Len(D) \in Nat /\ DOMAIN D = 1..Len(D)
  BY <1>4, LenProperties
<1>7. Len(D) >= 1
  <2>1. 1 \in 1..m /\ 1 \in 1..Len(Announced[1])
    BY <1>1, <1>2, <1>3
  <2>2. Announced[1][1] \in ToSet(D)
    BY <2>1, <1>5
  <2>3. \E i \in 1..Len(D) : TRUE
    BY <2>2, <1>6 DEF ToSet
  <2> QED BY <2>3, <1>6
<1>8. \A i \in 1..Len(D) : IsDescriptor(D[i]) /\ Len(D[i]) <= 9
  <2> TAKE i \in 1..Len(D)
  <2>1. D[i] \in ToSet(D)
    BY <1>6 DEF ToSet
  <2>2. PICK k \in 1..m : \E j \in 1..Len(Announced[k]) : D[i] = Announced[k][j]
    BY <2>1, <1>5
  <2>3. PICK j \in 1..Len(Announced[k]) : D[i] = Announced[k][j]
    BY <2>2
  <2>4. IsDescriptor(Announced[k][j]) /\ Len(Announced[k][j]) <= 9
    BY <1>3
  <2> QED BY <2>3, <2>4
<1>9. Len(D) <= 256 * m
  <2>1. 256 \in Nat /\ \A k \in 1..Len(Announced) : Len(Announced[k]) <= 256
    BY <1>3
  <2>2. Announced \in Seq(Seq(Seq(Byte)))
    BY <1>3
  <2>3. Len(FlattenSeq(Announced)) <= 256 * Len(Announced)
    BY <2>1, <2>2, FlattenBound
  <2> QED BY <2>3, <1>3
<1>10. Len(blob) \in Nat /\ Len(blob) <= 9 * Len(D)
  <2>1. 9 \in Nat /\ \A i \in 1..Len(D) : Len(D[i]) <= 9
    BY <1>8
  <2> QED BY <2>1, <1>4, FlattenBound
<1> DEFINE l == Len(D)
           n == Len(blob)
<1>11. l \in Nat /\ l <= 256 * m /\ n \in Nat /\ n <= 9 * l
  BY <1>6, <1>9, <1>10
<1> HIDE DEF l, n
<1>12. Fits(l) /\ Fits(20 + 2 * n)
  BY <1>1, <1>11, SMT DEF Fits
<1> QED BY <1>4, <1>7, <1>8, <1>12 DEF D, l, n

(* FunctionFS finds in the blobs what emulate and load have put there: for *)
(* every device, each setting with its endpoints at both speeds, and every *)
(* string. The lengths and the counts in the headers, the length bytes of  *)
(* the strings and the walk that counts the descriptors are all right.     *)
THEOREM FfsReadsBackCorrect == Spec => []FfsReadsBack
<1>1. ListInv /\ DevInv => FfsReadsBack
  <2> SUFFICES ASSUME ListInv, DevInv, NonHid # <<>>
               PROVE  LET descs == readDescriptors(setupFFS[1])
                          strings == readStrings(setupFFS[2])
                          encoded(str) == FlattenSeq([j \in DOMAIN str |-> units(str[j])])
                      IN /\ descs.ok /\ descs.fs = FfsDescriptors /\ descs.hs = FfsDescriptors
                         /\ FfsStrings # <<>> =>
                              strings.ok /\ strings.got = [k \in DOMAIN FfsStrings |-> encoded(FfsStrings[k])]
    BY Zenon DEF FfsReadsBack
  <2> DEFINE D == FfsDescriptors
             S == FfsStrings
             blob == FlattenSeq(D)
             count == countDescriptors(blob)
             first == buildDescriptorsBlob(blob, blob, count, count)
             second == buildStringsBlob(S)
             descs == readDescriptors(first)
             strings == readStrings(second)
  <2>1. setupFFS[1] = first /\ setupFFS[2] = second
    <3>1. setupFFS = <<first, second>>
      BY Zenon DEF setupFFS
    <3> HIDE DEF first, second
    <3> QED BY <3>1
  <2>2. descs.ok /\ descs.fs = D /\ descs.hs = D
    <3>1. /\ D \in Seq(Seq(Byte)) /\ Len(D) >= 1 /\ \A i \in 1..Len(D) : IsDescriptor(D[i])
          /\ Fits(Len(D)) /\ Fits(20 + 2 * Len(FlattenSeq(D)))
      BY FfsDescriptorsAre
    <3> HIDE DEF D
    <3> QED BY <3>1, DescriptorsRead, Zenon
  <2>3. ASSUME S # <<>>
        PROVE  strings.ok /\ strings.got = [k \in DOMAIN S |-> FlattenSeq(Encoded(S[k]))]
    <3>1. /\ S \in Seq(String) /\ Fits(18 + 505 * Len(S))
          /\ \A k \in 1..Len(S) : Len(S[k]) <= 126
      BY FfsStringsAre
    <3> HIDE DEF S
    <3> QED BY <3>1, <2>3, StringsRead, Zenon
  <2> HIDE DEF first, second
  <2> QED BY <2>1, <2>2, <2>3, Zenon DEF Encoded
<1> QED BY <1>1, ListCorrect, DevCorrect, PTL
=============================================================================
