--------------------------- MODULE OmpMergeProofs ---------------------------
(***************************************************************************)
(* Proofs about OmpMerge for every number of threads, every number of      *)
(* splits and every pair of sorted arrays: type correctness; that the      *)
(* boundaries picked independently by the threads never cross; that each   *)
(* is near its equal share when the keys all differ; and that the result   *)
(* is the stable merge of the two arrays.  In the end, what                *)
(* OmpMergeSortProofs shows of merge_sort is carried over to the two       *)
(* functions side by side (OmpUtils).                                      *)
(***************************************************************************)
EXTENDS OmpUtils, WellFoundedInduction, FiniteSetTheorems, TLAPS

LEMMA DivBounds ==
  ASSUME NEW a \in Nat, NEW b \in Nat \ {0}
  PROVE  /\ a \div b \in Nat
         /\ b * (a \div b) <= a
         /\ a < b * (a \div b) + b
  BY SMT

LEMMA DivBelow ==
  ASSUME NEW a \in Nat, NEW b \in Nat \ {0}, NEW c \in Nat, a < b * c
  PROVE  a \div b < c
  BY DivBounds, SMT

LEMMA DivMonotone ==
  ASSUME NEW a \in Nat, NEW c \in Nat, NEW b \in Nat \ {0}, a <= c
  PROVE  a \div b <= c \div b
<1>1. b * (a \div b) < b * (c \div b) + b
  BY DivBounds
<1>. DEFINE x == a \div b  y == c \div b
<1>2. x \in Nat /\ y \in Nat
  BY DivBounds
<1>. HIDE DEF x, y
<1>3. b * x < b * (y + 1)
  BY <1>1, <1>2 DEF x, y
<1>4. x < y + 1
  BY <1>2, <1>3
<1>. QED  BY <1>2, <1>4 DEF x, y

LEMMA LeastNatural ==
  ASSUME NEW T, T \subseteq Nat, T # {}
  PROVE  \E m \in T : \A k \in T : m <= k
<1>1. PICK m \in T : \A k \in T : ~ (<<k, m>> \in OpToRel(<, Nat))
  BY NatLessThanWellFounded, WFMin
<1>2. \A k \in T : ~ (k < m)
  BY <1>1 DEF OpToRel
<1>. QED  BY <1>2

(***************************************************************************)
(* A binary search in a sorted range f..l of g has an answer.              *)
(***************************************************************************)
LEMMA FirstInRange ==
  ASSUME NEW f \in Nat, NEW l \in Int, f <= l + 1, NEW g, NEW v \in Int,
         \A i \in f..l : g[i] \in Int,
         \A i, j \in f..l : i <= j => g[i] <= g[j]
  PROVE  \E k \in f..l+1 : /\ \A i \in f..k-1 : g[i] < v
                           /\ \A i \in k..l : g[i] >= v
<1>. DEFINE T == {k \in f..l+1 : \A i \in k..l : g[i] >= v}
<1>1. l + 1 \in T
  OBVIOUS
<1>2. PICK m \in T : \A k \in T : m <= k
  <2>1. \A k \in T : k \in Nat
    OBVIOUS
  <2>. HIDE DEF T
  <2>. QED  BY <1>1, <2>1, LeastNatural
<1>3. ASSUME NEW i \in f..m-1, g[i] >= v
      PROVE  FALSE
  <2>1. \A j \in i..l : g[j] >= v
    BY <1>3
  <2>2. i \in T
    BY <2>1
  <2>. QED  BY <1>2, <2>2
<1>. QED  BY <1>2, <1>3

(***************************************************************************)
(* std::lower_bound on a sorted array.                                     *)
(***************************************************************************)
LEMMA LowerBoundProperty ==
  ASSUME NEW s \in SortedArrays, NEW v \in Int
  PROVE  /\ LowerBound(s, v) \in 0..Len(s)
         /\ \A i \in 1..LowerBound(s, v) : s[i] < v
         /\ \A i \in LowerBound(s, v) + 1..Len(s) : s[i] >= v
<1>. DEFINE P(k) == /\ \A i \in 1..k : s[i] < v
                    /\ \A i \in k+1..Len(s) : s[i] >= v
<1>1. s \in Seq(Nat) /\ \A i, j \in 1..Len(s) : i <= j => s[i] <= s[j]
  BY DEF SortedArrays
<1>2. PICK k \in 1..Len(s) + 1 : /\ \A i \in 1..k-1 : s[i] < v
                                 /\ \A i \in k..Len(s) : s[i] >= v
  <2>. DEFINE l == Len(s)
  <2>1. /\ 1 \in Nat /\ l \in Int /\ 1 <= l + 1
        /\ \A i \in 1..l : s[i] \in Int
        /\ \A i, j \in 1..l : i <= j => s[i] <= s[j]
    BY <1>1
  <2>. HIDE DEF l
  <2>2. \E k \in 1..l+1 : /\ \A i \in 1..k-1 : s[i] < v
                          /\ \A i \in k..l : s[i] >= v
    BY <2>1, FirstInRange, Zenon
  <2>. QED  BY <2>2 DEF l
<1>3. k - 1 \in 0..Len(s) /\ P(k - 1)
  BY <1>1, <1>2
<1>4. \E j \in 0..Len(s) : P(j)
  BY <1>3
<1>5. LowerBound(s, v) = CHOOSE j \in 0..Len(s) : P(j)
  BY DEF LowerBound
<1>. HIDE DEF P
<1>6. LowerBound(s, v) \in 0..Len(s) /\ P(LowerBound(s, v))
  BY <1>4, <1>5
<1>. QED  BY <1>6 DEF P

LEMMA LowerBoundMonotone ==
  ASSUME NEW s \in SortedArrays, NEW u \in Int, NEW v \in Int, u <= v
  PROVE  LowerBound(s, u) <= LowerBound(s, v)
<1>1. s \in Seq(Nat)
  BY DEF SortedArrays
<1>. DEFINE x == LowerBound(s, u)  y == LowerBound(s, v)
<1>2. x \in 0..Len(s) /\ (\A i \in 1..x : s[i] < u)
  BY LowerBoundProperty
<1>3. y \in 0..Len(s) /\ (\A i \in y+1..Len(s) : s[i] >= v)
  BY LowerBoundProperty
<1>. HIDE DEF x, y
<1>4. ASSUME x > y PROVE FALSE
  <2>1. s[x] < u /\ s[x] >= v /\ s[x] \in Int
    BY <1>1, <1>2, <1>3, <1>4
  <2>. QED  BY <2>1
<1>5. x <= y
  BY <1>2, <1>3, <1>4
<1>. QED  BY <1>5 DEF x, y

(***************************************************************************)
(* The positions the splits are taken from: within the array, in order,    *)
(* and at most a p*n-th of the array apart.                                *)
(***************************************************************************)
Q == p * n

LEMMA QType == Q \in Nat \ {0}
  BY ParametersAssumption, SMT DEF Q

LEMMA SplitsRange == 2*p*n = 2*Q /\ Splits = 0..2*Q-1
<1>1. 2*p*n = 2*Q
  BY ParametersAssumption, SMT DEF Q
<1>. QED  BY <1>1 DEF Splits

LEMMA SplitIndexBounds ==
  ASSUME NEW j \in 0..Q-1, NEW N \in Nat \ {0}
  PROVE  /\ SplitIndex(j, N) \in 0..N-1
         /\ Q * SplitIndex(j, N) <= j * N
         /\ j * N < Q * SplitIndex(j, N) + Q
<1>1. j \in Nat /\ Q \in Nat \ {0} /\ j * N \in Nat
  BY QType
<1>2. j * N < Q * N
  BY <1>1
<1>3. SplitIndex(j, N) = (j * N) \div Q
  BY DEF SplitIndex, Q
<1>. DEFINE a == j * N
<1>4. a \in Nat /\ a < Q * N
  BY <1>1, <1>2
<1>. HIDE DEF Q, a
<1>5. /\ a \div Q \in Nat /\ a \div Q < N
      /\ Q * (a \div Q) <= a /\ a < Q * (a \div Q) + Q
  BY <1>1, <1>4, DivBounds, DivBelow
<1>. QED  BY <1>3, <1>5 DEF a

LEMMA SplitIndexMonotone ==
  ASSUME NEW j \in 0..Q-1, NEW k \in 0..Q-1, j <= k, NEW N \in Nat \ {0}
  PROVE  SplitIndex(j, N) <= SplitIndex(k, N)
<1>1. j \in Nat /\ k \in Nat /\ Q \in Nat \ {0}
  BY QType
<1>2. j * N <= k * N /\ j * N \in Nat /\ k * N \in Nat
  BY <1>1
<1>3. /\ SplitIndex(j, N) = (j * N) \div Q
      /\ SplitIndex(k, N) = (k * N) \div Q
  BY DEF SplitIndex, Q
<1>. QED  BY <1>1, <1>2, <1>3, DivMonotone

LEMMA SplitIndexStep ==
  ASSUME NEW j \in 1..Q-1, NEW N \in Nat \ {0}
  PROVE  Q * (SplitIndex(j, N) - SplitIndex(j-1, N)) < N + Q
<1>. DEFINE x == SplitIndex(j, N)  y == SplitIndex(j-1, N)
<1>1. x \in Nat /\ y \in Nat /\ Q \in Nat
  BY QType, SplitIndexBounds
<1>2. Q * x <= j * N /\ (j-1) * N < Q * y + Q
  BY QType, SplitIndexBounds
<1>. HIDE DEF x, y, Q
<1>3. (j-1) * N = j * N - N /\ Q * (x - y) = Q * x - Q * y
  BY <1>1
<1>4. Q * x \in Int /\ Q * y \in Int /\ j * N \in Int
  BY <1>1
<1>5. Q * (x - y) < N + Q
  BY <1>1, <1>2, <1>3, <1>4
<1>. QED  BY <1>5 DEF x, y

LEMMA SplitIndexLast ==
  ASSUME NEW N \in Nat \ {0}
  PROVE  Q * (N - 1 - SplitIndex(Q-1, N)) < N
<1>. DEFINE x == SplitIndex(Q-1, N)
<1>1. x \in Nat /\ Q \in Nat \ {0} /\ Q - 1 \in 0..Q-1
  BY QType, SplitIndexBounds
<1>2. (Q-1) * N < Q * x + Q
  BY <1>1, SplitIndexBounds
<1>. HIDE DEF x, Q
<1>3. (Q-1) * N = Q * N - N /\ Q * (N - 1 - x) = Q * N - Q - Q * x
  BY <1>1
<1>4. Q * N \in Int /\ Q * x \in Int
  BY <1>1
<1>5. Q * (N - 1 - x) < N
  BY <1>1, <1>2, <1>3, <1>4
<1>. QED  BY <1>5 DEF x

(***************************************************************************)
(* The splits, once recorded.  The keys and the sizes of the splits of one *)
(* array are in order; and a smaller key, of either array, comes with a    *)
(* smaller size.                                                           *)
(***************************************************************************)
ToMerge == /\ A \in SortedArrays /\ B \in SortedArrays
           /\ N1 > 0 /\ N2 > 0

LEMMA ArrayTypes ==
  ASSUME ToMerge
  PROVE  /\ A \in Seq(Nat) /\ N1 \in Nat \ {0}
         /\ B \in Seq(Nat) /\ N2 \in Nat \ {0}
         /\ \A i, j \in 1..N1 : i <= j => A[i] <= A[j]
         /\ \A i, j \in 1..N2 : i <= j => B[i] <= B[j]
         /\ \A i \in 1..N1 : A[i] \in Nat
         /\ \A i \in 1..N2 : B[i] \in Nat
  BY DEF ToMerge, SortedArrays, N1, N2

LEMMA SplitsOfA ==
  ASSUME ToMerge, NEW j \in 0..Q-1
  PROVE  /\ SplitIndex(j, N1) \in 0..N1-1
         /\ SplitKey(j) = A[SplitIndex(j, N1) + 1]
         /\ SplitSize(j) = SplitIndex(j, N1) + LowerBound(B, SplitKey(j))
         /\ SplitKey(j) \in Nat
         /\ LowerBound(B, SplitKey(j)) \in 0..N2
         /\ SplitSize(j) \in 0..N1+N2
<1>1. SplitIndex(j, N1) \in 0..N1-1
  BY ArrayTypes, SplitIndexBounds
<1>2. /\ SplitKey(j) = A[SplitIndex(j, N1) + 1]
      /\ SplitSize(j) = SplitIndex(j, N1) + LowerBound(B, SplitKey(j))
  BY QType DEF SplitKey, SplitSize, Q
<1>3. SplitKey(j) \in Nat
  BY <1>1, <1>2, ArrayTypes
<1>4. LowerBound(B, SplitKey(j)) \in 0..N2
  BY <1>3, LowerBoundProperty DEF ToMerge, N2
<1>. QED  BY <1>1, <1>2, <1>3, <1>4, ArrayTypes

LEMMA SplitsOfB ==
  ASSUME ToMerge, NEW j \in Q..2*Q-1
  PROVE  /\ j - Q \in 0..Q-1
         /\ SplitIndex(j-Q, N2) \in 0..N2-1
         /\ SplitKey(j) = B[SplitIndex(j-Q, N2) + 1]
         /\ SplitSize(j) = SplitIndex(j-Q, N2) + LowerBound(A, SplitKey(j))
         /\ SplitKey(j) \in Nat
         /\ LowerBound(A, SplitKey(j)) \in 0..N1
         /\ SplitSize(j) \in 0..N1+N2
<1>0. j - Q \in 0..Q-1 /\ ~(j < Q)
  BY QType
<1>1. SplitIndex(j-Q, N2) \in 0..N2-1
  BY <1>0, ArrayTypes, SplitIndexBounds
<1>2. /\ SplitKey(j) = B[SplitIndex(j-Q, N2) + 1]
      /\ SplitSize(j) = SplitIndex(j-Q, N2) + LowerBound(A, SplitKey(j))
  BY <1>0 DEF SplitKey, SplitSize, Q
<1>3. SplitKey(j) \in Nat
  BY <1>1, <1>2, ArrayTypes
<1>4. LowerBound(A, SplitKey(j)) \in 0..N1
  BY <1>3, LowerBoundProperty DEF ToMerge, N1
<1>. QED  BY <1>0, <1>1, <1>2, <1>3, <1>4, ArrayTypes

LEMMA OrderWithinA ==
  ASSUME ToMerge, NEW j \in 0..Q-1, NEW k \in 0..Q-1, j <= k
  PROVE  SplitKey(j) <= SplitKey(k) /\ SplitSize(j) <= SplitSize(k)
<1>1. SplitIndex(j, N1) <= SplitIndex(k, N1)
  BY ArrayTypes, SplitIndexMonotone
<1>2. SplitKey(j) <= SplitKey(k)
  <2>. DEFINE x == SplitIndex(j, N1)  y == SplitIndex(k, N1)
  <2>1. SplitKey(j) = A[x+1] /\ SplitKey(k) = A[y+1]
    BY SplitsOfA
  <2>2. x + 1 \in 1..N1 /\ y + 1 \in 1..N1 /\ x + 1 <= y + 1
    BY <1>1, SplitsOfA, ArrayTypes, SMTT(40)
  <2>. HIDE DEF x, y
  <2>. QED  BY <2>1, <2>2, ArrayTypes
<1>3. LowerBound(B, SplitKey(j)) <= LowerBound(B, SplitKey(k))
  BY <1>2, SplitsOfA, LowerBoundMonotone DEF ToMerge
<1>. QED  BY <1>1, <1>2, <1>3, SplitsOfA

LEMMA OrderWithinB ==
  ASSUME ToMerge, NEW j \in Q..2*Q-1, NEW k \in Q..2*Q-1, j <= k
  PROVE  SplitKey(j) <= SplitKey(k) /\ SplitSize(j) <= SplitSize(k)
<1>1. SplitIndex(j-Q, N2) <= SplitIndex(k-Q, N2)
  BY QType, ArrayTypes, SplitIndexMonotone
<1>2. SplitKey(j) <= SplitKey(k)
  <2>. DEFINE x == SplitIndex(j-Q, N2)  y == SplitIndex(k-Q, N2)
  <2>1. SplitKey(j) = B[x+1] /\ SplitKey(k) = B[y+1]
    BY SplitsOfB
  <2>2. x + 1 \in 1..N2 /\ y + 1 \in 1..N2 /\ x + 1 <= y + 1
    <3>1. x \in 0..N2-1 /\ y \in 0..N2-1
      BY SplitsOfB
    <3>2. x <= y /\ N2 \in Nat
      BY <1>1, ArrayTypes
    <3>. HIDE DEF x, y
    <3>. QED  BY <3>1, <3>2
  <2>. HIDE DEF x, y
  <2>. QED  BY <2>1, <2>2, ArrayTypes
<1>3. LowerBound(A, SplitKey(j)) <= LowerBound(A, SplitKey(k))
  BY <1>2, SplitsOfB, LowerBoundMonotone DEF ToMerge
<1>. QED  BY <1>1, <1>2, <1>3, SplitsOfB

\* a split of A and a split of B with distinct keys
LEMMA OrderAcross ==
  ASSUME ToMerge, NEW j \in 0..Q-1, NEW k \in Q..2*Q-1
  PROVE  /\ SplitKey(j) > SplitKey(k) =>
              /\ LowerBound(B, SplitKey(j)) > SplitIndex(k-Q, N2)
              /\ SplitSize(j) > SplitSize(k)
         /\ SplitKey(j) < SplitKey(k) =>
              /\ LowerBound(A, SplitKey(k)) > SplitIndex(j, N1)
              /\ SplitSize(j) < SplitSize(k)
<1>. DEFINE x == SplitIndex(j, N1)      u == SplitKey(j)
            y == SplitIndex(k-Q, N2)    v == SplitKey(k)
<1>1. /\ x \in 0..N1-1 /\ u = A[x+1] /\ u \in Nat
      /\ SplitSize(j) = x + LowerBound(B, u)
  BY SplitsOfA
<1>2. /\ y \in 0..N2-1 /\ v = B[y+1] /\ v \in Nat
      /\ SplitSize(k) = y + LowerBound(A, v)
  BY SplitsOfB
<1>3. N1 \in Nat /\ N2 \in Nat
  BY ArrayTypes
<1>. HIDE DEF x, y, u, v
<1>4. /\ LowerBound(B, u) \in 0..N2
      /\ \A i \in LowerBound(B, u) + 1..N2 : B[i] >= u
      /\ \A i \in 1..LowerBound(B, u) : B[i] < u
  <2>1. u \in Int /\ B \in SortedArrays
    BY <1>1 DEF ToMerge
  <2>. QED  BY <2>1, LowerBoundProperty DEF N2
<1>5. /\ LowerBound(A, v) \in 0..N1
      /\ \A i \in LowerBound(A, v) + 1..N1 : A[i] >= v
      /\ \A i \in 1..LowerBound(A, v) : A[i] < v
  <2>1. v \in Int /\ A \in SortedArrays
    BY <1>2 DEF ToMerge
  <2>. QED  BY <2>1, LowerBoundProperty DEF N1
<1>. DEFINE lu == LowerBound(B, u)  lv == LowerBound(A, v)
<1>. HIDE DEF lu, lv
<1>6. ASSUME u > v
      PROVE  LowerBound(B, u) > y /\ SplitSize(j) > SplitSize(k)
  <2>1. lu > y
    <3>1. ~ (y + 1 \in lu + 1..N2)
      BY <1>1, <1>2, <1>4, <1>6 DEF lu
    <3>. QED  BY <1>2, <1>3, <1>4, <3>1 DEF lu
  <2>2. lv <= x
    <3>1. ~ (x + 1 \in 1..lv)
      BY <1>1, <1>2, <1>5, <1>6 DEF lv
    <3>. QED  BY <1>1, <1>3, <1>5, <3>1 DEF lv
  <2>. QED  BY <1>1, <1>2, <1>3, <1>4, <1>5, <2>1, <2>2 DEF lu, lv
<1>7. ASSUME u < v
      PROVE  LowerBound(A, v) > x /\ SplitSize(j) < SplitSize(k)
  <2>1. lv > x
    <3>1. ~ (x + 1 \in lv + 1..N1)
      BY <1>1, <1>2, <1>5, <1>7 DEF lv
    <3>. QED  BY <1>1, <1>3, <1>5, <3>1 DEF lv
  <2>2. lu <= y
    <3>1. ~ (y + 1 \in 1..lu)
      BY <1>1, <1>2, <1>4, <1>7 DEF lu
    <3>. QED  BY <1>2, <1>3, <1>4, <3>1 DEF lu
  <2>. QED  BY <1>1, <1>2, <1>3, <1>4, <1>5, <2>1, <2>2 DEF lu, lv
<1>. QED  BY <1>6, <1>7 DEF x, y, u, v

(***************************************************************************)
(* Two neighbouring splits of one array, both past the last split of the   *)
(* other array, are less than (N1+N2)/(p*n) + 1 apart in the output.       *)
(***************************************************************************)
LEMMA GapInA ==
  ASSUME ToMerge, NEW j \in 1..Q-1, SplitKey(j-1) > SplitKey(2*Q-1)
  PROVE  Q * (SplitSize(j) - SplitSize(j-1)) < N1 + N2 + Q
<1>. DEFINE x == SplitIndex(j, N1)  w == SplitIndex(j-1, N1)
            y == SplitIndex(Q-1, N2)
            X == Q * (x - w)  Y == Q * (N2 - 1 - y)
            G == SplitSize(j) - SplitSize(j-1)
<1>1. j \in 0..Q-1 /\ j-1 \in 0..Q-1 /\ 2*Q-1 \in Q..2*Q-1 /\ 2*Q-1-Q = Q-1
  BY QType
<1>2. /\ x \in Nat /\ w \in Nat /\ SplitSize(j) <= x + N2
      /\ SplitSize(j-1) = w + LowerBound(B, SplitKey(j-1))
      /\ SplitSize(j) \in Int /\ SplitSize(j-1) \in Int
      /\ LowerBound(B, SplitKey(j-1)) \in Int
  BY <1>1, SplitsOfA, ArrayTypes
<1>3. LowerBound(B, SplitKey(j-1)) >= y + 1 /\ y \in Nat
  <2>1. LowerBound(B, SplitKey(j-1)) > SplitIndex(2*Q-1-Q, N2)
    BY <1>1, OrderAcross
  <2>2. y \in Nat
    BY <1>1, SplitsOfB
  <2>. QED  BY <1>1, <1>2, <2>1, <2>2
<1>4. X < N1 + Q /\ Y < N2
  BY SplitIndexStep, SplitIndexLast, ArrayTypes
<1>5. N1 \in Nat /\ N2 \in Nat /\ Q \in Nat
  BY ArrayTypes, QType
<1>6. G \in Int /\ G <= (x - w) + (N2 - 1 - y)
  BY <1>2, <1>3, <1>5
<1>. HIDE DEF x, w, y, Q, G
<1>7. Q * G <= X + Y /\ X \in Int /\ Y \in Int /\ Q * G \in Int
  <2>1. Q * G <= Q * ((x - w) + (N2 - 1 - y))
    BY <1>2, <1>3, <1>5, <1>6
  <2>2. Q * ((x - w) + (N2 - 1 - y)) = X + Y
    BY <1>2, <1>3, <1>5
  <2>. QED  BY <1>2, <1>3, <1>5, <1>6, <2>1, <2>2
<1>. HIDE DEF X, Y
<1>8. Q * G < N1 + N2 + Q
  BY <1>4, <1>5, <1>7
<1>. QED  BY <1>8 DEF G

LEMMA GapInB ==
  ASSUME ToMerge, NEW j \in Q+1..2*Q-1, SplitKey(j-1) > SplitKey(Q-1)
  PROVE  Q * (SplitSize(j) - SplitSize(j-1)) < N1 + N2 + Q
<1>. DEFINE x == SplitIndex(j-Q, N2)  w == SplitIndex(j-1-Q, N2)
            y == SplitIndex(Q-1, N1)
            X == Q * (x - w)  Y == Q * (N1 - 1 - y)
            G == SplitSize(j) - SplitSize(j-1)
<1>1. /\ j \in Q..2*Q-1 /\ j-1 \in Q..2*Q-1 /\ Q-1 \in 0..Q-1
      /\ j-Q \in 1..Q-1 /\ j-1-Q = (j-Q)-1
  BY QType
<1>2. /\ x \in Nat /\ w \in Nat /\ SplitSize(j) <= x + N1
      /\ SplitSize(j-1) = w + LowerBound(A, SplitKey(j-1))
      /\ SplitSize(j) \in Int /\ SplitSize(j-1) \in Int
      /\ LowerBound(A, SplitKey(j-1)) \in Int
  BY <1>1, SplitsOfB, ArrayTypes, SMTT(40)
<1>3. LowerBound(A, SplitKey(j-1)) >= y + 1 /\ y \in Nat
  <2>1. LowerBound(A, SplitKey(j-1)) > SplitIndex(Q-1, N1)
    BY <1>1, OrderAcross
  <2>2. y \in Nat
    BY <1>1, SplitsOfA
  <2>. QED  BY <1>1, <1>2, <2>1, <2>2
<1>4. X < N2 + Q /\ Y < N1
  BY <1>1, SplitIndexStep, SplitIndexLast, ArrayTypes
<1>5. N1 \in Nat /\ N2 \in Nat /\ Q \in Nat
  BY ArrayTypes, QType
<1>6. G \in Int /\ G <= (x - w) + (N1 - 1 - y)
  BY <1>2, <1>3, <1>5
<1>. HIDE DEF x, w, y, Q, G
<1>7. Q * G <= X + Y /\ X \in Int /\ Y \in Int /\ Q * G \in Int
  <2>1. Q * G <= Q * ((x - w) + (N1 - 1 - y))
    BY <1>2, <1>3, <1>5, <1>6
  <2>2. Q * ((x - w) + (N1 - 1 - y)) = X + Y
    BY <1>2, <1>3, <1>5
  <2>. QED  BY <1>2, <1>3, <1>5, <1>6, <2>1, <2>2
<1>. HIDE DEF X, Y
<1>8. Q * G < N1 + N2 + Q
  BY <1>4, <1>5, <1>7
<1>. QED  BY <1>8 DEF G

(***************************************************************************)
(* The sizes wanted by consecutive iterations are an equal share apart,    *)
(* which leaves no room between them for such a gap.                       *)
(***************************************************************************)
LEMMA ReqSizeStep ==
  ASSUME NEW i \in Nat, N1 \in Nat, N2 \in Nat
  PROVE  /\ ReqSize(i) \in Nat /\ ReqSize(i+1) \in Nat
         /\ ReqSize(i) <= ReqSize(i+1)
         /\ p * (ReqSize(i+1) - ReqSize(i) + 1) > N1 + N2
<1>. DEFINE M == N1 + N2  a == i * M  b == (i+1) * M  r == a \div p  t == b \div p
<1>1. M \in Nat /\ p \in Nat \ {0}
  BY ParametersAssumption
<1>2. ReqSize(i) = r /\ ReqSize(i+1) = t
  BY DEF ReqSize
<1>. HIDE DEF M
<1>3. a \in Nat /\ b \in Nat /\ b = a + M
  BY <1>1
<1>. HIDE DEF a, b
<1>4. r \in Nat /\ t \in Nat /\ p * r <= a /\ b < p * t + p /\ r <= t
  BY <1>1, <1>3, DivBounds, DivMonotone
<1>. HIDE DEF r, t
<1>5. p * (t - r + 1) = p * t - p * r + p /\ p * t \in Int /\ p * r \in Int
  BY <1>1, <1>4
<1>6. p * (t - r + 1) > M
  BY <1>1, <1>3, <1>4, <1>5
<1>. QED  BY <1>2, <1>4, <1>6 DEF M

LEMMA NoRoomForGap ==
  ASSUME NEW M \in Nat, NEW r \in Nat, NEW t \in Nat, r <= t,
         p * (t - r + 1) > M,
         NEW gap \in Int, Q * gap < M + Q
  PROVE  gap < t - r + 2
<1>. DEFINE d == t - r + 1  e == p * d
<1>1. p \in Nat \ {0} /\ n \in Nat \ {0} /\ Q = p * n /\ d \in Nat /\ e \in Nat
  BY ParametersAssumption DEF Q
<1>. HIDE DEF d
<1>2. ASSUME gap >= d + 1
      PROVE  FALSE
  <2>1. Q * gap >= Q * (d + 1) /\ Q * gap \in Int
    BY <1>1, <1>2, QType
  <2>2. Q * (d + 1) = n * e + Q
    BY <1>1
  <2>. HIDE DEF e, Q
  <2>3. n * e >= e /\ n * e \in Nat
    BY <1>1
  <2>4. e > M
    BY DEF d, e
  <2>. QED  BY <1>1, <2>1, <2>2, <2>3, <2>4, QType
<1>. QED  BY <1>1, <1>2 DEF d

LEMMA ReqSizeBelow ==
  ASSUME ToMerge, NEW i \in 1..p-1
  PROVE  ReqSize(i) \in Nat /\ ReqSize(i) < N1 + N2
<1>. DEFINE N == N1 + N2  e == i * N
<1>1. N \in Nat \ {0} /\ p \in Nat \ {0} /\ i \in Nat /\ i < p
  BY ArrayTypes, ParametersAssumption
<1>. HIDE DEF N
<1>2. e \in Nat /\ e < p * N
  BY <1>1
<1>. HIDE DEF e
<1>3. e \div p \in Nat /\ e \div p < N
  BY <1>1, <1>2, DivBounds, DivBelow
<1>. QED  BY <1>3 DEF e, N, ReqSize

(***************************************************************************)
(* The candidates of an iteration of the pick loop, and its choice.        *)
(***************************************************************************)
AllRecorded ==
  \A j \in Splits : split[j] = SplitKey(j) /\ split_size[j] = SplitSize(j)

LEMMA FirstSplitProperty ==
  ASSUME NEW f \in Nat, NEW l \in Int, f <= l + 1, NEW sz \in Int,
         \A i \in f..l : split_size[i] \in Int,
         \A i, j \in f..l : i <= j => split_size[i] <= split_size[j]
  PROVE  /\ FirstSplit(f, l, sz) \in f..l+1
         /\ \A i \in f..FirstSplit(f, l, sz) - 1 : split_size[i] < sz
         /\ \A i \in FirstSplit(f, l, sz)..l : split_size[i] >= sz
<1>. DEFINE P(j) == /\ \A i \in f..j-1 : split_size[i] < sz
                    /\ \A i \in j..l : split_size[i] >= sz
<1>1. \E j \in f..l+1 : P(j)
  BY FirstInRange, Zenon
<1>2. FirstSplit(f, l, sz) = CHOOSE j \in f..l+1 : P(j)
  BY DEF FirstSplit
<1>. HIDE DEF P
<1>3. FirstSplit(f, l, sz) \in f..l+1 /\ P(FirstSplit(f, l, sz))
  BY <1>1, <1>2
<1>. QED  BY <1>3 DEF P

LEMMA CandidateOfA ==
  ASSUME ToMerge, AllRecorded, NEW sz \in Int
  PROVE  /\ SplitOfA(sz) \in 0..Q-1
         /\ \A i \in 0..SplitOfA(sz)-1 : SplitSize(i) < sz
         /\ SplitSize(SplitOfA(sz)) >= sz \/ SplitOfA(sz) = Q-1
<1>1. \A i \in 0..Q-1 : split_size[i] = SplitSize(i) /\ SplitSize(i) \in Int
  BY QType, SplitsRange, SplitsOfA DEF AllRecorded
<1>2. \A i, j \in 0..Q-1 : i <= j => split_size[i] <= split_size[j]
  BY <1>1, OrderWithinA
<1>. DEFINE k == FirstSplit(0, Q-1, sz)
<1>3. /\ k \in 0..Q
      /\ \A i \in 0..k-1 : split_size[i] < sz
      /\ \A i \in k..Q-1 : split_size[i] >= sz
  <2>1. \A i \in 0..Q-1 : split_size[i] \in Int
    BY <1>1
  <2>2. Q-1 \in Int /\ 0 <= Q-1+1 /\ Q-1+1 = Q
    BY QType
  <2>. HIDE DEF Q
  <2>. QED  BY <1>2, <2>1, <2>2, FirstSplitProperty
<1>4. SplitOfA(sz) = IF k <= Q-1 THEN k ELSE Q-1
  BY DEF SplitOfA, AtMost, Q
<1>. HIDE DEF k, Q
<1>. QED  BY <1>1, <1>3, <1>4, QType

LEMMA CandidateOfB ==
  ASSUME ToMerge, AllRecorded, NEW sz \in Int
  PROVE  /\ SplitOfB(sz) \in Q..2*Q-1
         /\ \A i \in Q..SplitOfB(sz)-1 : SplitSize(i) < sz
         /\ SplitSize(SplitOfB(sz)) >= sz \/ SplitOfB(sz) = 2*Q-1
<1>1. \A i \in Q..2*Q-1 : split_size[i] = SplitSize(i) /\ SplitSize(i) \in Int
  BY QType, SplitsRange, SplitsOfB DEF AllRecorded
<1>2. \A i, j \in Q..2*Q-1 : i <= j => split_size[i] <= split_size[j]
  BY <1>1, OrderWithinB
<1>. DEFINE k == FirstSplit(Q, 2*Q-1, sz)
<1>3. /\ k \in Q..2*Q
      /\ \A i \in Q..k-1 : split_size[i] < sz
      /\ \A i \in k..2*Q-1 : split_size[i] >= sz
  <2>1. \A i \in Q..2*Q-1 : split_size[i] \in Int
    BY <1>1
  <2>2. Q \in Nat /\ 2*Q-1 \in Int /\ Q <= 2*Q-1+1 /\ 2*Q-1+1 = 2*Q
    BY QType
  <2>. HIDE DEF Q
  <2>. QED  BY <1>2, <2>1, <2>2, FirstSplitProperty
<1>4. SplitOfB(sz) = IF k <= 2*Q-1 THEN k ELSE 2*Q-1
  <2>1. Q = p*n /\ 2*Q-1 = 2*p*n - 1
    BY SplitsRange DEF Q
  <2>. HIDE DEF Q
  <2>. QED  BY <2>1 DEF SplitOfB, AtMost
<1>. HIDE DEF k, Q
<1>. QED  BY <1>1, <1>3, <1>4, QType

LEMMA Choice ==
  ASSUME ToMerge, AllRecorded, NEW sz \in Int
  PROVE  /\ ClosestSplit(sz) \in Splits
         /\ \/ /\ ClosestSplit(sz) = SplitOfA(sz)
               /\ Abs(SplitSize(SplitOfA(sz)) - sz) <= Abs(SplitSize(SplitOfB(sz)) - sz)
            \/ /\ ClosestSplit(sz) = SplitOfB(sz)
               /\ Abs(SplitSize(SplitOfB(sz)) - sz) < Abs(SplitSize(SplitOfA(sz)) - sz)
<1>. DEFINE a == SplitOfA(sz)  b == SplitOfB(sz)
<1>1. a \in 0..Q-1 /\ b \in Q..2*Q-1
  BY CandidateOfA, CandidateOfB
<1>2. a \in Splits /\ b \in Splits
  BY <1>1, QType, SplitsRange
<1>3. /\ split_size[a] = SplitSize(a) /\ split_size[b] = SplitSize(b)
      /\ SplitSize(a) \in Int /\ SplitSize(b) \in Int
  BY <1>1, <1>2, SplitsOfA, SplitsOfB DEF AllRecorded
<1>4. ClosestSplit(sz) = IF Abs(split_size[b] - sz) < Abs(split_size[a] - sz)
                         THEN b ELSE a
  BY DEF ClosestSplit
<1>. HIDE DEF a, b
<1>5. ClosestSplit(sz) = IF Abs(SplitSize(b) - sz) < Abs(SplitSize(a) - sz)
                         THEN b ELSE a
  BY <1>3, <1>4
<1>6. Abs(SplitSize(b) - sz) \in Int /\ Abs(SplitSize(a) - sz) \in Int
  BY <1>3 DEF Abs
<1>7. CASE Abs(SplitSize(b) - sz) < Abs(SplitSize(a) - sz)
  BY <1>2, <1>5, <1>7 DEF a, b
<1>8. CASE Abs(SplitSize(a) - sz) <= Abs(SplitSize(b) - sz)
  BY <1>2, <1>5, <1>6, <1>8 DEF a, b
<1>. QED  BY <1>6, <1>7, <1>8

(***************************************************************************)
(* The heart of the matter: consecutive iterations, choosing on their own, *)
(* never choose keys in the wrong order.                                   *)
(***************************************************************************)
LEMMA ChoicesInOrder ==
  ASSUME ToMerge, AllRecorded, NEW i \in Nat
  PROVE  SplitKey(ClosestSplit(ReqSize(i))) <= SplitKey(ClosestSplit(ReqSize(i+1)))
<1>. DEFINE r == ReqSize(i)  t == ReqSize(i+1)
            a == SplitOfA(r)  b == SplitOfB(r)
            c == SplitOfA(t)  d == SplitOfB(t)
<1>1. /\ r \in Nat /\ t \in Nat /\ r <= t
      /\ p * (t - r + 1) > N1 + N2
      /\ N1 \in Nat /\ N2 \in Nat
  BY ArrayTypes, ReqSizeStep
<1>2. /\ a \in 0..Q-1 /\ (\A k \in 0..a-1 : SplitSize(k) < r)
      /\ SplitSize(a) >= r \/ a = Q-1
      /\ c \in 0..Q-1 /\ (\A k \in 0..c-1 : SplitSize(k) < t)
      /\ SplitSize(c) >= t \/ c = Q-1
  BY <1>1, CandidateOfA
<1>3. /\ b \in Q..2*Q-1 /\ (\A k \in Q..b-1 : SplitSize(k) < r)
      /\ SplitSize(b) >= r \/ b = 2*Q-1
      /\ d \in Q..2*Q-1 /\ (\A k \in Q..d-1 : SplitSize(k) < t)
      /\ SplitSize(d) >= t \/ d = 2*Q-1
  BY <1>1, CandidateOfB
<1>4. /\ SplitSize(a) \in Int /\ SplitSize(b) \in Int
      /\ SplitSize(c) \in Int /\ SplitSize(d) \in Int
      /\ SplitKey(a) \in Int /\ SplitKey(b) \in Int
      /\ SplitKey(c) \in Int /\ SplitKey(d) \in Int
  BY <1>2, <1>3, SplitsOfA, SplitsOfB
<1>5. \/ /\ ClosestSplit(r) = a
         /\ Abs(SplitSize(a) - r) <= Abs(SplitSize(b) - r)
      \/ /\ ClosestSplit(r) = b
         /\ Abs(SplitSize(b) - r) < Abs(SplitSize(a) - r)
  BY <1>1, Choice
<1>6. \/ /\ ClosestSplit(t) = c
         /\ Abs(SplitSize(c) - t) <= Abs(SplitSize(d) - t)
      \/ /\ ClosestSplit(t) = d
         /\ Abs(SplitSize(d) - t) < Abs(SplitSize(c) - t)
  BY <1>1, Choice
<1>. HIDE DEF r, t, a, b, c, d
<1>7. a <= c
  BY <1>1, <1>2, <1>4, QType
<1>8. b <= d
  BY <1>1, <1>3, <1>4, QType
<1>9. SplitKey(a) <= SplitKey(c) /\ SplitSize(a) <= SplitSize(c)
  BY <1>2, <1>7, OrderWithinA
<1>10. SplitKey(b) <= SplitKey(d) /\ SplitSize(b) <= SplitSize(d)
  BY <1>3, <1>8, OrderWithinB
<1>11. CASE /\ ClosestSplit(r) = a /\ ClosestSplit(t) = d
            /\ Abs(SplitSize(a) - r) <= Abs(SplitSize(b) - r)
            /\ Abs(SplitSize(d) - t) < Abs(SplitSize(c) - t)
  <2>1. SUFFICES ASSUME SplitKey(a) > SplitKey(d)
                 PROVE  FALSE
    BY <1>4, <1>11 DEF r, t
  <2>2. SplitSize(a) > SplitSize(d)
    BY <1>2, <1>3, <2>1, OrderAcross
  <2>3. /\ d = 2*Q-1 /\ SplitSize(d) < r
        /\ SplitSize(c) - t > t - SplitSize(d)
        /\ SplitSize(a) - r <= r - SplitSize(d)
    BY <1>1, <1>2, <1>3, <1>4, <1>9, <1>10, <1>11, <2>2, QType DEF Abs
  <2>4. a # c
    BY <1>1, <1>4, <2>3
  <2>5. c-1 \in a..Q-1 /\ c \in 1..Q-1 /\ c-1 \in 0..c-1 /\ c-1 \in 0..Q-1
    BY <1>2, <1>7, <2>4, QType
  <2>6. SplitSize(c-1) < t /\ SplitSize(c-1) \in Int
    BY <1>2, <2>5, SplitsOfA
  <2>7. SplitKey(c-1) >= SplitKey(a) /\ SplitKey(c-1) \in Int
    BY <1>2, <2>5, OrderWithinA, SplitsOfA
  <2>8. Q * (SplitSize(c) - SplitSize(c-1)) < N1 + N2 + Q
    BY <1>4, <2>1, <2>3, <2>5, <2>7, GapInA
  <2>9. SplitSize(c) - SplitSize(c-1) < t - r + 2
    BY <1>1, <1>4, <2>6, <2>8, NoRoomForGap
  <2>. QED  BY <1>1, <1>4, <2>3, <2>6, <2>9
<1>12. CASE /\ ClosestSplit(r) = b /\ ClosestSplit(t) = c
            /\ Abs(SplitSize(b) - r) < Abs(SplitSize(a) - r)
            /\ Abs(SplitSize(c) - t) <= Abs(SplitSize(d) - t)
  <2>1. SUFFICES ASSUME SplitKey(b) > SplitKey(c)
                 PROVE  FALSE
    BY <1>4, <1>12 DEF r, t
  <2>2. SplitSize(b) > SplitSize(c)
    BY <1>2, <1>3, <2>1, OrderAcross
  <2>3. /\ c = Q-1 /\ SplitSize(c) < r
        /\ SplitSize(d) - t >= t - SplitSize(c)
        /\ SplitSize(b) - r < r - SplitSize(c)
    BY <1>1, <1>2, <1>3, <1>4, <1>9, <1>10, <1>12, <2>2, QType DEF Abs
  <2>4. b # d
    BY <1>1, <1>4, <2>3
  <2>5. d-1 \in b..2*Q-1 /\ d \in Q+1..2*Q-1 /\ d-1 \in Q..d-1 /\ d-1 \in Q..2*Q-1
    BY <1>3, <1>8, <2>4, QType
  <2>6. SplitSize(d-1) < t /\ SplitSize(d-1) \in Int
    BY <1>3, <2>5, SplitsOfB
  <2>7. SplitKey(d-1) >= SplitKey(b) /\ SplitKey(d-1) \in Int
    BY <1>3, <2>5, OrderWithinB, SplitsOfB
  <2>8. Q * (SplitSize(d) - SplitSize(d-1)) < N1 + N2 + Q
    BY <1>4, <2>1, <2>3, <2>5, <2>7, GapInB
  <2>9. SplitSize(d) - SplitSize(d-1) < t - r + 2
    BY <1>1, <1>4, <2>6, <2>8, NoRoomForGap
  <2>. QED  BY <1>1, <1>4, <2>3, <2>6, <2>9
<1>. QED  BY <1>5, <1>6, <1>9, <1>10, <1>11, <1>12 DEF r, t

(***************************************************************************)
(* Keys that all differ: the size of a split is its exact place in the     *)
(* merged array, and of the two candidates one is near.                    *)
(***************************************************************************)
LEMMA KeysInOrder ==
  ASSUME ToMerge, KeysDiffer
  PROVE  /\ \A x, y \in 1..N1 : x < y => A[x] < A[y]
         /\ \A x, y \in 1..N2 : x < y => B[x] < B[y]
         /\ \A x \in 1..N1 : \A y \in 1..N2 : A[x] # B[y]
<1>1. \A x \in 1..N1 : <<"A", x>> \in Elements /\ Key(<<"A", x>>) = A[x]
  BY DEF Elements, Key
<1>2. \A y \in 1..N2 : <<"B", y>> \in Elements /\ Key(<<"B", y>>) = B[y]
  BY DEF Elements, Key
<1>3. \A x, y \in 1..N1 : A[x] = A[y] => x = y
  BY <1>1 DEF KeysDiffer
<1>4. \A x, y \in 1..N2 : B[x] = B[y] => x = y
  BY <1>2 DEF KeysDiffer
<1>5. ASSUME NEW x \in 1..N1, NEW y \in 1..N2 PROVE A[x] # B[y]
  BY <1>1, <1>2 DEF KeysDiffer
<1>6. ASSUME NEW x \in 1..N1, NEW y \in 1..N1, x < y PROVE A[x] < A[y]
  <2>1. A[x] <= A[y] /\ A[x] # A[y]
    BY <1>3, <1>6, ArrayTypes
  <2>2. A[x] \in Nat /\ A[y] \in Nat
    BY ArrayTypes
  <2>. QED  BY <2>1, <2>2
<1>7. ASSUME NEW x \in 1..N2, NEW y \in 1..N2, x < y PROVE B[x] < B[y]
  <2>1. B[x] <= B[y] /\ B[x] # B[y]
    BY <1>4, <1>7, ArrayTypes
  <2>2. B[x] \in Nat /\ B[y] \in Nat
    BY ArrayTypes
  <2>. QED  BY <2>1, <2>2
<1>. QED  BY <1>5, <1>6, <1>7

\* a key of s that no smaller position has is found where it is
LEMMA LowerBoundOfOwn ==
  ASSUME NEW s \in SortedArrays, NEW x \in 1..Len(s),
         \A y \in 1..Len(s) : y < x => s[y] < s[x]
  PROVE  LowerBound(s, s[x]) = x - 1
<1>. DEFINE l == LowerBound(s, s[x])
<1>1. s \in Seq(Nat) /\ s[x] \in Int
  BY DEF SortedArrays
<1>2. /\ l \in 0..Len(s)
      /\ \A i \in 1..l : s[i] < s[x]
      /\ \A i \in l+1..Len(s) : s[i] >= s[x]
  BY <1>1, LowerBoundProperty
<1>. HIDE DEF l
<1>3. ~(x <= l)
  BY <1>1, <1>2
<1>4. ASSUME l < x - 1 PROVE FALSE
  <2>1. l + 1 \in l+1..Len(s) /\ l + 1 \in 1..Len(s) /\ l + 1 < x
    BY <1>1, <1>2, <1>4
  <2>2. s[l+1] >= s[x] /\ s[l+1] < s[x] /\ s[l+1] \in Nat
    BY <1>1, <1>2, <2>1
  <2>. QED  BY <1>1, <2>2
<1>5. l = x - 1
  BY <1>1, <1>2, <1>3, <1>4
<1>. QED  BY <1>5 DEF l

LEMMA PlacesOfSplits ==
  ASSUME ToMerge, KeysDiffer
  PROVE  /\ \A j \in 0..Q-1 : LowerBound(A, SplitKey(j)) = SplitIndex(j, N1)
         /\ \A j \in Q..2*Q-1 : LowerBound(B, SplitKey(j)) = SplitIndex(j-Q, N2)
<1>1. ASSUME NEW j \in 0..Q-1 PROVE LowerBound(A, SplitKey(j)) = SplitIndex(j, N1)
  <2>. DEFINE x == SplitIndex(j, N1)
  <2>1. x \in 0..N1-1 /\ SplitKey(j) = A[x+1]
    BY SplitsOfA
  <2>. HIDE DEF x
  <2>2. x + 1 \in 1..Len(A) /\ N1 = Len(A) /\ N1 \in Nat /\ x \in Int
    BY <2>1, ArrayTypes DEF N1
  <2>3. \A y \in 1..Len(A) : y < x+1 => A[y] < A[x+1]
    BY <2>2, KeysInOrder
  <2>4. LowerBound(A, A[x+1]) = (x + 1) - 1
    BY <2>2, <2>3, LowerBoundOfOwn DEF ToMerge
  <2>5. SplitIndex(j, N1) = x
    BY DEF x
  <2>. QED  BY <2>1, <2>2, <2>4, <2>5
<1>2. ASSUME NEW j \in Q..2*Q-1 PROVE LowerBound(B, SplitKey(j)) = SplitIndex(j-Q, N2)
  <2>. DEFINE x == SplitIndex(j-Q, N2)
  <2>1. x \in 0..N2-1 /\ SplitKey(j) = B[x+1]
    BY SplitsOfB
  <2>. HIDE DEF x
  <2>2. x + 1 \in 1..Len(B) /\ N2 = Len(B) /\ N2 \in Nat /\ x \in Int
    BY <2>1, ArrayTypes DEF N2
  <2>3. \A y \in 1..Len(B) : y < x+1 => B[y] < B[x+1]
    BY <2>2, KeysInOrder
  <2>4. LowerBound(B, B[x+1]) = (x + 1) - 1
    BY <2>2, <2>3, LowerBoundOfOwn DEF ToMerge
  <2>5. SplitIndex(j-Q, N2) = x
    BY DEF x
  <2>. QED  BY <2>1, <2>2, <2>4, <2>5
<1>. QED  BY <1>1, <1>2

\* Of a split of A and one of B, the one with the smaller key has at most as
\* many elements before it as the two have in their arrays, the other has more.
LEMMA TwoSplits ==
  ASSUME ToMerge, KeysDiffer, NEW j \in 0..Q-1, NEW k \in Q..2*Q-1
  PROVE  LET e == SplitIndex(j, N1) + SplitIndex(k-Q, N2)
         IN  /\ SplitSize(j) <= e \/ SplitSize(k) <= e
             /\ SplitSize(j) > e \/ SplitSize(k) > e
<1>. DEFINE x == SplitIndex(j, N1)  y == SplitIndex(k-Q, N2)
            u == SplitKey(j)  v == SplitKey(k)
<1>1. /\ x \in 0..N1-1 /\ u = A[x+1] /\ u \in Nat /\ LowerBound(B, u) \in 0..N2
      /\ SplitSize(j) = x + LowerBound(B, u)
  BY SplitsOfA
<1>2. /\ y \in 0..N2-1 /\ v = B[y+1] /\ v \in Nat /\ LowerBound(A, v) \in 0..N1
      /\ SplitSize(k) = y + LowerBound(A, v)
  BY SplitsOfB
<1>3. LowerBound(A, u) = x /\ LowerBound(B, v) = y
  BY PlacesOfSplits
<1>4. N1 \in Nat /\ N2 \in Nat /\ N1 = Len(A) /\ N2 = Len(B)
  BY ArrayTypes DEF N1, N2
<1>. HIDE DEF x, y, u, v
<1>5. u # v
  BY <1>1, <1>2, <1>4, KeysInOrder
<1>6. CASE u < v
  <2>1. LowerBound(B, u) <= y
    BY <1>1, <1>2, <1>3, <1>6, LowerBoundMonotone DEF ToMerge
  <2>2. LowerBound(A, v) > x
    <3>1. \A z \in Int : \A i \in LowerBound(A, z) + 1..Len(A) : A[i] >= z
      BY LowerBoundProperty DEF ToMerge
    <3>2. ~(x + 1 \in LowerBound(A, v) + 1..Len(A))
      BY <1>1, <1>2, <1>6, <3>1
    <3>. QED  BY <1>1, <1>2, <1>4, <3>2
  <2>3. SplitSize(j) <= x + y /\ SplitSize(k) > x + y
    BY <1>1, <1>2, <1>4, <2>1, <2>2
  <2>. QED  BY <2>3 DEF x, y
<1>7. CASE v < u
  <2>1. LowerBound(A, v) <= x
    BY <1>1, <1>2, <1>3, <1>7, LowerBoundMonotone DEF ToMerge
  <2>2. LowerBound(B, u) > y
    <3>1. \A z \in Int : \A i \in LowerBound(B, z) + 1..Len(B) : B[i] >= z
      BY LowerBoundProperty DEF ToMerge
    <3>2. ~(y + 1 \in LowerBound(B, u) + 1..Len(B))
      BY <1>1, <1>2, <1>7, <3>1
    <3>. QED  BY <1>1, <1>2, <1>4, <3>2
  <2>3. SplitSize(k) <= x + y /\ SplitSize(j) > x + y
    BY <1>1, <1>2, <1>4, <2>1, <2>2
  <2>. QED  BY <2>3 DEF x, y
<1>. QED  BY <1>1, <1>2, <1>5, <1>6, <1>7

LEMMA DivAtLeast ==
  ASSUME NEW d \in Int, NEW N \in Nat, NEW b \in Nat \ {0}, b * d < N + 1
  PROVE  d <= N \div b
<1>. DEFINE m == N \div b
<1>1. m \in Nat /\ N < b * m + b
  BY DivBounds
<1>. HIDE DEF m
<1>2. ASSUME d >= m + 1 PROVE FALSE
  <2>1. b * d >= b * (m + 1)
    BY <1>1, <1>2
  <2>. QED  BY <1>1, <2>1
<1>3. d <= m
  BY <1>1, <1>2
<1>. QED  BY <1>3 DEF m

\* From x on, and up to y, A may have elements between the splits around r.
BetweenInA(r, x, y) ==
  /\ x \in Nat /\ y \in Nat /\ y - x <= N1 \div Q
  /\ x = 0 \/ \E k \in 0..Q-1 : SplitSize(k) < r /\ x = SplitIndex(k, N1) + 1
  /\ \/ SplitSize(SplitOfA(r)) >= r /\ y = SplitIndex(SplitOfA(r), N1)
     \/ SplitSize(SplitOfA(r)) < r /\ y = N1 /\ x = SplitIndex(SplitOfA(r), N1) + 1

BetweenInB(r, x, y) ==
  /\ x \in Nat /\ y \in Nat /\ y - x <= N2 \div Q
  /\ x = 0 \/ \E k \in Q..2*Q-1 : SplitSize(k) < r /\ x = SplitIndex(k-Q, N2) + 1
  /\ \/ SplitSize(SplitOfB(r)) >= r /\ y = SplitIndex(SplitOfB(r) - Q, N2)
     \/ SplitSize(SplitOfB(r)) < r /\ y = N2 /\ x = SplitIndex(SplitOfB(r) - Q, N2) + 1

LEMMA StepBelow ==
  ASSUME NEW j \in 1..Q-1, NEW N \in Nat \ {0}
  PROVE  SplitIndex(j, N) - (SplitIndex(j-1, N) + 1) <= N \div Q
<1>. DEFINE x == SplitIndex(j, N)  y == SplitIndex(j-1, N)
<1>1. x \in Nat /\ y \in Nat /\ Q \in Nat \ {0} /\ Q * (x - y) < N + Q
  BY QType, SplitIndexBounds, SplitIndexStep
<1>. HIDE DEF x, y, Q
<1>2. Q * (x - (y + 1)) = Q * (x - y) - Q /\ x - (y + 1) \in Int
  BY <1>1
<1>3. Q * (x - (y + 1)) < N + 1
  BY <1>1, <1>2
<1>4. x - (y + 1) <= N \div Q
  BY <1>1, <1>2, <1>3, DivAtLeast
<1>. QED  BY <1>4 DEF x, y

LEMMA StepLast ==
  ASSUME NEW N \in Nat \ {0}
  PROVE  N - (SplitIndex(Q-1, N) + 1) <= N \div Q
<1>. DEFINE x == SplitIndex(Q-1, N)
<1>1. x \in Nat /\ Q \in Nat \ {0} /\ Q * (N - 1 - x) < N
  BY QType, SplitIndexBounds, SplitIndexLast
<1>. HIDE DEF x, Q
<1>2. N - (x + 1) = N - 1 - x /\ N - (x + 1) \in Int
  BY <1>1
<1>3. Q * (N - (x + 1)) < N + 1
  BY <1>1, <1>2
<1>4. N - (x + 1) <= N \div Q
  BY <1>1, <1>2, <1>3, DivAtLeast
<1>. QED  BY <1>4 DEF x

LEMMA AroundInA ==
  ASSUME ToMerge, AllRecorded, NEW r \in Nat
  PROVE  \E x, y \in Nat : BetweenInA(r, x, y)
<1>. DEFINE a == SplitOfA(r)  x == SplitIndex(a, N1)
<1>1. /\ a \in 0..Q-1 /\ (\A i \in 0..a-1 : SplitSize(i) < r)
      /\ SplitSize(a) >= r \/ a = Q-1
      /\ SplitSize(a) \in 0..N1+N2 /\ x \in 0..N1-1 /\ N1 \in Nat \ {0} /\ Q \in Nat \ {0}
  <2>1. r \in Int
    OBVIOUS
  <2>2. /\ a \in 0..Q-1 /\ (\A i \in 0..a-1 : SplitSize(i) < r)
        /\ SplitSize(a) >= r \/ a = Q-1
    BY <2>1, CandidateOfA
  <2>. HIDE DEF a
  <2>. QED  BY <2>2, SplitsOfA, ArrayTypes, QType
<1>2. N1 \div Q \in Nat
  BY <1>1, DivBounds
<1>. HIDE DEF a, x, Q
<1>3. CASE SplitSize(a) < r
  <2>1. a = Q-1 /\ x + 1 \in Nat
    BY <1>1, <1>3
  <2>2. N1 - (x + 1) <= N1 \div Q
    BY <1>1, <2>1, StepLast DEF x
  <2>3. BetweenInA(r, x + 1, N1)
    BY <1>1, <1>3, <2>1, <2>2 DEF BetweenInA, a, x
  <2>. QED  BY <1>1, <2>1, <2>3
<1>4. CASE SplitSize(a) >= r /\ a = 0
  <2>1. x = 0
    BY <1>1, <1>4, SplitIndexBounds DEF x, SplitIndex, Q
  <2>2. BetweenInA(r, 0, x)
    BY <1>1, <1>2, <1>4, <2>1 DEF BetweenInA, a, x
  <2>. QED  BY <1>1, <2>2
<1>5. CASE SplitSize(a) >= r /\ a # 0
  <2>. DEFINE z == SplitIndex(a-1, N1)
  <2>1. a \in 1..Q-1 /\ a-1 \in 0..a-1 /\ a-1 \in 0..Q-1 /\ SplitSize(a-1) < r
    BY <1>1, <1>5
  <2>2. z \in Nat /\ x - (z + 1) <= N1 \div Q
    BY <1>1, <2>1, SplitsOfA, StepBelow DEF x
  <2>3. z + 1 \in Nat
    BY <2>2
  <2>4. BetweenInA(r, z + 1, x)
    BY <1>1, <1>5, <2>1, <2>2, <2>3 DEF BetweenInA, a, x
  <2>. QED  BY <1>1, <2>3, <2>4
<1>. QED  BY <1>1, <1>3, <1>4, <1>5

LEMMA AroundInB ==
  ASSUME ToMerge, AllRecorded, NEW r \in Nat
  PROVE  \E x, y \in Nat : BetweenInB(r, x, y)
<1>. DEFINE b == SplitOfB(r)  x == SplitIndex(b-Q, N2)
<1>1. /\ b \in Q..2*Q-1 /\ (\A i \in Q..b-1 : SplitSize(i) < r)
      /\ SplitSize(b) >= r \/ b = 2*Q-1
      /\ SplitSize(b) \in 0..N1+N2 /\ x \in 0..N2-1 /\ N2 \in Nat \ {0} /\ Q \in Nat \ {0}
  <2>1. r \in Int
    OBVIOUS
  <2>2. /\ b \in Q..2*Q-1 /\ (\A i \in Q..b-1 : SplitSize(i) < r)
        /\ SplitSize(b) >= r \/ b = 2*Q-1
    BY <2>1, CandidateOfB
  <2>. HIDE DEF b
  <2>. QED  BY <2>2, SplitsOfB, ArrayTypes, QType
<1>2. N2 \div Q \in Nat
  BY <1>1, DivBounds
<1>. HIDE DEF b, x, Q
<1>3. CASE SplitSize(b) < r
  <2>1. b - Q = Q-1 /\ x + 1 \in Nat
    BY <1>1, <1>3
  <2>2. N2 - (x + 1) <= N2 \div Q
    BY <1>1, <2>1, StepLast DEF x
  <2>3. BetweenInB(r, x + 1, N2)
    BY <1>1, <1>3, <2>1, <2>2 DEF BetweenInB, b, x
  <2>. QED  BY <1>1, <2>1, <2>3
<1>4. CASE SplitSize(b) >= r /\ b = Q
  <2>1. x = 0
    <3>1. b - Q = 0
      BY <1>1, <1>4
    <3>. QED  BY <1>1, <3>1, SplitIndexBounds DEF x, SplitIndex, Q
  <2>2. BetweenInB(r, 0, x)
    BY <1>1, <1>2, <1>4, <2>1 DEF BetweenInB, b, x
  <2>. QED  BY <1>1, <2>2
<1>5. CASE SplitSize(b) >= r /\ b # Q
  <2>. DEFINE z == SplitIndex(b-1-Q, N2)
  <2>1. /\ b-Q \in 1..Q-1 /\ b-1 \in Q..b-1 /\ b-1 \in Q..2*Q-1 /\ SplitSize(b-1) < r
        /\ b-1-Q = (b-Q)-1
    BY <1>1, <1>5
  <2>2. z \in Nat /\ x - (z + 1) <= N2 \div Q
    BY <1>1, <2>1, SplitsOfB, StepBelow DEF x
  <2>3. z + 1 \in Nat
    BY <2>2
  <2>4. BetweenInB(r, z + 1, x)
    BY <1>1, <1>5, <2>1, <2>2, <2>3 DEF BetweenInB, b, x
  <2>. QED  BY <1>1, <2>3, <2>4
<1>. QED  BY <1>1, <1>3, <1>4, <1>5

LEMMA OneCandidateNear ==
  ASSUME ToMerge, KeysDiffer, AllRecorded, NEW r \in Nat, r < N1 + N2
  PROVE  LET D == N1 \div Q + N2 \div Q
         IN  Abs(SplitSize(SplitOfA(r)) - r) <= D \/ Abs(SplitSize(SplitOfB(r)) - r) <= D
<1>. DEFINE a == SplitOfA(r)  b == SplitOfB(r)  D == N1 \div Q + N2 \div Q
            s == SplitSize(a)  t == SplitSize(b)
            i == SplitIndex(a, N1)  k == SplitIndex(b-Q, N2)
<1>1. a \in 0..Q-1 /\ b \in Q..2*Q-1
  BY CandidateOfA, CandidateOfB
<1>2. /\ s \in Nat /\ t \in Nat /\ i \in Nat /\ k \in Nat /\ N1 \in Nat /\ N2 \in Nat
      /\ s <= i + N2 /\ t <= k + N1 /\ N1 \div Q \in Nat /\ N2 \div Q \in Nat
  <2>1. N1 \in Nat \ {0} /\ N2 \in Nat \ {0}
    BY ArrayTypes
  <2>2. N1 \div Q \in Nat /\ N2 \div Q \in Nat
    BY <2>1, QType, DivBounds
  <2>3. s \in 0..N1+N2 /\ i \in 0..N1-1 /\ s = i + LowerBound(B, SplitKey(a))
        /\ LowerBound(B, SplitKey(a)) \in 0..N2
    BY <1>1, SplitsOfA
  <2>4. t \in 0..N1+N2 /\ k \in 0..N2-1 /\ t = k + LowerBound(A, SplitKey(b))
        /\ LowerBound(A, SplitKey(b)) \in 0..N1
    BY <1>1, SplitsOfB
  <2>. HIDE DEF s, t, i, k
  <2>. QED  BY <2>1, <2>2, <2>3, <2>4
<1>3. /\ s <= i + k \/ t <= i + k
      /\ s > i + k \/ t > i + k
  BY <1>1, TwoSplits
<1>4. PICK x \in Nat, y \in Nat : BetweenInA(r, x, y)
  BY AroundInA
<1>5. PICK u \in Nat, w \in Nat : BetweenInB(r, u, w)
  BY AroundInB
<1>6. x + u <= r
  <2>1. CASE x = 0
    <3>1. ASSUME NEW l \in Q..2*Q-1, SplitSize(l) < r, u = SplitIndex(l-Q, N2) + 1
          PROVE  u <= r
      BY <3>1, SplitsOfB
    <3>2. u <= r
      BY <1>5, <3>1 DEF BetweenInB
    <3>. QED  BY <2>1, <3>2
  <2>2. CASE u = 0
    <3>1. ASSUME NEW l \in 0..Q-1, SplitSize(l) < r, x = SplitIndex(l, N1) + 1
          PROVE  x <= r
      BY <3>1, SplitsOfA
    <3>2. x <= r
      BY <1>4, <3>1 DEF BetweenInA
    <3>. QED  BY <2>2, <3>2
  <2>3. ASSUME NEW l \in 0..Q-1, SplitSize(l) < r, x = SplitIndex(l, N1) + 1,
               NEW m \in Q..2*Q-1, SplitSize(m) < r, u = SplitIndex(m-Q, N2) + 1
        PROVE  x + u <= r
    <3>1. SplitSize(l) \in Nat /\ SplitSize(m) \in Nat
          /\ SplitIndex(l, N1) \in Nat /\ SplitIndex(m-Q, N2) \in Nat
      BY SplitsOfA, SplitsOfB
    <3>2. \/ SplitSize(l) > SplitIndex(l, N1) + SplitIndex(m-Q, N2)
          \/ SplitSize(m) > SplitIndex(l, N1) + SplitIndex(m-Q, N2)
      BY TwoSplits
    <3>. QED  BY <2>3, <3>1, <3>2
  <2>. QED  BY <1>4, <1>5, <2>1, <2>2, <2>3 DEF BetweenInA, BetweenInB
<1>7. /\ y - x <= N1 \div Q /\ w - u <= N2 \div Q
      /\ (s >= r /\ y = i) \/ (s < r /\ y = N1 /\ x = i + 1)
      /\ (t >= r /\ w = k) \/ (t < r /\ w = N2 /\ u = k + 1)
  BY <1>4, <1>5, Zenon DEF BetweenInA, BetweenInB
<1>. DEFINE c == N1 \div Q  d == N2 \div Q
<1>8. c \in Nat /\ d \in Nat /\ y - x <= c /\ w - u <= d
  BY <1>2, <1>7
<1>. HIDE DEF a, b, s, t, i, k, c, d, Q
<1>9. Abs(s - r) <= c + d \/ Abs(t - r) <= c + d
  <2>1. CASE s >= r /\ t >= r
    BY <1>2, <1>3, <1>6, <1>7, <1>8, <2>1 DEF Abs
  <2>2. CASE s >= r /\ t < r
    BY <1>2, <1>6, <1>7, <1>8, <2>2 DEF Abs
  <2>3. CASE s < r /\ t >= r
    BY <1>2, <1>6, <1>7, <1>8, <2>3 DEF Abs
  <2>4. CASE s < r /\ t < r
    BY <1>2, <1>3, <1>7, <1>8, <2>4 DEF Abs
  <2>. QED  BY <1>2, <2>1, <2>2, <2>3, <2>4
<1>. QED  BY <1>9 DEF a, b, s, t, c, d

LEMMA ChoiceNear ==
  ASSUME ToMerge, KeysDiffer, AllRecorded, NEW r \in Nat, r < N1 + N2
  PROVE  LET v == SplitKey(ClosestSplit(r))
         IN  Abs((LowerBound(A, v) + LowerBound(B, v)) - r) <= N1 \div Q + N2 \div Q
<1>. DEFINE a == SplitOfA(r)  b == SplitOfB(r)  D == N1 \div Q + N2 \div Q
            c == ClosestSplit(r)  s == SplitSize(c)
<1>1. a \in 0..Q-1 /\ b \in Q..2*Q-1
  BY CandidateOfA, CandidateOfB
<1>2. /\ SplitSize(a) \in Nat /\ SplitSize(b) \in Nat
      /\ N1 \div Q \in Nat /\ N2 \div Q \in Nat
  <2>1. N1 \div Q \in Nat /\ N2 \div Q \in Nat
    BY ArrayTypes, QType, DivBounds
  <2>2. SplitSize(a) \in 0..N1+N2 /\ SplitSize(b) \in 0..N1+N2
    BY <1>1, SplitsOfA, SplitsOfB
  <2>. QED  BY <2>1, <2>2
<1>3. D \in Nat
  BY <1>2
<1>4. Abs(SplitSize(a) - r) <= D \/ Abs(SplitSize(b) - r) <= D
  BY OneCandidateNear
<1>5. \/ c = a /\ Abs(SplitSize(a) - r) <= Abs(SplitSize(b) - r)
      \/ c = b /\ Abs(SplitSize(b) - r) < Abs(SplitSize(a) - r)
  BY Choice
<1>6. s = LowerBound(A, SplitKey(c)) + LowerBound(B, SplitKey(c))
  <2>1. SplitSize(a) = LowerBound(A, SplitKey(a)) + LowerBound(B, SplitKey(a))
    BY <1>1, SplitsOfA, PlacesOfSplits
  <2>2. SplitSize(b) = LowerBound(A, SplitKey(b)) + LowerBound(B, SplitKey(b))
    <3>1. /\ SplitSize(b) = SplitIndex(b-Q, N2) + LowerBound(A, SplitKey(b))
          /\ LowerBound(B, SplitKey(b)) = SplitIndex(b-Q, N2)
          /\ LowerBound(A, SplitKey(b)) \in Int /\ SplitIndex(b-Q, N2) \in Int
      BY <1>1, SplitsOfB, PlacesOfSplits
    <3>. QED  BY <3>1
  <2>. QED  BY <1>5, <2>1, <2>2
<1>. HIDE DEF a, b, c, D
<1>7. Abs(SplitSize(a) - r) \in Int /\ Abs(SplitSize(b) - r) \in Int
  BY <1>2 DEF Abs
<1>8. Abs(s - r) <= D
  BY <1>3, <1>4, <1>5, <1>7
<1>. HIDE DEF s
<1>9. Abs((LowerBound(A, SplitKey(c)) + LowerBound(B, SplitKey(c))) - r) <= D
  BY <1>6, <1>8
<1>. QED  BY <1>9, Zenon DEF c, D

(***************************************************************************)
(* The inductive invariant.  Besides the types it says which loops run on  *)
(* which inputs, what the iterations of the split loop that have run have  *)
(* recorded, and what those of the pick loop have chosen.                  *)
(***************************************************************************)
LoopOK ==
  /\ loop \in {"split", "pick", "merge"} => N1 > 0 /\ N2 > 0
  /\ loop = "copy" => (N1 = 0) # (N2 = 0)
  /\ loop = "pick" => todo \subseteq 1..p-1
  /\ loop = "done" => todo = {}

Owner(j) == (j % (p*n)) \div n

Recorded ==
  /\ loop = "split" =>
       \A j \in Splits : Owner(j) \notin todo =>
         split[j] = SplitKey(j) /\ split_size[j] = SplitSize(j)
  /\ loop \in {"pick", "merge", "done"} /\ N1 > 0 /\ N2 > 0 => AllRecorded

Chosen(i) == SplitKey(ClosestSplit(ReqSize(i)))

Picked ==
  loop \in {"pick", "merge", "done"} /\ N1 > 0 /\ N2 > 0 =>
    /\ split_indx_A[0] = 0 /\ split_indx_A[p] = N1
    /\ split_indx_B[0] = 0 /\ split_indx_B[p] = N2
    /\ \A i \in 1..p-1 : (loop = "pick" => i \notin todo) =>
         /\ split_indx_A[i] = LowerBound(A, Chosen(i))
         /\ split_indx_B[i] = LowerBound(B, Chosen(i))

IInv == TypeOK /\ LoopOK /\ Recorded /\ Picked

LEMMA InputsSorted ==
  ASSUME TypeOK
  PROVE  A \in SortedArrays /\ B \in SortedArrays /\ N1 \in Nat /\ N2 \in Nat
<1>1. <<A, B>> \in SortedArrays \X SortedArrays
  BY ParametersAssumption DEF TypeOK
<1>. QED  BY <1>1 DEF SortedArrays, N1, N2

LEMMA OwnerType == ASSUME NEW j \in Splits PROVE Owner(j) \in Threads
<1>1. j \in Nat /\ p \in Nat \ {0} /\ n \in Nat \ {0}
  BY ParametersAssumption DEF Splits
<1>2. p * n \in Nat \ {0} /\ p * n = n * p
  BY <1>1, SMT
<1>3. j % (p*n) \in 0..(p*n)-1
  BY <1>1, <1>2
<1>. DEFINE m == j % (p*n)
<1>4. m \in Nat /\ m < n * p
  BY <1>2, <1>3
<1>. HIDE DEF m
<1>5. m \div n \in Nat /\ m \div n < p
  BY <1>1, <1>4, DivBounds, DivBelow
<1>. QED  BY <1>1, <1>5 DEF m, Owner, Threads

LEMMA InitInv == Init => IInv
<1>. SUFFICES ASSUME Init PROVE IInv
  OBVIOUS
<1>1. PICK in \in Inputs : A = in[1] /\ B = in[2]
  BY DEF Init
<1>2. in \in SortedArrays \X SortedArrays
  BY ParametersAssumption
<1>3. in = <<A, B>>
  BY <1>1, <1>2
<1>4. TypeOK
  BY <1>1, <1>3 DEF Init, TypeOK, N1, N2
<1>. QED  BY <1>4 DEF Init, IInv, LoopOK, Recorded, Picked

LEMMA SegmentElements ==
  ASSUME TypeOK, NEW i \in Threads,
         split_indx_A[i] \in 0..N1, split_indx_A[i+1] \in 0..N1,
         split_indx_B[i] \in 0..N2, split_indx_B[i+1] \in 0..N2
  PROVE  Segment(i) \subseteq Elements
  BY InputsSorted DEF Segment, Elements

\* what the inputs determine stays as long as they do
LEMMA InputsDetermine ==
  ASSUME UNCHANGED inputs
  PROVE  /\ N1' = N1 /\ N2' = N2 /\ Elements' = Elements
         /\ \A j : SplitKey(j)' = SplitKey(j) /\ SplitSize(j)' = SplitSize(j)
         /\ \A i : ReqSize(i)' = ReqSize(i)
<1>1. A' = A /\ B' = B
  BY DEF inputs
<1>2. N1' = N1 /\ N2' = N2
  BY <1>1 DEF N1, N2
<1>3. \A j : SplitKey(j)' = SplitKey(j)
  BY <1>1, <1>2 DEF SplitKey
<1>4. \A j : SplitSize(j)' = SplitSize(j)
  BY <1>1, <1>2, <1>3 DEF SplitSize
<1>. QED  BY <1>2, <1>3, <1>4 DEF Elements, ReqSize

LEMMA SplitsDetermine ==
  ASSUME UNCHANGED inputs, UNCHANGED splits
  PROVE  /\ \A i : Chosen(i)' = Chosen(i)
         /\ AllRecorded' <=> AllRecorded
<1>1. split_size' = split_size /\ split' = split
  BY DEF splits
<1>2. \A z : ClosestSplit(z)' = ClosestSplit(z)
  BY <1>1 DEF ClosestSplit, SplitOfA, SplitOfB, FirstSplit
<1>. QED  BY <1>1, <1>2, InputsDetermine DEF Chosen, AllRecorded

LEMMA ChosenBounds ==
  ASSUME ToMerge, AllRecorded, NEW i \in Nat
  PROVE  /\ Chosen(i) \in Int
         /\ split[ClosestSplit(ReqSize(i))] = Chosen(i)
         /\ LowerBound(A, Chosen(i)) \in 0..N1
         /\ LowerBound(B, Chosen(i)) \in 0..N2
<1>1. ClosestSplit(ReqSize(i)) \in Splits
  BY ReqSizeStep, ArrayTypes, Choice
<1>2. ClosestSplit(ReqSize(i)) \in 0..Q-1 \/ ClosestSplit(ReqSize(i)) \in Q..2*Q-1
  BY <1>1, SplitsRange, QType
<1>3. Chosen(i) \in Int
  BY <1>2, SplitsOfA, SplitsOfB DEF Chosen
<1>. QED  BY <1>1, <1>3, LowerBoundProperty DEF ToMerge, N1, N2, AllRecorded, Chosen

LEMMA EnterInv == IInv /\ Enter => IInv'
<1>. SUFFICES ASSUME IInv, Enter PROVE IInv'
  OBVIOUS
<1>1. TypeOK'
  BY InputsDetermine DEF IInv, TypeOK, Enter, splits, bounds, inputs
<1>2. LoopOK'
  BY InputsSorted, InputsDetermine DEF IInv, LoopOK, Enter, splits, bounds
<1>3. Recorded' /\ Picked'
  BY InputsSorted, InputsDetermine, OwnerType
     DEF IInv, Enter, splits, bounds, Recorded, Picked
<1>. QED  BY <1>1, <1>2, <1>3 DEF IInv

LEMMA CopySliceInv ==
  ASSUME IInv, NEW i \in Threads, CopySlice(i)
  PROVE  IInv'
<1>1. TypeOK'
  <2>1. ASSUME NEW k \in 1..N1+N2
        PROVE  C'[k] \in Elements \cup {NoElem}
    BY <2>1, InputsSorted DEF IInv, TypeOK, LoopOK, CopySlice, Elements
  <2>2. C' \in [1..N1+N2 -> Elements \cup {NoElem}]
    BY <2>1 DEF IInv, TypeOK, CopySlice
  <2>. QED  BY <2>2, InputsDetermine
            DEF IInv, TypeOK, CopySlice, splits, bounds, inputs
<1>2. LoopOK' /\ Recorded' /\ Picked'
  BY InputsDetermine DEF IInv, CopySlice, LoopOK, Recorded, Picked
<1>. QED  BY <1>1, <1>2 DEF IInv

LEMMA SampleInv ==
  ASSUME IInv, NEW i \in Threads, Sample(i)
  PROVE  IInv'
<1>1. ToMerge
  BY InputsSorted DEF IInv, LoopOK, Sample, ToMerge
<1>2. \A j \in Splits : SplitKey(j) \in Nat /\ SplitSize(j) \in 0..N1+N2
  <2>1. \A j \in Splits : j \in 0..Q-1 \/ j \in Q..2*Q-1
    BY SplitsRange, QType
  <2>. QED  BY <1>1, <2>1, SplitsOfA, SplitsOfB
<1>3. TypeOK'
  BY <1>2, InputsDetermine DEF IInv, TypeOK, Sample, bounds, inputs
<1>4. LoopOK'
  BY InputsDetermine DEF IInv, LoopOK, Sample
<1>5. Recorded'
  BY InputsDetermine DEF IInv, TypeOK, Recorded, Sample, Owner
<1>6. Picked'
  BY DEF Picked, Sample
<1>. QED  BY <1>3, <1>4, <1>5, <1>6 DEF IInv

LEMMA PickInv ==
  ASSUME IInv, NEW i \in Threads, Pick(i)
  PROVE  IInv'
<1>1. ToMerge /\ AllRecorded
  BY InputsSorted DEF IInv, LoopOK, Recorded, Pick, ToMerge
<1>2. i \in 1..p-1
  BY DEF IInv, LoopOK, Pick
<1>3. split[ClosestSplit(ReqSize(i))] = Chosen(i)
  BY <1>1, <1>2, ChosenBounds
<1>4. LowerBound(A, Chosen(i)) \in 0..N1 /\ LowerBound(B, Chosen(i)) \in 0..N2
  BY <1>1, <1>2, ChosenBounds
<1>5. TypeOK'
  BY <1>3, <1>4, InputsDetermine DEF IInv, TypeOK, Pick, splits, inputs
<1>6. LoopOK'
  BY InputsDetermine DEF IInv, LoopOK, Pick
<1>7. Recorded'
  BY InputsDetermine, SplitsDetermine DEF IInv, Recorded, Pick
<1>8. Picked'
  <2>1. /\ split_indx_A' = [split_indx_A EXCEPT ![i] = LowerBound(A, Chosen(i))]
        /\ split_indx_B' = [split_indx_B EXCEPT ![i] = LowerBound(B, Chosen(i))]
        /\ todo' = todo \ {i} /\ loop' = loop /\ loop = "pick"
        /\ A' = A /\ B' = B
    BY <1>3 DEF Pick, inputs
  <2>2. /\ \A k : Chosen(k)' = Chosen(k)
        /\ N1' = N1 /\ N2' = N2
    BY InputsDetermine, SplitsDetermine DEF Pick
  <2>3. p \in Nat \ {0} /\ i # 0 /\ i # p
    BY <1>2, ParametersAssumption
  <2>. QED  BY <1>1, <1>2, <2>1, <2>2, <2>3 DEF IInv, TypeOK, Picked, ToMerge
<1>. QED  BY <1>5, <1>6, <1>7, <1>8 DEF IInv

LEMMA MergeSegmentInv ==
  ASSUME IInv, NEW i \in Threads, MergeSegment(i)
  PROVE  IInv'
<1>1. Segment(i) \subseteq Elements
  <2>1. N1 \in Nat /\ N2 \in Nat /\ p \in Nat \ {0}
    BY InputsSorted, ParametersAssumption DEF IInv
  <2>2. i \in 0..p /\ i+1 \in 0..p
    BY <2>1 DEF Threads
  <2>3. \A k \in 0..p : split_indx_A[k] # Unset /\ split_indx_B[k] # Unset
    <3>1. ToMerge /\ AllRecorded
      BY InputsSorted DEF IInv, LoopOK, Recorded, MergeSegment, ToMerge
    <3>2. \A k \in 1..p-1 : /\ LowerBound(A, Chosen(k)) \in 0..N1
                            /\ LowerBound(B, Chosen(k)) \in 0..N2
      BY <3>1, ChosenBounds
    <3>. QED  BY <2>1, <3>2 DEF IInv, LoopOK, MergeSegment, Picked, Unset
  <2>. QED  BY <2>2, <2>3, SegmentElements DEF IInv, TypeOK
<1>2. TypeOK'
  BY <1>1, InputsDetermine DEF IInv, TypeOK, MergeSegment, splits, bounds, inputs
<1>3. /\ loop' = loop /\ loop = "merge" /\ todo' = todo \ {i}
      /\ A' = A /\ B' = B /\ split_indx_A' = split_indx_A
      /\ split_indx_B' = split_indx_B
  BY DEF MergeSegment, inputs, bounds
<1>4. /\ N1' = N1 /\ N2' = N2 /\ (AllRecorded' <=> AllRecorded)
      /\ \A k : Chosen(k)' = Chosen(k)
  BY InputsDetermine, SplitsDetermine DEF MergeSegment
<1>5. LoopOK'
  BY <1>3, <1>4 DEF IInv, LoopOK
<1>6. Recorded' /\ Picked'
  BY <1>3, <1>4 DEF IInv, Recorded, Picked
<1>. QED  BY <1>2, <1>5, <1>6 DEF IInv

LEMMA BarrierInv == IInv /\ Barrier => IInv'
<1>. SUFFICES ASSUME IInv, Barrier PROVE IInv'
  OBVIOUS
<1>1. /\ A' = A /\ B' = B /\ C' = C /\ split' = split /\ split_size' = split_size
      /\ N1' = N1 /\ N2' = N2 /\ (AllRecorded' <=> AllRecorded)
      /\ Elements' = Elements
      /\ \A k : Chosen(k)' = Chosen(k)
  BY InputsDetermine, SplitsDetermine DEF Barrier, inputs, splits
<1>2. N1 \in Nat /\ N2 \in Nat /\ p \in Nat \ {0} /\ todo = {}
  BY InputsSorted, ParametersAssumption DEF IInv, Barrier
<1>3. TypeOK'
  <2>1. /\ loop' \in {"pick", "merge", "done"}
        /\ todo' \subseteq Threads
    BY <1>2 DEF Barrier, Threads
  <2>2. /\ split_indx_A' \in [0..p -> 0..N1 \cup {Unset}]
        /\ split_indx_B' \in [0..p -> 0..N2 \cup {Unset}]
    <3>1. 0 \in 0..p /\ p \in 0..p /\ 0 \in 0..N1 /\ N1 \in 0..N1
          /\ 0 \in 0..N2 /\ N2 \in 0..N2
      BY <1>2
    <3>2. CASE loop = "split"
      BY <3>1, <3>2 DEF IInv, TypeOK, Barrier
    <3>3. CASE loop # "split"
      BY <3>3 DEF IInv, TypeOK, Barrier, bounds
    <3>. QED  BY <3>2, <3>3
  <2>. QED  BY <1>1, <2>1, <2>2 DEF IInv, TypeOK
<1>4. LoopOK'
  BY <1>1, <1>2 DEF IInv, LoopOK, Barrier
<1>5. CASE loop = "copy"
  BY <1>1, <1>2, <1>3, <1>4, <1>5
     DEF IInv, LoopOK, Recorded, Picked, Barrier
<1>6. CASE loop = "split"
  <2>1. AllRecorded'
    BY <1>1, <1>2, <1>6 DEF IInv, Recorded, AllRecorded
  <2>2. Recorded'
    BY <1>6, <2>1 DEF Recorded, Barrier
  <2>3. Picked'
    BY <1>1, <1>2, <1>6 DEF IInv, TypeOK, Picked, Barrier
  <2>. QED  BY <1>3, <1>4, <2>2, <2>3 DEF IInv
<1>7. CASE loop \in {"pick", "merge"}
  BY <1>1, <1>2, <1>3, <1>4, <1>7
     DEF IInv, Recorded, Picked, Barrier, bounds
<1>. QED  BY <1>5, <1>6, <1>7 DEF Barrier

LEMMA NextInv == IInv /\ [Next]_vars => IInv'
<1>. SUFFICES ASSUME IInv, [Next]_vars PROVE IInv'
  OBVIOUS
<1>1. CASE Enter
  BY <1>1, EnterInv
<1>2. CASE Barrier
  BY <1>2, BarrierInv
<1>3. ASSUME NEW i \in Threads, Iteration(i)
      PROVE  IInv'
  BY <1>3, CopySliceInv, SampleInv, PickInv, MergeSegmentInv DEF Iteration
<1>4. CASE UNCHANGED vars
  <2>1. /\ UNCHANGED inputs /\ UNCHANGED splits
        /\ C' = C /\ loop' = loop /\ todo' = todo
        /\ split_indx_A' = split_indx_A /\ split_indx_B' = split_indx_B
    BY <1>4 DEF vars, inputs, splits
  <2>2. TypeOK'
    BY <2>1, InputsDetermine DEF IInv, TypeOK, inputs, splits
  <2>3. LoopOK' /\ Recorded' /\ Picked'
    <3>1. A' = A /\ B' = B /\ split' = split /\ split_size' = split_size
      BY <2>1 DEF inputs, splits
    <3>. QED  BY <2>1, <3>1, InputsDetermine, SplitsDetermine
              DEF IInv, LoopOK, Recorded, Picked
  <2>. QED  BY <2>2, <2>3 DEF IInv
<1>. QED  BY <1>1, <1>2, <1>3, <1>4 DEF Next, Returned

\* IInv holds in every reachable state of the parallel merge.
THEOREM Invariance == Spec => []IInv
  BY InitInv, NextInv, PTL DEF Spec

\* Types: every variable of the parallel merge keeps its type, whatever the
\* number of threads, the number of splits and the arrays.
THEOREM TypeCorrect == Spec => []TypeOK
<1>1. IInv => TypeOK
  BY DEF IInv
<1>. QED  BY <1>1, Invariance, PTL

\* The boundaries the threads pick independently never cross, so their segments
\* tile both arrays and the output: no std::merge gets a reversed range and no
\* two threads write the same position.
THEOREM SegmentsNeverCross == Spec => []SegmentsTile
<1>1. IInv => SegmentsTile
  <2>. SUFFICES ASSUME IInv, loop \in {"merge", "done"}, N1 > 0, N2 > 0,
                       NEW i \in Threads
                PROVE  /\ split_indx_A[i] <= split_indx_A[i+1]
                       /\ split_indx_B[i] <= split_indx_B[i+1]
    BY DEF SegmentsTile
  <2>1. ToMerge /\ AllRecorded /\ N1 \in Nat /\ N2 \in Nat /\ p \in Nat \ {0}
    BY InputsSorted, ParametersAssumption DEF IInv, Recorded, ToMerge
  <2>2. /\ split_indx_A[0] = 0 /\ split_indx_A[p] = N1
        /\ split_indx_B[0] = 0 /\ split_indx_B[p] = N2
        /\ \A k \in 1..p-1 : /\ split_indx_A[k] = LowerBound(A, Chosen(k))
                             /\ split_indx_B[k] = LowerBound(B, Chosen(k))
    BY DEF IInv, Picked
  <2>3. \A k \in 1..p-1 : /\ LowerBound(A, Chosen(k)) \in 0..N1
                          /\ LowerBound(B, Chosen(k)) \in 0..N2
                          /\ Chosen(k) \in Int
    BY <2>1, ChosenBounds
  <2>4. CASE i = 0 \/ i = p-1
    BY <2>1, <2>2, <2>3, <2>4
  <2>5. CASE i \in 1..p-2
    <3>1. i \in 1..p-1 /\ i+1 \in 1..p-1
      BY <2>1, <2>5
    <3>2. Chosen(i) <= Chosen(i+1)
      BY <2>1, <3>1, ChoicesInOrder DEF Chosen
    <3>3. /\ LowerBound(A, Chosen(i)) <= LowerBound(A, Chosen(i+1))
          /\ LowerBound(B, Chosen(i)) <= LowerBound(B, Chosen(i+1))
      BY <2>1, <2>3, <3>1, <3>2, LowerBoundMonotone DEF ToMerge
    <3>. QED  BY <2>2, <3>1, <3>3
  <2>. QED  BY <2>1, <2>4, <2>5 DEF Threads
<1>. QED  BY <1>1, Invariance, PTL

\* When no key occurs twice, every boundary is within a split distance of A and
\* one of B of the equal share of its thread, for every number of threads and
\* splits and however A and B interleave: no thread has much more to merge.
THEOREM SegmentsBalanced == Spec => []BalancedSegments
<1>1. IInv => BalancedSegments
  <2>. SUFFICES ASSUME IInv, loop = "merge", KeysDiffer, NEW i \in 1..p-1
                PROVE  Abs(Offset(i) - ReqSize(i)) <= N1 \div (p*n) + N2 \div (p*n)
    BY DEF BalancedSegments
  <2>1. ToMerge /\ AllRecorded
    BY InputsSorted DEF IInv, Recorded, LoopOK, ToMerge
  <2>2. Offset(i) = LowerBound(A, Chosen(i)) + LowerBound(B, Chosen(i))
    BY <2>1 DEF IInv, Picked, Offset, ToMerge
  <2>3. ReqSize(i) \in Nat /\ ReqSize(i) < N1 + N2
    BY <2>1, ReqSizeBelow
  <2>4. Abs((LowerBound(A, Chosen(i)) + LowerBound(B, Chosen(i))) - ReqSize(i))
          <= N1 \div Q + N2 \div Q
    BY <2>1, <2>3, ChoiceNear DEF Chosen
  <2>. QED  BY <2>2, <2>4, Zenon DEF Q
<1>. QED  BY <1>1, Invariance, PTL

(***************************************************************************)
(* The order a sequential merge leaves: strict and total, so that every    *)
(* element has a rank of its own and every position an element.            *)
(***************************************************************************)
Sorted == A \in SortedArrays /\ B \in SortedArrays /\ N1 \in Nat /\ N2 \in Nat

LEMMA ElementShape ==
  ASSUME Sorted, NEW e \in Elements
  PROVE  /\ e = <<e[1], e[2]>>
         /\ e[1] \in {"A", "B"} /\ e[2] \in Nat /\ Key(e) \in Nat
         /\ e[1] = "A" => e[2] \in 1..N1 /\ Key(e) = A[e[2]]
         /\ e[1] = "B" => e[2] \in 1..N2 /\ Key(e) = B[e[2]]
<1>1. /\ \A k \in 1..N1 : A[k] \in Nat
      /\ \A k \in 1..N2 : B[k] \in Nat
  BY DEF Sorted, SortedArrays, N1, N2
<1>2. CASE \E k \in 1..N1 : e = <<"A", k>>
  BY <1>1, <1>2 DEF Sorted, Key
<1>3. CASE \E k \in 1..N2 : e = <<"B", k>>
  BY <1>1, <1>3 DEF Sorted, Key
<1>. QED  BY <1>2, <1>3 DEF Elements

LEMMA BeforeStrict ==
  ASSUME Sorted, NEW d \in Elements, NEW e \in Elements
  PROVE  /\ Before(d, e) => ~ Before(e, d)
         /\ ~ Before(e, e)
         /\ d # e => Before(d, e) \/ Before(e, d)
<1>1. /\ d = <<d[1], d[2]>> /\ d[1] \in {"A", "B"} /\ d[2] \in Nat /\ Key(d) \in Nat
      /\ e = <<e[1], e[2]>> /\ e[1] \in {"A", "B"} /\ e[2] \in Nat /\ Key(e) \in Nat
  BY ElementShape
<1>. DEFINE kd == Key(d)  ke == Key(e)  da == d[1]  ea == e[1]  di == d[2]  ei == e[2]
<1>2. /\ Before(d, e) <=> kd < ke \/ (kd = ke /\ da = "A" /\ ea = "B")
                          \/ (kd = ke /\ da = ea /\ di < ei)
      /\ Before(e, d) <=> ke < kd \/ (ke = kd /\ ea = "A" /\ da = "B")
                          \/ (ke = kd /\ ea = da /\ ei < di)
      /\ Before(e, e) <=> ke < ke \/ (ke = ke /\ ea = "A" /\ ea = "B")
                          \/ (ke = ke /\ ea = ea /\ ei < ei)
  BY DEF Before
<1>3. d # e => da # ea \/ di # ei
  BY <1>1, Zenon
<1>4. /\ da \in {"A", "B"} /\ di \in Nat /\ kd \in Nat
      /\ ea \in {"A", "B"} /\ ei \in Nat /\ ke \in Nat
  BY <1>1
<1>. HIDE DEF kd, ke, da, ea, di, ei
<1>. QED  BY <1>2, <1>3, <1>4

LEMMA BeforeTransitive ==
  ASSUME Sorted, NEW c \in Elements, NEW d \in Elements, NEW e \in Elements,
         Before(c, d), Before(d, e)
  PROVE  Before(c, e)
<1>1. /\ c[1] \in {"A", "B"} /\ c[2] \in Nat /\ Key(c) \in Nat
      /\ d[1] \in {"A", "B"} /\ d[2] \in Nat /\ Key(d) \in Nat
      /\ e[1] \in {"A", "B"} /\ e[2] \in Nat /\ Key(e) \in Nat
  BY ElementShape
<1>. QED  BY <1>1 DEF Before

\* the first m elements of an array
FirstOf(a, m) == {<<a, k>> : k \in 1..m}

LEMMA FirstOfSize ==
  ASSUME NEW a, NEW m \in Nat
  PROVE  IsFiniteSet(FirstOf(a, m)) /\ Cardinality(FirstOf(a, m)) = m
<1>. DEFINE f == [k \in 1..m |-> <<a, k>>]
<1>1. f \in Bijection(1..m, FirstOf(a, m))
  BY DEF FirstOf, Bijection, Injection, Surjection, IsInjective
<1>2. ExistsBijection(1..m, FirstOf(a, m))
  BY <1>1 DEF ExistsBijection
<1>. QED  BY <1>2, FS_NatBijection, FS_CountingElements

LEMMA TwoFirsts ==
  ASSUME NEW k \in Nat, NEW m \in Nat
  PROVE  /\ IsFiniteSet(FirstOf("A", k) \cup FirstOf("B", m))
         /\ Cardinality(FirstOf("A", k) \cup FirstOf("B", m)) = k + m
<1>1. FirstOf("A", k) \cap FirstOf("B", m) = {}
  BY DEF FirstOf
<1>2. Cardinality({}) = 0
  BY FS_EmptySet
<1>3. /\ IsFiniteSet(FirstOf("A", k)) /\ Cardinality(FirstOf("A", k)) = k
      /\ IsFiniteSet(FirstOf("B", m)) /\ Cardinality(FirstOf("B", m)) = m
  BY FirstOfSize
<1>. HIDE DEF FirstOf
<1>4. /\ IsFiniteSet(FirstOf("A", k) \cup FirstOf("B", m))
      /\ Cardinality(FirstOf("A", k) \cup FirstOf("B", m)) = k + m - 0
  BY <1>1, <1>2, <1>3, FS_Union
<1>. QED  BY <1>4

LEMMA ElementsFinite ==
  ASSUME Sorted
  PROVE  IsFiniteSet(Elements) /\ Cardinality(Elements) = N1 + N2
<1>1. Elements = FirstOf("A", N1) \cup FirstOf("B", N2)
  BY DEF Elements, FirstOf
<1>. QED  BY <1>1, TwoFirsts DEF Sorted

\* where e belongs in the merged array
Rank(e) == Cardinality({d \in Elements : Before(d, e)}) + 1

LEMMA RankInArray ==
  ASSUME Sorted, NEW e \in Elements
  PROVE  Rank(e) \in 1..N1 + N2
<1>. DEFINE S == {d \in Elements : Before(d, e)}
<1>1. S \in SUBSET Elements /\ S # Elements
  BY BeforeStrict
<1>2. /\ IsFiniteSet(Elements) /\ Cardinality(Elements) = N1 + N2
      /\ N1 \in Nat /\ N2 \in Nat
  BY ElementsFinite DEF Sorted
<1>3. IsFiniteSet(S) /\ Cardinality(S) <= N1 + N2 /\ Cardinality(S) # N1 + N2
  BY <1>1, <1>2, FS_Subset
<1>4. Cardinality(S) \in Nat /\ Rank(e) = Cardinality(S) + 1
  BY <1>3, FS_CardinalityType DEF Rank
<1>. HIDE DEF S
<1>. QED  BY <1>2, <1>3, <1>4

LEMMA RankOrders ==
  ASSUME Sorted, NEW d \in Elements, NEW e \in Elements
  PROVE  Before(d, e) <=> Rank(d) < Rank(e)
<1>1. ASSUME NEW x \in Elements, NEW y \in Elements, Before(x, y)
      PROVE  Rank(x) < Rank(y)
  <2>. DEFINE S == {c \in Elements : Before(c, x)}  T == {c \in Elements : Before(c, y)}
  <2>1. S \in SUBSET T /\ S # T
    <3>1. \A c \in S : c \in T
      BY <1>1, BeforeTransitive
    <3>2. x \in T /\ x \notin S
      BY <1>1, BeforeStrict
    <3>. QED  BY <3>1, <3>2
  <2>2. IsFiniteSet(T)
    BY ElementsFinite, FS_Subset
  <2>3. IsFiniteSet(S) /\ Cardinality(S) <= Cardinality(T) /\ Cardinality(S) # Cardinality(T)
    BY <2>1, <2>2, FS_Subset
  <2>4. /\ Cardinality(S) \in Nat /\ Cardinality(T) \in Nat
        /\ Rank(x) = Cardinality(S) + 1 /\ Rank(y) = Cardinality(T) + 1
    BY <2>2, <2>3, FS_CardinalityType DEF Rank
  <2>. HIDE DEF S, T
  <2>. QED  BY <2>3, <2>4
<1>2. Rank(d) \in Int /\ Rank(e) \in Int
  BY RankInArray DEF Sorted
<1>3. d = e \/ Before(d, e) \/ Before(e, d)
  BY BeforeStrict
<1>4. d = e => ~ Before(d, e)
  BY BeforeStrict
<1>5. Before(e, d) => Rank(e) < Rank(d)
  BY <1>1
<1>6. Before(d, e) => Rank(d) < Rank(e)
  BY <1>1
<1>. QED  BY <1>2, <1>3, <1>4, <1>5, <1>6

LEMMA EveryPlaceTaken ==
  ASSUME Sorted, NEW k \in 1..N1 + N2
  PROVE  \E e \in Elements : Rank(e) = k
<1>. DEFINE f == [e \in Elements |-> Rank(e)]
<1>1. f \in [Elements -> 1..N1 + N2]
  BY RankInArray
<1>2. ASSUME NEW d \in Elements, NEW e \in Elements, Rank(d) = Rank(e)
      PROVE  d = e
  <2>1. Rank(d) \in Int /\ Rank(e) \in Int
    BY RankInArray DEF Sorted
  <2>2. ~ Before(d, e) /\ ~ Before(e, d)
    BY <1>2, <2>1, RankOrders
  <2>. QED  BY <2>2, BeforeStrict
<1>3. f \in Injection(Elements, 1..N1 + N2)
  BY <1>1, <1>2 DEF Injection, IsInjective
<1>4. IsFiniteSet(1..N1 + N2) /\ Cardinality(1..N1 + N2) = N1 + N2
  BY FS_Interval DEF Sorted
<1>5. Cardinality(Elements) = Cardinality(1..N1 + N2)
  BY <1>4, ElementsFinite
<1>. HIDE DEF f
<1>6. f \in Surjection(Elements, 1..N1 + N2)
  BY <1>3, <1>4, <1>5, FS_Injection
<1>7. \E e \in Elements : f[e] = k
  BY <1>6 DEF Surjection
<1>. QED  BY <1>7 DEF f

(***************************************************************************)
(* Where the segments lie: all before a segment goes before it, all beyond *)
(* goes after it, so an element's place in its segment is its rank.        *)
(***************************************************************************)
Merging == loop \in {"merge", "done"} /\ N1 > 0 /\ N2 > 0

Lower(i) == FirstOf("A", split_indx_A[i]) \cup FirstOf("B", split_indx_B[i])

LEMMA SortedInputs == ASSUME IInv PROVE Sorted
  BY InputsSorted DEF IInv, Sorted

LEMMA Boundaries ==
  ASSUME IInv, Merging
  PROVE  /\ split_indx_A[0] = 0 /\ split_indx_A[p] = N1
         /\ split_indx_B[0] = 0 /\ split_indx_B[p] = N2
         /\ \A i \in 0..p : split_indx_A[i] \in 0..N1 /\ split_indx_B[i] \in 0..N2
         /\ \A i \in 1..p-1 :
              \E v \in Int : /\ \A k \in 1..split_indx_A[i] : A[k] < v
                             /\ \A k \in split_indx_A[i]+1..N1 : A[k] >= v
                             /\ \A k \in 1..split_indx_B[i] : B[k] < v
                             /\ \A k \in split_indx_B[i]+1..N2 : B[k] >= v
<1>1. ToMerge /\ AllRecorded /\ N1 \in Nat /\ N2 \in Nat /\ p \in Nat \ {0}
  BY InputsSorted, ParametersAssumption DEF IInv, Recorded, ToMerge, Merging
<1>2. /\ split_indx_A[0] = 0 /\ split_indx_A[p] = N1
      /\ split_indx_B[0] = 0 /\ split_indx_B[p] = N2
      /\ \A k \in 1..p-1 : /\ split_indx_A[k] = LowerBound(A, Chosen(k))
                           /\ split_indx_B[k] = LowerBound(B, Chosen(k))
  BY DEF IInv, Picked, Merging
<1>3. \A k \in 1..p-1 : /\ LowerBound(A, Chosen(k)) \in 0..N1
                        /\ LowerBound(B, Chosen(k)) \in 0..N2
                        /\ Chosen(k) \in Int
  BY <1>1, ChosenBounds
<1>4. ASSUME NEW i \in 0..p
      PROVE  split_indx_A[i] \in 0..N1 /\ split_indx_B[i] \in 0..N2
  <2>1. i = 0 \/ i = p \/ i \in 1..p-1
    BY <1>1
  <2>. QED  BY <1>1, <1>2, <1>3, <2>1
<1>5. ASSUME NEW i \in 1..p-1
      PROVE  \E v \in Int : /\ \A k \in 1..split_indx_A[i] : A[k] < v
                            /\ \A k \in split_indx_A[i]+1..N1 : A[k] >= v
                            /\ \A k \in 1..split_indx_B[i] : B[k] < v
                            /\ \A k \in split_indx_B[i]+1..N2 : B[k] >= v
  <2>. DEFINE v == Chosen(i)
  <2>1. v \in Int /\ A \in SortedArrays /\ B \in SortedArrays
    BY <1>1, <1>3 DEF ToMerge
  <2>2. split_indx_A[i] = LowerBound(A, v) /\ split_indx_B[i] = LowerBound(B, v)
    BY <1>2
  <2>. HIDE DEF v
  <2>3. /\ \A k \in 1..split_indx_A[i] : A[k] < v
        /\ \A k \in split_indx_A[i]+1..N1 : A[k] >= v
        /\ \A k \in 1..split_indx_B[i] : B[k] < v
        /\ \A k \in split_indx_B[i]+1..N2 : B[k] >= v
    BY <2>1, <2>2, LowerBoundProperty DEF N1, N2
  <2>. QED  BY <2>1, <2>3
<1>. QED  BY <1>2, <1>4, <1>5

\* elements below a boundary go before those at or past it
LEMMA BoundaryApart ==
  ASSUME IInv, Merging, NEW i \in 0..p,
         NEW d \in Lower(i), NEW e \in Elements \ Lower(i)
  PROVE  Before(d, e)
<1>1. /\ p \in Nat \ {0} /\ N1 \in Nat /\ N2 \in Nat /\ Sorted
      /\ split_indx_A[i] \in 0..N1 /\ split_indx_B[i] \in 0..N2
  BY SortedInputs, Boundaries, ParametersAssumption DEF Sorted
<1>2. d \in Elements
  BY <1>1 DEF Lower, FirstOf, Elements
<1>3. CASE i = 0
  BY <1>1, <1>3, Boundaries DEF Lower, FirstOf
<1>4. CASE i = p
  BY <1>1, <1>4, Boundaries DEF Lower, FirstOf, Elements
<1>5. CASE i \in 1..p-1
  <2>1. PICK v \in Int : /\ \A k \in 1..split_indx_A[i] : A[k] < v
                         /\ \A k \in split_indx_A[i]+1..N1 : A[k] >= v
                         /\ \A k \in 1..split_indx_B[i] : B[k] < v
                         /\ \A k \in split_indx_B[i]+1..N2 : B[k] >= v
    BY <1>5, Boundaries
  <2>2. Key(d) < v
    <3>1. CASE \E k \in 1..split_indx_A[i] : d = <<"A", k>>
      BY <2>1, <3>1 DEF Key
    <3>2. CASE \E k \in 1..split_indx_B[i] : d = <<"B", k>>
      BY <2>1, <3>2 DEF Key
    <3>. QED  BY <3>1, <3>2 DEF Lower, FirstOf
  <2>3. Key(e) >= v
    <3>1. CASE \E k \in 1..N1 : e = <<"A", k>>
      <4>1. PICK k \in 1..N1 : e = <<"A", k>>
        BY <3>1
      <4>2. k \notin 1..split_indx_A[i]
        BY <4>1 DEF Lower, FirstOf
      <4>. QED  BY <1>1, <2>1, <4>1, <4>2 DEF Key
    <3>2. CASE \E k \in 1..N2 : e = <<"B", k>>
      <4>1. PICK k \in 1..N2 : e = <<"B", k>>
        BY <3>2
      <4>2. k \notin 1..split_indx_B[i]
        BY <4>1 DEF Lower, FirstOf
      <4>. QED  BY <1>1, <2>1, <4>1, <4>2 DEF Key
    <3>. QED  BY <3>1, <3>2 DEF Elements
  <2>4. Key(d) \in Nat /\ Key(e) \in Nat
    BY <1>1, <1>2, ElementShape
  <2>. QED  BY <2>1, <2>2, <2>3, <2>4 DEF Before
<1>. QED  BY <1>1, <1>3, <1>4, <1>5

\* a segment is what lies between two boundaries
LEMMA SegmentBetween ==
  ASSUME IInv, Merging, NEW i \in Threads
  PROVE  /\ Segment(i) \subseteq Elements /\ Segment(i) \cap Lower(i) = {}
         /\ Segment(i) \subseteq Lower(i+1)
         /\ Lower(i) \subseteq Elements
         /\ Lower(i+1) \subseteq Lower(i) \cup Segment(i)
<1>1. /\ p \in Nat \ {0} /\ N1 \in Nat /\ N2 \in Nat
      /\ i \in 0..p /\ i+1 \in 0..p
  BY SortedInputs, ParametersAssumption DEF Sorted, Threads
<1>2. /\ split_indx_A[i] \in 0..N1 /\ split_indx_A[i+1] \in 0..N1
      /\ split_indx_B[i] \in 0..N2 /\ split_indx_B[i+1] \in 0..N2
  BY <1>1, Boundaries
<1>. DEFINE a == split_indx_A[i]  c == split_indx_A[i+1]
            b == split_indx_B[i]  d == split_indx_B[i+1]
<1>3. /\ a \in 0..N1 /\ c \in 0..N1 /\ b \in 0..N2 /\ d \in 0..N2
      /\ Segment(i) = {<<"A", k>> : k \in a+1..c} \cup {<<"B", k>> : k \in b+1..d}
      /\ Lower(i) = {<<"A", k>> : k \in 1..a} \cup {<<"B", k>> : k \in 1..b}
      /\ Lower(i+1) = {<<"A", k>> : k \in 1..c} \cup {<<"B", k>> : k \in 1..d}
  BY <1>2 DEF Segment, Lower, FirstOf
<1>. HIDE DEF a, b, c, d
<1>4. Segment(i) \subseteq Elements /\ Lower(i) \subseteq Elements
  BY <1>1, <1>3 DEF Elements
<1>5. Segment(i) \subseteq Lower(i+1)
  BY <1>1, <1>3
<1>6. Segment(i) \cap Lower(i) = {}
  BY <1>1, <1>3
<1>7. Lower(i+1) \subseteq Lower(i) \cup Segment(i)
  BY <1>1, <1>3
<1>. QED  BY <1>4, <1>5, <1>6, <1>7

LEMMA PlaceIsRank ==
  ASSUME IInv, Merging, NEW i \in Threads, NEW e \in Segment(i)
  PROVE  Place(e, i) = Rank(e)
<1>1. /\ p \in Nat \ {0} /\ N1 \in Nat /\ N2 \in Nat /\ Sorted
      /\ i \in 0..p /\ i+1 \in 0..p
  BY SortedInputs, ParametersAssumption DEF Sorted, Threads
<1>2. e \in Elements /\ e \notin Lower(i) /\ e \in Lower(i+1)
  BY SegmentBetween
<1>. DEFINE S == {d \in Segment(i) : Before(d, e)}
            T == {d \in Elements : Before(d, e)}
<1>3. T = Lower(i) \cup S
  <2>1. Lower(i) \subseteq T
    BY <1>1, <1>2, BoundaryApart, SegmentBetween
  <2>2. ASSUME NEW d \in T PROVE d \in Lower(i) \/ d \in Segment(i)
    <3>1. d \in Lower(i+1)
      <4>1. d \notin Lower(i+1) => Before(e, d)
        BY <1>1, <1>2, BoundaryApart
      <4>. QED  BY <1>1, <1>2, <4>1, BeforeStrict
    <3>. QED  BY <3>1, SegmentBetween
  <2>. QED  BY <2>1, <2>2, SegmentBetween
<1>4. Lower(i) \cap S = {}
  BY SegmentBetween
<1>5. IsFiniteSet(Lower(i)) /\ Cardinality(Lower(i)) = Offset(i) /\ Offset(i) \in Nat
  <2>1. split_indx_A[i] \in Nat /\ split_indx_B[i] \in Nat
    BY <1>1, Boundaries
  <2>. QED  BY <2>1, TwoFirsts DEF Lower, Offset
<1>6. IsFiniteSet(S) /\ Cardinality(S) \in Nat
  <2>1. S \in SUBSET Elements
    BY SegmentBetween
  <2>. QED  BY <1>1, <2>1, ElementsFinite, FS_Subset, FS_CardinalityType
<1>7. Cardinality({}) = 0
  BY FS_EmptySet
<1>8. Place(e, i) = Offset(i) + 1 + Cardinality(S) /\ Rank(e) = Cardinality(T) + 1
  BY DEF Place, Rank
<1>. HIDE DEF S, T
<1>9. Cardinality(T) = Offset(i) + Cardinality(S)
  <2>1. Cardinality(Lower(i) \cup S)
          = Cardinality(Lower(i)) + Cardinality(S) - Cardinality(Lower(i) \cap S)
    BY <1>5, <1>6, FS_Union
  <2>. DEFINE L == Lower(i)  o == Offset(i)
  <2>2. Cardinality(T) = Cardinality(L) + Cardinality(S) - 0
    BY <1>3, <1>4, <1>7, <2>1, Zenon
  <2>3. Cardinality(L) = o /\ o \in Nat
    BY <1>5
  <2>. HIDE DEF L, o
  <2>4. Cardinality(T) = o + Cardinality(S)
    BY <1>6, <2>2, <2>3
  <2>. QED  BY <2>4 DEF o
<1>. QED  BY <1>5, <1>6, <1>8, <1>9

\* every element is in some segment
LEMMA SegmentsCover ==
  ASSUME IInv, Merging, NEW e \in Elements
  PROVE  \E i \in Threads : e \in Segment(i)
<1>1. p \in Nat \ {0} /\ N1 \in Nat /\ N2 \in Nat
  BY SortedInputs, ParametersAssumption DEF Sorted
<1>. DEFINE T == {i \in 0..p : e \in Lower(i)}
<1>2. e \in Lower(p) /\ e \notin Lower(0)
  <2>1. /\ split_indx_A[0] = 0 /\ split_indx_A[p] = N1
        /\ split_indx_B[0] = 0 /\ split_indx_B[p] = N2
    BY Boundaries
  <2>2. Lower(p) = Elements
    BY <2>1 DEF Lower, FirstOf, Elements
  <2>3. Lower(0) = {}
    BY <2>1 DEF Lower, FirstOf
  <2>. QED  BY <2>2, <2>3
<1>3. T \subseteq Nat /\ p \in T
  BY <1>1, <1>2
<1>4. PICK m \in T : \A k \in T : m <= k
  BY <1>3, LeastNatural
<1>5. m \in 1..p /\ e \in Lower(m)
  BY <1>1, <1>2, <1>4
<1>6. m - 1 \in Threads /\ (m - 1) + 1 = m /\ m - 1 \in 0..p
  BY <1>1, <1>5 DEF Threads
<1>7. e \notin Lower(m - 1)
  BY <1>1, <1>4, <1>5, <1>6
<1>8. Lower(m) \subseteq Lower(m - 1) \cup Segment(m - 1)
  BY <1>6, SegmentBetween
<1>. QED  BY <1>5, <1>6, <1>7, <1>8

(***************************************************************************)
(* The slices of the copy tile the output.                                 *)
(***************************************************************************)
Cut(i) == (i * (N1 + N2)) \div p

LEMMA Cuts ==
  ASSUME Sorted
  PROVE  /\ Cut(0) = 0 /\ Cut(p) = N1 + N2
         /\ \A i \in 0..p : Cut(i) \in 0..N1 + N2
<1>. DEFINE N == N1 + N2
<1>1. N \in Nat /\ p \in Nat \ {0}
  BY ParametersAssumption DEF Sorted
<1>2. \A i : Cut(i) = (i * N) \div p
  BY DEF Cut
<1>. HIDE DEF N
<1>3. (0 * N) \div p = 0
  BY <1>1, SMT
<1>4. (p * N) \div p = N
  <2>. DEFINE z == (p * N) \div p
  <2>1. p * N \in Nat /\ p * N < p * (N + 1)
    BY <1>1
  <2>2. z \in Nat /\ p * z <= p * N /\ p * N < p * z + p
    BY <1>1, <2>1, DivBounds
  <2>. HIDE DEF z
  <2>3. z < N + 1 /\ N < z + 1
    BY <1>1, <2>2, SMT
  <2>4. z = N
    BY <1>1, <2>2, <2>3
  <2>. QED  BY <2>4 DEF z
<1>5. ASSUME NEW i \in 0..p PROVE (i * N) \div p \in 0..N
  <2>1. i * N \in Nat /\ i * N <= p * N /\ p * N \in Nat
    BY <1>1
  <2>2. (i * N) \div p <= (p * N) \div p /\ (i * N) \div p \in Nat
    BY <1>1, <2>1, DivMonotone, DivBounds
  <2>. QED  BY <1>1, <1>4, <2>2
<1>. QED  BY <1>2, <1>3, <1>4, <1>5 DEF N

LEMMA SlicesCover ==
  ASSUME Sorted, NEW k \in 1..N1 + N2
  PROVE  \E i \in Threads : k \in Cut(i) + 1..Cut(i+1)
<1>1. p \in Nat \ {0} /\ N1 \in Nat /\ N2 \in Nat
  BY ParametersAssumption DEF Sorted
<1>2. /\ Cut(0) = 0 /\ Cut(p) = N1 + N2
      /\ \A i \in 0..p : Cut(i) \in 0..N1 + N2
  BY Cuts
<1>. DEFINE T == {i \in 0..p : k <= Cut(i)}
<1>3. T \subseteq Nat /\ p \in T
  BY <1>1, <1>2
<1>4. PICK m \in T : \A i \in T : m <= i
  BY <1>3, LeastNatural
<1>5. m \in 1..p /\ k <= Cut(m)
  BY <1>1, <1>2, <1>4
<1>6. m - 1 \in Threads /\ (m - 1) + 1 = m /\ m - 1 \in 0..p
  BY <1>1, <1>5 DEF Threads
<1>7. Cut(m - 1) < k
  BY <1>1, <1>2, <1>4, <1>5, <1>6
<1>8. k \in Cut(m - 1) + 1..Cut((m - 1) + 1)
  BY <1>1, <1>2, <1>5, <1>6, <1>7
<1>. QED  BY <1>6, <1>8

(***************************************************************************)
(* What the iterations that have run leave in C: every element of their    *)
(* segments at its rank, or the copy of their slices.                      *)
(***************************************************************************)
Merged == Merging => \A i \in Threads \ todo : \A e \in Segment(i) : C[Rank(e)] = e

Copying == loop \in {"copy", "done"} /\ (N1 = 0) # (N2 = 0)
Only == IF N1 = 0 THEN "B" ELSE "A"
Copied ==
  Copying => \A i \in Threads \ todo :
               \A k \in Cut(i) + 1..Cut(i+1) : C[k] = <<Only, k>>

OutInv == IInv /\ Merged /\ Copied

LEMMA RankInjective ==
  ASSUME Sorted, NEW d \in Elements, NEW e \in Elements, Rank(d) = Rank(e)
  PROVE  d = e
<1>1. Rank(d) \in Int /\ Rank(e) \in Int
  BY RankInArray DEF Sorted
<1>2. ~ Before(d, e) /\ ~ Before(e, d)
  BY <1>1, RankOrders
<1>. QED  BY <1>2, BeforeStrict

LEMMA RankDetermined ==
  ASSUME UNCHANGED inputs
  PROVE  /\ \A e : Rank(e)' = Rank(e)
         /\ \A i : Cut(i)' = Cut(i)
         /\ Only' = Only
<1>1. A' = A /\ B' = B
  BY DEF inputs
<1>2. N1' = N1 /\ N2' = N2 /\ Elements' = Elements
  BY InputsDetermine
<1>3. \A d, e : Before(d, e)' <=> Before(d, e)
  BY <1>1 DEF Before, Key
<1>4. \A e : Rank(e)' = Rank(e)
  BY <1>2, <1>3 DEF Rank
<1>. QED  BY <1>2, <1>4 DEF Cut, Only

LEMMA MergeSegmentOut ==
  ASSUME OutInv, NEW i \in Threads, MergeSegment(i)
  PROVE  Merged' /\ Copied'
<1>1. /\ IInv /\ Merged /\ loop = "merge" /\ loop' = "merge" /\ i \in todo
      /\ todo' = todo \ {i} /\ UNCHANGED <<inputs, bounds>>
  BY DEF OutInv, MergeSegment
<1>2. Copied'
  BY <1>1 DEF Copied, Copying
<1>3. Merging /\ Sorted
  BY <1>1, SortedInputs DEF IInv, LoopOK, Merging
<1>4. /\ N1' = N1 /\ N2' = N2 /\ \A e : Rank(e)' = Rank(e)
      /\ \A j : Segment(j)' = Segment(j)
  BY <1>1, InputsDetermine, RankDetermined DEF Segment, bounds
<1>5. ASSUME NEW j \in Threads \ todo', NEW e \in Segment(j)
      PROVE  C'[Rank(e)] = e
  <2>1. e \in Elements /\ Segment(i) \subseteq Elements
    BY <1>1, <1>3, <1>5, SegmentBetween
  <2>2. Rank(e) \in DOMAIN C
    BY <1>1, <1>3, <2>1, RankInArray DEF IInv, TypeOK
  <2>3. C'[Rank(e)] = IF \E d \in Segment(i) : Place(d, i) = Rank(e)
                      THEN CHOOSE d \in Segment(i) : Place(d, i) = Rank(e)
                      ELSE C[Rank(e)]
    BY <2>2, Zenon DEF MergeSegment
  <2>4. ASSUME NEW d \in Segment(i), Place(d, i) = Rank(e) PROVE d = e
    <3>1. Rank(d) = Rank(e)
      BY <1>1, <1>3, <2>4, PlaceIsRank
    <3>. QED  BY <1>3, <2>1, <3>1, RankInjective
  <2>5. CASE \E d \in Segment(i) : Place(d, i) = Rank(e)
    BY <2>3, <2>4, <2>5, Zenon
  <2>6. CASE ~ \E d \in Segment(i) : Place(d, i) = Rank(e)
    <3>1. j # i
      BY <1>1, <1>3, <1>5, <2>6, PlaceIsRank
    <3>2. C[Rank(e)] = e
      BY <1>1, <1>3, <1>5, <3>1 DEF Merged
    <3>. QED  BY <2>3, <2>6, <3>2
  <2>. QED  BY <2>5, <2>6
<1>6. Merged'
  BY <1>4, <1>5 DEF Merged
<1>. QED  BY <1>2, <1>6

LEMMA CopySliceOut ==
  ASSUME OutInv, NEW i \in Threads, CopySlice(i)
  PROVE  Merged' /\ Copied'
<1>1. /\ IInv /\ Copied /\ loop = "copy" /\ loop' = "copy" /\ i \in todo
      /\ todo' = todo \ {i} /\ UNCHANGED inputs
      /\ C' = [k \in DOMAIN C |-> IF k \in Cut(i) + 1..Cut(i+1)
                                  THEN <<Only, k>> ELSE C[k]]
  BY Zenon DEF OutInv, CopySlice, Cut, Only
<1>2. Merged'
  BY <1>1 DEF Merged, Merging
<1>3. Copying /\ Sorted
  BY <1>1, SortedInputs DEF IInv, LoopOK, Copying
<1>4. /\ \A k : Cut(k)' = Cut(k)
      /\ Only' = Only
  BY <1>1, RankDetermined
<1>5. ASSUME NEW j \in Threads \ todo', NEW k \in Cut(j) + 1..Cut(j+1)
      PROVE  C'[k] = <<Only, k>>
  <2>1. k \in 1..N1 + N2
    <3>1. /\ p \in Nat \ {0} /\ N1 \in Nat /\ N2 \in Nat
          /\ j \in 0..p /\ j+1 \in 0..p
      BY <1>3, ParametersAssumption DEF Sorted, Threads
    <3>2. Cut(j) \in 0..N1 + N2 /\ Cut(j+1) \in 0..N1 + N2
      BY <1>3, <3>1, Cuts
    <3>. QED  BY <3>1, <3>2
  <2>2. k \in DOMAIN C
    BY <1>1, <2>1 DEF IInv, TypeOK
  <2>3. j # i => C[k] = <<Only, k>>
    BY <1>1, <1>3 DEF Copied
  <2>. QED  BY <1>1, <2>2, <2>3, Zenon
<1>6. Copied'
  BY <1>4, <1>5 DEF Copied
<1>. QED  BY <1>2, <1>6

LEMMA OutInvKept == OutInv /\ [Next]_vars => OutInv'
<1>. SUFFICES ASSUME OutInv, [Next]_vars PROVE OutInv'
  OBVIOUS
<1>1. IInv' /\ IInv
  BY NextInv DEF OutInv
<1>2. CASE Enter
  <2>1. N1' = N1 /\ N2' = N2 /\ N1 \in Nat /\ N2 \in Nat
    BY <1>1, <1>2, SortedInputs, InputsDetermine DEF Enter, Sorted
  <2>2. \/ loop' = "done" /\ N1 = 0 /\ N2 = 0
        \/ loop' \in {"copy", "split"} /\ todo' = Threads
    BY <1>2 DEF Enter
  <2>. QED  BY <1>1, <2>1, <2>2 DEF OutInv, Merged, Merging, Copied, Copying
<1>3. CASE Barrier
  <2>1. /\ N1' = N1 /\ N2' = N2 /\ Only' = Only
        /\ \A e : Rank(e)' = Rank(e)
        /\ \A k : Cut(k)' = Cut(k)
    BY <1>3, InputsDetermine, RankDetermined DEF Barrier
  <2>2. todo = {} /\ C' = C
    BY <1>3 DEF Barrier
  <2>3. CASE loop \in {"split", "pick"}
    <3>1. loop' \in {"pick", "merge"} /\ (loop' = "merge" => todo' = Threads)
      BY <1>3, <2>3 DEF Barrier
    <3>. QED  BY <1>1, <3>1 DEF OutInv, Merged, Merging, Copied, Copying
  <2>4. CASE loop = "merge"
    <3>1. /\ loop' = "done" /\ todo' = {} /\ UNCHANGED bounds
          /\ Merging /\ ~ Copying'
      BY <1>1, <1>3, <2>1, <2>4 DEF Barrier, IInv, LoopOK, Merging, Copying
    <3>2. \A j : Segment(j)' = Segment(j)
      BY <3>1 DEF Segment, bounds
    <3>. QED  BY <1>1, <2>1, <2>2, <3>1, <3>2 DEF OutInv, Merged, Copied
  <2>5. CASE loop = "copy"
    <3>1. /\ loop' = "done" /\ todo' = {}
          /\ Copying /\ ~ Merging'
      BY <1>1, <1>3, <2>1, <2>5 DEF Barrier, IInv, LoopOK, Merging, Copying
    <3>. QED  BY <1>1, <2>1, <2>2, <3>1 DEF OutInv, Merged, Copied
  <2>. QED  BY <1>3, <2>3, <2>4, <2>5 DEF Barrier
<1>4. ASSUME NEW i \in Threads, Sample(i) \/ Pick(i) PROVE OutInv'
  <2>1. loop' \in {"split", "pick"}
    BY <1>4 DEF Sample, Pick
  <2>. QED  BY <1>1, <2>1 DEF OutInv, Merged, Merging, Copied, Copying
<1>5. ASSUME NEW i \in Threads, CopySlice(i) \/ MergeSegment(i) PROVE OutInv'
  BY <1>1, <1>5, CopySliceOut, MergeSegmentOut DEF OutInv
<1>6. CASE UNCHANGED vars
  <2>1. UNCHANGED inputs /\ UNCHANGED bounds /\ C' = C /\ loop' = loop /\ todo' = todo
    BY <1>6 DEF vars, inputs, bounds
  <2>2. /\ N1' = N1 /\ N2' = N2 /\ Only' = Only
        /\ \A e : Rank(e)' = Rank(e)
        /\ \A k : Cut(k)' = Cut(k)
        /\ \A j : Segment(j)' = Segment(j)
    BY <2>1, InputsDetermine, RankDetermined DEF Segment, bounds
  <2>. QED  BY <1>1, <2>1, <2>2 DEF OutInv, Merged, Merging, Copied, Copying
<1>. QED  BY <1>2, <1>3, <1>4, <1>5, <1>6 DEF Next, Returned, Iteration

\* In the end C is what a sequential, stable merge of A and B makes: each
\* element once, in order of keys, equal keys in A's order and then in B's.
\* For every number of threads and splits and all sorted arrays.
THEOREM MergesStably == Spec => []MergedStably
<1>1. Init => OutInv
  BY InitInv DEF Init, OutInv, Merged, Merging, Copied, Copying
<1>2. OutInv => MergedStably
  <2>. SUFFICES ASSUME OutInv, loop = "done"
                PROVE  /\ \A e \in Elements : \E k \in DOMAIN C : C[k] = e
                       /\ \A k \in 1..N1 + N2 - 1 : Before(C[k], C[k+1])
    BY DEF MergedStably
  <2>1. /\ IInv /\ Sorted /\ N1 \in Nat /\ N2 \in Nat
        /\ DOMAIN C = 1..N1 + N2 /\ todo = {}
    BY SortedInputs DEF OutInv, Sorted, IInv, TypeOK, LoopOK
  <2>2. CASE N1 = 0 /\ N2 = 0
    BY <2>2 DEF Elements
  <2>3. CASE N1 > 0 /\ N2 > 0
    <3>1. \A e \in Elements : C[Rank(e)] = e /\ Rank(e) \in 1..N1 + N2
      BY <2>1, <2>3, SegmentsCover, RankInArray DEF OutInv, Merged, Merging
    <3>2. ASSUME NEW k \in 1..N1 + N2 - 1 PROVE Before(C[k], C[k+1])
      <4>1. k \in 1..N1 + N2 /\ k+1 \in 1..N1 + N2
        BY <2>1
      <4>2. PICK d \in Elements : Rank(d) = k
        BY <2>1, <4>1, EveryPlaceTaken
      <4>3. PICK e \in Elements : Rank(e) = k+1
        BY <2>1, <4>1, EveryPlaceTaken
      <4>4. Before(d, e)
        BY <2>1, <4>1, <4>2, <4>3, RankOrders
      <4>. QED  BY <3>1, <4>2, <4>3, <4>4
    <3>. QED  BY <2>1, <3>1, <3>2
  <2>4. CASE (N1 = 0) # (N2 = 0)
    <3>1. \A k \in 1..N1 + N2 : C[k] = <<Only, k>>
      BY <2>1, <2>4, SlicesCover DEF OutInv, Copied, Copying
    <3>2. Elements = {<<Only, k>> : k \in 1..N1 + N2}
      BY <2>1, <2>4 DEF Elements, Only
    <3>3. ASSUME NEW k \in 1..N1 + N2 - 1 PROVE Before(C[k], C[k+1])
      <4>1. k \in 1..N1 + N2 /\ k+1 \in 1..N1 + N2
        BY <2>1
      <4>2. C[k] = <<Only, k>> /\ C[k+1] = <<Only, k+1>>
        BY <3>1, <4>1
      <4>3. Key(<<Only, k>>) <= Key(<<Only, k+1>>)
        <5>1. /\ A \in Seq(Nat) /\ \A i, j \in 1..N1 : i <= j => A[i] <= A[j]
              /\ B \in Seq(Nat) /\ \A i, j \in 1..N2 : i <= j => B[i] <= B[j]
          BY <2>1 DEF Sorted, SortedArrays, N1, N2
        <5>2. CASE N1 = 0
          <6>1. k \in 1..N2 /\ k+1 \in 1..N2
            BY <2>1, <4>1, <5>2
          <6>2. Key(<<Only, k>>) = B[k] /\ Key(<<Only, k+1>>) = B[k+1]
            BY <5>2 DEF Only, Key
          <6>. QED  BY <5>1, <6>1, <6>2
        <5>3. CASE N1 # 0
          <6>1. k \in 1..N1 /\ k+1 \in 1..N1
            BY <2>1, <2>4, <4>1, <5>3
          <6>2. Key(<<Only, k>>) = A[k] /\ Key(<<Only, k+1>>) = A[k+1]
            BY <5>3 DEF Only, Key
          <6>. QED  BY <5>1, <6>1, <6>2
        <5>. QED  BY <5>2, <5>3
      <4>4. Key(<<Only, k>>) \in Nat /\ Key(<<Only, k+1>>) \in Nat
        BY <2>1, <3>2, <4>1, ElementShape
      <4>. QED  BY <4>1, <4>2, <4>3, <4>4 DEF Before
    <3>. QED  BY <2>1, <3>1, <3>2, <3>3
  <2>. QED  BY <2>1, <2>2, <2>3, <2>4
<1>. QED  BY <1>1, <1>2, OutInvKept, PTL DEF Spec

----------------------------------------------------------------------------
(* merge_sort beside merge: OmpUtils has its own instance of OmpMergeSort, *)
(* and the theorems come with another one.  The two are the same, operator *)
(* by operator.                                                            *)

Proved == INSTANCE OmpMergeSortProofs WITH
            Inputs <- Arrays, input <- array, p <- team, A <- caller, B <- buffer,
            inA <- inCaller, j <- width, i <- part, todo <- left

LEMMA SameSortedCopies ==
  ASSUME NEW s PROVE Sort!SortedCopies(s) = Proved!SortedCopies(s)
<1>1. ASSUME NEW S PROVE Sort!Cardinality(S) = Proved!Cardinality(S)
  BY Zenon DEF Sort!Cardinality, Proved!Cardinality
<1>. QED  BY <1>1 DEF Sort!SortedCopies, Proved!SortedCopies, Sort!Range, Proved!Range

LEMMA SameSlice ==
  ASSUME NEW buf, NEW f, NEW l PROVE Sort!Slice(buf, f, l) = Proved!Slice(buf, f, l)
BY DEF Sort!Slice, Proved!Slice, Sort!splitAt, Proved!splitAt, Sort!N, Proved!N

LEMMA SameWrite ==
  ASSUME NEW buf, NEW f, NEW s PROVE Sort!Write(buf, f, s) = Proved!Write(buf, f, s)
BY DEF Sort!Write, Proved!Write, Sort!splitAt, Proved!splitAt, Sort!N, Proved!N

LEMMA SameNext == Sort!Next => Proved!Next
<1>. USE DEF Sort!given, Proved!given, Sort!N, Proved!N
<1>1. Sort!Parts = Proved!Parts
  BY DEF Sort!Parts, Proved!Parts
<1>2. Sort!SortShort => Proved!SortShort
  BY SameSortedCopies DEF Sort!SortShort, Proved!SortShort
<1>3. Sort!Divide => Proved!Divide
  BY <1>1 DEF Sort!Divide, Proved!Divide
<1>4. ASSUME NEW id, Sort!SortPart(id) PROVE Proved!SortPart(id)
  BY <1>4, SameSlice, SameSortedCopies, SameWrite DEF Sort!SortPart, Proved!SortPart
<1>5. Sort!PartsSorted => Proved!PartsSorted
  BY DEF Sort!PartsSorted, Proved!PartsSorted, Sort!NextPhase, Proved!NextPhase
<1>6. Sort!MergePair => Proved!MergePair
  <2>1. Sort!RunPair = Proved!RunPair
    BY SameSlice, SameSortedCopies
    DEF Sort!RunPair, Proved!RunPair, Sort!PairEnd, Proved!PairEnd, Sort!Source, Proved!Source
  <2>. QED  BY <2>1, SameWrite DEF Sort!MergePair, Proved!MergePair
<1>7. Sort!SwapBuffers => Proved!SwapBuffers
  BY DEF Sort!SwapBuffers, Proved!SwapBuffers, Sort!NextPhase, Proved!NextPhase
<1>8. Sort!CopyBack => Proved!CopyBack
  BY DEF Sort!CopyBack, Proved!CopyBack
<1>9. Sort!Returned => Proved!Returned
  BY DEF Sort!Returned, Proved!Returned, Sort!vars, Proved!vars
<1>. QED  BY <1>1, <1>2, <1>3, <1>4, <1>5, <1>6, <1>7, <1>8, <1>9 DEF Sort!Next, Proved!Next

\* In every round of merge_sort, whatever the teams and the arrays, the runs
\* still to be merged are in order and hold no unwritten memory: merge_sort
\* keeps what omp_par::merge demands of its arguments.
THEOREM RunsReadyBesideMerge == OmpSpec => []RunsReady
<1>1. Proved!ParametersOK
  BY SortAssumption DEF Sort!ParametersOK, Proved!ParametersOK
<1>2. Proved!Init /\ [][Proved!Next]_(Proved!vars) => []Proved!RunsReady
  BY <1>1, Proved!RunsAlwaysReady
<1>3. OmpInit => Proved!Init
  BY DEF OmpInit, Sort!Init, Proved!Init, Sort!Unset, Proved!Unset
<1>4. [OmpNext]_<<vars, sortVars>> => [Proved!Next]_(Proved!vars)
  BY SameNext DEF OmpNext, vars, sortVars, Proved!vars, Proved!given
<1>5. Proved!RunsReady => RunsReady
  BY SameSlice
  DEF Proved!RunsReady, RunsReady, Sort!RunsReady, Proved!Source, Sort!Source, Sort!Unset, Proved!Unset
<1>. QED  BY <1>2, <1>3, <1>4, <1>5, PTL DEF OmpSpec

\* The same holds of merge beside merge_sort: its segments never cross.
THEOREM SegmentsNeverCrossBesideSort == OmpSpec => []SegmentsTile
<1>1. Spec <=> Init /\ [][Next]_vars /\ Fairness
  BY DEF Spec
<1>2. OmpInit => Init
  BY DEF OmpInit
<1>3. [OmpNext]_<<vars, sortVars>> => [Next]_vars
  BY DEF OmpNext
<1>. QED  BY <1>1, <1>2, <1>3, SegmentsNeverCross, PTL DEF OmpSpec
=============================================================================
