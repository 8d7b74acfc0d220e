------------------------- MODULE OmpMergeSortProofs -------------------------
(***************************************************************************)
(* For every size of the team and every array: the runs that merge_sort    *)
(* merges are sorted and written, and when it returns the array holds what *)
(* it held, in order.                                                      *)
(*                                                                         *)
(* In a round the source still has sorted runs of j parts from part i on,  *)
(* and the target has sorted runs of 2j parts before part i, with the keys *)
(* that the source has there.  That a run has as many of each key as what  *)
(* it was made from carries over to the whole arrays by counting.          *)
(***************************************************************************)
EXTENDS OmpMergeSort, FiniteSetTheorems, SequenceTheorems, TLAPS

\* where part id begins in an array of n elements cut into q parts
Cut(n, q, id) == (id * n) \div q

\* buf is in order from position a+1 to b
Rising(buf, a, b) == \A x \in a+1..b-1 : buf[x] <= buf[x+1]

\* how often v is in buf from position a+1 to b
Count(buf, a, b, v) == Cardinality({x \in a+1..b : buf[x] = v})

Least(a, b) == IF a <= b THEN a ELSE b

Size == Len(input)
At(id) == Cut(Size, p, id)
SameKeys(buf) == \A v \in Nat : Count(buf, 0, Size, v) = Count(input, 0, Size, v)

Shape ==
  /\ input \in Seq(Nat) /\ p \in Nat \ {0}
  /\ A \in Seq(Nat) /\ Len(A) = Size
  /\ B \in Seq(Nat \cup {Unset}) /\ Len(B) = Size
  /\ inA \in BOOLEAN /\ j \in Nat \ {0} /\ i \in Nat

AtEntry == phase \in {"entry", "parts"} => j = 1 /\ i = 0 /\ inA = TRUE

KeysKept == /\ phase \in {"entry", "parts"} => SameKeys(A)
            /\ phase \in {"round", "back"} => Source \in Seq(Nat) /\ SameKeys(Source)

\* the parts that have been sorted
PartsDone == phase = "parts" => \A id \in Parts \ todo : Rising(A, At(id), At(id + 1))

\* the runs the round has still to merge
RunsLeft ==
  /\ i % (2*j) = 0
  /\ \A f \in i..p-1 : f % j = 0 => Rising(Source, At(f), At(Least(f + j, p)))

\* and those it has made
RunsMade ==
  /\ \A x \in 1..At(Least(i, p)) : Target[x] \in Nat
  /\ \A v \in Nat : Count(Target, 0, At(Least(i, p)), v) = Count(Source, 0, At(Least(i, p)), v)
  /\ \A f \in 0..p-1 : f < i /\ f % (2*j) = 0 => Rising(Target, At(f), At(Least(f + 2*j, p)))

IInv ==
  /\ Shape /\ AtEntry /\ KeysKept /\ PartsDone
  /\ phase = "round" => RunsLeft /\ RunsMade
  /\ phase = "back" => Rising(Source, 0, Size)

----------------------------------------------------------------------------
(* Arithmetic *)

LEMMA DivBounds ==
  ASSUME NEW a \in Nat, NEW b \in Nat \ {0}
  PROVE  /\ a \div b \in Nat
         /\ b * (a \div b) <= a
         /\ a < b * (a \div b) + b
  BY SMT

LEMMA QuotientIs ==
  ASSUME NEW b \in Nat \ {0}, NEW x \in Nat, NEW y \in Nat, b * x <= b * y
  PROVE  x <= y
  BY SMT

LEMMA CutBounds ==
  ASSUME NEW n \in Nat, NEW q \in Nat \ {0}
  PROVE  /\ \A f \in Nat : Cut(n, q, f) \in Nat
         /\ Cut(n, q, 0) = 0 /\ Cut(n, q, q) = n
         /\ \A f, g \in Nat : f <= g => Cut(n, q, f) <= Cut(n, q, g)
<1>1. \A f \in Nat : f * n \in Nat
  OBVIOUS
<1>2. \A f \in Nat : Cut(n, q, f) \in Nat
  BY <1>1, DivBounds DEF Cut
<1>3. Cut(n, q, 0) = 0
  BY SMT DEF Cut
<1>4. Cut(n, q, q) = n
  <2>. DEFINE d == (q * n) \div q
  <2>1. d \in Nat /\ q * d <= q * n /\ q * n < q * d + q
    BY <1>1, DivBounds
  <2>2. q * d <= q * n /\ q * n < q * (d + 1)
    BY <2>1
  <2>. HIDE DEF d
  <2>3. d <= n /\ n < d + 1
    BY <2>1, <2>2, SMT
  <2>. QED  BY <2>1, <2>3 DEF Cut, d
<1>5. ASSUME NEW f \in Nat, NEW g \in Nat, f <= g
      PROVE  Cut(n, q, f) <= Cut(n, q, g)
  <2>. DEFINE x == (f * n) \div q  y == (g * n) \div q
  <2>1. x \in Nat /\ q * x <= f * n
    BY <1>1, DivBounds
  <2>2. y \in Nat /\ g * n < q * y + q
    BY <1>1, DivBounds
  <2>3. f * n <= g * n
    BY <1>5, SMT
  <2>4. f * n \in Nat /\ g * n \in Nat /\ q * x \in Nat /\ q * y \in Nat
    BY <2>1, <2>2
  <2>. HIDE DEF x, y
  <2>5. q * x < q * (y + 1)
    BY <2>1, <2>2, <2>3, <2>4
  <2>6. x < y + 1
    BY <2>1, <2>2, <2>5, SMT
  <2>. QED  BY <2>1, <2>2, <2>6 DEF Cut, x, y
<1>. QED  BY <1>2, <1>3, <1>4, <1>5

LEMMA Multiple ==
  ASSUME NEW w \in Nat \ {0}, NEW x \in Nat
  PROVE  x % w = 0 <=> \E q \in Nat : x = w * q
<1>1. x \div w \in Nat /\ x % w \in 0..w-1 /\ x = w * (x \div w) + (x % w)
  BY SMT
<1>2. ASSUME NEW q \in Nat, x = w * q
      PROVE  x % w = 0
  <2>. DEFINE d == x \div w  r == x % w
  <2>1. d \in Nat /\ r \in 0..w-1 /\ w * q = w * d + r
    BY <1>1, <1>2
  <2>. HIDE DEF d, r
  <2>2. q = d
    <3>1. w * q < w * (d + 1) /\ w * d < w * (q + 1)
      BY <2>1, SMT
    <3>. QED  BY <2>1, <3>1, SMT
  <2>. QED  BY <2>1, <2>2 DEF r
<1>3. ASSUME x % w = 0
      PROVE  \E q \in Nat : x = w * q
  <2>1. x = w * (x \div w)
    BY <1>1, <1>3
  <2>. QED  BY <1>1, <2>1, Zenon
<1>. QED  BY <1>2, <1>3, Zenon

\* the next multiple of w is w further
LEMMA MultipleStep ==
  ASSUME NEW w \in Nat \ {0}, NEW f \in Nat, NEW g \in Nat,
         f % w = 0, g % w = 0, f < g
  PROVE  f + w <= g
<1>1. PICK x \in Nat : f = w * x
  BY Multiple
<1>2. PICK y \in Nat : g = w * y
  BY Multiple
<1>3. x + 1 <= y
  BY <1>1, <1>2, SMT
<1>4. w * (x + 1) <= w * y
  BY <1>3, SMT
<1>. QED  BY <1>1, <1>2, <1>4

LEMMA MultipleOfTwice ==
  ASSUME NEW w \in Nat \ {0}, NEW f \in Nat, f % (2*w) = 0
  PROVE  f % w = 0 /\ (f + 2*w) % (2*w) = 0
<1>1. 2*w \in Nat \ {0}
  OBVIOUS
<1>2. PICK q \in Nat : f = (2*w) * q
  BY <1>1, Multiple
<1>3. f = w * (2*q) /\ 2*q \in Nat
  BY <1>2
<1>4. f + 2*w = (2*w) * (q + 1) /\ q + 1 \in Nat /\ f + 2*w \in Nat
  BY <1>2
<1>. QED  BY <1>1, <1>3, <1>4, Multiple

----------------------------------------------------------------------------
(* Counting keys *)

LEMMA CountType ==
  ASSUME NEW buf, NEW a \in Int, NEW b \in Int, NEW v
  PROVE  IsFiniteSet({x \in a+1..b : buf[x] = v}) /\ Count(buf, a, b, v) \in Nat
<1>1. IsFiniteSet(a+1..b)
  BY FS_Interval
<1>2. IsFiniteSet({x \in a+1..b : buf[x] = v})
  BY <1>1, FS_Subset
<1>. QED  BY <1>2, FS_CardinalityType DEF Count

LEMMA CountSplit ==
  ASSUME NEW buf, NEW a \in Nat, NEW b \in Nat, NEW c \in Nat, a <= b, b <= c, NEW v
  PROVE  Count(buf, a, c, v) = Count(buf, a, b, v) + Count(buf, b, c, v)
<1>. DEFINE S == {x \in a+1..b : buf[x] = v}
            T == {x \in b+1..c : buf[x] = v}
<1>1. S \cap T = {} /\ S \cup T = {x \in a+1..c : buf[x] = v}
  OBVIOUS
<1>2. IsFiniteSet(S) /\ IsFiniteSet(T) /\ Cardinality(S) \in Nat /\ Cardinality(T) \in Nat
  <2>1. a \in Int /\ b \in Int /\ c \in Int
    OBVIOUS
  <2>2. IsFiniteSet(S) /\ Count(buf, a, b, v) \in Nat
    BY <2>1, CountType, Zenon
  <2>3. IsFiniteSet(T) /\ Count(buf, b, c, v) \in Nat
    BY <2>1, CountType, Zenon
  <2>. QED  BY <2>2, <2>3, Zenon DEF Count
<1>. HIDE DEF S, T
<1>3. Cardinality(S \cup T) = Cardinality(S) + Cardinality(T) - Cardinality({})
  BY <1>1, <1>2, FS_Union
<1>4. Cardinality({}) = 0
  BY FS_EmptySet
<1>5. Cardinality(S \cup T) = Cardinality(S) + Cardinality(T)
  BY <1>2, <1>3, <1>4
<1>. QED  BY <1>1, <1>5, Zenon DEF Count, S, T

\* two arrays that are alike count alike
LEMMA CountAlike ==
  ASSUME NEW buf, NEW other, NEW a, NEW b, \A x \in a+1..b : buf[x] = other[x], NEW v
  PROVE  Count(buf, a, b, v) = Count(other, a, b, v)
<1>1. {x \in a+1..b : buf[x] = v} = {x \in a+1..b : other[x] = v}
  OBVIOUS
<1>. QED  BY <1>1, Zenon DEF Count

\* s lies in buf from position a+1 to b
LiesIn(s, buf, a, b) == \A x \in a+1..b : buf[x] = s[x - a]

LEMMA CountPlaced ==
  ASSUME NEW buf, NEW a \in Nat, NEW b \in Nat, a <= b, NEW s, LiesIn(s, buf, a, b), NEW v
  PROVE  Count(s, 0, b - a, v) = Count(buf, a, b, v)
<1>. DEFINE S == {x \in 0+1..b-a : s[x] = v}
            T == {x \in a+1..b : buf[x] = v}
            f == [x \in S |-> a + x]
<1>1. IsFiniteSet(S)
  <2>1. IsFiniteSet(0+1..b-a)
    BY FS_Interval
  <2>2. S \in SUBSET (0+1..b-a)
    OBVIOUS
  <2>. QED  BY <2>1, <2>2, FS_Subset, Zenon
<1>2. f \in [S -> T]
  <2>1. ASSUME NEW k \in S PROVE a + k \in T
    <3>1. a + k \in a+1..b /\ (a + k) - a = k
      OBVIOUS
    <3>. QED  BY <3>1 DEF LiesIn
  <2>. QED  BY <2>1
<1>3. \A k, l \in S : f[k] = f[l] => k = l
  OBVIOUS
<1>4. ASSUME NEW x \in T PROVE \E k \in S : f[k] = x
  <2>1. x - a \in S /\ a + (x - a) = x
    BY DEF LiesIn
  <2>. QED  BY <2>1
<1>. HIDE DEF f, S, T
<1>5. f \in Bijection(S, T)
  BY <1>2, <1>3, <1>4 DEF Bijection, Injection, Surjection, IsInjective
<1>6. Cardinality(T) = Cardinality(S)
  BY <1>1, <1>5, FS_Bijection DEF ExistsBijection
<1>. QED  BY <1>6, Zenon DEF Count, S, T

\* s has what src has from position a+1 to b, in order
CopyOf(s, src, a, b) ==
  /\ s \in [1..b-a -> Nat] /\ Len(s) = b - a
  /\ \A k \in 1..b-a-1 : s[k] <= s[k+1]
  /\ \A v \in Nat : Count(s, 0, b - a, v) = Count(src, a, b, v)

LEMMA SortedCopy ==
  ASSUME NEW src \in Seq(Nat), NEW a \in Nat, NEW b \in Nat, a <= b, b <= Len(src),
         NEW s \in SortedCopies(SubSeq(src, a + 1, b))
  PROVE  CopyOf(s, src, a, b)
<1>. DEFINE u == SubSeq(src, a + 1, b)
<1>1. u \in Seq(Nat) /\ Len(u) = b - a /\ \A k \in 1..b-a : u[k] = src[a + k]
  OBVIOUS
<1>. HIDE DEF u
<1>2. DOMAIN u = 1..b-a /\ Range(u) \subseteq Nat
  BY <1>1 DEF Range
<1>3. /\ s \in [1..b-a -> Range(u)]
      /\ \A k \in 1..b-a-1 : s[k] <= s[k+1]
      /\ \A v \in Range(u) : Cardinality({k \in 1..b-a : s[k] = v})
                                = Cardinality({k \in 1..b-a : u[k] = v})
  <2>1. s \in SortedCopies(u)
    BY DEF u
  <2>. QED  BY <1>1, <2>1 DEF SortedCopies
<1>4. \A k \in 1..b-a : u[k] \in Range(u)
  BY <1>2 DEF Range
<1>5. ASSUME NEW v \in Nat
      PROVE  Count(s, 0, b - a, v) = Count(u, 0, b - a, v)
  <2>1. Count(s, 0, b - a, v) = Cardinality({k \in 1..b-a : s[k] = v})
        /\ Count(u, 0, b - a, v) = Cardinality({k \in 1..b-a : u[k] = v})
    BY DEF Count
  <2>2. CASE v \in Range(u)
    BY <1>3, <2>1, <2>2
  <2>3. CASE v \notin Range(u)
    <3>1. {k \in 1..b-a : s[k] = v} = {} /\ {k \in 1..b-a : u[k] = v} = {}
      BY <1>3, <1>4, <2>3
    <3>. QED  BY <2>1, <3>1, Zenon
  <2>. QED  BY <2>2, <2>3
<1>6. LiesIn(u, src, a, b)
  BY <1>1 DEF LiesIn
<1>7. \A v \in Nat : Count(u, 0, b - a, v) = Count(src, a, b, v)
  <2>. TAKE v \in Nat
  <2>1. \A w : LiesIn(w, src, a, b) => Count(w, 0, b - a, v) = Count(src, a, b, v)
    BY CountPlaced
  <2>. QED  BY <1>6, <2>1, Zenon
<1>8. s \in [1..b-a -> Nat]
  BY <1>2, <1>3
<1>9. Len(s) = b - a
  BY <1>3, <1>1
<1>10. \A v \in Nat : Count(s, 0, b - a, v) = Count(src, a, b, v)
  BY <1>5, <1>7
<1>. QED  BY <1>3, <1>8, <1>9, <1>10 DEF CopyOf

\* out is buf with s written from position a+1 to b
Written(out, buf, n, s, a, b) ==
  /\ LiesIn(s, out, a, b)
  /\ \A x \in 1..n : x \notin a+1..b => out[x] = buf[x]

LEMMA WrittenRising ==
  ASSUME NEW out, NEW src, NEW s, NEW a \in Nat, NEW b \in Nat,
         LiesIn(s, out, a, b), CopyOf(s, src, a, b)
  PROVE  Rising(out, a, b)
<1>. SUFFICES ASSUME NEW x \in a+1..b-1 PROVE out[x] <= out[x+1]
  BY DEF Rising
<1>1. x - a \in 1..b-a-1 /\ x \in a+1..b /\ x + 1 \in a+1..b /\ (x + 1) - a = (x - a) + 1
  OBVIOUS
<1>2. out[x] = s[x - a] /\ out[x+1] = s[(x - a) + 1]
  BY <1>1 DEF LiesIn
<1>3. s[x - a] <= s[(x - a) + 1]
  BY <1>1 DEF CopyOf
<1>. QED  BY <1>2, <1>3

LEMMA RisingAlike ==
  ASSUME NEW buf, NEW other, NEW a \in Nat, NEW b \in Nat,
         \A x \in a+1..b : buf[x] = other[x], Rising(buf, a, b)
  PROVE  Rising(other, a, b)
<1>. SUFFICES ASSUME NEW x \in a+1..b-1 PROVE other[x] <= other[x+1]
  BY DEF Rising
<1>1. x \in a+1..b /\ x + 1 \in a+1..b
  OBVIOUS
<1>. QED  BY <1>1 DEF Rising

\* To write a copy of what was there changes no count.
LEMMA WrittenCounts ==
  ASSUME NEW out, NEW buf, NEW src, NEW s, NEW n \in Nat, NEW a \in Nat, NEW b \in Nat,
         a <= b, b <= n, Written(out, buf, n, s, a, b), CopyOf(s, src, a, b), NEW v \in Nat
  PROVE  /\ Count(out, 0, a, v) = Count(buf, 0, a, v)
         /\ Count(out, a, b, v) = Count(src, a, b, v)
         /\ Count(out, b, n, v) = Count(buf, b, n, v)
<1>1. \A x \in 0+1..a : out[x] = buf[x]
  BY DEF Written
<1>2. \A x \in b+1..n : out[x] = buf[x]
  BY DEF Written
<1>3. Count(out, 0, a, v) = Count(buf, 0, a, v)
  BY <1>1, CountAlike
<1>4. Count(out, b, n, v) = Count(buf, b, n, v)
  BY <1>2, CountAlike
<1>5. Count(s, 0, b - a, v) = Count(out, a, b, v)
  BY CountPlaced DEF Written
<1>6. Count(s, 0, b - a, v) = Count(src, a, b, v)
  BY DEF CopyOf
<1>. QED  BY <1>3, <1>4, <1>5, <1>6

LEMMA WrittenInPlace ==
  ASSUME NEW out, NEW buf, NEW s, NEW n \in Nat, NEW a \in Nat, NEW b \in Nat,
         a <= b, b <= n, Written(out, buf, n, s, a, b), CopyOf(s, buf, a, b), NEW v \in Nat
  PROVE  Count(out, 0, n, v) = Count(buf, 0, n, v)
<1>1. /\ Count(out, 0, a, v) = Count(buf, 0, a, v)
      /\ Count(out, a, b, v) = Count(buf, a, b, v)
      /\ Count(out, b, n, v) = Count(buf, b, n, v)
  BY WrittenCounts
<1>2. 0 \in Nat /\ 0 <= a /\ 0 <= b
  OBVIOUS
<1>3. /\ Count(out, 0, b, v) = Count(out, 0, a, v) + Count(out, a, b, v)
      /\ Count(buf, 0, b, v) = Count(buf, 0, a, v) + Count(buf, a, b, v)
  BY <1>2, CountSplit
<1>4. /\ Count(out, 0, n, v) = Count(out, 0, b, v) + Count(out, b, n, v)
      /\ Count(buf, 0, n, v) = Count(buf, 0, b, v) + Count(buf, b, n, v)
  BY <1>2, CountSplit
<1>. QED  BY <1>1, <1>3, <1>4, Zenon

----------------------------------------------------------------------------
(* The actions *)

LEMMA Cuts ==
  ASSUME Shape
  PROVE  /\ Size \in Nat /\ N = Size
         /\ \A f \in Nat : At(f) \in Nat /\ splitAt(f) = At(f)
         /\ At(0) = 0 /\ At(p) = Size
         /\ \A f, g \in Nat : f <= g => At(f) <= At(g)
<1>1. Size \in Nat /\ N = Size
  BY DEF Shape, Size, N
<1>2. \A f \in Nat : splitAt(f) = At(f)
  BY <1>1 DEF splitAt, At, Cut
<1>. QED  BY <1>1, <1>2, CutBounds DEF Shape, At

LEMMA InitInv ==
  ASSUME ParametersOK, Init
  PROVE  IInv
<1>1. Shape
  BY DEF Init, ParametersOK, Shape, Size
<1>2. AtEntry /\ PartsDone
  BY DEF Init, AtEntry, PartsDone
<1>3. KeysKept
  BY DEF Init, KeysKept, SameKeys
<1>. QED  BY <1>1, <1>2, <1>3 DEF IInv, Init

LEMMA SortPartInv ==
  ASSUME IInv, NEW id \in Parts, SortPart(id)
  PROVE  IInv'
<1>. DEFINE a == At(id)  b == At(id + 1)
<1>1. PICK s \in SortedCopies(Slice(A, id, id+1)) : A' = Write(A, id, s)
  BY DEF SortPart
<1>2. id \in Nat /\ id + 1 \in Nat /\ id + 1 <= p /\ p \in Nat
  BY DEF Parts, IInv, Shape
<1>3. /\ a \in Nat /\ b \in Nat /\ a <= b /\ b <= Size /\ Size \in Nat
      /\ splitAt(id) = a /\ splitAt(id + 1) = b
  BY <1>2, Cuts DEF IInv
<1>4. A \in Seq(Nat) /\ Len(A) = Size
  BY DEF IInv, Shape
<1>. HIDE DEF a, b
<1>5. CopyOf(s, A, a, b)
  BY <1>1, <1>3, <1>4, SortedCopy DEF Slice
<1>6. A' = [k \in 1..Size |-> IF k \in a+1..b THEN s[k - a] ELSE A[k]]
  <2>1. a + Len(s) = b
    BY <1>3, <1>5 DEF CopyOf
  <2>. QED  BY <1>1, <1>3, <1>4, <2>1 DEF Write
<1>7. Written(A', A, Size, s, a, b)
  BY <1>3, <1>6 DEF Written, LiesIn
<1>8. A' \in Seq(Nat) /\ Len(A') = Size
  <2>1. \A k \in a+1..b : s[k - a] \in Nat
    BY <1>3, <1>5 DEF CopyOf
  <2>2. A' \in [1..Size -> Nat]
    BY <1>4, <1>6, <2>1
  <2>. QED  BY <1>3, <2>2
<1>9. Shape' /\ AtEntry'
  BY <1>8 DEF SortPart, IInv, Shape, AtEntry, given, Size
<1>10. KeysKept'
  <2>1. SameKeys(A)'
    <3>. SUFFICES ASSUME NEW v \in Nat
                  PROVE  Count(A', 0, Size, v) = Count(input, 0, Size, v)
      BY DEF SameKeys, Size, SortPart, given
    <3>1. Count(A', 0, Size, v) = Count(A, 0, Size, v)
      BY <1>3, <1>5, <1>7, WrittenInPlace
    <3>. QED  BY <3>1 DEF IInv, KeysKept, SameKeys, SortPart
  <2>. QED  BY <2>1 DEF KeysKept, SortPart
<1>11. PartsDone'
  <2>. SUFFICES ASSUME NEW d \in Parts \ (todo \ {id})
                PROVE  Rising(A', At(d), At(d + 1))
    BY DEF PartsDone, SortPart, given, Parts, At, Size
  <2>1. CASE d = id
    BY <1>3, <1>5, <1>7, <2>1, WrittenRising DEF Written, a, b
  <2>2. CASE d # id
    <3>1. Rising(A, At(d), At(d + 1))
      BY <2>2 DEF IInv, PartsDone, SortPart
    <3>2. d \in Nat /\ d + 1 \in Nat /\ d + 1 <= p /\ (d + 1 <= id \/ id + 1 <= d)
      BY <1>2, <2>2 DEF Parts
    <3>3. At(d) \in Nat /\ At(d + 1) \in Nat /\ At(d + 1) <= Size /\ (At(d + 1) <= a \/ b <= At(d))
      BY <1>2, <3>2, Cuts DEF IInv, a, b
    <3>4. \A x \in At(d)+1..At(d+1) : A[x] = A'[x]
      BY <1>3, <1>7, <3>3 DEF Written
    <3>. QED  BY <3>1, <3>3, <3>4, RisingAlike
  <2>. QED  BY <2>1, <2>2
<1>. QED  BY <1>9, <1>10, <1>11 DEF IInv, SortPart

\* The whole array is one stretch.
LEMMA SortedWhole ==
  ASSUME NEW src \in Seq(Nat), NEW s \in SortedCopies(src)
  PROVE  /\ s \in Seq(Nat) /\ Len(s) = Len(src)
         /\ Rising(s, 0, Len(src))
         /\ \A v \in Nat : Count(s, 0, Len(src), v) = Count(src, 0, Len(src), v)
<1>1. SubSeq(src, 0 + 1, Len(src)) = src /\ Len(src) \in Nat /\ Len(src) - 0 = Len(src)
  OBVIOUS
<1>2. CopyOf(s, src, 0, Len(src))
  <2>1. s \in SortedCopies(SubSeq(src, 0 + 1, Len(src)))
    BY <1>1, Zenon
  <2>2. 0 \in Nat /\ 0 <= Len(src) /\ Len(src) <= Len(src)
    BY <1>1
  <2>. QED  BY <1>1, <2>1, <2>2, SortedCopy, Zenon
<1>. DEFINE n == Len(src)
<1>3. s \in [1..n -> Nat] /\ Len(s) = n /\ n \in Nat
  BY <1>1, <1>2 DEF CopyOf
<1>4. Rising(s, 0, n)
  BY <1>1, <1>2 DEF CopyOf, Rising
<1>5. \A v \in Nat : Count(s, 0, n, v) = Count(src, 0, n, v)
  BY <1>1, <1>2 DEF CopyOf
<1>6. s \in Seq(Nat)
  BY <1>3
<1>. QED  BY <1>3, <1>4, <1>5, <1>6

LEMMA SortShortInv ==
  ASSUME IInv, SortShort
  PROVE  IInv'
<1>1. A \in Seq(Nat) /\ Len(A) = Size
  BY DEF IInv, Shape
<1>2. A' \in Seq(Nat) /\ Len(A') = Len(A)
  BY <1>1, SortedWhole DEF SortShort
<1>3. Shape'
  BY <1>1, <1>2 DEF SortShort, IInv, Shape, Size, given
<1>. QED  BY <1>3 DEF SortShort, IInv, AtEntry, KeysKept, PartsDone

LEMMA DivideInv ==
  ASSUME IInv, Divide
  PROVE  IInv'
<1>1. Shape' /\ AtEntry'
  BY DEF Divide, IInv, Shape, AtEntry, Size, given
<1>2. SameKeys(A)'
  BY DEF Divide, IInv, KeysKept, SameKeys, Size, given
<1>3. phase' = "parts" /\ (Parts \ todo)' = {}
  BY DEF Divide, Parts, given
<1>4. KeysKept'
  BY <1>2, <1>3 DEF KeysKept
<1>5. PartsDone'
  BY <1>3 DEF PartsDone
<1>. QED  BY <1>1, <1>3, <1>4, <1>5 DEF IInv

\* The parts are the runs of the first round, and if there is only one the
\* array is in order.
LEMMA PartsSortedInv ==
  ASSUME IInv, PartsSorted
  PROVE  IInv'
<1>1. j = 1 /\ i = 0 /\ inA = TRUE /\ Source = A /\ Target = B
  BY DEF IInv, AtEntry, PartsSorted, Source, Target
<1>2. Source' = A /\ Target' = B
  BY <1>1 DEF PartsSorted, Source, Target
<1>3. p \in Nat \ {0}
  BY DEF IInv, Shape
<1>4. Shape'
  BY DEF PartsSorted, IInv, Shape, Size, given
<1>5. phase' \in {"round", "back"}
  BY DEF PartsSorted, NextPhase
<1>6. AtEntry' /\ PartsDone'
  BY <1>5 DEF AtEntry, PartsDone
<1>7. A \in Seq(Nat) /\ SameKeys(A)
  BY DEF IInv, Shape, KeysKept, PartsSorted
<1>8. KeysKept'
  BY <1>2, <1>5, <1>7 DEF KeysKept, SameKeys, Size, PartsSorted, given
<1>9. \A f \in 0..p-1 : Rising(A, At(f), At(f + 1))
  BY DEF IInv, PartsDone, PartsSorted, Parts
<1>10. ASSUME phase' = "round"
       PROVE  RunsLeft' /\ RunsMade'
  <2>1. RunsLeft'
    <3>1. 0 % (2*1) = 0
      OBVIOUS
    <3>2. \A f \in 0..p-1 : Least(f + 1, p) = f + 1
      BY <1>3 DEF Least
    <3>. QED  BY <1>1, <1>2, <1>9, <3>1, <3>2 DEF RunsLeft, PartsSorted, given, At, Size
  <2>2. RunsMade'
    <3>1. At(Least(0, p)) = 0
      BY <1>3, Cuts DEF Least, IInv
    <3>2. \A v \in Nat : Count(B, 0, 0, v) = Count(A, 0, 0, v)
      BY CountAlike
    <3>3. At(Least(i, p))' = 0
      BY <1>1, <3>1 DEF PartsSorted, given, At, Size
    <3>. QED  BY <1>1, <1>2, <1>3, <3>2, <3>3 DEF RunsMade, PartsSorted, given
  <2>. QED  BY <2>1, <2>2
<1>11. ASSUME phase' = "back"
       PROVE  Rising(Source, 0, Size)'
  <2>1. p = 1
    BY <1>1, <1>3, <1>11 DEF PartsSorted, NextPhase
  <2>2. Rising(A, At(0), At(1)) /\ At(0) = 0 /\ At(1) = Size
    BY <1>9, <2>1, Cuts DEF IInv
  <2>. QED  BY <1>2, <2>2 DEF PartsSorted, given, Size
<1>. QED  BY <1>4, <1>6, <1>8, <1>10, <1>11 DEF IInv

\* What the round leaves for the pair at part i is a copy of it, in order.
LEMMA RunPairCopies ==
  ASSUME IInv, phase = "round", i < p, NEW s \in RunPair
  PROVE  CopyOf(s, Source, At(i), At(PairEnd))
<1>. DEFINE a == At(i)  m == At(i + j)  b == At(PairEnd)
<1>1. i \in Nat /\ j \in Nat \ {0} /\ p \in Nat
  BY DEF IInv, Shape
<1>2. PairEnd \in Nat /\ PairEnd <= p /\ i <= PairEnd
  BY <1>1 DEF PairEnd
<1>3. a \in Nat /\ b \in Nat /\ a <= b /\ b <= Size /\ Size \in Nat
      /\ splitAt(i) = a /\ splitAt(PairEnd) = b
  BY <1>1, <1>2, Cuts DEF IInv
<1>4. Source \in Seq(Nat) /\ Len(Source) = Size
  BY DEF IInv, KeysKept, Source, Shape
<1>5. CASE i + j < p
  <2>1. m \in Nat /\ a <= m /\ m <= b /\ splitAt(i + j) = m
    <3>1. i + j \in Nat /\ i <= i + j /\ i + j <= PairEnd
      BY <1>1, <1>5 DEF PairEnd
    <3>. QED  BY <1>1, <1>2, <3>1, Cuts DEF IInv
  <2>2. s \in SortedCopies(SubSeq(Source, a + 1, m) \o SubSeq(Source, m + 1, b))
    BY <1>3, <1>5, <2>1 DEF RunPair, Slice
  <2>. HIDE DEF a, b, m
  <2>3. SubSeq(Source, a + 1, m) \o SubSeq(Source, m + 1, b) = SubSeq(Source, a + 1, b)
    <3>1. a + 1 \in 1..Len(Source)+1 /\ m \in (a+1)-1..Len(Source) /\ b \in m..Len(Source)
      BY <1>3, <1>4, <2>1
    <3>. QED  BY <1>4, <3>1, ConcatAdjacentSubSeq
  <2>4. CopyOf(s, Source, a, b)
    BY <1>3, <1>4, <2>2, <2>3, SortedCopy
  <2>. QED  BY <2>4 DEF a, b
<1>6. CASE ~ (i + j < p)
  <2>1. PairEnd = p /\ Least(i + j, p) = p
    BY <1>1, <1>6 DEF PairEnd, Least
  <2>2. s = SubSeq(Source, a + 1, b)
    BY <1>3, <1>6, <2>1 DEF RunPair, Slice
  <2>3. Rising(Source, a, b)
    <3>1. i % j = 0
      BY <1>1, MultipleOfTwice DEF IInv, RunsLeft
    <3>. QED  BY <1>1, <2>1, <3>1 DEF IInv, RunsLeft
  <2>. HIDE DEF a, b
  <2>4. s \in Seq(Nat) /\ Len(s) = b - a /\ \A k \in 1..b-a : s[k] = Source[a + k]
    BY <1>3, <1>4, <2>2
  <2>5. \A k \in 1..b-a-1 : s[k] <= s[k+1]
    <3>. SUFFICES ASSUME NEW k \in 1..b-a-1 PROVE s[k] <= s[k+1]
      OBVIOUS
    <3>1. k \in 1..b-a /\ k + 1 \in 1..b-a /\ a + k \in a+1..b-1 /\ a + (k + 1) = (a + k) + 1
      BY <1>3
    <3>. QED  BY <2>3, <2>4, <3>1 DEF Rising
  <2>6. LiesIn(s, Source, a, b)
    BY <1>3, <2>4 DEF LiesIn
  <2>7. \A v \in Nat : Count(s, 0, b - a, v) = Count(Source, a, b, v)
    BY <1>3, <2>6, CountPlaced
  <2>8. CopyOf(s, Source, a, b)
    BY <1>3, <2>4, <2>5, <2>7 DEF CopyOf
  <2>. QED  BY <2>8 DEF a, b
<1>. QED  BY <1>5, <1>6

LEMMA MergePairInv ==
  ASSUME IInv, MergePair
  PROVE  IInv'
<1>. DEFINE a == At(i)  b == At(PairEnd)
<1>1. PICK s \in RunPair : /\ A' = IF inA THEN A ELSE Write(A, i, s)
                           /\ B' = IF inA THEN Write(B, i, s) ELSE B
  BY DEF MergePair
<1>2. /\ phase = "round" /\ phase' = "round" /\ i < p /\ i' = i + 2*j
      /\ input' = input /\ p' = p /\ inA' = inA /\ j' = j
  BY DEF MergePair, given
<1>3. i \in Nat /\ j \in Nat \ {0} /\ p \in Nat \ {0} /\ inA \in BOOLEAN
  BY DEF IInv, Shape
<1>4. PairEnd \in Nat /\ PairEnd <= p /\ i <= PairEnd
      /\ Least(i, p) = i /\ Least(i + 2*j, p) = PairEnd
  BY <1>2, <1>3 DEF PairEnd, Least
<1>5. /\ a \in Nat /\ b \in Nat /\ a <= b /\ b <= Size /\ Size \in Nat
      /\ splitAt(i) = a /\ splitAt(PairEnd) = b
  BY <1>3, <1>4, Cuts DEF IInv
<1>6. CopyOf(s, Source, a, b)
  BY <1>2, RunPairCopies
<1>7. Source' = Source /\ Target' = Write(Target, i, s)
  BY <1>1, <1>2, <1>3 DEF Source, Target
<1>8. Target \in Seq(Nat \cup {Unset}) /\ Len(Target) = Size
  BY DEF IInv, Shape, Target
<1>. HIDE DEF a, b
<1>9. Target' = [k \in 1..Size |-> IF k \in a+1..b THEN s[k - a] ELSE Target[k]]
  <2>1. a + Len(s) = b
    BY <1>5, <1>6 DEF CopyOf
  <2>2. DOMAIN Target = 1..Size
    BY <1>8
  <2>. QED  BY <1>5, <1>7, <2>1, <2>2 DEF Write
<1>10. Written(Target', Target, Size, s, a, b)
  BY <1>5, <1>9 DEF Written, LiesIn
<1>11. \A k \in a+1..b : s[k - a] \in Nat /\ Target'[k] \in Nat
  BY <1>5, <1>6, <1>9 DEF CopyOf
<1>12. Target' \in Seq(Nat \cup {Unset}) /\ Len(Target') = Size
  <2>1. \A k \in 1..Size : Target[k] \in Nat \cup {Unset}
    BY <1>8
  <2>2. \A k \in 1..Size : Target'[k] \in Nat \cup {Unset}
    BY <1>9, <1>11, <2>1
  <2>3. Target' \in [1..Size -> Nat \cup {Unset}]
    BY <1>9, <2>2
  <2>. QED  BY <1>5, <2>3
<1>13. Shape'
  <2>1. CASE inA
    <3>1. A' = A /\ B' = Target'
      BY <1>1, <1>2, <2>1 DEF Target
    <3>. QED  BY <1>2, <1>12, <3>1 DEF IInv, Shape, Size
  <2>2. CASE ~inA
    <3>1. A' = Target' /\ B' = B
      BY <1>1, <1>2, <2>2 DEF Target
    <3>2. Target \in Seq(Nat)
      BY <2>2 DEF IInv, Shape, Target
    <3>3. \A k \in 1..Size : Target[k] \in Nat
      BY <1>8, <3>2
    <3>4. \A k \in 1..Size : Target'[k] \in Nat
      BY <1>9, <1>11, <3>3
    <3>5. Target' \in [1..Size -> Nat]
      BY <1>9, <3>4
    <3>6. Target' \in Seq(Nat)
      BY <1>5, <3>5
    <3>. QED  BY <1>2, <1>12, <3>1, <3>6 DEF IInv, Shape, Size
  <2>. QED  BY <1>3, <2>1, <2>2
<1>14. AtEntry' /\ PartsDone'
  BY <1>2 DEF AtEntry, PartsDone
<1>15. KeysKept'
  BY <1>2, <1>7 DEF IInv, KeysKept, SameKeys, Size
<1>16. i % (2*j) = 0 /\ (i + 2*j) % (2*j) = 0 /\ 2*j \in Nat \ {0}
  <2>1. i % (2*j) = 0
    BY <1>2 DEF IInv, RunsLeft
  <2>2. \A w \in Nat \ {0} : \A f \in Nat : f % (2*w) = 0 => (f + 2*w) % (2*w) = 0
    BY MultipleOfTwice
  <2>3. (i + 2*j) % (2*j) = 0
    BY <1>3, <2>1, <2>2
  <2>4. 2*j \in Nat \ {0}
    BY <1>3
  <2>. QED  BY <2>1, <2>3, <2>4
<1>17. RunsLeft'
  <2>1. ASSUME NEW f \in i + 2*j..p-1, f % j = 0
        PROVE  Rising(Source, At(f), At(Least(f + j, p)))
    <3>1. f \in i..p-1
      BY <1>3
    <3>. QED  BY <1>2, <2>1, <3>1 DEF IInv, RunsLeft
  <2>. QED  BY <1>2, <1>7, <1>16, <2>1 DEF RunsLeft, At, Size
<1>18. RunsMade'
  <2>1. ASSUME NEW x \in 1..b PROVE Target'[x] \in Nat
    <3>1. CASE x \in a+1..b
      BY <1>11, <3>1
    <3>2. CASE x \notin a+1..b
      <4>1. x \in 1..a /\ x \in 1..Size
        BY <1>5, <3>2
      <4>2. Target'[x] = Target[x]
        BY <1>10, <3>2, <4>1 DEF Written
      <4>. QED  BY <1>2, <1>4, <4>1, <4>2 DEF IInv, RunsMade, a
    <3>. QED  BY <3>1, <3>2
  <2>2. ASSUME NEW v \in Nat PROVE Count(Target', 0, b, v) = Count(Source, 0, b, v)
    <3>1. Count(Target', 0, a, v) = Count(Target, 0, a, v)
          /\ Count(Target', a, b, v) = Count(Source, a, b, v)
      BY <1>5, <1>6, <1>10, WrittenCounts
    <3>2. Count(Target, 0, a, v) = Count(Source, 0, a, v)
      BY <1>2, <1>4 DEF IInv, RunsMade, a
    <3>3. 0 \in Nat /\ 0 <= a
      BY <1>5
    <3>4. /\ Count(Target', 0, b, v) = Count(Target', 0, a, v) + Count(Target', a, b, v)
          /\ Count(Source, 0, b, v) = Count(Source, 0, a, v) + Count(Source, a, b, v)
      BY <1>5, <3>3, CountSplit
    <3>. QED  BY <3>1, <3>2, <3>4, Zenon
  <2>3. ASSUME NEW f \in 0..p-1, f < i + 2*j, f % (2*j) = 0
        PROVE  Rising(Target', At(f), At(Least(f + 2*j, p)))
    <3>1. CASE f < i
      <4>1. Rising(Target, At(f), At(Least(f + 2*j, p)))
        BY <1>2, <2>3, <3>1 DEF IInv, RunsMade
      <4>2. f + 2*j <= i
        BY <1>3, <1>16, <2>3, <3>1, MultipleStep
      <4>3. Least(f + 2*j, p) \in Nat /\ Least(f + 2*j, p) <= i
        BY <1>3, <4>2 DEF Least
      <4>4. At(f) \in Nat /\ At(Least(f + 2*j, p)) \in Nat /\ At(Least(f + 2*j, p)) <= a
        BY <1>3, <4>3, Cuts DEF IInv, a
      <4>5. \A x \in At(f)+1..At(Least(f + 2*j, p)) : Target[x] = Target'[x]
        BY <1>5, <1>10, <4>4 DEF Written
      <4>. QED  BY <4>1, <4>4, <4>5, RisingAlike
    <3>2. CASE ~ (f < i)
      <4>1. f = i
        <5>1. CASE i < f
          <6>1. f \in Nat
            BY <1>3
          <6>2. i + 2*j <= f
            BY <1>3, <1>16, <2>3, <5>1, <6>1, MultipleStep
          <6>. QED  BY <1>3, <2>3, <6>1, <6>2
        <5>. QED  BY <1>3, <3>2, <5>1
      <4>2. Rising(Target', a, b)
        BY <1>5, <1>6, <1>10, WrittenRising DEF Written
      <4>. QED  BY <1>4, <4>1, <4>2 DEF a, b
    <3>. QED  BY <3>1, <3>2
  <2>4. At(Least(i, p))' = b /\ \A f \in 0..p-1 : At(f)' = At(f) /\ At(Least(f + 2*j, p))' = At(Least(f + 2*j, p))
    BY <1>2, <1>4 DEF At, Size, b
  <2>. QED  BY <1>2, <1>7, <2>1, <2>2, <2>3, <2>4 DEF RunsMade, At, Size
<1>. QED  BY <1>2, <1>13, <1>14, <1>15, <1>17, <1>18 DEF IInv

\* When a round is over the target has all the keys, in runs of 2j parts.
LEMMA SwapBuffersInv ==
  ASSUME IInv, SwapBuffers
  PROVE  IInv'
<1>1. /\ phase = "round" /\ i >= p /\ i' = 0 /\ j' = 2*j /\ inA' = ~inA
      /\ phase' = NextPhase(2*j) /\ A' = A /\ B' = B /\ input' = input /\ p' = p
  BY DEF SwapBuffers, given
<1>2. i \in Nat /\ j \in Nat \ {0} /\ 2*j \in Nat \ {0} /\ p \in Nat \ {0} /\ inA \in BOOLEAN
  BY DEF IInv, Shape
<1>3. Source' = Target /\ Target' = Source
  BY <1>1, <1>2 DEF Source, Target
<1>4. Least(i, p) = p /\ At(p) = Size /\ At(0) = 0 /\ Size \in Nat
  BY <1>1, <1>2, Cuts DEF Least, IInv
<1>5. Target \in Seq(Nat)
  <2>1. Target \in Seq(Nat \cup {Unset}) /\ Len(Target) = Size
    BY DEF IInv, Shape, Target
  <2>2. \A x \in 1..Size : Target[x] \in Nat
    BY <1>1, <1>4 DEF IInv, RunsMade
  <2>3. Target \in [1..Size -> Nat]
    BY <2>1, <2>2
  <2>. QED  BY <1>4, <2>3
<1>6. SameKeys(Target)
  BY <1>1, <1>4 DEF IInv, RunsMade, KeysKept, SameKeys
<1>7. phase' \in {"round", "back"}
  BY <1>1 DEF NextPhase
<1>8. Shape'
  BY <1>1, <1>2 DEF IInv, Shape, Size
<1>9. AtEntry' /\ PartsDone'
  BY <1>7 DEF AtEntry, PartsDone
<1>10. KeysKept'
  BY <1>1, <1>3, <1>5, <1>6, <1>7 DEF KeysKept, SameKeys, Size
<1>11. \A f \in 0..p-1 : f % (2*j) = 0 => Rising(Target, At(f), At(Least(f + 2*j, p)))
  <2>1. \A f \in 0..p-1 : f < i
    BY <1>1, <1>2
  <2>. QED  BY <1>1, <2>1 DEF IInv, RunsMade
<1>12. \A w \in Nat \ {0} : 0 % w = 0
  BY Multiple
<1>13. ASSUME phase' = "round"
       PROVE  RunsLeft' /\ RunsMade'
  <2>1. RunsLeft'
    <3>1. 0 % (2*(2*j)) = 0
      BY <1>2, <1>12
    <3>. QED  BY <1>1, <1>3, <1>11, <3>1 DEF RunsLeft, At, Size
  <2>2. RunsMade'
    <3>1. At(Least(i, p))' = 0
      BY <1>1, <1>2, <1>4 DEF Least, At, Size
    <3>2. \A v \in Nat : Count(Source, 0, 0, v) = Count(Target, 0, 0, v)
      BY CountAlike
    <3>. QED  BY <1>1, <1>2, <1>3, <3>1, <3>2 DEF RunsMade
  <2>. QED  BY <2>1, <2>2
<1>14. ASSUME phase' = "back"
       PROVE  Rising(Source, 0, Size)'
  <2>1. ~ (2*j < p)
    BY <1>1, <1>14 DEF NextPhase
  <2>2. 0 \in 0..p-1 /\ 0 % (2*j) = 0 /\ Least(0 + 2*j, p) = p
    BY <1>2, <1>12, <2>1 DEF Least
  <2>3. Rising(Target, 0, Size)
    BY <1>4, <1>11, <2>2
  <2>. QED  BY <1>1, <1>3, <2>3 DEF Size
<1>. QED  BY <1>8, <1>9, <1>10, <1>13, <1>14 DEF IInv

LEMMA CopyBackInv ==
  ASSUME IInv, CopyBack
  PROVE  IInv'
<1>1. A' = Source
  BY DEF CopyBack, Source
<1>2. Source \in Seq(Nat) /\ Len(Source) = Size
  BY DEF IInv, KeysKept, Shape, CopyBack, Source
<1>3. Shape'
  BY <1>1, <1>2 DEF CopyBack, IInv, Shape, Size, given
<1>. QED  BY <1>3 DEF CopyBack, IInv, AtEntry, KeysKept, PartsDone

LEMMA NextInv ==
  ASSUME IInv, [Next]_vars
  PROVE  IInv'
<1>1. CASE SortShort  BY <1>1, SortShortInv
<1>2. CASE Divide  BY <1>2, DivideInv
<1>3. CASE \E id \in Parts : SortPart(id)  BY <1>3, SortPartInv
<1>4. CASE PartsSorted  BY <1>4, PartsSortedInv
<1>5. CASE MergePair  BY <1>5, MergePairInv
<1>6. CASE SwapBuffers  BY <1>6, SwapBuffersInv
<1>7. CASE CopyBack  BY <1>7, CopyBackInv
<1>8. CASE UNCHANGED vars
  BY <1>8 DEF vars, given, IInv, Shape, AtEntry, KeysKept, PartsDone, RunsLeft, RunsMade,
              SameKeys, At, Size, Source, Target, Parts
<1>. QED  BY <1>1, <1>2, <1>3, <1>4, <1>5, <1>6, <1>7, <1>8 DEF Next, Returned

\* IInv holds in every reachable state of merge_sort.
THEOREM Invariance ==
  ASSUME ParametersOK
  PROVE  Init /\ [][Next]_vars => []IInv
BY InitInv, NextInv, PTL

\* In every round of merge_sort, for every number of threads and every array,
\* the runs still to be merged are in order and hold no unwritten memory: what
\* omp_par::merge demands of its arguments.
THEOREM RunsAlwaysReady ==
  ASSUME ParametersOK
  PROVE  Init /\ [][Next]_vars => []RunsReady
<1>1. ASSUME IInv PROVE RunsReady
  <2>. SUFFICES ASSUME phase = "round", NEW f \in i..p-1, f % j = 0
                PROVE  LET run == Slice(Source, f, IF f + j <= p THEN f + j ELSE p)
                       IN  /\ \A k \in 1..Len(run) - 1 : run[k] <= run[k+1]
                           /\ \A k \in 1..Len(run) : run[k] # Unset
    BY DEF RunsReady
  <2>. DEFINE g == Least(f + j, p)  a == At(f)  b == At(g)
              run == SubSeq(Source, a + 1, b)
  <2>1. f \in Nat /\ g \in Nat /\ f <= g /\ g <= p /\ p \in Nat
    BY <1>1 DEF IInv, Shape, Least
  <2>2. a \in Nat /\ b \in Nat /\ a <= b /\ b <= Size /\ splitAt(f) = a /\ splitAt(g) = b
    BY <1>1, <2>1, Cuts DEF IInv
  <2>3. Source \in Seq(Nat) /\ Len(Source) = Size
    BY <1>1 DEF IInv, KeysKept, Source, Shape
  <2>4. Rising(Source, a, b)
    BY <1>1 DEF IInv, RunsLeft
  <2>5. Slice(Source, f, IF f + j <= p THEN f + j ELSE p) = run
    BY <2>2 DEF Slice, Least
  <2>. HIDE DEF a, b, g
  <2>6. Len(run) = b - a /\ \A k \in 1..b-a : run[k] = Source[a + k] /\ run[k] \in Nat
    BY <2>2, <2>3
  <2>7. ASSUME NEW k \in 1..b-a-1 PROVE run[k] <= run[k+1]
    <3>1. k \in 1..b-a /\ k + 1 \in 1..b-a /\ a + k \in a+1..b-1 /\ a + (k + 1) = (a + k) + 1
      BY <2>2
    <3>. QED  BY <2>4, <2>6, <3>1 DEF Rising
  <2>. HIDE DEF run
  <2>8. \A k \in 1..b-a : run[k] # Unset
    <3>1. \A v \in Nat : v # Unset
      BY DEF Unset
    <3>. QED  BY <2>6, <3>1
  <2>. QED  BY <2>5, <2>6, <2>7, <2>8
<1>. QED  BY <1>1, Invariance, PTL

----------------------------------------------------------------------------
(* The sort *)

LEMMA SameCardinality ==
  ASSUME NEW S
  PROVE  Abstract!Cardinality(S) = Cardinality(S)
BY Zenon DEF Abstract!Cardinality, Cardinality

LEMMA SortedPermutationOf ==
  ASSUME NEW s \in Seq(Nat), NEW t \in Seq(Nat), Len(s) = Len(t),
         Rising(t, 0, Len(s)),
         \A v \in Nat : Count(t, 0, Len(s), v) = Count(s, 0, Len(s), v)
  PROVE  Abstract!SortedPermutation(s, t)
<1>1. DOMAIN s = 1..Len(s) /\ DOMAIN t = 1..Len(s) /\ Len(s) \in Nat
  OBVIOUS
<1>2. Abstract!Ordered(t)
  BY <1>1 DEF Abstract!Ordered, Rising
<1>3. \A v \in Nat : Abstract!Occurrences(s, v) = Count(s, 0, Len(s), v)
                     /\ Abstract!Occurrences(t, v) = Count(t, 0, Len(s), v)
  <2>. SUFFICES ASSUME NEW v \in Nat
                PROVE  Abstract!Occurrences(s, v) = Count(s, 0, Len(s), v)
                       /\ Abstract!Occurrences(t, v) = Count(t, 0, Len(s), v)
    OBVIOUS
  <2>1. Abstract!Occurrences(s, v) = Cardinality({k \in DOMAIN s : s[k] = v})
        /\ Abstract!Occurrences(t, v) = Cardinality({k \in DOMAIN t : t[k] = v})
    BY SameCardinality DEF Abstract!Occurrences
  <2>2. DOMAIN s = 0+1..Len(s) /\ DOMAIN t = 0+1..Len(s)
    BY <1>1
  <2>. QED  BY <2>1, <2>2 DEF Count
<1>4. \A k \in DOMAIN s : s[k] \in Nat
  OBVIOUS
<1>. QED  BY <1>2, <1>3, <1>4 DEF Abstract!SortedPermutation

\* merge_sort, for every number of threads and every array, does what a sort
\* promises: the array it leaves when it returns is in order and has each key
\* as often as the array it was given.  (That it returns is checked by TLC.)
THEOREM SortsWhenItReturns ==
  ASSUME ParametersOK
  PROVE  Init /\ [][Next]_vars => Abstract!Steps
<1>. DEFINE output == IF phase = "done" THEN A ELSE <<>>
            done == phase = "done"
<1>1. ASSUME Init PROVE Abstract!Init
  BY <1>1 DEF Init, Abstract!Init
<1>2. ASSUME IInv, [Next]_vars PROVE [Abstract!Sort]_(Abstract!vars)
  <2>1. ASSUME phase # "done", phase' = "done", input' = input,
               Len(A') = Size, A' \in Seq(Nat), Rising(A', 0, Size),
               \A v \in Nat : Count(A', 0, Size, v) = Count(input, 0, Size, v)
        PROVE  Abstract!Sort
    <3>1. input \in Seq(Nat)
      BY <1>2 DEF IInv, Shape
    <3>2. Abstract!SortedPermutation(input, A')
      BY <2>1, <3>1, SortedPermutationOf DEF Size
    <3>. QED  BY <2>1, <3>2 DEF Abstract!Sort
  <2>2. CASE SortShort
    <3>1. A \in Seq(Nat) /\ Len(A) = Size /\ SameKeys(A)
      BY <1>2, <2>2 DEF IInv, Shape, KeysKept, SortShort
    <3>2. A' \in SortedCopies(A)
      BY <2>2 DEF SortShort
    <3>3. /\ A' \in Seq(Nat) /\ Len(A') = Size /\ Rising(A', 0, Size)
          /\ \A v \in Nat : Count(A', 0, Size, v) = Count(A, 0, Size, v)
      BY <3>1, <3>2, SortedWhole
    <3>. QED  BY <2>1, <2>2, <3>1, <3>3 DEF SortShort, SameKeys, given
  <2>3. CASE CopyBack
    <3>1. A' = Source
      BY <2>3 DEF CopyBack, Source
    <3>2. Source \in Seq(Nat) /\ Len(Source) = Size /\ SameKeys(Source) /\ Rising(Source, 0, Size)
      BY <1>2, <2>3 DEF IInv, KeysKept, Shape, CopyBack, Source
    <3>. QED  BY <2>1, <2>3, <3>1, <3>2 DEF CopyBack, SameKeys, given
  <2>4. CASE ~SortShort /\ ~CopyBack
    <3>1. phase # "done" => phase' # "done"
      BY <1>2, <2>4 DEF Next, Divide, SortPart, PartsSorted, MergePair, SwapBuffers, Returned,
                        NextPhase, vars
    <3>2. phase = "done" => UNCHANGED vars
      BY <1>2, <2>4 DEF Next, Divide, SortPart, PartsSorted, MergePair, SwapBuffers, Returned
    <3>3. input' = input
      BY <1>2, <2>4 DEF Next, Divide, SortPart, PartsSorted, MergePair, SwapBuffers, Returned,
                        vars, given
    <3>4. UNCHANGED <<input, output, done>>
      BY <3>1, <3>2, <3>3 DEF vars
    <3>. QED  BY <3>4 DEF Abstract!vars
  <2>. QED  BY <2>2, <2>3, <2>4
<1>. QED  BY <1>1, <1>2, Invariance, PTL DEF Abstract!Steps
=============================================================================
