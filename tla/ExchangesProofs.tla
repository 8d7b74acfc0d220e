--------------------------- MODULE ExchangesProofs ---------------------------
(***************************************************************************)
(* For every number of processes and all counts: the messages of the two   *)
(* all-to-all exchanges are what their receivers expect, the segments of a *)
(* dense exchange hold what is for their destination, nothing twice, and a *)
(* process that returns from either has what all have sent it.             *)
(*                                                                         *)
(* Of the dense exchange five things are shown, in this order.  A buffer   *)
(* is its segments: cutting it, sending a part and joining what arrives    *)
(* moves whole segments.  The ranges are the nodes of a binary tree: two   *)
(* of them are apart or one is within a half of the other, and one chain   *)
(* of halves leads to each.  In the round of a range a process sends what  *)
(* it has for the other half to one partner, so the blocks of a sender are *)
(* with one process of every range at a time (Carried), and two buffers    *)
(* that meet have no word in common, while together they have the blocks   *)
(* of all (Full).  How many messages the two ends of a channel have sent   *)
(* and taken in the round of a range says which are between them (Channel),*)
(* as each follows the same six labels.  And a process left with its own   *)
(* segment finds in it a block of every sender, to copy each to its place. *)
(***************************************************************************)
EXTENDS Exchanges, FunctionTheorems, FiniteSetTheorems, SequenceTheorems, WellFoundedInduction, TLAPS

\* Numbers have a least one.
LEMMA LeastNatural ==
  ASSUME NEW T, T \subseteq Nat, T # {}
  PROVE  \E m \in T : \A k \in T : m <= k
<1>1. PICK m \in T : \A k \in T : ~ (<<k, m>> \in OpToRel(<, Nat))
  BY NatLessThanWellFounded, WFMin
<1>2. \A k \in T : ~ (k < m)
  BY <1>1 DEF OpToRel
<1> QED BY <1>2

\* f adds up the first n counts
Sums(counts, n, f) == f = [i \in 0..n |-> IF i = 0 THEN 0 ELSE f[i-1] + counts[i]]

LEMMA SumsExist ==
  ASSUME NEW n \in Nat, NEW counts, \A i \in 1..n : counts[i] \in Nat
  PROVE  \E f : Sums(counts, n, f)
<1> DEFINE OK(m) == \E f : Sums(counts, m, f) /\ f \in [0..m -> Nat]
           Bad == {m \in 0..n : ~ OK(m)}
<1>1. OK(0)
  <2> DEFINE f == [i \in 0..0 |-> 0]
  <2>1. f = [i \in 0..0 |-> IF i = 0 THEN 0 ELSE f[i-1] + counts[i]]
    OBVIOUS
  <2>2. f \in [0..0 -> Nat]
    OBVIOUS
  <2> HIDE DEF f
  <2> QED BY <2>1, <2>2 DEF Sums
<1>2. ASSUME NEW m \in 0..n-1, OK(m) PROVE OK(m+1)
  <2>1. PICK f : Sums(counts, m, f) /\ f \in [0..m -> Nat]
    BY <1>2
  <2>2. f = [i \in 0..m |-> IF i = 0 THEN 0 ELSE f[i-1] + counts[i]]
    BY <2>1 DEF Sums
  <2> DEFINE g == [i \in 0..m+1 |-> IF i = m+1 THEN f[m] + counts[m+1] ELSE f[i]]
  <2>3. g \in [0..m+1 -> Nat]
    BY <2>1
  <2>4. ASSUME NEW i \in 0..m+1 PROVE g[i] = IF i = 0 THEN 0 ELSE g[i-1] + counts[i]
    <3>1. CASE i = m + 1
      BY <3>1
    <3>2. CASE i # m + 1
      <4>1. i \in 0..m /\ g[i] = f[i] /\ (i # 0 => i - 1 \in 0..m+1 /\ i - 1 # m + 1 /\ g[i-1] = f[i-1])
        BY <3>2
      <4>2. f[i] = IF i = 0 THEN 0 ELSE f[i-1] + counts[i]
        BY <2>2, <4>1
      <4> QED BY <4>1, <4>2
    <3> QED BY <3>1, <3>2
  <2>5. DOMAIN g = 0..m+1
    OBVIOUS
  <2>6. g = [i \in 0..m+1 |-> g[i]]
    OBVIOUS
  <2> HIDE DEF g
  <2>7. g = [i \in 0..m+1 |-> IF i = 0 THEN 0 ELSE g[i-1] + counts[i]]
    BY <2>4, <2>6
  <2> QED BY <2>3, <2>7 DEF Sums
<1> HIDE DEF OK
<1>3. Bad = {}
  <2> SUFFICES ASSUME Bad # {} PROVE FALSE
    OBVIOUS
  <2>1. PICK m \in Bad : \A x \in Bad : m <= x
    <3>1. Bad \subseteq Nat
      OBVIOUS
    <3> HIDE DEF Bad
    <3> QED BY <3>1, LeastNatural
  <2>2. m \in 0..n /\ ~ OK(m) /\ m # 0
    BY <1>1, <2>1
  <2>3. m - 1 \in 0..n-1 /\ m - 1 \in 0..n /\ ~ (m <= m - 1) /\ (m - 1) + 1 = m
    BY <2>2
  <2>4. OK(m-1)
    BY <2>1, <2>3
  <2> QED BY <1>2, <2>2, <2>3, <2>4
<1>4. OK(n)
  BY <1>3
<1> QED BY <1>4 DEF OK

LEMMA TotalIs ==
  ASSUME NEW counts \in Seq(Nat)
  PROVE  \E f : Sums(counts, Len(counts), f) /\ Total(counts) = f[Len(counts)]
<1> DEFINE F == CHOOSE f : Sums(counts, Len(counts), f)
<1>1. \E f : Sums(counts, Len(counts), f)
  BY SumsExist
<1>2. Sums(counts, Len(counts), F)
  BY <1>1, Zenon
<1>3. Total(counts) = F[Len(counts)]
  BY Zenon DEF Total, Sums
<1> QED BY <1>2, <1>3

\* f adds up the counts, from none of them to all
Partial(counts, f) ==
  /\ f \in [0..Len(counts) -> Nat]
  /\ f[0] = 0
  /\ \A i \in 1..Len(counts) : f[i] = f[i-1] + counts[i]

\* What adds up the counts ends with their total.
LEMMA TotalBy ==
  ASSUME NEW counts \in Seq(Nat), NEW h, h[0] = 0,
         \A i \in 1..Len(counts) : h[i] = h[i-1] + counts[i]
  PROVE  Total(counts) = h[Len(counts)]
<1> DEFINE n == Len(counts)
<1>1. n \in Nat
  OBVIOUS
<1>2. PICK f : Sums(counts, n, f) /\ Total(counts) = f[n]
  BY TotalIs
<1> HIDE DEF n
<1>3. \A i \in 0..n : f[i] = IF i = 0 THEN 0 ELSE f[i-1] + counts[i]
  BY <1>2 DEF Sums
<1>4. \A i \in 1..n : h[i] = h[i-1] + counts[i]
  BY DEF n
<1> DEFINE Bad == {i \in 0..n : f[i] # h[i]}
<1>5. Bad = {}
  <2> SUFFICES ASSUME Bad # {} PROVE FALSE
    OBVIOUS
  <2>1. PICK m \in Bad : \A x \in Bad : m <= x
    <3>1. Bad \subseteq Nat
      BY <1>1
    <3> HIDE DEF Bad
    <3> QED BY <3>1, LeastNatural
  <2>2. m \in 0..n /\ f[m] # h[m] /\ m # 0
    BY <1>1, <1>3, <2>1
  <2>3. m - 1 \in 0..n /\ ~ (m <= m - 1) /\ m \in 1..n
    BY <1>1, <2>2
  <2>4. f[m-1] = h[m-1]
    BY <2>1, <2>3
  <2>5. f[m] = f[m-1] + counts[m] /\ h[m] = h[m-1] + counts[m]
    BY <1>3, <1>4, <2>2, <2>3
  <2> QED BY <2>2, <2>4, <2>5
<1>6. n \in 0..n
  BY <1>1
<1>7. f[n] = h[n]
  BY <1>5, <1>6
<1> QED BY <1>2, <1>7 DEF n

\* There is a function that adds them up, and it gives the totals of the first
\* counts.
LEMMA PartialIs ==
  ASSUME NEW counts \in Seq(Nat)
  PROVE  \E f : /\ Partial(counts, f)
                /\ \A n \in 0..Len(counts) : Total(SubSeq(counts, 1, n)) = f[n]
                /\ Total(counts) = f[Len(counts)]
<1> DEFINE N == Len(counts)
<1>1. N \in Nat /\ \A i \in 1..N : counts[i] \in Nat
  OBVIOUS
<1>2. PICK f : Sums(counts, N, f)
  BY TotalIs
<1> HIDE DEF N
<1>3. \A i \in 0..N : f[i] = IF i = 0 THEN 0 ELSE f[i-1] + counts[i]
  BY <1>2 DEF Sums
<1>4. f[0] = 0 /\ \A i \in 1..N : f[i] = f[i-1] + counts[i]
  BY <1>1, <1>3
<1> DEFINE Bad == {i \in 0..N : f[i] \notin Nat}
<1>5. Bad = {}
  <2> SUFFICES ASSUME Bad # {} PROVE FALSE
    OBVIOUS
  <2>1. PICK m \in Bad : \A x \in Bad : m <= x
    <3>1. Bad \subseteq Nat
      BY <1>1
    <3> HIDE DEF Bad
    <3> QED BY <3>1, LeastNatural
  <2>2. m \in 0..N /\ f[m] \notin Nat /\ m # 0
    BY <1>4, <2>1
  <2>3. m - 1 \in 0..N /\ ~ (m <= m - 1) /\ m \in 1..N
    BY <1>1, <2>2
  <2>4. f[m-1] \in Nat
    BY <2>1, <2>3
  <2>5. f[m] = f[m-1] + counts[m] /\ counts[m] \in Nat
    BY <1>1, <1>4, <2>3, Zenon
  <2>6. f[m] \in Nat
    BY <2>4, <2>5
  <2> QED BY <2>2, <2>6
<1>6. f \in [0..N -> Nat]
  <2>1. f = [i \in 0..N |-> IF i = 0 THEN 0 ELSE f[i-1] + counts[i]]
    BY <1>2 DEF Sums
  <2>2. DOMAIN f = 0..N
    BY <2>1
  <2>3. \A i \in 0..N : f[i] \in Nat
    BY <1>5
  <2>4. f = [i \in 0..N |-> f[i]]
    BY <2>1, <2>2
  <2> QED BY <2>3, <2>4
<1>7. Partial(counts, f)
  BY <1>4, <1>6 DEF Partial, N
<1>8. Total(counts) = f[Len(counts)]
  BY <1>4, TotalBy DEF N
<1>9. ASSUME NEW n \in 0..N PROVE Total(SubSeq(counts, 1, n)) = f[n]
  <2> DEFINE t == SubSeq(counts, 1, n)
  <2>1. t \in Seq(Nat) /\ Len(t) = n /\ \A i \in 1..n : t[i] = counts[i]
    BY <1>1 DEF N
  <2> HIDE DEF t
  <2>2. \A i \in 1..Len(t) : f[i] = f[i-1] + t[i]
    <3> SUFFICES ASSUME NEW i \in 1..Len(t) PROVE f[i] = f[i-1] + t[i]
      OBVIOUS
    <3>1. i \in 1..N /\ t[i] = counts[i]
      BY <1>1, <2>1
    <3>2. f[i] = f[i-1] + counts[i]
      BY <1>4, <3>1, Zenon
    <3> QED BY <3>1, <3>2, Zenon
  <2>3. Total(t) = f[Len(t)]
    BY <1>4, <2>1, <2>2, TotalBy
  <2> QED BY <2>1, <2>3 DEF t
<1> QED BY <1>7, <1>8, <1>9 DEF N

\* what adds them up never falls
LEMMA PartialRises ==
  ASSUME NEW counts \in Seq(Nat), NEW f, Partial(counts, f), NEW j \in 0..Len(counts), NEW i \in 0..j
  PROVE  f[i] <= f[j]
<1> DEFINE N == Len(counts)
<1>1. /\ N \in Nat /\ j \in 0..N /\ i \in 0..j /\ f \in [0..N -> Nat]
      /\ \A x \in 1..N : f[x] = f[x-1] + counts[x] /\ counts[x] \in Nat
  BY DEF Partial
<1> HIDE DEF N
<1> DEFINE Bad == {x \in i..j : ~ (f[i] <= f[x])}
<1>2. Bad = {}
  <2> SUFFICES ASSUME Bad # {} PROVE FALSE
    OBVIOUS
  <2>1. PICK m \in Bad : \A x \in Bad : m <= x
    <3>1. Bad \subseteq Nat
      BY <1>1
    <3> HIDE DEF Bad
    <3> QED BY <3>1, LeastNatural
  <2>2. m \in i..j /\ ~ (f[i] <= f[m]) /\ m # i
    BY <1>1, <2>1
  <2>3. m - 1 \in i..j /\ ~ (m <= m - 1) /\ m \in 1..N /\ m - 1 \in 0..N /\ m \in 0..N /\ i \in 0..N
    BY <1>1, <2>2
  <2>4. f[i] <= f[m-1]
    BY <2>1, <2>3
  <2>5. f[m] = f[m-1] + counts[m] /\ counts[m] \in Nat /\ f[m-1] \in Nat /\ f[i] \in Nat /\ f[m] \in Nat
    BY <1>1, <2>3
  <2> QED BY <2>2, <2>4, <2>5
<1>3. j \in i..j
  BY <1>1
<1> QED BY <1>2, <1>3

\* the total of counts a to b
LEMMA TotalCut ==
  ASSUME NEW counts \in Seq(Nat), NEW b \in 0..Len(counts), NEW a \in 1..b+1
  PROVE  /\ SubSeq(counts, a, b) \in Seq(Nat) /\ Len(SubSeq(counts, a, b)) = b - a + 1
         /\ Total(SubSeq(counts, a, b)) \in Nat
         /\ Total(SubSeq(counts, 1, b)) = Total(SubSeq(counts, 1, a-1)) + Total(SubSeq(counts, a, b))
         /\ Total(SubSeq(counts, 1, a-1)) \in Nat /\ Total(SubSeq(counts, 1, b)) <= Total(counts)
         /\ Total(counts) \in Nat
<1> DEFINE N == Len(counts)  t == SubSeq(counts, a, b)
<1>1. PICK f : /\ Partial(counts, f)
               /\ \A n \in 0..Len(counts) : Total(SubSeq(counts, 1, n)) = f[n]
               /\ Total(counts) = f[Len(counts)]
  BY PartialIs
<1>2. f[b] <= f[N] /\ f[a-1] <= f[b]
  <2>1. N \in 0..Len(counts) /\ b \in 0..N /\ a - 1 \in 0..b
    OBVIOUS
  <2> HIDE DEF N
  <2> QED BY <1>1, <2>1, PartialRises
<1>3. N \in Nat /\ b \in 0..N /\ a \in 1..b+1 /\ f \in [0..N -> Nat]
      /\ \A i \in 1..N : f[i] = f[i-1] + counts[i]
  BY <1>1 DEF Partial
<1>4. t \in Seq(Nat) /\ Len(t) = b - a + 1 /\ \A i \in 1..b-a+1 : t[i] = counts[(a - 1) + i]
  BY <1>3
<1> HIDE DEF t, N
<1> DEFINE h == [i \in 0..b-a+1 |-> f[(a - 1) + i] - f[a-1]]
<1>5. Total(t) = h[Len(t)]
  <2>1. f[a-1] \in Nat /\ f[b] \in Nat
    BY <1>3
  <2>2. h[0] = 0
    BY <1>3, <2>1
  <2>3. ASSUME NEW i \in 1..Len(t) PROVE h[i] = h[i-1] + t[i]
    <3>1. i \in 0..b-a+1 /\ i - 1 \in 0..b-a+1 /\ (a - 1) + i \in 1..N /\ (a - 1) + (i - 1) = ((a - 1) + i) - 1
          /\ t[i] = counts[(a - 1) + i]
      BY <1>3, <1>4, <2>3
    <3>2. h[i] = f[(a - 1) + i] - f[a-1] /\ h[i-1] = f[((a - 1) + i) - 1] - f[a-1]
      BY <3>1
    <3>3. f[(a - 1) + i] = f[((a - 1) + i) - 1] + t[i]
      BY <1>3, <3>1
    <3>4. f[((a - 1) + i) - 1] \in Nat /\ t[i] \in Nat
      <4>1. ((a - 1) + i) - 1 \in 0..N
        BY <1>3, <3>1
      <4>2. t[i] \in Nat
        BY <1>4
      <4> QED BY <1>3, <4>1, <4>2
    <3> DEFINE x == f[((a - 1) + i) - 1]  y == f[(a - 1) + i]  z == f[a-1]
    <3>5. h[i] = y - z /\ h[i-1] = x - z /\ y = x + t[i] /\ x \in Nat /\ t[i] \in Nat /\ z \in Nat
      BY <2>1, <3>2, <3>3, <3>4, Zenon
    <3> HIDE DEF x, y, z
    <3> QED BY <3>5
  <2> HIDE DEF h
  <2> QED BY <1>4, <2>2, <2>3, TotalBy
<1>6. h[Len(t)] = f[b] - f[a-1]
  <2>1. Len(t) \in 0..b-a+1 /\ (a - 1) + Len(t) = b
    BY <1>3, <1>4
  <2> QED BY <2>1
<1>7. /\ Total(SubSeq(counts, 1, b)) = f[b] /\ Total(SubSeq(counts, 1, a-1)) = f[a-1]
      /\ Total(counts) = f[N] /\ f[b] \in Nat /\ f[a-1] \in Nat /\ f[N] \in Nat
  <2>1. b \in 0..Len(counts) /\ a - 1 \in 0..Len(counts) /\ N \in 0..N
    BY <1>3 DEF N
  <2> QED BY <1>1, <1>3, <2>1 DEF N
<1> QED BY <1>2, <1>4, <1>5, <1>6, <1>7 DEF t, N

\* Counts added one by one have the sum of the totals.
LEMMA TotalAdds ==
  ASSUME NEW n \in Nat, NEW s \in Seq(Nat), NEW t \in Seq(Nat), NEW u \in Seq(Nat), NEW v \in Seq(Nat),
         Len(s) = n, Len(t) = n, Len(u) = n, Len(v) = n,
         \A i \in 1..n : v[i] = s[i] + t[i] + u[i]
  PROVE  Total(v) = Total(s) + Total(t) + Total(u)
<1>1. PICK a : Partial(s, a) /\ Total(s) = a[Len(s)]
  BY PartialIs
<1>2. PICK b : Partial(t, b) /\ Total(t) = b[Len(t)]
  BY PartialIs
<1>3. PICK c : Partial(u, c) /\ Total(u) = c[Len(u)]
  BY PartialIs
<1> DEFINE h == [i \in 0..n |-> a[i] + b[i] + c[i]]
<1>4. /\ a \in [0..n -> Nat] /\ b \in [0..n -> Nat] /\ c \in [0..n -> Nat]
      /\ a[0] = 0 /\ b[0] = 0 /\ c[0] = 0
      /\ \A i \in 1..n : a[i] = a[i-1] + s[i] /\ b[i] = b[i-1] + t[i] /\ c[i] = c[i-1] + u[i]
  BY <1>1, <1>2, <1>3 DEF Partial
<1>5. h[0] = 0
  BY <1>4
<1>6. ASSUME NEW i \in 1..n PROVE h[i] = h[i-1] + v[i]
  <2>1. i \in 0..n /\ i - 1 \in 0..n
    OBVIOUS
  <2>2. a[i-1] \in Nat /\ b[i-1] \in Nat /\ c[i-1] \in Nat /\ s[i] \in Nat /\ t[i] \in Nat /\ u[i] \in Nat
    <3>1. s[i] \in Nat /\ t[i] \in Nat /\ u[i] \in Nat
      BY ElementOfSeq, Zenon
    <3>2. a[i-1] \in Nat /\ b[i-1] \in Nat /\ c[i-1] \in Nat
      BY <1>4, <2>1, Zenon
    <3> QED BY <3>1, <3>2, Zenon
  <2>3. h[i] = a[i] + b[i] + c[i] /\ h[i-1] = a[i-1] + b[i-1] + c[i-1]
    <3>1. h[i] = a[i] + b[i] + c[i]
      BY <2>1, Zenon
    <3>2. h[i-1] = a[i-1] + b[i-1] + c[i-1]
      BY <2>1, Zenon
    <3> QED BY <3>1, <3>2, Zenon
  <2>5. v[i] = s[i] + t[i] + u[i]
    OBVIOUS
  <2>4. a[i] = a[i-1] + s[i] /\ b[i] = b[i-1] + t[i] /\ c[i] = c[i-1] + u[i]
    BY <1>4, Zenon
  <2> DEFINE A == a[i-1]  B == b[i-1]  C == c[i-1]  x == s[i]  y == t[i]  z == u[i]
  <2>6. A \in Nat /\ B \in Nat /\ C \in Nat /\ x \in Nat /\ y \in Nat /\ z \in Nat
    BY <2>2
  <2>7. h[i] = (A + x) + (B + y) + (C + z) /\ h[i-1] = A + B + C /\ v[i] = x + y + z
    BY <2>3, <2>4, <2>5, Zenon
  <2> HIDE DEF h, A, B, C, x, y, z
  <2> QED BY <2>6, <2>7
<1>7. h[n] = a[n] + b[n] + c[n]
  OBVIOUS
<1> HIDE DEF h
<1>8. Total(v) = h[n]
  BY <1>5, <1>6, TotalBy
<1> QED BY <1>1, <1>2, <1>3, <1>7, <1>8

\* Nothing adds up to nothing.
LEMMA TotalNone == \A n \in Nat : /\ Total([i \in 1..n |-> 0]) = 0
                                  /\ [i \in 1..n |-> 0] \in Seq(Nat) /\ Len([i \in 1..n |-> 0]) = n
<1> SUFFICES ASSUME NEW n \in Nat
             PROVE /\ Total([i \in 1..n |-> 0]) = 0
                   /\ [i \in 1..n |-> 0] \in Seq(Nat) /\ Len([i \in 1..n |-> 0]) = n
  OBVIOUS
<1> DEFINE t == [i \in 1..n |-> 0]  h == [i \in 0..n |-> 0]
<1>1. t \in Seq(Nat) /\ Len(t) = n /\ \A i \in 1..n : t[i] = 0
  OBVIOUS
<1>2. h[0] = 0 /\ h[n] = 0 /\ \A i \in 1..n : h[i] = h[i-1] + 0
  OBVIOUS
<1> HIDE DEF t, h
<1>3. Total(t) = h[Len(t)]
  BY <1>1, <1>2, TotalBy
<1> QED BY <1>1, <1>2, <1>3 DEF t

\* one sequence after another
LEMMA ConcatIs ==
  ASSUME NEW W, NEW s \in Seq(W), NEW t \in Seq(W)
  PROVE  /\ s \o t \in Seq(W) /\ Len(s \o t) = Len(s) + Len(t)
         /\ \A y \in 1..Len(s) : (s \o t)[y] = s[y]
         /\ \A y \in 1..Len(t) : (s \o t)[Len(s) + y] = t[y]
  OBVIOUS

\* segment i of a buffer as long as the segments together
LEMMA SegmentIs ==
  ASSUME NEW W, NEW buf \in Seq(W), NEW counts \in Seq(Nat), Len(buf) = Total(counts),
         NEW i \in 1..Len(counts)
  PROVE  /\ Segment(buf, counts, i) \in Seq(W) /\ Len(Segment(buf, counts, i)) = counts[i]
         /\ \A x \in 1..counts[i] :
              /\ Total(SubSeq(counts, 1, i-1)) + x \in 1..Len(buf)
              /\ Segment(buf, counts, i)[x] = buf[Total(SubSeq(counts, 1, i-1)) + x]
<1> DEFINE n == Len(counts)  L == Len(buf)  z == counts[i]
<1>1. PICK f : /\ Partial(counts, f)
               /\ \A m \in 0..Len(counts) : Total(SubSeq(counts, 1, m)) = f[m]
               /\ Total(counts) = f[Len(counts)]
  BY PartialIs
<1>2. n \in Nat /\ i \in 1..n /\ L \in Nat
  OBVIOUS
<1>3. z \in Nat
  BY ElementOfSeq, Zenon
<1>4. f[i] <= f[n]
  <2>1. n \in 0..Len(counts) /\ i \in 0..n
    BY <1>2
  <2> QED BY <1>1, <2>1, PartialRises
<1>5. f[i] = f[i-1] + z /\ f[i-1] \in Nat /\ f[n] = L /\ Total(SubSeq(counts, 1, i-1)) = f[i-1]
  <2>1. i - 1 \in 0..n
    BY <1>2
  <2> QED BY <1>1, <2>1 DEF Partial
<1>6. Segment(buf, counts, i) = SubSeq(buf, f[i-1] + 1, f[i-1] + z)
  BY <1>5 DEF Segment
<1> HIDE DEF n, L, z
<1> DEFINE b == f[i-1]
<1>7. b \in Nat /\ b + z <= L /\ z \in Nat /\ L \in Nat /\ L = Len(buf)
  <2>1. L = Len(buf)
    BY DEF L
  <2> QED BY <1>2, <1>3, <1>4, <1>5, <2>1
<1> HIDE DEF b
<1>8. /\ SubSeq(buf, b + 1, b + z) \in Seq(W) /\ Len(SubSeq(buf, b + 1, b + z)) = z
      /\ \A x \in 1..z : SubSeq(buf, b + 1, b + z)[x] = buf[b + x] /\ b + x \in 1..L
  <2>1. b \in Nat /\ z \in Nat /\ b + z <= Len(buf)
    BY <1>7
  <2>2. /\ SubSeq(buf, b + 1, b + z) \in Seq(W) /\ Len(SubSeq(buf, b + 1, b + z)) = z
        /\ \A x \in 1..z : SubSeq(buf, b + 1, b + z)[x] = buf[b + x]
    BY <2>1
  <2>3. \A x \in 1..z : b + x \in 1..L
    BY <1>7
  <2> QED BY <2>2, <2>3
<1> QED BY <1>5, <1>6, <1>8 DEF b, z, L

\* g joins the first n segments
Joins(segs, n, g) == g = [i \in 1..n |-> IF i = 1 THEN segs[i] ELSE g[i-1] \o segs[i]]

LEMMA JoinsExist ==
  ASSUME NEW n \in Nat, NEW segs
  PROVE  \E g : Joins(segs, n, g)
<1> DEFINE OK(m) == \E g : Joins(segs, m, g)
           Bad == {m \in 0..n : ~ OK(m)}
<1>1. OK(0)
  <2> DEFINE g == [i \in 1..0 |-> 0]
  <2>1. g = [i \in 1..0 |-> IF i = 1 THEN segs[i] ELSE g[i-1] \o segs[i]]
    OBVIOUS
  <2> HIDE DEF g
  <2> QED BY <2>1 DEF Joins
<1>2. ASSUME NEW m \in 0..n-1, OK(m) PROVE OK(m+1)
  <2>1. PICK f : Joins(segs, m, f)
    BY <1>2
  <2>2. \A i \in 1..m : f[i] = IF i = 1 THEN segs[i] ELSE f[i-1] \o segs[i]
    BY <2>1 DEF Joins
  <2> DEFINE last == IF m + 1 = 1 THEN segs[m+1] ELSE f[m] \o segs[m+1]
             g == [i \in 1..m+1 |-> IF i = m+1 THEN last ELSE f[i]]
  <2>3. ASSUME NEW i \in 1..m+1 PROVE g[i] = IF i = 1 THEN segs[i] ELSE g[i-1] \o segs[i]
    <3>1. CASE i = m + 1
      <4>1. g[i] = last
        BY <3>1
      <4>2. CASE i = 1
        BY <3>1, <4>1, <4>2
      <4>3. CASE i # 1
        <5>1. i - 1 \in 1..m+1 /\ i - 1 # m + 1 /\ m = i - 1 /\ m + 1 # 1
          BY <3>1, <4>3
        <5>2. g[i-1] = f[m]
          BY <5>1
        <5>3. last = f[m] \o segs[i]
          BY <3>1, <5>1
        <5> QED BY <4>1, <4>3, <5>2, <5>3, Zenon
      <4> QED BY <4>2, <4>3
    <3>2. CASE i # m + 1
      <4>1. i \in 1..m /\ g[i] = f[i]
        BY <3>2
      <4>2. i # 1 => i - 1 \in 1..m+1 /\ i - 1 # m + 1
        BY <3>2
      <4>3. i # 1 => g[i-1] = f[i-1]
        BY <4>2
      <4> HIDE DEF g
      <4> QED BY <2>2, <4>1, <4>3, Zenon
    <3> QED BY <3>1, <3>2
  <2>4. g = [i \in 1..m+1 |-> g[i]]
    OBVIOUS
  <2> HIDE DEF g
  <2>5. g = [i \in 1..m+1 |-> IF i = 1 THEN segs[i] ELSE g[i-1] \o segs[i]]
    BY <2>3, <2>4
  <2> QED BY <2>5 DEF Joins
<1> HIDE DEF OK
<1>3. Bad = {}
  <2> SUFFICES ASSUME Bad # {} PROVE FALSE
    OBVIOUS
  <2>1. PICK m \in Bad : \A x \in Bad : m <= x
    <3>1. Bad \subseteq Nat
      OBVIOUS
    <3> HIDE DEF Bad
    <3> QED BY <3>1, LeastNatural
  <2>2. m \in 0..n /\ ~ OK(m) /\ m # 0
    BY <1>1, <2>1
  <2>3. m - 1 \in 0..n-1 /\ m - 1 \in 0..n /\ ~ (m <= m - 1) /\ (m - 1) + 1 = m
    BY <2>2
  <2>4. OK(m-1)
    BY <2>1, <2>3
  <2> QED BY <1>2, <2>2, <2>3, <2>4
<1>4. OK(n)
  BY <1>3
<1> QED BY <1>4 DEF OK

\* joined holds the segments one after the other, their lengths being counts
Joined(W, segs, counts, joined) ==
  /\ joined \in Seq(W) /\ Len(joined) = Total(counts)
  /\ \A i \in 1..Len(counts) : \A x \in 1..counts[i] :
       joined[Total(SubSeq(counts, 1, i-1)) + x] = segs[i][x]

LEMMA FlattenIs ==
  ASSUME NEW W, NEW segs \in Seq(Seq(W)), NEW counts \in Seq(Nat), Len(segs) = Len(counts),
         \A i \in 1..Len(counts) : Len(segs[i]) = counts[i]
  PROVE  Joined(W, segs, counts, FlattenSeq(segs))
<1> DEFINE n == Len(counts)
<1>1. n \in Nat /\ Len(segs) = n /\ \A i \in 1..n : segs[i] \in Seq(W) /\ Len(segs[i]) = counts[i]
  BY ElementOfSeq
<1>2. PICK f : /\ Partial(counts, f)
               /\ \A m \in 0..Len(counts) : Total(SubSeq(counts, 1, m)) = f[m]
               /\ Total(counts) = f[Len(counts)]
  BY PartialIs
<1>3. /\ f \in [0..n -> Nat] /\ f[0] = 0 /\ \A i \in 1..n : f[i] = f[i-1] + counts[i]
      /\ Total(counts) = f[n]
  BY <1>2 DEF Partial
<1>4. CASE n = 0
  <2>1. segs = <<>> /\ FlattenSeq(segs) = segs
    BY <1>1, <1>4, EmptySeq DEF FlattenSeq
  <2>2. Len(FlattenSeq(segs)) = 0 /\ FlattenSeq(segs) \in Seq(W)
    <3>1. Len(<<>>) = 0 /\ <<>> \in Seq(W)
      OBVIOUS
    <3> QED BY <2>1, <3>1, Zenon
  <2>3. 1..Len(counts) = {} /\ Total(counts) = 0
    BY <1>3, <1>4
  <2> QED BY <2>2, <2>3 DEF Joined
<1>5. CASE n # 0
  <2> DEFINE G == CHOOSE g : Joins(segs, Len(segs), g)
  <2>1. FlattenSeq(segs) = G[n]
    BY <1>1, <1>5, Zenon DEF FlattenSeq, Joins
  <2>2. Joins(segs, n, G)
    <3>1. \E g : Joins(segs, n, g)
      BY <1>1, JoinsExist
    <3> QED BY <1>1, <3>1, Zenon
  <2> HIDE DEF n, G
  <2>3. \A i \in 1..n : G[i] = IF i = 1 THEN segs[i] ELSE G[i-1] \o segs[i]
    BY <2>2 DEF Joins
  <2> DEFINE OK(m) == /\ G[m] \in Seq(W) /\ Len(G[m]) = f[m]
                      /\ \A i \in 1..m : \A x \in 1..counts[i] : G[m][f[i-1] + x] = segs[i][x]
             Bad == {m \in 1..n : ~ OK(m)}
  <2>4. OK(1)
    <3>1. 1 \in 1..n /\ G[1] = segs[1] /\ f[1] = f[0] + counts[1] /\ f[0] = 0
      BY <1>1, <1>3, <1>5, <2>3
    <3>2. segs[1] \in Seq(W) /\ Len(segs[1]) = counts[1] /\ Len(segs[1]) \in Nat
      BY <1>1, <3>1
    <3>3. ASSUME NEW i \in 1..1, NEW x \in 1..counts[i] PROVE G[1][f[i-1] + x] = segs[i][x]
      <4>1. i = 1 /\ f[i-1] + x = x
        <5>1. i = 1
          OBVIOUS
        <5>2. i - 1 = 0
          BY <5>1
        <5>3. x \in Int
          OBVIOUS
        <5> QED BY <3>1, <5>1, <5>2, <5>3
      <4> QED BY <3>1, <4>1
    <3> QED BY <3>1, <3>2, <3>3
  <2>5. ASSUME NEW m \in 1..n-1, OK(m) PROVE OK(m+1)
    <3> DEFINE s == G[m]  t == segs[m+1]
    <3>1. /\ m + 1 \in 1..n /\ m + 1 # 1 /\ (m + 1) - 1 = m /\ m \in 0..n /\ m \in 1..n
          /\ m + 1 \in 0..n
      BY <1>1
    <3>2. G[m+1] = s \o t
      BY <2>3, <3>1
    <3>3. s \in Seq(W) /\ Len(s) = f[m] /\ t \in Seq(W) /\ Len(t) = counts[m+1]
          /\ f[m+1] = f[m] + counts[m+1] /\ f[m] \in Nat
      BY <1>1, <1>3, <2>5, <3>1
    <3>4. G[m+1] \in Seq(W) /\ Len(G[m+1]) = f[m+1]
      <4> HIDE DEF s, t
      <4>1. s \o t \in Seq(W) /\ Len(s \o t) = Len(s) + Len(t)
        BY <3>3, ConcatIs
      <4>2. Len(s) + Len(t) = f[m+1]
        BY <3>3
      <4> QED BY <3>2, <4>1, <4>2
    <3>5. ASSUME NEW i \in 1..m+1, NEW x \in 1..counts[i] PROVE G[m+1][f[i-1] + x] = segs[i][x]
      <4>1. CASE i = m + 1
        <5>1. f[i-1] = Len(s) /\ counts[i] = Len(t) /\ x \in 1..Len(t) /\ segs[i] = t
          BY <3>1, <3>3, <4>1
        <5> HIDE DEF s, t
        <5>2. (s \o t)[Len(s) + x] = t[x]
          <6>1. \A y \in 1..Len(t) : (s \o t)[Len(s) + y] = t[y]
            BY <3>3, ConcatIs
          <6> QED BY <5>1, <6>1, Zenon
        <5>3. G[m+1][Len(s) + x] = t[x]
          BY <3>2, <5>2, Zenon
        <5>4. f[i-1] + x = Len(s) + x /\ segs[i][x] = t[x]
          BY <5>1, Zenon
        <5> QED BY <5>3, <5>4, Zenon
      <4>2. CASE i # m + 1
        <5>1. i \in 1..m /\ i \in 0..m /\ i \in 1..n /\ i - 1 \in 0..n /\ i \in 0..n /\ m \in 0..Len(counts)
          BY <1>1, <4>2 DEF n
        <5>2. f[i] <= f[m]
          BY <1>2, <5>1, PartialRises
        <5>3. f[i] = f[i-1] + counts[i] /\ f[i-1] \in Nat /\ counts[i] \in Nat /\ f[i] \in Nat
          <6>1. counts[i] \in Nat
            BY <5>1, ElementOfSeq DEF n
          <6> QED BY <1>3, <5>1, <6>1
        <5>4. f[i-1] + x \in 1..Len(s)
          <6> DEFINE a == f[i-1]  c == f[m]  d == f[i]
          <6>1. Len(s) = c /\ d <= c /\ d = a + counts[i] /\ a \in Nat /\ counts[i] \in Nat /\ c \in Nat
            BY <3>3, <5>2, <5>3, Zenon
          <6> HIDE DEF s, a, c, d
          <6>2. a + x \in 1..Len(s)
            BY <6>1
          <6> QED BY <6>2 DEF a
        <5>5. s[f[i-1] + x] = segs[i][x]
          BY <2>5, <5>1
        <5> HIDE DEF s, t
        <5> DEFINE y == f[i-1] + x
        <5> HIDE DEF y
        <5>6. y \in 1..Len(s)
          BY <5>4 DEF y
        <5>7. (s \o t)[y] = s[y]
          BY <3>3, <5>6, ConcatIs
        <5> QED BY <3>2, <5>5, <5>7 DEF y
      <4> QED BY <4>1, <4>2
    <3> QED BY <3>4, <3>5
  <2> HIDE DEF OK
  <2>6. Bad = {}
    <3> SUFFICES ASSUME Bad # {} PROVE FALSE
      OBVIOUS
    <3>1. PICK m \in Bad : \A x \in Bad : m <= x
      <4>1. Bad \subseteq Nat
        OBVIOUS
      <4> HIDE DEF Bad
      <4> QED BY <4>1, LeastNatural
    <3>2. m \in 1..n /\ ~ OK(m) /\ m # 1
      BY <2>4, <3>1
    <3>3. m - 1 \in 1..n-1 /\ m - 1 \in 1..n /\ ~ (m <= m - 1) /\ (m - 1) + 1 = m
      BY <1>1, <3>2
    <3>4. OK(m-1)
      BY <3>1, <3>3
    <3> QED BY <2>5, <3>2, <3>3, <3>4
  <2>7. OK(n)
    <3>1. n \in 1..n
      BY <1>1, <1>5
    <3> QED BY <2>6, <3>1
  <2>8. ASSUME NEW i \in 1..n, NEW x \in 1..counts[i]
        PROVE  G[n][Total(SubSeq(counts, 1, i-1)) + x] = segs[i][x]
    <3>1. i - 1 \in 0..Len(counts)
      BY <1>1 DEF n
    <3>2. Total(SubSeq(counts, 1, i-1)) = f[i-1]
      BY <1>2, <3>1
    <3> QED BY <2>7, <3>2 DEF OK
  <2> QED BY <1>3, <2>1, <2>7, <2>8 DEF OK, Joined, n
<1> QED BY <1>4, <1>5

(***************************************************************************)
(* The ranges.  What the operators of a process are in its range, they are *)
(* for every range g.                                                      *)
(***************************************************************************)
Split(g) == (g[1] + g[2]) \div 2
Lo(g) == <<g[1], Split(g)>>
Up(g) == <<Split(g) + 1, g[2]>>
HalfOf(g, r) == IF r <= Split(g) THEN Lo(g) ELSE Up(g)
OtherOf(g, r) == IF r <= Split(g) THEN Up(g) ELSE Lo(g)
PartnerIn(g, r) ==
  LET k == r + OtherOf(g, r)[1] - HalfOf(g, r)[1] IN IF k > g[2] THEN g[2] ELSE k
ExtraIn(g, r) == (g[2] - g[1]) % 2 = 0 /\ r = g[2]

In(r, g) == g[1] <= r /\ r <= g[2]
SizeOf(g) == g[2] - g[1] + 1
Inside(h, g) == g[1] <= h[1] /\ h[2] <= g[2]
Under(h, g) == g[1] < g[2] /\ (Inside(h, Lo(g)) \/ Inside(h, Up(g)))
Apart(g, h) == g[2] < h[1] \/ h[2] < g[1]

\* s sends to d in the round of range g
Peers(g, s, d) ==
  /\ g[1] < g[2] /\ In(s, g) /\ In(d, g)
  /\ d = PartnerIn(g, s) \/ (ExtraIn(g, s) /\ d = Split(g))

\* f goes from the range of all processes to a smaller one in n rounds
Chain(f, n) ==
  /\ f[0] = <<0, P-1>>
  /\ \A i \in 0..n-1 : f[i][1] < f[i][2] /\ (f[i+1] = Lo(f[i]) \/ f[i+1] = Up(f[i]))

Ranges == {g \in Procs \X Procs : \E n \in Nat : \E f : Chain(f, n) /\ f[n] = g}

\* who has after the round of g, in its half h, what q had before
NextCarrier(g, h, q) == IF In(q, h) THEN q ELSE PartnerIn(g, q)

\* r brings the blocks of s that go into range g
Carried(g, s, r) ==
  \E n \in Nat : \E f, c :
    /\ Chain(f, n) /\ f[n] = g
    /\ c[0] = s /\ \A i \in 0..n-1 : c[i+1] = NextCarrier(f[i], f[i+1], c[i])
    /\ c[n] = r

LEMMA ProcsNat == P \in Nat \ {0} /\ Procs = 0..P-1 /\ Procs \subseteq Nat
  BY ParametersAssumption DEF Procs

\* The halves of a range.
LEMMA Halves ==
  ASSUME NEW g \in Procs \X Procs, g[1] < g[2]
  PROVE  /\ g[1] \in Nat /\ g[2] \in Nat /\ Split(g) \in Nat /\ g = <<g[1], g[2]>>
         /\ g[1] <= Split(g) /\ Split(g) < g[2]
         /\ Lo(g) \in Procs \X Procs /\ Up(g) \in Procs \X Procs
         /\ Lo(g)[1] = g[1] /\ Lo(g)[2] = Split(g) /\ Up(g)[1] = Split(g) + 1 /\ Up(g)[2] = g[2]
         /\ (g[2] - g[1]) % 2 = 0 => g[1] + g[2] = 2 * Split(g)
         /\ (g[2] - g[1]) % 2 # 0 => g[1] + g[2] = 2 * Split(g) + 1
<1> DEFINE a == g[1]  b == g[2]
<1>1. a \in 0..P-1 /\ b \in 0..P-1 /\ P \in Nat \ {0} /\ g = <<a, b>> /\ a < b
  BY ProcsNat
<1> HIDE DEF a, b
<1>2. Split(g) = (a + b) \div 2
  BY DEF Split, a, b
<1> DEFINE s == (a + b) \div 2
<1>3. s \in Nat /\ a <= s /\ s < b /\ (2 * s = a + b \/ 2 * s + 1 = a + b)
  BY <1>1
<1>4. ((b - a) % 2 = 0 => a + b = 2 * s) /\ ((b - a) % 2 # 0 => a + b = 2 * s + 1)
  BY <1>1
<1> HIDE DEF s
<1>5. Split(g) = s /\ Lo(g) = <<a, s>> /\ Up(g) = <<s + 1, b>>
  BY <1>2 DEF s, Lo, Up, a, b
<1>6. s \in Procs /\ s + 1 \in Procs /\ a \in Procs /\ b \in Procs
  BY <1>1, <1>3, ProcsNat
<1>7. a \in Nat /\ b \in Nat
  BY <1>1
<1> QED BY <1>1, <1>3, <1>4, <1>5, <1>6, <1>7 DEF a, b

\* Every range on a chain holds a process.
LEMMA ChainRanges ==
  ASSUME NEW n \in Nat, NEW f, Chain(f, n)
  PROVE  \A i \in 0..n : f[i] \in Procs \X Procs /\ f[i][1] <= f[i][2]
<1> DEFINE OK(i) == f[i] \in Procs \X Procs /\ f[i][1] <= f[i][2]
           Bad == {i \in 0..n : ~ OK(i)}
<1>1. OK(0)
  <2>1. f[0] = <<0, P-1>> /\ 0 \in Procs /\ P-1 \in Procs /\ 0 <= P-1
    BY ProcsNat DEF Chain
  <2> QED BY <2>1
<1>2. ASSUME NEW i \in 0..n-1, OK(i) PROVE OK(i+1)
  <2>1. f[i][1] < f[i][2] /\ (f[i+1] = Lo(f[i]) \/ f[i+1] = Up(f[i]))
    BY DEF Chain
  <2> DEFINE g == f[i]
  <2> HIDE DEF g
  <2>2. g \in Procs \X Procs /\ g[1] < g[2] /\ (f[i+1] = Lo(g) \/ f[i+1] = Up(g))
    BY <1>2, <2>1 DEF g
  <2>3. /\ Lo(g) \in Procs \X Procs /\ Up(g) \in Procs \X Procs /\ Lo(g)[1] <= Lo(g)[2]
        /\ Up(g)[1] <= Up(g)[2]
    BY <2>2, Halves
  <2> QED BY <2>2, <2>3
<1> HIDE DEF OK
<1>3. Bad = {}
  <2> SUFFICES ASSUME Bad # {} PROVE FALSE
    OBVIOUS
  <2>1. PICK m \in Bad : \A x \in Bad : m <= x
    <3>1. Bad \subseteq Nat
      OBVIOUS
    <3> HIDE DEF Bad
    <3> QED BY <3>1, LeastNatural
  <2>2. m \in 0..n /\ ~ OK(m) /\ m # 0
    BY <1>1, <2>1
  <2>3. m - 1 \in 0..n-1 /\ m - 1 \in 0..n /\ ~ (m <= m - 1) /\ (m - 1) + 1 = m
    BY <2>2
  <2>4. OK(m-1)
    BY <2>1, <2>3
  <2> QED BY <1>2, <2>2, <2>3, <2>4
<1> QED BY <1>3 DEF OK

\* A range has as many processes as it should, and so have its halves.
LEMMA RangeIs ==
  ASSUME NEW g \in Ranges
  PROVE  /\ g \in Procs \X Procs /\ g[1] \in Nat /\ g[2] \in Nat /\ g[1] <= g[2]
         /\ g[1] \in Procs /\ g[2] \in Procs
<1>1. PICK n \in Nat : \E f : Chain(f, n) /\ f[n] = g
  BY DEF Ranges
<1>2. PICK f : Chain(f, n) /\ f[n] = g
  BY <1>1
<1>3. n \in 0..n
  OBVIOUS
<1>4. g \in Procs \X Procs /\ g[1] <= g[2]
  BY <1>2, <1>3, ChainRanges
<1> QED BY <1>4, ProcsNat

\* The ranges are that of all processes, and the halves of a range of several.
LEMMA RootRange == <<0, P-1>> \in Ranges
<1> DEFINE f == [i \in 0..0 |-> <<0, P-1>>]
<1>1. Chain(f, 0) /\ f[0] = <<0, P-1>>
  BY DEF Chain
<1>2. <<0, P-1>> \in Procs \X Procs
  BY ProcsNat
<1> QED BY <1>1, <1>2 DEF Ranges

\* a chain goes on to a half
GoesOn(f, n, h) == Chain(f, n) /\ f[n][1] < f[n][2] /\ (h = Lo(f[n]) \/ h = Up(f[n]))

LEMMA ChainGrows ==
  ASSUME NEW n \in Nat, NEW f, NEW h, GoesOn(f, n, h)
  PROVE  \E k : Chain(k, n+1) /\ k[n+1] = h /\ \A i \in 0..n : k[i] = f[i]
<1> DEFINE k == [i \in 0..n+1 |-> IF i = n+1 THEN h ELSE f[i]]
<1>1. k[n+1] = h /\ \A i \in 0..n : k[i] = f[i]
  OBVIOUS
<1> HIDE DEF k
<1> USE DEF GoesOn
<1>2. ASSUME NEW i \in 0..(n+1)-1
      PROVE  k[i][1] < k[i][2] /\ (k[i+1] = Lo(k[i]) \/ k[i+1] = Up(k[i]))
  <2>1. CASE i = n
    <3>1. k[i] = f[n] /\ k[i+1] = h
      BY <1>1, <2>1
    <3> QED BY <3>1
  <2>2. CASE i # n
    <3>1. i \in 0..n-1 /\ i \in 0..n /\ i + 1 \in 0..n
      BY <2>2
    <3>2. f[i][1] < f[i][2] /\ (f[i+1] = Lo(f[i]) \/ f[i+1] = Up(f[i]))
      BY <3>1 DEF Chain
    <3> QED BY <1>1, <3>1, <3>2
  <2> QED BY <2>1, <2>2
<1>3. k[0] = <<0, P-1>>
  BY <1>1 DEF Chain
<1>4. Chain(k, n+1)
  BY <1>2, <1>3 DEF Chain
<1> QED BY <1>1, <1>4

LEMMA HalfRange ==
  ASSUME NEW g \in Ranges, g[1] < g[2]
  PROVE  Lo(g) \in Ranges /\ Up(g) \in Ranges
<1>1. PICK n \in Nat : \E f : Chain(f, n) /\ f[n] = g
  BY DEF Ranges
<1>2. PICK f : Chain(f, n) /\ f[n] = g
  BY <1>1
<1>3. ASSUME NEW h, h = Lo(g) \/ h = Up(g) PROVE h \in Ranges
  <2>1. GoesOn(f, n, h)
    BY <1>2, <1>3 DEF GoesOn
  <2>2. \E k : Chain(k, n+1) /\ k[n+1] = h /\ \A i \in 0..n : k[i] = f[i]
    BY <2>1, ChainGrows
  <2>3. h \in Procs \X Procs
    BY <1>3, Halves DEF Ranges
  <2>4. n + 1 \in Nat
    OBVIOUS
  <2> QED BY <2>2, <2>3, <2>4 DEF Ranges
<1> QED BY <1>3

\* The ranges of a chain shrink.
LEMMA ChainNests ==
  ASSUME NEW n \in Nat, NEW f, Chain(f, n), NEW i \in 0..n, NEW j \in i..n
  PROVE  Inside(f[j], f[i])
<1> DEFINE Bad == {m \in i..n : ~ Inside(f[m], f[i])}
<1>1. Inside(f[i], f[i])
  <2>1. f[i] \in Procs \X Procs
    BY ChainRanges
  <2> QED BY <2>1, ProcsNat DEF Inside
<1>2. ASSUME NEW m \in i..n-1, Inside(f[m], f[i]) PROVE Inside(f[m+1], f[i])
  <2>1. m \in 0..n-1 /\ m \in 0..n
    OBVIOUS
  <2>2. f[m] \in Procs \X Procs /\ f[i] \in Procs \X Procs
    BY <2>1, ChainRanges
  <2>3. f[m][1] < f[m][2] /\ (f[m+1] = Lo(f[m]) \/ f[m+1] = Up(f[m]))
    BY <2>1 DEF Chain
  <2> DEFINE g == f[m]  h == f[m+1]  e == f[i]
  <2>4. g \in Procs \X Procs /\ e \in Procs \X Procs /\ g[1] < g[2] /\ (h = Lo(g) \/ h = Up(g)) /\ Inside(g, e)
    BY <1>2, <2>2, <2>3
  <2> HIDE DEF g, h, e
  <2>5. e[1] \in Nat /\ e[2] \in Nat
    BY <2>4, ProcsNat
  <2>6. Inside(h, e)
    BY <2>4, <2>5, Halves DEF Inside
  <2> QED BY <2>6 DEF h, e
<1>3. Bad = {}
  <2> SUFFICES ASSUME Bad # {} PROVE FALSE
    OBVIOUS
  <2>1. PICK m \in Bad : \A x \in Bad : m <= x
    <3>1. Bad \subseteq Nat
      OBVIOUS
    <3> HIDE DEF Bad
    <3> QED BY <3>1, LeastNatural
  <2>2. m \in i..n /\ ~ Inside(f[m], f[i]) /\ m # i
    BY <1>1, <2>1
  <2>3. m - 1 \in i..n-1 /\ m - 1 \in i..n /\ ~ (m <= m - 1) /\ (m - 1) + 1 = m
    BY <2>2
  <2>4. Inside(f[m-1], f[i])
    BY <2>1, <2>3
  <2> QED BY <1>2, <2>2, <2>3, <2>4
<1> QED BY <1>3

LEMMA ChainUnder ==
  ASSUME NEW n \in Nat, NEW f, Chain(f, n), NEW i \in 0..n-1, NEW j \in i+1..n
  PROVE  Under(f[j], f[i])
<1>1. f[i][1] < f[i][2] /\ (f[i+1] = Lo(f[i]) \/ f[i+1] = Up(f[i]))
  BY DEF Chain
<1>2. Inside(f[j], f[i+1])
  <2>1. i + 1 \in 0..n
    OBVIOUS
  <2> QED BY <2>1, ChainNests
<1> QED BY <1>1, <1>2 DEF Under

\* Two chains are the same, and then apart.
LEMMA ChainsAgree ==
  ASSUME NEW n \in Nat, NEW f, Chain(f, n), NEW h, Chain(h, n)
  PROVE  \A i \in 0..n : f[i] = h[i] \/ Apart(f[i], h[i])
<1> DEFINE OK(i) == f[i] = h[i] \/ Apart(f[i], h[i])
           Bad == {i \in 0..n : ~ OK(i)}
<1>1. OK(0)
  BY DEF Chain
<1>2. ASSUME NEW i \in 0..n-1, OK(i) PROVE OK(i+1)
  <2>1. /\ f[i][1] < f[i][2] /\ (f[i+1] = Lo(f[i]) \/ f[i+1] = Up(f[i]))
        /\ h[i][1] < h[i][2] /\ (h[i+1] = Lo(h[i]) \/ h[i+1] = Up(h[i]))
    BY DEF Chain
  <2>2. f[i] \in Procs \X Procs /\ h[i] \in Procs \X Procs
    <3>1. i \in 0..n
      OBVIOUS
    <3> QED BY <3>1, ChainRanges
  <2> DEFINE a == f[i]  b == f[i+1]  c == h[i]  d == h[i+1]
  <2>3. /\ a \in Procs \X Procs /\ c \in Procs \X Procs /\ a[1] < a[2] /\ c[1] < c[2]
        /\ (b = Lo(a) \/ b = Up(a)) /\ (d = Lo(c) \/ d = Up(c)) /\ (a = c \/ Apart(a, c))
    BY <1>2, <2>1, <2>2
  <2> HIDE DEF a, b, c, d
  <2>4. b = d \/ Apart(b, d)
    <3>1. /\ a[1] \in Nat /\ a[2] \in Nat /\ Split(a) \in Nat /\ a[1] <= Split(a) /\ Split(a) < a[2]
          /\ Lo(a)[1] = a[1] /\ Lo(a)[2] = Split(a) /\ Up(a)[1] = Split(a) + 1 /\ Up(a)[2] = a[2]
      BY <2>3, Halves
    <3>2. /\ c[1] \in Nat /\ c[2] \in Nat /\ Split(c) \in Nat /\ c[1] <= Split(c) /\ Split(c) < c[2]
          /\ Lo(c)[1] = c[1] /\ Lo(c)[2] = Split(c) /\ Up(c)[1] = Split(c) + 1 /\ Up(c)[2] = c[2]
      BY <2>3, Halves
    <3>3. CASE a = c
      BY <2>3, <3>1, <3>3 DEF Apart
    <3>4. CASE Apart(a, c)
      <4>1. a[1] <= b[1] /\ b[2] <= a[2] /\ c[1] <= d[1] /\ d[2] <= c[2]
        BY <2>3, <3>1, <3>2
      <4>2. b[1] \in Nat /\ b[2] \in Nat /\ d[1] \in Nat /\ d[2] \in Nat
        BY <2>3, <3>1, <3>2
      <4> QED BY <3>1, <3>2, <3>4, <4>1, <4>2 DEF Apart
    <3> QED BY <2>3, <3>3, <3>4
  <2> QED BY <2>4 DEF b, d
<1> HIDE DEF OK
<1>3. Bad = {}
  <2> SUFFICES ASSUME Bad # {} PROVE FALSE
    OBVIOUS
  <2>1. PICK m \in Bad : \A x \in Bad : m <= x
    <3>1. Bad \subseteq Nat
      OBVIOUS
    <3> HIDE DEF Bad
    <3> QED BY <3>1, LeastNatural
  <2>2. m \in 0..n /\ ~ OK(m) /\ m # 0
    BY <1>1, <2>1
  <2>3. m - 1 \in 0..n-1 /\ m - 1 \in 0..n /\ ~ (m <= m - 1) /\ (m - 1) + 1 = m
    BY <2>2
  <2>4. OK(m-1)
    BY <2>1, <2>3
  <2> QED BY <1>2, <2>2, <2>3, <2>4
<1> QED BY <1>3 DEF OK

\* Two ranges are the same, or apart, or one is in a half of the other.
LEMMA RangesNest ==
  ASSUME NEW g \in Ranges, NEW h \in Ranges
  PROVE  g = h \/ Apart(g, h) \/ Under(g, h) \/ Under(h, g)
<1>1. PICK n \in Nat : \E f : Chain(f, n) /\ f[n] = g
  BY DEF Ranges
<1>2. PICK f : Chain(f, n) /\ f[n] = g
  BY <1>1
<1>3. PICK m \in Nat : \E k : Chain(k, m) /\ k[m] = h
  BY DEF Ranges
<1>4. PICK k : Chain(k, m) /\ k[m] = h
  BY <1>3
<1>5. ASSUME NEW a \in Nat, NEW b \in Nat, NEW x, NEW y, Chain(x, a), Chain(y, b), a <= b
      PROVE  x[a] = y[b] \/ Apart(x[a], y[b]) \/ Under(y[b], x[a])
  <2>1. Chain(y, a)
    BY <1>5 DEF Chain
  <2>2. a \in 0..a /\ a \in 0..b /\ b \in a..b /\ b \in 0..b
    BY <1>5
  <2>3. CASE x[a] = y[a] /\ a = b
    BY <2>3
  <2>4. CASE x[a] = y[a] /\ a # b
    <3>1. a \in 0..b-1 /\ b \in a+1..b
      BY <1>5, <2>4
    <3> QED BY <1>5, <2>4, <3>1, ChainUnder
  <2>5. CASE Apart(x[a], y[a])
    <3>1. Inside(y[b], y[a])
      BY <1>5, <2>2, ChainNests
    <3>2. x[a] \in Procs \X Procs /\ y[a] \in Procs \X Procs /\ y[b] \in Procs \X Procs
      BY <1>5, <2>2, ChainRanges
    <3> DEFINE p == x[a]  q == y[a]  z == y[b]
    <3>3. p \in Procs \X Procs /\ q \in Procs \X Procs /\ z \in Procs \X Procs /\ Inside(z, q) /\ Apart(p, q)
      BY <2>5, <3>1, <3>2
    <3> HIDE DEF p, q, z
    <3>4. Apart(p, z)
      BY <3>3, ProcsNat DEF Inside, Apart
    <3> QED BY <3>4 DEF p, z
  <2> QED BY <2>1, <2>2, <2>3, <2>4, <2>5, <1>5, ChainsAgree
<1>6. CASE n <= m
  BY <1>2, <1>4, <1>5, <1>6
<1>7. CASE m <= n
  <2>1. h = g \/ Apart(h, g) \/ Under(g, h)
    BY <1>2, <1>4, <1>5, <1>7
  <2> QED BY <2>1 DEF Apart
<1> QED BY <1>6, <1>7

\* There is one chain to a range.
LEMMA OneChain ==
  ASSUME NEW n \in Nat, NEW f, Chain(f, n), NEW m \in Nat, NEW h, Chain(h, m), f[n] = h[m]
  PROVE  n = m /\ \A i \in 0..n : f[i] = h[i]
<1>1. ASSUME NEW a \in Nat, NEW b \in Nat, NEW x, NEW y, Chain(x, a), Chain(y, b), a <= b, x[a] = y[b]
      PROVE  a = b /\ \A i \in 0..a : x[i] = y[i]
  <2>1. Chain(y, a)
    BY <1>1 DEF Chain
  <2>2. a \in 0..a /\ a \in 0..b /\ b \in a..b /\ b \in 0..b
    BY <1>1
  <2>3. ASSUME NEW i \in 0..a PROVE x[i] = y[i]
    <3>1. ~ Apart(x[i], y[i])
      <4>1. i \in 0..b /\ b \in i..b /\ a \in i..a
        BY <1>1
      <4>2. Inside(x[a], x[i]) /\ Inside(y[b], y[i])
        BY <1>1, <4>1, ChainNests
      <4>3. x[i] \in Procs \X Procs /\ y[i] \in Procs \X Procs /\ y[b] \in Procs \X Procs /\ y[b][1] <= y[b][2]
        BY <1>1, <2>2, <4>1, ChainRanges
      <4> DEFINE p == x[i]  q == y[i]  z == y[b]
      <4>4. /\ p \in Procs \X Procs /\ q \in Procs \X Procs /\ z \in Procs \X Procs /\ Inside(z, q) /\ Inside(z, p)
            /\ z[1] <= z[2]
        BY <1>1, <4>2, <4>3
      <4> HIDE DEF p, q, z
      <4>5. ~ Apart(p, q)
        BY <4>4, ProcsNat DEF Inside, Apart
      <4> QED BY <4>5 DEF p, q
    <3> QED BY <1>1, <2>1, <3>1, ChainsAgree
  <2>4. a = b
    <3> SUFFICES ASSUME a # b PROVE FALSE
      OBVIOUS
    <3>1. a \in 0..b-1 /\ b \in a+1..b
      BY <1>1
    <3>2. Under(y[b], y[a]) /\ y[a][1] < y[a][2]
      BY <1>1, <3>1, ChainUnder DEF Chain
    <3>3. y[a] = y[b] /\ y[a] \in Procs \X Procs
      BY <1>1, <2>2, <2>3, ChainRanges
    <3> DEFINE z == y[a]
    <3>4. z \in Procs \X Procs /\ Under(z, z) /\ z[1] < z[2]
      BY <3>2, <3>3
    <3> HIDE DEF z
    <3> QED BY <3>4, Halves DEF Under, Inside
  <2> QED BY <2>3, <2>4
<1>2. CASE n <= m
  BY <1>1, <1>2
<1>3. CASE m <= n
  BY <1>1, <1>3
<1> QED BY <1>2, <1>3

\* One process brings the blocks of another into a range.
LEMMA CarriedOnce ==
  ASSUME NEW g, NEW s, NEW r, NEW q, Carried(g, s, r), Carried(g, s, q)
  PROVE  r = q
<1>1. PICK n \in Nat : \E f, c :
        /\ Chain(f, n) /\ f[n] = g
        /\ c[0] = s /\ \A i \in 0..n-1 : c[i+1] = NextCarrier(f[i], f[i+1], c[i])
        /\ c[n] = r
  BY DEF Carried
<1>2. PICK f, c :
        /\ Chain(f, n) /\ f[n] = g
        /\ c[0] = s /\ \A i \in 0..n-1 : c[i+1] = NextCarrier(f[i], f[i+1], c[i])
        /\ c[n] = r
  BY <1>1
<1>3. PICK m \in Nat : \E h, d :
        /\ Chain(h, m) /\ h[m] = g
        /\ d[0] = s /\ \A i \in 0..m-1 : d[i+1] = NextCarrier(h[i], h[i+1], d[i])
        /\ d[m] = q
  BY DEF Carried
<1>4. PICK h, d :
        /\ Chain(h, m) /\ h[m] = g
        /\ d[0] = s /\ \A i \in 0..m-1 : d[i+1] = NextCarrier(h[i], h[i+1], d[i])
        /\ d[m] = q
  BY <1>3
<1>5. n = m /\ \A i \in 0..n : f[i] = h[i]
  BY <1>2, <1>4, OneChain
<1> DEFINE Bad == {i \in 0..n : c[i] # d[i]}
<1>6. Bad = {}
  <2> SUFFICES ASSUME Bad # {} PROVE FALSE
    OBVIOUS
  <2>1. PICK x \in Bad : \A y \in Bad : x <= y
    <3>1. Bad \subseteq Nat
      OBVIOUS
    <3> HIDE DEF Bad
    <3> QED BY <3>1, LeastNatural
  <2>2. x \in 0..n /\ c[x] # d[x] /\ x # 0
    BY <1>2, <1>4, <2>1
  <2>3. PICK i \in 0..n-1 : x = i + 1
    <3>1. x - 1 \in 0..n-1 /\ x = (x - 1) + 1
      BY <2>2
    <3> QED BY <3>1
  <2>4. i \in 0..n /\ ~ (x <= i) /\ i + 1 \in 0..n /\ i \in 0..m-1
    BY <1>5, <2>3
  <2>5. c[i] = d[i]
    BY <2>1, <2>4
  <2>6. f[i] = h[i] /\ f[i+1] = h[i+1]
    BY <1>5, <2>4
  <2>7. c[i+1] = NextCarrier(f[i], f[i+1], c[i]) /\ d[i+1] = NextCarrier(h[i], h[i+1], d[i])
    BY <1>2, <1>4, <2>4
  <2>8. c[i+1] = d[i+1]
    BY <2>5, <2>6, <2>7, Zenon
  <2> QED BY <2>2, <2>3, <2>8
<1>7. n \in 0..n
  OBVIOUS
<1> QED BY <1>2, <1>4, <1>5, <1>6, <1>7

\* Its own blocks into the range of all, and then as NextCarrier says.
LEMMA CarriedRoot == \A s : Carried(<<0, P-1>>, s, s)
<1> SUFFICES ASSUME NEW s PROVE Carried(<<0, P-1>>, s, s)
  OBVIOUS
<1> DEFINE f == [i \in 0..0 |-> <<0, P-1>>]  c == [i \in 0..0 |-> s]
<1>1. Chain(f, 0) /\ f[0] = <<0, P-1>> /\ c[0] = s
  BY DEF Chain
<1> HIDE DEF f, c
<1>2. \A i \in 0..0-1 : c[i+1] = NextCarrier(f[i], f[i+1], c[i])
  OBVIOUS
<1>3. 0 \in Nat
  OBVIOUS
<1> QED BY <1>1, <1>2, <1>3 DEF Carried

LEMMA CarriedNext ==
  ASSUME NEW g, NEW s, NEW q, Carried(g, s, q), g[1] < g[2], NEW h, h = Lo(g) \/ h = Up(g)
  PROVE  Carried(h, s, NextCarrier(g, h, q))
<1>1. PICK n \in Nat : \E f, c :
        /\ Chain(f, n) /\ f[n] = g
        /\ c[0] = s /\ \A i \in 0..n-1 : c[i+1] = NextCarrier(f[i], f[i+1], c[i])
        /\ c[n] = q
  BY DEF Carried
<1>2. PICK f, c :
        /\ Chain(f, n) /\ f[n] = g
        /\ c[0] = s /\ \A i \in 0..n-1 : c[i+1] = NextCarrier(f[i], f[i+1], c[i])
        /\ c[n] = q
  BY <1>1
<1>3. PICK k : Chain(k, n+1) /\ k[n+1] = h /\ \A i \in 0..n : k[i] = f[i]
  <2>1. GoesOn(f, n, h)
    BY <1>2 DEF GoesOn
  <2> QED BY <2>1, ChainGrows
<1> DEFINE d == [i \in 0..n+1 |-> IF i = n+1 THEN NextCarrier(g, h, q) ELSE c[i]]
<1>4. d[n+1] = NextCarrier(g, h, q) /\ \A i \in 0..n : d[i] = c[i]
  OBVIOUS
<1> HIDE DEF d
<1>5. ASSUME NEW i \in 0..(n+1)-1 PROVE d[i+1] = NextCarrier(k[i], k[i+1], d[i])
  <2>1. CASE i = n
    <3>1. d[i+1] = NextCarrier(g, h, q) /\ k[i] = g /\ k[i+1] = h /\ d[i] = q
      BY <1>2, <1>3, <1>4, <2>1
    <3> QED BY <3>1, Zenon
  <2>2. CASE i # n
    <3>1. i \in 0..n-1 /\ i \in 0..n /\ i + 1 \in 0..n
      BY <2>2
    <3>2. c[i+1] = NextCarrier(f[i], f[i+1], c[i])
      BY <1>2, <3>1
    <3>3. k[i] = f[i] /\ k[i+1] = f[i+1] /\ d[i] = c[i] /\ d[i+1] = c[i+1]
      BY <1>3, <1>4, <3>1
    <3> QED BY <3>2, <3>3, Zenon
  <2> QED BY <2>1, <2>2
<1>6. d[0] = s /\ n + 1 \in Nat
  BY <1>2, <1>4
<1> DEFINE r == NextCarrier(g, h, q)
<1>7. d[n+1] = r
  BY <1>4
<1> HIDE DEF r
<1>8. Carried(h, s, r)
  BY <1>3, <1>5, <1>6, <1>7 DEF Carried
<1> QED BY <1>8 DEF r

\* the partner, case by case
LEMMA PartnerCases ==
  ASSUME NEW g \in Procs \X Procs, g[1] < g[2], NEW r \in Procs, In(r, g)
  PROVE  /\ r <= Split(g) => /\ HalfOf(g, r) = Lo(g) /\ OtherOf(g, r) = Up(g)
                             /\ PartnerIn(g, r) = IF r + Split(g) + 1 - g[1] > g[2] THEN g[2]
                                                  ELSE r + Split(g) + 1 - g[1]
         /\ ~ (r <= Split(g)) => /\ HalfOf(g, r) = Up(g) /\ OtherOf(g, r) = Lo(g)
                                 /\ PartnerIn(g, r) = r + g[1] - (Split(g) + 1)
<1> DEFINE a == g[1]  b == g[2]  m == Split(g)
<1>1. /\ a \in Nat /\ b \in Nat /\ m \in Nat /\ a <= m /\ m < b
      /\ Lo(g)[1] = a /\ Up(g)[1] = m + 1 /\ r \in Nat /\ a <= r /\ r <= b
  BY Halves, ProcsNat DEF In
<1>2. r <= m => HalfOf(g, r) = Lo(g) /\ OtherOf(g, r) = Up(g)
  BY DEF HalfOf, OtherOf
<1>3. ~ (r <= m) => HalfOf(g, r) = Up(g) /\ OtherOf(g, r) = Lo(g)
  BY DEF HalfOf, OtherOf
<1> DEFINE k == r + OtherOf(g, r)[1] - HalfOf(g, r)[1]
<1>4. PartnerIn(g, r) = IF k > b THEN b ELSE k
  BY DEF PartnerIn
<1>5. r <= m => k = r + m + 1 - a
  BY <1>1, <1>2
<1>6. ~ (r <= m) => k = r + a - (m + 1)
  BY <1>1, <1>3
<1> HIDE DEF k, a, b, m
<1>7. r <= m => PartnerIn(g, r) = IF r + m + 1 - a > b THEN b ELSE r + m + 1 - a
  BY <1>4, <1>5, Zenon
<1>8. ~ (r <= m) => PartnerIn(g, r) = r + a - (m + 1)
  BY <1>1, <1>4, <1>6
<1> QED BY <1>2, <1>3, <1>7, <1>8 DEF a, b, m

\* The partner is in the other half, and its partner is the process itself, but
\* for the middle one of an odd number, whose partner is the last, which has it
\* as its extra partner.
LEMMA PartnerIs ==
  ASSUME NEW g \in Procs \X Procs, g[1] < g[2], NEW r \in Procs, In(r, g)
  PROVE  LET p == PartnerIn(g, r) IN
         /\ p \in Procs /\ In(p, g) /\ p # r
         /\ HalfOf(g, p) = OtherOf(g, r) /\ OtherOf(g, p) = HalfOf(g, r)
         /\ PartnerIn(g, p) # r => ExtraIn(g, p) /\ r = Split(g)
         /\ In(r, HalfOf(g, r)) /\ ~ In(p, HalfOf(g, r))
<1> DEFINE a == g[1]  b == g[2]  m == Split(g)  p == PartnerIn(g, r)
<1>1. /\ a \in Nat /\ b \in Nat /\ m \in Nat /\ a <= m /\ m < b
      /\ r \in Nat /\ a <= r /\ r <= b /\ P \in Nat /\ a \in Procs /\ b \in Procs
      /\ Lo(g)[1] = a /\ Lo(g)[2] = m /\ Up(g)[1] = m + 1 /\ Up(g)[2] = b
      /\ (b - a) % 2 = 0 => a + b = 2 * m
      /\ (b - a) % 2 # 0 => a + b = 2 * m + 1
  BY Halves, ProcsNat DEF In
<1>2. r <= m => /\ HalfOf(g, r) = Lo(g) /\ OtherOf(g, r) = Up(g)
                /\ p = IF r + m + 1 - a > b THEN b ELSE r + m + 1 - a
  BY PartnerCases
<1>3. ~ (r <= m) => /\ HalfOf(g, r) = Up(g) /\ OtherOf(g, r) = Lo(g)
                    /\ p = r + a - (m + 1)
  BY PartnerCases
<1>4. a + b = 2 * m \/ a + b = 2 * m + 1
  BY <1>1
<1> HIDE DEF a, b, m, p
<1>5. r <= m => m < p /\ p <= b /\ p \in Nat
  BY <1>1, <1>2
<1>6. ~ (r <= m) => a <= p /\ p <= m /\ p \in Nat
  BY <1>1, <1>3, <1>4
<1>7. p \in Procs /\ In(p, g) /\ p # r
  <2>1. p \in Nat /\ a <= p /\ p <= b /\ p # r
    BY <1>1, <1>5, <1>6
  <2>2. p \in Procs
    BY <1>1, <2>1, ProcsNat
  <2> QED BY <2>1, <2>2 DEF In, a, b
<1>8. /\ p <= m => /\ HalfOf(g, p) = Lo(g) /\ OtherOf(g, p) = Up(g)
                   /\ PartnerIn(g, p) = IF p + m + 1 - a > b THEN b ELSE p + m + 1 - a
      /\ ~ (p <= m) => /\ HalfOf(g, p) = Up(g) /\ OtherOf(g, p) = Lo(g)
                       /\ PartnerIn(g, p) = p + a - (m + 1)
  BY <1>7, PartnerCases DEF a, b, m
<1>9. HalfOf(g, p) = OtherOf(g, r) /\ OtherOf(g, p) = HalfOf(g, r)
  BY <1>1, <1>2, <1>3, <1>5, <1>6, <1>8
<1>10. ASSUME PartnerIn(g, p) # r PROVE ExtraIn(g, p) /\ r = m
  <2>1. CASE r <= m
    <3>1. PartnerIn(g, p) = p + a - (m + 1)
      BY <1>1, <1>5, <1>8, <2>1
    <3>2. p # r + m + 1 - a
      BY <1>1, <1>10, <3>1
    <3>3. p = b /\ r + m + 1 - a > b
      BY <1>2, <2>1, <3>2
    <3>4. r = m /\ a + b = 2 * m
      BY <1>1, <1>4, <2>1, <3>3
    <3>5. (b - a) % 2 = 0
      BY <1>1, <3>4
    <3> QED BY <3>3, <3>4, <3>5 DEF ExtraIn, a, b
  <2>2. CASE ~ (r <= m)
    <3>1. p <= m /\ p = r + a - (m + 1)
      BY <1>3, <1>6, <2>2
    <3>2. PartnerIn(g, p) = IF p + m + 1 - a > b THEN b ELSE p + m + 1 - a
      BY <1>8, <3>1
    <3>3. p + m + 1 - a = r /\ ~ (r > b)
      BY <1>1, <3>1
    <3> QED BY <1>10, <3>2, <3>3
  <2> QED BY <2>1, <2>2
<1>11. In(r, HalfOf(g, r)) /\ ~ In(p, HalfOf(g, r))
  BY <1>1, <1>2, <1>3, <1>5, <1>6 DEF In
<1> QED BY <1>7, <1>9, <1>10, <1>11 DEF p, m

\* The last of an odd number has a second partner, the middle one.
LEMMA ExtraIs ==
  ASSUME NEW g \in Procs \X Procs, g[1] < g[2], NEW r \in Procs, In(r, g), ExtraIn(g, r)
  PROVE  LET m == Split(g) IN
         /\ m \in Procs /\ In(m, g) /\ m # r /\ m # PartnerIn(g, r)
         /\ HalfOf(g, m) = OtherOf(g, r) /\ OtherOf(g, m) = HalfOf(g, r)
         /\ PartnerIn(g, m) = r /\ PartnerIn(g, PartnerIn(g, r)) = r /\ ~ In(m, HalfOf(g, r))
<1> DEFINE a == g[1]  b == g[2]  m == Split(g)
<1>1. /\ a \in Nat /\ b \in Nat /\ m \in Nat /\ a <= m /\ m < b
      /\ r \in Nat /\ a <= r /\ r <= b /\ P \in Nat /\ a \in Procs /\ b \in Procs
      /\ Lo(g)[1] = a /\ Lo(g)[2] = m /\ Up(g)[1] = m + 1 /\ Up(g)[2] = b
      /\ r = b /\ a + b = 2 * m
  BY Halves, ProcsNat DEF In, ExtraIn
<1> HIDE DEF a, b, m
<1>2. m \in Procs /\ In(m, g)
  <2>1. m \in Procs
    BY <1>1, ProcsNat
  <2> QED BY <1>1, <2>1 DEF In, a, b
<1>3. /\ HalfOf(g, m) = Lo(g) /\ OtherOf(g, m) = Up(g)
      /\ PartnerIn(g, m) = IF m + m + 1 - a > b THEN b ELSE m + m + 1 - a
  <2>1. m <= m
    BY <1>1
  <2> QED BY <1>2, <2>1, PartnerCases DEF a, b, m
<1>4. HalfOf(g, r) = Up(g) /\ OtherOf(g, r) = Lo(g) /\ PartnerIn(g, r) = r + a - (m + 1)
  <2>1. ~ (r <= m)
    BY <1>1
  <2> QED BY <2>1, PartnerCases DEF a, b, m
<1>5. PartnerIn(g, m) = r /\ m # r /\ m # PartnerIn(g, r)
  BY <1>1, <1>3, <1>4
<1>6. PartnerIn(g, PartnerIn(g, r)) = r
  BY <1>5, PartnerIs DEF m
<1>7. ~ In(m, HalfOf(g, r))
  BY <1>1, <1>4 DEF In
<1> QED BY <1>2, <1>3, <1>4, <1>5, <1>6, <1>7 DEF m

\* Peers are in different halves, and are peers both ways.
LEMMA PeersAre ==
  ASSUME NEW g \in Procs \X Procs, NEW s \in Procs, NEW d \in Procs, Peers(g, s, d)
  PROVE  /\ g[1] < g[2] /\ In(s, g) /\ In(d, g) /\ s # d /\ Peers(g, d, s)
         /\ HalfOf(g, d) = OtherOf(g, s) /\ HalfOf(g, s) = OtherOf(g, d)
         /\ d # PartnerIn(g, s) => ExtraIn(g, s) /\ d = Split(g) /\ s = PartnerIn(g, d)
         /\ s # PartnerIn(g, d) => ExtraIn(g, d) /\ s = Split(g) /\ d = PartnerIn(g, s)
<1>1. g[1] < g[2] /\ In(s, g) /\ In(d, g) /\ (d = PartnerIn(g, s) \/ (ExtraIn(g, s) /\ d = Split(g)))
  BY DEF Peers
<1>2. CASE d = PartnerIn(g, s)
  <2>1. /\ d # s /\ HalfOf(g, d) = OtherOf(g, s) /\ OtherOf(g, d) = HalfOf(g, s)
        /\ PartnerIn(g, d) # s => ExtraIn(g, d) /\ s = Split(g)
    BY <1>1, <1>2, PartnerIs
  <2>2. Peers(g, d, s)
    BY <1>1, <2>1 DEF Peers
  <2> QED BY <1>1, <1>2, <2>1, <2>2
<1>3. CASE d # PartnerIn(g, s)
  <2>1. ExtraIn(g, s) /\ d = Split(g)
    BY <1>1, <1>3
  <2>2. /\ d # s /\ HalfOf(g, d) = OtherOf(g, s) /\ OtherOf(g, d) = HalfOf(g, s)
        /\ PartnerIn(g, d) = s
    BY <1>1, <2>1, ExtraIs
  <2>3. Peers(g, d, s)
    BY <1>1, <2>2 DEF Peers
  <2> QED BY <1>1, <1>3, <2>1, <2>2, <2>3
<1> QED BY <1>2, <1>3

\* Two processes are peers in one range.
LEMMA OneRange ==
  ASSUME NEW g \in Ranges, NEW h \in Ranges, NEW s \in Procs, NEW d \in Procs,
         Peers(g, s, d), Peers(h, s, d)
  PROVE  g = h
<1>1. ASSUME NEW x \in Ranges, NEW y \in Ranges, Peers(x, s, d), Peers(y, s, d)
      PROVE  ~ Under(x, y)
  <2>1. x \in Procs \X Procs /\ y \in Procs \X Procs
    BY RangeIs
  <2>2. /\ y[1] < y[2] /\ In(s, y) /\ In(d, y) /\ HalfOf(y, d) = OtherOf(y, s)
        /\ In(s, x) /\ In(d, x)
    BY <1>1, <2>1, PeersAre
  <2>3. /\ y[1] \in Nat /\ y[2] \in Nat /\ Split(y) \in Nat /\ x[1] \in Nat /\ x[2] \in Nat
        /\ Lo(y)[1] = y[1] /\ Lo(y)[2] = Split(y) /\ Up(y)[1] = Split(y) + 1 /\ Up(y)[2] = y[2]
        /\ s \in Nat /\ d \in Nat
    BY <2>1, <2>2, Halves, ProcsNat
  <2>4. s <= Split(y) <=> ~ (d <= Split(y))
    <3>1. Lo(y) # Up(y)
      <4>1. Lo(y)[1] # Up(y)[1]
        BY <2>1, <2>2, Halves
      <4> QED BY <4>1
    <3> QED BY <2>2, <3>1 DEF HalfOf, OtherOf
  <2> QED BY <2>2, <2>3, <2>4 DEF Under, Inside, In
<1>2. ~ Under(g, h) /\ ~ Under(h, g)
  BY <1>1
<1>3. ~ Apart(g, h)
  <2>1. In(s, g) /\ In(s, h) /\ s \in Nat
    BY ProcsNat DEF Peers
  <2>2. g[1] \in Nat /\ g[2] \in Nat /\ h[1] \in Nat /\ h[2] \in Nat
    BY RangeIs
  <2> QED BY <2>1, <2>2 DEF Apart, In
<1> QED BY <1>2, <1>3, RangesNest

\* A process goes from a range to the half that holds it.  Of the ranges that
\* hold it, those that were to come and are not the new one are still to come.
LEMMA StillToCome ==
  ASSUME NEW g \in Ranges, g[1] < g[2], NEW r \in Procs, In(r, g), NEW h, h = HalfOf(g, r),
         NEW x \in Ranges, In(r, x)
  PROVE  /\ h \in Ranges /\ In(r, h) /\ h # g /\ Under(h, g) /\ ~ Under(g, h)
         /\ x # g /\ x # h => (Under(x, g) <=> Under(x, h))
<1> DEFINE a == g[1]  b == g[2]  m == Split(g)
<1>1. g \in Procs \X Procs
  BY RangeIs
<1>2. /\ a \in Nat /\ b \in Nat /\ m \in Nat /\ a <= m /\ m < b /\ r \in Nat /\ a <= r /\ r <= b
      /\ Lo(g)[1] = a /\ Lo(g)[2] = m /\ Up(g)[1] = m + 1 /\ Up(g)[2] = b
  BY <1>1, Halves, ProcsNat DEF In
<1>3. h \in Ranges /\ (h = Lo(g) \/ h = Up(g))
  BY HalfRange DEF HalfOf
<1>4. In(r, h)
  BY <1>1, PartnerIs
<1>5. /\ x[1] \in Nat /\ x[2] \in Nat /\ x[1] <= x[2] /\ x[1] <= r /\ r <= x[2]
      /\ h[1] \in Nat /\ h[2] \in Nat /\ h[1] <= h[2] /\ h[1] <= r /\ r <= h[2]
      /\ h \in Procs \X Procs
  BY <1>3, <1>4, RangeIs DEF In
<1>6. a <= h[1] /\ h[2] <= b /\ (h[1] = a => h[2] < b)
  BY <1>2, <1>3
<1> HIDE DEF a, b, m
<1>7. Under(h, g)
  BY <1>2, <1>3, <1>5 DEF Under, Inside, a, b
<1>8. h[1] < h[2] => /\ Lo(h)[1] = h[1] /\ Lo(h)[2] = Split(h) /\ Up(h)[1] = Split(h) + 1 /\ Up(h)[2] = h[2]
                     /\ h[1] <= Split(h) /\ Split(h) < h[2] /\ Split(h) \in Nat
  BY <1>5, Halves
<1>9. ~ Under(g, h) /\ h # g
  <2>1. h # g
    BY <1>2, <1>6 DEF a, b
  <2>2. ~ Under(g, h)
    BY <1>2, <1>5, <1>6, <1>8 DEF Under, Inside, a, b
  <2> QED BY <2>1, <2>2
<1>10. Under(x, h) => Under(x, g)
  <2> SUFFICES ASSUME Under(x, h) PROVE Under(x, g)
    OBVIOUS
  <2>1. h[1] <= x[1] /\ x[2] <= h[2]
    BY <1>5, <1>8 DEF Under, Inside
  <2> QED BY <1>2, <1>3, <2>1 DEF Under, Inside, a, b
<1>11. ASSUME Under(x, g), x # h PROVE Under(x, h)
  <2>1. h[1] <= x[1] /\ x[2] <= h[2]
    <3>1. (a <= x[1] /\ x[2] <= m) \/ (m + 1 <= x[1] /\ x[2] <= b)
      BY <1>2, <1>11 DEF Under, Inside
    <3>2. (h[1] = a /\ h[2] = m) \/ (h[1] = m + 1 /\ h[2] = b)
      BY <1>2, <1>3
    <3> QED BY <1>2, <1>5, <3>1, <3>2
  <2>2. ~ Apart(x, h)
    BY <1>2, <1>5 DEF Apart
  <2>3. ~ Under(h, x)
    <3> SUFFICES ASSUME Under(h, x) PROVE FALSE
      OBVIOUS
    <3>1. x[1] < x[2] /\ x \in Procs \X Procs
      BY RangeIs DEF Under
    <3>2. /\ Lo(x)[1] = x[1] /\ Lo(x)[2] = Split(x) /\ Up(x)[1] = Split(x) + 1 /\ Up(x)[2] = x[2]
          /\ x[1] <= Split(x) /\ Split(x) < x[2] /\ Split(x) \in Nat
      BY <3>1, Halves
    <3> QED BY <1>5, <2>1, <3>2 DEF Under, Inside
  <2> QED BY <1>3, <1>11, <2>2, <2>3, RangesNest
<1> QED BY <1>3, <1>4, <1>7, <1>9, <1>10, <1>11

LEMMA SameSequence ==
  ASSUME NEW W, NEW s \in Seq(W), NEW t \in Seq(W), Len(s) = Len(t), \A i \in 1..Len(s) : s[i] = t[i]
  PROVE  s = t
  OBVIOUS

\* the part of a sequence from a + 1 to a + n
LEMMA PartIs ==
  ASSUME NEW W, NEW s \in Seq(W), NEW a \in Nat, NEW n \in Nat, a + n <= Len(s)
  PROVE  /\ SubSeq(s, a + 1, a + n) \in Seq(W) /\ Len(SubSeq(s, a + 1, a + n)) = n
         /\ \A x \in 1..n : SubSeq(s, a + 1, a + n)[x] = s[a + x]
  OBVIOUS

\* the first i lengths from the a-th on
LEMMA PartOfPart ==
  ASSUME NEW counts \in Seq(Nat), NEW a \in 1..Len(counts), NEW b \in a..Len(counts), NEW i \in 0..b-a+1
  PROVE  SubSeq(SubSeq(counts, a, b), 1, i) = SubSeq(counts, a, (a - 1) + i)
<1> DEFINE c == SubSeq(counts, a, b)  k == (a - 1) + i
<1>1. c \in Seq(Nat) /\ Len(c) = b - a + 1 /\ \A x \in 1..b-a+1 : c[x] = counts[(a - 1) + x]
  OBVIOUS
<1>2. k \in 0..Len(counts) /\ a <= k + 1 /\ k - a + 1 = i
  OBVIOUS
<1>3. SubSeq(counts, a, k) \in Seq(Nat) /\ Len(SubSeq(counts, a, k)) = i
      /\ \A x \in 1..i : SubSeq(counts, a, k)[x] = counts[(a - 1) + x]
  <2> HIDE DEF k
  <2> QED BY <1>2
<1> HIDE DEF c
<1>4. SubSeq(c, 1, i) \in Seq(Nat) /\ Len(SubSeq(c, 1, i)) = i /\ \A x \in 1..i : SubSeq(c, 1, i)[x] = c[x]
  <2>1. i \in Nat /\ i <= Len(c) /\ 0 + i = i /\ 0 + 1 = 1 /\ 0 \in Nat /\ \A x \in 1..i : 0 + x = x
    BY <1>1
  <2>2. /\ SubSeq(c, 0 + 1, 0 + i) \in Seq(Nat) /\ Len(SubSeq(c, 0 + 1, 0 + i)) = i
        /\ \A x \in 1..i : SubSeq(c, 0 + 1, 0 + i)[x] = c[0 + x]
    <3>1. 0 + i <= Len(c)
      BY <2>1
    <3>2. c \in Seq(Nat) /\ 0 \in Nat /\ i \in Nat
      BY <1>1, <2>1, Zenon
    <3> QED BY <3>1, <3>2, PartIs, Zenon
  <2> QED BY <2>1, <2>2
<1>5. \A x \in 1..i : SubSeq(c, 1, i)[x] = SubSeq(counts, a, k)[x]
  <2>1. \A x \in 1..i : x \in 1..b-a+1
    OBVIOUS
  <2> QED BY <1>1, <1>3, <1>4, <2>1
<1> HIDE DEF k
<1>6. SubSeq(c, 1, i) = SubSeq(counts, a, k)
  BY <1>3, <1>4, <1>5, SameSequence
<1> QED BY <1>6 DEF c, k

\* buf holds segments of lengths counts, and the i-th of them where it should be
Buffer(W, buf, counts) == buf \in Seq(W) /\ counts \in Seq(Nat) /\ Len(buf) = Total(counts)

SegmentAt(W, buf, counts, i) ==
  /\ Segment(buf, counts, i) \in Seq(W) /\ Len(Segment(buf, counts, i)) = counts[i]
  /\ counts[i] \in Nat
  /\ \A x \in 1..counts[i] :
       /\ Total(SubSeq(counts, 1, i-1)) + x \in 1..Len(buf)
       /\ Segment(buf, counts, i)[x] = buf[Total(SubSeq(counts, 1, i-1)) + x]

LEMMA SegmentOf ==
  ASSUME NEW W, NEW buf, NEW counts, Buffer(W, buf, counts), NEW i \in 1..Len(counts)
  PROVE  SegmentAt(W, buf, counts, i)
<1>1. buf \in Seq(W) /\ counts \in Seq(Nat) /\ Len(buf) = Total(counts)
  BY DEF Buffer
<1>2. counts[i] \in Nat
  BY <1>1, ElementOfSeq, Zenon
<1> QED BY <1>1, <1>2, SegmentIs DEF SegmentAt

\* Segments that lie p places further on in another buffer are those of the
\* other buffer.
Shifted(buf, counts, j, t, c, i, p) ==
  /\ \A x \in 1..Len(t) : t[x] = buf[p + x]
  /\ c[i] = counts[j] /\ p \in Nat /\ Total(SubSeq(c, 1, i-1)) \in Nat
  /\ Total(SubSeq(counts, 1, j-1)) = p + Total(SubSeq(c, 1, i-1))

LEMMA SegmentsShift ==
  ASSUME NEW W, NEW buf, NEW counts, Buffer(W, buf, counts), NEW t, NEW c, Buffer(W, t, c),
         NEW p, NEW i \in 1..Len(c), NEW j \in 1..Len(counts), Shifted(buf, counts, j, t, c, i, p)
  PROVE  Segment(t, c, i) = Segment(buf, counts, j)
<1> DEFINE s == Segment(t, c, i)  u == Segment(buf, counts, j)  m == Total(SubSeq(c, 1, i-1))
           M == Total(SubSeq(counts, 1, j-1))
<1>1. SegmentAt(W, t, c, i) /\ SegmentAt(W, buf, counts, j)
  BY SegmentOf, Zenon
<1>2. /\ s \in Seq(W) /\ Len(s) = c[i] /\ c[i] \in Nat
      /\ \A x \in 1..c[i] : m + x \in 1..Len(t) /\ s[x] = t[m + x]
  BY <1>1, Zenon DEF SegmentAt
<1>3. /\ u \in Seq(W) /\ Len(u) = counts[j]
      /\ \A x \in 1..counts[j] : u[x] = buf[M + x]
  BY <1>1, Zenon DEF SegmentAt
<1>4. /\ \A x \in 1..Len(t) : t[x] = buf[p + x]
      /\ c[i] = counts[j] /\ p \in Nat /\ m \in Nat /\ M = p + m
  BY Zenon DEF Shifted
<1> HIDE DEF s, u, m, M
<1>5. ASSUME NEW x \in 1..Len(s) PROVE s[x] = u[x]
  <2>1. x \in 1..c[i] /\ M + x = p + (m + x)
    BY <1>2, <1>4
  <2>2. m + x \in 1..Len(t) /\ s[x] = t[m + x] /\ u[x] = buf[M + x]
    BY <1>2, <1>3, <1>4, <2>1
  <2> QED BY <1>4, <2>1, <2>2
<1>6. Len(s) = Len(u) /\ s \in Seq(W) /\ u \in Seq(W)
  BY <1>2, <1>3, <1>4
<1> QED BY <1>5, <1>6, SameSequence, Zenon DEF s, u

\* Segments a to b of a buffer are a buffer, with those segments.
Cut(buf, counts, a, b) ==
  SubSeq(buf, Total(SubSeq(counts, 1, a - 1)) + 1, Total(SubSeq(counts, 1, b)))

LEMMA CutIs ==
  ASSUME NEW W, NEW buf \in Seq(W), NEW counts \in Seq(Nat), Len(buf) = Total(counts),
         NEW a \in 1..Len(counts), NEW b \in a..Len(counts)
  PROVE  LET c == SubSeq(counts, a, b)
             t == Cut(buf, counts, a, b)
         IN
         /\ c \in Seq(Nat) /\ Len(c) = b - a + 1 /\ t \in Seq(W) /\ Len(t) = Total(c)
         /\ \A i \in 1..Len(c) : /\ (a - 1) + i \in 1..Len(counts)
                                 /\ Segment(t, c, i) = Segment(buf, counts, (a - 1) + i)
<1> DEFINE p == Total(SubSeq(counts, 1, a - 1))  c == SubSeq(counts, a, b)  z == Total(c)
           t == Cut(buf, counts, a, b)
<1>1. /\ c \in Seq(Nat) /\ Len(c) = b - a + 1 /\ \A x \in 1..b-a+1 : c[x] = counts[(a - 1) + x]
  OBVIOUS
<1>2. /\ z \in Nat /\ p \in Nat /\ Total(SubSeq(counts, 1, b)) = p + z /\ p + z <= Len(buf)
  <2>1. b \in 0..Len(counts) /\ a \in 1..b+1
    OBVIOUS
  <2>2. /\ Total(SubSeq(counts, a, b)) \in Nat
        /\ Total(SubSeq(counts, 1, b)) = Total(SubSeq(counts, 1, a-1)) + Total(SubSeq(counts, a, b))
        /\ Total(SubSeq(counts, 1, a-1)) \in Nat /\ Total(SubSeq(counts, 1, b)) <= Total(counts)
    BY <2>1, TotalCut
  <2> QED BY <2>2
<1>3. t = SubSeq(buf, p + 1, p + z)
  BY <1>2 DEF Cut
<1> HIDE DEF p, t
<1>4. t \in Seq(W) /\ Len(t) = z /\ \A x \in 1..z : t[x] = buf[p + x]
  <2> HIDE DEF z, c
  <2> QED BY <1>2, <1>3, PartIs
<1>5. ASSUME NEW i \in 1..Len(c)
      PROVE  /\ (a - 1) + i \in 1..Len(counts)
             /\ Segment(t, c, i) = Segment(buf, counts, (a - 1) + i)
  <2> DEFINE j == (a - 1) + i  m == Total(SubSeq(c, 1, i - 1))
  <2>1. j \in 1..Len(counts) /\ c[i] = counts[j] /\ i - 1 \in 0..b-a+1 /\ j - 1 = (a - 1) + (i - 1)
        /\ j - 1 \in 0..Len(counts) /\ a \in 1..(j - 1)+1
    BY <1>1
  <2> HIDE DEF j
  <2>2. m = Total(SubSeq(counts, a, j - 1))
    <3>1. SubSeq(c, 1, i - 1) = SubSeq(counts, a, (a - 1) + (i - 1))
      BY <2>1, PartOfPart, Zenon
    <3> QED BY <2>1, <3>1, Zenon
  <2>3. /\ Total(SubSeq(counts, 1, j - 1)) = p + Total(SubSeq(counts, a, j - 1))
        /\ Total(SubSeq(counts, a, j - 1)) \in Nat
    BY <2>1, TotalCut DEF p
  <2> HIDE DEF c
  <2>4. Buffer(W, buf, counts) /\ Buffer(W, t, c)
    BY <1>1, <1>4 DEF Buffer
  <2>5. Total(SubSeq(counts, 1, j - 1)) = p + m /\ m \in Nat
    BY <2>2, <2>3
  <2>6. Shifted(buf, counts, j, t, c, i, p)
    BY <1>2, <1>4, <2>1, <2>5, Zenon DEF Shifted
  <2>7. Segment(t, c, i) = Segment(buf, counts, j)
    BY <2>1, <2>4, <2>6, SegmentsShift
  <2> QED BY <2>1, <2>7 DEF j
<1> QED BY <1>1, <1>4, <1>5 DEF z, t

\* Joined segments are the segments of what they are joined to.
LEMMA JoinIs ==
  ASSUME NEW W, NEW segs \in Seq(Seq(W)), NEW counts \in Seq(Nat), Len(segs) = Len(counts),
         \A i \in 1..Len(counts) : Len(segs[i]) = counts[i]
  PROVE  /\ FlattenSeq(segs) \in Seq(W) /\ Len(FlattenSeq(segs)) = Total(counts)
         /\ \A i \in 1..Len(counts) : Segment(FlattenSeq(segs), counts, i) = segs[i]
<1> DEFINE b == FlattenSeq(segs)
<1>1. Joined(W, segs, counts, b)
  BY FlattenIs
<1> HIDE DEF b
<1>2. /\ b \in Seq(W) /\ Len(b) = Total(counts)
      /\ \A i \in 1..Len(counts) : \A x \in 1..counts[i] : b[Total(SubSeq(counts, 1, i-1)) + x] = segs[i][x]
  BY <1>1 DEF Joined
<1>3. ASSUME NEW i \in 1..Len(counts) PROVE Segment(b, counts, i) = segs[i]
  <2> DEFINE u == Segment(b, counts, i)
  <2>1. /\ u \in Seq(W) /\ Len(u) = counts[i]
        /\ \A x \in 1..counts[i] : u[x] = b[Total(SubSeq(counts, 1, i-1)) + x]
    BY <1>2, SegmentIs
  <2>2. segs[i] \in Seq(W) /\ Len(segs[i]) = counts[i]
    BY ElementOfSeq
  <2> HIDE DEF u
  <2>3. \A x \in 1..Len(u) : u[x] = segs[i][x]
    BY <1>2, <2>1
  <2>4. u = segs[i]
    BY <2>1, <2>2, <2>3, SameSequence
  <2> QED BY <2>4 DEF u
<1> QED BY <1>2, <1>3 DEF b

\* The segments of nothing have nothing in them.
LEMMA NoSegments ==
  ASSUME NEW W, NEW counts \in Seq(Nat), Total(counts) = 0, NEW i \in 1..Len(counts)
  PROVE  counts[i] = 0 /\ Segment(<<>>, counts, i) = <<>>
<1>1. <<>> \in Seq(W) /\ Len(<<>>) = 0
  OBVIOUS
<1>2. /\ Segment(<<>>, counts, i) \in Seq(W) /\ Len(Segment(<<>>, counts, i)) = counts[i]
      /\ \A x \in 1..counts[i] : Total(SubSeq(counts, 1, i-1)) + x \in 1..Len(<<>>)
  BY <1>1, SegmentIs
<1>3. counts[i] \in Nat
  BY ElementOfSeq, Zenon
<1>4. counts[i] = 0
  <2> SUFFICES ASSUME counts[i] # 0 PROVE FALSE
    OBVIOUS
  <2>1. 1 \in 1..counts[i]
    BY <1>3
  <2>2. Total(SubSeq(counts, 1, i-1)) + 1 \in 1..0
    BY <1>1, <1>2, <2>1
  <2> QED BY <2>2
<1> QED BY <1>2, <1>4

CutSegments(W, buf, counts, a, b, t, c) ==
  /\ Buffer(W, t, c) /\ Len(c) = b - a + 1
  /\ \A i \in 1..Len(c) : /\ (a - 1) + i \in 1..Len(counts)
                          /\ Segment(t, c, i) = Segment(buf, counts, (a - 1) + i)

LEMMA CutOf ==
  ASSUME NEW W, NEW buf, NEW counts, Buffer(W, buf, counts),
         NEW a \in 1..Len(counts), NEW b \in a..Len(counts)
  PROVE  CutSegments(W, buf, counts, a, b, Cut(buf, counts, a, b), SubSeq(counts, a, b))
<1>1. buf \in Seq(W) /\ counts \in Seq(Nat) /\ Len(buf) = Total(counts)
  BY DEF Buffer
<1> QED BY <1>1, CutIs DEF Buffer, CutSegments

(***************************************************************************)
(* The segments.  Every word of a segment goes to the process the segment  *)
(* is for, and is brought by the process that has it; none is there twice. *)
(***************************************************************************)
Words == Procs \X Procs \X Nat

Brings(seg, d, g, q) ==
  \A x \in 1..Len(seg) : seg[x][2] = d /\ Carried(g, seg[x][1], q)
Distinct(seg) == \A x, y \in 1..Len(seg) : seg[x] = seg[y] => x = y
Disjoint(s, t) == \A x \in 1..Len(s), y \in 1..Len(t) : s[x] # t[y]

\* Buffer buf holds segments of these lengths for the processes of range h, with
\* what q brings into range g.
Carries(buf, counts, h, g, q) ==
  /\ Buffer(Words, buf, counts) /\ Len(counts) = SizeOf(h)
  /\ \A i \in 1..Len(counts) : Brings(Segment(buf, counts, i), h[1] + i - 1, g, q)
                               /\ Distinct(Segment(buf, counts, i))

Zeros(n) == [i \in 1..n |-> 0]

LEMMA PlaceOf == \A g, o \in Nat, i \in Int : g + (((o - g + 1) - 1) + i) - 1 = o + i - 1
  OBVIOUS

\* The segments for the processes of a part of a range.
LEMMA CarriesCut ==
  ASSUME NEW g \in Procs \X Procs, NEW o \in Procs \X Procs, Inside(o, g), o[1] <= o[2],
         NEW buf, NEW counts, NEW k, NEW q, Carries(buf, counts, g, k, q),
         NEW a, a = o[1] - g[1] + 1, NEW b, b = o[2] - g[1] + 1
  PROVE  Carries(Cut(buf, counts, a, b), SubSeq(counts, a, b), o, k, q)
<1> DEFINE c == SubSeq(counts, a, b)  t == Cut(buf, counts, a, b)  N == Len(counts)
<1>1. /\ g[1] \in Nat /\ g[2] \in Nat /\ o[1] \in Nat /\ o[2] \in Nat
      /\ g[1] <= o[1] /\ o[2] <= g[2]
  BY ProcsNat DEF Inside
<1>2. /\ buf \in Seq(Words) /\ counts \in Seq(Nat) /\ Len(buf) = Total(counts) /\ N = SizeOf(g)
      /\ \A i \in 1..N : Brings(Segment(buf, counts, i), g[1] + i - 1, k, q)
                         /\ Distinct(Segment(buf, counts, i))
  BY DEF Carries, Buffer
<1> HIDE DEF N, c, t
<1>3. a \in 1..N /\ b \in a..N /\ b - a + 1 = SizeOf(o) /\ b - a + 1 \in Nat
  <2> DEFINE g1 == g[1]  g2 == g[2]  o1 == o[1]  o2 == o[2]
  <2>1. /\ g1 \in Nat /\ g2 \in Nat /\ o1 \in Nat /\ o2 \in Nat /\ g1 <= o1 /\ o2 <= g2 /\ o1 <= o2
        /\ a = o1 - g1 + 1 /\ b = o2 - g1 + 1 /\ N = g2 - g1 + 1 /\ SizeOf(o) = o2 - o1 + 1
    BY <1>1, <1>2 DEF SizeOf
  <2> HIDE DEF g1, g2, o1, o2
  <2> QED BY <2>1
<1>4. /\ c \in Seq(Nat) /\ Len(c) = b - a + 1 /\ t \in Seq(Words) /\ Len(t) = Total(c)
      /\ \A i \in 1..Len(c) : /\ (a - 1) + i \in 1..N
                              /\ Segment(t, c, i) = Segment(buf, counts, (a - 1) + i)
  <2>1. a \in 1..Len(counts) /\ b \in a..Len(counts)
    BY <1>3, Zenon DEF N
  <2>2. Buffer(Words, buf, counts)
    BY DEF Carries
  <2>3. CutSegments(Words, buf, counts, a, b, t, c)
    BY <2>1, <2>2, CutOf, Zenon DEF t, c
  <2> QED BY <2>3, Zenon DEF CutSegments, Buffer, N
<1>5. ASSUME NEW i \in 1..Len(c)
      PROVE  Brings(Segment(t, c, i), o[1] + i - 1, k, q) /\ Distinct(Segment(t, c, i))
  <2>1. (a - 1) + i \in 1..N /\ g[1] + ((a - 1) + i) - 1 = o[1] + i - 1
    <3>1. (a - 1) + i \in 1..N /\ i \in Int
      BY <1>4
    <3>2. g[1] + (((o[1] - g[1] + 1) - 1) + i) - 1 = o[1] + i - 1
      BY <1>1, <3>1, PlaceOf
    <3> QED BY <3>1, <3>2
  <2>2. /\ Brings(Segment(buf, counts, (a - 1) + i), g[1] + ((a - 1) + i) - 1, k, q)
        /\ Distinct(Segment(buf, counts, (a - 1) + i))
    BY <1>2, <2>1, Zenon
  <2>3. Segment(t, c, i) = Segment(buf, counts, (a - 1) + i)
    BY <1>4, Zenon
  <2> QED BY <2>1, <2>2, <2>3, Zenon
<1>6. Carries(t, c, o, k, q)
  BY <1>3, <1>4, <1>5 DEF Carries, Buffer
<1> QED BY <1>6 DEF c, t

\* Nothing for every process of a range.
LEMMA CarriesNone ==
  ASSUME NEW h \in Procs \X Procs, h[1] <= h[2], NEW g, NEW q
  PROVE  Carries(<<>>, Zeros(SizeOf(h)), h, g, q)
<1> DEFINE n == SizeOf(h)  c == Zeros(n)
<1>1. n \in Nat
  BY ProcsNat DEF SizeOf
<1> HIDE DEF n
<1>2. c \in Seq(Nat) /\ Len(c) = n /\ Total(c) = 0
  BY <1>1, TotalNone DEF Zeros
<1> HIDE DEF c
<1>3. Buffer(Words, <<>>, c)
  BY <1>2 DEF Buffer
<1>4. ASSUME NEW i \in 1..Len(c)
      PROVE  Brings(Segment(<<>>, c, i), h[1] + i - 1, g, q) /\ Distinct(Segment(<<>>, c, i))
  <2>1. Segment(<<>>, c, i) = <<>>
    BY <1>2, NoSegments
  <2> QED BY <2>1 DEF Brings, Distinct
<1> QED BY <1>2, <1>3, <1>4 DEF Carries, n, c

\* one sequence after another, element by element
OneOf(u, x, s, t) ==
  \/ x \in 1..Len(s) /\ u[x] = s[x]
  \/ \E y \in 1..Len(t) : x = Len(s) + y /\ u[x] = t[y]

LEMMA ConcatElement ==
  ASSUME NEW W, NEW s \in Seq(W), NEW t \in Seq(W), NEW x \in 1..Len(s \o t)
  PROVE  OneOf(s \o t, x, s, t)
<1> USE DEF OneOf
<1>1. /\ Len(s \o t) = Len(s) + Len(t) /\ Len(s) \in Nat /\ Len(t) \in Nat
      /\ \A y \in 1..Len(s) : (s \o t)[y] = s[y]
      /\ \A y \in 1..Len(t) : (s \o t)[Len(s) + y] = t[y]
  BY ConcatIs
<1> DEFINE u == s \o t  m == Len(s)  n == Len(t)
<1>2. x \in 1..m+n /\ m \in Nat /\ n \in Nat
  BY <1>1
<1>3. (\A y \in 1..m : u[y] = s[y]) /\ (\A y \in 1..n : u[m + y] = t[y])
  BY <1>1
<1> HIDE DEF u, m, n
<1>4. CASE x <= m
  BY <1>2, <1>3, <1>4 DEF u, m
<1>5. CASE ~ (x <= m)
  <2>1. x - m \in 1..n /\ x = m + (x - m)
    BY <1>2, <1>5
  <2>2. u[m + (x - m)] = t[x - m]
    BY <1>3, <2>1
  <2> QED BY <2>1, <2>2 DEF u, m, n
<1> QED BY <1>4, <1>5

LEMMA ConcatBrings ==
  ASSUME NEW s \in Seq(Words), NEW t \in Seq(Words), NEW d, NEW h, NEW r,
         Brings(s, d, h, r), Brings(t, d, h, r)
  PROVE  Brings(s \o t, d, h, r)
<1> DEFINE u == s \o t
<1>1. \A x \in 1..Len(u) : OneOf(u, x, s, t)
  BY ConcatElement
<1> HIDE DEF u
<1>2. Brings(u, d, h, r)
  BY <1>1, Zenon DEF Brings, OneOf
<1> QED BY <1>2 DEF u

LEMMA ConcatDistinct ==
  ASSUME NEW s \in Seq(Words), NEW t \in Seq(Words), Distinct(s), Distinct(t), Disjoint(s, t)
  PROVE  Distinct(s \o t)
<1> DEFINE u == s \o t
<1>1. \A x \in 1..Len(u) : OneOf(u, x, s, t)
  BY ConcatElement
<1> HIDE DEF u
<1>2. ASSUME NEW x \in 1..Len(u), NEW y \in 1..Len(u), u[x] = u[y] PROVE x = y
  <2>1. OneOf(u, x, s, t) /\ OneOf(u, y, s, t)
    BY <1>1
  <2>2. CASE x \in 1..Len(s) /\ u[x] = s[x]
    BY <1>2, <2>1, <2>2, Zenon DEF OneOf, Distinct, Disjoint
  <2>3. CASE \E z \in 1..Len(t) : x = Len(s) + z /\ u[x] = t[z]
    BY <1>2, <2>1, <2>3, Zenon DEF OneOf, Distinct, Disjoint
  <2> QED BY <2>1, <2>2, <2>3 DEF OneOf
<1>3. Distinct(u)
  BY <1>2 DEF Distinct
<1> QED BY <1>3 DEF u

\* What different processes bring is different.
LEMMA BroughtApart ==
  ASSUME NEW s, NEW t, NEW d, NEW e, NEW g, NEW q, NEW p, Brings(s, d, g, q), Brings(t, e, g, p), q # p
  PROVE  Disjoint(s, t)
<1> SUFFICES ASSUME NEW x \in 1..Len(s), NEW y \in 1..Len(t), s[x] = t[y] PROVE FALSE
  BY DEF Disjoint
<1>1. Carried(g, s[x][1], q) /\ Carried(g, s[x][1], p)
  BY DEF Brings
<1> QED BY <1>1, CarriedOnce

\* What q brings into g, its successor brings into a half.
LEMMA BroughtOn ==
  ASSUME NEW s, NEW d, NEW g, NEW q, Brings(s, d, g, q), g[1] < g[2],
         NEW h, h = Lo(g) \/ h = Up(g)
  PROVE  Brings(s, d, h, NextCarrier(g, h, q))
<1> SUFFICES ASSUME NEW x \in 1..Len(s)
             PROVE  s[x][2] = d /\ Carried(h, s[x][1], NextCarrier(g, h, q))
  BY DEF Brings
<1>1. s[x][2] = d /\ Carried(g, s[x][1], q)
  BY DEF Brings
<1> DEFINE w == s[x][1]
<1>2. Carried(g, w, q)
  BY <1>1
<1> HIDE DEF w
<1>3. Carried(h, w, NextCarrier(g, h, q))
  BY <1>2, CarriedNext
<1> QED BY <1>1, <1>3 DEF w

\* what q brings into g, and r into its half h
Part(seg, d, g, h, q, r) ==
  /\ seg \in Seq(Words) /\ Brings(seg, d, g, q) /\ Distinct(seg)
  /\ seg # <<>> => NextCarrier(g, h, q) = r

LEMMA PartOn ==
  ASSUME NEW g, g[1] < g[2], NEW h, h = Lo(g) \/ h = Up(g),
         NEW seg, NEW d, NEW q, NEW r, Part(seg, d, g, h, q, r)
  PROVE  Brings(seg, d, h, r)
<1>1. CASE seg = <<>>
  BY <1>1 DEF Brings
<1>2. CASE seg # <<>>
  <2>1. NextCarrier(g, h, q) = r /\ Brings(seg, d, g, q)
    BY <1>2 DEF Part
  <2>2. Brings(seg, d, h, NextCarrier(g, h, q))
    BY <2>1, BroughtOn
  <2> QED BY <2>1, <2>2
<1> QED BY <1>1, <1>2

\* three of them, of different processes
Parts(a, b, c, x, y, z, d, g, h, r) ==
  /\ g[1] < g[2] /\ (h = Lo(g) \/ h = Up(g))
  /\ Part(a, d, g, h, x, r) /\ Part(b, d, g, h, y, r) /\ Part(c, d, g, h, z, r)
  /\ x # y /\ (c = <<>> \/ (x # z /\ y # z))

Whole(u, n, d, h, r) == u \in Seq(Words) /\ Len(u) = n /\ Brings(u, d, h, r) /\ Distinct(u)

LEMMA PartsJoin ==
  ASSUME NEW a, NEW b, NEW c, NEW x, NEW y, NEW z, NEW d, NEW g, NEW h, NEW r,
         Parts(a, b, c, x, y, z, d, g, h, r)
  PROVE  Whole(a \o b \o c, Len(a) + Len(b) + Len(c), d, h, r)
<1>0. /\ g[1] < g[2] /\ (h = Lo(g) \/ h = Up(g))
      /\ Part(a, d, g, h, x, r) /\ Part(b, d, g, h, y, r) /\ Part(c, d, g, h, z, r)
      /\ x # y /\ (c = <<>> \/ (x # z /\ y # z))
  BY DEF Parts
<1>1. a \in Seq(Words) /\ b \in Seq(Words) /\ c \in Seq(Words)
  BY <1>0 DEF Part
<1>2. Distinct(a) /\ Distinct(b) /\ Distinct(c)
  BY <1>0 DEF Part
<1>3. Brings(a, d, h, r) /\ Brings(b, d, h, r) /\ Brings(c, d, h, r)
  BY <1>0, PartOn
<1>4. Disjoint(a, b)
  BY <1>0, BroughtApart DEF Part
<1>5. Disjoint(a, c) /\ Disjoint(b, c)
  <2>1. CASE c = <<>>
    BY <2>1 DEF Disjoint
  <2>2. CASE x # z /\ y # z
    BY <1>0, <2>2, BroughtApart DEF Part
  <2> QED BY <1>0, <2>1, <2>2
<1> DEFINE u == a \o b
<1>6. u \in Seq(Words) /\ Len(u) = Len(a) + Len(b) /\ \A i \in 1..Len(u) : OneOf(u, i, a, b)
  BY <1>1, ConcatIs, ConcatElement
<1>7. Brings(u, d, h, r) /\ Distinct(u)
  BY <1>1, <1>2, <1>3, <1>4, ConcatBrings, ConcatDistinct
<1> HIDE DEF u
<1>8. Disjoint(u, c)
  BY <1>5, <1>6, Zenon DEF Disjoint, OneOf
<1>9. u \o c \in Seq(Words) /\ Len(u \o c) = Len(u) + Len(c)
  BY <1>1, <1>6, ConcatIs
<1>10. Brings(u \o c, d, h, r) /\ Distinct(u \o c)
  BY <1>1, <1>2, <1>3, <1>6, <1>7, <1>8, ConcatBrings, ConcatDistinct
<1>11. Len(u) + Len(c) = Len(a) + Len(b) + Len(c)
  BY <1>6
<1> QED BY <1>9, <1>10, <1>11 DEF u, Whole

LEMMA SequenceOf ==
  ASSUME NEW W, NEW n \in Nat, NEW f, f = [i \in 1..n |-> f[i]], \A i \in 1..n : f[i] \in W
  PROVE  f \in Seq(W) /\ Len(f) = n
  OBVIOUS

-----------------------------------------------------------------------------
\* from a on, seg has the block of s for d
BlockAt(C, seg, a, s, d) == \A k \in 1..C[s][d] + 1 : seg[a + k] = <<s, d, k - 1>>

\* seg is n blocks for d, the i-th that of ss[i] and up to at[i], and every
\* process of S has one
Blocks(C, seg, S, d, n, ss, at) ==
  /\ n \in Nat /\ ss \in [1..n -> S] /\ at \in [0..n -> 0..Len(seg)]
  /\ \A s \in S : \E i \in 1..n : ss[i] = s
  /\ at[0] = 0 /\ at[n] = Len(seg)
  /\ \A i \in 1..n : /\ C[ss[i]][d] \in Nat /\ at[i] = at[i-1] + (C[ss[i]][d] + 1)
                     /\ BlockAt(C, seg, at[i-1], ss[i], d)

Holds(C, seg, S, d) == \E n, ss, at : Blocks(C, seg, S, d, n, ss, at)

\* Nothing holds the blocks of nobody, and one block those of its sender.
LEMMA HoldsNone ==
  ASSUME NEW C, NEW d
  PROVE  Holds(C, <<>>, {}, d)
<1>1. Blocks(C, <<>>, {}, d, 0, <<>>, [i \in 0..0 |-> 0])
  BY DEF Blocks
<1> QED BY <1>1, Zenon DEF Holds

LEMMA HoldsOne ==
  ASSUME NEW C, NEW s, NEW d, NEW c \in Nat, c = C[s][d],
         NEW seg, seg = [k \in 1..c + 1 |-> <<s, d, k - 1>>]
  PROVE  Holds(C, seg, {s}, d)
<1> DEFINE ss == [i \in 1..1 |-> s]  at == [i \in 0..1 |-> IF i = 0 THEN 0 ELSE c + 1]
<1>1. Len(seg) = c + 1 /\ \A k \in 1..c+1 : seg[k] = <<s, d, k - 1>>
  <2>1. \A k \in 1..c+1 : seg[k] = <<s, d, k - 1>>
    OBVIOUS
  <2>2. DOMAIN seg = 1..c+1 /\ seg = [k \in 1..c+1 |-> seg[k]] /\ c + 1 \in Nat
    OBVIOUS
  <2> DEFINE W == {seg[k] : k \in 1..c+1}
  <2>3. \A k \in 1..c+1 : seg[k] \in W
    OBVIOUS
  <2> HIDE DEF W
  <2>4. Len(seg) = c + 1
    BY <2>2, <2>3, SequenceOf
  <2> QED BY <2>1, <2>4
<1>2. at \in [0..1 -> 0..c+1] /\ at[0] = 0 /\ at[1] = c + 1
  OBVIOUS
<1>3. ss \in [1..1 -> {s}] /\ ss[1] = s
  OBVIOUS
<1>4. BlockAt(C, seg, 0, s, d)
  BY <1>1 DEF BlockAt
<1> HIDE DEF ss, at
<1>5. ASSUME NEW i \in 1..1
      PROVE  /\ C[ss[i]][d] \in Nat /\ at[i] = at[i-1] + (C[ss[i]][d] + 1)
             /\ BlockAt(C, seg, at[i-1], ss[i], d)
  <2>1. i = 1 /\ i - 1 = 0
    OBVIOUS
  <2>2. C[ss[i]][d] = c /\ at[i] = c + 1 /\ at[i-1] = 0 /\ ss[i] = s
    BY <1>2, <1>3, <2>1, Zenon
  <2>3. c + 1 = 0 + (c + 1)
    OBVIOUS
  <2> QED BY <1>4, <2>2, <2>3, Zenon
<1>6. \A t \in {s} : \E i \in 1..1 : ss[i] = t
  BY <1>3
<1>7. Blocks(C, seg, {s}, d, 1, ss, at)
  BY <1>1, <1>2, <1>3, <1>5, <1>6 DEF Blocks
<1> QED BY <1>7, Zenon DEF Holds

\* Blocks after blocks.
LEMMA HoldsJoin ==
  ASSUME NEW C, NEW W, NEW u \in Seq(W), NEW v \in Seq(W), NEW S, NEW T, NEW d,
         Holds(C, u, S, d), Holds(C, v, T, d)
  PROVE  Holds(C, u \o v, S \cup T, d)
<1>1. PICK n, ss, at : Blocks(C, u, S, d, n, ss, at)
  BY Zenon DEF Holds
<1>2. PICK m, tt, bt : Blocks(C, v, T, d, m, tt, bt)
  BY Zenon DEF Holds
<1>3. PICK w, lu, lv : w = u \o v /\ lu = Len(u) /\ lv = Len(v)
  OBVIOUS
<1>4. /\ lu \in Nat /\ lv \in Nat /\ Len(w) = lu + lv
      /\ \A x \in 1..lu : w[x] = u[x]
      /\ \A x \in 1..lv : w[lu + x] = v[x]
  BY <1>3
<1>5. /\ n \in Nat /\ m \in Nat /\ ss \in [1..n -> S] /\ tt \in [1..m -> T]
      /\ at \in [0..n -> 0..lu] /\ bt \in [0..m -> 0..lv]
      /\ at[0] = 0 /\ at[n] = lu /\ bt[0] = 0 /\ bt[m] = lv
      /\ \A s \in S : \E i \in 1..n : ss[i] = s
      /\ \A s \in T : \E i \in 1..m : tt[i] = s
  BY <1>1, <1>2, <1>3, Zenon DEF Blocks
<1>6. /\ \A i \in 1..n : /\ C[ss[i]][d] \in Nat /\ at[i] = at[i-1] + (C[ss[i]][d] + 1)
                         /\ BlockAt(C, u, at[i-1], ss[i], d)
      /\ \A i \in 1..m : /\ C[tt[i]][d] \in Nat /\ bt[i] = bt[i-1] + (C[tt[i]][d] + 1)
                         /\ BlockAt(C, v, bt[i-1], tt[i], d)
  BY <1>1, <1>2, Zenon DEF Blocks
<1> DEFINE st == [i \in 1..n+m |-> IF i <= n THEN ss[i] ELSE tt[i-n]]
           ct == [i \in 0..n+m |-> IF i <= n THEN at[i] ELSE lu + bt[i-n]]
<1>7. \A i \in 1..n : i \in 1..n+m /\ st[i] = ss[i]
  BY <1>5
<1>8. \A i \in 1..m : n + i \in 1..n+m /\ st[n+i] = tt[i]
  BY <1>5
<1>9. \A i \in 0..n : i \in 0..n+m /\ ct[i] = at[i]
  BY <1>5
<1>10. \A i \in 0..m : n + i \in 0..n+m /\ ct[n+i] = lu + bt[i]
  <2> SUFFICES ASSUME NEW i \in 0..m PROVE n + i \in 0..n+m /\ ct[n+i] = lu + bt[i]
    OBVIOUS
  <2>1. CASE i = 0
    <3>1. n + i = n /\ n \in 0..n /\ n \in 0..n+m
      BY <1>5, <2>1
    <3> QED BY <1>4, <1>5, <1>9, <2>1, <3>1
  <2>2. CASE i # 0
    BY <1>5, <2>2
  <2> QED BY <2>1, <2>2
<1>11. \A i \in 1..n+m : i \in 1..n \/ \E j \in 1..m : i = n + j
  <2> SUFFICES ASSUME NEW i \in 1..n+m, ~ (i \in 1..n) PROVE \E j \in 1..m : i = n + j
    OBVIOUS
  <2>1. i - n \in 1..m /\ i = n + (i - n)
    BY <1>5
  <2> QED BY <2>1
<1>12. st \in [1..n+m -> S \cup T]
  BY <1>5
<1>13. ct \in [0..n+m -> 0..Len(w)]
  <2> SUFFICES ASSUME NEW i \in 0..n+m PROVE (IF i <= n THEN at[i] ELSE lu + bt[i-n]) \in 0..Len(w)
    BY Zenon
  <2>1. CASE i <= n
    <3>1. at[i] \in 0..lu
      BY <1>5, <2>1
    <3>2. at[i] \in 0..Len(w)
      BY <1>4, <3>1
    <3> QED BY <2>1, <3>2, Zenon
  <2>2. CASE ~ (i <= n)
    <3>1. i - n \in 0..m
      BY <1>5, <2>2
    <3>2. bt[i-n] \in 0..lv
      BY <1>5, <3>1
    <3>3. lu + bt[i-n] \in 0..Len(w)
      BY <1>4, <3>2
    <3> QED BY <2>2, <3>3, Zenon
  <2> QED BY <2>1, <2>2
<1>14. ct[0] = 0 /\ ct[n+m] = Len(w)
  <2>1. 0 \in 0..n /\ m \in 0..m
    BY <1>5
  <2>2. ct[0] = at[0] /\ ct[n+m] = lu + bt[m]
    BY <1>9, <1>10, <2>1, Zenon
  <2> QED BY <1>4, <1>5, <2>2, Zenon
<1> HIDE DEF st, ct
<1>15. ASSUME NEW i \in 1..n+m
       PROVE  /\ C[st[i]][d] \in Nat /\ ct[i] = ct[i-1] + (C[st[i]][d] + 1)
              /\ BlockAt(C, w, ct[i-1], st[i], d)
  <2>1. CASE i \in 1..n
    <3>1. i - 1 \in 0..n /\ i \in 0..n
      BY <1>5, <2>1
    <3>2. st[i] = ss[i] /\ ct[i] = at[i] /\ ct[i-1] = at[i-1]
      BY <1>7, <1>9, <2>1, <3>1
    <3>3. PICK c, a : c = C[ss[i]][d] /\ a = at[i-1]
      OBVIOUS
    <3>4. c \in Nat /\ at[i] = a + (c + 1) /\ BlockAt(C, u, a, ss[i], d) /\ at[i] \in 0..lu /\ a \in 0..lu
      BY <1>5, <1>6, <2>1, <3>1, <3>3, Zenon
    <3>5. \A k \in 1..c+1 : u[a+k] = <<ss[i], d, k - 1>>
      BY <3>3, <3>4 DEF BlockAt
    <3>6. \A k \in 1..c+1 : a + k \in 1..lu
      BY <1>4, <3>4
    <3>7. BlockAt(C, w, a, ss[i], d)
      BY <1>4, <3>3, <3>5, <3>6 DEF BlockAt
    <3> QED BY <3>2, <3>3, <3>4, <3>7, Zenon
  <2>2. CASE \E j \in 1..m : i = n + j
    <3>1. PICK j \in 1..m : i = n + j
      BY <2>2
    <3>2. j - 1 \in 0..m /\ j \in 0..m /\ i - 1 = n + (j - 1)
      BY <1>5, <3>1
    <3>3. PICK c, b : c = C[tt[j]][d] /\ b = bt[j-1]
      OBVIOUS
    <3>4. c \in Nat /\ bt[j] = b + (c + 1) /\ BlockAt(C, v, b, tt[j], d) /\ bt[j] \in 0..lv /\ b \in 0..lv
      BY <1>5, <1>6, <3>1, <3>2, <3>3, Zenon
    <3>5. st[i] = tt[j] /\ ct[i] = lu + bt[j] /\ ct[i-1] = lu + b
      BY <1>8, <1>10, <3>1, <3>2, <3>3
    <3>6. \A k \in 1..c+1 : v[b+k] = <<tt[j], d, k - 1>>
      BY <3>3, <3>4 DEF BlockAt
    <3>7. \A k \in 1..c+1 : b + k \in 1..lv /\ (lu + b) + k = lu + (b + k)
      BY <1>4, <3>4
    <3>8. BlockAt(C, w, lu + b, tt[j], d)
      BY <1>4, <3>3, <3>6, <3>7 DEF BlockAt
    <3>9. ct[i] = ct[i-1] + (c + 1)
      BY <1>4, <3>4, <3>5
    <3> QED BY <3>3, <3>4, <3>5, <3>8, <3>9, Zenon
  <2> QED BY <1>11, <2>1, <2>2
<1>16. ASSUME NEW s \in S \cup T PROVE \E i \in 1..n+m : st[i] = s
  <2>1. CASE s \in S
    BY <1>5, <1>7, <2>1
  <2>2. CASE s \in T
    BY <1>5, <1>8, <2>2
  <2> QED BY <2>1, <2>2
<1>17. n + m \in Nat
  BY <1>5
<1>18. Blocks(C, w, S \cup T, d, n + m, st, ct)
  BY <1>12, <1>13, <1>14, <1>15, <1>16, <1>17, Zenon DEF Blocks
<1> QED BY <1>3, <1>18, Zenon DEF Holds

\* the processes whose blocks q brings into range g
Bringers(g, q) == {s \in Procs : Carried(g, s, q)}

\* Who has a block next is in the half it goes to.
LEMMA NextIn ==
  ASSUME NEW g \in Procs \X Procs, g[1] < g[2], NEW q \in Procs, In(q, g), NEW h, h = Lo(g) \/ h = Up(g)
  PROVE  NextCarrier(g, h, q) \in Procs /\ In(NextCarrier(g, h, q), h)
<1>1. CASE In(q, h)
  BY <1>1 DEF NextCarrier
<1>2. CASE ~ In(q, h)
  <2>1. PICK p : p = PartnerIn(g, q)
    OBVIOUS
  <2>2. p \in Procs /\ In(p, g) /\ HalfOf(g, p) = OtherOf(g, q) /\ In(q, HalfOf(g, q))
    BY <2>1, PartnerIs
  <2>3. In(p, HalfOf(g, p))
    BY <2>2, PartnerIs
  <2>4. h = OtherOf(g, q)
    BY <1>2, <2>2, Zenon DEF HalfOf, OtherOf
  <2>5. NextCarrier(g, h, q) = p
    BY <1>2, <2>1, Zenon DEF NextCarrier
  <2> QED BY <2>2, <2>3, <2>4, <2>5, Zenon
<1> QED BY <1>1, <1>2

\* Who brings blocks into a range is in the range.
LEMMA CarriersIn ==
  ASSUME NEW g, NEW s \in Procs, NEW q, Carried(g, s, q)
  PROVE  q \in Procs /\ In(q, g)
<1>1. PICK n \in Nat : \E f, c :
        /\ Chain(f, n) /\ f[n] = g
        /\ c[0] = s /\ \A i \in 0..n-1 : c[i+1] = NextCarrier(f[i], f[i+1], c[i])
        /\ c[n] = q
  BY DEF Carried
<1>2. PICK f, c :
        /\ Chain(f, n) /\ f[n] = g
        /\ c[0] = s /\ \A i \in 0..n-1 : c[i+1] = NextCarrier(f[i], f[i+1], c[i])
        /\ c[n] = q
  BY <1>1
<1> DEFINE Bad == {i \in 0..n : ~ (c[i] \in Procs /\ In(c[i], f[i]))}
<1>3. c[0] \in Procs /\ In(c[0], f[0])
  <2>1. c[0] = s /\ f[0] = <<0, P-1>>
    BY <1>2 DEF Chain
  <2>2. In(s, <<0, P-1>>)
    BY ProcsNat DEF In
  <2> QED BY <2>1, <2>2
<1>4. Bad = {}
  <2> SUFFICES ASSUME Bad # {} PROVE FALSE
    OBVIOUS
  <2>1. PICK x \in Bad : \A y \in Bad : x <= y
    <3>1. Bad \subseteq Nat
      OBVIOUS
    <3> HIDE DEF Bad
    <3> QED BY <3>1, LeastNatural
  <2>2. x \in 0..n /\ ~ (c[x] \in Procs /\ In(c[x], f[x])) /\ x # 0
    BY <1>3, <2>1
  <2>3. PICK i \in 0..n-1 : x = i + 1
    <3>1. x - 1 \in 0..n-1 /\ x = (x - 1) + 1
      BY <2>2
    <3> QED BY <3>1
  <2>4. i \in 0..n /\ ~ (x <= i)
    BY <2>3
  <2>5. c[i] \in Procs /\ In(c[i], f[i])
    BY <2>1, <2>4
  <2>6. f[i][1] < f[i][2] /\ (f[i+1] = Lo(f[i]) \/ f[i+1] = Up(f[i]))
    BY <1>2 DEF Chain
  <2>7. f[i] \in Procs \X Procs
    BY <1>2, <2>4, ChainRanges
  <2>8. c[i+1] = NextCarrier(f[i], f[i+1], c[i])
    BY <1>2
  <2>9. NextCarrier(f[i], f[i+1], c[i]) \in Procs /\ In(NextCarrier(f[i], f[i+1], c[i]), f[i+1])
    BY <2>5, <2>6, <2>7, NextIn
  <2> QED BY <2>2, <2>3, <2>8, <2>9
<1>5. n \in 0..n
  OBVIOUS
<1> QED BY <1>2, <1>4, <1>5

\* Somebody brings the blocks of a process into every range.
LEMMA SomeoneCarries ==
  ASSUME NEW g \in Ranges, NEW s
  PROVE  \E q : Carried(g, s, q)
<1>1. PICK n \in Nat : \E f : Chain(f, n) /\ f[n] = g
  BY DEF Ranges
<1>2. PICK f : Chain(f, n) /\ f[n] = g
  BY <1>1
<1> DEFINE Bad == {i \in 0..n : ~ \E q : Carried(f[i], s, q)}
<1>3. \E q : Carried(f[0], s, q)
  BY <1>2, CarriedRoot DEF Chain
<1>4. Bad = {}
  <2> SUFFICES ASSUME Bad # {} PROVE FALSE
    OBVIOUS
  <2>1. PICK x \in Bad : \A y \in Bad : x <= y
    <3>1. Bad \subseteq Nat
      OBVIOUS
    <3> HIDE DEF Bad
    <3> QED BY <3>1, LeastNatural
  <2>2. x \in 0..n /\ ~ (\E q : Carried(f[x], s, q)) /\ x # 0
    BY <1>3, <2>1
  <2>3. PICK i \in 0..n-1 : x = i + 1
    <3>1. x - 1 \in 0..n-1 /\ x = (x - 1) + 1
      BY <2>2
    <3> QED BY <3>1
  <2>4. i \in 0..n /\ ~ (x <= i)
    BY <2>3
  <2>5. PICK q : Carried(f[i], s, q)
    BY <2>1, <2>4
  <2>6. f[i][1] < f[i][2] /\ (f[i+1] = Lo(f[i]) \/ f[i+1] = Up(f[i]))
    BY <1>2 DEF Chain
  <2>7. \E k : Carried(f[i+1], s, k)
    BY <2>5, <2>6, CarriedNext
  <2> QED BY <2>2, <2>3, <2>7
<1>5. n \in 0..n
  OBVIOUS
<1> QED BY <1>2, <1>4, <1>5

\* At first everyone brings its own, in the end one process everybody's.
LEMMA BringersFirst ==
  ASSUME NEW s \in Procs
  PROVE  Bringers(<<0, P-1>>, s) = {s}
<1> DEFINE g == <<0, P-1>>
<1>1. \A t : Carried(g, t, t)
  BY CarriedRoot
<1>2. \A t : Carried(g, t, s) => t = s
  BY <1>1, CarriedOnce
<1> HIDE DEF g
<1> QED BY <1>1, <1>2 DEF Bringers, g

\* In a range of one, that process has brought the blocks of all.
LEMMA BringersLast ==
  ASSUME NEW g \in Ranges, NEW r \in Procs, g[1] = g[2], In(r, g)
  PROVE  Bringers(g, r) = Procs
<1> SUFFICES ASSUME NEW s \in Procs PROVE Carried(g, s, r)
  BY DEF Bringers
<1>1. PICK q : Carried(g, s, q)
  BY SomeoneCarries
<1>2. q \in Procs /\ In(q, g)
  BY <1>1, CarriersIn
<1>3. q = r
  BY <1>2, RangeIs, ProcsNat DEF In
<1> QED BY <1>1, <1>3

\* the processes whose blocks s brings d in the round of g: none to its extra
\* partner
Brought(g, s, d) == IF d = PartnerIn(g, s) THEN Bringers(g, s) ELSE {}

\* What r brings into its half is what it brought into the range, and what its
\* partners bring it.
LEMMA BringersNext ==
  ASSUME NEW g \in Ranges, g[1] < g[2], NEW r \in Procs, In(r, g), NEW h, h = HalfOf(g, r)
  PROVE  Bringers(h, r) = (Bringers(g, r) \cup Brought(g, PartnerIn(g, r), r))
                          \cup (IF ExtraIn(g, r) THEN Bringers(g, Split(g)) ELSE {})
<1>1. PICK p, m : p = PartnerIn(g, r) /\ m = Split(g)
  OBVIOUS
<1>2. /\ p \in Procs /\ g \in Procs \X Procs /\ In(r, h) /\ ~ In(p, h)
      /\ ExtraIn(g, r) => m \in Procs /\ PartnerIn(g, m) = r /\ ~ In(m, h)
      /\ h = Lo(g) \/ h = Up(g)
  <2>1. g \in Procs \X Procs
    BY RangeIs
  <2>2. p \in Procs /\ In(r, h) /\ ~ In(p, h)
    BY <1>1, <2>1, PartnerIs
  <2>3. ExtraIn(g, r) => m \in Procs /\ PartnerIn(g, m) = r /\ ~ In(m, h)
    BY <1>1, <2>1, ExtraIs
  <2>4. h = Lo(g) \/ h = Up(g)
    BY Zenon DEF HalfOf
  <2> QED BY <2>1, <2>2, <2>3, <2>4
<1>3. ASSUME NEW s \in Procs, NEW q, Carried(g, s, q), NextCarrier(g, h, q) = r PROVE Carried(h, s, r)
  BY <1>2, <1>3, CarriedNext
<1>4. ASSUME NEW s \in Bringers(g, r) PROVE s \in Bringers(h, r)
  <2>1. NextCarrier(g, h, r) = r
    BY <1>2, Zenon DEF NextCarrier
  <2> QED BY <1>3, <2>1 DEF Bringers
<1>5. ASSUME NEW s \in Brought(g, p, r) PROVE s \in Bringers(h, r)
  <2>1. r = PartnerIn(g, p) /\ s \in Bringers(g, p)
    BY Zenon DEF Brought
  <2>2. NextCarrier(g, h, p) = r
    BY <1>2, <2>1, Zenon DEF NextCarrier
  <2> QED BY <1>3, <2>1, <2>2 DEF Bringers
<1>6. ASSUME ExtraIn(g, r), NEW s \in Bringers(g, m) PROVE s \in Bringers(h, r)
  <2>1. NextCarrier(g, h, m) = r
    BY <1>2, <1>6, Zenon DEF NextCarrier
  <2> QED BY <1>3, <2>1 DEF Bringers
<1>7. ASSUME NEW s \in Bringers(h, r)
      PROVE  \/ s \in Bringers(g, r) \/ s \in Brought(g, p, r)
             \/ ExtraIn(g, r) /\ s \in Bringers(g, m)
  <2>1. s \in Procs /\ Carried(h, s, r)
    BY DEF Bringers
  <2>2. PICK q : Carried(g, s, q)
    BY SomeoneCarries
  <2>3. q \in Procs /\ In(q, g)
    BY <2>1, <2>2, CarriersIn
  <2>4. Carried(h, s, NextCarrier(g, h, q))
    BY <1>2, <2>2, CarriedNext
  <2>5. NextCarrier(g, h, q) = r
    BY <2>1, <2>4, CarriedOnce
  <2>6. s \in Bringers(g, q)
    BY <2>1, <2>2 DEF Bringers
  <2>7. CASE In(q, h)
    BY <2>5, <2>6, <2>7, Zenon DEF NextCarrier
  <2>8. CASE ~ In(q, h)
    <3>1. PartnerIn(g, q) = r
      BY <2>5, <2>8, Zenon DEF NextCarrier
    <3>2. Peers(g, q, r)
      BY <2>3, <3>1 DEF Peers
    <3>3. Peers(g, r, q)
      BY <1>2, <2>3, <3>2, PeersAre
    <3>4. q = p \/ (ExtraIn(g, r) /\ q = m)
      BY <1>1, <3>3 DEF Peers
    <3> QED BY <2>6, <3>1, <3>4, Zenon DEF Brought
  <2> QED BY <2>7, <2>8
<1> QED BY <1>1, <1>4, <1>5, <1>6, <1>7

\* The blocks in every segment are those of S for the process it is for.
Full(C, buf, counts, h, S) ==
  \A i \in 1..Len(counts) : Holds(C, Segment(buf, counts, i), S, h[1] + i - 1)

\* Segments keep their blocks when a part of the buffer is cut out.
LEMMA FullCut ==
  ASSUME NEW C, NEW g \in Procs \X Procs, NEW o \in Procs \X Procs, Inside(o, g), o[1] <= o[2],
         NEW buf, NEW counts, NEW k, NEW q, Carries(buf, counts, g, k, q),
         NEW a, a = o[1] - g[1] + 1, NEW b, b = o[2] - g[1] + 1, NEW S, Full(C, buf, counts, g, S)
  PROVE  Full(C, Cut(buf, counts, a, b), SubSeq(counts, a, b), o, S)
<1> DEFINE c == SubSeq(counts, a, b)  t == Cut(buf, counts, a, b)  N == Len(counts)
<1>1. /\ g[1] \in Nat /\ g[2] \in Nat /\ o[1] \in Nat /\ o[2] \in Nat
      /\ g[1] <= o[1] /\ o[2] <= g[2]
  BY ProcsNat DEF Inside
<1>2. Buffer(Words, buf, counts) /\ N = g[2] - g[1] + 1
  BY DEF Carries, SizeOf
<1> HIDE DEF N, c, t
<1>3. a \in 1..N /\ b \in a..N
  <2>1. PICK g1, g2, o1, o2 : g1 = g[1] /\ g2 = g[2] /\ o1 = o[1] /\ o2 = o[2]
    OBVIOUS
  <2>2. /\ g1 \in Nat /\ g2 \in Nat /\ o1 \in Nat /\ o2 \in Nat /\ g1 <= o1 /\ o2 <= g2 /\ o1 <= o2
        /\ a = o1 - g1 + 1 /\ b = o2 - g1 + 1 /\ N = g2 - g1 + 1
    BY <1>1, <1>2, <2>1
  <2> QED BY <2>2
<1>4. CutSegments(Words, buf, counts, a, b, t, c)
  <2>1. a \in 1..Len(counts) /\ b \in a..Len(counts)
    BY <1>3, Zenon DEF N
  <2> QED BY <1>2, <2>1, CutOf, Zenon DEF t, c
<1>5. ASSUME NEW i \in 1..Len(c) PROVE Holds(C, Segment(t, c, i), S, o[1] + i - 1)
  <2>1. (a - 1) + i \in 1..N /\ Segment(t, c, i) = Segment(buf, counts, (a - 1) + i)
    BY <1>4, Zenon DEF CutSegments, N
  <2>2. g[1] + ((a - 1) + i) - 1 = o[1] + i - 1
    <3>1. i \in Int
      BY <1>4 DEF CutSegments, Buffer
    <3>2. g[1] + (((o[1] - g[1] + 1) - 1) + i) - 1 = o[1] + i - 1
      BY <1>1, <3>1, PlaceOf
    <3> QED BY <3>2
  <2>3. Holds(C, Segment(buf, counts, (a - 1) + i), S, g[1] + ((a - 1) + i) - 1)
    BY <2>1, Zenon DEF Full, N
  <2> QED BY <2>1, <2>2, <2>3, Zenon
<1> QED BY <1>5, Zenon DEF Full, c, t

\* No segment has a block where nothing is sent.
LEMMA FullNone ==
  ASSUME NEW C, NEW h \in Procs \X Procs, h[1] <= h[2]
  PROVE  Full(C, <<>>, Zeros(SizeOf(h)), h, {})
<1> DEFINE n == SizeOf(h)  c == Zeros(n)
<1>1. n \in Nat
  BY ProcsNat DEF SizeOf
<1> HIDE DEF n
<1>2. c \in Seq(Nat) /\ Total(c) = 0
  BY <1>1, TotalNone DEF Zeros
<1> HIDE DEF c
<1>3. ASSUME NEW i \in 1..Len(c) PROVE Holds(C, Segment(<<>>, c, i), {}, h[1] + i - 1)
  <2>1. Segment(<<>>, c, i) = <<>>
    BY <1>2, NoSegments
  <2> QED BY <2>1, HoldsNone, Zenon
<1> QED BY <1>3, Zenon DEF Full, n, c

\* what s sends d in the round of g: a buffer b with segments of lengths l, and
\* nothing if d is its extra partner
Parcel(C, l, b, s, d, g) ==
  /\ Carries(b, l, HalfOf(g, d), g, s)
  /\ d # PartnerIn(g, s) => b = <<>>
  /\ Full(C, b, l, HalfOf(g, d), Brought(g, s, d))

\* what process r has when it has received everything in the round of g
Collected(C, g, r, sc, sb, rc, rb, rce, rbe) ==
  /\ Carries(sb, sc, g, g, r)
  /\ Parcel(C, rc, rb, PartnerIn(g, r), r, g)
  /\ Carries(rbe, rce, HalfOf(g, r), g, Split(g))
  /\ ~ ExtraIn(g, r) => rbe = <<>>
  /\ Full(C, sb, sc, g, Bringers(g, r))
  /\ Full(C, rbe, rce, HalfOf(g, r), IF ExtraIn(g, r) THEN Bringers(g, Split(g)) ELSE {})

JoinedCounts(n, w, sc, rc, rce) == [i \in 1..n |-> sc[w + i - 1] + rc[i] + rce[i]]
JoinedSegments(n, w, sc, sb, rc, rb, rce, rbe) == [i \in 1..n |->
  Segment(sb, sc, w + i - 1) \o Segment(rb, rc, i) \o Segment(rbe, rce, i)]

LEMMA PlacesIn ==
  ASSUME NEW a \in Nat, NEW b \in Nat, NEW c \in Nat, NEW d \in Nat, a <= c, c <= d, d <= b,
         NEW i \in 1..d - c + 1
  PROVE  /\ (c - a + 1) + i - 1 \in 1..b - a + 1
         /\ a + ((c - a + 1) + i - 1) - 1 = c + i - 1
  OBVIOUS

\* What r has for its half, and what it has received, joined segment by segment.
LEMMA CarriesJoined ==
  ASSUME NEW C, NEW g \in Ranges, g[1] < g[2], NEW r \in Procs, In(r, g),
         NEW sc, NEW sb, NEW rc, NEW rb, NEW rce, NEW rbe, Collected(C, g, r, sc, sb, rc, rb, rce, rbe),
         NEW h, h = HalfOf(g, r), NEW w, w = h[1] - g[1] + 1, NEW n, n = SizeOf(h),
         NEW counts, counts = JoinedCounts(n, w, sc, rc, rce),
         NEW segs, segs = JoinedSegments(n, w, sc, sb, rc, rb, rce, rbe)
  PROVE  Carries(FlattenSeq(segs), counts, h, h, r) /\ Full(C, FlattenSeq(segs), counts, h, Bringers(h, r))
<1> DEFINE p == PartnerIn(g, r)  m == Split(g)
<1>1. g \in Procs \X Procs /\ h \in Ranges /\ h \in Procs \X Procs /\ h[1] <= h[2] /\ (h = Lo(g) \/ h = Up(g))
  BY RangeIs, HalfRange DEF HalfOf
<1>2. In(r, h) /\ ~ In(p, h) /\ p # r /\ r # p
  BY <1>1, PartnerIs
<1>3. ExtraIn(g, r) => m # r /\ m # p /\ PartnerIn(g, m) = r /\ ~ In(m, h)
  BY <1>1, ExtraIs
<1>4. /\ g[1] \in Nat /\ g[2] \in Nat /\ h[1] \in Nat /\ h[2] \in Nat /\ g[1] <= h[1] /\ h[2] <= g[2]
  <2>1. g[1] \in Nat /\ g[2] \in Nat /\ h[1] \in Nat /\ h[2] \in Nat
    BY <1>1, ProcsNat
  <2> QED BY <1>1, <2>1, Halves
<1>5. n \in Nat /\ w \in Nat /\ \A i \in 1..n : w + i - 1 \in 1..SizeOf(g) /\ g[1] + (w + i - 1) - 1 = h[1] + i - 1
  <2>1. /\ n = h[2] - h[1] + 1 /\ n \in Nat /\ w \in Nat /\ SizeOf(g) = g[2] - g[1] + 1
    BY <1>1, <1>4 DEF SizeOf
  <2>2. ASSUME NEW i \in 1..n PROVE w + i - 1 \in 1..SizeOf(g) /\ g[1] + (w + i - 1) - 1 = h[1] + i - 1
    <3>1. i \in 1..h[2] - h[1] + 1
      BY <2>1
    <3>2. /\ (h[1] - g[1] + 1) + i - 1 \in 1..g[2] - g[1] + 1
          /\ g[1] + ((h[1] - g[1] + 1) + i - 1) - 1 = h[1] + i - 1
      BY <1>1, <1>4, <3>1, PlacesIn
    <3> QED BY <2>1, <3>2, Zenon
  <2> QED BY <2>1, <2>2
<1>6. /\ Carries(sb, sc, g, g, r) /\ Carries(rb, rc, h, g, p) /\ (r # PartnerIn(g, p) => rb = <<>>)
      /\ Carries(rbe, rce, h, g, m) /\ (~ ExtraIn(g, r) => rbe = <<>>)
  BY DEF Collected, Parcel
<1> HIDE DEF p, m
<1>7. /\ Buffer(Words, sb, sc) /\ Buffer(Words, rb, rc) /\ Buffer(Words, rbe, rce)
      /\ Len(sc) = SizeOf(g) /\ Len(rc) = n /\ Len(rce) = n
  BY <1>6 DEF Carries
<1>8. ASSUME NEW i \in 1..n
      PROVE  /\ SegmentAt(Words, sb, sc, w + i - 1) /\ SegmentAt(Words, rb, rc, i) /\ SegmentAt(Words, rbe, rce, i)
             /\ Part(Segment(sb, sc, w + i - 1), h[1] + i - 1, g, h, r, r)
             /\ Part(Segment(rb, rc, i), h[1] + i - 1, g, h, p, r)
             /\ Part(Segment(rbe, rce, i), h[1] + i - 1, g, h, m, r)
             /\ ~ ExtraIn(g, r) => Segment(rbe, rce, i) = <<>>
  <2> DEFINE j == w + i - 1  d == h[1] + i - 1
  <2>1. j \in 1..Len(sc) /\ i \in 1..Len(rc) /\ i \in 1..Len(rce) /\ g[1] + j - 1 = d
    BY <1>5, <1>7
  <2> HIDE DEF j
  <2>2. SegmentAt(Words, sb, sc, j) /\ SegmentAt(Words, rb, rc, i) /\ SegmentAt(Words, rbe, rce, i)
    BY <1>7, <2>1, SegmentOf, Zenon
  <2>3. Segment(sb, sc, j) \in Seq(Words) /\ Segment(rb, rc, i) \in Seq(Words) /\ Segment(rbe, rce, i) \in Seq(Words)
    BY <2>2, Zenon DEF SegmentAt
  <2>4. Brings(Segment(sb, sc, j), d, g, r) /\ Distinct(Segment(sb, sc, j))
    <3>1. Brings(Segment(sb, sc, j), g[1] + j - 1, g, r) /\ Distinct(Segment(sb, sc, j))
      BY <1>6, <2>1, Zenon DEF Carries
    <3> QED BY <2>1, <3>1, Zenon
  <2>5. /\ Brings(Segment(rb, rc, i), d, g, p) /\ Distinct(Segment(rb, rc, i))
        /\ Brings(Segment(rbe, rce, i), d, g, m) /\ Distinct(Segment(rbe, rce, i))
    BY <1>6, <2>1, Zenon DEF Carries
  <2>6. NextCarrier(g, h, r) = r
    BY <1>2 DEF NextCarrier
  <2>7. rb # <<>> => NextCarrier(g, h, p) = r
    BY <1>2, <1>6 DEF NextCarrier
  <2>8. rbe # <<>> => NextCarrier(g, h, m) = r
    BY <1>3, <1>6 DEF NextCarrier
  <2>9. rb = <<>> => Segment(rb, rc, i) = <<>>
    <3>1. rc \in Seq(Nat) /\ Len(rb) = Total(rc)
      BY <1>7 DEF Buffer
    <3>2. SUFFICES ASSUME rb = <<>> PROVE Segment(<<>>, rc, i) = <<>>
      OBVIOUS
    <3>3. Total(rc) = 0
      BY <3>1, <3>2
    <3> QED BY <2>1, <3>1, <3>3, NoSegments, Zenon
  <2>10. rbe = <<>> => Segment(rbe, rce, i) = <<>>
    <3>1. rce \in Seq(Nat) /\ Len(rbe) = Total(rce)
      BY <1>7 DEF Buffer
    <3>2. SUFFICES ASSUME rbe = <<>> PROVE Segment(<<>>, rce, i) = <<>>
      OBVIOUS
    <3>3. Total(rce) = 0
      BY <3>1, <3>2
    <3> QED BY <2>1, <3>1, <3>3, NoSegments, Zenon
  <2> HIDE DEF d
  <2>11. Part(Segment(sb, sc, j), d, g, h, r, r)
    BY <2>3, <2>4, <2>6, Zenon DEF Part
  <2>12. Part(Segment(rb, rc, i), d, g, h, p, r)
    BY <2>3, <2>5, <2>7, <2>9, Zenon DEF Part
  <2>13. Part(Segment(rbe, rce, i), d, g, h, m, r)
    BY <2>3, <2>5, <2>8, <2>10, Zenon DEF Part
  <2>14. ~ ExtraIn(g, r) => Segment(rbe, rce, i) = <<>>
    BY <1>6, <2>10, Zenon
  <2> QED BY <2>2, <2>11, <2>12, <2>13, <2>14, Zenon DEF j, d
<1>9. ASSUME NEW i \in 1..n
      PROVE  /\ segs[i] \in Seq(Words) /\ Len(segs[i]) = counts[i] /\ counts[i] \in Nat
             /\ Brings(segs[i], h[1] + i - 1, h, r) /\ Distinct(segs[i])
  <2> DEFINE a == Segment(sb, sc, w + i - 1)  b == Segment(rb, rc, i)  c == Segment(rbe, rce, i)
             d == h[1] + i - 1
  <2>1. segs[i] = a \o b \o c /\ counts[i] = sc[w + i - 1] + rc[i] + rce[i]
    BY Zenon DEF JoinedSegments, JoinedCounts
  <2>2. /\ Part(a, d, g, h, r, r) /\ Part(b, d, g, h, p, r) /\ Part(c, d, g, h, m, r)
        /\ c = <<>> \/ (r # m /\ p # m)
    BY <1>3, <1>8, Zenon
  <2>6. Parts(a, b, c, r, p, m, d, g, h, r)
    BY <1>1, <1>2, <2>2, Zenon DEF Parts
  <2>3. /\ Len(a) = sc[w + i - 1] /\ sc[w + i - 1] \in Nat /\ Len(b) = rc[i] /\ rc[i] \in Nat
        /\ Len(c) = rce[i] /\ rce[i] \in Nat
    BY <1>8, Zenon DEF SegmentAt
  <2> HIDE DEF a, b, c, d
  <2>4. /\ a \o b \o c \in Seq(Words) /\ Len(a \o b \o c) = Len(a) + Len(b) + Len(c)
        /\ Brings(a \o b \o c, d, h, r) /\ Distinct(a \o b \o c)
    <3>1. Whole(a \o b \o c, Len(a) + Len(b) + Len(c), d, h, r)
      BY <2>6, PartsJoin
    <3> QED BY <3>1, Zenon DEF Whole
  <2>5. Len(segs[i]) = counts[i] /\ counts[i] \in Nat
    BY <2>1, <2>3, <2>4
  <2> QED BY <2>1, <2>4, <2>5, Zenon DEF d
<1>10. counts \in Seq(Nat) /\ Len(counts) = n
  <2>1. counts = [i \in 1..n |-> counts[i]]
    BY DEF JoinedCounts
  <2>2. n \in Nat /\ \A i \in 1..n : counts[i] \in Nat
    BY <1>5, <1>9
  <2> QED BY <2>1, <2>2, SequenceOf
<1>11. segs \in Seq(Seq(Words)) /\ Len(segs) = n
  <2>1. segs = [i \in 1..n |-> segs[i]]
    BY DEF JoinedSegments
  <2>2. n \in Nat /\ \A i \in 1..n : segs[i] \in Seq(Words)
    BY <1>5, <1>9
  <2> QED BY <2>1, <2>2, SequenceOf
<1>12. /\ FlattenSeq(segs) \in Seq(Words) /\ Len(FlattenSeq(segs)) = Total(counts)
       /\ \A i \in 1..Len(counts) : Segment(FlattenSeq(segs), counts, i) = segs[i]
  <2>1. Len(segs) = Len(counts) /\ \A i \in 1..Len(counts) : Len(segs[i]) = counts[i]
    BY <1>9, <1>10, <1>11, Zenon
  <2> QED BY <1>10, <1>11, <2>1, JoinIs
<1>13. Buffer(Words, FlattenSeq(segs), counts)
  BY <1>10, <1>12, Zenon DEF Buffer
<1>14. ASSUME NEW i \in 1..Len(counts)
       PROVE  /\ Brings(Segment(FlattenSeq(segs), counts, i), h[1] + i - 1, h, r)
              /\ Distinct(Segment(FlattenSeq(segs), counts, i))
  <2>1. i \in 1..n /\ Segment(FlattenSeq(segs), counts, i) = segs[i]
    BY <1>10, <1>12, Zenon
  <2> QED BY <1>9, <2>1, Zenon
<1>15. Len(counts) = SizeOf(h)
  BY <1>10
<1>16. Carries(FlattenSeq(segs), counts, h, h, r)
  BY <1>13, <1>14, <1>15, Zenon DEF Carries
<1>17. PICK S, T, U : /\ S = Bringers(g, r) /\ T = Brought(g, p, r)
                      /\ U = IF ExtraIn(g, r) THEN Bringers(g, m) ELSE {}
  OBVIOUS
<1>18. Bringers(h, r) = (S \cup T) \cup U
  BY <1>17, BringersNext DEF p, m
<1>19. Full(C, sb, sc, g, S) /\ Full(C, rb, rc, h, T) /\ Full(C, rbe, rce, h, U)
  BY <1>17, Zenon DEF Collected, Parcel, p, m
<1>20. ASSUME NEW i \in 1..Len(counts)
       PROVE  Holds(C, Segment(FlattenSeq(segs), counts, i), Bringers(h, r), h[1] + i - 1)
  <2>1. PICK a, b, c, d : /\ a = Segment(sb, sc, w + i - 1) /\ b = Segment(rb, rc, i) /\ c = Segment(rbe, rce, i)
                          /\ d = h[1] + i - 1
    OBVIOUS
  <2>2. i \in 1..n /\ Segment(FlattenSeq(segs), counts, i) = segs[i]
    BY <1>10, <1>12, Zenon
  <2>3. segs[i] = a \o b \o c
    BY <2>1, <2>2, Zenon DEF JoinedSegments
  <2>4. a \in Seq(Words) /\ b \in Seq(Words) /\ c \in Seq(Words)
    BY <1>8, <2>1, <2>2, Zenon DEF SegmentAt
  <2>5. Holds(C, a, S, d)
    <3>1. w + i - 1 \in 1..Len(sc) /\ g[1] + (w + i - 1) - 1 = d
      BY <1>5, <1>7, <2>1, <2>2, Zenon
    <3>2. Holds(C, Segment(sb, sc, w + i - 1), S, g[1] + (w + i - 1) - 1)
      BY <1>19, <3>1, Zenon DEF Full
    <3> QED BY <2>1, <3>1, <3>2, Zenon
  <2>6. Holds(C, b, T, d) /\ Holds(C, c, U, d)
    BY <1>7, <1>19, <2>1, <2>2, Zenon DEF Full
  <2>7. Holds(C, a \o b, S \cup T, d)
    BY <2>4, <2>5, <2>6, HoldsJoin
  <2>8. a \o b \in Seq(Words) /\ (a \o b) \o c = a \o b \o c
    BY <2>4
  <2>9. Holds(C, (a \o b) \o c, (S \cup T) \cup U, d)
    BY <2>4, <2>6, <2>7, <2>8, HoldsJoin
  <2> QED BY <1>18, <2>1, <2>2, <2>3, <2>8, <2>9, Zenon
<1> QED BY <1>16, <1>20, Zenon DEF Full

(***************************************************************************)
(* The channels.  In the round of a range that two peers are in, each      *)
(* sends the other lengths, and then data.  How far the one is with        *)
(* sending and the other with taking says what is between them.            *)
(***************************************************************************)
Stage(l, none, one) == IF l \in none THEN 0 ELSE IF l \in one THEN 1 ELSE 2

\* how many messages s, at label l in range h, has sent d in the round of g,
\* and how many d has taken from s
Sent(l, h, s, d, g) ==
  IF h # g THEN IF Under(g, h) THEN 0 ELSE 2
  ELSE IF d = PartnerIn(g, s) THEN Stage(l, {"round"}, {"counts", "extra counts"})
  ELSE Stage(l, {"round", "counts"}, {"extra counts", "data"})

Taken(l, h, d, s, g) ==
  IF h # g THEN IF Under(g, h) THEN 0 ELSE 2
  ELSE IF s = PartnerIn(g, d) THEN Stage(l, {"round", "counts"}, {"extra counts", "data"})
  ELSE Stage(l, {"round", "counts", "extra counts"}, {"data", "extra data"})

\* the lengths s sends d, and those d has got from s
Owed(sc, s, d, g) ==
  IF d = PartnerIn(g, s)
  THEN SubSeq(sc, OtherOf(g, s)[1] - g[1] + 1, OtherOf(g, s)[2] - g[1] + 1)
  ELSE Zeros(SizeOf(OtherOf(g, s)))
Told(rc, rce, d, s, g) == IF s = PartnerIn(g, d) THEN rc ELSE rce

Channel(C, S, T, q, owed, told, s, d, g) ==
  \/ S = 0 /\ T = 0 /\ q = <<>>
  \/ S = 1 /\ T = 0 /\ q = <<Lengths(owed)>>
  \/ S = 1 /\ T = 1 /\ q = <<>> /\ told = owed
  \/ S = 2 /\ T = 0 /\ \E l, b : q = <<Lengths(l), Data(b)>> /\ Parcel(C, l, b, s, d, g)
  \/ S = 2 /\ T = 1 /\ \E b : q = <<Data(b)>> /\ Parcel(C, told, b, s, d, g)
  \/ S = 2 /\ T = 2 /\ q = <<>>

ChannelOK(C, s, d, g) ==
  Channel(C, Sent(pc[s], range[s], s, d, g), Taken(pc[d], range[d], d, s, g), net[s][d],
          Owed(s_cnt[s], s, d, g), Told(r_cnt[d], r_cnt_ext[d], d, s, g), s, d, g)

\* what a process has, at label l in range g
Own(C, r, l, g, sc, sb, rc, rb, rce, rbe) ==
  /\ g \in Ranges /\ In(r, g)
  /\ l \notin {"round", "done"} => g[1] < g[2]
  /\ l = "done" => g[1] = g[2]
  /\ l \in {"extra counts", "extra data"} => ExtraIn(g, r)
  /\ Carries(sb, sc, g, g, r) /\ Full(C, sb, sc, g, Bringers(g, r))
  /\ l \in {"extra data", "rearrange"} => Parcel(C, rc, rb, PartnerIn(g, r), r, g)
  /\ l = "rearrange" /\ ExtraIn(g, r) => Parcel(C, rce, rbe, Split(g), r, g)
  /\ l \notin {"round", "done"} /\ ~ ExtraIn(g, r) =>
       rce = Zeros(SizeOf(HalfOf(g, r))) /\ rbe = <<>>

OwnOK(C, r) ==
  Own(C, r, pc[r], range[r], s_cnt[r], sbuff[r], r_cnt[r], rbuff[r], r_cnt_ext[r], rbuffext[r])

Labels == {"round", "counts", "extra counts", "data", "extra data", "rearrange", "done"}
Net(n) == DOMAIN n = Procs /\ \A s \in Procs : DOMAIN n[s] = Procs

Places ==
  /\ pc \in [Procs -> Labels] /\ DOMAIN range = Procs /\ Net(net)
  /\ DOMAIN s_cnt = Procs /\ DOMAIN sbuff = Procs /\ DOMAIN r_cnt = Procs
  /\ DOMAIN r_cnt_ext = Procs /\ DOMAIN rbuff = Procs /\ DOMAIN rbuffext = Procs

DenseInv(C) ==
  /\ Places
  /\ \A r \in Procs : OwnOK(C, r)
  /\ \A g \in Ranges : \A s, d \in Procs : Peers(g, s, d) => ChannelOK(C, s, d, g)

-----------------------------------------------------------------------------
\* What a send and a receive do to a channel.
LEMMA SendsLengths ==
  ASSUME NEW C, NEW T, NEW q, NEW owed, NEW told, NEW s, NEW d, NEW g, Channel(C, 0, T, q, owed, told, s, d, g)
  PROVE  Channel(C, 1, T, Append(q, Lengths(owed)), owed, told, s, d, g)
<1>1. T = 0 /\ q = <<>>
  BY DEF Channel
<1>2. Append(q, Lengths(owed)) = <<Lengths(owed)>>
  BY <1>1
<1> QED BY <1>1, <1>2 DEF Channel

LEMMA AppendTwo == \A x, y : Append(<<x>>, y) = <<x, y>>
<1> SUFFICES ASSUME NEW x, NEW y PROVE Append(<<x>>, y) = <<x, y>>
  OBVIOUS
<1> DEFINE W == {x, y}  s == <<x>>
<1>1. s \in Seq(W) /\ Len(s) = 1 /\ s[1] = x /\ y \in W
  OBVIOUS
<1> HIDE DEF s
<1>2. /\ Append(s, y) \in Seq(W) /\ Len(Append(s, y)) = 2
      /\ Append(s, y)[1] = x /\ Append(s, y)[2] = y
  <2> HIDE DEF W
  <2>1. /\ Append(s, y) \in Seq(W) /\ Len(Append(s, y)) = Len(s) + 1
        /\ \A i \in 1..Len(s) : Append(s, y)[i] = s[i]
        /\ Append(s, y)[Len(s) + 1] = y
    BY <1>1, AppendProperties
  <2>2. 1 \in 1..Len(s) /\ Len(s) + 1 = 2
    BY <1>1
  <2> QED BY <1>1, <2>1, <2>2
<1>3. <<x, y>> \in Seq(W) /\ Len(<<x, y>>) = 2 /\ <<x, y>>[1] = x /\ <<x, y>>[2] = y
  OBVIOUS
<1> DEFINE a == Append(s, y)  b == <<x, y>>
<1> HIDE DEF a, b, W
<1>4. a \in Seq(W) /\ b \in Seq(W) /\ Len(a) = Len(b) /\ \A i \in 1..Len(a) : a[i] = b[i]
  BY <1>2, <1>3 DEF a, b
<1>5. a = b
  BY <1>4, SameSequence
<1> QED BY <1>5 DEF a, b, s

LEMMA SendsData ==
  ASSUME NEW C, NEW T, NEW q, NEW owed, NEW told, NEW s, NEW d, NEW g, Channel(C, 1, T, q, owed, told, s, d, g),
         NEW b, Parcel(C, owed, b, s, d, g)
  PROVE  Channel(C, 2, T, Append(q, Data(b)), owed, told, s, d, g)
<1>1. CASE T = 0 /\ q = <<Lengths(owed)>>
  <2>1. Append(q, Data(b)) = <<Lengths(owed), Data(b)>>
    BY <1>1, AppendTwo
  <2> QED BY <1>1, <2>1, Zenon DEF Channel
<1>2. CASE T = 1 /\ q = <<>> /\ told = owed
  <2>1. Append(q, Data(b)) = <<Data(b)>>
    BY <1>2
  <2> QED BY <1>2, <2>1, Zenon DEF Channel
<1>3. (T = 0 /\ q = <<Lengths(owed)>>) \/ (T = 1 /\ q = <<>> /\ told = owed)
  BY DEF Channel
<1> QED BY <1>1, <1>2, <1>3

LEMMA TakesLengths ==
  ASSUME NEW C, NEW S, NEW q, NEW owed, NEW told, NEW s, NEW d, NEW g, Channel(C, S, 0, q, owed, told, s, d, g),
         q # <<>>
  PROVE  /\ \/ S = 1 /\ Head(q) = Lengths(owed)
            \/ S = 2 /\ \E l, b : Head(q) = Lengths(l) /\ Parcel(C, l, b, s, d, g)
         /\ Channel(C, S, 1, Tail(q), owed, Head(q).body, s, d, g)
<1>1. CASE S = 1 /\ q = <<Lengths(owed)>>
  <2>1. Head(q) = Lengths(owed) /\ Tail(q) = <<>>
    BY <1>1
  <2>2. Head(q).body = owed
    BY <2>1 DEF Lengths
  <2> QED BY <1>1, <2>1, <2>2, Zenon DEF Channel
<1>2. CASE S = 2 /\ \E l, b : q = <<Lengths(l), Data(b)>> /\ Parcel(C, l, b, s, d, g)
  <2>1. PICK l, b : q = <<Lengths(l), Data(b)>> /\ Parcel(C, l, b, s, d, g)
    BY <1>2
  <2>2. Head(q) = Lengths(l) /\ Tail(q) = <<Data(b)>>
    BY <2>1
  <2>3. Head(q).body = l
    BY <2>2 DEF Lengths
  <2> QED BY <1>2, <2>1, <2>2, <2>3, Zenon DEF Channel
<1>3. \/ S = 1 /\ q = <<Lengths(owed)>>
      \/ S = 2 /\ \E l, b : q = <<Lengths(l), Data(b)>> /\ Parcel(C, l, b, s, d, g)
  BY DEF Channel
<1> QED BY <1>1, <1>2, <1>3

LEMMA TakesData ==
  ASSUME NEW C, NEW S, NEW q, NEW owed, NEW told, NEW s, NEW d, NEW g, Channel(C, S, 1, q, owed, told, s, d, g),
         q # <<>>
  PROVE  /\ S = 2 /\ Head(q).kind = "data" /\ Parcel(C, told, Head(q).body, s, d, g)
         /\ \A t : Channel(C, S, 2, Tail(q), owed, t, s, d, g)
<1>1. S = 2 /\ \E b : q = <<Data(b)>> /\ Parcel(C, told, b, s, d, g)
  BY DEF Channel
<1>2. PICK b : q = <<Data(b)>> /\ Parcel(C, told, b, s, d, g)
  BY <1>1
<1>3. Head(q) = Data(b) /\ Tail(q) = <<>>
  BY <1>2
<1>4. Head(q).kind = "data" /\ Head(q).body = b
  BY <1>3 DEF Data
<1> QED BY <1>1, <1>2, <1>3, <1>4, Zenon DEF Channel

\* What has been got matters only between lengths and data.
LEMMA ToldLater ==
  ASSUME NEW C, NEW S, NEW T, NEW q, NEW owed, NEW told, NEW s, NEW d, NEW g,
         Channel(C, S, T, q, owed, told, s, d, g), T # 1, NEW t
  PROVE  Channel(C, S, T, q, owed, t, s, d, g)
  BY Zenon DEF Channel

\* and what is owed only until the data are sent
LEMMA OwedEarlier ==
  ASSUME NEW C, NEW S, NEW T, NEW q, NEW owed, NEW told, NEW s, NEW d, NEW g,
         Channel(C, S, T, q, owed, told, s, d, g), S # 1, NEW o
  PROVE  Channel(C, S, T, q, o, told, s, d, g)
  BY Zenon DEF Channel

\* n becomes m: r takes a message from d, and sends e the messages of ms
Passed(n, m, r, d, e, ms) ==
  /\ m[d][r] = Tail(n[d][r])
  /\ m[r][e] = IF ms = <<>> THEN n[r][e] ELSE Append(n[r][e], ms[1])
  /\ \A x, y \in Procs : (x # d \/ y # r) /\ (x # r \/ y # e) => m[x][y] = n[x][y]
  /\ Net(m)

LEMMA SendrecvPasses ==
  ASSUME NEW r \in Procs, NEW d \in Procs, NEW e \in Procs, d # r, NEW ms, NEW l, Net(net),
         Sendrecv(r, d, e, ms, l)
  PROVE  Passed(net, net', r, d, e, ms) /\ net[d][r] # <<>> /\ pc' = [pc EXCEPT ![r] = l]
<1> DEFINE taken == [net EXCEPT ![d][r] = Tail(net[d][r])]
<1>1. /\ net' = IF ms = <<>> THEN taken ELSE [taken EXCEPT ![r][e] = Append(taken[r][e], ms[1])]
      /\ net[d][r] # <<>> /\ pc' = [pc EXCEPT ![r] = l]
  BY DEF Sendrecv
<1>2. /\ Net(taken) /\ taken[d][r] = Tail(net[d][r])
      /\ \A x, y \in Procs : (x # d \/ y # r) => taken[x][y] = net[x][y]
  BY DEF Net
<1> HIDE DEF taken
<1>3. taken[r][e] = net[r][e]
  BY <1>2
<1>4. CASE ms = <<>>
  <2>1. net' = taken
    BY <1>1, <1>4
  <2> QED BY <1>1, <1>2, <1>3, <1>4, <2>1 DEF Passed
<1>5. CASE ms # <<>>
  <2> DEFINE u == Append(net[r][e], ms[1])
  <2>1. net' = [taken EXCEPT ![r][e] = u]
    BY <1>1, <1>3, <1>5
  <2> HIDE DEF u
  <2>2. /\ Net(net') /\ net'[r][e] = u /\ net'[d][r] = taken[d][r]
        /\ \A x, y \in Procs : (x # r \/ y # e) => net'[x][y] = taken[x][y]
    BY <1>2, <2>1 DEF Net
  <2> QED BY <1>1, <1>2, <1>5, <2>2 DEF Passed, u
<1> QED BY <1>4, <1>5

\* The operators of a process in its range are those of the range.
LEMMA InItsRange ==
  ASSUME NEW r
  PROVE  /\ split_id(r) = Split(range[r]) /\ new_range(r) = HalfOf(range[r], r)
         /\ cmp_range(r) = OtherOf(range[r], r) /\ partner(r) = PartnerIn(range[r], r)
         /\ extra_partner(r) = ExtraIn(range[r], r) /\ new_np(r) = SizeOf(HalfOf(range[r], r))
         /\ s_lengths(r) = SubSeq(s_cnt[r], OtherOf(range[r], r)[1] - range[r][1] + 1,
                                            OtherOf(range[r], r)[2] - range[r][1] + 1)
         /\ sbuff_tmp(r) = Cut(sbuff[r], s_cnt[r], OtherOf(range[r], r)[1] - range[r][1] + 1,
                                                   OtherOf(range[r], r)[2] - range[r][1] + 1)
         /\ s_len_ext(r) = Zeros(SizeOf(OtherOf(range[r], r)))
<1>1. split_id(r) = Split(range[r])
  BY DEF split_id, Split
<1>2. new_range(r) = HalfOf(range[r], r) /\ cmp_range(r) = OtherOf(range[r], r)
  BY <1>1 DEF new_range, cmp_range, HalfOf, OtherOf, Lower, Upper, Lo, Up
<1>3. partner(r) = PartnerIn(range[r], r) /\ extra_partner(r) = ExtraIn(range[r], r)
  BY <1>2 DEF partner, PartnerIn, extra_partner, ExtraIn
<1>4. new_np(r) = SizeOf(HalfOf(range[r], r)) /\ s_len_ext(r) = Zeros(SizeOf(OtherOf(range[r], r)))
  BY <1>2, Zenon DEF new_np, SizeOf, s_len_ext, Zeros
<1> DEFINE w == Within(r, cmp_range(r))
<1>5. /\ w[1] = OtherOf(range[r], r)[1] - range[r][1] + 1
      /\ w[2] = OtherOf(range[r], r)[2] - range[r][1] + 1
  BY <1>2 DEF Within
<1>6. s_lengths(r) = SubSeq(s_cnt[r], w[1], w[2]) /\ sbuff_tmp(r) = Cut(sbuff[r], s_cnt[r], w[1], w[2])
  BY DEF s_lengths, sbuff_tmp, Cut
<1> QED BY <1>1, <1>2, <1>3, <1>4, <1>5, <1>6, Zenon

-----------------------------------------------------------------------------
\* A step of r within a round changes what is r's, and channels between r and
\* its peers.
Local(r) ==
  /\ range' = range /\ s_cnt' = s_cnt /\ sbuff' = sbuff
  /\ \A q \in Procs : q # r =>
       /\ pc'[q] = pc[q] /\ r_cnt'[q] = r_cnt[q] /\ r_cnt_ext'[q] = r_cnt_ext[q]
       /\ rbuff'[q] = rbuff[q] /\ rbuffext'[q] = rbuffext[q]
  /\ \A x, y \in Procs : net'[x][y] # net[x][y] =>
       (x = r /\ Peers(range[r], r, y)) \/ (y = r /\ Peers(range[r], x, r))

\* Channels of other processes, and of other rounds, are as they were.
LEMMA ChannelsElsewhere ==
  ASSUME NEW C, DenseInv(C), NEW r \in Procs, NEW h, h = range[r], Local(r),
         NEW g \in Ranges, NEW s \in Procs, NEW d \in Procs, Peers(g, s, d),
         g # h \/ (s # r /\ d # r)
  PROVE  ChannelOK(C, s, d, g)'
<1> DEFINE S == Sent(pc[s], range[s], s, d, g)  T == Taken(pc[d], range[d], d, s, g)
           o == Owed(s_cnt[s], s, d, g)  t == Told(r_cnt[d], r_cnt_ext[d], d, s, g)
           u == Told(r_cnt'[d], r_cnt_ext'[d], d, s, g)  q == net[s][d]
<1>1. /\ range' = range /\ s_cnt' = s_cnt
      /\ \A x \in Procs : x # r => pc'[x] = pc[x] /\ r_cnt'[x] = r_cnt[x] /\ r_cnt_ext'[x] = r_cnt_ext[x]
      /\ net'[s][d] # net[s][d] => (s = r /\ Peers(h, r, d)) \/ (d = r /\ Peers(h, s, r))
  BY DEF Local
<1>2. h \in Ranges
  BY DEF DenseInv, OwnOK, Own
<1>3. net'[s][d] = q
  BY <1>1, <1>2, OneRange
<1>4. Channel(C, S, T, q, o, t, s, d, g)
  BY DEF DenseInv, ChannelOK
<1>5. Sent(pc'[s], range[s], s, d, g) = S
  <2>1. CASE s # r
    BY <1>1, <2>1
  <2>2. CASE s = r
    BY <2>2 DEF Sent
  <2> QED BY <2>1, <2>2
<1>6. Taken(pc'[d], range[d], d, s, g) = T
  <2>1. CASE d # r
    BY <1>1, <2>1
  <2>2. CASE d = r
    BY <2>2 DEF Taken
  <2> QED BY <2>1, <2>2
<1>7. t = u \/ T # 1
  <2>1. CASE d # r
    BY <1>1, <2>1
  <2>2. CASE d = r
    <3>1. range[d] # g
      BY <2>2
    <3>2. T = IF Under(g, range[d]) THEN 0 ELSE 2
      BY <3>1, Zenon DEF Taken
    <3> QED BY <3>2
  <2> QED BY <2>1, <2>2
<1> HIDE DEF S, T, o, t, u, q
<1>8. Channel(C, S, T, q, o, u, s, d, g)
  BY <1>4, <1>7, ToldLater
<1>9. ChannelOK(C, s, d, g)' = Channel(C, Sent(pc'[s], range'[s], s, d, g), Taken(pc'[d], range'[d], d, s, g),
          net'[s][d], Owed(s_cnt'[s], s, d, g), u, s, d, g)
  BY DEF ChannelOK, u
<1> QED BY <1>1, <1>3, <1>5, <1>6, <1>8, <1>9, Zenon DEF o

\* The channels between r and a peer, before and after a step of r that takes it
\* from label l to label k.
LEMMA OutAfter ==
  ASSUME NEW C, DenseInv(C), NEW r \in Procs, NEW g, g = range[r], Local(r), NEW y \in Procs, Peers(g, r, y),
         g \in Ranges, y # r, NEW l, l = pc[r], NEW k, k = pc'[r]
  PROVE  \E T, t :
           /\ Channel(C, Sent(l, g, r, y, g), T, net[r][y], Owed(s_cnt[r], r, y, g), t, r, y, g)
           /\ ChannelOK(C, r, y, g)' = Channel(C, Sent(k, g, r, y, g), T, net'[r][y],
                                            Owed(s_cnt[r], r, y, g), t, r, y, g)
<1>1. /\ range' = range /\ s_cnt' = s_cnt
      /\ pc'[y] = pc[y] /\ r_cnt'[y] = r_cnt[y] /\ r_cnt_ext'[y] = r_cnt_ext[y]
  BY DEF Local
<1>2. ChannelOK(C, r, y, g)' = Channel(C, Sent(pc'[r], range'[r], r, y, g), Taken(pc'[y], range'[y], y, r, g),
        net'[r][y], Owed(s_cnt'[r], r, y, g), Told(r_cnt'[y], r_cnt_ext'[y], y, r, g), r, y, g)
  BY Zenon DEF ChannelOK
<1>3. ChannelOK(C, r, y, g)
  BY DEF DenseInv
<1>4. Channel(C, Sent(pc[r], range[r], r, y, g), Taken(pc[y], range[y], y, r, g),
        net[r][y], Owed(s_cnt[r], r, y, g), Told(r_cnt[y], r_cnt_ext[y], y, r, g), r, y, g)
  BY <1>3, Zenon DEF ChannelOK
<1> WITNESS Taken(pc[y], range[y], y, r, g), Told(r_cnt[y], r_cnt_ext[y], y, r, g)
<1> QED BY <1>1, <1>2, <1>4, Zenon

LEMMA InAfter ==
  ASSUME NEW C, DenseInv(C), NEW r \in Procs, NEW g, g = range[r], Local(r), NEW y \in Procs, Peers(g, y, r),
         g \in Ranges, y # r, NEW l, l = pc[r], NEW k, k = pc'[r]
  PROVE  \E S, o :
           /\ Channel(C, S, Taken(l, g, r, y, g), net[y][r], o,
                      Told(r_cnt[r], r_cnt_ext[r], r, y, g), y, r, g)
           /\ ChannelOK(C, y, r, g)' = Channel(C, S, Taken(k, g, r, y, g), net'[y][r], o,
                                            Told(r_cnt'[r], r_cnt_ext'[r], r, y, g), y, r, g)
<1>1. range' = range /\ s_cnt' = s_cnt /\ pc'[y] = pc[y]
  BY DEF Local
<1>2. ChannelOK(C, y, r, g)' = Channel(C, Sent(pc'[y], range'[y], y, r, g), Taken(pc'[r], range'[r], r, y, g),
        net'[y][r], Owed(s_cnt'[y], y, r, g), Told(r_cnt'[r], r_cnt_ext'[r], r, y, g), y, r, g)
  BY Zenon DEF ChannelOK
<1>3. ChannelOK(C, y, r, g)
  BY DEF DenseInv
<1>4. Channel(C, Sent(pc[y], range[y], y, r, g), Taken(pc[r], range[r], r, y, g),
        net[y][r], Owed(s_cnt[y], y, r, g), Told(r_cnt[r], r_cnt_ext[r], r, y, g), y, r, g)
  BY <1>3, Zenon DEF ChannelOK
<1> WITNESS Sent(pc[y], range[y], y, r, g), Owed(s_cnt[y], y, r, g)
<1> QED BY <1>1, <1>2, <1>4, Zenon

\* What is left to show of a step of r within a round.
LEMMA StepKeeps ==
  ASSUME NEW C, DenseInv(C), NEW r \in Procs, NEW g, g = range[r], Local(r), Places', OwnOK(C, r)',
         \A y \in Procs : Peers(g, r, y) => ChannelOK(C, r, y, g)' /\ ChannelOK(C, y, r, g)'
  PROVE  DenseInv(C)'
<1>1. g \in Ranges /\ g \in Procs \X Procs
  <2>1. g \in Ranges
    BY DEF DenseInv, OwnOK, Own
  <2> QED BY <2>1, RangeIs
<1>2. ASSUME NEW q \in Procs PROVE OwnOK(C, q)'
  <2>1. CASE q # r
    <3>1. /\ range'[q] = range[q] /\ s_cnt'[q] = s_cnt[q] /\ sbuff'[q] = sbuff[q]
          /\ pc'[q] = pc[q] /\ r_cnt'[q] = r_cnt[q] /\ r_cnt_ext'[q] = r_cnt_ext[q]
          /\ rbuff'[q] = rbuff[q] /\ rbuffext'[q] = rbuffext[q]
      BY <2>1 DEF Local
    <3>2. Own(C, q, pc[q], range[q], s_cnt[q], sbuff[q], r_cnt[q], rbuff[q], r_cnt_ext[q], rbuffext[q])
      BY Zenon DEF DenseInv, OwnOK
    <3>3. Own(C, q, pc'[q], range'[q], s_cnt'[q], sbuff'[q], r_cnt'[q], rbuff'[q], r_cnt_ext'[q], rbuffext'[q])
      BY <3>1, <3>2, Zenon
    <3> QED BY <3>3, Zenon DEF OwnOK
  <2> QED BY <2>1
<1>3. ASSUME NEW h \in Ranges, NEW s \in Procs, NEW d \in Procs, Peers(h, s, d)
      PROVE  ChannelOK(C, s, d, h)'
  <2>1. CASE h # g \/ (s # r /\ d # r)
    BY <1>3, <2>1, ChannelsElsewhere
  <2>2. CASE h = g /\ s = r
    BY <1>3, <2>2
  <2>3. CASE h = g /\ d = r
    <3>1. Peers(g, r, s)
      BY <1>1, <1>3, <2>3, PeersAre
    <3> QED BY <2>3, <3>1
  <2> QED BY <2>1, <2>2, <2>3
<1> QED BY <1>2, <1>3 DEF DenseInv

\* The peers of a process.
LEMMA PeersOf ==
  ASSUME NEW g \in Ranges, g[1] < g[2], NEW r \in Procs, In(r, g)
  PROVE  /\ PartnerIn(g, r) \in Procs /\ PartnerIn(g, r) # r
         /\ Peers(g, r, PartnerIn(g, r)) /\ Peers(g, PartnerIn(g, r), r)
         /\ ExtraIn(g, r) => /\ Split(g) \in Procs /\ Split(g) # r /\ Split(g) # PartnerIn(g, r)
                             /\ Peers(g, r, Split(g)) /\ Peers(g, Split(g), r)
                             /\ PartnerIn(g, Split(g)) = r
         /\ \A y \in Procs : Peers(g, r, y) => y # r /\ (y = PartnerIn(g, r) \/ (ExtraIn(g, r) /\ y = Split(g)))
<1>1. g \in Procs \X Procs
  BY RangeIs
<1>2. PartnerIn(g, r) \in Procs /\ PartnerIn(g, r) # r /\ Peers(g, r, PartnerIn(g, r))
  BY <1>1, PartnerIs DEF Peers
<1>3. ExtraIn(g, r) => /\ Split(g) \in Procs /\ Split(g) # r /\ Split(g) # PartnerIn(g, r)
                       /\ Peers(g, r, Split(g)) /\ PartnerIn(g, Split(g)) = r
  BY <1>1, ExtraIs DEF Peers
<1>4. \A y \in Procs : Peers(g, r, y) => Peers(g, y, r)
  BY <1>1, PeersAre
<1>5. \A y \in Procs : Peers(g, r, y) => y # r /\ (y = PartnerIn(g, r) \/ (ExtraIn(g, r) /\ y = Split(g)))
  BY <1>2, <1>3 DEF Peers
<1> QED BY <1>2, <1>3, <1>4, <1>5

\* what is known of r in its range g
LEMMA OwnIs ==
  ASSUME NEW C, DenseInv(C), NEW r \in Procs, NEW g, g = range[r]
  PROVE  /\ Own(C, r, pc[r], g, s_cnt[r], sbuff[r], r_cnt[r], rbuff[r], r_cnt_ext[r], rbuffext[r])
         /\ g \in Ranges /\ In(r, g) /\ g \in Procs \X Procs /\ (pc[r] \notin {"round", "done"} => g[1] < g[2])
         /\ pc[r] \in {"extra counts", "extra data"} => ExtraIn(g, r)
         /\ Full(C, sbuff[r], s_cnt[r], g, Bringers(g, r))
         /\ Carries(sbuff[r], s_cnt[r], g, g, r) /\ pc[r] \in Labels /\ Net(net) /\ Places
<1>1. Own(C, r, pc[r], g, s_cnt[r], sbuff[r], r_cnt[r], rbuff[r], r_cnt_ext[r], rbuffext[r])
  BY Zenon DEF DenseInv, OwnOK
<1>2. /\ g \in Ranges /\ In(r, g) /\ (pc[r] \notin {"round", "done"} => g[1] < g[2])
      /\ Carries(sbuff[r], s_cnt[r], g, g, r) /\ Full(C, sbuff[r], s_cnt[r], g, Bringers(g, r))
      /\ pc[r] \in {"extra counts", "extra data"} => ExtraIn(g, r)
  BY <1>1, Zenon DEF Own
<1>3. pc[r] \in Labels /\ Net(net) /\ Places
  BY DEF DenseInv, Places
<1> QED BY <1>1, <1>2, <1>3, RangeIs

\* A round begins.
LEMMA SendCountsKeeps ==
  ASSUME NEW C, DenseInv(C), NEW r \in Procs, SendCounts(r)
  PROVE  DenseInv(C)'
<1>1. PICK g : g = range[r]
  OBVIOUS
<1>2. /\ Own(C, r, pc[r], g, s_cnt[r], sbuff[r], r_cnt[r], rbuff[r], r_cnt_ext[r], rbuffext[r])
      /\ g \in Ranges /\ In(r, g) /\ Net(net) /\ Places /\ Carries(sbuff[r], s_cnt[r], g, g, r)
      /\ Full(C, sbuff[r], s_cnt[r], g, Bringers(g, r))
  BY <1>1, OwnIs
<1>3. pc[r] = "round" /\ g[1] < g[2]
  BY <1>1 DEF SendCounts
<1>4. PICK p : p = PartnerIn(g, r)
  OBVIOUS
<1>5. PICK L : L = s_lengths(r)
  OBVIOUS
<1>6. PICK z : z = Zeros(SizeOf(HalfOf(g, r)))
  OBVIOUS
<1>7. /\ p \in Procs /\ p # r /\ Peers(g, r, p) /\ Peers(g, p, r)
      /\ \A y \in Procs : Peers(g, r, y) => y # r /\ (y = p \/ (ExtraIn(g, r) /\ y = Split(g)))
  BY <1>2, <1>3, <1>4, PeersOf
<1>8. L = Owed(s_cnt[r], r, p, g)
  <2>1. s_lengths(r) = SubSeq(s_cnt[r], OtherOf(g, r)[1] - g[1] + 1, OtherOf(g, r)[2] - g[1] + 1)
    BY <1>1, InItsRange
  <2> QED BY <1>4, <1>5, <2>1, Zenon DEF Owed
<1>9. /\ pc' = [pc EXCEPT ![r] = "counts"]
      /\ net' = [net EXCEPT ![r][p] = Append(net[r][p], Lengths(L))]
      /\ r_cnt_ext' = [r_cnt_ext EXCEPT ![r] = z] /\ rbuffext' = [rbuffext EXCEPT ![r] = <<>>]
      /\ range' = range /\ s_cnt' = s_cnt /\ sbuff' = sbuff /\ r_cnt' = r_cnt /\ rbuff' = rbuff
  <2>1. partner(r) = p /\ new_np(r) = SizeOf(HalfOf(g, r))
    BY <1>1, <1>4, InItsRange
  <2> QED BY <1>5, <1>6, <2>1 DEF SendCounts, Zeros
<1>10. /\ net'[r][p] = Append(net[r][p], Lengths(L)) /\ Net(net')
       /\ \A x, y \in Procs : (x # r \/ y # p) => net'[x][y] = net[x][y]
  BY <1>2, <1>7, <1>9 DEF Net
<1>11. /\ Places' /\ pc'[r] = "counts" /\ r_cnt_ext'[r] = z /\ rbuffext'[r] = <<>>
       /\ \A q \in Procs : q # r =>
            pc'[q] = pc[q] /\ r_cnt_ext'[q] = r_cnt_ext[q] /\ rbuffext'[q] = rbuffext[q]
  BY <1>2, <1>9, <1>10 DEF Places, Labels
<1>12. Local(r)
  BY <1>1, <1>7, <1>9, <1>10, <1>11 DEF Local
<1>13. OwnOK(C, r)'
  <2>1. Own(C, r, "counts", g, s_cnt[r], sbuff[r], r_cnt[r], rbuff[r], z, <<>>)
    BY <1>2, <1>3, <1>6 DEF Own
  <2>2. Own(C, r, pc'[r], range'[r], s_cnt'[r], sbuff'[r], r_cnt'[r], rbuff'[r], r_cnt_ext'[r], rbuffext'[r])
    BY <1>1, <1>9, <1>11, <2>1, Zenon
  <2> QED BY <2>2, Zenon DEF OwnOK
<1>14. ASSUME NEW y \in Procs, Peers(g, r, y)
       PROVE  ChannelOK(C, r, y, g)' /\ ChannelOK(C, y, r, g)'
  <2>1. y # r /\ Peers(g, y, r)
    BY <1>2, <1>7, <1>14, RangeIs, PeersAre
  <2>2. PICK T, t :
          /\ Channel(C, Sent("round", g, r, y, g), T, net[r][y], Owed(s_cnt[r], r, y, g), t, r, y, g)
          /\ ChannelOK(C, r, y, g)' = Channel(C, Sent("counts", g, r, y, g), T, net'[r][y],
                                           Owed(s_cnt[r], r, y, g), t, r, y, g)
    BY <1>1, <1>2, <1>3, <1>11, <1>12, <1>14, <2>1, OutAfter
  <2>3. PICK S, o :
          /\ Channel(C, S, Taken("round", g, r, y, g), net[y][r], o,
                     Told(r_cnt[r], r_cnt_ext[r], r, y, g), y, r, g)
          /\ ChannelOK(C, y, r, g)' = Channel(C, S, Taken("counts", g, r, y, g), net'[y][r], o,
                                           Told(r_cnt'[r], r_cnt_ext'[r], r, y, g), y, r, g)
    BY <1>1, <1>2, <1>3, <1>11, <1>12, <2>1, InAfter
  <2>4. net'[y][r] = net[y][r]
    BY <1>10, <2>1
  <2>5. Taken("counts", g, r, y, g) = 0 /\ Taken("round", g, r, y, g) = 0
    BY DEF Taken, Stage
  <2>6. ChannelOK(C, y, r, g)'
    <3>1. PICK told : told = Told(r_cnt'[r], r_cnt_ext'[r], r, y, g)
      OBVIOUS
    <3>2. Channel(C, S, 0, net[y][r], o, Told(r_cnt[r], r_cnt_ext[r], r, y, g), y, r, g)
      BY <2>3, <2>5, Zenon
    <3>3. Channel(C, S, 0, net[y][r], o, told, y, r, g)
      BY <3>2, ToldLater
    <3> QED BY <2>3, <2>4, <2>5, <3>1, <3>3, Zenon
  <2>7. CASE y = p
    <3>1. Sent("round", g, r, y, g) = 0 /\ Sent("counts", g, r, y, g) = 1
      BY <1>4, <2>7 DEF Sent, Stage
    <3>2. net'[r][y] = Append(net[r][y], Lengths(Owed(s_cnt[r], r, y, g)))
      BY <1>8, <1>10, <2>7
    <3>3. Channel(C, 1, T, Append(net[r][y], Lengths(Owed(s_cnt[r], r, y, g))),
                  Owed(s_cnt[r], r, y, g), t, r, y, g)
      BY <2>2, <3>1, SendsLengths, Zenon
    <3> QED BY <2>2, <2>6, <3>1, <3>2, <3>3, Zenon
  <2>8. CASE y # p
    <3>1. Sent("round", g, r, y, g) = 0 /\ Sent("counts", g, r, y, g) = 0
      BY <1>4, <2>8 DEF Sent, Stage
    <3>2. net'[r][y] = net[r][y]
      BY <1>10, <2>8
    <3> QED BY <2>2, <2>6, <3>1, <3>2, Zenon
  <2> QED BY <2>7, <2>8
<1> QED BY <1>1, <1>11, <1>12, <1>13, <1>14, StepKeeps

-----------------------------------------------------------------------------
\* A step of r either leaves a channel alone, sends lengths or data over it,
OutStep(C, S, S2, q, q2, owed, s, d, g) ==
  \/ S2 = S /\ q2 = q
  \/ S = 0 /\ S2 = 1 /\ q2 = Append(q, Lengths(owed))
  \/ S = 1 /\ S2 = 2 /\ \E b : q2 = Append(q, Data(b)) /\ Parcel(C, owed, b, s, d, g)

\* or takes lengths or data from it.
InStep(T, T2, q, q2, told, told2) ==
  \/ T2 = T /\ q2 = q /\ (told2 = told \/ T # 1)
  \/ T = 0 /\ T2 = 1 /\ q # <<>> /\ q2 = Tail(q) /\ told2 = Head(q).body
  \/ T = 1 /\ T2 = 2 /\ q # <<>> /\ q2 = Tail(q)

LEMMA OutStepKeeps ==
  ASSUME NEW C, NEW S, NEW T, NEW q, NEW owed, NEW told, NEW s, NEW d, NEW g,
         Channel(C, S, T, q, owed, told, s, d, g),
         NEW S2, NEW q2, OutStep(C, S, S2, q, q2, owed, s, d, g)
  PROVE  Channel(C, S2, T, q2, owed, told, s, d, g)
<1>1. CASE S2 = S /\ q2 = q
  BY <1>1
<1>2. CASE S = 0 /\ S2 = 1 /\ q2 = Append(q, Lengths(owed))
  BY <1>2, SendsLengths
<1>3. CASE S = 1 /\ S2 = 2 /\ \E b : q2 = Append(q, Data(b)) /\ Parcel(C, owed, b, s, d, g)
  <2>1. PICK b : q2 = Append(q, Data(b)) /\ Parcel(C, owed, b, s, d, g)
    BY <1>3
  <2> QED BY <1>3, <2>1, SendsData
<1> QED BY <1>1, <1>2, <1>3, Zenon DEF OutStep

LEMMA InStepKeeps ==
  ASSUME NEW C, NEW S, NEW T, NEW q, NEW owed, NEW told, NEW s, NEW d, NEW g,
         Channel(C, S, T, q, owed, told, s, d, g),
         NEW T2, NEW q2, NEW told2, InStep(T, T2, q, q2, told, told2)
  PROVE  Channel(C, S, T2, q2, owed, told2, s, d, g)
<1>1. CASE T2 = T /\ q2 = q /\ (told2 = told \/ T # 1)
  BY <1>1, ToldLater
<1>2. CASE T = 0 /\ T2 = 1 /\ q # <<>> /\ q2 = Tail(q) /\ told2 = Head(q).body
  BY <1>2, TakesLengths
<1>3. CASE T = 1 /\ T2 = 2 /\ q # <<>> /\ q2 = Tail(q)
  BY <1>3, TakesData
<1> QED BY <1>1, <1>2, <1>3, Zenon DEF InStep

\* What is left to show of a step of r within a round, one peer at a time.
Moves(C, r, g, l, k, y) ==
  /\ OutStep(C, Sent(l, g, r, y, g), Sent(k, g, r, y, g), net[r][y], net'[r][y], Owed(s_cnt[r], r, y, g), r, y, g)
  /\ InStep(Taken(l, g, r, y, g), Taken(k, g, r, y, g), net[y][r], net'[y][r],
            Told(r_cnt[r], r_cnt_ext[r], r, y, g), Told(r_cnt'[r], r_cnt_ext'[r], r, y, g))

LEMMA MovesKeep ==
  ASSUME NEW C, DenseInv(C), NEW r \in Procs, NEW g, g = range[r], Local(r), Places', OwnOK(C, r)',
         NEW l, l = pc[r], NEW k, k = pc'[r],
         \A y \in Procs : Peers(g, r, y) => Moves(C, r, g, l, k, y)
  PROVE  DenseInv(C)'
<1>1. g \in Ranges /\ g \in Procs \X Procs
  BY OwnIs
<1>2. ASSUME NEW y \in Procs, Peers(g, r, y) PROVE ChannelOK(C, r, y, g)' /\ ChannelOK(C, y, r, g)'
  <2>1. y # r /\ Peers(g, y, r)
    BY <1>1, <1>2, PeersAre
  <2>2. /\ OutStep(C, Sent(l, g, r, y, g), Sent(k, g, r, y, g), net[r][y], net'[r][y],
                   Owed(s_cnt[r], r, y, g), r, y, g)
        /\ InStep(Taken(l, g, r, y, g), Taken(k, g, r, y, g), net[y][r], net'[y][r],
                  Told(r_cnt[r], r_cnt_ext[r], r, y, g), Told(r_cnt'[r], r_cnt_ext'[r], r, y, g))
    BY <1>2 DEF Moves
  <2>3. PICK T, t :
          /\ Channel(C, Sent(l, g, r, y, g), T, net[r][y], Owed(s_cnt[r], r, y, g), t, r, y, g)
          /\ ChannelOK(C, r, y, g)' = Channel(C, Sent(k, g, r, y, g), T, net'[r][y],
                                           Owed(s_cnt[r], r, y, g), t, r, y, g)
    BY <1>1, <1>2, <2>1, OutAfter
  <2>4. PICK S, o :
          /\ Channel(C, S, Taken(l, g, r, y, g), net[y][r], o,
                     Told(r_cnt[r], r_cnt_ext[r], r, y, g), y, r, g)
          /\ ChannelOK(C, y, r, g)' = Channel(C, S, Taken(k, g, r, y, g), net'[y][r], o,
                                           Told(r_cnt'[r], r_cnt_ext'[r], r, y, g), y, r, g)
    BY <1>1, <2>1, InAfter
  <2>5. ChannelOK(C, r, y, g)'
    <3>1. Channel(C, Sent(k, g, r, y, g), T, net'[r][y], Owed(s_cnt[r], r, y, g), t, r, y, g)
      BY <2>2, <2>3, OutStepKeeps
    <3> QED BY <2>3, <3>1, Zenon
  <2>6. ChannelOK(C, y, r, g)'
    <3>1. Channel(C, S, Taken(k, g, r, y, g), net'[y][r], o, Told(r_cnt'[r], r_cnt_ext'[r], r, y, g), y, r, g)
      BY <2>2, <2>4, InStepKeeps
    <3> QED BY <2>4, <3>1, Zenon
  <2> QED BY <2>5, <2>6
<1> QED BY <1>2, StepKeeps

\* How far a process is with its partner, and with its extra partner.
WithPartner(g, r, y) ==
  /\ Sent("round", g, r, y, g) = 0 /\ Sent("counts", g, r, y, g) = 1
  /\ Sent("extra counts", g, r, y, g) = 1 /\ Sent("data", g, r, y, g) = 2
  /\ Sent("extra data", g, r, y, g) = 2 /\ Sent("rearrange", g, r, y, g) = 2
  /\ Taken("round", g, r, y, g) = 0 /\ Taken("counts", g, r, y, g) = 0
  /\ Taken("extra counts", g, r, y, g) = 1 /\ Taken("data", g, r, y, g) = 1
  /\ Taken("extra data", g, r, y, g) = 2 /\ Taken("rearrange", g, r, y, g) = 2
  /\ \A rc, rce : Told(rc, rce, r, y, g) = rc

LEMMA PartnerStages ==
  ASSUME NEW g, NEW r, NEW y, y = PartnerIn(g, r)
  PROVE  WithPartner(g, r, y)
  BY Zenon DEF WithPartner, Sent, Taken, Told, Stage

WithExtra(g, r, y) ==
  /\ Sent("round", g, r, y, g) = 0 /\ Sent("counts", g, r, y, g) = 0
  /\ Sent("extra counts", g, r, y, g) = 1 /\ Sent("data", g, r, y, g) = 1
  /\ Sent("extra data", g, r, y, g) = 2 /\ Sent("rearrange", g, r, y, g) = 2
  /\ Taken("round", g, r, y, g) = 0 /\ Taken("counts", g, r, y, g) = 0
  /\ Taken("extra counts", g, r, y, g) = 0 /\ Taken("data", g, r, y, g) = 1
  /\ Taken("extra data", g, r, y, g) = 1 /\ Taken("rearrange", g, r, y, g) = 2
  /\ \A rc, rce : Told(rc, rce, r, y, g) = rce

LEMMA ExtraStages ==
  ASSUME NEW g, NEW r, NEW y, y # PartnerIn(g, r)
  PROVE  WithExtra(g, r, y)
  BY Zenon DEF WithExtra, Sent, Taken, Told, Stage

\* What r sends its peers.
LEMMA ParcelSent ==
  ASSUME NEW C, NEW g \in Ranges, g[1] < g[2], NEW r \in Procs, In(r, g),
         NEW sb, NEW sc, Carries(sb, sc, g, g, r), Full(C, sb, sc, g, Bringers(g, r))
  PROVE  LET p == PartnerIn(g, r)
             o == OtherOf(g, r)
         IN
         /\ Owed(sc, r, p, g) = SubSeq(sc, o[1] - g[1] + 1, o[2] - g[1] + 1)
         /\ Parcel(C, Owed(sc, r, p, g), Cut(sb, sc, o[1] - g[1] + 1, o[2] - g[1] + 1), r, p, g)
         /\ ExtraIn(g, r) => /\ Owed(sc, r, Split(g), g) = Zeros(SizeOf(o))
                             /\ Parcel(C, Owed(sc, r, Split(g), g), <<>>, r, Split(g), g)
<1> DEFINE p == PartnerIn(g, r)  o == OtherOf(g, r)
<1>1. g \in Procs \X Procs
  BY RangeIs
<1>2. /\ o \in Procs \X Procs /\ o[1] <= o[2] /\ Inside(o, g)
  <2>1. o = Lo(g) \/ o = Up(g)
    BY DEF OtherOf
  <2>2. /\ g[1] \in Nat /\ g[2] \in Nat /\ Split(g) \in Nat /\ g[1] <= Split(g) /\ Split(g) < g[2]
        /\ Lo(g) \in Procs \X Procs /\ Up(g) \in Procs \X Procs
        /\ Lo(g)[1] = g[1] /\ Lo(g)[2] = Split(g) /\ Up(g)[1] = Split(g) + 1 /\ Up(g)[2] = g[2]
    BY <1>1, Halves
  <2> HIDE DEF o
  <2>3. Inside(Lo(g), g) /\ Inside(Up(g), g) /\ Lo(g)[1] <= Lo(g)[2] /\ Up(g)[1] <= Up(g)[2]
    BY <2>2 DEF Inside
  <2> QED BY <2>1, <2>2, <2>3
<1>3. HalfOf(g, p) = o /\ (ExtraIn(g, r) => HalfOf(g, Split(g)) = o /\ Split(g) # p)
  <2>1. HalfOf(g, p) = o
    BY <1>1, PartnerIs
  <2>2. ExtraIn(g, r) => HalfOf(g, Split(g)) = o /\ Split(g) # p
    BY <1>1, ExtraIs
  <2> QED BY <2>1, <2>2
<1>4. Owed(sc, r, p, g) = SubSeq(sc, o[1] - g[1] + 1, o[2] - g[1] + 1)
  BY DEF Owed
<1> HIDE DEF p, o
<1>5. Carries(Cut(sb, sc, o[1] - g[1] + 1, o[2] - g[1] + 1),
              SubSeq(sc, o[1] - g[1] + 1, o[2] - g[1] + 1), o, g, r)
      /\ Full(C, Cut(sb, sc, o[1] - g[1] + 1, o[2] - g[1] + 1),
                 SubSeq(sc, o[1] - g[1] + 1, o[2] - g[1] + 1), o, Bringers(g, r))
  <2>1. PICK a, b : a = o[1] - g[1] + 1 /\ b = o[2] - g[1] + 1
    OBVIOUS
  <2>2. Carries(Cut(sb, sc, a, b), SubSeq(sc, a, b), o, g, r)
    BY <1>1, <1>2, <2>1, CarriesCut
  <2>3. Full(C, Cut(sb, sc, a, b), SubSeq(sc, a, b), o, Bringers(g, r))
    BY <1>1, <1>2, <2>1, FullCut
  <2> QED BY <2>1, <2>2, <2>3, Zenon
<1>6. Parcel(C, Owed(sc, r, p, g), Cut(sb, sc, o[1] - g[1] + 1, o[2] - g[1] + 1), r, p, g)
  BY <1>3, <1>4, <1>5, Zenon DEF Parcel, Brought, p
<1>7. ASSUME ExtraIn(g, r)
      PROVE  /\ Owed(sc, r, Split(g), g) = Zeros(SizeOf(o))
             /\ Parcel(C, Owed(sc, r, Split(g), g), <<>>, r, Split(g), g)
  <2>1. Owed(sc, r, Split(g), g) = Zeros(SizeOf(o))
    BY <1>3, <1>7, Zenon DEF Owed, p, o
  <2>2. Carries(<<>>, Zeros(SizeOf(o)), o, g, r)
    BY <1>2, CarriesNone
  <2>3. Full(C, <<>>, Zeros(SizeOf(o)), o, {})
    BY <1>2, FullNone
  <2> QED BY <1>3, <1>7, <2>1, <2>2, <2>3, Zenon DEF Parcel, Brought, p
<1> QED BY <1>4, <1>6, <1>7, Zenon DEF p, o

-----------------------------------------------------------------------------
\* f2 is f, except for r
OnlyAt(r, f, f2) == DOMAIN f2 = DOMAIN f /\ \A q \in Procs : q # r => f2[q] = f[q]

\* r takes a message from d, sends e those of ms, and goes on from label l at label k.
Receives(r, d, e, ms, l, k) ==
  /\ pc[r] = l /\ pc' = [pc EXCEPT ![r] = k]
  /\ net[d][r] # <<>> /\ Passed(net, net', r, d, e, ms)
  /\ range' = range /\ s_cnt' = s_cnt /\ sbuff' = sbuff
  /\ OnlyAt(r, r_cnt, r_cnt') /\ OnlyAt(r, r_cnt_ext, r_cnt_ext')
  /\ OnlyAt(r, rbuff, rbuff') /\ OnlyAt(r, rbuffext, rbuffext')

Exchanged(r, d, e, ms) ==
  \A y \in Procs : y # r =>
    /\ net'[y][r] = IF y = d THEN Tail(net[y][r]) ELSE net[y][r]
    /\ net'[r][y] = IF y = e /\ ms # <<>> THEN Append(net[r][y], ms[1]) ELSE net[r][y]

LEMMA ReceivesLocally ==
  ASSUME NEW C, DenseInv(C), NEW r \in Procs, NEW g, g = range[r],
         NEW d \in Procs, Peers(g, r, d), NEW e \in Procs, Peers(g, r, e), NEW ms,
         NEW l, NEW k \in Labels, Receives(r, d, e, ms, l, k)
  PROVE  Local(r) /\ Places' /\ pc'[r] = k /\ Exchanged(r, d, e, ms)
<1>1. Places /\ g \in Procs \X Procs
  BY OwnIs
<1>2. Peers(g, d, r) /\ d # r /\ e # r
  BY <1>1, PeersAre
<1>3. /\ net'[d][r] = Tail(net[d][r])
      /\ net'[r][e] = IF ms = <<>> THEN net[r][e] ELSE Append(net[r][e], ms[1])
      /\ \A x, y \in Procs : (x # d \/ y # r) /\ (x # r \/ y # e) => net'[x][y] = net[x][y]
      /\ Net(net')
  BY DEF Receives, Passed
<1>4. /\ pc' \in [Procs -> Labels] /\ pc'[r] = k /\ \A q \in Procs : q # r => pc'[q] = pc[q]
  BY <1>1 DEF Receives, Places
<1>5. /\ range' = range /\ s_cnt' = s_cnt /\ sbuff' = sbuff
      /\ OnlyAt(r, r_cnt, r_cnt') /\ OnlyAt(r, r_cnt_ext, r_cnt_ext')
      /\ OnlyAt(r, rbuff, rbuff') /\ OnlyAt(r, rbuffext, rbuffext')
  BY DEF Receives
<1>6. Places'
  BY <1>1, <1>3, <1>4, <1>5 DEF Places, OnlyAt
<1>7. ASSUME NEW x \in Procs, NEW y \in Procs, net'[x][y] # net[x][y]
      PROVE  (x = r /\ Peers(range[r], r, y)) \/ (y = r /\ Peers(range[r], x, r))
  BY <1>2, <1>3, <1>7
<1>8. Local(r)
  BY <1>4, <1>5, <1>7 DEF Local, OnlyAt
<1>9. ASSUME NEW y \in Procs, y # r
      PROVE  /\ net'[y][r] = IF y = d THEN Tail(net[y][r]) ELSE net[y][r]
             /\ net'[r][y] = IF y = e /\ ms # <<>> THEN Append(net[r][y], ms[1]) ELSE net[r][y]
  BY <1>2, <1>3, <1>9
<1> QED BY <1>4, <1>6, <1>8, <1>9 DEF Exchanged

\* what r keeps of a step in which it keeps its segments
LEMMA OwnAfter ==
  ASSUME NEW C, NEW r \in Procs, NEW g, g = range[r], Local(r), NEW k, k = pc'[r],
         Own(C, r, k, g, s_cnt[r], sbuff[r], r_cnt'[r], rbuff'[r], r_cnt_ext'[r], rbuffext'[r])
  PROVE  OwnOK(C, r)'
<1>1. range' = range /\ s_cnt' = s_cnt /\ sbuff' = sbuff
  BY DEF Local
<1>2. Own(C, r, pc'[r], range'[r], s_cnt'[r], sbuff'[r], r_cnt'[r], rbuff'[r], r_cnt_ext'[r], rbuffext'[r])
  BY <1>1, Zenon
<1> QED BY <1>2, Zenon DEF OwnOK

\* What a process within a round knows of its range and its peers.
Peering(r, g, p, x) ==
  /\ g = range[r] /\ g \in Ranges /\ In(r, g) /\ g[1] < g[2]
  /\ p = PartnerIn(g, r) /\ x = Split(g)
  /\ p \in Procs /\ p # r /\ Peers(g, r, p)
  /\ ExtraIn(g, r) => x \in Procs /\ x # r /\ x # p /\ Peers(g, r, x)
  /\ \A y \in Procs : Peers(g, r, y) => y # r /\ (y = p \/ (ExtraIn(g, r) /\ y = x))

LEMMA PeeringIs ==
  ASSUME NEW C, DenseInv(C), NEW r \in Procs, pc[r] \notin {"round", "done"}
  PROVE  \E g, p, x : Peering(r, g, p, x)
<1>1. PICK g : g = range[r]
  OBVIOUS
<1>2. g \in Ranges /\ In(r, g) /\ g[1] < g[2]
  BY <1>1, OwnIs
<1>3. PICK p, x : p = PartnerIn(g, r) /\ x = Split(g)
  OBVIOUS
<1>4. Peering(r, g, p, x)
  BY <1>1, <1>2, <1>3, PeersOf DEF Peering
<1> QED BY <1>4

-----------------------------------------------------------------------------
LEMMA RecvCountsKeeps ==
  ASSUME NEW C, DenseInv(C), NEW r \in Procs, RecvCounts(r)
  PROVE  DenseInv(C)'
<1>1. pc[r] = "counts"
  BY DEF RecvCounts
<1>2. PICK g, p, x : Peering(r, g, p, x)
  BY <1>1, PeeringIs
<1>3. /\ g = range[r] /\ g \in Ranges /\ In(r, g) /\ g[1] < g[2]
      /\ p = PartnerIn(g, r) /\ x = Split(g)
      /\ p \in Procs /\ p # r /\ Peers(g, r, p)
      /\ ExtraIn(g, r) => x \in Procs /\ x # r /\ x # p /\ Peers(g, r, x)
      /\ \A y \in Procs : Peers(g, r, y) => y # r /\ (y = p \/ (ExtraIn(g, r) /\ y = x))
  BY <1>2 DEF Peering
<1>4. /\ Own(C, r, "counts", g, s_cnt[r], sbuff[r], r_cnt[r], rbuff[r], r_cnt_ext[r], rbuffext[r])
      /\ Full(C, sbuff[r], s_cnt[r], g, Bringers(g, r))
      /\ Carries(sbuff[r], s_cnt[r], g, g, r) /\ Net(net) /\ Places
  BY <1>1, <1>3, OwnIs
<1>5. PICK o : o = OtherOf(g, r)
  OBVIOUS
<1>6. PICK L, b : L = Zeros(SizeOf(o)) /\ b = Cut(sbuff[r], s_cnt[r], o[1] - g[1] + 1, o[2] - g[1] + 1)
  OBVIOUS
<1>7. /\ Parcel(C, Owed(s_cnt[r], r, p, g), b, r, p, g)
      /\ ExtraIn(g, r) => Owed(s_cnt[r], r, x, g) = L
  <2>1. Parcel(C, Owed(s_cnt[r], r, PartnerIn(g, r), g),
               Cut(sbuff[r], s_cnt[r], OtherOf(g, r)[1] - g[1] + 1, OtherOf(g, r)[2] - g[1] + 1),
               r, PartnerIn(g, r), g)
    BY <1>3, <1>4, ParcelSent
  <2>2. ExtraIn(g, r) => Owed(s_cnt[r], r, Split(g), g) = Zeros(SizeOf(OtherOf(g, r)))
    BY <1>3, Zenon DEF Owed
  <2>3. b = Cut(sbuff[r], s_cnt[r], OtherOf(g, r)[1] - g[1] + 1, OtherOf(g, r)[2] - g[1] + 1)
    BY <1>5, <1>6, Zenon
  <2>4. L = Zeros(SizeOf(OtherOf(g, r)))
    BY <1>5, <1>6, Zenon
  <2>5. Parcel(C, Owed(s_cnt[r], r, p, g), b, r, p, g)
    BY <1>3, <2>1, <2>3, Zenon
  <2>6. ExtraIn(g, r) => Owed(s_cnt[r], r, x, g) = L
    BY <1>3, <2>4, <2>2, Zenon
  <2> QED BY <2>5, <2>6
<1>8. /\ extra_partner(r) = ExtraIn(g, r) /\ partner(r) = p /\ split_id(r) = x
      /\ s_len_ext(r) = L /\ sbuff_tmp(r) = b
  BY <1>3, <1>5, <1>6, InItsRange
<1>9. /\ r_cnt' = [r_cnt EXCEPT ![r] = Head(net[p][r]).body]
      /\ range' = range /\ s_cnt' = s_cnt /\ sbuff' = sbuff
      /\ r_cnt_ext' = r_cnt_ext /\ rbuff' = rbuff /\ rbuffext' = rbuffext
  BY <1>8 DEF RecvCounts, Received
<1>10. /\ OnlyAt(r, r_cnt, r_cnt') /\ OnlyAt(r, r_cnt_ext, r_cnt_ext')
       /\ OnlyAt(r, rbuff, rbuff') /\ OnlyAt(r, rbuffext, rbuffext') /\ r_cnt'[r] = Head(net[p][r]).body
  BY <1>4, <1>9 DEF OnlyAt, Places
<1>11. "counts" \in Labels /\ "extra counts" \in Labels /\ "data" \in Labels
  BY DEF Labels
<1>12. CASE ExtraIn(g, r)
  <2>1. Sendrecv(r, p, x, <<Lengths(L)>>, "extra counts")
    BY <1>8, <1>12 DEF RecvCounts
  <2>2. PICK ms : ms = <<Lengths(L)>>
    OBVIOUS
  <2>3. ms # <<>> /\ ms[1] = Lengths(L)
    BY <2>2
  <2>4. Passed(net, net', r, p, x, ms) /\ net[p][r] # <<>> /\ pc' = [pc EXCEPT ![r] = "extra counts"]
    BY <1>3, <1>4, <1>12, <2>1, <2>2, SendrecvPasses
  <2>5. Receives(r, p, x, ms, "counts", "extra counts")
    BY <1>1, <1>9, <1>10, <2>4 DEF Receives
  <2>6. Local(r) /\ Places' /\ pc'[r] = "extra counts" /\ Exchanged(r, p, x, ms)
    <3>1. g = range[r] /\ Peers(g, r, p) /\ Peers(g, r, x) /\ p \in Procs /\ x \in Procs
      BY <1>3, <1>12
    <3> QED BY <1>11, <2>5, <3>1, ReceivesLocally
  <2>7. OwnOK(C, r)'
    <3>1. Own(C, r, "extra counts", g, s_cnt[r], sbuff[r], r_cnt'[r], rbuff'[r], r_cnt_ext'[r], rbuffext'[r])
      BY <1>3, <1>4, <1>12, Zenon DEF Own
    <3> QED BY <1>3, <2>6, <3>1, OwnAfter
  <2>8. ASSUME NEW y \in Procs, Peers(g, r, y) PROVE Moves(C, r, g, "counts", "extra counts", y)
    <3>1. CASE y = p
      <4>1. /\ Sent("counts", g, r, y, g) = 1 /\ Sent("extra counts", g, r, y, g) = 1
            /\ Taken("counts", g, r, y, g) = 0 /\ Taken("extra counts", g, r, y, g) = 1
            /\ Told(r_cnt'[r], r_cnt_ext'[r], r, y, g) = r_cnt'[r]
        <5>1. y = PartnerIn(g, r)
          BY <1>3, <3>1
        <5>2. WithPartner(g, r, y)
          BY <5>1, PartnerStages
        <5> QED BY <5>2, Zenon DEF WithPartner
      <4>2. net'[y][r] = Tail(net[y][r]) /\ net'[r][y] = net[r][y]
        BY <1>3, <1>12, <2>6, <3>1 DEF Exchanged
      <4> QED BY <1>10, <2>4, <3>1, <4>1, <4>2, Zenon DEF Moves, OutStep, InStep
    <3>2. CASE y = x
      <4>1. /\ Sent("counts", g, r, y, g) = 0 /\ Sent("extra counts", g, r, y, g) = 1
            /\ Taken("counts", g, r, y, g) = 0 /\ Taken("extra counts", g, r, y, g) = 0
            /\ Told(r_cnt'[r], r_cnt_ext'[r], r, y, g) = r_cnt_ext'[r]
            /\ Told(r_cnt[r], r_cnt_ext[r], r, y, g) = r_cnt_ext[r]
        <5>1. y # PartnerIn(g, r)
          BY <1>3, <1>12, <3>2
        <5>2. WithExtra(g, r, y)
          BY <5>1, ExtraStages
        <5> QED BY <5>2, Zenon DEF WithExtra
      <4>2. net'[y][r] = net[y][r] /\ net'[r][y] = Append(net[r][y], Lengths(Owed(s_cnt[r], r, y, g)))
        BY <1>3, <1>7, <1>12, <2>3, <2>6, <3>2 DEF Exchanged
      <4> QED BY <1>9, <3>2, <4>1, <4>2, Zenon DEF Moves, OutStep, InStep
    <3> QED BY <1>3, <2>8, <3>1, <3>2
  <2> QED BY <1>1, <1>3, <2>6, <2>7, <2>8, MovesKeep
<1>13. CASE ~ ExtraIn(g, r)
  <2>1. Sendrecv(r, p, p, <<Data(b)>>, "data")
    BY <1>8, <1>13 DEF RecvCounts
  <2>2. PICK ms : ms = <<Data(b)>>
    OBVIOUS
  <2>3. ms # <<>> /\ ms[1] = Data(b)
    BY <2>2
  <2>4. Passed(net, net', r, p, p, ms) /\ net[p][r] # <<>> /\ pc' = [pc EXCEPT ![r] = "data"]
    BY <1>3, <1>4, <2>1, <2>2, SendrecvPasses
  <2>5. Receives(r, p, p, ms, "counts", "data")
    BY <1>1, <1>9, <1>10, <2>4 DEF Receives
  <2>6. Local(r) /\ Places' /\ pc'[r] = "data" /\ Exchanged(r, p, p, ms)
    <3>1. g = range[r] /\ Peers(g, r, p) /\ p \in Procs
      BY <1>3
    <3> QED BY <1>11, <2>5, <3>1, ReceivesLocally
  <2>7. OwnOK(C, r)'
    <3>1. Own(C, r, "data", g, s_cnt[r], sbuff[r], r_cnt'[r], rbuff'[r], r_cnt_ext'[r], rbuffext'[r])
      BY <1>3, <1>4, <1>9, <1>13, Zenon DEF Own
    <3> QED BY <1>3, <2>6, <3>1, OwnAfter
  <2>8. ASSUME NEW y \in Procs, Peers(g, r, y) PROVE Moves(C, r, g, "counts", "data", y)
    <3>1. y = p
      BY <1>3, <1>13, <2>8
    <3>2. /\ Sent("counts", g, r, y, g) = 1 /\ Sent("data", g, r, y, g) = 2
          /\ Taken("counts", g, r, y, g) = 0 /\ Taken("data", g, r, y, g) = 1
          /\ Told(r_cnt'[r], r_cnt_ext'[r], r, y, g) = r_cnt'[r]
      <4>1. y = PartnerIn(g, r)
        BY <1>3, <3>1
      <4>2. WithPartner(g, r, y)
        BY <4>1, PartnerStages
      <4> QED BY <4>2, Zenon DEF WithPartner
    <3>3. net'[y][r] = Tail(net[y][r]) /\ net'[r][y] = Append(net[r][y], Data(b))
      BY <1>3, <2>3, <2>6, <3>1 DEF Exchanged
    <3> QED BY <1>7, <1>10, <2>4, <3>1, <3>2, <3>3, Zenon DEF Moves, OutStep, InStep
  <2> QED BY <1>1, <1>3, <2>6, <2>7, <2>8, MovesKeep
<1> QED BY <1>12, <1>13

-----------------------------------------------------------------------------
\* What a process that has the lengths takes next is the data announced.
LEMMA DataTaken ==
  ASSUME NEW C, DenseInv(C), NEW r \in Procs, NEW g, g = range[r], NEW y \in Procs, Peers(g, r, y),
         NEW l, l = pc[r], Taken(l, g, r, y, g) = 1, net[y][r] # <<>>
  PROVE  /\ Head(net[y][r]).kind = "data"
         /\ Parcel(C, Told(r_cnt[r], r_cnt_ext[r], r, y, g), Head(net[y][r]).body, y, r, g)
<1>1. g \in Ranges /\ g \in Procs \X Procs
  BY OwnIs
<1>2. Peers(g, y, r)
  BY <1>1, PeersAre
<1>3. ChannelOK(C, y, r, g)
  BY <1>1, <1>2 DEF DenseInv
<1>4. PICK S, o : Channel(C, S, Taken(l, g, r, y, g), net[y][r], o,
                          Told(r_cnt[r], r_cnt_ext[r], r, y, g), y, r, g)
  BY <1>3, Zenon DEF ChannelOK
<1>5. Channel(C, S, 1, net[y][r], o, Told(r_cnt[r], r_cnt_ext[r], r, y, g), y, r, g)
  BY <1>4, Zenon
<1> QED BY <1>5, TakesData

LEMMA RecvExtraCountsKeeps ==
  ASSUME NEW C, DenseInv(C), NEW r \in Procs, RecvExtraCounts(r)
  PROVE  DenseInv(C)'
<1>1. pc[r] = "extra counts"
  BY DEF RecvExtraCounts
<1>2. PICK g, p, x : Peering(r, g, p, x)
  BY <1>1, PeeringIs
<1>3. /\ g = range[r] /\ g \in Ranges /\ In(r, g) /\ g[1] < g[2]
      /\ p = PartnerIn(g, r) /\ x = Split(g)
      /\ p \in Procs /\ p # r /\ Peers(g, r, p)
      /\ ExtraIn(g, r) => x \in Procs /\ x # r /\ x # p /\ Peers(g, r, x)
      /\ \A y \in Procs : Peers(g, r, y) => y # r /\ (y = p \/ (ExtraIn(g, r) /\ y = x))
  BY <1>2 DEF Peering
<1>4. /\ Own(C, r, "extra counts", g, s_cnt[r], sbuff[r], r_cnt[r], rbuff[r], r_cnt_ext[r], rbuffext[r])
      /\ Full(C, sbuff[r], s_cnt[r], g, Bringers(g, r))
      /\ Carries(sbuff[r], s_cnt[r], g, g, r) /\ Net(net) /\ Places /\ ExtraIn(g, r)
  BY <1>1, <1>3, OwnIs
<1>5. PICK o : o = OtherOf(g, r)
  OBVIOUS
<1>6. PICK b : b = Cut(sbuff[r], s_cnt[r], o[1] - g[1] + 1, o[2] - g[1] + 1)
  OBVIOUS
<1>7. Parcel(C, Owed(s_cnt[r], r, p, g), b, r, p, g)
  BY <1>3, <1>4, <1>5, <1>6, ParcelSent
<1>8. partner(r) = p /\ split_id(r) = x /\ sbuff_tmp(r) = b
  BY <1>3, <1>5, <1>6, InItsRange
<1>9. /\ r_cnt_ext' = [r_cnt_ext EXCEPT ![r] = Head(net[x][r]).body]
      /\ range' = range /\ s_cnt' = s_cnt /\ sbuff' = sbuff
      /\ r_cnt' = r_cnt /\ rbuff' = rbuff /\ rbuffext' = rbuffext
  BY <1>8 DEF RecvExtraCounts, Received
<1>10. /\ OnlyAt(r, r_cnt, r_cnt') /\ OnlyAt(r, r_cnt_ext, r_cnt_ext')
       /\ OnlyAt(r, rbuff, rbuff') /\ OnlyAt(r, rbuffext, rbuffext')
       /\ r_cnt_ext'[r] = Head(net[x][r]).body
  BY <1>4, <1>9 DEF OnlyAt, Places
<1>11. "data" \in Labels
  BY DEF Labels
<1>12. Sendrecv(r, x, p, <<Data(b)>>, "data")
  BY <1>8 DEF RecvExtraCounts
<1>13. PICK ms : ms = <<Data(b)>>
  OBVIOUS
<1>14. ms # <<>> /\ ms[1] = Data(b)
  BY <1>13
<1>15. Passed(net, net', r, x, p, ms) /\ net[x][r] # <<>> /\ pc' = [pc EXCEPT ![r] = "data"]
  BY <1>3, <1>4, <1>12, <1>13, SendrecvPasses
<1>16. Receives(r, x, p, ms, "extra counts", "data")
  BY <1>1, <1>9, <1>10, <1>15 DEF Receives
<1>17. Local(r) /\ Places' /\ pc'[r] = "data" /\ Exchanged(r, x, p, ms)
  <2>1. g = range[r] /\ Peers(g, r, p) /\ Peers(g, r, x) /\ p \in Procs /\ x \in Procs
    BY <1>3, <1>4
  <2> QED BY <1>11, <1>16, <2>1, ReceivesLocally
<1>18. OwnOK(C, r)'
  <2>1. Own(C, r, "data", g, s_cnt[r], sbuff[r], r_cnt'[r], rbuff'[r], r_cnt_ext'[r], rbuffext'[r])
    BY <1>3, <1>4, Zenon DEF Own
  <2> QED BY <1>3, <1>17, <2>1, OwnAfter
<1>19. ASSUME NEW y \in Procs, Peers(g, r, y) PROVE Moves(C, r, g, "extra counts", "data", y)
  <2>1. CASE y = p
    <3>1. WithPartner(g, r, y)
      BY <1>3, <2>1, PartnerStages
    <3>2. /\ Sent("extra counts", g, r, y, g) = 1 /\ Sent("data", g, r, y, g) = 2
          /\ Taken("extra counts", g, r, y, g) = 1 /\ Taken("data", g, r, y, g) = 1
          /\ Told(r_cnt[r], r_cnt_ext[r], r, y, g) = r_cnt[r]
          /\ Told(r_cnt'[r], r_cnt_ext'[r], r, y, g) = r_cnt'[r]
      BY <3>1, Zenon DEF WithPartner
    <3>3. net'[y][r] = net[y][r] /\ net'[r][y] = Append(net[r][y], Data(b))
      BY <1>3, <1>4, <1>14, <1>17, <2>1 DEF Exchanged
    <3> QED BY <1>7, <1>9, <2>1, <3>2, <3>3, Zenon DEF Moves, OutStep, InStep
  <2>2. CASE y = x
    <3>1. WithExtra(g, r, y)
      BY <1>3, <1>4, <2>2, ExtraStages
    <3>2. /\ Sent("extra counts", g, r, y, g) = 1 /\ Sent("data", g, r, y, g) = 1
          /\ Taken("extra counts", g, r, y, g) = 0 /\ Taken("data", g, r, y, g) = 1
          /\ Told(r_cnt'[r], r_cnt_ext'[r], r, y, g) = r_cnt_ext'[r]
      BY <3>1, Zenon DEF WithExtra
    <3>3. net'[y][r] = Tail(net[y][r]) /\ net'[r][y] = net[r][y]
      BY <1>3, <1>4, <1>17, <2>2 DEF Exchanged
    <3> QED BY <1>10, <1>15, <2>2, <3>2, <3>3, Zenon DEF Moves, OutStep, InStep
  <2> QED BY <1>3, <1>19, <2>1, <2>2
<1> QED BY <1>1, <1>3, <1>17, <1>18, <1>19, MovesKeep

LEMMA RecvDataKeeps ==
  ASSUME NEW C, DenseInv(C), NEW r \in Procs, RecvData(r)
  PROVE  DenseInv(C)'
<1>1. pc[r] = "data"
  BY DEF RecvData
<1>2. PICK g, p, x : Peering(r, g, p, x)
  BY <1>1, PeeringIs
<1>3. /\ g = range[r] /\ g \in Ranges /\ In(r, g) /\ g[1] < g[2]
      /\ p = PartnerIn(g, r) /\ x = Split(g)
      /\ p \in Procs /\ p # r /\ Peers(g, r, p)
      /\ ExtraIn(g, r) => x \in Procs /\ x # r /\ x # p /\ Peers(g, r, x)
      /\ \A y \in Procs : Peers(g, r, y) => y # r /\ (y = p \/ (ExtraIn(g, r) /\ y = x))
  BY <1>2 DEF Peering
<1>4. /\ Own(C, r, "data", g, s_cnt[r], sbuff[r], r_cnt[r], rbuff[r], r_cnt_ext[r], rbuffext[r])
      /\ Full(C, sbuff[r], s_cnt[r], g, Bringers(g, r))
      /\ Carries(sbuff[r], s_cnt[r], g, g, r) /\ Net(net) /\ Places
  BY <1>1, <1>3, OwnIs
<1>5. ExtraIn(g, r) => Parcel(C, Owed(s_cnt[r], r, x, g), <<>>, r, x, g)
  BY <1>3, <1>4, ParcelSent
<1>6. extra_partner(r) = ExtraIn(g, r) /\ partner(r) = p /\ split_id(r) = x
  BY <1>3, InItsRange
<1>7. /\ rbuff' = [rbuff EXCEPT ![r] = Head(net[p][r]).body]
      /\ range' = range /\ s_cnt' = s_cnt /\ sbuff' = sbuff
      /\ r_cnt' = r_cnt /\ r_cnt_ext' = r_cnt_ext /\ rbuffext' = rbuffext
  BY <1>6 DEF RecvData, Received
<1>8. /\ OnlyAt(r, r_cnt, r_cnt') /\ OnlyAt(r, r_cnt_ext, r_cnt_ext')
      /\ OnlyAt(r, rbuff, rbuff') /\ OnlyAt(r, rbuffext, rbuffext')
      /\ rbuff'[r] = Head(net[p][r]).body
  BY <1>4, <1>7 DEF OnlyAt, Places
<1>9. "data" \in Labels /\ "extra data" \in Labels /\ "rearrange" \in Labels
  BY DEF Labels
<1>10. net[p][r] # <<>>
  BY <1>6 DEF RecvData, Sendrecv
<1>11. Parcel(C, r_cnt'[r], rbuff'[r], p, r, g)
  <2>1. WithPartner(g, r, p)
    BY <1>3, PartnerStages
  <2>2. Taken("data", g, r, p, g) = 1 /\ Told(r_cnt[r], r_cnt_ext[r], r, p, g) = r_cnt[r]
    BY <2>1, Zenon DEF WithPartner
  <2>3. Parcel(C, Told(r_cnt[r], r_cnt_ext[r], r, p, g), Head(net[p][r]).body, p, r, g)
    BY <1>1, <1>3, <1>10, <2>2, DataTaken
  <2> QED BY <1>7, <1>8, <2>2, <2>3, Zenon
<1>12. CASE ExtraIn(g, r)
  <2>1. Sendrecv(r, p, x, <<Data(<<>>)>>, "extra data")
    BY <1>6, <1>12 DEF RecvData
  <2>2. PICK ms : ms = <<Data(<<>>)>>
    OBVIOUS
  <2>3. ms # <<>> /\ ms[1] = Data(<<>>)
    BY <2>2
  <2>4. Passed(net, net', r, p, x, ms) /\ pc' = [pc EXCEPT ![r] = "extra data"]
    BY <1>3, <1>4, <1>12, <2>1, <2>2, SendrecvPasses
  <2>5. Receives(r, p, x, ms, "data", "extra data")
    BY <1>1, <1>7, <1>8, <1>10, <2>4 DEF Receives
  <2>6. Local(r) /\ Places' /\ pc'[r] = "extra data" /\ Exchanged(r, p, x, ms)
    <3>1. g = range[r] /\ Peers(g, r, p) /\ Peers(g, r, x) /\ p \in Procs /\ x \in Procs
      BY <1>3, <1>12
    <3> QED BY <1>9, <2>5, <3>1, ReceivesLocally
  <2>7. OwnOK(C, r)'
    <3>1. Own(C, r, "extra data", g, s_cnt[r], sbuff[r], r_cnt'[r], rbuff'[r], r_cnt_ext'[r], rbuffext'[r])
      BY <1>3, <1>4, <1>11, <1>12, Zenon DEF Own
    <3> QED BY <1>3, <2>6, <3>1, OwnAfter
  <2>8. ASSUME NEW y \in Procs, Peers(g, r, y) PROVE Moves(C, r, g, "data", "extra data", y)
    <3>1. CASE y = p
      <4>1. WithPartner(g, r, y)
        BY <1>3, <3>1, PartnerStages
      <4>2. /\ Sent("data", g, r, y, g) = 2 /\ Sent("extra data", g, r, y, g) = 2
            /\ Taken("data", g, r, y, g) = 1 /\ Taken("extra data", g, r, y, g) = 2
        BY <4>1, Zenon DEF WithPartner
      <4>3. net'[y][r] = Tail(net[y][r]) /\ net'[r][y] = net[r][y]
        BY <1>3, <1>12, <2>6, <3>1 DEF Exchanged
      <4> QED BY <1>10, <3>1, <4>2, <4>3, Zenon DEF Moves, OutStep, InStep
    <3>2. CASE y = x
      <4>1. WithExtra(g, r, y)
        BY <1>3, <1>12, <3>2, ExtraStages
      <4>2. /\ Sent("data", g, r, y, g) = 1 /\ Sent("extra data", g, r, y, g) = 2
            /\ Taken("data", g, r, y, g) = 1 /\ Taken("extra data", g, r, y, g) = 1
        BY <4>1, Zenon DEF WithExtra
      <4>3. net'[y][r] = net[y][r] /\ net'[r][y] = Append(net[r][y], Data(<<>>))
        BY <1>3, <1>12, <2>3, <2>6, <3>2 DEF Exchanged
      <4>4. Told(r_cnt'[r], r_cnt_ext'[r], r, y, g) = Told(r_cnt[r], r_cnt_ext[r], r, y, g)
        BY <1>7, Zenon
      <4> QED BY <1>5, <1>12, <3>2, <4>2, <4>3, <4>4, Zenon DEF Moves, OutStep, InStep
    <3> QED BY <1>3, <2>8, <3>1, <3>2
  <2> QED BY <1>1, <1>3, <2>6, <2>7, <2>8, MovesKeep
<1>13. CASE ~ ExtraIn(g, r)
  <2>1. Sendrecv(r, p, p, <<>>, "rearrange")
    BY <1>6, <1>13 DEF RecvData
  <2>2. Passed(net, net', r, p, p, <<>>) /\ pc' = [pc EXCEPT ![r] = "rearrange"]
    BY <1>3, <1>4, <2>1, SendrecvPasses
  <2>3. Receives(r, p, p, <<>>, "data", "rearrange")
    BY <1>1, <1>7, <1>8, <1>10, <2>2 DEF Receives
  <2>4. Local(r) /\ Places' /\ pc'[r] = "rearrange" /\ Exchanged(r, p, p, <<>>)
    <3>1. g = range[r] /\ Peers(g, r, p) /\ p \in Procs
      BY <1>3
    <3> QED BY <1>9, <2>3, <3>1, ReceivesLocally
  <2>5. OwnOK(C, r)'
    <3>1. rbuffext'[r] = <<>> /\ r_cnt_ext'[r] = Zeros(SizeOf(HalfOf(g, r)))
      BY <1>4, <1>7, <1>13 DEF Own
    <3>2. Own(C, r, "rearrange", g, s_cnt[r], sbuff[r], r_cnt'[r], rbuff'[r], r_cnt_ext'[r], rbuffext'[r])
      BY <1>3, <1>4, <1>11, <1>13, <3>1, Zenon DEF Own
    <3> QED BY <1>3, <2>4, <3>2, OwnAfter
  <2>6. ASSUME NEW y \in Procs, Peers(g, r, y) PROVE Moves(C, r, g, "data", "rearrange", y)
    <3>1. y = p
      BY <1>3, <1>13, <2>6
    <3>2. WithPartner(g, r, y)
      BY <1>3, <3>1, PartnerStages
    <3>3. /\ Sent("data", g, r, y, g) = 2 /\ Sent("rearrange", g, r, y, g) = 2
          /\ Taken("data", g, r, y, g) = 1 /\ Taken("rearrange", g, r, y, g) = 2
      BY <3>2, Zenon DEF WithPartner
    <3>4. net'[y][r] = Tail(net[y][r]) /\ net'[r][y] = net[r][y]
      BY <1>3, <2>4, <3>1 DEF Exchanged
    <3> QED BY <1>10, <3>1, <3>3, <3>4, Zenon DEF Moves, OutStep, InStep
  <2> QED BY <1>1, <1>3, <2>4, <2>5, <2>6, MovesKeep
<1> QED BY <1>12, <1>13

LEMMA RecvExtraDataKeeps ==
  ASSUME NEW C, DenseInv(C), NEW r \in Procs, RecvExtraData(r)
  PROVE  DenseInv(C)'
<1>1. pc[r] = "extra data"
  BY DEF RecvExtraData
<1>2. PICK g, p, x : Peering(r, g, p, x)
  BY <1>1, PeeringIs
<1>3. /\ g = range[r] /\ g \in Ranges /\ In(r, g) /\ g[1] < g[2]
      /\ p = PartnerIn(g, r) /\ x = Split(g)
      /\ p \in Procs /\ p # r /\ Peers(g, r, p)
      /\ ExtraIn(g, r) => x \in Procs /\ x # r /\ x # p /\ Peers(g, r, x)
      /\ \A y \in Procs : Peers(g, r, y) => y # r /\ (y = p \/ (ExtraIn(g, r) /\ y = x))
  BY <1>2 DEF Peering
<1>4. /\ Own(C, r, "extra data", g, s_cnt[r], sbuff[r], r_cnt[r], rbuff[r], r_cnt_ext[r], rbuffext[r])
      /\ Full(C, sbuff[r], s_cnt[r], g, Bringers(g, r))
      /\ Carries(sbuff[r], s_cnt[r], g, g, r) /\ Net(net) /\ Places /\ ExtraIn(g, r)
  BY <1>1, <1>3, OwnIs
<1>5. split_id(r) = x
  BY <1>3, InItsRange
<1>6. /\ rbuffext' = [rbuffext EXCEPT ![r] = Head(net[x][r]).body]
      /\ range' = range /\ s_cnt' = s_cnt /\ sbuff' = sbuff
      /\ r_cnt' = r_cnt /\ r_cnt_ext' = r_cnt_ext /\ rbuff' = rbuff
  BY <1>5 DEF RecvExtraData, Received
<1>7. /\ OnlyAt(r, r_cnt, r_cnt') /\ OnlyAt(r, r_cnt_ext, r_cnt_ext')
      /\ OnlyAt(r, rbuff, rbuff') /\ OnlyAt(r, rbuffext, rbuffext')
      /\ rbuffext'[r] = Head(net[x][r]).body
  BY <1>4, <1>6 DEF OnlyAt, Places
<1>8. "rearrange" \in Labels
  BY DEF Labels
<1>9. Sendrecv(r, x, x, <<>>, "rearrange")
  BY <1>5 DEF RecvExtraData
<1>10. Passed(net, net', r, x, x, <<>>) /\ net[x][r] # <<>> /\ pc' = [pc EXCEPT ![r] = "rearrange"]
  BY <1>3, <1>4, <1>9, SendrecvPasses
<1>11. Receives(r, x, x, <<>>, "extra data", "rearrange")
  BY <1>1, <1>6, <1>7, <1>10 DEF Receives
<1>12. Local(r) /\ Places' /\ pc'[r] = "rearrange" /\ Exchanged(r, x, x, <<>>)
  <2>1. g = range[r] /\ Peers(g, r, x) /\ x \in Procs
    BY <1>3, <1>4
  <2> QED BY <1>8, <1>11, <2>1, ReceivesLocally
<1>13. Parcel(C, r_cnt_ext'[r], rbuffext'[r], x, r, g)
  <2>1. WithExtra(g, r, x)
    BY <1>3, <1>4, ExtraStages
  <2>2. Taken("extra data", g, r, x, g) = 1 /\ Told(r_cnt[r], r_cnt_ext[r], r, x, g) = r_cnt_ext[r]
    BY <2>1, Zenon DEF WithExtra
  <2>3. Parcel(C, Told(r_cnt[r], r_cnt_ext[r], r, x, g), Head(net[x][r]).body, x, r, g)
    BY <1>1, <1>3, <1>4, <1>10, <2>2, DataTaken
  <2> QED BY <1>6, <1>7, <2>2, <2>3, Zenon
<1>14. OwnOK(C, r)'
  <2>1. Parcel(C, r_cnt'[r], rbuff'[r], p, r, g)
    BY <1>3, <1>4, <1>6, Zenon DEF Own
  <2>2. Own(C, r, "rearrange", g, s_cnt[r], sbuff[r], r_cnt'[r], rbuff'[r], r_cnt_ext'[r], rbuffext'[r])
    BY <1>3, <1>4, <1>13, <2>1, Zenon DEF Own
  <2> QED BY <1>3, <1>12, <2>2, OwnAfter
<1>15. ASSUME NEW y \in Procs, Peers(g, r, y) PROVE Moves(C, r, g, "extra data", "rearrange", y)
  <2>1. CASE y = p
    <3>1. WithPartner(g, r, y)
      BY <1>3, <2>1, PartnerStages
    <3>2. /\ Sent("extra data", g, r, y, g) = 2 /\ Sent("rearrange", g, r, y, g) = 2
          /\ Taken("extra data", g, r, y, g) = 2 /\ Taken("rearrange", g, r, y, g) = 2
      BY <3>1, Zenon DEF WithPartner
    <3>3. net'[y][r] = net[y][r] /\ net'[r][y] = net[r][y]
      BY <1>3, <1>4, <1>12, <2>1 DEF Exchanged
    <3>4. Told(r_cnt'[r], r_cnt_ext'[r], r, y, g) = Told(r_cnt[r], r_cnt_ext[r], r, y, g)
      BY <1>6, Zenon
    <3> QED BY <3>2, <3>3, <3>4, Zenon DEF Moves, OutStep, InStep
  <2>2. CASE y = x
    <3>1. WithExtra(g, r, y)
      BY <1>3, <1>4, <2>2, ExtraStages
    <3>2. /\ Sent("extra data", g, r, y, g) = 2 /\ Sent("rearrange", g, r, y, g) = 2
          /\ Taken("extra data", g, r, y, g) = 1 /\ Taken("rearrange", g, r, y, g) = 2
      BY <3>1, Zenon DEF WithExtra
    <3>3. net'[y][r] = Tail(net[y][r]) /\ net'[r][y] = net[r][y]
      BY <1>3, <1>4, <1>12, <2>2 DEF Exchanged
    <3> QED BY <1>10, <2>2, <3>2, <3>3, Zenon DEF Moves, OutStep, InStep
  <2> QED BY <1>3, <1>15, <2>1, <2>2
<1> QED BY <1>1, <1>3, <1>12, <1>14, <1>15, MovesKeep

-----------------------------------------------------------------------------
\* A process that goes on to its half has sent and taken what it had before.
LEMMA StagesOn ==
  ASSUME NEW g \in Ranges, g[1] < g[2], NEW r \in Procs, In(r, g), NEW h, h = HalfOf(g, r),
         NEW x \in Ranges, NEW y \in Procs, Peers(x, r, y)
  PROVE  /\ Sent("round", h, r, y, x) = Sent("rearrange", g, r, y, x)
         /\ Taken("round", h, r, y, x) = Taken("rearrange", g, r, y, x)
         /\ Sent("rearrange", g, r, y, x) # 1
<1>1. In(r, x)
  BY RangeIs, PeersAre
<1>2. /\ h # g /\ Under(h, g) /\ ~ Under(g, h)
      /\ x # g /\ x # h => (Under(x, g) <=> Under(x, h))
  BY <1>1, StillToCome
<1>3. 0 # 1 /\ 2 # 1
  OBVIOUS
<1>4. CASE x = g
  <2>1. WithPartner(x, r, y) \/ WithExtra(x, r, y)
    BY PartnerStages, ExtraStages
  <2>2. Sent("rearrange", x, r, y, x) = 2 /\ Taken("rearrange", x, r, y, x) = 2
    BY <2>1, Zenon DEF WithPartner, WithExtra
  <2>3. Sent("round", h, r, y, x) = 2 /\ Taken("round", h, r, y, x) = 2
    BY <1>2, <1>4, Zenon DEF Sent, Taken
  <2> QED BY <1>3, <1>4, <2>2, <2>3, Zenon
<1>5. CASE x = h
  <2>1. WithPartner(x, r, y) \/ WithExtra(x, r, y)
    BY PartnerStages, ExtraStages
  <2>2. Sent("round", x, r, y, x) = 0 /\ Taken("round", x, r, y, x) = 0
    BY <2>1, Zenon DEF WithPartner, WithExtra
  <2>3. Sent("rearrange", g, r, y, x) = 0 /\ Taken("rearrange", g, r, y, x) = 0
    BY <1>2, <1>5, Zenon DEF Sent, Taken
  <2> QED BY <1>3, <1>5, <2>2, <2>3, Zenon
<1>6. CASE x # g /\ x # h
  <2>1. /\ Sent("round", h, r, y, x) = IF Under(x, h) THEN 0 ELSE 2
        /\ Taken("round", h, r, y, x) = IF Under(x, h) THEN 0 ELSE 2
        /\ Sent("rearrange", g, r, y, x) = IF Under(x, g) THEN 0 ELSE 2
        /\ Taken("rearrange", g, r, y, x) = IF Under(x, g) THEN 0 ELSE 2
    BY <1>6, Zenon DEF Sent, Taken
  <2> QED BY <1>2, <1>3, <1>6, <2>1, Zenon
<1> QED BY <1>4, <1>5, <1>6

LEMMA RearrangeKeeps ==
  ASSUME NEW C, DenseInv(C), NEW r \in Procs, Rearrange(r)
  PROVE  DenseInv(C)'
<1>1. pc[r] = "rearrange"
  BY DEF Rearrange
<1>2. PICK g : g = range[r]
  OBVIOUS
<1>3. /\ Own(C, r, "rearrange", g, s_cnt[r], sbuff[r], r_cnt[r], rbuff[r], r_cnt_ext[r], rbuffext[r])
      /\ g \in Ranges /\ In(r, g) /\ g \in Procs \X Procs /\ g[1] < g[2] /\ Net(net) /\ Places
  BY <1>1, <1>2, OwnIs
<1>4. PICK h : h = HalfOf(g, r)
  OBVIOUS
<1>5. PICK w, n : w = h[1] - g[1] + 1 /\ n = SizeOf(h)
  OBVIOUS
<1>6. PICK counts, segs :
        /\ counts = JoinedCounts(n, w, s_cnt[r], r_cnt[r], r_cnt_ext[r])
        /\ segs = JoinedSegments(n, w, s_cnt[r], sbuff[r], r_cnt[r], rbuff[r], r_cnt_ext[r], rbuffext[r])
  OBVIOUS
<1>7. /\ h \in Ranges /\ In(r, h) /\ h \in Procs \X Procs /\ h[1] <= h[2]
      /\ h = Lo(g) \/ h = Up(g)
  <2>1. h = Lo(g) \/ h = Up(g)
    BY <1>4 DEF HalfOf
  <2>2. h \in Ranges /\ In(r, h)
    BY <1>3, <1>4, <2>1, HalfRange, PartnerIs
  <2> QED BY <2>1, <2>2, RangeIs
<1>8. /\ s_cnt' = [s_cnt EXCEPT ![r] = counts] /\ sbuff' = [sbuff EXCEPT ![r] = FlattenSeq(segs)]
      /\ range' = [range EXCEPT ![r] = h] /\ pc' = [pc EXCEPT ![r] = "round"]
      /\ r_cnt' = r_cnt /\ r_cnt_ext' = r_cnt_ext /\ rbuff' = rbuff /\ rbuffext' = rbuffext /\ net' = net
  <2>1. new_range(r) = h /\ new_np(r) = n
    BY <1>2, <1>4, <1>5, InItsRange
  <2>2. Within(r, new_range(r))[1] = w
    BY <1>2, <1>5, <2>1 DEF Within
  <2>3. /\ counts = [i \in 1..n |-> s_cnt[r][w + i - 1] + r_cnt[r][i] + r_cnt_ext[r][i]]
        /\ segs = [i \in 1..n |-> Segment(sbuff[r], s_cnt[r], w + i - 1) \o Segment(rbuff[r], r_cnt[r], i)
                                  \o Segment(rbuffext[r], r_cnt_ext[r], i)]
    BY <1>6, Zenon DEF JoinedCounts, JoinedSegments
  <2> QED BY <2>1, <2>2, <2>3, Zenon DEF Rearrange
<1>9. /\ Places' /\ pc'[r] = "round" /\ range'[r] = h /\ s_cnt'[r] = counts /\ sbuff'[r] = FlattenSeq(segs)
      /\ \A q \in Procs : q # r => /\ pc'[q] = pc[q] /\ range'[q] = range[q]
                                   /\ s_cnt'[q] = s_cnt[q] /\ sbuff'[q] = sbuff[q]
  <2>1. "round" \in Labels
    BY DEF Labels
  <2> QED BY <1>3, <1>8, <2>1 DEF Places
<1>10. Collected(C, g, r, s_cnt[r], sbuff[r], r_cnt[r], rbuff[r], r_cnt_ext[r], rbuffext[r])
  <2>1. /\ Carries(sbuff[r], s_cnt[r], g, g, r) /\ Full(C, sbuff[r], s_cnt[r], g, Bringers(g, r))
        /\ Parcel(C, r_cnt[r], rbuff[r], PartnerIn(g, r), r, g)
        /\ ExtraIn(g, r) => Parcel(C, r_cnt_ext[r], rbuffext[r], Split(g), r, g)
        /\ ~ ExtraIn(g, r) => r_cnt_ext[r] = Zeros(SizeOf(h)) /\ rbuffext[r] = <<>>
    BY <1>3, <1>4, Zenon DEF Own
  <2>2. CASE ExtraIn(g, r)
    <3>1. /\ Carries(rbuffext[r], r_cnt_ext[r], HalfOf(g, r), g, Split(g))
          /\ Full(C, rbuffext[r], r_cnt_ext[r], HalfOf(g, r), Bringers(g, Split(g)))
      <4>1. r = PartnerIn(g, Split(g))
        BY <1>3, <2>2, ExtraIs
      <4> QED BY <2>1, <2>2, <4>1, Zenon DEF Parcel, Brought
    <3> QED BY <2>1, <2>2, <3>1, Zenon DEF Collected
  <2>3. CASE ~ ExtraIn(g, r)
    <3>1. Carries(<<>>, Zeros(SizeOf(h)), h, g, Split(g)) /\ Full(C, <<>>, Zeros(SizeOf(h)), h, {})
      BY <1>7, CarriesNone, FullNone
    <3> QED BY <1>4, <2>1, <2>3, <3>1, Zenon DEF Collected
  <2> QED BY <2>2, <2>3
<1>11. Carries(FlattenSeq(segs), counts, h, h, r) /\ Full(C, FlattenSeq(segs), counts, h, Bringers(h, r))
  BY <1>3, <1>4, <1>5, <1>6, <1>10, CarriesJoined
<1>12. ASSUME NEW q \in Procs PROVE OwnOK(C, q)'
  <2>1. CASE q = r
    <3>1. Own(C, r, "round", h, counts, FlattenSeq(segs), r_cnt[r], rbuff[r], r_cnt_ext[r], rbuffext[r])
      BY <1>7, <1>11, Zenon DEF Own
    <3>2. Own(C, q, pc'[q], range'[q], s_cnt'[q], sbuff'[q], r_cnt'[q], rbuff'[q], r_cnt_ext'[q], rbuffext'[q])
      BY <1>8, <1>9, <2>1, <3>1, Zenon
    <3> QED BY <3>2, Zenon DEF OwnOK
  <2>2. CASE q # r
    <3>1. Own(C, q, pc[q], range[q], s_cnt[q], sbuff[q], r_cnt[q], rbuff[q], r_cnt_ext[q], rbuffext[q])
      BY Zenon DEF DenseInv, OwnOK
    <3>2. Own(C, q, pc'[q], range'[q], s_cnt'[q], sbuff'[q], r_cnt'[q], rbuff'[q], r_cnt_ext'[q], rbuffext'[q])
      BY <1>8, <1>9, <2>2, <3>1, Zenon
    <3> QED BY <3>2, Zenon DEF OwnOK
  <2> QED BY <2>1, <2>2
<1>13. ASSUME NEW x \in Ranges, NEW s \in Procs, NEW d \in Procs, Peers(x, s, d)
       PROVE  ChannelOK(C, s, d, x)'
  <2>1. PICK S, T, owed, told :
          /\ S = Sent(pc[s], range[s], s, d, x) /\ T = Taken(pc[d], range[d], d, s, x)
          /\ owed = Owed(s_cnt[s], s, d, x) /\ told = Told(r_cnt[d], r_cnt_ext[d], d, s, x)
    OBVIOUS
  <2>2. Channel(C, S, T, net[s][d], owed, told, s, d, x)
    <3>1. ChannelOK(C, s, d, x)
      BY <1>13 DEF DenseInv
    <3> QED BY <2>1, <3>1, Zenon DEF ChannelOK
  <2>3. Peers(x, d, s)
    BY <1>13, RangeIs, PeersAre
  <2>4. Sent(pc'[s], range'[s], s, d, x) = S /\ (s_cnt'[s] = s_cnt[s] \/ S # 1)
    <3>1. CASE s = r
      <4>1. Sent("round", h, r, d, x) = Sent("rearrange", g, r, d, x) /\ Sent("rearrange", g, r, d, x) # 1
        BY <1>3, <1>4, <1>13, <3>1, StagesOn
      <4> QED BY <1>1, <1>2, <1>9, <2>1, <3>1, <4>1, Zenon
    <3>2. CASE s # r
      BY <1>9, <2>1, <3>2, Zenon
    <3> QED BY <3>1, <3>2
  <2>5. Taken(pc'[d], range'[d], d, s, x) = T
    <3>1. CASE d = r
      <4>1. Taken("round", h, r, s, x) = Taken("rearrange", g, r, s, x)
        BY <1>3, <1>4, <2>3, <3>1, StagesOn
      <4> QED BY <1>1, <1>2, <1>9, <2>1, <3>1, <4>1, Zenon
    <3>2. CASE d # r
      BY <1>9, <2>1, <3>2, Zenon
    <3> QED BY <3>1, <3>2
  <2>6. PICK o : o = Owed(s_cnt'[s], s, d, x)
    OBVIOUS
  <2>7. Channel(C, S, T, net[s][d], o, told, s, d, x)
    <3>1. CASE S # 1
      BY <2>2, <3>1, OwedEarlier
    <3>2. CASE S = 1
      <4>1. o = owed
        BY <2>1, <2>4, <2>6, <3>2, Zenon
      <4> QED BY <2>2, <4>1, Zenon
    <3> QED BY <3>1, <3>2
  <2>8. Channel(C, Sent(pc'[s], range'[s], s, d, x), Taken(pc'[d], range'[d], d, s, x), net'[s][d],
                Owed(s_cnt'[s], s, d, x), Told(r_cnt'[d], r_cnt_ext'[d], d, s, x), s, d, x)
    BY <1>8, <2>1, <2>4, <2>5, <2>6, <2>7, Zenon
  <2> QED BY <2>8, Zenon DEF ChannelOK
<1> QED BY <1>9, <1>12, <1>13 DEF DenseInv

-----------------------------------------------------------------------------
\* The exchange begins.
LEMMA RootAbove ==
  ASSUME NEW x \in Ranges
  PROVE  x = <<0, P-1>> \/ Under(x, <<0, P-1>>)
<1> DEFINE g == <<0, P-1>>
<1>1. g \in Ranges
  BY RootRange
<1>2. /\ x \in Procs \X Procs /\ x[1] \in Procs /\ x[2] \in Procs /\ x[1] <= x[2]
  BY RangeIs
<1>3. /\ g[1] = 0 /\ g[2] = P - 1 /\ P \in Nat \ {0}
      /\ x[1] \in Nat /\ x[2] \in Nat /\ x[1] <= P - 1 /\ x[2] <= P - 1
  BY <1>2, ProcsNat
<1> HIDE DEF g
<1>4. ~ Apart(x, g)
  BY <1>2, <1>3 DEF Apart
<1>5. ~ Under(g, x)
  <2> SUFFICES ASSUME Under(g, x) PROVE FALSE
    OBVIOUS
  <2>1. x[1] < x[2] /\ (Inside(g, Lo(x)) \/ Inside(g, Up(x)))
    BY DEF Under
  <2>2. /\ Split(x) \in Nat /\ Split(x) < x[2] /\ Lo(x)[2] = Split(x) /\ Up(x)[1] = Split(x) + 1
    BY <1>2, <2>1, Halves
  <2> QED BY <1>3, <2>1, <2>2 DEF Inside
<1>6. x = g \/ Apart(x, g) \/ Under(x, g) \/ Under(g, x)
  BY <1>1, RangesNest
<1> QED BY <1>4, <1>5, <1>6 DEF g

LEMMA Third ==
  ASSUME NEW t, NEW a, NEW b, NEW k, t = <<a, b, k>>
  PROVE  t[3] = k
  OBVIOUS

\* the blocks of a process for a row of counts
Row(s, c) == [i \in 1..P |-> [k \in 1..c[i-1] + 1 |-> <<s, i-1, k-1>>]]

\* At first a process has its own blocks, one for every process.
LEMMA RowCarries ==
  ASSUME NEW C, NEW s \in Procs, NEW c \in [Procs -> Nat], c = C[s], NEW counts, counts = [i \in 1..P |-> c[i-1] + 1],
         NEW g, g = <<0, P-1>>
  PROVE  Carries(FlattenSeq(Row(s, c)), counts, g, g, s)
         /\ Full(C, FlattenSeq(Row(s, c)), counts, g, Bringers(g, s))
<1> DEFINE segs == Row(s, c)
<1>1. P \in Nat \ {0} /\ Procs = 0..P-1 /\ g[1] = 0 /\ SizeOf(g) = P
  BY ProcsNat DEF SizeOf
<1>2. ASSUME NEW i \in 1..P PROVE i - 1 \in Procs /\ c[i-1] \in Nat /\ c[i-1] + 1 \in Nat
  <2>1. i - 1 \in Procs
    BY <1>1
  <2> QED BY <2>1
<1>3. counts \in Seq(Nat) /\ Len(counts) = P /\ \A i \in 1..P : counts[i] = c[i-1] + 1
  BY <1>1, <1>2
<1>4. ASSUME NEW i \in 1..P
      PROVE  /\ segs[i] \in Seq(Words) /\ Len(segs[i]) = c[i-1] + 1
             /\ \A k \in 1..c[i-1] + 1 : segs[i][k] = <<s, i-1, k-1>>
  <2> DEFINE m == c[i-1] + 1
  <2>1. m \in Nat /\ i - 1 \in Procs
    BY <1>2
  <2> HIDE DEF m
  <2>2. segs[i] = [k \in 1..m |-> <<s, i-1, k-1>>]
    BY DEF Row, m
  <2>3. ASSUME NEW k \in 1..m PROVE <<s, i-1, k-1>> \in Words
    BY <2>1, <2>3 DEF Words
  <2>4. segs[i] \in Seq(Words) /\ Len(segs[i]) = m
    BY <2>1, <2>2, <2>3
  <2> QED BY <2>2, <2>4 DEF m
<1>5. segs \in Seq(Seq(Words)) /\ Len(segs) = P
  <2>1. segs = [i \in 1..P |-> segs[i]]
    BY DEF Row
  <2> HIDE DEF segs
  <2>2. \A i \in 1..P : segs[i] \in Seq(Words)
    BY <1>4
  <2> QED BY <1>1, <2>1, <2>2, SequenceOf
<1> HIDE DEF segs
<1>6. \A i \in 1..Len(counts) : Len(segs[i]) = counts[i]
  BY <1>3, <1>4
<1>7. /\ FlattenSeq(segs) \in Seq(Words) /\ Len(FlattenSeq(segs)) = Total(counts)
      /\ \A i \in 1..Len(counts) : Segment(FlattenSeq(segs), counts, i) = segs[i]
  BY <1>3, <1>5, <1>6, JoinIs
<1>8. Buffer(Words, FlattenSeq(segs), counts)
  BY <1>3, <1>7 DEF Buffer
<1>9. ASSUME NEW i \in 1..Len(counts)
      PROVE  /\ Brings(Segment(FlattenSeq(segs), counts, i), g[1] + i - 1, g, s)
             /\ Distinct(Segment(FlattenSeq(segs), counts, i))
  <2>1. i \in 1..P /\ Segment(FlattenSeq(segs), counts, i) = segs[i]
    BY <1>3, <1>7
  <2> DEFINE m == c[i-1] + 1  t == segs[i]
  <2>2. m \in Nat /\ i - 1 \in Procs /\ Len(t) = m /\ \A k \in 1..m : t[k] = <<s, i-1, k-1>>
    BY <1>2, <1>4, <2>1
  <2> HIDE DEF m, t
  <2>3. g[1] + i - 1 = i - 1
    BY <1>1, <2>1
  <2>4. \A k \in 1..Len(t) : t[k][1] = s /\ t[k][2] = i - 1
    BY <2>2
  <2>5. Carried(g, s, s)
    BY CarriedRoot
  <2>6. Brings(t, i - 1, g, s)
    BY <2>4, <2>5 DEF Brings
  <2>7. Distinct(t)
    <3> SUFFICES ASSUME NEW x \in 1..Len(t), NEW y \in 1..Len(t), t[x] = t[y] PROVE x = y
      BY DEF Distinct
    <3>1. t[x] = <<s, i-1, x-1>> /\ t[y] = <<s, i-1, y-1>>
      BY <2>2
    <3>2. PICK a, b : a = t[x] /\ b = t[y]
      OBVIOUS
    <3>3. a[3] = x - 1 /\ b[3] = y - 1
      BY <2>2, <3>1, <3>2, Third
    <3>4. x - 1 = y - 1
      BY <3>2, <3>3
    <3> QED BY <2>2, <3>4
  <2> QED BY <2>1, <2>3, <2>6, <2>7, Zenon DEF t
<1>10. ASSUME NEW i \in 1..Len(counts)
       PROVE  Holds(C, Segment(FlattenSeq(segs), counts, i), Bringers(g, s), g[1] + i - 1)
  <2>1. i \in 1..P /\ Segment(FlattenSeq(segs), counts, i) = segs[i]
    BY <1>3, <1>7
  <2>2. segs[i] = [k \in 1..c[i-1] + 1 |-> <<s, i-1, k-1>>]
    BY <2>1, Zenon DEF segs, Row
  <2>3. c[i-1] \in Nat /\ c[i-1] = C[s][i-1] /\ g[1] + i - 1 = i - 1
    BY <1>1, <1>2, <2>1
  <2>4. PICK t, d, m : t = segs[i] /\ d = i - 1 /\ m = c[i-1]
    OBVIOUS
  <2>5. Holds(C, t, {s}, d)
    <3>1. m \in Nat /\ m = C[s][d]
      BY <2>3, <2>4
    <3>2. t = [k \in 1..m + 1 |-> <<s, d, k-1>>]
      BY <2>2, <2>4
    <3> QED BY <3>1, <3>2, HoldsOne
  <2>6. Bringers(g, s) = {s}
    BY BringersFirst
  <2> QED BY <2>1, <2>3, <2>4, <2>5, <2>6, Zenon
<1> QED BY <1>1, <1>3, <1>8, <1>9, <1>10, Zenon DEF Carries, Full, segs

LEMMA InitDense ==
  ASSUME Init, NEW C, C = cnt
  PROVE  DenseInv(C)
<1>1. PICK g : g = <<0, P-1>>
  OBVIOUS
<1>2. g \in Ranges /\ P \in Nat \ {0} /\ Procs = 0..P-1 /\ g[1] = 0 /\ g[2] = P - 1
  BY <1>1, RootRange, ProcsNat
<1>3. /\ cnt \in Counts /\ pc = [r \in Procs |-> "round"] /\ range = [r \in Procs |-> g]
      /\ s_cnt = [r \in Procs |-> [i \in 1..P |-> cnt[r][i-1] + 1]]
      /\ sbuff = [r \in Procs |-> FlattenSeq([i \in 1..P |-> BlockOf(r, i-1)])]
      /\ r_cnt = [r \in Procs |-> <<>>] /\ r_cnt_ext = [r \in Procs |-> <<>>]
      /\ rbuff = [r \in Procs |-> <<>>] /\ rbuffext = [r \in Procs |-> <<>>]
      /\ net = [s \in Procs |-> [d \in Procs |-> <<>>]]
  BY <1>1 DEF Init
<1>4. cnt \in [Procs -> [Procs -> Nat]]
  BY <1>3, ParametersAssumption
<1>5. Places
  BY <1>3 DEF Places, Labels, Net
<1>6. ASSUME NEW r \in Procs PROVE OwnOK(C, r)
  <2>1. PICK c, counts : c = cnt[r] /\ counts = s_cnt[r]
    OBVIOUS
  <2>2. c \in [Procs -> Nat] /\ counts = [i \in 1..P |-> c[i-1] + 1]
    BY <1>3, <1>4, <2>1
  <2>3. [i \in 1..P |-> BlockOf(r, i-1)] = Row(r, c)
    BY <2>1, Zenon DEF BlockOf, Row
  <2>4. sbuff[r] = FlattenSeq(Row(r, c))
    BY <1>3, <2>3
  <2>5. Carries(FlattenSeq(Row(r, c)), counts, g, g, r) /\ Full(C, FlattenSeq(Row(r, c)), counts, g, Bringers(g, r))
    BY <1>1, <2>1, <2>2, RowCarries
  <2>6. Carries(sbuff[r], s_cnt[r], g, g, r) /\ Full(C, sbuff[r], s_cnt[r], g, Bringers(g, r))
    BY <2>1, <2>4, <2>5, Zenon
  <2>7. In(r, g)
    BY <1>2 DEF In
  <2>8. pc[r] = "round" /\ range[r] = g
    BY <1>3
  <2>9. Own(C, r, "round", g, s_cnt[r], sbuff[r], r_cnt[r], rbuff[r], r_cnt_ext[r], rbuffext[r])
    BY <1>2, <2>6, <2>7, Zenon DEF Own
  <2> QED BY <2>8, <2>9, Zenon DEF OwnOK
<1>7. ASSUME NEW x \in Ranges, NEW s \in Procs, NEW d \in Procs, Peers(x, s, d)
      PROVE  ChannelOK(C, s, d, x)
  <2>1. x = g \/ Under(x, g)
    BY <1>1, RootAbove
  <2>2. /\ pc[s] = "round" /\ pc[d] = "round" /\ range[s] = g /\ range[d] = g /\ net[s][d] = <<>>
    BY <1>3
  <2>3. (WithPartner(x, s, d) \/ WithExtra(x, s, d)) /\ (WithPartner(x, d, s) \/ WithExtra(x, d, s))
    BY PartnerStages, ExtraStages
  <2>4. Sent("round", x, s, d, x) = 0 /\ Taken("round", x, d, s, x) = 0
    BY <2>3, Zenon DEF WithPartner, WithExtra
  <2>5. Sent("round", g, s, d, x) = 0 /\ Taken("round", g, d, s, x) = 0
    <3>1. CASE x = g
      BY <2>4, <3>1, Zenon
    <3>2. CASE x # g
      BY <2>1, <3>2, Zenon DEF Sent, Taken
    <3> QED BY <3>1, <3>2
  <2>6. Channel(C, 0, 0, <<>>, Owed(s_cnt[s], s, d, x), Told(r_cnt[d], r_cnt_ext[d], d, s, x), s, d, x)
    BY Zenon DEF Channel
  <2> QED BY <2>2, <2>5, <2>6, Zenon DEF ChannelOK
<1> QED BY <1>5, <1>6, <1>7 DEF DenseInv

-----------------------------------------------------------------------------
\* The last step of a process, and the steps of nobody.
LEMMA DeliverKeeps ==
  ASSUME NEW C, DenseInv(C), NEW r \in Procs, Deliver(r)
  PROVE  DenseInv(C)'
<1>1. PICK g : g = range[r]
  OBVIOUS
<1>2. /\ Own(C, r, pc[r], g, s_cnt[r], sbuff[r], r_cnt[r], rbuff[r], r_cnt_ext[r], rbuffext[r])
      /\ g \in Ranges /\ In(r, g) /\ Carries(sbuff[r], s_cnt[r], g, g, r) /\ Places
      /\ Full(C, sbuff[r], s_cnt[r], g, Bringers(g, r))
  BY <1>1, OwnIs
<1>3. g[1] = g[2]
  BY <1>1 DEF Deliver
<1>4. /\ pc' = [pc EXCEPT ![r] = "done"]
      /\ range' = range /\ s_cnt' = s_cnt /\ sbuff' = sbuff /\ r_cnt' = r_cnt /\ r_cnt_ext' = r_cnt_ext
      /\ rbuff' = rbuff /\ rbuffext' = rbuffext /\ net' = net
  BY DEF Deliver
<1>5. Places' /\ pc'[r] = "done" /\ \A q \in Procs : q # r => pc'[q] = pc[q]
  BY <1>2, <1>4 DEF Places, Labels
<1>6. ASSUME NEW q \in Procs PROVE OwnOK(C, q)'
  <2>1. CASE q = r
    <3>1. Own(C, r, "done", g, s_cnt[r], sbuff[r], r_cnt[r], rbuff[r], r_cnt_ext[r], rbuffext[r])
      BY <1>2, <1>3, Zenon DEF Own
    <3>2. Own(C, q, pc'[q], range'[q], s_cnt'[q], sbuff'[q], r_cnt'[q], rbuff'[q], r_cnt_ext'[q], rbuffext'[q])
      BY <1>1, <1>4, <1>5, <2>1, <3>1, Zenon
    <3> QED BY <3>2, Zenon DEF OwnOK
  <2>2. CASE q # r
    <3>1. Own(C, q, pc[q], range[q], s_cnt[q], sbuff[q], r_cnt[q], rbuff[q], r_cnt_ext[q], rbuffext[q])
      BY Zenon DEF DenseInv, OwnOK
    <3>2. Own(C, q, pc'[q], range'[q], s_cnt'[q], sbuff'[q], r_cnt'[q], rbuff'[q], r_cnt_ext'[q], rbuffext'[q])
      BY <1>4, <1>5, <2>2, <3>1, Zenon
    <3> QED BY <3>2, Zenon DEF OwnOK
  <2> QED BY <2>1, <2>2
<1>7. ASSUME NEW x \in Ranges, NEW s \in Procs, NEW d \in Procs, Peers(x, s, d)
      PROVE  ChannelOK(C, s, d, x)'
  <2>1. x[1] < x[2]
    BY <1>7 DEF Peers
  <2>2. x # g
    <3>1. g[1] \in Nat
      BY <1>2, RangeIs
    <3> QED BY <1>3, <2>1, <3>1
  <2>3. Sent(pc'[s], range[s], s, d, x) = Sent(pc[s], range[s], s, d, x)
    <3>1. CASE s = r
      BY <1>1, <2>2, <3>1, Zenon DEF Sent
    <3>2. CASE s # r
      BY <1>5, <3>2, Zenon
    <3> QED BY <3>1, <3>2
  <2>4. Taken(pc'[d], range[d], d, s, x) = Taken(pc[d], range[d], d, s, x)
    <3>1. CASE d = r
      BY <1>1, <2>2, <3>1, Zenon DEF Taken
    <3>2. CASE d # r
      BY <1>5, <3>2, Zenon
    <3> QED BY <3>1, <3>2
  <2>5. ChannelOK(C, s, d, x)
    BY <1>7 DEF DenseInv
  <2>6. Channel(C, Sent(pc[s], range[s], s, d, x), Taken(pc[d], range[d], d, s, x), net[s][d],
                Owed(s_cnt[s], s, d, x), Told(r_cnt[d], r_cnt_ext[d], d, s, x), s, d, x)
    BY <2>5, Zenon DEF ChannelOK
  <2>7. Channel(C, Sent(pc'[s], range'[s], s, d, x), Taken(pc'[d], range'[d], d, s, x), net'[s][d],
                Owed(s_cnt'[s], s, d, x), Told(r_cnt'[d], r_cnt_ext'[d], d, s, x), s, d, x)
    BY <1>4, <2>3, <2>4, <2>6, Zenon
  <2> QED BY <2>7, Zenon DEF ChannelOK
<1> QED BY <1>5, <1>6, <1>7 DEF DenseInv

LEMMA NobodyMoves ==
  ASSUME NEW C, DenseInv(C), UNCHANGED vars
  PROVE  DenseInv(C)'
<1>1. /\ pc' = pc /\ range' = range /\ s_cnt' = s_cnt /\ sbuff' = sbuff /\ r_cnt' = r_cnt
      /\ r_cnt_ext' = r_cnt_ext /\ rbuff' = rbuff /\ rbuffext' = rbuffext /\ net' = net
  BY DEF vars
<1>2. Places'
  BY <1>1 DEF DenseInv, Places, Net
<1>3. ASSUME NEW q \in Procs PROVE OwnOK(C, q)'
  <2>1. Own(C, q, pc[q], range[q], s_cnt[q], sbuff[q], r_cnt[q], rbuff[q], r_cnt_ext[q], rbuffext[q])
    BY Zenon DEF DenseInv, OwnOK
  <2>2. Own(C, q, pc'[q], range'[q], s_cnt'[q], sbuff'[q], r_cnt'[q], rbuff'[q], r_cnt_ext'[q], rbuffext'[q])
    BY <1>1, <2>1, Zenon
  <2> QED BY <2>2, Zenon DEF OwnOK
<1>4. ASSUME NEW x \in Ranges, NEW s \in Procs, NEW d \in Procs, Peers(x, s, d)
      PROVE  ChannelOK(C, s, d, x)'
  <2>1. ChannelOK(C, s, d, x)
    BY <1>4 DEF DenseInv
  <2>2. Channel(C, Sent(pc[s], range[s], s, d, x), Taken(pc[d], range[d], d, s, x), net[s][d],
                Owed(s_cnt[s], s, d, x), Told(r_cnt[d], r_cnt_ext[d], d, s, x), s, d, x)
    BY <2>1, Zenon DEF ChannelOK
  <2>3. Channel(C, Sent(pc'[s], range'[s], s, d, x), Taken(pc'[d], range'[d], d, s, x), net'[s][d],
                Owed(s_cnt'[s], s, d, x), Told(r_cnt'[d], r_cnt_ext'[d], d, s, x), s, d, x)
    BY <1>1, <2>2, Zenon
  <2> QED BY <2>3, Zenon DEF ChannelOK
<1> QED BY <1>2, <1>3, <1>4 DEF DenseInv

LEMMA ProcKeeps ==
  ASSUME NEW C, DenseInv(C), NEW r \in Procs, Proc(r)
  PROVE  DenseInv(C)'
<1>1. CASE SendCounts(r)
  BY <1>1, SendCountsKeeps
<1>2. CASE RecvCounts(r)
  BY <1>2, RecvCountsKeeps
<1>3. CASE RecvExtraCounts(r)
  BY <1>3, RecvExtraCountsKeeps
<1>4. CASE RecvData(r)
  BY <1>4, RecvDataKeeps
<1>5. CASE RecvExtraData(r)
  BY <1>5, RecvExtraDataKeeps
<1>6. CASE Rearrange(r)
  BY <1>6, RearrangeKeeps
<1>7. CASE Deliver(r)
  BY <1>7, DeliverKeeps
<1> QED BY <1>1, <1>2, <1>3, <1>4, <1>5, <1>6, <1>7 DEF Proc

-----------------------------------------------------------------------------
\* What the invariant says of the messages and of the segments.
LEMMA LengthsTaken ==
  ASSUME NEW C, DenseInv(C), NEW r \in Procs, NEW g, g = range[r], NEW y \in Procs, Peers(g, r, y),
         NEW l, l = pc[r], Taken(l, g, r, y, g) = 0, net[y][r] # <<>>
  PROVE  Head(net[y][r]).kind = "lengths" /\ Len(Head(net[y][r]).body) = SizeOf(HalfOf(g, r))
<1>1. g \in Ranges /\ g \in Procs \X Procs
  BY OwnIs
<1>2. Peers(g, y, r) /\ HalfOf(g, r) = OtherOf(g, y) /\ g[1] < g[2] /\ In(y, g)
  BY <1>1, PeersAre
<1>3. ChannelOK(C, y, r, g)
  BY <1>1, <1>2 DEF DenseInv
<1>4. PICK t : Channel(C, Sent(pc[y], range[y], y, r, g), Taken(l, g, r, y, g), net[y][r],
                       Owed(s_cnt[y], y, r, g), t, y, r, g)
  BY <1>3, Zenon DEF ChannelOK
<1>5. PICK S, o : S = Sent(pc[y], range[y], y, r, g) /\ o = Owed(s_cnt[y], y, r, g)
  OBVIOUS
<1>6. Channel(C, S, 0, net[y][r], o, t, y, r, g)
  BY <1>4, <1>5, Zenon
<1>7. \/ S = 1 /\ Head(net[y][r]) = Lengths(o)
      \/ S = 2 /\ \E k, b : Head(net[y][r]) = Lengths(k) /\ Parcel(C, k, b, y, r, g)
  BY <1>6, TakesLengths
<1>8. CASE S = 2 /\ \E k, b : Head(net[y][r]) = Lengths(k) /\ Parcel(C, k, b, y, r, g)
  <2>1. PICK k, b : Head(net[y][r]) = Lengths(k) /\ Parcel(C, k, b, y, r, g)
    BY <1>8
  <2>2. Len(k) = SizeOf(HalfOf(g, r))
    BY <2>1 DEF Parcel, Carries
  <2>3. Head(net[y][r]).kind = "lengths" /\ Head(net[y][r]).body = k
    BY <2>1 DEF Lengths
  <2> QED BY <2>2, <2>3
<1>9. CASE S = 1 /\ Head(net[y][r]) = Lengths(o)
  <2>1. range[y] = g
    <3>1. 0 # 1 /\ 2 # 1
      OBVIOUS
    <3> QED BY <1>5, <1>9, <3>1, Zenon DEF Sent
  <2>2. Carries(sbuff[y], s_cnt[y], g, g, y) /\ Full(C, sbuff[y], s_cnt[y], g, Bringers(g, y))
    BY <2>1, OwnIs
  <2>3. Parcel(C, o, Cut(sbuff[y], s_cnt[y], OtherOf(g, y)[1] - g[1] + 1, OtherOf(g, y)[2] - g[1] + 1), y, r, g)
        \/ Parcel(C, o, <<>>, y, r, g)
    <3>1. CASE r = PartnerIn(g, y)
      <4>1. Parcel(C, Owed(s_cnt[y], y, PartnerIn(g, y), g),
                   Cut(sbuff[y], s_cnt[y], OtherOf(g, y)[1] - g[1] + 1, OtherOf(g, y)[2] - g[1] + 1),
                   y, PartnerIn(g, y), g)
        BY <1>1, <1>2, <2>2, ParcelSent
      <4> QED BY <1>5, <3>1, <4>1, Zenon
    <3>2. CASE r # PartnerIn(g, y)
      <4>1. ExtraIn(g, y) /\ r = Split(g)
        BY <1>2, <3>2 DEF Peers
      <4>2. Parcel(C, Owed(s_cnt[y], y, Split(g), g), <<>>, y, Split(g), g)
        BY <1>1, <1>2, <2>2, <4>1, ParcelSent
      <4> QED BY <1>5, <4>1, <4>2, Zenon
    <3> QED BY <3>1, <3>2
  <2>4. Len(o) = SizeOf(HalfOf(g, r))
    BY <2>3, Zenon DEF Parcel, Carries
  <2>5. Head(net[y][r]).kind = "lengths" /\ Head(net[y][r]).body = o
    BY <1>9 DEF Lengths
  <2> QED BY <2>4, <2>5
<1> QED BY <1>7, <1>8, <1>9

LEMMA DenseMatch ==
  ASSUME NEW C, DenseInv(C)
  PROVE  MessagesMatch
<1> SUFFICES ASSUME NEW r \in Procs, NEW d \in Awaited(r), net[d][r] # <<>>
             PROVE  LET m == Head(net[d][r]) IN
                    CASE pc[r] \in {"counts", "extra counts"} ->
                           m.kind = "lengths" /\ Len(m.body) = new_np(r)
                      [] pc[r] = "data" -> m.kind = "data" /\ Len(m.body) = Total(r_cnt[r])
                      [] pc[r] = "extra data" -> m.kind = "data" /\ Len(m.body) = Total(r_cnt_ext[r])
  BY Zenon DEF MessagesMatch
<1> DEFINE m == Head(net[d][r])
<1>1. \/ pc[r] \in {"counts", "data"} /\ d = partner(r)
      \/ pc[r] \in {"extra counts", "extra data"} /\ d = split_id(r)
  BY DEF Awaited
<1>2. PICK g, p, x : Peering(r, g, p, x)
  BY <1>1, PeeringIs
<1>3. /\ g = range[r] /\ g \in Ranges /\ p = PartnerIn(g, r) /\ x = Split(g)
      /\ p \in Procs /\ p # r /\ Peers(g, r, p)
      /\ ExtraIn(g, r) => x \in Procs /\ x # r /\ x # p /\ Peers(g, r, x)
  BY <1>2 DEF Peering
<1>4. partner(r) = p /\ split_id(r) = x /\ new_np(r) = SizeOf(HalfOf(g, r))
  BY <1>3, InItsRange
<1>5. ASSUME NEW k, NEW y, NEW c, Parcel(C, c, k, y, r, g) PROVE Len(k) = Total(c)
  BY <1>5 DEF Parcel, Carries, Buffer
<1>6. CASE pc[r] \in {"counts", "data"}
  <2>1. d = p /\ d \in Procs /\ Peers(g, r, d)
    BY <1>1, <1>3, <1>4, <1>6
  <2>2. WithPartner(g, r, d)
    BY <1>3, <2>1, PartnerStages
  <2>3. CASE pc[r] = "counts"
    <3>1. Taken("counts", g, r, d, g) = 0
      BY <2>2, Zenon DEF WithPartner
    <3>2. m.kind = "lengths" /\ Len(m.body) = SizeOf(HalfOf(g, r))
      BY <1>3, <2>1, <2>3, <3>1, LengthsTaken
    <3> HIDE DEF m
    <3> QED BY <1>4, <2>3, <3>2 DEF m
  <2>4. CASE pc[r] = "data"
    <3>1. Taken("data", g, r, d, g) = 1 /\ Told(r_cnt[r], r_cnt_ext[r], r, d, g) = r_cnt[r]
      BY <2>2, Zenon DEF WithPartner
    <3>2. m.kind = "data" /\ Parcel(C, Told(r_cnt[r], r_cnt_ext[r], r, d, g), m.body, d, r, g)
      BY <1>3, <2>1, <2>4, <3>1, DataTaken
    <3>3. Len(m.body) = Total(r_cnt[r])
      BY <1>5, <3>1, <3>2, Zenon
    <3> HIDE DEF m
    <3> QED BY <2>4, <3>2, <3>3 DEF m
  <2> QED BY <1>6, <2>3, <2>4
<1>7. CASE pc[r] \in {"extra counts", "extra data"}
  <2>1. ExtraIn(g, r)
    BY <1>3, <1>7, OwnIs
  <2>2. d = x /\ d \in Procs /\ Peers(g, r, d) /\ d # p
    BY <1>1, <1>3, <1>4, <1>7, <2>1
  <2>3. WithExtra(g, r, d)
    BY <1>3, <2>2, ExtraStages
  <2>4. CASE pc[r] = "extra counts"
    <3>1. Taken("extra counts", g, r, d, g) = 0
      BY <2>3, Zenon DEF WithExtra
    <3>2. m.kind = "lengths" /\ Len(m.body) = SizeOf(HalfOf(g, r))
      BY <1>3, <2>2, <2>4, <3>1, LengthsTaken
    <3> HIDE DEF m
    <3> QED BY <1>4, <2>4, <3>2 DEF m
  <2>5. CASE pc[r] = "extra data"
    <3>1. Taken("extra data", g, r, d, g) = 1 /\ Told(r_cnt[r], r_cnt_ext[r], r, d, g) = r_cnt_ext[r]
      BY <2>3, Zenon DEF WithExtra
    <3>2. m.kind = "data" /\ Parcel(C, Told(r_cnt[r], r_cnt_ext[r], r, d, g), m.body, d, r, g)
      BY <1>3, <2>2, <2>5, <3>1, DataTaken
    <3>3. Len(m.body) = Total(r_cnt_ext[r])
      BY <1>5, <3>1, <3>2, Zenon
    <3> HIDE DEF m
    <3> QED BY <2>5, <3>2, <3>3 DEF m
  <2> QED BY <1>7, <2>4, <2>5
<1> QED BY <1>1, <1>6, <1>7

LEMMA DenseAddressed ==
  ASSUME NEW C, DenseInv(C)
  PROVE  SegmentsAddressed
<1> SUFFICES ASSUME NEW r \in Procs, NEW i \in DOMAIN s_cnt[r]
             PROVE  LET seg == Segment(sbuff[r], s_cnt[r], i) IN
                    /\ \A x \in DOMAIN seg : seg[x][2] = range[r][1] + i - 1
                    /\ \A x, y \in DOMAIN seg : x # y => seg[x] # seg[y]
  BY DEF SegmentsAddressed
<1>1. PICK g, c, b : g = range[r] /\ c = s_cnt[r] /\ b = sbuff[r]
  OBVIOUS
<1>2. Carries(b, c, g, g, r)
  BY <1>1, OwnIs
<1>3. Buffer(Words, b, c) /\ c \in Seq(Nat)
  BY <1>2 DEF Carries, Buffer
<1>4. i \in 1..Len(c)
  BY <1>1, <1>3
<1>5. PICK seg : seg = Segment(b, c, i)
  OBVIOUS
<1>6. SegmentAt(Words, b, c, i)
  BY <1>3, <1>4, SegmentOf
<1>7. seg \in Seq(Words)
  BY <1>5, <1>6 DEF SegmentAt
<1>8. DOMAIN seg = 1..Len(seg)
  BY <1>7
<1>9. Brings(seg, g[1] + i - 1, g, r) /\ Distinct(seg)
  BY <1>2, <1>4, <1>5, Zenon DEF Carries
<1>10. \A x \in DOMAIN seg : seg[x][2] = g[1] + i - 1
  BY <1>8, <1>9, Zenon DEF Brings
<1>11. \A x, y \in DOMAIN seg : x # y => seg[x] # seg[y]
  BY <1>8, <1>9, Zenon DEF Distinct
<1> QED BY <1>1, <1>5, <1>10, <1>11, Zenon

-----------------------------------------------------------------------------
(***************************************************************************)
(* The end of the dense exchange.  A process whose range is itself has one *)
(* block of every process, as many as there are processes because no word  *)
(* comes twice.  From one header to the next it finds them all, and copies *)
(* each to the place of its sender, which no other sender's block touches. *)
(***************************************************************************)
\* One block after another, each with its header.
LEMMA BlocksRise ==
  ASSUME NEW C, NEW seg \in Seq(Words), NEW S, NEW d, NEW n, NEW ss, NEW at,
         Blocks(C, seg, S, d, n, ss, at)
  PROVE  /\ n \in Nat
         /\ \A j \in 0..n : \A i \in 0..j : at[i] \in Nat /\ at[j] \in Nat /\ at[i] <= at[j] /\ at[j] <= Len(seg)
         /\ \A i \in 1..n : C[ss[i]][d] \in Nat /\ at[i-1] \in Nat /\ at[i] = at[i-1] + (C[ss[i]][d] + 1)
<1>1. /\ n \in Nat /\ at \in [0..n -> 0..Len(seg)] /\ Len(seg) \in Nat /\ at[0] = 0
      /\ \A i \in 1..n : C[ss[i]][d] \in Nat /\ at[i] = at[i-1] + (C[ss[i]][d] + 1)
  BY DEF Blocks
<1> DEFINE counts == [i \in 1..n |-> C[ss[i]][d] + 1]
<1>2. \A i \in 1..n : counts[i] \in Nat /\ at[i] = at[i-1] + counts[i]
  <2> SUFFICES ASSUME NEW i \in 1..n PROVE counts[i] \in Nat /\ at[i] = at[i-1] + counts[i]
    OBVIOUS
  <2>1. C[ss[i]][d] \in Nat /\ at[i] = at[i-1] + (C[ss[i]][d] + 1)
    BY <1>1, Zenon
  <2>2. counts[i] = C[ss[i]][d] + 1
    OBVIOUS
  <2> HIDE DEF counts
  <2>3. counts[i] \in Nat
    BY <2>1, <2>2
  <2> QED BY <2>1, <2>2, <2>3, Zenon
<1>3. counts = [i \in 1..n |-> counts[i]]
  OBVIOUS
<1> HIDE DEF counts
<1>4. counts \in Seq(Nat) /\ Len(counts) = n
  BY <1>1, <1>2, <1>3, SequenceOf
<1>5. at \in [0..n -> Nat]
  BY <1>1
<1>6. Partial(counts, at)
  BY <1>1, <1>2, <1>4, <1>5 DEF Partial
<1>7. ASSUME NEW j \in 0..n, NEW i \in 0..j
      PROVE  at[i] \in Nat /\ at[j] \in Nat /\ at[i] <= at[j] /\ at[j] <= Len(seg)
  <2>1. j \in 0..Len(counts)
    BY <1>4
  <2>2. at[i] <= at[j]
    BY <1>4, <1>6, <2>1, PartialRises
  <2>3. i \in 0..n
    BY <1>1
  <2> QED BY <1>1, <2>2, <2>3
<1>8. ASSUME NEW i \in 1..n PROVE at[i-1] \in Nat
  <2>1. i - 1 \in 0..n
    BY <1>1
  <2> QED BY <1>5, <2>1
<1> QED BY <1>1, <1>7, <1>8

\* what the i-th block begins with, and the elements after it
BlockOfSender(seg, a, s, d, c) ==
  /\ a \in Nat /\ c \in Nat /\ (a + 1) + c <= Len(seg)
  /\ a + 1 \in 1..Len(seg) /\ seg[a + 1] = <<s, d, 0>>
  /\ \A k \in 1..c : seg[(a + 1) + k] = <<s, d, k>>

\* Where the i-th block is, and what it holds.
LEMMA BlockIs ==
  ASSUME NEW C, NEW seg \in Seq(Words), NEW S, NEW d, NEW n, NEW ss, NEW at,
         Blocks(C, seg, S, d, n, ss, at), NEW i \in 1..n
  PROVE  BlockOfSender(seg, at[i-1], ss[i], d, C[ss[i]][d]) /\ ss[i] \in S
<1> DEFINE a == at[i-1]  c == C[ss[i]][d]  L == Len(seg)
<1>1. BlockAt(C, seg, a, ss[i], d) /\ ss[i] \in S
  BY DEF Blocks
<1>2. a \in Nat /\ c \in Nat /\ at[i] = a + (c + 1) /\ n \in Nat
  BY BlocksRise
<1>3. at[i] <= L /\ L \in Nat
  <2>1. i \in 0..n /\ i \in 0..i
    BY <1>2
  <2>2. at[i] <= L
    BY <2>1, BlocksRise
  <2> QED BY <2>2
<1>4. \A k \in 1..c + 1 : seg[a + k] = <<ss[i], d, k - 1>>
  BY <1>1 DEF BlockAt
<1> HIDE DEF a, c, L
<1>5. seg[a + 1] = <<ss[i], d, 0>>
  <2>1. 1 \in 1..c + 1 /\ 1 - 1 = 0
    BY <1>2
  <2> QED BY <1>4, <2>1
<1>6. ASSUME NEW k \in 1..c PROVE seg[(a + 1) + k] = <<ss[i], d, k>>
  <2>1. k + 1 \in 1..c + 1 /\ (k + 1) - 1 = k /\ (a + 1) + k = a + (k + 1)
    BY <1>2
  <2>2. seg[a + (k + 1)] = <<ss[i], d, (k + 1) - 1>>
    BY <1>4, <2>1
  <2> QED BY <2>1, <2>2
<1>7. (a + 1) + c <= L /\ a + 1 \in 1..L
  BY <1>2, <1>3
<1> QED BY <1>1, <1>2, <1>5, <1>6, <1>7 DEF BlockOfSender, a, c, L

\* No sender has two blocks if no word comes twice: there are as many blocks as
\* senders.
LEMMA BlocksOnce ==
  ASSUME NEW C, NEW seg \in Seq(Words), Distinct(seg), NEW d, NEW n, NEW ss, NEW at,
         Blocks(C, seg, Procs, d, n, ss, at)
  PROVE  n = P /\ \A i, j \in 1..n : ss[i] = ss[j] => i = j
<1>1. n \in Nat /\ ss \in [1..n -> Procs] /\ \A s \in Procs : \E i \in 1..n : ss[i] = s
  BY DEF Blocks
<1>2. ASSUME NEW i \in 1..n, NEW j \in 1..n, i < j, ss[i] = ss[j] PROVE FALSE
  <2>1. /\ at[i-1] + 1 \in 1..Len(seg) /\ seg[at[i-1] + 1] = <<ss[i], d, 0>> /\ at[i-1] \in Nat
        /\ at[j-1] + 1 \in 1..Len(seg) /\ seg[at[j-1] + 1] = <<ss[j], d, 0>> /\ at[j-1] \in Nat
    <3>1. /\ BlockOfSender(seg, at[i-1], ss[i], d, C[ss[i]][d])
          /\ BlockOfSender(seg, at[j-1], ss[j], d, C[ss[j]][d])
      BY BlockIs, Zenon
    <3> QED BY <3>1, Zenon DEF BlockOfSender
  <2>2. at[i-1] + 1 = at[j-1] + 1
    BY <1>2, <2>1 DEF Distinct
  <2>3. at[i] = at[i-1] + (C[ss[i]][d] + 1) /\ C[ss[i]][d] \in Nat
    BY BlocksRise
  <2>4. i \in 0..j-1 /\ j - 1 \in 0..n
    BY <1>1, <1>2
  <2>5. at[i] <= at[j-1]
    BY <2>4, BlocksRise
  <2> QED BY <2>1, <2>2, <2>3, <2>5
<1>3. \A i, j \in 1..n : ss[i] = ss[j] => i = j
  <2> SUFFICES ASSUME NEW i \in 1..n, NEW j \in 1..n, ss[i] = ss[j] PROVE i = j
    OBVIOUS
  <2>1. ~ (i < j) /\ ~ (j < i)
    BY <1>2
  <2> QED BY <1>1, <2>1
<1>4. n = P
  <2>1. ss \in Bijection(1..n, Procs)
    BY <1>1, <1>3, Zenon DEF Bijection, Injection, Surjection, IsInjective
  <2>2. IsFiniteSet(1..n) /\ Cardinality(1..n) = n
    BY <1>1, FS_Interval
  <2>3. IsFiniteSet(Procs) /\ Cardinality(Procs) = P
    BY ProcsNat, FS_Interval
  <2>4. Cardinality(Procs) = Cardinality(1..n)
    BY <2>1, <2>2, FS_Bijection DEF ExistsBijection
  <2> QED BY <2>2, <2>3, <2>4
<1> QED BY <1>3, <1>4

\* where the blocks of a segment begin, from one header to the next
Pointers(seg, p) ==
  p = [i \in 1..P |-> IF i = 1 THEN 1 ELSE p[i-1] + blk_size(seg[p[i-1]])]

\* The headers lead from block to block.
LEMMA PointersAre ==
  ASSUME NEW C, C = cnt, NEW seg \in Seq(Words), NEW d, NEW ss, NEW at,
         Blocks(C, seg, Procs, d, P, ss, at)
  PROVE  /\ \E p : Pointers(seg, p)
         /\ \A p : Pointers(seg, p) => \A i \in 1..P : p[i] = at[i-1] + 1
<1>1. P \in Nat /\ at[0] = 0
  BY ProcsNat DEF Blocks
<1>2. ASSUME NEW i \in 1..P, i # 1
      PROVE  i - 1 \in 1..P /\ at[i-1] + 1 = (at[(i-1)-1] + 1) + blk_size(seg[at[(i-1)-1] + 1])
  <2>1. PICK j : j = i - 1
    OBVIOUS
  <2>2. j \in 1..P
    BY <1>1, <1>2, <2>1
  <2>3. BlockOfSender(seg, at[j-1], ss[j], d, C[ss[j]][d])
    BY <2>2, BlockIs, Zenon
  <2>4. seg[at[j-1] + 1] = <<ss[j], d, 0>>
    BY <2>3, Zenon DEF BlockOfSender
  <2>5. blk_size(<<ss[j], d, 0>>) = C[ss[j]][d] + 1
    <3>1. <<ss[j], d, 0>>[1] = ss[j] /\ <<ss[j], d, 0>>[2] = d
      OBVIOUS
    <3> QED BY <3>1, Zenon DEF blk_size
  <2>6. C[ss[j]][d] \in Nat /\ at[j-1] \in Nat /\ at[j] = at[j-1] + (C[ss[j]][d] + 1)
    BY <2>2, BlocksRise
  <2>7. at[j] + 1 = (at[j-1] + 1) + blk_size(seg[at[j-1] + 1])
    <3>1. PICK x, y, z : x = C[ss[j]][d] /\ y = at[j-1] /\ z = blk_size(seg[at[j-1] + 1])
      OBVIOUS
    <3>2. z = x + 1
      BY <2>4, <2>5, <3>1, Zenon
    <3> QED BY <2>6, <3>1, <3>2
  <2> QED BY <2>1, <2>2, <2>7, Zenon
<1>3. \E p : Pointers(seg, p)
  <2> DEFINE p == [i \in 1..P |-> at[i-1] + 1]
  <2>1. ASSUME NEW i \in 1..P
        PROVE  p[i] = IF i = 1 THEN 1 ELSE p[i-1] + blk_size(seg[p[i-1]])
    <3>1. p[i] = at[i-1] + 1
      OBVIOUS
    <3>2. CASE i = 1
      BY <1>1, <3>1, <3>2
    <3>3. CASE i # 1
      <4>1. i - 1 \in 1..P /\ at[i-1] + 1 = (at[(i-1)-1] + 1) + blk_size(seg[at[(i-1)-1] + 1])
        BY <1>2, <3>3
      <4>2. p[i-1] = at[(i-1)-1] + 1
        BY <4>1
      <4> HIDE DEF p
      <4> QED BY <3>1, <3>3, <4>1, <4>2, Zenon
    <3> QED BY <3>2, <3>3
  <2>2. p = [i \in 1..P |-> p[i]]
    OBVIOUS
  <2> HIDE DEF p
  <2>3. p = [i \in 1..P |-> IF i = 1 THEN 1 ELSE p[i-1] + blk_size(seg[p[i-1]])]
    BY <2>1, <2>2, Zenon
  <2> QED BY <2>3, Zenon DEF Pointers
<1>4. ASSUME NEW p, Pointers(seg, p) PROVE \A i \in 1..P : p[i] = at[i-1] + 1
  <2>1. \A i \in 1..P : p[i] = IF i = 1 THEN 1 ELSE p[i-1] + blk_size(seg[p[i-1]])
    <3> SUFFICES ASSUME NEW i \in 1..P
                 PROVE  p[i] = IF i = 1 THEN 1 ELSE p[i-1] + blk_size(seg[p[i-1]])
      OBVIOUS
    <3> DEFINE q(k) == IF k = 1 THEN 1 ELSE p[k-1] + blk_size(seg[p[k-1]])
    <3>1. p = [k \in 1..P |-> q(k)]
      BY <1>4, Zenon DEF Pointers
    <3> HIDE DEF q
    <3>2. p[i] = q(i)
      BY <3>1
    <3> QED BY <3>2, Zenon DEF q
  <2> DEFINE Bad == {i \in 1..P : p[i] # at[i-1] + 1}
  <2>2. Bad = {}
    <3> SUFFICES ASSUME Bad # {} PROVE FALSE
      OBVIOUS
    <3>1. PICK m \in Bad : \A x \in Bad : m <= x
      <4>1. Bad \subseteq Nat
        BY <1>1
      <4> HIDE DEF Bad
      <4> QED BY <4>1, LeastNatural
    <3>2. m \in 1..P /\ p[m] # at[m-1] + 1
      BY <3>1
    <3>3. m # 1
      <4>1. 1 - 1 = 0 /\ 0 + 1 = 1
        OBVIOUS
      <4>2. m = 1 => p[m] = 1
        BY <2>1, <3>2, Zenon
      <4> QED BY <1>1, <3>2, <4>1, <4>2, Zenon
    <3>4. /\ m - 1 \in 1..P
          /\ at[m-1] + 1 = (at[(m-1)-1] + 1) + blk_size(seg[at[(m-1)-1] + 1])
      BY <1>2, <3>2, <3>3
    <3>5. ~ (m <= m - 1)
      BY <3>2
    <3>6. p[m-1] = at[(m-1)-1] + 1
      BY <3>1, <3>4, <3>5
    <3>7. p[m] = p[m-1] + blk_size(seg[p[m-1]])
      BY <2>1, <3>2, <3>3, Zenon
    <3> QED BY <3>2, <3>4, <3>6, <3>7, Zenon
  <2> QED BY <2>2
<1> QED BY <1>3, <1>4

\* The places of the senders in the result of d, one after the other.
PlacesApart(f, c, T) ==
  /\ \A s \in Procs : f[s] \in Nat /\ c[s] \in Nat /\ f[s] + c[s] <= T
  /\ \A s, t \in Procs : s # t => f[s] + c[s] <= f[t] \/ f[t] + c[t] <= f[s]

\* The displacements the counts give are such places.
LEMMA PlacesOfSenders ==
  ASSUME NEW C, C = cnt, C \in [Procs -> [Procs -> Nat]], NEW d \in Procs
  PROVE  \E f, c, T : /\ PlacesApart(f, c, T) /\ T \in Nat /\ T = Total(r_cnt_(d))
                      /\ \A s \in Procs : c[s] = C[s][d] /\ f[s] = rdisp_(d, s)
<1>1. P \in Nat \ {0} /\ Procs = 0..P-1
  BY ProcsNat
<1> DEFINE v == [s \in 1..P |-> C[s-1][d]]
<1>2. \A s \in 1..P : v[s] \in Nat /\ v[s] = C[s-1][d]
  <2> SUFFICES ASSUME NEW s \in 1..P PROVE v[s] \in Nat /\ v[s] = C[s-1][d]
    OBVIOUS
  <2>1. s - 1 \in Procs
    BY <1>1
  <2>2. C[s-1][d] \in Nat
    BY <2>1
  <2> QED BY <2>2
<1>3. r_cnt_(d) = v
  BY Zenon DEF r_cnt_
<1>4. v = [s \in 1..P |-> v[s]]
  OBVIOUS
<1> HIDE DEF v
<1>5. v \in Seq(Nat) /\ Len(v) = P
  BY <1>1, <1>2, <1>4, SequenceOf
<1>6. PICK f : /\ Partial(v, f) /\ \A n \in 0..Len(v) : Total(SubSeq(v, 1, n)) = f[n]
               /\ Total(v) = f[Len(v)]
  BY <1>5, PartialIs
<1>7. f \in [0..P -> Nat] /\ \A i \in 1..P : f[i] = f[i-1] + v[i]
  BY <1>5, <1>6 DEF Partial
<1> DEFINE c == [s \in Procs |-> C[s][d]]
<1>8. ASSUME NEW s \in Procs
      PROVE  /\ s \in 0..P /\ s + 1 \in 0..P /\ f[s] \in Nat /\ c[s] \in Nat /\ c[s] = C[s][d]
             /\ f[s+1] = f[s] + c[s] /\ f[s] = rdisp_(d, s)
  <2>1. s \in 0..P /\ s + 1 \in 1..P /\ s + 1 \in 0..P /\ (s + 1) - 1 = s
    BY <1>1
  <2>2. c[s] = C[s][d] /\ C[s][d] \in Nat
    OBVIOUS
  <2>3. f[s+1] = f[s] + v[s+1]
    BY <1>7, <2>1
  <2>4. v[s+1] = C[s][d]
    BY <1>2, <2>1
  <2>5. rdisp_(d, s) = f[s]
    BY <1>3, <1>5, <1>6, <2>1 DEF rdisp_
  <2>6. f[s] \in Nat
    BY <1>7, <2>1
  <2> QED BY <2>1, <2>2, <2>3, <2>4, <2>5, <2>6
<1> HIDE DEF c
<1>9. ASSUME NEW j \in 0..P, NEW i \in 0..j PROVE f[i] <= f[j]
  BY <1>5, <1>6, PartialRises
<1>10. ASSUME NEW s \in Procs PROVE f[s] + c[s] <= f[P]
  <2>1. s + 1 \in 0..P /\ P \in 0..P
    BY <1>1, <1>8
  <2>2. f[s+1] <= f[P]
    BY <1>9, <2>1
  <2> QED BY <1>8, <2>2
<1>11. ASSUME NEW s \in Procs, NEW t \in Procs, s < t PROVE f[s] + c[s] <= f[t]
  <2>1. t \in 0..P /\ s + 1 \in 0..t
    BY <1>1, <1>11
  <2>2. f[s+1] <= f[t]
    BY <1>9, <2>1
  <2> QED BY <1>8, <2>2
<1>12. PlacesApart(f, c, f[P])
  <2>1. ASSUME NEW s \in Procs, NEW t \in Procs, s # t
        PROVE  f[s] + c[s] <= f[t] \/ f[t] + c[t] <= f[s]
    <3>1. s < t \/ t < s
      BY <1>1, <2>1
    <3> QED BY <1>11, <3>1
  <2> QED BY <1>8, <1>10, <2>1 DEF PlacesApart
<1>13. f[P] \in Nat /\ f[P] = Total(r_cnt_(d))
  <2>1. P \in 0..P
    BY <1>1
  <2> QED BY <1>3, <1>5, <1>6, <1>7, <2>1
<1> QED BY <1>8, <1>12, <1>13

\* F[i] is o with the first i sequences of bl written over it, each from its
\* place in to on
Writes(o, n, to, bl, F) ==
  F = [i \in 0..n |-> IF i = 0 THEN o ELSE Overwrite(F[i-1], to[i], bl[i])]

\* Writing one after the other is always defined.
LEMMA WritesExist ==
  ASSUME NEW n \in Nat, NEW o, NEW to, NEW bl
  PROVE  \E F : Writes(o, n, to, bl, F)
<1> DEFINE OK(m) == \E F : Writes(o, m, to, bl, F)
           Bad == {m \in 0..n : ~ OK(m)}
<1>1. OK(0)
  <2> DEFINE F == [i \in 0..0 |-> o]
  <2>1. \A i \in 0..0 : F[i] = IF i = 0 THEN o ELSE Overwrite(F[i-1], to[i], bl[i])
    OBVIOUS
  <2>2. F = [i \in 0..0 |-> F[i]]
    OBVIOUS
  <2> HIDE DEF F
  <2>3. F = [i \in 0..0 |-> IF i = 0 THEN o ELSE Overwrite(F[i-1], to[i], bl[i])]
    BY <2>1, <2>2, Zenon
  <2> QED BY <2>3, Zenon DEF Writes
<1>2. ASSUME NEW m \in 0..n-1, OK(m) PROVE OK(m+1)
  <2>1. PICK f : Writes(o, m, to, bl, f)
    BY <1>2
  <2>2. \A i \in 0..m : f[i] = IF i = 0 THEN o ELSE Overwrite(f[i-1], to[i], bl[i])
    <3> DEFINE q(i) == IF i = 0 THEN o ELSE Overwrite(f[i-1], to[i], bl[i])
    <3>1. f = [i \in 0..m |-> q(i)]
      BY <2>1, Zenon DEF Writes
    <3> HIDE DEF q
    <3>2. \A i \in 0..m : f[i] = q(i)
      BY <3>1
    <3> QED BY <3>2, Zenon DEF q
  <2> DEFINE last == Overwrite(f[m], to[m+1], bl[m+1])
  <2> HIDE DEF last
  <2> DEFINE g == [i \in 0..m+1 |-> IF i = m+1 THEN last ELSE f[i]]
  <2>3. ASSUME NEW i \in 0..m+1 PROVE g[i] = IF i = 0 THEN o ELSE Overwrite(g[i-1], to[i], bl[i])
    <3>1. CASE i = m + 1
      <4>1. g[i] = last /\ i # 0
        BY <3>1
      <4>2. i - 1 \in 0..m+1 /\ i - 1 # m + 1 /\ m = i - 1
        BY <3>1
      <4>3. g[i-1] = f[m]
        BY <4>2
      <4> HIDE DEF g
      <4> QED BY <3>1, <4>1, <4>3, Zenon DEF last
    <3>2. CASE i # m + 1
      <4>1. i \in 0..m /\ g[i] = f[i]
        BY <3>2
      <4>2. i # 0 => i - 1 \in 0..m+1 /\ i - 1 # m + 1
        BY <3>2
      <4>3. i # 0 => g[i-1] = f[i-1]
        BY <4>2
      <4> HIDE DEF g
      <4> QED BY <2>2, <4>1, <4>3, Zenon
    <3> QED BY <3>1, <3>2
  <2>4. g = [i \in 0..m+1 |-> g[i]]
    OBVIOUS
  <2> HIDE DEF g
  <2>5. g = [i \in 0..m+1 |-> IF i = 0 THEN o ELSE Overwrite(g[i-1], to[i], bl[i])]
    BY <2>3, <2>4, Zenon
  <2> QED BY <2>5, Zenon DEF Writes
<1> HIDE DEF OK
<1>3. Bad = {}
  <2> SUFFICES ASSUME Bad # {} PROVE FALSE
    OBVIOUS
  <2>1. PICK m \in Bad : \A x \in Bad : m <= x
    <3>1. Bad \subseteq Nat
      OBVIOUS
    <3> HIDE DEF Bad
    <3> QED BY <3>1, LeastNatural
  <2>2. m \in 0..n /\ ~ OK(m) /\ m # 0
    BY <1>1, <2>1
  <2>3. m - 1 \in 0..n-1 /\ m - 1 \in 0..n /\ ~ (m <= m - 1) /\ (m - 1) + 1 = m
    BY <2>2
  <2>4. OK(m-1)
    BY <2>1, <2>3
  <2> QED BY <1>2, <2>2, <2>3, <2>4
<1>4. OK(n)
  BY <1>3
<1> QED BY <1>4 DEF OK

\* t is as long as its sender has elements, and has them in order
ElementsOf(t, s, d, c) == Len(t) = c[s] /\ \A k \in 1..c[s] : t[k] = <<s, d, k>>

\* What is written over is new, and the rest as it was.
LEMMA OverwriteIs ==
  ASSUME NEW T \in Nat, NEW o, DOMAIN o = 1..T, NEW a \in Nat, NEW n \in Nat, NEW t,
         Len(t) = n, a + n <= T
  PROVE  /\ DOMAIN Overwrite(o, a, t) = 1..T
         /\ \A k \in 1..n : Overwrite(o, a, t)[a + k] = t[k]
         /\ \A x \in 1..T : x <= a \/ a + n < x => Overwrite(o, a, t)[x] = o[x]
<1> DEFINE w(k) == IF k \in a+1..a+n THEN t[k - a] ELSE o[k]
<1>1. Overwrite(o, a, t) = [k \in 1..T |-> w(k)]
  BY Zenon DEF Overwrite
<1>2. DOMAIN Overwrite(o, a, t) = 1..T /\ \A k \in 1..T : Overwrite(o, a, t)[k] = w(k)
  <2> HIDE DEF w
  <2> QED BY <1>1
<1>3. ASSUME NEW k \in 1..n PROVE Overwrite(o, a, t)[a + k] = t[k]
  <2>1. a + k \in 1..T /\ a + k \in a+1..a+n /\ (a + k) - a = k
    OBVIOUS
  <2>2. w(a + k) = t[(a + k) - a]
    BY <2>1, Zenon
  <2> HIDE DEF w
  <2> QED BY <1>2, <2>1, <2>2, Zenon
<1>4. ASSUME NEW x \in 1..T, x <= a \/ a + n < x PROVE Overwrite(o, a, t)[x] = o[x]
  <2>1. x \notin a+1..a+n
    BY <1>4
  <2>2. w(x) = o[x]
    BY <2>1, Zenon
  <2> HIDE DEF w
  <2> QED BY <1>2, <2>2, Zenon
<1> QED BY <1>2, <1>3, <1>4

\* the i-th of bl is what ss[i] sends d, for its place in a sequence of T, and
\* all senders are there once
Deals(ss, to, bl, f, c, d) ==
  /\ ss \in [1..P -> Procs] /\ \A i, j \in 1..P : ss[i] = ss[j] => i = j
  /\ \A i \in 1..P : to[i] = f[ss[i]] /\ ElementsOf(bl[i], ss[i], d, c)

\* what s sends d is at its place in u
Has(u, s, f, c, d, T) ==
  DOMAIN u = 1..T /\ \A k \in 1..c[s] : u[f[s] + k] = <<s, d, k>>

\* Written to the places of their senders, the elements of all stay there.
LEMMA AllWritten ==
  ASSUME NEW T \in Nat, NEW f, NEW c, PlacesApart(f, c, T), NEW d, NEW o, DOMAIN o = 1..T,
         NEW ss, NEW to, NEW bl, Deals(ss, to, bl, f, c, d),
         NEW F, Writes(o, P, to, bl, F), NEW i \in 1..P
  PROVE  Has(F[P], ss[i], f, c, d, T)
<1>0. /\ ss \in [1..P -> Procs] /\ \A x, y \in 1..P : ss[x] = ss[y] => x = y
      /\ \A x \in 1..P : to[x] = f[ss[x]] /\ ElementsOf(bl[x], ss[x], d, c)
  BY Zenon DEF Deals
<1>1. P \in Nat \ {0}
  BY ProcsNat
<1>2. \A m \in 0..P : F[m] = IF m = 0 THEN o ELSE Overwrite(F[m-1], to[m], bl[m])
  <2> DEFINE q(m) == IF m = 0 THEN o ELSE Overwrite(F[m-1], to[m], bl[m])
  <2>1. F = [m \in 0..P |-> q(m)]
    BY Zenon DEF Writes
  <2> HIDE DEF q
  <2>2. \A m \in 0..P : F[m] = q(m)
    BY <2>1
  <2> QED BY <2>2, Zenon DEF q
<1> DEFINE OK(m) == /\ DOMAIN F[m] = 1..T
                    /\ i <= m => \A k \in 1..c[ss[i]] : F[m][f[ss[i]] + k] = <<ss[i], d, k>>
           Bad == {m \in 0..P : ~ OK(m)}
<1>3. OK(0)
  <2>1. F[0] = o /\ ~ (i <= 0)
    BY <1>1, <1>2
  <2> QED BY <2>1
<1>4. ASSUME NEW m \in 1..P, OK(m-1) PROVE OK(m)
  <2>1. PICK u, t, a, n : u = F[m-1] /\ t = bl[m] /\ a = to[m] /\ n = c[ss[m]]
    OBVIOUS
  <2>2. F[m] = Overwrite(u, a, t)
    <3>1. m \in 0..P /\ m # 0
      BY <1>1
    <3> QED BY <1>2, <2>1, <3>1, Zenon
  <2>3. /\ DOMAIN u = 1..T /\ a = f[ss[m]] /\ a \in Nat /\ n \in Nat /\ a + n <= T /\ ss[m] \in Procs
        /\ Len(t) = n /\ \A k \in 1..n : t[k] = <<ss[m], d, k>>
    <3>1. ss[m] \in Procs
      BY <1>0
    <3>2. f[ss[m]] \in Nat /\ c[ss[m]] \in Nat /\ f[ss[m]] + c[ss[m]] <= T
      BY <3>1, Zenon DEF PlacesApart
    <3>3. ElementsOf(t, ss[m], d, c) /\ a = f[ss[m]]
      BY <1>0, <2>1, Zenon
    <3>4. Len(t) = n /\ \A k \in 1..n : t[k] = <<ss[m], d, k>>
      BY <2>1, <3>3, Zenon DEF ElementsOf
    <3> QED BY <1>4, <2>1, <3>1, <3>2, <3>3, <3>4, Zenon
  <2>4. /\ DOMAIN F[m] = 1..T
        /\ \A k \in 1..n : F[m][a + k] = t[k]
        /\ \A x \in 1..T : x <= a \/ a + n < x => F[m][x] = u[x]
    BY <2>2, <2>3, OverwriteIs
  <2>5. CASE i = m
    <3>1. \A k \in 1..c[ss[i]] : F[m][f[ss[i]] + k] = <<ss[i], d, k>>
      <4>1. c[ss[i]] = n /\ f[ss[i]] = a /\ ss[i] = ss[m]
        BY <2>1, <2>3, <2>5, Zenon
      <4>2. \A k \in 1..n : F[m][a + k] = <<ss[m], d, k>>
        BY <2>3, <2>4, Zenon
      <4> QED BY <4>1, <4>2, Zenon
    <3> QED BY <2>4, <3>1
  <2>6. CASE i # m
    <3> SUFFICES ASSUME i <= m, NEW k \in 1..c[ss[i]] PROVE F[m][f[ss[i]] + k] = <<ss[i], d, k>>
      BY <2>4, Zenon
    <3>1. i <= m - 1
      BY <1>1, <2>6
    <3>2. u[f[ss[i]] + k] = <<ss[i], d, k>>
      BY <1>4, <2>1, <3>1, Zenon
    <3>3. ss[i] # ss[m] /\ ss[i] \in Procs /\ ss[m] \in Procs
      BY <1>0, <2>6
    <3>4. /\ f[ss[i]] \in Nat /\ c[ss[i]] \in Nat /\ f[ss[i]] + c[ss[i]] <= T
          /\ f[ss[i]] + c[ss[i]] <= f[ss[m]] \/ f[ss[m]] + c[ss[m]] <= f[ss[i]]
      BY <3>3, Zenon DEF PlacesApart
    <3>5. f[ss[i]] + k \in 1..T /\ (f[ss[i]] + k <= a \/ a + n < f[ss[i]] + k)
      <4>1. PICK y, z : y = f[ss[i]] /\ z = c[ss[i]]
        OBVIOUS
      <4>2. y \in Nat /\ z \in Nat /\ y + z <= T /\ (y + z <= a \/ a + n <= y) /\ k \in 1..z
        BY <2>1, <2>3, <3>4, <4>1, Zenon
      <4>3. y + k \in 1..T /\ (y + k <= a \/ a + n < y + k)
        BY <2>3, <4>2
      <4> QED BY <4>1, <4>3
    <3> QED BY <2>4, <3>2, <3>5, Zenon
  <2> QED BY <2>5, <2>6
<1> HIDE DEF OK
<1>5. Bad = {}
  <2> SUFFICES ASSUME Bad # {} PROVE FALSE
    OBVIOUS
  <2>1. PICK m \in Bad : \A x \in Bad : m <= x
    <3>1. Bad \subseteq Nat
      BY <1>1
    <3> HIDE DEF Bad
    <3> QED BY <3>1, LeastNatural
  <2>2. m \in 0..P /\ ~ OK(m) /\ m # 0
    BY <1>3, <2>1
  <2>3. m \in 1..P /\ m - 1 \in 0..P /\ ~ (m <= m - 1)
    BY <1>1, <2>2
  <2>4. OK(m-1)
    BY <2>1, <2>3
  <2> QED BY <1>4, <2>2, <2>3, <2>4
<1>6. OK(P) /\ i <= P
  BY <1>1, <1>5
<1> QED BY <1>6, Zenon DEF OK, Has

\* When its range is the process alone, its buffer is one segment, which has a
\* block of every process.
LEMMA AtTheEnd ==
  ASSUME NEW C, DenseInv(C), NEW r \in Procs, range[r][1] = range[r][2]
  PROVE  sbuff[r] \in Seq(Words) /\ Distinct(sbuff[r]) /\ Holds(C, sbuff[r], Procs, r)
<1>1. PICK g, c, b : g = range[r] /\ c = s_cnt[r] /\ b = sbuff[r]
  OBVIOUS
<1>2. /\ g \in Ranges /\ In(r, g) /\ Carries(b, c, g, g, r) /\ Full(C, b, c, g, Bringers(g, r))
  BY <1>1, OwnIs
<1>3. g[1] = r /\ g[2] = r /\ r \in Nat
  <2>1. g[1] \in Nat /\ g[2] \in Nat /\ g[1] = g[2] /\ r \in Nat
    BY <1>1, <1>2, RangeIs, ProcsNat
  <2>2. g[1] <= r /\ r <= g[2]
    BY <1>2 DEF In
  <2> QED BY <2>1, <2>2
<1>4. Buffer(Words, b, c) /\ Len(c) = 1
  <2>1. Buffer(Words, b, c) /\ Len(c) = g[2] - g[1] + 1
    BY <1>2 DEF Carries, SizeOf
  <2>2. Len(c) = 1
    BY <1>3, <2>1
  <2> QED BY <2>1, <2>2
<1>5. b \in Seq(Words) /\ c \in Seq(Nat) /\ Len(b) = Total(c)
  BY <1>4 DEF Buffer
<1>6. Segment(b, c, 1) = b
  <2>1. PICK f : /\ Partial(c, f) /\ \A n \in 0..Len(c) : Total(SubSeq(c, 1, n)) = f[n]
                 /\ Total(c) = f[Len(c)]
    BY <1>5, PartialIs
  <2>2. Total(SubSeq(c, 1, 1-1)) = 0 /\ Len(b) = c[1]
    <3>1. f[0] = 0 /\ f[1] = f[1-1] + c[1] /\ c[1] \in Nat
      BY <1>4, <1>5, <2>1 DEF Partial
    <3>2. 1 - 1 = 0 /\ 0 \in 0..Len(c)
      BY <1>4
    <3>3. f[1] = c[1]
      BY <3>1, <3>2
    <3> QED BY <1>4, <1>5, <2>1, <3>1, <3>2, <3>3, Zenon
  <2>3. SegmentAt(Words, b, c, 1)
    <3>1. 1 \in 1..Len(c)
      BY <1>4
    <3> QED BY <1>4, <3>1, SegmentOf
  <2> DEFINE s == Segment(b, c, 1)
  <2>4. s \in Seq(Words) /\ Len(s) = c[1] /\ \A x \in 1..c[1] : s[x] = b[0 + x]
    BY <2>2, <2>3, Zenon DEF SegmentAt
  <2> HIDE DEF s
  <2>5. \A x \in 1..Len(s) : s[x] = b[x]
    <3> SUFFICES ASSUME NEW x \in 1..Len(s) PROVE s[x] = b[x]
      OBVIOUS
    <3>1. 0 + x = x
      BY <2>4
    <3> QED BY <2>4, <3>1, Zenon
  <2>6. s = b
    BY <1>5, <2>2, <2>4, <2>5, SameSequence
  <2> QED BY <2>6 DEF s
<1>7. Distinct(b)
  <2>1. 1 \in 1..Len(c)
    BY <1>4
  <2>2. Distinct(Segment(b, c, 1))
    BY <1>2, <2>1, Zenon DEF Carries
  <2> QED BY <1>6, <2>2, Zenon
<1>8. Holds(C, b, Procs, r)
  <2>1. 1 \in 1..Len(c) /\ g[1] + 1 - 1 = r
    BY <1>3, <1>4
  <2>2. Holds(C, Segment(b, c, 1), Bringers(g, r), g[1] + 1 - 1)
    BY <1>2, <2>1, Zenon DEF Full
  <2>3. Bringers(g, r) = Procs
    BY <1>2, <1>3, BringersLast
  <2> QED BY <1>6, <2>1, <2>2, <2>3, Zenon
<1> QED BY <1>1, <1>5, <1>7, <1>8

\* what is copied, given where the blocks are
Copies(o, r, b, p, F) ==
  F = [i \in 0..P |-> IF i = 0 THEN o
         ELSE Overwrite(F[i-1], rdisp_(r, b[p[i]][1]), SubSeq(b, p[i] + 1, p[i] + blk_size(b[p[i]]) - 1))]

\* The pointers and the copies of a step are those described above.
LEMMA CopiesAre ==
  ASSUME NEW r
  PROVE  buff_ptr(r) = (CHOOSE p : Pointers(sbuff[r], p))
  BY Zenon DEF buff_ptr, Pointers

LEMMA DeliverIs ==
  ASSUME NEW r \in Procs, Deliver(r), DOMAIN out = Procs
  PROVE  /\ pc[r] = "round" /\ range[r][1] = range[r][2] /\ pc' = [pc EXCEPT ![r] = "done"]
         /\ out' = [out EXCEPT ![r] = (CHOOSE F : Copies(out[r], r, sbuff[r], buff_ptr(r), F))[P]]
  BY Zenon DEF Deliver, Copies

\* p is where the headers are, at the ends of the blocks
HeadersAt(p, at) == \A i \in 1..P : p[i] = at[i-1] + 1

\* f and c are the places and the numbers of what is sent r
SentTo(C, f, c, r) == C = cnt /\ \A s \in Procs : c[s] = C[s][r] /\ f[s] = rdisp_(r, s)

\* copying from b, with the headers at p, writes bl to to
Copying(to, bl, ss, f, c, r, b, p) ==
  /\ \A i \in 1..P : to[i] = f[ss[i]] /\ ElementsOf(bl[i], ss[i], r, c)
  /\ \A o, F : Writes(o, P, to, bl, F) <=> Copies(o, r, b, p, F)

\* What is copied is the elements of every sender, to its place.
LEMMA CopiesWrite ==
  ASSUME NEW C, NEW r \in Procs, NEW b \in Seq(Words), NEW ss, NEW at,
         Blocks(C, b, Procs, r, P, ss, at), NEW p, HeadersAt(p, at),
         NEW f, NEW c, SentTo(C, f, c, r)
  PROVE  \E to, bl : Copying(to, bl, ss, f, c, r, b, p)
<1>0. /\ C = cnt /\ \A i \in 1..P : p[i] = at[i-1] + 1
      /\ \A s \in Procs : c[s] = C[s][r] /\ f[s] = rdisp_(r, s)
  BY Zenon DEF HeadersAt, SentTo
<1> DEFINE to == [i \in 1..P |-> f[ss[i]]]
           bl == [i \in 1..P |-> SubSeq(b, (at[i-1] + 1) + 1, (at[i-1] + 1) + c[ss[i]])]
<1>1. \A i \in 1..P : to[i] = f[ss[i]] /\ bl[i] = SubSeq(b, (at[i-1] + 1) + 1, (at[i-1] + 1) + c[ss[i]])
  OBVIOUS
<1> HIDE DEF to, bl
<1>2. ASSUME NEW i \in 1..P
      PROVE  /\ ElementsOf(bl[i], ss[i], r, c)
             /\ rdisp_(r, b[p[i]][1]) = to[i]
             /\ SubSeq(b, p[i] + 1, p[i] + blk_size(b[p[i]]) - 1) = bl[i]
  <2>1. PICK a, s, n : a = at[i-1] /\ s = ss[i] /\ n = c[ss[i]]
    OBVIOUS
  <2>2. BlockOfSender(b, a, s, r, C[s][r]) /\ s \in Procs
    BY <2>1, BlockIs, Zenon
  <2>3. n = C[s][r] /\ f[s] = rdisp_(r, s)
    BY <1>0, <2>1, <2>2, Zenon
  <2>4. /\ a \in Nat /\ n \in Nat /\ (a + 1) + n <= Len(b) /\ b[a + 1] = <<s, r, 0>>
        /\ \A k \in 1..n : b[(a + 1) + k] = <<s, r, k>>
    BY <2>2, <2>3, Zenon DEF BlockOfSender
  <2>5. b[p[i]] = <<s, r, 0>> /\ p[i] = a + 1
    BY <1>0, <2>1, <2>4, Zenon
  <2>6. <<s, r, 0>>[1] = s /\ <<s, r, 0>>[2] = r
    OBVIOUS
  <2>7. rdisp_(r, b[p[i]][1]) = to[i]
    BY <1>1, <2>1, <2>3, <2>5, <2>6, Zenon
  <2>8. blk_size(b[p[i]]) = n + 1
    BY <1>0, <2>3, <2>5, <2>6, Zenon DEF blk_size
  <2>9. p[i] + blk_size(b[p[i]]) - 1 = (a + 1) + n
    <3>1. PICK x : x = a + 1
      OBVIOUS
    <3>2. x + (n + 1) - 1 = x + n
      BY <2>4, <3>1
    <3> QED BY <2>5, <2>8, <3>1, <3>2, Zenon
  <2>10. bl[i] = SubSeq(b, (a + 1) + 1, (a + 1) + n)
    BY <1>1, <2>1, Zenon
  <2>11. SubSeq(b, p[i] + 1, p[i] + blk_size(b[p[i]]) - 1) = bl[i]
    BY <2>5, <2>9, <2>10, Zenon
  <2>12. ElementsOf(bl[i], s, r, c)
    <3>1. PICK x : x = a + 1
      OBVIOUS
    <3>2. x \in Nat /\ x + n <= Len(b) /\ n \in Nat
      BY <2>4, <3>1
    <3>3. /\ Len(SubSeq(b, x + 1, x + n)) = n
          /\ \A k \in 1..n : SubSeq(b, x + 1, x + n)[k] = b[x + k]
      BY <3>2, PartIs
    <3>4. Len(bl[i]) = n /\ \A k \in 1..n : bl[i][k] = <<s, r, k>>
      BY <2>4, <2>10, <3>1, <3>3, Zenon
    <3> QED BY <2>1, <3>4, Zenon DEF ElementsOf
  <2> QED BY <2>1, <2>7, <2>11, <2>12, Zenon
<1>3. ASSUME NEW o, NEW F PROVE Writes(o, P, to, bl, F) <=> Copies(o, r, b, p, F)
  <2> DEFINE A(i) == IF i = 0 THEN o ELSE Overwrite(F[i-1], to[i], bl[i])
             B(i) == IF i = 0 THEN o
                     ELSE Overwrite(F[i-1], rdisp_(r, b[p[i]][1]), SubSeq(b, p[i] + 1, p[i] + blk_size(b[p[i]]) - 1))
  <2>1. ASSUME NEW i \in 0..P PROVE A(i) = B(i)
    <3>1. CASE i = 0
      BY <3>1, Zenon
    <3>2. CASE i # 0
      <4>1. i \in 1..P
        BY <3>2, ProcsNat
      <4> QED BY <1>2, <4>1, Zenon
    <3> QED BY <3>1, <3>2
  <2>2. /\ Writes(o, P, to, bl, F) <=> F = [i \in 0..P |-> A(i)]
        /\ Copies(o, r, b, p, F) <=> F = [i \in 0..P |-> B(i)]
    BY Zenon DEF Writes, Copies
  <2> HIDE DEF A, B
  <2>3. [i \in 0..P |-> A(i)] = [i \in 0..P |-> B(i)]
    BY <2>1, Zenon
  <2> QED BY <2>2, <2>3, Zenon
<1>4. Copying(to, bl, ss, f, c, r, b, p)
  BY <1>1, <1>2, <1>3, Zenon DEF Copying
<1> QED BY <1>4, Zenon

\* A process returns with what every process has sent it, at its place.
LEMMA DeliverReturns ==
  ASSUME NEW C, C = cnt, cnt \in Counts, DenseInv(C), NEW r \in Procs, Deliver(r),
         DOMAIN out = Procs, DOMAIN out[r] = 1..Total(r_cnt_(r)), NEW s \in Procs
  PROVE  SubSeq(out'[r], rdisp_(r, s) + 1, rdisp_(r, s) + cnt[s][r]) = [k \in 1..cnt[s][r] |-> <<s, r, k>>]
<1>1. PICK b, o : b = sbuff[r] /\ o = out[r]
  OBVIOUS
<1>2. /\ range[r][1] = range[r][2]
      /\ out' = [out EXCEPT ![r] = (CHOOSE F : Copies(out[r], r, sbuff[r], buff_ptr(r), F))[P]]
  BY DeliverIs
<1>3. b \in Seq(Words) /\ Distinct(b) /\ Holds(C, b, Procs, r)
  BY <1>1, <1>2, AtTheEnd
<1>4. PICK ss, at : /\ Blocks(C, b, Procs, r, P, ss, at)
                    /\ \A i, j \in 1..P : ss[i] = ss[j] => i = j
  <2>1. PICK n, ss, at : Blocks(C, b, Procs, r, n, ss, at)
    BY <1>3, Zenon DEF Holds
  <2>2. n = P /\ \A i, j \in 1..n : ss[i] = ss[j] => i = j
    BY <1>3, <2>1, BlocksOnce
  <2> QED BY <2>1, <2>2, Zenon
<1>5. PICK p : p = buff_ptr(r)
  OBVIOUS
<1>6. \A i \in 1..P : p[i] = at[i-1] + 1
  <2>1. /\ \E q : Pointers(b, q)
        /\ \A q : Pointers(b, q) => \A i \in 1..P : q[i] = at[i-1] + 1
    BY <1>3, <1>4, PointersAre
  <2>2. Pointers(b, CHOOSE q : Pointers(b, q))
    BY <2>1, Zenon
  <2>3. p = CHOOSE q : Pointers(b, q)
    BY <1>1, <1>5, CopiesAre, Zenon
  <2> QED BY <2>1, <2>2, <2>3, Zenon
<1>7. PICK f, c, T : /\ PlacesApart(f, c, T) /\ T \in Nat /\ T = Total(r_cnt_(r))
                     /\ \A t \in Procs : c[t] = C[t][r] /\ f[t] = rdisp_(r, t)
  <2>1. C \in [Procs -> [Procs -> Nat]]
    BY ParametersAssumption
  <2> QED BY <2>1, PlacesOfSenders
<1>8. PICK to, bl : Copying(to, bl, ss, f, c, r, b, p)
  <2>1. SentTo(C, f, c, r)
    BY <1>7, Zenon DEF SentTo
  <2>2. HeadersAt(p, at)
    BY <1>6, Zenon DEF HeadersAt
  <2> QED BY <1>3, <1>4, <2>1, <2>2, CopiesWrite
<1>9. PICK F : Writes(o, P, to, bl, F) /\ F = CHOOSE G : Copies(o, r, b, p, G)
  <2>1. \E G : Writes(o, P, to, bl, G)
    BY ProcsNat, WritesExist
  <2>2. \E G : Copies(o, r, b, p, G)
    BY <1>8, <2>1, Zenon DEF Copying
  <2>3. Copies(o, r, b, p, CHOOSE G : Copies(o, r, b, p, G))
    BY <2>2, Zenon
  <2> QED BY <1>8, <2>3, Zenon DEF Copying
<1>10. out'[r] = F[P]
  <2>1. out' = [out EXCEPT ![r] = F[P]]
    BY <1>1, <1>2, <1>5, <1>9, Zenon
  <2> QED BY <2>1
<1>11. PICK i \in 1..P : ss[i] = s
  BY <1>4 DEF Blocks
<1>12. /\ DOMAIN F[P] = 1..T
       /\ \A k \in 1..c[s] : F[P][f[s] + k] = <<s, r, k>>
  <2>1. ss \in [1..P -> Procs]
    BY <1>4 DEF Blocks
  <2>2. DOMAIN o = 1..T
    BY <1>1, <1>7, Zenon
  <2>3. Deals(ss, to, bl, f, c, r)
    BY <1>4, <1>8, <2>1, Zenon DEF Deals, Copying
  <2>4. Has(F[P], ss[i], f, c, r, T)
    BY <1>7, <1>9, <2>2, <2>3, AllWritten
  <2> QED BY <1>11, <2>4, Zenon DEF Has
<1>13. PICK u, a, n : u = F[P] /\ a = f[s] /\ n = c[s]
  OBVIOUS
<1>14. a \in Nat /\ n \in Nat /\ a + n <= T /\ a = rdisp_(r, s) /\ n = cnt[s][r]
  <2>1. f[s] \in Nat /\ c[s] \in Nat /\ f[s] + c[s] <= T
    BY <1>7, Zenon DEF PlacesApart
  <2> QED BY <1>7, <1>13, <2>1, Zenon
<1>15. u = [x \in 1..T |-> u[x]]
  <2>1. PICK v, y, t : u = Overwrite(v, y, t)
    <3> DEFINE A(x) == IF x = 0 THEN o ELSE Overwrite(F[x-1], to[x], bl[x])
    <3>1. F = [x \in 0..P |-> A(x)]
      BY <1>9, Zenon DEF Writes
    <3> HIDE DEF A
    <3>2. F[P] = A(P) /\ P # 0
      BY <3>1, ProcsNat
    <3> QED BY <1>13, <3>2, Zenon DEF A
  <2>2. u = [x \in DOMAIN u |-> u[x]]
    <3>1. u = [x \in DOMAIN v |-> IF x \in y+1..y+Len(t) THEN t[x - y] ELSE v[x]]
      BY <2>1, Zenon DEF Overwrite
    <3> QED BY <3>1
  <2> QED BY <1>12, <1>13, <2>2, Zenon
<1>16. SubSeq(u, a + 1, a + n) = [k \in 1..n |-> <<s, r, k>>]
  <2> DEFINE W == {u[x] : x \in 1..T}
  <2>1. \A x \in 1..T : u[x] \in W
    OBVIOUS
  <2> HIDE DEF W
  <2>2. u \in Seq(W) /\ Len(u) = T
    BY <1>7, <1>15, <2>1, SequenceOf
  <2>3. /\ SubSeq(u, a + 1, a + n) \in Seq(W) /\ Len(SubSeq(u, a + 1, a + n)) = n
        /\ \A x \in 1..n : SubSeq(u, a + 1, a + n)[x] = u[a + x]
    <3>1. a + n <= Len(u)
      BY <1>14, <2>2, Zenon
    <3>2. u \in Seq(W) /\ a \in Nat /\ n \in Nat
      BY <1>14, <2>2, Zenon
    <3> QED BY <3>1, <3>2, PartIs
  <2> DEFINE v == SubSeq(u, a + 1, a + n)
  <2>4. \A x \in 1..n : v[x] = <<s, r, x>>
    BY <1>12, <1>13, <2>3, Zenon
  <2>5. v \in Seq(W) /\ Len(v) = n
    BY <2>3
  <2> HIDE DEF v
  <2>6. v = [x \in 1..n |-> v[x]]
    BY <1>14, <2>5
  <2>7. v = [x \in 1..n |-> <<s, r, x>>]
    BY <2>4, <2>6
  <2> QED BY <2>7 DEF v
<1> QED BY <1>10, <1>13, <1>14, <1>16, Zenon

\* Who has not returned has room for all it will get.
Unfilled ==
  /\ cnt \in Counts /\ DOMAIN out = Procs
  /\ \A r \in Procs : pc[r] # "done" => DOMAIN out[r] = 1..Total(r_cnt_(r))

\* It is so at first, and every step of either exchange keeps it so.
LEMMA InitUnfilled == Init => Unfilled
  BY DEF Init, Unfilled

\* A process returns in Deliver, and in no other step.
LEMMA DeliverStep ==
  ASSUME NEW r \in Procs, Proc(r), pc \in [Procs -> Labels]
  PROVE  /\ cnt' = cnt
         /\ \/ Deliver(r)
            \/ /\ out' = out /\ \A q \in Procs : pc'[q] = "done" <=> pc[q] = "done"
<1>1. CASE Deliver(r)
  BY <1>1 DEF Deliver
<1>2. CASE SendCounts(r)
  BY <1>2 DEF SendCounts
<1>3. CASE RecvCounts(r)
  <2>1. out' = out /\ cnt' = cnt /\ pc[r] = "counts" /\ \E l \in {"extra counts", "data"} : pc' = [pc EXCEPT ![r] = l]
    BY <1>3, Zenon DEF RecvCounts, Sendrecv
  <2> QED BY <2>1
<1>4. CASE RecvExtraCounts(r)
  <2>1. out' = out /\ cnt' = cnt /\ pc[r] = "extra counts" /\ pc' = [pc EXCEPT ![r] = "data"]
    BY <1>4, Zenon DEF RecvExtraCounts, Sendrecv
  <2> QED BY <2>1
<1>5. CASE RecvData(r)
  <2>1. out' = out /\ cnt' = cnt /\ pc[r] = "data" /\ \E l \in {"extra data", "rearrange"} : pc' = [pc EXCEPT ![r] = l]
    BY <1>5, Zenon DEF RecvData, Sendrecv
  <2> QED BY <2>1
<1>6. CASE RecvExtraData(r)
  <2>1. out' = out /\ cnt' = cnt /\ pc[r] = "extra data" /\ pc' = [pc EXCEPT ![r] = "rearrange"]
    BY <1>6, Zenon DEF RecvExtraData, Sendrecv
  <2> QED BY <2>1
<1>7. CASE Rearrange(r)
  BY <1>7 DEF Rearrange
<1> QED BY <1>1, <1>2, <1>3, <1>4, <1>5, <1>6, <1>7 DEF Proc

LEMMA UnfilledKept ==
  ASSUME Unfilled, NEW r \in Procs, Proc(r), pc \in [Procs -> Labels]
  PROVE  Unfilled'
<1>1. cnt' = cnt /\ (Deliver(r) \/ (out' = out /\ \A q \in Procs : pc'[q] = "done" <=> pc[q] = "done"))
  BY DeliverStep
<1>2. \A q : r_cnt_(q)' = r_cnt_(q)
  BY <1>1 DEF r_cnt_
<1>3. CASE Deliver(r)
  <2>1. pc' = [pc EXCEPT ![r] = "done"] /\ \E F : out' = [out EXCEPT ![r] = F]
    BY <1>3, DeliverIs DEF Unfilled
  <2>2. DOMAIN out' = Procs
    BY <2>1 DEF Unfilled
  <2>3. ASSUME NEW q \in Procs, pc'[q] # "done" PROVE DOMAIN out'[q] = 1..Total(r_cnt_(q)')
    <3>1. q # r /\ pc[q] # "done"
      BY <2>1, <2>3
    <3>2. out'[q] = out[q]
      BY <2>1, <3>1 DEF Unfilled
    <3> QED BY <1>2, <3>1, <3>2 DEF Unfilled
  <2> QED BY <1>1, <2>2, <2>3 DEF Unfilled
<1>4. CASE out' = out /\ \A q \in Procs : pc'[q] = "done" <=> pc[q] = "done"
  BY <1>1, <1>2, <1>4 DEF Unfilled
<1> QED BY <1>1, <1>3, <1>4

LEMMA UnfilledRests == Unfilled /\ UNCHANGED vars => Unfilled'
  BY DEF Unfilled, vars, r_cnt_

\* what d has got, as Alltoallv sees it
DenseGot(d) == IF pc[d] # "done" THEN <<>>
          ELSE [s \in Procs |-> SubSeq(out[d], rdisp_(d, s) + 1, rdisp_(d, s) + cnt[s][d])]

\* Deliver is what an all-to-all exchange does when a process returns.
LEMMA DenseReturns ==
  ASSUME NEW C, C = cnt, DenseInv(C), Unfilled, NEW r \in Procs, Deliver(r)
  PROVE  Abstract!Return(r)
<1> DEFINE recv == [d \in Procs |-> DenseGot(d)]
<1>1. /\ pc[r] = "round" /\ pc' = [pc EXCEPT ![r] = "done"] /\ \E F : out' = [out EXCEPT ![r] = F]
      /\ cnt' = cnt /\ pc \in [Procs -> Labels] /\ DOMAIN out = Procs /\ cnt \in Counts
      /\ DOMAIN out[r] = 1..Total(r_cnt_(r))
  <2>1. cnt' = cnt
    BY DEF Deliver
  <2>2. pc \in [Procs -> Labels]
    BY DEF DenseInv, Places
  <2>3. /\ pc[r] = "round" /\ pc' = [pc EXCEPT ![r] = "done"] /\ \E F : out' = [out EXCEPT ![r] = F]
    BY DeliverIs DEF Unfilled
  <2>4. DOMAIN out = Procs /\ cnt \in Counts /\ DOMAIN out[r] = 1..Total(r_cnt_(r))
    BY <2>3 DEF Unfilled
  <2> QED BY <2>1, <2>2, <2>3, <2>4
<1>2. \A d, s : rdisp_(d, s)' = rdisp_(d, s)
  BY <1>1 DEF rdisp_, r_cnt_
<1>3. DenseGot(r) = <<>>
  BY <1>1, Zenon DEF DenseGot
<1>4. ASSUME NEW d \in Procs, d # r PROVE DenseGot(d)' = DenseGot(d)
  <2>1. pc'[d] = pc[d] /\ out'[d] = out[d]
    BY <1>1, <1>4
  <2> QED BY <1>1, <1>2, <2>1, Zenon DEF DenseGot
<1>5. DenseGot(r)' = [s \in Procs |-> Abstract!Sent(s, r)]
  <2> DEFINE u(s) == SubSeq(out'[r], rdisp_(r, s)' + 1, rdisp_(r, s)' + cnt'[s][r])
  <2>1. DenseGot(r)' = [s \in Procs |-> u(s)]
    <3>1. pc'[r] = "done"
      BY <1>1
    <3> QED BY <3>1, Zenon DEF DenseGot
  <2>2. ASSUME NEW s \in Procs PROVE u(s) = Abstract!Sent(s, r)
    <3>1. u(s) = SubSeq(out'[r], rdisp_(r, s) + 1, rdisp_(r, s) + cnt[s][r])
      BY <1>1, <1>2, Zenon
    <3>2. SubSeq(out'[r], rdisp_(r, s) + 1, rdisp_(r, s) + cnt[s][r]) = [k \in 1..cnt[s][r] |-> <<s, r, k>>]
      BY <1>1, DeliverReturns
    <3> QED BY <3>1, <3>2, Zenon DEF Abstract!Sent
  <2> HIDE DEF u
  <2>3. [s \in Procs |-> u(s)] = [s \in Procs |-> Abstract!Sent(s, r)]
    BY <2>2, Zenon
  <2> QED BY <2>1, <2>3, Zenon
<1>6. recv' = [recv EXCEPT ![r] = [s \in Procs |-> Abstract!Sent(s, r)]]
  <2>1. recv' = [d \in Procs |-> DenseGot(d)']
    BY Zenon
  <2> QED BY <1>4, <1>5, <2>1
<1>7. recv[r] = <<>>
  BY <1>3
<1> QED BY <1>1, <1>6, <1>7, Zenon DEF Abstract!Return, Abstract!NotReturned, DenseGot

(***************************************************************************)
(* The sparse exchanges.  The sends of s to d, and the receives d posts    *)
(* for s, each list the exchanges in which s has something for d, in       *)
(* order, as far as the process has got.  Two such lists agree as far as   *)
(* both go.                                                                *)
(***************************************************************************)
\* q lists the elements of W in increasing order
Enumerates(q, W) ==
  /\ q \in Seq(Nat)
  /\ \A i, j \in DOMAIN q : i < j => q[i] < q[j]
  /\ \A i \in DOMAIN q : q[i] \in W
  /\ \A e \in W : \E i \in DOMAIN q : q[i] = e

\* A list is continued by an element above all others.
LEMMA EnumerationGrows ==
  ASSUME NEW q, NEW W, NEW e \in Nat, Enumerates(q, W), \A w \in W : w < e
  PROVE  Enumerates(Append(q, e), W \cup {e})
<1> DEFINE r == Append(q, e)
<1>1. q \in Seq(Nat) /\ Len(q) \in Nat /\ DOMAIN q = 1..Len(q)
  BY DEF Enumerates
<1>2. /\ r \in Seq(Nat) /\ DOMAIN r = 1..Len(q)+1
      /\ r[Len(q)+1] = e /\ \A i \in 1..Len(q) : r[i] = q[i]
  BY <1>1
<1> HIDE DEF r
<1>3. ASSUME NEW i \in DOMAIN r, NEW j \in DOMAIN r, i < j PROVE r[i] < r[j]
  <2>1. i \in 1..Len(q) /\ r[i] = q[i] /\ q[i] \in W
    BY <1>1, <1>2, <1>3 DEF Enumerates
  <2>2. CASE j = Len(q) + 1
    BY <1>2, <2>1, <2>2
  <2>3. CASE j \in 1..Len(q)
    BY <1>1, <1>2, <1>3, <2>1, <2>3 DEF Enumerates
  <2> QED BY <1>1, <1>2, <2>2, <2>3
<1>4. \A i \in DOMAIN r : r[i] \in W \cup {e}
  BY <1>1, <1>2 DEF Enumerates
<1>5. \A w \in W \cup {e} : \E i \in DOMAIN r : r[i] = w
  BY <1>1, <1>2 DEF Enumerates
<1> QED BY <1>2, <1>3, <1>4, <1>5 DEF Enumerates, r

\* Two lists agree as far as both go if what is below an element of one and in
\* the other is in both: at the first place where they did not, the smaller
\* element is in the other list before that place, and so in its own twice.
LEMMA EnumerationsAgree ==
  ASSUME NEW W, NEW V, NEW q, NEW r, Enumerates(q, W), Enumerates(r, V),
         \A w \in W, v \in V : (w < v => w \in V) /\ (v < w => v \in W)
  PROVE  \A k \in DOMAIN q \cap DOMAIN r : q[k] = r[k]
<1> DEFINE D == {k \in DOMAIN q \cap DOMAIN r : q[k] # r[k]}
<1>1. SUFFICES ASSUME D # {} PROVE FALSE
  OBVIOUS
<1>2. /\ q \in Seq(Nat) /\ DOMAIN q = 1..Len(q) /\ Len(q) \in Nat
      /\ r \in Seq(Nat) /\ DOMAIN r = 1..Len(r) /\ Len(r) \in Nat
  BY DEF Enumerates
<1>3. PICK k \in D : \A l \in D : k <= l
  <2>1. D \subseteq Nat
    BY <1>2
  <2> QED BY <1>1, <2>1, LeastNatural
<1>4. /\ k \in DOMAIN q /\ k \in DOMAIN r /\ q[k] # r[k] /\ q[k] \in Nat /\ r[k] \in Nat /\ k \in Nat
      /\ \A l \in DOMAIN q \cap DOMAIN r : l < k => q[l] = r[l]
  BY <1>2, <1>3
<1> HIDE DEF D
<1>5. CASE q[k] < r[k]
  <2>1. q[k] \in V
    BY <1>4, <1>5 DEF Enumerates
  <2>2. PICK p \in DOMAIN r : r[p] = q[k]
    BY <2>1 DEF Enumerates
  <2>3. p < k
    <3>1. ~(k < p)
      BY <1>2, <1>4, <1>5, <2>2 DEF Enumerates
    <3>2. p # k
      BY <1>4, <2>2
    <3> QED BY <1>2, <1>4, <3>1, <3>2
  <2>4. p \in DOMAIN q
    BY <1>2, <1>4, <2>3
  <2>5. q[p] < q[k] /\ q[p] = r[p] /\ q[p] \in Nat
    BY <1>2, <1>4, <2>3, <2>4 DEF Enumerates
  <2> QED BY <1>4, <2>2, <2>5
<1>6. CASE r[k] < q[k]
  <2>1. r[k] \in W
    BY <1>4, <1>6 DEF Enumerates
  <2>2. PICK p \in DOMAIN q : q[p] = r[k]
    BY <2>1 DEF Enumerates
  <2>3. p < k
    <3>1. ~(k < p)
      BY <1>2, <1>4, <1>6, <2>2 DEF Enumerates
    <3>2. p # k
      BY <1>4, <2>2
    <3> QED BY <1>2, <1>4, <3>1, <3>2
  <2>4. p \in DOMAIN r
    BY <1>2, <1>4, <2>3
  <2>5. r[p] < r[k] /\ q[p] = r[p] /\ r[p] \in Nat
    BY <1>2, <1>4, <2>3, <2>4 DEF Enumerates
  <2> QED BY <1>4, <2>2, <2>5
<1> QED BY <1>4, <1>5, <1>6

-----------------------------------------------------------------------------
\* the exchanges in which r has posted its sends, and its receives
SentUpTo(r) == IF step[r] \in {"receives", "sends"} THEN exch[r] - 1 ELSE exch[r]
ReceivedUpTo(r) == IF step[r] = "receives" THEN exch[r] - 1 ELSE exch[r]

\* the exchanges in which s has something for d, another process
Wanted(s, d) == {e \in 1..MaxExchanges : s # d /\ sendcnts[e][s][d] > 0}

Exchanging ==
  /\ sendcnts \in SparseExchanges
  /\ exch \in [Procs -> 1..MaxExchanges]
  /\ step \in [Procs -> {"receives", "sends", "wait", "done"}]
  /\ sends \in [Procs -> [Procs -> Seq(Nat)]]
  /\ recvs \in [Procs -> [Procs -> Seq(Nat)]]

Posted ==
  \A s, d \in Procs :
    /\ Enumerates(sends[s][d], {e \in Wanted(s, d) : e <= SentUpTo(s)})
    /\ Enumerates(recvs[d][s], {e \in Wanted(s, d) : e <= ReceivedUpTo(d)})

SparseInv == Sparse!ParametersOK /\ Exchanging /\ Posted

\* The parameters are what they should be.
LEMMA Amounts ==
  ASSUME Sparse!ParametersOK, Exchanging
  PROVE  /\ MaxExchanges \in Nat \ {0}
         /\ \A e \in 1..MaxExchanges : \A s, d \in Procs : sendcnts[e][s][d] \in Nat
  BY DEF Sparse!ParametersOK, Exchanging

\* Before the first exchange nothing is posted.
LEMMA InitPosted ==
  ASSUME Sparse!ParametersOK, Sparse!Init
  PROVE  SparseInv
<1>1. Exchanging
  BY DEF Sparse!ParametersOK, Sparse!Init, Exchanging
<1>2. Posted
  <2>1. ASSUME NEW s \in Procs, NEW d \in Procs
        PROVE  /\ sends[s][d] = <<>> /\ recvs[d][s] = <<>>
               /\ {e \in Wanted(s, d) : e <= SentUpTo(s)} = {}
               /\ {e \in Wanted(s, d) : e <= ReceivedUpTo(d)} = {}
    BY DEF Sparse!Init, SentUpTo, ReceivedUpTo, Wanted
  <2>2. Enumerates(<<>>, {})
    BY DEF Enumerates
  <2> QED BY <2>1, <2>2 DEF Posted
<1> QED BY <1>1, <1>2 DEF SparseInv

\* What a process posts in its exchange continues the list by that exchange, if
\* there is something for the other process in it, and leaves it if not.
LEMMA PostedNext ==
  ASSUME Sparse!ParametersOK, Exchanging, NEW s \in Procs, NEW d \in Procs, NEW e \in 1..MaxExchanges, NEW q,
         Enumerates(q, {x \in Wanted(s, d) : x <= e - 1})
  PROVE  Enumerates(IF s # d /\ sendcnts[e][s][d] > 0 THEN Append(q, e) ELSE q,
                    {x \in Wanted(s, d) : x <= e})
<1> DEFINE W == {x \in Wanted(s, d) : x <= e - 1}
<1>1. MaxExchanges \in Nat /\ e \in Nat
  BY Amounts
<1>2. CASE s # d /\ sendcnts[e][s][d] > 0
  <2>1. {x \in Wanted(s, d) : x <= e} = W \cup {e}
    BY <1>1, <1>2 DEF Wanted
  <2>2. \A w \in W : w < e
    BY <1>1 DEF Wanted
  <2> QED BY <1>1, <1>2, <2>1, <2>2, EnumerationGrows
<1>3. CASE ~(s # d /\ sendcnts[e][s][d] > 0)
  <2>1. {x \in Wanted(s, d) : x <= e} = W
    BY <1>1, <1>3 DEF Wanted
  <2> QED BY <1>3, <2>1
<1> QED BY <1>2, <1>3

\* The receives of an exchange.
LEMMA PostReceivesPosted ==
  ASSUME SparseInv, NEW r \in Procs, Sparse!PostReceives(r)
  PROVE  SparseInv'
<1> DEFINE e == exch[r]
<1>1. /\ e \in 1..MaxExchanges /\ step[r] = "receives" /\ MaxExchanges \in Nat \ {0}
      /\ step' = [step EXCEPT ![r] = "sends"]
      /\ recvs' = [recvs EXCEPT ![r] = [s \in Procs |->
           IF s \in Sparse!Others(r) /\ sendcnts[exch[r]][s][r] > 0
           THEN Append(recvs[r][s], exch[r]) ELSE recvs[r][s]]]
      /\ sendcnts' = sendcnts /\ exch' = exch /\ sends' = sends
  BY Amounts DEF Sparse!PostReceives, Sparse!Goto, SparseInv, Exchanging
<1>2. Exchanging'
  <2>1. \A s \in Procs : recvs'[r][s] \in Seq(Nat)
    BY <1>1 DEF SparseInv, Exchanging
  <2>2. recvs' \in [Procs -> [Procs -> Seq(Nat)]]
    BY <1>1, <2>1 DEF SparseInv, Exchanging
  <2> QED BY <1>1, <2>2 DEF SparseInv, Exchanging
<1>3. ASSUME NEW s \in Procs, NEW d \in Procs
      PROVE  Wanted(s, d)' = Wanted(s, d)
  BY <1>1 DEF Wanted
<1>4. ASSUME NEW s \in Procs, NEW d \in Procs
      PROVE  Enumerates(sends'[s][d], {x \in Wanted(s, d) : x <= SentUpTo(s)'})
  <2>1. SentUpTo(s)' = SentUpTo(s)
    BY <1>1 DEF SentUpTo, SparseInv, Exchanging
  <2> QED BY <1>1, <2>1 DEF SparseInv, Posted
<1>5. ASSUME NEW s \in Procs, NEW d \in Procs
      PROVE  Enumerates(recvs'[d][s], {x \in Wanted(s, d) : x <= ReceivedUpTo(d)'})
  <2>1. CASE d = r
    <3>1. ReceivedUpTo(d) = e - 1 /\ ReceivedUpTo(d)' = e
      BY <1>1, <2>1 DEF ReceivedUpTo, SparseInv, Exchanging
    <3>2. Enumerates(recvs[d][s], {x \in Wanted(s, d) : x <= e - 1})
      BY <3>1 DEF SparseInv, Posted
    <3>3. recvs'[d][s] = IF s # d /\ sendcnts[e][s][d] > 0 THEN Append(recvs[d][s], e) ELSE recvs[d][s]
      BY <1>1, <2>1 DEF SparseInv, Exchanging, Sparse!Others
    <3>4. Sparse!ParametersOK /\ Exchanging
      BY DEF SparseInv
    <3> HIDE DEF e
    <3> QED BY <1>1, <3>1, <3>2, <3>3, <3>4, PostedNext
  <2>2. CASE d # r
    <3>1. ReceivedUpTo(d)' = ReceivedUpTo(d) /\ recvs'[d][s] = recvs[d][s]
      BY <1>1, <2>2 DEF ReceivedUpTo, SparseInv, Exchanging
    <3> QED BY <3>1 DEF SparseInv, Posted
  <2> QED BY <2>1, <2>2
<1>6. Posted'
  BY <1>3, <1>4, <1>5 DEF Posted
<1>7. Sparse!ParametersOK'
  BY DEF SparseInv, Sparse!ParametersOK
<1> QED BY <1>2, <1>6, <1>7 DEF SparseInv

\* The sends of an exchange.
LEMMA PostSendsPosted ==
  ASSUME SparseInv, NEW r \in Procs, Sparse!PostSends(r)
  PROVE  SparseInv'
<1> DEFINE e == exch[r]
<1>1. /\ e \in 1..MaxExchanges /\ step[r] = "sends" /\ MaxExchanges \in Nat \ {0}
      /\ step' = [step EXCEPT ![r] = "wait"]
      /\ sends' = [sends EXCEPT ![r] = [d \in Procs |->
           IF d \in Sparse!Others(r) /\ sendcnts[exch[r]][r][d] > 0
           THEN Append(sends[r][d], exch[r]) ELSE sends[r][d]]]
      /\ sendcnts' = sendcnts /\ exch' = exch /\ recvs' = recvs
  BY Amounts DEF Sparse!PostSends, Sparse!Goto, SparseInv, Exchanging
<1>2. Exchanging'
  <2>1. \A d \in Procs : sends'[r][d] \in Seq(Nat)
    BY <1>1 DEF SparseInv, Exchanging
  <2>2. sends' \in [Procs -> [Procs -> Seq(Nat)]]
    BY <1>1, <2>1 DEF SparseInv, Exchanging
  <2> QED BY <1>1, <2>2 DEF SparseInv, Exchanging
<1>3. ASSUME NEW s \in Procs, NEW d \in Procs
      PROVE  Wanted(s, d)' = Wanted(s, d)
  BY <1>1 DEF Wanted
<1>4. ASSUME NEW s \in Procs, NEW d \in Procs
      PROVE  Enumerates(recvs'[d][s], {x \in Wanted(s, d) : x <= ReceivedUpTo(d)'})
  <2>1. ReceivedUpTo(d)' = ReceivedUpTo(d)
    BY <1>1 DEF ReceivedUpTo, SparseInv, Exchanging
  <2> QED BY <1>1, <2>1 DEF SparseInv, Posted
<1>5. ASSUME NEW s \in Procs, NEW d \in Procs
      PROVE  Enumerates(sends'[s][d], {x \in Wanted(s, d) : x <= SentUpTo(s)'})
  <2>1. CASE s = r
    <3>1. SentUpTo(s) = e - 1 /\ SentUpTo(s)' = e
      BY <1>1, <2>1 DEF SentUpTo, SparseInv, Exchanging
    <3>2. Enumerates(sends[s][d], {x \in Wanted(s, d) : x <= e - 1})
      BY <3>1 DEF SparseInv, Posted
    <3>3. sends'[s][d] = IF s # d /\ sendcnts[e][s][d] > 0 THEN Append(sends[s][d], e) ELSE sends[s][d]
      BY <1>1, <2>1 DEF SparseInv, Exchanging, Sparse!Others
    <3>4. Sparse!ParametersOK /\ Exchanging
      BY DEF SparseInv
    <3> HIDE DEF e
    <3> QED BY <1>1, <3>1, <3>2, <3>3, <3>4, PostedNext
  <2>2. CASE s # r
    <3>1. SentUpTo(s)' = SentUpTo(s) /\ sends'[s][d] = sends[s][d]
      BY <1>1, <2>2 DEF SentUpTo, SparseInv, Exchanging
    <3> QED BY <3>1 DEF SparseInv, Posted
  <2> QED BY <2>1, <2>2
<1>6. Posted'
  BY <1>3, <1>4, <1>5 DEF Posted
<1>7. Sparse!ParametersOK'
  BY DEF SparseInv, Sparse!ParametersOK
<1> QED BY <1>2, <1>6, <1>7 DEF SparseInv

\* Returning from an exchange, or going into the next, posts nothing.
LEMMA WaitAllPosted ==
  ASSUME SparseInv, NEW r \in Procs, Sparse!WaitAll(r)
  PROVE  SparseInv'
<1>1. /\ step[r] = "wait" /\ MaxExchanges \in Nat \ {0} /\ exch[r] \in 1..MaxExchanges
      /\ sendcnts' = sendcnts /\ sends' = sends /\ recvs' = recvs
  BY Amounts DEF Sparse!WaitAll, SparseInv, Exchanging
<1>2. \/ exch' = exch /\ step' = [step EXCEPT ![r] = "done"]
      \/ exch[r] # MaxExchanges /\ exch' = [exch EXCEPT ![r] = exch[r] + 1]
         /\ step' = [step EXCEPT ![r] = "receives"]
  BY DEF Sparse!WaitAll, Sparse!Goto
<1>3. Exchanging'
  <2>1. exch' \in [Procs -> 1..MaxExchanges]
    <3>1. exch[r] # MaxExchanges => exch[r] + 1 \in 1..MaxExchanges
      BY <1>1
    <3> QED BY <1>2, <3>1 DEF SparseInv, Exchanging
  <2>2. step' \in [Procs -> {"receives", "sends", "wait", "done"}]
    BY <1>2 DEF SparseInv, Exchanging
  <2> QED BY <1>1, <2>1, <2>2 DEF SparseInv, Exchanging
<1>4. ASSUME NEW s \in Procs
      PROVE  SentUpTo(s)' = SentUpTo(s) /\ ReceivedUpTo(s)' = ReceivedUpTo(s)
  BY <1>1, <1>2 DEF SentUpTo, ReceivedUpTo, SparseInv, Exchanging
<1>5. ASSUME NEW s \in Procs, NEW d \in Procs
      PROVE  Wanted(s, d)' = Wanted(s, d)
  BY <1>1 DEF Wanted
<1>6. Posted'
  BY <1>1, <1>4, <1>5 DEF Posted, SparseInv
<1>7. Sparse!ParametersOK'
  BY DEF SparseInv, Sparse!ParametersOK
<1> QED BY <1>3, <1>6, <1>7 DEF SparseInv

\* Each step of any process keeps the lists, and so does a step of the dense
\* exchange.
LEMMA SparseKeeps ==
  ASSUME SparseInv, NEW r \in Procs, Sparse!Proc(r)
  PROVE  SparseInv'
  BY PostReceivesPosted, PostSendsPosted, WaitAllPosted DEF Sparse!Proc

LEMMA SparseRests == SparseInv /\ UNCHANGED sparseVars => SparseInv'
<1> SUFFICES ASSUME SparseInv, UNCHANGED sparseVars PROVE SparseInv'
  OBVIOUS
<1>1. Exchanging'
  BY DEF sparseVars, SparseInv, Exchanging
<1>2. ASSUME NEW s \in Procs, NEW d \in Procs
      PROVE  /\ Wanted(s, d)' = Wanted(s, d)
             /\ SentUpTo(s)' = SentUpTo(s) /\ ReceivedUpTo(d)' = ReceivedUpTo(d)
  BY DEF sparseVars, Wanted, SentUpTo, ReceivedUpTo
<1>3. Posted'
  BY <1>2 DEF sparseVars, SparseInv, Posted
<1>4. Sparse!ParametersOK'
  BY DEF SparseInv, Sparse!ParametersOK
<1> QED BY <1>1, <1>3, <1>4 DEF SparseInv

\* The k-th send of s to d and the k-th receive of d from s, which MPI matches,
\* are of one exchange.
LEMMA SparseApart == SparseInv => Sparse!ExchangesApart
<1> SUFFICES ASSUME SparseInv, NEW s \in Procs, NEW d \in Procs,
                    NEW k \in DOMAIN sends[s][d] \cap DOMAIN recvs[d][s]
             PROVE  sends[s][d][k] = recvs[d][s][k]
  BY DEF Sparse!ExchangesApart
<1>1. SentUpTo(s) \in Nat /\ ReceivedUpTo(d) \in Nat
  <2>1. exch[s] \in 1..MaxExchanges /\ exch[d] \in 1..MaxExchanges /\ MaxExchanges \in Nat
    BY Amounts DEF SparseInv, Exchanging
  <2> QED BY <2>1 DEF SentUpTo, ReceivedUpTo
<1>2. /\ Enumerates(sends[s][d], {e \in Wanted(s, d) : e <= SentUpTo(s)})
      /\ Enumerates(recvs[d][s], {e \in Wanted(s, d) : e <= ReceivedUpTo(d)})
  BY DEF SparseInv, Posted
<1> DEFINE W == {e \in Wanted(s, d) : e <= SentUpTo(s)}
           V == {e \in Wanted(s, d) : e <= ReceivedUpTo(d)}
<1>3. \A w \in W, v \in V : (w < v => w \in V) /\ (v < w => v \in W)
  BY <1>1, Amounts DEF Wanted, SparseInv
<1> HIDE DEF W, V
<1> QED BY <1>2, <1>3, EnumerationsAgree DEF W, V

-----------------------------------------------------------------------------
\* What a sparse exchange returns with.
\* A process has nothing from the exchange it is in, nor from those to come.
Unreceived ==
  /\ DOMAIN recvbuf = Procs
  /\ \A r \in Procs :
       /\ DOMAIN recvbuf[r] = 1..MaxExchanges
       /\ \A e \in 1..MaxExchanges :
            (exch[r] < e \/ (exch[r] = e /\ step[r] # "done")) => recvbuf[r][e] = <<>>

\* It is so at first, and every step of either exchange keeps it so.
LEMMA InitUnreceived == Sparse!Init => Unreceived
  BY DEF Sparse!Init, Unreceived, Sparse!NotReturned

LEMMA UnreceivedKept ==
  ASSUME SparseInv, Unreceived, NEW r \in Procs, Sparse!Proc(r)
  PROVE  Unreceived'
<1>1. \A q \in Procs : exch[q] \in 1..MaxExchanges /\ MaxExchanges \in Nat
  BY Amounts DEF SparseInv, Exchanging
<1>2. CASE Sparse!PostReceives(r) \/ Sparse!PostSends(r)
  <2>1. /\ recvbuf' = recvbuf /\ exch' = exch /\ step[r] # "done"
        /\ \A q \in Procs : q # r => step'[q] = step[q]
    BY <1>2 DEF Sparse!PostReceives, Sparse!PostSends, Sparse!Goto, SparseInv, Exchanging
  <2> QED BY <2>1 DEF Unreceived
<1>3. CASE Sparse!WaitAll(r)
  <2>1. PICK e, t : e = exch[r] /\ step[r] = "wait" /\ recvbuf' = [recvbuf EXCEPT ![r][e] = t]
    BY <1>3 DEF Sparse!WaitAll
  <2>2. \/ exch' = exch /\ step' = [step EXCEPT ![r] = "done"]
        \/ exch' = [exch EXCEPT ![r] = e + 1] /\ step' = [step EXCEPT ![r] = "receives"]
    BY <1>3, <2>1 DEF Sparse!WaitAll, Sparse!Goto
  <2>3. /\ DOMAIN recvbuf' = Procs
        /\ \A q \in Procs : DOMAIN recvbuf'[q] = 1..MaxExchanges
        /\ \A q \in Procs : \A x \in 1..MaxExchanges :
             q # r \/ x # e => recvbuf'[q][x] = recvbuf[q][x]
    BY <2>1 DEF Unreceived
  <2>4. ASSUME NEW q \in Procs, NEW x \in 1..MaxExchanges,
               exch'[q] < x \/ (exch'[q] = x /\ step'[q] # "done")
        PROVE  recvbuf'[q][x] = <<>>
    <3>1. CASE q # r
      <4>1. exch'[q] = exch[q] /\ step'[q] = step[q]
        BY <2>2, <3>1 DEF SparseInv, Exchanging
      <4> QED BY <2>3, <2>4, <3>1, <4>1 DEF Unreceived
    <3>2. CASE q = r
      <4>1. e \in Nat /\ x \in Nat /\ e = exch[r]
        BY <1>1, <2>1
      <4>2. e < x
        BY <2>2, <2>4, <3>2, <4>1 DEF SparseInv, Exchanging
      <4> QED BY <2>3, <3>2, <4>1, <4>2 DEF Unreceived
    <3> QED BY <3>1, <3>2
  <2> QED BY <2>3, <2>4 DEF Unreceived
<1> QED BY <1>2, <1>3 DEF Sparse!Proc

LEMMA UnreceivedRests == Unreceived /\ UNCHANGED sparseVars => Unreceived'
  BY DEF Unreceived, sparseVars

\* The last receive a process has posted from another that has something for it
\* is that of its exchange, and so is the send it matches.
LEMMA GotIs ==
  ASSUME SparseInv, NEW r \in Procs, Sparse!WaitAll(r), NEW s \in Procs
  PROVE  Sparse!Got(r, s) = Sparse!Elements(exch[r], s, r)
<1> DEFINE e == exch[r]  q == recvs[r][s]  p == sends[s][r]  n == Len(q)
<1>1. e \in 1..MaxExchanges /\ MaxExchanges \in Nat /\ sendcnts[e][s][r] \in Nat
  BY Amounts DEF SparseInv, Exchanging
<1>2. CASE sendcnts[e][s][r] = 0
  <2>1. Sparse!Elements(e, s, r) = <<>>
    BY <1>2 DEF Sparse!Elements
  <2> QED BY <1>2, <2>1 DEF Sparse!Got
<1>3. CASE sendcnts[e][s][r] # 0 /\ s = r
  BY <1>3 DEF Sparse!Got
<1>4. CASE sendcnts[e][s][r] # 0 /\ s # r
  <2>1. step[r] = "wait" /\ Len(p) >= n
    BY DEF Sparse!WaitAll, Sparse!AllMatched
  <2>2. Enumerates(q, {x \in Wanted(s, r) : x <= e})
    BY <2>1 DEF SparseInv, Posted, ReceivedUpTo
  <2>3. e \in {x \in Wanted(s, r) : x <= e}
    BY <1>1, <1>4 DEF Wanted
  <2>4. q \in Seq(Nat) /\ p \in Seq(Nat)
    BY DEF SparseInv, Exchanging
  <2>5. n \in DOMAIN q /\ q[n] = e
    <3>1. PICK i \in DOMAIN q : q[i] = e
      BY <2>2, <2>3 DEF Enumerates
    <3>2. n \in DOMAIN q /\ i <= n /\ i \in Nat /\ n \in Nat
      BY <2>4, <3>1
    <3>3. q[n] <= e /\ q[n] \in Nat
      BY <2>2, <2>4, <3>2 DEF Enumerates
    <3>4. i < n => e < q[n]
      BY <2>2, <3>1, <3>2 DEF Enumerates
    <3> QED BY <1>1, <3>1, <3>2, <3>3, <3>4
  <2>6. n \in DOMAIN p \cap DOMAIN q
    BY <2>1, <2>4, <2>5
  <2>7. p[n] = e
    BY <2>5, <2>6, SparseApart DEF Sparse!ExchangesApart
  <2>8. Sparse!Got(r, s) = Sparse!Elements(p[n], s, r)
    BY <1>4, Zenon DEF Sparse!Got
  <2> QED BY <2>7, <2>8
<1> QED BY <1>2, <1>3, <1>4

\* what the exchange of the processes <<e, r>> sees
SparseGot(d) == IF recvbuf[d[2]][d[1]] = <<>> THEN <<>>
           ELSE [s \in Sparse!Each |-> IF s[1] = d[1] THEN recvbuf[d[2]][d[1]][s[2]] ELSE <<>>]
SparseCounts(s, d) == IF s[1] = d[1] THEN sendcnts[s[1]][s[2]][d[2]] ELSE 0

\* WaitAll is what an all-to-all exchange does when a process returns.
LEMMA SparseReturns ==
  ASSUME SparseInv, Unreceived, NEW r \in Procs, Sparse!WaitAll(r)
  PROVE  \E d \in Sparse!Each : Sparse!Abstract!Return(d)
<1> DEFINE E == Sparse!Each
           recv == [d \in E |-> SparseGot(d)]
           counts == [s \in E |-> [d \in E |-> SparseCounts(s, d)]]
<1>1. PICK e : e = exch[r]
  OBVIOUS
<1>2. PICK t : t = [s \in Procs |-> Sparse!Elements(e, s, r)]
  OBVIOUS
<1>3. /\ step[r] = "wait" /\ sendcnts' = sendcnts
      /\ recvbuf' = [recvbuf EXCEPT ![r][e] = [s \in Procs |-> Sparse!Got(r, s)]]
  BY <1>1, Zenon DEF Sparse!WaitAll
<1>4. e \in 1..MaxExchanges /\ 0 \in Procs
  BY <1>1, ProcsNat DEF SparseInv, Exchanging
<1>5. [s \in Procs |-> Sparse!Got(r, s)] = t
  <2>1. \A s \in Procs : Sparse!Got(r, s) = Sparse!Elements(e, s, r)
    BY <1>1, GotIs
  <2> QED BY <1>2, <2>1
<1>6. recvbuf' = [recvbuf EXCEPT ![r][e] = t] /\ recvbuf[r][e] = <<>> /\ t # <<>>
  <2>1. t # <<>>
    <3>1. 0 \in DOMAIN t
      BY <1>2, <1>4
    <3>2. DOMAIN <<>> = {}
      OBVIOUS
    <3> QED BY <3>1, <3>2
  <2>2. recvbuf[r][e] = <<>>
    BY <1>1, <1>3, <1>4 DEF Unreceived
  <2> QED BY <1>3, <1>5, <2>1, <2>2
<1>7. /\ recvbuf'[r][e] = t
      /\ \A q \in Procs, x \in 1..MaxExchanges : q # r \/ x # e => recvbuf'[q][x] = recvbuf[q][x]
  BY <1>4, <1>6 DEF Unreceived
<1> DEFINE D == <<e, r>>
<1>8. D \in E /\ D[1] = e /\ D[2] = r
  BY <1>4 DEF Sparse!Each
<1>9. \A d \in E : d[1] \in 1..MaxExchanges /\ d[2] \in Procs /\ d = <<d[1], d[2]>>
  BY DEF Sparse!Each
<1>10. SparseGot(D) = <<>>
  BY <1>6, <1>8, Zenon DEF SparseGot
<1>11. ASSUME NEW d \in E, d # D PROVE SparseGot(d)' = SparseGot(d)
  <2>1. d[2] # r \/ d[1] # e
    BY <1>9, <1>11
  <2>2. recvbuf'[d[2]][d[1]] = recvbuf[d[2]][d[1]]
    BY <1>7, <1>9, <2>1
  <2> QED BY <2>2, Zenon DEF SparseGot, Sparse!Each
<1>12. SparseGot(D)' = [s \in E |-> Sparse!Abstract!Sent(s, D)]
  <2> DEFINE u(s) == IF s[1] = D[1] THEN recvbuf'[D[2]][D[1]][s[2]] ELSE <<>>
  <2>0. recvbuf'[D[2]][D[1]] = t
    BY <1>7, <1>8, Zenon
  <2>1. SparseGot(D)' = [s \in E |-> u(s)]
    <3>1. SparseGot(D)' = IF recvbuf'[D[2]][D[1]] = <<>> THEN <<>> ELSE [s \in E |-> u(s)]
      BY Zenon DEF SparseGot, Sparse!Each
    <3> QED BY <1>6, <2>0, <3>1, Zenon
  <2>2. ASSUME NEW s \in E PROVE u(s) = Sparse!Abstract!Sent(s, D)
    <3>0. u(s) = IF s[1] = e THEN t[s[2]] ELSE <<>>
      BY <1>8, <2>0, Zenon
    <3>1. Sparse!Abstract!Sent(s, D) = [k \in 1..counts[s][D] |-> <<s, D, k>>]
      BY Zenon DEF Sparse!Abstract!Sent, SparseCounts
    <3>2. counts[s][D] = SparseCounts(s, D)
      BY <1>8
    <3>3. CASE s[1] = e
      <4>1. s = <<e, s[2]>> /\ s[2] \in Procs
        BY <1>9, <3>3
      <4>2. t[s[2]] = [k \in 1..sendcnts[e][s[2]][r] |-> <<<<e, s[2]>>, D, k>>]
        BY <1>2, <4>1 DEF Sparse!Elements
      <4>3. SparseCounts(s, D) = sendcnts[e][s[2]][r]
        BY <1>8, <3>3, Zenon DEF SparseCounts
      <4>4. t[s[2]] = [k \in 1..counts[s][D] |-> <<s, D, k>>]
        BY <3>2, <4>1, <4>2, <4>3, Zenon
      <4> QED BY <3>0, <3>1, <3>3, <4>4, Zenon
    <3>4. CASE s[1] # e
      <4>1. counts[s][D] = 0
        BY <1>8, <3>2, <3>4, Zenon DEF SparseCounts
      <4>2. [k \in 1..0 |-> <<s, D, k>>] = <<>>
        OBVIOUS
      <4> QED BY <3>0, <3>1, <3>4, <4>1, <4>2, Zenon
    <3> QED BY <3>3, <3>4
  <2>3. [s \in E |-> u(s)] = [s \in E |-> Sparse!Abstract!Sent(s, D)]
    BY <2>2, Zenon
  <2> QED BY <2>1, <2>3, Zenon
<1>13. counts' = counts
  BY <1>3, Zenon DEF SparseCounts, Sparse!Each
<1>14. recv' = [recv EXCEPT ![D] = [s \in E |-> Sparse!Abstract!Sent(s, D)]]
  <2>1. recv' = [d \in E |-> SparseGot(d)']
    BY Zenon DEF Sparse!Each
  <2> HIDE DEF E, D
  <2> QED BY <1>8, <1>11, <1>12, <2>1
<1>15. recv[D] = <<>>
  BY <1>8, <1>10, Zenon
<1>16. Sparse!Abstract!Return(D)
  BY <1>13, <1>14, <1>15, Zenon DEF Sparse!Abstract!Return, Sparse!Abstract!NotReturned, Sparse!NotReturned, SparseGot, SparseCounts
<1> QED BY <1>8, <1>16, Zenon

-----------------------------------------------------------------------------
(***************************************************************************)
(* The exchanges together: a step of one kind leaves the other as it was.  *)
(***************************************************************************)
IInv == SparseInv /\ Unreceived /\ Unfilled /\ \E C : C = cnt /\ DenseInv(C)

\* The invariant of the exchanges: how far the two ends of every dense channel
\* are says what is in it, and the sends and the receives of sparse exchanges
\* list the same exchanges.
THEOREM Invariance == ExchangesSpec => []IInv
<1>1. ExchangesInit => IInv
  <2> SUFFICES ASSUME ExchangesInit PROVE IInv
    OBVIOUS
  <2>1. PICK C : C = cnt
    OBVIOUS
  <2>2. DenseInv(C)
    BY <2>1, InitDense DEF ExchangesInit
  <2>3. SparseInv /\ Unreceived /\ Unfilled
    BY InitPosted, InitUnreceived, InitUnfilled, SparseAssumption DEF ExchangesInit
  <2> QED BY <2>1, <2>2, <2>3 DEF IInv
<1>2. IInv /\ [ExchangesNext]_allVars => IInv'
  <2> SUFFICES ASSUME IInv, [ExchangesNext]_allVars PROVE IInv'
    OBVIOUS
  <2>1. PICK C : C = cnt /\ DenseInv(C)
    BY DEF IInv
  <2>2. SparseInv /\ Unreceived /\ Unfilled /\ pc \in [Procs -> Labels]
    BY <2>1 DEF IInv, DenseInv, Places
  <2>3. cnt' = cnt
    BY DEF ExchangesNext, allVars, vars, SparseStep, DenseStep, Proc, SendCounts, RecvCounts,
           RecvExtraCounts, RecvData, RecvExtraData, Rearrange, Deliver, Returned
  <2> DEFINE Goal == SparseInv' /\ Unreceived' /\ Unfilled' /\ DenseInv(C)'
  <2>4. Goal
    <3>1. ASSUME NEW r \in Procs, SparseStep(r) PROVE Goal
      <4>1. Sparse!Proc(r) /\ UNCHANGED vars
        BY <3>1 DEF SparseStep
      <4>2. SparseInv' /\ Unreceived'
        BY <2>2, <4>1, SparseKeeps, UnreceivedKept
      <4> QED BY <2>1, <2>2, <4>1, <4>2, NobodyMoves, UnfilledRests
    <3>2. ASSUME NEW r \in Procs, DenseStep(r) PROVE Goal
      <4>1. Proc(r) /\ UNCHANGED sparseVars
        BY <3>2 DEF DenseStep
      <4>2. DenseInv(C)' /\ Unfilled'
        BY <2>1, <2>2, <4>1, ProcKeeps, UnfilledKept
      <4> QED BY <2>2, <4>1, <4>2, SparseRests, UnreceivedRests
    <3>3. ASSUME UNCHANGED vars, UNCHANGED sparseVars PROVE Goal
      BY <2>1, <2>2, <3>3, NobodyMoves, UnfilledRests, SparseRests, UnreceivedRests
    <3>4. \/ \E r \in Procs : SparseStep(r) \/ DenseStep(r)
          \/ UNCHANGED vars /\ UNCHANGED sparseVars
      BY DEF ExchangesNext, Returned, allVars
    <3> HIDE DEF Goal
    <3> QED BY <3>1, <3>2, <3>3, <3>4
  <2> QED BY <2>1, <2>3, <2>4 DEF IInv
<1> QED BY <1>1, <1>2, PTL DEF ExchangesSpec

\* Whatever the number of processes, what they send each other, and how far
\* they run ahead: a dense message that is taken is lengths where lengths are
\* expected, as many as there is room for, and data of the length announced,
\* and a sparse message is received in the exchange it was sent in.
THEOREM MessagesAlwaysMatch == ExchangesSpec => []AllMatch
<1>1. IInv => AllMatch
  BY DenseMatch, SparseApart DEF IInv, AllMatch
<1> QED BY <1>1, Invariance, PTL

\* Between its rounds a process has for every process of its range the words of
\* that process only, none of them twice, from whichever partners they came.
THEOREM SegmentsAlwaysAddressed == ExchangesSpec => []SegmentsAddressed
<1>1. IInv => SegmentsAddressed
  BY DenseAddressed DEF IInv
<1> QED BY <1>1, Invariance, PTL

\* So does the dense one: a process returns once, and then has what every
\* process sends it at the place of its sender, after rounds in which the blocks
\* went through other processes.
THEOREM DenseDelivers == ExchangesSpec => Abstract!Steps
<1>1. ExchangesInit => Abstract!Init
  <2> SUFFICES ASSUME ExchangesInit PROVE Abstract!Init
    OBVIOUS
  <2>1. \A d \in Procs : DenseGot(d) = <<>>
    BY DEF ExchangesInit, Init, DenseGot
  <2>2. [d \in Procs |-> DenseGot(d)] = [d \in Procs |-> <<>>]
    BY <2>1, Zenon
  <2> QED BY <2>2, Zenon DEF Abstract!Init, Abstract!NotReturned, DenseGot
<1>2. IInv /\ [ExchangesNext]_allVars
        => (\E d \in Procs : Abstract!Return(d)) \/ UNCHANGED <<cnt, [d \in Procs |-> DenseGot(d)]>>
  <2> SUFFICES ASSUME IInv, [ExchangesNext]_allVars
               PROVE  \/ \E d \in Procs : Abstract!Return(d)
                      \/ UNCHANGED <<cnt, [d \in Procs |-> DenseGot(d)]>>
    OBVIOUS
  <2>1. PICK C : C = cnt /\ DenseInv(C)
    BY DEF IInv
  <2>2. Unfilled /\ pc \in [Procs -> Labels]
    BY <2>1 DEF IInv, DenseInv, Places
  <2>3. \/ \E r \in Procs : Deliver(r)
        \/ cnt' = cnt /\ out' = out /\ \A d \in Procs : pc'[d] = "done" <=> pc[d] = "done"
    <3>1. \/ \E r \in Procs : Proc(r)
          \/ UNCHANGED vars
      BY DEF ExchangesNext, allVars, SparseStep, DenseStep, Returned
    <3>2. CASE \E r \in Procs : Proc(r)
      BY <2>2, <3>2, DeliverStep
    <3>3. CASE UNCHANGED vars
      BY <3>3 DEF vars
    <3> QED BY <3>1, <3>2, <3>3
  <2>4. CASE \E r \in Procs : Deliver(r)
    BY <2>1, <2>2, <2>4, DenseReturns
  <2>5. CASE cnt' = cnt /\ out' = out /\ \A d \in Procs : pc'[d] = "done" <=> pc[d] = "done"
    <3>1. \A d, s : rdisp_(d, s)' = rdisp_(d, s)
      BY <2>5 DEF rdisp_, r_cnt_
    <3>2. ASSUME NEW d \in Procs PROVE DenseGot(d)' = DenseGot(d)
      BY <2>5, <3>1, Zenon DEF DenseGot
    <3>3. [d \in Procs |-> DenseGot(d)]' = [d \in Procs |-> DenseGot(d)]
      BY <3>2, Zenon
    <3> QED BY <2>5, <3>3
  <2> QED BY <2>3, <2>4, <2>5
<1>3. IInv /\ [ExchangesNext]_allVars
        => [\E d \in Procs : Abstract!Return(d)]_<<cnt,
             [d \in Procs |-> IF pc[d] # "done" THEN <<>>
                ELSE [s \in Procs |-> SubSeq(out[d], rdisp_(d, s) + 1, rdisp_(d, s) + cnt[s][d])]]>>
  BY <1>2, Zenon DEF DenseGot
<1> QED BY <1>1, <1>3, Invariance, PTL DEF ExchangesSpec, Abstract!Steps

\* The sparse exchanges do what an all-to-all exchange may do: a process returns
\* from each of them once, and then has from every process what that one sends
\* it in that exchange, elements in order, however far the others are.
THEOREM SparseDelivers == ExchangesSpec => Sparse!Abstract!Steps
<1> DEFINE E == Sparse!Each
           recv == [d \in E |-> SparseGot(d)]
           counts == [s \in E |-> [d \in E |-> SparseCounts(s, d)]]
<1>1. ExchangesInit => Sparse!Abstract!Init
  <2> SUFFICES ASSUME ExchangesInit PROVE Sparse!Abstract!Init
    OBVIOUS
  <2>1. \A d \in E : d[1] \in 1..MaxExchanges /\ d[2] \in Procs
    BY DEF Sparse!Each
  <2>2. \A d \in E : SparseGot(d) = <<>>
    BY <2>1 DEF ExchangesInit, Sparse!Init, SparseGot, Sparse!NotReturned
  <2>3. recv = [d \in E |-> <<>>]
    BY <2>2, Zenon
  <2> QED BY <2>3, Zenon DEF Sparse!Abstract!Init, Sparse!Abstract!NotReturned, Sparse!NotReturned, SparseGot
<1>2. SparseInv /\ Unreceived /\ [ExchangesNext]_allVars
        => (\E d \in E : Sparse!Abstract!Return(d)) \/ UNCHANGED <<counts, recv>>
  <2> SUFFICES ASSUME SparseInv, Unreceived, [ExchangesNext]_allVars
               PROVE  (\E d \in E : Sparse!Abstract!Return(d)) \/ UNCHANGED <<counts, recv>>
    OBVIOUS
  <2>1. \/ \E r \in Procs : Sparse!WaitAll(r)
        \/ recvbuf' = recvbuf /\ sendcnts' = sendcnts
    BY Zenon DEF ExchangesNext, allVars, sparseVars, SparseStep, DenseStep, Sparse!Proc,
                 Sparse!PostReceives, Sparse!PostSends
  <2>2. CASE \E r \in Procs : Sparse!WaitAll(r)
    BY <2>2, SparseReturns
  <2>3. CASE recvbuf' = recvbuf /\ sendcnts' = sendcnts
    <3>1. recv' = recv /\ counts' = counts
      BY <2>3, Zenon DEF SparseGot, SparseCounts, Sparse!Each
    <3> QED BY <3>1, Zenon
  <2> QED BY <2>1, <2>2, <2>3
<1>3. SparseInv /\ Unreceived /\ [ExchangesNext]_allVars
        => [\E d \in Sparse!Each : Sparse!Abstract!Return(d)]_<<
             [s \in Sparse!Each |-> [d \in Sparse!Each |-> IF s[1] = d[1] THEN sendcnts[s[1]][s[2]][d[2]] ELSE 0]],
             [d \in Sparse!Each |-> IF recvbuf[d[2]][d[1]] = Sparse!NotReturned THEN Sparse!NotReturned
                ELSE [s \in Sparse!Each |-> IF s[1] = d[1] THEN recvbuf[d[2]][d[1]][s[2]] ELSE <<>>]]>>
  BY <1>2, Zenon DEF SparseGot, SparseCounts, Sparse!NotReturned
<1>4. IInv => SparseInv /\ Unreceived
  BY DEF IInv
<1> QED BY <1>1, <1>3, <1>4, Invariance, PTL DEF ExchangesSpec, Sparse!Abstract!Steps
=============================================================================
