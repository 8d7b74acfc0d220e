----------------------- MODULE GaloisSampleSortProofs -----------------------
(***************************************************************************)
(* The Galois sample sort, for every number of threads that is asked for,  *)
(* every number that is granted, every input and whatever unwritten memory *)
(* holds: the buckets take the blocks apart, and the iterations that copy  *)
(* them write disjoint parts of a bucket.                                  *)
(*                                                                         *)
(* BucketsTile speaks of the end of the second loop over the blocks only.  *)
(* The inductive invariant follows the phases: the blocks are cut, then    *)
(* sorted, then the bounds rise, then index_mat and size describe the      *)
(* blocks of the iterations that have run.                                 *)
(***************************************************************************)
EXTENDS GaloisSampleSort, FunctionTheorems, FiniteSetTheorems, SequenceTheorems,
        WellFoundedInduction, TLAPS

Rising(s, len) == \A x, y \in 1..len : x <= y => s[x] <= s[y]

\* Numbers have a least one.
LEMMA LeastNatural ==
  ASSUME NEW T, T \subseteq Nat, T # {}
  PROVE  \E m \in T : \A j \in T : m <= j
<1>1. PICK m \in T : \A j \in T : ~ (<<j, m>> \in OpToRel(<, Nat))
  BY NatLessThanWellFounded, WFMin
<1>2. \A j \in T : ~ (j < m)
  BY <1>1 DEF OpToRel
<1> QED BY <1>2

\* Min picks the least of numbers.
LEMMA MinOf ==
  ASSUME NEW T, T \subseteq Nat, T # {}
  PROVE  Min(T) \in T /\ \A j \in T : Min(T) <= j
  BY LeastNatural DEF Min

\* qsort returns the elements it is given, in order: the places of the elements
\* are all different, and so they are all places.
LEMMA QsortIs ==
  ASSUME NEW len \in Nat, NEW s, DOMAIN s = 1..len, \A l \in 1..len : s[l] \in Int
  PROVE  /\ DOMAIN qsort(s) = 1..len
         /\ \A x \in 1..len : \E l \in 1..len : qsort(s)[x] = s[l]
         /\ Rising(qsort(s), len)
<1> DEFINE Upto(l) == {j \in 1..len : s[j] < s[l] \/ (s[j] = s[l] /\ j <= l)}
           r == [l \in 1..len |-> Rank(s, l)]
<1>1. \A l \in 1..len : Rank(s, l) = Cardinality(Upto(l))
  BY DEF Rank
<1>2. IsFiniteSet(1..len) /\ Cardinality(1..len) = len
  BY FS_Interval
<1>3. ASSUME NEW l \in 1..len
      PROVE  /\ IsFiniteSet(Upto(l)) /\ Rank(s, l) \in 1..len
  <2>1. Upto(l) \in SUBSET (1..len) /\ l \in Upto(l)
    OBVIOUS
  <2> HIDE DEF Upto
  <2>2. IsFiniteSet(Upto(l)) /\ Cardinality(Upto(l)) <= len
    BY <1>2, <2>1, FS_Subset
  <2>3. Cardinality(Upto(l)) \in Nat /\ Cardinality(Upto(l)) # 0
    BY <2>1, <2>2, FS_CardinalityType, FS_EmptySet
  <2> QED BY <1>1, <2>2, <2>3
<1>4. ASSUME NEW l \in 1..len, NEW h \in 1..len, l # h,
             s[l] < s[h] \/ (s[l] = s[h] /\ l <= h)
      PROVE  Rank(s, l) < Rank(s, h)
  <2>1. Upto(l) \in SUBSET Upto(h)
    BY <1>4
  <2>2. h \in Upto(h) /\ h \notin Upto(l)
    BY <1>4
  <2> HIDE DEF Upto
  <2>3. Cardinality(Upto(l)) <= Cardinality(Upto(h))
        /\ Cardinality(Upto(l)) # Cardinality(Upto(h))
    BY <1>3, <2>1, <2>2, FS_Subset
  <2> QED BY <1>1, <1>3, <2>3
<1>5. \A x \in 1..len : \E l \in 1..len : Rank(s, l) = x
  <2>1. r \in [1..len -> 1..len]
    BY <1>3
  <2>2. ASSUME NEW l \in 1..len, NEW h \in 1..len, l # h PROVE Rank(s, l) # Rank(s, h)
    <3>1. \/ s[l] < s[h] \/ (s[l] = s[h] /\ l <= h)
          \/ s[h] < s[l] \/ (s[h] = s[l] /\ h <= l)
      OBVIOUS
    <3>2. Rank(s, l) \in 1..len /\ Rank(s, h) \in 1..len
      BY <1>3, Zenon
    <3> QED BY <1>4, <2>2, <3>1, <3>2
  <2>3. r \in Injection(1..len, 1..len)
    BY <2>1, <2>2 DEF Injection, IsInjective
  <2>4. r \in Surjection(1..len, 1..len)
    <3> HIDE DEF r
    <3> QED BY <1>2, <2>3, FS_Injection
  <2> QED BY <2>4 DEF Surjection
<1> DEFINE At(x) == CHOOSE l \in 1..len : Rank(s, l) = x
<1>6. \A x \in 1..len : At(x) \in 1..len /\ Rank(s, At(x)) = x
  BY <1>5
<1>7. qsort(s) = [x \in 1..len |-> s[At(x)]]
  BY DEF qsort
<1> HIDE DEF At
<1>8. Rising(qsort(s), len)
  <2> SUFFICES ASSUME NEW x \in 1..len, NEW y \in 1..len, x <= y
               PROVE  s[At(x)] <= s[At(y)]
    BY <1>7 DEF Rising
  <2>1. ~ s[At(y)] < s[At(x)]
    <3> SUFFICES ASSUME s[At(y)] < s[At(x)] PROVE FALSE
      OBVIOUS
    <3>1. At(x) # At(y)
      BY <1>6
    <3>2. Rank(s, At(y)) < Rank(s, At(x))
      BY <1>4, <1>6, <3>1
    <3> QED BY <1>6, <3>2
  <2> QED BY <1>6, <2>1
<1> QED BY <1>6, <1>7, <1>8

----------------------------------------------------------------------------
(***************************************************************************)
(* The inductive invariant.                                                *)
(***************************************************************************)
Bounded == {"index_cal", "fin_merge", "Sort_post", "done"}

Given == a \in Seq(Nat) /\ numThreads \in 1..p
InPhase == /\ pc \in {"ArrayOp", "Sort", "gathersplit", "returned"} \cup Bounded
           /\ todo \subseteq Threads
           /\ pc \in Bounded \cup {"gathersplit"} => numThreads # 1

IsBlock(s) == DOMAIN s = 1..n /\ \A j \in 1..n : s[j] \in Keys
Blocks ==
  /\ DOMAIN b = Threads
  /\ \A t \in Threads : pc # "ArrayOp" \/ t \notin todo => IsBlock(b[t])
  /\ \A t \in Threads :
       pc # "ArrayOp" /\ (pc # "Sort" \/ t \notin todo) => Rising(b[t], n)

Samples == gath \in [0..p*(p-1)-1 -> Int]
Bounds ==
  pc \in Bounded =>
    /\ finpar \in [Threads -> Int] /\ finpar[numThreads-1] = N
    /\ \A x, y \in 0..numThreads-2 : x <= y => finpar[x] <= finpar[y]

\* the table entries of a block before and after the iteration for it
Fresh(t) == index_mat[t] = [x \in Threads |-> -1] /\ size[t] = [x \in Threads |-> 0]
Described(t) ==
  /\ index_mat[t] = [x \in Threads |-> IF Dealt(t, x) = {} THEN -1 ELSE Min(Dealt(t, x))]
  /\ size[t] = [x \in Threads |-> Cardinality(Dealt(t, x))]
Tables ==
  /\ DOMAIN index_mat = Threads /\ DOMAIN size = Threads
  /\ \A t \in Threads :
       /\ pc \notin Bounded \/ (pc = "index_cal" /\ t \in todo) => Fresh(t)
       /\ DealtOut \/ (pc = "index_cal" /\ t \notin todo) => Described(t)
Places == DealtOut => sum = [x \in Threads |-> [t \in Threads |-> SumBefore(x, t)]]

IInv == Given /\ InPhase /\ Blocks /\ Samples /\ Bounds /\ Tables /\ Places

\* the lengths of the blocks
LEMMA Lengths ==
  ASSUME Given
  PROVE  /\ p \in Nat \ {0} /\ N \in Nat /\ n \in Nat /\ p * n <= N
         /\ numThreads \in Nat /\ numThreads * n <= N /\ Threads = 0..numThreads-1
         /\ Keys \subseteq Nat /\ \A j \in 1..N : a[j] \in Keys
<1>1. p \in Nat \ {0} /\ N \in Nat
  BY ParametersAssumption DEF Given, N
<1>2. n \in Nat /\ p * n <= N
  <2> DEFINE L == N
  <2>1. L \in Nat /\ n = L \div p
    BY <1>1 DEF n
  <2> HIDE DEF L
  <2>2. L \div p \in Nat /\ p * (L \div p) <= L
    BY <1>1, <2>1, SMT
  <2> QED BY <2>1, <2>2 DEF L
<1>3. numThreads \in Nat /\ numThreads * n <= N
  <2>1. numThreads \in Nat /\ numThreads <= p
    BY <1>1 DEF Given
  <2>2. numThreads * n <= p * n
    BY <1>1, <1>2, <2>1, SMT
  <2>3. numThreads * n \in Nat /\ p * n \in Nat
    BY <1>1, <1>2, <2>1, SMT
  <2> QED BY <1>1, <1>2, <2>1, <2>2, <2>3
<1>4. Keys \subseteq Nat /\ \A j \in 1..N : a[j] \in Keys
  <2>1. a \in Seq(Nat) /\ DOMAIN a = 1..N /\ \A j \in 1..N : a[j] \in Nat
    BY LenProperties, ElementOfSeq DEF Given, N
  <2> QED BY <2>1 DEF Keys, Range
<1> QED BY <1>1, <1>2, <1>3, <1>4 DEF Threads

\* Threads and what is derived from the parameters do not change.
LEMMA Same ==
  ASSUME Given, UNCHANGED given
  PROVE  /\ Given' /\ Threads' = Threads /\ N' = N /\ n' = n /\ Keys' = Keys
         /\ \A s : IsBlock(s)' <=> IsBlock(s)
  BY DEF given, Given, Threads, N, n, Keys, IsBlock

\* Where the keys of a block go depends on the block and the bounds only.
LEMMA SameDealt ==
  ASSUME Given, UNCHANGED <<given, finpar>>, NEW t, b'[t] = b[t]
  PROVE  \A x : Dealt(t, x)' = Dealt(t, x)
<1>1. n' = n
  BY Same
<1> QED BY <1>1 DEF Dealt, InBucket

\* Init satisfies the invariant.
LEMMA InitInv == Init => IInv
<1> SUFFICES ASSUME Init PROVE IInv
  OBVIOUS
<1>1. Given
  BY ParametersAssumption DEF Init, Given
<1>2. InPhase /\ Blocks
  BY DEF Init, InPhase, Bounded, Blocks
<1>3. Samples
  BY DEF Init, Samples, Unwritten
<1>4. Bounds /\ Tables /\ Places
  BY DEF Init, Bounds, Tables, Places, DealtOut, Bounded, Fresh
<1> QED BY <1>1, <1>2, <1>3, <1>4 DEF IInv

\* cutting the input into blocks
LEMMA ArrayOpInv == ASSUME IInv, NEW i \in Threads, ArrayOp(i) PROVE IInv'
<1>1. /\ Given' /\ Threads' = Threads /\ N' = N /\ n' = n /\ Keys' = Keys
      /\ \A s : IsBlock(s)' <=> IsBlock(s)
  BY Same DEF IInv, ArrayOp, Iteration
<1>2. /\ pc = "ArrayOp" /\ pc' = pc /\ todo' = todo \ {i}
      /\ b' = [b EXCEPT ![i] = SubSeq(a, i*n + 1, i*n + n)]
      /\ UNCHANGED <<gath, finpar, index_mat, size, sum, a, numThreads>>
  BY DEF ArrayOp, Iteration, given, serial
<1>3. InPhase'
  BY <1>1, <1>2 DEF IInv, InPhase, Bounded
<1>4. IsBlock(SubSeq(a, i*n + 1, i*n + n))
  <2> DEFINE f == i * n
  <2>1. /\ numThreads \in Nat /\ n \in Nat /\ N \in Nat /\ numThreads * n <= N
        /\ i \in 0..numThreads-1 /\ \A j \in 1..N : a[j] \in Keys
    BY Lengths DEF IInv
  <2>2. f \in Nat /\ f + n <= N
    <3>1. i + 1 <= numThreads /\ i \in Nat
      BY <2>1
    <3>2. (i + 1) * n <= numThreads * n /\ (i + 1) * n = f + n /\ f \in Nat
      BY <2>1, <3>1, SMT
    <3>3. numThreads * n \in Nat
      BY <2>1, SMT
    <3> QED BY <2>1, <3>2, <3>3
  <2>3. a \in Seq(Nat) /\ Len(a) = N
    BY DEF IInv, Given, N
  <2> HIDE DEF f
  <2>4. /\ Len(SubSeq(a, f + 1, f + n)) = n
        /\ DOMAIN SubSeq(a, f + 1, f + n) = 1..n
        /\ \A j \in 1..n : SubSeq(a, f + 1, f + n)[j] = a[f + j]
    BY <2>1, <2>2, <2>3
  <2>5. \A j \in 1..n : f + j \in 1..N
    BY <2>1, <2>2
  <2>6. IsBlock(SubSeq(a, f + 1, f + n))
    BY <2>1, <2>4, <2>5 DEF IsBlock
  <2> QED BY <2>6 DEF f
<1>5. Blocks'
  BY <1>1, <1>2, <1>4 DEF IInv, Blocks
<1>6. Samples' /\ Bounds' /\ Tables' /\ Places'
  BY <1>1, <1>2 DEF IInv, Samples, Bounds, Bounded, Tables, Fresh, Places, DealtOut
<1> QED BY <1>1, <1>3, <1>5, <1>6 DEF IInv

\* main goes on to the sorts
LEMMA CopiedInv == ASSUME IInv, Copied PROVE IInv'
<1>1. /\ Given' /\ Threads' = Threads /\ N' = N /\ n' = n /\ Keys' = Keys
      /\ \A s : IsBlock(s)' <=> IsBlock(s)
  BY Same DEF IInv, Copied, Ended
<1>2. /\ pc = "ArrayOp" /\ pc' = "Sort" /\ todo = {} /\ todo' = Threads
      /\ UNCHANGED <<b, gath, finpar, index_mat, size, sum, a, numThreads>>
  BY DEF Copied, Ended, given
<1>3. InPhase' /\ Blocks'
  BY <1>1, <1>2 DEF IInv, InPhase, Bounded, Blocks
<1>4. Samples' /\ Bounds' /\ Tables' /\ Places'
  BY <1>1, <1>2 DEF IInv, Samples, Bounds, Bounded, Tables, Fresh, Places, DealtOut
<1> QED BY <1>1, <1>3, <1>4 DEF IInv

\* a block is sorted
LEMMA SortInv == ASSUME IInv, NEW i \in Threads, Sort(i) PROVE IInv'
<1>1. /\ Given' /\ Threads' = Threads /\ N' = N /\ n' = n /\ Keys' = Keys
      /\ \A s : IsBlock(s)' <=> IsBlock(s)
  BY Same DEF IInv, Sort, Iteration
<1>2. /\ pc = "Sort" /\ pc' = pc /\ todo' = todo \ {i}
      /\ b' = [b EXCEPT ![i] = qsort(b[i])]
      /\ UNCHANGED <<gath, finpar, index_mat, size, sum, a, numThreads>>
  BY DEF Sort, Iteration, given, serial
<1>3. InPhase'
  BY <1>1, <1>2 DEF IInv, InPhase, Bounded
<1>4. IsBlock(qsort(b[i])) /\ Rising(qsort(b[i]), n)
  <2> DEFINE s == b[i]
  <2>1. IsBlock(s) /\ n \in Nat /\ Keys \subseteq Nat
    BY <1>2, Lengths DEF IInv, Blocks
  <2> HIDE DEF s
  <2>2. DOMAIN s = 1..n /\ \A l \in 1..n : s[l] \in Int
    <3>1. DOMAIN s = 1..n /\ \A l \in 1..n : s[l] \in Keys
      BY <2>1, Zenon DEF IsBlock
    <3>2. \A v \in Keys : v \in Int
      BY <2>1
    <3> QED BY <3>1, <3>2, Zenon
  <2>3. /\ DOMAIN qsort(s) = 1..n
        /\ \A x \in 1..n : \E l \in 1..n : qsort(s)[x] = s[l]
        /\ Rising(qsort(s), n)
    BY <2>1, <2>2, QsortIs
  <2>4. IsBlock(qsort(s))
    BY <2>1, <2>3 DEF IsBlock
  <2> QED BY <2>3, <2>4 DEF s
<1>5. Blocks'
  <2>1. DOMAIN b = Threads /\ DOMAIN b' = Threads
    BY <1>2 DEF IInv, Blocks
  <2>2. ASSUME NEW t \in Threads PROVE IsBlock(b'[t]) /\ (t \notin todo' => Rising(b'[t], n))
    BY <1>2, <1>4, <2>1 DEF IInv, Blocks
  <2> QED BY <1>1, <1>2, <2>1, <2>2 DEF Blocks, Rising
<1>6. Samples' /\ Bounds' /\ Tables' /\ Places'
  BY <1>1, <1>2 DEF IInv, Samples, Bounds, Bounded, Tables, Fresh, Places, DealtOut
<1> QED BY <1>1, <1>3, <1>5, <1>6 DEF IInv

\* main goes on to the samples, or returns
LEMMA SortedInv == ASSUME IInv, Sorted PROVE IInv'
<1>1. /\ Given' /\ Threads' = Threads /\ N' = N /\ n' = n /\ Keys' = Keys
      /\ \A s : IsBlock(s)' <=> IsBlock(s)
  BY Same DEF IInv, Sorted, Ended
<1>2. /\ pc = "Sort" /\ pc' \in {"returned", "gathersplit"} /\ todo = {} /\ todo' = Threads
      /\ pc' = "gathersplit" => numThreads # 1
      /\ UNCHANGED <<b, gath, finpar, index_mat, size, sum, a, numThreads>>
  BY DEF Sorted, Ended, given
<1>3. InPhase' /\ Blocks'
  BY <1>1, <1>2 DEF IInv, InPhase, Bounded, Blocks, Rising
<1>4. Samples' /\ Bounds' /\ Tables' /\ Places'
  BY <1>1, <1>2 DEF IInv, Samples, Bounds, Bounded, Tables, Fresh, Places, DealtOut
<1> QED BY <1>1, <1>3, <1>4 DEF IInv

\* a block is sampled
LEMMA GatherInv == ASSUME IInv, NEW i \in Threads, gathersplit(i) PROVE IInv'
<1>1. /\ Given' /\ Threads' = Threads /\ N' = N /\ n' = n /\ Keys' = Keys
      /\ \A s : IsBlock(s)' <=> IsBlock(s)
  BY Same DEF IInv, gathersplit, Iteration
<1>2. /\ pc = "gathersplit" /\ pc' = pc /\ todo' = todo \ {i}
      /\ UNCHANGED <<b, finpar, index_mat, size, sum, a, numThreads>>
  BY DEF gathersplit, Iteration, given, serial
<1>3. InPhase' /\ Blocks'
  BY <1>1, <1>2 DEF IInv, InPhase, Bounded, Blocks, Rising
<1>4. Samples'
  <2>1. /\ n \in Nat /\ p \in Nat \ {0} /\ i \in Nat /\ Keys \subseteq Nat
    BY Lengths DEF IInv
  <2>2. IsBlock(b[i])
    BY <1>2 DEF IInv, Blocks
  <2>3. Every \in Nat \ {0}
    <3> DEFINE q == n
    <3>1. q \in Nat
      BY <2>1
    <3> HIDE DEF q
    <3>2. q \div p \in Nat
      BY <2>1, <3>1, SMT
    <3> QED BY <3>2 DEF Every, q
  <2>4. ASSUME NEW g \in DOMAIN gath, g - i*(p-1) >= 0, Every * (g - i*(p-1) + 1) <= n
        PROVE  b[i][Every * (g - i*(p-1) + 1)] \in Int
    <3> DEFINE x == g - i*(p-1)  y == Every * (x + 1)
    <3>1. g \in Int /\ x \in Nat
      <4>1. g \in Int /\ i * (p-1) \in Int
        BY <2>1, SMT DEF IInv, Samples
      <4> QED BY <2>4, <4>1
    <3>2. y <= n
      BY <2>4
    <3> HIDE DEF x
    <3>3. y \in Nat \ {0}
      BY <2>3, <3>1, SMT
    <3> HIDE DEF y
    <3>4. y \in 1..n
      BY <2>1, <3>2, <3>3
    <3>5. b[i][y] \in Keys
      BY <2>2, <3>4, Zenon DEF IsBlock
    <3>6. b[i][y] \in Int
      <4>1. \A v \in Keys : v \in Int
        BY <2>1
      <4> QED BY <3>5, <4>1, Zenon
    <3> QED BY <3>6 DEF x, y
  <2>5. gath' = [g \in DOMAIN gath |->
           IF g - i*(p-1) >= 0 /\ Every * (g - i*(p-1) + 1) <= n
           THEN b[i][Every * (g - i*(p-1) + 1)] ELSE gath[g]]
    BY Zenon DEF gathersplit
  <2>6. gath \in [0..p*(p-1)-1 -> Int]
    BY DEF IInv, Samples
  <2>7. \A g \in DOMAIN gath : gath'[g] \in Int
    BY <2>4, <2>5, <2>6, Zenon
  <2>8. DOMAIN gath' = DOMAIN gath /\ DOMAIN gath = 0..p*(p-1)-1
    BY <2>5, <2>6, Zenon
  <2>9. gath' \in [0..p*(p-1)-1 -> Int]
    BY <2>5, <2>7, <2>8
  <2> QED BY <2>9 DEF Samples
<1>5. Bounds' /\ Tables' /\ Places'
  BY <1>1, <1>2 DEF IInv, Bounds, Bounded, Tables, Fresh, Places, DealtOut
<1> QED BY <1>1, <1>3, <1>4, <1>5 DEF IInv

\* The bounds are taken from sorted words, so they rise, whatever the words are
\* that nobody wrote.
LEMMA ChooseBoundsInv == ASSUME IInv, ChooseBounds PROVE IInv'
<1>1. /\ Given' /\ Threads' = Threads /\ N' = N /\ n' = n /\ Keys' = Keys
      /\ \A s : IsBlock(s)' <=> IsBlock(s)
  BY Same DEF IInv, ChooseBounds, Ended
<1>2. /\ pc = "gathersplit" /\ pc' = "index_cal" /\ todo = {} /\ todo' = Threads
      /\ UNCHANGED <<b, index_mat, size, sum, a, numThreads>>
  BY DEF ChooseBounds, Ended, given
<1>3. InPhase' /\ Blocks'
  BY <1>1, <1>2 DEF IInv, InPhase, Bounded, Blocks, Rising
<1> DEFINE y == numThreads * (p-1)
           Holes == {g \in 0..y-1 : gath[g] = Unwritten}
           words(junk) == [g \in 1..y |-> IF g-1 \in DOMAIN junk THEN junk[g-1] ELSE gath[g-1]]
<1>4. PICK junk \in [Holes -> Garbage] :
        /\ gath' = [g \in DOMAIN gath |-> IF g < y THEN qsort(words(junk))[g+1] ELSE gath[g]]
        /\ finpar' = [x \in Threads |->
             IF x < numThreads - 1 THEN qsort(words(junk))[x*p + p-1] ELSE LastBound]
  BY Zenon DEF ChooseBounds
<1>5. /\ p \in Nat \ {0} /\ numThreads \in Nat /\ numThreads >= 1 /\ numThreads <= p
      /\ N \in Nat /\ Threads = 0..numThreads-1 /\ numThreads # 1
  BY <1>2, Lengths DEF IInv, Given, InPhase
<1>6. y \in Nat /\ y <= p*(p-1) /\ p*(p-1) \in Nat
  BY <1>5, SMT
<1>7. gath \in [0..p*(p-1)-1 -> Int]
  BY DEF IInv, Samples
<1>8. \A g \in 1..y : words(junk)[g] \in Int
  <2> SUFFICES ASSUME NEW g \in 1..y PROVE words(junk)[g] \in Int
    OBVIOUS
  <2> HIDE DEF y
  <2>1. g-1 \in DOMAIN gath /\ gath[g-1] \in Int
    BY <1>6, <1>7
  <2>2. g-1 \in Holes => junk[g-1] \in Int
    BY ParametersAssumption
  <2>3. DOMAIN junk = Holes
    OBVIOUS
  <2> HIDE DEF Holes
  <2>4. words(junk)[g] = IF g-1 \in DOMAIN junk THEN junk[g-1] ELSE gath[g-1]
    OBVIOUS
  <2> QED BY <2>1, <2>2, <2>3, <2>4
<1> DEFINE w == words(junk)
<1>9. DOMAIN w = 1..y
  OBVIOUS
<1> HIDE DEF w
<1> HIDE DEF words, Holes, y
<1>10. /\ DOMAIN qsort(w) = 1..y /\ Rising(qsort(w), y)
       /\ \A x \in 1..y : qsort(w)[x] \in Int
  <2>1. \A g \in 1..y : w[g] \in Int
    BY <1>8 DEF w
  <2>2. /\ DOMAIN qsort(w) = 1..y /\ Rising(qsort(w), y)
        /\ \A x \in 1..y : \E l \in 1..y : qsort(w)[x] = w[l]
    BY <1>6, <1>9, <2>1, QsortIs
  <2> QED BY <2>1, <2>2
<1>11. /\ gath' = [g \in DOMAIN gath |-> IF g < y THEN qsort(w)[g+1] ELSE gath[g]]
       /\ finpar' = [x \in Threads |->
            IF x < numThreads - 1 THEN qsort(w)[x*p + p-1] ELSE LastBound]
  BY <1>4 DEF w
<1>12. Samples'
  <2>1. \A g \in 0..p*(p-1)-1 : g < y => g+1 \in 1..y
    BY <1>6
  <2>2. DOMAIN gath = 0..p*(p-1)-1 /\ \A g \in 0..p*(p-1)-1 : gath[g] \in Int
    BY <1>7
  <2>3. gath' \in [0..p*(p-1)-1 -> Int]
    BY <1>10, <1>11, <2>1, <2>2
  <2> QED BY <2>3 DEF Samples
<1>13. \A x \in 0..numThreads-2 : x*p + (p-1) \in 1..y
  <2> SUFFICES ASSUME NEW x \in 0..numThreads-2 PROVE x*p + (p-1) \in 1..y
    OBVIOUS
  <2> DEFINE T == numThreads
  <2>1. T \in Nat /\ x \in Nat /\ x + 2 <= T /\ T <= p /\ p >= 2 /\ y = T * (p-1)
    BY <1>5 DEF y
  <2> HIDE DEF T
  <2>2. (x + 2) * p <= T * p /\ x * p \in Nat /\ T * p \in Nat /\ (x + 2) * p = x * p + 2 * p
        /\ T * (p-1) = T * p - T
    BY <1>5, <2>1, SMT
  <2> DEFINE u == x * p  v == T * p
  <2>3. u + 2 * p <= v /\ u \in Nat /\ v \in Nat /\ y = v - T
    BY <2>1, <2>2
  <2> HIDE DEF u, v
  <2>4. u + (p-1) \in 1..y
    BY <1>5, <1>6, <2>1, <2>3
  <2> QED BY <2>4 DEF u
<1>14. Bounds'
  <2>1. \A x \in 0..numThreads-2 : x \in Threads /\ x < numThreads-1
    BY <1>5
  <2>2. \A x \in 0..numThreads-2 : finpar'[x] = qsort(w)[x*p + (p-1)]
    BY <1>11, <2>1
  <2>3. finpar'[numThreads-1] = N /\ numThreads-1 \in Threads
    BY <1>5, <1>11 DEF LastBound
  <2>4. finpar' \in [Threads -> Int]
    <3>1. \A x \in Threads : x < numThreads-1 \/ x = numThreads-1
      BY <1>5
    <3>2. \A x \in Threads : x < numThreads-1 => x \in 0..numThreads-2
      BY <1>5
    <3>3. \A x \in Threads : finpar'[x] \in Int
      BY <1>5, <1>10, <1>13, <2>2, <2>3, <3>1, <3>2
    <3> QED BY <1>11, <3>3
  <2>5. ASSUME NEW x \in 0..numThreads-2, NEW z \in 0..numThreads-2, x <= z
        PROVE  finpar'[x] <= finpar'[z]
    <3>1. x * p + (p-1) <= z * p + (p-1)
      BY <1>5, <2>5, SMT
    <3> DEFINE u == x * p + (p-1)  v == z * p + (p-1)
    <3>2. u \in 1..y /\ v \in 1..y /\ u <= v
      BY <1>13, <3>1
    <3>3. finpar'[x] = qsort(w)[u] /\ finpar'[z] = qsort(w)[v]
      BY <2>2
    <3> HIDE DEF u, v
    <3> QED BY <1>10, <3>2, <3>3 DEF Rising
  <2> QED BY <1>1, <1>2, <2>3, <2>4, <2>5 DEF Bounds
<1>15. Tables' /\ Places'
  BY <1>1, <1>2 DEF IInv, Bounded, Tables, Fresh, Places, DealtOut
<1> QED BY <1>1, <1>3, <1>12, <1>14, <1>15 DEF IInv

\* A key of a block goes to the only bucket whose bounds it lies between.
LEMMA DealtIs ==
  ASSUME Given, Bounds, pc \in Bounded, NEW t, NEW x \in Threads, \A j \in 1..n : b[t][j] \in Int
  PROVE  Dealt(t, x) = {j \in 0..n-1 : InBucket(b[t][j+1], x)}
<1>1. /\ numThreads \in Nat /\ Threads = 0..numThreads-1 /\ n \in Nat
  BY Lengths
<1>2. finpar \in [Threads -> Int] /\ \A y, z \in 0..numThreads-2 : y <= z => finpar[y] <= finpar[z]
  BY DEF Bounds
<1>3. ASSUME NEW v \in Int, InBucket(v, x), NEW z \in 0..x-1, InBucket(v, z) PROVE FALSE
  <2>1. x # 0 /\ v > finpar[x-1] /\ v <= finpar[z]
    BY <1>1, <1>3 DEF InBucket
  <2>2. z \in 0..numThreads-2 /\ x-1 \in 0..numThreads-2 /\ z <= x-1
    BY <1>1, <1>3, <2>1
  <2>3. finpar[z] <= finpar[x-1] /\ finpar[z] \in Int /\ finpar[x-1] \in Int
    BY <1>1, <1>2, <2>2
  <2> QED BY <2>1, <2>3
<1>4. \A j \in 0..n-1 : b[t][j+1] \in Int
  BY <1>1
<1> QED BY <1>3, <1>4, Zenon DEF Dealt

\* In a sorted block, the keys of a bucket are next to each other: from the
\* first of them, there are as many as there are.
LEMMA DealtTogether ==
  ASSUME Given, Bounds, pc \in Bounded, NEW t, NEW x \in Threads,
         \A j \in 1..n : b[t][j] \in Int, Rising(b[t], n), Dealt(t, x) # {}
  PROVE  /\ Min(Dealt(t, x)) \in Nat
         /\ Dealt(t, x) = Min(Dealt(t, x))..Min(Dealt(t, x)) + Cardinality(Dealt(t, x)) - 1
<1> DEFINE D == Dealt(t, x)
<1>1. D = {j \in 0..n-1 : InBucket(b[t][j+1], x)} /\ n \in Nat
  BY DealtIs, Lengths
<1>2. finpar \in [Threads -> Int] /\ Threads = 0..numThreads-1 /\ numThreads \in Nat
  BY Lengths DEF Bounds
<1>3. ASSUME NEW j \in D, NEW h \in D, NEW l \in j..h PROVE l \in D
  <2>1. /\ j \in 0..n-1 /\ h \in 0..n-1 /\ InBucket(b[t][j+1], x) /\ InBucket(b[t][h+1], x)
    BY <1>1
  <2>2. l \in 0..n-1 /\ j+1 \in 1..n /\ h+1 \in 1..n /\ l+1 \in 1..n /\ j+1 <= l+1 /\ l+1 <= h+1
    BY <1>1, <2>1
  <2>3. b[t][j+1] <= b[t][l+1] /\ b[t][l+1] <= b[t][h+1]
    BY <2>2 DEF Rising
  <2>4. b[t][j+1] \in Int /\ b[t][l+1] \in Int /\ b[t][h+1] \in Int
    BY <2>2
  <2>5. finpar[x] \in Int /\ (x # 0 => finpar[x-1] \in Int)
    BY <1>2
  <2>6. InBucket(b[t][l+1], x)
    BY <2>1, <2>3, <2>4, <2>5 DEF InBucket
  <2> QED BY <1>1, <2>2, <2>6
<1>4. D \subseteq Nat /\ D # {} /\ \A j \in D : j <= n
  BY <1>1
<1> HIDE DEF D
<1>5. Min(D) \in D /\ \A j \in D : Min(D) <= j
  BY <1>4, MinOf
<1> DEFINE U == {l \in Nat : \A j \in D : j <= l}
<1>6. U \subseteq Nat /\ n \in U
  BY <1>1, <1>4
<1>7. PICK u \in U : \A l \in U : u <= l
  BY <1>6, LeastNatural
<1>8. u \in D
  <2> SUFFICES ASSUME u \notin D PROVE FALSE
    OBVIOUS
  <2>1. u \in Nat /\ \A j \in D : j <= u - 1
    BY <1>4, <1>7
  <2>2. u - 1 \in Nat
    <3>1. PICK j \in D : j \in Nat
      BY <1>4
    <3> QED BY <2>1, <3>1
  <2>3. u - 1 \in U
    BY <2>1, <2>2
  <2> QED BY <1>7, <2>1, <2>3
<1> DEFINE f == Min(D)
<1>9. f \in D /\ f \in Nat /\ u \in Nat /\ f <= u /\ \A j \in D : f <= j /\ j <= u
  BY <1>4, <1>5, <1>7, <1>8
<1> HIDE DEF f
<1>10. D = f..u
  <2>1. \A j \in D : j \in f..u
    BY <1>4, <1>9
  <2>2. \A j \in f..u : j \in D
    BY <1>3, <1>8, <1>9
  <2> QED BY <2>1, <2>2
<1>11. Cardinality(D) = u - f + 1
  BY <1>9, <1>10, FS_Interval
<1>12. f \in Nat /\ D = f..f + Cardinality(D) - 1
  BY <1>9, <1>10, <1>11
<1> QED BY <1>12 DEF f, D

\* the tables of a block are filled in
LEMMA IndexCalInv == ASSUME IInv, NEW i \in Threads, index_cal(i) PROVE IInv'
<1>1. /\ Given' /\ Threads' = Threads /\ N' = N /\ n' = n /\ Keys' = Keys
      /\ \A s : IsBlock(s)' <=> IsBlock(s)
  BY Same DEF IInv, index_cal, Iteration
<1>2. /\ pc = "index_cal" /\ pc' = pc /\ i \in todo /\ todo' = todo \ {i}
      /\ index_mat' = [index_mat EXCEPT ![i] =
           [x \in Threads |-> IF Dealt(i, x) = {} THEN @[x] ELSE Min(Dealt(i, x))]]
      /\ size' = [size EXCEPT ![i] = [x \in Threads |-> @[x] + Cardinality(Dealt(i, x))]]
      /\ UNCHANGED <<b, gath, finpar, sum, a, numThreads>>
  BY DEF index_cal, Iteration, given, serial
<1>3. InPhase' /\ Blocks' /\ Samples' /\ Bounds'
  BY <1>1, <1>2 DEF IInv, InPhase, Bounded, Blocks, Rising, Samples, Bounds
<1>4. \A t, x : Dealt(t, x)' = Dealt(t, x)
  BY <1>1, <1>2, SameDealt DEF IInv, given
<1>5. Fresh(i) /\ DOMAIN index_mat = Threads /\ DOMAIN size = Threads
  BY <1>2 DEF IInv, Tables
<1>6. \A x \in Threads : Cardinality(Dealt(i, x)) \in Nat
  <2> SUFFICES ASSUME NEW x \in Threads PROVE Cardinality(Dealt(i, x)) \in Nat
    OBVIOUS
  <2>1. Dealt(i, x) \in SUBSET (0..n-1) /\ n \in Nat
    BY Lengths DEF IInv, Dealt
  <2>2. IsFiniteSet(0..n-1)
    BY <2>1, FS_Interval
  <2>3. IsFiniteSet(Dealt(i, x))
    BY <2>1, <2>2, FS_Subset
  <2> QED BY <2>3, FS_CardinalityType
<1>7. /\ index_mat'[i] = [x \in Threads |-> IF Dealt(i, x) = {} THEN -1 ELSE Min(Dealt(i, x))]
      /\ size'[i] = [x \in Threads |-> Cardinality(Dealt(i, x))]
  <2>1. index_mat[i] = [x \in Threads |-> -1] /\ size[i] = [x \in Threads |-> 0]
    BY <1>5 DEF Fresh
  <2>2. index_mat'[i] = [x \in Threads |-> IF Dealt(i, x) = {} THEN index_mat[i][x]
                                          ELSE Min(Dealt(i, x))]
    BY <1>2, <1>5, Zenon
  <2>3. size'[i] = [x \in Threads |-> size[i][x] + Cardinality(Dealt(i, x))]
    BY <1>2, <1>5, Zenon
  <2>4. \A x \in Threads : index_mat[i][x] = -1 /\ size[i][x] + Cardinality(Dealt(i, x))
                                                    = Cardinality(Dealt(i, x))
    BY <1>6, <2>1
  <2> QED BY <2>2, <2>3, <2>4
<1>8. Described(i)'
  BY <1>1, <1>4, <1>7, Zenon DEF Described
<1>9. Tables'
  <2>1. DOMAIN index_mat' = Threads /\ DOMAIN size' = Threads
    BY <1>2, <1>5
  <2>2. ASSUME NEW t \in Threads, t # i
        PROVE  index_mat'[t] = index_mat[t] /\ size'[t] = size[t]
    BY <1>2, <2>2
  <2>3. ASSUME NEW t \in Threads, t \in todo' PROVE Fresh(t)'
    <3>1. t # i /\ t \in todo
      BY <1>2, <2>3
    <3>2. Fresh(t)
      BY <1>2, <3>1 DEF IInv, Tables
    <3> QED BY <1>1, <2>2, <3>1, <3>2, Zenon DEF Fresh
  <2>4. ASSUME NEW t \in Threads, t \notin todo', t # i PROVE Described(t)'
    <3>1. t \notin todo
      BY <1>2, <2>4
    <3>2. Described(t)
      BY <1>2, <3>1 DEF IInv, Tables
    <3> QED BY <1>1, <1>4, <2>2, <2>4, <3>2, Zenon DEF Described
  <2> QED BY <1>1, <1>2, <1>8, <2>1, <2>3, <2>4 DEF Tables, DealtOut, Bounded
<1>10. Places'
  BY <1>2 DEF Places, DealtOut
<1> QED BY <1>1, <1>3, <1>9, <1>10 DEF IInv

\* The steps after that leave the blocks and their tables alone.
LEMMA DealtKept ==
  ASSUME IInv, UNCHANGED <<given, b, finpar, gath, index_mat, size>>,
         pc \in Bounded, pc' \in Bounded \ {"index_cal"}, todo' \subseteq Threads,
         pc = "index_cal" => todo = {},
         sum' = IF pc = "index_cal"
                THEN [x \in Threads |-> [t \in Threads |-> SumBefore(x, t)]] ELSE sum
  PROVE  IInv'
<1>1. /\ Given' /\ Threads' = Threads /\ N' = N /\ n' = n /\ Keys' = Keys
      /\ \A s : IsBlock(s)' <=> IsBlock(s)
  BY Same DEF IInv
<1>2. InPhase' /\ Blocks' /\ Samples' /\ Bounds'
  BY <1>1 DEF IInv, InPhase, Bounded, Blocks, Rising, Samples, Bounds, given
<1>3. \A t, x : Dealt(t, x)' = Dealt(t, x)
  BY <1>1, SameDealt DEF IInv
<1>4. \A t : Described(t)' <=> Described(t)
  BY <1>1, <1>3 DEF Described
<1>5. \A t \in Threads : Described(t)
  BY DEF IInv, Tables, DealtOut, Bounded
<1>6. Tables'
  BY <1>1, <1>4, <1>5 DEF IInv, Tables, Bounded, DealtOut
<1>7. \A x, t : SumBefore(x, t)' = SumBefore(x, t)
  BY DEF SumBefore
<1>8. Places'
  BY <1>1, <1>7 DEF IInv, Places, DealtOut, Bounded
<1> QED BY <1>1, <1>2, <1>6, <1>8 DEF IInv

\* Every step keeps the invariant.
LEMMA NextInv == IInv /\ [Next]_vars => IInv'
<1> SUFFICES ASSUME IInv, [Next]_vars PROVE IInv'
  OBVIOUS
<1>1. CASE Copied
  BY <1>1, CopiedInv
<1>2. CASE Sorted
  BY <1>2, SortedInv
<1>3. CASE ChooseBounds
  BY <1>3, ChooseBoundsInv
<1>4. CASE PlaceBuckets
  BY <1>4, DealtKept DEF PlaceBuckets, Ended, Bounded, Threads, given
<1>5. CASE BucketMerged
  BY <1>5, DealtKept DEF BucketMerged, Ended, Bounded, Threads, given
<1>6. CASE BucketsSorted
  BY <1>6, DealtKept DEF BucketsSorted, Ended, Bounded, Threads, given
<1>7. ASSUME NEW i \in Threads, ArrayOp(i) PROVE IInv'
  BY <1>7, ArrayOpInv
<1>8. ASSUME NEW i \in Threads, Sort(i) PROVE IInv'
  BY <1>8, SortInv
<1>9. ASSUME NEW i \in Threads, gathersplit(i) PROVE IInv'
  BY <1>9, GatherInv
<1>10. ASSUME NEW i \in Threads, index_cal(i) PROVE IInv'
  BY <1>10, IndexCalInv
<1>11. ASSUME NEW i \in Threads, fin_merge(i) PROVE IInv'
  <2>1. /\ UNCHANGED <<given, b, finpar, gath, index_mat, size, sum>>
        /\ pc = "fin_merge" /\ pc' = pc /\ todo' = todo \ {i}
    BY <1>11 DEF fin_merge, Iteration, serial
  <2> QED BY <2>1, DealtKept DEF IInv, InPhase, Bounded
<1>12. ASSUME NEW i \in Threads, Sort_post(i) PROVE IInv'
  <2>1. /\ UNCHANGED <<given, b, finpar, gath, index_mat, size, sum>>
        /\ pc = "Sort_post" /\ pc' = pc /\ todo' = todo \ {i}
    BY <1>12 DEF Sort_post, Iteration, serial
  <2> QED BY <2>1, DealtKept DEF IInv, InPhase, Bounded
<1>13. CASE UNCHANGED vars
  <2>1. UNCHANGED <<a, numThreads, b, gath, finpar, index_mat, size, sum, pc, todo>>
    BY <1>13 DEF vars, given, serial
  <2>2. /\ Given' /\ Threads' = Threads /\ N' = N /\ n' = n /\ Keys' = Keys
        /\ \A s : IsBlock(s)' <=> IsBlock(s)
    BY <2>1, Same DEF IInv, given
  <2>3. InPhase' /\ Blocks' /\ Samples' /\ Bounds'
    BY <2>1, <2>2 DEF IInv, InPhase, Bounded, Blocks, Rising, Samples, Bounds
  <2>4. \A t, x : Dealt(t, x)' = Dealt(t, x)
    BY <2>1, <2>2, SameDealt DEF IInv, given
  <2>5. Tables'
    BY <2>1, <2>2, <2>4 DEF IInv, Tables, Bounded, DealtOut, Fresh, Described
  <2>6. Places'
    BY <2>1, <2>2 DEF IInv, Places, DealtOut, SumBefore
  <2> QED BY <2>2, <2>3, <2>5, <2>6 DEF IInv
<1> QED BY <1>1, <1>2, <1>3, <1>4, <1>5, <1>6, <1>7, <1>8, <1>9, <1>10, <1>11, <1>12, <1>13
        DEF Next, Main, Thread, Returned

----------------------------------------------------------------------------
(***************************************************************************)
(* The buckets tile the blocks.                                            *)
(***************************************************************************)

\* what the tables say of a block once all are filled in
LEMMA TablesSay ==
  ASSUME IInv, DealtOut, NEW t \in Threads, NEW x \in Threads
  PROVE  /\ pc \in Bounded /\ Rising(b[t], n)
         /\ \A j \in 1..n : b[t][j] \in Keys /\ b[t][j] \in Int
         /\ index_mat[t][x] = IF Dealt(t, x) = {} THEN -1 ELSE Min(Dealt(t, x))
         /\ size[t][x] = Cardinality(Dealt(t, x))
         /\ size[t][x] \in 0..n
<1>1. /\ pc \in Bounded /\ IsBlock(b[t]) /\ Rising(b[t], n) /\ Described(t)
  BY DEF IInv, Blocks, Tables, DealtOut, Bounded
<1>2. n \in Nat /\ Keys \subseteq Nat
  BY Lengths DEF IInv
<1>3. \A j \in 1..n : b[t][j] \in Keys /\ b[t][j] \in Int
  <2>1. \A v \in Keys : v \in Int
    BY <1>2
  <2> QED BY <1>1, <2>1, Zenon DEF IsBlock
<1>4. /\ index_mat[t][x] = IF Dealt(t, x) = {} THEN -1 ELSE Min(Dealt(t, x))
      /\ size[t][x] = Cardinality(Dealt(t, x))
  BY <1>1, Zenon DEF Described
<1>5. Cardinality(Dealt(t, x)) \in 0..n
  <2>1. Dealt(t, x) \in SUBSET (0..n-1)
    BY DEF Dealt
  <2>2. IsFiniteSet(0..n-1) /\ Cardinality(0..n-1) = n
    BY <1>2, FS_Interval
  <2>3. IsFiniteSet(Dealt(t, x)) /\ Cardinality(Dealt(t, x)) <= n
    BY <2>1, <2>2, FS_Subset
  <2>4. Cardinality(Dealt(t, x)) \in Nat
    BY <2>3, FS_CardinalityType
  <2> QED BY <1>2, <2>3, <2>4
<1> QED BY <1>1, <1>3, <1>4, <1>5

\* The pair that fin_merge copies by is the keys of the bucket.
LEMMA TablesExact ==
  ASSUME IInv, DealtOut, NEW t \in Threads, NEW x \in Threads
  PROVE  Dealt(t, x) = (index_mat[t][x]..index_mat[t][x] + size[t][x] - 1)
<1>1. /\ pc \in Bounded /\ Rising(b[t], n) /\ \A j \in 1..n : b[t][j] \in Int
      /\ index_mat[t][x] = IF Dealt(t, x) = {} THEN -1 ELSE Min(Dealt(t, x))
      /\ size[t][x] = Cardinality(Dealt(t, x))
  BY TablesSay
<1>2. CASE Dealt(t, x) = {}
  <2>1. index_mat[t][x] = -1 /\ size[t][x] = 0
    BY <1>1, <1>2, FS_EmptySet
  <2> QED BY <1>2, <2>1
<1>3. CASE Dealt(t, x) # {}
  <2>1. Dealt(t, x) = Min(Dealt(t, x))..Min(Dealt(t, x)) + Cardinality(Dealt(t, x)) - 1
    BY <1>1, <1>3, DealtTogether DEF IInv
  <2>2. index_mat[t][x] = Min(Dealt(t, x))
    BY <1>1, <1>3
  <2> QED BY <1>1, <2>1, <2>2, Zenon
<1> QED BY <1>2, <1>3

\* A key that is not above the last bound is below some bound, and goes to the
\* first such bucket.
LEMMA AllDealt ==
  ASSUME IInv, DealtOut, NEW t \in Threads, \A v \in Keys : v <= N
  PROVE  UNION {Dealt(t, x) : x \in Threads} = 0..n-1
<1>1. /\ pc \in Bounded /\ \A j \in 1..n : b[t][j] \in Keys /\ b[t][j] \in Int
  BY TablesSay
<1>2. /\ numThreads \in Nat /\ Threads = 0..numThreads-1 /\ n \in Nat /\ t \in 0..numThreads-1
      /\ N \in Nat
  BY Lengths DEF IInv
<1>3. /\ finpar \in [Threads -> Int] /\ finpar[numThreads-1] = N
  BY <1>1 DEF IInv, Bounds
<1>4. ASSUME NEW j \in 0..n-1 PROVE \E x \in Threads : j \in Dealt(t, x)
  <2> DEFINE v == b[t][j+1]
             T == {x \in Threads : v <= finpar[x]}
  <2>1. v \in Int /\ v <= N
    BY <1>1, <1>2
  <2> HIDE DEF v
  <2>2. T \subseteq Nat /\ numThreads-1 \in T
    BY <1>2, <1>3, <2>1
  <2>3. PICK x \in T : \A z \in T : x <= z
    BY <2>2, LeastNatural
  <2>4. x \in Threads /\ v <= finpar[x]
    OBVIOUS
  <2>5. x = 0 \/ v > finpar[x-1]
    <3> SUFFICES ASSUME x # 0 PROVE v > finpar[x-1]
      OBVIOUS
    <3>1. x-1 \in Threads /\ x-1 < x /\ x \in Int
      BY <1>2, <2>4
    <3>2. x-1 \notin T
      BY <2>3, <3>1
    <3>3. finpar[x-1] \in Int
      BY <1>3, <3>1
    <3> QED BY <2>1, <3>1, <3>2, <3>3
  <2>6. Dealt(t, x) = {h \in 0..n-1 : InBucket(b[t][h+1], x)}
    BY <1>1, <2>4, DealtIs DEF IInv
  <2>7. InBucket(b[t][j+1], x)
    BY <2>4, <2>5, Zenon DEF InBucket, v
  <2> QED BY <2>4, <2>6, <2>7
<1>5. \A x : Dealt(t, x) \subseteq 0..n-1
  BY DEF Dealt
<1> QED BY <1>4, <1>5

\* The parts of a bucket lie in it one after the other, and none ends past the
\* number of keys.
LEMMA PartsApart ==
  ASSUME IInv, DealtOut, NEW x \in Threads, NEW t \in Threads
  PROVE  /\ SumBefore(x, t) + size[t][x] <= N
         /\ \A u \in Threads : t < u => SumBefore(x, t) + size[t][x] <= SumBefore(x, u)
<1> DEFINE Part(v) == {v} \X (1..size[v][x])
           Before(u) == UNION {Part(v) : v \in 0..u-1}
           Room == Threads \X (1..n)
<1>1. /\ numThreads \in Nat /\ Threads = 0..numThreads-1 /\ n \in Nat /\ N \in Nat
      /\ numThreads * n <= N /\ t \in 0..numThreads-1
  BY Lengths DEF IInv
<1>2. \A v \in Threads : size[v][x] \in 0..n
  BY TablesSay
<1>3. IsFiniteSet(Room) /\ Cardinality(Room) <= N
  <2>1. IsFiniteSet(Threads) /\ Cardinality(Threads) = numThreads
    BY <1>1, FS_Interval
  <2>2. IsFiniteSet(1..n) /\ Cardinality(1..n) = n
    BY <1>1, FS_Interval
  <2>3. IsFiniteSet(Room) /\ Cardinality(Room) = Cardinality(Threads) * Cardinality(1..n)
    BY <2>1, <2>2, FS_Product
  <2> QED BY <1>1, <2>1, <2>2, <2>3
<1>4. ASSUME NEW v \in Threads PROVE Part(v) \in SUBSET Room
  BY <1>1, <1>2
<1>5. ASSUME NEW u \in 0..numThreads PROVE Before(u) \in SUBSET Room
  <2>1. \A v \in 0..u-1 : v \in Threads
    BY <1>1
  <2> QED BY <1>4, <2>1
<1>6. Before(t) \cap Part(t) = {}
  BY <1>1
<1>7. Cardinality(Part(t)) = size[t][x] /\ IsFiniteSet(Part(t)) /\ size[t][x] \in Nat
  <2> DEFINE z == size[t][x]
  <2>1. z \in Nat
    BY <1>1, <1>2
  <2> HIDE DEF z
  <2>2. IsFiniteSet(1..z) /\ Cardinality(1..z) = z
    BY <2>1, FS_Interval
  <2>3. IsFiniteSet({t}) /\ Cardinality({t}) = 1
    BY FS_Singleton
  <2>4. IsFiniteSet({t} \X (1..z)) /\ Cardinality({t} \X (1..z)) = 1 * z
    BY <2>2, <2>3, FS_Product
  <2> QED BY <2>1, <2>4 DEF z
<1> DEFINE A == Before(t)  B == Part(t)
<1>8. /\ IsFiniteSet(A) /\ SumBefore(x, t) = Cardinality(A) /\ Cardinality(A) \in Nat
  <2>1. IsFiniteSet(A)
    BY <1>1, <1>3, <1>5, FS_Subset
  <2>2. SumBefore(x, t) = Cardinality(A)
    BY DEF SumBefore
  <2> QED BY <2>1, <2>2, FS_CardinalityType
<1>9. IsFiniteSet(A \cup B) /\ Cardinality(A \cup B) = SumBefore(x, t) + size[t][x]
  <2>1. A \cap B = {} /\ Cardinality(B) = size[t][x] /\ IsFiniteSet(B) /\ size[t][x] \in Nat
    BY <1>6, <1>7
  <2> HIDE DEF A, B
  <2>2. /\ IsFiniteSet(A \cup B)
        /\ Cardinality(A \cup B) = Cardinality(A) + Cardinality(B) - Cardinality(A \cap B)
    BY <1>8, <2>1, FS_Union
  <2>3. Cardinality(A \cap B) = 0
    BY <2>1, FS_EmptySet
  <2> QED BY <1>8, <2>1, <2>2, <2>3
<1>10. SumBefore(x, t) + size[t][x] <= N
  <2>1. A \cup B \in SUBSET Room
    BY <1>1, <1>4, <1>5
  <2> HIDE DEF A, B, Room
  <2>2. Cardinality(A \cup B) <= Cardinality(Room)
    BY <1>3, <2>1, FS_Subset
  <2>3. Cardinality(Room) \in Nat
    BY <1>3, FS_CardinalityType
  <2> QED BY <1>1, <1>3, <1>7, <1>8, <1>9, <2>2, <2>3
<1>11. ASSUME NEW u \in Threads, t < u PROVE SumBefore(x, t) + size[t][x] <= SumBefore(x, u)
  <2> DEFINE C == Before(u)
  <2>1. A \cup B \in SUBSET C
    BY <1>1, <1>11
  <2>2. IsFiniteSet(C)
    <3>1. C \in SUBSET Room
      BY <1>1, <1>5
    <3> HIDE DEF C, Room
    <3> QED BY <1>3, <3>1, FS_Subset
  <2>3. SumBefore(x, u) = Cardinality(C)
    BY DEF SumBefore
  <2> HIDE DEF A, B, C
  <2>4. Cardinality(A \cup B) <= Cardinality(C)
    BY <2>1, <2>2, FS_Subset
  <2> QED BY <1>9, <2>3, <2>4
<1> QED BY <1>10, <1>11

\* For every number of threads asked for and granted, every input, and whatever
\* memory holds that nobody wrote: the pair of index_mat and size that fin_merge
\* copies by is all keys of a bucket in a block and no others; every key of a
\* block is in one of them if no key exceeds the last bound; and the iterations
\* of fin_merge, which run at once, write disjoint parts of a bucket, none past
\* its end.
THEOREM BucketsAlwaysTile == Spec => []BucketsTile
<1>1. IInv => BucketsTile
  <2> SUFFICES ASSUME IInv, DealtOut PROVE BucketsTile
    BY DEF BucketsTile
  <2>1. \A t, x \in Threads :
          Dealt(t, x) = (index_mat[t][x]..index_mat[t][x] + size[t][x] - 1)
    BY TablesExact
  <2>2. ASSUME \A v \in Keys : v <= N, NEW t \in Threads
        PROVE  UNION {index_mat[t][x]..index_mat[t][x] + size[t][x] - 1 : x \in Threads} = 0..n-1
    <3>1. UNION {Dealt(t, x) : x \in Threads} = 0..n-1
      BY <2>2, AllDealt
    <3>2. \A x \in Threads :
            Dealt(t, x) = (index_mat[t][x]..index_mat[t][x] + size[t][x] - 1)
      BY <2>1
    <3> QED BY <3>1, <3>2
  <2>3. ASSUME NEW x \in Threads, NEW t \in Threads
        PROVE  sum[x][t] = SumBefore(x, t)
    BY DEF IInv, Places
  <2>4. \A x, t, u \in Threads :
          /\ sum[x][t] + size[t][x] <= N
          /\ t < u => sum[x][t] + size[t][x] <= sum[x][u]
    BY <2>3, PartsApart
  <2> QED BY <2>1, <2>2, <2>4 DEF BucketsTile
<1> QED BY InitInv, NextInv, <1>1, PTL DEF Spec
=============================================================================
