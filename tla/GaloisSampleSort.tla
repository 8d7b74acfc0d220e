-------------------------- MODULE GaloisSampleSort --------------------------
(***************************************************************************)
(* The Galois sample sort.  main is a sequence of parallel loops           *)
(* (Galois::do_all), each over the thread numbers 0..numThreads-1, with    *)
(* serial code between them.  The iterations of a loop run in any order on *)
(* the worker threads, and do_all returns when all of them have ended.  An *)
(* iteration writes only memory of its own, so it is one step.             *)
(*                                                                         *)
(* The input is cut by the number of threads that was asked for (p); the   *)
(* loops run over the number of threads Galois grants (numThreads), which  *)
(* may be smaller.                                                         *)
(***************************************************************************)
EXTENDS Integers, Sequences, SequencesExt

CONSTANTS p,            \* the number of threads on the command line
          Granted,      \* what Galois::setActiveThreads may return
          Inputs,       \* the arrays to sort
          Garbage       \* the values memory nobody has written may hold

ASSUME ParametersAssumption ==
  /\ p \in Nat \ {0} /\ Granted \subseteq 1..p
  /\ Inputs \subseteq Seq(Nat) /\ Garbage \subseteq Int /\ Garbage # {}

VARIABLES a,            \* the input
          numThreads,   \* the number of threads Galois has granted
          b,            \* b[t], the block of thread t
          gath,         \* the samples
          finpar,       \* the upper bounds of the buckets
          index_mat,    \* where the keys of a bucket begin in a block,
          size,         \*   how many there are,
          sum,          \*   and where they go in the bucket
          bb,           \* bb[k], bucket k
          xo,           \* the sizes of the buckets
          pc, k,        \* where main is, and its loop variable over the buckets
          todo          \* the iterations of the parallel loop that have not run

serial == <<pc, k>>
given == <<a, numThreads>>
vars == <<given, b, gath, finpar, index_mat, size, sum, bb, xo, serial, todo>>

Threads == 0..numThreads-1
N == Len(a)
n == N \div p           \* the code takes ceil of the integer quotient
Unwritten == -2        \* a word of gath that no thread has written

\* qsort of the library: the place of a key among the others, and the key at
\* every place.  compare subtracts: the differences of the words must fit an int.
Rank(s, l) == Cardinality({j \in DOMAIN s : s[j] < s[l] \/ (s[j] = s[l] /\ j <= l)})
qsort(s) == [x \in DOMAIN s |-> s[CHOOSE l \in DOMAIN s : Rank(s, l) = x]]

Init ==
  /\ a \in Inputs /\ numThreads \in Granted
  /\ b = [t \in Threads |-> <<>>]
  /\ gath = [g \in 0..p*(p-1)-1 |-> Unwritten]
  /\ finpar = <<>>
  /\ index_mat = [t \in Threads |-> [x \in Threads |-> -1]]
  /\ size = [t \in Threads |-> [x \in Threads |-> 0]]
  /\ sum = [x \in Threads |-> [t \in Threads |-> 0]]
  /\ bb = [x \in Threads |-> [j \in 0..N-1 |-> 0]]
  /\ xo = [x \in Threads |-> 0]
  /\ pc = "ArrayOp" /\ k = 0
  /\ todo = Threads

\* an iteration of the parallel loop main is in
Iteration(loop, i) == /\ pc = loop /\ i \in todo
                      /\ todo' = todo \ {i}
                      /\ UNCHANGED <<given, serial>>

\* the parallel loop has ended, and the serial code up to `next` is over
Ended(loop, next) == /\ pc = loop /\ todo = {}
                     /\ pc' = next
                     /\ todo' = Threads
                     /\ UNCHANGED <<given, b, bb>>

----------------------------------------------------------------------------
ArrayOp(i) ==
  /\ Iteration("ArrayOp", i)
  /\ b' = [b EXCEPT ![i] = SubSeq(a, i*n + 1, i*n + n)]
  /\ UNCHANGED <<gath, finpar, index_mat, size, sum, bb, xo>>

Copied == /\ Ended("ArrayOp", "Sort")
          /\ UNCHANGED <<gath, finpar, index_mat, size, sum, xo, k>>

Sort(i) ==
  /\ Iteration("Sort", i)
  /\ b' = [b EXCEPT ![i] = qsort(b[i])]
  /\ UNCHANGED <<gath, finpar, index_mat, size, sum, bb, xo>>

\* with one thread main returns here, and prints no bucket
Sorted == /\ Ended("Sort", IF numThreads = 1 THEN "returned" ELSE "gathersplit")
          /\ UNCHANGED <<gath, finpar, index_mat, size, sum, xo, k>>

Every == n \div p + 1

\* j = n/p, then every n/p+1 keys: at most p-1 samples
gathersplit(i) ==
  /\ Iteration("gathersplit", i)
  /\ gath' = [g \in DOMAIN gath |->
       LET x == g - i*(p-1)
       IN  IF x >= 0 /\ Every * (x+1) <= n THEN b[i][Every * (x+1)] ELSE gath[g]]
  /\ UNCHANGED <<b, finpar, index_mat, size, sum, bb, xo>>

LastBound == N

\* main sorts the words that belong to the active threads, whatever those hold
\* that nobody wrote, and takes every p-th; the last bound is the number of keys
ChooseBounds ==
  LET y == numThreads * (p-1) IN
  /\ Ended("gathersplit", "index_cal")
  /\ \E junk \in [{g \in 0..y-1 : gath[g] = Unwritten} -> Garbage] :
       LET word(g) == IF g \in DOMAIN junk THEN junk[g] ELSE gath[g]
           sorted == qsort([g \in 1..y |-> word(g-1)])
       IN
       /\ gath' = [g \in DOMAIN gath |-> IF g < y THEN sorted[g+1] ELSE gath[g]]
       /\ finpar' = [x \in Threads |-> IF x < numThreads - 1 THEN sorted[x*p + p-1]
                                       ELSE LastBound]
  /\ UNCHANGED <<index_mat, size, sum, xo, k>>

\* the bucket of a key: the one with finpar[x-1] < v <= finpar[x], if any
InBucket(v, x) == v <= finpar[x] /\ (x = 0 \/ v > finpar[x-1])

\* where the keys of block i are that go to bucket x, the first they fit into
Dealt(i, x) == {j \in 0..n-1 : InBucket(b[i][j+1], x)
                               /\ \A z \in 0..x-1 : ~InBucket(b[i][j+1], z)}

\* mutated: the index of the last key, not of the first
index_calLast(i) ==
  /\ Iteration("index_cal", i)
  /\ index_mat' = [index_mat EXCEPT ![i] =
       [x \in Threads |-> IF Dealt(i, x) = {} THEN @[x] ELSE Max(Dealt(i, x))]]
  /\ size' = [size EXCEPT ![i] = [x \in Threads |-> @[x] + Cardinality(Dealt(i, x))]]
  /\ UNCHANGED <<b, gath, finpar, sum, bb, xo>>

index_cal(i) ==
  /\ Iteration("index_cal", i)
  /\ index_mat' = [index_mat EXCEPT ![i] =
       [x \in Threads |-> IF Dealt(i, x) = {} THEN @[x] ELSE Min(Dealt(i, x))]]
  /\ size' = [size EXCEPT ![i] = [x \in Threads |-> @[x] + Cardinality(Dealt(i, x))]]
  /\ UNCHANGED <<b, gath, finpar, sum, bb, xo>>

\* mutated: the indexes swapped
SumSwapped(x, t) == Cardinality(UNION {{u} \X (1..size[x][u]) : u \in 0..t-1})

\* the sum of the sizes of bucket x in the blocks before t, as the size of the
\* disjoint union
SumBefore(x, t) == Cardinality(UNION {{u} \X (1..size[u][x]) : u \in 0..t-1})

\* main adds up the sizes over the blocks
PlaceBuckets ==
  /\ Ended("index_cal", "fin_merge")
  /\ sum' = [x \in Threads |-> [t \in Threads |-> SumBefore(x, t)]]
  /\ UNCHANGED <<gath, finpar, index_mat, size, xo, k>>

\* the iteration of the loop over the blocks, in the k-th loop
fin_merge(i) ==
  LET to(xx) == sum[k][i] + xx IN
  /\ Iteration("fin_merge", i)
  /\ bb' = [bb EXCEPT ![k] = [j \in DOMAIN @ |->
       IF j \in to(0)..to(size[i][k]) - 1
       THEN b[i][index_mat[i][k] + j - sum[k][i] + 1] ELSE @[j]]]
  /\ UNCHANGED <<b, gath, finpar, index_mat, size, sum, xo>>

\* main goes on to the next bucket, or sets the sizes of all buckets
BucketMerged ==
  /\ Ended("fin_merge", IF k + 1 < numThreads THEN "fin_merge" ELSE "Sort_post")
  /\ k' = k + 1
  /\ xo' = IF k + 1 < numThreads THEN xo
           ELSE [x \in Threads |-> size[numThreads-1][x] + sum[x][numThreads-1]]
  /\ UNCHANGED <<gath, finpar, index_mat, size, sum>>

\* the keys of bucket x as main prints them
Bucket(x) == [j \in 1..xo[x] |-> bb[x][j-1]]

Sort_post(i) ==
  /\ Iteration("Sort_post", i)
  /\ bb' = [bb EXCEPT ![i] = [j \in DOMAIN @ |->
              IF j < xo[i] THEN qsort(Bucket(i))[j+1] ELSE @[j]]]
  /\ UNCHANGED <<b, gath, finpar, index_mat, size, sum, xo>>

BucketsSorted == /\ Ended("Sort_post", "done")
                 /\ UNCHANGED <<gath, finpar, index_mat, size, sum, xo, k>>

Returned == pc \in {"returned", "done"} /\ UNCHANGED vars

Main == Copied \/ Sorted \/ ChooseBounds \/ PlaceBuckets \/ BucketMerged
        \/ BucketsSorted \/ Returned
Thread(i) == ArrayOp(i) \/ Sort(i) \/ gathersplit(i) \/ index_cal(i)
             \/ fin_merge(i) \/ Sort_post(i)

Next == Main \/ \E i \in Threads : Thread(i)

\* do_all runs every iteration, and main goes on
Spec == Init /\ [][Next]_vars /\ WF_vars(Next)
----------------------------------------------------------------------------
Keys == Range(a)

DealtOut == pc \in {"fin_merge", "Sort_post", "done"}

\* The buckets take the blocks apart: the pair of index_mat and size that
\* fin_merge copies by finds all keys of a bucket in a block and no others, also
\* when a bound is memory nobody wrote; every key of a block goes into a bucket,
\* as long as no key exceeds their number, which is the last bound; and the
\* iterations of fin_merge, which run at once, write disjoint parts of a bucket,
\* none past its end.
BucketsTile ==
  DealtOut =>
    /\ \A t, x \in Threads :
         Dealt(t, x) = (index_mat[t][x]..index_mat[t][x] + size[t][x] - 1)
    /\ (\A v \in Keys : v <= N) =>
         \A t \in Threads :
           UNION {index_mat[t][x]..index_mat[t][x] + size[t][x] - 1 : x \in Threads} = 0..n-1
    /\ \A x, t, u \in Threads :
         /\ sum[x][t] + size[t][x] <= N
         /\ t < u => sum[x][t] + size[t][x] <= sum[x][u]

\* The blocks of the threads: what is left over by the division, and by threads
\* that were asked for and not granted, is never looked at.
Kept == SubSeq(a, 1, n * numThreads)

\* main ends, and has then sorted the kept keys, one bucket after the other
\* (with one thread, in its block), provided no key exceeds their number.
Result == IF pc = "returned" THEN b[0]
          ELSE FlattenSeq([x \in 1..numThreads |-> Bucket(x-1)])
Ends == pc \in {"done", "returned"}
Abstract == INSTANCE ParallelSort WITH
              input <- Kept, output <- IF Ends THEN Result ELSE <<>>, done <- Ends
SortsKept == Abstract!Spec
=============================================================================
