----------------------- MODULE LegionSampleSortProofs -----------------------
(***************************************************************************)
(* The Legion sample sort, for every number of subregions and every input. *)
(*                                                                         *)
(* First, the region requirements alone order the tasks as the algorithm   *)
(* needs.  OrderedByRequirements is not inductive: that no task has ended  *)
(* before the ones it must come after is a fact about all tasks, and that  *)
(* the report is the checker's.                                            *)
(*                                                                         *)
(* Second, where the blocks are equally long, qsort_bucket_task counts     *)
(* exactly.  CountsExact is about the blocks, the bounds and the division  *)
(* of the blocks at once; that a block is sorted, the bounds are, and the  *)
(* division is that of the block as it is now, each from the end of one    *)
(* task on, is inductive together with the order of the tasks.             *)
(*                                                                         *)
(* Third, tasks that the requirements let run at the same time never race: *)
(* the buckets lie in the output one after the other.                      *)
(***************************************************************************)
EXTENDS LegionSampleSort, SequenceTheorems, FiniteSetTheorems, WellFoundedInduction, TLAPS

checker == <<"checker_task", 0>>

\* No task has ended before one that interferes with it and was launched
\* earlier; only the checker reports.
InOrder ==
  /\ \A t \in ended, u \in AllTasks : MustPrecede(u, t) => u \in ended
  /\ report # "none" => checker \in ended

\* The five launches have names of their own.
LEMMA LaunchAt ==
  /\ DOMAIN Launches = 1..5
  /\ Launches[1] = "qsort" /\ Launches[2] = "one_task" /\ Launches[3] = "p_bucket_task"
  /\ Launches[4] = "qsort_bucket_task" /\ Launches[5] = "checker_task"
  BY DEF Launches

\* The point tasks of a launch are tasks.
LEMMA TaskOf ==
  ASSUME NEW l \in DOMAIN Launches, NEW c \in Points(Launches[l])
  PROVE  <<Launches[l], c>> \in AllTasks
  BY DEF AllTasks, Tasks

\* The samples are read by the task that chooses the bounds.
LEMMA SamplesFirst ==
  ASSUME NEW c \in Subregions
  PROVE  MustPrecede(<<"qsort", c>>, <<"one_task", 0>>)
<1> DEFINE q == Needs("splitter", {c}, "WRITE_DISCARD", "EXCLUSIVE")
           r == Needs("splitter", All, "READ_ONLY", "EXCLUSIVE")
<1>1. q \in Requirements("qsort", c) /\ r \in Requirements("one_task", 0)
  BY DEF Requirements, QsortNeeds, OneTaskNeeds
<1>2. Interfere(q, r)
  BY DEF Interfere, Needs, All
<1> HIDE DEF q, r
<1> QED BY <1>1, <1>2, LaunchAt DEF MustPrecede

\* Every bucket task reads the whole of split_index.
LEMMA DivisionFirst ==
  ASSUME NEW c \in Subregions, NEW s \in Subregions
  PROVE  MustPrecede(<<"p_bucket_task", c>>, <<"qsort_bucket_task", s>>)
<1> DEFINE q == Needs("split_index", {c}, "WRITE_DISCARD", "EXCLUSIVE")
           r == Needs("split_index", All, "READ_ONLY", "SIMULTANEOUS")
<1>1. q \in Requirements("p_bucket_task", c) /\ r \in Requirements("qsort_bucket_task", s)
  BY DEF Requirements, PBucketNeeds, QsortBucketNeeds
<1>2. Interfere(q, r)
  BY DEF Interfere, Needs, All
<1> HIDE DEF q, r
<1> QED BY <1>1, <1>2, LaunchAt DEF MustPrecede

\* The output does not order the checker: the bucket tasks may only read it.
\* The sizes of the buckets do.
LEMMA BucketsFirst ==
  ASSUME NEW s \in Subregions
  PROVE  MustPrecede(<<"qsort_bucket_task", s>>, checker)
<1> DEFINE q == Needs("one_per_bucket", {s}, "READ_WRITE", "EXCLUSIVE")
           r == Needs("one_per_bucket", All, "READ_ONLY", "EXCLUSIVE")
<1>1. q \in Requirements("qsort_bucket_task", s) /\ r \in Requirements("checker_task", 0)
  BY DEF Requirements, QsortBucketNeeds, CheckerNeeds
<1>2. Interfere(q, r)
  BY DEF Interfere, Needs, All
<1> HIDE DEF q, r
<1> QED BY <1>1, <1>2, LaunchAt DEF MustPrecede, checker

\* A task that runs has waited for those it must come after.
LEMMA RunsInOrder ==
  ASSUME NEW kind, NEW c, InOrder, Runs(kind, c), report' = report \/ <<kind, c>> = checker
  PROVE  InOrder'
<1>1. ended' = ended \cup {<<kind, c>>} /\ MayRun(<<kind, c>>)
  BY DEF Runs
<1>2. AllTasks' = AllTasks
  BY DEF AllTasks
<1>3. ASSUME NEW t \in ended', NEW u \in AllTasks, MustPrecede(u, t) PROVE u \in ended'
  BY <1>1, <1>3 DEF MayRun, InOrder
<1> QED BY <1>1, <1>2, <1>3 DEF InOrder

LEMMA InitOrder == Init => InOrder
  BY DEF Init, InOrder

LEMMA NextOrder == InOrder /\ [Next]_vars => InOrder'
<1> SUFFICES ASSUME InOrder, [Next]_vars PROVE InOrder'
  OBVIOUS
<1>1. CASE Launch
  BY <1>1 DEF Launch, InOrder
<1>2. ASSUME NEW c \in Subregions, qsort_task(c) PROVE InOrder'
  BY <1>2, RunsInOrder DEF qsort_task
<1>3. ASSUME NEW c \in Subregions, p_bucket_task(c) PROVE InOrder'
  BY <1>3, RunsInOrder DEF p_bucket_task
<1>4. ASSUME NEW c \in Subregions, qsort_bucket_task(c) PROVE InOrder'
  BY <1>4, RunsInOrder DEF qsort_bucket_task
<1>5. CASE one_task
  BY <1>5, RunsInOrder DEF one_task
<1>6. CASE checker_task
  BY <1>6, RunsInOrder DEF checker_task, checker
<1>7. CASE UNCHANGED vars
  BY <1>7 DEF vars, InOrder
<1> QED BY <1>1, <1>2, <1>3, <1>4, <1>5, <1>6, <1>7 DEF Next, Ended

\* The requirements order the tasks as the algorithm needs them, however many
\* subregions there are and whatever the keys: the bounds are chosen from the
\* samples of all blocks, a bucket is collected when all blocks are divided,
\* and the checker comes after the last write of the output.
THEOREM RequirementsOrder == Spec => []OrderedByRequirements
<1>1. InOrder => OrderedByRequirements
  <2> SUFFICES ASSUME InOrder PROVE OrderedByRequirements
    OBVIOUS
  <2>1. /\ Points("qsort") = Subregions /\ Points("p_bucket_task") = Subregions
        /\ Points("qsort_bucket_task") = Subregions
    BY DEF Points
  <2>2. \A s \in Subregions : /\ <<"qsort", s>> \in AllTasks
                              /\ <<"p_bucket_task", s>> \in AllTasks
                              /\ <<"qsort_bucket_task", s>> \in AllTasks
    BY <2>1, LaunchAt, TaskOf
  <2>3. <<"one_task", 0>> \in ended => HasEnded("qsort")
    BY <2>1, <2>2, SamplesFirst DEF InOrder, HasEnded
  <2>4. ASSUME NEW s \in Subregions, <<"qsort_bucket_task", s>> \in ended
        PROVE  HasEnded("p_bucket_task")
    BY <2>1, <2>2, <2>4, DivisionFirst DEF InOrder, HasEnded
  <2>5. report # "none" => HasEnded("qsort_bucket_task")
    BY <2>1, <2>2, BucketsFirst DEF InOrder, HasEnded
  <2> QED BY <2>3, <2>4, <2>5 DEF OrderedByRequirements
<1> QED BY InitOrder, NextOrder, <1>1, PTL DEF Spec

----------------------------------------------------------------------------
\* Numbers have a least one.
LEMMA LeastNatural ==
  ASSUME NEW T, T \subseteq Nat, T # {}
  PROVE  \E m \in T : \A k \in T : m <= k
<1>1. PICK m \in T : \A k \in T : ~ (<<k, m>> \in OpToRel(<, Nat))
  BY NatLessThanWellFounded, WFMin
<1>2. \A k \in T : ~ (k < m)
  BY <1>1 DEF OpToRel
<1> QED BY <1>2

\* Min picks the least of numbers.
LEMMA MinOf ==
  ASSUME NEW T, T \subseteq Nat, T # {}
  PROVE  Min(T) \in T /\ \A k \in T : Min(T) <= k
  BY LeastNatural DEF Min

(***************************************************************************)
(* Blocks of equal length.                                                 *)
(***************************************************************************)
FileOK == file \in Seq(Nat) /\ num_elements >= num_subregions

m == lower_bound
P == num_subregions

\* What Even means: every subregion has m keys, and block c begins after c * m.
LEMMA BlocksEven ==
  ASSUME FileOK, Even
  PROVE  /\ P \in Nat /\ P > 1 /\ m \in Nat \ {0} /\ num_elements = P * m
         /\ \A c \in Subregions : BlockSize(c) = m /\ Start(c) = c * m
<1>1. P \in Nat /\ P > 1 /\ num_elements \in Nat /\ num_elements >= P
  BY ParametersAssumption DEF FileOK, num_elements, P
<1>2. num_elements % P = 0
  BY DEF Even, P
<1>3. m \in Nat /\ num_elements = P * m + 0
  <2> DEFINE N == num_elements
  <2>1. N \in Nat /\ m = N \div P
    BY <1>1 DEF m, lower_bound, P
  <2> HIDE DEF N
  <2>2. N = P * (N \div P) + (N % P) /\ N \div P \in Nat
    BY <1>1, <2>1, SMT
  <2> QED BY <1>2, <2>1, <2>2 DEF N
<1>4. m # 0
  BY <1>1, <1>3
<1>5. number_small = P
  BY <1>1, <1>2 DEF number_small, P
<1>6. ASSUME NEW c \in Subregions PROVE BlockSize(c) = m /\ Start(c) = c * m
  <2>1. c \in Nat /\ c < P
    BY <1>1 DEF Subregions, P
  <2>2. c * m \in Nat
    BY <1>3, <2>1
  <2> QED BY <1>1, <1>3, <1>5, <2>1, <2>2 DEF BlockSize, Start, m
<1> QED BY <1>1, <1>3, <1>4, <1>6

\* A block lies within the array.
LEMMA BlockInside ==
  ASSUME FileOK, Even, NEW c \in Subregions, NEW k \in 1..m
  PROVE  c * m + k \in 1..num_elements
<1>1. /\ P \in Nat /\ P > 1 /\ m \in Nat \ {0} /\ num_elements = P * m
      /\ c \in Nat /\ c + 1 <= P
  BY BlocksEven DEF Subregions, P
<1>2. (c + 1) * m <= P * m /\ c * m \in Nat /\ (c + 1) * m = c * m + m
  BY <1>1, SMT
<1> QED BY <1>1, <1>2

\* no element is in two blocks
LEMMA BlocksApart ==
  ASSUME FileOK, Even, NEW c \in Subregions, NEW d \in Subregions, c # d,
         NEW k \in 1..m
  PROVE  c * m + k \notin d * m + 1..d * m + m
<1>1. m \in Nat \ {0} /\ c \in Nat /\ d \in Nat /\ k \in Nat
  BY BlocksEven DEF Subregions
<1>2. c * m \in Nat /\ d * m \in Nat
  BY <1>1
<1>3. CASE c < d
  <2>1. (c + 1) * m <= d * m /\ (c + 1) * m = c * m + m
    BY <1>1, <1>3, SMT
  <2> QED BY <1>1, <1>2, <2>1
<1>4. CASE d < c
  <2>1. (d + 1) * m <= c * m /\ (d + 1) * m = d * m + m
    BY <1>1, <1>4, SMT
  <2> QED BY <1>1, <1>2, <2>1
<1> QED BY <1>1, <1>3, <1>4

----------------------------------------------------------------------------
(***************************************************************************)
(* The bucket of a key: BucketAt scans the block from its beginning, so it *)
(* never goes back; in a sorted block with sorted bounds, it is the bucket *)
(* whose bounds the key lies between.                                      *)
(***************************************************************************)
Keys(blk) == \A k \in 1..m : blk[k] \in Int
InOrderUpTo(f, len) == \A k, l \in 1..len : k <= l => f[k] <= f[l]
BoundsTyped == g_splitters \in [1..P-1 -> Int]

Between(v, s) == /\ s > 0 => v >= g_splitters[s]
                 /\ s < num_subregions - 1 => v < g_splitters[s+1]

Short(blk, k, s) == s = P-1 \/ \A l \in 1..k : blk[l] < g_splitters[s+1]

\* The scan stops at the first bucket that all keys so far are short of.
LEMMA BucketAtLeast ==
  ASSUME P \in Nat, P > 1, NEW blk, NEW k \in Nat
  PROVE  /\ BucketAt(blk, k) \in 0..P-1
         /\ Short(blk, k, BucketAt(blk, k))
         /\ \A s \in 0..P-1 : Short(blk, k, s) => BucketAt(blk, k) <= s
<1> DEFINE T == {s \in 0..P-1 : Short(blk, k, s)}
<1>1. T \subseteq Nat /\ P-1 \in T
  BY DEF Short
<1>2. BucketAt(blk, k) = Min(T)
  BY DEF BucketAt, Subregions, P, Short
<1>3. Min(T) \in T /\ \A s \in T : Min(T) <= s
  BY <1>1, MinOf
<1> QED BY <1>2, <1>3

\* From key to key, the bucket of the scan never goes back.
LEMMA BucketsAscend ==
  ASSUME P \in Nat, P > 1, NEW blk, NEW k \in Nat, NEW l \in Nat, k <= l
  PROVE  BucketAt(blk, k) <= BucketAt(blk, l)
<1>1. /\ BucketAt(blk, l) \in 0..P-1 /\ Short(blk, l, BucketAt(blk, l))
      /\ \A s \in 0..P-1 : Short(blk, k, s) => BucketAt(blk, k) <= s
  BY BucketAtLeast
<1>2. \A s : Short(blk, l, s) => Short(blk, k, s)
  BY DEF Short
<1> QED BY <1>1, <1>2

\* In a sorted block, with sorted bounds, that bucket is the one of the key.
LEMMA BucketOfKey ==
  ASSUME P \in Nat, P > 1, m \in Nat, BoundsTyped, InOrderUpTo(g_splitters, P-1),
         NEW blk, Keys(blk), InOrderUpTo(blk, m),
         NEW k \in 1..m, NEW s \in 0..P-1
  PROVE  BucketAt(blk, k) = s <=> Between(blk[k], s)
<1> DEFINE b == BucketAt(blk, k)  g == g_splitters
<1>1. /\ b \in 0..P-1 /\ Short(blk, k, b)
      /\ \A t \in 0..P-1 : Short(blk, k, t) => b <= t
  BY BucketAtLeast
<1>2. /\ \A l \in 1..m : blk[l] \in Int
      /\ \A l \in 1..k : l \in 1..m /\ blk[l] <= blk[k]
      /\ \A t \in 1..P-1 : g[t] \in Int
      /\ \A t, u \in 1..P-1 : t <= u => g[t] <= g[u]
  BY DEF Keys, InOrderUpTo, BoundsTyped
<1>3. \A t : Short(blk, k, t) <=> t = P-1 \/ \A l \in 1..k : blk[l] < g[t+1]
  BY DEF Short
<1>4. Between(blk[k], s) <=> /\ s > 0 => blk[k] >= g[s]
                             /\ s < P - 1 => blk[k] < g[s+1]
  BY DEF Between, P
<1>5. k \in 1..k
  OBVIOUS
<1> HIDE DEF b, g
<1>6. ASSUME b = s PROVE Between(blk[k], s)
  <2>1. s < P - 1 => blk[k] < g[s+1]
    BY <1>1, <1>3, <1>5, <1>6
  <2>2. ASSUME s > 0 PROVE blk[k] >= g[s]
    <3>1. s - 1 \in 0..P-1 /\ ~ (b <= s - 1) /\ s - 1 # P-1 /\ (s - 1) + 1 = s
      BY <1>1, <1>6, <2>2
    <3>2. ~ Short(blk, k, s - 1)
      BY <1>1, <3>1
    <3>3. PICK l \in 1..k : ~ (blk[l] < g[s])
      BY <1>3, <3>1, <3>2
    <3>4. s \in 1..P-1
      BY <2>2
    <3> QED BY <1>2, <3>3, <3>4
  <2> QED BY <1>4, <2>1, <2>2
<1>7. ASSUME Between(blk[k], s) PROVE b = s
  <2>1. Short(blk, k, s)
    <3>1. CASE s = P - 1
      BY <1>3, <3>1
    <3>2. CASE s < P - 1
      <4>1. blk[k] < g[s+1] /\ s+1 \in 1..P-1
        BY <1>4, <1>7, <3>2
      <4>2. \A l \in 1..k : blk[l] < g[s+1]
        BY <1>2, <4>1
      <4> QED BY <1>3, <4>2
    <3> QED BY <3>1, <3>2
  <2>2. b <= s
    BY <1>1, <2>1
  <2>3. ASSUME b < s PROVE FALSE
    <3>1. b # P-1 /\ b+1 \in 1..P-1 /\ s \in 1..P-1 /\ b+1 <= s
      BY <1>1, <2>3
    <3>2. blk[k] < g[b+1]
      BY <1>1, <1>3, <1>5, <3>1
    <3>3. blk[k] >= g[s]
      BY <1>4, <1>7, <3>1
    <3> QED BY <1>2, <3>1, <3>2, <3>3
  <2> QED BY <1>1, <2>2, <2>3
<1> QED BY <1>6, <1>7 DEF b

----------------------------------------------------------------------------
(***************************************************************************)
(* What split_index says of a block, and what qsort_bucket_task makes of   *)
(* it: the keys of a bucket are those from its own index up to that of the *)
(* next bucket that has keys.                                              *)
(***************************************************************************)
At(blk, s) == {k \in 1..m : BucketAt(blk, k) = s}
Division(blk) == [s \in Subregions |-> IF At(blk, s) = {} THEN -1 ELSE Min(At(blk, s)) - 1]

\* The keys of a bucket are consecutive: they run from its index to that of the
\* next bucket with keys, which is what ElementsIn counts; -1 marks the others.
LEMMA CountedInBlock ==
  ASSUME P \in Nat, P > 1, m \in Nat, NEW blk, NEW c, split_index[c] = Division(blk),
         NEW s \in Subregions
  PROVE  /\ At(blk, s) # {} => split_index[c][s] # -1
                               /\ ElementsIn(c, s) = Cardinality(At(blk, s))
         /\ At(blk, s) = {} => split_index[c][s] = -1 /\ Cardinality(At(blk, s)) = 0
         /\ Cardinality(At(blk, s)) \in Nat
<1>1. Subregions = 0..P-1
  BY DEF Subregions, P
<1>2. \A t \in 0..P-1 : At(blk, t) \subseteq Nat
  BY DEF At
<1>3. ASSUME NEW t \in 0..P-1, At(blk, t) # {}
      PROVE  /\ Min(At(blk, t)) \in At(blk, t) /\ Min(At(blk, t)) \in 1..m
             /\ \A k \in At(blk, t) : Min(At(blk, t)) <= k
  <2>1. Min(At(blk, t)) \in At(blk, t) /\ \A k \in At(blk, t) : Min(At(blk, t)) <= k
    BY <1>2, <1>3, MinOf
  <2> QED BY <2>1 DEF At
<1>4. \A t \in 0..P-1 :
        split_index[c][t] = IF At(blk, t) = {} THEN -1 ELSE Min(At(blk, t)) - 1
  BY <1>1 DEF Division
<1>5. \A t \in 0..P-1 : split_index[c][t] # -1 <=> At(blk, t) # {}
  BY <1>3, <1>4
<1>6. \A k \in 1..m : BucketAt(blk, k) \in 0..P-1
  BY BucketAtLeast
<1>7. \A k, l \in 1..m : k <= l => BucketAt(blk, k) <= BucketAt(blk, l)
  BY BucketsAscend
<1>8. ASSUME At(blk, s) = {} PROVE split_index[c][s] = -1 /\ Cardinality(At(blk, s)) = 0
  BY <1>1, <1>4, <1>8, FS_EmptySet
<1>9. ASSUME At(blk, s) # {}
      PROVE  /\ split_index[c][s] # -1 /\ ElementsIn(c, s) = Cardinality(At(blk, s))
             /\ Cardinality(At(blk, s)) \in Nat
  <2> DEFINE later == {t \in s+1..num_subregions-1 : split_index[c][t] # -1}
             first == Min(At(blk, s))
             next == (IF later = {} THEN m ELSE split_index[c][Min(later)]) + 1
  <2>1. later = {t \in s+1..P-1 : At(blk, t) # {}}
    BY <1>1, <1>5 DEF P
  <2>2. later \subseteq Nat
    BY <1>1
  <2>3. /\ first \in At(blk, s) /\ first \in 1..m /\ split_index[c][s] = first - 1
        /\ \A k \in At(blk, s) : first <= k
    BY <1>1, <1>3, <1>4, <1>9
  <2> HIDE DEF later, first
  <2> DEFINE Together == next \in Nat /\ first < next /\ At(blk, s) = first..next - 1
  <2>4. ASSUME later = {} PROVE Together
    <3>1. next = m + 1
      BY <2>4
    <3>2. ASSUME NEW k \in first..m PROVE BucketAt(blk, k) = s
      <4>1. k \in 1..m /\ BucketAt(blk, first) = s
        BY <2>3 DEF At
      <4>2. BucketAt(blk, k) \in 0..P-1 /\ s <= BucketAt(blk, k)
        BY <1>6, <1>7, <2>3, <4>1
      <4>3. k \in At(blk, BucketAt(blk, k))
        BY <4>1 DEF At
      <4> QED BY <1>1, <2>1, <2>4, <4>2, <4>3
    <3> HIDE DEF next
    <3>3. At(blk, s) = first..next - 1
      <4>1. \A k \in At(blk, s) : k \in first..next - 1
        BY <2>3, <3>1 DEF At
      <4>2. \A k \in first..next - 1 : k \in At(blk, s)
        BY <2>3, <3>1, <3>2 DEF At
      <4> QED BY <4>1, <4>2
    <3>4. next \in Nat /\ first < next
      BY <2>3, <3>1
    <3> QED BY <3>3, <3>4
  <2>5. ASSUME later # {} PROVE Together
    <3> DEFINE t == Min(later)
    <3>1. t \in later /\ \A u \in later : t <= u
      BY <2>2, <2>5, MinOf
    <3>10. next = split_index[c][t] + 1
      BY <2>5
    <3> HIDE DEF t, next
    <3>2. t \in 0..P-1 /\ s < t /\ At(blk, t) # {}
      BY <1>1, <2>1, <3>1
    <3>3. next = Min(At(blk, t)) /\ next \in At(blk, t) /\ next \in 1..m
          /\ \A k \in At(blk, t) : next <= k
      <4>1. split_index[c][t] = Min(At(blk, t)) - 1 /\ Min(At(blk, t)) \in 1..m
        BY <1>3, <1>4, <3>2
      <4>2. next = Min(At(blk, t))
        BY <3>10, <4>1
      <4> QED BY <1>3, <3>2, <4>2
    <3>4. BucketAt(blk, next) = t /\ BucketAt(blk, first) = s
      BY <2>3, <3>3 DEF At
    <3>5. first < next
      BY <1>1, <1>7, <2>3, <3>2, <3>3, <3>4
    <3>6. ASSUME NEW k \in first..next-1 PROVE k \in At(blk, s)
      <4>1. k \in 1..m
        BY <2>3, <3>3
      <4> DEFINE b == BucketAt(blk, k)
      <4>2. b \in 0..P-1 /\ s <= b /\ b <= t /\ k \in At(blk, b)
        BY <1>6, <1>7, <2>3, <3>3, <3>4, <4>1 DEF At
      <4> HIDE DEF b
      <4>3. b # t
        BY <3>3, <4>2
      <4>4. b > s => b \in later
        BY <1>1, <2>1, <4>2
      <4>5. b = s
        BY <1>1, <3>1, <3>2, <4>2, <4>3, <4>4
      <4> QED BY <4>2, <4>5
    <3>7. ASSUME NEW k \in At(blk, s) PROVE k \in first..next-1
      <4>1. k \in 1..m /\ BucketAt(blk, k) = s
        BY DEF At
      <4>2. ~ (next <= k)
        BY <1>1, <1>7, <3>2, <3>3, <3>4, <4>1
      <4> QED BY <2>3, <3>3, <4>1, <4>2
    <3>8. At(blk, s) = first..next - 1
      BY <3>6, <3>7
    <3> QED BY <3>3, <3>5, <3>8
  <2>6. Together
    BY <2>4, <2>5
  <2>7. ElementsIn(c, s) = (next - 1) - split_index[c][s]
    <3> DEFINE x == IF later = {} THEN m ELSE split_index[c][Min(later)]
    <3>1. ElementsIn(c, s) = x - split_index[c][s]
      BY DEF ElementsIn, m, later
    <3>2. next = x + 1
      OBVIOUS
    <3>3. x \in Int
      <4>1. ASSUME later # {} PROVE split_index[c][Min(later)] \in Int
        <5>1. Min(later) \in later
          BY <2>2, <4>1, MinOf
        <5> DEFINE t == Min(later)
        <5> HIDE DEF t
        <5>2. t \in later
          BY <5>1 DEF t
        <5>3. t \in 0..P-1 /\ At(blk, t) # {}
          BY <1>1, <2>1, <5>2
        <5>4. split_index[c][t] \in Int
          BY <1>3, <1>4, <5>3
        <5> QED BY <5>4 DEF t
      <4> QED BY <4>1
    <3> HIDE DEF x, next
    <3> QED BY <3>1, <3>2, <3>3
  <2> HIDE DEF next, first
  <2>8. Cardinality(first..next - 1) = next - first
    BY <2>3, <2>6, FS_Interval
  <2> QED BY <2>3, <2>6, <2>7, <2>8
<1> QED BY <1>8, <1>9

----------------------------------------------------------------------------
(***************************************************************************)
(* The inductive invariant: what the tasks that have ended leave behind.   *)
(***************************************************************************)
Samples == P * (P-1)

DataOK ==
  /\ input \in Seq(Nat) /\ Len(input) = num_elements
  /\ splitter \in [1..Samples -> Int]
  /\ BoundsTyped
  /\ split_index \in [Subregions -> [Subregions -> Int]]

BlocksSorted ==
  \A c \in Subregions : <<"qsort", c>> \in ended =>
    \A k, l \in 1..m : k <= l => input[c * m + k] <= input[c * m + l]

BoundsSorted == <<"one_task", 0>> \in ended => InOrderUpTo(g_splitters, P-1)

Divided ==
  \A c \in Subregions :
    <<"p_bucket_task", c>> \in ended => split_index[c] = Division(Block(c))

DataInv == /\ InOrder /\ FileOK
           /\ Even => DataOK /\ BlocksSorted /\ BoundsSorted /\ Divided

\* a block is divided after it and the bounds are there
LEMMA BlockFirst ==
  ASSUME NEW c \in Subregions
  PROVE  MustPrecede(<<"qsort", c>>, <<"p_bucket_task", c>>)
<1> DEFINE q == Needs("input", {c}, "WRITE_DISCARD", "EXCLUSIVE")
           r == Needs("input", {c}, "READ_ONLY", "EXCLUSIVE")
<1>1. q \in Requirements("qsort", c) /\ r \in Requirements("p_bucket_task", c)
  BY DEF Requirements, QsortNeeds, PBucketNeeds
<1>2. Interfere(q, r)
  BY DEF Interfere, Needs
<1> HIDE DEF q, r
<1> QED BY <1>1, <1>2, LaunchAt DEF MustPrecede

\* the same for the bounds
LEMMA BoundsFirst ==
  ASSUME NEW c \in Subregions
  PROVE  MustPrecede(<<"one_task", 0>>, <<"p_bucket_task", c>>)
<1> DEFINE q == Needs("g_splitters", All, "WRITE_DISCARD", "EXCLUSIVE")
           r == Needs("g_splitters", All, "READ_ONLY", "EXCLUSIVE")
<1>1. q \in Requirements("one_task", 0) /\ r \in Requirements("p_bucket_task", c)
  BY DEF Requirements, OneTaskNeeds, PBucketNeeds
<1>2. Interfere(q, r)
  BY DEF Interfere, Needs, All
<1> HIDE DEF q, r
<1> QED BY <1>1, <1>2, LaunchAt DEF MustPrecede

\* A block that is divided was sorted before, and the bounds were chosen.
LEMMA DividedLast ==
  ASSUME InOrder, NEW c \in Subregions, <<"p_bucket_task", c>> \in ended
  PROVE  <<"qsort", c>> \in ended /\ <<"one_task", 0>> \in ended
<1>1. /\ Points("qsort") = Subregions /\ Points("one_task") = {0}
  BY DEF Points
<1>2. <<"qsort", c>> \in AllTasks /\ <<"one_task", 0>> \in AllTasks
  BY <1>1, LaunchAt, TaskOf
<1> QED BY <1>2, BlockFirst, BoundsFirst DEF InOrder

BlockOf(s, c) == SubSeq(s, Start(c) + 1, Start(c) + BlockSize(c))

\* what the block of an array holds
LEMMA BlockOfIs ==
  ASSUME FileOK, Even, NEW s \in Seq(Nat), Len(s) = num_elements, NEW c \in Subregions
  PROVE  /\ BlockOf(s, c) \in Seq(Nat) /\ Len(BlockOf(s, c)) = m
         /\ \A k \in 1..m : BlockOf(s, c)[k] = s[c * m + k] /\ BlockOf(s, c)[k] \in Nat
<1>1. m \in Nat \ {0} /\ BlockSize(c) = m /\ Start(c) = c * m /\ c \in Nat
  BY BlocksEven DEF Subregions
<1> DEFINE f == c * m
<1>2. f \in Nat
  BY <1>1
<1>3. \A k \in 1..m : f + k \in 1..Len(s)
  BY BlockInside
<1>4. BlockOf(s, c) = SubSeq(s, f + 1, f + m)
  BY <1>1 DEF BlockOf
<1> HIDE DEF f
<1>5. \A j \in f + 1..f + m : s[j] \in Nat
  <2> SUFFICES ASSUME NEW j \in f + 1..f + m PROVE s[j] \in Nat
    OBVIOUS
  <2>1. j - f \in 1..m /\ f + (j - f) = j
    BY <1>1, <1>2
  <2>2. j \in 1..Len(s)
    BY <1>3, <2>1
  <2> QED BY <2>2, ElementOfSeq
<1>6. f + 1 \in Int /\ f + m \in Int
  BY <1>1, <1>2
<1>7. /\ SubSeq(s, f + 1, f + m) \in Seq(Nat)
      /\ Len(SubSeq(s, f + 1, f + m)) = IF f + 1 <= f + m THEN (f + m) - (f + 1) + 1 ELSE 0
      /\ \A k \in 1..(f + m) - (f + 1) + 1 :
           SubSeq(s, f + 1, f + m)[k] = s[(f + 1) + k - 1]
  BY <1>5, <1>6, SubSeqProperties
<1>8. (f + m) - (f + 1) + 1 = m /\ f + 1 <= f + m /\ \A k \in 1..m : (f + 1) + k - 1 = f + k
  BY <1>1, <1>2
<1>9. /\ BlockOf(s, c) \in Seq(Nat) /\ Len(BlockOf(s, c)) = m
      /\ \A k \in 1..m : BlockOf(s, c)[k] = s[f + k]
  BY <1>4, <1>7, <1>8
<1>10. \A k \in 1..m : BlockOf(s, c)[k] \in Nat
  BY <1>9, ElementOfSeq
<1> QED BY <1>9, <1>10 DEF f

\* what the block of the input holds
LEMMA BlockIs ==
  ASSUME FileOK, Even, DataOK, NEW c \in Subregions
  PROVE  /\ Block(c) \in Seq(Nat) /\ Len(Block(c)) = m
         /\ \A k \in 1..m : Block(c)[k] = input[c * m + k] /\ Block(c)[k] \in Nat
<1>1. Block(c) = BlockOf(input, c)
  BY DEF Block, BlockOf
<1> QED BY <1>1, BlockOfIs DEF DataOK

\* two sequences of the same length with the same elements divide alike
LEMMA DivisionSame ==
  ASSUME NEW blk, NEW other, m \in Nat, \A k \in 1..m : blk[k] = other[k]
  PROVE  Division(blk) = Division(other)
<1>1. ASSUME NEW k \in 1..m PROVE BucketAt(blk, k) = BucketAt(other, k)
  <2>1. \A l \in 1..k : blk[l] = other[l]
    OBVIOUS
  <2> QED BY <2>1 DEF BucketAt
<1>2. \A s : At(blk, s) = At(other, s)
  BY <1>1 DEF At
<1> QED BY <1>2 DEF Division

\* DataInv holds before any task has run.
LEMMA InitData == Init => DataInv
<1> SUFFICES ASSUME Init PROVE DataInv
  OBVIOUS
<1>1. FileOK
  BY ParametersAssumption DEF Init, FileOK, num_elements
<1>2. ASSUME Even PROVE DataOK
  <2>1. P \in Nat /\ P > 1
    BY <1>1, <1>2, BlocksEven
  <2> QED BY <1>1, <2>1 DEF Init, DataOK, Samples, P, BoundsTyped, FileOK, num_elements, Unset
<1>3. BlocksSorted /\ BoundsSorted /\ Divided
  BY DEF Init, BlocksSorted, BoundsSorted, Divided
<1> QED BY <1>1, <1>2, <1>3, InitOrder DEF DataInv

\* steps that leave what a task has made alone
LEMMA DataKept ==
  ASSUME DataInv, InOrder', UNCHANGED <<file, input, g_splitters, splitter, split_index>>,
         \A d : /\ <<"qsort", d>> \in ended' <=> <<"qsort", d>> \in ended
                /\ <<"one_task", d>> \in ended' <=> <<"one_task", d>> \in ended
                /\ <<"p_bucket_task", d>> \in ended' <=> <<"p_bucket_task", d>> \in ended
  PROVE  DataInv'
<1>1. /\ FileOK' = FileOK /\ Even' = Even /\ m' = m /\ P' = P /\ num_elements' = num_elements
      /\ DataOK' = DataOK
  BY DEF FileOK, Even, m, lower_bound, P, num_elements, DataOK, Samples, BoundsTyped
<1>2. \A d : Block(d)' = Block(d)
  BY DEF Block, Start, BlockSize, number_small, lower_bound, num_elements
<1>3. \A blk : Division(blk)' = Division(blk)
  BY <1>1 DEF Division, At, BucketAt
<1>4. \A d : /\ <<"qsort", d>> \in ended' <=> <<"qsort", d>> \in ended
             /\ <<"one_task", d>> \in ended' <=> <<"one_task", d>> \in ended
             /\ <<"p_bucket_task", d>> \in ended' <=> <<"p_bucket_task", d>> \in ended
  OBVIOUS
<1>5. BlocksSorted' <=> BlocksSorted
  BY <1>1, <1>4 DEF BlocksSorted
<1>6. BoundsSorted' <=> BoundsSorted
  BY <1>1, <1>4 DEF BoundsSorted, InOrderUpTo
<1>7. Divided' <=> Divided
  BY <1>2, <1>3, <1>4 DEF Divided
<1> QED BY <1>1, <1>5, <1>6, <1>7 DEF DataInv

\* A function on 1..len is a sequence.
LEMMA FunctionIsSeq ==
  ASSUME NEW S, NEW len \in Nat, NEW f \in [1..len -> S]
  PROVE  f \in Seq(S) /\ Len(f) = len
<1>1. f \in Seq(S)
  BY SeqDef
<1> QED BY <1>1, LenProperties

\* what qsort keeps of its argument
LEMMA SortedIs ==
  ASSUME NEW S, NEW s \in Seq(S), NEW t \in qsort(s)
  PROVE  /\ t \in Seq(S) /\ Len(t) = Len(s) /\ t \in [1..Len(s) -> S]
         /\ InOrderUpTo(t, Len(s))
<1>1. Len(s) \in Nat /\ DOMAIN s = 1..Len(s) /\ \A k \in 1..Len(s) : s[k] \in S
  BY LenProperties, ElementOfSeq
<1>2. Range(s) \subseteq S
  BY <1>1 DEF Range
<1>3. t \in [1..Len(s) -> Range(s)] /\ InOrderUpTo(t, Len(s))
  BY DEF qsort, InOrderUpTo
<1>4. t \in [1..Len(s) -> S]
  BY <1>2, <1>3
<1> QED BY <1>1, <1>3, <1>4, FunctionIsSeq

\* Writing over a part of a sequence leaves its length and the rest alone.
LEMMA OverwriteIs ==
  ASSUME NEW S, NEW s \in Seq(S), NEW from \in Nat, NEW t \in Seq(S)
  PROVE  /\ Overwrite(s, from, t) \in Seq(S) /\ Len(Overwrite(s, from, t)) = Len(s)
         /\ Overwrite(s, from, t) \in [1..Len(s) -> S]
         /\ \A k \in 1..Len(s) :
              Overwrite(s, from, t)[k] = IF k \in from+1..from+Len(t) THEN t[k - from] ELSE s[k]
<1>1. /\ Len(s) \in Nat /\ DOMAIN s = 1..Len(s) /\ \A k \in 1..Len(s) : s[k] \in S
      /\ Len(t) \in Nat /\ \A k \in 1..Len(t) : t[k] \in S
  BY LenProperties, ElementOfSeq
<1>2. Overwrite(s, from, t) =
        [k \in 1..Len(s) |-> IF k \in from+1..from+Len(t) THEN t[k - from] ELSE s[k]]
  BY <1>1 DEF Overwrite
<1>3. \A k \in from+1..from+Len(t) : k - from \in 1..Len(t)
  BY <1>1
<1>4. Overwrite(s, from, t) \in [1..Len(s) -> S]
  BY <1>1, <1>2, <1>3
<1> QED BY <1>1, <1>2, <1>4, FunctionIsSeq

\* A block is sorted in its place, and no other block changes.
LEMMA QsortData ==
  ASSUME DataInv, NEW c \in Subregions, qsort_task(c), InOrder'
  PROVE  DataInv'
<1>1. /\ FileOK /\ file' = file /\ g_splitters' = g_splitters /\ split_index' = split_index
      /\ ended' = ended \cup {<<"qsort", c>>} /\ <<"qsort", c>> \notin ended
  BY DEF DataInv, qsort_task, Runs, MayRun
<1>2. /\ FileOK' = FileOK /\ Even' = Even /\ m' = m /\ P' = P /\ num_elements' = num_elements
      /\ Samples' = Samples /\ BoundsTyped' = BoundsTyped
  BY <1>1 DEF FileOK, Even, m, lower_bound, P, num_elements, Samples, BoundsTyped
<1>3. ASSUME Even PROVE DataOK' /\ BlocksSorted' /\ BoundsSorted' /\ Divided'
  <2>1. /\ DataOK /\ BlocksSorted /\ BoundsSorted /\ Divided
        /\ P \in Nat /\ P > 1 /\ m \in Nat \ {0} /\ c \in Nat
        /\ BlockSize(c) = m /\ Start(c) = c * m
    BY <1>1, <1>3, BlocksEven DEF DataInv, Subregions
  <2> DEFINE every == m \div P
             sample(b) == [k \in 1..P-1 |-> b[every * k + 1]]
  <2>2. PICK blk \in qsort(Block(c)) :
               /\ input' = Overwrite(input, c * m, blk)
               /\ splitter' = Overwrite(splitter, c * (P-1), sample(blk))
    BY <2>1 DEF qsort_task, P
  <2>3. blk \in Seq(Nat) /\ Len(blk) = m /\ blk \in [1..m -> Nat] /\ InOrderUpTo(blk, m)
    <3>1. Block(c) \in Seq(Nat) /\ Len(Block(c)) = m
      BY <1>1, <1>3, <2>1, BlockIs
    <3>2. /\ blk \in Seq(Nat) /\ Len(blk) = Len(Block(c)) /\ blk \in [1..Len(Block(c)) -> Nat]
          /\ InOrderUpTo(blk, Len(Block(c)))
      BY <3>1, SortedIs
    <3> QED BY <3>1, <3>2
  <2>4. /\ input' \in Seq(Nat) /\ Len(input') = num_elements
        /\ \A k \in 1..num_elements :
             input'[k] = IF k \in c * m + 1..c * m + m THEN blk[k - c * m] ELSE input[k]
    <3> DEFINE from == c * m  over == Overwrite(input, from, blk)
    <3>1. from \in Nat /\ input \in Seq(Nat) /\ Len(input) = num_elements
      BY <2>1 DEF DataOK
    <3>2. input' = over
      BY <2>2
    <3> HIDE DEF from
    <3>3. /\ over \in Seq(Nat) /\ Len(over) = Len(input)
          /\ \A k \in 1..Len(input) :
               over[k] = IF k \in from+1..from+Len(blk) THEN blk[k - from] ELSE input[k]
      <4>1. \A x \in Seq(Nat) : \A f \in Nat : \A y \in Seq(Nat) :
              /\ Overwrite(x, f, y) \in Seq(Nat) /\ Len(Overwrite(x, f, y)) = Len(x)
              /\ \A k \in 1..Len(x) : Overwrite(x, f, y)[k] =
                   IF k \in f+1..f+Len(y) THEN y[k - f] ELSE x[k]
        BY OverwriteIs
      <4>2. input \in Seq(Nat) /\ from \in Nat /\ blk \in Seq(Nat)
        BY <2>3, <3>1
      <4> QED BY <4>1, <4>2
    <3> HIDE DEF over
    <3>4. /\ input' \in Seq(Nat) /\ Len(input') = num_elements
          /\ \A k \in 1..num_elements :
               input'[k] = IF k \in from+1..from+m THEN blk[k - from] ELSE input[k]
      BY <2>3, <3>1, <3>2, <3>3
    <3> QED BY <3>4 DEF from
  <2>5. splitter' \in [1..Samples -> Int]
    <3>1. every \in Nat /\ P * every <= m
      <4> DEFINE e == m \div P
      <4>1. e \in Nat /\ P * e <= m
        BY <2>1, SMT
      <4> QED BY <4>1
    <3> HIDE DEF every
    <3>2. ASSUME NEW k \in 1..P-1 PROVE every * k + 1 \in 1..m
      <4>1. every * k \in Nat /\ every * k <= every * (P-1)
        BY <2>1, <3>1, SMT
      <4>2. every * (P-1) + every = P * every /\ every * (P-1) \in Nat
        BY <2>1, <3>1, SMT
      <4>3. CASE every = 0
        BY <2>1, <4>3
      <4>4. CASE every > 0
        BY <2>1, <3>1, <4>1, <4>2, <4>4
      <4> QED BY <3>1, <4>3, <4>4
    <3>3. sample(blk) \in [1..P-1 -> Int]
      BY <2>3, <3>2
    <3> HIDE DEF sample
    <3>4. sample(blk) \in Seq(Int)
      BY <2>1, <3>3, FunctionIsSeq
    <3>5. c * (P-1) \in Nat /\ Samples \in Nat
      BY <2>1 DEF Samples
    <3>6. splitter \in Seq(Int) /\ Len(splitter) = Samples
      BY <2>1, <3>5, FunctionIsSeq DEF DataOK
    <3> QED BY <2>2, <3>4, <3>5, <3>6, OverwriteIs
  <2>6. DataOK'
    BY <1>1, <1>2, <2>1, <2>4, <2>5 DEF DataOK
  <2>7. \A k \in 1..m : input'[c * m + k] = blk[k]
    <3> SUFFICES ASSUME NEW k \in 1..m PROVE input'[c * m + k] = blk[k]
      OBVIOUS
    <3>1. c * m + k \in 1..num_elements /\ c * m \in Nat
      BY <1>1, <1>3, <2>1, BlockInside
    <3>2. c * m + k \in c * m + 1..c * m + m /\ (c * m + k) - c * m = k
      BY <2>1, <3>1
    <3> QED BY <2>4, <3>1, <3>2
  <2>8. \A d \in Subregions : d # c => \A k \in 1..m : input'[d * m + k] = input[d * m + k]
    BY <1>1, <1>3, <2>4, BlockInside, BlocksApart
  <2>9. BlocksSorted'
    <3> SUFFICES ASSUME NEW d \in Subregions, <<"qsort", d>> \in ended',
                        NEW k \in 1..m, NEW l \in 1..m, k <= l
                 PROVE  input'[d * m + k] <= input'[d * m + l]
      BY <1>2 DEF BlocksSorted
    <3>1. CASE d = c
      BY <2>3, <2>7, <3>1 DEF InOrderUpTo
    <3>2. CASE d # c
      <4>1. <<"qsort", d>> \in ended
        BY <1>1, <3>2
      <4> QED BY <2>1, <2>8, <3>2, <4>1 DEF BlocksSorted
    <3> QED BY <3>1, <3>2
  <2>10. BoundsSorted'
    BY <1>1, <1>2, <2>1 DEF BoundsSorted, InOrderUpTo
  <2>11. Divided'
    <3> SUFFICES ASSUME NEW d \in Subregions, <<"p_bucket_task", d>> \in ended'
                 PROVE  split_index'[d] = Division(Block(d))'
      BY DEF Divided
    <3>1. <<"p_bucket_task", d>> \in ended
      BY <1>1
    <3>2. d # c
      BY <1>1, <3>1, DividedLast DEF DataInv
    <3>3. split_index'[d] = Division(Block(d))
      BY <1>1, <2>1, <3>1 DEF Divided
    <3>4. \A b : Division(b)' = Division(b)
      BY <1>1, <1>2 DEF Division, At, BucketAt
    <3>5. \A k \in 1..m : Block(d)[k] = input[d * m + k]
      BY <1>1, <1>3, <2>1, BlockIs
    <3>7. \A k \in 1..m : Block(d)'[k] = input'[d * m + k]
      <4>1. Block(d)' = BlockOf(input', d)
        BY <1>1 DEF Block, BlockOf, Start, BlockSize, number_small, lower_bound, num_elements
      <4>2. \A k \in 1..m : BlockOf(input', d)[k] = input'[d * m + k]
        BY <1>1, <1>3, <2>4, BlockOfIs
      <4> QED BY <4>1, <4>2
    <3>8. \A k \in 1..m : Block(d)[k] = Block(d)'[k]
      BY <2>8, <3>2, <3>5, <3>7
    <3>9. Division(Block(d)) = Division(Block(d)')
      BY <2>1, <3>8, DivisionSame
    <3> QED BY <3>3, <3>4, <3>9
  <2> QED BY <2>6, <2>9, <2>10, <2>11
<1> QED BY <1>1, <1>2, <1>3 DEF DataInv

\* The bounds are samples in their order, chosen before any block is divided.
LEMMA OneTaskData ==
  ASSUME DataInv, one_task, InOrder'
  PROVE  DataInv'
<1>1. /\ FileOK /\ file' = file /\ input' = input /\ split_index' = split_index
      /\ ended' = ended \cup {<<"one_task", 0>>} /\ <<"one_task", 0>> \notin ended
  BY DEF DataInv, one_task, Runs, MayRun
<1>2. /\ FileOK' = FileOK /\ Even' = Even /\ m' = m /\ P' = P /\ num_elements' = num_elements
      /\ Samples' = Samples
  BY <1>1 DEF FileOK, Even, m, lower_bound, P, num_elements, Samples
<1>3. ASSUME Even PROVE DataOK' /\ BlocksSorted' /\ BoundsSorted' /\ Divided'
  <2>1. /\ DataOK /\ BlocksSorted /\ P \in Nat /\ P > 1
    BY <1>1, <1>3, BlocksEven DEF DataInv
  <2>2. Samples \in Nat
    BY <2>1 DEF Samples
  <2>3. splitter \in Seq(Int) /\ Len(splitter) = Samples
    BY <2>1, <2>2, FunctionIsSeq DEF DataOK
  <2>4. splitter' \in [1..Samples -> Int] /\ InOrderUpTo(splitter', Samples)
    <3>1. splitter' \in qsort(splitter)
      BY DEF one_task
    <3>2. splitter' \in [1..Len(splitter) -> Int] /\ InOrderUpTo(splitter', Len(splitter))
      BY <2>3, <3>1, SortedIs
    <3> QED BY <2>3, <3>2
  <2>5. g_splitters' = [k \in 1..P-1 |-> splitter'[(P-1) * k + 1]]
    BY DEF one_task, P
  <2>6. ASSUME NEW k \in 1..P-1 PROVE (P-1) * k + 1 \in 1..Samples
    <3> DEFINE q == P - 1
    <3>1. q \in Nat /\ k \in 1..q /\ Samples = (q + 1) * q
      BY <2>1 DEF Samples
    <3> HIDE DEF q
    <3>2. q * k \in Nat /\ q * k <= q * q /\ (q + 1) * q = q * q + q /\ q * q \in Nat
      BY <3>1, SMT
    <3>3. q * k + 1 \in 1..Samples
      BY <3>1, <3>2
    <3> QED BY <3>3 DEF q
  <2>7. BoundsTyped'
    BY <1>2, <2>4, <2>5, <2>6 DEF BoundsTyped
  <2>8. InOrderUpTo(g_splitters', P-1)
    <3> SUFFICES ASSUME NEW k \in 1..P-1, NEW l \in 1..P-1, k <= l
                 PROVE  g_splitters'[k] <= g_splitters'[l]
      BY DEF InOrderUpTo
    <3> DEFINE x == (P-1) * k + 1  y == (P-1) * l + 1
    <3>1. x \in 1..Samples /\ y \in 1..Samples
      BY <2>6
    <3>2. x <= y
      BY <2>1, SMT
    <3>3. g_splitters'[k] = splitter'[x] /\ g_splitters'[l] = splitter'[y]
      BY <2>5
    <3> HIDE DEF x, y
    <3> QED BY <2>4, <3>1, <3>2, <3>3 DEF InOrderUpTo
  <2>9. DataOK'
    BY <1>1, <1>2, <2>1, <2>4, <2>7 DEF DataOK
  <2>10. BlocksSorted'
    BY <1>1, <1>2, <2>1 DEF BlocksSorted
  <2>11. BoundsSorted'
    BY <1>2, <2>8 DEF BoundsSorted
  <2>12. Divided'
    <3>1. \A d \in Subregions : <<"p_bucket_task", d>> \notin ended
      BY <1>1, DividedLast DEF DataInv
    <3> QED BY <1>1, <3>1 DEF Divided
  <2> QED BY <2>9, <2>10, <2>11, <2>12
<1> QED BY <1>1, <1>2, <1>3 DEF DataInv

\* A task that divides its block writes what Division says.
LEMMA PBucketData ==
  ASSUME DataInv, NEW c \in Subregions, p_bucket_task(c), InOrder'
  PROVE  DataInv'
<1>1. /\ FileOK /\ file' = file /\ input' = input /\ splitter' = splitter
      /\ g_splitters' = g_splitters
      /\ ended' = ended \cup {<<"p_bucket_task", c>>}
  BY DEF DataInv, p_bucket_task, Runs
<1>2. /\ FileOK' = FileOK /\ Even' = Even /\ m' = m /\ P' = P /\ num_elements' = num_elements
      /\ Samples' = Samples /\ BoundsTyped' = BoundsTyped
      /\ \A d : Block(d)' = Block(d)
  BY <1>1 DEF FileOK, Even, m, lower_bound, P, num_elements, Samples, BoundsTyped,
              Block, Start, BlockSize, number_small
<1>3. \A b : Division(b)' = Division(b)
  BY <1>1, <1>2 DEF Division, At, BucketAt
<1>4. ASSUME Even PROVE DataOK' /\ BlocksSorted' /\ BoundsSorted' /\ Divided'
  <2>1. /\ DataOK /\ BlocksSorted /\ BoundsSorted /\ Divided /\ P \in Nat /\ P > 1 /\ m \in Nat
    BY <1>1, <1>4, BlocksEven DEF DataInv
  <2>2. split_index' = [split_index EXCEPT ![c] = Division(Block(c))]
    <3>1. DOMAIN Block(c) = 1..m
      BY <1>1, <1>4, <2>1, BlockIs, LenProperties
    <3> QED BY <3>1 DEF p_bucket_task, Division, At
  <2>3. Division(Block(c)) \in [Subregions -> Int]
    <3>1. ASSUME NEW s \in Subregions, At(Block(c), s) # {}
          PROVE  Min(At(Block(c), s)) - 1 \in Int
      <4>1. At(Block(c), s) \subseteq Nat
        BY DEF At
      <4>2. Min(At(Block(c), s)) \in Nat
        BY <3>1, <4>1, MinOf
      <4> QED BY <4>2
    <3> QED BY <3>1 DEF Division
  <2>4. DataOK'
    BY <1>1, <1>2, <2>1, <2>2, <2>3 DEF DataOK
  <2>5. BlocksSorted' /\ BoundsSorted'
    BY <1>1, <1>2, <2>1 DEF BlocksSorted, BoundsSorted, InOrderUpTo
  <2>6. Divided'
    <3> SUFFICES ASSUME NEW d \in Subregions, <<"p_bucket_task", d>> \in ended'
                 PROVE  split_index'[d] = Division(Block(d))
      BY <1>2, <1>3 DEF Divided
    <3>1. DOMAIN split_index = Subregions
      BY <2>1 DEF DataOK
    <3>2. d # c => <<"p_bucket_task", d>> \in ended
      BY <1>1
    <3> QED BY <2>1, <2>2, <3>1, <3>2 DEF Divided
  <2> QED BY <2>4, <2>5, <2>6
<1> QED BY <1>1, <1>2, <1>4 DEF DataInv

\* Every step keeps DataInv.
LEMMA NextData == DataInv /\ [Next]_vars => DataInv'
<1> SUFFICES ASSUME DataInv, [Next]_vars PROVE DataInv'
  OBVIOUS
<1>1. InOrder'
  BY NextOrder DEF DataInv
<1>2. CASE Launch
  <2>1. UNCHANGED <<file, input, g_splitters, splitter, split_index>>
    BY <1>2 DEF Launch, regions
  <2>2. ended' = ended
    BY <1>2 DEF Launch, regions
  <2> QED BY <1>1, <2>1, <2>2, DataKept
<1>3. ASSUME NEW c \in Subregions, qsort_task(c) PROVE DataInv'
  BY <1>1, <1>3, QsortData
<1>4. ASSUME NEW c \in Subregions, p_bucket_task(c) PROVE DataInv'
  BY <1>1, <1>4, PBucketData
<1>5. ASSUME NEW c \in Subregions, qsort_bucket_task(c) PROVE DataInv'
  <2>1. UNCHANGED <<file, input, g_splitters, splitter, split_index>>
    BY <1>5 DEF qsort_bucket_task, Runs
  <2>2. ended' = ended \cup {<<"qsort_bucket_task", c>>}
    BY <1>5 DEF qsort_bucket_task, Runs
  <2> QED BY <1>1, <2>1, <2>2, DataKept
<1>6. CASE one_task
  BY <1>1, <1>6, OneTaskData
<1>7. CASE checker_task
  <2>1. UNCHANGED <<file, input, g_splitters, splitter, split_index>>
    BY <1>7 DEF checker_task, Runs, regions
  <2>2. ended' = ended \cup {<<"checker_task", 0>>}
    BY <1>7 DEF checker_task, Runs, regions
  <2> QED BY <1>1, <2>1, <2>2, DataKept
<1>8. CASE UNCHANGED vars
  <2>1. UNCHANGED <<file, input, g_splitters, splitter, split_index>>
    BY <1>8 DEF vars, regions
  <2>2. ended' = ended
    BY <1>8 DEF vars, regions
  <2> QED BY <1>1, <2>1, <2>2, DataKept
<1> QED BY <1>2, <1>3, <1>4, <1>5, <1>6, <1>7, <1>8 DEF Next, Ended

\* DataInv is an invariant.
THEOREM DataInvariance == Spec => []DataInv
  BY InitData, NextData, PTL DEF Spec

\* what holds of the counts once all blocks are divided
LEMMA CountsOf ==
  ASSUME DataInv, Even, HasEnded("p_bucket_task"), NEW c \in Subregions, NEW s \in Subregions
  PROVE  /\ c \in Holders(s) <=> At(Block(c), s) # {}
         /\ c \in Holders(s) => ElementsIn(c, s) = Cardinality(At(Block(c), s))
         /\ Cardinality(At(Block(c), s)) \in Nat
         /\ At(Block(c), s) = {} => Cardinality(At(Block(c), s)) = 0
         /\ At(Block(c), s) = {k \in 1..m : Between(Block(c)[k], s)}
<1>1. /\ FileOK /\ DataOK /\ BlocksSorted /\ BoundsSorted /\ Divided /\ InOrder
      /\ P \in Nat /\ P > 1 /\ m \in Nat
  BY BlocksEven DEF DataInv
<1>2. <<"p_bucket_task", c>> \in ended /\ <<"qsort", c>> \in ended /\ <<"one_task", 0>> \in ended
  BY <1>1, DividedLast DEF HasEnded, Points
<1>3. split_index[c] = Division(Block(c))
  BY <1>1, <1>2 DEF Divided
<1>4. /\ c \in Holders(s) <=> split_index[c][s] # -1
  BY DEF Holders
<1>5. \A k \in 1..m : Block(c)[k] = input[c * m + k] /\ Block(c)[k] \in Nat
  BY <1>1, BlockIs
<1>6. Keys(Block(c)) /\ InOrderUpTo(Block(c), m)
  BY <1>1, <1>2, <1>5 DEF Keys, InOrderUpTo, BlocksSorted
<1>7. \A k \in 1..m : BucketAt(Block(c), k) = s <=> Between(Block(c)[k], s)
  <2>1. s \in 0..P-1
    BY DEF Subregions, P
  <2>2. BoundsTyped /\ InOrderUpTo(g_splitters, P-1)
    BY <1>1, <1>2 DEF DataOK, BoundsSorted
  <2> QED BY <1>1, <1>6, <2>1, <2>2, BucketOfKey
<1>8. At(Block(c), s) = {k \in 1..m : Between(Block(c)[k], s)}
  BY <1>7 DEF At
<1>9. /\ At(Block(c), s) # {} => split_index[c][s] # -1
                                 /\ ElementsIn(c, s) = Cardinality(At(Block(c), s))
      /\ At(Block(c), s) = {} => split_index[c][s] = -1 /\ Cardinality(At(Block(c), s)) = 0
      /\ Cardinality(At(Block(c), s)) \in Nat
  <2> DEFINE blk == Block(c)
  <2>1. split_index[c] = Division(blk)
    BY <1>3
  <2> HIDE DEF blk
  <2>2. /\ At(blk, s) # {} => split_index[c][s] # -1
                             /\ ElementsIn(c, s) = Cardinality(At(blk, s))
        /\ At(blk, s) = {} => split_index[c][s] = -1 /\ Cardinality(At(blk, s)) = 0
        /\ Cardinality(At(blk, s)) \in Nat
    BY <1>1, <2>1, CountedInBlock
  <2> QED BY <2>2 DEF blk
<1> QED BY <1>4, <1>8, <1>9

\* For every number of subregions and every input they divide: skipping the
\* buckets without keys, qsort_bucket_task counts exactly the keys of a block
\* between the bounds of the bucket.
THEOREM CountsAlwaysExact == Spec => []CountsExact
<1>1. DataInv => CountsExact
  <2> SUFFICES ASSUME DataInv, Even, HasEnded("p_bucket_task"),
                      NEW c \in Subregions, NEW s \in Subregions
               PROVE  (IF c \in Holders(s) THEN ElementsIn(c, s) ELSE 0)
                        = Cardinality({k \in 1..m : Between(Block(c)[k], s)})
    BY DEF CountsExact, m, Between
  <2> QED BY CountsOf
<1> QED BY DataInvariance, <1>1, PTL

----------------------------------------------------------------------------
(***************************************************************************)
(* No race.                                                                *)
(***************************************************************************)

\* Of two tasks that may run at the same time, neither must precede the other.
LEMMA NeitherFirst ==
  ASSUME NEW t \in AllTasks, NEW u \in AllTasks, MayRun(t), MayRun(u)
  PROVE  ~ MustPrecede(t, u)
  BY DEF MayRun

\* Every bucket task reads the whole of the input.
LEMMA InputFirst ==
  ASSUME NEW c \in Subregions, NEW s \in Subregions
  PROVE  MustPrecede(<<"qsort", c>>, <<"qsort_bucket_task", s>>)
<1> DEFINE q == Needs("input", {c}, "WRITE_DISCARD", "EXCLUSIVE")
           r == Needs("input", All, "READ_ONLY", "SIMULTANEOUS")
<1>1. q \in Requirements("qsort", c) /\ r \in Requirements("qsort_bucket_task", s)
  BY DEF Requirements, QsortNeeds, QsortBucketNeeds
<1>2. Interfere(q, r)
  BY DEF Interfere, Needs, All
<1> HIDE DEF q, r
<1> QED BY <1>1, <1>2, LaunchAt DEF MustPrecede

\* a task is a point task of one of the five launches
LEMMA KindsOfTasks ==
  ASSUME NEW t \in AllTasks
  PROVE  \/ \E c \in Subregions : \/ t = <<"qsort", c>>
                                  \/ t = <<"p_bucket_task", c>>
                                  \/ t = <<"qsort_bucket_task", c>>
         \/ t = <<"one_task", 0>> \/ t = checker
<1>1. PICK l \in 1..5 : t \in Tasks(l)
  BY LaunchAt DEF AllTasks
<1>2. PICK c \in Points(Launches[l]) : t = <<Launches[l], c>>
  BY <1>1 DEF Tasks
<1>3. l = 1 \/ l = 2 \/ l = 3 \/ l = 4 \/ l = 5
  BY <1>1
<1> QED BY <1>2, <1>3, LaunchAt DEF Points, checker

\* The keys of a bucket are finitely many.
LEMMA CountedFinite ==
  ASSUME DataInv, Even, NEW s \in Subregions
  PROVE  IsFiniteSet(Counted(s))
<1>1. P \in Nat /\ P > 1 /\ m \in Nat /\ Subregions = 0..P-1
  BY BlocksEven DEF DataInv, Subregions, P
<1>2. \A c \in Subregions : ElementsIn(c, s) \in Int
  <2> SUFFICES ASSUME NEW c \in Subregions PROVE ElementsIn(c, s) \in Int
    OBVIOUS
  <2> DEFINE later == {t \in s+1..num_subregions-1 : split_index[c][t] # -1}
  <2>1. \A d, t \in Subregions : split_index[d][t] \in Int
    BY DEF DataInv, DataOK
  <2>2. later \subseteq Subregions /\ later \subseteq Nat
    BY <1>1 DEF P
  <2>3. ElementsIn(c, s) = (IF later = {} THEN m ELSE split_index[c][Min(later)])
                             - split_index[c][s]
    BY DEF ElementsIn, m
  <2> HIDE DEF later
  <2>4. later # {} => Min(later) \in later
    BY <2>2, MinOf
  <2>5. later # {} => split_index[c][Min(later)] \in Int
    BY <2>1, <2>2, <2>4
  <2>6. split_index[c][s] \in Int
    BY <2>1
  <2> QED BY <1>1, <2>3, <2>5, <2>6
<1>3. ASSUME NEW c \in Holders(s) PROVE IsFiniteSet({c} \X (1..ElementsIn(c, s)))
  <2> DEFINE n == ElementsIn(c, s)
  <2>1. n \in Int
    BY <1>2 DEF Holders
  <2> HIDE DEF n
  <2>2. IsFiniteSet(1..n) /\ IsFiniteSet({c})
    <3>1. IsFiniteSet(1..n)
      BY <2>1, FS_Interval
    <3>2. IsFiniteSet({c})
      BY FS_Singleton
    <3> QED BY <3>1, <3>2
  <2>3. IsFiniteSet({c} \X (1..n))
    BY <2>2, FS_Product
  <2> QED BY <2>3 DEF n
<1>4. IsFiniteSet(Holders(s))
  <2>1. IsFiniteSet(0..P-1)
    BY <1>1, FS_Interval
  <2>2. Holders(s) \in SUBSET Subregions
    BY DEF Holders
  <2> QED BY <1>1, <2>1, <2>2, FS_Subset
<1> DEFINE f == [c \in Holders(s) |-> {c} \X (1..ElementsIn(c, s))]
           T == {f[c] : c \in Holders(s)}
<1>5. IsFiniteSet(T)
  <2>1. f \in Surjection(Holders(s), T)
    BY DEF Surjection
  <2> HIDE DEF f, T
  <2> QED BY <1>4, <2>1, FS_Surjection
<1>6. Counted(s) = UNION T
  BY DEF Counted
<1>7. \A x \in T : IsFiniteSet(x)
  BY <1>3
<1> HIDE DEF T
<1> QED BY <1>5, <1>6, <1>7, FS_UNION

\* The buckets lie in the output one after the other.
LEMMA BucketsApart ==
  ASSUME DataInv, Even, NEW s \in Subregions, NEW t \in Subregions, s < t
  PROVE  /\ ElementOffset(s) \in Nat /\ TotalElements(s) \in Nat /\ ElementOffset(t) \in Nat
         /\ ElementOffset(s) + TotalElements(s) <= ElementOffset(t)
<1> DEFINE Before(u) == UNION {{v} \X Counted(v) : v \in 0..u-1}
<1>1. P \in Nat /\ P > 1 /\ Subregions = 0..P-1
  BY BlocksEven DEF DataInv, Subregions, P
<1>2. ASSUME NEW v \in Subregions
      PROVE  /\ IsFiniteSet({v} \X Counted(v))
             /\ Cardinality({v} \X Counted(v)) = TotalElements(v) /\ TotalElements(v) \in Nat
  <2> DEFINE C == Counted(v)
  <2>1. IsFiniteSet(C)
    BY CountedFinite
  <2>2. TotalElements(v) = Cardinality(C)
    BY DEF TotalElements
  <2> HIDE DEF C
  <2>3. IsFiniteSet({v}) /\ Cardinality({v}) = 1
    BY FS_Singleton
  <2>4. IsFiniteSet({v} \X C) /\ Cardinality({v} \X C) = 1 * Cardinality(C)
    BY <2>1, <2>3, FS_Product
  <2>5. Cardinality(C) \in Nat
    BY <2>1, FS_CardinalityType
  <2> QED BY <2>2, <2>4, <2>5 DEF C
<1>3. ASSUME NEW u \in Subregions PROVE IsFiniteSet(Before(u)) /\ ElementOffset(u) \in Nat
  <2> DEFINE f == [v \in 0..u-1 |-> {v} \X Counted(v)]
             T == {f[v] : v \in 0..u-1}
  <2>1. IsFiniteSet(0..u-1) /\ \A v \in 0..u-1 : v \in Subregions
    BY <1>1, FS_Interval
  <2>2. f \in Surjection(0..u-1, T)
    BY DEF Surjection
  <2>3. Before(u) = UNION T
    OBVIOUS
  <2>4. \A x \in T : IsFiniteSet(x)
    BY <1>2, <2>1
  <2> HIDE DEF f, T
  <2>5. IsFiniteSet(T)
    BY <2>1, <2>2, FS_Surjection
  <2>6. IsFiniteSet(Before(u))
    BY <2>3, <2>4, <2>5, FS_UNION
  <2> QED BY <2>6, FS_CardinalityType DEF ElementOffset
<1> DEFINE A == Before(s)  B == {s} \X Counted(s)  C == Before(t)
<1>4. A \cap B = {}
  BY <1>1
<1>5. A \cup B \subseteq C
  BY <1>1
<1>6. /\ IsFiniteSet(A) /\ IsFiniteSet(B) /\ IsFiniteSet(C)
      /\ Cardinality(A) = ElementOffset(s) /\ Cardinality(C) = ElementOffset(t)
      /\ Cardinality(B) = TotalElements(s) /\ TotalElements(s) \in Nat
      /\ ElementOffset(s) \in Nat /\ ElementOffset(t) \in Nat
  BY <1>2, <1>3 DEF ElementOffset
<1> HIDE DEF A, B, C
<1>7. Cardinality(A \cup B) = ElementOffset(s) + TotalElements(s)
  <2>1. Cardinality(A \cup B) = Cardinality(A) + Cardinality(B) - Cardinality(A \cap B)
    BY <1>6, FS_Union
  <2>2. Cardinality(A \cap B) = 0
    BY <1>4, FS_EmptySet
  <2> QED BY <1>6, <2>1, <2>2
<1>8. Cardinality(A \cup B) <= Cardinality(C)
  BY <1>5, <1>6, FS_Subset
<1> QED BY <1>6, <1>7, <1>8

\* The output is written by the bucket tasks only.
LEMMA OutputCells ==
  ASSUME DataInv, Even, NEW s \in Subregions, NEW t \in Subregions, s # t
  PROVE  Writes(<<"qsort_bucket_task", s>>) \cap Writes(<<"qsort_bucket_task", t>>) = {}
<1> DEFINE Part(u) == ElementOffset(u) + 1..ElementOffset(u) + TotalElements(u)
<1>1. \A u \in Subregions :
        Writes(<<"qsort_bucket_task", u>>) = {<<"output", k>> : k \in Part(u)}
  BY DEF Writes, Cells
<1>2. ASSUME NEW u \in Subregions, NEW v \in Subregions, u < v PROVE Part(u) \cap Part(v) = {}
  <2>1. /\ ElementOffset(u) \in Nat /\ TotalElements(u) \in Nat /\ ElementOffset(v) \in Nat
        /\ ElementOffset(u) + TotalElements(u) <= ElementOffset(v)
    BY <1>2, BucketsApart
  <2> QED BY <2>1
<1>3. s < t \/ t < s
  BY BlocksEven DEF DataInv, Subregions, P
<1>4. Part(s) \cap Part(t) = {}
  BY <1>2, <1>3
<1> HIDE DEF Part
<1> QED BY <1>1, <1>4

\* For every number of subregions and every input they divide: tasks that the
\* requirements let run at the same time never race, although the bucket tasks
\* write the output and one_task the samples, which they declare to read only.
THEOREM NeverRaces == Spec => []NoRace
<1>1. DataInv => NoRace
  <2> SUFFICES ASSUME DataInv, Even, NEW t \in AllTasks, NEW u \in AllTasks,
                      MayRun(t), MayRun(u), t # u
               PROVE  Writes(t) \cap (Writes(u) \cup Reads(u)) = {}
    BY DEF NoRace
  <2>1. ~ MustPrecede(t, u) /\ ~ MustPrecede(u, t)
    BY NeitherFirst
  <2>2. CASE \E c \in Subregions : t = <<"qsort", c>>
    <3>1. PICK c \in Subregions : t = <<"qsort", c>>
      BY <2>2
    <3>2. Writes(t) = {<<"input", c>>, <<"splitter", c>>}
      BY <3>1 DEF Writes, Cells
    <3>3. u # <<"one_task", 0>> /\ \A s \in Subregions : u # <<"qsort_bucket_task", s>>
      BY <2>1, <3>1, SamplesFirst, InputFirst
    <3>4. u # <<"p_bucket_task", c>>
      BY <2>1, <3>1, BlockFirst
    <3>5. CASE u = checker
      BY <3>2, <3>5 DEF Writes, Reads, Cells, checker
    <3>6. ASSUME NEW d \in Subregions, u = <<"qsort", d>> PROVE c # d
      BY <3>1, <3>6
    <3>7. ASSUME NEW d \in Subregions, u = <<"qsort", d>>
          PROVE  Writes(t) \cap (Writes(u) \cup Reads(u)) = {}
      BY <3>2, <3>6, <3>7 DEF Writes, Reads, Cells
    <3>8. ASSUME NEW d \in Subregions, u = <<"p_bucket_task", d>>
          PROVE  Writes(t) \cap (Writes(u) \cup Reads(u)) = {}
      BY <3>2, <3>4, <3>8 DEF Writes, Reads, Cells
    <3> QED BY <3>3, <3>5, <3>7, <3>8, KindsOfTasks
  <2>3. CASE t = <<"one_task", 0>>
    <3>1. Writes(t) = Cells("splitter", All) \cup Cells("g_splitters", All)
      BY <2>3 DEF Writes
    <3>2. \A c \in Subregions : u # <<"qsort", c>> /\ u # <<"p_bucket_task", c>>
      BY <2>1, <2>3, SamplesFirst, BoundsFirst
    <3>3. CASE u = checker
      BY <3>1, <3>3 DEF Writes, Reads, Cells, checker
    <3>4. ASSUME NEW s \in Subregions, u = <<"qsort_bucket_task", s>>
          PROVE  Writes(t) \cap (Writes(u) \cup Reads(u)) = {}
      BY <3>1, <3>4 DEF Writes, Reads, Cells
    <3> QED BY <2>3, <3>2, <3>3, <3>4, KindsOfTasks
  <2>4. CASE \E c \in Subregions : t = <<"p_bucket_task", c>>
    <3>1. PICK c \in Subregions : t = <<"p_bucket_task", c>>
      BY <2>4
    <3>2. Writes(t) = {<<"split_index", c>>}
      BY <3>1 DEF Writes, Cells
    <3>3. \A s \in Subregions : u # <<"qsort_bucket_task", s>>
      BY <2>1, <3>1, DivisionFirst
    <3>4. CASE u = checker \/ u = <<"one_task", 0>>
      BY <3>2, <3>4 DEF Writes, Reads, Cells, checker
    <3>5. ASSUME NEW d \in Subregions, u = <<"qsort", d>>
          PROVE  Writes(t) \cap (Writes(u) \cup Reads(u)) = {}
      BY <3>2, <3>5 DEF Writes, Reads, Cells
    <3>6. ASSUME NEW d \in Subregions, u = <<"p_bucket_task", d>>
          PROVE  Writes(t) \cap (Writes(u) \cup Reads(u)) = {}
      <4>1. c # d
        BY <3>1, <3>6
      <4> QED BY <3>2, <3>6, <4>1 DEF Writes, Reads, Cells
    <3> QED BY <3>3, <3>4, <3>5, <3>6, KindsOfTasks
  <2>5. CASE \E s \in Subregions : t = <<"qsort_bucket_task", s>>
    <3>1. PICK s \in Subregions : t = <<"qsort_bucket_task", s>>
      BY <2>5
    <3>2. u # checker
      BY <2>1, <3>1, BucketsFirst
    <3>3. \A x \in Writes(t) : \E k : x = <<"output", k>>
      BY <3>1 DEF Writes, Cells
    <3>4. CASE u = <<"one_task", 0>>
      BY <3>3, <3>4 DEF Writes, Reads, Cells
    <3>5. ASSUME NEW d \in Subregions, u = <<"qsort", d>> \/ u = <<"p_bucket_task", d>>
          PROVE  Writes(t) \cap (Writes(u) \cup Reads(u)) = {}
      BY <3>3, <3>5 DEF Writes, Reads, Cells
    <3>6. ASSUME NEW d \in Subregions, u = <<"qsort_bucket_task", d>>
          PROVE  Writes(t) \cap (Writes(u) \cup Reads(u)) = {}
      <4>1. Writes(t) \cap Writes(u) = {}
        BY <3>1, <3>6, OutputCells
      <4>2. \A x \in Reads(u) : \E k : x = <<"input", k>> \/ x = <<"split_index", k>>
        BY <3>6 DEF Reads, Cells
      <4> QED BY <3>3, <4>1, <4>2
    <3> QED BY <3>2, <3>4, <3>5, <3>6, KindsOfTasks
  <2>6. CASE t = checker
    BY <2>6 DEF Writes, checker
  <2> QED BY <2>2, <2>3, <2>4, <2>5, <2>6, KindsOfTasks
<1> QED BY DataInvariance, <1>1, PTL
=============================================================================
