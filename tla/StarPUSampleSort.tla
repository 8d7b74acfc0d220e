-------------------------- MODULE StarPUSampleSort --------------------------
(***************************************************************************)
(* The StarPU sample sort.  The main thread cuts the array into NUM_CPU    *)
(* blocks and submits, phase after phase, one task per block; StarPU's     *)
(* workers run the submitted tasks in any order, while the main thread     *)
(* goes on.  The main thread meets the tasks again only where it           *)
(* unregisters a data handle, which blocks until the tasks that were       *)
(* submitted on the handle have ended, and at starpu_task_wait_for_all.    *)
(*                                                                         *)
(* Tasks of one phase work on disjoint memory, except for the blocks of an *)
(* array shorter than NUM_CPU, so a task is one step.                      *)
(***************************************************************************)
EXTENDS Integers, Sequences, SequencesExt

CONSTANTS NUM_CPU,  \* the number of blocks, tasks and buckets
          Inputs,   \* the arrays to sort
          Garbage,  \* the values memory nobody has written may hold
          RoundedDown  \* <<len, k>>: len / NUM_CPU * k, a whole number, comes out
                       \* below it in single precision (14 tasks: <<62, 7>>)

ASSUME ParametersAssumption ==
  /\ NUM_CPU \in Nat \ {0} /\ Inputs \subseteq Seq(Nat) /\ Garbage # {}
  /\ RoundedDown \subseteq {r \in Nat \X Nat : r[1] * r[2] > 0 /\ (r[1] * r[2]) % NUM_CPU = 0}

VARIABLES input,        \* the array as it was read
          arr,          \* the array, sorted block by block in phase I
          splitters,    \* the NUM_CPU-1 samples of every block
          g_splitters,  \* the bounds between the buckets
          buckets,      \* buckets[c][s]: what task c put into bucket s
          bucket_sizes, sizes_redux,  \* sizes of the buckets, their places in out
          out,          \* the result
          pc, i,        \* where the main thread is, and its loop variable
          running       \* the tasks that are submitted and have not ended

data == <<input, arr, splitters, g_splitters, buckets, bucket_sizes, sizes_redux, out>>
vars == <<data, pc, i, running>>

Cpus == 0..NUM_CPU-1
Unset == -1           \* an element of splitters that no task has written
Len0 == Len(input)

reg_blk_size == Len0 \div NUM_CPU
last_blk_size == IF Len0 % NUM_CPU = 0 THEN reg_blk_size ELSE Len0 % NUM_CPU
BlockSize(c) == IF c = NUM_CPU - 1 THEN last_blk_size ELSE reg_blk_size
Base(c) == reg_blk_size * c
Block(c) == SubSeq(arr, Base(c) + 1, Base(c) + BlockSize(c))

\* qsort of the library: the place of a key among the others, and the key at
\* every place
Rank(s, l) == Cardinality({j \in DOMAIN s : s[j] < s[l] \/ (s[j] = s[l] /\ j <= l)})
qsort(s) == [x \in DOMAIN s |-> s[CHOOSE l \in DOMAIN s : Rank(s, l) = x]]

\* the sum of the naturals f[x] over S, as the size of a disjoint union
Together(f, S) == Cardinality(UNION {{x} \X (1..f[x]) : x \in S})

\* the sequence s with t written over it from index from+1 on
Overwrite(s, from, t) ==
  [k \in DOMAIN s |-> IF k - from \in DOMAIN t THEN t[k - from] ELSE s[k]]

Init ==
  /\ input \in Inputs
  /\ arr = input
  /\ splitters = [k \in 1..NUM_CPU * (NUM_CPU-1) |-> Unset]
  /\ g_splitters = <<>>
  /\ buckets = [c \in Cpus |-> [s \in Cpus |-> <<>>]]
  /\ bucket_sizes = [s \in Cpus |-> 0]
  /\ sizes_redux = [s \in Cpus |-> 0]
  /\ out = <<>>
  /\ pc = "sort" /\ i = 0
  /\ running = {}

\* the main thread ends an iteration of its loop over the tasks
Loop(next) == /\ i' = IF i + 1 < NUM_CPU THEN i + 1 ELSE 0
              /\ pc' = IF i + 1 < NUM_CPU THEN pc ELSE next

Submit(phase, at, next) ==
  /\ pc = at
  /\ running' = running \cup {<<phase, i>>}
  /\ Loop(next)
  /\ UNCHANGED data

\* mutated: the call does not wait for the task
UnregisterAtOnce(phase, at, next) ==
  /\ pc = at
  /\ Loop(next)
  /\ UNCHANGED <<data, running>>

\* starpu_data_unregister of the handles that only task i of the phase uses
Unregister(phase, at, next) ==
  /\ pc = at
  /\ <<phase, i>> \notin running
  /\ Loop(next)
  /\ UNCHANGED <<data, running>>

Ends(phase, c) == /\ <<phase, c>> \in running
                  /\ running' = running \ {<<phase, c>>}
                  /\ UNCHANGED <<input, pc, i>>

----------------------------------------------------------------------------
(* Phase I: sort every block and sample it at regular distances.           *)

SubmitSort == Submit("I", "sort", "sorted")
UnregisterSorted == Unregister("I", "sorted", "split")

SampleIndex(len, k) ==
  (len * k) \div NUM_CPU - (IF <<len, k>> \in RoundedDown THEN 1 ELSE 0)

\* What the k-th sample of a block, sorted to blk, may read.  An empty block
\* starts at the array's first key, which the last task may be sorting, or
\* past the end of an empty array.
Sampled(blk, k) ==
  IF blk # <<>> THEN {blk[SampleIndex(Len(blk), k) + 1]}
  ELSE IF arr = <<>> THEN Garbage
  ELSE {arr[1]} \cup (IF <<"I", NUM_CPU - 1>> \in running THEN Range(arr) ELSE {})

cpu_phaseI(c) ==
  /\ Ends("I", c)
  /\ \E sorted \in {qsort(Block(c))} :
       /\ arr' = Overwrite(arr, Base(c), sorted)
       /\ \E sample \in [1..NUM_CPU-1 -> UNION {Sampled(sorted, k) : k \in 1..NUM_CPU-1}] :
            /\ \A k \in DOMAIN sample : sample[k] \in Sampled(sorted, k)
            /\ splitters' = Overwrite(splitters, c * (NUM_CPU-1), sample)
  /\ UNCHANGED <<g_splitters, buckets, bucket_sizes, sizes_redux, out>>

----------------------------------------------------------------------------
(* Phase II: the main thread sorts the samples and keeps every             *)
(* (NUM_CPU-1)-th of them.  The loop of the code runs once too often: its  *)
(* last iteration reads past the end of splitters and writes past the end  *)
(* of g_splitters, an element that no task reads and that is left out.     *)

\* mutated: the first samples are the bounds
ChooseSplittersFirst ==
  /\ pc = "split"
  /\ splitters' = qsort(splitters)
  /\ g_splitters' = [s \in 1..NUM_CPU-1 |-> splitters'[s]]
  /\ pc' = "bucket"
  /\ UNCHANGED <<input, arr, buckets, bucket_sizes, sizes_redux, out, i, running>>

ChooseSplitters ==
  /\ pc = "split"
  /\ splitters' = qsort(splitters)
  /\ g_splitters' = [s \in 1..NUM_CPU-1 |-> splitters'[s * (NUM_CPU-1) + 1]]
  /\ pc' = "bucket"
  /\ UNCHANGED <<input, arr, buckets, bucket_sizes, sizes_redux, out, i, running>>

----------------------------------------------------------------------------
(* Phase III: every task deals its block out to its own buckets.           *)

SubmitBucket == Submit("III", "bucket", "bucketed")
UnregisterBucketed == Unregister("III", "bucketed", "place")

\* the bucket the scan of s_idx has reached at the k-th key of blk: the first
\* whose bound is above every key so far, or the last
BucketAt(blk, k) ==
  Min({s \in Cpus : s = NUM_CPU-1 \/ \A l \in 1..k : blk[l] < g_splitters[s+1]})

\* where the keys of block blk are that go into bucket s: next to each other,
\* as s_idx never goes back
Dealt(blk, s) == {k \in DOMAIN blk : BucketAt(blk, k) = s}

cpu_phaseIII(c) ==
  LET blk == Block(c)
      keysOf(s) == [x \in 1..Cardinality(Dealt(blk, s)) |-> blk[Min(Dealt(blk, s)) + x - 1]]
  IN
  /\ Ends("III", c)
  /\ buckets' = [buckets EXCEPT ![c] = [s \in Cpus |-> @[s] \o keysOf(s)]]
  /\ UNCHANGED <<arr, splitters, g_splitters, bucket_sizes, sizes_redux, out>>

\* mutated: the indexes swapped
BucketSizeSwapped(s) == Together([c \in Cpus |-> Len(buckets[s][c])], Cpus)

BucketSize(s) == Together([c \in Cpus |-> Len(buckets[c][s])], Cpus)
PartStart(s) == Together([z \in Cpus |-> BucketSize(z)], 0..s-1)

\* the main thread adds up the sizes and allocates the result
PlaceBuckets ==
  /\ pc = "place"
  /\ bucket_sizes' = [s \in Cpus |-> BucketSize(s)]
  /\ sizes_redux' = [s \in Cpus |-> PartStart(s)]
  /\ out' \in [1..Len0 -> Garbage]
  /\ pc' = "gather"
  /\ UNCHANGED <<input, arr, splitters, g_splitters, buckets, i, running>>

----------------------------------------------------------------------------
(* Phase IV: task s collects bucket s of every block into its part of out  *)
(* and sorts it.                                                           *)

SubmitGather == Submit("IV", "gather", "gathered")

Gathered(s) == FlattenSeq([c \in 1..NUM_CPU |-> buckets[c-1][s]])

\* (a bound name, so that TLC gathers the bucket once)
cpu_phaseIV(s) ==
  /\ Ends("IV", s)
  /\ \E gathered \in {Gathered(s)} :
       out' = Overwrite(out, sizes_redux[s], qsort(gathered))
  /\ UNCHANGED <<arr, splitters, g_splitters, buckets, bucket_sizes, sizes_redux>>

\* starpu_task_wait_for_all
WaitForAll ==
  /\ pc = "gathered" /\ running = {}
  /\ pc' = "done"
  /\ UNCHANGED <<data, i, running>>

Finished == pc = "done" /\ UNCHANGED vars

Main == SubmitSort \/ UnregisterSorted \/ ChooseSplitters \/ SubmitBucket
        \/ UnregisterBucketed \/ PlaceBuckets \/ SubmitGather \/ WaitForAll
        \/ Finished
Task(c) == cpu_phaseI(c) \/ cpu_phaseIII(c) \/ cpu_phaseIV(c)

Next == Main \/ \E c \in Cpus : Task(c)

\* a worker gets to every submitted task, and the main thread goes on
Spec == Init /\ [][Next]_vars /\ WF_vars(Main) /\ \A c \in Cpus : WF_vars(Task(c))
----------------------------------------------------------------------------
PhaseOf == [sort |-> "I", sorted |-> "I", bucket |-> "III", bucketed |-> "III",
            gather |-> "IV", gathered |-> "IV"]

\* The phases never overlap, although only the handles order them: no task of
\* a phase still runs when the main thread uses the phase's results or
\* submits the next phase.
PhasesApart ==
  \A t \in running : pc \in DOMAIN PhaseOf /\ t[1] = PhaseOf[pc]

\* Regular sampling balances the work: with distinct keys and blocks of equal
\* size, no bucket gets twice the keys of a block or more.
BucketsBalanced ==
  (reg_blk_size > 0 /\ Len0 % NUM_CPU = 0 /\ IsInjective(input)) =>
    \A s \in Cpus : bucket_sizes[s] < 2 * reg_blk_size

\* main's "Verification": no key of the result is below the one before it.
VerificationPasses ==
  pc = "done" => \A k \in 2..Len(out) : ~(out[k] < out[k-1])

\* The program sorts its input, and ends.
Abstract == INSTANCE ParallelSort WITH
              output <- IF pc = "done" THEN out ELSE <<>>, done <- pc = "done"
SortsAll == Abstract!Spec
=============================================================================
