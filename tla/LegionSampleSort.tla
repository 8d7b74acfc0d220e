-------------------------- MODULE LegionSampleSort --------------------------
(***************************************************************************)
(* The Legion sample sort.  The top-level task launches five kinds of      *)
(* tasks, one after the other and without waiting for any: two of them are *)
(* single tasks, the others have a point task for every subregion.  No     *)
(* barrier orders the tasks.  Legion runs a task once every task launched  *)
(* before it has ended whose region requirements interfere with its own;   *)
(* what the tasks may assume of one another follows from the requirements  *)
(* alone, and some of them declare less than the task does.                *)
(*                                                                         *)
(* A logical region has one instance that all tasks share (one memory).    *)
(* Tasks that Legion may run at once use disjoint memory if the number of  *)
(* elements is a multiple of num_subregions; a task is one step.           *)
(***************************************************************************)
EXTENDS Integers, Sequences, SequencesExt

CONSTANTS num_subregions,  \* -b on the command line
          Inputs,          \* the arrays to sort
          Garbage          \* the values memory nobody has written may hold

ASSUME ParametersAssumption ==
  /\ num_subregions \in Nat \ {0, 1}
  /\ Inputs \subseteq Seq(Nat) /\ \A s \in Inputs : Len(s) >= num_subregions
  /\ Garbage # {}

VARIABLES file,             \* the array as it was read
          input,            \* logical region input_lr
          splitter,         \*   splitter_lr: the samples
          g_splitters,      \*   g_splitters_lr: the bounds of the buckets
          split_index,      \*   split_index_lr: where the buckets of a block begin
          one_per_bucket,   \*   one_per_bucket_lr: the sizes of the buckets
          output,           \*   output_lr
          report,           \* what the checker said
          launches,         \* how many launches the top-level task has made
          ended             \* the tasks that have ended

regions == <<input, splitter, g_splitters, split_index, one_per_bucket, output>>
vars == <<file, regions, report, launches, ended>>

Subregions == 0..num_subregions-1
num_elements == Len(file)
Unset == -1     \* an element of a region that no task has written

\* Blocks: the first number_small are one element shorter if the number of
\* elements is not a multiple of num_subregions.
lower_bound == num_elements \div num_subregions
number_small == num_subregions - (num_elements % num_subregions)
BlockSize(c) == IF c < number_small THEN lower_bound ELSE lower_bound + 1
Start(c) == c * lower_bound + (IF c > number_small THEN c - number_small ELSE 0)
Block(c) == SubSeq(input, Start(c) + 1, Start(c) + BlockSize(c))

\* What qsort of the library may make of s: the sorted arrays of its elements.
\* Equal integers are alike, so there is one.
qsort(s) ==
  {t \in [DOMAIN s -> Range(s)] :
     /\ \A k, l \in DOMAIN t : k <= l => t[k] <= t[l]
     /\ \A v \in Range(s) : Cardinality({k \in DOMAIN t : t[k] = v})
                              = Cardinality({k \in DOMAIN s : s[k] = v})}

\* the sequence s with t written over it from index from+1 on
Overwrite(s, from, t) ==
  [k \in DOMAIN s |-> IF k \in from+1..from+Len(t) THEN t[k - from] ELSE s[k]]

----------------------------------------------------------------------------
(* Launches and the order Legion keeps.                                    *)

Launches == <<"qsort", "one_task", "p_bucket_task", "qsort_bucket_task", "checker_task">>
Points(kind) == IF kind \in {"one_task", "checker_task"} THEN {0} ELSE Subregions

\* a requirement: a region, the parts of it, a privilege and a coherence
Needs(region, parts, privilege, coherence) ==
  [region |-> region, parts |-> parts, privilege |-> privilege, coherence |-> coherence]
All == Subregions

QsortNeeds(c) ==
  {Needs("input", {c}, "WRITE_DISCARD", "EXCLUSIVE"),
   Needs("splitter", {c}, "WRITE_DISCARD", "EXCLUSIVE")}
OneTaskNeeds ==
  {Needs("input", All, "READ_ONLY", "EXCLUSIVE"),
   Needs("splitter", All, "READ_ONLY", "EXCLUSIVE"),
   Needs("g_splitters", All, "WRITE_DISCARD", "EXCLUSIVE")}

\* mutated: the bounds are not declared
PBucketNeedsLess(c) ==
  {Needs("input", {c}, "READ_ONLY", "EXCLUSIVE"),
   Needs("split_index", {c}, "WRITE_DISCARD", "EXCLUSIVE")}
PBucketNeeds(c) ==
  {Needs("input", {c}, "READ_ONLY", "EXCLUSIVE"),
   Needs("g_splitters", All, "READ_ONLY", "EXCLUSIVE"),
   Needs("split_index", {c}, "WRITE_DISCARD", "EXCLUSIVE")}
QsortBucketNeeds(c) ==
  {Needs("split_index", All, "READ_ONLY", "SIMULTANEOUS"),
   Needs("input", All, "READ_ONLY", "SIMULTANEOUS"),
   Needs("one_per_bucket", {c}, "READ_WRITE", "EXCLUSIVE"),
   Needs("output", All, "READ_ONLY", "SIMULTANEOUS")}

\* mutated: the checker declares the region it reads, and no other
CheckerNeedsOutput == {Needs("output", All, "READ_ONLY", "EXCLUSIVE")}
CheckerNeeds ==
  {Needs("one_per_bucket", All, "READ_ONLY", "EXCLUSIVE"),
   Needs("output", All, "READ_ONLY", "EXCLUSIVE")}

Requirements(kind, c) ==
  CASE kind = "qsort" -> QsortNeeds(c)
    [] kind = "one_task" -> OneTaskNeeds
    [] kind = "p_bucket_task" -> PBucketNeeds(c)
    [] kind = "qsort_bucket_task" -> QsortBucketNeeds(c)
    [] kind = "checker_task" -> CheckerNeeds

Interfere(q, r) ==
  /\ q.region = r.region /\ q.parts \cap r.parts # {}
  /\ ~(q.privilege = "READ_ONLY" /\ r.privilege = "READ_ONLY")
  /\ ~(q.coherence = "SIMULTANEOUS" /\ r.coherence = "SIMULTANEOUS")

\* an earlier launch goes first; the tasks of one launch are independent
MustPrecede(u, t) ==
  \E l, m \in DOMAIN Launches :
    /\ l < m /\ Launches[l] = u[1] /\ Launches[m] = t[1]
    /\ \E q \in Requirements(u[1], u[2]), r \in Requirements(t[1], t[2]) : Interfere(q, r)

Tasks(l) == {<<Launches[l], c>> : c \in Points(Launches[l])}
AllTasks == UNION {Tasks(l) : l \in DOMAIN Launches}
Launched == UNION {Tasks(l) : l \in 1..launches}

Launch ==
  /\ launches < Len(Launches)
  /\ launches' = launches + 1
  /\ UNCHANGED <<file, regions, report, ended>>

MayRun(t) == /\ t \in Launched \ ended
             /\ \A u \in AllTasks : MustPrecede(u, t) => u \in ended

\* task c of a launch runs, from its start to its end
Runs(kind, c) ==
  /\ MayRun(<<kind, c>>)
  /\ ended' = ended \cup {<<kind, c>>}
  /\ UNCHANGED <<file, launches>>

----------------------------------------------------------------------------
Init ==
  /\ file \in Inputs
  /\ input = file
  /\ splitter = [k \in 1..num_subregions * (num_subregions-1) |-> Unset]
  /\ g_splitters = [k \in 1..num_subregions-1 |-> Unset]
  /\ split_index = [c \in Subregions |-> [s \in Subregions |-> Unset]]
  /\ one_per_bucket = [s \in Subregions |-> Unset]
  /\ output \in [1..Len(file) -> Garbage]
  /\ report = "none"
  /\ launches = 0
  /\ ended = {}

\* sort a block and sample it
qsort_task(c) ==
  LET every == BlockSize(c) \div num_subregions IN
  /\ Runs("qsort", c)
  /\ \E blk \in qsort(Block(c)) :
       /\ input' = Overwrite(input, Start(c), blk)
       /\ splitter' = Overwrite(splitter, c * (num_subregions-1),
                                [k \in 1..num_subregions-1 |-> blk[every * k + 1]])
  /\ UNCHANGED <<g_splitters, split_index, one_per_bucket, output, report>>

\* sort the samples, in the region it may only read, and choose the bounds
one_task ==
  /\ Runs("one_task", 0)
  /\ splitter' \in qsort(splitter)
  /\ g_splitters' = [k \in 1..num_subregions-1 |-> splitter'[(num_subregions-1) * k + 1]]
  /\ UNCHANGED <<input, split_index, one_per_bucket, output, report>>

\* the bucket the scan of a block is at when it passes the k-th key
BucketAt(blk, k) ==
  Min({s \in Subregions : s = num_subregions-1 \/ \A l \in 1..k : blk[l] < g_splitters[s+1]})

\* where the buckets of a block begin in it; -1 for a bucket without keys
p_bucket_task(c) ==
  LET blk == Block(c)
      At(s) == {k \in DOMAIN blk : BucketAt(blk, k) = s}
  IN
  /\ Runs("p_bucket_task", c)
  /\ split_index' = [split_index EXCEPT ![c] =
       [s \in Subregions |-> IF At(s) = {} THEN -1 ELSE Min(At(s)) - 1]]
  /\ UNCHANGED <<input, splitter, g_splitters, one_per_bucket, output, report>>

\* mutated: the next bucket's index although that bucket may have no keys
ElementsInNoSkip(c, s) ==
  (IF s + 1 < num_subregions THEN split_index[c][s+1] ELSE lower_bound) - split_index[c][s]

\* How many keys of bucket s qsort_bucket_task counts in block c, where the
\* bucket has keys: up to the beginning of the next bucket with keys, or to
\* the end of the block, as if every block had lower_bound elements.
ElementsIn(c, s) ==
  LET later == {t \in s+1..num_subregions-1 : split_index[c][t] # -1}
  IN  (IF later = {} THEN lower_bound ELSE split_index[c][Min(later)]) - split_index[c][s]

Holders(s) == {c \in Subregions : split_index[c][s] # -1}

\* Sums of sizes as sizes of disjoint unions: all that it counts for bucket s,
\* and for the buckets before.
Counted(s) == UNION {{c} \X (1..ElementsIn(c, s)) : c \in Holders(s)}
TotalElements(s) == Cardinality(Counted(s))
ElementOffset(s) == Cardinality(UNION {{t} \X Counted(t) : t \in 0..s-1})

\* mutated: the index in the block taken for an index in the input
CopiedFromStart(c, s) ==
  LET from == split_index[c][s]
      many == IF ElementsIn(c, s) > 1 THEN ElementsIn(c, s) ELSE 1
  IN  IF c \in Holders(s) THEN SubSeq(input, from + 1, from + many) ELSE <<>>

\* what it copies out of block c: one key at least
Copied(c, s) ==
  LET from == c * lower_bound + split_index[c][s]
      many == IF ElementsIn(c, s) > 1 THEN ElementsIn(c, s) ELSE 1
  IN  IF c \in Holders(s) THEN SubSeq(input, from + 1, from + many) ELSE <<>>

\* collect bucket s into the output, which it may only read, and sort it there
qsort_bucket_task(s) ==
  LET from == ElementOffset(s)
      copied == Overwrite(output, from,
                  FlattenSeq([c \in 1..num_subregions |-> Copied(c-1, s)]))
  IN
  /\ Runs("qsort_bucket_task", s)
  /\ \E bucket \in qsort(SubSeq(copied, from + 1, from + TotalElements(s))) :
       output' = Overwrite(copied, from, bucket)
  /\ one_per_bucket' = [one_per_bucket EXCEPT ![s] = TotalElements(s)]
  /\ UNCHANGED <<input, splitter, g_splitters, split_index, report>>

\* prev_value stays the first element
checker_task ==
  /\ Runs("checker_task", 0)
  /\ report' = IF \E k \in 2..num_elements : output[k] < output[1] THEN "mistake" ELSE "sorted"
  /\ UNCHANGED regions

Ended == ended = AllTasks /\ UNCHANGED vars

Next ==
  \/ Launch
  \/ \E c \in Subregions : qsort_task(c) \/ p_bucket_task(c) \/ qsort_bucket_task(c)
  \/ one_task \/ checker_task
  \/ Ended

\* the top-level task goes on, and Legion runs every task that may run
Spec == Init /\ [][Next]_vars /\ WF_vars(Next)

----------------------------------------------------------------------------
HasEnded(kind) == {<<kind, c>> : c \in Points(kind)} \subseteq ended

\* The requirements order the tasks as the algorithm needs them to be ordered:
\* the bounds are chosen from the samples of all blocks, a bucket is collected
\* when all blocks are divided, and the checker, whose requirement on the
\* output orders nothing, comes after the last write of the output.
OrderedByRequirements ==
  /\ <<"one_task", 0>> \in ended => HasEnded("qsort")
  /\ \A s \in Subregions : <<"qsort_bucket_task", s>> \in ended => HasEnded("p_bucket_task")
  /\ report # "none" => HasEnded("qsort_bucket_task")

Even == num_elements % num_subregions = 0

\* Skipping the buckets without keys, qsort_bucket_task counts exactly the
\* keys of a block between the bounds of the bucket.
CountsExact ==
  Even /\ HasEnded("p_bucket_task") =>
    \A c, s \in Subregions :
      (IF c \in Holders(s) THEN ElementsIn(c, s) ELSE 0)
        = Cardinality({k \in 1..lower_bound :
            /\ s > 0 => Block(c)[k] >= g_splitters[s]
            /\ s < num_subregions - 1 => Block(c)[k] < g_splitters[s+1]})

\* What the tasks write and read, whatever they declare.
Cells(region, indexes) == {<<region, k>> : k \in indexes}
Writes(t) ==
  CASE t[1] = "qsort" -> Cells("input", {t[2]}) \cup Cells("splitter", {t[2]})
    [] t[1] = "one_task" -> Cells("splitter", All) \cup Cells("g_splitters", All)
    [] t[1] = "p_bucket_task" -> Cells("split_index", {t[2]})
    [] t[1] = "qsort_bucket_task" ->
         Cells("output", ElementOffset(t[2]) + 1..ElementOffset(t[2]) + TotalElements(t[2]))
    [] OTHER -> {}
Reads(t) ==
  CASE t[1] = "p_bucket_task" -> Cells("input", {t[2]}) \cup Cells("g_splitters", All)
    [] t[1] = "qsort_bucket_task" -> Cells("input", All) \cup Cells("split_index", All)
    [] t[1] = "checker_task" -> Cells("output", 1..num_elements)
    [] OTHER -> {}

\* Tasks that Legion may run at the same time never race, although some write
\* what they declare to read only.
NoRace ==
  Even => \A t, u \in {v \in AllTasks : MayRun(v)} :
            t # u => Writes(t) \cap (Writes(u) \cup Reads(u)) = {}

\* checker_task finds no mistake.
CheckerPasses == report # "mistake"

\* What checker_task lets pass is sorted.
CheckerSound ==
  report = "sorted" => \A k \in 1..num_elements - 1 : output[k] <= output[k+1]

\* If the blocks are equally long, the program sorts its input, and ends.
Abstract == INSTANCE ParallelSort WITH
              input <- file, done <- report # "none",
              output <- IF report # "none" THEN output ELSE <<>>
SortsAll == Abstract!Spec
=============================================================================
