---------------------------- MODULE OmpMergeSort ----------------------------
(***************************************************************************)
(* omp_par::merge_sort, the sort within one process of the in-house code.  *)
(* The array is cut into p parts that are sorted concurrently; then, round *)
(* after round, neighbouring runs of j parts are merged from one buffer    *)
(* into the other, the two buffers change roles, and j doubles.            *)
(*                                                                         *)
(* The merges of a round are called one after the other; each call is      *)
(* omp_par::merge, whose result OmpMerge establishes (MergedStably), and   *)
(* is one step here.  A run without a neighbour is copied.                 *)
(***************************************************************************)
EXTENDS Integers, Sequences, FiniteSets, Functions

CONSTANTS Teams,    \* what omp_get_max_threads() may return
          Inputs    \* the arrays to sort

ParametersOK == Teams \subseteq Nat \ {0} /\ Inputs \subseteq Seq(Nat)

VARIABLES input,    \* the array as it was passed
          p,        \* the number of threads, and of parts
          A, B,     \* the caller's array and the buffer of the same size
          inA,      \* whether the pointer A_ points to A (and B_ to B)
          j, i,     \* the loop variables of the rounds
          phase,    \* entry, parts, round, back or done
          todo      \* the parts that are not sorted yet

given == <<input, p>>
vars == <<given, A, B, inA, j, i, phase, todo>>

Unset == -1         \* memory of B that nothing has written
N == Len(A)
Parts == 0..p-1

\* the sorted arrays with the elements of s
SortedCopies(s) ==
  {t \in [1..Len(s) -> Range(s)] :
     /\ \A k \in 1..Len(s) - 1 : t[k] <= t[k+1]
     /\ \A v \in Range(s) : Cardinality({k \in 1..Len(s) : t[k] = v})
                              = Cardinality({k \in 1..Len(s) : s[k] = v})}

splitAt(id) == (id * N) \div p
Slice(buf, f, l) == SubSeq(buf, splitAt(f) + 1, splitAt(l))

\* buf with s written from the start of part f on
Write(buf, f, s) ==
  [k \in DOMAIN buf |-> IF k \in splitAt(f) + 1..splitAt(f) + Len(s)
                        THEN s[k - splitAt(f)] ELSE buf[k]]

Init ==
  /\ input \in Inputs /\ p \in Teams
  /\ A = input
  /\ B = [k \in 1..Len(input) |-> Unset]
  /\ inA = TRUE
  /\ j = 1 /\ i = 0
  /\ phase = "entry"
  /\ todo = {}

\* a short array is left to std::sort
SortShort ==
  /\ phase = "entry" /\ N < 2*p
  /\ A' \in SortedCopies(A)
  /\ phase' = "done"
  /\ UNCHANGED <<given, B, inA, j, i, todo>>

Divide ==
  /\ phase = "entry" /\ N >= 2*p
  /\ phase' = "parts"
  /\ todo' = Parts
  /\ UNCHANGED <<given, A, B, inA, j, i>>

\* an iteration of the parallel loop over the parts
SortPart(id) ==
  /\ phase = "parts" /\ id \in todo
  /\ \E s \in SortedCopies(Slice(A, id, id+1)) : A' = Write(A, id, s)
  /\ todo' = todo \ {id}
  /\ UNCHANGED <<given, B, inA, j, i, phase>>

\* mutated: the last round is left out
NextPhaseEarly(width) == IF 2*width < p THEN "round" ELSE "back"

NextPhase(width) == IF width < p THEN "round" ELSE "back"

PartsSorted ==
  /\ phase = "parts" /\ todo = {}
  /\ phase' = NextPhase(j)
  /\ UNCHANGED <<given, A, B, inA, j, i, todo>>

Source == IF inA THEN A ELSE B
Target == IF inA THEN B ELSE A
\* the part after the run pair that starts at part i
PairEnd == IF i + 2*j <= p THEN i + 2*j ELSE p

\* mutated: a run without a neighbour is not copied
RunPairOnly ==
  IF i + j < p THEN SortedCopies(Slice(Source, i, i+j) \o Slice(Source, i+j, PairEnd))
               ELSE {<<>>}

\* what the round leaves in the target for the run pair that starts at part i
RunPair ==
  IF i + j < p THEN SortedCopies(Slice(Source, i, i+j) \o Slice(Source, i+j, PairEnd))
               ELSE {Slice(Source, i, p)}

MergePair ==
  /\ phase = "round" /\ i < p
  /\ \E s \in RunPair : /\ A' = IF inA THEN A ELSE Write(A, i, s)
                        /\ B' = IF inA THEN Write(B, i, s) ELSE B
  /\ i' = i + 2*j
  /\ UNCHANGED <<given, inA, j, phase, todo>>

\* the round is over: the buffers change roles
SwapBuffers ==
  /\ phase = "round" /\ i >= p
  /\ inA' = ~inA
  /\ j' = 2*j
  /\ i' = 0
  /\ phase' = NextPhase(2*j)
  /\ UNCHANGED <<given, A, B, todo>>

\* the result is brought back to A if the last round left it in B
CopyBack ==
  /\ phase = "back"
  /\ A' = IF inA THEN A ELSE B
  /\ phase' = "done"
  /\ UNCHANGED <<given, B, inA, j, i, todo>>

Returned == phase = "done" /\ UNCHANGED vars

Next == SortShort \/ Divide \/ (\E id \in Parts : SortPart(id)) \/ PartsSorted
        \/ MergePair \/ SwapBuffers \/ CopyBack \/ Returned

\* every iteration of the parallel loop runs, and the master goes on
Spec == Init /\ [][Next]_vars /\ WF_vars(Next)

----------------------------------------------------------------------------
\* What omp_par::merge demands of its arguments: in every round the runs of j
\* parts it is still to merge are sorted, and no part of them is memory of B
\* that the previous round left unwritten.
RunsReady ==
  phase = "round" =>
    \A f \in {k \in i..p-1 : k % j = 0} :
      LET run == Slice(Source, f, IF f + j <= p THEN f + j ELSE p)
      IN  /\ \A k \in 1..Len(run) - 1 : run[k] <= run[k+1]
          /\ \A k \in 1..Len(run) : run[k] # Unset

\* merge_sort sorts the caller's array in place, and returns.
Abstract == INSTANCE ParallelSort WITH
              output <- IF phase = "done" THEN A ELSE <<>>, done <- phase = "done"
SortsInPlace == Abstract!Spec
=============================================================================
