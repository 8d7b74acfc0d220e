------------------------------ MODULE OmpUtils ------------------------------
(***************************************************************************)
(* The two functions of ompUtils.txx that sort: a call of omp_par::merge   *)
(* (OmpMerge) and one of omp_par::merge_sort (OmpMergeSort).  They share   *)
(* no state, so one of the two calls has nothing to do.                    *)
(***************************************************************************)
EXTENDS OmpMerge

CONSTANTS Teams,     \* the teams that sort
          Arrays     \* and the arrays they get

\* the state of merge_sort
VARIABLES array, team, caller, buffer, inCaller, width, part, phase, left

sortVars == <<array, team, caller, buffer, inCaller, width, part, phase, left>>

Sort == INSTANCE OmpMergeSort WITH
          Inputs <- Arrays, input <- array, p <- team, A <- caller, B <- buffer,
          inA <- inCaller, j <- width, i <- part, todo <- left

ASSUME SortAssumption == Sort!ParametersOK

OmpInit ==
  \/ array = <<>> /\ Init /\ Sort!Init
  \/ A = <<>> /\ B = <<>> /\ Init /\ Sort!Init

OmpNext == \/ Next /\ UNCHANGED sortVars
           \/ Sort!Next /\ UNCHANGED vars

OmpSpec == /\ OmpInit /\ [][OmpNext]_<<vars, sortVars>>
           /\ Fairness /\ WF_sortVars(Sort!Next)

\* In every round of merge_sort (ompUtils.txx:120) the runs that are still to be
\* merged are sorted, and no part of them is unwritten memory.
RunsReady == Sort!RunsReady

\* merge_sort sorts the caller's array in place, and returns.
SortsInPlace == Sort!SortsInPlace
=============================================================================
