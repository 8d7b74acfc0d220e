------------------------------- MODULE MCOmp --------------------------------
(* Bounded inputs for omp_par::merge and omp_par::merge_sort (OmpUtils).   *)
EXTENDS OmpUtils

CONSTANTS MaxLen,    \* longest array to merge
          MaxKey,    \* keys are 1..MaxKey
          Distinct,  \* the keys 1..Distinct are dealt to A and B
          SortLen,   \* merge_sort gets arrays of up to SortLen keys of 1..MaxKey
          LongLen    \* and arrays of LongLen keys of 1..2

SortedUpTo(len) ==
  UNION {{s \in [1..k -> 1..MaxKey] : \A i \in 1..k-1 : s[i] <= s[i+1]}
           : k \in 0..len}

\* every pair of sorted arrays of at most MaxLen keys, duplicates included
AllPairs == SortedUpTo(MaxLen) \X SortedUpTo(MaxLen)

\* the keys 1..Distinct dealt to A and B in every way: all distinct
DealtTo(S) ==
  [i \in 1..Cardinality(S) |-> CHOOSE x \in S : Cardinality({y \in S : y <= x}) = i]
DistinctPairs ==
  {<<DealtTo(S), DealtTo((1..Distinct) \ S)>> : S \in SUBSET (1..Distinct)}

Pairs == AllPairs \cup DistinctPairs
ShortArrays == UNION {[1..k -> 1..MaxKey] : k \in 0..SortLen} \cup [1..LongLen -> 1..2]
=============================================================================
