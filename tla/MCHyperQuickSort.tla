-------------------------- MODULE MCHyperQuickSort --------------------------
(* Bounded inputs for HyperQuickSort.                                      *)
EXTENDS HyperQuickSort

CONSTANTS MaxLen,   \* longest block of three
          MaxKey    \* keys are 1..MaxKey

Blocks(len, key) == UNION {[1..k -> 1..key] : k \in 0..len}

IsSorted(b) == \A i \in 1..Len(b) - 1 : b[i] <= b[i+1]

\* three processes, every way to fill the blocks, unequal and empty ones
\* included: LocalSort leaves sorted blocks behind, so only the first process
\* gets unsorted ones
Three == {f \in [0..2 -> Blocks(MaxLen, MaxKey)] : \A q \in 1..2 : IsSorted(f[q])}

\* five processes, at most one key each
Five == {f \in [0..4 -> Blocks(1, 2)] : f[1] = <<1>> /\ f[3] = <<2>>}

BothSizes == [arr : Three, rendezvous : {TRUE}] \cup [arr : Five, rendezvous : {FALSE}]
=============================================================================
