------------------------- MODULE MCLegionSampleSort -------------------------
(* Bounded inputs for LegionSampleSort.                                    *)
EXTENDS LegionSampleSort

CONSTANTS Lengths, MaxKey   \* how many keys, and the largest

AllArrays == UNION {[1..k -> 0..MaxKey] : k \in Lengths}
=============================================================================
