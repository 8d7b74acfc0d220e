------------------------- MODULE MCStarPUSampleSort -------------------------
(* Bounded inputs for StarPUSampleSort.                                    *)
EXTENDS StarPUSampleSort

CONSTANTS Lengths, MaxKey,  \* how many keys, and the largest
          Distinct          \* how many keys, when they are distinct

AllArrays == UNION {[1..k -> 1..MaxKey] : k \in Lengths}

\* arrays of the keys 1..k, sorted block by block: what phase I leaves of any
\* array of distinct keys; f says in which block each key is
InBlocks(f) ==
  LET w == Len(f) \div NUM_CPU
      blockOf(c) == SetToSortSeq({v \in DOMAIN f : f[v] = c}, <)
  IN  [x \in DOMAIN f |-> blockOf((x-1) \div w)[((x-1) % w) + 1]]
DistinctBlocks ==
  {InBlocks(f) : f \in {g \in UNION {[1..k -> Cpus] : k \in Distinct} :
     \A c \in Cpus : Cardinality({v \in DOMAIN g : g[v] = c}) = Len(g) \div NUM_CPU}}

Arrays == AllArrays \cup DistinctBlocks
=============================================================================
