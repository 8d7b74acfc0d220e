------------------------- MODULE MCGaloisSampleSort -------------------------
(* Bounded inputs for GaloisSampleSort.                                    *)
EXTENDS GaloisSampleSort

CONSTANTS Lengths,      \* how many keys,
          MaxKey,       \* and the largest of them
          LongLengths   \* how many keys, when they are only 0 and 1 and sorted by block

\* as data/generator.c writes them, no key exceeds the number of keys
AllArrays == UNION {[1..m -> 0..(IF MaxKey < m THEN MaxKey ELSE m)] : m \in Lengths}

\* arrays whose blocks are sorted already, for lengths p divides
SortedBlocks ==
  {s \in UNION {[1..m -> 0..1] : m \in LongLengths} :
     \A j \in 1..Len(s) - 1 : j % (Len(s) \div p) # 0 => s[j] <= s[j+1]}

Arrays == AllArrays \cup SortedBlocks
AnyWord == {-1, 99}   \* below and above every key
=============================================================================
