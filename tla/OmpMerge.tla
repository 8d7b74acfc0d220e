------------------------------ MODULE OmpMerge ------------------------------
(***************************************************************************)
(* omp_par::merge, the parallel merge of two sorted arrays that every      *)
(* in-house sort is built from.  Three `omp parallel for` loops over p     *)
(* iterations, each closed by its implicit barrier:                        *)
(*   split  iteration i records, for n positions of A and n of B, the key  *)
(*          there and its position in the merged array;                    *)
(*   pick   iteration i turns the recorded position nearest to i*(N1+N2)/p *)
(*          into the boundary between the segments of iterations i-1 and i;*)
(*   merge  iteration i merges its segment of A and of B into C.           *)
(*                                                                         *)
(* Iterations of one loop run in any order and concurrently; an iteration  *)
(* reads only what earlier loops wrote, so it is one step.  C holds the    *)
(* elements themselves, <<array, index>>, rather than their keys: that     *)
(* nothing is lost or written twice can then be seen even for equal keys.  *)
(* Only the order of the keys counts: they are natural numbers.            *)
(***************************************************************************)
EXTENDS Integers, Sequences, FiniteSets

CONSTANTS p,       \* iterations of every loop, the team's size
          n,       \* splits per iteration and array; the code has 10
          Inputs   \* the pairs <<A, B>> of sorted arrays to merge

SortedArrays ==
  {s \in Seq(Nat) : \A i, j \in 1..Len(s) : i <= j => s[i] <= s[j]}

ASSUME ParametersAssumption ==
  /\ p \in Nat \ {0}
  /\ n \in Nat \ {0}
  /\ Inputs \subseteq SortedArrays \X SortedArrays

VARIABLES A, B,           \* the sorted inputs
          C,              \* the output: element or NoElem for each position
          split,          \* split[0..2*p*n-1], the keys sampled
          split_size,     \* their positions in the merged array
          split_indx_A,   \* split_indx_A[0..p], segment boundaries in A
          split_indx_B,   \* split_indx_B[0..p], segment boundaries in B
          loop,           \* the loop running
          todo            \* its iterations that have not run yet

vars == <<A, B, C, split, split_size, split_indx_A, split_indx_B, loop, todo>>
inputs == <<A, B>>
splits == <<split, split_size>>
bounds == <<split_indx_A, split_indx_B>>

Unset == -1                   \* memory no iteration has written
NoElem == <<"none", 0>>
Threads == 0..p-1
Splits == 0..2*p*n-1

N1 == Len(A)
N2 == Len(B)
Elements == {<<"A", i>> : i \in 1..N1} \cup {<<"B", i>> : i \in 1..N2}
Key(e) == IF e[1] = "A" THEN A[e[2]] ELSE B[e[2]]

\* mutated: a position counted from one
LowerBoundFromOne(s, v) == Cardinality({k \in 1..Len(s) : s[k] < v}) + 1

\* std::lower_bound(s, s+Len(s), v) - s on a sorted array
LowerBound(s, v) ==
  CHOOSE k \in 0..Len(s) : /\ \A i \in 1..k : s[i] < v
                           /\ \A i \in k+1..Len(s) : s[i] >= v

\* index of the first of the splits f..l whose size is at least sz, l+1 if none
FirstSplit(f, l, sz) ==
  CHOOSE j \in f..l+1 : /\ \A i \in f..j-1 : split_size[i] < sz
                        /\ \A i \in j..l : split_size[i] >= sz

Abs(x) == IF x < 0 THEN -x ELSE x

----------------------------------------------------------------------------
Init ==
  /\ \E in \in Inputs : A = in[1] /\ B = in[2]
  /\ C = [k \in 1..Len(A) + Len(B) |-> NoElem]
  /\ split = [j \in Splits |-> Unset]
  /\ split_size = [j \in Splits |-> Unset]
  /\ split_indx_A = [i \in 0..p |-> Unset]
  /\ split_indx_B = [i \in 0..p |-> Unset]
  /\ loop = "entry"
  /\ todo = {}

\* merge returns at once when both arrays are empty, copies when one is
Enter ==
  /\ loop = "entry"
  /\ loop' = CASE N1 = 0 /\ N2 = 0 -> "done"
               [] (N1 = 0) # (N2 = 0) -> "copy"
               [] OTHER -> "split"
  /\ todo' = IF N1 = 0 /\ N2 = 0 THEN {} ELSE Threads
  /\ UNCHANGED <<inputs, C, splits, bounds>>

\* the memcpy of slice i of the only non-empty array
CopySlice(i) ==
  LET N == N1 + N2
      only == IF N1 = 0 THEN "B" ELSE "A"
  IN  /\ loop = "copy" /\ i \in todo
      /\ C' = [k \in DOMAIN C |-> IF k \in (i*N) \div p + 1..((i+1)*N) \div p
                                  THEN <<only, k>> ELSE C[k]]
      /\ todo' = todo \ {i}
      /\ UNCHANGED <<inputs, splits, bounds, loop>>

\* the index in an array of length N that split number j is taken from
SplitIndex(j, N) == (j * N) \div (p*n)

SplitKey(j) == IF j < p*n THEN A[SplitIndex(j, N1) + 1]
                          ELSE B[SplitIndex(j - p*n, N2) + 1]

SplitSize(j) ==
  IF j < p*n THEN SplitIndex(j, N1) + LowerBound(B, SplitKey(j))
             ELSE SplitIndex(j - p*n, N2) + LowerBound(A, SplitKey(j))

Sample(i) ==
  LET mine == {j \in Splits : (j % (p*n)) \div n = i}
  IN  /\ loop = "split" /\ i \in todo
      /\ split' = [j \in Splits |-> IF j \in mine THEN SplitKey(j) ELSE split[j]]
      /\ split_size' =
           [j \in Splits |-> IF j \in mine THEN SplitSize(j) ELSE split_size[j]]
      /\ todo' = todo \ {i}
      /\ UNCHANGED <<inputs, C, bounds, loop>>

ReqSize(i) == (i * (N1 + N2)) \div p
AtMost(x, y) == IF x <= y THEN x ELSE y

\* the first split of A and of B at or past the wanted size, or their last one
SplitOfA(sz) == AtMost(FirstSplit(0, p*n - 1, sz), p*n - 1)
SplitOfB(sz) == AtMost(FirstSplit(p*n, 2*p*n - 1, sz), 2*p*n - 1)

\* mutated: the farther of the two; only the splits of A
ClosestSplitFarther(sz) ==
  IF Abs(split_size[SplitOfB(sz)] - sz) > Abs(split_size[SplitOfA(sz)] - sz)
  THEN SplitOfB(sz) ELSE SplitOfA(sz)
ClosestSplitOfA(sz) == SplitOfA(sz)

\* the nearer of the two, A's on a tie
ClosestSplit(sz) ==
  IF Abs(split_size[SplitOfB(sz)] - sz) < Abs(split_size[SplitOfA(sz)] - sz)
  THEN SplitOfB(sz) ELSE SplitOfA(sz)

Pick(i) ==
  LET split1 == split[ClosestSplit(ReqSize(i))]
  IN  /\ loop = "pick" /\ i \in todo
      /\ split_indx_A' = [split_indx_A EXCEPT ![i] = LowerBound(A, split1)]
      /\ split_indx_B' = [split_indx_B EXCEPT ![i] = LowerBound(B, split1)]
      /\ todo' = todo \ {i}
      /\ UNCHANGED <<inputs, C, splits, loop>>

\* mutated: the last element of B is left out
SegmentShort(i) ==
  {<<"A", k>> : k \in split_indx_A[i] + 1..split_indx_A[i+1]} \cup
  {<<"B", k>> : k \in split_indx_B[i] + 1..split_indx_B[i+1] - 1}

\* the elements iteration i merges, and the order std::merge puts them in
Segment(i) ==
  {<<"A", k>> : k \in split_indx_A[i] + 1..split_indx_A[i+1]} \cup
  {<<"B", k>> : k \in split_indx_B[i] + 1..split_indx_B[i+1]}

Before(d, e) == \/ Key(d) < Key(e)
                \/ Key(d) = Key(e) /\ d[1] = "A" /\ e[1] = "B"
                \/ Key(d) = Key(e) /\ d[1] = e[1] /\ d[2] < e[2]

Offset(i) == split_indx_A[i] + split_indx_B[i]

Place(e, i) == Offset(i) + 1 + Cardinality({d \in Segment(i) : Before(d, e)})

MergeSegment(i) ==
  /\ loop = "merge" /\ i \in todo
  /\ C' = [k \in DOMAIN C |->
             IF \E e \in Segment(i) : Place(e, i) = k
             THEN CHOOSE e \in Segment(i) : Place(e, i) = k
             ELSE C[k]]
  /\ todo' = todo \ {i}
  /\ UNCHANGED <<inputs, splits, bounds, loop>>

\* the barrier that ends a loop, and what the master does before the next one
Barrier ==
  /\ todo = {} /\ loop \in {"copy", "split", "pick", "merge"}
  /\ loop' = CASE loop = "split" -> "pick"
               [] loop = "pick" -> "merge"
               [] loop \in {"copy", "merge"} -> "done"
  /\ todo' = CASE loop = "split" -> 1..p-1
               [] loop = "pick" -> Threads
               [] loop \in {"copy", "merge"} -> {}
  /\ IF loop = "split"
     THEN /\ split_indx_A' = [split_indx_A EXCEPT ![0] = 0, ![p] = N1]
          /\ split_indx_B' = [split_indx_B EXCEPT ![0] = 0, ![p] = N2]
     ELSE UNCHANGED bounds
  /\ UNCHANGED <<inputs, C, splits>>

Iteration(i) == CopySlice(i) \/ Sample(i) \/ Pick(i) \/ MergeSegment(i)

Returned == loop = "done" /\ UNCHANGED vars

Next == Enter \/ Barrier \/ (\E i \in Threads : Iteration(i)) \/ Returned

\* every iteration of a parallel for is run, and the master goes on
Fairness == WF_vars(Enter) /\ WF_vars(Barrier)
            /\ \A i \in Threads : WF_vars(Iteration(i))

Spec == Init /\ [][Next]_vars /\ Fairness

----------------------------------------------------------------------------
TypeOK ==
  /\ <<A, B>> \in Inputs
  /\ C \in [1..N1 + N2 -> Elements \cup {NoElem}]
  /\ split \in [Splits -> Nat \cup {Unset}]
  /\ split_size \in [Splits -> 0..N1 + N2 \cup {Unset}]
  /\ split_indx_A \in [0..p -> 0..N1 \cup {Unset}]
  /\ split_indx_B \in [0..p -> 0..N2 \cup {Unset}]
  /\ loop \in {"entry", "copy", "split", "pick", "merge", "done"}
  /\ todo \subseteq Threads

\* When the merge loop runs, the boundaries picked independently by the
\* iterations of the pick loop never cross, neither in A nor in B: the segments
\* tile both inputs, and so the output.  An iteration whose split lay before
\* its predecessor's would hand std::merge a reversed range.
SegmentsTile ==
  loop \in {"merge", "done"} /\ N1 > 0 /\ N2 > 0 =>
    \A i \in Threads : /\ split_indx_A[i] <= split_indx_A[i+1]
                       /\ split_indx_B[i] <= split_indx_B[i+1]

\* On return C holds every element of A and of B once, in the order in which a
\* sequential std::merge of the whole arrays leaves them: sorted by key, equal
\* keys in A's order, then B's.
MergedStably ==
  loop = "done" =>
    /\ \A e \in Elements : \E k \in DOMAIN C : C[k] = e
    /\ \A k \in 1..N1 + N2 - 1 : Before(C[k], C[k+1])

\* no key occurs twice
KeysDiffer == \A d, e \in Elements : Key(d) = Key(e) => d = e

\* "divide the final array equally between the threads": when no key occurs
\* twice, no boundary is farther from its equal share than two neighbouring
\* splits of A and two of B are apart, however the keys of A and B interleave.
BalancedSegments ==
  loop = "merge" /\ KeysDiffer =>
    \A i \in 1..p-1 :
      Abs(Offset(i) - ReqSize(i)) <= N1 \div (p*n) + N2 \div (p*n)
=============================================================================
