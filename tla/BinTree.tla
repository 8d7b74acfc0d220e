------------------------------ MODULE BinTree ------------------------------
(***************************************************************************)
(* The build of rkdt's distributed tree, binNode::Insert.  In the          *)
(* communicator of a node the processes even out their points, choose a    *)
(* coordinate, find the median of it, give each point a side so that the   *)
(* left one gets exactly half of them, move the points to the processes of *)
(* their sides, and go on with the child.  At a leaf each process keeps    *)
(* its points and waits for all the others.                                *)
(*                                                                         *)
(* The coordinate is drawn at random or is that of the largest variance:   *)
(* any one here.  Coordinates are integers and medians fractions           *)
(* <<numerator, denominator>>.  A rotation of the points is left out.      *)
(***************************************************************************)
EXTENDS Repartition

VARIABLES tree,         \* tree[r], the nodes from the root to process r's leaf
          leafdata        \* leafdata[r], what r keeps of its leaf

treeVars == <<tree, leafdata>>

NotBuilt == <<-1>>

Refs == DOMAIN given.refs
Dims == DOMAIN given.refs[0]

SumOver(S, f(_)) == MapThenSumSet(f, S)
Abs(x) == IF x < 0 THEN -x ELSE x

\* MPI_Allreduce of the points, load balance
Insert(r) ==
  /\ Together(r, "insert")
  /\ tree' = [o \in Procs |->
       IF o \notin Members(r) THEN tree[o]
       ELSE Append(tree[o], [comm |-> comm[o],
                             Nglobal |-> SumOver(Members(r), LAMBDA m : numof_points[m]),
                             coord_mv |-> 0, median |-> <<0, 1>>])]
  /\ BalanceStart(r)
  /\ UNCHANGED <<given, comm, gids, numof_points, n_send, n_left, chan, leafdata>>

ThisNode(r) == tree[r][Len(tree[r])]

BaseCase(r) ==
  \/ Size(r) <= given.minCommSize
  \/ Len(tree[r]) - 1 = given.maxLevel
  \/ ThisNode(r).Nglobal <= given.maxp

InsertLeaf(r) ==
  /\ pc[r] = "balanced"
  /\ BaseCase(r)
  /\ leafdata' = [leafdata EXCEPT ![r] = Live(r)]
  /\ Goto(r, "built")
  /\ UNCHANGED <<given, comm, gids, numof_points, plr, niter, n_send, n_left, chan, tree>>

-----------------------------------------------------------------------------
(* the splitter *)

\* distributeSelect: the mean of what is left, until ks of it are below
distributeSelect(all, x) ==
  LET select[S \in SUBSET all, ks \in 0..Cardinality(all)] ==
        LET N == Cardinality(S)
            sum == SumOver(S, LAMBDA g : x[g])
            less == {g \in S : x[g] * N <= sum}
            N_less == Cardinality(less)
        IN  CASE N_less = ks \/ N = 1 \/ N_less = N -> <<sum, N>>
              [] N_less > ks /\ N_less < N -> select[less, ks]
              [] OTHER -> select[S \ less, ks - N_less]
  IN  select[all, Cardinality(all) \div 2]

Below(x, med) == x * med[2] < med[1]

\* within 10^-6 of the median.  When that is 0 the quotient is NaN for a 0
\* and infinite for the others, which only medianSplitter takes for equal
Same(x, med) ==
  IF med[1] = 0 THEN x = 0 \/ given.splitter = "rsmt"
  ELSE Abs(x * med[2] - med[1]) * 1000000 < Abs(med[1])

\* mutated: each process splits its own half and half
MovesLeftHalf(o, all, below, same) == Len(same[o]) \div 2

\* how many of the points of o equal to the median go to the left: in the
\* order of the ranks as many as make the left side half of all
MovesLeft(o, all, below, same) ==
  LET glb_n_move_left == Cardinality(all) \div 2 - Cardinality(below)
      excl_scan == SumOver(comm[o][1] .. o - 1, LAMBDA m : Len(same[m]))
      nsame == Len(same[o])
  IN  IF excl_scan + nsame < glb_n_move_left THEN nsame
      ELSE Max({glb_n_move_left - excl_scan, 0})

\* the points of the communicator of r that go to the left
LeftOf(r, c, med) ==
  LET x(g) == given.refs[g][c]
      all == UNION {Points(o) : o \in Members(r)}
      same == [o \in Members(r) |-> SelectSeq(Live(o), LAMBDA g : Same(x(g), med))]
      below == {g \in all : Below(x(g), med) /\ ~Same(x(g), med)}
  IN  below \cup
      UNION {{same[o][i] : i \in 1..MovesLeft(o, all, below, same)} : o \in Members(r)}

\* pre_all2all: those of the left first
Arranged(v, n, left) ==
  SelectSeq(SubSeq(v, 1, n), LAMBDA g : g \in left)
  \o SelectSeq(SubSeq(v, 1, n), LAMBDA g : g \notin left)
  \o SubSeq(v, n + 1, Len(v))

InsertSplit(r) ==
  /\ Together(r, "balanced")
  /\ ~BaseCase(r)
  /\ \E c \in Dims :
       \E med \in {distributeSelect(UNION {Points(o) : o \in Members(r)},
                                    [g \in Refs |-> given.refs[g][c]])} :
       \E left \in {LeftOf(r, c, med)} :
         /\ tree' = [o \in Procs |-> IF o \notin Members(r) THEN tree[o]
              ELSE [tree[o] EXCEPT ![Len(tree[o])].coord_mv = c,
                                   ![Len(tree[o])].median = med]]
         /\ gids' = [o \in Procs |-> IF o \notin Members(r) THEN gids[o]
              ELSE Arranged(gids[o], numof_points[o], left)]
         /\ n_left' = [o \in Procs |-> IF o \notin Members(r) THEN n_left[o]
              ELSE Cardinality(Points(o) \cap left)]
  /\ pc' = [o \in Procs |-> IF o \in Members(r) THEN FirstStep(o) ELSE pc[o]]
  /\ UNCHANGED <<given, comm, numof_points, plr, niter, n_send, chan, leafdata>>

\* MPI_Comm_split, and Insert of the child
InsertKid(r) ==
  /\ Together(r, "barrier2")
  /\ comm' = [o \in Procs |-> IF o \in Members(r) THEN Half(o) ELSE comm[o]]
  /\ AllGoto(r, "insert")
  /\ UNCHANGED <<given, gids, numof_points, plr, niter, n_send, n_left, chan, treeVars>>

Building(r) == Insert(r) \/ InsertLeaf(r) \/ InsertSplit(r) \/ InsertKid(r)
=============================================================================
