---------------------------- MODULE LinearOctree ----------------------------
(***************************************************************************)
(* The linear octrees of pvfmm: a tree as the sorted list of its leaves,   *)
(* distributed over the processes in the order of the Morton curve.        *)
(*   points2Octree   the coarsest tree with at most maxNumPts points a     *)
(*                   leaf, built by every process from its share of the    *)
(*                   sorted points and mended where two shares meet;       *)
(*   balanceOctree   its refinement in which neighbours differ by at most  *)
(*                   one level.                                            *)
(* A distributed list is a function from processes to sequences.  Both     *)
(* functions go through collective calls and exchanges with the process    *)
(* before and after whose outcome no interleaving changes, so an operator  *)
(* maps the lists of all the processes to their lists afterwards.          *)
(* HyperQuickSort is the model of the sort and of the redistribution used  *)
(* here: sorted, in equal shares.                                          *)
(***************************************************************************)
EXTENDS Morton, SequencesExt, TLC

np == Len(given.pts)
Procs == 0..np-1

\* a set of ids in their order
Ordered(S) == SortSeq(FoldSet(LAMBDA m, s : Append(s, m), <<>>, S), Less)

Glued(v) == FlattenSeq([i \in 1..np |-> v[i-1]])

\* par::partitionW with unit weights
partitionW(v) ==
  LET all == Glued(v)
      from(i) == (Len(all) * i) \div np
  IN  [r \in Procs |-> SubSeq(all, from(r) + 1, from(r+1))]

HyperQuickSort(v) ==
  partitionW([r \in Procs |-> IF r = 0 THEN SortSeq(Glued(v), Less) ELSE <<>>])

\* the ids from a on, each the NextId of the one before, up to end; they
\* become deeper where they would reach beyond it
RECURSIVE Between(_, _)
Between(a, end) ==
  IF ~Less(a, end) THEN <<>>
  ELSE IF isAncestor(a, end) THEN Between(Deeper(a), end)
  ELSE <<a>> \o Between(NextId(a), end)

----------------------------------------------------------------------------
(* points2Octree *)

\* the points, as ids of the finest level
pt_mid == [r \in Procs |-> [i \in 1..Len(given.pts[r+1]) |-> <<given.pts[r+1][i], MAX_DEPTH>>]]

\* fewer points than maxNumPts a process: a share of the points for everyone
maxNumPts ==
  LET glb_pt_cnt == Len(Glued(pt_mid))
  IN  IF glb_pt_cnt < given.max_pts * np THEN glb_pt_cnt \div np ELSE given.max_pts

\* a process's points, and the first of the next one's
pt_sorted(r) ==
  LET pts == HyperQuickSort(pt_mid)
      sent(q) == SubSeq(pts[q], 1, Min({2 * maxNumPts, Len(pts[q])}))
  IN  pts[r] \o (IF r < np-1 THEN sent(r+1) ELSE <<>>)

LowerBound(s, m) == Cardinality({i \in 1..Len(s) : Less(s[i], m)})

\* curr_node refined until the point after the maxNumPts it may hold is
\* outside, or to the finest level
Refined(nodes, curr_node, next_pt) ==
  <<curr_node[1],
    CHOOSE d \in curr_node[2]..MAX_DEPTH :
      LET fits(e) == \/ next_pt >= Len(nodes)
                     \/ e >= MAX_DEPTH - 1
                     \/ ~Less(nodes[next_pt+1], NextId(<<curr_node[1], e>>))
      IN  fits(d) /\ \A e \in curr_node[2]..d-1 : ~fits(e)>>

\* next_pt moved on, twice as far each time, until it is past the points of
\* an octant that cannot be refined any more
RECURSIVE Skipped(_, _, _, _)
Skipped(nodes, curr_node, next_pt, inc) ==
  IF next_pt >= Len(nodes) THEN Len(nodes)
  ELSE IF Less(nodes[next_pt+1], curr_node)
       THEN Skipped(nodes, curr_node, next_pt + 2*inc, 2*inc)
       ELSE next_pt

RECURSIVE Octants(_, _, _, _)
Octants(nodes, curr_node, next_pt, complete) ==
  IF next_pt > Len(nodes)
  THEN IF complete THEN Between(curr_node, NextId(Root)) ELSE <<>>
  ELSE LET leaf == Refined(nodes, curr_node, next_pt)
           next == NextId(leaf)
           till == Skipped(nodes, next, next_pt, maxNumPts)
           curr_pt == LowerBound(SubSeq(nodes, 1, till), next)
       IN  <<leaf>> \o (IF curr_pt >= Len(nodes)
                        THEN IF complete THEN Between(next, NextId(Root)) ELSE <<>>
                        ELSE Octants(nodes, next, Min({curr_pt + maxNumPts, Len(nodes)}),
                                     complete))

p2oLocal(r) == Octants(pt_sorted(r), Root, maxNumPts, r = np-1)

\* what the assertions of p2oLocal say of its result
LocalOctreeSound(r, leaves) ==
  LET nodes == pt_sorted(r)
      upto(m) == LowerBound(nodes, m)
  IN  \A i \in 1..Len(leaves) :
        LET a == upto(leaves[i])
            b == upto(NextId(leaves[i]))
        IN  /\ b - a <= maxNumPts \/ leaves[i][2] = MAX_DEPTH - 1
            /\ i = 1 => a = 0
            /\ i = Len(leaves) /\ r < np-1 => b = Len(nodes) /\ a < Len(nodes)

\* how many of its first octants lie before first_node, the last octant of
\* the process before
Superseded(local, first_node) ==
  CHOOSE i \in 0..Len(local) :
    /\ \A j \in 1..i : Less(getDFD(local[j]), first_node)
    /\ i < Len(local) => ~Less(getDFD(local[i+1]), first_node)

\* mutated: the last octant is kept by both
RemoveDuplicatesNone(local) ==
  [r \in Procs |->
     LET first_node == local[r-1][Len(local[r-1])]
         i == Superseded(local[r], first_node)
         kept == SubSeq(local[r], i+1, Len(local[r]))
     IN  IF r = 0 THEN local[0]
         ELSE Between(first_node, NextId(local[r][i])) \o kept]

\* every process but the last leaves its last octant to the next one, which
\* puts it in the place of its own octants up to where both agree
RemoveDuplicates(local) ==
  [r \in Procs |->
     LET mine == IF r < np-1 THEN SubSeq(local[r], 1, Len(local[r]) - 1) ELSE local[r]
         first_node == local[r-1][Len(local[r-1])]
         i == Superseded(local[r], first_node)
     IN  IF r = 0 THEN mine
         ELSE Between(first_node, NextId(local[r][IF i = 0 THEN 1 ELSE i]))
              \o SubSeq(mine, i+1, Len(mine))]

\* the leaves of the tree, in equal shares
points2Octree(local) == partitionW(RemoveDuplicates(local))

----------------------------------------------------------------------------
(* balanceOctree *)

Parent(m) == getAncestor(m, m[2] - 1)

\* mutated: only the parents of the leaves themselves
SplitNodesLocal(leaves) == {Parent(m) : m \in {x \in leaves : x[2] > 0}}

\* The nodes a process wants split: the parents of its leaves and, from the
\* finest level up, the parents of the neighbours of those found so far;
\* less the parents of others.
SplitNodes(leaves) ==
  LET parents == {Parent(m) : m \in {x \in leaves : x[2] > 0}}
      level(A, l) == A \union {getAncestor(n, l-1) :
                               n \in UNION {NbrList(m, l) : m \in {x \in A : x[2] = l}}}
      all == FoldLeft(level, parents, [i \in 1..MAX_DEPTH-1 |-> MAX_DEPTH - i])
  IN  all \ {Parent(m) : m \in {x \in all : x[2] > 0}}

NonEmpty(v) == {r \in Procs : v[r] # <<>>}
\* the last octant of the process before r, of those that have any
LastOnPrev(v, r) ==
  LET q == Max({p \in NonEmpty(v) : p < r}) IN v[q][Len(v[q])]

\* mutated: every process looks at its own octants alone
lineariseListLocal(v) ==
  [r \in Procs |->
     LET list == v[r]
         kept == SelectSeq([i \in 1..Len(list)-1 |-> i],
                           LAMBDA i : ~isAncestor(list[i], list[i+1]) /\ list[i] # list[i+1])
     IN  [i \in 1..Len(kept) |-> list[kept[i]]]
         \o (IF list # <<>> THEN <<list[Len(list)]>> ELSE <<>>)]

\* Duplicates and ancestors removed from a sorted list.  Every process that
\* has octants hands its last one to the next such process.
lineariseList(v) ==
  [r \in Procs |->
     LET list == IF v[r] = <<>> \/ r = Min(NonEmpty(v)) THEN v[r]
                 ELSE <<LastOnPrev(v, r)>> \o v[r]
         kept == SelectSeq([i \in 1..Len(list)-1 |-> i],
                           LAMBDA i : ~isAncestor(list[i], list[i+1]) /\ list[i] # list[i+1])
     IN  [i \in 1..Len(kept) |-> list[kept[i]]]
         \o (IF v[r] # <<>> /\ r = Max(NonEmpty(v)) THEN <<list[Len(list)]>> ELSE <<>>)]

\* the children of the nodes to split, and what lies between those nodes
RECURSIVE WithChildren(_, _, _)
WithChildren(nxt_mid, out, end) ==
  IF out = <<>> THEN IF end THEN Between(nxt_mid, NextId(Root)) ELSE <<>>
  ELSE Between(nxt_mid, Head(out)) \o Children(Head(out))
       \o WithChildren(NextId(Head(out)), Tail(out), end)

AddChildren(out) ==
  LET out1 == [r \in Procs |->
                 IF out[r] = <<>> THEN <<>>
                 ELSE WithChildren(IF r = Min(NonEmpty(out)) THEN Root
                                   ELSE NextId(LastOnPrev(out, r)),
                                   out[r], r = Max(NonEmpty(out)))]
  IN  IF NonEmpty(out) # Procs THEN partitionW(out1) ELSE out1

balanceOctree(in) ==
  LET share == partitionW(in)
      wanted == [r \in Procs |-> Ordered(SplitNodes(ToSet(share[r])))]
  IN  AddChildren(partitionW(lineariseList(HyperQuickSort(wanted))))
=============================================================================
