------------------------------ MODULE AllToAll -----------------------------
(***************************************************************************)
(* rkdt's search of the neighbours of all points among themselves,         *)
(* knnTreeSearch_RandomRotation_a2a.  The points of a leaf are its         *)
(* queries: none moves.  A process with a leaf of its own splits it with a *)
(* srkdt tree and searches each point in its own leaf; a larger leaf goes  *)
(* round the ring.  Every tree is built of the points where they were      *)
(* given.                                                                  *)
(*                                                                         *)
(* srkdt splits along a random direction, here any coordinate.  It makes   *)
(* an array of 2^depth leaves from the number of points and enters each    *)
(* leaf under its number on its level: when not all leaves are on the last *)
(* level an entry stays empty, and its use ends the program.               *)
(***************************************************************************)
EXTENDS BinQuery

\* the barrier at the leaves; the points are their own queries
BuiltA2a ==
  /\ \A r \in Procs : pc[r] = "built"
  /\ given.search = "a2a"
  /\ phase' = "queries"
  /\ pc' = [r \in Procs |-> "search"]
  /\ node' = [r \in Procs |-> Len(tree[r])]
  /\ UNCHANGED <<given, comm, gids, numof_points, plr, niter, n_send, n_left, chan, treeVars,
                 ArrTree, ref, ring, round, kmin, kNN, dataVars>>

-----------------------------------------------------------------------------
(* srkdt *)

SrkdtBase(level, data, minp, maxlev) == level = maxlev \/ Len(data) <= minp

\* assignMembership: half to the left, those of the median as they come.  With
\* a median of 0 all are taken for equal to it
KidOf(data, c, side) ==
  LET x(g) == given.refs[g][c]
      med == SortSeq([i \in 1..Len(data) |-> x(data[i])], <)[Len(data) \div 2 + 1]
      same == SelectSeq(data, LAMBDA g : med = 0 \/ x(g) = med)
      below == SelectSeq(data, LAMBDA g : med # 0 /\ x(g) < med)
      n_move_left == Len(data) \div 2 - Len(below)
  IN  IF side = 0 THEN below \o SubSeq(same, 1, n_move_left)
      ELSE SelectSeq(data, LAMBDA g : med # 0 /\ x(g) > med)
           \o SubSeq(same, n_move_left + 1, Len(same))

\* the points of each node down to maxlev, NotBuilt where there is none;
\* coid is the coordinate each node is split along
Srkdt(points, coid, minp, maxlev) ==
  LET kid(t, n) ==
        LET above == t[n \div 2]
        IN  IF above = NotBuilt \/ SrkdtBase(Level(n \div 2), above, minp, maxlev) THEN NotBuilt
            ELSE KidOf(above, coid[n \div 2], n % 2)
      insert[level \in 0..maxlev] ==
        IF level = 0 THEN <<points>>
        ELSE Sole({t \o [i \in 1 .. 2^level |-> kid(t, 2^level + i - 1)] : t \in {insert[level - 1]}})
  IN  insert[maxlev]

SrkdtLeaves(t, minp, maxlev) ==
  {n \in DOMAIN t : t[n] # NotBuilt /\ SrkdtBase(Level(n), t[n], minp, maxlev)}

\* ceil(log2(n / minp)), at most maxlev; below 0 the array of leaves is empty
SrkdtDepth(n, minp, maxlev) ==
  IF 2 * n <= minp THEN -1
  ELSE Min({maxlev, Min({e \in 0..n : minp * 2^e >= n})})

MaxLev(r) == given.maxLevel - (Len(tree[r]) - 1)

\* the points of the leaf that q is in
OwnLeaf(r, q) ==
  LET t == stree[r]
  IN  t[CHOOSE n \in SrkdtLeaves(t, given.maxp, MaxLev(r)) : q \in RangeOf(t[n])]

\* find_knn_srkdt_a2a: a tree, and each point in its own leaf
SearchOwnLeaf(r) ==
  /\ pc[r] = "search"
  /\ Size(r) = 1 /\ given.search = "a2a"
  /\ \E coid \in [1 .. 2^MaxLev(r) - 1 -> Dims] :
     \E t \in {Srkdt(leafdata[r], coid, given.maxp, MaxLev(r))} :
       LET leaves == SrkdtLeaves(t, given.maxp, MaxLev(r))
       IN  /\ stree' = [stree EXCEPT ![r] = t]
           /\ IF \A n \in leaves : Level(n) = SrkdtDepth(Len(leafdata[r]), given.maxp, MaxLev(r))
              THEN /\ kmin' = [kmin EXCEPT ![r] = [q \in Points(r) |->
                        DirectKQuery(q, t[CHOOSE n \in leaves : q \in RangeOf(t[n])])]]
                   /\ Goto(r, "home")
              ELSE Goto(r, "crashed") /\ UNCHANGED kmin
  /\ UNCHANGED <<given, comm, gids, numof_points, plr, niter, n_send, n_left, chan, treeVars,
                 phase, node, ArrTree, ref, ring, round, kNN, refData, queryData, iter, seen>>

SearchedA2a(r, q) ==
  IF Size(r) > 1 THEN UNION {RangeOf(leafdata[o]) : o \in Members(r)} ELSE RangeOf(OwnLeaf(r, q))

\* the answers come home; the next tree is built of refData, which was copied
HomeA2a ==
  /\ \A r \in Procs : pc[r] = "home"
  /\ given.search = "a2a"
  /\ kNN' = Answers
  /\ seen' = [q \in Queries |-> seen[q] \cup SearchedA2a(Holder(q), q)]
  /\ NextTree(queryData)
  /\ UNCHANGED <<given, plr, niter, n_send, n_left, chan, ref, ring, refData, queryData>>

Among == BuiltA2a \/ HomeA2a \/ \E r \in Procs : SearchOwnLeaf(r)
=============================================================================
