----------------------------- MODULE ExactSearch ---------------------------
(***************************************************************************)
(* rkdt's exact search, queryK.  The queries go home first.  Copies of     *)
(* them go to the nearest leaf as in queryK_Greedy; the distance of the    *)
(* k-th neighbour found there bounds that of the true one and becomes the  *)
(* radius of the query.  Then copies go down the tree again, to both sides *)
(* of a median the radius reaches over (distributeToLeaves), and stop      *)
(* early in a node that has too many of them.  The processes of the node   *)
(* they stop in search all its points in a ring, each with its own block   *)
(* (dist_directRQueryIndividualK), and what is within the radius goes      *)
(* home, where the k best of each query are picked.                        *)
(*                                                                         *)
(* A query carries its radius with it.  The radius is enlarged by a        *)
(* billionth: here distances are integers and equal ones are equal.        *)
(***************************************************************************)
EXTENDS BinQuery

VARIABLE radii          \* radii[q], none known before the first pass

\* repartition: what process d gets of to[s][d], in the order of the senders
Repartitioned(to, first, last, d) ==
  LET got[s \in first - 1 .. last] == IF s < first THEN <<>> ELSE got[s - 1] \o to[s][d]
  IN  got[last]

\* local_rearrange and repartition: the queries home, in the order they stood
GoHome ==
  /\ \A r \in Procs : pc[r] = "gohome"
  /\ \E to \in {[s \in Procs |-> [h \in Procs |->
                   SelectSeq(Live(s), LAMBDA q : home_rank(q) = h)]]} :
       LET got == [h \in Procs |-> Repartitioned(to, 0, P - 1, h)]
       IN  /\ gids' = got
           /\ numof_points' = [h \in Procs |-> Len(got[h])]
           /\ queryData' = [h \in Procs |-> [gids |-> got[h], numof_points |-> Len(got[h])]]
  /\ pc' = [r \in Procs |-> "query"]
  /\ UNCHANGED <<given, comm, plr, niter, n_send, n_left, chan, treeVars,
                 searchVars, refData, stree, iter, seen, radii>>

\* queryKSelectRs, and the queries start at the root again
SelectRs ==
  /\ \A r \in Procs : pc[r] = "home"
  /\ given.search = "exact" /\ phase = "queries"
  /\ radii' = [q \in Queries |-> kmin[Holder(q)][q][given.k][1]]
  /\ phase' = "radius"
  /\ gids' = [r \in Procs |-> queryData[r].gids]
  /\ numof_points' = [r \in Procs |-> queryData[r].numof_points]
  /\ comm' = [r \in Procs |-> World0]
  /\ node' = [r \in Procs |-> 1]
  /\ round' = [r \in Procs |-> 0]
  /\ kmin' = [r \in Procs |-> NoLists]
  /\ pc' = [r \in Procs |-> "leaves"]
  /\ UNCHANGED <<given, plr, niter, n_send, n_left, chan, treeVars, ArrTree, ref, ring, kNN, dataVars>>

-----------------------------------------------------------------------------
(* distributeToLeaves *)

\* too many copies of queries for the processes of the node
Excessive(r) ==
  SumOver(Members(r), LAMBDA o : numof_points[o]) \div Size(r)
    > given.dupFactor * (Cardinality(Refs) \div P)

StopHere(r) ==
  /\ Together(r, "leaves")
  /\ IsLeaf(r) \/ Excessive(r)
  /\ AllGoto(r, "search")
  /\ UNCHANGED <<given, comm, gids, numof_points, plr, niter, n_send, n_left, chan, treeVars,
                 searchVars, dataVars, radii>>

\* mutated: each query goes to its own side only
ToOwnSide(q, nd, side) ==
  LET d == given.queries[q][nd.coord_mv] * nd.median[2] - nd.median[1]
  IN  (side = 0) <=> d < 0

\* q is a member of the kid: it is on its side, or at the median, or its
\* radius reaches over the median
MemberInKid(q, nd, side) ==
  LET d == given.queries[q][nd.coord_mv] * nd.median[2] - nd.median[1]
  IN  \/ (side = 0) <=> d < 0
      \/ d >= 0 /\ d * 1000000 < nd.median[1]
      \/ d * d <= radii[q] * nd.median[2]^2

\* group2rankDistribute: n queries evenly to size processes, the first get the rest
Share(n, size, rank) == n \div size + IF rank < n % size THEN 1 ELSE 0

\* what of qs the process of a rank in the kid gets
ShareOf(qs, size, rank) ==
  LET before == SumOver(0 .. rank - 1, LAMBDA i : Share(Len(qs), size, i))
  IN  SubSeq(qs, before + 1, before + Share(Len(qs), size, rank))

\* repartition with the radii, MPI_Barrier, and the same in the kid
DistributeToKids(r) ==
  /\ Together(r, "leaves")
  /\ ~(IsLeaf(r) \/ Excessive(r))
  /\ LET kid(d) == tree[d][node[d] + 1].comm
         share(s, d) ==
           ShareOf(SelectSeq(Live(s), LAMBDA q : MemberInKid(q, tree[r][node[r]], MyColor(d))),
                   kid(d)[2] - kid(d)[1] + 1, d - kid(d)[1])
     IN  \E to \in {[s \in Members(r) |-> [d \in Members(r) |-> share(s, d)]]} :
         \E got \in {[d \in Members(r) |-> Repartitioned(to, r, comm[r][2], d)]} :
           /\ gids' = [d \in Procs |-> IF d \in Members(r) THEN got[d] ELSE gids[d]]
           /\ numof_points' = [d \in Procs |->
                IF d \in Members(r) THEN Len(got[d]) ELSE numof_points[d]]
           /\ comm' = [d \in Procs |-> IF d \in Members(r) THEN kid(d) ELSE comm[d]]
  /\ node' = [d \in Procs |-> IF d \in Members(r) THEN node[d] + 1 ELSE node[d]]
  /\ UNCHANGED <<given, pc, plr, niter, n_send, n_left, chan, treeVars,
                 phase, ArrTree, ref, ring, round, kmin, kNN, dataVars, radii>>

-----------------------------------------------------------------------------
(* dist_directRQueryIndividualK: the ring of the node, as dist_directKQuery *)

\* directRQueryIndividual: what of a block is within the radius
Within(q, block) ==
  SelectSeq([i \in 1..Len(block) |-> <<Distance(q, block[i]), block[i]>>],
            LAMBDA e : e[1] <= radii[q])

\* sorted with what there is, and cut to k
Neighbors(found, new) ==
  LET all == SortSeq(found \o new, Lighter)
  IN  SubSeq(all, 1, Min({Len(all), given.k}))

RadiusSearch(r) ==
  /\ phase = "radius" /\ pc[r] = "ring"
  /\ ring' = [ring EXCEPT ![RingNext(r)] = Append(@, ref[r])]
  /\ kmin' = [kmin EXCEPT ![r] = [q \in Points(r) |->
       Neighbors(IF round[r] = 0 THEN <<>> ELSE kmin[r][q], Within(q, ref[r]))]]
  /\ Goto(r, "ring_wait")
  /\ UNCHANGED <<given, comm, gids, numof_points, plr, niter, n_send, n_left, chan, treeVars,
                 phase, node, ArrTree, ref, round, kNN, dataVars, radii>>

RadiusRing(r) ==
  /\ phase = "radius"
  /\ SearchNothing(r) \/ RingStart(r) \/ RingSwap(r)
  /\ UNCHANGED radii

-----------------------------------------------------------------------------
(* the answers *)

\* the (distance, id) of all the triples that come home for q, sorted
HomeNeighbors(q) ==
  LET got[s \in 0..P] ==
        IF s = 0 THEN <<>>
        ELSE got[s - 1] \o IF q \in Points(s - 1) THEN kmin[s - 1][q] ELSE <<>>
  IN  SortSeq(got[P], Lighter)

\* each of the k is the nearest that is not nearer than the last one and not
\* that one itself.  With none left the last id stays, at DBL_MAX
Picked(neighbors) ==
  LET next(last) ==
        LET left == SelectSeq(neighbors, LAMBDA e : e[1] >= last[1] /\ e[2] # last[2])
        IN  IF left = <<>> THEN <<Far, last[2]>> ELSE left[1]
      pick[j \in 0..given.k] ==
        IF j = 0 THEN <<<<-1, -1>>>>
        ELSE Sole({Append(p, next(p[j])) : p \in {pick[j - 1]}})
  IN  Tail(pick[given.k])

\* the triples come home, and queryK returns
ResultsHome ==
  /\ \A r \in Procs : pc[r] = "home"
  /\ given.search = "exact" /\ phase = "radius"
  /\ kNN' = [h \in Procs |-> [q \in RangeOf(queryData[h].gids) |-> Picked(HomeNeighbors(q))]]
  /\ seen' = [q \in Queries |-> Refs]
  /\ iter' = iter + 1
  /\ pc' = [r \in Procs |-> "done"]
  /\ UNCHANGED <<given, comm, gids, numof_points, plr, niter, n_send, n_left, chan, treeVars,
                 phase, node, ArrTree, ref, ring, round, kmin, refData, queryData, stree, radii>>

Exactly ==
  \/ GoHome
  \/ SelectRs
  \/ \E r \in Procs : StopHere(r) \/ DistributeToKids(r) \/ RadiusSearch(r) \/ RadiusRing(r)
  \/ ResultsHome
=============================================================================
