---------------------------- MODULE GroupSearch ----------------------------
(***************************************************************************)
(* The searches in rkdt's trees of clusters: the nearest leaf only         *)
(* (queryK_GreedyApprox), the exact search (queryK) and all points within  *)
(* a range, one for all queries or one for each (queryR), whose answers    *)
(* stay in the leaves.                                                     *)
(***************************************************************************)
EXTENDS GroupTree

\* the home of a query; with fewer queries than processes it divides by zero
idToHomeRank(gid) == Min({gid \div (NQueries \div P), P - 1})

\* queryK: the queries home first
PclGoHome ==
  /\ \A r \in Procs : pc[r] = "pcl_gohome"
  /\ \E to \in {[s \in Procs |-> [h \in Procs |->
                   SelectSeq(Live(s), LAMBDA q : idToHomeRank(q) = h)]]} :
     \E got \in {[h \in Procs |-> Repartitioned(to, 0, P - 1, h)]} :
       /\ gids' = got
       /\ numof_points' = [h \in Procs |-> Len(got[h])]
       /\ queryData' = [h \in Procs |-> [gids |-> got[h], numof_points |-> Len(got[h])]]
  /\ pc' = [r \in Procs |-> "pcl_query"]
  /\ UNCHANGED <<given, comm, groupVars, treeVars, phase, node, ref, ring, round, kmin, kNN,
                 refData, iter, seen, radii>>

\* all processes of the leaf enter its ring
GroupRing(r, from) ==
  /\ Together(r, from)
  /\ ref' = [o \in Procs |-> IF o \in Members(r) THEN leafdata[o] ELSE ref[o]]
  /\ AllGoto(r, "ring")
  /\ UNCHANGED <<given, comm, gids, numof_points, groupVars, treeVars,
                 phase, node, ring, round, kmin, kNN, refData, queryData, iter, seen, radii>>

NoQuery(r) == \E o \in Members(r) : numof_points[o] = 0

\* dist_directKQuery, unless a process has no query and its assertion fails
PclSearchLeaf(r) ==
  /\ phase = "queries"
  /\ \/ ~NoQuery(r) /\ GroupRing(r, "pcl_search")
     \/ Together(r, "pcl_search") /\ NoQuery(r) /\ StayAt(r, "crashed")

\* queryKSelectRs, and copies of the queries start at the root
PclSelectRs ==
  /\ \A r \in Procs : pc[r] = "home"
  /\ given.search = "pcl_exact" /\ phase = "queries"
  /\ radii' = [q \in Queries |-> kmin[Holder(q)][q][given.k][1]]
  /\ phase' = "radius"
  /\ gids' = [r \in Procs |-> queryData[r].gids]
  /\ numof_points' = [r \in Procs |-> queryData[r].numof_points]
  /\ comm' = [r \in Procs |-> World0]
  /\ node' = [r \in Procs |-> 1]
  /\ round' = [r \in Procs |-> 0]
  /\ kmin' = [r \in Procs |-> NoLists]
  /\ pc' = [r \in Procs |-> "pcl_leaves"]
  /\ UNCHANGED <<given, groupVars, treeVars, ref, ring, kNN, refData, queryData, iter, seen>>

\* queryRK: the ring of the node the copies stopped in, with the points of its leaves
queryRK(r) == phase = "radius" /\ GroupRing(r, "pcl_search")

-----------------------------------------------------------------------------
(* queryR *)

\* dist_directRQuery and dist_directRQueryIndividual: all of a block within
\* the range are added
RangeSearch(r) ==
  /\ phase = "range" /\ pc[r] = "ring"
  /\ ring' = [ring EXCEPT ![RingNext(r)] = Append(@, ref[r])]
  /\ kmin' = [kmin EXCEPT ![r] = [q \in Points(r) |->
       (IF round[r] = 0 THEN <<>> ELSE kmin[r][q]) \o Within(q, ref[r])]]
  /\ Goto(r, "ring_wait")
  /\ UNCHANGED <<given, comm, gids, numof_points, groupVars, treeVars,
                 phase, node, ref, round, kNN, refData, queryData, iter, seen, radii>>

\* directRQuery asserts that there are queries, directRQueryIndividual does not
queryRrange(r) ==
  /\ phase = "range" /\ given.search = "pcl_range"
  /\ \/ ~NoQuery(r) /\ GroupRing(r, "pcl_search")
     \/ Together(r, "pcl_search") /\ NoQuery(r) /\ StayAt(r, "crashed")

queryRradii(r) ==
  /\ phase = "range" /\ given.search = "pcl_radii"
  /\ GroupRing(r, "pcl_search")

RangeRing(r) ==
  /\ phase = "range"
  /\ RingSwap(r)
  /\ UNCHANGED radii

\* the answers of a process are of the queries that have come to it
RangeDone ==
  /\ \A r \in Procs : pc[r] = "home"
  /\ phase = "range"
  /\ kNN' = kmin
  /\ iter' = iter + 1
  /\ pc' = [r \in Procs |-> "done"]
  /\ UNCHANGED <<given, comm, gids, numof_points, groupVars, treeVars,
                 phase, node, ref, ring, round, kmin, refData, queryData, seen, radii>>

-----------------------------------------------------------------------------
(* the answers *)

Finish ==
  /\ iter' = iter + 1
  /\ pc' = [r \in Procs |-> "done"]
  /\ UNCHANGED <<given, comm, gids, numof_points, groupVars, treeVars,
                 phase, node, ref, ring, round, kmin, refData, queryData, radii>>

\* queryK: what comes home of each query is sorted, and k of it picked
PclResultsHome ==
  /\ \A r \in Procs : pc[r] = "home"
  /\ given.search = "pcl_exact" /\ phase = "radius"
  /\ kNN' = [h \in Procs |-> [q \in RangeOf(queryData[h].gids) |-> Picked(HomeNeighbors(q))]]
  /\ seen' = [q \in Queries |-> Refs]
  /\ Finish

\* the last process has the rest of the queries, but the rest of their
\* number by the processes is not what the code computes
GreedyHomepoints(r) ==
  LET ppn == NQueries \div P
  IN  IF r = P - 1 THEN ppn + (NQueries % ppn) ELSE ppn

\* queryK_GreedyApprox: the k of each query come home, the number is asserted
PclGreedyHome ==
  /\ \A r \in Procs : pc[r] = "home"
  /\ given.search = "pcl_nearest"
  /\ LET coming(h) == {q \in Queries : idToHomeRank(q) = h}
     IN  IF \E h \in Procs : Cardinality(coming(h)) # GreedyHomepoints(h)
         THEN /\ pc' = [r \in Procs |-> "crashed"]
              /\ UNCHANGED <<given, comm, gids, numof_points, groupVars, treeVars, phase, node, ref,
                             ring, round, kmin, kNN, refData, queryData, iter, seen, radii>>
         ELSE /\ kNN' = [h \in Procs |-> [q \in coming(h) |-> SortSeq(kmin[Holder(q)][q], Lighter)]]
              /\ seen' = [q \in Queries |->
                   UNION {RangeOf(leafdata[o]) : o \in Members(Holder(q))}]
              /\ Finish

PclStep ==
  \/ \E r \in Procs : PclInsertLeaf(r) \/ PclInsert(r) \/ PclSeedsMissing(r)
  \/ PclBuilt
  \/ PclGoHome
  \/ \E r \in Procs : PclNearestLeaf(r) \/ PclSearchLeaf(r)
  \/ PclSelectRs
  \/ \E r \in Procs : PclDistributeToLeaves(r) \/ PclDistributeToLeavesRange(r)
  \/ \E r \in Procs : queryRK(r) \/ queryRrange(r) \/ queryRradii(r) \/ RangeSearch(r) \/ RangeRing(r)
  \/ RangeDone
  \/ PclResultsHome
  \/ PclGreedyHome
=============================================================================
