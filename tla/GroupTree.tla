----------------------------- MODULE GroupTree -----------------------------
(***************************************************************************)
(* rkdt's tree of clusters, pcltree: the points of a node are clustered,   *)
(* each cluster is given to one of two kids, and each kid gets processes   *)
(* in proportion to its points, not half of them.  A query goes to the     *)
(* kids of the clusters it may have neighbours in: those whose ball its    *)
(* own ball meets, or the one with the nearest center.                     *)
(*                                                                         *)
(* Everything is collective: a step is one of a whole communicator, but    *)
(* for the rings.  A search in which a process has no query ends in the    *)
(* assertion of directKQueryLowMem.                                        *)
(***************************************************************************)
EXTENDS ExactSearch, Clustering

groupVars == <<plr, niter, n_send, n_left, chan, ArrTree, stree>>

PclSearches == {"pcl_nearest", "pcl_exact", "pcl_range", "pcl_radii"}

AllOf(r) == UNION {Points(o) : o \in Members(r)}

\* the node of a leaf is pruned by its centroid
PclLeafNode(r) ==
  LET c == Centroid(AllOf(r))
  IN  [comm |-> comm[r], Nglobal |-> Cardinality(AllOf(r)), C |-> <<c>>,
       R |-> <<ClusterRadius(AllOf(r), c)>>, kidOf |-> <<>>]

PclBaseCase(r) ==
  \/ Size(r) <= given.minCommSize
  \/ Len(tree[r]) = given.maxLevel
  \/ Cardinality(AllOf(r)) <= given.maxp

\* MTNode::Insert of a leaf
PclInsertLeaf(r) ==
  /\ Together(r, "pcl_insert")
  /\ PclBaseCase(r)
  /\ tree' = [o \in Procs |-> IF o \in Members(r) THEN Append(tree[o], PclLeafNode(r)) ELSE tree[o]]
  /\ leafdata' = [o \in Procs |-> IF o \in Members(r) THEN Live(o) ELSE leafdata[o]]
  /\ AllGoto(r, "pcl_built")
  /\ UNCHANGED <<given, comm, gids, numof_points, groupVars, phase, node, ref, ring, round,
                 kmin, kNN, refData, queryData, iter, seen, radii>>

\* the processes of r's communicator that get the points of kid 0, and the others
Groups(r, group_size) ==
  [d \in Members(r) |-> IF d - r < group_size[1] THEN <<r, r + group_size[1] - 1>>
                        ELSE <<r + group_size[1], comm[r][2]>>]

\* the points go to the processes of their kids, and these to a communicator of their own
ToGroups(r, nd, kids) ==
  LET work == <<Cardinality(kids[1]), Cardinality(kids[2])>>
      size == WorkPartition(work, Size(r))
      to == [s \in Members(r) |-> [d \in Members(r) |-> GroupDistribute(r, kids, size, s, d)]]
  IN  /\ tree' = [o \in Procs |-> IF o \in Members(r) THEN Append(tree[o], nd) ELSE tree[o]]
      /\ IF ~GroupsFit(work, Size(r)) THEN AllGoto(r, "crashed") /\ UNCHANGED <<comm, gids, numof_points>>
         ELSE \E got \in {[d \in Members(r) |-> Repartitioned(to, r, comm[r][2], d)]} :
              /\ gids' = [d \in Procs |-> IF d \in Members(r) THEN got[d] ELSE gids[d]]
              /\ numof_points' = [d \in Procs |-> IF d \in Members(r) THEN Len(got[d]) ELSE numof_points[d]]
              /\ comm' = [d \in Procs |-> IF d \in Members(r) THEN Groups(r, size)[d] ELSE comm[d]]
              /\ UNCHANGED pc
      /\ UNCHANGED <<given, leafdata, groupVars, phase, node, ref, ring, round,
                     kmin, kNN, refData, queryData, iter, seen, radii>>

\* too few different points for the seeds
PclSeedsMissing(r) ==
  /\ Together(r, "pcl_insert")
  /\ ~PclBaseCase(r)
  /\ ~EnoughPoints(AllOf(r), 2 * given.cluster_factor)
  /\ AllGoto(r, "crashed")
  /\ UNCHANGED <<given, comm, gids, numof_points, groupVars, treeVars, phase, node, ref, ring, round,
                 kmin, kNN, refData, queryData, iter, seen, radii>>

\* MTNode::Insert of a node with kids
PclInsert(r) ==
  /\ Together(r, "pcl_insert")
  /\ ~PclBaseCase(r)
  /\ EnoughPoints(AllOf(r), 2 * given.cluster_factor)
  /\ \E k \in KClusters(r, 2 * given.cluster_factor) :
     \E kidOf \in {Redistribute([j \in DOMAIN k.C |-> Cardinality(Cluster(k.membership, j))])} :
       ToGroups(r, [comm |-> comm[r], Nglobal |-> Cardinality(AllOf(r)), C |-> k.C,
                    R |-> [j \in DOMAIN k.C |-> ClusterRadius(Cluster(k.membership, j), k.C[j])],
                    kidOf |-> kidOf],
                [i \in 1..2 |-> {e[1] : e \in {e \in k.membership : kidOf[e[2]] = i - 1}}])

\* the barrier at the leaves, and the queries come in
PclBuilt ==
  /\ \A r \in Procs : pc[r] = "pcl_built"
  /\ phase' = IF given.search \in {"pcl_nearest", "pcl_exact"} THEN "queries" ELSE "range"
  /\ pc' = [r \in Procs |-> CASE given.search = "pcl_exact" -> "pcl_gohome"
                              [] given.search = "pcl_nearest" -> "pcl_query"
                              [] OTHER -> "pcl_leaves"]
  /\ comm' = [r \in Procs |-> World0]
  /\ gids' = [r \in Procs |-> queryData[r].gids]
  /\ numof_points' = [r \in Procs |-> queryData[r].numof_points]
  /\ radii' = [q \in Queries |-> IF given.search = "pcl_range" THEN given.range^2
                                 ELSE IF given.search = "pcl_radii" THEN given.radii[q] ELSE 0]
  /\ UNCHANGED <<given, groupVars, treeVars, node, ref, ring, round, kmin, kNN,
                 refData, queryData, iter, seen>>

-----------------------------------------------------------------------------
(* the queries go down *)

NodeOf(r) == tree[r][node[r]]
KidColor(d) == IF tree[d][node[d] + 1].comm[1] = NodeOf(d).comm[1] THEN 0 ELSE 1

\* group2rankDistribute: those of a kid evenly to its processes
GroupShare(qs, kid, d) == ShareOf(qs, kid[2] - kid[1] + 1, d - kid[1])

\* repartition of the queries, where kidsOf[q] are the kids q goes to, and the
\* MPI_Barrier
SendToKids(r, kidsOf) ==
  LET kid(d) == tree[d][node[d] + 1].comm
      to == [s \in Members(r) |-> [d \in Members(r) |->
               GroupShare(SelectSeq(Live(s), LAMBDA q : KidColor(d) \in kidsOf[q]), kid(d), d)]]
  IN  /\ \E got \in {[d \in Members(r) |-> Repartitioned(to, r, comm[r][2], d)]} :
           /\ gids' = [d \in Procs |-> IF d \in Members(r) THEN got[d] ELSE gids[d]]
           /\ numof_points' = [d \in Procs |-> IF d \in Members(r) THEN Len(got[d]) ELSE numof_points[d]]
           /\ comm' = [d \in Procs |-> IF d \in Members(r) THEN kid(d) ELSE comm[d]]
      /\ node' = [d \in Procs |-> IF d \in Members(r) THEN node[d] + 1 ELSE node[d]]
      /\ UNCHANGED <<given, pc, groupVars, treeVars, phase, ref, ring, round, kmin, kNN,
                     refData, queryData, iter, seen, radii>>

StayAt(r, l) ==
  /\ AllGoto(r, l)
  /\ UNCHANGED <<given, comm, gids, numof_points, groupVars, treeVars, phase, node, ref, ring,
                 round, kmin, kNN, refData, queryData, iter, seen, radii>>

\* distributeToNearestLeaf: the kid of the nearest center
PclNearestLeaf(r) ==
  /\ Together(r, "pcl_query")
  /\ IF IsLeaf(r) THEN StayAt(r, "pcl_search")
     ELSE SendToKids(r, [q \in Queries |->
            {NodeOf(r).kidOf[FindNearestCluster(given.queries[q], NodeOf(r).C)]}])

\* sqrt(a) <= sqrt(rr) + sqrt(b)
BallsMeet(a, rr, b) == a <= rr + b \/ (a - rr - b)^2 <= 4 * rr * b

\* distributeToLeaves: the kids of the clusters whose balls that of q meets
PclKids(nd, q) ==
  {nd.kidOf[j] : j \in {j \in DOMAIN nd.C :
     BallsMeet(Off(given.queries[q], nd.C[j]), nd.R[j], radii[q] * nd.C[j].n^2)}}

\* with a range for all
PclDistributeToLeavesRange(r) ==
  /\ phase = "range" /\ given.search = "pcl_range"
  /\ Together(r, "pcl_leaves")
  /\ IF IsLeaf(r) \/ Excessive(r) THEN StayAt(r, "pcl_search")
     ELSE SendToKids(r, [q \in Queries |-> PclKids(NodeOf(r), q)])

\* with a radius for each
PclDistributeToLeaves(r) ==
  /\ phase = "radius" \/ given.search = "pcl_radii"
  /\ Together(r, "pcl_leaves")
  /\ IF IsLeaf(r) \/ Excessive(r) THEN StayAt(r, "pcl_search")
     ELSE SendToKids(r, [q \in Queries |-> PclKids(NodeOf(r), q)])
=============================================================================
