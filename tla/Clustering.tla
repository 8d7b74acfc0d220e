----------------------------- MODULE Clustering ----------------------------
(***************************************************************************)
(* rkdt's clustering of the points of a communicator: seeds, k-means, and  *)
(* the share of the processes and of the kids of a node in the clusters.   *)
(* All of it is collective, and every process gets the same centers.       *)
(*                                                                         *)
(* A center is [sum, n]: the sum of n points.  Off(x, c) is the square of  *)
(* the distance of x to it, times n^2.  k-means stops when the objective   *)
(* improves by less than a 10000th of it: here when it does not improve.   *)
(***************************************************************************)
EXTENDS STree

CenterOf(g) == [sum |-> given.refs[g], n |-> 1]

\* centroids; a cluster without points gets the origin
Centroid(S) ==
  IF S = {} THEN [sum |-> [c \in Dims |-> 0], n |-> 1]
  ELSE [sum |-> [c \in Dims |-> SumOver(S, LAMBDA g : given.refs[g][c])], n |-> Cardinality(S)]

Off(x, c) == SumOver(Dims, LAMBDA i : (c.n * x[i] - c.sum[i])^2)

\* find_nearest_cluster: the first of the nearest
FindNearestCluster(x, C) ==
  CHOOSE j \in DOMAIN C : \A i \in DOMAIN C :
    LET a == Off(x, C[j]) * C[i].n^2
        b == Off(x, C[i]) * C[j].n^2
    IN  a < b \/ (a = b /\ j <= i)

\* the cluster of each point, as pairs
Membership(S, C) == {<<g, FindNearestCluster(given.refs[g], C)>> : g \in S}
Cluster(m, j) == {e[1] : e \in {e \in m : e[2] = j}}

\* the sum of the squared distances to the nearest center, a fraction
Objective(m, C) ==
  LET den == FoldSet(LAMBDA j, d : d * C[j].n^2, 1, DOMAIN C)
  IN  <<SumOver(m, LAMBDA e : Off(given.refs[e[1]], C[e[2]]) * (den \div C[e[2]].n^2)), den>>

Smaller(f, g) == f[1] * g[2] < g[1] * f[2]

Clustered(S, centers) ==
  LET with(C) == Sole({[C |-> C, membership |-> m, obj |-> Objective(m, C)] : m \in {Membership(S, C)}})
  IN  Sole({with(C) : C \in {centers}})

\* mpi_kmeans
Kmeans(S, seeds, maxIter) ==
  LET centroids(k) == <<>> \o [j \in DOMAIN k.C |-> Centroid(Cluster(k.membership, j))]
      next(p) == [k |-> Clustered(S, centroids(p.k)), last |-> p.k.obj,
                  more |-> p.last = <<>> \/ Smaller(p.k.obj, p.last)]
      loop[i \in 0..maxIter] ==
        IF i = 0 THEN [k |-> Clustered(S, seeds), last |-> <<>>, more |-> TRUE]
        ELSE Sole({IF p.more THEN next(p) ELSE p : p \in {loop[i - 1]}})
  IN  loop[maxIter].k

-----------------------------------------------------------------------------
(* the seeds *)

\* the points of a communicator in the order of its ranks
InRankOrder(r) ==
  LET upto[o \in r - 1 .. comm[r][2]] == IF o < r THEN <<>> ELSE upto[o - 1] \o Live(o)
  IN  upto[comm[r][2]]

\* randomSeeds: any different ones
RandomSeeds(r, num) ==
  LET all == InRankOrder(r)
  IN  {[j \in 1..num |-> CenterOf(all[p[j]])] :
         p \in {p \in [1..num -> 1..Len(all)] : \A i \in 1 .. num - 1 : p[i] < p[i + 1]}}

\* sample, initial_two_seeds, addSeeds: a point can follow that is none of the seeds
AddSeeds(S, num) ==
  LET add[i \in 0..num] ==
        IF i = 0 THEN {<<>>}
        ELSE {Append(s, CenterOf(g)) : s \in add[i - 1], g \in S}
      different(s) == \A i, j \in 1..Len(s) : i # j => s[i].sum # s[j].sum
  IN  {s \in add[num] : different(s)}

WithoutSeed(s, j) == SubSeq(s, 1, j - 1) \o SubSeq(s, j + 1, Len(s))

\* eliminateSeeds: without the one that is missed least, weighed with the size
\* of the cluster that has come to its place (the last: of its own)
EliminateSeeds(S, oversampled, num) ==
  LET loss(k, j) ==
        LET sub == Clustered(S, WithoutSeed(k.C, j))
            size == IF j < Len(k.C) THEN Cardinality(Cluster(sub.membership, j))
                    ELSE Cardinality(Cluster(k.membership, j))
        IN  <<size * sub.obj[1], sub.obj[2]>>
      least(losses) ==
        CHOOSE e \in losses : \A f \in losses :
          Smaller(e[2], f[2]) \/ (~Smaller(f[2], e[2]) /\ e[1] <= f[1])
      without(s) ==
        Sole({WithoutSeed(k.C, least({<<j, loss(k, j)>> : j \in 1..Len(s)})[1]) : k \in {Kmeans(S, s, 1)}})
      eliminate[i \in 0..num] ==
        IF i = 0 THEN oversampled ELSE Sole({without(s) : s \in {eliminate[i - 1]}})
  IN  eliminate[num]

\* ostrovskySeeds: too many seeds, and then some eliminated
OstrovskySeeds(r, num) ==
  LET S == UNION {Points(o) : o \in Members(r)}
  IN  {EliminateSeeds(S, s, num) : s \in AddSeeds(S, 2 * num)}

\* else a seed is taken from outside the array
EnoughPoints(S, num) ==
  IF given.seedType = 0 THEN Cardinality(S) >= num
  ELSE Cardinality({given.refs[g] : g \in S}) >= 2 * num

\* k_clusters
KClusters(r, num) ==
  LET S == UNION {Points(o) : o \in Members(r)}
  IN  {Kmeans(S, seeds, 5) :
         seeds \in IF given.seedType = 0 THEN RandomSeeds(r, num) ELSE OstrovskySeeds(r, num)}

\* Calculate_Cluster_Radius, squared, times n^2 of the center
ClusterRadius(S, c) == Max({0} \cup {Off(given.refs[g], c) : g \in S})

-----------------------------------------------------------------------------
(* redistribute, work_partition and groupDistribute *)

\* the largest cluster first, each to the kid that has least
Redistribute(sizes) ==
  LET order == SortSeq([j \in 1..Len(sizes) |-> <<sizes[j], j>>], LAMBDA a, b : Lighter(b, a))
      next(p, e) ==
        LET kid == IF p.load[1] <= p.load[2] THEN 1 ELSE 2
        IN  [load |-> [p.load EXCEPT ![kid] = @ + e[1]],
             kidOf |-> [p.kidOf EXCEPT ![e[2]] = kid - 1]]
      give[i \in 0..Len(sizes)] ==
        IF i = 0 THEN [load |-> <<0, 0>>, kidOf |-> [j \in 1..Len(sizes) |-> 0]]
        ELSE Sole({next(p, order[i]) : p \in {give[i - 1]}})
  IN  give[Len(sizes)].kidOf

\* processes in proportion to the points, what is left to the smaller group
WorkPartition(work, size) ==
  LET share == [j \in 1..2 |-> (work[j] * size) \div (work[1] + work[2])]
      grow[i \in 0..size] ==
        IF i = 0 THEN share
        ELSE Sole({IF s[1] + s[2] = size THEN s
                    ELSE IF s[1] < s[2] THEN [s EXCEPT ![1] = @ + 1]
                    ELSE [s EXCEPT ![2] = @ + 1] : s \in {grow[i - 1]}})
  IN  grow[size]

\* the assertions of work_partition, and the division by points_per_group_rank
GroupsFit(work, size) ==
  /\ work[1] > 0 /\ work[2] > 0
  /\ \A j \in 1..2 : work[j] \div WorkPartition(work, size)[j] > 0

\* the points of s for process d, where kids are the points of each kid: one
\* after the other to the processes of the kid, but the count of a process'
\* own starts again after each points_per_group_rank
GroupDistribute(r, kids, group_size, s, d) ==
  LET j == IF d - r < group_size[1] THEN 0 ELSE 1
      shift == IF j = 0 THEN 0 ELSE group_size[1]
      mine(o) == SelectSeq(Live(o), LAMBDA g : g \in kids[j + 1])
      before == SumOver(r .. s - 1, LAMBDA o : Len(mine(o)))
      per_rank == Cardinality(kids[j + 1]) \div group_size[j + 1]
      rank(c) == Min({group_size[j + 1] - 1, (before + (c % per_rank)) \div per_rank})
      chosen == SelectSeq([c \in 1..Len(mine(s)) |-> c], LAMBDA c : rank(c - 1) = d - r - shift)
  IN  [i \in 1..Len(chosen) |-> mine(s)[chosen[i]]]
=============================================================================
