----------------------------- MODULE KnnSearch -----------------------------
(***************************************************************************)
(* rkdt's searches of nearest neighbours over the tree it builds of the    *)
(* processes: the nearest leaf (BinQuery), the exact search (ExactSearch), *)
(* all points among themselves (AllToAll) and the searches of the tree of  *)
(* clusters (GroupSearch), and what they promise.                          *)
(***************************************************************************)
EXTENDS AllToAll, GroupSearch

BinSearches == {"nearest", "exact", "a2a"}

vars == <<given, repartitionVars, treeVars, searchVars, dataVars, radii>>

Init ==
  /\ given \in Inputs
  /\ pc = [r \in Procs |-> IF given.search \in PclSearches THEN "pcl_insert" ELSE "insert"]
  /\ comm = [r \in Procs |-> World0]
  /\ gids = Dealt(given.at)
  /\ numof_points = [r \in Procs |-> given.at[r + 1]]
  /\ plr = [r \in Procs |-> <<>>]
  /\ niter = [r \in Procs |-> 0]
  /\ n_send = [r \in Procs |-> 0]
  /\ n_left = [r \in Procs |-> 0]
  /\ chan = [s \in Procs |-> [d \in Procs |-> <<>>]]
  /\ tree = [r \in Procs |-> <<>>]
  /\ leafdata = [r \in Procs |-> NotBuilt]
  /\ phase = "refs"
  /\ node = [r \in Procs |-> 1]
  /\ ArrTree = <<>>
  /\ ref = [r \in Procs |-> <<>>]
  /\ ring = [r \in Procs |-> <<>>]
  /\ round = [r \in Procs |-> 0]
  /\ kmin = [r \in Procs |-> NoLists]
  /\ kNN = [r \in Procs |-> NoLists]
  /\ refData = [r \in Procs |-> NotBuilt]
  /\ queryData = [r \in Procs |-> [gids |-> Dealt(given.qat)[r], numof_points |-> given.qat[r + 1]]]
  /\ stree = [r \in Procs |-> NoTree]
  /\ iter = 0
  /\ seen = [q \in Queries |-> {}]
  /\ radii = [q \in Queries |-> 0]

\* the tree, the way down to the nearest leaf, and the search in it
Greedily ==
  \/ \E r \in Procs : Build(r)
  \/ \E r \in Procs : Repartitioning(r) /\ UNCHANGED <<treeVars, searchVars, dataVars>>
  \/ Built
  \/ \E r \in Procs : Descend(r) \/ ReachLeaf(r) \/ SplitQueries(r) \/ DescendKid(r)
  \/ GatherLevel
  \/ Route
  \/ \E r \in Procs : SearchAlone(r) \/ RingSearch(r)
  \/ phase = "queries" /\ \E r \in Procs : SearchNothing(r) \/ RingStart(r) \/ RingSwap(r)
  \/ Home

Next ==
  \/ Greedily /\ UNCHANGED radii
  \/ Exactly
  \/ Among /\ UNCHANGED radii
  \/ PclStep

Spec == Init /\ [][Next]_vars /\ WF_vars(Next)

-----------------------------------------------------------------------------
(* Properties. *)

Moving(r) == pc[r] \in {"balance_wait", "exchange1_wait", "exchange2_wait"}

\* the points a process still holds while what it sent is on its way
Held(r) ==
  IF ~Moving(r) THEN Live(r)
  ELSE IF pc[r] = "exchange1_wait" /\ MyColor(r) = 1
  THEN SubSeq(gids[r], n_send[r] + 1, numof_points[r])
  ELSE SubSeq(gids[r], 1, numof_points[r] - n_send[r])

InFlight == UNION {{chan[s][d][i] : i \in 1..Len(chan[s][d])} : s, d \in Procs}

(* The points that move are those there are: a process or a message holds  *)
(* each, and none is held twice, whatever the vectors of the processes     *)
(* have behind their ends and in whatever order the exchanges end.  Of the *)
(* copies of a query on their way to the leaves within its radius no two   *)
(* are in the same node.                                                   *)
PointsConserved ==
  LET ids == IF phase = "refs" THEN Refs ELSE Queries
  IN  IF phase \in {"radius", "range"}
      THEN /\ IF phase = "radius" THEN UNION {Points(r) : r \in Procs} = ids
              ELSE UNION {Points(r) : r \in Procs} \subseteq ids
           /\ \A r \in Procs :
                SumOver({o \in Procs : comm[o] = comm[r]}, LAMBDA o : numof_points[o])
                = Cardinality(UNION {Points(o) : o \in {p \in Procs : comm[p] = comm[r]}})
      ELSE
      /\ UNION {RangeOf(Held(r)) : r \in Procs} \cup UNION {RangeOf(m) : m \in InFlight} = ids
      /\ SumOver(Procs, LAMBDA r : Len(Held(r)))
         + SumOver(Procs \X Procs, LAMBDA e :
             SumOver(1..Len(chan[e[1]][e[2]]), LAMBDA i : Len(chan[e[1]][e[2]][i])))
         = Cardinality(ids)

Spread(loads) == loads[Len(loads)][1] - loads[1][1]

(* Every iteration of the load balance at least halves the difference of   *)
(* the fullest and the emptiest process of the communicator, however the   *)
(* sends and receives of its processes interleave: sent twice, from an old *)
(* load or to the wrong partner, a surplus would leave more.               *)
SpreadHalved ==
  [][\A r \in Procs :
       niter'[r] > niter[r] => Spread(plr'[r]) <= (Spread(plr[r]) + 1) \div 2]_vars

X(id, c) == IF phase = "refs" THEN given.refs[id][c] ELSE given.queries[id][c]

Depth(r) == IF phase = "refs" THEN Len(tree[r]) ELSE node[r]

(* A process has only points of its side of the median of every node above *)
(* it, points and queries alike, and the left side of a node got exactly   *)
(* half of its points.  A median of 0 is left out where the splitter takes *)
(* every point for equal to it.  The copies of the exact search go to both *)
(* sides and are not meant.                                                *)
SidesSplit ==
  \A r \in Procs : given.search \in BinSearches /\ pc[r] \in {"balanced", "built", "search", "home", "done"} =>
    \A i \in 1 .. Depth(r) - 1 :
      LET nd == tree[r][i]
          kid == tree[r][i + 1]
          left == kid.comm[1] = nd.comm[1]
      IN  /\ kid.Nglobal = IF left THEN nd.Nglobal \div 2 ELSE nd.Nglobal - nd.Nglobal \div 2
          /\ phase # "radius" /\ (nd.median[1] # 0 \/ given.splitter # "rsmt" \/ phase # "refs") =>
               \A id \in Points(r) :
                 LET d == X(id, nd.coord_mv) * nd.median[2] - nd.median[1]
                 IN  IF left THEN d <= 0 ELSE d >= 0

\* the points of the leaf q has come to, of the process' own tree if it has one
Leaf(r, q) ==
  IF InRing(r) THEN UNION {RangeOf(leafdata[o]) : o \in Members(r)}
  ELSE IF given.search = "a2a" THEN SearchedA2a(r, q)
  ELSE IF OneLevel(stree[r])
  THEN RangeOf(stree[r][LeafReached(given.queries[q], stree[r])].data)
  ELSE Searched(r, q)

\* the list begins with the k nearest of the points of S, or with all of them
Nearest(list, q, S) ==
  LET n == Min({given.k, Cardinality(S)})
      ids == {list[j][2] : j \in 1..n}
  IN  /\ \A j \in 1 .. n - 1 : list[j][1] <= list[j + 1][1]
      /\ ids \subseteq S /\ Cardinality(ids) = n
      /\ \A j \in 1..n : list[j][1] = Distance(q, list[j][2])
      /\ n > 0 => \A g \in S \ ids : list[n][1] <= Distance(q, g)

(* Picked takes an id again when two of the neighbours before the last are *)
(* as far away.                                                            *)
TiedBefore(q) ==
  LET d == SortSeq([i \in 1..Cardinality(Refs) |-> Distance(q, i - 1)], <)
  IN  \E j \in 1 .. given.k - 2 : d[j] = d[j + 1]

HomeOf(q) == IF given.search \in BinSearches THEN home_rank(q) ELSE idToHomeRank(q)

\* the processes that have answered with g, each as often as it did
FoundAt(q, g) ==
  {e \in Procs \X (1..Cardinality(Refs)) :
     q \in DOMAIN kNN[e[1]] /\ e[2] \in DOMAIN kNN[e[1]][q] /\ kNN[e[1]][q][e[2]][2] = g}

\* each point within the range is found by one process, and only once
FoundOnce(q) ==
  \A g \in Refs : Cardinality(FoundAt(q, g)) = IF Distance(q, g) <= radii[q] THEN 1 ELSE 0

(* What a search finds for a query is exact for the leaf the query came    *)
(* to, wherever in the ring of the leaf the points were (in a process' own *)
(* tree whose leaves are on several levels, for some leaf of it).  What    *)
(* its home process keeps is exact for all the leaves of all the trees it  *)
(* has been in: a tree never makes it worse, and no point is counted       *)
(* twice.  Where fewer than k points were seen nothing is said about the   *)
(* end of the list, which may repeat a point.                              *)
(* The exact search answers with the nearest of all points, through which  *)
(* leaves the copies of the query may have come, but for the queries that  *)
(* have two neighbours at one distance before the last.                    *)
AnswersExact ==
  /\ phase = "queries" /\ (\A r \in Procs : pc[r] = "home") =>
       \A r \in Procs : \A q \in Points(r) : Nearest(kmin[r][q], q, Leaf(r, q))
  /\ iter > 0 /\ phase # "range" => \A q \in Queries :
       LET h == HomeOf(q)
       IN  /\ q \in DOMAIN kNN[h]
           /\ ~(given.search \in {"exact", "pcl_exact"} /\ TiedBefore(q)) => Nearest(kNN[h][q], q, seen[q])
  /\ iter > 0 /\ phase = "range" => \A q \in Queries : FoundOnce(q)

(* The assertions of the code hold: a process on the left gets nothing in  *)
(* the second exchange, the sides and the partners fit, the tree gathered  *)
(* has a leaf for each process, a block of the ring fits the buffer, there *)
(* is something to take the median of, and the home of a query gets k      *)
(* answers for each of its queries, in the exact search at least k.        *)
AssertionsHold ==
  /\ \A r \in Procs : pc[r] = "balance" => BalancePartner(BalancePartner(r)) = r
  /\ \A r \in Procs : pc[r] = "balance_wait" => n_send[r] >= 0
  /\ \A r \in Procs : pc[r] \in {"exchange1", "exchange1_wait", "exchange2", "exchange2_wait"} =>
       PLeft(Size(r)) >= PRight(Size(r))
  /\ \A r \in Procs : pc[r] = "exchange2_wait" /\ MyColor(r) = 0 =>
       LET p == ExchangePartner(r, 2) IN chan[p][r] # <<>> => Head(chan[p][r]) = <<>>
  /\ \A r \in Procs : \A i \in 1..Len(ring[r]) :
       \E o \in Members(r) : Len(ring[r][i]) <= Len(leafdata[o])
  /\ (\A r \in Procs : pc[r] = "bcast") => Len(VisualLeaves) = Cardinality(Procs)
  /\ \A r \in Procs : pc[r] = "exchange1" /\ phase = "refs" => ThisNode(r).Nglobal > 0
  /\ phase = "queries" /\ given.search \in BinSearches /\ (\A r \in Procs : pc[r] = "home") =>
       \A h \in Procs : Cardinality(ComingHome(h)) = homepoints(h)
  /\ phase = "radius" /\ (\A r \in Procs : pc[r] = "home") =>
       \A h \in Procs : SumOver(RangeOf(queryData[h].gids), LAMBDA q : Len(HomeNeighbors(q)))
                        >= queryData[h].numof_points * given.k

(* A leaf, or node, of several processes some of which have no query: they *)
(* do not come to the ring the others wait in.                             *)
Starved ==
  \E r \in Procs : \E o \in Members(r) :
    pc[r] = "search" /\ numof_points[r] > 0
    /\ comm[o] = comm[r] /\ pc[o] \in {"search", "home"} /\ numof_points[o] = 0

(* Leaves so far apart in the tree that gatherTree has not the same number *)
(* of collective calls for each process.                                   *)
Uneven ==
  given.search = "nearest" /\ given.traverse_type = 0 /\
  \E r, o \in Procs : Min({Len(tree[r]), TreeDepth}) # Min({Len(tree[o]), TreeDepth})

(* A tree of clusters ends with a node of fewer points than processes, or  *)
(* of too few different ones, with a process of a leaf that has no query,  *)
(* or where the rest of the queries is not what the code takes for it.     *)
PclCrash(r) ==
  IF phase = "refs"
  THEN Cardinality(AllOf(r)) < Size(r)
       \/ LET different == Cardinality({given.refs[g] : g \in AllOf(r)})
          IN  different < IF given.seedType = 0 THEN Cardinality(AllOf(r)) ELSE 4 * given.cluster_factor
  ELSE \/ \E o \in Members(r) : numof_points[o] = 0
       \/ given.search = "pcl_nearest" /\ NQueries % (NQueries \div P) # NQueries % P

(* A query led behind the last leaf of the tree of its process, or an      *)
(* empty entry of the leaves of a srkdt tree: both only happen when the    *)
(* leaves are on several levels, the second also with half of maxp points  *)
(* or fewer.                                                               *)
Crashed ==
  \E r \in Procs : pc[r] = "crashed" /\
    IF given.search \in PclSearches THEN PclCrash(r)
    ELSE IF given.search = "nearest" THEN ~OneLevel(stree[r])
    ELSE \/ 2 * numof_points[r] <= given.maxp
         \/ \E n, m \in SrkdtLeaves(stree[r], given.maxp, MaxLev(r)) : Level(n) # Level(m)

(* Every process returns from the search, unless the search stops in a     *)
(* leaf that has queries, but fewer than processes, the leaves are uneven  *)
(* where the tree is gathered, or those of a process' own tree are.        *)
Returns == <>((\A r \in Procs : pc[r] = "done") \/ Crashed \/ Starved \/ (phase = "queries" /\ Uneven))

=============================================================================
