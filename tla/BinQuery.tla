------------------------------ MODULE BinQuery -----------------------------
(***************************************************************************)
(* The search of the nearest neighbours of a set of queries in a tree that *)
(* rkdt has just built: queryK_Greedy.  Queries go down the tree the way   *)
(* the points did (distributeToNearestLeaf), or all processes gather the   *)
(* whole tree and send each query to its leaf at once                      *)
(* (repartitionQueryData), which takes that each process has a leaf of its *)
(* own.  In a leaf of one process the search is the process' own; in a     *)
(* larger one the blocks of reference points go round a ring of its        *)
(* processes (dist_directKQuery), but only the processes that have queries *)
(* join.  The answers go to the home processes of the queries.             *)
(*                                                                         *)
(* knnTreeSearch_RandomRotation does this for several trees, one after the *)
(* other, from where the points and the queries have come to be, and       *)
(* merges the answers.                                                     *)
(*                                                                         *)
(* A process with a leaf of its own that holds more than maxp points       *)
(* splits them in a tree of its own (STree), and searches one leaf of it.  *)
(*                                                                         *)
(* given.search names what is run: "nearest" is this search, "exact" and   *)
(* "a2a" are those of ExactSearch and AllToAll, which use parts of it.     *)
(***************************************************************************)
EXTENDS STree

CONSTANT Inputs         \* what the program may be started with

VARIABLES phase,        \* "refs" while the tree is built, then "queries" (and "radius")
          node,         \* node[r], how far down tree[r] the queries of r are
          ArrTree,      \* the tree gathered, level by level
          ref,          \* ref[r], the block of reference points r holds
          ring,         \* ring[r], the blocks on their way to r
          round,        \* rounds of the ring r has done
          kmin,         \* kmin[r][q], the k nearest r has found for q
          kNN,          \* kNN[r][q], the best so far at the home process r of q
          refData,      \* the points where the last tree left them
          queryData,    \* the queries where the last search left them
          stree,        \* stree[r], the tree of a process with a leaf of its own
          iter,         \* trees searched
          seen          \* history: seen[q], points of the leaves q has been in

searchVars == <<phase, node, ArrTree, ref, ring, round, kmin, kNN>>
dataVars == <<refData, queryData, stree, iter, seen>>

Queries == DOMAIN given.queries
NoLists == [q \in {} |-> <<>>]
NoTree == <<>>

\* consecutive ids, at[r] of them on process r
Dealt(at) ==
  [r \in Procs |-> LET before == SumOver(1..r, LAMBDA i : at[i])
                   IN  [i \in 1..at[r + 1] |-> before + i - 1]]

World0 == <<0, Len(given.at) - 1>>

Build(r) ==
  /\ phase = "refs"
  /\ Building(r)
  /\ UNCHANGED <<searchVars, dataVars>>

\* the MPI_Barrier of MPI_COMM_WORLD at the leaves, and the queries come in
Built ==
  /\ \A r \in Procs : pc[r] = "built"
  /\ given.search # "a2a"
  /\ phase' = "queries"
  /\ pc' = [r \in Procs |-> IF given.search = "exact" THEN "gohome"
                           ELSE IF given.traverse_type = 1 THEN "query" ELSE "gather"]
  /\ comm' = [r \in Procs |-> World0]
  /\ refData' = [r \in Procs |-> [gids |-> gids[r], numof_points |-> numof_points[r]]]
  /\ gids' = [r \in Procs |-> queryData[r].gids]
  /\ numof_points' = [r \in Procs |-> queryData[r].numof_points]
  /\ UNCHANGED <<given, plr, niter, n_send, n_left, chan, treeVars,
                 node, ArrTree, ref, ring, round, kmin, kNN, queryData, stree, iter, seen>>

-----------------------------------------------------------------------------
(* distributeToNearestLeaf *)

\* load balance, where there is more than one process
Descend(r) ==
  /\ Together(r, "query")
  /\ IF Size(r) > 1 THEN BalanceStart(r)
     ELSE Goto(r, "balanced") /\ UNCHANGED <<plr, niter>>
  /\ UNCHANGED <<given, comm, gids, numof_points, n_send, n_left, chan, treeVars, searchVars, dataVars>>

IsLeaf(r) == node[r] = Len(tree[r])

ReachLeaf(r) ==
  /\ phase = "queries" /\ pc[r] = "balanced"
  /\ IsLeaf(r)
  /\ Goto(r, "search")
  /\ UNCHANGED <<given, comm, gids, numof_points, plr, niter, n_send, n_left, chan,
                 treeVars, searchVars, dataVars>>

\* the queries that go to a side of a node, of those equal to its median half
SideOf(qs, nd, side) ==
  LET x(q) == given.queries[q][nd.coord_mv]
      same == SelectSeq(qs, LAMBDA q : EqualToMedian(x(q), nd.median))
      unequal == SelectSeq(qs, LAMBDA q : ~EqualToMedian(x(q), nd.median))
      half == Len(same) \div 2
  IN  IF side = 0
      THEN SelectSeq(unequal, LAMBDA q : Below(x(q), nd.median)) \o SubSeq(same, 1, half)
      ELSE SelectSeq(unequal, LAMBDA q : ~Below(x(q), nd.median))
           \o SubSeq(same, half + 1, Len(same))

RangeOf(s) == {s[i] : i \in 1..Len(s)}
GoLeft(r) == RangeOf(SideOf(Live(r), tree[r][node[r]], 0))

SplitQueries(r) ==
  /\ phase = "queries" /\ pc[r] = "balanced"
  /\ ~IsLeaf(r)
  /\ LET left == GoLeft(r)
     IN  /\ gids' = [gids EXCEPT ![r] = Arranged(@, numof_points[r], left)]
         /\ n_left' = [n_left EXCEPT ![r] = Cardinality(left)]
  /\ pc' = [pc EXCEPT ![r] = FirstStep(r)]
  /\ UNCHANGED <<given, comm, numof_points, plr, niter, n_send, chan, treeVars, searchVars, dataVars>>

DescendKid(r) ==
  /\ phase = "queries"
  /\ Together(r, "barrier2")
  /\ comm' = [o \in Procs |-> IF o \in Members(r) THEN tree[o][node[o] + 1].comm ELSE comm[o]]
  /\ node' = [o \in Procs |-> IF o \in Members(r) THEN node[o] + 1 ELSE node[o]]
  /\ AllGoto(r, "query")
  /\ UNCHANGED <<given, gids, numof_points, plr, niter, n_send, n_left, chan, treeVars,
                 phase, ArrTree, ref, ring, round, kmin, kNN, dataVars>>

-----------------------------------------------------------------------------
(* repartitionQueryData *)

TreeDepth == MaxIter(Cardinality(Procs)) - 2

IsLeader(r) == r = tree[r][node[r]].comm[1]

\* what the first process of a node contributes: coord_mv -1 is a leaf
TreeEntry(r) ==
  IF IsLeaf(r) THEN [coord_mv |-> -1, median |-> <<-1, 1>>]
  ELSE [coord_mv |-> tree[r][node[r]].coord_mv, median |-> tree[r][node[r]].median]

\* gatherTree: MPI_Gather, MPI_Gatherv and MPI_Barrier of a level.  A process
\* goes on to the MPI_Bcast at its leaf or when its kid is at full depth
GatherLevel ==
  /\ \A r \in Procs : pc[r] = "gather"
  /\ LET leaders == SortSeq(SelectSeq([i \in 1..Cardinality(Procs) |-> i - 1], IsLeader), <)
     IN  ArrTree' = SubSeq(ArrTree, 1, 2^(node[0] - 1) - 1)
                    \o [i \in 1..Len(leaders) |-> TreeEntry(leaders[i])]
  /\ pc' = [r \in Procs |-> IF IsLeaf(r) \/ node[r] = TreeDepth THEN "bcast" ELSE "gather"]
  /\ node' = [r \in Procs |-> IF IsLeaf(r) THEN node[r] ELSE node[r] + 1]
  /\ UNCHANGED <<given, comm, gids, numof_points, plr, niter, n_send, n_left, chan, treeVars,
                 phase, ref, ring, round, kmin, kNN, dataVars>>

\* visitTree: the queries at node id of a level of the tree gathered
Visited(qs) ==
  LET visit[level \in 0..TreeDepth, id \in 0 .. 2^TreeDepth - 1] ==
        IF level = 0 THEN qs
        ELSE LET nd == ArrTree[2^(level - 1) + id \div 2]
                 above == visit[level - 1, id \div 2]
             IN  IF nd.coord_mv # -1 THEN SideOf(above, nd, id % 2)
                 ELSE IF id % 2 = 0 THEN above ELSE <<>>
  IN  [id \in 0 .. 2^TreeDepth - 1 |-> visit[TreeDepth, id]]

\* the leaves there are: the right side of a leaf in the gathered tree is none
VisualLeaves ==
  SelectSeq([i \in 1 .. 2^TreeDepth |-> i - 1], LAMBDA id :
    id % 2 = 0 \/ ArrTree[2^(TreeDepth - 1) + id \div 2].coord_mv # -1)

\* pre_all2all: the queries of a process in the order of their leaves
LeafOrder(s, visited) ==
  LET upto[id \in -1 .. 2^TreeDepth - 1] ==
        IF id = -1 THEN <<>>
        ELSE upto[id - 1] \o SelectSeq(Live(s), LAMBDA q : q \in RangeOf(visited[id]))
  IN  upto[2^TreeDepth - 1]

\* MPI_Bcast of the tree, and repartition: the MPI_Alltoallv of the queries
Route ==
  /\ \A r \in Procs : pc[r] = "bcast"
  /\ \E to \in {[s \in Procs |-> Visited(Live(s))]} :
       LET got[d \in Procs, s \in 0..Cardinality(Procs)] ==
             IF s = 0 THEN <<>> ELSE got[d, s - 1] \o to[s - 1][VisualLeaves[d + 1]]
       IN  /\ gids' = [d \in Procs |-> got[d, Cardinality(Procs)]]
           /\ numof_points' = [d \in Procs |-> Len(got[d, Cardinality(Procs)])]
           /\ queryData' = [s \in Procs |->
                [queryData[s] EXCEPT !.gids = LeafOrder(s, to[s])]]
  /\ comm' = [r \in Procs |-> tree[r][Len(tree[r])].comm]
  /\ node' = [r \in Procs |-> Len(tree[r])]
  /\ pc' = [r \in Procs |-> "search"]
  /\ UNCHANGED <<given, plr, niter, n_send, n_left, chan, treeVars,
                 phase, ArrTree, ref, ring, round, kmin, kNN, refData, stree, iter, seen>>

-----------------------------------------------------------------------------
(* the search in a leaf *)

Far == 1000000          \* DBL_MAX: larger than every distance
Padding == <<Far, -1>>

Distance(q, g) ==
  SumOver(Dims, LAMBDA c : (given.queries[q][c] - given.refs[g][c])^2)

\* directKQueryLowMem: the k nearest of a block, padded when it is shorter
DirectKQuery(q, block) ==
  LET near == SortSeq([i \in 1..Len(block) |-> <<Distance(q, block[i]), block[i]>>], Lighter)
  IN  [j \in 1..given.k |-> IF j <= Len(near) THEN near[j] ELSE Padding]

\* kmin_merge: the k smallest of two sorted lists
KminMerge(a, b) ==
  LET m[j \in 0..given.k] ==
        IF j = 0 THEN [result |-> <<>>, aloc |-> 1, bloc |-> 1]
        ELSE Sole({IF Lighter(b[p.bloc], a[p.aloc])
                   THEN [p EXCEPT !.result = Append(@, b[p.bloc]), !.bloc = @ + 1]
                   ELSE [p EXCEPT !.result = Append(@, a[p.aloc]), !.aloc = @ + 1] : p \in {m[j - 1]}})
  IN  m[given.k].result

\* queryGreedy: each query is searched in the leaf whose place is its lnid
QueryGreedy(qs, t, leafRefArr) ==
  [q \in qs |-> DirectKQuery(q, leafRefArr[VisitGreedy(given.queries[q], t) + 1])]

\* a leaf of one process.  A place behind the last leaf is an access out of
\* bounds, and what comes after it is undefined
SearchAlone(r) ==
  /\ pc[r] = "search"
  /\ Size(r) = 1 /\ given.search = "nearest"
  /\ \E t \in {StTree(leafdata[r], given.maxp, given.maxLevel - (Len(tree[r]) - 1))} :
     \E leafRefArr \in {LeafRefArr(t)} :
       /\ IF \A q \in Points(r) : VisitGreedy(given.queries[q], t) < Len(leafRefArr)
          THEN /\ kmin' = [kmin EXCEPT ![r] = QueryGreedy(Points(r), t, leafRefArr)]
               /\ Goto(r, "home")
          ELSE Goto(r, "crashed") /\ UNCHANGED kmin
       /\ stree' = [stree EXCEPT ![r] = t]
  /\ UNCHANGED <<given, comm, gids, numof_points, plr, niter, n_send, n_left, chan, treeVars,
                 phase, node, ArrTree, ref, ring, round, kNN, refData, queryData, iter, seen>>

\* the other searches take the ring for a leaf of one process too
InRing(r) == Size(r) > 1 \/ given.search \notin {"nearest", "a2a"}

\* a process without queries in a larger leaf goes on without the others
SearchNothing(r) ==
  /\ pc[r] = "search"
  /\ InRing(r) /\ numof_points[r] = 0
  /\ kmin' = [kmin EXCEPT ![r] = NoLists]
  /\ Goto(r, "home")
  /\ UNCHANGED <<given, comm, gids, numof_points, plr, niter, n_send, n_left, chan, treeVars,
                 phase, node, ArrTree, ref, ring, round, kNN, dataVars>>

\* dist_directKQuery: the MPI_Allreduce that sizes the buffers
RingStart(r) ==
  /\ Together(r, "search")
  /\ InRing(r)
  /\ \A o \in Members(r) : numof_points[o] > 0
  /\ ref' = [o \in Procs |-> IF o \in Members(r) THEN leafdata[o] ELSE ref[o]]
  /\ AllGoto(r, "ring")
  /\ UNCHANGED <<given, comm, gids, numof_points, plr, niter, n_send, n_left, chan, treeVars,
                 phase, node, ArrTree, ring, round, kmin, kNN, dataVars>>

RingNext(r) == World(r, (Rank(r) + 1) % Size(r))

\* MPI_Isend of the block to the next, and the search in it meanwhile
RingSearch(r) ==
  /\ phase = "queries" /\ pc[r] = "ring"
  /\ ring' = [ring EXCEPT ![RingNext(r)] = Append(@, ref[r])]
  /\ kmin' = [kmin EXCEPT ![r] = [q \in Points(r) |->
       LET kmin_new == DirectKQuery(q, ref[r])
       IN  IF round[r] = 0 THEN kmin_new ELSE KminMerge(kmin[r][q], kmin_new)]]
  /\ Goto(r, "ring_wait")
  /\ UNCHANGED <<given, comm, gids, numof_points, plr, niter, n_send, n_left, chan, treeVars,
                 phase, node, ArrTree, ref, round, kNN, dataVars>>

\* mutated: the loop ends one round early
LastRoundEarly(r) == round[r] + 2 >= Size(r)

LastRound(r) == round[r] + 1 = Size(r)

\* the four MPI_Wait, and the block received takes the place of the other
RingSwap(r) ==
  /\ pc[r] = "ring_wait"
  /\ ring[r] # <<>>
  /\ ref' = [ref EXCEPT ![r] = Head(ring[r])]
  /\ ring' = [ring EXCEPT ![r] = Tail(@)]
  /\ round' = [round EXCEPT ![r] = @ + 1]
  /\ Goto(r, IF LastRound(r) THEN "home" ELSE "ring")
  /\ UNCHANGED <<given, comm, gids, numof_points, plr, niter, n_send, n_left, chan, treeVars,
                 phase, node, ArrTree, kmin, kNN, dataVars>>

-----------------------------------------------------------------------------
(* the answers *)

NQueries == Cardinality(Queries)
P == Cardinality(Procs)

\* mutated: the first ranks get no more than the others
home_rank_even(gid) == Min({gid \div Max({NQueries \div P, 1}), P - 1})

\* the process a query belongs to: the first ones have one more
home_rank(gid) ==
  LET lower_bound == NQueries \div P
      nlarge == NQueries % P
      upper_bound == IF nlarge = 0 THEN lower_bound ELSE lower_bound + 1
      large_gid == upper_bound * nlarge
  IN  IF gid < large_gid THEN gid \div upper_bound
      ELSE nlarge + (gid - large_gid) \div lower_bound

homepoints(r) == NQueries \div P + IF r < NQueries % P THEN 1 ELSE 0

\* what the MPI_Alltoall and MPI_Alltoallv bring home
ComingHome(h) == {<<r, q>> \in Procs \X Queries : q \in Points(r) /\ home_rank(q) = h}

Holder(q) == CHOOSE r \in Procs : q \in Points(r)

\* single_merge: each id once, the k nearest first.  Behind them, when there are
\* fewer than k ids, stands what std::unique has left of the list sorted by id
SingleMerge(A, B) ==
  LET byId == SortSeq(A \o B, LAMBDA a, b : a[2] < b[2])
      once == SortSeq(SelectSeq([j \in 1 .. 2 * given.k |-> <<j, byId[j]>>],
                        LAMBDA e : e[1] = 1 \/ byId[e[1] - 1][2] # e[2][2]),
                      LAMBDA a, b : Lighter(a[2], b[2]))
  IN  [j \in 1..given.k |-> IF j <= Len(once) THEN once[j][2] ELSE byId[j]]

\* the points r has searched for q
Searched(r, q) ==
  IF Size(r) > 1 THEN UNION {RangeOf(leafdata[o]) : o \in Members(r)}
  ELSE RangeOf(LeafRefArr(stree[r])[VisitGreedy(given.queries[q], stree[r]) + 1])

\* the answers at home, merged with those of the trees before
Answers ==
  [h \in Procs |-> [q \in {c[2] : c \in ComingHome(h)} |->
     IF iter = 0 THEN kmin[Holder(q)][q] ELSE SingleMerge(kNN[h][q], kmin[Holder(q)][q])]]

\* the end, or the next tree of the points where from has them
NextTree(from) ==
  /\ stree' = [r \in Procs |-> NoTree]
  /\ iter' = iter + 1
  /\ IF iter + 1 = given.numof_iterations
     THEN /\ pc' = [r \in Procs |-> "done"]
          /\ UNCHANGED <<comm, gids, numof_points, treeVars, phase, node, ArrTree, round, kmin>>
     ELSE /\ pc' = [r \in Procs |-> "insert"]
          /\ phase' = "refs"
          /\ comm' = [r \in Procs |-> World0]
          /\ gids' = [r \in Procs |-> from[r].gids]
          /\ numof_points' = [r \in Procs |-> from[r].numof_points]
          /\ tree' = [r \in Procs |-> <<>>]
          /\ leafdata' = [r \in Procs |-> NotBuilt]
          /\ node' = [r \in Procs |-> 1]
          /\ ArrTree' = <<>>
          /\ round' = [r \in Procs |-> 0]
          /\ kmin' = [r \in Procs |-> NoLists]

\* the answers of a search come home
Home ==
  /\ \A r \in Procs : pc[r] = "home"
  /\ given.search = "nearest"
  /\ kNN' = Answers
  /\ seen' = [q \in Queries |-> seen[q] \cup Searched(Holder(q), q)]
  /\ queryData' = IF given.traverse_type = 0 THEN queryData
                  ELSE [r \in Procs |-> [gids |-> gids[r], numof_points |-> numof_points[r]]]
  /\ NextTree(refData)
  /\ UNCHANGED <<given, plr, niter, n_send, n_left, chan, ref, ring, refData>>
=============================================================================
