------------------------------- MODULE STree -------------------------------
(***************************************************************************)
(* rkdt's tree within a process, stTree: the process of a leaf of its own  *)
(* splits its points at the median of the coordinate of largest variance   *)
(* until few enough are left, and each query is searched in one leaf.      *)
(*                                                                         *)
(* Node n has the kids 2n and 2n+1; lnid is its number on its level.  The  *)
(* leaves are kept in the order in which the build meets them, left to     *)
(* right, but a query takes the lnid of its leaf for the leaf's place in   *)
(* that order: they agree when all leaves are on one level.                *)
(***************************************************************************)
EXTENDS BinTree

Level(n) == CHOOSE l \in 0..n : 2^l <= n /\ n < 2^(l + 1)
lnid(n) == n - 2^Level(n)

\* within 10^-6 of a median that is not 0
EqualToMedian(x, med) ==
  med[1] # 0 /\ Abs(x * med[2] - med[1]) * 1000000 < Abs(med[1])

\* what parvar sums, times the number of points
Variance(points, c) ==
  LET x(i) == given.refs[points[i]][c]
  IN  Len(points) * SumOver(1..Len(points), LAMBDA i : x(i)^2)
      - SumOver(1..Len(points), x)^2

\* maxvarProjection: the first coordinate of the largest variance
MaxVar(points) ==
  CHOOSE c \in Dims : \A o \in Dims :
    \/ Variance(points, o) < Variance(points, c)
    \/ Variance(points, o) = Variance(points, c) /\ c <= o

\* select(px, n/2)
Select(points, c) ==
  <<SortSeq([i \in 1..Len(points) |-> given.refs[points[i]][c]], <)[Len(points) \div 2 + 1], 1>>

\* assignMembership and copyData: of the points equal to the median so many
\* go to the left as make it half of all
KidData(nd, side) ==
  LET x(g) == given.refs[g][nd.coord_mv]
      same == SelectSeq(nd.data, LAMBDA g : EqualToMedian(x(g), nd.median))
      rest == SelectSeq(nd.data, LAMBDA g : ~EqualToMedian(x(g), nd.median))
      below == SelectSeq(rest, LAMBDA g : Below(x(g), nd.median))
      n_move_left == IF same = <<>> THEN 0 ELSE Len(nd.data) \div 2 - Len(below)
  IN  IF side = 0 THEN below \o SubSeq(same, 1, n_move_left)
      ELSE SelectSeq(rest, LAMBDA g : ~Below(x(g), nd.median))
           \o SubSeq(same, n_move_left + 1, Len(same))

NoNode == [kind |-> "none"]

\* the one element of a set: TLC computes it once
Sole(S) == CHOOSE x \in S : TRUE

\* stTree::insert but for its recursion: node n with its points
Insertion(n, data, minp, maxlev) ==
  IF Level(n) = maxlev \/ Len(data) <= minp THEN [kind |-> "leaf", data |-> data]
  ELSE Sole({[kind |-> "split", data |-> data, coord_mv |-> c, median |-> Select(data, c)] :
               c \in {MaxVar(data)}})

\* stTree::build: all nodes down to maxlev, those there are not are NoNode
StTree(points, minp, maxlev) ==
  LET kid(t, n) ==
        IF t[n \div 2].kind # "split" THEN NoNode
        ELSE Sole({Insertion(n, data, minp, maxlev) : data \in {KidData(t[n \div 2], n % 2)}})
      insert[level \in 0..maxlev] ==
        IF level = 0 THEN <<Insertion(1, points, minp, maxlev)>>
        ELSE Sole({t \o [i \in 1 .. 2^level |-> kid(t, 2^level + i - 1)] : t \in {insert[level - 1]}})
  IN  insert[maxlev]

Leaves(t) == {n \in DOMAIN t : t[n].kind = "leaf"}

\* the leaves in the order in which insert meets them
LeafRefArr(t) ==
  LET under[n \in DOMAIN t] ==
        IF t[n].kind = "leaf" THEN <<t[n].data>> ELSE under[2 * n] \o under[2 * n + 1]
  IN  under[1]

\* the node of the leaf a point is led to
LeafReached(point, t) ==
  LET visit[n \in DOMAIN t] ==
        IF t[n].kind = "leaf" THEN n
        ELSE visit[IF Below(point[t[n].coord_mv], t[n].median) THEN 2 * n ELSE 2 * n + 1]
  IN  visit[1]

\* visitGreedy
VisitGreedy(point, t) == lnid(LeafReached(point, t))

OneLevel(t) == \A n, m \in Leaves(t) : Level(n) = Level(m)
=============================================================================
