---------------------------- MODULE InteracList ----------------------------
(***************************************************************************)
(* The interaction lists of pvfmm: from which nodes, and how, the          *)
(* potential at the points of a leaf is put together.  A node's colleagues *)
(* are the nodes of its depth next to it; the lists are found among the    *)
(* colleagues, their children, and the colleagues of the parent:           *)
(*   U0, U1, U2   leaves that touch the leaf: point to point               *)
(*   V            children of the parent's colleagues that do not touch:   *)
(*                multipole to local expansion                             *)
(*   W            children of colleagues that do not touch: multipole to   *)
(*                point, or point to point if they have few points         *)
(*   X            leaves next to the parent that do not touch: point to    *)
(*                local expansion, or to point if the leaf has few points  *)
(* Local expansions go down the tree to the leaves.                        *)
(*                                                                         *)
(* A contribution names the setup and the list it is from, the node where  *)
(* it enters, the node it comes from and by how much that one is shifted:  *)
(* on a periodic domain nodes are also used from the copies of the domain  *)
(* around it.                                                              *)
(***************************************************************************)
EXTENDS Scatter

\* A tree is the set of its nodes and of those that are not ghosts.
IsLeaf(t, m) == Deeper(m) \notin t.nodes      \* it has no first child

Directions == 1..dim

\* 1 for the upper half of the parent in a direction (bits of Path2Node)
Upper(m, k) == ((m[1] % Cells(m[2]-1)) \div (Cells(m[2]) * 2^(k-1))) % 2

\* Lengths are in quarters of the finest cells.
Width(m) == 4 * 2^(MAX_DEPTH - m[2])
Corners == [s \in Shapes |-> [i \in 0..2^(s[1]*s[2])-1 |->
              [k \in 1..s[1] |-> 4 * Coordinate(s[1], s[2], i, k-1)]]]
Corner(m) == Corners[<<dim, MAX_DEPTH>>][m[1]]

\* The colleagues of every node: pairs of a direction, whose parts are -1, 0
\* and 1, and a node.  Those of the root are the root itself, in every
\* direction if the domain is periodic; those of other nodes are among the
\* children of their parent's colleagues.
SetColleagues(t) ==
  LET inner(C) == {c \in C : ~IsLeaf(t, c[2])}
      near(m, C) ==
        {c \in {LET x == Children(c[2])[j]
                IN  <<[k \in Directions |-> 2 * c[1][k] + Upper(x, k) - Upper(m, k)], x>> :
                  c \in inner(C), j \in 1..2^dim} :
           \A k \in Directions : c[1][k] \in {-1, 0, 1}}
      root == {<<v, Root>> : v \in [Directions -> IF given.periodic THEN {-1, 0, 1} ELSE {0}]}
  IN  FoldLeft(LAMBDA coll, l :
                 coll @@ [m \in {x \in t.nodes : x[2] = l} |-> near(m, coll[Parent(m)])],
               Root :> root, [l \in 1..MAX_DEPTH |-> l])

----------------------------------------------------------------------------
(* BuildList: pairs of a relative coordinate and a node *)

\* the relative coordinates of each list: <<max_r, min_r, step>>
Extent == [U0 |-> <<3, 3, 2>>, U1 |-> <<1, 0, 1>>, U2 |-> <<3, 3, 2>>, V |-> <<3, 2, 1>>,
           V1 |-> <<1, 1, 1>>, W |-> <<5, 5, 2>>, X |-> <<5, 5, 2>>]
InitList(d, e) ==
  {c \in [1..d -> {e[3] * i - e[1] : i \in 0..(2 * e[1]) \div e[3]}] :
     \E k \in 1..d : c[k] >= e[2] \/ -c[k] >= e[2]}

coord_hash(c) ==
  LET n == 5 IN FoldLeft(LAMBDA h, k : h * 2 * n + c[k] + n, 0, [k \in 1..Len(c) |-> Len(c)+1-k])

\* where a list has a relative coordinate, by its hash
hash_lut == [d \in {s[1] : s \in Shapes} |-> [type \in DOMAIN Extent |->
               LET M == InitList(d, Extent[type])
               IN  [h \in {coord_hash(c) : c \in M} |-> CHOOSE c \in M : coord_hash(c) = h]]]

InList(type, C) ==
  LET lut == hash_lut[dim][type]
  IN  {<<lut[coord_hash(c[1])], c[2]>> : c \in {x \in C : coord_hash(x[1]) \in DOMAIN lut}}

\* leaves next to n's parent, in halves of the width of n, from center to center
CoarserLeaves(t, coll, n) ==
  {<<[k \in Directions |-> 4 * c[1][k] - 2 * Upper(n, k) + 1], c[2]>> :
     c \in {x \in coll[Parent(n)] : IsLeaf(t, x[2])}}

\* children of n's colleagues, in quarters of the width of n
FinerNodes(t, coll, n) ==
  {LET x == Children(c[2])[j] IN <<[k \in Directions |-> 4 * c[1][k] + 2 * Upper(x, k) - 1], x>> :
     c \in {x \in coll[n] : ~IsLeaf(t, x[2])}, j \in 1..2^dim}

BuildList(t, coll, n, type) ==
  InList(type,
    CASE type = "X" \/ (type = "U0" /\ IsLeaf(t, n)) -> CoarserLeaves(t, coll, n)
      [] type \in {"U2", "W"} /\ IsLeaf(t, n) -> FinerNodes(t, coll, n)
      [] type = "U1" /\ IsLeaf(t, n) -> {c \in coll[n] : IsLeaf(t, c[2])}
      [] type = "V1" /\ ~IsLeaf(t, n) -> {c \in coll[n] : ~IsLeaf(t, c[2])}
      [] OTHER -> {})

----------------------------------------------------------------------------
(* U_ListSetup, V_ListSetup, W_ListSetup, X_ListSetup *)

\* how far s is shifted to have the relative coordinate c, in a unit, from n
coord_shift(c, unit, s, n) ==
  [k \in Directions |-> c[k] * unit - (Corner(s)[k] + Width(s) \div 2)
                                    + (Corner(n)[k] + Width(n) \div 2)]

UnitOf(type, n) ==
  CASE type \in {"U0", "X"} -> Width(n) \div 2
    [] type \in {"U1", "V"} -> Width(n)
    [] type \in {"U2", "W"} -> Width(n) \div 4

Contribution(by, type, n, c) ==
  [by |-> by, list |-> type, at |-> n, from |-> c[2],
   shift |-> coord_shift(c[1], UnitOf(type, n), c[2], n)]

\* The number of source points of nodes: src where they are known, of leaves
\* of one's own and of those received; every ghost leaf counts one more.
pt_cnt(t, src, m) == src[m] + (IF m \in t.own THEN 0 ELSE 1)
HasSources(t, src, m) ==
  \E l \in DOMAIN src : (l = m \/ isAncestor(m, l)) /\ pt_cnt(t, src, l) > 0

\* The lists of a leaf n with points; nsrf is the number of points up to which
\* it is cheaper to do without an expansion.
U_List(t, coll, src, nsrf, n) ==
  LET sources(type) == {c \in BuildList(t, coll, n, type) : IsLeaf(t, c[2]) /\ src[c[2]] > 0}
      of(type, C) == {Contribution("U_List", type, n, c) : c \in C}
  IN  UNION {of(type, sources(type)) : type \in {"U0", "U1", "U2"}}
      \union (IF src[n] <= nsrf THEN of("X", sources("X")) ELSE {})
      \union of("W", {c \in sources("W") : pt_cnt(t, src, c[2]) <= nsrf})

\* mutated: a ghost without points is taken for a leaf with few
W_ListGhostsSkipped(t, coll, src, nsrf, n) ==
  LET skipped(m) == IsLeaf(t, m) /\ pt_cnt(t, src, m) <= nsrf
  IN  {Contribution("W_List", "W", n, c) :
         c \in {x \in BuildList(t, coll, n, "W") : HasSources(t, src, x[2]) /\ ~skipped(x[2])}}

\* a ghost without points is taken for a node that has children elsewhere
W_List(t, coll, src, nsrf, n) ==
  LET skipped(m) == /\ IsLeaf(t, m) /\ pt_cnt(t, src, m) <= nsrf
                    /\ m \in t.own \/ src[m] > 0
  IN  {Contribution("W_List", "W", n, c) :
         c \in {x \in BuildList(t, coll, n, "W") : HasSources(t, src, x[2]) /\ ~skipped(x[2])}}

\* what enters the local expansion of n, by its own list and by its parent's
X_List(t, coll, src, nsrf, n) ==
  IF IsLeaf(t, n) /\ src[n] <= nsrf THEN {}
  ELSE {Contribution("X_List", "X", n, c) :
          c \in {x \in BuildList(t, coll, n, "X") : src[x[2]] > 0}}

\* the children of nodes next to n's parent, in widths of n
ChildPairs(C, n) ==
  {LET x == Children(c[2])[j]
   IN  <<[k \in Directions |-> 2 * c[1][k] + Upper(x, k) - Upper(n, k)], x>> :
     c \in C, j \in 1..2^dim}

V_List(t, coll, src, n) ==
  LET sources == {c \in BuildList(t, coll, Parent(n), "V1") : HasSources(t, src, c[2])}
  IN  {Contribution("V_List", "V", n, c) : c \in InList("V", ChildPairs(sources, n))}

\* The contributions to the points of each leaf of one's own that has any:
\* directly, and down the tree from the local expansions of the nodes above.
Potentials(t, src, nsrf) ==
  LET coll == SetColleagues(t)
      path(n) == ({n} \union ProperAncestors(n)) \ {Root}
  IN  [n \in {m \in DOMAIN src : m \in t.own /\ src[m] > 0} |->
         U_List(t, coll, src, nsrf, n) \union W_List(t, coll, src, nsrf, n)
         \union UNION {X_List(t, coll, src, nsrf, a) \union V_List(t, coll, src, a) : a \in path(n)}]

\* a leaf's colleagues' children that touch it are leaves (2:1 balanced)
FinerAreLeaves(t, src) ==
  LET coll == SetColleagues(t)
  IN  \A n \in {m \in DOMAIN src : m \in t.own /\ src[m] > 0} :
        \A c \in BuildList(t, coll, n, "U2") : IsLeaf(t, c[2])
=============================================================================
