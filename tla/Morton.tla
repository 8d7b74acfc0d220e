------------------------------- MODULE Morton -------------------------------
(***************************************************************************)
(* Morton ids, the names of the nodes of pvfmm's octrees (class MortonId). *)
(* An id is <<pos, depth>>: the place on the Morton curve of the first of  *)
(* the finest cells the node covers, and its depth.  The code keeps pos as *)
(* coordinates x, y, z at full resolution; bit dim*b+k of pos is bit b of  *)
(* coordinate k, and the comparison of two ids is that of their pos.       *)
(*                                                                         *)
(* The code has 3 dimensions and trees of up to MAX_DEPTH levels; here     *)
(* both are part of the input, so that small trees with many processes can *)
(* be checked; the tree's max_depth is MAX_DEPTH.                          *)
(***************************************************************************)
EXTENDS Integers, Sequences, FiniteSetsExt

CONSTANT Shapes      \* the pairs <<dim, max_depth>> of the inputs

VARIABLE given       \* the input: what is built from which points, by whom

dim == given.dim
MAX_DEPTH == given.max_depth
Depths == 0..MAX_DEPTH

\* finest cells in a node of depth d
Cells(d) == 2^(dim * (MAX_DEPTH - d))

Root == <<0, 0>>
End(m) == m[1] + Cells(m[2])
Less(a, b) == a[1] < b[1] \/ (a[1] = b[1] /\ a[2] < b[2])
AtMost(a, b) == ~Less(b, a)

\* the coarsest id that starts where m ends, unless it is deeper than m
NextId(m) ==
  <<End(m), CHOOSE d \in 0..m[2] : /\ End(m) % Cells(d) = 0
                                   /\ \A e \in 0..d-1 : End(m) % Cells(e) # 0>>

getAncestor(m, level) ==
  LET pos == m[1] % Cells(0) IN <<pos - (pos % Cells(level)), level>>

getDFD(m) == <<m[1], MAX_DEPTH>>
Deeper(m) == <<m[1], m[2] + 1>>         \* getDFD(depth+1)

isAncestor(m, other) == other[2] > m[2] /\ getAncestor(other, m[2]) = m

ProperAncestors(m) == {getAncestor(m, l) : l \in 0..m[2]-1}

Children(m) == [k \in 1..2^dim |-> <<m[1] + (k-1) * Cells(m[2]+1), m[2]+1>>]
ChildSet(m) == {Children(m)[k] : k \in 1..2^dim}

----------------------------------------------------------------------------
\* coordinate k of number i on the Morton curve of a grid of 2^l cells a side
Coordinate(d, l, i, k) ==
  SumSet({2^b : b \in {c \in 0..l-1 : (i \div 2^(d*c + k)) % 2 = 1}})

\* the cells of such a grid at distance of at most one from cell i, in every
\* direction; on a periodic grid the first and the last cell are next to each
\* other
NbrCells ==
  [g \in (UNION {{<<s[1], l>> : l \in 0..s[2]-1} : s \in Shapes}) \X BOOLEAN |->
     LET d == g[1][1]
         l == g[1][2]
         x == [i \in 0..2^(d*l)-1 |-> [k \in 0..d-1 |-> Coordinate(d, l, i, k)]]
         near(a, b) == IF g[2] THEN (a - b) % 2^l \in {0, 1, 2^l - 1}
                               ELSE a - b \in {-1, 0, 1}
     IN  [i \in DOMAIN x |-> {j \in DOMAIN x : \A k \in 0..d-1 : near(x[i][k], x[j][k])}]]

\* the nodes at a level next to m's ancestor there, that one included
NbrList(m, level) ==
  {<<c * Cells(level), level>> :
     c \in NbrCells[<<dim, level>>, given.periodic][m[1] \div Cells(level)]}
=============================================================================
