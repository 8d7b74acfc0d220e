----------------------------- MODULE MCFmmTree -----------------------------
(***************************************************************************)
(* Inputs of the distributed tree: all ways to put six points on a few     *)
(* cells of a line for three processes, coincident points included, and    *)
(* points scattered over squares and cubes for four to seven processes,    *)
(* which makes the hypercube of the reduction incomplete in every way.     *)
(***************************************************************************)
EXTENDS FmmTree

Input(d, depth, periodic, max, sized, nsrf, points) ==
  [dim |-> d, max_depth |-> depth, periodic |-> periodic, max_pts |-> max,
   sized |-> sized, nsrf |-> nsrf, pts |-> points]

MCShapes == {<<1, 4>>, <<2, 3>>, <<2, 4>>, <<3, 3>>}

\* s dealt to n processes
Dealt(s, n) == [r \in 1..n |-> [k \in 1..(Len(s) - r) \div n + 1 |-> s[n*(k-1) + r]]]

Line ==
  {Input(1, 4, (s[1] + s[2]) % 2 = 1, 1, s[5] % 2 = 1, (s[1] + s[3] + s[6]) % 3, Dealt(s, 3)) :
     s \in {x \in [1..6 -> {0, 1, 5, 6, 9, 15}] : \A i \in 1..5 : x[i] <= x[i+1]}}

\* n points scattered over the cells
Scattered(n, seed, cells) == [i \in 1..n |-> (seed * 7919 + i * i * 104729 + i * seed * 31) % cells]
Spread(procs, n, d, depth, seeds, max) ==
  {Input(d, depth, k % 2 = 0, max, k % 4 < 2, k % 3, Dealt(Scattered(n, k, 2^(d * depth)), procs)) :
     k \in seeds}

\* not more points in the first of the finest octants than a process has:
\* p2oLocal's caller asserts as much
AwayFromOrigin(in) ==
  Len(SelectSeq(FlattenSeq(in.pts), LAMBDA x : x < 2^in.dim)) <=
    Len(FlattenSeq(in.pts)) \div Len(in.pts)

MCInputs ==
  {in \in Line \union Spread(4, 9, 2, 3, 1..4, 1) \union Spread(4, 17, 3, 3, {1, 2}, 2)
         \union Spread(5, 12, 2, 4, 1..4, 1) \union Spread(6, 12, 2, 4, 1..3, 1)
         \union Spread(7, 14, 2, 4, {1, 2}, 1) :
     AwayFromOrigin(in)}
=============================================================================
