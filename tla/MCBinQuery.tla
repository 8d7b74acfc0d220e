----------------------------- MODULE MCBinQuery ----------------------------
(* Inputs for TLC: two to five processes. *)
EXTENDS KnnSearch

Points1(s) == [i \in 0 .. Len(s) - 1 |-> <<s[i + 1]>>]
Points2(s) == [i \in 0 .. Len(s) - 1 |-> s[i + 1]]

Input(traverse_type, refs, at, queries, qat, splitter, maxp, minCommSize, k) ==
  [search |-> "nearest", dupFactor |-> 16, traverse_type |-> traverse_type, refs |-> refs, at |-> at, queries |-> queries,
   qat |-> qat, splitter |-> splitter,
   maxp |-> maxp, minCommSize |-> minCommSize, maxLevel |-> 3, k |-> k,
   numof_iterations |-> 1]

Examples ==
  { \* three processes, one holds everything; all leaves of one process
    Input(1, Points1(<<5, 3, 8, 3, 1, 7>>), <<0, 6, 0>>, Points1(<<2, 4, 9, 5>>), <<1, 3, 0>>,
          "rkdt", 2, 1, 2),
    \* equal points, two coordinates
    Input(1, Points2(<<<<4, 1>>, <<4, 2>>, <<4, 2>>, <<4, 9>>, <<4, 2>>>>), <<1, 0, 4>>,
          Points2(<<<<4, 2>>, <<4, 1>>, <<3, 2>>>>), <<0, 0, 3>>, "rkdt", 2, 1, 2),
    \* equal points on several processes, not the same share of each to the left
    Input(1, Points1(<<2, 2, 5, 2>>), <<1, 2, 1>>, Points1(<<2, 2, 3>>), <<2, 1, 0>>, "rkdt", 2, 1, 1),
    Input(1, Points1(<<7, 2, 7, 7, 7, 7, 1>>), <<1, 3, 3>>, Points1(<<7, 7, 3>>), <<2, 1, 0>>, "rsmt", 2, 1, 1),
    \* a leaf of two processes, median 0
    Input(1, Points1(<<0, -3, 0, 3, 0, 2, -2>>), <<4, 1, 2>>, Points1(<<0, 1, -1, -5, -2>>), <<5, 0, 0>>,
          "rkdt", 2, 2, 3),
    Input(1, Points1(<<2, -3, 1, 3, -1, -2>>), <<2, 2, 2>>, Points1(<<0, -1, -4>>), <<0, 1, 2>>,
          "rsmt", 2, 2, 2),
    \* a leaf of three processes that is the root, enough queries or not
    Input(1, Points1(<<9, 1, 5, 2>>), <<4, 0, 0>>, Points1(<<1, 6, 3, 8>>), <<0, 4, 0>>, "rkdt", 4, 1, 2),
    Input(1, Points1(<<9, 1, 5, 2>>), <<1, 1, 2>>, Points1(<<1, 6>>), <<0, 2, 0>>, "rkdt", 4, 1, 2),
    \* a process that has given points away gets some again
    Input(1, Points1(<<1, 2, 3, 4, 5, 6, 7, 8, 9, 10, 11, 12>>), <<0, 6, 6>>, Points1(<<1, 6, 3>>), <<0, 3, 0>>,
          "rkdt", 12, 1, 2),
    \* so many on one of three that the loads stay uneven after the last iteration
    Input(1, Points1([i \in 1..48 |-> (7 * i) % 50]), <<0, 0, 48>>, Points1(<<2, 40, 9, 5>>), <<1, 3, 0>>,
          "rkdt", 12, 1, 2),
    \* four processes: two leaves of two
    Input(1, Points1(<<6, 2, 4, 8, 1, 3>>), <<0, 1, 5, 0>>, Points1(<<1, 7, 5, 3, 2>>), <<5, 0, 0, 0>>,
          "rkdt", 2, 2, 2),
    \* and four leaves of one
    Input(1, Points1(<<6, 2, -4, 8, 0, 3, 5>>), <<0, 1, 6, 0>>, Points1(<<1, 7, 0, -3, 2>>), <<5, 0, 0, 0>>,
          "rkdt", 2, 1, 2),
    \* five: the left half, then the right half goes on alone
    Input(1, Points1(<<3, 3, 1, 4, 1>>), <<1, 1, 1, 1, 1>>, Points1(<<1, 3, 4>>), <<0, 0, 1, 1, 1>>,
          "rkdt", 2, 2, 1),
    \* five: the right half has one process less
    Input(1, Points1(<<6, 2, 4, 8, 1, 3, 7>>), <<1, 0, 5, 0, 1>>,
          Points1(<<1, 7, 2, 5, 3, 9, 8>>), <<0, 0, 7, 0, 0>>, "rkdt", 2, 3, 3),
    \* the whole tree gathered: three and four leaves of one process
    Input(0, Points2(<<<<5, 2>>, <<3, 1>>, <<8, 7>>, <<3, 4>>, <<1, 9>>, <<7, 0>>>>), <<2, 3, 1>>,
          Points2(<<<<2, 2>>, <<4, 5>>, <<9, 3>>, <<3, 3>>, <<5, 0>>>>), <<2, 2, 1>>, "rkdt", 2, 1, 2),
    Input(0, Points1(<<6, 2, -4, 8, 0, 3, 5, 9>>), <<2, 2, 2, 2>>, Points1(<<1, 7, 4, -3, 4>>),
          <<2, 1, 1, 1>>, "rkdt", 2, 1, 2),
    \* more points than maxp in the leaf of a process, the median 0 or not
    Input(1, Points2(<<<<5, 2>>, <<3, 1>>, <<8, 7>>, <<3, 4>>, <<1, 9>>, <<7, 0>>, <<6, 3>>, <<2, 2>>>>),
          <<4, 4>>, Points2(<<<<2, 2>>, <<4, 5>>, <<9, 3>>, <<3, 3>>>>), <<2, 2>>, "rkdt", 2, 1, 2),
    Input(1, Points1(<<-4, -3, -2, -1, 0, 0, 4, 5>>), <<4, 4>>, Points1(<<0, 3, -2, 9>>), <<1, 3>>,
          "rkdt", 2, 1, 2),
    \* leaves of a process at different levels: a query finds another's points,
    \* or the program goes wrong
    Input(1, Points1(<<1, 2, 3, 4, 5, 6, 7, 8, 9, 10>>), <<5, 5>>, Points1(<<1, 3, 8>>), <<1, 2>>,
          "rkdt", 2, 1, 1),
    Input(1, Points1(<<1, 2, 3, 4, 5, 6, 7, 8, 9, 10>>), <<5, 5>>, Points1(<<1, 10>>), <<1, 1>>,
          "rkdt", 2, 1, 1),
    \* fewer points than neighbours
    Input(1, Points1(<<4, 1, 6, 3, 9>>), <<3, 2, 0>>, Points1(<<2, 4, 9>>), <<1, 1, 1>>, "rkdt", 5, 1, 7),
    \* gathered from leaves at different levels, and a tree cut at level 1
    Input(0, Points1(<<6, 2, 4, 8, 1>>), <<1, 1, 1, 1, 1>>, Points1(<<1, 7>>), <<1, 1, 0, 0, 0>>,
          "rkdt", 2, 1, 1),
    [Input(1, Points1(<<6, 2, 4, 8, 1, 9>>), <<2, 2, 2>>, Points1(<<1, 7, 3>>), <<1, 1, 1>>,
           "rkdt", 2, 1, 2) EXCEPT !.maxLevel = 1] }

\* every way to place four points and three queries on three processes
Placements(n) == {p \in (0..n) \X (0..n) \X (0..n) : p[1] + p[2] + p[3] = n}

Placed ==
  {Input(1, Points1(<<2, -1, 0, 2>>), at, Points1(<<0, 3, -2>>), qat, "rkdt", 2, 1, 2) :
     at \in Placements(4), qat \in Placements(3)}

\* a second tree
Again(input) == [input EXCEPT !.numof_iterations = 2]
TwoTrees == {e \in Examples : Len(e.at) = 3}

\* the exact search, with copies in every leaf or some stopped above
Exact(input, dupFactor) == [input EXCEPT !.search = "exact", !.dupFactor = dupFactor]

ExactExamples ==
  { Exact(Input(1, Points1(<<5, 3, 8, 3, 1, 7>>), <<0, 6, 0>>, Points1(<<2, 4, 9, 5>>), <<1, 3, 0>>,
                "rsmt", 2, 1, 2), 16),
    Exact(Input(1, Points2(<<<<4, 1>>, <<4, 2>>, <<1, 2>>, <<4, 9>>, <<7, 2>>, <<9, 4>>>>), <<2, 2, 2>>,
                Points2(<<<<4, 2>>, <<4, 1>>, <<3, 2>>, <<8, 5>>>>), <<0, 2, 2>>, "rsmt", 2, 1, 3), 16),
    \* leaves and nodes of two processes, stopped in the root or below it
    Exact(Input(1, Points1(<<6, 2, 4, 8, 1, 3, 9, 12>>), <<2, 2, 2, 2>>,
                Points1(<<1, 7, 5, 3, 2, 10, 4, 6>>), <<8, 0, 0, 0>>, "rsmt", 2, 1, 3), 0),
    Exact(Input(1, Points1(<<6, 2, 4, 8, 1, 3, 9, 12>>), <<2, 2, 2, 2>>,
                Points1(<<5, 7, 5, 6, 4, 5, 4, 6>>), <<8, 0, 0, 0>>, "rsmt", 2, 1, 3), 1),
    \* a leaf with fewer than k points: no radius
    Exact(Input(1, Points1(<<4, 1, 6, 3, 9>>), <<3, 2, 0>>, Points1(<<2, 4, 9>>), <<1, 1, 1>>, "rsmt", 2, 1, 3), 16) }

\* all among themselves, in one tree or two
A2a(input) == [input EXCEPT !.search = "a2a", !.queries = input.refs, !.qat = input.at]

A2aExamples ==
  {A2a([Input(1, refs, at, refs, at, "rkdt", maxp, minCommSize, 2) EXCEPT !.numof_iterations = n]) :
     n \in 1..2,
     refs \in {Points1(<<6, 2, 0, 8, 1, 3, 9, 12>>)}, at \in {<<4, 4>>, <<1, 3, 4>>},
     maxp \in 2..3, minCommSize \in 1..2}
  \cup
  { A2a(Input(1, Points2(<<<<5, 2>>, <<3, 1>>, <<8, 7>>, <<3, 4>>, <<1, 9>>, <<7, 0>>>>), <<6, 0>>,
              <<>>, <<>>, "rkdt", 2, 1, 2)),
    \* leaves of a process at two levels, and no more than half of maxp
    A2a(Input(1, Points1(<<1, 2, 3, 4, 5, 6, 7, 8, 9, 10>>), <<5, 5>>, <<>>, <<>>, "rkdt", 2, 1, 1)),
    A2a(Input(1, Points1(<<7, 2, 5, 1, 3>>), <<2, 3>>, <<>>, <<>>, "rkdt", 4, 1, 1)) }

\* the tree of clusters
Pcl(search, refs, at, queries, qat, seedType, maxp, minCommSize, k) ==
  [search |-> search, seedType |-> seedType, cluster_factor |-> 1, range |-> 2,
   radii |-> [q \in DOMAIN queries |-> IF q % 2 = 0 THEN 4 ELSE 0]]
  @@ Input(1, refs, at, queries, qat, "pcl", maxp, minCommSize, k)

Six == Points1(<<5, 3, 8, 4, 1, 7>>)
SixAsked == Points1(<<2, 4, 9, 5, 8, 1>>)
Plane == Points2(<<<<0, 0>>, <<1, 2>>, <<7, 5>>, <<8, 6>>, <<6, 6>>>>)
PlaneAsked == Points2(<<<<1, 1>>, <<7, 6>>, <<4, 3>>, <<0, 2>>, <<8, 5>>, <<2, 2>>>>)

PclExamples ==
  \* leaves of one process
  {[Pcl(search, Six, <<0, 6, 0>>, SixAsked, <<4, 2, 0>>, 0, 2, 1, 2) EXCEPT !.dupFactor = dup] :
     search \in PclSearches, dup \in {0, 16}}
  \cup
  \* two coordinates, leaves of two processes, copies stopped above the leaves or not
  {[Pcl(search, Plane, <<2, 2, 1>>, PlaneAsked, <<2, 2, 2>>, 0, 2, mcs, 3) EXCEPT !.dupFactor = dup] :
     search \in PclSearches, mcs \in 1..2, dup \in {1, 16}}
  \cup
  \* the seeds chosen with care, and two clusters for each kid
  {Pcl(search, Points1(<<6, 1, 9, 2>>), <<3, 1>>, Points1(<<2, 4, 9, 1, 7, 6>>), <<3, 3>>, 1, 2, 1, 2) :
     search \in {"pcl_nearest", "pcl_exact"}}
  \cup
  {[Pcl("pcl_nearest", Six, <<2, 4>>, SixAsked, <<4, 2>>, 0, 3, 1, 2) EXCEPT !.cluster_factor = 2]}
  \cup
  \* a number of queries that the processes do not divide, and too few different points
  { Pcl("pcl_nearest", Six, <<2, 2, 2>>, Points1(<<2, 4, 9, 5, 8, 1, 3>>), <<4, 3, 0>>, 0, 2, 1, 2),
    Pcl("pcl_nearest", Points1(<<4, 4, 4, 1>>), <<2, 2>>, Points1(<<4, 1>>), <<1, 1>>, 1, 2, 1, 1) }

AllInputs == Examples \cup Placed \cup {Again(e) : e \in TwoTrees} \cup ExactExamples \cup A2aExamples
             \cup PclExamples
=============================================================================
