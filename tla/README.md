# Parallel sorts, trees and searches, specified

This directory specifies the parallel programs of the repository in TLA+, checks
them with TLC on small instances, and proves with TLAPS what matters most of them for
instances of any size. It is kept beside the code: every definition that models code
names, in PROJECT.json, the lines it stands for.

The repository sorts arrays of integers in parallel in four frameworks (an in-house
MPI/OpenMP library, StarPU, Galois, Legion), and the in-house part brings along what
its sort was written for: pvfmm, a fast multipole method on distributed octrees with a
memory manager of its own, and rkdt, a search for nearest neighbours in distributed
trees. What is hard about these programs is neither sorting nor arithmetic. Pieces of
one array are handed out, by arithmetic that every thread, task or process does on its
own, to workers that run in any order, and put together again at places computed from
counts made by others. A wrong index loses a key only for some lengths, some numbers of
processes, some runs of equal keys; a missing synchronisation only for some
interleavings. The specifications go after those.

## 1. Inventory

| component | state | operations | who it talks to |
|---|---|---|---|
| `omp_par::merge` (in-house/ompsort) | two inputs, output, 2·p·10 splits with positions, p+1 boundaries in each input | three parallel loops: sample, pick, merge; copy if an input is empty | called by `merge_sort` and `HyperQuickSort`; threads share the arrays, barriers separate loops |
| `omp_par::merge_sort` | array, buffer, which of them is source, width of the runs | sort the parts, rounds of merges, copy back | calls `merge` |
| `omp_par::scan`, `reduce` | block sums | block-wise prefix sums | used by `partitionW`, `Mpi_Alltoallv_dense` |
| `par::HyperQuickSort` (in-house/pvfmm) | block of each process, communicator, believed size, split key, messages | agree on a split, exchange halves with a partner (and an extra partner), merge, split the communicator | MPI collectives and `MPI_Sendrecv`; `merge_sort`, `merge`, `partitionW` |
| `par::partitionW` | block, weights, counts and offsets per destination | global scan, counts, all-to-all | `Mpi_Alltoallv_sparse` |
| `Mpi_Alltoallv_sparse`, `_dense` | requests; buffer of blocks under way | non-blocking pairwise exchange; log p rounds with a partner | MPI point-to-point |
| `SortScatterIndex`, `ScatterForward`, `ScatterReverse` | index of every key's origin | sort with origins; move data along the index or back | `HyperQuickSort`, `Mpi_Alltoallv_*`; used by pvfmm's tree |
| StarPU sample sort (startPU/sample_sort) | array, samples, bounds, buckets, result, data handles | submit tasks in four phases, unregister handles, add up sizes | StarPU workers run the tasks |
| Galois sample sort (galois/sample_sort) | blocks, samples, bounds, index/size/sum matrices, buckets | six `do_all` loops with serial code between | Galois threads run the iterations |
| Legion sample sort (legion) | seven logical regions, partitions, region requirements | launches of five kinds of tasks, a checker | Legion orders the tasks by their requirements |
| pvfmm memory manager (`mem_mgr`) | a buffer, a doubly linked list of nodes, a map of free blocks, a stack of unused nodes | `malloc`, `free`, constructor, destructor | any number of threads, one lock; the system's `malloc` when the buffer is full |
| pvfmm linear octrees | the sorted list of leaves, spread over the processes | `points2Octree`, `balanceOctree` | `HyperQuickSort`, exchanges with the neighbouring processes |
| pvfmm distributed tree | nodes of each process, `mins`, ghosts, points and their indices | `Initialize`, `Balance21`, `RedistNodes`, `ConstructLET`, `MultipoleReduceBcast` | linear octrees, scatter functions, MPI point-to-point in rounds |
| pvfmm evaluation | colleagues, interaction lists, expansions | setups of U, V, W and X lists, upward and downward pass | the local essential tree |
| rkdt distributed tree (`binTree`) | points of each process, medians, communicators | load balance, median, sides, repartition, next level | MPI collectives and `MPI_Sendrecv` |
| rkdt trees within a process (`stTree`, `srkdt`) | nodes, array of leaves | build, search of one leaf | the searches |
| rkdt searches (`binQuery`, `direct_knn`) | queries, radii, answers, two ring buffers | route queries, search leaves, send answers home, merge several trees | the distributed tree, `MPI_Alltoallv`, a ring of processes |
| rkdt tree of clusters (`pcltree`, `clustering`) | centers, radii, shares of processes | seeds, k-means, assignment of processes and kids, nearest, exact and range search | MPI collectives; `direct_knn` |
| rkdt `parTree`, `metricTree`, `oldtree`, `forest`, `lsh` | – | other trees and hashing | not used by the drivers above; not modelled |
| gsknn, pvfmm numerics, vectors, profiler | – | numerical kernels and containers | no protocol of their own; not modelled |
| `data/generator.c`, drivers, build scripts | – | read and write files, time, print | not modelled |

Where the behaviour is hard:

* *interleaving*: loop iterations, tasks, threads and processes run in any order; in the
  StarPU program nothing but `starpu_data_unregister` separates the phases, in the
  Legion program nothing but the declared region requirements, and two of those
  declare less than the task does; the memory manager checks and refills blocks outside
  its lock;
* *deadlock and protocol*: an odd number of processes makes one process the partner of
  two; halves without keys, or leaves without queries, leave a loop of collective calls
  while others go on;
* *ordering*: messages of consecutive exchanges share a tag, blocks go round rings in two
  buffers that change roles, nodes travel by relays that each process plans alone;
* *independent arithmetic*: boundaries, windows of destinations and places in the output
  are computed separately by every worker and must fit together;
* *stale or unwritten memory*: buffers that change roles, samples nobody wrote, vectors
  that are longer than what counts in them, guesses about the nodes of others;
* *boundaries*: lengths that the number of workers does not divide, empty blocks and
  buckets, runs of equal keys, fewer keys than workers, points on the border between two
  processes or on a median.

There are no crashes, restarts, timeouts or lost messages to model: the programs
are batch jobs, and MPI and the task runtimes are reliable or abort the job.
PROJECT.json lists the hazards with their lines and the properties aimed at them.

What makes each component correct:

* a sort returns, and what it returns is its input sorted (`ParallelSort`); on the way,
  segments tile, stay in their array and are balanced (`merge`); the runs it merges are
  sorted and written (`merge_sort`); processes agree, messages match, no key is lost,
  halves are apart (`HyperQuickSort`); phases do not overlap and gather tasks write
  disjoint places (the sample sorts);
* an exchange gives everyone what was sent to it and returns (`Alltoallv`);
* the memory manager never gives one cell to two callers (`Allocator`), and its list,
  map and stack describe one partition of the buffer;
* a tree of points neither loses nor repeats one, shares the points evenly and keeps the
  two sides of a median apart; a search gives the neighbours it promises; everyone
  returns;
* an octree holds every point in one leaf, leaves that touch differ by at most one
  level, every process has the nodes its evaluation uses, every pair of leaves is
  counted once, and values return to where their points came from.

## 2. Plan

Done, in this order: `OmpMerge`, `OmpMergeSort`, `ParallelSort`, `HyperQuickSort`,
the three sample sorts, `Alltoallv`, `AlltoallvDense`, `AlltoallvSparse`, `Exchanges`,
`Allocator`, `MemMgr`; rkdt from `Repartition` to `KnnSearch`; pvfmm from `Morton` to
`FmmTree`. Proved: every invariant of the sorts, of the exchanges and of the memory
manager that a run checks, and that both exchanges implement `Alltoallv` (section 6).

Left, with what stands in the way (section 7): the invariants of rkdt's and pvfmm's trees,
whose operators recurse over data. Not planned: the other trees of rkdt, LSH, the numerics.

## 3. Modules and code

| module | code | what it is |
|---|---|---|
| `ParallelSort` | – | what every sort promises: it produces, once, the sorted permutation of its input |
| `OmpMerge` | `omp_par::merge`, ompUtils.txx:9-88 | the parallel merge |
| `OmpMergeSort` | `omp_par::merge_sort`, ompUtils.txx:90-151 | the sort inside a process |
| `OmpUtils` | – | a call of `merge` beside a call of `merge_sort` |
| `HyperQuickSort` | `par::HyperQuickSort`, `par::partitionW`, parUtils.txx:258-511 | the distributed sort |
| `Alltoallv` | the interface of the all-to-all functions | what an exchange promises |
| `AlltoallvDense` | `par::Mpi_Alltoallv_dense`, parUtils.txx:118-255 | the exchange in log p rounds |
| `AlltoallvSparse` | `par::Mpi_Alltoallv_sparse`, parUtils.txx:25-114 | the pairwise exchange |
| `Exchanges` | – | some sparse exchanges and a dense one on one communicator |
| `StarPUSampleSort` | startPU/sample_sort/sample_sort.cpp | the StarPU program |
| `GaloisSampleSort` | galois/sample_sort/array.cpp | the Galois program |
| `LegionSampleSort` | legion/sample_sort.cc | the Legion program |
| `Allocator` | the interface of the memory manager | what it promises to its callers |
| `MemMgr` | pvfmm/src/mem_mgr.cpp, mem_mgr.txx | the memory manager |
| `Repartition` | rkdt repartition.cpp:1078-1377, binTree.cpp:227-289 | load balance and the exchange of points between halves |
| `BinTree` | binTree.cpp:43-1383 | the build of the distributed tree; extends `Repartition` |
| `STree` | stTree.cpp | the tree within a process |
| `BinQuery` | binQuery.cpp:1434-2242, gatherTree.cpp, distributeToLeaf.cpp, direct_knn.cpp | the nearest-leaf search over several trees |
| `ExactSearch` | binQuery.cpp:41-616 | the exact search `queryK` |
| `AllToAll` | binQuery.cpp:926-2062, srkdt.cpp | the search of all points among themselves |
| `Clustering` | clustering.cpp, groupdistribute.cpp:4-135 | seeds, k-means, shares of processes |
| `GroupTree`, `GroupSearch` | pcltree/mpitree.cpp, queryK.cpp, queryR.cpp | the tree of clusters and its searches |
| `KnnSearch` | binQuery.cpp:2065-2288 | all of rkdt's searches as one specification, with their properties |
| `Morton` | mortonid.txx, mortonid.cpp | ids of octree nodes, as operators |
| `LinearOctree` | mpi_tree.txx:34-921 | `points2Octree`, `balanceOctree`, as operators |
| `Scatter` | parUtils.txx:525-952 | the scatter functions, as operators |
| `InteracList` | interac_list.txx, fmm_pts.txx, fmm_tree.txx:74-178 | interaction lists and the passes over the tree, as operators |
| `FmmTree` | mpi_tree.txx:198-2278, fmm_tree.txx:238-734, fmm_pts.cpp:121-142 | the distributed tree through an evaluation |
| `...Proofs` | – | the theorems about the module they are named after |
| `MC...` | – | bounded inputs for the runs |

`HyperQuickSort`, `OmpMergeSort` and the three sample sorts instantiate
`ParallelSort` with a refinement mapping; the two exchanges do so with `Alltoallv`, the
memory manager with `Allocator`. A variable has the name it has in the code, where it has
one. Keys are natural numbers: only their order matters to a comparison sort.

**OmpMerge.** `A`, `B`, `C`, `split`, `split_size`, `split_indx_A` and `split_indx_B`
are the code's arrays; `loop` and `todo` stand for the parallel loop that is running
and its iterations still to come. `Enter` is the entry with both early cases;
`CopySlice`, `Sample`, `Pick` and `MergeSegment` are iterations of the four loops;
`Barrier` is the end of a loop with the master's assignments before the next one. An
iteration is one step because it reads only what earlier loops wrote and writes only
cells of its own; that the cells are its own is not assumed: that the
boundaries do not cross is checked and proved. `C` holds elements `<<array, index>>` and
not keys, so that a lost or overwritten element shows in `MergedStably` even among equal ones. `std::merge` and `std::lower_bound`
are modelled by what they return.

**OmpMergeSort.** `A`, `B` are the array and the buffer, `inA` says which of them the
code's `A_` points to, `j` is the width of the runs in parts and `i` the loop variable.
`Divide`, `SortPart`, `PartsSorted`, `MergePair`, `SwapBuffers` and `CopyBack` follow
the code in order; `SortShort` is the case of fewer than two elements per thread. A
sort or merge of a range is one step that leaves a sorted copy: `std::sort`, and
`omp_par::merge` as `OmpMerge` establishes it.

**HyperQuickSort.** One process is a program counter with the code's variables;
`comm` is the set of members of its communicator, `npes` and `myrank` the numbers the
loop computes itself. A collective call is one step that needs all members
(`SumSizes`, `ChooseSplit`, `CommSplit`, `PartitionW`); `MPI_Sendrecv` is a send and a
receive over a FIFO channel per ordered pair, and its return may have to wait for its
own message (`Rendezvous`). The random splitters are a nondeterministic choice: any key
that can be the nearest to the middle among drawn ones. `PartitionW` computes the
windows and the amounts with the code's arithmetic and moves the keys in one step.

**AlltoallvDense.** `range`, `s_cnt`, `sbuff`, `r_cnt`, `rbuff` and their `ext`
companions are the code's; `out` is `rbuff_`. A buffer is a sequence of words
`<<sender, destination, k>>`; word 0 is the header (length and sender) and the model
reads the length and the sender from the word it finds where the code looks for a
header, so a wrong address is not repaired by the abstraction. The displacements are
prefix sums of the counts. Every `MPI_Sendrecv` is two actions as above. `Rearrange` is
the loop that joins segments, `Deliver` the copy to the result. `Alltoallv` says: every
process returns, once, what each process sent it.

**AlltoallvSparse, Exchanges.** A process posts its receives, then its synchronous
sends, waits for all and goes on to its next exchange while others are in this one.
MPI matches the n-th send of a pair with its n-th receive; a message carries the number
of its exchange, so that a match across exchanges would show. `Exchanges` interleaves the
sparse exchanges of a process (`MaxExchanges` of them, two in the run) with a dense one
after them; the two do not mix because their tags differ.

**StarPUSampleSort.** The main thread is `pc` with its loop variable `i`; `running` is
the set of submitted tasks. A submission, an unregistration, and the main thread's
serial code between the phases are actions of main; a task is one step (`cpu_phaseI`,
`cpu_phaseIII`, `cpu_phaseIV`) because tasks of a phase share no memory, with one
exception that the model keeps: the sample of an empty block is read from a key that
another task may be sorting, and may be any key. The place of a sample is computed in
`float` and cut to an integer: it is the exact quotient, or one below where rounding
goes down. `RoundedDown` names the pairs for which it is one below; that it is never off
by more is so for arrays below 2^23 keys. No pair of the run's sizes is rounded down, so
the run has the empty set; the theorems hold for every one.

**GaloisSampleSort.** `pc` is the parallel loop main is in and `todo` its iterations;
each iteration is an action, and what main does between two loops is the action that
ends the first. `gath` begins unwritten, and `ChooseBounds` sorts whatever such words
hold. `numThreads`, what Galois grants, may be less than `p`, what was asked for.

**LegionSampleSort.** A region is a variable, a launch a step of the top-level task,
and a task runs in one step once every task launched before it that interferes with
it has ended (`MustPrecede`). Interference is computed from the declared region
requirements, translated one by one, not from what the tasks do. The library's `qsort` is
what it promises: the sorted arrays of the elements it is given.

**MemMgr.** `node_buff`, `node_stack`, `free_map` and `lock` are the code's;
memory is counted in cells of `MEM_ALIGN` bytes, the header taking one. What happens
under the lock is one step (`Take`, `GiveBack` and their failures), and each
stretch of code outside it is an action of the thread: refilling a block that comes
back, reading `node_buff.size()`, writing the header of a block handed out, checking its
bytes in the debug build. An assertion that fails is recorded with its line and ends the
process; with `NDEBUG` there are none. `Leave` runs the destructor. `held` of
`Allocator` is the blocks that the callers hold.

**Repartition, BinTree.** A communicator is an interval of ranks, as a split by rank
makes it. A collective call is a step of all its members; the pairwise exchanges of
points are single messages, a send and a receive each. `gids` may be longer than
`numof_points`, as the code's vectors are. Coordinates are integers, a median is a
fraction, and comparisons "within a millionth" are comparisons with the median, but for
the division by a median of 0, which is kept. The splitting coordinate is any one: the
code draws it or takes that of the largest variance.

**STree, BinQuery, ExactSearch, AllToAll.** The trees inside a process are pure
operators (`Nodes`, `Leaf`, ...), used by the leaves of the searches. Queries go down the tree in
steps of a communicator; in a leaf of several processes each turn of the ring
(`dist_directKQuery`) is a send and a receive of one process, and the all-reduce before it
waits for every process of the leaf, those without queries included, as the code does.
A query's radius is a function of the query. The enlargements of a radius by 1e-9 are
equality here, since distances are integers.

**Clustering, GroupTree, GroupSearch.** k-means on integer points with centers as sums
and counts; it stops when the objective does not improve (the code: by less than a
10000th). The steps are joint steps of a communicator, but for the rings. `KnnSearch`
chooses by `given.search` which search an input runs.

**Morton, LinearOctree, Scatter, InteracList.** Pure operators on the data of all
processes: dimension and depth are part of the input, so that small trees with many
processes can be checked. `HyperQuickSort` is used as what it is shown to be: sorted, in
equal shares. An evaluation does no arithmetic; it collects *contributions*, which name
the list, the node and the copy of the domain they come from, so that a pair counted
twice or not at all is visible.

**FmmTree.** The steps from the points to the direct exchange of `ConstructLET` are
collective. The rounds of the broadcast of shared nodes and of `MultipoleReduceBcast` are
actions of single processes; the message that the code relays within an incomplete
hypercube is modelled as one from its origin. A multipole is the number of times it
counts each process's points.

## 4. Runs

Every property of a passing run comes with a mutant in PROJECT.json: a definition
(marked "mutated" in the modules) with a plausible bug of that code, under which TLC
finds the property violated.

| run | instance | shows |
|---|---|---|
| `Omp` | `merge`: 3 threads, 2 splits per thread and array; all pairs of sorted arrays of up to 3 keys of 1..3, and the keys 1..9 dealt to the two arrays in all ways. `merge_sort`: teams of 1, 3 and 5; all arrays of up to 6 keys of 1..3 and all of 10 keys of 1..2 | the segments tile both inputs, those of distinct keys are balanced, the result is the stable merge; the runs a round merges are sorted and written, and the whole implements `ParallelSort` |
| `HyperQuickSort` | 3 processes, rendezvous sends, blocks of 0 to 2 keys of 1..3; 5 processes, buffered sends, blocks of 0 or 1 key | communicators and sizes agree, no key is lost at any moment, halves are apart, messages of two partners are never mixed up, and the whole implements `ParallelSort` |
| `Exchanges` | 5 processes, two sparse exchanges (one sends to all but itself or neighbours in a ring) and a dense one (nobody, one, everyone with different counts), rendezvous sends | lengths and data match, segments hold only what is addressed to them, all three exchanges implement `Alltoallv` |
| `StarPUSampleSort` | 3 tasks per phase; all arrays of 0, 1, 2 and 6 keys of 1..3; 1680 arrays of 9 distinct keys | the phases do not overlap, buckets are balanced, and the program implements `ParallelSort` where `NUM_CPU` divides the length or exceeds it |
| `GaloisSampleSort` | 3 threads asked for, 1 to 3 granted; all arrays of 0, 1, 4 and 6 keys of 0..2; block-wise sorted ones of 9 and 12 keys of 0..1; unwritten words below or above every key | buckets tile the blocks, and the program sorts the keys it looks at |
| `LegionSampleSort` | 3 subregions, all arrays of 3 and 6 keys of 0..2 | the requirements order the tasks and allow no race, counts are exact, and the program implements `ParallelSort` where the blocks are equal |
| `MemMgr` | 2 threads, a buffer of 8 cells, requests of 1 and 2 cells, 5 calls; debug checks on and off | list, map and stack describe one partition of the buffer, no assertion fails but the one that reads outside the lock, the leak report is exact, the manager implements `Allocator`, every call returns |
| `BinQuery` | 2 to 5 processes, up to 12 points of 1 or 2 coordinates, once 48, up to 2 trees; all placements of 4 points and 3 queries on 3 processes; exact search with copies stopped at once, early and never; all points among themselves; trees of clusters with random and Ostrovsky seeds and the nearest, exact, one-range and many-ranges search | points are neither lost nor repeated, every iteration halves the spread of the loads, sides apart, answers exact for what the search promises, assertions hold, everyone returns |
| `FmmTree` | 3 processes with all ways to put six points on a few cells of a line of 16; 4 to 7 processes with points scattered over squares and cubes, periodic or not | points stay in their leaves, the tree is 2:1 balanced, the local essential tree is complete, every pair is counted once, values return, assertions hold, nothing waits for ever |
| `StarPUTail` | 2 tasks, 3 keys | violation: the program's verification fails |
| `LegionUneven` | 2 subregions, 3 keys | violation: the program's checker reports a mistake |
| `LegionChecker` | 2 subregions, 3 keys | violation: the checker passes an unsorted output |

Why these bounds are enough to be of use. The interesting numbers of workers are odd
and larger than two: three threads give an inner segment with two chosen boundaries
and a run without a neighbour; five give three rounds of merging and a result in the
other buffer. Three processes give an extra partner and a communicator of one beside
one of two; five give odd ranges at two levels; five to seven give incomplete hypercubes
with one, two and three missing corners. Arrays are as long as the boundary
cases need: empty, shorter than the number of workers, divisible and not divisible by
it. Equal keys come from a small range of keys; distinct ones, which the balance
properties need, from permutations up to what sorting a block forgets. `SampleScale`
(1000 in the code) is 5, so that some processes draw fewer keys than they have. `n` (10
splits per thread in the code) is 2 in `Omp`; the theorems hold for every `n`. In
`Exchanges` the counts decide lengths and whether a sparse message is sent, never who
talks to whom in the dense exchange, so few matrices suffice; one of them has a different
count in every place of a row and a column. Five calls of the memory manager are the
fewest with which a block is split, both halves are given back in either order and the
joined block is split again; the theorems have no such bound. In `BinQuery` the
parameters are chosen per input: a leaf of one, of two and of three processes, a query in
one leaf or in several, more neighbours asked for than a leaf has. In `FmmTree` the
number of coarsest cells per process (`nsrf`) is 0 to 2 where the code has at least 8,
and `AwayFromOrigin` leaves out the inputs of observation (a) below.

`BinQuery` is run without the deadlock check because the program really may stop: see
the leaves without queries and the leaves at different depths below. `Returns` says that
in all other cases it does not.

### Where the code and what it says differ

* `StarPUTail` – sample_sort.cpp:269 gives the last block `len % NUM_CPU` keys
  instead of `reg_blk_size + len % NUM_CPU`; if `NUM_CPU` does not divide `len`, keys
  are never looked at, and the verification at :536-539 fails.
* `LegionUneven` – legion/sample_sort.cc:704, :773 and :809 assume equal blocks,
  although :196-228 make uneven ones. `LegionSampleSort` is therefore run, and its
  counting properties stated, for lengths the number of subregions divides.
* `LegionChecker` – legion/sample_sort.cc:937-949: `prev_value` is never updated, so
  the checker compares everything with the first element.

Other observations made while modelling, each avoided by a named condition on the inputs or
stated as an exception of a property, not by the model:

pvfmm trees
* (a) `assert(i)` in `points2Octree` (mpi_tree.txx:173) fails when all points of a process
  lie in the first finest cell at the origin; the release build then keeps that octant
  twice. The commented-out assertion at :297 ("TODO: Check why this fails") is probably
  this case.
* (b) With fewer than 2·`maxNumPts` points on a process an octant at its border can stay
  coarser than `max_pts` allows. `PointsInLeaves` does not claim the bound for these.
* (c) `Balance21` (mpi_tree.txx:998) reads `new_mins[num_proc]` before it tests the index.
* (d) fmm_pts.cpp:139 counts values, not points, when a kernel has more than one per point.
* (e) With fewer points than processes the loop at mpi_tree.txx:59-63 does not end.

memory manager
* `Check()` does not look at the last node (mem_mgr.cpp:297); the header's checksum is one
  bit (:154); `free` reads `node_buff.size()` outside the lock while another thread may be
  growing the vector (:171): the assertion there may fail, and `AssertionsHold` exempts it.

rkdt
* `loadBalance_arbitraryN` does ceil(log2(processes)) + 2 iterations
  (repartition.cpp:1297), whatever the loads. Each at least halves the spread
  (`SpreadHalved`), and for a number of processes that is no power of two often not more:
  with 0, 0 and 48 points on three processes one is left with 18 and two with 15. An input
  of `BinQuery` is this one: sides, answers and returns hold with uneven loads too.
* In a leaf of several processes those without queries do not join the all-reduce of the
  ring (binQuery.cpp:1586): the others wait for ever. `kneighbors` is never set there (:1605).
* Leaves at different depths, or a single process, break the collective calls of
  gatherTree.cpp:57 and :62.
* A median of 0 is divided by (binTree.cpp:801, stTree.cpp:426, parTree.cpp:420).
* `queryK` repeats an id when two neighbours before the last place are equally far
  (binQuery.cpp:436-453), reads `homeneighbors[0]` on a process without queries, and
  asserts when there are fewer points than neighbours asked for.
* `single_merge` leaves leftovers behind the true neighbours (stTreeSearch.cpp:55);
  stTree.cpp:709 takes a leaf's number on its level for its place among all leaves;
  srkdt.cpp:24-34 and :97 leave empty entries, or none, when the leaves are uneven.
* Homes of queries are computed in two ways, `id - rank*ppn` and `home_rank`, which differ
  for the ids left over by the division; `ppn` is 0 with fewer queries than processes.
* A process without a query in a tree of clusters ends in `assert(blocksize>0)`;
  `ostrovskySeeds` needs twice as many different points as clusters; `groupDistribute`'s
  count wraps modulo the points per group; `work_partition` asserts that both groups are
  non-empty.
* The metric and old trees compare strictly, so that a search with a given range misses
  points at exactly that range across a median.

sorts
* HyperQuickSort draws no splitter with more than 1000 processes (parUtils.txx:403) and
  counts bytes in an `int` (:459). StarPU: :302 passes a pointer to main's loop variable,
  :334 writes past the end, :32 compares by a difference that overflows. Galois: :257
  takes the ceiling of an integer quotient.

## 5. Fairness

Weak fairness throughout, of whole steps of an actor and never of a choice of data.
`omp parallel for` and `Galois::do_all` run every iteration before they return; a
StarPU worker gets to every submitted task and Legion runs every task that may run;
MPI guarantees progress: a posted receive with a matching send completes, and so does
a collective call that all members have reached. A process, thread or main program that
can go on does.

* `OmpMergeSort`, `GaloisSampleSort`, `LegionSampleSort`, `Exchanges` and `KnnSearch`: of
  the whole next-state relation. Every behaviour is finite and no actor can be overtaken
  for ever, so nothing more is needed.
* `HyperQuickSort`: of every process and every collective call. `StarPUSampleSort`: of the
  main thread and of the tasks.
* `MemMgr`: of every thread while it is in a call; a thread need never make a call.
* `FmmTree`: none. Its runs check safety and that no reachable state is stuck.

No specification assumes that a message is buffered where the run says `Rendezvous`.
Deadlock is checked in every run but `BinQuery`; each module has a stuttering action
(`Returned`, `Finished`, `Ended`, ...) that is enabled only at the regular end.

## 6. Proofs

All theorems are about arbitrary values of the constants; what is assumed of them is a
definition named `ParametersAssumption`, `ParametersOK` or similar, says what callers see to
(sorted inputs, at least one thread, counts that are numbers), and is an `ASSUME` of some
run. Each proof is that of an inductive invariant, which was first checked by TLC.

### OmpMergeProofs

For every team size `p`, number of splits `n` and set of pairs of sorted arrays:

* `TypeCorrect` – `TypeOK`: no index leaves its array, no boundary leaves `0..N1` or
  `0..N2`;
* `SegmentsNeverCross` – `SegmentsTile`: the boundaries never cross;
* `MergesStably` – `MergedStably`: on return C is the stable merge of A and B, each element
  once; this is what `OmpMergeSort` and `HyperQuickSort` take a merge to be;
* `SegmentsBalanced` – `BalancedSegments`: without equal keys, every boundary is within one
  split distance of A and one of B of its thread's equal share.

`SegmentsTile` is not inductive: it speaks of the merge loop, and what makes it true
happens in the two loops before. `IInv` adds to `TypeOK`: which lengths and iterations
go with which loop (`LoopOK`), that the splits of iterations that have run are the ones
the inputs determine (`Recorded`), and that the boundaries of iterations that have run
are those of the split `ClosestSplit` chooses (`Picked`). While a loop runs, `Recorded`
and `Picked` speak of the iterations that are not in `todo`, since iterations run in any
order; a step of one iteration does not disturb what another has established.

That chosen boundaries do not cross is a fact about arithmetic: in order of `i` the
wanted sizes `i*(N1+N2)/p` increase; the first split at or past a wanted size is
monotone in it, in A's splits and in B's (`CandidateOfA`, `CandidateOfB`); the choice
between the two is not, and could take A's split for one boundary and a B split with
a smaller key for the next. `ChoicesInOrder` excludes it: that B split would have to be
B's last one and short even of the first wanted size (`OrderWithinB`, `OrderAcross`).
Beyond it, two neighbouring splits of A are less than `(N1+N2)/(p*n) + 1` positions
apart (`GapInA`), which is less than what separates the two wanted sizes, but for
rounding (`ReqSizeStep`, `NoRoomForGap`): A has a split nearer to the second wanted size,
and B's would not have been chosen. The other case is symmetric (`GapInB`).
Monotonicity of `lower_bound`
(`LowerBoundMonotone`) carries the order of keys over to boundaries in both arrays.

For `MergedStably` the invariant is extended (`OutInv`) by what is in C: the elements of every
segment merged so far are at their *rank*, the number of elements that go before them, plus
one; or, if one array is empty, the slices that have run are copied. Everything below a boundary
goes before everything past it (`BoundaryApart`), so the place an iteration computes from its own
segment and offset is the rank (`PlaceIsRank`), although it sees no other segment. Ranks are
cardinalities: they follow the order (`RankOrders`), and since an injection between finite sets
of the same size is onto, every position of C is taken (`EveryPlaceTaken`).

For `BalancedSegments`: of a split of A and one of B, the one with the smaller key has at most,
and the other more than, as many elements before it as the two have in their own arrays
(`TwoSplits`). Between the splits of A around a wanted size A has no more elements than a split
distance, and so has B (`AroundInA`, `AroundInB`); hence one of the two candidates is near
(`OneCandidateNear`), and the nearer one is taken (`ChoiceNear`). The bound is that of the
boundaries; the length of a segment is at most its share and twice that, plus one.

### OmpMergeSortProofs

For every team size and every array of natural numbers:

* `RunsAlwaysReady` – `RunsReady`: whatever a round is still to merge is in order and
  written, which is what `merge` demands;
* `SortsWhenItReturns` – the steps are those of `ParallelSort`: when it returns, the array
  is in order and has each key as often as the one it was given.

In a round, the source has sorted runs of `j` parts from part `i` on (`RunsLeft`), and
the target has sorted runs of `2j` parts before part `i`, with the keys the source has
there (`RunsMade`); together with "the source has the keys given" this is kept by
`MergePair` and becomes the same statement for `2j` when the buffers change roles. Keys
are compared by how often each value occurs in a stretch of a buffer, a cardinality, so
that stretches can be added up (`Count` of adjacent stretches) without induction. The part
boundaries `Cut` increase because `(id * n) \div q` is monotone; a lone last run is the
case in which `i + j` passes `p`.

The run `Omp` checks `RunsReady` beside a call of `merge`, in `OmpUtils`, which has its own
instance of `OmpMergeSort`. `RunsReadyBesideMerge`, at the end of `OmpMergeProofs`, carries the
theorem over to it: the two instances are the same, operator by operator (`SameNext`).

### HyperQuickSortProofs

For every number of processes, initial blocks, splitters that can be drawn, and every
interleaving of the exchange:

* `CommunicatorsAlwaysAgree` – the size and rank a process computes for itself are those
  of the communicator `MPI_Comm_split` has made;
* `MessagesAlwaysMatch` – every receive gets the message it waits for, of the announced
  length, from its own communicator;
* `HalvesStaySeparated` – keys of a lower communicator stay below those of a higher one,
  those under way included;
* `KeysAlwaysConserved` – each key is, at every moment, held or under way as often as in the
  input, and at the start of a round `totSize` is the number of keys in the communicator.

`IInv` has these parts: communicators are runs of neighbouring ranks whose members all
know them (`Groups`, `Numbered`); program counters and values are in step within a
communicator (`Places`, `Values`); the numbers of messages a process has sent to and taken from
another decide what is in the channel between the two (`Traffic`); blocks are sorted; what
has been received or merged in a round is on the own side of the split key (`Sides`), which
is what makes `Separated` hold again when the communicator is split.

`KeysConserved` needs a second invariant, `Balance`, kept together with the first. It counts:
`Load(c, K)` is how many of the keys `K` the processes `c` hold and have under way between each
other. For all processes and one key it is what the input has (`Kept`). For a communicator, it
says what the processes' own numbers count at every step of a round, not only at its start
(`Counted`): `totSize` is the load of the communicator until a process merges, then that of the
half it goes to; `disp` is the load of the keys below the split key from its choice to the
split. Only for that is it that members are in a round together (`Abreast`), and that the
extra partner's block, which `Merge` leaves out if no size was announced, is empty then
(`Extras`). A step of the exchange moves a block from what one process holds to a channel and a
block from a channel to what it holds; every load that sees one end of the channel sees the
other (`Closed`, `ExchangeSteady`), so loads stay as they are. At the split nothing is under way
and all keys are on their side, so `disp` is the load of the lower half (`HalvesCount`).

A load is the size of a disjoint union, `Together`; that it changes by what its parts do
(`TogetherMoves`) or is cut in two (`TogetherSplits`) are facts about cardinalities.

### StarPUSampleSortProofs, LegionSampleSortProofs, GaloisSampleSortProofs

* `PhasesNeverOverlap` – for every number of tasks and every array, tasks that run are of
  the phase the main thread is in, and none runs while it sorts samples, places buckets or is
  done. The invariant adds: a task whose handle is unregistered has ended.
* `BucketsAlwaysBalanced` – for every number of tasks, every array and every rounding of
  the samples' places: of distinct keys in blocks of equal size, no bucket gets as many as two
  blocks. `BalanceInv` adds to the phases what each leaves behind: sorted blocks, their samples,
  bounds that lie evenly among the sorted samples, buckets filled by the bounds. The rest is
  counting, twice. How many samples are at or below a bound is known, because samples are
  distinct (`SamplesApart`, `OneAtBound`). In a block, samples are a fixed distance apart but for
  rounding, so the number of them up to a key bounds the number of keys up to it from
  both sides (`FirstIs`, `KeysBelow`). Added up over the blocks (`SumsCompare`) this bounds the
  keys between two bounds, with a second count for blocks with fewer keys than there are
  tasks (`BucketBound`).
* `RequirementsOrder` – for every number of subregions and every input, the declared region
  requirements order the tasks: bounds after all samples, buckets after all blocks, the
  checker last. The invariant says that the tasks that precede an ended one have ended, and
  the theorem reads the order off the requirements.
* `CountsAlwaysExact` – for every number of subregions and every input they divide, once
  the blocks are divided `qsort_bucket_task` counts exactly the keys of each block
  between the bounds of its bucket. `DataInv` adds to the order of the tasks what each leaves
  behind: a block is sorted from the end of its task on, the bounds are from the end of
  `one_task` on, and `split_index` is the division of the block as it is now – which needs the
  order, because no block may be sorted again or bound chosen after a division. From there,
  the scan of a block never goes back (`BucketsAscend`); in a sorted block with sorted bounds it
  is at the bucket whose bounds the key lies between (`BucketOfKey`); so the keys of a bucket
  are consecutive and run to the index of the next bucket with keys (`CountedInBlock`).
* `NeverRaces` – for every number of subregions and every input they divide, tasks that the
  requirements let run at the same time never race. The requirements order all pairs that
  conflict but the bucket tasks, which all write the output they declare to read only; their
  parts of it lie one after the other (`BucketsApart`).
* `BucketsAlwaysTile` – of the Galois program, for every number of threads asked for and
  granted, every input and whatever unwritten memory holds (as long as `compare`, which
  subtracts, does not overflow). The invariant follows the phases: blocks are cut, blocks are
  sorted, the bounds rise except for the last, the tables describe the blocks whose iteration
  has run. Rising bounds leave a key one bucket (`DealtIs`), and in a sorted block the keys
  of one bucket are next to each other (`DealtTogether`). `QsortIs` proves that sorting by
  places sorts: the places of the elements are all different, and so they are all places.

Sums of sizes in the Legion and Galois modules, as in `HyperQuickSort`, are stated as the size
of a disjoint union, whose laws the library's theorems on cardinalities give; those of a fold
over a set are not to be had.

### ExchangesProofs

For every number of processes, of sparse exchanges and all counts, with buffered sends or
rendezvous:

* `MessagesAlwaysMatch` – `AllMatch`: every message of the dense exchange is the header, the
  length or the data its receiver waits for, and a sparse send and the receive it is matched
  with are of the same exchange;
* `SegmentsAlwaysAddressed` – `SegmentsAddressed`: in the dense exchange, what a process
  holds for a destination is for it, and nothing is held twice;
* `DenseDelivers`, `SparseDelivers` – the safety part of `AllDeliver`: every step of the dense
  exchange, and of the sparse ones, is a step of `Alltoallv` or none (`Alltoallv!Steps`). Who
  returns, returns once and with exactly what every process has sent it.

The invariant of the dense exchange, `DenseInv`, has three parts: the ranges are ones that
the halving of all processes leads to (`Places`); what each process has in its buffers is
what its label says (`Own`); and so is what is between any two processes, for every range
they may be partners in (`ChannelOK`).

What a process holds is described by whose words it is. In the round of a range a process
sends all it has for the other half to one partner there. Ranges are the nodes of a binary
tree: two of them are apart, or one is within a half of the other (`RangesNest`), and one
chain of halves leads to each (`OneChain`). So the blocks of a sender are, in every range,
with one process at most (`Carried`, `CarriedOnce`): the buffers that `Rearrange` joins have
no sender in common, and no word.

How many messages the two ends of a channel have sent and taken is a function of their
labels (`Sent`, `Taken`); the difference is what is in the channel, and `Parcel` says what
each of those messages is (`Channel`). This has to hold for every range, because a process goes
on to its half while messages of the range before are still to be received: what it owes there
is described beside what it does now.

That nothing is lost on the way needs the converse. Every sender's blocks are with some
process of each range (`SomeoneCarries`); `Bringers` are the senders whose blocks a process
brings into a range, and every segment it holds is one block of each of them, header first
(`Full`). Halving a range joins the bringers of a process with those of its partners
(`BringersNext`), so in a range of one process they are all the processes (`AtTheEnd`). Since no
word comes twice there are then exactly P blocks; the walk of `Deliver` from header to header
finds each where it begins (`PointersAre`), and it is copied to the place of its sender, which
is apart from all other places (`PlacesOfSenders`, `AllWritten`). The counts do not change, and
the proof keeps them in a constant `C`, so that what holds of a buffer need not be proved again
when a step changes something else.

A buffer is a header and segments, and its place for a destination is a sum of counts. That
cutting, sending and joining buffers moves whole segments (`CutIs`, `JoinIs`) is a fact about
such sums and about concatenation, that is, about recursion. It is proved without an induction
theorem: two functions that satisfy the same recursion are equal, and one that bounds another
does so everywhere, because there is no least number at which they do not (`LeastNatural`).

Of the sparse exchanges, `SparseInv` says what each process has posted by now: sends and
receives list exactly the pairs with something to send, of the exchanges it has entered, in
order (`Enumerates`). Two such lists agree wherever both are long enough
(`EnumerationsAgree`), and MPI matches the n-th with the n-th. So the last receive a process
has posted when it waits is matched by the send of that exchange (`GotIs`), and until it waits
it has nothing from it (`Unreceived`).

### MemMgrProofs

For every buffer, number of threads, set of sizes asked for and number of calls, with the
debug checks and without:

* `BlocksDisjoint` – the manager's steps are those of `Allocator`: no cell is handed out twice;
* `ListStaysSound` – `ListSound`: the nodes form a doubly linked list that covers the buffer,
  no two free blocks are neighbours, and the map holds exactly the free blocks with their
  sizes;
* `AssertionsAlwaysHold` – `AssertionsHold`;
* `LeaksAlwaysReported` – `LeaksReported`: the destructor complains exactly when a block is
  still held.

The invariant speaks of the list only locally (each node and its neighbours), because what
follows a chain of links needs induction; that any two nodes do not overlap is therefore a
part of it and not a consequence. `Complete` says that every free block is in the map, that
none neighbours another and that the list spans the buffer; `NoneLost` that every used block
has an owner, a thread between its steps or a caller; `Clean` that in the debug build the
cells nobody holds are refilled. The exactness of the leak report is a matter of
cardinality: the stack of unused nodes and the one node that spans the buffer are all nodes.

## 7. What is only model-checked, and why

* Liveness (`SortsInPlace`'s and the other refinements' eventual return, `AllDeliver`,
  `CallsReturn`, `Returns`): fairness and ENABLED are out of the prover's reach. What is proved
  is the safety part.
* The sorting of whole results in `SortsGlobally`, `SortsAll` and `SortsKept`: what a fold over a set, or a recursive function over data, computes for
  every input needs induction over data. (Sums and joins of sequences could be reasoned about by
  least counterexamples, and so could the copies of `Deliver`, see `ExchangesProofs`; every one
  of them costs a proof of its own.)
* Every property of `KnnSearch` and `FmmTree`. The linear octrees are RECURSIVE operators, which
  the prover cannot use; the trees within a process and k-means, on which the answers rest, are
  recursive functions over data. `PointsConserved`, `SidesSplit` and `SpreadHalved` need no
  induction over data, but an invariant that says for every phase of every search which
  channels are empty; it has not been worked out.

## 8. What is not modelled

* `omp_par::scan` and `reduce`: prefix sums are taken for granted.
* HyperQuickSort: weights in `partitionW` (it passes none); more than 1000 processes; sizes of
  2 GB and more. `partitionW` takes its exchange as one step, justified by `Exchanges`.
* Scatter functions: the branch of `ScatterReverse` that repartitions the index, which no
  caller takes; data of more than one dimension.
* StarPU: the write of one element past `g_splitters` (:334), and the task argument
  that points to main's loop variable (:302) and that the tasks concerned do not use. The
  variant with `SYNC`, whose define is commented out, has fewer behaviours.
* Galois: keys beyond `n * numThreads` are never looked at; `SortsKept` is about the
  others.
* Legion: the copy of the input file into a region, mapping, and `-b 1`, which makes the
  splitter regions empty and asks for blocks of size 0.
* pvfmm: `max_depth` is `MAX_DEPTH`; one OpenMP thread per process; at least two processes and
  as many points; sources and targets are the same points; the lists are computed from the tree
  when the downward pass starts; periodic tiling beyond the copies next to the domain, symmetry
  classes, memory layout and all arithmetic; multipole order at least 2. The example calls
  `InitFMM_Tree(false)`, so `RefineTree` and `CoarsenTree` are not run;
  `ConstructLET_Hypercube` is not called.
* rkdt: rotations (a random direction of `srkdt` is any coordinate), early termination by hit
  rate, sampled and supercharged searches, splitters that group by cluster in `binTree`, the
  two-dimensional grid of `direct_knn`, the copy of parUtils.txx that nothing uses, functions of
  clustering.cpp that nothing calls; `parTree`, `metricTree`, `oldtree`, `forest`, LSH.
* gsknn, kernels, translation matrices, Chebyshev trees, vectors, the profiler, the data
  generator, command lines, files, timing and printing.
