------------------------------- MODULE FmmTree -------------------------------
(***************************************************************************)
(* The distributed tree of pvfmm, through an evaluation of the example     *)
(* program: the tree is built from the points (Initialize), 2:1 balanced   *)
(* and redistributed (Balance21), completed on every process by the nodes  *)
(* of others that it uses (ConstructLET), the multipole expansions of the  *)
(* nodes that several processes share are summed up (MultipoleReduceBcast) *)
(* and sent to their users, and the values at the points go back to where  *)
(* the points came from (ScatterReverse).                                  *)
(*                                                                         *)
(* The steps up to the direct exchange of ConstructLET are collective; the *)
(* rounds of its broadcast and of the reduction interleave.  An expansion  *)
(* is the number of times that it counts each process's points: one, in    *)
(* the end, for every process with points in the node.                     *)
(***************************************************************************)
EXTENDS InteracList

CONSTANT Inputs      \* the values of given

VARIABLES
  stage,      \* what comes next
  octree,     \* the linear octree last computed (lin_oct, out)
  tree,       \* each process's nodes, and those that are not ghosts
  pts,        \* the points in its leaves: <<position, value, scatter index>>
  mins,       \* the first leaf of every process, as last gathered
  mult,       \* the expansions of the nodes it has data of
  shift,      \* pid_shift or bit_mask of a process in the rounds
  shrd,       \* shrd_data of the broadcast: nodes to pass on
  path,       \* send_nodes of the reduction
  box,        \* messages of the rounds, by sender and shift
  potential,  \* the contributions to the points of the leaves, after the downward pass
  returned    \* the values back at the points' origin

vars == <<given, stage, octree, tree, pts, mins, mult, shift, shrd, path, box, potential, returned>>

OwnLeaves(t) == Ordered({m \in t.own : IsLeaf(t, m)})
GetMins(trees) == [r \in Procs |-> OwnLeaves(trees[r])[1]]

\* a tree with these leaves of its own and with no other nodes than it takes
TreeOver(leaves) ==
  LET inner == UNION {ProperAncestors(m) : m \in leaves}
  IN  [nodes |-> {Root} \union UNION {ChildSet(m) : m \in inner}, own |-> inner \union leaves]

Within(point, m) == m[1] <= point[1] /\ point[1] < End(m)
PointsUnder(points, m) == SelectSeq(points, LAMBDA p : Within(p, m))

\* the points of a process moved to the leaves of a tree that is finer
PushedDown(points, leaves) ==
  [m \in leaves |->
     LET at == {l \in DOMAIN points : l = m \/ isAncestor(l, m)}
     IN  IF at = {} THEN <<>> ELSE PointsUnder(points[CHOOSE l \in at : TRUE], m)]

----------------------------------------------------------------------------
(* MPI_Tree: Initialize, Balance21 *)

Init ==
  /\ given \in Inputs
  /\ stage = "points"
  /\ octree = [r \in Procs |-> <<>>]
  /\ tree = [r \in Procs |-> [nodes |-> {Root}, own |-> {}]]
  /\ pts = [r \in Procs |-> <<>>]
  /\ mins = [r \in Procs |-> Root]
  /\ mult = [r \in Procs |-> <<>>]
  /\ shift = [r \in Procs |-> 1]
  /\ shrd = [r \in Procs |-> <<>>]
  /\ path = [r \in Procs |-> <<>>]
  /\ box = <<>>
  /\ potential = [r \in Procs |-> <<>>]
  /\ potential = [r \in Procs |-> <<>>]
  /\ returned = [r \in Procs |-> <<>>]

Points2Octree ==
  /\ stage = "points"
  /\ octree' = points2Octree([r \in Procs |-> p2oLocal(r)])
  /\ stage' = "octree"
  /\ UNCHANGED <<given, tree, pts, mins, mult, shift, shrd, path, box, potential, returned>>

\* The points go to the process with their octant, together with values (here
\* the global index of the point), and the octants become a tree.
InitTree ==
  /\ stage = "octree"
  /\ LET index == SortScatterIndex(pt_mid, [r \in Procs |-> octree[r][1]])
         first == glb_scan(Sizes(pt_mid))
         moved == ScatterForward([r \in Procs |-> [i \in 1..Len(pt_mid[r]) |->
                                    <<pt_mid[r][i][1], first[r] + i - 1>>]], index)
         points == [r \in Procs |-> [i \in 1..Len(index[r]) |-> moved[r][i] \o <<index[r][i]>>]]
     IN  pts' = [r \in Procs |-> [m \in ToSet(octree[r]) |-> PointsUnder(points[r], m)]]
  /\ tree' = [r \in Procs |-> TreeOver(ToSet(octree[r]))]
  /\ stage' = "tree"
  /\ UNCHANGED <<given, octree, mins, mult, shift, shrd, path, box, potential, returned>>

BalanceOctree ==
  /\ stage = "tree"
  /\ octree' = balanceOctree([r \in Procs |-> OwnLeaves(tree[r])])
  /\ mins' = GetMins(tree)
  /\ stage' = "balanced"
  /\ UNCHANGED <<given, tree, pts, mult, shift, shrd, path, box, potential, returned>>

\* FindNode stops at a node that is not a ghost
Reached(t, k) == \E m \in t.own : m = k \/ (IsLeaf(t, m) /\ isAncestor(m, k))

\* the new mins in a process's range, up to the first it does not reach
MinsInRange(t, my_min, new_mins) ==
  {new_mins[i] : i \in {j \in Procs :
     /\ ~Less(new_mins[j], my_min)
     /\ \A k \in 0..j : Less(new_mins[k], my_min) \/ Reached(t, new_mins[k])}}

\* mutated: the trees are left as they are
SubdividedToNone(t, keys) == t

\* FindNode(k, true) for every k: own leaves subdivided down to k
SubdividedTo(t, keys) ==
  LET leaves == {m \in t.own : IsLeaf(t, m)}
      inner == {a \in UNION {ProperAncestors(k) : k \in keys} :
                  \E l \in leaves : l = a \/ isAncestor(l, a)}
      new == UNION {ChildSet(a) : a \in inner}
  IN  [nodes |-> t.nodes \union new, own |-> t.own \union new]

RefineToMins ==
  /\ stage = "balanced"
  /\ LET new_mins == [r \in Procs |-> octree[r][1]]
         refined == [r \in Procs |->
                       SubdividedTo(tree[r], MinsInRange(tree[r], mins[r], new_mins))]
     IN  /\ tree' = refined
         /\ pts' = [r \in Procs |-> PushedDown(pts[r], ToSet(OwnLeaves(refined[r])))]
  /\ stage' = "refined"
  /\ UNCHANGED <<given, octree, mins, mult, shift, shrd, path, box, potential, returned>>

\* Every leaf, with its points, goes to the last process whose new min is not
\* after it; leaves before the first new min go nowhere.
RedistNodes ==
  /\ stage = "refined"
  /\ LET to(m) == {p \in Procs : ~Less(m, octree[p][1])}
         from(r) == {q \in Procs : \E m \in DOMAIN pts[q] : to(m) # {} /\ Max(to(m)) = r}
         out(r) == UNION {{m \in DOMAIN pts[q] : to(m) # {} /\ Max(to(m)) = r} : q \in from(r)}
         sent == [r \in Procs |-> out(r)]
     IN  /\ tree' = [r \in Procs |-> TreeOver(sent[r])]
         /\ pts' = [r \in Procs |-> [m \in sent[r] |->
                                       pts[CHOOSE q \in Procs : m \in DOMAIN pts[q]][m]]]
         /\ mins' = [r \in Procs |-> IF sent[r] = {} THEN Root
                                     ELSE Ordered(sent[r])[1]]
  /\ stage' = "redistributed"
  /\ UNCHANGED <<given, octree, mult, shift, shrd, path, box, potential, returned>>

\* the leaves subdivided into the octants of the balanced tree
LocalSubdivide ==
  /\ stage = "redistributed"
  /\ tree' = [r \in Procs |-> TreeOver(ToSet(octree[r]))]
  /\ pts' = [r \in Procs |-> PushedDown(pts[r], ToSet(octree[r]))]
  /\ mult' = [r \in Procs |-> [m \in TreeOver(ToSet(octree[r])).own |-> [p \in Procs |-> 0]]]
  /\ stage' = "let1"
  /\ UNCHANGED <<given, octree, mins, shift, shrd, path, box, potential, returned>>

----------------------------------------------------------------------------
(* ConstructLET_Sparse *)

\* whoever uses node c is in or below these: c's parent and its neighbours
usr_mid(c) == NbrList(c, c[2] - 1)

\* the process of a usr_mid: the last whose min is not after its first cell
UsrPid(min, u) == Max({p \in Procs : ~Less(getDFD(u), min[p])})
UsrPids(min, c) == {UsrPid(min, u) : u \in usr_mid(c)}

\* nodes that others use; another process begins inside of an own one's users
SharedNodes(r, t, min) ==
  {c \in t.own :
     /\ c[2] > 0
     /\ ~Less(getDFD(c), min[r])
     /\ \E u \in usr_mid(c) : \/ UsrPid(min, u) # r
                              \/ r < np-1 /\ Less(getDFD(min[r+1]), NextId(u))}

\* Received nodes put into the tree, as ghosts where they are new; the data
\* of a node that is no ghost is not used.
Unpacked(t, received) ==
  LET above == UNION {ProperAncestors(c) : c \in DOMAIN received}
  IN  [nodes |-> t.nodes \union UNION {ChildSet(m) : m \in above},
       own |-> t.own \ {m \in above : m \in t.own /\ IsLeaf(t, m)}]
UnpackedData(t, data, received) ==
  LET ghosts == DOMAIN received \ Unpacked(t, received).own
  IN  [c \in DOMAIN data \union ghosts |-> IF c \in ghosts THEN received[c] ELSE data[c]]

\* the ancestors of the next process's first leaf that begin before it
shrd_mid(r, min) ==
  IF r = np-1 THEN {}
  ELSE {Root} \union {m \in ProperAncestors(min[r+1]) : Less(getDFD(m), min[r+1])}

\* the one of them that is among the users of c; only one is at that level
Border(r, min, c) == {s \in shrd_mid(r, min) : s[2] = c[2] - 1}
UsedAtBorder(r, min, c) == Border(r, min, c) \intersect usr_mid(c)

\* what is kept to be passed on: at first, and of what a round brings
KeptFirst(r, min, c) == \E s \in UsedAtBorder(r, min, c) : ~Less(getDFD(s), min[r])

\* mutated: nodes a round brings are passed on only by the process where the
\* user node begins
KeptLaterFirst(r, min, c, send_pid) == KeptFirst(r, min, c)

KeptLater(r, min, c, send_pid) ==
  \E s \in UsedAtBorder(r, min, c) :
     /\ isAncestor(s, min[r])
     /\ Less(getDFD(min[send_pid]), getDFD(NextId(s)))

Only(data, S) == [c \in S |-> data[c]]

\* the message of a round: what reaches into send_pid's part, without what it
\* got directly
SendData(r, min, data, send_pid) ==
  Only(data, {c \in DOMAIN data :
                /\ \E s \in Border(r, min, c) :
                     Less(getDFD(min[send_pid]), getDFD(NextId(s)))
                /\ send_pid \notin UsrPids(min, c)})

\* the direct exchange, and the first round begun
DirectExchange(now, next) ==
  /\ stage = now
  /\ LET min == GetMins(tree)
         shared == [r \in Procs |-> SharedNodes(r, tree[r], min)]
         sentTo(q, r) == {c \in shared[q] : r \in UsrPids(min, c)}
         received(r) ==
           LET from(c) == CHOOSE q \in Procs \ {r} : c \in sentTo(q, r)
           IN  [c \in UNION {sentTo(q, r) : q \in Procs \ {r}} |-> mult[from(c)][c]]
         recv == [r \in Procs |-> received(r)]
         kept == [r \in Procs |->
                    LET d == recv[r] @@ Only(mult[r], shared[r])
                    IN  Only(d, {c \in DOMAIN d : KeptFirst(r, min, c)})]
     IN  /\ tree' = [r \in Procs |-> Unpacked(tree[r], recv[r])]
         /\ mult' = [r \in Procs |-> UnpackedData(tree[r], mult[r], recv[r])]
         /\ mins' = min
         /\ shrd' = kept
         /\ box' = [m \in {<<r, 1>> : r \in 0..np-2} |->
                      SendData(m[1], min, kept[m[1]], m[1] + 1)]
         /\ shift' = [r \in Procs |-> 1]
  /\ stage' = next
  /\ UNCHANGED <<given, octree, pts, path, potential, returned>>

\* A round of the broadcast at process r: the nodes from the process shift
\* before it are unpacked, those that reach further are kept, and the message
\* of the next round goes out.
BroadcastRound(r) ==
  /\ stage \in {"broadcast1", "broadcast2"}
  /\ shift[r] < np
  /\ r >= shift[r] => <<r - shift[r], shift[r]>> \in DOMAIN box
  /\ LET from == <<r - shift[r], shift[r]>>
         received == IF r >= shift[r] THEN box[from] ELSE <<>>
         send_pid == r + 2 * shift[r]
         kept == {c \in DOMAIN received : send_pid < np /\ KeptLater(r, mins, c, send_pid)}
         data == Only(received, kept) @@ shrd[r]
         rest == Only(box, DOMAIN box \ {from})
     IN  /\ tree' = [tree EXCEPT ![r] = Unpacked(@, received)]
         /\ mult' = [mult EXCEPT ![r] = UnpackedData(tree[r], @, received)]
         /\ shrd' = [shrd EXCEPT ![r] = data]
         /\ box' = IF send_pid < np
                   THEN rest @@ (<<r, 2 * shift[r]>> :> SendData(r, mins, data, send_pid))
                   ELSE rest
  /\ shift' = [shift EXCEPT ![r] = 2 * @]
  /\ UNCHANGED <<given, stage, octree, pts, mins, path, potential, returned>>

BroadcastDone(now, next) ==
  /\ stage = now
  /\ \A r \in Procs : shift[r] >= np
  /\ shrd' = [r \in Procs |-> <<>>]
  /\ stage' = next
  /\ UNCHANGED <<given, octree, tree, pts, mins, mult, shift, path, box, potential, returned>>

----------------------------------------------------------------------------
(* FMM_Tree: UpwardPass, MultipoleReduceBcast, DownwardPass, the values returned *)

Unit(r) == [p \in Procs |-> IF p = r THEN 1 ELSE 0]
Plus(a, b) == [p \in Procs |-> a[p] + b[p]]

\* the nodes from the root to m
PathTo(m) == [i \in 1..m[2]+1 |-> [mid |-> getAncestor(m, i-1), own |-> TRUE, sum |-> <<>>]]

\* an entry of send_nodes: a node of the tree, or a temporary one with its sum
Expansion(r, e, data) == IF e.own THEN data[r][e.mid] ELSE e.sum
PackMultipole(r, nodes, data) ==
  [s \in {0, 1} |-> [i \in 1..Len(nodes[s]) |->
                       [mid |-> nodes[s][i].mid, sum |-> Expansion(r, nodes[s][i], data)]]]

\* Every own node gets the expansion of the own leaves below it; the paths to
\* the first and to the last leaf are those that other processes share.
UpwardPass ==
  /\ stage = "upward"
  /\ LET data == [r \in Procs |-> [m \in DOMAIN mult[r] |->
                    IF m \in tree[r].own THEN Unit(r) ELSE mult[r][m]]]
         ends == [r \in Procs |->
                    LET leaves == OwnLeaves(tree[r])
                    IN  [s \in {0, 1} |-> PathTo(leaves[IF s = 0 THEN 1 ELSE Len(leaves)])]]
     IN  /\ mult' = data
         /\ path' = ends
         /\ box' = [m \in {<<r, 1>> : r \in Procs} |-> PackMultipole(m[1], ends[m[1]], data)]
  /\ mins' = GetMins(tree)
  /\ shift' = [r \in Procs |-> 1]
  /\ stage' = "reduce"
  /\ UNCHANGED <<given, octree, tree, pts, shrd, potential, returned>>

Bit(r, bit) == (r \div bit) % 2
Partner(r, bit) == IF Bit(r, bit) = 0 THEN r + bit ELSE r - bit

\* mutated: no broadcast in incomplete hypercubes
OriginPartner(r, bit) == IF Partner(r, bit) < np THEN Partner(r, bit) ELSE np

\* Whose message process r unpacks: its partner's; where the other half of
\* the hypercube is incomplete, what it is sent in a broadcast in its half by
\* a process that has a partner.  np: nobody's.
Origin(r, bit) ==
  LET p0_start == np - (np % (2 * bit))
      p0_end == np - (np % bit)
      rest == np - p0_end
      \* the place in the half of the process it has its message from
      from[k \in 0..bit-1] ==
        LET steps == {b \in {1, 2, 4, 8} : b < bit /\ b <= k /\ k < 2 * b /\ 2 * b > rest}
        IN  IF steps = {} THEN k ELSE from[k - Max(steps)]
      q == Partner(p0_start + from[r - p0_start], bit)
  IN  IF r >= p0_start /\ rest > 0 /\ r < p0_end
      THEN IF q < np THEN q ELSE np
      ELSE OriginPartner(r, bit)

SamePrefix(a, b) ==
  Max({0} \union {i \in 1..Min({Len(a), Len(b)}) : \A j \in 1..i : a[j].mid = b[j].mid})

\* The message of the other half is merged into the side that faces it: the
\* sums of the nodes both have are added up, and that side becomes the far
\* side of the other half.
Merged(r, nodes, data, msg, merge_indx) ==
  LET near == msg[1 - merge_indx]
      far == msg[merge_indx]
      side == nodes[merge_indx]
      n == SamePrefix(near, side)
      added == {side[i].mid : i \in {j \in 1..n : side[j].own}}
      sums == [i \in 1..Len(side) |->
                 IF i <= n /\ ~side[i].own
                 THEN [side[i] EXCEPT !.sum = Plus(@, near[i].sum)] ELSE side[i]]
      kept == SamePrefix(far, side)
      next == [i \in 1..Len(far) |->
                 IF i <= kept THEN sums[i]
                 ELSE [mid |-> far[i].mid, own |-> FALSE, sum |-> far[i].sum]]
  IN  [path |-> [s \in {0, 1} |-> IF s = merge_indx THEN next ELSE nodes[s]],
       data |-> [m \in DOMAIN data |->
                   IF m \in added
                   THEN Plus(data[m], near[CHOOSE i \in 1..n : near[i].mid = m].sum)
                   ELSE data[m]]]

\* a round of the hypercube at process r, and the message of the next one
ReduceRound(r) ==
  /\ stage = "reduce"
  /\ shift[r] < np
  /\ LET bit == shift[r]
         q == Origin(r, bit)
         merged == IF q = np THEN [path |-> path[r], data |-> mult[r]]
                   ELSE Merged(r, path[r], mult[r], box[<<q, bit>>], 1 - Bit(r, bit))
         data == [mult EXCEPT ![r] = merged.data]
     IN  /\ q < np => <<q, bit>> \in DOMAIN box
         /\ path' = [path EXCEPT ![r] = merged.path]
         /\ mult' = data
         /\ box' = IF 2 * bit < np
                   THEN box @@ (<<r, 2 * bit>> :> PackMultipole(r, merged.path, data))
                   ELSE box
         /\ shift' = [shift EXCEPT ![r] = 2 * @]
  /\ UNCHANGED <<given, stage, octree, tree, pts, mins, shrd, potential, returned>>

ReduceDone ==
  /\ stage = "reduce"
  /\ \A r \in Procs : shift[r] >= np
  /\ box' = <<>>
  /\ path' = [r \in Procs |-> <<>>]
  /\ stage' = "let2"
  /\ UNCHANGED <<given, octree, tree, pts, mins, mult, shift, shrd, potential, returned>>

\* the source points of the leaves process r knows: its own and, of others,
\* those it was sent
SourcePoints(r) ==
  LET all == FoldSet(LAMBDA q, f : f @@ pts[q], <<>>, Procs)
      known(m) == m \in DOMAIN all /\ (m \in tree[r].own \/ m \in DOMAIN mult[r])
  IN  <<>> @@ [m \in {x \in tree[r].nodes : IsLeaf(tree[r], x)} |->
                 IF known(m) THEN Len(all[m]) ELSE 0]

\* Nsrf is 8 or more in the code; small here, as there are few points.
DownwardPass ==
  /\ stage = "evaluate"
  /\ potential' = [r \in Procs |-> Potentials(tree[r], SourcePoints(r), given.nsrf)]
  /\ stage' = "return"
  /\ UNCHANGED <<given, octree, tree, pts, mins, mult, shift, shrd, path, box, returned>>

\* The values at the points, leaf after leaf, go back by their scatter index;
\* each process asks for as many values as it gave, or leaves it to the code.
ReturnValues ==
  /\ stage = "return"
  /\ LET all(r) == LET leaves == OwnLeaves(tree[r])
                   IN  FlattenSeq([i \in 1..Len(leaves) |-> pts[r][leaves[i]]])
         values == [r \in Procs |-> [i \in 1..Len(all(r)) |-> all(r)[i][2]]]
         scatter == [r \in Procs |-> [i \in 1..Len(all(r)) |-> all(r)[i][3]]]
     IN  returned' = ScatterReverse(values, scatter,
                       [r \in Procs |-> IF given.sized THEN Len(given.pts[r+1]) ELSE 0])
  /\ stage' = "done"
  /\ UNCHANGED <<given, octree, tree, pts, mins, mult, shift, shrd, path, box, potential>>

Done == stage = "done" /\ UNCHANGED vars

Next ==
  \/ Points2Octree \/ InitTree \/ BalanceOctree \/ RefineToMins \/ RedistNodes \/ LocalSubdivide
  \/ DirectExchange("let1", "broadcast1") \/ BroadcastDone("broadcast1", "upward")
  \/ UpwardPass \/ ReduceDone
  \/ DirectExchange("let2", "broadcast2") \/ BroadcastDone("broadcast2", "evaluate")
  \/ \E r \in Procs : BroadcastRound(r) \/ ReduceRound(r)
  \/ DownwardPass \/ ReturnValues \/ Done

Spec == Init /\ [][Next]_vars
----------------------------------------------------------------------------
(* Correctness *)

AllLeaves == Glued([r \in Procs |-> OwnLeaves(tree[r])])

\* The leaves of all the processes, in order, cover the domain, with no gap
\* and no overlap, and every process has some; every point given is in just
\* one of them, the one that contains it, when the tree is built, when it is
\* balanced and after it was completed; and where every process has enough
\* points to see the octant it shares with the one before (twice as many as a
\* leaf may have), no leaf that could be refined has more points than it may.
PointsInLeaves ==
  stage \in {"tree", "refined", "redistributed", "let1", "upward", "evaluate"} =>
    LET leaves == AllLeaves
        held == Glued([r \in Procs |-> LET l == OwnLeaves(tree[r])
                                  IN  FlattenSeq([i \in 1..Len(l) |-> pts[r][l[i]]])])
    IN  /\ \A r \in Procs : OwnLeaves(tree[r]) # <<>>
        /\ leaves[1][1] = 0 /\ End(leaves[Len(leaves)]) = Cells(0)
        /\ \A i \in 1..Len(leaves)-1 : End(leaves[i]) = leaves[i+1][1]
        /\ \A r \in Procs :
             /\ DOMAIN pts[r] = ToSet(OwnLeaves(tree[r]))
             /\ \A m \in DOMAIN pts[r] :
                  /\ \A i \in 1..Len(pts[r][m]) : Within(pts[r][m][i], m)
                  /\ \/ Len(pts[r][m]) <= maxNumPts \/ m[2] = MAX_DEPTH - 1
                     \/ Len(held) < 2 * maxNumPts * np
        /\ {held[i][2] : i \in 1..Len(held)} = 0..Len(Glued(pt_mid))-1
        /\ Len(held) = Len(Glued(pt_mid))

\* Leaves next to each other, also across processes and, if the domain is
\* periodic, across its border, differ by at most one level.
TwoToOne ==
  stage \in {"let1", "evaluate"} =>
    LET leaves == ToSet(AllLeaves)
    IN  \A b \in leaves : \A n \in NbrList(b, b[2]) :
          \A l \in 0..b[2]-2 : getAncestor(n, l) \notin leaves

\* After a broadcast every process has the nodes it uses, with data: those
\* whose parent, or a neighbour of it, contains, or is in, one of the
\* process's leaves.  No own leaf was overrun by a ghost.
LetComplete ==
  stage \in {"upward", "evaluate"} =>
    LET leaves == [r \in Procs |-> ToSet(OwnLeaves(tree[r]))]
        all == UNION {ProperAncestors(m) \union {m} : m \in UNION {leaves[r] : r \in Procs}}
    IN  /\ \A r \in Procs : leaves[r] = ToSet(octree[r])
        /\ box = <<>>
        /\ \A c \in all \ {Root} : \A r \in Procs :
             (\E u \in usr_mid(c) : \E m \in leaves[r] : m[1] < End(u) /\ u[1] < End(m)) =>
               c \in tree[r].nodes /\ c \in DOMAIN mult[r]

\* After the downward pass the potential at the points of every leaf has every
\* leaf with points, the leaf itself included, exactly once as a source and,
\* on a periodic domain, once from each of the copies of the domain around it:
\* one contribution comes from that leaf or from a node above it, from the
\* right place, and the expansion it uses counts the leaf's process once.
EveryPairOnce ==
  stage = "return" =>
    LET images == [Directions -> IF given.periodic THEN {-Width(Root), 0, Width(Root)} ELSE {0}]
        weight(r, e, q) == IF e.by \in {"U_List", "X_List"} THEN 1
                           ELSE IF e.from \in DOMAIN mult[r] THEN mult[r][e.from][q] ELSE 0
    IN  \A r \in Procs : \A n \in DOMAIN potential[r] :
          /\ \A e \in potential[r][n] : e.shift \in images
          /\ \A q \in Procs : \A s \in {m \in DOMAIN pts[q] : pts[q][m] # <<>>} :
               LET covering == {e \in potential[r][n] : e.from = s \/ isAncestor(e.from, s)}
               IN  \A v \in images :
                     MapThenSumSet(LAMBDA e : weight(r, e, q), {e \in covering : e.shift = v}) = 1

\* The values return in the order of the points, and where every process says
\* how many it gave, each gets back its own.
ResultsReturn ==
  stage = "done" =>
    /\ Glued(returned) = [i \in 1..Len(Glued(pt_mid)) |-> i - 1]
    /\ given.sized => \A r \in Procs : Len(returned[r]) = Len(pt_mid[r])

\* What the code asserts on the way: of the local octrees; that every process
\* gets octants; that FindNode ends at the key; that the mins fit after the
\* redistribution; that no leaf is finer than the balanced tree; and of the
\* nodes of the U2 lists that they are leaves.
AssertionsHold ==
  /\ stage = "points" =>
       LET local == [r \in Procs |-> p2oLocal(r)]
       IN  \A r \in Procs :
             /\ LocalOctreeSound(r, local[r])
             /\ r > 0 => Superseded(local[r], local[r-1][Len(local[r-1])]) > 0
  /\ stage \in {"octree", "balanced"} => \A r \in Procs : octree[r] # <<>>
  /\ stage = "refined" =>
       LET new_mins == [q \in Procs |-> octree[q][1]]
       IN  \A r \in Procs : MinsInRange(tree[r], mins[r], new_mins) \subseteq tree[r].own
  /\ stage = "redistributed" =>
       \A r \in Procs :
         /\ getDFD(mins[r]) = getDFD(octree[r][1])
         /\ \A m \in ToSet(octree[r]) : \E l \in DOMAIN pts[r] : l = m \/ isAncestor(l, m)
  /\ stage = "evaluate" => \A r \in Procs : FinerAreLeaves(tree[r], SourcePoints(r))
=============================================================================
