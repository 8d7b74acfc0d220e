---------------------------- MODULE MemMgrProofs ----------------------------
(***************************************************************************)
(* For every size of the buffer, every set of threads and any number of    *)
(* calls: the blocks of the memory manager that callers hold at the same   *)
(* time do not overlap (MemMgr implements Allocator), the list of nodes    *)
(* stays sound, no assertion fails but the one that races, and the         *)
(* destructor reports exactly the leaks there are.                         *)
(*                                                                         *)
(* The list of nodes is what has to be shown sound.  Its blocks lie one    *)
(* behind the other by its links, but that two nodes anywhere in it do not *)
(* overlap does not follow from the links without induction along the      *)
(* list, so it is a part of the invariant; splitting and joining keep it.  *)
(* The rest of the invariant says that a call, and a caller, own the node  *)
(* that the header of their block names, each another one, and that no     *)
(* block is in use without an owner.                                       *)
(***************************************************************************)
EXTENDS MemMgr, FiniteSetTheorems, SequenceTheorems, TLAPS

NodeType == [free : BOOLEAN, size : Nat, mem_ptr : Nat, prev : Nat, next : Nat,
             it : [size : Nat, n_indx : Nat]]

\* the nodes of the list h, the dummy included
UsedIn(h) == DOMAIN h.node \ {h.stack[k] : k \in DOMAIN h.stack}

Typed(h) ==
  /\ h.node \in Seq(NodeType)
  /\ h.stack \in Seq(Nat)
  /\ \A k \in DOMAIN h.stack : h.stack[k] \in DOMAIN h.node \ {Dummy}
  /\ \A k, l \in DOMAIN h.stack : h.stack[k] = h.stack[l] => k = l

\* the links fit together, and the blocks they lead to lie side by side
Linked(h) ==
  /\ Dummy \in UsedIn(h) /\ ~h.node[Dummy].free
  /\ \A i \in UsedIn(h) \ {Dummy} :
       /\ h.node[i].size > 0 /\ h.node[i].mem_ptr + h.node[i].size <= N
       /\ h.node[i].prev \in UsedIn(h)
       /\ h.node[h.node[i].prev].next = i
  /\ \A i \in UsedIn(h) : h.node[i].next # None =>
       LET q == h.node[i].next IN
       /\ q \in UsedIn(h) \ {Dummy}
       /\ h.node[q].prev = i
       /\ h.node[q].mem_ptr = h.node[i].mem_ptr + h.node[i].size

\* no two blocks overlap
Apart(h) ==
  \A i, j \in UsedIn(h) \ {Dummy} : i # j =>
    \/ h.node[i].mem_ptr + h.node[i].size <= h.node[j].mem_ptr
    \/ h.node[j].mem_ptr + h.node[j].size <= h.node[i].mem_ptr

\* the map lists free nodes only, with their sizes
Mapped(h) ==
  \A e \in h.map :
    /\ e \in [size : Nat, n_indx : Nat]
    /\ e.n_indx \in UsedIn(h) \ {Dummy}
    /\ h.node[e.n_indx].free
    /\ h.node[e.n_indx].it = e
    /\ h.node[e.n_indx].size = e.size

ListInv(h) == Typed(h) /\ Linked(h) /\ Apart(h) /\ Mapped(h)

\* every free block is in the map
Charted(h) ==
  \A i \in UsedIn(h) : h.node[i].free => h.node[i].it \in h.map /\ h.node[i].it.n_indx = i

\* no two free blocks are neighbours
Spread(h) == \A i \in UsedIn(h) : h.node[i].free => ~IsFree(h, h.node[i].next)

\* the blocks reach from the first cell, where the empty one of the dummy is,
\* to the last
Spanning(h) ==
  /\ h.node[Dummy].size = 0 /\ h.node[Dummy].mem_ptr = 0
  /\ \A i \in UsedIn(h) : h.node[i].next = None => h.node[i].mem_ptr + h.node[i].size = N

Complete(h) == Charted(h) /\ Spread(h) /\ Spanning(h)

\* node n is the block of n_elem elements at base
Owned(n, base, n_elem) ==
  /\ n \in UsedIn(Lists) \ {Dummy}
  /\ ~node_buff[n].free
  /\ node_buff[n].mem_ptr = base
  /\ node_buff[n].size = n_elem + Header

\* the threads in a call that owns a node
Owning == {t \in Threads : pc[t] \in {"filled", "free"}}

LocalsTyped ==
  /\ pc \in [Threads -> {"idle", "resize", "carve", "filled", "free"}]
  /\ loc \in [Threads -> [n_elem : Nat, fit : [size : Nat, n_indx : Nat], base : Nat]]
  /\ mem \in [Cell -> Int]
  /\ live \subseteq [base : Nat, n_elem : Nat]

\* the lock keeps the block a call has chosen
Chosen ==
  \A t \in Threads :
    /\ pc[t] \in {"resize", "carve"} <=> lock = t
    /\ pc[t] \in {"resize", "carve"} =>
         loc[t].fit = NoFit \/ (loc[t].fit \in free_map /\ loc[t].fit.size >= loc[t].n_elem + Header)
    /\ pc[t] = "carve" /\ Splits(loc[t].fit, loc[t].n_elem + Header) => node_stack # <<>>

Ownership ==
  /\ \A t \in Owning : Owned(loc[t].fit.n_indx, loc[t].base, loc[t].n_elem)
  /\ \A b \in live : Owned(mem[b.base], b.base, b.n_elem)
  /\ \A t, u \in Owning : t # u => loc[t].fit.n_indx # loc[u].fit.n_indx
  /\ \A t \in Owning : \A b \in live : loc[t].fit.n_indx # mem[b.base]

\* a block that is not free is a caller's or that of a call
NoneLost ==
  \A i \in UsedIn(Lists) \ {Dummy} : ~node_buff[i].free =>
    \/ \E b \in live : mem[b.base] = i
    \/ \E t \in Owning : loc[t].fit.n_indx = i

IInv == ListInv(Lists) /\ Complete(Lists) /\ LocalsTyped /\ Chosen /\ Ownership /\ NoneLost

----------------------------------------------------------------------------
(* Splitting and joining blocks *)

\* A function on 1..m is a sequence.
LEMMA FunctionIsSeq ==
  ASSUME NEW S, NEW m \in Nat, NEW f, DOMAIN f = 1..m, f = [i \in 1..m |-> f[i]],
         \A i \in 1..m : f[i] \in S
  PROVE  f \in Seq(S) /\ Len(f) = m
<1>1. f \in [1..m -> S]
  OBVIOUS
<1> QED BY <1>1

\* What h says of one of its nodes.
LEMMA NodeTyped ==
  ASSUME NEW h, Typed(h), NEW i \in DOMAIN h.node
  PROVE  /\ h.node[i] \in NodeType
         /\ i \in Nat \ {0}
         /\ h.node[i].size \in Nat /\ h.node[i].mem_ptr \in Nat
         /\ h.node[i].prev \in Nat /\ h.node[i].next \in Nat
         /\ h.node[i].free \in BOOLEAN
<1>1. h.node \in Seq(NodeType)
  BY DEF Typed
<1>2. h.node[i] \in NodeType /\ i \in Nat \ {0}
  BY <1>1
<1> QED BY <1>2 DEF NodeType

\* A node changed in one field is a node.
LEMMA OneField ==
  ASSUME NEW r \in NodeType, NEW v \in Nat
  PROVE  /\ [r EXCEPT !.size = v] \in NodeType
         /\ [r EXCEPT !.mem_ptr = v] \in NodeType
         /\ [r EXCEPT !.prev = v] \in NodeType
         /\ [r EXCEPT !.next = v] \in NodeType
  BY DEF NodeType

\* A node that has taken in the block before it, one that has taken in the
\* block after it, one with another neighbour, and one out of use.
GrownBackwards(r, s, v, m) == [r EXCEPT !.size = @ + s, !.prev = v, !.mem_ptr = m]
GrownForwards(r, s, v) == [r EXCEPT !.size = @ + s, !.next = v]
WithNext(r, v) == [r EXCEPT !.next = v]
WithPrev(r, v) == [r EXCEPT !.prev = v]
Dropped(r) == [Unused EXCEPT !.it = r.it]

\* They are nodes,
LEMMA GrownBackwardsNode ==
  ASSUME NEW r \in NodeType, NEW s \in Nat, NEW v \in Nat, NEW m \in Nat
  PROVE  GrownBackwards(r, s, v, m) \in NodeType
<1>1. r.size + s \in Nat
  BY DEF NodeType
<1>2. [r EXCEPT !.size = @ + s] \in NodeType
  BY <1>1, OneField
<1>3. [r EXCEPT !.size = @ + s, !.prev = v] \in NodeType
  BY <1>2, OneField
<1> QED BY <1>3, OneField DEF GrownBackwards

LEMMA GrownForwardsNode ==
  ASSUME NEW r \in NodeType, NEW s \in Nat, NEW v \in Nat
  PROVE  GrownForwards(r, s, v) \in NodeType
<1>1. r.size + s \in Nat
  BY DEF NodeType
<1>2. [r EXCEPT !.size = @ + s] \in NodeType
  BY <1>1, OneField
<1> QED BY <1>2, OneField DEF GrownForwards

LEMMA RelinkedNode ==
  ASSUME NEW r \in NodeType, NEW v \in Nat
  PROVE  WithNext(r, v) \in NodeType /\ WithPrev(r, v) \in NodeType
  BY OneField DEF WithNext, WithPrev

LEMMA DroppedNode ==
  ASSUME NEW r \in NodeType
  PROVE  Dropped(r) \in NodeType
  BY DEF NodeType, Unused, NoFit, Entry, None, Dropped

\* with these fields.
LEMMA GrownBackwardsFields ==
  ASSUME NEW r \in NodeType, NEW s \in Nat, NEW v \in Nat, NEW m \in Nat
  PROVE  /\ GrownBackwards(r, s, v, m).size = r.size + s
         /\ GrownBackwards(r, s, v, m).next = r.next
  BY DEF NodeType, GrownBackwards

LEMMA GrownBackwardsPlace ==
  ASSUME NEW r \in NodeType, NEW s \in Nat, NEW v \in Nat, NEW m \in Nat
  PROVE  /\ GrownBackwards(r, s, v, m).mem_ptr = m
         /\ GrownBackwards(r, s, v, m).prev = v
  BY DEF NodeType, GrownBackwards

LEMMA GrownForwardsFields ==
  ASSUME NEW r \in NodeType, NEW s \in Nat, NEW v \in Nat
  PROVE  /\ GrownForwards(r, s, v).size = r.size + s
         /\ GrownForwards(r, s, v).next = v
  BY DEF NodeType, GrownForwards

LEMMA GrownForwardsPlace ==
  ASSUME NEW r \in NodeType, NEW s \in Nat, NEW v \in Nat
  PROVE  /\ GrownForwards(r, s, v).mem_ptr = r.mem_ptr
         /\ GrownForwards(r, s, v).prev = r.prev
  BY DEF NodeType, GrownForwards

LEMMA RelinkedFields ==
  ASSUME NEW r \in NodeType, NEW v \in Nat
  PROVE  /\ WithNext(r, v).next = v
         /\ WithNext(r, v).size = r.size /\ WithNext(r, v).mem_ptr = r.mem_ptr
         /\ WithNext(r, v).prev = r.prev
         /\ WithNext(r, v).it = r.it
         /\ WithPrev(r, v).prev = v
         /\ WithPrev(r, v).size = r.size /\ WithPrev(r, v).mem_ptr = r.mem_ptr
         /\ WithPrev(r, v).next = r.next
         /\ WithPrev(r, v).it = r.it
  BY DEF NodeType, WithNext, WithPrev

\* Whether a node is free does not change.
LEMMA FreeUnchanged ==
  ASSUME NEW r \in NodeType, NEW s \in Nat, NEW v \in Nat, NEW m \in Nat
  PROVE  /\ GrownBackwards(r, s, v, m).free <=> r.free
         /\ GrownForwards(r, s, v).free <=> r.free
         /\ WithNext(r, v).free <=> r.free
         /\ WithPrev(r, v).free <=> r.free
  BY DEF NodeType, GrownBackwards, GrownForwards, WithNext, WithPrev

\* g keeps what the owners of the nodes of h but n know of them, and has no
\* other nodes with an owner.
Kept(h, g, n) ==
  /\ DOMAIN h.node = DOMAIN g.node
  /\ \A i \in UsedIn(g) \ {n} : ~g.node[i].free => i \in UsedIn(h) /\ ~h.node[i].free
  /\ n \in UsedIn(g) \ {Dummy} /\ ~g.node[n].free
  /\ \A i \in UsedIn(h) \ {n} : ~h.node[i].free =>
       /\ i \in UsedIn(g) /\ ~g.node[i].free
       /\ g.node[i].size = h.node[i].size /\ g.node[i].mem_ptr = h.node[i].mem_ptr

\* A node taken off the list is no longer used, and the rest of the list stays
\* typed.
LEMMA Deleted ==
  ASSUME NEW h, NEW g, NEW p, Typed(h), p \in UsedIn(h) \ {Dummy},
         DOMAIN g.node = DOMAIN h.node,
         g.node = [i \in DOMAIN g.node |-> g.node[i]],
         \A i \in DOMAIN g.node : g.node[i] \in NodeType,
         g.stack = Append(h.stack, p)
  PROVE  Typed(g) /\ UsedIn(g) = UsedIn(h) \ {p}
<1>1. h.node \in Seq(NodeType) /\ h.stack \in Seq(Nat)
  BY DEF Typed
<1>2. DOMAIN h.node = 1..Len(h.node) /\ Len(h.node) \in Nat
  BY <1>1
<1>3. g.node \in Seq(NodeType)
  BY <1>2, FunctionIsSeq
<1>4. p \in Nat /\ p \in DOMAIN h.node
  BY <1>2 DEF UsedIn
<1>5. /\ g.stack \in Seq(Nat)
      /\ DOMAIN g.stack = 1..(Len(h.stack) + 1)
      /\ DOMAIN h.stack = 1..Len(h.stack) /\ Len(h.stack) \in Nat
      /\ \A k \in DOMAIN h.stack : g.stack[k] = h.stack[k]
      /\ g.stack[Len(h.stack) + 1] = p
  BY <1>1, <1>4, AppendProperties
<1>6. \A k \in DOMAIN h.stack : h.stack[k] # p
  BY DEF UsedIn
<1>7. Typed(g)
  <2>1. \A k \in DOMAIN g.stack : k \in DOMAIN h.stack \/ k = Len(h.stack) + 1
    BY <1>5
  <2>2. \A k \in DOMAIN g.stack : g.stack[k] \in DOMAIN g.node \ {Dummy}
    BY <2>1, <1>4, <1>5 DEF Typed
  <2>3. \A k, l \in DOMAIN g.stack : g.stack[k] = g.stack[l] => k = l
    BY <2>1, <1>5, <1>6 DEF Typed
  <2> QED BY <1>3, <1>5, <2>2, <2>3 DEF Typed
<1>8. {g.stack[k] : k \in DOMAIN g.stack} = {h.stack[k] : k \in DOMAIN h.stack} \cup {p}
  <2>1. DOMAIN g.stack = DOMAIN h.stack \cup {Len(h.stack) + 1}
    BY <1>5
  <2> QED BY <2>1, <1>5
<1> QED BY <1>7, <1>8 DEF UsedIn

\* The block before n, if it is free, has a block before it that is neither it
\* nor n, since no block is empty.
LEMMA Before ==
  ASSUME NEW h, ListInv(h), NEW n \in UsedIn(h) \ {Dummy}, ~h.node[n].free,
         IsFree(h, h.node[n].prev)
  PROVE  LET p == h.node[n].prev
             pp == h.node[p].prev
         IN /\ p \in UsedIn(h) \ {Dummy, n} /\ h.node[p].next = n
            /\ h.node[n].mem_ptr = h.node[p].mem_ptr + h.node[p].size
            /\ pp \in UsedIn(h) \ {p, n} /\ h.node[pp].next = p
            /\ \A j \in UsedIn(h) : h.node[j].next = p => j = pp
            /\ \A j \in UsedIn(h) : h.node[j].next = n => j = p
<1> DEFINE p == h.node[n].prev
           pp == h.node[p].prev
<1>1. Typed(h) /\ Linked(h)
  BY DEF ListInv
<1>2. p \in UsedIn(h) \ {Dummy, n} /\ h.node[p].next = n
  BY <1>1 DEF Linked, IsFree
<1>3. pp \in UsedIn(h) /\ h.node[pp].next = p
  BY <1>1, <1>2 DEF Linked
<1>4. n \in DOMAIN h.node /\ p \in DOMAIN h.node /\ pp \in DOMAIN h.node
  BY <1>2, <1>3 DEF UsedIn
<1>5. n # None /\ p # None
  BY <1>1, <1>4, NodeTyped DEF None
<1>6. h.node[n].mem_ptr = h.node[p].mem_ptr + h.node[p].size
  BY <1>1, <1>2, <1>5 DEF Linked
<1>7. pp # p
  BY <1>2, <1>3
<1>8. pp # n
  <2>1. SUFFICES ASSUME pp = n PROVE FALSE
    OBVIOUS
  <2>2. h.node[p].mem_ptr = h.node[n].mem_ptr + h.node[n].size
    BY <1>1, <1>3, <1>5, <2>1 DEF Linked
  <2>3. h.node[n].size > 0 /\ h.node[p].size > 0
    BY <1>1, <1>2 DEF Linked
  <2>4. /\ h.node[n].size \in Nat /\ h.node[p].size \in Nat
        /\ h.node[n].mem_ptr \in Nat /\ h.node[p].mem_ptr \in Nat
    BY <1>1, <1>4, NodeTyped
  <2> QED BY <1>6, <2>2, <2>3, <2>4
<1>9. /\ \A j \in UsedIn(h) : h.node[j].next = p => j = pp
      /\ \A j \in UsedIn(h) : h.node[j].next = n => j = p
  BY <1>1, <1>5 DEF Linked
<1> QED BY <1>2, <1>3, <1>6, <1>7, <1>8, <1>9

\* Joining with the block before keeps the list sound, and the other blocks
\* as they are.
LEMMA JoinPrevOK ==
  ASSUME NEW h, ListInv(h), NEW n \in UsedIn(h) \ {Dummy}, ~h.node[n].free
  PROVE  /\ ListInv(JoinPrev(h, n)) /\ Kept(h, JoinPrev(h, n), n)
         /\ Complete(h) => Complete(JoinPrev(h, n)) /\ ~IsFree(JoinPrev(h, n), JoinPrev(h, n).node[n].prev)
<1> DEFINE p == h.node[n].prev
           pp == h.node[p].prev
           g == JoinPrev(h, n)
<1>1. CASE ~IsFree(h, p)
  <2>1. g = h
    BY <1>1 DEF JoinPrev
  <2> QED BY <1>1, <2>1 DEF Kept, UsedIn
<1>2. CASE IsFree(h, p)
  <2>1. Typed(h) /\ Linked(h) /\ Apart(h) /\ Mapped(h)
    BY DEF ListInv
  <2>2. /\ p \in UsedIn(h) \ {Dummy, n} /\ h.node[p].next = n
        /\ h.node[n].mem_ptr = h.node[p].mem_ptr + h.node[p].size
        /\ pp \in UsedIn(h) \ {p, n} /\ h.node[pp].next = p
        /\ \A j \in UsedIn(h) : h.node[j].next = p => j = pp
        /\ \A j \in UsedIn(h) : h.node[j].next = n => j = p
    BY <1>2, Before
  <2>3. n \in DOMAIN h.node /\ p \in DOMAIN h.node /\ pp \in DOMAIN h.node
    BY <2>2 DEF UsedIn
  <2>4. /\ g.stack = Append(h.stack, p)
        /\ g.map = h.map \ {h.node[p].it}
        /\ g.node = [i \in DOMAIN h.node |->
             CASE i = n -> [h.node[n] EXCEPT !.size = @ + h.node[p].size, !.prev = pp,
                                             !.mem_ptr = h.node[p].mem_ptr]
               [] i = pp -> [delete_node(h, p).node[i] EXCEPT !.next = n]
               [] OTHER -> delete_node(h, p).node[i]]
    BY <1>2 DEF JoinPrev, delete_node
  <2>5. /\ \A i \in DOMAIN h.node \ {p} : delete_node(h, p).node[i] = h.node[i]
        /\ delete_node(h, p).node[p] = [Unused EXCEPT !.it = h.node[p].it]
    BY <2>1, <2>3 DEF delete_node, Typed
  <2>6. \A i \in DOMAIN h.node :
          /\ h.node[i] \in NodeType /\ i \in Nat \ {0}
          /\ h.node[i].size \in Nat /\ h.node[i].mem_ptr \in Nat
    BY <2>1, NodeTyped
  <2> DEFINE en == GrownBackwards(h.node[n], h.node[p].size, pp, h.node[p].mem_ptr)
             epp == WithNext(h.node[pp], n)
             ep == Dropped(h.node[p])
  <2>7. /\ en \in NodeType
        /\ en.size = h.node[n].size + h.node[p].size
        /\ en.mem_ptr = h.node[p].mem_ptr /\ en.prev = pp
        /\ en.next = h.node[n].next /\ (en.free <=> h.node[n].free)
    <3>1. h.node[n] \in NodeType /\ h.node[p].size \in Nat /\ pp \in Nat /\ h.node[p].mem_ptr \in Nat
      BY <2>3, <2>6
    <3> HIDE DEF p, pp
    <3>2. en.free <=> h.node[n].free
      BY <3>1, FreeUnchanged, Zenon
    <3>3. en.size = h.node[n].size + h.node[p].size /\ en.next = h.node[n].next
      BY <3>1, GrownBackwardsFields, SMTT(40)
    <3>5. en.mem_ptr = h.node[p].mem_ptr /\ en.prev = pp
      BY <3>1, GrownBackwardsPlace, ZenonT(60)
    <3>4. en \in NodeType
      BY <3>1, GrownBackwardsNode
    <3> QED BY <3>2, <3>3, <3>4, <3>5, Zenon
  <2>8. /\ epp \in NodeType /\ epp.next = n
        /\ epp.size = h.node[pp].size /\ epp.mem_ptr = h.node[pp].mem_ptr
        /\ epp.prev = h.node[pp].prev /\ (epp.free <=> h.node[pp].free) /\ epp.it = h.node[pp].it
        /\ ep \in NodeType
    <3>1. /\ h.node[pp] \in NodeType /\ h.node[p] \in NodeType /\ n \in Nat
          /\ h.node[p].size \in Nat /\ h.node[p].mem_ptr \in Nat
      BY <2>3, <2>6
    <3> HIDE DEF p, pp
    <3>2. epp.free <=> h.node[pp].free
      BY <3>1, FreeUnchanged, Zenon
    <3>3. /\ epp.next = n
          /\ epp.size = h.node[pp].size /\ epp.mem_ptr = h.node[pp].mem_ptr
          /\ epp.prev = h.node[pp].prev /\ epp.it = h.node[pp].it
      BY <3>1, RelinkedFields
    <3>4. epp \in NodeType /\ ep \in NodeType
      BY <3>1, RelinkedNode, DroppedNode
    <3> QED BY <3>2, <3>3, <3>4, Zenon
  <2> HIDE DEF g
  <2>9. /\ DOMAIN g.node = DOMAIN h.node
        /\ g.node[n] = en /\ g.node[pp] = epp /\ g.node[p] = ep
        /\ \A i \in DOMAIN h.node \ {n, p, pp} : g.node[i] = h.node[i]
        /\ g.node = [i \in DOMAIN g.node |-> g.node[i]]
    <3>1. delete_node(h, p).node[p] = ep /\ delete_node(h, p).node[pp] = h.node[pp]
      BY <2>2, <2>3, <2>5 DEF Dropped
    <3>3. g.node = [i \in DOMAIN h.node |->
             CASE i = n -> en
               [] i = pp -> WithNext(delete_node(h, p).node[i], n)
               [] OTHER -> delete_node(h, p).node[i]]
      BY <2>4 DEF GrownBackwards, WithNext
    <3>2. epp = WithNext(h.node[pp], n)
      OBVIOUS
    <3> HIDE DEF p, pp, en, epp, ep
    <3>4. DOMAIN g.node = DOMAIN h.node /\ g.node = [i \in DOMAIN g.node |-> g.node[i]]
      BY <3>3
    <3>5. g.node[n] = en
      <4>1. n # pp
        BY <2>2
      <4> QED BY <4>1, <2>3, <3>3
    <3>6. g.node[pp] = epp
      <4>0. n # pp /\ pp \in DOMAIN h.node
        BY <2>2, <2>3
      <4>1. g.node[pp] = WithNext(delete_node(h, p).node[pp], n)
        BY <4>0, <3>3
      <4> QED BY <4>1, <3>1, <3>2
    <3>7. \A i \in DOMAIN h.node \ {n, pp} : g.node[i] = delete_node(h, p).node[i]
      BY <3>3
    <3> QED BY <2>2, <2>3, <2>5, <3>1, <3>4, <3>5, <3>6, <3>7
  <2> HIDE DEF en, epp, ep
  <2>10. Typed(g) /\ UsedIn(g) = UsedIn(h) \ {p}
    <3>1. \A i \in DOMAIN g.node : g.node[i] \in NodeType
      BY <2>6, <2>7, <2>8, <2>9
    <3>2. g.stack = Append(h.stack, p) /\ p \in UsedIn(h) \ {Dummy}
      BY <2>2, <2>4
    <3>3. DOMAIN g.node = DOMAIN h.node /\ g.node = [i \in DOMAIN g.node |-> g.node[i]]
      BY <2>9
    <3> HIDE DEF p
    <3> QED BY <2>1, <3>1, <3>2, <3>3, Deleted
  <2>11. /\ g.node[n].size = h.node[n].size + h.node[p].size
         /\ g.node[n].mem_ptr = h.node[p].mem_ptr
         /\ g.node[n].prev = pp /\ g.node[n].next = h.node[n].next /\ ~g.node[n].free
         /\ g.node[pp].next = n
         /\ \A i \in UsedIn(h) \ {p, n} :
              /\ g.node[i].size = h.node[i].size /\ g.node[i].mem_ptr = h.node[i].mem_ptr
              /\ g.node[i].prev = h.node[i].prev /\ (g.node[i].free <=> h.node[i].free)
              /\ g.node[i].it = h.node[i].it
              /\ i # pp => g.node[i].next = h.node[i].next
    <3> DEFINE Same(i) == /\ g.node[i].size = h.node[i].size
                          /\ g.node[i].mem_ptr = h.node[i].mem_ptr
                          /\ g.node[i].prev = h.node[i].prev
                          /\ g.node[i].it = h.node[i].it
    <3>1. g.node[n] = en /\ g.node[pp] = epp
      BY <2>9
    <3>2. Same(pp) /\ g.node[pp].next = n
      BY <3>1, <2>8
    <3>3. g.node[pp].free <=> h.node[pp].free
      BY <3>1, <2>8, Zenon
    <3>4. \A i \in UsedIn(h) \ {p, n, pp} : g.node[i] = h.node[i]
      BY <2>9 DEF UsedIn
    <3>5. /\ g.node[n].size = h.node[n].size + h.node[p].size
          /\ g.node[n].mem_ptr = h.node[p].mem_ptr
          /\ g.node[n].prev = pp /\ g.node[n].next = h.node[n].next
      BY <3>1, <2>7
    <3>6. ~g.node[n].free
      BY <3>1, <2>7, Zenon
    <3>7. ASSUME NEW i \in UsedIn(h) \ {p, n}
          PROVE  Same(i) /\ (g.node[i].free <=> h.node[i].free) /\ (i # pp => g.node[i].next = h.node[i].next)
      BY <3>2, <3>3, <3>4, <3>7, Zenon
    <3> QED BY <3>2, <3>5, <3>6, <3>7, Zenon
  <2>12. Linked(g)
    <3>1. Dummy \in UsedIn(g) /\ ~g.node[Dummy].free
      BY <2>1, <2>2, <2>10, <2>11 DEF Linked
    <3>2. ASSUME NEW i \in UsedIn(g) \ {Dummy}
          PROVE  /\ g.node[i].size > 0 /\ g.node[i].mem_ptr + g.node[i].size <= N
                 /\ g.node[i].prev \in UsedIn(g)
                 /\ g.node[g.node[i].prev].next = i
      <4>1. CASE i = n
        <5>1. h.node[p].size > 0 /\ h.node[n].size > 0 /\ h.node[n].mem_ptr + h.node[n].size <= N
          BY <2>1, <2>2 DEF Linked
        <5> QED BY <4>1, <5>1, <2>2, <2>3, <2>6, <2>10, <2>11, SMTT(40)
      <4>2. CASE i # n
        <5>1. i \in UsedIn(h) \ {p, n, Dummy}
          BY <4>2, <2>10
        <5>2. /\ h.node[i].size > 0 /\ h.node[i].mem_ptr + h.node[i].size <= N
              /\ h.node[i].prev \in UsedIn(h) /\ h.node[h.node[i].prev].next = i
          BY <2>1, <5>1 DEF Linked
        <5>3. h.node[i].prev # p /\ h.node[i].prev # pp
          BY <5>1, <5>2, <2>2
        <5>4. g.node[h.node[i].prev].next = i
          BY <5>2, <5>3, <2>11
        <5> QED BY <5>1, <5>2, <5>3, <5>4, <2>10, <2>11
      <4> QED BY <4>1, <4>2
    <3>3. ASSUME NEW i \in UsedIn(g), g.node[i].next # None
          PROVE  /\ g.node[i].next \in UsedIn(g) \ {Dummy}
                 /\ g.node[g.node[i].next].prev = i
                 /\ g.node[g.node[i].next].mem_ptr = g.node[i].mem_ptr + g.node[i].size
      <4>1. CASE i = n
        <5>1. /\ h.node[n].next \in UsedIn(h) \ {Dummy}
              /\ h.node[h.node[n].next].prev = n
              /\ h.node[h.node[n].next].mem_ptr = h.node[n].mem_ptr + h.node[n].size
          BY <2>1, <3>3, <4>1, <2>11 DEF Linked
        <5>2. h.node[n].next # p /\ h.node[n].next # n
          BY <2>2
        <5> QED BY <4>1, <5>1, <5>2, <2>2, <2>3, <2>6, <2>10, <2>11, SMTT(40)
      <4>2. CASE i = pp
        <5>1. h.node[p].mem_ptr = h.node[pp].mem_ptr + h.node[pp].size
          <6>1. p # None
            BY <2>3, <2>6 DEF None
          <6> QED BY <2>1, <2>2, <6>1 DEF Linked
        <5> QED BY <4>2, <5>1, <2>2, <2>10, <2>11
      <4>3. CASE i # n /\ i # pp
        <5>1. i \in UsedIn(h) \ {p, n, pp} /\ g.node[i].next = h.node[i].next
          BY <4>3, <2>10, <2>11
        <5>2. /\ h.node[i].next \in UsedIn(h) \ {Dummy}
              /\ h.node[h.node[i].next].prev = i
              /\ h.node[h.node[i].next].mem_ptr = h.node[i].mem_ptr + h.node[i].size
          BY <2>1, <3>3, <5>1 DEF Linked
        <5>3. h.node[i].next # p /\ h.node[i].next # n
          BY <5>1, <2>2
        <5> QED BY <5>1, <5>2, <5>3, <2>10, <2>11
      <4> QED BY <4>1, <4>2, <4>3
    <3> QED BY <3>1, <3>2, <3>3 DEF Linked
  <2>13. Apart(g)
    <3> DEFINE Sep(k, i, j) == \/ k.node[i].mem_ptr + k.node[i].size <= k.node[j].mem_ptr
                               \/ k.node[j].mem_ptr + k.node[j].size <= k.node[i].mem_ptr
    <3>1. ASSUME NEW j \in UsedIn(g) \ {Dummy, n} PROVE Sep(g, n, j)
      <4>1. j \in UsedIn(h) \ {Dummy, p, n} /\ j \in DOMAIN h.node
        BY <3>1, <2>10 DEF UsedIn
      <4>2. Sep(h, n, j) /\ Sep(h, p, j) /\ h.node[j].size > 0
        BY <4>1, <2>1, <2>2 DEF Apart, Linked
      <4>3. g.node[j].size = h.node[j].size /\ g.node[j].mem_ptr = h.node[j].mem_ptr
        BY <4>1, <2>11
      <4> QED BY <4>1, <4>2, <4>3, <2>2, <2>3, <2>6, <2>11, SMTT(40)
    <3>2. ASSUME NEW i \in UsedIn(g) \ {Dummy}, NEW j \in UsedIn(g) \ {Dummy}, i # j
          PROVE Sep(g, i, j)
      <4>1. CASE i = n
        BY <4>1, <3>1, <3>2
      <4>2. CASE j = n
        BY <4>2, <3>1, <3>2
      <4>3. CASE i # n /\ j # n
        <5>1. i \in UsedIn(h) \ {Dummy, p, n} /\ j \in UsedIn(h) \ {Dummy, p, n}
          BY <4>3, <2>10
        <5>2. Sep(h, i, j)
          BY <5>1, <3>2, <2>1 DEF Apart
        <5> QED BY <5>1, <5>2, <2>11
      <4> QED BY <4>1, <4>2, <4>3
    <3> QED BY <3>2 DEF Apart
  <2>14. Mapped(g)
    <3>1. SUFFICES ASSUME NEW e \in g.map
                   PROVE  /\ e \in [size : Nat, n_indx : Nat]
                          /\ e.n_indx \in UsedIn(g) \ {Dummy} /\ g.node[e.n_indx].free
                          /\ g.node[e.n_indx].it = e /\ g.node[e.n_indx].size = e.size
      BY DEF Mapped
    <3>2. e \in h.map /\ e # h.node[p].it
      BY <2>4
    <3>3. /\ e \in [size : Nat, n_indx : Nat]
          /\ e.n_indx \in UsedIn(h) \ {Dummy} /\ h.node[e.n_indx].free
          /\ h.node[e.n_indx].it = e /\ h.node[e.n_indx].size = e.size
      BY <2>1, <3>2 DEF Mapped
    <3>4. e.n_indx # p /\ e.n_indx # n
      BY <3>2, <3>3
    <3> QED BY <3>3, <3>4, <2>10, <2>11
  <2>15. Kept(h, g, n)
    BY <1>2, <2>2, <2>9, <2>10, <2>11 DEF Kept, IsFree
  <2>16. ASSUME Complete(h)
         PROVE  Complete(g) /\ ~IsFree(g, g.node[n].prev)
    <3>1. Charted(h) /\ Spread(h) /\ Spanning(h) /\ h.node[p].free /\ n # None /\ p # None
      BY <1>2, <2>3, <2>6, <2>16 DEF Complete, IsFree, None
    <3>2. ~h.node[pp].free
      BY <2>2, <3>1 DEF Spread, IsFree
    <3>3. Charted(g)
      <4>1. ASSUME NEW i \in UsedIn(g), g.node[i].free
            PROVE  g.node[i].it \in g.map /\ g.node[i].it.n_indx = i
        <5>1. i \in UsedIn(h) \ {p, n} /\ h.node[i].free /\ g.node[i].it = h.node[i].it
          BY <4>1, <2>10, <2>11
        <5>2. h.node[i].it \in h.map /\ h.node[i].it.n_indx = i /\ h.node[p].it.n_indx = p
          BY <5>1, <2>2, <3>1 DEF Charted
        <5>3. h.node[i].it # h.node[p].it
          BY <5>1, <5>2
        <5> QED BY <5>1, <5>2, <5>3, <2>4
      <4> QED BY <4>1 DEF Charted
    <3>4. Spread(g)
      <4>1. ASSUME NEW i \in UsedIn(g), g.node[i].free, IsFree(g, g.node[i].next) PROVE FALSE
        <5>1. i \in UsedIn(h) \ {p, n, pp} /\ h.node[i].free /\ g.node[i].next = h.node[i].next
          BY <4>1, <2>10, <2>11, <3>2
        <5>2. h.node[i].next # None /\ g.node[h.node[i].next].free
          BY <4>1, <5>1 DEF IsFree
        <5>3. h.node[i].next \in UsedIn(h) \ {p, n}
          BY <5>1, <5>2, <2>1, <2>2 DEF Linked
        <5>4. h.node[h.node[i].next].free
          BY <5>2, <5>3, <2>11
        <5> QED BY <5>1, <5>2, <5>4, <3>1 DEF Spread, IsFree
      <4> QED BY <4>1 DEF Spread
    <3>5. Spanning(g)
      <4>1. Dummy \in UsedIn(h) \ {p, n}
        BY <2>1, <2>2 DEF Linked
      <4>2. ASSUME NEW i \in UsedIn(g), g.node[i].next = None
            PROVE  g.node[i].mem_ptr + g.node[i].size = N
        <5>1. CASE i = n
          <6>1. h.node[n].mem_ptr + h.node[n].size = N
            BY <4>2, <5>1, <2>11, <3>1 DEF Spanning
          <6> QED BY <5>1, <6>1, <2>2, <2>3, <2>6, <2>11, SMTT(40)
        <5>2. CASE i # n
          <6>1. i \in UsedIn(h) \ {p, n, pp}
            BY <4>2, <5>2, <2>10, <2>11, <3>1
          <6> QED BY <4>2, <6>1, <2>11, <3>1 DEF Spanning
        <5> QED BY <5>1, <5>2
      <4> QED BY <4>1, <4>2, <2>11, <3>1 DEF Spanning
    <3>6. ~IsFree(g, g.node[n].prev)
      BY <2>2, <2>11, <3>2 DEF IsFree
    <3> QED BY <3>3, <3>4, <3>5, <3>6 DEF Complete
  <2> QED BY <2>10, <2>12, <2>13, <2>14, <2>15, <2>16 DEF ListInv, g
<1> QED BY <1>1, <1>2

\* The block after n, if it is free, is another one, and so is the block after
\* it, if there is one.
LEMMA After ==
  ASSUME NEW h, ListInv(h), NEW n \in UsedIn(h) \ {Dummy}, ~h.node[n].free,
         IsFree(h, h.node[n].next)
  PROVE  LET q == h.node[n].next
             qq == h.node[q].next
         IN /\ q \in UsedIn(h) \ {Dummy, n} /\ h.node[q].prev = n
            /\ h.node[q].mem_ptr = h.node[n].mem_ptr + h.node[n].size
            /\ qq # n /\ qq # q
            /\ qq # None => /\ qq \in UsedIn(h) \ {Dummy} /\ h.node[qq].prev = q
                            /\ h.node[qq].mem_ptr = h.node[q].mem_ptr + h.node[q].size
            /\ \A j \in UsedIn(h) : h.node[j].next = q => j = n
            /\ \A j \in UsedIn(h) \ {Dummy} : h.node[j].prev = q => j = qq
            /\ \A j \in UsedIn(h) \ {Dummy} : h.node[j].prev = n => j = q
<1> DEFINE q == h.node[n].next
           qq == h.node[q].next
<1>1. Typed(h) /\ Linked(h)
  BY DEF ListInv
<1>2. /\ q \in UsedIn(h) \ {Dummy} /\ h.node[q].prev = n /\ q # None
      /\ h.node[q].mem_ptr = h.node[n].mem_ptr + h.node[n].size
  BY <1>1 DEF Linked, IsFree
<1>3. q # n
  BY DEF IsFree
<1>4. n \in DOMAIN h.node /\ q \in DOMAIN h.node
  BY <1>2 DEF UsedIn
<1>5. n # None
  BY <1>1, <1>4, NodeTyped DEF None
<1>6. qq # None => /\ qq \in UsedIn(h) \ {Dummy} /\ h.node[qq].prev = q
                   /\ h.node[qq].mem_ptr = h.node[q].mem_ptr + h.node[q].size
  BY <1>1, <1>2 DEF Linked
<1>7. qq # q
  BY <1>2, <1>3, <1>6
<1>8. qq # n
  <2>1. SUFFICES ASSUME qq = n PROVE FALSE
    OBVIOUS
  <2>2. h.node[n].mem_ptr = h.node[q].mem_ptr + h.node[q].size
    BY <1>5, <1>6, <2>1
  <2>3. h.node[n].size > 0 /\ h.node[q].size > 0
    BY <1>1, <1>2 DEF Linked
  <2>4. /\ h.node[n].size \in Nat /\ h.node[q].size \in Nat
        /\ h.node[n].mem_ptr \in Nat /\ h.node[q].mem_ptr \in Nat
    BY <1>1, <1>4, NodeTyped
  <2> QED BY <1>2, <2>2, <2>3, <2>4
<1>9. \A j \in UsedIn(h) : h.node[j].next = q => j = n
  BY <1>1, <1>2 DEF Linked
<1>10. /\ \A j \in UsedIn(h) \ {Dummy} : h.node[j].prev = q => j = qq
       /\ \A j \in UsedIn(h) \ {Dummy} : h.node[j].prev = n => j = q
  BY <1>1 DEF Linked
<1> QED BY <1>2, <1>3, <1>6, <1>7, <1>8, <1>9, <1>10

\* Joining with the block after keeps the list sound, and the other blocks
\* as they are.
LEMMA JoinNextOK ==
  ASSUME NEW h, ListInv(h), NEW n \in UsedIn(h) \ {Dummy}, ~h.node[n].free
  PROVE  /\ ListInv(JoinNext(h, n)) /\ Kept(h, JoinNext(h, n), n)
         /\ Complete(h) /\ ~IsFree(h, h.node[n].prev) =>
              /\ Complete(JoinNext(h, n))
              /\ ~IsFree(JoinNext(h, n), JoinNext(h, n).node[n].prev)
              /\ ~IsFree(JoinNext(h, n), JoinNext(h, n).node[n].next)
<1> DEFINE q == h.node[n].next
           qq == h.node[q].next
           g == JoinNext(h, n)
<1>1. CASE ~IsFree(h, q)
  <2>1. g = h
    BY <1>1 DEF JoinNext
  <2> QED BY <1>1, <2>1 DEF Kept, UsedIn
<1>2. CASE IsFree(h, q)
  <2>1. Typed(h) /\ Linked(h) /\ Apart(h) /\ Mapped(h)
    BY DEF ListInv
  <2>2. /\ q \in UsedIn(h) \ {Dummy, n} /\ h.node[q].prev = n
        /\ h.node[q].mem_ptr = h.node[n].mem_ptr + h.node[n].size
        /\ qq # n /\ qq # q
        /\ qq # None => /\ qq \in UsedIn(h) \ {Dummy} /\ h.node[qq].prev = q
                        /\ h.node[qq].mem_ptr = h.node[q].mem_ptr + h.node[q].size
        /\ \A j \in UsedIn(h) : h.node[j].next = q => j = n
        /\ \A j \in UsedIn(h) \ {Dummy} : h.node[j].prev = q => j = qq
        /\ \A j \in UsedIn(h) \ {Dummy} : h.node[j].prev = n => j = q
    BY <1>2, After, SMTT(40)
  <2>3. n \in DOMAIN h.node /\ q \in DOMAIN h.node /\ (qq # None => qq \in DOMAIN h.node)
    BY <2>2 DEF UsedIn
  <2>4. /\ g.stack = Append(h.stack, q)
        /\ g.map = h.map \ {h.node[q].it}
        /\ g.node = [i \in DOMAIN h.node |->
             CASE i = n -> [h.node[n] EXCEPT !.size = @ + h.node[q].size, !.next = qq]
               [] i = qq -> [delete_node(h, q).node[i] EXCEPT !.prev = n]
               [] OTHER -> delete_node(h, q).node[i]]
    BY <1>2 DEF JoinNext, delete_node
  <2>5. /\ \A i \in DOMAIN h.node \ {q} : delete_node(h, q).node[i] = h.node[i]
        /\ delete_node(h, q).node[q] = [Unused EXCEPT !.it = h.node[q].it]
    BY <2>1, <2>3 DEF delete_node, Typed
  <2>6. \A i \in DOMAIN h.node :
          /\ h.node[i] \in NodeType /\ i \in Nat \ {0}
          /\ h.node[i].size \in Nat /\ h.node[i].mem_ptr \in Nat /\ h.node[i].next \in Nat
    BY <2>1, NodeTyped
  <2> DEFINE en == GrownForwards(h.node[n], h.node[q].size, qq)
             eqq == WithPrev(h.node[qq], n)
             eq == Dropped(h.node[q])
  <2>7. /\ en \in NodeType
        /\ en.size = h.node[n].size + h.node[q].size
        /\ en.mem_ptr = h.node[n].mem_ptr /\ en.prev = h.node[n].prev
        /\ en.next = qq /\ (en.free <=> h.node[n].free)
    <3>1. /\ h.node[n] \in NodeType /\ h.node[q].size \in Nat /\ qq \in Nat
          /\ h.node[q].mem_ptr \in Nat
      BY <2>3, <2>6
    <3> HIDE DEF q, qq
    <3>2. en.free <=> h.node[n].free
      BY <3>1, FreeUnchanged, Zenon
    <3>3. en.size = h.node[n].size + h.node[q].size /\ en.next = qq
      BY <3>1, GrownForwardsFields
    <3>4. en.mem_ptr = h.node[n].mem_ptr /\ en.prev = h.node[n].prev
      BY <3>1, GrownForwardsPlace
    <3>5. en \in NodeType
      BY <3>1, GrownForwardsNode
    <3> QED BY <3>2, <3>3, <3>4, <3>5, Zenon
  <2>8. ASSUME qq # None
        PROVE  /\ eqq \in NodeType /\ eqq.prev = n
               /\ eqq.size = h.node[qq].size /\ eqq.mem_ptr = h.node[qq].mem_ptr
               /\ eqq.next = h.node[qq].next /\ (eqq.free <=> h.node[qq].free)
               /\ eqq.it = h.node[qq].it
    <3>1. /\ h.node[qq] \in NodeType /\ n \in Nat
          /\ h.node[n].size \in Nat /\ h.node[n].mem_ptr \in Nat
      BY <2>3, <2>6, <2>8
    <3> HIDE DEF q, qq
    <3>2. eqq.free <=> h.node[qq].free
      BY <3>1, FreeUnchanged, Zenon
    <3>3. /\ eqq.prev = n
          /\ eqq.size = h.node[qq].size /\ eqq.mem_ptr = h.node[qq].mem_ptr
          /\ eqq.next = h.node[qq].next /\ eqq.it = h.node[qq].it
      BY <3>1, RelinkedFields
    <3>4. eqq \in NodeType
      BY <3>1, RelinkedNode
    <3> QED BY <3>2, <3>3, <3>4, Zenon
  <2>9. eq \in NodeType
    BY <2>3, <2>6, DroppedNode
  <2> HIDE DEF g
  <2>10. /\ DOMAIN g.node = DOMAIN h.node
         /\ g.node[n] = en /\ g.node[q] = eq
         /\ qq # None => g.node[qq] = eqq
         /\ \A i \in DOMAIN h.node \ {n, q, qq} : g.node[i] = h.node[i]
         /\ g.node = [i \in DOMAIN g.node |-> g.node[i]]
    <3>1. delete_node(h, q).node[q] = eq /\ (qq # None => delete_node(h, q).node[qq] = h.node[qq])
      BY <2>2, <2>3, <2>5 DEF Dropped
    <3>2. eqq = WithPrev(h.node[qq], n)
      OBVIOUS
    <3>3. g.node = [i \in DOMAIN h.node |->
             CASE i = n -> en
               [] i = qq -> WithPrev(delete_node(h, q).node[i], n)
               [] OTHER -> delete_node(h, q).node[i]]
      BY <2>4 DEF GrownForwards, WithPrev
    <3> HIDE DEF q, qq, en, eqq, eq
    <3>4. DOMAIN g.node = DOMAIN h.node /\ g.node = [i \in DOMAIN g.node |-> g.node[i]]
      BY <3>3
    <3>5. g.node[n] = en
      <4>1. n # qq
        BY <2>2
      <4> QED BY <4>1, <2>3, <3>3
    <3>6. qq # None => g.node[qq] = eqq
      <4>1. ASSUME qq # None PROVE g.node[qq] = WithPrev(delete_node(h, q).node[qq], n)
        <5>1. n # qq /\ qq \in DOMAIN h.node
          BY <2>2, <2>3, <4>1
        <5> QED BY <5>1, <3>3
      <4> QED BY <4>1, <3>1, <3>2
    <3>7. \A i \in DOMAIN h.node \ {n, qq} : g.node[i] = delete_node(h, q).node[i]
      BY <3>3
    <3> QED BY <2>2, <2>3, <2>5, <3>1, <3>4, <3>5, <3>6, <3>7
  <2> HIDE DEF en, eqq, eq
  <2>11. Typed(g) /\ UsedIn(g) = UsedIn(h) \ {q}
    <3>1. \A i \in DOMAIN g.node : g.node[i] \in NodeType
      <4>1. \A i \in DOMAIN h.node : i # None
        BY <2>6 DEF None
      <4> QED BY <4>1, <2>6, <2>7, <2>8, <2>9, <2>10
    <3>2. g.stack = Append(h.stack, q) /\ q \in UsedIn(h) \ {Dummy}
      BY <2>2, <2>4
    <3>3. DOMAIN g.node = DOMAIN h.node /\ g.node = [i \in DOMAIN g.node |-> g.node[i]]
      BY <2>10
    <3> HIDE DEF q
    <3> QED BY <2>1, <3>1, <3>2, <3>3, Deleted
  <2>12. /\ g.node[n].size = h.node[n].size + h.node[q].size
         /\ g.node[n].mem_ptr = h.node[n].mem_ptr
         /\ g.node[n].prev = h.node[n].prev /\ g.node[n].next = qq /\ ~g.node[n].free
         /\ qq # None => g.node[qq].prev = n
         /\ \A i \in UsedIn(h) \ {q, n} :
              /\ g.node[i].size = h.node[i].size /\ g.node[i].mem_ptr = h.node[i].mem_ptr
              /\ g.node[i].next = h.node[i].next /\ g.node[i].it = h.node[i].it
              /\ g.node[i].free <=> h.node[i].free
              /\ i # qq => g.node[i].prev = h.node[i].prev
    <3> DEFINE Same(i) == /\ g.node[i].size = h.node[i].size
                          /\ g.node[i].mem_ptr = h.node[i].mem_ptr
                          /\ g.node[i].next = h.node[i].next
                          /\ g.node[i].it = h.node[i].it
    <3>1. g.node[n] = en /\ (qq # None => g.node[qq] = eqq)
      BY <2>10
    <3>2. qq # None => Same(qq) /\ g.node[qq].prev = n
      BY <3>1, <2>8
    <3>3. qq # None => (g.node[qq].free <=> h.node[qq].free)
      BY <3>1, <2>8, Zenon
    <3>4. \A i \in UsedIn(h) \ {q, n, qq} : g.node[i] = h.node[i]
      BY <2>10 DEF UsedIn
    <3>5. /\ g.node[n].size = h.node[n].size + h.node[q].size
          /\ g.node[n].mem_ptr = h.node[n].mem_ptr
          /\ g.node[n].prev = h.node[n].prev /\ g.node[n].next = qq
      BY <3>1, <2>7
    <3>6. ~g.node[n].free
      BY <3>1, <2>7, Zenon
    <3>7. ASSUME NEW i \in UsedIn(h) \ {q, n}
          PROVE  Same(i) /\ (g.node[i].free <=> h.node[i].free) /\ (i # qq => g.node[i].prev = h.node[i].prev)
      <4>1. i # None
        BY <2>6, <3>7 DEF UsedIn, None
      <4> QED BY <4>1, <3>2, <3>3, <3>4, <3>7, Zenon
    <3> QED BY <3>2, <3>5, <3>6, <3>7, Zenon
  <2>13. \A i \in UsedIn(h) : i # None /\ i \in DOMAIN h.node
    BY <2>6 DEF UsedIn, None
  <2>14. Linked(g)
    <3>1. Dummy \in UsedIn(g) /\ ~g.node[Dummy].free
      BY <2>1, <2>2, <2>11, <2>12 DEF Linked
    <3>2. ASSUME NEW i \in UsedIn(g) \ {Dummy}
          PROVE  /\ g.node[i].size > 0 /\ g.node[i].mem_ptr + g.node[i].size <= N
                 /\ g.node[i].prev \in UsedIn(g)
                 /\ g.node[g.node[i].prev].next = i
      <4>1. i \in UsedIn(h) \ {q, Dummy}
        BY <2>11
      <4>2. /\ h.node[i].size > 0 /\ h.node[i].mem_ptr + h.node[i].size <= N
            /\ h.node[i].prev \in UsedIn(h) /\ h.node[h.node[i].prev].next = i
        BY <2>1, <4>1 DEF Linked
      <4>3. CASE i = n
        <5>1. h.node[q].size > 0 /\ h.node[q].mem_ptr + h.node[q].size <= N
          BY <2>1, <2>2 DEF Linked
        <5>2. g.node[n].size > 0 /\ g.node[n].mem_ptr + g.node[n].size <= N
          BY <4>2, <4>3, <5>1, <2>2, <2>3, <2>6, <2>12, SMTT(40)
        <5>3. h.node[n].prev \in UsedIn(h) \ {q, n}
          BY <4>2, <4>3, <2>2
        <5> QED BY <4>2, <4>3, <5>2, <5>3, <2>11, <2>12
      <4>4. CASE i = qq
        <5>1. i # n /\ i # None
          BY <4>1, <4>4, <2>2, <2>13
        <5> QED BY <4>1, <4>2, <4>4, <5>1, <2>2, <2>11, <2>12
      <4>5. CASE i # n /\ i # qq
        <5>1. h.node[i].prev # q /\ h.node[i].prev # n
          BY <4>1, <4>5, <2>2
        <5> QED BY <4>1, <4>2, <4>5, <5>1, <2>11, <2>12
      <4> QED BY <4>3, <4>4, <4>5
    <3>3. ASSUME NEW i \in UsedIn(g), g.node[i].next # None
          PROVE  /\ g.node[i].next \in UsedIn(g) \ {Dummy}
                 /\ g.node[g.node[i].next].prev = i
                 /\ g.node[g.node[i].next].mem_ptr = g.node[i].mem_ptr + g.node[i].size
      <4>1. CASE i = n
        <5>1. qq # None /\ g.node[n].next = qq
          BY <3>3, <4>1, <2>12
        <5>2. qq \in UsedIn(h) \ {q, n, Dummy}
          BY <5>1, <2>2
        <5>3. g.node[qq].mem_ptr = h.node[qq].mem_ptr
          BY <5>2, <2>12
        <5>4. h.node[qq].mem_ptr = h.node[n].mem_ptr + h.node[n].size + h.node[q].size
          BY <5>1, <2>2, <2>3, <2>6
        <5>5. g.node[qq].mem_ptr = g.node[n].mem_ptr + g.node[n].size
          <6>1. g.node[n].mem_ptr = h.node[n].mem_ptr /\ g.node[n].size = h.node[n].size + h.node[q].size
            BY <2>12
          <6>2. h.node[n].mem_ptr \in Nat /\ h.node[n].size \in Nat /\ h.node[q].size \in Nat
            BY <2>3, <2>6
          <6> HIDE DEF q, qq
          <6> QED BY <5>3, <5>4, <6>1, <6>2
        <5>6. g.node[qq].prev = n /\ qq \in UsedIn(g) \ {Dummy}
          BY <5>1, <5>2, <2>11, <2>12
        <5> QED BY <4>1, <5>1, <5>5, <5>6
      <4>2. CASE i # n
        <5>1. i \in UsedIn(h) \ {q, n} /\ g.node[i].next = h.node[i].next
          BY <4>2, <2>11, <2>12
        <5>2. /\ h.node[i].next \in UsedIn(h) \ {Dummy}
              /\ h.node[h.node[i].next].prev = i
              /\ h.node[h.node[i].next].mem_ptr = h.node[i].mem_ptr + h.node[i].size
          BY <2>1, <3>3, <5>1 DEF Linked
        <5>3. h.node[i].next # q
          BY <5>1, <2>2
        <5>4. h.node[i].next # qq
          BY <5>1, <5>2, <2>2, <2>13
        <5>5. /\ g.node[h.node[i].next].prev = h.node[h.node[i].next].prev
              /\ g.node[h.node[i].next].mem_ptr = h.node[h.node[i].next].mem_ptr
          BY <5>2, <5>3, <5>4, <2>12
        <5> QED BY <5>1, <5>2, <5>3, <5>5, <2>11, <2>12
      <4> QED BY <4>1, <4>2
    <3> QED BY <3>1, <3>2, <3>3 DEF Linked
  <2>15. Apart(g)
    <3> DEFINE Sep(k, i, j) == \/ k.node[i].mem_ptr + k.node[i].size <= k.node[j].mem_ptr
                               \/ k.node[j].mem_ptr + k.node[j].size <= k.node[i].mem_ptr
    <3>1. ASSUME NEW j \in UsedIn(g) \ {Dummy, n} PROVE Sep(g, n, j)
      <4>1. j \in UsedIn(h) \ {Dummy, q, n} /\ j \in DOMAIN h.node
        BY <3>1, <2>11 DEF UsedIn
      <4>2. Sep(h, n, j) /\ Sep(h, q, j) /\ h.node[j].size > 0
        BY <4>1, <2>1, <2>2 DEF Apart, Linked
      <4>3. g.node[j].size = h.node[j].size /\ g.node[j].mem_ptr = h.node[j].mem_ptr
        BY <4>1, <2>12
      <4> QED BY <4>1, <4>2, <4>3, <2>2, <2>3, <2>6, <2>12, SMTT(40)
    <3>2. ASSUME NEW i \in UsedIn(g) \ {Dummy}, NEW j \in UsedIn(g) \ {Dummy}, i # j
          PROVE Sep(g, i, j)
      <4>1. CASE i = n
        BY <4>1, <3>1, <3>2
      <4>2. CASE j = n
        BY <4>2, <3>1, <3>2
      <4>3. CASE i # n /\ j # n
        <5>1. i \in UsedIn(h) \ {Dummy, q, n} /\ j \in UsedIn(h) \ {Dummy, q, n}
          BY <4>3, <2>11
        <5>2. Sep(h, i, j)
          BY <5>1, <3>2, <2>1 DEF Apart
        <5> QED BY <5>1, <5>2, <2>12
      <4> QED BY <4>1, <4>2, <4>3
    <3> QED BY <3>2 DEF Apart
  <2>16. Mapped(g)
    <3>1. SUFFICES ASSUME NEW e \in g.map
                   PROVE  /\ e \in [size : Nat, n_indx : Nat]
                          /\ e.n_indx \in UsedIn(g) \ {Dummy} /\ g.node[e.n_indx].free
                          /\ g.node[e.n_indx].it = e /\ g.node[e.n_indx].size = e.size
      BY DEF Mapped
    <3>2. e \in h.map /\ e # h.node[q].it
      BY <2>4
    <3>3. /\ e \in [size : Nat, n_indx : Nat]
          /\ e.n_indx \in UsedIn(h) \ {Dummy} /\ h.node[e.n_indx].free
          /\ h.node[e.n_indx].it = e /\ h.node[e.n_indx].size = e.size
      BY <2>1, <3>2 DEF Mapped
    <3>4. e.n_indx # q /\ e.n_indx # n
      BY <3>2, <3>3
    <3> QED BY <3>3, <3>4, <2>11, <2>12
  <2>17. Kept(h, g, n)
    BY <1>2, <2>2, <2>10, <2>11, <2>12 DEF Kept, IsFree
  <2>18. ASSUME Complete(h), ~IsFree(h, h.node[n].prev)
         PROVE  Complete(g) /\ ~IsFree(g, g.node[n].prev) /\ ~IsFree(g, g.node[n].next)
    <3>1. Charted(h) /\ Spread(h) /\ Spanning(h) /\ h.node[q].free
      BY <1>2, <2>18 DEF Complete, IsFree
    <3>2. qq # None => ~h.node[qq].free
      BY <2>2, <3>1 DEF Spread, IsFree
    <3>3. Charted(g)
      <4>1. ASSUME NEW i \in UsedIn(g), g.node[i].free
            PROVE  g.node[i].it \in g.map /\ g.node[i].it.n_indx = i
        <5>1. i \in UsedIn(h) \ {q, n} /\ h.node[i].free /\ g.node[i].it = h.node[i].it
          BY <4>1, <2>11, <2>12
        <5>2. h.node[i].it \in h.map /\ h.node[i].it.n_indx = i /\ h.node[q].it.n_indx = q
          BY <5>1, <2>2, <3>1 DEF Charted
        <5>3. h.node[i].it # h.node[q].it
          BY <5>1, <5>2
        <5> QED BY <5>1, <5>2, <5>3, <2>4
      <4> QED BY <4>1 DEF Charted
    <3>4. Spread(g)
      <4>1. ASSUME NEW i \in UsedIn(g), g.node[i].free, IsFree(g, g.node[i].next) PROVE FALSE
        <5>1. i \in UsedIn(h) \ {q, n} /\ h.node[i].free /\ g.node[i].next = h.node[i].next
          BY <4>1, <2>11, <2>12
        <5>2. h.node[i].next # None /\ g.node[h.node[i].next].free
          BY <4>1, <5>1 DEF IsFree
        <5>3. h.node[i].next \in UsedIn(h) \ {q, n}
          BY <5>1, <5>2, <2>1, <2>2, <2>12 DEF Linked
        <5>4. h.node[h.node[i].next].free
          BY <5>2, <5>3, <2>12
        <5> QED BY <5>1, <5>2, <5>4, <3>1 DEF Spread, IsFree
      <4> QED BY <4>1 DEF Spread
    <3>5. Spanning(g)
      <4>1. Dummy \in UsedIn(h) \ {q, n}
        BY <2>1, <2>2 DEF Linked
      <4>2. ASSUME NEW i \in UsedIn(g), g.node[i].next = None
            PROVE  g.node[i].mem_ptr + g.node[i].size = N
        <5>1. CASE i = n
          <6>1. h.node[q].mem_ptr + h.node[q].size = N
            BY <4>2, <5>1, <2>2, <2>12, <3>1 DEF Spanning
          <6> QED BY <5>1, <6>1, <2>2, <2>3, <2>6, <2>12, SMTT(40)
        <5>2. CASE i # n
          <6>1. i \in UsedIn(h) \ {q, n}
            BY <5>2, <2>11
          <6> QED BY <4>2, <6>1, <2>12, <3>1 DEF Spanning
        <5> QED BY <5>1, <5>2
      <4> QED BY <4>1, <4>2, <2>12, <3>1 DEF Spanning
    <3>6. ~IsFree(g, g.node[n].next)
      BY <2>2, <2>12, <3>2 DEF IsFree
    <3>7. ~IsFree(g, g.node[n].prev)
      <4>1. h.node[n].prev \in UsedIn(h) \ {q, n}
        BY <2>1, <2>2 DEF Linked
      <4> QED BY <4>1, <2>12, <2>18 DEF IsFree
    <3> QED BY <3>3, <3>4, <3>5, <3>6, <3>7 DEF Complete
  <2> QED BY <2>11, <2>14, <2>15, <2>16, <2>17, <2>18 DEF ListInv, g
<1> QED BY <1>1, <1>2

\* The first part of a block that is split, the rest of it, and a node that is
\* taken or given back as a whole.
FirstPart(r, s, v) == [r EXCEPT !.free = FALSE, !.size = s, !.next = v]
RestOf(r, s, v, x) == [r EXCEPT !.size = @ - s, !.mem_ptr = @ + s, !.prev = v, !.it = x]
Taken(r) == [r EXCEPT !.free = FALSE]
Released(r, x) == [r EXCEPT !.free = TRUE, !.it = x]

LEMMA FirstPartNode ==
  ASSUME NEW r \in NodeType, NEW s \in Nat, NEW v \in Nat
  PROVE  FirstPart(r, s, v) \in NodeType
<1>1. [r EXCEPT !.free = FALSE] \in NodeType
  BY DEF NodeType
<1>2. [r EXCEPT !.free = FALSE, !.size = s] \in NodeType
  BY <1>1, OneField
<1> QED BY <1>2, OneField DEF FirstPart

LEMMA FirstPartFields ==
  ASSUME NEW r \in NodeType, NEW s \in Nat, NEW v \in Nat
  PROVE  FirstPart(r, s, v).size = s /\ FirstPart(r, s, v).next = v
  BY DEF NodeType, FirstPart

LEMMA FirstPartPlace ==
  ASSUME NEW r \in NodeType, NEW s \in Nat, NEW v \in Nat
  PROVE  FirstPart(r, s, v).mem_ptr = r.mem_ptr /\ FirstPart(r, s, v).prev = r.prev
  BY DEF NodeType, FirstPart

LEMMA FirstPartTaken ==
  ASSUME NEW r \in NodeType, NEW s \in Nat, NEW v \in Nat
  PROVE  ~FirstPart(r, s, v).free
  BY DEF NodeType, FirstPart

LEMMA RestOfNode ==
  ASSUME NEW r \in NodeType, NEW s \in Nat, s <= r.size, NEW v \in Nat,
         NEW x \in [size : Nat, n_indx : Nat]
  PROVE  RestOf(r, s, v, x) \in NodeType
<1>1. r.size - s \in Nat /\ r.mem_ptr + s \in Nat
  BY DEF NodeType
<1>2. [r EXCEPT !.size = @ - s] \in NodeType
  BY <1>1, OneField
<1>3. [r EXCEPT !.size = @ - s].mem_ptr = r.mem_ptr
  BY DEF NodeType
<1>4. [r EXCEPT !.size = @ - s, !.mem_ptr = @ + s] \in NodeType
  BY <1>1, <1>2, <1>3, OneField
<1>5. [r EXCEPT !.size = @ - s, !.mem_ptr = @ + s, !.prev = v] \in NodeType
  BY <1>4, OneField
<1>6. \A y \in NodeType : [y EXCEPT !.it = x] \in NodeType
  BY DEF NodeType
<1> QED BY <1>5, <1>6 DEF RestOf

LEMMA RestOfFields ==
  ASSUME NEW r \in NodeType, NEW s \in Nat, NEW v \in Nat, NEW x
  PROVE  /\ RestOf(r, s, v, x).size = r.size - s
         /\ RestOf(r, s, v, x).mem_ptr = r.mem_ptr + s
  BY DEF NodeType, RestOf

LEMMA RestOfLinks ==
  ASSUME NEW r \in NodeType, NEW s \in Nat, NEW v \in Nat, NEW x
  PROVE  RestOf(r, s, v, x).prev = v /\ RestOf(r, s, v, x).next = r.next
  BY DEF NodeType, RestOf

LEMMA RestOfFree ==
  ASSUME NEW r \in NodeType, NEW s \in Nat, NEW v \in Nat, NEW x
  PROVE  (RestOf(r, s, v, x).free <=> r.free) /\ RestOf(r, s, v, x).it = x
  BY DEF NodeType, RestOf

LEMMA TakenNode ==
  ASSUME NEW r \in NodeType
  PROVE  /\ Taken(r) \in NodeType
         /\ Taken(r).size = r.size /\ Taken(r).mem_ptr = r.mem_ptr
         /\ Taken(r).prev = r.prev /\ Taken(r).next = r.next
  BY DEF NodeType, Taken

LEMMA TakenFree ==
  ASSUME NEW r \in NodeType
  PROVE  ~Taken(r).free
  BY DEF NodeType, Taken

LEMMA ReleasedNode ==
  ASSUME NEW r \in NodeType, NEW x \in [size : Nat, n_indx : Nat]
  PROVE  /\ Released(r, x) \in NodeType
         /\ Released(r, x).size = r.size /\ Released(r, x).mem_ptr = r.mem_ptr
         /\ Released(r, x).prev = r.prev /\ Released(r, x).next = r.next
  BY DEF NodeType, Released

LEMMA ReleasedFree ==
  ASSUME NEW r \in NodeType, NEW x
  PROVE  Released(r, x).free /\ Released(r, x).it = x
  BY DEF NodeType, Released

\* The links and the places of the used nodes are all that matters.
LEMMA SameLinks ==
  ASSUME NEW h, NEW g, Linked(h), Apart(h), UsedIn(g) = UsedIn(h), ~g.node[Dummy].free,
         \A i \in UsedIn(h) :
           /\ g.node[i].size = h.node[i].size /\ g.node[i].mem_ptr = h.node[i].mem_ptr
           /\ g.node[i].prev = h.node[i].prev /\ g.node[i].next = h.node[i].next
  PROVE  Linked(g) /\ Apart(g)
<1>1. Dummy \in UsedIn(g)
  BY DEF Linked
<1>2. \A i \in UsedIn(g) \ {Dummy} :
        /\ g.node[i].size > 0 /\ g.node[i].mem_ptr + g.node[i].size <= N
        /\ g.node[i].prev \in UsedIn(g)
        /\ g.node[g.node[i].prev].next = i
  BY DEF Linked
<1>3. \A i \in UsedIn(g) : g.node[i].next # None =>
        /\ g.node[i].next \in UsedIn(g) \ {Dummy}
        /\ g.node[g.node[i].next].prev = i
        /\ g.node[g.node[i].next].mem_ptr = g.node[i].mem_ptr + g.node[i].size
  BY DEF Linked
<1>4. Apart(g)
  BY DEF Apart
<1> QED BY <1>1, <1>2, <1>3, <1>4 DEF Linked

\* Whether a node is free, and its entry, matter neither to the links nor to
\* the blocks.
LEMMA Marked ==
  ASSUME NEW h, NEW g, Typed(h), Linked(h), Apart(h), NEW n \in UsedIn(h) \ {Dummy},
         DOMAIN g.node = DOMAIN h.node, g.stack = h.stack,
         g.node = [i \in DOMAIN g.node |-> g.node[i]],
         \A i \in DOMAIN h.node \ {n} : g.node[i] = h.node[i],
         g.node[n] \in NodeType,
         /\ g.node[n].size = h.node[n].size /\ g.node[n].mem_ptr = h.node[n].mem_ptr
         /\ g.node[n].prev = h.node[n].prev /\ g.node[n].next = h.node[n].next
  PROVE  Typed(g) /\ UsedIn(g) = UsedIn(h) /\ Linked(g) /\ Apart(g)
<1>1. h.node \in Seq(NodeType) /\ h.stack \in Seq(Nat)
  BY DEF Typed
<1>2. DOMAIN h.node = 1..Len(h.node) /\ Len(h.node) \in Nat
  BY <1>1
<1>3. \A i \in DOMAIN g.node : g.node[i] \in NodeType
  BY NodeTyped
<1>4. g.node \in Seq(NodeType)
  BY <1>2, <1>3, FunctionIsSeq
<1>5. Typed(g)
  BY <1>4 DEF Typed
<1>6. UsedIn(g) = UsedIn(h)
  BY DEF UsedIn
<1>7. \A i \in UsedIn(h) :
        /\ g.node[i].size = h.node[i].size /\ g.node[i].mem_ptr = h.node[i].mem_ptr
        /\ g.node[i].prev = h.node[i].prev /\ g.node[i].next = h.node[i].next
  BY DEF UsedIn
<1>8. Linked(g) /\ Apart(g)
  <2>1. ~g.node[Dummy].free
    BY DEF Linked, UsedIn
  <2> QED BY <1>6, <1>7, <2>1, SameLinks
<1> QED BY <1>5, <1>6, <1>8

\* A node of the stack is unused; taking it off the stack is all that changes.
LEMMA Popped ==
  ASSUME NEW h, NEW g, Typed(h), h.stack # <<>>,
         DOMAIN g.node = DOMAIN h.node,
         g.node = [i \in DOMAIN g.node |-> g.node[i]],
         \A i \in DOMAIN g.node : g.node[i] \in NodeType,
         g.stack = Front(h.stack)
  PROVE  /\ Typed(g)
         /\ Last(h.stack) \in DOMAIN h.node \ ({Dummy} \cup UsedIn(h))
         /\ UsedIn(g) = UsedIn(h) \cup {Last(h.stack)}
<1> DEFINE top == Last(h.stack)
<1>1. h.node \in Seq(NodeType) /\ h.stack \in Seq(Nat)
  BY DEF Typed
<1>2. DOMAIN h.node = 1..Len(h.node) /\ Len(h.node) \in Nat
  BY <1>1
<1>3. g.node \in Seq(NodeType)
  BY <1>2, FunctionIsSeq
<1>4. /\ Len(h.stack) \in Nat \ {0} /\ DOMAIN h.stack = 1..Len(h.stack)
      /\ top = h.stack[Len(h.stack)]
  BY <1>1 DEF Last
<1>5. /\ g.stack \in Seq(Nat) /\ DOMAIN g.stack = 1..(Len(h.stack) - 1)
      /\ \A k \in DOMAIN g.stack : g.stack[k] = h.stack[k]
  BY <1>1, <1>4, SMTT(40) DEF Front
<1>6. top \in DOMAIN h.node \ ({Dummy} \cup UsedIn(h))
  <2>1. Len(h.stack) \in DOMAIN h.stack
    BY <1>4
  <2> QED BY <2>1, <1>4 DEF Typed, UsedIn
<1>7. DOMAIN g.stack \subseteq DOMAIN h.stack
  BY <1>4, <1>5
<1>8. Typed(g)
  BY <1>3, <1>5, <1>7 DEF Typed
<1>9. {h.stack[k] : k \in DOMAIN h.stack} = {g.stack[k] : k \in DOMAIN g.stack} \cup {top}
  <2>1. DOMAIN h.stack = DOMAIN g.stack \cup {Len(h.stack)}
    BY <1>4, <1>5
  <2>2. /\ \A k \in DOMAIN g.stack : h.stack[k] = g.stack[k]
        /\ h.stack[Len(h.stack)] = top
    BY <1>4, <1>5
  <2> QED BY <2>1, <2>2, SMTT(40)
<1>10. top \notin {g.stack[k] : k \in DOMAIN g.stack}
  <2>1. SUFFICES ASSUME NEW k \in DOMAIN g.stack, g.stack[k] = top PROVE FALSE
    OBVIOUS
  <2>2. k \in DOMAIN h.stack /\ Len(h.stack) \in DOMAIN h.stack /\ k # Len(h.stack)
    BY <2>1, <1>4, <1>5
  <2>3. h.stack[k] = h.stack[Len(h.stack)]
    BY <2>1, <1>4, <1>5
  <2> QED BY <2>2, <2>3 DEF Typed
<1> QED BY <1>6, <1>8, <1>9, <1>10 DEF UsedIn

\* A free block that is split, the node for its rest, and the block after it,
\* if there is one, are three nodes.
LEMMA SplitPlaces ==
  ASSUME NEW h, ListInv(h), h.stack # <<>>, NEW e \in h.map
  PROVE  LET n == e.n_indx
             top == Last(h.stack)
             nx == h.node[n].next
         IN /\ n \in UsedIn(h) \ {Dummy} /\ n \in DOMAIN h.node /\ n # top
            /\ h.node[n].it = e /\ h.node[n].size = e.size
            /\ e \in [size : Nat, n_indx : Nat]
            /\ top \in DOMAIN h.node \ ({Dummy} \cup UsedIn(h))
            /\ nx # None => nx \in UsedIn(h) \ {Dummy, n, top} /\ h.node[nx].prev = n
                            /\ h.node[nx].mem_ptr = h.node[n].mem_ptr + h.node[n].size
<1> DEFINE n == e.n_indx
           top == Last(h.stack)
           nx == h.node[n].next
<1>1. Typed(h) /\ Linked(h) /\ Apart(h) /\ Mapped(h)
  BY DEF ListInv
<1>2. /\ n \in UsedIn(h) \ {Dummy}
      /\ h.node[n].it = e /\ h.node[n].size = e.size
      /\ e \in [size : Nat, n_indx : Nat]
  BY <1>1 DEF Mapped
<1>3. top \in DOMAIN h.node \ ({Dummy} \cup UsedIn(h))
  <2>1. h.stack \in Seq(Nat)
    BY <1>1 DEF Typed
  <2>2. top = h.stack[Len(h.stack)] /\ Len(h.stack) \in DOMAIN h.stack
    BY <2>1 DEF Last
  <2> QED BY <2>2, <1>1 DEF Typed, UsedIn
<1>4. n \in DOMAIN h.node /\ n # top
  BY <1>2, <1>3 DEF UsedIn
<1>5. nx # None => nx \in UsedIn(h) \ {Dummy, n, top} /\ h.node[nx].prev = n
                   /\ h.node[nx].mem_ptr = h.node[n].mem_ptr + h.node[n].size
  <2>1. SUFFICES ASSUME nx # None
                 PROVE  /\ nx \in UsedIn(h) \ {Dummy, n, top} /\ h.node[nx].prev = n
                        /\ h.node[nx].mem_ptr = h.node[n].mem_ptr + h.node[n].size
    OBVIOUS
  <2>2. /\ nx \in UsedIn(h) \ {Dummy} /\ h.node[nx].prev = n
        /\ h.node[nx].mem_ptr = h.node[n].mem_ptr + h.node[n].size
    BY <1>1, <1>2, <2>1 DEF Linked
  <2>3. h.node[n].size \in Nat /\ h.node[n].mem_ptr \in Nat /\ h.node[n].size > 0
    BY <1>1, <1>2, <1>4, NodeTyped DEF Linked
  <2>4. nx # n
    BY <2>2, <2>3
  <2> QED BY <2>2, <2>4, <1>3
<1> QED BY <1>2, <1>3, <1>4, <1>5

\* The node of entry e is split after its first size cells.
NodesSplit(old, new, e, top, size) ==
  LET n == e.n_indx
      nx == old[n].next
  IN /\ DOMAIN new = DOMAIN old
     /\ new = [i \in DOMAIN new |-> new[i]]
     /\ new[n] = FirstPart(old[n], size, top)
     /\ new[top] = RestOf(old[n], size, n, Entry(old[n].size - size, top))
     /\ nx # None => new[nx] = WithPrev(old[nx], top)
     /\ \A i \in DOMAIN old \ {n, top, nx} : new[i] = old[i]

\* A block cut in two: both parts end before what the block ended before.
LEMMA PartsBefore ==
  ASSUME NEW whole, NEW one, NEW two, NEW other, NEW size \in Nat,
         whole.mem_ptr \in Nat, whole.size \in Nat, other.mem_ptr \in Nat, size <= whole.size,
         one.size = size, one.mem_ptr = whole.mem_ptr,
         two.size = whole.size - size, two.mem_ptr = whole.mem_ptr + size,
         whole.mem_ptr + whole.size <= other.mem_ptr
  PROVE  /\ one.mem_ptr + one.size <= other.mem_ptr
         /\ two.mem_ptr + two.size <= other.mem_ptr
OBVIOUS

\* And both begin after what the block began after.
LEMMA PartsAfter ==
  ASSUME NEW whole, NEW one, NEW two, NEW other, NEW size \in Nat,
         whole.mem_ptr \in Nat, other.mem_ptr \in Nat, other.size \in Nat,
         one.mem_ptr = whole.mem_ptr, two.mem_ptr = whole.mem_ptr + size,
         other.mem_ptr + other.size <= whole.mem_ptr
  PROVE  /\ other.mem_ptr + other.size <= one.mem_ptr
         /\ other.mem_ptr + other.size <= two.mem_ptr
OBVIOUS

\* Splitting a free block keeps the list sound; its first part is taken.
LEMMA SplitOK ==
  ASSUME NEW h, NEW g, ListInv(h), h.stack # <<>>,
         NEW e \in h.map, NEW size \in Nat \ {0}, size < e.size,
         NodesSplit(h.node, g.node, e, Last(h.stack), size),
         g.stack = Front(h.stack),
         g.map = (h.map \ {e}) \cup {Entry(e.size - size, Last(h.stack))}
  PROVE  /\ ListInv(g) /\ Kept(h, g, e.n_indx) /\ (Complete(h) => Complete(g))
         /\ g.node[e.n_indx].size = size
         /\ g.node[e.n_indx].mem_ptr = h.node[e.n_indx].mem_ptr
<1> USE DEF NodesSplit
<1> DEFINE n == e.n_indx
           top == Last(h.stack)
           nx == h.node[n].next
           x == Entry(h.node[n].size - size, top)
           Sep(k, i, j) == \/ k.node[i].mem_ptr + k.node[i].size <= k.node[j].mem_ptr
                           \/ k.node[j].mem_ptr + k.node[j].size <= k.node[i].mem_ptr
<1>1. Typed(h) /\ Linked(h) /\ Apart(h) /\ Mapped(h)
  BY DEF ListInv
<1>2. /\ n \in UsedIn(h) \ {Dummy} /\ h.node[n].free
      /\ h.node[n].it = e /\ h.node[n].size = e.size
      /\ e \in [size : Nat, n_indx : Nat]
  BY <1>1 DEF Mapped
<1>3. top \in DOMAIN h.node \ ({Dummy} \cup UsedIn(h))
  BY SplitPlaces
<1>4. n \in DOMAIN h.node /\ n # top
  BY SplitPlaces
<1>5. \A i \in DOMAIN h.node :
        /\ h.node[i] \in NodeType /\ i \in Nat \ {0}
        /\ h.node[i].size \in Nat /\ h.node[i].mem_ptr \in Nat /\ h.node[i].next \in Nat
  BY <1>1, NodeTyped
<1>6. nx # None => nx \in UsedIn(h) \ {Dummy, n, top} /\ h.node[nx].prev = n
                   /\ h.node[nx].mem_ptr = h.node[n].mem_ptr + h.node[n].size
  BY SplitPlaces
<1>7. /\ h.node[n] \in NodeType /\ n \in Nat /\ top \in Nat
      /\ x \in [size : Nat, n_indx : Nat] /\ size \in Nat /\ size <= h.node[n].size
  BY <1>2, <1>3, <1>4, <1>5 DEF Entry
<1>8. g.node[n] = FirstPart(h.node[n], size, top) /\ g.node[top] = RestOf(h.node[n], size, n, x)
  OBVIOUS
<1> HIDE DEF x
<1>9. g.node[n].size = size /\ g.node[n].next = top
  <2> HIDE DEF n, top
  <2> QED BY <1>7, <1>8, FirstPartFields
<1>10. g.node[n].mem_ptr = h.node[n].mem_ptr /\ g.node[n].prev = h.node[n].prev
  <2> HIDE DEF n, top
  <2> QED BY <1>7, <1>8, FirstPartPlace
<1>11. ~g.node[n].free
  <2>1. ~FirstPart(h.node[n], size, top).free
    <3> HIDE DEF n, top
    <3> QED BY <1>7, FirstPartTaken
  <2> QED BY <2>1, <1>8, Zenon
<1>12. g.node[top].size = h.node[n].size - size /\ g.node[top].mem_ptr = h.node[n].mem_ptr + size
  <2> HIDE DEF n, top
  <2> QED BY <1>7, <1>8, RestOfFields
<1>13. g.node[top].prev = n /\ g.node[top].next = nx
  <2>1. RestOf(h.node[n], size, n, x).prev = n /\ RestOf(h.node[n], size, n, x).next = h.node[n].next
    <3> HIDE DEF n, top
    <3> QED BY <1>7, RestOfLinks
  <2> QED BY <2>1, <1>8
<1>14. g.node[top].free /\ g.node[top].it = x
  <2>1. RestOf(h.node[n], size, n, x).free <=> h.node[n].free
    <3> HIDE DEF n, top
    <3> QED BY <1>7, RestOfFree, Zenon
  <2>2. RestOf(h.node[n], size, n, x).it = x
    <3> HIDE DEF n, top
    <3> QED BY <1>7, RestOfFree
  <2> QED BY <2>1, <2>2, <1>2, <1>8, Zenon
<1>15. g.node[n] \in NodeType /\ g.node[top] \in NodeType
  <2>1. g.node[n] \in NodeType
    <3> HIDE DEF n, top
    <3> QED BY <1>7, <1>8, FirstPartNode
  <2>2. g.node[top] \in NodeType
    <3> HIDE DEF n, top
    <3> QED BY <1>7, <1>8, RestOfNode
  <2> QED BY <2>1, <2>2
<1>16. ASSUME nx # None
       PROVE  /\ g.node[nx] \in NodeType /\ g.node[nx].prev = top
              /\ g.node[nx].size = h.node[nx].size /\ g.node[nx].mem_ptr = h.node[nx].mem_ptr
              /\ g.node[nx].next = h.node[nx].next /\ g.node[nx].it = h.node[nx].it
              /\ (g.node[nx].free <=> h.node[nx].free)
  <2>1. h.node[nx] \in NodeType /\ g.node[nx] = WithPrev(h.node[nx], top)
    BY <1>5, <1>6, <1>16 DEF UsedIn
  <2>2. top \in Nat /\ h.node[n].size \in Nat /\ h.node[n].mem_ptr \in Nat
    BY <1>4, <1>5, <1>7
  <2> HIDE DEF nx, top, n
  <2>3. g.node[nx].free <=> h.node[nx].free
    <3>1. WithPrev(h.node[nx], top).free <=> h.node[nx].free
      BY <2>1, <2>2, FreeUnchanged, Zenon
    <3> QED BY <3>1, <2>1, Zenon
  <2>4. /\ g.node[nx].prev = top
        /\ g.node[nx].size = h.node[nx].size /\ g.node[nx].mem_ptr = h.node[nx].mem_ptr
        /\ g.node[nx].next = h.node[nx].next /\ g.node[nx].it = h.node[nx].it
    <3>1. g.node[nx].prev = top
      BY <2>1, <2>2, RelinkedFields
    <3>2. g.node[nx].size = h.node[nx].size /\ g.node[nx].mem_ptr = h.node[nx].mem_ptr
      BY <2>1, <2>2, RelinkedFields
    <3>3. g.node[nx].next = h.node[nx].next /\ g.node[nx].it = h.node[nx].it
      BY <2>1, <2>2, RelinkedFields
    <3> QED BY <3>1, <3>2, <3>3
  <2>5. g.node[nx] \in NodeType
    BY <2>1, <2>2, RelinkedNode
  <2> QED BY <2>3, <2>4, <2>5, Zenon
<1>17. \A i \in UsedIn(h) : i # None /\ i \in DOMAIN h.node
  BY <1>5 DEF UsedIn, None
<1>18. ASSUME NEW i \in UsedIn(h) \ {n}
       PROVE  /\ g.node[i].size = h.node[i].size /\ g.node[i].mem_ptr = h.node[i].mem_ptr
              /\ g.node[i].next = h.node[i].next /\ g.node[i].it = h.node[i].it
              /\ (g.node[i].free <=> h.node[i].free)
              /\ (i # nx => g.node[i].prev = h.node[i].prev)
  <2>1. CASE i = nx
    <3>1. nx # None
      BY <2>1, <1>17, <1>18
    <3> QED BY <2>1, <3>1, <1>16, Zenon
  <2>2. CASE i # nx
    <3>1. g.node[i] = h.node[i]
      BY <2>2, <1>3, <1>17, <1>18
    <3> QED BY <2>2, <3>1, Zenon
  <2> QED BY <2>1, <2>2
<1>19. Typed(g) /\ UsedIn(g) = UsedIn(h) \cup {top}
  <2>1. \A i \in DOMAIN g.node : g.node[i] \in NodeType
    <3>1. \A i \in DOMAIN h.node : i # None
      BY <1>5 DEF None
    <3>2. \A i \in DOMAIN h.node \ {n, top, nx} : g.node[i] = h.node[i]
      OBVIOUS
    <3> QED BY <3>1, <3>2, <1>5, <1>15, <1>16
  <2>2. /\ DOMAIN g.node = DOMAIN h.node /\ g.stack = Front(h.stack)
        /\ g.node = [i \in DOMAIN g.node |-> g.node[i]]
    OBVIOUS
  <2> QED BY <2>1, <2>2, <1>1, Popped
<1>20. Linked(g)
  <2>1. Dummy \in UsedIn(g) /\ ~g.node[Dummy].free
    BY <1>1, <1>2, <1>18, <1>19 DEF Linked
  <2>2. ASSUME NEW i \in UsedIn(g) \ {Dummy}
        PROVE  /\ g.node[i].size > 0 /\ g.node[i].mem_ptr + g.node[i].size <= N
               /\ g.node[i].prev \in UsedIn(g)
               /\ g.node[g.node[i].prev].next = i
    <3>1. /\ h.node[n].size > 0 /\ h.node[n].mem_ptr + h.node[n].size <= N
          /\ h.node[n].prev \in UsedIn(h) /\ h.node[h.node[n].prev].next = n
      BY <1>1, <1>2 DEF Linked
    <3>2. h.node[n].size \in Nat /\ h.node[n].mem_ptr \in Nat /\ N \in Nat
      BY <1>4, <1>5, ParametersAssumption
    <3>3. CASE i = n
      <4>1. h.node[n].prev # n
        BY <3>1, <1>6, <1>17
      <4>2. g.node[n].size > 0 /\ g.node[n].mem_ptr + g.node[n].size <= N
        <5> HIDE DEF n
        <5> QED BY <3>1, <3>2, <1>7, <1>9, <1>10
      <4> QED BY <3>1, <3>3, <4>1, <4>2, <1>10, <1>18, <1>19, SMTT(40)
    <3>4. CASE i = top
      <4>1. g.node[top].size > 0 /\ g.node[top].mem_ptr + g.node[top].size <= N
        <5>1. size < h.node[n].size
          BY <1>2
        <5> HIDE DEF n, top
        <5> QED BY <3>1, <3>2, <5>1, <1>12
      <4> QED BY <3>4, <4>1, <1>2, <1>9, <1>13, <1>19
    <3>5. CASE i # n /\ i # top
      <4>1. i \in UsedIn(h) \ {n, Dummy} /\ i # None
        BY <3>5, <2>2, <1>17, <1>19
      <4>2. /\ h.node[i].size > 0 /\ h.node[i].mem_ptr + h.node[i].size <= N
            /\ h.node[i].prev \in UsedIn(h) /\ h.node[h.node[i].prev].next = i
        BY <4>1, <1>1 DEF Linked
      <4>3. g.node[i].size > 0 /\ g.node[i].mem_ptr + g.node[i].size <= N
        BY <4>1, <4>2, <1>18
      <4>4. CASE i = nx
        BY <4>1, <4>3, <4>4, <1>13, <1>16, <1>19
      <4>5. CASE i # nx
        <5>1. h.node[i].prev # n
          BY <4>2, <4>5
        <5> QED BY <4>1, <4>2, <4>3, <4>5, <5>1, <1>18, <1>19
      <4> QED BY <4>4, <4>5
    <3> QED BY <3>3, <3>4, <3>5
  <2>3. ASSUME NEW i \in UsedIn(g), g.node[i].next # None
        PROVE  /\ g.node[i].next \in UsedIn(g) \ {Dummy}
               /\ g.node[g.node[i].next].prev = i
               /\ g.node[g.node[i].next].mem_ptr = g.node[i].mem_ptr + g.node[i].size
    <3>1. CASE i = n
      <4>1. g.node[top].mem_ptr = g.node[n].mem_ptr + g.node[n].size
        BY <1>9, <1>10, <1>12
      <4> QED BY <3>1, <4>1, <1>3, <1>9, <1>13, <1>19
    <3>2. CASE i = top
      <4>1. nx # None
        BY <2>3, <3>2, <1>13
      <4>2. g.node[nx].mem_ptr = h.node[n].mem_ptr + h.node[n].size
        BY <4>1, <1>6, <1>16
      <4>3. h.node[n].size \in Nat /\ h.node[n].mem_ptr \in Nat
        BY <1>4, <1>5
      <4>4. g.node[top].mem_ptr + g.node[top].size = h.node[n].mem_ptr + h.node[n].size
        <5> HIDE DEF n, top
        <5> QED BY <4>3, <1>7, <1>12
      <4> QED BY <3>2, <4>1, <4>2, <4>4, <1>6, <1>13, <1>16, <1>19
    <3>3. CASE i # n /\ i # top
      <4>1. i \in UsedIn(h) \ {n} /\ g.node[i].next = h.node[i].next
        BY <3>3, <1>18, <1>19
      <4>2. /\ h.node[i].next \in UsedIn(h) \ {Dummy}
            /\ h.node[h.node[i].next].prev = i
            /\ h.node[h.node[i].next].mem_ptr = h.node[i].mem_ptr + h.node[i].size
        BY <2>3, <4>1, <1>1 DEF Linked
      <4>3. h.node[i].next # nx
        BY <4>1, <4>2, <1>6, <1>17
      <4>4. /\ g.node[h.node[i].next].prev = i
            /\ g.node[h.node[i].next].mem_ptr = h.node[h.node[i].next].mem_ptr
        BY <4>2, <4>3, <1>10, <1>18
      <4> QED BY <4>1, <4>2, <4>4, <1>18, <1>19
    <3> QED BY <3>1, <3>2, <3>3
  <2> QED BY <2>1, <2>2, <2>3 DEF Linked
<1>21. Apart(g)
  <2>1. h.node[n].size \in Nat /\ h.node[n].mem_ptr \in Nat
    BY <1>4, <1>5
  <2>2. Sep(g, n, top)
    <3>1. g.node[n].mem_ptr + g.node[n].size <= g.node[top].mem_ptr
      <4> HIDE DEF n, top
      <4> QED BY <2>1, <1>7, <1>9, <1>10, <1>12
    <3> QED BY <3>1
  <2>3. ASSUME NEW j \in UsedIn(h) \ {Dummy, n} PROVE Sep(g, n, j) /\ Sep(g, top, j)
    <3>1. Sep(h, n, j)
      BY <2>3, <1>1, <1>2 DEF Apart
    <3>2. g.node[j].size = h.node[j].size /\ g.node[j].mem_ptr = h.node[j].mem_ptr
      BY <2>3, <1>18
    <3>3. h.node[j].size \in Nat /\ h.node[j].mem_ptr \in Nat
      BY <2>3, <1>5 DEF UsedIn
    <3>4. CASE h.node[n].mem_ptr + h.node[n].size <= h.node[j].mem_ptr
      <4>1. /\ g.node[n].mem_ptr + g.node[n].size <= g.node[j].mem_ptr
            /\ g.node[top].mem_ptr + g.node[top].size <= g.node[j].mem_ptr
        <5>1. h.node[n].mem_ptr + h.node[n].size <= g.node[j].mem_ptr
          BY <3>2, <3>4
        <5>2. g.node[j].mem_ptr \in Nat /\ g.node[j].size \in Nat
          BY <3>2, <3>3
        <5> HIDE DEF n, top, Sep
        <5> QED BY <5>1, <5>2, <2>1, <1>7, <1>9, <1>10, <1>12, PartsBefore, ZenonT(60)
      <4> QED BY <4>1
    <3>5. CASE h.node[j].mem_ptr + h.node[j].size <= h.node[n].mem_ptr
      <4>1. /\ g.node[j].mem_ptr + g.node[j].size <= g.node[n].mem_ptr
            /\ g.node[j].mem_ptr + g.node[j].size <= g.node[top].mem_ptr
        <5>1. g.node[j].mem_ptr + g.node[j].size <= h.node[n].mem_ptr
          BY <3>2, <3>5
        <5>2. g.node[j].mem_ptr \in Nat /\ g.node[j].size \in Nat
          BY <3>2, <3>3
        <5> HIDE DEF n, top, Sep
        <5> QED BY <5>1, <5>2, <2>1, <1>7, <1>9, <1>10, <1>12, PartsAfter, Zenon
      <4> QED BY <4>1
    <3> QED BY <3>1, <3>4, <3>5
  <2>4. ASSUME NEW i \in UsedIn(g) \ {Dummy}, NEW j \in UsedIn(g) \ {Dummy}, i # j
        PROVE Sep(g, i, j)
    <3>1. CASE i = n
      BY <3>1, <2>2, <2>3, <2>4, <1>19
    <3>2. CASE j = n
      BY <3>2, <2>2, <2>3, <2>4, <1>19
    <3>3. CASE i # n /\ i = top /\ j # n
      BY <3>3, <2>3, <2>4, <1>19
    <3>4. CASE j # n /\ j = top /\ i # n
      BY <3>4, <2>3, <2>4, <1>19
    <3>5. CASE i \notin {n, top} /\ j \notin {n, top}
      <4>1. i \in UsedIn(h) \ {Dummy, n} /\ j \in UsedIn(h) \ {Dummy, n}
        BY <3>5, <1>19
      <4>2. Sep(h, i, j)
        BY <4>1, <2>4, <1>1 DEF Apart
      <4> QED BY <4>1, <4>2, <1>18
    <3> QED BY <3>1, <3>2, <3>3, <3>4, <3>5
  <2> QED BY <2>4 DEF Apart
<1>22. Mapped(g)
  <2>1. SUFFICES ASSUME NEW f \in g.map
                 PROVE  /\ f \in [size : Nat, n_indx : Nat]
                        /\ f.n_indx \in UsedIn(g) \ {Dummy} /\ g.node[f.n_indx].free
                        /\ g.node[f.n_indx].it = f /\ g.node[f.n_indx].size = f.size
    BY DEF Mapped
  <2>2. CASE f = x
    <3>1. x.n_indx = top /\ x.size = h.node[n].size - size
      BY DEF x, Entry
    <3> QED BY <2>2, <3>1, <1>3, <1>7, <1>12, <1>14, <1>19
  <2>3. CASE f # x
    <3>1. f \in h.map /\ f # e
      BY <2>1, <2>3, <1>2 DEF x
    <3>2. /\ f \in [size : Nat, n_indx : Nat]
          /\ f.n_indx \in UsedIn(h) \ {Dummy} /\ h.node[f.n_indx].free
          /\ h.node[f.n_indx].it = f /\ h.node[f.n_indx].size = f.size
      BY <3>1, <1>1 DEF Mapped
    <3>3. f.n_indx # n
      BY <3>1, <3>2, <1>2
    <3> QED BY <3>2, <3>3, <1>18, <1>19
  <2> QED BY <2>2, <2>3
<1>23. Kept(h, g, n)
  BY <1>2, <1>11, <1>14, <1>18, <1>19 DEF Kept
<1>24. ASSUME Complete(h) PROVE Complete(g)
  <2>1. Charted(h) /\ Spread(h) /\ Spanning(h)
    BY <1>24 DEF Complete
  <2>2. nx # None => ~h.node[nx].free
    BY <1>2, <2>1 DEF Spread, IsFree
  <2>3. \A i \in UsedIn(g) : g.node[i].free => i = top \/ (i \in UsedIn(h) \ {n} /\ h.node[i].free)
    BY <1>11, <1>18, <1>19
  <2>4. Charted(g)
    <3>1. x \in g.map /\ x.n_indx = top
      BY <1>2 DEF x, Entry
    <3>2. ASSUME NEW i \in UsedIn(h) \ {n}, h.node[i].free
          PROVE  g.node[i].it \in g.map /\ g.node[i].it.n_indx = i
      <4>1. h.node[i].it \in h.map /\ h.node[i].it.n_indx = i /\ g.node[i].it = h.node[i].it
        BY <3>2, <2>1, <1>18 DEF Charted
      <4>2. h.node[i].it # e
        BY <3>2, <4>1
      <4> QED BY <4>1, <4>2
    <3> QED BY <3>1, <3>2, <2>3, <1>14 DEF Charted
  <2>5. Spread(g)
    <3>1. ~IsFree(g, g.node[top].next)
      <4>1. nx # None => ~g.node[nx].free
        BY <2>2, <1>16
      <4> QED BY <4>1, <1>13 DEF IsFree
    <3>2. ASSUME NEW i \in UsedIn(h) \ {n}, h.node[i].free, IsFree(g, g.node[i].next) PROVE FALSE
      <4>1. g.node[i].next = h.node[i].next
        BY <3>2, <1>18
      <4>2. h.node[i].next # None /\ g.node[h.node[i].next].free
        BY <3>2, <4>1 DEF IsFree
      <4>3. h.node[i].next \in UsedIn(h)
        BY <3>2, <4>2, <1>1 DEF Linked
      <4>4. h.node[i].next # n
        BY <4>2, <1>11
      <4>5. h.node[h.node[i].next].free
        BY <4>2, <4>3, <4>4, <1>18
      <4> QED BY <3>2, <4>2, <4>5, <2>1 DEF Spread, IsFree
    <3> QED BY <3>1, <3>2, <2>3 DEF Spread
  <2>6. Spanning(g)
    <3>1. Dummy \in UsedIn(h) \ {n}
      BY <1>1, <1>2 DEF Linked
    <3>2. g.node[Dummy].size = 0 /\ g.node[Dummy].mem_ptr = 0
      BY <3>1, <2>1, <1>18 DEF Spanning
    <3>3. ASSUME NEW i \in UsedIn(g), g.node[i].next = None
          PROVE  g.node[i].mem_ptr + g.node[i].size = N
      <4>1. CASE i = top
        <5>1. h.node[n].mem_ptr + h.node[n].size = N
          BY <3>3, <4>1, <1>2, <1>13, <2>1 DEF Spanning
        <5>2. h.node[n].mem_ptr \in Nat /\ h.node[n].size \in Nat
          BY <1>4, <1>5
        <5>3. g.node[top].mem_ptr + g.node[top].size = N
          <6> HIDE DEF n, top
          <6> QED BY <5>1, <5>2, <1>7, <1>12
        <5> QED BY <4>1, <5>3
      <4>2. CASE i = n
        BY <3>3, <4>2, <1>3, <1>5, <1>9 DEF None
      <4>3. CASE i # n /\ i # top
        <5>1. i \in UsedIn(h) \ {n}
          BY <4>3, <1>19
        <5> QED BY <3>3, <5>1, <2>1, <1>18 DEF Spanning
      <4> QED BY <4>1, <4>2, <4>3
    <3> QED BY <3>2, <3>3 DEF Spanning
  <2> QED BY <2>4, <2>5, <2>6 DEF Complete
<1> QED BY <1>9, <1>10, <1>19, <1>20, <1>21, <1>22, <1>23, <1>24 DEF ListInv

\* Taking a free block as it is keeps the list sound.
LEMMA TakeOK ==
  ASSUME NEW h, NEW g, ListInv(h), NEW e \in h.map,
         /\ DOMAIN g.node = DOMAIN h.node
         /\ g.node = [i \in DOMAIN g.node |-> g.node[i]]
         /\ g.node[e.n_indx] = Taken(h.node[e.n_indx])
         /\ \A i \in DOMAIN h.node \ {e.n_indx} : g.node[i] = h.node[i]
         /\ g.stack = h.stack
         /\ g.map = h.map \ {e}
  PROVE  /\ ListInv(g) /\ Kept(h, g, e.n_indx) /\ (Complete(h) => Complete(g))
         /\ g.node[e.n_indx].size = e.size
         /\ g.node[e.n_indx].mem_ptr = h.node[e.n_indx].mem_ptr
<1> DEFINE n == e.n_indx
<1>1. Typed(h) /\ Linked(h) /\ Apart(h) /\ Mapped(h)
  BY DEF ListInv
<1>2. /\ n \in UsedIn(h) \ {Dummy} /\ h.node[n].it = e /\ h.node[n].size = e.size
      /\ n \in DOMAIN h.node /\ h.node[n] \in NodeType
  BY <1>1, NodeTyped DEF Mapped, UsedIn
<1>3. /\ g.node[n] \in NodeType
      /\ g.node[n].size = h.node[n].size /\ g.node[n].mem_ptr = h.node[n].mem_ptr
      /\ g.node[n].prev = h.node[n].prev /\ g.node[n].next = h.node[n].next
  BY <1>2, TakenNode
<1>4. ~g.node[n].free
  <2>1. ~Taken(h.node[n]).free
    BY <1>2, TakenFree
  <2> QED BY <2>1, Zenon
<1>5. Typed(g) /\ UsedIn(g) = UsedIn(h) /\ Linked(g) /\ Apart(g)
  BY <1>1, <1>2, <1>3, Marked
<1>6. \A i \in UsedIn(h) \ {n} : g.node[i] = h.node[i]
  BY DEF UsedIn
<1>7. Mapped(g)
  <2>1. SUFFICES ASSUME NEW f \in g.map
                 PROVE  /\ f \in [size : Nat, n_indx : Nat]
                        /\ f.n_indx \in UsedIn(g) \ {Dummy} /\ g.node[f.n_indx].free
                        /\ g.node[f.n_indx].it = f /\ g.node[f.n_indx].size = f.size
    BY DEF Mapped
  <2>2. /\ f \in [size : Nat, n_indx : Nat]
        /\ f.n_indx \in UsedIn(h) \ {Dummy} /\ h.node[f.n_indx].free
        /\ h.node[f.n_indx].it = f /\ h.node[f.n_indx].size = f.size
    BY <2>1, <1>1 DEF Mapped
  <2>3. f.n_indx # n
    BY <2>1, <2>2, <1>2
  <2> QED BY <2>2, <2>3, <1>5, <1>6
<1>8. Kept(h, g, n)
  BY <1>2, <1>4, <1>5, <1>6 DEF Kept
<1>9. ASSUME Complete(h) PROVE Complete(g)
  <2>1. Charted(h) /\ Spread(h) /\ Spanning(h)
    BY <1>9 DEF Complete
  <2>2. Charted(g)
    <3>1. ASSUME NEW i \in UsedIn(h) \ {n}, h.node[i].free
          PROVE  h.node[i].it \in g.map /\ h.node[i].it.n_indx = i
      <4>1. h.node[i].it \in h.map /\ h.node[i].it.n_indx = i
        BY <3>1, <2>1 DEF Charted
      <4>2. h.node[i].it # e
        BY <3>1, <4>1
      <4> QED BY <4>1, <4>2
    <3> QED BY <3>1, <1>4, <1>5, <1>6 DEF Charted
  <2>3. \A i \in UsedIn(h) : g.node[i].next = h.node[i].next /\ (g.node[i].free => h.node[i].free)
    BY <1>3, <1>4, <1>6
  <2>4. Spread(g)
    <3>1. ASSUME NEW i \in UsedIn(g), g.node[i].free, IsFree(g, g.node[i].next) PROVE FALSE
      <4>1. i \in UsedIn(h) /\ h.node[i].free /\ h.node[i].next # None /\ g.node[h.node[i].next].free
        BY <3>1, <2>3, <1>5 DEF IsFree
      <4>2. h.node[i].next \in UsedIn(h)
        BY <4>1, <1>1 DEF Linked
      <4> QED BY <4>1, <4>2, <2>1, <2>3 DEF Spread, IsFree
    <3> QED BY <3>1 DEF Spread
  <2>5. Spanning(g)
    <3>1. Dummy \in UsedIn(h) \ {n}
      BY <1>1, <1>2 DEF Linked
    <3> QED BY <3>1, <2>1, <1>3, <1>5, <1>6 DEF Spanning
  <2> QED BY <2>2, <2>4, <2>5 DEF Complete
<1> QED BY <1>2, <1>3, <1>5, <1>7, <1>8, <1>9 DEF ListInv

\* Giving a block back keeps the list sound.
LEMMA ReleaseOK ==
  ASSUME NEW h, NEW g, ListInv(h), NEW n \in UsedIn(h) \ {Dummy}, ~h.node[n].free,
         /\ DOMAIN g.node = DOMAIN h.node
         /\ g.node = [i \in DOMAIN g.node |-> g.node[i]]
         /\ g.node[n] = Released(h.node[n], Entry(h.node[n].size, n))
         /\ \A i \in DOMAIN h.node \ {n} : g.node[i] = h.node[i]
         /\ g.stack = h.stack
         /\ g.map = h.map \cup {Entry(h.node[n].size, n)}
  PROVE  /\ ListInv(g) /\ UsedIn(g) = UsedIn(h) /\ g.node[n].free
         /\ \A i \in UsedIn(h) \ {n} : g.node[i] = h.node[i]
         /\ Complete(h) /\ ~IsFree(h, h.node[n].prev) /\ ~IsFree(h, h.node[n].next) => Complete(g)
<1> DEFINE x == Entry(h.node[n].size, n)
<1>1. Typed(h) /\ Linked(h) /\ Apart(h) /\ Mapped(h)
  BY DEF ListInv
<1>2. n \in DOMAIN h.node /\ h.node[n] \in NodeType /\ n \in Nat /\ h.node[n].size \in Nat
  BY <1>1, NodeTyped DEF UsedIn
<1>3. x \in [size : Nat, n_indx : Nat] /\ x.n_indx = n /\ x.size = h.node[n].size
  BY <1>2 DEF Entry
<1>4. g.node[n] = Released(h.node[n], x)
  OBVIOUS
<1> HIDE DEF x
<1>5. /\ g.node[n] \in NodeType
      /\ g.node[n].size = h.node[n].size /\ g.node[n].mem_ptr = h.node[n].mem_ptr
      /\ g.node[n].prev = h.node[n].prev /\ g.node[n].next = h.node[n].next
  BY <1>2, <1>3, <1>4, ReleasedNode
<1>6. g.node[n].free
  <2>1. Released(h.node[n], x).free
    BY <1>2, ReleasedFree
  <2> QED BY <2>1, <1>4, Zenon
<1>7. g.node[n].it = x
  <2>1. Released(h.node[n], x).it = x
    BY <1>2, ReleasedFree
  <2> QED BY <2>1, <1>4, Zenon
<1>8. Typed(g) /\ UsedIn(g) = UsedIn(h) /\ Linked(g) /\ Apart(g)
  BY <1>1, <1>5, Marked
<1>9. \A i \in UsedIn(h) \ {n} : g.node[i] = h.node[i]
  BY DEF UsedIn
<1>10. Mapped(g)
  <2>1. SUFFICES ASSUME NEW f \in g.map
                 PROVE  /\ f \in [size : Nat, n_indx : Nat]
                        /\ f.n_indx \in UsedIn(g) \ {Dummy} /\ g.node[f.n_indx].free
                        /\ g.node[f.n_indx].it = f /\ g.node[f.n_indx].size = f.size
    BY DEF Mapped
  <2>2. CASE f = x
    BY <2>2, <1>3, <1>5, <1>6, <1>7, <1>8
  <2>3. CASE f # x
    <3>1. f \in h.map
      BY <2>1, <2>3 DEF x
    <3>2. /\ f \in [size : Nat, n_indx : Nat]
          /\ f.n_indx \in UsedIn(h) \ {Dummy} /\ h.node[f.n_indx].free
          /\ h.node[f.n_indx].it = f /\ h.node[f.n_indx].size = f.size
      BY <3>1, <1>1 DEF Mapped
    <3>3. f.n_indx # n
      BY <3>2
    <3> QED BY <3>2, <3>3, <1>8, <1>9
  <2> QED BY <2>2, <2>3
<1>11. ASSUME Complete(h), ~IsFree(h, h.node[n].prev), ~IsFree(h, h.node[n].next)
       PROVE  Complete(g)
  <2>1. Charted(h) /\ Spread(h) /\ Spanning(h)
    BY <1>11 DEF Complete
  <2>2. Charted(g)
    <3>1. x \in g.map
      BY DEF x
    <3> QED BY <3>1, <2>1, <1>3, <1>7, <1>8, <1>9 DEF Charted
  <2>3. Spread(g)
    <3>1. ASSUME NEW i \in UsedIn(h) \ {n}, g.node[i].free, IsFree(g, g.node[i].next) PROVE FALSE
      <4>1. h.node[i].free /\ h.node[i].next # None /\ g.node[h.node[i].next].free
        BY <3>1, <1>9 DEF IsFree
      <4>2. h.node[i].next \in UsedIn(h) /\ h.node[h.node[i].next].prev = i
        BY <3>1, <4>1, <1>1 DEF Linked
      <4>3. i # None
        BY <3>1, <1>1, NodeTyped DEF UsedIn, None
      <4>4. CASE h.node[i].next = n
        BY <4>1, <4>2, <4>3, <4>4, <1>11 DEF IsFree
      <4>5. CASE h.node[i].next # n
        BY <3>1, <4>1, <4>2, <4>5, <1>9, <2>1 DEF Spread, IsFree
      <4> QED BY <4>4, <4>5
    <3>2. ASSUME IsFree(g, g.node[n].next) PROVE FALSE
      <4>1. h.node[n].next # None /\ g.node[h.node[n].next].free
        BY <3>2, <1>5 DEF IsFree
      <4>2. /\ h.node[n].next \in UsedIn(h)
            /\ h.node[h.node[n].next].mem_ptr = h.node[n].mem_ptr + h.node[n].size
            /\ h.node[n].size > 0
        BY <4>1, <1>1 DEF Linked
      <4>3. h.node[n].mem_ptr \in Nat
        BY <1>1, <1>2, NodeTyped
      <4>4. h.node[n].next # n
        BY <4>2, <4>3, <1>2
      <4> QED BY <4>1, <4>2, <4>4, <1>9, <1>11 DEF IsFree
    <3> QED BY <3>1, <3>2, <1>8 DEF Spread
  <2>4. Spanning(g)
    <3>1. Dummy \in UsedIn(h) \ {n}
      BY <1>1 DEF Linked
    <3> QED BY <3>1, <2>1, <1>5, <1>8, <1>9 DEF Spanning
  <2> QED BY <2>2, <2>3, <2>4 DEF Complete
<1> QED BY <1>6, <1>8, <1>9, <1>10, <1>11 DEF ListInv

\* A longer node_buff has the same list.
LEMMA LongerOK ==
  ASSUME NEW h, NEW g, ListInv(h),
         g.node = Append(h.node, Unused), g.stack = Append(h.stack, Len(h.node) + 1),
         g.map = h.map
  PROVE  ListInv(g) /\ UsedIn(g) = UsedIn(h) /\ g.stack # <<>> /\ (Complete(h) => Complete(g))
         /\ \A i \in UsedIn(h) : g.node[i] = h.node[i]
<1> DEFINE m == Len(h.node) + 1
<1>1. Typed(h) /\ Linked(h) /\ Apart(h) /\ Mapped(h)
  BY DEF ListInv
<1>2. h.node \in Seq(NodeType) /\ h.stack \in Seq(Nat)
  BY <1>1 DEF Typed
<1>3. /\ DOMAIN h.node = 1..Len(h.node) /\ Len(h.node) \in Nat
      /\ DOMAIN h.stack = 1..Len(h.stack) /\ Len(h.stack) \in Nat
  BY <1>2
<1>4. Dummy \in DOMAIN h.node
  BY <1>1 DEF Linked, UsedIn
<1>5. m \in Nat /\ m \notin DOMAIN h.node /\ m # Dummy
  BY <1>3, <1>4
<1>6. Unused \in NodeType
  BY DEF NodeType, Unused, NoFit, Entry, None
<1>7. /\ g.node \in Seq(NodeType) /\ DOMAIN g.node = DOMAIN h.node \cup {m}
      /\ \A i \in DOMAIN h.node : g.node[i] = h.node[i]
  <2> HIDE DEF m
  <2>1. /\ g.node \in Seq(NodeType) /\ Len(g.node) = Len(h.node) + 1
        /\ \A i \in 1..Len(h.node) : g.node[i] = h.node[i]
    BY <1>2, <1>6, AppendProperties
  <2>2. DOMAIN g.node = 1..(Len(h.node) + 1)
    BY <2>1
  <2>3. DOMAIN g.node = DOMAIN h.node \cup {m}
    BY <2>2, <1>3 DEF m
  <2> QED BY <2>1, <2>3, <1>3
<1>8. /\ g.stack \in Seq(Nat) /\ DOMAIN g.stack = DOMAIN h.stack \cup {Len(h.stack) + 1}
      /\ Len(h.stack) + 1 \notin DOMAIN h.stack
      /\ \A k \in DOMAIN h.stack : g.stack[k] = h.stack[k]
      /\ g.stack[Len(h.stack) + 1] = m
  <2>1. g.stack = Append(h.stack, m)
    OBVIOUS
  <2> HIDE DEF m
  <2>2. /\ g.stack \in Seq(Nat) /\ Len(g.stack) = Len(h.stack) + 1
        /\ \A k \in 1..Len(h.stack) : g.stack[k] = h.stack[k]
        /\ g.stack[Len(h.stack) + 1] = m
    BY <2>1, <1>2, <1>5, AppendProperties
  <2>3. DOMAIN g.stack = 1..(Len(h.stack) + 1)
    BY <2>2
  <2>4. DOMAIN g.stack = DOMAIN h.stack \cup {Len(h.stack) + 1}
    BY <2>3, <1>3
  <2> QED BY <2>2, <2>4, <1>3
<1> HIDE DEF m
<1>9. Typed(g)
  <2>1. \A k \in DOMAIN g.stack : g.stack[k] \in DOMAIN g.node \ {Dummy}
    BY <1>1, <1>5, <1>7, <1>8 DEF Typed
  <2>2. \A k, l \in DOMAIN g.stack : g.stack[k] = g.stack[l] => k = l
    BY <1>1, <1>5, <1>8 DEF Typed
  <2> QED BY <2>1, <2>2, <1>7, <1>8 DEF Typed
<1>10. UsedIn(g) = UsedIn(h)
  <2>1. {g.stack[k] : k \in DOMAIN g.stack} = {h.stack[k] : k \in DOMAIN h.stack} \cup {m}
    BY <1>8
  <2> QED BY <2>1, <1>5, <1>7 DEF UsedIn
<1>11. \A i \in UsedIn(h) : g.node[i] = h.node[i]
  BY <1>7 DEF UsedIn
<1>12. \A i \in UsedIn(h) :
         /\ g.node[i].size = h.node[i].size /\ g.node[i].mem_ptr = h.node[i].mem_ptr
         /\ g.node[i].prev = h.node[i].prev /\ g.node[i].next = h.node[i].next
  BY <1>11
<1>13. ~g.node[Dummy].free
  BY <1>1, <1>11 DEF Linked
<1>14. Linked(g) /\ Apart(g)
  BY <1>1, <1>10, <1>12, <1>13, SameLinks
<1>15. Mapped(g)
  BY <1>1, <1>10, <1>11 DEF Mapped
<1>16. g.stack # <<>>
  BY <1>8
<1>17. ASSUME Complete(h) PROVE Complete(g)
  <2>1. Charted(h) /\ Spread(h) /\ Spanning(h) /\ Dummy \in UsedIn(h)
    BY <1>1, <1>17 DEF Complete, Linked
  <2>2. \A i \in UsedIn(h) : h.node[i].next # None => h.node[i].next \in UsedIn(h)
    BY <1>1 DEF Linked
  <2>3. Spread(g)
    BY <2>1, <2>2, <1>10, <1>11 DEF Spread, IsFree
  <2>4. Charted(g)
    BY <2>1, <1>10, <1>11 DEF Charted
  <2>5. Spanning(g)
    BY <2>1, <1>10, <1>11 DEF Spanning
  <2> QED BY <2>3, <2>4, <2>5 DEF Complete
<1> QED BY <1>9, <1>10, <1>11, <1>13, <1>14, <1>15, <1>16, <1>17 DEF ListInv

----------------------------------------------------------------------------
(* The invariant *)

\* At the start the whole buffer is one free block.
LEMMA InitInv == Init => IInv
<1> SUFFICES ASSUME Init PROVE IInv
  OBVIOUS
<1> USE ParametersAssumption
<1> DEFINE first == [Unused EXCEPT !.next = 2]
           whole == [Unused EXCEPT !.free = TRUE, !.size = N, !.prev = Dummy, !.it = Entry(N, 2)]
<1>1. Lists.node = <<first, whole>> /\ Lists.stack = <<>> /\ Lists.map = {Entry(N, 2)}
  BY DEF Init, Lists
<1>2. Unused \in NodeType /\ ~Unused.free /\ Unused.mem_ptr = 0 /\ Unused.next = 0
  BY DEF Unused, NoFit, Entry, None, NodeType
<1>3. first \in NodeType /\ first.next = 2 /\ first.size = 0 /\ first.mem_ptr = 0
  <2>1. Unused.size = 0
    BY DEF Unused
  <2>2. first \in NodeType
    BY <1>2, OneField
  <2> QED BY <1>2, <2>1, <2>2 DEF NodeType
<1>4. ~first.free
  BY <1>2 DEF NodeType
<1>5. whole \in NodeType
  <2>1. N \in Nat /\ Dummy \in Nat /\ Entry(N, 2) \in [size : Nat, n_indx : Nat]
    BY DEF Dummy, Entry
  <2>2. [Unused EXCEPT !.free = TRUE] \in NodeType
    BY <1>2 DEF NodeType
  <2>3. [Unused EXCEPT !.free = TRUE, !.size = N] \in NodeType
    BY <2>1, <2>2, OneField
  <2>4. [Unused EXCEPT !.free = TRUE, !.size = N, !.prev = Dummy] \in NodeType
    BY <2>1, <2>3, OneField
  <2>5. \A y \in NodeType, x \in [size : Nat, n_indx : Nat] : [y EXCEPT !.it = x] \in NodeType
    BY DEF NodeType
  <2> QED BY <2>1, <2>4, <2>5
<1>6. whole.size = N /\ whole.prev = Dummy /\ whole.it = Entry(N, 2)
  BY <1>2 DEF NodeType
<1>7. whole.mem_ptr = 0 /\ whole.next = 0
  BY <1>2 DEF NodeType
<1>8. whole.free
  BY <1>2 DEF NodeType
<1> HIDE DEF first, whole
<1>9. /\ Lists.node \in Seq(NodeType) /\ DOMAIN Lists.node = {1, 2}
      /\ Lists.node[1] = first /\ Lists.node[2] = whole
      /\ Lists.stack \in Seq(Nat) /\ DOMAIN Lists.stack = {}
  BY <1>1, <1>3, <1>5
<1>10. Typed(Lists) /\ UsedIn(Lists) = {1, 2}
  BY <1>9 DEF Typed, UsedIn
<1>11. ListInv(Lists)
  <2>1. Linked(Lists)
    <3>1. Dummy \in UsedIn(Lists) /\ ~Lists.node[Dummy].free
      BY <1>4, <1>9, <1>10 DEF Dummy
    <3>2. Lists.node[1].next = 2 /\ Lists.node[2].next = None
      BY <1>3, <1>7, <1>9 DEF None
    <3>3. Lists.node[2].size = N /\ Lists.node[2].mem_ptr = 0 /\ Lists.node[2].prev = 1
      BY <1>6, <1>7, <1>9 DEF Dummy
    <3>4. Lists.node[2].mem_ptr = Lists.node[1].mem_ptr + Lists.node[1].size
      BY <1>3, <1>9, <3>3
    <3> QED BY <1>10, <3>1, <3>2, <3>3, <3>4 DEF Linked, Dummy, None
  <2>2. Apart(Lists)
    BY <1>10 DEF Apart, Dummy
  <2>3. Mapped(Lists)
    BY <1>1, <1>6, <1>8, <1>9, <1>10 DEF Mapped, Entry, Dummy
  <2> QED BY <1>10, <2>1, <2>2, <2>3 DEF ListInv
<1>12. LocalsTyped
  BY DEF Init, LocalsTyped, NoLocals, NoFit, Entry, None, System, InitVal
<1>13. Chosen
  BY DEF Init, Chosen
<1>14. Ownership
  BY DEF Init, Ownership, Owning
<1>15. Complete(Lists)
  <2>1. Charted(Lists)
    BY <1>1, <1>4, <1>6, <1>9, <1>10 DEF Charted, Entry
  <2>2. Lists.node[2].next = None
    BY <1>7, <1>9 DEF None
  <2>3. Spread(Lists)
    BY <2>2, <1>4, <1>9, <1>10 DEF Spread, IsFree
  <2>4. Spanning(Lists)
    BY <2>2, <1>3, <1>6, <1>7, <1>9, <1>10 DEF Spanning, Dummy, None
  <2> QED BY <2>1, <2>3, <2>4 DEF Complete
<1>16. NoneLost
  <2>1. Lists.node = node_buff
    BY DEF Lists
  <2> QED BY <2>1, <1>8, <1>9, <1>10 DEF NoneLost, Dummy
<1> QED BY <1>11, <1>12, <1>13, <1>14, <1>15, <1>16 DEF IInv

\* The parts of the invariant, spelled out for Lists.
LEMMA ListsFields ==
  Lists.node = node_buff /\ Lists.stack = node_stack /\ Lists.map = free_map
  BY DEF Lists

\* A block that is owned lies in the buffer.
LEMMA OwnedPlace ==
  ASSUME ListInv(Lists), NEW n, NEW base \in Nat, NEW n_elem \in Nat, Owned(n, base, n_elem)
  PROVE  /\ n \in DOMAIN node_buff /\ n \in Nat
         /\ base \in Cell /\ base + n_elem + Header <= N
<1>1. n \in UsedIn(Lists) \ {Dummy} /\ node_buff[n].mem_ptr = base /\ node_buff[n].size = n_elem + Header
  BY DEF Owned
<1>2. n \in DOMAIN node_buff /\ n \in Nat
  BY <1>1, NodeTyped, ListsFields DEF UsedIn, ListInv
<1>3. node_buff[n].mem_ptr + node_buff[n].size <= N
  BY <1>1, ListsFields DEF ListInv, Linked
<1> QED BY <1>1, <1>2, <1>3, ParametersAssumption DEF Cell, Header

\* The blocks of two nodes do not overlap.
LEMMA OwnedApart ==
  ASSUME ListInv(Lists), NEW n, NEW base \in Nat, NEW n_elem \in Nat, Owned(n, base, n_elem),
         NEW m, NEW other \in Nat, NEW m_elem \in Nat, Owned(m, other, m_elem), n # m
  PROVE  \/ base + n_elem + Header <= other
         \/ other + m_elem + Header <= base
<1>1. /\ n \in UsedIn(Lists) \ {Dummy} /\ m \in UsedIn(Lists) \ {Dummy}
      /\ node_buff[n].mem_ptr = base /\ node_buff[n].size = n_elem + Header
      /\ node_buff[m].mem_ptr = other /\ node_buff[m].size = m_elem + Header
  BY DEF Owned
<1>2. \/ node_buff[n].mem_ptr + node_buff[n].size <= node_buff[m].mem_ptr
      \/ node_buff[m].mem_ptr + node_buff[m].size <= node_buff[n].mem_ptr
  BY <1>1, ListsFields DEF ListInv, Apart
<1> QED BY <1>1, <1>2 DEF Header

\* Who owns a node that is kept still owns it.
LEMMA KeptOwned ==
  ASSUME NEW n, Kept(Lists, Lists', n), NEW i, i # n, NEW base, NEW n_elem, Owned(i, base, n_elem)
  PROVE  Owned(i, base, n_elem)'
<1>1. Lists'.node = node_buff'
  BY DEF Lists
<1> QED BY <1>1, ListsFields DEF Kept, Owned

LEMMA SameOwned ==
  ASSUME UNCHANGED list, NEW i, NEW base, NEW n_elem, Owned(i, base, n_elem)
  PROVE  Owned(i, base, n_elem)'
  BY DEF list, Owned, UsedIn, Lists

LEMMA SameLists ==
  ASSUME UNCHANGED list, ListInv(Lists), Complete(Lists)
  PROVE  ListInv(Lists') /\ Complete(Lists') /\ UsedIn(Lists') = UsedIn(Lists)
<1>1. Lists' = Lists
  BY DEF list, Lists
<1> QED BY <1>1

\* Steps that leave the list, the memory and the callers' blocks alone, and
\* that change at most one thread, which owns nothing before or after.
LEMMA IdleStep ==
  ASSUME IInv, UNCHANGED <<list, mem, live>>, NEW t \in Threads,
         pc[t] \notin {"filled", "free"}, pc'[t] \notin {"filled", "free"},
         LocalsTyped', Chosen',
         \A u \in Threads \ {t} : pc'[u] = pc[u] /\ loc'[u] = loc[u]
  PROVE  IInv'
<1>1. ListInv(Lists') /\ Complete(Lists') /\ UsedIn(Lists') = UsedIn(Lists)
  BY SameLists DEF IInv
<1>2. Owning' = Owning /\ \A u \in Owning : u # t /\ loc'[u] = loc[u]
  BY DEF Owning
<1>3. UNCHANGED list /\ mem' = mem /\ live' = live
  OBVIOUS
<1>4. Ownership'
  BY <1>2, <1>3, SameOwned DEF IInv, Ownership
<1>5. NoneLost'
  BY <1>1, <1>2, <1>3 DEF IInv, NoneLost, list
<1> QED BY <1>1, <1>4, <1>5 DEF IInv

\* malloc takes the lock with a block in mind that is large enough.
LEMMA MallocLockInv ==
  ASSUME IInv, NEW t \in Threads, NEW n_elem \in Requests, MallocLock(t, n_elem)
  PROVE  IInv'
<1> USE ParametersAssumption
<1>1. PICK e \in Fits(n_elem + Header) :
        /\ loc' = [loc EXCEPT ![t] = [n_elem |-> n_elem, fit |-> e, base |-> System]]
        /\ pc' = [pc EXCEPT ![t] = IF Splits(e, n_elem + Header) /\ node_stack = <<>>
                                    THEN "resize" ELSE "carve"]
  BY DEF MallocLock, Goto
<1>2. /\ pc[t] = "idle" /\ lock = Nobody /\ lock' = t
      /\ UNCHANGED <<list, mem, live>>
  BY DEF MallocLock
<1>3. e = NoFit \/ (e \in free_map /\ e.size >= n_elem + Header)
  BY <1>1 DEF Fits, LargeEnough
<1>4. e \in [size : Nat, n_indx : Nat]
  BY <1>3, ListsFields DEF IInv, ListInv, Mapped, NoFit, Entry, None
<1>5. LocalsTyped'
  BY <1>1, <1>2, <1>4 DEF IInv, LocalsTyped, System
<1>6. ASSUME NEW u \in Threads \ {t} PROVE pc'[u] = pc[u] /\ loc'[u] = loc[u]
  BY <1>1 DEF IInv, LocalsTyped
<1>7. pc'[t] \in {"resize", "carve"} /\ loc'[t].fit = e /\ loc'[t].n_elem = n_elem
      /\ (pc'[t] = "carve" => ~Splits(e, n_elem + Header) \/ node_stack # <<>>)
  BY <1>1 DEF IInv, LocalsTyped
<1>8. Chosen'
  <2>1. SUFFICES ASSUME NEW u \in Threads
        PROVE /\ pc'[u] \in {"resize", "carve"} <=> lock' = u
              /\ pc'[u] \in {"resize", "carve"} =>
                   loc'[u].fit = NoFit \/ (loc'[u].fit \in free_map' /\ loc'[u].fit.size >= loc'[u].n_elem + Header)
              /\ pc'[u] = "carve" /\ Splits(loc'[u].fit, loc'[u].n_elem + Header) => node_stack' # <<>>
    BY DEF Chosen, Splits, NoFit, Header, Entry, None
  <2>2. CASE u = t
    BY <2>2, <1>2, <1>3, <1>7 DEF list
  <2>3. CASE u # t
    <3>1. pc[u] \notin {"resize", "carve"}
      BY <1>2, <2>3 DEF IInv, Chosen
    <3> QED BY <3>1, <2>3, <1>2, <1>6
  <2> QED BY <2>2, <2>3
<1> QED BY <1>2, <1>5, <1>6, <1>7, <1>8, IdleStep

\* The list with one more unused node is the same list.
LEMMA ResizeInv ==
  ASSUME IInv, NEW t \in Threads, Resize(t)
  PROVE  IInv'
<1>1. /\ pc[t] = "resize" /\ pc' = [pc EXCEPT ![t] = "carve"]
      /\ node_buff' = Append(node_buff, Unused)
      /\ node_stack' = Append(node_stack, Len(node_buff) + 1)
      /\ UNCHANGED <<free_map, mem, lock, loc, live>>
  BY DEF Resize, Goto, callers
<1>2. /\ Lists'.node = Append(Lists.node, Unused)
      /\ Lists'.stack = Append(Lists.stack, Len(Lists.node) + 1)
      /\ Lists'.map = Lists.map
  BY <1>1 DEF Lists
<1>3. /\ ListInv(Lists') /\ Complete(Lists') /\ UsedIn(Lists') = UsedIn(Lists)
      /\ Lists'.stack # <<>>
      /\ \A i \in UsedIn(Lists) : Lists'.node[i] = Lists.node[i]
  BY <1>2, LongerOK DEF IInv
<1>4. LocalsTyped'
  BY <1>1 DEF IInv, LocalsTyped
<1>5. \A u \in Threads : u # t => pc'[u] = pc[u]
  BY <1>1 DEF IInv, LocalsTyped
<1>6. pc'[t] = "carve"
  BY <1>1 DEF IInv, LocalsTyped
<1>7. Chosen'
  <2>1. node_stack' # <<>>
    BY <1>3 DEF Lists
  <2>2. ASSUME NEW u \in Threads
        PROVE /\ pc'[u] \in {"resize", "carve"} <=> pc[u] \in {"resize", "carve"}
    BY <1>1, <1>5, <1>6
  <2> QED BY <1>1, <2>1, <2>2 DEF IInv, Chosen
<1>8. Owning' = Owning
  BY <1>1, <1>5, <1>6 DEF Owning
<1>9. ASSUME NEW i, NEW base, NEW n_elem, Owned(i, base, n_elem) PROVE Owned(i, base, n_elem)'
  <2>1. i \in UsedIn(Lists) /\ Lists'.node = node_buff' /\ node_buff'[i] = node_buff[i]
    BY <1>3, <1>9, ListsFields DEF Owned, Lists
  <2> QED BY <2>1, <1>3, <1>9 DEF Owned
<1>10. Ownership'
  BY <1>1, <1>8, <1>9 DEF IInv, Ownership
<1>11. NoneLost'
  <2>1. \A i \in UsedIn(Lists) : node_buff'[i] = node_buff[i]
    BY <1>3, ListsFields DEF Lists
  <2> QED BY <2>1, <1>1, <1>3, <1>8 DEF IInv, NoneLost
<1> QED BY <1>3, <1>4, <1>7, <1>10, <1>11 DEF IInv

\* A step that changes none of what the invariant is about.
LEMMA QuietInv ==
  ASSUME IInv, UNCHANGED <<list, mem, lock, pc, loc, live>>
  PROVE  IInv'
<1>1. ListInv(Lists') /\ Complete(Lists') /\ UsedIn(Lists') = UsedIn(Lists)
  BY SameLists DEF IInv
<1>2. LocalsTyped'
  BY DEF IInv, LocalsTyped
<1>3. Chosen'
  BY DEF IInv, Chosen, list
<1>4. Owning' = Owning
  BY DEF Owning
<1>5. UNCHANGED list
  OBVIOUS
<1>6. Ownership'
  BY <1>4, <1>5, SameOwned DEF IInv, Ownership
<1>7. NoneLost'
  BY <1>1, <1>4, <1>5 DEF IInv, NoneLost, list
<1> QED BY <1>1, <1>2, <1>3, <1>6, <1>7 DEF IInv

\* SplitNode in the words of the lemma about splitting.
LEMMA SplitNodeParts ==
  ASSUME ListInv(Lists), node_stack # <<>>, NEW e \in free_map, NEW size,
         NEW g, g = SplitNode(e.n_indx, Last(node_stack), size)
  PROVE  NodesSplit(node_buff, g, e, Last(node_stack), size)
<1> DEFINE n == e.n_indx
           top == Last(node_stack)
           nx == node_buff[n].next
           en == FirstPart(node_buff[n], size, top)
           et == RestOf(node_buff[n], size, n, Entry(node_buff[n].size - size, top))
<1>1. /\ n \in DOMAIN node_buff /\ n # top /\ top \in DOMAIN node_buff
      /\ nx # None => nx \in DOMAIN node_buff /\ nx # n /\ nx # top
  <2>1. /\ n \in UsedIn(Lists) \ {Dummy} /\ n \in DOMAIN node_buff /\ n # top
        /\ top \in DOMAIN node_buff
        /\ nx # None => nx \in UsedIn(Lists) \ {Dummy, n, top}
    BY SplitPlaces, ListsFields
  <2> QED BY <2>1, ListsFields DEF UsedIn
<1>2. \A i \in DOMAIN node_buff : i # None
  BY NodeTyped, ListsFields DEF ListInv, None
<1>3. g = [i \in DOMAIN node_buff |->
             CASE i = n -> en
               [] i = top -> et
               [] i = nx -> WithPrev(node_buff[i], top)
               [] OTHER -> node_buff[i]]
  BY DEF SplitNode, FirstPart, RestOf, WithPrev
<1>4. et = RestOf(node_buff[n], size, n, Entry(node_buff[n].size - size, top)) /\ en = FirstPart(node_buff[n], size, top)
  OBVIOUS
<1> HIDE DEF n, top, nx, en, et
<1>5. DOMAIN g = DOMAIN node_buff /\ g = [i \in DOMAIN g |-> g[i]]
  BY <1>3
<1>6. n # nx /\ top # nx
  BY <1>1, <1>2
<1>7. g[n] = en
  BY <1>1, <1>3, <1>6
<1>8. g[top] = et
  BY <1>1, <1>3, <1>6
<1>9. nx # None => g[nx] = WithPrev(node_buff[nx], top)
  <2>1. ASSUME nx # None PROVE g[nx] = WithPrev(node_buff[nx], top)
    <3>1. nx \in DOMAIN node_buff
      BY <1>1, <2>1
    <3> QED BY <3>1, <1>3, <1>6
  <2> QED BY <2>1
<1>10. \A i \in DOMAIN node_buff \ {n, top, nx} : g[i] = node_buff[i]
  BY <1>3
<1> QED BY <1>4, <1>5, <1>7, <1>8, <1>9, <1>10 DEF n, top, nx, NodesSplit

\* A thread that takes a free node owns it.
LEMMA TakenInv ==
  ASSUME IInv, NEW t \in Threads, NEW n \in UsedIn(Lists) \ {Dummy}, node_buff[n].free,
         ListInv(Lists'), Complete(Lists'), Kept(Lists, Lists', n), mem' = mem, live' = live, LocalsTyped', Chosen',
         pc[t] \notin {"filled", "free"}, pc'[t] = "filled",
         loc'[t].fit.n_indx = n,
         node_buff'[n].mem_ptr = loc'[t].base, node_buff'[n].size = loc'[t].n_elem + Header,
         \A u \in Threads \ {t} : pc'[u] = pc[u] /\ loc'[u] = loc[u]
  PROVE  IInv'
<1>1. Lists'.node = node_buff'
  BY DEF Lists
<1>2. Owned(n, loc[t].base, loc[t].n_elem)'
  BY <1>1 DEF Kept, Owned
<1>3. ASSUME NEW i, NEW base, NEW n_elem, Owned(i, base, n_elem)
      PROVE  i # n /\ Owned(i, base, n_elem)'
  <2>1. i # n
    BY <1>3 DEF Owned
  <2> QED BY <2>1, <1>3, KeptOwned
<1>4. Owning' = Owning \cup {t} /\ t \notin Owning
  BY DEF Owning
<1>5. \A u \in Owning : u \in Threads \ {t} /\ loc'[u] = loc[u]
  BY <1>4 DEF Owning
<1>6. Ownership'
  <2>1. ASSUME NEW u \in Owning'
        PROVE  Owned(loc[u].fit.n_indx, loc[u].base, loc[u].n_elem)'
    BY <2>1, <1>2, <1>3, <1>4, <1>5 DEF IInv, Ownership
  <2>2. ASSUME NEW b \in live PROVE Owned(mem[b.base], b.base, b.n_elem)' /\ mem[b.base] # n
    BY <2>2, <1>3 DEF IInv, Ownership
  <2>3. ASSUME NEW u \in Owning', NEW v \in Owning', u # v
        PROVE  loc'[u].fit.n_indx # loc'[v].fit.n_indx
    <3>1. ASSUME NEW w \in Owning PROVE loc'[w].fit.n_indx # n
      BY <3>1, <1>3, <1>5 DEF IInv, Ownership
    <3> QED BY <2>3, <3>1, <1>4, <1>5 DEF IInv, Ownership
  <2>4. ASSUME NEW u \in Owning', NEW b \in live PROVE loc'[u].fit.n_indx # mem[b.base]
    BY <2>2, <2>4, <1>4, <1>5 DEF IInv, Ownership
  <2> QED BY <2>1, <2>2, <2>3, <2>4 DEF Ownership
<1>7. NoneLost'
  <2>1. ASSUME NEW i \in UsedIn(Lists') \ {Dummy, n}, ~node_buff'[i].free
        PROVE  \/ \E b \in live : mem[b.base] = i
               \/ \E u \in Owning' : loc'[u].fit.n_indx = i
    <3>1. i \in UsedIn(Lists) \ {Dummy} /\ ~node_buff[i].free
      BY <2>1, <1>1, ListsFields DEF Kept
    <3> QED BY <3>1, <1>4, <1>5 DEF IInv, NoneLost
  <2>2. t \in Owning' /\ loc'[t].fit.n_indx = n
    BY <1>4
  <2> QED BY <2>1, <2>2 DEF NoneLost
<1> QED BY <1>6, <1>7 DEF IInv

\* malloc cuts off the block it chose.
LEMMA CarveInv ==
  ASSUME IInv, NEW t \in Threads, Carve(t)
  PROVE  IInv'
<1> USE ParametersAssumption
<1> DEFINE e == loc[t].fit
           size == loc[t].n_elem + Header
           n == e.n_indx
           top == Last(node_stack)
<1>1. pc[t] = "carve" /\ e # NoFit /\ mem' = mem /\ live' = live
  BY DEF Carve, callers
<1>2. lock = t /\ e \in free_map /\ e.size >= size
  BY <1>1 DEF IInv, Chosen
<1>3. size \in Nat \ {0} /\ loc[t].n_elem \in Nat
  BY DEF IInv, LocalsTyped, Header
<1>4. /\ n \in UsedIn(Lists) \ {Dummy} /\ node_buff[n].free /\ node_buff[n].size = e.size
      /\ e \in [size : Nat, n_indx : Nat] /\ node_buff[n].mem_ptr \in Nat
  BY <1>2, ListsFields, NodeTyped DEF IInv, ListInv, Mapped, UsedIn
<1>5. CASE UNCHANGED <<list, loc, lock, pc>>
  BY <1>1, <1>5, QuietInv
<1>6. CASE /\ loc' = [loc EXCEPT ![t].base = node_buff[n].mem_ptr]
           /\ lock' = Nobody /\ pc' = [pc EXCEPT ![t] = "filled"]
           /\ IF Splits(e, size)
              THEN /\ node_buff' = SplitNode(n, top, size)
                   /\ node_stack' = Front(node_stack)
                   /\ free_map' = (free_map \ {e}) \cup {Entry(e.size - size, top)}
              ELSE /\ node_buff' = [node_buff EXCEPT ![n].free = FALSE]
                   /\ free_map' = free_map \ {e}
                   /\ UNCHANGED node_stack
  <2>1. /\ loc'[t].fit = e /\ loc'[t].n_elem = loc[t].n_elem /\ loc'[t].base = node_buff[n].mem_ptr
        /\ \A u \in Threads \ {t} : pc'[u] = pc[u] /\ loc'[u] = loc[u]
        /\ pc'[t] = "filled"
    BY <1>6 DEF IInv, LocalsTyped
  <2>2. LocalsTyped'
    BY <1>1, <1>4, <1>6 DEF IInv, LocalsTyped
  <2>3. Chosen'
    <3>1. \A u \in Threads : pc'[u] \notin {"resize", "carve"}
      BY <1>2, <2>1 DEF IInv, Chosen
    <3> QED BY <3>1, <1>6 DEF Chosen
  <2>4. Lists'.node = node_buff' /\ Lists'.stack = node_stack' /\ Lists'.map = free_map'
    BY DEF Lists
  <2>5. /\ ListInv(Lists') /\ Complete(Lists') /\ Kept(Lists, Lists', n)
        /\ Lists'.node[n].size = size /\ Lists'.node[n].mem_ptr = node_buff[n].mem_ptr
    <3>1. CASE Splits(e, size)
      <4>1. e.size > size
        BY <3>1 DEF Splits
      <4>2. node_stack # <<>>
        BY <1>1, <3>1 DEF IInv, Chosen
      <4>3. node_buff' = SplitNode(n, top, size)
        BY <1>6, <3>1
      <4>4. ListInv(Lists) /\ Complete(Lists)
        BY DEF IInv
      <4>5. NodesSplit(node_buff, node_buff', e, top, size)
        <5> HIDE DEF e, size
        <5> QED BY <1>2, <4>2, <4>3, <4>4, SplitNodeParts
      <4>6. /\ Lists'.stack = Front(Lists.stack) /\ Lists.stack # <<>>
            /\ Lists'.map = (Lists.map \ {e}) \cup {Entry(e.size - size, Last(Lists.stack))}
            /\ e \in Lists.map
        BY <1>2, <1>6, <2>4, <3>1, <4>2, ListsFields
      <4>7. size < e.size
        BY <1>3, <1>4, <4>1
      <4> HIDE DEF e, size
      <4> QED BY <1>3, <2>4, <4>4, <4>5, <4>6, <4>7, SplitOK, ListsFields, SMTT(40)
    <3>2. CASE ~Splits(e, size)
      <4>1. e.size = size
        BY <1>1, <1>2, <1>3, <1>4, <3>2 DEF Splits
      <4>2. node_buff' = [node_buff EXCEPT ![n].free = FALSE]
        BY <1>6, <3>2
      <4>3. n \in DOMAIN node_buff /\ node_buff \in Seq(NodeType)
        BY <1>4, ListsFields DEF UsedIn, IInv, ListInv, Typed
      <4>4. /\ DOMAIN node_buff' = DOMAIN node_buff
            /\ node_buff' = [i \in DOMAIN node_buff' |-> node_buff'[i]]
            /\ node_buff'[n] = Taken(node_buff[n])
            /\ \A i \in DOMAIN node_buff \ {n} : node_buff'[i] = node_buff[i]
        BY <4>2, <4>3 DEF Taken
      <4>5. Lists'.stack = Lists.stack /\ Lists'.map = Lists.map \ {e} /\ e \in Lists.map
        BY <1>2, <1>6, <2>4, <3>2, ListsFields
      <4>6. ListInv(Lists) /\ Complete(Lists)
        BY DEF IInv
      <4> HIDE DEF e, size
      <4> QED BY <2>4, <4>1, <4>4, <4>5, <4>6, TakeOK, ListsFields
    <3> QED BY <3>1, <3>2
  <2>6. pc[t] \notin {"filled", "free"}
    BY <1>1
  <2> HIDE DEF e, size
  <2> QED BY <1>1, <1>4, <2>1, <2>2, <2>3, <2>4, <2>5, <2>6, TakenInv DEF size
<1>7. \/ UNCHANGED <<list, loc, lock, pc>>
      \/ /\ loc' = [loc EXCEPT ![t].base = node_buff[n].mem_ptr]
         /\ lock' = Nobody /\ pc' = [pc EXCEPT ![t] = "filled"]
         /\ IF Splits(e, size)
            THEN /\ node_buff' = SplitNode(n, top, size)
                 /\ node_stack' = Front(node_stack)
                 /\ free_map' = (free_map \ {e}) \cup {Entry(e.size - size, top)}
            ELSE /\ node_buff' = [node_buff EXCEPT ![n].free = FALSE]
                 /\ free_map' = free_map \ {e}
                 /\ UNCHANGED node_stack
  BY Zenon DEF Carve, Goto
<1> QED BY <1>5, <1>6, <1>7

\* A call served by the system's malloc owns nothing.
LEMMA UseSystemInv ==
  ASSUME IInv, NEW t \in Threads, UseSystem(t)
  PROVE  IInv'
<1> USE ParametersAssumption
<1>1. /\ pc[t] = "carve" /\ lock' = Nobody
      /\ pc' = [pc EXCEPT ![t] = "idle"] /\ loc' = [loc EXCEPT ![t] = NoLocals]
      /\ UNCHANGED <<list, mem, live>>
  BY DEF UseSystem, Leave, Goto
<1>2. LocalsTyped'
  BY <1>1 DEF IInv, LocalsTyped, NoLocals, NoFit, Entry, None, System
<1>3. pc'[t] = "idle" /\ \A u \in Threads \ {t} : pc'[u] = pc[u] /\ loc'[u] = loc[u]
  BY <1>1 DEF IInv, LocalsTyped
<1>4. Chosen'
  <2>1. \A u \in Threads : pc'[u] \notin {"resize", "carve"}
    BY <1>1, <1>3 DEF IInv, Chosen
  <2> QED BY <2>1, <1>1 DEF Chosen
<1> QED BY <1>1, <1>2, <1>3, <1>4, IdleStep

\* Writing into the block of one node does not touch the header of another.
LEMMA OtherHeader ==
  ASSUME ListInv(Lists), NEW n, NEW base \in Nat, NEW n_elem \in Nat, Owned(n, base, n_elem),
         NEW b \in live, live \subseteq [base : Nat, n_elem : Nat],
         Owned(mem[b.base], b.base, b.n_elem), mem[b.base] # n
  PROVE  b.base \notin Block(base, n_elem + Header)
<1>1. b.base \in Nat /\ b.n_elem \in Nat
  OBVIOUS
<1>2. \/ base + n_elem + Header <= b.base
      \/ b.base + b.n_elem + Header <= base
  BY <1>1, OwnedApart
<1> QED BY <1>1, <1>2 DEF Block, Header

\* The block becomes the caller's.
LEMMA ReturnInv ==
  ASSUME IInv, NEW t \in Threads, Return(t)
  PROVE  IInv'
<1> USE ParametersAssumption
<1> DEFINE base == loc[t].base
           n == loc[t].fit.n_indx
           n_elem == loc[t].n_elem
           block == Block(base, n_elem + Header)
           b0 == [base |-> base, n_elem |-> n_elem]
<1>1. pc[t] = "filled" /\ UNCHANGED <<list, lock>>
  BY DEF Return
<1>2. \/ UNCHANGED <<mem, live, pc, loc>>
      \/ /\ mem' = [c \in Cell |-> CASE c = base -> n
                                     [] c \in block \ {base} -> User
                                     [] OTHER -> mem[c]]
         /\ live' = live \cup {b0}
         /\ pc' = [pc EXCEPT ![t] = "idle"] /\ loc' = [loc EXCEPT ![t] = NoLocals]
  BY Zenon DEF Return, Leave, Goto
<1>3. CASE UNCHANGED <<mem, live, pc, loc>>
  BY <1>1, <1>3, QuietInv
<1>4. CASE /\ mem' = [c \in Cell |-> CASE c = base -> n
                                       [] c \in block \ {base} -> User
                                       [] OTHER -> mem[c]]
           /\ live' = live \cup {b0}
           /\ pc' = [pc EXCEPT ![t] = "idle"] /\ loc' = [loc EXCEPT ![t] = NoLocals]
  <2>1. ListInv(Lists) /\ ListInv(Lists') /\ Complete(Lists') /\ UsedIn(Lists') = UsedIn(Lists)
    BY <1>1, SameLists DEF IInv
  <2>2. t \in Owning /\ Owned(n, base, n_elem)
    BY <1>1 DEF Owning, IInv, Ownership
  <2>3. base \in Nat /\ n_elem \in Nat
    BY DEF IInv, LocalsTyped
  <2>4. n \in Nat /\ base \in Cell
    <3> HIDE DEF n, base, n_elem
    <3> QED BY <2>1, <2>2, <2>3, OwnedPlace
  <2>5. pc'[t] = "idle" /\ \A u \in Threads \ {t} : pc'[u] = pc[u] /\ loc'[u] = loc[u]
    BY <1>4 DEF IInv, LocalsTyped
  <2>6. LocalsTyped'
    <3>1. mem' \in [Cell -> Int]
      <4> HIDE DEF n, base, block
      <4> QED BY <1>4, <2>4 DEF IInv, LocalsTyped, User
    <3>2. live' \subseteq [base : Nat, n_elem : Nat]
      BY <1>4, <2>3 DEF IInv, LocalsTyped
    <3> QED BY <1>4, <3>1, <3>2 DEF IInv, LocalsTyped, NoLocals, NoFit, Entry, None, System
  <2>7. Chosen'
    <3>1. \A u \in Threads : pc'[u] \in {"resize", "carve"} <=> pc[u] \in {"resize", "carve"}
      BY <1>1, <2>5
    <3>2. \A u \in Threads : pc'[u] \in {"resize", "carve"} => loc'[u] = loc[u] /\ pc'[u] = pc[u]
      BY <2>5
    <3> QED BY <1>1, <3>1, <3>2 DEF IInv, Chosen, list
  <2>8. Owning' = Owning \ {t}
    BY <1>1, <2>5 DEF Owning
  <2>9. \A u \in Owning' : u # t /\ loc'[u] = loc[u]
    BY <2>5, <2>8 DEF Owning
  <2>10. mem'[base] = n
    BY <1>4, <2>4
  <2>11. ASSUME NEW b \in live
         PROVE  /\ mem'[b.base] = mem[b.base] /\ mem[b.base] # n
                /\ Owned(mem[b.base], b.base, b.n_elem)
    <3>1. Owned(mem[b.base], b.base, b.n_elem) /\ mem[b.base] # n
      BY <2>2, <2>11 DEF IInv, Ownership
    <3>2. live \subseteq [base : Nat, n_elem : Nat]
      BY DEF IInv, LocalsTyped
    <3>3. b.base \notin block
      <4> HIDE DEF n, base, n_elem
      <4> QED BY <2>1, <2>2, <2>3, <2>11, <3>1, <3>2, OtherHeader
    <3>4. b.base \in Cell
      BY <2>1, <2>11, <3>1, <3>2, OwnedPlace
    <3>5. base \in block
      BY <2>3 DEF Block, Header
    <3>6. b.base # base
      BY <3>3, <3>5
    <3>7. mem'[b.base] = mem[b.base]
      <4> HIDE DEF base, block, n
      <4> QED BY <1>4, <3>3, <3>4, <3>6
    <3> QED BY <3>1, <3>7
  <2>12. UNCHANGED list
    BY <1>1
  <2>13. Ownership'
    <3>1. ASSUME NEW u \in Owning' PROVE Owned(loc[u].fit.n_indx, loc[u].base, loc[u].n_elem)'
      <4>1. Owned(loc[u].fit.n_indx, loc[u].base, loc[u].n_elem) /\ loc'[u] = loc[u]
        BY <3>1, <2>8, <2>9 DEF IInv, Ownership
      <4> QED BY <4>1, <2>12, SameOwned
    <3>2. ASSUME NEW b \in live' PROVE Owned(mem[b.base], b.base, b.n_elem)'
      <4>1. CASE b \in live
        <5>1. Owned(mem[b.base], b.base, b.n_elem) /\ mem'[b.base] = mem[b.base]
          BY <4>1, <2>11
        <5> QED BY <5>1, <2>12, SameOwned
      <4>2. CASE b = b0
        <5>1. mem'[b.base] = n /\ b.base = base /\ b.n_elem = n_elem
          BY <4>2, <2>10
        <5> HIDE DEF n, base, n_elem
        <5> QED BY <5>1, <2>2, <2>12, SameOwned
      <4> QED BY <3>2, <4>1, <4>2, <1>4
    <3>3. ASSUME NEW u \in Owning', NEW v \in Owning', u # v
          PROVE  loc'[u].fit.n_indx # loc'[v].fit.n_indx
      BY <3>3, <2>8, <2>9 DEF IInv, Ownership
    <3>4. ASSUME NEW u \in Owning', NEW b \in live' PROVE loc'[u].fit.n_indx # mem'[b.base]
      <4>1. u \in Owning /\ u # t /\ loc'[u] = loc[u]
        BY <3>4, <2>8, <2>9
      <4>2. CASE b \in live
        BY <4>1, <4>2, <2>11 DEF IInv, Ownership
      <4>3. CASE b = b0
        <5>1. mem'[b.base] = n
          BY <4>3, <2>10
        <5> QED BY <4>1, <5>1, <2>2 DEF IInv, Ownership
      <4> QED BY <3>4, <4>2, <4>3, <1>4
    <3> QED BY <3>1, <3>2, <3>3, <3>4 DEF Ownership
  <2>14. NoneLost'
    <3>1. ASSUME NEW i \in UsedIn(Lists) \ {Dummy}, ~node_buff[i].free
          PROVE  \/ \E b \in live' : mem'[b.base] = i
                 \/ \E u \in Owning' : loc'[u].fit.n_indx = i
      <4>1. CASE i = n
        <5>1. b0 \in live' /\ b0.base = base
          BY <1>4
        <5> QED BY <4>1, <5>1, <2>10
      <4>2. CASE i # n
        <5>1. \/ \E b \in live : mem[b.base] = i
              \/ \E u \in Owning \ {t} : loc[u].fit.n_indx = i
          BY <3>1, <4>2 DEF IInv, NoneLost
        <5>2. live \subseteq live'
          BY <1>4
        <5> QED BY <5>1, <5>2, <2>8, <2>9, <2>11
      <4> QED BY <4>1, <4>2
    <3> QED BY <3>1, <2>1, <2>12 DEF NoneLost, list
  <2> QED BY <2>1, <2>6, <2>7, <2>13, <2>14 DEF IInv
<1> QED BY <1>2, <1>3, <1>4

\* Two blocks that callers hold have different nodes.
LEMMA LiveNodes ==
  ASSUME IInv, NEW b \in live, NEW c \in live, mem[b.base] = mem[c.base]
  PROVE  b = c
<1>1. Owned(mem[b.base], b.base, b.n_elem) /\ Owned(mem[c.base], c.base, c.n_elem)
  BY DEF IInv, Ownership
<1>2. b \in [base : Nat, n_elem : Nat] /\ c \in [base : Nat, n_elem : Nat]
  BY DEF IInv, LocalsTyped
<1>3. b.base = c.base /\ b.n_elem + Header = c.n_elem + Header
  BY <1>1 DEF Owned
<1>4. b.n_elem = c.n_elem
  BY <1>2, <1>3 DEF Header
<1> QED BY <1>2, <1>3, <1>4

\* The thread that frees a block takes it over from the caller.
LEMMA FreeCallInv ==
  ASSUME IInv, NEW t \in Threads, NEW b \in live, FreeCall(t, b)
  PROVE  IInv'
<1> USE ParametersAssumption
<1> DEFINE n == mem[b.base]
           l == [n_elem |-> b.n_elem, base |-> b.base, fit |-> Entry(0, n)]
<1>1. pc[t] = "idle" /\ UNCHANGED <<list, lock>> /\ live' = live \ {b}
  BY DEF FreeCall
<1>2. n \notin DOMAIN node_buff
      \/ (/\ mem' = [c \in Cell |-> IF debug /\ c \in Refilled(b) THEN InitVal ELSE mem[c]]
          /\ loc' = [loc EXCEPT ![t] = l]
          /\ pc' = [pc EXCEPT ![t] = "free"])
  BY Zenon DEF FreeCall, Goto
<1>3. ListInv(Lists) /\ ListInv(Lists') /\ Complete(Lists') /\ UsedIn(Lists') = UsedIn(Lists)
  BY <1>1, SameLists DEF IInv
<1>4. b \in [base : Nat, n_elem : Nat] /\ live \subseteq [base : Nat, n_elem : Nat]
  BY DEF IInv, LocalsTyped
<1>5. Owned(n, b.base, b.n_elem)
  BY DEF IInv, Ownership
<1>6. UNCHANGED list
  BY <1>1
<1>7. n \in DOMAIN node_buff
  BY <1>5, ListsFields DEF Owned, UsedIn
<1>8. CASE /\ mem' = [c \in Cell |-> IF debug /\ c \in Refilled(b) THEN InitVal ELSE mem[c]]
           /\ loc' = [loc EXCEPT ![t] = l]
           /\ pc' = [pc EXCEPT ![t] = "free"]
  <2>1. n \in Nat /\ b.base \in Cell
    BY <1>3, <1>4, <1>5, OwnedPlace
  <2>2. /\ pc'[t] = "free" /\ loc'[t].fit.n_indx = n /\ loc'[t].base = b.base
        /\ loc'[t].n_elem = b.n_elem
        /\ \A u \in Threads \ {t} : pc'[u] = pc[u] /\ loc'[u] = loc[u]
    BY <1>8 DEF IInv, LocalsTyped, Entry
  <2>3. LocalsTyped'
    <3>1. mem' \in [Cell -> Int]
      BY <1>8 DEF IInv, LocalsTyped, InitVal
    <3>2. l \in [n_elem : Nat, fit : [size : Nat, n_indx : Nat], base : Nat]
      BY <1>4, <2>1 DEF Entry
    <3> HIDE DEF l
    <3> QED BY <1>1, <1>8, <3>1, <3>2 DEF IInv, LocalsTyped
  <2>4. Chosen'
    <3>1. \A u \in Threads : pc'[u] \in {"resize", "carve"} <=> pc[u] \in {"resize", "carve"}
      BY <1>1, <2>2
    <3>2. \A u \in Threads : pc'[u] \in {"resize", "carve"} => loc'[u] = loc[u] /\ pc'[u] = pc[u]
      BY <2>2
    <3> QED BY <1>1, <3>1, <3>2 DEF IInv, Chosen, list
  <2>5. Owning' = Owning \cup {t} /\ t \notin Owning
    BY <1>1, <2>2 DEF Owning
  <2>6. \A u \in Owning : u \in Threads \ {t} /\ loc'[u] = loc[u]
    BY <2>2, <2>5 DEF Owning
  <2>7. ASSUME NEW c \in live'
        PROVE  /\ mem'[c.base] = mem[c.base] /\ mem[c.base] # n
               /\ Owned(mem[c.base], c.base, c.n_elem) /\ c \in live
    <3>1. c \in live /\ c # b
      BY <2>7, <1>1
    <3>2. mem[c.base] # n
      BY <3>1, LiveNodes
    <3>3. Owned(mem[c.base], c.base, c.n_elem)
      BY <3>1 DEF IInv, Ownership
    <3>4. c.base \notin Refilled(b)
      <4>1. b.base \in Nat /\ b.n_elem \in Nat
        BY <1>4
      <4>2. c.base \notin Block(b.base, b.n_elem + Header)
        <5> HIDE DEF n
        <5> QED BY <1>3, <1>4, <1>5, <3>1, <3>2, <3>3, <4>1, OtherHeader
      <4> QED BY <4>2 DEF Refilled
    <3>5. c.base \in Cell
      BY <1>3, <1>4, <3>1, <3>3, OwnedPlace
    <3>6. mem'[c.base] = mem[c.base]
      BY <1>8, <3>4, <3>5
    <3> QED BY <3>1, <3>2, <3>3, <3>6
  <2>8. Ownership'
    <3>1. ASSUME NEW u \in Owning' PROVE Owned(loc[u].fit.n_indx, loc[u].base, loc[u].n_elem)'
      <4>1. CASE u = t
        <5> HIDE DEF n
        <5> QED BY <4>1, <1>5, <1>6, <2>2, SameOwned
      <4>2. CASE u # t
        BY <3>1, <4>2, <2>5, <2>6, <1>6, SameOwned DEF IInv, Ownership
      <4> QED BY <4>1, <4>2
    <3>2. ASSUME NEW c \in live' PROVE Owned(mem[c.base], c.base, c.n_elem)'
      <4>1. Owned(mem[c.base], c.base, c.n_elem) /\ mem'[c.base] = mem[c.base]
        BY <3>2, <2>7
      <4> QED BY <4>1, <1>6, SameOwned
    <3>3. ASSUME NEW u \in Owning PROVE loc'[u].fit.n_indx # n
      BY <3>3, <2>6 DEF IInv, Ownership
    <3>4. ASSUME NEW u \in Owning', NEW v \in Owning', u # v
          PROVE  loc'[u].fit.n_indx # loc'[v].fit.n_indx
      BY <3>3, <3>4, <2>2, <2>5, <2>6 DEF IInv, Ownership
    <3>5. ASSUME NEW u \in Owning', NEW c \in live' PROVE loc'[u].fit.n_indx # mem'[c.base]
      <4>1. mem'[c.base] = mem[c.base] /\ mem[c.base] # n /\ c \in live
        BY <3>5, <2>7
      <4> QED BY <3>5, <4>1, <2>2, <2>5, <2>6 DEF IInv, Ownership
    <3> QED BY <3>1, <3>2, <3>4, <3>5 DEF Ownership
  <2>9. NoneLost'
    <3>1. ASSUME NEW i \in UsedIn(Lists) \ {Dummy}, ~node_buff[i].free
          PROVE  \/ \E c \in live' : mem'[c.base] = i
                 \/ \E u \in Owning' : loc'[u].fit.n_indx = i
      <4>1. CASE i = n
        BY <4>1, <2>2, <2>5
      <4>2. CASE i # n
        <5>1. \/ \E c \in live \ {b} : mem[c.base] = i
              \/ \E u \in Owning : loc[u].fit.n_indx = i
          BY <3>1, <4>2 DEF IInv, NoneLost
        <5> QED BY <5>1, <1>1, <2>5, <2>6, <2>7
      <4> QED BY <4>1, <4>2
    <3> QED BY <3>1, <1>3, <1>6 DEF NoneLost, list
  <2> QED BY <1>3, <2>3, <2>4, <2>8, <2>9 DEF IInv
<1> QED BY <1>2, <1>7, <1>8

\* The block given back is joined with its neighbours; nobody else's changes.
LEMMA FreeLockedInv ==
  ASSUME IInv, NEW t \in Threads, FreeLocked(t)
  PROVE  IInv'
<1> USE ParametersAssumption
<1> DEFINE n == loc[t].fit.n_indx
           h1 == JoinPrev(Lists, n)
           h == JoinNext(h1, n)
           x == Entry(h.node[n].size, n)
<1>1. pc[t] = "free" /\ lock = Nobody /\ UNCHANGED <<mem, lock, live>>
  BY DEF FreeLocked, callers
<1>2. \/ UNCHANGED <<list, pc, loc>>
      \/ /\ node_buff' = [h.node EXCEPT ![n].free = TRUE, ![n].it = x]
         /\ node_stack' = h.stack
         /\ free_map' = h.map \cup {x}
         /\ pc' = [pc EXCEPT ![t] = "idle"] /\ loc' = [loc EXCEPT ![t] = NoLocals]
  BY Zenon DEF FreeLocked, Leave, Goto
<1>3. CASE UNCHANGED <<list, pc, loc>>
  BY <1>1, <1>3, QuietInv
<1>4. CASE /\ node_buff' = [h.node EXCEPT ![n].free = TRUE, ![n].it = x]
           /\ node_stack' = h.stack
           /\ free_map' = h.map \cup {x}
           /\ pc' = [pc EXCEPT ![t] = "idle"] /\ loc' = [loc EXCEPT ![t] = NoLocals]
  <2>1. t \in Owning /\ Owned(n, loc[t].base, loc[t].n_elem) /\ ListInv(Lists)
    BY <1>1 DEF Owning, IInv, Ownership
  <2>2. n \in UsedIn(Lists) \ {Dummy} /\ ~Lists.node[n].free
    BY <2>1, ListsFields DEF Owned
  <2>3. /\ ListInv(h1) /\ Kept(Lists, h1, n)
        /\ Complete(h1) /\ ~IsFree(h1, h1.node[n].prev)
    <3>1. Complete(Lists)
      BY DEF IInv
    <3> HIDE DEF n
    <3> QED BY <2>1, <2>2, <3>1, JoinPrevOK
  <2>4. n \in UsedIn(h1) \ {Dummy} /\ ~h1.node[n].free
    BY <2>3 DEF Kept
  <2>5. /\ ListInv(h) /\ Kept(h1, h, n)
        /\ Complete(h) /\ ~IsFree(h, h.node[n].prev) /\ ~IsFree(h, h.node[n].next)
    <3> HIDE DEF n, h1
    <3> QED BY <2>3, <2>4, JoinNextOK
  <2>6. n \in UsedIn(h) \ {Dummy} /\ ~h.node[n].free
    BY <2>5 DEF Kept
  <2> HIDE DEF h1, h
  <2>7. n \in DOMAIN h.node /\ h.node \in Seq(NodeType)
    BY <2>5, <2>6 DEF UsedIn, ListInv, Typed
  <2>8. /\ DOMAIN node_buff' = DOMAIN h.node
        /\ node_buff' = [i \in DOMAIN node_buff' |-> node_buff'[i]]
        /\ node_buff'[n] = Released(h.node[n], Entry(h.node[n].size, n))
        /\ \A i \in DOMAIN h.node \ {n} : node_buff'[i] = h.node[i]
    BY <1>4, <2>7 DEF Released
  <2>9. Lists'.node = node_buff' /\ Lists'.stack = node_stack' /\ Lists'.map = free_map'
    BY DEF Lists
  <2>10. /\ ListInv(Lists') /\ Complete(Lists') /\ UsedIn(Lists') = UsedIn(h) /\ Lists'.node[n].free
         /\ \A i \in UsedIn(h) \ {n} : Lists'.node[i] = h.node[i]
    <3>1. Lists'.stack = h.stack /\ Lists'.map = h.map \cup {Entry(h.node[n].size, n)}
      BY <1>4, <2>9
    <3> HIDE DEF n
    <3> QED BY <2>5, <2>6, <2>8, <2>9, <3>1, ReleaseOK
  <2>11. ASSUME NEW i, i # n, NEW base, NEW n_elem, Owned(i, base, n_elem)
         PROVE  Owned(i, base, n_elem)'
    <3>1. /\ i \in UsedIn(h1) /\ ~h1.node[i].free
          /\ h1.node[i].size = node_buff[i].size /\ h1.node[i].mem_ptr = node_buff[i].mem_ptr
      BY <2>3, <2>11, ListsFields DEF Kept, Owned
    <3>2. /\ i \in UsedIn(h) /\ ~h.node[i].free
          /\ h.node[i].size = node_buff[i].size /\ h.node[i].mem_ptr = node_buff[i].mem_ptr
      BY <2>5, <2>11, <3>1 DEF Kept
    <3>3. node_buff'[i] = h.node[i] /\ i \in UsedIn(Lists')
      BY <2>9, <2>10, <2>11, <3>2
    <3> QED BY <2>11, <3>2, <3>3 DEF Owned
  <2>12. pc'[t] = "idle" /\ \A u \in Threads \ {t} : pc'[u] = pc[u] /\ loc'[u] = loc[u]
    BY <1>4 DEF IInv, LocalsTyped
  <2>13. LocalsTyped'
    BY <1>1, <1>4 DEF IInv, LocalsTyped, NoLocals, NoFit, Entry, None, System
  <2>14. Chosen'
    <3>1. \A u \in Threads : pc[u] \notin {"resize", "carve"}
      BY <1>1 DEF IInv, Chosen
    <3>2. \A u \in Threads : pc'[u] \notin {"resize", "carve"}
      BY <3>1, <2>12
    <3> QED BY <1>1, <3>2 DEF Chosen
  <2>15. Owning' = Owning \ {t} /\ \A u \in Owning' : u # t /\ loc'[u] = loc[u]
    BY <1>1, <2>12 DEF Owning
  <2>16. Ownership'
    <3>1. ASSUME NEW u \in Owning' PROVE Owned(loc[u].fit.n_indx, loc[u].base, loc[u].n_elem)'
      <4>1. Owned(loc[u].fit.n_indx, loc[u].base, loc[u].n_elem) /\ loc[u].fit.n_indx # n /\ loc'[u] = loc[u]
        BY <3>1, <2>1, <2>15 DEF IInv, Ownership
      <4> QED BY <4>1, <2>11
    <3>2. ASSUME NEW b \in live' PROVE Owned(mem[b.base], b.base, b.n_elem)'
      <4>1. Owned(mem[b.base], b.base, b.n_elem) /\ mem[b.base] # n /\ mem' = mem
        BY <3>2, <1>1, <2>1 DEF IInv, Ownership
      <4> QED BY <4>1, <2>11
    <3>3. ASSUME NEW u \in Owning', NEW v \in Owning', u # v
          PROVE  loc'[u].fit.n_indx # loc'[v].fit.n_indx
      BY <3>3, <2>15 DEF IInv, Ownership
    <3>4. ASSUME NEW u \in Owning', NEW b \in live' PROVE loc'[u].fit.n_indx # mem'[b.base]
      BY <3>4, <1>1, <2>15 DEF IInv, Ownership
    <3> QED BY <3>1, <3>2, <3>3, <3>4 DEF Ownership
  <2>17. NoneLost'
    <3>1. ASSUME NEW i \in UsedIn(Lists') \ {Dummy}, ~node_buff'[i].free
          PROVE  \/ \E b \in live : mem[b.base] = i
                 \/ \E u \in Owning' : loc'[u].fit.n_indx = i
      <4>1. i # n /\ i \in UsedIn(h) /\ ~h.node[i].free
        BY <3>1, <2>9, <2>10
      <4>2. i \in UsedIn(h1) /\ ~h1.node[i].free
        BY <4>1, <2>5 DEF Kept
      <4>3. i \in UsedIn(Lists) \ {Dummy} /\ ~node_buff[i].free
        BY <3>1, <4>1, <4>2, <2>3, ListsFields DEF Kept
      <4> QED BY <4>1, <4>3, <2>15 DEF IInv, NoneLost
    <3> QED BY <3>1, <1>1 DEF NoneLost
  <2> QED BY <2>10, <2>13, <2>14, <2>16, <2>17 DEF IInv
<1> QED BY <1>2, <1>3, <1>4, ZenonT(60)

\* Every step keeps the invariant.
LEMMA NextInv == IInv /\ [Next]_vars => IInv'
<1> SUFFICES ASSUME IInv, [Next]_vars PROVE IInv'
  OBVIOUS
<1>1. CASE UNCHANGED vars
  BY <1>1, QuietInv DEF vars, callers
<1>2. CASE Destroy
  BY <1>2, QuietInv DEF Destroy, callers
<1>3. ASSUME NEW t \in Threads, Thread(t) PROVE IInv'
  <2>1. ASSUME NEW n_elem \in Requests, MallocLock(t, n_elem) PROVE IInv'
    BY <2>1, MallocLockInv
  <2>2. CASE Resize(t)
    BY <2>2, ResizeInv
  <2>3. CASE Carve(t)
    BY <2>3, CarveInv
  <2>4. CASE UseSystem(t)
    BY <2>4, UseSystemInv
  <2>5. CASE Return(t)
    BY <2>5, ReturnInv
  <2>6. CASE FreeSystem(t)
    BY <2>6, QuietInv DEF FreeSystem
  <2>7. ASSUME NEW b \in live, FreeCall(t, b) PROVE IInv'
    BY <2>7, FreeCallInv
  <2>8. CASE FreeRaces(t)
    BY <2>8, QuietInv DEF FreeRaces, callers
  <2>9. CASE FreeLocked(t)
    BY <2>9, FreeLockedInv
  <2> QED BY <1>3, <2>1, <2>2, <2>3, <2>4, <2>5, <2>6, <2>7, <2>8, <2>9 DEF Thread
<1>4. CASE Stopped
  BY <1>4, <1>1 DEF Stopped
<1> QED BY <1>1, <1>2, <1>3, <1>4 DEF Next

----------------------------------------------------------------------------
(* The manager implements the allocator *)

\* What a caller holds for its block.
Held(b) == [base |-> b.base, size |-> b.n_elem + Header]

\* A caller is given cells that nobody holds.
LEMMA ReturnGives ==
  ASSUME IInv, NEW t \in Threads, Return(t)
  PROVE  Alloc!Next \/ live' = live
<1> USE ParametersAssumption
<1> DEFINE base == loc[t].base
           n == loc[t].fit.n_indx
           n_elem == loc[t].n_elem
           b0 == [base |-> base, n_elem |-> n_elem]
<1>1. pc[t] = "filled" /\ (live' = live \/ live' = live \cup {b0})
  BY Zenon DEF Return
<1>2. ListInv(Lists) /\ t \in Owning /\ Owned(n, base, n_elem)
  BY <1>1 DEF Owning, IInv, Ownership
<1>3. base \in Nat /\ n_elem \in Nat
  BY DEF IInv, LocalsTyped
<1>4. base \in Cell /\ base + n_elem + Header <= N
  <2> HIDE DEF base, n, n_elem
  <2> QED BY <1>2, <1>3, OwnedPlace
<1>5. Held(b0) = [base |-> base, size |-> n_elem + Header]
  BY DEF Held
<1> HIDE DEF base, n, n_elem
<1>6. Held(b0) \in Alloc!Blocks
  BY <1>3, <1>4, <1>5 DEF Alloc!Blocks, Cell, Header
<1>7. ASSUME NEW b \in live
      PROVE  Alloc!Cells(Held(b)) \cap Alloc!Cells(Held(b0)) = {}
  <2>1. b \in [base : Nat, n_elem : Nat]
    BY DEF IInv, LocalsTyped
  <2>2. Owned(mem[b.base], b.base, b.n_elem) /\ mem[b.base] # n
    BY <1>2 DEF IInv, Ownership, n
  <2>3. b.base \in Nat /\ b.n_elem \in Nat
    BY <2>1
  <2>4. \/ base + n_elem + Header <= b.base
        \/ b.base + b.n_elem + Header <= base
    BY <1>2, <1>3, <2>2, <2>3, OwnedApart
  <2>5. /\ Alloc!Cells(Held(b)) = b.base .. b.base + (b.n_elem + Header) - 1
        /\ Alloc!Cells(Held(b0)) = base .. base + (n_elem + Header) - 1
    BY <1>5 DEF Held, Alloc!Cells
  <2> QED BY <1>3, <2>3, <2>4, <2>5 DEF Header
<1>8. {Held(b) : b \in live \cup {b0}} = {Held(b) : b \in live} \cup {Held(b0)}
  OBVIOUS
<1>9. CASE live' = live \cup {b0}
  <2> HIDE DEF b0
  <2>1. \A x \in {Held(b) : b \in live} : Alloc!Cells(x) \cap Alloc!Cells(Held(b0)) = {}
    BY <1>7
  <2>2. {Held(b) : b \in live'} = {Held(b) : b \in live} \cup {Held(b0)}
    BY <1>8, <1>9
  <2>3. PICK c \in Alloc!Blocks : c = Held(b0)
    BY <1>6
  <2>4. /\ \A x \in {Held(b) : b \in live} : Alloc!Cells(x) \cap Alloc!Cells(c) = {}
        /\ {Held(b) : b \in live'} = {Held(b) : b \in live} \cup {c}
    BY <2>1, <2>2, <2>3
  <2>5. Alloc!Give(c)
    BY <2>4 DEF Alloc!Give, Held
  <2> QED BY <2>5 DEF Alloc!Next
<1> QED BY <1>1, <1>9

\* A caller gives back what it holds.
LEMMA FreeTakesBack ==
  ASSUME IInv, NEW t \in Threads, NEW b \in live, FreeCall(t, b)
  PROVE  Alloc!Next
<1>1. live' = live \ {b} /\ live \subseteq [base : Nat, n_elem : Nat]
  BY DEF FreeCall, IInv, LocalsTyped
<1>2. ASSUME NEW c \in live, Held(c) = Held(b) PROVE c = b
  <2>1. c.base = b.base /\ c.n_elem + Header = b.n_elem + Header
    BY <1>2 DEF Held
  <2> QED BY <1>1, <2>1 DEF Header
<1>3. {Held(c) : c \in live \ {b}} = {Held(c) : c \in live} \ {Held(b)}
  BY <1>2
<1>4. Alloc!TakeBack(Held(b))
  BY <1>1, <1>3 DEF Alloc!TakeBack, Held
<1>5. Held(b) \in {[base |-> c.base, size |-> c.n_elem + Header] : c \in live}
  BY DEF Held
<1> QED BY <1>4, <1>5 DEF Alloc!Next

\* The blocks that callers hold at the same time never overlap.
THEOREM BlocksDisjoint == Spec => Disjoint
<1> DEFINE heldNow == {[base |-> b.base, size |-> b.n_elem + Header] : b \in live}
<1>1. Init => Alloc!Init
  BY DEF Init, Alloc!Init
<1>2. IInv /\ [Next]_vars => [Alloc!Next]_heldNow
  <2> SUFFICES ASSUME IInv, [Next]_vars PROVE Alloc!Next \/ live' = live
    OBVIOUS
  <2>1. CASE UNCHANGED vars
    BY <2>1 DEF vars, callers
  <2>2. CASE Destroy
    BY <2>2 DEF Destroy, callers
  <2>3. ASSUME NEW t \in Threads, Thread(t) PROVE Alloc!Next \/ live' = live
    <3>1. CASE Return(t)
      BY <3>1, ReturnGives
    <3>2. ASSUME NEW b \in live, FreeCall(t, b) PROVE Alloc!Next
      BY <3>2, FreeTakesBack
    <3>3. ASSUME NEW n_elem \in Requests, MallocLock(t, n_elem) PROVE live' = live
      BY <3>3 DEF MallocLock
    <3>4. CASE Resize(t) \/ Carve(t) \/ UseSystem(t) \/ FreeSystem(t) \/ FreeRaces(t) \/ FreeLocked(t)
      BY <3>4 DEF Resize, Carve, UseSystem, FreeSystem, FreeRaces, FreeLocked, callers
    <3> QED BY <2>3, <3>1, <3>2, <3>3, <3>4 DEF Thread
  <2>4. CASE Stopped
    BY <2>4, <2>1 DEF Stopped
  <2> QED BY <2>1, <2>2, <2>3, <2>4 DEF Next
<1> QED BY <1>1, <1>2, InitInv, NextInv, PTL DEF Spec, Disjoint, Alloc!Spec

----------------------------------------------------------------------------
(* The list stays sound *)

\* The set of nodes in use is the same in both of its spellings.
LEMMA UsedIsUsedIn == Used = UsedIn(Lists)
BY DEF Used, UsedIn, Lists, Range

\* The list covers the buffer without gap or overlap in both directions,
\* free_map lists exactly the free blocks, and free blocks are never
\* neighbours: whatever was split and joined before, and in any order.
THEOREM ListStaysSound == Spec => []ListSound
<1>1. IInv => ListSound
  <2> SUFFICES ASSUME IInv PROVE ListSound
    OBVIOUS
  <2>1. /\ Typed(Lists) /\ Linked(Lists) /\ Mapped(Lists)
        /\ Charted(Lists) /\ Spread(Lists) /\ Spanning(Lists)
    BY DEF IInv, ListInv, Complete
  <2>2. \A i \in Used :
          /\ i # Dummy => /\ node_buff[i].size > 0 /\ node_buff[i].prev \in Used
                          /\ node_buff[node_buff[i].prev].next = i
          /\ IF node_buff[i].next = None THEN node_buff[i].mem_ptr + node_buff[i].size = N
             ELSE /\ node_buff[i].next \in Used
                  /\ node_buff[node_buff[i].next].prev = i
                  /\ node_buff[node_buff[i].next].mem_ptr = node_buff[i].mem_ptr + node_buff[i].size
    BY <2>1, UsedIsUsedIn, ListsFields DEF Linked, Spanning
  <2>3. \A i \in Used : IsFree(Lists, i) => ~IsFree(Lists, node_buff[i].next)
    BY <2>1, UsedIsUsedIn, ListsFields DEF Spread, IsFree
  <2>4. ASSUME NEW e \in free_map
        PROVE  e.n_indx \in Used /\ node_buff[e.n_indx].free
               /\ e = Entry(node_buff[e.n_indx].size, e.n_indx)
    <3>1. /\ e \in [size : Nat, n_indx : Nat] /\ e.n_indx \in UsedIn(Lists)
          /\ node_buff[e.n_indx].free /\ node_buff[e.n_indx].size = e.size
      BY <2>1, <2>4, ListsFields DEF Mapped
    <3> QED BY <3>1, UsedIsUsedIn DEF Entry
  <2>5. ASSUME NEW i \in Used, node_buff[i].free
        PROVE  Entry(node_buff[i].size, i) \in free_map
    <3>1. node_buff[i].it \in free_map /\ node_buff[i].it.n_indx = i
      BY <2>1, <2>5, UsedIsUsedIn, ListsFields DEF Charted
    <3>2. node_buff[i].it = Entry(node_buff[i].size, i)
      BY <2>4, <3>1
    <3> QED BY <3>1, <3>2
  <2>6. free_map = {Entry(node_buff[i].size, i) : i \in {j \in Used : node_buff[j].free}}
    BY <2>4, <2>5
  <2> QED BY <2>2, <2>3, <2>6 DEF ListSound
<1> QED BY <1>1, InitInv, NextInv, PTL DEF Spec

----------------------------------------------------------------------------
(* The assertions and the destructor's report *)

\* With two nodes in use, all the others are on the stack.
LEMMA StackLength ==
  ASSUME NEW h, Typed(h), NEW f, f # Dummy, UsedIn(h) = {Dummy, f}
  PROVE  Len(h.stack) = Len(h.node) - 2
<1> DEFINE S == 1..Len(h.stack)
           T == ((1..Len(h.node)) \ {Dummy}) \ {f}
<1>1. /\ h.node \in Seq(NodeType) /\ h.stack \in Seq(Nat)
      /\ DOMAIN h.node = 1..Len(h.node) /\ Len(h.node) \in Nat
      /\ DOMAIN h.stack = S /\ Len(h.stack) \in Nat
  BY DEF Typed
<1>2. DOMAIN h.node = {Dummy, f} \cup {h.stack[k] : k \in DOMAIN h.stack}
      /\ Dummy \in DOMAIN h.node /\ f \in DOMAIN h.node
      /\ \A k \in DOMAIN h.stack : h.stack[k] \notin {Dummy, f}
  BY DEF Typed, UsedIn
<1>3. T = {h.stack[k] : k \in S}
  BY <1>1, <1>2
<1>4. h.stack \in [S -> T]
  BY <1>1, <1>3
<1>5. h.stack \in Injection(S, T)
  BY <1>1, <1>4 DEF Injection, IsInjective, Typed
<1>6. h.stack \in Surjection(S, T)
  BY <1>3, <1>4 DEF Surjection
<1>7. IsFiniteSet(S) /\ Cardinality(S) = Len(h.stack)
  BY <1>1, FS_Interval
<1>8. Cardinality(T) = Cardinality(S)
  <2> HIDE DEF S, T
  <2> QED BY <1>5, <1>6, <1>7, FS_Surjection
<1>9. Cardinality(T) = Len(h.node) - 2
  <2> DEFINE A == 1..Len(h.node)
             B == A \ {Dummy}
  <2>1. IsFiniteSet(A) /\ Cardinality(A) = Len(h.node)
    BY <1>1, FS_Interval
  <2>2. Dummy \in A /\ f \in B
    BY <1>1, <1>2
  <2>3. T = B \ {f}
    OBVIOUS
  <2> HIDE DEF A, T
  <2>4. IsFiniteSet(B) /\ Cardinality(B) = Len(h.node) - 1
    BY <2>1, <2>2, FS_RemoveElement
  <2> HIDE DEF B
  <2>5. Cardinality(T) = Len(h.node) - 1 - 1
    BY <2>2, <2>3, <2>4, FS_RemoveElement
  <2> QED BY <2>5, <1>1
<1> QED BY <1>7, <1>8, <1>9

\* When no call is running, the destructor sees one free block of the size of
\* the buffer and no other node exactly if no caller holds a block.
LEMMA LeakSeenExactly ==
  ASSUME IInv, \A t \in Threads : pc[t] = "idle"
  PROVE  LeakSeen <=> live # {}
<1> USE ParametersAssumption
<1> DEFINE f == node_buff[Dummy].next
<1>1. /\ Typed(Lists) /\ Linked(Lists) /\ Apart(Lists) /\ ListInv(Lists)
      /\ Charted(Lists) /\ Spread(Lists) /\ Spanning(Lists)
  BY DEF IInv, ListInv, Complete
<1>2. /\ Dummy \in UsedIn(Lists) /\ ~node_buff[Dummy].free
      /\ node_buff[Dummy].size = 0 /\ node_buff[Dummy].mem_ptr = 0
  BY <1>1, ListsFields DEF Linked, Spanning
<1>3. f # None
  BY <1>1, <1>2, ListsFields DEF Spanning
<1>4. f \in UsedIn(Lists) \ {Dummy} /\ node_buff[f].mem_ptr = 0
  <2>1. f \in UsedIn(Lists) \ {Dummy} /\ node_buff[f].mem_ptr = node_buff[Dummy].mem_ptr + node_buff[Dummy].size
    BY <1>1, <1>2, <1>3, ListsFields DEF Linked
  <2> QED BY <2>1, <1>2
<1>5. \A i \in UsedIn(Lists) \ {Dummy} :
        /\ node_buff[i].size \in Nat /\ node_buff[i].mem_ptr \in Nat
        /\ node_buff[i].size > 0 /\ node_buff[i].mem_ptr + node_buff[i].size <= N
  BY <1>1, NodeTyped, ListsFields DEF Linked, UsedIn
<1>6. ASSUME node_buff[f].size = N, NEW i \in UsedIn(Lists) \ {Dummy, f} PROVE FALSE
  <2>1. \/ node_buff[f].mem_ptr + node_buff[f].size <= node_buff[i].mem_ptr
        \/ node_buff[i].mem_ptr + node_buff[i].size <= node_buff[f].mem_ptr
    BY <1>1, <1>4, <1>6, ListsFields DEF Apart
  <2>2. /\ node_buff[i].size \in Nat /\ node_buff[i].mem_ptr \in Nat
        /\ node_buff[i].size > 0 /\ node_buff[i].mem_ptr + node_buff[i].size <= N
    BY <1>5, <1>6
  <2> QED BY <2>1, <2>2, <1>4, <1>6
<1>7. CASE live # {}
  <2>1. PICK b \in live : TRUE
    BY <1>7
  <2>2. mem[b.base] \in UsedIn(Lists) \ {Dummy} /\ ~node_buff[mem[b.base]].free
    BY DEF IInv, Ownership, Owned
  <2>3. CASE node_buff[f].free
    <3>1. node_buff[f].size # N
      BY <2>2, <2>3, <1>6
    <3> QED BY <3>1, <1>7 DEF LeakSeen
  <2>4. CASE ~node_buff[f].free
    BY <2>4, <1>7 DEF LeakSeen
  <2> QED BY <2>3, <2>4
<1>8. CASE live = {}
  <2>1. \A i \in UsedIn(Lists) \ {Dummy} : node_buff[i].free
    BY <1>8 DEF IInv, NoneLost, Owning
  <2>2. node_buff[f].next = None
    <3>1. ~IsFree(Lists, node_buff[f].next)
      BY <1>1, <1>4, <2>1, ListsFields DEF Spread
    <3>2. node_buff[f].next # None => node_buff[f].next \in UsedIn(Lists) \ {Dummy}
      BY <1>1, <1>4, ListsFields DEF Linked
    <3> QED BY <3>1, <3>2, <2>1, ListsFields DEF IsFree
  <2>3. node_buff[f].size = N
    <3>1. node_buff[f].mem_ptr + node_buff[f].size = N
      BY <1>1, <1>4, <2>2, ListsFields DEF Spanning
    <3> QED BY <3>1, <1>4, <1>5
  <2>4. UsedIn(Lists) = {Dummy, f}
    BY <2>3, <1>2, <1>4, <1>6
  <2>5. Len(node_stack) = Len(node_buff) - 2
    <3>1. f # Dummy
      BY <1>4
    <3> HIDE DEF f
    <3> QED BY <3>1, <2>4, <1>1, StackLength, ListsFields
  <2>6. node_buff[f].free
    BY <2>1, <1>4
  <2>7. ~LeakSeen
    <3> HIDE DEF f
    <3>1. LeakSeen <=> ~node_buff[f].free \/ node_buff[f].size # N \/ Len(node_stack) # Len(node_buff) - 2
      BY DEF LeakSeen, f
    <3> QED BY <3>1, <2>3, <2>5, <2>6
  <2> QED BY <1>8, <2>7
<1> QED BY <1>7, <1>8

\* In the debug build the cells that no caller holds are as they were
\* initialised, those of a block a call works on included.
Clean == debug => \A c \in Cell : (\A b \in live : c \notin Refilled(b)) => mem[c] = InitVal

Checked == AssertionsHold /\ LeaksReported /\ (Running => Clean)

\* A step that changes none of what the destructor and the checks look at.
LEMMA QuietChecked ==
  ASSUME Checked, Running, UNCHANGED <<debug, mem, live, ending>>
  PROVE  Checked'
BY DEF Checked, AssertionsHold, LeaksReported, Running, Clean, Refilled, Block, ending

\* A running process has no failed assertion.
LEMMA RunningChecked ==
  ASSUME Checked, Running
  PROVE  Clean /\ failed = "no" /\ ~destroyed
BY DEF Checked, Running

\* The entry that malloc chose is still that of its node.
LEMMA CarveAsserts ==
  ASSUME IInv, Checked, Running, NEW t \in Threads, Carve(t)
  PROVE  Checked'
<1> DEFINE e == loc[t].fit
           n == node_buff[e.n_indx]
<1>1. pc[t] = "carve" /\ e # NoFit /\ UNCHANGED <<debug, mem, live>>
  BY DEF Carve, callers
<1>2. e \in free_map
  BY <1>1 DEF IInv, Chosen
<1>3. n.size = e.size /\ n.it = e /\ n.free
  BY <1>2, ListsFields DEF IInv, ListInv, Mapped
<1>4. UNCHANGED ending
  BY <1>3, Zenon DEF Carve
<1> QED BY <1>1, <1>4, QuietChecked

\* A block handed out holds init_mem_val, since no caller has it.
LEMMA ReturnAsserts ==
  ASSUME IInv, Checked, Running, NEW t \in Threads, Return(t)
  PROVE  Checked'
<1> USE ParametersAssumption
<1> DEFINE base == loc[t].base
           n == loc[t].fit.n_indx
           n_elem == loc[t].n_elem
           block == Block(base, n_elem + Header)
           b0 == [base |-> base, n_elem |-> n_elem]
<1>1. pc[t] = "filled" /\ debug' = debug /\ ListInv(Lists)
  BY DEF Return, IInv
<1>2. t \in Owning /\ Owned(n, base, n_elem)
  BY <1>1 DEF Owning, IInv, Ownership
<1>3. base \in Nat /\ n_elem \in Nat /\ live \subseteq [base : Nat, n_elem : Nat]
  BY DEF IInv, LocalsTyped
<1>4. base \in Cell /\ base + n_elem + Header <= N
  <2> HIDE DEF base, n, n_elem
  <2> QED BY <1>1, <1>2, <1>3, OwnedPlace
<1>5. block \subseteq Cell
  <2> HIDE DEF base, n_elem
  <2> QED BY <1>3, <1>4 DEF Block, Cell, Header
<1>6. ASSUME NEW b \in live PROVE block \cap Refilled(b) = {}
  <2>1. Owned(mem[b.base], b.base, b.n_elem) /\ mem[b.base] # n
    BY <1>2 DEF IInv, Ownership
  <2>2. b.base \in Nat /\ b.n_elem \in Nat
    BY <1>3
  <2>3. \/ base + n_elem + Header <= b.base
        \/ b.base + b.n_elem + Header <= base
    <3> HIDE DEF base, n, n_elem
    <3> QED BY <1>1, <1>2, <1>3, <2>1, <2>2, OwnedApart
  <2> HIDE DEF base, n_elem
  <2> QED BY <1>3, <2>2, <2>3 DEF Block, Refilled, Header
<1>7. Clean /\ failed = "no" /\ ~destroyed
  BY RunningChecked
<1>8. debug => \A c \in block : mem[c] = InitVal
  <2> HIDE DEF block
  <2> QED BY <1>5, <1>6, <1>7 DEF Clean
<1>9. /\ mem' = [c \in Cell |-> CASE c = base -> n
                                  [] c \in block \ {base} -> User
                                  [] OTHER -> mem[c]]
      /\ live' = live \cup {b0}
      /\ UNCHANGED ending
  BY <1>8, Zenon DEF Return
<1>10. Refilled(b0) = block /\ base \in block
  <2>1. Refilled(b0) = block
    BY DEF Refilled
  <2> HIDE DEF base, n_elem
  <2> QED BY <1>3, <2>1 DEF Block, Header
<1>11. ASSUME debug', NEW c \in Cell, \A b \in live' : c \notin Refilled(b)
       PROVE  mem'[c] = InitVal
  <2>1. c \notin block
    BY <1>9, <1>10, <1>11
  <2>2. mem'[c] = mem[c]
    <3> HIDE DEF block, base, n
    <3> QED BY <2>1, <1>9, <1>10, <1>11
  <2>3. \A b \in live : c \notin Refilled(b)
    BY <1>9, <1>11
  <2> QED BY <2>2, <2>3, <1>1, <1>7, <1>11 DEF Clean
<1>12. Clean'
  <2>1. \A b : Refilled(b)' = Refilled(b)
    BY DEF Refilled, Block
  <2> QED BY <1>11 DEF Clean, Refilled, Block
<1> QED BY <1>7, <1>9, <1>12 DEF Checked, AssertionsHold, LeaksReported, ending

\* The header names a node, and the block is refilled.
LEMMA FreeCallAsserts ==
  ASSUME IInv, Checked, Running, NEW t \in Threads, NEW b \in live, FreeCall(t, b)
  PROVE  Checked'
<1> DEFINE n == mem[b.base]
<1>1. n \in DOMAIN node_buff
  BY ListsFields DEF IInv, Ownership, Owned, UsedIn
<1>2. /\ mem' = [c \in Cell |-> IF debug /\ c \in Refilled(b) THEN InitVal ELSE mem[c]]
      /\ live' = live \ {b} /\ debug' = debug
      /\ UNCHANGED ending
  BY <1>1, Zenon DEF FreeCall
<1>3. Clean /\ failed = "no" /\ ~destroyed
  BY RunningChecked
<1>4. ASSUME debug', NEW c \in Cell, \A d \in live' : c \notin Refilled(d)
      PROVE  mem'[c] = InitVal
  <2>1. CASE c \in Refilled(b)
    BY <2>1, <1>2, <1>4
  <2>2. CASE c \notin Refilled(b)
    <3>1. \A d \in live : c \notin Refilled(d)
      BY <2>2, <1>2, <1>4
    <3>2. mem'[c] = mem[c]
      BY <2>2, <1>2, <1>4
    <3> QED BY <3>1, <3>2, <1>2, <1>3, <1>4 DEF Clean
  <2> QED BY <2>1, <2>2
<1>5. Clean'
  BY <1>4 DEF Clean, Refilled, Block
<1> QED BY <1>2, <1>3, <1>5 DEF Checked, AssertionsHold, LeaksReported, ending

\* The node is that of a block in use, at the place the caller gave back.
LEMMA FreeLockedAsserts ==
  ASSUME IInv, Checked, Running, NEW t \in Threads, FreeLocked(t)
  PROVE  Checked'
<1> DEFINE n == loc[t].fit.n_indx
<1>1. pc[t] = "free" /\ UNCHANGED <<debug, mem, live>>
  BY DEF FreeLocked, callers
<1>2. Owned(n, loc[t].base, loc[t].n_elem) /\ loc[t].n_elem \in Nat
  BY <1>1 DEF Owning, IInv, Ownership, LocalsTyped
<1>3. ~node_buff[n].free /\ node_buff[n].size > 0 /\ node_buff[n].mem_ptr = loc[t].base
  BY <1>2 DEF Owned, Header
<1>4. UNCHANGED ending
  BY <1>3, Zenon DEF FreeLocked
<1> QED BY <1>1, <1>4, QuietChecked

\* The destructor's checks see a block of a caller exactly if there is one.
LEMMA DestroyAsserts ==
  ASSUME IInv, Checked, Running, Destroy
  PROVE  Checked'
<1>1. /\ destroyed' = TRUE /\ warned' = LeakSeen /\ live' = live /\ debug' = debug
      /\ failed' = IF debug => \A c \in Cell : mem[c] = InitVal THEN "no" ELSE "destructor"
      /\ \A t \in Threads : pc[t] = "idle"
  BY DEF Destroy, callers
<1>2. warned' = (live # {})
  <2>1. LeakSeen <=> live # {}
    BY <1>1, LeakSeenExactly
  <2>2. LeakSeen \in BOOLEAN
    BY Zenon DEF LeakSeen
  <2>3. LeakSeen = (live # {})
    BY <2>1, <2>2
  <2> QED BY <1>1, <2>3
<1>3. Clean
  BY RunningChecked
<1>4. (debug => \A c \in Cell : mem[c] = InitVal) <=> ~(debug /\ live # {})
  <2>1. CASE live = {}
    BY <2>1, <1>3 DEF Clean
  <2>2. ASSUME NEW b \in live PROVE \E c \in Cell : mem[c] # InitVal
    <3>1. b \in [base : Nat, n_elem : Nat] /\ Owned(mem[b.base], b.base, b.n_elem) /\ ListInv(Lists)
      BY DEF IInv, LocalsTyped, Ownership
    <3>2. b.base \in Cell /\ mem[b.base] \in Nat
      BY <3>1, OwnedPlace
    <3> QED BY <3>2 DEF InitVal
  <2> QED BY <2>1, <2>2
<1>5. (failed' = "destructor") = (debug' /\ live' # {})
  <2>1. failed' = "destructor" <=> debug /\ live # {}
    BY <1>1, <1>4
  <2> QED BY <2>1, <1>1, Zenon
<1>6. AssertionsHold'
  BY <1>1, <1>4 DEF AssertionsHold
<1> QED BY <1>1, <1>2, <1>5, <1>6 DEF Checked, LeaksReported, Running

\* Every step keeps the checks.
LEMMA NextChecked == IInv /\ Checked /\ [Next]_vars => Checked'
<1> SUFFICES ASSUME IInv, Checked, [Next]_vars PROVE Checked'
  OBVIOUS
<1>1. CASE UNCHANGED vars
  BY <1>1 DEF vars, callers, ending, Checked, AssertionsHold, LeaksReported, Running, Clean, Refilled, Block
<1>2. CASE Running /\ Destroy
  BY <1>2, DestroyAsserts
<1>3. ASSUME Running, NEW t \in Threads, Thread(t) PROVE Checked'
  <2>1. ASSUME NEW n_elem \in Requests, MallocLock(t, n_elem) PROVE Checked'
    BY <1>3, <2>1, QuietChecked DEF MallocLock
  <2>2. CASE Resize(t)
    BY <1>3, <2>2, QuietChecked DEF Resize, callers
  <2>3. CASE Carve(t)
    BY <1>3, <2>3, CarveAsserts
  <2>4. CASE UseSystem(t)
    BY <1>3, <2>4, QuietChecked DEF UseSystem
  <2>5. CASE Return(t)
    BY <1>3, <2>5, ReturnAsserts
  <2>6. CASE FreeSystem(t)
    BY <1>3, <2>6, QuietChecked DEF FreeSystem
  <2>7. ASSUME NEW b \in live, FreeCall(t, b) PROVE Checked'
    BY <1>3, <2>7, FreeCallAsserts
  <2>8. CASE FreeRaces(t)
    <3>1. failed' = "race" /\ destroyed' = destroyed
      BY <2>8 DEF FreeRaces
    <3> QED BY <1>3, <3>1 DEF Checked, AssertionsHold, LeaksReported, Running
  <2>9. CASE FreeLocked(t)
    BY <1>3, <2>9, FreeLockedAsserts
  <2> QED BY <1>3, <2>1, <2>2, <2>3, <2>4, <2>5, <2>6, <2>7, <2>8, <2>9 DEF Thread
<1> QED BY <1>1, <1>2, <1>3 DEF Next, Stopped

LEMMA InitChecked == Init => Checked
BY DEF Init, Checked, AssertionsHold, LeaksReported, Running, Clean

\* No assertion of malloc or free fails but the one that reads
\* node_buff.size() without the lock, and the destructor's only if a caller
\* still holds a block.
THEOREM AssertionsAlwaysHold == Spec => []AssertionsHold
<1>1. Checked => AssertionsHold
  BY DEF Checked
<1> QED BY <1>1, InitInv, NextInv, InitChecked, NextChecked, PTL DEF Spec

\* The destructor reports a leak, and its assertion fails, exactly if a caller
\* still holds a block of the buffer.
THEOREM LeaksAlwaysReported == Spec => []LeaksReported
<1>1. Checked => LeaksReported
  BY DEF Checked
<1> QED BY <1>1, InitInv, NextInv, InitChecked, NextChecked, PTL DEF Spec
=============================================================================
