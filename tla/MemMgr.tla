------------------------------- MODULE MemMgr -------------------------------
(***************************************************************************)
(* pvfmm::mem::MemoryManager: one buffer, cut into the blocks of a doubly  *)
(* linked list of nodes; the free ones are also in free_map, by size.  A   *)
(* call takes the smallest block that is large enough and splits it; a     *)
(* block given back is joined with its free neighbours; without a block    *)
(* large enough the system's malloc serves the call.                       *)
(*                                                                         *)
(* One lock guards the list.  Outside it a call checks the bytes it got,   *)
(* writes the header, and on the way back refills the block with           *)
(* init_mem_val and reads node_buff.size(), which another thread may be    *)
(* changing.  The refilling, the checks and the assertions are there       *)
(* unless NDEBUG is defined; an assertion that fails ends the process.     *)
(*                                                                         *)
(* Memory is counted in cells of MEM_ALIGN bytes; a header takes one.      *)
(* Calls with no element or a null pointer return at once and are left out.*)
(***************************************************************************)
EXTENDS Integers, Sequences, FiniteSets, SequencesExt

CONSTANTS N,            \* buff_size
          Threads,      \* the threads that call the manager
          Requests,     \* how many cells of elements a call may ask for
          MaxCalls,     \* bound: calls of malloc
          Nobody        \* the holder of a lock that is free

ASSUME ParametersAssumption ==
  /\ N \in Nat \ {0} /\ MaxCalls \in Nat /\ Requests \subseteq Nat \ {0}
  /\ Nobody \notin Threads

VARIABLES debug,        \* NDEBUG is not defined
          node_buff, node_stack, free_map,
          mem,          \* cell -> InitVal, User, or the n_indx of a header there
          lock,         \* the thread that holds omp_lock, or Nobody
          pc, loc,      \* where a thread is, and its local variables
          live, sys,    \* blocks of the buffer that callers hold; how many
                        \* blocks of the system's malloc they hold
          calls,        \* malloc calls so far
          failed,       \* the assertion that ended the process, or no
          destroyed, warned  \* the destructor ran; it printed its warning

list == <<node_buff, node_stack, free_map>>
callers == <<live, sys, calls>>
ending == <<failed, destroyed, warned>>
vars == <<debug, list, mem, lock, pc, loc, callers, ending>>

InitVal == -1           \* init_mem_val
User == -2              \* an element
None == 0               \* no node
Dummy == 1              \* n_dummy_indx
Cell == 0..N-1
System == N             \* base of a block that is not in the buffer
Header == 1             \* header_size
Entry(size, n_indx) == [size |-> size, n_indx |-> n_indx]
NoFit == Entry(0, None)
Unused == [free |-> FALSE, size |-> 0, mem_ptr |-> 0, prev |-> None, next |-> None,
           it |-> NoFit]
NoLocals == [n_elem |-> 0, fit |-> NoFit, base |-> System]
Block(base, size) == base .. base + size - 1

Init ==
  /\ debug \in BOOLEAN
  /\ node_buff = <<[Unused EXCEPT !.next = 2],
                   [Unused EXCEPT !.free = TRUE, !.size = N, !.prev = Dummy,
                                  !.it = Entry(N, 2)]>>
  /\ node_stack = <<>>
  /\ free_map = {Entry(N, 2)}
  /\ mem = [c \in Cell |-> InitVal]
  /\ lock = Nobody
  /\ pc = [t \in Threads |-> "idle"]
  /\ loc = [t \in Threads |-> NoLocals]
  /\ live = {} /\ sys = 0 /\ calls = 0
  /\ failed = "no" /\ destroyed = FALSE /\ warned = FALSE

Running == failed = "no" /\ ~destroyed
Goto(t, l) == pc' = [pc EXCEPT ![t] = l]
Leave(t) == Goto(t, "idle") /\ loc' = [loc EXCEPT ![t] = NoLocals]

----------------------------------------------------------------------------
(* malloc *)

LargeEnough(size) == {e \in free_map : e.size >= size}

\* free_map.lower_bound; which of several blocks of that size is left open
Fits(size) ==
  IF LargeEnough(size) = {} THEN {NoFit}
  ELSE {e \in LargeEnough(size) : \A o \in LargeEnough(size) : e.size <= o.size}

Splits(e, size) == e # NoFit /\ e.size > size

\* the call takes the lock and looks for a block
MallocLock(t, n_elem) ==
  /\ pc[t] = "idle" /\ lock = Nobody
  /\ calls < MaxCalls
  /\ calls' = calls + 1
  /\ lock' = t
  /\ \E e \in Fits(n_elem + Header) :
       /\ loc' = [loc EXCEPT ![t] = [n_elem |-> n_elem, fit |-> e, base |-> System]]
       /\ Goto(t, IF Splits(e, n_elem + Header) /\ node_stack = <<>> THEN "resize" ELSE "carve")
  /\ UNCHANGED <<debug, list, mem, live, sys, ending>>

\* new_node makes node_buff longer
Resize(t) ==
  /\ pc[t] = "resize"
  /\ node_buff' = Append(node_buff, Unused)
  /\ node_stack' = Append(node_stack, Len(node_buff) + 1)
  /\ Goto(t, "carve")
  /\ UNCHANGED <<debug, free_map, mem, lock, loc, callers, ending>>

\* mutated: the next block keeps pointing back to the block that was split
SplitNodeOneWay(n_indx, n_free_indx, size) ==
  LET n == node_buff[n_indx] IN
  [i \in DOMAIN node_buff |->
     CASE i = n_indx -> [n EXCEPT !.free = FALSE, !.size = size, !.next = n_free_indx]
       [] i = n_free_indx -> [n EXCEPT !.size = @ - size, !.mem_ptr = @ + size, !.prev = n_indx,
                                       !.it = Entry(n.size - size, n_free_indx)]
       [] OTHER -> node_buff[i]]

\* the first size cells of node n_indx become a block, the rest node n_free_indx
SplitNode(n_indx, n_free_indx, size) ==
  LET n == node_buff[n_indx] IN
  [i \in DOMAIN node_buff |->
     CASE i = n_indx -> [n EXCEPT !.free = FALSE, !.size = size, !.next = n_free_indx]
       [] i = n_free_indx -> [n EXCEPT !.size = @ - size, !.mem_ptr = @ + size, !.prev = n_indx,
                                       !.it = Entry(n.size - size, n_free_indx)]
       [] i = n.next -> [node_buff[i] EXCEPT !.prev = n_free_indx]
       [] OTHER -> node_buff[i]]

\* the block is cut off and the lock released
Carve(t) ==
  LET size == loc[t].n_elem + Header
      e == loc[t].fit
      n == node_buff[e.n_indx]
      top == Last(node_stack)
  IN
  /\ pc[t] = "carve" /\ e # NoFit
  /\ IF debug => n.size = e.size /\ n.it = e /\ n.free
     THEN /\ IF Splits(e, size)
             THEN /\ node_buff' = SplitNode(e.n_indx, top, size)
                  /\ node_stack' = Front(node_stack)
                  /\ free_map' = (free_map \ {e}) \cup {Entry(e.size - size, top)}
             ELSE /\ node_buff' = [node_buff EXCEPT ![e.n_indx].free = FALSE]
                  /\ free_map' = free_map \ {e}
                  /\ UNCHANGED node_stack
          /\ loc' = [loc EXCEPT ![t].base = n.mem_ptr]
          /\ lock' = Nobody
          /\ Goto(t, "filled")
          /\ UNCHANGED ending
     ELSE failed' = "malloc" /\ UNCHANGED <<list, loc, lock, pc, destroyed, warned>>
  /\ UNCHANGED <<debug, mem, callers>>

\* mutated: the call waits, with the lock, for a block that is large enough
UseSystemNever(t) ==
  /\ pc[t] = "carve" /\ loc[t].fit = NoFit
  /\ \E e \in Fits(loc[t].n_elem + Header) : loc' = [loc EXCEPT ![t].fit = e]
  /\ UNCHANGED <<debug, list, mem, lock, pc, callers, ending>>

\* no block is large enough: the system's malloc
UseSystem(t) ==
  /\ pc[t] = "carve" /\ loc[t].fit = NoFit
  /\ lock' = Nobody
  /\ sys' = sys + 1
  /\ Leave(t)
  /\ UNCHANGED <<debug, list, mem, live, calls, ending>>

\* the block must be as it was initialised; the header and the elements are
\* written (aligned_new constructs them or sets them to 0)
Return(t) ==
  LET base == loc[t].base
      block == Block(base, loc[t].n_elem + Header)
  IN
  /\ pc[t] = "filled"
  /\ IF debug => \A c \in block : mem[c] = InitVal
     THEN /\ mem' = [c \in Cell |-> CASE c = base -> loc[t].fit.n_indx
                                      [] c \in block \ {base} -> User
                                      [] OTHER -> mem[c]]
          /\ live' = live \cup {[base |-> base, n_elem |-> loc[t].n_elem]}
          /\ Leave(t)
          /\ UNCHANGED ending
     ELSE failed' = "init_mem_val" /\ UNCHANGED <<mem, live, pc, loc, destroyed, warned>>
  /\ UNCHANGED <<debug, list, lock, sys, calls>>

----------------------------------------------------------------------------
(* free *)

FreeSystem(t) ==
  /\ pc[t] = "idle" /\ sys > 0
  /\ sys' = sys - 1
  /\ UNCHANGED <<debug, list, mem, lock, pc, loc, live, calls, ending>>

\* mutated: the elements alone
RefilledElements(b) == Block(b.base + Header, b.n_elem)

\* the cells that free refills
Refilled(b) == Block(b.base, b.n_elem + Header)

\* the header is read, its check sum verified, and header and elements are
\* set back to init_mem_val; b may be a block another thread has asked for
FreeCall(t, b) ==
  /\ pc[t] = "idle"
  /\ live' = live \ {b}
  /\ IF mem[b.base] \in DOMAIN node_buff
     THEN /\ mem' = [c \in Cell |-> IF debug /\ c \in Refilled(b) THEN InitVal ELSE mem[c]]
          /\ loc' = [loc EXCEPT ![t] = [n_elem |-> b.n_elem, base |-> b.base,
                                        fit |-> Entry(0, mem[b.base])]]
          /\ Goto(t, "free")
          /\ UNCHANGED ending
     ELSE failed' = "header" /\ UNCHANGED <<mem, loc, pc, destroyed, warned>>
  /\ UNCHANGED <<debug, list, lock, sys, calls>>

\* node_buff.size() is read while another thread makes node_buff longer: the
\* value can be anything, and the assertion may fail
FreeRaces(t) ==
  /\ debug /\ pc[t] = "idle" /\ live # {}
  /\ \E u \in Threads : pc[u] = "resize"
  /\ failed' = "race"
  /\ UNCHANGED <<debug, list, mem, lock, pc, loc, callers, destroyed, warned>>

\* the nodes, the stack of unused ones and the map, while free changes them
Lists == [node |-> node_buff, stack |-> node_stack, map |-> free_map]

\* mutated: the node is not kept for later use
delete_nodeLost(h, i) ==
  [node |-> [h.node EXCEPT ![i] = [Unused EXCEPT !.it = h.node[i].it]],
   stack |-> h.stack,
   map |-> h.map \ {h.node[i].it}]

delete_node(h, i) ==
  [node |-> [h.node EXCEPT ![i] = [Unused EXCEPT !.it = h.node[i].it]],
   stack |-> Append(h.stack, i),
   map |-> h.map \ {h.node[i].it}]

IsFree(h, i) == i # None /\ h.node[i].free

\* node n takes in the block before it
JoinPrev(h, n) ==
  LET p == h.node[n].prev
      d == delete_node(h, p)
      pp == h.node[p].prev
  IN IF ~IsFree(h, p) THEN h
     ELSE [d EXCEPT !.node = [i \in DOMAIN h.node |->
             CASE i = n -> [h.node[n] EXCEPT !.size = @ + h.node[p].size, !.prev = pp,
                                             !.mem_ptr = h.node[p].mem_ptr]
               [] i = pp -> [d.node[i] EXCEPT !.next = n]
               [] OTHER -> d.node[i]]]

\* mutated: no test that the block after it is free
JoinNextAny(h, n) ==
  LET q == h.node[n].next
      d == delete_node(h, q)
      qq == h.node[q].next
  IN IF q = None THEN h
     ELSE [d EXCEPT !.node = [i \in DOMAIN h.node |->
             CASE i = n -> [h.node[n] EXCEPT !.size = @ + h.node[q].size, !.next = qq]
               [] i = qq -> [d.node[i] EXCEPT !.prev = n]
               [] OTHER -> d.node[i]]]

\* node n takes in the block after it
JoinNext(h, n) ==
  LET q == h.node[n].next
      d == delete_node(h, q)
      qq == h.node[q].next
  IN IF ~IsFree(h, q) THEN h
     ELSE [d EXCEPT !.node = [i \in DOMAIN h.node |->
             CASE i = n -> [h.node[n] EXCEPT !.size = @ + h.node[q].size, !.next = qq]
               [] i = qq -> [d.node[i] EXCEPT !.prev = n]
               [] OTHER -> d.node[i]]]

\* with the lock: the block is joined with its neighbours and becomes free
FreeLocked(t) ==
  LET n == loc[t].fit.n_indx
      h == JoinNext(JoinPrev(Lists, n), n)
      e == Entry(h.node[n].size, n)
  IN
  /\ pc[t] = "free" /\ lock = Nobody
  /\ IF debug => ~node_buff[n].free /\ node_buff[n].size > 0 /\ node_buff[n].mem_ptr = loc[t].base
     THEN /\ node_buff' = [h.node EXCEPT ![n].free = TRUE, ![n].it = e]
          /\ node_stack' = h.stack
          /\ free_map' = h.map \cup {e}
          /\ Leave(t)
          /\ UNCHANGED ending
     ELSE failed' = "free" /\ UNCHANGED <<list, pc, loc, destroyed, warned>>
  /\ UNCHANGED <<debug, mem, lock, callers>>

----------------------------------------------------------------------------
(* the destructor, when no call is running *)

LeakSeen ==
  LET n == node_buff[node_buff[Dummy].next] IN
  ~n.free \/ n.size # N \/ Len(node_stack) # Len(node_buff) - 2

Destroy ==
  /\ \A t \in Threads : pc[t] = "idle"
  /\ destroyed' = TRUE
  /\ warned' = LeakSeen
  /\ failed' = IF debug => \A c \in Cell : mem[c] = InitVal THEN "no" ELSE "destructor"
  /\ UNCHANGED <<debug, list, mem, lock, pc, loc, callers>>

Thread(t) ==
  \/ \E n_elem \in Requests : MallocLock(t, n_elem)
  \/ Resize(t)
  \/ Carve(t)
  \/ UseSystem(t)
  \/ Return(t)
  \/ FreeSystem(t)
  \/ \E b \in live : FreeCall(t, b)
  \/ FreeRaces(t)
  \/ FreeLocked(t)

Stopped == ~Running /\ UNCHANGED vars

Next == (Running /\ (Destroy \/ \E t \in Threads : Thread(t))) \/ Stopped

\* a thread that is in a call goes on
InCall(t) == Resize(t) \/ Carve(t) \/ UseSystem(t) \/ Return(t) \/ FreeLocked(t)
Fairness == \A t \in Threads : WF_vars(Running /\ InCall(t))

Spec == Init /\ [][Next]_vars /\ Fairness

----------------------------------------------------------------------------
(* Properties *)

Used == DOMAIN node_buff \ Range(node_stack)

\* The list from the dummy on covers the buffer without gap or overlap, and
\* its backward links mirror its forward links; free_map lists exactly the free
\* blocks with their sizes, and free blocks are never neighbours: splitting and
\* joining in any order leave no node that points to a deleted one.
ListSound ==
  /\ \A i \in Used :
       LET n == node_buff[i] IN
       /\ i # Dummy => n.size > 0 /\ n.prev \in Used /\ node_buff[n.prev].next = i
       /\ IF n.next = None THEN n.mem_ptr + n.size = N
          ELSE /\ n.next \in Used
               /\ node_buff[n.next].prev = i
               /\ node_buff[n.next].mem_ptr = n.mem_ptr + n.size
  /\ free_map = {Entry(node_buff[i].size, i) : i \in {j \in Used : node_buff[j].free}}
  /\ \A i \in Used : IsFree(Lists, i) => ~IsFree(Lists, node_buff[i].next)

\* No assertion of malloc or free ever fails, but the one that reads
\* node_buff.size() without the lock: the node of a header is the node of its
\* block, and a block handed out holds init_mem_val everywhere, although free
\* refills it before it takes the lock and malloc looks after it let go.
AssertionsHold == failed \in {"no", "race"} \/ (failed = "destructor" /\ live # {})

\* The destructor reports a leak, and its assertion finds bytes that are not
\* init_mem_val, exactly if a caller still holds a block of the buffer: however blocks were
\* split and joined, no node and no block is lost.
LeaksReported == destroyed => warned = (live # {}) /\ (failed = "destructor") = (debug /\ live # {})

\* The blocks callers hold at the same time never overlap, with the checks of
\* the debug build and without them.
Alloc == INSTANCE Allocator WITH
  held <- {[base |-> b.base, size |-> b.n_elem + Header] : b \in live}

Disjoint == Alloc!Spec

\* Every call returns: no thread keeps the lock.
CallsReturn == \A t \in Threads : pc[t] # "idle" ~> (pc[t] = "idle" \/ failed # "no")
=============================================================================
