--------------------------- MODULE HyperQuickSort ---------------------------
(***************************************************************************)
(* par::HyperQuickSort of the in-house code: P MPI processes, each with a  *)
(* sorted block, halve their communicator again and again.  In every round *)
(* the members of a communicator agree on a split key, each exchanges with *)
(* a partner of the other half the part of its block that belongs there,   *)
(* and the communicator is split.  par::partitionW then evens the blocks   *)
(* out over all processes.                                                 *)
(*                                                                         *)
(* A collective call completes in one step, once every member of the       *)
(* communicator has reached it; what a member computes from its result is  *)
(* local and commutes with the other members.  MPI_Sendrecv is two steps,  *)
(* the send and the receive, over one FIFO channel per ordered pair of     *)
(* processes; with rendezvous it does not return before a receive for its  *)
(* own message is posted.  rand() may return anything.                     *)
(***************************************************************************)
EXTENDS Integers, Sequences, FiniteSets, Functions

CONSTANTS MaxP,         \* bound: number of processes
          Inputs,       \* for so many processes, a block for each, and whether
                        \* MPI_Sendrecv waits for its message to be taken
          SampleScale   \* 1000 in the code: samples drawn per communicator

ASSUME ParametersAssumption ==
  /\ MaxP \in Nat \ {0}
  /\ SampleScale \in Nat /\ SampleScale >= MaxP
  /\ \A input \in Inputs : /\ input.rendezvous \in BOOLEAN
                           /\ \E p \in 1..MaxP : input.arr \in [0..p-1 -> Seq(Nat)]

VARIABLES arr0,       \* arr_, the block each process is given
          rendezvous, \* whether sends wait
          pc,         \* where each process is
          comm,       \* the members of the communicator `comm` of each process
          npes,       \* its size and
          myrank,     \*   the rank in it, as the code computes them
          arr,        \* the sorted block
          totSize,    \* keys in the communicator, as the process believes
          split,      \* the agreed split key and its global position
          rsize,      \* sizes announced by the partner
          ext_rsize,  \*   and by the extra partner
          rbuff,      \* blocks received from the partner
          rbuff_ext,  \*   and from the extra partner
          net,        \* net[s][d], the messages on their way from s to d
          SortedElem  \* the result of each process

group == <<comm, npes, myrank>>
sizes == <<rsize, ext_rsize>>
buffers == <<rbuff, rbuff_ext>>
given == <<arr0, rendezvous>>
vars == <<given, pc, group, arr, totSize, split, sizes, buffers, net, SortedElem>>

Procs == DOMAIN arr0
P == Cardinality(Procs)

NoSplit == [key |-> 0, disp |-> 0]

----------------------------------------------------------------------------
(* Arrays.                                                                 *)

\* the sorted arrays with the elements of s, what sorting or merging can return
SortedCopies(s) ==
  {t \in [1..Len(s) -> Range(s)] :
     /\ \A i \in 1..Len(s) - 1 : t[i] <= t[i+1]
     /\ \A v \in Range(s) : Cardinality({i \in 1..Len(s) : t[i] = v})
                              = Cardinality({i \in 1..Len(s) : s[i] = v})}

Smaller(s, v) == {i \in 1..Len(s) : s[i] < v}

\* std::lower_bound(s, s+Len(s), v) - s on a sorted array
LowerBound(s, v) == Cardinality(Smaller(s, v))

\* a sum of sizes: how many elements the sets part[x] have together
Together(part) == Cardinality(UNION {{x} \X part[x] : x \in DOMAIN part})

\* the process of rank k in a communicator: MPI numbers the members in the
\* order of their ranks in the communicator it was split from
Member(c, k) == CHOOSE w \in c : Cardinality({x \in c : x < w}) = k

----------------------------------------------------------------------------
Init ==
  /\ \E input \in Inputs : arr0 = input.arr /\ rendezvous = input.rendezvous
  /\ pc = [r \in Procs |-> "allreduce"]
  /\ comm = [r \in Procs |-> Procs]
  /\ npes = [r \in Procs |-> P]
  /\ myrank = [r \in Procs |-> r]
  /\ arr = arr0
  /\ totSize = [r \in Procs |-> 0]
  /\ split = [r \in Procs |-> NoSplit]
  /\ rsize = [r \in Procs |-> 0]
  /\ ext_rsize = [r \in Procs |-> 0]
  /\ rbuff = [r \in Procs |-> <<>>]
  /\ rbuff_ext = [r \in Procs |-> <<>>]
  /\ net = [s \in Procs |-> [d \in Procs |-> <<>>]]
  /\ SortedElem = [r \in Procs |-> <<>>]

\* all members of c are at the same collective call of communicator c
AllAt(c, label) == \A r \in c : pc[r] = label /\ comm[r] = c

Goto(c, label(_)) == pc' = [r \in Procs |-> IF r \in c THEN label(r) ELSE pc[r]]

\* MPI_Allreduce of the block sizes
SumSizes ==
  /\ AllAt(Procs, "allreduce")
  /\ totSize' = [r \in Procs |-> Together([s \in Procs |-> DOMAIN arr[s]])]
  /\ Goto(Procs, LAMBDA r : "sort")
  /\ UNCHANGED <<given, group, arr, split, sizes, buffers, net, SortedElem>>

\* the condition of the while loop
LoopTest(np, tot) == IF np > 1 /\ tot > 0 THEN "sample" ELSE "partition"

LocalSort(r) ==
  /\ pc[r] = "sort"
  /\ \E s \in SortedCopies(arr[r]) : arr' = [arr EXCEPT ![r] = s]
  /\ pc' = [pc EXCEPT ![r] = LoopTest(npes[r], totSize[r])]
  /\ UNCHANGED <<given, group, totSize, split, sizes, buffers, net, SortedElem>>

\* splt_count, the number of keys process r draws from its block
SpltCount(r) ==
  LET wanted == (SampleScale * Len(arr[r])) \div totSize[r]
  IN  IF wanted > Len(arr[r]) THEN Len(arr[r]) ELSE wanted

\* glb_disp of a key: how many keys of the communicator are smaller
GlbDisp(c, v) == Together([r \in c |-> Smaller(arr[r], v)])

Distance(c, v) == LET d == GlbDisp(c, v) - totSize[Member(c, 0)] \div 2
                  IN  IF d < 0 THEN -d ELSE d

\* v can be the drawn key nearest to the middle: some member draws it, and every
\* member that draws has a key that is not nearer (ties are broken either way)
CanBeNearest(c, v) ==
  /\ \E r \in c : SpltCount(r) > 0 /\ v \in Range(arr[r])
  /\ \A r \in c : SpltCount(r) > 0 =>
       \E u \in Range(arr[r]) : Distance(c, u) >= Distance(c, v)

\* the draw, MPI_Allgather(v) of the keys, MPI_Allreduce of their positions
ChooseSplit(c) ==
  /\ AllAt(c, "sample")
  /\ \E v \in UNION {Range(arr[r]) : r \in c} :
       /\ CanBeNearest(c, v)
       /\ split' = [r \in Procs |-> IF r \in c
                                    THEN [key |-> v, disp |-> GlbDisp(c, v)]
                                    ELSE split[r]]
  /\ Goto(c, LAMBDA r : "exchange")
  /\ UNCHANGED <<given, group, arr, totSize, sizes, buffers, net, SortedElem>>

----------------------------------------------------------------------------
(* The exchange of one round.                                              *)

split_id(r) == (npes[r] - 1) \div 2
Upper(r) == myrank[r] > split_id(r)

TotSizeNew(r) == IF Upper(r) THEN totSize[r] - split[r].disp ELSE split[r].disp

partner(r) ==
  LET new_p0 == IF Upper(r) THEN split_id(r) + 1 ELSE 0
      cmp_p0 == IF Upper(r) THEN 0 ELSE split_id(r) + 1
      k == myrank[r] + cmp_p0 - new_p0
  IN  IF k >= npes[r] THEN npes[r] - 1 ELSE k

Partner(r) == Member(comm[r], partner(r))
ExtraPartner(r) == Member(comm[r], split_id(r))
extra_partner(r) == npes[r] % 2 = 1 /\ npes[r] - 1 = myrank[r]

\* mutated: the middle of the process's own block
split_indxOwn(r) == Len(arr[r]) \div 2

split_indx(r) == LowerBound(arr[r], split[r].key)
Below(r) == SubSeq(arr[r], 1, split_indx(r))
Above(r) == SubSeq(arr[r], split_indx(r) + 1, Len(arr[r]))
\* mutated: the same part on both sides
sbuffBelow(r) == Below(r)
lbuffBelow(r) == Below(r)

sbuff(r) == IF Upper(r) THEN Below(r) ELSE Above(r)
lbuff(r) == IF Upper(r) THEN Above(r) ELSE Below(r)

Message(r, kind, body) == [comm |-> comm[r], kind |-> kind, body |-> body]

Send(s, d, m) == net' = [net EXCEPT ![s][d] = Append(@, m)]

\* the process whose message r has posted a receive for
Awaited(r) == CASE pc[r] \in {"size", "data"} -> {Partner(r)}
                [] pc[r] \in {"extraSize", "extraData"} -> {ExtraPartner(r)}
                [] OTHER -> {}

\* no message of r to d is without a posted receive
SendMatched(r, d) ==
  Len(net[r][d]) <= (IF r \in Awaited(d) THEN 1 ELSE 0)

\* the receive of r from d is matched by m: r takes it and sends next (at most
\* one message) to e
TakeAndSend(r, d, m, e, next) ==
  /\ net[d][r] # <<>>
  /\ m = Head(net[d][r]) /\ m.comm = comm[r]
  /\ rendezvous => SendMatched(r, d)
  /\ LET taken == [net EXCEPT ![d][r] = Tail(@)]
     IN  net' = IF next = <<>> THEN taken
                ELSE [taken EXCEPT ![r][e] = @ \o next]

\* the MPI_Sendrecv of the sizes: its send half.  The buffers are resized once
\* the sizes are in, which discards the previous round's blocks.
SendSize(r) ==
  /\ pc[r] = "exchange"
  /\ Send(r, Partner(r), Message(r, "size", <<Len(sbuff(r))>>))
  /\ rsize' = [rsize EXCEPT ![r] = 0]
  /\ ext_rsize' = [ext_rsize EXCEPT ![r] = 0]
  /\ rbuff' = [rbuff EXCEPT ![r] = <<>>]
  /\ rbuff_ext' = [rbuff_ext EXCEPT ![r] = <<>>]
  /\ pc' = [pc EXCEPT ![r] = "size"]
  /\ UNCHANGED <<given, group, arr, totSize, split, SortedElem>>

\* mutated: no exchange of sizes with the extra partner
RecvSizeOnly(r) ==
  LET d == Partner(r)
      m == Head(net[d][r])
  IN  /\ pc[r] = "size"
      /\ TakeAndSend(r, d, m, d, <<Message(r, "data", sbuff(r))>>)
      /\ pc' = [pc EXCEPT ![r] = "data"]
      /\ rsize' = [rsize EXCEPT ![r] = m.body[1]]
      /\ UNCHANGED <<given, group, arr, totSize, split, ext_rsize, buffers, SortedElem>>

\* ... its receive half, and the send half of the next MPI_Sendrecv: the sizes
\* with the extra partner, if there is one, or else the data
RecvSize(r) ==
  LET d == Partner(r)
      m == Head(net[d][r])
  IN  /\ pc[r] = "size"
      /\ IF extra_partner(r)
         THEN /\ TakeAndSend(r, d, m, ExtraPartner(r), <<Message(r, "size", <<0>>)>>)
              /\ pc' = [pc EXCEPT ![r] = "extraSize"]
         ELSE /\ TakeAndSend(r, d, m, d, <<Message(r, "data", sbuff(r))>>)
              /\ pc' = [pc EXCEPT ![r] = "data"]
      /\ rsize' = [rsize EXCEPT ![r] = m.body[1]]
      /\ UNCHANGED <<given, group, arr, totSize, split, ext_rsize, buffers, SortedElem>>

RecvExtraSize(r) ==
  LET d == ExtraPartner(r)
      m == Head(net[d][r])
  IN  /\ pc[r] = "extraSize"
      /\ TakeAndSend(r, d, m, Partner(r), <<Message(r, "data", sbuff(r))>>)
      /\ ext_rsize' = [ext_rsize EXCEPT ![r] = m.body[1]]
      /\ pc' = [pc EXCEPT ![r] = "data"]
      /\ UNCHANGED <<given, group, arr, totSize, split, rsize, buffers, SortedElem>>

RecvData(r) ==
  LET d == Partner(r)
      m == Head(net[d][r])
  IN  /\ pc[r] = "data"
      /\ IF extra_partner(r)
         THEN /\ TakeAndSend(r, d, m, ExtraPartner(r), <<Message(r, "data", <<>>)>>)
              /\ pc' = [pc EXCEPT ![r] = "extraData"]
         ELSE /\ TakeAndSend(r, d, m, d, <<>>)
              /\ pc' = [pc EXCEPT ![r] = "merge"]
      /\ rbuff' = [rbuff EXCEPT ![r] = m.body]
      /\ UNCHANGED <<given, group, arr, totSize, split, sizes, rbuff_ext, SortedElem>>

RecvExtraData(r) ==
  LET d == ExtraPartner(r)
      m == Head(net[d][r])
  IN  /\ pc[r] = "extraData"
      /\ TakeAndSend(r, d, m, d, <<>>)
      /\ rbuff_ext' = [rbuff_ext EXCEPT ![r] = m.body]
      /\ pc' = [pc EXCEPT ![r] = "merge"]
      /\ UNCHANGED <<given, group, arr, totSize, split, sizes, rbuff, SortedElem>>

\* merge what was kept with what came from the partner and, if it announced
\* anything, from the extra partner
Merge(r) ==
  LET ext == IF ext_rsize[r] > 0 THEN rbuff_ext[r] ELSE <<>>
  IN  /\ pc[r] = "merge"
      /\ \E s \in SortedCopies(lbuff(r) \o rbuff[r] \o ext) :
           arr' = [arr EXCEPT ![r] = s]
      /\ totSize' = [totSize EXCEPT ![r] = TotSizeNew(r)]
      /\ pc' = [pc EXCEPT ![r] = "split"]
      /\ UNCHANGED <<given, group, split, sizes, buffers, net, SortedElem>>

\* mutated: the upper half counts one process too many
NewSizePlusOne(r) == IF Upper(r) THEN npes[r] - split_id(r) ELSE split_id(r) + 1

\* the loop's new npes and myrank
NewSize(r) == IF Upper(r) THEN npes[r] - split_id(r) - 1 ELSE split_id(r) + 1
NewRank(r) == IF Upper(r) THEN myrank[r] - split_id(r) - 1 ELSE myrank[r]

\* MPI_Comm_split by the half a process is in
CommSplit(c) ==
  LET In(f, g(_)) == [r \in Procs |-> IF r \in c THEN g(r) ELSE f[r]]
  IN  /\ AllAt(c, "split")
      /\ comm' = In(comm, LAMBDA r : {s \in c : Upper(s) = Upper(r)})
      /\ npes' = In(npes, NewSize)
      /\ myrank' = In(myrank, NewRank)
      /\ Goto(c, LAMBDA r : LoopTest(NewSize(r), totSize[r]))
      /\ UNCHANGED <<given, arr, totSize, split, sizes, buffers, net, SortedElem>>

----------------------------------------------------------------------------
(* par::partitionW with unit weights, on the communicator of all processes *)

Clip(x, lo, hi) == IF x < lo THEN lo ELSE IF x > hi THEN hi ELSE x

nlSize(r) == Len(arr[r])
totalWt == Together([s \in Procs |-> 1..nlSize(s)])
off1(r) == Together([s \in 0..r-1 |-> 1..nlSize(s)])
off2(r) == off1(r) + nlSize(r)

\* the window of processes that r may send to
pid1(r) == Clip((off1(r) * P) \div totalWt, 0, P)
pid2(r) == Clip(((off2(r) + 1) * P) \div totalWt + 1, 0, P)

\* keys process r sends to process i; lscn is off1, off1+1, ...
sendSz(r, i) ==
  LET bound(wt) == Clip(wt - off1(r), 0, nlSize(r))
      start == IF i = 0 THEN 0 ELSE bound((totalWt * i) \div P)
      end == IF i = P-1 THEN nlSize(r) ELSE bound((totalWt * (i+1)) \div P)
  IN  IF nlSize(r) > 0 /\ totalWt > 0
      THEN IF i \in pid1(r)..pid2(r)-1 THEN end - start ELSE 0
      ELSE IF i = 0 THEN nlSize(r) ELSE 0

\* blocks leave back to back (sendOff is a scan of sendSz) and are laid down in
\* the order of the processes they come from (recvOff is a scan of recvSz)
SentTo(i, r) ==
  LET sendOff == Together([k \in 0..i-1 |-> 1..sendSz(r, k)])
  IN  SubSeq(arr[r], sendOff + 1, sendOff + sendSz(r, i))

Joined(i) ==
  LET upto[k \in -1..P-1] == IF k = -1 THEN <<>> ELSE upto[k-1] \o SentTo(i, k)
  IN  upto[P-1]

\* MPI_Allreduce, MPI_Scan, MPI_Alltoall and Mpi_Alltoallv_sparse
PartitionW ==
  /\ \A r \in Procs : pc[r] = "partition"
  /\ SortedElem' = [i \in Procs |-> Joined(i)]
  /\ Goto(Procs, LAMBDA r : "done")
  /\ UNCHANGED <<given, group, arr, totSize, split, sizes, buffers, net>>

----------------------------------------------------------------------------
Local(r) == LocalSort(r) \/ SendSize(r) \/ RecvSize(r) \/ RecvExtraSize(r)
            \/ RecvData(r) \/ RecvExtraData(r) \/ Merge(r)

Collective(r) == ChooseSplit(comm[r]) \/ CommSplit(comm[r])

Returned == (\A r \in Procs : pc[r] = "done") /\ UNCHANGED vars

Next == SumSizes \/ PartitionW \/ Returned
        \/ \E r \in Procs : Local(r) \/ Collective(r)

\* every process keeps running, and a collective all have reached completes
Fairness == WF_vars(SumSizes) /\ WF_vars(PartitionW)
            /\ \A r \in 0..MaxP-1 : WF_vars(r \in Procs /\ Local(r))
                                   /\ WF_vars(r \in Procs /\ Collective(r))

Spec == Init /\ [][Next]_vars /\ Fairness

----------------------------------------------------------------------------

\* What the members of a communicator compute each for itself agrees: npes and
\* myrank are the size of the communicator MPI_Comm_split has made and the rank
\* in it, and the communicators divide the processes into runs of neighbours.
CommunicatorsAgree ==
  \A r \in Procs :
    /\ r \in comm[r]
    /\ npes[r] = Cardinality(comm[r])
    /\ myrank[r] = Cardinality({x \in comm[r] : x < r})
    /\ \A s \in Procs : s \in comm[r] <=> comm[s] = comm[r]
    /\ \A s, t \in comm[r] : s..t \subseteq comm[r]

\* the keys process r holds, not counting those it has sent and will drop
Held(r) == CASE pc[r] = "data" -> lbuff(r)
             [] pc[r] = "extraData" -> lbuff(r) \o rbuff[r]
             [] pc[r] = "merge" -> lbuff(r) \o rbuff[r] \o rbuff_ext[r]
             [] OTHER -> arr[r]

\* the positions in s of the keys K, and those in the blocks on a channel
Where(s, K) == {i \in DOMAIN s : s[i] \in K}
WhereSent(q, K) == UNION {{i} \X Where(q[i].body, K) : i \in {j \in DOMAIN q : q[j].kind = "data"}}

\* At every moment each key exists as often as in the input: held by one
\* process or on its way between two, whatever the others are doing; and every
\* round starts with totSize, which each member derives from the split alone,
\* the number of the keys in its communicator.
KeysConserved ==
  /\ \A v \in UNION {Range(arr0[r]) : r \in Procs} :
       Together([r \in Procs |-> Where(arr0[r], {v})]) =
         Together([r \in Procs |-> Where(Held(r), {v})]) +
         Together([e \in Procs \X Procs |-> WhereSent(net[e[1]][e[2]], {v})])
  /\ \A r \in Procs : AllAt(comm[r], "sample") =>
       totSize[r] = Together([s \in comm[r] |-> DOMAIN arr[s]])

\* Once two processes are in different communicators, every key of the lower
\* one is smaller than every key of the higher one, for good.
HalvesSeparated ==
  \A r, s \in Procs : r < s /\ comm[r] # comm[s] =>
    \A i \in DOMAIN arr[r], j \in DOMAIN arr[s] : arr[r][i] < arr[s][j]

Announced(r) == IF pc[r] = "data" THEN rsize[r] ELSE ext_rsize[r]

\* No receive is matched by the wrong send, although all carry the same tag: a
\* process waiting for a size finds a size, one waiting for a block finds a
\* block of the announced length, and no message outlives its communicator.
MessagesMatch ==
  /\ \A s, d \in Procs : \A i \in DOMAIN net[s][d] :
       net[s][d][i].comm = comm[s] /\ comm[s] = comm[d]
  /\ \A d \in Procs : \A s \in Awaited(d) : net[s][d] # <<>> =>
       LET m == Head(net[s][d])
       IN  IF pc[d] \in {"size", "extraSize"} THEN m.kind = "size"
           ELSE m.kind = "data" /\ Len(m.body) = Announced(d)

Returns == pc = [r \in Procs |-> "done"]

\* The blocks of all processes, one after the other, are what the sort maps to:
\* the whole is one ParallelSort, which also says that it finishes.
AllOf(block) == LET upto[k \in -1..P-1] == IF k = -1 THEN <<>> ELSE upto[k-1] \o block[k]
                IN  upto[P-1]

Abstract == INSTANCE ParallelSort WITH
              input <- AllOf(arr0),
              output <- IF Returns THEN AllOf(SortedElem) ELSE <<>>,
              done <- Returns

SortsGlobally == Abstract!Spec
=============================================================================
