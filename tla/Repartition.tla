---------------------------- MODULE Repartition ----------------------------
(***************************************************************************)
(* How rkdt moves points between the processes of a communicator:          *)
(* loadBalance_arbitraryN evens out how many each process holds, and       *)
(* tree_repartition_arbitraryN brings the points of the left child to the  *)
(* first half of the processes and those of the right child to the second. *)
(*                                                                         *)
(* A communicator is an interval <<first, last>> of world ranks: it is     *)
(* MPI_COMM_WORLD or was made from an interval by a split in the order of  *)
(* ranks.  A point stands for its coordinates too: both travel together.   *)
(* A collective call is one step of all the processes of its communicator. *)
(* The exchange of counts before each exchange of points is one message    *)
(* with it, as neither side does anything between the two.                 *)
(***************************************************************************)
EXTENDS Integers, Sequences, FiniteSets, FiniteSetsExt, TLC

VARIABLES given,        \* the input: points, where they are, parameters
          pc,
          comm,         \* comm[r], the communicator process r works in
          gids,         \* gids[r], a vector that may be longer than what counts
          numof_points, \* how many of gids[r] count
          plr,          \* <<load, rank>> of the processes of comm, sorted
          niter,        \* iterations of the load balance done
          n_send,       \* points sent in the exchange a process is in
          n_left,       \* points of the left child, once they come first
          chan          \* chan[s][d], messages from s to d

repartitionVars == <<pc, comm, gids, numof_points, plr, niter, n_send, n_left, chan>>

Procs == 0 .. Len(given.at) - 1
Members(r) == comm[r][1] .. comm[r][2]
Size(r) == comm[r][2] - comm[r][1] + 1
Rank(r) == r - comm[r][1]
World(r, rank) == comm[r][1] + rank

Live(r) == SubSeq(gids[r], 1, numof_points[r])
Points(r) == {Live(r)[i] : i \in 1..numof_points[r]}

\* every process of a communicator, led by its first, is at a collective call
Together(r, l) ==
  /\ r = comm[r][1]
  /\ \A o \in Members(r) : comm[o] = comm[r] /\ pc[o] = l

AllGoto(r, l) == pc' = [o \in Procs |-> IF o \in Members(r) THEN l ELSE pc[o]]
Goto(r, l) == pc' = [pc EXCEPT ![r] = l]

-----------------------------------------------------------------------------
(* loadBalance_arbitraryN *)

Lighter(a, b) == a[1] < b[1] \/ (a[1] = b[1] /\ a[2] < b[2])

\* MPI_Allgather of the loads, sorted with the rank of each
LoadsOf(r) ==
  SortSeq([i \in 1..Size(r) |-> <<numof_points[World(r, i - 1)], i - 1>>], Lighter)

Gathered(r) == plr' = [o \in Procs |-> IF o \in Members(r) THEN LoadsOf(r) ELSE plr[o]]

\* ceil(log2(size)) + 2
MaxIter(size) == (CHOOSE e \in 0..size : 2^e >= size /\ (e = 0 \/ 2^(e-1) < size)) + 2

\* the first MPI_Allgather
BalanceStart(r) ==
  /\ Gathered(r)
  /\ niter' = [o \in Procs |-> IF o \in Members(r) THEN 0 ELSE niter[o]]
  /\ AllGoto(r, "balance")

MyPos(r) == (CHOOSE i \in 1..Size(r) : plr[r][i][2] = Rank(r)) - 1
PartnerEntry(r) == plr[r][Size(r) - MyPos(r)]
BalancePartner(r) == World(r, PartnerEntry(r)[2])

Heavy(r) == MyPos(r) >= Size(r) \div 2

\* mutated: the whole difference, not half of it
SurplusWhole(r) == IF Heavy(r) THEN numof_points[r] - PartnerEntry(r)[1] ELSE 0

Surplus(r) == IF Heavy(r) THEN (numof_points[r] - PartnerEntry(r)[1]) \div 2 ELSE 0

\* the heavier half sends from the end of its points, the others nothing
BalanceSend(r) ==
  /\ pc[r] = "balance"
  /\ n_send' = [n_send EXCEPT ![r] = Surplus(r)]
  /\ chan' = [chan EXCEPT ![r][BalancePartner(r)] =
       Append(@, SubSeq(gids[r], numof_points[r] - Surplus(r) + 1, numof_points[r]))]
  /\ Goto(r, "balance_wait")
  /\ UNCHANGED <<given, comm, gids, numof_points, plr, niter, n_left>>

\* mutated: behind the old points of the vector, those that no longer count too
ReceivedAtEnd(v, n, new) == v \o new

\* the vector grows by what comes, which goes behind the points that count
Received(v, n, new) ==
  LET resized == v \o [i \in 1..Len(new) |-> 0]
  IN  SubSeq(v, 1, n) \o new \o SubSeq(resized, n + Len(new) + 1, Len(resized))

BalanceRecv(r) ==
  LET p == BalancePartner(r) IN
  /\ pc[r] = "balance_wait"
  /\ chan[p][r] # <<>>
  /\ gids' = [gids EXCEPT ![r] = Received(@, numof_points[r], Head(chan[p][r]))]
  /\ numof_points' = [numof_points EXCEPT ![r] =
       IF Heavy(r) THEN @ - n_send[r] ELSE @ + Len(Head(chan[p][r]))]
  /\ chan' = [chan EXCEPT ![p][r] = Tail(@)]
  /\ Goto(r, "balance_gather")
  /\ UNCHANGED <<given, comm, plr, niter, n_send, n_left>>

\* the MPI_Allgather that ends an iteration
BalanceGather(r) ==
  /\ Together(r, "balance_gather")
  /\ Gathered(r)
  /\ niter' = [o \in Procs |-> IF o \in Members(r) THEN niter[o] + 1 ELSE niter[o]]
  /\ AllGoto(r, IF niter[r] + 1 < MaxIter(Size(r)) THEN "balance" ELSE "balanced")
  /\ UNCHANGED <<given, comm, gids, numof_points, n_send, n_left, chan>>

-----------------------------------------------------------------------------
(* tree_repartition_arbitraryN *)

\* the middle process of an odd number is on the left
Color(size, rank) ==
  IF size % 2 = 0 THEN IF rank < size \div 2 THEN 0 ELSE 1
                  ELSE IF rank <= size \div 2 THEN 0 ELSE 1

\* p_left, which is first_right too
PLeft(size) == Min({i \in 0 .. size - 1 : Color(size, i) = 1})
PRight(size) == size - PLeft(size)

MyColor(r) == Color(Size(r), Rank(r))

InFirst(r) == Rank(r) < PRight(Size(r)) \/ Rank(r) >= PLeft(Size(r))

\* mutated: the right process that works twice is forgotten
InSecondLeft(r) ==
  PLeft(Size(r)) # PRight(Size(r)) /\ Rank(r) >= PRight(Size(r)) /\ Rank(r) < PLeft(Size(r))

InSecond(r) ==
  /\ PLeft(Size(r)) # PRight(Size(r))
  /\ Rank(r) >= PRight(Size(r))
  /\ Rank(r) < PLeft(Size(r)) + (PLeft(Size(r)) - PRight(Size(r)))

\* who a process exchanges points with
ExchangePartner(r, turn) ==
  World(r, IF MyColor(r) = 0 THEN PLeft(Size(r)) + (Rank(r) % PRight(Size(r)))
           ELSE IF turn = 1 THEN Rank(r) - PLeft(Size(r))
           ELSE Rank(r) - PLeft(Size(r)) + PRight(Size(r)))

Turn(r) == IF pc[r] \in {"exchange1", "exchange1_wait"} THEN 1 ELSE 2

\* left sends its last points, right its first, and nothing the second time
Outgoing(r) ==
  IF MyColor(r) = 0 THEN SubSeq(gids[r], n_left[r] + 1, numof_points[r])
  ELSE IF Turn(r) = 1 THEN SubSeq(gids[r], 1, n_left[r])
  ELSE <<>>

ExchangeSend(r) ==
  /\ pc[r] \in {"exchange1", "exchange2"}
  /\ n_send' = [n_send EXCEPT ![r] = Len(Outgoing(r))]
  /\ chan' = [chan EXCEPT ![r][ExchangePartner(r, Turn(r))] = Append(@, Outgoing(r))]
  /\ Goto(r, IF Turn(r) = 1 THEN "exchange1_wait" ELSE "exchange2_wait")
  /\ UNCHANGED <<given, comm, gids, numof_points, plr, niter, n_left>>

\* mutated: no gap is closed
CompressedNever(r) == SubSeq(gids[r], 1, numof_points[r] - n_send[r])

\* right closes the gap in front, left has its gap at the end
Compressed(r) ==
  IF (Turn(r) = 1 /\ Rank(r) >= Size(r) \div 2) \/ (Turn(r) = 2 /\ MyColor(r) = 1)
  THEN SubSeq(gids[r], n_send[r] + 1, numof_points[r])
  ELSE SubSeq(gids[r], 1, numof_points[r] - n_send[r])

ExchangeRecv(r) ==
  LET p == ExchangePartner(r, Turn(r)) IN
  /\ pc[r] \in {"exchange1_wait", "exchange2_wait"}
  /\ chan[p][r] # <<>>
  /\ gids' = [gids EXCEPT ![r] = Compressed(r) \o Head(chan[p][r])]
  /\ numof_points' = [numof_points EXCEPT ![r] = @ - n_send[r] + Len(Head(chan[p][r]))]
  /\ chan' = [chan EXCEPT ![p][r] = Tail(@)]
  /\ Goto(r, IF Turn(r) = 1 THEN "barrier1" ELSE "barrier2")
  /\ UNCHANGED <<given, comm, plr, niter, n_send, n_left>>

\* where a process starts in tree_repartition_arbitraryN
FirstStep(o) == IF InFirst(o) THEN "exchange1" ELSE "barrier1"

\* the MPI_Barrier between the two exchanges
Barrier1(r) ==
  /\ Together(r, "barrier1")
  /\ pc' = [o \in Procs |-> IF o \notin Members(r) THEN pc[o]
                            ELSE IF InSecond(o) THEN "exchange2" ELSE "barrier2"]
  /\ UNCHANGED <<given, comm, gids, numof_points, plr, niter, n_send, n_left, chan>>

\* and the one after it, with the communicator of the child the process is in
Half(r) == LET c == comm[r]
               m == c[1] + PLeft(Size(r))
           IN  IF MyColor(r) = 0 THEN <<c[1], m - 1>> ELSE <<m, c[2]>>

Repartitioning(r) ==
  \/ BalanceSend(r)
  \/ BalanceRecv(r)
  \/ BalanceGather(r)
  \/ ExchangeSend(r)
  \/ ExchangeRecv(r)
  \/ Barrier1(r)
=============================================================================
