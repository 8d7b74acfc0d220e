-------------------------- MODULE AlltoallvSparse ---------------------------
(***************************************************************************)
(* par::Mpi_Alltoallv_sparse: an all-to-all exchange in which every pair   *)
(* of processes that has something to say exchanges one message.  A        *)
(* process posts all its receives, then all its synchronous sends, copies  *)
(* what it sends to itself, and waits for all of them.                     *)
(*                                                                         *)
(* A process that has returned may go into its next exchange while others  *)
(* are still in this one; all messages have tag 1.  MPI matches the sends  *)
(* and the receives of a pair of processes in the order they are posted,   *)
(* and a matched receive has its message when MPI_Waitall returns.         *)
(***************************************************************************)
EXTENDS Integers, Sequences

CONSTANTS Procs,
          MaxExchanges,         \* bound: exchanges one after the other
          Exchanges     \* what they are: x[e][s][d] elements from s to d

\* what the callers see to; Exchanges assumes it
ParametersOK ==
  MaxExchanges \in Nat \ {0} /\ Exchanges \subseteq [1..MaxExchanges -> [Procs -> [Procs -> Nat]]]

VARIABLES sendcnts,     \* the exchanges the processes make
          exch,         \* which one each process is in
          step,         \* and where in it
          sends,        \* sends[s][d], the exchanges s has posted a send to d in
          recvs,        \* recvs[d][s], those d has posted a receive from s in
          recvbuf       \* recvbuf[d][e][s], what d got from s in exchange e

vars == <<sendcnts, exch, step, sends, recvs, recvbuf>>

NotReturned == <<>>

\* what s sends to d in exchange e
Elements(e, s, d) == [k \in 1..sendcnts[e][s][d] |-> <<<<e, s>>, <<e, d>>, k>>]

Init ==
  /\ sendcnts \in Exchanges
  /\ exch = [r \in Procs |-> 1]
  /\ step = [r \in Procs |-> "receives"]
  /\ sends = [s \in Procs |-> [d \in Procs |-> <<>>]]
  /\ recvs = [d \in Procs |-> [s \in Procs |-> <<>>]]
  /\ recvbuf = [d \in Procs |-> [e \in 1..MaxExchanges |-> NotReturned]]

Others(r) == Procs \ {r}
Goto(r, l) == step' = [step EXCEPT ![r] = l]

\* MPI_Irecv from everyone who sends something
PostReceives(r) ==
  /\ step[r] = "receives"
  /\ recvs' = [recvs EXCEPT ![r] = [s \in Procs |->
       IF s \in Others(r) /\ sendcnts[exch[r]][s][r] > 0
       THEN Append(@[s], exch[r]) ELSE @[s]]]
  /\ Goto(r, "sends")
  /\ UNCHANGED <<sendcnts, exch, sends, recvbuf>>

\* mutated: a message for everyone, however short
PostSendsEmpty(r) ==
  /\ step[r] = "sends"
  /\ sends' = [sends EXCEPT ![r] = [d \in Procs |->
       IF d \in Others(r) THEN Append(@[d], exch[r]) ELSE @[d]]]
  /\ Goto(r, "wait")
  /\ UNCHANGED <<sendcnts, exch, recvs, recvbuf>>

\* MPI_Issend to everyone there is something for, and the copy to itself
PostSends(r) ==
  /\ step[r] = "sends"
  /\ sends' = [sends EXCEPT ![r] = [d \in Procs |->
       IF d \in Others(r) /\ sendcnts[exch[r]][r][d] > 0
       THEN Append(@[d], exch[r]) ELSE @[d]]]
  /\ Goto(r, "wait")
  /\ UNCHANGED <<sendcnts, exch, recvs, recvbuf>>

\* every receive of r has its message, every send of r its receive
AllMatched(r) ==
  \A o \in Procs : Len(sends[o][r]) >= Len(recvs[r][o]) /\ Len(recvs[o][r]) >= Len(sends[r][o])

\* what r finds in its buffer from s: the message its last receive matches
Got(r, s) ==
  IF sendcnts[exch[r]][s][r] = 0 THEN <<>>
  ELSE IF s = r THEN Elements(exch[r], r, r)
  ELSE Elements(sends[s][r][Len(recvs[r][s])], s, r)

WaitAll(r) ==
  /\ step[r] = "wait"
  /\ AllMatched(r)
  /\ recvbuf' = [recvbuf EXCEPT ![r][exch[r]] = [s \in Procs |-> Got(r, s)]]
  /\ IF exch[r] = MaxExchanges THEN exch' = exch /\ Goto(r, "done")
     ELSE exch' = [exch EXCEPT ![r] = @ + 1] /\ Goto(r, "receives")
  /\ UNCHANGED <<sendcnts, sends, recvs>>

Proc(r) == PostReceives(r) \/ PostSends(r) \/ WaitAll(r)

----------------------------------------------------------------------------
\* A send and the receive it matches belong to the same exchange, although a
\* process may be an exchange ahead and all messages have the same tag.
ExchangesApart ==
  \A s, d \in Procs : \A k \in DOMAIN sends[s][d] \cap DOMAIN recvs[d][s] :
    sends[s][d][k] = recvs[d][s][k]

\* Every exchange delivers what its callers send, and every process returns
\* from all of them: process r in exchange e is process <<e, r>> of one exchange
\* in which nobody sends from one exchange to another.
Each == (1..MaxExchanges) \X Procs

Abstract == INSTANCE Alltoallv WITH
  Procs <- Each,
  cnt <- [s \in Each |-> [d \in Each |-> IF s[1] = d[1] THEN sendcnts[s[1]][s[2]][d[2]] ELSE 0]],
  recv <- [d \in Each |-> IF recvbuf[d[2]][d[1]] = NotReturned THEN NotReturned
             ELSE [s \in Each |-> IF s[1] = d[1] THEN recvbuf[d[2]][d[1]][s[2]] ELSE <<>>]]
Delivers == Abstract!Spec
=============================================================================
