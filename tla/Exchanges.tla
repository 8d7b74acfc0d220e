------------------------------ MODULE Exchanges -----------------------------
(***************************************************************************)
(* The two all-to-all exchanges of the in-house code on one communicator:  *)
(* the processes make some sparse exchanges and then a dense one, each as  *)
(* soon as it has returned from the one before.  Sparse messages have tag  *)
(* 1 and dense ones tag 0, so neither is received in place of the other.   *)
(***************************************************************************)
EXTENDS AlltoallvDense

CONSTANTS MaxExchanges,         \* bound: sparse exchanges one after the other
          SparseExchanges       \* what they are

VARIABLES sendcnts, exch, step, sends, recvs, recvbuf

Sparse == INSTANCE AlltoallvSparse WITH Exchanges <- SparseExchanges

ASSUME SparseAssumption == Sparse!ParametersOK

sparseVars == <<sendcnts, exch, step, sends, recvs, recvbuf>>
allVars == <<vars, sparseVars>>

ExchangesInit == Init /\ Sparse!Init

SparseStep(r) == Sparse!Proc(r) /\ UNCHANGED vars
DenseStep(r) == step[r] = "done" /\ Proc(r) /\ UNCHANGED sparseVars

ExchangesNext == (\E r \in Procs : SparseStep(r) \/ DenseStep(r))
                 \/ (Returned /\ UNCHANGED sparseVars)

ExchangesSpec == ExchangesInit /\ [][ExchangesNext]_allVars /\ WF_allVars(ExchangesNext)
----------------------------------------------------------------------------
\* A dense message is what its receiver expects, and a sparse one belongs to
\* the exchange of the receive it matches, although every process runs ahead.
AllMatch == MessagesMatch /\ Sparse!ExchangesApart

\* The sparse exchanges and the dense one deliver what is sent in them, and
\* every process returns from all of them: all implement Alltoallv.
AllDeliver == Delivers /\ Sparse!Delivers
=============================================================================
