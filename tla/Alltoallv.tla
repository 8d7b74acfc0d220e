------------------------------ MODULE Alltoallv ------------------------------
(***************************************************************************)
(* What an all-to-all exchange promises, however the data travel: every    *)
(* process gets from every other one, and from itself, what that one sends *)
(* it, and every process returns.                                          *)
(***************************************************************************)
EXTENDS Integers

CONSTANT Procs

VARIABLES cnt,      \* cnt[s][d], how many elements s sends to d
          recv      \* recv[d][s], what d got from s; nothing before d returns

\* the k-th element that s sends to d is known by s, d and k
Sent(s, d) == [k \in 1..cnt[s][d] |-> <<s, d, k>>]

NotReturned == <<>>

Init == recv = [d \in Procs |-> NotReturned]

Return(d) ==
  /\ recv[d] = NotReturned
  /\ recv' = [recv EXCEPT ![d] = [s \in Procs |-> Sent(s, d)]]
  /\ UNCHANGED cnt

\* what they return with, if they do
Steps == Init /\ [][\E d \in Procs : Return(d)]_<<cnt, recv>>

Spec == Steps /\ <>(\A d \in Procs : recv[d] # NotReturned)
=============================================================================
