---------------------------- MODULE MCExchanges -----------------------------
(* Counts for Exchanges.                                                   *)
EXTENDS Exchanges

\* nobody sends; one process sends; counts differ in every row and column.
\* Counts decide how long a dense message is, never who talks to whom; in a
\* sparse exchange they decide that too.
Nothing == [s \in Procs |-> [d \in Procs |-> 0]]
OneSends == [s \in Procs |-> [d \in Procs |-> IF s = 1 THEN 2 ELSE 0]]
Uneven == [s \in Procs |-> [d \in Procs |-> (s + d) % 3]]
Ring == [s \in Procs |-> [d \in Procs |-> IF d = (s + 1) % P THEN 1 ELSE 0]]

SomeCounts == {Nothing, OneSends, Uneven}
SomePairs == {<<OneSends, Ring>>}
=============================================================================
