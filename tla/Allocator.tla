------------------------------ MODULE Allocator ------------------------------
(***************************************************************************)
(* What pvfmm's memory manager promises to its callers: the blocks of the  *)
(* buffer that they hold at the same time do not overlap, whoever asked    *)
(* for them and whoever gives them back.                                   *)
(***************************************************************************)
EXTENDS Integers

CONSTANT N          \* cells of the buffer

VARIABLE held       \* the blocks [base, size] that callers hold

Cells(b) == b.base .. b.base + b.size - 1
Blocks == {b \in [base : 0..N-1, size : 1..N] : b.base + b.size <= N}

Init == held = {}

Give(b) ==
  /\ \A h \in held : Cells(h) \cap Cells(b) = {}
  /\ held' = held \cup {b}

TakeBack(b) == held' = held \ {b}

Next == (\E b \in Blocks : Give(b)) \/ (\E b \in held : TakeBack(b))

Spec == Init /\ [][Next]_held
=============================================================================
