------------------------------ MODULE MCMemMgr ------------------------------
(* Two threads on a buffer in which three blocks can lie side by side.     *)
EXTENDS MemMgr
=============================================================================
