--------------------------- MODULE MCMemoryStore ----------------------------
(* MemoryStore for TLC. *)
EXTENDS MemoryStore, MCHistories

=============================================================================
