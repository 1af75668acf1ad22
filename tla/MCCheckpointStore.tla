------------------------- MODULE MCCheckpointStore --------------------------
(* CheckpointStore for TLC. *)
EXTENDS CheckpointStore, MCHistories

=============================================================================
