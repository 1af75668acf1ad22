--------------------------- MODULE MCChatTerminal ---------------------------
(* ChatTerminal for TLC. *)
EXTENDS ChatTerminal, TLC

Symmetry == Permutations(Hosts) \cup Permutations(Turns)

=============================================================================
