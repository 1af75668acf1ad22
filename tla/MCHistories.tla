---------------------------- MODULE MCHistories ----------------------------
(* Concrete checkpoint contents for TLC: short histories of two messages.  *)
(* A batch appends one, does nothing, or contains a delta that is refused. *)
EXTENDS CheckpointData, Sequences, TLC

CONSTANTS m1, m2

MCContents == UNION {[1..n -> {m1, m2}] : n \in 0..MaxVersion}
MCEmpty == << >>

\* A history longer than the revisions that could have built it does not occur.
MCApply(c, b) ==
    CASE b = "noop" -> c
      [] b = "bad" \/ Len(c) = MaxVersion -> Rejected
      [] b = "append1" -> Append(c, m1)
      [] b = "append2" -> Append(c, m2)

Symmetry == Permutations(Calls)

=============================================================================
