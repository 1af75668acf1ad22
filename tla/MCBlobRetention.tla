-------------------------- MODULE MCBlobRetention --------------------------
(* Instances of BlobRetention for TLC. *)
EXTENDS BlobRetention, TLC

\* Goroutines, references, checkpoints and sources are interchangeable.
Symmetry == Permutations(Procs) \cup Permutations(ClaimRefs)
            \cup Permutations(Checkpoints) \cup Permutations(Sources)

=============================================================================
