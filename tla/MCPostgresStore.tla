-------------------------- MODULE MCPostgresStore --------------------------
(* PostgresStore for TLC. *)
EXTENDS PostgresStore, MCHistories

=============================================================================
