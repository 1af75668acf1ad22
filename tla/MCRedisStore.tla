---------------------------- MODULE MCRedisStore ----------------------------
(* RedisStore for TLC. *)
EXTENDS RedisStore, MCHistories

=============================================================================
