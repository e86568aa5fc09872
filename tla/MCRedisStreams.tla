--------------------------- MODULE MCRedisStreams ---------------------------
(* TLC instances of RedisStreams: one producer, two consumers of one group. *)
EXTENDS RedisStreamsProperties

CONSTANTS c1, c2, p1
=============================================================================
