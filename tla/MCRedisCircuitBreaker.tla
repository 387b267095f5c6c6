------------------------ MODULE MCRedisCircuitBreaker ------------------------
(* An instance of RedisCircuitBreaker for TLC. *)
EXTENDS RedisCircuitBreaker
CONSTANTS c1, c2, c3
=============================================================================
