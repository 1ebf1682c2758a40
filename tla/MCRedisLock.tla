---------------------------- MODULE MCRedisLock ----------------------------
(* Three calls compete for one key, a fourth holds another.                *)
EXTENDS RedisLock

CONSTANTS c1, c2, c3, c4, k1, k2

MCClient == {c1, c2, c3, c4}
MCKey    == {k1, k2}
MCKeyOf  == [c \in MCClient |-> IF c = c4 THEN k2 ELSE k1]
MCFaulty == {c1, c4}
=============================================================================
