---------------------------- MODULE MCRedisLock ----------------------------
(* Model values for RedisLock: three objects, the second with a longer     *)
(* lockTimeout than the others, as startSession and endSession have on the *)
(* same key (5 and 30 minutes).                                            *)
EXTENDS RedisLock

CONSTANTS a, b, c

Timeouts == [p \in Procs |-> IF p = b THEN 3 ELSE 2]
=============================================================================
