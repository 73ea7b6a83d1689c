---------------------------- MODULE MCRedisLock ----------------------------
(* Four callers that contend for the key.                                  *)
EXTENDS RedisLock
=============================================================================
