---------------------------- MODULE MCNamedLock ----------------------------
(* Three callers of one key and four semaphore identities.                 *)
EXTENDS NamedLock

=============================================================================
