-------------------------- MODULE MCMemcachedLease --------------------------
(* Two threads share a process; a third has one of its own. *)
EXTENDS MemcachedLease

CONSTANTS t1, t2, t3, p1, p2

MCProcessOf == [t \in {t1, t2, t3} |-> IF t = t3 THEN p2 ELSE p1]
=============================================================================
