----------------------------- MODULE MCFailover -----------------------------
(* Constants of Failover for TLC. *)
EXTENDS Failover

CONSTANTS p1, p2, p3

\* p1 and p2 may be retried more often than the setting allows, p3 less often.
Retries == [p \in {p1, p2, p3} |-> CASE p = p1 -> 2 [] p = p2 -> 2 [] p = p3 -> 0]
=============================================================================
