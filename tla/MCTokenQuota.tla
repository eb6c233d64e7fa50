--------------------------- MODULE MCTokenQuota ---------------------------
(* Instances of TokenQuota for TLC. *)
EXTENDS TokenQuota

CONSTANTS t1, t2, r1, r2

OneToken == {t1}
TwoRequests == {r1, r2}
OneTwo == {1, 2}
Two == {2}
Three == {3}
Unlimited == {0}
===========================================================================
