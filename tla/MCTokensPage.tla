---------------------------- MODULE MCTokensPage ----------------------------
(* Constants of TokensPage for TLC. *)
EXTENDS TokensPage

CONSTANTS t1, t2, n1, m1, m2

AllOrOne == [i \in {t1, t2} |-> IF i = t1 THEN {m1} ELSE {}]
=============================================================================
