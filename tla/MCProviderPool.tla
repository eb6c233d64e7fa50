--------------------------- MODULE MCProviderPool ---------------------------
(* Constants of ProviderPool for TLC. *)
EXTENDS ProviderPool, TLC

CONSTANTS p1, c1

NoParent == [c \in {} |-> c]
ParentOfC1 == [c \in {c1} |-> p1]

\* Requests and reloads are interchangeable (used by the safety run only).
Alike == Permutations(Requests) \cup Permutations(Reloaders)
\* Two requests and their refusals, or two edits and their reloads: not both.
RefusalsOrEdits ==
  \/ edits <= 1
  \/ /\ Cardinality({r \in Requests : req[r].phase # "idle"}) <= 1
     /\ \A e \in Entries : refused[e] <= 1
=============================================================================
