----------------------------- MODULE MCTeamPage -----------------------------
(* Constants of TeamPage for TLC: b below a. *)
EXTENDS TeamPage

CONSTANTS a, b, m1

BelowA == [o \in {a, b} |-> IF o = b THEN a ELSE None]
InA == [m \in {m1} |-> a]

\* Organisations are written, or the token page fills inputs: not both, as only
\* the member form has inputs in common with it.
OrgsOrTokens ==
  tokensDrawn => /\ \A o \in AllOrgs : orgs[o].there <=> o \in Orgs
                 /\ \A o \in Orgs : orgs[o].parent = Parent[o]
                 /\ \A c \in net : c.op \notin {"postOrg", "putOrg", "delOrg"}
                 /\ ~orgForm.shown
=============================================================================
