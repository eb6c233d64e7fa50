---------------------------- MODULE QuotaAccount ----------------------------
(***************************************************************************)
(* What the in-memory quota account of wr-proxy promises to the requests   *)
(* that are charged to it: a charge is one indivisible step, it adds       *)
(* exactly its cost, and an account that has a limit refuses a charge that *)
(* would pass the limit.  TokenQuota shows that the load / compare-and-swap*)
(* loop of db.go keeps this promise.                                       *)
(***************************************************************************)
EXTENDS Integers

CONSTANTS
  Tokens,   \* API tokens
  Costs     \* what one request can cost, in cents

VARIABLES
  cached,   \* the tokens that have an account
  limit,    \* limit[t]: the quota of t, 0 when t may spend without limit
  opening,  \* opening[t]: what t had used when the process started
  used      \* used[t]: what t has used

vars == <<cached, limit, opening, used>>

\* A process that starts reads every account from the database.
Opened ==
  /\ cached \in SUBSET Tokens
  /\ limit \in [Tokens -> Nat]
  /\ used \in [Tokens -> Nat]
  /\ opening = used

Covers(t, c) == limit[t] = 0 \/ used[t] + c <= limit[t]

Charge(t, c) ==
  /\ t \in cached
  /\ Covers(t, c)
  /\ used' = [used EXCEPT ![t] = @ + c]
  /\ UNCHANGED <<cached, limit, opening>>

\* A new process forgets the accounts of the old one.
Restart == Opened'

Next == (\E t \in Tokens, c \in Costs : Charge(t, c)) \/ Restart

Spec == Opened /\ [][Next]_vars

=============================================================================
