----------------------------- MODULE TokenQuota -----------------------------
(***************************************************************************)
(* The spending quota of API tokens: the in-memory account that requests   *)
(* are charged to, the two writers that carry it to the database (one row  *)
(* update per charge through a bounded channel, and a periodic flush of    *)
(* absolute values), the admission check that reads the database, the      *)
(* admin backend that edits the same rows, and the loss of everything in   *)
(* memory at a restart.                                                    *)
(*                                                                         *)
(* The order of the messages in the channel is abstracted: each adds its   *)
(* cost to a row, and the additions commute.                               *)
(***************************************************************************)
EXTENDS Integers, FiniteSets

CONSTANTS
  Tokens,      \* rows of wr_tokens
  Requests,    \* requests that can be in progress at once
  Costs,       \* what a request can cost, in cents
  ChanCap,     \* capacity of tokenQuotaChan
  Totals,      \* quotas a row can have when the process starts
  AdminTotals, \* quotas the admin can set
  LoadMayFail, \* whether the load of the cache at start can fail
  MaxUsed,     \* bound: no account grows past this
  MaxRestarts, \* bound: restarts of the process
  MaxEdits     \* bound: edits of the admin

ASSUME TokenQuotaAssumption ==
  /\ Tokens # {} /\ IsFiniteSet(Tokens)
  /\ Costs \subseteq Nat \ {0}
  /\ Totals \subseteq Nat /\ AdminTotals \subseteq Nat
  /\ ChanCap \in Nat /\ MaxUsed \in Nat
  /\ MaxRestarts \in Nat /\ MaxEdits \in Nat
  /\ LoadMayFail \in BOOLEAN

VARIABLES
  row,       \* row[t]: the row of t in wr_tokens
  cached,    \* the keys of tokenQuotaCache
  limit,     \* limit[t]: QuotaTotal of the cached state
  used,      \* used[t]: QuotaUsed of the cached state
  call,      \* call[r]: where request r stands
  chan,      \* tokenQuotaChan
  held,      \* the message the sync goroutine has taken and not yet written
  snapped,   \* tokens the running flush has read
  snap,      \* snap[t]: the value the flush read
  restarts,  \* how often the process was restarted
  edits      \* how many edits the admin made

\* History variables: nothing in the code depends on them.
VARIABLES
  opening,   \* opening[t]: used[t] when the process started
  base,      \* base[t]: the last absolute value written to row[t].used
  counted,   \* counted[t]: the cents the sync goroutine added to it since
  fresh      \* fresh[t]: nothing was charged to t since the admin reset it

history == <<opening, base, counted, fresh>>
account == <<cached, limit, used>>
pipeline == <<chan, held>>
flush == <<snapped, snap>>
vars == <<row, account, call, pipeline, flush, restarts, edits, history>>

Status == {"unborn", "enabled", "disabled", "deleted"}
Row == [status : Status, total : Nat, used : Nat]
Phase == {"idle", "serving", "deducting", "charged"}
Call == [phase : Phase, token : Tokens, cost : Nat, seen : Nat]
\* A deduction on its way to the database.  upto is history: the account's
\* value right after the charge, which tells the charges of a token apart.
Message == [token : Tokens, cost : Nat, upto : Nat]

Idle == [phase |-> "idle", token |-> CHOOSE t \in Tokens : TRUE,
         cost |-> 0, seen |-> 0]

Exists(t) == row[t].status \in {"enabled", "disabled"}

\* The cents a message stands for, as positions on its account.
Cents(m) == (m.upto - m.cost + 1)..m.upto
Deduction(r) == [token |-> call[r].token, cost |-> call[r].cost,
                 upto |-> call[r].seen + call[r].cost]

-----------------------------------------------------------------------------
(***************************************************************************)
(* Start and restart.  LoadTokenQuotaCache reads the enabled rows.         *)
(***************************************************************************)

\* The tokens that get an account: none when the query fails (only logged).
Loadable(rw) ==
  {{t \in Tokens : rw[t].status = "enabled"}} \cup IF LoadMayFail THEN {{}} ELSE {}

\* What a starting process finds in rows rw.
Loaded(rw) ==
  /\ cached' \in Loadable(rw)
  /\ limit' = [t \in Tokens |-> rw[t].total]
  /\ used' = [t \in Tokens |-> rw[t].used]

Init ==
  /\ row \in [Tokens -> [status : {"unborn", "enabled", "disabled"},
                         total : Totals, used : {0}]]
  /\ cached \in Loadable(row)
  /\ limit = [t \in Tokens |-> row[t].total]
  /\ used = [t \in Tokens |-> row[t].used]
  /\ call = [r \in Requests |-> Idle]
  /\ chan = {} /\ held = {}
  /\ snapped = {} /\ snap = [t \in Tokens |-> 0]
  /\ restarts = 0 /\ edits = 0
  /\ opening = used /\ base = used
  /\ counted = [t \in Tokens |-> {}]
  /\ fresh = [t \in Tokens |-> FALSE]

\* The process ends (a crash, or a signal: main returns without draining the
\* channel or flushing) and starts again from the database.
Restart ==
  /\ restarts < MaxRestarts
  /\ restarts' = restarts + 1
  /\ Loaded(row)
  /\ call' = [r \in Requests |-> Idle]
  /\ chan' = {} /\ held' = {}
  /\ snapped' = {} /\ snap' = [t \in Tokens |-> 0]
  /\ opening' = [t \in Tokens |-> row[t].used]
  /\ base' = [t \in Tokens |-> row[t].used]
  /\ counted' = [t \in Tokens |-> {}]
  /\ UNCHANGED <<row, edits, fresh>>

-----------------------------------------------------------------------------
(***************************************************************************)
(* Requests                                                                *)
(***************************************************************************)

\* Authenticate: the row is read from the database; a token whose row says
\* its quota is used up is answered 429.
Admit(r, t) ==
  /\ call[r].phase = "idle"
  /\ row[t].status = "enabled"
  /\ row[t].total = 0 \/ row[t].used < row[t].total
  /\ call' = [call EXCEPT ![r] = [phase |-> "serving", token |-> t, cost |-> 0, seen |-> 0]]
  /\ UNCHANGED <<row, account, pipeline, flush, restarts, edits, history>>

\* RecordRequest deducts nothing: the upstream failed or no cost is known.
FinishUncharged(r) ==
  /\ call[r].phase = "serving"
  /\ call' = [call EXCEPT ![r] = Idle]
  /\ UNCHANGED <<row, account, pipeline, flush, restarts, edits, history>>

\* DeductTokenQuotaAsync, its Load.  A token that is not cached is skipped.
DeductLoad(r, c) ==
  /\ call[r].phase = "serving"
  /\ LET t == call[r].token IN
     /\ used[t] + c <= MaxUsed
     /\ call' = [call EXCEPT ![r] =
          IF t \in cached
          THEN [phase |-> "deducting", token |-> t, cost |-> c, seen |-> used[t]]
          ELSE Idle]
  /\ UNCHANGED <<row, account, pipeline, flush, restarts, edits, history>>

OverLimit(r) == LET k == call[r] IN limit[k.token] > 0 /\ k.seen + k.cost > limit[k.token]

\* The account cannot pay: the deduction is dropped, the answer was served.
DeductRefuse(r) ==
  /\ call[r].phase = "deducting"
  /\ OverLimit(r)
  /\ call' = [call EXCEPT ![r] = Idle]
  /\ UNCHANGED <<row, account, pipeline, flush, restarts, edits, history>>

\* The CompareAndSwap stores a new state.  It compares pointers; every swap
\* stores a new, larger value, so equal values are the same pointer.
Swap(r) ==
  /\ used' = [used EXCEPT ![call[r].token] = call[r].seen + call[r].cost]
  /\ call' = [call EXCEPT ![r].phase = "charged"]
  /\ fresh' = [fresh EXCEPT ![call[r].token] = FALSE]
  /\ UNCHANGED <<row, cached, limit, pipeline, flush, restarts, edits, opening, base, counted>>

\* Mutants: a Store in place of the CompareAndSwap; no check of the limit.
DeductStore(r) == call[r].phase = "deducting" /\ ~OverLimit(r) /\ Swap(r)
DeductUnlimited(r) ==
  call[r].phase = "deducting" /\ used[call[r].token] = call[r].seen /\ Swap(r)

DeductCas(r) ==
  /\ call[r].phase = "deducting"
  /\ ~OverLimit(r)
  /\ used[call[r].token] = call[r].seen
  /\ Swap(r)

\* The swap fails: another request charged the token first.  Load again.
DeductRetry(r) ==
  /\ call[r].phase = "deducting"
  /\ ~OverLimit(r)
  /\ used[call[r].token] # call[r].seen
  /\ call' = [call EXCEPT ![r].seen = used[call[r].token]]
  /\ UNCHANGED <<row, account, pipeline, flush, restarts, edits, history>>

\* The select with a default: a full channel loses the message.
Notify(r) ==
  /\ call[r].phase = "charged"
  /\ chan' = IF Cardinality(chan) < ChanCap THEN chan \cup {Deduction(r)} ELSE chan
  /\ call' = [call EXCEPT ![r] = Idle]
  /\ UNCHANGED <<row, account, held, flush, restarts, edits, history>>

-----------------------------------------------------------------------------
(***************************************************************************)
(* tokenQuotaSync: the goroutine that drains the channel, and the flush    *)
(***************************************************************************)

Take(m) ==
  /\ held = {} /\ m \in chan
  /\ held' = {m} /\ chan' = chan \ {m}
  /\ UNCHANGED <<row, account, call, flush, restarts, edits, history>>

\* quota_used = quota_used + cost.  A row that is gone is not touched.
AddToRow(m) ==
  /\ row' = [row EXCEPT ![m.token].used = IF Exists(m.token) THEN @ + m.cost ELSE @]
  /\ counted' = [counted EXCEPT ![m.token] = IF Exists(m.token) THEN @ \cup Cents(m) ELSE @]

\* Mutants: the message stays queued; the statement subtracts; the statement
\* writes the account's value after the charge in place of adding the cost.
SyncKeepsMessage(m) ==
  /\ m \in held
  /\ held' = {} /\ chan' = chan \cup {m}
  /\ AddToRow(m)
  /\ UNCHANGED <<account, call, flush, restarts, edits, opening, base, fresh>>
SyncSubtracts(m) ==
  /\ m \in held
  /\ held' = {}
  /\ row' = [row EXCEPT ![m.token].used = @ - m.cost]
  /\ UNCHANGED <<account, call, chan, flush, restarts, edits, history>>
SyncWritesAbsolute(m) ==
  /\ m \in held
  /\ held' = {}
  /\ row' = [row EXCEPT ![m.token].used = m.upto]
  /\ UNCHANGED <<account, call, chan, flush, restarts, edits, history>>

\* syncTokenQuotaToDB.
SyncToDB(m) ==
  /\ m \in held
  /\ held' = {}
  /\ AddToRow(m)
  /\ UNCHANGED <<account, call, chan, flush, restarts, edits, opening, base, fresh>>

\* The statement fails (the admin process holds the database lock): logged.
SyncFails(m) ==
  /\ m \in held
  /\ held' = {}
  /\ UNCHANGED <<row, account, call, chan, flush, restarts, edits, history>>

\* flushTokenQuotas, one step of its Range over the cache.
FlushRead(t) ==
  /\ t \in cached \ snapped
  /\ snapped' = snapped \cup {t}
  /\ snap' = [snap EXCEPT ![t] = used[t]]
  /\ UNCHANGED <<row, account, call, pipeline, restarts, edits, history>>

\* Mutant: a flush that only raises rows.
FlushRaises(done) ==
  /\ snapped # {} /\ snapped = cached
  /\ snapped' = {}
  /\ snap' = [t \in Tokens |-> 0]
  /\ row' = [t \in Tokens |-> IF t \in done /\ Exists(t) /\ snap[t] > row[t].used
                              THEN [row[t] EXCEPT !.used = snap[t]] ELSE row[t]]
  /\ UNCHANGED <<account, call, pipeline, restarts, edits, history>>

\* The transaction.  done: the rows it changed; not all when a statement, or
\* none when Begin, Prepare or Commit fails.
FlushWrite(done) ==
  LET hit == {t \in done : Exists(t)} IN
  /\ snapped # {} /\ snapped = cached
  /\ snapped' = {}
  /\ snap' = [t \in Tokens |-> 0]
  /\ row' = [t \in Tokens |->
                IF t \in hit THEN [row[t] EXCEPT !.used = snap[t]] ELSE row[t]]
  /\ base' = [t \in Tokens |-> IF t \in hit THEN snap[t] ELSE base[t]]
  /\ counted' = [t \in Tokens |-> IF t \in hit THEN {} ELSE counted[t]]
  /\ UNCHANGED <<account, call, pipeline, restarts, edits, opening, fresh>>

FlushAll == FlushWrite(snapped)
FlushPartly == \E done \in SUBSET snapped : done # snapped /\ FlushWrite(done)

-----------------------------------------------------------------------------
(***************************************************************************)
(* The admin backend (another process, same database)                      *)
(***************************************************************************)

Edit == edits < MaxEdits /\ edits' = edits + 1

CreateToken(t, q, s) ==
  /\ Edit
  /\ row[t].status = "unborn"
  /\ row' = [row EXCEPT ![t] = [status |-> s, total |-> q, used |-> 0]]
  /\ UNCHANGED <<account, call, pipeline, flush, restarts, history>>

UpdateToken(t, q, s) ==
  /\ Edit
  /\ Exists(t)
  /\ row' = [row EXCEPT ![t] = [@ EXCEPT !.total = q, !.status = s]]
  /\ UNCHANGED <<account, call, pipeline, flush, restarts, history>>

ResetQuota(t, q) ==
  /\ Edit
  /\ Exists(t)
  /\ row' = [row EXCEPT ![t] = [@ EXCEPT !.total = q, !.used = 0]]
  /\ base' = [base EXCEPT ![t] = 0]
  /\ counted' = [counted EXCEPT ![t] = {}]
  /\ fresh' = [fresh EXCEPT ![t] = TRUE]
  /\ UNCHANGED <<account, call, pipeline, flush, restarts, opening>>

DeleteToken(t) ==
  /\ Edit
  /\ Exists(t)
  /\ row' = [row EXCEPT ![t].status = "deleted"]
  /\ UNCHANGED <<account, call, pipeline, flush, restarts, history>>

\* A field the request leaves out keeps its value.
Admin ==
  \E t \in Tokens :
    \/ \E s \in {"enabled", "disabled"} :
         \/ \E q \in AdminTotals : CreateToken(t, q, s)
         \/ \E q \in AdminTotals \cup {row[t].total} : UpdateToken(t, q, s)
    \/ \E q \in AdminTotals \cup {row[t].total} : ResetQuota(t, q)
    \/ DeleteToken(t)

-----------------------------------------------------------------------------

RequestStep(r) ==
  \/ \E t \in Tokens : Admit(r, t)
  \/ FinishUncharged(r)
  \/ \E c \in Costs : DeductLoad(r, c)
  \/ DeductRefuse(r)
  \/ DeductCas(r)
  \/ DeductRetry(r)
  \/ Notify(r)

SyncStep ==
  \/ \E m \in chan : Take(m)
  \/ \E m \in held : SyncToDB(m) \/ SyncFails(m)

FlushStep == (\E t \in Tokens : FlushRead(t)) \/ FlushAll \/ FlushPartly

Next == (\E r \in Requests : RequestStep(r)) \/ SyncStep \/ FlushStep \/ Admin \/ Restart

Spec == Init /\ [][Next]_vars

\* The goroutines keep running; a database that is locked now and then is not
\* locked at every flush.
Fairness ==
  /\ WF_vars(SyncStep)
  /\ \A t \in Tokens : WF_vars(FlushRead(t))
  /\ SF_vars(FlushAll)
  /\ \A r \in Requests : WF_vars(Notify(r))

FairSpec == Spec /\ Fairness

-----------------------------------------------------------------------------
(***************************************************************************)
(* Properties                                                              *)
(***************************************************************************)

\* Types of the state of the accounts, the two writers and the rows.
TypeOK ==
  /\ row \in [Tokens -> Row]
  /\ cached \subseteq Tokens
  /\ limit \in [Tokens -> Nat] /\ used \in [Tokens -> Nat]
  /\ call \in [Requests -> Call]
  /\ chan \subseteq Message /\ held \subseteq Message
  /\ snapped \subseteq Tokens /\ snap \in [Tokens -> Nat]
  /\ restarts \in Nat /\ edits \in Nat
  /\ opening \in [Tokens -> Nat] /\ base \in [Tokens -> Nat]
  /\ counted \in [Tokens -> SUBSET Int]
  /\ fresh \in [Tokens -> BOOLEAN]

\* However the loads and swaps of concurrent requests interleave, a limited
\* account passes its limit only if it had already passed it at the start.
NoOverdraft ==
  \A t \in cached :
    limit[t] > 0 => used[t] <= limit[t] \/ used[t] = opening[t]

\* The load / compare-and-swap loop is an indivisible, limited addition.
Account == INSTANCE QuotaAccount WITH
  Tokens <- Tokens, Costs <- Costs,
  cached <- cached, limit <- limit, opening <- opening, used <- used
AccountSpec == Account!Spec

\* The two writers can both count a charge (a flush between the swap and the
\* row update), so the row can run ahead of the account; but no charge of this
\* process is ever in the row more than twice.
CountedAtMostTwice ==
  \A t \in cached :
    Exists(t) => row[t].used <= used[t] + (used[t] - opening[t])

\* The row never falls below the last absolute value written to it, so a
\* restart loses only charges made after that flush read the account.
FlushedIsDurable == \A t \in Tokens : Exists(t) => row[t].used >= base[t]

\* When requests stop, the row settles on what the account says: lost
\* messages and double counts are all repaired by a later flush.
Quiet == \A r \in Requests : call[r].phase \in {"idle", "serving"}
Settled == \A t \in cached : Exists(t) => row[t].used = used[t]
RowsSettle == <>[]Quiet => <>[]Settled

\* tokens.py: a reset clears what was used.  While nobody is charged after it
\* and no charge made before it is under way, the row goes on saying 0.
UnderWay(t) ==
  \/ \E m \in chan \cup held : m.token = t
  \/ \E r \in Requests : call[r].phase = "charged" /\ call[r].token = t
ResetSticks ==
  [][\A t \in Tokens :
       fresh[t] /\ row[t].used = 0 /\ ~UnderWay(t) => row'[t].used = 0]_vars

\* db.go says of a token that is not in the cache that its quota is probably
\* not enabled: a request served on a token that has one is metered.
ServedIsMetered ==
  \A r \in Requests :
    call[r].phase = "serving" /\ row[call[r].token].total > 0
      => call[r].token \in cached

=============================================================================
