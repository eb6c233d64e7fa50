------------------------------ MODULE Metering ------------------------------
(***************************************************************************)
(* What becomes of a request once it has been answered: the RequestLog the *)
(* handler builds, RecordRequest, which queues it for the log writer and   *)
(* its cost for the writer of the provider quotas and counts it in the     *)
(* current minute, and the two writers, which batch what they receive into *)
(* transactions that may fail.  The log is queued as a pointer: when a     *)
(* stream ends, the handler changes the same object and records it again.  *)
(*                                                                         *)
(* The deduction from the token's account is in TokenQuota.  The order of  *)
(* the entries in a channel or a batch is abstracted.                      *)
(***************************************************************************)
EXTENDS Integers, FiniteSets

CONSTANTS
  Requests,       \* requests; each is made once
  Providers,      \* rows of wr_provider_quota
  Costs,          \* what a request with known usage can cost, in cents
  LogCap,         \* capacity of logChan
  LogBatch,       \* batchSize of logBatchWriter
  ChargeCap,      \* capacity of providerQuotaChan
  ChargeBatch,    \* batchSize of providerQuotaBatchWriter
  MaxRestarts     \* bound: restarts of the process

ASSUME MeteringAssumption ==
  /\ IsFiniteSet(Requests)
  /\ IsFiniteSet(Providers) /\ Providers # {}
  /\ Costs \subseteq Nat \ {0}
  /\ LogCap \in Nat /\ LogBatch \in Nat \ {0}
  /\ ChargeCap \in Nat /\ ChargeBatch \in Nat \ {0}
  /\ MaxRestarts \in Nat

VARIABLES
  call,      \* call[r]: where the handler of r stands
  entry,     \* entry[r]: the RequestLog of r
  logChan,   \* logChan
  buffer,    \* the batch of the log writer
  tried,     \* entries of the batch the running transaction has dealt with
  tx,        \* the rows it has inserted so far
  rows,      \* rows[m]: what wr_request_logs has of m
  charges,   \* providerQuotaChan
  pending,   \* pending[p]: cents the quota writer has gathered for p
  quota,     \* quota[p]: quota_used of p in wr_provider_quota
  minute,    \* minute[p]: validCount of the current minute of p
  restarts   \* how often the process was restarted

\* History variable: nothing in the code depends on it.
VARIABLE
  spent      \* spent[p]: cents of the requests to p that were recorded

writer == <<buffer, tried, tx>>
vars == <<call, entry, logChan, writer, rows, charges, pending, quota, minute, restarts, spent>>

\* The n-th time the log of r is recorded.
Record == Requests \X {1, 2}

\* good: StatusCode < 400 and not IsRetry.  stream: the answer is streamed and
\* its end looked at (not so for a retry).  usage: some tokens were counted.
Entry == [provider : Providers, good : BOOLEAN, stream : BOOLEAN,
          usage : BOOLEAN, cost : Nat, error : BOOLEAN]
Phase == {"idle", "logging", "charging", "counting", "streaming", "breaking", "done", "gone"}

\* What a row says is irrelevant until there is one.
Blank == [provider |-> CHOOSE p \in Providers : TRUE, good |-> FALSE, stream |-> FALSE,
          usage |-> FALSE, cost |-> 0, error |-> FALSE]

Init ==
  /\ call = [r \in Requests |-> [phase |-> "idle", n |-> 0]]
  /\ entry = [r \in Requests |-> Blank]
  /\ logChan = {} /\ buffer = {} /\ tried = {} /\ tx = {}
  /\ rows = [m \in Record |-> [count |-> 0, entry |-> Blank]]
  /\ charges = {}
  /\ pending = [p \in Providers |-> 0]
  /\ quota = [p \in Providers |-> 0]
  /\ minute = [p \in Providers |-> 0]
  /\ restarts = 0
  /\ spent = [p \in Providers |-> 0]

-----------------------------------------------------------------------------
(***************************************************************************)
(* The handler: BuildRequestLog and RecordRequest                          *)
(***************************************************************************)

\* BuildRequestLog prices the usage the result of the call has; only answers
\* translated from the Anthropic protocol come with their usage.
Built ==
  [provider : Providers, good : {FALSE}, stream : {FALSE},
   usage : {FALSE}, cost : {0}, error : BOOLEAN]
    \cup [provider : Providers, good : {TRUE}, stream : BOOLEAN,
          usage : {FALSE}, cost : {0}, error : {FALSE}]
    \cup [provider : Providers, good : BOOLEAN, stream : {FALSE},
          usage : {TRUE}, cost : Costs, error : {FALSE}]

Finish(r) ==
  /\ call[r].phase = "idle"
  /\ \E e \in Built : entry' = [entry EXCEPT ![r] = e]
  /\ call' = [call EXCEPT ![r] = [phase |-> "logging", n |-> 1]]
  /\ UNCHANGED <<logChan, writer, rows, charges, pending, quota, minute, restarts, spent>>

\* InsertRequestLogAsync: a full channel loses the entry.
InsertRequestLogAsync(r) ==
  /\ call[r].phase = "logging"
  /\ logChan' = IF Cardinality(logChan) < LogCap THEN logChan \cup {<<r, call[r].n>>} ELSE logChan
  /\ call' = [call EXCEPT ![r].phase = "charging"]
  /\ UNCHANGED <<entry, writer, rows, charges, pending, quota, minute, restarts, spent>>

\* UpdateProviderQuotaAsync: a full channel loses the charge.
UpdateProviderQuotaAsync(r) ==
  LET e == entry[r] IN
  /\ call[r].phase = "charging"
  /\ charges' = IF e.cost > 0 /\ Cardinality(charges) < ChargeCap
                  THEN charges \cup {[record |-> <<r, call[r].n>>, provider |-> e.provider,
                                      cents |-> e.cost]}
                  ELSE charges
  /\ spent' = [spent EXCEPT ![e.provider] = @ + e.cost]
  /\ call' = [call EXCEPT ![r].phase = "counting"]
  /\ UNCHANGED <<entry, logChan, writer, rows, pending, quota, minute, restarts>>

\* The handler returns, or it goes on to stream the answer.
AfterRecord(r) == IF entry[r].stream /\ call[r].n = 1 THEN "streaming" ELSE "done"

\* The minute of the provider; a new one when the last one has passed.
CountWith(r, isValid, fresh) ==
  LET p == entry[r].provider IN
  /\ call[r].phase = "counting"
  /\ minute' = [minute EXCEPT ![p] = (IF fresh THEN 0 ELSE @) + (IF isValid THEN 1 ELSE 0)]
  /\ call' = [call EXCEPT ![r].phase = AfterRecord(r)]
  /\ UNCHANGED <<entry, logChan, writer, rows, charges, pending, quota, restarts, spent>>

\* A count that takes a stream that broke off for a valid request.
CountMinuteBlind(r, fresh) == CountWith(r, entry[r].good, fresh)

CountMinute(r, fresh) == CountWith(r, entry[r].good /\ ~entry[r].error, fresh)

-----------------------------------------------------------------------------
(***************************************************************************)
(* The end of a stream                                                     *)
(***************************************************************************)

\* No usage was seen: nothing to add.
StreamEnds(r) ==
  /\ call[r].phase = "streaming"
  /\ call' = [call EXCEPT ![r].phase = "done"]
  /\ UNCHANGED <<entry, logChan, writer, rows, charges, pending, quota, minute, restarts, spent>>

\* The usage is stored in the log, which is then recorded again.
StreamReportsUsage(r) ==
  /\ call[r].phase = "streaming"
  /\ entry' = [entry EXCEPT ![r].usage = TRUE]
  /\ call' = [call EXCEPT ![r] = [phase |-> "logging", n |-> 2]]
  /\ UNCHANGED <<logChan, writer, rows, charges, pending, quota, minute, restarts, spent>>

\* The stream breaks off: its usage is stored, then the error.
StreamAborts(r) ==
  /\ call[r].phase = "streaming"
  /\ \E u \in BOOLEAN : entry' = [entry EXCEPT ![r].usage = u]
  /\ call' = [call EXCEPT ![r].phase = "breaking"]
  /\ UNCHANGED <<logChan, writer, rows, charges, pending, quota, minute, restarts, spent>>

StoreError(r) ==
  /\ call[r].phase = "breaking"
  /\ entry' = [entry EXCEPT ![r].error = TRUE]
  /\ call' = [call EXCEPT ![r] = [phase |-> "logging", n |-> 2]]
  /\ UNCHANGED <<logChan, writer, rows, charges, pending, quota, minute, restarts, spent>>

Handle(r) ==
  \/ InsertRequestLogAsync(r)
  \/ UpdateProviderQuotaAsync(r)
  \/ \E fresh \in BOOLEAN : CountMinute(r, fresh)
  \/ StreamEnds(r)
  \/ StreamReportsUsage(r)
  \/ StreamAborts(r)
  \/ StoreError(r)

-----------------------------------------------------------------------------
(***************************************************************************)
(* logBatchWriter.  The ticker can fire as soon as there is an entry, and  *)
(* a full batch is written before another entry is taken.                  *)
(***************************************************************************)

Collect(m) ==
  /\ m \in logChan
  /\ tried = {} /\ Cardinality(buffer) < LogBatch
  /\ logChan' = logChan \ {m}
  /\ buffer' = buffer \cup {m}
  /\ UNCHANGED <<call, entry, tried, tx, rows, charges, pending, quota, minute, restarts, spent>>

\* A writer without a ticker.
FlushDueWhenFull == Cardinality(buffer) = LogBatch

FlushDue == buffer # {}

\* A statement that leaves out the error.
InsertWithoutError(m) ==
  /\ FlushDue /\ m \in buffer \ tried
  /\ tried' = tried \cup {m}
  /\ tx' = tx \cup {[record |-> m, entry |-> [entry[m[1]] EXCEPT !.error = FALSE]]}
  /\ UNCHANGED <<call, entry, logChan, buffer, rows, charges, pending, quota, minute, restarts, spent>>

\* The transaction reads the entry through the pointer, at this moment.
Insert(m) ==
  /\ FlushDue /\ m \in buffer \ tried
  /\ tried' = tried \cup {m}
  /\ tx' = tx \cup {[record |-> m, entry |-> entry[m[1]]]}
  /\ UNCHANGED <<call, entry, logChan, buffer, rows, charges, pending, quota, minute, restarts, spent>>

\* The statement fails for one entry, which is lost; the others go on.
InsertFails(m) ==
  /\ FlushDue /\ m \in buffer \ tried
  /\ tried' = tried \cup {m}
  /\ UNCHANGED <<call, entry, logChan, buffer, tx, rows, charges, pending, quota, minute, restarts, spent>>

Committed ==
  [m \in Record |->
     IF \E x \in tx : x.record = m
       THEN [count |-> rows[m].count + 1, entry |-> (CHOOSE x \in tx : x.record = m).entry]
       ELSE rows[m]]

\* A writer that does not empty its batch.
CommitKeepsBatch ==
  /\ FlushDue /\ tried = buffer
  /\ rows' = Committed
  /\ tried' = {} /\ tx' = {}
  /\ UNCHANGED <<call, entry, logChan, buffer, charges, pending, quota, minute, restarts, spent>>

Commit ==
  /\ FlushDue /\ tried = buffer
  /\ rows' = Committed
  /\ buffer' = {} /\ tried' = {} /\ tx' = {}
  /\ UNCHANGED <<call, entry, logChan, charges, pending, quota, minute, restarts, spent>>

\* A failed flush that leaves half a transaction behind.
FlushFailsHalfway ==
  /\ FlushDue /\ tried \in {{}, buffer}
  /\ buffer' = {}
  /\ UNCHANGED <<call, entry, logChan, tried, tx, rows, charges, pending, quota, minute, restarts, spent>>

\* Begin, Prepare or Commit fails: the batch is lost.
FlushFails ==
  /\ FlushDue /\ tried \in {{}, buffer}
  /\ buffer' = {} /\ tried' = {} /\ tx' = {}
  /\ UNCHANGED <<call, entry, logChan, rows, charges, pending, quota, minute, restarts, spent>>

LogWriterStep ==
  \/ \E m \in logChan : Collect(m)
  \/ \E m \in buffer : Insert(m) \/ InsertFails(m)
  \/ Commit
  \/ FlushFails

-----------------------------------------------------------------------------
(***************************************************************************)
(* providerQuotaBatchWriter                                                *)
(***************************************************************************)

Gathered == {p \in Providers : pending[p] > 0}

Gather(c) ==
  /\ c \in charges
  /\ Cardinality(Gathered) < ChargeBatch
  /\ charges' = charges \ {c}
  /\ pending' = [pending EXCEPT ![c.provider] = @ + c.cents]
  /\ UNCHANGED <<call, entry, logChan, writer, rows, quota, minute, restarts, spent>>

\* A writer that goes on gathering in the same buckets.
FlushQuotasKeeps(done) ==
  /\ Gathered # {}
  /\ quota' = [p \in Providers |-> quota[p] + IF p \in done THEN pending[p] ELSE 0]
  /\ UNCHANGED <<call, entry, logChan, writer, rows, charges, pending, minute, restarts, spent>>

\* done: the rows the transaction changed.  A statement can fail, or the whole
\* transaction; the buckets are dropped all the same.
FlushQuotas(done) ==
  /\ Gathered # {}
  /\ quota' = [p \in Providers |-> quota[p] + IF p \in done THEN pending[p] ELSE 0]
  /\ pending' = [p \in Providers |-> 0]
  /\ UNCHANGED <<call, entry, logChan, writer, rows, charges, minute, restarts, spent>>

QuotaWriterStep ==
  \/ \E c \in charges : Gather(c)
  \/ \E done \in SUBSET Gathered : FlushQuotas(done)

-----------------------------------------------------------------------------

\* The process ends and starts again: what is in memory is lost.
Restart ==
  /\ restarts < MaxRestarts
  /\ restarts' = restarts + 1
  /\ call' = [r \in Requests |->
                IF call[r].phase \in {"idle", "done"} THEN call[r] ELSE [call[r] EXCEPT !.phase = "gone"]]
  /\ logChan' = {} /\ buffer' = {} /\ tried' = {} /\ tx' = {}
  /\ charges' = {}
  /\ pending' = [p \in Providers |-> 0]
  /\ minute' = [p \in Providers |-> 0]
  /\ UNCHANGED <<entry, rows, quota, spent>>

Next ==
  \/ \E r \in Requests : Finish(r) \/ Handle(r)
  \/ LogWriterStep
  \/ QuotaWriterStep
  \/ Restart

Spec == Init /\ [][Next]_vars

\* The two writers are goroutines with a ticker.
FairSpec == Spec /\ WF_vars(LogWriterStep) /\ WF_vars(QuotaWriterStep)

-----------------------------------------------------------------------------
(***************************************************************************)
(* Properties                                                              *)
(***************************************************************************)

Charge == [record : Record, provider : Providers, cents : Nat]

\* Types of the state of the handlers, the meter and the writers.
TypeOK ==
  /\ call \in [Requests -> [phase : Phase, n : 0..2]]
  /\ entry \in [Requests -> Entry]
  /\ logChan \subseteq Record /\ buffer \subseteq Record /\ tried \subseteq buffer
  /\ tx \subseteq [record : tried, entry : Entry]
  /\ rows \in [Record -> [count : Nat, entry : Entry]]
  /\ charges \subseteq Charge
  /\ pending \in [Providers -> Nat] /\ quota \in [Providers -> Nat]
  /\ minute \in [Providers -> Nat]
  /\ restarts \in Nat
  /\ spent \in [Providers -> Nat]

\* RecordRequest was called for m, and has queued it if there was room.
Recorded(m) ==
  \/ m[2] < call[m[1]].n
  \/ m[2] = call[m[1]].n /\ call[m[1]].phase # "logging"

\* A call of RecordRequest makes at most one row: no entry is written twice,
\* and none is written that is still on its way, whichever batches fail and
\* whenever the process stops.
OneRowPerRecord ==
  \A m \in Record :
    rows[m].count <= IF Recorded(m) /\ m \notin logChan \cup buffer THEN 1 ELSE 0

\* The row of the second record has what the stream ended with, its error
\* above all, although it is read through a pointer the handler wrote to.
LastRowIsFinal ==
  \A r \in Requests :
    rows[<<r, 2>>].count > 0 => rows[<<r, 2>>].entry = entry[r]

\* The quota of a provider is never charged with more than the requests to it
\* cost: charges can be lost, and are not applied twice.
QuotaNeverInvented ==
  \A p \in Providers : quota[p] + pending[p] <= spent[p]

\* Nothing stays in memory for good: when the requests have ended, a batch that
\* has not filled up is written out, or lost with an error, all the same.
MemoryDrains == []<>(logChan \cup buffer = {} /\ charges = {} /\ Gathered = {})

\* cost.go: what has any usage costs at least one cent ("最低 1 分"), and
\* docs/10-meter-cost.md: "CostCents = CalculateCost(model, inputTokens, ...)".
UsageHasCost ==
  \A m \in Record : rows[m].count > 0 /\ rows[m].entry.usage => rows[m].entry.cost > 0

=============================================================================
