--------------------------- MODULE MeteringProofs ---------------------------
(***************************************************************************)
(* Proofs about Metering, for any requests, providers, costs, capacities   *)
(* and batch sizes: the types, one row per record, the content of the      *)
(* second row of a stream, and the quota of a provider.                    *)
(***************************************************************************)
EXTENDS Metering, TLAPS, FiniteSetTheorems

-----------------------------------------------------------------------------
(* The inductive invariant, in named parts. *)

CallType == [phase : Phase, n : 0..2]

\* How often the log of a request was recorded when its handler stands where
\* it stands.
PhaseInv ==
  \A r \in Requests :
    /\ call[r].phase = "idle" => call[r].n = 0
    /\ call[r].phase \in {"streaming", "breaking"} => call[r].n = 1
    /\ call[r].phase \in {"logging", "charging", "counting"} => call[r].n \in 1..2

Waiting == logChan \cup buffer

\* A record that waits was recorded and has no row; one that was not recorded
\* has no row either.
RowInv ==
  /\ logChan \cap buffer = {}
  /\ \A m \in Waiting : Recorded(m)
  /\ \A m \in Record :
       /\ rows[m].count <= 1
       /\ m \in Waiting \/ ~Recorded(m) => rows[m].count = 0

\* What the transaction and the table have of a second record is the entry as
\* it is: the handler does not write to it any more.
FinalInv ==
  /\ LastRowIsFinal
  /\ \A x \in tx : x.record[2] = 2 => x.entry = entry[x.record[1]]

IInv == TypeOK /\ PhaseInv /\ RowInv /\ FinalInv

-----------------------------------------------------------------------------
(* Entries. *)

LEMMA BlankIsEntry == Blank \in Entry
<1>1. (CHOOSE p \in Providers : TRUE) \in Providers
  BY MeteringAssumption
<1>2. 0 \in Nat /\ FALSE \in BOOLEAN
  OBVIOUS
<1> QED
  BY <1>1, <1>2, Zenon DEF Blank, Entry

LEMMA BuiltAreEntries == Built \subseteq Entry
<1> SUFFICES ASSUME NEW e \in Built PROVE e \in Entry
  OBVIOUS
<1>1. /\ {FALSE} \subseteq BOOLEAN /\ {TRUE} \subseteq BOOLEAN
      /\ {0} \subseteq Nat /\ Costs \subseteq Nat
  BY MeteringAssumption
<1>2. CASE e \in [provider : Providers, good : {FALSE}, stream : {FALSE},
                  usage : {FALSE}, cost : {0}, error : BOOLEAN]
  BY <1>1, <1>2, Zenon DEF Entry
<1>3. CASE e \in [provider : Providers, good : {TRUE}, stream : BOOLEAN,
                  usage : {FALSE}, cost : {0}, error : {FALSE}]
  BY <1>1, <1>3, Zenon DEF Entry
<1>4. CASE e \in [provider : Providers, good : BOOLEAN, stream : {FALSE},
                  usage : {TRUE}, cost : Costs, error : {FALSE}]
  BY <1>1, <1>4, Zenon DEF Entry
<1> QED
  BY <1>2, <1>3, <1>4 DEF Built

LEMMA EntryEdits ==
  ASSUME NEW e \in Entry, NEW b \in BOOLEAN
  PROVE  [e EXCEPT !.usage = b] \in Entry /\ [e EXCEPT !.error = b] \in Entry
BY Zenon DEF Entry

-----------------------------------------------------------------------------
(* Steps of a handler, as the log writer sees them: one call record changes,
   and the entry of a request that was recorded twice does not. *)

Advances(r, c) ==
  /\ c \in CallType
  /\ call' = [call EXCEPT ![r] = c]
  /\ c.n >= call[r].n
  /\ c.n = call[r].n => c.phase # "logging"

LEMMA RecordedStays ==
  ASSUME TypeOK, NEW r \in Requests, NEW c, Advances(r, c), NEW m \in Record, Recorded(m)
  PROVE  Recorded(m)'
<1>1. m[1] \in Requests /\ m[2] \in {1, 2}
  BY DEF Record
<1>2. call[m[1]].n \in 0..2 /\ call[r].n \in 0..2 /\ c.n \in 0..2
  BY <1>1 DEF TypeOK, Advances, CallType
<1>3. CASE m[1] = r
  BY <1>1, <1>2, <1>3 DEF Advances, Recorded, TypeOK
<1>4. CASE m[1] # r
  BY <1>1, <1>4 DEF Advances, Recorded, TypeOK
<1> QED
  BY <1>3, <1>4

LEMMA HandlerStep ==
  ASSUME IInv, NEW r \in Requests, NEW c, Advances(r, c),
         UNCHANGED <<logChan, writer, rows>>,
         \A s \in Requests : s # r \/ call[r].n = 2 => entry'[s] = entry[s]
  PROVE  RowInv' /\ FinalInv'
<1>1. \A m \in Record : Recorded(m) => Recorded(m)'
  BY RecordedStays DEF IInv
<1>2. UNCHANGED <<logChan, buffer, tried, tx, rows>>
  BY DEF writer
<1>3. Waiting \subseteq Record
  BY DEF IInv, TypeOK, Waiting
<1>4. RowInv'
  BY <1>1, <1>2, <1>3 DEF IInv, RowInv, Waiting
\* A second row or insertion exists only for a request recorded twice.
<1>5. ASSUME NEW s \in Requests, <<s, 2>> \in Waiting \/ rows[<<s, 2>>].count > 0
      PROVE  entry'[s] = entry[s]
  <2>1. <<s, 2>> \in Record
    BY DEF Record
  <2>2. Recorded(<<s, 2>>)
    <3>1. rows[<<s, 2>>].count \in Nat
      BY <2>1 DEF IInv, TypeOK
    <3> QED
      BY <1>5, <2>1, <3>1 DEF IInv, RowInv
  <2>3. call[s].n \in 0..2
    BY DEF IInv, TypeOK
  <2>4. call[s].n = 2
    BY <2>2, <2>3 DEF Recorded
  <2> QED
    BY <2>4
<1>6. LastRowIsFinal'
  BY <1>2, <1>5 DEF IInv, FinalInv, LastRowIsFinal
<1>7. ASSUME NEW x \in tx', x.record[2] = 2
      PROVE  x.entry = entry'[x.record[1]]
  <2>1. x \in tx /\ x.record \in Waiting /\ x.record \in Record
    BY <1>2, <1>3 DEF IInv, TypeOK, Waiting
  <2>2. x.record = <<x.record[1], 2>> /\ x.record[1] \in Requests
    BY <1>7, <2>1 DEF Record
  <2>3. x.entry = entry[x.record[1]]
    BY <1>7, <2>1 DEF IInv, FinalInv
  <2> QED
    BY <1>5, <2>1, <2>2, <2>3
<1> QED
  BY <1>4, <1>6, <1>7 DEF FinalInv

-----------------------------------------------------------------------------
LEMMA InitIInv == Init => IInv
<1> SUFFICES ASSUME Init PROVE IInv
  OBVIOUS
<1>1. TypeOK
  BY BlankIsEntry DEF Init, TypeOK, Phase
<1>2. PhaseInv
  BY DEF Init, PhaseInv
<1>3. RowInv
  BY DEF Init, RowInv, Waiting
<1>4. FinalInv
  BY DEF Init, FinalInv, LastRowIsFinal, Record
<1> QED
  BY <1>1, <1>2, <1>3, <1>4 DEF IInv

(* The answer of a request is recorded for the first time. *)
LEMMA FinishStep ==
  ASSUME IInv, NEW r \in Requests, Finish(r)
  PROVE  IInv'
<1> DEFINE c == [phase |-> "logging", n |-> 1]
<1>1. PICK e \in Built : entry' = [entry EXCEPT ![r] = e]
  BY DEF Finish
<1>2. e \in Entry
  BY BuiltAreEntries
<1>3. c \in CallType /\ call' = [call EXCEPT ![r] = c] /\ call[r].n = 0
  BY DEF CallType, Phase, Finish, IInv, PhaseInv
<1>4. TypeOK'
  BY <1>1, <1>2, <1>3 DEF IInv, TypeOK, Finish, CallType, writer
<1>5. PhaseInv'
  BY <1>3 DEF IInv, TypeOK, PhaseInv
<1>6. Advances(r, c)
  BY <1>3 DEF Advances
<1>7. \A s \in Requests : s # r \/ call[r].n = 2 => entry'[s] = entry[s]
  BY <1>1, <1>3 DEF IInv, TypeOK
<1>8. UNCHANGED <<logChan, writer, rows>>
  BY DEF Finish
<1> QED
  BY <1>4, <1>5, <1>6, <1>7, <1>8, HandlerStep DEF IInv

(* The steps of a handler that leave the log channel alone and stay with the
   same record. *)
LEMMA PhaseStep ==
  ASSUME IInv, NEW r \in Requests, NEW phase \in Phase \ {"logging", "idle"},
         call' = [call EXCEPT ![r].phase = phase],
         phase \in {"streaming", "breaking"} => call[r].n = 1,
         phase \in {"charging", "counting"} => call[r].n \in 1..2,
         UNCHANGED <<logChan, writer, rows>>,
         \A s \in Requests : s # r \/ call[r].n = 2 => entry'[s] = entry[s]
  PROVE  /\ call' \in [Requests -> CallType]
         /\ PhaseInv' /\ RowInv' /\ FinalInv'
<1> DEFINE c == [call[r] EXCEPT !.phase = phase]
<1>1. call[r] \in CallType /\ call \in [Requests -> CallType]
  BY DEF IInv, TypeOK, CallType
<1>2. c \in CallType /\ c.n = call[r].n /\ c.phase = phase /\ call' = [call EXCEPT ![r] = c]
  BY <1>1 DEF CallType
<1>3. call' \in [Requests -> CallType]
  BY <1>1, <1>2
<1>4. PhaseInv'
  BY <1>1, <1>2 DEF IInv, PhaseInv
<1>5. Advances(r, c)
  BY <1>1, <1>2 DEF Advances, CallType
<1> QED
  BY <1>3, <1>4, <1>5, HandlerStep

LEMMA LogStep ==
  ASSUME IInv, NEW r \in Requests, InsertRequestLogAsync(r)
  PROVE  IInv'
<1> DEFINE c == [call[r] EXCEPT !.phase = "charging"]
<1>1. call[r] \in CallType /\ call \in [Requests -> CallType]
  BY DEF IInv, TypeOK, CallType
<1>2. call[r].n \in 1..2 /\ call[r].phase = "logging"
  BY DEF IInv, PhaseInv, InsertRequestLogAsync
<1>3. PICK m \in Record : m = <<r, call[r].n>>
  <2>1. <<r, call[r].n>> \in Record
    BY <1>2 DEF Record
  <2> QED
    BY <2>1
<1>new. ~Recorded(m)
  BY <1>1, <1>2, <1>3 DEF Recorded, CallType
<1>4. c \in CallType /\ c.n = call[r].n /\ c.phase = "charging" /\ call' = [call EXCEPT ![r] = c]
  BY <1>1 DEF CallType, Phase, InsertRequestLogAsync
<1>5. logChan' \in {logChan, logChan \cup {m}} /\ UNCHANGED <<entry, buffer, tried, tx, rows>>
  BY <1>3 DEF InsertRequestLogAsync, writer
<1>6. TypeOK'
  BY <1>1, <1>3, <1>4, <1>5 DEF IInv, TypeOK, InsertRequestLogAsync, CallType
<1>7. PhaseInv'
  BY <1>1, <1>2, <1>4 DEF IInv, PhaseInv
<1>8. Recorded(m)'
  BY <1>1, <1>2, <1>3, <1>4 DEF Recorded, CallType
<1>9. \A k \in Record : Recorded(k) => Recorded(k)'
  <2>1. Advances(r, c)
    BY <1>1, <1>4 DEF Advances, CallType
  <2> QED
    BY <2>1, RecordedStays DEF IInv
<1>10. RowInv'
  <2>1. m \notin Waiting /\ rows[m].count = 0 /\ Waiting \subseteq Record
    BY <1>new DEF IInv, TypeOK, RowInv, Waiting
  <2>2. Waiting' \subseteq Waiting \cup {m}
    BY <1>5 DEF Waiting
  <2>3. logChan' \cap buffer' = {}
    BY <1>5, <2>1 DEF IInv, RowInv, Waiting
  <2>4. \A k \in Waiting' : Recorded(k)'
    BY <1>8, <1>9, <2>1, <2>2 DEF IInv, RowInv
  <2>5. ASSUME NEW k \in Record
        PROVE  /\ rows'[k].count <= 1
               /\ k \in Waiting' \/ ~Recorded(k)' => rows'[k].count = 0
    BY <1>5, <1>9, <2>1, <2>2 DEF IInv, RowInv
  <2> QED
    BY <2>3, <2>4, <2>5 DEF RowInv
<1>11. FinalInv'
  BY <1>5 DEF IInv, FinalInv, LastRowIsFinal
<1> QED
  BY <1>6, <1>7, <1>10, <1>11 DEF IInv

LEMMA ChargeStep ==
  ASSUME IInv, NEW r \in Requests, UpdateProviderQuotaAsync(r)
  PROVE  IInv'
<1> DEFINE e == entry[r]
           ch == [record |-> <<r, call[r].n>>, provider |-> e.provider, cents |-> e.cost]
<1>1. call[r].n \in 1..2
  BY DEF IInv, PhaseInv, UpdateProviderQuotaAsync
<1>2. e \in Entry /\ e.provider \in Providers /\ e.cost \in Nat
  BY DEF IInv, TypeOK, Entry
<1>3. ch \in Charge
  BY <1>1, <1>2 DEF Charge, Record
<1>4. charges' \subseteq Charge
  BY <1>3 DEF IInv, TypeOK, UpdateProviderQuotaAsync
<1>5. spent' \in [Providers -> Nat]
  BY <1>2 DEF IInv, TypeOK, UpdateProviderQuotaAsync
<1>6. /\ call' \in [Requests -> CallType]
      /\ PhaseInv' /\ RowInv' /\ FinalInv'
  BY <1>1, PhaseStep DEF UpdateProviderQuotaAsync, Phase
<1>7. TypeOK'
  BY <1>4, <1>5, <1>6 DEF IInv, TypeOK, UpdateProviderQuotaAsync, CallType, writer
<1> QED
  BY <1>6, <1>7 DEF IInv

LEMMA MinuteStep ==
  ASSUME IInv, NEW r \in Requests, NEW fresh \in BOOLEAN, CountMinute(r, fresh)
  PROVE  IInv'
<1> DEFINE valid == entry[r].good /\ ~entry[r].error
<1>1. CountWith(r, valid, fresh)
  BY DEF CountMinute
<1>2. entry[r].provider \in Providers
  BY DEF IInv, TypeOK, Entry
<1>3. minute' \in [Providers -> Nat]
  BY <1>1, <1>2 DEF IInv, TypeOK, CountWith
<1>4. AfterRecord(r) \in Phase \ {"logging", "idle"}
  BY DEF AfterRecord, Phase
<1>5. /\ AfterRecord(r) \in {"streaming", "breaking"} => call[r].n = 1
      /\ AfterRecord(r) \notin {"charging", "counting"}
  BY DEF AfterRecord
<1>6. /\ call' \in [Requests -> CallType]
      /\ PhaseInv' /\ RowInv' /\ FinalInv'
  BY <1>1, <1>4, <1>5, PhaseStep DEF CountWith
<1>7. TypeOK'
  BY <1>1, <1>3, <1>6 DEF IInv, TypeOK, CountWith, CallType, writer
<1> QED
  BY <1>6, <1>7 DEF IInv

(* The end of a stream. *)
LEMMA StreamStep ==
  ASSUME IInv, NEW r \in Requests,
         StreamEnds(r) \/ StreamReportsUsage(r) \/ StreamAborts(r) \/ StoreError(r)
  PROVE  IInv'
<1>1. call[r].n = 1 /\ call[r].phase \in {"streaming", "breaking"}
  BY DEF IInv, PhaseInv, StreamEnds, StreamReportsUsage, StreamAborts, StoreError
<1>2. entry[r] \in Entry
  BY DEF IInv, TypeOK
<1>3. entry' \in [Requests -> Entry] /\ \A s \in Requests : s # r => entry'[s] = entry[s]
  <2>1. CASE StreamEnds(r)
    BY <2>1 DEF StreamEnds, IInv, TypeOK
  <2>2. CASE StreamReportsUsage(r)
    <3>1. [entry[r] EXCEPT !.usage = TRUE] \in Entry
      BY <1>2, EntryEdits
    <3> QED
      BY <2>2, <3>1 DEF StreamReportsUsage, IInv, TypeOK
  <2>3. CASE StreamAborts(r)
    <3>1. PICK u \in BOOLEAN : entry' = [entry EXCEPT ![r].usage = u]
      BY <2>3 DEF StreamAborts
    <3>2. [entry[r] EXCEPT !.usage = u] \in Entry
      BY <1>2, EntryEdits
    <3> QED
      BY <3>1, <3>2 DEF IInv, TypeOK
  <2>4. CASE StoreError(r)
    <3>1. [entry[r] EXCEPT !.error = TRUE] \in Entry
      BY <1>2, EntryEdits
    <3> QED
      BY <2>4, <3>1 DEF StoreError, IInv, TypeOK
  <2> QED
    BY <2>1, <2>2, <2>3, <2>4
<1>4. UNCHANGED <<logChan, buffer, tried, tx, rows, charges, pending, quota, minute, restarts, spent>>
  BY DEF StreamEnds, StreamReportsUsage, StreamAborts, StoreError, writer
<1>5. CASE StreamEnds(r) \/ StreamAborts(r)
  <2>1. PICK phase \in {"done", "breaking"} : call' = [call EXCEPT ![r].phase = phase]
    BY <1>5 DEF StreamEnds, StreamAborts
  <2>2. UNCHANGED <<logChan, writer, rows>>
    BY <1>4 DEF writer
  <2>3. \A s \in Requests : s # r \/ call[r].n = 2 => entry'[s] = entry[s]
    BY <1>1, <1>3
  <2>4. phase \in Phase \ {"logging", "idle"} /\ phase \notin {"charging", "counting"}
    BY DEF Phase
  <2>5. /\ call' \in [Requests -> CallType]
        /\ PhaseInv' /\ RowInv' /\ FinalInv'
    BY <1>1, <2>1, <2>2, <2>3, <2>4, PhaseStep
  <2> QED
    BY <1>3, <1>4, <2>5 DEF IInv, TypeOK, CallType
<1>6. CASE StreamReportsUsage(r) \/ StoreError(r)
  <2> DEFINE c == [phase |-> "logging", n |-> 2]
  <2>1. c \in CallType /\ call' = [call EXCEPT ![r] = c] /\ call \in [Requests -> CallType]
    BY <1>6 DEF CallType, Phase, StreamReportsUsage, StoreError, IInv, TypeOK
  <2>2. RowInv' /\ FinalInv'
    <3>1. Advances(r, c)
      BY <1>1, <2>1 DEF Advances
    <3> QED
      BY <1>1, <1>3, <1>4, <3>1, HandlerStep DEF writer
  <2>3. PhaseInv'
    BY <2>1 DEF IInv, PhaseInv
  <2> QED
    BY <1>3, <1>4, <2>1, <2>2, <2>3 DEF IInv, TypeOK, CallType
<1> QED
  BY <1>5, <1>6

-----------------------------------------------------------------------------
(* The log writer, the quota writer and a restart. *)

LEMMA CollectStep ==
  ASSUME IInv, NEW m \in logChan, Collect(m)
  PROVE  IInv'
<1>1. m \in Record /\ m \notin buffer
  BY DEF IInv, TypeOK, RowInv
<1>2. Waiting' = Waiting /\ logChan' \cap buffer' = {}
  BY DEF Collect, Waiting, IInv, RowInv
<1>3. UNCHANGED <<call, entry, tried, tx, rows>>
  BY DEF Collect
<1>4. TypeOK'
  BY <1>1 DEF Collect, IInv, TypeOK
<1>5. PhaseInv' /\ RowInv' /\ FinalInv'
  BY <1>2, <1>3 DEF IInv, PhaseInv, RowInv, FinalInv, LastRowIsFinal, Recorded
<1> QED
  BY <1>4, <1>5 DEF IInv

LEMMA InsertStep ==
  ASSUME IInv, NEW m \in buffer, Insert(m) \/ InsertFails(m)
  PROVE  IInv'
<1>1. m \in Record /\ m[1] \in Requests /\ entry[m[1]] \in Entry
  BY DEF IInv, TypeOK, Record
<1> DEFINE x == [record |-> m, entry |-> entry[m[1]]]
<1>2. /\ tried' = tried \cup {m} /\ tx' \subseteq tx \cup {x}
      /\ UNCHANGED <<call, entry, logChan, buffer, rows, charges, pending, quota,
                     minute, restarts, spent>>
  BY DEF Insert, InsertFails
<1>3. tx' \subseteq [record : tried', entry : Entry]
  BY <1>1, <1>2 DEF IInv, TypeOK
<1>4. TypeOK'
  BY <1>1, <1>2, <1>3 DEF IInv, TypeOK
<1>5. PhaseInv' /\ RowInv'
  BY <1>2 DEF IInv, PhaseInv, RowInv, Waiting, Recorded
<1>6. FinalInv'
  BY <1>2 DEF IInv, FinalInv, LastRowIsFinal
<1> QED
  BY <1>4, <1>5, <1>6 DEF IInv

\* What a commit makes of the rows.
LEMMA CommittedFacts ==
  ASSUME TypeOK, NEW m \in Record
  PROVE  \/ Committed[m] = rows[m]
         \/ \E x \in tx : /\ x.record = m /\ m \in tried
                          /\ Committed[m] = [count |-> rows[m].count + 1, entry |-> x.entry]
<1>1. CASE \E x \in tx : x.record = m
  <2> DEFINE x == CHOOSE y \in tx : y.record = m
  <2>1. x \in tx /\ x.record = m
    BY <1>1
  <2>2. Committed[m] = [count |-> rows[m].count + 1, entry |-> x.entry]
    BY <1>1 DEF Committed
  <2> QED
    BY <2>1, <2>2 DEF TypeOK
<1>2. CASE ~ \E x \in tx : x.record = m
  BY <1>2 DEF Committed
<1> QED
  BY <1>1, <1>2

LEMMA CommitStep ==
  ASSUME IInv, Commit
  PROVE  IInv'
<1>1. /\ rows' = Committed /\ buffer' = {} /\ tried' = {} /\ tx' = {}
      /\ UNCHANGED <<call, entry, logChan, charges, pending, quota, minute, restarts, spent>>
  BY DEF Commit
<1>types. TypeOK
  BY DEF IInv
<1>2. \A m \in Record : Committed[m] \in [count : Nat, entry : Entry]
  <2> SUFFICES ASSUME NEW m \in Record PROVE Committed[m] \in [count : Nat, entry : Entry]
    OBVIOUS
  <2>1. rows[m] \in [count : Nat, entry : Entry] /\ rows[m].count + 1 \in Nat
    BY DEF IInv, TypeOK
  <2>2. \A x \in tx : x.entry \in Entry
    BY DEF IInv, TypeOK
  <2>3. CASE Committed[m] = rows[m]
    BY <2>1, <2>3
  <2>4. ASSUME NEW x \in tx,
               Committed[m] = [count |-> rows[m].count + 1, entry |-> x.entry]
        PROVE  Committed[m] \in [count : Nat, entry : Entry]
    BY <2>1, <2>2, <2>4
  <2> QED
    BY <1>types, <2>3, <2>4, CommittedFacts
<1>3. TypeOK'
  BY <1>1, <1>2 DEF IInv, TypeOK, Committed
<1>4. RowInv'
  <2>1. Waiting' \subseteq Waiting /\ tried \subseteq Waiting /\ tried \cap Waiting' = {}
    BY <1>1 DEF IInv, TypeOK, RowInv, Waiting
  <2>2. \A m \in Record : Recorded(m)' <=> Recorded(m)
    BY <1>1 DEF Recorded
  <2>3. \A m \in Waiting' : Recorded(m)'
    <3>1. \A m \in Waiting' : m \in Record
      BY <2>1 DEF IInv, TypeOK, Waiting
    <3> QED
      BY <2>1, <2>2, <3>1 DEF IInv, RowInv
  <2>4. ASSUME NEW m \in Record
        PROVE  /\ rows'[m].count <= 1
               /\ m \in Waiting' \/ ~Recorded(m)' => rows'[m].count = 0
    <3>1. CASE Committed[m] = rows[m]
      BY <1>1, <2>1, <2>2, <3>1 DEF IInv, RowInv
    <3>2. CASE m \in tried /\ Committed[m].count = rows[m].count + 1
      <4>1. rows[m].count = 0 /\ Recorded(m) /\ m \notin Waiting'
        BY <2>1, <3>2 DEF IInv, RowInv
      <4> QED
        BY <1>1, <2>2, <3>2, <4>1
    <3>3. ASSUME NEW x \in tx, Committed[m] = [count |-> rows[m].count + 1, entry |-> x.entry]
          PROVE  Committed[m].count = rows[m].count + 1
      BY <3>3
    <3> QED
      BY <1>types, <3>1, <3>2, <3>3, CommittedFacts
  <2> QED
    BY <1>1, <2>3, <2>4 DEF RowInv
<1>5. LastRowIsFinal'
  <2> SUFFICES ASSUME NEW r \in Requests, Committed[<<r, 2>>].count > 0
               PROVE  Committed[<<r, 2>>].entry = entry[r]
    BY <1>1 DEF LastRowIsFinal
  <2>1. PICK m \in Record : m = <<r, 2>>
    BY DEF Record
  <2>2. CASE Committed[m] = rows[m]
    BY <2>1, <2>2 DEF IInv, FinalInv, LastRowIsFinal
  <2>3. ASSUME NEW x \in tx, x.record = m, Committed[m].entry = x.entry
        PROVE  Committed[m].entry = entry[r]
    BY <2>1, <2>3 DEF IInv, FinalInv
  <2>4. ASSUME NEW x \in tx, Committed[m] = [count |-> rows[m].count + 1, entry |-> x.entry]
        PROVE  Committed[m].entry = x.entry
    BY <2>4
  <2>5. Committed[m].entry = entry[r]
    BY <1>types, <2>1, <2>2, <2>3, <2>4, CommittedFacts
  <2> QED
    BY <2>1, <2>5
<1>6. PhaseInv' /\ FinalInv'
  BY <1>1, <1>5 DEF IInv, PhaseInv, FinalInv
<1> QED
  BY <1>3, <1>4, <1>6 DEF IInv

LEMMA FlushFailsStep ==
  ASSUME IInv, FlushFails
  PROVE  IInv'
<1>1. /\ buffer' = {} /\ tried' = {} /\ tx' = {}
      /\ UNCHANGED <<call, entry, logChan, rows, charges, pending, quota, minute, restarts, spent>>
  BY DEF FlushFails
<1>2. TypeOK'
  BY <1>1 DEF IInv, TypeOK
<1>3. PhaseInv' /\ RowInv' /\ FinalInv'
  BY <1>1 DEF IInv, PhaseInv, RowInv, FinalInv, LastRowIsFinal, Recorded, Waiting
<1> QED
  BY <1>2, <1>3 DEF IInv

LEMMA QuotaStep ==
  ASSUME IInv, QuotaWriterStep
  PROVE  IInv'
<1>1. UNCHANGED <<call, entry, logChan, buffer, tried, tx, rows, minute, restarts, spent>>
  BY DEF QuotaWriterStep, Gather, FlushQuotas, writer
<1>2. charges' \subseteq Charge /\ pending' \in [Providers -> Nat] /\ quota' \in [Providers -> Nat]
  <2>1. CASE \E c \in charges : Gather(c)
    <3>1. PICK c \in charges : Gather(c)
      BY <2>1
    <3>2. c.provider \in Providers /\ c.cents \in Nat
      BY <3>1 DEF IInv, TypeOK, Charge
    <3> QED
      BY <3>1, <3>2 DEF Gather, IInv, TypeOK
  <2>2. CASE \E done \in SUBSET Gathered : FlushQuotas(done)
    BY <2>2 DEF FlushQuotas, IInv, TypeOK
  <2> QED
    BY <2>1, <2>2 DEF QuotaWriterStep
<1>3. TypeOK'
  BY <1>1, <1>2 DEF IInv, TypeOK
<1>4. PhaseInv' /\ RowInv' /\ FinalInv'
  BY <1>1 DEF IInv, PhaseInv, RowInv, FinalInv, LastRowIsFinal, Recorded, Waiting
<1> QED
  BY <1>3, <1>4 DEF IInv

LEMMA RestartStep ==
  ASSUME IInv, Restart
  PROVE  IInv'
<1>1. /\ logChan' = {} /\ buffer' = {} /\ tried' = {} /\ tx' = {} /\ charges' = {}
      /\ UNCHANGED <<entry, rows, quota, spent>>
  BY DEF Restart
<1>2. ASSUME NEW r \in Requests
      PROVE  /\ call'[r] \in CallType /\ call'[r].n = call[r].n
             /\ call'[r].phase \in {"idle", "done", "gone"}
             /\ call'[r].phase = "idle" => call[r].phase = "idle"
  BY DEF Restart, IInv, TypeOK, CallType, Phase
<1>3. call' \in [Requests -> CallType]
  BY <1>2 DEF Restart
<1>4. TypeOK'
  BY <1>1, <1>3 DEF Restart, IInv, TypeOK, CallType
<1>5. PhaseInv'
  BY <1>2 DEF IInv, PhaseInv
<1>6. \A m \in Record : Recorded(m) => Recorded(m)'
  <2> SUFFICES ASSUME NEW m \in Record, Recorded(m) PROVE Recorded(m)'
    OBVIOUS
  <2>1. m[1] \in Requests
    BY DEF Record
  <2> QED
    BY <1>2, <2>1 DEF Recorded
<1>7. RowInv'
  BY <1>1, <1>6 DEF IInv, RowInv, Waiting
<1>8. FinalInv'
  BY <1>1 DEF IInv, FinalInv, LastRowIsFinal
<1> QED
  BY <1>4, <1>5, <1>7, <1>8 DEF IInv

-----------------------------------------------------------------------------
LEMMA NextIInv == IInv /\ [Next]_vars => IInv'
<1> SUFFICES ASSUME IInv, [Next]_vars PROVE IInv'
  OBVIOUS
<1>1. ASSUME NEW r \in Requests, Finish(r) \/ Handle(r) PROVE IInv'
  BY <1>1, FinishStep, LogStep, ChargeStep, MinuteStep, StreamStep DEF Handle
<1>2. CASE LogWriterStep
  BY <1>2, CollectStep, InsertStep, CommitStep, FlushFailsStep DEF LogWriterStep
<1>3. CASE QuotaWriterStep
  BY <1>3, QuotaStep
<1>4. CASE Restart
  BY <1>4, RestartStep
<1>5. CASE UNCHANGED vars
  BY <1>5 DEF vars, writer, IInv, TypeOK, PhaseInv, RowInv, FinalInv, LastRowIsFinal,
              Recorded, Waiting
<1> QED
  BY <1>1, <1>2, <1>3, <1>4, <1>5 DEF Next

\* The invariant of the handlers, the log writer and the table of the log
\* (meter.go, db.go logBatchWriter) holds in every reachable state.
THEOREM Invariance == Spec => []IInv
BY InitIInv, NextIInv, PTL DEF Spec

\* The state of the handlers, the meter and both writers keeps its types.
THEOREM TypeCorrect == Spec => []TypeOK
<1>1. IInv => TypeOK
  BY DEF IInv
<1> QED
  BY <1>1, Invariance, PTL

\* A call of RecordRequest makes at most one row of wr_request_logs, and none
\* before it is written out, whichever transactions fail and whenever the
\* process stops.
THEOREM NoDoubleRows == Spec => []OneRowPerRecord
<1>1. IInv => OneRowPerRecord
  BY DEF IInv, TypeOK, RowInv, OneRowPerRecord, Waiting
<1> QED
  BY <1>1, Invariance, PTL

\* The second row of a stream has what the stream ended with, although the
\* log writer reads it through a pointer that the handler wrote to.
THEOREM FinalRows == Spec => []LastRowIsFinal
<1>1. IInv => LastRowIsFinal
  BY DEF IInv, FinalInv
<1> QED
  BY <1>1, Invariance, PTL

-----------------------------------------------------------------------------
(* The quota of a provider.  A sum over the charges that wait is the number *)
(* of their cents, each a pair of a charge and a number.                    *)

CentsOf(c) == {c} \X (1..c.cents)
Queued(p) == {x \in charges \X Nat : x[1].provider = p /\ x[2] \in 1..x[1].cents}

\* Every cent that is in the row of a provider, in its bucket or in the channel
\* was spent, and is in one of them only.
SpentInv ==
  \A p \in Providers :
    /\ IsFiniteSet(Queued(p))
    /\ quota[p] + pending[p] + Cardinality(Queued(p)) <= spent[p]

LEMMA CentsCounted ==
  ASSUME NEW c, c.cents \in Nat
  PROVE  IsFiniteSet(CentsOf(c)) /\ Cardinality(CentsOf(c)) = c.cents
<1>1. IsFiniteSet(1..c.cents) /\ Cardinality(1..c.cents) = c.cents
  BY FS_Interval
<1>2. IsFiniteSet({c}) /\ Cardinality({c}) = 1
  BY FS_Singleton
<1>3. /\ IsFiniteSet({c} \X (1..c.cents))
      /\ Cardinality({c} \X (1..c.cents)) = Cardinality({c}) * Cardinality(1..c.cents)
  BY <1>1, <1>2, FS_Product
<1> QED
  BY <1>1, <1>2, <1>3 DEF CentsOf

\* A recorded request adds at most its cents to the channel.
LEMMA ChargeSpent ==
  ASSUME IInv, SpentInv, NEW r \in Requests, UpdateProviderQuotaAsync(r)
  PROVE  SpentInv'
<1> DEFINE e == entry[r]
           c == [record |-> <<r, call[r].n>>, provider |-> e.provider, cents |-> e.cost]
<1> SUFFICES ASSUME NEW p \in Providers
             PROVE  /\ IsFiniteSet(Queued(p)')
                    /\ quota'[p] + pending'[p] + Cardinality(Queued(p)') <= spent'[p]
  BY DEF SpentInv
<1>1. e.provider \in Providers /\ e.cost \in Nat
  BY DEF IInv, TypeOK, Entry
<1>2. /\ charges' \in {charges, charges \cup {c}}
      /\ spent' = [spent EXCEPT ![e.provider] = spent[e.provider] + e.cost]
      /\ UNCHANGED <<pending, quota>>
  BY DEF UpdateProviderQuotaAsync
<1>3. /\ IsFiniteSet(Queued(p)) /\ Cardinality(Queued(p)) \in Nat
      /\ quota[p] \in Nat /\ pending[p] \in Nat /\ spent[p] \in Nat
      /\ quota[p] + pending[p] + Cardinality(Queued(p)) <= spent[p]
  BY FS_CardinalityType DEF SpentInv, IInv, TypeOK
<1>4. CASE p # e.provider
  <2>1. Queued(p)' \subseteq Queued(p)
    BY <1>2, <1>4 DEF Queued
  <2>2. IsFiniteSet(Queued(p)') /\ Cardinality(Queued(p)') <= Cardinality(Queued(p))
    BY <1>3, <2>1, FS_Subset
  <2>3. Cardinality(Queued(p)') \in Nat
    BY <2>2, FS_CardinalityType
  <2>4. spent'[p] = spent[p]
    BY <1>2, <1>4 DEF IInv, TypeOK
  <2> QED
    BY <1>2, <1>3, <2>2, <2>3, <2>4
<1>5. CASE p = e.provider
  <2>1. Queued(p)' \subseteq Queued(p) \cup CentsOf(c)
    BY <1>1, <1>2 DEF Queued, CentsOf
  <2>2. IsFiniteSet(CentsOf(c)) /\ Cardinality(CentsOf(c)) = e.cost
    BY <1>1, CentsCounted
  <2>3. /\ IsFiniteSet(Queued(p) \cup CentsOf(c))
        /\ Cardinality(Queued(p) \cup CentsOf(c))
             = Cardinality(Queued(p)) + e.cost - Cardinality(Queued(p) \cap CentsOf(c))
    BY <1>3, <2>2, FS_Union
  <2>4. Cardinality(Queued(p) \cap CentsOf(c)) \in Nat
    BY <1>3, FS_Subset, FS_CardinalityType
  <2>5. IsFiniteSet(Queued(p)')
        /\ Cardinality(Queued(p)') <= Cardinality(Queued(p) \cup CentsOf(c))
    BY <2>1, <2>3, FS_Subset
  <2>6. Cardinality(Queued(p)') \in Nat
    BY <2>5, FS_CardinalityType
  <2>7. spent'[p] = spent[p] + e.cost
    BY <1>2, <1>5 DEF IInv, TypeOK
  <2> QED
    BY <1>1, <1>2, <1>3, <2>3, <2>4, <2>5, <2>6, <2>7
<1> QED
  BY <1>4, <1>5

\* What the writer gathers leaves the channel as it enters the bucket.
LEMMA GatherSpent ==
  ASSUME IInv, SpentInv, NEW c \in charges, Gather(c)
  PROVE  SpentInv'
<1> SUFFICES ASSUME NEW p \in Providers
             PROVE  /\ IsFiniteSet(Queued(p)')
                    /\ quota'[p] + pending'[p] + Cardinality(Queued(p)') <= spent'[p]
  BY DEF SpentInv
<1>1. c.provider \in Providers /\ c.cents \in Nat
  BY DEF IInv, TypeOK, Charge
<1>2. /\ charges' = charges \ {c}
      /\ pending' = [pending EXCEPT ![c.provider] = pending[c.provider] + c.cents]
      /\ UNCHANGED <<spent, quota>>
  BY DEF Gather
<1>3. /\ IsFiniteSet(Queued(p)) /\ Cardinality(Queued(p)) \in Nat
      /\ quota[p] \in Nat /\ pending[p] \in Nat /\ spent[p] \in Nat
      /\ quota[p] + pending[p] + Cardinality(Queued(p)) <= spent[p]
  BY FS_CardinalityType DEF SpentInv, IInv, TypeOK
<1>4. CASE p # c.provider
  <2>1. Queued(p)' \subseteq Queued(p)
    BY <1>2 DEF Queued
  <2>2. IsFiniteSet(Queued(p)') /\ Cardinality(Queued(p)') <= Cardinality(Queued(p))
    BY <1>3, <2>1, FS_Subset
  <2>3. Cardinality(Queued(p)') \in Nat
    BY <2>2, FS_CardinalityType
  <2>4. pending'[p] = pending[p]
    BY <1>2, <1>4 DEF IInv, TypeOK
  <2> QED
    BY <1>2, <1>3, <2>2, <2>3, <2>4
<1>5. CASE p = c.provider
  <2>1. Queued(p)' = Queued(p) \ CentsOf(c) /\ Queued(p) \cap CentsOf(c) = CentsOf(c)
    BY <1>1, <1>2, <1>5 DEF Queued, CentsOf
  <2>2. Cardinality(CentsOf(c)) = c.cents
    BY <1>1, CentsCounted
  <2>3. IsFiniteSet(Queued(p)') /\ Cardinality(Queued(p)') = Cardinality(Queued(p)) - c.cents
    <3>1. /\ IsFiniteSet(Queued(p) \ CentsOf(c))
          /\ Cardinality(Queued(p) \ CentsOf(c))
               = Cardinality(Queued(p)) - Cardinality(Queued(p) \cap CentsOf(c))
      BY <1>3, FS_Difference
    <3> QED
      BY <2>1, <2>2, <3>1, Zenon
  <2>4. pending'[p] = pending[p] + c.cents
    BY <1>2, <1>5 DEF IInv, TypeOK
  <2> QED
    BY <1>1, <1>2, <1>3, <2>3, <2>4
<1> QED
  BY <1>4, <1>5

\* Everything else leaves the channel or the buckets as they are, or drops them.
LEMMA DropSpent ==
  ASSUME IInv, SpentInv, charges' \subseteq charges, spent' = spent,
         \A p \in Providers :
           /\ quota'[p] \in Nat /\ pending'[p] \in Nat
           /\ quota'[p] + pending'[p] <= quota[p] + pending[p]
  PROVE  SpentInv'
<1> SUFFICES ASSUME NEW p \in Providers
             PROVE  /\ IsFiniteSet(Queued(p)')
                    /\ quota'[p] + pending'[p] + Cardinality(Queued(p)') <= spent'[p]
  BY DEF SpentInv
<1>1. /\ IsFiniteSet(Queued(p)) /\ Cardinality(Queued(p)) \in Nat
      /\ quota[p] \in Nat /\ pending[p] \in Nat /\ spent[p] \in Nat
      /\ quota[p] + pending[p] + Cardinality(Queued(p)) <= spent[p]
  BY FS_CardinalityType DEF SpentInv, IInv, TypeOK
<1>2. Queued(p)' \subseteq Queued(p)
  BY DEF Queued
<1>3. IsFiniteSet(Queued(p)') /\ Cardinality(Queued(p)') <= Cardinality(Queued(p))
  BY <1>1, <1>2, FS_Subset
<1>4. Cardinality(Queued(p)') \in Nat
  BY <1>3, FS_CardinalityType
<1> QED
  BY <1>1, <1>3, <1>4

LEMMA SpentStep ==
  ASSUME IInv, SpentInv, [Next]_vars
  PROVE  SpentInv'
<1>1. \A p \in Providers : quota[p] \in Nat /\ pending[p] \in Nat
  BY DEF IInv, TypeOK
<1>2. CASE UNCHANGED <<charges, pending, quota, spent>>
  BY <1>1, <1>2, DropSpent
<1>3. ASSUME NEW done \in SUBSET Gathered, FlushQuotas(done) PROVE SpentInv'
  <2>1. charges' = charges /\ spent' = spent
    BY <1>3 DEF FlushQuotas
  <2>2. ASSUME NEW p \in Providers
        PROVE  pending'[p] = 0 /\ quota'[p] \in {quota[p], quota[p] + pending[p]}
    BY <1>1, <1>3 DEF FlushQuotas
  <2> QED
    BY <1>1, <2>1, <2>2, DropSpent
<1>4. CASE Restart
  BY <1>1, <1>4, DropSpent DEF Restart
<1>5. \/ UNCHANGED <<charges, pending, quota, spent>>
      \/ \E r \in Requests : UpdateProviderQuotaAsync(r)
      \/ \E c \in charges : Gather(c)
      \/ \E done \in SUBSET Gathered : FlushQuotas(done)
      \/ Restart
  BY DEF vars, Next, Finish, Handle, InsertRequestLogAsync, CountMinute, CountWith, StreamEnds,
         StreamReportsUsage, StreamAborts, StoreError, LogWriterStep, Collect, Insert,
         InsertFails, Commit, FlushFails, QuotaWriterStep
<1> QED
  BY <1>2, <1>3, <1>4, <1>5, ChargeSpent, GatherSpent

\* The quota of a provider is never charged with more than the requests to it
\* cost (UpdateProviderQuotaAsync and providerQuotaBatchWriter of db.go): no
\* charge is applied twice, whichever flushes fail and whenever the process
\* stops.
THEOREM NoInventedQuota == Spec => []QuotaNeverInvented
<1>1. Init => SpentInv
  <2> SUFFICES ASSUME Init, NEW p \in Providers
               PROVE  /\ IsFiniteSet(Queued(p))
                      /\ quota[p] + pending[p] + Cardinality(Queued(p)) <= spent[p]
    BY DEF SpentInv
  <2>1. Queued(p) = {}
    BY DEF Init, Queued
  <2> QED
    BY <2>1, FS_EmptySet DEF Init
<1>2. IInv /\ SpentInv /\ [Next]_vars => SpentInv'
  BY SpentStep
<1>3. IInv /\ SpentInv => QuotaNeverInvented
  <2> SUFFICES ASSUME IInv, SpentInv, NEW p \in Providers
               PROVE  quota[p] + pending[p] <= spent[p]
    BY DEF QuotaNeverInvented
  <2>1. Cardinality(Queued(p)) \in Nat
    BY FS_CardinalityType DEF SpentInv
  <2> QED
    BY <2>1 DEF SpentInv, IInv, TypeOK
<1> QED
  BY <1>1, <1>2, <1>3, Invariance, PTL DEF Spec
=============================================================================
