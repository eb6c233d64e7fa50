------------------------- MODULE ProviderPoolProofs -------------------------
(***************************************************************************)
(* Proofs about ProviderPool, for any providers, channels, requests and    *)
(* reloads, any upstream conditions and any bounds.                        *)
(***************************************************************************)
EXTENDS ProviderPool, TLAPS, FiniteSetTheorems

-----------------------------------------------------------------------------
(* The inductive invariant, in named parts. *)

Reading(a) == reload[a].phase = "read"
Readers == {a \in Reloaders : Reading(a)}

\* Every reload was asked for by an edit: no generation goes past the bound.
BudgetInv ==
  /\ IsFiniteSet(Readers)
  /\ Cardinality(Readers) + calls + gen <= edits

\* Whoever is at work holds an object, and whoever has read holds rows.
HandsInv ==
  /\ \A r \in Requests : req[r].phase # "idle" => req[r].obj \in Objects
  /\ checker.phase \in {"found", "reported", "clearing"} => checker.obj \in Objects
  /\ \A a \in Reloaders : Reading(a) => reload[a].rows \in [Providers -> Row]

\* A request about to store the count it loaded plus one has added its own
\* refusal to the record since.
CountInv ==
  \A r \in Requests :
    req[r].phase = "counting" => req[r].seen < refused[req[r].obj[1]]

\* A refusal on record is in the row, in whatever a reload has read of it, and
\* in the listed object; an entry out of the list does not come back.
OnFile(e) ==
  /\ e \in Providers /\ rows[e].status = "auth_failed"
  /\ \A a \in Reloaders : Reading(a) => reload[a].rows[e] = rows[e]
  /\ e \in listed => pool[Current(e)].status = "auth_failed" /\ pool[Current(e)].backoff
  /\ e \notin listed => ~rows[e].enabled

BanInv == \A e \in Entries : banned[e] => OnFile(e)

TypeInv == TypeOK /\ BudgetInv /\ HandsInv
IInv == TypeInv /\ EscalationIsEarned /\ CountInv /\ BanInv

\* A reading with the last edit in it lists what the rows enable, and so does
\* the list once such a reading is the last one installed.  As long as none
\* was, one is owed: a call or a reading is outstanding, unless it was lost.
ListInv ==
  /\ \A a \in fresh : Reading(a) /\ Enabled(reload[a].rows) = Enabled(rows)
  /\ latest = "installed" => listed = Enabled(rows)
  /\ ~lost => calls > 0 \/ fresh # {} \/ latest # "none" \/ edits = 0

-----------------------------------------------------------------------------
(* Every variable keeps its type. *)

LEMMA EntriesAreApart == \A p \in Providers : p \in Entries /\ p \notin Channels
  BY ProviderPoolAssumption DEF Entries

\* A change of one field, and of two, gives an object again.
LEMMA ObjectFields ==
  ASSUME NEW d \in Provider
  PROVE  /\ \A s \in Status : [d EXCEPT !.status = s] \in Provider
         /\ \A n \in Nat : [d EXCEPT !.fails = n] \in Provider
         /\ \A b \in BOOLEAN : [d EXCEPT !.backoff = b] \in Provider
         /\ \A b \in BOOLEAN : [d EXCEPT !.cooling = b] \in Provider
         /\ \A n \in Nat, b \in BOOLEAN : [d EXCEPT !.fails = n, !.backoff = b] \in Provider
  BY DEF Provider

LEMMA FreshObject == \A s \in Status : NewObject(s) \in Provider
  BY DEF NewObject, Provider

LEMMA RowsStayRows ==
  ASSUME TypeOK, NEW e \in Entries, NEW s \in Status, SetRowStatus(e, s)
  PROVE  rows' \in [Providers -> Row]
  BY DEF TypeOK, SetRowStatus, Row

LEMMA CurrentIsObject == TypeOK => \A e \in Entries : Current(e) \in Objects
  BY DEF TypeOK, Current, Objects

LEMMA InitTypeInv == Init => TypeInv
<1> SUFFICES ASSUME Init PROVE TypeInv
  OBVIOUS
<1> USE ProviderPoolAssumption DEF Init
<1>1. rows \in [Providers -> Row]
  BY DEF Row, Status
<1>2. listed \subseteq Entries
  BY DEF Expanded, Enabled, Entries
<1>3. gen \in Generations
  BY DEF Generations
<1>4. pool \in [Objects -> Provider]
  <2> SUFFICES ASSUME NEW o \in Objects
               PROVE  NewObject(IF o[1] \in Providers THEN rows[o[1]].status ELSE "unchecked")
                        \in Provider
    OBVIOUS
  <2>1. (IF o[1] \in Providers THEN rows[o[1]].status ELSE "unchecked") \in Status
    BY <1>1 DEF Row, Status
  <2> QED
    BY <2>1, FreshObject
<1>5. checker \in [phase : {"idle", "walking", "found", "reported", "clearing"},
                   todo : SUBSET Objects, obj : Objects \cup NoObject, verdict : Status]
  BY DEF NoCheck, NoObject, Status
<1>6. req \in [Requests -> [phase : {"idle", "sent", "counting", "raising", "marking", "reporting"},
                            obj : Objects \cup NoObject, seen : Nat]]
  BY DEF NoRequest, NoObject
<1>7. reload \in [Reloaders -> [phase : {"idle", "read"}, rows : [Providers -> Row] \cup NoObject]]
  BY DEF NoReload, NoObject
<1>8. world \in [Entries -> Upstreams]
  OBVIOUS
<1>9. calls \in 0..MaxEdits /\ edits \in 0..MaxEdits /\ shifts \in 0..MaxShifts
  OBVIOUS
<1>10. refused \in [Entries -> 0..MaxFails]
  OBVIOUS
<1>11. /\ banned \in [Entries -> BOOLEAN] /\ lost \in BOOLEAN
       /\ fresh \subseteq Reloaders /\ latest \in {"none", "installed", "overtaken"}
  BY Zenon
<1>12. TypeOK
  BY ONLY <1>1, <1>2, <1>3, <1>4, <1>5, <1>6, <1>7, <1>8, <1>9, <1>10,
          <1>11 DEF TypeOK
<1>13. Readers = {}
  BY DEF Readers, Reading, NoReload
<1>14. BudgetInv
  BY <1>13, FS_EmptySet DEF BudgetInv
<1>15. HandsInv
  BY DEF HandsInv, NoRequest, NoCheck, NoReload, Reading
<1> QED
  BY <1>12, <1>14, <1>15 DEF TypeInv

\* What Put changes of an object.
LEMMA PutChanges ==
  ASSUME TypeOK, NEW o \in Objects, NEW f, NEW v, Put(o, f, v),
         f \in {"status", "fails", "backoff", "cooling"},
         f = "status" => v \in Status, f = "fails" => v \in Nat,
         f \in {"backoff", "cooling"} => v \in BOOLEAN
  PROVE  /\ pool' \in [Objects -> Provider]
         /\ \A q \in Objects : q # o => pool'[q] = pool[q]
         /\ pool'[o].status = IF f = "status" THEN v ELSE pool[o].status
         /\ pool'[o].fails = IF f = "fails" THEN v ELSE pool[o].fails
         /\ pool'[o].backoff = IF f = "backoff" THEN v ELSE pool[o].backoff
         /\ pool'[o].cooling = IF f = "cooling" THEN v ELSE pool[o].cooling
<1> DEFINE d == [pool[o] EXCEPT ![f] = v]
<1>1. pool \in [Objects -> Provider] /\ pool[o] \in Provider
  BY DEF TypeOK
<1>2. pool' = [pool EXCEPT ![o] = d]
  BY DEF Put
<1>3. pool'[o] = d /\ \A q \in Objects : q # o => pool'[q] = pool[q]
  BY <1>1, <1>2
<1>4. /\ d \in Provider
      /\ d.status = IF f = "status" THEN v ELSE pool[o].status
      /\ d.fails = IF f = "fails" THEN v ELSE pool[o].fails
      /\ d.backoff = IF f = "backoff" THEN v ELSE pool[o].backoff
      /\ d.cooling = IF f = "cooling" THEN v ELSE pool[o].cooling
  <2>1. CASE f = "status"
    BY <1>1, <2>1 DEF Provider
  <2>2. CASE f = "fails"
    BY <1>1, <2>2 DEF Provider
  <2>3. CASE f = "backoff"
    BY <1>1, <2>3 DEF Provider
  <2>4. CASE f = "cooling"
    BY <1>1, <2>4 DEF Provider
  <2> QED
    BY <2>1, <2>2, <2>3, <2>4
<1> HIDE DEF d
<1>5. pool' \in [Objects -> Provider]
  BY <1>1, <1>2, <1>4
<1> QED
  BY <1>3, <1>4, <1>5

LEMMA PutStatus ==
  ASSUME TypeOK, NEW o \in Objects, NEW s \in Status, Put(o, "status", s)
  PROVE  /\ pool' \in [Objects -> Provider]
         /\ \A q \in Objects : q # o => pool'[q] = pool[q]
         /\ pool'[o].status = s
         /\ pool'[o].fails = pool[o].fails
         /\ pool'[o].backoff = pool[o].backoff
<1> DEFINE f == "status"
<1>1. f = "status" /\ f \notin {"fails", "backoff", "cooling"} /\ Put(o, f, s)
  OBVIOUS
<1> HIDE DEF f
<1> QED
  BY <1>1, PutChanges

LEMMA PutFails ==
  ASSUME TypeOK, NEW o \in Objects, NEW n \in Nat, Put(o, "fails", n)
  PROVE  /\ pool' \in [Objects -> Provider]
         /\ \A q \in Objects : q # o => pool'[q] = pool[q]
         /\ pool'[o].status = pool[o].status
         /\ pool'[o].fails = n
         /\ pool'[o].backoff = pool[o].backoff
<1> DEFINE f == "fails"
<1>1. f = "fails" /\ f \notin {"status", "backoff", "cooling"} /\ Put(o, f, n)
  OBVIOUS
<1> HIDE DEF f
<1> QED
  BY <1>1, PutChanges

LEMMA PutBackoff ==
  ASSUME TypeOK, NEW o \in Objects, NEW b \in BOOLEAN, Put(o, "backoff", b)
  PROVE  /\ pool' \in [Objects -> Provider]
         /\ \A q \in Objects : q # o => pool'[q] = pool[q]
         /\ pool'[o].status = pool[o].status
         /\ pool'[o].fails = pool[o].fails
         /\ pool'[o].backoff = b
<1> DEFINE f == "backoff"
<1>1. f = "backoff" /\ f \notin {"status", "fails", "cooling"} /\ Put(o, f, b)
  OBVIOUS
<1> HIDE DEF f
<1> QED
  BY <1>1, PutChanges

LEMMA PutCooling ==
  ASSUME TypeOK, NEW o \in Objects, NEW b \in BOOLEAN, Put(o, "cooling", b)
  PROVE  /\ pool' \in [Objects -> Provider]
         /\ \A q \in Objects : q # o => pool'[q] = pool[q]
         /\ pool'[o].status = pool[o].status
         /\ pool'[o].fails = pool[o].fails
         /\ pool'[o].backoff = pool[o].backoff
<1> DEFINE f == "cooling"
<1>1. f = "cooling" /\ f \notin {"status", "fails", "backoff"} /\ Put(o, f, b)
  OBVIOUS
<1> HIDE DEF f
<1> QED
  BY <1>1, PutChanges

-----------------------------------------------------------------------------
(* The reloads: how many can still come. *)

\* What a step does to the reloads, the list and the edits.
Untouched == UNCHANGED <<listed, gen, reload, calls, edits, lost, fresh, latest>>

LEMMA ReloadShapes ==
  ASSUME [Next]_vars
  PROVE  \/ Untouched
         \/ \E p \in Providers : \E row : Edit(p, row)
         \/ \E a \in Reloaders : LoadRows(a) \/ LoadFails(a) \/ Refresh(a)
<1> USE DEF Untouched
<1>1. CASE UNCHANGED vars
  BY <1>1 DEF vars, environment, history, progress
<1>2. CASE \E r \in Requests : Answer(r) \/ \E e \in Entries : Select(r, e)
  BY <1>2 DEF Answer, Select, AnswerPlain, AnswerExhausted, AnswerRefused, CountFailure,
              RaiseBackoff, MarkRefused, ReportRefused, environment, history, progress
<1>3. CASE \E e \in Entries : BackoffEnds(e) \/ CoolingEnds(e)
  BY <1>3 DEF BackoffEnds, CoolingEnds, environment, history, progress
<1>4. CASE CheckStep
  BY <1>4 DEF CheckStep, CheckStart, Probe, CheckReport, CheckMark, CheckClear, environment, history, progress
<1>5. CASE AdminStep
  BY <1>5 DEF AdminStep, Disable, Enable, ChangeKey, EditOther, ClearCooldown, environment, history, progress
<1>6. CASE \E a \in Reloaders : ReloadStep(a)
  BY <1>6 DEF ReloadStep
<1>7. CASE \E e \in Entries, w \in Conditions : Shift(e, w)
  BY <1>7 DEF Shift, history, progress
<1> QED
  BY <1>1, <1>2, <1>3, <1>4, <1>5, <1>6, <1>7 DEF Next

LEMMA LoadAddsReader ==
  ASSUME TypeInv, NEW a \in Reloaders, LoadRows(a)
  PROVE  /\ a \notin Readers
         /\ Readers' = Readers \cup {a}
         /\ reload'[a] = [phase |-> "read", rows |-> rows]
         /\ \A b \in Reloaders : b # a => reload'[b] = reload[b]
  BY DEF TypeInv, TypeOK, LoadRows, Readers, Reading

LEMMA RefreshEndsReader ==
  ASSUME TypeInv, NEW a \in Reloaders, Refresh(a)
  PROVE  /\ a \in Readers
         /\ Readers' = Readers \ {a}
         /\ reload'[a] = NoReload
         /\ \A b \in Reloaders : b # a => reload'[b] = reload[b]
  BY DEF TypeInv, TypeOK, Refresh, Readers, Reading, NoReload

LEMMA BudgetStep ==
  ASSUME TypeInv, [Next]_vars
  PROVE  BudgetInv'
<1>1. /\ IsFiniteSet(Readers) /\ Cardinality(Readers) \in Nat
      /\ calls \in Nat /\ gen \in Nat /\ edits \in Nat
      /\ Cardinality(Readers) + calls + gen <= edits
  BY FS_CardinalityType, ProviderPoolAssumption DEF TypeInv, TypeOK, BudgetInv, Generations
<1>2. CASE Untouched
  <2>1. Readers' = Readers
    BY <1>2 DEF Untouched, Readers, Reading
  <2> QED
    BY <1>1, <1>2, <2>1 DEF Untouched, BudgetInv
<1>3. ASSUME NEW p \in Providers, NEW row, Edit(p, row)
      PROVE  BudgetInv'
  <2>1. Readers' = Readers
    BY <1>3 DEF Edit, Readers, Reading
  <2>2. gen' = gen /\ edits' = edits + 1 /\ calls' \in {calls, calls + 1}
    BY <1>3 DEF Edit, Notify
  <2> QED
    BY <1>1, <2>1, <2>2 DEF BudgetInv
<1>4. ASSUME NEW a \in Reloaders, LoadRows(a)
      PROVE  BudgetInv'
  <2>1. Readers' = Readers \cup {a} /\ a \notin Readers
    BY <1>4, LoadAddsReader
  <2>2. IsFiniteSet(Readers') /\ Cardinality(Readers') = Cardinality(Readers) + 1
    BY <1>1, <2>1, FS_AddElement
  <2>3. gen' = gen /\ edits' = edits /\ calls' = calls - 1
    BY <1>4 DEF LoadRows
  <2> QED
    BY <1>1, <2>2, <2>3 DEF BudgetInv
<1>5. ASSUME NEW a \in Reloaders, LoadFails(a)
      PROVE  BudgetInv'
  <2>1. Readers' = Readers
    BY <1>5 DEF LoadFails, Readers, Reading
  <2>2. gen' = gen /\ edits' = edits /\ calls' = calls - 1
    BY <1>5 DEF LoadFails
  <2> QED
    BY <1>1, <2>1, <2>2 DEF BudgetInv
<1>6. ASSUME NEW a \in Reloaders, Refresh(a)
      PROVE  BudgetInv'
  <2>1. Readers' = Readers \ {a} /\ a \in Readers
    BY <1>6, RefreshEndsReader
  <2>2. IsFiniteSet(Readers') /\ Cardinality(Readers') = Cardinality(Readers) - 1
    BY <1>1, <2>1, FS_RemoveElement
  <2>3. gen' = gen + 1 /\ edits' = edits /\ calls' = calls
    BY <1>6 DEF Refresh, environment
  <2> QED
    BY <1>1, <2>2, <2>3 DEF BudgetInv
<1> QED
  BY <1>2, <1>3, <1>4, <1>5, <1>6, ReloadShapes

\* A list is replaced only when a reload has read, so the bound has room.
LEMMA RefreshHasRoom ==
  ASSUME TypeInv, NEW a \in Reloaders, Refresh(a)
  PROVE  gen' = gen + 1 /\ gen + 1 \in Generations
<1>1. gen' = gen + 1 /\ gen \in Nat /\ edits' = edits /\ edits \in 0..MaxEdits /\ calls' = calls
      /\ calls \in Nat
  BY ProviderPoolAssumption DEF TypeInv, TypeOK, Refresh, Generations, environment
<1>2. BudgetInv'
  BY BudgetStep DEF Next, ReloadStep
<1>3. Cardinality(Readers') \in Nat
  BY <1>2, FS_CardinalityType DEF BudgetInv
<1> QED
  BY <1>1, <1>2, <1>3, ProviderPoolAssumption DEF BudgetInv, Generations

-----------------------------------------------------------------------------
(* Types and held objects, action by action. *)

LEMMA EditKeepsTypes ==
  ASSUME TypeInv, NEW p \in Providers, NEW row \in Row, Edit(p, row), BudgetInv',
         banned' \in [Entries -> BOOLEAN]
  PROVE  TypeOK' /\ HandsInv'
<1>1. rows' \in [Providers -> Row]
  BY DEF TypeInv, TypeOK, Edit
<1>2. calls' \in 0..MaxEdits /\ edits' \in 0..MaxEdits
  <2>1. edits' \in 0..MaxEdits
    BY ProviderPoolAssumption DEF TypeInv, TypeOK, Edit
  <2>2. calls' \in Nat
    BY DEF TypeInv, TypeOK, Edit, Notify
  <2>3. gen' \in Nat
    BY ProviderPoolAssumption DEF TypeInv, TypeOK, Edit, Generations
  <2>4. Cardinality(Readers') \in Nat /\ Cardinality(Readers') + calls' + gen' <= edits'
    BY FS_CardinalityType DEF BudgetInv
  <2> QED
    BY <2>1, <2>2, <2>3, <2>4, ProviderPoolAssumption
<1>3. /\ lost' \in BOOLEAN /\ fresh' \subseteq Reloaders
      /\ latest' \in {"none", "installed", "overtaken"}
  BY Zenon DEF TypeInv, TypeOK, Edit, Notify
<1>4. UNCHANGED <<listed, gen, pool, req, checker, reload, world, shifts, refused>>
  BY DEF Edit
<1>5. TypeOK'
  BY <1>1, <1>2, <1>3, <1>4 DEF TypeInv, TypeOK
<1>6. HandsInv'
  BY <1>4 DEF TypeInv, HandsInv, Reading
<1> QED
  BY <1>5, <1>6

LEMMA RequestTypes ==
  ASSUME TypeInv, NEW r \in Requests,
         Answer(r) \/ \E e \in Entries : Select(r, e)
  PROVE  TypeOK' /\ HandsInv'
<1> DEFINE o == req[r].obj
           Phases == {"idle", "sent", "counting", "raising", "marking", "reporting"}
<1>1. TypeOK /\ HandsInv
  BY DEF TypeInv
<1>2. req[r].phase # "idle" => o \in Objects /\ o[1] \in Entries
  BY <1>1 DEF HandsInv, Objects
<1>3. ASSUME NEW e \in Entries, Select(r, e)
      PROVE  TypeOK' /\ HandsInv'
  <2>1. Current(e) \in Objects
    BY <1>1, CurrentIsObject
  <2>2. req' = [req EXCEPT ![r] = [phase |-> "sent", obj |-> Current(e), seen |-> 0]]
        /\ UNCHANGED <<rows, listed, gen, pool, checker, reload, world, shifts, edits, calls,
                       refused, banned, lost, fresh, latest>>
    BY <1>3 DEF Select, environment, history, progress
  <2>3. TypeOK'
    BY <1>1, <2>1, <2>2 DEF TypeOK
  <2>4. HandsInv'
    BY <1>1, <2>1, <2>2 DEF TypeOK, HandsInv, Reading
  <2> QED
    BY <2>3, <2>4
<1>4. CASE AnswerPlain(r)
  <2>1. req' = [req EXCEPT ![r] = NoRequest]
        /\ UNCHANGED <<rows, listed, gen, pool, checker, reload, world, shifts, edits, calls,
                       refused, banned, lost, fresh, latest>>
    BY <1>4 DEF AnswerPlain, environment, history, progress
  <2>2. TypeOK'
    BY <1>1, <2>1 DEF TypeOK, NoRequest, NoObject
  <2>3. HandsInv'
    BY <1>1, <2>1 DEF TypeOK, HandsInv, Reading, NoRequest
  <2> QED
    BY <2>2, <2>3
<1>5. CASE AnswerExhausted(r)
  <2>1. req' = [req EXCEPT ![r] = NoRequest]
        /\ UNCHANGED <<rows, listed, gen, checker, reload, world, shifts, edits, calls,
                       refused, banned, lost, fresh, latest>>
    BY <1>5 DEF AnswerExhausted, environment, history, progress
  <2>2. pool' \in [Objects -> Provider]
    <3>1. o \in Objects /\ Put(o, "cooling", TRUE)
      BY <1>2, <1>5 DEF AnswerExhausted
    <3> QED
      BY <1>1, <3>1, PutCooling
  <2>3. TypeOK'
    BY <1>1, <2>1, <2>2 DEF TypeOK, NoRequest, NoObject
  <2>4. HandsInv'
    BY <1>1, <2>1 DEF TypeOK, HandsInv, Reading, NoRequest
  <2> QED
    BY <2>3, <2>4
<1>6. CASE AnswerRefused(r)
  <2>1. /\ req' = [req EXCEPT ![r] = [@ EXCEPT !.phase = "counting", !.seen = pool[o].fails]]
        /\ refused' = [refused EXCEPT ![o[1]] = @ + 1] /\ refused[o[1]] < MaxFails
        /\ req[r].phase = "sent"
        /\ UNCHANGED <<rows, listed, gen, pool, checker, reload, world, shifts, edits, calls,
                       banned, lost, fresh, latest>>
    BY <1>6 DEF AnswerRefused, environment, progress
  <2>2. pool[o].fails \in Nat
    BY <1>1, <1>2, <2>1 DEF TypeOK, Provider
  <2>3. refused' \in [Entries -> 0..MaxFails]
    BY <1>1, <1>2, <2>1, ProviderPoolAssumption DEF TypeOK
  <2>4. req' \in [Requests -> [phase : Phases, obj : Objects \cup NoObject, seen : Nat]]
    <3> DEFINE d == [req[r] EXCEPT !.phase = "counting", !.seen = pool[o].fails]
    <3>1. d \in [phase : Phases, obj : Objects \cup NoObject, seen : Nat]
      <4>1. req[r] \in [phase : Phases, obj : Objects \cup NoObject, seen : Nat]
        BY <1>1 DEF TypeOK
      <4> QED
        BY <2>2, <4>1
    <3>2. req' = [req EXCEPT ![r] = d]
      BY <2>1, Zenon
    <3> HIDE DEF d
    <3> QED
      BY <1>1, <3>1, <3>2 DEF TypeOK
  <2>5. TypeOK'
    BY <1>1, <2>1, <2>3, <2>4 DEF TypeOK
  <2>6. HandsInv'
    BY <1>1, <1>2, <2>1 DEF TypeOK, HandsInv, Reading
  <2> QED
    BY <2>5, <2>6
<1>7. CASE CountFailure(r)
  <2>1. req' = [req EXCEPT ![r].phase = "raising"] /\ req[r].phase = "counting"
        /\ UNCHANGED <<rows, listed, gen, checker, reload, world, shifts, edits, calls,
                       refused, banned, lost, fresh, latest>>
    BY <1>7 DEF CountFailure, environment, history, progress
  <2>2. req[r].seen + 1 \in Nat
    BY <1>1 DEF TypeOK
  <2>3. pool' \in [Objects -> Provider]
    BY <1>1, <1>2, <1>7, <2>1, <2>2, PutFails DEF CountFailure
  <2>4. TypeOK'
    BY <1>1, <2>1, <2>3 DEF TypeOK
  <2>5. HandsInv'
    BY <1>1, <1>2, <2>1 DEF TypeOK, HandsInv, Reading
  <2> QED
    BY <2>4, <2>5
<1>8. CASE RaiseBackoff(r)
  <2>1. req' = [req EXCEPT ![r].phase = "marking"] /\ req[r].phase = "raising"
        /\ UNCHANGED <<rows, listed, gen, checker, reload, world, shifts, edits, calls,
                       refused, banned, lost, fresh, latest>>
    BY <1>8 DEF RaiseBackoff, environment, history, progress
  <2>2. pool' \in [Objects -> Provider]
    <3>1. o \in Objects /\ Put(o, "backoff", TRUE)
      BY <1>2, <1>8 DEF RaiseBackoff
    <3> QED
      BY <1>1, <3>1, PutBackoff
  <2>3. TypeOK'
    BY <1>1, <2>1, <2>2 DEF TypeOK
  <2>4. HandsInv'
    BY <1>1, <1>2, <2>1 DEF TypeOK, HandsInv, Reading
  <2> QED
    BY <2>3, <2>4
<1>9. CASE MarkRefused(r)
  <2>1. req' = [req EXCEPT ![r].phase = "reporting"] /\ req[r].phase = "marking"
        /\ UNCHANGED <<rows, listed, gen, checker, reload, world, shifts, edits, calls,
                       refused, banned, lost, fresh, latest>>
    BY <1>9 DEF MarkRefused, environment, history, progress
  <2>2. pool' \in [Objects -> Provider]
    <3>1. o \in Objects /\ Put(o, "status", "auth_failed")
      BY <1>2, <1>9 DEF MarkRefused
    <3> QED
      BY <1>1, <3>1, PutStatus DEF Status
  <2>3. TypeOK'
    BY <1>1, <2>1, <2>2 DEF TypeOK
  <2>4. HandsInv'
    BY <1>1, <1>2, <2>1 DEF TypeOK, HandsInv, Reading
  <2> QED
    BY <2>3, <2>4
<1>10. CASE ReportRefused(r)
  <2>1. /\ SetRowStatus(o[1], "auth_failed") /\ req' = [req EXCEPT ![r] = NoRequest]
        /\ req[r].phase = "reporting"
        /\ UNCHANGED <<listed, gen, pool, checker, reload, world, shifts, edits, calls,
                       refused, lost, fresh, latest>>
    BY <1>10 DEF ReportRefused, environment, progress
  <2>2. rows' \in [Providers -> Row]
    BY <1>1, <1>2, <2>1, RowsStayRows DEF Status
  <2>3. banned' \in [Entries -> BOOLEAN]
    <3>1. banned' = [banned EXCEPT ![o[1]] = banned[o[1]] \/ (OnRecord(o) /\ rows'[o[1]].status = "auth_failed")]
      BY <1>10 DEF ReportRefused
    <3>2. (banned[o[1]] \/ (OnRecord(o) /\ rows'[o[1]].status = "auth_failed")) \in BOOLEAN
      OBVIOUS
    <3> QED
      BY <1>1, <3>1, <3>2 DEF TypeOK
  <2>4. TypeOK'
    BY <1>1, <2>1, <2>2, <2>3 DEF TypeOK, NoRequest, NoObject
  <2>5. HandsInv'
    BY <1>1, <2>1 DEF TypeOK, HandsInv, Reading, NoRequest
  <2> QED
    BY <2>4, <2>5
<1> QED
  BY <1>3, <1>4, <1>5, <1>6, <1>7, <1>8, <1>9, <1>10 DEF Answer

\* What the checker goes on to, and what it says of an upstream.
CheckRecord ==
  [phase : {"idle", "walking", "found", "reported", "clearing"},
   todo : SUBSET Objects, obj : Objects \cup NoObject, verdict : Status]

LEMMA NextEntryFacts ==
  ASSUME TypeOK
  PROVE  NextEntry \in CheckRecord /\ NextEntry.phase \in {"idle", "walking"}
  BY DEF TypeOK, CheckRecord, NextEntry, NoCheck, NoObject, Status

LEMMA VerdictIsStatus ==
  \A w \in Upstreams : Verdict(w) \in Status
  BY DEF Verdict, Upstreams, Status

LEMMA CheckerTypes ==
  ASSUME TypeInv, CheckStep
  PROVE  TypeOK' /\ HandsInv'
<1> DEFINE o == checker.obj
<1>1. TypeOK /\ HandsInv /\ checker \in CheckRecord
  BY DEF TypeInv, TypeOK, CheckRecord
<1>2. checker.phase \in {"found", "reported", "clearing"} => o \in Objects /\ o[1] \in Entries
  BY <1>1 DEF HandsInv, Objects
<1>3. UNCHANGED <<listed, gen, req, reload, world, shifts, edits, calls, refused, lost, fresh, latest>>
  BY DEF CheckStep, CheckStart, Probe, CheckReport, CheckMark, CheckClear, environment, history, progress
<1> DEFINE Kept ==
      /\ rows' \in [Providers -> Row] /\ pool' \in [Objects -> Provider]
      /\ banned' \in [Entries -> BOOLEAN] /\ checker' \in CheckRecord
      /\ checker'.phase \in {"found", "reported", "clearing"} => checker'.obj \in Objects
<1>4. Kept
  <2>1. CASE CheckStart
    <3>1. /\ UNCHANGED <<rows, pool, banned>>
          /\ checker' = [NoCheck EXCEPT !.phase = "walking", !.todo = {Current(e) : e \in listed}]
      BY <2>1 DEF CheckStart, history, progress
    <3>2. {Current(e) : e \in listed} \in SUBSET Objects
      BY <1>1, CurrentIsObject DEF TypeOK
    <3>3. checker' \in CheckRecord /\ checker'.phase = "walking"
      BY <3>1, <3>2 DEF NoCheck, CheckRecord, NoObject, Status
    <3> QED
      BY <1>1, <3>1, <3>3 DEF TypeOK
  <2>2. ASSUME NEW q \in checker.todo, Probe(q)
        PROVE  Kept
    <3>1. /\ UNCHANGED <<rows, pool, banned>>
          /\ checker' = [phase |-> "found", todo |-> checker.todo \ {q}, obj |-> q,
                         verdict |-> Verdict(world[q[1]])]
      BY <2>2 DEF Probe, history, progress
    <3>2. q \in Objects /\ q[1] \in Entries
      BY <1>1 DEF CheckRecord, Objects
    <3>3. Verdict(world[q[1]]) \in Status
      BY <1>1, <3>2, VerdictIsStatus DEF TypeOK
    <3> QED
      BY <1>1, <3>1, <3>2, <3>3 DEF TypeOK, CheckRecord
  <2>3. CASE CheckReport
    <3>1. /\ SetRowStatus(o[1], checker.verdict) /\ checker.phase = "found" /\ pool' = pool
          /\ checker' = [checker EXCEPT !.phase = "reported"]
          /\ banned' = [banned EXCEPT ![o[1]] = FALSE]
      BY <2>3 DEF CheckReport
    <3>2. rows' \in [Providers -> Row]
      BY <1>1, <1>2, <3>1, RowsStayRows DEF CheckRecord
    <3> QED
      BY <1>1, <1>2, <3>1, <3>2 DEF TypeOK, CheckRecord
  <2>4. CASE CheckMark
    <3>1. /\ Put(o, "status", checker.verdict) /\ checker.phase = "reported" /\ rows' = rows
          /\ checker' = [checker EXCEPT !.phase = "clearing"] \/ checker' = NextEntry
          /\ banned' = [banned EXCEPT ![o[1]] = FALSE]
      BY <2>4 DEF CheckMark
    <3>2. pool' \in [Objects -> Provider]
      BY <1>1, <1>2, <3>1, PutStatus DEF CheckRecord
    <3>3. checker' \in CheckRecord
          /\ (checker'.phase \in {"found", "reported", "clearing"} => checker'.obj \in Objects)
      BY <1>1, <1>2, <3>1, NextEntryFacts DEF CheckRecord
    <3> QED
      BY <1>1, <3>1, <3>2, <3>3 DEF TypeOK
  <2>5. CASE CheckClear
    <3>1. /\ pool' = [pool EXCEPT ![o] = [pool[o] EXCEPT !.fails = 0, !.backoff = FALSE]]
          /\ checker.phase = "clearing" /\ rows' = rows /\ checker' = NextEntry
          /\ banned' = [banned EXCEPT ![o[1]] = FALSE]
      BY <2>5 DEF CheckClear
    <3>2. [pool[o] EXCEPT !.fails = 0, !.backoff = FALSE] \in Provider
      BY <1>1, <1>2, <3>1, ObjectFields DEF TypeOK
    <3>3. pool' \in [Objects -> Provider]
      BY <1>1, <1>2, <3>1, <3>2 DEF TypeOK
    <3>4. checker' \in CheckRecord /\ checker'.phase \in {"idle", "walking"}
      BY <1>1, <3>1, NextEntryFacts
    <3> QED
      BY <1>1, <3>1, <3>3, <3>4 DEF TypeOK
  <2> QED
    BY <2>1, <2>2, <2>3, <2>4, <2>5 DEF CheckStep
<1>5. TypeOK'
  BY <1>1, <1>3, <1>4 DEF TypeOK, CheckRecord
<1>6. HandsInv'
  BY <1>1, <1>3, <1>4 DEF HandsInv, Reading
<1> QED
  BY <1>5, <1>6

LEMMA TimeTypes ==
  ASSUME TypeInv, NEW e \in Entries, BackoffEnds(e) \/ CoolingEnds(e) \/ ClearCooldown(e)
  PROVE  TypeOK' /\ HandsInv'
<1>1. TypeOK /\ HandsInv /\ Current(e) \in Objects
  BY CurrentIsObject DEF TypeInv
<1>2. UNCHANGED <<rows, listed, gen, req, checker, reload, world, shifts, edits, calls, refused,
                  lost, fresh, latest>>
  BY DEF BackoffEnds, CoolingEnds, ClearCooldown, environment, history, progress
<1>3. banned' = [banned EXCEPT ![e] = FALSE] \/ banned' = banned
  BY DEF BackoffEnds, CoolingEnds, ClearCooldown, history, progress
<1>4. pool' \in [Objects -> Provider]
  <2>1. CASE Put(Current(e), "backoff", FALSE)
    BY <1>1, <2>1, PutBackoff
  <2>2. CASE Put(Current(e), "cooling", FALSE)
    BY <1>1, <2>2, PutCooling
  <2> QED
    BY <2>1, <2>2 DEF BackoffEnds, CoolingEnds, ClearCooldown
<1>5. banned' \in [Entries -> BOOLEAN]
  BY <1>1, <1>3 DEF TypeOK
<1>6. TypeOK'
  BY <1>1, <1>2, <1>4, <1>5 DEF TypeOK
<1>7. HandsInv'
  BY <1>1, <1>2 DEF HandsInv, Reading
<1> QED
  BY <1>6, <1>7

\* The row an edit writes.
LEMMA EditsWriteRows ==
  ASSUME TypeOK, NEW p \in Providers,
         Disable(p) \/ Enable(p) \/ ChangeKey(p) \/ EditOther(p)
  PROVE  /\ banned' \in [Entries -> BOOLEAN]
         /\ banned' = [banned EXCEPT ![p] = FALSE]
              \/ (banned' = banned /\ Edit(p, rows[p]))
         /\ \E row \in Row : Edit(p, row)
<1>1. rows[p] \in Row
  BY DEF TypeOK
<1>2. CASE Disable(p)
  <2>1. [enabled |-> FALSE, status |-> "disabled"] \in Row
    BY DEF Row, Status
  <2> QED
    BY <1>2, <2>1 DEF Disable, TypeOK
<1>3. CASE Enable(p)
  <2>1. [rows[p] EXCEPT !.enabled = TRUE] \in Row
    BY <1>1 DEF Row
  <2> QED
    BY <1>3, <2>1 DEF Enable, TypeOK
<1>4. CASE ChangeKey(p)
  <2> DEFINE s == IF rows[p].status \in {"auth_failed", "dead"} THEN "unchecked" ELSE rows[p].status
             row == [rows[p] EXCEPT !.status = s]
  <2>1. s \in Status
    BY <1>1 DEF Row, Status
  <2>2. row \in Row
    BY <1>1, <2>1 DEF Row
  <2>3. Edit(p, row) /\ banned' = [banned EXCEPT ![p] = FALSE]
    BY <1>4 DEF ChangeKey
  <2> HIDE DEF row, s
  <2> QED
    BY <2>2, <2>3 DEF TypeOK
<1>5. CASE EditOther(p)
  BY <1>1, <1>5 DEF EditOther, TypeOK
<1> QED
  BY <1>2, <1>3, <1>4, <1>5

LEMMA RebornIsObject ==
  ASSUME TypeOK, NEW e \in Entries, NEW s \in Status
  PROVE  /\ Reborn(e, s) \in Provider
         /\ Reborn(e, s).status = s
         /\ e \in listed => /\ Reborn(e, s).fails = pool[Current(e)].fails
                            /\ Reborn(e, s).backoff = pool[Current(e)].backoff
         /\ e \notin listed => Reborn(e, s).fails = 0
<1>1. Current(e) \in Objects /\ pool[Current(e)] \in Provider
  BY CurrentIsObject DEF TypeOK
<1>2. pool[Current(e)].fails \in Nat /\ pool[Current(e)].backoff \in BOOLEAN
  BY <1>1 DEF Provider
<1> QED
  BY <1>2 DEF Reborn, NewObject, Provider

\* What a reload leaves in the pool.
LEMMA RefreshChanges ==
  ASSUME TypeInv, NEW a \in Reloaders, Refresh(a)
  PROVE  /\ reload[a].rows \in [Providers -> Row]
         /\ listed' = Enabled(reload[a].rows) /\ listed' \subseteq Providers
         /\ pool' \in [Objects -> Provider]
         /\ \A o \in Objects :
              \/ pool'[o] = pool[o]
              \/ /\ o[1] \in listed' /\ o[2] = gen + 1
                 /\ pool'[o] = Reborn(o[1], reload[a].rows[o[1]].status)
         /\ \A e \in listed' :
              /\ Current(e)' \in Objects
              /\ pool'[Current(e)'] = Reborn(e, reload[a].rows[e].status)
<1> DEFINE ids == Enabled(reload[a].rows)
           newborn(o) == Reborn(o[1], reload[a].rows[o[1]].status)
<1>1. TypeOK /\ reload[a].rows \in [Providers -> Row]
  BY DEF TypeInv, HandsInv, Refresh, Reading
<1>2. listed' = ids /\ ids \subseteq Providers /\ ids \subseteq Entries
  BY DEF Refresh, Enabled, Entries
<1>3. pool' = [o \in Objects |-> IF o[1] \in ids /\ o[2] = gen + 1 THEN newborn(o) ELSE pool[o]]
  BY DEF Refresh
<1>4. \A o \in Objects : o[1] \in ids => newborn(o) \in Provider
  BY <1>1, <1>2, RebornIsObject DEF Row
<1>5. pool \in [Objects -> Provider]
  BY <1>1 DEF TypeOK
<1>6. gen' = gen + 1 /\ gen + 1 \in Generations
  BY RefreshHasRoom
<1> HIDE DEF ids, newborn
<1>7. pool' \in [Objects -> Provider]
  BY <1>3, <1>4, <1>5
<1>8. \A o \in Objects :
        \/ pool'[o] = pool[o]
        \/ o[1] \in ids /\ o[2] = gen + 1 /\ pool'[o] = newborn(o)
  BY <1>3
<1>9. \A e \in ids : Current(e)' \in Objects /\ pool'[Current(e)'] = newborn(Current(e)')
  BY <1>2, <1>3, <1>6 DEF Current, Objects
<1> QED
  BY <1>1, <1>2, <1>7, <1>8, <1>9 DEF newborn, ids, Current

LEMMA ReloadTypes ==
  ASSUME TypeInv, NEW a \in Reloaders, ReloadStep(a), BudgetInv'
  PROVE  TypeOK' /\ HandsInv'
<1>1. TypeOK /\ HandsInv
  BY DEF TypeInv
<1>2. calls > 0 => calls - 1 \in 0..MaxEdits
  BY <1>1, ProviderPoolAssumption DEF TypeOK
<1>3. CASE LoadRows(a)
  <2>1. UNCHANGED <<rows, listed, gen, pool, req, checker, world, shifts, edits, refused, banned,
                    latest>> /\ calls > 0 /\ calls' = calls - 1
        /\ fresh' = fresh \cup {a} /\ lost' = FALSE
    BY <1>3 DEF LoadRows
  <2>2. reload' = [reload EXCEPT ![a] = [phase |-> "read", rows |-> rows]]
    BY <1>3 DEF LoadRows
  <2>3. TypeOK'
    BY <1>1, <1>2, <2>1, <2>2 DEF TypeOK
  <2>4. HandsInv'
    BY <1>1, <2>1, <2>2 DEF TypeOK, HandsInv, Reading
  <2> QED
    BY <2>3, <2>4
<1>4. CASE LoadFails(a)
  <2>1. UNCHANGED <<rows, listed, gen, pool, req, checker, reload, world, shifts, edits, refused,
                    banned, fresh, latest>> /\ calls > 0 /\ calls' = calls - 1 /\ lost' = TRUE
    BY <1>4 DEF LoadFails
  <2>2. TypeOK'
    BY <1>1, <1>2, <2>1 DEF TypeOK
  <2>3. HandsInv'
    BY <1>1, <2>1 DEF HandsInv, Reading
  <2> QED
    BY <2>2, <2>3
<1>5. CASE Refresh(a)
  <2>1. /\ UNCHANGED <<rows, req, checker, world, shifts, edits, calls, refused, banned, lost>>
        /\ reload' = [reload EXCEPT ![a] = NoReload]
        /\ fresh' \subseteq fresh /\ latest' \in {"none", "installed", "overtaken"}
    BY <1>5 DEF Refresh, Installed, environment
  <2>2. gen' \in Generations
    BY <1>5, RefreshHasRoom
  <2>3. listed' \subseteq Entries /\ pool' \in [Objects -> Provider]
    BY <1>5, RefreshChanges DEF Entries
  <2>4. TypeOK'
    BY <1>1, <2>1, <2>2, <2>3 DEF TypeOK, NoReload, NoObject
  <2>5. HandsInv'
    BY <1>1, <2>1 DEF TypeOK, HandsInv, Reading, NoReload
  <2> QED
    BY <2>4, <2>5
<1> QED
  BY <1>3, <1>4, <1>5 DEF ReloadStep

LEMMA TypeStep ==
  ASSUME TypeInv, [Next]_vars
  PROVE  TypeInv'
<1>1. TypeOK /\ HandsInv /\ BudgetInv'
  BY BudgetStep DEF TypeInv
<1>2. CASE UNCHANGED vars
  BY <1>1, <1>2 DEF TypeInv, TypeOK, HandsInv, Reading, vars, environment, history, progress
<1>3. CASE \E r \in Requests : Answer(r) \/ \E e \in Entries : Select(r, e)
  BY <1>1, <1>3, RequestTypes DEF TypeInv
<1>4. CASE \E e \in Entries : BackoffEnds(e) \/ CoolingEnds(e) \/ ClearCooldown(e)
  BY <1>1, <1>4, TimeTypes DEF TypeInv
<1>5. CASE CheckStep
  BY <1>1, <1>5, CheckerTypes DEF TypeInv
<1>6. CASE \E p \in Providers : Disable(p) \/ Enable(p) \/ ChangeKey(p) \/ EditOther(p)
  <2>1. PICK p \in Providers : Disable(p) \/ Enable(p) \/ ChangeKey(p) \/ EditOther(p)
    BY <1>6
  <2>2. PICK row \in Row : Edit(p, row)
    BY <1>1, <2>1, EditsWriteRows
  <2>3. banned' \in [Entries -> BOOLEAN]
    BY <1>1, <2>1, EditsWriteRows
  <2> QED
    BY <1>1, <2>2, <2>3, EditKeepsTypes DEF TypeInv
<1>7. CASE \E a \in Reloaders : ReloadStep(a)
  BY <1>1, <1>7, ReloadTypes DEF TypeInv
<1>8. ASSUME NEW e \in Entries, NEW w \in Conditions, Shift(e, w)
      PROVE  TypeInv'
  <2>1. UNCHANGED <<rows, listed, gen, pool, req, checker, reload, edits, calls, refused, banned,
                    lost, fresh, latest>>
        /\ shifts < MaxShifts /\ shifts' = shifts + 1 /\ world' = [world EXCEPT ![e] = w]
    BY <1>8 DEF Shift, history, progress
  <2>2. TypeOK'
    BY <1>1, <2>1, ProviderPoolAssumption DEF TypeOK
  <2>3. HandsInv'
    BY <1>1, <2>1 DEF HandsInv, Reading
  <2> QED
    BY <1>1, <2>2, <2>3 DEF TypeInv
<1> QED
  BY <1>2, <1>3, <1>4, <1>5, <1>6, <1>7, <1>8 DEF Next, AdminStep

-----------------------------------------------------------------------------
(* The failure counts. *)

LEMMA CountTypes ==
  ASSUME TypeInv
  PROVE  /\ \A e \in Entries : refused[e] \in Nat
         /\ \A o \in Objects : o[1] \in Entries /\ pool[o] \in Provider /\ pool[o].fails \in Nat
         /\ \A r \in Requests : req[r].seen \in Nat
  BY ProviderPoolAssumption DEF TypeInv, TypeOK, Objects, Provider

\* Only a refusal is put on record, and none is taken off it.
LEMMA RecordGrows ==
  ASSUME TypeInv, [Next]_vars, NEW e \in Entries
  PROVE  refused[e] <= refused'[e]
<1>1. refused[e] \in Nat
  BY CountTypes
<1>2. CASE refused' = refused
  BY <1>1, <1>2
<1>3. ASSUME NEW r \in Requests, AnswerRefused(r)
      PROVE  refused[e] <= refused'[e]
  <2>1. refused' = [refused EXCEPT ![req[r].obj[1]] = refused[req[r].obj[1]] + 1]
    BY <1>3 DEF AnswerRefused
  <2> QED
    BY <1>1, <2>1 DEF TypeInv, TypeOK
<1>4. refused' = refused \/ \E r \in Requests : AnswerRefused(r)
  BY DEF vars, Next, Answer, Select, AnswerPlain, AnswerExhausted, CountFailure,
         RaiseBackoff, MarkRefused, ReportRefused, BackoffEnds, CoolingEnds, ClearCooldown,
         CheckStep, CheckStart, Probe, CheckReport, CheckMark, CheckClear, AdminStep, Disable,
         Enable, ChangeKey, EditOther, Edit, ReloadStep, LoadRows, LoadFails, Refresh, Installed,
         Shift, history
<1> QED
  BY <1>2, <1>3, <1>4

\* Who changes a failure count: a request that counts, the checker that
\* clears, and the reload that copies the count of the listed object.
LEMMA CountsChange ==
  ASSUME TypeInv, [Next]_vars, NEW o \in Objects
  PROVE  \/ pool'[o].fails = pool[o].fails
         \/ pool'[o].fails = 0
         \/ \E r \in Requests :
              req[r].phase = "counting" /\ o = req[r].obj /\ pool'[o].fails = req[r].seen + 1
         \/ \E q \in Objects : q[1] = o[1] /\ pool'[o].fails = pool[q].fails
<1> DEFINE Goal == \/ pool'[o].fails = pool[o].fails
                   \/ pool'[o].fails = 0
                   \/ \E r \in Requests :
                        req[r].phase = "counting" /\ o = req[r].obj
                          /\ pool'[o].fails = req[r].seen + 1
                   \/ \E q \in Objects : q[1] = o[1] /\ pool'[o].fails = pool[q].fails
<1>1. TypeOK /\ HandsInv
  BY DEF TypeInv
<1>2. CASE pool' = pool
  BY <1>2
<1>3. ASSUME NEW q \in Objects, NEW s \in Status, Put(q, "status", s) PROVE Goal
  BY <1>1, <1>3, PutStatus
<1>4. ASSUME NEW q \in Objects, NEW b \in BOOLEAN,
             Put(q, "backoff", b) \/ Put(q, "cooling", b)
      PROVE  Goal
  BY <1>1, <1>4, PutBackoff, PutCooling
<1>5. ASSUME NEW r \in Requests, Answer(r) PROVE Goal
  <2>1. req[r].phase # "idle" => req[r].obj \in Objects
    BY <1>1 DEF HandsInv
  <2>2. CASE CountFailure(r)
    <3>1. /\ req[r].phase = "counting" /\ req[r].obj \in Objects
          /\ Put(req[r].obj, "fails", req[r].seen + 1)
      BY <2>1, <2>2 DEF CountFailure
    <3>2. req[r].seen + 1 \in Nat
      BY CountTypes
    <3>3. /\ pool'[req[r].obj].fails = req[r].seen + 1
          /\ \A q \in Objects : q # req[r].obj => pool'[q] = pool[q]
      BY <1>1, <3>1, <3>2, PutFails
    <3> QED
      BY <3>1, <3>3
  <2>3. CASE AnswerExhausted(r)
    <3>1. req[r].obj \in Objects /\ Put(req[r].obj, "cooling", TRUE)
      BY <2>1, <2>3 DEF AnswerExhausted
    <3> QED
      BY <1>4, <3>1
  <2>4. CASE RaiseBackoff(r)
    <3>1. req[r].obj \in Objects /\ Put(req[r].obj, "backoff", TRUE)
      BY <2>1, <2>4 DEF RaiseBackoff
    <3> QED
      BY <1>4, <3>1
  <2>5. CASE MarkRefused(r)
    <3>1. req[r].obj \in Objects /\ Put(req[r].obj, "status", "auth_failed")
      BY <2>1, <2>5 DEF MarkRefused
    <3> QED
      BY <1>3, <3>1 DEF Status
  <2>6. CASE AnswerPlain(r) \/ AnswerRefused(r) \/ ReportRefused(r)
    BY <1>2, <2>6 DEF AnswerPlain, AnswerRefused, ReportRefused
  <2> QED
    BY <1>5, <2>2, <2>3, <2>4, <2>5, <2>6 DEF Answer
<1>6. ASSUME NEW e \in Entries, BackoffEnds(e) \/ CoolingEnds(e) \/ ClearCooldown(e)
      PROVE  Goal
  BY <1>1, <1>4, <1>6, CurrentIsObject DEF BackoffEnds, CoolingEnds, ClearCooldown
<1>7. CASE CheckStep
  <2>1. CASE CheckMark
    <3>1. /\ checker.obj \in Objects /\ checker.verdict \in Status
          /\ Put(checker.obj, "status", checker.verdict)
      BY <1>1, <2>1 DEF CheckMark, HandsInv, TypeOK
    <3> QED
      BY <1>3, <3>1
  <2>2. CASE CheckClear
    <3> DEFINE d == [pool[checker.obj] EXCEPT !.fails = 0, !.backoff = FALSE]
    <3>1. checker.obj \in Objects /\ pool' = [pool EXCEPT ![checker.obj] = d]
      BY <1>1, <2>2 DEF CheckClear, HandsInv
    <3>2. d.fails = 0
      BY <3>1, CountTypes DEF Provider
    <3> HIDE DEF d
    <3> QED
      BY <1>1, <3>1, <3>2 DEF TypeOK
  <2> QED
    BY <1>2, <1>7, <2>1, <2>2 DEF CheckStep, CheckStart, Probe, CheckReport, history, progress
<1>8. ASSUME NEW a \in Reloaders, Refresh(a) PROVE Goal
  <2>1. CASE pool'[o] = pool[o]
    BY <2>1
  <2>2. CASE o[1] \in listed' /\ pool'[o] = Reborn(o[1], reload[a].rows[o[1]].status)
    <3>1. o[1] \in Entries /\ o[1] \in Providers
      BY <1>8, <2>2, RefreshChanges, CountTypes
    <3>2. reload[a].rows[o[1]].status \in Status
      BY <1>8, <3>1, RefreshChanges DEF Row
    <3>3. pool'[o].fails = 0 \/ pool'[o].fails = pool[Current(o[1])].fails
      BY <1>1, <2>2, <3>1, <3>2, RebornIsObject
    <3>4. Current(o[1]) \in Objects /\ Current(o[1])[1] = o[1]
      BY <1>1, <3>1, CurrentIsObject DEF Current
    <3> QED
      BY <3>3, <3>4
  <2> QED
    BY <1>8, <2>1, <2>2, RefreshChanges
<1>9. \/ pool' = pool
      \/ \E r \in Requests : Answer(r)
      \/ \E e \in Entries : BackoffEnds(e) \/ CoolingEnds(e) \/ ClearCooldown(e)
      \/ CheckStep
      \/ \E a \in Reloaders : Refresh(a)
  BY DEF Next, vars, Select, AdminStep, Disable, Enable, ChangeKey, EditOther, Edit, ReloadStep,
         LoadRows, LoadFails, Shift
<1> QED
  BY <1>2, <1>5, <1>6, <1>7, <1>8, <1>9

LEMMA EarnedStep ==
  ASSUME IInv, [Next]_vars
  PROVE  EscalationIsEarned'
<1> SUFFICES ASSUME NEW o \in Objects PROVE pool'[o].fails <= refused'[o[1]]
  BY DEF EscalationIsEarned
<1>1. TypeInv /\ EscalationIsEarned /\ CountInv /\ HandsInv
  BY DEF IInv, TypeInv
<1>2. /\ o[1] \in Entries /\ refused[o[1]] <= refused'[o[1]]
      /\ refused[o[1]] \in Nat /\ refused'[o[1]] \in Nat
  BY <1>1, CountTypes, RecordGrows, TypeStep, ProviderPoolAssumption DEF TypeInv, TypeOK
<1>3. ASSUME NEW q \in Objects, q[1] = o[1], pool'[o].fails = pool[q].fails
      PROVE  pool'[o].fails <= refused'[o[1]]
  <2>1. pool[q].fails <= refused[o[1]] /\ pool[q].fails \in Nat
    BY <1>1, <1>3, CountTypes DEF EscalationIsEarned
  <2> QED
    BY <1>2, <1>3, <2>1
<1>4. ASSUME NEW r \in Requests, req[r].phase = "counting", o = req[r].obj,
             pool'[o].fails = req[r].seen + 1
      PROVE  pool'[o].fails <= refused'[o[1]]
  <2>1. req[r].seen < refused[o[1]] /\ req[r].seen \in Nat
    BY <1>1, <1>4, CountTypes DEF CountInv
  <2> QED
    BY <1>2, <1>4, <2>1
<1> QED
  BY <1>1, <1>2, <1>3, <1>4, CountsChange

\* How a request comes to its counting phase.
LEMMA CountStep ==
  ASSUME IInv, [Next]_vars
  PROVE  CountInv'
<1> SUFFICES ASSUME NEW r \in Requests, req'[r].phase = "counting"
             PROVE  req'[r].seen < refused'[req'[r].obj[1]]
  BY DEF CountInv
<1>1. TypeInv /\ TypeOK /\ EscalationIsEarned /\ CountInv /\ HandsInv
  BY DEF IInv, TypeInv
<1>2. CASE req'[r] = req[r]
  <2>1. req[r].obj[1] \in Entries /\ req[r].seen \in Nat /\ req[r].seen < refused[req[r].obj[1]]
    BY <1>1, <1>2, CountTypes DEF CountInv, HandsInv
  <2>2. /\ refused[req[r].obj[1]] <= refused'[req[r].obj[1]]
        /\ refused[req[r].obj[1]] \in Nat /\ refused'[req[r].obj[1]] \in Nat
    BY <1>1, <2>1, CountTypes, RecordGrows, TypeStep, ProviderPoolAssumption DEF TypeInv, TypeOK
  <2> QED
    BY <1>2, <2>1, <2>2
<1>3. CASE AnswerRefused(r)
  <2> DEFINE o == req[r].obj
  <2>1. /\ req' = [req EXCEPT ![r] = [req[r] EXCEPT !.phase = "counting", !.seen = pool[o].fails]]
        /\ refused' = [refused EXCEPT ![o[1]] = refused[o[1]] + 1]
        /\ o \in Objects
    BY <1>1, <1>3 DEF AnswerRefused, HandsInv
  <2>2. req'[r].seen = pool[o].fails /\ req'[r].obj = o
    BY <1>1, <2>1 DEF TypeOK
  <2>3. refused'[o[1]] = refused[o[1]] + 1
    BY <1>1, <2>1, CountTypes DEF TypeOK
  <2>4. pool[o].fails <= refused[o[1]] /\ pool[o].fails \in Nat /\ refused[o[1]] \in Nat
    BY <1>1, <2>1, CountTypes DEF EscalationIsEarned
  <2> QED
    BY <2>2, <2>3, <2>4
<1>4. req'[r] = req[r] \/ AnswerRefused(r)
  <2>1. CASE \E e \in Entries : Select(r, e)
    BY <1>1, <2>1 DEF Select, TypeOK
  <2>2. CASE Answer(r)
    <3>1. CASE AnswerPlain(r) \/ AnswerExhausted(r) \/ ReportRefused(r)
      <4>1. req' = [req EXCEPT ![r] = NoRequest]
        BY <3>1 DEF AnswerPlain, AnswerExhausted, ReportRefused
      <4> QED
        BY <1>1, <4>1 DEF NoRequest, TypeOK
    <3>2. CASE CountFailure(r) \/ RaiseBackoff(r) \/ MarkRefused(r)
      <4>1. PICK ph \in {"raising", "marking", "reporting"} : req' = [req EXCEPT ![r].phase = ph]
        BY <3>2 DEF CountFailure, RaiseBackoff, MarkRefused
      <4>2. req'[r].phase = ph
        BY <1>1, <4>1 DEF TypeOK
      <4> QED
        BY <4>2
    <3> QED
      BY <2>2, <3>1, <3>2 DEF Answer
  <2>3. ASSUME NEW s \in Requests, s # r, Answer(s) \/ \E e \in Entries : Select(s, e)
        PROVE  req'[r] = req[r]
    BY <1>1, <2>3 DEF Answer, Select, AnswerPlain, AnswerExhausted, AnswerRefused, CountFailure,
                      RaiseBackoff, MarkRefused, ReportRefused, TypeOK
  <2>4. req' = req \/ \E s \in Requests : Answer(s) \/ \E e \in Entries : Select(s, e)
    BY DEF vars, Next, BackoffEnds, CoolingEnds, ClearCooldown,
         CheckStep, CheckStart, Probe, CheckReport, CheckMark, CheckClear, AdminStep, Disable,
         Enable, ChangeKey, EditOther, Edit, ReloadStep, LoadRows, LoadFails, Refresh, Shift
  <2>5. CASE req' = req
    BY <2>5
  <2>6. ASSUME NEW s \in Requests, Answer(s) \/ \E e \in Entries : Select(s, e)
        PROVE  req'[r] = req[r] \/ AnswerRefused(r)
    <3>1. CASE s = r
      BY <2>1, <2>2, <2>6, <3>1
    <3>2. CASE s # r
      BY <2>3, <2>6, <3>2
    <3> QED
      BY <3>1, <3>2
  <2> QED
    BY <2>4, <2>5, <2>6
<1> QED
  BY <1>2, <1>3, <1>4

-----------------------------------------------------------------------------
(* The refusals on record. *)

\* What does not touch the rows and the list leaves a refusal on file, as long
\* as the listed object still says so.
LEMMA FileKeeps ==
  ASSUME NEW e \in Entries, OnFile(e), UNCHANGED <<listed, gen, reload>>,
         e \in Providers => rows'[e] = rows[e],
         pool'[Current(e)].status \in {pool[Current(e)].status, "auth_failed"},
         pool[Current(e)].backoff => pool'[Current(e)].backoff
  PROVE  OnFile(e)'
<1>1. Current(e)' = Current(e) /\ \A a \in Reloaders : Reading(a)' = Reading(a)
  BY DEF Current, Reading
<1> QED
  BY <1>1 DEF OnFile

LEMMA RequestFiles ==
  ASSUME IInv, NEW e \in Entries, banned'[e], NEW r \in Requests,
         Answer(r) \/ \E d \in Entries : Select(r, d)
  PROVE  OnFile(e)'
<1> DEFINE o == req[r].obj
<1>1. TypeOK /\ HandsInv /\ BanInv /\ Current(e) \in Objects
  BY CurrentIsObject DEF IInv, TypeInv
<1>2. req[r].phase # "idle" => o \in Objects /\ o[1] \in Entries
  BY <1>1 DEF HandsInv, Objects
<1>3. CASE (\E d \in Entries : Select(r, d)) \/ AnswerPlain(r) \/ AnswerRefused(r)
  <2>1. UNCHANGED <<rows, listed, gen, pool, reload, banned>>
    BY <1>3 DEF Select, AnswerPlain, AnswerRefused, environment, history, progress
  <2>2. OnFile(e)
    BY <1>1, <2>1 DEF BanInv
  <2> QED
    BY <2>1, <2>2, FileKeeps
<1>4. CASE AnswerExhausted(r) \/ CountFailure(r) \/ RaiseBackoff(r) \/ MarkRefused(r)
  <2>1. UNCHANGED <<rows, listed, gen, reload, banned>>
    BY <1>4 DEF AnswerExhausted, CountFailure, RaiseBackoff, MarkRefused, environment, history, progress
  <2>2. OnFile(e) /\ o \in Objects
    BY <1>1, <1>2, <1>4, <2>1
       DEF BanInv, AnswerExhausted, CountFailure, RaiseBackoff, MarkRefused
  <2>3. /\ pool'[Current(e)].status \in {pool[Current(e)].status, "auth_failed"}
        /\ pool[Current(e)].backoff => pool'[Current(e)].backoff
    <3>1. CASE Put(o, "cooling", TRUE)
      BY <1>1, <2>2, <3>1, PutCooling
    <3>2. CASE Put(o, "fails", req[r].seen + 1)
      <4>1. req[r].seen + 1 \in Nat
        BY CountTypes DEF IInv
      <4> QED
        BY <1>1, <2>2, <3>2, <4>1, PutFails
    <3>3. CASE Put(o, "backoff", TRUE)
      BY <1>1, <2>2, <3>3, PutBackoff
    <3>4. CASE Put(o, "status", "auth_failed")
      BY <1>1, <2>2, <3>4, PutStatus DEF Status
    <3> QED
      BY <1>4, <3>1, <3>2, <3>3, <3>4
         DEF AnswerExhausted, CountFailure, RaiseBackoff, MarkRefused
  <2> QED
    BY <2>1, <2>2, <2>3, FileKeeps
<1>5. CASE ReportRefused(r)
  <2>1. /\ SetRowStatus(o[1], "auth_failed") /\ req[r].phase = "reporting"
        /\ banned' = [banned EXCEPT ![o[1]] = banned[o[1]] \/ (OnRecord(o) /\ rows'[o[1]].status = "auth_failed")]
        /\ UNCHANGED <<listed, gen, pool, reload>>
    BY <1>5 DEF ReportRefused
  <2>2. o \in Objects /\ o[1] \in Entries
    BY <1>2, <2>1
  <2>3. banned[e] \/ (e = o[1] /\ OnRecord(o) /\ rows'[e].status = "auth_failed")
    <3>1. CASE e = o[1]
      <4>1. banned'[e] = (banned[o[1]] \/ (OnRecord(o) /\ rows'[o[1]].status = "auth_failed"))
        BY <1>1, <2>1, <2>2, <3>1 DEF TypeOK
      <4> QED
        BY <3>1, <4>1
    <3>2. CASE e # o[1]
      BY <1>1, <2>1, <3>2 DEF TypeOK
    <3> QED
      BY <3>1, <3>2
  <2>4. CASE banned[e]
    <3>1. OnFile(e)
      BY <1>1, <2>4 DEF BanInv
    <3>2. rows[e] \in Row /\ rows[e].status = "auth_failed" /\ e \in Providers
      BY <1>1, <3>1 DEF TypeOK, OnFile
    <3>3. [rows[e] EXCEPT !.status = "auth_failed"] = rows[e]
      BY <3>2 DEF Row
    <3>4. rows'[e] = rows[e]
      BY <2>1, <3>2, <3>3 DEF SetRowStatus
    <3> QED
      BY <2>1, <3>1, <3>4, FileKeeps
  <2>5. CASE e = o[1] /\ OnRecord(o) /\ rows'[e].status = "auth_failed"
    <3>1. /\ e \in Providers /\ e \in listed /\ o = Current(e)
          /\ pool[o].status = "auth_failed" /\ pool[o].backoff
          /\ \A a \in Reloaders : ~Reading(a)
      BY <2>5 DEF OnRecord, Reading
    <3>2. rows[e] \in Row
      BY <1>1, <3>1 DEF TypeOK
    <3>3. rows'[e].status = "auth_failed"
      BY <2>5
    <3>4. Current(e)' = Current(e) /\ pool' = pool /\ listed' = listed
          /\ \A a \in Reloaders : ~Reading(a)'
      BY <2>1, <3>1 DEF Current, Reading
    <3> QED
      BY <3>1, <3>3, <3>4 DEF OnFile
  <2> QED
    BY <2>3, <2>4, <2>5
<1> QED
  BY <1>3, <1>4, <1>5 DEF Answer

LEMMA TimeFiles ==
  ASSUME IInv, NEW e \in Entries, banned'[e], NEW d \in Entries,
         BackoffEnds(d) \/ CoolingEnds(d) \/ ClearCooldown(d)
  PROVE  OnFile(e)'
<1>1. TypeOK /\ BanInv /\ Current(e) \in Objects /\ Current(d) \in Objects
  BY CurrentIsObject DEF IInv, TypeInv
<1>2. UNCHANGED <<rows, listed, gen, reload>>
  BY DEF BackoffEnds, CoolingEnds, ClearCooldown
<1>3. CASE BackoffEnds(d)
  <2>1. /\ Put(Current(d), "backoff", FALSE) /\ banned' = [banned EXCEPT ![d] = FALSE]
    BY <1>3 DEF BackoffEnds
  <2>2. e # d /\ banned[e]
    BY <1>1, <2>1 DEF TypeOK
  <2>3. pool'[Current(e)] = pool[Current(e)]
    BY <1>1, <2>1, <2>2, PutBackoff DEF Current
  <2>4. OnFile(e)
    BY <1>1, <2>2 DEF BanInv
  <2> QED
    BY <1>2, <2>3, <2>4, FileKeeps
<1>4. CASE CoolingEnds(d) \/ ClearCooldown(d)
  <2>1. Put(Current(d), "cooling", FALSE) /\ banned' = banned
    BY <1>4 DEF CoolingEnds, ClearCooldown, history, progress
  <2>2. /\ pool'[Current(e)].status = pool[Current(e)].status
        /\ pool'[Current(e)].backoff = pool[Current(e)].backoff
    BY <1>1, <2>1, PutCooling
  <2>3. OnFile(e)
    BY <1>1, <2>1 DEF BanInv
  <2> QED
    BY <1>2, <2>2, <2>3, FileKeeps
<1> QED
  BY <1>3, <1>4

LEMMA CheckerFiles ==
  ASSUME IInv, NEW e \in Entries, banned'[e], CheckStep
  PROVE  OnFile(e)'
<1> DEFINE o == checker.obj
<1>1. TypeOK /\ HandsInv /\ BanInv /\ Current(e) \in Objects
  BY CurrentIsObject DEF IInv, TypeInv
<1>2. UNCHANGED <<listed, gen, reload>>
  BY DEF CheckStep, CheckStart, Probe, CheckReport, CheckMark, CheckClear
<1>3. CASE CheckStart \/ \E q \in checker.todo : Probe(q)
  <2>1. UNCHANGED <<rows, pool, banned>>
    BY <1>3 DEF CheckStart, Probe, history, progress
  <2>2. OnFile(e)
    BY <1>1, <2>1 DEF BanInv
  <2> QED
    BY <1>2, <2>1, <2>2, FileKeeps
<1>4. CASE CheckReport \/ CheckMark \/ CheckClear
  <2>1. o \in Objects /\ o[1] \in Entries /\ banned' = [banned EXCEPT ![o[1]] = FALSE]
    BY <1>1, <1>4 DEF CheckReport, CheckMark, CheckClear, HandsInv, Objects
  <2>2. e # o[1] /\ banned[e] /\ Current(e) # o
    BY <1>1, <2>1 DEF TypeOK, Current
  <2>3. OnFile(e)
    BY <1>1, <2>2 DEF BanInv
  <2>4. e \in Providers => rows'[e] = rows[e]
    BY <1>4, <2>2 DEF CheckReport, CheckMark, CheckClear, SetRowStatus
  <2>5. pool'[Current(e)] = pool[Current(e)]
    <3>1. CASE CheckReport
      BY <3>1 DEF CheckReport
    <3>2. CASE CheckMark
      <4>1. Put(o, "status", checker.verdict) /\ checker.verdict \in Status
        BY <1>1, <3>2 DEF CheckMark, TypeOK
      <4> QED
        BY <1>1, <2>1, <2>2, <4>1, PutStatus
    <3>3. CASE CheckClear
      <4>1. pool' = [pool EXCEPT ![o] = [pool[o] EXCEPT !.fails = 0, !.backoff = FALSE]]
        BY <3>3 DEF CheckClear
      <4> QED
        BY <1>1, <2>2, <4>1 DEF TypeOK
    <3> QED
      BY <1>4, <3>1, <3>2, <3>3
  <2> QED
    BY <1>2, <2>3, <2>4, <2>5, FileKeeps
<1> QED
  BY <1>3, <1>4 DEF CheckStep

LEMMA EditFiles ==
  ASSUME IInv, NEW e \in Entries, banned'[e], NEW p \in Providers,
         Disable(p) \/ Enable(p) \/ ChangeKey(p) \/ EditOther(p)
  PROVE  OnFile(e)'
<1>1. TypeOK /\ BanInv /\ p \in Entries
  BY EntriesAreApart DEF IInv, TypeInv
<1>2. PICK row \in Row : Edit(p, row)
  BY <1>1, EditsWriteRows
<1>3. UNCHANGED <<listed, gen, pool, reload>> /\ rows' = [rows EXCEPT ![p] = row]
  BY <1>2 DEF Edit
<1>4. CASE banned' = [banned EXCEPT ![p] = FALSE]
  <2>1. e # p /\ banned[e]
    BY <1>1, <1>4 DEF TypeOK
  <2>2. OnFile(e) /\ (e \in Providers => rows'[e] = rows[e])
    BY <1>1, <1>3, <2>1 DEF TypeOK, BanInv
  <2> QED
    BY <1>3, <2>2, FileKeeps
<1>5. CASE banned' = banned /\ Edit(p, rows[p])
  <2>1. OnFile(e)
    BY <1>1, <1>5 DEF BanInv
  <2>2. e \in Providers => rows'[e] = rows[e]
    BY <1>1, <1>5 DEF Edit, TypeOK
  <2> QED
    BY <1>3, <2>1, <2>2, FileKeeps
<1> QED
  BY <1>1, <1>4, <1>5, EditsWriteRows

LEMMA ReloadFiles ==
  ASSUME IInv, NEW e \in Entries, banned'[e], NEW a \in Reloaders, ReloadStep(a)
  PROVE  OnFile(e)'
<1>1. TypeInv /\ TypeOK
  BY DEF IInv, TypeInv
<1>2. OnFile(e) /\ UNCHANGED <<rows, banned>>
  BY DEF IInv, BanInv, ReloadStep, LoadRows, LoadFails, Refresh, Installed, history, progress
<1>3. CASE LoadRows(a)
  <2>1. UNCHANGED <<listed, gen, pool>>
    BY <1>3 DEF LoadRows
  <2>2. /\ reload'[a].rows = rows
        /\ \A b \in Reloaders : b # a => reload'[b] = reload[b]
    BY <1>1, <1>3, LoadAddsReader
  <2>3. \A b \in Reloaders : Reading(b)' => reload'[b].rows[e] = rows[e]
    BY <1>2, <2>2 DEF OnFile, Reading
  <2>4. Current(e)' = Current(e)
    BY <2>1 DEF Current
  <2> QED
    BY <1>2, <2>1, <2>3, <2>4 DEF OnFile
<1>4. CASE LoadFails(a)
  <2>1. UNCHANGED <<rows, listed, gen, pool, reload>>
    BY <1>4 DEF LoadFails
  <2> QED
    BY <1>2, <2>1, FileKeeps
<1>5. CASE Refresh(a)
  <2>1. /\ reload'[a] = NoReload /\ Reading(a)
        /\ \A b \in Reloaders : b # a => reload'[b] = reload[b]
    BY <1>1, <1>5, RefreshEndsReader DEF Readers
  <2>2. \A b \in Reloaders : Reading(b)' => reload'[b].rows[e] = rows[e]
    BY <1>2, <2>1 DEF OnFile, Reading, NoReload
  <2>3. e \in Providers /\ reload[a].rows[e] = rows[e] /\ rows[e].status = "auth_failed"
    BY <1>2, <2>1 DEF OnFile
  <2>4. listed' = Enabled(reload[a].rows)
    BY <1>1, <1>5, RefreshChanges
  <2>5. e \notin listed' => ~rows[e].enabled
    BY <2>3, <2>4 DEF Enabled
  <2>6. ASSUME e \in listed'
        PROVE  pool'[Current(e)'].status = "auth_failed" /\ pool'[Current(e)'].backoff
    <3>1. e \in listed /\ pool[Current(e)].backoff
      BY <1>2, <2>3, <2>4, <2>6 DEF Enabled, OnFile
    <3>2. pool'[Current(e)'] = Reborn(e, "auth_failed")
      BY <1>1, <1>5, <2>3, <2>6, RefreshChanges
    <3> QED
      BY <1>1, <3>1, <3>2, RebornIsObject DEF Status
  <2> QED
    BY <1>2, <2>2, <2>3, <2>5, <2>6 DEF OnFile
<1> QED
  BY <1>3, <1>4, <1>5 DEF ReloadStep

LEMMA BanStep ==
  ASSUME IInv, [Next]_vars
  PROVE  BanInv'
<1> SUFFICES ASSUME NEW e \in Entries, banned'[e] PROVE OnFile(e)'
  BY DEF BanInv
<1>1. CASE UNCHANGED vars \/ \E d \in Entries, w \in Conditions : Shift(d, w)
  <2>1. UNCHANGED <<rows, listed, gen, pool, reload, banned>>
    BY <1>1 DEF vars, Shift, history, progress
  <2>2. OnFile(e)
    BY <2>1 DEF IInv, BanInv
  <2> QED
    BY <2>1, <2>2, FileKeeps
<1> QED
  BY <1>1, RequestFiles, TimeFiles, CheckerFiles, EditFiles, ReloadFiles DEF Next, AdminStep

-----------------------------------------------------------------------------
(* The invariant and what follows from it. *)

LEMMA InitIInv == Init => IInv
<1> SUFFICES ASSUME Init PROVE IInv
  OBVIOUS
<1>1. TypeInv
  BY InitTypeInv
<1>2. EscalationIsEarned
  <2> SUFFICES ASSUME NEW o \in Objects PROVE pool[o].fails <= refused[o[1]]
    BY DEF EscalationIsEarned
  <2>1. pool[o].fails = 0 /\ refused[o[1]] = 0
    BY DEF Init, NewObject, Objects
  <2> QED
    BY <2>1
<1>3. CountInv /\ BanInv
  BY DEF Init, CountInv, BanInv, NoRequest
<1> QED
  BY <1>1, <1>2, <1>3 DEF IInv

\* The inductive invariant of the pool: types, held objects, a bounded number
\* of reloads, failure counts below the refusals, and refusals on file
\* (router.go, models.go, health_checker.go, handlers.go).
THEOREM Invariance == Spec => []IInv
<1>1. Init => IInv
  BY InitIInv
<1>2. IInv /\ [Next]_vars => IInv'
  BY TypeStep, EarnedStep, CountStep, BanStep DEF IInv
<1> QED
  BY <1>1, <1>2, PTL DEF Spec

\* The state of the router, the objects, the checker and the reloads keeps its
\* type, however many reloads and requests overlap (router.go, models.go).
THEOREM PoolTypes == Spec => []TypeOK
<1>1. IInv => TypeOK
  BY DEF IInv, TypeInv
<1> QED
  BY <1>1, Invariance, PTL

\* No backoff is longer than the refusals of the upstream explain, although
\* SetAuthFailBackoff (models.go) loads and stores its count in two steps and
\* RefreshProviders (router.go) copies it.
THEOREM BackoffIsEarned == Spec => []EscalationIsEarned
<1>1. IInv => EscalationIsEarned
  BY DEF IInv
<1> QED
  BY <1>1, Invariance, PTL

\* A refused key that is on record keeps its provider out of the schedule
\* through any number of reloads (RefreshProviders of router.go, IsAvailable of
\* models.go), however many of them overlap.
THEOREM BannedIsOut == Spec => []BannedStaysOut
<1>1. IInv => BannedStaysOut
  BY DEF IInv, TypeInv, TypeOK, BanInv, OnFile, BannedStaysOut, Available
<1> QED
  BY <1>1, Invariance, PTL

-----------------------------------------------------------------------------
(* What reloads install. *)

LEMMA EnabledStays ==
  ASSUME TypeInv, [Next]_vars, edits' = edits
  PROVE  Enabled(rows') = Enabled(rows)
<1>1. CASE rows' = rows
  BY <1>1
<1>2. CASE \E e, s : SetRowStatus(e, s)
  BY <1>2 DEF SetRowStatus, Enabled, TypeInv, TypeOK, Row
<1>3. rows' = rows \/ (\E e, s : SetRowStatus(e, s)) \/ \E p \in Providers : \E row : Edit(p, row)
  BY DEF vars, Next, Answer, Select, AnswerPlain, AnswerExhausted, AnswerRefused,
         CountFailure, RaiseBackoff, MarkRefused, ReportRefused, BackoffEnds, CoolingEnds,
         ClearCooldown, CheckStep, CheckStart, Probe, CheckReport, CheckMark, CheckClear,
         AdminStep, Disable, Enable, ChangeKey, EditOther, ReloadStep, LoadRows,
         LoadFails, Refresh, Shift
<1>4. ASSUME NEW p \in Providers, NEW row, Edit(p, row) PROVE FALSE
  BY <1>4 DEF Edit, TypeInv, TypeOK
<1> QED
  BY <1>1, <1>2, <1>3, <1>4

LEMMA ListStep ==
  ASSUME TypeInv, ListInv, [Next]_vars
  PROVE  ListInv'
<1>1. CASE Untouched
  <2>1. Enabled(rows') = Enabled(rows)
    BY <1>1, EnabledStays DEF Untouched
  <2> QED
    BY <1>1, <2>1 DEF ListInv, Untouched, Reading, Enabled
<1>2. ASSUME NEW p \in Providers, NEW row, Edit(p, row)
      PROVE  ListInv'
  <2>1. fresh' = {} /\ latest' = "none" /\ (lost' \/ calls' = calls + 1)
    BY <1>2 DEF Edit, Notify
  <2> QED
    BY <2>1 DEF ListInv, TypeInv, TypeOK
<1>3. ASSUME NEW a \in Reloaders, LoadRows(a)
      PROVE  ListInv'
  <2>1. /\ reload'[a] = [phase |-> "read", rows |-> rows]
        /\ \A b \in Reloaders : b # a => reload'[b] = reload[b]
    BY <1>3, LoadAddsReader
  <2>2. fresh' = fresh \cup {a} /\ UNCHANGED <<rows, listed, latest>>
    BY <1>3 DEF LoadRows
  <2>3. fresh \subseteq Reloaders
    BY DEF TypeInv, TypeOK
  <2> QED
    BY <2>1, <2>2, <2>3 DEF ListInv, Enabled, Reading
<1>4. ASSUME NEW a \in Reloaders, LoadFails(a)
      PROVE  ListInv'
  <2>1. lost' = TRUE /\ UNCHANGED <<rows, listed, reload, fresh, latest>>
    BY <1>4 DEF LoadFails
  <2> QED
    BY <2>1 DEF ListInv, Enabled, Reading
<1>5. ASSUME NEW a \in Reloaders, Refresh(a)
      PROVE  ListInv'
  <2>1. /\ \A b \in Reloaders : b # a => reload'[b] = reload[b]
        /\ listed' = Enabled(reload[a].rows) /\ rows' = rows
        /\ UNCHANGED <<calls, lost, edits>> /\ fresh' = fresh \ {a}
        /\ latest' = IF a \in fresh THEN "installed"
                     ELSE IF latest = "none" THEN "none" ELSE "overtaken"
    BY <1>5, RefreshEndsReader, RefreshChanges DEF Refresh, Installed, environment
  <2>2. \A b \in fresh' : Reading(b)' /\ Enabled(reload'[b].rows) = Enabled(rows')
    BY <2>1 DEF ListInv, Reading, Enabled, TypeInv, TypeOK
  <2>3. latest' = "installed" => listed' = Enabled(rows')
    BY <2>1 DEF ListInv, Enabled
  <2>4. ~lost' => calls' > 0 \/ fresh' # {} \/ latest' # "none" \/ edits' = 0
    BY <2>1 DEF ListInv
  <2> QED
    BY <2>2, <2>3, <2>4 DEF ListInv, Enabled
<1> QED
  BY <1>1, <1>2, <1>3, <1>4, <1>5, ReloadShapes

\* Hot plugging: when every reload asked for has arrived and ended, the router
\* schedules the enabled rows, for any number of providers and edits and any
\* number of reloads at once (handleReload of handlers.go, RefreshProviders of
\* router.go, the commits of providers.py), unless the last notification was
\* lost or an older reading was installed over a newer one.
THEOREM ReloadInstallsRows == Spec => []ReloadTakesEffect
<1>1. Init => ListInv
  BY DEF Init, ListInv
<1>2. TypeInv /\ ListInv /\ [Next]_vars => ListInv'
  BY ListStep
<1>3. TypeInv /\ ListInv => ReloadTakesEffect
  <2> SUFFICES ASSUME TypeInv, ListInv, gen > 0, Quiet, ~lost, latest # "overtaken"
               PROVE  listed = Enabled(rows)
    BY DEF ReloadTakesEffect
  <2>1. calls = 0 /\ fresh = {}
    BY DEF Quiet, ListInv, TypeInv, TypeOK, Reading
  <2>2. edits # 0
    BY FS_CardinalityType, ProviderPoolAssumption DEF TypeInv, TypeOK, BudgetInv, Generations
  <2> QED
    BY <2>1, <2>2 DEF ListInv, TypeInv, TypeOK
<1>4. IInv => TypeInv
  BY DEF IInv
<1> QED
  BY <1>1, <1>2, <1>3, <1>4, Invariance, PTL DEF Spec

=============================================================================
