-------------------------- MODULE TokenQuotaProofs --------------------------
(***************************************************************************)
(* Proofs about TokenQuota, for any set of tokens, requests, costs, limits *)
(* and channel capacity.                                                   *)
(***************************************************************************)
EXTENDS TokenQuota, TLAPS, FiniteSetTheorems

-----------------------------------------------------------------------------
(* The inductive invariant, in named parts. *)

Charging(r) == call[r].phase \in {"deducting", "charged"}
Charged(r) == call[r].phase = "charged"

\* A request that deducts works on a cached account, and what it loaded was
\* once the account's value; after the swap the account contains its cost.
CallInv ==
  \A r \in Requests : Charging(r) =>
    /\ call[r].token \in cached
    /\ call[r].cost \in Costs /\ call[r].cost > 0
    /\ opening[call[r].token] <= call[r].seen
    /\ call[r].seen <= used[call[r].token]
    /\ Charged(r) => call[r].seen + call[r].cost <= used[call[r].token]

Queued == chan \cup held

\* A queued message stands for cents charged by this process.
MessageInv ==
  \A m \in Queued :
    /\ m.token \in cached
    /\ m.cost > 0
    /\ opening[m.token] <= m.upto - m.cost
    /\ m.upto <= used[m.token]

\* Two charges stand for different cents.
Apart(m, n) ==
  m.token = n.token => m.upto <= n.upto - n.cost \/ n.upto <= m.upto - m.cost

ApartInv ==
  /\ chan \cap held = {}
  /\ \A m, n \in Queued : m # n => Apart(m, n)
  /\ \A r \in Requests : Charged(r) => \A m \in Queued : Apart(Deduction(r), m)
  /\ \A r, s \in Requests :
       Charged(r) /\ Charged(s) /\ r # s => Apart(Deduction(r), Deduction(s))

\* Cents that are still on their way are not in the row yet.
NotCounted(m) == Cents(m) \cap counted[m.token] = {}
CountInv ==
  /\ \A m \in Queued : NotCounted(m)
  /\ \A r \in Requests : Charged(r) => NotCounted(Deduction(r))

\* The row is the last absolute value written to it and the cents added since.
RowInv ==
  \A t \in Tokens :
    /\ IsFiniteSet(counted[t])
    /\ counted[t] \subseteq (opening[t] + 1)..used[t]
    /\ opening[t] <= used[t]
    /\ Exists(t) => row[t].used = base[t] + Cardinality(counted[t])
    /\ t \in cached => base[t] <= used[t]
    /\ row[t].status = "unborn" =>
         t \notin cached /\ row[t].used = 0 /\ base[t] = 0 /\ counted[t] = {}

\* A flush writes what the account said a moment ago.
SnapInv == \A t \in snapped : t \in cached /\ snap[t] <= used[t]

IInv ==
  /\ TypeOK /\ CallInv /\ MessageInv /\ ApartInv /\ CountInv /\ RowInv /\ SnapInv

-----------------------------------------------------------------------------
(* Every variable keeps its type. *)

LEMMA IdleIsCall == Idle \in Call
  BY TokenQuotaAssumption DEF Idle, Call, Phase

(* Whatever the load returns, it has accounts of enabled rows only. *)
LEMMA LoadableFacts ==
  ASSUME NEW rw, NEW S \in Loadable(rw)
  PROVE  S \subseteq Tokens /\ \A t \in S : rw[t].status = "enabled"
  BY DEF Loadable

LEMMA InitTypeOK == Init => TypeOK
<1> SUFFICES ASSUME Init PROVE TypeOK
  OBVIOUS
<1>1. row \in [Tokens -> Row]
  <2>1. [status : {"unborn", "enabled", "disabled"}, total : Totals, used : {0}]
          \subseteq Row
    <3>1. {"unborn", "enabled", "disabled"} \subseteq Status /\ {0} \subseteq Nat
      BY DEF Status
    <3> QED
      BY <3>1, TokenQuotaAssumption, Zenon DEF Row
  <2> QED
    BY <2>1 DEF Init
<1>2. /\ limit \in [Tokens -> Nat]
      /\ used \in [Tokens -> Nat]
      /\ opening = used /\ base = used
  BY <1>1 DEF Init, Row
<1>3. cached \subseteq Tokens
  BY LoadableFacts DEF Init
<1> QED
  BY <1>1, <1>2, <1>3, IdleIsCall DEF Init, TypeOK

(* One edit of the admin, whatever the fields. *)
AdminEdit(t, q, s) ==
  CreateToken(t, q, s) \/ UpdateToken(t, q, s) \/ ResetQuota(t, q) \/ DeleteToken(t)

LEMMA AdminEdits ==
  ASSUME TypeOK, Admin
  PROVE  \E t \in Tokens, q \in Nat, s \in {"enabled", "disabled"} : AdminEdit(t, q, s)
<1> PICK t \in Tokens : Admin!(t)
  BY DEF Admin
<1>1. AdminTotals \cup {row[t].total} \subseteq Nat
  BY TokenQuotaAssumption DEF TypeOK, Row
<1> QED
  BY <1>1 DEF AdminEdit

LEMMA StepTypeOK == TypeOK /\ [Next]_vars => TypeOK'
<1> SUFFICES ASSUME TypeOK, [Next]_vars PROVE TypeOK'
  OBVIOUS
<1> USE DEF TypeOK
<1>1. ASSUME NEW r \in Requests, RequestStep(r) PROVE TypeOK'
  <2>1. ASSUME NEW t \in Tokens, Admit(r, t) PROVE TypeOK'
    BY <2>1 DEF Admit, account, pipeline, flush, history, Call, Phase
  <2>2. CASE FinishUncharged(r)
    BY <2>2, IdleIsCall DEF FinishUncharged, account, pipeline, flush, history
  <2>3. ASSUME NEW c \in Costs, DeductLoad(r, c) PROVE TypeOK'
    BY <2>3, IdleIsCall, TokenQuotaAssumption
       DEF DeductLoad, account, pipeline, flush, history, Call, Phase
  <2>4. CASE DeductRefuse(r)
    BY <2>4, IdleIsCall DEF DeductRefuse, account, pipeline, flush, history
  <2>5. CASE DeductCas(r)
    BY <2>5 DEF DeductCas, Swap, pipeline, flush, Call, Phase
  <2>6. CASE DeductRetry(r)
    BY <2>6 DEF DeductRetry, account, pipeline, flush, history, Call, Phase
  <2>7. CASE Notify(r)
    BY <2>7, IdleIsCall
       DEF Notify, Deduction, account, flush, history, Call, Phase, Message
  <2> QED
    BY <1>1, <2>1, <2>2, <2>3, <2>4, <2>5, <2>6, <2>7 DEF RequestStep
<1>2. ASSUME SyncStep PROVE TypeOK'
  <2>1. ASSUME NEW m \in chan, Take(m) PROVE TypeOK'
    BY <2>1 DEF Take, account, flush, history
  <2>2. ASSUME NEW m \in held, SyncToDB(m) PROVE TypeOK'
    <3>1. m \in Message /\ Cents(m) \subseteq Int
      BY DEF Message, Cents
    <3> QED
      BY <2>2, <3>1 DEF SyncToDB, AddToRow, account, flush, Row, Message
  <2>3. ASSUME NEW m \in held, SyncFails(m) PROVE TypeOK'
    BY <2>3 DEF SyncFails, account, flush, history
  <2> QED
    BY <1>2, <2>1, <2>2, <2>3 DEF SyncStep
<1>3. ASSUME NEW t \in Tokens, FlushRead(t) PROVE TypeOK'
  BY <1>3 DEF FlushRead, account, pipeline, history
<1>4. ASSUME NEW done \in SUBSET snapped, FlushWrite(done) PROVE TypeOK'
  BY <1>4 DEF FlushWrite, account, pipeline, Row
<1>5. ASSUME Admin PROVE TypeOK'
  <2> SUFFICES ASSUME NEW t \in Tokens, NEW q \in Nat, NEW s \in {"enabled", "disabled"},
                      AdminEdit(t, q, s)
               PROVE  TypeOK'
    BY <1>5, AdminEdits
  <2>1. CASE CreateToken(t, q, s)
    <3>1. row' \in [Tokens -> Row]
      BY <2>1, TokenQuotaAssumption DEF CreateToken, Row, Status
    <3> QED
      BY <2>1, <3>1 DEF CreateToken, Edit, account, pipeline, flush, history
  <2>2. CASE UpdateToken(t, q, s)
    <3>1. [row[t] EXCEPT !.total = q, !.status = s] \in Row
      BY TokenQuotaAssumption DEF Row, Status
    <3> QED
      BY <2>2, <3>1 DEF UpdateToken, Edit, account, pipeline, flush, history
  <2>3. CASE ResetQuota(t, q)
    <3>1. [row[t] EXCEPT !.total = q, !.used = 0] \in Row
      BY TokenQuotaAssumption DEF Row
    <3> QED
      BY <2>3, <3>1 DEF ResetQuota, Edit, account, pipeline, flush
  <2>4. CASE DeleteToken(t)
    BY <2>4 DEF DeleteToken, Edit, account, pipeline, flush, history, Row, Status
  <2> QED
    BY <2>1, <2>2, <2>3, <2>4 DEF AdminEdit
<1>6. CASE Restart
  <2>1. cached' \subseteq Tokens
    BY <1>6, LoadableFacts DEF Restart, Loaded
  <2> QED
    BY <1>6, <2>1, IdleIsCall DEF Restart, Loaded, Row
<1>7. CASE UNCHANGED vars
  BY <1>7 DEF vars, account, pipeline, flush, history
<1> QED
  BY <1>1, <1>2, <1>3, <1>4, <1>5, <1>6, <1>7 DEF Next, FlushStep, FlushAll, FlushPartly

-----------------------------------------------------------------------------
(* The inductive invariant. *)

LEMMA InitIInv == Init => IInv
<1> SUFFICES ASSUME Init PROVE IInv
  OBVIOUS
<1>1. TypeOK
  BY InitTypeOK
<1>2. CallInv /\ MessageInv /\ ApartInv /\ CountInv /\ SnapInv
  BY DEF Init, Idle, CallInv, MessageInv, ApartInv, CountInv, SnapInv, Charging, Charged, Queued
<1>3. RowInv
  <2> SUFFICES ASSUME NEW t \in Tokens
               PROVE  /\ counted[t] = {}
                      /\ opening[t] = row[t].used /\ base[t] = row[t].used
                      /\ used[t] = row[t].used /\ row[t].used = 0
                      /\ row[t].status = "unborn" => t \notin cached
    BY FS_EmptySet, <1>1 DEF RowInv, TypeOK, Row
  <2>1. t \in cached => row[t].status = "enabled"
    BY LoadableFacts DEF Init
  <2> QED
    BY <2>1 DEF Init
<1> QED
  BY <1>1, <1>2, <1>3 DEF IInv

(* Steps that touch neither the accounts nor the messages nor what rows say. *)
LEMMA QuietStep ==
  ASSUME IInv, TypeOK', CallInv', SnapInv',
         UNCHANGED <<account, pipeline, history>>,
         \A t \in Tokens : row'[t].used = row[t].used,
         \A t \in Tokens : Exists(t)' => Exists(t),
         \A t \in Tokens : row'[t].status = "unborn" => row[t].status = "unborn",
         \A r \in Requests : call'[r] = call[r] \/ ~Charged(r)'
  PROVE  IInv'
<1>1. MessageInv'
  BY DEF IInv, MessageInv, Queued, account, pipeline, history
<1>2. \A r \in Requests : Charged(r)' => Charged(r) /\ Deduction(r)' = Deduction(r)
  BY DEF Charged, Deduction
<1>3. ApartInv'
  BY <1>2 DEF IInv, ApartInv, Apart, Queued, pipeline
<1>4. CountInv'
  <2>1. counted' = counted /\ Queued' = Queued
    BY DEF history, pipeline, Queued
  <2> QED
    BY <1>2, <2>1 DEF IInv, CountInv, NotCounted
<1>5. RowInv'
  BY DEF IInv, RowInv, account, history
<1> QED
  BY <1>1, <1>3, <1>4, <1>5 DEF IInv

(* A request that returns to idle, or was not charging, leaves CallInv alone. *)
LEMMA CallInvKept ==
  ASSUME CallInv, UNCHANGED <<account, history>>,
         \A r \in Requests : call'[r] = call[r] \/ ~Charging(r)'
  PROVE  CallInv'
  BY DEF CallInv, Charging, Charged, account, history

LEMMA RequestKeepsIInv ==
  ASSUME IInv, TypeOK', NEW r \in Requests, RequestStep(r) PROVE IInv'
<1> USE DEF TypeOK
<1>0. CallInv /\ TypeOK /\ SnapInv
  BY DEF IInv
<1>1. ASSUME NEW t \in Tokens, Admit(r, t) PROVE IInv'
  <2>1. /\ \A s \in Requests : call'[s] = call[s] \/ (~Charging(s)' /\ ~Charged(s)')
        /\ UNCHANGED <<row, account, pipeline, flush, history>>
    BY <1>0, <1>1 DEF Admit, Charging, Charged
  <2> QED
    BY <1>0, <2>1, CallInvKept, QuietStep DEF Exists, SnapInv, account, flush
<1>2. ASSUME FinishUncharged(r) \/ DeductRefuse(r) PROVE IInv'
  <2>1. /\ \A s \in Requests : call'[s] = call[s] \/ (~Charging(s)' /\ ~Charged(s)')
        /\ UNCHANGED <<row, account, pipeline, flush, history>>
    BY <1>0, <1>2 DEF FinishUncharged, DeductRefuse, Charging, Charged, Idle
  <2> QED
    BY <1>0, <2>1, CallInvKept, QuietStep DEF Exists, SnapInv, account, flush
<1>3. ASSUME NEW c \in Costs, DeductLoad(r, c) PROVE IInv'
  <2>1. /\ \A s \in Requests : call'[s] = call[s] \/ ~Charged(s)'
        /\ UNCHANGED <<row, account, pipeline, flush, history>>
    BY <1>0, <1>3 DEF DeductLoad, Charged, Idle
  <2>2. CallInv'
    BY <1>0, <1>3, TokenQuotaAssumption
       DEF DeductLoad, CallInv, Charging, Charged, Idle, IInv, RowInv, Call, account, history
  <2> QED
    BY <1>0, <2>1, <2>2, QuietStep DEF Exists, SnapInv, account, flush
<1>4. ASSUME DeductRetry(r) PROVE IInv'
  <2>1. /\ \A s \in Requests : call'[s] = call[s] \/ ~Charged(s)'
        /\ UNCHANGED <<row, account, pipeline, flush, history>>
    BY <1>0, <1>4 DEF DeductRetry, Charged
  <2>2. CallInv'
    BY <1>0, <1>4
       DEF DeductRetry, CallInv, Charging, Charged, IInv, RowInv, Call, account, history
  <2> QED
    BY <1>0, <2>1, <2>2, QuietStep DEF Exists, SnapInv, account, flush
<1>5. ASSUME DeductCas(r) PROVE IInv'
  <2> DEFINE t == call[r].token
             c == call[r].cost
  <2>1. /\ t \in Tokens /\ c \in Nat /\ c > 0 /\ c \in Costs /\ t \in cached
        /\ used'[t] = used[t] + c
        /\ \A u \in Tokens : u # t => used'[u] = used[u]
        /\ used' \in [Tokens -> Nat]
        /\ UNCHANGED <<row, cached, limit, pipeline, flush, opening, base, counted>>
    BY <1>0, <1>5 DEF DeductCas, Swap, CallInv, Charging, Call
  <2>2. \A u \in Tokens : used[u] <= used'[u]
    BY <1>0, <2>1
  <2>3. /\ Charged(r)'
        /\ \A s \in Requests : s # r => call'[s] = call[s]
        /\ call'[r].token = t /\ call'[r].cost = c /\ call'[r].seen = used[t]
    BY <1>0, <1>5 DEF DeductCas, Swap, Charged, Call
  <2>4. Deduction(r)' = [token |-> t, cost |-> c, upto |-> used[t] + c]
    BY <2>3 DEF Deduction
  <2>5. \A s \in Requests : s # r /\ Charged(s)' =>
           Charged(s) /\ Deduction(s)' = Deduction(s)
    BY <2>3 DEF Deduction, Charged
  <2>6. CallInv'
    <3> SUFFICES ASSUME NEW s \in Requests, Charging(s)'
                 PROVE  CallInv!(s)'
      BY DEF CallInv
    <3>1. CASE s = r
      <4>1. opening[t] <= used[t] /\ used[t] \in Nat
        BY <1>0, <2>1 DEF IInv, RowInv
      <4> QED
        BY <1>0, <2>1, <2>3, <3>1, <4>1
    <3>2. CASE s # r
      <4>1. call'[s] = call[s] /\ Charging(s) /\ (Charged(s)' <=> Charged(s))
        BY <2>3, <3>2 DEF Charging, Charged
      <4>2. call[s] \in Call
        BY <1>0
      <4> QED
        BY <1>0, <2>1, <2>2, <4>1, <4>2 DEF CallInv, Call
    <3> QED
      BY <3>1, <3>2
  <2>7. MessageInv'
    BY <1>0, <2>1, <2>2 DEF IInv, MessageInv, Queued, pipeline, Message
  <2>8. ApartInv'
    <3>1. \A m \in Queued : Apart([token |-> t, cost |-> c, upto |-> used[t] + c], m)
      BY <1>0, <2>1 DEF IInv, MessageInv, Apart, Message, Queued
    <3>2. \A s \in Requests : s # r /\ Charged(s) =>
             /\ Apart([token |-> t, cost |-> c, upto |-> used[t] + c], Deduction(s))
             /\ Apart(Deduction(s), [token |-> t, cost |-> c, upto |-> used[t] + c])
      BY <1>0, <2>1 DEF CallInv, Apart, Deduction, Charging, Charged, Call
    <3>3. Queued' = Queued /\ chan' = chan /\ held' = held
      BY <2>1 DEF Queued, pipeline
    <3> QED
      BY <2>4, <2>5, <3>1, <3>2, <3>3 DEF IInv, ApartInv, Apart
  <2>9. CountInv'
    <3>1. counted[t] \subseteq (opening[t] + 1)..used[t]
      BY <2>1 DEF IInv, RowInv
    <3>2. Cents([token |-> t, cost |-> c, upto |-> used[t] + c]) \cap counted[t] = {}
      BY <1>0, <2>1, <3>1 DEF Cents
    <3>3. Queued' = Queued /\ counted' = counted
      BY <2>1 DEF Queued, pipeline
    <3> QED
      BY <2>4, <2>5, <3>2, <3>3 DEF IInv, CountInv, NotCounted
  <2>10. RowInv'
    <3> SUFFICES ASSUME NEW u \in Tokens PROVE RowInv!(u)'
      BY DEF RowInv
    <3>1. RowInv!(u)
      BY DEF IInv, RowInv
    <3>2. (opening[u] + 1)..used[u] \subseteq (opening[u] + 1)..used'[u]
      BY <1>0, <2>1, <2>2
    <3> QED
      BY <1>0, <2>1, <2>2, <3>1, <3>2 DEF Exists
  <2>11. SnapInv'
    BY <1>0, <2>1, <2>2 DEF SnapInv, flush
  <2> QED
    BY <2>6, <2>7, <2>8, <2>9, <2>10, <2>11 DEF IInv
<1>6. ASSUME Notify(r) PROVE IInv'
  <2>1. /\ UNCHANGED <<row, account, held, flush, history>>
        /\ chan' \subseteq chan \cup {Deduction(r)}
        /\ Charged(r) /\ ~Charged(r)' /\ ~Charging(r)'
        /\ \A s \in Requests : s # r => call'[s] = call[s]
    BY <1>0, <1>6 DEF Notify, Charged, Charging, Idle
  <2>2. /\ Deduction(r).token \in cached /\ Deduction(r).cost > 0
        /\ opening[Deduction(r).token] <= Deduction(r).upto - Deduction(r).cost
        /\ Deduction(r).upto <= used[Deduction(r).token]
        /\ Deduction(r) \in Message
    BY <1>0, <2>1 DEF CallInv, Charging, Charged, Deduction, Call, Message
  <2>3. \A s \in Requests : Charged(s)' =>
           s # r /\ Charged(s) /\ Deduction(s)' = Deduction(s)
    BY <2>1 DEF Charged, Deduction
  <2>4. Queued' \subseteq Queued \cup {Deduction(r)}
    BY <2>1 DEF Queued
  <2>5. CallInv'
    BY <1>0, <2>1, CallInvKept
  <2>6. MessageInv'
    BY <2>1, <2>2, <2>4 DEF IInv, MessageInv, account, history
  <2>7. \A m \in Queued : Apart(Deduction(r), m) /\ Apart(m, Deduction(r)) /\ m # Deduction(r)
    <3>1. \A m \in Queued : m \in Message
      BY <1>0 DEF Queued
    <3>2. \A m \in Queued : Apart(Deduction(r), m)
      BY <2>1 DEF IInv, ApartInv
    <3> QED
      BY <2>2, <3>1, <3>2 DEF Apart, Message
  <2>8. ApartInv'
    <3>1. chan' \cap held' = {}
      BY <2>1, <2>7 DEF IInv, ApartInv, Queued
    <3>2. \A m, n \in Queued' : m # n => Apart(m, n)
      BY <2>4, <2>7 DEF IInv, ApartInv
    <3>3. \A s \in Requests : s # r /\ Charged(s) => Apart(Deduction(s), Deduction(r))
      BY <2>1 DEF IInv, ApartInv
    <3>4. \A s \in Requests : Charged(s)' => \A m \in Queued' : Apart(Deduction(s), m)
      BY <2>3, <2>4, <3>3 DEF IInv, ApartInv
    <3>5. \A s, u \in Requests :
             Charged(s)' /\ Charged(u)' /\ s # u => Apart(Deduction(s), Deduction(u))
      BY <2>3 DEF IInv, ApartInv
    <3> QED
      BY <2>3, <3>1, <3>2, <3>4, <3>5 DEF ApartInv, Apart
  <2>9. CountInv'
    <3>1. counted' = counted
      BY <2>1 DEF history
    <3> QED
      BY <2>1, <2>3, <2>4, <3>1 DEF IInv, CountInv, NotCounted
  <2>10. RowInv' /\ SnapInv'
    BY <2>1 DEF IInv, RowInv, SnapInv, Exists, account, history, flush
  <2> QED
    BY <2>5, <2>6, <2>8, <2>9, <2>10 DEF IInv
<1> QED
  BY <1>1, <1>2, <1>3, <1>4, <1>5, <1>6 DEF RequestStep

(* A message stands for as many cents as it costs. *)
LEMMA MessageCents ==
  ASSUME NEW m \in Message
  PROVE  IsFiniteSet(Cents(m)) /\ Cardinality(Cents(m)) = m.cost
<1> DEFINE a == m.upto - m.cost + 1
           b == m.upto
<1>1. a \in Int /\ b \in Int /\ m.cost \in Nat /\ b - a + 1 = m.cost
  BY DEF Message
<1>2. Cents(m) = a..b
  BY DEF Cents
<1> HIDE DEF a, b
<1>3. IsFiniteSet(a..b) /\ Cardinality(a..b) = IF a > b THEN 0 ELSE b - a + 1
  BY <1>1, FS_Interval
<1> QED
  BY <1>1, <1>2, <1>3

LEMMA DisjointCount ==
  ASSUME NEW S, IsFiniteSet(S), NEW T, IsFiniteSet(T), T \cap S = {}
  PROVE  /\ IsFiniteSet(S \cup T)
         /\ Cardinality(S \cup T) = Cardinality(S) + Cardinality(T)
<1>1. /\ IsFiniteSet(S \cup T)
      /\ Cardinality(S \cup T) = Cardinality(S) + Cardinality(T) - Cardinality(S \cap T)
  BY FS_Union
<1>2. Cardinality(S \cap T) = 0
  BY FS_EmptySet
<1>3. Cardinality(S) \in Nat /\ Cardinality(T) \in Nat
  BY FS_CardinalityType
<1> QED
  BY <1>1, <1>2, <1>3

LEMMA SyncKeepsIInv == ASSUME IInv, TypeOK', SyncStep PROVE IInv'
<1> USE DEF TypeOK
<1>0. TypeOK /\ CallInv /\ MessageInv /\ ApartInv /\ CountInv /\ RowInv /\ SnapInv
  BY DEF IInv
<1>1. ASSUME NEW m \in chan, Take(m) PROVE IInv'
  <2>1. /\ Queued' = Queued /\ chan' \cap held' = {}
        /\ UNCHANGED <<row, account, call, flush, restarts, edits, history>>
    BY <1>1 DEF Take, Queued
  <2>2. ApartInv'
    <3>1. \A r \in Requests : Charged(r)' = Charged(r) /\ Deduction(r)' = Deduction(r)
      BY <2>1 DEF Charged, Deduction
    <3> QED
      BY <1>0, <2>1, <3>1 DEF ApartInv, Apart
  <2>3. CallInv' /\ MessageInv' /\ RowInv' /\ SnapInv'
    BY <1>0, <2>1
       DEF CallInv, Charging, Charged, MessageInv, RowInv, Exists, SnapInv,
           account, history, flush
  <2>4. CountInv'
    <3>1. counted' = counted
      BY <2>1 DEF history
    <3> QED
      BY <1>0, <2>1, <3>1 DEF CountInv, NotCounted, Charged, Deduction
  <2> QED
    BY <2>2, <2>3, <2>4 DEF IInv
<1>2. ASSUME NEW m \in held, SyncFails(m) PROVE IInv'
  <2>1. /\ Queued' \subseteq Queued /\ held' = {} /\ chan' = chan
        /\ UNCHANGED <<row, account, call, flush, restarts, edits, history>>
    BY <1>2 DEF SyncFails, Queued
  <2>2. ApartInv'
    <3>1. \A r \in Requests : Charged(r)' = Charged(r) /\ Deduction(r)' = Deduction(r)
      BY <2>1 DEF Charged, Deduction
    <3> QED
      BY <1>0, <2>1, <3>1 DEF ApartInv, Apart
  <2>3. CallInv' /\ MessageInv' /\ RowInv' /\ SnapInv'
    BY <1>0, <2>1
       DEF CallInv, Charging, Charged, MessageInv, RowInv, Exists, SnapInv,
           account, history, flush
  <2>4. CountInv'
    <3>1. counted' = counted
      BY <2>1 DEF history
    <3> QED
      BY <1>0, <2>1, <3>1 DEF CountInv, NotCounted, Charged, Deduction
  <2> QED
    BY <2>2, <2>3, <2>4 DEF IInv
<1>3. ASSUME NEW m \in held, SyncToDB(m) PROVE IInv'
  <2> DEFINE t == m.token
  <2>1. /\ held' = {} /\ chan' = chan /\ m \in Queued
        /\ Queued' = chan
        /\ UNCHANGED <<account, call, flush, opening, base>>
        /\ AddToRow(m)
    BY <1>3 DEF SyncToDB, Queued
  <2>2. /\ m \in Message /\ t \in Tokens /\ t \in cached /\ m.cost > 0
        /\ opening[t] <= m.upto - m.cost /\ m.upto <= used[t]
    BY <1>0, <2>1 DEF MessageInv, Message
  <2>3. /\ \A u \in Tokens : u # t => row'[u] = row[u] /\ counted'[u] = counted[u]
        /\ row'[t].status = row[t].status
        /\ Exists(t) => /\ row'[t].used = row[t].used + m.cost
                        /\ counted'[t] = counted[t] \cup Cents(m)
        /\ ~Exists(t) => /\ row'[t].used = row[t].used
                         /\ counted'[t] = counted[t]
    BY <1>0, <2>1, <2>2 DEF AddToRow, Row
  <2>4. \A r \in Requests : Charged(r)' = Charged(r) /\ Deduction(r)' = Deduction(r)
    BY <2>1 DEF Charged, Deduction
  <2>5. CallInv' /\ MessageInv' /\ SnapInv'
    BY <1>0, <2>1
       DEF CallInv, Charging, Charged, MessageInv, Queued, SnapInv, account, flush
  <2>6. ApartInv'
    BY <1>0, <2>1, <2>4 DEF ApartInv, Apart, Queued
  <2>7. \A n \in Message : Apart(n, m) /\ NotCounted(n) => NotCounted(n)'
    <3> SUFFICES ASSUME NEW n \in Message, Apart(n, m), NotCounted(n)
                 PROVE  NotCounted(n)'
      OBVIOUS
    <3>1. CASE n.token = t /\ Exists(t)
      <4>1. Cents(n) \cap Cents(m) = {}
        BY <2>2, <3>1 DEF Apart, Cents, Message
      <4> QED
        BY <2>3, <3>1, <4>1 DEF NotCounted
    <3>2. CASE ~(n.token = t /\ Exists(t))
      <4>1. counted'[n.token] = counted[n.token]
        BY <2>3, <3>2 DEF Message
      <4> QED
        BY <4>1 DEF NotCounted
    <3> QED
      BY <3>1, <3>2
  <2>8. CountInv'
    <3>1. \A n \in Queued' : NotCounted(n)'
      <4> SUFFICES ASSUME NEW n \in Queued' PROVE NotCounted(n)'
        OBVIOUS
      <4>1. n \in Queued /\ n # m /\ n \in Message
        BY <1>0, <2>1 DEF ApartInv, Queued
      <4>2. Apart(n, m) /\ NotCounted(n)
        BY <1>0, <2>1, <4>1 DEF ApartInv, CountInv
      <4> QED
        BY <2>7, <4>1, <4>2
    <3>2. \A r \in Requests : Charged(r) => NotCounted(Deduction(r))'
      <4> SUFFICES ASSUME NEW r \in Requests, Charged(r)
                   PROVE  NotCounted(Deduction(r))'
        OBVIOUS
      <4>1. Deduction(r) \in Message
        <5>1. call[r] \in Call
          BY <1>0
        <5> QED
          BY <5>1 DEF Deduction, Message, Call
      <4>2. Apart(Deduction(r), m) /\ NotCounted(Deduction(r))
        BY <1>0, <2>1 DEF ApartInv, CountInv
      <4>3. NotCounted(Deduction(r)) => (Cents(Deduction(r)) \cap counted'[Deduction(r).token] = {})
        BY <2>7, <4>1, <4>2 DEF NotCounted
      <4> QED
        BY <2>4, <4>2, <4>3 DEF NotCounted
    <3> QED
      BY <2>4, <3>1, <3>2 DEF CountInv
  <2>9. RowInv'
    <3> SUFFICES ASSUME NEW u \in Tokens PROVE RowInv!(u)'
      BY DEF RowInv
    <3>1. RowInv!(u)
      BY <1>0 DEF RowInv
    <3>2. CASE u # t \/ ~Exists(t)
      <4>1. /\ row'[u].status = row[u].status /\ row'[u].used = row[u].used
            /\ counted'[u] = counted[u]
        BY <2>3, <3>2
      <4> QED
        BY <2>1, <3>1, <4>1 DEF Exists, account
    <3>3. CASE u = t /\ Exists(t)
      <4>1. /\ IsFiniteSet(Cents(m)) /\ Cardinality(Cents(m)) = m.cost
        BY <2>2, MessageCents
      <4>2. Cents(m) \cap counted[t] = {}
        BY <1>0, <2>1 DEF CountInv, NotCounted
      <4>3. /\ IsFiniteSet(counted[t] \cup Cents(m))
            /\ Cardinality(counted[t] \cup Cents(m)) = Cardinality(counted[t]) + m.cost
        BY <3>1, <3>3, <4>1, <4>2, DisjointCount
      <4>4. Cents(m) \subseteq (opening[t] + 1)..used[t]
        BY <1>0, <2>2 DEF Cents, Message
      <4>5. /\ row'[t].used = row[t].used + m.cost
            /\ counted'[t] = counted[t] \cup Cents(m)
            /\ UNCHANGED <<opening, used, base, cached>>
        BY <2>1, <2>3, <3>3 DEF account
      <4>6. Cardinality(counted[t]) \in Nat /\ row[t] \in Row
        BY <1>0, <2>2, <3>1, <3>3, FS_CardinalityType
      <4>7. row'[t].used = base[t] + Cardinality(counted'[t])
        BY <1>0, <2>2, <3>1, <3>3, <4>3, <4>5, <4>6 DEF Row, Message
      <4>8. row'[t].status # "unborn"
        BY <2>3, <3>3 DEF Exists
      <4>9. IsFiniteSet(counted'[t]) /\ counted'[t] \subseteq (opening[t] + 1)..used[t]
        BY <3>1, <3>3, <4>3, <4>4, <4>5
      <4> QED
        BY <3>1, <3>3, <4>5, <4>7, <4>8, <4>9
    <3> QED
      BY <3>2, <3>3
  <2> QED
    BY <2>5, <2>6, <2>8, <2>9 DEF IInv
<1> QED
  BY <1>1, <1>2, <1>3 DEF SyncStep

LEMMA FlushKeepsIInv == ASSUME IInv, TypeOK', FlushStep PROVE IInv'
<1> USE DEF TypeOK
<1>0. TypeOK /\ CallInv /\ MessageInv /\ ApartInv /\ CountInv /\ RowInv /\ SnapInv
  BY DEF IInv
<1>1. ASSUME NEW t \in Tokens, FlushRead(t) PROVE IInv'
  <2>1. UNCHANGED <<row, account, call, pipeline, history>>
    BY <1>1 DEF FlushRead
  <2>2. SnapInv'
    BY <1>0, <1>1 DEF FlushRead, SnapInv, account
  <2>3. CallInv'
    BY <1>0, <2>1, CallInvKept
  <2> QED
    BY <2>1, <2>2, <2>3, QuietStep DEF Exists
<1>2. ASSUME NEW done \in SUBSET snapped, FlushWrite(done) PROVE IInv'
  <2>1. /\ UNCHANGED <<account, call, pipeline, opening>>
        /\ snapped' = {}
        /\ \A u \in Tokens : row'[u].status = row[u].status
        /\ \A u \in Tokens :
             \/ /\ u \in snapped /\ Exists(u)
                /\ row'[u].used = snap[u] /\ base'[u] = snap[u] /\ counted'[u] = {}
             \/ /\ row'[u].used = row[u].used
                /\ base'[u] = base[u] /\ counted'[u] = counted[u]
    BY <1>0, <1>2 DEF FlushWrite, Row
  <2>2. \A r \in Requests : Charged(r)' = Charged(r) /\ Deduction(r)' = Deduction(r)
    BY <2>1 DEF Charged, Deduction
  <2>3. CallInv' /\ MessageInv' /\ SnapInv'
    BY <1>0, <2>1
       DEF CallInv, Charging, Charged, MessageInv, Queued, SnapInv, account, pipeline
  <2>4. ApartInv'
    BY <1>0, <2>1, <2>2 DEF ApartInv, Apart, Queued, pipeline
  <2>5. CountInv'
    <3>1. \A u \in Tokens : counted'[u] \subseteq counted[u]
      BY <2>1
    <3>2. Queued' = Queued
      BY <2>1 DEF Queued, pipeline
    <3>3. \A m \in Queued : NotCounted(m)'
      BY <1>0, <3>1 DEF CountInv, NotCounted, Queued, Message
    <3>4. \A r \in Requests : Charged(r) => NotCounted(Deduction(r))'
      <4> SUFFICES ASSUME NEW r \in Requests, Charged(r) PROVE NotCounted(Deduction(r))'
        OBVIOUS
      <4>1. Deduction(r)' = Deduction(r) /\ Deduction(r).token \in Tokens
        BY <1>0, <2>2 DEF Deduction, Call
      <4> QED
        BY <1>0, <3>1, <4>1 DEF CountInv, NotCounted
    <3> QED
      BY <2>2, <3>2, <3>3, <3>4 DEF CountInv
  <2>6. RowInv'
    <3> SUFFICES ASSUME NEW u \in Tokens PROVE RowInv!(u)'
      BY DEF RowInv
    <3>1. RowInv!(u)
      BY <1>0 DEF RowInv
    <3>2. CASE /\ u \in snapped /\ Exists(u)
               /\ row'[u].used = snap[u] /\ base'[u] = snap[u] /\ counted'[u] = {}
      <4>1. snap[u] <= used[u] /\ snap[u] \in Nat
        BY <1>0, <3>2 DEF SnapInv
      <4> QED
        BY <2>1, <3>1, <3>2, <4>1, FS_EmptySet DEF Exists, account
    <3>3. CASE row'[u].used = row[u].used /\ base'[u] = base[u] /\ counted'[u] = counted[u]
      BY <2>1, <3>1, <3>3 DEF Exists, account
    <3> QED
      BY <2>1, <3>2, <3>3
  <2> QED
    BY <2>3, <2>4, <2>5, <2>6 DEF IInv
<1> QED
  BY <1>1, <1>2 DEF FlushStep, FlushAll, FlushPartly

LEMMA AdminKeepsIInv == ASSUME IInv, TypeOK', Admin PROVE IInv'
<1> USE DEF TypeOK
<1>0. TypeOK /\ CallInv /\ MessageInv /\ ApartInv /\ CountInv /\ RowInv /\ SnapInv
  BY DEF IInv
<1> SUFFICES ASSUME NEW t \in Tokens, NEW q \in Nat, NEW s \in {"enabled", "disabled"},
                    AdminEdit(t, q, s)
             PROVE  IInv'
  BY <1>0, AdminEdits
<1>1. CASE CreateToken(t, q, s)
  <2>1. /\ UNCHANGED <<account, call, pipeline, flush, history>>
        /\ row[t].status = "unborn"
        /\ row'[t].status # "unborn" /\ row'[t].used = 0
        /\ \A u \in Tokens : u # t => row'[u] = row[u]
    BY <1>0, <1>1 DEF CreateToken
  <2>2. CallInv' /\ MessageInv' /\ SnapInv'
    BY <1>0, <2>1
       DEF CallInv, Charging, Charged, MessageInv, Queued, SnapInv, account, pipeline, history, flush
  <2>3. \A r \in Requests : Charged(r)' = Charged(r) /\ Deduction(r)' = Deduction(r)
    BY <2>1 DEF Charged, Deduction
  <2>4. ApartInv' /\ CountInv'
    BY <1>0, <2>1, <2>3 DEF ApartInv, Apart, CountInv, NotCounted, Queued, pipeline, history
  <2>5. RowInv'
    BY <1>0, <2>1, FS_EmptySet DEF RowInv, Exists, account, history
  <2> QED
    BY <2>2, <2>4, <2>5 DEF IInv
<1>2. CASE UpdateToken(t, q, s)
  <2>1. /\ UNCHANGED <<account, call, pipeline, flush, history>>
        /\ Exists(t)
        /\ row' = [row EXCEPT ![t] = [@ EXCEPT !.total = q, !.status = s]]
    BY <1>2 DEF UpdateToken
  <2>2. \A u \in Tokens : /\ row'[u].used = row[u].used
                          /\ Exists(u)' => Exists(u)
                          /\ row'[u].status = "unborn" => row[u].status = "unborn"
    BY <1>0, <2>1 DEF Exists, Row
  <2>3. CallInv' /\ SnapInv'
    BY <1>0, <2>1, CallInvKept DEF SnapInv, account, flush
  <2> QED
    BY <2>1, <2>2, <2>3, QuietStep
<1>3. CASE ResetQuota(t, q)
  <2>1. /\ UNCHANGED <<account, call, pipeline, flush, opening>>
        /\ Exists(t)
        /\ \A u \in Tokens : row'[u].status = row[u].status
        /\ row'[t].used = 0 /\ base'[t] = 0 /\ counted'[t] = {}
        /\ \A u \in Tokens : u # t =>
             row'[u] = row[u] /\ base'[u] = base[u] /\ counted'[u] = counted[u]
    BY <1>0, <1>3 DEF ResetQuota, Row
  <2>2. \A r \in Requests : Charged(r)' = Charged(r) /\ Deduction(r)' = Deduction(r)
    BY <2>1 DEF Charged, Deduction
  <2>3. CallInv' /\ MessageInv' /\ SnapInv'
    BY <1>0, <2>1
       DEF CallInv, Charging, Charged, MessageInv, Queued, SnapInv, account, pipeline, flush
  <2>4. ApartInv'
    BY <1>0, <2>1, <2>2 DEF ApartInv, Apart, Queued, pipeline
  <2>5. CountInv'
    <3>1. \A u \in Tokens : counted'[u] \subseteq counted[u]
      BY <2>1
    <3>2. Queued' = Queued
      BY <2>1 DEF Queued, pipeline
    <3>3. \A m \in Queued : NotCounted(m)'
      BY <1>0, <3>1 DEF CountInv, NotCounted, Queued, Message
    <3>4. \A r \in Requests : Charged(r) => NotCounted(Deduction(r))'
      <4> SUFFICES ASSUME NEW r \in Requests, Charged(r) PROVE NotCounted(Deduction(r))'
        OBVIOUS
      <4>1. Deduction(r)' = Deduction(r) /\ Deduction(r).token \in Tokens
        BY <1>0, <2>2 DEF Deduction, Call
      <4> QED
        BY <1>0, <3>1, <4>1 DEF CountInv, NotCounted
    <3> QED
      BY <2>2, <3>2, <3>3, <3>4 DEF CountInv
  <2>6. RowInv'
    <3> SUFFICES ASSUME NEW u \in Tokens PROVE RowInv!(u)'
      BY DEF RowInv
    <3>1. RowInv!(u) /\ used[u] \in Nat
      BY <1>0 DEF RowInv
    <3>2. CASE u = t
      <4>1. /\ row'[u].used = 0 /\ base'[u] = 0 /\ counted'[u] = {}
            /\ row'[u].status # "unborn"
            /\ UNCHANGED <<opening, used, cached>>
        BY <2>1, <3>2 DEF Exists, account
      <4> QED
        BY <3>1, <4>1, FS_EmptySet
    <3>3. CASE u # t
      BY <2>1, <3>1, <3>3 DEF Exists, account
    <3> QED
      BY <3>2, <3>3
  <2> QED
    BY <2>3, <2>4, <2>5, <2>6 DEF IInv
<1>4. CASE DeleteToken(t)
  <2>1. /\ UNCHANGED <<account, call, pipeline, flush, history>>
        /\ Exists(t)
        /\ row' = [row EXCEPT ![t].status = "deleted"]
    BY <1>4 DEF DeleteToken
  <2>2. \A u \in Tokens : /\ row'[u].used = row[u].used
                          /\ Exists(u)' => Exists(u)
                          /\ row'[u].status = "unborn" => row[u].status = "unborn"
    BY <1>0, <2>1 DEF Exists, Row
  <2>3. CallInv' /\ SnapInv'
    BY <1>0, <2>1, CallInvKept DEF SnapInv, account, flush
  <2> QED
    BY <2>1, <2>2, <2>3, QuietStep
<1> QED
  BY <1>1, <1>2, <1>3, <1>4 DEF AdminEdit

LEMMA RestartKeepsIInv == ASSUME IInv, TypeOK', Restart PROVE IInv'
<1>1. CallInv' /\ MessageInv' /\ ApartInv' /\ CountInv' /\ SnapInv'
  BY DEF Restart, Idle, CallInv, MessageInv, ApartInv, CountInv, SnapInv,
         Charging, Charged, Queued
<1>2. RowInv'
  <2> SUFFICES ASSUME NEW t \in Tokens PROVE RowInv!(t)'
    BY DEF RowInv
  <2>1. /\ counted'[t] = {} /\ row'[t] = row[t]
        /\ opening'[t] = row[t].used /\ base'[t] = row[t].used /\ used'[t] = row[t].used
        /\ t \in cached' => row[t].status = "enabled"
    BY LoadableFacts DEF Restart, Loaded
  <2>2. row[t].used \in Nat /\ (row[t].status = "unborn" => row[t].used = 0)
    BY DEF IInv, TypeOK, Row, RowInv
  <2> QED
    BY <2>1, <2>2, FS_EmptySet DEF Exists
<1> QED
  BY <1>1, <1>2 DEF IInv

LEMMA StutterKeepsIInv == ASSUME IInv, TypeOK', UNCHANGED vars PROVE IInv'
<1>1. UNCHANGED <<row, account, call, pipeline, flush, history>>
  BY DEF vars
<1>2. CallInv' /\ SnapInv'
  BY <1>1, CallInvKept DEF IInv, SnapInv, account, flush
<1> QED
  BY <1>1, <1>2, QuietStep DEF Exists

LEMMA StepIInv == IInv /\ [Next]_vars => IInv'
<1> SUFFICES ASSUME IInv, [Next]_vars PROVE IInv'
  OBVIOUS
<1>1. TypeOK'
  BY StepTypeOK DEF IInv
<1> QED
  BY <1>1, RequestKeepsIInv, SyncKeepsIInv, FlushKeepsIInv, AdminKeepsIInv,
     RestartKeepsIInv, StutterKeepsIInv DEF Next

-----------------------------------------------------------------------------
(* What follows for every behaviour. *)

\* Every variable keeps its type.
THEOREM TypeCorrect == Spec => []TypeOK
  BY InitTypeOK, StepTypeOK, PTL DEF Spec

\* The inductive invariant holds in every reachable state.
THEOREM Invariance == Spec => []IInv
  BY InitIInv, StepIInv, PTL DEF Spec

(* The accounts move only when a request swaps or the process starts again. *)
LEMMA AccountMoves ==
  ASSUME [Next]_vars
  PROVE  \/ UNCHANGED <<account, opening>>
         \/ \E r \in Requests : DeductCas(r)
         \/ Restart
<1>1. ASSUME NEW r \in Requests, RequestStep(r), ~DeductCas(r)
      PROVE  UNCHANGED <<account, opening>>
  BY <1>1 DEF RequestStep, Admit, FinishUncharged, DeductLoad, DeductRefuse,
              DeductRetry, Notify, history
<1>2. ASSUME SyncStep \/ FlushStep PROVE UNCHANGED <<account, opening>>
  BY <1>2 DEF SyncStep, Take, SyncToDB, SyncFails, FlushStep, FlushRead, FlushAll,
              FlushPartly, FlushWrite, history
<1>3. ASSUME Admin PROVE UNCHANGED <<account, opening>>
  BY <1>3 DEF Admin, CreateToken, UpdateToken, ResetQuota, DeleteToken, history
<1> QED
  BY <1>1, <1>2, <1>3 DEF Next, vars, history

LEMMA CountedWithin ==
  ASSUME NEW a \in Nat, NEW b \in Nat, a <= b, NEW S \in SUBSET ((a + 1)..b)
  PROVE  Cardinality(S) <= b - a
<1> DEFINE lo == a + 1
<1>1. lo \in Int /\ (IF lo > b THEN 0 ELSE b - lo + 1) = b - a
  OBVIOUS
<1> HIDE DEF lo
<1>2. IsFiniteSet(lo..b) /\ Cardinality(lo..b) = b - a
  BY <1>1, FS_Interval
<1>3. Cardinality(S) <= Cardinality(lo..b)
  BY <1>2, FS_Subset DEF lo
<1> QED
  BY <1>2, <1>3

\* syncTokenQuotaToDB and flushTokenQuotas together count no charge of this
\* process more than twice.
THEOREM AtMostTwice == Spec => []CountedAtMostTwice
<1>1. IInv => CountedAtMostTwice
  <2> SUFFICES ASSUME IInv, NEW t \in cached, Exists(t)
               PROVE  row[t].used <= used[t] + (used[t] - opening[t])
    BY DEF CountedAtMostTwice
  <2>1. t \in Tokens /\ used[t] \in Nat /\ opening[t] \in Nat /\ base[t] \in Nat
    BY DEF IInv, TypeOK
  <2>2. /\ IsFiniteSet(counted[t]) /\ counted[t] \subseteq (opening[t] + 1)..used[t]
        /\ opening[t] <= used[t] /\ base[t] <= used[t]
        /\ row[t].used = base[t] + Cardinality(counted[t])
    BY <2>1 DEF IInv, RowInv
  <2>3. Cardinality(counted[t]) <= used[t] - opening[t]
    BY <2>1, <2>2, CountedWithin
  <2>4. Cardinality(counted[t]) \in Nat
    BY <2>2, FS_CardinalityType
  <2> QED
    BY <2>1, <2>2, <2>3, <2>4
<1> QED
  BY <1>1, Invariance, PTL

\* The row of a token never falls below what a flush last wrote to it.
THEOREM FlushDurable == Spec => []FlushedIsDurable
<1>1. IInv => FlushedIsDurable
  <2> SUFFICES ASSUME IInv, NEW t \in Tokens, Exists(t) PROVE row[t].used >= base[t]
    BY DEF FlushedIsDurable
  <2>1. IsFiniteSet(counted[t]) /\ row[t].used = base[t] + Cardinality(counted[t])
    BY DEF IInv, RowInv
  <2>2. base[t] \in Nat /\ Cardinality(counted[t]) \in Nat
    BY <2>1, FS_CardinalityType DEF IInv, TypeOK
  <2> QED
    BY <2>1, <2>2
<1> QED
  BY <1>1, Invariance, PTL

(* A swap that succeeds is one charge of the abstract account. *)
LEMMA SwapCharges ==
  ASSUME IInv, NEW r \in Requests, DeductCas(r)
  PROVE  Account!Charge(call[r].token, call[r].cost)
<1> DEFINE t == call[r].token
           c == call[r].cost
<1>1. /\ t \in cached /\ t \in Tokens /\ c \in Nat
      /\ limit \in [Tokens -> Nat] /\ used \in [Tokens -> Nat]
  BY DEF IInv, TypeOK, Call, CallInv, Charging, DeductCas
<1>2. /\ used' = [used EXCEPT ![t] = used[t] + c]
      /\ limit[t] = 0 \/ used[t] + c <= limit[t]
  BY <1>1 DEF DeductCas, Swap, OverLimit
<1>3. UNCHANGED <<cached, limit, opening>>
  BY DEF DeductCas, Swap
<1> QED
  BY <1>1, <1>2, <1>3 DEF Account!Charge, Account!Covers

\* DeductTokenQuotaAsync never takes a limited account past its limit.
THEOREM NeverOverdrawn == Spec => []NoOverdraft
<1>1. Init => NoOverdraft
  BY DEF Init, NoOverdraft
<1>2. IInv /\ NoOverdraft /\ [Next]_vars => NoOverdraft'
  <2> SUFFICES ASSUME IInv, NoOverdraft, [Next]_vars PROVE NoOverdraft'
    OBVIOUS
  <2>1. CASE UNCHANGED <<account, opening>>
    BY <2>1 DEF NoOverdraft, account
  <2>2. ASSUME NEW r \in Requests, DeductCas(r) PROVE NoOverdraft'
    <3>1. Account!Charge(call[r].token, call[r].cost)
      BY <2>2, SwapCharges
    <3>2. /\ limit \in [Tokens -> Nat] /\ used \in [Tokens -> Nat]
          /\ cached \subseteq Tokens /\ call[r].token \in Tokens
          /\ call[r].cost \in Nat
      BY DEF IInv, TypeOK, Call
    <3> QED
      BY <3>1, <3>2 DEF NoOverdraft, Account!Charge, Account!Covers
  <2>3. CASE Restart
    <3>1. used' = opening'
      BY <2>3 DEF Restart, Loaded
    <3> QED
      BY <3>1 DEF NoOverdraft
  <2> QED
    BY <2>1, <2>2, <2>3, AccountMoves
<1> QED
  BY <1>1, <1>2, Invariance, PTL DEF Spec

\* The load / compare-and-swap loop implements the indivisible account.
THEOREM ImplementsAccount == Spec => AccountSpec
<1>1. Init => Account!Opened
  BY InitTypeOK DEF Init, TypeOK, Account!Opened
<1>2. IInv /\ IInv' /\ [Next]_vars => [Account!Next]_(Account!vars)
  <2> SUFFICES ASSUME IInv, IInv', [Next]_vars PROVE [Account!Next]_(Account!vars)
    OBVIOUS
  <2>1. CASE UNCHANGED <<account, opening>>
    BY <2>1 DEF account, Account!vars
  <2>2. ASSUME NEW r \in Requests, DeductCas(r) PROVE Account!Next
    <3>1. call[r].token \in Tokens /\ call[r].cost \in Costs
      BY <2>2 DEF IInv, TypeOK, Call, CallInv, Charging, DeductCas
    <3> QED
      BY <2>2, <3>1, SwapCharges DEF Account!Next
  <2>3. CASE Restart
    <3>1. Account!Opened'
      BY <2>3 DEF Restart, Loaded, IInv, TypeOK, Account!Opened
    <3> QED
      BY <3>1 DEF Account!Next, Account!Restart
  <2> QED
    BY <2>1, <2>2, <2>3, AccountMoves
<1> QED
  BY <1>1, <1>2, Invariance, PTL DEF Spec, AccountSpec, Account!Spec

=============================================================================
