------------------------- MODULE SettingsPageProofs -------------------------
(***************************************************************************)
(* Theorems about SettingsPage, for any number of thresholds, any values   *)
(* and any number of overlapping chains of calls.                          *)
(***************************************************************************)
EXTENDS SettingsPage, WellFoundedInduction, FiniteSetTheorems, SequenceTheorems, TLAPS

-----------------------------------------------------------------------------
(* Configurations that may be stored, and the rows, steps and calls there are. *)

Ordered(cfg) == \A i \in 1..Bands :
  /\ i <= Bands - 2 => cfg[i] \in 1..Full
  /\ cfg[i] # 0 => \A j \in 1..i - 1 : cfg[j] # 0 /\ cfg[j] < cfg[i]

Sound == {cfg \in Config : Ordered(cfg)}
Datum == Values \cup Config \cup BOOLEAN \cup {None}

\* A value that a call may write to the row k.
Fits(k, v) ==
  /\ k \in Plain \cup {"feature"} => v \in Values
  /\ k \in {"proxy_enabled", "kb_paused"} => v \in BOOLEAN
  /\ k = "complexity" => v \in Sound

\* A value that an answer may put into memory.
Loose(k, v) ==
  /\ k \in Plain \cup {"feature"} => v \in Values
  /\ k \in {"proxy_enabled", "kb_paused"} => v \in BOOLEAN
  /\ k = "complexity" => v \in Config

Rows   == {r \in [Keys -> Datum] : RowsOK(r)}
DbRows == {r \in Rows : /\ r["complexity"] # None => r["complexity"] \in Sound
                        /\ r["proxy_enabled"] \in BOOLEAN}

Ops    == {"put", "load", "seed", "status", "pause", "restore", "reload", "mail", "backup"}
Steps  == {s \in [op : Ops, key : Keys \cup {None}, value : Datum, own : BOOLEAN] :
             /\ s.op = "put" => s.key \in Keys /\ Fits(s.key, s.value)
             /\ s.op = "pause" => s.key = "kb_paused" /\ s.value \in BOOLEAN
             /\ s.own => s.op = "put"}

\* Only the first call of a chain saves the switch, and a reload follows it.
Switches(s) == s.op = "put" /\ s.key = "proxy_enabled"
Later  == {s \in Steps : ~Switches(s)}
Chains == {q \in Seq(Steps) : /\ q # <<>> /\ \A i \in 2..Len(q) : q[i] \in Later
                              /\ Switches(q[1]) => Len(q) > 1 /\ q[2] = Do("reload")}

CallType == [id : Nat \ {0}, step : Steps, todo : Seq(Later),
             state : {"sent", "read", "ok", "failed"}, rows : Rows, held : Datum, own : BOOLEAN]
CallOK(c) ==
  /\ c \in CallType
  /\ c.step.op = "put" => Loose(c.step.key, c.held)
  /\ Switches(c.step) => c.todo # <<>> /\ c.todo[1] = Do("reload")
  /\ c.own => c.step.op = "put"
  /\ c.state = "read" => c.step.op = "reload" /\ c.held \in BOOLEAN

Calls(S) == IsFiniteSet(S) /\ \A c \in S : CallOK(c)

\* Calls are told apart by their ids.
Ids(S) == \A c, d \in S : c.id = d.id => c = d

\* A reload is to come that has not read the switch yet.
Owing(c) == Switches(c.step) \/ (c.step.op = "reload" /\ c.state = "sent")

\* The gateway has what is stored, or a reload will bring it, or it is known that
\* the last one did not.
Brings(c) == c.state = "read" /\ c.id = newest /\ c.held = db["proxy_enabled"]
Follows ==
  \/ \E c \in net : Owing(c)
  \/ \E c \in net : Brings(c)
  \/ newest = 0 /\ (unheard \/ gateway = db["proxy_enabled"])

IInv ==
  /\ db \in DbRows /\ backup \in DbRows /\ mem \in Rows
  /\ gateway \in BOOLEAN /\ drawn \in BOOLEAN
  /\ kb = None \/ kb \in BOOLEAN
  /\ Calls(net)
  /\ acts \in 0..MaxActs /\ fails \in 0..MaxFails
  /\ drafts \subseteq Keys
  /\ newest \in Nat /\ unheard \in BOOLEAN
  /\ Follows

\* No step loses a reload that is to come, nor what one has read.
Kept(S, T) ==
  /\ \A c \in S : Owing(c) => \E d \in T : Owing(d)
  /\ \A c \in S : c.state = "read" => \E d \in T : d.id = c.id /\ d.state = "read" /\ d.held = c.held

LEMMA FollowsKept ==
  ASSUME Follows, Kept(net, net'), db'["proxy_enabled"] = db["proxy_enabled"],
         UNCHANGED <<gateway, heard>>
  PROVE  Follows'
<1>1. UNCHANGED <<gateway, newest, unheard>>
  BY DEF heard
<1>2. ASSUME NEW c \in net, Brings(c) PROVE \E d \in net' : Brings(d)'
  <2>1. PICK d \in net' : d.id = c.id /\ d.state = "read" /\ d.held = c.held
    BY <1>2 DEF Kept, Brings
  <2> QED
    BY <1>1, <1>2, <2>1 DEF Brings
<1>3. ASSUME NEW c \in net, Owing(c) PROVE \E d \in net' : Owing(d)
  BY <1>3 DEF Kept
<1> QED
  BY <1>1, <1>2, <1>3 DEF Follows

-----------------------------------------------------------------------------
(* Values. *)

\* Thresholds that rise from one to the next do so altogether.
LEMMA Rises ==
  ASSUME NEW cfg \in Config, NEW n \in 0..Bands,
         \A i \in 1..n : cfg[i] > (IF i = 1 THEN 0 ELSE cfg[i - 1])
  PROVE  \A i \in 1..n : cfg[i] > 0 /\ \A j \in 1..i - 1 : cfg[j] < cfg[i]
<1> DEFINE Bad == {m \in 1..n : cfg[m] <= 0 \/ \E l \in 1..m - 1 : cfg[l] >= cfg[m]}
<1>1. n \in Nat /\ \A m \in 1..n : cfg[m] \in Nat
  BY BoundsAssumption DEF Config
<1>3. ASSUME Bad # {} PROVE FALSE
  <2>1. Bad \subseteq Nat
    BY <1>1
  <2> HIDE DEF Bad
  <2>2. PICK m \in Bad : \A l \in Bad : <<l, m>> \notin OpToRel(<, Nat)
    BY <1>3, <2>1, WFMin, NatLessThanWellFounded, Zenon
  <2>6. \A l \in Bad : ~(l < m)
    BY <2>1, <2>2, Zenon DEF OpToRel
  <2>8. m \in Bad
    BY <2>2, Zenon
  <2> USE DEF Bad
  <2>3. m \in 1..n /\ cfg[m] > (IF m = 1 THEN 0 ELSE cfg[m - 1])
    BY <2>8
  <2>7. m \in 1..n /\ cfg[m] \in Int /\ (cfg[m] <= 0 \/ \E l \in 1..m - 1 : cfg[l] >= cfg[m])
    BY <1>1, <2>8
  <2>4. CASE m = 1
    BY <2>3, <2>4, <2>7
  <2>5. CASE m # 1
    <3>1. m - 1 \in 1..n /\ m - 1 \notin Bad
      BY <1>1, <2>6, <2>3, <2>5
    <3>2. cfg[m - 1] > 0 /\ \A l \in 1..m - 2 : cfg[l] < cfg[m - 1]
      BY <1>1, <3>1
    <3>3. cfg[m] > cfg[m - 1] /\ cfg[m] \in Int /\ \A l \in 1..n : cfg[l] \in Int
      BY <1>1, <2>3, <2>5
    <3>4. \A l \in 1..m - 1 : l = m - 1 \/ l \in 1..m - 2
      BY <2>3
    <3> QED
      BY <1>1, <2>7, <2>3, <3>2, <3>3, <3>4
  <2> QED
    BY <2>4, <2>5
<1>4. \A i \in 1..n : i \notin Bad
  BY <1>3
<1>5. \A i \in 1..n : \A j \in 1..i - 1 : cfg[i] \in Nat /\ cfg[j] \in Nat
  BY <1>1
<1> QED
  BY <1>1, <1>4, <1>5

LEMMA ValidSound ==
  ASSUME NEW cfg \in Config, ValidComplexityConfig(cfg)
  PROVE  cfg \in Sound
<1>1. DOMAIN cfg = 1..Bands /\ Bands \in 0..Bands
  BY BoundsAssumption DEF Config
<1>2. \A i \in 1..Bands : cfg[i] > 0 /\ \A j \in 1..i - 1 : cfg[j] < cfg[i]
  <2>1. \A i \in 1..Bands : cfg[i] > (IF i = 1 THEN 0 ELSE cfg[i - 1])
    BY <1>1 DEF ValidComplexityConfig
  <2> QED
    BY <1>1, <2>1, Rises
<1>3. \A i \in 1..Bands : cfg[i] \in 1..Full
  BY <1>1, <1>2, BoundsAssumption DEF ValidComplexityConfig, Config
<1> QED
  BY <1>2, <1>3, BoundsAssumption DEF Sound, Ordered

LEMMA FormerSound == Former \subseteq Sound
<1> SUFFICES ASSUME NEW cfg \in Former PROVE cfg \in Sound
  OBVIOUS
<1>1. cfg \in Config /\ \A i \in 1..Bands : cfg[i] \in 0..Full
  BY BoundsAssumption DEF Former, Config
<1>2. \A i \in 1..Bands : i > Bands - 2 => cfg[i] = 0
  BY DEF Former
<1>3. Bands - 2 \in 0..Bands
  BY BoundsAssumption
<1>4. \A i \in 1..Bands - 2 : cfg[i] > (IF i = 1 THEN 0 ELSE cfg[i - 1])
  BY BoundsAssumption DEF Former
<1>5. \A i \in 1..Bands - 2 : cfg[i] > 0 /\ \A j \in 1..i - 1 : cfg[j] < cfg[i]
  BY <1>1, <1>3, <1>4, Rises
<1> QED
  BY <1>1, <1>2, <1>5, BoundsAssumption DEF Sound, Ordered

LEMMA LiftedAbove ==
  ASSUME NEW v \in Nat, NEW below \in Nat, NEW default \in Nat
  PROVE  Lifted(v, below, default) \in Nat /\ Lifted(v, below, default) > below
BY DEF Lifted

\* The migration keeps the thresholds in order, and those that were there before
\* the two highest as they are.
LEMMA MigratedSound ==
  ASSUME NEW cfg \in Sound
  PROVE  Migrated(cfg) \in Sound
<1> DEFINE filled == [i \in 1..Bands |-> IF cfg[i] = 0 THEN Default[i] ELSE cfg[i]]
           high   == Lifted(filled[Bands - 1], filled[Bands - 2], Default[Bands - 1])
           top    == Lifted(filled[Bands], high, Default[Bands])
           new    == [filled EXCEPT ![Bands - 1] = high, ![Bands] = top]
<1>1. Bands \in Nat /\ Bands > 2 /\ Bands - 1 \in 1..Bands /\ Bands - 2 \in 1..Bands /\ Bands \in 1..Bands
  BY BoundsAssumption
<1>2. cfg \in [1..Bands -> Nat] /\ Ordered(cfg)
  BY DEF Sound, Config
<1>3. \A i \in 1..Bands : Default[i] = i
  BY DEF Default
<1>4. filled \in [1..Bands -> Nat]
  BY <1>1, <1>2, <1>3
<1>5. \A i \in 1..Bands - 2 : filled[i] = cfg[i] /\ cfg[i] \in 1..Full
  BY <1>1, <1>2 DEF Ordered
<1> HIDE DEF filled
<1>6. high \in Nat /\ high > filled[Bands - 2]
  <2>1. filled[Bands - 1] \in Nat /\ filled[Bands - 2] \in Nat /\ Default[Bands - 1] \in Nat
    BY <1>1, <1>3, <1>4
  <2> QED
    BY <2>1, LiftedAbove
<1> HIDE DEF high
<1>7. top \in Nat /\ top > high
  <2>1. filled[Bands] \in Nat /\ Default[Bands] \in Nat
    BY <1>1, <1>3, <1>4
  <2> QED
    BY <1>6, <2>1, LiftedAbove
<1> HIDE DEF top
<1>8. /\ new \in Config /\ new[Bands - 1] = high /\ new[Bands] = top
      /\ \A i \in 1..Bands - 2 : new[i] = filled[i]
  BY <1>1, <1>4, <1>6, <1>7 DEF Config
<1>9. Migrated(cfg) = new
  BY DEF Migrated, high, top, filled
<1> HIDE DEF new
<1>10. \A i \in 1..Bands - 2 : /\ new[i] = cfg[i] /\ new[i] \in 1..Full
                               /\ \A j \in 1..i - 1 : new[j] # 0 /\ new[j] < new[i]
  <2> TAKE i \in 1..Bands - 2
  <2>1. i \in 1..Bands /\ cfg[i] # 0
    BY <1>1, <1>5
  <2>2. \A j \in 1..i - 1 : j \in 1..Bands - 2 /\ cfg[j] # 0 /\ cfg[j] < cfg[i]
    BY <1>1, <1>2, <2>1 DEF Ordered
  <2> QED
    BY <1>5, <1>8, <2>2
<1>11. /\ Bands - 2 \in 1..Bands - 2 /\ new[Bands - 2] \in 1..Full /\ Full \in Nat
       /\ new[Bands - 2] < high
  BY <1>1, <1>6, <1>8, <1>10, BoundsAssumption
<1>12. \A i \in 1..Bands - 2 : new[i] <= new[Bands - 2] /\ new[i] \in Nat \ {0}
  <2> TAKE i \in 1..Bands - 2
  <2>1. i = Bands - 2 \/ i \in 1..(Bands - 2) - 1
    BY <1>1
  <2>2. i \in 1..(Bands - 2) - 1 => new[i] < new[Bands - 2]
    BY <1>10, <1>11
  <2>3. new[i] \in 1..Full
    BY <1>10
  <2> QED
    BY <1>11, <2>1, <2>2, <2>3
<1>13. \A j \in 1..(Bands - 1) - 1 : new[j] # 0 /\ new[j] < new[Bands - 1]
  BY <1>1, <1>6, <1>8, <1>11, <1>12
<1>14. \A j \in 1..Bands - 1 : new[j] # 0 /\ new[j] < new[Bands]
  <2> TAKE j \in 1..Bands - 1
  <2>1. j = Bands - 1 \/ j \in 1..(Bands - 1) - 1
    BY <1>1
  <2>2. CASE j = Bands - 1
    BY <1>6, <1>7, <1>8, <1>11, <2>2
  <2>3. CASE j \in 1..(Bands - 1) - 1
    <3>1. j \in 1..Bands - 2 /\ new[j] \in Nat /\ new[j] # 0 /\ new[j] < high
      BY <1>1, <1>8, <1>12, <1>13, <2>3
    <3> QED
      BY <1>6, <1>7, <1>8, <3>1
  <2> QED
    BY <2>1, <2>2, <2>3
<1>15. Ordered(new)
  <2> SUFFICES ASSUME NEW i \in 1..Bands
               PROVE  /\ i <= Bands - 2 => new[i] \in 1..Full
                      /\ new[i] # 0 => \A j \in 1..i - 1 : new[j] # 0 /\ new[j] < new[i]
    BY DEF Ordered
  <2>1. i = Bands \/ i = Bands - 1 \/ i \in 1..Bands - 2
    BY <1>1
  <2> QED
    BY <1>1, <1>10, <1>13, <1>14, <2>1
<1> QED
  BY <1>8, <1>9, <1>15 DEF Sound

LEMMA KeysAre ==
  /\ CardKeys(Alert) = {"smtp_host", "email_to"}
  /\ CardKeys(Extract) = {"extract_provider_id", "extract_model"}
  /\ Keys = {"max_failover", "health_test_configs", "smtp_host", "email_to",
             "extract_provider_id", "extract_model", "feature", "proxy_enabled", "complexity",
             "kb_paused"}
  /\ Plain = Keys \ {"feature", "proxy_enabled", "complexity", "kb_paused"}
<1>1. DOMAIN Alert = 1..2 /\ Alert[1] = "smtp_host" /\ Alert[2] = "email_to"
  BY DEF Alert
<1>2. DOMAIN Extract = 1..2 /\ Extract[1] = "extract_provider_id" /\ Extract[2] = "extract_model"
  BY DEF Extract
<1>3. CardKeys(Alert) = {"smtp_host", "email_to"}
  BY <1>1 DEF CardKeys
<1>4. CardKeys(Extract) = {"extract_provider_id", "extract_model"}
  BY <1>2 DEF CardKeys
<1> QED
  BY <1>3, <1>4 DEF Keys, Plain

LEMMA DefaultSound == Default \in Sound
<1>1. Default \in Config
  BY BoundsAssumption DEF Default, Config
<1>2. ValidComplexityConfig(Default)
  BY BoundsAssumption DEF Default, ValidComplexityConfig
<1> QED
  BY <1>1, <1>2, ValidSound

-----------------------------------------------------------------------------
(* Steps, chains and calls. *)

LEMMA PutIsStep ==
  ASSUME NEW k \in Keys, NEW v, Fits(k, v)
  PROVE  /\ Put(k, v) \in Steps
         /\ k # "proxy_enabled" => Put(k, v) \in Later
<1>1. v \in Datum
  BY KeysAre DEF Fits, Datum, Sound
<1>2. Put(k, v) \in Steps
  BY <1>1 DEF Put, Step, Steps, Ops
<1> QED
  BY <1>2 DEF Later, Switches, Put, Step

LEMMA DoIsStep ==
  ASSUME NEW op \in {"load", "seed", "status", "restore", "reload", "backup"}
  PROVE  Do(op) \in Later /\ Do(op).op = op
BY DEF Do, Step, Steps, Ops, Later, Switches, Datum

LEMMA NoRowsOK == NoRows \in Rows
<1>1. NoRows \in [Keys -> Datum]
  BY DEF NoRows, Datum
<1>2. \A k \in Keys : NoRows[k] = None
  BY DEF NoRows
<1> QED
  BY <1>1, <1>2, KeysAre DEF Rows, RowsOK

LEMMA OneStep ==
  ASSUME NEW s \in Later
  PROVE  <<s>> \in Chains
<1>1. s \in Steps /\ ~Switches(s)
  BY DEF Later
<1>2. <<s>> \in Seq(Steps) /\ Len(<<s>>) = 1 /\ <<s>>[1] = s /\ <<s>> # <<>>
  BY <1>1
<1> QED
  BY <1>1, <1>2 DEF Chains

LEMMA LaterChain ==
  ASSUME NEW q \in Seq(Later), q # <<>>
  PROVE  q \in Chains
<1>1. Later \subseteq Steps
  BY DEF Later
<1>2. q \in Seq(Steps)
  BY <1>1, SeqMonotonic
<1>3. \A i \in 1..Len(q) : q[i] \in Later
  BY ElementOfSeq
<1>4. Len(q) \in Nat \ {0}
  BY EmptySeq
<1> QED
  BY <1>2, <1>3, <1>4 DEF Chains, Later

\* A chain as a call: its first step, and the rest of it to be sent.
LEMMA CallIsOK ==
  ASSUME NEW n \in Nat \ {0}, NEW q \in Chains
  PROVE  CallOK(Call(n, q)) /\ Call(n, q).step = q[1] /\ Call(n, q).state = "sent"
<1> DEFINE c == Call(n, q)
<1>1. /\ q \in Seq(Steps) /\ q # <<>> /\ \A i \in 2..Len(q) : q[i] \in Later
      /\ Switches(q[1]) => Len(q) > 1 /\ q[2] = Do("reload")
  BY DEF Chains
<1>2. Head(q) = q[1] /\ Head(q) \in Steps /\ Len(q) \in Nat \ {0}
  BY <1>1, HeadTailProperties, EmptySeq
<1>3. /\ Tail(q) \in Seq(Steps) /\ Len(Tail(q)) = Len(q) - 1
      /\ \A i \in 1..Len(Tail(q)) : Tail(q)[i] = q[i + 1]
  BY <1>1, HeadTailProperties
<1>4. Tail(q) \in Seq(Later)
  <2>1. Tail(q) = SubSeq(q, 2, Len(q))
    BY <1>1, TailIsSubSeq
  <2>2. \A i \in 2..Len(q) : q[i] \in Later
    BY <1>1
  <2>3. SubSeq(q, 2, Len(q)) \in Seq(Later)
    BY <1>2, <2>2, SubSeqProperties
  <2> QED
    BY <2>1, <2>3
<1>5. Switches(q[1]) => Tail(q) # <<>> /\ Tail(q)[1] = Do("reload")
  <2> SUFFICES ASSUME Switches(q[1]) PROVE Tail(q) # <<>> /\ Tail(q)[1] = Do("reload")
    OBVIOUS
  <2>1. Len(q) > 1 /\ q[2] = Do("reload")
    BY <1>1
  <2>2. Len(Tail(q)) >= 1 /\ Tail(q)[1] = q[2]
    BY <1>2, <1>3, <2>1
  <2>3. Tail(q) # <<>>
    BY <1>3, <2>2, EmptySeq
  <2> QED
    BY <2>1, <2>2, <2>3
<1>6. /\ c = [id |-> n, step |-> q[1], todo |-> Tail(q), state |-> "sent",
              rows |-> NoRows, held |-> q[1].value, own |-> q[1].own]
      /\ q[1] \in Steps
  BY <1>2 DEF Call
<1>7. c \in CallType
  BY <1>4, <1>6, NoRowsOK DEF CallType, Steps
<1>8. c.step.op = "put" => Loose(c.step.key, c.held)
  <2>1. q[1].op = "put" => Fits(q[1].key, q[1].value)
    BY <1>6 DEF Steps
  <2>2. Fits(q[1].key, q[1].value) => Loose(q[1].key, q[1].value)
    BY DEF Fits, Loose, Sound
  <2> QED
    BY <1>6, <2>1, <2>2
<1>9. c.own => c.step.op = "put"
  BY <1>6 DEF Steps
<1> QED
  BY <1>5, <1>6, <1>7, <1>8, <1>9 DEF CallOK

\* Every set of calls has two free numbers in a row: a call blocks two.
Free(S) == CHOOSE n \in 1..(2 * Cardinality(S) + 1) : \A c \in S : c.id \notin {n, n + 1}

LEMMA FreeNumber ==
  ASSUME NEW S, Calls(S)
  PROVE  Free(S) \in Nat \ {0} /\ \A c \in S : c.id \notin {Free(S), Free(S) + 1}
<1> DEFINE ids   == {c.id : c \in S}
           below == {c.id - 1 : c \in S}
           f     == [c \in S |-> c.id]
           g     == [c \in S |-> c.id - 1]
           k     == Cardinality(S)
<1>1. k \in Nat /\ \A c \in S : c.id \in Nat
  BY FS_CardinalityType DEF Calls, CallOK, CallType
<1>2. f \in Surjection(S, ids) /\ g \in Surjection(S, below)
  BY DEF Surjection
<1>3. /\ IsFiniteSet(ids) /\ Cardinality(ids) <= k
      /\ IsFiniteSet(below) /\ Cardinality(below) <= k
  BY <1>2, FS_Surjection DEF Calls
<1>4. IsFiniteSet(ids \cup below) /\ Cardinality(ids \cup below) <= 2 * k
  <2> HIDE DEF ids, below, k
  <2>1. /\ Cardinality(ids) \in Nat /\ Cardinality(below) \in Nat
        /\ Cardinality(ids \cap below) \in Nat
    BY <1>3, FS_CardinalityType, FS_Intersection
  <2>2. /\ IsFiniteSet(ids \cup below)
        /\ Cardinality(ids \cup below) = Cardinality(ids) + Cardinality(below) - Cardinality(ids \cap below)
    BY <1>3, FS_Union
  <2> QED
    BY <1>1, <1>3, <2>1, <2>2
<1>5. Cardinality(1..(2 * k + 1)) = 2 * k + 1
  <2> HIDE DEF k
  <2>1. 2 * k + 1 \in Nat
    BY <1>1
  <2> QED
    BY <1>1, <2>1, FS_Interval
<1>6. ASSUME 1..(2 * k + 1) \subseteq ids \cup below PROVE FALSE
  <2> HIDE DEF k, ids, below
  <2>1. Cardinality(1..(2 * k + 1)) <= Cardinality(ids \cup below) /\ Cardinality(ids \cup below) \in Nat
    BY <1>4, <1>6, FS_Subset, FS_CardinalityType
  <2> QED
    BY <1>1, <1>4, <1>5, <2>1
<1>7. PICK n \in 1..(2 * k + 1) : n \notin ids \cup below
  BY <1>6
<1>8. \A c \in S : c.id \notin {n, n + 1}
  <2> TAKE c \in S
  <2>1. c.id # n /\ c.id - 1 # n
    BY <1>7
  <2> HIDE DEF k
  <2> QED
    BY <1>1, <2>1
<1> HIDE DEF k, ids, below
<1>9. /\ Free(S) \in 1..(2 * k + 1)
      /\ \A c \in S : c.id \notin {Free(S), Free(S) + 1}
  BY <1>8 DEF Free, k
<1>10. 1..(2 * k + 1) \subseteq Nat \ {0}
  BY <1>1
<1> QED
  BY <1>9, <1>10

LEMMA SendsKeeps ==
  ASSUME NEW S, Calls(S), NEW chains \in Seq(Chains), Sends(S, chains)
  PROVE  /\ Calls(net') /\ S \subseteq net'
         /\ \A i \in 1..Len(chains) : \E c \in net' : c.step = chains[i][1] /\ c.state = "sent"
<1> DEFINE free == Free(S)
           new  == {Call(free + i - 1, chains[i]) : i \in 1..Len(chains)}
           f    == [i \in 1..Len(chains) |-> Call(free + i - 1, chains[i])]
<1>1. DOMAIN chains = 1..Len(chains) /\ Len(chains) \in Nat
  BY LenProperties
<1>2. free \in Nat \ {0}
  BY FreeNumber
<1>3. net' = S \cup new
  BY <1>1 DEF Sends, Free
<1> HIDE DEF free
<1>4. \A i \in 1..Len(chains) : /\ CallOK(Call(free + i - 1, chains[i]))
                                /\ Call(free + i - 1, chains[i]).step = chains[i][1]
                                /\ Call(free + i - 1, chains[i]).state = "sent"
  <2> TAKE i \in 1..Len(chains)
  <2>1. free + i - 1 \in Nat \ {0} /\ chains[i] \in Chains
    BY <1>1, <1>2, ElementOfSeq
  <2> QED
    BY <2>1, CallIsOK
<1>5. IsFiniteSet(new)
  <2>1. f \in Surjection(1..Len(chains), new)
    BY DEF Surjection
  <2>2. IsFiniteSet(1..Len(chains))
    BY <1>1, FS_Interval
  <2> QED
    BY <2>1, <2>2, FS_Surjection
<1>6. IsFiniteSet(S \cup new)
  BY <1>5, FS_Union DEF Calls
<1> QED
  BY <1>3, <1>4, <1>6 DEF Calls

LEMMA OneChain ==
  ASSUME NEW S, Calls(S), NEW q \in Chains, Sends(S, <<q>>)
  PROVE  /\ Calls(net') /\ S \subseteq net'
         /\ \E c \in net' : c.step = q[1] /\ c.state = "sent"
<1>1. <<q>> \in Seq(Chains) /\ Len(<<q>>) = 1 /\ <<q>>[1] = q
  OBVIOUS
<1>2. 1 \in 1..Len(<<q>>)
  BY <1>1
<1> HIDE DEF Chains
<1> QED
  BY <1>1, <1>2, SendsKeeps

LEMMA RemoveKeeps ==
  ASSUME NEW S, Calls(S), NEW c
  PROVE  Calls(S \ {c})
BY FS_RemoveElement DEF Calls

\* The answer of c is dealt with, and what is left of its chain is sent.
LEMMA ContinueKeeps ==
  ASSUME Calls(net), NEW c \in net, NEW todo \in Seq(Later),
         NEW more \in Seq(Chains), Continue(c, todo, more)
  PROVE  /\ Calls(net') /\ net \ {c} \subseteq net'
         /\ todo # <<>> => \E d \in net' : d.step = todo[1] /\ d.state = "sent"
<1>1. Calls(net \ {c})
  BY RemoveKeeps
<1>2. Rest(todo) \in Seq(Chains)
  <2>1. todo # <<>> => todo \in Chains
    BY LaterChain
  <2> QED
    BY <2>1 DEF Rest
<1>3. Rest(todo) \o more \in Seq(Chains)
  BY <1>2, ConcatProperties
<1>4. Sends(net \ {c}, Rest(todo) \o more)
  BY DEF Continue
<1>5. /\ Calls(net') /\ net \ {c} \subseteq net'
      /\ \A i \in 1..Len(Rest(todo) \o more) :
           \E d \in net' : d.step = (Rest(todo) \o more)[i][1] /\ d.state = "sent"
  BY <1>1, <1>3, <1>4, SendsKeeps
<1>6. ASSUME todo # <<>> PROVE \E d \in net' : d.step = todo[1] /\ d.state = "sent"
  <2>1. Rest(todo) = <<todo>>
    BY <1>6 DEF Rest
  <2>2. Len(Rest(todo)) = 1 /\ Rest(todo)[1] = todo /\ Len(more) \in Nat
    BY <2>1, LenProperties
  <2>3. Len(Rest(todo) \o more) >= 1 /\ (Rest(todo) \o more)[1] = todo
    BY <1>2, <2>2, ConcatProperties
  <2>4. 1 \in 1..Len(Rest(todo) \o more)
    BY <1>3, <2>3, LenProperties
  <2> QED
    BY <1>5, <2>3, <2>4
<1> QED
  BY <1>5, <1>6

LEMMA ReplyKeeps ==
  ASSUME Calls(net), NEW c \in net, NEW r, CallOK(r), r.step = c.step,
         c.step.op # "reload", net' = (net \ {c}) \cup {r}
  PROVE  Calls(net') /\ Kept(net, net')
<1>1. IsFiniteSet(net')
  BY FS_RemoveElement, FS_AddElement DEF Calls
<1>2. CallOK(c) /\ c.state # "read" /\ (Owing(c) => Owing(r))
  BY DEF Calls, CallOK, Owing
<1> QED
  BY <1>1, <1>2 DEF Calls, Kept

LEMMA ShowsKeeps ==
  ASSUME Calls(net), NEW c \in net, net' = net \ {c}
  PROVE  /\ Calls(net')
         /\ c.step.op \notin {"put", "reload"} => Kept(net, net')
<1>1. c.step.op # "reload" => c.state # "read"
  BY DEF Calls, CallOK
<1> QED
  BY <1>1, RemoveKeeps DEF Kept, Owing, Switches

\* An answer leaves the rest of the call as it was.
LEMMA Answering ==
  ASSUME NEW c, CallOK(c), NEW st \in {"ok", "failed"}, NEW rows \in Rows
  PROVE  /\ CallOK([c EXCEPT !.state = st]) /\ [c EXCEPT !.state = st].step = c.step
         /\ CallOK([c EXCEPT !.state = st, !.rows = rows])
         /\ [c EXCEPT !.state = st, !.rows = rows].step = c.step
<1> DEFINE e == [c EXCEPT !.state = st]
<1>1. /\ e \in CallType
      /\ e.step = c.step /\ e.todo = c.todo /\ e.held = c.held /\ e.own = c.own /\ e.state = st
  BY DEF CallOK, CallType
<1> DEFINE d == [c EXCEPT !.state = st, !.rows = rows]
<1>2. d \in CallType
  BY DEF CallOK, CallType
<1>3. d.step = c.step /\ d.todo = c.todo /\ d.held = c.held /\ d.own = c.own /\ d.state = st
  BY DEF CallOK, CallType
<1> HIDE DEF d, e
<1>4. CallOK(d) /\ CallOK(e)
  BY <1>1, <1>2, <1>3 DEF CallOK
<1> QED
  BY <1>1, <1>3, <1>4 DEF d, e

-----------------------------------------------------------------------------
(* Rows. *)

LEMMA RowsChange ==
  ASSUME NEW r \in Rows, NEW k \in Keys, NEW v, Loose(k, v)
  PROVE  [r EXCEPT ![k] = v] \in Rows
<1> DEFINE n == [r EXCEPT ![k] = v]
<1>1. r \in [Keys -> Datum] /\ RowsOK(r)
  BY DEF Rows
<1>2. v \in Datum
  BY KeysAre DEF Loose, Datum
<1>3. n \in [Keys -> Datum]
  BY <1>1, <1>2
<1>4. \A j \in Keys : n[j] = IF j = k THEN v ELSE r[j]
  BY <1>1
<1> HIDE DEF n
<1>5. RowsOK(n)
  BY <1>1, <1>3, <1>4, KeysAre DEF RowsOK, Loose
<1> QED
  BY <1>3, <1>5 DEF Rows, n

LEMMA DbChange ==
  ASSUME NEW r \in DbRows, NEW k \in Keys, NEW v, Fits(k, v)
  PROVE  /\ [r EXCEPT ![k] = v] \in DbRows
         /\ k # "proxy_enabled" => [r EXCEPT ![k] = v]["proxy_enabled"] = r["proxy_enabled"]
<1> DEFINE n == [r EXCEPT ![k] = v]
<1>1. Loose(k, v) /\ r \in Rows
  BY DEF Fits, Loose, Sound, DbRows
<1>2. n \in Rows
  BY <1>1, RowsChange
<1>3. \A j \in Keys : n[j] = IF j = k THEN v ELSE r[j]
  BY <1>1 DEF Rows
<1>4. "complexity" \in Keys /\ "proxy_enabled" \in Keys
  BY KeysAre
<1> HIDE DEF n
<1>5. n["complexity"] # None => n["complexity"] \in Sound
  BY <1>3, <1>4 DEF DbRows, Fits
<1>6. n["proxy_enabled"] \in BOOLEAN
  BY <1>3, <1>4 DEF DbRows, Fits
<1> QED
  BY <1>2, <1>3, <1>4, <1>5, <1>6 DEF DbRows, n

-----------------------------------------------------------------------------
(* The buttons. *)

LEMMA ButtonKeeps ==
  ASSUME IInv, NEW q \in Chains, Start(q),
         UNCHANGED <<server, page, fails, drafts, heard, restored>>
  PROVE  IInv'
<1>1. Calls(net') /\ net \subseteq net'
  BY OneChain DEF Start, IInv
<1>2. acts' \in 0..MaxActs
  BY BoundsAssumption DEF Start, IInv
<1>3. UNCHANGED <<db, gateway, backup, mem, kb, drawn, fails, drafts, heard>>
  BY DEF server, page
<1>4. Kept(net, net')
  BY <1>1 DEF Kept
<1>5. Follows'
  BY <1>3, <1>4, FollowsKept DEF IInv
<1> QED
  BY <1>1, <1>2, <1>3, <1>5 DEF IInv, heard

LEMMA DraftKeeps ==
  ASSUME IInv, NEW k \in Keys, k \notin {"proxy_enabled", "kb_paused"}, NEW v, Loose(k, v), Draft(k, v)
  PROVE  IInv'
<1> DEFINE f == [c \in net |-> IF c.own /\ c.step.key = k THEN [c EXCEPT !.held = v] ELSE c]
<1>1. net' = {f[c] : c \in net}
  BY DEF Draft, Editing
<1>2. IsFiniteSet(net')
  <2>1. f \in Surjection(net, net')
    BY <1>1 DEF Surjection
  <2> QED
    BY <2>1, FS_Surjection DEF IInv, Calls
<1>3. ASSUME NEW c \in net
      PROVE  /\ CallOK(f[c]) /\ f[c].step = c.step /\ f[c].state = c.state /\ f[c].id = c.id
             /\ c.state = "read" => f[c].held = c.held
  <2>1. CallOK(c)
    BY DEF IInv, Calls
  <2>2. CASE c.own /\ c.step.key = k
    <3>1. v \in Datum
      BY KeysAre DEF Loose, Datum
    <3>2. f[c] = [id |-> c.id, step |-> c.step, todo |-> c.todo, state |-> c.state,
                  rows |-> c.rows, held |-> v, own |-> c.own]
      BY <2>1, <2>2 DEF CallOK, CallType
    <3> QED
      BY <2>1, <2>2, <3>1, <3>2 DEF CallOK, CallType
  <2>3. CASE ~(c.own /\ c.step.key = k)
    BY <2>1, <2>3
  <2> QED
    BY <2>2, <2>3
<1>4. Calls(net')
  BY <1>1, <1>2, <1>3 DEF Calls
<1>5. Kept(net, net')
  <2> HIDE DEF f
  <2> QED
    BY <1>1, <1>3 DEF Kept, Owing
<1>6. mem' \in Rows /\ acts' \in 0..MaxActs /\ drafts' \subseteq Keys
  <2>1. mem \in Rows /\ acts \in 0..MaxActs /\ drafts \subseteq Keys
    BY DEF IInv
  <2>2. [mem EXCEPT ![k] = v] \in Rows
    BY <2>1, RowsChange
  <2> QED
    BY <2>1, <2>2, BoundsAssumption DEF Draft
<1>7. UNCHANGED <<db, gateway, backup, kb, drawn, fails, heard>>
  BY DEF Draft, server
<1>8. Follows'
  BY <1>5, <1>7, FollowsKept DEF IInv
<1> QED
  BY <1>4, <1>6, <1>7, <1>8 DEF IInv, heard

\* Two settings of a card.
LEMMA CardSaves ==
  ASSUME NEW card \in {Alert, Extract}, NEW v \in Values
  PROVE  /\ Saves(card, v) \in Seq(Later) /\ Len(Saves(card, v)) = 2
         /\ card[1] \in Plain /\ card[2] \in Plain
         /\ Saves(card, v)[1] = Put(card[1], v) /\ Saves(card, v)[2] = Put(card[2], v)
<1>1. DOMAIN card = 1..2 /\ card[1] \in Plain /\ card[2] \in Plain
  BY DEF Alert, Extract, Plain, CardKeys
<1>2. \A i \in 1..2 : Put(card[i], v) \in Later
  <2> TAKE i \in 1..2
  <2>1. card[i] \in Plain /\ card[i] \in Keys /\ card[i] # "proxy_enabled" /\ Fits(card[i], v)
    BY <1>1, KeysAre DEF Fits
  <2> QED
    BY <2>1, PutIsStep
<1>3. Saves(card, v) = [i \in 1..2 |-> Put(card[i], v)]
  BY <1>1 DEF Saves
<1>4. Saves(card, v) \in Seq(Later) /\ Len(Saves(card, v)) = 2
  <2> DEFINE g == [i \in 1..2 |-> Put(card[i], v)]
  <2>1. g \in [1..2 -> Later]
    BY <1>2
  <2> HIDE DEF g
  <2>2. g \in Seq(Later)
    <3>1. Seq(Later) = UNION {[1..n -> Later] : n \in Nat}
      BY SeqDef
    <3>2. [1..2 -> Later] \in {[1..n -> Later] : n \in Nat}
      OBVIOUS
    <3> QED
      BY <2>1, <3>1, <3>2
  <2>3. DOMAIN g = 1..Len(g) /\ Len(g) \in Nat
    BY <2>2, LenProperties
  <2>5. DOMAIN g = 1..2
    BY <2>1
  <2>4. Len(g) = 2
    <3>1. 1..Len(g) = 1..2
      BY <2>3, <2>5, Zenon
    <3> QED
      BY <2>3, <3>1
  <2> QED
    BY <1>3, <2>2, <2>4 DEF g
<1>5. Saves(card, v)[1] = Put(card[1], v) /\ Saves(card, v)[2] = Put(card[2], v)
  BY <1>3
<1> QED
  BY <1>1, <1>4, <1>5

LEMMA CardChain ==
  ASSUME NEW card \in {Alert, Extract}, NEW v \in Values, NEW after \in Seq(Later)
  PROVE  Saves(card, v) \o after \in Chains
<1> DEFINE s == Saves(card, v)
<1>1. Len(after) \in Nat
  BY LenProperties
<1>2. s \in Seq(Later) /\ Len(s) = 2
  BY CardSaves
<1> HIDE DEF s
<1>3. s \o after \in Seq(Later) /\ Len(s \o after) = Len(s) + Len(after)
  BY <1>2, ConcatProperties
<1>4. Len(s \o after) >= 2
  BY <1>1, <1>2, <1>3
<1>5. s \o after # <<>>
  BY <1>4, EmptySeq
<1>6. s \o after \in Chains
  BY <1>3, <1>5, LaterChain
<1> QED
  BY <1>6 DEF s

LEMMA TwoSteps ==
  ASSUME NEW s \in Later, NEW t \in Later
  PROVE  <<s, t>> \in Chains
<1>1. <<s, t>> \in Seq(Later) /\ Len(<<s, t>>) = 2
  OBVIOUS
<1>2. <<s, t>> # <<>>
  BY <1>1, EmptySeq
<1> QED
  BY <1>1, <1>2, LaterChain

LEMMA OwnIsStep ==
  ASSUME NEW k \in Keys, Fits(k, mem[k]), k # "proxy_enabled"
  PROVE  PutOwn(k) \in Later
<1>1. Put(k, mem[k]) \in Later
  BY PutIsStep
<1> DEFINE p == Put(k, mem[k])
           d == [p EXCEPT !.own = TRUE]
<1>2. p \in Steps /\ p.op = "put" /\ p.key = k /\ p.value = mem[k]
  BY <1>1 DEF Later, Put, Step
<1> HIDE DEF p
<1>3. d \in [op : Ops, key : Keys \cup {None}, value : Datum, own : BOOLEAN]
  BY <1>2 DEF Steps
<1>4. d.op = "put" /\ d.key = k /\ d.value = mem[k]
  BY <1>2 DEF Steps
<1>5. d \in Steps
  BY <1>3, <1>4 DEF Steps
<1> QED
  BY <1>4, <1>5 DEF PutOwn, Later, Switches, p

LEMMA LoadStep == ASSUME IInv, Load PROVE IInv'
<1>1. /\ Do("status") \in Later /\ Do("load") \in Later /\ Do("seed") \in Later
  BY DoIsStep
<1>2. Opening \in Seq(Later) /\ Len(Opening) = 4
  BY <1>1 DEF Opening
<1>3. Opening \in Chains
  BY <1>2, EmptySeq, LaterChain
<1> QED
  BY <1>3, ButtonKeeps DEF Load

LEMMA SwitchStep == ASSUME IInv, NEW b \in BOOLEAN, ToggleProxySwitch(b) PROVE IInv'
<1> DEFINE q == <<Put("proxy_enabled", b), Do("reload")>>
<1>1. Put("proxy_enabled", b) \in Steps
  BY KeysAre, PutIsStep DEF Fits
<1>2. Do("reload") \in Later /\ Do("reload") \in Steps
  BY DoIsStep DEF Later
<1>3. q \in Seq(Steps) /\ Len(q) = 2 /\ q[2] = Do("reload") /\ q[1] = Put("proxy_enabled", b)
  BY <1>1, <1>2
<1>4. q # <<>>
  BY <1>3, EmptySeq
<1>5. q \in Chains
  BY <1>2, <1>3, <1>4 DEF Chains
<1> QED
  BY <1>5, ButtonKeeps DEF ToggleProxySwitch

LEMMA PauseStep == ASSUME IInv, NEW b \in BOOLEAN, PauseKb(b) PROVE IInv'
<1>1. Step("pause", "kb_paused", b) \in Later
  BY KeysAre DEF Step, Later, Steps, Ops, Switches, Datum
<1>2. Do("status") \in Later
  BY DoIsStep
<1>3. <<Step("pause", "kb_paused", b), Do("status")>> \in Chains
  BY <1>1, <1>2, TwoSteps
<1> QED
  BY <1>3, ButtonKeeps DEF PauseKb

\* The settings that are saved one by one.
LEMMA SimpleStep ==
  ASSUME IInv, NEW v \in Values,
         SaveOne(v) \/ SaveHealthConfigs \/ ResetHealthConfigs
  PROVE  IInv'
<1>1. "max_failover" \in Plain \cap Keys /\ "health_test_configs" \in Plain \cap Keys
  BY KeysAre
<1>2. CASE SaveOne(v)
  <2>1. <<Put("max_failover", v)>> \in Chains
    BY <1>1, PutIsStep, OneStep DEF Fits, Plain
  <2> QED
    BY <1>2, <2>1, ButtonKeeps DEF SaveOne
<1>3. CASE SaveHealthConfigs
  <2>1. mem["health_test_configs"] \in Values
    BY <1>1, <1>3 DEF SaveHealthConfigs, Shown, IInv, Rows, RowsOK
  <2>2. Fits("health_test_configs", mem["health_test_configs"])
    BY <2>1 DEF Fits
  <2>3. <<PutOwn("health_test_configs")>> \in Chains
    BY <1>1, <2>2, OwnIsStep, OneStep
  <2> QED
    BY <1>3, <2>3, ButtonKeeps DEF SaveHealthConfigs
<1>4. CASE ResetHealthConfigs
  <2>1. <<Put("health_test_configs", Old)>> \in Chains
    BY <1>1, OldAssumption, PutIsStep, OneStep DEF Fits, Plain
  <2> QED
    BY <1>4, <2>1, ButtonKeeps DEF ResetHealthConfigs
<1> QED
  BY <1>2, <1>3, <1>4

\* The complexity configuration is saved when its thresholds rise.
LEMMA ComplexityStep ==
  ASSUME IInv, SaveComplexityConfig \/ ResetComplexityConfig
  PROVE  IInv'
<1>1. "complexity" \in Keys /\ "complexity" \notin Plain /\ Do("load") \in Later
  BY KeysAre, DoIsStep
<1>2. CASE SaveComplexityConfig
  <2>1. mem["complexity"] \in Sound
    BY <1>2, ValidSound DEF SaveComplexityConfig, Shown, IInv, Rows, RowsOK
  <2>2. PutOwn("complexity") \in Later
    BY <1>1, <2>1, OwnIsStep DEF Fits
  <2>3. <<PutOwn("complexity"), Do("load")>> \in Chains
    BY <1>1, <2>2, TwoSteps
  <2> QED
    BY <1>2, <2>3, ButtonKeeps DEF SaveComplexityConfig
<1>3. CASE ResetComplexityConfig
  <2>1. Put("complexity", Default) \in Later
    BY <1>1, DefaultSound, PutIsStep DEF Fits
  <2>2. <<Put("complexity", Default), Do("load")>> \in Chains
    BY <1>1, <2>1, TwoSteps
  <2> QED
    BY <1>3, <2>2, ButtonKeeps DEF ResetComplexityConfig
<1> QED
  BY <1>2, <1>3

LEMMA CardStep ==
  ASSUME IInv, NEW v \in Values,
         SaveAlertNotify(v) \/ SendTestEmail(v) \/ SaveExtractConfig(v)
  PROVE  IInv'
<1>1. <<>> \in Seq(Later) /\ <<Do("load")>> \in Seq(Later)
  BY DoIsStep
<1>2. <<Step("mail", None, v)>> \in Seq(Later)
  BY DEF Step, Later, Steps, Ops, Switches, Datum
<1>3. ASSUME NEW card \in {Alert, Extract}, NEW after \in Seq(Later), SaveCard(card, v, after)
      PROVE  IInv'
  BY <1>3, CardChain, ButtonKeeps DEF SaveCard
<1> QED
  BY <1>1, <1>2, <1>3 DEF SaveAlertNotify, SendTestEmail, SaveExtractConfig

\* Buttons of a single call that carries nothing.
LEMMA PlainStep ==
  ASSUME IInv, Refresh \/ ReloadProxy \/ Backup \/ Restore
  PROVE  IInv'
<1>1. \A op \in {"load", "reload", "backup", "restore"} : <<Do(op)>> \in Chains
  BY DoIsStep, OneStep
<1>2. ASSUME NEW op \in {"load", "reload", "backup", "restore"}, Start(<<Do(op)>>),
             UNCHANGED <<server, page, fails, drafts, heard, restored>>
      PROVE  IInv'
  BY <1>1, <1>2, ButtonKeeps
<1> QED
  BY <1>2 DEF Refresh, ReloadProxy, Backup, Restore

\* Drafts.
LEMMA EditStep ==
  ASSUME IInv, NEW v \in Values, ChangeExtractProvider(v) \/ EditHealthConfigs(v)
  PROVE  IInv'
<1>1. CASE EditHealthConfigs(v)
  BY <1>1, KeysAre, DraftKeeps DEF EditHealthConfigs, Loose
<1>2. CASE ChangeExtractProvider(v)
  <2> DEFINE new == [mem EXCEPT !["extract_provider_id"] = v, !["extract_model"] = None]
  <2>1. mem \in [Keys -> Datum] /\ RowsOK(mem)
    BY DEF IInv, Rows
  <2>2. new \in [Keys -> Datum]
    BY <2>1 DEF Datum
  <2>3. \A k \in Keys : new[k] = mem[k] \/ (k \in Plain /\ new[k] \in Values \cup {None})
    BY <2>1, KeysAre
  <2> HIDE DEF new
  <2>4. RowsOK(new)
    BY <2>1, <2>2, <2>3, KeysAre DEF RowsOK
  <2>5. mem' \in Rows
    BY <1>2, <2>2, <2>4 DEF ChangeExtractProvider, Rows, new
  <2>6. drafts' \subseteq Keys /\ acts' \in 0..MaxActs
    BY <1>2, KeysAre, BoundsAssumption DEF ChangeExtractProvider, IInv
  <2>7. UNCHANGED <<db, gateway, backup, kb, drawn, net, fails, heard>>
    BY <1>2 DEF ChangeExtractProvider, server
  <2>8. Kept(net, net')
    BY <2>7 DEF Kept
  <2>9. Follows'
    BY <2>7, <2>8, FollowsKept DEF IInv
  <2> QED
    BY <2>5, <2>6, <2>7, <2>9 DEF IInv, heard, Calls
<1> QED
  BY <1>1, <1>2

LEMMA TierStep ==
  ASSUME IInv, NEW i \in 1..Bands, NEW v \in 0..Top, UpdateComplexityTier(i, v)
  PROVE  IInv'
<1>1. mem["complexity"] \in Config
  BY DEF UpdateComplexityTier, Shown, IInv, Rows, RowsOK
<1>2. [mem["complexity"] EXCEPT ![i] = v] \in Config
  BY <1>1, BoundsAssumption DEF Config
<1> QED
  BY <1>2, KeysAre, DraftKeeps DEF UpdateComplexityTier, Loose

-----------------------------------------------------------------------------
(* Answers. *)

\* A save of the switch is answered and the reload after it is sent.
LEMMA KeptAfter ==
  ASSUME NEW c \in net, CallOK(c), c.step.op # "reload", net \ {c} \subseteq net',
         Switches(c.step) => \E d \in net' : d.step = Do("reload") /\ d.state = "sent"
  PROVE  Kept(net, net')
<1>1. Do("reload").op = "reload" /\ c.state # "read"
  BY DoIsStep DEF CallOK
<1>2. Owing(c) => \E d \in net' : Owing(d)
  BY <1>1 DEF Owing
<1> QED
  BY <1>1, <1>2 DEF Kept

\* A chain goes on, whether its call was a save of the switch or not.
LEMMA ChainGoesOn ==
  ASSUME IInv, NEW c \in net, c.step.op # "reload",
         NEW todo \in Seq(Later), Switches(c.step) => todo = c.todo,
         NEW more \in Seq(Chains), Continue(c, todo, more)
  PROVE  Calls(net') /\ Kept(net, net')
<1>1. Calls(net) /\ CallOK(c)
  BY DEF IInv, Calls
<1>2. /\ Calls(net') /\ net \ {c} \subseteq net'
      /\ todo # <<>> => \E d \in net' : d.step = todo[1] /\ d.state = "sent"
  BY <1>1, ContinueKeeps
<1>3. Switches(c.step) => \E d \in net' : d.step = Do("reload") /\ d.state = "sent"
  BY <1>1, <1>2 DEF CallOK
<1> QED
  BY <1>1, <1>2, <1>3, KeptAfter

LEMMA ReplacedKeeps ==
  ASSUME NEW S, Calls(S)
  PROVE  /\ Calls(Replaced(S))
         /\ \A c \in S : \E d \in Replaced(S) :
              d.id = c.id /\ d.step = c.step /\ d.state = c.state /\ d.held = c.held
<1> DEFINE f == [c \in S |-> [c EXCEPT !.own = FALSE]]
<1>1. Replaced(S) = {f[c] : c \in S}
  BY DEF Replaced
<1>2. IsFiniteSet(Replaced(S))
  <2>1. f \in Surjection(S, Replaced(S))
    BY <1>1 DEF Surjection
  <2> QED
    BY <2>1, FS_Surjection DEF Calls
<1>3. ASSUME NEW c \in S
      PROVE  /\ CallOK(f[c]) /\ f[c].id = c.id /\ f[c].step = c.step
             /\ f[c].state = c.state /\ f[c].held = c.held
  <2>1. CallOK(c)
    BY DEF Calls
  <2>2. f[c] = [id |-> c.id, step |-> c.step, todo |-> c.todo, state |-> c.state,
                rows |-> c.rows, held |-> c.held, own |-> FALSE]
    BY <2>1 DEF CallOK, CallType
  <2> QED
    BY <2>1, <2>2 DEF CallOK, CallType
<1> QED
  BY <1>1, <1>2, <1>3 DEF Calls

LEMMA CreationsLater == \A rows : Creations(rows) \in Seq(Later)
<1>1. Do("seed") \in Later
  BY DoIsStep
<1>2. /\ <<Do("seed"), Do("seed")>> \in Seq(Later)
      /\ <<Do("seed")>> \in Seq(Later)
      /\ <<>> \in Seq(Later)
  BY <1>1
<1> QED
  BY <1>2 DEF Creations

LEMMA ListedStep == ASSUME IInv, NEW c \in net, Listed(c) PROVE IInv'
<1> DEFINE m    == IF c.state = "ok" THEN c.rows ELSE mem
           todo == IF c.todo = <<>> THEN <<>> ELSE Creations(m)
           S    == IF c.state = "ok" THEN Replaced(net \ {c}) ELSE net \ {c}
<1>1. Calls(net) /\ CallOK(c) /\ c.rows \in Rows /\ c.todo \in Seq(Later)
  BY DEF IInv, Calls, CallOK, CallType
<1>2. c.step.op = "load" /\ c.state # "read" /\ Sends(S, Rest(todo))
  BY DEF Listed, Ended
<1>3. /\ Calls(S)
      /\ \A d \in net \ {c} : \E e \in S :
           e.id = d.id /\ e.step = d.step /\ e.state = d.state /\ e.held = d.held
  BY <1>1, RemoveKeeps, ReplacedKeeps
<1>4. todo \in Seq(Later)
  <2>1. <<>> \in Seq(Later) /\ Creations(m) \in Seq(Later)
    BY CreationsLater
  <2> HIDE DEF m
  <2> QED
    BY <2>1
<1>5. Rest(todo) \in Seq(Chains)
  <2> HIDE DEF todo
  <2>1. todo # <<>> => todo \in Chains
    BY <1>4, LaterChain
  <2> QED
    BY <2>1 DEF Rest
<1>6. Calls(net') /\ S \subseteq net'
  <2> HIDE DEF S, todo
  <2> QED
    BY <1>2, <1>3, <1>5, SendsKeeps
<1>7. Kept(net, net')
  <2> HIDE DEF S
  <2> QED
    BY <1>2, <1>3, <1>6 DEF Kept, Owing, Switches
<1>8. mem' \in Rows /\ drawn' \in BOOLEAN /\ drafts' \subseteq Keys
  BY <1>1 DEF Listed, IInv
<1>9. UNCHANGED <<db, gateway, backup, kb, acts, fails, heard>>
  BY DEF Listed, server
<1>10. Follows'
  BY <1>7, <1>9, FollowsKept DEF IInv
<1> QED
  BY <1>6, <1>8, <1>9, <1>10 DEF IInv, heard

LEMMA SeededStep == ASSUME IInv, NEW c \in net, Seeded(c) PROVE IInv'
<1> DEFINE todo == IF mem["complexity"] = None THEN c.todo ELSE <<>>
           more == IF c.state = "ok" THEN << <<Do("load")>> >> ELSE <<>>
<1>1. c.step.op = "seed" /\ Continue(c, todo, more) /\ c.todo \in Seq(Later)
  BY DEF Seeded, Ended, IInv, Calls, CallOK, CallType
<1>2. todo \in Seq(Later) /\ more \in Seq(Chains)
  <2>1. <<Do("load")>> \in Chains
    BY DoIsStep, OneStep
  <2> QED
    BY <1>1, <2>1
<1> HIDE DEF todo, more
<1>3. Calls(net') /\ Kept(net, net')
  BY <1>1, <1>2, ChainGoesOn DEF Switches
<1>4. UNCHANGED <<db, gateway, backup, mem, kb, drawn, acts, fails, drafts, heard>>
  BY DEF Seeded, server, page
<1>5. Follows'
  BY <1>3, <1>4, FollowsKept DEF IInv
<1> QED
  BY <1>3, <1>4, <1>5 DEF IInv, heard

LEMMA SavedStep == ASSUME IInv, NEW c \in net, Saved(c) PROVE IInv'
<1> DEFINE k == c.step.key
<1>1. CallOK(c) /\ c.step \in Steps /\ c.todo \in Seq(Later) /\ c.step.op = "put"
  BY DEF Saved, Ended, IInv, Calls, CallOK, CallType
<1>2. k \in Keys /\ Loose(k, c.held)
  BY <1>1 DEF CallOK, Steps
<1>3. mem' \in Rows
  <2>1. [mem EXCEPT ![k] = c.held] \in Rows
    BY <1>2, RowsChange DEF IInv
  <2> QED
    BY <2>1 DEF Saved, IInv
<1>4. drafts' \subseteq Keys
  BY <1>2 DEF Saved, IInv
<1>5. Continue(c, c.todo, <<>>) /\ <<>> \in Seq(Chains)
  BY DEF Saved
<1>6. Calls(net') /\ Kept(net, net')
  BY <1>1, <1>5, ChainGoesOn
<1>7. UNCHANGED <<db, gateway, backup, kb, drawn, acts, fails, heard>>
  BY DEF Saved, server
<1>8. Follows'
  BY <1>6, <1>7, FollowsKept DEF IInv
<1> QED
  BY <1>3, <1>4, <1>6, <1>7, <1>8 DEF IInv, heard

LEMMA SaveFailedStep == ASSUME IInv, NEW c \in net, SaveFailed(c) PROVE IInv'
<1>1. c.todo \in Seq(Later) /\ c.step.op = "put"
  BY DEF SaveFailed, Ended, IInv, Calls, CallOK, CallType
<1>2. << <<Do("load")>> >> \in Seq(Chains)
  <2>1. <<Do("load")>> \in Chains
    BY DoIsStep, OneStep
  <2> QED
    BY <2>1
<1>3. Continue(c, c.todo, << <<Do("load")>> >>)
  BY DEF SaveFailed
<1>4. Calls(net') /\ Kept(net, net')
  BY <1>1, <1>2, <1>3, ChainGoesOn
<1>5. UNCHANGED <<db, gateway, backup, mem, kb, drawn, acts, fails, drafts, heard>>
  BY DEF SaveFailed, server, page
<1>6. Follows'
  BY <1>4, <1>5, FollowsKept DEF IInv
<1> QED
  BY <1>4, <1>5, <1>6 DEF IInv, heard

LEMMA StatusStep ==
  ASSUME IInv, NEW c \in net, StatusKnown(c) \/ PauseAnswered(c)
  PROVE  IInv'
<1>1. c.todo \in Seq(Later) /\ <<>> \in Seq(Later) /\ <<>> \in Seq(Chains) /\ c.rows \in Rows
  BY DEF IInv, Calls, CallOK, CallType
<1>2. CASE StatusKnown(c)
  <2>1. c.step.op = "status" /\ Continue(c, c.todo, <<>>)
    BY <1>2 DEF StatusKnown, Ended
  <2>2. Calls(net') /\ Kept(net, net')
    BY <1>1, <2>1, ChainGoesOn DEF Switches
  <2>3. kb' = None \/ kb' \in BOOLEAN
    BY <1>1, <1>2 DEF StatusKnown, Rows, RowsOK
  <2>4. drawn' \in BOOLEAN /\ UNCHANGED <<db, gateway, backup, mem, acts, fails, drafts, heard>>
    BY <1>2 DEF StatusKnown, server, IInv
  <2>5. Follows'
    BY <2>2, <2>4, FollowsKept DEF IInv
  <2> QED
    BY <2>2, <2>3, <2>4, <2>5 DEF IInv, heard
<1>3. CASE PauseAnswered(c)
  <2> DEFINE todo == IF c.state = "ok" THEN c.todo ELSE <<>>
  <2>1. c.step.op = "pause" /\ Continue(c, todo, <<>>) /\ todo \in Seq(Later)
    BY <1>1, <1>3 DEF PauseAnswered, Ended
  <2> HIDE DEF todo
  <2>2. Calls(net') /\ Kept(net, net')
    BY <1>1, <2>1, ChainGoesOn DEF Switches
  <2>3. UNCHANGED <<db, gateway, backup, mem, kb, drawn, acts, fails, drafts, heard>>
    BY <1>3 DEF PauseAnswered, server, page
  <2>4. Follows'
    BY <2>2, <2>3, FollowsKept DEF IInv
  <2> QED
    BY <2>2, <2>3, <2>4 DEF IInv, heard
<1> QED
  BY <1>2, <1>3

-----------------------------------------------------------------------------
(* The server. *)

LEMMA OkKeeps ==
  ASSUME IInv, NEW c \in net, c.step.op # "reload", Ok(c)
  PROVE  /\ Calls(net') /\ Kept(net, net') /\ UNCHANGED <<mem, kb, drawn, acts, drafts>>
         /\ Switches(c.step) => \E d \in net' : Owing(d)
<1> DEFINE r == [c EXCEPT !.state = "ok"]
<1>1. Calls(net) /\ CallOK(c)
  BY DEF IInv, Calls
<1>2. r.step = c.step /\ CallOK(r)
  BY <1>1, Answering, NoRowsOK
<1>3. net' = (net \ {c}) \cup {r} /\ UNCHANGED <<mem, kb, drawn, acts, drafts>>
  BY DEF Ok, Reply, page
<1> HIDE DEF r
<1>4. Calls(net') /\ Kept(net, net')
  BY <1>1, <1>2, <1>3, ReplyKeeps
<1> QED
  BY <1>2, <1>3, <1>4 DEF Owing

LEMMA ServeReadStep == ASSUME IInv, NEW c \in net, ServeRead(c) PROVE IInv'
<1>1. Calls(net) /\ CallOK(c) /\ db \in Rows
  BY DEF IInv, Calls, DbRows
<1> DEFINE r == [c EXCEPT !.state = "ok", !.rows = db]
<1>2. CallOK(r) /\ r.step = c.step
  BY <1>1, Answering
<1>3. /\ net' = (net \ {c}) \cup {r} /\ c.step.op # "reload"
      /\ UNCHANGED <<db, gateway, backup, mem, kb, drawn, acts, fails, drafts, heard>>
  BY DEF ServeRead, Reply, server, page
<1> HIDE DEF r
<1>4. Calls(net') /\ Kept(net, net')
  BY <1>1, <1>2, <1>3, ReplyKeeps
<1>5. Follows'
  BY <1>3, <1>4, FollowsKept DEF IInv
<1> QED
  BY <1>3, <1>4, <1>5 DEF IInv, heard

LEMMA ServeWriteStep == ASSUME IInv, NEW c \in net, ServeWrite(c) PROVE IInv'
<1> DEFINE k == c.step.key
           new == [db EXCEPT ![k] = c.step.value]
<1>1. c.step \in Steps /\ c.step.op \in {"put", "pause"}
  BY DEF IInv, Calls, CallOK, CallType, ServeWrite, Asked
<1>2. k \in Keys /\ Fits(k, c.step.value) /\ (k = "proxy_enabled" => Switches(c.step))
  <2>1. CASE c.step.op = "put"
    BY <1>1, <2>1 DEF Steps, Switches
  <2>2. CASE c.step.op = "pause"
    BY <1>1, <2>2, KeysAre DEF Steps, Fits
  <2> QED
    BY <1>1, <2>1, <2>2
<1>3. /\ new \in DbRows
      /\ k # "proxy_enabled" => new["proxy_enabled"] = db["proxy_enabled"]
  BY <1>2, DbChange DEF IInv
<1>4. db' = new /\ UNCHANGED <<gateway, backup, fails, heard>> /\ Ok(c)
  BY DEF ServeWrite
<1> HIDE DEF new
<1>5. /\ Calls(net') /\ Kept(net, net') /\ UNCHANGED <<mem, kb, drawn, acts, drafts>>
      /\ Switches(c.step) => \E d \in net' : Owing(d)
  BY <1>1, <1>4, OkKeeps
<1>6. Follows'
  <2>1. CASE k = "proxy_enabled"
    BY <1>2, <1>5, <2>1 DEF Follows
  <2>2. CASE k # "proxy_enabled"
    BY <1>3, <1>4, <1>5, <2>2, FollowsKept DEF IInv
  <2> QED
    BY <2>1, <2>2
<1> QED
  BY <1>3, <1>4, <1>5, <1>6 DEF IInv, heard

LEMMA ServeSeedStep == ASSUME IInv, NEW c \in net, ServeSeed(c) PROVE IInv'
<1> DEFINE f == IF db["feature"] = None THEN Old ELSE db["feature"]
           v == IF db["complexity"] = None THEN Default ELSE Migrated(db["complexity"])
<1>1. "complexity" \in Keys \ Plain /\ "feature" \in Keys \ Plain
  BY KeysAre
<1>2. v \in Sound /\ f \in Values
  BY DefaultSound, MigratedSound, OldAssumption DEF IInv, DbRows, Rows, RowsOK
<1>3. db' = [db EXCEPT !["feature"] = f, !["complexity"] = v]
  BY DEF ServeSeed
<1> HIDE DEF v, f
<1> DEFINE half == [db EXCEPT !["feature"] = f]
<1>4. Fits("feature", f) /\ Fits("complexity", v)
  BY <1>1, <1>2 DEF Fits
<1>5. half \in DbRows /\ half["proxy_enabled"] = db["proxy_enabled"]
  BY <1>1, <1>4, DbChange DEF IInv
<1>6. [half EXCEPT !["complexity"] = v] = db'
  BY <1>3
<1> HIDE DEF half
<1>7. db' \in DbRows /\ db'["proxy_enabled"] = db["proxy_enabled"]
  BY <1>1, <1>4, <1>5, <1>6, DbChange
<1>8. Ok(c) /\ c.step.op = "seed" /\ UNCHANGED <<gateway, backup, fails, heard>>
  BY DEF ServeSeed, Asked
<1>9. Calls(net') /\ Kept(net, net') /\ UNCHANGED <<mem, kb, drawn, acts, drafts>>
  BY <1>8, OkKeeps
<1>10. Follows'
  BY <1>7, <1>8, <1>9, FollowsKept DEF IInv
<1> QED
  BY <1>7, <1>8, <1>9, <1>10 DEF IInv, heard

\* A reload has read, the switch or in vain.
LEMMA ReadingOK ==
  ASSUME IInv, NEW c \in net, c.step.op = "reload", NEW b \in BOOLEAN, NEW r,
         r = [c EXCEPT !.state = "read", !.held = b]
  PROVE  CallOK(r) /\ r.id = c.id /\ r.step = c.step /\ r.state = "read" /\ r.held = b
<1>1. CallOK(c)
  BY DEF IInv, Calls
<1>2. b \in Datum
  BY DEF Datum
<1>3. r = [id |-> c.id, step |-> c.step, todo |-> c.todo, state |-> "read",
           rows |-> c.rows, held |-> b, own |-> c.own]
  BY <1>1 DEF CallOK, CallType
<1> QED
  BY <1>1, <1>2, <1>3 DEF CallOK, CallType

LEMMA ReadStep ==
  ASSUME IInv, NEW c \in net, ReadSwitch(c) \/ ReadSwitchInVain(c)
  PROVE  IInv'
<1>1. /\ Calls(net) /\ c.step.op = "reload" /\ c.id \in Nat
      /\ UNCHANGED <<db, gateway, backup, mem, kb, drawn, acts, drafts>>
  BY DEF ReadSwitch, ReadSwitchInVain, Asked, Reply, server, page, IInv, Calls, CallOK, CallType
<1>2. ASSUME NEW r, CallOK(r), net' = (net \ {c}) \cup {r} PROVE Calls(net')
  BY <1>1, <1>2, FS_RemoveElement, FS_AddElement DEF Calls
<1>3. CASE ReadSwitch(c)
  <2>1. PICK r : r = [c EXCEPT !.state = "read", !.held = db["proxy_enabled"]]
    OBVIOUS
  <2>2. net' = (net \ {c}) \cup {r} /\ newest' = c.id /\ UNCHANGED <<fails, unheard>>
    BY <1>3, <2>1 DEF ReadSwitch, Reply
  <2>3. db["proxy_enabled"] \in BOOLEAN
    BY DEF IInv, DbRows
  <2>4. CallOK(r) /\ r.id = c.id /\ r.state = "read" /\ r.held = db["proxy_enabled"]
    BY <1>1, <2>1, <2>3, ReadingOK
  <2>5. Follows'
    BY <1>1, <2>2, <2>4 DEF Follows, Brings
  <2> QED
    BY <1>1, <1>2, <2>2, <2>4, <2>5 DEF IInv
<1>4. CASE ReadSwitchInVain(c)
  <2>1. PICK r : r = [c EXCEPT !.state = "read", !.held = TRUE]
    OBVIOUS
  <2>2. /\ net' = (net \ {c}) \cup {r} /\ newest' = 0 /\ unheard' = TRUE
        /\ fails' \in 0..MaxFails
    BY <1>4, <2>1, BoundsAssumption DEF ReadSwitchInVain, Reply, IInv
  <2>3. CallOK(r)
    BY <1>1, <2>1, ReadingOK
  <2>4. Follows'
    BY <2>2 DEF Follows
  <2> QED
    BY <1>1, <1>2, <2>2, <2>3, <2>4 DEF IInv
<1> QED
  BY <1>3, <1>4

\* What the last to read stores is the switch, unless one is still to read; what
\* another stores may be old, and is known to be.
LEMMA InstallStep ==
  ASSUME IInv, Ids(net), NEW c \in net, InstallSwitch(c)
  PROVE  IInv'
<1>1. /\ CallOK(c) /\ c.id \in Nat \ {0} /\ c.held \in BOOLEAN /\ c.step.op = "reload" /\ c.state = "read"
  BY DEF InstallSwitch, IInv, Calls, CallOK, CallType
<1>2. /\ net' = net \ {c} /\ gateway' = c.held
      /\ unheard' = (c.id # newest)
      /\ newest' = IF c.id = newest THEN 0 ELSE newest
      /\ UNCHANGED <<db, backup, mem, kb, drawn, acts, fails, drafts>>
  BY DEF InstallSwitch, Shows, page
<1>3. Calls(net')
  BY <1>2, ShowsKeeps DEF IInv
<1>4. ~Owing(c)
  BY <1>1 DEF Owing, Switches
<1>5. Follows'
  <2>1. CASE \E d \in net : Owing(d)
    BY <1>2, <1>4, <2>1 DEF Follows
  <2>2. CASE \E d \in net : Brings(d)
    <3>1. PICK d \in net : Brings(d)
      BY <2>2
    <3>2. CASE c.id = newest
      <4>1. d = c
        BY <3>1, <3>2 DEF Ids, Brings
      <4>2. gateway' = db'["proxy_enabled"] /\ newest' = 0
        BY <1>2, <3>1, <3>2, <4>1 DEF Brings
      <4> QED
        BY <4>2 DEF Follows
    <3>3. CASE c.id # newest
      <4>1. d \in net' /\ newest' = newest /\ db' = db
        BY <1>2, <3>1, <3>3 DEF Brings
      <4>2. Brings(d)'
        BY <3>1, <4>1 DEF Brings
      <4> QED
        BY <4>1, <4>2 DEF Follows
    <3> QED
      BY <3>2, <3>3
  <2>3. CASE newest = 0
    <3>1. c.id # newest
      BY <1>1, <2>3
    <3>2. newest' = 0 /\ unheard'
      BY <1>2, <2>3, <3>1
    <3> QED
      BY <3>2 DEF Follows
  <2> QED
    BY <2>1, <2>2, <2>3 DEF IInv, Follows
<1>6. newest' \in Nat /\ unheard' \in BOOLEAN
  BY <1>2 DEF IInv
<1> QED
  BY <1>1, <1>2, <1>3, <1>5, <1>6 DEF IInv

\* A restore writes the switch and is a reload that is to come.
LEMMA RestoreStep == ASSUME IInv, NEW c \in net, ServeRestore(c) PROVE IInv'
<1> DEFINE q == <<Do("reload")>>
<1>1. CallOK(c) /\ c.id \in Nat \ {0} /\ c.step.op = "restore"
  BY DEF ServeRestore, Asked, IInv, Calls, CallOK, CallType
<1>2. q \in Chains /\ q[1].op = "reload"
  BY DoIsStep, OneStep
<1>3. PICK r : r = Call(c.id, q)
  OBVIOUS
<1>4. /\ net' = (net \ {c}) \cup {r} /\ db' = backup
      /\ UNCHANGED <<gateway, backup, mem, kb, drawn, acts, fails, drafts, heard>>
  BY <1>3 DEF ServeRestore, Reply, page
<1> HIDE DEF q
<1>5. CallOK(r) /\ Owing(r)
  BY <1>1, <1>2, <1>3, CallIsOK DEF Owing
<1>6. Calls(net')
  BY <1>4, <1>5, FS_RemoveElement, FS_AddElement DEF IInv, Calls
<1>7. Follows'
  BY <1>4, <1>5 DEF Follows
<1> QED
  BY <1>4, <1>6, <1>7 DEF IInv, heard

LEMMA ServeStep == ASSUME IInv, Ids(net), NEW c \in net, Serve(c) PROVE IInv'
<1>1. CASE ServeMail(c) \/ ServeBackup(c)
  <2>1. /\ net' = net \ {c} /\ c.step.op \in {"mail", "backup"} /\ backup' \in {backup, db}
        /\ UNCHANGED <<db, gateway, mem, kb, drawn, acts, fails, drafts, heard>>
    BY <1>1 DEF ServeMail, ServeBackup, Asked, Shows, server, page
  <2>2. Calls(net') /\ Kept(net, net')
    BY <2>1, ShowsKeeps DEF IInv
  <2>3. Follows'
    BY <2>1, <2>2, FollowsKept DEF IInv
  <2> QED
    BY <2>1, <2>2, <2>3 DEF IInv, heard
<1> QED
  BY <1>1, ServeReadStep, ServeWriteStep, ServeSeedStep, ReadStep, InstallStep, RestoreStep DEF Serve

LEMMA FailStep == ASSUME IInv, NEW c \in net, Fail(c) PROVE IInv'
<1>1. Calls(net) /\ CallOK(c)
  BY DEF IInv, Calls
<1>2. fails' \in 0..MaxFails /\ UNCHANGED <<db, gateway, backup>>
  BY BoundsAssumption DEF Fail, IInv, server
<1>3. CASE c.step.op \in {"mail", "backup", "restore"}
  <2>1. net' = net \ {c} /\ UNCHANGED <<mem, kb, drawn, acts, drafts, heard>>
    BY <1>3 DEF Fail, Shows, page
  <2>2. Calls(net') /\ Kept(net, net')
    BY <1>1, <1>3, <2>1, ShowsKeeps
  <2>3. Follows'
    BY <1>2, <2>1, <2>2, FollowsKept DEF IInv
  <2> QED
    BY <1>2, <2>1, <2>2, <2>3 DEF IInv, heard
<1>4. CASE c.step.op = "reload"
  <2>1. /\ net' = net \ {c} /\ UNCHANGED <<mem, kb, drawn, acts, drafts>>
        /\ newest' = 0 /\ unheard' = TRUE
    BY <1>4 DEF Fail, Shows, page
  <2>2. Calls(net')
    BY <1>1, <2>1, ShowsKeeps
  <2>3. Follows'
    BY <2>1 DEF Follows
  <2> QED
    BY <1>2, <2>1, <2>2, <2>3 DEF IInv
<1>5. CASE c.step.op \notin {"reload", "mail", "backup", "restore"}
  <2> DEFINE r == [c EXCEPT !.state = "failed"]
  <2>1. CallOK(r) /\ r.step = c.step
    BY <1>1, Answering, NoRowsOK
  <2>2. net' = (net \ {c}) \cup {r} /\ UNCHANGED <<mem, kb, drawn, acts, drafts, heard>>
    BY <1>5 DEF Fail, Reply, page
  <2> HIDE DEF r
  <2>3. Calls(net') /\ Kept(net, net')
    BY <1>1, <1>5, <2>1, <2>2, ReplyKeeps
  <2>4. Follows'
    BY <1>2, <2>2, <2>3, FollowsKept DEF IInv
  <2> QED
    BY <1>2, <2>2, <2>3, <2>4 DEF IInv, heard
<1> QED
  BY <1>3, <1>4, <1>5

-----------------------------------------------------------------------------
(* The invariant. *)

LEMMA StoredIs ==
  ASSUME NEW feature \in {None, Old}, NEW config, config = None \/ config \in Sound
  PROVE  LET r == Stored(feature, config) IN
         /\ r \in DbRows /\ r["proxy_enabled"] = TRUE /\ r["kb_paused"] = FALSE
         /\ \A k \in Plain : r[k] = Old
<1> DEFINE g(k) == CASE k \in Plain -> Old
                     [] k = "feature" -> feature
                     [] k = "proxy_enabled" -> TRUE
                     [] k = "kb_paused" -> FALSE
                     [] k = "complexity" -> config
           r == [k \in Keys |-> g(k)]
<1>1. Stored(feature, config) = r
  BY DEF Stored
<1>2. /\ \A k \in Plain : g(k) = Old
      /\ g("feature") = feature
      /\ g("proxy_enabled") = TRUE /\ g("kb_paused") = FALSE /\ g("complexity") = config
  BY KeysAre
<1> HIDE DEF g
<1>3. \A k \in Keys : g(k) \in Datum
  BY <1>2, KeysAre, OldAssumption DEF Datum, Sound
<1>4. r \in [Keys -> Datum] /\ \A k \in Keys : r[k] = g(k)
  BY <1>3
<1> HIDE DEF r
<1>5. RowsOK(r)
  BY <1>2, <1>4, KeysAre, OldAssumption DEF RowsOK, Sound
<1> QED
  BY <1>1, <1>2, <1>4, <1>5, KeysAre DEF DbRows, Rows

\* The rows at start.
LEMMA InitRows ==
  ASSUME Init
  PROVE  /\ db \in DbRows /\ db["proxy_enabled"] = TRUE /\ db["kb_paused"] = FALSE
         /\ \A k \in Plain : db[k] = Old
<1>1. PICK feature \in {None, Old}, config \in {None, Default} \cup Former :
        db = Stored(feature, config)
  BY DEF Init
<1>2. config = None \/ config \in Sound
  BY <1>1, DefaultSound, FormerSound
<1> QED
  BY <1>1, <1>2, StoredIs

LEMMA InitInv == ASSUME Init PROVE IInv
<1>1. /\ gateway = TRUE /\ backup = db
      /\ fails = 0 /\ drafts = {} /\ newest = 0 /\ unheard = FALSE
  BY DEF Init
<1>2. db \in DbRows /\ db["proxy_enabled"] = TRUE
  BY InitRows
<1>3. mem \in Rows /\ (kb = None \/ kb = FALSE) /\ drawn \in BOOLEAN /\ acts \in {0, 1}
  <2>1. \/ acts = 1 /\ mem = NoRows /\ kb = None /\ drawn = FALSE
        \/ acts = 0 /\ mem = db /\ kb = FALSE /\ drawn = TRUE
    BY DEF Init
  <2> QED
    BY <1>2, <2>1, NoRowsOK DEF DbRows
<1>4. Calls(net)
  <2>1. /\ Do("status") \in Later /\ Do("load") \in Later /\ Do("seed") \in Later
    BY DoIsStep
  <2>2. Opening \in Seq(Later) /\ Len(Opening) = 4
    BY <2>1 DEF Opening
  <2>3. CallOK(Call(1, Opening))
    BY <2>2, EmptySeq, LaterChain, CallIsOK
  <2>4. net = {} \/ net = {Call(1, Opening)}
    BY DEF Init
  <2> DEFINE d == Call(1, Opening)
  <2> HIDE DEF d
  <2>5. IsFiniteSet(net)
    <3>1. IsFiniteSet({}) /\ IsFiniteSet({d})
      BY FS_EmptySet, FS_Singleton
    <3> QED
      BY <2>4, <3>1 DEF d
  <2> QED
    BY <2>3, <2>4, <2>5 DEF Calls
<1>5. backup \in DbRows /\ gateway \in BOOLEAN /\ drafts \subseteq Keys /\ Follows
  BY <1>1, <1>2 DEF Follows
<1>6. acts \in 0..MaxActs /\ fails \in 0..MaxFails
  BY <1>1, <1>3, BoundsAssumption
<1> QED
  BY <1>1, <1>2, <1>3, <1>4, <1>5, <1>6 DEF IInv

LEMMA NextInv == ASSUME IInv, Ids(net), [Next]_vars PROVE IInv'
<1>1. CASE UNCHANGED vars
  BY <1>1 DEF vars, IInv, Follows, Brings, Calls
<1>2. ASSUME NEW c \in net, Answered(c) PROVE IInv'
  BY <1>2, ListedStep, SeededStep, SavedStep, SaveFailedStep, StatusStep DEF Answered
<1>3. ASSUME NEW v \in Values \ {Old},
             \/ SaveOne(v) \/ SaveAlertNotify(v) \/ SendTestEmail(v)
             \/ SaveExtractConfig(v) \/ ChangeExtractProvider(v) \/ EditHealthConfigs(v)
      PROVE  IInv'
  BY <1>3, SimpleStep, CardStep, EditStep
<1>4. CASE Load \/ Refresh \/ ReloadProxy \/ Backup \/ Restore
  BY <1>4, LoadStep, PlainStep
<1>5. CASE SaveHealthConfigs \/ ResetHealthConfigs \/ SaveComplexityConfig \/ ResetComplexityConfig
  BY <1>5, SimpleStep, ComplexityStep, OldAssumption
<1>6. ASSUME NEW b \in BOOLEAN, ToggleProxySwitch(b) \/ PauseKb(b) PROVE IInv'
  BY <1>6, SwitchStep, PauseStep
<1>7. ASSUME NEW i \in 1..Bands, NEW v \in 0..Top, UpdateComplexityTier(i, v) PROVE IInv'
  BY <1>7, TierStep
<1>8. ASSUME NEW c \in net, Serve(c) \/ Fail(c) PROVE IInv'
  BY <1>8, ServeStep, FailStep
<1> QED
  BY <1>1, <1>2, <1>3, <1>4, <1>5, <1>6, <1>7, <1>8 DEF Next

-----------------------------------------------------------------------------
(* What the page shows. *)

\* The rest of a chain.
Seeds == <<Do("seed"), Do("seed")>>
PutTail(t) == \A i \in 1..Len(t) :
  \/ t[i].op = "put" /\ t[i].key \in Plain
  \/ t[i].op \in {"load", "mail", "reload"} /\ i = Len(t)

\* Rows that the page has created if they are missing; no button saves the feature.
Created == {"feature", "complexity"}

\* What follows a step in a chain.
Shape(s, t) ==
  /\ s.op = "load"   => t \in {<<>>, Seeds}
  /\ s.op = "status" => t \in {<<>>, <<Do("load"), Do("seed"), Do("seed")>>}
  /\ s.op = "seed"   => t \in {<<>>, <<Do("seed")>>}
  /\ s.op = "pause"  => t = <<Do("status")>>
  /\ s.op = "put"    => PutTail(t)

DbFull == \A k \in Keys \ Created : db[k] # None /\ backup[k] # None

\* What a call that is alone on the rows knows of them.
Now(c) ==
  /\ c.state = "failed" => fails >= 1
  /\ c.step.op \in {"put", "pause", "restore"} => drawn
  /\ c.step.op = "status" /\ c.todo = <<>> => drawn
  /\ c.step.op = "put" =>
       /\ c.step.key \notin {"kb_paused", "feature"}
       /\ mem[c.step.key] # None \/ c.step.key \in drafts
       /\ c.state = "ok" => db[c.step.key] = c.step.value
  /\ c.step.op \in {"load", "status"} /\ c.state = "ok" => c.rows = db
  /\ c.step.op = "seed" =>
       /\ mem["feature"] = None \/ mem["complexity"] = None
       /\ mem["feature"] # None /\ drawn /\ "rows" \notin restored => mem["feature"] = db["feature"]

\* A call whose answer will settle what the page shows of the row k, or of the
\* knowledge base.
Settles(c, k) == \/ c.step.op = "load"
                 \/ c.step.op = "put" /\ c.step.key = k
                 \/ c.step.op = "seed" /\ k \in Created
SettlesKb(c) == c.step.op \in {"pause", "status"}

Agrees(k) == mem[k] = db[k] \/ NotShown(k)

RowsAgree == drawn /\ "rows" \notin restored =>
  \A k \in Keys \ {"kb_paused"} : k \in drafts \/ Agrees(k) \/ \E c \in net : Settles(c, k)
KbAgrees  == "kb" \notin restored /\ fails = 0 =>
  kb = db["kb_paused"] \/ \E c \in net : SettlesKb(c)
Loaded    == drawn => \A k \in Keys \ Created : mem[k] # None \/ k \in drafts

Calm == (\A c \in net : Now(c)) /\ RowsAgree /\ KbAgrees /\ Loaded

PInv ==
  /\ Ids(net) /\ DbFull
  /\ \A c \in net : Shape(c.step, c.todo)
  /\ mixed \/ (~Mixing(net) /\ Calm)

-----------------------------------------------------------------------------
(* Chains as they are sent. *)

\* The call k is the chain q, sent beside the calls of S.
Sent(S, q, k) == /\ k.step = q[1] /\ k.todo = Tail(q) /\ k.state = "sent"
                 /\ \A c \in S : c.id # k.id

LEMMA CallIsSent ==
  ASSUME NEW S, NEW n, NEW q \in Chains, \A c \in S : c.id # n
  PROVE  Sent(S, q, Call(n, q)) /\ Call(n, q).id = n
<1>1. q \in Seq(Steps) /\ q # <<>>
  BY DEF Chains
<1>2. Head(q) = q[1]
  BY <1>1, HeadTailProperties
<1> QED
  BY <1>2 DEF Call, Sent

LEMMA SendsNone ==
  ASSUME NEW S, Sends(S, <<>>)
  PROVE  net' = S /\ mixed' = (mixed \/ Mixing(net'))
BY DEF Sends

LEMMA SendsOne ==
  ASSUME NEW S, Calls(S), Ids(S), NEW q \in Chains, Sends(S, <<q>>)
  PROVE  /\ Ids(net') /\ mixed' = (mixed \/ Mixing(net'))
         /\ \E k : net' = S \cup {k} /\ Sent(S, q, k)
<1> DEFINE k == Call(Free(S), q)
<1>1. Free(S) \in Nat /\ \A c \in S : c.id # Free(S)
  BY FreeNumber
<1>2. net' = S \cup {Call(Free(S) + i - 1, <<q>>[i]) : i \in DOMAIN <<q>>}
      /\ mixed' = (mixed \/ Mixing(net'))
  BY DEF Sends, Free
<1>3. DOMAIN <<q>> = {1} /\ <<q>>[1] = q /\ Free(S) + 1 - 1 = Free(S)
  BY <1>1
<1>4. {Call(Free(S) + i - 1, <<q>>[i]) : i \in DOMAIN <<q>>} = {k}
  BY <1>3
<1>5. Sent(S, q, k) /\ k.id = Free(S)
  BY <1>1, CallIsSent
<1> HIDE DEF k
<1>6. net' = S \cup {k}
  BY <1>2, <1>4
<1>7. Ids(net')
  BY <1>1, <1>5, <1>6 DEF Ids
<1> QED
  BY <1>2, <1>5, <1>6, <1>7

LEMMA SendsTwo ==
  ASSUME NEW S, Calls(S), Ids(S), NEW q \in Chains, NEW r \in Chains, Sends(S, <<q, r>>)
  PROVE  /\ Ids(net') /\ mixed' = (mixed \/ Mixing(net'))
         /\ \E k, l : net' = S \cup {k, l} /\ k.id # l.id /\ Sent(S, q, k) /\ Sent(S, r, l)
<1> DEFINE k == Call(Free(S), q)
           l == Call(Free(S) + 1, r)
           f(i) == Call(Free(S) + i - 1, <<q, r>>[i])
<1>1. Free(S) \in Nat /\ Free(S) + 1 \in Nat /\ \A c \in S : c.id \notin {Free(S), Free(S) + 1}
  BY FreeNumber
<1>2. net' = S \cup {f(i) : i \in DOMAIN <<q, r>>}
      /\ mixed' = (mixed \/ Mixing(net'))
  BY DEF Sends, Free
<1>3. DOMAIN <<q, r>> = {1, 2} /\ <<q, r>>[1] = q /\ <<q, r>>[2] = r
  OBVIOUS
<1>8. Free(S) + 1 - 1 = Free(S) /\ Free(S) + 2 - 1 = Free(S) + 1
  BY <1>1
<1>9. f(1) = k /\ f(2) = l
  BY <1>3, <1>8
<1> HIDE DEF f, k, l
<1>4. net' = S \cup {k, l}
  BY <1>2, <1>3, <1>9
<1> USE DEF k, l
<1>5. /\ Sent(S, q, k) /\ k.id = Free(S)
      /\ Sent(S, r, l) /\ l.id = Free(S) + 1
  BY <1>1, CallIsSent
<1> HIDE DEF k, l
<1>6. k.id # l.id
  BY <1>1, <1>5
<1>7. Ids(net')
  BY <1>1, <1>4, <1>5, <1>6 DEF Ids
<1> QED
  BY <1>2, <1>4, <1>5, <1>6, <1>7

\* The calls of T are those of S, up to what they put back.
Same(c, d) == /\ d.id = c.id /\ d.step = c.step /\ d.todo = c.todo
              /\ d.state = c.state /\ d.rows = c.rows
Alike(S, T) == /\ \A c \in S : \E d \in T : Same(c, d)
               /\ \A d \in T : \E c \in S : Same(c, d)

LEMMA EditingAlike ==
  ASSUME NEW S, Calls(S), Ids(S), NEW k, NEW v
  PROVE  Alike(S, Editing(S, k, v)) /\ Ids(Editing(S, k, v))
<1> DEFINE f(c) == IF c.own /\ c.step.key = k THEN [c EXCEPT !.held = v] ELSE c
<1>1. ASSUME NEW c \in S PROVE Same(c, f(c))
  <2>1. c \in CallType
    BY DEF Calls, CallOK
  <2> QED
    BY <2>1 DEF Same, CallType
<1>2. Editing(S, k, v) = {f(c) : c \in S}
  BY DEF Editing
<1> HIDE DEF f
<1> QED
  BY <1>1, <1>2 DEF Alike, Same, Ids

LEMMA ReplacedAlike ==
  ASSUME NEW S, Calls(S), Ids(S)
  PROVE  Alike(S, Replaced(S)) /\ Ids(Replaced(S))
<1> DEFINE f(c) == [c EXCEPT !.own = FALSE]
<1>1. ASSUME NEW c \in S PROVE Same(c, f(c))
  <2>1. c \in CallType
    BY DEF Calls, CallOK
  <2> QED
    BY <2>1 DEF Same, CallType
<1>2. Replaced(S) = {f(c) : c \in S}
  BY DEF Replaced
<1> HIDE DEF f
<1> QED
  BY <1>1, <1>2 DEF Alike, Same, Ids

\* The rest of a chain has the shape of a chain.
LEMMA Onward ==
  ASSUME NEW s, NEW t \in Seq(Steps), t # <<>>, Shape(s, t),
         s.op \in {"load", "status", "seed", "pause", "put"}
  PROVE  Shape(t[1], Tail(t))
<1> USE DEF Seeds
<1>1. CASE s.op = "load"
  <2>1. t = <<Do("seed"), Do("seed")>>
    BY <1>1 DEF Shape
  <2>2. t[1] = Do("seed") /\ Tail(t) = <<Do("seed")>>
    BY <2>1
  <2> QED
    BY <2>2 DEF Shape, Do, Step
<1>2. CASE s.op = "status"
  <2>1. t = <<Do("load"), Do("seed"), Do("seed")>>
    BY <1>2 DEF Shape
  <2>2. t[1] = Do("load") /\ Tail(t) = <<Do("seed"), Do("seed")>>
    BY <2>1
  <2> QED
    BY <2>2 DEF Shape, Do, Step
<1>3. CASE s.op = "seed"
  <2>1. t = <<Do("seed")>>
    BY <1>3 DEF Shape
  <2>2. t[1] = Do("seed") /\ Tail(t) = <<>>
    BY <2>1
  <2> QED
    BY <2>2 DEF Shape, Do, Step
<1>4. CASE s.op = "pause"
  <2>1. t = <<Do("status")>>
    BY <1>4 DEF Shape
  <2>2. t[1] = Do("status") /\ Tail(t) = <<>>
    BY <2>1
  <2> QED
    BY <2>2 DEF Shape, Do, Step
<1>5. CASE s.op = "put"
  <2> DEFINE u == Tail(t)
  <2>1. PutTail(t)
    BY <1>5 DEF Shape
  <2>2. Len(t) \in Nat \ {0}
    BY EmptySeq, LenProperties
  <2>3. u \in Seq(Steps) /\ Len(u) = Len(t) - 1 /\ \A i \in 1..Len(u) : u[i] = t[i + 1]
    BY HeadTailProperties
  <2> HIDE DEF u
  <2>4. PutTail(u)
    <3> SUFFICES ASSUME NEW i \in 1..Len(u)
                 PROVE  \/ u[i].op = "put" /\ u[i].key \in Plain
                        \/ u[i].op \in {"load", "mail", "reload"} /\ i = Len(u)
      BY DEF PutTail
    <3>1. i + 1 \in 1..Len(t) /\ u[i] = t[i + 1]
      BY <2>2, <2>3
    <3>2. i + 1 = Len(t) => i = Len(u)
      BY <2>2, <2>3
    <3> QED
      BY <2>1, <3>1, <3>2 DEF PutTail
  <2>5. CASE t[1].op = "put"
    BY <2>4, <2>5 DEF Shape, u
  <2>6. CASE t[1].op \in {"load", "mail", "reload"} /\ Len(t) = 1
    <3>1. u = <<>>
      BY <2>3, <2>6, EmptySeq
    <3> QED
      BY <2>6, <3>1 DEF Shape, u
  <2>7. 1 \in 1..Len(t)
    BY <2>2
  <2>8. t[1].op = "put" \/ (t[1].op \in {"load", "mail", "reload"} /\ Len(t) = 1)
    BY <2>1, <2>7 DEF PutTail
  <2> QED
    BY <2>5, <2>6, <2>8
<1> QED
  BY <1>1, <1>2, <1>3, <1>4, <1>5

LEMMA RestIs ==
  ASSUME NEW todo \in Seq(Later)
  PROVE  Rest(todo) \in Seq(Chains) /\ Rest(todo) \o <<>> = Rest(todo)
<1>1. todo # <<>> => todo \in Chains
  BY LaterChain
<1>2. Rest(todo) \in Seq(Chains)
  BY <1>1 DEF Rest
<1> QED
  BY <1>2, ConcatEmptySeq

\* What is left of a chain is sent, or nothing.
LEMMA RestSent ==
  ASSUME NEW S, Calls(S), Ids(S), \A d \in S : Shape(d.step, d.todo),
         NEW todo \in Seq(Later), todo # <<>> => Shape(todo[1], Tail(todo)),
         Sends(S, Rest(todo))
  PROVE  /\ Ids(net') /\ mixed' = (mixed \/ Mixing(net'))
         /\ \A d \in net' : Shape(d.step, d.todo)
         /\ \/ todo = <<>> /\ net' = S
            \/ todo # <<>> /\ \E k : net' = S \cup {k} /\ Sent(S, todo, k)
<1>1. CASE todo = <<>>
  <2>1. Sends(S, <<>>)
    BY <1>1 DEF Rest
  <2>2. net' = S /\ mixed' = (mixed \/ Mixing(net'))
    BY <2>1, SendsNone
  <2> QED
    BY <1>1, <2>2
<1>2. CASE todo # <<>>
  <2>1. todo \in Chains /\ Sends(S, <<todo>>)
    BY <1>2, LaterChain DEF Rest
  <2>2. /\ Ids(net') /\ mixed' = (mixed \/ Mixing(net'))
        /\ \E k : net' = S \cup {k} /\ Sent(S, todo, k)
    BY <2>1, SendsOne
  <2>3. \A d \in net' : Shape(d.step, d.todo)
    BY <1>2, <2>2 DEF Sent
  <2> QED
    BY <1>2, <2>2, <2>3
<1> QED
  BY <1>1, <1>2

LEMMA PairIs ==
  ASSUME NEW S, NEW a \in S, NEW b \in S
  PROVE  <<a>> \o <<b>> = <<a, b>>
<1>1. <<a>> \in Seq(S) /\ <<b>> \in Seq(S) /\ Len(<<a>>) = 1 /\ Len(<<b>>) = 1
  OBVIOUS
<1>2. \A i \in 1..2 : (<<a>> \o <<b>>)[i] = <<a, b>>[i]
  BY <1>1, ConcatProperties
<1>3. <<a>> \o <<b>> \in Seq(S) /\ Len(<<a>> \o <<b>>) = 2
  BY <1>1, ConcatProperties
<1>4. <<a, b>> \in Seq(S) /\ Len(<<a, b>>) = 2
  OBVIOUS
<1> QED
  BY <1>2, <1>3, <1>4, SeqEqual

\* A call for the rows that nothing follows.
IsLoad(l) == l.step = Do("load") /\ l.todo = <<>> /\ l.state = "sent"

LEMMA LoadSent ==
  ASSUME NEW S, NEW l, Sent(S, <<Do("load")>>, l)
  PROVE  IsLoad(l)
<1>1. <<Do("load")>>[1] = Do("load") /\ Tail(<<Do("load")>>) = <<>>
  OBVIOUS
<1> QED
  BY <1>1 DEF Sent, IsLoad

LEMMA LoadIs ==
  ASSUME NEW l, IsLoad(l)
  PROVE  l.step.op = "load" /\ Shape(l.step, l.todo) /\ OnRows(l)
BY DEF IsLoad, Do, Step, Shape, OnRows

\* The rows are loaded beside what is left of a chain.
LEMMA RestAndLoadSent ==
  ASSUME NEW S, Calls(S), Ids(S), \A d \in S : Shape(d.step, d.todo),
         NEW todo \in Seq(Later), todo # <<>> => Shape(todo[1], Tail(todo)),
         Sends(S, Rest(todo) \o << <<Do("load")>> >>)
  PROVE  /\ Ids(net') /\ mixed' = (mixed \/ Mixing(net'))
         /\ \A d \in net' : Shape(d.step, d.todo)
         /\ \E l : /\ IsLoad(l)
                   /\ \/ todo = <<>> /\ net' = S \cup {l}
                      \/ todo # <<>> /\ \E k : /\ net' = S \cup {k, l} /\ k.id # l.id
                                               /\ Sent(S, todo, k)
<1> DEFINE q == <<Do("load")>>
<1>0. q \in Chains
  BY DoIsStep, OneStep
<1> HIDE DEF q
<1>1. CASE todo = <<>>
  <2>1. Sends(S, <<q>>)
    <3>1. Rest(todo) \o <<q>> = <<q>>
      BY <1>1 DEF Rest
    <3> QED
      BY <3>1 DEF q
  <2>2. /\ Ids(net') /\ mixed' = (mixed \/ Mixing(net'))
        /\ \E k : net' = S \cup {k} /\ Sent(S, q, k)
    BY <1>0, <2>1, SendsOne
  <2>3. PICK l : net' = S \cup {l} /\ Sent(S, q, l)
    BY <2>2
  <2>4. IsLoad(l) /\ Shape(l.step, l.todo)
    BY <2>3, LoadSent, LoadIs DEF q
  <2>5. \A d \in net' : Shape(d.step, d.todo)
    BY <2>3, <2>4
  <2> QED
    BY <1>1, <2>2, <2>3, <2>4, <2>5
<1>2. CASE todo # <<>>
  <2>1. todo \in Chains
    BY <1>2, LaterChain
  <2>2. Sends(S, <<todo, q>>)
    <3>1. Rest(todo) = <<todo>>
      BY <1>2 DEF Rest
    <3>2. Rest(todo) \o <<q>> = <<todo, q>>
      BY <1>0, <2>1, <3>1, PairIs
    <3> QED
      BY <3>2 DEF q
  <2>3. /\ Ids(net') /\ mixed' = (mixed \/ Mixing(net'))
        /\ \E k, l : net' = S \cup {k, l} /\ k.id # l.id /\ Sent(S, todo, k) /\ Sent(S, q, l)
    BY <1>0, <2>1, <2>2, SendsTwo
  <2>4. PICK k, l : net' = S \cup {k, l} /\ k.id # l.id /\ Sent(S, todo, k) /\ Sent(S, q, l)
    BY <2>3
  <2>5. IsLoad(l) /\ Shape(l.step, l.todo)
    BY <2>4, LoadSent, LoadIs DEF q
  <2>6. Shape(k.step, k.todo)
    BY <1>2, <2>4 DEF Sent
  <2>7. \A d \in net' : Shape(d.step, d.todo)
    BY <2>4, <2>5, <2>6
  <2> QED
    BY <1>2, <2>3, <2>4, <2>5, <2>7
<1> QED
  BY <1>1, <1>2

-----------------------------------------------------------------------------
(* A call that is alone on the rows. *)

LEMMA Alone ==
  ASSUME Ids(net), ~Mixing(net), NEW c \in net, OnRows(c)
  PROVE  \A d \in net \ {c} : ~OnRows(d)
BY DEF Ids, Mixing

LEMMA NowElsewhere ==
  ASSUME NEW c, ~OnRows(c), c.state = "failed" => fails' >= 1
  PROVE  Now(c)'
BY DEF Now, OnRows

LEMMA NowSame ==
  ASSUME NEW c, NEW d, Same(c, d), Now(c)'
  PROVE  Now(d)'
BY DEF Now, Same

LEMMA SettlesSame ==
  ASSUME NEW c, NEW d, Same(c, d)
  PROVE  /\ OnRows(c) <=> OnRows(d)
         /\ \A k : Settles(c, k) <=> Settles(d, k)
         /\ SettlesKb(c) <=> SettlesKb(d)
BY DEF Same, OnRows, Settles, SettlesKb

LEMMA SettlesOnRows ==
  ASSUME NEW c, ~OnRows(c)
  PROVE  ~SettlesKb(c) /\ \A k : ~Settles(c, k)
BY DEF OnRows, Settles, SettlesKb

\* A button that starts a chain.
LEMMA ButtonCalm ==
  ASSUME IInv, PInv, NEW q \in Chains, Start(q),
         UNCHANGED <<server, page, fails, drafts, heard, restored>>,
         Shape(q[1], Tail(q)), q[1].op # "seed", q[1].op = "status" => Tail(q) # <<>>,
         q[1].op \in {"put", "pause", "restore"} => drawn,
         q[1].op = "put" => /\ q[1].key \notin {"kb_paused", "feature"}
                            /\ mixed \/ mem[q[1].key] # None \/ q[1].key \in drafts
  PROVE  PInv'
<1>1. Calls(net) /\ Ids(net)
  BY DEF IInv, PInv
<1>2. /\ Ids(net') /\ mixed' = (mixed \/ Mixing(net'))
      /\ \E k : net' = net \cup {k} /\ Sent(net, q, k)
  BY <1>1, SendsOne DEF Start
<1>3. PICK k : net' = net \cup {k} /\ Sent(net, q, k)
  BY <1>2
<1>4. UNCHANGED <<db, backup, mem, kb, drawn, fails, drafts, restored>>
  BY DEF server, page
<1>5. DbFull' /\ \A d \in net' : Shape(d.step, d.todo)
  BY <1>3, <1>4 DEF PInv, DbFull, Sent
<1>6. ASSUME ~mixed' PROVE ~Mixing(net') /\ Calm'
  <2>1. ~mixed /\ ~Mixing(net') /\ Calm
    BY <1>2, <1>6 DEF PInv
  <2>2. ASSUME NEW c \in net PROVE Now(c)'
    BY <1>4, <2>1 DEF Calm, Now
  <2>3. Now(k)'
    BY <1>3, <1>4, <2>1 DEF Now, Sent
  <2>4. RowsAgree' /\ KbAgrees' /\ Loaded'
    BY <1>3, <1>4, <2>1 DEF Calm, RowsAgree, KbAgrees, Loaded, Agrees, NotShown
  <2> QED
    BY <1>3, <2>1, <2>2, <2>3, <2>4 DEF Calm
<1> QED
  BY <1>2, <1>5, <1>6 DEF PInv

\* A button of one save, with nothing or one call after it.
LEMMA SaveCalm ==
  ASSUME IInv, PInv, drawn, NEW s \in Steps, s.op = "put", s.key \notin {"kb_paused", "feature"},
         mixed \/ s.key # "complexity" \/ mem["complexity"] # None,
         NEW q \in Chains, Start(q), q[1] = s, PutTail(Tail(q)),
         UNCHANGED <<server, page, fails, drafts, heard, restored>>
  PROVE  PInv'
<1>1. s.key \in Keys
  BY DEF Steps
<1>2. mixed \/ mem[s.key] # None \/ s.key \in drafts
  BY <1>1 DEF PInv, Calm, Loaded, Created
<1>3. Shape(q[1], Tail(q))
  BY DEF Shape
<1> QED
  BY <1>2, <1>3, ButtonCalm

LEMMA PutTails ==
  /\ PutTail(<<>>)
  /\ \A op \in {"load", "reload"} : PutTail(<<Do(op)>>)
<1>1. PutTail(<<>>)
  BY DEF PutTail
<1>2. ASSUME NEW op \in {"load", "reload"} PROVE PutTail(<<Do(op)>>)
  <2> DEFINE s == Do(op)
  <2>1. s.op = op
    BY DEF Do, Step
  <2> HIDE DEF s
  <2>2. Len(<<s>>) = 1 /\ <<s>>[1] = s
    OBVIOUS
  <2>3. PutTail(<<s>>)
    BY <2>1, <2>2 DEF PutTail
  <2> QED
    BY <2>3 DEF s
<1> QED
  BY <1>1, <1>2

\* A card: the save of its second setting follows that of the first.
LEMMA CardTail ==
  ASSUME NEW card \in {Alert, Extract}, NEW v \in Values, NEW after \in Seq(Later),
         \A i \in 1..Len(after) : after[i].op \in {"load", "mail", "reload"} /\ i = Len(after)
  PROVE  /\ (Saves(card, v) \o after)[1] = Put(card[1], v)
         /\ PutTail(Tail(Saves(card, v) \o after))
<1> DEFINE s == Saves(card, v)
<1>1. /\ s \in Seq(Later) /\ Len(s) = 2 /\ card[2] \in Plain
      /\ s[1] = Put(card[1], v) /\ s[2] = Put(card[2], v)
  BY CardSaves
<1> HIDE DEF s
<1> DEFINE q == s \o after
<1>6. Len(after) \in Nat
  BY LenProperties
<1>7. /\ q \in Seq(Later) /\ Len(q) = Len(s) + Len(after)
      /\ \A i \in 1..Len(s) + Len(after) : q[i] = IF i <= Len(s) THEN s[i] ELSE after[i - Len(s)]
  BY <1>1, ConcatProperties
<1> DEFINE u == Tail(q)
<1> HIDE DEF q
<1>8. q # <<>>
  BY <1>1, <1>6, <1>7, EmptySeq
<1>9. u \in Seq(Later) /\ Len(u) = Len(q) - 1 /\ \A i \in 1..Len(u) : u[i] = q[i + 1]
  BY <1>7, <1>8, HeadTailProperties
<1> HIDE DEF u
<1>10. Put(card[2], v).op = "put" /\ Put(card[2], v).key = card[2]
  BY DEF Put, Step
<1>11. PutTail(u)
  <2> SUFFICES ASSUME NEW i \in 1..Len(u)
               PROVE  \/ u[i].op = "put" /\ u[i].key \in Plain
                      \/ u[i].op \in {"load", "mail", "reload"} /\ i = Len(u)
    BY DEF PutTail
  <2>1. CASE i = 1
    <3>1. u[i] = s[2]
      BY <1>1, <1>6, <1>7, <1>9, <2>1
    <3> QED
      BY <1>1, <1>10, <3>1
  <2>2. CASE i # 1
    <3>1. i - 1 \in 1..Len(after) /\ u[i] = after[i - 1]
      BY <1>1, <1>6, <1>7, <1>9, <2>2
    <3>2. after[i - 1].op \in {"load", "mail", "reload"} /\ i - 1 = Len(after)
      BY <3>1
    <3> QED
      BY <1>1, <1>6, <1>7, <1>9, <3>1, <3>2
  <2> QED
    BY <2>1, <2>2
<1>12. q[1] = Put(card[1], v)
  BY <1>1, <1>6, <1>7
<1> QED
  BY <1>11, <1>12 DEF q, s, u

\* The buttons, one by one.
LEMMA OpenCalm ==
  ASSUME IInv, PInv, Load \/ Refresh \/ ReloadProxy \/ Backup \/ Restore
  PROVE  PInv'
<1>1. CASE Load
  <2>1. /\ Do("status") \in Later /\ Do("load") \in Later /\ Do("seed") \in Later
    BY DoIsStep
  <2>2. Opening \in Seq(Later) /\ Len(Opening) = 4
    BY <2>1 DEF Opening
  <2>3. Opening \in Chains
    BY <2>2, EmptySeq, LaterChain
  <2>4. Opening[1] = Do("status") /\ Tail(Opening) = <<Do("load"), Do("seed"), Do("seed")>>
    BY DEF Opening
  <2>5. Do("status").op = "status"
    BY DEF Do, Step
  <2>6. Shape(Opening[1], Tail(Opening)) /\ Tail(Opening) # <<>>
    BY <2>4, <2>5 DEF Shape
  <2>7. /\ Start(Opening)
        /\ UNCHANGED <<server, page, fails, drafts, heard, restored>>
    BY <1>1 DEF Load
  <2> QED
    BY <2>3, <2>4, <2>5, <2>6, <2>7, ButtonCalm
<1>2. ASSUME NEW op \in {"load", "reload", "backup", "restore"}, Start(<<Do(op)>>),
             UNCHANGED <<server, page, fails, drafts, heard, restored>>, drawn
      PROVE  PInv'
  <2> DEFINE q == <<Do(op)>>
  <2>1. q \in Chains
    BY DoIsStep, OneStep
  <2>2. q[1] = Do(op) /\ Tail(q) = <<>> /\ Do(op).op = op
    BY DEF Do, Step
  <2>3. Start(q)
    BY <1>2
  <2> HIDE DEF q
  <2>4. Shape(q[1], Tail(q))
    BY <2>2 DEF Shape
  <2> QED
    BY <1>2, <2>1, <2>2, <2>3, <2>4, ButtonCalm
<1> QED
  BY <1>1, <1>2 DEF Refresh, ReloadProxy, Backup, Restore

\* Settings that are saved alone, or with one call after the save.
LEMMA OneSaveCalm ==
  ASSUME IInv, PInv, drawn, NEW s \in Steps, s.op = "put", s.key \notin {"kb_paused", "feature"},
         s.key = "complexity" => mem["complexity"] # None, s \in Later,
         Start(<<s>>), UNCHANGED <<server, page, fails, drafts, heard, restored>>
  PROVE  PInv'
<1> DEFINE q == <<s>>
<1>1. q \in Chains
  BY OneStep
<1>2. q[1] = s /\ Tail(q) = <<>> /\ Start(q)
  OBVIOUS
<1> HIDE DEF q
<1>3. PutTail(Tail(q))
  BY <1>2, PutTails
<1> QED
  BY <1>1, <1>2, <1>3, SaveCalm

LEMMA SaveAndCalm ==
  ASSUME IInv, PInv, drawn, NEW s \in Steps, s.op = "put", s.key \notin {"kb_paused", "feature"},
         s.key = "complexity" => mem["complexity"] # None,
         NEW op \in {"load", "reload"}, <<s, Do(op)>> \in Chains,
         Start(<<s, Do(op)>>), UNCHANGED <<server, page, fails, drafts, heard, restored>>
  PROVE  PInv'
<1> DEFINE q == <<s, Do(op)>>
<1>1. q \in Chains /\ Start(q)
  OBVIOUS
<1>2. q[1] = s /\ Tail(q) = <<Do(op)>>
  OBVIOUS
<1> HIDE DEF q
<1>3. PutTail(Tail(q))
  BY <1>2, PutTails
<1> QED
  BY <1>1, <1>2, <1>3, SaveCalm

LEMMA SimpleCalm ==
  ASSUME IInv, PInv, NEW v \in Values,
         SaveOne(v) \/ SaveHealthConfigs \/ ResetHealthConfigs
  PROVE  PInv'
<1>1. "max_failover" \in Plain \cap Keys /\ "health_test_configs" \in Plain \cap Keys
  BY KeysAre
<1>2. ASSUME NEW k \in {"max_failover", "health_test_configs"}, NEW x \in Values, drawn,
             Start(<<Put(k, x)>>), UNCHANGED <<server, page, fails, drafts, heard, restored>>
      PROVE  PInv'
  <2>1. Put(k, x) \in Steps /\ Put(k, x) \in Later
    BY <1>1, PutIsStep DEF Fits, Plain
  <2>2. Put(k, x).op = "put" /\ Put(k, x).key = k
    BY DEF Put, Step
  <2> QED
    BY <1>2, <2>1, <2>2, OneSaveCalm
<1>3. CASE SaveHealthConfigs
  <2> DEFINE k == "health_test_configs"
             s == PutOwn(k)
  <2>1. mem[k] \in Values
    BY <1>1, <1>3 DEF SaveHealthConfigs, Shown, IInv, Rows, RowsOK
  <2>2. Fits(k, mem[k])
    BY <2>1 DEF Fits
  <2>3. s \in Later
    BY <1>1, <2>2, OwnIsStep
  <2>4. s.op = "put" /\ s.key = k
    BY DEF PutOwn, Put, Step
  <2>5. drawn /\ Start(<<s>>) /\ UNCHANGED <<server, page, fails, drafts, heard, restored>>
    BY <1>3 DEF SaveHealthConfigs, Shown
  <2>6. s \in Steps
    BY <2>3 DEF Later
  <2> HIDE DEF s
  <2> QED
    BY <2>3, <2>4, <2>5, <2>6, OneSaveCalm
<1> QED
  BY <1>2, <1>3, OldAssumption DEF SaveOne, ResetHealthConfigs, Shown

LEMMA ComplexityCalm ==
  ASSUME IInv, PInv, SaveComplexityConfig \/ ResetComplexityConfig
  PROVE  PInv'
<1>1. "complexity" \in Keys /\ "complexity" \notin Plain /\ Do("load") \in Later
  BY KeysAre, DoIsStep
<1>2. ASSUME NEW s \in Later, s.op = "put", s.key = "complexity", drawn,
             mem["complexity"] # None, Start(<<s, Do("load")>>),
             UNCHANGED <<server, page, fails, drafts, heard, restored>>
      PROVE  PInv'
  <2>1. <<s, Do("load")>> \in Chains
    BY <1>1, TwoSteps
  <2>2. s \in Steps
    BY DEF Later
  <2> QED
    BY <1>2, <2>1, <2>2, SaveAndCalm
<1>3. CASE SaveComplexityConfig
  <2> DEFINE s == PutOwn("complexity")
  <2>1. mem["complexity"] \in Sound
    BY <1>3, ValidSound DEF SaveComplexityConfig, Shown, IInv, Rows, RowsOK
  <2>2. s \in Later
    BY <1>1, <2>1, OwnIsStep DEF Fits
  <2>3. s.op = "put" /\ s.key = "complexity"
    BY DEF PutOwn, Put, Step
  <2>4. /\ drawn /\ mem["complexity"] # None /\ Start(<<s, Do("load")>>)
        /\ UNCHANGED <<server, page, fails, drafts, heard, restored>>
    BY <1>3 DEF SaveComplexityConfig, Shown
  <2> HIDE DEF s
  <2> QED
    BY <1>2, <2>2, <2>3, <2>4
<1>4. CASE ResetComplexityConfig
  <2> DEFINE s == Put("complexity", Default)
  <2>1. s \in Later
    BY <1>1, DefaultSound, PutIsStep DEF Fits
  <2>2. s.op = "put" /\ s.key = "complexity"
    BY DEF Put, Step
  <2>3. /\ drawn /\ mem["complexity"] # None /\ Start(<<s, Do("load")>>)
        /\ UNCHANGED <<server, page, fails, drafts, heard, restored>>
    BY <1>4 DEF ResetComplexityConfig, Shown
  <2> HIDE DEF s
  <2> QED
    BY <1>2, <2>1, <2>2, <2>3
<1> QED
  BY <1>3, <1>4

LEMMA SwitchCalm == ASSUME IInv, PInv, NEW b \in BOOLEAN, ToggleProxySwitch(b) PROVE PInv'
<1> DEFINE s == Put("proxy_enabled", b)
           q == <<s, Do("reload")>>
<1>1. s \in Steps
  BY KeysAre, PutIsStep DEF Fits
<1>2. Do("reload") \in Later /\ Do("reload") \in Steps
  BY DoIsStep DEF Later
<1>3. s.op = "put" /\ s.key = "proxy_enabled"
  BY DEF Put, Step
<1> HIDE DEF s
<1>4. q \in Seq(Steps) /\ Len(q) = 2 /\ q[2] = Do("reload") /\ q[1] = s
  BY <1>1, <1>2
<1>5. q # <<>>
  BY <1>4, EmptySeq
<1>6. q \in Chains
  BY <1>2, <1>4, <1>5 DEF Chains
<1>7. drawn /\ Start(<<s, Do("reload")>>) /\ UNCHANGED <<server, page, fails, drafts, heard, restored>>
  BY DEF ToggleProxySwitch, s
<1> QED
  BY <1>1, <1>3, <1>6, <1>7, SaveAndCalm

LEMMA PauseCalm == ASSUME IInv, PInv, NEW b \in BOOLEAN, PauseKb(b) PROVE PInv'
<1> DEFINE s == Step("pause", "kb_paused", b)
           q == <<s, Do("status")>>
<1>1. s \in Later
  BY KeysAre DEF Step, Later, Steps, Ops, Switches, Datum
<1>2. Do("status") \in Later
  BY DoIsStep
<1>3. s.op = "pause"
  BY DEF Step
<1>4. drawn /\ Start(q) /\ UNCHANGED <<server, page, fails, drafts, heard, restored>>
  BY DEF PauseKb
<1> HIDE DEF s
<1>5. q \in Chains
  BY <1>1, <1>2, TwoSteps
<1>6. q[1] = s /\ Tail(q) = <<Do("status")>>
  OBVIOUS
<1> HIDE DEF q
<1>7. Shape(q[1], Tail(q))
  BY <1>3, <1>6 DEF Shape
<1> QED
  BY <1>3, <1>4, <1>5, <1>6, <1>7, ButtonCalm

LEMMA CardCalm ==
  ASSUME IInv, PInv, NEW v \in Values,
         SaveAlertNotify(v) \/ SendTestEmail(v) \/ SaveExtractConfig(v)
  PROVE  PInv'
<1>1. Do("load") \in Later /\ Do("load").op = "load"
  BY DoIsStep
<1> DEFINE mail == Step("mail", None, v)
<1>2. mail \in Later /\ mail.op = "mail"
  BY DEF Step, Later, Steps, Ops, Switches, Datum
<1>3. ASSUME NEW card \in {Alert, Extract}, NEW after \in Seq(Later), SaveCard(card, v, after),
             \A i \in 1..Len(after) : after[i].op \in {"load", "mail", "reload"} /\ i = Len(after)
      PROVE  PInv'
  <2> DEFINE q == Saves(card, v) \o after
             s == Put(card[1], v)
  <2>1. q \in Chains /\ q[1] = s /\ PutTail(Tail(q))
    BY <1>3, CardChain, CardTail
  <2>2. card[1] \in Plain /\ card[1] \in Keys /\ card[1] \notin {"kb_paused", "complexity", "feature"}
    BY CardSaves, KeysAre
  <2>3. s \in Steps
    BY <2>2, KeysAre, PutIsStep DEF Fits
  <2>4. s.op = "put" /\ s.key = card[1]
    BY DEF Put, Step
  <2>5. drawn /\ Start(q) /\ UNCHANGED <<server, page, fails, drafts, heard, restored>>
    BY <1>3 DEF SaveCard
  <2> HIDE DEF q, s
  <2> QED
    BY <2>1, <2>2, <2>3, <2>4, <2>5, SaveCalm
<1> HIDE DEF mail
<1>4. ASSUME NEW s \in Later, s.op \in {"load", "mail"}
      PROVE  <<s>> \in Seq(Later) /\ \A i \in 1..Len(<<s>>) :
               <<s>>[i].op \in {"load", "mail", "reload"} /\ i = Len(<<s>>)
  BY <1>4
<1>5. CASE SaveAlertNotify(v)
  <2> DEFINE e == <<>>
  <2>1. SaveCard(Alert, v, e)
    BY <1>5 DEF SaveAlertNotify
  <2>2. e \in Seq(Later) /\ Len(e) = 0
    BY EmptySeq
  <2> HIDE DEF e
  <2>3. \A i \in 1..Len(e) : e[i].op \in {"load", "mail", "reload"} /\ i = Len(e)
    BY <2>2
  <2> QED
    BY <1>3, <2>1, <2>2, <2>3
<1>6. CASE SendTestEmail(v)
  <2>1. SaveCard(Alert, v, <<mail>>)
    BY <1>6 DEF SendTestEmail, mail
  <2>2. <<mail>> \in Seq(Later) /\ \A i \in 1..Len(<<mail>>) :
          <<mail>>[i].op \in {"load", "mail", "reload"} /\ i = Len(<<mail>>)
    BY <1>2, <1>4
  <2> QED
    BY <1>3, <2>1, <2>2
<1>7. CASE SaveExtractConfig(v)
  <2> DEFINE s == Do("load")
  <2>1. SaveCard(Extract, v, <<s>>)
    BY <1>7 DEF SaveExtractConfig
  <2> HIDE DEF s
  <2>2. <<s>> \in Seq(Later) /\ \A i \in 1..Len(<<s>>) :
          <<s>>[i].op \in {"load", "mail", "reload"} /\ i = Len(<<s>>)
    BY <1>1, <1>4 DEF s
  <2> QED
    BY <1>3, <2>1, <2>2
<1> QED
  BY <1>5, <1>6, <1>7

-----------------------------------------------------------------------------
(* Drafts. *)

\* Same calls up to what they put back: the same are on the rows.
LEMMA AlikeKeeps ==
  ASSUME NEW S, NEW T, Alike(S, T)
  PROVE  /\ Mixing(T) => Mixing(S)
         /\ (\A c \in S : Shape(c.step, c.todo)) => \A d \in T : Shape(d.step, d.todo)
<1>1. Mixing(T) => Mixing(S)
  BY DEF Mixing, Alike, Same, OnRows
<1>2. (\A c \in S : Shape(c.step, c.todo)) => \A d \in T : Shape(d.step, d.todo)
  BY DEF Alike, Same
<1> QED
  BY <1>1, <1>2

LEMMA DraftFrame ==
  ASSUME IInv, PInv, NEW K, Alike(net, net'), Ids(net'), drafts' = drafts \cup K,
         \A j \in Keys \ K : mem'[j] = mem[j], "feature" \notin K,
         "complexity" \in K => mem["complexity"] # None,
         UNCHANGED <<db, backup, kb, drawn, fails, mixed, restored>>
  PROVE  PInv'
<1>1. DbFull' /\ \A d \in net' : Shape(d.step, d.todo)
  BY AlikeKeeps DEF PInv, DbFull
<1>2. ASSUME ~mixed PROVE ~Mixing(net') /\ Calm'
  <2>1. ~Mixing(net') /\ Calm
    BY <1>2, AlikeKeeps DEF PInv
  <2>2. ASSUME NEW d \in net' PROVE Now(d)'
    <3>1. PICK c \in net : Same(c, d)
      BY DEF Alike
    <3>2. Now(c) /\ (c.step.op = "put" => c.step.key \in Keys)
      BY <2>1 DEF Calm, IInv, Calls, CallOK, CallType, Steps
    <3>3. "complexity" \in Keys /\ mem'["feature"] = mem["feature"]
      BY KeysAre
    <3>4. Now(c)'
      BY <3>2, <3>3 DEF Now
    <3> QED
      BY <3>1, <3>4, NowSame
  <2>3. \A c \in net : \E d \in net' : /\ SettlesKb(c) => SettlesKb(d)
                                       /\ \A k : Settles(c, k) => Settles(d, k)
    BY SettlesSame DEF Alike
  <2>4. RowsAgree'
    <3>1. mem'["feature"] = mem["feature"]
      BY KeysAre
    <3>2. \A k \in Keys \ K : Agrees(k) => Agrees(k)'
      BY <3>1 DEF Agrees, NotShown
    <3> QED
      BY <2>1, <2>3, <3>2 DEF Calm, RowsAgree
  <2>6. KbAgrees'
    BY <2>1, <2>3 DEF Calm, KbAgrees
  <2>5. Loaded'
    BY <2>1 DEF Calm, Loaded
  <2> QED
    BY <2>1, <2>2, <2>4, <2>5, <2>6 DEF Calm
<1> QED
  BY <1>1, <1>2 DEF PInv

LEMMA DraftCalm ==
  ASSUME IInv, PInv, NEW k \in Keys \ {"feature"}, NEW v, Draft(k, v)
  PROVE  PInv'
<1>1. Alike(net, net') /\ Ids(net')
  BY EditingAlike DEF Draft, IInv, PInv
<1>2. \A j \in Keys \ {k} : mem'[j] = mem[j]
  BY DEF Draft, IInv, Rows
<1>3. /\ drafts' = drafts \cup {k} /\ mem[k] # None
      /\ UNCHANGED <<db, backup, kb, drawn, fails, mixed, restored>>
  BY DEF Draft, Shown, server
<1> QED
  BY <1>1, <1>2, <1>3, DraftFrame

LEMMA EditCalm ==
  ASSUME IInv, PInv, NEW v \in Values, ChangeExtractProvider(v) \/ EditHealthConfigs(v)
  PROVE  PInv'
<1>1. CASE EditHealthConfigs(v)
  BY <1>1, KeysAre, DraftCalm DEF EditHealthConfigs
<1>2. CASE ChangeExtractProvider(v)
  <2> DEFINE K == CardKeys(Extract)
  <2>1. K = {"extract_provider_id", "extract_model"}
    BY KeysAre
  <2>2. net' = net /\ \A c \in net : Same(c, c)
    BY <1>2 DEF ChangeExtractProvider, Same
  <2>3. Alike(net, net') /\ Ids(net')
    BY <2>2 DEF Alike, PInv
  <2>4. \A j \in Keys \ K : mem'[j] = mem[j]
    BY <1>2, <2>1 DEF ChangeExtractProvider, IInv, Rows
  <2>5. /\ drafts' = drafts \cup K /\ "complexity" \notin K /\ "feature" \notin K
        /\ UNCHANGED <<db, backup, kb, drawn, fails, mixed, restored>>
    BY <1>2, <2>1 DEF ChangeExtractProvider, server
  <2> HIDE DEF K
  <2> QED
    BY <2>3, <2>4, <2>5, DraftFrame
<1> QED
  BY <1>1, <1>2

LEMMA TierCalm ==
  ASSUME IInv, PInv, NEW i \in 1..Bands, NEW v \in 0..Top, UpdateComplexityTier(i, v)
  PROVE  PInv'
BY KeysAre, DraftCalm DEF UpdateComplexityTier

-----------------------------------------------------------------------------
(* The answers. *)

\* What a call whose answer is dealt with leaves.
LEMMA Leaving ==
  ASSUME IInv, PInv, NEW c \in net
  PROVE  /\ Calls(net \ {c}) /\ Ids(net \ {c})
         /\ \A d \in net \ {c} : Shape(d.step, d.todo)
         /\ c.todo \in Seq(Later) /\ c.todo \in Seq(Steps) /\ CallOK(c) /\ c.step \in Steps
         /\ c.step.op \in {"load", "status", "seed", "pause", "put"} =>
              (c.todo # <<>> => Shape(c.todo[1], Tail(c.todo)))
         /\ c.step.op \in {"load", "status", "seed", "pause", "put"} /\ ~mixed =>
              \A d \in net \ {c} : /\ ~OnRows(d) /\ ~SettlesKb(d) /\ (\A k : ~Settles(d, k))
                                   /\ d.state = "failed" => fails >= 1
<1>1. Calls(net) /\ CallOK(c)
  BY DEF IInv, Calls
<1>2. Calls(net \ {c}) /\ Ids(net \ {c}) /\ \A d \in net \ {c} : Shape(d.step, d.todo)
  BY <1>1, RemoveKeeps DEF PInv, Ids
<1>3. c.todo \in Seq(Later) /\ c.step \in Steps
  BY <1>1 DEF CallOK, CallType
<1>4. c.todo \in Seq(Steps)
  <2>1. Later \subseteq Steps
    BY DEF Later
  <2> QED
    BY <1>3, <2>1, SeqMonotonic
<1>5. ASSUME c.step.op \in {"load", "status", "seed", "pause", "put"}, c.todo # <<>>
      PROVE  Shape(c.todo[1], Tail(c.todo))
  <2>1. Shape(c.step, c.todo)
    BY DEF PInv
  <2> QED
    BY <1>4, <1>5, <2>1, Onward
<1>6. ASSUME c.step.op \in {"load", "status", "seed", "pause", "put"}, ~mixed, NEW d \in net \ {c}
      PROVE  /\ ~OnRows(d) /\ ~SettlesKb(d) /\ \A k : ~Settles(d, k)
             /\ d.state = "failed" => fails >= 1
  <2>1. OnRows(c) /\ Ids(net) /\ ~Mixing(net) /\ Now(d)
    BY <1>6 DEF OnRows, PInv, Calm
  <2>2. ~OnRows(d)
    BY <2>1, Alone
  <2> QED
    BY <2>1, <2>2, SettlesOnRows DEF Now
<1> QED
  BY <1>1, <1>2, <1>3, <1>4, <1>5, <1>6

\* What is created: one or both, and only if a row is missing.
LEMMA CreationsAre ==
  ASSUME NEW m
  PROVE  /\ Creations(m) \in {<<>>, <<Do("seed")>>, Seeds}
         /\ Creations(m) # <<>> => m["feature"] = None \/ m["complexity"] = None
BY DEF Creations, Seeds

LEMMA SeedsAre ==
  ASSUME NEW t \in {<<Do("seed")>>, Seeds}
  PROVE  t[1] = Do("seed") /\ t[1].op = "seed" /\ Shape(t[1], Tail(t))
<1>1. t[1] = Do("seed") /\ Tail(t) \in {<<>>, <<Do("seed")>>}
  <2>1. CASE t = <<Do("seed")>>
    BY <2>1
  <2>2. CASE t = <<Do("seed"), Do("seed")>>
    BY <2>2
  <2> QED
    BY <2>1, <2>2 DEF Seeds
<1>2. Do("seed").op = "seed"
  BY DEF Do, Step
<1> QED
  BY <1>1, <1>2 DEF Shape

LEMMA ListedCalm == ASSUME IInv, PInv, NEW c \in net, Listed(c) PROVE PInv'
<1> DEFINE m    == IF c.state = "ok" THEN c.rows ELSE mem
           todo == IF c.todo = <<>> THEN <<>> ELSE Creations(m)
           S    == IF c.state = "ok" THEN Replaced(net \ {c}) ELSE net \ {c}
<1>1. c.step.op = "load" /\ c.state \in {"ok", "failed"} /\ Sends(S, Rest(todo))
  BY DEF Listed, Ended
<1>2. /\ Calls(net \ {c}) /\ Ids(net \ {c}) /\ \A d \in net \ {c} : Shape(d.step, d.todo)
      /\ c.todo \in Seq(Later)
  BY <1>1, Leaving
<1>3. /\ Calls(S) /\ Ids(S) /\ Alike(net \ {c}, S)
      /\ \A d \in S : Shape(d.step, d.todo)
  <2>1. CASE c.state = "ok"
    BY <1>2, <2>1, ReplacedKeeps, ReplacedAlike, AlikeKeeps
  <2>2. CASE c.state # "ok"
    BY <1>2, <2>2 DEF Alike, Same
  <2> QED
    BY <2>1, <2>2
<1>4. /\ todo \in Seq(Later)
      /\ todo # <<>> => /\ todo \in {<<Do("seed")>>, Seeds}
                         /\ (m["feature"] = None \/ m["complexity"] = None)
  <2>1. <<>> \in Seq(Later) /\ Creations(m) \in Seq(Later)
    BY CreationsLater
  <2>2. todo = Creations(m) \/ todo = <<>>
    OBVIOUS
  <2> HIDE DEF m, todo
  <2> QED
    BY <2>1, <2>2, CreationsAre
<1>5. /\ mem' = m /\ drawn' = (c.state = "ok")
      /\ drafts' = IF c.state = "ok" THEN {} ELSE drafts
      /\ restored' = IF c.state = "ok" THEN restored \ {"rows"} ELSE restored
      /\ UNCHANGED <<db, backup, kb, fails>>
  BY DEF Listed, server
<1>7. m = IF c.state = "ok" THEN c.rows ELSE mem
  OBVIOUS
<1> HIDE DEF m, todo, S
<1>6. todo # <<>> => Shape(todo[1], Tail(todo))
  BY <1>4, SeedsAre
<1>8. /\ Ids(net') /\ mixed' = (mixed \/ Mixing(net'))
      /\ \A d \in net' : Shape(d.step, d.todo)
      /\ \/ todo = <<>> /\ net' = S
         \/ todo # <<>> /\ \E k : net' = S \cup {k} /\ Sent(S, todo, k)
  BY <1>1, <1>3, <1>4, <1>6, RestSent
<1>9. DbFull'
  BY <1>5 DEF PInv, DbFull
<1>10. ASSUME ~mixed' PROVE ~Mixing(net') /\ Calm'
  <2>1. ~mixed /\ ~Mixing(net') /\ Calm
    BY <1>8, <1>10 DEF PInv
  <2>2. \A d \in net \ {c} : /\ ~OnRows(d) /\ ~SettlesKb(d)
                             /\ d.state = "failed" => fails >= 1
    BY <1>1, <2>1, Leaving
  <2>3. \A d \in S : ~OnRows(d) /\ (d.state = "failed" => fails' >= 1)
    BY <1>3, <1>5, <2>2, SettlesSame DEF Alike, Same
  <2>4. \A d \in S : Now(d)'
    BY <2>3, NowElsewhere
  <2>7. c.state = "ok" => c.rows = db
    BY <1>1, <2>1 DEF Calm, Now
  <2>5. ASSUME NEW k, todo # <<>>, Sent(S, todo, k) PROVE Now(k)'
    <3>1. mem'["feature"] = None \/ mem'["complexity"] = None
      BY <1>4, <1>5, <2>5
    <3>2. k.step.op = "seed" /\ k.state = "sent"
      BY <1>4, <2>5, SeedsAre DEF Sent
    <3>3. drawn' => mem' = db'
      BY <1>5, <1>7, <2>7
    <3> QED
      BY <3>1, <3>2, <3>3 DEF Now
  <2>6. \A d \in net' : Now(d)'
    BY <1>8, <2>4, <2>5
  <2>8. RowsAgree'
    BY <1>5, <1>7, <2>7 DEF RowsAgree, Agrees
  <2>9. Loaded'
    BY <1>5, <1>7, <2>7 DEF Loaded, PInv, DbFull
  <2>10. KbAgrees'
    <3>1. \A d \in net : ~SettlesKb(d)
      BY <1>1, <2>2 DEF SettlesKb
    <3>2. "kb" \notin restored /\ fails = 0 => kb = db["kb_paused"]
      BY <2>1, <3>1 DEF Calm, KbAgrees
    <3> QED
      BY <1>5, <3>2 DEF KbAgrees
  <2> QED
    BY <2>1, <2>6, <2>8, <2>9, <2>10 DEF Calm
<1> QED
  BY <1>8, <1>9, <1>10 DEF PInv

LEMMA SeededCalm == ASSUME IInv, PInv, NEW c \in net, Seeded(c) PROVE PInv'
<1> DEFINE todo == IF mem["complexity"] = None THEN c.todo ELSE <<>>
           S    == net \ {c}
<1>1. c.step.op = "seed" /\ c.state \in {"ok", "failed"}
  BY DEF Seeded, Ended
<1>2. /\ Calls(S) /\ Ids(S) /\ \A d \in S : Shape(d.step, d.todo)
      /\ c.todo \in Seq(Later)
      /\ c.todo # <<>> => Shape(c.todo[1], Tail(c.todo))
  BY <1>1, Leaving
<1>3. /\ c.state = "ok" => Sends(S, Rest(todo) \o << <<Do("load")>> >>)
      /\ c.state # "ok" => Sends(S, Rest(todo) \o <<>>)
  BY DEF Seeded, Continue
<1>4. todo \in Seq(Later) /\ (todo # <<>> => Shape(todo[1], Tail(todo)) /\ todo = c.todo)
  <2>1. <<>> \in Seq(Later)
    OBVIOUS
  <2>2. todo = c.todo \/ todo = <<>>
    OBVIOUS
  <2> HIDE DEF todo
  <2> QED
    BY <1>2, <2>1, <2>2
<1>5. UNCHANGED <<db, backup, mem, kb, drawn, fails, drafts, restored>>
  BY DEF Seeded, server, page
<1>6. Shape(c.step, c.todo) /\ c.state \in {"ok", "failed"}
  BY <1>1 DEF PInv
<1>7. /\ mem["complexity"] = None => todo = c.todo
      /\ mem["complexity"] # None => todo = <<>>
  OBVIOUS
<1>8. S \cup {c} = net
  OBVIOUS
<1>9. DbFull'
  BY <1>5 DEF PInv, DbFull
<1>10. Rest(todo) \o <<>> = Rest(todo)
  <2> HIDE DEF todo
  <2> QED
    BY <1>4, RestIs
<1>11. ~mixed => \A d \in S : /\ ~OnRows(d) /\ ~SettlesKb(d) /\ (\A j : ~Settles(d, j))
                              /\ d.state = "failed" => fails >= 1
  BY <1>1, Leaving
<1> HIDE DEF todo, S
<1>12. ASSUME ~mixed
       PROVE  /\ Calm
              /\ mem["feature"] = None \/ mem["complexity"] = None
              /\ mem["feature"] # None /\ drawn /\ "rows" \notin restored => mem["feature"] = db["feature"]
              /\ "kb" \notin restored /\ fails = 0 => kb = db["kb_paused"]
              /\ drawn /\ "rows" \notin restored =>
                   \A k \in Keys \ ({"kb_paused"} \cup Created) : k \in drafts \/ Agrees(k)
  <2>1. Calm
    BY <1>12 DEF PInv
  <2>2. /\ mem["feature"] = None \/ mem["complexity"] = None
        /\ mem["feature"] # None /\ drawn /\ "rows" \notin restored => mem["feature"] = db["feature"]
    BY <1>1, <2>1 DEF Calm, Now
  <2>3. \A d \in net : ~SettlesKb(d) /\ \A j : j \notin Created => ~Settles(d, j)
    BY <1>1, <1>8, <1>11, <1>12 DEF SettlesKb, Settles
  <2> QED
    BY <2>1, <2>2, <2>3 DEF Calm, RowsAgree, KbAgrees
<1>13. CASE c.state = "ok"
  <2>1. /\ Ids(net') /\ mixed' = (mixed \/ Mixing(net'))
        /\ \A d \in net' : Shape(d.step, d.todo)
        /\ \E l : /\ IsLoad(l)
                  /\ \/ todo = <<>> /\ net' = S \cup {l}
                     \/ todo # <<>> /\ \E k : /\ net' = S \cup {k, l} /\ k.id # l.id
                                              /\ Sent(S, todo, k)
    BY <1>2, <1>3, <1>4, <1>13, RestAndLoadSent
  <2>2. ASSUME ~mixed' PROVE ~Mixing(net') /\ Calm'
    <3>1. ~mixed /\ ~Mixing(net')
      BY <2>1, <2>2
    <3>2. PICK l : /\ IsLoad(l)
                   /\ \/ todo = <<>> /\ net' = S \cup {l}
                      \/ todo # <<>> /\ \E k : /\ net' = S \cup {k, l} /\ k.id # l.id
                                               /\ Sent(S, todo, k)
      BY <2>1
    <3>3. l.step.op = "load" /\ OnRows(l) /\ l.state = "sent"
      BY <3>2, LoadIs DEF IsLoad
    <3>4. net' = S \cup {l}
      <4>1. ASSUME NEW k, todo # <<>>, net' = S \cup {k, l}, k.id # l.id, Sent(S, todo, k)
            PROVE  FALSE
        <5>1. todo = <<Do("seed")>>
          BY <1>1, <1>6, <1>7, <4>1 DEF Shape
        <5>2. k.step = Do("seed")
          BY <4>1, <5>1 DEF Sent
        <5>3. OnRows(k)
          BY <5>2 DEF Do, Step, OnRows
        <5> QED
          BY <3>1, <3>3, <4>1, <5>3 DEF Mixing
      <4> QED
        BY <3>2, <4>1
    <3>5. \A d \in S : Now(d)'
      BY <1>5, <1>11, <3>1, NowElsewhere
    <3>6. Now(l)' /\ \A k : Settles(l, k)
      BY <3>3 DEF Now, Settles
    <3>7. RowsAgree' /\ KbAgrees' /\ Loaded'
      BY <1>5, <1>12, <3>1, <3>4, <3>6 DEF RowsAgree, KbAgrees, Calm, Loaded
    <3> QED
      BY <3>1, <3>4, <3>5, <3>6, <3>7 DEF Calm
  <2> QED
    BY <1>9, <2>1, <2>2 DEF PInv
<1>14. CASE c.state = "failed"
  <2>1. /\ Ids(net') /\ mixed' = (mixed \/ Mixing(net'))
        /\ \A d \in net' : Shape(d.step, d.todo)
        /\ \/ todo = <<>> /\ net' = S
           \/ todo # <<>> /\ \E k : net' = S \cup {k} /\ Sent(S, todo, k)
    BY <1>2, <1>3, <1>4, <1>10, <1>14, RestSent
  <2>2. ASSUME ~mixed' PROVE ~Mixing(net') /\ Calm'
    <3>1. ~mixed /\ ~Mixing(net')
      BY <2>1, <2>2
    <3>2. \A d \in S : Now(d)'
      BY <1>5, <1>11, <3>1, NowElsewhere
    <3>3. fails > 0
      BY <1>12, <1>14, <3>1 DEF Calm, Now, IInv
    <3>4. Loaded' /\ KbAgrees'
      BY <1>5, <1>12, <3>1 DEF Calm, Loaded, KbAgrees
    <3>7. \A k : Agrees(k) => Agrees(k)'
      BY <1>5 DEF Agrees, NotShown
    <3>5. CASE todo = <<>>
      <4>1. net' = S
        BY <2>1, <3>5
      <4>2. drawn /\ "rows" \notin restored => Agrees("feature") /\ Agrees("complexity")
        <5>1. mem["feature"] = None \/ mem["complexity"] = None
          BY <1>12, <3>1
        <5>2. mem["feature"] # None /\ drawn /\ "rows" \notin restored => mem["feature"] = db["feature"]
          BY <1>12, <3>1
        <5>3. (mem["feature"] = None => NotShown("feature")) /\ NotShown("complexity")
          BY <3>3, <5>1 DEF NotShown
        <5> QED
          BY <5>2, <5>3 DEF Agrees
      <4>3. RowsAgree'
        BY <1>5, <1>12, <3>1, <3>7, <4>1, <4>2 DEF RowsAgree, Created
      <4> QED
        BY <3>1, <3>2, <3>4, <4>1, <4>3 DEF Calm
    <3>6. CASE todo # <<>>
      <4>1. PICK k : net' = S \cup {k} /\ Sent(S, todo, k)
        BY <2>1, <3>6
      <4>2. todo = <<Do("seed")>>
        BY <1>1, <1>6, <1>7, <3>6 DEF Shape
      <4>3. k.step.op = "seed" /\ k.state = "sent"
        BY <4>1, <4>2 DEF Sent, Do, Step
      <4>4. Now(k)' /\ \A j \in Created : Settles(k, j)
        BY <1>5, <1>12, <3>1, <4>3 DEF Now, Settles
      <4>5. RowsAgree'
        BY <1>5, <1>12, <3>1, <3>7, <4>1, <4>4 DEF RowsAgree
      <4> QED
        BY <3>1, <3>2, <3>4, <4>1, <4>4, <4>5 DEF Calm
    <3> QED
      BY <3>5, <3>6
  <2> QED
    BY <1>9, <2>1, <2>2 DEF PInv
<1> QED
  BY <1>6, <1>13, <1>14

\* The chain of c goes on, or ends.
LEMMA GoesOn ==
  ASSUME IInv, PInv, NEW c \in net, c.step.op \in {"load", "status", "seed", "pause", "put"},
         NEW todo \in {c.todo, <<>>}, Continue(c, todo, <<>>)
  PROVE  /\ Ids(net') /\ mixed' = (mixed \/ Mixing(net'))
         /\ \A d \in net' : Shape(d.step, d.todo)
         /\ \/ todo = <<>> /\ net' = net \ {c}
            \/ todo # <<>> /\ \E k : net' = (net \ {c}) \cup {k} /\ Sent(net \ {c}, todo, k)
<1>1. /\ Calls(net \ {c}) /\ Ids(net \ {c}) /\ \A d \in net \ {c} : Shape(d.step, d.todo)
      /\ c.todo \in Seq(Later)
      /\ c.todo # <<>> => Shape(c.todo[1], Tail(c.todo))
  BY Leaving
<1>2. <<>> \in Seq(Later)
  OBVIOUS
<1>3. todo \in Seq(Later) /\ (todo # <<>> => Shape(todo[1], Tail(todo)))
  BY <1>1, <1>2
<1>4. Sends(net \ {c}, Rest(todo))
  BY <1>3, RestIs DEF Continue
<1> QED
  BY <1>1, <1>3, <1>4, RestSent

LEMMA SavedCalm == ASSUME IInv, PInv, NEW c \in net, Saved(c) PROVE PInv'
<1> DEFINE k == c.step.key
<1>1. c.step.op = "put" /\ c.state = "ok"
  BY DEF Saved, Ended
<1>2. CallOK(c) /\ c.step \in Steps /\ c.todo \in Seq(Steps)
  BY Leaving
<1>3. k \in Keys /\ Loose(k, c.held)
  BY <1>1, <1>2 DEF CallOK, Steps
<1>4. /\ Ids(net') /\ mixed' = (mixed \/ Mixing(net'))
      /\ \A d \in net' : Shape(d.step, d.todo)
      /\ \/ c.todo = <<>> /\ net' = net \ {c}
         \/ c.todo # <<>> /\ \E l : net' = (net \ {c}) \cup {l} /\ Sent(net \ {c}, c.todo, l)
  BY <1>1, GoesOn DEF Saved
<1>5. /\ mem' = IF mem[k] = None /\ k \notin drafts THEN mem ELSE [mem EXCEPT ![k] = c.held]
      /\ drafts' = IF c.held = c.step.value THEN drafts \ {k} ELSE drafts \cup {k}
      /\ UNCHANGED <<db, backup, kb, drawn, fails, restored>>
  BY DEF Saved, server
<1>6. Shape(c.step, c.todo)
  BY DEF PInv
<1>7. DbFull'
  BY <1>5 DEF PInv, DbFull
<1>8. ASSUME ~mixed' PROVE ~Mixing(net') /\ Calm'
  <2>1. ~mixed /\ ~Mixing(net') /\ Calm
    BY <1>4, <1>8 DEF PInv
  <2>2. \A d \in net \ {c} : /\ ~OnRows(d) /\ ~SettlesKb(d) /\ (\A j : ~Settles(d, j))
                             /\ d.state = "failed" => fails >= 1
    BY <1>1, <2>1, Leaving
  <2>3. /\ drawn /\ k \notin {"kb_paused", "feature"} /\ db[k] = c.step.value
        /\ mem[k] # None \/ k \in drafts
    BY <1>1, <2>1 DEF Calm, Now
  <2>4. /\ mem'[k] = c.held
        /\ \A j \in Keys \ {k} : mem'[j] = mem[j] /\ (j \in drafts' <=> j \in drafts)
    BY <1>3, <1>5, <2>3 DEF IInv, Rows
  <2>5. mem'[k] = db[k] \/ k \in drafts'
    BY <1>5, <2>3, <2>4
  <2>6. \A d \in net \ {c} : Now(d)'
    BY <1>5, <2>2, NowElsewhere
  <2>7. Loaded'
    <3>1. k # "complexity" => c.held # None
      BY <1>3, NoneAssumption, KeysAre DEF Loose
    <3> QED
      BY <1>5, <2>1, <2>4, <3>1 DEF Calm, Loaded, Created
  <2>8. ASSUME NEW l, c.todo # <<>>, Sent(net \ {c}, c.todo, l) PROVE Now(l)'
    <3>1. PutTail(c.todo) /\ l.step = c.todo[1] /\ l.state = "sent"
      BY <1>1, <1>6, <2>8 DEF Shape, Sent
    <3>2. 1 \in 1..Len(c.todo)
      BY <1>2, <2>8, EmptySeq
    <3>3. \/ l.step.op = "put" /\ l.step.key \in Plain
          \/ l.step.op \in {"load", "mail", "reload"}
      BY <3>1, <3>2 DEF PutTail
    <3>4. l.step.op = "put" => l.step.key \in Keys \ (Created \cup {"kb_paused"})
      BY <3>3, KeysAre DEF Created
    <3> QED
      BY <1>5, <2>3, <2>7, <3>1, <3>3, <3>4 DEF Now, Loaded, Created
  <2>9. \A d \in net' : Now(d)'
    BY <1>4, <2>6, <2>8
  <2>10. RowsAgree'
    <3>1. \A j \in Keys \ {k} : \A d \in net : ~Settles(d, j)
      BY <1>1, <2>2 DEF Settles
    <3>2. "feature" \in Keys \ {k}
      BY <2>3, KeysAre
    <3>3. \A j \in Keys \ {k} : Agrees(j) => Agrees(j)'
      BY <1>5, <2>4, <3>2 DEF Agrees, NotShown
    <3>4. k \in Keys => k \in drafts' \/ Agrees(k)'
      BY <1>5, <2>5 DEF Agrees
    <3>5. RowsAgree /\ UNCHANGED <<drawn, restored>>
      BY <1>5, <2>1 DEF Calm
    <3> QED
      BY <2>4, <3>1, <3>3, <3>4, <3>5 DEF RowsAgree
  <2>11. KbAgrees'
    <3>1. \A d \in net : ~SettlesKb(d)
      BY <1>1, <2>2 DEF SettlesKb
    <3> QED
      BY <1>5, <2>1, <3>1 DEF Calm, KbAgrees
  <2> QED
    BY <2>1, <2>7, <2>9, <2>10, <2>11 DEF Calm
<1> QED
  BY <1>4, <1>7, <1>8 DEF PInv

LEMMA SaveFailedCalm == ASSUME IInv, PInv, NEW c \in net, SaveFailed(c) PROVE PInv'
<1> DEFINE S == net \ {c}
<1>1. c.step.op = "put" /\ Sends(S, Rest(c.todo) \o << <<Do("load")>> >>)
  BY DEF SaveFailed, Ended, Continue
<1>2. /\ Calls(S) /\ Ids(S) /\ \A d \in S : Shape(d.step, d.todo)
      /\ c.todo \in Seq(Later) /\ c.todo \in Seq(Steps)
      /\ c.todo # <<>> => Shape(c.todo[1], Tail(c.todo))
  BY <1>1, Leaving
<1>3. UNCHANGED <<db, backup, mem, kb, drawn, fails, drafts, restored>>
  BY DEF SaveFailed, server, page
<1>4. ~mixed => \A d \in S : ~OnRows(d) /\ ~SettlesKb(d) /\ (d.state = "failed" => fails >= 1)
  BY <1>1, Leaving
<1>5. S \cup {c} = net
  OBVIOUS
<1> HIDE DEF S
<1>6. /\ Ids(net') /\ mixed' = (mixed \/ Mixing(net'))
      /\ \A d \in net' : Shape(d.step, d.todo)
      /\ \E l : /\ IsLoad(l)
                /\ \/ c.todo = <<>> /\ net' = S \cup {l}
                   \/ c.todo # <<>> /\ \E k : /\ net' = S \cup {k, l} /\ k.id # l.id
                                              /\ Sent(S, c.todo, k)
  BY <1>1, <1>2, RestAndLoadSent
<1>7. DbFull'
  BY <1>3 DEF PInv, DbFull
<1>8. ASSUME ~mixed' PROVE ~Mixing(net') /\ Calm'
  <2>1. ~mixed /\ ~Mixing(net') /\ Calm
    BY <1>6, <1>8 DEF PInv
  <2>2. PICK l : /\ IsLoad(l)
                 /\ \/ c.todo = <<>> /\ net' = S \cup {l}
                    \/ c.todo # <<>> /\ \E k : /\ net' = S \cup {k, l} /\ k.id # l.id
                                               /\ Sent(S, c.todo, k)
    BY <1>6
  <2>3. l.step.op = "load" /\ OnRows(l) /\ l.state = "sent" /\ l \in net'
    BY <2>2, LoadIs DEF IsLoad
  <2>4. Now(l)' /\ \A k : Settles(l, k)
    BY <2>3 DEF Now, Settles
  <2>5. \A d \in S : Now(d)'
    BY <1>3, <1>4, <2>1, NowElsewhere
  <2>6. ASSUME NEW k, k \in net', k.id # l.id, k.state = "sent" PROVE Now(k)'
    <3>1. ~OnRows(k)
      BY <2>1, <2>3, <2>6 DEF Mixing
    <3> QED
      BY <2>6, <3>1, NowElsewhere
  <2>7. \A d \in net' : Now(d)'
    BY <2>2, <2>4, <2>5, <2>6 DEF Sent
  <2>8. RowsAgree' /\ Loaded'
    BY <1>3, <2>1, <2>3, <2>4 DEF RowsAgree, Calm, Loaded
  <2>9. KbAgrees'
    <3>1. \A d \in net : ~SettlesKb(d)
      BY <1>1, <1>4, <1>5, <2>1 DEF SettlesKb
    <3> QED
      BY <1>3, <2>1, <3>1 DEF Calm, KbAgrees
  <2> QED
    BY <2>1, <2>7, <2>8, <2>9 DEF Calm
<1> QED
  BY <1>6, <1>7, <1>8 DEF PInv

LEMMA StatusCalm == ASSUME IInv, PInv, NEW c \in net, StatusKnown(c) PROVE PInv'
<1>1. c.step.op = "status" /\ c.state \in {"ok", "failed"}
  BY DEF StatusKnown, Ended, IInv, Calls, CallOK, CallType
<1>2. Shape(c.step, c.todo)
  BY DEF PInv
<1>3. /\ Ids(net') /\ mixed' = (mixed \/ Mixing(net'))
      /\ \A d \in net' : Shape(d.step, d.todo)
      /\ \/ c.todo = <<>> /\ net' = net \ {c}
         \/ c.todo # <<>> /\ \E l : net' = (net \ {c}) \cup {l} /\ Sent(net \ {c}, c.todo, l)
  BY <1>1, GoesOn DEF StatusKnown
<1>4. /\ kb' = IF c.state = "ok" THEN c.rows["kb_paused"] ELSE None
      /\ drawn' = (drawn \/ c.todo = <<>>)
      /\ restored' = IF c.state = "ok" THEN restored \ {"kb"} ELSE restored
      /\ UNCHANGED <<db, backup, mem, fails, drafts>>
  BY DEF StatusKnown, server
<1>5. DbFull'
  BY <1>4 DEF PInv, DbFull
<1>6. ASSUME ~mixed' PROVE ~Mixing(net') /\ Calm'
  <2>1. ~mixed /\ ~Mixing(net') /\ Calm
    BY <1>3, <1>6 DEF PInv
  <2>2. \A d \in net \ {c} : /\ ~OnRows(d) /\ (\A j : ~Settles(d, j))
                             /\ d.state = "failed" => fails >= 1
    BY <1>1, <2>1, Leaving
  <2>3. /\ c.state = "ok" => c.rows = db
        /\ c.state = "failed" => fails >= 1
        /\ c.todo = <<>> => drawn
    BY <1>1, <2>1 DEF Calm, Now
  <2>4. drawn' <=> drawn
    BY <1>4, <2>3
  <2>5. \A d \in net \ {c} : Now(d)'
    BY <1>4, <2>2, NowElsewhere
  <2>6. ASSUME NEW l, c.todo # <<>>, Sent(net \ {c}, c.todo, l) PROVE Now(l)'
    <3>1. c.todo = <<Do("load"), Do("seed"), Do("seed")>>
      BY <1>1, <1>2, <2>6 DEF Shape
    <3>2. l.step = Do("load") /\ l.state = "sent"
      BY <2>6, <3>1 DEF Sent
    <3> QED
      BY <3>2 DEF Do, Step, Now
  <2>7. \A d \in net' : Now(d)'
    BY <1>3, <2>5, <2>6
  <2>8. RowsAgree'
    <3>1. \A d \in net : \A j : ~Settles(d, j)
      BY <1>1, <2>2 DEF Settles
    <3> QED
      BY <1>4, <2>1, <2>4, <3>1 DEF Calm, RowsAgree, Agrees, NotShown
  <2>9. KbAgrees' /\ Loaded'
    BY <1>1, <1>4, <2>1, <2>3, <2>4 DEF Calm, KbAgrees, Loaded
  <2> QED
    BY <2>1, <2>7, <2>8, <2>9 DEF Calm
<1> QED
  BY <1>3, <1>5, <1>6 DEF PInv

LEMMA PauseAnsweredCalm == ASSUME IInv, PInv, NEW c \in net, PauseAnswered(c) PROVE PInv'
<1> DEFINE todo == IF c.state = "ok" THEN c.todo ELSE <<>>
<1>1. c.step.op = "pause" /\ c.state \in {"ok", "failed"}
  BY DEF PauseAnswered, Ended, IInv, Calls, CallOK, CallType
<1>2. Shape(c.step, c.todo)
  BY DEF PInv
<1>3. Continue(c, todo, <<>>) /\ todo \in {c.todo, <<>>}
  BY DEF PauseAnswered
<1>4. UNCHANGED <<db, backup, mem, kb, drawn, fails, drafts, restored>>
  BY DEF PauseAnswered, server, page
<1>5. todo = IF c.state = "ok" THEN <<Do("status")>> ELSE <<>>
  BY <1>1, <1>2 DEF Shape
<1> HIDE DEF todo
<1>6. /\ Ids(net') /\ mixed' = (mixed \/ Mixing(net'))
      /\ \A d \in net' : Shape(d.step, d.todo)
      /\ \/ todo = <<>> /\ net' = net \ {c}
         \/ todo # <<>> /\ \E l : net' = (net \ {c}) \cup {l} /\ Sent(net \ {c}, todo, l)
  BY <1>1, <1>3, GoesOn
<1>7. DbFull'
  BY <1>4 DEF PInv, DbFull
<1>8. ASSUME ~mixed' PROVE ~Mixing(net') /\ Calm'
  <2>1. ~mixed /\ ~Mixing(net') /\ Calm
    BY <1>6, <1>8 DEF PInv
  <2>2. \A d \in net \ {c} : /\ ~OnRows(d) /\ (\A j : ~Settles(d, j))
                             /\ d.state = "failed" => fails >= 1
    BY <1>1, <2>1, Leaving
  <2>3. drawn /\ (c.state = "failed" => fails >= 1)
    BY <1>1, <2>1 DEF Calm, Now
  <2>4. \A d \in net \ {c} : Now(d)'
    BY <1>4, <2>2, NowElsewhere
  <2>5. RowsAgree' /\ Loaded'
    <3>1. \A d \in net : \A j : ~Settles(d, j)
      BY <1>1, <2>2 DEF Settles
    <3> QED
      BY <1>4, <2>1, <3>1 DEF Calm, RowsAgree, Agrees, NotShown, Loaded
  <2>6. CASE c.state = "failed"
    <3>1. net' = net \ {c}
      BY <1>5, <1>6, <2>6
    <3>2. KbAgrees'
      BY <1>4, <2>3, <2>6 DEF KbAgrees
    <3> QED
      BY <2>1, <2>4, <2>5, <3>1, <3>2 DEF Calm
  <2>7. CASE c.state = "ok"
    <3>1. todo = <<Do("status")>>
      BY <1>5, <2>7
    <3>2. PICK l : net' = (net \ {c}) \cup {l} /\ Sent(net \ {c}, todo, l)
      BY <1>6, <3>1
    <3>3. l.step.op = "status" /\ l.state = "sent"
      BY <3>1, <3>2 DEF Sent, Do, Step
    <3>4. Now(l)' /\ SettlesKb(l)
      BY <1>4, <2>3, <3>3 DEF Now, SettlesKb
    <3>5. KbAgrees'
      BY <3>2, <3>4 DEF KbAgrees
    <3> QED
      BY <2>1, <2>4, <2>5, <3>2, <3>4, <3>5 DEF Calm
  <2> QED
    BY <1>1, <2>6, <2>7
<1> QED
  BY <1>6, <1>7, <1>8 DEF PInv

-----------------------------------------------------------------------------
(* The server. *)

\* The call c is replaced by r, which is the same call answered.
LEMMA ReplyFrame ==
  ASSUME IInv, PInv, NEW c \in net, NEW r, net' = (net \ {c}) \cup {r},
         r.id = c.id, r.step = c.step, r.todo = c.todo
  PROVE  /\ Ids(net') /\ (Mixing(net') => Mixing(net))
         /\ \A d \in net' : Shape(d.step, d.todo)
<1>1. Ids(net')
  BY DEF PInv, Ids
<1>2. Mixing(net') => Mixing(net)
  BY DEF Mixing, OnRows
<1>3. \A d \in net' : Shape(d.step, d.todo)
  BY DEF PInv
<1> QED
  BY <1>1, <1>2, <1>3

\* The page, with one call answered.
LEMMA ReplyCalm ==
  ASSUME IInv, PInv, NEW c \in net, NEW r, net' = (net \ {c}) \cup {r},
         r.id = c.id, r.step = c.step, r.todo = c.todo, OnRows(c),
         UNCHANGED <<mem, kb, drawn, drafts, mixed, restored>>, fails' >= fails,
         fails \in Nat, fails' \in Nat, DbFull',
         ~mixed /\ Calm => Now(r)',
         \A k \in Keys \ {"kb_paused"} : db'[k] = db[k] \/ Settles(c, k),
         db'["kb_paused"] = db["kb_paused"] \/ SettlesKb(c)
  PROVE  PInv'
<1>1. /\ Ids(net') /\ (Mixing(net') => Mixing(net))
      /\ \A d \in net' : Shape(d.step, d.todo)
  BY ReplyFrame
<1>2. ASSUME ~mixed PROVE ~Mixing(net') /\ Calm'
  <2>1. Ids(net) /\ ~Mixing(net) /\ ~Mixing(net') /\ Calm
    BY <1>1, <1>2 DEF PInv
  <2>2. \A d \in net \ {c} : ~OnRows(d) /\ (d.state = "failed" => fails >= 1)
    BY <2>1, Alone DEF Calm, Now
  <2>3. \A d \in net \ {c} : Now(d)'
    BY <2>2, NowElsewhere
  <2>4. Now(r)'
    BY <1>2, <2>1
  <2>5. \A d \in net : \E e \in net' : /\ SettlesKb(d) => SettlesKb(e)
                                       /\ \A k : Settles(d, k) => Settles(e, k)
    BY DEF Settles, SettlesKb
  <2>6. RowsAgree'
    <3> SUFFICES ASSUME drawn, "rows" \notin restored, NEW k \in Keys \ {"kb_paused"}
                 PROVE  k \in drafts \/ Agrees(k)' \/ \E e \in net' : Settles(e, k)
      BY DEF RowsAgree
    <3>1. k \in drafts \/ Agrees(k) \/ \E d \in net : Settles(d, k)
      BY <2>1 DEF Calm, RowsAgree
    <3>2. CASE k \in drafts \/ \E d \in net : Settles(d, k)
      BY <2>5, <3>2
    <3>3. CASE Agrees(k) /\ db'[k] = db[k]
      BY <3>3 DEF Agrees, NotShown
    <3>4. CASE Settles(c, k)
      BY <2>5, <3>4
    <3> QED
      BY <3>1, <3>2, <3>3, <3>4
  <2>7. KbAgrees'
    <3>1. SettlesKb(c) => \E e \in net' : SettlesKb(e)
      BY <2>5
    <3>2. fails' = 0 => fails = 0
      OBVIOUS
    <3> QED
      BY <2>1, <2>5, <3>1, <3>2 DEF Calm, KbAgrees
  <2>8. Loaded'
    BY <2>1 DEF Calm, Loaded
  <2> QED
    BY <2>1, <2>3, <2>4, <2>6, <2>7, <2>8 DEF Calm
<1> QED
  BY <1>1, <1>2 DEF PInv

\* A call that is not on the rows ends.
LEMMA ShowsCalm ==
  ASSUME IInv, PInv, NEW c \in net, net' = net \ {c}, ~OnRows(c),
         UNCHANGED <<db, mem, kb, drawn, drafts, mixed, restored>>,
         fails' >= fails, fails \in Nat, fails' \in Nat, DbFull'
  PROVE  PInv'
<1>1. Ids(net') /\ \A d \in net' : Shape(d.step, d.todo)
  BY DEF PInv, Ids
<1>2. Mixing(net') => Mixing(net)
  BY DEF Mixing
<1>3. ASSUME ~mixed PROVE ~Mixing(net') /\ Calm'
  <2>1. ~Mixing(net') /\ Calm
    BY <1>2, <1>3 DEF PInv
  <2>2. \A d \in net' : Now(d)'
    BY <2>1 DEF Calm, Now
  <2>3. ~SettlesKb(c) /\ \A k : ~Settles(c, k)
    BY SettlesOnRows
  <2>4. RowsAgree' /\ KbAgrees' /\ Loaded'
    BY <2>1, <2>3 DEF Calm, RowsAgree, KbAgrees, Loaded, Agrees, NotShown
  <2> QED
    BY <2>1, <2>2, <2>4 DEF Calm
<1> QED
  BY <1>1, <1>3 DEF PInv

\* A call that is not on the rows is answered.
LEMMA ElsewhereCalm ==
  ASSUME IInv, PInv, NEW c \in net, NEW r, net' = (net \ {c}) \cup {r},
         r.id = c.id, r.step = c.step, r.todo = c.todo, r.state # "failed", ~OnRows(c),
         UNCHANGED <<db, backup, mem, kb, drawn, drafts, mixed, restored>>,
         fails' >= fails, fails \in Nat, fails' \in Nat
  PROVE  PInv'
<1>1. /\ Ids(net') /\ (Mixing(net') => Mixing(net))
      /\ \A d \in net' : Shape(d.step, d.todo)
  BY ReplyFrame
<1>2. DbFull'
  BY DEF PInv, DbFull
<1>3. ASSUME ~mixed PROVE ~Mixing(net') /\ Calm'
  <2>1. ~Mixing(net') /\ Calm
    BY <1>1, <1>3 DEF PInv
  <2>2. \A d \in net : Now(d)'
    BY <2>1 DEF Calm, Now
  <2>3. Now(r)'
    BY NowElsewhere DEF OnRows
  <2>4. ~SettlesKb(c) /\ \A k : ~Settles(c, k)
    BY SettlesOnRows
  <2>5. RowsAgree' /\ KbAgrees' /\ Loaded'
    BY <2>1, <2>4 DEF Calm, RowsAgree, KbAgrees, Loaded, Agrees, NotShown
  <2> QED
    BY <2>1, <2>2, <2>3, <2>5 DEF Calm
<1> QED
  BY <1>1, <1>2, <1>3 DEF PInv

\* An answered call is the same call.
LEMMA Answers ==
  ASSUME NEW c, CallOK(c), NEW st \in {"ok", "failed"}, NEW rows \in Rows
  PROVE  LET r == [c EXCEPT !.state = st]
             s == [c EXCEPT !.state = st, !.rows = rows] IN
         /\ r.id = c.id /\ r.step = c.step /\ r.todo = c.todo /\ r.state = st /\ r.rows = c.rows
         /\ s.id = c.id /\ s.step = c.step /\ s.todo = c.todo /\ s.state = st /\ s.rows = rows
BY DEF CallOK, CallType

LEMMA ServeReadCalm == ASSUME IInv, PInv, NEW c \in net, ServeRead(c) PROVE PInv'
<1>1. CallOK(c) /\ db \in Rows /\ fails \in Nat
  BY DEF IInv, Calls, DbRows
<1> DEFINE s == [c EXCEPT !.state = "ok", !.rows = db]
<1>2. s.id = c.id /\ s.step = c.step /\ s.todo = c.todo /\ s.state = "ok" /\ s.rows = db
  BY <1>1, Answers
<1>3. /\ net' = (net \ {c}) \cup {s} /\ c.step.op \in {"load", "status"}
      /\ UNCHANGED <<db, backup, mem, kb, drawn, drafts, mixed, fails, restored>>
  BY DEF ServeRead, Reply, server, page
<1> HIDE DEF s
<1>4. PICK r : r = s
  OBVIOUS
<1>5. OnRows(c) /\ DbFull'
  BY <1>3 DEF OnRows, PInv, DbFull
<1>6. ASSUME ~mixed, Calm PROVE Now(r)'
  <2>1. c.step.op = "status" /\ c.todo = <<>> => drawn
    BY <1>6 DEF Calm, Now
  <2> QED
    BY <1>2, <1>3, <1>4, <2>1 DEF Now
<1>7. /\ \A k \in Keys \ {"kb_paused"} : db'[k] = db[k] \/ Settles(c, k)
      /\ db'["kb_paused"] = db["kb_paused"] /\ fails' \in Nat /\ fails' >= fails
  BY <1>1, <1>3
<1> QED
  BY <1>1, <1>2, <1>3, <1>4, <1>5, <1>6, <1>7, ReplyCalm

LEMMA ServeWriteCalm == ASSUME IInv, PInv, NEW c \in net, ServeWrite(c) PROVE PInv'
<1> DEFINE r == [c EXCEPT !.state = "ok"]
           k == c.step.key
<1>1. CallOK(c) /\ c.step \in Steps /\ fails \in Nat
  BY DEF IInv, Calls, CallOK, CallType
<1>2. r.id = c.id /\ r.step = c.step /\ r.todo = c.todo /\ r.state = "ok"
  BY <1>1, Answers, NoRowsOK
<1>3. /\ net' = (net \ {c}) \cup {r} /\ c.step.op \in {"put", "pause"}
      /\ db' = [db EXCEPT ![k] = c.step.value]
      /\ UNCHANGED <<backup, mem, kb, drawn, drafts, mixed, fails, restored>>
  BY DEF ServeWrite, Asked, Ok, Reply, page
<1> HIDE DEF r
<1>4. OnRows(c)
  BY <1>3 DEF OnRows
<1>5. k \in Keys /\ (c.step.op = "pause" => k = "kb_paused") /\ Fits(k, c.step.value)
  BY <1>1, <1>3, KeysAre DEF Steps, Fits
<1>6. db'[k] = c.step.value /\ \A j \in Keys \ {k} : db'[j] = db[j]
  BY <1>3, <1>5 DEF IInv, DbRows, Rows
<1>7. DbFull'
  <2>1. k # "complexity" => c.step.value # None
    BY <1>5, NoneAssumption, KeysAre DEF Fits
  <2> QED
    BY <1>3, <1>6, <2>1 DEF PInv, DbFull, Created
<1>8. ~mixed /\ Calm => Now(r)'
  BY <1>2, <1>3, <1>6 DEF Calm, Now
<1>9. \A j \in Keys \ {"kb_paused"} : db'[j] = db[j] \/ Settles(c, j)
  BY <1>3, <1>5, <1>6 DEF Settles
<1>10. ~mixed /\ Calm => db'["kb_paused"] = db["kb_paused"] \/ SettlesKb(c)
  BY <1>3, <1>6, KeysAre DEF Calm, Now, SettlesKb
<1>11. CASE mixed
  <2>1. Ids(net') /\ \A d \in net' : Shape(d.step, d.todo)
    BY <1>2, <1>3, ReplyFrame
  <2> QED
    BY <1>3, <1>7, <1>11, <2>1 DEF PInv
<1>12. CASE ~mixed
  <2>1. db'["kb_paused"] = db["kb_paused"] \/ SettlesKb(c)
    BY <1>10, <1>12 DEF PInv
  <2> QED
    BY <1>1, <1>2, <1>3, <1>4, <1>7, <1>8, <1>9, <2>1, ReplyCalm
<1> QED
  BY <1>11, <1>12

LEMMA ServeSeedCalm == ASSUME IInv, PInv, NEW c \in net, ServeSeed(c) PROVE PInv'
<1> DEFINE r == [c EXCEPT !.state = "ok"]
<1>1. CallOK(c) /\ fails \in Nat
  BY DEF IInv, Calls
<1>2. r.id = c.id /\ r.step = c.step /\ r.todo = c.todo /\ r.state = "ok"
  BY <1>1, Answers, NoRowsOK
<1>3. /\ net' = (net \ {c}) \cup {r} /\ c.step.op = "seed"
      /\ \A j \in Keys \ Created : db'[j] = db[j]
      /\ db["feature"] # None => db'["feature"] = db["feature"]
      /\ UNCHANGED <<backup, mem, kb, drawn, drafts, mixed, fails, restored>>
  <2>1. db \in [Keys -> Datum] /\ "feature" \in Keys
    BY KeysAre DEF IInv, DbRows, Rows
  <2> QED
    BY <2>1 DEF ServeSeed, Asked, Ok, Reply, page, Created
<1> HIDE DEF r
<1>4. OnRows(c)
  BY <1>3 DEF OnRows
<1>5. DbFull'
  BY <1>3 DEF PInv, DbFull
<1>6. ~mixed /\ Calm => Now(r)'
  BY <1>2, <1>3 DEF Calm, Now
<1>7. \A j \in Keys \ {"kb_paused"} : db'[j] = db[j] \/ Settles(c, j)
  BY <1>3 DEF Settles
<1>8. db'["kb_paused"] = db["kb_paused"]
  BY <1>3, KeysAre DEF Created
<1> QED
  BY <1>1, <1>2, <1>3, <1>4, <1>5, <1>6, <1>7, <1>8, ReplyCalm

\* A restore changes the rows, and is remembered until they are loaded.
LEMMA ServeRestoreCalm == ASSUME IInv, PInv, NEW c \in net, ServeRestore(c) PROVE PInv'
<1> DEFINE q == <<Do("reload")>>
<1>5. PICK r : r = Call(c.id, q)
  OBVIOUS
<1>6. q \in Chains /\ Head(q) = Do("reload")
  BY DoIsStep, OneStep
<1>1. /\ net' = (net \ {c}) \cup {r} /\ c.step.op = "restore"
      /\ db' = backup /\ restored' = {"rows", "kb"}
      /\ UNCHANGED <<backup, mem, kb, drawn, drafts, mixed, fails>>
  BY <1>5 DEF ServeRestore, Asked, Reply, page
<1>7. r.id = c.id /\ r.step.op = "reload" /\ r.state = "sent"
  BY <1>5, <1>6 DEF Call, Do, Step
<1> HIDE DEF q
<1>8. ~OnRows(r) /\ Shape(r.step, r.todo)
  BY <1>7 DEF OnRows, Shape
<1>2. Ids(net') /\ DbFull' /\ \A d \in net' : Shape(d.step, d.todo)
  BY <1>1, <1>7, <1>8 DEF PInv, Ids, DbFull
<1>3. Mixing(net') => Mixing(net)
  BY <1>1, <1>8 DEF Mixing
<1>4. ASSUME ~mixed PROVE ~Mixing(net') /\ Calm'
  <2>1. Ids(net) /\ ~Mixing(net) /\ ~Mixing(net') /\ Calm
    BY <1>3, <1>4 DEF PInv
  <2>2. \A d \in net \ {c} : ~OnRows(d) /\ (d.state = "failed" => fails >= 1)
    BY <1>1, <2>1, Alone DEF Calm, Now, OnRows
  <2>3. \A d \in net' : Now(d)'
    BY <1>1, <1>7, <1>8, <2>2, NowElsewhere
  <2>4. RowsAgree' /\ KbAgrees' /\ Loaded'
    BY <1>1, <2>1 DEF Calm, RowsAgree, KbAgrees, Loaded
  <2> QED
    BY <2>1, <2>3, <2>4 DEF Calm
<1> QED
  BY <1>1, <1>2, <1>4 DEF PInv

\* A reload reads the switch, which the page does not show.
LEMMA ReadCalm ==
  ASSUME IInv, PInv, NEW c \in net, ReadSwitch(c) \/ ReadSwitchInVain(c)
  PROVE  PInv'
<1>1. PICK b \in BOOLEAN : \/ (ReadSwitch(c) /\ b = db["proxy_enabled"])
                          \/ (ReadSwitchInVain(c) /\ b = TRUE)
  <2>1. db["proxy_enabled"] \in BOOLEAN
    BY DEF IInv, DbRows
  <2> QED
    BY <2>1
<1>2. PICK r : r = [c EXCEPT !.state = "read", !.held = b]
  OBVIOUS
<1>3. /\ net' = (net \ {c}) \cup {r} /\ c.step.op = "reload"
      /\ UNCHANGED <<db, backup, mem, kb, drawn, drafts, mixed, restored>>
  BY <1>1, <1>2 DEF ReadSwitch, ReadSwitchInVain, Asked, Reply, page, server
<1>4. CallOK(c)
  BY DEF IInv, Calls
<1>5. r.id = c.id /\ r.step = c.step /\ r.todo = c.todo /\ r.state = "read"
  BY <1>2, <1>4 DEF CallOK, CallType
<1>6. fails \in Nat /\ fails' \in Nat /\ fails' >= fails
  BY <1>1 DEF ReadSwitch, ReadSwitchInVain, IInv
<1>7. ~OnRows(c)
  BY <1>3 DEF OnRows
<1> QED
  BY <1>3, <1>5, <1>6, <1>7, ElsewhereCalm

LEMMA ServeCalm == ASSUME IInv, PInv, NEW c \in net, Serve(c) PROVE PInv'
<1>1. CASE InstallSwitch(c) \/ ServeMail(c) \/ ServeBackup(c)
  <2>1. /\ net' = net \ {c} /\ c.step.op \in {"reload", "mail", "backup"}
        /\ UNCHANGED <<db, mem, kb, drawn, drafts, mixed, restored, fails>>
        /\ backup' \in {backup, db}
    BY <1>1 DEF InstallSwitch, ServeMail, ServeBackup, Asked, Shows, page, server
  <2>2. DbFull' /\ ~OnRows(c) /\ fails \in Nat
    BY <2>1 DEF PInv, DbFull, OnRows, IInv
  <2> QED
    BY <2>1, <2>2, ShowsCalm
<1> QED
  BY <1>1, ServeReadCalm, ServeWriteCalm, ServeSeedCalm, ReadCalm, ServeRestoreCalm DEF Serve

LEMMA FailCalm == ASSUME IInv, PInv, NEW c \in net, Fail(c) PROVE PInv'
<1>1. /\ fails' = fails + 1 /\ fails \in Nat
      /\ \/ c.state = "sent"
         \/ c.state = "ok" /\ c.step.op \in {"put", "pause", "seed"}
      /\ UNCHANGED <<db, backup, restored>>
  BY DEF Fail, IInv, server
<1>2. DbFull'
  BY <1>1 DEF PInv, DbFull
<1>3. CASE c.step.op \in {"reload", "mail", "backup"}
  <2>1. net' = net \ {c} /\ UNCHANGED <<mem, kb, drawn, drafts, mixed>>
    BY <1>3 DEF Fail, Shows, page
  <2>2. ~OnRows(c)
    BY <1>3 DEF OnRows
  <2> QED
    BY <1>1, <1>2, <2>1, <2>2, ShowsCalm
<1>4. CASE c.step.op = "restore"
  <2>1. net' = net \ {c} /\ UNCHANGED <<mem, kb, drawn, drafts, mixed>>
    BY <1>4 DEF Fail, Shows, page
  <2>2. Ids(net') /\ \A d \in net' : Shape(d.step, d.todo)
    BY <2>1 DEF PInv, Ids
  <2>3. Mixing(net') => Mixing(net)
    BY <2>1 DEF Mixing
  <2>4. ASSUME ~mixed PROVE ~Mixing(net') /\ Calm'
    <3>1. Ids(net) /\ ~Mixing(net) /\ ~Mixing(net') /\ Calm
      BY <2>3, <2>4 DEF PInv
    <3>2. \A d \in net \ {c} : ~OnRows(d)
      BY <1>4, <3>1, Alone DEF OnRows
    <3>3. \A d \in net' : Now(d)'
      BY <1>1, <2>1, <3>2, NowElsewhere
    <3>4. ~SettlesKb(c) /\ \A k : ~Settles(c, k)
      BY <1>4 DEF SettlesKb, Settles
    <3>5. RowsAgree' /\ KbAgrees' /\ Loaded'
      BY <1>1, <2>1, <3>1, <3>4 DEF Calm, RowsAgree, KbAgrees, Loaded, Agrees, NotShown
    <3> QED
      BY <3>1, <3>3, <3>5 DEF Calm
  <2> QED
    BY <1>2, <2>1, <2>2, <2>4 DEF PInv
<1>5. CASE c.step.op \notin {"reload", "mail", "backup", "restore"}
  <2> DEFINE r == [c EXCEPT !.state = "failed"]
  <2>1. net' = (net \ {c}) \cup {r} /\ UNCHANGED <<mem, kb, drawn, drafts, mixed>>
    BY <1>5 DEF Fail, Reply, page
  <2>2. CallOK(c) /\ c.step.op \in Ops
    BY DEF IInv, Calls, CallOK, CallType, Steps
  <2>3. r.id = c.id /\ r.step = c.step /\ r.todo = c.todo /\ r.state = "failed"
    BY <2>2, Answers, NoRowsOK
  <2> HIDE DEF r
  <2>4. OnRows(c)
    BY <1>5, <2>2 DEF OnRows, Ops
  <2>5. ~mixed /\ Calm => Now(r)'
    BY <1>1, <2>1, <2>3 DEF Calm, Now
  <2> QED
    BY <1>1, <1>2, <2>1, <2>3, <2>4, <2>5, ReplyCalm
<1> QED
  BY <1>3, <1>4, <1>5

-----------------------------------------------------------------------------
(* The page follows the rows. *)

LEMMA InitCalm == ASSUME Init PROVE PInv
<1>1. backup = db /\ fails = 0 /\ drafts = {} /\ mixed = FALSE /\ restored = {}
  BY DEF Init
<1>2. \A k \in Keys \ Created : db[k] # None
  BY InitRows, KeysAre, OldAssumption, NoneAssumption DEF Created
<1>3. DbFull
  BY <1>1, <1>2 DEF DbFull
<1>4. CASE net = {} /\ mem = db /\ kb = FALSE
  <2>1. db["kb_paused"] = FALSE
    BY InitRows
  <2>2. Calm
    BY <1>1, <1>2, <1>4, <2>1 DEF Calm, RowsAgree, KbAgrees, Loaded, Agrees
  <2> QED
    BY <1>3, <1>4, <2>2 DEF PInv, Ids, Mixing
<1>5. CASE net = {Call(1, Opening)} /\ drawn = FALSE
  <2> DEFINE c == Call(1, Opening)
  <2>1. Head(Opening) = Do("status") /\ Tail(Opening) = <<Do("load"), Do("seed"), Do("seed")>>
    BY DEF Opening
  <2>2. c.step = Do("status") /\ c.todo = <<Do("load"), Do("seed"), Do("seed")>> /\ c.state = "sent"
    BY <2>1 DEF Call
  <2>3. c.step.op = "status" /\ c.todo # <<>>
    BY <2>2 DEF Do, Step
  <2> HIDE DEF c
  <2>4. Shape(c.step, c.todo) /\ Now(c) /\ SettlesKb(c)
    BY <2>2, <2>3 DEF Shape, Now, SettlesKb
  <2>5. net = {c}
    BY <1>5 DEF c
  <2>6. Calm
    BY <1>5, <2>4, <2>5 DEF Calm, RowsAgree, KbAgrees, Loaded
  <2>7. Ids(net) /\ ~Mixing(net)
    BY <2>5 DEF Ids, Mixing
  <2>8. \A d \in net : Shape(d.step, d.todo)
    BY <2>4, <2>5
  <2> QED
    BY <1>3, <2>6, <2>7, <2>8 DEF PInv
<1>6. \/ net = {Call(1, Opening)} /\ drawn = FALSE
      \/ net = {} /\ mem = db /\ kb = FALSE
  BY DEF Init
<1> QED
  BY <1>4, <1>5, <1>6

LEMMA NextCalm == ASSUME IInv, PInv, [Next]_vars PROVE PInv'
<1>1. CASE UNCHANGED vars
  BY <1>1 DEF vars, PInv, DbFull, Calm, Now, RowsAgree, KbAgrees, Loaded, Agrees, NotShown
<1>2. ASSUME NEW c \in net, Answered(c) PROVE PInv'
  BY <1>2, ListedCalm, SeededCalm, SavedCalm, SaveFailedCalm, StatusCalm, PauseAnsweredCalm
     DEF Answered
<1>3. ASSUME NEW v \in Values \ {Old},
             \/ SaveOne(v) \/ SaveAlertNotify(v) \/ SendTestEmail(v)
             \/ SaveExtractConfig(v) \/ ChangeExtractProvider(v) \/ EditHealthConfigs(v)
      PROVE  PInv'
  BY <1>3, SimpleCalm, CardCalm, EditCalm
<1>4. CASE Load \/ Refresh \/ ReloadProxy \/ Backup \/ Restore
  BY <1>4, OpenCalm
<1>5. CASE SaveHealthConfigs \/ ResetHealthConfigs \/ SaveComplexityConfig \/ ResetComplexityConfig
  BY <1>5, SimpleCalm, ComplexityCalm, OldAssumption
<1>6. ASSUME NEW b \in BOOLEAN, ToggleProxySwitch(b) \/ PauseKb(b) PROVE PInv'
  BY <1>6, SwitchCalm, PauseCalm
<1>7. ASSUME NEW i \in 1..Bands, NEW v \in 0..Top, UpdateComplexityTier(i, v) PROVE PInv'
  BY <1>7, TierCalm
<1>8. ASSUME NEW c \in net, Serve(c) \/ Fail(c) PROVE PInv'
  BY <1>8, ServeCalm, FailCalm
<1> QED
  BY <1>1, <1>2, <1>3, <1>4, <1>5, <1>6, <1>7, <1>8 DEF Next

-----------------------------------------------------------------------------
(* The properties. *)

\* What the two invariants say holds of every state the page, the server and the
\* gateway reach (settings.js:1195-1255, routes/settings.py:22-112).
THEOREM SettingsInvariant == Spec => [](IInv /\ PInv)
<1>1. Init => IInv /\ PInv
  BY InitInv, InitCalm
<1>2. IInv /\ PInv /\ [Next]_vars => (IInv /\ PInv)'
  <2>1. PInv => Ids(net)
    BY DEF PInv
  <2> QED
    BY <2>1, NextInv, NextCalm
<1> QED
  BY <1>1, <1>2, PTL DEF Spec

\* The rows, the page's copy of them and the calls under way keep their types,
\* however chains interleave and fail (settings.js:1195-1255).
THEOREM SettingsTypes == Spec => []TypeOK
<1>1. IInv /\ PInv => TypeOK
  <2> SUFFICES ASSUME IInv PROVE TypeOK
    OBVIOUS
  <2>1. RowsOK(db) /\ RowsOK(backup) /\ RowsOK(mem)
    BY DEF IInv, DbRows, Rows
  <2>2. \A c \in net : c.id \in Nat /\ c.state \in {"sent", "read", "ok", "failed"} /\ RowsOK(c.rows)
    BY DEF IInv, Calls, CallOK, CallType, Rows
  <2> QED
    BY <2>1, <2>2 DEF IInv, TypeOK
<1> QED
  BY <1>1, SettingsInvariant, PTL

\* For any number of thresholds those that are stored rise as far as there are any,
\* and none that rows of the former kind had is above 1.0: whatever rows were found,
\* and whatever was typed, saved, reset, restored and migrated since
\* (settings.js:817-842, routes/settings.py:345-381, 446-450).
THEOREM StoredThresholdsRise == Spec => []StoredConfigValid
<1>1. IInv /\ PInv => StoredConfigValid
  <2> SUFFICES ASSUME IInv, db["complexity"] # None PROVE Ordered(db["complexity"])
    BY DEF StoredConfigValid, Ordered
  <2> QED
    BY DEF IInv, DbRows, Sound
<1> QED
  BY <1>1, SettingsInvariant, PTL

\* With no switching and no reload under way the gateway runs with the stored
\* switch, however many reloads read and stored across each other, unless the last
\* one failed, read in vain, or stored what it had read before another one
\* (settings.js:1217-1223, wr-proxy/features.go:33-43).
THEOREM GatewayTakesSwitch == Spec => []GatewayFollowsSwitch
<1>1. IInv /\ PInv => GatewayFollowsSwitch
  <2> SUFFICES ASSUME IInv, \A c \in net : c.step.key # "proxy_enabled" /\ c.step.op # "reload", ~unheard
               PROVE  gateway = db["proxy_enabled"]
    BY DEF GatewayFollowsSwitch
  <2>1. \A c \in net : ~Owing(c)
    BY DEF Owing, Switches
  <2>2. \A c \in net : ~Brings(c)
    BY DEF IInv, Calls, CallOK, Brings
  <2> QED
    BY <2>1, <2>2 DEF IInv, Follows
<1> QED
  BY <1>1, SettingsInvariant, PTL

\* Whatever chains were started, refused and lost, the page with nothing under way
\* shows the rows as they are, drafts aside, unless two calls for the rows were
\* under way at once, a backup was restored, or a creation of missing rows was
\* answered in vain (settings.js:1244-1255, 372-381, 1407-1413).
THEOREM PageShowsRows == Spec => []PageFollowsRows
<1>1. IInv /\ PInv => PageFollowsRows
  BY DEF IInv, PInv, Calm, RowsAgree, KbAgrees, Agrees, PageFollowsRows
<1> QED
  BY <1>1, SettingsInvariant, PTL
=============================================================================
