---------------------------- MODULE SettingsPage ----------------------------
(***************************************************************************)
(* The settings page of the admin console (static/js/settings.js) over the *)
(* rows of wr_system_settings (routes/settings.py) and the gateway, which  *)
(* keeps a copy of its own that a reload refreshes: handleReload           *)
(* (wr-proxy/handlers.go) reads and then stores, and nothing orders two.   *)
(*                                                                         *)
(* The page holds the rows as loaded; editors of structured settings write *)
(* into that copy, and only their save button sends it.  Most buttons are  *)
(* a chain of awaited calls: the next is sent when the last is answered,   *)
(* well or not.  Two chains interleave, as no button is locked.            *)
(***************************************************************************)
EXTENDS Naturals, Sequences, FiniteSets

CONSTANTS
  Values,   \* of the settings whose values do not matter
  Old,      \* the one of them that all have at start
  Bands,    \* the tier thresholds of the complexity configuration: 1..Bands
  Full,     \* the highest threshold that is valid, 1.0 in units of 0.1
  Top,      \* bound: the highest one that is typed
  None,
  MaxActs,  \* bound: chains started and drafts edited
  MaxFails  \* bound: calls that fail

ASSUME BoundsAssumption ==
  /\ Bands \in Nat \ (0..2) /\ Full \in Nat /\ Bands <= Full /\ Top \in Nat
  /\ MaxActs \in Nat \ {0} /\ MaxFails \in Nat
ASSUME OldAssumption == Old \in Values
ASSUME NoneAssumption == None \notin Values \cup BOOLEAN

VARIABLES
  db,       \* wr_system_settings: key -> value
  gateway,  \* the gateway's copy of "proxy_enabled"
  backup,   \* the backup file, or None
  mem,      \* this.settings: key -> value, None without a row
  kb,       \* this.kb: paused or not, or None
  drawn,    \* the container holds the page, not the load error
  net, acts, fails,
  drafts,   \* history: keys edited in memory since they were loaded or saved
  mixed,    \* history: calls for the rows were under way at the same time
  newest,   \* history: the reload that read last, until it is done, or 0
  unheard,  \* history: the gateway's copy may be old: the last reload failed, read
            \* in vain, or stored what it had read before another one read
  restored  \* history: what of {"rows", "kb"} was not loaded since a restore

vars == <<db, gateway, backup, mem, kb, drawn, net, acts, fails,
          drafts, mixed, newest, unheard, restored>>
server == <<db, gateway, backup>>
page   == <<mem, kb, drawn>>
heard  == <<newest, unheard>>

Alert   == <<"smtp_host", "email_to">>           \* of the seven keys of the card
Extract == <<"extract_provider_id", "extract_model">> \* of the five
CardKeys(card) == {card[i] : i \in DOMAIN card}

Plain  == {"max_failover", "health_test_configs"} \cup CardKeys(Alert) \cup CardKeys(Extract)
Keys   == Plain \cup {"feature", "proxy_enabled", "complexity", "kb_paused"}

\* The thresholds of a configuration; 0 where there is none, or no number above 0.
Config  == [1..Bands -> Nat]
Default == [i \in 1..Bands |-> i]

\* As they were stored before the two highest ones were introduced.
Former == {cfg \in [1..Bands -> 0..Full] :
             \A i \in 1..Bands : IF i > Bands - 2 THEN cfg[i] = 0
                                 ELSE cfg[i] > (IF i = 1 THEN 0 ELSE cfg[i - 1])}

Lifted(v, below, default) ==
  IF v > below THEN v ELSE IF below + 1 > default THEN below + 1 ELSE default

\* migrate_complexity_config: what is missing is the default, and the two highest
\* are lifted above the one before, 1.0 or not.
Migrated(cfg) ==
  LET filled == [i \in 1..Bands |-> IF cfg[i] = 0 THEN Default[i] ELSE cfg[i]]
      high   == Lifted(filled[Bands - 1], filled[Bands - 2], Default[Bands - 1]) IN
  [filled EXCEPT ![Bands - 1] = high,
                 ![Bands]     = Lifted(filled[Bands], high, Default[Bands])]

NoRows == [k \in Keys |-> None]

(***************************************************************************)
(* A call and the chain it belongs to: todo is what is sent after it. What *)
(* a save puts back into memory, held, is the object it was made with: the *)
(* page's own one when a draft is saved, which later edits go on changing. *)
(***************************************************************************)
Step(op, key, value) == [op |-> op, key |-> key, value |-> value, own |-> FALSE]
Put(key, value)      == Step("put", key, value)
PutOwn(key)          == [Put(key, mem[key]) EXCEPT !.own = TRUE]
Do(op)               == Step(op, None, None)

Call(n, chain) == [id |-> n, step |-> Head(chain), todo |-> Tail(chain), state |-> "sent",
                   rows |-> NoRows, held |-> Head(chain).value, own |-> Head(chain).own]

Editing(calls, k, v) == {IF c.own /\ c.step.key = k THEN [c EXCEPT !.held = v] ELSE c : c \in calls}
Replaced(calls)      == {[c EXCEPT !.own = FALSE] : c \in calls}

\* Calls that read or write the rows the page shows.
OnRows(c) == c.step.op \in {"put", "load", "seed", "status", "pause", "restore"}
Mixing(calls) == \E c \in calls, d \in calls : c.id # d.id /\ OnRows(c) /\ OnRows(d)

\* The chains that are sent, beside the calls that stay; ids tell them apart.
Sends(calls, chains) ==
  LET free == CHOOSE n \in 1..(2 * Cardinality(calls) + 1) : \A c \in calls : c.id \notin {n, n + 1} IN
  /\ net' = calls \cup {Call(free + i - 1, chains[i]) : i \in DOMAIN chains}
  /\ mixed' = (mixed \/ Mixing(net'))

\* A button starts a chain.
Start(chain) ==
  /\ acts < MaxActs /\ acts' = acts + 1
  /\ Sends(net, <<chain>>)

\* The rest of a chain, if there is any.
Rest(todo) == IF todo = <<>> THEN <<>> ELSE <<todo>>

\* The answer of c has been dealt with: the next call of its chain is sent.
Continue(c, todo, more) == Sends(net \ {c}, Rest(todo) \o more)

(***************************************************************************)
(* The page is opened: load() asks for the knowledge base's status, then   *)
(* for the rows, and has them created if the feature or the complexity     *)
(* configuration has none.                                                 *)
(***************************************************************************)
Opening == <<Do("status"), Do("load"), Do("seed"), Do("seed")>>

\* What of the two creations is asked for; the second one is decided on again.
Creations(rows) ==
  CASE rows["feature"] = None    -> <<Do("seed"), Do("seed")>>
    [] rows["complexity"] = None -> <<Do("seed")>>
    [] OTHER                     -> <<>>

Stored(feature, config) == [k \in Keys |-> CASE k \in Plain -> Old
                                             [] k = "feature" -> feature
                                             [] k = "proxy_enabled" -> TRUE
                                             [] k = "kb_paused" -> FALSE
                                             [] k = "complexity" -> config]

\* For the first time, or with everything loaded.
Init ==
  /\ \/ /\ db \in {Stored(feature, config) : feature \in {None, Old},
                                            config \in {None, Default} \cup Former}
        /\ net = {Call(1, Opening)} /\ acts = 1
        /\ mem = NoRows /\ kb = None /\ drawn = FALSE
     \/ /\ db = Stored(Old, Default) /\ net = {} /\ acts = 0
        /\ mem = db /\ kb = FALSE /\ drawn = TRUE
  /\ gateway = TRUE /\ backup = db
  /\ fails = 0
  /\ drafts = {} /\ mixed = FALSE /\ newest = 0 /\ unheard = FALSE /\ restored = {}

(***************************************************************************)
(* The buttons.                                                            *)
(***************************************************************************)
Shown(k) == drawn /\ mem[k] # None

\* The router shows the page again.
Load ==
  /\ Start(Opening)
  /\ UNCHANGED <<server, page, fails, drafts, heard, restored>>

\* The button that loads the rows.
Refresh ==
  /\ drawn
  /\ Start(<<Do("load")>>)
  /\ UNCHANGED <<server, page, fails, drafts, heard, restored>>

\* updateNumber, updateString, updateJson, saveLogRetention, toggleFeature, and
\* submitEdit with its modal: one setting.
SaveOne(v) ==
  /\ Shown("max_failover")
  /\ Start(<<Put("max_failover", v)>>)
  /\ UNCHANGED <<server, page, fails, drafts, heard, restored>>

\* A slip: the reload does not wait for the save.
ToggleProxySwitchAtOnce(b) ==
  /\ drawn
  /\ acts < MaxActs /\ acts' = acts + 1
  /\ Sends(net, << <<Put("proxy_enabled", b)>>, <<Do("reload")>> >>)
  /\ UNCHANGED <<server, page, fails, drafts, heard, restored>>

\* toggleProxySwitch: the save, then a reload of the gateway even if it failed.
ToggleProxySwitch(b) ==
  /\ drawn
  /\ Start(<<Put("proxy_enabled", b), Do("reload")>>)
  /\ UNCHANGED <<server, page, fails, drafts, heard, restored>>

\* Stands for the reloads that other pages and tabs cause, too.
ReloadProxy ==
  /\ drawn
  /\ Start(<<Do("reload")>>)
  /\ UNCHANGED <<server, page, fails, drafts, heard, restored>>

(***************************************************************************)
(* Cards of several settings: one call after the other.                    *)
(***************************************************************************)
Saves(card, v) == [i \in DOMAIN card |-> Put(card[i], v)]

SaveCard(card, v, after) ==
  /\ drawn
  /\ Start(Saves(card, v) \o after)
  /\ UNCHANGED <<server, page, fails, drafts, heard, restored>>

SaveAlertNotify(v) == SaveCard(Alert, v, <<>>)
SendTestEmail(v)   == SaveCard(Alert, v, <<Step("mail", None, v)>>)

\* saveExtractConfig loads the rows at the end.
SaveExtractConfig(v) == SaveCard(Extract, v, <<Do("load")>>)

\* onExtractProviderChange: provider and model are changed in memory alone; the
\* model waits for a choice.
ChangeExtractProvider(v) ==
  /\ drawn /\ acts < MaxActs /\ acts' = acts + 1
  /\ mem' = [mem EXCEPT !["extract_provider_id"] = v, !["extract_model"] = None]
  /\ drafts' = drafts \cup CardKeys(Extract)
  /\ UNCHANGED <<server, kb, drawn, net, fails, mixed, heard, restored>>

(***************************************************************************)
(* Settings edited as drafts in memory.                                    *)
(***************************************************************************)
Draft(k, v) ==
  /\ Shown(k) /\ acts < MaxActs /\ acts' = acts + 1
  /\ mem' = [mem EXCEPT ![k] = v]
  /\ drafts' = drafts \cup {k}
  /\ net' = Editing(net, k, v)
  /\ UNCHANGED <<server, kb, drawn, fails, mixed, heard, restored>>

\* addHealthConfig, removeHealthConfig, updateHealthConfig
EditHealthConfigs(v) == Draft("health_test_configs", v)

SaveHealthConfigs ==
  /\ Shown("health_test_configs")
  /\ Start(<<PutOwn("health_test_configs")>>)
  /\ UNCHANGED <<server, page, fails, drafts, heard, restored>>

ResetHealthConfigs ==
  /\ Shown("health_test_configs")
  /\ Start(<<Put("health_test_configs", Old)>>)
  /\ UNCHANGED <<server, page, fails, drafts, heard, restored>>

\* A slip: a text that is no number is kept.
UpdateComplexityTierRaw(i, v) ==
  /\ Shown("complexity")
  /\ Draft("complexity", [mem["complexity"] EXCEPT ![i] = IF v = 0 THEN None ELSE v])

\* updateComplexityTier; a text that is no number is 0.
UpdateComplexityTier(i, v) ==
  /\ Shown("complexity") /\ v # mem["complexity"][i]
  /\ Draft("complexity", [mem["complexity"] EXCEPT ![i] = v])

\* A slip: thresholds may be equal.
ValidWhenEqual(cfg) ==
  \A i \in DOMAIN cfg : cfg[i] <= Full /\ cfg[i] >= (IF i = 1 THEN 0 ELSE cfg[i - 1])

\* validateComplexityConfig: the thresholds rise, from above 0 to 1.0 at most. The
\* levels and scores it checks as well are not modelled.
ValidComplexityConfig(cfg) ==
  \A i \in DOMAIN cfg : cfg[i] <= Full /\ cfg[i] > (IF i = 1 THEN 0 ELSE cfg[i - 1])

SaveComplexityConfig ==
  /\ Shown("complexity")
  /\ ValidComplexityConfig(mem["complexity"])
  /\ Start(<<PutOwn("complexity"), Do("load")>>)
  /\ UNCHANGED <<server, page, fails, drafts, heard, restored>>

ResetComplexityConfig ==
  /\ Shown("complexity")
  /\ Start(<<Put("complexity", Default), Do("load")>>)
  /\ UNCHANGED <<server, page, fails, drafts, heard, restored>>

(***************************************************************************)
(* The knowledge base, and backups.                                        *)
(***************************************************************************)
\* pauseKb and resumeKb, then loadKbStatus.
PauseKb(b) ==
  /\ drawn /\ kb = ~b
  /\ Start(<<Step("pause", "kb_paused", b), Do("status")>>)
  /\ UNCHANGED <<server, page, fails, drafts, heard, restored>>

Backup ==
  /\ drawn
  /\ Start(<<Do("backup")>>)
  /\ UNCHANGED <<server, page, fails, drafts, heard, restored>>

Restore ==
  /\ drawn /\ backup # NoRows
  /\ Start(<<Do("restore")>>)
  /\ UNCHANGED <<server, page, fails, drafts, heard, restored>>

(***************************************************************************)
(* Answers.                                                                *)
(***************************************************************************)
Ended(c, op) == c.step.op = op /\ c.state \in {"ok", "failed"}

\* loadSettings; in load() the creations follow, if a row of theirs is missing.
Listed(c) ==
  LET m == IF c.state = "ok" THEN c.rows ELSE mem IN
  /\ Ended(c, "load")
  /\ mem' = m
  /\ drawn' = (c.state = "ok")
  /\ drafts' = IF c.state = "ok" THEN {} ELSE drafts
  /\ restored' = IF c.state = "ok" THEN restored \ {"rows"} ELSE restored
  /\ Sends(IF c.state = "ok" THEN Replaced(net \ {c}) ELSE net \ {c},
           Rest(IF c.todo = <<>> THEN <<>> ELSE Creations(m)))
  /\ UNCHANGED <<server, kb, acts, fails, heard>>

\* seedFeatures: the rows are loaded again, and nothing waits for that.
Seeded(c) ==
  /\ Ended(c, "seed")
  /\ Continue(c, IF mem["complexity"] = None THEN c.todo ELSE <<>>,
              IF c.state = "ok" THEN << <<Do("load")>> >> ELSE <<>>)
  /\ UNCHANGED <<server, page, acts, fails, drafts, heard, restored>>

\* saveSetting, saved: the value goes into memory, unless there is no row.
Saved(c) ==
  LET k == c.step.key IN
  /\ Ended(c, "put") /\ c.state = "ok"
  /\ mem' = IF mem[k] = None /\ k \notin drafts THEN mem ELSE [mem EXCEPT ![k] = c.held]
  /\ drafts' = IF c.held = c.step.value THEN drafts \ {k} ELSE drafts \cup {k}
  /\ Continue(c, c.todo, <<>>)
  /\ UNCHANGED <<server, kb, drawn, acts, fails, heard, restored>>

\* A slip: a failure is only reported.
SaveFailedQuietly(c) ==
  /\ Ended(c, "put") /\ c.state = "failed"
  /\ Continue(c, c.todo, <<>>)
  /\ UNCHANGED <<server, page, acts, fails, drafts, heard, restored>>

\* saveSetting, failed: the rows are loaded again, and the chain goes on.
SaveFailed(c) ==
  /\ Ended(c, "put") /\ c.state = "failed"
  /\ Continue(c, c.todo, << <<Do("load")>> >>)
  /\ UNCHANGED <<server, page, acts, fails, drafts, heard, restored>>

\* loadKbStatus; at the end of a chain the page is drawn again.
StatusKnown(c) ==
  /\ Ended(c, "status")
  /\ kb' = IF c.state = "ok" THEN c.rows["kb_paused"] ELSE None
  /\ drawn' = (drawn \/ c.todo = <<>>)
  /\ restored' = IF c.state = "ok" THEN restored \ {"kb"} ELSE restored
  /\ Continue(c, c.todo, <<>>)
  /\ UNCHANGED <<server, mem, acts, fails, drafts, heard>>

\* A failed pause is reported, and its status not asked for.
PauseAnswered(c) ==
  /\ Ended(c, "pause")
  /\ Continue(c, IF c.state = "ok" THEN c.todo ELSE <<>>, <<>>)
  /\ UNCHANGED <<server, page, acts, fails, drafts, heard, restored>>

Answered(c) ==
  \/ Listed(c)
  \/ Seeded(c)
  \/ Saved(c)
  \/ SaveFailed(c)
  \/ StatusKnown(c)
  \/ PauseAnswered(c)

(***************************************************************************)
(* The server, one transaction per call.                                   *)
(***************************************************************************)
Reply(c, r) == /\ net' = (net \ {c}) \cup {r}
               /\ UNCHANGED <<page, acts, drafts, mixed>>
Ok(c)       == Reply(c, [c EXCEPT !.state = "ok"])
Asked(c, op) == c.step.op = op /\ c.state = "sent"

\* An answer that is only shown; such a call is the last of its chain.
Shows(c) == /\ net' = net \ {c}
            /\ UNCHANGED <<page, acts, drafts, mixed>>

\* list_all_settings, knowledge_status
ServeRead(c) ==
  /\ c.step.op \in {"load", "status"} /\ c.state = "sent"
  /\ Reply(c, [c EXCEPT !.state = "ok", !.rows = db])
  /\ UNCHANGED <<server, fails, heard, restored>>

\* update_single_setting; knowledge_pause and knowledge_resume
ServeWrite(c) ==
  /\ Asked(c, "put") \/ Asked(c, "pause")
  /\ db' = [db EXCEPT ![c.step.key] = c.step.value]
  /\ Ok(c)
  /\ UNCHANGED <<gateway, backup, fails, heard, restored>>

\* seed_features: the rows that are missing are created, and a configuration that
\* is there is migrated.
ServeSeed(c) ==
  /\ Asked(c, "seed")
  /\ db' = [db EXCEPT !["feature"] = IF @ = None THEN Old ELSE @,
                      !["complexity"] = IF @ = None THEN Default ELSE Migrated(@)]
  /\ Ok(c)
  /\ UNCHANGED <<gateway, backup, fails, heard, restored>>

\* reload_proxy, and handleReload up to LoadFeatureToggles, which reads the switch.
ReadSwitch(c) ==
  /\ Asked(c, "reload")
  /\ Reply(c, [c EXCEPT !.state = "read", !.held = db["proxy_enabled"]])
  /\ newest' = c.id
  /\ UNCHANGED <<server, fails, unheard, restored>>

\* LoadSetting cannot read it: it is taken to be on, and nobody is told.
ReadSwitchInVain(c) ==
  /\ Asked(c, "reload")
  /\ fails < MaxFails /\ fails' = fails + 1
  /\ Reply(c, [c EXCEPT !.state = "read", !.held = TRUE])
  /\ newest' = 0 /\ unheard' = TRUE
  /\ UNCHANGED <<server, restored>>

\* What was read is stored, whatever another reload has stored since.
InstallSwitch(c) ==
  /\ c.step.op = "reload" /\ c.state = "read"
  /\ gateway' = c.held
  /\ unheard' = (c.id # newest)
  /\ newest' = IF c.id = newest THEN 0 ELSE newest
  /\ Shows(c)
  /\ UNCHANGED <<db, backup, fails, restored>>

\* test_email, with the rows as they are.
ServeMail(c) ==
  /\ Asked(c, "mail")
  /\ Shows(c)
  /\ UNCHANGED <<server, fails, heard, restored>>

ServeBackup(c) ==
  /\ Asked(c, "backup")
  /\ backup' = db
  /\ Shows(c)
  /\ UNCHANGED <<db, gateway, fails, heard, restored>>

\* restore_backup: the file is copied over the database, and the gateway is asked
\* to reload, which may fail and is still a success.
ServeRestore(c) ==
  /\ Asked(c, "restore")
  /\ db' = backup
  /\ restored' = {"rows", "kb"}
  /\ Reply(c, Call(c.id, <<Do("reload")>>))
  /\ UNCHANGED <<gateway, backup, fails, heard>>

\* A call fails before the server sees it, or the answer to a write is lost; a
\* reload fails as well when the gateway cannot read its providers.
Fail(c) ==
  /\ fails < MaxFails /\ fails' = fails + 1
  /\ \/ c.state = "sent"
     \/ c.state = "ok" /\ c.step.op \in {"put", "pause", "seed"}
  /\ IF c.step.op \in {"reload", "mail", "backup", "restore"}
     THEN Shows(c) ELSE Reply(c, [c EXCEPT !.state = "failed"])
  /\ IF c.step.op = "reload" THEN newest' = 0 /\ unheard' = TRUE ELSE UNCHANGED heard
  /\ UNCHANGED <<server, restored>>

Serve(c) ==
  \/ ServeRead(c)
  \/ ServeWrite(c)
  \/ ServeSeed(c)
  \/ ReadSwitch(c)
  \/ ReadSwitchInVain(c)
  \/ InstallSwitch(c)
  \/ ServeMail(c)
  \/ ServeBackup(c)
  \/ ServeRestore(c)

Next ==
  \/ Load
  \/ Refresh
  \/ \E v \in Values \ {Old} : \/ SaveOne(v)
                       \/ SaveAlertNotify(v)
                       \/ SendTestEmail(v)
                       \/ SaveExtractConfig(v)
                       \/ ChangeExtractProvider(v)
                       \/ EditHealthConfigs(v)
  \/ \E b \in BOOLEAN : ToggleProxySwitch(b) \/ PauseKb(b)
  \/ ReloadProxy
  \/ SaveHealthConfigs
  \/ ResetHealthConfigs
  \/ \E i \in 1..Bands, v \in 0..Top : UpdateComplexityTier(i, v)
  \/ SaveComplexityConfig
  \/ ResetComplexityConfig
  \/ Backup
  \/ Restore
  \/ \E c \in net : Serve(c) \/ Fail(c) \/ Answered(c)

Spec == Init /\ [][Next]_vars
-----------------------------------------------------------------------------
(***************************************************************************)
(* Properties                                                              *)
(***************************************************************************)
RowsOK(r) ==
  /\ DOMAIN r = Keys
  /\ \A k \in Plain \cup {"feature"} : r[k] \in Values \cup {None}
  /\ \A k \in {"proxy_enabled", "kb_paused"} : r[k] = None \/ r[k] \in BOOLEAN
  /\ r["complexity"] = None \/ r["complexity"] \in Config

\* Types of the rows, of the page and of the calls under way.
TypeOK ==
  /\ RowsOK(db) /\ RowsOK(backup) /\ RowsOK(mem)
  /\ gateway \in BOOLEAN /\ drawn \in BOOLEAN
  /\ kb = None \/ kb \in BOOLEAN
  /\ \A c \in net : c.id \in Nat /\ c.state \in {"sent", "read", "ok", "failed"} /\ RowsOK(c.rows)
  /\ acts \in 0..MaxActs /\ fails \in 0..MaxFails
  /\ drafts \subseteq Keys

\* Whatever is typed into the editor and however saves, resets, restores and
\* migrations of rows of the former kind interleave, the thresholds that the gateway
\* reads rise as far as there are any, and only a migration can put one above 1.0,
\* never one that the former kind had (settings.js:817-842, routes/settings.py:345-381).
StoredConfigValid ==
  LET cfg == db["complexity"] IN
  cfg # None => \A i \in 1..Bands :
    /\ i <= Bands - 2 => cfg[i] \in 1..Full
    /\ cfg[i] # 0 => \A j \in 1..i - 1 : cfg[j] # 0 /\ cfg[j] < cfg[i]

\* settings.js:831 "thresholds rising", from 0 to 1 (:838): no threshold above 1.0 is
\* stored.
StoredWithinRange ==
  db["complexity"] # None => \A i \in 1..Bands : db["complexity"][i] <= Full

\* A creation was answered in vain, or failed: what it created, or migrated because
\* the feature had no row, the page does not show.
NotShown(k) ==
  /\ fails > 0
  /\ \/ k \in {"feature", "complexity"} /\ mem[k] = None
     \/ k = "complexity" /\ mem["feature"] = None

\* With nothing under way the page shows the rows as they are, drafts aside:
\* after saves that were refused or whose answer was lost as well, unless calls
\* overlapped, a creation of missing rows was answered in vain, or a backup
\* was restored, after which nothing is loaded
\* (settings.js:1244-1255, 372-381, 1407-1413).
PageFollowsRows ==
  net = {} /\ drawn /\ ~mixed =>
    /\ ("rows" \notin restored) => \A k \in Keys \ (drafts \cup {"kb_paused"}) :
         mem[k] = db[k] \/ NotShown(k)
    /\ ("kb" \notin restored /\ fails = 0) => kb = db["kb_paused"]

\* The gateway takes the switch over: when no switching and no reload is under way
\* it runs with the stored value, however many overlapped and whichever of the saves
\* failed. Excepted are a last reload that failed or could not read the switch, and
\* a reload that read before another one and stored after it, until the next reload
\* (settings.js:1217-1223, wr-proxy/features.go:33-43).
GatewayFollowsSwitch ==
  (\A c \in net : c.step.key # "proxy_enabled" /\ c.step.op # "reload") /\ ~unheard
    => gateway = db["proxy_enabled"]

\* settings.js:1071 "first save the configuration, then send the test mail": what
\* is stored when the test mail goes out are the values of the form.
TestMailUsesForm ==
  \A c \in net : c.step.op = "mail" => \A k \in CardKeys(Alert) : db[k] = c.step.value
=============================================================================
