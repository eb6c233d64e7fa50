---------------------------- MODULE ProviderPool ----------------------------
(***************************************************************************)
(* The pool of upstream providers the gateway schedules requests on: the   *)
(* list of Provider objects the router holds, the penalties requests put   *)
(* on them (authentication backoff, model cooldown), the health checker,   *)
(* and reloads that replace every object while requests and the checker    *)
(* still hold the old ones.  None of these takes a lock on an object.      *)
(*                                                                         *)
(* Time is abstracted: a backoff or a cooldown is in force until a step    *)
(* ends it.  One model is requested; routing preferences are left out.     *)
(***************************************************************************)
EXTENDS Integers, FiniteSets

CONSTANTS
  Providers,   \* rows of wr_providers
  Channels,    \* rows of wr_provider_channels, all of them enabled
  Parent,      \* Parent[c]: the provider that channel c belongs to
  Requests,    \* requests that can be in progress at once
  Reloaders,   \* /admin/reload calls that can be in progress at once
  Conditions,  \* upstream conditions, of those in Upstreams
  MaxShifts,   \* bound: changes of upstream conditions
  MaxEdits,    \* bound: edits of the admin
  MaxFails     \* bound: no failure count grows past this

\* "down" refuses connections, "slow" lets every call run into the time limit,
\* "sick" answers with a status like 500.
Upstreams == {"ok", "badkey", "exhausted", "down", "slow", "sick"}

ASSUME ProviderPoolAssumption ==
  /\ Providers \cap Channels = {}
  /\ Parent \in [Channels -> Providers]
  /\ Conditions \subseteq Upstreams
  /\ MaxShifts \in Nat /\ MaxEdits \in Nat /\ MaxFails \in Nat

Entries == Providers \cup Channels

\* A reload follows an edit, so there are at most MaxEdits of them.
Generations == 0..MaxEdits
Objects == Entries \X Generations

VARIABLES
  rows,     \* rows[p]: the row of p in wr_providers
  listed,   \* the IDs in router.providers
  gen,      \* the generation of the objects in that list
  pool,     \* pool[o]: the Provider object o
  req,      \* req[r]: where request r stands
  checker,  \* where the health checker stands
  reload,   \* reload[a]: where reload a stands
  calls,    \* reloads asked for and not started
  world,    \* world[e]: the condition of the upstream of e
  shifts,   \* how often a condition has changed
  edits     \* how many edits the admin made

\* History variables: nothing in the code depends on them.
VARIABLES
  refused,  \* refused[e]: how many requests the upstream of e refused
  banned,   \* banned[e]: such a refusal is on record everywhere
  lost,     \* no reload has read the rows since a notification was lost
  fresh,    \* the reloads that hold a reading with the last edit in it
  latest    \* what became of such readings: "none" was installed yet, one
            \* was "installed", one was and then "overtaken" by an older one

progress == <<lost, fresh, latest>>
history == <<refused, banned, progress>>
environment == <<world, shifts, edits, calls>>
vars == <<rows, listed, gen, pool, req, checker, reload, environment, history>>

Status == {"unchecked", "healthy", "auth_failed", "rate_limited", "timeout", "unhealthy",
           "dead", "disabled"}
Provider == [status : Status, fails : Nat, backoff : BOOLEAN, cooling : BOOLEAN]
Row == [enabled : BOOLEAN, status : Status]

Current(e) == <<e, gen>>
Enabled(rw) == {p \in Providers : rw[p].enabled}

\* IsAvailable, for an enabled provider with a priority and the model.
Available(o) ==
  /\ pool[o].status \notin {"dead", "disabled"}
  /\ ~(pool[o].status = "auth_failed" /\ pool[o].backoff)
  /\ ~pool[o].cooling

\* What a health check says of an upstream in condition w.
Verdict(w) ==
  CASE w = "ok" -> "healthy"
    [] w = "badkey" -> "auth_failed"
    [] w = "exhausted" -> "rate_limited"
    [] w = "slow" -> "timeout"
    [] w = "sick" -> "unhealthy"
    [] w = "down" -> "dead"

Put(o, field, value) == pool' = [pool EXCEPT ![o] = [@ EXCEPT ![field] = value]]

-----------------------------------------------------------------------------
(***************************************************************************)
(* Start: LoadProviders, then LoadChannels replaces a provider that has    *)
(* channels by them.  When the rows cannot be read the list stays empty.   *)
(***************************************************************************)

NoRequest == [phase |-> "idle", obj |-> <<>>, seen |-> 0]
NoCheck == [phase |-> "idle", todo |-> {}, obj |-> <<>>, verdict |-> "unchecked"]
NoReload == [phase |-> "idle", rows |-> <<>>]

Expanded(ids) ==
  {p \in ids : \A c \in Channels : Parent[c] # p} \cup {c \in Channels : Parent[c] \in ids}

NewObject(status) == [status |-> status, fails |-> 0, backoff |-> FALSE, cooling |-> FALSE]

Init ==
  /\ rows \in [Providers -> [enabled : {TRUE}, status : {"unchecked", "auth_failed"}]
                              \cup [enabled : {FALSE}, status : {"disabled"}]]
  /\ listed \in {Expanded(Enabled(rows)), {}}
  /\ gen = 0
  /\ pool = [o \in Objects |->
               NewObject(IF o[1] \in Providers THEN rows[o[1]].status ELSE "unchecked")]
  /\ req = [r \in Requests |-> NoRequest]
  /\ checker = NoCheck
  /\ reload = [a \in Reloaders |-> NoReload]
  /\ world \in [Entries -> Conditions]
  /\ calls = 0 /\ shifts = 0 /\ edits = 0
  /\ refused = [e \in Entries |-> 0]
  /\ banned = [e \in Entries |-> FALSE]
  /\ lost = FALSE /\ fresh = {} /\ latest = "none"

-----------------------------------------------------------------------------
(***************************************************************************)
(* Requests: selection and the penalties of handleProxy                    *)
(***************************************************************************)

Select(r, e) ==
  /\ req[r].phase = "idle"
  /\ e \in listed /\ Available(Current(e))
  /\ req' = [req EXCEPT ![r] = [phase |-> "sent", obj |-> Current(e), seen |-> 0]]
  /\ UNCHANGED <<rows, listed, gen, pool, checker, reload, environment, history>>

\* The upstream answers well, or fails in a way that puts no penalty on it.
AnswerPlain(r) ==
  /\ req[r].phase = "sent"
  /\ world[req[r].obj[1]] \in {"ok", "down", "slow", "sick"}
  /\ req' = [req EXCEPT ![r] = NoRequest]
  /\ UNCHANGED <<rows, listed, gen, pool, checker, reload, environment, history>>

\* Quota used up, or a long rate limit: SetModelCooldown.
AnswerExhausted(r) ==
  /\ req[r].phase = "sent"
  /\ world[req[r].obj[1]] = "exhausted"
  /\ Put(req[r].obj, "cooling", TRUE)
  /\ req' = [req EXCEPT ![r] = NoRequest]
  /\ UNCHANGED <<rows, listed, gen, checker, reload, environment, history>>

\* 401: SetAuthFailBackoff loads AuthFailCount, stores it incremented, then
\* stores AuthFailUntil; the handler stores Status and updates the row.
AnswerRefused(r) ==
  /\ req[r].phase = "sent"
  /\ LET o == req[r].obj IN
     /\ world[o[1]] = "badkey"
     /\ refused[o[1]] < MaxFails
     /\ req' = [req EXCEPT ![r] = [@ EXCEPT !.phase = "counting", !.seen = pool[o].fails]]
     /\ refused' = [refused EXCEPT ![o[1]] = @ + 1]
  /\ UNCHANGED <<rows, listed, gen, pool, checker, reload, environment, banned, progress>>

CountFailure(r) ==
  /\ req[r].phase = "counting"
  /\ Put(req[r].obj, "fails", req[r].seen + 1)
  /\ req' = [req EXCEPT ![r].phase = "raising"]
  /\ UNCHANGED <<rows, listed, gen, checker, reload, environment, history>>

RaiseBackoff(r) ==
  /\ req[r].phase = "raising"
  /\ Put(req[r].obj, "backoff", TRUE)
  /\ req' = [req EXCEPT ![r].phase = "marking"]
  /\ UNCHANGED <<rows, listed, gen, checker, reload, environment, history>>

\* A handler that counts the failure a second time.
MarkRefusedCounts(r) ==
  /\ req[r].phase = "marking"
  /\ pool' = [pool EXCEPT ![req[r].obj] = [@ EXCEPT !.status = "auth_failed", !.fails = @ + 1]]
  /\ req' = [req EXCEPT ![r].phase = "reporting"]
  /\ UNCHANGED <<rows, listed, gen, checker, reload, environment, history>>

MarkRefused(r) ==
  /\ req[r].phase = "marking"
  /\ Put(req[r].obj, "status", "auth_failed")
  /\ req' = [req EXCEPT ![r].phase = "reporting"]
  /\ UNCHANGED <<rows, listed, gen, checker, reload, environment, history>>

\* UpdateProviderStatus matches no row for the encoded ID of a channel, and
\* only logs it when the statement fails.
SetRowStatus(e, s) ==
  \/ rows' = [p \in Providers |-> IF p = e THEN [rows[p] EXCEPT !.status = s] ELSE rows[p]]
  \/ rows' = rows

\* The refusal is on record everywhere when the object is the listed one,
\* still says so, and no reload and no check is at work with older knowledge.
OnRecord(o) ==
  /\ o[1] \in listed \cap Providers /\ o = Current(o[1])
  /\ pool[o].status = "auth_failed" /\ pool[o].backoff
  /\ \A a \in Reloaders : reload[a].phase # "read"
  /\ checker.phase # "found"

ReportRefused(r) ==
  /\ req[r].phase = "reporting"
  /\ LET o == req[r].obj IN
     /\ SetRowStatus(o[1], "auth_failed")
     /\ banned' = [banned EXCEPT ![o[1]] =
                     @ \/ (OnRecord(o) /\ rows'[o[1]].status = "auth_failed")]
  /\ req' = [req EXCEPT ![r] = NoRequest]
  /\ UNCHANGED <<listed, gen, pool, checker, reload, environment, refused, progress>>

\* Time passes.  What an object that is no longer listed says of its backoff
\* and cooldown is never read again.
BackoffEnds(e) ==
  /\ e \in listed /\ pool[Current(e)].backoff
  /\ Put(Current(e), "backoff", FALSE)
  /\ banned' = [banned EXCEPT ![e] = FALSE]
  /\ UNCHANGED <<rows, listed, gen, req, checker, reload, environment, refused, progress>>

CoolingEnds(e) ==
  /\ e \in listed /\ pool[Current(e)].cooling
  /\ Put(Current(e), "cooling", FALSE)
  /\ UNCHANGED <<rows, listed, gen, req, checker, reload, environment, history>>

-----------------------------------------------------------------------------
(***************************************************************************)
(* HealthChecker.checkAll                                                  *)
(***************************************************************************)

CheckStart ==
  /\ checker.phase = "idle" /\ listed # {}
  /\ checker' = [NoCheck EXCEPT !.phase = "walking", !.todo = {Current(e) : e \in listed}]
  /\ UNCHANGED <<rows, listed, gen, pool, req, reload, environment, history>>

Probe(o) ==
  /\ checker.phase = "walking" /\ o \in checker.todo
  /\ checker' = [phase |-> "found", todo |-> checker.todo \ {o}, obj |-> o,
                 verdict |-> Verdict(world[o[1]])]
  /\ UNCHANGED <<rows, listed, gen, pool, req, reload, environment, history>>

CheckReport ==
  /\ checker.phase = "found"
  /\ SetRowStatus(checker.obj[1], checker.verdict)
  /\ checker' = [checker EXCEPT !.phase = "reported"]
  /\ banned' = [banned EXCEPT ![checker.obj[1]] = FALSE]
  /\ UNCHANGED <<listed, gen, pool, req, reload, environment, refused, progress>>

NextEntry ==
  IF checker.todo = {} THEN NoCheck
  ELSE [NoCheck EXCEPT !.phase = "walking", !.todo = checker.todo]

\* A checker that updates the row and not the object.
CheckMarkForgets ==
  /\ checker.phase = "reported"
  /\ checker' = NextEntry
  /\ UNCHANGED <<rows, listed, gen, pool, req, reload, environment, history>>

CheckMark ==
  /\ checker.phase = "reported"
  /\ Put(checker.obj, "status", checker.verdict)
  /\ checker' = IF checker.verdict = "healthy" /\ pool[checker.obj].fails > 0
                   THEN [checker EXCEPT !.phase = "clearing"]
                   ELSE NextEntry
  /\ banned' = [banned EXCEPT ![checker.obj[1]] = FALSE]
  /\ UNCHANGED <<rows, listed, gen, req, reload, environment, refused, progress>>

\* ClearAuthFail.
CheckClear ==
  /\ checker.phase = "clearing"
  /\ pool' = [pool EXCEPT ![checker.obj] = [@ EXCEPT !.fails = 0, !.backoff = FALSE]]
  /\ checker' = NextEntry
  /\ banned' = [banned EXCEPT ![checker.obj[1]] = FALSE]
  /\ UNCHANGED <<rows, listed, gen, req, reload, environment, refused, progress>>

CheckStep ==
  \/ CheckStart
  \/ \E o \in checker.todo : Probe(o)
  \/ CheckReport
  \/ CheckMark
  \/ CheckClear

-----------------------------------------------------------------------------
(***************************************************************************)
(* Admin backend: a committed edit of a row, then a POST /admin/reload     *)
(* whose failure is ignored.  Deleting a row is, to the pool, disabling it.*)
(***************************************************************************)

Notify ==
  \/ calls' = calls + 1 /\ lost' = lost
  \/ calls' = calls /\ lost' = TRUE

Edit(p, row) ==
  /\ edits < MaxEdits
  /\ edits' = edits + 1
  /\ rows' = [rows EXCEPT ![p] = row]
  /\ Notify
  /\ fresh' = {} /\ latest' = "none"
  /\ UNCHANGED <<listed, gen, pool, req, checker, reload, world, shifts, refused>>

Disable(p) ==
  /\ Edit(p, [enabled |-> FALSE, status |-> "disabled"])
  /\ banned' = [banned EXCEPT ![p] = FALSE]

\* The status stays "disabled".
Enable(p) ==
  /\ Edit(p, [rows[p] EXCEPT !.enabled = TRUE])
  /\ banned' = [banned EXCEPT ![p] = FALSE]

ChangeKey(p) ==
  /\ Edit(p, [rows[p] EXCEPT !.status = IF @ \in {"auth_failed", "dead"} THEN "unchecked" ELSE @])
  /\ banned' = [banned EXCEPT ![p] = FALSE]

\* A write that leaves the pool's part of the rows as it is (the name of a
\* provider, a channel, an alias), after which a reload is asked for as well.
EditOther(p) ==
  /\ Edit(p, rows[p])
  /\ UNCHANGED banned

\* handleClearCooldown.
ClearCooldown(e) ==
  /\ e \in listed /\ pool[Current(e)].cooling
  /\ Put(Current(e), "cooling", FALSE)
  /\ UNCHANGED <<rows, listed, gen, req, checker, reload, environment, history>>

AdminStep ==
  \/ \E p \in Providers : Disable(p) \/ Enable(p) \/ ChangeKey(p) \/ EditOther(p)
  \/ \E e \in Entries : ClearCooldown(e)

-----------------------------------------------------------------------------
(***************************************************************************)
(* handleReload: LoadProviders reads the rows, RefreshProviders installs   *)
(* fresh objects for them.  LoadChannels is not called, and nothing keeps  *)
(* two reloads apart.                                                      *)
(***************************************************************************)

\* A reload that is carried out again and again.
LoadRowsRetried(a) ==
  /\ reload[a].phase = "idle" /\ calls > 0
  /\ reload' = [reload EXCEPT ![a] = [phase |-> "read", rows |-> rows]]
  /\ fresh' = fresh \cup {a} /\ lost' = FALSE
  /\ UNCHANGED <<rows, listed, gen, pool, req, checker, environment, refused, banned, latest>>

LoadRows(a) ==
  /\ reload[a].phase = "idle" /\ calls > 0
  /\ calls' = calls - 1
  /\ reload' = [reload EXCEPT ![a] = [phase |-> "read", rows |-> rows]]
  /\ fresh' = fresh \cup {a} /\ lost' = FALSE
  /\ UNCHANGED <<rows, listed, gen, pool, req, checker, world, shifts, edits, refused, banned,
                 latest>>

LoadFails(a) ==
  /\ reload[a].phase = "idle" /\ calls > 0
  /\ calls' = calls - 1
  /\ lost' = TRUE
  /\ UNCHANGED <<rows, listed, gen, pool, req, checker, reload, world, shifts, edits, refused,
                 banned, fresh, latest>>

\* A reload that forgets the backoff.
RebornFresh(e, status) == NewObject(status)

\* The failure count and the backoff of an entry that was listed live on.
Reborn(e, status) ==
  IF e \in listed
    THEN [NewObject(status) EXCEPT !.fails = pool[Current(e)].fails,
                                   !.backoff = pool[Current(e)].backoff]
    ELSE NewObject(status)

\* What installing the reading of a makes of the history.
Installed(a) ==
  /\ latest' = IF a \in fresh THEN "installed"
               ELSE IF latest = "none" THEN "none" ELSE "overtaken"
  /\ fresh' = fresh \ {a}
  /\ UNCHANGED <<refused, banned, lost>>

\* A reload that adds the rows it read to the list it finds.
RefreshMerges(a) ==
  /\ reload[a].phase = "read"
  /\ LET ids == Enabled(reload[a].rows) \cup listed IN
     /\ listed' = ids
     /\ gen' = gen + 1
     /\ pool' = [o \in Objects |->
                   IF o[1] \in ids /\ o[2] = gen + 1
                     THEN Reborn(o[1], reload[a].rows[o[1]].status)
                     ELSE pool[o]]
  /\ reload' = [reload EXCEPT ![a] = NoReload]
  /\ Installed(a)
  /\ UNCHANGED <<rows, req, checker, environment>>

Refresh(a) ==
  /\ reload[a].phase = "read"
  /\ LET ids == Enabled(reload[a].rows) IN
     /\ listed' = ids
     /\ gen' = gen + 1
     /\ pool' = [o \in Objects |->
                   IF o[1] \in ids /\ o[2] = gen + 1
                     THEN Reborn(o[1], reload[a].rows[o[1]].status)
                     ELSE pool[o]]
  /\ reload' = [reload EXCEPT ![a] = NoReload]
  /\ Installed(a)
  /\ UNCHANGED <<rows, req, checker, environment>>

ReloadStep(a) == LoadRows(a) \/ LoadFails(a) \/ Refresh(a)

-----------------------------------------------------------------------------
\* The upstream of e changes its condition.
Shift(e, w) ==
  /\ shifts < MaxShifts /\ w # world[e]
  /\ shifts' = shifts + 1
  /\ world' = [world EXCEPT ![e] = w]
  /\ UNCHANGED <<rows, listed, gen, pool, req, checker, reload, edits, calls, history>>

Answer(r) ==
  \/ AnswerPlain(r) \/ AnswerExhausted(r) \/ AnswerRefused(r)
  \/ CountFailure(r) \/ RaiseBackoff(r) \/ MarkRefused(r) \/ ReportRefused(r)

Next ==
  \/ \E r \in Requests : Answer(r) \/ \E e \in Entries : Select(r, e)
  \/ \E e \in Entries : BackoffEnds(e) \/ CoolingEnds(e)
  \/ CheckStep
  \/ AdminStep
  \/ \E a \in Reloaders : ReloadStep(a)
  \/ \E e \in Entries, w \in Conditions : Shift(e, w)

Spec == Init /\ [][Next]_vars

\* Handlers run to their end, the checker's ticker keeps firing, time passes.
\* Nothing makes a client send requests, an admin edit or an upstream change.
Fairness ==
  /\ \A r \in Requests : WF_vars(Answer(r))
  /\ \A e \in Entries : WF_vars(BackoffEnds(e)) /\ WF_vars(CoolingEnds(e))
  /\ \A a \in Reloaders : WF_vars(ReloadStep(a))
  /\ WF_vars(CheckStep)

FairSpec == Spec /\ Fairness

-----------------------------------------------------------------------------
(***************************************************************************)
(* Properties                                                              *)
(***************************************************************************)

NoObject == {<<>>}

\* Types of the state (Router, Provider, HealthChecker and their callers).
TypeOK ==
  /\ rows \in [Providers -> Row]
  /\ listed \subseteq Entries
  /\ gen \in Generations
  /\ pool \in [Objects -> Provider]
  /\ req \in [Requests -> [phase : {"idle", "sent", "counting", "raising", "marking", "reporting"},
                           obj : Objects \cup NoObject, seen : Nat]]
  /\ checker \in [phase : {"idle", "walking", "found", "reported", "clearing"},
                  todo : SUBSET Objects, obj : Objects \cup NoObject, verdict : Status]
  /\ reload \in [Reloaders -> [phase : {"idle", "read"}, rows : [Providers -> Row] \cup NoObject]]
  /\ calls \in 0..MaxEdits /\ edits \in 0..MaxEdits /\ shifts \in 0..MaxShifts
  /\ world \in [Entries -> Upstreams]
  /\ refused \in [Entries -> 0..MaxFails]
  /\ banned \in [Entries -> BOOLEAN]
  /\ lost \in BOOLEAN /\ fresh \subseteq Reloaders
  /\ latest \in {"none", "installed", "overtaken"}

\* The backoff of SetAuthFailBackoff is never longer than the refusals the
\* upstream really gave can explain: unsynchronised increments, clears and the
\* copies RefreshProviders makes may lose a failure, and never invent one.
EscalationIsEarned ==
  \A o \in Objects : pool[o].fails <= refused[o[1]]

\* Once a refused key is on record, in the listed object and in the row, with
\* no older reading of either in some reload's or the checker's hands, the
\* provider gets no request until its backoff ends, a check says otherwise or
\* an edit concerns it: reloads for any other reason do not let it back in
\* (models.go: "reload 时保留").
BannedStaysOut ==
  \A e \in listed : banned[e] => ~Available(Current(e))

\* Hot plugging: when every reload asked for has arrived and ended, and the
\* first one has replaced the list of the start, the router schedules exactly
\* the enabled rows (providers.py commits, then calls /admin/reload), with two
\* exceptions that last until the next reload: a notification that was lost,
\* and a reading older than one installed before it (no lock joins the two
\* halves of reloadProviders).
Quiet == calls = 0 /\ \A a \in Reloaders : reload[a].phase = "idle"
ReloadTakesEffect ==
  gen > 0 /\ Quiet /\ ~lost /\ latest # "overtaken" => listed = Enabled(rows)

\* The same without the second exception, as the comment of _notify_proxy_reload
\* has it: "通知 wr-proxy 重新加载 Provider 列表".
NewestReadingStays ==
  gen > 0 /\ Quiet /\ ~lost => listed = Enabled(rows)

\* An upstream that stays well is back in the schedule for good, one that
\* refuses connections leaves it for good, whatever stale verdicts, reloads,
\* failed updates and penalties were under way.  One that times out or answers
\* with errors stays schedulable for good: IsAvailable leaves out "dead" only.
PoolFollowsUpstream ==
  \A e \in Entries :
    /\ <>[](world[e] \in {"ok", "slow", "sick"}) => <>[](e \in listed => Available(Current(e)))
    /\ <>[](world[e] = "down") => <>[](e \in listed => ~Available(Current(e)))

\* wr-proxy/docs/11-health.md: "其他 → \"dead\"" (any other answer makes it dead):
\* an upstream that answers with errors for good leaves the schedule.
SickLeavesSchedule ==
  \A e \in Entries :
    <>[](world[e] = "sick") => <>[](e \in listed => ~Available(Current(e)))

\* db.go: "有 Channel 的 Provider 只保留 Channel 展开项" (a provider that has
\* channels is scheduled as its channels only).
ChannelsReplaceProvider ==
  \A c \in Channels : Parent[c] \notin listed

\* models.go: the authentication backoff is "reload 时保留" (kept on reload): a
\* provider that is kept out by it, and whose row says so, stays out when the
\* list is replaced.
BackoffSurvivesReload ==
  [][\A p \in Providers :
       /\ gen' # gen /\ p \in listed \cap listed'
       /\ rows[p].status = "auth_failed"
       /\ pool[Current(p)].status = "auth_failed" /\ pool[Current(p)].backoff
       => ~Available(Current(p))']_vars

=============================================================================
