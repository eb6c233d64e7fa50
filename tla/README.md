# WebRouter: a TLA+ verification project

WebRouter is a gateway between AI clients and many upstream model providers. A Go process,
`src/wr-proxy` (port 5051), authenticates requests, chooses a provider, forwards, retries and fails
over, and meters what was used. A Flask process, `src/backend` (port 5050), edits the same SQLite
database and tells the gateway to reload; its admin console is a single page of JavaScript
(`src/backend/static/js`) without a framework, whose pages call the backend's routes. This project
models the concurrent core of the gateway and the admin console with the routes it calls, checks
them with TLC and proves the main safety results with TLAPS.

## 1. Inventory

| Part | State | Operations | Talks to |
|---|---|---|---|
| Token quota (`db.go` 814-957, `auth.go`, `tokens.py`) | `tokenQuotaCache`, `tokenQuotaChan`, rows of `wr_tokens` | admit, deduct (load, compare-and-swap, notify), sync one charge, flush all accounts; admin create, update, reset, delete | admission reads the row, metering calls the deduction, the backend edits the row |
| Provider pool (`router.go`, `models.go`, `db.go` 435-733, `providers.py`) | the list of `Provider` objects, their status, backoff and cooldown, rows of `wr_providers` | select, penalise, reload, expand channels, clear a cooldown; admin edits | handlers hold pointers to objects that reloads replace |
| Health checker (`health.go`) | its walk over a snapshot of the list | probe, store the verdict in the row, then in the object | the pool, the rows |
| Scheduling loop (`handlers.go` 102-494, `retry.go`, `proxy.go`) | locals of the handler | select, forward, retry the same provider, fail over, answer | pool, settings, metering |
| Settings (`proxy_settings.go`) | four global settings | replaced at reload | read at every turn of the loop |
| Metering (`meter.go`, `db.go` 960-1240) | minute buckets, `logChan`, `providerQuotaChan`, two batches, two tables | record, gather, flush | the loop calls it, up to twice for a stream |
| Rate limiter (`auth.go`) | a window per token | check | admission |
| Sticky sessions (`router.go` 43-108) | map from session to provider | get, set, expire | selection |
| Request cache (`retry.go` 255-400) | last success or failure per token and model | record, ask | the loop |
| Binary proxy (`handlers.go` 900-1110) | locals of its handler | a loop of its own | pool, metering |
| Session memory (`session_memory.go`) | queue, tables of sessions and messages | deliver, store, recall | the handler |
| Knowledge pipeline (`knowledge_*.go`) | queue, status of captured rows, pause | capture, extract, analyse | the handler, an upstream model |
| Retrieval, MCP, desensitisation, smart model choice, alerts | tables and rules | scoring, rewriting, dispatch | the handler |
| Console: shell (`app.js`, `router.js`, `login.js`, `api.js`, `i18n`, `auth.py`) | the hash, a flag "logged in", the page shown; the session | start, resolve a hash, log in and out, redirect on 401 | every page |
| Console: token page (`tokens.js`, `tokens.py`) | the list, one form with pickers, three dialogs | load, create, edit, delete, show a key, reset a quota | `wr_tokens` |
| Console: team page (`team.js`, `team.py`) | tree, flat list, members of one organisation, three dialogs; inputs whose ids the token page uses too | edit organisations and members, move, import | `wr_orgs`, `wr_tokens` |
| Console: settings page (`settings.js`, `settings.py`) | a copy of all settings, drafts in that copy | save one or a card, reload the gateway, pause the knowledge base, backup, restore | `wr_system_settings`, `/admin/reload` |
| Console: knowledge page (`knowledge.js`, `knowledge_routes.py`) | thirteen tabs in one element, a panel in it | load, review, confirm and merge domains, memories | knowledge tables |
| Console: reports, provider and channel forms; other backend routes, site, deployment | tables | forms and reports | the database, `/admin/reload` |

What is hard here: objects are shared between goroutines with no lock on them (`Provider`,
`RequestLog`); every channel drops when it is full; two writers change the same column, one by
addition and one absolutely; two processes edit the same rows; a process that stops loses what it
holds in memory; settings change in the middle of a loop; handlers have many exits. In the console
no call is ever cancelled and no button is locked while one is under way: the user goes on, answers
arrive in any order, and what an answer does depends on what the page has become by then. A route of
the backend checks rows in one statement and commits in another.

What makes each part correct:

* quota: an account is an atomic limited counter; a row follows it and settles on it; a restart
  loses little and invents nothing; an admin's reset holds; what is served is metered;
* pool: backoffs are earned and hold, the list follows the rows, availability follows the upstream;
* loop: bounded work, no provider bothered again, one record, the answer an upstream gave, an end;
* metering: no row or charge applied twice, a row that is final, batches that drain, costs for usage;
* shell: no page before the server has confirmed a session, the page is the one of the address bar,
  redirects come to rest;
* pages: what a form writes goes to the row it shows; at rest a list shows the rows as they are; a
  thing that says "loading" will be filled; what a reviewer decides takes effect;
* settings: what is stored is valid, and the gateway runs with what is stored;
* organisations: nobody points at an organisation that is gone;
* rate limiter: at most 2*rpm calls in any minute; sticky sessions: a fresh binding is not lost;
  request cache: a request that keeps failing is told from one that succeeded; knowledge pipeline: a
  captured row is eventually done or skipped and never lost between two states.

`PROJECT.json` lists every component with its status, and every hazard at its line.

## 2. Modules

| Module | Models |
|---|---|
| `QuotaAccount` | what an account promises: a charge is one step, adds exactly its cost, and respects the limit |
| `TokenQuota` | the account, its writers, the admin and restarts; implements `QuotaAccount` |
| `TokenQuotaProofs` | theorems about `TokenQuota` |
| `ProviderPool` | rows, listed objects, requests that penalise, health checker, admin, reloads |
| `ProviderPoolProofs` | theorems about `ProviderPool` |
| `Failover` | the scheduling loop of `handleProxy` under changing settings and offers |
| `FailoverProofs` | theorems about `Failover` |
| `Metering` | `BuildRequestLog`, `RecordRequest`, the end of a stream, both batch writers, restarts |
| `MeteringProofs` | theorems about `Metering` |
| `AdminShell` | start, hash, guard, login, logout and session of one tab |
| `TokensPage` | the token page over the rows of `wr_tokens` |
| `ConsoleProofs` | theorems about `AdminShell` and about `TokensPage`, which share no name (hence `ShellInit`, `ShellSpec`, ...) |
| `TeamPage` | the team page over organisations and members, with check and commit of the routes apart |
| `TeamPageProofs` | theorems about `TeamPage` |
| `SettingsPage` | the settings page over the settings, and the gateway's copy of one of them |
| `SettingsPageProofs` | theorems about `SettingsPage` |
| `KnowledgePage` | the knowledge page over items, domains and memories |
| `KnowledgePageProofs` | theorems about `KnowledgePage` |
| `MC...` | constants for TLC; they EXTEND the module and change no definition |

**TokenQuota.** `used` and `limit` are the `TokenQuotaState` behind each key of `tokenQuotaCache`;
`call[r]` is where a request stands inside `DeductTokenQuotaAsync`, with the value it loaded
(`seen`). `DeductLoad`, `DeductCas`, `DeductRetry`, `DeductRefuse` and `Notify` are the steps of that
loop. `Take`, `SyncToDB` and `SyncFails` are the goroutine over the channel; `FlushRead` is one step
of the `Range` in `flushTokenQuotas` and `FlushWrite` its transaction, of which any part can fail.
`LoadTokenQuotaCache` can fail at start (it is only logged); the constant `LoadMayFail` lets a run
leave that out. `opening`, `base`, `counted` and `fresh` are history. The cache is keyed by pointers
and the swap compares pointers; every swap stores a larger value, so equal values are one pointer.

**ProviderPool.** An object is an entry and the generation of the list it belongs to: a reload makes a
new generation while requests, the checker and other reloads keep the old one. The three stores of
a refusal (count, backoff, status) and the row update are separate steps, and so are the two of the
checker. `AuthFailCount++` is a load and a store. `RefreshProviders` copies the count and the backoff
under the router's lock as one step, although a request can store one of them between the two copies.
`LoadRows` and `Refresh` are the two halves of `reloadProviders`, which no lock joins: reloads overlap.
`UpdateProviderStatus` may fail, which is only logged. `Verdict` keeps apart what `IsAvailable` keeps
apart: a probe that times out or is answered with an error leaves a provider schedulable, one that is
refused a connection does not. Time is abstract: a backoff or a cooldown of a listed object ends at
some step. Deleting a provider is disabling it; the status "unknown" and the provider's critical-quota
test and priorities are left out. `refused`, `banned`, `lost`, `fresh` and `latest` are history.

**Failover.** A request is the record of the handler's variables plus counters of what it did. A
result is abstracted to what `ShouldFailover`, `ShouldRetrySameProvider` and the branches of the
loop tell apart, with the status code it has; an upstream can report an error in the body of a 200.
`GetMaxFailover()` and `GetMaxRetryCount()` are read at every turn from `setting`, which `Change`
replaces at any moment, and so are the providers the router would offer. The branch for truncated
answers cannot be reached (finding `CutAnswer`) and has no action.

**Metering.** A record is a request and the number of the call of `RecordRequest`; the channel and the
batch hold records, not copies, and the transaction reads the entry when it inserts it, so that the
handler's later writes are seen or not. The row keeps what was read. Reading a Go string while it is
being stored is undefined; what the build can produce from it is a wrong text or a crash, and
`Restart` at any moment stands for the crash.

**The console.** Each page module has the same shape. A handler is cut at its awaits: what it does before
one is an action of the user, which puts a call into `net`; the server serves the call in a step (or,
where a route checks and commits, in two); `Fail` is a call that never arrived or whose answer was
lost; and the rest of the handler is an action on the answer. Nothing orders the answers. Rows are
abstracted to what the properties tell apart: a field says which row it was read from, or that the
user typed it.

**AdminShell.** Calls live in `Slots`, one of five kinds. Writing `location.hash` queues a `hashchange`
event only if it changes the hash; the event is handled later with the hash of that moment. `RouteOf`
is the alias of `_doResolve`: the channels of one provider are shown by the page of all channels.
`authed` is the router's flag, `session` what the server thinks. A guard captures its path when it asks.

**TokensPage.** `render` rebuilds the container with its modals, so each render closes them; the model has
`Render` as what list answers do. The options of the pickers are those of the catalogue when the form
was opened; `SelectedModels` and `WithModels` are the two directions of the picker. When
`GET /team/orgs` fails, the organisation select keeps the options and the choice it had (`FilledIn`):
those of the form opened before. After a creation the dialog with the key is never shown, although
tokens.js:457 announces it: the page looks for a key beside the token, the route puts it inside
(tokens.py:92-95); the key is shown on request only.

**TeamPage.** `inputs` are the inputs of the team form and those of the token page's form that have the
same ids; `Found` says which of them `getElementById` returns, the token page's once that page was
drawn (`TokenPageDrawn`); that page's form writes them too (`TokenFormFilled`). The three loads of
`load` are one call, whose answers no property tells apart. `Below` is the least fixed point that the recursion of
`_get_child_org_ids` computes when it ends, and `Endless` says when it does not.

**SettingsPage.** A call carries the rest of its chain (`todo`), as most buttons await several calls in
turn. A draft that is saved is the object in memory, not a copy: later edits change what comes back
(`held`), not what was sent. The settings are one of each kind: plain ones, those of two cards, the
switch of the gateway, the thresholds of the complexity configuration and the pause of the knowledge
base. The configuration may be found as it was stored before its two highest tiers existed (`Former`);
the seed route migrates such a row (`Migrated`, `Lifted`). Of the editor's validation the thresholds
and their range are modelled; the order of the levels and the score ranges are not.

A reload of the gateway is what `handleReload` makes of it, which nothing serialises: `ReadSwitch` reads
the switch, `InstallSwitch` stores what was read, and between them another reload may do both. When
`LoadSetting` fails the switch is taken to be on and the answer is still 200 (`ReadSwitchInVain`). The two
goroutines store to a plain Go variable, a race; a bool is stored whole by the builds there are, so that
one of the two values is the outcome. `newest` and `unheard` are history.

**KnowledgePage.** A call remembers how its answer finds the screen (`at`): in an element looked up
before the call, which may be gone since, or in whatever is there later. No decision of a reviewer ever
succeeds, and neither do the routes of one domain, so that their success has no action: `approve_item`
answers 415 to a request without JSON, `reject_item` and `batch_approve` name `datetime`, which
knowledge_routes.py does not import (500 before the commit), and the others look a code up as the
integer key of the table (404). While the base is paused, all routes of the blueprint but the status
and the enabling answer 423 (`Gated`, `Locked`); the quality report is of another blueprint and goes
through. What the page makes of a refusal differs by function: an item that was refused is drawn with
empty fields (`Drawable`), and a refused list of memories looks empty.

## 3. Runs

| Run | Shows | Bounds |
|---|---|---|
| `TokenQuota` | `TypeOK`, `NoOverdraft`, `CountedAtMostTwice`, `FlushedIsDurable`, `AccountSpec`, `RowsSettle` | one token of quota 2, two requests at once of cost 1 or 2, channel of one, one restart, one edit |
| `ProviderPool` | `TypeOK`, `EscalationIsEarned`, `BannedStaysOut`, `ReloadTakesEffect` | one provider, two requests, two reloads at once, the checker, an upstream that is well, refuses the key or is down and changes once; two refusals, two edits |
| `PoolRecovers` | `PoolFollowsUpstream` | one provider, two requests, one reload at a time, an upstream in six conditions that changes once, one edit, one refusal |
| `Failover` | `TypeOK`, `CallsBounded`, `ProviderSpared`, `SuccessIsDelivered`, `RecordedOnce`, `EveryRequestAnswered` | three providers, two of which may be retried more often than the setting allows and one never; settings up to 2 and 1 |
| `Metering` | `TypeOK`, `OneRowPerRecord`, `LastRowIsFinal`, `QuotaNeverInvented`, `MemoryDrains` | two requests (up to four records), batch of two, channels of one, one restart |
| `AdminShell` | `ShellTypeOK`, `NoPageBeforeLogin`, `PageFollowsHash`, `ShellSettles` | two pages, one hash that is an alias of a page, one without a route, two calls at once, three moves, one fault |
| `TokensPage` | `TypeOK`, `FormWritesItsToken`, `ListCatchesUp` | two tokens and one to create, two models, three acts, one failed call |
| `TeamPage` | `TypeOK`, `NoOrphans`, `NoNameTakenOver`, `MembersOfSelected` | two organisations, one below the other, one to create; one member and one to create; two acts, one failed call |
| `SettingsPage` | `TypeOK`, `StoredConfigValid`, `PageFollowsRows`, `GatewayFollowsSwitch` | three thresholds from 0 to 4, of which 3 is the highest valid one; every former row; cards of two settings, two chains or edits, two failed calls |
| `KnowledgePage` | `TypeOK`, `LoadingEnds` | two items, a domain and one to create, a memory, three acts, pauses among them, one failed call |
| `QuotaReset` | violated: `ResetSticks` | as `TokenQuota`, two edits |
| `Approval` | violated: `ApprovalTakesEffect` | as `KnowledgePage`, no failure at all |

Why the bounds are enough. Two requests are what a race on one account, one provider or one channel
needs; a channel of capacity one is full and empty within two messages; a batch of two is flushed
partly filled, full, and with one entry failing; a second restart or edit meets the same states as
the first. In the console a wrong order takes two chains of calls, and a third act to look at the
outcome or to disturb it; each page's calls number up to four for every act. Two organisations make
a cycle, three thresholds are one that was always there and two that a migration adds, and two pages
are what a redirect and a hash need. The run `ProviderPool` explores two requests with their refusals and
one edit, or one request with one refusal and two edits (`RefusalsOrEdits`), not all of them at once:
two refusals are what the failure count needs, two edits what two reloads need to overtake each other.
The run `TeamPage` lets the token page fill inputs or organisations be written, not both (`OrgsOrTokens`):
the inputs the two pages share are those of the member form.
`MaxUsed`, `MaxFails`, `MaxShifts`, `MaxEdits` and `MaxRestarts` cap counters that code and
environment leave open: past them, costs, refusals, changes or restarts just stop. The theorems of
section 5 hold with every value of these bounds.

The runs set `CHECK_DEADLOCK FALSE`: requests are finite, edits and restarts are bounded, and when
they are used up the system may stop; a user may stop as well.

Some properties have an exception, kept in a history variable, for what the code does not rule out: a
list that was overtaken by a newer one (`stale`, `late`), a form touched while it was opening
(`crossed`), a form opened without the list of organisations (`unlisted`), a member form under which the
token page filled its own (`borrowed`), a deletion that overlapped another call (`raced`), overlapping
chains (`mixed`), a guard overtaken by the user (`overtaken`), a reload that was lost or failed (`lost`,
`unheard`), or that installed an older reading over a newer one (`latest`, `unheard`). They hold of
every other behaviour. Each exception is itself a hazard of the code, which the property with the
exception does not cover: without it TLC refutes the property, and `PROJECT.json` says so at the hazard.

### What the violated runs show

* `QuotaReset`: the flush writes the absolute value of the cache over the row an admin has reset.
* `Approval`: the page posts an approval without a body, and the route insists on JSON. With a body the
  item would stay pending all the same: line 784 names `datetime`, which the module does not import.

### Statements refuted beside them

These configurations are not among the project's runs, which have room for the two above; each gives
a trace for a sentence of the repository that the code does not keep.

| Configuration | Module | Refutes | The code |
|---|---|---|---|
| `QuotaUnmetered` | `MCTokenQuota` | `ServedIsMetered` | the cache is filled once; a token that gets a quota later is served and never charged (db.go:850) |
| `PoolChannels` | `MCProviderPool` | `ChannelsReplaceProvider` | `reloadProviders` does not expand channels (handlers.go:1530, db.go:706) |
| `PoolBackoff` | `MCProviderPool` | `BackoffSurvivesReload` | a reload keeps the backoff of an object and takes its status from an older row (router.go:110, models.go:56) |
| `PoolReloads` | `MCProviderPool` | `NewestReadingStays` | of two reloads that overlap the older reading can be installed last, and stays until the next reload (handlers.go:1531) |
| `PoolSick` | `MCProviderPool` | `SickLeavesSchedule` | `wr-proxy/docs/11-health.md:43` says any other answer makes a provider dead; the code calls it unhealthy, which stays schedulable (health.go:239) |
| `FailedAs200` | `MCFailover` | `FailureIsAnError` | the last failure is answered with its own status, which may be 200 (handlers.go:487) |
| `CutAnswer` | `MCFailover` | `CutIsRetried` | truncation is known only after the decision that depends on it (handlers.go:324, proxy.go:712) |
| `UncostedUsage` | `MCMetering` | `UsageHasCost` | the usage of a stream is recorded with the cost computed before it was known (handlers.go:443) |
| `ExpiredSession` | `MCAdminShell` | `RefusedSeesLogin` | after a 401 `API` writes /login, but the router's flag still says logged in and turns back to the first page (api.js, router.js:41) |
| `RestrictionWidens` | `MCTokensPage` | `RestrictionSurvivesEdit` | a token restricted to models that left the catalogue is saved as unrestricted (tokens.js:774, 896) |
| `TokenOrg` | `MCTokensPage` | `OrgSurvivesEdit` | a form opened while `/team/orgs` fails keeps another token's organisation, or none, and the save writes it (tokens.js:324-337, 433) |
| `HalfForm` | `MCTokensPage` | `NoMixedRow` | between the two halves of an opening another form can be opened; a save then mixes two tokens (tokens.js:356-398) |
| `OrgCycle` | `MCTeamPage` | `TreeShowsEveryOrg` | two organisations can be put below each other and vanish from the tree (team.py:218) |
| `MemberForm` | `MCTeamPage` | `SentAsShown` | once the token page was drawn, the name and the switch of the member form are read from its inputs |
| `MemberName` | `MCTeamPage` | `NamesStay` | a token form filled under an open member form gives the member that token's name (team.js:489) |
| `ConfigRange` | `SettingsPage` | `StoredWithinRange` | the editor refuses thresholds above 1.0, the migration lifts the new ones past it (settings.js:831-838, settings.py:345-381) |
| `Rejection` | `KnowledgePage` | `DecisionTakesEffect` | `reject_item` and `batch_approve` name `datetime`, which is not imported: the items stay pending (knowledge_routes.py:798, 843) |
| `TestMail` | `SettingsPage` | `TestMailUsesForm` | a failed or overlapping save does not stop the test mail (settings.js:1059-1085) |

## 4. Fairness

* `TokenQuota`: the sync goroutine and the reads of the flush run on (weak fairness); `FlushAll` is
  strongly fair: the ticker keeps retrying, and a database locked now and then is not locked at every
  flush; a request inside the deduction comes to its notification. Requests, the admin and restarts
  are not fair. `RowsSettle` starts from the time requests have stopped.
* `ProviderPool`: backoffs and cooldowns have an end time, the checker has a ticker and a time limit on
  its probes, a reload request that arrived is served. Requests, edits and changes of the upstream are
  not fair.
* `Failover`: each handler runs on; every upstream call ends, at the client's time limit if not before.
* `Metering`: the two writers have tickers. Handlers are not fair: a batch drains without them.
* `AdminShell`: the browser runs its events and the language file loads or fails, the server serves and
  the browser delivers each call under way (weak fairness for each slot). The user, faults and the end
  of a session are not fair.
* The other pages are checked for safety only: that an answer comes is the network's affair, and what a
  page does when none is under way is said by `ListCatchesUp`, `MembersOfSelected`, `PageFollowsRows` and
  `LoadingEnds`.

## 5. Proofs

`TokenQuotaProofs`, for any finite set of tokens and any requests, costs, quotas, capacity and bounds:

* `Invariance`: the inductive invariant. `NoOverdraft` and `CountedAtMostTwice` are not inductive alone:
  the first needs that the value a request has loaded is an earlier value of the same account, the
  second that every charge under way (charged, queued or held) stands for cents of the account that no
  other charge stands for, which `counted`, the set of cents added to the row since its last absolute
  value, makes precise. A row is then its base plus the cents counted, and both are within the account.
* `TypeCorrect`, `NeverOverdrawn`, `AtMostTwice`, `FlushDurable`: the invariants that the run checks.
* `ImplementsAccount`: every step is a step of `QuotaAccount` or leaves its variables alone; a swap is a
  charge because the value that was compared is the value the account still has.

`FailoverProofs`, for any providers, `max_retries`, requests and bounds of the settings: the invariant is
about one request (`Sound`): what each phase can have cost (`CallInv`), which providers it can have
called (`SentInv`: one that is not excluded was not called), and what it has answered (`AnswerInv`). It
does not mention settings or offers, which is why changing them at any moment does no harm.
`BoundedCalls`, `SparedProviders`, `DeliveredSuccess` and `RecordedRequests` follow.

`MeteringProofs`, for any requests, providers, costs, capacities and batch sizes: `OneRowPerRecord` is
inductive once it is known that a record waits in one place only (the channel or the batch), that what
waits was recorded, and that what was not recorded has no row (`RowInv`), for which a phase must tell how
often the log was recorded (`PhaseInv`). `LastRowIsFinal` needs the same of the running transaction
(`FinalInv`): a second record exists only when the handler no longer writes to the entry. The lemma
`HandlerStep` says what any step of a handler may do to what the log writer holds. `NoInventedQuota` is about
sums: the cents that wait are given as the size of the set of them (`Queued`), and no step of a commit
adds more to a row than it takes out of that set (`SpentInv`).

`ProviderPoolProofs`, for any providers, requests, edits and reloads: the invariant types the objects that
the list, the checker and the requests hold (`HandsInv`), which may have left the list long ago, and says
that their number is bounded (`BudgetInv`), so that a reload finds free ones. `BackoffIsEarned` needs that
what any of them counts as refusals happened (`CountInv`), `BannedIsOut` that a refusal on file is copied
by every reload (`BanInv`). `ReloadInstallsRows` holds for any number of reloads that overlap. Its
invariant, `ListInv`, says that a fresh reading, one with the last edit in it, has the enabled rows as they
are, that the list has them once such a reading was the last to be installed, and that as long as none
was, a call or a fresh reading is outstanding or was lost. The two exceptions of the property are what
this leaves open, a lost notification and an older reading installed over a newer one (`handlers.go`
1531); both last until the next reload.

`TeamPageProofs`, for any organisations, members, tree at the start and any number of calls under way. Of
each answer the proof only uses what `Becomes` says, of each call what `Posted` says.

* `NoOrphanRows` is inductive once a call between check and commit has a place that is still there
  (`OrphanInv`). A deletion without a race finds nothing below it and no checked call into it
  (`CleanDeletion`).
* `FormNamesItsMember` needs that the names in the list, in the calls and in the inputs that the code
  finds are the member's or typed (`NameInv`), whichever of the two sets of inputs that is, up to the
  moment the token page fills its form under an open member form (`borrowed`).
* `ListIsOfSelected` needs what will correct the list as long as it is not right (`CurrentInv`): an answer
  on which the members are loaded again, an answer that is marked as too late or failed when it comes, or
  the latest call for them, for the organisation selected. The deletion of an organisation is not
  followed by such a load; it changes no list, as what is below another organisation stays the same
  (`BelowFrame`, by the closed sets that define `Below`).

`ConsoleProofs`, about `AdminShell`, for any routes and any set of slots: `NoPageBeforeLogin` needs that the router's flag
(`FlagInv`) and an answer "yes" to any call (`AnswerInv`) are there only once the server has vouched.
`PageFollowsHash` needs what is owed when hash and page differ (`RestInv`): a queued event, or a guard
under way that captured this very hash; and that no guard captured /login (`GuardInv`), because a
refusal then changes the hash and queues an event.

`ConsoleProofs`, about `TokensPage`, for any tokens, ids of created
ones, models and restrictions, any number of clicks and of failed calls:

* `TokensInvariance`: the inductive invariant, of the three parts that follow.
* `TokensPageTypes` needs that a row that is there has a name, and so has every row that is sent
  (`TokensTyped`), because the other parts tell a row that is there by it.
* `FormOwnsItsToken` follows the name, the organisation and the rest of a row from the list to the form, into
  the save and back (`Owned`). At the one place where they are apart, between the two halves of an opening,
  the form is hidden, one call waits for the organisations, and it is that of `editingId`. Whose form was
  opened without their list is remembered for good (`unlisted`), and that row's organisation is given up:
  the select then holds that of any form before it.
* `ListIsRows` says of the calls under way what they will bring (`CatchingUp`): as long as no write that
  succeeded waits for its answer, the latest list brings the rows as they are, and when no list under way is
  later than the one drawn, the one drawn did. Proving it showed an exception the run's bounds do not reach: a
  save that succeeds while the page is an error text throws in `hideForm` (tokens.js:450), before the list is
  asked for again, and a list read earlier can then be drawn. The history `stale` records it. The mechanism
  takes four acts, where the run has three; a search with one token, one to create and four acts finds the
  violation without the exception and none with it.

`KnowledgePageProofs`, for any items, domains, memories and bounds: `LoadingEnds` is almost inductive; what
it lacks is the set of operations that look their element up before the call (`CallOK`) and that calls
under way are finitely many, so that a free id can be chosen (`FreeNumber`).

`SettingsPageProofs`, for any values, number and scale of thresholds and any number of overlapping
chains: the invariant types every call with the rest of its chain (`CallOK`), so that whatever may still be
sent is fit to be stored. `StoredThresholdsRise` says of all pairs of thresholds what the editor checks
of neighbours only (lemma `Rises`, by the least threshold that fails), and that it survives the migration
of a former row: what was there stays as it was, and each of the two that are added is put above the one
before (`LiftedAbove`, `MigratedSound`). `GatewayTakesSwitch` needs what is owed when the gateway is behind
(`Follows`): a save of the switch whose chain ends in a reload, a reload on its way, the newest reading, which
is still to be stored and has the stored value, or a history that says the last reload failed, read in vain or
was overtaken. A reload that reads takes over that debt from the ones before, and one that stores an older
reading than the newest marks the history. As ids tell readings apart, this part needs that ids are
unique, which is a part of the invariant of `PageShowsRows`; the two are proved together
(`SettingsInvariant`). `PageShowsRows` speaks of a page at rest, and its invariant (`PInv`) of
every state before: a row that differs from the page is a draft, or a call is under way whose answer will
settle it (`RowsAgree`, `KbAgrees`). For that a call must know the rows it is alone on (`Now`: what was read
is what is stored, what was saved is stored, the page is drawn), which holds because another call for the
rows would have made the history `mixed`; and what follows it must be told from the rest of its chain
(`Shape`). The creation of a missing row is the case that needs counting: both answers of a chain that ended
without the row were failures, which is why the property excepts two of them.

The only assumptions are the named ASSUMEs of the modules: costs are positive, bounds are naturals,
sets that are counted are finite, there is a token and a provider, ids at start and fresh ones differ
(in `TokensPage` also from the two names that stand for no id),
`None` is no provider, no id and no value of a setting, the initial value of a setting is one of its
values, there are at least three thresholds and no more than their scale has room for, and the routes
and their aliases are apart.

Only model-checked: the liveness properties (`RowsSettle`, `PoolFollowsUpstream`, `EveryRequestAnswered`,
`MemoryDrains`, `ShellSettles`), which are beyond the prover.

## 6. Not modelled

Of the console: the reports (billing, dashboard, monitor), whose late answers behave like those of
`KnowledgePage`; the forms of providers and channels, which are of the kind of `TokensPage`; the usage and
cost dialogs of a token; the members' mails. Hazards seen there and not covered: a tab of the billing page
can be filled by the answer of another one, as the tab is read before the call and the element is the
same (billing.js:148-189); the expiry of a token is written back in UTC into an input of local time, so
each edit shifts it (tokens.js:378-381); a member's restriction cannot be cleared, since an empty
selection is not sent (team.js:376); moving a member after its dialog was closed throws (team.js:474);
the key of an invited member is hidden with its modal at once (team.js:399-406); a restore does not load
the page again (settings.js:1407-1413); the department filter of the knowledge items is read after its
element was wiped (knowledge.js:310-312); the routes of one domain look a code up as the integer key
(knowledge_routes.py:457); the edit form of a memory throws in the detail view (knowledge.js:1093).

Of the gateway, seen and not covered: a fixed window lets up to 2*rpm requests pass within a minute
around its edge (auth.go:40); the time limit of the shared client is written by concurrent requests
(proxy.go:146); an expired sticky entry is checked and deleted under two locks (router.go:66); the request
cache keeps saying success for a failing request (retry.go:316); a row marked processing stays so after a
crash (knowledge_extract.go:119); a full channel drops a session's messages (session_memory.go:372); the
binary loop takes an error in the body of a 200 for a success (handlers.go:1060); a stream with usage makes
two rows in the log (handlers.go:446); a charge past the limit is dropped whole (db.go:859).

Texts and numbers: translation between protocols, sanitising, desensitising, compression, scoring of
providers and models, retrieval. The order of messages in channels, which no property depends on. The
manual check of `providers.py` 378-409, edits of channels, and `services/health_checker.py`. The
`QuotaUsed` a provider object carries, which is loaded at reload only. The second loop of the binary proxy.
See `PROJECT.json` for the reason of each part.

## 7. Plan

1. Done: `QuotaAccount`, `TokenQuota`, `ProviderPool`, `Failover`, `Metering`, `AdminShell`, `TokensPage`,
   `TeamPage`, `SettingsPage`, `KnowledgePage`; proofs about `TokenQuota`, `ProviderPool`, `Failover`, `Metering`,
   `AdminShell`, `TokensPage`, `TeamPage`, `SettingsPage` and `KnowledgePage`.
2. Next modules, most important first:
   * `BinaryFailover`, or `Failover` with a second handler: the loop of `handleBinaryProxy`; runs: the same
     questions as `Failover`, and the 200 that carries an error;
   * `RateLimiter`: the fixed window over a clock, with an abstract bound of 2*rpm calls in any minute as
     the specification it implements; provable for every rpm;
   * `StickySessions`: selection with the map, expiry by check and delete;
   * `RequestCache`: records of success and failure of concurrent requests, and what it tells;
   * `KnowledgePipeline`: rows from pending to done or skipped, pause, batches, crash in the middle;
   * `SessionMemory`: the queue, sequence numbers of concurrent turns, the recall budget;
   * `Gateway`: `Failover` over the pool of `ProviderPool`: selection reads the objects, failures penalise
     them; the offers of `Failover` become those of the pool;
   * pure modules: `CalculateCost` with its rounding, the backoff schedule, `ExtractRetryAfter`'s bounds.
3. Abstract specifications worth stating: the pool as "available iff the upstream was last seen well",
   the log as "at most one row per record", the pipeline as "each row is done once".
4. Theorems to prove: every safety property the runs check has its theorem; next the action properties of new
   modules, and the refinement of `Gateway`.
5. Runs: the questions above; a run makes room for another when a theorem covers what it shows.
