---------------------------- MODULE KnowledgePage ----------------------------
(***************************************************************************)
(* The knowledge base page of the admin console (static/js/knowledge.js)   *)
(* over routes/knowledge_routes.py: thirteen tabs in one content element,  *)
(* the review queue, the domains and the memories.                         *)
(*                                                                         *)
(* No call is ever cancelled.  What its answer does depends on when the    *)
(* code looked up the element it writes to: before the call, and then the  *)
(* answer is lost with the element, or after it, and then it lands in      *)
(* whatever is shown by then.                                              *)
(***************************************************************************)
EXTENDS Naturals, FiniteSets

CONSTANTS
  Items,        \* knowledge items in the review queue
  Domains,      \* the domains of the seed
  FreshDomains, \* domains that wait for a confirmation, or are yet to be created
  Memories,
  MaxActs,      \* bound: tabs, buttons and visits
  MaxFails      \* bound: calls that fail

ASSUME BoundsAssumption == MaxActs \in Nat /\ MaxFails \in Nat

VARIABLES
  enabled, paused, \* server: the settings of the knowledge base
  pending,  \* server: the items that wait for a review
  domains,  \* server: the domains there are
  memories, \* server: the memories there are
  page,     \* what #knowledge-page-content shows
  active,   \* KnowledgePage.activeTab
  view,     \* what #knowledge-tab-content shows: of which tab, and of which rows
  panel,    \* the container within it: action panel, result or table
  net, acts, fails

vars == <<enabled, paused, pending, domains, memories, page, active, view, panel, net, acts, fails>>
server == <<enabled, paused, pending, domains, memories>>
screen == <<page, active, view, panel>>

Captured == {"raw", "reviews", "domains", "analyses", "quality", "audit"}
Drawn    == {"extract", "search", "compliance"}
Tabs     == Captured \cup Drawn \cup {"stats", "items", "analyze", "memories"}
Rows     == Items \cup Domains \cup FreshDomains \cup Memories

Content(tab, part, ids) == [tab |-> tab, part |-> part, ids |-> ids]
Blank   == Content("stats", "empty", {})
NoPanel == [part |-> "empty", ids |-> {}]

(***************************************************************************)
(* A call: about which rows, and where its answer goes.  "page" and        *)
(* "panel" are elements looked up before the call, "gone" is one that was  *)
(* replaced since, "later" is one looked up when the answer is there.      *)
(***************************************************************************)
Call(op, of, at) == [op |-> op, of |-> of, at |-> at, state |-> "sent", ids |-> {}, id |-> 0]

Lose(calls, places) == {IF c.at \in places THEN [c EXCEPT !.at = "gone"] ELSE c : c \in calls}
Overdrawn(calls) == Lose(calls, {"panel"})          \* innerHTML of the content
Rendered(calls)  == Lose(calls, {"page", "panel"})  \* innerHTML of the page

Ask(calls, c) ==
  LET free == CHOOSE n \in 1..Cardinality(calls) + 1 : \A d \in calls : d.id # n IN
  net' = calls \cup {[c EXCEPT !.id = free]}

There == page = "tabs"
Shows(tab, part) == There /\ view.tab = tab /\ view.part = part

Act == acts < MaxActs /\ acts' = acts + 1

Show(content, p) == view' = content /\ panel' = p

\* For the first time, with the knowledge base in any state, or on the tab of
\* statistics.
Init ==
  /\ pending = Items
  /\ domains \in {Domains, Domains \cup FreshDomains} /\ memories = Memories
  /\ \/ /\ enabled \in BOOLEAN /\ paused \in BOOLEAN
        /\ page = "none" /\ view = Blank
        /\ net = {[Call("status", {}, "later") EXCEPT !.id = 1]}
     \/ /\ enabled = TRUE /\ paused = FALSE
        /\ page = "tabs" /\ view = Content("stats", "list", {})
        /\ net = {}
  /\ active = "stats" /\ panel = NoPanel
  /\ acts = 0 /\ fails = 0

(***************************************************************************)
(* Loads.                                                                  *)
(***************************************************************************)
\* loadRaw, loadReviews, loadDomains, loadAnalyses, loadQuality, loadAuditLog:
\* without an element the code throws and asks for nothing.
LoadList(tab, calls) ==
  /\ Show(Content(tab, "loading", {}), NoPanel)
  /\ Ask(Overdrawn(calls), Call(tab, {}, "page"))

LoadListIfThere(tab, calls) ==
  IF There THEN LoadList(tab, calls)
           ELSE UNCHANGED <<view, panel>> /\ net' = calls

\* fetchMemoriesTable
FetchMemoriesTable(calls) ==
  /\ panel' = [part |-> "loading", ids |-> {}]
  /\ Ask(calls, Call("memoryTable", {}, "panel"))

LoadMemories(calls) ==
  /\ view' = Content("memories", "list", {})
  /\ FetchMemoriesTable(Overdrawn(calls))

\* What switchTab calls once the page is drawn anew.
Open(tab, calls) ==
  \/ tab \in Captured /\ LoadList(tab, calls)
  \/ tab \in Drawn /\ Show(Content(tab, "list", {}), NoPanel) /\ net' = calls
  \/ tab = "memories" /\ LoadMemories(calls)
  \/ /\ tab \in {"stats", "items", "analyze"}
     /\ Show(Blank, NoPanel)
     /\ Ask(calls, Call(CASE tab = "stats" -> "stats"
                          [] tab = "items" -> "departments"
                          [] tab = "analyze" -> "targets", {}, "later"))

(***************************************************************************)
(* The router shows the page; tabs and buttons.                            *)
(***************************************************************************)
Load ==
  /\ Act
  /\ Ask(net, Call("status", {}, "later"))
  /\ UNCHANGED <<server, screen, fails>>

EnableKnowledge ==
  /\ page = "onboarding" /\ Act
  /\ Ask(net, Call("enable", {}, "later"))
  /\ UNCHANGED <<server, screen, fails>>

SwitchTab(tab) ==
  /\ There /\ Act
  /\ active' = tab
  /\ Open(tab, Rendered(net))
  /\ UNCHANGED <<server, page, fails>>

\* Paging, and the way back from a detail; the tab is not switched.
LoadAgain ==
  /\ There /\ view.part \in {"list", "detail", "edit"} /\ Act
  /\ \/ view.tab \in {"raw", "reviews", "audit"} /\ LoadList(view.tab, net)
     \/ view.tab = "memories" /\ LoadMemories(net)
     \/ /\ view.tab = "items" /\ Ask(net, Call("departments", {}, "later"))
        /\ UNCHANGED <<view, panel>>
  /\ UNCHANGED <<server, page, active, fails>>

\* A button of the page that sends a call and changes nothing on the screen.
Press(op, of) ==
  /\ Act
  /\ Ask(net, Call(op, of, "later"))
  /\ UNCHANGED <<server, screen, fails>>

\* showRawDetail, showAuditDetail
ShowDetail == /\ There /\ view.tab \in {"raw", "audit"} /\ view.part = "list"
              /\ Press(IF view.tab = "raw" THEN "rawDetail" ELSE "auditDetail", {})

\* approveItem, rejectItem, showReviewEdit, of a row.
Review(op, i) == Shows("reviews", "list") /\ i \in view.ids /\ Press(op, {i})
\* batchApprove, of the rows that are ticked.
BatchApprove(S) == Shows("reviews", "list") /\ S \subseteq view.ids /\ Press("batch", S)
SaveReviewEdit  == Shows("reviews", "edit") /\ Press("save", view.ids)

ConfirmDomain(d)   == Shows("domains", "list") /\ d \in view.ids \cap FreshDomains
                      /\ Press("confirm", {d})
ShowMergeDomain(d) == Shows("domains", "list") /\ d \in view.ids \ FreshDomains
                      /\ Press("targetDomains", {d})
MergeDomain == panel.part = "merge" /\ Press("merge", panel.ids)
CreateDomain(d) == panel.part = "create" /\ Press("create", {d})

\* showCreateDomain, and the button that closes the panel.
ShowPanel(part) ==
  /\ Shows("domains", "list") /\ Act
  /\ panel' = [part |-> part, ids |-> {}]
  /\ UNCHANGED <<server, page, active, view, net, fails>>

\* showDomainStats, runExtract, runAnalysis, doSearch: the panel waits.
Run ==
  /\ \/ Shows("domains", "list") /\ view.ids \ FreshDomains # {}
     \/ There /\ view.tab \in {"extract", "analyze", "search"}
  /\ Act
  /\ panel' = [part |-> "loading", ids |-> {}]
  /\ Ask(net, Call(IF view.tab = "domains" THEN "domainStats" ELSE "run", {}, "panel"))
  /\ UNCHANGED <<server, page, active, view, fails>>

\* Of a row of the table.  In the detail view the code does not find the field
\* #mem-token-id and throws: its buttons to edit and to delete do nothing.
MemoryButton(op, m) == Shows("memories", "list") /\ m \in panel.ids /\ Press(op, {m})

(***************************************************************************)
(* Answers.                                                                *)
(***************************************************************************)
\* A slip: what became of the call is taken for what is shown.
PartOfState(c) == IF c.state = "ok" THEN "list" ELSE c.state

Part(c) == IF c.state = "ok" THEN "list" ELSE "failed"
Ended(c, ops) == c.op \in ops /\ c.state # "sent"
Alert(c) == net' = net \ {c} /\ UNCHANGED <<view, panel>>

RenderPage(p, calls) ==
  /\ page' = p
  /\ Show(Blank, NoPanel)
  /\ IF p = "tabs" THEN Ask(Rendered(calls), Call("stats", {}, "later"))
                   ELSE net' = Rendered(calls)

\* load
StatusKnown(c) ==
  /\ Ended(c, {"status"})
  /\ RenderPage(CASE c.state # "ok" \/ "enabled" \notin c.ids -> "onboarding"
                  [] "paused" \in c.ids -> "paused"
                  [] OTHER -> "tabs", net \ {c})
  /\ UNCHANGED active

Enabled(c) ==
  /\ Ended(c, {"enable"})
  /\ IF c.state = "ok" THEN RenderPage("tabs", net \ {c})
                       ELSE Alert(c) /\ UNCHANGED page
  /\ UNCHANGED active

\* A slip: a failure is only logged.
ListedQuietly(c) ==
  /\ Ended(c, Captured \cup {"items"})
  /\ IF c.at = "page" /\ c.state = "ok"
     THEN /\ Show(Content(c.op, "list", c.ids), NoPanel)
          /\ net' = Overdrawn(net \ {c})
     ELSE Alert(c)
  /\ UNCHANGED <<page, active>>

\* A list, in the element that was there when it was asked for.
Listed(c) ==
  /\ Ended(c, Captured \cup {"items"})
  /\ IF c.at = "page"
     THEN /\ Show(Content(c.op, Part(c), c.ids), NoPanel)
          /\ net' = Overdrawn(net \ {c})
     ELSE Alert(c)
  /\ UNCHANGED <<page, active>>

\* loadItems, with the departments or without.
DepartmentsKnown(c) ==
  /\ Ended(c, {"departments"})
  /\ LoadListIfThere("items", net \ {c})
  /\ UNCHANGED <<page, active>>

Detail(c) ==
  CASE c.op = "stats"        -> Content("stats", Part(c), {})
    [] c.op = "targets"      -> Content("analyze", "list", {})
    [] c.op = "rawDetail"    -> Content("raw", "detail", {})
    [] c.op = "auditDetail"  -> Content("audit", "detail", {})
    [] c.op = "edit"         -> Content("reviews", "edit", IF c.state = "ok" THEN c.of ELSE {})
    [] c.op = "memoryDetail" -> Content("memories", "detail", c.of)

\* A dialogue or an item that was refused is drawn all the same, its fields empty:
\* only showAuditDetail looks at the status.
Drawable(c) ==
  \/ c.state = "ok" /\ (c.op = "memoryDetail" => c.of \subseteq c.ids)
  \/ c.op \in {"stats", "targets"}
  \/ c.state = "refused" /\ c.op \in {"rawDetail", "edit"}

\* loadStats, renderAnalyze and the details: into the content that is there by
\* now, of whichever tab.  Another detail that failed, or one of a memory that is
\* gone, is an alert.
Landed(c) ==
  /\ Ended(c, {"stats", "targets", "rawDetail", "auditDetail", "edit", "memoryDetail"})
  /\ IF There /\ Drawable(c)
     THEN Show(Detail(c), NoPanel) /\ net' = Overdrawn(net \ {c})
     ELSE Alert(c)
  /\ UNCHANGED <<page, active>>

\* The panel that waits for the call, if it is still there.  The table takes an
\* answer without memories, a refusal too, for an empty one.
PanelFilled(c) ==
  /\ Ended(c, {"domainStats", "run", "memoryTable"})
  /\ net' = net \ {c}
  /\ panel' = IF c.at # "panel" THEN panel
              ELSE [part |-> IF c.op = "memoryTable" /\ c.state = "refused" THEN "list" ELSE Part(c),
                    ids |-> c.ids]
  /\ UNCHANGED <<page, active, view>>

\* showMergeDomain: the panel that is there by now.
MergeTargets(c) ==
  /\ Ended(c, {"targetDomains"})
  /\ net' = net \ {c}
  /\ panel' = IF c.state = "ok" /\ Shows("domains", "list")
              THEN [part |-> "merge", ids |-> c.of] ELSE panel
  /\ UNCHANGED <<page, active, view>>

\* A change: its list is loaded again, into the content that is there by now.
Changed(c) ==
  /\ Ended(c, {"approve", "reject", "save", "batch", "confirm", "merge", "create"})
  /\ IF c.state = "ok"
     THEN LoadListIfThere(IF c.op \in {"confirm", "merge", "create"} THEN "domains" ELSE "reviews",
                          net \ {c})
     ELSE Alert(c)
  /\ UNCHANGED <<page, active>>

MemoryDeleted(c) ==
  /\ Ended(c, {"memoryDelete"})
  /\ IF c.state = "ok" /\ Shows("memories", "list")
     THEN FetchMemoriesTable(net \ {c}) /\ UNCHANGED view
     ELSE Alert(c)
  /\ UNCHANGED <<page, active>>

Answered(c) ==
  /\ \/ StatusKnown(c)
     \/ Enabled(c)
     \/ Listed(c)
     \/ DepartmentsKnown(c)
     \/ Landed(c)
     \/ PanelFilled(c)
     \/ MergeTargets(c)
     \/ Changed(c)
     \/ MemoryDeleted(c)
  /\ UNCHANGED <<server, acts, fails>>

(***************************************************************************)
(* The server, one transaction per call.                                   *)
(***************************************************************************)
Reply(c, state, ids) ==
  /\ c.state = "sent"
  /\ net' = (net \ {c}) \cup {[c EXCEPT !.state = state, !.ids = ids]}
  /\ UNCHANGED <<screen, acts, fails>>

Answer(op) ==
  CASE op = "status" -> (IF enabled THEN {"enabled"} ELSE {}) \cup (IF paused THEN {"paused"} ELSE {})
    [] op = "reviews" -> pending
    [] op = "domains" -> domains
    [] op \in {"memoryTable", "memoryDetail"} -> memories
    [] OTHER -> {}

\* knowledge_pause and knowledge_resume, called by the settings page, and the end
\* of a pause.
PauseOrResume ==
  /\ enabled \/ paused
  /\ Act
  /\ paused' = ~paused
  /\ UNCHANGED <<enabled, pending, domains, memories, screen, net, fails>>

\* _gate_when_paused: 423 to all but these.  The quality report is of another
\* blueprint.
Gated(c) == paused /\ c.op \notin {"status", "enable", "quality"}

Locked(c) == Gated(c) /\ Reply(c, "refused", {}) /\ UNCHANGED server

\* edit_review_item changes texts alone.
ServeRead(c) ==
  /\ c.op \in Captured \cup {"status", "stats", "items", "departments", "targets", "rawDetail",
               "auditDetail", "edit", "save", "targetDomains", "run", "memoryTable", "memoryDetail"}
  /\ c.op = "save" => c.of # {}
  /\ Reply(c, "ok", Answer(c.op))
  /\ UNCHANGED server

\* approve_item calls request.get_json(), and the page sends no JSON: 415.
\* reject_item and batch_approve, and approve_item further down, name datetime,
\* which the module does not import: a NameError before the commit, 500.
Undecidable == {"approve", "reject", "batch"}

\* The routes of one domain look up its code as the integer key of the table: 404.
NotFound == {"confirm", "merge", "domainStats"}

\* A form drawn empty has no confidence: float(None), 500.
Refuse(c) ==
  /\ \/ c.op \in Undecidable \cup NotFound
     \/ c.op = "save" /\ c.of = {}
  /\ Reply(c, "refused", {})
  /\ UNCHANGED server

ServeEnable(c) ==
  /\ c.op = "enable"
  /\ enabled' = TRUE
  /\ Reply(c, "ok", {})
  /\ UNCHANGED <<paused, pending, domains, memories>>

\* create_domain refuses a code that is there.
ServeCreate(c) ==
  /\ c.op = "create"
  /\ domains' = domains \cup c.of
  /\ Reply(c, IF c.of \subseteq domains THEN "refused" ELSE "ok", {})
  /\ UNCHANGED <<enabled, paused, pending, memories>>

ServeMemoryDelete(c) ==
  /\ c.op = "memoryDelete"
  /\ memories' = memories \ c.of
  /\ Reply(c, IF c.of \subseteq memories THEN "ok" ELSE "refused", {})
  /\ UNCHANGED <<enabled, paused, pending, domains>>

\* Served by the gateway behind the route.
Relayed == {"run", "memoryTable", "memoryDetail"}

\* A call that fails before the server sees it, one whose gateway does not
\* answer, or a write whose answer is lost.
Fail(c) ==
  /\ fails < MaxFails /\ fails' = fails + 1
  /\ \/ c.state = "sent"
     \/ c.state = "ok" /\ c.op \in {"enable", "create", "memoryDelete"}
  /\ \E state \in {"failed"} \cup (IF c.op \in Relayed THEN {"refused"} ELSE {}) :
       net' = (net \ {c}) \cup {[c EXCEPT !.state = state]}
  /\ UNCHANGED <<server, screen, acts>>

Serve(c) ==
  \/ Locked(c)
  \/ /\ ~Gated(c)
     /\ \/ ServeRead(c)
        \/ Refuse(c)
        \/ ServeEnable(c)
        \/ ServeCreate(c)
        \/ ServeMemoryDelete(c)

User ==
  \/ Load
  \/ EnableKnowledge
  \/ \E tab \in Tabs : SwitchTab(tab)
  \/ LoadAgain
  \/ ShowDetail
  \/ \E i \in Items, op \in {"approve", "reject", "edit"} : Review(op, i)
  \/ \E S \in SUBSET Items : S # {} /\ BatchApprove(S)
  \/ SaveReviewEdit
  \/ \E d \in Domains \cup FreshDomains : ConfirmDomain(d) \/ ShowMergeDomain(d)
  \/ MergeDomain
  \/ \E d \in FreshDomains : CreateDomain(d)
  \/ \E part \in {"create", "empty"} : ShowPanel(part)
  \/ Run
  \/ \E m \in Memories, op \in {"memoryDetail", "memoryDelete"} : MemoryButton(op, m)

Next == User \/ PauseOrResume \/ \E c \in net : Serve(c) \/ Fail(c) \/ Answered(c)

Spec == Init /\ [][Next]_vars
-----------------------------------------------------------------------------
(***************************************************************************)
(* Properties                                                              *)
(***************************************************************************)
Ops == Captured \cup {"status", "enable", "stats", "items", "departments", "targets", "rawDetail",
         "auditDetail", "approve", "reject", "edit", "save", "batch", "confirm", "targetDomains",
         "merge", "create", "domainStats", "run", "memoryTable", "memoryDetail", "memoryDelete"}

\* Types of the rows, of the page and of the calls under way.
TypeOK ==
  /\ enabled \in BOOLEAN /\ paused \in BOOLEAN
  /\ pending \subseteq Items
  /\ domains \subseteq Domains \cup FreshDomains /\ memories \subseteq Memories
  /\ page \in {"none", "onboarding", "paused", "tabs"}
  /\ active \in Tabs
  /\ view \in [tab : Tabs, part : {"empty", "loading", "failed", "list", "detail", "edit"}, ids : SUBSET Rows]
  /\ panel \in [part : {"empty", "loading", "failed", "list", "create", "merge"}, ids : SUBSET Rows]
  /\ net \subseteq [op : Ops, of : SUBSET Rows, at : {"page", "panel", "gone", "later"},
                    state : {"sent", "ok", "refused", "failed"},
                    ids : SUBSET (Rows \cup {"enabled", "paused"}), id : Nat]
  /\ acts \in 0..MaxActs /\ fails \in 0..MaxFails

\* "Loading" is always followed by something: whichever calls fail, and however
\* tabs, details and late answers draw over each other, a list or a panel that
\* says so waits for a call that will write to that very element
\* (knowledge.js:215-256, 672-701, 1004-1046).
LoadingEnds ==
  /\ view.part = "loading" => \E c \in net : c.op = view.tab /\ c.at = "page"
  /\ panel.part = "loading" => \E c \in net : c.at = "panel"

\* knowledge_routes.py:768 "approve: mark as verified": an approval that the
\* server has answered has verified the item, or the item was decided otherwise.
ApprovalTakesEffect ==
  \A c \in net : c.op = "approve" /\ c.state \in {"ok", "refused"} => c.of \cap pending = {}

\* knowledge_routes.py:792 "reject: mark as rejected", and :832 "batch approval":
\* once the server has answered, the items wait no longer.
DecisionTakesEffect ==
  \A c \in net : c.op \in {"reject", "batch"} /\ c.state \in {"ok", "refused"}
    => c.of \cap pending = {}
=============================================================================
