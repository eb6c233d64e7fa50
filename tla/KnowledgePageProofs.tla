------------------------- MODULE KnowledgePageProofs -------------------------
(***************************************************************************)
(* Proofs about KnowledgePage, for any items, domains and memories, and    *)
(* any number of actions and failures: the types, and that no list or      *)
(* panel waits in vain.                                                    *)
(***************************************************************************)
EXTENDS KnowledgePage, TLAPS, FiniteSetTheorems

-----------------------------------------------------------------------------
(* The inductive invariant, in named parts.  Finitely many calls, those whose
   element is captured being the lists and the panels; and a view that is
   loading is of a list. *)

Listing  == Captured \cup {"items"}
Paneled  == {"domainStats", "run", "memoryTable"}
Places   == {"page", "panel", "gone", "later"}
States   == {"sent", "ok", "refused", "failed"}
Answers  == SUBSET (Rows \cup {"enabled", "paused"})
CallType == [op : Ops, of : SUBSET Rows, at : Places, state : States, ids : Answers, id : Nat]

CallOK(c) ==
  /\ c \in CallType
  /\ c.at = "page" => c.op \in Listing
  /\ c.at = "panel" => c.op \in Paneled
  /\ c.op # "status" => c.ids \subseteq Rows
  /\ c.op = "create" => c.of \subseteq FreshDomains

Calls(S) == IsFiniteSet(S) /\ \A c \in S : CallOK(c)

ViewType  == [tab : Tabs, part : {"empty", "loading", "failed", "list", "detail", "edit"},
              ids : SUBSET Rows]
PanelType == [part : {"empty", "loading", "failed", "list", "create", "merge"}, ids : SUBSET Rows]

ScreenInv ==
  /\ view \in ViewType /\ panel \in PanelType
  /\ view.part = "loading" => view.tab \in Listing
  /\ LoadingEnds

RestOK ==
  /\ enabled \in BOOLEAN /\ paused \in BOOLEAN
  /\ pending \subseteq Items
  /\ domains \subseteq Domains \cup FreshDomains /\ memories \subseteq Memories
  /\ page \in {"none", "onboarding", "paused", "tabs"}
  /\ active \in Tabs
  /\ acts \in 0..MaxActs /\ fails \in 0..MaxFails

IInv == RestOK /\ Calls(net) /\ ScreenInv

-----------------------------------------------------------------------------
(* Sets of calls. *)

LEMMA IInvImplies == IInv => TypeOK /\ LoadingEnds
<1> SUFFICES ASSUME IInv PROVE TypeOK
  BY DEF IInv, ScreenInv
<1>1. net \subseteq CallType
  BY DEF IInv, Calls, CallOK
<1> QED
  BY <1>1 DEF IInv, RestOK, ScreenInv, TypeOK, ViewType, PanelType, CallType, Places, States, Answers

\* A set of calls has a free number: there are more than it has calls.
LEMMA FreeNumber ==
  ASSUME NEW S, Calls(S)
  PROVE  (CHOOSE n \in 1..Cardinality(S) + 1 : \A d \in S : d.id # n) \in Nat
<1> DEFINE ids == {d.id : d \in S}
           f   == [d \in S |-> d.id]
           k   == Cardinality(S)
<1>1. k \in Nat
  BY FS_CardinalityType DEF Calls
<1>2. f \in Surjection(S, ids)
  BY DEF Surjection
<1>3. IsFiniteSet(ids) /\ Cardinality(ids) <= k
  BY <1>2, FS_Surjection DEF Calls
<1>4. Cardinality(1..k + 1) = k + 1
  BY <1>1, FS_Interval
<1>5. ASSUME 1..k + 1 \subseteq ids PROVE FALSE
  <2>1. Cardinality(1..k + 1) <= Cardinality(ids) /\ Cardinality(ids) \in Nat
    BY <1>3, <1>5, FS_Subset, FS_CardinalityType
  <2> QED
    BY <1>1, <1>3, <1>4, <2>1
<1>6. PICK n \in 1..k + 1 : n \notin ids
  BY <1>5
<1>7. \A d \in S : d.id # n
  BY <1>6
<1> QED
  BY <1>1, <1>6, <1>7

LEMMA LoseKeeps ==
  ASSUME NEW S, Calls(S), NEW P
  PROVE  /\ Calls(Lose(S, P))
         /\ \A c \in S : c.at \notin P => c \in Lose(S, P)
<1> DEFINE f == [c \in S |-> IF c.at \in P THEN [c EXCEPT !.at = "gone"] ELSE c]
<1>1. Lose(S, P) = {f[c] : c \in S}
  BY DEF Lose
<1>2. IsFiniteSet(Lose(S, P))
  <2>1. f \in Surjection(S, Lose(S, P))
    BY <1>1 DEF Surjection
  <2> QED
    BY <2>1, FS_Surjection DEF Calls
<1>3. ASSUME NEW c \in S PROVE CallOK(f[c])
  <2>1. CallOK(c)
    BY DEF Calls
  <2>2. CASE c.at \in P
    <3>1. f[c] = [op |-> c.op, of |-> c.of, at |-> "gone", state |-> c.state,
                  ids |-> c.ids, id |-> c.id]
      BY <2>1, <2>2 DEF CallOK, CallType
    <3> QED
      BY <2>1, <3>1 DEF CallOK, CallType, Places
  <2>3. CASE c.at \notin P
    BY <2>1, <2>3
  <2> QED
    BY <2>2, <2>3
<1>4. \A c \in S : c.at \notin P => c \in Lose(S, P)
  BY <1>1
<1> QED
  BY <1>1, <1>2, <1>3, <1>4 DEF Calls

LEMMA RemoveKeeps ==
  ASSUME NEW S, Calls(S), NEW c
  PROVE  Calls(S \ {c})
BY FS_RemoveElement DEF Calls

LEMMA AskKeeps ==
  ASSUME NEW S, Calls(S), NEW op \in Ops, NEW of \in SUBSET Rows, NEW at \in Places,
         at = "page" => op \in Listing, at = "panel" => op \in Paneled,
         op = "create" => of \subseteq FreshDomains,
         Ask(S, Call(op, of, at))
  PROVE  /\ Calls(net') /\ S \subseteq net'
         /\ \E c \in net' : c.op = op /\ c.at = at
<1> DEFINE free == CHOOSE n \in 1..Cardinality(S) + 1 : \A d \in S : d.id # n
           new  == [op |-> op, of |-> of, at |-> at, state |-> "sent", ids |-> {}, id |-> free]
<1>1. net' = S \cup {new}
  <2>1. net' = S \cup {[Call(op, of, at) EXCEPT !.id = free]}
    BY DEF Ask
  <2> HIDE DEF free
  <2>2. [Call(op, of, at) EXCEPT !.id = free] = new
    BY DEF Call
  <2> QED
    BY <2>1, <2>2
<1>2. free \in Nat
  BY FreeNumber
<1> HIDE DEF free
<1>3. CallOK(new)
  BY <1>2 DEF CallOK, CallType, States, Answers
<1>4. IsFiniteSet(net')
  BY <1>1, FS_AddElement DEF Calls
<1> QED
  BY <1>1, <1>3, <1>4 DEF Calls

-----------------------------------------------------------------------------
(* Screens. *)

\* What is on the screen stays, and so do the calls it may wait for.
LEMMA ScreenKept ==
  ASSUME ScreenInv, UNCHANGED <<view, panel>>,
         \A c \in net : (c.at = "panel" \/ (c.at = "page" /\ c.op = view.tab /\ view.part = "loading"))
           => \E d \in net' : d.op = c.op /\ d.at = c.at
  PROVE  ScreenInv'
<1>1. LoadingEnds'
  BY DEF ScreenInv, LoadingEnds
<1> QED
  BY <1>1 DEF ScreenInv

\* A new screen that waits for nothing.
LEMMA ScreenShown ==
  ASSUME NEW tab \in Tabs, NEW part \in {"empty", "failed", "list", "detail", "edit"},
         NEW ids \in SUBSET Rows, Show(Content(tab, part, ids), NoPanel)
  PROVE  ScreenInv'
BY DEF Show, Content, NoPanel, ScreenInv, ViewType, PanelType, LoadingEnds

LEMMA ListingIsOps == Listing \subseteq Ops /\ Listing \subseteq Tabs /\ Paneled \subseteq Ops
BY DEF Listing, Ops, Tabs, Captured, Drawn, Paneled

LEMMA LoadListKeeps ==
  ASSUME NEW tab \in Listing, NEW S, Calls(S), LoadList(tab, S)
  PROVE  Calls(net') /\ ScreenInv'
<1>1. /\ view' = [tab |-> tab, part |-> "loading", ids |-> {}]
      /\ panel' = [part |-> "empty", ids |-> {}]
      /\ Ask(Overdrawn(S), Call(tab, {}, "page"))
  BY DEF LoadList, Show, Content, NoPanel
<1>2. Calls(Overdrawn(S))
  BY LoseKeeps DEF Overdrawn
<1>3. Calls(net') /\ \E c \in net' : c.op = tab /\ c.at = "page"
  BY <1>1, <1>2, AskKeeps, ListingIsOps DEF Places
<1> QED
  BY <1>1, <1>3, ListingIsOps DEF ScreenInv, ViewType, PanelType, LoadingEnds

LEMMA FetchKeeps ==
  ASSUME NEW S, Calls(S), FetchMemoriesTable(S),
         view' \in ViewType, view'.part # "loading"
  PROVE  Calls(net') /\ ScreenInv'
<1>1. panel' = [part |-> "loading", ids |-> {}] /\ Ask(S, Call("memoryTable", {}, "panel"))
  BY DEF FetchMemoriesTable
<1>2. Calls(net') /\ \E c \in net' : c.op = "memoryTable" /\ c.at = "panel"
  BY <1>1, AskKeeps DEF Places, Ops, Paneled
<1> QED
  BY <1>1, <1>2 DEF ScreenInv, PanelType, LoadingEnds

LEMMA LoadMemoriesKeeps ==
  ASSUME NEW S, Calls(S), LoadMemories(S)
  PROVE  Calls(net') /\ ScreenInv'
<1>1. view' = [tab |-> "memories", part |-> "list", ids |-> {}]
      /\ FetchMemoriesTable(Overdrawn(S))
  BY DEF LoadMemories, Content
<1>2. view' \in ViewType /\ view'.part # "loading"
  BY <1>1 DEF ViewType, Tabs
<1> QED
  BY <1>1, <1>2, LoseKeeps, FetchKeeps DEF Overdrawn

\* A call that no one waits for is added; the screen is kept, or is at rest.
LEMMA AskLater ==
  ASSUME NEW S, Calls(S), NEW op \in Ops, NEW of \in SUBSET Rows,
         op = "create" => of \subseteq FreshDomains, Ask(S, Call(op, of, "later"))
  PROVE  Calls(net') /\ S \subseteq net'
BY AskKeeps DEF Places

LEMMA PressKeeps ==
  ASSUME Calls(net), ScreenInv, NEW op \in Ops, NEW of \in SUBSET Rows,
         op = "create" => of \subseteq FreshDomains, Press(op, of)
  PROVE  Calls(net') /\ ScreenInv'
<1>1. Calls(net') /\ net \subseteq net' /\ UNCHANGED <<view, panel>>
  BY AskLater DEF Press, screen
<1> QED
  BY <1>1, ScreenKept

LEMMA OpenKeeps ==
  ASSUME NEW tab \in Tabs, NEW S, Calls(S), Open(tab, S)
  PROVE  Calls(net') /\ ScreenInv'
<1>1. CASE tab \in Captured /\ LoadList(tab, S)
  BY <1>1, LoadListKeeps DEF Listing
<1>2. CASE tab \in Drawn /\ Show(Content(tab, "list", {}), NoPanel) /\ net' = S
  BY <1>2, ScreenShown
<1>3. CASE LoadMemories(S)
  BY <1>3, LoadMemoriesKeeps
<1>4. CASE /\ tab \in {"stats", "items", "analyze"}
           /\ Show(Blank, NoPanel)
           /\ Ask(S, Call(CASE tab = "stats" -> "stats"
                            [] tab = "items" -> "departments"
                            [] tab = "analyze" -> "targets", {}, "later"))
  <2>1. \E op \in Ops : Ask(S, Call(op, {}, "later"))
    BY <1>4 DEF Ops
  <2>2. ScreenInv'
    BY <1>4, ScreenShown DEF Blank, Tabs
  <2> QED
    BY <2>1, <2>2, AskLater
<1> QED
  BY <1>1, <1>2, <1>3, <1>4 DEF Open

-----------------------------------------------------------------------------
(* Answers. *)

\* An answer that is only taken away: no one waited for it.
LEMMA AlertKeeps ==
  ASSUME Calls(net), ScreenInv, NEW c \in net,
         c.at \notin {"page", "panel"}, net' = net \ {c}, UNCHANGED <<view, panel>>
  PROVE  Calls(net') /\ ScreenInv'
<1>1. Calls(net')
  BY RemoveKeeps
<1>2. \A d \in net : d.at \in {"page", "panel"} => d \in net'
  OBVIOUS
<1> QED
  BY <1>1, <1>2, ScreenKept

LEMMA RenderKeeps ==
  ASSUME NEW p, NEW S, Calls(S), RenderPage(p, S)
  PROVE  Calls(net') /\ ScreenInv'
<1>1. ScreenInv'
  BY ScreenShown DEF RenderPage, Blank, Tabs
<1>2. Calls(Rendered(S))
  BY LoseKeeps DEF Rendered
<1>3. "stats" \in Ops /\ {} \in SUBSET Rows
  BY DEF Ops
<1>4. Calls(net')
  BY <1>2, <1>3, AskLater DEF RenderPage
<1> QED
  BY <1>1, <1>4

LEMMA ListIfThereKeeps ==
  ASSUME Calls(net), ScreenInv, NEW c \in net, c.at \notin {"page", "panel"},
         NEW tab \in Listing, LoadListIfThere(tab, net \ {c})
  PROVE  Calls(net') /\ ScreenInv'
BY RemoveKeeps, LoadListKeeps, AlertKeeps DEF LoadListIfThere

LEMMA AnsweredKeeps ==
  ASSUME Calls(net), ScreenInv, NEW c \in net, Answered(c)
  PROVE  Calls(net') /\ ScreenInv'
<1>0. CallOK(c) /\ Calls(net \ {c})
  BY RemoveKeeps DEF Calls
<1>1. c.op \notin Listing => c.at # "page"
  BY <1>0 DEF CallOK
<1>2. c.op \notin Paneled => c.at # "panel"
  BY <1>0 DEF CallOK
<1>3. CASE StatusKnown(c)
  BY <1>0, <1>3, RenderKeeps DEF StatusKnown
<1>4. CASE Enabled(c)
  <2>1. c.at \notin {"page", "panel"}
    BY <1>1, <1>2, <1>4 DEF Enabled, Ended, Listing, Captured, Paneled
  <2> QED
    BY <1>0, <1>4, <2>1, RenderKeeps, AlertKeeps DEF Enabled, Alert
<1>5. CASE Listed(c)
  <2>1. c.op \in Listing /\ c.op \in Tabs /\ c.at # "panel"
    BY <1>2, <1>5, ListingIsOps DEF Listed, Ended, Listing, Captured, Paneled
  <2>2. CASE c.at = "page"
    <3>1. Show(Content(c.op, Part(c), c.ids), NoPanel) /\ net' = Overdrawn(net \ {c})
      BY <1>5, <2>2 DEF Listed
    <3>2. Part(c) \in {"failed", "list"} /\ c.ids \in SUBSET Rows
      BY <1>0, <2>1 DEF Part, CallOK, Listing, Captured
    <3>3. Calls(net')
      BY <1>0, <3>1, LoseKeeps DEF Overdrawn
    <3> QED
      BY <2>1, <3>1, <3>2, <3>3, ScreenShown
  <2>3. CASE c.at # "page"
    BY <1>5, <2>1, <2>3, AlertKeeps DEF Listed, Alert
  <2> QED
    BY <2>2, <2>3
<1>6. CASE DepartmentsKnown(c)
  <2>1. c.at \notin {"page", "panel"}
    BY <1>1, <1>2, <1>6 DEF DepartmentsKnown, Ended, Listing, Captured, Paneled
  <2>2. "items" \in Listing
    BY DEF Listing
  <2> QED
    BY <1>6, <2>1, <2>2, ListIfThereKeeps DEF DepartmentsKnown
<1>7. CASE Landed(c)
  <2>1. c.op \in {"stats", "targets", "rawDetail", "auditDetail", "edit", "memoryDetail"}
    BY <1>7 DEF Landed, Ended
  <2>2. c.at \notin {"page", "panel"}
    BY <1>1, <1>2, <2>1 DEF Listing, Captured, Paneled
  <2>3. CASE Alert(c)
    BY <2>2, <2>3, AlertKeeps DEF Alert
  <2>4. CASE Show(Detail(c), NoPanel) /\ net' = Overdrawn(net \ {c})
    <3>1. PICK tab \in Tabs, part \in {"failed", "list", "detail", "edit"}, ids \in SUBSET Rows :
            Detail(c) = Content(tab, part, ids)
      <4>1. c.of \in SUBSET Rows /\ Part(c) \in {"failed", "list"}
        BY <1>0 DEF CallOK, CallType, Part
      <4>2. {"stats", "analyze", "raw", "audit", "reviews", "memories"} \subseteq Tabs
        BY DEF Tabs, Captured
      <4> QED
        BY <2>1, <4>1, <4>2 DEF Detail
    <3>2. ScreenInv'
      BY <2>4, <3>1, ScreenShown
    <3> QED
      BY <1>0, <2>4, <3>2, LoseKeeps DEF Overdrawn
  <2> QED
    BY <1>7, <2>3, <2>4 DEF Landed
<1>8. CASE PanelFilled(c)
  <2>1. c.op \in Paneled /\ c.at # "page" /\ net' = net \ {c} /\ view' = view
    BY <1>1, <1>8 DEF PanelFilled, Ended, Paneled, Listing, Captured
  <2>2. CASE c.at # "panel"
    BY <1>8, <2>1, <2>2, AlertKeeps DEF PanelFilled
  <2>3. CASE c.at = "panel"
    <3>1. \E part \in {"list", "failed"} : panel' = [part |-> part, ids |-> c.ids]
      BY <1>8, <2>3 DEF PanelFilled, Part
    <3>2. c.ids \in SUBSET Rows
      BY <1>0, <2>1 DEF CallOK, Paneled
    <3>3. panel' \in PanelType /\ panel'.part # "loading"
      BY <3>1, <3>2 DEF PanelType
    <3>4. LoadingEnds'
      BY <2>1, <3>3 DEF ScreenInv, LoadingEnds
    <3> QED
      BY <1>0, <2>1, <3>3, <3>4 DEF ScreenInv
  <2> QED
    BY <2>2, <2>3
<1>9. CASE MergeTargets(c)
  <2>1. c.at \notin {"page", "panel"} /\ net' = net \ {c} /\ view' = view
    BY <1>1, <1>2, <1>9 DEF MergeTargets, Ended, Listing, Captured, Paneled
  <2>2. CASE panel' = panel
    BY <2>1, <2>2, AlertKeeps
  <2>3. CASE panel' = [part |-> "merge", ids |-> c.of]
    <3>1. panel' \in PanelType /\ panel'.part # "loading"
      BY <1>0, <2>3 DEF PanelType, CallOK, CallType
    <3>2. LoadingEnds'
      BY <2>1, <3>1 DEF ScreenInv, LoadingEnds
    <3> QED
      BY <1>0, <2>1, <3>1, <3>2 DEF ScreenInv
  <2> QED
    BY <1>9, <2>2, <2>3 DEF MergeTargets
<1>10. CASE Changed(c)
  <2>1. c.at \notin {"page", "panel"}
    BY <1>1, <1>2, <1>10 DEF Changed, Ended, Listing, Captured, Paneled
  <2>2. "domains" \in Listing /\ "reviews" \in Listing
    BY DEF Listing, Captured
  <2>3. CASE \E tab \in Listing : LoadListIfThere(tab, net \ {c})
    BY <2>1, <2>3, ListIfThereKeeps
  <2>4. CASE Alert(c)
    BY <2>1, <2>4, AlertKeeps DEF Alert
  <2> QED
    BY <1>10, <2>2, <2>3, <2>4 DEF Changed
<1>11. CASE MemoryDeleted(c)
  <2>1. c.at \notin {"page", "panel"}
    BY <1>1, <1>2, <1>11 DEF MemoryDeleted, Ended, Listing, Captured, Paneled
  <2>2. CASE Alert(c)
    BY <2>1, <2>2, AlertKeeps DEF Alert
  <2>3. CASE Shows("memories", "list") /\ FetchMemoriesTable(net \ {c}) /\ view' = view
    <3>1. view' \in ViewType /\ view'.part # "loading"
      BY <2>3 DEF Shows, ScreenInv
    <3> QED
      BY <1>0, <2>3, <3>1, FetchKeeps
  <2> QED
    BY <1>11, <2>2, <2>3 DEF MemoryDeleted
<1> QED
  BY <1>3, <1>4, <1>5, <1>6, <1>7, <1>8, <1>9, <1>10, <1>11 DEF Answered

-----------------------------------------------------------------------------
(* Steps. *)

LEMMA InitIInv == Init => IInv
<1> SUFFICES ASSUME Init PROVE IInv
  OBVIOUS
<1>1. RestOK
  <2>1. pending \subseteq Items
    BY DEF Init
  <2>2. enabled \in BOOLEAN /\ paused \in BOOLEAN /\ page \in {"none", "onboarding", "paused", "tabs"}
    BY DEF Init
  <2>3. domains \subseteq Domains \cup FreshDomains /\ memories \subseteq Memories
    BY DEF Init
  <2>4. active \in Tabs /\ acts \in 0..MaxActs /\ fails \in 0..MaxFails
    BY BoundsAssumption DEF Init, Tabs
  <2> QED
    BY <2>1, <2>2, <2>3, <2>4 DEF RestOK
<1>2. ScreenInv
  BY DEF Init, ScreenInv, Blank, Content, NoPanel, ViewType, PanelType, Tabs, LoadingEnds
<1>3. Calls({})
  BY FS_EmptySet DEF Calls
<1>4. CASE net = {[Call("status", {}, "later") EXCEPT !.id = 1]}
  <2>1. [Call("status", {}, "later") EXCEPT !.id = 1]
          = [op |-> "status", of |-> {}, at |-> "later", state |-> "sent", ids |-> {}, id |-> 1]
    BY DEF Call
  <2>2. CallOK([op |-> "status", of |-> {}, at |-> "later", state |-> "sent", ids |-> {}, id |-> 1])
    BY DEF CallOK, CallType, Ops, Places, States, Answers
  <2>3. IsFiniteSet(net)
    BY <1>4, FS_Singleton
  <2> QED
    BY <1>1, <1>2, <1>4, <2>1, <2>2, <2>3 DEF IInv, Calls
<1> QED
  BY <1>1, <1>2, <1>3, <1>4 DEF Init, IInv

\* A step of the page: the rows of the server stay.
LEMMA PageStep ==
  ASSUME IInv, UNCHANGED server,
         page' \in {"none", "onboarding", "paused", "tabs"}, active' \in Tabs,
         acts' \in 0..MaxActs, fails' = fails,
         Calls(net') /\ ScreenInv'
  PROVE  IInv'
BY DEF IInv, RestOK, server

LEMMA Facts ==
  ASSUME IInv
  PROVE  /\ Calls(net) /\ ScreenInv /\ RestOK
         /\ page \in {"none", "onboarding", "paused", "tabs"} /\ active \in Tabs
         /\ acts \in 0..MaxActs
         /\ view \in ViewType /\ panel \in PanelType
         /\ Act => acts' \in 0..MaxActs
BY BoundsAssumption DEF IInv, RestOK, ScreenInv, Act

LEMMA PressStep ==
  ASSUME IInv, NEW op \in Ops, NEW of \in SUBSET Rows,
         op = "create" => of \subseteq FreshDomains, Press(op, of)
  PROVE  IInv'
BY Facts, PressKeeps, PageStep DEF Press, screen

LEMMA UserStep == ASSUME IInv, User PROVE IInv'
<1>1. CASE Load
  <2>1. Press("status", {})
    BY <1>1 DEF Load, Press
  <2> QED
    BY <2>1, PressStep DEF Ops
<1>2. CASE EnableKnowledge
  <2>1. Press("enable", {})
    BY <1>2 DEF EnableKnowledge, Press
  <2> QED
    BY <2>1, PressStep DEF Ops
<1>3. ASSUME NEW tab \in Tabs, SwitchTab(tab) PROVE IInv'
  <2>1. Calls(Rendered(net))
    BY Facts, LoseKeeps DEF Rendered
  <2>2. Calls(net') /\ ScreenInv'
    BY <1>3, <2>1, OpenKeeps DEF SwitchTab
  <2> QED
    BY <1>3, <2>2, Facts, PageStep DEF SwitchTab
<1>4. CASE LoadAgain
  <2>1. CASE view.tab \in {"raw", "reviews", "audit"} /\ LoadList(view.tab, net)
    BY <2>1, Facts, LoadListKeeps, <1>4, PageStep DEF LoadAgain, Listing, Captured
  <2>2. CASE LoadMemories(net)
    BY <2>2, Facts, LoadMemoriesKeeps, <1>4, PageStep DEF LoadAgain
  <2>3. CASE Ask(net, Call("departments", {}, "later")) /\ UNCHANGED <<view, panel>>
    <3>1. Press("departments", {})
      BY <1>4, <2>3 DEF LoadAgain, Press, screen
    <3> QED
      BY <3>1, PressStep DEF Ops
  <2> QED
    BY <1>4, <2>1, <2>2, <2>3 DEF LoadAgain
<1>5. CASE ShowDetail
  BY <1>5, PressStep DEF ShowDetail, Ops
<1>6. ASSUME NEW i \in Items, NEW op \in {"approve", "reject", "edit"}, Review(op, i) PROVE IInv'
  BY <1>6, PressStep DEF Review, Ops, Rows
<1>7. ASSUME NEW S \in SUBSET Items, BatchApprove(S) PROVE IInv'
  BY <1>7, PressStep DEF BatchApprove, Ops, Rows
<1>8. CASE SaveReviewEdit
  BY <1>8, Facts, PressStep DEF SaveReviewEdit, Ops, ViewType
<1>9. ASSUME NEW d \in Domains \cup FreshDomains, ConfirmDomain(d) \/ ShowMergeDomain(d) PROVE IInv'
  BY <1>9, PressStep DEF ConfirmDomain, ShowMergeDomain, Ops, Rows
<1>10. CASE MergeDomain
  BY <1>10, Facts, PressStep DEF MergeDomain, Ops, PanelType
<1>11. ASSUME NEW d \in FreshDomains, CreateDomain(d) PROVE IInv'
  BY <1>11, PressStep DEF CreateDomain, Ops, Rows
<1>12. ASSUME NEW part \in {"create", "empty"}, ShowPanel(part) PROVE IInv'
  <2>1. panel' \in PanelType /\ panel'.part # "loading" /\ UNCHANGED <<view, net>>
    BY <1>12 DEF ShowPanel, PanelType
  <2>2. ScreenInv'
    BY <2>1, Facts DEF ScreenInv, LoadingEnds
  <2> QED
    BY <1>12, <2>1, <2>2, Facts, PageStep DEF ShowPanel
<1>13. CASE Run
  <2>1. panel' = [part |-> "loading", ids |-> {}] /\ view' = view
    BY <1>13 DEF Run
  <2>2. (IF view.tab = "domains" THEN "domainStats" ELSE "run") \in Ops \cap Paneled
    BY DEF Ops, Paneled
  <2>3. Calls(net') /\ \E c \in net' : c.at = "panel"
    BY <1>13, <2>2, Facts, AskKeeps DEF Run, Places
  <2>4. view.part # "loading"
    BY <1>13, Facts DEF Run, Shows, ScreenInv, Listing, Captured
  <2>5. ScreenInv'
    BY <2>1, <2>3, <2>4, Facts DEF ScreenInv, PanelType, LoadingEnds
  <2> QED
    BY <1>13, <2>3, <2>5, Facts, PageStep DEF Run
<1>14. ASSUME NEW m \in Memories, NEW op \in {"memoryDetail", "memoryDelete"}, MemoryButton(op, m)
       PROVE IInv'
  BY <1>14, PressStep DEF MemoryButton, Ops, Rows
<1> QED
  BY <1>1, <1>2, <1>3, <1>4, <1>5, <1>6, <1>7, <1>8, <1>9, <1>10, <1>11, <1>12, <1>13, <1>14 DEF User

\* The server's answer takes the place of the call.
LEMMA ReplyKeeps ==
  ASSUME Calls(net), ScreenInv, NEW c \in net, NEW state \in States, NEW ids \in Answers,
         c.op # "status" => ids \subseteq Rows,
         UNCHANGED <<view, panel>>,
         net' = (net \ {c}) \cup {[c EXCEPT !.state = state, !.ids = ids]}
  PROVE  Calls(net') /\ ScreenInv'
<1> DEFINE d == [c EXCEPT !.state = state, !.ids = ids]
<1>1. CallOK(c) /\ c \in CallType
  BY DEF Calls, CallOK
<1>2. d.op = c.op /\ d.of = c.of /\ d.at = c.at /\ d.ids = ids
  BY <1>1 DEF CallType
<1>3. CallOK(d)
  <2>1. d \in CallType
    BY <1>1 DEF CallType
  <2> QED
    BY <1>1, <1>2, <2>1 DEF CallOK
<1>4. Calls(net')
  BY <1>3, FS_RemoveElement, FS_AddElement DEF Calls
<1>5. \A b \in net : \E e \in net' : e.op = b.op /\ e.at = b.at
  BY <1>2
<1> QED
  BY <1>4, <1>5, ScreenKept

LEMMA ServeStep == ASSUME IInv, NEW c \in net, Serve(c) PROVE IInv'
<1>1. CallOK(c)
  BY DEF IInv, Calls
<1>2. c.of \subseteq Rows
  BY <1>1 DEF CallOK, CallType
<1> DEFINE Replied == \E state \in {"ok", "refused"}, ids \in Answers :
             Reply(c, state, ids) /\ (c.op # "status" => ids \subseteq Rows)
<1>3. ASSUME Replied PROVE Calls(net') /\ ScreenInv' /\ UNCHANGED <<page, active, acts, fails>>
  BY <1>3, Facts, ReplyKeeps DEF Reply, screen, States
<1>4. ASSUME Replied, UNCHANGED server PROVE IInv'
  BY <1>3, <1>4, Facts, PageStep
<1>5. CASE ServeRead(c)
  <2>1. Answer(c.op) \in Answers /\ (c.op # "status" => Answer(c.op) \subseteq Rows)
    <3>1. pending \subseteq Rows /\ domains \subseteq Rows /\ memories \subseteq Rows
      BY DEF Rows, IInv, RestOK
    <3>2. CASE c.op = "status"
      BY <3>2 DEF Answer, Answers
    <3>3. CASE c.op # "status"
      BY <3>1, <3>3 DEF Answer, Answers
    <3> QED
      BY <3>2, <3>3
  <2> QED
    BY <1>4, <1>5, <2>1 DEF ServeRead
<1>6. CASE Refuse(c)
  <2>1. {} \in Answers
    BY DEF Answers
  <2> QED
    BY <1>4, <1>6, <2>1 DEF Refuse
<1>7. ASSUME \E state \in {"ok", "refused"} : Reply(c, state, {})
      PROVE Calls(net') /\ ScreenInv' /\ UNCHANGED <<page, active, acts, fails>>
  <2>1. {} \in Answers
    BY DEF Answers
  <2> QED
    BY <1>3, <1>7, <2>1
<1>7a. CASE Locked(c)
  <2>1. {} \in Answers
    BY DEF Answers
  <2> QED
    BY <1>4, <1>7a, <2>1 DEF Locked
<1>8. CASE ServeEnable(c)
  BY <1>7, <1>8 DEF ServeEnable, IInv, RestOK
<1>11. CASE ServeCreate(c)
  <2>1. c.of \subseteq FreshDomains
    BY <1>1, <1>11 DEF ServeCreate, CallOK
  <2> QED
    BY <1>7, <1>11, <2>1 DEF ServeCreate, IInv, RestOK
<1>12. CASE ServeMemoryDelete(c)
  BY <1>7, <1>12 DEF ServeMemoryDelete, IInv, RestOK
<1> QED
  BY <1>5, <1>6, <1>7a, <1>8, <1>11, <1>12 DEF Serve

LEMMA FailStep == ASSUME IInv, NEW c \in net, Fail(c) PROVE IInv'
<1>1. CallOK(c)
  BY DEF IInv, Calls
<1>2. PICK state \in {"failed", "refused"} : net' = (net \ {c}) \cup {[c EXCEPT !.state = state]}
  BY DEF Fail
<1>2a. [c EXCEPT !.state = state] = [c EXCEPT !.state = state, !.ids = c.ids]
  BY <1>1 DEF CallOK, CallType
<1>3. c.ids \in Answers /\ (c.op # "status" => c.ids \subseteq Rows)
  BY <1>1 DEF CallOK, CallType
<1>4. Calls(net') /\ ScreenInv'
  BY <1>2, <1>2a, <1>3, Facts, ReplyKeeps DEF Fail, States, screen
<1>5. fails' \in 0..MaxFails
  BY BoundsAssumption DEF Fail, IInv, RestOK
<1> QED
  BY <1>4, <1>5 DEF Fail, server, screen, IInv, RestOK

LEMMA AnsweredStep == ASSUME IInv, NEW c \in net, Answered(c) PROVE IInv'
<1>1. Calls(net') /\ ScreenInv'
  BY Facts, AnsweredKeeps
<1>2. page' \in {"none", "onboarding", "paused", "tabs"} /\ active' \in Tabs
  BY Facts DEF Answered, StatusKnown, Enabled, Listed, DepartmentsKnown, Landed, PanelFilled,
               MergeTargets, Changed, MemoryDeleted, RenderPage
<1> QED
  BY <1>1, <1>2, Facts, PageStep DEF Answered

LEMMA PauseStep == ASSUME IInv, PauseOrResume PROVE IInv'
<1>1. Calls(net') /\ ScreenInv' /\ acts' \in 0..MaxActs
  BY Facts DEF PauseOrResume, screen, Calls, ScreenInv, LoadingEnds
<1> QED
  BY <1>1 DEF PauseOrResume, screen, IInv, RestOK

LEMMA NextIInv == IInv /\ [Next]_vars => IInv'
<1> SUFFICES ASSUME IInv, [Next]_vars PROVE IInv'
  OBVIOUS
<1>1. CASE UNCHANGED vars
  BY <1>1 DEF vars, IInv, RestOK, ScreenInv, LoadingEnds, Calls
<1>2. CASE Next
  BY <1>2, UserStep, PauseStep, ServeStep, FailStep, AnsweredStep DEF Next
<1> QED
  BY <1>1, <1>2

-----------------------------------------------------------------------------
(* Theorems. *)

\* The state of the page, of its calls and of the rows keeps its types, for any
\* items, domains and memories.
THEOREM KnowledgeTypes == Spec => []TypeOK
BY InitIInv, NextIInv, IInvImplies, PTL DEF Spec

\* A list or panel that says "loading" always has a call under way that writes
\* to that very element, however tabs, details, failures and late answers draw
\* over each other (knowledge.js:215-256, 672-701, 1004-1046).
THEOREM NothingLoadsForever == Spec => []LoadingEnds
BY InitIInv, NextIInv, IInvImplies, PTL DEF Spec

=============================================================================
