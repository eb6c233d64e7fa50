------------------------------ MODULE TeamPage ------------------------------
(***************************************************************************)
(* The team page of the admin console (static/js/team.js) over the         *)
(* organisations and members in wr_orgs and wr_tokens (routes/team.py).    *)
(*                                                                         *)
(* The page shows the tree of organisations and the members of the         *)
(* selected one; its modals are part of index.html and live as long as the *)
(* tab.  Some ids of the member form (tf-name, tf-models-select,           *)
(* tf-enabled) are also the ids of inputs that the token page writes into  *)
(* its own container, which comes first in the document: once that page    *)
(* has been drawn, getElementById finds its inputs and not the visible     *)
(* ones.  inputs holds both sets.                                          *)
(*                                                                         *)
(* A route reads the rows it checks in one step and commits in another.    *)
(***************************************************************************)
EXTENDS Naturals, FiniteSets

CONSTANTS
  Orgs, FreshOrgs,       \* organisations there at start, and ids for new ones
  Members, FreshMembers, \* the same for members
  Parent,                \* the parents at start: Orgs -> Orgs \cup {None}
  Seat,                  \* the organisations of the members at start
  Models,
  None,
  MaxActs,               \* bound: calls the user starts
  MaxFails               \* bound: calls that fail

AllOrgs    == Orgs \cup FreshOrgs
AllMembers == Members \cup FreshMembers

ASSUME IdsAssumption ==
  /\ Orgs \cap FreshOrgs = {} /\ Members \cap FreshMembers = {}
  /\ None \notin AllOrgs \cup AllMembers
  /\ Parent \in [Orgs -> Orgs \cup {None}] /\ Seat \in [Members -> Orgs]
ASSUME BoundsAssumption == MaxActs \in Nat /\ MaxFails \in Nat

VARIABLES
  orgs,      \* wr_orgs: id -> [there, parent]
  members,   \* wr_tokens: id -> [there, name, org, models, enabled]
  tree,      \* this.orgTree: its nodes, as rows
  flat,      \* this.orgsFlat
  allModels, \* this.allModels
  selected,  \* this.selectedOrgId, or None
  listed,    \* this.members: [org asked for, rows]
  orgForm,   \* the organisation modal, with this.editingOrgId
  memberForm,\* the member modal, with this.editingMemberId
  moveDialog,\* the member whose move dialog is open, or None
  inputs,    \* the inputs with shared ids, of the team and the token page
  tokensDrawn, \* the token page has drawn its form before
  net, sent, acts, fails,
  newest,    \* history: the latest member list answered
  late,      \* history: a member list was overtaken, failed or not asked for
  raced,     \* history: an organisation was deleted under another call's check
  borrowed   \* history: the token page filled its form under an open member form

vars == <<orgs, members, tree, flat, allModels, selected, listed, orgForm,
          memberForm, moveDialog, inputs, tokensDrawn, net, sent, acts, fails,
          newest, late, raced, borrowed>>

rows   == <<orgs, members>>
forms  == <<orgForm, memberForm, moveDialog, inputs, tokensDrawn>>
lists  == <<tree, flat, allModels, selected, listed>>
ghosts == <<newest, late, raced, borrowed>>

Typed  == "typed"    \* a name the user has typed
Empty  == ""
Names  == AllMembers \cup {Typed, Empty}
Place  == AllOrgs \cup {None}
Org    == [there : BOOLEAN, parent : Place]
Member == [there : BOOLEAN, name : Names, org : Place, models : SUBSET Models,
           enabled : BOOLEAN]
NoOrg    == [there |-> FALSE, parent |-> None]
NoMember == [there |-> FALSE, name |-> Empty, org |-> None, models |-> {}, enabled |-> FALSE]

NoOrgs   == [o \in AllOrgs |-> NoOrg]
NoMembers == [m \in AllMembers |-> NoMember]

ThereOrgs(db) == {o \in AllOrgs : db[o].there}

(***************************************************************************)
(* What routes/team.py finds on its walks down the parent links: the least *)
(* set that holds S and the organisations whose parent it holds.           *)
(***************************************************************************)
Below(db, S) ==
  {o \in AllOrgs : \A C \in SUBSET AllOrgs :
     (S \subseteq C /\ \A x \in ThereOrgs(db) : db[x].parent \in C => x \in C) => o \in C}

Children(db, o) == {x \in ThereOrgs(db) : db[x].parent = o}

\* org_tree: what hangs below an organisation without a parent.
TreeOf(db) ==
  LET shown == Below(db, Children(db, None)) IN
  [o \in AllOrgs |-> IF o \in shown THEN db[o] ELSE NoOrg]

\* _get_child_org_ids does not end when it meets a cycle.
Endless(db, o) == \E x \in Below(db, {o}) : x \in Below(db, Children(db, x))

(***************************************************************************)
(* Calls.  who: the row of the path; place: the organisation sent or asked *)
(* for; data: the member's fields; seen: what the visible form showed;     *)
(* follow: load the members after the load that this call is part of.      *)
(***************************************************************************)
Writes == {"postOrg", "putOrg", "delOrg", "postMember", "putMember", "delMember",
           "move", "batch", "import"}

Call(n, op, who, place) ==
  [id |-> n, op |-> op, who |-> who, place |-> place, data |-> NoMember,
   seen |-> NoMember, follow |-> FALSE, state |-> "sent", orgs |-> NoOrgs, rows |-> NoMembers]

Ask(calls, c) == net' = calls \cup {c} /\ sent' = sent + 1
Done(c)       == net' = net \ {c} /\ UNCHANGED sent

\* TeamPage.load: the tree, the list of organisations and the providers, as one
\* call: one answer is of one moment.
AskLoad(calls, follow) ==
  Ask(calls, [Call(sent + 1, "load", None, None) EXCEPT !.follow = follow])

Act == acts < MaxActs /\ acts' = acts + 1

(***************************************************************************)
(* The shared inputs: those that getElementById finds.                     *)
(***************************************************************************)
Inputs  == [name : Names, models : SUBSET Models, boxes : SUBSET Models, enabled : BOOLEAN]
Blank   == [name |-> Empty, models |-> {}, boxes |-> {}, enabled |-> TRUE]
Found   == IF tokensDrawn THEN "tokens" ELSE "team"

\* A modal: the row edited, or None for a new one, and the organisation chosen.
NoForm  == [shown |-> FALSE, editing |-> None, org |-> None]

(***************************************************************************)
(* The page has been loaded, and any of the three calls may have failed.   *)
(***************************************************************************)
Init ==
  /\ orgs = [o \in AllOrgs |-> IF o \in Orgs THEN [there |-> TRUE, parent |-> Parent[o]]
                               ELSE NoOrg]
  /\ members = [m \in AllMembers |->
                  IF m \in Members THEN [there |-> TRUE, name |-> m, org |-> Seat[m],
                                        models |-> Models, enabled |-> TRUE]
                  ELSE NoMember]
  /\ tree \in {NoOrgs, orgs} /\ flat \in {{}, Orgs} /\ allModels \in {{}, Models}
  /\ selected = None
  /\ listed = [org |-> None, rows |-> NoMembers]
  /\ orgForm = NoForm /\ memberForm = NoForm /\ moveDialog = None
  /\ inputs = [w \in {"team", "tokens"} |-> Blank]
  /\ tokensDrawn \in BOOLEAN
  /\ net = {} /\ sent = 0
  /\ acts = 0 /\ fails = 0
  /\ newest = 0 /\ late = FALSE /\ raced = FALSE /\ borrowed = FALSE

\* A modal covers the buttons of the page.
Uncovered == ~orgForm.shown /\ ~memberForm.shown /\ moveDialog = None

(***************************************************************************)
(* Loading and choosing.                                                   *)
(***************************************************************************)
\* The router shows the page again; its modals and its selection are as left.
Load ==
  /\ Act
  /\ AskLoad(net, FALSE)
  /\ UNCHANGED <<rows, forms, lists, ghosts, fails>>

\* loadTree, loadOrgs and loadProviders; a failure keeps the old lists.  A save
\* goes on to loadMembers.
LoadAnswered(c) ==
  /\ c.op = "load" /\ c.state \in {"ok", "failed"}
  /\ IF c.state = "ok"
     THEN tree' = TreeOf(c.orgs) /\ flat' = ThereOrgs(c.orgs) /\ allModels' = Models
     ELSE UNCHANGED <<tree, flat, allModels>>
  /\ IF c.follow /\ selected # None
     THEN Ask(net \ {c}, Call(sent + 1, "members", selected, None))
     ELSE Done(c)
  /\ UNCHANGED <<rows, forms, selected, listed, ghosts, acts, fails>>

\* A slip: the node of the tree is kept in place of its id.
SelectOrgNode(o) ==
  /\ tree[o].there /\ Uncovered /\ Act
  /\ selected' = tree[o]
  /\ Ask(net, Call(sent + 1, "members", o, None))
  /\ UNCHANGED <<rows, forms, tree, flat, allModels, listed, ghosts, fails>>

\* selectOrg
SelectOrg(o) ==
  /\ tree[o].there /\ Uncovered /\ Act
  /\ selected' = o
  /\ Ask(net, Call(sent + 1, "members", o, None))
  /\ UNCHANGED <<rows, forms, tree, flat, allModels, listed, ghosts, fails>>

\* loadMembers: the answer is shown under the title of whatever is selected.
MembersAnswered(c) ==
  /\ c.op = "members" /\ c.state \in {"ok", "failed"}
  /\ listed' = IF c.state = "ok" THEN [org |-> c.who, rows |-> c.rows] ELSE listed
  /\ newest' = IF c.id > newest THEN c.id ELSE newest
  /\ late' = (late \/ c.id < newest \/ c.state = "failed")
  /\ Done(c)
  /\ UNCHANGED <<rows, forms, tree, flat, allModels, selected, raced, borrowed, acts,
                 fails>>

(***************************************************************************)
(* Organisations.                                                          *)
(***************************************************************************)
\* showOrgForm for a node of the tree: every organisation but itself can be
\* chosen as parent, and the top level is when the parent is not in the list.
EditOrg(o) ==
  /\ tree[o].there /\ Uncovered
  /\ orgForm' = [shown |-> TRUE, editing |-> o,
                 org |-> IF tree[o].parent \in flat \ {o} THEN tree[o].parent ELSE None]
  /\ UNCHANGED <<rows, memberForm, moveDialog, inputs, tokensDrawn, lists, ghosts, net,
                 sent, acts, fails>>

\* The button for a new organisation, and addChildOrg, whose timer of 50 ms
\* chooses the parent before the user can do anything else.
AddOrg(p) ==
  /\ p \in ThereOrgs(tree) \cup {None}
  /\ Uncovered
  /\ orgForm' = [shown |-> TRUE, editing |-> None, org |-> IF p \in flat THEN p ELSE None]
  /\ UNCHANGED <<rows, memberForm, moveDialog, inputs, tokensDrawn, lists, ghosts, net,
                 sent, acts, fails>>

HideOrgForm ==
  /\ orgForm.shown
  /\ orgForm' = NoForm
  /\ UNCHANGED <<rows, memberForm, moveDialog, inputs, tokensDrawn, lists, ghosts, net,
                 sent, acts, fails>>

\* submitOrgForm, with the parent as shown or another one chosen.
SubmitOrgForm(p) ==
  /\ orgForm.shown /\ Act
  /\ p \in (flat \ {orgForm.editing}) \cup {None, orgForm.org}
  /\ orgForm' = [orgForm EXCEPT !.org = p]
  /\ Ask(net, Call(sent + 1, IF orgForm.editing # None THEN "putOrg" ELSE "postOrg",
                   orgForm.editing, p))
  /\ UNCHANGED <<rows, memberForm, moveDialog, inputs, tokensDrawn, lists, ghosts, fails>>

\* Saved: the modal is closed and everything loaded again.
OrgSaved(c) ==
  /\ c.op \in {"putOrg", "postOrg"} /\ c.state = "ok"
  /\ orgForm' = NoForm
  /\ AskLoad(net \ {c}, TRUE)
  /\ UNCHANGED <<rows, memberForm, moveDialog, inputs, tokensDrawn, lists, ghosts, acts,
                 fails>>

DeleteOrg(o) ==
  /\ tree[o].there /\ Uncovered /\ Act
  /\ Ask(net, Call(sent + 1, "delOrg", o, None))
  /\ UNCHANGED <<rows, forms, lists, ghosts, fails>>

OrgDeleted(c) ==
  /\ c.op = "delOrg" /\ c.state = "ok"
  /\ selected' = IF selected = c.who THEN None ELSE selected
  /\ AskLoad(net \ {c}, FALSE)
  /\ UNCHANGED <<rows, forms, tree, flat, allModels, listed, ghosts, acts, fails>>

(***************************************************************************)
(* Members.                                                                *)
(***************************************************************************)
\* _renderModelSelect into the inputs found: models is what the picker sends.
Picker(i, chosen) == [i EXCEPT !.boxes = allModels, !.models = chosen \cap allModels]

\* A slip: a form for a new member starts as the last one was.
ShowMemberFormAsLeft(m) ==
  LET row == IF m = None THEN NoMember ELSE listed.rows[m]
      org == IF m = None THEN selected ELSE row.org
  IN
  /\ m # None => row.there
  /\ Uncovered
  /\ memberForm' = [shown |-> TRUE, editing |-> m, org |-> IF org \in flat THEN org ELSE None]
  /\ inputs' = IF m = None THEN inputs
               ELSE [inputs EXCEPT ![Found] = Picker([@ EXCEPT !.name = row.name,
                                                               !.enabled = row.enabled],
                                                     row.models)]
  /\ UNCHANGED <<rows, orgForm, moveDialog, tokensDrawn, lists, ghosts, net, sent, acts, fails>>

\* showMemberForm for a member of the list, or for a new one.
ShowMemberForm(m) ==
  LET row == IF m = None THEN NoMember ELSE listed.rows[m]
      org == IF m = None THEN selected ELSE row.org
  IN
  /\ m # None => row.there
  /\ Uncovered
  /\ memberForm' = [shown |-> TRUE, editing |-> m, org |-> IF org \in flat THEN org ELSE None]
  /\ inputs' = [inputs EXCEPT ![Found] =
                  Picker([@ EXCEPT !.name = row.name, !.enabled = (m = None \/ row.enabled)],
                         row.models)]
  /\ UNCHANGED <<rows, orgForm, moveDialog, tokensDrawn, lists, ghosts, net, sent, acts, fails>>

\* The token page draws itself, with its form empty: its list can be answered
\* whatever page is shown.
TokenPageDrawn ==
  /\ inputs' = [inputs EXCEPT !["tokens"] = Blank]
  /\ tokensDrawn' = TRUE
  /\ UNCHANGED <<rows, orgForm, memberForm, moveDialog, lists, ghosts, net, sent, acts, fails>>

\* editToken of the token page: members are tokens.  The browser's history leads
\* there and back under a member form that is open, which stays as it was.
TokenFormFilled(m) ==
  /\ tokensDrawn /\ members[m].there /\ Act
  /\ inputs' = [inputs EXCEPT !["tokens"] =
                  [name |-> members[m].name, models |-> members[m].models, boxes |-> Models,
                   enabled |-> members[m].enabled]]
  /\ borrowed' = (borrowed \/ memberForm.shown)
  /\ UNCHANGED <<rows, orgForm, memberForm, moveDialog, tokensDrawn, lists, newest, late,
                 raced, net, sent, fails>>

HideMemberForm ==
  /\ memberForm.shown
  /\ memberForm' = NoForm
  /\ UNCHANGED <<rows, orgForm, moveDialog, inputs, tokensDrawn, lists, ghosts, net, sent,
                 acts, fails>>

\* What the user makes of the visible inputs of a form: a name typed, and the
\* switch turned or models picked.
Filled(i) == {[i EXCEPT !.name = n] : n \in {i.name, Typed}}
               \cup {[i EXCEPT !.name = Typed, !.enabled = ~@]}
               \cup {[i EXCEPT !.models = s] : s \in SUBSET i.boxes}

\* The record of submitMemberForm: the name and the switch that are found.  An
\* empty selection of models is left out, which models |-> {} stands for.
MemberData(i, p) == [there |-> TRUE, name |-> i.name, org |-> p,
                     models |-> i.models, enabled |-> i.enabled]

\* submitMemberForm: the browser insists on the visible name, the code on the
\* name it finds.
SubmitMemberForm(p, i) ==
  /\ memberForm.shown /\ Act
  /\ p \in flat \cup {None, memberForm.org}
  /\ memberForm' = [memberForm EXCEPT !.org = p]
  /\ inputs' = [inputs EXCEPT !["team"] = i]
  /\ i.name # Empty /\ inputs'[Found].name # Empty
  /\ Ask(net, [Call(sent + 1, IF memberForm.editing # None THEN "putMember" ELSE "postMember",
                    memberForm.editing, p)
               EXCEPT !.data = MemberData(inputs'[Found], p), !.seen = MemberData(i, p)])
  /\ UNCHANGED <<rows, orgForm, moveDialog, tokensDrawn, lists, ghosts, fails>>

\* A slip: the members are not loaded again.
MemberSavedQuietly(c) ==
  /\ c.op \in {"putMember", "postMember"} /\ c.state = "ok"
  /\ memberForm' = NoForm
  /\ AskLoad(net \ {c}, FALSE)
  /\ UNCHANGED <<rows, orgForm, moveDialog, inputs, tokensDrawn, lists, ghosts, acts, fails>>

\* Saved: the modal closes, and with it the key that was just written into it.
MemberSaved(c) ==
  /\ c.op \in {"putMember", "postMember"} /\ c.state = "ok"
  /\ memberForm' = NoForm
  /\ AskLoad(net \ {c}, TRUE)
  /\ UNCHANGED <<rows, orgForm, moveDialog, inputs, tokensDrawn, lists, ghosts, acts, fails>>

\* removeMember, confirmed.
RemoveMember(m) ==
  /\ listed.rows[m].there /\ Uncovered /\ Act
  /\ Ask(net, Call(sent + 1, "delMember", m, None))
  /\ UNCHANGED <<rows, forms, lists, ghosts, fails>>

\* loadMembers for the organisation selected now.  The loadTree beside it draws
\* the same nodes, as moves and removals change none.
Reload(calls) ==
  IF selected # None THEN Ask(calls, Call(sent + 1, "members", selected, None))
  ELSE net' = calls /\ UNCHANGED sent

MemberRemoved(c) ==
  /\ c.op = "delMember" /\ c.state = "ok"
  /\ Reload(net \ {c})
  /\ UNCHANGED <<rows, forms, lists, ghosts, acts, fails>>

ShowMoveDialog(m) ==
  /\ listed.rows[m].there /\ Uncovered
  /\ moveDialog' = m
  /\ UNCHANGED <<rows, orgForm, memberForm, inputs, tokensDrawn, lists, ghosts, net, sent,
                 acts, fails>>

CloseMoveDialog ==
  /\ moveDialog # None
  /\ moveDialog' = None
  /\ UNCHANGED <<rows, orgForm, memberForm, inputs, tokensDrawn, lists, ghosts, net, sent,
                 acts, fails>>

MoveMember(p) ==
  /\ moveDialog # None /\ p \in flat \cup {None} /\ Act
  /\ Ask(net, Call(sent + 1, "move", moveDialog, p))
  /\ UNCHANGED <<rows, forms, lists, ghosts, fails>>

\* The dialog that is open now is removed; with none open remove() throws, and
\* nothing is loaded.
Moved(c) ==
  /\ c.op = "move" /\ c.state = "ok"
  /\ moveDialog' = None
  /\ IF moveDialog # None THEN Reload(net \ {c}) ELSE Done(c)
  /\ late' = (late \/ moveDialog = None)
  /\ UNCHANGED <<rows, orgForm, memberForm, inputs, tokensDrawn, lists, newest, raced,
                 borrowed, acts, fails>>

\* submitBatchImport, of one line: into the selected organisation, or into the
\* one that is named, new (None) or not.
BatchImport ==
  /\ Uncovered /\ Act
  /\ \/ selected # None /\ Ask(net, Call(sent + 1, "batch", None, selected))
     \/ \E p \in Place : Ask(net, Call(sent + 1, "import", None, p))
  /\ UNCHANGED <<rows, forms, lists, ghosts, fails>>

BatchDone(c) ==
  /\ c.op \in {"batch", "import"} /\ c.state = "ok"
  /\ AskLoad(net \ {c}, TRUE)
  /\ UNCHANGED <<rows, forms, lists, ghosts, acts, fails>>

\* Any write that failed: a message, and the page stays.
CallFailed(c) ==
  /\ c.op \in Writes /\ c.state = "failed"
  /\ Done(c)
  /\ UNCHANGED <<rows, forms, lists, ghosts, acts, fails>>

(***************************************************************************)
(* The server.                                                             *)
(***************************************************************************)
Reply(c, r) == net' = (net \ {c}) \cup {r} /\ UNCHANGED <<forms, lists, sent, acts>>

Known(p) == p = None \/ orgs[p].there
Empties(o) == Children(orgs, o) = {} /\ \A m \in AllMembers : members[m].org # o

\* A slip: the organisation to put something into is not looked up.
AllowedAnywhere(c) ==
  /\ c.op = "putOrg" => orgs[c.who].there /\ c.place # c.who
  /\ c.op = "delOrg" => orgs[c.who].there /\ Empties(c.who)

\* What the routes check before they write.
Allowed(c) ==
  /\ c.op \in {"putOrg", "postOrg", "putMember", "postMember", "move"} => Known(c.place)
  /\ c.op = "putOrg" => orgs[c.who].there /\ c.place # c.who
  /\ c.op = "delOrg" => orgs[c.who].there /\ Empties(c.who)

\* A row or a place that is missing is an error.  A batch looks its place up:
\* None is, from here on, an organisation to be created.
Check(c) ==
  /\ c.op \in Writes /\ c.state = "sent"
  /\ Reply(c, [c EXCEPT !.state = IF Allowed(c) THEN "checked" ELSE "failed",
                        !.place = IF c.op = "import" /\ ~Known(@) THEN None ELSE @])
  /\ UNCHANGED <<rows, ghosts, fails>>

\* The commit, in a step of its own.
Commit(c, os, ms) ==
  /\ c.state = "checked"
  /\ orgs' = os /\ members' = ms
  /\ Reply(c, [c EXCEPT !.state = "ok"])
  /\ UNCHANGED <<newest, late, borrowed, fails>>

CommitOrg(c) ==
  /\ c.op \in {"putOrg", "postOrg"}
  /\ \E o \in {x \in AllOrgs : IF c.op = "putOrg" THEN x = c.who /\ orgs[x].there
                               ELSE x \in FreshOrgs /\ ~orgs[x].there} :
       Commit(c, [orgs EXCEPT ![o] = [there |-> TRUE, parent |-> c.place]], members)
  /\ UNCHANGED raced

\* The relationships of Org detach what is below a deleted organisation by then.
CommitOrgDeletion(c) ==
  /\ c.op = "delOrg" /\ orgs[c.who].there
  /\ Commit(c, [o \in AllOrgs |-> IF o = c.who THEN NoOrg
                                  ELSE IF orgs[o].parent = c.who THEN [orgs[o] EXCEPT !.parent = None]
                                  ELSE orgs[o]],
               [m \in AllMembers |-> IF members[m].org = c.who
                                     THEN [members[m] EXCEPT !.org = None] ELSE members[m]])
  /\ raced' = (raced \/ ~Empties(c.who)
                     \/ \E d \in net : d.state = "checked" /\ d.place = c.who)

\* The organisation was deleted since the check: the write finds no row.
OrgGone(c) ==
  /\ c.op \in {"putOrg", "delOrg"} /\ c.state = "checked" /\ ~orgs[c.who].there
  /\ Reply(c, [c EXCEPT !.state = "failed"])
  /\ UNCHANGED <<rows, ghosts, fails>>

\* update_member: the fields sent; models only when some were.
Updated(row, data) ==
  [data EXCEPT !.models = IF data.models # {} THEN data.models ELSE row.models]

Changed(c) ==
  LET row == members[c.who] IN
  CASE c.op = "putMember" -> Updated(row, c.data)
    [] c.op = "move"      -> [row EXCEPT !.org = c.place]
    [] c.op = "delMember" -> [row EXCEPT !.enabled = FALSE]

CommitMember(c) ==
  /\ c.op \in {"putMember", "move", "delMember"}
  /\ Commit(c, orgs, [members EXCEPT ![c.who] = Changed(c)])
  /\ UNCHANGED raced

Imported(p) == [there |-> TRUE, name |-> Typed, org |-> p, models |-> {}, enabled |-> TRUE]

CommitNewMember(c) ==
  /\ c.op \in {"postMember", "batch", "import"}
  /\ \E m \in FreshMembers :
       /\ ~members[m].there
       /\ \/ /\ c.op = "postMember"
             /\ Commit(c, orgs, [members EXCEPT ![m] = c.data])
          \/ /\ c.op = "batch" /\ ~Known(c.place)
             /\ Commit(c, orgs, members)
          \/ /\ c.op # "postMember" /\ c.place # None /\ (c.op = "batch" => Known(c.place))
             /\ Commit(c, orgs, [members EXCEPT ![m] = Imported(c.place)])
          \/ /\ c.op = "import" /\ c.place = None
             /\ \E o \in FreshOrgs :
                  /\ ~orgs[o].there
                  /\ Commit(c, [orgs EXCEPT ![o] = [there |-> TRUE, parent |-> None]],
                            [members EXCEPT ![m] = Imported(o)])
  /\ UNCHANGED raced

\* What org_members answers for o.
MembersOf(o) == [m \in AllMembers |-> IF members[m].there /\ members[m].org \in Below(orgs, {o})
                                      THEN members[m] ELSE NoMember]

\* The reads.  The walk down from an organisation in a cycle does not end.
ServeRead(c) ==
  /\ c.op \notin Writes /\ c.state = "sent"
  /\ \/ /\ c.op = "load"
        /\ Reply(c, [c EXCEPT !.state = "ok", !.orgs = orgs])
     \/ /\ c.op = "members"
        /\ Reply(c, IF Endless(orgs, c.who) THEN [c EXCEPT !.state = "failed"]
                    ELSE [c EXCEPT !.state = "ok", !.rows = MembersOf(c.who)])
  /\ UNCHANGED <<rows, ghosts, fails>>

\* A call fails before the server sees it, or its answer is lost.
Fail(c) ==
  /\ c.state \in {"sent", "ok"} /\ fails < MaxFails
  /\ Reply(c, [c EXCEPT !.state = "failed"])
  /\ fails' = fails + 1
  /\ late' = (late \/ (c.op \in Writes /\ c.state = "ok"))
  /\ UNCHANGED <<rows, newest, raced, borrowed>>

Served(c) ==
  \/ Check(c)
  \/ CommitOrg(c)
  \/ CommitOrgDeletion(c)
  \/ OrgGone(c)
  \/ CommitMember(c)
  \/ CommitNewMember(c)
  \/ ServeRead(c)

Answered(c) ==
  \/ LoadAnswered(c)
  \/ MembersAnswered(c)
  \/ OrgSaved(c)
  \/ OrgDeleted(c)
  \/ MemberSaved(c)
  \/ MemberRemoved(c)
  \/ Moved(c)
  \/ BatchDone(c)
  \/ CallFailed(c)

Next ==
  \/ Load
  \/ \E o \in AllOrgs : SelectOrg(o) \/ EditOrg(o) \/ DeleteOrg(o)
  \/ \E p \in Place : AddOrg(p) \/ SubmitOrgForm(p) \/ MoveMember(p)
  \/ HideOrgForm
  \/ \E m \in AllMembers \cup {None} : ShowMemberForm(m)
  \/ TokenPageDrawn
  \/ HideMemberForm
  \/ \E p \in Place, i \in Filled(inputs["team"]) : SubmitMemberForm(p, i)
  \/ \E m \in AllMembers : RemoveMember(m) \/ ShowMoveDialog(m) \/ TokenFormFilled(m)
  \/ CloseMoveDialog
  \/ BatchImport
  \/ \E c \in net : Served(c) \/ Fail(c) \/ Answered(c)

Spec == Init /\ [][Next]_vars

-----------------------------------------------------------------------------
(***************************************************************************)
(* Properties                                                              *)
(***************************************************************************)
FormType == [shown : BOOLEAN, editing : AllOrgs \cup AllMembers \cup {None}, org : Place]

CallType == [id : 1..sent, op : Writes \cup {"load", "members"},
             who : AllOrgs \cup AllMembers \cup {None}, place : Place,
             data : Member, seen : Member, follow : BOOLEAN,
             state : {"sent", "checked", "ok", "failed"},
             orgs : [AllOrgs -> Org], rows : [AllMembers -> Member]]

\* Types of the rows, of the page and of the calls under way.
TypeOK ==
  /\ orgs \in [AllOrgs -> Org] /\ members \in [AllMembers -> Member]
  /\ tree \in [AllOrgs -> Org] /\ flat \subseteq AllOrgs /\ allModels \subseteq Models
  /\ selected \in Place
  /\ listed \in [org : Place, rows : [AllMembers -> Member]]
  /\ orgForm \in FormType /\ memberForm \in FormType
  /\ orgForm.editing \in Place /\ memberForm.editing \in AllMembers \cup {None}
  /\ moveDialog \in AllMembers \cup {None}
  /\ inputs \in [{"team", "tokens"} -> Inputs] /\ tokensDrawn \in BOOLEAN
  /\ net \subseteq CallType /\ sent \in Nat
  /\ acts \in 0..MaxActs /\ fails \in 0..MaxFails
  /\ newest \in 0..sent /\ late \in BOOLEAN /\ raced \in BOOLEAN /\ borrowed \in BOOLEAN

\* No member and no organisation points at an organisation that is gone, unless
\* a deletion and another call overlapped between check and commit
\* (team.py:218-222, 245-248, 317-321, 387-392, 458-461).
NoOrphans ==
  ~raced => /\ \A m \in AllMembers : members[m].there => Known(members[m].org)
            /\ \A o \in AllOrgs : orgs[o].there => Known(orgs[o].parent)

\* No row takes over the name of another: a member keeps its name or gets one
\* that was typed, and a new one gets one that was typed, although the code may
\* find inputs of the token page that hold another token's name or, drawn late,
\* none (team.js:307-314, 358-360; tokens.js:359).  Excepted is a member form
\* under which the token page filled its own.  What is typed or chosen in the
\* visible form may be lost all the same: see SentAsShown.
NoNameTakenOver ==
  ~borrowed => /\ \A m \in Members : members[m].name \in {m, Typed}
               /\ \A m \in FreshMembers : members[m].there => members[m].name = Typed

\* The same without the exception.
NamesStay ==
  /\ \A m \in Members : members[m].name \in {m, Typed}
  /\ \A m \in FreshMembers : members[m].there => members[m].name = Typed

\* With nothing under way the list is that of the organisation selected, with
\* its rows as they are: each write is followed by a load, in whatever order the
\* answers came, unless a list was overtaken, failed or was not asked for.
MembersOfSelected ==
  net = {} /\ ~late /\ ~raced /\ selected # None
    => listed = [org |-> selected, rows |-> MembersOf(selected)]

\* team.py:135 "returns the whole tree of organisations": there is none that
\* the tree does not show.
TreeShowsEveryOrg == \A o \in AllOrgs : TreeOf(orgs)[o] = orgs[o]

\* README.zh-CN.md:67 "invite members, assign quota, restrict models": what the
\* form sends is what it shows.
SentAsShown ==
  \A c \in net : c.op \in {"putMember", "postMember"} => c.data = c.seen
=============================================================================
