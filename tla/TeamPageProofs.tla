--------------------------- MODULE TeamPageProofs ---------------------------
(***************************************************************************)
(* Proofs about TeamPage, for any organisations, members and models, any   *)
(* tree of organisations at the start and any bounds.                      *)
(***************************************************************************)
EXTENDS TeamPage, TLAPS

-----------------------------------------------------------------------------
(* The inductive invariant, in named parts. *)

\* The fields of a call that its operation decides.
Fits(c) ==
  /\ c.op \in {"putMember", "move", "delMember"} => c.who \in AllMembers
  /\ c.op \in {"putOrg", "delOrg", "members"} => c.who \in AllOrgs
  /\ c.op \in {"putMember", "postMember"} => c.data.org = c.place
  /\ c.op \notin Writes => c.state # "checked"

\* Every call under way fits its operation, and has an id of its own.
CallInv ==
  /\ \A c \in net : Fits(c)
  /\ \A c, d \in net : c.id = d.id => c = d

\* A write that puts something below an organisation looked it up; no deletion
\* that was committed since took it away.
Placing == {"putOrg", "postOrg", "putMember", "postMember", "move", "import"}
OrphanInv ==
  /\ NoOrphans
  /\ ~raced => \A c \in net : c.op \in Placing /\ c.state = "checked" => Known(c.place)

\* The name of member m as it was, or as the user typed it; of a new member.
OwnName(m, n) == borrowed \/ IF m \in Members THEN n \in {m, Typed} ELSE n = Typed
NewName(n) == borrowed \/ n = Typed
OwnRows(ms) == \A m \in AllMembers : ms[m].there => OwnName(m, ms[m].name)
OwnNames(c) ==
  /\ OwnRows(c.rows)
  /\ c.op = "putMember" => OwnName(c.who, c.data.name)
  /\ c.op = "postMember" => NewName(c.data.name)

\* The name that the code finds in a form that is open: a drawn token page
\* empties it.
FormName(m, n) == n = Empty \/ IF m = None THEN NewName(n) ELSE OwnName(m, n)

\* The names that the rows, the list, the form and the calls hold.
NameInv ==
  /\ NoNameTakenOver
  /\ OwnRows(listed.rows)
  /\ \A c \in net : OwnNames(c)
  /\ memberForm.shown => FormName(memberForm.editing, inputs[Found].name)

\* Calls whose answer has the members loaded again, and calls that load them.
Renewing(c) ==
  \/ c.op = "load" /\ c.follow
  \/ c.op \in Writes \ {"delOrg"} /\ c.state = "ok"
Lists(calls) == {c \in calls : c.op = "members"}

\* The list shown will be loaded again, or one of its answers is too late or has
\* failed, or the latest one asked for brings the rows ms of the organisation
\* org, or they are shown.
Current(calls, latest, shown, org, ms) ==
  \/ \E c \in calls : Renewing(c)
  \/ \E c \in Lists(calls) : c.id < latest \/ c.state = "failed"
  \/ \E c \in Lists(calls) :
       /\ c.who = org
       /\ c.state = "sent" \/ c.rows = ms
       /\ \A d \in Lists(calls) : d.id <= c.id
  \/ Lists(calls) = {} /\ shown = [org |-> org, rows |-> ms]

CurrentInv ==
  ~late /\ ~raced /\ selected # None =>
    Current(net, newest, listed, selected, MembersOf(selected))

IInv == TypeOK /\ CallInv /\ OrphanInv /\ NameInv /\ CurrentInv

-----------------------------------------------------------------------------
(* Calls: their types, and what is true of one that was just made. *)

Person == AllOrgs \cup AllMembers \cup {None}
Ops == Writes \cup {"load", "members"}
CallsUpTo(n) ==
  [id : 1..n, op : Ops, who : Person, place : Place, data : Member, seen : Member,
   follow : BOOLEAN, state : {"sent", "checked", "ok", "failed"},
   orgs : [AllOrgs -> Org], rows : [AllMembers -> Member]]

\* A call that is made now.
Posted(c) ==
  /\ c \in CallsUpTo(sent + 1) /\ c.id = sent + 1
  /\ c.state = "sent"
  /\ Fits(c) /\ OwnNames(c)

LEMMA Blanks ==
  /\ NoOrg \in Org /\ NoMember \in Member
  /\ NoOrgs \in [AllOrgs -> Org] /\ NoMembers \in [AllMembers -> Member]
  /\ OwnRows(NoMembers)
<1>1. NoOrg \in Org
  BY DEF NoOrg, Org, Place
<1>2. NoMember \in Member
  BY DEF NoMember, Member, Place, Names
<1>3. OwnRows(NoMembers)
  BY DEF OwnRows, NoMembers, NoMember
<1> QED
  BY <1>1, <1>2, <1>3 DEF NoOrgs, NoMembers

\* A call with nothing in it but its operation, its row and its place.
LEMMA PlainCall ==
  ASSUME sent \in Nat, NEW op \in Ops \ {"putMember", "postMember"},
         NEW who \in Person, NEW place \in Place, NEW f \in BOOLEAN,
         op \in {"move", "delMember"} => who \in AllMembers,
         op \in {"putOrg", "delOrg", "members"} => who \in AllOrgs
  PROVE  /\ Posted(Call(sent + 1, op, who, place))
         /\ Posted([Call(sent + 1, op, who, place) EXCEPT !.follow = f])
<1>1. ASSUME NEW c,
             c = [id |-> sent + 1, op |-> op, who |-> who, place |-> place, data |-> NoMember,
                  seen |-> NoMember, follow |-> c.follow, state |-> "sent", orgs |-> NoOrgs,
                  rows |-> NoMembers],
             c.follow \in BOOLEAN
      PROVE  Posted(c)
  <2>1. c \in CallsUpTo(sent + 1)
    BY <1>1, Blanks DEF CallsUpTo
  <2>2. Fits(c) /\ OwnNames(c)
    BY <1>1, Blanks DEF Fits, OwnNames
  <2> QED
    BY <1>1, <2>1, <2>2 DEF Posted
<1>2. Posted(Call(sent + 1, op, who, place))
  BY <1>1 DEF Call
<1>3. Posted([Call(sent + 1, op, who, place) EXCEPT !.follow = f])
  BY <1>1 DEF Call
<1> QED
  BY <1>2, <1>3

\* The call of the member form.
LEMMA FormCall ==
  ASSUME sent \in Nat, NEW op \in {"putMember", "postMember"}, NEW who \in Person,
         NEW place \in Place, NEW data \in Member, NEW seen \in Member, data.org = place,
         op = "putMember" => who \in AllMembers /\ OwnName(who, data.name),
         op = "postMember" => NewName(data.name)
  PROVE  Posted([Call(sent + 1, op, who, place) EXCEPT !.data = data, !.seen = seen])
<1> DEFINE b == Call(sent + 1, op, who, place)
           c == [b EXCEPT !.data = data, !.seen = seen]
<1>1. op \in Ops /\ op \in Writes
  BY DEF Ops, Writes
<1>2. /\ b \in CallsUpTo(sent + 1)
      /\ b.id = sent + 1 /\ b.op = op /\ b.who = who /\ b.place = place /\ b.state = "sent"
      /\ b.rows = NoMembers
  BY <1>1, Blanks DEF Call, CallsUpTo
<1> HIDE DEF b
<1>3. /\ c \in CallsUpTo(sent + 1)
      /\ c.id = b.id /\ c.op = b.op /\ c.who = b.who /\ c.place = b.place /\ c.state = b.state
      /\ c.rows = b.rows /\ c.data = data
  BY <1>2 DEF CallsUpTo
<1> HIDE DEF c
<1>4. Fits(c) /\ OwnNames(c)
  BY <1>1, <1>2, <1>3, Blanks DEF Fits, OwnNames
<1>5. Posted(c)
  BY <1>2, <1>3, <1>4 DEF Posted
<1> QED
  BY <1>5 DEF b, c

-----------------------------------------------------------------------------
(* The steps of the page: of the user, and of the handlers of the answers. *)

UserStep ==
  \/ Load
  \/ \E o \in AllOrgs : SelectOrg(o) \/ EditOrg(o) \/ DeleteOrg(o)
  \/ \E p \in Place : AddOrg(p) \/ SubmitOrgForm(p) \/ MoveMember(p)
  \/ HideOrgForm
  \/ \E m \in AllMembers \cup {None} : ShowMemberForm(m)
  \/ HideMemberForm
  \/ \E p \in Place, i \in Filled(inputs["team"]) : SubmitMemberForm(p, i)
  \/ \E m \in AllMembers : RemoveMember(m) \/ ShowMoveDialog(m)
  \/ CloseMoveDialog
  \/ BatchImport

\* The token page beside it.
TokenStep == TokenPageDrawn \/ \E m \in AllMembers : TokenFormFilled(m)

PageStep == UserStep \/ TokenStep \/ \E c \in net : Answered(c)

LEMMA NextSplits == Next <=> PageStep \/ \E c \in net : Served(c) \/ Fail(c)
  BY DEF Next, PageStep, UserStep, TokenStep

\* The token page writes only its own inputs.
LEMMA TokenStepLeaves ==
  ASSUME TokenStep
  PROVE  /\ UNCHANGED <<orgs, members, tree, flat, allModels, selected, listed>>
         /\ UNCHANGED <<orgForm, memberForm, moveDialog, net, sent, fails>>
         /\ UNCHANGED <<newest, late, raced>>
         /\ UNCHANGED acts \/ Act
         /\ borrowed' = borrowed \/ borrowed' = (borrowed \/ memberForm.shown)
<1>1. CASE TokenPageDrawn
  BY <1>1 DEF TokenPageDrawn, rows, lists, ghosts
<1>2. CASE \E m \in AllMembers : TokenFormFilled(m)
  BY <1>2 DEF TokenFormFilled, rows, lists, Act
<1> QED
  BY <1>1, <1>2 DEF TokenStep

\* A step makes at most one call, and no other step changes the rows.
Asks(k) == Posted(k) /\ k \in net' /\ net' \subseteq net \cup {k} /\ sent' = sent + 1
Quiet == net' \subseteq net /\ sent' = sent

LEMMA AskAsks ==
  ASSUME NEW calls \in SUBSET net, NEW k, Posted(k), Ask(calls, k)
  PROVE  Asks(k)
  BY DEF Ask, Asks

LEMMA LoadAsks ==
  ASSUME sent \in Nat, NEW calls \in SUBSET net, NEW f \in BOOLEAN, AskLoad(calls, f)
  PROVE  \E k : Asks(k) /\ net' = calls \cup {k} /\ k.op = "load" /\ k.follow = f
<1> DEFINE k == [Call(sent + 1, "load", None, None) EXCEPT !.follow = f]
<1>1. None \in Person /\ None \in Place /\ "load" \in Ops \ {"putMember", "postMember"}
  BY DEF Person, Place, Ops
<1>2. Posted(k)
  BY <1>1, PlainCall
<1>3. Ask(calls, k)
  BY DEF AskLoad
<1>4. k.op = "load" /\ k.follow = f
  BY DEF Call
<1> HIDE DEF k
<1> QED
  BY <1>2, <1>3, <1>4, AskAsks DEF Ask

LEMMA MembersAsked ==
  ASSUME sent \in Nat, NEW calls \in SUBSET net, NEW o \in AllOrgs,
         Ask(calls, Call(sent + 1, "members", o, None))
  PROVE  \E k : /\ Asks(k) /\ net' = calls \cup {k}
                /\ k.op = "members" /\ k.who = o
<1> DEFINE k == Call(sent + 1, "members", o, None)
<1>1. o \in Person /\ None \in Place /\ "members" \in Ops \ {"putMember", "postMember"}
  BY DEF Person, Place, Ops
<1>2. Posted(k)
  BY <1>1, PlainCall
<1>3. k.op = "members" /\ k.who = o
  BY DEF Call
<1> HIDE DEF k
<1> QED
  BY <1>2, <1>3, AskAsks DEF k, Ask

LEMMA ReloadAsks ==
  ASSUME sent \in Nat, selected \in Place, NEW calls \in SUBSET net, Reload(calls)
  PROVE  \/ selected = None /\ net' = calls /\ Quiet
         \/ /\ selected # None
            /\ \E k : /\ Asks(k) /\ net' = calls \cup {k}
                      /\ k.op = "members" /\ k.who = selected
<1>1. CASE selected = None
  BY <1>1 DEF Reload, Quiet
<1>2. CASE selected # None
  <2>1. selected \in AllOrgs /\ Ask(calls, Call(sent + 1, "members", selected, None))
    BY <1>2 DEF Reload, Place
  <2> QED
    BY <1>2, <2>1, MembersAsked
<1> QED
  BY <1>1, <1>2

\* What the user can have made of the form for a member.
LEMMA FilledFacts ==
  ASSUME NEW i \in Inputs, NEW j \in Filled(i)
  PROVE  j \in Inputs /\ j.name \in {i.name, Typed}
<1>1. i.name \in Names /\ Typed \in Names /\ i.enabled \in BOOLEAN /\ i.boxes \subseteq Models
  BY DEF Inputs, Names
<1>2. CASE \E n \in {i.name, Typed} : j = [i EXCEPT !.name = n]
  BY <1>1, <1>2 DEF Inputs
<1>3. CASE j = [i EXCEPT !.name = Typed, !.enabled = ~@]
  BY <1>1, <1>3 DEF Inputs
<1>4. CASE \E t \in SUBSET i.boxes : j = [i EXCEPT !.models = t]
  BY <1>1, <1>4 DEF Inputs
<1> QED
  BY <1>2, <1>3, <1>4 DEF Filled

LEMMA DataIsMember ==
  ASSUME NEW i \in Inputs, NEW p \in Place
  PROVE  /\ MemberData(i, p) \in Member
         /\ MemberData(i, p).org = p /\ MemberData(i, p).name = i.name
  BY DEF MemberData, Inputs, Member

LEMMA FoundFacts == Found \in {"team", "tokens"}
  BY DEF Found

\* The inputs that the code finds when the member form is submitted.
LEMMA SubmitFacts ==
  ASSUME TypeOK, NameInv, NEW p \in Place, NEW i \in Filled(inputs["team"]),
         SubmitMemberForm(p, i)
  PROVE  /\ i \in Inputs /\ inputs'[Found] \in Inputs
         /\ IF memberForm.editing = None THEN NewName(inputs'[Found].name)
            ELSE OwnName(memberForm.editing, inputs'[Found].name)
<1>1. inputs["team"] \in Inputs /\ inputs["tokens"] \in Inputs
  BY DEF TypeOK
<1>2. i \in Inputs /\ i.name \in {inputs["team"].name, Typed}
  BY <1>1, FilledFacts
<1>3. /\ inputs' = [inputs EXCEPT !["team"] = i] /\ memberForm.shown
      /\ inputs'[Found].name # Empty
  BY DEF SubmitMemberForm
<1>4. inputs'[Found] \in Inputs /\ inputs'[Found].name \in {inputs[Found].name, Typed}
  <2>1. CASE Found = "team"
    BY <1>2, <1>3, <2>1 DEF TypeOK
  <2>2. CASE Found = "tokens"
    BY <1>1, <1>3, <2>2 DEF TypeOK
  <2> QED
    BY <2>1, <2>2, FoundFacts
<1> QED
  BY <1>2, <1>3, <1>4 DEF NameInv, FormName, OwnName, NewName

LEMMA UserCalls ==
  ASSUME TypeOK, NameInv, UserStep
  PROVE  Quiet \/ \E k : Asks(k)
<1> USE DEF Ops, Writes, Person, Place
<1>1. sent \in Nat /\ net \in SUBSET net /\ None \in Person /\ None \in Place
  BY DEF TypeOK
<1>2. CASE Load
  BY <1>1, <1>2, LoadAsks DEF Load
<1>3. ASSUME NEW o \in AllOrgs, SelectOrg(o) PROVE \E k : Asks(k)
  BY <1>1, <1>3, MembersAsked DEF SelectOrg
<1>4. ASSUME NEW op \in {"delOrg", "putOrg", "postOrg", "move", "delMember", "batch", "import"},
             NEW who \in Person, NEW p \in Place, Ask(net, Call(sent + 1, op, who, p)),
             op \in {"move", "delMember"} => who \in AllMembers,
             op \in {"putOrg", "delOrg"} => who \in AllOrgs
      PROVE  \E k : Asks(k)
  <2>1. op \in Ops \ {"putMember", "postMember"} /\ op # "members"
    OBVIOUS
  <2>2. Posted(Call(sent + 1, op, who, p))
    BY <1>1, <1>4, <2>1, PlainCall
  <2> QED
    BY <1>1, <1>4, <2>2, AskAsks
<1>5. ASSUME NEW o \in AllOrgs, DeleteOrg(o) PROVE \E k : Asks(k)
  <2>1. Ask(net, Call(sent + 1, "delOrg", o, None))
    BY <1>5 DEF DeleteOrg
  <2> QED
    BY <1>1, <1>4, <2>1
<1>6. ASSUME NEW p \in Place, SubmitOrgForm(p) PROVE \E k : Asks(k)
  <2>1. orgForm.editing \in Place
    BY DEF TypeOK
  <2>2. CASE orgForm.editing # None
    <3>1. Ask(net, Call(sent + 1, "putOrg", orgForm.editing, p)) /\ orgForm.editing \in AllOrgs
      BY <1>6, <2>1, <2>2 DEF SubmitOrgForm
    <3> QED
      BY <1>1, <1>4, <3>1
  <2>3. CASE orgForm.editing = None
    <3>1. Ask(net, Call(sent + 1, "postOrg", None, p))
      BY <1>6, <2>3 DEF SubmitOrgForm
    <3> QED
      BY <1>1, <1>4, <3>1
  <2> QED
    BY <2>2, <2>3
<1>7. ASSUME NEW p \in Place, MoveMember(p) PROVE \E k : Asks(k)
  <2>1. Ask(net, Call(sent + 1, "move", moveDialog, p)) /\ moveDialog \in AllMembers
    BY <1>7 DEF MoveMember, TypeOK
  <2> QED
    BY <1>1, <1>4, <2>1
<1>8. ASSUME NEW m \in AllMembers, RemoveMember(m) PROVE \E k : Asks(k)
  <2>1. Ask(net, Call(sent + 1, "delMember", m, None))
    BY <1>8 DEF RemoveMember
  <2> QED
    BY <1>1, <1>4, <2>1
<1>9. CASE BatchImport
  <2>1. CASE selected # None /\ Ask(net, Call(sent + 1, "batch", None, selected))
    BY <1>1, <1>4, <2>1 DEF TypeOK
  <2>2. ASSUME NEW p \in Place, Ask(net, Call(sent + 1, "import", None, p))
        PROVE  \E k : Asks(k)
    BY <1>1, <1>4, <2>2
  <2> QED
    BY <1>9, <2>1, <2>2 DEF BatchImport
<1>10. ASSUME NEW p \in Place, NEW i \in Filled(inputs["team"]), SubmitMemberForm(p, i)
       PROVE  \E k : Asks(k)
  <2> DEFINE j == inputs'[Found]
             op == IF memberForm.editing # None THEN "putMember" ELSE "postMember"
             k == [Call(sent + 1, op, memberForm.editing, p)
                    EXCEPT !.data = MemberData(j, p), !.seen = MemberData(i, p)]
  <2>1. i \in Inputs /\ j \in Inputs
    BY <1>10, SubmitFacts
  <2>2. IF memberForm.editing = None THEN NewName(j.name) ELSE OwnName(memberForm.editing, j.name)
    BY <1>10, SubmitFacts
  <2>3. memberForm.editing \in AllMembers \cup {None}
    BY DEF TypeOK
  <2>4. Ask(net, k)
    BY <1>10 DEF SubmitMemberForm
  <2> HIDE DEF j
  <2>5. /\ MemberData(j, p) \in Member /\ MemberData(i, p) \in Member
        /\ MemberData(j, p).org = p /\ MemberData(j, p).name = j.name
    BY <2>1, DataIsMember
  <2>6. op \in {"putMember", "postMember"} /\ memberForm.editing \in Person
        /\ (op = "putMember" => memberForm.editing \in AllMembers
                                /\ OwnName(memberForm.editing, MemberData(j, p).name))
        /\ (op = "postMember" => NewName(MemberData(j, p).name))
    BY <2>2, <2>3, <2>5
  <2> HIDE DEF op
  <2>7. Posted(k)
    BY <1>1, <2>5, <2>6, FormCall
  <2> QED
    BY <1>1, <2>4, <2>7, AskAsks
<1>11. Quiet \/ Load \/ BatchImport
       \/ (\E o \in AllOrgs : SelectOrg(o) \/ DeleteOrg(o))
       \/ (\E p \in Place : SubmitOrgForm(p) \/ MoveMember(p))
       \/ (\E m \in AllMembers : RemoveMember(m))
       \/ (\E p \in Place, i \in Filled(inputs["team"]) : SubmitMemberForm(p, i))
  BY DEF UserStep, EditOrg, AddOrg, HideOrgForm, ShowMemberForm, HideMemberForm,
         ShowMoveDialog, CloseMoveDialog, Quiet
<1> QED
  BY <1>2, <1>3, <1>5, <1>6, <1>7, <1>8, <1>9, <1>10, <1>11

LEMMA AnswerCalls ==
  ASSUME TypeOK, NEW c \in net, Answered(c)
  PROVE  Quiet \/ \E k : Asks(k)
<1> DEFINE rest == net \ {c}
<1>1. sent \in Nat /\ rest \in SUBSET net /\ selected \in Place
  BY DEF TypeOK
<1>2. Done(c) => Quiet
  BY DEF Done, Quiet
<1>3. ASSUME NEW f \in BOOLEAN, AskLoad(rest, f) PROVE \E k : Asks(k)
  BY <1>1, <1>3, LoadAsks
<1>4. Reload(rest) => Quiet \/ \E k : Asks(k)
  BY <1>1, ReloadAsks
<1>5. CASE LoadAnswered(c)
  <2>1. CASE c.follow /\ selected # None
    BY <1>1, <1>5, <2>1, MembersAsked DEF LoadAnswered, Place
  <2>2. CASE ~(c.follow /\ selected # None)
    BY <1>2, <1>5, <2>2 DEF LoadAnswered
  <2> QED
    BY <2>1, <2>2
<1>6. CASE MembersAnswered(c) \/ CallFailed(c)
  BY <1>2, <1>6 DEF MembersAnswered, CallFailed
<1>7. CASE OrgSaved(c) \/ OrgDeleted(c) \/ MemberSaved(c) \/ BatchDone(c)
  BY <1>3, <1>7 DEF OrgSaved, OrgDeleted, MemberSaved, BatchDone
<1>8. CASE MemberRemoved(c) \/ Moved(c)
  BY <1>2, <1>4, <1>8 DEF MemberRemoved, Moved
<1> QED
  BY <1>5, <1>6, <1>7, <1>8 DEF Answered

LEMMA PageLeavesRows ==
  ASSUME PageStep
  PROVE  UNCHANGED <<orgs, members, raced>>
<1>1. CASE UserStep
  BY <1>1 DEF UserStep, Load, SelectOrg, EditOrg, DeleteOrg, AddOrg, SubmitOrgForm, MoveMember,
              HideOrgForm, ShowMemberForm, HideMemberForm, SubmitMemberForm, RemoveMember,
              ShowMoveDialog, CloseMoveDialog, BatchImport, rows, ghosts
<1>2. ASSUME NEW c \in net, Answered(c)
      PROVE  UNCHANGED <<orgs, members, raced>>
  BY <1>2 DEF Answered, LoadAnswered, MembersAnswered, OrgSaved, OrgDeleted, MemberSaved,
              MemberRemoved, Moved, BatchDone, CallFailed, rows, ghosts
<1> QED
  BY <1>1, <1>2, TokenStepLeaves DEF PageStep

-----------------------------------------------------------------------------
(* The steps of the server: one call is replaced by what has become of it. *)

Same(c, r) ==
  /\ r.id = c.id /\ r.op = c.op /\ r.who = c.who /\ r.data = c.data /\ r.follow = c.follow
States == {"sent", "checked", "ok", "failed"}

LEMMA StateSet ==
  ASSUME NEW n, NEW c \in CallsUpTo(n), NEW s \in States
  PROVE  /\ [c EXCEPT !.state = s] \in CallsUpTo(n)
         /\ Same(c, [c EXCEPT !.state = s])
         /\ [c EXCEPT !.state = s].state = s
         /\ [c EXCEPT !.state = s].place = c.place
         /\ [c EXCEPT !.state = s].rows = c.rows
  BY DEF CallsUpTo, Same, States

\* What the server makes of c.
Becomes(c, r) ==
  /\ r \in CallsUpTo(sent) /\ Same(c, r) /\ Fits(r) /\ OwnNames(r)
  /\ net' = (net \ {c}) \cup {r} /\ sent' = sent
  /\ c.op = "members" => r.state = "failed" \/ r.rows = MembersOf(c.who)

\* A call of which only the state is set.
Marked(c, s) == net' = (net \ {c}) \cup {[c EXCEPT !.state = s]} /\ sent' = sent

LEMMA MarkedBecomes ==
  ASSUME NEW c \in CallsUpTo(sent), NEW s \in States, Fits(c), OwnNames(c), Marked(c, s),
         s = "checked" \/ c.op = "members" => c.op \in Writes \/ s = "failed"
  PROVE  Becomes(c, [c EXCEPT !.state = s])
<1>1. "members" \notin Writes
  BY DEF Writes
<1> QED
  BY <1>1, StateSet DEF Becomes, Marked, Fits, OwnNames, Same

LEMMA CallsTyped ==
  ASSUME TypeOK, CallInv, NameInv, NEW c \in net
  PROVE  c \in CallsUpTo(sent) /\ Fits(c) /\ OwnNames(c)
<1>1. CallType = CallsUpTo(sent)
  BY DEF CallType, CallsUpTo, Ops, Person
<1> QED
  BY <1>1 DEF TypeOK, CallInv, NameInv

\* The members shown for an organisation carry their own names.
LEMMA MembersOfFacts ==
  ASSUME TypeOK, NameInv, NEW o
  PROVE  MembersOf(o) \in [AllMembers -> Member] /\ OwnRows(MembersOf(o))
<1>1. MembersOf(o) \in [AllMembers -> Member]
  BY Blanks DEF MembersOf, TypeOK
<1>2. ASSUME NEW m \in AllMembers, MembersOf(o)[m].there
      PROVE  OwnName(m, MembersOf(o)[m].name)
  <2>1. MembersOf(o)[m] = members[m] /\ members[m].there
    BY <1>2 DEF MembersOf, NoMember
  <2> QED
    BY <2>1 DEF NameInv, NoNameTakenOver, OwnName, AllMembers
<1> QED
  BY <1>1, <1>2 DEF OwnRows

\* A commit leaves the call in the state "ok".
LEMMA CommitMarks ==
  ASSUME NEW c, Served(c)
  PROVE  \/ Check(c) \/ OrgGone(c) \/ ServeRead(c)
         \/ /\ CommitOrg(c) \/ CommitOrgDeletion(c) \/ CommitMember(c) \/ CommitNewMember(c)
            /\ c.op \in Writes \ {"delOrg"} \/ CommitOrgDeletion(c)
            /\ c.op \in Writes /\ c.state = "checked"
            /\ Marked(c, "ok")
            /\ UNCHANGED <<newest, late, fails>>
<1> USE DEF Commit, Reply, Marked, Writes
<1>1. CASE CommitOrg(c)
  BY <1>1 DEF CommitOrg
<1>2. CASE CommitOrgDeletion(c)
  BY <1>2 DEF CommitOrgDeletion
<1>3. CASE CommitMember(c)
  BY <1>3 DEF CommitMember
<1>4. CASE CommitNewMember(c)
  BY <1>4 DEF CommitNewMember
<1> QED
  BY <1>1, <1>2, <1>3, <1>4 DEF Served

\* Only the token page, under an open member form.
LEMMA BorrowedChanges ==
  ASSUME [Next]_vars
  PROVE  borrowed' = borrowed \/ borrowed' = (borrowed \/ memberForm.shown)
<1>1. ASSUME UserStep PROVE UNCHANGED borrowed
  BY <1>1 DEF UserStep, Load, SelectOrg, EditOrg, DeleteOrg, AddOrg, SubmitOrgForm,
     MoveMember, HideOrgForm, ShowMemberForm, HideMemberForm, SubmitMemberForm,
     RemoveMember, ShowMoveDialog, CloseMoveDialog, BatchImport, ghosts
<1>2. ASSUME NEW c \in net, Answered(c) PROVE UNCHANGED borrowed
  BY <1>2 DEF Answered, LoadAnswered, MembersAnswered, OrgSaved, OrgDeleted, MemberSaved,
     MemberRemoved, Moved, BatchDone, CallFailed, ghosts
<1>3. ASSUME NEW c \in net, Check(c) \/ OrgGone(c) \/ ServeRead(c) \/ Fail(c)
      PROVE  UNCHANGED borrowed
  BY <1>3 DEF Check, OrgGone, ServeRead, Fail, ghosts
<1>4. ASSUME NEW c \in net, CommitOrg(c) \/ CommitOrgDeletion(c) \/ CommitMember(c)
                            \/ CommitNewMember(c)
      PROVE  UNCHANGED borrowed
  BY <1>4 DEF CommitOrg, CommitOrgDeletion, CommitMember, CommitNewMember, Commit
<1>5. CASE UNCHANGED vars
  BY <1>5 DEF vars
<1> QED
  BY <1>1, <1>2, <1>3, <1>4, <1>5, TokenStepLeaves, NextSplits DEF PageStep, Served

\* The history does not forget.
LEMMA HistoryStays ==
  ASSUME TypeOK, [Next]_vars
  PROVE  (late => late') /\ (raced => raced') /\ (borrowed => borrowed')
<1>1. ASSUME NEW c \in net, Answered(c) PROVE late => late'
  BY <1>1 DEF Answered, LoadAnswered, MembersAnswered, OrgSaved, OrgDeleted, MemberSaved,
     MemberRemoved, Moved, BatchDone, CallFailed, ghosts
<1>2. ASSUME NEW c \in net, Served(c) PROVE UNCHANGED late
  BY <1>2, CommitMarks DEF Check, OrgGone, ServeRead, ghosts
<1>3. ASSUME NEW c \in net, Fail(c) PROVE (late => late') /\ UNCHANGED raced
  BY <1>3 DEF Fail
<1>4. ASSUME UserStep PROVE UNCHANGED late
  BY <1>4 DEF UserStep, Load, SelectOrg, EditOrg, DeleteOrg, AddOrg, SubmitOrgForm,
     MoveMember, HideOrgForm, ShowMemberForm, HideMemberForm, SubmitMemberForm,
     RemoveMember, ShowMoveDialog, CloseMoveDialog, BatchImport, ghosts
<1>5. CASE UNCHANGED vars
  BY <1>5 DEF vars
<1>6. ASSUME NEW c \in net, Served(c) PROVE raced => raced'
  BY <1>6 DEF Served, Check, CommitOrg, CommitOrgDeletion, OrgGone, CommitMember,
     CommitNewMember, ServeRead, ghosts
<1>7. ASSUME PageStep PROVE (late => late') /\ (raced => raced')
  <2>1. raced => raced'
    BY <1>7, PageLeavesRows
  <2>2. late => late'
    BY <1>1, <1>4, <1>7, TokenStepLeaves DEF PageStep
  <2> QED
    BY <2>1, <2>2
<1>8. ASSUME NEW c \in net, Served(c) \/ Fail(c) PROVE (late => late') /\ (raced => raced')
  <2>1. CASE Served(c)
    BY <1>2, <1>6, <2>1
  <2>2. CASE Fail(c)
    BY <1>3, <2>2
  <2> QED
    BY <1>8, <2>1, <2>2
<1>9. borrowed => borrowed'
  BY BorrowedChanges, Zenon
<1> QED
  BY <1>5, <1>7, <1>8, <1>9, NextSplits

LEMMA ServerCalls ==
  ASSUME TypeOK, CallInv, NameInv, NEW c \in net, Served(c) \/ Fail(c)
  PROVE  \E r : Becomes(c, r)
<1>1. c \in CallsUpTo(sent) /\ Fits(c) /\ OwnNames(c)
  BY CallsTyped
<1>2. c.op \in Ops /\ "members" \notin Writes /\ "load" \notin Writes
  BY <1>1 DEF CallsUpTo, Ops, Writes
<1>3. ASSUME NEW s \in States, Marked(c, s),
             s = "checked" \/ c.op = "members" => c.op \in Writes \/ s = "failed"
      PROVE  \E r : Becomes(c, r)
  BY <1>1, <1>3, MarkedBecomes
<1>4. CASE Fail(c) \/ OrgGone(c)
  <2>1. Marked(c, "failed")
    BY <1>4 DEF Fail, OrgGone, Reply, Marked
  <2> QED
    BY <1>3, <2>1 DEF States
<1>5. CASE Check(c)
  <2> DEFINE s == IF Allowed(c) THEN "checked" ELSE "failed"
             p == IF c.op = "import" /\ ~Known(c.place) THEN None ELSE c.place
             r == [c EXCEPT !.state = s, !.place = p]
  <2>1. net' = (net \ {c}) \cup {r} /\ sent' = sent /\ c.op \in Writes
    BY <1>5 DEF Check, Reply
  <2>2. s \in States /\ p \in Place
    BY <1>1 DEF States, CallsUpTo, Place
  <2>3. c.op \in {"putMember", "postMember"} => p = c.place
    OBVIOUS
  <2> HIDE DEF s, p
  <2>4. /\ r \in CallsUpTo(sent) /\ Same(c, r)
        /\ r.place = p /\ r.rows = c.rows
    BY <1>1, <2>2 DEF CallsUpTo, Same, States
  <2> HIDE DEF r
  <2>5. Fits(r) /\ OwnNames(r)
    BY <1>1, <2>1, <2>3, <2>4 DEF Fits, OwnNames, Same
  <2> QED
    BY <1>2, <2>1, <2>4, <2>5 DEF Becomes
<1>6. CASE ServeRead(c)
  <2>1. CASE c.op = "load"
    <3> DEFINE r == [c EXCEPT !.state = "ok", !.orgs = orgs]
    <3>1. net' = (net \ {c}) \cup {r} /\ sent' = sent
      BY <1>6, <2>1 DEF ServeRead, Reply
    <3>2. /\ r \in CallsUpTo(sent) /\ Same(c, r)
          /\ r.state = "ok" /\ r.place = c.place /\ r.rows = c.rows
      <4>1. "ok" \in States /\ orgs \in [AllOrgs -> Org]
        BY DEF States, TypeOK
      <4> QED
        BY <1>1, <4>1 DEF CallsUpTo, Same, States
    <3> HIDE DEF r
    <3>3. Fits(r) /\ OwnNames(r)
      BY <1>1, <2>1, <3>2 DEF Fits, OwnNames, Same
    <3> QED
      BY <2>1, <3>1, <3>2, <3>3 DEF Becomes
  <2>2. CASE c.op = "members" /\ Marked(c, "failed")
    BY <1>3, <2>2 DEF States
  <2>3. CASE c.op = "members" /\ ~Marked(c, "failed")
    <3> DEFINE r == [c EXCEPT !.state = "ok", !.rows = MembersOf(c.who)]
    <3>1. net' = (net \ {c}) \cup {r} /\ sent' = sent
      BY <1>6, <2>3 DEF ServeRead, Reply, Marked
    <3>2. /\ r \in CallsUpTo(sent) /\ Same(c, r)
          /\ r.state = "ok" /\ r.place = c.place /\ r.rows = MembersOf(c.who)
      <4> DEFINE ms == MembersOf(c.who)
      <4>1. ms \in [AllMembers -> Member]
        BY MembersOfFacts
      <4> HIDE DEF ms
      <4>2. /\ [c EXCEPT !.state = "ok", !.rows = ms] \in CallsUpTo(sent)
            /\ Same(c, [c EXCEPT !.state = "ok", !.rows = ms])
            /\ [c EXCEPT !.state = "ok", !.rows = ms].state = "ok"
            /\ [c EXCEPT !.state = "ok", !.rows = ms].place = c.place
            /\ [c EXCEPT !.state = "ok", !.rows = ms].rows = ms
        BY <1>1, <4>1 DEF CallsUpTo, Same, States
      <4> QED
        BY <4>2 DEF ms
    <3> HIDE DEF r
    <3>3. Fits(r) /\ OwnNames(r)
      BY <1>1, <2>3, <3>2, MembersOfFacts DEF Fits, OwnNames, Same
    <3> QED
      BY <3>1, <3>2, <3>3 DEF Becomes
  <2> QED
    BY <1>6, <2>1, <2>2, <2>3 DEF ServeRead
<1>7. CASE c.op \in Writes /\ Marked(c, "ok")
  BY <1>2, <1>3, <1>7 DEF States
<1> QED
  BY <1>4, <1>5, <1>6, <1>7, CommitMarks

-----------------------------------------------------------------------------
(* The calls under way, step by step. *)

LEMMA CallsGrow ==
  ASSUME NEW n \in Nat
  PROVE  CallsUpTo(n) \subseteq CallsUpTo(n + 1)
<1>1. 1..n \subseteq 1..(n + 1)
  OBVIOUS
<1> HIDE DEF Member
<1> QED
  BY <1>1, Zenon DEF CallsUpTo

\* A step of the page makes a call, and one of the server replaces one.
LEMMA NetShapes ==
  ASSUME TypeOK, CallInv, NameInv, Next
  PROVE  \/ PageStep /\ (Quiet \/ \E k : Asks(k))
         \/ \E c \in net : \E r : (Served(c) \/ Fail(c)) /\ Becomes(c, r)
<1>1. TokenStep => Quiet
  BY TokenStepLeaves DEF Quiet
<1> QED
  BY <1>1, UserCalls, AnswerCalls, ServerCalls, NextSplits DEF PageStep

LEMMA NetStep ==
  ASSUME TypeOK, CallInv, NameInv, [Next]_vars
  PROVE  /\ net' \subseteq CallsUpTo(sent') /\ sent' \in Nat /\ sent <= sent'
         /\ CallInv' /\ \A c \in net' : OwnNames(c)
<1>1. /\ sent \in Nat /\ \A c, d \in net : c.id = d.id => c = d
      /\ \A c \in net : c \in CallsUpTo(sent) /\ Fits(c) /\ OwnNames(c) /\ c.id \in 1..sent
  BY CallsTyped DEF TypeOK, CallInv, CallsUpTo
<1>2. CASE Quiet \/ UNCHANGED vars
  <2>1. net' \subseteq net /\ sent' = sent
    BY <1>2 DEF Quiet, vars
  <2> QED
    BY <1>1, <2>1 DEF CallInv
<1>3. ASSUME NEW k, Asks(k)
      PROVE  /\ net' \subseteq CallsUpTo(sent') /\ sent' \in Nat /\ sent <= sent'
             /\ CallInv' /\ \A c \in net' : OwnNames(c)
  <2>1. /\ net' \subseteq net \cup {k} /\ sent' = sent + 1
        /\ k \in CallsUpTo(sent + 1) /\ k.id = sent + 1 /\ Fits(k) /\ OwnNames(k)
    BY <1>3 DEF Asks, Posted
  <2>2. net' \subseteq CallsUpTo(sent')
    BY <1>1, <2>1, CallsGrow
  <2>3. \A c, d \in net' : c.id = d.id => c = d
    BY <1>1, <2>1
  <2> QED
    BY <1>1, <2>1, <2>2, <2>3 DEF CallInv
<1>4. ASSUME NEW c \in net, NEW r, Becomes(c, r)
      PROVE  /\ net' \subseteq CallsUpTo(sent') /\ sent' \in Nat /\ sent <= sent'
             /\ CallInv' /\ \A d \in net' : OwnNames(d)
  <2>1. /\ net' = (net \ {c}) \cup {r} /\ sent' = sent /\ r.id = c.id
        /\ r \in CallsUpTo(sent) /\ Fits(r) /\ OwnNames(r)
    BY <1>4 DEF Becomes, Same
  <2>2. \A d, e \in net' : d.id = e.id => d = e
    BY <1>1, <2>1
  <2> QED
    BY <1>1, <2>1, <2>2 DEF CallInv
<1> QED
  BY <1>2, <1>3, <1>4, NetShapes

-----------------------------------------------------------------------------
(* Every variable keeps its type. *)

LEMMA FormsTyped ==
  /\ NoForm \in FormType /\ Blank \in Inputs
  /\ \A p, q \in Place : [shown |-> TRUE, editing |-> p, org |-> q] \in FormType
  /\ \A m \in AllMembers \cup {None}, q \in Place :
       [shown |-> TRUE, editing |-> m, org |-> q] \in FormType
  BY DEF NoForm, FormType, Place, Blank, Inputs, Names

\* The tables of the database.
LEMMA RowTypes ==
  ASSUME TypeOK, CallInv, NameInv, [Next]_vars
  PROVE  orgs' \in [AllOrgs -> Org] /\ members' \in [AllMembers -> Member]
<1>1. orgs \in [AllOrgs -> Org] /\ members \in [AllMembers -> Member]
  BY DEF TypeOK
<1>2. CASE UNCHANGED <<orgs, members>>
  BY <1>1, <1>2
<1>3. ASSUME NEW c \in net, CommitOrg(c) \/ CommitOrgDeletion(c) \/ CommitMember(c)
                            \/ CommitNewMember(c)
      PROVE  orgs' \in [AllOrgs -> Org] /\ members' \in [AllMembers -> Member]
  <2>1. c \in CallsUpTo(sent) /\ Fits(c)
    BY CallsTyped
  <2>2. c.place \in Place /\ c.data \in Member
    BY <2>1 DEF CallsUpTo
  <2>3. \A p \in Place : [there |-> TRUE, parent |-> p] \in Org
    BY DEF Org
  <2>4. CASE CommitOrg(c)
    <3>1. PICK o \in AllOrgs : orgs' = [orgs EXCEPT ![o] = [there |-> TRUE, parent |-> c.place]]
      BY <2>4 DEF CommitOrg, Commit
    <3>2. members' = members
      BY <2>4 DEF CommitOrg, Commit
    <3> QED
      BY <1>1, <2>2, <2>3, <3>1, <3>2
  <2>5. CASE CommitOrgDeletion(c)
    <3>1. \A o \in AllOrgs : [orgs[o] EXCEPT !.parent = None] \in Org
      BY <1>1 DEF Org, Place
    <3>2. \A m \in AllMembers : [members[m] EXCEPT !.org = None] \in Member
      BY <1>1 DEF Member, Place
    <3>3. orgs' = [o \in AllOrgs |->
                     IF o = c.who THEN NoOrg
                     ELSE IF orgs[o].parent = c.who THEN [orgs[o] EXCEPT !.parent = None]
                     ELSE orgs[o]]
          /\ members' = [m \in AllMembers |->
                           IF members[m].org = c.who THEN [members[m] EXCEPT !.org = None]
                           ELSE members[m]]
      BY <2>5 DEF CommitOrgDeletion, Commit
    <3> QED
      BY <1>1, <3>1, <3>2, <3>3, Blanks
  <2>6. CASE CommitMember(c)
    <3>1. orgs' = orgs /\ members' = [members EXCEPT ![c.who] = Changed(c)]
          /\ c.op \in {"putMember", "move", "delMember"}
      BY <2>6 DEF CommitMember, Commit
    <3>2. c.who \in AllMembers /\ members[c.who] \in Member
      BY <1>1, <2>1, <3>1 DEF Fits
    <3>3. Changed(c) \in Member
      <4>1. CASE c.op = "putMember"
        <5>1. Changed(c) = Updated(members[c.who], c.data)
          BY <4>1 DEF Changed
        <5>2. Updated(members[c.who], c.data) \in Member
          BY <2>2, <3>2 DEF Updated, Member
        <5> QED
          BY <5>1, <5>2
      <4>2. CASE c.op = "move"
        <5>1. Changed(c) = [members[c.who] EXCEPT !.org = c.place]
          BY <4>2 DEF Changed
        <5> QED
          BY <2>2, <3>2, <5>1 DEF Member
      <4>3. CASE c.op = "delMember"
        <5>1. Changed(c) = [members[c.who] EXCEPT !.enabled = FALSE]
          BY <4>3 DEF Changed
        <5> QED
          BY <3>2, <5>1 DEF Member
      <4> QED
        BY <3>1, <4>1, <4>2, <4>3
    <3> QED
      BY <1>1, <3>1, <3>3
  <2>7. CASE CommitNewMember(c)
    <3>1. \A p \in Place : Imported(p) \in Member
      BY DEF Imported, Member, Names
    <3>2. FreshMembers \subseteq AllMembers /\ FreshOrgs \subseteq AllOrgs /\ FreshOrgs \subseteq Place
          /\ None \in Place
      BY DEF AllMembers, AllOrgs, Place
    <3>3. PICK m \in FreshMembers :
            \/ orgs' = orgs /\ members' = [members EXCEPT ![m] = c.data]
            \/ orgs' = orgs /\ members' = members
            \/ orgs' = orgs /\ members' = [members EXCEPT ![m] = Imported(c.place)]
            \/ \E o \in FreshOrgs :
                 /\ orgs' = [orgs EXCEPT ![o] = [there |-> TRUE, parent |-> None]]
                 /\ members' = [members EXCEPT ![m] = Imported(o)]
      BY <2>7 DEF CommitNewMember, Commit
    <3>4. ASSUME NEW o \in FreshOrgs,
                 orgs' = [orgs EXCEPT ![o] = [there |-> TRUE, parent |-> None]],
                 members' = [members EXCEPT ![m] = Imported(o)]
          PROVE  orgs' \in [AllOrgs -> Org] /\ members' \in [AllMembers -> Member]
      BY <1>1, <2>3, <3>1, <3>2, <3>4
    <3>5. CASE orgs' = orgs /\ members' = [members EXCEPT ![m] = c.data]
      BY <1>1, <2>2, <3>5
    <3>6. CASE orgs' = orgs /\ members' = [members EXCEPT ![m] = Imported(c.place)]
      BY <1>1, <2>2, <3>1, <3>6
    <3> QED
      BY <1>1, <3>3, <3>4, <3>5, <3>6
  <2> QED
    BY <1>3, <2>4, <2>5, <2>6, <2>7
<1>4. \/ UNCHANGED <<orgs, members>>
      \/ \E c \in net : CommitOrg(c) \/ CommitOrgDeletion(c) \/ CommitMember(c)
                        \/ CommitNewMember(c)
  <2>1. CASE PageStep
    BY <2>1, PageLeavesRows
  <2>2. ASSUME NEW c \in net, Check(c) \/ OrgGone(c) \/ ServeRead(c) \/ Fail(c)
        PROVE  UNCHANGED <<orgs, members>>
    BY <2>2 DEF Check, OrgGone, ServeRead, Fail, rows
  <2> QED
    BY <2>1, <2>2, NextSplits DEF Served, vars
<1> QED
  BY <1>2, <1>3, <1>4

\* What the server does leaves the page as it is, but for the history.
LEMMA ServerLeavesPage ==
  ASSUME NEW c, Served(c) \/ Fail(c)
  PROVE  UNCHANGED <<forms, lists, acts, newest>>
<1>1. CASE Check(c) \/ OrgGone(c) \/ ServeRead(c) \/ Fail(c)
  BY <1>1 DEF Check, OrgGone, ServeRead, Fail, Reply, ghosts
<1>2. CASE CommitOrg(c) \/ CommitOrgDeletion(c)
  BY <1>2 DEF CommitOrg, CommitOrgDeletion, Commit, Reply
<1>3. CASE CommitMember(c) \/ CommitNewMember(c)
  BY <1>3 DEF CommitMember, CommitNewMember, Commit, Reply
<1> QED
  BY <1>1, <1>2, <1>3 DEF Served

\* Which steps change which part of the page.
LEMMA PageChanges ==
  ASSUME [Next]_vars
  PROVE  /\ UNCHANGED <<tree, flat, allModels>> \/ \E c \in net : LoadAnswered(c)
         /\ \/ UNCHANGED selected
            \/ (\E o \in AllOrgs : SelectOrg(o)) \/ (\E c \in net : OrgDeleted(c))
         /\ UNCHANGED <<listed, newest>> \/ \E c \in net : MembersAnswered(c)
         /\ \/ UNCHANGED orgForm \/ orgForm' = NoForm
            \/ (\E o \in AllOrgs : EditOrg(o))
            \/ (\E p \in Place : AddOrg(p) \/ SubmitOrgForm(p))
         /\ \/ UNCHANGED <<memberForm, inputs>>
            \/ memberForm' = NoForm /\ UNCHANGED inputs
            \/ (\E m \in AllMembers \cup {None} : ShowMemberForm(m))
            \/ (\E p \in Place, i \in Filled(inputs["team"]) : SubmitMemberForm(p, i))
            \/ TokenStep
         /\ UNCHANGED moveDialog \/ moveDialog' = None \/ \E m \in AllMembers : ShowMoveDialog(m)
         /\ UNCHANGED tokensDrawn \/ TokenStep
         /\ UNCHANGED acts \/ Act
<1>1. CASE UNCHANGED vars \/ \E c \in net : Served(c) \/ Fail(c)
  BY <1>1, ServerLeavesPage DEF vars, forms, lists
<1>2. CASE UserStep
  <2> USE <1>2 DEF UserStep, rows, forms, lists, ghosts
  <2>1. UNCHANGED <<tree, flat, allModels, listed, newest, tokensDrawn>>
    BY DEF Load, SelectOrg, EditOrg, DeleteOrg, AddOrg, SubmitOrgForm, MoveMember, HideOrgForm,
           ShowMemberForm, HideMemberForm, SubmitMemberForm, RemoveMember, ShowMoveDialog,
           CloseMoveDialog, BatchImport
  <2>2. UNCHANGED selected \/ \E o \in AllOrgs : SelectOrg(o)
    BY DEF Load, EditOrg, DeleteOrg, AddOrg, SubmitOrgForm, MoveMember, HideOrgForm,
           ShowMemberForm, HideMemberForm, SubmitMemberForm, RemoveMember, ShowMoveDialog,
           CloseMoveDialog, BatchImport
  <2>3. \/ UNCHANGED orgForm \/ orgForm' = NoForm
        \/ (\E o \in AllOrgs : EditOrg(o))
        \/ (\E p \in Place : AddOrg(p) \/ SubmitOrgForm(p))
    BY DEF Load, SelectOrg, DeleteOrg, MoveMember, HideOrgForm,
           ShowMemberForm, HideMemberForm, SubmitMemberForm, RemoveMember, ShowMoveDialog,
           CloseMoveDialog, BatchImport
  <2>4. \/ UNCHANGED <<memberForm, inputs>>
        \/ memberForm' = NoForm /\ UNCHANGED inputs
        \/ (\E m \in AllMembers \cup {None} : ShowMemberForm(m))
        \/ (\E p \in Place, i \in Filled(inputs["team"]) : SubmitMemberForm(p, i))
    BY DEF Load, SelectOrg, EditOrg, DeleteOrg, AddOrg, SubmitOrgForm, MoveMember, HideOrgForm,
           HideMemberForm, RemoveMember, ShowMoveDialog, CloseMoveDialog, BatchImport
  <2>5. UNCHANGED moveDialog \/ moveDialog' = None \/ \E m \in AllMembers : ShowMoveDialog(m)
    BY DEF Load, SelectOrg, EditOrg, DeleteOrg, AddOrg, SubmitOrgForm, MoveMember, HideOrgForm,
           ShowMemberForm, HideMemberForm, SubmitMemberForm, RemoveMember,
           CloseMoveDialog, BatchImport
  <2>6. UNCHANGED acts \/ Act
    BY DEF Load, SelectOrg, EditOrg, DeleteOrg, AddOrg, SubmitOrgForm, MoveMember, HideOrgForm,
           ShowMemberForm, HideMemberForm, SubmitMemberForm, RemoveMember, ShowMoveDialog,
           CloseMoveDialog, BatchImport
  <2> QED
    BY <2>1, <2>2, <2>3, <2>4, <2>5, <2>6
<1>3. ASSUME NEW c \in net, Answered(c)
      PROVE  /\ UNCHANGED <<tree, flat, allModels>> \/ LoadAnswered(c)
             /\ UNCHANGED selected \/ OrgDeleted(c)
             /\ UNCHANGED <<listed, newest>> \/ MembersAnswered(c)
             /\ UNCHANGED orgForm \/ orgForm' = NoForm
             /\ UNCHANGED inputs /\ (UNCHANGED memberForm \/ memberForm' = NoForm)
             /\ UNCHANGED moveDialog \/ moveDialog' = None
             /\ UNCHANGED <<tokensDrawn, acts>>
  <2> USE <1>3 DEF Answered, rows, forms, lists, ghosts
  <2>1. UNCHANGED <<inputs, tokensDrawn, acts>>
    BY DEF LoadAnswered, MembersAnswered, OrgSaved, OrgDeleted, MemberSaved, MemberRemoved,
           Moved, BatchDone, CallFailed
  <2>2. UNCHANGED <<tree, flat, allModels>> \/ LoadAnswered(c)
    BY DEF MembersAnswered, OrgSaved, OrgDeleted, MemberSaved, MemberRemoved,
           Moved, BatchDone, CallFailed
  <2>3. UNCHANGED selected \/ OrgDeleted(c)
    BY DEF LoadAnswered, MembersAnswered, OrgSaved, MemberSaved, MemberRemoved,
           Moved, BatchDone, CallFailed
  <2>4. UNCHANGED <<listed, newest>> \/ MembersAnswered(c)
    BY DEF LoadAnswered, OrgSaved, OrgDeleted, MemberSaved, MemberRemoved,
           Moved, BatchDone, CallFailed
  <2>5. /\ UNCHANGED orgForm \/ orgForm' = NoForm
        /\ UNCHANGED memberForm \/ memberForm' = NoForm
        /\ UNCHANGED moveDialog \/ moveDialog' = None
    BY DEF LoadAnswered, MembersAnswered, OrgSaved, OrgDeleted, MemberSaved, MemberRemoved,
           Moved, BatchDone, CallFailed
  <2> QED
    BY <2>1, <2>2, <2>3, <2>4, <2>5
<1> QED
  BY <1>1, <1>2, <1>3, TokenStepLeaves, NextSplits DEF PageStep

\* The inputs when the form is shown for a row.
LEMMA PickerFacts ==
  ASSUME NEW i \in Inputs, NEW t, allModels \subseteq Models
  PROVE  Picker(i, t) \in Inputs /\ Picker(i, t).name = i.name
<1>1. t \cap allModels \in SUBSET Models /\ allModels \in SUBSET Models
  OBVIOUS
<1> QED
  BY <1>1 DEF Picker, Inputs

LEMMA ShownFacts ==
  ASSUME TypeOK, NEW m \in AllMembers \cup {None}, ShowMemberForm(m)
  PROVE  /\ memberForm'.editing = m /\ memberForm' \in FormType
         /\ inputs' \in [{"team", "tokens"} -> Inputs]
         /\ inputs'[Found].name = IF m = None THEN Empty ELSE listed.rows[m].name
         /\ m # None => listed.rows[m].there
<1> DEFINE row == IF m = None THEN NoMember ELSE listed.rows[m]
           org == IF m = None THEN selected ELSE row.org
           on  == m = None \/ row.enabled
<1>1. row \in Member
  BY Blanks DEF TypeOK
<1>2. row.name \in Names /\ on \in BOOLEAN
  BY <1>1 DEF Member
<1>3. memberForm' = [shown |-> TRUE, editing |-> m, org |-> IF org \in flat THEN org ELSE None]
  BY DEF ShowMemberForm
<1>4. memberForm' \in FormType /\ memberForm'.editing = m
  <2>1. (IF org \in flat THEN org ELSE None) \in Place
    BY DEF TypeOK, Place
  <2> QED
    BY <1>3, <2>1, FormsTyped
<1>5. inputs' = [inputs EXCEPT ![Found] =
                   Picker([inputs[Found] EXCEPT !.name = row.name, !.enabled = on], row.models)]
  BY DEF ShowMemberForm
<1>6. row.name = IF m = None THEN Empty ELSE listed.rows[m].name
  BY DEF NoMember
<1>7. m # None => listed.rows[m].there
  BY DEF ShowMemberForm
<1> HIDE DEF row, on
<1>8. inputs[Found] \in Inputs /\ allModels \subseteq Models
  BY FoundFacts DEF TypeOK
<1> DEFINE i == [inputs[Found] EXCEPT !.name = row.name, !.enabled = on]
           j == Picker(i, row.models)
<1>9. j \in Inputs /\ j.name = row.name
  <2>1. i \in Inputs /\ i.name = row.name
    BY <1>2, <1>8 DEF Inputs
  <2> HIDE DEF i
  <2> QED
    BY <1>8, <2>1, PickerFacts
<1> HIDE DEF j
<1>10. inputs' \in [{"team", "tokens"} -> Inputs] /\ inputs'[Found] = j
  <2>1. inputs' = [inputs EXCEPT ![Found] = j]
    BY <1>5 DEF j
  <2> QED
    BY <1>9, <2>1, FoundFacts DEF TypeOK
<1> QED
  BY <1>4, <1>6, <1>7, <1>9, <1>10

\* What the token page leaves in its inputs.
LEMMA TokenTypes ==
  ASSUME TypeOK, TokenStep
  PROVE  /\ inputs' \in [{"team", "tokens"} -> Inputs] /\ tokensDrawn' \in BOOLEAN
         /\ memberForm.shown => borrowed' \/ inputs'[Found'].name = Empty
<1>1. CASE TokenPageDrawn
  <2>1. inputs' = [inputs EXCEPT !["tokens"] = Blank] /\ tokensDrawn' = TRUE
    BY <1>1 DEF TokenPageDrawn
  <2>2. inputs' \in [{"team", "tokens"} -> Inputs] /\ inputs'["tokens"] = Blank
    BY <2>1, FormsTyped DEF TypeOK
  <2> QED
    BY <2>1, <2>2 DEF Found, Blank
<1>2. ASSUME NEW m \in AllMembers, TokenFormFilled(m)
      PROVE  /\ inputs' \in [{"team", "tokens"} -> Inputs] /\ tokensDrawn' \in BOOLEAN
             /\ memberForm.shown => borrowed'
  <2> DEFINE i == [name |-> members[m].name, models |-> members[m].models, boxes |-> Models,
                   enabled |-> members[m].enabled]
  <2>1. inputs' = [inputs EXCEPT !["tokens"] = i] /\ tokensDrawn' = tokensDrawn
        /\ borrowed' = (borrowed \/ memberForm.shown)
    BY <1>2 DEF TokenFormFilled
  <2>2. i \in Inputs
    <3>1. members[m] \in Member
      BY DEF TypeOK
    <3> QED
      BY <3>1 DEF Member, Inputs
  <2> HIDE DEF i
  <2> QED
    BY <2>1, <2>2 DEF TypeOK
<1> QED
  BY <1>1, <1>2 DEF TokenStep

LEMMA PageTypes ==
  ASSUME TypeOK, CallInv, NameInv, [Next]_vars
  PROVE  /\ tree' \in [AllOrgs -> Org] /\ flat' \subseteq AllOrgs /\ allModels' \subseteq Models
         /\ selected' \in Place
         /\ listed' \in [org : Place, rows : [AllMembers -> Member]]
         /\ orgForm' \in FormType /\ orgForm'.editing \in Place
         /\ memberForm' \in FormType /\ memberForm'.editing \in AllMembers \cup {None}
         /\ moveDialog' \in AllMembers \cup {None}
         /\ inputs' \in [{"team", "tokens"} -> Inputs] /\ tokensDrawn' \in BOOLEAN
         /\ acts' \in 0..MaxActs
<1>1. tree' \in [AllOrgs -> Org] /\ flat' \subseteq AllOrgs /\ allModels' \subseteq Models
  <2>1. CASE UNCHANGED <<tree, flat, allModels>>
    BY <2>1 DEF TypeOK
  <2>2. ASSUME NEW c \in net, LoadAnswered(c), ~UNCHANGED <<tree, flat, allModels>>
        PROVE  tree' \in [AllOrgs -> Org] /\ flat' \subseteq AllOrgs /\ allModels' \subseteq Models
    <3>1. c.orgs \in [AllOrgs -> Org]
      BY CallsTyped DEF CallsUpTo
    <3>2. tree' = TreeOf(c.orgs) /\ flat' = ThereOrgs(c.orgs) /\ allModels' = Models
      BY <2>2 DEF LoadAnswered
    <3>3. TreeOf(c.orgs) \in [AllOrgs -> Org]
      BY <3>1, Blanks DEF TreeOf
    <3> QED
      BY <3>2, <3>3 DEF ThereOrgs
  <2> QED
    BY <2>1, <2>2, PageChanges
<1>2. selected' \in Place
  <2>1. UNCHANGED selected \/ selected' \in AllOrgs \/ selected' = None
    BY PageChanges DEF SelectOrg, OrgDeleted
  <2> QED
    BY <2>1 DEF TypeOK, Place
<1>3. listed' \in [org : Place, rows : [AllMembers -> Member]]
  <2>1. ASSUME NEW c \in net, MembersAnswered(c)
        PROVE  listed' \in [org : Place, rows : [AllMembers -> Member]]
    <3>1. c.rows \in [AllMembers -> Member] /\ c.who \in AllOrgs
      BY <2>1, CallsTyped DEF CallsUpTo, Fits, MembersAnswered
    <3>2. [org |-> c.who, rows |-> c.rows] \in [org : Place, rows : [AllMembers -> Member]]
      BY <3>1 DEF Place
    <3>3. listed' = listed \/ listed' = [org |-> c.who, rows |-> c.rows]
      BY <2>1 DEF MembersAnswered
    <3> QED
      BY <3>2, <3>3 DEF TypeOK
  <2> QED
    BY <2>1, PageChanges DEF TypeOK
<1>4. orgForm' \in FormType /\ orgForm'.editing \in Place
  <2>1. ASSUME NEW o \in Place, NEW q \in Place, orgForm' = [shown |-> TRUE, editing |-> o, org |-> q]
        PROVE  orgForm' \in FormType /\ orgForm'.editing \in Place
    BY <2>1, FormsTyped
  <2>2. ASSUME NEW o \in AllOrgs, EditOrg(o)
        PROVE  orgForm' \in FormType /\ orgForm'.editing \in Place
    <3> DEFINE q == IF tree[o].parent \in flat \ {o} THEN tree[o].parent ELSE None
    <3>1. q \in Place /\ o \in Place
      BY DEF TypeOK, Place
    <3>2. orgForm' = [shown |-> TRUE, editing |-> o, org |-> q]
      BY <2>2 DEF EditOrg
    <3> HIDE DEF q
    <3> QED
      BY <2>1, <3>1, <3>2
  <2>3. ASSUME NEW p \in Place, AddOrg(p)
        PROVE  orgForm' \in FormType /\ orgForm'.editing \in Place
    <3> DEFINE q == IF p \in flat THEN p ELSE None
    <3>1. q \in Place /\ None \in Place
      BY DEF TypeOK, Place
    <3>2. orgForm' = [shown |-> TRUE, editing |-> None, org |-> q]
      BY <2>3 DEF AddOrg
    <3> HIDE DEF q
    <3> QED
      BY <2>1, <3>1, <3>2
  <2>4. ASSUME NEW p \in Place, SubmitOrgForm(p)
        PROVE  orgForm' \in FormType /\ orgForm'.editing \in Place
    BY <2>4 DEF SubmitOrgForm, TypeOK, FormType
  <2>5. NoForm \in FormType /\ NoForm.editing \in Place
    BY FormsTyped DEF NoForm, Place
  <2>6. CASE UNCHANGED orgForm
    BY <2>6 DEF TypeOK
  <2> QED
    BY <2>2, <2>3, <2>4, <2>5, <2>6, PageChanges
<1>5. /\ memberForm' \in FormType /\ memberForm'.editing \in AllMembers \cup {None}
      /\ inputs' \in [{"team", "tokens"} -> Inputs]
  <2>1. CASE UNCHANGED <<memberForm, inputs>>
    BY <2>1 DEF TypeOK
  <2>2. CASE memberForm' = NoForm /\ UNCHANGED inputs
    BY <2>2, FormsTyped DEF TypeOK, NoForm
  <2>3. ASSUME NEW m \in AllMembers \cup {None}, ShowMemberForm(m)
        PROVE  /\ memberForm' \in FormType /\ memberForm'.editing \in AllMembers \cup {None}
               /\ inputs' \in [{"team", "tokens"} -> Inputs]
    BY <2>3, ShownFacts
  <2>4. ASSUME NEW p \in Place, NEW i \in Filled(inputs["team"]), SubmitMemberForm(p, i)
        PROVE  /\ memberForm' \in FormType /\ memberForm'.editing \in AllMembers \cup {None}
               /\ inputs' \in [{"team", "tokens"} -> Inputs]
    <3>1. i \in Inputs
      BY <2>4, SubmitFacts
    <3>2. memberForm' = [memberForm EXCEPT !.org = p] /\ inputs' = [inputs EXCEPT !["team"] = i]
      BY <2>4 DEF SubmitMemberForm
    <3>3. memberForm' \in FormType /\ memberForm'.editing = memberForm.editing
      BY <3>2 DEF TypeOK, FormType
    <3> QED
      BY <3>1, <3>2, <3>3 DEF TypeOK
  <2>5. CASE TokenStep
    BY <2>5, TokenTypes, TokenStepLeaves DEF TypeOK
  <2> QED
    BY <2>1, <2>2, <2>3, <2>4, <2>5, PageChanges
<1>6. moveDialog' \in AllMembers \cup {None} /\ tokensDrawn' \in BOOLEAN
  BY PageChanges, TokenTypes DEF ShowMoveDialog, TypeOK
<1>7. acts' \in 0..MaxActs
  BY PageChanges, BoundsAssumption DEF Act, TypeOK
<1> QED
  BY <1>1, <1>2, <1>3, <1>4, <1>5, <1>6, <1>7

\* The history and the bounds.
LEMMA GhostTypes ==
  ASSUME TypeOK, CallInv, NameInv, [Next]_vars
  PROVE  /\ fails' \in 0..MaxFails /\ newest' \in 0..sent'
         /\ late' \in BOOLEAN /\ raced' \in BOOLEAN /\ borrowed' \in BOOLEAN
<1>1. fails' \in 0..MaxFails
  <2>1. UNCHANGED fails \/ (fails < MaxFails /\ fails' = fails + 1)
    <3>1. CASE UNCHANGED vars
      BY <3>1 DEF vars
    <3>2. CASE UserStep
      BY <3>2 DEF UserStep, Load, SelectOrg, EditOrg, DeleteOrg, AddOrg, SubmitOrgForm,
         MoveMember, HideOrgForm, ShowMemberForm, HideMemberForm, SubmitMemberForm,
         RemoveMember, ShowMoveDialog, CloseMoveDialog, BatchImport
    <3>3. ASSUME NEW c \in net, Answered(c) PROVE UNCHANGED fails
      BY <3>3 DEF Answered, LoadAnswered, MembersAnswered, OrgSaved, OrgDeleted, MemberSaved,
         MemberRemoved, Moved, BatchDone, CallFailed
    <3>4. ASSUME NEW c \in net, Served(c) PROVE UNCHANGED fails
      BY <3>4, CommitMarks DEF Check, OrgGone, ServeRead
    <3>5. ASSUME NEW c \in net, Fail(c) PROVE fails < MaxFails /\ fails' = fails + 1
      BY <3>5 DEF Fail
    <3> QED
      BY <3>1, <3>2, <3>3, <3>4, <3>5, TokenStepLeaves, NextSplits DEF PageStep
  <2> QED
    BY <2>1, BoundsAssumption DEF TypeOK
<1>2. newest' \in 0..sent'
  <2>1. sent' \in Nat /\ sent <= sent' /\ newest \in 0..sent /\ sent \in Nat
    BY NetStep DEF TypeOK
  <2>2. ASSUME NEW c \in net, MembersAnswered(c) PROVE newest' \in 0..sent
    <3>1. c.id \in 1..sent
      BY CallsTyped DEF CallsUpTo
    <3> QED
      BY <2>1, <2>2, <3>1 DEF MembersAnswered
  <2>3. newest' = newest \/ newest' \in 0..sent
    BY <2>2, PageChanges
  <2> QED
    BY <2>1, <2>3
<1>3. late' \in BOOLEAN
  <2>1. ASSUME NEW c \in net, Answered(c) PROVE late' \in BOOLEAN
    BY <2>1 DEF Answered, LoadAnswered, MembersAnswered, OrgSaved, OrgDeleted, MemberSaved,
       MemberRemoved, Moved, BatchDone, CallFailed, ghosts, TypeOK
  <2>2. ASSUME NEW c \in net, Served(c) PROVE UNCHANGED late
    BY <2>2, CommitMarks DEF Check, OrgGone, ServeRead, ghosts
  <2>3. ASSUME NEW c \in net, Fail(c) PROVE late' \in BOOLEAN
    BY <2>3 DEF Fail, TypeOK
  <2>4. CASE UserStep
    BY <2>4 DEF UserStep, Load, SelectOrg, EditOrg, DeleteOrg, AddOrg, SubmitOrgForm,
       MoveMember, HideOrgForm, ShowMemberForm, HideMemberForm, SubmitMemberForm,
       RemoveMember, ShowMoveDialog, CloseMoveDialog, BatchImport, ghosts, TypeOK
  <2>5. CASE UNCHANGED vars
    BY <2>5 DEF vars, TypeOK
  <2> QED
    BY <2>1, <2>2, <2>3, <2>4, <2>5, TokenStepLeaves, NextSplits DEF PageStep, TypeOK
<1>4. raced' \in BOOLEAN
  <2>1. ASSUME NEW c \in net, Served(c) \/ Fail(c) PROVE raced' \in BOOLEAN
    BY <2>1 DEF Served, Check, CommitOrg, CommitOrgDeletion, OrgGone, CommitMember,
       CommitNewMember, ServeRead, Fail, ghosts, TypeOK
  <2> QED
    BY <2>1, PageLeavesRows, NextSplits DEF vars, TypeOK
<1>5. borrowed' \in BOOLEAN
  BY BorrowedChanges DEF TypeOK
<1> QED
  BY <1>1, <1>2, <1>3, <1>4, <1>5

LEMMA TypeStep ==
  ASSUME TypeOK, CallInv, NameInv, [Next]_vars
  PROVE  TypeOK'
<1>1. CallType' = CallsUpTo(sent')
  BY DEF CallType, CallsUpTo, Ops, Person
<1>2. net' \subseteq CallType' /\ sent' \in Nat
  BY <1>1, NetStep
<1> QED
  BY <1>2, RowTypes, PageTypes, GhostTypes DEF TypeOK

-----------------------------------------------------------------------------
(* No row points at an organisation that is gone. *)

\* A call enters the state "checked" with a place that is there.
LEMMA CheckedPlaces ==
  ASSUME TypeOK, CallInv, NameInv, NEW c \in net, Served(c) \/ Fail(c), NEW d \in net',
         d.op \in Placing, d.state = "checked"
  PROVE  d \in net \/ Known(d.place)
<1>1. c \in CallsUpTo(sent)
  BY CallsTyped
<1>2. ASSUME NEW s \in States \ {"checked"}, Marked(c, s)
      PROVE  d \in net
  <2>1. [c EXCEPT !.state = s].state = s
    BY <1>1 DEF CallsUpTo
  <2> QED
    BY <1>2, <2>1 DEF Marked
<1>3. CASE Check(c)
  <2> DEFINE s == IF Allowed(c) THEN "checked" ELSE "failed"
             p == IF c.op = "import" /\ ~Known(c.place) THEN None ELSE c.place
             r == [c EXCEPT !.state = s, !.place = p]
  <2>1. net' = (net \ {c}) \cup {r}
    BY <1>3 DEF Check, Reply
  <2>2. /\ s = "checked"
        /\ c.op \in {"putOrg", "postOrg", "putMember", "postMember", "move"}
        => Known(c.place)
    BY DEF Allowed
  <2>3. c.op = "import" => Known(p)
    BY DEF Known
  <2>4. c.op # "import" => p = c.place
    OBVIOUS
  <2> HIDE DEF s, p
  <2>5. r.state = s /\ r.place = p /\ r.op = c.op
    BY <1>1 DEF CallsUpTo
  <2> HIDE DEF r
  <2> QED
    BY <2>1, <2>2, <2>3, <2>4, <2>5 DEF Placing
<1>4. CASE OrgGone(c) \/ Fail(c)
  BY <1>2, <1>4 DEF OrgGone, Fail, Reply, Marked, States
<1>5. CASE ServeRead(c)
  <2>1. c.op \notin Placing
    BY <1>5 DEF ServeRead, Placing, Writes
  <2>2. \A x, y : [c EXCEPT !.state = x, !.orgs = y].op = c.op
               /\ [c EXCEPT !.state = x, !.rows = y].op = c.op
               /\ [c EXCEPT !.state = x].op = c.op
    BY <1>1 DEF CallsUpTo
  <2>3. \/ net' = (net \ {c}) \cup {[c EXCEPT !.state = "ok", !.orgs = orgs]}
        \/ net' = (net \ {c}) \cup {[c EXCEPT !.state = "ok", !.rows = MembersOf(c.who)]}
        \/ net' = (net \ {c}) \cup {[c EXCEPT !.state = "failed"]}
    BY <1>5 DEF ServeRead, Reply
  <2>4. ASSUME NEW r, net' = (net \ {c}) \cup {r}, r.op = c.op
        PROVE  d \in net
    BY <2>1, <2>4
  <2>5. CASE net' = (net \ {c}) \cup {[c EXCEPT !.state = "ok", !.orgs = orgs]}
    <3> DEFINE r == [c EXCEPT !.state = "ok", !.orgs = orgs]
    <3>1. r.op = c.op
      BY <2>2
    <3> HIDE DEF r
    <3> QED
      BY <2>4, <2>5, <3>1 DEF r
  <2>6. CASE net' = (net \ {c}) \cup {[c EXCEPT !.state = "ok", !.rows = MembersOf(c.who)]}
    <3> DEFINE r == [c EXCEPT !.state = "ok", !.rows = MembersOf(c.who)]
    <3>1. r.op = c.op
      BY <2>2
    <3> HIDE DEF r
    <3> QED
      BY <2>4, <2>6, <3>1 DEF r
  <2>7. CASE net' = (net \ {c}) \cup {[c EXCEPT !.state = "failed"]}
    BY <2>2, <2>4, <2>7
  <2> QED
    BY <2>3, <2>5, <2>6, <2>7
<1>6. CASE Marked(c, "ok")
  BY <1>2, <1>6 DEF States
<1> QED
  BY <1>3, <1>4, <1>5, <1>6, CommitMarks

\* But for a deletion, an organisation that is there stays there.
LEMMA OrgsStay ==
  ASSUME TypeOK, [Next]_vars, \A c \in net : ~CommitOrgDeletion(c)
  PROVE  /\ \A o \in AllOrgs : orgs[o].there => orgs'[o].there
         /\ raced' = raced
<1>1. CASE UNCHANGED vars \/ PageStep
  BY <1>1, PageLeavesRows DEF vars
<1>2. ASSUME NEW c \in net, Check(c) \/ OrgGone(c) \/ ServeRead(c) \/ Fail(c) \/ CommitMember(c)
      PROVE  UNCHANGED <<orgs, raced>>
  BY <1>2 DEF Check, OrgGone, ServeRead, Fail, CommitMember, Commit, rows, ghosts
<1>3. ASSUME NEW c \in net, CommitOrg(c)
      PROVE  raced' = raced /\ \A o \in AllOrgs : orgs[o].there => orgs'[o].there
  <2>1. PICK o \in AllOrgs : orgs' = [orgs EXCEPT ![o] = [there |-> TRUE, parent |-> c.place]]
    BY <1>3 DEF CommitOrg, Commit
  <2> QED
    BY <1>3, <2>1 DEF CommitOrg, TypeOK
<1>4. ASSUME NEW c \in net, CommitNewMember(c)
      PROVE  raced' = raced /\ \A o \in AllOrgs : orgs[o].there => orgs'[o].there
  <2>1. \/ orgs' = orgs
        \/ \E o \in FreshOrgs : orgs' = [orgs EXCEPT ![o] = [there |-> TRUE, parent |-> None]]
    BY <1>4 DEF CommitNewMember, Commit
  <2> QED
    BY <1>4, <2>1 DEF CommitNewMember, TypeOK, AllOrgs
<1> QED
  BY <1>1, <1>2, <1>3, <1>4, NextSplits DEF Served

\* A deletion that nothing overlapped: only the row itself goes.
LEMMA CleanDeletion ==
  ASSUME TypeOK, CallInv, NameInv, NEW c \in net, CommitOrgDeletion(c), ~raced'
  PROVE  /\ ~raced /\ c.who \in AllOrgs /\ orgs[c.who].there
         /\ members' = members /\ \A m \in AllMembers : members[m].org # c.who
         /\ orgs'[c.who] = NoOrg /\ \A o \in AllOrgs \ {c.who} : orgs'[o].there = orgs[o].there
         /\ \A o \in AllOrgs \ {c.who} :
              orgs[o].there => orgs'[o] = orgs[o] /\ orgs[o].parent # c.who
         /\ \A d \in net : d.state = "checked" => d.place # c.who
<1>1. c.op = "delOrg" /\ c.who \in AllOrgs /\ orgs[c.who].there
  BY CallsTyped DEF CommitOrgDeletion, Fits
<1>2. /\ ~raced /\ Empties(c.who)
      /\ \A d \in net : d.state = "checked" => d.place # c.who
  BY DEF CommitOrgDeletion, TypeOK
<1>3. orgs' = [o \in AllOrgs |-> IF o = c.who THEN NoOrg
                                 ELSE IF orgs[o].parent = c.who THEN [orgs[o] EXCEPT !.parent = None]
                                 ELSE orgs[o]]
  BY DEF CommitOrgDeletion, Commit
<1>4. members' = [m \in AllMembers |-> IF members[m].org = c.who
                                       THEN [members[m] EXCEPT !.org = None] ELSE members[m]]
  BY DEF CommitOrgDeletion, Commit
<1>5. \A m \in AllMembers : members[m].org # c.who
  BY <1>2 DEF Empties
<1>6. members' = members
  <2>1. members = [m \in AllMembers |-> members[m]]
    BY DEF TypeOK
  <2> QED
    BY <1>4, <1>5, <2>1
<1>7. \A o \in AllOrgs : orgs[o].there => orgs[o].parent # c.who
  BY <1>2 DEF Empties, Children, ThereOrgs
<1>8. \A o \in AllOrgs \ {c.who} : orgs'[o].there = orgs[o].there
  <2>1. \A o \in AllOrgs : [orgs[o] EXCEPT !.parent = None].there = orgs[o].there
    BY DEF TypeOK, Org
  <2> QED
    BY <1>3, <2>1
<1> QED
  BY <1>1, <1>2, <1>3, <1>5, <1>6, <1>7, <1>8

\* An organisation that is there after the step, or none.
Stands(p) == p = None \/ orgs'[p].there

\* The commits put what they write into organisations that are there.
LEMMA RowsPlaced ==
  ASSUME TypeOK, CallInv, NameInv, OrphanInv, ~raced, NEW c \in net, Served(c) \/ Fail(c),
         ~CommitOrgDeletion(c), \A o \in AllOrgs : orgs[o].there => orgs'[o].there
  PROVE  NoOrphans'
<1>1. \A p \in Place : Known(p) => Stands(p)
  BY DEF Stands, Known, Place
<1>2. /\ orgs \in [AllOrgs -> Org] /\ members \in [AllMembers -> Member]
      /\ \A o \in AllOrgs : orgs[o].parent \in Place
      /\ \A m \in AllMembers : members[m].org \in Place
  BY DEF TypeOK, Org, Member
<1>3. /\ \A o \in AllOrgs : orgs[o].there => Known(orgs[o].parent)
      /\ \A m \in AllMembers : members[m].there => Known(members[m].org)
  BY DEF OrphanInv, NoOrphans
<1>4. c \in CallsUpTo(sent) /\ Fits(c) /\ c.place \in Place /\ c.data \in Member
  BY CallsTyped DEF CallsUpTo
<1>5. c.op \in Placing /\ c.state = "checked" => Known(c.place)
  BY DEF OrphanInv
<1>6. CASE UNCHANGED <<orgs, members>>
  BY <1>6, <1>3 DEF NoOrphans, Stands, Known
<1>7. CASE CommitOrg(c)
  <2>1. PICK o \in AllOrgs : orgs' = [orgs EXCEPT ![o] = [there |-> TRUE, parent |-> c.place]]
    BY <1>7 DEF CommitOrg, Commit
  <2>2. members' = members /\ Known(c.place)
    BY <1>5, <1>7 DEF CommitOrg, Commit, Placing
  <2>3. \A x \in AllOrgs : orgs'[x].there => Known(orgs'[x].parent) /\ orgs'[x].parent \in Place
    BY <1>2, <1>3, <1>4, <2>1, <2>2
  <2>4. \A x \in AllOrgs : orgs'[x].there => Stands(orgs'[x].parent)
    BY <1>1, <2>3 DEF Stands, Known
  <2> QED
    BY <1>1, <1>2, <1>3, <2>2, <2>4 DEF NoOrphans, Stands, Known
<1>8. CASE CommitMember(c)
  <2>1. /\ orgs' = orgs /\ members' = [members EXCEPT ![c.who] = Changed(c)]
        /\ c.op \in {"putMember", "move", "delMember"} /\ c.state = "checked"
    BY <1>8 DEF CommitMember, Commit
  <2>2. c.who \in AllMembers /\ members[c.who] \in Member
    BY <1>2, <1>4, <2>1 DEF Fits
  <2>3. Changed(c).there => Known(Changed(c).org)
    <3>1. CASE c.op = "putMember"
      <4>1. Changed(c) = Updated(members[c.who], c.data)
        BY <3>1 DEF Changed
      <4>2. Updated(members[c.who], c.data).org = c.place
        BY <1>4, <3>1 DEF Updated, Member, Fits
      <4> QED
        BY <1>5, <2>1, <3>1, <4>1, <4>2 DEF Placing
    <3>2. CASE c.op = "move"
      <4>1. Changed(c) = [members[c.who] EXCEPT !.org = c.place]
        BY <3>2 DEF Changed
      <4> QED
        BY <1>5, <2>1, <2>2, <3>2, <4>1 DEF Placing, Member
    <3>3. CASE c.op = "delMember"
      <4>1. Changed(c) = [members[c.who] EXCEPT !.enabled = FALSE]
        BY <3>3 DEF Changed
      <4>2. Changed(c).there = members[c.who].there /\ Changed(c).org = members[c.who].org
        BY <2>2, <4>1 DEF Member
      <4> QED
        BY <1>3, <2>2, <4>2
    <3> QED
      BY <2>1, <3>1, <3>2, <3>3
  <2>4. \A m \in AllMembers : members'[m].there => Known(members'[m].org)
    BY <1>2, <1>3, <2>1, <2>2, <2>3
  <2> QED
    BY <1>3, <2>1, <2>4 DEF NoOrphans, Stands, Known
<1>9. CASE CommitNewMember(c)
  <2>1. FreshMembers \subseteq AllMembers /\ FreshOrgs \subseteq AllOrgs /\ FreshOrgs \subseteq Place
    BY DEF AllMembers, AllOrgs, Place
  <2>2. \A p : Imported(p).org = p
    BY DEF Imported
  <2>3. ASSUME NEW m \in FreshMembers, NEW x, x.org \in Place, Known(x.org), orgs' = orgs,
               members' = [members EXCEPT ![m] = x]
        PROVE  NoOrphans'
    <3>1. \A n \in AllMembers : members'[n].there => Known(members'[n].org)
      BY <1>2, <1>3, <2>1, <2>3
    <3> QED
      BY <1>3, <2>3, <3>1 DEF NoOrphans, Stands, Known
  <2>4. CASE c.op = "postMember"
    <3>1. PICK m \in FreshMembers : orgs' = orgs /\ members' = [members EXCEPT ![m] = c.data]
      BY <1>9, <2>4 DEF CommitNewMember, Commit
    <3>2. c.data.org = c.place /\ Known(c.place)
      BY <1>4, <1>5, <1>9, <2>4 DEF Fits, Placing, CommitNewMember, Commit
    <3> QED
      BY <1>4, <2>3, <3>1, <3>2
  <2>5. CASE c.op # "postMember" /\ (c.place = None => c.op # "import") /\ ~UNCHANGED <<orgs, members>>
    <3>1. PICK m \in FreshMembers :
            orgs' = orgs /\ members' = [members EXCEPT ![m] = Imported(c.place)]
            /\ (c.op = "batch" => Known(c.place))
      BY <1>9, <2>5 DEF CommitNewMember, Commit
    <3>2. Known(c.place)
      BY <1>5, <1>9, <2>5, <3>1 DEF Placing, CommitNewMember, Commit
    <3> QED
      BY <1>4, <2>2, <2>3, <3>1, <3>2
  <2>6. CASE c.op = "import" /\ c.place = None
    <3>1. PICK m \in FreshMembers, o \in FreshOrgs :
            /\ orgs' = [orgs EXCEPT ![o] = [there |-> TRUE, parent |-> None]]
            /\ members' = [members EXCEPT ![m] = Imported(o)]
      BY <1>9, <2>6 DEF CommitNewMember, Commit
    <3>2. orgs'[o].there
      BY <1>2, <2>1, <3>1
    <3>3. \A n \in AllMembers : members'[n].there => Stands(members'[n].org)
      BY <1>1, <1>2, <1>3, <2>1, <2>2, <3>1, <3>2 DEF Stands, Known
    <3>4. \A x \in AllOrgs : orgs'[x].there => Stands(orgs'[x].parent)
      BY <1>1, <1>2, <1>3, <2>1, <3>1 DEF Stands, Known
    <3> QED
      BY <3>3, <3>4 DEF NoOrphans, Stands, Known
  <2> QED
    BY <1>6, <1>9, <2>4, <2>5, <2>6 DEF CommitNewMember
<1>10. CASE Check(c) \/ OrgGone(c) \/ ServeRead(c) \/ Fail(c)
  BY <1>6, <1>10 DEF Check, OrgGone, ServeRead, Fail, rows
<1> QED
  BY <1>7, <1>8, <1>9, <1>10 DEF Served

LEMMA OrphanStep ==
  ASSUME TypeOK, CallInv, NameInv, OrphanInv, [Next]_vars
  PROVE  OrphanInv'
<1> SUFFICES ASSUME ~raced'
             PROVE  /\ NoOrphans'
                    /\ \A d \in net' : d.op \in Placing /\ d.state = "checked" => Stands(d.place)
  BY DEF OrphanInv, NoOrphans, Stands, Known
<1>1. CASE \E c \in net : CommitOrgDeletion(c)
  <2>1. PICK c \in net : CommitOrgDeletion(c)
    BY <1>1
  <2>2. ~raced /\ members' = members /\ orgs'[c.who] = NoOrg
    BY <2>1, CleanDeletion
  <2>3. \A o \in AllOrgs : orgs[o].there /\ o # c.who => orgs'[o].there
    BY <2>1, CleanDeletion
  <2>4. \A p \in Place : Known(p) /\ p # c.who => Stands(p)
    BY <2>3 DEF Stands, Known, Place
  <2>5. /\ \A o \in AllOrgs : orgs[o].there => Known(orgs[o].parent)
        /\ \A m \in AllMembers : members[m].there => Known(members[m].org)
        /\ \A d \in net : d.op \in Placing /\ d.state = "checked" => Known(d.place)
    BY <2>2 DEF OrphanInv, NoOrphans
  <2>6. \A m \in AllMembers : members'[m].there => Stands(members'[m].org)
    <3>1. \A m \in AllMembers : members[m].org # c.who /\ members[m].org \in Place
      BY <2>1, CleanDeletion DEF TypeOK, Member
    <3> QED
      BY <2>2, <2>4, <2>5, <3>1 DEF Stands, Known
  <2>7. \A o \in AllOrgs : orgs'[o].there => Stands(orgs'[o].parent)
    <3>1. ASSUME NEW o \in AllOrgs, orgs'[o].there
          PROVE  orgs[o].there /\ orgs'[o] = orgs[o] /\ orgs[o].parent # c.who
      <4>1. o # c.who
        BY <2>2, <3>1 DEF NoOrg
      <4> QED
        BY <2>1, <3>1, <4>1, CleanDeletion
    <3>2. \A o \in AllOrgs : orgs[o].parent \in Place
      BY DEF TypeOK, Org
    <3> QED
      BY <2>4, <2>5, <3>1, <3>2 DEF Stands, Known
  <2>8. ASSUME NEW d \in net', d.op \in Placing, d.state = "checked"
        PROVE  Stands(d.place)
    <3>1. d \in net
      <4>1. net' = (net \ {c}) \cup {[c EXCEPT !.state = "ok"]}
        BY <2>1 DEF CommitOrgDeletion, Commit, Reply
      <4>2. [c EXCEPT !.state = "ok"].state = "ok"
        BY CallsTyped DEF CallsUpTo
      <4> QED
        BY <2>8, <4>1, <4>2
    <3>2. d.place \in Place
      BY <3>1, CallsTyped DEF CallsUpTo
    <3>3. d.place # c.who
      BY <2>1, <2>8, <3>1, CleanDeletion
    <3> QED
      BY <2>4, <2>5, <2>8, <3>1, <3>2, <3>3
  <2> QED
    BY <2>6, <2>7, <2>8 DEF NoOrphans, Stands, Known
<1>2. CASE \A c \in net : ~CommitOrgDeletion(c)
  <2>1. ~raced /\ \A o \in AllOrgs : orgs[o].there => orgs'[o].there
    BY <1>2, OrgsStay
  <2>2. \A p \in Place : Known(p) => Stands(p)
    BY <2>1 DEF Stands, Known, Place
  <2>3. NoOrphans'
    <3>1. CASE UNCHANGED <<orgs, members>>
      BY <2>1, <3>1 DEF OrphanInv, NoOrphans, Stands, Known
    <3>2. ASSUME NEW c \in net, Served(c) \/ Fail(c) PROVE NoOrphans'
      BY <1>2, <2>1, <3>2, RowsPlaced
    <3> QED
      BY <3>1, <3>2, PageLeavesRows, NextSplits DEF vars
  <2>4. ASSUME NEW d \in net', d.op \in Placing, d.state = "checked"
        PROVE  Stands(d.place)
    <3>1. d \in net \/ Known(d.place)
      <4>1. CASE Quiet \/ UNCHANGED vars
        BY <4>1 DEF Quiet, vars
      <4>2. ASSUME NEW k, Asks(k) PROVE d \in net
        BY <2>4, <4>2 DEF Asks, Posted
      <4>3. ASSUME NEW c \in net, Served(c) \/ Fail(c) PROVE d \in net \/ Known(d.place)
        BY <2>4, <4>3, CheckedPlaces
      <4> QED
        BY <4>1, <4>2, <4>3, NetShapes
    <3>2. Known(d.place)
      BY <2>1, <2>4, <3>1 DEF OrphanInv
    <3>3. d.place \in Place
      BY <2>4, NetStep DEF CallsUpTo
    <3> QED
      BY <2>2, <3>2, <3>3
  <2> QED
    BY <2>3, <2>4
<1> QED
  BY <1>1, <1>2

-----------------------------------------------------------------------------
(* A member is named as it was, or as typed. *)

LEMMA NamesStep ==
  ASSUME TypeOK, CallInv, NameInv, [Next]_vars
  PROVE  NoNameTakenOver'
<1> SUFFICES ASSUME ~borrowed' PROVE NoNameTakenOver'
  BY DEF NoNameTakenOver
<1>0. ~borrowed
  BY HistoryStays
<1>1. /\ members \in [AllMembers -> Member]
      /\ \A m \in Members : members[m].name \in {m, Typed}
      /\ \A m \in FreshMembers : members[m].there => members[m].name = Typed
  BY <1>0 DEF TypeOK, NameInv, NoNameTakenOver
<1>2. AllMembers = Members \cup FreshMembers /\ Members \cap FreshMembers = {}
  BY IdsAssumption DEF AllMembers
<1>3. CASE UNCHANGED members
  BY <1>1, <1>3 DEF NoNameTakenOver
<1>4. ASSUME NEW c \in net, CommitOrgDeletion(c)
      PROVE  NoNameTakenOver'
  <2>1. members' = [m \in AllMembers |-> IF members[m].org = c.who
                                         THEN [members[m] EXCEPT !.org = None] ELSE members[m]]
    BY <1>4 DEF CommitOrgDeletion, Commit
  <2>2. \A m \in AllMembers : /\ [members[m] EXCEPT !.org = None].name = members[m].name
                              /\ [members[m] EXCEPT !.org = None].there = members[m].there
    BY <1>1 DEF Member
  <2>3. \A m \in AllMembers : members'[m].name = members[m].name
                              /\ members'[m].there = members[m].there
    BY <2>1, <2>2
  <2> QED
    BY <1>1, <1>2, <2>3 DEF NoNameTakenOver
<1>5. ASSUME NEW c \in net, CommitMember(c)
      PROVE  NoNameTakenOver'
  <2>1. /\ members' = [members EXCEPT ![c.who] = Changed(c)]
        /\ c.op \in {"putMember", "move", "delMember"}
    BY <1>5 DEF CommitMember, Commit
  <2>2. c.who \in AllMembers /\ members[c.who] \in Member /\ c.data \in Member
    BY <1>1, <2>1, CallsTyped DEF Fits, CallsUpTo
  <2>3. \/ OwnName(c.who, Changed(c).name)
        \/ Changed(c).name = members[c.who].name /\ Changed(c).there = members[c.who].there
    <3>1. CASE c.op = "putMember"
      <4>1. Changed(c) = Updated(members[c.who], c.data)
        BY <3>1 DEF Changed
      <4>2. Updated(members[c.who], c.data).name = c.data.name
        BY <2>2 DEF Updated, Member
      <4>3. OwnName(c.who, c.data.name)
        BY <3>1, CallsTyped DEF OwnNames
      <4> QED
        BY <4>1, <4>2, <4>3
    <3>2. CASE c.op = "move"
      <4>1. Changed(c) = [members[c.who] EXCEPT !.org = c.place]
        BY <3>2 DEF Changed
      <4> QED
        BY <2>2, <4>1 DEF Member
    <3>3. CASE c.op = "delMember"
      <4>1. Changed(c) = [members[c.who] EXCEPT !.enabled = FALSE]
        BY <3>3 DEF Changed
      <4> QED
        BY <2>2, <4>1 DEF Member
    <3> QED
      BY <2>1, <3>1, <3>2, <3>3
  <2>4. ASSUME NEW m \in AllMembers, m # c.who
        PROVE  members'[m] = members[m]
    BY <1>1, <2>1, <2>4
  <2>5. members'[c.who] = Changed(c)
    BY <1>1, <2>1, <2>2
  <2> QED
    BY <1>0, <1>1, <1>2, <2>2, <2>3, <2>4, <2>5 DEF NoNameTakenOver, OwnName
<1>6. ASSUME NEW c \in net, CommitNewMember(c)
      PROVE  NoNameTakenOver'
  <2>1. \A p : Imported(p).name = Typed
    BY DEF Imported
  <2>2. c.op = "postMember" => c.data.name = Typed
    BY <1>0, CallsTyped DEF OwnNames, NewName
  <2>3. ASSUME NEW m \in FreshMembers, NEW x, x.name = Typed,
               members' = [members EXCEPT ![m] = x]
        PROVE  NoNameTakenOver'
    BY <1>1, <1>2, <2>3 DEF NoNameTakenOver
  <2>4. \/ UNCHANGED members
        \/ \E m \in FreshMembers : \E p : members' = [members EXCEPT ![m] = Imported(p)]
        \/ c.op = "postMember" /\ \E m \in FreshMembers : members' = [members EXCEPT ![m] = c.data]
    BY <1>6 DEF CommitNewMember, Commit
  <2> QED
    BY <1>3, <2>1, <2>2, <2>3, <2>4
<1>7. \/ UNCHANGED members
      \/ \E c \in net : CommitOrgDeletion(c) \/ CommitMember(c) \/ CommitNewMember(c)
  <2>1. ASSUME NEW c \in net, Check(c) \/ OrgGone(c) \/ ServeRead(c) \/ Fail(c) \/ CommitOrg(c)
        PROVE  UNCHANGED members
    BY <2>1 DEF Check, OrgGone, ServeRead, Fail, CommitOrg, Commit, rows
  <2> QED
    BY <2>1, PageLeavesRows, NextSplits DEF Served, vars
<1> QED
  BY <1>3, <1>4, <1>5, <1>6, <1>7

LEMMA NameStep ==
  ASSUME TypeOK, CallInv, NameInv, [Next]_vars
  PROVE  NameInv'
<1>1. OwnRows(listed'.rows)
  <2>1. ASSUME NEW c \in net, MembersAnswered(c)
        PROVE  listed'.rows \in {listed.rows, c.rows}
    BY <2>1 DEF MembersAnswered
  <2>2. \A c \in net : OwnRows(c.rows)
    BY CallsTyped DEF OwnNames
  <2>3. \E ms : listed'.rows = ms /\ OwnRows(ms)
    BY <2>1, <2>2, PageChanges DEF NameInv
  <2> QED
    BY <2>3 DEF OwnRows
<1>2. Found' = Found \/ TokenStep
  BY PageChanges DEF Found
<1>3. ASSUME memberForm'.shown
      PROVE  borrowed' \/ FormName(memberForm'.editing, inputs'[Found'].name)
  <2>1. CASE UNCHANGED <<memberForm, inputs>> /\ Found' = Found
    BY <1>3, <2>1 DEF NameInv
  <2>2. CASE memberForm' = NoForm
    BY <1>3, <2>2 DEF NoForm
  <2>3. ASSUME NEW m \in AllMembers \cup {None}, ShowMemberForm(m)
        PROVE  FormName(memberForm'.editing, inputs'[Found'].name)
    <3>1. /\ memberForm'.editing = m
          /\ inputs'[Found].name = IF m = None THEN Empty ELSE listed.rows[m].name
          /\ m # None => listed.rows[m].there
      BY <2>3, ShownFacts
    <3>2. Found' = Found
      BY <2>3 DEF ShowMemberForm, Found
    <3> QED
      BY <3>1, <3>2 DEF NameInv, OwnRows, FormName
  <2>4. ASSUME NEW p \in Place, NEW i \in Filled(inputs["team"]), SubmitMemberForm(p, i)
        PROVE  FormName(memberForm'.editing, inputs'[Found'].name)
    <3>1. memberForm'.editing = memberForm.editing
      BY <2>4 DEF SubmitMemberForm, TypeOK, FormType
    <3>2. Found' = Found
      BY <2>4 DEF SubmitMemberForm, Found
    <3> QED
      BY <2>4, <3>1, <3>2, SubmitFacts DEF FormName
  <2>5. CASE TokenStep
    BY <1>3, <2>5, TokenTypes, TokenStepLeaves DEF FormName
  <2> QED
    BY <1>2, <2>1, <2>2, <2>3, <2>4, <2>5, PageChanges
<1>4. \A c \in net' : OwnNames(c)
  BY NetStep
<1>5. borrowed => borrowed'
  BY HistoryStays
<1>6. OwnRows(listed.rows)'
  BY <1>1, <1>5 DEF OwnRows, OwnName
<1>7. \A c \in net' : OwnNames(c)'
  BY <1>4, <1>5 DEF OwnNames, OwnRows, OwnName, NewName
<1>8. memberForm'.shown => FormName(memberForm.editing, inputs[Found].name)'
  BY <1>3, <1>5 DEF FormName, OwnName, NewName
<1> QED
  BY <1>6, <1>7, <1>8, NamesStep DEF NameInv, OwnNames, OwnRows, OwnName, NewName

-----------------------------------------------------------------------------
(* The list shown is that of the organisation selected. *)

\* Calls come and go that have nothing to do with the list.
LEMMA CurrentKept ==
  ASSUME NEW calls, NEW more, NEW latest, NEW shown, NEW org, NEW ms,
         Current(calls, latest, shown, org, ms),
         \A c \in calls : c \in more \/ (c.op # "members" /\ ~Renewing(c)),
         \A c \in more : c \in calls \/ c.op # "members"
  PROVE  Current(more, latest, shown, org, ms)
<1>1. Lists(more) = Lists(calls)
  BY DEF Lists
<1>2. (\E c \in calls : Renewing(c)) => \E c \in more : Renewing(c)
  OBVIOUS
<1> QED
  BY <1>1, <1>2 DEF Current

\* The list is asked for anew.
LEMMA CurrentAsked ==
  ASSUME NEW more, NEW latest, NEW shown, NEW org, NEW ms, NEW k \in more,
         k.op = "members", k.who = org, k.state = "sent",
         \A c \in more : c.id <= k.id
  PROVE  Current(more, latest, shown, org, ms)
  BY DEF Current, Lists

LEMMA CurrentRenewed ==
  ASSUME NEW more, NEW latest, NEW shown, NEW org, NEW ms, NEW k \in more, Renewing(k)
  PROVE  Current(more, latest, shown, org, ms)
  BY DEF Current

\* The server has done something for the call c, which is r now.
LEMMA CurrentServed ==
  ASSUME NEW calls, NEW more, NEW latest \in Nat, NEW shown, NEW org, NEW ms,
         NEW c \in calls, NEW r, more = (calls \ {c}) \cup {r}, Same(c, r),
         Current(calls, latest, shown, org, ms),
         Renewing(c) => Renewing(r),
         c.op = "members" => c.state # "failed",
         c.op = "members" => r.state = "failed" \/ r.rows = ms \/ r.who # org
  PROVE  Current(more, latest, shown, org, ms)
<1>1. r.op = c.op /\ r.id = c.id /\ r.who = c.who
  BY DEF Same
<1>2. CASE \E w \in calls : Renewing(w)
  <2>1. \E w \in more : Renewing(w)
    BY <1>2
  <2> QED
    BY <2>1 DEF Current
<1>3. CASE \E w \in Lists(calls) : w.id < latest \/ w.state = "failed"
  <2>1. PICK w \in Lists(calls) : w.id < latest \/ w.state = "failed"
    BY <1>3
  <2>2. CASE w = c
    <3>1. r \in Lists(more) /\ r.id < latest
      BY <1>1, <2>1, <2>2 DEF Lists
    <3> QED
      BY <3>1 DEF Current
  <2>3. CASE w # c
    <3>1. w \in Lists(more)
      BY <2>3 DEF Lists
    <3> QED
      BY <2>1, <3>1 DEF Current
  <2> QED
    BY <2>2, <2>3
<1>4. ASSUME NEW w \in Lists(calls), w.who = org, w.state = "sent" \/ w.rows = ms,
             \A d \in Lists(calls) : d.id <= w.id
      PROVE  Current(more, latest, shown, org, ms)
  <2>1. \A d \in Lists(more) : d.id <= w.id
    BY <1>1, <1>4 DEF Lists
  <2>2. CASE w = c
    <3>1. r \in Lists(more) /\ c.op = "members" /\ r.who = org /\ w.id = r.id
      BY <1>1, <1>4, <2>2 DEF Lists
    <3>2. r.state = "failed" \/ r.rows = ms
      BY <3>1
    <3> QED
      BY <2>1, <3>1, <3>2 DEF Current
  <2>3. CASE w # c
    <3>1. w \in Lists(more)
      BY <2>3 DEF Lists
    <3> QED
      BY <1>4, <2>1, <3>1 DEF Current
  <2> QED
    BY <2>2, <2>3
<1>5. CASE Lists(calls) = {} /\ shown = [org |-> org, rows |-> ms]
  <2>1. Lists(more) = {}
    BY <1>1, <1>5 DEF Lists
  <2> QED
    BY <1>5, <2>1 DEF Current
<1> QED
  BY <1>2, <1>3, <1>4, <1>5 DEF Current

\* The answer c of the members is shown, and none before it was later.
LEMMA CurrentShown ==
  ASSUME NEW calls, NEW latest \in Nat, NEW shown, NEW org, NEW ms,
         \A d \in calls : d.id \in Nat, \A d, e \in calls : d.id = e.id => d = e,
         NEW c \in calls, c.op = "members", c.state = "ok", latest <= c.id,
         Current(calls, latest, shown, org, ms)
  PROVE  Current(calls \ {c}, c.id, [org |-> c.who, rows |-> c.rows], org, ms)
<1> DEFINE more == calls \ {c}
<1>1. c \in Lists(calls) /\ Lists(more) = Lists(calls) \ {c} /\ ~Renewing(c)
  BY DEF Lists, Renewing, Writes
<1>2. CASE \E w \in calls : Renewing(w)
  BY <1>1, <1>2 DEF Current
<1>3. ASSUME NEW w \in Lists(calls), w.id < latest \/ w.state = "failed"
      PROVE  Current(more, c.id, [org |-> c.who, rows |-> c.rows], org, ms)
  <2>1. w \in Lists(more)
    BY <1>1, <1>3 DEF Lists
  <2>2. w.id < c.id \/ w.state = "failed"
    BY <1>3 DEF Lists
  <2> HIDE DEF more
  <2> QED
    BY <2>1, <2>2 DEF Current
<1>4. ASSUME NEW w \in Lists(calls), w.who = org, w.state = "sent" \/ w.rows = ms,
             \A d \in Lists(calls) : d.id <= w.id
      PROVE  Current(more, c.id, [org |-> c.who, rows |-> c.rows], org, ms)
  <2>1. CASE w # c
    <3>1. w \in Lists(more) /\ \A d \in Lists(more) : d.id <= w.id
      BY <1>1, <1>4, <2>1
    <3> HIDE DEF more
    <3> QED
      BY <1>4, <3>1 DEF Current
  <2>2. CASE w = c /\ Lists(more) = {}
    BY <1>4, <2>2 DEF Current
  <2>3. CASE w = c /\ Lists(more) # {}
    <3>1. PICK d \in Lists(more) : TRUE
      BY <2>3
    <3>2. d \in Lists(calls) /\ d \in calls /\ d # c
      BY <1>1 DEF Lists
    <3>3. d.id < c.id
      BY <1>4, <2>3, <3>2
    <3> HIDE DEF more
    <3> QED
      BY <3>3 DEF Current
  <2> QED
    BY <2>1, <2>2, <2>3
<1> QED
  BY <1>1, <1>2, <1>3, <1>4 DEF Current

\* An organisation with nothing below it is deleted: what is below another one
\* stays the same.
LEMMA BelowFrame ==
  ASSUME NEW a, NEW b, NEW o \in AllOrgs, NEW S,
         ~b[o].there, \A x \in AllOrgs \ {o} : b[x].there = a[x].there,
         \A x \in AllOrgs \ {o} : a[x].there => b[x] = a[x] /\ a[x].parent # o
  PROVE  \A x \in AllOrgs \ {o} : x \in Below(a, S) <=> x \in Below(b, S)
<1>1. ThereOrgs(b) = ThereOrgs(a) \ {o}
  BY DEF ThereOrgs
<1>2. \A y \in ThereOrgs(b) : b[y] = a[y] /\ a[y].parent # o
  BY <1>1 DEF ThereOrgs
<1>3. ASSUME NEW x \in AllOrgs \ {o}, x \in Below(a, S), NEW C \in SUBSET AllOrgs, S \subseteq C,
             \A y \in ThereOrgs(b) : b[y].parent \in C => y \in C
      PROVE  x \in C
  <2>1. C \cup {o} \in SUBSET AllOrgs /\ S \subseteq C \cup {o}
    BY <1>3
  <2>2. \A y \in ThereOrgs(a) : a[y].parent \in C \cup {o} => y \in C \cup {o}
    BY <1>1, <1>2, <1>3
  <2>3. x \in C \cup {o}
    BY <1>3, <2>1, <2>2 DEF Below
  <2> QED
    BY <2>3
<1>4. ASSUME NEW x \in AllOrgs \ {o}, x \in Below(b, S), NEW C \in SUBSET AllOrgs, S \subseteq C,
             \A y \in ThereOrgs(a) : a[y].parent \in C => y \in C
      PROVE  x \in C
  <2>1. \A y \in ThereOrgs(b) : b[y].parent \in C => y \in C
    BY <1>1, <1>2, <1>4
  <2> QED
    BY <1>4, <2>1 DEF Below
<1>5. \A x \in AllOrgs \ {o} : x \in Below(a, S) => x \in Below(b, S)
  BY <1>3 DEF Below
<1>6. \A x \in AllOrgs \ {o} : x \in Below(b, S) => x \in Below(a, S)
  BY <1>4 DEF Below
<1> QED
  BY <1>5, <1>6

LEMMA MembersFrame ==
  ASSUME TypeOK, CallInv, NameInv, NEW c \in net, CommitOrgDeletion(c), ~raced', NEW s
  PROVE  MembersOf(s)' = MembersOf(s)
<1>1. c.who \in AllOrgs /\ ~orgs'[c.who].there
  BY CleanDeletion DEF NoOrg
<1>2. \A x \in AllOrgs \ {c.who} : orgs'[x].there = orgs[x].there
  BY CleanDeletion
<1>3. \A x \in AllOrgs \ {c.who} : orgs[x].there => orgs'[x] = orgs[x] /\ orgs[x].parent # c.who
  BY CleanDeletion
<1>4. \A x \in AllOrgs \ {c.who} : x \in Below(orgs, {s}) <=> x \in Below(orgs', {s})
  BY <1>1, <1>2, <1>3, BelowFrame
<1>5. Below(orgs, {s}) \subseteq AllOrgs /\ Below(orgs', {s}) \subseteq AllOrgs
  BY DEF Below
<1>6. members' = members /\ \A m \in AllMembers : members[m].org # c.who
  BY CleanDeletion
<1>7. \A m \in AllMembers : members[m].org \in Below(orgs, {s}) <=> members[m].org \in Below(orgs', {s})
  BY <1>4, <1>5, <1>6
<1> QED
  BY <1>6, <1>7 DEF MembersOf

\* What Current says after a step.
CurrentNext(ms) == Current(net', newest', listed', selected', ms)

\* Steps of the user.
LEMMA CurrentByUser ==
  ASSUME TypeOK, CallInv, NameInv, UserStep, selected' # None,
         selected # None => Current(net, newest, listed, selected, MembersOf(selected))
  PROVE  CurrentNext(MembersOf(selected'))
<1>1. /\ UNCHANGED <<listed, newest>>
      /\ UNCHANGED selected \/ \E o \in AllOrgs : SelectOrg(o)
  <2>1. UNCHANGED <<listed, newest>>
    BY DEF UserStep, Load, SelectOrg, EditOrg, DeleteOrg, AddOrg, SubmitOrgForm, MoveMember,
       HideOrgForm, ShowMemberForm, HideMemberForm, SubmitMemberForm, RemoveMember, ShowMoveDialog,
       CloseMoveDialog, BatchImport, lists, ghosts
  <2>2. UNCHANGED selected \/ \E o \in AllOrgs : SelectOrg(o)
    BY DEF UserStep, Load, EditOrg, DeleteOrg, AddOrg, SubmitOrgForm, MoveMember,
       HideOrgForm, ShowMemberForm, HideMemberForm, SubmitMemberForm, RemoveMember, ShowMoveDialog,
       CloseMoveDialog, BatchImport, lists
  <2> QED
    BY <2>1, <2>2
<1>2. ASSUME NEW o \in AllOrgs, SelectOrg(o)
      PROVE  CurrentNext(MembersOf(selected'))
  <2>1. PICK k : Asks(k) /\ net' = net \cup {k} /\ k.op = "members" /\ k.who = o
    BY <1>2, MembersAsked DEF SelectOrg, TypeOK
  <2>2. selected' = o
    BY <1>2 DEF SelectOrg
  <2>3. k \in net' /\ k.state = "sent" /\ k.id = sent + 1
    BY <2>1 DEF Asks, Posted
  <2>4. \A c \in net' : c.id <= k.id
    <3>1. sent \in Nat /\ \A c \in net : c.id \in 1..sent
      BY CallsTyped DEF CallsUpTo, TypeOK
    <3> QED
      BY <2>1, <2>3, <3>1
  <2> QED
    BY <2>1, <2>2, <2>3, <2>4, CurrentAsked DEF CurrentNext
<1>3. CASE \A o \in AllOrgs : ~SelectOrg(o)
  <2>1. UNCHANGED <<selected, listed, newest>>
    BY <1>1, <1>3
  <2>2. net \subseteq net' /\ \A c \in net' : c \in net \/ c.op # "members"
    <3>1. \A n, op, who, place : Call(n, op, who, place).op = op
      BY DEF Call
    <3>2. \A n, op, who, place, f : [Call(n, op, who, place) EXCEPT !.follow = f].op = op
      BY DEF Call
    <3>3. \A n, op, who, place, x, y :
            [Call(n, op, who, place) EXCEPT !.data = x, !.seen = y].op = op
      BY DEF Call
    <3>4. CASE Load
      BY <3>2, <3>4 DEF Load, AskLoad, Ask
    <3>5. CASE \E o \in AllOrgs : DeleteOrg(o)
      BY <3>1, <3>5 DEF DeleteOrg, Ask
    <3>6. CASE \E p \in Place : SubmitOrgForm(p) \/ MoveMember(p)
      BY <3>1, <3>6 DEF SubmitOrgForm, MoveMember, Ask
    <3>7. CASE BatchImport \/ \E m \in AllMembers : RemoveMember(m)
      BY <3>1, <3>7 DEF BatchImport, RemoveMember, Ask
    <3>8. ASSUME NEW p \in Place, NEW i \in Filled(inputs["team"]), SubmitMemberForm(p, i)
          PROVE  net \subseteq net' /\ \A c \in net' : c \in net \/ c.op # "members"
      <4> DEFINE op == IF memberForm.editing # None THEN "putMember" ELSE "postMember"
                 x == MemberData(inputs'[Found], p)
                 y == MemberData(i, p)
                 k == [Call(sent + 1, op, memberForm.editing, p) EXCEPT !.data = x, !.seen = y]
      <4>1. net' = net \cup {k}
        BY <3>8 DEF SubmitMemberForm, Ask
      <4>2. op # "members"
        OBVIOUS
      <4> HIDE DEF op, x, y
      <4>3. k.op = op
        BY DEF Call
      <4> HIDE DEF k
      <4> QED
        BY <4>1, <4>2, <4>3
    <3>9. net' = net \/ Load \/ BatchImport
          \/ (\E o \in AllOrgs : SelectOrg(o) \/ DeleteOrg(o))
          \/ (\E p \in Place : SubmitOrgForm(p) \/ MoveMember(p))
          \/ (\E m \in AllMembers : RemoveMember(m))
          \/ (\E p \in Place, i \in Filled(inputs["team"]) : SubmitMemberForm(p, i))
      BY DEF UserStep, EditOrg, AddOrg, HideOrgForm, ShowMemberForm, HideMemberForm,
             ShowMoveDialog, CloseMoveDialog
    <3> QED
      BY <1>3, <3>4, <3>5, <3>6, <3>7, <3>8, <3>9
  <2>3. Current(net, newest, listed, selected, MembersOf(selected))
    BY <2>1
  <2>4. Current(net', newest, listed, selected, MembersOf(selected))
    BY <2>2, <2>3, CurrentKept
  <2> QED
    BY <2>1, <2>4 DEF CurrentNext
<1> QED
  BY <1>2, <1>3

\* Answers.
LEMMA CurrentByAnswer ==
  ASSUME TypeOK, CallInv, NameInv, NEW c \in net, Answered(c), selected' # None, ~late',
         selected # None => Current(net, newest, listed, selected, MembersOf(selected))
  PROVE  CurrentNext(MembersOf(selected'))
<1> DEFINE rest == net \ {c}
           ms == MembersOf(selected)
<1>1. /\ sent \in Nat /\ rest \in SUBSET net /\ selected \in Place /\ newest \in Nat
      /\ \A d \in net : d.id \in 1..sent /\ d.id \in Nat
      /\ \A d, e \in net : d.id = e.id => d = e
  BY CallsTyped DEF TypeOK, CallsUpTo, CallInv
<1>2. selected' = selected
  BY DEF Answered, LoadAnswered, MembersAnswered, OrgSaved, OrgDeleted, MemberSaved,
     MemberRemoved, Moved, BatchDone, CallFailed, lists
<1>3. Current(net, newest, listed, selected, ms)
  BY <1>2
<1>4. ASSUME NEW k, Asks(k), net' = rest \cup {k}, k.op = "members", k.who = selected
      PROVE  CurrentNext(MembersOf(selected'))
  <2>1. k \in net' /\ k.state = "sent" /\ \A d \in net' : d.id <= k.id
    BY <1>1, <1>4 DEF Asks, Posted
  <2> QED
    BY <1>2, <1>4, <2>1, CurrentAsked DEF CurrentNext
<1>5. ASSUME AskLoad(rest, TRUE)
      PROVE  CurrentNext(MembersOf(selected'))
  <2>1. PICK k : k \in net' /\ k.op = "load" /\ k.follow
    BY <1>1, <1>5, LoadAsks DEF Asks
  <2> QED
    BY <2>1, CurrentRenewed DEF CurrentNext, Renewing
<1>6. ASSUME UNCHANGED <<listed, newest>>, c.op # "members", ~Renewing(c),
             net' = rest \/ \E k : net' = rest \cup {k} /\ k.op = "load"
      PROVE  CurrentNext(MembersOf(selected'))
  <2>1. /\ \A d \in net : d \in net' \/ (d.op # "members" /\ ~Renewing(d))
        /\ \A d \in net' : d \in net \/ d.op # "members"
    BY <1>6
  <2>2. Current(net', newest, listed, selected, ms)
    BY <1>3, <2>1, CurrentKept
  <2> QED
    BY <1>2, <1>6, <2>2 DEF CurrentNext
<1>7. CASE LoadAnswered(c)
  <2>1. CASE c.follow
    <3>1. selected \in AllOrgs /\ Ask(rest, Call(sent + 1, "members", selected, None))
      BY <1>1, <1>2, <1>7, <2>1 DEF LoadAnswered, Place
    <3> QED
      BY <1>1, <1>4, <3>1, MembersAsked
  <2>2. CASE ~c.follow
    <3>1. net' = rest /\ UNCHANGED <<listed, newest>> /\ c.op = "load"
      BY <1>7, <2>2 DEF LoadAnswered, Done, ghosts
    <3>2. ~Renewing(c)
      BY <2>2, <3>1 DEF Renewing, Writes
    <3> QED
      BY <1>6, <3>1, <3>2
  <2> QED
    BY <2>1, <2>2
<1>8. CASE MembersAnswered(c)
  <2>1. /\ c.op = "members" /\ c.state = "ok" /\ newest <= c.id /\ newest' = c.id
        /\ net' = rest /\ listed' = [org |-> c.who, rows |-> c.rows]
    <3>1. c.op = "members" /\ c.state \in {"ok", "failed"} /\ net' = rest
      BY <1>8 DEF MembersAnswered, Done
    <3>2. late' = (late \/ c.id < newest \/ c.state = "failed")
      BY <1>8 DEF MembersAnswered
    <3>3. ~(c.id < newest) /\ c.state # "failed"
      BY <3>2, Zenon
    <3>4. newest <= c.id /\ newest' = c.id
      BY <1>1, <1>8, <3>3 DEF MembersAnswered
    <3> QED
      BY <1>8, <3>1, <3>3, <3>4 DEF MembersAnswered
  <2>2. Current(rest, c.id, [org |-> c.who, rows |-> c.rows], selected, ms)
    BY <1>1, <1>3, <2>1, CurrentShown
  <2> QED
    BY <1>2, <2>1, <2>2 DEF CurrentNext
<1>9. CASE OrgSaved(c) \/ MemberSaved(c) \/ BatchDone(c)
  BY <1>5, <1>9 DEF OrgSaved, MemberSaved, BatchDone
<1>10. CASE OrgDeleted(c)
  <2>1. UNCHANGED <<listed, newest>> /\ c.op = "delOrg"
    BY <1>10 DEF OrgDeleted, ghosts
  <2>2. \E k : net' = rest \cup {k} /\ k.op = "load"
    BY <1>1, <1>10, LoadAsks DEF OrgDeleted
  <2>3. ~Renewing(c)
    BY <2>1 DEF Renewing
  <2> QED
    BY <1>6, <2>1, <2>2, <2>3
<1>11. CASE Reload(rest)
  BY <1>1, <1>2, <1>4, <1>11, ReloadAsks
<1>12. CASE MemberRemoved(c) \/ Moved(c)
  BY <1>11, <1>12 DEF MemberRemoved, Moved
<1>13. CASE CallFailed(c)
  <2>1. /\ UNCHANGED <<listed, newest>> /\ c.op \in Writes /\ c.state = "failed"
        /\ net' = rest
    BY <1>13 DEF CallFailed, lists, ghosts, Done
  <2>2. c.op # "members" /\ ~Renewing(c)
    BY <2>1 DEF Renewing, Writes
  <2> QED
    BY <1>6, <2>1, <2>2
<1> QED
  BY <1>7, <1>8, <1>9, <1>10, <1>12, <1>13 DEF Answered

\* What the server does.
LEMMA CurrentByServer ==
  ASSUME TypeOK, CallInv, NameInv, NEW c \in net, NEW r, Served(c) \/ Fail(c), Becomes(c, r),
         selected # None, ~late, ~late', ~raced',
         Current(net, newest, listed, selected, MembersOf(selected))
  PROVE  CurrentNext(MembersOf(selected)')
<1> DEFINE ms == MembersOf(selected)
<1>1. /\ newest \in Nat /\ c \in CallsUpTo(sent) /\ Fits(c)
      /\ UNCHANGED <<selected, listed, newest>>
  BY CallsTyped, ServerLeavesPage DEF lists, TypeOK
<1>2. /\ net' = (net \ {c}) \cup {r} /\ Same(c, r)
      /\ c.op = "members" => r.state = "failed" \/ r.rows = MembersOf(c.who)
  BY DEF Becomes
<1>3. r \in net' /\ r.op = c.op /\ r.who = c.who /\ r.follow = c.follow
  BY <1>2 DEF Same
<1>4. CASE CommitOrgDeletion(c)
  <2>1. MembersOf(selected)' = ms
    <3>1. \A s : MembersOf(s)' = MembersOf(s)
      BY <1>4, MembersFrame
    <3> QED
      BY <1>1, <3>1 DEF MembersOf
  <2>2. c.op = "delOrg"
    BY <1>4 DEF CommitOrgDeletion
  <2>3. ~Renewing(c) /\ c.op # "members"
    BY <2>2 DEF Renewing
  <2>4. Current(net', newest, listed, selected, ms)
    BY <1>1, <1>2, <2>3, CurrentServed
  <2> QED
    BY <1>1, <2>1, <2>4 DEF CurrentNext
<1>5. CASE /\ c.op \in Writes \ {"delOrg"} /\ Marked(c, "ok")
  <2>1. [c EXCEPT !.state = "ok"].state = "ok" /\ [c EXCEPT !.state = "ok"].op = c.op
    BY <1>1 DEF CallsUpTo
  <2>2. \E k \in net' : k.op \in Writes \ {"delOrg"} /\ k.state = "ok"
    BY <1>5, <2>1 DEF Marked
  <2> QED
    BY <2>2, CurrentRenewed DEF CurrentNext, Renewing
<1>6. CASE Check(c) \/ OrgGone(c) \/ ServeRead(c) \/ Fail(c)
  <2>1. UNCHANGED <<orgs, members>>
    BY <1>6 DEF Check, OrgGone, ServeRead, Fail, rows
  <2>2. MembersOf(selected)' = ms
    BY <1>1, <2>1 DEF MembersOf, Below, ThereOrgs
  <2>3. Renewing(c) => Renewing(r)
    <3>1. CASE c.op = "load" /\ c.follow
      BY <1>3, <3>1 DEF Renewing
    <3>2. ~(c.op \in Writes \ {"delOrg"} /\ c.state = "ok")
      <4>1. CASE Check(c) \/ OrgGone(c) \/ ServeRead(c)
        BY <4>1 DEF Check, OrgGone, ServeRead
      <4>2. CASE Fail(c)
        <5>1. late' = (late \/ (c.op \in Writes /\ c.state = "ok"))
          BY <4>2 DEF Fail
        <5>2. ~(c.op \in Writes /\ c.state = "ok")
          BY <5>1, Zenon
        <5> QED
          BY <5>2
      <4> QED
        BY <1>6, <4>1, <4>2
    <3> QED
      BY <3>1, <3>2 DEF Renewing
  <2>4. c.op = "members" => c.state # "failed"
    BY <1>6 DEF Check, OrgGone, ServeRead, Fail, Writes
  <2>5. c.op = "members" => r.state = "failed" \/ r.rows = ms \/ r.who # selected
    BY <1>2, <1>3
  <2> HIDE DEF ms
  <2>6. Current(net, newest, listed, selected, ms)
    BY DEF ms
  <2>7. Current(net', newest, listed, selected, ms)
    BY <1>1, <1>2, <2>3, <2>4, <2>5, <2>6, CurrentServed
  <2> QED
    BY <1>1, <2>2, <2>7 DEF CurrentNext
<1> QED
  BY <1>4, <1>5, <1>6, CommitMarks

LEMMA CurrentStep ==
  ASSUME TypeOK, CallInv, NameInv, CurrentInv, [Next]_vars
  PROVE  CurrentInv'
<1> SUFFICES ASSUME ~late', ~raced', selected' # None
             PROVE  CurrentNext(MembersOf(selected)')
  BY DEF CurrentInv, CurrentNext
<1>1. ~late /\ ~raced
  BY HistoryStays
<1>2. selected # None => Current(net, newest, listed, selected, MembersOf(selected))
  BY <1>1 DEF CurrentInv
<1>3. CASE UNCHANGED vars
  <2>1. UNCHANGED <<orgs, members, net, newest, listed, selected>>
    BY <1>3 DEF vars
  <2>2. MembersOf(selected)' = MembersOf(selected)
    BY <2>1 DEF MembersOf, Below, ThereOrgs
  <2> QED
    BY <1>2, <2>1, <2>2 DEF CurrentNext
<1>4. CASE PageStep
  <2>1. UNCHANGED <<orgs, members>>
    BY <1>4, PageLeavesRows
  <2>2. MembersOf(selected)' = MembersOf(selected')
    BY <2>1 DEF MembersOf, Below, ThereOrgs
  <2>3. CurrentNext(MembersOf(selected'))
    <3>1. CASE TokenStep
      <4>1. UNCHANGED <<net, newest, listed, selected>>
        BY <3>1, TokenStepLeaves
      <4> QED
        BY <1>2, <4>1 DEF CurrentNext
    <3> QED
      BY <1>2, <1>4, <3>1, CurrentByUser, CurrentByAnswer DEF PageStep
  <2> QED
    BY <2>2, <2>3
<1>5. ASSUME NEW c \in net, Served(c) \/ Fail(c)
      PROVE  CurrentNext(MembersOf(selected)')
  <2>1. PICK r : Becomes(c, r)
    BY <1>5, ServerCalls
  <2>2. selected' = selected
    BY <1>5, ServerLeavesPage DEF lists
  <2> QED
    BY <1>1, <1>2, <1>5, <2>1, <2>2, CurrentByServer
<1> QED
  BY <1>3, <1>4, <1>5, NextSplits

-----------------------------------------------------------------------------
LEMMA InitIInv == Init => IInv
<1> SUFFICES ASSUME Init PROVE IInv
  OBVIOUS
<1> USE DEF Init
<1>1. /\ \A o \in Orgs : [there |-> TRUE, parent |-> Parent[o]] \in Org
      /\ \A m \in Members : [there |-> TRUE, name |-> m, org |-> Seat[m], models |-> Models,
                             enabled |-> TRUE] \in Member
  BY IdsAssumption DEF Org, Member, Place, AllOrgs, Names, AllMembers
<1>2. orgs \in [AllOrgs -> Org]
  BY <1>1, Blanks
<1>3. members \in [AllMembers -> Member]
  BY <1>1, Blanks
<1>4. TypeOK
  <2>1. tree \in [AllOrgs -> Org] /\ flat \subseteq AllOrgs /\ allModels \subseteq Models
        /\ selected \in Place
    BY <1>2, Blanks DEF AllOrgs, Place
  <2>2. listed \in [org : Place, rows : [AllMembers -> Member]]
    BY Blanks DEF Place
  <2>3. /\ orgForm \in FormType /\ memberForm \in FormType
        /\ orgForm.editing \in Place /\ memberForm.editing \in AllMembers \cup {None}
        /\ moveDialog \in AllMembers \cup {None}
        /\ inputs \in [{"team", "tokens"} -> Inputs] /\ tokensDrawn \in BOOLEAN
    BY FormsTyped DEF NoForm, Place
  <2>4. /\ net \subseteq CallType /\ sent \in Nat /\ acts \in 0..MaxActs /\ fails \in 0..MaxFails
        /\ newest \in 0..sent /\ late \in BOOLEAN /\ raced \in BOOLEAN /\ borrowed \in BOOLEAN
    <3>1. net \subseteq CallType
      OBVIOUS
    <3>2. sent \in Nat /\ acts \in 0..MaxActs /\ fails \in 0..MaxFails /\ newest \in 0..sent
      BY BoundsAssumption
    <3>3. late \in BOOLEAN /\ raced \in BOOLEAN /\ borrowed \in BOOLEAN
      OBVIOUS
    <3> QED
      BY <3>1, <3>2, <3>3
  <2> QED
    BY <1>2, <1>3, <2>1, <2>2, <2>3, <2>4 DEF TypeOK
<1>5. CallInv /\ CurrentInv
  BY DEF CallInv, CurrentInv
<1>6. OrphanInv
  <2>1. \A o \in AllOrgs : orgs[o].there => o \in Orgs /\ orgs[o].parent = Parent[o]
    BY DEF NoOrg
  <2>2. \A m \in AllMembers : members[m].there => m \in Members /\ members[m].org = Seat[m]
    BY DEF NoMember
  <2>3. \A o \in Orgs : orgs[o].there
    BY DEF AllOrgs
  <2>4. \A o \in Orgs : Parent[o] \in Orgs \cup {None}
    BY IdsAssumption
  <2>5. \A m \in Members : Seat[m] \in Orgs
    BY IdsAssumption
  <2> QED
    BY <2>1, <2>2, <2>3, <2>4, <2>5 DEF OrphanInv, NoOrphans, Known
<1>7. NameInv
  <2>1. \A m \in Members : members[m].name = m
    BY DEF AllMembers
  <2>2. \A m \in FreshMembers : ~members[m].there
    BY IdsAssumption DEF AllMembers, NoMember
  <2>3. ~memberForm.shown /\ net = {} /\ OwnRows(listed.rows)
    BY Blanks DEF NoForm
  <2> QED
    BY <2>1, <2>2, <2>3 DEF NameInv, NoNameTakenOver
<1> QED
  BY <1>4, <1>5, <1>6, <1>7 DEF IInv

-----------------------------------------------------------------------------
\* Whatever users and routes do, and in whatever order, the named parts of the
\* invariant hold of the page, the calls and the rows (team.js, team.py).
THEOREM Invariance == Spec => []IInv
<1>1. Init => IInv
  BY InitIInv
<1>2. IInv /\ [Next]_vars => IInv'
  <2> SUFFICES ASSUME IInv, [Next]_vars PROVE IInv'
    OBVIOUS
  <2>1. TypeOK /\ CallInv /\ OrphanInv /\ NameInv /\ CurrentInv
    BY DEF IInv
  <2>2. CallInv'
    BY <2>1, NetStep
  <2> QED
    BY <2>1, <2>2, TypeStep, OrphanStep, NameStep, CurrentStep DEF IInv
<1> QED
  BY <1>1, <1>2, PTL DEF Spec

\* The rows, the page and the calls under way keep their types.
THEOREM TeamTypes == Spec => []TypeOK
<1>1. IInv => TypeOK
  BY DEF IInv
<1> QED
  BY <1>1, Invariance, PTL

\* A member and an organisation point at organisations that are there, as long
\* as no deletion overlapped another call between its check and its commit
\* (team.py:218-222, 245-248, 317-321, 387-392, 458-461).
THEOREM NoOrphanRows == Spec => []NoOrphans
<1>1. IInv => NoOrphans
  BY DEF IInv, OrphanInv
<1> QED
  BY <1>1, Invariance, PTL

\* A member keeps its name or gets one that was typed, and so does a new one,
\* although the code may find the inputs of the token page, unless that page
\* filled its form under an open member form (team.js:307-314, 358-360).
THEOREM FormNamesItsMember == Spec => []NoNameTakenOver
<1>1. IInv => NoNameTakenOver
  BY DEF IInv, NameInv
<1> QED
  BY <1>1, Invariance, PTL

\* With nothing under way the members shown are the rows below the organisation
\* selected, unless an answer was overtaken, failed or was not asked for, or a
\* deletion was overlapped (team.js:125-145, 258, 408, 425, 475).
THEOREM ListIsOfSelected == Spec => []MembersOfSelected
<1>1. IInv => MembersOfSelected
  <2> SUFFICES ASSUME CurrentInv, net = {}, ~late, ~raced, selected # None
               PROVE  listed = [org |-> selected, rows |-> MembersOf(selected)]
    BY DEF IInv, MembersOfSelected
  <2>1. Current({}, newest, listed, selected, MembersOf(selected))
    BY DEF CurrentInv
  <2> QED
    BY <2>1 DEF Current, Lists
<1> QED
  BY <1>1, Invariance, PTL

=============================================================================
