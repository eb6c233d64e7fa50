---------------------------- MODULE ConsoleProofs ----------------------------
(***************************************************************************)
(* Proofs about two parts of the admin console.                            *)
(*                                                                         *)
(* AdminShell, for any routes, any number of calls under way and any       *)
(* bounds: the types, that no protected page is shown before the server    *)
(* has confirmed a session, and that the page at rest is the page of the   *)
(* address bar.                                                            *)
(*                                                                         *)
(* TokensPage, for any tokens, models and bounds: the types, that a form   *)
(* writes the token it was opened for, and that the list catches up with   *)
(* the rows.                                                               *)
(***************************************************************************)
EXTENDS AdminShell, TokensPage, TLAPS

-----------------------------------------------------------------------------
(* The inductive invariant: the flag of the router, and an answer that says
   yes, both rest on a confirmation by the server. *)

FlagInv   == authed => vouched
AnswerInv == \A s \in Slots : slot[s].answer = "yes" => vouched

IInv == ShellTypeOK /\ NoPageBeforeLogin /\ FlagInv /\ AnswerInv

(* What keeps the page in step with the hash: when no event is queued the page
   is that of the hash, or a guard is on its way for it. *)

GuardInv == \A s \in Slots : slot[s].kind = "guard" => slot[s].path # Login
Guarded  == \E s \in Slots : slot[s].kind = "guard" /\ slot[s].path = hash
Follows  == events = 0 => RouteOf(hash) = current \/ Guarded
RestInv  == boot = "running" /\ ~overtaken => Follows

-----------------------------------------------------------------------------
(* Calls. *)

SlotType == [Slots -> Calls \cup {Free}]

LEMMA RequestIsCall ==
  ASSUME NEW k \in Kinds, NEW p \in Paths
  PROVE  Request(k, p) \in Calls
<1>1. "sent" \in Answers
  BY DEF Answers
<1> QED
  BY <1>1, Zenon DEF Request, Calls

LEMMA PathTypes ==
  /\ Home \in Paths /\ Login \in Paths /\ Routes \subseteq Paths
  /\ Home # Login /\ NoPage \notin Pages
  /\ RouteOf(Home) = Home /\ RouteOf(Login) = Login
<1>1. Home \notin Subpaths /\ Login \notin Subpaths
  BY RoutesAssumption
<1>2. RouteOf(Home) = Home /\ RouteOf(Login) = Login
  BY <1>1, Zenon DEF RouteOf
<1> QED
  BY <1>2, RoutesAssumption DEF Paths, Routes, NoPage

LEMMA FreeOrCall ==
  ASSUME ShellTypeOK, NEW s \in Slots
  PROVE  /\ slot[s] \in Calls \cup {Free}
         /\ slot[s] # Free => slot[s].path \in Paths
         /\ slot[s].kind \in Kinds => slot[s] # Free
<1>1. slot[s] \in Calls \cup {Free}
  BY DEF ShellTypeOK
<1>2. slot[s] # Free => slot[s].path \in Paths
  BY <1>1 DEF Calls
<1>3. Free.kind \notin Kinds
  BY DEF Free, Kinds
<1> QED
  BY <1>1, <1>2, <1>3

\* A slot that is cleared, and one that takes a request, keep types and answers.
LEMMA ClearKeeps ==
  ASSUME ShellTypeOK, AnswerInv, NEW s \in Slots
  PROVE  /\ Clear(s) \in SlotType
         /\ \A r \in Slots : Clear(s)[r].answer = "yes" => vouched
<1>1. slot \in SlotType /\ Free \in Calls \cup {Free}
  BY DEF ShellTypeOK, SlotType
<1>2. Clear(s) \in SlotType
  BY <1>1 DEF Clear, SlotType
<1>3. \A r \in Slots : Clear(s)[r] = Free \/ Clear(s)[r] = slot[r]
  BY <1>1 DEF Clear, SlotType
<1>4. Free.answer # "yes"
  BY DEF Free
<1> QED
  BY <1>2, <1>3, <1>4 DEF AnswerInv

LEMMA SendKeeps ==
  ASSUME NEW calls \in SlotType, NEW k \in Kinds, NEW p \in Paths,
         \A s \in Slots : calls[s].answer = "yes" => vouched,
         Send(calls, Request(k, p))
  PROVE  /\ slot' \in SlotType
         /\ \A s \in Slots : slot'[s].answer = "yes" => vouched
<1>1. Request(k, p) \in Calls
  BY RequestIsCall
<1>2. PICK s \in Slots : slot' = [calls EXCEPT ![s] = Request(k, p)]
  BY DEF Send
<1>3. slot' \in SlotType
  BY <1>1, <1>2 DEF SlotType
<1>4. \A r \in Slots : slot'[r] = Request(k, p) \/ slot'[r] = calls[r]
  BY <1>2 DEF SlotType
<1>5. Request(k, p).answer # "yes"
  BY DEF Request
<1> QED
  BY <1>3, <1>4, <1>5

-----------------------------------------------------------------------------
(* Hashes and pages. *)

LEMMA GoToKeeps ==
  ASSUME NEW p \in Paths, NEW left \in Nat, GoTo(p, left)
  PROVE  hash' \in Paths /\ events' \in Nat
BY DEF GoTo

\* What a page that is shown may rest on.
LEMMA DoResolveKeeps ==
  ASSUME NEW p \in Paths, NEW calls \in SlotType, NEW left \in Nat,
         ShellTypeOK, NoPageBeforeLogin,
         \A s \in Slots : calls[s].answer = "yes" => vouched,
         p = Login \/ vouched,
         DoResolve(p, calls, left)
  PROVE  /\ hash' \in Paths /\ events' \in Nat
         /\ current' \in Routes \cup {NoPage}
         /\ current' \in Pages => vouched
         /\ slot' \in SlotType
         /\ \A s \in Slots : slot'[s].answer = "yes" => vouched
<1>1. CASE RouteOf(p) \notin Routes
  <2>1. GoTo(Home, left) /\ slot' = calls /\ current' = current
    BY <1>1 DEF DoResolve
  <2>2. hash' \in Paths /\ events' \in Nat
    BY <2>1, PathTypes, GoToKeeps
  <2> QED
    BY <2>1, <2>2 DEF ShellTypeOK, NoPageBeforeLogin
<1>2. CASE RouteOf(p) \in Routes
  <2>1. /\ current' = RouteOf(p) /\ events' = left /\ hash' = hash
        /\ Send(calls, Request(IF p = Login THEN "welcome" ELSE "api", RouteOf(p)))
    BY <1>2 DEF DoResolve
  <2>2. (IF p = Login THEN "welcome" ELSE "api") \in Kinds
    BY DEF Kinds
  <2>3. /\ slot' \in SlotType
        /\ \A s \in Slots : slot'[s].answer = "yes" => vouched
    <3>1. RouteOf(p) \in Paths
      BY <1>2, PathTypes
    <3>2. PICK k \in Kinds : Send(calls, Request(k, RouteOf(p)))
      BY <2>1, <2>2, Zenon
    <3> QED
      BY <3>1, <3>2, SendKeeps
  <2>4. current' \in Pages => vouched
    BY <2>1, PathTypes, RoutesAssumption
  <2> QED
    BY <1>2, <2>1, <2>3, <2>4 DEF ShellTypeOK
<1> QED
  BY <1>1, <1>2

LEMMA ResolveKeeps ==
  ASSUME NEW left \in Nat, IInv, Resolve(left)
  PROVE  /\ hash' \in Paths /\ events' \in Nat
         /\ current' \in Routes \cup {NoPage}
         /\ current' \in Pages => vouched
         /\ slot' \in SlotType
         /\ \A s \in Slots : slot'[s].answer = "yes" => vouched
<1> USE DEF IInv
<1>1. /\ slot \in SlotType /\ hash \in Paths
      /\ \A s \in Slots : slot[s].answer = "yes" => vouched
  BY DEF ShellTypeOK, SlotType, AnswerInv
<1>2. CASE Send(slot, Request("guard", hash)) /\ events' = left /\ UNCHANGED <<hash, current>>
  <2>1. "guard" \in Kinds
    BY DEF Kinds
  <2>2. /\ slot' \in SlotType
        /\ \A s \in Slots : slot'[s].answer = "yes" => vouched
    BY <1>1, <1>2, <2>1, SendKeeps
  <2> QED
    BY <1>1, <1>2, <2>2 DEF ShellTypeOK, NoPageBeforeLogin
<1>3. CASE GoTo(Home, left) /\ UNCHANGED <<current, slot>>
  <2>1. hash' \in Paths /\ events' \in Nat
    BY <1>3, PathTypes, GoToKeeps
  <2> QED
    BY <1>1, <1>3, <2>1 DEF ShellTypeOK, NoPageBeforeLogin
<1>4. CASE (hash = Login) # authed /\ DoResolve(hash, slot, left)
  <2>1. hash = Login \/ vouched
    BY <1>4 DEF FlagInv, ShellTypeOK
  <2> QED
    BY <1>1, <1>4, <2>1, DoResolveKeeps
<1> QED
  BY <1>2, <1>3, <1>4 DEF Resolve

-----------------------------------------------------------------------------
(* Steps. *)

LEMMA InitIInv == ShellInit => IInv
<1> SUFFICES ASSUME ShellInit PROVE IInv
  OBVIOUS
<1>1. slot \in SlotType /\ \A s \in Slots : slot[s].answer # "yes"
  BY DEF ShellInit, SlotType, Free
<1>2. moves \in 0..MaxMoves /\ faults \in 0..MaxFaults /\ events \in Nat
  BY ShellBoundsAssumption DEF ShellInit
<1>3. ShellTypeOK
  BY <1>1, <1>2 DEF ShellInit, ShellTypeOK, SlotType
<1> QED
  BY <1>1, <1>3, PathTypes DEF ShellInit, IInv, NoPageBeforeLogin, FlagInv, AnswerInv

\* A step of the page: of the invariant only these parts are at stake.
LEMMA PageStep ==
  ASSUME IInv, boot' \in {"language", "fallback", "running", "dead"},
         hash' \in Paths, events' \in Nat, authed' \in BOOLEAN, loginForm' \in BOOLEAN,
         overtaken' \in BOOLEAN, moves' \in 0..MaxMoves,
         current' \in Routes \cup {NoPage}, slot' \in SlotType,
         UNCHANGED <<session, faults, vouched>>,
         current' \in Pages => vouched, authed' => vouched,
         \A s \in Slots : slot'[s].answer = "yes" => vouched
  PROVE  IInv'
BY DEF IInv, ShellTypeOK, SlotType, NoPageBeforeLogin, FlagInv, AnswerInv

LEMMA Facts ==
  ASSUME IInv
  PROVE  /\ boot \in {"language", "fallback", "running", "dead"}
         /\ hash \in Paths /\ events \in Nat /\ moves \in 0..MaxMoves
         /\ authed \in BOOLEAN /\ loginForm \in BOOLEAN /\ overtaken \in BOOLEAN
         /\ current \in Routes \cup {NoPage} /\ slot \in SlotType
         /\ current \in Pages => vouched
         /\ authed => vouched
         /\ \A s \in Slots : slot[s].answer = "yes" => vouched
BY DEF IInv, ShellTypeOK, SlotType, NoPageBeforeLogin, FlagInv, AnswerInv

LEMMA BootStep ==
  ASSUME IInv, LanguageLoads \/ LanguageMissing \/ LanguageFails \/ HashChange
  PROVE  IInv'
<1>1. CASE LanguageLoads
  <2>1. Resolve(0) /\ boot' = "running"
        /\ UNCHANGED <<authed, loginForm, session, moves, faults, vouched, overtaken>>
    BY <1>1 DEF LanguageLoads, Run
  <2> QED
    BY <2>1, ResolveKeeps, Facts, PageStep
<1>2. CASE LanguageMissing
  BY <1>2, Facts, PageStep DEF LanguageMissing
<1>3. CASE LanguageFails
  BY <1>3, Facts, PageStep DEF LanguageFails
<1>4. CASE HashChange
  <2>1. events - 1 \in Nat
    BY <1>4, Facts DEF HashChange
  <2>2. Resolve(events - 1)
        /\ UNCHANGED <<boot, authed, loginForm, session, moves, faults, vouched, overtaken>>
    BY <1>4 DEF HashChange
  <2> QED
    BY <2>1, <2>2, ResolveKeeps, Facts, PageStep
<1> QED
  BY <1>1, <1>2, <1>3, <1>4

\* A call of the page, or of one of its forms.
LEMMA SendingStep ==
  ASSUME IInv, NEW k \in Kinds, NEW p \in Paths, Send(slot, Request(k, p)),
         moves < MaxMoves, moves' = moves + 1,
         UNCHANGED <<boot, hash, events, authed, current, loginForm, session, faults,
                     vouched, overtaken>>
  PROVE  IInv'
<1>1. /\ slot' \in SlotType
      /\ \A s \in Slots : slot'[s].answer = "yes" => vouched
  BY Facts, SendKeeps
<1>2. moves' \in 0..MaxMoves
  BY Facts, ShellBoundsAssumption
<1> QED
  BY <1>1, <1>2, Facts, PageStep

LEMMA UserStep ==
  ASSUME IInv, (\E p \in Paths : Visit(p)) \/ Touch \/ Submit \/ Logout \/ Reload
  PROVE  IInv'
<1>1. current \in Pages => current \in Paths
  BY DEF Paths, Routes
<1>2. ASSUME NEW p \in Paths, Visit(p) PROVE IInv'
  <2>1. hash' \in Paths /\ events' \in Nat
    BY <1>2, Facts, GoToKeeps DEF Visit, SetHash
  <2>2. moves' \in 0..MaxMoves
    BY <1>2, Facts, ShellBoundsAssumption DEF Visit
  <2> QED
    BY <1>2, <2>1, <2>2, Facts, PageStep DEF Visit
<1>3. CASE Touch
  <2>1. "api" \in Kinds
    BY DEF Kinds
  <2> QED
    BY <1>1, <1>3, <2>1, SendingStep DEF Touch
<1>4. CASE Submit
  <2>1. "submit" \in Kinds
    BY DEF Kinds
  <2> QED
    BY <1>4, <2>1, PathTypes, SendingStep DEF Submit
<1>5. CASE Logout
  <2>1. "logout" \in Kinds
    BY DEF Kinds
  <2> QED
    BY <1>1, <1>5, <2>1, SendingStep DEF Logout
<1>6. CASE Reload
  <2>1. slot' \in SlotType /\ \A s \in Slots : slot'[s].answer # "yes"
    BY <1>6 DEF Reload, SlotType, Free
  <2>2. moves' \in 0..MaxMoves
    BY <1>6, Facts, ShellBoundsAssumption DEF Reload
  <2>3. ShellTypeOK'
    BY <1>6, <2>1, <2>2 DEF Reload, IInv, ShellTypeOK, SlotType
  <2> QED
    BY <1>6, <2>1, <2>3, PathTypes DEF Reload, IInv, NoPageBeforeLogin, FlagInv, AnswerInv
<1> QED
  BY <1>2, <1>3, <1>4, <1>5, <1>6

\* An answer that says yes is a confirmation.
LEMMA AnsweredStep ==
  ASSUME IInv, NEW s \in Slots, NEW a \in Answers, slot[s] # Free, SlotAnswered(s, a),
         session' \in BOOLEAN, faults' \in 0..MaxFaults
  PROVE  IInv'
<1>1. slot[s] \in Calls
  BY FreeOrCall DEF IInv
<1>2. [slot[s] EXCEPT !.answer = a] \in Calls
  <2>1. slot[s] = [kind |-> slot[s].kind, path |-> slot[s].path, answer |-> slot[s].answer]
        /\ slot[s].kind \in Kinds /\ slot[s].path \in Paths
    BY <1>1 DEF Calls
  <2>2. [slot[s] EXCEPT !.answer = a]
          = [kind |-> slot[s].kind, path |-> slot[s].path, answer |-> a]
    BY <2>1
  <2> QED
    BY <2>1, <2>2, Zenon DEF Calls
<1>3. slot' = [slot EXCEPT ![s] = [slot[s] EXCEPT !.answer = a]]
  BY Facts DEF SlotAnswered, SlotType
<1>4. slot' \in SlotType
  BY <1>2, <1>3, Facts DEF SlotType
<1>5. \A r \in Slots : slot'[r].answer = "yes" => vouched'
  <2>1. ASSUME NEW r \in Slots, r # s PROVE slot'[r] = slot[r]
    BY <1>3, <2>1, Facts DEF SlotType
  <2>2. slot'[s].answer = a
    BY <1>1, <1>3, Facts DEF SlotType, Calls
  <2>3. vouched' = (vouched \/ a = "yes")
    BY DEF SlotAnswered
  <2> QED
    BY <2>1, <2>2, <2>3, Facts
<1>6. vouched => vouched'
  BY DEF SlotAnswered
<1>7. vouched' \in BOOLEAN
  BY DEF SlotAnswered, IInv, ShellTypeOK
<1>8. ShellTypeOK'
  BY <1>4, <1>7 DEF SlotAnswered, IInv, ShellTypeOK, SlotType
<1> QED
  BY <1>5, <1>6, <1>8 DEF SlotAnswered, IInv, NoPageBeforeLogin, FlagInv, AnswerInv

LEMMA ServerStep ==
  ASSUME IInv, (\E s \in Slots : Served(s) \/ Lose(s)) \/ Expire
  PROVE  IInv'
<1>1. session \in BOOLEAN /\ faults \in 0..MaxFaults
  BY DEF IInv, ShellTypeOK
<1>2. {"yes", "no", "lost"} \subseteq Answers
  BY DEF Answers
<1>3. ASSUME NEW s \in Slots, slot[s].kind \in Kinds PROVE slot[s] # Free
  BY <1>3, FreeOrCall DEF IInv
<1>4. ASSUME NEW s \in Slots, ServeStatus(s) PROVE IInv'
  <2>1. slot[s] # Free
    BY <1>3, <1>4 DEF ServeStatus, Kinds
  <2> QED
    BY <1>1, <1>2, <1>4, <2>1, AnsweredStep DEF ServeStatus
<1>5. ASSUME NEW s \in Slots, ServeLogin(s) PROVE IInv'
  <2>1. slot[s] # Free
    BY <1>3, <1>5 DEF ServeLogin, Kinds
  <2> QED
    BY <1>1, <1>2, <1>5, <2>1, AnsweredStep DEF ServeLogin
<1>6. ASSUME NEW s \in Slots, ServeLogout(s) PROVE IInv'
  <2>1. slot[s] # Free
    BY <1>3, <1>6 DEF ServeLogout, Kinds
  <2> QED
    BY <1>1, <1>2, <1>6, <2>1, AnsweredStep DEF ServeLogout
<1>7. ASSUME NEW s \in Slots, Lose(s) PROVE IInv'
  <2>1. faults' \in 0..MaxFaults
    BY <1>1, <1>7, ShellBoundsAssumption DEF Lose
  <2> QED
    BY <1>1, <1>2, <1>7, <2>1, AnsweredStep DEF Lose
<1>8. CASE Expire
  <2>1. faults' \in 0..MaxFaults
    BY <1>1, <1>8, ShellBoundsAssumption DEF Expire
  <2> QED
    BY <1>8, <2>1 DEF Expire, IInv, ShellTypeOK, NoPageBeforeLogin, FlagInv, AnswerInv
<1> QED
  BY <1>4, <1>5, <1>6, <1>7, <1>8 DEF Served

LEMMA DeliveredStep ==
  ASSUME IInv, NEW s \in Slots, Delivered(s)
  PROVE  IInv'
<1>1. /\ Clear(s) \in SlotType
      /\ \A r \in Slots : Clear(s)[r].answer = "yes" => vouched
  BY ClearKeeps DEF IInv
<1>2. Home \in Paths /\ Login \in Paths
  BY PathTypes
<1>3. \A p \in Paths : SetHash(p) => hash' \in Paths /\ events' \in Nat
  BY Facts, GoToKeeps DEF SetHash
<1>4. CASE GuardAdmits(s)
  <2>1. vouched
    BY <1>4, Facts DEF GuardAdmits
  <2>2. slot[s].path \in Paths
    BY <1>4, FreeOrCall DEF GuardAdmits, IInv, Free
  <2>3. ShellTypeOK /\ NoPageBeforeLogin
    BY DEF IInv
  <2>4. DoResolve(slot[s].path, Clear(s), events) /\ authed' = TRUE
        /\ UNCHANGED <<boot, loginForm, session, moves, faults, vouched>>
    BY <1>4 DEF GuardAdmits
  <2>5. overtaken' \in BOOLEAN
    BY <1>4, Facts DEF GuardAdmits
  <2> QED
    BY <1>1, <2>1, <2>2, <2>3, <2>4, <2>5, DoResolveKeeps, Facts, PageStep
<1>5. CASE GuardRefuses(s)
  BY <1>1, <1>2, <1>3, <1>5, Facts, PageStep DEF GuardRefuses
<1>6. CASE Welcome(s)
  BY <1>1, <1>2, <1>3, <1>6, Facts, PageStep DEF Welcome
<1>7. CASE ApiAnswer(s)
  BY <1>1, <1>2, <1>3, <1>7, Facts, PageStep DEF ApiAnswer
<1>8. CASE Submitted(s)
  <2>1. CASE slot[s].answer = "yes"
    <3>1. vouched
      BY <2>1, Facts
    <3> QED
      BY <1>1, <1>2, <1>3, <1>8, <2>1, <3>1, Facts, PageStep DEF Submitted
  <2>2. CASE slot[s].answer # "yes"
    BY <1>1, <1>8, <2>2, Facts, PageStep DEF Submitted
  <2> QED
    BY <2>1, <2>2
<1>9. CASE LoggedOut(s)
  BY <1>1, <1>2, <1>3, <1>9, Facts, PageStep DEF LoggedOut
<1> QED
  BY <1>4, <1>5, <1>6, <1>7, <1>8, <1>9 DEF Delivered

LEMMA NextIInv == IInv /\ [ShellNext]_shellVars => IInv'
<1> SUFFICES ASSUME IInv, [ShellNext]_shellVars PROVE IInv'
  OBVIOUS
<1>1. CASE UNCHANGED shellVars
  BY <1>1 DEF shellVars, IInv, ShellTypeOK, NoPageBeforeLogin, FlagInv, AnswerInv
<1>2. CASE ShellNext
  BY <1>2, BootStep, UserStep, ServerStep, DeliveredStep DEF ShellNext
<1> QED
  BY <1>1, <1>2

-----------------------------------------------------------------------------
(* The page and the hash. *)

LEMMA SendGuards ==
  ASSUME NEW calls \in SlotType, NEW k, NEW p, Send(calls, Request(k, p)),
         \A s \in Slots : calls[s].kind = "guard" => calls[s].path # Login,
         k = "guard" => p # Login
  PROVE  /\ GuardInv'
         /\ \A s \in Slots : calls[s].kind = "guard" => slot'[s] = calls[s]
         /\ k = "guard" => \E s \in Slots : slot'[s].kind = "guard" /\ slot'[s].path = p
<1>1. PICK s \in Slots : calls[s] = Free /\ slot' = [calls EXCEPT ![s] = Request(k, p)]
  BY DEF Send
<1>2. Free.kind # "guard" /\ Request(k, p).kind = k /\ Request(k, p).path = p
  BY DEF Free, Request
<1>3. slot'[s] = Request(k, p) /\ \A r \in Slots \ {s} : slot'[r] = calls[r]
  BY <1>1 DEF SlotType
<1> QED
  BY <1>1, <1>2, <1>3 DEF GuardInv

LEMMA ClearGuards ==
  ASSUME ShellTypeOK, GuardInv, NEW s \in Slots
  PROVE  /\ \A r \in Slots : Clear(s)[r].kind = "guard" => Clear(s)[r].path # Login
         /\ \A r \in Slots \ {s} : Clear(s)[r] = slot[r]
<1>1. Clear(s)[s] = Free /\ \A r \in Slots \ {s} : Clear(s)[r] = slot[r]
  BY DEF Clear, ShellTypeOK
<1>2. Free.kind # "guard"
  BY DEF Free
<1> QED
  BY <1>1, <1>2 DEF GuardInv

\* A page that is shown for the hash of the moment is in step with it.
LEMMA DoResolveFollows ==
  ASSUME NEW calls \in SlotType, NEW left \in Nat, DoResolve(hash, calls, left),
         \A s \in Slots : calls[s].kind = "guard" => calls[s].path # Login
  PROVE  GuardInv' /\ Follows'
<1>1. CASE RouteOf(hash) \notin Routes
  <2>1. GoTo(Home, left) /\ slot' = calls
    BY <1>1 DEF DoResolve
  <2>2. RouteOf(Home) = Home /\ Home \in Routes
    BY PathTypes, RoutesAssumption DEF Routes
  <2>3. events' # 0
    BY <1>1, <2>1, <2>2 DEF GoTo
  <2> QED
    BY <2>1, <2>3 DEF GuardInv, Follows
<1>2. CASE RouteOf(hash) \in Routes
  <2>1. /\ current' = RouteOf(hash) /\ hash' = hash
        /\ Send(calls, Request(IF hash = Login THEN "welcome" ELSE "api", RouteOf(hash)))
    BY <1>2 DEF DoResolve
  <2>2. (IF hash = Login THEN "welcome" ELSE "api") # "guard"
    OBVIOUS
  <2>3. GuardInv'
    BY <2>1, <2>2, SendGuards
  <2> QED
    BY <2>1, <2>3 DEF Follows
<1> QED
  BY <1>1, <1>2

LEMMA ResolveFollows ==
  ASSUME ShellTypeOK, GuardInv, NEW left \in Nat, Resolve(left)
  PROVE  GuardInv' /\ Follows'
<1>1. slot \in SlotType /\ \A s \in Slots : slot[s].kind = "guard" => slot[s].path # Login
  BY DEF ShellTypeOK, SlotType, GuardInv
<1>2. CASE hash # Login /\ Send(slot, Request("guard", hash)) /\ UNCHANGED <<hash, current>>
  <2>1. GuardInv' /\ \E s \in Slots : slot'[s].kind = "guard" /\ slot'[s].path = hash
    BY <1>1, <1>2, SendGuards
  <2> QED
    BY <1>2, <2>1 DEF Follows, Guarded
<1>3. CASE hash = Login /\ GoTo(Home, left) /\ UNCHANGED <<current, slot>>
  <2>1. events' # 0
    BY <1>3, PathTypes DEF GoTo
  <2> QED
    BY <1>3, <2>1 DEF GuardInv, Follows
<1>4. CASE DoResolve(hash, slot, left)
  BY <1>1, <1>4, DoResolveFollows
<1> QED
  BY <1>2, <1>3, <1>4 DEF Resolve

\* A step that sets the hash, or leaves it, and takes away no guard.
LEMMA FollowsKept ==
  ASSUME ShellTypeOK, GuardInv, RestInv, NEW p,
         SetHash(p) \/ UNCHANGED <<hash, events>>,
         UNCHANGED <<boot, current, overtaken>>,
         GuardInv',
         \A s \in Slots : slot[s].kind = "guard" => slot'[s].kind = "guard" /\ slot'[s].path = slot[s].path
  PROVE  RestInv'
<1>1. events' = 0 => events = 0 /\ hash' = hash
  BY DEF SetHash, GoTo, ShellTypeOK
<1> QED
  BY <1>1 DEF RestInv, Follows, Guarded

LEMMA SendingFollows ==
  ASSUME ShellTypeOK, GuardInv, RestInv, NEW k, NEW p, k # "guard", Send(slot, Request(k, p)),
         UNCHANGED <<boot, hash, events, current, overtaken>>
  PROVE  GuardInv' /\ RestInv'
<1>1. /\ GuardInv'
      /\ \A s \in Slots : slot[s].kind = "guard" => slot'[s] = slot[s]
  BY SendGuards DEF ShellTypeOK, SlotType, GuardInv
<1> QED
  BY <1>1, FollowsKept

LEMMA AnsweredFollows ==
  ASSUME ShellTypeOK, GuardInv, RestInv, NEW s \in Slots, NEW a, SlotAnswered(s, a)
  PROVE  GuardInv' /\ RestInv'
<1>1. \A r \in Slots : slot'[r].kind = slot[r].kind /\ slot'[r].path = slot[r].path
  <2>1. slot' = [slot EXCEPT ![s] = [slot[s] EXCEPT !.answer = a]]
    BY DEF SlotAnswered, ShellTypeOK
  <2>2. /\ [slot[s] EXCEPT !.answer = a].kind = slot[s].kind
        /\ [slot[s] EXCEPT !.answer = a].path = slot[s].path
    BY DEF ShellTypeOK, Calls, Free
  <2> QED
    BY <2>1, <2>2 DEF ShellTypeOK
<1>2. GuardInv'
  BY <1>1 DEF GuardInv
<1> QED
  BY <1>1, <1>2, FollowsKept DEF SlotAnswered

\* The answer of a call other than a guard.
LEMMA ClearedFollows ==
  ASSUME ShellTypeOK, GuardInv, RestInv, NEW s \in Slots, slot[s].kind # "guard", NEW p,
         SetHash(p) \/ UNCHANGED <<hash, events>>,
         slot' = Clear(s), UNCHANGED <<boot, current, overtaken>>
  PROVE  GuardInv' /\ RestInv'
<1>1. GuardInv'
  BY ClearGuards DEF GuardInv
<1>2. \A r \in Slots : slot[r].kind = "guard" => slot'[r] = slot[r]
  BY ClearGuards
<1> QED
  BY <1>1, <1>2, FollowsKept

LEMMA GuardFollows ==
  ASSUME ShellTypeOK, GuardInv, RestInv, NEW s \in Slots, GuardAdmits(s) \/ GuardRefuses(s)
  PROVE  GuardInv' /\ RestInv'
<1>1. /\ Clear(s) \in SlotType
      /\ \A r \in Slots : Clear(s)[r].kind = "guard" => Clear(s)[r].path # Login
  <2>1. Clear(s) \in SlotType
    BY DEF ShellTypeOK, SlotType, Clear
  <2> QED
    BY <2>1, ClearGuards
<1>2. CASE GuardAdmits(s)
  <2>1. DoResolve(slot[s].path, Clear(s), events) /\ overtaken' = (overtaken \/ slot[s].path # hash)
    BY <1>2 DEF GuardAdmits
  <2>2. GuardInv'
    <3>1. CASE RouteOf(slot[s].path) \notin Routes
      BY <1>1, <2>1, <3>1 DEF DoResolve, GuardInv
    <3>2. CASE RouteOf(slot[s].path) \in Routes
      <4>1. Send(Clear(s), Request(IF slot[s].path = Login THEN "welcome" ELSE "api",
                                   RouteOf(slot[s].path)))
        BY <2>1, <3>2 DEF DoResolve
      <4>2. (IF slot[s].path = Login THEN "welcome" ELSE "api") # "guard"
        OBVIOUS
      <4> QED
        BY <1>1, <4>1, <4>2, SendGuards
    <3> QED
      BY <3>1, <3>2
  <2>3. CASE slot[s].path = hash
    BY <1>1, <2>1, <2>3, DoResolveFollows DEF RestInv, ShellTypeOK
  <2>4. CASE slot[s].path # hash
    BY <2>1, <2>2, <2>4 DEF RestInv
  <2> QED
    BY <2>2, <2>3, <2>4
<1>3. CASE GuardRefuses(s)
  <2>1. slot' = Clear(s) /\ SetHash(Login) /\ UNCHANGED <<boot, current, overtaken>>
    BY <1>3 DEF GuardRefuses
  <2>2. GuardInv'
    BY <1>1, <2>1 DEF GuardInv
  <2>3. events' = 0 => events = 0 /\ hash' = hash /\ hash = Login
    BY <2>1 DEF SetHash, GoTo, ShellTypeOK
  <2>4. hash = Login => ~Guarded
    BY DEF GuardInv, Guarded
  <2> QED
    BY <2>1, <2>2, <2>3, <2>4 DEF RestInv, Follows
<1> QED
  BY <1>2, <1>3

LEMMA NextFollows == ShellTypeOK /\ GuardInv /\ RestInv /\ [ShellNext]_shellVars => GuardInv' /\ RestInv'
<1> SUFFICES ASSUME ShellTypeOK, GuardInv, RestInv, [ShellNext]_shellVars PROVE GuardInv' /\ RestInv'
  OBVIOUS
<1>1. CASE UNCHANGED shellVars
  BY <1>1 DEF shellVars, GuardInv, RestInv, Follows, Guarded
<1>2. CASE LanguageLoads
  <2>1. Resolve(0)
    BY <1>2 DEF LanguageLoads, Run
  <2> QED
    BY <2>1, ResolveFollows DEF RestInv
<1>3. CASE LanguageMissing \/ LanguageFails
  <2>1. boot' # "running" /\ slot' = slot
    BY <1>3 DEF LanguageMissing, LanguageFails
  <2> QED
    BY <2>1 DEF GuardInv, RestInv
<1>4. CASE HashChange
  <2>1. Resolve(events - 1) /\ events - 1 \in Nat
    BY <1>4 DEF HashChange, ShellTypeOK
  <2> QED
    BY <2>1, ResolveFollows DEF RestInv
<1>5. ASSUME NEW p \in Paths, Visit(p) PROVE GuardInv' /\ RestInv'
  <2>1. GuardInv' /\ SetHash(p) /\ UNCHANGED <<boot, current, overtaken, slot>>
    BY <1>5 DEF Visit, GuardInv
  <2> QED
    BY <2>1, FollowsKept
<1>6. CASE Touch
  BY <1>6, SendingFollows DEF Touch
<1>7. CASE Submit
  BY <1>7, SendingFollows DEF Submit
<1>8. CASE Logout
  BY <1>8, SendingFollows DEF Logout
<1>9. CASE Reload
  <2>1. boot' # "running" /\ \A s \in Slots : slot'[s].kind # "guard"
    BY <1>9 DEF Reload, Free
  <2> QED
    BY <2>1 DEF GuardInv, RestInv
<1>10. CASE Expire
  BY <1>10 DEF Expire, GuardInv, RestInv, Follows, Guarded
<1>11. ASSUME NEW s \in Slots, Served(s) \/ Lose(s) PROVE GuardInv' /\ RestInv'
  BY <1>11, AnsweredFollows DEF Served, ServeStatus, ServeLogin, ServeLogout, Lose
<1>12. ASSUME NEW s \in Slots, Delivered(s) PROVE GuardInv' /\ RestInv'
  <2>1. CASE GuardAdmits(s) \/ GuardRefuses(s)
    BY <2>1, GuardFollows
  <2>2. CASE Welcome(s) \/ ApiAnswer(s) \/ Submitted(s) \/ LoggedOut(s)
    <3>1. /\ slot[s].kind # "guard" /\ slot' = Clear(s)
          /\ UNCHANGED <<boot, current, overtaken>>
          /\ SetHash(Home) \/ SetHash(Login) \/ UNCHANGED <<hash, events>>
      BY <2>2 DEF Welcome, ApiAnswer, Submitted, LoggedOut
    <3> QED
      BY <3>1, ClearedFollows
  <2> QED
    BY <1>12, <2>1, <2>2 DEF Delivered
<1> QED
  BY <1>1, <1>2, <1>3, <1>4, <1>5, <1>6, <1>7, <1>8, <1>9, <1>10, <1>11, <1>12 DEF ShellNext

-----------------------------------------------------------------------------
(* Theorems. *)

\* The state of router.js and login.js keeps its types, for any routes.
THEOREM ShellTypes == ShellSpec => []ShellTypeOK
<1>1. IInv => ShellTypeOK
  BY DEF IInv
<1> QED
  BY <1>1, InitIInv, NextIInv, PTL DEF ShellSpec

\* However guards, redirects, logins, logouts, expiries and late answers
\* interleave, a protected page is shown only once the server has confirmed a
\* session to this page load (router.js:25-41).
THEOREM PagesAreGuarded == ShellSpec => []NoPageBeforeLogin
<1>1. IInv => NoPageBeforeLogin
  BY DEF IInv
<1> QED
  BY <1>1, InitIInv, NextIInv, PTL DEF ShellSpec

\* At rest the page shown is the page of the address bar, after any mix of
\* guards, redirects, logins and logouts, unless a guard's answer was for a hash
\* that was left already (router.js:17-46).
THEOREM PageIsOfHash == ShellSpec => []PageFollowsHash
<1>1. ShellInit => GuardInv /\ RestInv
  BY DEF ShellInit, GuardInv, RestInv, Free
<1>2. ShellTypeOK /\ GuardInv /\ RestInv => PageFollowsHash
  <2> SUFFICES ASSUME RestInv, Quiet, ~overtaken PROVE RouteOf(hash) = current
    BY DEF PageFollowsHash
  <2>1. ~Guarded
    BY DEF Quiet, Guarded, Free
  <2> QED
    BY <2>1 DEF Quiet, RestInv, Follows
<1> QED
  BY <1>1, <1>2, ShellTypes, NextFollows, PTL DEF ShellSpec

-----------------------------------------------------------------------------
(***************************************************************************)
(* Types.  A row that is there has a name, and so has what is sent to be   *)
(* written: a created row can be told from the others by it.               *)
(***************************************************************************)
Filled   == {r \in Row : r.name # None}
MaybeRow == Filled \cup {Absent}
MaybeId  == Ids \cup {None}
Writers  == {"put", "post"}

CallsUpTo(n) ==
  {c \in [id : 1..n, op : Ops, tok : MaybeId, data : Row,
          state : {"sent", "ok", "failed"}, list : [Ids -> MaybeRow],
          models : SUBSET Models] :
     c.op \in Writers => c.data \in Filled}

TokensTyped ==
  /\ rows \in [Ids -> MaybeRow] /\ catalogue \subseteq Models
  /\ tokens \in [Ids -> MaybeRow] /\ allModels \subseteq Models
  /\ drawn \in BOOLEAN
  /\ editingId \in MaybeId
  /\ form \in Form /\ form.name # None
  /\ resetId \in MaybeId /\ dialog \in MaybeId /\ keyShown \in MaybeId
  /\ sent \in Nat
  /\ net \subseteq CallsUpTo(sent)
  /\ acts \in 0..MaxActs /\ fails \in 0..MaxFails
  /\ newest \in 0..sent
  /\ crossed \in BOOLEAN /\ unlisted \subseteq Tokens \cup {New} /\ stale \in BOOLEAN

(***************************************************************************)
(* Whose fields are where.  While a form waits for the organisations it is *)
(* hidden and editingId is its token; once shown, name and rest are those  *)
(* of editingId, or of nobody when it creates a token.                     *)
(***************************************************************************)
NamedAs(f, o) == /\ f.name = o /\ f.rest = o
                 /\ o \notin unlisted => f.org = IF o = New THEN None ELSE o

OwnRows(t) == \A i \in Ids : t[i] # Absent => NamedAs(t[i], Whose(i))

FormOwn ==
  form.shown => NamedAs(form, IF editingId = None THEN New ELSE Whose(editingId))

CallOwn(c) ==
  /\ OwnRows(c.list)
  /\ c.op = "put" => c.tok # None /\ NamedAs(c.data, Whose(c.tok))
  /\ c.op = "post" => NamedAs(c.data, New)
  /\ c.op = "orgs" => /\ ~form.shown
                      /\ editingId = c.tok
                      /\ c.tok = None => /\ form.name = New /\ form.rest = New
                                         /\ c.data.org = None
                      /\ c.tok # None => form.name = Whose(c.tok) /\ NamedAs(c.data, Whose(c.tok))

Owned ==
  /\ OwnRows(rows)
  /\ OwnRows(tokens)
  /\ FormOwn
  /\ \A c \in net : CallOwn(c)
  /\ \A c, d \in net : c.op = "orgs" /\ d.op = "orgs" => c = d

(***************************************************************************)
(* What the lists under way will bring.  Unless a write that succeeded has *)
(* still to be answered, the last list call carries the rows as they are,  *)
(* and when none is left that is later than the one drawn, the one drawn   *)
(* did.                                                                    *)
(***************************************************************************)
IsList(c)  == c.op = "list"
Written(c) == Writes(c) /\ c.state = "ok"
Pending    == \E c \in net : Written(c)
LastList(c)    == \A d \in net : IsList(d) => d.id <= c.id

OneCallPerId == /\ \A c, d \in net : c.id = d.id => c = d
                /\ \A c \in net : IsList(c) => c.id # newest

LastBringsRows ==
  \A c \in net : IsList(c) /\ LastList(c) /\ newest < c.id /\ c.state = "ok" => c.list = rows

DrawnIsRows ==
  (\A c \in net : IsList(c) => c.id < newest) /\ drawn => tokens = rows

CatchingUp == ~stale /\ ~Pending => LastBringsRows /\ DrawnIsRows

TokensInv == TokensTyped /\ (~crossed => Owned) /\ OneCallPerId /\ CatchingUp

-----------------------------------------------------------------------------
(***************************************************************************)
(* Lemmas about rows, calls and the form.                                  *)
(***************************************************************************)
\* The ids are told apart from the two names that are not ids.
LEMMA NamesDiffer ==
  None \notin Ids /\ New \notin Ids /\ None # New /\ MaybeId \subseteq Owner
BY IdsAssumption DEF None, New, MaybeId, Owner

\* A row that is there is never taken for the absent one.
LEMMA RowsTyped ==
  /\ Absent \in Row /\ Absent \in MaybeRow
  /\ Filled \subseteq Row /\ MaybeRow \subseteq Row
  /\ \A r \in Filled : r # Absent
  /\ \A r \in MaybeRow : r # Absent => r \in Filled
<1>1. Absent \in Row
  BY DEF Absent, Row, Owner, Levels
<1>2. \A r \in Filled : r # Absent
  BY DEF Filled, Absent
<1> QED
  BY <1>1, <1>2 DEF Filled, MaybeRow

\* The form as rendered.
LEMMA BlankTyped ==
  /\ BlankForm \in Form /\ BlankForm.name # None /\ ~BlankForm.shown
  /\ NamedAs(BlankForm, New)
BY NamesDiffer DEF BlankForm, Form, Owner, Levels, NamedAs

\* Drawing the pickers leaves the fields alone.
LEMMA PickersTyped ==
  ASSUME NEW f \in Form, NEW s \in SUBSET Models, allModels \subseteq Models
  PROVE  /\ WithModels(f, s) \in Form
         /\ WithModels(f, s).name = f.name
         /\ WithModels(f, s).rest = f.rest
         /\ WithModels(f, s).org = f.org
         /\ WithModels(f, s).shown = f.shown
<1>1. (IF s = {} THEN allModels ELSE s \cap allModels) \in SUBSET Models
  OBVIOUS
<1> QED
  BY <1>1 DEF WithModels, Form

\* The form that is reset for a creation.
LEMMA CleanTyped ==
  ASSUME TokensTyped
  PROVE  LET f == WithModels([BlankForm EXCEPT !.org = form.org], {}) IN
         /\ f \in Form /\ f.name # None /\ ~f.shown
         /\ f.name = New /\ f.rest = New
<1>1. form.org \in Owner /\ allModels \subseteq Models
  BY DEF TokensTyped, Form
<1>2. PICK g : g = [BlankForm EXCEPT !.org = form.org]
  OBVIOUS
<1>3. g \in Form /\ ~g.shown /\ g.name = New /\ g.rest = New
  BY <1>1, <1>2, BlankTyped DEF Form, NamedAs
<1>4. PICK f : f = WithModels(g, {})
  OBVIOUS
<1>5. /\ f \in Form /\ f.name = g.name /\ f.rest = g.rest /\ f.shown = g.shown
  BY <1>1, <1>3, <1>4, PickersTyped
<1>6. f = WithModels([BlankForm EXCEPT !.org = form.org], {})
  BY <1>2, <1>4
<1>7. f \in Form /\ f.name # None /\ ~f.shown /\ f.name = New /\ f.rest = New
  BY <1>3, <1>5, NamesDiffer
<1> QED
  BY <1>6, <1>7

\* What a form sends is a row, named as the form is.
LEMMA DataTyped ==
  ASSUME NEW f \in Form, f.name # None
  PROVE  /\ FormData(f) \in Filled
         /\ \A o : NamedAs(f, o) => NamedAs(FormData(f), o)
<1>1. SelectedModels(f) \in SUBSET Models
  BY DEF SelectedModels, Form
<1>2. (IF f.on THEN f.level ELSE "off") \in Levels
  BY DEF Form, Levels
<1> QED
  BY <1>1, <1>2 DEF FormData, Filled, Row, Form, NamedAs

\* A call newly sent.
LEMMA CallTyped ==
  ASSUME sent \in Nat,
         NEW op \in Ops, NEW tok \in MaybeId, NEW data \in Row,
         op \in Writers => data \in Filled
  PROVE  /\ Call(op, tok, data) \in CallsUpTo(sent + 1)
         /\ Call(op, tok, data).id = sent + 1
         /\ Call(op, tok, data).op = op
         /\ Call(op, tok, data).tok = tok
         /\ Call(op, tok, data).data = data
         /\ Call(op, tok, data).state = "sent"
         /\ OwnRows(Call(op, tok, data).list)
<1>1. [i \in Ids |-> Absent] \in [Ids -> MaybeRow]
  BY RowsTyped
<1>2. sent + 1 \in 1..(sent + 1)
  OBVIOUS
<1>3. None \in MaybeId
  BY DEF MaybeId
<1>4. OwnRows([i \in Ids |-> Absent])
  BY DEF OwnRows
<1> QED
  BY <1>1, <1>2, <1>3, <1>4 DEF Call, CallsUpTo

\* The calls under way stay calls when another is sent.
LEMMA CallsGrow ==
  ASSUME NEW n \in Nat
  PROVE  CallsUpTo(n) \subseteq CallsUpTo(n + 1)
<1>1. 1..n \subseteq 1..(n + 1)
  OBVIOUS
<1> QED
  BY <1>1 DEF CallsUpTo

LEMMA AskTyped ==
  ASSUME sent \in Nat, NEW calls \in SUBSET CallsUpTo(sent),
         NEW c \in CallsUpTo(sent + 1), Ask(calls, c)
  PROVE  sent' \in Nat /\ net' \subseteq CallsUpTo(sent')
BY CallsGrow DEF Ask

-----------------------------------------------------------------------------
(***************************************************************************)
(* The types hold initially and every action preserves them.               *)
(***************************************************************************)
LEMMA InitTypes ==
  ASSUME Init
  PROVE  TokensTyped
<1>1. \A i \in Tokens : [name |-> i, org |-> i, rest |-> i, models |-> Restriction[i],
                        on |-> TRUE, level |-> "standard"] \in Filled
  BY NamesDiffer, RestrictionAssumption DEF Filled, Row, Owner, Levels, Ids
<1>2. rows \in [Ids -> MaybeRow]
  BY <1>1, RowsTyped DEF Init, MaybeRow
<1>3. tokens \in [Ids -> MaybeRow]
  BY RowsTyped DEF Init
<1>4. net \subseteq CallsUpTo(sent)
  BY <1>3, RowsTyped DEF Init, CallsUpTo, Ops, MaybeId, Writers
<1>5. form \in Form /\ form.name # None
  BY BlankTyped DEF Init
<1>6. acts \in 0..MaxActs /\ fails \in 0..MaxFails /\ newest \in 0..sent /\ sent \in Nat
  BY BoundsAssumption DEF Init
<1>7. /\ catalogue \subseteq Models /\ allModels \subseteq Models /\ drawn \in BOOLEAN
      /\ editingId \in MaybeId /\ resetId \in MaybeId /\ dialog \in MaybeId
      /\ keyShown \in MaybeId /\ crossed \in BOOLEAN /\ unlisted = {} /\ stale \in BOOLEAN
  BY DEF Init, MaybeId
<1> QED
  BY <1>2, <1>3, <1>4, <1>5, <1>6, <1>7 DEF TokensTyped

\* What sending a call leaves typed.
LEMMA TypesAsk ==
  ASSUME TokensTyped, NEW calls \in SUBSET CallsUpTo(sent),
         NEW op \in Ops, NEW tok \in MaybeId, NEW data \in Row,
         op \in Writers => data \in Filled,
         Ask(calls, Call(op, tok, data))
  PROVE  sent' \in Nat /\ net' \subseteq CallsUpTo(sent') /\ sent' = sent + 1
<1>1. sent \in Nat
  BY DEF TokensTyped
<1>2. Call(op, tok, data) \in CallsUpTo(sent + 1)
  BY <1>1, CallTyped
<1> QED
  BY <1>1, <1>2, AskTyped DEF Ask

LEMMA ActTyped ==
  ASSUME TokensTyped, Act
  PROVE  acts' \in 0..MaxActs
BY BoundsAssumption DEF TokensTyped, Act

LEMMA TypesOfLists ==
  ASSUME TokensTyped, NEW c \in net
  PROVE  /\ c.id \in 1..sent /\ c.op \in Ops /\ c.tok \in MaybeId /\ c.data \in Row
         /\ c.list \in [Ids -> MaybeRow] /\ c.models \subseteq Models
         /\ c.op \in Writers => c.data \in Filled
         /\ c \in CallsUpTo(sent) /\ net \ {c} \subseteq CallsUpTo(sent)
BY DEF TokensTyped, CallsUpTo

LEMMA TypesUser ==
  ASSUME TokensTyped,
         \/ Load \/ ShowAddForm \/ HideForm \/ SubmitForm \/ HideKeyModal
         \/ HideQuotaModal \/ SubmitResetQuota \/ CatalogueChanges
         \/ \E i \in Ids : \/ EditToken(i) \/ DeleteToken(i)
                          \/ ShowKey(i) \/ ShowResetQuota(i)
  PROVE  TokensTyped'
<1>0. /\ net \subseteq CallsUpTo(sent) /\ None \in MaybeId /\ Ids \subseteq MaybeId
      /\ Absent \in Row /\ newest \in 0..sent /\ sent \in Nat
  BY RowsTyped DEF TokensTyped, MaybeId
<1>1. ASSUME Load PROVE TokensTyped'
  <2>1. sent' \in Nat /\ net' \subseteq CallsUpTo(sent') /\ sent' = sent + 1
    BY <1>0, <1>1, TypesAsk DEF Load, Ops, Writers
  <2> QED
    BY <1>0, <1>1, <2>1, ActTyped DEF Load, TokensTyped, page, ghosts
<1>2. ASSUME ShowAddForm PROVE TokensTyped'
  <2>1. sent' \in Nat /\ net' \subseteq CallsUpTo(sent') /\ sent' = sent + 1
    BY <1>0, <1>2, TypesAsk DEF ShowAddForm, Ops, Writers
  <2>2. form' \in Form /\ form'.name # None
    BY <1>2, CleanTyped DEF ShowAddForm
  <2>3. crossed' \in BOOLEAN
    BY <1>2 DEF ShowAddForm
  <2> QED
    BY <1>0, <1>2, <2>1, <2>2, <2>3, ActTyped DEF ShowAddForm, TokensTyped
<1>3. ASSUME HideForm PROVE TokensTyped'
  <2>1. form' \in Form /\ form'.name # None
    BY <1>3 DEF HideForm, TokensTyped, Form
  <2> QED
    BY <1>0, <1>3, <2>1 DEF HideForm, TokensTyped, ghosts
<1>4. ASSUME SubmitForm PROVE TokensTyped'
  <2>1. FormData(form) \in Filled /\ FormData(form) \in Row
    BY DataTyped, RowsTyped DEF TokensTyped
  <2>2. editingId \in MaybeId
    BY DEF TokensTyped
  <2>3. PICK op \in Writers : Ask(net, Call(op, editingId, FormData(form)))
    BY <1>4 DEF SubmitForm, Writers
  <2>4. sent' \in Nat /\ net' \subseteq CallsUpTo(sent') /\ sent' = sent + 1
    BY <1>0, <2>1, <2>2, <2>3, TypesAsk DEF Writers, Ops
  <2> QED
    BY <1>0, <1>4, <2>4, ActTyped DEF SubmitForm, TokensTyped, page, ghosts
<1>5. ASSUME HideKeyModal \/ HideQuotaModal PROVE TokensTyped'
  BY <1>0, <1>5 DEF HideKeyModal, HideQuotaModal, TokensTyped, ghosts
<1>6. ASSUME SubmitResetQuota PROVE TokensTyped'
  <2>1. resetId \in MaybeId
    BY DEF TokensTyped
  <2>2. sent' \in Nat /\ net' \subseteq CallsUpTo(sent') /\ sent' = sent + 1
    BY <1>0, <1>6, <2>1, TypesAsk DEF SubmitResetQuota, Ops, Writers
  <2> QED
    BY <1>0, <1>6, <2>2, ActTyped DEF SubmitResetQuota, TokensTyped, page, ghosts
<1>7. ASSUME CatalogueChanges PROVE TokensTyped'
  BY <1>0, <1>7, ActTyped DEF CatalogueChanges, TokensTyped, page, ghosts
<1>8. ASSUME NEW i \in Ids, EditToken(i) PROVE TokensTyped'
  <2>1. tokens[i] \in Filled /\ tokens[i] \in Row
    BY <1>8, RowsTyped DEF EditToken, TokensTyped
  <2>2. sent' \in Nat /\ net' \subseteq CallsUpTo(sent') /\ sent' = sent + 1
    BY <1>0, <1>8, <2>1, TypesAsk DEF EditToken, Ops, Writers
  <2>3. i \in Owner /\ tokens[i].name \in Owner /\ tokens[i].name # None
    BY <2>1 DEF Owner, Filled, Row
  <2>4. form' \in Form /\ form'.name # None
    BY <1>8, <2>3 DEF EditToken, TokensTyped, Form
  <2>5. crossed' \in BOOLEAN
    BY <1>8 DEF EditToken
  <2>6. acts' \in 0..MaxActs
    BY <1>8, ActTyped DEF EditToken
  <2>7. newest' \in 0..sent' /\ editingId' \in MaybeId
    <3>1. newest' = newest /\ editingId' = i
      BY <1>8 DEF EditToken, TokensTyped
    <3> QED
      BY <1>0, <2>2, <3>1
  <2>8. /\ tokens' \in [Ids -> MaybeRow] /\ rows' \in [Ids -> MaybeRow]
        /\ allModels' \subseteq Models /\ catalogue' \subseteq Models
    BY <1>8 DEF EditToken, TokensTyped
  <2>9. /\ drawn' \in BOOLEAN /\ stale' \in BOOLEAN /\ unlisted' \subseteq Tokens \cup {New}
        /\ fails' \in 0..MaxFails
        /\ resetId' \in MaybeId /\ dialog' \in MaybeId /\ keyShown' \in MaybeId
    BY <1>8 DEF EditToken, TokensTyped
  <2> QED
    BY <2>2, <2>4, <2>5, <2>6, <2>7, <2>8, <2>9 DEF TokensTyped
<1>9. ASSUME NEW i \in Ids, DeleteToken(i) \/ ShowKey(i) PROVE TokensTyped'
  <2>1. PICK op \in {"delete", "key"} : Ask(net, Call(op, i, Absent))
    BY <1>9 DEF DeleteToken, ShowKey
  <2>2. sent' \in Nat /\ net' \subseteq CallsUpTo(sent') /\ sent' = sent + 1
    BY <1>0, <2>1, TypesAsk DEF Ops, Writers
  <2> QED
    BY <1>0, <1>9, <2>2, ActTyped DEF DeleteToken, ShowKey, TokensTyped, page, ghosts
<1>10. ASSUME NEW i \in Ids, ShowResetQuota(i) PROVE TokensTyped'
  BY <1>0, <1>10, ActTyped DEF ShowResetQuota, TokensTyped, ghosts
<1> QED
  BY <1>1, <1>2, <1>3, <1>4, <1>5, <1>6, <1>7, <1>8, <1>9, <1>10

\* The user typed into the pickers, not into the name or the rest.
Kept(f) == /\ f.shown = form.shown /\ f.name = form.name
           /\ f.org = form.org /\ f.rest = form.rest

LEMMA TypesTyping ==
  ASSUME TokensTyped,
         \/ \E m \in Models : TickModel(m)
         \/ TickAll
         \/ ToggleDesensitize
         \/ \E l \in Levels : ChooseLevel(l)
  PROVE  /\ TokensTyped'
         /\ form.shown
         /\ form'.shown = form.shown
         /\ form'.name = form.name /\ form'.org = form.org /\ form'.rest = form.rest
         /\ UNCHANGED <<tokens, allModels, drawn, editingId, resetId, dialog, keyShown,
                        ghosts, rows, catalogue, net, sent, fails>>
<1>0. form \in Form /\ form.name # None
  BY DEF TokensTyped
<1>1. PICK f \in Form : Typing(f) /\ Kept(f)
  <2>1. ASSUME NEW m \in Models, TickModel(m)
        PROVE  \E f \in Form : Typing(f) /\ Kept(f)
    <3> DEFINE t == IF m \in form.ticked THEN form.ticked \ {m} ELSE form.ticked \cup {m}
               f == [form EXCEPT !.ticked = t, !.all = (t = form.boxes), !.picked = TRUE]
    <3>1. t \in SUBSET Models
      BY <1>0 DEF Form
    <3>2. (t = form.boxes) \in BOOLEAN
      OBVIOUS
    <3> HIDE DEF t
    <3>3. f \in Form /\ Kept(f)
      BY <1>0, <3>1, <3>2 DEF Form, Kept
    <3>4. Typing(f)
      BY <2>1 DEF TickModel, t
    <3> QED
      BY <3>3, <3>4
  <2>2. ASSUME TickAll
        PROVE  \E f \in Form : Typing(f) /\ Kept(f)
    <3> DEFINE t == IF form.all THEN {} ELSE form.boxes
               f == [form EXCEPT !.all = ~form.all, !.locked = ~form.all, !.picked = TRUE,
                                 !.ticked = t]
    <3>1. t \in SUBSET Models
      BY <1>0 DEF Form
    <3>2. (~form.all) \in BOOLEAN
      OBVIOUS
    <3> HIDE DEF t
    <3>3. f \in Form /\ Kept(f)
      BY <1>0, <3>1, <3>2 DEF Form, Kept
    <3>4. Typing(f)
      BY <2>2 DEF TickAll, t
    <3> QED
      BY <3>3, <3>4
  <2>3. ASSUME ToggleDesensitize
        PROVE  \E f \in Form : Typing(f) /\ Kept(f)
    <3> DEFINE t == IF form.on THEN "off" ELSE form.level
               f == [form EXCEPT !.on = ~form.on, !.level = t]
    <3>1. t \in Levels
      BY <1>0 DEF Form, Levels
    <3>2. (~form.on) \in BOOLEAN
      OBVIOUS
    <3> HIDE DEF t
    <3>3. f \in Form /\ Kept(f)
      BY <1>0, <3>1, <3>2 DEF Form, Kept
    <3>4. Typing(f)
      BY <2>3 DEF ToggleDesensitize, t
    <3> QED
      BY <3>3, <3>4
  <2>4. ASSUME NEW l \in Levels, ChooseLevel(l)
        PROVE  \E f \in Form : Typing(f) /\ Kept(f)
    <3> DEFINE f == [form EXCEPT !.level = l]
    <3>1. f \in Form /\ Kept(f)
      BY <1>0 DEF Form, Kept
    <3>2. Typing(f)
      BY <2>4 DEF ChooseLevel
    <3> QED
      BY <3>1, <3>2
  <2> QED
    BY <2>1, <2>2, <2>3, <2>4
<1> QED
  BY <1>0, <1>1, ActTyped DEF Typing, TokensTyped, ghosts, Kept

\* The form as an opening fills it in.
LEMMA FilledTyped ==
  ASSUME TokensTyped, NEW c \in net
  PROVE  /\ FilledIn(c) \in Form /\ FilledIn(c).name = form.name
         /\ FilledIn(c).rest = IF c.tok = None THEN form.rest ELSE c.data.rest
         /\ FilledIn(c).org = IF c.state = "ok" THEN c.data.org ELSE form.org
         /\ Whose(c.tok) \in Tokens \cup {New}
<1>1. /\ form \in Form /\ allModels \subseteq Models /\ c.data \in Row
  BY TypesOfLists DEF TokensTyped
<1>2. /\ c.data.rest \in Owner /\ c.data.org \in Owner /\ c.data.on \in BOOLEAN
      /\ c.data.models \subseteq Models /\ c.data.level \in Levels
  BY <1>1 DEF Row
<1>3. PICK o \in Owner : o = IF c.state = "ok" THEN c.data.org ELSE form.org
  BY <1>1, <1>2 DEF Form
<1>4. PICK f : f = [form EXCEPT !.shown = TRUE, !.org = o]
  OBVIOUS
<1>5. f \in Form /\ f.name = form.name /\ f.rest = form.rest /\ f.org = o
  BY <1>1, <1>3, <1>4 DEF Form
<1>6. f = [form EXCEPT !.shown = TRUE, !.org = IF c.state = "ok" THEN c.data.org ELSE @]
  BY <1>1, <1>3, <1>4 DEF Form
<1>7. CASE c.tok = None
  BY <1>3, <1>5, <1>6, <1>7 DEF FilledIn, Whose
<1>8. CASE c.tok # None
  <2>1. PICK l \in Levels : l = IF c.data.on THEN c.data.level ELSE "off"
    BY <1>2 DEF Levels
  <2>2. PICK g : g = [f EXCEPT !.rest = c.data.rest, !.on = c.data.on, !.level = l]
    OBVIOUS
  <2>3. g \in Form /\ g.name = f.name /\ g.org = f.org /\ g.rest = c.data.rest
    BY <1>2, <1>5, <2>2 DEF Form
  <2>4. FilledIn(c) = WithModels(g, c.data.models)
    BY <1>6, <1>8, <2>1, <2>2 DEF FilledIn
  <2> QED
    BY <1>1, <1>2, <1>3, <1>5, <1>8, <2>3, <2>4, PickersTyped DEF Whose
<1> QED
  BY <1>7, <1>8

LEMMA TypesAnswer ==
  ASSUME TokensTyped, NEW c \in net, Answered(c)
  PROVE  TokensTyped'
<1>0. /\ c.id \in 1..sent /\ c.tok \in MaybeId /\ c.data \in Row
      /\ c.list \in [Ids -> MaybeRow] /\ c.models \subseteq Models
      /\ net \ {c} \in SUBSET CallsUpTo(sent)
      /\ None \in MaybeId /\ Absent \in Row /\ newest \in 0..sent /\ sent \in Nat
  BY TypesOfLists, RowsTyped DEF TokensTyped, MaybeId
<1>1. ASSUME ProvidersAnswered(c) PROVE TokensTyped'
  <2>1. sent' \in Nat /\ net' \subseteq CallsUpTo(sent') /\ sent' = sent + 1
    BY <1>0, <1>1, TypesAsk DEF ProvidersAnswered, Ops, Writers
  <2>2. allModels' \subseteq Models
    BY <1>0, <1>1 DEF ProvidersAnswered, TokensTyped
  <2> QED
    BY <1>0, <1>1, <2>1, <2>2 DEF ProvidersAnswered, TokensTyped, ghosts
<1>2. ASSUME TokensListed(c) PROVE TokensTyped'
  <2>1. tokens' \in [Ids -> MaybeRow] /\ newest' \in 0..sent /\ sent' = sent
    BY <1>0, <1>2 DEF TokensListed, TokensTyped, Done
  <2>2. /\ form' \in Form /\ form'.name # None
        /\ dialog' \in MaybeId /\ keyShown' \in MaybeId
    BY <1>0, <1>2, BlankTyped DEF TokensListed, Render
  <2>3. drawn' \in BOOLEAN /\ stale' \in BOOLEAN /\ crossed' \in BOOLEAN
    BY <1>2 DEF TokensListed
  <2>4. net' \subseteq CallsUpTo(sent)
    BY <1>0, <1>2 DEF TokensListed, Done
  <2> QED
    BY <1>2, <2>1, <2>2, <2>3, <2>4 DEF TokensListed, TokensTyped
<1>3. ASSUME FormOpened(c) PROVE TokensTyped'
  <2>1. form' \in Form /\ form'.name # None
    BY <1>3, FilledTyped DEF FormOpened, TokensTyped
  <2>2. unlisted' \subseteq Tokens \cup {New}
    BY <1>3, FilledTyped DEF FormOpened, TokensTyped
  <2>3. net' \subseteq CallsUpTo(sent') /\ sent' = sent
    BY <1>0, <1>3 DEF FormOpened, Done
  <2> QED
    BY <1>3, <2>1, <2>2, <2>3 DEF FormOpened, TokensTyped
<1>4. ASSUME Saved(c) PROVE TokensTyped'
  <2>1. sent' \in Nat /\ net' \subseteq CallsUpTo(sent') /\ sent' = sent + 1
    BY <1>0, <1>4, TypesAsk DEF Saved, Ops, Writers
  <2>2. form' \in Form /\ form'.name # None
    BY <1>4 DEF Saved, TokensTyped, Form
  <2>3. crossed' \in BOOLEAN /\ editingId' \in MaybeId /\ newest' \in 0..sent'
    BY <1>0, <1>4, <2>1 DEF Saved, TokensTyped
  <2> QED
    BY <1>4, <2>1, <2>2, <2>3 DEF Saved, TokensTyped
<1>5. ASSUME CallFailed(c) PROVE TokensTyped'
  <2>1. stale' \in BOOLEAN
    BY <1>5 DEF CallFailed
  <2> QED
    BY <1>0, <1>5, <2>1 DEF CallFailed, TokensTyped, Done, page
<1>6. ASSUME Deleted(c) PROVE TokensTyped'
  <2>1. sent' \in Nat /\ net' \subseteq CallsUpTo(sent') /\ sent' = sent + 1
    BY <1>0, <1>6, TypesAsk DEF Deleted, Ops, Writers
  <2> QED
    BY <1>0, <1>6, <2>1 DEF Deleted, TokensTyped, page, ghosts
<1>7. ASSUME KeyArrived(c) PROVE TokensTyped'
  BY <1>0, <1>7 DEF KeyArrived, TokensTyped, Done, ghosts
<1>8. ASSUME QuotaReset(c) PROVE TokensTyped'
  <2>1. sent' \in Nat /\ net' \subseteq CallsUpTo(sent') /\ sent' = sent + 1
    BY <1>0, <1>8, TypesAsk DEF QuotaReset, Ops, Writers
  <2> QED
    BY <1>0, <1>8, <2>1 DEF QuotaReset, TokensTyped, ghosts
<1> QED
  BY <1>1, <1>2, <1>3, <1>4, <1>5, <1>6, <1>7, <1>8 DEF Answered

\* A write that succeeds leaves typed rows.
LEMMA EffectTyped ==
  ASSUME TokensTyped, NEW c \in net, Writes(c), NEW r \in Effect(c)
  PROVE  /\ r \in [Ids -> MaybeRow]
         /\ c.op = "put" => r = [rows EXCEPT ![c.tok] = c.data]
         /\ c.op = "delete" => r = [rows EXCEPT ![c.tok] = Absent]
         /\ c.op = "post" => \E i \in Fresh : r = [rows EXCEPT ![i] = c.data]
<1>0. /\ rows \in [Ids -> MaybeRow] /\ c.op \in {"put", "post", "delete"}
      /\ c.op \in Writers => c.data \in Filled
      /\ c.tok \in MaybeId /\ Fresh \subseteq Ids
  BY TypesOfLists DEF TokensTyped, Writes, Ids
<1>1. CASE c.op = "put"
  <2>1. rows[c.tok] # Absent /\ r = [rows EXCEPT ![c.tok] = c.data]
    BY <1>1 DEF Effect
  <2> QED
    BY <1>0, <1>1, <2>1 DEF Writers, MaybeRow
<1>2. CASE c.op = "delete"
  <2>1. r = [rows EXCEPT ![c.tok] = Absent]
    BY <1>2 DEF Effect
  <2> QED
    BY <1>0, <1>2, <2>1, RowsTyped
<1>3. CASE c.op = "post"
  <2>1. PICK i \in Fresh : rows[i] = Absent /\ r = [rows EXCEPT ![i] = c.data]
    BY <1>3 DEF Effect
  <2>2. r[i] # Absent /\ r \in [Ids -> MaybeRow]
    BY <1>0, <1>3, <2>1, RowsTyped DEF Writers, MaybeRow
  <2> QED
    BY <1>0, <1>3, <2>1, <2>2 DEF MaybeId
<1> QED
  BY <1>0, <1>1, <1>2, <1>3

LEMMA TypesServer ==
  ASSUME TokensTyped, NEW c \in net, Serve(c) \/ Fail(c)
  PROVE  TokensTyped'
<1>0. /\ c \in CallsUpTo(sent) /\ rows \in [Ids -> MaybeRow] /\ catalogue \subseteq Models
      /\ net \subseteq CallsUpTo(sent) /\ None \in MaybeId
  BY TypesOfLists DEF TokensTyped, MaybeId
<1>1. ASSUME ServeWrite(c) PROVE TokensTyped'
  <2>1. CASE Effect(c) = {}
    <3>1. net' = (net \ {c}) \cup {[c EXCEPT !.state = "failed"]}
      BY <1>1, <2>1 DEF ServeWrite, Reply
    <3>2. [c EXCEPT !.state = "failed"] \in CallsUpTo(sent)
      BY <1>0 DEF CallsUpTo
    <3>3. net' \subseteq CallsUpTo(sent)
      BY <1>0, <3>1, <3>2
    <3> QED
      BY <1>1, <2>1, <3>3 DEF ServeWrite, Reply, TokensTyped, page, ghosts
  <2>2. CASE Effect(c) # {}
    <3>1. PICK r \in Effect(c) :
            /\ rows' = r
            /\ Reply(c, [c EXCEPT !.state = "ok"])
      BY <1>1, <2>2 DEF ServeWrite
    <3>2. r \in [Ids -> MaybeRow]
      BY <1>1, EffectTyped DEF ServeWrite
    <3>3. [c EXCEPT !.state = "ok"] \in CallsUpTo(sent)
      BY <1>0 DEF CallsUpTo
    <3>4. net' \subseteq CallsUpTo(sent)
      BY <1>0, <3>1, <3>3 DEF Reply
    <3> QED
      BY <1>1, <3>1, <3>2, <3>4 DEF ServeWrite, Reply, TokensTyped, page, ghosts
  <2> QED
    BY <2>1, <2>2
<1>2. ASSUME ServeRead(c) PROVE TokensTyped'
  <2> DEFINE s == IF c.op \in {"reset", "key"} /\ rows[c.tok] = Absent THEN "failed" ELSE "ok"
             l == IF c.op = "list" THEN rows ELSE c.list
             m == IF c.op = "providers" THEN catalogue ELSE c.models
  <2>1. s \in {"sent", "ok", "failed"} /\ l \in [Ids -> MaybeRow] /\ m \subseteq Models
    BY <1>0, TypesOfLists
  <2>2. Reply(c, [c EXCEPT !.state = s, !.list = l, !.models = m])
    BY <1>0, <1>2 DEF ServeRead, CallsUpTo
  <2> HIDE DEF s, l, m
  <2>3. [c EXCEPT !.state = s, !.list = l, !.models = m] \in CallsUpTo(sent)
    BY <1>0, <2>1 DEF CallsUpTo
  <2>4. net' \subseteq CallsUpTo(sent)
    BY <1>0, <2>2, <2>3 DEF Reply
  <2> QED
    BY <1>2, <2>2, <2>4 DEF ServeRead, Reply, TokensTyped, page, ghosts
<1>3. ASSUME Fail(c) PROVE TokensTyped'
  <2>1. [c EXCEPT !.state = "failed"] \in CallsUpTo(sent)
    BY <1>0 DEF CallsUpTo
  <2>2. net' \subseteq CallsUpTo(sent)
    BY <1>0, <1>3, <2>1 DEF Fail, Reply
  <2>3. fails' \in 0..MaxFails
    BY <1>3, BoundsAssumption DEF Fail, TokensTyped
  <2>4. stale' \in BOOLEAN
    BY <1>3 DEF Fail
  <2> QED
    BY <1>3, <2>2, <2>3, <2>4 DEF Fail, Reply, TokensTyped, page
<1> QED
  BY <1>1, <1>2, <1>3 DEF Serve

LEMMA NextTypes ==
  ASSUME TokensTyped, [Next]_vars
  PROVE  TokensTyped'
<1>1. CASE UNCHANGED vars
  BY <1>1 DEF vars, TokensTyped
<1>2. CASE \E c \in net : Serve(c) \/ Fail(c) \/ Answered(c)
  BY <1>2, TypesServer, TypesAnswer
<1>3. CASE Next /\ ~\E c \in net : Serve(c) \/ Fail(c) \/ Answered(c)
  BY <1>3, TypesUser, TypesTyping DEF Next
<1> QED
  BY <1>1, <1>2, <1>3

-----------------------------------------------------------------------------
(***************************************************************************)
(* The list catches up.                                                    *)
(***************************************************************************)
\* Another call is sent.
LEMMA CatchSent ==
  ASSUME TokensTyped, OneCallPerId, CatchingUp,
         NEW q, q.id = sent + 1, ~IsList(q), q.state = "sent", net' = net \cup {q},
         UNCHANGED <<rows, tokens, drawn, newest, stale>>
  PROVE  OneCallPerId' /\ CatchingUp'
<1>1. \A c \in net : c.id \in 1..sent
  BY DEF TokensTyped, CallsUpTo
<1>2. OneCallPerId'
  BY <1>1 DEF OneCallPerId, IsList, TokensTyped
<1>3. Pending => Pending'
  BY DEF Pending, Written, Writes
<1>4. LastBringsRows => LastBringsRows'
  BY DEF LastBringsRows, IsList, LastList
<1>5. DrawnIsRows => DrawnIsRows'
  BY DEF DrawnIsRows, IsList
<1> QED
  BY <1>2, <1>3, <1>4, <1>5 DEF CatchingUp

\* A call that is no list ends without another; a write that succeeded is lost.
LEMMA CatchEnded ==
  ASSUME TokensTyped, OneCallPerId, CatchingUp,
         NEW c \in net, ~IsList(c), net' = net \ {c},
         Written(c) => stale', stale => stale',
         UNCHANGED <<rows, tokens, drawn, newest>>
  PROVE  OneCallPerId' /\ CatchingUp'
<1>1. OneCallPerId'
  BY DEF OneCallPerId, IsList
<1>2. ~stale' => (Pending => Pending')
  BY DEF Pending, Written, Writes
<1>3. LastBringsRows => LastBringsRows'
  BY DEF LastBringsRows, IsList, LastList
<1>4. DrawnIsRows => DrawnIsRows'
  BY DEF DrawnIsRows, IsList
<1> QED
  BY <1>1, <1>2, <1>3, <1>4 DEF CatchingUp

\* A call ends and a list is asked for, later than every other.
LEMMA CatchReload ==
  ASSUME TokensTyped, OneCallPerId, CatchingUp,
         NEW c \in net, NEW q, q.id = sent + 1, IsList(q), q.state = "sent",
         net' = (net \ {c}) \cup {q}, UNCHANGED newest
  PROVE  OneCallPerId' /\ CatchingUp'
<1>1. (\A d \in net : d.id \in 1..sent) /\ newest \in 0..sent /\ sent \in Nat
  BY DEF TokensTyped, CallsUpTo
<1>2. OneCallPerId'
  BY <1>1 DEF OneCallPerId, IsList
<1>3. LastBringsRows'
  <2> SUFFICES ASSUME NEW d \in net', IsList(d)', LastList(d)', (d.state = "ok")'
               PROVE  FALSE
    BY DEF LastBringsRows
  <2>1. d.id >= q.id
    BY DEF LastList, IsList
  <2>2. d = q
    BY <1>1, <2>1
  <2> QED
    BY <2>2
<1>4. DrawnIsRows'
  BY <1>1 DEF DrawnIsRows, IsList
<1> QED
  BY <1>2, <1>3, <1>4 DEF CatchingUp

\* The server answers, or the call fails: its id and what it is stay.
LEMMA CatchServed ==
  ASSUME TokensTyped, OneCallPerId, CatchingUp,
         NEW c \in net, NEW r, r.id = c.id, r.op = c.op,
         net' = (net \ {c}) \cup {r},
         Written(c) => stale' \/ Written(r), stale => stale',
         IsList(r) /\ r.state = "ok" => r.list = rows,
         UNCHANGED <<tokens, drawn, newest>>,
         rows' = rows \/ Written(r)
  PROVE  OneCallPerId' /\ CatchingUp'
<1>1. OneCallPerId'
  BY DEF OneCallPerId, IsList
<1>2. CASE Written(r)
  <2>1. Pending'
    BY <1>2 DEF Pending, Written, Writes
  <2> QED
    BY <1>1, <2>1 DEF CatchingUp
<1>3. CASE ~Written(r) /\ ~stale'
  <2>1. Pending => Pending'
    BY <1>3 DEF Pending, Written, Writes
  <2>2. LastBringsRows => LastBringsRows'
    <3> SUFFICES ASSUME LastBringsRows, NEW d \in net', IsList(d)', LastList(d)',
                        newest < d.id, d.state = "ok"
                 PROVE  d.list = rows
      BY <1>3 DEF LastBringsRows
    <3>1. CASE d = r
      BY <3>1 DEF IsList
    <3>2. CASE d # r
      <4>1. \A e \in net : IsList(e) => e.id <= d.id
        BY DEF LastList, IsList
      <4> QED
        BY <3>2, <4>1 DEF LastBringsRows, LastList, IsList
    <3> QED
      BY <3>1, <3>2
  <2>3. DrawnIsRows => DrawnIsRows'
    BY <1>3 DEF DrawnIsRows, IsList
  <2> QED
    BY <1>1, <1>3, <2>1, <2>2, <2>3 DEF CatchingUp
<1>4. CASE stale'
  BY <1>1, <1>4 DEF CatchingUp
<1> QED
  BY <1>2, <1>3, <1>4

\* A list is drawn, or its failure is.  The last one brings the rows.
LEMMA CatchListed ==
  ASSUME TokensTyped, OneCallPerId, CatchingUp, NEW c \in net, TokensListed(c)
  PROVE  OneCallPerId' /\ CatchingUp'
<1>0. /\ \A d \in net : d.id \in 1..sent
      /\ newest \in 0..sent /\ sent \in Nat /\ IsList(c) /\ net' = net \ {c}
      /\ c.id # newest /\ c.id \in 1..sent /\ stale \in BOOLEAN
  BY DEF TokensTyped, CallsUpTo, OneCallPerId, TokensListed, IsList, Done
<1>1. CASE c.id < newest
  <2>1. newest' = newest
    BY <1>0, <1>1 DEF TokensListed
  <2>2. stale'
    BY <1>1 DEF TokensListed
  <2> QED
    BY <1>0, <2>1, <2>2 DEF OneCallPerId, IsList, CatchingUp
<1>2. CASE newest < c.id
  <2>1. newest' = c.id /\ stale' = stale /\ rows' = rows
    BY <1>0, <1>2 DEF TokensListed
  <2>2. OneCallPerId'
    BY <1>0, <2>1 DEF OneCallPerId, IsList
  <2>3. Pending => Pending'
    BY <1>0 DEF Pending, Written, Writes, IsList
  <2>4. LastBringsRows => LastBringsRows'
    <3> SUFFICES ASSUME LastBringsRows, NEW d \in net', IsList(d)', LastList(d)',
                        c.id < d.id, d.state = "ok"
                 PROVE  d.list = rows
      BY <2>1 DEF LastBringsRows
    <3>1. \A e \in net : IsList(e) => e.id <= d.id
      BY <1>0 DEF LastList, IsList
    <3> QED
      BY <1>0, <1>2, <3>1 DEF LastBringsRows, LastList, IsList
  <2>5. LastBringsRows => DrawnIsRows'
    <3> SUFFICES ASSUME LastBringsRows, (\A d \in net : IsList(d) => d.id < newest)', drawn'
                 PROVE  tokens' = rows'
      BY DEF DrawnIsRows
    <3>1. c.state = "ok" /\ tokens' = c.list
      BY DEF TokensListed
    <3>2. LastList(c)
      BY <1>0, <2>1 DEF LastList, IsList
    <3> QED
      BY <1>0, <1>2, <2>1, <3>1, <3>2 DEF LastBringsRows
  <2> QED
    BY <2>1, <2>2, <2>3, <2>4, <2>5 DEF CatchingUp
<1> QED
  BY <1>0, <1>1, <1>2

\* Nothing that the list depends on changes.
LEMMA CatchIdle ==
  ASSUME OneCallPerId, CatchingUp, UNCHANGED <<net, rows, tokens, drawn, newest, stale>>
  PROVE  OneCallPerId' /\ CatchingUp'
<1>1. OneCallPerId'
  BY DEF OneCallPerId, IsList
<1>2. Pending' = Pending
  BY DEF Pending, Written, Writes
<1>3. LastBringsRows => LastBringsRows'
  BY DEF LastBringsRows, IsList, LastList
<1>4. DrawnIsRows => DrawnIsRows'
  BY DEF DrawnIsRows, IsList
<1> QED
  BY <1>1, <1>2, <1>3, <1>4 DEF CatchingUp

LEMMA CallFields ==
  ASSUME NEW op, NEW tok, NEW data
  PROVE  /\ Call(op, tok, data).id = sent + 1 /\ Call(op, tok, data).op = op
         /\ Call(op, tok, data).state = "sent"
BY DEF Call

\* The calls that the user's clicks send.
LEMMA CatchAsked ==
  ASSUME TokensTyped, OneCallPerId, CatchingUp,
         NEW op \in Ops \ {"list"}, NEW tok, NEW data, Ask(net, Call(op, tok, data)),
         UNCHANGED <<rows, tokens, drawn, newest, stale>>
  PROVE  OneCallPerId' /\ CatchingUp'
<1>1. PICK q : q = Call(op, tok, data)
  OBVIOUS
<1>2. q.id = sent + 1 /\ q.op = op /\ q.state = "sent"
  BY <1>1, CallFields
<1>3. net' = net \cup {q}
  BY <1>1 DEF Ask
<1>4. ~IsList(q)
  BY <1>2 DEF IsList
<1> QED
  BY <1>2, <1>3, <1>4, CatchSent

LEMMA CatchUser ==
  ASSUME TokensTyped, OneCallPerId, CatchingUp,
         \/ Load \/ ShowAddForm \/ HideForm \/ SubmitForm \/ HideKeyModal
         \/ HideQuotaModal \/ SubmitResetQuota \/ CatalogueChanges
         \/ \E i \in Ids : \/ EditToken(i) \/ DeleteToken(i)
                          \/ ShowKey(i) \/ ShowResetQuota(i)
  PROVE  OneCallPerId' /\ CatchingUp'
<1>1. CASE Load
  BY <1>1, CatchAsked DEF Load, page, ghosts, Ops
<1>2. CASE ShowAddForm
  BY <1>2, CatchAsked DEF ShowAddForm, Ops
<1>3. CASE SubmitForm
  BY <1>3, CatchAsked DEF SubmitForm, page, ghosts, Ops
<1>4. CASE SubmitResetQuota
  BY <1>4, CatchAsked DEF SubmitResetQuota, page, ghosts, Ops
<1>5. ASSUME NEW i \in Ids, EditToken(i) PROVE OneCallPerId' /\ CatchingUp'
  <2>1. /\ Ask(net, Call("orgs", i, tokens[i]))
        /\ UNCHANGED <<rows, tokens, drawn, newest, stale>>
    BY <1>5, Zenon DEF EditToken
  <2> QED
    BY <2>1, CatchAsked DEF Ops
<1>6. ASSUME NEW i \in Ids, DeleteToken(i) \/ ShowKey(i)
      PROVE  OneCallPerId' /\ CatchingUp'
  BY <1>6, CatchAsked DEF DeleteToken, ShowKey, page, ghosts, Ops
<1>7. CASE HideForm \/ HideKeyModal \/ HideQuotaModal
  BY <1>7, CatchIdle DEF HideForm, HideKeyModal, HideQuotaModal, ghosts
<1>8. CASE CatalogueChanges
  BY <1>8, CatchIdle DEF CatalogueChanges, page, ghosts
<1>9. ASSUME NEW i \in Ids, ShowResetQuota(i) PROVE OneCallPerId' /\ CatchingUp'
  BY <1>9, CatchIdle DEF ShowResetQuota, ghosts
<1> QED
  BY <1>1, <1>2, <1>3, <1>4, <1>5, <1>6, <1>7, <1>8, <1>9

LEMMA CatchAnswer ==
  ASSUME TokensTyped, OneCallPerId, CatchingUp, NEW c \in net, Answered(c)
  PROVE  OneCallPerId' /\ CatchingUp'
<1>1. CASE ProvidersAnswered(c) \/ Saved(c) \/ Deleted(c) \/ QuotaReset(c)
  <2>1. PICK q : q = Call("list", None, Absent)
    OBVIOUS
  <2>2. q.id = sent + 1 /\ IsList(q) /\ q.state = "sent"
    BY <2>1, CallFields DEF IsList
  <2>3. net' = (net \ {c}) \cup {q} /\ UNCHANGED newest
    BY <1>1, <2>1 DEF ProvidersAnswered, Saved, Deleted, QuotaReset, Ask, ghosts
  <2> QED
    BY <2>2, <2>3, CatchReload
<1>2. CASE TokensListed(c)
  BY <1>2, CatchListed
<1>3. CASE FormOpened(c) \/ KeyArrived(c)
  <2>1. ~IsList(c) /\ ~Written(c)
    BY <1>3 DEF FormOpened, KeyArrived, IsList, Written, Writes
  <2>2. net' = net \ {c} /\ UNCHANGED <<rows, tokens, drawn, newest, stale>>
    BY <1>3 DEF FormOpened, KeyArrived, Done, ghosts
  <2> QED
    BY <2>1, <2>2, CatchEnded
<1>4. CASE CallFailed(c)
  <2>1. ~IsList(c)
    BY <1>4 DEF CallFailed, IsList
  <2>2. net' = net \ {c} /\ UNCHANGED <<rows, tokens, drawn, newest>>
    BY <1>4 DEF CallFailed, Done, page
  <2>3. (Written(c) => stale') /\ (stale => stale')
    BY <1>4 DEF CallFailed, Written
  <2> QED
    BY <2>1, <2>2, <2>3, CatchEnded
<1> QED
  BY <1>1, <1>2, <1>3, <1>4 DEF Answered

\* What the server's answer leaves of a call.
LEMMA ReplyFields ==
  ASSUME TokensTyped, NEW c \in net, NEW s, NEW l, NEW m
  PROVE  LET q == [c EXCEPT !.state = s, !.list = l, !.models = m]
             f == [c EXCEPT !.state = s] IN
         /\ q.id = c.id /\ q.op = c.op /\ q.tok = c.tok /\ q.data = c.data
         /\ q.list = l /\ q.state = s
         /\ f.id = c.id /\ f.op = c.op /\ f.tok = c.tok /\ f.data = c.data
         /\ f.list = c.list /\ f.state = s
BY DEF TokensTyped, CallsUpTo

\* How the server's answer, or a failure, changes a call under way into r.
ServedAs(c, r) ==
  /\ r.id = c.id /\ r.op = c.op /\ r.tok = c.tok /\ r.data = c.data
  /\ net' = (net \ {c}) \cup {r}
  /\ UNCHANGED <<page, newest, crossed, unlisted>>
  /\ stale => stale'
  /\ \/ /\ r.list = c.list \/ r.list = rows
        /\ UNCHANGED rows
        /\ Written(c) => stale'
        /\ IsList(r) /\ r.state = "ok" => r.list = rows
     \/ /\ Written(r) /\ r.list = c.list
        /\ rows' \in Effect(c)

LEMMA CallIsServed ==
  ASSUME TokensTyped, NEW c \in net, Serve(c) \/ Fail(c)
  PROVE  \E r : ServedAs(c, r)
<1>1. ASSUME ServeWrite(c), Effect(c) = {}
      PROVE  /\ net' = (net \ {c}) \cup {[c EXCEPT !.state = "failed"]}
             /\ UNCHANGED <<page, newest, crossed, unlisted, stale, rows>> /\ ~Written(c)
  BY <1>1 DEF ServeWrite, Reply, ghosts, Written
<1>2. ASSUME ServeWrite(c), Effect(c) # {}
      PROVE  /\ net' = (net \ {c}) \cup {[c EXCEPT !.state = "ok"]}
             /\ UNCHANGED <<page, newest, crossed, unlisted, stale>>
             /\ rows' \in Effect(c) /\ Writes(c)
  <2>1. PICK w \in Effect(c) :
          /\ rows' = w
          /\ Reply(c, [c EXCEPT !.state = "ok"])
    BY <1>2 DEF ServeWrite
  <2>2. net' = (net \ {c}) \cup {[c EXCEPT !.state = "ok"]} /\ UNCHANGED page
    BY <2>1 DEF Reply
  <2> QED
    BY <1>2, <2>1, <2>2 DEF ServeWrite, ghosts
<1>3. ASSUME ServeRead(c)
      PROVE  /\ \E s, l, m : /\ net' = (net \ {c}) \cup
                                      {[c EXCEPT !.state = s, !.list = l, !.models = m]}
                            /\ l = IF c.op = "list" THEN rows ELSE c.list
             /\ UNCHANGED <<page, newest, crossed, unlisted, stale, rows>> /\ ~Written(c)
  <2>1. PICK s, l, m :
          /\ s = IF c.op \in {"reset", "key"} /\ rows[c.tok] = Absent THEN "failed" ELSE "ok"
          /\ l = IF c.op = "list" THEN rows ELSE c.list
          /\ m = IF c.op = "providers" THEN catalogue ELSE c.models
    OBVIOUS
  <2>2. c \in CallsUpTo(sent)
    BY DEF TokensTyped
  <2>3. net' = (net \ {c}) \cup {[c EXCEPT !.state = s, !.list = l, !.models = m]}
        /\ UNCHANGED page
    BY <1>3, <2>1, <2>2 DEF ServeRead, Reply, CallsUpTo
  <2> QED
    BY <1>3, <2>1, <2>3 DEF ServeRead, ghosts, Written
<1>4. ASSUME Fail(c)
      PROVE  /\ net' = (net \ {c}) \cup {[c EXCEPT !.state = "failed"]}
             /\ UNCHANGED <<page, newest, crossed, unlisted, rows>>
             /\ Written(c) => stale'
             /\ stale => stale'
  BY <1>4 DEF Fail, Reply, Written
<1>5. CASE ServeWrite(c) /\ Effect(c) = {}
  <2>1. PICK r : r = [c EXCEPT !.state = "failed"]
    OBVIOUS
  <2>2. /\ r.id = c.id /\ r.op = c.op /\ r.tok = c.tok /\ r.data = c.data
        /\ r.list = c.list /\ r.state = "failed"
    BY <2>1, ReplyFields
  <2>3. ServedAs(c, r)
    BY <1>1, <1>5, <2>1, <2>2 DEF ServedAs
  <2> QED
    BY <2>3
<1>6. CASE ServeWrite(c) /\ Effect(c) # {}
  <2>1. PICK r : r = [c EXCEPT !.state = "ok"]
    OBVIOUS
  <2>2. /\ r.id = c.id /\ r.op = c.op /\ r.tok = c.tok /\ r.data = c.data
        /\ r.list = c.list /\ r.state = "ok"
    BY <2>1, ReplyFields
  <2>3. Written(r)
    BY <1>2, <1>6, <2>2 DEF Written, Writes
  <2>4. ServedAs(c, r)
    <3>1. net' = (net \ {c}) \cup {r}
      BY <1>2, <1>6, <2>1
    <3>2. UNCHANGED <<page, newest, crossed, unlisted, stale>> /\ rows' \in Effect(c)
      BY <1>2, <1>6
    <3> QED
      BY <2>2, <2>3, <3>1, <3>2 DEF ServedAs
  <2> QED
    BY <2>4
<1>7. CASE ServeRead(c)
  <2>1. PICK s, l, m : /\ net' = (net \ {c}) \cup
                                 {[c EXCEPT !.state = s, !.list = l, !.models = m]}
                       /\ l = IF c.op = "list" THEN rows ELSE c.list
    BY <1>3, <1>7
  <2>2. PICK r : r = [c EXCEPT !.state = s, !.list = l, !.models = m]
    OBVIOUS
  <2>3. /\ r.id = c.id /\ r.op = c.op /\ r.tok = c.tok /\ r.data = c.data
        /\ r.list = l
    BY <2>2, ReplyFields
  <2>4. IsList(r) => r.list = rows
    BY <2>1, <2>3 DEF IsList
  <2>5. ServedAs(c, r)
    <3>1. net' = (net \ {c}) \cup {r} /\ (l = c.list \/ l = rows)
      BY <2>1, <2>2
    <3>2. UNCHANGED <<page, newest, crossed, unlisted, stale, rows>> /\ ~Written(c)
      BY <1>3, <1>7
    <3> QED
      BY <2>3, <2>4, <3>1, <3>2 DEF ServedAs
  <2> QED
    BY <2>5
<1>8. CASE Fail(c)
  <2>1. PICK r : r = [c EXCEPT !.state = "failed"]
    OBVIOUS
  <2>2. /\ r.id = c.id /\ r.op = c.op /\ r.tok = c.tok /\ r.data = c.data
        /\ r.list = c.list /\ r.state = "failed"
    BY <2>1, ReplyFields
  <2>3. ServedAs(c, r)
    BY <1>4, <1>8, <2>1, <2>2 DEF ServedAs
  <2> QED
    BY <2>3
<1> QED
  BY <1>5, <1>6, <1>7, <1>8 DEF Serve

LEMMA CatchServer ==
  ASSUME TokensTyped, OneCallPerId, CatchingUp, NEW c \in net, Serve(c) \/ Fail(c)
  PROVE  OneCallPerId' /\ CatchingUp'
<1>1. PICK r : ServedAs(c, r)
  BY CallIsServed
<1>2. UNCHANGED <<tokens, drawn, newest>>
  BY <1>1 DEF ServedAs, page
<1>3. Written(r) => ~IsList(r)
  BY DEF Written, Writes, IsList
<1> QED
  BY <1>1, <1>2, <1>3, CatchServed DEF ServedAs

LEMMA CatchNext ==
  ASSUME TokensTyped, OneCallPerId, CatchingUp, [Next]_vars
  PROVE  OneCallPerId' /\ CatchingUp'
<1>1. CASE UNCHANGED vars
  BY <1>1, CatchIdle DEF vars
<1>2. CASE \E c \in net : Serve(c) \/ Fail(c) \/ Answered(c)
  BY <1>2, CatchServer, CatchAnswer
<1>3. CASE \/ \E m \in Models : TickModel(m)
           \/ TickAll
           \/ ToggleDesensitize
           \/ \E l \in Levels : ChooseLevel(l)
  BY <1>3, TypesTyping, CatchIdle DEF ghosts
<1> QED
  BY <1>1, <1>2, <1>3, CatchUser DEF Next

-----------------------------------------------------------------------------
(***************************************************************************)
(* A form writes its own token.                                            *)
(***************************************************************************)
\* Nothing waits for the organisations but the call q, if q is one.
LEMMA OwnStep ==
  ASSUME Owned, NEW q, unlisted \subseteq unlisted',
         \A d \in net' : (d \in net /\ d.op # "orgs") \/ (d = q /\ CallOwn(q)'),
         OwnRows(rows'), OwnRows(tokens'), FormOwn'
  PROVE  Owned'
<1>1. ASSUME NEW d \in net' PROVE CallOwn(d)'
  <2>1. CASE d = q /\ CallOwn(q)'
    BY <2>1
  <2>2. CASE d \in net /\ d.op # "orgs"
    <3>1. CallOwn(d)
      BY <2>2 DEF Owned
    <3> QED
      BY <2>2, <3>1 DEF CallOwn, OwnRows, NamedAs, Whose
  <2> QED
    BY <2>1, <2>2
<1>2. \A c, d \in net' : c.op = "orgs" /\ d.op = "orgs" => c = d
  OBVIOUS
<1>3. OwnRows(rows)' /\ OwnRows(tokens)'
  BY DEF OwnRows, NamedAs, Whose
<1> QED
  BY <1>1, <1>2, <1>3 DEF Owned

\* The form stays as it is, and a call q that does not wait for it may be sent.
LEMMA OwnKeep ==
  ASSUME Owned, NEW q, CallOwn(q), q.op # "orgs", net' \subseteq net \cup {q},
         UNCHANGED <<rows, tokens, editingId, form, unlisted>>
  PROVE  Owned'
<1>1. ASSUME NEW d \in net' PROVE CallOwn(d)'
  <2>1. CallOwn(d)
    BY DEF Owned
  <2> QED
    BY <2>1 DEF CallOwn, OwnRows, NamedAs, Whose
<1>2. \A c, d \in net' : c.op = "orgs" /\ d.op = "orgs" => c = d
  BY DEF Owned
<1>3. OwnRows(rows)' /\ OwnRows(tokens)' /\ FormOwn'
  BY DEF Owned, OwnRows, FormOwn, NamedAs, Whose
<1> QED
  BY <1>1, <1>2, <1>3 DEF Owned

LEMMA CallOwns ==
  ASSUME NEW op, NEW tok, NEW data
  PROVE  /\ OwnRows(Call(op, tok, data).list)
         /\ Call(op, tok, data).op = op /\ Call(op, tok, data).tok = tok
         /\ Call(op, tok, data).data = data
BY DEF Call, OwnRows

\* The clicks that send a call and leave the form alone.
LEMMA OwnAsked ==
  ASSUME Owned, NEW calls \in SUBSET net, NEW op, NEW tok, NEW data,
         Ask(calls, Call(op, tok, data)), op # "orgs",
         op = "put" => tok # None /\ NamedAs(data, Whose(tok)),
         op = "post" => NamedAs(data, New),
         UNCHANGED <<rows, tokens, editingId, form, unlisted>>
  PROVE  Owned'
<1>1. PICK q : q = Call(op, tok, data)
  OBVIOUS
<1>2. OwnRows(q.list) /\ q.op = op /\ q.tok = tok /\ q.data = data
  BY <1>1, CallOwns
<1>3. CallOwn(q)
  BY <1>2 DEF CallOwn
<1>4. net' \subseteq net \cup {q}
  BY <1>1 DEF Ask
<1> QED
  BY <1>2, <1>3, <1>4, OwnKeep

LEMMA ShownAlone ==
  ASSUME Owned, form.shown
  PROVE  \A d \in net : d.op # "orgs"
BY DEF Owned, CallOwn

LEMMA OwnUser ==
  ASSUME TokensTyped, ~crossed => Owned, ~crossed',
         \/ Load \/ ShowAddForm \/ HideForm \/ SubmitForm \/ HideKeyModal
         \/ HideQuotaModal \/ SubmitResetQuota \/ CatalogueChanges
         \/ \E i \in Ids : \/ EditToken(i) \/ DeleteToken(i)
                          \/ ShowKey(i) \/ ShowResetQuota(i)
  PROVE  Owned'
<1>1. CASE Load
  <2>1. Owned
    BY <1>1 DEF Load, ghosts
  <2> QED
    BY <1>1, <2>1, OwnAsked DEF Load, page, ghosts
<1>2. CASE ShowAddForm
  <2>1. Owned /\ ~Opening
    BY <1>2 DEF ShowAddForm
  <2>2. PICK q : q = Call("orgs", None, Absent)
    OBVIOUS
  <2>3. OwnRows(q.list) /\ q.op = "orgs" /\ q.tok = None
    BY <2>2, CallOwns
  <2>4. PICK f : f = WithModels([BlankForm EXCEPT !.org = form.org], {})
    OBVIOUS
  <2>5. ~f.shown /\ f.name = New /\ f.rest = New
    BY <2>4, CleanTyped
  <2>6. /\ form' = f /\ editingId' = None /\ net' = net \cup {q}
        /\ UNCHANGED <<rows, tokens, unlisted>>
    BY <1>2, <2>2, <2>4 DEF ShowAddForm, Ask
  <2>7. CallOwn(q)' /\ FormOwn'
    <3>1. q.data.org = None
      BY <2>2, CallOwns DEF Absent
    <3> QED
      BY <2>3, <2>5, <2>6, <3>1 DEF CallOwn, FormOwn, NamedAs, OwnRows, Whose
  <2>8. OwnRows(rows') /\ OwnRows(tokens')
    BY <2>1, <2>6 DEF Owned
  <2> QED
    BY <2>1, <2>6, <2>7, <2>8, OwnStep DEF Opening
<1>3. CASE HideForm
  <2>1. /\ Owned /\ form.shown /\ ~form'.shown
        /\ UNCHANGED <<net, rows, tokens, unlisted>>
    BY <1>3 DEF HideForm, ghosts, TokensTyped, Form
  <2>2. OwnRows(rows') /\ OwnRows(tokens') /\ FormOwn'
    BY <2>1 DEF Owned, FormOwn
  <2> QED
    BY <2>1, <2>2, ShownAlone, OwnStep
<1>4. CASE SubmitForm
  <2>1. Owned /\ form.shown /\ UNCHANGED <<rows, tokens, editingId, form, unlisted>>
    BY <1>4 DEF SubmitForm, ghosts, page
  <2>2. PICK op, data : /\ op = IF editingId # None THEN "put" ELSE "post"
                        /\ data = FormData(form)
    OBVIOUS
  <2>3. NamedAs(data, IF editingId = None THEN New ELSE Whose(editingId))
    BY <2>1, <2>2, DataTyped DEF Owned, FormOwn, TokensTyped
  <2>4. Ask(net, Call(op, editingId, data))
    BY <1>4, <2>2 DEF SubmitForm
  <2>5. PICK t : t = editingId
    OBVIOUS
  <2> QED
    BY <2>1, <2>2, <2>3, <2>4, <2>5, OwnAsked
<1>5. CASE HideKeyModal \/ HideQuotaModal \/ CatalogueChanges
           \/ \E i \in Ids : ShowResetQuota(i)
  <2>1. Owned /\ UNCHANGED <<net, rows, tokens, editingId, form, unlisted>>
    BY <1>5 DEF HideKeyModal, HideQuotaModal, CatalogueChanges, ShowResetQuota, ghosts, page
  <2>2. PICK q : q = Call("list", None, Absent)
    OBVIOUS
  <2>3. CallOwn(q) /\ q.op # "orgs"
    BY <2>2, CallOwns DEF CallOwn
  <2> QED
    BY <2>1, <2>3, OwnKeep
<1>6. CASE SubmitResetQuota
  <2>1. Owned
    BY <1>6 DEF SubmitResetQuota, ghosts
  <2> QED
    BY <1>6, <2>1, OwnAsked DEF SubmitResetQuota, page, ghosts
<1>7. ASSUME NEW i \in Ids, EditToken(i) PROVE Owned'
  <2>1. /\ crossed' = (crossed \/ Opening) /\ Uncovered /\ tokens[i] # Absent
        /\ editingId' = i
        /\ form' = [form EXCEPT !.title = i, !.name = tokens[i].name]
        /\ Ask(net, Call("orgs", i, tokens[i]))
        /\ UNCHANGED <<rows, tokens, unlisted>>
    BY <1>7, Zenon DEF EditToken
  <2>2. Owned /\ ~Opening /\ ~form.shown
    BY <2>1 DEF Uncovered
  <2>3. PICK q : q = Call("orgs", i, tokens[i])
    OBVIOUS
  <2>4. OwnRows(q.list) /\ q.op = "orgs" /\ q.tok = i /\ q.data = tokens[i]
    BY <2>3, CallOwns
  <2>5. NamedAs(tokens[i], Whose(i))
    BY <2>1, <2>2 DEF Owned, OwnRows
  <2>6. form \in Form
    BY DEF TokensTyped
  <2>7. ~form'.shown /\ form'.name = Whose(i)
    BY <2>1, <2>2, <2>5, <2>6 DEF Form, NamedAs
  <2>8. net' = net \cup {q}
    BY <2>1, <2>3 DEF Ask
  <2>9. i # None
    BY NamesDiffer
  <2>10. editingId' = i
    BY <2>1
  <2>11. CallOwn(q)' /\ FormOwn'
    BY <2>1, <2>4, <2>5, <2>7, <2>9, <2>10 DEF CallOwn, FormOwn, NamedAs, OwnRows, Whose
  <2>12. OwnRows(rows') /\ OwnRows(tokens')
    <3>1. rows' = rows /\ tokens' = tokens
      BY <2>1
    <3> QED
      BY <2>2, <3>1 DEF Owned
  <2> QED
    BY <2>1, <2>2, <2>8, <2>11, <2>12, OwnStep DEF Opening
<1>8. ASSUME NEW i \in Ids, DeleteToken(i) \/ ShowKey(i) PROVE Owned'
  <2>1. Owned
    BY <1>8 DEF DeleteToken, ShowKey, ghosts
  <2> QED
    BY <1>8, <2>1, OwnAsked DEF DeleteToken, ShowKey, page, ghosts
<1> QED
  BY <1>1, <1>2, <1>3, <1>4, <1>5, <1>6, <1>7, <1>8

LEMMA OwnTyping ==
  ASSUME TokensTyped, ~crossed => Owned, ~crossed',
         \/ \E m \in Models : TickModel(m)
         \/ TickAll
         \/ ToggleDesensitize
         \/ \E l \in Levels : ChooseLevel(l)
  PROVE  Owned'
<1>1. /\ form.shown
      /\ form'.shown = form.shown
      /\ form'.name = form.name /\ form'.org = form.org /\ form'.rest = form.rest
      /\ UNCHANGED <<tokens, editingId, ghosts, rows, net>>
  BY TypesTyping
<1>2. Owned
  BY <1>1 DEF ghosts
<1>3. OwnRows(rows') /\ OwnRows(tokens') /\ FormOwn'
  BY <1>1, <1>2 DEF Owned, FormOwn, NamedAs, Whose, ghosts
<1> QED
  BY <1>1, <1>2, <1>3, ShownAlone, OwnStep DEF ghosts

LEMMA OwnAnswer ==
  ASSUME TokensTyped, ~crossed => Owned, ~crossed', NEW c \in net, Answered(c)
  PROVE  Owned'
<1>1. CASE ProvidersAnswered(c) \/ Deleted(c) \/ QuotaReset(c)
  <2>1. /\ Owned /\ UNCHANGED <<rows, tokens, editingId, form, unlisted>>
        /\ Ask(net \ {c}, Call("list", None, Absent))
    BY <1>1 DEF ProvidersAnswered, Deleted, QuotaReset, ghosts, page
  <2> QED
    BY <2>1, OwnAsked
<1>2. CASE TokensListed(c)
  <2>1. /\ Owned /\ ~Opening
        /\ net' \subseteq net /\ form' = BlankForm /\ UNCHANGED <<rows, unlisted>>
        /\ tokens' = tokens \/ tokens' = c.list
    BY <1>2 DEF TokensListed, Render, Done
  <2>2. OwnRows(rows') /\ OwnRows(tokens')
    BY <2>1 DEF Owned, CallOwn
  <2>3. FormOwn'
    BY <2>1, BlankTyped DEF FormOwn
  <2> QED
    BY <2>1, <2>2, <2>3, OwnStep DEF Opening
<1>3. CASE FormOpened(c)
  <2>1. /\ Owned /\ c.op = "orgs" /\ net' = net \ {c}
        /\ UNCHANGED <<rows, tokens, editingId>> /\ unlisted \subseteq unlisted'
    BY <1>3 DEF FormOpened, Done
  <2>2. \A d \in net' : d \in net /\ d.op # "orgs"
    BY <2>1 DEF Owned
  <2>3. /\ ~form.shown /\ editingId = c.tok
        /\ c.tok = None => form.name = New /\ form.rest = New /\ c.data.org = None
        /\ c.tok # None => form.name = Whose(c.tok) /\ NamedAs(c.data, Whose(c.tok))
    BY <2>1 DEF Owned, CallOwn
  <2>4. None \notin Tokens /\ c.state \in {"ok", "failed"}
    BY <1>3, NamesDiffer, TypesOfLists DEF FormOpened, Ids, TokensTyped, CallsUpTo
  <2>5. CASE ~drawn
    <3>1. form' = form
      BY <1>3, <2>5 DEF FormOpened
    <3>2. FormOwn'
      BY <2>3, <3>1 DEF FormOwn
    <3> QED
      BY <2>1, <2>2, <3>2, OwnStep DEF Owned
  <2>6. CASE drawn
    <3>1. /\ form'.name = form.name
          /\ form'.rest = IF c.tok = None THEN form.rest ELSE c.data.rest
          /\ form'.org = IF c.state = "ok" THEN c.data.org ELSE form.org
      BY <1>3, <2>6, FilledTyped DEF FormOpened
    <3>2. c.state = "failed" => Whose(c.tok) \in unlisted'
      BY <1>3 DEF FormOpened
    <3>3. editingId' = c.tok /\ unlisted \subseteq unlisted'
      BY <2>1, <2>3
    <3>4. CASE c.tok = None
      <4>1. Whose(c.tok) = New
        BY <2>4, <3>4 DEF Whose
      <4>2. form'.name = New /\ form'.rest = New /\ (New \notin unlisted' => form'.org = None)
        BY <2>3, <2>4, <3>1, <3>2, <3>4, <4>1
      <4>3. FormOwn'
        BY <3>3, <3>4, <4>2 DEF FormOwn, NamedAs
      <4> QED
        BY <2>1, <2>2, <4>3, OwnStep DEF Owned
    <3>5. CASE c.tok # None
      <4>1. PICK o : o = Whose(c.tok)
        OBVIOUS
      <4>2. /\ form'.name = o /\ form'.rest = o
            /\ o \notin unlisted' => form'.org = IF o = New THEN None ELSE o
        BY <2>3, <2>4, <3>1, <3>2, <3>3, <3>5, <4>1 DEF NamedAs
      <4>3. FormOwn'
        BY <3>3, <3>5, <4>1, <4>2 DEF FormOwn, NamedAs, Whose
      <4> QED
        BY <2>1, <2>2, <4>3, OwnStep DEF Owned
    <3> QED
      BY <3>4, <3>5
  <2> QED
    BY <2>5, <2>6
<1>4. CASE Saved(c)
  <2>1. PICK q : q = Call("list", None, Absent)
    OBVIOUS
  <2>2. /\ Owned /\ ~Opening /\ net' = (net \ {c}) \cup {q}
        /\ form' = [form EXCEPT !.shown = FALSE] /\ UNCHANGED <<rows, tokens, unlisted>>
    BY <1>4, <2>1 DEF Saved, Ask
  <2>3. OwnRows(q.list) /\ q.op = "list"
    BY <2>1, CallOwns
  <2>4. CallOwn(q)'
    BY <2>2, <2>3 DEF CallOwn, OwnRows, NamedAs, Whose
  <2>5. FormOwn'
    BY <2>2 DEF FormOwn, TokensTyped, Form
  <2> QED
    BY <2>2, <2>4, <2>5, OwnStep DEF Owned, Opening
<1>5. CASE CallFailed(c) \/ KeyArrived(c)
  <2>1. Owned /\ net' \subseteq net /\ UNCHANGED <<rows, tokens, editingId, form, unlisted>>
    BY <1>5 DEF CallFailed, KeyArrived, Done, ghosts, page
  <2>2. CallOwn(c) /\ c.op # "orgs"
    BY <1>5, <2>1 DEF CallFailed, KeyArrived, Owned
  <2> QED
    BY <2>1, <2>2, OwnKeep
<1> QED
  BY <1>1, <1>2, <1>3, <1>4, <1>5 DEF Answered

LEMMA OwnServer ==
  ASSUME TokensTyped, ~crossed => Owned, ~crossed', NEW c \in net,
         Serve(c) \/ Fail(c)
  PROVE  Owned'
<1>1. PICK r : ServedAs(c, r)
  BY CallIsServed
<1>2. /\ Owned /\ CallOwn(c) /\ net' = (net \ {c}) \cup {r}
      /\ UNCHANGED <<tokens, editingId, form, unlisted>>
      /\ r.op = c.op /\ r.tok = c.tok /\ r.data = c.data
  BY <1>1 DEF ServedAs, page, Owned
<1>3. CallOwn(r)
  BY <1>1, <1>2 DEF ServedAs, CallOwn, Owned
<1>4. OwnRows(rows')
  <2>1. CASE UNCHANGED rows
    BY <1>2, <2>1 DEF Owned
  <2>2. CASE Written(r) /\ rows' \in Effect(c)
    <3>1. Writes(c)
      BY <1>2, <2>2 DEF Written, Writes
    <3>2. OwnRows(rows)
      BY <1>2 DEF Owned
    <3>3. rows \in [Ids -> MaybeRow]
      BY DEF TokensTyped
    <3>4. PICK w : w = rows'
      OBVIOUS
    <3>5. w \in Effect(c)
      BY <2>2, <3>4
    <3>6. CASE c.op = "put"
      <4>1. w = [rows EXCEPT ![c.tok] = c.data] /\ NamedAs(c.data, Whose(c.tok))
        BY <1>2, <3>1, <3>5, <3>6, EffectTyped DEF CallOwn
      <4> QED
        BY <3>2, <3>3, <3>4, <4>1 DEF OwnRows
    <3>7. CASE c.op = "delete"
      <4>1. w = [rows EXCEPT ![c.tok] = Absent]
        BY <3>1, <3>5, <3>7, EffectTyped
      <4> QED
        BY <3>2, <3>3, <3>4, <4>1 DEF OwnRows
    <3>8. CASE c.op = "post"
      <4>1. PICK i \in Fresh : w = [rows EXCEPT ![i] = c.data]
        BY <3>1, <3>5, <3>8, EffectTyped
      <4>2. NamedAs(c.data, Whose(i))
        BY <1>2, <3>8, IdsAssumption DEF CallOwn, Whose
      <4> QED
        BY <3>2, <3>3, <3>4, <4>1, <4>2 DEF OwnRows
    <3> QED
      BY <3>1, <3>6, <3>7, <3>8 DEF Writes
  <2> QED
    BY <1>1, <2>1, <2>2 DEF ServedAs
<1>5. ASSUME NEW d \in net' PROVE CallOwn(d)'
  <2>1. CallOwn(d)
    BY <1>2, <1>3 DEF Owned
  <2> QED
    BY <1>2, <2>1 DEF CallOwn, OwnRows, NamedAs, Whose
<1>6. \A d, e \in net' : d.op = "orgs" /\ e.op = "orgs" => d = e
  BY <1>2 DEF Owned
<1>7. OwnRows(rows)' /\ OwnRows(tokens)' /\ FormOwn'
  BY <1>2, <1>4 DEF Owned, OwnRows, FormOwn, NamedAs, Whose
<1> QED
  BY <1>5, <1>6, <1>7 DEF Owned

LEMMA OwnNext ==
  ASSUME TokensTyped, ~crossed => Owned, ~crossed', [Next]_vars
  PROVE  Owned'
<1>1. CASE UNCHANGED vars
  <2>1. PICK q : q = Call("list", None, Absent)
    OBVIOUS
  <2>2. CallOwn(q) /\ q.op # "orgs"
    BY <2>1, CallOwns DEF CallOwn
  <2>3. Owned /\ UNCHANGED <<net, rows, tokens, editingId, form, unlisted>>
    BY <1>1 DEF vars
  <2> QED
    BY <2>2, <2>3, OwnKeep
<1>2. CASE \E c \in net : Serve(c) \/ Fail(c) \/ Answered(c)
  BY <1>2, OwnServer, OwnAnswer
<1>3. CASE Next /\ ~\E c \in net : Serve(c) \/ Fail(c) \/ Answered(c)
  BY <1>3, OwnUser, OwnTyping DEF Next
<1> QED
  BY <1>1, <1>2, <1>3

-----------------------------------------------------------------------------
(***************************************************************************)
(* The invariant and what follows from it.                                 *)
(***************************************************************************)
LEMMA InitTokens ==
  ASSUME Init
  PROVE  TokensInv
<1>1. TokensTyped
  BY InitTypes
<1>2. PICK q : /\ q = [id |-> 1, op |-> "providers", tok |-> None, data |-> Absent,
                      state |-> "sent", list |-> tokens, models |-> {}]
  OBVIOUS
<1>3. /\ net = {q} /\ q.id = 1 /\ q.op = "providers" /\ q.state = "sent" /\ q.list = tokens
      /\ newest = 0 /\ drawn = FALSE /\ form = BlankForm
  BY <1>2 DEF Init
<1>4. OwnRows(tokens)
  BY DEF Init, OwnRows
<1>5. OwnRows(rows)
  <2>1. \A i \in Tokens : i # New
    BY NamesDiffer DEF Ids
  <2> QED
    BY <2>1 DEF Init, OwnRows, NamedAs, Whose
<1>6. Owned
  BY <1>3, <1>4, <1>5, BlankTyped DEF Owned, FormOwn, CallOwn
<1>7. OneCallPerId /\ CatchingUp
  BY <1>3 DEF OneCallPerId, CatchingUp, LastBringsRows, DrawnIsRows, IsList
<1> QED
  BY <1>1, <1>6, <1>7 DEF TokensInv

\* The invariant of the page: types, the owner of every field while no opening
\* was crossed, and what the lists under way will bring.
THEOREM TokensInvariance == Spec => []TokensInv
<1>1. Init => TokensInv
  BY InitTokens
<1>2. TokensInv /\ [Next]_vars => TokensInv'
  <2> SUFFICES ASSUME TokensInv, [Next]_vars PROVE TokensInv'
    OBVIOUS
  <2>1. TokensTyped' /\ OneCallPerId' /\ CatchingUp'
    BY NextTypes, CatchNext DEF TokensInv
  <2>2. ~crossed' => Owned'
    BY OwnNext DEF TokensInv
  <2> QED
    BY <2>1, <2>2 DEF TokensInv
<1> QED
  BY <1>1, <1>2, PTL DEF Spec

\* Every variable of the page, and every call under way, has its type.
THEOREM TokensPageTypes == Spec => []TypeOK
<1>1. TokensInv => TypeOK
  <2> SUFFICES ASSUME TokensInv PROVE TypeOK
    OBVIOUS
  <2>1. [Ids -> MaybeRow] \subseteq [Ids -> Row]
    BY RowsTyped
  <2>2. CallsUpTo(sent) \subseteq CallType
    BY <2>1, NamesDiffer DEF CallsUpTo, CallType
  <2>3. TokensTyped
    BY DEF TokensInv
  <2> QED
    BY <2>1, <2>2, <2>3 DEF TokensTyped, TypeOK, MaybeId
<1> QED
  BY <1>1, TokensInvariance, PTL

\* A save writes the fields of one token to that token, and a creation none of
\* another's: name, organisation and rest of a row come from one form, that was
\* opened for it (tokens.js:356-398, 429-463).  Excepted are all fields once
\* something touched a form that waited for the organisations, and the
\* organisation of a token whose form was opened without their list.
THEOREM FormOwnsItsToken == Spec => []FormWritesItsToken
<1>1. TokensInv => FormWritesItsToken
  BY DEF TokensInv, Owned, OwnRows, NamedAs, OwnFields, FormWritesItsToken
<1> QED
  BY <1>1, TokensInvariance, PTL

\* With nothing under way the list shows the rows, unless a list was overtaken,
\* a write's answer was lost, or came to a page that had become the error text.
THEOREM ListIsRows == Spec => []ListCatchesUp
<1>1. TokensInv => ListCatchesUp
  BY DEF TokensInv, CatchingUp, Pending, DrawnIsRows, ListCatchesUp
<1> QED
  BY <1>1, TokensInvariance, PTL
=============================================================================
