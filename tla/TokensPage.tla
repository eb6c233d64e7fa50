----------------------------- MODULE TokensPage -----------------------------
(***************************************************************************)
(* The token page of the admin console (static/js/tokens.js) over the rows *)
(* of wr_tokens (routes/tokens.py): the list, the create and edit form     *)
(* with its pickers, deletion, the quota dialog and the key dialog.        *)
(*                                                                         *)
(* Every call is asynchronous.  What a handler does before its await is    *)
(* one step, what it does after is another, and in between the user goes   *)
(* on and other answers arrive, in any order.  The modals are children of  *)
(* the container that render() rebuilds, so that each render closes them.  *)
(*                                                                         *)
(* A row is its name, its organisation, its model restriction ({} means    *)
(* all), the two desensitisation fields, and rest, which stands for all    *)
(* the others.  Names, organisations and rests are told apart by the token *)
(* they were read from; the user is taken to leave these three as they are *)
(* filled in, and every organisation to be in the list GET /team/orgs.     *)
(***************************************************************************)
EXTENDS Naturals, FiniteSets

CONSTANTS
  Tokens,    \* ids of the tokens there at start
  Fresh,     \* ids the table gives to created tokens
  Models,
  Restriction, \* the models of each token at start
  MaxActs,   \* bound: things the user starts, and changes of the catalogue
  MaxFails   \* bound: calls that fail

ASSUME RestrictionAssumption == Restriction \in [Tokens -> SUBSET Models]
ASSUME BoundsAssumption == MaxActs \in Nat /\ MaxFails \in Nat

VARIABLES
  rows,       \* wr_tokens: id -> row, or Absent
  catalogue,  \* the union of the models of the providers' rows
  tokens,     \* this.tokens: the list as loaded
  allModels,  \* this.allModels
  drawn,      \* the container holds the page, not the load error
  editingId,  \* this.editingId, or None
  form,       \* the fields of the form
  resetId,    \* this._resetQuotaId, or None
  dialog,     \* the token whose quota dialog is open, or None
  keyShown,   \* the token whose key the key dialog shows, or None
  net,        \* the calls under way
  sent,       \* calls sent so far
  acts, fails,
  newest,     \* history: the latest list call that was answered
  crossed,    \* history: something else touched the form while it was opening
  unlisted,   \* history: whose form was opened without the list of organisations
  stale       \* history: a list was overtaken, or the answer to a write lost
              \* or answered to a page that had become the error text

vars == <<rows, catalogue, tokens, allModels, drawn, editingId, form, resetId,
          dialog, keyShown, net, sent, acts, fails, newest, crossed,
          unlisted, stale>>

page == <<tokens, allModels, drawn, editingId, form, resetId, dialog, keyShown>>
ghosts == <<newest, crossed, unlisted, stale>>

Ids    == Tokens \cup Fresh
None   == "none"
New    == "new"     \* the name and the rest of a form that was reset
Owner  == Ids \cup {New, None}
Levels == {"off", "standard"}

ASSUME IdsAssumption == Tokens \cap Fresh = {} /\ {None, New} \cap Ids = {}

Row    == [name : Owner, org : Owner, rest : Owner, models : SUBSET Models,
           on : BOOLEAN, level : Levels]
Absent == [name |-> None, org |-> None, rest |-> None, models |-> {},
           on |-> FALSE, level |-> "off"]

(***************************************************************************)
(* Calls.  id counts them as sent, tok is the token of the path, data what *)
(* was sent or captured.                                                   *)
(***************************************************************************)
Ops == {"providers", "list", "orgs", "put", "post", "delete", "reset", "key"}
Call(op, tok, data) ==
  [id |-> sent + 1, op |-> op, tok |-> tok, data |-> data, state |-> "sent",
   list |-> [i \in Ids |-> Absent], models |-> {}]

Ask(calls, c) == net' = calls \cup {c} /\ sent' = sent + 1
Done(c)       == net' = net \ {c} /\ UNCHANGED sent
Opening       == \E c \in net : c.op = "orgs"
Writes(c)     == c.op \in {"put", "post", "delete"}

(***************************************************************************)
(* The form.  boxes are the options drawn, all the "all models" box, and   *)
(* locked says that the options are disabled; picked is a history of the   *)
(* user's clicks on them.                                                  *)
(***************************************************************************)
Form == [shown : BOOLEAN, title : Owner, name : Owner, org : Owner, rest : Owner,
         boxes : SUBSET Models, ticked : SUBSET Models, all : BOOLEAN,
         locked : BOOLEAN, picked : BOOLEAN, on : BOOLEAN, level : Levels]

\* The form as render() writes it: empty pickers, the defaults of the inputs.
BlankForm == [shown |-> FALSE, title |-> None, name |-> New, org |-> None, rest |-> New,
              boxes |-> {}, ticked |-> {}, all |-> FALSE, locked |-> FALSE,
              picked |-> FALSE, on |-> FALSE, level |-> "standard"]

\* _renderModelSelect: an empty selection is "all"; a selected model that is
\* not in the catalogue has no option.
WithModels(f, selected) ==
  LET isAll == selected = {} IN
  [f EXCEPT !.boxes = allModels, !.all = isAll, !.locked = isAll, !.picked = FALSE,
            !.ticked = IF isAll THEN allModels ELSE selected \cap allModels]

\* A slip: the "all" box is taken for one of the options.
SelectedWithAllBox(f) == IF f.all THEN f.ticked \cup {"all"} ELSE f.ticked

\* getSelectedModels
SelectedModels(f) == IF f.all THEN {} ELSE f.ticked

\* The record submitForm builds, every field of it.
FormData(f) == [name |-> f.name, org |-> f.org, rest |-> f.rest,
                models |-> SelectedModels(f), on |-> f.on, level |-> IF f.on THEN f.level ELSE "off"]

(***************************************************************************)
(* The page is opened: load() asks for the providers, then for the list.   *)
(***************************************************************************)
Init ==
  /\ rows = [i \in Ids |-> IF i \in Tokens
                           THEN [name |-> i, org |-> i, rest |-> i, models |-> Restriction[i],
                                 on |-> TRUE, level |-> "standard"]
                           ELSE Absent]
  /\ catalogue = Models
  /\ tokens = [i \in Ids |-> Absent]
  /\ allModels = {}
  /\ drawn = FALSE
  /\ editingId = None
  /\ form = BlankForm
  /\ resetId = None /\ dialog = None /\ keyShown = None
  /\ net = {[id |-> 1, op |-> "providers", tok |-> None, data |-> Absent,
             state |-> "sent", list |-> tokens, models |-> {}]}
  /\ sent = 1
  /\ acts = 0 /\ fails = 0
  /\ newest = 0 /\ crossed = FALSE /\ unlisted = {} /\ stale = FALSE

Act == acts < MaxActs /\ acts' = acts + 1

\* The router shows the page again.
Load ==
  /\ Act
  /\ Ask(net, Call("providers", None, Absent))
  /\ UNCHANGED <<page, ghosts, rows, catalogue, fails>>

\* loadProviders: a failure keeps the old catalogue; load() goes on either way.
ProvidersAnswered(c) ==
  /\ c.op = "providers" /\ c.state # "sent"
  /\ allModels' = IF c.state = "ok" THEN c.models ELSE allModels
  /\ Ask(net \ {c}, Call("list", None, Absent))
  /\ UNCHANGED <<tokens, drawn, editingId, form, resetId, dialog, keyShown, ghosts,
                 rows, catalogue, acts, fails>>

\* render: the container is rebuilt with every modal closed and empty.
Render ==
  /\ form' = BlankForm
  /\ dialog' = None
  /\ keyShown' = None

\* loadTokens.  A failure replaces the container, modals and all, by an error text.
TokensListed(c) ==
  /\ c.op = "list" /\ c.state # "sent"
  /\ tokens' = IF c.state = "ok" THEN c.list ELSE tokens
  /\ drawn' = (c.state = "ok")
  /\ Render
  /\ newest' = IF c.id > newest THEN c.id ELSE newest
  /\ stale' = (stale \/ c.id < newest)
  /\ crossed' = (crossed \/ Opening)
  /\ Done(c)
  /\ UNCHANGED <<allModels, editingId, resetId, unlisted, rows, catalogue, acts, fails>>

(***************************************************************************)
(* The form.  A modal that is shown covers the buttons of the list.        *)
(***************************************************************************)
Uncovered == drawn /\ ~form.shown /\ dialog = None /\ keyShown = None

\* showAddForm up to its await.  reset() keeps the options of the organisations
\* as the opening before left them, and the one marked as selected.
ShowAddForm ==
  /\ Uncovered /\ Act
  /\ editingId' = None
  /\ form' = WithModels([BlankForm EXCEPT !.org = form.org], {})
  /\ crossed' = (crossed \/ Opening)
  /\ Ask(net, Call("orgs", None, Absent))
  /\ UNCHANGED <<tokens, allModels, drawn, resetId, dialog, keyShown, newest, unlisted, stale,
                 rows, catalogue, fails>>

\* A slip: the name is left as the form before had it.
EditTokenHalf(i) ==
  /\ Uncovered /\ tokens[i] # Absent /\ Act
  /\ editingId' = i
  /\ form' = [form EXCEPT !.title = i]
  /\ crossed' = (crossed \/ Opening)
  /\ Ask(net, Call("orgs", i, tokens[i]))
  /\ UNCHANGED <<tokens, allModels, drawn, resetId, dialog, keyShown, newest, unlisted, stale,
                 rows, catalogue, fails>>

\* editToken up to its await: the id, the title and the name.
EditToken(i) ==
  /\ Uncovered /\ tokens[i] # Absent /\ Act
  /\ editingId' = i
  /\ form' = [form EXCEPT !.title = i, !.name = tokens[i].name]
  /\ crossed' = (crossed \/ Opening)
  /\ Ask(net, Call("orgs", i, tokens[i]))
  /\ UNCHANGED <<tokens, allModels, drawn, resetId, dialog, keyShown, newest, unlisted, stale,
                 rows, catalogue, fails>>

\* The form once the organisations were asked for, and shown.  A failure is
\* logged and keeps the organisation that the form had before.
FilledIn(c) ==
  LET f == [form EXCEPT !.shown = TRUE,
                        !.org = IF c.state = "ok" THEN c.data.org ELSE @] IN
  IF c.tok = None THEN f
  ELSE WithModels([f EXCEPT !.rest = c.data.rest, !.on = c.data.on,
                            !.level = IF c.data.on THEN c.data.level ELSE "off"],
                  c.data.models)

\* A token of the start, or one that the page created.
Whose(i) == IF i \in Tokens THEN i ELSE New

\* loadOrgsForForm has ended, then the rest of both openings.  With the
\* container replaced by an error text the handler throws.
FormOpened(c) ==
  /\ c.op = "orgs" /\ c.state # "sent"
  /\ form' = IF drawn THEN FilledIn(c) ELSE form
  /\ unlisted' = IF c.state = "failed" THEN unlisted \cup {Whose(c.tok)} ELSE unlisted
  /\ Done(c)
  /\ UNCHANGED <<tokens, allModels, drawn, editingId, resetId, dialog, keyShown, newest,
                 crossed, stale, rows, catalogue, acts, fails>>

\* hideForm, from the cancel button.
HideForm ==
  /\ form.shown
  /\ form' = [form EXCEPT !.shown = FALSE]
  /\ editingId' = None
  /\ UNCHANGED <<tokens, allModels, drawn, resetId, dialog, keyShown, ghosts, rows,
                 catalogue, net, sent, acts, fails>>

Typing(f) ==
  /\ form.shown /\ Act
  /\ form' = f
  /\ UNCHANGED <<tokens, allModels, drawn, editingId, resetId, dialog, keyShown, ghosts,
                 rows, catalogue, net, sent, fails>>

\* An option of the picker; the "all" box follows when every one is ticked.
TickModel(m) ==
  LET t == IF m \in form.ticked THEN form.ticked \ {m} ELSE form.ticked \cup {m} IN
  /\ m \in form.boxes /\ ~form.locked
  /\ Typing([form EXCEPT !.ticked = t, !.all = (t = form.boxes), !.picked = TRUE])

\* The "all" box ticks or clears every option and disables or enables them.
TickAll ==
  Typing([form EXCEPT !.all = ~form.all, !.locked = ~form.all, !.picked = TRUE,
                      !.ticked = IF form.all THEN {} ELSE form.boxes])

\* onDesensitizeToggle: switched off, the level is put to "off" as well.
ToggleDesensitize ==
  Typing([form EXCEPT !.on = ~form.on,
                      !.level = IF form.on THEN "off" ELSE form.level])

ChooseLevel(l) ==
  /\ form.on /\ l # form.level
  /\ Typing([form EXCEPT !.level = l])

\* submitForm up to its await; nothing keeps it from running twice.
SubmitForm ==
  /\ form.shown /\ Act
  /\ Ask(net, Call(IF editingId # None THEN "put" ELSE "post", editingId, FormData(form)))
  /\ UNCHANGED <<page, ghosts, rows, catalogue, fails>>

\* The save succeeded: the form that is open now is closed and the list loaded
\* again.  The answer to a creation has the key under "token", so that the
\* test for a key at its top finds none and the key dialog stays closed.
Saved(c) ==
  /\ c.op \in {"put", "post"} /\ c.state = "ok" /\ drawn
  /\ form' = [form EXCEPT !.shown = FALSE]
  /\ editingId' = None
  /\ Ask(net \ {c}, Call("list", None, Absent))
  /\ crossed' = (crossed \/ Opening)
  /\ UNCHANGED <<tokens, allModels, drawn, resetId, dialog, keyShown, newest, unlisted, stale,
                 rows, catalogue, acts, fails>>

\* A failed save, deletion, reset or key: a message, and the page stays.  So
\* does a success whose modal is gone with the container: closing it throws,
\* and the list is not loaded again.
CallFailed(c) ==
  /\ \/ c.op \in {"put", "post", "delete", "reset", "key"} /\ c.state = "failed"
     \/ c.op \in {"put", "post", "reset"} /\ c.state = "ok" /\ ~drawn
  /\ Done(c)
  /\ stale' = (stale \/ (Writes(c) /\ c.state = "ok"))
  /\ UNCHANGED <<page, newest, crossed, unlisted, rows, catalogue, acts, fails>>

(***************************************************************************)
(* Deletion, the key and the quota dialog.                                 *)
(***************************************************************************)
\* deleteToken, confirmed.
DeleteToken(i) ==
  /\ Uncovered /\ tokens[i] # Absent /\ Act
  /\ Ask(net, Call("delete", i, Absent))
  /\ UNCHANGED <<page, ghosts, rows, catalogue, fails>>

\* A slip: the list is not loaded again.
DeletedQuietly(c) ==
  /\ c.op = "delete" /\ c.state = "ok"
  /\ Done(c)
  /\ UNCHANGED <<page, ghosts, rows, catalogue, acts, fails>>

Deleted(c) ==
  /\ c.op = "delete" /\ c.state = "ok"
  /\ Ask(net \ {c}, Call("list", None, Absent))
  /\ UNCHANGED <<page, ghosts, rows, catalogue, acts, fails>>

ShowKey(i) ==
  /\ Uncovered /\ tokens[i] # Absent /\ Act
  /\ Ask(net, Call("key", i, Absent))
  /\ UNCHANGED <<page, ghosts, rows, catalogue, fails>>

\* showKeyModal
KeyArrived(c) ==
  /\ c.op = "key" /\ c.state = "ok"
  /\ keyShown' = IF drawn THEN c.tok ELSE None
  /\ Done(c)
  /\ UNCHANGED <<tokens, allModels, drawn, editingId, form, resetId, dialog, ghosts,
                 rows, catalogue, acts, fails>>

HideKeyModal ==
  /\ keyShown # None
  /\ keyShown' = None
  /\ UNCHANGED <<tokens, allModels, drawn, editingId, form, resetId, dialog, ghosts,
                 rows, catalogue, net, sent, acts, fails>>

ShowResetQuota(i) ==
  /\ Uncovered /\ tokens[i] # Absent /\ Act
  /\ resetId' = i /\ dialog' = i
  /\ UNCHANGED <<tokens, allModels, drawn, editingId, form, keyShown, ghosts, rows,
                 catalogue, net, sent, fails>>

HideQuotaModal ==
  /\ dialog # None
  /\ resetId' = None /\ dialog' = None
  /\ UNCHANGED <<tokens, allModels, drawn, editingId, form, keyShown, ghosts, rows,
                 catalogue, net, sent, acts, fails>>

SubmitResetQuota ==
  /\ dialog # None /\ resetId # None /\ Act
  /\ Ask(net, Call("reset", resetId, Absent))
  /\ UNCHANGED <<page, ghosts, rows, catalogue, fails>>

\* The reset succeeded: the dialog that is open now is closed.
QuotaReset(c) ==
  /\ c.op = "reset" /\ c.state = "ok" /\ drawn
  /\ resetId' = None /\ dialog' = None
  /\ Ask(net \ {c}, Call("list", None, Absent))
  /\ UNCHANGED <<tokens, allModels, drawn, editingId, form, keyShown, ghosts, rows,
                 catalogue, acts, fails>>

(***************************************************************************)
(* The server: routes/tokens.py, one transaction per call.                 *)
(***************************************************************************)
Reply(c, r) == net' = (net \ {c}) \cup {r} /\ UNCHANGED <<page, sent, catalogue, acts>>

\* update_token, create_token, delete_token: a missing row is a 404.
Effect(c) ==
  CASE c.op = "put" /\ rows[c.tok] # Absent -> {[rows EXCEPT ![c.tok] = c.data]}
    [] c.op = "delete" /\ rows[c.tok] # Absent -> {[rows EXCEPT ![c.tok] = Absent]}
    [] c.op = "post" -> {[rows EXCEPT ![i] = c.data] : i \in {j \in Fresh : rows[j] = Absent}}
    [] OTHER -> {}

ServeWrite(c) ==
  /\ Writes(c) /\ c.state = "sent"
  /\ IF Effect(c) = {}
     THEN /\ Reply(c, [c EXCEPT !.state = "failed"])
          /\ UNCHANGED rows
     ELSE \E r \in Effect(c) :
          /\ rows' = r
          /\ Reply(c, [c EXCEPT !.state = "ok"])
  /\ UNCHANGED <<ghosts, fails>>

\* reset_quota writes quota_total and quota_used, which TokenQuota models.
ServeRead(c) ==
  /\ ~Writes(c) /\ c.state = "sent"
  /\ Reply(c, [c EXCEPT !.state = IF c.op \in {"reset", "key"} /\ rows[c.tok] = Absent
                                  THEN "failed" ELSE "ok",
                        !.list = IF c.op = "list" THEN rows ELSE @,
                        !.models = IF c.op = "providers" THEN catalogue ELSE @])
  /\ UNCHANGED <<rows, ghosts, fails>>

Serve(c) == ServeWrite(c) \/ ServeRead(c)

\* A call fails before the server sees it, or its answer is lost.
Fail(c) ==
  /\ c.state # "failed" /\ fails < MaxFails
  /\ Reply(c, [c EXCEPT !.state = "failed"])
  /\ fails' = fails + 1
  /\ stale' = (stale \/ (Writes(c) /\ c.state = "ok"))
  /\ UNCHANGED <<rows, newest, crossed, unlisted>>

\* A provider is edited elsewhere, and its models with it.
CatalogueChanges ==
  /\ Act
  /\ \E m \in Models : catalogue' = catalogue \ {m}
  /\ UNCHANGED <<page, ghosts, rows, net, sent, fails>>

Answered(c) ==
  \/ ProvidersAnswered(c)
  \/ TokensListed(c)
  \/ FormOpened(c)
  \/ Saved(c)
  \/ CallFailed(c)
  \/ Deleted(c)
  \/ KeyArrived(c)
  \/ QuotaReset(c)

Next ==
  \/ Load
  \/ ShowAddForm
  \/ \E i \in Ids : EditToken(i) \/ DeleteToken(i) \/ ShowKey(i) \/ ShowResetQuota(i)
  \/ HideForm
  \/ \E m \in Models : TickModel(m)
  \/ TickAll
  \/ ToggleDesensitize
  \/ \E l \in Levels : ChooseLevel(l)
  \/ SubmitForm
  \/ HideKeyModal
  \/ HideQuotaModal
  \/ SubmitResetQuota
  \/ CatalogueChanges
  \/ \E c \in net : Serve(c) \/ Fail(c) \/ Answered(c)

Spec == Init /\ [][Next]_vars

-----------------------------------------------------------------------------
(***************************************************************************)
(* Properties                                                              *)
(***************************************************************************)
CallType == [id : 1..sent, op : Ops, tok : Owner, data : Row,
             state : {"sent", "ok", "failed"}, list : [Ids -> Row],
             models : SUBSET Models]

\* Types of the page, of the calls under way and of the rows.
TypeOK ==
  /\ rows \in [Ids -> Row] /\ catalogue \subseteq Models
  /\ tokens \in [Ids -> Row] /\ allModels \subseteq Models
  /\ drawn \in BOOLEAN
  /\ editingId \in Ids \cup {None}
  /\ form \in Form
  /\ {resetId, dialog, keyShown} \subseteq Ids \cup {None}
  /\ sent \in Nat
  /\ net \subseteq CallType
  /\ acts \in 0..MaxActs /\ fails \in 0..MaxFails
  /\ newest \in 0..sent
  /\ crossed \in BOOLEAN /\ unlisted \subseteq Tokens \cup {New} /\ stale \in BOOLEAN

\* A save writes the fields of one token to that token, and a creation none of
\* another's: name, organisation and rest of each row come from one form, that
\* was opened for it (tokens.js:356-398, 429-463).  Excepted are all fields
\* once something touched a form that waited for the organisations, and the
\* organisation of a token whose form was opened without their list.
OwnFields(i) ==
  LET o == Whose(i) IN
  /\ rows[i].name = o /\ rows[i].rest = o
  /\ o \notin unlisted => rows[i].org = IF o = New THEN None ELSE o
FormWritesItsToken ==
  ~crossed => \A i \in Ids : rows[i] # Absent => OwnFields(i)

\* The same without the second exception: a save in which the user left the
\* organisation alone keeps it.
OrgSurvivesEdit ==
  ~crossed => \A i \in Tokens : rows[i] # Absent => rows[i].org = i

\* And without the first: no save mixes the fields of two tokens.
NoMixedRow ==
  \A i \in Ids : rows[i] # Absent => rows[i].name = Whose(i) /\ rows[i].rest = Whose(i)

\* With nothing under way the list shows the rows as they are: every write is
\* followed by a load, in whatever order the answers came, unless a list was
\* overtaken by a newer one, a write's answer was lost, or it came to a page
\* that had become the error text (tokens.js:440-445 closes the form first).
ListCatchesUp == net = {} /\ drawn /\ ~stale => tokens = rows

\* tokens.js:759 "selected models (empty = all)", website tokens-teams.md:12
\* "restricts the models that can be used": saving an edit in which the user
\* did not touch the pickers does not lift the restriction of a token.
RestrictionSurvivesEdit ==
  form.shown /\ ~crossed /\ form.title # None /\ ~form.picked /\ SelectedModels(form) = {}
    => tokens[form.title].models = {}
=============================================================================
