------------------------------ MODULE WebSplitLists ------------------------------
(***************************************************************************)
(* The lists of shared expenses outside a group: my contacts with the      *)
(* requests of partners, the groups, and the overview with the recent      *)
(* activity.  A list is read as a whole (a newer read aborts the older     *)
(* one); a change of mine edits the list on the screen or has lists read   *)
(* again.  Nobody else changes anything.  The lists share nothing, so a    *)
(* behaviour has the one of its scope.                                     *)
(***************************************************************************)
EXTENDS Integers, FiniteSets

CONSTANTS
  Rows,         \* contacts, or groups
  Linked,       \* the contact that an accepted partner becomes
  MaxOps,       \* bound: changes
  MaxRefreshes, \* bound: reads of all the lists
  MaxOpenings,  \* bound: how often the form is opened
  None

SplitListsAssumption ==
  /\ Linked \in Rows /\ {MaxOps, MaxRefreshes, MaxOpenings} \subseteq Nat
  /\ Rows \cap {None, "error"} = {}

VARIABLES
  scope,       \* "people", "groups" or "money"
  truth,       \* truth[k]: the list k of the server
  shown,       \* shown[k]: the list k on the screen
  loads,       \* reads on their way: the newest of each list
  nLoads, refreshes,
  loading,     \* the lists that show they are being read
  ops, nOps,   \* changes on their way
  sheet,       \* None, "new", "invite" or the row edited
  openings, saving,
  target,      \* the row asked about, or None
  deleting,
  made,        \* history: made[n], rows created by the n-th opening
  mixed,       \* history: a read failed or overlapped a change, or two changes of a row did
  missed       \* history: lists that changed on the server and are not read again

vars == <<scope, truth, shown, loads, nLoads, refreshes, loading, ops, nOps, sheet, openings,
          saving, target, deleting, made, mixed, missed>>
form == <<sheet, openings, saving, target, deleting>>

ListsOf == [people |-> {"rows", "links"}, groups |-> {"rows"}, money |-> {"overview", "activity"}]
Lists == {"rows", "links", "overview", "activity"}
Nothing == [rows |-> [r \in Rows |-> 0], links |-> [in |-> None, out |-> None],
            overview |-> 0, activity |-> 0]
Revisions == 0..(MaxOps + 1)      \* of a row: 0 when there is none
LinkStates == {None, "PENDING", "ACCEPTED", "DECLINED"}
Pictures == [rows : [Rows -> Revisions], links : [in : LinkStates, out : LinkStates],
             overview : Revisions, activity : Revisions]

Of(kinds) == {o \in ops : o.kind \in kinds}

TypeOK ==
  /\ scope \in DOMAIN ListsOf /\ {truth, shown} \subseteq Pictures
  /\ \A k \in Lists : Cardinality({l \in loads : l.kind = k}) <= 1
  /\ loading = {l.kind : l \in loads} /\ nOps \in 0..MaxOps /\ refreshes \in 0..MaxRefreshes
  /\ sheet \in {None, "new", "invite"} \cup Rows /\ openings \in 0..MaxOpenings
  /\ saving => Of({"create", "edit", "send"}) # {}
  /\ ~saving /\ scope = "people" => Of({"create", "edit", "send"}) = {}
  /\ deleting = (Of({"delete"}) # {})
  /\ target \in Rows \cup {None} /\ made \in [1..MaxOpenings -> Nat]
  /\ mixed \in BOOLEAN /\ missed \subseteq Lists

Init ==
  /\ scope \in DOMAIN ListsOf
  /\ truth \in {[Nothing EXCEPT !.rows[Linked] = r, !.links.in = l] :
                  r \in {0, 1}, l \in IF scope = "people" THEN {None, "PENDING"} ELSE {None}}
  /\ shown = Nothing /\ loads = {} /\ nLoads = 0 /\ refreshes = 0 /\ loading = {}
  /\ ops = {} /\ nOps = 0 /\ sheet = None /\ openings = 0 /\ saving = FALSE
  /\ target = None /\ deleting = FALSE /\ made = [n \in 1..MaxOpenings |-> 0]
  /\ mixed = FALSE /\ missed = ListsOf[scope]

(***************************************************************************)
(* Reading                                                                 *)
(***************************************************************************)
Begin(K) ==
  /\ loads' = {l \in loads : l.kind \notin K} \cup [kind : K, n : {nLoads + 1}, got : {None}]
  /\ nLoads' = nLoads + 1 /\ loading' = loading \cup K /\ missed' = missed \ K
  /\ mixed' = (mixed \/ ops' # {})
NoRead == UNCHANGED <<loads, nLoads, loading, mixed, missed>>

(* The screen appears, or is pulled down. *)
HandlePullRefresh ==
  /\ refreshes < MaxRefreshes /\ refreshes' = refreshes + 1
  /\ UNCHANGED <<scope, truth, shown, ops, nOps, form, made>> /\ Begin(ListsOf[scope])

ServeLoad(l) ==
  /\ l.got = None /\ loads' = (loads \ {l}) \cup {[l EXCEPT !.got = truth[l.kind]]}
  /\ UNCHANGED <<scope, truth, shown, nLoads, refreshes, loading, ops, nOps, form, made, mixed, missed>>

(* Mutant: the flag comes down after a success only. *)
LoweredOnSuccess(l, ok) == IF ok THEN loading \ {l.kind} ELSE loading

Lowered(l, ok) == loading \ {l.kind}

HearLoad(l, ok) ==
  /\ ok => l.got # None
  /\ loads' = loads \ {l} /\ loading' = Lowered(l, ok)
  /\ shown' = IF ok THEN [shown EXCEPT ![l.kind] = l.got] ELSE shown
  /\ mixed' = (mixed \/ ~ok)
  /\ UNCHANGED <<scope, truth, nLoads, refreshes, ops, nOps, form, made, missed>>

(***************************************************************************)
(* The form and the question                                               *)
(***************************************************************************)
RowShown(r) == shown.rows[r] > 0
OpenSheet(s) ==
  /\ scope # "money" /\ sheet = None /\ target = None /\ openings < MaxOpenings
  /\ s \in Rows => RowShown(s)
  /\ s = "invite" => scope = "people"
  /\ sheet' = s /\ openings' = openings + 1
  /\ UNCHANGED <<scope, truth, shown, loads, nLoads, refreshes, loading, ops, nOps, saving, target, deleting, made, mixed, missed>>
CloseSheet ==
  /\ sheet # None /\ sheet' = None
  /\ UNCHANGED <<scope, truth, shown, loads, nLoads, refreshes, loading, ops, nOps, openings, saving, target, deleting, made, mixed, missed>>
AskDelete(r) ==
  /\ scope # "money" /\ sheet = None /\ RowShown(r) /\ target' \in {r, None} \ {target}
  /\ UNCHANGED <<scope, truth, shown, loads, nLoads, refreshes, loading, ops, nOps, sheet, openings, saving, deleting, made, mixed, missed>>

(***************************************************************************)
(* Changes                                                                 *)
(***************************************************************************)
Send(kind, id) ==
  /\ nOps < MaxOps /\ nOps' = nOps + 1
  /\ ops' = ops \cup {[n |-> nOps + 1, kind |-> kind, id |-> id, opening |-> openings, result |-> None, rev |-> 0, load |-> 0]}
  /\ mixed' = (mixed \/ loads # {} \/ \E o \in ops : o.id = id)
  /\ UNCHANGED <<scope, truth, shown, loads, nLoads, refreshes, loading, sheet, openings, target, made, missed>>

(* Mutant: the button works while an answer is awaited. *)
FreeAnyTime == TRUE

ButtonFree == ~saving

(* In the form of a group the Enter key works all the same. *)
EnterKey == scope = "groups"
Free == ButtonFree \/ EnterKey

HandleSave ==
  /\ sheet # None /\ Free
  /\ CASE sheet = "new" -> Send("create", None)
       [] sheet = "invite" -> Send("send", "links")
       [] OTHER -> Send("edit", sheet)
  /\ saving' = TRUE /\ UNCHANGED deleting
ConfirmDelete ==
  /\ target # None /\ ~deleting /\ Send("delete", target)
  /\ deleting' = TRUE /\ UNCHANGED saving
AnswerRequest(kind) ==
  /\ scope = "people" /\ sheet = None /\ target = None /\ shown.links.in = "PENDING"
  /\ Send(kind, "links") /\ UNCHANGED <<saving, deleting>>

(* An expense saved, a settlement made or deleted; an expense of no group  *)
(* edited or deleted in its own section. *)
Spend(kind) ==
  /\ scope = "money" /\ Send(kind, "books") /\ UNCHANGED <<saving, deleting>>
SpendInView == Spend("spend")
SpendInSection == Spend("quietly")

(* The server.  A request of the other one that is pending is accepted     *)
(* when I send mine: the contacts are not read then, nor the overview when *)
(* an expense of no group is changed in its own section.                   *)
Accepted(t) == [t EXCEPT !.links.in = "ACCEPTED", !.rows[Linked] = IF @ = 0 THEN 1 ELSE @]
Applied(o, r) ==
  CASE o.kind = "create" -> [truth EXCEPT !.rows[r] = 1]
    [] o.kind = "edit" -> [truth EXCEPT !.rows[o.id] = @ + 1]
    [] o.kind = "delete" -> [truth EXCEPT !.rows[o.id] = 0]
    [] o.kind = "accept" \/ (o.kind = "send" /\ truth.links.in = "PENDING") -> Accepted(truth)
    [] o.kind = "decline" -> [truth EXCEPT !.links.in = "DECLINED"]
    [] o.kind = "send" -> [truth EXCEPT !.links.out = "PENDING"]
    [] OTHER -> [truth EXCEPT !.overview = @ + 1, !.activity = @ + 1]
Refused(o) ==
  \/ o.kind \in {"edit", "delete"} /\ truth.rows[o.id] = 0
  \/ o.kind \in {"accept", "decline"} /\ truth.links.in # "PENDING"
  \/ o.kind = "send" /\ (truth.links.out = "PENDING" \/ truth.links.in = "ACCEPTED")
Unused(r) == truth.rows[r] = 0 /\ shown.rows[r] = 0 /\ \A o \in ops : r \notin {o.id, o.result}
Serve(o) ==
  /\ o.result = None
  /\ \E r \in (IF Refused(o) THEN {} ELSE IF o.kind = "create" THEN {x \in Rows : Unused(x)} ELSE {"ok"})
              \cup {"error"} :
       /\ ops' = (ops \ {o}) \cup {[o EXCEPT !.result = r, !.rev = IF o.kind = "edit" THEN truth.rows[o.id] + 1 ELSE 0]}
       /\ truth' = IF r = "error" THEN truth ELSE Applied(o, r)
       /\ made' = IF r # "error" /\ o.kind = "create" THEN [made EXCEPT ![o.opening] = @ + 1] ELSE made
       /\ missed' = missed \cup (IF r # "error" /\ o.kind = "send" /\ truth.links.in = "PENDING"
                                 THEN {"rows"} ELSE IF o.kind = "quietly" THEN {"overview"} ELSE {})
  /\ UNCHANGED <<scope, shown, loads, nLoads, refreshes, loading, nOps, form, mixed>>

(* Mutant: the row edited stays as it was. *)
SameRow(was, rev) == was

(* The row of the answer replaces the one on the screen, if it is there.   *)
NewerRow(was, rev) == IF was = 0 THEN 0 ELSE rev

(* What an answer makes of the list on the screen. *)
Edited(o) ==
  CASE o.kind = "create" -> [shown EXCEPT !.rows[o.result] = 1]
    [] o.kind = "edit" -> [shown EXCEPT !.rows[o.id] = NewerRow(@, o.rev)]
    [] o.kind = "delete" -> [shown EXCEPT !.rows[o.id] = 0]
    [] o.kind = "accept" -> [shown EXCEPT !.links.in = "ACCEPTED"]
    [] o.kind = "decline" -> [shown EXCEPT !.links.in = "DECLINED"]
    [] OTHER -> shown

(* Mutant: nothing is read after a request was accepted. *)
NoLists == {}

ContactsAgain == {"rows"}

(* The lists that are read again. *)
ReadAfter(o) ==
  CASE o.kind = "accept" -> ContactsAgain [] o.kind = "send" -> {"links"}
    [] o.kind = "spend" -> {"overview", "activity"} [] o.kind = "quietly" -> {"activity"}
    [] OTHER -> {}

(* A success closes the form that is open, or the question. *)
Over(o, good) ==
  /\ saving' = (saving /\ o.kind \notin {"create", "edit", "send"})
  /\ deleting' = (deleting /\ o.kind # "delete")
  /\ sheet' = IF good /\ o.kind \in {"create", "edit", "send"} THEN None ELSE sheet
  /\ target' = IF good /\ o.kind = "delete" THEN None ELSE target
  /\ UNCHANGED <<scope, truth, refreshes, nOps, openings, made>>
HearError(o) == o.result = "error" /\ ops' = ops \ {o} /\ Over(o, FALSE) /\ NoRead /\ UNCHANGED shown
Hear(o) ==
  /\ o.result \notin {None, "error", "reading"} /\ o.kind # "send" /\ ops' = ops \ {o}
  /\ shown' = Edited(o) /\ Over(o, TRUE)
  /\ IF ReadAfter(o) = {} THEN NoRead ELSE Begin(ReadAfter(o))

(* The requests are read before the form closes. *)
HearSent(o) ==
  /\ o.kind = "send" /\ o.result = "ok"
  /\ ops' = (ops \ {o}) \cup {[o EXCEPT !.result = "reading", !.load = nLoads + 1]}
  /\ UNCHANGED <<scope, truth, shown, refreshes, nOps, form, made>>
  /\ Begin(ReadAfter(o))
HearReloaded(o) ==
  /\ o.result = "reading" /\ \A l \in loads : l.n # o.load
  /\ ops' = ops \ {o} /\ Over(o, TRUE) /\ NoRead /\ UNCHANGED shown

Next ==
  \/ HandlePullRefresh \/ CloseSheet \/ HandleSave \/ ConfirmDelete
  \/ \E l \in loads : ServeLoad(l) \/ HearLoad(l, TRUE) \/ HearLoad(l, FALSE)
  \/ \E s \in {"new", "invite"} \cup Rows : OpenSheet(s)
  \/ \E r \in Rows : AskDelete(r)
  \/ AnswerRequest("accept") \/ AnswerRequest("decline") \/ SpendInView \/ SpendInSection
  \/ \E o \in ops : Serve(o) \/ HearError(o) \/ Hear(o) \/ HearSent(o) \/ HearReloaded(o)

Answer ==
  \/ \E l \in loads : ServeLoad(l) \/ HearLoad(l, TRUE) \/ HearLoad(l, FALSE)
  \/ \E o \in ops : Serve(o) \/ HearError(o) \/ Hear(o) \/ HearSent(o) \/ HearReloaded(o)
Spec == Init /\ [][Next]_vars /\ WF_vars(Answer)

(***************************************************************************)
(* Properties                                                              *)
(***************************************************************************)
(* Once everything is answered the lists on the screen are the server's,   *)
(* unless a read failed or overlapped a change, or the code leaves a list  *)
(* unread.                                                                 *)
ListsAreTheServers ==
  loads = {} /\ ops = {} /\ ~mixed =>
    \A k \in ListsOf[scope] \ missed : shown[k] = truth[k]

(* One opening of the form of a contact makes one contact at most.         *)
OneContactPerForm == scope = "people" => \A n \in 1..MaxOpenings : made[n] <= 1

Working == loading # {}

(* A list that is being read is read at last. *)
ListLoadingEnds == Working ~> ~Working

(***************************************************************************)
(* The inductive invariant                                                 *)
(***************************************************************************)
(* What the forms ask for, and for which opening.                          *)
OpFields == {"n", "kind", "id", "opening", "result", "rev", "load"}
FormKinds == {"create", "edit", "send"}
FormInv ==
  /\ openings \in 0..MaxOpenings /\ made \in [1..MaxOpenings -> Nat]
  /\ sheet # None => openings > 0
  /\ \A o \in ops : DOMAIN o = OpFields /\ (o.kind \in FormKinds => o.opening \in 1..openings)

(* The form of a contact asks for one thing at a time, under its flag.     *)
FlagInv == scope = "people" =>
  \A o, p \in ops : o.kind \in FormKinds /\ p.kind \in FormKinds => o = p /\ saving

(* What is to be created was not created before; a form that created its   *)
(* contact is closed by the answer that is on its way.                     *)
MadeInv == scope = "people" =>
  /\ \A n \in 1..MaxOpenings : n > openings => made[n] = 0
  /\ \A o \in ops : o.kind = "create" /\ o.result = None => made[o.opening] = 0
  /\ sheet # None /\ made[openings] # 0 =>
       \E o \in ops : o.kind = "create" /\ o.result \notin {None, "error"}

IInv == FormInv /\ FlagInv /\ MadeInv /\ OneContactPerForm
=============================================================================
