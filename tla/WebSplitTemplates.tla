--------------------------- MODULE WebSplitTemplates ---------------------------
(***************************************************************************)
(* The recurring expenses on the screen of a group: the list and the       *)
(* requests that change it, the form of one template, and the question     *)
(* before a deletion.  The list is loaded whenever the section appears;    *)
(* a change edits the list with the answer of the server and loads nothing.*)
(***************************************************************************)
EXTENDS Integers, FiniteSets

CONSTANTS
  Me, Others,
  Templates,   \* ids, those of templates still to be made included
  Expired,     \* templates whose end date is past
  MaxOpenings, \* bound: openings of the form
  MaxOps,      \* bound: changes
  MaxLoads,    \* bound: loads
  None

TemplatesAssumption ==
  /\ Me \notin Others /\ Expired \subseteq Templates
  /\ {MaxOpenings, MaxOps, MaxLoads} \subseteq Nat
  /\ None \notin Templates /\ None \notin {Me} \cup Others
  /\ {"new", "ok", "error"} \cap Templates = {}
  /\ None \notin {"new", "ok", "error", "ACTIVE", "DISABLED"}

People == {Me} \cup Others
Status == {"ACTIVE", "DISABLED"}
Lists == [Templates -> Status \cup {None}]   \* None: there is no such template

VARIABLES
  server,      \* the templates of the group
  shown,       \* the list on the screen
  loads,       \* loads on their way: the newest one only, the others aborted
  loaded,      \* how many were begun
  ops,         \* changes on their way
  opCount,
  mixed,       \* history: a load failed or overlapped a change, or two changes of a row did
  form,        \* what is in the form: the people, who paid, category and account
  mode,        \* None, "new" or the template edited
  openings,
  submitting, generating, deleting,
  target,      \* the template asked about, or None
  made         \* history: made[n], templates created by the n-th opening

vars == <<server, shown, loads, loaded, ops, opCount, mixed, form, mode, openings,
          submitting, generating, deleting, target, made>>
list == <<shown, loads, loaded>>
sheet == <<form, mode, openings>>
flags == <<submitting, generating, deleting>>

Forms == [parts : SUBSET People, payer : People \cup {None}, extras : BOOLEAN]
NoForm == [parts |-> {}, payer |-> None, extras |-> FALSE]

Saves == {"create", "edit"}
Kinds == Saves \cup {"generate", "delete", "toggle"}

SheetType ==
  /\ form \in Forms /\ mode \in {None, "new"} \cup Templates /\ openings \in 0..MaxOpenings
  /\ form.payer # None => form.payer \in form.parts
  /\ mode # None => openings > 0
  /\ target \in Templates \cup {None} /\ made \in [1..MaxOpenings -> Nat]
ListType ==
  /\ server \in Lists /\ shown \in Lists
  /\ \A l, m \in loads : l = m
  /\ loaded \in 0..MaxLoads /\ opCount \in 0..MaxOps /\ mixed \in BOOLEAN
FlagType ==
  /\ submitting \in BOOLEAN /\ generating \in BOOLEAN /\ deleting \in BOOLEAN
  /\ submitting <=> \E o \in ops : o.kind \in Saves
  /\ generating <=> \E o \in ops : o.kind = "generate"
  /\ deleting <=> \E o \in ops : o.kind = "delete"
Ops == [n : Nat, kind : Kinds, id : Templates \cup {None}, enable : BOOLEAN, opening : Nat,
        extras : BOOLEAN, mine : BOOLEAN, result : Templates \cup {None, "ok", "error"}]
OpType ==
  \A o \in ops :
    /\ o \in Ops /\ o.opening <= openings
    /\ IF o.kind \in {"create", "generate"} THEN o.id = None ELSE o.id \in Templates
    /\ o.kind = "create" => o.opening > 0 /\ o.result \in Templates \cup {None, "error"}
    /\ o.kind # "create" => o.result \in {None, "ok", "error"}
TypeOK == SheetType /\ ListType /\ FlagType /\ OpType

Init ==
  /\ server \in {l \in Lists : Cardinality({t \in Templates : l[t] # None}) <= 1
                               /\ \A t \in Expired : l[t] # "ACTIVE"}
  /\ shown = [t \in Templates |-> None]
  /\ loads = {} /\ loaded = 0 /\ ops = {} /\ opCount = 0 /\ mixed = FALSE
  /\ form = NoForm /\ mode = None /\ openings = 0
  /\ submitting = FALSE /\ generating = FALSE /\ deleting = FALSE
  /\ target = None /\ made = [n \in 1..MaxOpenings |-> 0]

(***************************************************************************)
(* The list                                                                *)
(***************************************************************************)
(* The section appears. *)
LoadSplitRecurring ==
  /\ loaded < MaxLoads /\ loaded' = loaded + 1 /\ loads' = {loaded + 1}
  /\ mixed' = (mixed \/ ops # {})
  /\ UNCHANGED <<server, shown, ops, opCount, sheet, flags, target, made>>
HearList(l, ok) ==
  /\ loads' = loads \ {l}
  /\ shown' = IF ok THEN server ELSE shown
  /\ mixed' = (mixed \/ ~ok)
  /\ UNCHANGED <<server, loaded, ops, opCount, sheet, flags, target, made>>

(***************************************************************************)
(* The form                                                                *)
(***************************************************************************)
PayerIsSelf(f) == f.payer = Me

(* Mutant: the category and the account outlive the payer they were for. *)
KeepsExtras(f) == f

Cleared(f) ==
  IF PayerIsSelf(form) /\ ~PayerIsSelf(f) THEN [f EXCEPT !.extras = FALSE] ELSE f

Opened(m, f) ==
  /\ mode = None /\ target = None /\ openings < MaxOpenings /\ openings' = openings + 1
  /\ mode' = m /\ form' = Cleared(f)
  /\ UNCHANGED <<server, list, ops, opCount, mixed, flags, target, made>>
(* The first member of the group pays until somebody else is chosen. *)
OpenCreateForm == \E p \in People : Opened("new", [parts |-> People, payer |-> p, extras |-> FALSE])
OpenEditForm(t) ==
  /\ shown[t] # None
  /\ \E f \in Forms : f.payer # None /\ f.parts = People /\ Opened(t, f)
CloseForm ==
  /\ mode # None /\ mode' = None
  /\ UNCHANGED <<server, list, ops, opCount, mixed, form, openings, flags, target, made>>

Change(f) ==
  /\ mode # None /\ form' = Cleared(f)
  /\ UNCHANGED <<server, list, ops, opCount, mixed, mode, openings, flags, target, made>>
AddParticipant(p) ==
  /\ p \notin form.parts
  /\ Change([form EXCEPT !.parts = @ \cup {p}, !.payer = IF form.parts = {} THEN p ELSE @])
RemoveParticipant(p) ==
  /\ p \in form.parts
  /\ Change([form EXCEPT !.parts = @ \ {p}, !.payer = IF @ = p THEN None ELSE @])
SetPayer(p) == p \in form.parts /\ Change([form EXCEPT !.payer = p])
SetExtras(b) == PayerIsSelf(form) /\ Change([form EXCEPT !.extras = b])

(***************************************************************************)
(* Changes                                                                 *)
(***************************************************************************)
Send(kind, t, enable) ==
  /\ opCount < MaxOps /\ opCount' = opCount + 1
  /\ ops' = ops \cup {[n |-> opCount + 1, kind |-> kind, id |-> t, enable |-> enable,
                       opening |-> openings, extras |-> form.extras /\ mode = "new",
                       mine |-> PayerIsSelf(form), result |-> None]}
  /\ mixed' = (mixed \/ loads # {} \/ \E o \in ops : o.id = t)
  /\ UNCHANGED <<server, list, sheet, made>>

(* Mutant: the button works while an answer is awaited. *)
FreeAnyTime(flag) == TRUE

Free(flag) == ~flag

(* The form is complete: texts, raw inputs and a payer. *)
HandleSubmit ==
  /\ mode # None /\ Free(submitting) /\ form.payer # None
  /\ IF mode = "new" THEN Send("create", None, FALSE) ELSE Send("edit", mode, FALSE)
  /\ submitting' = TRUE /\ UNCHANGED <<generating, deleting, target>>
HandleGenerate ==
  /\ mode = None /\ Free(generating) /\ Send("generate", None, FALSE)
  /\ generating' = TRUE /\ UNCHANGED <<submitting, deleting, target>>
AskDelete(t) ==
  /\ mode = None /\ target = None /\ shown[t] # None /\ target' = t
  /\ UNCHANGED <<server, list, ops, opCount, mixed, sheet, flags, made>>
CloseQuestion ==
  /\ target # None /\ target' = None
  /\ UNCHANGED <<server, list, ops, opCount, mixed, sheet, flags, made>>
HandleDelete ==
  /\ target # None /\ Free(deleting) /\ Send("delete", target, FALSE)
  /\ deleting' = TRUE /\ UNCHANGED <<submitting, generating, target>>
ToggleSplitRecurring(t) ==
  /\ mode = None /\ target = None /\ shown[t] # None
  /\ Send("toggle", t, shown[t] # "ACTIVE") /\ UNCHANGED <<flags, target>>

Unused(t) == server[t] = None /\ shown[t] = None /\ \A o \in ops : t \notin {o.id, o.result}

(* The server: it switches a template whose end is past off again. *)
Switched(t, enable) == IF enable /\ t \notin Expired THEN "ACTIVE" ELSE "DISABLED"
Serve(o) ==
  /\ o.result = None
  /\ \E r \in (IF o.kind = "create" THEN {t \in Templates : Unused(t)}
               ELSE {"ok"}) \cup {"error"} :
       /\ ops' = (ops \ {o}) \cup {[o EXCEPT !.result = r]}
       /\ IF r = "error" \/ (o.id # None /\ server[o.id] = None)
          THEN UNCHANGED <<server, made>>
          ELSE /\ server' = CASE o.kind = "create" -> [server EXCEPT ![r] = Switched(r, TRUE)]
                              [] o.kind = "delete" -> [server EXCEPT ![o.id] = None]
                              [] o.kind = "toggle" -> [server EXCEPT ![o.id] = Switched(o.id, o.enable)]
                              [] OTHER -> server
               /\ made' = IF o.kind = "create" THEN [made EXCEPT ![o.opening] = @ + 1] ELSE made
  /\ UNCHANGED <<list, opCount, mixed, sheet, flags, target>>

(* Mutant: a template that was switched on is shown as on. *)
AsAsked(t, enable) == IF enable THEN "ACTIVE" ELSE "DISABLED"

(* What the answer of the server says of the template. *)
Answered(t, enable) == Switched(t, enable)

Edited(o) ==
  IF o.result = "error" THEN shown
  ELSE CASE o.kind = "create" -> [shown EXCEPT ![o.result] = Switched(o.result, TRUE)]
         [] o.kind = "delete" -> [shown EXCEPT ![o.id] = None]
         [] o.kind = "toggle" /\ shown[o.id] # None ->
              [shown EXCEPT ![o.id] = Answered(o.id, o.enable)]
         [] OTHER -> shown

(* Mutant: the flag comes down after a success only. *)
LoweredOnSuccess(flag, o, kinds) == flag /\ ~(o.kind \in kinds /\ o.result # "error")

Lowered(flag, o, kinds) == flag /\ o.kind \notin kinds

(* A success closes the form that is open, or the question. *)
Hear(o) ==
  /\ o.result # None /\ ops' = ops \ {o} /\ shown' = Edited(o)
  /\ submitting' = Lowered(submitting, o, {"create", "edit"})
  /\ generating' = Lowered(generating, o, {"generate"})
  /\ deleting' = Lowered(deleting, o, {"delete"})
  /\ mode' = IF o.result # "error" /\ o.kind \in {"create", "edit"} THEN None ELSE mode
  /\ target' = IF o.result # "error" /\ o.kind = "delete" THEN None ELSE target
  /\ UNCHANGED <<server, loads, loaded, opCount, mixed, form, openings, made>>

Next ==
  \/ LoadSplitRecurring \/ OpenCreateForm \/ CloseForm \/ HandleSubmit \/ HandleGenerate
  \/ CloseQuestion \/ HandleDelete
  \/ \E l \in loads : HearList(l, TRUE) \/ HearList(l, FALSE)
  \/ \E t \in Templates : OpenEditForm(t) \/ AskDelete(t) \/ ToggleSplitRecurring(t)
  \/ \E p \in People : AddParticipant(p) \/ RemoveParticipant(p) \/ SetPayer(p)
  \/ \E b \in BOOLEAN : SetExtras(b)
  \/ \E o \in ops : Serve(o) \/ Hear(o)

Answer ==
  \/ \E l \in loads : HearList(l, TRUE) \/ HearList(l, FALSE)
  \/ \E o \in ops : Serve(o) \/ Hear(o)
Spec == Init /\ [][Next]_vars /\ WF_vars(Answer)

(***************************************************************************)
(* Properties                                                              *)
(***************************************************************************)
(* Once everything is answered the list is the one the server has, unless  *)
(* a load failed or ran beside a change: a template whose end is past      *)
(* "gets disabled again server-side in the same request", and is not shown *)
(* as switched on.                                                         *)
RowsAreTheServers == loaded > 0 /\ loads = {} /\ ops = {} /\ ~mixed => shown = server

(* The category and the account of a new template are mine. *)
TemplateExtrasOnlyOfMine == \A o \in ops : o.kind = "create" /\ o.extras => o.mine

(* One opening of the form makes one template at most. *)
OneTemplatePerForm == \A n \in 1..MaxOpenings : made[n] <= 1

Working == submitting \/ generating \/ deleting

(* The buttons of the section come back, also after an error. *)
SectionFlagsEnd == Working ~> ~Working

(***************************************************************************)
(* The inductive invariant                                                 *)
(***************************************************************************)
(* A button waits for one answer; what a new form keeps of its payer is    *)
(* mine.                                                                   *)
ButtonInv ==
  /\ \A o, p \in ops : o.kind \in Saves /\ p.kind \in Saves => o = p
  /\ \A o, p \in ops : o.kind = p.kind /\ o.kind \in {"generate", "delete"} => o = p
  /\ mode = "new" /\ form.extras => PayerIsSelf(form)

(* Done by the server, and not yet heard of. *)
Served(o) == o.result \notin {None, "error"}

(* A template is made by an opening when the server has served it, and the *)
(* form of that opening is closed when the answer is heard.                *)
MadeInv ==
  /\ \A o \in ops : o.kind = "create" /\ ~Served(o) => made[o.opening] = 0
  /\ mode = "new" /\ (\A o \in ops : o.kind = "create" => ~Served(o)) => made[openings] = 0
  /\ \A n \in 1..MaxOpenings : n > openings => made[n] = 0

(* The answer still to be heard that changes the row of t. *)
Concerns(o, t) ==
  /\ Served(o)
  /\ \/ o.kind = "create" /\ o.result = t
     \/ o.kind \in {"delete", "toggle"} /\ o.id = t
Synced(t) == shown[t] = server[t] \/ \E o \in ops : Concerns(o, t)

(* Requests that do not overlap, and the rows they are about. *)
Alone == (loads = {} \/ ops = {}) /\ \A o, p \in ops : o.id = p.id => o = p
Asked ==
  /\ target # None => shown[target] # None
  /\ \A o \in ops : o.kind \in {"delete", "toggle"} => shown[o.id] # None

(* What o has done to the row it is about. *)
DoneBy(o) ==
  /\ o.kind = "create" => shown[o.result] = None /\ server[o.result] = Switched(o.result, TRUE)
  /\ o.kind = "delete" => server[o.id] = None
  /\ o.kind = "toggle" => server[o.id] = Switched(o.id, o.enable)

(* The row of a template is the server's, but for the answer still to be   *)
(* heard, which makes it so.                                               *)
RowInv ==
  ~mixed =>
    /\ Alone /\ Asked
    /\ \A o \in ops : Served(o) => DoneBy(o)
    /\ \A t \in Templates : shown[t] # None \/ (loaded > 0 /\ loads = {}) => Synced(t)

IInv ==
  /\ SheetType /\ ListType /\ FlagType /\ OpType /\ ButtonInv /\ MadeInv /\ RowInv
  /\ TemplateExtrasOnlyOfMine /\ OneTemplatePerForm /\ RowsAreTheServers
=============================================================================
