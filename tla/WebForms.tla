-------------------------------- MODULE WebForms --------------------------------
(***************************************************************************)
(* The forms of the web client that create and edit rows: the movement     *)
(* sheet (an expense or a transfer), the asset sheet, and the editors of   *)
(* categories, investment types, recurring expenses and investment plans.  *)
(* The row to be saved, the values typed and the sheet on the screen are   *)
(* three pieces of state; an answer may come when the user has moved on.   *)
(***************************************************************************)
EXTENDS Integers, FiniteSets

CONSTANTS
  Rows,       \* rows that exist before
  MaxDrafts,  \* bound: forms the user fills
  MaxSends,   \* bound: requests
  None

VARIABLES
  sheet,     \* the form on the screen, or None
  editing,   \* editing[f]: the row that saving f updates, None to create one
  content,   \* content[f]: the row the values in f come from, None if blank
  typed,     \* the draft on the screen: its number, if it is complete, if the tax changed
  question,  \* what is asked on top of a form: None, or a form
  saving,    \* the forms whose saving flag is up
  sent,      \* requests on their way
  sends,     \* how many requests were sent
  made,      \* history: what the server has recorded
  undoable,  \* created expenses whose toast offers to undo
  taken,     \* history: drafts an answer took off the screen
  moved,     \* history: a form was opened while its sheet was being saved
  mute       \* history: an answer got lost

vars == <<sheet, editing, content, typed, question, saving, sent, sends, made,
          undoable, taken, moved, mute>>
screen == <<sheet, editing, content, typed, question>>
history == <<made, taken, mute>>

Forms == {"expense", "transfer", "asset", "category", "invtype", "recurring", "pac"}
Flagged == {"transfer", "asset", "recurring", "pac"}
Schedules == {"recurring", "pac"}
SheetOf(f) == IF f = "transfer" THEN "expense" ELSE f

FormsAssumption == MaxDrafts \in Nat /\ MaxSends \in Nat /\ None \notin Forms

TypeOK ==
  /\ sheet \in Forms \cup {None} /\ question \in Forms \cup {None}
  /\ editing \in [Forms -> Rows \cup {None}] /\ content \in [Forms -> Rows \cup {None}]
  /\ editing["transfer"] = None
  /\ typed \in [draft : 0..MaxDrafts, ready : BOOLEAN, taxed : BOOLEAN]
  /\ saving \subseteq Flagged /\ sends \in 0..MaxSends
  /\ \A q \in sent : q.form \in Forms /\ q.at \in {"sent", "ok", "refused"}
  /\ {q.form : q \in sent} \cap Flagged = saving
  /\ taken \subseteq 1..MaxDrafts /\ moved \in BOOLEAN /\ mute \in BOOLEAN

Init ==
  /\ sheet = None /\ question = None
  /\ editing = [f \in Forms |-> None] /\ content = [f \in Forms |-> None]
  /\ typed = [draft |-> 0, ready |-> FALSE, taxed |-> FALSE]
  /\ saving = {} /\ sent = {} /\ sends = 0 /\ made = {} /\ undoable = {}
  /\ taken = {} /\ moved = FALSE /\ mute = FALSE

(***************************************************************************)
(* Opening, filling and leaving a form                                     *)
(***************************************************************************)
NewDraft(ready) ==
  /\ typed.draft < MaxDrafts
  /\ typed' = [draft |-> typed.draft + 1, ready |-> ready, taxed |-> FALSE]

Awaited(f) == \E q \in sent : q.draft > 0 /\ SheetOf(q.form) = SheetOf(f)

(* A modal covers the page: one form at a time. *)
Open(f, r, id) ==
  /\ sheet = None /\ question = None
  /\ NewDraft(r # None)
  /\ sheet' = f
  /\ editing' = [editing EXCEPT ![f] = id] /\ content' = [content EXCEPT ![f] = r]
  /\ moved' = (moved \/ Awaited(f))
  /\ UNCHANGED <<question, saving, sent, sends, undoable, history>>

OpenExpenseModal(r) == Open("expense", r, r)
OpenAsset(r) == Open("asset", r, r)
OpenCategory(r) == Open("category", r, r)
OpenEditInvType(r) == r # None /\ Open("invtype", r, r)
(* openNewInvType sets three fields and shows what is there. *)
OpenNewInvType == Open("invtype", content["invtype"], editing["invtype"])
OpenRecurringModal(r) == Open("recurring", r, r)
OpenPacModal(r) == Open("pac", r, r)

Fill(f, ready) ==
  /\ sheet = f /\ question = None /\ typed.ready # ready
  /\ typed' = [typed EXCEPT !.ready = ready]
  /\ UNCHANGED <<sheet, editing, content, question, saving, sent, sends, undoable, moved, history>>

(* MovementTypeTabs: the category is cleared, a transfer starts blank. *)
SwitchTab(f) ==
  /\ sheet \in {"expense", "transfer"} /\ f \in {"expense", "transfer"} \ {sheet}
  /\ NewDraft(FALSE)
  /\ sheet' = f /\ content' = [content EXCEPT !["transfer"] = None]
  /\ moved' = (moved \/ Awaited(sheet))
  /\ UNCHANGED <<editing, question, saving, sent, sends, undoable, history>>

FillExpense(ready) == Fill("expense", ready)
FillTransfer(ready) == Fill("transfer", ready)
FillCategory(ready) == Fill("category", ready)
FillRecurring(ready) == Fill("recurring", ready)
FillPac(ready) == Fill("pac", ready)
(* Days, weekdays and months of the chosen frequency. *)
FillFrequency(f, ready) == f \in Schedules /\ Fill(f, ready)

(* The rate of an existing row decides if old sells are to be rewritten. *)
FillRate(f) ==
  /\ sheet = f /\ question = None /\ editing[f] # None
  /\ typed' = [typed EXCEPT !.taxed = ~@]
  /\ UNCHANGED <<sheet, editing, content, question, saving, sent, sends, undoable, moved, history>>
FillAsset(ready) == Fill("asset", ready) \/ FillRate("asset")
FillBankAccount(ready) == Fill("asset", ready)
FillInvType(ready) == Fill("invtype", ready) \/ FillRate("invtype")

(* Mutant: leaving the editor of a type does not forget which type it was. *)
KeepsRowOfType == {"category", "invtype"}

(* Which forms keep the row, and which the values, when they are left. *)
KeepsRow == {"category"}
KeepsValues == {"asset", "category"}

Close ==
  /\ sheet # None
  /\ sheet' = None
  /\ editing' = [f \in Forms |-> IF SheetOf(f) = SheetOf(sheet) /\ f \notin KeepsRow
                                 THEN None ELSE editing[f]]
  /\ content' = [f \in Forms |-> IF SheetOf(f) = SheetOf(sheet) /\ f \notin KeepsValues
                                 THEN None ELSE content[f]]
  \* Escape reaches the form and the question on top of it, which stays if it is busy.
  /\ question' = IF Awaited(sheet) THEN question ELSE None
  /\ UNCHANGED <<typed, saving, sent, sends, undoable, moved, history>>

(***************************************************************************)
(* Saving                                                                  *)
(***************************************************************************)
(* Mutant: the flag goes up only with the answer. *)
NotRaised(f) == saving

Raised(f) == IF f \in Flagged THEN saving \cup {f} ELSE saving

Post(f, draft, id, of) ==
  /\ sends < MaxSends /\ f \notin saving
  /\ sends' = sends + 1
  /\ sent' = sent \cup {[n |-> sends, form |-> f, draft |-> draft, id |-> id, of |-> of, at |-> "sent"]}
  /\ saving' = Raised(f)

Submit(f) ==
  /\ typed.ready
  /\ Post(f, typed.draft, editing[f], content[f])
  /\ UNCHANGED <<sheet, editing, content, typed, undoable, moved, history>>

SubmitExpense == sheet = "expense" /\ Submit("expense") /\ UNCHANGED question
SubmitTransferInCfModal == sheet = "transfer" /\ Submit("transfer") /\ UNCHANGED question
AddCategory == sheet = "category" /\ Submit("category") /\ UNCHANGED question
SubmitPac == sheet = "pac" /\ Submit("pac") /\ UNCHANGED question

Ask(f) ==
  /\ sheet = f /\ question = None /\ typed.ready /\ f \notin saving
  /\ question' = f
  /\ UNCHANGED <<sheet, editing, content, typed, saving, sent, sends, undoable, moved, history>>

(* A new one is saved at once; an edited one asks about the past first. *)
SubmitRecurring ==
  IF editing["recurring"] # None THEN Ask("recurring")
  ELSE sheet = "recurring" /\ Submit("recurring") /\ UNCHANGED question
RecurringUpdateChoice ==
  sheet = "recurring" /\ question = "recurring" /\ question' = None /\ Submit("recurring")

SaveAsset ==
  IF typed.taxed THEN Ask("asset") ELSE sheet = "asset" /\ Submit("asset") /\ UNCHANGED question
AddInvestmentType ==
  IF typed.taxed THEN Ask("invtype") ELSE sheet = "invtype" /\ Submit("invtype") /\ UNCHANGED question

(* The question stays, busy, until the answer. *)
TaxPropagation(f) ==
  /\ f \in {"asset", "invtype"} /\ question = f /\ sheet = f /\ ~Awaited(f)
  /\ Submit(f) /\ UNCHANGED question
CancelQuestion ==
  /\ question # None /\ ~Awaited(question)
  /\ question' = None
  /\ UNCHANGED <<sheet, editing, content, typed, saving, sent, sends, undoable, moved, history>>

(* Buttons of the rows of a list; the schedules share the flag of the form. *)
OfRow(f, r) ==
  /\ sheet = None /\ question = None
  /\ Post(f, 0, r, r)
  /\ UNCHANGED <<screen, moved, undoable, history>>
ToggleRecurringStatus(r) == OfRow("recurring", r)
DeleteRecurring(r) == OfRow("recurring", r)
TogglePacStatus(r) == OfRow("pac", r)
DeletePac(r) == OfRow("pac", r)
GeneratePacForMonth == OfRow("pac", None)
DeleteExpense(r) == OfRow("expense", r)

Undo(n) ==
  /\ n \in undoable
  /\ Post("expense", 0, n, n)
  /\ undoable' = undoable \ {n}
  /\ UNCHANGED <<screen, moved, history>>

(***************************************************************************)
(* Answers                                                                 *)
(***************************************************************************)
Serve(q) ==
  /\ q.at = "sent"
  /\ \/ sent' = (sent \ {q}) \cup {[q EXCEPT !.at = "ok"]} /\ made' = made \cup {q} /\ mute' = mute
     \/ sent' = (sent \ {q}) \cup {[q EXCEPT !.at = "refused"]} /\ made' = made /\ mute' = mute
     \* recorded, but the client sees a failure
     \/ sent' = (sent \ {q}) \cup {[q EXCEPT !.at = "refused"]} /\ made' = made \cup {q} /\ mute' = TRUE
  /\ UNCHANGED <<screen, saving, sends, undoable, taken, moved>>

(* Mutant: the flag comes down after a success only. *)
LoweredOnSuccess(q) == IF q.at = "ok" THEN saving \ {q.form} ELSE saving

Lowered(q) == saving \ {q.form}

(* Mutant: the form closes whatever the answer. *)
ClosesAlways(q) == q.draft > 0

Closes(q) == q.draft > 0 /\ q.at = "ok"

Hear(q) ==
  /\ q.at \in {"ok", "refused"}
  /\ sent' = sent \ {q} /\ saving' = Lowered(q)
  /\ LET shut(f) == Closes(q) /\ SheetOf(f) = SheetOf(q.form)
         hit == sheet # None /\ shut(sheet)
     IN /\ sheet' = IF hit THEN None ELSE sheet
        /\ editing' = [f \in Forms |-> IF shut(f) THEN None ELSE editing[f]]
        /\ content' = [f \in Forms |-> IF shut(f) THEN None ELSE content[f]]
        /\ taken' = taken \cup (IF hit THEN {typed.draft} ELSE {})
        /\ question' = IF question = q.form /\ (hit \/ q.form # "recurring") THEN None ELSE question
  /\ undoable' = undoable \cup (IF q.form = "expense" /\ q.id = None /\ q.at = "ok" THEN {q.n} ELSE {})
  /\ UNCHANGED <<typed, sends, made, moved, mute>>

Next ==
  \/ \E r \in Rows \cup {None} :
       \/ OpenExpenseModal(r) \/ OpenAsset(r) \/ OpenCategory(r) \/ OpenEditInvType(r)
       \/ OpenRecurringModal(r) \/ OpenPacModal(r)
  \/ OpenNewInvType
  \/ \E b \in BOOLEAN :
       \/ FillExpense(b) \/ FillTransfer(b) \/ FillAsset(b) \/ FillCategory(b)
       \/ FillInvType(b) \/ FillRecurring(b) \/ FillPac(b) \/ FillBankAccount(b)
       \/ \E f \in Schedules : FillFrequency(f, b)
  \/ \E f \in Forms : SwitchTab(f) \/ TaxPropagation(f)
  \/ Close \/ CancelQuestion
  \/ SubmitExpense \/ SubmitTransferInCfModal \/ AddCategory \/ SubmitPac
  \/ SubmitRecurring \/ RecurringUpdateChoice \/ SaveAsset \/ AddInvestmentType
  \/ \E r \in Rows : \/ ToggleRecurringStatus(r) \/ DeleteRecurring(r)
                     \/ TogglePacStatus(r) \/ DeletePac(r) \/ DeleteExpense(r)
  \/ GeneratePacForMonth
  \/ \E n \in undoable : Undo(n)
  \/ \E q \in sent : Serve(q) \/ Hear(q)

(* Every request is answered or times out, and its handler runs. *)
Answer == \E q \in sent : Serve(q) \/ Hear(q)
Spec == Init /\ [][Next]_vars /\ WF_vars(Answer)

(***************************************************************************)
(* Properties                                                              *)
(***************************************************************************)
(* Values that were loaded from one row are never saved over another, and  *)
(* a blank form never overwrites a row, in whatever order forms are        *)
(* opened, left, saved and answered.                                       *)
SavesTheRowItShows == \A q \in sent : q.id = q.of

(* A form with a saving flag creates at most one row, if no answer is      *)
(* lost, though buttons of the list share its flag.                        *)
OneRowPerDraft ==
  ~mute => \A p, q \in made :
    p.draft > 0 /\ p.draft = q.draft /\ p.form = q.form /\ p.form \in Flagged /\ p.id = None => p.n = q.n

(* An answer takes a form off the screen only if what was typed there is   *)
(* saved, unless another form had been opened while its sheet was being saved.        *)
NothingTypedIsLost == ~moved => \A d \in taken : \E q \in made : q.draft = d

Working == saving \cap Flagged # {}

(* No form stays locked: after an error too the flag comes down.           *)
FlagsComeDown == Working ~> ~Working

(***************************************************************************)
(* The inductive invariant                                                 *)
(***************************************************************************)
(* The row that is edited is the row that is shown: of an asset as long as *)
(* its sheet is open.                                                      *)
ScreenInv ==
  /\ sheet \in Forms \cup {None} /\ sends \in Nat
  /\ typed \in [draft : Nat, ready : BOOLEAN, taxed : BOOLEAN]
  /\ editing \in [Forms -> Rows \cup {None}] /\ content \in [Forms -> Rows \cup {None}]
  /\ editing["transfer"] = None
  /\ \A f \in Forms : f # "asset" \/ sheet = "asset" => editing[f] = content[f]

(* A form with a flag has one request on its way; a form is awaited with   *)
(* the draft that is on the screen, unless another one was opened.         *)
RequestFields == {"n", "form", "draft", "id", "of", "at"}
RequestInv ==
  /\ \A q \in sent : /\ DOMAIN q = RequestFields /\ q.form \in Forms /\ q.draft \in 0..typed.draft
                     /\ q.form \in Flagged => q.form \in saving
  /\ \A p, q \in sent : p.form = q.form /\ p.form \in Flagged => p = q
  /\ ~moved /\ sheet # None =>
       \A q \in sent : q.draft > 0 /\ SheetOf(q.form) = SheetOf(sheet) => q.draft = typed.draft

(* What was recorded of the draft on the screen is about to be heard.      *)
SameDraft(p, q) == p.form = q.form /\ p.draft = q.draft
MadeInv ==
  /\ \A p \in made : p.draft \in 0..typed.draft
  /\ \A q \in sent : q.at = "ok" => \E p \in made : p.draft = q.draft
  /\ ~mute => \A p \in made : p.draft > 0 /\ p.form \in Flagged =>
       /\ p.draft = typed.draft /\ p.form = sheet => \E q \in sent : q.at = "ok" /\ SameDraft(p, q)
       /\ \A q \in sent : q.at = "sent" => ~SameDraft(p, q)

IInv ==
  /\ ScreenInv /\ RequestInv /\ MadeInv
  /\ SavesTheRowItShows /\ OneRowPerDraft /\ NothingTypedIsLost
=============================================================================
