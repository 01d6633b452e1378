------------------------------ MODULE WebSplitForm ------------------------------
(***************************************************************************)
(* The form of a shared expense in the web client: the group it is for,    *)
(* the people who take part, who of them paid, and the category and the    *)
(* account that only the payer's own form may carry.  My own id is found   *)
(* in groups and links that load after the screen is up.                   *)
(***************************************************************************)
EXTENDS Integers, FiniteSets

CONSTANTS
  Me, Others,   \* identities
  Groups,
  MembersOf,    \* MembersOf[g]: the active members, I am one
  FirstOf,      \* FirstOf[g]: the first of them
  Expenses,
  ExpenseOf,    \* ExpenseOf[e]: what a saved expense says
  MaxOpenings,  \* bound: openings of the form
  None

People == {Me} \cup Others

(* parts[p] is how often p is in the list of a form; its order tells no two *)
(* forms apart.                                                            *)
FormsOf(ids) ==
  [id : ids, group : Groups \cup {None}, parts : [People -> Nat], payer : People \cup {None},
   extras : BOOLEAN]
TakePart(f) == {p \in People : f.parts[p] > 0}
EachOnce(people) == [p \in People |-> IF p \in people THEN 1 ELSE 0]

SplitFormAssumption ==
  /\ Me \notin Others /\ None \notin People /\ None \notin Groups /\ None \notin Expenses
  /\ None \notin {"new", "edit"} /\ MaxOpenings \in Nat
  /\ \A g \in Groups : Me \in MembersOf[g] /\ FirstOf[g] \in MembersOf[g] /\ MembersOf[g] \subseteq People
  /\ \A e \in Expenses : ExpenseOf[e] \in FormsOf({e}) /\ ExpenseOf[e].payer \in TakePart(ExpenseOf[e])
                        /\ \A p \in People : ExpenseOf[e].parts[p] <= 1

VARIABLES
  loaded,      \* the groups are here
  known,       \* I know my own id
  mode,        \* None, "new" or "edit"
  from,        \* the group whose screen opened the form, or None
  form,
  filled,      \* the texts and the raw inputs are complete and add up
  openings,
  sent,        \* what the server is told, on its way
  submitting,
  created,     \* history: created[n], expenses made by the n-th opening
  chose,       \* history: I picked another payer or took myself out
  early        \* history: somebody was added before the groups were here

vars == <<loaded, known, mode, from, form, filled, openings, sent, submitting, created, chose, early>>
sending == <<sent, submitting, created>>

EmptyForm(g) ==
  [id |-> None, group |-> g, parts |-> EachOnce({}), payer |-> None, extras |-> FALSE]

(* resolveMySplitUserId *)
Self(k) == IF k THEN {Me} ELSE {}

Seeded(f, g, k) ==
  [f EXCEPT !.parts = EachOnce(IF g = None THEN Self(k) ELSE MembersOf[g]),
            !.payer = IF g # None THEN FirstOf[g] ELSE IF k THEN Me ELSE None]
PayerIsSelf(f, k) == k /\ f.payer = Me

(* Mutant: the category and the account outlive the payer they were for. *)
KeepsExtras(f, k) == f

(* The effect on the payer: runs when "the payer is me" has changed. *)
Cleared(f, k) ==
  IF PayerIsSelf(form, known) # PayerIsSelf(f, k) /\ ~PayerIsSelf(f, k)
  THEN [f EXCEPT !.extras = FALSE] ELSE f

(* Mutant: whoever is already in the list is put in again. *)
WithMeAgain(f) == [f EXCEPT !.parts[Me] = @ + 1, !.payer = Me]

(* Mutant: nothing happens when my id is found. *)
NotSeeded(f) == f

(* The effect on my id, for a form that was opened outside a group. *)
WithMe(f) ==
  IF mode = "new" /\ from = None /\ f.group = None /\ Me \notin TakePart(f)
  THEN [f EXCEPT !.parts[Me] = @ + 1, !.payer = Me] ELSE f

FormType ==
  /\ loaded \in BOOLEAN /\ known \in BOOLEAN /\ filled \in BOOLEAN /\ chose \in BOOLEAN
  /\ early \in BOOLEAN /\ mode \in {None, "new", "edit"} /\ from \in Groups \cup {None}
  /\ form \in FormsOf(Expenses \cup {None})
  /\ (mode = "edit" => form.id # None) /\ (mode = "new" => form.id = None)
RequestType ==
  /\ openings \in 0..MaxOpenings /\ created \in [1..MaxOpenings -> Nat]
  /\ \A s \in sent : s.n \in 1..openings
  /\ submitting \in BOOLEAN /\ (submitting <=> sent # {})
TypeOK == FormType /\ RequestType

Init ==
  /\ loaded = FALSE /\ known = FALSE /\ mode = None /\ from = None
  /\ form = EmptyForm(None) /\ filled = FALSE /\ openings = 0
  /\ sent = {} /\ submitting = FALSE /\ created = [n \in 1..MaxOpenings |-> 0]
  /\ chose = FALSE /\ early = FALSE

(***************************************************************************)
(* Who I am                                                                *)
(***************************************************************************)
Learn ==
  /\ known' = TRUE
  /\ form' = IF known THEN form ELSE Cleared(WithMe(form), TRUE)
  /\ UNCHANGED <<mode, from, filled, openings, sending, chose, early>>
LoadGroups == ~loaded /\ loaded' = TRUE /\ Learn
LoadLinks == ~known /\ loaded' = loaded /\ Learn

(***************************************************************************)
(* Opening and closing                                                     *)
(***************************************************************************)
Opened(m, g, f) ==
  /\ mode = None /\ openings < MaxOpenings /\ openings' = openings + 1
  /\ mode' = m /\ from' = g /\ form' = Cleared(f, known)
  /\ filled' = (m = "edit") /\ chose' = FALSE /\ early' = FALSE
  /\ UNCHANGED <<loaded, known, sending>>

(* The screen of a group has the members of its own. *)
OpenNew(g) == Opened("new", g, Seeded(EmptyForm(g), g, known))
LoadSplitExpenseForEdit(e) == Opened("edit", from, ExpenseOf[e])

Close ==
  /\ mode # None /\ mode' = None
  /\ UNCHANGED <<loaded, known, from, form, filled, openings, sending, chose, early>>

(***************************************************************************)
(* Filling it in                                                           *)
(***************************************************************************)
Change(f) ==
  /\ mode # None /\ form' = Cleared(f, known)
  /\ UNCHANGED <<loaded, known, mode, from, openings, sending>>

(* Mutant: the people of the group before stay. *)
KeepsPeople(f, g) == f

Reseeded(f, g) == Seeded(f, g, known)

HandleGroupChange(g) ==
  /\ g = None \/ loaded
  /\ Change(Reseeded([form EXCEPT !.group = g], g))
  /\ chose' = FALSE /\ UNCHANGED <<filled, early>>

Candidates ==
  IF form.group # None /\ loaded THEN MembersOf[form.group] ELSE Others \cup Self(known)
Added(f, p) ==
  [f EXCEPT !.parts[p] = @ + 1, !.payer = IF TakePart(f) = {} THEN p ELSE @]
AddParticipant(p) ==
  /\ p \in Candidates \ TakePart(form)
  /\ Change(Added(form, p))
  /\ early' = (early \/ ~loaded)
  /\ UNCHANGED <<filled, chose>>
Removed(f, p) ==
  [f EXCEPT !.parts[p] = 0, !.payer = IF @ = p THEN None ELSE @]
RemoveParticipant(p) ==
  /\ p \in TakePart(form) /\ Change(Removed(form, p))
  /\ chose' = (chose \/ p = form.payer) /\ UNCHANGED <<filled, early>>
SetPayer(p) ==
  /\ p \in TakePart(form)
  /\ Change([form EXCEPT !.payer = p])
  /\ chose' = TRUE /\ UNCHANGED <<filled, early>>

SetExtras(b) ==
  /\ PayerIsSelf(form, known)
  /\ Change([form EXCEPT !.extras = b]) /\ UNCHANGED <<filled, chose, early>>
FillTexts(b) == Change(form) /\ filled' = b /\ UNCHANGED <<chose, early>>

(***************************************************************************)
(* Sending it                                                              *)
(***************************************************************************)
(* Mutant: the button works while an answer is awaited. *)
FreeAnyTime == TRUE

Free == ~submitting

Submit ==
  /\ mode # None /\ Free /\ filled
  /\ form.payer # None
  /\ sent' = sent \cup {[n |-> openings, new |-> form.id = None, extras |-> form.extras,
                          mine |-> PayerIsSelf(form, known), try |-> Cardinality(sent)]}
  /\ submitting' = TRUE
  /\ UNCHANGED <<loaded, known, mode, from, form, filled, openings, created, chose, early>>

(* A success closes the form that is open, whichever it is. *)
HearSaved(s) ==
  /\ sent' = sent \ {s} /\ submitting' = FALSE /\ mode' = None
  /\ created' = IF s.new THEN [created EXCEPT ![s.n] = @ + 1] ELSE created
  /\ UNCHANGED <<loaded, known, from, form, filled, openings, chose, early>>

(* Mutant: the flag comes down after a success only. *)
StaysUp == TRUE

Down == FALSE

HearRefused(s) ==
  /\ sent' = sent \ {s} /\ submitting' = Down
  /\ UNCHANGED <<loaded, known, mode, from, form, filled, openings, created, chose, early>>

Next ==
  \/ LoadGroups \/ LoadLinks \/ Close \/ Submit
  \/ \E g \in Groups \cup {None} : OpenNew(g) \/ HandleGroupChange(g)
  \/ \E e \in Expenses : LoadSplitExpenseForEdit(e)
  \/ \E p \in People : AddParticipant(p) \/ RemoveParticipant(p) \/ SetPayer(p)
  \/ \E b \in BOOLEAN : SetExtras(b) \/ FillTexts(b)
  \/ \E s \in sent : HearSaved(s) \/ HearRefused(s)

Answer == \E s \in sent : HearSaved(s) \/ HearRefused(s)
Spec == Init /\ [][Next]_vars /\ WF_vars(Answer)

(***************************************************************************)
(* Properties                                                              *)
(***************************************************************************)
(* Nobody takes part twice, and who paid takes part: the server refuses    *)
(* any other form.                                                         *)
NobodyTwice ==
  /\ \A p \in People : form.parts[p] <= 1
  /\ form.payer = None \/ form.payer \in TakePart(form)

(* A new expense outside a group is paid by me unless I said otherwise,    *)
(* however late my own id is found: without that "the first contact added  *)
(* by the user incorrectly becomes the payer".                             *)
IPayUnlessISaidOtherwise ==
  mode = "new" /\ from = None /\ form.group = None /\ known /\ ~chose => form.payer = Me

(* The people of a new expense are members of its group: the server        *)
(* refuses anyone else.                                                    *)
MembersOnly ==
  mode = "new" /\ form.group # None /\ ~early =>
    TakePart(form) \subseteq MembersOf[form.group]

(* The category and the account of a new expense are mine, so they are     *)
(* sent only if I paid: "a stale value from an earlier payer never reaches *)
(* submit".                                                                *)
ExtrasOnlyOfMine == \A s \in sent : s.new /\ s.extras => s.mine

(* One opening of the form makes one expense at most. *)
OneExpensePerForm == \A n \in 1..MaxOpenings : created[n] <= 1

Working == submitting

(* The button comes back, also after an error. *)
SubmittingEnds == Working ~> ~Working

(***************************************************************************)
(* The inductive invariant                                                 *)
(***************************************************************************)
(* The groups tell who I am, and before that I am in no form of my own     *)
(* outside a group; what a new form keeps of its payer is mine.            *)
SelfInv ==
  /\ loaded => known
  /\ ~known /\ mode = "new" /\ form.group = None => Me \notin TakePart(form)
  /\ form.id = None /\ form.extras => PayerIsSelf(form, known)

(* One answer is awaited at most, of an opening that has made nothing yet; *)
(* nor has the form on the screen, nor the openings to come.               *)
MadeInv ==
  /\ \A s, t \in sent : s = t
  /\ \A s \in sent : created[s.n] = 0
  /\ mode # None => openings > 0 /\ created[openings] = 0
  /\ \A n \in 1..MaxOpenings : n > openings => created[n] = 0

IInv ==
  /\ FormType /\ RequestType /\ SelfInv /\ MadeInv
  /\ NobodyTwice /\ IPayUnlessISaidOtherwise /\ MembersOnly /\ ExtrasOnlyOfMine
  /\ OneExpensePerForm
=============================================================================
