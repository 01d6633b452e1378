-------------------------------- MODULE WebBulk --------------------------------
(***************************************************************************)
(* Selecting many movements of the web client and changing them at once:   *)
(* the selection by row or by filter, the kind it is locked to, the        *)
(* dialogs, the previews the server computes and the changes it applies.   *)
(* The transactions of the portfolio have no kinds and no previews.        *)
(***************************************************************************)
EXTENDS Integers, FiniteSets

CONSTANTS
  Rows, Kinds,
  KindOf,      \* KindOf[r]
  Many,        \* more rows than this are verified only after a question
  MaxAsked,    \* bound: previews
  MaxApplied,  \* bound: changes
  None

BulkAssumption ==
  /\ KindOf \in [Rows -> Kinds] /\ {Many, MaxAsked, MaxApplied} \subseteq Nat
  /\ None \notin Rows /\ None \notin Kinds
  /\ None \notin {"edit", "delete", "verify", "detail", "row"}

VARIABLES
  side,       \* "cashflow" or "asset"
  filters,    \* the kinds the filters let through
  listed,     \* the filters whose rows are on the screen
  mode,       \* rows can be ticked
  all,        \* everything the filters let through is selected
  ticked,     \* the rows selected, or left out if all
  kind,       \* the kind the selection is locked to, or None
  chosenFor,  \* history: the filters when all was chosen
  dialog,     \* None, "edit", "delete", "verify" or "detail"
  detail,     \* the row in the detail sheet, or None
  changed,    \* a field of the dialog was set
  due,        \* the timer of the next preview runs
  asked,      \* previews on their way
  asks,       \* how many were asked
  preview,    \* the preview shown, or None
  previewOf,  \* the selection the newest preview was asked for, or None
  current,    \* the preview an abort would hit, or 0
  applied,    \* changes on their way
  applies,    \* how many were sent
  applying,   \* the change the edit dialog waits for, or 0
  busy,
  slipped     \* history: a preview was asked for during a change

vars == <<side, filters, listed, mode, all, ticked, kind, chosenFor, dialog, detail,
          changed, due, asked, asks, preview, previewOf, current, applied, applies, applying,
          busy, slipped>>
selection == <<mode, all, ticked, kind, chosenFor>>
screen == <<dialog, detail, changed, due>>
previews == <<asked, asks, previewOf, current>>
changes == <<applied, applies, applying>>

AnyFilters == (SUBSET Kinds) \ {{}}
Shown(f) == {r \in Rows : KindOf[r] \in f}
Selection == [all |-> all, filters |-> IF all THEN filters ELSE {}, ids |-> ticked]
Selected(s) == IF s.all THEN Shown(s.filters) \ s.ids ELSE s.ids
Count == Cardinality(Selected(Selection))

(* What the selection allows; nothing is known of one without a kind. *)
Allowed(what) ==
  CASE kind = "adjustment" \/ kind = "split_reimbursement" -> what = "delete"
    [] kind = "split" -> FALSE
    [] OTHER -> TRUE

SelectionType ==
  /\ side \in {"cashflow", "asset"} /\ filters \in AnyFilters /\ listed \in AnyFilters
  /\ mode \in BOOLEAN /\ all \in BOOLEAN /\ ticked \subseteq Rows /\ kind \in Kinds \cup {None}
DialogType ==
  /\ dialog \in {None, "edit", "delete", "verify", "detail"} /\ detail \in Rows \cup {None}
  /\ dialog = "detail" <=> detail # None
  /\ changed \in BOOLEAN /\ due \in BOOLEAN /\ (due => dialog = "edit")
RequestType ==
  /\ asks \in 0..MaxAsked /\ \A q \in asked : q.n = current /\ q.n \in 1..asks
  /\ applies \in 0..MaxApplied /\ applying \in 0..applies
  /\ \A a \in applied : a.n \in 1..applies
  /\ busy \in BOOLEAN /\ slipped \in BOOLEAN
TypeOK == SelectionType /\ DialogType /\ RequestType

Init ==
  /\ side \in {"cashflow", "asset"}
  /\ filters \in AnyFilters /\ listed = filters /\ mode = FALSE /\ all = FALSE /\ ticked = {}
  /\ kind = None /\ chosenFor = None
  /\ dialog = None /\ detail = None /\ changed = FALSE /\ due = FALSE
  /\ asked = {} /\ asks = 0 /\ preview = None /\ previewOf = None /\ current = 0
  /\ applied = {} /\ applies = 0 /\ applying = 0 /\ busy = FALSE /\ slipped = FALSE

(***************************************************************************)
(* The selection                                                           *)
(***************************************************************************)
ClearCfSelection ==
  all' = FALSE /\ ticked' = {} /\ kind' = None /\ chosenFor' = None /\ preview' = None

(* Mutant: the selection outlives the filters. *)
KeptOverFilters == UNCHANGED <<all, ticked, kind, chosenFor, preview>>

OnNewFilters == IF mode THEN ClearCfSelection
                ELSE UNCHANGED <<all, ticked, kind, chosenFor, preview>>

EditFilters(f) ==
  /\ dialog = None /\ f # filters
  /\ filters' = f /\ OnNewFilters
  /\ UNCHANGED <<side, listed, mode, screen, previews, changes, busy, slipped>>
ListLoads ==
  /\ listed # filters /\ listed' = filters
  /\ UNCHANGED <<side, filters, selection, screen, previews, preview, changes, busy, slipped>>

Keep == UNCHANGED <<side, filters, listed, screen, previews, changes, busy, slipped>>
EnterMode == dialog = None /\ ~mode /\ mode' = TRUE /\ ClearCfSelection /\ Keep
ExitMode == dialog = None /\ mode /\ mode' = FALSE /\ ClearCfSelection /\ Keep
ClearSelection == dialog = None /\ mode /\ mode' = mode /\ ClearCfSelection /\ Keep

(* Mutant: a row of any kind may join. *)
JoinsAny(r) == TRUE

Joins(r) == side = "asset" \/ kind \in {None, KindOf[r]}

ToggleCfItemSelected(r) ==
  /\ dialog = None /\ mode /\ r \in Shown(listed)
  /\ \/ /\ r \in ticked
        /\ ticked' = ticked \ {r}
        /\ kind' = IF ticked = {r} THEN None ELSE kind
     \/ /\ r \notin ticked /\ Joins(r)
        /\ ticked' = ticked \cup {r}
        /\ kind' = IF side = "asset" THEN None ELSE IF kind = None THEN KindOf[r] ELSE kind
  /\ UNCHANGED <<mode, all, chosenFor, preview>> /\ Keep

(* The kind is that of the first row if none is locked. *)
SelectVisibleCf ==
  /\ side = "cashflow" /\ dialog = None /\ mode /\ Shown(listed) # {}
  /\ \E k \in IF kind = None THEN {KindOf[r] : r \in Shown(listed)} ELSE {kind} :
       kind' = k /\ ticked' = {r \in Shown(listed) : KindOf[r] = k}
  /\ all' = FALSE /\ chosenFor' = None
  /\ UNCHANGED <<mode, preview>> /\ Keep
SelectVisibleAssetTx ==
  /\ side = "asset" /\ dialog = None /\ mode
  /\ all' = FALSE /\ ticked' = Shown(listed) /\ chosenFor' = None
  /\ UNCHANGED <<mode, kind, preview>> /\ Keep

SelectAllFilteredCf ==
  /\ side = "cashflow" /\ dialog = None /\ mode /\ \E k \in Kinds : filters = {k} /\ kind' = k
  /\ all' = TRUE /\ ticked' = {} /\ chosenFor' = filters
  /\ UNCHANGED <<mode, preview>> /\ Keep
SelectAllFilteredAssetTx ==
  /\ side = "asset" /\ dialog = None /\ mode
  /\ all' = TRUE /\ ticked' = {} /\ chosenFor' = filters
  /\ UNCHANGED <<mode, kind, preview>> /\ Keep

(***************************************************************************)
(* Dialogs                                                                 *)
(***************************************************************************)
(* Mutant: the buttons work while an answer is awaited. *)
FreeAnyTime == TRUE

Free == ~busy

Open(d) ==
  /\ mode /\ dialog = None /\ Count > 0 /\ Free
  /\ dialog' = d /\ changed' = FALSE /\ due' = FALSE
  /\ preview' = IF d = "edit" THEN None ELSE preview
  /\ applying' = 0
  /\ UNCHANGED <<side, filters, listed, selection, detail, previews, applied, applies, busy, slipped>>
OpenEdit == side = "cashflow" /\ Allowed("edit") /\ Open("edit")
OpenDelete == side = "cashflow" /\ Allowed("delete") /\ Open("delete")
AskVerify == Allowed("verify") /\ (all \/ Count > Many) /\ Open("verify")

OpenDetail(r) ==
  /\ side = "cashflow" /\ ~mode /\ dialog = None /\ r \in Shown(listed)
  /\ dialog' = "detail" /\ detail' = r
  /\ UNCHANGED <<side, filters, listed, selection, changed, due, previews, preview, changes, busy, slipped>>

(* Leaving the edit dialog stops its timer, not the preview on its way. *)
Leave ==
  /\ dialog' = None /\ detail' = None /\ due' = FALSE /\ changed' = FALSE /\ applying' = 0
  /\ preview' = IF dialog = "edit" THEN None ELSE preview
CloseDialog ==
  /\ dialog # None /\ Leave
  /\ UNCHANGED <<side, filters, listed, selection, previews, applied, applies, busy, slipped>>

SetField ==
  /\ dialog = "edit" /\ changed' = TRUE /\ due' = TRUE
  /\ UNCHANGED <<side, filters, listed, selection, dialog, detail, previews, preview, changes, busy, slipped>>
ClearFields ==
  /\ dialog = "edit" /\ changed' = FALSE /\ due' = FALSE
  /\ UNCHANGED <<side, filters, listed, selection, dialog, detail, previews, preview, changes, busy, slipped>>

(***************************************************************************)
(* Previews                                                                *)
(***************************************************************************)
(* Mutant: the older preview is not aborted. *)
NotAborted == asked

StillAsked == {}

RunCfBulkPreview ==
  /\ due /\ due' = FALSE
  /\ asks < MaxAsked /\ asks' = asks + 1 /\ current' = asks + 1
  /\ asked' = StillAsked \cup {[n |-> asks + 1, of |-> Selection]}
  /\ preview' = IF previewOf \notin {None, Selection} THEN None ELSE preview
  /\ previewOf' = Selection
  /\ busy' = TRUE /\ slipped' = (slipped \/ applied # {})
  /\ UNCHANGED <<side, filters, listed, selection, dialog, detail, changed, changes>>

(* The server counts, refuses the fields, or is not reached. *)
HearPreview(q) ==
  /\ asked' = asked \ {q}
  /\ preview' \in {preview, [n |-> q.n, of |-> q.of, ok |-> TRUE], [n |-> q.n, of |-> q.of, ok |-> FALSE]}
  /\ IF current = q.n THEN current' = 0 /\ busy' = FALSE ELSE UNCHANGED <<current, busy>>
  /\ UNCHANGED <<side, filters, listed, selection, screen, asks, previewOf, changes, slipped>>

(***************************************************************************)
(* Changes                                                                 *)
(***************************************************************************)
Send(from, s) ==
  /\ applies < MaxApplied /\ applies' = applies + 1
  /\ applied' = applied \cup {[n |-> applies + 1, from |-> from, of |-> s, for |-> chosenFor, kind |-> kind]}

(* A preview on its way is dropped: its answer would lower the flag. *)
ApplyCfBulk(from) ==
  /\ Send(from, Selection)
  /\ asked' = StillAsked /\ current' = 0 /\ busy' = TRUE
  /\ applying' = IF from = "edit" THEN applies + 1 ELSE applying
  /\ UNCHANGED <<side, filters, listed, selection, screen, asks, preview, previewOf, slipped>>

PreviewOk == preview # None /\ preview.ok
ApplyEdit ==
  /\ dialog = "edit" /\ changed /\ applying = 0 /\ Free /\ PreviewOk
  /\ ApplyCfBulk("edit")
ConfirmDelete == dialog = "delete" /\ Free /\ ApplyCfBulk("delete")
ConfirmVerify == side = "cashflow" /\ dialog = "verify" /\ Free /\ ApplyCfBulk("verify")
TriggerBulkVerify ==
  /\ side = "cashflow" /\ mode /\ dialog = None /\ Count \in 1..Many /\ ~all /\ Free
  /\ Allowed("verify") /\ ApplyCfBulk(None)

ApplyAssetTxBulkVerify ==
  /\ side = "asset" /\ mode /\ Free
  /\ \/ dialog = "verify"
     \/ dialog = None /\ ~all /\ Count \in 1..Many
  /\ ApplyCfBulk(IF dialog = None THEN None ELSE dialog)

(* One row, from the list or from the detail sheet, with a request of its own. *)
SetCfItemVerified(r) ==
  /\ side = "cashflow" /\ ~mode /\ (dialog = None \/ detail = r) /\ r \in Shown(listed)
  /\ KindOf[r] \notin {"split", "split_reimbursement"}
  /\ Send("row", [all |-> FALSE, filters |-> {}, ids |-> {r}])
  /\ UNCHANGED <<side, filters, listed, selection, screen, previews, preview, applying, busy, slipped>>

(* The row of the detail sheet leaves the flag and the selection alone. *)
HearRow(a) ==
  /\ a.from = "row" /\ applied' = applied \ {a}
  /\ UNCHANGED <<side, filters, listed, selection, screen, previews, preview, applies, applying, busy, slipped>>

(* Mutant: the flag comes down after a success only. *)
LoweredOnSuccess(ok) == ~ok

Lowered(ok) == FALSE

(* A success ends the selection and closes the edit dialog, or the dialog  *)
(* of the kind that sent it.                                               *)
HearApply(a, ok) ==
  /\ a.from # "row" /\ applied' = applied \ {a} /\ busy' = Lowered(ok)
  /\ IF ok
     THEN /\ mode' = FALSE /\ ClearCfSelection
          /\ IF (side = "cashflow" /\ dialog = "edit") \/ (dialog # None /\ dialog = a.from)
             THEN Leave
             ELSE UNCHANGED <<dialog, detail, due, changed, applying>>
     ELSE /\ applying' = IF applying = a.n THEN 0 ELSE applying
          /\ UNCHANGED <<selection, dialog, detail, due, changed, preview>>
  /\ UNCHANGED <<side, filters, listed, previews, applies, slipped>>

Next ==
  \/ \E f \in AnyFilters : EditFilters(f)
  \/ ListLoads \/ EnterMode \/ ExitMode \/ ClearSelection
  \/ \E r \in Rows : ToggleCfItemSelected(r) \/ OpenDetail(r) \/ SetCfItemVerified(r)
  \/ SelectVisibleCf \/ SelectVisibleAssetTx \/ SelectAllFilteredCf \/ SelectAllFilteredAssetTx
  \/ OpenEdit \/ OpenDelete \/ AskVerify \/ CloseDialog \/ SetField \/ ClearFields
  \/ RunCfBulkPreview \/ ApplyEdit \/ ConfirmDelete \/ ConfirmVerify
  \/ TriggerBulkVerify \/ ApplyAssetTxBulkVerify
  \/ \E q \in asked : HearPreview(q)
  \/ \E a \in applied : HearRow(a) \/ HearApply(a, TRUE) \/ HearApply(a, FALSE)

(* Every request is answered or fails, and its handler runs. *)
Answer ==
  \/ \E q \in asked : HearPreview(q)
  \/ \E a \in applied : HearRow(a) \/ HearApply(a, TRUE) \/ HearApply(a, FALSE)
Spec == Init /\ [][Next]_vars /\ WF_vars(Answer)

(***************************************************************************)
(* Properties                                                              *)
(***************************************************************************)
(* The rows of one change are of one kind, the kind whose buttons were     *)
(* offered: the server refuses any other, and what a kind does not allow.  *)
OneKind ==
  side = "cashflow" => \A a \in applied :
    /\ \A r, s \in Selected(a.of) : KindOf[r] = KindOf[s]
    /\ ~a.of.all /\ a.from # "row" => \A r \in Selected(a.of) : KindOf[r] = a.kind

(* A change of everything the filters let through is one of the filters    *)
(* that were on the screen when "everything" was chosen.                   *)
FilteredMeansTheseFilters == \A a \in applied : a.of.all => a.of.filters = a.for

(* The preview shown is never replaced by an older one.                    *)
NoOlderPreview == preview # None /\ preview' # None => preview'.n >= preview.n
PreviewNeverOlder == [][NoOlderPreview]_vars

(* Two changes of a selection never overlap, unless a preview was asked    *)
(* for during the first: its answer lowers the flag.                       *)
OneApplyAtATime ==
  ~slipped => \A a, b \in applied : a.from # "row" /\ b.from # "row" => a = b

Working == busy

(* The toolbar comes back, also after an error.                            *)
BulkLoadingEnds == Working ~> ~Working

(* The numbers in the edit dialog are those of the selection: "the panel   *)
(* shows a loading state, never numbers for a dead filter".                *)
NoNumbersOfAnotherSelection ==
  ~slipped /\ dialog = "edit" /\ preview # None => preview.of = Selection

(***************************************************************************)
(* The inductive invariant                                                 *)
(***************************************************************************)
(* The selection is of one kind and, if it is everything the filters let   *)
(* through, of the filters on the screen.                                  *)
SelectionInv ==
  /\ all => mode /\ chosenFor = filters
  /\ side = "cashflow" /\ all => \E k \in Kinds : filters = {k}
  /\ side = "cashflow" /\ ~all => \A r \in ticked : KindOf[r] = kind

(* One preview is on its way at most, and it is newer than the one shown.  *)
PreviewInv ==
  /\ \A p, q \in asked : p = q
  /\ preview # None => preview.n \in 0..asks /\ \A q \in asked : preview.n <= q.n

(* The flag is up while a preview or a change of the selection is on its   *)
(* way, and they exclude each other, unless a preview slipped in.          *)
FlagInv ==
  ~slipped =>
    /\ asked # {} => busy /\ \A a \in applied : a.from = "row"
    /\ \A a \in applied : a.from # "row" => busy
    /\ dialog = "edit" => \A q \in asked : q.of = Selection

IInv ==
  /\ SelectionType /\ DialogType /\ RequestType /\ SelectionInv /\ PreviewInv /\ FlagInv
  /\ OneKind /\ FilteredMeansTheseFilters /\ OneApplyAtATime /\ NoNumbersOfAnotherSelection
=============================================================================
