------------------------------- MODULE WebDialogs ------------------------------
(***************************************************************************)
(* Five sections of the web client in which something is typed, ticked or  *)
(* shown once and a request is sent for it: the forms, the import of a     *)
(* file, the security settings, the sheet of a trade, and the contacts.    *)
(***************************************************************************)
EXTENDS WebVars

CONSTANTS
  formRows, formMaxDrafts, formMaxSends,
  impFiles, impRowNumbers, impRecords, impRowsOf, impMaxChoices, impMaxCalls,
  secRows, secMaxCalls, secMaxVisits,
  tradeAssets, tradeWithTicker, tradeDates, tradeSaved, tradeMaxOpenings, tradeMaxTyped,
  listRows, listLinked, listMaxOps, listMaxRefreshes, listMaxOpenings

Fo == INSTANCE WebForms WITH
  Rows <- formRows, MaxDrafts <- formMaxDrafts, MaxSends <- formMaxSends,
  sheet <- v1, editing <- v2, content <- v3, typed <- v4, question <- v5, saving <- v6, sent <- v7,
  sends <- v8, made <- v9, undoable <- v10, taken <- v11, moved <- v12, mute <- v13
Im == INSTANCE WebImport WITH
  Files <- impFiles, RowNumbers <- impRowNumbers, Records <- impRecords, RowsOf <- impRowsOf,
  MaxChoices <- impMaxChoices, MaxCalls <- impMaxCalls,
  csvImportType <- v1, csvFile <- v2, csvSep <- v3, csvMap <- v4, csvParsed <- v5, reads <- v6,
  csvImportPreview <- v7, csvImporting <- v8, csvImportResult <- v9, calls <- v10, books <- v11,
  asked <- v12, overtaken <- v13, crossed <- v14, choices <- v15, made <- v16,
  raced <- v17
Se == INSTANCE WebSecurity WITH
  Rows <- secRows, MaxCalls <- secMaxCalls, MaxVisits <- secMaxVisits,
  part <- v1, listed <- v2, truth <- v3, profile <- v4, list <- v5, card <- v6, busy <- v7,
  calls <- v8, nCalls <- v9, visit <- v10, out <- v11, hist <- v12
Tr == INSTANCE WebTrade WITH
  Assets <- tradeAssets, WithTicker <- tradeWithTicker, Dates <- tradeDates, Saved <- tradeSaved,
  MaxOpenings <- tradeMaxOpenings, MaxTyped <- tradeMaxTyped,
  part <- v1, form <- v2, touched <- v3, asking <- v4, status <- v5, sheet <- v6, busy <- v7,
  sent <- v8, openings <- v9, typed <- v10, made <- v11, unsure <- v12
Li == INSTANCE WebSplitLists WITH
  Rows <- listRows, Linked <- listLinked, MaxOps <- listMaxOps, MaxRefreshes <- listMaxRefreshes,
  MaxOpenings <- listMaxOpenings,
  scope <- v1, truth <- v2, shown <- v3, loads <- v4, nLoads <- v5, refreshes <- v6, loading <- v7,
  ops <- v8, nOps <- v9, sheet <- v10, openings <- v11, saving <- v12, target <- v13,
  deleting <- v14, made <- v15, mixed <- v16, missed <- v17

ASSUME DialogsAssumption ==
  /\ Fo!FormsAssumption /\ Im!ImportAssumption /\ Se!SecurityAssumption /\ Tr!TradeAssumption
  /\ Li!SplitListsAssumption

DialogsInit ==
  \/ section = "forms" /\ Fo!Init /\ off14
  \/ section = "import" /\ Im!Init /\ off18
  \/ section = "security" /\ Se!Init /\ off13
  \/ section = "trade" /\ Tr!Init /\ off13
  \/ section = "lists" /\ Li!Init /\ off18

DialogsNext ==
  \/ section = "forms" /\ Fo!Next /\ UNCHANGED <<section, same14>>
  \/ section = "import" /\ Im!Next /\ UNCHANGED <<section, same18>>
  \/ section = "security" /\ Se!Next /\ UNCHANGED <<section, same13>>
  \/ section = "trade" /\ Tr!Next /\ UNCHANGED <<section, same13>>
  \/ section = "lists" /\ Li!Next /\ UNCHANGED <<section, same18>>

(* Another section runs: what it does to its variables is not said here. *)
Dialogs == {"forms", "import", "security", "trade", "lists"}
NoDialog == section \notin Dialogs
DialogStep == DialogsNext \/ (NoDialog /\ UNCHANGED section)

(* What the client does, as far as these sections are concerned. *)
DialogsSpec == (DialogsInit \/ NoDialog) /\ [][DialogStep]_vars

(***************************************************************************)
(* Properties.  Each says of every section what the section's own          *)
(* properties say; they are stated, with their exceptions, there.          *)
(***************************************************************************)
(* One form, one question or one click is at most one change on the        *)
(* server: of the forms, sheets and imports that guard themselves with a   *)
(* flag, also when an answer comes late, is lost or is refused.            *)
DoneOnce ==
  /\ In("forms", Fo!OneRowPerDraft)
  /\ In("import", Im!OneImportAtATime /\ Im!NothingTwiceUnasked)
  /\ In("trade", Tr!OneTradePerSheet)
  /\ In("lists", Li!OneContactPerForm)
  /\ In("security", Se!OneSeedAtATime)

(* Nothing that exists only in the browser goes away unsaved: the text of  *)
(* a form, the row it edits, a figure typed over a suggestion, a token, a  *)
(* confirmation.                                                           *)
NothingLost ==
  /\ In("forms", Fo!NothingTypedIsLost /\ Fo!SavesTheRowItShows)
  /\ In("trade", Tr!MineIsKept)
  /\ In("security", Se!NoTokenIsLost /\ Se!EnabledMeansCodesShown /\ Se!ConfirmedForThisQuestion)
=============================================================================
