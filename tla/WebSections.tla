------------------------------ MODULE WebSections ------------------------------
(***************************************************************************)
(* Six sections of the web client: bulk changes, the accounts, and the     *)
(* shared expenses, their templates, groups and settlements.               *)
(***************************************************************************)
EXTENDS WebVars

CONSTANTS
  bulkRows, bulkKinds, bulkKindOf, bulkMany, bulkMaxAsked, bulkMaxApplied,
  accAccounts, accInvestments, accMaxClicks, accMaxOthers,
  splitMe, splitOthers, splitGroups, splitMembersOf, splitFirstOf, splitExpenses, splitExpenseOf, splitMaxOpenings,
  tmplMe, tmplOthers, tmplTemplates, tmplExpired, tmplMaxOpenings, tmplMaxOps, tmplMaxLoads,
  groupGroups, groupMaxChanges, groupMaxReads,
  settleMe, settleOthers, settleAccounts, settleBooks, settleMaxDebt, settleMaxOpenings

Bu == INSTANCE WebBulk WITH
  Rows <- bulkRows, Kinds <- bulkKinds, KindOf <- bulkKindOf, Many <- bulkMany,
  MaxAsked <- bulkMaxAsked, MaxApplied <- bulkMaxApplied,
  side <- v1, filters <- v2, listed <- v3, mode <- v4, all <- v5, ticked <- v6, kind <- v7,
  chosenFor <- v8, dialog <- v9, detail <- v10, changed <- v11, due <- v12, asked <- v13,
  asks <- v14, preview <- v15, previewOf <- v16, current <- v17, applied <- v18, applies <- v19,
  applying <- v20, busy <- v21, slipped <- v22
Ac == INSTANCE WebAccounts WITH
  Accounts <- accAccounts, Investments <- accInvestments, MaxClicks <- accMaxClicks,
  MaxOthers <- accMaxOthers,
  source_account <- v1, previous_account <- v2, open <- v3, funds <- v4, is_archived <- v5,
  migrateModal <- v6, rollbackModal <- v7, balanceBlockedModal <- v8, calls <- v9, loops <- v10,
  edits <- v11, moved <- v12, twice <- v13, reopened <- v14, raced <- v15, clicks <- v16,
  others <- v17
Sf == INSTANCE WebSplitForm WITH
  Me <- splitMe, Others <- splitOthers, Groups <- splitGroups, MembersOf <- splitMembersOf,
  FirstOf <- splitFirstOf, Expenses <- splitExpenses, ExpenseOf <- splitExpenseOf,
  MaxOpenings <- splitMaxOpenings,
  loaded <- v1, known <- v2, mode <- v3, from <- v4, form <- v5, filled <- v6, openings <- v7,
  sent <- v8, submitting <- v9, created <- v10, chose <- v11, early <- v12
St == INSTANCE WebSplitTemplates WITH
  Me <- tmplMe, Others <- tmplOthers, Templates <- tmplTemplates, Expired <- tmplExpired,
  MaxOpenings <- tmplMaxOpenings, MaxOps <- tmplMaxOps, MaxLoads <- tmplMaxLoads,
  server <- v1, shown <- v2, loads <- v3, loaded <- v4, ops <- v5, opCount <- v6, mixed <- v7,
  form <- v8, mode <- v9, openings <- v10, submitting <- v11, generating <- v12, deleting <- v13,
  target <- v14, made <- v15
Gr == INSTANCE WebGroup WITH
  Groups <- groupGroups, MaxChanges <- groupMaxChanges, MaxReads <- groupMaxReads,
  rev <- v1, selected <- v2, detail <- v3, roster <- v4, suggested <- v5, reads <- v6, nReads <- v7,
  loading <- v8, simplifying <- v9, changes <- v10, dialog <- v11, busy <- v12, pending <- v13,
  link <- v14, mine <- v15, crossed <- v16, failed <- v17
Sl == INSTANCE WebSettle WITH
  Me <- settleMe, Others <- settleOthers, Accounts <- settleAccounts, Books <- settleBooks,
  MaxDebt <- settleMaxDebt, MaxOpenings <- settleMaxOpenings,
  debt <- v1, books <- v2, sheet <- v3, amount <- v4, account <- v5, chosen <- v6, reads <- v7,
  sent <- v8, submitting <- v9, openings <- v10, settled <- v11

ASSUME SectionsAssumption ==
  /\ Bu!BulkAssumption /\ Ac!AccountsAssumption /\ Sf!SplitFormAssumption
  /\ St!TemplatesAssumption /\ Gr!GroupAssumption /\ Sl!SettleAssumption

SectionsInit ==
  \/ section = "bulk" /\ Bu!Init
  \/ section = "accounts" /\ Ac!Init /\ off18
  \/ section = "splitForm" /\ Sf!Init /\ off13
  \/ section = "templates" /\ St!Init /\ off16
  \/ section = "group" /\ Gr!Init /\ off18
  \/ section = "settle" /\ Sl!Init /\ off12

SectionsNext ==
  \/ section = "bulk" /\ Bu!Next /\ UNCHANGED <<section>>
  \/ section = "accounts" /\ Ac!Next /\ UNCHANGED <<section, same18>>
  \/ section = "splitForm" /\ Sf!Next /\ UNCHANGED <<section, same13>>
  \/ section = "templates" /\ St!Next /\ UNCHANGED <<section, same16>>
  \/ section = "group" /\ Gr!Next /\ UNCHANGED <<section, same18>>
  \/ section = "settle" /\ Sl!Next /\ UNCHANGED <<section, same12>>

(* Another section runs: what it does to its variables is not said here. *)
Sections == {"bulk", "accounts", "splitForm", "templates", "group", "settle"}
Elsewhere == section \notin Sections
Step == SectionsNext \/ (Elsewhere /\ UNCHANGED section)

(* What the client does, as far as these sections are concerned. *)
SectionsSpec == (SectionsInit \/ Elsewhere) /\ [][Step]_vars

(***************************************************************************)
(* Properties.  Each says of every section what the section's own          *)
(* properties say; they are stated, with their exceptions, there.          *)
(***************************************************************************)
(* What is sent is what the server takes and what the screen said: a bulk  *)
(* change of one kind of rows and of the filters shown, a split expense of *)
(* members, each once, with my category only if I pay.  No open position   *)
(* is on an archived account, but for what came between the server's look  *)
(* at it and its write, or is bought again later.  And it is sent once:    *)
(* one click is one bulk change, one form one expense or one template, one *)
(* sheet one settlement.                                                   *)
SentIsAcceptable ==
  /\ In("bulk", Bu!OneKind /\ Bu!FilteredMeansTheseFilters /\ Bu!OneApplyAtATime)
  /\ In("splitForm", Sf!NobodyTwice /\ Sf!IPayUnlessISaidOtherwise /\ Sf!MembersOnly
                     /\ Sf!ExtrasOnlyOfMine /\ Sf!OneExpensePerForm)
  /\ In("templates", St!TemplateExtrasOnlyOfMine /\ St!OneTemplatePerForm)
  /\ In("settle", Sl!OneSettlementPerSheet)
  /\ In("accounts", Ac!ArchivedHoldNothing /\ Ac!WhatWasHereIsOffered)

(* A newer count or picture is never replaced by an older one, and a       *)
(* settlement of what the sheet proposes does not turn the debt around.    *)
NoStepBack ==
  /\ In("bulk", Bu!NoOlderPreview)
  /\ In("group", Gr!NoOlderPicture)
  /\ In("settle", Sl!ProposedClears)
NeverBackwards == [][NoStepBack]_vars
=============================================================================
