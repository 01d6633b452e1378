---------------------------- MODULE WebSectionsProofs ----------------------------
(***************************************************************************)
(* The web client sends what the server takes and never goes backwards,    *)
(* for every number of rows, people, groups, accounts and requests.        *)
(*                                                                         *)
(* Each section has an inductive invariant of its own; its steps are first *)
(* brought to a few forms (the lemmas that end in Is or Cases) and then    *)
(* checked against each part of it.  The section that runs keeps its       *)
(* invariant, the others do not run.                                       *)
(***************************************************************************)
EXTENDS WebSections, TLAPS

(***************************************************************************)
(* Changing many rows at once                                              *)
(***************************************************************************)
USE DEF Bu!Keep, Bu!selection, Bu!screen, Bu!previews, Bu!changes

(* What the constants are. *)
LEMMA BulkConstants ==
  Bu!BulkAssumption =>
    /\ bulkKindOf \in [bulkRows -> bulkKinds] /\ bulkMany \in Nat /\ bulkMaxAsked \in Nat /\ bulkMaxApplied \in Nat
    /\ None \notin bulkRows /\ None \notin bulkKinds
    /\ None # "edit" /\ None # "delete" /\ None # "verify" /\ None # "detail" /\ None # "row"
BY DEF Bu!BulkAssumption

(* What is listed, ticked and chosen stays rows and kinds. *)
LEMMA BulkScreen ==
  ASSUME Bu!BulkAssumption, Bu!IInv, Bu!Next
  PROVE Bu!SelectionType'
<1> USE DEF Bu!SelectionType
<1>0. Bu!SelectionType BY DEF Bu!IInv
<1>1. ASSUME NEW f \in Bu!AnyFilters, Bu!EditFilters(f) PROVE Bu!SelectionType'
  BY <1>0, <1>1, BulkConstants DEF Bu!EditFilters, Bu!OnNewFilters, Bu!ClearCfSelection
<1>2. CASE Bu!ListLoads
  BY <1>0, <1>2, BulkConstants DEF Bu!ListLoads
<1>3. CASE Bu!EnterMode \/ Bu!ExitMode \/ Bu!ClearSelection
  BY <1>0, <1>3, BulkConstants DEF Bu!EnterMode, Bu!ExitMode, Bu!ClearSelection, Bu!ClearCfSelection
<1>4. ASSUME NEW r \in bulkRows, Bu!ToggleCfItemSelected(r) PROVE Bu!SelectionType'
  BY <1>0, <1>4, BulkConstants DEF Bu!ToggleCfItemSelected, Bu!Shown, Bu!Joins
<1>5. ASSUME NEW r \in bulkRows, Bu!OpenDetail(r) PROVE Bu!SelectionType'
  BY <1>0, <1>5, BulkConstants DEF Bu!OpenDetail
<1>6. ASSUME NEW r \in bulkRows, Bu!SetCfItemVerified(r) PROVE Bu!SelectionType'
  BY <1>0, <1>6, BulkConstants DEF Bu!SetCfItemVerified, Bu!Send
<1>7. CASE Bu!SelectVisibleCf
  <2>1. Bu!Shown(v3) \subseteq bulkRows BY DEF Bu!Shown
  <2>2. v7' \in bulkKinds BY <2>1, <1>0, <1>7, BulkConstants DEF Bu!SelectVisibleCf
  <2>3. v6' \subseteq bulkRows BY <2>1, <1>7 DEF Bu!SelectVisibleCf
  <2> QED BY <1>0, <1>7, <2>2, <2>3 DEF Bu!SelectVisibleCf
<1>8. CASE Bu!SelectVisibleAssetTx \/ Bu!SelectAllFilteredCf \/ Bu!SelectAllFilteredAssetTx
  BY <1>0, <1>8, BulkConstants DEF Bu!SelectVisibleAssetTx, Bu!SelectAllFilteredCf,
    Bu!SelectAllFilteredAssetTx, Bu!Shown
<1>9. CASE Bu!OpenEdit \/ Bu!OpenDelete \/ Bu!AskVerify
  BY <1>0, <1>9, BulkConstants DEF Bu!OpenEdit, Bu!OpenDelete, Bu!AskVerify, Bu!Open, Bu!Free
<1>10. CASE Bu!CloseDialog \/ Bu!SetField \/ Bu!ClearFields
  BY <1>0, <1>10, BulkConstants DEF Bu!CloseDialog, Bu!Leave, Bu!SetField, Bu!ClearFields
<1>11. CASE Bu!RunCfBulkPreview
  BY <1>0, <1>11, BulkConstants DEF Bu!RunCfBulkPreview, Bu!StillAsked
<1>12. ASSUME NEW from, from # "row", ~v21, Bu!ApplyCfBulk(from) PROVE Bu!SelectionType'
  BY <1>0, <1>12, BulkConstants DEF Bu!ApplyCfBulk, Bu!StillAsked, Bu!Send
<1>13. ASSUME NEW q \in v13, Bu!HearPreview(q) PROVE Bu!SelectionType'
  BY <1>0, <1>13, BulkConstants DEF Bu!HearPreview
<1>14. ASSUME NEW a \in v18, Bu!HearRow(a) PROVE Bu!SelectionType'
  BY <1>0, <1>14, BulkConstants DEF Bu!HearRow
<1>15. ASSUME NEW a \in v18, NEW ok \in BOOLEAN, Bu!HearApply(a, ok) PROVE Bu!SelectionType'
  BY <1>0, <1>15, BulkConstants DEF Bu!HearApply, Bu!ClearCfSelection, Bu!Leave, Bu!Lowered
<1> QED BY BulkConstants, <1>1, <1>2, <1>3, <1>4, <1>5, <1>6, <1>7, <1>8, <1>9, <1>10, <1>11,
  <1>12, <1>13, <1>14, <1>15 DEF Bu!Next, Bu!ApplyEdit, Bu!ConfirmDelete, Bu!ConfirmVerify, Bu!TriggerBulkVerify,
  Bu!ApplyAssetTxBulkVerify, Bu!Free

(* One dialog stands at a time, on what it was opened for. *)
LEMMA BulkDialogs ==
  ASSUME Bu!BulkAssumption, Bu!IInv, Bu!Next
  PROVE Bu!DialogType'
<1> USE DEF Bu!DialogType
<1>0. Bu!DialogType BY DEF Bu!IInv
<1>1. ASSUME NEW f \in Bu!AnyFilters, Bu!EditFilters(f) PROVE Bu!DialogType'
  BY <1>0, <1>1, BulkConstants DEF Bu!EditFilters, Bu!OnNewFilters, Bu!ClearCfSelection
<1>2. CASE Bu!ListLoads
  BY <1>0, <1>2, BulkConstants DEF Bu!ListLoads
<1>3. CASE Bu!EnterMode \/ Bu!ExitMode \/ Bu!ClearSelection
  BY <1>0, <1>3, BulkConstants DEF Bu!EnterMode, Bu!ExitMode, Bu!ClearSelection, Bu!ClearCfSelection
<1>4. ASSUME NEW r \in bulkRows, Bu!ToggleCfItemSelected(r) PROVE Bu!DialogType'
  BY <1>0, <1>4, BulkConstants DEF Bu!ToggleCfItemSelected, Bu!Shown, Bu!Joins
<1>5. ASSUME NEW r \in bulkRows, Bu!OpenDetail(r) PROVE Bu!DialogType'
  BY <1>0, <1>5, BulkConstants DEF Bu!OpenDetail
<1>6. ASSUME NEW r \in bulkRows, Bu!SetCfItemVerified(r) PROVE Bu!DialogType'
  BY <1>0, <1>6, BulkConstants DEF Bu!SetCfItemVerified, Bu!Send
<1>7. CASE Bu!SelectVisibleCf
  BY <1>0, <1>7, BulkConstants DEF Bu!SelectVisibleCf, Bu!Shown
<1>8. CASE Bu!SelectVisibleAssetTx \/ Bu!SelectAllFilteredCf \/ Bu!SelectAllFilteredAssetTx
  BY <1>0, <1>8, BulkConstants DEF Bu!SelectVisibleAssetTx, Bu!SelectAllFilteredCf,
    Bu!SelectAllFilteredAssetTx, Bu!Shown
<1>9. CASE Bu!OpenEdit \/ Bu!OpenDelete \/ Bu!AskVerify
  BY <1>0, <1>9, BulkConstants DEF Bu!OpenEdit, Bu!OpenDelete, Bu!AskVerify, Bu!Open, Bu!Free
<1>10. CASE Bu!CloseDialog \/ Bu!SetField \/ Bu!ClearFields
  BY <1>0, <1>10, BulkConstants DEF Bu!CloseDialog, Bu!Leave, Bu!SetField, Bu!ClearFields
<1>11. CASE Bu!RunCfBulkPreview
  BY <1>0, <1>11, BulkConstants DEF Bu!RunCfBulkPreview, Bu!StillAsked
<1>12. ASSUME NEW from, from # "row", ~v21, Bu!ApplyCfBulk(from) PROVE Bu!DialogType'
  BY <1>0, <1>12, BulkConstants DEF Bu!ApplyCfBulk, Bu!StillAsked, Bu!Send
<1>13. ASSUME NEW q \in v13, Bu!HearPreview(q) PROVE Bu!DialogType'
  BY <1>0, <1>13, BulkConstants DEF Bu!HearPreview
<1>14. ASSUME NEW a \in v18, Bu!HearRow(a) PROVE Bu!DialogType'
  BY <1>0, <1>14, BulkConstants DEF Bu!HearRow
<1>15. ASSUME NEW a \in v18, NEW ok \in BOOLEAN, Bu!HearApply(a, ok) PROVE Bu!DialogType'
  BY <1>0, <1>15, BulkConstants DEF Bu!HearApply, Bu!ClearCfSelection, Bu!Leave, Bu!Lowered
<1> QED BY BulkConstants, <1>1, <1>2, <1>3, <1>4, <1>5, <1>6, <1>7, <1>8, <1>9, <1>10, <1>11,
  <1>12, <1>13, <1>14, <1>15 DEF Bu!Next, Bu!ApplyEdit, Bu!ConfirmDelete, Bu!ConfirmVerify, Bu!TriggerBulkVerify,
  Bu!ApplyAssetTxBulkVerify, Bu!Free

(* Requests are numbered; the newest count is the only one asked for. *)
LEMMA BulkRequests ==
  ASSUME Bu!BulkAssumption, Bu!IInv, Bu!Next
  PROVE Bu!RequestType'
<1> USE DEF Bu!RequestType, Bu!PreviewInv, Bu!SelectionType, Bu!DialogType
<1>0. Bu!RequestType /\ Bu!PreviewInv /\ Bu!SelectionType /\ Bu!DialogType BY DEF Bu!IInv
<1>1. ASSUME NEW f \in Bu!AnyFilters, Bu!EditFilters(f) PROVE Bu!RequestType'
  BY <1>0, <1>1, BulkConstants DEF Bu!EditFilters, Bu!OnNewFilters, Bu!ClearCfSelection
<1>2. CASE Bu!ListLoads
  BY <1>0, <1>2, BulkConstants DEF Bu!ListLoads
<1>3. CASE Bu!EnterMode \/ Bu!ExitMode \/ Bu!ClearSelection
  BY <1>0, <1>3, BulkConstants DEF Bu!EnterMode, Bu!ExitMode, Bu!ClearSelection, Bu!ClearCfSelection
<1>4. ASSUME NEW r \in bulkRows, Bu!ToggleCfItemSelected(r) PROVE Bu!RequestType'
  BY <1>0, <1>4, BulkConstants DEF Bu!ToggleCfItemSelected, Bu!Shown, Bu!Joins
<1>5. ASSUME NEW r \in bulkRows, Bu!OpenDetail(r) PROVE Bu!RequestType'
  BY <1>0, <1>5, BulkConstants DEF Bu!OpenDetail
<1>6. ASSUME NEW r \in bulkRows, Bu!SetCfItemVerified(r) PROVE Bu!RequestType'
  BY <1>0, <1>6, BulkConstants DEF Bu!SetCfItemVerified, Bu!Send
<1>7. CASE Bu!SelectVisibleCf
  BY <1>0, <1>7, BulkConstants DEF Bu!SelectVisibleCf, Bu!Shown
<1>8. CASE Bu!SelectVisibleAssetTx \/ Bu!SelectAllFilteredCf \/ Bu!SelectAllFilteredAssetTx
  BY <1>0, <1>8, BulkConstants DEF Bu!SelectVisibleAssetTx, Bu!SelectAllFilteredCf,
    Bu!SelectAllFilteredAssetTx, Bu!Shown
<1>9. CASE Bu!OpenEdit \/ Bu!OpenDelete \/ Bu!AskVerify
  BY <1>0, <1>9, BulkConstants DEF Bu!OpenEdit, Bu!OpenDelete, Bu!AskVerify, Bu!Open, Bu!Free
<1>10. CASE Bu!CloseDialog \/ Bu!SetField \/ Bu!ClearFields
  BY <1>0, <1>10, BulkConstants DEF Bu!CloseDialog, Bu!Leave, Bu!SetField, Bu!ClearFields
<1>11. CASE Bu!RunCfBulkPreview
  BY <1>0, <1>11, BulkConstants DEF Bu!RunCfBulkPreview, Bu!StillAsked
<1>12. ASSUME NEW from, from # "row", ~v21, Bu!ApplyCfBulk(from) PROVE Bu!RequestType'
  BY <1>0, <1>12, BulkConstants DEF Bu!ApplyCfBulk, Bu!StillAsked, Bu!Send
<1>13. ASSUME NEW q \in v13, Bu!HearPreview(q) PROVE Bu!RequestType'
  BY <1>0, <1>13, BulkConstants DEF Bu!HearPreview
<1>14. ASSUME NEW a \in v18, Bu!HearRow(a) PROVE Bu!RequestType'
  BY <1>0, <1>14, BulkConstants DEF Bu!HearRow
<1>15. ASSUME NEW a \in v18, NEW ok \in BOOLEAN, Bu!HearApply(a, ok) PROVE Bu!RequestType'
  <2>1. UNCHANGED <<v14, v13, v17, v19, v22>> /\ v18' \subseteq v18 /\ v21' = FALSE
    BY <1>15 DEF Bu!HearApply, Bu!Lowered
  <2>2. v20' \in {v20, 0} BY <1>15 DEF Bu!HearApply, Bu!Leave
  <2>3. v20' \in 0..v19' BY ONLY <1>0, <2>1, <2>2, Bu!BulkAssumption, BulkConstants
  <2>4. (\A q \in v13 : q.n = v17 /\ q.n \in 1..v14)' BY ONLY <1>0, <2>1
  <2>5. (\A b \in v18 : b.n \in 1..v19)' BY ONLY <1>0, <2>1
  <2> QED BY ONLY <1>0, <2>1, <2>3, <2>4, <2>5
<1> QED BY BulkConstants, <1>1, <1>2, <1>3, <1>4, <1>5, <1>6, <1>7, <1>8, <1>9, <1>10, <1>11,
  <1>12, <1>13, <1>14, <1>15 DEF Bu!Next, Bu!ApplyEdit, Bu!ConfirmDelete, Bu!ConfirmVerify, Bu!TriggerBulkVerify,
  Bu!ApplyAssetTxBulkVerify, Bu!Free

(* What is ticked is of the kind of the selection. *)
LEMMA BulkSelection ==
  ASSUME Bu!BulkAssumption, Bu!IInv, Bu!Next
  PROVE Bu!SelectionInv'
<1> USE DEF Bu!SelectionInv, Bu!SelectionType, Bu!DialogType
<1>0. Bu!SelectionInv /\ Bu!SelectionType /\ Bu!DialogType BY DEF Bu!IInv
<1>1. ASSUME NEW f \in Bu!AnyFilters, Bu!EditFilters(f) PROVE Bu!SelectionInv'
  BY <1>0, <1>1, BulkConstants DEF Bu!EditFilters, Bu!OnNewFilters, Bu!ClearCfSelection
<1>2. CASE Bu!ListLoads
  BY <1>0, <1>2, BulkConstants DEF Bu!ListLoads
<1>3. CASE Bu!EnterMode \/ Bu!ExitMode \/ Bu!ClearSelection
  BY <1>0, <1>3, BulkConstants DEF Bu!EnterMode, Bu!ExitMode, Bu!ClearSelection, Bu!ClearCfSelection
<1>4. ASSUME NEW r \in bulkRows, Bu!ToggleCfItemSelected(r) PROVE Bu!SelectionInv'
  BY <1>0, <1>4, BulkConstants DEF Bu!ToggleCfItemSelected, Bu!Shown, Bu!Joins
<1>5. ASSUME NEW r \in bulkRows, Bu!OpenDetail(r) PROVE Bu!SelectionInv'
  BY <1>0, <1>5, BulkConstants DEF Bu!OpenDetail
<1>6. ASSUME NEW r \in bulkRows, Bu!SetCfItemVerified(r) PROVE Bu!SelectionInv'
  BY <1>0, <1>6, BulkConstants DEF Bu!SetCfItemVerified, Bu!Send
<1>7. CASE Bu!SelectVisibleCf
  BY <1>0, <1>7, BulkConstants DEF Bu!SelectVisibleCf, Bu!Shown
<1>8. CASE Bu!SelectVisibleAssetTx \/ Bu!SelectAllFilteredCf \/ Bu!SelectAllFilteredAssetTx
  BY <1>0, <1>8, BulkConstants DEF Bu!SelectVisibleAssetTx, Bu!SelectAllFilteredCf,
    Bu!SelectAllFilteredAssetTx, Bu!Shown
<1>9. CASE Bu!OpenEdit \/ Bu!OpenDelete \/ Bu!AskVerify
  BY <1>0, <1>9, BulkConstants DEF Bu!OpenEdit, Bu!OpenDelete, Bu!AskVerify, Bu!Open, Bu!Free
<1>10. CASE Bu!CloseDialog \/ Bu!SetField \/ Bu!ClearFields
  BY <1>0, <1>10, BulkConstants DEF Bu!CloseDialog, Bu!Leave, Bu!SetField, Bu!ClearFields
<1>11. CASE Bu!RunCfBulkPreview
  BY <1>0, <1>11, BulkConstants DEF Bu!RunCfBulkPreview, Bu!StillAsked
<1>12. ASSUME NEW from, from # "row", ~v21, Bu!ApplyCfBulk(from) PROVE Bu!SelectionInv'
  BY <1>0, <1>12, BulkConstants DEF Bu!ApplyCfBulk, Bu!StillAsked, Bu!Send, Bu!Selection, Bu!Selected, Bu!Shown
<1>13. ASSUME NEW q \in v13, Bu!HearPreview(q) PROVE Bu!SelectionInv'
  BY <1>0, <1>13, BulkConstants DEF Bu!HearPreview
<1>14. ASSUME NEW a \in v18, Bu!HearRow(a) PROVE Bu!SelectionInv'
  BY <1>0, <1>14, BulkConstants DEF Bu!HearRow
<1>15. ASSUME NEW a \in v18, NEW ok \in BOOLEAN, Bu!HearApply(a, ok) PROVE Bu!SelectionInv'
  BY <1>0, <1>15, BulkConstants DEF Bu!HearApply, Bu!ClearCfSelection, Bu!Leave, Bu!Lowered
<1> QED BY BulkConstants, <1>1, <1>2, <1>3, <1>4, <1>5, <1>6, <1>7, <1>8, <1>9, <1>10, <1>11,
  <1>12, <1>13, <1>14, <1>15 DEF Bu!Next, Bu!ApplyEdit, Bu!ConfirmDelete, Bu!ConfirmVerify, Bu!TriggerBulkVerify,
  Bu!ApplyAssetTxBulkVerify, Bu!Free

(* A count shown was asked for by the dialog that shows it. *)
LEMMA BulkPreviews ==
  ASSUME Bu!BulkAssumption, Bu!IInv, Bu!Next
  PROVE Bu!PreviewInv'
<1> USE DEF Bu!PreviewInv, Bu!RequestType, Bu!SelectionType, Bu!DialogType
<1>0. Bu!PreviewInv /\ Bu!RequestType /\ Bu!SelectionType /\ Bu!DialogType BY DEF Bu!IInv
<1>1. ASSUME NEW f \in Bu!AnyFilters, Bu!EditFilters(f) PROVE Bu!PreviewInv'
  BY <1>0, <1>1, BulkConstants DEF Bu!EditFilters, Bu!OnNewFilters, Bu!ClearCfSelection
<1>2. CASE Bu!ListLoads
  BY <1>0, <1>2, BulkConstants DEF Bu!ListLoads
<1>3. CASE Bu!EnterMode \/ Bu!ExitMode \/ Bu!ClearSelection
  BY <1>0, <1>3, BulkConstants DEF Bu!EnterMode, Bu!ExitMode, Bu!ClearSelection, Bu!ClearCfSelection
<1>4. ASSUME NEW r \in bulkRows, Bu!ToggleCfItemSelected(r) PROVE Bu!PreviewInv'
  BY <1>0, <1>4, BulkConstants DEF Bu!ToggleCfItemSelected, Bu!Shown, Bu!Joins
<1>5. ASSUME NEW r \in bulkRows, Bu!OpenDetail(r) PROVE Bu!PreviewInv'
  BY <1>0, <1>5, BulkConstants DEF Bu!OpenDetail
<1>6. ASSUME NEW r \in bulkRows, Bu!SetCfItemVerified(r) PROVE Bu!PreviewInv'
  BY <1>0, <1>6, BulkConstants DEF Bu!SetCfItemVerified, Bu!Send
<1>7. CASE Bu!SelectVisibleCf
  BY <1>0, <1>7, BulkConstants DEF Bu!SelectVisibleCf, Bu!Shown
<1>8. CASE Bu!SelectVisibleAssetTx \/ Bu!SelectAllFilteredCf \/ Bu!SelectAllFilteredAssetTx
  BY <1>0, <1>8, BulkConstants DEF Bu!SelectVisibleAssetTx, Bu!SelectAllFilteredCf,
    Bu!SelectAllFilteredAssetTx, Bu!Shown
<1>9. CASE Bu!OpenEdit \/ Bu!OpenDelete \/ Bu!AskVerify
  BY <1>0, <1>9, BulkConstants DEF Bu!OpenEdit, Bu!OpenDelete, Bu!AskVerify, Bu!Open, Bu!Free
<1>10. CASE Bu!CloseDialog \/ Bu!SetField \/ Bu!ClearFields
  BY <1>0, <1>10, BulkConstants DEF Bu!CloseDialog, Bu!Leave, Bu!SetField, Bu!ClearFields
<1>11. CASE Bu!RunCfBulkPreview
  BY <1>0, <1>11, BulkConstants DEF Bu!RunCfBulkPreview, Bu!StillAsked
<1>12. ASSUME NEW from, from # "row", ~v21, Bu!ApplyCfBulk(from) PROVE Bu!PreviewInv'
  BY <1>0, <1>12, BulkConstants DEF Bu!ApplyCfBulk, Bu!StillAsked, Bu!Send
<1>13. ASSUME NEW q \in v13, Bu!HearPreview(q) PROVE Bu!PreviewInv'
  BY <1>0, <1>13, BulkConstants DEF Bu!HearPreview
<1>14. ASSUME NEW a \in v18, Bu!HearRow(a) PROVE Bu!PreviewInv'
  BY <1>0, <1>14, BulkConstants DEF Bu!HearRow
<1>15. ASSUME NEW a \in v18, NEW ok \in BOOLEAN, Bu!HearApply(a, ok) PROVE Bu!PreviewInv'
  BY <1>0, <1>15, BulkConstants DEF Bu!HearApply, Bu!ClearCfSelection, Bu!Leave, Bu!Lowered
<1> QED BY BulkConstants, <1>1, <1>2, <1>3, <1>4, <1>5, <1>6, <1>7, <1>8, <1>9, <1>10, <1>11,
  <1>12, <1>13, <1>14, <1>15 DEF Bu!Next, Bu!ApplyEdit, Bu!ConfirmDelete, Bu!ConfirmVerify, Bu!TriggerBulkVerify,
  Bu!ApplyAssetTxBulkVerify, Bu!Free

(* The flag is up while a bulk change is on its way. *)
LEMMA BulkFlags ==
  ASSUME Bu!BulkAssumption, Bu!IInv, Bu!Next
  PROVE Bu!FlagInv'
<1> USE DEF Bu!FlagInv, Bu!RequestType, Bu!SelectionType, Bu!DialogType, Bu!OneApplyAtATime, Bu!PreviewInv, Bu!Selection
<1>0. Bu!FlagInv /\ Bu!RequestType /\ Bu!SelectionType /\ Bu!DialogType /\ Bu!OneApplyAtATime /\ Bu!PreviewInv BY
  DEF Bu!IInv
<1>1. ASSUME NEW f \in Bu!AnyFilters, Bu!EditFilters(f) PROVE Bu!FlagInv'
  BY <1>0, <1>1, BulkConstants DEF Bu!EditFilters, Bu!OnNewFilters, Bu!ClearCfSelection
<1>2. CASE Bu!ListLoads
  BY <1>0, <1>2, BulkConstants DEF Bu!ListLoads
<1>3. CASE Bu!EnterMode \/ Bu!ExitMode \/ Bu!ClearSelection
  BY <1>0, <1>3, BulkConstants DEF Bu!EnterMode, Bu!ExitMode, Bu!ClearSelection, Bu!ClearCfSelection
<1>4. ASSUME NEW r \in bulkRows, Bu!ToggleCfItemSelected(r) PROVE Bu!FlagInv'
  BY <1>0, <1>4, BulkConstants DEF Bu!ToggleCfItemSelected, Bu!Shown, Bu!Joins
<1>5. ASSUME NEW r \in bulkRows, Bu!OpenDetail(r) PROVE Bu!FlagInv'
  BY <1>0, <1>5, BulkConstants DEF Bu!OpenDetail
<1>6. ASSUME NEW r \in bulkRows, Bu!SetCfItemVerified(r) PROVE Bu!FlagInv'
  BY <1>0, <1>6, BulkConstants DEF Bu!SetCfItemVerified, Bu!Send
<1>7. CASE Bu!SelectVisibleCf
  BY <1>0, <1>7, BulkConstants DEF Bu!SelectVisibleCf, Bu!Shown
<1>8. CASE Bu!SelectVisibleAssetTx \/ Bu!SelectAllFilteredCf \/ Bu!SelectAllFilteredAssetTx
  BY <1>0, <1>8, BulkConstants DEF Bu!SelectVisibleAssetTx, Bu!SelectAllFilteredCf,
    Bu!SelectAllFilteredAssetTx, Bu!Shown
<1>9. CASE Bu!OpenEdit \/ Bu!OpenDelete \/ Bu!AskVerify
  BY <1>0, <1>9, BulkConstants DEF Bu!OpenEdit, Bu!OpenDelete, Bu!AskVerify, Bu!Open, Bu!Free
<1>10. CASE Bu!CloseDialog \/ Bu!SetField \/ Bu!ClearFields
  BY <1>0, <1>10, BulkConstants DEF Bu!CloseDialog, Bu!Leave, Bu!SetField, Bu!ClearFields
<1>11. CASE Bu!RunCfBulkPreview
  BY <1>0, <1>11, BulkConstants DEF Bu!RunCfBulkPreview, Bu!StillAsked
<1>12. ASSUME NEW from, from # "row", ~v21, Bu!ApplyCfBulk(from) PROVE Bu!FlagInv'
  BY <1>0, <1>12, BulkConstants DEF Bu!ApplyCfBulk, Bu!StillAsked, Bu!Send
<1>13. ASSUME NEW q \in v13, Bu!HearPreview(q) PROVE Bu!FlagInv'
  BY <1>0, <1>13, BulkConstants DEF Bu!HearPreview
<1>14. ASSUME NEW a \in v18, Bu!HearRow(a) PROVE Bu!FlagInv'
  BY <1>0, <1>14, BulkConstants DEF Bu!HearRow
<1>15. ASSUME NEW a \in v18, NEW ok \in BOOLEAN, Bu!HearApply(a, ok) PROVE Bu!FlagInv'
  BY <1>0, <1>15, BulkConstants DEF Bu!HearApply, Bu!ClearCfSelection, Bu!Leave, Bu!Lowered
<1> QED BY BulkConstants, <1>1, <1>2, <1>3, <1>4, <1>5, <1>6, <1>7, <1>8, <1>9, <1>10, <1>11,
  <1>12, <1>13, <1>14, <1>15 DEF Bu!Next, Bu!ApplyEdit, Bu!ConfirmDelete, Bu!ConfirmVerify, Bu!TriggerBulkVerify,
  Bu!ApplyAssetTxBulkVerify, Bu!Free

(* A bulk change is sent for rows of one kind. *)
LEMMA BulkKinds ==
  ASSUME Bu!BulkAssumption, Bu!IInv, Bu!Next
  PROVE Bu!OneKind'
<1> USE DEF Bu!OneKind, Bu!RequestType, Bu!SelectionType, Bu!DialogType, Bu!SelectionInv, Bu!Selection, Bu!Selected,
  Bu!Shown
<1>0. Bu!OneKind /\ Bu!RequestType /\ Bu!SelectionType /\ Bu!DialogType /\ Bu!SelectionInv BY DEF Bu!IInv
<1>1. ASSUME NEW f \in Bu!AnyFilters, Bu!EditFilters(f) PROVE Bu!OneKind'
  BY <1>0, <1>1, BulkConstants DEF Bu!EditFilters, Bu!OnNewFilters, Bu!ClearCfSelection
<1>2. CASE Bu!ListLoads
  BY <1>0, <1>2, BulkConstants DEF Bu!ListLoads
<1>3. CASE Bu!EnterMode \/ Bu!ExitMode \/ Bu!ClearSelection
  BY <1>0, <1>3, BulkConstants DEF Bu!EnterMode, Bu!ExitMode, Bu!ClearSelection, Bu!ClearCfSelection
<1>4. ASSUME NEW r \in bulkRows, Bu!ToggleCfItemSelected(r) PROVE Bu!OneKind'
  BY <1>0, <1>4, BulkConstants DEF Bu!ToggleCfItemSelected, Bu!Shown, Bu!Joins
<1>5. ASSUME NEW r \in bulkRows, Bu!OpenDetail(r) PROVE Bu!OneKind'
  BY <1>0, <1>5, BulkConstants DEF Bu!OpenDetail
<1>6. ASSUME NEW r \in bulkRows, Bu!SetCfItemVerified(r) PROVE Bu!OneKind'
  BY <1>0, <1>6, BulkConstants DEF Bu!SetCfItemVerified, Bu!Send
<1>7. CASE Bu!SelectVisibleCf
  BY <1>0, <1>7, BulkConstants DEF Bu!SelectVisibleCf, Bu!Shown
<1>8. CASE Bu!SelectVisibleAssetTx \/ Bu!SelectAllFilteredCf \/ Bu!SelectAllFilteredAssetTx
  BY <1>0, <1>8, BulkConstants DEF Bu!SelectVisibleAssetTx, Bu!SelectAllFilteredCf,
    Bu!SelectAllFilteredAssetTx, Bu!Shown
<1>9. CASE Bu!OpenEdit \/ Bu!OpenDelete \/ Bu!AskVerify
  BY <1>0, <1>9, BulkConstants DEF Bu!OpenEdit, Bu!OpenDelete, Bu!AskVerify, Bu!Open, Bu!Free
<1>10. CASE Bu!CloseDialog \/ Bu!SetField \/ Bu!ClearFields
  BY <1>0, <1>10, BulkConstants DEF Bu!CloseDialog, Bu!Leave, Bu!SetField, Bu!ClearFields
<1>11. CASE Bu!RunCfBulkPreview
  BY <1>0, <1>11, BulkConstants DEF Bu!RunCfBulkPreview, Bu!StillAsked
<1>12. ASSUME NEW from, from # "row", ~v21, Bu!ApplyCfBulk(from) PROVE Bu!OneKind'
  BY <1>0, <1>12, BulkConstants DEF Bu!ApplyCfBulk, Bu!StillAsked, Bu!Send
<1>13. ASSUME NEW q \in v13, Bu!HearPreview(q) PROVE Bu!OneKind'
  BY <1>0, <1>13, BulkConstants DEF Bu!HearPreview
<1>14. ASSUME NEW a \in v18, Bu!HearRow(a) PROVE Bu!OneKind'
  BY <1>0, <1>14, BulkConstants DEF Bu!HearRow
<1>15. ASSUME NEW a \in v18, NEW ok \in BOOLEAN, Bu!HearApply(a, ok) PROVE Bu!OneKind'
  BY <1>0, <1>15, BulkConstants DEF Bu!HearApply, Bu!ClearCfSelection, Bu!Leave, Bu!Lowered
<1> QED BY BulkConstants, <1>1, <1>2, <1>3, <1>4, <1>5, <1>6, <1>7, <1>8, <1>9, <1>10, <1>11,
  <1>12, <1>13, <1>14, <1>15 DEF Bu!Next, Bu!ApplyEdit, Bu!ConfirmDelete, Bu!ConfirmVerify, Bu!TriggerBulkVerify,
  Bu!ApplyAssetTxBulkVerify, Bu!Free

(* "All filtered" is sent with the filters that the list shows. *)
LEMMA BulkFilters ==
  ASSUME Bu!BulkAssumption, Bu!IInv, Bu!Next
  PROVE Bu!FilteredMeansTheseFilters'
<1> USE DEF Bu!FilteredMeansTheseFilters, Bu!RequestType, Bu!SelectionType, Bu!DialogType, Bu!SelectionInv,
  Bu!Selection
<1>0. Bu!FilteredMeansTheseFilters /\ Bu!RequestType /\ Bu!SelectionType /\ Bu!DialogType /\ Bu!SelectionInv BY
  DEF Bu!IInv
<1>1. ASSUME NEW f \in Bu!AnyFilters, Bu!EditFilters(f) PROVE Bu!FilteredMeansTheseFilters'
  BY <1>0, <1>1, BulkConstants DEF Bu!EditFilters, Bu!OnNewFilters, Bu!ClearCfSelection
<1>2. CASE Bu!ListLoads
  BY <1>0, <1>2, BulkConstants DEF Bu!ListLoads
<1>3. CASE Bu!EnterMode \/ Bu!ExitMode \/ Bu!ClearSelection
  BY <1>0, <1>3, BulkConstants DEF Bu!EnterMode, Bu!ExitMode, Bu!ClearSelection, Bu!ClearCfSelection
<1>4. ASSUME NEW r \in bulkRows, Bu!ToggleCfItemSelected(r) PROVE Bu!FilteredMeansTheseFilters'
  BY <1>0, <1>4, BulkConstants DEF Bu!ToggleCfItemSelected, Bu!Shown, Bu!Joins
<1>5. ASSUME NEW r \in bulkRows, Bu!OpenDetail(r) PROVE Bu!FilteredMeansTheseFilters'
  BY <1>0, <1>5, BulkConstants DEF Bu!OpenDetail
<1>6. ASSUME NEW r \in bulkRows, Bu!SetCfItemVerified(r) PROVE Bu!FilteredMeansTheseFilters'
  BY <1>0, <1>6, BulkConstants DEF Bu!SetCfItemVerified, Bu!Send
<1>7. CASE Bu!SelectVisibleCf
  BY <1>0, <1>7, BulkConstants DEF Bu!SelectVisibleCf, Bu!Shown
<1>8. CASE Bu!SelectVisibleAssetTx \/ Bu!SelectAllFilteredCf \/ Bu!SelectAllFilteredAssetTx
  BY <1>0, <1>8, BulkConstants DEF Bu!SelectVisibleAssetTx, Bu!SelectAllFilteredCf,
    Bu!SelectAllFilteredAssetTx, Bu!Shown
<1>9. CASE Bu!OpenEdit \/ Bu!OpenDelete \/ Bu!AskVerify
  BY <1>0, <1>9, BulkConstants DEF Bu!OpenEdit, Bu!OpenDelete, Bu!AskVerify, Bu!Open, Bu!Free
<1>10. CASE Bu!CloseDialog \/ Bu!SetField \/ Bu!ClearFields
  BY <1>0, <1>10, BulkConstants DEF Bu!CloseDialog, Bu!Leave, Bu!SetField, Bu!ClearFields
<1>11. CASE Bu!RunCfBulkPreview
  BY <1>0, <1>11, BulkConstants DEF Bu!RunCfBulkPreview, Bu!StillAsked
<1>12. ASSUME NEW from, from # "row", ~v21, Bu!ApplyCfBulk(from) PROVE Bu!FilteredMeansTheseFilters'
  BY <1>0, <1>12, BulkConstants DEF Bu!ApplyCfBulk, Bu!StillAsked, Bu!Send
<1>13. ASSUME NEW q \in v13, Bu!HearPreview(q) PROVE Bu!FilteredMeansTheseFilters'
  BY <1>0, <1>13, BulkConstants DEF Bu!HearPreview
<1>14. ASSUME NEW a \in v18, Bu!HearRow(a) PROVE Bu!FilteredMeansTheseFilters'
  BY <1>0, <1>14, BulkConstants DEF Bu!HearRow
<1>15. ASSUME NEW a \in v18, NEW ok \in BOOLEAN, Bu!HearApply(a, ok) PROVE Bu!FilteredMeansTheseFilters'
  BY <1>0, <1>15, BulkConstants DEF Bu!HearApply, Bu!ClearCfSelection, Bu!Leave, Bu!Lowered
<1> QED BY BulkConstants, <1>1, <1>2, <1>3, <1>4, <1>5, <1>6, <1>7, <1>8, <1>9, <1>10, <1>11,
  <1>12, <1>13, <1>14, <1>15 DEF Bu!Next, Bu!ApplyEdit, Bu!ConfirmDelete, Bu!ConfirmVerify, Bu!TriggerBulkVerify,
  Bu!ApplyAssetTxBulkVerify, Bu!Free

(* One bulk change is on its way at a time. *)
LEMMA BulkOneApply ==
  ASSUME Bu!BulkAssumption, Bu!IInv, Bu!Next
  PROVE Bu!OneApplyAtATime'
<1> USE DEF Bu!OneApplyAtATime, Bu!RequestType, Bu!SelectionType, Bu!DialogType, Bu!FlagInv
<1>0. Bu!OneApplyAtATime /\ Bu!RequestType /\ Bu!SelectionType /\ Bu!DialogType /\ Bu!FlagInv BY DEF Bu!IInv
<1>1. ASSUME NEW f \in Bu!AnyFilters, Bu!EditFilters(f) PROVE Bu!OneApplyAtATime'
  BY <1>0, <1>1, BulkConstants DEF Bu!EditFilters, Bu!OnNewFilters, Bu!ClearCfSelection
<1>2. CASE Bu!ListLoads
  BY <1>0, <1>2, BulkConstants DEF Bu!ListLoads
<1>3. CASE Bu!EnterMode \/ Bu!ExitMode \/ Bu!ClearSelection
  BY <1>0, <1>3, BulkConstants DEF Bu!EnterMode, Bu!ExitMode, Bu!ClearSelection, Bu!ClearCfSelection
<1>4. ASSUME NEW r \in bulkRows, Bu!ToggleCfItemSelected(r) PROVE Bu!OneApplyAtATime'
  BY <1>0, <1>4, BulkConstants DEF Bu!ToggleCfItemSelected, Bu!Shown, Bu!Joins
<1>5. ASSUME NEW r \in bulkRows, Bu!OpenDetail(r) PROVE Bu!OneApplyAtATime'
  BY <1>0, <1>5, BulkConstants DEF Bu!OpenDetail
<1>6. ASSUME NEW r \in bulkRows, Bu!SetCfItemVerified(r) PROVE Bu!OneApplyAtATime'
  BY <1>0, <1>6, BulkConstants DEF Bu!SetCfItemVerified, Bu!Send
<1>7. CASE Bu!SelectVisibleCf
  BY <1>0, <1>7, BulkConstants DEF Bu!SelectVisibleCf, Bu!Shown
<1>8. CASE Bu!SelectVisibleAssetTx \/ Bu!SelectAllFilteredCf \/ Bu!SelectAllFilteredAssetTx
  BY <1>0, <1>8, BulkConstants DEF Bu!SelectVisibleAssetTx, Bu!SelectAllFilteredCf,
    Bu!SelectAllFilteredAssetTx, Bu!Shown
<1>9. CASE Bu!OpenEdit \/ Bu!OpenDelete \/ Bu!AskVerify
  BY <1>0, <1>9, BulkConstants DEF Bu!OpenEdit, Bu!OpenDelete, Bu!AskVerify, Bu!Open, Bu!Free
<1>10. CASE Bu!CloseDialog \/ Bu!SetField \/ Bu!ClearFields
  BY <1>0, <1>10, BulkConstants DEF Bu!CloseDialog, Bu!Leave, Bu!SetField, Bu!ClearFields
<1>11. CASE Bu!RunCfBulkPreview
  BY <1>0, <1>11, BulkConstants DEF Bu!RunCfBulkPreview, Bu!StillAsked
<1>12. ASSUME NEW from, from # "row", ~v21, Bu!ApplyCfBulk(from) PROVE Bu!OneApplyAtATime'
  BY <1>0, <1>12, BulkConstants DEF Bu!ApplyCfBulk, Bu!StillAsked, Bu!Send
<1>13. ASSUME NEW q \in v13, Bu!HearPreview(q) PROVE Bu!OneApplyAtATime'
  BY <1>0, <1>13, BulkConstants DEF Bu!HearPreview
<1>14. ASSUME NEW a \in v18, Bu!HearRow(a) PROVE Bu!OneApplyAtATime'
  BY <1>0, <1>14, BulkConstants DEF Bu!HearRow
<1>15. ASSUME NEW a \in v18, NEW ok \in BOOLEAN, Bu!HearApply(a, ok) PROVE Bu!OneApplyAtATime'
  BY <1>0, <1>15, BulkConstants DEF Bu!HearApply, Bu!ClearCfSelection, Bu!Leave, Bu!Lowered
<1> QED BY BulkConstants, <1>1, <1>2, <1>3, <1>4, <1>5, <1>6, <1>7, <1>8, <1>9, <1>10, <1>11,
  <1>12, <1>13, <1>14, <1>15 DEF Bu!Next, Bu!ApplyEdit, Bu!ConfirmDelete, Bu!ConfirmVerify, Bu!TriggerBulkVerify,
  Bu!ApplyAssetTxBulkVerify, Bu!Free

(* The count shown is of the selection that stands. *)
LEMMA BulkNumbers ==
  ASSUME Bu!BulkAssumption, Bu!IInv, Bu!Next
  PROVE Bu!NoNumbersOfAnotherSelection'
<1> USE DEF Bu!NoNumbersOfAnotherSelection, Bu!RequestType, Bu!SelectionType, Bu!DialogType, Bu!FlagInv, Bu!Selection
<1>0. Bu!NoNumbersOfAnotherSelection /\ Bu!RequestType /\ Bu!SelectionType /\ Bu!DialogType /\ Bu!FlagInv BY DEF
  Bu!IInv
<1>1. ASSUME NEW f \in Bu!AnyFilters, Bu!EditFilters(f) PROVE Bu!NoNumbersOfAnotherSelection'
  BY <1>0, <1>1, BulkConstants DEF Bu!EditFilters, Bu!OnNewFilters, Bu!ClearCfSelection
<1>2. CASE Bu!ListLoads
  BY <1>0, <1>2, BulkConstants DEF Bu!ListLoads
<1>3. CASE Bu!EnterMode \/ Bu!ExitMode \/ Bu!ClearSelection
  BY <1>0, <1>3, BulkConstants DEF Bu!EnterMode, Bu!ExitMode, Bu!ClearSelection, Bu!ClearCfSelection
<1>4. ASSUME NEW r \in bulkRows, Bu!ToggleCfItemSelected(r) PROVE Bu!NoNumbersOfAnotherSelection'
  BY <1>0, <1>4, BulkConstants DEF Bu!ToggleCfItemSelected, Bu!Shown, Bu!Joins
<1>5. ASSUME NEW r \in bulkRows, Bu!OpenDetail(r) PROVE Bu!NoNumbersOfAnotherSelection'
  BY <1>0, <1>5, BulkConstants DEF Bu!OpenDetail
<1>6. ASSUME NEW r \in bulkRows, Bu!SetCfItemVerified(r) PROVE Bu!NoNumbersOfAnotherSelection'
  BY <1>0, <1>6, BulkConstants DEF Bu!SetCfItemVerified, Bu!Send
<1>7. CASE Bu!SelectVisibleCf
  BY <1>0, <1>7, BulkConstants DEF Bu!SelectVisibleCf, Bu!Shown
<1>8. CASE Bu!SelectVisibleAssetTx \/ Bu!SelectAllFilteredCf \/ Bu!SelectAllFilteredAssetTx
  BY <1>0, <1>8, BulkConstants DEF Bu!SelectVisibleAssetTx, Bu!SelectAllFilteredCf,
    Bu!SelectAllFilteredAssetTx, Bu!Shown
<1>9. CASE Bu!OpenEdit \/ Bu!OpenDelete \/ Bu!AskVerify
  BY <1>0, <1>9, BulkConstants DEF Bu!OpenEdit, Bu!OpenDelete, Bu!AskVerify, Bu!Open, Bu!Free
<1>10. CASE Bu!CloseDialog \/ Bu!SetField \/ Bu!ClearFields
  <2>1. CASE Bu!CloseDialog BY <1>0, <2>1, BulkConstants DEF Bu!CloseDialog, Bu!Leave
  <2>2. CASE Bu!SetField \/ Bu!ClearFields
    <3>1. Bu!Selection' = Bu!Selection BY <2>2 DEF Bu!SetField, Bu!ClearFields
    <3> QED BY <1>0, <2>2, <3>1 DEF Bu!SetField, Bu!ClearFields
  <2> QED BY <1>10, <2>1, <2>2
<1>11. CASE Bu!RunCfBulkPreview
  BY <1>0, <1>11, BulkConstants DEF Bu!RunCfBulkPreview, Bu!StillAsked
<1>12. ASSUME NEW from, from # "row", ~v21, Bu!ApplyCfBulk(from) PROVE Bu!NoNumbersOfAnotherSelection'
  BY <1>0, <1>12, BulkConstants DEF Bu!ApplyCfBulk, Bu!StillAsked, Bu!Send
<1>13. ASSUME NEW q \in v13, Bu!HearPreview(q) PROVE Bu!NoNumbersOfAnotherSelection'
  BY <1>0, <1>13, BulkConstants DEF Bu!HearPreview
<1>14. ASSUME NEW a \in v18, Bu!HearRow(a) PROVE Bu!NoNumbersOfAnotherSelection'
  BY <1>0, <1>14, BulkConstants DEF Bu!HearRow
<1>15. ASSUME NEW a \in v18, NEW ok \in BOOLEAN, Bu!HearApply(a, ok) PROVE Bu!NoNumbersOfAnotherSelection'
  <2>1. CASE ok BY <1>0, <1>15, <2>1, BulkConstants DEF Bu!HearApply, Bu!ClearCfSelection, Bu!Leave, Bu!Lowered
  <2>2. CASE ~ok BY <1>0, <1>15, <2>2, BulkConstants DEF Bu!HearApply, Bu!ClearCfSelection, Bu!Leave, Bu!Lowered
  <2> QED BY <2>1, <2>2
<1> QED BY BulkConstants, <1>1, <1>2, <1>3, <1>4, <1>5, <1>6, <1>7, <1>8, <1>9, <1>10, <1>11,
  <1>12, <1>13, <1>14, <1>15 DEF Bu!Next, Bu!ApplyEdit, Bu!ConfirmDelete, Bu!ConfirmVerify, Bu!TriggerBulkVerify,
  Bu!ApplyAssetTxBulkVerify, Bu!Free

(* No step replaces a count by one asked for earlier. *)
LEMMA BulkNoOlder ==
  ASSUME Bu!BulkAssumption, Bu!IInv, Bu!Next
  PROVE Bu!NoOlderPreview
<1> USE DEF Bu!NoOlderPreview, Bu!RequestType, Bu!PreviewInv
<1>0. Bu!RequestType /\ Bu!PreviewInv BY DEF Bu!IInv
<1>1. ASSUME NEW f \in Bu!AnyFilters, Bu!EditFilters(f) PROVE Bu!NoOlderPreview
  BY <1>0, <1>1, BulkConstants DEF Bu!EditFilters, Bu!OnNewFilters, Bu!ClearCfSelection
<1>2. CASE Bu!ListLoads
  BY <1>0, <1>2, BulkConstants DEF Bu!ListLoads
<1>3. CASE Bu!EnterMode \/ Bu!ExitMode \/ Bu!ClearSelection
  BY <1>0, <1>3, BulkConstants DEF Bu!EnterMode, Bu!ExitMode, Bu!ClearSelection, Bu!ClearCfSelection
<1>4. ASSUME NEW r \in bulkRows, Bu!ToggleCfItemSelected(r) PROVE Bu!NoOlderPreview
  BY <1>0, <1>4, BulkConstants DEF Bu!ToggleCfItemSelected, Bu!Shown, Bu!Joins
<1>5. ASSUME NEW r \in bulkRows, Bu!OpenDetail(r) PROVE Bu!NoOlderPreview
  BY <1>0, <1>5, BulkConstants DEF Bu!OpenDetail
<1>6. ASSUME NEW r \in bulkRows, Bu!SetCfItemVerified(r) PROVE Bu!NoOlderPreview
  BY <1>0, <1>6, BulkConstants DEF Bu!SetCfItemVerified, Bu!Send
<1>7. CASE Bu!SelectVisibleCf
  BY <1>0, <1>7, BulkConstants DEF Bu!SelectVisibleCf, Bu!Shown
<1>8. CASE Bu!SelectVisibleAssetTx \/ Bu!SelectAllFilteredCf \/ Bu!SelectAllFilteredAssetTx
  BY <1>0, <1>8, BulkConstants DEF Bu!SelectVisibleAssetTx, Bu!SelectAllFilteredCf,
    Bu!SelectAllFilteredAssetTx, Bu!Shown
<1>9. CASE Bu!OpenEdit \/ Bu!OpenDelete \/ Bu!AskVerify
  BY <1>0, <1>9, BulkConstants DEF Bu!OpenEdit, Bu!OpenDelete, Bu!AskVerify, Bu!Open, Bu!Free
<1>10. CASE Bu!CloseDialog \/ Bu!SetField \/ Bu!ClearFields
  BY <1>0, <1>10, BulkConstants DEF Bu!CloseDialog, Bu!Leave, Bu!SetField, Bu!ClearFields
<1>11. CASE Bu!RunCfBulkPreview
  BY <1>0, <1>11, BulkConstants DEF Bu!RunCfBulkPreview, Bu!StillAsked
<1>12. ASSUME NEW from, from # "row", ~v21, Bu!ApplyCfBulk(from) PROVE Bu!NoOlderPreview
  BY <1>0, <1>12, BulkConstants DEF Bu!ApplyCfBulk, Bu!StillAsked, Bu!Send
<1>13. ASSUME NEW q \in v13, Bu!HearPreview(q) PROVE Bu!NoOlderPreview
  BY <1>0, <1>13, BulkConstants DEF Bu!HearPreview
<1>14. ASSUME NEW a \in v18, Bu!HearRow(a) PROVE Bu!NoOlderPreview
  BY <1>0, <1>14, BulkConstants DEF Bu!HearRow
<1>15. ASSUME NEW a \in v18, NEW ok \in BOOLEAN, Bu!HearApply(a, ok) PROVE Bu!NoOlderPreview
  BY <1>0, <1>15, BulkConstants DEF Bu!HearApply, Bu!ClearCfSelection, Bu!Leave, Bu!Lowered
<1> QED BY BulkConstants, <1>1, <1>2, <1>3, <1>4, <1>5, <1>6, <1>7, <1>8, <1>9, <1>10, <1>11,
  <1>12, <1>13, <1>14, <1>15 DEF Bu!Next, Bu!ApplyEdit, Bu!ConfirmDelete, Bu!ConfirmVerify, Bu!TriggerBulkVerify,
  Bu!ApplyAssetTxBulkVerify, Bu!Free

(* The invariant holds at first. *)
LEMMA BulkInit ==
  ASSUME Bu!BulkAssumption, Bu!Init
  PROVE Bu!IInv
<1>1. Bu!SelectionType BY BulkConstants DEF Bu!Init, Bu!SelectionType
<1>2. Bu!DialogType BY BulkConstants DEF Bu!Init, Bu!DialogType
<1>3. Bu!RequestType
  <2>1. v14 \in 0..bulkMaxAsked /\ v19 \in 0..bulkMaxApplied BY BulkConstants DEF Bu!Init
  <2>2. v20 \in 0..v19 BY DEF Bu!Init
  <2> QED BY <2>1, <2>2 DEF Bu!Init, Bu!RequestType
<1>4. Bu!SelectionInv BY BulkConstants DEF Bu!Init, Bu!SelectionInv
<1>5. Bu!PreviewInv BY BulkConstants DEF Bu!Init, Bu!PreviewInv
<1>6. Bu!FlagInv BY BulkConstants DEF Bu!Init, Bu!FlagInv
<1>7. Bu!OneKind BY BulkConstants DEF Bu!Init, Bu!OneKind
<1>8. Bu!FilteredMeansTheseFilters BY BulkConstants DEF Bu!Init, Bu!FilteredMeansTheseFilters
<1>9. Bu!OneApplyAtATime BY BulkConstants DEF Bu!Init, Bu!OneApplyAtATime
<1>10. Bu!NoNumbersOfAnotherSelection BY BulkConstants DEF Bu!Init, Bu!NoNumbersOfAnotherSelection
<1> QED BY <1>1, <1>2, <1>3, <1>4, <1>5, <1>6, <1>7, <1>8, <1>9, <1>10 DEF Bu!IInv

(* The invariant survives a step of another section. *)
LEMMA BulkStays ==
  ASSUME Bu!IInv, UNCHANGED Bu!vars
  PROVE Bu!IInv'
<1>1. Bu!SelectionType' BY DEF Bu!IInv, Bu!vars, Bu!SelectionType, Bu!selection, Bu!screen, Bu!previews, Bu!changes,
  Bu!Selection, Bu!Selected, Bu!Shown
<1>2. Bu!DialogType' BY DEF Bu!IInv, Bu!vars, Bu!DialogType, Bu!selection, Bu!screen, Bu!previews, Bu!changes, Bu!Selection,
  Bu!Selected, Bu!Shown
<1>3. Bu!RequestType' BY DEF Bu!IInv, Bu!vars, Bu!RequestType, Bu!selection, Bu!screen, Bu!previews, Bu!changes,
  Bu!Selection, Bu!Selected, Bu!Shown
<1>4. Bu!SelectionInv' BY DEF Bu!IInv, Bu!vars, Bu!SelectionInv, Bu!selection, Bu!screen, Bu!previews, Bu!changes,
  Bu!Selection, Bu!Selected, Bu!Shown
<1>5. Bu!PreviewInv' BY DEF Bu!IInv, Bu!vars, Bu!PreviewInv, Bu!selection, Bu!screen, Bu!previews, Bu!changes, Bu!Selection,
  Bu!Selected, Bu!Shown
<1>6. Bu!FlagInv' BY DEF Bu!IInv, Bu!vars, Bu!FlagInv, Bu!selection, Bu!screen, Bu!previews, Bu!changes, Bu!Selection,
  Bu!Selected, Bu!Shown
<1>7. Bu!OneKind' BY DEF Bu!IInv, Bu!vars, Bu!OneKind, Bu!selection, Bu!screen, Bu!previews, Bu!changes, Bu!Selection,
  Bu!Selected, Bu!Shown
<1>8. Bu!FilteredMeansTheseFilters' BY DEF Bu!IInv, Bu!vars, Bu!FilteredMeansTheseFilters, Bu!selection, Bu!screen,
  Bu!previews, Bu!changes, Bu!Selection, Bu!Selected, Bu!Shown
<1>9. Bu!OneApplyAtATime' BY DEF Bu!IInv, Bu!vars, Bu!OneApplyAtATime, Bu!selection, Bu!screen, Bu!previews, Bu!changes,
  Bu!Selection, Bu!Selected, Bu!Shown
<1>10. Bu!NoNumbersOfAnotherSelection' BY DEF Bu!IInv, Bu!vars, Bu!NoNumbersOfAnotherSelection, Bu!selection,
  Bu!screen, Bu!previews, Bu!changes, Bu!Selection, Bu!Selected, Bu!Shown
<1> QED BY <1>1, <1>2, <1>3, <1>4, <1>5, <1>6, <1>7, <1>8, <1>9, <1>10 DEF Bu!IInv

(* Every step of the section keeps the invariant. *)
LEMMA BulkStep ==
  ASSUME Bu!BulkAssumption, Bu!IInv, Bu!Next \/ UNCHANGED Bu!vars
  PROVE Bu!IInv'
<1>1. CASE Bu!Next BY <1>1, BulkScreen, BulkDialogs, BulkRequests, BulkSelection, BulkPreviews,
  BulkFlags, BulkKinds, BulkFilters, BulkOneApply, BulkNumbers DEF Bu!IInv
<1>2. CASE UNCHANGED Bu!vars BY <1>2, BulkStays
<1> QED BY <1>1, <1>2

HIDE DEF Bu!Keep, Bu!selection, Bu!screen, Bu!previews, Bu!changes

(***************************************************************************)
(* The form of a split expense                                             *)
(***************************************************************************)
USE DEF Sf!sending, Sf!FormsOf, Sf!PayerIsSelf, Sf!TakePart

(* What the constants are. *)
LEMMA SplitFormConstants ==
  Sf!SplitFormAssumption =>
    /\ splitMe \in Sf!People /\ None \notin Sf!People /\ None \notin splitGroups /\ None \notin splitExpenses
    /\ None # "new" /\ None # "edit" /\ splitMaxOpenings \in Nat
    /\ \A g \in splitGroups : splitMe \in splitMembersOf[g] /\ splitFirstOf[g] \in splitMembersOf[g] /\ splitMembersOf[g] \subseteq Sf!People
    /\ \A e \in splitExpenses : /\ splitExpenseOf[e] \in Sf!FormsOf({e}) /\ splitExpenseOf[e].payer \in Sf!TakePart(splitExpenseOf[e])
                          /\ \A p \in Sf!People : splitExpenseOf[e].parts[p] <= 1
BY DEF Sf!SplitFormAssumption, Sf!People

(* One more participant in a form: his part, and the payer if there was nobody. *)
LEMMA AddedIs ==
  ASSUME NEW ids, NEW f \in Sf!FormsOf(ids), NEW p \in Sf!People
  PROVE /\ Sf!Added(f, p) \in Sf!FormsOf(ids) /\ Sf!Added(f, p).id = f.id /\ Sf!Added(f, p).group = f.group /\ Sf!Added(f, p).extras = f.extras
        /\ Sf!Added(f, p).parts = [f.parts EXCEPT ![p] = @ + 1]
        /\ Sf!Added(f, p).payer = IF Sf!TakePart(f) = {} THEN p ELSE f.payer
<1> DEFINE q == IF Sf!TakePart(f) = {} THEN p ELSE f.payer
<1>1. Sf!Added(f, p) = [id |-> f.id, group |-> f.group, parts |-> [f.parts EXCEPT ![p] = @ + 1], payer |-> q, extras |-> f.extras]
  <2>1. Sf!Added(f, p) = [f EXCEPT !.parts[p] = @ + 1, !.payer = q] BY Zenon DEF Sf!Added
  <2> HIDE DEF q
  <2> QED BY <2>1
<1>2. [f.parts EXCEPT ![p] = @ + 1] \in [Sf!People -> Nat] OBVIOUS
<1>3. q \in Sf!People \cup {None} OBVIOUS
<1> HIDE DEF q
<1>4. /\ Sf!Added(f, p) \in Sf!FormsOf(ids) /\ Sf!Added(f, p).id = f.id /\ Sf!Added(f, p).group = f.group /\ Sf!Added(f, p).extras = f.extras
        /\ Sf!Added(f, p).parts = [f.parts EXCEPT ![p] = @ + 1]
        /\ Sf!Added(f, p).payer = q 
  BY <1>1, <1>2, <1>3
<1> QED BY <1>4 DEF q

(* Clearing the extras leaves the rest of a form; my extras stay while I pay. *)
LEMMA ClearedIs ==
  ASSUME NEW ids, NEW f \in Sf!FormsOf(ids), NEW k
  PROVE /\ Sf!Cleared(f, k) \in Sf!FormsOf(ids) /\ Sf!Cleared(f, k).id = f.id /\ Sf!Cleared(f, k).group = f.group
        /\ Sf!Cleared(f, k).parts = f.parts /\ Sf!Cleared(f, k).payer = f.payer
        /\ Sf!Cleared(f, k).extras => f.extras /\ (Sf!PayerIsSelf(v5, v2) => Sf!PayerIsSelf(f, k))
BY DEF Sf!Cleared

(* A new form gets me as a participant and its payer once my id is known, and once only. *)
LEMMA WithMeIs ==
  ASSUME NEW ids, NEW f \in Sf!FormsOf(ids), splitMe \in Sf!People
  PROVE /\ Sf!WithMe(f) \in Sf!FormsOf(ids) /\ Sf!WithMe(f).id = f.id /\ Sf!WithMe(f).group = f.group
        /\ Sf!WithMe(f).extras = f.extras
        /\ \/ /\ v3 = "new" /\ v4 = None /\ f.group = None /\ splitMe \notin Sf!TakePart(f)
              /\ Sf!WithMe(f).parts = [f.parts EXCEPT ![splitMe] = @ + 1] /\ Sf!WithMe(f).payer = splitMe
           \/ Sf!WithMe(f) = f /\ ~(v3 = "new" /\ v4 = None /\ f.group = None /\ splitMe \notin Sf!TakePart(f))
<1>1. CASE v3 = "new" /\ v4 = None /\ f.group = None /\ splitMe \notin Sf!TakePart(f)
  <2>1. Sf!WithMe(f) = [id |-> f.id, group |-> f.group, parts |-> [f.parts EXCEPT ![splitMe] = @ + 1], payer |-> splitMe,
                     extras |-> f.extras]
    BY <1>1 DEF Sf!WithMe
  <2>2. [f.parts EXCEPT ![splitMe] = @ + 1] \in [Sf!People -> Nat] OBVIOUS
  <2> QED BY <1>1, <2>1, <2>2
<1>2. CASE ~(v3 = "new" /\ v4 = None /\ f.group = None /\ splitMe \notin Sf!TakePart(f))
  BY <1>2 DEF Sf!WithMe
<1> QED BY <1>1, <1>2

(* What my own id does to the form that is open. *)
LEMMA LearnIs ==
  ASSUME Sf!SplitFormAssumption, Sf!FormType, Sf!Learn
  PROVE /\ v5' \in Sf!FormsOf(splitExpenses \cup {None}) /\ v5'.id = v5.id /\ v5'.group = v5.group
        /\ v2' = TRUE
        /\ v5'.extras => v5.extras /\ (Sf!PayerIsSelf(v5, v2) => v5'.payer = splitMe)
        /\ \/ v5' = v5 /\ v2
           \/ v5'.parts = v5.parts /\ v5'.payer = v5.payer
              /\ ~(v3 = "new" /\ v4 = None /\ v5.group = None /\ splitMe \notin Sf!TakePart(v5))
           \/ /\ v3 = "new" /\ v4 = None /\ v5.group = None /\ splitMe \notin Sf!TakePart(v5)
              /\ v5'.parts = [v5.parts EXCEPT ![splitMe] = @ + 1] /\ v5'.payer = splitMe
<1>1. v5 \in Sf!FormsOf(splitExpenses \cup {None}) /\ v2 \in BOOLEAN BY DEF Sf!FormType
<1>2. CASE v2 BY <1>1, <1>2 DEF Sf!Learn
<1>3. CASE ~v2
  <2>1. v5' = Sf!Cleared(Sf!WithMe(v5), TRUE) /\ v2' = TRUE BY <1>3 DEF Sf!Learn
  <2>2. Sf!WithMe(v5) \in Sf!FormsOf(splitExpenses \cup {None}) /\ Sf!WithMe(v5).id = v5.id /\ Sf!WithMe(v5).group = v5.group
        /\ Sf!WithMe(v5).extras = v5.extras
        /\ \/ /\ v3 = "new" /\ v4 = None /\ v5.group = None /\ splitMe \notin Sf!TakePart(v5)
              /\ Sf!WithMe(v5).parts = [v5.parts EXCEPT ![splitMe] = @ + 1] /\ Sf!WithMe(v5).payer = splitMe
           \/ Sf!WithMe(v5) = v5 /\ ~(v3 = "new" /\ v4 = None /\ v5.group = None /\ splitMe \notin Sf!TakePart(v5))
    <3> HIDE DEF Sf!FormsOf, Sf!TakePart
    <3> QED BY <1>1, WithMeIs, SplitFormConstants
  <2> DEFINE w == Sf!WithMe(v5)
  <2>3. Sf!Cleared(w, TRUE) \in Sf!FormsOf(splitExpenses \cup {None}) /\ Sf!Cleared(w, TRUE).id = w.id /\ Sf!Cleared(w, TRUE).group = w.group
        /\ Sf!Cleared(w, TRUE).parts = w.parts /\ Sf!Cleared(w, TRUE).payer = w.payer
        /\ (Sf!Cleared(w, TRUE).extras => w.extras /\ (Sf!PayerIsSelf(v5, v2) => Sf!PayerIsSelf(w, TRUE)))
    <3> HIDE DEF Sf!FormsOf, w, Sf!PayerIsSelf
    <3>1. w \in Sf!FormsOf(splitExpenses \cup {None}) BY <2>2 DEF w
    <3> QED BY <3>1, ClearedIs
  <2> HIDE DEF w, Sf!FormsOf, Sf!TakePart
  <2>4. v5' = Sf!Cleared(w, TRUE) /\ Sf!PayerIsSelf(w, TRUE) = (w.payer = splitMe) BY <2>1 DEF w
  <2> QED BY <1>3, <2>1, <2>2, <2>3, <2>4 DEF w
<1> QED BY <1>1, <1>2, <1>3

(* What one more participant does to the form. *)
LEMMA AddIs ==
  ASSUME Sf!SplitFormAssumption, Sf!FormType, NEW p \in Sf!People, Sf!AddParticipant(p)
  PROVE /\ v5' \in Sf!FormsOf(splitExpenses \cup {None}) /\ v5'.id = v5.id /\ v5'.group = v5.group
        /\ v5'.extras => v5.extras /\ (Sf!PayerIsSelf(v5, v2) => Sf!PayerIsSelf(v5', v2))
        /\ v5'.parts = [v5.parts EXCEPT ![p] = @ + 1]
        /\ v5'.payer = IF Sf!TakePart(v5) = {} THEN p ELSE v5.payer
        /\ p \in Sf!Candidates /\ p \notin Sf!TakePart(v5)
<1> DEFINE w == Sf!Added(v5, p)
<1>1. v5 \in Sf!FormsOf(splitExpenses \cup {None}) BY DEF Sf!FormType
<1>2. /\ w \in Sf!FormsOf(splitExpenses \cup {None}) /\ w.id = v5.id /\ w.group = v5.group /\ w.extras = v5.extras
      /\ w.parts = [v5.parts EXCEPT ![p] = @ + 1]
      /\ w.payer = IF Sf!TakePart(v5) = {} THEN p ELSE v5.payer
  <2> HIDE DEF Sf!FormsOf, Sf!TakePart
  <2> QED BY <1>1, AddedIs
<1>3. v5' = Sf!Cleared(w, v2) /\ p \in Sf!Candidates /\ p \notin Sf!TakePart(v5)
  BY DEF Sf!AddParticipant, Sf!Change
<1> HIDE DEF w
<1>4. /\ Sf!Cleared(w, v2) \in Sf!FormsOf(splitExpenses \cup {None}) /\ Sf!Cleared(w, v2).id = w.id
      /\ Sf!Cleared(w, v2).group = w.group
      /\ Sf!Cleared(w, v2).parts = w.parts /\ Sf!Cleared(w, v2).payer = w.payer
      /\ (Sf!Cleared(w, v2).extras => w.extras /\ (Sf!PayerIsSelf(v5, v2) => Sf!PayerIsSelf(w, v2)))
  <2> HIDE DEF Sf!FormsOf, Sf!PayerIsSelf
  <2> QED BY <1>2, ClearedIs
<1>5. Sf!PayerIsSelf(v5', v2) <=> Sf!PayerIsSelf(w, v2) BY <1>3, <1>4
<1> HIDE DEF Sf!FormsOf, Sf!TakePart, Sf!PayerIsSelf
<1> QED BY <1>2, <1>3, <1>4, <1>5

(* The form stays a form of the expense it edits. *)
LEMMA SplitFormType ==
  ASSUME Sf!SplitFormAssumption, Sf!IInv, Sf!Next
  PROVE Sf!FormType'
<1> USE DEF Sf!FormType
<1>0. Sf!FormType BY DEF Sf!IInv
<1>1. CASE Sf!LoadGroups \/ Sf!LoadLinks
  <2>1. Sf!Learn /\ UNCHANGED <<v3, v4, v6, v7, Sf!sending, v11, v12>> /\ v1' \in {v1, TRUE}
    BY <1>1 DEF Sf!LoadGroups, Sf!LoadLinks, Sf!Learn
  <2>2. v5' \in Sf!FormsOf(splitExpenses \cup {None}) /\ v5'.id = v5.id /\ v2' = TRUE BY <1>0,
    <2>1, LearnIs
  <2> HIDE DEF Sf!FormsOf
  <2> QED BY <1>0, <2>1, <2>2
<1>2. CASE Sf!Close
  BY <1>0, <1>2, SplitFormConstants DEF Sf!Close
<1>3. CASE Sf!Submit
  BY <1>0, <1>3, SplitFormConstants DEF Sf!Submit, Sf!Free
<1>4. ASSUME NEW g \in splitGroups \cup {None}, Sf!OpenNew(g) PROVE Sf!FormType'
  BY <1>0, <1>4, SplitFormConstants DEF Sf!OpenNew, Sf!Opened, Sf!Seeded, Sf!EmptyForm, Sf!EachOnce, Sf!Self, Sf!Cleared
<1>5. ASSUME NEW g \in splitGroups \cup {None}, Sf!HandleGroupChange(g) PROVE Sf!FormType'
  BY <1>0, <1>5, SplitFormConstants DEF Sf!HandleGroupChange, Sf!Change, Sf!Reseeded, Sf!Seeded, Sf!EachOnce,
    Sf!Self, Sf!Cleared
<1>6. ASSUME NEW e \in splitExpenses, Sf!LoadSplitExpenseForEdit(e) PROVE Sf!FormType'
  <2>1. splitExpenseOf[e] \in Sf!FormsOf({e}) BY SplitFormConstants
  <2>2. v5' = Sf!Cleared(splitExpenseOf[e], v2) /\ v3' = "edit" /\ v4' = v4
    /\ UNCHANGED <<v1, v2>> /\ v6' = TRUE /\ v11' = FALSE /\ v12' = FALSE
    BY <1>6 DEF Sf!LoadSplitExpenseForEdit, Sf!Opened
  <2>3. v5' \in Sf!FormsOf({e})
    <3> HIDE DEF Sf!FormsOf
    <3> QED BY <2>1, <2>2, ClearedIs
  <2> QED BY <1>0, <2>2, <2>3, SplitFormConstants
<1>7. ASSUME NEW p \in Sf!People, Sf!AddParticipant(p) PROVE Sf!FormType'
  <2>1. v5' \in Sf!FormsOf(splitExpenses \cup {None}) /\ v5'.id = v5.id BY <1>0, <1>7, AddIs
  <2> HIDE DEF Sf!FormsOf
  <2> QED BY <1>0, <1>7, <2>1 DEF Sf!AddParticipant, Sf!Change
<1>8. ASSUME NEW p \in Sf!People, Sf!RemoveParticipant(p) PROVE Sf!FormType'
  BY <1>0, <1>8, SplitFormConstants DEF Sf!RemoveParticipant, Sf!Change, Sf!Removed, Sf!Cleared
<1>9. ASSUME NEW p \in Sf!People, Sf!SetPayer(p) PROVE Sf!FormType'
  BY <1>0, <1>9, SplitFormConstants DEF Sf!SetPayer, Sf!Change, Sf!Cleared
<1>10. ASSUME NEW b \in BOOLEAN, Sf!SetExtras(b) PROVE Sf!FormType'
  BY <1>0, <1>10, SplitFormConstants DEF Sf!SetExtras, Sf!Change, Sf!Cleared
<1>11. ASSUME NEW b \in BOOLEAN, Sf!FillTexts(b) PROVE Sf!FormType'
  BY <1>0, <1>11, SplitFormConstants DEF Sf!FillTexts, Sf!Change, Sf!Cleared
<1>12. ASSUME NEW s \in v8, Sf!HearSaved(s) PROVE Sf!FormType'
  BY <1>0, <1>12, SplitFormConstants DEF Sf!HearSaved
<1>13. ASSUME NEW s \in v8, Sf!HearRefused(s) PROVE Sf!FormType'
  BY <1>0, <1>13, SplitFormConstants DEF Sf!HearRefused, Sf!Down
<1> QED BY SplitFormConstants, <1>1, <1>2, <1>3, <1>4, <1>5, <1>6, <1>7, <1>8, <1>9, <1>10, <1>11,
  <1>12, <1>13 DEF Sf!Next

(* One request is on its way, of an opening that was. *)
LEMMA SplitFormRequests ==
  ASSUME Sf!SplitFormAssumption, Sf!IInv, Sf!Next
  PROVE Sf!RequestType'
<1> USE DEF Sf!RequestType, Sf!MadeInv
<1>0. Sf!RequestType /\ Sf!MadeInv BY DEF Sf!IInv
<1>1. CASE Sf!LoadGroups \/ Sf!LoadLinks
  BY <1>0, <1>1, SplitFormConstants DEF Sf!LoadGroups, Sf!LoadLinks, Sf!Learn, Sf!WithMe, Sf!Cleared
<1>2. CASE Sf!Close
  BY <1>0, <1>2, SplitFormConstants DEF Sf!Close
<1>3. CASE Sf!Submit
  <2>1. PICK r : v8' = v8 \cup {r} /\ r.n = v7
    <3>1. PICK k : v8' = v8 \cup {[n |-> v7, new |-> v5.id = None, extras |-> v5.extras, mine |-> Sf!PayerIsSelf(v5, v2), try |-> k]}
      BY <1>3 DEF Sf!Submit
    <3> DEFINE q == [n |-> v7, new |-> v5.id = None, extras |-> v5.extras, mine |-> Sf!PayerIsSelf(v5, v2), try |-> k]
    <3>2. v8' = v8 \cup {q} /\ q.n = v7 BY <3>1
    <3> HIDE DEF q
    <3> QED BY <3>2
  <2>2. UNCHANGED <<v7, v10>> /\ v9' = TRUE /\ v3 # None BY <1>3 DEF Sf!Submit
  <2> QED BY <1>0, <2>1, <2>2
<1>4. ASSUME NEW g \in splitGroups \cup {None}, Sf!OpenNew(g) PROVE Sf!RequestType'
  BY <1>0, <1>4, SplitFormConstants DEF Sf!OpenNew, Sf!Opened, Sf!Seeded, Sf!EmptyForm, Sf!EachOnce, Sf!Self, Sf!Cleared
<1>5. ASSUME NEW g \in splitGroups \cup {None}, Sf!HandleGroupChange(g) PROVE Sf!RequestType'
  BY <1>0, <1>5, SplitFormConstants DEF Sf!HandleGroupChange, Sf!Change, Sf!Reseeded, Sf!Seeded, Sf!EachOnce,
    Sf!Self, Sf!Cleared
<1>6. ASSUME NEW e \in splitExpenses, Sf!LoadSplitExpenseForEdit(e) PROVE Sf!RequestType'
  BY <1>0, <1>6, SplitFormConstants DEF Sf!LoadSplitExpenseForEdit, Sf!Opened, Sf!Cleared
<1>7. ASSUME NEW p \in Sf!People, Sf!AddParticipant(p) PROVE Sf!RequestType'
  BY <1>0, <1>7, SplitFormConstants DEF Sf!AddParticipant, Sf!Change, Sf!Added, Sf!Cleared, Sf!Candidates, Sf!Self
<1>8. ASSUME NEW p \in Sf!People, Sf!RemoveParticipant(p) PROVE Sf!RequestType'
  BY <1>0, <1>8, SplitFormConstants DEF Sf!RemoveParticipant, Sf!Change, Sf!Removed, Sf!Cleared
<1>9. ASSUME NEW p \in Sf!People, Sf!SetPayer(p) PROVE Sf!RequestType'
  BY <1>0, <1>9, SplitFormConstants DEF Sf!SetPayer, Sf!Change, Sf!Cleared
<1>10. ASSUME NEW b \in BOOLEAN, Sf!SetExtras(b) PROVE Sf!RequestType'
  BY <1>0, <1>10, SplitFormConstants DEF Sf!SetExtras, Sf!Change, Sf!Cleared
<1>11. ASSUME NEW b \in BOOLEAN, Sf!FillTexts(b) PROVE Sf!RequestType'
  BY <1>0, <1>11, SplitFormConstants DEF Sf!FillTexts, Sf!Change, Sf!Cleared
<1>12. ASSUME NEW s \in v8, Sf!HearSaved(s) PROVE Sf!RequestType'
  <2>1. v10' \in [1..splitMaxOpenings -> Nat] BY <1>0, <1>12, SplitFormConstants DEF Sf!HearSaved
  <2>2. UNCHANGED v7 /\ v8' = {} /\ v9' = FALSE BY <1>0, <1>12 DEF Sf!HearSaved
  <2> QED BY <1>0, <2>1, <2>2
<1>13. ASSUME NEW s \in v8, Sf!HearRefused(s) PROVE Sf!RequestType'
  BY <1>0, <1>13, SplitFormConstants DEF Sf!HearRefused, Sf!Down
<1> QED BY SplitFormConstants, <1>1, <1>2, <1>3, <1>4, <1>5, <1>6, <1>7, <1>8, <1>9, <1>10, <1>11,
  <1>12, <1>13 DEF Sf!Next

(* Before my id is known nobody is taken for me. *)
LEMMA SplitFormSelf ==
  ASSUME Sf!SplitFormAssumption, Sf!IInv, Sf!Next
  PROVE Sf!SelfInv'
<1> USE DEF Sf!SelfInv, Sf!FormType, Sf!NobodyTwice
<1>0. Sf!SelfInv /\ Sf!FormType /\ Sf!NobodyTwice BY DEF Sf!IInv
<1>1. CASE Sf!LoadGroups \/ Sf!LoadLinks
  BY <1>0, <1>1, SplitFormConstants DEF Sf!LoadGroups, Sf!LoadLinks, Sf!Learn, Sf!WithMe, Sf!Cleared
<1>2. CASE Sf!Close
  BY <1>0, <1>2, SplitFormConstants DEF Sf!Close
<1>3. CASE Sf!Submit
  BY <1>0, <1>3, SplitFormConstants DEF Sf!Submit, Sf!Free
<1>4. ASSUME NEW g \in splitGroups \cup {None}, Sf!OpenNew(g) PROVE Sf!SelfInv'
  BY <1>0, <1>4, SplitFormConstants DEF Sf!OpenNew, Sf!Opened, Sf!Seeded, Sf!EmptyForm, Sf!EachOnce, Sf!Self, Sf!Cleared
<1>5. ASSUME NEW g \in splitGroups \cup {None}, Sf!HandleGroupChange(g) PROVE Sf!SelfInv'
  BY <1>0, <1>5, SplitFormConstants DEF Sf!HandleGroupChange, Sf!Change, Sf!Reseeded, Sf!Seeded, Sf!EachOnce,
    Sf!Self, Sf!Cleared
<1>6. ASSUME NEW e \in splitExpenses, Sf!LoadSplitExpenseForEdit(e) PROVE Sf!SelfInv'
  BY <1>0, <1>6, SplitFormConstants DEF Sf!LoadSplitExpenseForEdit, Sf!Opened, Sf!Cleared
<1>7. ASSUME NEW p \in Sf!People, Sf!AddParticipant(p) PROVE Sf!SelfInv'
  <2>1. UNCHANGED <<v1, v2, v3>> BY <1>7 DEF Sf!AddParticipant, Sf!Change
  <2>2. /\ v5'.id = v5.id /\ v5'.group = v5.group /\ (v5'.extras => v5.extras /\ (Sf!PayerIsSelf(v5, v2) => Sf!PayerIsSelf(v5', v2)))
        /\ v5'.parts = [v5.parts EXCEPT ![p] = @ + 1] /\ p \in Sf!Candidates
    BY <1>0, <1>7, AddIs
  <2>3. ~v2 /\ v5.group = None => p # splitMe
    BY <1>0, <2>2, SplitFormConstants DEF Sf!Candidates, Sf!Self, Sf!SplitFormAssumption
  <2>4. ~v2 /\ v3 = "new" /\ v5.group = None => splitMe \notin Sf!TakePart(v5)'
    BY <1>0, <2>2, <2>3, SplitFormConstants
  <2> QED BY <1>0, <2>1, <2>2, <2>4
<1>8. ASSUME NEW p \in Sf!People, Sf!RemoveParticipant(p) PROVE Sf!SelfInv'
  BY <1>0, <1>8, SplitFormConstants DEF Sf!RemoveParticipant, Sf!Change, Sf!Removed, Sf!Cleared
<1>9. ASSUME NEW p \in Sf!People, Sf!SetPayer(p) PROVE Sf!SelfInv'
  BY <1>0, <1>9, SplitFormConstants DEF Sf!SetPayer, Sf!Change, Sf!Cleared
<1>10. ASSUME NEW b \in BOOLEAN, Sf!SetExtras(b) PROVE Sf!SelfInv'
  BY <1>0, <1>10, SplitFormConstants DEF Sf!SetExtras, Sf!Change, Sf!Cleared
<1>11. ASSUME NEW b \in BOOLEAN, Sf!FillTexts(b) PROVE Sf!SelfInv'
  BY <1>0, <1>11, SplitFormConstants DEF Sf!FillTexts, Sf!Change, Sf!Cleared
<1>12. ASSUME NEW s \in v8, Sf!HearSaved(s) PROVE Sf!SelfInv'
  BY <1>0, <1>12, SplitFormConstants DEF Sf!HearSaved
<1>13. ASSUME NEW s \in v8, Sf!HearRefused(s) PROVE Sf!SelfInv'
  BY <1>0, <1>13, SplitFormConstants DEF Sf!HearRefused, Sf!Down
<1> QED BY SplitFormConstants, <1>1, <1>2, <1>3, <1>4, <1>5, <1>6, <1>7, <1>8, <1>9, <1>10, <1>11,
  <1>12, <1>13 DEF Sf!Next

(* What is open or on its way has created nothing yet. *)
LEMMA SplitFormMade ==
  ASSUME Sf!SplitFormAssumption, Sf!IInv, Sf!Next
  PROVE Sf!MadeInv'
<1> USE DEF Sf!MadeInv, Sf!FormType, Sf!RequestType
<1>0. Sf!MadeInv /\ Sf!FormType /\ Sf!RequestType BY DEF Sf!IInv
<1>1. CASE Sf!LoadGroups \/ Sf!LoadLinks
  BY <1>0, <1>1, SplitFormConstants DEF Sf!LoadGroups, Sf!LoadLinks, Sf!Learn, Sf!WithMe, Sf!Cleared
<1>2. CASE Sf!Close
  BY <1>0, <1>2, SplitFormConstants DEF Sf!Close
<1>3. CASE Sf!Submit
  BY <1>0, <1>3, SplitFormConstants DEF Sf!Submit, Sf!Free
<1>4. ASSUME NEW g \in splitGroups \cup {None}, Sf!OpenNew(g) PROVE Sf!MadeInv'
  BY <1>0, <1>4, SplitFormConstants DEF Sf!OpenNew, Sf!Opened, Sf!Seeded, Sf!EmptyForm, Sf!EachOnce, Sf!Self, Sf!Cleared
<1>5. ASSUME NEW g \in splitGroups \cup {None}, Sf!HandleGroupChange(g) PROVE Sf!MadeInv'
  BY <1>0, <1>5, SplitFormConstants DEF Sf!HandleGroupChange, Sf!Change, Sf!Reseeded, Sf!Seeded, Sf!EachOnce,
    Sf!Self, Sf!Cleared
<1>6. ASSUME NEW e \in splitExpenses, Sf!LoadSplitExpenseForEdit(e) PROVE Sf!MadeInv'
  BY <1>0, <1>6, SplitFormConstants DEF Sf!LoadSplitExpenseForEdit, Sf!Opened, Sf!Cleared
<1>7. ASSUME NEW p \in Sf!People, Sf!AddParticipant(p) PROVE Sf!MadeInv'
  BY <1>0, <1>7, SplitFormConstants DEF Sf!AddParticipant, Sf!Change, Sf!Added, Sf!Cleared, Sf!Candidates, Sf!Self
<1>8. ASSUME NEW p \in Sf!People, Sf!RemoveParticipant(p) PROVE Sf!MadeInv'
  BY <1>0, <1>8, SplitFormConstants DEF Sf!RemoveParticipant, Sf!Change, Sf!Removed, Sf!Cleared
<1>9. ASSUME NEW p \in Sf!People, Sf!SetPayer(p) PROVE Sf!MadeInv'
  BY <1>0, <1>9, SplitFormConstants DEF Sf!SetPayer, Sf!Change, Sf!Cleared
<1>10. ASSUME NEW b \in BOOLEAN, Sf!SetExtras(b) PROVE Sf!MadeInv'
  BY <1>0, <1>10, SplitFormConstants DEF Sf!SetExtras, Sf!Change, Sf!Cleared
<1>11. ASSUME NEW b \in BOOLEAN, Sf!FillTexts(b) PROVE Sf!MadeInv'
  BY <1>0, <1>11, SplitFormConstants DEF Sf!FillTexts, Sf!Change, Sf!Cleared
<1>12. ASSUME NEW s \in v8, Sf!HearSaved(s) PROVE Sf!MadeInv'
  BY <1>0, <1>12, SplitFormConstants DEF Sf!HearSaved
<1>13. ASSUME NEW s \in v8, Sf!HearRefused(s) PROVE Sf!MadeInv'
  BY <1>0, <1>13, SplitFormConstants DEF Sf!HearRefused, Sf!Down
<1> QED BY SplitFormConstants, <1>1, <1>2, <1>3, <1>4, <1>5, <1>6, <1>7, <1>8, <1>9, <1>10, <1>11,
  <1>12, <1>13 DEF Sf!Next

(* Every step leaves each participant once. *)
LEMMA SplitFormNobodyTwice ==
  ASSUME Sf!SplitFormAssumption, Sf!IInv, Sf!Next
  PROVE Sf!NobodyTwice'
<1> USE DEF Sf!NobodyTwice, Sf!FormType, Sf!SelfInv
<1>0. Sf!NobodyTwice /\ Sf!FormType /\ Sf!SelfInv BY DEF Sf!IInv
<1>1. CASE Sf!LoadGroups \/ Sf!LoadLinks
  <2>1. Sf!Learn BY <1>1 DEF Sf!LoadGroups, Sf!LoadLinks
  <2>2. \/ v5'.parts = v5.parts /\ v5'.payer = v5.payer
        \/ splitMe \notin Sf!TakePart(v5) /\ v5'.parts = [v5.parts EXCEPT ![splitMe] = @ + 1] /\ v5'.payer = splitMe
    BY <1>0, <2>1, LearnIs
  <2> QED BY <1>0, <2>2, SplitFormConstants
<1>2. CASE Sf!Close
  BY <1>0, <1>2, SplitFormConstants DEF Sf!Close
<1>3. CASE Sf!Submit
  BY <1>0, <1>3, SplitFormConstants DEF Sf!Submit, Sf!Free
<1>4. ASSUME NEW g \in splitGroups \cup {None}, Sf!OpenNew(g) PROVE Sf!NobodyTwice'
  BY <1>0, <1>4, SplitFormConstants DEF Sf!OpenNew, Sf!Opened, Sf!Seeded, Sf!EmptyForm, Sf!EachOnce, Sf!Self, Sf!Cleared
<1>5. ASSUME NEW g \in splitGroups \cup {None}, Sf!HandleGroupChange(g) PROVE Sf!NobodyTwice'
  BY <1>0, <1>5, SplitFormConstants DEF Sf!HandleGroupChange, Sf!Change, Sf!Reseeded, Sf!Seeded, Sf!EachOnce,
    Sf!Self, Sf!Cleared
<1>6. ASSUME NEW e \in splitExpenses, Sf!LoadSplitExpenseForEdit(e) PROVE Sf!NobodyTwice'
  BY <1>0, <1>6, SplitFormConstants DEF Sf!LoadSplitExpenseForEdit, Sf!Opened, Sf!Cleared
<1>7. ASSUME NEW p \in Sf!People, Sf!AddParticipant(p) PROVE Sf!NobodyTwice'
  BY <1>0, <1>7, SplitFormConstants DEF Sf!AddParticipant, Sf!Change, Sf!Added, Sf!Cleared, Sf!Candidates, Sf!Self
<1>8. ASSUME NEW p \in Sf!People, Sf!RemoveParticipant(p) PROVE Sf!NobodyTwice'
  BY <1>0, <1>8, SplitFormConstants DEF Sf!RemoveParticipant, Sf!Change, Sf!Removed, Sf!Cleared
<1>9. ASSUME NEW p \in Sf!People, Sf!SetPayer(p) PROVE Sf!NobodyTwice'
  BY <1>0, <1>9, SplitFormConstants DEF Sf!SetPayer, Sf!Change, Sf!Cleared
<1>10. ASSUME NEW b \in BOOLEAN, Sf!SetExtras(b) PROVE Sf!NobodyTwice'
  BY <1>0, <1>10, SplitFormConstants DEF Sf!SetExtras, Sf!Change, Sf!Cleared
<1>11. ASSUME NEW b \in BOOLEAN, Sf!FillTexts(b) PROVE Sf!NobodyTwice'
  BY <1>0, <1>11, SplitFormConstants DEF Sf!FillTexts, Sf!Change, Sf!Cleared
<1>12. ASSUME NEW s \in v8, Sf!HearSaved(s) PROVE Sf!NobodyTwice'
  BY <1>0, <1>12, SplitFormConstants DEF Sf!HearSaved
<1>13. ASSUME NEW s \in v8, Sf!HearRefused(s) PROVE Sf!NobodyTwice'
  BY <1>0, <1>13, SplitFormConstants DEF Sf!HearRefused, Sf!Down
<1> QED BY SplitFormConstants, <1>1, <1>2, <1>3, <1>4, <1>5, <1>6, <1>7, <1>8, <1>9, <1>10, <1>11,
  <1>12, <1>13 DEF Sf!Next

(* I pay in a new form until I choose somebody else. *)
LEMMA SplitFormIPay ==
  ASSUME Sf!SplitFormAssumption, Sf!IInv, Sf!Next
  PROVE Sf!IPayUnlessISaidOtherwise'
<1> USE DEF Sf!IPayUnlessISaidOtherwise, Sf!FormType, Sf!SelfInv, Sf!NobodyTwice
<1>0. Sf!IPayUnlessISaidOtherwise /\ Sf!FormType /\ Sf!SelfInv /\ Sf!NobodyTwice BY DEF Sf!IInv
<1>1. CASE Sf!LoadGroups \/ Sf!LoadLinks
  BY <1>0, <1>1, SplitFormConstants DEF Sf!LoadGroups, Sf!LoadLinks, Sf!Learn, Sf!WithMe, Sf!Cleared
<1>2. CASE Sf!Close
  BY <1>0, <1>2, SplitFormConstants DEF Sf!Close
<1>3. CASE Sf!Submit
  BY <1>0, <1>3, SplitFormConstants DEF Sf!Submit, Sf!Free
<1>4. ASSUME NEW g \in splitGroups \cup {None}, Sf!OpenNew(g) PROVE Sf!IPayUnlessISaidOtherwise'
  BY <1>0, <1>4, SplitFormConstants DEF Sf!OpenNew, Sf!Opened, Sf!Seeded, Sf!EmptyForm, Sf!EachOnce, Sf!Self, Sf!Cleared
<1>5. ASSUME NEW g \in splitGroups \cup {None}, Sf!HandleGroupChange(g) PROVE Sf!IPayUnlessISaidOtherwise'
  BY <1>0, <1>5, SplitFormConstants DEF Sf!HandleGroupChange, Sf!Change, Sf!Reseeded, Sf!Seeded, Sf!EachOnce,
    Sf!Self, Sf!Cleared
<1>6. ASSUME NEW e \in splitExpenses, Sf!LoadSplitExpenseForEdit(e) PROVE Sf!IPayUnlessISaidOtherwise'
  BY <1>0, <1>6, SplitFormConstants DEF Sf!LoadSplitExpenseForEdit, Sf!Opened, Sf!Cleared
<1>7. ASSUME NEW p \in Sf!People, Sf!AddParticipant(p) PROVE Sf!IPayUnlessISaidOtherwise'
  BY <1>0, <1>7, SplitFormConstants DEF Sf!AddParticipant, Sf!Change, Sf!Added, Sf!Cleared, Sf!Candidates, Sf!Self
<1>8. ASSUME NEW p \in Sf!People, Sf!RemoveParticipant(p) PROVE Sf!IPayUnlessISaidOtherwise'
  BY <1>0, <1>8, SplitFormConstants DEF Sf!RemoveParticipant, Sf!Change, Sf!Removed, Sf!Cleared
<1>9. ASSUME NEW p \in Sf!People, Sf!SetPayer(p) PROVE Sf!IPayUnlessISaidOtherwise'
  BY <1>0, <1>9, SplitFormConstants DEF Sf!SetPayer, Sf!Change, Sf!Cleared
<1>10. ASSUME NEW b \in BOOLEAN, Sf!SetExtras(b) PROVE Sf!IPayUnlessISaidOtherwise'
  BY <1>0, <1>10, SplitFormConstants DEF Sf!SetExtras, Sf!Change, Sf!Cleared
<1>11. ASSUME NEW b \in BOOLEAN, Sf!FillTexts(b) PROVE Sf!IPayUnlessISaidOtherwise'
  BY <1>0, <1>11, SplitFormConstants DEF Sf!FillTexts, Sf!Change, Sf!Cleared
<1>12. ASSUME NEW s \in v8, Sf!HearSaved(s) PROVE Sf!IPayUnlessISaidOtherwise'
  BY <1>0, <1>12, SplitFormConstants DEF Sf!HearSaved
<1>13. ASSUME NEW s \in v8, Sf!HearRefused(s) PROVE Sf!IPayUnlessISaidOtherwise'
  BY <1>0, <1>13, SplitFormConstants DEF Sf!HearRefused, Sf!Down
<1> QED BY SplitFormConstants, <1>1, <1>2, <1>3, <1>4, <1>5, <1>6, <1>7, <1>8, <1>9, <1>10, <1>11,
  <1>12, <1>13 DEF Sf!Next

(* The participants in a group are its members. *)
LEMMA SplitFormMembers ==
  ASSUME Sf!SplitFormAssumption, Sf!IInv, Sf!Next
  PROVE Sf!MembersOnly'
<1> USE DEF Sf!MembersOnly, Sf!FormType, Sf!NobodyTwice
<1>0. Sf!MembersOnly /\ Sf!FormType /\ Sf!NobodyTwice BY DEF Sf!IInv
<1>1. CASE Sf!LoadGroups \/ Sf!LoadLinks
  BY <1>0, <1>1, SplitFormConstants DEF Sf!LoadGroups, Sf!LoadLinks, Sf!Learn, Sf!WithMe, Sf!Cleared
<1>2. CASE Sf!Close
  BY <1>0, <1>2, SplitFormConstants DEF Sf!Close
<1>3. CASE Sf!Submit
  BY <1>0, <1>3, SplitFormConstants DEF Sf!Submit, Sf!Free
<1>4. ASSUME NEW g \in splitGroups \cup {None}, Sf!OpenNew(g) PROVE Sf!MembersOnly'
  BY <1>0, <1>4, SplitFormConstants DEF Sf!OpenNew, Sf!Opened, Sf!Seeded, Sf!EmptyForm, Sf!EachOnce, Sf!Self, Sf!Cleared
<1>5. ASSUME NEW g \in splitGroups \cup {None}, Sf!HandleGroupChange(g) PROVE Sf!MembersOnly'
  BY <1>0, <1>5, SplitFormConstants DEF Sf!HandleGroupChange, Sf!Change, Sf!Reseeded, Sf!Seeded, Sf!EachOnce,
    Sf!Self, Sf!Cleared
<1>6. ASSUME NEW e \in splitExpenses, Sf!LoadSplitExpenseForEdit(e) PROVE Sf!MembersOnly'
  BY <1>0, <1>6, SplitFormConstants DEF Sf!LoadSplitExpenseForEdit, Sf!Opened, Sf!Cleared
<1>7. ASSUME NEW p \in Sf!People, Sf!AddParticipant(p) PROVE Sf!MembersOnly'
  <2>1. UNCHANGED <<v1, v2, v3>> /\ v12' = (v12 \/ ~v1) BY <1>7 DEF
    Sf!AddParticipant, Sf!Change
  <2>2. /\ v5'.group = v5.group /\ v5'.parts = [v5.parts EXCEPT ![p] = @ + 1] /\ p \in Sf!Candidates
    BY <1>0, <1>7, AddIs
  <2>3. Sf!TakePart(v5)' \subseteq Sf!TakePart(v5) \cup {p} BY <1>0, <2>2
  <2> HIDE DEF Sf!TakePart
  <2> QED BY <1>0, <2>1, <2>2, <2>3 DEF Sf!Candidates
<1>8. ASSUME NEW p \in Sf!People, Sf!RemoveParticipant(p) PROVE Sf!MembersOnly'
  BY <1>0, <1>8, SplitFormConstants DEF Sf!RemoveParticipant, Sf!Change, Sf!Removed, Sf!Cleared
<1>9. ASSUME NEW p \in Sf!People, Sf!SetPayer(p) PROVE Sf!MembersOnly'
  BY <1>0, <1>9, SplitFormConstants DEF Sf!SetPayer, Sf!Change, Sf!Cleared
<1>10. ASSUME NEW b \in BOOLEAN, Sf!SetExtras(b) PROVE Sf!MembersOnly'
  BY <1>0, <1>10, SplitFormConstants DEF Sf!SetExtras, Sf!Change, Sf!Cleared
<1>11. ASSUME NEW b \in BOOLEAN, Sf!FillTexts(b) PROVE Sf!MembersOnly'
  BY <1>0, <1>11, SplitFormConstants DEF Sf!FillTexts, Sf!Change, Sf!Cleared
<1>12. ASSUME NEW s \in v8, Sf!HearSaved(s) PROVE Sf!MembersOnly'
  BY <1>0, <1>12, SplitFormConstants DEF Sf!HearSaved
<1>13. ASSUME NEW s \in v8, Sf!HearRefused(s) PROVE Sf!MembersOnly'
  BY <1>0, <1>13, SplitFormConstants DEF Sf!HearRefused, Sf!Down
<1> QED BY SplitFormConstants, <1>1, <1>2, <1>3, <1>4, <1>5, <1>6, <1>7, <1>8, <1>9, <1>10, <1>11,
  <1>12, <1>13 DEF Sf!Next

(* What is sent has extras only if I pay. *)
LEMMA SplitFormExtras ==
  ASSUME Sf!SplitFormAssumption, Sf!IInv, Sf!Next
  PROVE Sf!ExtrasOnlyOfMine'
<1> USE DEF Sf!ExtrasOnlyOfMine, Sf!FormType, Sf!SelfInv
<1>0. Sf!ExtrasOnlyOfMine /\ Sf!FormType /\ Sf!SelfInv BY DEF Sf!IInv
<1>1. CASE Sf!LoadGroups \/ Sf!LoadLinks
  BY <1>0, <1>1, SplitFormConstants DEF Sf!LoadGroups, Sf!LoadLinks, Sf!Learn, Sf!WithMe, Sf!Cleared
<1>2. CASE Sf!Close
  BY <1>0, <1>2, SplitFormConstants DEF Sf!Close
<1>3. CASE Sf!Submit
  BY <1>0, <1>3, SplitFormConstants DEF Sf!Submit, Sf!Free
<1>4. ASSUME NEW g \in splitGroups \cup {None}, Sf!OpenNew(g) PROVE Sf!ExtrasOnlyOfMine'
  BY <1>0, <1>4, SplitFormConstants DEF Sf!OpenNew, Sf!Opened, Sf!Seeded, Sf!EmptyForm, Sf!EachOnce, Sf!Self, Sf!Cleared
<1>5. ASSUME NEW g \in splitGroups \cup {None}, Sf!HandleGroupChange(g) PROVE Sf!ExtrasOnlyOfMine'
  BY <1>0, <1>5, SplitFormConstants DEF Sf!HandleGroupChange, Sf!Change, Sf!Reseeded, Sf!Seeded, Sf!EachOnce,
    Sf!Self, Sf!Cleared
<1>6. ASSUME NEW e \in splitExpenses, Sf!LoadSplitExpenseForEdit(e) PROVE Sf!ExtrasOnlyOfMine'
  BY <1>0, <1>6, SplitFormConstants DEF Sf!LoadSplitExpenseForEdit, Sf!Opened, Sf!Cleared
<1>7. ASSUME NEW p \in Sf!People, Sf!AddParticipant(p) PROVE Sf!ExtrasOnlyOfMine'
  BY <1>0, <1>7, SplitFormConstants DEF Sf!AddParticipant, Sf!Change, Sf!Added, Sf!Cleared, Sf!Candidates, Sf!Self
<1>8. ASSUME NEW p \in Sf!People, Sf!RemoveParticipant(p) PROVE Sf!ExtrasOnlyOfMine'
  BY <1>0, <1>8, SplitFormConstants DEF Sf!RemoveParticipant, Sf!Change, Sf!Removed, Sf!Cleared
<1>9. ASSUME NEW p \in Sf!People, Sf!SetPayer(p) PROVE Sf!ExtrasOnlyOfMine'
  BY <1>0, <1>9, SplitFormConstants DEF Sf!SetPayer, Sf!Change, Sf!Cleared
<1>10. ASSUME NEW b \in BOOLEAN, Sf!SetExtras(b) PROVE Sf!ExtrasOnlyOfMine'
  BY <1>0, <1>10, SplitFormConstants DEF Sf!SetExtras, Sf!Change, Sf!Cleared
<1>11. ASSUME NEW b \in BOOLEAN, Sf!FillTexts(b) PROVE Sf!ExtrasOnlyOfMine'
  BY <1>0, <1>11, SplitFormConstants DEF Sf!FillTexts, Sf!Change, Sf!Cleared
<1>12. ASSUME NEW s \in v8, Sf!HearSaved(s) PROVE Sf!ExtrasOnlyOfMine'
  BY <1>0, <1>12, SplitFormConstants DEF Sf!HearSaved
<1>13. ASSUME NEW s \in v8, Sf!HearRefused(s) PROVE Sf!ExtrasOnlyOfMine'
  BY <1>0, <1>13, SplitFormConstants DEF Sf!HearRefused, Sf!Down
<1> QED BY SplitFormConstants, <1>1, <1>2, <1>3, <1>4, <1>5, <1>6, <1>7, <1>8, <1>9, <1>10, <1>11,
  <1>12, <1>13 DEF Sf!Next

(* One form creates one expense at most. *)
LEMMA SplitFormOnce ==
  ASSUME Sf!SplitFormAssumption, Sf!IInv, Sf!Next
  PROVE Sf!OneExpensePerForm'
<1> USE DEF Sf!OneExpensePerForm, Sf!FormType, Sf!RequestType, Sf!MadeInv
<1>0. Sf!OneExpensePerForm /\ Sf!FormType /\ Sf!RequestType /\ Sf!MadeInv BY DEF Sf!IInv
<1>1. CASE Sf!LoadGroups \/ Sf!LoadLinks
  BY <1>0, <1>1, SplitFormConstants DEF Sf!LoadGroups, Sf!LoadLinks, Sf!Learn, Sf!WithMe, Sf!Cleared
<1>2. CASE Sf!Close
  BY <1>0, <1>2, SplitFormConstants DEF Sf!Close
<1>3. CASE Sf!Submit
  BY <1>0, <1>3, SplitFormConstants DEF Sf!Submit, Sf!Free
<1>4. ASSUME NEW g \in splitGroups \cup {None}, Sf!OpenNew(g) PROVE Sf!OneExpensePerForm'
  BY <1>0, <1>4, SplitFormConstants DEF Sf!OpenNew, Sf!Opened, Sf!Seeded, Sf!EmptyForm, Sf!EachOnce, Sf!Self, Sf!Cleared
<1>5. ASSUME NEW g \in splitGroups \cup {None}, Sf!HandleGroupChange(g) PROVE Sf!OneExpensePerForm'
  BY <1>0, <1>5, SplitFormConstants DEF Sf!HandleGroupChange, Sf!Change, Sf!Reseeded, Sf!Seeded, Sf!EachOnce,
    Sf!Self, Sf!Cleared
<1>6. ASSUME NEW e \in splitExpenses, Sf!LoadSplitExpenseForEdit(e) PROVE Sf!OneExpensePerForm'
  BY <1>0, <1>6, SplitFormConstants DEF Sf!LoadSplitExpenseForEdit, Sf!Opened, Sf!Cleared
<1>7. ASSUME NEW p \in Sf!People, Sf!AddParticipant(p) PROVE Sf!OneExpensePerForm'
  BY <1>0, <1>7, SplitFormConstants DEF Sf!AddParticipant, Sf!Change, Sf!Added, Sf!Cleared, Sf!Candidates, Sf!Self
<1>8. ASSUME NEW p \in Sf!People, Sf!RemoveParticipant(p) PROVE Sf!OneExpensePerForm'
  BY <1>0, <1>8, SplitFormConstants DEF Sf!RemoveParticipant, Sf!Change, Sf!Removed, Sf!Cleared
<1>9. ASSUME NEW p \in Sf!People, Sf!SetPayer(p) PROVE Sf!OneExpensePerForm'
  BY <1>0, <1>9, SplitFormConstants DEF Sf!SetPayer, Sf!Change, Sf!Cleared
<1>10. ASSUME NEW b \in BOOLEAN, Sf!SetExtras(b) PROVE Sf!OneExpensePerForm'
  BY <1>0, <1>10, SplitFormConstants DEF Sf!SetExtras, Sf!Change, Sf!Cleared
<1>11. ASSUME NEW b \in BOOLEAN, Sf!FillTexts(b) PROVE Sf!OneExpensePerForm'
  BY <1>0, <1>11, SplitFormConstants DEF Sf!FillTexts, Sf!Change, Sf!Cleared
<1>12. ASSUME NEW s \in v8, Sf!HearSaved(s) PROVE Sf!OneExpensePerForm'
  BY <1>0, <1>12, SplitFormConstants DEF Sf!HearSaved
<1>13. ASSUME NEW s \in v8, Sf!HearRefused(s) PROVE Sf!OneExpensePerForm'
  BY <1>0, <1>13, SplitFormConstants DEF Sf!HearRefused, Sf!Down
<1> QED BY SplitFormConstants, <1>1, <1>2, <1>3, <1>4, <1>5, <1>6, <1>7, <1>8, <1>9, <1>10, <1>11,
  <1>12, <1>13 DEF Sf!Next

(* The invariant holds at first. *)
LEMMA SplitFormInit ==
  ASSUME Sf!SplitFormAssumption, Sf!Init
  PROVE Sf!IInv
<1>1. Sf!FormType BY SplitFormConstants DEF Sf!Init, Sf!FormType, Sf!EmptyForm, Sf!EachOnce
<1>2. Sf!RequestType
  <2>1. v7 \in 0..splitMaxOpenings BY SplitFormConstants DEF Sf!Init
  <2>2. v10 \in [1..splitMaxOpenings -> Nat] BY SplitFormConstants DEF Sf!Init
  <2> QED BY <2>1, <2>2 DEF Sf!Init, Sf!RequestType
<1>3. Sf!SelfInv BY SplitFormConstants DEF Sf!Init, Sf!SelfInv, Sf!EmptyForm, Sf!EachOnce
<1>4. Sf!MadeInv BY SplitFormConstants DEF Sf!Init, Sf!MadeInv, Sf!EmptyForm, Sf!EachOnce
<1>5. Sf!NobodyTwice BY SplitFormConstants DEF Sf!Init, Sf!NobodyTwice, Sf!EmptyForm, Sf!EachOnce
<1>6. Sf!IPayUnlessISaidOtherwise BY SplitFormConstants DEF Sf!Init, Sf!IPayUnlessISaidOtherwise,
  Sf!EmptyForm, Sf!EachOnce
<1>7. Sf!MembersOnly BY SplitFormConstants DEF Sf!Init, Sf!MembersOnly, Sf!EmptyForm, Sf!EachOnce
<1>8. Sf!ExtrasOnlyOfMine BY SplitFormConstants DEF Sf!Init, Sf!ExtrasOnlyOfMine, Sf!EmptyForm, Sf!EachOnce
<1>9. Sf!OneExpensePerForm BY SplitFormConstants DEF Sf!Init, Sf!OneExpensePerForm, Sf!EmptyForm, Sf!EachOnce
<1> QED BY <1>1, <1>2, <1>3, <1>4, <1>5, <1>6, <1>7, <1>8, <1>9 DEF Sf!IInv

(* The invariant survives a step of another section. *)
LEMMA SplitFormStays ==
  ASSUME Sf!IInv, UNCHANGED Sf!vars
  PROVE Sf!IInv'
<1>1. Sf!FormType' BY DEF Sf!IInv, Sf!vars, Sf!FormType, Sf!sending, Sf!TakePart, Sf!PayerIsSelf
<1>2. Sf!RequestType' BY DEF Sf!IInv, Sf!vars, Sf!RequestType, Sf!sending, Sf!TakePart, Sf!PayerIsSelf
<1>3. Sf!SelfInv' BY DEF Sf!IInv, Sf!vars, Sf!SelfInv, Sf!sending, Sf!TakePart, Sf!PayerIsSelf
<1>4. Sf!MadeInv' BY DEF Sf!IInv, Sf!vars, Sf!MadeInv, Sf!sending, Sf!TakePart, Sf!PayerIsSelf
<1>5. Sf!NobodyTwice' BY DEF Sf!IInv, Sf!vars, Sf!NobodyTwice, Sf!sending, Sf!TakePart, Sf!PayerIsSelf
<1>6. Sf!IPayUnlessISaidOtherwise' BY DEF Sf!IInv, Sf!vars, Sf!IPayUnlessISaidOtherwise, Sf!sending, Sf!TakePart,
  Sf!PayerIsSelf
<1>7. Sf!MembersOnly' BY DEF Sf!IInv, Sf!vars, Sf!MembersOnly, Sf!sending, Sf!TakePart, Sf!PayerIsSelf
<1>8. Sf!ExtrasOnlyOfMine' BY DEF Sf!IInv, Sf!vars, Sf!ExtrasOnlyOfMine, Sf!sending, Sf!TakePart, Sf!PayerIsSelf
<1>9. Sf!OneExpensePerForm' BY DEF Sf!IInv, Sf!vars, Sf!OneExpensePerForm, Sf!sending, Sf!TakePart, Sf!PayerIsSelf
<1> QED BY <1>1, <1>2, <1>3, <1>4, <1>5, <1>6, <1>7, <1>8, <1>9 DEF Sf!IInv

(* Every step of the section keeps the invariant. *)
LEMMA SplitFormStep ==
  ASSUME Sf!SplitFormAssumption, Sf!IInv, Sf!Next \/ UNCHANGED Sf!vars
  PROVE Sf!IInv'
<1>1. CASE Sf!Next BY <1>1, SplitFormType, SplitFormRequests, SplitFormSelf, SplitFormMade,
  SplitFormNobodyTwice, SplitFormIPay, SplitFormMembers, SplitFormExtras, SplitFormOnce DEF Sf!IInv
<1>2. CASE UNCHANGED Sf!vars BY <1>2, SplitFormStays
<1> QED BY <1>1, <1>2

HIDE DEF Sf!sending, Sf!FormsOf, Sf!PayerIsSelf, Sf!TakePart

(***************************************************************************)
(* The templates of recurring split expenses                               *)
(***************************************************************************)
USE DEF St!list, St!sheet, St!flags

(* What the constants are. *)
LEMMA TemplatesConstants ==
  St!TemplatesAssumption =>
    /\ tmplMaxOpenings \in Nat /\ tmplMaxOps \in Nat /\ tmplMaxLoads \in Nat /\ tmplExpired \subseteq tmplTemplates
    /\ None \notin tmplTemplates /\ None \notin St!People
    /\ "new" \notin tmplTemplates /\ "ok" \notin tmplTemplates /\ "error" \notin tmplTemplates
    /\ None # "new" /\ None # "ok" /\ None # "error" /\ None \notin St!Status
BY DEF St!TemplatesAssumption, St!People, St!Status

(* A request o is sent: what its buttons check, what it carries. *)
Sent(o) ==
  /\ v5' = v5 \cup {o} /\ o.opening = v10 /\ o.result = None
  /\ (o.extras <=> v8.extras /\ v9 = "new") /\ (o.mine <=> St!PayerIsSelf(v8))
  /\ v6 < tmplMaxOps /\ v6' = v6 + 1
  /\ v7' = (v7 \/ v3 # {} \/ \E p \in v5 : p.id = o.id)
  /\ UNCHANGED <<v1, St!list, St!sheet, v15, v14>>
  /\ \/ /\ v9 # None /\ ~v11 /\ v11' = TRUE /\ UNCHANGED <<v12, v13>>
        /\ IF v9 = "new" THEN o.kind = "create" /\ o.id = None ELSE o.kind = "edit" /\ o.id = v9
     \/ /\ ~v12 /\ v12' = TRUE /\ UNCHANGED <<v11, v13>>
        /\ o.kind = "generate" /\ o.id = None
     \/ /\ ~v13 /\ v13' = TRUE /\ UNCHANGED <<v11, v12>>
        /\ o.kind = "delete" /\ o.id = v14 /\ v14 # None
     \/ /\ UNCHANGED St!flags
        /\ o.kind = "toggle" /\ o.id \in tmplTemplates /\ v2[o.id] # None

(* What Send puts on its way is a request of one kind for one template. *)
LEMMA SendIs ==
  ASSUME St!OpType, v6 \in Nat, v10 \in Nat, v8 \in St!Forms, NEW k \in St!Kinds,
         NEW t \in tmplTemplates \cup {None}, NEW e \in BOOLEAN, St!Send(k, t, e)
  PROVE \E o \in St!Ops : /\ v5' = v5 \cup {o} /\ o.kind = k /\ o.id = t
                          /\ o.opening = v10 /\ o.result = None
                          /\ (o.extras <=> v8.extras /\ v9 = "new") /\ (o.mine <=> St!PayerIsSelf(v8))
<1> DEFINE o == [n |-> v6 + 1, kind |-> k, id |-> t, enable |-> e,
                 opening |-> v10, extras |-> v8.extras /\ v9 = "new",
                 mine |-> St!PayerIsSelf(v8), result |-> None]
<1>1. v5' = v5 \cup {o} BY DEF St!Send
<1>2. o \in St!Ops BY DEF St!Ops, St!Forms, St!PayerIsSelf
<1>3. /\ o.kind = k /\ o.id = t /\ o.opening = v10 /\ o.result = None
      /\ (o.extras <=> v8.extras /\ v9 = "new") /\ (o.mine <=> St!PayerIsSelf(v8))
  OBVIOUS
<1> HIDE DEF o
<1> QED BY <1>1, <1>2, <1>3

(* Each button sends one such request. *)
LEMMA SentIs ==
  ASSUME St!TemplatesAssumption, St!SheetType, St!ListType, St!OpType,
         \/ St!HandleSubmit \/ St!HandleGenerate \/ St!HandleDelete
         \/ \E t \in tmplTemplates : St!ToggleSplitRecurring(t)
  PROVE \E o \in St!Ops : Sent(o)
<1>0. v6 \in Nat /\ v10 \in Nat /\ v8 \in St!Forms BY TemplatesConstants DEF St!SheetType, St!ListType
<1>1. CASE St!HandleSubmit
  <2>1. v9 # None /\ ~v11 /\ v11' = TRUE /\ UNCHANGED <<v12, v13, v14>>
    BY <1>1 DEF St!HandleSubmit, St!Free
  <2>2. CASE v9 = "new"
    <3>1. St!Send("create", None, FALSE) BY <1>1, <2>2 DEF St!HandleSubmit
    <3>2. PICK o \in St!Ops : /\ v5' = v5 \cup {o} /\ o.kind = "create" /\ o.id = None
                              /\ o.opening = v10 /\ o.result = None
                              /\ (o.extras <=> v8.extras /\ v9 = "new") /\ (o.mine <=> St!PayerIsSelf(v8))
      <4>1. "create" \in St!Kinds /\ "edit" \in St!Kinds /\ FALSE \in BOOLEAN /\ None \in tmplTemplates \cup {None}
            /\ (v9 \in tmplTemplates => v9 \in tmplTemplates \cup {None})
        BY DEF St!Kinds, St!Saves
      <4> HIDE DEF St!Kinds, St!Ops, St!Forms
      <4> QED BY <1>0, <3>1, <4>1, SendIs
    <3>3. Sent(o) BY <2>1, <2>2, <3>1, <3>2 DEF Sent, St!Send
    <3> QED BY <3>3
  <2>3. CASE v9 # "new"
    <3>1. St!Send("edit", v9, FALSE) /\ v9 \in tmplTemplates BY <1>1, <2>1, <2>3 DEF St!HandleSubmit, St!SheetType
    <3>2. PICK o \in St!Ops : /\ v5' = v5 \cup {o} /\ o.kind = "edit" /\ o.id = v9
                              /\ o.opening = v10 /\ o.result = None
                              /\ (o.extras <=> v8.extras /\ v9 = "new") /\ (o.mine <=> St!PayerIsSelf(v8))
      <4>1. "create" \in St!Kinds /\ "edit" \in St!Kinds /\ FALSE \in BOOLEAN /\ None \in tmplTemplates \cup {None}
            /\ (v9 \in tmplTemplates => v9 \in tmplTemplates \cup {None})
        BY DEF St!Kinds, St!Saves
      <4> HIDE DEF St!Kinds, St!Ops, St!Forms
      <4> QED BY <1>0, <3>1, <4>1, SendIs
    <3>3. Sent(o) BY <2>1, <2>3, <3>1, <3>2 DEF Sent, St!Send
    <3> QED BY <3>3
  <2> QED BY <2>2, <2>3
<1>2. CASE St!HandleGenerate
  <2>1. St!Send("generate", None, FALSE) /\ ~v12 /\ v12' = TRUE
        /\ UNCHANGED <<v11, v13, v14>>
    BY <1>2 DEF St!HandleGenerate, St!Free
  <2>2. PICK o \in St!Ops : /\ v5' = v5 \cup {o} /\ o.kind = "generate" /\ o.id = None
                            /\ o.opening = v10 /\ o.result = None
                            /\ (o.extras <=> v8.extras /\ v9 = "new") /\ (o.mine <=> St!PayerIsSelf(v8))
    <3>1. "generate" \in St!Kinds /\ "delete" \in St!Kinds /\ FALSE \in BOOLEAN /\ None \in tmplTemplates \cup {None}
          /\ (v14 \in tmplTemplates => v14 \in tmplTemplates \cup {None})
      BY DEF St!Kinds
    <3> QED BY <1>0, <2>1, <3>1, SendIs
  <2>3. Sent(o) BY <2>1, <2>2 DEF Sent, St!Send
  <2> QED BY <2>3
<1>3. CASE St!HandleDelete
  <2>1. St!Send("delete", v14, FALSE) /\ ~v13 /\ v13' = TRUE /\ v14 # None /\ v14 \in tmplTemplates
        /\ UNCHANGED <<v11, v12, v14>>
    BY <1>3 DEF St!HandleDelete, St!Free, St!SheetType
  <2>2. PICK o \in St!Ops : /\ v5' = v5 \cup {o} /\ o.kind = "delete" /\ o.id = v14
                            /\ o.opening = v10 /\ o.result = None
                            /\ (o.extras <=> v8.extras /\ v9 = "new") /\ (o.mine <=> St!PayerIsSelf(v8))
    <3>1. "generate" \in St!Kinds /\ "delete" \in St!Kinds /\ FALSE \in BOOLEAN /\ None \in tmplTemplates \cup {None}
          /\ (v14 \in tmplTemplates => v14 \in tmplTemplates \cup {None})
      BY DEF St!Kinds
    <3> QED BY <1>0, <2>1, <3>1, SendIs
  <2>3. Sent(o) BY <2>1, <2>2 DEF Sent, St!Send
  <2> QED BY <2>3
<1>4. ASSUME NEW t \in tmplTemplates, St!ToggleSplitRecurring(t) PROVE \E o \in St!Ops : Sent(o)
  <2> DEFINE e == v2[t] # "ACTIVE"
  <2>1. St!Send("toggle", t, e) /\ v2[t] # None /\ UNCHANGED <<St!flags, v14>>
    BY <1>4 DEF St!ToggleSplitRecurring
  <2>2. e \in BOOLEAN OBVIOUS
  <2> HIDE DEF e
  <2>3. PICK o \in St!Ops : /\ v5' = v5 \cup {o} /\ o.kind = "toggle" /\ o.id = t
                            /\ o.opening = v10 /\ o.result = None
                            /\ (o.extras <=> v8.extras /\ v9 = "new") /\ (o.mine <=> St!PayerIsSelf(v8))
    <3>1. "toggle" \in St!Kinds /\ t \in tmplTemplates \cup {None} BY DEF St!Kinds
    <3> QED BY <1>0, <2>1, <2>2, <3>1, SendIs
  <2>4. Sent(o) BY <2>1, <2>3 DEF Sent, St!Send
  <2> QED BY <2>4
<1> QED BY <1>1, <1>2, <1>3, <1>4

(* The server answers o: it is p afterwards. *)
ServedAs(o, p) ==
  /\ v5' = (v5 \ {o}) \cup {p} /\ o.result = None /\ p.kind = o.kind /\ p.id = o.id
  /\ p.enable = o.enable /\ p.opening = o.opening /\ (p.extras <=> o.extras) /\ (p.mine <=> o.mine)
  /\ p.result \in {"ok", "error"} \cup {t \in tmplTemplates : St!Unused(t)}
  /\ o.kind = "create" => p.result # "ok"
  /\ o.kind # "create" => p.result \in {"ok", "error"}
  /\ IF p.result = "error" \/ (o.id # None /\ v1[o.id] = None)
     THEN UNCHANGED <<v1, v15>>
     ELSE /\ v1' = CASE o.kind = "create" -> [v1 EXCEPT ![p.result] = St!Switched(p.result, TRUE)]
                         [] o.kind = "delete" -> [v1 EXCEPT ![o.id] = None]
                         [] o.kind = "toggle" -> [v1 EXCEPT ![o.id] = St!Switched(o.id, o.enable)]
                         [] OTHER -> v1
          /\ v15' = IF o.kind = "create" THEN [v15 EXCEPT ![o.opening] = @ + 1] ELSE v15
  /\ UNCHANGED <<St!list, v6, v7, St!sheet, St!flags, v14>>

(* Serving a request marks it as answered and changes nothing else of it. *)
LEMMA ServedIs ==
  ASSUME St!TemplatesAssumption, St!OpType, NEW o \in v5, St!Serve(o)
  PROVE \E p \in St!Ops : ServedAs(o, p)
<1>1. PICK r \in (IF o.kind = "create" THEN {t \in tmplTemplates : St!Unused(t)} ELSE {"ok"}) \cup {"error"} :
       /\ v5' = (v5 \ {o}) \cup {[o EXCEPT !.result = r]}
       /\ IF r = "error" \/ (o.id # None /\ v1[o.id] = None)
          THEN UNCHANGED <<v1, v15>>
          ELSE /\ v1' = CASE o.kind = "create" -> [v1 EXCEPT ![r] = St!Switched(r, TRUE)]
                              [] o.kind = "delete" -> [v1 EXCEPT ![o.id] = None]
                              [] o.kind = "toggle" -> [v1 EXCEPT ![o.id] = St!Switched(o.id, o.enable)]
                              [] OTHER -> v1
               /\ v15' = IF o.kind = "create" THEN [v15 EXCEPT ![o.opening] = @ + 1] ELSE v15
  BY DEF St!Serve
<1> DEFINE p == [o EXCEPT !.result = r]
<1>2. o \in St!Ops /\ o.result = None /\ UNCHANGED <<St!list, v6, v7, St!sheet, St!flags, v14>>
  BY DEF St!OpType, St!Serve
<1>3. r \in {"ok", "error"} \cup {t \in tmplTemplates : St!Unused(t)} /\ (o.kind = "create" => r # "ok")
      /\ (o.kind # "create" => r \in {"ok", "error"})
  BY <1>1, TemplatesConstants
<1>4. /\ p \in St!Ops /\ p.kind = o.kind /\ p.id = o.id /\ p.enable = o.enable /\ p.opening = o.opening
      /\ (p.extras <=> o.extras) /\ (p.mine <=> o.mine) /\ p.result = r
  <2>1. r \in tmplTemplates \cup {None, "ok", "error"} BY <1>3
  <2> QED BY <1>2, <2>1 DEF St!Ops
<1>5. v5' = (v5 \ {o}) \cup {p} BY <1>1
<1> HIDE DEF p
<1>6. ServedAs(o, p) BY <1>1, <1>2, <1>3, <1>4, <1>5 DEF ServedAs
<1> QED BY <1>4, <1>6

(* A form that is opened, or changed, as f says. *)
Fits(f) == f \in St!Forms /\ (f.payer # None => f.payer \in f.parts)
OpenedAs(f) ==
  Fits(f) /\ ((St!Opened("new", f) /\ ~f.extras) \/ \E t \in tmplTemplates : St!Opened(t, f))
ChangedTo(f) == Fits(f) /\ St!Change(f) /\ (f.extras => v8.extras \/ St!PayerIsSelf(v8))

(* Clearing the extras leaves the rest of a template; my extras stay while I pay. *)
LEMMA TemplateClearedIs ==
  ASSUME NEW f \in St!Forms
  PROVE /\ St!Cleared(f) \in St!Forms /\ St!Cleared(f).parts = f.parts /\ St!Cleared(f).payer = f.payer
        /\ St!Cleared(f).extras => f.extras /\ (St!PayerIsSelf(v8) => St!PayerIsSelf(f))
<1>1. CASE St!PayerIsSelf(v8) /\ ~St!PayerIsSelf(f)
  <2>1. St!Cleared(f) = [parts |-> f.parts, payer |-> f.payer, extras |-> FALSE] BY <1>1 DEF St!Cleared, St!Forms
  <2> QED BY <2>1 DEF St!Forms
<1>2. CASE ~(St!PayerIsSelf(v8) /\ ~St!PayerIsSelf(f)) BY <1>2 DEF St!Cleared
<1> QED BY <1>1, <1>2

(* The sheet opens on a form of the template, or on an empty one. *)
LEMMA OpenedIs ==
  ASSUME St!TemplatesAssumption, St!OpenCreateForm \/ \E t \in tmplTemplates : St!OpenEditForm(t)
  PROVE \E f \in St!Forms : OpenedAs(f)
<1>1. CASE St!OpenCreateForm
  <2>1. PICK p \in St!People : St!Opened("new", [parts |-> St!People, payer |-> p, extras |-> FALSE])
    BY <1>1 DEF St!OpenCreateForm
  <2> DEFINE f == [parts |-> St!People, payer |-> p, extras |-> FALSE]
  <2>2. Fits(f) /\ ~f.extras BY DEF Fits, St!Forms
  <2>3. St!Opened("new", f) BY <2>1
  <2> HIDE DEF f
  <2> QED BY <2>2, <2>3 DEF OpenedAs, Fits
<1>2. ASSUME NEW t \in tmplTemplates, St!OpenEditForm(t) PROVE \E f \in St!Forms : OpenedAs(f)
  <2>1. PICK f \in St!Forms : f.payer # None /\ f.parts = St!People /\ St!Opened(t, f) BY <1>2 DEF St!OpenEditForm
  <2>2. Fits(f) BY <2>1 DEF Fits, St!Forms
  <2> QED BY <2>1, <2>2 DEF OpenedAs
<1> QED BY <1>1, <1>2

(* A form with other participants and another payer among them is a form. *)
LEMMA EditIs ==
  ASSUME NEW f \in St!Forms, NEW r \in SUBSET St!People, NEW q \in St!People \cup {None}, q # None => q \in r
  PROVE Fits([f EXCEPT !.parts = r, !.payer = q]) /\ [f EXCEPT !.parts = r, !.payer = q].extras = f.extras
<1>1. [f EXCEPT !.parts = r, !.payer = q] \in St!Forms BY DEF St!Forms
<1>2. [f EXCEPT !.parts = r, !.payer = q].extras = f.extras BY DEF St!Forms
<1>3. [f EXCEPT !.parts = r, !.payer = q].parts = r BY DEF St!Forms
<1>4. [f EXCEPT !.parts = r, !.payer = q].payer = q BY DEF St!Forms
<1> QED BY <1>1, <1>2, <1>3, <1>4 DEF Fits

(* Each field of the sheet leaves a form. *)
LEMMA ChangedIs ==
  ASSUME St!TemplatesAssumption, St!SheetType,
         \/ \E p \in St!People : St!AddParticipant(p) \/ St!RemoveParticipant(p) \/ St!SetPayer(p)
         \/ \E b \in BOOLEAN : St!SetExtras(b)
  PROVE \E f \in St!Forms : ChangedTo(f)
<1>0. v8 \in St!Forms /\ (v8.payer # None => v8.payer \in v8.parts) BY DEF St!SheetType
<1>1. ASSUME NEW p \in St!People, St!AddParticipant(p) PROVE \E f \in St!Forms : ChangedTo(f)
  <2> DEFINE q == IF v8.parts = {} THEN p ELSE v8.payer
             r == v8.parts \cup {p}
             f == [v8 EXCEPT !.parts = r, !.payer = q]
  <2>1. St!Change(f) BY <1>1, Zenon DEF St!AddParticipant
  <2>2. q \in St!People \cup {None} /\ (q # None => q \in r) /\ r \in SUBSET St!People BY <1>0 DEF St!Forms
  <2> HIDE DEF q, r
  <2>3. Fits(f) /\ f.extras = v8.extras BY <1>0, <2>2, EditIs
  <2> HIDE DEF f
  <2> QED BY <2>1, <2>3 DEF ChangedTo, Fits
<1>2. ASSUME NEW p \in St!People, St!RemoveParticipant(p) PROVE \E f \in St!Forms : ChangedTo(f)
  <2> DEFINE q == IF v8.payer = p THEN None ELSE v8.payer
             r == v8.parts \ {p}
             f == [v8 EXCEPT !.parts = r, !.payer = q]
  <2>1. St!Change(f) BY <1>2, Zenon DEF St!RemoveParticipant
  <2>2. q \in St!People \cup {None} /\ (q # None => q \in r) /\ r \in SUBSET St!People BY <1>0 DEF St!Forms
  <2> HIDE DEF q, r
  <2>3. Fits(f) /\ f.extras = v8.extras BY <1>0, <2>2, EditIs
  <2> HIDE DEF f
  <2> QED BY <2>1, <2>3 DEF ChangedTo, Fits
<1>3. ASSUME NEW p \in St!People, St!SetPayer(p) PROVE \E f \in St!Forms : ChangedTo(f)
  <2> DEFINE f == [v8 EXCEPT !.payer = p]
  <2>1. St!Change(f) /\ p \in v8.parts BY <1>3 DEF St!SetPayer
  <2>2. f = [parts |-> v8.parts, payer |-> p, extras |-> v8.extras]
    <3>1. v8 = [parts |-> v8.parts, payer |-> v8.payer, extras |-> v8.extras] BY <1>0 DEF St!Forms
    <3> QED BY <3>1
  <2>3. Fits(f) /\ f.extras = v8.extras BY <1>0, <2>1, <2>2 DEF Fits, St!Forms
  <2> HIDE DEF f
  <2> QED BY <2>1, <2>3 DEF ChangedTo, Fits
<1>4. ASSUME NEW b \in BOOLEAN, St!SetExtras(b) PROVE \E f \in St!Forms : ChangedTo(f)
  <2> DEFINE f == [v8 EXCEPT !.extras = b]
  <2>1. St!Change(f) /\ St!PayerIsSelf(v8) BY <1>4 DEF St!SetExtras
  <2>2. f = [parts |-> v8.parts, payer |-> v8.payer, extras |-> b] BY <1>0 DEF St!Forms
  <2>3. Fits(f) BY <1>0, <2>2 DEF Fits, St!Forms
  <2> HIDE DEF f
  <2> QED BY <2>1, <2>3 DEF ChangedTo, Fits
<1> QED BY <1>1, <1>2, <1>3, <1>4

(* What a step of the templates may be. *)
LEMMA TemplatesCases ==
  ASSUME St!TemplatesAssumption, St!IInv, St!Next
  PROVE \/ St!LoadSplitRecurring \/ St!CloseForm \/ St!CloseQuestion
        \/ \E f \in St!Forms : OpenedAs(f) \/ ChangedTo(f)
        \/ \E o \in St!Ops : Sent(o)
        \/ \E l \in v3 : \E ok \in BOOLEAN : St!HearList(l, ok)
        \/ \E t \in tmplTemplates : St!AskDelete(t)
        \/ \E o \in v5 : St!Hear(o) \/ \E p \in St!Ops : ServedAs(o, p)
<1>0. St!SheetType /\ St!ListType /\ St!OpType BY DEF St!IInv
<1>1. CASE St!OpenCreateForm \/ \E t \in tmplTemplates : St!OpenEditForm(t) BY <1>1, OpenedIs
<1>2. CASE \/ \E p \in St!People : St!AddParticipant(p) \/ St!RemoveParticipant(p) \/ St!SetPayer(p)
           \/ \E b \in BOOLEAN : St!SetExtras(b)
  BY <1>0, <1>2, ChangedIs
<1>3. CASE \/ St!HandleSubmit \/ St!HandleGenerate \/ St!HandleDelete
           \/ \E t \in tmplTemplates : St!ToggleSplitRecurring(t)
  BY <1>0, <1>3, SentIs
<1>4. CASE \E o \in v5 : St!Serve(o) BY <1>0, <1>4, ServedIs
<1> QED BY <1>1, <1>2, <1>3, <1>4 DEF St!Next

(* What the requests of a step say of each other. *)
LEMMA SentFacts ==
  ASSUME St!TemplatesAssumption, St!SheetType, St!FlagType, NEW o \in St!Ops, Sent(o)
  PROVE /\ o.kind \in St!Saves => ~v11 /\ v11' /\ v9 # None
                               /\ \A q \in v5 : q.kind \notin St!Saves
        /\ o.kind \notin St!Saves => (v11' <=> v11)
        /\ o.kind = "generate" => ~v12 /\ v12' /\ \A q \in v5 : q.kind # "generate"
        /\ o.kind # "generate" => (v12' <=> v12)
        /\ o.kind = "delete" => ~v13 /\ v13' /\ (\A q \in v5 : q.kind # "delete") /\ o.id = v14
        /\ o.kind # "delete" => (v13' <=> v13)
        /\ o.kind = "create" <=> (o.kind \in St!Saves /\ v9 = "new")
        /\ o.kind \in {"delete", "toggle"} => o.id # None
        /\ IF o.kind \in {"create", "generate"} THEN o.id = None ELSE o.id \in tmplTemplates
        /\ o.kind = "toggle" => v2[o.id] # None
BY TemplatesConstants DEF Sent, St!FlagType, St!SheetType, St!Saves, St!flags

(* The list after an answer is a list. *)
LEMMA EditedIs ==
  ASSUME St!TemplatesAssumption, St!ListType, St!OpType, NEW o \in v5, St!Hear(o)
  PROVE v2' \in St!Lists
<1>0. v2 \in St!Lists /\ o \in St!Ops /\ v2' = St!Edited(o) /\ o.result # None BY DEF St!ListType, St!OpType, St!Hear
<1>1. CASE o.result = "error" \/ o.kind \in {"edit", "generate"} BY <1>0, <1>1 DEF St!Edited
<1>2. CASE o.result # "error" /\ o.kind = "create"
  BY <1>0, <1>2 DEF St!Edited, St!OpType, St!Lists, St!Switched, St!Status
<1>3. CASE o.result # "error" /\ o.kind = "delete"
  BY <1>0, <1>3 DEF St!Edited, St!OpType, St!Lists, St!Switched, St!Status
<1>4. CASE o.result # "error" /\ o.kind = "toggle"
  BY <1>0, <1>4 DEF St!Edited, St!OpType, St!Lists, St!Switched, St!Status, St!Answered
<1> QED BY <1>0, <1>1, <1>2, <1>3, <1>4 DEF St!Ops, St!Kinds, St!Saves

(* What serving a request does to the tables: the templates, and what each opening made. *)
LEMMA ServerIs ==
  ASSUME St!TemplatesAssumption, St!SheetType, St!ListType, St!OpType, NEW o \in v5, NEW p \in St!Ops, ServedAs(o, p)
  PROVE /\ v1' \in St!Lists /\ v15' \in [1..tmplMaxOpenings -> Nat]
        /\ IF o.kind = "create" /\ p.result # "error" THEN v15' = [v15 EXCEPT ![o.opening] = @ + 1]
           ELSE v15' = v15
        /\ o.opening \in 0..v10 /\ (o.kind = "create" => o.opening \in 1..v10)
<1>0. /\ v1 \in St!Lists /\ o \in St!Ops /\ v15 \in [1..tmplMaxOpenings -> Nat] /\ p.result # None
      /\ v10 \in 0..tmplMaxOpenings /\ o.opening <= v10
      /\ (o.kind = "create" => o.opening > 0 /\ o.id = None) /\ o.opening \in Nat
  BY TemplatesConstants DEF St!ListType, St!OpType, St!SheetType, ServedAs, St!Ops
<1>1. o.opening \in 0..v10 /\ (o.kind = "create" => o.opening \in 1..v10)
  BY <1>0, TemplatesConstants
<1>2. o.kind = "create" => o.opening \in 1..tmplMaxOpenings BY <1>0, TemplatesConstants
<1>3. IF o.kind = "create" /\ p.result # "error" THEN v15' = [v15 EXCEPT ![o.opening] = @ + 1]
      ELSE v15' = v15
  BY <1>0 DEF ServedAs
<1>4. v15' \in [1..tmplMaxOpenings -> Nat] BY <1>0, <1>2, <1>3
<1>5. CASE p.result = "error" \/ (o.id # None /\ v1[o.id] = None) \/ o.kind \in {"edit", "generate"}
  <2>1. v1' = v1 BY <1>5 DEF ServedAs
  <2> QED BY <1>0, <1>1, <1>3, <1>4, <2>1
<1>6. CASE ~(p.result = "error" \/ (o.id # None /\ v1[o.id] = None)) /\ o.kind = "create"
  <2>1. v1' = [v1 EXCEPT ![p.result] = St!Switched(p.result, TRUE)] BY <1>6 DEF ServedAs
  <2>2. v1' \in St!Lists BY <1>0, <2>1 DEF St!Lists, St!Switched, St!Status
  <2> QED BY <1>1, <1>3, <1>4, <2>2
<1>7. CASE ~(p.result = "error" \/ (o.id # None /\ v1[o.id] = None)) /\ o.kind = "delete"
  <2>1. v1' = [v1 EXCEPT ![o.id] = None] BY <1>7 DEF ServedAs
  <2>2. v1' \in St!Lists BY <1>0, <2>1 DEF St!Lists, St!Status
  <2> QED BY <1>1, <1>3, <1>4, <2>2
<1>8. CASE ~(p.result = "error" \/ (o.id # None /\ v1[o.id] = None)) /\ o.kind = "toggle"
  <2>1. v1' = [v1 EXCEPT ![o.id] = St!Switched(o.id, o.enable)] BY <1>8 DEF ServedAs
  <2>2. v1' \in St!Lists BY <1>0, <2>1 DEF St!Lists, St!Switched, St!Status
  <2> QED BY <1>1, <1>3, <1>4, <2>2
<1> QED BY <1>0, <1>5, <1>6, <1>7, <1>8 DEF St!Ops, St!Kinds, St!Saves

(* The form and the question stay well formed. *)
LEMMA TemplatesSheet ==
  ASSUME St!TemplatesAssumption, St!IInv, St!Next
  PROVE St!SheetType'
<1> USE DEF St!SheetType, St!ListType, St!OpType
<1>0. St!SheetType /\ St!ListType /\ St!OpType BY DEF St!IInv
<1>1. CASE St!LoadSplitRecurring
  BY <1>0, <1>1, TemplatesConstants DEF St!LoadSplitRecurring
<1>2. ASSUME NEW f \in St!Forms, OpenedAs(f) PROVE St!SheetType'
  BY <1>0, <1>2, TemplatesConstants, TemplateClearedIs DEF OpenedAs, St!Opened, Fits
<1>3. CASE St!CloseForm \/ St!CloseQuestion
  BY <1>0, <1>3, TemplatesConstants DEF St!CloseForm, St!CloseQuestion
<1>4. ASSUME NEW o \in St!Ops, Sent(o) PROVE St!SheetType'
  BY <1>0, <1>4, TemplatesConstants DEF Sent
<1>8. ASSUME NEW l \in v3, NEW ok \in BOOLEAN, St!HearList(l, ok) PROVE St!SheetType'
  BY <1>0, <1>8, TemplatesConstants DEF St!HearList
<1>10. ASSUME NEW t \in tmplTemplates, St!AskDelete(t) PROVE St!SheetType'
  BY <1>0, <1>10, TemplatesConstants DEF St!AskDelete
<1>12. ASSUME NEW f \in St!Forms, ChangedTo(f) PROVE St!SheetType'
  BY <1>0, <1>12, TemplatesConstants, TemplateClearedIs DEF ChangedTo, St!Change, Fits
<1>16. ASSUME NEW o \in v5, NEW p \in St!Ops, ServedAs(o, p) PROVE St!SheetType'
  <2>1. v15' \in [1..tmplMaxOpenings -> Nat] BY <1>0, <1>16, ServerIs
  <2> QED BY <1>0, <1>16, <2>1 DEF ServedAs
<1>17. ASSUME NEW o \in v5, St!Hear(o) PROVE St!SheetType'
  BY <1>0, <1>17, TemplatesConstants DEF St!Hear, St!Lowered
<1> QED BY TemplatesCases, <1>1, <1>2, <1>3, <1>4, <1>8, <1>10, <1>12, <1>16, <1>17

(* The rows stay those of a group. *)
LEMMA TemplatesList ==
  ASSUME St!TemplatesAssumption, St!IInv, St!Next
  PROVE St!ListType'
<1> USE DEF St!ListType, St!SheetType, St!OpType
<1>0. St!ListType /\ St!SheetType /\ St!OpType BY DEF St!IInv
<1>1. CASE St!LoadSplitRecurring
  BY <1>0, <1>1, TemplatesConstants DEF St!LoadSplitRecurring
<1>2. ASSUME NEW f \in St!Forms, OpenedAs(f) PROVE St!ListType'
  BY <1>0, <1>2, TemplatesConstants DEF OpenedAs, St!Opened, Fits
<1>3. CASE St!CloseForm \/ St!CloseQuestion
  BY <1>0, <1>3, TemplatesConstants DEF St!CloseForm, St!CloseQuestion
<1>4. ASSUME NEW o \in St!Ops, Sent(o) PROVE St!ListType'
  BY <1>0, <1>4, TemplatesConstants DEF Sent
<1>8. ASSUME NEW l \in v3, NEW ok \in BOOLEAN, St!HearList(l, ok) PROVE St!ListType'
  BY <1>0, <1>8, TemplatesConstants DEF St!HearList
<1>10. ASSUME NEW t \in tmplTemplates, St!AskDelete(t) PROVE St!ListType'
  BY <1>0, <1>10, TemplatesConstants DEF St!AskDelete
<1>12. ASSUME NEW f \in St!Forms, ChangedTo(f) PROVE St!ListType'
  BY <1>0, <1>12, TemplatesConstants DEF ChangedTo, St!Change, Fits
<1>16. ASSUME NEW o \in v5, NEW p \in St!Ops, ServedAs(o, p) PROVE St!ListType'
  <2>1. v1' \in St!Lists BY <1>0, <1>16, ServerIs
  <2> QED BY <1>0, <1>16, <2>1 DEF ServedAs
<1>17. ASSUME NEW o \in v5, St!Hear(o) PROVE St!ListType'
  <2>1. v2' \in St!Lists BY <1>0, <1>17, EditedIs
  <2> QED BY <1>0, <1>17, <2>1 DEF St!Hear
<1> QED BY TemplatesCases, <1>1, <1>2, <1>3, <1>4, <1>8, <1>10, <1>12, <1>16, <1>17

(* A flag is up exactly while its request is on its way. *)
LEMMA TemplatesFlags ==
  ASSUME St!TemplatesAssumption, St!IInv, St!Next
  PROVE St!FlagType'
<1> USE DEF St!FlagType, St!SheetType, St!OpType, St!ButtonInv, St!Saves
<1>0. St!FlagType /\ St!SheetType /\ St!OpType /\ St!ButtonInv BY DEF St!IInv
<1>1. CASE St!LoadSplitRecurring
  BY <1>0, <1>1, TemplatesConstants DEF St!LoadSplitRecurring
<1>2. ASSUME NEW f \in St!Forms, OpenedAs(f) PROVE St!FlagType'
  BY <1>0, <1>2, TemplatesConstants DEF OpenedAs, St!Opened, Fits
<1>3. CASE St!CloseForm \/ St!CloseQuestion
  BY <1>0, <1>3, TemplatesConstants DEF St!CloseForm, St!CloseQuestion
<1>4. ASSUME NEW o \in St!Ops, Sent(o) PROVE St!FlagType'
  <2>1. v5' = v5 \cup {o} BY <1>4 DEF Sent
  <2>2. /\ o.kind \in St!Saves => v11' /\ ~v11
        /\ o.kind \notin St!Saves => (v11' <=> v11)
        /\ o.kind = "generate" => v12' /\ ~v12
        /\ o.kind # "generate" => (v12' <=> v12)
        /\ o.kind = "delete" => v13' /\ ~v13
        /\ o.kind # "delete" => (v13' <=> v13)
    BY <1>0, <1>4, SentFacts
  <2>6. v11' \in BOOLEAN /\ v12' \in BOOLEAN /\ v13' \in BOOLEAN BY <1>0, <1>4
    DEF Sent, St!flags
  <2>3. v11' \in BOOLEAN /\ (v11' <=> \E q \in v5' : q.kind \in St!Saves) BY <1>0,
    <2>1, <2>2, <2>6
  <2>4. v12' \in BOOLEAN /\ (v12' <=> \E q \in v5' : q.kind = "generate") BY <1>0,
    <2>1, <2>2, <2>6
  <2>5. v13' \in BOOLEAN /\ (v13' <=> \E q \in v5' : q.kind = "delete") BY <1>0, <2>1,
    <2>2, <2>6
  <2> QED BY <2>3, <2>4, <2>5
<1>8. ASSUME NEW l \in v3, NEW ok \in BOOLEAN, St!HearList(l, ok) PROVE St!FlagType'
  BY <1>0, <1>8, TemplatesConstants DEF St!HearList
<1>10. ASSUME NEW t \in tmplTemplates, St!AskDelete(t) PROVE St!FlagType'
  BY <1>0, <1>10, TemplatesConstants DEF St!AskDelete
<1>12. ASSUME NEW f \in St!Forms, ChangedTo(f) PROVE St!FlagType'
  BY <1>0, <1>12, TemplatesConstants DEF ChangedTo, St!Change, Fits
<1>16. ASSUME NEW o \in v5, NEW p \in St!Ops, ServedAs(o, p) PROVE St!FlagType'
  BY <1>0, <1>16, TemplatesConstants DEF ServedAs
<1>17. ASSUME NEW o \in v5, St!Hear(o) PROVE St!FlagType'
  BY <1>0, <1>17, TemplatesConstants DEF St!Hear, St!Lowered, St!Saves, St!Ops
<1> QED BY TemplatesCases, <1>1, <1>2, <1>3, <1>4, <1>8, <1>10, <1>12, <1>16, <1>17

(* The requests stay what a button can send. *)
LEMMA TemplatesOps ==
  ASSUME St!TemplatesAssumption, St!IInv, St!Next
  PROVE St!OpType'
<1> USE DEF St!OpType, St!SheetType, St!FlagType
<1>0. St!OpType /\ St!SheetType /\ St!FlagType BY DEF St!IInv
<1>1. CASE St!LoadSplitRecurring
  BY <1>0, <1>1, TemplatesConstants DEF St!LoadSplitRecurring
<1>2. ASSUME NEW f \in St!Forms, OpenedAs(f) PROVE St!OpType'
  <2>1. v10' = v10 + 1 /\ v10 \in Nat /\ v5' = v5 BY <1>0, <1>2,
    TemplatesConstants DEF OpenedAs, St!Opened
  <2>2. \A o \in v5 : o.opening <= v10' BY <1>0, <2>1 DEF St!Ops
  <2> QED BY <1>0, <2>1, <2>2
<1>3. CASE St!CloseForm \/ St!CloseQuestion
  BY <1>0, <1>3, TemplatesConstants DEF St!CloseForm, St!CloseQuestion
<1>4. ASSUME NEW o \in St!Ops, Sent(o) PROVE St!OpType'
  BY <1>0, <1>4, TemplatesConstants, SentFacts DEF Sent, St!Ops, St!Saves, St!Kinds
<1>8. ASSUME NEW l \in v3, NEW ok \in BOOLEAN, St!HearList(l, ok) PROVE St!OpType'
  BY <1>0, <1>8, TemplatesConstants DEF St!HearList
<1>10. ASSUME NEW t \in tmplTemplates, St!AskDelete(t) PROVE St!OpType'
  BY <1>0, <1>10, TemplatesConstants DEF St!AskDelete
<1>12. ASSUME NEW f \in St!Forms, ChangedTo(f) PROVE St!OpType'
  BY <1>0, <1>12, TemplatesConstants DEF ChangedTo, St!Change, Fits
<1>16. ASSUME NEW o \in v5, NEW p \in St!Ops, ServedAs(o, p) PROVE St!OpType'
  BY <1>0, <1>16, TemplatesConstants DEF ServedAs, St!Ops
<1>17. ASSUME NEW o \in v5, St!Hear(o) PROVE St!OpType'
  BY <1>0, <1>17, TemplatesConstants DEF St!Hear, St!Lowered
<1> QED BY TemplatesCases, <1>1, <1>2, <1>3, <1>4, <1>8, <1>10, <1>12, <1>16, <1>17

(* A button waits for one answer. *)
LEMMA TemplatesButtons ==
  ASSUME St!TemplatesAssumption, St!IInv, St!Next
  PROVE St!ButtonInv'
<1> USE DEF St!ButtonInv, St!SheetType, St!OpType, St!FlagType, St!Saves, St!PayerIsSelf
<1>0. St!ButtonInv /\ St!SheetType /\ St!OpType /\ St!FlagType BY DEF St!IInv
<1>1. CASE St!LoadSplitRecurring
  BY <1>0, <1>1, TemplatesConstants DEF St!LoadSplitRecurring
<1>2. ASSUME NEW f \in St!Forms, OpenedAs(f) PROVE St!ButtonInv'
  BY <1>0, <1>2, TemplatesConstants, TemplateClearedIs DEF OpenedAs, St!Opened, Fits
<1>3. CASE St!CloseForm \/ St!CloseQuestion
  BY <1>0, <1>3, TemplatesConstants DEF St!CloseForm, St!CloseQuestion
<1>4. ASSUME NEW o \in St!Ops, Sent(o) PROVE St!ButtonInv'
  BY <1>0, <1>4, TemplatesConstants, SentFacts DEF Sent
<1>8. ASSUME NEW l \in v3, NEW ok \in BOOLEAN, St!HearList(l, ok) PROVE St!ButtonInv'
  BY <1>0, <1>8, TemplatesConstants DEF St!HearList
<1>10. ASSUME NEW t \in tmplTemplates, St!AskDelete(t) PROVE St!ButtonInv'
  BY <1>0, <1>10, TemplatesConstants DEF St!AskDelete
<1>12. ASSUME NEW f \in St!Forms, ChangedTo(f) PROVE St!ButtonInv'
  <2>1. v8' = St!Cleared(f) /\ UNCHANGED <<v5, v9>> /\ (f.extras => v8.extras \/ v8.payer = tmplMe)
    BY <1>12 DEF ChangedTo, St!Change
  <2>2. v8'.payer = f.payer /\ (v8'.extras => f.extras /\ (v8.payer = tmplMe => f.payer = tmplMe))
    BY <2>1, TemplateClearedIs
  <2> QED BY <1>0, <2>1, <2>2
<1>16. ASSUME NEW o \in v5, NEW p \in St!Ops, ServedAs(o, p) PROVE St!ButtonInv'
  BY <1>0, <1>16, TemplatesConstants DEF ServedAs
<1>17. ASSUME NEW o \in v5, St!Hear(o) PROVE St!ButtonInv'
  BY <1>0, <1>17, TemplatesConstants DEF St!Hear, St!Lowered
<1> QED BY TemplatesCases, <1>1, <1>2, <1>3, <1>4, <1>8, <1>10, <1>12, <1>16, <1>17

(* An opening makes its template when the server has served it. *)
LEMMA TemplatesMade ==
  ASSUME St!TemplatesAssumption, St!IInv, St!Next
  PROVE St!MadeInv'
<1> USE DEF St!MadeInv, St!SheetType, St!ListType, St!OpType, St!FlagType, St!ButtonInv, St!Served, St!Saves
<1>0. St!MadeInv /\ St!SheetType /\ St!ListType /\ St!OpType /\ St!FlagType /\ St!ButtonInv BY DEF St!IInv
<1>1. CASE St!LoadSplitRecurring
  BY <1>0, <1>1, TemplatesConstants DEF St!LoadSplitRecurring
<1>2. ASSUME NEW f \in St!Forms, OpenedAs(f) PROVE St!MadeInv'
  BY <1>0, <1>2, TemplatesConstants DEF OpenedAs, St!Opened, Fits
<1>3. CASE St!CloseForm \/ St!CloseQuestion
  BY <1>0, <1>3, TemplatesConstants DEF St!CloseForm, St!CloseQuestion
<1>4. ASSUME NEW o \in St!Ops, Sent(o) PROVE St!MadeInv'
  BY <1>0, <1>4, TemplatesConstants, SentFacts DEF Sent
<1>8. ASSUME NEW l \in v3, NEW ok \in BOOLEAN, St!HearList(l, ok) PROVE St!MadeInv'
  BY <1>0, <1>8, TemplatesConstants DEF St!HearList
<1>10. ASSUME NEW t \in tmplTemplates, St!AskDelete(t) PROVE St!MadeInv'
  BY <1>0, <1>10, TemplatesConstants DEF St!AskDelete
<1>12. ASSUME NEW f \in St!Forms, ChangedTo(f) PROVE St!MadeInv'
  BY <1>0, <1>12, TemplatesConstants DEF ChangedTo, St!Change, Fits
<1>16. ASSUME NEW o \in v5, NEW p \in St!Ops, ServedAs(o, p) PROVE St!MadeInv'
  <2>1. /\ v5' = (v5 \ {o}) \cup {p} /\ p.kind = o.kind /\ p.opening = o.opening /\ UNCHANGED <<v9, v10>>
        /\ o.result = None /\ p.result # None
    BY <1>16, TemplatesConstants DEF ServedAs, St!sheet
  <2>2. IF o.kind = "create" /\ p.result # "error" THEN v15' = [v15 EXCEPT ![o.opening] = @ + 1] ELSE v15' = v15
    BY <1>0, <1>16, ServerIs
  <2>3. v15 \in [1..tmplMaxOpenings -> Nat] /\ v10 \in 0..tmplMaxOpenings /\ (o.kind = "create" => o.opening \in 1..v10)
    BY <1>0, <1>16, ServerIs
  <2>4. /\ \A q \in v5 : q.kind = "create" /\ ~St!Served(q) => v15[q.opening] = 0
        /\ v9 = "new" /\ (\A q \in v5 : q.kind = "create" => ~St!Served(q)) => v15[v10] = 0
        /\ \A n \in 1..tmplMaxOpenings : n > v10 => v15[n] = 0
        /\ \A q \in v5 : q.kind = "create" /\ o.kind = "create" => q = o
    BY <1>0
  <2> HIDE DEF St!SheetType, St!OpType, St!FlagType, St!ButtonInv
  <2>5. CASE o.kind = "create" /\ p.result # "error"
    <3>1. v15' = [v15 EXCEPT ![o.opening] = @ + 1] BY <2>2, <2>5
    <3>2. St!Served(p) /\ p \in v5' /\ p.kind = "create" /\ \A q \in v5' : q.kind = "create" => q = p
      BY <2>1, <2>4, <2>5 DEF St!Served
    <3>3. \A n \in 1..tmplMaxOpenings : n > v10 => v15'[n] = 0 BY <2>3, <2>4, <2>5, <3>1,
      TemplatesConstants
    <3> QED BY <2>1, <3>2, <3>3
  <2>6. CASE ~(o.kind = "create" /\ p.result # "error")
    <3>1. v15' = v15 BY <2>2, <2>6
    <3>2. ~St!Served(o) /\ (o.kind = "create" => ~St!Served(p)) BY <2>1, <2>6 DEF St!Served
    <3>3. \A q \in v5' : q = p \/ q \in v5 BY <2>1
    <3>4. \A q \in v5 : q = o \/ q \in v5' BY <2>1
    <3>5. \A q \in v5' : q.kind = "create" /\ ~St!Served(q) => v15'[q.opening] = 0
      <4> HIDE DEF St!Served
      <4> QED BY <2>1, <2>4, <3>1, <3>2, <3>3
    <3>6. v9' = "new" /\ (\A q \in v5' : q.kind = "create" => ~St!Served(q)) => v15'[v10'] = 0
      <4> HIDE DEF St!Served
      <4> QED BY <2>1, <2>4, <3>1, <3>2, <3>4
    <3> QED BY <2>1, <2>4, <3>1, <3>5, <3>6
  <2> QED BY <2>5, <2>6
<1>17. ASSUME NEW o \in v5, St!Hear(o) PROVE St!MadeInv'
  BY <1>0, <1>17, TemplatesConstants DEF St!Hear, St!Lowered, St!Saves, St!Ops
<1> QED BY TemplatesCases, <1>1, <1>2, <1>3, <1>4, <1>8, <1>10, <1>12, <1>16, <1>17

(* The extras of a new template stay mine. *)
LEMMA TemplatesExtras ==
  ASSUME St!TemplatesAssumption, St!IInv, St!Next
  PROVE St!TemplateExtrasOnlyOfMine'
<1> USE DEF St!TemplateExtrasOnlyOfMine, St!ButtonInv, St!PayerIsSelf
<1>0. St!TemplateExtrasOnlyOfMine /\ St!ButtonInv BY DEF St!IInv
<1>1. CASE St!LoadSplitRecurring
  BY <1>0, <1>1, TemplatesConstants DEF St!LoadSplitRecurring
<1>2. ASSUME NEW f \in St!Forms, OpenedAs(f) PROVE St!TemplateExtrasOnlyOfMine'
  BY <1>0, <1>2, TemplatesConstants DEF OpenedAs, St!Opened, Fits
<1>3. CASE St!CloseForm \/ St!CloseQuestion
  BY <1>0, <1>3, TemplatesConstants DEF St!CloseForm, St!CloseQuestion
<1>4. ASSUME NEW o \in St!Ops, Sent(o) PROVE St!TemplateExtrasOnlyOfMine'
  BY <1>0, <1>4, TemplatesConstants DEF Sent
<1>8. ASSUME NEW l \in v3, NEW ok \in BOOLEAN, St!HearList(l, ok) PROVE St!TemplateExtrasOnlyOfMine'
  BY <1>0, <1>8, TemplatesConstants DEF St!HearList
<1>10. ASSUME NEW t \in tmplTemplates, St!AskDelete(t) PROVE St!TemplateExtrasOnlyOfMine'
  BY <1>0, <1>10, TemplatesConstants DEF St!AskDelete
<1>12. ASSUME NEW f \in St!Forms, ChangedTo(f) PROVE St!TemplateExtrasOnlyOfMine'
  BY <1>0, <1>12, TemplatesConstants DEF ChangedTo, St!Change, Fits
<1>16. ASSUME NEW o \in v5, NEW p \in St!Ops, ServedAs(o, p) PROVE St!TemplateExtrasOnlyOfMine'
  BY <1>0, <1>16, TemplatesConstants DEF ServedAs
<1>17. ASSUME NEW o \in v5, St!Hear(o) PROVE St!TemplateExtrasOnlyOfMine'
  BY <1>0, <1>17, TemplatesConstants DEF St!Hear, St!Lowered
<1> QED BY TemplatesCases, <1>1, <1>2, <1>3, <1>4, <1>8, <1>10, <1>12, <1>16, <1>17

(* No opening makes two templates. *)
LEMMA TemplatesOnce ==
  ASSUME St!TemplatesAssumption, St!IInv, St!Next
  PROVE St!OneTemplatePerForm'
<1> USE DEF St!OneTemplatePerForm, St!SheetType, St!ListType, St!OpType, St!MadeInv, St!Served
<1>0. St!OneTemplatePerForm /\ St!SheetType /\ St!ListType /\ St!OpType /\ St!MadeInv BY DEF St!IInv
<1>1. CASE St!LoadSplitRecurring
  BY <1>0, <1>1, TemplatesConstants DEF St!LoadSplitRecurring
<1>2. ASSUME NEW f \in St!Forms, OpenedAs(f) PROVE St!OneTemplatePerForm'
  BY <1>0, <1>2, TemplatesConstants DEF OpenedAs, St!Opened, Fits
<1>3. CASE St!CloseForm \/ St!CloseQuestion
  BY <1>0, <1>3, TemplatesConstants DEF St!CloseForm, St!CloseQuestion
<1>4. ASSUME NEW o \in St!Ops, Sent(o) PROVE St!OneTemplatePerForm'
  BY <1>0, <1>4, TemplatesConstants DEF Sent
<1>8. ASSUME NEW l \in v3, NEW ok \in BOOLEAN, St!HearList(l, ok) PROVE St!OneTemplatePerForm'
  BY <1>0, <1>8, TemplatesConstants DEF St!HearList
<1>10. ASSUME NEW t \in tmplTemplates, St!AskDelete(t) PROVE St!OneTemplatePerForm'
  BY <1>0, <1>10, TemplatesConstants DEF St!AskDelete
<1>12. ASSUME NEW f \in St!Forms, ChangedTo(f) PROVE St!OneTemplatePerForm'
  BY <1>0, <1>12, TemplatesConstants DEF ChangedTo, St!Change, Fits
<1>16. ASSUME NEW o \in v5, NEW p \in St!Ops, ServedAs(o, p) PROVE St!OneTemplatePerForm'
  <2>1. IF o.kind = "create" /\ p.result # "error" THEN v15' = [v15 EXCEPT ![o.opening] = @ + 1] ELSE v15' = v15
    BY <1>0, <1>16, ServerIs
  <2>2. o.kind = "create" => o.opening \in 1..v10 BY <1>0, <1>16, ServerIs
  <2>3. /\ v15 \in [1..tmplMaxOpenings -> Nat] /\ v10 \in 0..tmplMaxOpenings /\ (o.kind = "create" => v15[o.opening] = 0)
        /\ \A n \in 1..tmplMaxOpenings : v15[n] <= 1
    BY <1>0, <1>16 DEF ServedAs
  <2> HIDE DEF St!SheetType, St!ListType, St!OpType, St!MadeInv, St!Served
  <2> QED BY <2>1, <2>2, <2>3, TemplatesConstants
<1>17. ASSUME NEW o \in v5, St!Hear(o) PROVE St!OneTemplatePerForm'
  BY <1>0, <1>17, TemplatesConstants DEF St!Hear, St!Lowered
<1> QED BY TemplatesCases, <1>1, <1>2, <1>3, <1>4, <1>8, <1>10, <1>12, <1>16, <1>17

(* What moves neither the rows nor the requests keeps them in step. *)
LEMMA QuietKeepsRows ==
  ASSUME St!RowInv, UNCHANGED <<v1, v2, v3, v4, v5, v7>>,
         v14' = v14 \/ (v14' # None => v2[v14'] # None)
  PROVE St!RowInv'
<1> USE DEF St!RowInv, St!Served, St!Concerns, St!Synced, St!Alone, St!Asked, St!DoneBy
<1>1. CASE v14' = v14 BY <1>1
<1>2. CASE v14' # None => v2[v14'] # None BY <1>2
<1> QED BY <1>1, <1>2

(* The rows are those of the server, but for the answers still to be heard. *)
LEMMA TemplatesRow ==
  ASSUME St!TemplatesAssumption, St!IInv, St!Next
  PROVE St!RowInv'
<1> USE DEF St!RowInv, St!SheetType, St!ListType, St!FlagType, St!OpType, St!ButtonInv, St!list, St!sheet, St!flags
<1>0. St!RowInv /\ St!SheetType /\ St!ListType /\ St!FlagType /\ St!OpType /\ St!ButtonInv BY DEF St!IInv
<1>1. CASE St!LoadSplitRecurring
  <2> SUFFICES ASSUME ~v7' PROVE St!RowInv' BY DEF St!RowInv
  <2>1. v5' = {} /\ v5 = {} /\ ~v7 /\ v3' # {} /\ UNCHANGED <<v1, v2, v14>>
    BY <1>1 DEF St!LoadSplitRecurring
  <2>2. /\ St!Asked
        /\ \A t \in tmplTemplates : v2[t] # None \/ (v4 > 0 /\ v3 = {}) => St!Synced(t)
    BY <1>0, <2>1
  <2>3. \A t \in tmplTemplates : St!Synced(t) => St!Synced(t)' BY <2>1 DEF St!Synced
  <2> QED BY <2>1, <2>2, <2>3 DEF St!RowInv, St!Alone, St!Asked
<1>2. ASSUME NEW f \in St!Forms, OpenedAs(f) PROVE St!RowInv'
  <2>1. UNCHANGED <<v1, v2, v3, v4, v5, v7, v14>> BY <1>2 DEF OpenedAs, St!Opened
  <2> HIDE DEF St!RowInv
  <2> QED BY <1>0, <2>1, QuietKeepsRows
<1>3. CASE St!CloseForm \/ St!CloseQuestion
  <2>1. UNCHANGED <<v1, v2, v3, v4, v5, v7>> /\ (v14' = v14 \/ v14' =
    None) BY <1>3 DEF St!CloseForm, St!CloseQuestion
  <2> HIDE DEF St!RowInv
  <2> QED BY <1>0, <2>1, QuietKeepsRows
<1>4. ASSUME NEW o \in St!Ops, Sent(o) PROVE St!RowInv'
  <2> SUFFICES ASSUME ~v7' PROVE St!RowInv' BY DEF St!RowInv
  <2>1. /\ v5' = v5 \cup {o} /\ v3 = {} /\ o.result = None /\ ~v7 /\ (\A q \in v5 : q.id # o.id)
        /\ UNCHANGED <<v1, v2, v3, v4, v14>>
    BY <1>4 DEF Sent, St!list
  <2>2. /\ St!Alone /\ St!Asked
        /\ \A q \in v5 : St!Served(q) => St!DoneBy(q)
        /\ \A t \in tmplTemplates : v2[t] # None \/ (v4 > 0 /\ v3 = {}) => St!Synced(t)
    BY <1>0, <2>1
  <2> HIDE DEF St!SheetType, St!ListType, St!FlagType, St!OpType, St!ButtonInv
  <2>3. o.kind \in {"delete", "toggle"} => v2[o.id] # None
    <3>1. o.kind = "toggle" => v2[o.id] # None BY <1>0, <1>4, SentFacts
    <3>2. o.kind = "delete" => o.id = v14 /\ o.id # None BY <1>0, <1>4, SentFacts
    <3> QED BY <2>2, <3>1, <3>2 DEF St!Asked
  <2>4. St!Alone' BY <2>1, <2>2 DEF St!Alone
  <2>5. St!Asked' BY <2>1, <2>2, <2>3 DEF St!Asked
  <2>6. \A q \in v5' : St!Served(q) => St!DoneBy(q)' BY <2>1, <2>2 DEF St!Served, St!DoneBy
  <2>7. \A t \in tmplTemplates : v2'[t] # None \/ (v4' > 0 /\ v3' = {}) => St!Synced(t)'
    BY <2>1, <2>2 DEF St!Synced
  <2> QED BY <2>4, <2>5, <2>6, <2>7
<1>8. ASSUME NEW l \in v3, NEW ok \in BOOLEAN, St!HearList(l, ok) PROVE St!RowInv'
  <2> SUFFICES ASSUME ~v7' PROVE St!RowInv' BY DEF St!RowInv
  <2>1. ~v7 /\ v2' = v1 /\ v3' = v3 \ {l} /\ UNCHANGED <<v1, v5, v14>> BY
    <1>8 DEF St!HearList
  <2>2. /\ St!Alone /\ St!Asked /\ (\A t \in tmplTemplates : v2[t] # None => St!Synced(t))
        /\ v14 \in tmplTemplates \cup {None}
    BY <1>0, <2>1
  <2>3. v5 = {} BY <2>2 DEF St!Alone
  <2>4. \A t \in tmplTemplates : St!Synced(t)' BY <2>1 DEF St!Synced
  <2>5. v14 # None => v1[v14] # None BY <2>2, <2>3 DEF St!Asked, St!Synced
  <2>6. St!Alone' /\ St!Asked' BY <2>1, <2>3, <2>5 DEF St!Alone, St!Asked
  <2> QED BY <2>1, <2>3, <2>4, <2>6 DEF St!RowInv
<1>10. ASSUME NEW t \in tmplTemplates, St!AskDelete(t) PROVE St!RowInv'
  <2>1. UNCHANGED <<v1, v2, v3, v4, v5, v7>> /\ v2[v14'] # None BY <1>10
    DEF St!AskDelete
  <2> HIDE DEF St!RowInv
  <2> QED BY <1>0, <2>1, QuietKeepsRows
<1>12. ASSUME NEW f \in St!Forms, ChangedTo(f) PROVE St!RowInv'
  <2>1. UNCHANGED <<v1, v2, v3, v4, v5, v7, v14>> BY <1>12 DEF ChangedTo,
    St!Change
  <2> HIDE DEF St!RowInv
  <2> QED BY <1>0, <2>1, QuietKeepsRows
<1>16. ASSUME NEW o \in v5, NEW p \in St!Ops, ServedAs(o, p) PROVE St!RowInv'
  <2> SUFFICES ASSUME ~v7' PROVE St!RowInv' BY DEF St!RowInv
  <2>1. /\ v5' = (v5 \ {o}) \cup {p} /\ o.result = None /\ ~v7
        /\ p.kind = o.kind /\ p.id = o.id /\ p.enable = o.enable
        /\ UNCHANGED <<v2, v3, v4, v14>>
    BY <1>16 DEF ServedAs, St!list
  <2>2. /\ St!Alone /\ St!Asked /\ v3 = {}
        /\ \A q \in v5 : St!Served(q) => St!DoneBy(q)
        /\ \A t \in tmplTemplates : v2[t] # None \/ (v4 > 0 /\ v3 = {}) => St!Synced(t)
    BY <1>0, <2>1 DEF St!Alone
  <2>3. /\ v1 \in St!Lists /\ v2 \in St!Lists /\ o \in St!Ops /\ o.kind \in St!Kinds
        /\ (o.kind \in {"delete", "toggle"} => o.id \in tmplTemplates)
        /\ (o.kind = "create" => o.id = None)
        /\ \A q \in v5 : q \in St!Ops /\ (q.kind = "create" /\ St!Served(q) => q.result \in tmplTemplates)
                                /\ (q.kind \in {"delete", "toggle"} => q.id \in tmplTemplates)
    BY <1>0, TemplatesConstants DEF St!Ops, St!Served
  <2>4. \A q \in v5 : q.kind = "create" => q = o \/ o.kind # "create" BY <1>0 DEF St!Saves
  <2>0. p.result # None BY <1>16, TemplatesConstants DEF ServedAs
  <2> HIDE DEF St!SheetType, St!ListType, St!FlagType, St!OpType, St!ButtonInv
  <2>5. ~St!Served(o) /\ \A t : ~St!Concerns(o, t) BY <2>1 DEF St!Served, St!Concerns
  <2>6. \A q \in v5' : q = p \/ (q \in v5 /\ q # o) BY <2>1
  <2>7. p \in v5' /\ \A q \in v5 : q = o \/ q \in v5' BY <2>1
  <2>8. St!Alone' BY <2>1, <2>2, <2>6 DEF St!Alone
  <2>9. St!Asked' BY <1>16, <2>1, <2>2, <2>6 DEF St!Asked
  (* Its own row is the server's until now. *)
  <2>10. ASSUME o.kind = "toggle" PROVE v1[o.id] # None
    <3>1. v2[o.id] # None BY <2>2, <2>10 DEF St!Asked
    <3>2. St!Synced(o.id) BY <2>2, <2>3, <2>10, <3>1
    <3>3. ASSUME NEW q \in v5, St!Concerns(q, o.id) PROVE FALSE
      <4>1. St!Served(q) /\ St!DoneBy(q) BY <2>2, <3>3 DEF St!Concerns
      <4>2. CASE q.kind = "create" BY <3>1, <3>3, <4>1, <4>2 DEF St!DoneBy, St!Concerns
      <4>3. CASE q.kind # "create"
        <5>1. q.id = o.id BY <3>3, <4>3 DEF St!Concerns
        <5>2. q = o BY <2>2, <5>1 DEF St!Alone
        <5> QED BY <2>5, <4>1, <5>2
      <4> QED BY <4>2, <4>3
    <3> QED BY <3>1, <3>2, <3>3 DEF St!Synced
  <2>11. CASE ~St!Served(p) \/ o.kind \in {"edit", "generate"}
    <3>1. v1' = v1
      <4>1. ~St!Served(p) => p.result = "error" BY <2>0 DEF St!Served
      <4> QED BY <1>16, <2>11, <4>1 DEF ServedAs
    <3>2. St!Served(p) => St!DoneBy(p)' BY <2>1, <2>11 DEF St!DoneBy
    <3>3. \A q \in v5' : St!Served(q) => St!DoneBy(q)' BY <2>1, <2>2, <2>6, <3>1, <3>2 DEF St!DoneBy
    <3>4. \A t \in tmplTemplates : St!Synced(t) => St!Synced(t)' BY <2>1, <2>5, <2>7, <3>1 DEF St!Synced
    <3> QED BY <2>1, <2>2, <2>8, <2>9, <3>3, <3>4 DEF St!RowInv
  <2>12. CASE St!Served(p) /\ o.kind = "create"
    <3> DEFINE r == p.result
    <3>1. /\ r \in tmplTemplates /\ v1[r] = None /\ v2[r] = None /\ \A q \in v5 : r \notin {q.id, q.result}
          /\ v1' = [v1 EXCEPT ![r] = St!Switched(r, TRUE)]
      <4>1. r \notin {None, "error", "ok"} BY <1>16, <2>12 DEF ServedAs, St!Served
      <4>2. r \in {t \in tmplTemplates : St!Unused(t)} BY <1>16, <4>1 DEF ServedAs
      <4>3. v1' = [v1 EXCEPT ![r] = St!Switched(r, TRUE)] BY <1>16, <2>3, <2>12, <4>1 DEF
        ServedAs
      <4> QED BY <4>2, <4>3 DEF St!Unused
    <3> HIDE DEF r
    <3>2. v1'[r] = St!Switched(r, TRUE) /\ \A t \in tmplTemplates : t # r => v1'[t] = v1[t]
      BY <2>3, <3>1 DEF St!Lists
    <3>3. St!DoneBy(p)' BY <2>1, <2>12, <3>1, <3>2 DEF St!DoneBy, r
    <3>4. ASSUME NEW q \in v5, q # o, St!Served(q) PROVE St!DoneBy(q)'
      <4>1. St!DoneBy(q) /\ q.kind # "create" BY <2>2, <2>4, <2>12, <3>4
      <4> QED BY <2>1, <2>3, <3>1, <3>2, <4>1 DEF St!DoneBy
    <3>5. ASSUME NEW t \in tmplTemplates, v2'[t] # None \/ (v4' > 0 /\ v3' = {}) PROVE St!Synced(t)'
      <4>1. CASE t = r
        <5>1. St!Concerns(p, t) BY <2>1, <2>12, <4>1 DEF St!Concerns, r
        <5> QED BY <2>7, <5>1 DEF St!Synced
      <4>2. CASE t # r
        <5>1. St!Synced(t) BY <2>1, <2>2, <3>5
        <5> QED BY <2>1, <2>5, <2>7, <3>2, <4>2, <5>1 DEF St!Synced
      <4> QED BY <4>1, <4>2
    <3>6. \A q \in v5' : St!Served(q) => St!DoneBy(q)' BY <2>6, <3>3, <3>4
    <3> QED BY <2>8, <2>9, <3>5, <3>6 DEF St!RowInv
  <2>13. CASE St!Served(p) /\ o.kind \in {"delete", "toggle"}
    <3> DEFINE s == IF o.kind = "delete" THEN None ELSE St!Switched(o.id, o.enable)
    <3>1. v1'[o.id] = s /\ \A t \in tmplTemplates : t # o.id => v1'[t] = v1[t]
      <4>1. p.result # "error" /\ o.id \in tmplTemplates BY <2>3, <2>13 DEF St!Served
      <4>2. CASE v1[o.id] # None
        <5>1. CASE o.kind = "delete"
          <6>1. v1' = [v1 EXCEPT ![o.id] = None] BY <1>16, <4>1, <4>2, <5>1 DEF ServedAs
          <6> QED BY <2>3, <4>1, <5>1, <6>1 DEF St!Lists
        <5>2. CASE o.kind = "toggle"
          <6>1. v1' = [v1 EXCEPT ![o.id] = St!Switched(o.id, o.enable)]
            BY <1>16, <4>1, <4>2, <5>2 DEF ServedAs
          <6> QED BY <2>3, <4>1, <5>2, <6>1 DEF St!Lists
        <5> QED BY <2>13, <5>1, <5>2
      <4>3. CASE v1[o.id] = None
        <5>1. o.kind = "delete" BY <2>10, <2>13, <4>3
        <5>2. v1' = v1 BY <1>16, <4>1, <4>3, TemplatesConstants DEF ServedAs
        <5> QED BY <4>3, <5>1, <5>2
      <4> QED BY <4>2, <4>3
    <3>2. St!DoneBy(p)' BY <2>1, <2>13, <3>1 DEF St!DoneBy
    <3>3. ASSUME NEW q \in v5, q # o, St!Served(q) PROVE St!DoneBy(q)'
      <4>1. St!DoneBy(q) /\ q.id # o.id BY <2>2, <3>3 DEF St!Alone
      <4>2. q.kind = "create" => q.result \in tmplTemplates /\ q.result # o.id
        BY <2>2, <2>3, <2>13, <3>3, <4>1 DEF St!DoneBy, St!Asked
      <4> HIDE DEF s
      <4> QED BY <2>1, <2>3, <3>1, <4>1, <4>2 DEF St!DoneBy
    <3>4. ASSUME NEW t \in tmplTemplates, v2'[t] # None \/ (v4' > 0 /\ v3' = {}) PROVE St!Synced(t)'
      <4>1. CASE t = o.id
        <5>1. St!Concerns(p, t) BY <2>1, <2>13, <4>1 DEF St!Concerns
        <5> QED BY <2>7, <5>1 DEF St!Synced
      <4>2. CASE t # o.id
        <5>1. St!Synced(t) BY <2>1, <2>2, <3>4
        <5> HIDE DEF s
        <5> QED BY <2>1, <2>5, <2>7, <3>1, <4>2, <5>1 DEF St!Synced
      <4> QED BY <4>1, <4>2
    <3>5. \A q \in v5' : St!Served(q) => St!DoneBy(q)' BY <2>6, <3>2, <3>3
    <3> QED BY <2>8, <2>9, <3>4, <3>5 DEF St!RowInv
  <2> QED BY <2>3, <2>11, <2>12, <2>13 DEF St!Kinds, St!Saves
<1>17. ASSUME NEW o \in v5, St!Hear(o) PROVE St!RowInv'
  <2> SUFFICES ASSUME ~v7' PROVE St!RowInv' BY DEF St!RowInv
  <2>1. /\ v5' = v5 \ {o} /\ o.result # None /\ ~v7 /\ v2' = St!Edited(o)
        /\ UNCHANGED <<v1, v3, v4>>
        /\ IF o.result # "error" /\ o.kind = "delete" THEN v14' = None ELSE v14' = v14
    BY <1>17 DEF St!Hear
  <2>2. /\ St!Alone /\ St!Asked /\ v3 = {}
        /\ \A q \in v5 : St!Served(q) => St!DoneBy(q)
        /\ \A t \in tmplTemplates : v2[t] # None \/ (v4 > 0 /\ v3 = {}) => St!Synced(t)
    BY <1>0, <2>1 DEF St!Alone
  <2>3. /\ v1 \in St!Lists /\ v2 \in St!Lists /\ o \in St!Ops /\ o.kind \in St!Kinds
        /\ (o.kind \in {"delete", "toggle"} => o.id \in tmplTemplates)
        /\ (o.kind = "create" /\ St!Served(o) => o.result \in tmplTemplates)
        /\ \A q \in v5 : q \in St!Ops /\ (q.kind = "create" /\ St!Served(q) => q.result \in tmplTemplates)
                                /\ (q.kind \in {"delete", "toggle"} => q.id \in tmplTemplates)
        /\ (v14 # None => v14 \in tmplTemplates)
    BY <1>0, TemplatesConstants DEF St!Ops, St!Served
  <2>4. \A q \in v5 : q.kind = "create" => q = o \/ o.kind # "create" BY <1>0 DEF St!Saves
  <2> HIDE DEF St!SheetType, St!ListType, St!FlagType, St!OpType, St!ButtonInv
  <2>5. \A q \in v5' : q \in v5 /\ q # o /\ q.id # o.id BY <2>1, <2>2 DEF St!Alone
  <2>6. St!Alone' BY <2>1, <2>2 DEF St!Alone
  <2>7. \A q \in v5 : q = o \/ q \in v5' BY <2>1
  <2>8. None \notin tmplTemplates /\ None \notin St!Status BY TemplatesConstants
  <2>9. CASE ~St!Served(o) \/ o.kind \in {"edit", "generate"}
    <3>1. v2' = v2 BY <2>1, <2>9 DEF St!Edited, St!Served
    <3>2. \A t \in tmplTemplates : ~St!Concerns(o, t) BY <2>9 DEF St!Concerns
    <3>3. v14' = v14 BY <2>1, <2>9 DEF St!Served
    <3>4. St!Asked' BY <2>1, <2>2, <3>1, <3>3 DEF St!Asked
    <3>5. \A q \in v5' : St!Served(q) => St!DoneBy(q)' BY <2>1, <2>2, <2>5, <3>1 DEF St!DoneBy
    <3>6. \A t \in tmplTemplates : St!Synced(t) => St!Synced(t)' BY <2>1, <2>7, <3>1, <3>2 DEF St!Synced
    <3> QED BY <2>1, <2>2, <2>6, <3>1, <3>4, <3>5, <3>6 DEF St!RowInv
  <2>10. CASE St!Served(o) /\ o.kind = "create"
    <3> DEFINE r == o.result
    <3>1. r \in tmplTemplates /\ v2[r] = None /\ v1[r] = St!Switched(r, TRUE) BY <2>2, <2>3, <2>10
      DEF St!DoneBy
    <3>2. v2' = [v2 EXCEPT ![r] = St!Switched(r, TRUE)] BY <2>1, <2>10 DEF St!Edited, St!Served
    <3>3. \A t \in tmplTemplates : St!Concerns(o, t) => t = r BY <2>10 DEF St!Concerns
    <3>4. v14' = v14 BY <2>1, <2>10
    <3> HIDE DEF r
    <3>5. v2'[r] = v1[r] /\ \A t \in tmplTemplates : t # r => v2'[t] = v2[t] BY <2>3,
      <3>1, <3>2 DEF St!Lists
    <3>6. v2'[r] # None BY <2>8, <3>1, <3>5 DEF St!Switched, St!Status
    <3>7. St!Asked' BY <2>1, <2>2, <2>3, <2>5, <3>1, <3>4, <3>5, <3>6 DEF St!Asked
    <3>8. \A q \in v5' : St!Served(q) => St!DoneBy(q)' BY <2>1, <2>2, <2>4, <2>5, <2>10 DEF St!DoneBy
    <3>9. ASSUME NEW t \in tmplTemplates, v2'[t] # None \/ (v4' > 0 /\ v3' = {}) PROVE St!Synced(t)'
      <4>1. CASE t = r BY <2>1, <3>5, <4>1 DEF St!Synced
      <4>2. CASE t # r
        <5>1. St!Synced(t) BY <2>1, <2>2, <3>5, <3>9, <4>2
        <5> QED BY <2>1, <2>7, <3>3, <3>5, <4>2, <5>1 DEF St!Synced
      <4> QED BY <4>1, <4>2
    <3> QED BY <2>6, <3>7, <3>8, <3>9 DEF St!RowInv
  <2>11. CASE St!Served(o) /\ o.kind = "delete"
    <3> DEFINE r == o.id
    <3>1. r \in tmplTemplates /\ v2[r] # None /\ v1[r] = None BY <2>2, <2>3, <2>11 DEF St!DoneBy,
      St!Asked
    <3>2. v2' = [v2 EXCEPT ![r] = None] /\ v14' = None BY <2>1, <2>11 DEF St!Edited, St!Served
    <3>3. \A t \in tmplTemplates : St!Concerns(o, t) => t = r BY <2>11 DEF St!Concerns
    <3>4. \A q \in v5' : q.id # r BY <2>5
    <3> HIDE DEF r
    <3>5. v2'[r] = v1[r] /\ \A t \in tmplTemplates : t # r => v2'[t] = v2[t] BY <2>3,
      <3>1, <3>2 DEF St!Lists
    <3>6. St!Asked' BY <2>1, <2>2, <2>3, <2>5, <3>2, <3>4, <3>5 DEF St!Asked
    <3>7. \A q \in v5' : St!Served(q) => St!DoneBy(q)'
      <4>1. \A q \in v5' : St!Served(q) => St!DoneBy(q) BY <2>2, <2>5
      <4>2. \A q \in v5' : q.kind = "create" /\ St!Served(q) => q.result \in tmplTemplates /\ q.result # r
        BY <2>3, <2>5, <3>1, <4>1 DEF St!DoneBy
      <4> QED BY <2>1, <3>5, <4>1, <4>2 DEF St!DoneBy
    <3>8. ASSUME NEW t \in tmplTemplates, v2'[t] # None \/ (v4' > 0 /\ v3' = {}) PROVE St!Synced(t)'
      <4>1. CASE t = r BY <2>1, <3>5, <4>1 DEF St!Synced
      <4>2. CASE t # r
        <5>1. St!Synced(t) BY <2>1, <2>2, <3>5, <3>8, <4>2
        <5> QED BY <2>1, <2>7, <3>3, <3>5, <4>2, <5>1 DEF St!Synced
      <4> QED BY <4>1, <4>2
    <3> QED BY <2>6, <3>6, <3>7, <3>8 DEF St!RowInv
  <2>12. CASE St!Served(o) /\ o.kind = "toggle"
    <3> DEFINE r == o.id
               s == St!Switched(o.id, o.enable)
    <3>1. r \in tmplTemplates /\ v2[r] # None /\ v1[r] = s BY <2>2, <2>3, <2>12 DEF St!DoneBy, St!Asked
    <3>2. v2' = [v2 EXCEPT ![r] = s] /\ v14' = v14
      <4>1. v2' = [v2 EXCEPT ![o.id] = St!Answered(o.id, o.enable)] BY <2>1, <2>12, <3>1 DEF
        St!Edited, St!Served
      <4> QED BY <2>1, <2>12, <4>1 DEF St!Answered
    <3>3. \A t \in tmplTemplates : St!Concerns(o, t) => t = r BY <2>12 DEF St!Concerns
    <3>4. \A q \in v5' : q.id # r BY <2>5
    <3>5. s # None BY <2>8 DEF St!Switched, St!Status
    <3> HIDE DEF r, s
    <3>6. v2'[r] = v1[r] /\ v2'[r] # None /\ \A t \in tmplTemplates : t # r => v2'[t] = v2[t]
      BY <2>3, <3>1, <3>2, <3>5 DEF St!Lists
    <3>7. St!Asked' BY <2>1, <2>2, <2>3, <2>5, <3>2, <3>4, <3>6 DEF St!Asked
    <3>8. \A q \in v5' : St!Served(q) => St!DoneBy(q)'
      <4>1. \A q \in v5' : St!Served(q) => St!DoneBy(q) BY <2>2, <2>5
      <4>2. \A q \in v5' : q.kind = "create" /\ St!Served(q) => q.result \in tmplTemplates /\ q.result # r
        BY <2>3, <2>5, <3>1, <4>1 DEF St!DoneBy
      <4> QED BY <2>1, <3>6, <4>1, <4>2 DEF St!DoneBy
    <3>9. ASSUME NEW t \in tmplTemplates, v2'[t] # None \/ (v4' > 0 /\ v3' = {}) PROVE St!Synced(t)'
      <4>1. CASE t = r BY <2>1, <3>6, <4>1 DEF St!Synced
      <4>2. CASE t # r
        <5>1. St!Synced(t) BY <2>1, <2>2, <3>6, <3>9, <4>2
        <5> QED BY <2>1, <2>7, <3>3, <3>6, <4>2, <5>1 DEF St!Synced
      <4> QED BY <4>1, <4>2
    <3> QED BY <2>6, <3>7, <3>8, <3>9 DEF St!RowInv
  <2> QED BY <2>3, <2>9, <2>10, <2>11, <2>12 DEF St!Kinds, St!Saves
<1> QED BY TemplatesCases, <1>1, <1>2, <1>3, <1>4, <1>8, <1>10, <1>12, <1>16, <1>17

(* A screen where nothing is on its way shows the rows of the server. *)
LEMMA TemplatesRows ==
  ASSUME St!TemplatesAssumption, St!IInv, St!Next
  PROVE St!RowsAreTheServers'
<1>1. St!ListType' /\ St!RowInv' BY TemplatesList, TemplatesRow
<1>2. v1' \in St!Lists /\ v2' \in St!Lists BY <1>1 DEF St!ListType
<1>3. ASSUME v4' > 0, v3' = {}, v5' = {}, ~v7' PROVE v2' = v1'
  <2>1. \A t \in tmplTemplates : v2'[t] = v1'[t] BY <1>1, <1>3 DEF St!RowInv, St!Synced
  <2> QED BY <1>2, <2>1 DEF St!Lists
<1> QED BY <1>3 DEF St!RowsAreTheServers

(* The invariant holds at first. *)
LEMMA TemplatesInit ==
  ASSUME St!TemplatesAssumption, St!Init
  PROVE St!IInv
<1>1. St!SheetType
  <2>1. v8 \in St!Forms /\ v8.payer = None BY DEF St!Init, St!NoForm, St!Forms
  <2>2. v10 \in 0..tmplMaxOpenings /\ v15 \in [1..tmplMaxOpenings -> Nat] BY TemplatesConstants DEF
    St!Init
  <2> QED BY <2>1, <2>2 DEF St!Init, St!SheetType
<1>2. St!ListType
  <2>1. v1 \in St!Lists BY DEF St!Init
  <2>2. v2 \in St!Lists BY DEF St!Init, St!Lists
  <2>3. v4 \in 0..tmplMaxLoads /\ v6 \in 0..tmplMaxOps BY TemplatesConstants DEF St!Init
  <2> QED BY <2>1, <2>2, <2>3 DEF St!Init, St!ListType
<1>3. St!FlagType BY TemplatesConstants DEF St!Init, St!FlagType
<1>4. St!OpType BY TemplatesConstants DEF St!Init, St!OpType
<1>5. St!ButtonInv BY TemplatesConstants DEF St!Init, St!ButtonInv
<1>6. St!MadeInv BY TemplatesConstants DEF St!Init, St!MadeInv
<1>7. St!RowInv
  <2>1. \A t \in tmplTemplates : v2[t] = None BY DEF St!Init
  <2>2. v5 = {} /\ v3 = {} /\ v4 = 0 /\ v14 = None BY DEF St!Init
  <2>3. St!Alone /\ St!Asked BY <2>2 DEF St!Alone, St!Asked
  <2> QED BY <2>1, <2>2, <2>3 DEF St!RowInv
<1>8. St!TemplateExtrasOnlyOfMine BY TemplatesConstants DEF St!Init, St!TemplateExtrasOnlyOfMine
<1>9. St!OneTemplatePerForm BY TemplatesConstants DEF St!Init, St!OneTemplatePerForm
<1>10. St!RowsAreTheServers BY TemplatesConstants DEF St!Init, St!RowsAreTheServers
<1> QED BY <1>1, <1>2, <1>3, <1>4, <1>5, <1>6, <1>7, <1>8, <1>9, <1>10 DEF St!IInv

(* The invariant survives a step of another section. *)
LEMMA TemplatesStays ==
  ASSUME St!IInv, UNCHANGED St!vars
  PROVE St!IInv'
<1>1. St!SheetType' BY DEF St!IInv, St!vars, St!SheetType, St!list, St!sheet, St!flags
<1>2. St!ListType' BY DEF St!IInv, St!vars, St!ListType, St!list, St!sheet, St!flags
<1>3. St!FlagType' BY DEF St!IInv, St!vars, St!FlagType, St!list, St!sheet, St!flags
<1>4. St!OpType' BY DEF St!IInv, St!vars, St!OpType, St!list, St!sheet, St!flags
<1>5. St!ButtonInv' BY DEF St!IInv, St!vars, St!ButtonInv, St!list, St!sheet, St!flags
<1>6. St!MadeInv' BY DEF St!IInv, St!vars, St!MadeInv, St!list, St!sheet, St!flags
<1>7. St!RowInv' BY DEF St!IInv, St!vars, St!RowInv, St!list, St!sheet, St!flags, St!Served, St!Concerns, St!Synced, St!Alone,
  St!Asked, St!DoneBy
<1>8. St!TemplateExtrasOnlyOfMine' BY DEF St!IInv, St!vars, St!TemplateExtrasOnlyOfMine, St!list, St!sheet, St!flags
<1>9. St!OneTemplatePerForm' BY DEF St!IInv, St!vars, St!OneTemplatePerForm, St!list, St!sheet, St!flags
<1>10. St!RowsAreTheServers' BY DEF St!IInv, St!vars, St!RowsAreTheServers, St!list, St!sheet, St!flags
<1> QED BY <1>1, <1>2, <1>3, <1>4, <1>5, <1>6, <1>7, <1>8, <1>9, <1>10 DEF St!IInv

(* Every step of the section keeps the invariant. *)
LEMMA TemplatesStep ==
  ASSUME St!TemplatesAssumption, St!IInv, St!Next \/ UNCHANGED St!vars
  PROVE St!IInv'
<1>1. CASE St!Next BY <1>1, TemplatesSheet, TemplatesList, TemplatesFlags, TemplatesOps,
  TemplatesButtons, TemplatesMade, TemplatesRow, TemplatesExtras, TemplatesOnce, TemplatesRows DEF
  St!IInv
<1>2. CASE UNCHANGED St!vars BY <1>2, TemplatesStays
<1> QED BY <1>1, <1>2

HIDE DEF St!list, St!sheet, St!flags

(***************************************************************************)
(* Archiving an account                                                    *)
(***************************************************************************)
USE DEF Ac!serverVars, Ac!modalVars, Ac!historyVars

(* What the constants are. *)
LEMMA AccountsConstants ==
  Ac!AccountsAssumption => None \notin accAccounts /\ accInvestments \subseteq Nat /\ accMaxClicks \in Nat
BY DEF Ac!AccountsAssumption

(* A call is made; a loop is started with the investments of a sheet. *)
Called(c) ==
  /\ v9' = v9 \cup {c} /\ c.answer = Ac!Waiting
  /\ v16' \in Nat /\ UNCHANGED <<Ac!serverVars, Ac!modalVars, v10, v11, Ac!historyVars>>
Started(l) ==
  /\ v10' = v10 \cup {l} /\ l.answer = Ac!Waiting
  /\ v16' \in Nat /\ UNCHANGED <<Ac!serverVars, Ac!modalVars, v9, v11, Ac!historyVars>>
  /\ \/ /\ l.kind = "migrate" /\ v6 # None
        /\ l.account = v6.account /\ l.left = v6.assets
     \/ /\ l.kind = "rollback" /\ v7 # None
        /\ l.account = v7.account /\ l.left = v7.candidates

(* The server looks at a: it finds nothing, or lists what is in the way. *)
Looked(a, answer) ==
  /\ answer.was = {} /\ answer.list \subseteq Ac!Blocking(a)
  /\ answer.tag = "open_positions" => answer.list # {}
  /\ answer.tag # "ok" /\ (answer.tag = "checked" => Ac!Blocking(a) = {})
Written(answer) == answer.was = {} /\ answer.list = {} /\ answer.tag = "ok"

(* A call c becomes d. *)
Becomes(c, d) ==
  /\ v9' = (v9 \ {c}) \cup {d} /\ d.kind = c.kind /\ d.account = c.account
  /\ UNCHANGED <<Ac!modalVars, v10, v11, v16>>
CallLooked(c, d) ==
  /\ c.kind = "archive" /\ Becomes(c, d) /\ Looked(c.account, d.answer)
  /\ UNCHANGED <<Ac!serverVars, Ac!historyVars>>
CallSaved(c, d) ==
  /\ c.kind = "archive" /\ Becomes(c, d) /\ Ac!Checked(c) /\ Written(d.answer) /\ Ac!Closes(c.account)
  /\ UNCHANGED <<v1, v2, v3, v4, v12, v13, v14>>
UnarchiveServed(c, d) ==
  /\ c.kind = "unarchive" /\ Becomes(c, d)
  /\ v5' = v5 \ {c.account} /\ d.answer.tag \in {"ok", "refused"}
  /\ IF d.answer.tag = "ok"
     THEN /\ d.answer.list = {i \in accInvestments : v2[i] = c.account}
          /\ d.answer.was = v12[c.account]
     ELSE d.answer.list = {}
  /\ UNCHANGED <<v1, v2, v3, v4, Ac!historyVars>>

(* A loop l goes on as m. *)
Goes(l, m) ==
  /\ v10' = (v10 \ {l}) \cup {m} /\ m.kind = l.kind /\ m.account = l.account /\ m.to = l.to
  /\ UNCHANGED <<Ac!modalVars, v9, v11, v16>>
MoveLooked(l, m) ==
  /\ Goes(l, m) /\ l.left # {} /\ m.left = l.left /\ m.answer.tag # "ok"
  /\ Ac!Checked(m) => l.to \notin v5 /\ m.from = v1[Ac!First(l)]
  /\ UNCHANGED <<Ac!serverVars, Ac!historyVars>>
Moved(l, m) ==
  /\ Goes(l, m) /\ l.left # {} /\ m.left = l.left /\ Ac!Checked(l) /\ m.answer.tag = "ok"
  /\ Ac!MovePosition(Ac!First(l), l.to, l.from) /\ Ac!Enters(Ac!First(l), l.to)
  /\ v12' = [a \in accAccounts |->
       (v12[a] \ {Ac!First(l)}) \cup IF a = l.account /\ l.kind = "migrate" THEN {Ac!First(l)} ELSE {}]
  /\ v13' = (v13 \/ v2[Ac!First(l)] # None)
  /\ UNCHANGED <<v3, v4, v5, v14>>
LastLooked(l, m) ==
  /\ Goes(l, m) /\ l.left = {} /\ m.left = {} /\ Looked(l.account, m.answer)
  /\ UNCHANGED <<Ac!serverVars, Ac!historyVars>>
LastSaved(l, m) ==
  /\ Goes(l, m) /\ l.left = {} /\ m.left = {} /\ Ac!Checked(l) /\ Written(m.answer) /\ Ac!Closes(l.account)
  /\ UNCHANGED <<v1, v2, v3, v4, v12, v13, v14>>
NextMove(l, m) ==
  /\ Goes(l, m) /\ m.left \subseteq l.left /\ (l.kind = "rollback" => m.left # {}) /\ m.answer = Ac!Waiting
  /\ UNCHANGED <<Ac!serverVars, Ac!historyVars>>
Stopped(l) ==
  /\ v10' = v10 \ {l} /\ UNCHANGED <<Ac!serverVars, v9, v11, Ac!historyVars, v16, v8>>
  /\ v7' \in {v7, None} /\ v6' \in {v6, None}

(* A step after which the server has looked at nothing new. *)
Silent ==
  /\ \A c \in v9' : Ac!Checked(c) => c \in v9
  /\ \A l \in v10' : Ac!Checked(l) => l \in v10
  /\ UNCHANGED <<v1, v2, v3, v5, v11, Ac!historyVars>>

(* The answer of what waits for one. *)
LEMMA WaitingIs ==
  /\ Ac!Waiting \in Ac!Answers /\ Ac!Waiting.list = {} /\ Ac!Waiting.was = {} /\ Ac!Waiting.tag = "none"
BY DEF Ac!Waiting, Ac!Answers, Ac!Tags

(* An answer without lists. *)
LEMMA SaidIs ==
  ASSUME NEW tag \in Ac!Tags
  PROVE Ac!Said(tag) \in Ac!Answers /\ Ac!Said(tag).list = {} /\ Ac!Said(tag).was = {} /\ Ac!Said(tag).tag = tag
<1>1. Ac!Said(tag) = [tag |-> tag, list |-> {}, was |-> {}] BY DEF Ac!Said, Ac!Waiting
<1> QED BY <1>1 DEF Ac!Answers

(* What the server answers when it has looked. *)
LEMMA LookedIs ==
  ASSUME Ac!ServerType, NEW a \in accAccounts
  PROVE Ac!Archive(a) \in Ac!Answers /\ Looked(a, Ac!Archive(a))
<1>0. Ac!Blocking(a) \subseteq accInvestments BY DEF Ac!ServerType, Ac!Blocking
<1>1. CASE a \in v5
  <2> DEFINE s == Ac!Said("refused")
  <2>1. Ac!Archive(a) = s BY <1>1 DEF Ac!Archive
  <2>2. s \in Ac!Answers /\ s.list = {} /\ s.was = {} /\ s.tag = "refused" BY SaidIs DEF Ac!Tags
  <2> HIDE DEF s
  <2> QED BY <2>1, <2>2 DEF Looked
<1>2. CASE a \notin v5 /\ a \in v4
  <2> DEFINE s == Ac!Said("non_zero_balance")
  <2>1. Ac!Archive(a) = s BY <1>2 DEF Ac!Archive
  <2>2. s \in Ac!Answers /\ s.list = {} /\ s.was = {} /\ s.tag = "non_zero_balance" BY SaidIs DEF Ac!Tags
  <2> HIDE DEF s
  <2> QED BY <2>1, <2>2 DEF Looked
<1>3. CASE a \notin v5 /\ a \notin v4 /\ Ac!Blocking(a) # {}
  <2> DEFINE s == Ac!Said("open_positions")
             b == Ac!Blocking(a)
             r == [s EXCEPT !.list = b]
  <2>1. Ac!Archive(a) = r BY <1>3 DEF Ac!Archive
  <2>2. s \in Ac!Answers /\ s.was = {} /\ s.tag = "open_positions" BY SaidIs DEF Ac!Tags
  <2>3. b \in SUBSET accInvestments BY <1>0
  <2> HIDE DEF s, b
  <2>4. r \in Ac!Answers /\ r.was = {} /\ r.tag = "open_positions" BY <2>2, <2>3 DEF Ac!Answers
  <2>5. r.list = b BY <2>2 DEF Ac!Answers
  <2> HIDE DEF r
  <2>6. b # {} /\ b = Ac!Blocking(a) BY <1>3 DEF b
  <2> QED BY <2>1, <2>4, <2>5, <2>6 DEF Looked
<1>4. CASE a \notin v5 /\ a \notin v4 /\ Ac!Blocking(a) = {}
  <2>1. Ac!Archive(a) = Ac!Said("checked") BY <1>4 DEF Ac!Archive
  <2> QED BY <1>4, <2>1, SaidIs DEF Looked, Ac!Tags
<1> QED BY <1>1, <1>2, <1>3, <1>4

(* A call that is answered. *)
LEMMA AnsweredIs ==
  ASSUME NEW c \in Ac!Calls, NEW answer \in Ac!Answers
  PROVE LET d == [c EXCEPT !.answer = answer]
        IN  d \in Ac!Calls /\ d.kind = c.kind /\ d.account = c.account /\ d.answer = answer
<1>1. [c EXCEPT !.answer = answer] \in Ac!Calls BY DEF Ac!Calls
<1>2. [c EXCEPT !.answer = answer].kind = c.kind BY DEF Ac!Calls
<1>3. [c EXCEPT !.answer = answer].account = c.account BY DEF Ac!Calls
<1>4. [c EXCEPT !.answer = answer].answer = answer BY DEF Ac!Calls
<1> QED BY <1>1, <1>2, <1>3, <1>4

(* A click sends one call. *)
LEMMA CalledIs ==
  ASSUME Ac!ServerType, NEW k \in {"archive", "unarchive"}, NEW a \in accAccounts, Ac!Call(k, a)
  PROVE \E c \in Ac!Calls : Called(c)
<1> DEFINE c == [kind |-> k, account |-> a, answer |-> Ac!Waiting, n |-> v16]
<1>1. c \in Ac!Calls /\ c.answer = Ac!Waiting BY WaitingIs DEF Ac!Calls, Ac!ServerType
<1>2. v9' = v9 \cup {c} BY DEF Ac!Call
<1>3. v16' \in Nat /\ UNCHANGED <<Ac!serverVars, Ac!modalVars, v10, v11, Ac!historyVars>>
  BY DEF Ac!Call, Ac!Clicks, Ac!ServerType
<1> HIDE DEF c
<1> QED BY <1>1, <1>2, <1>3 DEF Called

(* The server looks at an account, then archives it. *)
LEMMA ArchiveServedIs ==
  ASSUME Ac!ServerType, Ac!MessageType, NEW c \in v9, Ac!CheckArchive(c) \/ Ac!ServeArchive(c)
  PROVE \E d \in Ac!Calls : CallLooked(c, d) \/ CallSaved(c, d)
<1>0. c \in Ac!Calls /\ c.account \in accAccounts BY DEF Ac!MessageType, Ac!Calls
<1>1. CASE Ac!CheckArchive(c)
  <2> DEFINE v == Ac!Archive(c.account)
             d == [c EXCEPT !.answer = v]
  <2>1. v \in Ac!Answers /\ Looked(c.account, v) BY <1>0, LookedIs
  <2>2. v9' = (v9 \ {c}) \cup {d} BY <1>1 DEF Ac!CheckArchive, Ac!Answered
  <2> HIDE DEF v
  <2>3. d \in Ac!Calls /\ d.kind = c.kind /\ d.account = c.account /\ d.answer = v BY <1>0, <2>1, AnsweredIs
  <2> HIDE DEF d
  <2>4. /\ c.kind = "archive" /\ UNCHANGED <<Ac!modalVars, v10, v11, v16>>
        /\ UNCHANGED <<Ac!serverVars, Ac!historyVars>>
    BY <1>1 DEF Ac!CheckArchive
  <2>5. CallLooked(c, d) BY <2>1, <2>2, <2>3, <2>4 DEF CallLooked, Becomes
  <2> QED BY <2>3, <2>5
<1>2. CASE Ac!ServeArchive(c)
  <2> DEFINE v == Ac!Said("ok")
             d == [c EXCEPT !.answer = v]
  <2>1. v \in Ac!Answers /\ Written(v) BY SaidIs DEF Ac!Tags, Written
  <2>2. v9' = (v9 \ {c}) \cup {d} BY <1>2 DEF Ac!ServeArchive, Ac!Answered
  <2> HIDE DEF v
  <2>3. d \in Ac!Calls /\ d.kind = c.kind /\ d.account = c.account /\ d.answer = v BY <1>0, <2>1, AnsweredIs
  <2> HIDE DEF d
  <2>4. /\ c.kind = "archive" /\ UNCHANGED <<Ac!modalVars, v10, v11, v16>>
        /\ Ac!Checked(c) /\ Ac!Closes(c.account) /\ UNCHANGED <<v1, v2, v3, v4, v12, v13, v14>>
    BY <1>2 DEF Ac!ServeArchive
  <2>5. CallSaved(c, d) BY <2>1, <2>2, <2>3, <2>4 DEF CallSaved, Becomes
  <2> QED BY <2>3, <2>5
<1> QED BY <1>1, <1>2

(* The server restores an account. *)
LEMMA UnarchiveServedIs ==
  ASSUME Ac!ServerType, Ac!MessageType, NEW c \in v9, Ac!ServeUnarchive(c)
  PROVE \E d \in Ac!Calls : UnarchiveServed(c, d)
<1>0. c \in Ac!Calls /\ c.account \in accAccounts BY DEF Ac!MessageType, Ac!Calls
<1>1. /\ c.kind = "unarchive" /\ v5' = v5 \ {c.account} /\ UNCHANGED <<Ac!modalVars, v10, v11, v16>>
      /\ UNCHANGED <<v1, v2, v3, v4, Ac!historyVars>>
  BY DEF Ac!ServeUnarchive
<1>2. CASE c.account \in v5
  <2> DEFINE s == {i \in accInvestments : v2[i] = c.account}
             w == v12[c.account]
             v == [tag |-> "ok", list |-> s, was |-> w]
             d == [c EXCEPT !.answer = v]
  <2>1. v9' = (v9 \ {c}) \cup {d} BY <1>2 DEF Ac!ServeUnarchive, Ac!Answered
  <2>2. s \subseteq accInvestments /\ w \subseteq accInvestments BY <1>0 DEF Ac!ServerType
  <2> HIDE DEF s, w
  <2>3. v \in Ac!Answers /\ v.tag = "ok" /\ v.list = s /\ v.was = w BY <2>2 DEF Ac!Answers, Ac!Tags
  <2> HIDE DEF v
  <2>4. d \in Ac!Calls /\ d.kind = c.kind /\ d.account = c.account /\ d.answer = v BY <1>0, <2>3, AnsweredIs
  <2> HIDE DEF d
  <2>5. UnarchiveServed(c, d) BY <1>1, <2>1, <2>3, <2>4 DEF UnarchiveServed, Becomes, s, w
  <2> QED BY <2>4, <2>5
<1>3. CASE c.account \notin v5
  <2> DEFINE v == Ac!Said("refused")
             d == [c EXCEPT !.answer = v]
  <2>1. v9' = (v9 \ {c}) \cup {d} BY <1>3 DEF Ac!ServeUnarchive, Ac!Answered
  <2>2. v \in Ac!Answers /\ v.tag = "refused" /\ v.list = {} BY SaidIs DEF Ac!Tags
  <2> HIDE DEF v
  <2>3. d \in Ac!Calls /\ d.kind = c.kind /\ d.account = c.account /\ d.answer = v BY <1>0, <2>2, AnsweredIs
  <2> HIDE DEF d
  <2>4. UnarchiveServed(c, d) BY <1>1, <2>1, <2>2, <2>3 DEF UnarchiveServed, Becomes
  <2> QED BY <2>3, <2>4
<1> QED BY <1>2, <1>3

(* The two dialogs start a loop over what is to be moved. *)
LEMMA StartedIs ==
  ASSUME Ac!AccountsAssumption, Ac!ServerType, Ac!MigrateType, Ac!RollbackType,
         Ac!HandleMigrateAndArchive \/ Ac!HandleRollback
  PROVE \E l \in Ac!Loops : Started(l)
<1>1. CASE Ac!HandleMigrateAndArchive
  <2> DEFINE l == [kind |-> "migrate", account |-> v6.account, left |-> v6.assets,
                   to |-> v6.destination, from |-> None, answer |-> Ac!Waiting, n |-> v16]
  <2>1. v10' = v10 \cup {l} BY <1>1 DEF Ac!HandleMigrateAndArchive, Ac!Starts
  <2>2. /\ v6 # None /\ v16' \in Nat
        /\ UNCHANGED <<Ac!serverVars, Ac!modalVars, v9, v11, Ac!historyVars>>
    BY <1>1 DEF Ac!HandleMigrateAndArchive, Ac!Starts, Ac!Clicks, Ac!ServerType
  <2>3. l \in Ac!Loops
    <3>1. /\ v6.account \in accAccounts /\ v6.assets \in SUBSET accInvestments
          /\ v6.destination \in accAccounts /\ v16 \in Nat
      BY <1>1 DEF Ac!HandleMigrateAndArchive, Ac!MigrateType, Ac!ServerType
    <3> QED BY <3>1, WaitingIs DEF Ac!Loops
  <2>4. l.kind = "migrate" /\ l.account = v6.account /\ l.left = v6.assets /\ l.answer = Ac!Waiting OBVIOUS
  <2> HIDE DEF l
  <2> QED BY <2>1, <2>2, <2>3, <2>4 DEF Started
<1>2. CASE Ac!HandleRollback
  <2> DEFINE l == [kind |-> "rollback", account |-> v7.account, left |-> v7.candidates,
                   to |-> v7.account, from |-> None, answer |-> Ac!Waiting, n |-> v16]
  <2>1. v10' = v10 \cup {l} BY <1>2 DEF Ac!HandleRollback, Ac!Starts
  <2>2. /\ v7 # None /\ v16' \in Nat
        /\ UNCHANGED <<Ac!serverVars, Ac!modalVars, v9, v11, Ac!historyVars>>
    BY <1>2 DEF Ac!HandleRollback, Ac!Starts, Ac!Clicks, Ac!ServerType
  <2>3. l \in Ac!Loops
    <3>1. /\ v7.account \in accAccounts /\ v7.candidates \in SUBSET accInvestments
          /\ v16 \in Nat
      BY <1>2 DEF Ac!HandleRollback, Ac!RollbackType, Ac!ServerType
    <3> QED BY <3>1, WaitingIs DEF Ac!Loops
  <2>4. l.kind = "rollback" /\ l.account = v7.account /\ l.left = v7.candidates /\ l.answer = Ac!Waiting OBVIOUS
  <2> HIDE DEF l
  <2> QED BY <2>1, <2>2, <2>3, <2>4 DEF Started
<1> QED BY <1>1, <1>2

(* A loop with another answer is a loop. *)
LEMMA LoopIs ==
  ASSUME NEW l \in Ac!Loops, NEW answer \in Ac!Answers
  PROVE LET m == [l EXCEPT !.answer = answer]
        IN  m \in Ac!Loops /\ m.kind = l.kind /\ m.account = l.account /\ m.left = l.left /\ m.to = l.to
              /\ m.answer = answer
<1>1. [l EXCEPT !.answer = answer] \in Ac!Loops BY DEF Ac!Loops
<1>2. [l EXCEPT !.answer = answer].kind = l.kind BY DEF Ac!Loops
<1>3. [l EXCEPT !.answer = answer].account = l.account BY DEF Ac!Loops
<1>4. [l EXCEPT !.answer = answer].left = l.left BY DEF Ac!Loops
<1>5. [l EXCEPT !.answer = answer].to = l.to BY DEF Ac!Loops
<1>6. [l EXCEPT !.answer = answer].answer = answer BY DEF Ac!Loops
<1> QED BY <1>1, <1>2, <1>3, <1>4, <1>5, <1>6

(* The next investment of a loop is one it has left. *)
LEMMA FirstIs == ASSUME NEW l, l.left # {} PROVE Ac!First(l) \in l.left
BY DEF Ac!First

(* The server looks at the destination, then moves the investment. *)
LEMMA MoveServedIs ==
  ASSUME Ac!ServerType, Ac!MessageType, NEW l \in v10, Ac!CheckMove(l) \/ Ac!ServeMove(l)
  PROVE \E m \in Ac!Loops : MoveLooked(l, m) \/ Moved(l, m)
<1>0. l \in Ac!Loops /\ l.left \subseteq accInvestments /\ l.left # {}
  BY DEF Ac!MessageType, Ac!Loops, Ac!CheckMove, Ac!ServeMove
<1> DEFINE i == Ac!First(l)
<1>i. i \in accInvestments BY <1>0, FirstIs
<1> HIDE DEF i
<1>1. CASE Ac!CheckMove(l) /\ Ac!Accepts(i, l.to)
  <2> DEFINE v == Ac!Said("checked")
             f == v1[i]
             m == [l EXCEPT !.answer = v, !.from = f]
  <2>1. v10' = (v10 \ {l}) \cup {m} BY <1>1 DEF Ac!CheckMove, Ac!Changes, i
  <2>2. v \in Ac!Answers /\ v.tag = "checked" BY SaidIs DEF Ac!Tags
  <2>3. f \in accAccounts \cup {None} BY <1>i DEF Ac!ServerType
  <2>4. l.to \notin v5 BY <1>1 DEF Ac!Accepts
  <2> HIDE DEF v, f
  <2>5. m \in Ac!Loops /\ m.kind = l.kind /\ m.account = l.account /\ m.left = l.left /\ m.to = l.to
          /\ m.answer = v /\ m.from = f
    <3>1. m \in Ac!Loops BY <1>0, <2>2, <2>3 DEF Ac!Loops
    <3>2. m.kind = l.kind /\ m.account = l.account /\ m.to = l.to BY <1>0 DEF Ac!Loops
    <3>3. m.left = l.left BY <1>0 DEF Ac!Loops
    <3>4. m.answer = v BY <1>0 DEF Ac!Loops
    <3>5. m.from = f BY <1>0 DEF Ac!Loops
    <3> QED BY <3>1, <3>2, <3>3, <3>4, <3>5
  <2> HIDE DEF m
  <2>6. UNCHANGED <<Ac!modalVars, v9, v11, v16>> /\ UNCHANGED <<Ac!serverVars, Ac!historyVars>>
    BY <1>1 DEF Ac!CheckMove
  <2>7. MoveLooked(l, m) BY <1>0, <2>1, <2>2, <2>4, <2>5, <2>6 DEF MoveLooked, Goes, f, i
  <2> QED BY <2>5, <2>7
<1>2. CASE Ac!CheckMove(l) /\ ~Ac!Accepts(i, l.to)
  <2> DEFINE v == Ac!Said("refused")
             m == [l EXCEPT !.answer = v]
  <2>1. v10' = (v10 \ {l}) \cup {m} BY <1>2 DEF Ac!CheckMove, Ac!Changes, i
  <2>2. v \in Ac!Answers /\ v.tag = "refused" BY SaidIs DEF Ac!Tags
  <2> HIDE DEF v
  <2>3. m \in Ac!Loops /\ m.kind = l.kind /\ m.account = l.account /\ m.left = l.left /\ m.to = l.to
          /\ m.answer = v
    BY <1>0, <2>2, LoopIs
  <2> HIDE DEF m
  <2>4. UNCHANGED <<Ac!modalVars, v9, v11, v16>> /\ UNCHANGED <<Ac!serverVars, Ac!historyVars>>
    BY <1>2 DEF Ac!CheckMove
  <2>5. MoveLooked(l, m) BY <1>0, <2>1, <2>2, <2>3, <2>4 DEF MoveLooked, Goes, Ac!Checked
  <2> QED BY <2>3, <2>5
<1>3. CASE Ac!ServeMove(l)
  <2> DEFINE v == Ac!Said("ok")
             m == [l EXCEPT !.answer = v, !.from = None]
  <2>1. v10' = (v10 \ {l}) \cup {m} BY <1>3 DEF Ac!ServeMove, Ac!Changes
  <2>2. v \in Ac!Answers /\ v.tag = "ok" BY SaidIs DEF Ac!Tags
  <2> HIDE DEF v
  <2>3. m \in Ac!Loops /\ m.kind = l.kind /\ m.account = l.account /\ m.left = l.left /\ m.to = l.to
          /\ m.answer = v
    <3>1. m \in Ac!Loops BY <1>0, <2>2 DEF Ac!Loops
    <3>2. m.kind = l.kind /\ m.account = l.account /\ m.to = l.to BY <1>0 DEF Ac!Loops
    <3>3. m.left = l.left BY <1>0 DEF Ac!Loops
    <3>4. m.answer = v BY <1>0 DEF Ac!Loops
    <3> QED BY <3>1, <3>2, <3>3, <3>4
  <2> HIDE DEF m
  <2>4. /\ UNCHANGED <<Ac!modalVars, v9, v11, v16>> /\ UNCHANGED <<v3, v4, v5, v14>> /\ Ac!Checked(l)
        /\ Ac!MovePosition(Ac!First(l), l.to, l.from) /\ Ac!Enters(Ac!First(l), l.to)
    BY <1>3 DEF Ac!ServeMove, Ac!ComesFrom
  <2>5. /\ v12' = [a \in accAccounts |->
             (v12[a] \ {Ac!First(l)}) \cup IF a = l.account /\ l.kind = "migrate" THEN {Ac!First(l)} ELSE {}]
        /\ v13' = (v13 \/ v2[Ac!First(l)] # None)
    BY <1>3 DEF Ac!ServeMove
  <2>6. Goes(l, m) BY <2>1, <2>3, <2>4 DEF Goes
  <2>7. Moved(l, m) BY <1>0, <2>2, <2>3, <2>4, <2>5, <2>6 DEF Moved
  <2> QED BY <2>3, <2>7
<1> QED BY <1>1, <1>2, <1>3

(* The last call of a loop archives the account. *)
LEMMA LastServedIs ==
  ASSUME Ac!ServerType, Ac!MessageType, NEW l \in v10, Ac!CheckLast(l) \/ Ac!ServeLast(l)
  PROVE \E m \in Ac!Loops : LastLooked(l, m) \/ LastSaved(l, m)
<1>0. l \in Ac!Loops /\ l.account \in accAccounts BY DEF Ac!MessageType, Ac!Loops
<1>1. CASE Ac!CheckLast(l)
  <2> DEFINE v == Ac!Archive(l.account)
             m == [l EXCEPT !.answer = v]
  <2>1. v \in Ac!Answers /\ Looked(l.account, v) BY <1>0, LookedIs
  <2>2. v10' = (v10 \ {l}) \cup {m} BY <1>1 DEF Ac!CheckLast, Ac!Changes
  <2> HIDE DEF v
  <2>3. m \in Ac!Loops /\ m.kind = l.kind /\ m.account = l.account /\ m.left = l.left /\ m.to = l.to
          /\ m.answer = v
    BY <1>0, <2>1, LoopIs
  <2> HIDE DEF m
  <2>4. /\ l.left = {} /\ UNCHANGED <<Ac!modalVars, v9, v11, v16>>
        /\ UNCHANGED <<Ac!serverVars, Ac!historyVars>>
    BY <1>1 DEF Ac!CheckLast
  <2>5. LastLooked(l, m) BY <2>1, <2>2, <2>3, <2>4 DEF LastLooked, Goes
  <2> QED BY <2>3, <2>5
<1>2. CASE Ac!ServeLast(l)
  <2> DEFINE v == Ac!Said("ok")
             m == [l EXCEPT !.answer = v]
  <2>1. v \in Ac!Answers /\ Written(v) BY SaidIs DEF Ac!Tags, Written
  <2>2. v10' = (v10 \ {l}) \cup {m} BY <1>2 DEF Ac!ServeLast, Ac!Changes
  <2> HIDE DEF v
  <2>3. m \in Ac!Loops /\ m.kind = l.kind /\ m.account = l.account /\ m.left = l.left /\ m.to = l.to
          /\ m.answer = v
    BY <1>0, <2>1, LoopIs
  <2> HIDE DEF m
  <2>4. /\ l.left = {} /\ UNCHANGED <<Ac!modalVars, v9, v11, v16>>
        /\ Ac!Checked(l) /\ Ac!Closes(l.account) /\ UNCHANGED <<v1, v2, v3, v4, v12, v13, v14>>
    BY <1>2 DEF Ac!ServeLast
  <2>5. LastSaved(l, m) BY <2>1, <2>2, <2>3, <2>4 DEF LastSaved, Goes
  <2> QED BY <2>3, <2>5
<1> QED BY <1>1, <1>2

(* An answer stops the loop or takes it to the next investment. *)
LEMMA LoopHeardIs ==
  ASSUME Ac!MessageType, NEW l \in v10, Ac!HearMove(l) \/ Ac!HearNoMove(l) \/ Ac!LostMove(l) \/ Ac!HearLast(l)
  PROVE Stopped(l) \/ \E m \in Ac!Loops : NextMove(l, m)
<1>0. l \in Ac!Loops BY DEF Ac!MessageType
<1>1. CASE Ac!HearNoMove(l) \/ Ac!LostMove(l) \/ Ac!HearLast(l)
  BY <1>1 DEF Ac!HearNoMove, Ac!LostMove, Ac!HearLast, Ac!Unserved, Ac!Stops, Stopped, Ac!modalVars
<1>2. CASE Ac!HearMove(l) /\ l.kind = "rollback" /\ Ac!Left(l) = {}
  BY <1>2 DEF Ac!HearMove, Ac!Unserved, Ac!Stops, Stopped, Ac!Quiet
<1>3. CASE Ac!HearMove(l) /\ ~(l.kind = "rollback" /\ Ac!Left(l) = {})
  <2> DEFINE w == Ac!Waiting
             s == Ac!Left(l)
             m == [l EXCEPT !.left = s, !.answer = w]
  <2>1. v10' = (v10 \ {l}) \cup {m} BY <1>3 DEF Ac!HearMove, Ac!Changes
  <2>2. w \in Ac!Answers /\ s \in SUBSET accInvestments /\ s \subseteq l.left
    BY <1>0, WaitingIs DEF Ac!Left, Ac!Loops
  <2>3. l.kind = "rollback" => s # {} BY <1>3
  <2>w. w = Ac!Waiting OBVIOUS
  <2> HIDE DEF w, s
  <2>4. m \in Ac!Loops /\ m.kind = l.kind /\ m.account = l.account /\ m.left = s /\ m.to = l.to
          /\ m.answer = w
    <3>1. m \in Ac!Loops BY <1>0, <2>2 DEF Ac!Loops
    <3>2. m.kind = l.kind /\ m.account = l.account /\ m.to = l.to BY <1>0 DEF Ac!Loops
    <3>3. m.left = s BY <1>0 DEF Ac!Loops
    <3>4. m.answer = w BY <1>0 DEF Ac!Loops
    <3> QED BY <3>1, <3>2, <3>3, <3>4
  <2> HIDE DEF m
  <2>5. UNCHANGED <<Ac!modalVars, v9, v11, v16>> /\ UNCHANGED <<Ac!serverVars, Ac!historyVars>>
    BY <1>3 DEF Ac!HearMove, Ac!Unserved, Ac!Quiet, Ac!modalVars
  <2>6. NextMove(l, m) BY <2>1, <2>2, <2>3, <2>4, <2>5, <2>w DEF NextMove, Goes
  <2> QED BY <2>4, <2>6
<1> QED BY <1>1, <1>2, <1>3

(* What a step of the accounts may be. *)
LEMMA AccountsCases ==
  ASSUME Ac!AccountsAssumption, Ac!IInv, Ac!Next
  PROVE \/ \E c \in Ac!Calls : Called(c)
        \/ \E c \in v9 : \/ \E d \in Ac!Calls : CallLooked(c, d) \/ CallSaved(c, d) \/ UnarchiveServed(c, d)
                         \/ Ac!HearArchive(c) \/ Ac!HearUnarchive(c) \/ Ac!Lost(c)
        \/ Ac!CloseModals \/ \E l \in Ac!Loops : Started(l)
        \/ \E l \in v10 : \/ Stopped(l)
                          \/ \E m \in Ac!Loops : \/ MoveLooked(l, m) \/ Moved(l, m) \/ LastLooked(l, m)
                                                 \/ LastSaved(l, m) \/ NextMove(l, m)
        \/ \E a \in accAccounts : Ac!SetDestination(a) \/ Ac!SaveAdjustBalance(a)
        \/ \E i \in accInvestments : Ac!Trade(i) \/ \E a \in accAccounts : Ac!CheckAsset(i, a)
        \/ \E e \in v11 : Ac!SaveAsset(e)
<1>0. Ac!ServerType /\ Ac!MigrateType /\ Ac!RollbackType /\ Ac!MessageType BY DEF Ac!IInv
<1>1. CASE \E a \in accAccounts : Ac!HandleArchive(a) \/ Ac!HandleUnarchive(a)
  <2>1. PICK a \in accAccounts : Ac!Call("archive", a) \/ Ac!Call("unarchive", a)
    BY <1>1 DEF Ac!HandleArchive, Ac!HandleUnarchive
  <2> QED BY <1>0, <2>1, CalledIs
<1>2. CASE \E c \in v9 : Ac!CheckArchive(c) \/ Ac!ServeArchive(c) BY <1>0, <1>2, ArchiveServedIs
<1>3. CASE \E c \in v9 : Ac!ServeUnarchive(c) BY <1>0, <1>3, UnarchiveServedIs
<1>4. CASE Ac!HandleMigrateAndArchive \/ Ac!HandleRollback BY <1>0, <1>4, StartedIs
<1>5. CASE \E l \in v10 : Ac!CheckMove(l) \/ Ac!ServeMove(l) BY <1>0, <1>5, MoveServedIs
<1>6. CASE \E l \in v10 : Ac!CheckLast(l) \/ Ac!ServeLast(l) BY <1>0, <1>6, LastServedIs
<1>7. CASE \E l \in v10 : Ac!HearMove(l) \/ Ac!HearNoMove(l) \/ Ac!LostMove(l) \/ Ac!HearLast(l)
  BY <1>0, <1>7, LoopHeardIs
<1>8. CASE \E c \in v9 : Ac!HearArchive(c) \/ Ac!HearUnarchive(c) \/ Ac!Lost(c) BY <1>8
<1>9. CASE \E e \in v11 : Ac!SaveAsset(e) BY <1>9
<1>10. CASE \E i \in accInvestments : Ac!Trade(i) \/ \E a \in accAccounts : Ac!CheckAsset(i, a) BY <1>10
<1>11. CASE Ac!CloseModals \/ \E a \in accAccounts : Ac!SetDestination(a) \/ Ac!SaveAdjustBalance(a) BY <1>11
<1> QED BY <1>1, <1>2, <1>3, <1>4, <1>5, <1>6, <1>7, <1>8, <1>9, <1>10, <1>11 DEF Ac!Next

(* A step is silent, or the server has looked or written. *)
LEMMA AccountsForms ==
  ASSUME Ac!AccountsAssumption, Ac!IInv, Ac!Next
  PROVE \/ Silent
        \/ \E c \in v9, d \in Ac!Calls : CallLooked(c, d) \/ CallSaved(c, d) \/ UnarchiveServed(c, d)
        \/ \E l \in v10, m \in Ac!Loops : MoveLooked(l, m) \/ Moved(l, m) \/ LastLooked(l, m) \/ LastSaved(l, m)
        \/ \E i \in accInvestments : Ac!Trade(i) \/ \E a \in accAccounts : Ac!CheckAsset(i, a)
        \/ \E e \in v11 : Ac!SaveAsset(e)
<1> USE DEF Silent, Ac!Checked
<1>0. Ac!ServerType /\ Ac!MigrateType /\ Ac!RollbackType /\ Ac!MessageType BY DEF Ac!IInv
<1>1. ASSUME NEW c \in Ac!Calls, Called(c) PROVE Silent
BY <1>1, WaitingIs DEF Called
<1>2. ASSUME NEW c \in v9, Ac!HearArchive(c) PROVE Silent
BY <1>2, WaitingIs DEF Ac!HearArchive, Ac!Done
<1>3. ASSUME NEW c \in v9, Ac!HearUnarchive(c) PROVE Silent
BY <1>3, WaitingIs DEF Ac!HearUnarchive, Ac!Done, Ac!Offers
<1>4. ASSUME NEW c \in v9, Ac!Lost(c) PROVE Silent
BY <1>4, WaitingIs DEF Ac!Lost, Ac!Done
<1>5. ASSUME NEW a \in accAccounts, Ac!SetDestination(a) PROVE Silent
BY <1>5, WaitingIs DEF Ac!SetDestination
<1>6. CASE Ac!CloseModals
BY <1>6, WaitingIs DEF Ac!CloseModals
<1>7. ASSUME NEW l \in Ac!Loops, Started(l) PROVE Silent
BY <1>7, WaitingIs DEF Started
<1>8. ASSUME NEW l \in v10, NEW m \in Ac!Loops, NextMove(l, m) PROVE Silent
BY <1>8, WaitingIs DEF NextMove, Goes
<1>9. ASSUME NEW l \in v10, Stopped(l) PROVE Silent
BY <1>9, WaitingIs DEF Stopped
<1>10. ASSUME NEW a \in accAccounts, Ac!SaveAdjustBalance(a) PROVE Silent
BY <1>10, WaitingIs DEF Ac!SaveAdjustBalance, Ac!Elsewhere
<1> QED BY AccountsCases, <1>1, <1>2, <1>3, <1>4, <1>5, <1>6, <1>7, <1>8, <1>9, <1>10

(* The positions on their way are investments. *)
LEMMA EnteringIs ==
  ASSUME Ac!MessageType, NEW a
  PROVE Ac!Entering(a) \subseteq accInvestments
BY FirstIs DEF Ac!MessageType, Ac!Loops, Ac!Entering

(* As long as nothing is moved again, a migration moves what is on its account. *)
LEMMA MovedIs ==
  ASSUME Ac!AccountsAssumption, Ac!IInv, NEW l \in v10, NEW m \in Ac!Loops, Moved(l, m), ~v13'
  PROVE /\ Ac!First(l) \in accInvestments /\ ~v13 /\ l.account \in accAccounts
        /\ l.kind = "migrate" /\ l.from = l.account
<1>0. /\ Ac!MessageType /\ Ac!ServerType /\ Ac!LeavingInv /\ Ac!WanderedInv /\ Ac!FromInv BY DEF Ac!IInv
<1>1. Ac!First(l) \in l.left /\ l.left # {} /\ Ac!Checked(l) /\ ~v13 /\ v2[Ac!First(l)] = None
  BY FirstIs DEF Moved
<1>2. l.left \subseteq accInvestments /\ l.account \in accAccounts /\ l.kind \in {"migrate", "rollback"}
  BY <1>0 DEF Ac!MessageType, Ac!Loops
<1>3. l.kind # "rollback" BY <1>0, <1>1 DEF Ac!WanderedInv, Ac!Wandered
<1>4. v1[Ac!First(l)] = l.account BY <1>0, <1>1, <1>2, <1>3 DEF Ac!LeavingInv, Ac!Leaving
<1>5. l.from = v1[Ac!First(l)] BY <1>0, <1>1 DEF Ac!FromInv
<1> QED BY <1>1, <1>2, <1>3, <1>4, <1>5

(* The server keeps accounts, investments and where they were. *)
LEMMA AccountsServer ==
  ASSUME Ac!AccountsAssumption, Ac!IInv, Ac!Next
  PROVE Ac!ServerType'
<1> USE DEF Ac!ServerType, Ac!Closing, Ac!Entering
<1>0. Ac!ServerType /\ Ac!MessageType BY DEF Ac!IInv
<1>1. ASSUME NEW c \in Ac!Calls, Called(c) PROVE Ac!ServerType'
BY <1>0, <1>1, AccountsConstants DEF Called
<1>2. ASSUME NEW c \in v9, Ac!HearArchive(c) PROVE Ac!ServerType'
BY <1>0, <1>2, AccountsConstants DEF Ac!HearArchive, Ac!Done
<1>3. ASSUME NEW c \in v9, Ac!HearUnarchive(c) PROVE Ac!ServerType'
BY <1>0, <1>3, AccountsConstants DEF Ac!HearUnarchive, Ac!Done, Ac!Offers
<1>4. ASSUME NEW c \in v9, Ac!Lost(c) PROVE Ac!ServerType'
BY <1>0, <1>4, AccountsConstants DEF Ac!Lost, Ac!Done
<1>5. ASSUME NEW a \in accAccounts, Ac!SetDestination(a) PROVE Ac!ServerType'
BY <1>0, <1>5, AccountsConstants DEF Ac!SetDestination
<1>6. CASE Ac!CloseModals
BY <1>0, <1>6, AccountsConstants DEF Ac!CloseModals
<1>7. ASSUME NEW l \in Ac!Loops, Started(l) PROVE Ac!ServerType'
BY <1>0, <1>7, AccountsConstants DEF Started
<1>8. ASSUME NEW l \in v10, NEW m \in Ac!Loops, NextMove(l, m) PROVE Ac!ServerType'
BY <1>0, <1>8, AccountsConstants DEF NextMove, Goes
<1>9. ASSUME NEW l \in v10, Stopped(l) PROVE Ac!ServerType'
BY <1>0, <1>9, AccountsConstants DEF Stopped
<1>10. ASSUME NEW a \in accAccounts, Ac!SaveAdjustBalance(a) PROVE Ac!ServerType'
BY <1>0, <1>10, AccountsConstants DEF Ac!SaveAdjustBalance, Ac!Elsewhere
<1>11. ASSUME NEW c \in v9, NEW d \in Ac!Calls, CallLooked(c, d) PROVE Ac!ServerType'
BY <1>0, <1>11, AccountsConstants DEF CallLooked, Becomes, Looked
<1>12. ASSUME NEW c \in v9, NEW d \in Ac!Calls, CallSaved(c, d) PROVE Ac!ServerType'
  BY <1>0, <1>12, EnteringIs DEF CallSaved, Becomes, Ac!Closes, Ac!MessageType, Ac!Calls
<1>13. ASSUME NEW c \in v9, NEW d \in Ac!Calls, UnarchiveServed(c, d) PROVE Ac!ServerType'
BY <1>0, <1>13, AccountsConstants DEF UnarchiveServed, Becomes
<1>14. ASSUME NEW l \in v10, NEW m \in Ac!Loops, MoveLooked(l, m) PROVE Ac!ServerType'
BY <1>0, <1>14, AccountsConstants DEF MoveLooked, Goes
<1>15. ASSUME NEW l \in v10, NEW m \in Ac!Loops, Moved(l, m) PROVE Ac!ServerType'
  <2> DEFINE i == Ac!First(l)
  <2>1. i \in accInvestments /\ l.to \in accAccounts /\ l.from \in accAccounts \cup {None}
    BY <1>0, <1>15, FirstIs DEF Moved, Ac!MessageType, Ac!Loops
  <2>2. /\ Ac!MovePosition(i, l.to, l.from) /\ Ac!Enters(i, l.to) /\ UNCHANGED <<v3, v4, v5, v14, v16>>
        /\ v12' = [a \in accAccounts |->
             (v12[a] \ {i}) \cup IF a = l.account /\ l.kind = "migrate" THEN {i} ELSE {}]
        /\ v13' = (v13 \/ v2[i] # None)
    BY <1>15 DEF Moved, Goes
  <2> HIDE DEF i
  <2> QED BY <1>0, <2>1, <2>2 DEF Ac!MovePosition, Ac!Enters
<1>16. ASSUME NEW l \in v10, NEW m \in Ac!Loops, LastLooked(l, m) PROVE Ac!ServerType'
BY <1>0, <1>16, AccountsConstants DEF LastLooked, Goes, Looked
<1>17. ASSUME NEW l \in v10, NEW m \in Ac!Loops, LastSaved(l, m) PROVE Ac!ServerType'
  BY <1>0, <1>17, EnteringIs DEF LastSaved, Goes, Ac!Closes, Ac!MessageType, Ac!Loops
<1>18. ASSUME NEW i \in accInvestments, NEW a \in accAccounts, Ac!CheckAsset(i, a) PROVE Ac!ServerType'
  BY <1>0, <1>18 DEF Ac!CheckAsset, Ac!Elsewhere
<1>19. ASSUME NEW e \in v11, Ac!SaveAsset(e) PROVE Ac!ServerType'
  <2>1. e.asset \in accInvestments /\ e.to \in accAccounts /\ e.was \in accAccounts \cup {None}
    BY <1>0, <1>19 DEF Ac!MessageType
  <2> QED BY <1>0, <1>19, <2>1 DEF Ac!SaveAsset, Ac!MovePosition, Ac!Enters
<1>20. ASSUME NEW i \in accInvestments, Ac!Trade(i) PROVE Ac!ServerType'
BY <1>0, <1>20, AccountsConstants DEF Ac!Trade, Ac!Elsewhere, Ac!Enters
<1> QED BY AccountsCases, <1>1, <1>2, <1>3, <1>4, <1>5, <1>6, <1>7, <1>8, <1>9, <1>10, <1>11, <1>12, <1>13,
  <1>14, <1>15, <1>16, <1>17, <1>18, <1>19, <1>20

(* The sheet of a migration lists something to move. *)
LEMMA AccountsMigrate ==
  ASSUME Ac!AccountsAssumption, Ac!IInv, Ac!Next
  PROVE Ac!MigrateType'
<1> USE DEF Ac!MigrateType, Ac!MessageType, Ac!Calls
<1>0. Ac!MigrateType /\ Ac!MessageType BY DEF Ac!IInv
<1>1. ASSUME NEW c \in Ac!Calls, Called(c) PROVE Ac!MigrateType'
BY <1>0, <1>1, AccountsConstants DEF Called
<1>2. ASSUME NEW c \in v9, Ac!HearArchive(c) PROVE Ac!MigrateType'
  <2>1. CASE c.answer.tag # "open_positions"
    <3>1. v6' = v6 BY <1>2, <2>1 DEF Ac!HearArchive
    <3> QED BY <1>0, <3>1
  <2>2. CASE c.answer.tag = "open_positions"
    <3> DEFINE s == c.answer.list
               r == [account |-> c.account, assets |-> s, destination |-> None]
    <3>1. v6' = r BY <1>2, <2>2 DEF Ac!HearArchive
    <3>2. c.account \in accAccounts /\ s \in SUBSET accInvestments /\ s # {} BY <1>0, <2>2 DEF Ac!Answers
    <3> HIDE DEF s
    <3>3. /\ r \in [account : accAccounts, assets : SUBSET accInvestments, destination : accAccounts \cup {None}]
          /\ r.destination = None /\ r.account = c.account /\ r.assets = s
      BY <3>2
    <3> HIDE DEF r
    <3> QED BY <3>1, <3>2, <3>3, AccountsConstants
  <2> QED BY <2>1, <2>2
<1>3. ASSUME NEW c \in v9, Ac!HearUnarchive(c) PROVE Ac!MigrateType'
BY <1>0, <1>3, AccountsConstants DEF Ac!HearUnarchive, Ac!Done, Ac!Offers
<1>4. ASSUME NEW c \in v9, Ac!Lost(c) PROVE Ac!MigrateType'
BY <1>0, <1>4, AccountsConstants DEF Ac!Lost, Ac!Done
<1>5. ASSUME NEW a \in accAccounts, Ac!SetDestination(a) PROVE Ac!MigrateType'
BY <1>0, <1>5, AccountsConstants DEF Ac!SetDestination
<1>6. CASE Ac!CloseModals
BY <1>0, <1>6, AccountsConstants DEF Ac!CloseModals
<1>7. ASSUME NEW l \in Ac!Loops, Started(l) PROVE Ac!MigrateType'
BY <1>0, <1>7, AccountsConstants DEF Started
<1>8. ASSUME NEW l \in v10, NEW m \in Ac!Loops, NextMove(l, m) PROVE Ac!MigrateType'
BY <1>0, <1>8, AccountsConstants DEF NextMove, Goes
<1>9. ASSUME NEW l \in v10, Stopped(l) PROVE Ac!MigrateType'
BY <1>0, <1>9, AccountsConstants DEF Stopped
<1>10. ASSUME NEW a \in accAccounts, Ac!SaveAdjustBalance(a) PROVE Ac!MigrateType'
BY <1>0, <1>10, AccountsConstants DEF Ac!SaveAdjustBalance, Ac!Elsewhere
<1>11. ASSUME NEW c \in v9, NEW d \in Ac!Calls, CallLooked(c, d) PROVE Ac!MigrateType'
BY <1>0, <1>11, AccountsConstants DEF CallLooked, Becomes, Looked
<1>12. ASSUME NEW c \in v9, NEW d \in Ac!Calls, CallSaved(c, d) PROVE Ac!MigrateType'
BY <1>0, <1>12, AccountsConstants DEF CallSaved, Becomes, Written, Ac!Closes
<1>13. ASSUME NEW c \in v9, NEW d \in Ac!Calls, UnarchiveServed(c, d) PROVE Ac!MigrateType'
BY <1>0, <1>13, AccountsConstants DEF UnarchiveServed, Becomes
<1>14. ASSUME NEW l \in v10, NEW m \in Ac!Loops, MoveLooked(l, m) PROVE Ac!MigrateType'
BY <1>0, <1>14, AccountsConstants DEF MoveLooked, Goes
<1>15. ASSUME NEW l \in v10, NEW m \in Ac!Loops, Moved(l, m) PROVE Ac!MigrateType'
BY <1>0, <1>15, AccountsConstants DEF Moved, Goes, Ac!MovePosition, Ac!Enters
<1>16. ASSUME NEW l \in v10, NEW m \in Ac!Loops, LastLooked(l, m) PROVE Ac!MigrateType'
BY <1>0, <1>16, AccountsConstants DEF LastLooked, Goes, Looked
<1>17. ASSUME NEW l \in v10, NEW m \in Ac!Loops, LastSaved(l, m) PROVE Ac!MigrateType'
BY <1>0, <1>17, AccountsConstants DEF LastSaved, Goes, Written, Ac!Closes
<1>18. ASSUME NEW i \in accInvestments, NEW a \in accAccounts, Ac!CheckAsset(i, a) PROVE Ac!MigrateType'
BY <1>0, <1>18, AccountsConstants DEF Ac!CheckAsset, Ac!Elsewhere
<1>19. ASSUME NEW e \in v11, Ac!SaveAsset(e) PROVE Ac!MigrateType'
BY <1>0, <1>19, AccountsConstants DEF Ac!SaveAsset, Ac!MovePosition, Ac!Enters
<1>20. ASSUME NEW i \in accInvestments, Ac!Trade(i) PROVE Ac!MigrateType'
BY <1>0, <1>20, AccountsConstants DEF Ac!Trade, Ac!Elsewhere, Ac!Enters
<1> QED BY AccountsCases, <1>1, <1>2, <1>3, <1>4, <1>5, <1>6, <1>7, <1>8, <1>9, <1>10, <1>11, <1>12, <1>13,
  <1>14, <1>15, <1>16, <1>17, <1>18, <1>19, <1>20

(* The sheet of a restored account offers something. *)
LEMMA AccountsRollback ==
  ASSUME Ac!AccountsAssumption, Ac!IInv, Ac!Next
  PROVE Ac!RollbackType'
<1> USE DEF Ac!RollbackType, Ac!MessageType, Ac!Calls
<1>0. Ac!RollbackType /\ Ac!MessageType BY DEF Ac!IInv
<1>1. ASSUME NEW c \in Ac!Calls, Called(c) PROVE Ac!RollbackType'
BY <1>0, <1>1, AccountsConstants DEF Called
<1>2. ASSUME NEW c \in v9, Ac!HearArchive(c) PROVE Ac!RollbackType'
BY <1>0, <1>2, AccountsConstants DEF Ac!HearArchive, Ac!Done
<1>3. ASSUME NEW c \in v9, Ac!HearUnarchive(c) PROVE Ac!RollbackType'
  <2>1. CASE v7' = v7 BY <1>0, <2>1
  <2>2. CASE v7' # v7
    <3> DEFINE s == c.answer.list
               r == [account |-> c.account, candidates |-> s]
    <3>1. v7' = r /\ s # {} BY <1>3, <2>2 DEF Ac!HearUnarchive, Ac!Offers
    <3>2. c.account \in accAccounts /\ s \in SUBSET accInvestments BY <1>0 DEF Ac!Answers
    <3> HIDE DEF s
    <3>3. r \in [account : accAccounts, candidates : SUBSET accInvestments] /\ r.candidates = s BY <3>2
    <3> HIDE DEF r
    <3> QED BY <3>1, <3>2, <3>3
  <2> QED BY <2>1, <2>2
<1>4. ASSUME NEW c \in v9, Ac!Lost(c) PROVE Ac!RollbackType'
BY <1>0, <1>4, AccountsConstants DEF Ac!Lost, Ac!Done
<1>5. ASSUME NEW a \in accAccounts, Ac!SetDestination(a) PROVE Ac!RollbackType'
BY <1>0, <1>5, AccountsConstants DEF Ac!SetDestination
<1>6. CASE Ac!CloseModals
BY <1>0, <1>6, AccountsConstants DEF Ac!CloseModals
<1>7. ASSUME NEW l \in Ac!Loops, Started(l) PROVE Ac!RollbackType'
BY <1>0, <1>7, AccountsConstants DEF Started
<1>8. ASSUME NEW l \in v10, NEW m \in Ac!Loops, NextMove(l, m) PROVE Ac!RollbackType'
BY <1>0, <1>8, AccountsConstants DEF NextMove, Goes
<1>9. ASSUME NEW l \in v10, Stopped(l) PROVE Ac!RollbackType'
BY <1>0, <1>9, AccountsConstants DEF Stopped
<1>10. ASSUME NEW a \in accAccounts, Ac!SaveAdjustBalance(a) PROVE Ac!RollbackType'
BY <1>0, <1>10, AccountsConstants DEF Ac!SaveAdjustBalance, Ac!Elsewhere
<1>11. ASSUME NEW c \in v9, NEW d \in Ac!Calls, CallLooked(c, d) PROVE Ac!RollbackType'
BY <1>0, <1>11, AccountsConstants DEF CallLooked, Becomes, Looked
<1>12. ASSUME NEW c \in v9, NEW d \in Ac!Calls, CallSaved(c, d) PROVE Ac!RollbackType'
BY <1>0, <1>12, AccountsConstants DEF CallSaved, Becomes, Written, Ac!Closes
<1>13. ASSUME NEW c \in v9, NEW d \in Ac!Calls, UnarchiveServed(c, d) PROVE Ac!RollbackType'
BY <1>0, <1>13, AccountsConstants DEF UnarchiveServed, Becomes
<1>14. ASSUME NEW l \in v10, NEW m \in Ac!Loops, MoveLooked(l, m) PROVE Ac!RollbackType'
BY <1>0, <1>14, AccountsConstants DEF MoveLooked, Goes
<1>15. ASSUME NEW l \in v10, NEW m \in Ac!Loops, Moved(l, m) PROVE Ac!RollbackType'
BY <1>0, <1>15, AccountsConstants DEF Moved, Goes, Ac!MovePosition, Ac!Enters
<1>16. ASSUME NEW l \in v10, NEW m \in Ac!Loops, LastLooked(l, m) PROVE Ac!RollbackType'
BY <1>0, <1>16, AccountsConstants DEF LastLooked, Goes, Looked
<1>17. ASSUME NEW l \in v10, NEW m \in Ac!Loops, LastSaved(l, m) PROVE Ac!RollbackType'
BY <1>0, <1>17, AccountsConstants DEF LastSaved, Goes, Written, Ac!Closes
<1>18. ASSUME NEW i \in accInvestments, NEW a \in accAccounts, Ac!CheckAsset(i, a) PROVE Ac!RollbackType'
BY <1>0, <1>18, AccountsConstants DEF Ac!CheckAsset, Ac!Elsewhere
<1>19. ASSUME NEW e \in v11, Ac!SaveAsset(e) PROVE Ac!RollbackType'
BY <1>0, <1>19, AccountsConstants DEF Ac!SaveAsset, Ac!MovePosition, Ac!Enters
<1>20. ASSUME NEW i \in accInvestments, Ac!Trade(i) PROVE Ac!RollbackType'
BY <1>0, <1>20, AccountsConstants DEF Ac!Trade, Ac!Elsewhere, Ac!Enters
<1> QED BY AccountsCases, <1>1, <1>2, <1>3, <1>4, <1>5, <1>6, <1>7, <1>8, <1>9, <1>10, <1>11, <1>12, <1>13,
  <1>14, <1>15, <1>16, <1>17, <1>18, <1>19, <1>20

(* The calls stay what the page sends. *)
LEMMA AccountsMessages ==
  ASSUME Ac!AccountsAssumption, Ac!IInv, Ac!Next
  PROVE Ac!MessageType'
<1> USE DEF Ac!MessageType
<1>0. Ac!MessageType /\ Ac!MigrateType /\ Ac!RollbackType /\ Ac!ServerType BY DEF Ac!IInv
<1>1. ASSUME NEW c \in Ac!Calls, Called(c) PROVE Ac!MessageType'
BY <1>0, <1>1, AccountsConstants, WaitingIs DEF Called
<1>2. ASSUME NEW c \in v9, Ac!HearArchive(c) PROVE Ac!MessageType'
  <2>1. v9' = v9 \ {c} /\ v10' = v10 /\ v11' = v11 /\ (v8' = v8 \/ v8' = c.account)
    BY <1>2 DEF Ac!HearArchive, Ac!Done
  <2>2. c.account \in accAccounts BY <1>0 DEF Ac!Calls
  <2> QED BY <1>0, <2>1, <2>2
<1>3. ASSUME NEW c \in v9, Ac!HearUnarchive(c) PROVE Ac!MessageType'
BY <1>0, <1>3, AccountsConstants DEF Ac!HearUnarchive, Ac!Done, Ac!Offers
<1>4. ASSUME NEW c \in v9, Ac!Lost(c) PROVE Ac!MessageType'
BY <1>0, <1>4, AccountsConstants DEF Ac!Lost, Ac!Done
<1>5. ASSUME NEW a \in accAccounts, Ac!SetDestination(a) PROVE Ac!MessageType'
BY <1>0, <1>5, AccountsConstants DEF Ac!SetDestination
<1>6. CASE Ac!CloseModals
BY <1>0, <1>6, AccountsConstants DEF Ac!CloseModals
<1>7. ASSUME NEW l \in Ac!Loops, Started(l) PROVE Ac!MessageType'
BY <1>0, <1>7, AccountsConstants DEF Started, Ac!MigrateType, Ac!RollbackType
<1>8. ASSUME NEW l \in v10, NEW m \in Ac!Loops, NextMove(l, m) PROVE Ac!MessageType'
BY <1>0, <1>8, AccountsConstants DEF NextMove, Goes
<1>9. ASSUME NEW l \in v10, Stopped(l) PROVE Ac!MessageType'
BY <1>0, <1>9, AccountsConstants DEF Stopped
<1>10. ASSUME NEW a \in accAccounts, Ac!SaveAdjustBalance(a) PROVE Ac!MessageType'
BY <1>0, <1>10, AccountsConstants DEF Ac!SaveAdjustBalance, Ac!Elsewhere
<1>11. ASSUME NEW c \in v9, NEW d \in Ac!Calls, CallLooked(c, d) PROVE Ac!MessageType'
BY <1>0, <1>11, AccountsConstants DEF CallLooked, Becomes, Looked
<1>12. ASSUME NEW c \in v9, NEW d \in Ac!Calls, CallSaved(c, d) PROVE Ac!MessageType'
BY <1>0, <1>12, AccountsConstants DEF CallSaved, Becomes, Written, Ac!Closes
<1>13. ASSUME NEW c \in v9, NEW d \in Ac!Calls, UnarchiveServed(c, d) PROVE Ac!MessageType'
BY <1>0, <1>13, AccountsConstants DEF UnarchiveServed, Becomes
<1>14. ASSUME NEW l \in v10, NEW m \in Ac!Loops, MoveLooked(l, m) PROVE Ac!MessageType'
BY <1>0, <1>14, AccountsConstants DEF MoveLooked, Goes
<1>15. ASSUME NEW l \in v10, NEW m \in Ac!Loops, Moved(l, m) PROVE Ac!MessageType'
BY <1>0, <1>15, AccountsConstants DEF Moved, Goes, Ac!MovePosition, Ac!Enters
<1>16. ASSUME NEW l \in v10, NEW m \in Ac!Loops, LastLooked(l, m) PROVE Ac!MessageType'
BY <1>0, <1>16, AccountsConstants DEF LastLooked, Goes, Looked
<1>17. ASSUME NEW l \in v10, NEW m \in Ac!Loops, LastSaved(l, m) PROVE Ac!MessageType'
BY <1>0, <1>17, AccountsConstants DEF LastSaved, Goes, Written, Ac!Closes
<1>18. ASSUME NEW i \in accInvestments, NEW a \in accAccounts, Ac!CheckAsset(i, a) PROVE Ac!MessageType'
  <2> DEFINE e == [asset |-> i, to |-> a, was |-> v2[i]]
  <2>1. v11' = v11 \cup {e} /\ UNCHANGED <<v8, v9, v10>> BY <1>18 DEF Ac!CheckAsset, Ac!Elsewhere
  <2>2. v2[i] \in accAccounts \cup {None} BY <1>0 DEF Ac!ServerType
  <2>3. e \in [asset : accInvestments, to : accAccounts, was : accAccounts \cup {None}] BY <2>2
  <2> HIDE DEF e
  <2> QED BY <1>0, <2>1, <2>3
<1>19. ASSUME NEW e \in v11, Ac!SaveAsset(e) PROVE Ac!MessageType'
BY <1>0, <1>19, AccountsConstants DEF Ac!SaveAsset, Ac!MovePosition, Ac!Enters
<1>20. ASSUME NEW i \in accInvestments, Ac!Trade(i) PROVE Ac!MessageType'
BY <1>0, <1>20, AccountsConstants DEF Ac!Trade, Ac!Elsewhere, Ac!Enters
<1> QED BY AccountsCases, <1>1, <1>2, <1>3, <1>4, <1>5, <1>6, <1>7, <1>8, <1>9, <1>10, <1>11, <1>12, <1>13,
  <1>14, <1>15, <1>16, <1>17, <1>18, <1>19, <1>20

(* What was on an account is what a migration moved away. *)
LEMMA AccountsMoved ==
  ASSUME Ac!AccountsAssumption, Ac!IInv, Ac!Next
  PROVE Ac!MovedInv'
<1> USE DEF Ac!MovedInv, Ac!ServerType
<1>0. Ac!MovedInv /\ Ac!ServerType /\ Ac!MessageType BY DEF Ac!IInv
<1>1. CASE Silent
BY <1>0, <1>1 DEF Silent
<1>2. ASSUME NEW c \in v9, NEW d \in Ac!Calls, CallLooked(c, d) PROVE Ac!MovedInv'
BY <1>0, <1>2, AccountsConstants DEF CallLooked, Becomes, Looked
<1>3. ASSUME NEW c \in v9, NEW d \in Ac!Calls, CallSaved(c, d) PROVE Ac!MovedInv'
BY <1>0, <1>3, AccountsConstants DEF CallSaved, Becomes, Written, Ac!Closes
<1>4. ASSUME NEW c \in v9, NEW d \in Ac!Calls, UnarchiveServed(c, d) PROVE Ac!MovedInv'
BY <1>0, <1>4, AccountsConstants DEF UnarchiveServed, Becomes
<1>5. ASSUME NEW l \in v10, NEW m \in Ac!Loops, MoveLooked(l, m) PROVE Ac!MovedInv'
BY <1>0, <1>5, AccountsConstants DEF MoveLooked, Goes
<1>6. ASSUME NEW l \in v10, NEW m \in Ac!Loops, Moved(l, m) PROVE Ac!MovedInv'
  <2> DEFINE i == Ac!First(l)
  <2> SUFFICES ASSUME ~v13' PROVE \A a \in accAccounts : v12'[a] = {j \in accInvestments : v2'[j] = a}
    OBVIOUS
  <2>1. /\ Ac!MovePosition(i, l.to, l.from)
        /\ v12' = [a \in accAccounts |->
             (v12[a] \ {i}) \cup IF a = l.account /\ l.kind = "migrate" THEN {i} ELSE {}]
    BY <1>6 DEF Moved
  <2>2. /\ i \in accInvestments /\ ~v13 /\ l.account \in accAccounts
        /\ l.kind = "migrate" /\ l.from = l.account
    BY <1>6, MovedIs
  <2> HIDE DEF i
  <2>3. v2' = [v2 EXCEPT ![i] = l.account] BY <2>1, <2>2 DEF Ac!MovePosition
  <2>4. \A a \in accAccounts : v12[a] = {j \in accInvestments : v2[j] = a} BY <1>0, <2>2
  <2>5. \A a \in accAccounts : v12'[a] = (v12[a] \ {i}) \cup IF a = l.account THEN {i} ELSE {}
    BY <2>1, <2>2
  <2>6. \A j \in accInvestments : v2'[j] = IF j = i THEN l.account ELSE v2[j] BY <1>0, <2>2, <2>3
  <2> QED
    <3> HIDE DEF Ac!ServerType, Ac!MovedInv
    <3> QED BY <2>2, <2>4, <2>5, <2>6
<1>7. ASSUME NEW l \in v10, NEW m \in Ac!Loops, LastLooked(l, m) PROVE Ac!MovedInv'
BY <1>0, <1>7, AccountsConstants DEF LastLooked, Goes, Looked
<1>8. ASSUME NEW l \in v10, NEW m \in Ac!Loops, LastSaved(l, m) PROVE Ac!MovedInv'
BY <1>0, <1>8, AccountsConstants DEF LastSaved, Goes, Written, Ac!Closes
<1>9. ASSUME NEW i \in accInvestments, NEW a \in accAccounts, Ac!CheckAsset(i, a) PROVE Ac!MovedInv'
BY <1>0, <1>9, AccountsConstants DEF Ac!CheckAsset, Ac!Elsewhere
<1>10. ASSUME NEW e \in v11, Ac!SaveAsset(e) PROVE Ac!MovedInv'
  BY <1>10 DEF Ac!SaveAsset
<1>11. ASSUME NEW i \in accInvestments, Ac!Trade(i) PROVE Ac!MovedInv'
BY <1>0, <1>11, AccountsConstants DEF Ac!Trade, Ac!Elsewhere, Ac!Enters
<1> QED BY AccountsForms, <1>1, <1>2, <1>3, <1>4, <1>5, <1>6, <1>7, <1>8, <1>9, <1>10, <1>11

(* What is on its way out of an account is on it. *)
LEMMA AccountsLeaving ==
  ASSUME Ac!AccountsAssumption, Ac!IInv, Ac!Next
  PROVE Ac!LeavingInv'
<1> USE DEF Ac!LeavingInv, Ac!Leaving, Ac!Blocking
<1>0. Ac!LeavingInv /\ Ac!ServerType /\ Ac!MigrateType /\ Ac!MessageType BY DEF Ac!IInv
<1>1. ASSUME NEW c \in Ac!Calls, Called(c) PROVE Ac!LeavingInv'
BY <1>0, <1>1, AccountsConstants, WaitingIs DEF Called
<1>2. ASSUME NEW c \in v9, Ac!HearArchive(c) PROVE Ac!LeavingInv'
BY <1>0, <1>2, AccountsConstants DEF Ac!HearArchive, Ac!Done
<1>3. ASSUME NEW c \in v9, Ac!HearUnarchive(c) PROVE Ac!LeavingInv'
BY <1>0, <1>3, AccountsConstants DEF Ac!HearUnarchive, Ac!Done, Ac!Offers
<1>4. ASSUME NEW c \in v9, Ac!Lost(c) PROVE Ac!LeavingInv'
BY <1>0, <1>4, AccountsConstants DEF Ac!Lost, Ac!Done
<1>5. ASSUME NEW a \in accAccounts, Ac!SetDestination(a) PROVE Ac!LeavingInv'
BY <1>0, <1>5, AccountsConstants DEF Ac!SetDestination
<1>6. CASE Ac!CloseModals
BY <1>0, <1>6, AccountsConstants DEF Ac!CloseModals
<1>7. ASSUME NEW l \in Ac!Loops, Started(l) PROVE Ac!LeavingInv'
BY <1>0, <1>7, AccountsConstants DEF Started
<1>8. ASSUME NEW l \in v10, NEW m \in Ac!Loops, NextMove(l, m) PROVE Ac!LeavingInv'
BY <1>0, <1>8, AccountsConstants DEF NextMove, Goes
<1>9. ASSUME NEW l \in v10, Stopped(l) PROVE Ac!LeavingInv'
BY <1>0, <1>9, AccountsConstants DEF Stopped
<1>10. ASSUME NEW a \in accAccounts, Ac!SaveAdjustBalance(a) PROVE Ac!LeavingInv'
BY <1>0, <1>10, AccountsConstants DEF Ac!SaveAdjustBalance, Ac!Elsewhere
<1>11. ASSUME NEW c \in v9, NEW d \in Ac!Calls, CallLooked(c, d) PROVE Ac!LeavingInv'
BY <1>0, <1>11, AccountsConstants DEF CallLooked, Becomes, Looked
<1>12. ASSUME NEW c \in v9, NEW d \in Ac!Calls, CallSaved(c, d) PROVE Ac!LeavingInv'
BY <1>0, <1>12, AccountsConstants DEF CallSaved, Becomes, Written, Ac!Closes
<1>13. ASSUME NEW c \in v9, NEW d \in Ac!Calls, UnarchiveServed(c, d) PROVE Ac!LeavingInv'
BY <1>0, <1>13, AccountsConstants DEF UnarchiveServed, Becomes
<1>14. ASSUME NEW l \in v10, NEW m \in Ac!Loops, MoveLooked(l, m) PROVE Ac!LeavingInv'
BY <1>0, <1>14, AccountsConstants DEF MoveLooked, Goes
<1>15. ASSUME NEW l \in v10, NEW m \in Ac!Loops, Moved(l, m) PROVE Ac!LeavingInv'
  <2> DEFINE i == Ac!First(l)
  <2> SUFFICES ASSUME ~v13' PROVE Ac!LeavingInv' OBVIOUS
  <2>1. Ac!MovePosition(i, l.to, l.from) /\ UNCHANGED <<v6, v9>> /\ v10' = (v10 \ {l}) \cup {m}
        /\ m.left = l.left /\ m.kind = l.kind /\ m.account = l.account
    BY <1>15 DEF Moved, Goes
  <2>2. i \in accInvestments /\ ~v13 /\ l.from # None BY <1>15, MovedIs, AccountsConstants
  <2> HIDE DEF i
  <2>3. \A j : v2'[j] = None => v2[j] = None /\ v1'[j] = v1[j]
    BY <1>0, <2>1, <2>2 DEF Ac!MovePosition, Ac!ServerType
  <2> QED BY <1>0, <2>1, <2>2, <2>3
<1>16. ASSUME NEW l \in v10, NEW m \in Ac!Loops, LastLooked(l, m) PROVE Ac!LeavingInv'
BY <1>0, <1>16, AccountsConstants DEF LastLooked, Goes, Looked
<1>17. ASSUME NEW l \in v10, NEW m \in Ac!Loops, LastSaved(l, m) PROVE Ac!LeavingInv'
BY <1>0, <1>17, AccountsConstants DEF LastSaved, Goes, Written, Ac!Closes
<1>18. ASSUME NEW i \in accInvestments, NEW a \in accAccounts, Ac!CheckAsset(i, a) PROVE Ac!LeavingInv'
BY <1>0, <1>18, AccountsConstants DEF Ac!CheckAsset, Ac!Elsewhere
<1>19. ASSUME NEW e \in v11, Ac!SaveAsset(e) PROVE Ac!LeavingInv'
  BY <1>19 DEF Ac!SaveAsset
<1>20. ASSUME NEW i \in accInvestments, Ac!Trade(i) PROVE Ac!LeavingInv'
BY <1>0, <1>20, AccountsConstants DEF Ac!Trade, Ac!Elsewhere, Ac!Enters
<1> QED BY AccountsCases, <1>1, <1>2, <1>3, <1>4, <1>5, <1>6, <1>7, <1>8, <1>9, <1>10, <1>11, <1>12, <1>13,
  <1>14, <1>15, <1>16, <1>17, <1>18, <1>19, <1>20

(* What is on its way back has been away. *)
LEMMA AccountsWandered ==
  ASSUME Ac!AccountsAssumption, Ac!IInv, Ac!Next
  PROVE Ac!WanderedInv'
<1> USE DEF Ac!WanderedInv, Ac!Wandered
<1>0. Ac!WanderedInv /\ Ac!ServerType /\ Ac!RollbackType /\ Ac!MessageType BY DEF Ac!IInv
<1>1. ASSUME NEW c \in Ac!Calls, Called(c) PROVE Ac!WanderedInv'
BY <1>0, <1>1, AccountsConstants, WaitingIs DEF Called
<1>2. ASSUME NEW c \in v9, Ac!HearArchive(c) PROVE Ac!WanderedInv'
BY <1>0, <1>2, AccountsConstants DEF Ac!HearArchive, Ac!Done
<1>3. ASSUME NEW c \in v9, Ac!HearUnarchive(c) PROVE Ac!WanderedInv'
BY <1>0, <1>3, AccountsConstants DEF Ac!HearUnarchive, Ac!Done, Ac!Offers
<1>4. ASSUME NEW c \in v9, Ac!Lost(c) PROVE Ac!WanderedInv'
BY <1>0, <1>4, AccountsConstants DEF Ac!Lost, Ac!Done
<1>5. ASSUME NEW a \in accAccounts, Ac!SetDestination(a) PROVE Ac!WanderedInv'
BY <1>0, <1>5, AccountsConstants DEF Ac!SetDestination
<1>6. CASE Ac!CloseModals
BY <1>0, <1>6, AccountsConstants DEF Ac!CloseModals
<1>7. ASSUME NEW l \in Ac!Loops, Started(l) PROVE Ac!WanderedInv'
BY <1>0, <1>7, AccountsConstants DEF Started
<1>8. ASSUME NEW l \in v10, NEW m \in Ac!Loops, NextMove(l, m) PROVE Ac!WanderedInv'
BY <1>0, <1>8, AccountsConstants DEF NextMove, Goes
<1>9. ASSUME NEW l \in v10, Stopped(l) PROVE Ac!WanderedInv'
BY <1>0, <1>9, AccountsConstants DEF Stopped
<1>10. ASSUME NEW a \in accAccounts, Ac!SaveAdjustBalance(a) PROVE Ac!WanderedInv'
BY <1>0, <1>10, AccountsConstants DEF Ac!SaveAdjustBalance, Ac!Elsewhere
<1>11. ASSUME NEW c \in v9, NEW d \in Ac!Calls, CallLooked(c, d) PROVE Ac!WanderedInv'
BY <1>0, <1>11, AccountsConstants DEF CallLooked, Becomes, Looked
<1>12. ASSUME NEW c \in v9, NEW d \in Ac!Calls, CallSaved(c, d) PROVE Ac!WanderedInv'
BY <1>0, <1>12, AccountsConstants DEF CallSaved, Becomes, Written, Ac!Closes
<1>13. ASSUME NEW c \in v9, NEW d \in Ac!Calls, UnarchiveServed(c, d) PROVE Ac!WanderedInv'
BY <1>0, <1>13, AccountsConstants DEF UnarchiveServed, Becomes, Ac!MessageType, Ac!Calls
<1>14. ASSUME NEW l \in v10, NEW m \in Ac!Loops, MoveLooked(l, m) PROVE Ac!WanderedInv'
BY <1>0, <1>14, AccountsConstants DEF MoveLooked, Goes
<1>15. ASSUME NEW l \in v10, NEW m \in Ac!Loops, Moved(l, m) PROVE Ac!WanderedInv'
  <2> DEFINE i == Ac!First(l)
  <2> SUFFICES ASSUME ~v13' PROVE Ac!WanderedInv' OBVIOUS
  <2>1. Ac!MovePosition(i, l.to, l.from) /\ UNCHANGED <<v7, v9>> /\ v10' = (v10 \ {l}) \cup {m}
        /\ m.left = l.left /\ m.kind = l.kind
    BY <1>15 DEF Moved, Goes
  <2>2. i \in accInvestments /\ ~v13 /\ l.from # None BY <1>15, MovedIs, AccountsConstants
  <2> HIDE DEF i
  <2>3. \A j : v2'[j] = None => v2[j] = None BY <1>0, <2>1, <2>2 DEF Ac!MovePosition, Ac!ServerType
  <2> QED BY <1>0, <2>1, <2>2, <2>3
<1>16. ASSUME NEW l \in v10, NEW m \in Ac!Loops, LastLooked(l, m) PROVE Ac!WanderedInv'
BY <1>0, <1>16, AccountsConstants DEF LastLooked, Goes, Looked
<1>17. ASSUME NEW l \in v10, NEW m \in Ac!Loops, LastSaved(l, m) PROVE Ac!WanderedInv'
BY <1>0, <1>17, AccountsConstants DEF LastSaved, Goes, Written, Ac!Closes
<1>18. ASSUME NEW i \in accInvestments, NEW a \in accAccounts, Ac!CheckAsset(i, a) PROVE Ac!WanderedInv'
BY <1>0, <1>18, AccountsConstants DEF Ac!CheckAsset, Ac!Elsewhere
<1>19. ASSUME NEW e \in v11, Ac!SaveAsset(e) PROVE Ac!WanderedInv'
  BY <1>19 DEF Ac!SaveAsset
<1>20. ASSUME NEW i \in accInvestments, Ac!Trade(i) PROVE Ac!WanderedInv'
BY <1>0, <1>20, AccountsConstants DEF Ac!Trade, Ac!Elsewhere, Ac!Enters
<1> QED BY AccountsCases, <1>1, <1>2, <1>3, <1>4, <1>5, <1>6, <1>7, <1>8, <1>9, <1>10, <1>11, <1>12, <1>13,
  <1>14, <1>15, <1>16, <1>17, <1>18, <1>19, <1>20

(* What a move has read is still so. *)
LEMMA AccountsFrom ==
  ASSUME Ac!AccountsAssumption, Ac!IInv, Ac!Next
  PROVE Ac!FromInv'
<1> USE DEF Ac!FromInv, Ac!Checked, Ac!First
<1>0. Ac!FromInv /\ Ac!ServerType /\ Ac!MessageType BY DEF Ac!IInv
<1>1. CASE Silent
BY <1>0, <1>1 DEF Silent
<1>2. ASSUME NEW c \in v9, NEW d \in Ac!Calls, CallLooked(c, d) PROVE Ac!FromInv'
BY <1>0, <1>2, AccountsConstants DEF CallLooked, Becomes, Looked
<1>3. ASSUME NEW c \in v9, NEW d \in Ac!Calls, CallSaved(c, d) PROVE Ac!FromInv'
BY <1>0, <1>3, AccountsConstants DEF CallSaved, Becomes, Written, Ac!Closes
<1>4. ASSUME NEW c \in v9, NEW d \in Ac!Calls, UnarchiveServed(c, d) PROVE Ac!FromInv'
BY <1>0, <1>4, AccountsConstants DEF UnarchiveServed, Becomes
<1>5. ASSUME NEW l \in v10, NEW m \in Ac!Loops, MoveLooked(l, m) PROVE Ac!FromInv'
BY <1>0, <1>5, AccountsConstants DEF MoveLooked, Goes
<1>6. ASSUME NEW l \in v10, NEW m \in Ac!Loops, Moved(l, m) PROVE Ac!FromInv'
  <2> DEFINE i == Ac!First(l)
  <2> SUFFICES ASSUME ~v13' PROVE Ac!FromInv' OBVIOUS
  <2>1. Ac!MovePosition(i, l.to, l.from) /\ v10' = (v10 \ {l}) \cup {m} /\ ~Ac!Checked(m)
    BY <1>6 DEF Moved, Goes
  <2>2. i \in accInvestments /\ ~v13 /\ l.from # None BY <1>6, MovedIs, AccountsConstants
  <2> HIDE DEF i
  <2>3. \A j : v2'[j] = None => v2[j] = None /\ v1'[j] = v1[j]
    BY <1>0, <2>1, <2>2 DEF Ac!MovePosition, Ac!ServerType
  <2> QED BY <1>0, <2>1, <2>2, <2>3
<1>7. ASSUME NEW l \in v10, NEW m \in Ac!Loops, LastLooked(l, m) PROVE Ac!FromInv'
BY <1>0, <1>7, AccountsConstants DEF LastLooked, Goes, Looked
<1>8. ASSUME NEW l \in v10, NEW m \in Ac!Loops, LastSaved(l, m) PROVE Ac!FromInv'
BY <1>0, <1>8, AccountsConstants DEF LastSaved, Goes, Written, Ac!Closes
<1>9. ASSUME NEW i \in accInvestments, NEW a \in accAccounts, Ac!CheckAsset(i, a) PROVE Ac!FromInv'
BY <1>0, <1>9, AccountsConstants DEF Ac!CheckAsset, Ac!Elsewhere
<1>10. ASSUME NEW e \in v11, Ac!SaveAsset(e) PROVE Ac!FromInv'
  BY <1>10 DEF Ac!SaveAsset
<1>11. ASSUME NEW i \in accInvestments, Ac!Trade(i) PROVE Ac!FromInv'
BY <1>0, <1>11, AccountsConstants DEF Ac!Trade, Ac!Elsewhere, Ac!Enters
<1> QED BY AccountsForms, <1>1, <1>2, <1>3, <1>4, <1>5, <1>6, <1>7, <1>8, <1>9, <1>10, <1>11

(* What is offered is what was moved. *)
LEMMA AccountsOffered ==
  ASSUME Ac!AccountsAssumption, Ac!IInv, Ac!Next
  PROVE Ac!WhatWasHereIsOffered'
<1> USE DEF Ac!WhatWasHereIsOffered
<1>0. Ac!WhatWasHereIsOffered /\ Ac!ServerType /\ Ac!MessageType /\ Ac!MovedInv BY DEF Ac!IInv
<1>1. ASSUME NEW c \in Ac!Calls, Called(c) PROVE Ac!WhatWasHereIsOffered'
BY <1>0, <1>1, AccountsConstants, WaitingIs DEF Called
<1>2. ASSUME NEW c \in v9, Ac!HearArchive(c) PROVE Ac!WhatWasHereIsOffered'
BY <1>0, <1>2, AccountsConstants DEF Ac!HearArchive, Ac!Done
<1>3. ASSUME NEW c \in v9, Ac!HearUnarchive(c) PROVE Ac!WhatWasHereIsOffered'
BY <1>0, <1>3, AccountsConstants DEF Ac!HearUnarchive, Ac!Done, Ac!Offers
<1>4. ASSUME NEW c \in v9, Ac!Lost(c) PROVE Ac!WhatWasHereIsOffered'
BY <1>0, <1>4, AccountsConstants DEF Ac!Lost, Ac!Done
<1>5. ASSUME NEW a \in accAccounts, Ac!SetDestination(a) PROVE Ac!WhatWasHereIsOffered'
BY <1>0, <1>5, AccountsConstants DEF Ac!SetDestination
<1>6. CASE Ac!CloseModals
BY <1>0, <1>6, AccountsConstants DEF Ac!CloseModals
<1>7. ASSUME NEW l \in Ac!Loops, Started(l) PROVE Ac!WhatWasHereIsOffered'
BY <1>0, <1>7, AccountsConstants DEF Started
<1>8. ASSUME NEW l \in v10, NEW m \in Ac!Loops, NextMove(l, m) PROVE Ac!WhatWasHereIsOffered'
BY <1>0, <1>8, AccountsConstants DEF NextMove, Goes
<1>9. ASSUME NEW l \in v10, Stopped(l) PROVE Ac!WhatWasHereIsOffered'
BY <1>0, <1>9, AccountsConstants DEF Stopped
<1>10. ASSUME NEW a \in accAccounts, Ac!SaveAdjustBalance(a) PROVE Ac!WhatWasHereIsOffered'
BY <1>0, <1>10, AccountsConstants DEF Ac!SaveAdjustBalance, Ac!Elsewhere
<1>11. ASSUME NEW c \in v9, NEW d \in Ac!Calls, CallLooked(c, d) PROVE Ac!WhatWasHereIsOffered'
BY <1>0, <1>11, AccountsConstants DEF CallLooked, Becomes, Looked
<1>12. ASSUME NEW c \in v9, NEW d \in Ac!Calls, CallSaved(c, d) PROVE Ac!WhatWasHereIsOffered'
BY <1>0, <1>12, AccountsConstants DEF CallSaved, Becomes, Written, Ac!Closes
<1>13. ASSUME NEW c \in v9, NEW d \in Ac!Calls, UnarchiveServed(c, d) PROVE Ac!WhatWasHereIsOffered'
  BY <1>0, <1>13 DEF UnarchiveServed, Becomes, Ac!MovedInv, Ac!MessageType, Ac!Calls
<1>14. ASSUME NEW l \in v10, NEW m \in Ac!Loops, MoveLooked(l, m) PROVE Ac!WhatWasHereIsOffered'
BY <1>0, <1>14, AccountsConstants DEF MoveLooked, Goes
<1>15. ASSUME NEW l \in v10, NEW m \in Ac!Loops, Moved(l, m) PROVE Ac!WhatWasHereIsOffered'
  BY <1>0, <1>15 DEF Moved, Goes, Ac!ServerType
<1>16. ASSUME NEW l \in v10, NEW m \in Ac!Loops, LastLooked(l, m) PROVE Ac!WhatWasHereIsOffered'
BY <1>0, <1>16, AccountsConstants DEF LastLooked, Goes, Looked
<1>17. ASSUME NEW l \in v10, NEW m \in Ac!Loops, LastSaved(l, m) PROVE Ac!WhatWasHereIsOffered'
BY <1>0, <1>17, AccountsConstants DEF LastSaved, Goes, Written, Ac!Closes
<1>18. ASSUME NEW i \in accInvestments, NEW a \in accAccounts, Ac!CheckAsset(i, a) PROVE
    Ac!WhatWasHereIsOffered'
BY <1>0, <1>18, AccountsConstants DEF Ac!CheckAsset, Ac!Elsewhere
<1>19. ASSUME NEW e \in v11, Ac!SaveAsset(e) PROVE Ac!WhatWasHereIsOffered'
  BY <1>19 DEF Ac!SaveAsset
<1>20. ASSUME NEW i \in accInvestments, Ac!Trade(i) PROVE Ac!WhatWasHereIsOffered'
BY <1>0, <1>20, AccountsConstants DEF Ac!Trade, Ac!Elsewhere, Ac!Enters
<1> QED BY AccountsCases, <1>1, <1>2, <1>3, <1>4, <1>5, <1>6, <1>7, <1>8, <1>9, <1>10, <1>11, <1>12, <1>13,
  <1>14, <1>15, <1>16, <1>17, <1>18, <1>19, <1>20

(* What was found empty is empty, but for what raced. *)
LEMMA AccountsClosing ==
  ASSUME Ac!AccountsAssumption, Ac!IInv, Ac!Next
  PROVE Ac!ClosingInv'
<1> USE DEF Ac!ClosingInv, Ac!Closing
<1>0. Ac!ClosingInv /\ Ac!ServerType /\ Ac!MessageType BY DEF Ac!IInv
<1>1. CASE Silent
BY <1>0, <1>1 DEF Silent
<1>2. ASSUME NEW c \in v9, NEW d \in Ac!Calls, CallLooked(c, d) PROVE Ac!ClosingInv'
BY <1>0, <1>2, AccountsConstants DEF CallLooked, Becomes, Looked, Ac!Checked, Ac!Blocking
<1>3. ASSUME NEW c \in v9, NEW d \in Ac!Calls, CallSaved(c, d) PROVE Ac!ClosingInv'
BY <1>0, <1>3, AccountsConstants DEF CallSaved, Becomes, Written, Ac!Closes, Ac!Checked
<1>4. ASSUME NEW c \in v9, NEW d \in Ac!Calls, UnarchiveServed(c, d) PROVE Ac!ClosingInv'
BY <1>0, <1>4, AccountsConstants DEF UnarchiveServed, Becomes, Ac!Checked
<1>5. ASSUME NEW l \in v10, NEW m \in Ac!Loops, MoveLooked(l, m) PROVE Ac!ClosingInv'
BY <1>0, <1>5, AccountsConstants DEF MoveLooked, Goes, Ac!Checked
<1>6. ASSUME NEW l \in v10, NEW m \in Ac!Loops, Moved(l, m) PROVE Ac!ClosingInv'
  <2> DEFINE i == Ac!First(l)
  <2>1. i \in accInvestments BY <1>0, <1>6, FirstIs DEF Moved, Ac!MessageType, Ac!Loops
  <2>2. /\ Ac!MovePosition(i, l.to, l.from) /\ Ac!Enters(i, l.to) /\ UNCHANGED <<v3, v9, v14>>
        /\ v10' = (v10 \ {l}) \cup {m} /\ ~Ac!Checked(m)
    BY <1>6 DEF Moved, Goes, Ac!Checked
  <2> HIDE DEF i
  <2>3. ASSUME NEW a \in accAccounts, Ac!Closing(a)' PROVE Ac!Closing(a) BY <2>2, <2>3
  <2>4. \A j \in accInvestments : v1'[j] = IF j = i THEN l.to ELSE v1[j]
    BY <1>0, <2>1, <2>2 DEF Ac!MovePosition, Ac!ServerType
  <2>5. v15 \subseteq v15' /\ (Ac!Closing(l.to) => i \in v15') BY <2>2 DEF Ac!Enters
  <2>6. v3 \subseteq accInvestments BY <1>0 DEF Ac!ServerType
  <2> HIDE DEF Ac!Closing
  <2> QED BY <1>0, <2>2, <2>3, <2>4, <2>5, <2>6
<1>7. ASSUME NEW l \in v10, NEW m \in Ac!Loops, LastLooked(l, m) PROVE Ac!ClosingInv'
BY <1>0, <1>7, AccountsConstants DEF LastLooked, Goes, Looked, Ac!Checked, Ac!Blocking
<1>8. ASSUME NEW l \in v10, NEW m \in Ac!Loops, LastSaved(l, m) PROVE Ac!ClosingInv'
BY <1>0, <1>8, AccountsConstants DEF LastSaved, Goes, Written, Ac!Closes, Ac!Checked
<1>9. ASSUME NEW i \in accInvestments, NEW a \in accAccounts, Ac!CheckAsset(i, a) PROVE Ac!ClosingInv'
BY <1>0, <1>9, AccountsConstants DEF Ac!CheckAsset, Ac!Elsewhere
<1>10. ASSUME NEW e \in v11, Ac!SaveAsset(e) PROVE Ac!ClosingInv'
  <2> DEFINE i == e.asset
  <2>1. i \in accInvestments BY <1>0 DEF Ac!MessageType
  <2>2. /\ Ac!MovePosition(i, e.to, e.was) /\ Ac!Enters(i, e.to) /\ UNCHANGED <<v3, v9, v10, v14>>
    BY <1>10 DEF Ac!SaveAsset
  <2> HIDE DEF i
  <2>3. ASSUME NEW a \in accAccounts, Ac!Closing(a)' PROVE Ac!Closing(a) BY <2>2, <2>3
  <2>4. \A j \in accInvestments : v1'[j] = IF j = i THEN e.to ELSE v1[j]
    BY <1>0, <2>1, <2>2 DEF Ac!MovePosition, Ac!ServerType
  <2>5. v15 \subseteq v15' /\ (Ac!Closing(e.to) => i \in v15') BY <2>2 DEF Ac!Enters
  <2>6. v3 \subseteq accInvestments BY <1>0 DEF Ac!ServerType
  <2> HIDE DEF Ac!Closing
  <2> QED BY <1>0, <2>2, <2>3, <2>4, <2>5, <2>6
<1>11. ASSUME NEW i \in accInvestments, Ac!Trade(i) PROVE Ac!ClosingInv'
  <2>1. ASSUME NEW a \in accAccounts, Ac!Closing(a)' PROVE Ac!Closing(a)
    BY <1>11, <2>1 DEF Ac!Trade, Ac!Elsewhere
  <2>2. v14 \subseteq v14' /\ v15 \subseteq v15' /\ (i \notin v3 /\ Ac!Closing(v1[i]) => i \in v15')
    BY <1>11 DEF Ac!Trade, Ac!Enters
  <2>3. v1' = v1 /\ v3' = (v3 \ {i}) \cup ({i} \ v3) BY <1>11 DEF Ac!Trade
  <2> HIDE DEF Ac!Closing
  <2> QED BY <1>0, <2>1, <2>2, <2>3
<1> QED BY AccountsForms, <1>1, <1>2, <1>3, <1>4, <1>5, <1>6, <1>7, <1>8, <1>9, <1>10, <1>11

(* What is about to come to an archived account has raced. *)
LEMMA AccountsEntering ==
  ASSUME Ac!AccountsAssumption, Ac!IInv, Ac!Next
  PROVE Ac!EnteringInv'
<1> USE DEF Ac!EnteringInv, Ac!Entering
<1>0. Ac!EnteringInv /\ Ac!ServerType /\ Ac!MessageType BY DEF Ac!IInv
<1>1. CASE Silent
BY <1>0, <1>1 DEF Silent
<1>2. ASSUME NEW c \in v9, NEW d \in Ac!Calls, CallLooked(c, d) PROVE Ac!EnteringInv'
BY <1>0, <1>2, AccountsConstants DEF CallLooked, Becomes, Looked, Ac!Checked
<1>3. ASSUME NEW c \in v9, NEW d \in Ac!Calls, CallSaved(c, d) PROVE Ac!EnteringInv'
BY <1>0, <1>3, AccountsConstants DEF CallSaved, Becomes, Written, Ac!Closes, Ac!Checked
<1>4. ASSUME NEW c \in v9, NEW d \in Ac!Calls, UnarchiveServed(c, d) PROVE Ac!EnteringInv'
BY <1>0, <1>4, AccountsConstants DEF UnarchiveServed, Becomes, Ac!Checked
<1>5. ASSUME NEW l \in v10, NEW m \in Ac!Loops, MoveLooked(l, m) PROVE Ac!EnteringInv'
BY <1>0, <1>5, AccountsConstants DEF MoveLooked, Goes, Ac!Checked, Ac!First
<1>6. ASSUME NEW l \in v10, NEW m \in Ac!Loops, Moved(l, m) PROVE Ac!EnteringInv'
BY <1>0, <1>6, AccountsConstants DEF Moved, Goes, Ac!MovePosition, Ac!Enters, Ac!Checked, Ac!First
<1>7. ASSUME NEW l \in v10, NEW m \in Ac!Loops, LastLooked(l, m) PROVE Ac!EnteringInv'
BY <1>0, <1>7, AccountsConstants DEF LastLooked, Goes, Looked, Ac!Checked
<1>8. ASSUME NEW l \in v10, NEW m \in Ac!Loops, LastSaved(l, m) PROVE Ac!EnteringInv'
BY <1>0, <1>8, AccountsConstants DEF LastSaved, Goes, Written, Ac!Closes, Ac!Checked
<1>9. ASSUME NEW i \in accInvestments, NEW a \in accAccounts, Ac!CheckAsset(i, a) PROVE Ac!EnteringInv'
BY <1>0, <1>9, AccountsConstants DEF Ac!CheckAsset, Ac!Elsewhere
<1>10. ASSUME NEW e \in v11, Ac!SaveAsset(e) PROVE Ac!EnteringInv'
BY <1>0, <1>10, AccountsConstants DEF Ac!SaveAsset, Ac!MovePosition, Ac!Enters
<1>11. ASSUME NEW i \in accInvestments, Ac!Trade(i) PROVE Ac!EnteringInv'
BY <1>0, <1>11, AccountsConstants DEF Ac!Trade, Ac!Elsewhere, Ac!Enters
<1> QED BY AccountsForms, <1>1, <1>2, <1>3, <1>4, <1>5, <1>6, <1>7, <1>8, <1>9, <1>10, <1>11

(* No step leaves a position on an archived account. *)
LEMMA AccountsHold ==
  ASSUME Ac!AccountsAssumption, Ac!IInv, Ac!Next
  PROVE Ac!ArchivedHoldNothing'
<1> USE DEF Ac!ArchivedHoldNothing
<1>0. Ac!ArchivedHoldNothing /\ Ac!ServerType /\ Ac!MessageType /\ Ac!ClosingInv /\ Ac!EnteringInv BY DEF
  Ac!IInv
<1>1. CASE Silent
BY <1>0, <1>1 DEF Silent
<1>2. ASSUME NEW c \in v9, NEW d \in Ac!Calls, CallLooked(c, d) PROVE Ac!ArchivedHoldNothing'
BY <1>0, <1>2, AccountsConstants DEF CallLooked, Becomes, Looked
<1>3. ASSUME NEW c \in v9, NEW d \in Ac!Calls, CallSaved(c, d) PROVE Ac!ArchivedHoldNothing'
  <2>1. Ac!Closing(c.account) /\ c.account \in accAccounts
    BY <1>0, <1>3 DEF CallSaved, Ac!Closing, Ac!MessageType, Ac!Calls
  <2> QED BY <1>0, <1>3, <2>1 DEF CallSaved, Ac!Closes, Ac!ClosingInv
<1>4. ASSUME NEW c \in v9, NEW d \in Ac!Calls, UnarchiveServed(c, d) PROVE Ac!ArchivedHoldNothing'
BY <1>0, <1>4, AccountsConstants DEF UnarchiveServed, Becomes
<1>5. ASSUME NEW l \in v10, NEW m \in Ac!Loops, MoveLooked(l, m) PROVE Ac!ArchivedHoldNothing'
BY <1>0, <1>5, AccountsConstants DEF MoveLooked, Goes
<1>6. ASSUME NEW l \in v10, NEW m \in Ac!Loops, Moved(l, m) PROVE Ac!ArchivedHoldNothing'
  <2> DEFINE i == Ac!First(l)
  <2>1. i \in accInvestments BY <1>0, <1>6, FirstIs DEF Moved, Ac!MessageType, Ac!Loops
  <2>2. i \in Ac!Entering(l.to) BY <1>6 DEF Moved, Ac!Entering
  <2>3. Ac!MovePosition(i, l.to, l.from) /\ Ac!Enters(i, l.to) /\ UNCHANGED <<v3, v5, v14>> BY <1>6 DEF Moved
  <2> HIDE DEF i
  <2>4. \A j \in accInvestments : v1'[j] = IF j = i THEN l.to ELSE v1[j]
    BY <1>0, <2>1, <2>3 DEF Ac!MovePosition, Ac!ServerType
  <2>5. v15 \subseteq v15' BY <2>3 DEF Ac!Enters
  <2>6. v3 \subseteq accInvestments BY <1>0 DEF Ac!ServerType
  <2> QED BY <1>0, <2>2, <2>3, <2>4, <2>5, <2>6 DEF Ac!EnteringInv
<1>7. ASSUME NEW l \in v10, NEW m \in Ac!Loops, LastLooked(l, m) PROVE Ac!ArchivedHoldNothing'
BY <1>0, <1>7, AccountsConstants DEF LastLooked, Goes, Looked
<1>8. ASSUME NEW l \in v10, NEW m \in Ac!Loops, LastSaved(l, m) PROVE Ac!ArchivedHoldNothing'
  <2>1. Ac!Closing(l.account) /\ l.account \in accAccounts
    BY <1>0, <1>8 DEF LastSaved, Ac!Closing, Ac!MessageType, Ac!Loops
  <2> QED BY <1>0, <1>8, <2>1 DEF LastSaved, Ac!Closes, Ac!ClosingInv
<1>9. ASSUME NEW i \in accInvestments, NEW a \in accAccounts, Ac!CheckAsset(i, a) PROVE
    Ac!ArchivedHoldNothing'
BY <1>0, <1>9, AccountsConstants DEF Ac!CheckAsset, Ac!Elsewhere
<1>10. ASSUME NEW e \in v11, Ac!SaveAsset(e) PROVE Ac!ArchivedHoldNothing'
  <2> DEFINE i == e.asset
  <2>1. i \in accInvestments BY <1>0 DEF Ac!MessageType
  <2>2. i \in Ac!Entering(e.to) BY DEF Ac!Entering
  <2>3. Ac!MovePosition(i, e.to, e.was) /\ Ac!Enters(i, e.to) /\ UNCHANGED <<v3, v5, v14>> BY <1>10 DEF Ac!SaveAsset
  <2> HIDE DEF i
  <2>4. \A j \in accInvestments : v1'[j] = IF j = i THEN e.to ELSE v1[j]
    BY <1>0, <2>1, <2>3 DEF Ac!MovePosition, Ac!ServerType
  <2>5. v15 \subseteq v15' BY <2>3 DEF Ac!Enters
  <2>6. v3 \subseteq accInvestments BY <1>0 DEF Ac!ServerType
  <2> QED BY <1>0, <2>2, <2>3, <2>4, <2>5, <2>6 DEF Ac!EnteringInv
<1>11. ASSUME NEW i \in accInvestments, Ac!Trade(i) PROVE Ac!ArchivedHoldNothing'
BY <1>0, <1>11, AccountsConstants DEF Ac!Trade, Ac!Elsewhere, Ac!Enters
<1> QED BY AccountsForms, <1>1, <1>2, <1>3, <1>4, <1>5, <1>6, <1>7, <1>8, <1>9, <1>10, <1>11

(* The invariant holds at first. *)
LEMMA AccountsInit ==
  ASSUME Ac!AccountsAssumption, Ac!Init
  PROVE Ac!IInv
<1>1. Ac!ServerType BY AccountsConstants DEF Ac!Init, Ac!ServerType
<1>2. Ac!MigrateType BY AccountsConstants DEF Ac!Init, Ac!MigrateType
<1>3. Ac!RollbackType BY AccountsConstants DEF Ac!Init, Ac!RollbackType
<1>4. Ac!MessageType BY AccountsConstants DEF Ac!Init, Ac!MessageType
<1>5. Ac!MovedInv BY AccountsConstants DEF Ac!Init, Ac!MovedInv
<1>6. Ac!LeavingInv BY AccountsConstants DEF Ac!Init, Ac!LeavingInv
<1>7. Ac!WanderedInv BY AccountsConstants DEF Ac!Init, Ac!WanderedInv
<1>8. Ac!FromInv BY AccountsConstants DEF Ac!Init, Ac!FromInv
<1>9. Ac!ClosingInv BY AccountsConstants DEF Ac!Init, Ac!ClosingInv, Ac!Closing
<1>10. Ac!EnteringInv BY AccountsConstants DEF Ac!Init, Ac!EnteringInv, Ac!Entering
<1>11. Ac!ArchivedHoldNothing BY AccountsConstants DEF Ac!Init, Ac!ArchivedHoldNothing
<1>12. Ac!WhatWasHereIsOffered BY AccountsConstants DEF Ac!Init, Ac!WhatWasHereIsOffered
<1> QED BY <1>1, <1>2, <1>3, <1>4, <1>5, <1>6, <1>7, <1>8, <1>9, <1>10, <1>11, <1>12 DEF Ac!IInv

(* The invariant survives a step of another section. *)
LEMMA AccountsStays ==
  ASSUME Ac!IInv, UNCHANGED Ac!vars
  PROVE Ac!IInv'
<1>1. Ac!ServerType' BY DEF Ac!IInv, Ac!vars, Ac!ServerType
<1>2. Ac!MigrateType' BY DEF Ac!IInv, Ac!vars, Ac!MigrateType
<1>3. Ac!RollbackType' BY DEF Ac!IInv, Ac!vars, Ac!RollbackType
<1>4. Ac!MessageType' BY DEF Ac!IInv, Ac!vars, Ac!MessageType
<1>5. Ac!MovedInv' BY DEF Ac!IInv, Ac!vars, Ac!MovedInv
<1>6. Ac!LeavingInv' BY DEF Ac!IInv, Ac!vars, Ac!LeavingInv, Ac!Leaving
<1>7. Ac!WanderedInv' BY DEF Ac!IInv, Ac!vars, Ac!WanderedInv, Ac!Wandered
<1>8. Ac!FromInv' BY DEF Ac!IInv, Ac!vars, Ac!FromInv
<1>9. Ac!ClosingInv' BY DEF Ac!IInv, Ac!vars, Ac!ClosingInv, Ac!Closing
<1>10. Ac!EnteringInv' BY DEF Ac!IInv, Ac!vars, Ac!EnteringInv, Ac!Entering
<1>11. Ac!ArchivedHoldNothing' BY DEF Ac!IInv, Ac!vars, Ac!ArchivedHoldNothing
<1>12. Ac!WhatWasHereIsOffered' BY DEF Ac!IInv, Ac!vars, Ac!WhatWasHereIsOffered
<1> QED BY <1>1, <1>2, <1>3, <1>4, <1>5, <1>6, <1>7, <1>8, <1>9, <1>10, <1>11, <1>12 DEF Ac!IInv

(* Every step of the section keeps the invariant. *)
LEMMA AccountsStep ==
  ASSUME Ac!AccountsAssumption, Ac!IInv, Ac!Next \/ UNCHANGED Ac!vars
  PROVE Ac!IInv'
<1>1. CASE Ac!Next
  BY <1>1, AccountsServer, AccountsMigrate, AccountsRollback, AccountsMessages, AccountsMoved, AccountsLeaving,
    AccountsWandered, AccountsFrom, AccountsClosing, AccountsEntering, AccountsHold, AccountsOffered DEF Ac!IInv
<1>2. CASE UNCHANGED Ac!vars BY <1>2, AccountsStays
<1> QED BY <1>1, <1>2

HIDE DEF Ac!serverVars, Ac!modalVars, Ac!historyVars

(***************************************************************************)
(* The screen of a group                                                   *)
(***************************************************************************)
USE DEF Gr!shown, Gr!history, Gr!screen

(* What the constants are. *)
LEMMA GroupConstants ==
  Gr!GroupAssumption =>
    /\ groupMaxChanges \in Nat /\ groupMaxReads \in Nat /\ None \notin groupGroups /\ None \notin Gr!Kinds
    /\ None \notin [of : groupGroups, rev : 0..groupMaxChanges] /\ None # "money" /\ None # "member"
BY DEF Gr!GroupAssumption, Gr!Kinds

(* A read r begins, what of the same kind was on its way is aborted. *)
Began(r) ==
  /\ v6' = Gr!Others(r.kind) \cup {r} /\ r.since = v1'[r.of] /\ v7' \in 0..groupMaxReads
  /\ v16' = \/ v16 \/ Gr!Others(r.kind) # {}
            \/ IF v3 = None THEN v2' # r.of ELSE v3.of # r.of
SimplifyBegun(r) ==
  /\ r.kind = "simplify" /\ r.of = v2 /\ v3 # None /\ v11 = None /\ v9' = TRUE /\ Began(r)
  /\ UNCHANGED <<v1, v2, v3, v4, v5, v8, v10, Gr!screen, v15, v17>>
PictureRead(r) ==
  /\ r.kind = "load" /\ v2' = r.of /\ v8' = TRUE /\ v17' = FALSE /\ v5' = None
  /\ Began(r) /\ UNCHANGED <<v3, v4, v9>>
  /\ v10' \subseteq v10 /\ v12' \subseteq v12 /\ v11' \in {v11, None}
  /\ v13' \in {v13, r.of} /\ v14' \in {v14, None}
Reload(r) == PictureRead(r) /\ UNCHANGED <<v1, v15>>
Counted(c) ==
  /\ v1[c.of] < groupMaxChanges
  /\ v1' = [v1 EXCEPT ![c.of] = @ + 1] /\ v15' = [v15 EXCEPT ![c.of] = v1[c.of] + 1]
ReloadAfter(r, c) == PictureRead(r) /\ Counted(c) /\ r.of = c.back
RosterAfter(r, c) ==
  /\ r.kind = "roster" /\ r.of = c.of /\ Counted(c) /\ Began(r)
  /\ v10' \subseteq v10 /\ v12' \subseteq v12 /\ v11' \in {v11, None}
  /\ UNCHANGED <<v2, Gr!shown, v8, v9, v13, v14, v17>>

(* A read answers with p. *)
OfRead(r, p) == p # None /\ p.of = r.of /\ r.since <= p.rev /\ p.rev <= v1[r.of]
DetailHeard(r, p) ==
  /\ r.kind = "load" /\ v6' = v6 \ {r} /\ v8' = FALSE
  /\ OfRead(r, p) /\ v3' = p /\ v4' = p
  /\ v11' \in {v11, "money"} /\ v13' \in {v13, None}
  /\ UNCHANGED <<v1, v2, v5, v7, v9, v10, v12, v14, v15, v16, v17>>
MembersHeard(r, p) ==
  /\ r.kind = "roster" /\ v6' = v6 \ {r} /\ OfRead(r, p) /\ v4' = p /\ v5' = None
  /\ UNCHANGED <<v1, v2, v3, v7, v8, v9, v10, Gr!screen, Gr!history>>
SimplifiedHeard(r, p) ==
  /\ r.kind = "simplify" /\ v6' = v6 \ {r} /\ v9' = FALSE /\ OfRead(r, p) /\ v5' = p
  /\ UNCHANGED <<v1, v2, v3, v4, v7, v8, v10, Gr!screen, Gr!history>>
Confirmed(c) ==
  /\ v11 # None /\ v10' = v10 \cup {c} /\ v12' \subseteq Gr!Kinds
  /\ v3 # None /\ c.back = v2 /\ c.of \in {v2, v3.of}
  /\ UNCHANGED <<v1, v2, Gr!shown, v6, v7, v8, v9, v11, v13, v14, Gr!history>>

(* A read that begins is the only one of its kind. *)
LEMMA BeginIs ==
  ASSUME Gr!GroupAssumption, Gr!ReadType, NEW k \in Gr!ReadKinds, NEW g \in groupGroups, v1'[g] \in 0..groupMaxChanges, Gr!Begin(k, g)
  PROVE \E r \in Gr!Reads : r.kind = k /\ r.of = g /\ Began(r)
<1> DEFINE r == [kind |-> k, of |-> g, since |-> v1'[g]]
<1>1. r \in Gr!Reads /\ r.kind = k /\ r.of = g /\ r.since = v1'[g] BY DEF Gr!Reads
<1>2. v6' = Gr!Others(k) \cup {r} BY DEF Gr!Begin
<1>3. v7' \in 0..groupMaxReads BY GroupConstants DEF Gr!Begin, Gr!ReadType
<1>4. v16' = \/ v16 \/ Gr!Others(k) # {}
             \/ IF v3 = None THEN v2' # g ELSE v3.of # g
  BY DEF Gr!Begin
<1> HIDE DEF r
<1> QED BY <1>1, <1>2, <1>3, <1>4 DEF Began

(* Reading the picture begins a load of the group that is then selected. *)
LEMMA ReadIs ==
  ASSUME Gr!GroupAssumption, Gr!ReadType, NEW g \in groupGroups, v1'[g] \in 0..groupMaxChanges, Gr!Read(g),
         v10' \subseteq v10, v12' \subseteq v12, v11' \in {v11, None},
         v13' \in {v13, g}, v14' \in {v14, None}
  PROVE \E r \in Gr!Reads : PictureRead(r) /\ r.of = g
<1>1. PICK r \in Gr!Reads : r.kind = "load" /\ r.of = g /\ Began(r)
  <2>1. "load" \in Gr!ReadKinds /\ Gr!Begin("load", g) BY DEF Gr!ReadKinds, Gr!Read
  <2> QED BY <2>1, BeginIs
<1>2. PictureRead(r) BY <1>1 DEF Gr!Read, PictureRead, Gr!AfterLoadBegins
<1> QED BY <1>1, <1>2

(* A change of mine that is applied is counted in its group. *)
LEMMA CountedIs ==
  ASSUME Gr!GroupAssumption, Gr!RevType, Gr!ScreenType, NEW c \in v10, Counted(c)
  PROVE Gr!RevType' /\ c.of \in groupGroups /\ c.back \in groupGroups
<1>1. c.of \in groupGroups /\ c.back \in groupGroups BY DEF Gr!ScreenType, Gr!Changes
<1> QED BY <1>1, GroupConstants DEF Gr!RevType, Counted

(* What a read answers with is a picture of its group, not older than its request. *)
LEMMA PictureIs ==
  ASSUME Gr!GroupAssumption, Gr!RevType, Gr!ReadType, NEW r \in v6, NEW q \in Gr!Picture(r)
  PROVE q \in Gr!Pictures /\ OfRead(r, q)
<1>1. PICK v \in r.since..v1[r.of] : q = [of |-> r.of, rev |-> v] BY DEF Gr!Picture
<1>2. r.of \in groupGroups /\ r.since \in 0..groupMaxChanges /\ v1[r.of] \in 0..groupMaxChanges
  BY DEF Gr!ReadType, Gr!RevType, Gr!Reads
<1>3. v \in 0..groupMaxChanges /\ r.since <= v /\ v <= v1[r.of] BY <1>2, GroupConstants
<1>4. q \in [of : groupGroups, rev : 0..groupMaxChanges] BY <1>1, <1>2, <1>3
<1>5. q # None BY <1>4, GroupConstants
<1>6. q.of = r.of /\ q.rev = v BY <1>1
<1> QED BY <1>3, <1>4, <1>5, <1>6 DEF OfRead, Gr!Pictures

(* A dialog asks for a change of the group selected, or shown. *)
LEMMA ConfirmIs ==
  ASSUME Gr!GroupAssumption, Gr!PictureType, Gr!ScreenType, Gr!Confirm
  PROVE \E c \in Gr!Changes : Confirmed(c)
<1> DEFINE g == IF v11 = "member" THEN v2 ELSE v3.of
           c == [kind |-> v11, of |-> g, back |-> v2]
<1>0. v11 # None /\ v3 # None BY DEF Gr!Confirm, Gr!Ready, Gr!ScreenType
<1>1. v2 \in groupGroups /\ v3.of \in groupGroups /\ v11 \in Gr!Kinds
  BY <1>0 DEF Gr!PictureType, Gr!ScreenType, Gr!Pictures
<1>2. g \in groupGroups /\ g \in {v2, v3.of} BY <1>1
<1>3. v10' = v10 \cup {c} BY DEF Gr!Confirm
<1> HIDE DEF g
<1>4. c \in Gr!Changes /\ c.of = g /\ c.back = v2 BY <1>1, <1>2 DEF Gr!Changes
<1> HIDE DEF c
<1>5. v12' \subseteq Gr!Kinds BY <1>1 DEF Gr!Confirm, Gr!ScreenType
<1>6. Confirmed(c) BY <1>0, <1>2, <1>3, <1>4, <1>5 DEF Confirmed, Gr!Confirm
<1> QED BY <1>4, <1>6

(* Opening, a link, a pull and a settlement that was kept read the picture. *)
LEMMA ReloadIs ==
  ASSUME Gr!GroupAssumption, Gr!RevType, Gr!PictureType, Gr!ReadType, Gr!ScreenType,
         \/ Gr!HearLink \/ Gr!PullToRefresh \/ \E g \in groupGroups : Gr!OpenGroup(g)
         \/ \E c \in v10 : Gr!HearKeptSettlement(c)
  PROVE \E r \in Gr!Reads : Reload(r)
<1>1. ASSUME NEW g \in groupGroups, Gr!OpenGroup(g) PROVE \E r \in Gr!Reads : Reload(r)
  <2>1. /\ Gr!Read(g) /\ UNCHANGED <<v1, v15, v10, v11, v12, v14>> /\ v13' \in {v13, g}
    BY <1>1 DEF Gr!OpenGroup, Gr!LoadSplitGroupDetail
  <2>2. v1'[g] \in 0..groupMaxChanges BY <2>1 DEF Gr!RevType
  <2> QED BY <2>1, <2>2, ReadIs DEF Reload
<1>2. CASE Gr!HearLink
  <2>1. /\ v14 \in groupGroups /\ Gr!Read(v14) /\ UNCHANGED <<v1, v15, v10, v11, v12>> /\ v13' \in {v13, v14}
        /\ v14' = None
    BY <1>2 DEF Gr!HearLink, Gr!LoadSplitGroupDetail, Gr!ScreenType
  <2>2. v1'[v14] \in 0..groupMaxChanges BY <2>1 DEF Gr!RevType
  <2> QED BY <2>1, <2>2, ReadIs DEF Reload
<1>3. CASE Gr!PullToRefresh
  <2>1. /\ v2 \in groupGroups /\ Gr!Read(v2) /\ UNCHANGED <<v1, v15, v10, v11, v12, v13, v14>>
    BY <1>3 DEF Gr!PullToRefresh, Gr!LoadSplitGroupDetail, Gr!PictureType, Gr!screen
  <2>2. v1'[v2] \in 0..groupMaxChanges BY <2>1 DEF Gr!RevType
  <2> QED BY <2>1, <2>2, ReadIs DEF Reload
<1>4. ASSUME NEW c \in v10, Gr!HearKeptSettlement(c) PROVE \E r \in Gr!Reads : Reload(r)
  <2>1. /\ c.back \in groupGroups /\ Gr!Read(c.back) /\ UNCHANGED <<v1, v15, v13, v14>>
        /\ v10' \subseteq v10 /\ v12' \subseteq v12 /\ v11' \in {v11, None}
    BY <1>4 DEF Gr!HearKeptSettlement, Gr!Done, Gr!RefreshAfter, Gr!ScreenType, Gr!Changes
  <2>2. v1'[c.back] \in 0..groupMaxChanges BY <2>1 DEF Gr!RevType
  <2> QED BY <2>1, <2>2, ReadIs DEF Reload
<1> QED BY <1>1, <1>2, <1>3, <1>4

(* A change that was applied reads the picture or the roster again. *)
LEMMA AppliedIs ==
  ASSUME Gr!GroupAssumption, Gr!RevType, Gr!PictureType, Gr!ReadType, Gr!ScreenType, NEW c \in v10,
         Gr!HearMemberChange(c) \/ Gr!HearChange(c)
  PROVE \E r \in Gr!Reads : ReloadAfter(r, c) \/ RosterAfter(r, c)
<1>1. Counted(c) /\ v10' \subseteq v10 /\ v12' \subseteq v12 /\ v11' \in {v11, None}
  BY DEF Gr!HearMemberChange, Gr!HearChange, Gr!Applied, Gr!Done, Counted
<1>2. Gr!RevType' /\ c.of \in groupGroups /\ c.back \in groupGroups BY <1>1, CountedIs
<1>3. v1'[c.of] \in 0..groupMaxChanges /\ v1'[c.back] \in 0..groupMaxChanges BY <1>2 DEF Gr!RevType
<1>4. CASE Gr!HearMemberChange(c)
  <2>1. "roster" \in Gr!ReadKinds /\ Gr!Begin("roster", c.of) BY <1>4 DEF Gr!HearMemberChange, Gr!ReadKinds
  <2>2. PICK r \in Gr!Reads : r.kind = "roster" /\ r.of = c.of /\ Began(r) BY <1>2, <1>3, <2>1, BeginIs
  <2>3. RosterAfter(r, c) BY <1>1, <1>4, <2>2 DEF RosterAfter, Gr!HearMemberChange
  <2> QED BY <2>3
<1>5. CASE Gr!HearChange(c)
  <2>1. Gr!Read(c.back) /\ UNCHANGED <<v13, v14>> BY <1>5 DEF Gr!HearChange, Gr!RefreshAfter
  <2>2. PICK r \in Gr!Reads : PictureRead(r) /\ r.of = c.back BY <1>1, <1>2, <1>3, <2>1, ReadIs
  <2> QED BY <1>1, <2>2 DEF ReloadAfter
<1> QED BY <1>4, <1>5

(* The suggested payments are read for the group that is selected. *)
LEMMA SimplifyIs ==
  ASSUME Gr!GroupAssumption, Gr!RevType, Gr!PictureType, Gr!ReadType, Gr!LoadSplitGroupSimplify
  PROVE \E r \in Gr!Reads : SimplifyBegun(r)
<1>1. v2 \in groupGroups /\ Gr!Begin("simplify", v2) /\ "simplify" \in Gr!ReadKinds
  BY DEF Gr!LoadSplitGroupSimplify, Gr!PictureType, Gr!ReadKinds
<1>2. v1'[v2] \in 0..groupMaxChanges BY <1>1 DEF Gr!LoadSplitGroupSimplify, Gr!RevType
<1>3. PICK r \in Gr!Reads : r.kind = "simplify" /\ r.of = v2 /\ Began(r) BY <1>1, <1>2, BeginIs
<1> QED BY <1>3 DEF SimplifyBegun, Gr!LoadSplitGroupSimplify

(* The answer of a read is such a picture. *)
LEMMA HeardIs ==
  ASSUME Gr!GroupAssumption, Gr!RevType, Gr!ReadType, NEW r \in v6,
         Gr!HearDetail(r) \/ Gr!HearMembers(r) \/ Gr!HearSimplified(r)
  PROVE \E p \in Gr!Pictures : DetailHeard(r, p) \/ MembersHeard(r, p) \/ SimplifiedHeard(r, p)
<1>1. CASE Gr!HearDetail(r)
  <2>1. PICK p \in Gr!Picture(r) : v3' = p /\ v4' = p BY <1>1 DEF Gr!HearDetail
  <2>2. p \in Gr!Pictures /\ OfRead(r, p) BY PictureIs
  <2>3. DetailHeard(r, p) BY <1>1, <2>1, <2>2 DEF DetailHeard, Gr!HearDetail
  <2> QED BY <2>2, <2>3
<1>2. CASE Gr!HearMembers(r)
  <2>1. PICK p \in Gr!Picture(r) : v4' = p BY <1>2 DEF Gr!HearMembers
  <2>2. p \in Gr!Pictures /\ OfRead(r, p) BY PictureIs
  <2>3. MembersHeard(r, p) BY <1>2, <2>1, <2>2 DEF MembersHeard, Gr!HearMembers, Gr!AfterRoster
  <2> QED BY <2>2, <2>3
<1>3. CASE Gr!HearSimplified(r)
  <2>1. PICK p \in Gr!Picture(r) : v5' = p BY <1>3 DEF Gr!HearSimplified
  <2>2. p \in Gr!Pictures /\ OfRead(r, p) BY PictureIs
  <2>3. SimplifiedHeard(r, p) BY <1>3, <2>1, <2>2 DEF SimplifiedHeard, Gr!HearSimplified
  <2> QED BY <2>2, <2>3
<1> QED BY <1>1, <1>2, <1>3

(* What a step of a group's screen may be. *)
LEMMA GroupCases ==
  ASSUME Gr!GroupAssumption, Gr!IInv, Gr!Next
  PROVE \/ \E r \in Gr!Reads : \/ SimplifyBegun(r) \/ Reload(r)
                               \/ \E c \in v10 : ReloadAfter(r, c) \/ RosterAfter(r, c)
        \/ \E r \in v6 : \/ Gr!HearError(r)
                         \/ \E p \in Gr!Pictures : DetailHeard(r, p) \/ MembersHeard(r, p) \/ SimplifiedHeard(r, p)
        \/ Gr!ClearSplitGroupDetail \/ Gr!OpenMoney \/ Gr!OpenMember \/ Gr!CloseDialog
        \/ \E c \in Gr!Changes : Confirmed(c)
        \/ \E g \in groupGroups : Gr!SomebodyElseChanges(g)
        \/ \E c \in v10 : Gr!HearRefusal(c)
<1>0. Gr!RevType /\ Gr!PictureType /\ Gr!ReadType /\ Gr!ScreenType BY DEF Gr!IInv
<1>1. CASE Gr!LoadSplitGroupSimplify BY <1>0, <1>1, SimplifyIs
<1>2. CASE \/ Gr!HearLink \/ Gr!PullToRefresh \/ \E g \in groupGroups : Gr!OpenGroup(g)
           \/ \E c \in v10 : Gr!HearKeptSettlement(c)
  BY <1>0, <1>2, ReloadIs
<1>3. CASE \E c \in v10 : Gr!HearMemberChange(c) \/ Gr!HearChange(c)
  <2>1. PICK c \in v10 : Gr!HearMemberChange(c) \/ Gr!HearChange(c) BY <1>3
  <2>2. PICK r \in Gr!Reads : ReloadAfter(r, c) \/ RosterAfter(r, c) BY <1>0, <2>1, AppliedIs
  <2> QED BY <2>2
<1>4. CASE \E r \in v6 : Gr!HearDetail(r) \/ Gr!HearMembers(r) \/ Gr!HearSimplified(r) BY <1>0, <1>4, HeardIs
<1>5. CASE Gr!Confirm BY <1>0, <1>5, ConfirmIs
<1> QED BY <1>1, <1>2, <1>3, <1>4, <1>5 DEF Gr!Next

(* The newest change of mine is not newer than the group. *)
LEMMA GroupRevs ==
  ASSUME Gr!GroupAssumption, Gr!IInv, Gr!Next
  PROVE Gr!RevType'
<1> USE DEF Gr!RevType, Gr!ScreenType, Gr!shown, Gr!history, Gr!screen
<1>0. Gr!RevType /\ Gr!ScreenType BY DEF Gr!IInv
<1>1. ASSUME NEW r \in Gr!Reads, SimplifyBegun(r) PROVE Gr!RevType'
  BY <1>0, <1>1, GroupConstants DEF SimplifyBegun, Began, Gr!Others
<1>2. ASSUME NEW r \in Gr!Reads, Reload(r) PROVE Gr!RevType'
  BY <1>0, <1>2, GroupConstants DEF Reload, PictureRead, Began, Gr!Others
<1>3. ASSUME NEW r \in Gr!Reads, NEW c \in v10, ReloadAfter(r, c) PROVE Gr!RevType'
  BY <1>0, <1>3, GroupConstants, CountedIs DEF ReloadAfter, PictureRead, Began, Counted, Gr!Others
<1>4. ASSUME NEW r \in Gr!Reads, NEW c \in v10, RosterAfter(r, c) PROVE Gr!RevType'
  BY <1>0, <1>4, GroupConstants, CountedIs DEF RosterAfter, Began, Counted, Gr!Others
<1>5. ASSUME NEW r \in v6, NEW p \in Gr!Pictures, DetailHeard(r, p) PROVE Gr!RevType'
  BY <1>0, <1>5, GroupConstants DEF DetailHeard, OfRead
<1>6. ASSUME NEW r \in v6, NEW p \in Gr!Pictures, MembersHeard(r, p) PROVE Gr!RevType'
  BY <1>0, <1>6, GroupConstants DEF MembersHeard, OfRead
<1>7. ASSUME NEW r \in v6, NEW p \in Gr!Pictures, SimplifiedHeard(r, p) PROVE Gr!RevType'
  BY <1>0, <1>7, GroupConstants DEF SimplifiedHeard, OfRead
<1>8. ASSUME NEW r \in v6, Gr!HearError(r) PROVE Gr!RevType'
  BY <1>0, <1>8, GroupConstants DEF Gr!HearError, Gr!Lowered
<1>9. CASE Gr!ClearSplitGroupDetail
  BY <1>0, <1>9, GroupConstants DEF Gr!ClearSplitGroupDetail, Gr!Dropped
<1>10. CASE Gr!OpenMoney \/ Gr!OpenMember \/ Gr!CloseDialog
  BY <1>0, <1>10, GroupConstants DEF Gr!OpenMoney, Gr!OpenMember, Gr!OpenDialog, Gr!CloseDialog
<1>11. ASSUME NEW c \in Gr!Changes, Confirmed(c) PROVE Gr!RevType'
  BY <1>0, <1>11, GroupConstants DEF Confirmed
<1>12. ASSUME NEW g \in groupGroups, Gr!SomebodyElseChanges(g) PROVE Gr!RevType'
  BY <1>0, <1>12, GroupConstants DEF Gr!SomebodyElseChanges
<1>13. ASSUME NEW c \in v10, Gr!HearRefusal(c) PROVE Gr!RevType'
  BY <1>0, <1>13, GroupConstants DEF Gr!HearRefusal
<1> QED BY GroupCases, <1>1, <1>2, <1>3, <1>4, <1>5, <1>6, <1>7, <1>8, <1>9, <1>10, <1>11, <1>12,
  <1>13

(* What is shown has been. *)
LEMMA GroupPictures ==
  ASSUME Gr!GroupAssumption, Gr!IInv, Gr!Next
  PROVE Gr!PictureType'
<1> USE DEF Gr!PictureType, Gr!RevType, Gr!ReadType, Gr!ScreenType, Gr!Pictures, Gr!Reads, Gr!Changes, Gr!shown, Gr!history,
  Gr!screen
<1>0. Gr!PictureType /\ Gr!RevType /\ Gr!ReadType /\ Gr!ScreenType BY DEF Gr!IInv
<1>1. ASSUME NEW r \in Gr!Reads, SimplifyBegun(r) PROVE Gr!PictureType'
  BY <1>0, <1>1, GroupConstants DEF SimplifyBegun, Began, Gr!Others
<1>2. ASSUME NEW r \in Gr!Reads, Reload(r) PROVE Gr!PictureType'
  BY <1>0, <1>2, GroupConstants DEF Reload, PictureRead, Began, Gr!Others
<1>3. ASSUME NEW r \in Gr!Reads, NEW c \in v10, ReloadAfter(r, c) PROVE Gr!PictureType'
  BY <1>0, <1>3, GroupConstants DEF ReloadAfter, PictureRead, Began, Counted, Gr!Others
<1>4. ASSUME NEW r \in Gr!Reads, NEW c \in v10, RosterAfter(r, c) PROVE Gr!PictureType'
  BY <1>0, <1>4, GroupConstants DEF RosterAfter, Began, Counted, Gr!Others
<1>5. ASSUME NEW r \in v6, NEW p \in Gr!Pictures, DetailHeard(r, p) PROVE Gr!PictureType'
  <2>1. p # None /\ p.rev <= v1[p.of] BY <1>5 DEF DetailHeard, OfRead
  <2>2. v2 # None BY <1>0, <1>5 DEF DetailHeard
  <2> QED BY <1>0, <1>5, <2>1, <2>2, GroupConstants DEF DetailHeard
<1>6. ASSUME NEW r \in v6, NEW p \in Gr!Pictures, MembersHeard(r, p) PROVE Gr!PictureType'
  BY <1>0, <1>6, GroupConstants DEF MembersHeard, OfRead
<1>7. ASSUME NEW r \in v6, NEW p \in Gr!Pictures, SimplifiedHeard(r, p) PROVE Gr!PictureType'
  BY <1>0, <1>7, GroupConstants DEF SimplifiedHeard, OfRead
<1>8. ASSUME NEW r \in v6, Gr!HearError(r) PROVE Gr!PictureType'
  BY <1>0, <1>8, GroupConstants DEF Gr!HearError, Gr!Lowered
<1>9. CASE Gr!ClearSplitGroupDetail
  BY <1>0, <1>9, GroupConstants DEF Gr!ClearSplitGroupDetail, Gr!Dropped
<1>10. CASE Gr!OpenMoney \/ Gr!OpenMember \/ Gr!CloseDialog
  BY <1>0, <1>10, GroupConstants DEF Gr!OpenMoney, Gr!OpenMember, Gr!OpenDialog, Gr!CloseDialog
<1>11. ASSUME NEW c \in Gr!Changes, Confirmed(c) PROVE Gr!PictureType'
  BY <1>0, <1>11, GroupConstants DEF Confirmed
<1>12. ASSUME NEW g \in groupGroups, Gr!SomebodyElseChanges(g) PROVE Gr!PictureType'
  BY <1>0, <1>12, GroupConstants DEF Gr!SomebodyElseChanges
<1>13. ASSUME NEW c \in v10, Gr!HearRefusal(c) PROVE Gr!PictureType'
  BY <1>0, <1>13, GroupConstants DEF Gr!HearRefusal
<1> QED BY GroupCases, <1>1, <1>2, <1>3, <1>4, <1>5, <1>6, <1>7, <1>8, <1>9, <1>10, <1>11, <1>12,
  <1>13

(* One read of a kind is on its way. *)
LEMMA GroupReads ==
  ASSUME Gr!GroupAssumption, Gr!IInv, Gr!Next
  PROVE Gr!ReadType'
<1> USE DEF Gr!ReadType, Gr!RevType, Gr!ScreenType, Gr!PictureType, Gr!Reads, Gr!Changes, Gr!shown, Gr!history, Gr!screen
<1>0. Gr!ReadType /\ Gr!RevType /\ Gr!ScreenType /\ Gr!PictureType BY DEF Gr!IInv
<1>1. ASSUME NEW r \in Gr!Reads, SimplifyBegun(r) PROVE Gr!ReadType'
  BY <1>0, <1>1, GroupConstants DEF SimplifyBegun, Began, Gr!Others
<1>2. ASSUME NEW r \in Gr!Reads, Reload(r) PROVE Gr!ReadType'
  <2>1. v7' \in 0..groupMaxReads /\ v8' \in BOOLEAN /\ v9' \in BOOLEAN BY <1>0, <1>2,
    GroupConstants DEF Reload, ReloadAfter, PictureRead, Began, Counted, Gr!Others
  <2>2. v16' \in BOOLEAN /\ v17' \in BOOLEAN BY <1>0, <1>2, GroupConstants DEF Reload,
    ReloadAfter, PictureRead, Began, Counted, Gr!Others
  <2>3. \A g \in groupGroups : v1[g] <= v1'[g] BY <1>0, <1>2, GroupConstants, CountedIs DEF Reload,
    ReloadAfter, PictureRead, Began, Counted, Gr!Others
  <2>4. \A s \in v6' : s = r \/ (s \in v6 /\ s.kind # "load") BY <1>0, <1>2, GroupConstants
    DEF Reload, ReloadAfter, PictureRead, Began, Counted, Gr!Others
  <2>5. /\ r.kind = "load" /\ v8' /\ v2' # None /\ r.since <= v1'[r.of]
        /\ (v9' <=> v9) /\ v1' \in [groupGroups -> 0..groupMaxChanges]
    BY <1>0, <1>2, GroupConstants, CountedIs DEF Reload, ReloadAfter, PictureRead, Began, Counted,
      Gr!Others
  <2>6. ASSUME NEW s \in v6'
        PROVE /\ s \in Gr!Reads /\ s.since <= v1'[s.of] /\ (s.kind = "load" => v8' /\ v2' # None)
              /\ (s.kind = "simplify" => v9')
    <3>1. CASE s = r BY <2>5, <3>1
    <3>2. CASE s # r
      <4>1. s \in v6 /\ s.kind # "load" BY <2>4, <3>2
      <4>2. s \in Gr!Reads /\ s.since <= v1[s.of] /\ s.of \in groupGroups /\ s.since \in 0..groupMaxChanges BY
        <1>0, <4>1
      <4>3. s.since <= v1'[s.of] BY <1>0, <2>3, <2>5, <4>2, GroupConstants
      <4> QED BY <1>0, <2>5, <4>1, <4>2, <4>3
    <3> QED BY <3>1, <3>2
  <2>7. \A s, t \in v6' : s.kind = t.kind => s = t BY <1>0, <2>4, <2>5
  <2> QED BY <2>1, <2>2, <2>6, <2>7
<1>3. ASSUME NEW r \in Gr!Reads, NEW c \in v10, ReloadAfter(r, c) PROVE Gr!ReadType'
  <2>1. v7' \in 0..groupMaxReads /\ v8' \in BOOLEAN /\ v9' \in BOOLEAN BY <1>0, <1>3,
    GroupConstants DEF Reload, ReloadAfter, PictureRead, Began, Counted, Gr!Others
  <2>2. v16' \in BOOLEAN /\ v17' \in BOOLEAN BY <1>0, <1>3, GroupConstants DEF Reload,
    ReloadAfter, PictureRead, Began, Counted, Gr!Others
  <2>3. \A g \in groupGroups : v1[g] <= v1'[g] BY <1>0, <1>3, GroupConstants, CountedIs DEF Reload,
    ReloadAfter, PictureRead, Began, Counted, Gr!Others
  <2>4. \A s \in v6' : s = r \/ (s \in v6 /\ s.kind # "load") BY <1>0, <1>3, GroupConstants
    DEF Reload, ReloadAfter, PictureRead, Began, Counted, Gr!Others
  <2>5. /\ r.kind = "load" /\ v8' /\ v2' # None /\ r.since <= v1'[r.of]
        /\ (v9' <=> v9) /\ v1' \in [groupGroups -> 0..groupMaxChanges]
    BY <1>0, <1>3, GroupConstants, CountedIs DEF Reload, ReloadAfter, PictureRead, Began, Counted,
      Gr!Others
  <2>6. ASSUME NEW s \in v6'
        PROVE /\ s \in Gr!Reads /\ s.since <= v1'[s.of] /\ (s.kind = "load" => v8' /\ v2' # None)
              /\ (s.kind = "simplify" => v9')
    <3>1. CASE s = r BY <2>5, <3>1
    <3>2. CASE s # r
      <4>1. s \in v6 /\ s.kind # "load" BY <2>4, <3>2
      <4>2. s \in Gr!Reads /\ s.since <= v1[s.of] /\ s.of \in groupGroups /\ s.since \in 0..groupMaxChanges BY
        <1>0, <4>1
      <4>3. s.since <= v1'[s.of] BY <1>0, <2>3, <2>5, <4>2, GroupConstants
      <4> QED BY <1>0, <2>5, <4>1, <4>2, <4>3
    <3> QED BY <3>1, <3>2
  <2>7. \A s, t \in v6' : s.kind = t.kind => s = t BY <1>0, <2>4, <2>5
  <2> QED BY <2>1, <2>2, <2>6, <2>7
<1>4. ASSUME NEW r \in Gr!Reads, NEW c \in v10, RosterAfter(r, c) PROVE Gr!ReadType'
  BY <1>0, <1>4, GroupConstants DEF RosterAfter, Began, Counted, Gr!Others
<1>5. ASSUME NEW r \in v6, NEW p \in Gr!Pictures, DetailHeard(r, p) PROVE Gr!ReadType'
  BY <1>0, <1>5, GroupConstants DEF DetailHeard, OfRead
<1>6. ASSUME NEW r \in v6, NEW p \in Gr!Pictures, MembersHeard(r, p) PROVE Gr!ReadType'
  BY <1>0, <1>6, GroupConstants DEF MembersHeard, OfRead
<1>7. ASSUME NEW r \in v6, NEW p \in Gr!Pictures, SimplifiedHeard(r, p) PROVE Gr!ReadType'
  BY <1>0, <1>7, GroupConstants DEF SimplifiedHeard, OfRead
<1>8. ASSUME NEW r \in v6, Gr!HearError(r) PROVE Gr!ReadType'
  BY <1>0, <1>8, GroupConstants DEF Gr!HearError, Gr!Lowered
<1>9. CASE Gr!ClearSplitGroupDetail
  BY <1>0, <1>9, GroupConstants DEF Gr!ClearSplitGroupDetail, Gr!Dropped
<1>10. CASE Gr!OpenMoney \/ Gr!OpenMember \/ Gr!CloseDialog
  BY <1>0, <1>10, GroupConstants DEF Gr!OpenMoney, Gr!OpenMember, Gr!OpenDialog, Gr!CloseDialog
<1>11. ASSUME NEW c \in Gr!Changes, Confirmed(c) PROVE Gr!ReadType'
  BY <1>0, <1>11, GroupConstants DEF Confirmed
<1>12. ASSUME NEW g \in groupGroups, Gr!SomebodyElseChanges(g) PROVE Gr!ReadType'
  BY <1>0, <1>12, GroupConstants DEF Gr!SomebodyElseChanges
<1>13. ASSUME NEW c \in v10, Gr!HearRefusal(c) PROVE Gr!ReadType'
  BY <1>0, <1>13, GroupConstants DEF Gr!HearRefusal
<1> QED BY GroupCases, <1>1, <1>2, <1>3, <1>4, <1>5, <1>6, <1>7, <1>8, <1>9, <1>10, <1>11, <1>12,
  <1>13

(* A dialog stands on a picture. *)
LEMMA GroupScreen ==
  ASSUME Gr!GroupAssumption, Gr!IInv, Gr!Next
  PROVE Gr!ScreenType'
<1> USE DEF Gr!ScreenType, Gr!PictureType, Gr!ReadType, Gr!Changes, Gr!Kinds, Gr!Reads, Gr!shown, Gr!history, Gr!screen
<1>0. Gr!ScreenType /\ Gr!PictureType /\ Gr!ReadType BY DEF Gr!IInv
<1>1. ASSUME NEW r \in Gr!Reads, SimplifyBegun(r) PROVE Gr!ScreenType'
  BY <1>0, <1>1, GroupConstants DEF SimplifyBegun, Began, Gr!Others
<1>2. ASSUME NEW r \in Gr!Reads, Reload(r) PROVE Gr!ScreenType'
  BY <1>0, <1>2, GroupConstants DEF Reload, PictureRead, Began, Gr!Others
<1>3. ASSUME NEW r \in Gr!Reads, NEW c \in v10, ReloadAfter(r, c) PROVE Gr!ScreenType'
  BY <1>0, <1>3, GroupConstants DEF ReloadAfter, PictureRead, Began, Counted, Gr!Others
<1>4. ASSUME NEW r \in Gr!Reads, NEW c \in v10, RosterAfter(r, c) PROVE Gr!ScreenType'
  BY <1>0, <1>4, GroupConstants DEF RosterAfter, Began, Counted, Gr!Others
<1>5. ASSUME NEW r \in v6, NEW p \in Gr!Pictures, DetailHeard(r, p) PROVE Gr!ScreenType'
  BY <1>0, <1>5, GroupConstants DEF DetailHeard, OfRead
<1>6. ASSUME NEW r \in v6, NEW p \in Gr!Pictures, MembersHeard(r, p) PROVE Gr!ScreenType'
  BY <1>0, <1>6, GroupConstants DEF MembersHeard, OfRead
<1>7. ASSUME NEW r \in v6, NEW p \in Gr!Pictures, SimplifiedHeard(r, p) PROVE Gr!ScreenType'
  BY <1>0, <1>7, GroupConstants DEF SimplifiedHeard, OfRead
<1>8. ASSUME NEW r \in v6, Gr!HearError(r) PROVE Gr!ScreenType'
  BY <1>0, <1>8, GroupConstants DEF Gr!HearError, Gr!Lowered
<1>9. CASE Gr!ClearSplitGroupDetail
  BY <1>0, <1>9, GroupConstants DEF Gr!ClearSplitGroupDetail, Gr!Dropped
<1>10. CASE Gr!OpenMoney \/ Gr!OpenMember \/ Gr!CloseDialog
  BY <1>0, <1>10, GroupConstants DEF Gr!OpenMoney, Gr!OpenMember, Gr!OpenDialog, Gr!CloseDialog
<1>11. ASSUME NEW c \in Gr!Changes, Confirmed(c) PROVE Gr!ScreenType'
  BY <1>0, <1>11, GroupConstants DEF Confirmed
<1>12. ASSUME NEW g \in groupGroups, Gr!SomebodyElseChanges(g) PROVE Gr!ScreenType'
  BY <1>0, <1>12, GroupConstants DEF Gr!SomebodyElseChanges
<1>13. ASSUME NEW c \in v10, Gr!HearRefusal(c) PROVE Gr!ScreenType'
  BY <1>0, <1>13, GroupConstants DEF Gr!HearRefusal
<1> QED BY GroupCases, <1>1, <1>2, <1>3, <1>4, <1>5, <1>6, <1>7, <1>8, <1>9, <1>10, <1>11, <1>12,
  <1>13

(* A load answers with what is not older than what is shown. *)
LEMMA GroupLoads ==
  ASSUME Gr!GroupAssumption, Gr!IInv, Gr!Next
  PROVE Gr!LoadInv'
<1> USE DEF Gr!LoadInv, Gr!RevType, Gr!PictureType, Gr!ReadType, Gr!ScreenType, Gr!Changes, Gr!Pictures, Gr!Reads, Gr!shown,
  Gr!history, Gr!screen
<1>0. Gr!LoadInv /\ Gr!RevType /\ Gr!PictureType /\ Gr!ReadType /\ Gr!ScreenType BY DEF Gr!IInv
<1>1. ASSUME NEW r \in Gr!Reads, SimplifyBegun(r) PROVE Gr!LoadInv'
  BY <1>0, <1>1, GroupConstants DEF SimplifyBegun, Began, Gr!Others
<1>2. ASSUME NEW r \in Gr!Reads, Reload(r) PROVE Gr!LoadInv'
  BY <1>0, <1>2, GroupConstants DEF Reload, PictureRead, Began, Gr!Others
<1>3. ASSUME NEW r \in Gr!Reads, NEW c \in v10, ReloadAfter(r, c) PROVE Gr!LoadInv'
  BY <1>0, <1>3, GroupConstants DEF ReloadAfter, PictureRead, Began, Counted, Gr!Others
<1>4. ASSUME NEW r \in Gr!Reads, NEW c \in v10, RosterAfter(r, c) PROVE Gr!LoadInv'
  BY <1>0, <1>4, GroupConstants DEF RosterAfter, Began, Counted, Gr!Others
<1>5. ASSUME NEW r \in v6, NEW p \in Gr!Pictures, DetailHeard(r, p) PROVE Gr!LoadInv'
  BY <1>0, <1>5, GroupConstants DEF DetailHeard, OfRead
<1>6. ASSUME NEW r \in v6, NEW p \in Gr!Pictures, MembersHeard(r, p) PROVE Gr!LoadInv'
  BY <1>0, <1>6, GroupConstants DEF MembersHeard, OfRead
<1>7. ASSUME NEW r \in v6, NEW p \in Gr!Pictures, SimplifiedHeard(r, p) PROVE Gr!LoadInv'
  BY <1>0, <1>7, GroupConstants DEF SimplifiedHeard, OfRead
<1>8. ASSUME NEW r \in v6, Gr!HearError(r) PROVE Gr!LoadInv'
  BY <1>0, <1>8, GroupConstants DEF Gr!HearError, Gr!Lowered
<1>9. CASE Gr!ClearSplitGroupDetail
  BY <1>0, <1>9, GroupConstants DEF Gr!ClearSplitGroupDetail, Gr!Dropped
<1>10. CASE Gr!OpenMoney \/ Gr!OpenMember \/ Gr!CloseDialog
  BY <1>0, <1>10, GroupConstants DEF Gr!OpenMoney, Gr!OpenMember, Gr!OpenDialog, Gr!CloseDialog
<1>11. ASSUME NEW c \in Gr!Changes, Confirmed(c) PROVE Gr!LoadInv'
  BY <1>0, <1>11, GroupConstants DEF Confirmed
<1>12. ASSUME NEW g \in groupGroups, Gr!SomebodyElseChanges(g) PROVE Gr!LoadInv'
  BY <1>0, <1>12, GroupConstants DEF Gr!SomebodyElseChanges
<1>13. ASSUME NEW c \in v10, Gr!HearRefusal(c) PROVE Gr!LoadInv'
  BY <1>0, <1>13, GroupConstants DEF Gr!HearRefusal
<1> QED BY GroupCases, <1>1, <1>2, <1>3, <1>4, <1>5, <1>6, <1>7, <1>8, <1>9, <1>10, <1>11, <1>12,
  <1>13

(* One read of the group selected. *)
LEMMA GroupSelected ==
  ASSUME Gr!GroupAssumption, Gr!IInv, Gr!Next
  PROVE Gr!SelectedInv'
<1> USE DEF Gr!SelectedInv, Gr!PictureType, Gr!ReadType, Gr!ScreenType, Gr!Changes, Gr!shown, Gr!history, Gr!screen
<1>0. Gr!SelectedInv /\ Gr!PictureType /\ Gr!ReadType /\ Gr!ScreenType BY DEF Gr!IInv
<1>1. ASSUME NEW r \in Gr!Reads, SimplifyBegun(r) PROVE Gr!SelectedInv'
  BY <1>0, <1>1, GroupConstants DEF SimplifyBegun, Began, Gr!Others
<1>2. ASSUME NEW r \in Gr!Reads, Reload(r) PROVE Gr!SelectedInv'
  BY <1>0, <1>2, GroupConstants DEF Reload, PictureRead, Began, Gr!Others
<1>3. ASSUME NEW r \in Gr!Reads, NEW c \in v10, ReloadAfter(r, c) PROVE Gr!SelectedInv'
  BY <1>0, <1>3, GroupConstants DEF ReloadAfter, PictureRead, Began, Counted, Gr!Others
<1>4. ASSUME NEW r \in Gr!Reads, NEW c \in v10, RosterAfter(r, c) PROVE Gr!SelectedInv'
  BY <1>0, <1>4, GroupConstants DEF RosterAfter, Began, Counted, Gr!Others
<1>5. ASSUME NEW r \in v6, NEW p \in Gr!Pictures, DetailHeard(r, p) PROVE Gr!SelectedInv'
  BY <1>0, <1>5, GroupConstants DEF DetailHeard, OfRead
<1>6. ASSUME NEW r \in v6, NEW p \in Gr!Pictures, MembersHeard(r, p) PROVE Gr!SelectedInv'
  BY <1>0, <1>6, GroupConstants DEF MembersHeard, OfRead
<1>7. ASSUME NEW r \in v6, NEW p \in Gr!Pictures, SimplifiedHeard(r, p) PROVE Gr!SelectedInv'
  BY <1>0, <1>7, GroupConstants DEF SimplifiedHeard, OfRead
<1>8. ASSUME NEW r \in v6, Gr!HearError(r) PROVE Gr!SelectedInv'
  BY <1>0, <1>8, GroupConstants DEF Gr!HearError, Gr!Lowered
<1>9. CASE Gr!ClearSplitGroupDetail
  BY <1>0, <1>9, GroupConstants DEF Gr!ClearSplitGroupDetail, Gr!Dropped
<1>10. CASE Gr!OpenMoney \/ Gr!OpenMember \/ Gr!CloseDialog
  BY <1>0, <1>10, GroupConstants DEF Gr!OpenMoney, Gr!OpenMember, Gr!OpenDialog, Gr!CloseDialog
<1>11. ASSUME NEW c \in Gr!Changes, Confirmed(c) PROVE Gr!SelectedInv'
  BY <1>0, <1>11, GroupConstants DEF Confirmed
<1>12. ASSUME NEW g \in groupGroups, Gr!SomebodyElseChanges(g) PROVE Gr!SelectedInv'
  BY <1>0, <1>12, GroupConstants DEF Gr!SomebodyElseChanges
<1>13. ASSUME NEW c \in v10, Gr!HearRefusal(c) PROVE Gr!SelectedInv'
  BY <1>0, <1>13, GroupConstants DEF Gr!HearRefusal
<1> QED BY GroupCases, <1>1, <1>2, <1>3, <1>4, <1>5, <1>6, <1>7, <1>8, <1>9, <1>10, <1>11, <1>12,
  <1>13

(* The payments stay those of the roster. *)
LEMMA GroupPayments ==
  ASSUME Gr!GroupAssumption, Gr!IInv, Gr!Next
  PROVE Gr!PaymentsInv'
<1> USE DEF Gr!PaymentsInv, Gr!RevType, Gr!PictureType, Gr!ReadType, Gr!ScreenType, Gr!SelectedInv, Gr!Changes,
  Gr!Pictures, Gr!Reads, Gr!shown, Gr!history, Gr!screen
<1>0. Gr!PaymentsInv /\ Gr!RevType /\ Gr!PictureType /\ Gr!ReadType /\ Gr!ScreenType /\ Gr!SelectedInv BY DEF Gr!IInv
<1>1. ASSUME NEW r \in Gr!Reads, SimplifyBegun(r) PROVE Gr!PaymentsInv'
  BY <1>0, <1>1, GroupConstants DEF SimplifyBegun, Began, Gr!Others
<1>2. ASSUME NEW r \in Gr!Reads, Reload(r) PROVE Gr!PaymentsInv'
  BY <1>0, <1>2, GroupConstants DEF Reload, PictureRead, Began, Gr!Others
<1>3. ASSUME NEW r \in Gr!Reads, NEW c \in v10, ReloadAfter(r, c) PROVE Gr!PaymentsInv'
  BY <1>0, <1>3, GroupConstants DEF ReloadAfter, PictureRead, Began, Counted, Gr!Others
<1>4. ASSUME NEW r \in Gr!Reads, NEW c \in v10, RosterAfter(r, c) PROVE Gr!PaymentsInv'
  BY <1>0, <1>4, GroupConstants DEF RosterAfter, Began, Counted, Gr!Others
<1>5. ASSUME NEW r \in v6, NEW p \in Gr!Pictures, DetailHeard(r, p) PROVE Gr!PaymentsInv'
  BY <1>0, <1>5, GroupConstants DEF DetailHeard, OfRead
<1>6. ASSUME NEW r \in v6, NEW p \in Gr!Pictures, MembersHeard(r, p) PROVE Gr!PaymentsInv'
  BY <1>0, <1>6, GroupConstants DEF MembersHeard, OfRead
<1>7. ASSUME NEW r \in v6, NEW p \in Gr!Pictures, SimplifiedHeard(r, p) PROVE Gr!PaymentsInv'
  BY <1>0, <1>7, GroupConstants DEF SimplifiedHeard, OfRead
<1>8. ASSUME NEW r \in v6, Gr!HearError(r) PROVE Gr!PaymentsInv'
  BY <1>0, <1>8, GroupConstants DEF Gr!HearError, Gr!Lowered
<1>9. CASE Gr!ClearSplitGroupDetail
  BY <1>0, <1>9, GroupConstants DEF Gr!ClearSplitGroupDetail, Gr!Dropped
<1>10. CASE Gr!OpenMoney \/ Gr!OpenMember \/ Gr!CloseDialog
  BY <1>0, <1>10, GroupConstants DEF Gr!OpenMoney, Gr!OpenMember, Gr!OpenDialog, Gr!CloseDialog
<1>11. ASSUME NEW c \in Gr!Changes, Confirmed(c) PROVE Gr!PaymentsInv'
  BY <1>0, <1>11, GroupConstants DEF Confirmed
<1>12. ASSUME NEW g \in groupGroups, Gr!SomebodyElseChanges(g) PROVE Gr!PaymentsInv'
  BY <1>0, <1>12, GroupConstants DEF Gr!SomebodyElseChanges
<1>13. ASSUME NEW c \in v10, Gr!HearRefusal(c) PROVE Gr!PaymentsInv'
  BY <1>0, <1>13, GroupConstants DEF Gr!HearRefusal
<1> QED BY GroupCases, <1>1, <1>2, <1>3, <1>4, <1>5, <1>6, <1>7, <1>8, <1>9, <1>10, <1>11, <1>12,
  <1>13

(* My changes are shown or being read. *)
LEMMA GroupMine ==
  ASSUME Gr!GroupAssumption, Gr!IInv, Gr!Next
  PROVE Gr!MineInv'
<1> USE DEF Gr!MineInv, Gr!RevType, Gr!PictureType, Gr!ReadType, Gr!ScreenType, Gr!SelectedInv, Gr!Changes, Gr!Pictures,
  Gr!Reads, Gr!shown, Gr!history, Gr!screen
<1>0. Gr!MineInv /\ Gr!RevType /\ Gr!PictureType /\ Gr!ReadType /\ Gr!ScreenType /\ Gr!SelectedInv BY DEF Gr!IInv
<1>1. ASSUME NEW r \in Gr!Reads, SimplifyBegun(r) PROVE Gr!MineInv'
  BY <1>0, <1>1, GroupConstants DEF SimplifyBegun, Began, Gr!Others
<1>2. ASSUME NEW r \in Gr!Reads, Reload(r) PROVE Gr!MineInv'
  BY <1>0, <1>2, GroupConstants DEF Reload, PictureRead, Began, Gr!Others
<1>3. ASSUME NEW r \in Gr!Reads, NEW c \in v10, ReloadAfter(r, c) PROVE Gr!MineInv'
  BY <1>0, <1>3, GroupConstants DEF ReloadAfter, PictureRead, Began, Counted, Gr!Others
<1>4. ASSUME NEW r \in Gr!Reads, NEW c \in v10, RosterAfter(r, c) PROVE Gr!MineInv'
  BY <1>0, <1>4, GroupConstants DEF RosterAfter, Began, Counted, Gr!Others
<1>5. ASSUME NEW r \in v6, NEW p \in Gr!Pictures, DetailHeard(r, p) PROVE Gr!MineInv'
  BY <1>0, <1>5, GroupConstants DEF DetailHeard, OfRead
<1>6. ASSUME NEW r \in v6, NEW p \in Gr!Pictures, MembersHeard(r, p) PROVE Gr!MineInv'
  BY <1>0, <1>6, GroupConstants DEF MembersHeard, OfRead
<1>7. ASSUME NEW r \in v6, NEW p \in Gr!Pictures, SimplifiedHeard(r, p) PROVE Gr!MineInv'
  BY <1>0, <1>7, GroupConstants DEF SimplifiedHeard, OfRead
<1>8. ASSUME NEW r \in v6, Gr!HearError(r) PROVE Gr!MineInv'
  BY <1>0, <1>8, GroupConstants DEF Gr!HearError, Gr!Lowered
<1>9. CASE Gr!ClearSplitGroupDetail
  BY <1>0, <1>9, GroupConstants DEF Gr!ClearSplitGroupDetail, Gr!Dropped
<1>10. CASE Gr!OpenMoney \/ Gr!OpenMember \/ Gr!CloseDialog
  BY <1>0, <1>10, GroupConstants DEF Gr!OpenMoney, Gr!OpenMember, Gr!OpenDialog, Gr!CloseDialog
<1>11. ASSUME NEW c \in Gr!Changes, Confirmed(c) PROVE Gr!MineInv'
  BY <1>0, <1>11, GroupConstants DEF Confirmed
<1>12. ASSUME NEW g \in groupGroups, Gr!SomebodyElseChanges(g) PROVE Gr!MineInv'
  BY <1>0, <1>12, GroupConstants DEF Gr!SomebodyElseChanges
<1>13. ASSUME NEW c \in v10, Gr!HearRefusal(c) PROVE Gr!MineInv'
  BY <1>0, <1>13, GroupConstants DEF Gr!HearRefusal
<1> QED BY GroupCases, <1>1, <1>2, <1>3, <1>4, <1>5, <1>6, <1>7, <1>8, <1>9, <1>10, <1>11, <1>12,
  <1>13

(* What the invariant says of the screen. *)
LEMMA GroupShows ==
  ASSUME Gr!GroupAssumption, Gr!IInv, Gr!Next
  PROVE (Gr!OnePictureUnlessCrossed /\ Gr!MyChangesAreShown)'
<1>1. Gr!PaymentsInv' BY GroupPayments
<1>2. Gr!MineInv' BY GroupMine
<1>3. Gr!OnePictureUnlessCrossed' BY <1>1 DEF Gr!PaymentsInv, Gr!OnePictureUnlessCrossed, Gr!OneGroupsPicture
<1>4. Gr!MyChangesAreShown' BY <1>2 DEF Gr!MineInv, Gr!MyChangesAreShown
<1> QED BY <1>3, <1>4

(* The payments are not older than the roster. *)
LEMMA GroupSuggestions ==
  ASSUME Gr!GroupAssumption, Gr!IInv, Gr!Next
  PROVE Gr!SuggestionsOfTheseBalances'
<1> USE DEF Gr!SuggestionsOfTheseBalances, Gr!RevType, Gr!PictureType, Gr!ReadType, Gr!SelectedInv, Gr!PaymentsInv,
  Gr!Pictures, Gr!Reads, Gr!shown, Gr!history, Gr!screen
<1>0. Gr!SuggestionsOfTheseBalances /\ Gr!RevType /\ Gr!PictureType /\ Gr!ReadType /\ Gr!SelectedInv /\
  Gr!PaymentsInv BY DEF Gr!IInv
<1>1. ASSUME NEW r \in Gr!Reads, SimplifyBegun(r) PROVE Gr!SuggestionsOfTheseBalances'
  BY <1>0, <1>1, GroupConstants DEF SimplifyBegun, Began, Gr!Others
<1>2. ASSUME NEW r \in Gr!Reads, Reload(r) PROVE Gr!SuggestionsOfTheseBalances'
  BY <1>0, <1>2, GroupConstants DEF Reload, PictureRead, Began, Gr!Others
<1>3. ASSUME NEW r \in Gr!Reads, NEW c \in v10, ReloadAfter(r, c) PROVE Gr!SuggestionsOfTheseBalances'
  BY <1>0, <1>3, GroupConstants DEF ReloadAfter, PictureRead, Began, Counted, Gr!Others
<1>4. ASSUME NEW r \in Gr!Reads, NEW c \in v10, RosterAfter(r, c) PROVE Gr!SuggestionsOfTheseBalances'
  BY <1>0, <1>4, GroupConstants DEF RosterAfter, Began, Counted, Gr!Others
<1>5. ASSUME NEW r \in v6, NEW p \in Gr!Pictures, DetailHeard(r, p) PROVE Gr!SuggestionsOfTheseBalances'
  BY <1>0, <1>5, GroupConstants DEF DetailHeard, OfRead
<1>6. ASSUME NEW r \in v6, NEW p \in Gr!Pictures, MembersHeard(r, p) PROVE Gr!SuggestionsOfTheseBalances'
  BY <1>0, <1>6, GroupConstants DEF MembersHeard, OfRead
<1>7. ASSUME NEW r \in v6, NEW p \in Gr!Pictures, SimplifiedHeard(r, p) PROVE Gr!SuggestionsOfTheseBalances'
  BY <1>0, <1>7, GroupConstants DEF SimplifiedHeard, OfRead
<1>8. ASSUME NEW r \in v6, Gr!HearError(r) PROVE Gr!SuggestionsOfTheseBalances'
  BY <1>0, <1>8, GroupConstants DEF Gr!HearError, Gr!Lowered
<1>9. CASE Gr!ClearSplitGroupDetail
  BY <1>0, <1>9, GroupConstants DEF Gr!ClearSplitGroupDetail, Gr!Dropped
<1>10. CASE Gr!OpenMoney \/ Gr!OpenMember \/ Gr!CloseDialog
  BY <1>0, <1>10, GroupConstants DEF Gr!OpenMoney, Gr!OpenMember, Gr!OpenDialog, Gr!CloseDialog
<1>11. ASSUME NEW c \in Gr!Changes, Confirmed(c) PROVE Gr!SuggestionsOfTheseBalances'
  BY <1>0, <1>11, GroupConstants DEF Confirmed
<1>12. ASSUME NEW g \in groupGroups, Gr!SomebodyElseChanges(g) PROVE Gr!SuggestionsOfTheseBalances'
  BY <1>0, <1>12, GroupConstants DEF Gr!SomebodyElseChanges
<1>13. ASSUME NEW c \in v10, Gr!HearRefusal(c) PROVE Gr!SuggestionsOfTheseBalances'
  BY <1>0, <1>13, GroupConstants DEF Gr!HearRefusal
<1> QED BY GroupCases, <1>1, <1>2, <1>3, <1>4, <1>5, <1>6, <1>7, <1>8, <1>9, <1>10, <1>11, <1>12,
  <1>13

(* No step shows an older picture. *)
LEMMA GroupNoOlder ==
  ASSUME Gr!GroupAssumption, Gr!IInv, Gr!Next
  PROVE Gr!NoOlderPicture
<1> USE DEF Gr!NoOlderPicture, Gr!RevType, Gr!PictureType, Gr!ReadType, Gr!LoadInv, Gr!Pictures, Gr!Reads, Gr!shown,
  Gr!history, Gr!screen
<1>0. Gr!RevType /\ Gr!PictureType /\ Gr!ReadType /\ Gr!LoadInv BY DEF Gr!IInv
<1>1. ASSUME NEW r \in Gr!Reads, SimplifyBegun(r) PROVE Gr!NoOlderPicture
  BY <1>0, <1>1, GroupConstants DEF SimplifyBegun, Began, Gr!Others
<1>2. ASSUME NEW r \in Gr!Reads, Reload(r) PROVE Gr!NoOlderPicture
  BY <1>0, <1>2, GroupConstants DEF Reload, PictureRead, Began, Gr!Others
<1>3. ASSUME NEW r \in Gr!Reads, NEW c \in v10, ReloadAfter(r, c) PROVE Gr!NoOlderPicture
  BY <1>0, <1>3, GroupConstants DEF ReloadAfter, PictureRead, Began, Counted, Gr!Others
<1>4. ASSUME NEW r \in Gr!Reads, NEW c \in v10, RosterAfter(r, c) PROVE Gr!NoOlderPicture
  BY <1>0, <1>4, GroupConstants DEF RosterAfter, Began, Counted, Gr!Others
<1>5. ASSUME NEW r \in v6, NEW p \in Gr!Pictures, DetailHeard(r, p) PROVE Gr!NoOlderPicture
  BY <1>0, <1>5, GroupConstants DEF DetailHeard, OfRead
<1>6. ASSUME NEW r \in v6, NEW p \in Gr!Pictures, MembersHeard(r, p) PROVE Gr!NoOlderPicture
  BY <1>0, <1>6, GroupConstants DEF MembersHeard, OfRead
<1>7. ASSUME NEW r \in v6, NEW p \in Gr!Pictures, SimplifiedHeard(r, p) PROVE Gr!NoOlderPicture
  BY <1>0, <1>7, GroupConstants DEF SimplifiedHeard, OfRead
<1>8. ASSUME NEW r \in v6, Gr!HearError(r) PROVE Gr!NoOlderPicture
  BY <1>0, <1>8, GroupConstants DEF Gr!HearError, Gr!Lowered
<1>9. CASE Gr!ClearSplitGroupDetail
  BY <1>0, <1>9, GroupConstants DEF Gr!ClearSplitGroupDetail, Gr!Dropped
<1>10. CASE Gr!OpenMoney \/ Gr!OpenMember \/ Gr!CloseDialog
  BY <1>0, <1>10, GroupConstants DEF Gr!OpenMoney, Gr!OpenMember, Gr!OpenDialog, Gr!CloseDialog
<1>11. ASSUME NEW c \in Gr!Changes, Confirmed(c) PROVE Gr!NoOlderPicture
  BY <1>0, <1>11, GroupConstants DEF Confirmed
<1>12. ASSUME NEW g \in groupGroups, Gr!SomebodyElseChanges(g) PROVE Gr!NoOlderPicture
  BY <1>0, <1>12, GroupConstants DEF Gr!SomebodyElseChanges
<1>13. ASSUME NEW c \in v10, Gr!HearRefusal(c) PROVE Gr!NoOlderPicture
  BY <1>0, <1>13, GroupConstants DEF Gr!HearRefusal
<1> QED BY GroupCases, <1>1, <1>2, <1>3, <1>4, <1>5, <1>6, <1>7, <1>8, <1>9, <1>10, <1>11, <1>12,
  <1>13

(* The invariant holds at first. *)
LEMMA GroupInit ==
  ASSUME Gr!GroupAssumption, Gr!Init
  PROVE Gr!IInv
<1>1. Gr!RevType BY GroupConstants DEF Gr!Init, Gr!RevType, Gr!OneGroupsPicture, Gr!Pictures, Gr!Kinds
<1>2. Gr!PictureType BY GroupConstants DEF Gr!Init, Gr!PictureType, Gr!OneGroupsPicture, Gr!Pictures, Gr!Kinds
<1>3. Gr!ReadType
  <2>1. 0 \in 0..groupMaxReads BY GroupConstants
  <2> QED BY <2>1 DEF Gr!Init, Gr!ReadType
<1>4. Gr!ScreenType BY GroupConstants DEF Gr!Init, Gr!ScreenType, Gr!OneGroupsPicture, Gr!Pictures, Gr!Kinds
<1>5. Gr!LoadInv BY GroupConstants DEF Gr!Init, Gr!LoadInv, Gr!OneGroupsPicture, Gr!Pictures, Gr!Kinds
<1>6. Gr!SelectedInv BY GroupConstants DEF Gr!Init, Gr!SelectedInv, Gr!OneGroupsPicture, Gr!Pictures, Gr!Kinds
<1>7. Gr!PaymentsInv BY GroupConstants DEF Gr!Init, Gr!PaymentsInv, Gr!OneGroupsPicture, Gr!Pictures, Gr!Kinds
<1>8. Gr!MineInv BY GroupConstants DEF Gr!Init, Gr!MineInv, Gr!OneGroupsPicture, Gr!Pictures, Gr!Kinds
<1>9. Gr!OnePictureUnlessCrossed BY GroupConstants DEF Gr!Init, Gr!OnePictureUnlessCrossed,
  Gr!OneGroupsPicture, Gr!Pictures, Gr!Kinds
<1>10. Gr!SuggestionsOfTheseBalances BY GroupConstants DEF Gr!Init, Gr!SuggestionsOfTheseBalances,
  Gr!OneGroupsPicture, Gr!Pictures, Gr!Kinds
<1>11. Gr!MyChangesAreShown BY GroupConstants DEF Gr!Init, Gr!MyChangesAreShown, Gr!OneGroupsPicture,
  Gr!Pictures, Gr!Kinds
<1> QED BY <1>1, <1>2, <1>3, <1>4, <1>5, <1>6, <1>7, <1>8, <1>9, <1>10, <1>11 DEF Gr!IInv

(* The invariant survives a step of another section. *)
LEMMA GroupStays ==
  ASSUME Gr!IInv, UNCHANGED Gr!vars
  PROVE Gr!IInv'
<1>1. Gr!RevType' BY DEF Gr!IInv, Gr!vars, Gr!RevType, Gr!shown, Gr!history, Gr!screen
<1>2. Gr!PictureType' BY DEF Gr!IInv, Gr!vars, Gr!PictureType, Gr!shown, Gr!history, Gr!screen
<1>3. Gr!ReadType' BY DEF Gr!IInv, Gr!vars, Gr!ReadType, Gr!shown, Gr!history, Gr!screen
<1>4. Gr!ScreenType' BY DEF Gr!IInv, Gr!vars, Gr!ScreenType, Gr!shown, Gr!history, Gr!screen
<1>5. Gr!LoadInv' BY DEF Gr!IInv, Gr!vars, Gr!LoadInv, Gr!shown, Gr!history, Gr!screen
<1>6. Gr!SelectedInv' BY DEF Gr!IInv, Gr!vars, Gr!SelectedInv, Gr!shown, Gr!history, Gr!screen
<1>7. Gr!PaymentsInv' BY DEF Gr!IInv, Gr!vars, Gr!PaymentsInv, Gr!shown, Gr!history, Gr!screen
<1>8. Gr!MineInv' BY DEF Gr!IInv, Gr!vars, Gr!MineInv, Gr!shown, Gr!history, Gr!screen
<1>9. Gr!OnePictureUnlessCrossed' BY DEF Gr!IInv, Gr!vars, Gr!OnePictureUnlessCrossed, Gr!OneGroupsPicture,
  Gr!shown, Gr!history, Gr!screen
<1>10. Gr!SuggestionsOfTheseBalances' BY DEF Gr!IInv, Gr!vars, Gr!SuggestionsOfTheseBalances, Gr!shown, Gr!history,
  Gr!screen
<1>11. Gr!MyChangesAreShown' BY DEF Gr!IInv, Gr!vars, Gr!MyChangesAreShown, Gr!shown, Gr!history, Gr!screen
<1> QED BY <1>1, <1>2, <1>3, <1>4, <1>5, <1>6, <1>7, <1>8, <1>9, <1>10, <1>11 DEF Gr!IInv

(* Every step of the section keeps the invariant. *)
LEMMA GroupStep ==
  ASSUME Gr!GroupAssumption, Gr!IInv, Gr!Next \/ UNCHANGED Gr!vars
  PROVE Gr!IInv'
<1>1. CASE Gr!Next BY <1>1, GroupRevs, GroupPictures, GroupReads, GroupScreen, GroupLoads,
  GroupSelected, GroupPayments, GroupMine, GroupShows, GroupSuggestions DEF Gr!IInv
<1>2. CASE UNCHANGED Gr!vars BY <1>2, GroupStays
<1> QED BY <1>1, <1>2

HIDE DEF Gr!shown, Gr!history, Gr!screen

(***************************************************************************)
(* The sheet that settles a debt                                           *)
(***************************************************************************)
(* What the constants are. *)
LEMMA SettleConstants ==
  Sl!SettleAssumption =>
    /\ settleMe \notin settleOthers /\ None \notin settleAccounts /\ settleMaxDebt \in Nat /\ settleMaxOpenings \in Nat /\ None \notin Sl!Entries
    /\ Sl!Debts \subseteq Sl!Reachable /\ Sl!Reachable \subseteq Int /\ 0 \in Sl!Reachable /\ 0..settleMaxDebt \subseteq Sl!Reachable
    /\ \A x \in Sl!Reachable : -x \in Sl!Reachable
BY DEF Sl!SettleAssumption, Sl!Entries, Sl!Debts, Sl!Reachable

(* The account suggested is the one of every open expense. *)
SuggestedFor(p, a) ==
  /\ a \in settleAccounts \cup {None}
  /\ a # None => /\ \E e \in v2 : e.with = p /\ e.open
                 /\ \A e \in v2 : e.with = p /\ e.open => e.account = a
(* An account is suggested only if it paid every open expense with p. *)
LEMMA SuggestIs ==
  ASSUME Sl!SettleAssumption, v2 \in settleBooks, NEW p
  PROVE SuggestedFor(p, Sl!SuggestSettleAccount(Sl!OpenSplitExpensesBetween(p)))
<1> DEFINE open == Sl!OpenSplitExpensesBetween(p)
           used == {e.account : e \in open}
<1>1. CASE \E a \in used : used = {a}
  <2>1. PICK a \in used : used = {a} BY <1>1
  <2>2. Sl!SuggestSettleAccount(open) \in used BY <2>1 DEF Sl!SuggestSettleAccount
  <2>3. Sl!SuggestSettleAccount(open) = a BY <2>1, <2>2
  <2>4. open \subseteq v2 /\ \A e \in v2 : e \in open <=> e.with = p /\ e.open
    BY DEF Sl!OpenSplitExpensesBetween
  <2>5. (\E e \in open : e.account = a) /\ \A e \in open : e.account = a BY <2>1
  <2>6. a \in settleAccounts \cup {None} BY <2>4, <2>5 DEF Sl!SettleAssumption
  <2> HIDE DEF open
  <2> QED BY <2>3, <2>4, <2>5, <2>6 DEF SuggestedFor, open
<1>2. CASE ~\E a \in used : used = {a}
  <2>1. Sl!SuggestSettleAccount(open) = None BY <1>2 DEF Sl!SuggestSettleAccount
  <2> QED BY <2>1 DEF SuggestedFor
<1> QED BY <1>1, <1>2

(* The sheet opens on entry e. *)
OpenedOn(e) ==
  /\ Sl!Opened(e) /\ v7' \subseteq {e.with} /\ v5' \in settleAccounts \cup {None}
  /\ SuggestedFor(e.with, v5')
(* The overview opens the sheet on a debt. *)
LEMMA OverviewIs ==
  ASSUME Sl!SettleAssumption, Sl!DebtType, NEW p \in settleOthers, Sl!OpenFromOverview(p)
  PROVE \E e \in Sl!Entries : OpenedOn(e)
<1> DEFINE e == [with |-> p, balance |-> v1[p]]
<1>1. e \in Sl!Entries /\ e.with = p BY DEF Sl!OpenFromOverview, Sl!DebtType, Sl!Entries
<1>2. Sl!Opened(e) /\ v5' = None /\ v7' = {p} BY DEF Sl!OpenFromOverview, Sl!Cancelled
<1> HIDE DEF e
<1>3. OpenedOn(e) BY <1>1, <1>2 DEF OpenedOn, SuggestedFor
<1> QED BY <1>1, <1>3

(* A suggested payment is a debt. *)
LEMMA EntryIs ==
  ASSUME Sl!SettleAssumption, Sl!DebtType, NEW tx \in Sl!Suggested
  PROVE Sl!SimplifiedTransactionToSettleEntry(tx) \in Sl!Entries
<1>1. CASE \E p \in settleOthers : v1[p] > 0 /\ tx = [from |-> p, to |-> settleMe, amount |-> v1[p]]
  <2>1. PICK p \in settleOthers : v1[p] > 0 /\ tx = [from |-> p, to |-> settleMe, amount |-> v1[p]] BY <1>1
  <2>2. p # settleMe /\ v1[p] \in Sl!Reachable /\ v1[p] # 0 BY <2>1, SettleConstants DEF Sl!DebtType
  <2>3. Sl!SimplifiedTransactionToSettleEntry(tx) = [with |-> p, balance |-> v1[p]]
    BY <2>1, <2>2 DEF Sl!SimplifiedTransactionToSettleEntry
  <2> QED BY <2>2, <2>3 DEF Sl!Entries
<1>2. CASE \E p \in settleOthers : v1[p] < 0 /\ tx = [from |-> settleMe, to |-> p, amount |-> -v1[p]]
  <2>1. PICK p \in settleOthers : v1[p] < 0 /\ tx = [from |-> settleMe, to |-> p, amount |-> -v1[p]] BY <1>2
  <2>2. v1[p] \in Sl!Reachable /\ v1[p] # 0 /\ -(-v1[p]) = v1[p] BY <2>1, SettleConstants DEF Sl!DebtType
  <2>3. Sl!SimplifiedTransactionToSettleEntry(tx) = [with |-> p, balance |-> v1[p]]
    BY <2>1, <2>2 DEF Sl!SimplifiedTransactionToSettleEntry
  <2> QED BY <2>2, <2>3 DEF Sl!Entries
<1> QED BY <1>1, <1>2 DEF Sl!Suggested

(* A group opens the sheet on a debt, with the account it suggests. *)
LEMMA GroupIs ==
  ASSUME Sl!SettleAssumption, Sl!DebtType, NEW tx \in Sl!Suggested, Sl!OpenFromGroup(tx)
  PROVE \E e \in Sl!Entries : OpenedOn(e)
<1> DEFINE e == Sl!SimplifiedTransactionToSettleEntry(tx)
<1>1. e \in Sl!Entries BY EntryIs
<1>2. Sl!Opened(e) /\ v7' = {} /\ v5' = Sl!SuggestSettleAccount(Sl!OpenSplitExpensesBetween(e.with))
  BY DEF Sl!OpenFromGroup, Sl!Cancelled
<1> HIDE DEF e
<1>3. SuggestedFor(e.with, v5') BY <1>2, SuggestIs DEF Sl!DebtType
<1>4. OpenedOn(e) BY <1>2, <1>3 DEF OpenedOn, SuggestedFor
<1> QED BY <1>1, <1>4

(* Settlement s is sent for the sheet that is open. *)
Submitted(s) ==
  /\ v3 # None /\ ~v9 /\ v4 > 0 /\ v8' = v8 \cup {s} /\ v9' = TRUE
  /\ s.n = v10 /\ s.shown = v3 /\ s.amount = v4
  /\ s.payer = IF v3.balance > 0 THEN v3.with ELSE settleMe
  /\ UNCHANGED <<v1, v2, v3, v4, v5, v6, v7, v10, v11>>
(* The button sends what the sheet shows. *)
LEMMA SubmitIs ==
  ASSUME Sl!HandleSubmit
  PROVE \E s : Submitted(s)
<1>1. PICK k : v8' = v8 \cup {[n |-> v10, try |-> k, shown |-> v3, amount |-> v4,
                                   payer |-> IF Sl!OwedToMe(v3) THEN v3.with ELSE settleMe,
                                   payee |-> IF Sl!OwedToMe(v3) THEN settleMe ELSE v3.with]}
  BY DEF Sl!HandleSubmit
<1> DEFINE s == [n |-> v10, try |-> k, shown |-> v3, amount |-> v4,
                 payer |-> IF Sl!OwedToMe(v3) THEN v3.with ELSE settleMe,
                 payee |-> IF Sl!OwedToMe(v3) THEN settleMe ELSE v3.with]
<1>2. v8' = v8 \cup {s} /\ s.n = v10 /\ s.shown = v3 /\ s.amount = v4
      /\ s.payer = IF Sl!OwedToMe(v3) THEN v3.with ELSE settleMe
  BY <1>1
<1> HIDE DEF s
<1>3. Submitted(s) BY <1>2 DEF Submitted, Sl!HandleSubmit, Sl!Free, Sl!OwedToMe
<1> QED BY <1>3

(* What a step of the sheet may be. *)
LEMMA SettleCases ==
  ASSUME Sl!SettleAssumption, Sl!IInv, Sl!Next
  PROVE \/ \E e \in Sl!Entries : OpenedOn(e)
        \/ Sl!Close \/ \E s : Submitted(s)
        \/ \E p \in settleOthers : Sl!SomebodyElse(p)
        \/ \E p \in v7 : Sl!HearExpenses(p) \/ Sl!HearNothing(p)
        \/ \E a \in Sl!Reachable : Sl!SetAmount(a)
        \/ \E a \in settleAccounts \cup {None} : Sl!SetLinkedAsset(a)
        \/ \E s \in v8 : Sl!AddSplitSettlement(s) \/ Sl!HearRefusal(s)
<1>0. Sl!DebtType BY DEF Sl!IInv
<1>1. CASE \E p \in settleOthers : Sl!OpenFromOverview(p) BY <1>0, <1>1, OverviewIs
<1>2. CASE \E tx \in Sl!Suggested : Sl!OpenFromGroup(tx) BY <1>0, <1>2, GroupIs
<1>3. CASE Sl!HandleSubmit BY <1>3, SubmitIs
<1>4. CASE \E a \in 0..settleMaxDebt : Sl!SetAmount(a) BY <1>4, SettleConstants
<1> QED BY <1>1, <1>2, <1>3, <1>4 DEF Sl!Next

(* The debts stay in their range. *)
LEMMA SettleDebts ==
  ASSUME Sl!SettleAssumption, Sl!IInv, Sl!Next
  PROVE Sl!DebtType'
<1> USE DEF Sl!DebtType, Sl!SentInv, Sl!SheetType, Sl!Entries
<1>0. Sl!DebtType /\ Sl!SentInv /\ Sl!SheetType BY DEF Sl!IInv
<1>1. ASSUME NEW e \in Sl!Entries, OpenedOn(e) PROVE Sl!DebtType'
  BY <1>0, <1>1, SettleConstants DEF OpenedOn, Sl!Opened, Sl!Cancelled
<1>2. CASE Sl!Close
  BY <1>0, <1>2, SettleConstants DEF Sl!Close, Sl!Cancelled
<1>3. ASSUME NEW s, Submitted(s) PROVE Sl!DebtType'
  BY <1>0, <1>3, SettleConstants DEF Submitted
<1>4. ASSUME NEW p \in settleOthers, Sl!SomebodyElse(p) PROVE Sl!DebtType'
  BY <1>0, <1>4, SettleConstants DEF Sl!SomebodyElse
<1>5. ASSUME NEW p \in v7, Sl!HearExpenses(p) PROVE Sl!DebtType'
  BY <1>0, <1>5, SettleConstants DEF Sl!HearExpenses
<1>6. ASSUME NEW p \in v7, Sl!HearNothing(p) PROVE Sl!DebtType'
  BY <1>0, <1>6, SettleConstants DEF Sl!HearNothing
<1>7. ASSUME NEW a \in Sl!Reachable, Sl!SetAmount(a) PROVE Sl!DebtType'
  BY <1>0, <1>7, SettleConstants DEF Sl!SetAmount
<1>8. ASSUME NEW a \in settleAccounts \cup {None}, Sl!SetLinkedAsset(a) PROVE Sl!DebtType'
  BY <1>0, <1>8, SettleConstants DEF Sl!SetLinkedAsset
<1>9. ASSUME NEW s \in v8, Sl!AddSplitSettlement(s) PROVE Sl!DebtType'
  BY <1>0, <1>9, SettleConstants DEF Sl!AddSplitSettlement, Sl!Cancelled
<1>10. ASSUME NEW s \in v8, Sl!HearRefusal(s) PROVE Sl!DebtType'
  BY <1>0, <1>10, SettleConstants DEF Sl!HearRefusal, Sl!Down
<1> QED BY SettleCases, <1>1, <1>2, <1>3, <1>4, <1>5, <1>6, <1>7, <1>8, <1>9, <1>10

(* A sheet shows a debt. *)
LEMMA SettleSheets ==
  ASSUME Sl!SettleAssumption, Sl!IInv, Sl!Next
  PROVE Sl!SheetType'
<1> USE DEF Sl!SheetType, Sl!DebtType, Sl!SentType, Sl!Entries
<1>0. Sl!SheetType /\ Sl!DebtType /\ Sl!SentType BY DEF Sl!IInv
<1>1. ASSUME NEW e \in Sl!Entries, OpenedOn(e) PROVE Sl!SheetType'
  <2>1. /\ v3' = e /\ v10' = v10 + 1 /\ v6' = FALSE /\ v7' \subseteq {e.with}
       /\ v5' \in settleAccounts \cup {None} /\ v4' = IF e.balance < 0 THEN -e.balance ELSE e.balance
    BY <1>1 DEF OpenedOn, Sl!Opened
  <2>2. e.with \in settleOthers /\ e.balance \in Sl!Reachable OBVIOUS
  <2>3. v4' \in Sl!Reachable BY <2>1, <2>2, SettleConstants
  <2>4. v10' > 0 BY <1>0, <2>1, SettleConstants
  <2>5. v6' \in BOOLEAN BY <2>1
  <2> QED BY <1>0, <2>1, <2>2, <2>3, <2>4, <2>5, SettleConstants
<1>2. CASE Sl!Close
  BY <1>0, <1>2, SettleConstants DEF Sl!Close, Sl!Cancelled
<1>3. ASSUME NEW s, Submitted(s) PROVE Sl!SheetType'
  BY <1>0, <1>3, SettleConstants DEF Submitted
<1>4. ASSUME NEW p \in settleOthers, Sl!SomebodyElse(p) PROVE Sl!SheetType'
  BY <1>0, <1>4, SettleConstants DEF Sl!SomebodyElse
<1>5. ASSUME NEW p \in v7, Sl!HearExpenses(p) PROVE Sl!SheetType'
  BY <1>0, <1>5, SettleConstants, SuggestIs DEF Sl!HearExpenses, SuggestedFor
<1>6. ASSUME NEW p \in v7, Sl!HearNothing(p) PROVE Sl!SheetType'
  BY <1>0, <1>6, SettleConstants DEF Sl!HearNothing
<1>7. ASSUME NEW a \in Sl!Reachable, Sl!SetAmount(a) PROVE Sl!SheetType'
  BY <1>0, <1>7, SettleConstants DEF Sl!SetAmount
<1>8. ASSUME NEW a \in settleAccounts \cup {None}, Sl!SetLinkedAsset(a) PROVE Sl!SheetType'
  BY <1>0, <1>8, SettleConstants DEF Sl!SetLinkedAsset
<1>9. ASSUME NEW s \in v8, Sl!AddSplitSettlement(s) PROVE Sl!SheetType'
  BY <1>0, <1>9, SettleConstants DEF Sl!AddSplitSettlement, Sl!Cancelled
<1>10. ASSUME NEW s \in v8, Sl!HearRefusal(s) PROVE Sl!SheetType'
  BY <1>0, <1>10, SettleConstants DEF Sl!HearRefusal, Sl!Down
<1> QED BY SettleCases, <1>1, <1>2, <1>3, <1>4, <1>5, <1>6, <1>7, <1>8, <1>9, <1>10

(* The button is off while an answer is awaited. *)
LEMMA SettleSent ==
  ASSUME Sl!SettleAssumption, Sl!IInv, Sl!Next
  PROVE Sl!SentType'
<1> USE DEF Sl!SentType, Sl!DebtType, Sl!SheetType, Sl!SentInv, Sl!Entries
<1>0. Sl!SentType /\ Sl!DebtType /\ Sl!SheetType /\ Sl!SentInv BY DEF Sl!IInv
<1>1. ASSUME NEW e \in Sl!Entries, OpenedOn(e) PROVE Sl!SentType'
  BY <1>0, <1>1, SettleConstants DEF OpenedOn, Sl!Opened, Sl!Cancelled
<1>2. CASE Sl!Close
  BY <1>0, <1>2, SettleConstants DEF Sl!Close, Sl!Cancelled
<1>3. ASSUME NEW s, Submitted(s) PROVE Sl!SentType'
  BY <1>0, <1>3, SettleConstants DEF Submitted
<1>4. ASSUME NEW p \in settleOthers, Sl!SomebodyElse(p) PROVE Sl!SentType'
  BY <1>0, <1>4, SettleConstants DEF Sl!SomebodyElse
<1>5. ASSUME NEW p \in v7, Sl!HearExpenses(p) PROVE Sl!SentType'
  BY <1>0, <1>5, SettleConstants DEF Sl!HearExpenses
<1>6. ASSUME NEW p \in v7, Sl!HearNothing(p) PROVE Sl!SentType'
  BY <1>0, <1>6, SettleConstants DEF Sl!HearNothing
<1>7. ASSUME NEW a \in Sl!Reachable, Sl!SetAmount(a) PROVE Sl!SentType'
  BY <1>0, <1>7, SettleConstants DEF Sl!SetAmount
<1>8. ASSUME NEW a \in settleAccounts \cup {None}, Sl!SetLinkedAsset(a) PROVE Sl!SentType'
  BY <1>0, <1>8, SettleConstants DEF Sl!SetLinkedAsset
<1>9. ASSUME NEW s \in v8, Sl!AddSplitSettlement(s) PROVE Sl!SentType'
  <2>1. v9' = FALSE /\ v8' = {} /\ v10' = v10 BY <1>0, <1>9 DEF
    Sl!AddSplitSettlement
  <2>2. v11' = [v11 EXCEPT ![s.n] = @ + 1] /\ s.n \in 1..settleMaxOpenings BY <1>0, <1>9,
    SettleConstants DEF Sl!AddSplitSettlement
  <2>3. v11[s.n] + 1 \in Nat BY <1>0, <2>2
  <2>4. v11' \in [1..settleMaxOpenings -> Nat] BY <1>0, <2>2, <2>3
  <2>5. v9' \in BOOLEAN BY <2>1
  <2> QED BY <1>0, <2>1, <2>4, <2>5
<1>10. ASSUME NEW s \in v8, Sl!HearRefusal(s) PROVE Sl!SentType'
  BY <1>0, <1>10, SettleConstants DEF Sl!HearRefusal, Sl!Down
<1> QED BY SettleCases, <1>1, <1>2, <1>3, <1>4, <1>5, <1>6, <1>7, <1>8, <1>9, <1>10

(* One settlement is on its way. *)
LEMMA SettleSents ==
  ASSUME Sl!SettleAssumption, Sl!IInv, Sl!Next
  PROVE Sl!SentInv'
<1> USE DEF Sl!SentInv, Sl!DebtType, Sl!SheetType, Sl!SentType
<1>0. Sl!SentInv /\ Sl!DebtType /\ Sl!SheetType /\ Sl!SentType BY DEF Sl!IInv
<1>1. ASSUME NEW e \in Sl!Entries, OpenedOn(e) PROVE Sl!SentInv'
  BY <1>0, <1>1, SettleConstants DEF OpenedOn, Sl!Opened, Sl!Cancelled
<1>2. CASE Sl!Close
  BY <1>0, <1>2, SettleConstants DEF Sl!Close, Sl!Cancelled
<1>3. ASSUME NEW s, Submitted(s) PROVE Sl!SentInv'
  BY <1>0, <1>3, SettleConstants DEF Submitted
<1>4. ASSUME NEW p \in settleOthers, Sl!SomebodyElse(p) PROVE Sl!SentInv'
  BY <1>0, <1>4, SettleConstants DEF Sl!SomebodyElse
<1>5. ASSUME NEW p \in v7, Sl!HearExpenses(p) PROVE Sl!SentInv'
  BY <1>0, <1>5, SettleConstants DEF Sl!HearExpenses
<1>6. ASSUME NEW p \in v7, Sl!HearNothing(p) PROVE Sl!SentInv'
  BY <1>0, <1>6, SettleConstants DEF Sl!HearNothing
<1>7. ASSUME NEW a \in Sl!Reachable, Sl!SetAmount(a) PROVE Sl!SentInv'
  BY <1>0, <1>7, SettleConstants DEF Sl!SetAmount
<1>8. ASSUME NEW a \in settleAccounts \cup {None}, Sl!SetLinkedAsset(a) PROVE Sl!SentInv'
  BY <1>0, <1>8, SettleConstants DEF Sl!SetLinkedAsset
<1>9. ASSUME NEW s \in v8, Sl!AddSplitSettlement(s) PROVE Sl!SentInv'
  BY <1>0, <1>9, SettleConstants DEF Sl!AddSplitSettlement, Sl!Cancelled
<1>10. ASSUME NEW s \in v8, Sl!HearRefusal(s) PROVE Sl!SentInv'
  BY <1>0, <1>10, SettleConstants DEF Sl!HearRefusal, Sl!Down
<1> QED BY SettleCases, <1>1, <1>2, <1>3, <1>4, <1>5, <1>6, <1>7, <1>8, <1>9, <1>10

(* What is open is not settled. *)
LEMMA SettleSettled ==
  ASSUME Sl!SettleAssumption, Sl!IInv, Sl!Next
  PROVE Sl!SettledInv'
<1> USE DEF Sl!SettledInv, Sl!SheetType, Sl!SentType, Sl!SentInv
<1>0. Sl!SettledInv /\ Sl!SheetType /\ Sl!SentType /\ Sl!SentInv BY DEF Sl!IInv
<1>1. ASSUME NEW e \in Sl!Entries, OpenedOn(e) PROVE Sl!SettledInv'
  BY <1>0, <1>1, SettleConstants DEF OpenedOn, Sl!Opened, Sl!Cancelled
<1>2. CASE Sl!Close
  BY <1>0, <1>2, SettleConstants DEF Sl!Close, Sl!Cancelled
<1>3. ASSUME NEW s, Submitted(s) PROVE Sl!SettledInv'
  BY <1>0, <1>3, SettleConstants DEF Submitted
<1>4. ASSUME NEW p \in settleOthers, Sl!SomebodyElse(p) PROVE Sl!SettledInv'
  BY <1>0, <1>4, SettleConstants DEF Sl!SomebodyElse
<1>5. ASSUME NEW p \in v7, Sl!HearExpenses(p) PROVE Sl!SettledInv'
  BY <1>0, <1>5, SettleConstants DEF Sl!HearExpenses
<1>6. ASSUME NEW p \in v7, Sl!HearNothing(p) PROVE Sl!SettledInv'
  BY <1>0, <1>6, SettleConstants DEF Sl!HearNothing
<1>7. ASSUME NEW a \in Sl!Reachable, Sl!SetAmount(a) PROVE Sl!SettledInv'
  BY <1>0, <1>7, SettleConstants DEF Sl!SetAmount
<1>8. ASSUME NEW a \in settleAccounts \cup {None}, Sl!SetLinkedAsset(a) PROVE Sl!SettledInv'
  BY <1>0, <1>8, SettleConstants DEF Sl!SetLinkedAsset
<1>9. ASSUME NEW s \in v8, Sl!AddSplitSettlement(s) PROVE Sl!SettledInv'
  BY <1>0, <1>9, SettleConstants DEF Sl!AddSplitSettlement, Sl!Cancelled
<1>10. ASSUME NEW s \in v8, Sl!HearRefusal(s) PROVE Sl!SettledInv'
  BY <1>0, <1>10, SettleConstants DEF Sl!HearRefusal, Sl!Down
<1> QED BY SettleCases, <1>1, <1>2, <1>3, <1>4, <1>5, <1>6, <1>7, <1>8, <1>9, <1>10

(* The account suggested is of the pair. *)
LEMMA SettleSuggestion ==
  ASSUME Sl!SettleAssumption, Sl!IInv, Sl!Next
  PROVE Sl!SuggestionIsOfThisPair'
<1> USE DEF Sl!SuggestionIsOfThisPair, Sl!DebtType, Sl!SheetType
<1>0. Sl!SuggestionIsOfThisPair /\ Sl!DebtType /\ Sl!SheetType BY DEF Sl!IInv
<1>1. ASSUME NEW e \in Sl!Entries, OpenedOn(e) PROVE Sl!SuggestionIsOfThisPair'
  BY <1>0, <1>1, SettleConstants DEF OpenedOn, Sl!Opened, Sl!Cancelled, SuggestedFor
<1>2. CASE Sl!Close
  BY <1>0, <1>2, SettleConstants DEF Sl!Close, Sl!Cancelled
<1>3. ASSUME NEW s, Submitted(s) PROVE Sl!SuggestionIsOfThisPair'
  BY <1>0, <1>3, SettleConstants DEF Submitted
<1>4. ASSUME NEW p \in settleOthers, Sl!SomebodyElse(p) PROVE Sl!SuggestionIsOfThisPair'
  BY <1>0, <1>4, SettleConstants DEF Sl!SomebodyElse
<1>5. ASSUME NEW p \in v7, Sl!HearExpenses(p) PROVE Sl!SuggestionIsOfThisPair'
  BY <1>0, <1>5, SettleConstants, SuggestIs DEF Sl!HearExpenses, SuggestedFor
<1>6. ASSUME NEW p \in v7, Sl!HearNothing(p) PROVE Sl!SuggestionIsOfThisPair'
  BY <1>0, <1>6, SettleConstants DEF Sl!HearNothing
<1>7. ASSUME NEW a \in Sl!Reachable, Sl!SetAmount(a) PROVE Sl!SuggestionIsOfThisPair'
  BY <1>0, <1>7, SettleConstants DEF Sl!SetAmount
<1>8. ASSUME NEW a \in settleAccounts \cup {None}, Sl!SetLinkedAsset(a) PROVE Sl!SuggestionIsOfThisPair'
  BY <1>0, <1>8, SettleConstants DEF Sl!SetLinkedAsset
<1>9. ASSUME NEW s \in v8, Sl!AddSplitSettlement(s) PROVE Sl!SuggestionIsOfThisPair'
  BY <1>0, <1>9, SettleConstants DEF Sl!AddSplitSettlement, Sl!Cancelled
<1>10. ASSUME NEW s \in v8, Sl!HearRefusal(s) PROVE Sl!SuggestionIsOfThisPair'
  BY <1>0, <1>10, SettleConstants DEF Sl!HearRefusal, Sl!Down
<1> QED BY SettleCases, <1>1, <1>2, <1>3, <1>4, <1>5, <1>6, <1>7, <1>8, <1>9, <1>10

(* A sheet settles once. *)
LEMMA SettleOnce ==
  ASSUME Sl!SettleAssumption, Sl!IInv, Sl!Next
  PROVE Sl!OneSettlementPerSheet'
<1> USE DEF Sl!OneSettlementPerSheet, Sl!SheetType, Sl!SentType, Sl!SentInv, Sl!SettledInv
<1>0. Sl!OneSettlementPerSheet /\ Sl!SheetType /\ Sl!SentType /\ Sl!SentInv /\ Sl!SettledInv BY DEF Sl!IInv
<1>1. ASSUME NEW e \in Sl!Entries, OpenedOn(e) PROVE Sl!OneSettlementPerSheet'
  BY <1>0, <1>1, SettleConstants DEF OpenedOn, Sl!Opened, Sl!Cancelled
<1>2. CASE Sl!Close
  BY <1>0, <1>2, SettleConstants DEF Sl!Close, Sl!Cancelled
<1>3. ASSUME NEW s, Submitted(s) PROVE Sl!OneSettlementPerSheet'
  BY <1>0, <1>3, SettleConstants DEF Submitted
<1>4. ASSUME NEW p \in settleOthers, Sl!SomebodyElse(p) PROVE Sl!OneSettlementPerSheet'
  BY <1>0, <1>4, SettleConstants DEF Sl!SomebodyElse
<1>5. ASSUME NEW p \in v7, Sl!HearExpenses(p) PROVE Sl!OneSettlementPerSheet'
  BY <1>0, <1>5, SettleConstants DEF Sl!HearExpenses
<1>6. ASSUME NEW p \in v7, Sl!HearNothing(p) PROVE Sl!OneSettlementPerSheet'
  BY <1>0, <1>6, SettleConstants DEF Sl!HearNothing
<1>7. ASSUME NEW a \in Sl!Reachable, Sl!SetAmount(a) PROVE Sl!OneSettlementPerSheet'
  BY <1>0, <1>7, SettleConstants DEF Sl!SetAmount
<1>8. ASSUME NEW a \in settleAccounts \cup {None}, Sl!SetLinkedAsset(a) PROVE Sl!OneSettlementPerSheet'
  BY <1>0, <1>8, SettleConstants DEF Sl!SetLinkedAsset
<1>9. ASSUME NEW s \in v8, Sl!AddSplitSettlement(s) PROVE Sl!OneSettlementPerSheet'
  BY <1>0, <1>9, SettleConstants DEF Sl!AddSplitSettlement, Sl!Cancelled
<1>10. ASSUME NEW s \in v8, Sl!HearRefusal(s) PROVE Sl!OneSettlementPerSheet'
  BY <1>0, <1>10, SettleConstants DEF Sl!HearRefusal, Sl!Down
<1> QED BY SettleCases, <1>1, <1>2, <1>3, <1>4, <1>5, <1>6, <1>7, <1>8, <1>9, <1>10

(* The amount proposed clears the debt. *)
LEMMA SettleClears ==
  ASSUME Sl!SettleAssumption, Sl!IInv, Sl!Next
  PROVE Sl!ProposedClears
<1> USE DEF Sl!ProposedClears, Sl!DebtType, Sl!SheetType, Sl!SentType, Sl!SentInv, Sl!Entries
<1>0. Sl!DebtType /\ Sl!SheetType /\ Sl!SentType /\ Sl!SentInv BY DEF Sl!IInv
<1>1. ASSUME NEW e \in Sl!Entries, OpenedOn(e) PROVE Sl!ProposedClears
  BY <1>0, <1>1, SettleConstants DEF OpenedOn, Sl!Opened, Sl!Cancelled
<1>2. CASE Sl!Close
  BY <1>0, <1>2, SettleConstants DEF Sl!Close, Sl!Cancelled
<1>3. ASSUME NEW s, Submitted(s) PROVE Sl!ProposedClears
  BY <1>0, <1>3, SettleConstants DEF Submitted
<1>4. ASSUME NEW p \in settleOthers, Sl!SomebodyElse(p) PROVE Sl!ProposedClears
  BY <1>0, <1>4, SettleConstants DEF Sl!SomebodyElse
<1>5. ASSUME NEW p \in v7, Sl!HearExpenses(p) PROVE Sl!ProposedClears
  BY <1>0, <1>5, SettleConstants DEF Sl!HearExpenses
<1>6. ASSUME NEW p \in v7, Sl!HearNothing(p) PROVE Sl!ProposedClears
  BY <1>0, <1>6, SettleConstants DEF Sl!HearNothing
<1>7. ASSUME NEW a \in Sl!Reachable, Sl!SetAmount(a) PROVE Sl!ProposedClears
  BY <1>0, <1>7, SettleConstants DEF Sl!SetAmount
<1>8. ASSUME NEW a \in settleAccounts \cup {None}, Sl!SetLinkedAsset(a) PROVE Sl!ProposedClears
  BY <1>0, <1>8, SettleConstants DEF Sl!SetLinkedAsset
<1>9. ASSUME NEW s \in v8, Sl!AddSplitSettlement(s) PROVE Sl!ProposedClears
  BY <1>0, <1>9, SettleConstants DEF Sl!AddSplitSettlement, Sl!Cancelled
<1>10. ASSUME NEW s \in v8, Sl!HearRefusal(s) PROVE Sl!ProposedClears
  BY <1>0, <1>10, SettleConstants DEF Sl!HearRefusal, Sl!Down
<1> QED BY SettleCases, <1>1, <1>2, <1>3, <1>4, <1>5, <1>6, <1>7, <1>8, <1>9, <1>10

(* The invariant holds at first. *)
LEMMA SettleInit ==
  ASSUME Sl!SettleAssumption, Sl!Init
  PROVE Sl!IInv
<1>1. Sl!DebtType BY SettleConstants DEF Sl!Init, Sl!DebtType
<1>2. Sl!SheetType BY SettleConstants DEF Sl!Init, Sl!SheetType
<1>3. Sl!SentType
  <2>1. 0 \in 0..settleMaxOpenings /\ FALSE \in BOOLEAN BY SettleConstants
  <2>2. v11 \in [1..settleMaxOpenings -> Nat] BY DEF Sl!Init
  <2> QED BY <2>1, <2>2 DEF Sl!Init, Sl!SentType
<1>4. Sl!SentInv BY SettleConstants DEF Sl!Init, Sl!SentInv
<1>5. Sl!SettledInv BY SettleConstants DEF Sl!Init, Sl!SettledInv
<1>6. Sl!SuggestionIsOfThisPair BY SettleConstants DEF Sl!Init, Sl!SuggestionIsOfThisPair
<1>7. Sl!OneSettlementPerSheet BY SettleConstants DEF Sl!Init, Sl!OneSettlementPerSheet
<1> QED BY <1>1, <1>2, <1>3, <1>4, <1>5, <1>6, <1>7 DEF Sl!IInv

(* The invariant survives a step of another section. *)
LEMMA SettleStays ==
  ASSUME Sl!IInv, UNCHANGED Sl!vars
  PROVE Sl!IInv'
<1>1. Sl!DebtType' BY DEF Sl!IInv, Sl!vars, Sl!DebtType
<1>2. Sl!SheetType' BY DEF Sl!IInv, Sl!vars, Sl!SheetType
<1>3. Sl!SentType' BY DEF Sl!IInv, Sl!vars, Sl!SentType
<1>4. Sl!SentInv' BY DEF Sl!IInv, Sl!vars, Sl!SentInv
<1>5. Sl!SettledInv' BY DEF Sl!IInv, Sl!vars, Sl!SettledInv
<1>6. Sl!SuggestionIsOfThisPair' BY DEF Sl!IInv, Sl!vars, Sl!SuggestionIsOfThisPair
<1>7. Sl!OneSettlementPerSheet' BY DEF Sl!IInv, Sl!vars, Sl!OneSettlementPerSheet
<1> QED BY <1>1, <1>2, <1>3, <1>4, <1>5, <1>6, <1>7 DEF Sl!IInv

(* Every step of the section keeps the invariant. *)
LEMMA SettleStep ==
  ASSUME Sl!SettleAssumption, Sl!IInv, Sl!Next \/ UNCHANGED Sl!vars
  PROVE Sl!IInv'
<1>1. CASE Sl!Next BY <1>1, SettleDebts, SettleSheets, SettleSent, SettleSents, SettleSettled,
  SettleSuggestion, SettleOnce DEF Sl!IInv
<1>2. CASE UNCHANGED Sl!vars BY <1>2, SettleStays
<1> QED BY <1>1, <1>2

(***************************************************************************)
(* The sections together                                                   *)
(***************************************************************************)
(* The invariants of the sections above. *)
SectionsInv ==
  /\ In("bulk", Bu!IInv) /\ In("accounts", Ac!IInv) /\ In("splitForm", Sf!IInv)
  /\ In("templates", St!IInv) /\ In("group", Gr!IInv) /\ In("settle", Sl!IInv)

(* A section starts with its invariant. *)
LEMMA SectionsInvInit ==
  SectionsInit \/ Elsewhere => SectionsInv
<1>1. ASSUME SectionsInit, section = "bulk" PROVE Bu!IInv
  BY <1>1, SectionsAssumption, BulkInit DEF SectionsInit, SectionsAssumption
<1>2. ASSUME SectionsInit, section = "accounts" PROVE Ac!IInv
  BY <1>2, SectionsAssumption, AccountsInit DEF SectionsInit, SectionsAssumption
<1>3. ASSUME SectionsInit, section = "splitForm" PROVE Sf!IInv
  BY <1>3, SectionsAssumption, SplitFormInit DEF SectionsInit, SectionsAssumption
<1>4. ASSUME SectionsInit, section = "templates" PROVE St!IInv
  BY <1>4, SectionsAssumption, TemplatesInit DEF SectionsInit, SectionsAssumption
<1>5. ASSUME SectionsInit, section = "group" PROVE Gr!IInv
  BY <1>5, SectionsAssumption, GroupInit DEF SectionsInit, SectionsAssumption
<1>6. ASSUME SectionsInit, section = "settle" PROVE Sl!IInv
  BY <1>6, SectionsAssumption, SettleInit DEF SectionsInit, SectionsAssumption
<1> QED BY <1>1, <1>2, <1>3, <1>4, <1>5, <1>6 DEF SectionsInv, In, SectionsInit, Elsewhere, Sections

(* The section that runs keeps its invariant. *)
LEMMA SectionsInvStep ==
  SectionsInv /\ [Step]_vars => SectionsInv'
<1> SUFFICES ASSUME SectionsInv, [Step]_vars PROVE SectionsInv'
  OBVIOUS
<1>0. section' = section BY DEF Step, SectionsNext, Elsewhere, Sections, vars
<1>1. ASSUME section = "bulk" PROVE Bu!IInv'
  <2>1. Bu!Next \/ UNCHANGED Bu!vars BY <1>1 DEF Step, SectionsNext, Elsewhere, Sections, vars, Bu!vars
  <2>2. Bu!IInv BY <1>1 DEF SectionsInv, In
  <2> QED BY <2>1, <2>2, SectionsAssumption, BulkStep DEF SectionsAssumption
<1>2. ASSUME section = "accounts" PROVE Ac!IInv'
  <2>1. Ac!Next \/ UNCHANGED Ac!vars BY <1>2 DEF Step, SectionsNext, Elsewhere, Sections, vars, Ac!vars, Ac!serverVars, Ac!modalVars, Ac!historyVars
  <2>2. Ac!IInv BY <1>2 DEF SectionsInv, In
  <2> QED BY <2>1, <2>2, SectionsAssumption, AccountsStep DEF SectionsAssumption
<1>3. ASSUME section = "splitForm" PROVE Sf!IInv'
  <2>1. Sf!Next \/ UNCHANGED Sf!vars BY <1>3 DEF Step, SectionsNext, Elsewhere, Sections, vars, Sf!vars
  <2>2. Sf!IInv BY <1>3 DEF SectionsInv, In
  <2> QED BY <2>1, <2>2, SectionsAssumption, SplitFormStep DEF SectionsAssumption
<1>4. ASSUME section = "templates" PROVE St!IInv'
  <2>1. St!Next \/ UNCHANGED St!vars BY <1>4 DEF Step, SectionsNext, Elsewhere, Sections, vars, St!vars
  <2>2. St!IInv BY <1>4 DEF SectionsInv, In
  <2> QED BY <2>1, <2>2, SectionsAssumption, TemplatesStep DEF SectionsAssumption
<1>5. ASSUME section = "group" PROVE Gr!IInv'
  <2>1. Gr!Next \/ UNCHANGED Gr!vars BY <1>5 DEF Step, SectionsNext, Elsewhere, Sections, vars, Gr!vars
  <2>2. Gr!IInv BY <1>5 DEF SectionsInv, In
  <2> QED BY <2>1, <2>2, SectionsAssumption, GroupStep DEF SectionsAssumption
<1>6. ASSUME section = "settle" PROVE Sl!IInv'
  <2>1. Sl!Next \/ UNCHANGED Sl!vars BY <1>6 DEF Step, SectionsNext, Elsewhere, Sections, vars, Sl!vars
  <2>2. Sl!IInv BY <1>6 DEF SectionsInv, In
  <2> QED BY <2>1, <2>2, SectionsAssumption, SettleStep DEF SectionsAssumption
<1> QED BY <1>0, <1>1, <1>2, <1>3, <1>4, <1>5, <1>6 DEF SectionsInv, In

(* Each of these sections keeps its invariant, whatever the other sections do: with  *)
(* it its types, and of the settlements also that a sheet settles once, for *)
(* the pair whose account it suggests.                                      *)
THEOREM SectionsInvAlways == SectionsSpec => []SectionsInv
<1> QED BY SectionsInvInit, SectionsInvStep, PTL DEF SectionsSpec

(* Only what the server takes is sent, and what must be sent once is sent   *)
(* once, for every number of rows, people, groups, accounts and requests.   *)
THEOREM SentIsAcceptableAlways == SectionsSpec => []SentIsAcceptable
<1>1. SectionsInv => SentIsAcceptable
  BY DEF SectionsInv, SentIsAcceptable, In, Bu!IInv, Sf!IInv, St!IInv, Ac!IInv, Sl!IInv
<1> QED BY <1>1, SectionsInvAlways, PTL

(* No step replaces a count or a picture by an older one, and what the      *)
(* sheet proposes clears the debt.                                          *)
THEOREM NothingGoesBackwards == SectionsSpec => NeverBackwards
<1>1. SectionsInv /\ [Step]_vars => [NoStepBack]_vars
  <2> SUFFICES ASSUME SectionsInv, Step PROVE NoStepBack
    OBVIOUS
  <2>1. ASSUME section = "bulk" PROVE Bu!NoOlderPreview
    BY <2>1, SectionsAssumption, BulkNoOlder DEF SectionsAssumption, SectionsInv, In, Step, SectionsNext, Elsewhere, Sections
  <2>2. ASSUME section = "group" PROVE Gr!NoOlderPicture
    BY <2>2, SectionsAssumption, GroupNoOlder DEF SectionsAssumption, SectionsInv, In, Step, SectionsNext, Elsewhere, Sections
  <2>3. ASSUME section = "settle" PROVE Sl!ProposedClears
    BY <2>3, SectionsAssumption, SettleClears DEF SectionsAssumption, SectionsInv, In, Step, SectionsNext, Elsewhere, Sections
  <2> QED BY <2>1, <2>2, <2>3 DEF NoStepBack, In
<1> QED BY <1>1, SectionsInvAlways, PTL DEF SectionsSpec, NeverBackwards
=============================================================================
