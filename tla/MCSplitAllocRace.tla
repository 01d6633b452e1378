--------------------------- MODULE MCSplitAllocRace ---------------------------
(* Small instances of SplitAllocRace: payments of 1 or 2, shares of 2.     *)
EXTENDS SplitAllocRace

CONSTANTS ben, cam

MCDebtor == [s \in Pays |-> IF s = 2 THEN cam ELSE ben]
MCAmount == [s \in Pays |-> IF s = 1 THEN 1 ELSE 2]

(* Every expense is shared with everybody. *)
MCDue == [e \in Charges |-> [d \in Debtors |-> 2]]

(* Expense 4 is shared with Ben alone, 7 with Cam alone. *)
MCDueMixed ==
  [e \in Charges |-> [d \in Debtors |->
     IF (e = 4 /\ d = cam) \/ (e = 7 /\ d = ben) THEN 0 ELSE 2]]
=============================================================================
