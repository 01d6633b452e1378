---------------------------- MODULE MCSplitLedger ----------------------------
(* Small instances of SplitLedger.  Ana and Ben are linked partners, Cam   *)
(* is a contact in Ana's address book.                                     *)
EXTENDS SplitLedger, SplitShares

CONSTANTS ana, ben, cam

MCBook == [u \in Users |-> (Identities \ {u}) \ (IF u = ana THEN {} ELSE {cam})]

Pay(p, q, n, d) == [debtor |-> p, creditor |-> q, amount |-> n, date |-> d]

(* Two identities that owe each other: 1 cent of 2, 2 cents of 3.  Half of *)
(* 3 cents is 2 for each, and the first participant gives the residual.    *)
AnaPaid2 == Divided("EQUAL", 2, ana, <<ana, ben>>, <<>>, Identities)
AnaPaid3 == Divided("PERCENTAGE", 3, ana, <<ana, ben>>, <<500000, 500000>>, Identities)
BenPaid2 == Divided("SHARES", 2, ben, <<ana, ben>>, <<10000, 10000>>, Identities)

PairSplits == AnaPaid2 \cup AnaPaid3 \cup BenPaid2
PairPayments == {Pay(ben, ana, 1, 1), Pay(ben, ana, 2, 2), Pay(ana, ben, 1, 1)}

(* One debtor, one creditor, one group: the scopes of the two passes. *)
ScopeSplits == AnaPaid3
ScopePayments == {Pay(ben, ana, 1, 1), Pay(ben, ana, 3, 1)}

=============================================================================
