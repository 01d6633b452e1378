---------------------------- MODULE MCSplitPartner ----------------------------
(* Small instances of SplitPartner; the users are interchangeable.         *)
EXTENDS SplitPartner, TLC

CONSTANTS ana, ben
UserSymmetry == Permutations(Users)
=============================================================================
