----------------------------- MODULE MCWebSession -----------------------------
(* A small instance of WebSession: Ana has a second factor and has yet to  *)
(* accept the terms, Ben's account is the demo account and has.            *)
EXTENDS WebSession

CONSTANTS ana, ben

=============================================================================
