------------------------------ MODULE SplitPartner ------------------------------
(***************************************************************************)
(* Partner links between users (SplitPartnerLink) and the address book     *)
(* entries they create (SplitContact with a linked_user).  The requests    *)
(* read and write in separate autocommitted statements, so two workers     *)
(* interleave at each of them; only accept_partner_link is a transaction.  *)
(***************************************************************************)
EXTENDS Integers, FiniteSets, Sequences

CONSTANTS
  Users,
  Workers,   \* processes that serve requests
  MaxLinks,  \* rows of SplitPartnerLink
  None

Pairs == {p \in Users \X Users : p[1] # p[2]}

VARIABLES
  links,    \* the SplitPartnerLink rows, in creation order
  contact,  \* contact[<<u, v>>]: the contact of u that is linked to v
  used,     \* used[<<u, v>>]: the kinds of rows that refer to that contact
  proc,     \* proc[w]: the request worker w serves and what it has read
  agreed,   \* history: <<u, v>> when u has sent v a request or accepted one
  begun     \* history: begun[i]: the rows there were when the request that
            \* created row i arrived

vars == <<links, contact, used, proc, agreed, begun>>

(* `since` is history too: the rows there were when the request arrived.   *)
Idle == [at |-> "idle", user |-> None, other |-> None, link |-> 0, since |-> 0]

TypeOK ==
  /\ links \in Seq([from : Users, to : Users,
                    status : {"PENDING", "ACCEPTED", "DECLINED"}])
  /\ \A i \in DOMAIN links : links[i].from # links[i].to
  /\ contact \in [Pairs -> {"none", "open", "archived"}]
  /\ used \in [Pairs -> SUBSET {"participation", "settlement"}]
  /\ proc \in [Workers ->
        [at : {"idle", "opposite", "existing", "linked", "insert",
               "accept", "decline", "archive", "delete"},
         user : Users \cup {None}, other : Users \cup {None}, link : Nat,
         since : Nat]]
  /\ agreed \subseteq Pairs
  /\ begun \in Seq(Nat) /\ Len(begun) = Len(links)

Init ==
  /\ links = <<>>
  /\ contact = [p \in Pairs |-> "none"]
  /\ used = [p \in Pairs |-> {}]
  /\ proc = [w \in Workers |-> Idle]
  /\ agreed = {}
  /\ begun = <<>>

With(u, v, status) ==
  {i \in DOMAIN links : links[i] = [from |-> u, to |-> v, status |-> status]}

Serve(w, at, u, v, i) ==
  proc' = [proc EXCEPT ![w] = [at |-> at, user |-> u, other |-> v, link |-> i,
                               since |-> Len(links)]]
Step(w, at) == proc' = [proc EXCEPT ![w].at = at]
Done(w) == proc' = [proc EXCEPT ![w] = Idle]

(***************************************************************************)
(* send_partner_request: three lookups, then the INSERT.                   *)
(***************************************************************************)
Busy == {w \in Workers : proc[w].at # "idle"}

(* Mutant: a user may ask himself. *)
SendToAnybody(w) ==
  /\ proc[w].at = "idle"
  /\ Len(links) + Cardinality(Busy) < MaxLinks
  /\ \E p \in Users \X Users :
       /\ Serve(w, "opposite", p[1], p[2], 0)
       /\ agreed' = agreed \cup {p}
  /\ UNCHANGED <<links, contact, used, begun>>

Send(w) ==
  /\ proc[w].at = "idle"
  /\ Len(links) + Cardinality(Busy) < MaxLinks
  /\ \E p \in Pairs :
       /\ Serve(w, "opposite", p[1], p[2], 0)
       /\ agreed' = agreed \cup {p}
  /\ UNCHANGED <<links, contact, used, begun>>

(* Mutant: the requester and the recipient of the lookup are swapped. *)
LookOppositeSwapped(w) ==
  LET u == proc[w].user
      v == proc[w].other
      opposite == With(u, v, "PENDING") IN
  /\ proc[w].at = "opposite"
  /\ \/ \E i \in opposite : Serve(w, "accept", u, v, i)
     \/ opposite = {} /\ Step(w, "existing")
  /\ UNCHANGED <<links, contact, used, agreed, begun>>

(* Mutant: no request is ever turned into an answer. *)
LookOppositeNever(w) ==
  /\ proc[w].at = "opposite"
  /\ Step(w, "existing")
  /\ UNCHANGED <<links, contact, used, agreed, begun>>

LookOpposite(w) ==
  LET u == proc[w].user
      v == proc[w].other
      opposite == With(v, u, "PENDING") IN
  /\ proc[w].at = "opposite"
  /\ \/ \E i \in opposite : Serve(w, "accept", u, v, i)
     \/ opposite = {} /\ Step(w, "existing")
  /\ UNCHANGED <<links, contact, used, agreed, begun>>

LookExisting(w) ==
  /\ proc[w].at = "existing"
  /\ IF With(proc[w].user, proc[w].other, "PENDING") # {}
     THEN Done(w)
     ELSE Step(w, "linked")
  /\ UNCHANGED <<links, contact, used, agreed, begun>>

LookLinked(w) ==
  LET u == proc[w].user
      v == proc[w].other IN
  /\ proc[w].at = "linked"
  /\ IF With(u, v, "ACCEPTED") \cup With(v, u, "ACCEPTED") # {}
     THEN Done(w)
     ELSE Step(w, "insert")
  /\ UNCHANGED <<links, contact, used, agreed, begun>>

(* uniq_pending_split_partner_link refuses a second PENDING row. *)
MayInsert(u, v) == With(u, v, "PENDING") = {}

Insert(w) ==
  LET u == proc[w].user
      v == proc[w].other IN
  /\ proc[w].at = "insert"
  /\ links' = IF MayInsert(u, v)
              THEN Append(links, [from |-> u, to |-> v, status |-> "PENDING"])
              ELSE links
  /\ begun' = IF MayInsert(u, v) THEN Append(begun, proc[w].since) ELSE begun
  /\ Done(w)
  /\ UNCHANGED <<contact, used, agreed>>

(***************************************************************************)
(* The answers of the recipient.                                           *)
(***************************************************************************)
LoadAnswer(w) ==
  /\ proc[w].at = "idle"
  /\ \E i \in DOMAIN links :
       /\ links[i].status = "PENDING"
       /\ \/ /\ Serve(w, "accept", links[i].to, links[i].from, i)
             /\ agreed' = agreed \cup {<<links[i].to, links[i].from>>}
          \/ Serve(w, "decline", links[i].to, links[i].from, i) /\ UNCHANGED agreed
  /\ UNCHANGED <<links, contact, used, begun>>

(* accept_partner_link: both contacts are created or reopened. *)
Accept(w) ==
  LET u == proc[w].user
      v == proc[w].other IN
  /\ proc[w].at = "accept"
  /\ links' = [links EXCEPT ![proc[w].link].status = "ACCEPTED"]
  /\ contact' = [contact EXCEPT ![<<u, v>>] = "open", ![<<v, u>>] = "open"]
  /\ Done(w)
  /\ UNCHANGED <<used, agreed, begun>>

Decline(w) ==
  /\ proc[w].at = "decline"
  /\ links' = [links EXCEPT ![proc[w].link].status = "DECLINED"]
  /\ Done(w)
  /\ UNCHANGED <<contact, used, agreed, begun>>

(***************************************************************************)
(* The owner deletes a contact: it is archived if a participation refers   *)
(* to it when the request looks, and deleted otherwise.                    *)
(***************************************************************************)
LoadDelete(w) ==
  /\ proc[w].at = "idle"
  /\ \E p \in Pairs :
       /\ contact[p] # "none"
       /\ Serve(w, IF "participation" \in used[p] THEN "archive" ELSE "delete",
                p[1], p[2], 0)
  /\ UNCHANGED <<links, contact, used, agreed, begun>>

(* save(update_fields=["is_archived"]) of a row that has been deleted in   *)
(* between fails, as the deletion of a row that is gone does nothing.       *)
Archive(w) ==
  LET p == <<proc[w].user, proc[w].other>> IN
  /\ proc[w].at = "archive"
  /\ contact' = [contact EXCEPT ![p] = IF @ = "none" THEN @ ELSE "archived"]
  /\ Done(w)
  /\ UNCHANGED <<links, used, agreed, begun>>

(* Mutant: settlements may lose the identity. *)
MayDeleteUnlessParticipant(p) == "participation" \notin used[p]

(* The rows that refer to the contact are SET NULL, and the constraints    *)
(* that want exactly one identity in each of them refuse the deletion.     *)
MayDelete(p) == used[p] = {}

Delete(w) ==
  LET p == <<proc[w].user, proc[w].other>> IN
  /\ proc[w].at = "delete"
  /\ contact' = IF MayDelete(p) THEN [contact EXCEPT ![p] = "none"] ELSE contact
  /\ Done(w)
  /\ UNCHANGED <<links, used, agreed, begun>>

(***************************************************************************)
(* A contact enters a group, an expense or a settlement, and leaves with   *)
(* the expense, the group or the settlement.                               *)
(***************************************************************************)
Use(w) ==
  /\ proc[w].at = "idle"
  /\ \E p \in Pairs, kind \in {"participation", "settlement"} :
       \/ contact[p] # "none" /\ used' = [used EXCEPT ![p] = @ \cup {kind}]
       \/ used' = [used EXCEPT ![p] = @ \ {kind}]
  /\ used' # used
  /\ UNCHANGED <<links, contact, proc, agreed, begun>>

Next ==
  \E w \in Workers :
    \/ Send(w) \/ LookOpposite(w) \/ LookExisting(w) \/ LookLinked(w) \/ Insert(w)
    \/ LoadAnswer(w) \/ Accept(w) \/ Decline(w)
    \/ LoadDelete(w) \/ Archive(w) \/ Delete(w)
    \/ Use(w)

Spec == Init /\ [][Next]_vars

(***************************************************************************)
(* Properties.                                                             *)
(***************************************************************************)

(* Nobody enters the address book of somebody else, and so nobody can be   *)
(* made a debtor by him, unless both have asked for it or agreed.          *)
BothAgreed ==
  \A p \in Pairs : contact[p] # "none" => p \in agreed /\ <<p[2], p[1]>> \in agreed

(* Two users wait for each other's answer, each with an open request (what *)
(* the docstring of send_partner_request calls a deadlock), only if the    *)
(* requests crossed: the later one had arrived before the row of the       *)
(* earlier one was there.  A request that arrives when the other is open   *)
(* becomes its answer, or finds it answered, whatever else is inserted or  *)
(* answered between its lookups and its INSERT.                            *)
NoStandoff ==
  \A i, j \in DOMAIN links :
    /\ i < j
    /\ links[i].status = "PENDING" /\ links[j].status = "PENDING"
    /\ links[i].from = links[j].to /\ links[i].to = links[j].from
    => begun[j] < i

(* A request is answered once: accept and decline look for PENDING links   *)
(* only.                                                                   *)
AnswerIsFinal ==
  [][\A i \in DOMAIN links :
       links[i].status # "PENDING" => links'[i].status = links[i].status]_vars

(* A contact that a participation or a settlement refers to is never       *)
(* deleted, not even by a request that looked before the reference came.   *)
ReferencedContactStays ==
  \A p \in Pairs : used[p] # {} => contact[p] # "none"
=============================================================================
