------------------------------ MODULE WebAccounts ------------------------------
(***************************************************************************)
(* Archiving a bank account.  The server refuses while the account has     *)
(* money or open positions; the page then offers to move the positions,    *)
(* one call each, and to archive again.  Restoring the account offers to   *)
(* bring back those that were moved away, again one call each.  The server *)
(* looks first and writes later, and locks nothing in between.             *)
(***************************************************************************)
EXTENDS Naturals, FiniteSets

CONSTANTS
  Accounts, Investments,
  MaxClicks,   \* bound: calls and loops started
  MaxOthers,   \* bound: changes made elsewhere
  None

AccountsAssumption ==
  None \notin Accounts /\ Investments \subseteq Nat /\ MaxClicks \in Nat /\ MaxOthers \in Nat

VARIABLES
  source_account, previous_account,   \* of each investment
  open,            \* the investments with shares
  funds,           \* the accounts with a balance
  is_archived,     \* the archived accounts
  migrateModal,    \* None, or [account, assets, destination]
  rollbackModal,   \* None, or [account, candidates]
  balanceBlockedModal,
  calls,           \* on their way: [kind, account, answer, n]
  loops,           \* running: [kind, account, left, to, from, answer, n]; from: the account
                   \* the server has read of the position it moves next
  edits,           \* forms of investments at the server: [asset, to, was], was: previous_account
  moved,           \* moved[a]: history: moved away by a migration of a, and nowhere else since
  twice,           \* history: an investment was moved again
  reopened,        \* history: positions opened on an archived account
  raced,           \* history: positions that came to an account while it was being archived
  clicks, others

serverVars == <<source_account, previous_account, open, funds, is_archived>>
modalVars == <<migrateModal, rollbackModal, balanceBlockedModal>>
historyVars == <<moved, twice, reopened, raced>>
vars == <<serverVars, modalVars, calls, loops, edits, historyVars, clicks, others>>

Waiting == [tag |-> "none", list |-> {}, was |-> {}]
Said(tag) == [Waiting EXCEPT !.tag = tag]

(* "checked": the server has found nothing against it, and has not written. *)
Tags == {"none", "checked", "ok", "refused", "non_zero_balance", "open_positions"}
Checked(q) == q.answer.tag = "checked"
Served(q) == q.answer.tag \notin {"none", "checked"}

Answers == [tag : Tags, list : SUBSET Investments, was : SUBSET Investments]
Calls == [kind : {"archive", "unarchive"}, account : Accounts, answer : Answers, n : Nat]
Loops == [kind : {"migrate", "rollback"}, account : Accounts, left : SUBSET Investments, to : Accounts,
          from : Accounts \cup {None}, answer : Answers, n : Nat]

ServerType ==
  /\ source_account \in [Investments -> Accounts]
  /\ previous_account \in [Investments -> Accounts \cup {None}]
  /\ open \subseteq Investments /\ funds \subseteq Accounts /\ is_archived \subseteq Accounts
  /\ moved \in [Accounts -> SUBSET Investments] /\ twice \in BOOLEAN /\ clicks \in Nat
  /\ reopened \subseteq Investments /\ raced \subseteq Investments
MigrateType ==
  /\ migrateModal \in [account : Accounts, assets : SUBSET Investments, destination : Accounts \cup {None}]
                      \cup {None}
  /\ migrateModal # None => migrateModal.destination # migrateModal.account /\ migrateModal.assets # {}
RollbackType ==
  /\ rollbackModal \in [account : Accounts, candidates : SUBSET Investments] \cup {None}
  /\ rollbackModal # None => rollbackModal.candidates # {}
MessageType ==
  /\ \A c \in calls : c \in Calls /\ (c.answer.tag = "open_positions" => c.answer.list # {})
  /\ \A l \in loops : l \in Loops /\ (l.kind = "rollback" => l.left # {})
  /\ edits \subseteq [asset : Investments, to : Accounts, was : Accounts \cup {None}]
  /\ balanceBlockedModal \in Accounts \cup {None}
TypeOK == ServerType /\ MigrateType /\ RollbackType /\ MessageType

Init ==
  /\ source_account \in [Investments -> Accounts] /\ previous_account = [i \in Investments |-> None]
  /\ open \in SUBSET Investments /\ funds \in SUBSET Accounts /\ is_archived = {}
  /\ migrateModal = None /\ rollbackModal = None /\ balanceBlockedModal = None /\ calls = {} /\ loops = {}
  /\ edits = {} /\ moved = [a \in Accounts |-> {}] /\ twice = FALSE /\ reopened = {} /\ raced = {}
  /\ clicks = 0 /\ others = 0

Clicks ==
  clicks < MaxClicks /\ clicks' = clicks + 1 /\ UNCHANGED <<serverVars, edits, historyVars, others>>

(***************************************************************************)
(* The server                                                              *)
(***************************************************************************)
(* Mutant: no position blocks. *)
BlockingNone(a) == {}

Blocking(a) == {i \in open : source_account[i] = a}

Archive(a) ==
  IF a \in is_archived THEN Said("refused")
  ELSE IF a \in funds THEN Said("non_zero_balance")
  ELSE IF Blocking(a) # {} THEN [Said("open_positions") EXCEPT !.list = Blocking(a)]
  ELSE Said("checked")

First(l) == CHOOSE i \in l.left : TRUE

(* Accounts about to be archived, and positions about to come to one: an    *)
(* order in which either does not see the other.                           *)
Closing(a) ==
  \/ \E c \in calls : c.kind = "archive" /\ c.account = a /\ Checked(c)
  \/ \E l \in loops : l.left = {} /\ l.account = a /\ Checked(l)
Entering(a) ==
  {First(l) : l \in {m \in loops : m.left # {} /\ m.to = a /\ Checked(m)}}
    \cup {e.asset : e \in {f \in edits : f.to = a}}
Closes(a) == is_archived' = is_archived \cup {a} /\ raced' = raced \cup Entering(a)
Enters(i, a) == raced' = IF Closing(a) THEN raced \cup {i} ELSE raced

(* Mutant: where it came from is forgotten. *)
ComesFromNowhere(l) == None

ComesFrom(l) == l.from

(* Mutant: an archived account takes it. *)
AnyAccount(i, a) == TRUE

Accepts(i, a) == a \notin is_archived

MovePosition(i, a, from) ==
  /\ source_account' = [source_account EXCEPT ![i] = a]
  /\ previous_account' = [previous_account EXCEPT ![i] = from]

Answered(c, answer) == calls' = (calls \ {c}) \cup {[c EXCEPT !.answer = answer]}
CheckArchive(c) ==
  /\ c.kind = "archive" /\ c.answer = Waiting /\ Answered(c, Archive(c.account))
  /\ UNCHANGED <<serverVars, modalVars, loops, edits, historyVars, clicks, others>>
ServeArchive(c) ==
  /\ c.kind = "archive" /\ Checked(c) /\ Answered(c, Said("ok")) /\ Closes(c.account)
  /\ UNCHANGED <<source_account, previous_account, open, funds, modalVars, loops, edits>>
  /\ UNCHANGED <<moved, twice, reopened, clicks, others>>
ServeUnarchive(c) ==
  /\ c.kind = "unarchive" /\ c.answer = Waiting
  /\ IF c.account \in is_archived
     THEN Answered(c, [tag |-> "ok", list |-> {i \in Investments : previous_account[i] = c.account},
                       was |-> moved[c.account]])
     ELSE Answered(c, Said("refused"))
  /\ is_archived' = is_archived \ {c.account}
  /\ UNCHANGED <<source_account, previous_account, open, funds, modalVars, loops, edits, historyVars>>
  /\ UNCHANGED <<clicks, others>>

(***************************************************************************)
(* The page                                                                *)
(***************************************************************************)
Call(kind, a) ==
  /\ Clicks /\ calls' = calls \cup {[kind |-> kind, account |-> a, answer |-> Waiting, n |-> clicks]}
  /\ UNCHANGED <<modalVars, loops>>
HandleArchive(a) == Call("archive", a)
HandleUnarchive(a) == a \in is_archived /\ Call("unarchive", a)

Done(c) == calls' = calls \ {c} /\ UNCHANGED <<serverVars, loops, edits, historyVars, clicks, others>>
HearArchive(c) ==
  /\ c.kind = "archive" /\ Served(c) /\ Done(c) /\ UNCHANGED rollbackModal
  /\ migrateModal' = IF c.answer.tag = "open_positions"
                     THEN [account |-> c.account, assets |-> c.answer.list, destination |-> None]
                     ELSE migrateModal
  /\ balanceBlockedModal' = IF c.answer.tag = "non_zero_balance" THEN c.account ELSE balanceBlockedModal
(* Mutant: it is offered to bring back nothing. *)
OffersAlways(list) == TRUE

Offers(list) == list # {}

HearUnarchive(c) ==
  /\ c.kind = "unarchive" /\ Served(c) /\ Done(c) /\ UNCHANGED <<migrateModal, balanceBlockedModal>>
  /\ rollbackModal' = IF Offers(c.answer.list) /\ c.answer.tag = "ok"
                      THEN [account |-> c.account, candidates |-> c.answer.list] ELSE rollbackModal
Lost(c) == Done(c) /\ UNCHANGED modalVars

SetDestination(a) ==
  /\ migrateModal # None /\ a \notin is_archived \cup {migrateModal.account, migrateModal.destination}
  /\ migrateModal' = [migrateModal EXCEPT !.destination = a]
  /\ UNCHANGED <<serverVars, rollbackModal, balanceBlockedModal, calls, loops, edits, historyVars>>
  /\ UNCHANGED <<clicks, others>>
CloseModals ==
  /\ migrateModal # None \/ rollbackModal # None \/ balanceBlockedModal # None
  /\ migrateModal' = None /\ rollbackModal' = None /\ balanceBlockedModal' = None
  /\ UNCHANGED <<serverVars, calls, loops, edits, historyVars, clicks, others>>

Starts(kind, a, assets, to) ==
  /\ Clicks /\ UNCHANGED <<modalVars, calls>>
  /\ loops' = loops \cup {[kind |-> kind, account |-> a, left |-> assets, to |-> to,
                           from |-> None, answer |-> Waiting, n |-> clicks]}
HandleMigrateAndArchive ==
  /\ migrateModal # None /\ migrateModal.destination # None
  /\ Starts("migrate", migrateModal.account, migrateModal.assets, migrateModal.destination)
HandleRollback ==
  /\ rollbackModal # None
  /\ Starts("rollback", rollbackModal.account, rollbackModal.candidates, rollbackModal.account)

Changes(l, m) == loops' = (loops \ {l}) \cup {m}
Stops(l) == loops' = loops \ {l}
CheckMove(l) ==
  /\ l.left # {} /\ l.answer = Waiting
  /\ Changes(l, IF Accepts(First(l), l.to)
                 THEN [l EXCEPT !.answer = Said("checked"), !.from = source_account[First(l)]]
                 ELSE [l EXCEPT !.answer = Said("refused")])
  /\ UNCHANGED <<serverVars, modalVars, calls, edits, historyVars, clicks, others>>
ServeMove(l) ==
  /\ l.left # {} /\ Checked(l) /\ Changes(l, [l EXCEPT !.answer = Said("ok"), !.from = None])
  /\ LET i == First(l) IN
     /\ MovePosition(i, l.to, ComesFrom(l)) /\ Enters(i, l.to)
     /\ moved' = [a \in Accounts |->
          (moved[a] \ {i}) \cup IF a = l.account /\ l.kind = "migrate" THEN {i} ELSE {}]
     /\ twice' = (twice \/ previous_account[i] # None)
  /\ UNCHANGED <<open, funds, is_archived, modalVars, calls, edits, reopened, clicks, others>>
CheckLast(l) ==
  /\ l.left = {} /\ l.answer = Waiting /\ Changes(l, [l EXCEPT !.answer = Archive(l.account)])
  /\ UNCHANGED <<serverVars, modalVars, calls, edits, historyVars, clicks, others>>
ServeLast(l) ==
  /\ l.left = {} /\ Checked(l) /\ Changes(l, [l EXCEPT !.answer = Said("ok")]) /\ Closes(l.account)
  /\ UNCHANGED <<source_account, previous_account, open, funds, modalVars, calls, edits>>
  /\ UNCHANGED <<moved, twice, reopened, clicks, others>>

Unserved == UNCHANGED <<serverVars, calls, edits, historyVars, clicks, others>>
Quiet == UNCHANGED <<migrateModal, balanceBlockedModal>>
Left(l) == l.left \ {First(l)}
HearMove(l) ==
  /\ l.left # {} /\ l.answer.tag = "ok" /\ Unserved /\ Quiet
  /\ IF l.kind = "rollback" /\ Left(l) = {}
     THEN Stops(l) /\ rollbackModal' = None
     ELSE Changes(l, [l EXCEPT !.left = Left(l), !.answer = Waiting]) /\ UNCHANGED rollbackModal
(* The loop stops, the sheet stays. *)
HearNoMove(l) == l.left # {} /\ l.answer.tag = "refused" /\ Unserved /\ Stops(l) /\ UNCHANGED modalVars
LostMove(l) == Unserved /\ Stops(l) /\ UNCHANGED modalVars
(* Whatever the answer. *)
HearLast(l) ==
  /\ l.left = {} /\ Served(l) /\ Unserved /\ Stops(l) /\ migrateModal' = None
  /\ UNCHANGED <<rollbackModal, balanceBlockedModal>>

(***************************************************************************)
(* Elsewhere                                                               *)
(***************************************************************************)
Elsewhere == others < MaxOthers /\ others' = others + 1 /\ UNCHANGED <<modalVars, calls, loops, clicks>>
SaveAdjustBalance(a) ==
  /\ Elsewhere /\ a \notin is_archived /\ funds' = (funds \ {a}) \cup ({a} \ funds)
  /\ UNCHANGED <<source_account, previous_account, open, is_archived, edits, historyVars>>
(* The form of an investment sets its account; all that was loaded of the  *)
(* investment is written.                                                  *)
CheckAsset(i, a) ==
  /\ Elsewhere /\ a # source_account[i] /\ a \notin is_archived
  /\ edits' = edits \cup {[asset |-> i, to |-> a, was |-> previous_account[i]]}
  /\ UNCHANGED <<serverVars, historyVars>>
SaveAsset(e) ==
  /\ edits' = edits \ {e} /\ MovePosition(e.asset, e.to, e.was) /\ Enters(e.asset, e.to)
  /\ moved' = [b \in Accounts |-> moved[b] \ {e.asset}] /\ twice' = TRUE
  /\ UNCHANGED <<open, funds, is_archived, modalVars, calls, loops, reopened, clicks, others>>
(* Buying again on an account that is archived, or about to be. *)
Trade(i) ==
  /\ Elsewhere /\ open' = (open \ {i}) \cup ({i} \ open)
  /\ reopened' =
       IF i \notin open /\ source_account[i] \in is_archived THEN reopened \cup {i} ELSE reopened
  /\ IF i \notin open THEN Enters(i, source_account[i]) ELSE UNCHANGED raced
  /\ UNCHANGED <<source_account, previous_account, funds, is_archived, edits, moved, twice>>

Next ==
  \/ \E a \in Accounts :
       HandleArchive(a) \/ HandleUnarchive(a) \/ SetDestination(a) \/ SaveAdjustBalance(a)
  \/ HandleMigrateAndArchive \/ HandleRollback \/ CloseModals
  \/ \E c \in calls : CheckArchive(c) \/ ServeArchive(c) \/ ServeUnarchive(c)
                      \/ HearArchive(c) \/ HearUnarchive(c) \/ Lost(c)
  \/ \E l \in loops : CheckMove(l) \/ ServeMove(l) \/ CheckLast(l) \/ ServeLast(l)
                      \/ HearMove(l) \/ HearNoMove(l) \/ LostMove(l) \/ HearLast(l)
  \/ \E i \in Investments : Trade(i) \/ \E a \in Accounts : CheckAsset(i, a)
  \/ \E e \in edits : SaveAsset(e)

Spec == Init /\ [][Next]_vars

(***************************************************************************)
(* Properties                                                              *)
(***************************************************************************)
(* No open position is left on an archived account, or moved to it by a    *)
(* loop that runs while its destination is archived.  Excepted are what    *)
(* had been sold and is bought again there, and what came to the account   *)
(* between the look of an archive and its write, or whose own move or form *)
(* had looked at the account before that write.                            *)
ArchivedHoldNothing == \A i \in open : source_account[i] \in is_archived => i \in reopened \cup raced

(* "These investments were on {account} before archiving": what is offered *)
(* to be brought back is what the migration of that account moved away, if *)
(* it was not moved a second time.                                         *)
WhatWasHereIsOffered ==
  ~twice => \A c \in calls : c.kind = "unarchive" /\ c.answer.tag = "ok" => c.answer.list = c.answer.was

(***************************************************************************)
(* The inductive invariant                                                 *)
(***************************************************************************)
(* As long as no investment is moved a second time, where an investment    *)
(* was is what a migration of that account moved, and what is on its way   *)
(* out of an account is still there.                                       *)
Leaving(assets, a) == ~twice => \A i \in assets : previous_account[i] = None => source_account[i] = a
Wandered(assets) == ~twice => \A i \in assets : previous_account[i] # None
MovedInv == ~twice => \A a \in Accounts : moved[a] = {i \in Investments : previous_account[i] = a}
LeavingInv ==
  /\ migrateModal # None => Leaving(migrateModal.assets, migrateModal.account)
  /\ \A c \in calls : c.kind = "archive" => Leaving(c.answer.list, c.account)
  /\ \A l \in loops : l.kind = "migrate" => Leaving(l.left, l.account)
WanderedInv ==
  /\ rollbackModal # None => Wandered(rollbackModal.candidates)
  /\ \A c \in calls : c.kind = "unarchive" => Wandered(c.answer.list)
  /\ \A l \in loops : l.kind = "rollback" => Wandered(l.left)

(* A move that has looked writes what it has read, as long as nothing is   *)
(* moved a second time.                                                    *)
FromInv ==
  ~twice => \A l \in loops : l.left # {} /\ Checked(l) /\ previous_account[First(l)] = None =>
              l.from = source_account[First(l)]

(* What was looked at is still so, but for what raced. *)
ClosingInv ==
  \A a \in Accounts : Closing(a) =>
    \A i \in open : source_account[i] = a => i \in reopened \cup raced
EnteringInv == \A a \in is_archived : Entering(a) \subseteq raced

IInv ==
  /\ ServerType /\ MigrateType /\ RollbackType /\ MessageType /\ MovedInv /\ LeavingInv /\ WanderedInv
  /\ FromInv /\ ClosingInv /\ EnteringInv
  /\ ArchivedHoldNothing /\ WhatWasHereIsOffered
=============================================================================
