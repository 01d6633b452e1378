------------------------------ MODULE WebSecurity ------------------------------
(***************************************************************************)
(* The account page and the questions before data is destroyed: three      *)
(* parts that share nothing.  "profile": name, e-mail, second factor and   *)
(* the deletion of the account.  "list": the API tokens, or the grants.    *)
(* "danger": the two resets and the loading of the demo data.  The user    *)
(* may leave the page with a request on its way; an answer then reaches    *)
(* the profile or the grants, which the session keeps, but no card.        *)
(***************************************************************************)
EXTENDS Naturals

CONSTANTS
  Rows,         \* tokens, or people an account is shared with
  MaxCalls,     \* bound: requests of the user, the reads that follow not counted
  MaxVisits,    \* bound: visits of the page, openings of a question
  None

SecurityAssumption == {MaxCalls, MaxVisits} \subseteq Nat \ {0} /\ None \notin Rows

VARIABLES
  part,        \* "profile", "list" or "danger"
  listed,      \* in part "list": "tokens" or "grants"
  truth,       \* the server: profile [rev, on], secret, codes, list [rev, rows], gone
  profile,     \* the profile as the session knows it
  list,        \* the list as it is shown
  card,        \* the cards: step, secret, codes; revealed token; question, understood
  busy,        \* the flags that are up
  calls,       \* requests on their way: [kind, arg, at, got]
  nCalls,
  visit,       \* the current visit of the page, or opening of a question
  out,         \* logged out
  hist         \* history: seen codes, heard and dismissed tokens, ticked, and the mishaps

vars == <<part, listed, truth, profile, list, card, busy, calls, nCalls, visit, out, hist>>

Resets == {"transactions", "portfolio"}
CardKinds == {"setup", "enable", "disable", "email", "password", "delete", "create", "share", "demo"}
Blank == [step |-> "idle", secret |-> 0, codes |-> 0, revealed |-> None, revoking |-> None,
          question |-> None, understood |-> FALSE]

TypeOK ==
  /\ part \in {"profile", "list", "danger"} /\ listed \in {"tokens", "grants"}
  /\ card.step \in {"idle", "setup", "backup-codes"}
  /\ card.step = "backup-codes" <=> card.codes # 0
  /\ card.revealed \in Rows \cup {None} /\ card.question \in Resets \cup {"demo", None}
  /\ nCalls \in 0..MaxCalls /\ visit \in 0..MaxVisits
  /\ profile.rev <= truth.profile.rev /\ list.rev <= truth.list.rev
  /\ \A c \in calls : c.at = visit /\ c.kind \in {"setup", "email", "create"} => c.kind \in busy
  /\ out => truth.gone

Init ==
  /\ part \in {"profile", "list", "danger"}
  /\ listed \in IF part = "list" THEN {"tokens", "grants"} ELSE {"tokens"}
  /\ \E on \in IF part = "profile" THEN BOOLEAN ELSE {FALSE} :
       /\ truth = [profile |-> [rev |-> 0, on |-> on], secret |-> 0, codes |-> IF on THEN 1 ELSE 0,
                   list |-> [rev |-> 0, rows |-> [r \in Rows |-> "none"]], gone |-> FALSE]
       /\ hist = [seen |-> truth.codes, heard |-> {}, dismissed |-> {}, ticked |-> 0,
                  failed |-> FALSE, overtaken |-> FALSE, left |-> FALSE]
  /\ profile = truth.profile /\ list = truth.list /\ card = Blank
  /\ calls = IF part = "list" THEN {[kind |-> "load", arg |-> "mount", at |-> 1, got |-> None]} ELSE {}
  /\ busy = IF part = "list" THEN {"load"} ELSE {}
  /\ nCalls = 0 /\ visit = (IF part = "danger" THEN 0 ELSE 1) /\ out = FALSE

Call(kind, arg, at) == [kind |-> kind, arg |-> arg, at |-> at, got |-> None]

(* Mutant: a button does not look at its flag. *)
FreeAnyTime(kind) == TRUE

(* A button is off while its own request is on its way; the card of the    *)
(* second factor has one flag; the name, a permission, the end of a grant  *)
(* and a reset have none.                                                  *)
Free(kind) ==
  CASE kind \in {"setup", "enable", "disable"} -> busy \cap {"setup", "enable", "disable"} = {}
    [] OTHER -> kind \notin busy

Send(kind, arg) ==
  /\ ~out /\ nCalls < MaxCalls /\ nCalls' = nCalls + 1
  /\ Free(kind) /\ busy' = busy \cup (CardKinds \cap {kind})
  /\ calls' = calls \cup {Call(kind, arg, visit)}
  /\ UNCHANGED <<part, listed, truth, profile, list, visit, out>>

Replace(c, d) == calls' = (calls \ {c}) \cup d

(***************************************************************************)
(* The server                                                              *)
(***************************************************************************)
Refused(c) ==
  \/ c.kind = "setup" /\ truth.profile.on
  \/ c.kind = "enable" /\ (truth.profile.on \/ truth.secret = 0 \/ c.arg # truth.secret)
  \/ c.kind \in {"change", "unshare"} /\ truth.list.rows[c.arg] = "none"

Profile(on) == [truth EXCEPT !.profile = [rev |-> @.rev + 1, on |-> on]]
Row(r, s) == [truth EXCEPT !.list = [rev |-> @.rev + 1, rows |-> [@.rows EXCEPT ![r] = s]]]

Applied(c) ==
  CASE c.kind = "setup" -> [truth EXCEPT !.secret = @ + 1]
    [] c.kind = "enable" -> [Profile(TRUE) EXCEPT !.codes = @ + 1]
    [] c.kind = "disable" -> [Profile(FALSE) EXCEPT !.secret = 0]
    [] c.kind \in {"name", "email"} -> Profile(truth.profile.on)
    [] c.kind = "delete" -> [truth EXCEPT !.gone = TRUE]
    [] c.kind \in {"create", "share"} -> Row(c.arg, "live")
    [] c.kind = "revoke" -> Row(c.arg, "over")
    [] c.kind = "change" -> Row(c.arg, "changed")
    [] c.kind = "unshare" -> Row(c.arg, "none")
    [] OTHER -> truth

(* A profile, a secret, codes, a list: an answer has what it is about. *)
Reply(t) ==
  [ok |-> TRUE, profile |-> t.profile, secret |-> t.secret, codes |-> t.codes, list |-> t.list]

(* An answer may be lost after the change was made; a read, a wrong        *)
(* password or a passing fault fail before it.                             *)
Serve(c) ==
  /\ c.got = None
  /\ \E ok, lost \in BOOLEAN :
       /\ ok => ~Refused(c)
       /\ truth' = IF ok THEN Applied(c) ELSE truth
       /\ lost => ok /\ c.kind \notin {"profile", "load"}
       /\ Replace(c, {[c EXCEPT !.got = IF ok /\ ~lost THEN Reply(truth') ELSE [ok |-> FALSE]]})
       /\ hist' = [hist EXCEPT !.failed = @ \/ ~ok \/ lost]
  /\ UNCHANGED <<part, listed, profile, list, card, busy, nCalls, visit, out>>

(***************************************************************************)
(* The profile and the second factor                                       *)
(***************************************************************************)
Here(c) == c.at = visit
Lower(c) == IF Here(c) THEN busy \ {c.kind} ELSE busy

StartSetup ==
  /\ part = "profile" /\ card.step = "idle" /\ ~profile.on
  /\ Send("setup", 0) /\ UNCHANGED <<card, hist>>

HearSetup(c) ==
  /\ c.kind = "setup" /\ Replace(c, {}) /\ busy' = Lower(c)
  /\ card' = IF Here(c) /\ c.got.ok THEN [card EXCEPT !.step = "setup", !.secret = c.got.secret] ELSE card
  /\ UNCHANGED <<part, listed, truth, profile, list, nCalls, visit, out, hist>>

(* The code of the secret on the screen, or a mistyped one. *)
ConfirmSetup ==
  /\ card.step = "setup" /\ \E code \in {card.secret, 0} : Send("enable", code)
  /\ UNCHANGED <<card, hist>>

CancelSetup ==
  /\ card.step = "setup" /\ card' = [card EXCEPT !.step = "idle"]
  /\ UNCHANGED <<part, listed, truth, profile, list, busy, calls, nCalls, visit, out, hist>>

(* A change of the second factor or of the e-mail is followed by a read of *)
(* the profile, under the same flag.                                       *)
HearChange(c) ==
  /\ c.kind \in {"enable", "disable", "email"}
  /\ IF c.got.ok
     THEN Replace(c, {Call("profile", [of |-> c.kind, codes |-> c.got.codes], c.at)}) /\ UNCHANGED busy
     ELSE Replace(c, {}) /\ busy' = Lower(c)
  /\ UNCHANGED <<part, listed, truth, profile, list, card, nCalls, visit, out, hist>>

(* Mutant: after a cancellation the codes are not shown. *)
WhileSettingUp(c) == Here(c) /\ card.step = "setup"

ShowsCodes(c) == Here(c)

ApplyProfileData(p) ==
  /\ profile' = p
  /\ hist' = [hist EXCEPT !.overtaken = @ \/ p.rev < profile.rev,
                          !.seen = IF card'.step = "backup-codes" THEN card'.codes ELSE @]

HearProfile(c) ==
  /\ c.kind = "profile" /\ Replace(c, {})
  /\ busy' = IF Here(c) THEN busy \ {c.arg.of} ELSE busy
  /\ card' = IF c.got.ok /\ c.arg.of = "enable" /\ ShowsCodes(c)
             THEN [card EXCEPT !.step = "backup-codes", !.codes = c.arg.codes] ELSE card
  /\ IF c.got.ok THEN ApplyProfileData(c.got.profile) ELSE UNCHANGED <<profile, hist>>
  /\ UNCHANGED <<part, listed, truth, list, nCalls, visit, out>>

FinishBackupCodes ==
  /\ card.step = "backup-codes" /\ card' = [card EXCEPT !.step = "idle", !.codes = 0]
  /\ UNCHANGED <<part, listed, truth, profile, list, busy, calls, nCalls, visit, out, hist>>

HandleDisable ==
  /\ part = "profile" /\ card.step = "idle" /\ profile.on
  /\ Send("disable", 0) /\ UNCHANGED <<card, hist>>

SaveName == part = "profile" /\ Send("name", 0) /\ UNCHANGED <<card, hist>>
HandleEmailSubmit == part = "profile" /\ Send("email", 0) /\ UNCHANGED <<card, hist>>
HandlePwSubmit == part = "profile" /\ Send("password", 0) /\ UNCHANGED <<card, hist>>
HandleDeleteAccount == part = "profile" /\ Send("delete", 0) /\ UNCHANGED <<card, hist>>

(* Mutant: the answer to a new name is left unread. *)
NothingNew(p) == profile

AsAnswered(p) == p

HearAccount(c) ==
  /\ c.kind \in {"name", "password", "delete"} /\ Replace(c, {}) /\ busy' = Lower(c)
  /\ out' = (out \/ (c.kind = "delete" /\ c.got.ok))
  /\ UNCHANGED card
  /\ IF c.kind = "name" /\ c.got.ok THEN ApplyProfileData(AsAnswered(c.got.profile))
     ELSE UNCHANGED <<profile, hist>>
  /\ UNCHANGED <<part, listed, truth, list, nCalls, visit>>

(***************************************************************************)
(* The tokens and the grants                                               *)
(***************************************************************************)
FormShown == part = "list" /\ card.revealed = None

HandleCreate(r) ==
  /\ FormShown /\ truth.list.rows[r] = "none" /\ \A c \in calls : c.arg # r
  /\ Send(IF listed = "tokens" THEN "create" ELSE "share", r) /\ UNCHANGED <<card, hist>>

HandleRevoke(r) ==
  /\ FormShown /\ listed = "tokens" /\ list.rows[r] = "live" /\ card.revoking # r
  /\ Send("revoke", r) /\ card' = [card EXCEPT !.revoking = r] /\ UNCHANGED hist

HandlePermChange(r) ==
  /\ FormShown /\ listed = "grants" /\ list.rows[r] # "none"
  /\ \E kind \in {"change", "unshare"} : Send(kind, r)
  /\ UNCHANGED <<card, hist>>

(* Mutant: the list is read again after an addition only. *)
AfterAddition(c) == c.got.ok /\ c.kind \in {"create", "share"}

ReadsAgain(c) == c.got.ok

Revealed(c) ==
  IF Here(c) /\ c.got.ok /\ c.kind = "create"
  THEN /\ card' = [card EXCEPT !.revealed = c.arg] /\ hist' = [hist EXCEPT !.heard = @ \cup {c.arg}]
  ELSE /\ card' = IF Here(c) /\ ~c.got.ok /\ c.kind = "revoke" THEN [card EXCEPT !.revoking = None] ELSE card
       /\ UNCHANGED hist

(* Only a new token keeps its flag up until the list was read again. *)
HearListChange(c) ==
  /\ c.kind \in {"create", "share", "revoke", "change", "unshare"} /\ Revealed(c)
  /\ IF ReadsAgain(c)
     THEN /\ Replace(c, {Call("load", c.kind, c.at)})
          /\ busy' = (IF c.kind = "create" THEN busy ELSE Lower(c))
                     \cup (IF Here(c) /\ listed = "tokens" THEN {"load"} ELSE {})
     ELSE Replace(c, {}) /\ busy' = Lower(c)
  /\ UNCHANGED <<part, listed, truth, profile, list, nCalls, visit, out>>

(* The tokens belong to their card, the grants to the session. *)
Reaches(c) == c.got.ok /\ (Here(c) \/ listed = "grants")

(* Mutant: the flags come down after a success only. *)
LoweredOnSuccess(c) == IF Here(c) /\ c.got.ok THEN busy \ {"load", c.arg} ELSE busy

Lowered(c) == IF Here(c) THEN busy \ {"load", c.arg} ELSE busy

HearLoad(c) ==
  /\ c.kind = "load" /\ Replace(c, {}) /\ busy' = Lowered(c)
  /\ list' = IF Reaches(c) THEN c.got.list ELSE list
  /\ card' = IF Here(c) /\ c.arg = "revoke" THEN [card EXCEPT !.revoking = None] ELSE card
  /\ hist' = [hist EXCEPT !.overtaken = @ \/ (Reaches(c) /\ c.got.list.rev < list.rev)]
  /\ UNCHANGED <<part, listed, truth, profile, nCalls, visit, out>>

DismissToken ==
  /\ card.revealed # None /\ card' = [card EXCEPT !.revealed = None]
  /\ hist' = [hist EXCEPT !.dismissed = @ \cup {card.revealed}]
  /\ UNCHANGED <<part, listed, truth, profile, list, busy, calls, nCalls, visit, out>>

(* Leaving the page and coming back: the cards start anew, and the tokens  *)
(* are read.                                                               *)
Revisit ==
  /\ part # "danger" /\ ~out /\ visit < MaxVisits
  /\ visit' = visit + 1 /\ card' = Blank
  /\ LET reads == part = "list" /\ listed = "tokens" IN
     /\ calls' = calls \cup (IF reads THEN {Call("load", "mount", visit + 1)} ELSE {})
     /\ busy' = IF reads THEN {"load"} ELSE {}
     /\ list' = IF reads THEN [rev |-> 0, rows |-> [r \in Rows |-> "none"]] ELSE list
  /\ hist' = [hist EXCEPT !.left = @ \/ calls # {}]
  /\ UNCHANGED <<part, listed, truth, profile, nCalls, out>>

(***************************************************************************)
(* The questions before data is destroyed                                  *)
(***************************************************************************)
(* Mutant: what was ticked stays ticked. *)
StaysUnderstood(q) == [card EXCEPT !.question = q]

Asked(q) == [card EXCEPT !.question = q, !.understood = FALSE]

AskDanger(q) ==
  /\ part = "danger" /\ card.question = None /\ visit < MaxVisits /\ visit' = visit + 1
  /\ card' = Asked(q)
  /\ UNCHANGED <<part, listed, truth, profile, list, busy, calls, nCalls, out, hist>>

Understand ==
  /\ card.question # None /\ card' = [card EXCEPT !.understood = ~@]
  /\ hist' = [hist EXCEPT !.ticked = visit]
  /\ UNCHANGED <<part, listed, truth, profile, list, busy, calls, nCalls, visit, out>>

(* The cross of the demo question also lowers the flag of a load that is   *)
(* on its way, Cancel does not.                                            *)
CloseDanger ==
  /\ card.question # None /\ card' = Asked(None)
  /\ busy' \in {busy} \cup (IF card.question = "demo" THEN {busy \ {"demo"}} ELSE {})
  /\ hist' = [hist EXCEPT !.left = @ \/ busy' # busy]
  /\ UNCHANGED <<part, listed, truth, profile, list, calls, nCalls, visit, out>>

ConfirmDanger ==
  /\ card.question # None /\ card.understood
  /\ Send(card.question, visit) /\ UNCHANGED <<card, hist>>

(* A reset reads the body of any answer; without one the question stays.   *)
(* The answer closes whichever question of its kind is open.               *)
HearDanger(c) ==
  /\ c.kind \in Resets \cup {"demo"} /\ Replace(c, {})
  /\ busy' = busy \ {c.kind}
  /\ card' = IF c.got.ok /\ (c.kind = "demo" <=> card.question = "demo") THEN Asked(None) ELSE card
  /\ UNCHANGED <<part, listed, truth, profile, list, nCalls, visit, out, hist>>

Answer(c) ==
  /\ c.got # None
  /\ \/ HearSetup(c) \/ HearChange(c) \/ HearProfile(c) \/ HearAccount(c)
     \/ HearListChange(c) \/ HearLoad(c) \/ HearDanger(c)

Next ==
  \/ StartSetup \/ ConfirmSetup \/ CancelSetup \/ FinishBackupCodes \/ HandleDisable
  \/ SaveName \/ HandleEmailSubmit \/ HandlePwSubmit \/ HandleDeleteAccount
  \/ \E r \in Rows : HandleCreate(r) \/ HandleRevoke(r) \/ HandlePermChange(r)
  \/ DismissToken \/ Revisit
  \/ \E q \in Resets \cup {"demo"} : AskDanger(q)
  \/ Understand \/ CloseDanger \/ ConfirmDanger
  \/ \E c \in calls : Serve(c) \/ Answer(c)

(* Every request is answered, at the latest by its time-out. *)
ServeAny == \E c \in calls : Serve(c)
AnswerAny == \E c \in calls : Answer(c)
Fairness == WF_vars(ServeAny) /\ WF_vars(AnswerAny)

Spec == Init /\ [][Next]_vars /\ Fairness

(***************************************************************************)
(* Properties                                                              *)
(***************************************************************************)
Quiet == calls = {}

(* Whoever has the second factor on has been shown the backup codes that   *)
(* the server keeps, even when the set-up was cancelled under the request: *)
(* unless an answer was lost or the page was left meanwhile.               *)
EnabledMeansCodesShown ==
  Quiet /\ truth.profile.on /\ ~hist.failed /\ ~hist.left => hist.seen = truth.codes

(* At rest the session knows the profile as it is, unless an answer was    *)
(* lost or an older answer came after a newer one.                         *)
ProfileIsTheServers ==
  Quiet /\ ~hist.failed /\ ~hist.overtaken => profile = truth.profile

(* A token is shown once: none is replaced on the screen by another before *)
(* its owner said it was copied.                                           *)
NoTokenIsLost ==
  visit = 1 => hist.heard \subseteq hist.dismissed \cup {card.revealed}

(* At rest the list is the server's, unless an answer was lost or came     *)
(* after a newer one, or the tokens were left under a change.              *)
ListIsTheServers ==
  /\ part = "list" /\ Quiet
  /\ ~hist.failed /\ ~hist.overtaken /\ (listed = "tokens" => ~hist.left)
  => list = truth.list

(* What was ticked was ticked for the question on the screen. *)
ConfirmedForThisQuestion == card.understood => hist.ticked = visit

(* The demo data is loaded once at a time, unless the question was closed  *)
(* by its cross under a load.                                              *)
OneSeedAtATime ==
  ~hist.left => \A c, d \in calls : c.kind = "demo" /\ d.kind = "demo" => c = d

Working == busy # {}

(* Every flag comes down. *)
SecurityFlagsEnd == Working ~> ~Working

(***************************************************************************)
(* The inductive invariant                                                 *)
(***************************************************************************)
CallFields == {"kind", "arg", "at", "got"}
CardFields == {"step", "secret", "codes", "revealed", "revoking", "question", "understood"}
TruthFields == {"profile", "secret", "codes", "list", "gone"}
HistFields == {"seen", "heard", "dismissed", "ticked", "failed", "overtaken", "left"}
Factor == {"setup", "enable", "disable"}
Changes == {"create", "share", "revoke", "change", "unshare"}
KindsOf == [profile |-> Factor \cup {"email", "name", "password", "delete", "profile"},
            list |-> Changes \cup {"load"}, danger |-> Resets \cup {"demo"}]

(* A request belongs to its part, and to a visit that has begun.           *)
CallInv ==
  /\ part \in {"profile", "list", "danger"} /\ visit \in Nat /\ (part # "danger" => visit > 0)
  /\ DOMAIN truth = TruthFields /\ DOMAIN hist = HistFields
  /\ \A c \in calls :
       /\ DOMAIN c = CallFields /\ c.kind \in KindsOf[part] /\ c.at \in 0..visit
       /\ c.kind = "profile" => c.arg.of \in Factor \cup {"email"}
       /\ c.kind = "load" => c.arg \in Changes \cup {"mount"}
       /\ c.kind = "create" => c.arg \in Rows
       /\ part = "profile" /\ ~hist.left => c.at = visit

(* The flag under which a request is made, and the reads that follow it:   *)
(* of the flags of a group one is up, as long as its card is there.        *)
Flag(c) == IF c.kind = "profile" THEN c.arg.of ELSE IF c.kind = "load" THEN c.arg ELSE c.kind
Held(c) == IF part = "danger" THEN ~hist.left ELSE Here(c)
Groups == {Factor, {"create"}, {"demo"}}
FlagInv ==
  \A G \in Groups : \A c, d \in calls :
    Held(c) /\ Held(d) /\ Flag(c) \in G /\ Flag(d) \in G => c = d /\ Flag(c) \in busy

(* The card shows what its part may show. *)
CardInv ==
  /\ DOMAIN card = CardFields
  /\ card.step = "setup" => part = "profile"
  /\ card.step = "backup-codes" => hist.seen = card.codes
  /\ card.question # None => part = "danger" /\ card.question \in Resets \cup {"demo"}

(* A token is made only while none is shown. *)
TokenInv ==
  /\ hist.heard \subseteq Rows /\ (part # "list" => hist.heard = {})
  /\ \A c \in calls : c.kind = "create" /\ Here(c) => card.revealed = None

(* Codes that were not shown are on their way. *)
Shows(c) == Flag(c) = "enable" /\ c.kind \in {"enable", "profile"}
CodesInv ==
  ~hist.failed /\ ~hist.left =>
    /\ truth.profile.on => hist.seen = truth.codes \/ \E c \in calls : Shows(c)
    /\ \A c \in calls :
         /\ c.got # None => c.got.ok /\ (c.kind = "enable" => c.got.codes = truth.codes)
         /\ c.kind = "profile" /\ c.arg.of = "enable" => c.arg.codes = truth.codes

IInv ==
  /\ CallInv /\ FlagInv /\ CardInv /\ TokenInv /\ CodesInv
  /\ NoTokenIsLost /\ ConfirmedForThisQuestion
=============================================================================
