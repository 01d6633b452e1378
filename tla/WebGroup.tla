-------------------------------- MODULE WebGroup --------------------------------
(***************************************************************************)
(* The screen of one group of shared expenses: its picture is read in one  *)
(* load; the roster with the balances, and the suggested payments, are     *)
(* read again on their own.  The user may leave for the overview or follow *)
(* a link into another group while any of it is on its way.                *)
(***************************************************************************)
EXTENDS Integers

CONSTANTS
  Groups,
  MaxChanges,  \* bound: changes of the groups on the server
  MaxReads,    \* bound: reads of any kind
  None

GroupAssumption ==
  /\ {MaxChanges, MaxReads} \subseteq Nat
  /\ None \notin Groups /\ None \notin {"money", "member"}
  /\ None \notin [of : Groups, rev : 0..MaxChanges]

VARIABLES
  rev,         \* rev[g]: how often the group has changed on the server
  selected,    \* the group on the screen, or None
  detail,      \* what is shown: [of, rev] or None
  roster,      \* the members and the balances: [of, rev] or None
  suggested,   \* the suggested payments: [of, rev] or None
  reads,       \* reads on their way
  nReads,
  loading, simplifying,
  changes,     \* changes I asked for, on their way
  dialog,      \* None, "money" (an expense, a settlement) or "member"
  busy,        \* the kinds of changes whose button shows it is at work
  pending,     \* the group of the expense to be opened for an edit, or None
  link,        \* a link followed into the screens: the group it leads to, or None
  mine,        \* history: mine[g], the newest change of mine that was confirmed
  crossed,     \* history: a group was read on the screen of another, or by two reads at once
  failed       \* history: a read of the picture shown has failed

vars == <<rev, selected, detail, roster, suggested, reads, nReads, loading, simplifying, changes,
          dialog, busy, pending, link, mine, crossed, failed>>
shown == <<detail, roster, suggested>>
history == <<mine, crossed, failed>>
screen == <<dialog, busy, pending, link>>

Pictures == [of : Groups, rev : 0..MaxChanges] \cup {None}
Kinds == {"money", "member"}
ReadKinds == {"load", "roster", "simplify"}
Reads == [kind : ReadKinds, of : Groups, since : 0..MaxChanges]
Changes == [kind : Kinds, of : Groups, back : Groups]
InFlight(k) == {r \in reads : r.kind = k}

RevType ==
  /\ rev \in [Groups -> 0..MaxChanges] /\ mine \in [Groups -> 0..MaxChanges]
  /\ \A g \in Groups : mine[g] <= rev[g]
PictureType ==
  /\ selected \in Groups \cup {None}
  /\ detail \in Pictures /\ roster \in Pictures /\ suggested \in Pictures
  /\ selected = None => detail = None /\ dialog = None
  /\ detail # None => detail.rev <= rev[detail.of]
  /\ roster # None => roster.rev <= rev[roster.of]
ReadType ==
  /\ nReads \in 0..MaxReads /\ loading \in BOOLEAN /\ simplifying \in BOOLEAN
  /\ crossed \in BOOLEAN /\ failed \in BOOLEAN
  /\ \A r \in reads : /\ r \in Reads /\ r.since <= rev[r.of]
                      /\ (r.kind = "load" => loading /\ selected # None)
                      /\ (r.kind = "simplify" => simplifying)
  /\ \A r, s \in reads : r.kind = s.kind => r = s
ScreenType ==
  /\ dialog \in Kinds \cup {None} /\ (dialog # None => detail # None) /\ busy \subseteq Kinds
  /\ pending \in Groups \cup {None} /\ link \in Groups \cup {None} /\ changes \subseteq Changes
TypeOK == RevType /\ PictureType /\ ReadType /\ ScreenType

Init ==
  /\ rev = [g \in Groups |-> 0] /\ selected = None /\ detail = None /\ roster = None
  /\ suggested = None /\ reads = {} /\ nReads = 0 /\ loading = FALSE /\ simplifying = FALSE
  /\ changes = {} /\ dialog = None /\ busy = {} /\ pending = None
  /\ link \in Groups \cup {None} /\ mine = [g \in Groups |-> 0]
  /\ crossed = FALSE /\ failed = FALSE

(***************************************************************************)
(* Reading                                                                 *)
(***************************************************************************)
(* Mutant: the read before is not aborted. *)
KeepsAll(k) == reads

Others(k) == {r \in reads : r.kind # k}

(* A new read of a kind aborts the one before it, and nothing else. *)
Begin(k, g) ==
  /\ nReads < MaxReads /\ nReads' = nReads + 1
  /\ reads' = Others(k) \cup {[kind |-> k, of |-> g, since |-> rev'[g]]}
  /\ crossed' = \/ crossed \/ Others(k) # {}
                \/ IF detail = None THEN selected' # g ELSE detail.of # g

(* Mutant: the suggestions are kept while the group is read again. *)
KeptMeanwhile == suggested

AfterLoadBegins == None

Read(g) ==
  /\ selected' = g /\ loading' = TRUE /\ failed' = FALSE /\ suggested' = AfterLoadBegins
  /\ Begin("load", g) /\ UNCHANGED <<detail, roster, simplifying>>
LoadSplitGroupDetail(g) == UNCHANGED <<rev, mine>> /\ Read(g)

(* The button of the suggestions is off while they are computed. *)
LoadSplitGroupSimplify ==
  /\ selected # None /\ detail # None /\ dialog = None /\ ~simplifying
  /\ UNCHANGED <<rev, selected, detail, roster, suggested, loading, changes, screen, mine, failed>>
  /\ Begin("simplify", selected) /\ simplifying' = TRUE

(* The server reads at some moment between the request and its answer.     *)
Picture(r) == {[of |-> r.of, rev |-> v] : v \in r.since..rev[r.of]}

(* An expense that waited for its group opens with it. *)
HearDetail(r) ==
  /\ r.kind = "load" /\ reads' = reads \ {r} /\ loading' = FALSE
  /\ \E p \in Picture(r) : detail' = p /\ roster' = p
  /\ IF pending = r.of THEN dialog' = "money" /\ pending' = None
     ELSE UNCHANGED <<dialog, pending>>
  /\ UNCHANGED <<rev, selected, suggested, nReads, simplifying, changes, busy, link, mine, crossed, failed>>

(* Mutant: the suggestions outlive the roster they were computed for. *)
KeptOverRoster == suggested

AfterRoster == None

HearMembers(r) ==
  /\ r.kind = "roster" /\ reads' = reads \ {r}
  /\ roster' \in Picture(r) /\ suggested' = AfterRoster
  /\ UNCHANGED <<rev, selected, detail, nReads, loading, simplifying, changes, screen, history>>

HearSimplified(r) ==
  /\ r.kind = "simplify" /\ reads' = reads \ {r} /\ simplifying' = FALSE
  /\ suggested' \in Picture(r)
  /\ UNCHANGED <<rev, selected, detail, roster, nReads, loading, changes, screen, history>>

(* Mutant: the flag of a load stays up after an error. *)
LoweredOnSuccess(flag, r, k) == flag

Lowered(flag, r, k) == flag /\ r.kind # k

HearError(r) ==
  /\ reads' = reads \ {r} /\ failed' = (failed \/ r.kind # "simplify")
  /\ loading' = Lowered(loading, r, "load") /\ simplifying' = Lowered(simplifying, r, "simplify")
  /\ UNCHANGED <<rev, selected, shown, nReads, changes, screen, mine, crossed>>

(***************************************************************************)
(* Coming and going                                                        *)
(***************************************************************************)
(* A card, a settlement or an expense of the overview. *)
OpenGroup(g) ==
  /\ selected = None /\ LoadSplitGroupDetail(g)
  /\ pending' \in {pending, g} /\ UNCHANGED <<changes, dialog, busy, link>>

(* The lookup of a link is answered, whatever the user has opened since. *)
HearLink ==
  /\ link # None /\ link' = None
  /\ LoadSplitGroupDetail(link)
  /\ pending' \in {pending, link} /\ UNCHANGED <<changes, dialog, busy>>

(* Mutant: leaving a group drops no read of it. *)
StillReading == reads

Dropped == {}

(* The dialogs and their flags are gone with the screen, the reads that    *)
(* are dropped lower no flag.                                              *)
ClearSplitGroupDetail ==
  /\ selected # None /\ detail # None /\ dialog = None
  /\ selected' = None /\ detail' = None /\ roster' = None /\ suggested' = None
  /\ reads' = Dropped /\ busy' = {} /\ failed' = FALSE
  /\ UNCHANGED <<rev, nReads, loading, simplifying, changes, dialog, pending, link, mine, crossed>>

PullToRefresh ==
  /\ selected # None /\ detail # None /\ dialog = None /\ LoadSplitGroupDetail(selected)
  /\ UNCHANGED <<changes, screen>>

(***************************************************************************)
(* Changing the group                                                      *)
(***************************************************************************)
OpenDialog(k) ==
  /\ selected # None /\ detail # None /\ dialog = None /\ dialog' = k
  /\ UNCHANGED <<rev, selected, shown, reads, nReads, loading, simplifying, changes, busy, pending, link, history>>
OpenMoney == OpenDialog("money")
OpenMember == OpenDialog("member")
CloseDialog ==
  /\ dialog # None /\ dialog' = None
  /\ UNCHANGED <<rev, selected, shown, reads, nReads, loading, simplifying, changes, busy, pending, link, history>>

(* Adding or removing a member, saving an expense or a settlement,         *)
(* deleting either: one request; members are those of the group selected,  *)
(* the rest belongs to the group shown.                                    *)
Ready == dialog # None /\ dialog \notin busy
Confirm ==
  /\ Ready
  /\ changes' = changes \cup {[kind |-> dialog, of |-> IF dialog = "member" THEN selected ELSE detail.of,
                               back |-> selected]}
  /\ busy' = busy \cup {dialog}
  /\ UNCHANGED <<rev, selected, shown, reads, nReads, loading, simplifying, dialog, pending, link, history>>
SomebodyElseChanges(g) ==
  /\ rev[g] < MaxChanges /\ rev' = [rev EXCEPT ![g] = @ + 1]
  /\ UNCHANGED <<selected, shown, reads, nReads, loading, simplifying, changes, screen, history>>

Done(c) ==
  /\ changes' = changes \ {c}
  /\ busy' = busy \ {c.kind} /\ dialog' = IF dialog = c.kind THEN None ELSE dialog
Applied(c) ==
  /\ rev[c.of] < MaxChanges
  /\ rev' = [rev EXCEPT ![c.of] = @ + 1] /\ mine' = [mine EXCEPT ![c.of] = rev[c.of] + 1]
  /\ Done(c)

(* The roster is read again before the dialog closes. *)
HearMemberChange(c) ==
  /\ c.kind = "member" /\ Applied(c)
  /\ UNCHANGED <<selected, shown, loading, simplifying, pending, link, failed>>
  /\ Begin("roster", c.of)

(* Mutant: the screen is not read again after a change. *)
ReadsNothing(c) ==
  UNCHANGED <<selected, shown, reads, nReads, loading, simplifying, crossed, failed>>

(* The whole picture is read again, of the group that was selected then,   *)
(* also if the user has left it meanwhile.                                 *)
RefreshAfter(c) == Read(c.back)

HearChange(c) ==
  /\ c.kind # "member" /\ Applied(c) /\ RefreshAfter(c)
  /\ UNCHANGED <<pending, link>>

(* A settlement that could not be deleted is treated like one that was.    *)
HearKeptSettlement(c) ==
  /\ c.kind = "money" /\ UNCHANGED <<rev, mine, pending, link>>
  /\ Done(c) /\ RefreshAfter(c)

(* A failed deletion of an expense throws: its flag stays up and its       *)
(* question open.                                                          *)
HearRefusal(c) ==
  /\ changes' = changes \ {c}
  /\ busy' \in IF c.kind = "money" THEN {busy, busy \ {c.kind}} ELSE {busy \ {c.kind}}
  /\ UNCHANGED <<rev, selected, shown, reads, nReads, loading, simplifying, dialog, pending, link, history>>

Next ==
  \/ LoadSplitGroupSimplify \/ HearLink \/ ClearSplitGroupDetail \/ PullToRefresh
  \/ OpenMoney \/ OpenMember \/ CloseDialog \/ Confirm
  \/ \E g \in Groups : OpenGroup(g) \/ SomebodyElseChanges(g)
  \/ \E r \in reads :
       HearDetail(r) \/ HearMembers(r) \/ HearSimplified(r) \/ HearError(r)
  \/ \E c \in changes : HearMemberChange(c) \/ HearChange(c) \/ HearKeptSettlement(c) \/ HearRefusal(c)

Answer == \E r \in reads :
  HearDetail(r) \/ HearMembers(r) \/ HearSimplified(r) \/ HearError(r)
Spec == Init /\ [][Next]_vars /\ WF_vars(Answer)

(***************************************************************************)
(* Properties                                                              *)
(***************************************************************************)
(* "One group's full picture: detail + roster + balances": the group on    *)
(* the screen, its members, its balances and its suggested payments are    *)
(* of one group.                                                           *)
OneGroupsPicture ==
  /\ detail # None /\ roster # None => detail.of = roster.of
  /\ detail # None /\ suggested # None => detail.of = suggested.of

(* The same, unless a group was read on the screen of another one, or by   *)
(* two reads at once.                                                      *)
OnePictureUnlessCrossed == ~crossed => OneGroupsPicture

(* Suggested payments are never older than the balances beside them: they  *)
(* would "no longer reflect reality".  With the same exceptions.           *)
SuggestionsOfTheseBalances ==
  ~crossed /\ suggested # None /\ roster # None => suggested.rev >= roster.rev

(* What is shown is never replaced by an older picture of the same group.  *)
NoOlderPicture ==
  detail # None /\ detail' # None /\ detail.of = detail'.of => detail'.rev >= detail.rev
PictureNeverOlder == [][NoOlderPicture]_vars

(* Once everything is answered, the balances on the screen of a group are  *)
(* not older than my own newest change of it, with the same exceptions.    *)
MyChangesAreShown ==
  reads = {} /\ changes = {} /\ ~failed /\ ~crossed /\ roster # None =>
    roster.rev >= mine[roster.of]

Working == loading /\ selected # None

(* A group that is being read is read at last, or is left. *)
LoadingEnds == Working ~> ~Working

(***************************************************************************)
(* The inductive invariant                                                 *)
(***************************************************************************)
(* A load that is on its way cannot answer with less than what is shown.   *)
LoadInv ==
  \A r \in reads : r.kind = "load" /\ detail # None /\ detail.of = r.of => r.since >= detail.rev

(* Until something crosses there is one read at a time, of the group that  *)
(* is selected, which is the one shown.                                    *)
SelectedInv ==
  ~crossed =>
    /\ \A r, s \in reads : r = s
    /\ \A r \in reads : r.of = selected
    /\ detail # None => detail.of = selected
    /\ \A c \in changes : c.of = c.back

(* The payments are computed for the roster that is shown.                 *)
PaymentsInv ==
  ~crossed =>
    /\ detail # None => roster # None /\ roster.of = detail.of
    /\ suggested # None => detail # None /\ suggested.of = detail.of
    /\ \A r \in reads :
         /\ r.kind = "load" => suggested = None
         /\ r.kind = "simplify" => detail # None /\ r.since >= roster.rev

(* What I changed is shown, or being read.                                 *)
MineInv ==
  ~crossed =>
    /\ \A r \in reads : r.kind # "simplify" => r.since >= mine[r.of]
    /\ roster # None /\ ~failed => \/ roster.rev >= mine[roster.of]
                                   \/ \E r \in reads : r.kind # "simplify"

IInv ==
  /\ RevType /\ PictureType /\ ReadType /\ ScreenType /\ LoadInv /\ SelectedInv /\ PaymentsInv
  /\ MineInv /\ OnePictureUnlessCrossed /\ SuggestionsOfTheseBalances /\ MyChangesAreShown
=============================================================================
