----------------------------- MODULE WebPreferences -----------------------------
(***************************************************************************)
(* The preferences of a user in the web client.  The dashboard layout and  *)
(* its view settings are changed on the screen at once; their PATCHes are  *)
(* debounced and sent one after the other.  Every other setting is a PATCH *)
(* of its own, whose answer replaces everything the screen shows.          *)
(***************************************************************************)
EXTENDS Integers, FiniteSets, SequencesExt

CONSTANTS
  Accounts,
  Catalog,      \* the dashboard cards of this release, in their default order
  Retired,      \* cards of earlier releases
  Layouts0,     \* layouts that accounts have saved before
  Features,     \* settings sent as a whole object
  Switches,     \* settings sent one key at a time, shown before they are saved
  MaxChoices,   \* bound: choices of the user
  None

PreferencesAssumption ==
  /\ Len(Catalog) > 0 /\ IsInjective(Catalog) /\ Retired \cap Range(Catalog) = {}
  /\ MaxChoices \in Nat

VARIABLES
  me,       \* the account signed in
  saved,    \* saved[a]: the profile on the server
  shown,    \* the profile on the screen
  pending,  \* profilePatchQueueRef: what the debounce timer will send
  chain,    \* PATCHes of the queue that wait for their turn
  calls,    \* the other PATCHes on their way
  chosen,   \* history: the last layout and view settings chosen by `me`
  choices,  \* how many choices were made
  failed,   \* history: a request failed
  crossed   \* history: an answer arrived while another change was on its way

vars == <<me, saved, shown, pending, chain, calls, chosen, choices, failed, crossed>>

Card == [id : Range(Catalog) \cup Retired, visible : BOOLEAN]
Views == {"year", "compare"}
Metrics == {{"wealth"}, {"wealth", "goal"}}   \* never the goal alone
Profile == [layout : Seq(Card), overview : Views, metrics : Metrics,
            features : SUBSET Features, switches : SUBSET Switches]
Fields == {"layout", "overview", "metrics"}
Nothing == [layout |-> None, overview |-> None, metrics |-> None]

TypeOK ==
  /\ me \in Accounts
  /\ saved \in [Accounts -> Profile] /\ shown \in Profile
  /\ DOMAIN pending.body = Fields /\ pending.armed \in BOOLEAN
  /\ pending.armed <=> pending.body # Nothing
  /\ \A i \in 1..Len(chain) : chain[i].body # Nothing /\ (chain[i].at = "sent" => i = 1)
  /\ \A c \in calls : c.at \in {"sent", "ok", "failed"} /\ c.answer \in Profile
  /\ choices \in 0..MaxChoices /\ failed \in BOOLEAN /\ crossed \in BOOLEAN

(***************************************************************************)
(* The layout                                                              *)
(***************************************************************************)
AllVisible(ids) == [i \in DOMAIN ids |-> [id |-> ids[i], visible |-> TRUE]]
Ids(cards) == {cards[i].id : i \in DOMAIN cards}
DefaultLayout == AllVisible(Catalog)

(* Mutant: a card saved twice is kept twice. *)
KeptTwice(cards) == SelectSeq(cards, LAMBDA c : c.id \notin Retired)

Kept(cards) ==
  FoldLeft(LAMBDA kept, c : IF c.id \in Retired \cup Ids(kept) THEN kept ELSE Append(kept, c),
           <<>>, cards)

(* mergeDashConfig: retired and repeated cards are dropped, new ones come  *)
(* after the first two.                                                    *)
MergeDashConfig(cards) ==
  LET kept == Kept(cards)
      new == SelectSeq(DefaultLayout, LAMBDA c : c.id \notin Ids(kept))
      n == IF Len(kept) < 2 THEN Len(kept) ELSE 2
  IN IF kept = <<>> THEN DefaultLayout
     ELSE SubSeq(kept, 1, n) \o new \o SubSeq(kept, n + 1, Len(kept))

Blank == [layout |-> DefaultLayout, overview |-> "year", metrics |-> {"wealth"},
          features |-> Features, switches |-> {}]

(* applyProfileData: the whole screen follows the answer. *)
Applied(profile) == [profile EXCEPT !.layout = MergeDashConfig(@)]

Init ==
  /\ me \in Accounts
  /\ saved \in [Accounts -> {[Blank EXCEPT !.layout = cards] : cards \in Layouts0}]
  /\ shown = Applied(saved[me])
  /\ pending = [body |-> Nothing, armed |-> FALSE]
  /\ chain = <<>> /\ calls = {}
  /\ chosen = [f \in Fields |-> shown[f]]
  /\ choices = 0 /\ failed = FALSE /\ crossed = FALSE

Choose1 == choices < MaxChoices /\ choices' = choices + 1
Crossing == calls # {} \/ chain # <<>> \/ pending.armed

(***************************************************************************)
(* Dashboard layout and views                                              *)
(***************************************************************************)
(* Mutant: the later patch replaces what waits. *)
JoinedByReplacing(body, patch) == [patch EXCEPT !.layout = IF @ = None THEN body.layout ELSE @]

Joined(body, patch) == [f \in Fields |-> IF patch[f] = None THEN body[f] ELSE patch[f]]
(* queueProfilePatch: joins what waits and restarts the timer. *)
QueueProfilePatch(field, value) ==
  /\ Choose1
  /\ shown' = [shown EXCEPT ![field] = value]
  /\ pending' = [body |-> Joined(pending.body, [Nothing EXCEPT ![field] = value]),
                 armed |-> TRUE]
  /\ chosen' = [chosen EXCEPT ![field] = value]
  /\ crossed' = (crossed \/ calls # {})
  /\ UNCHANGED <<me, saved, chain, calls, failed>>

ToggleDashCard(i) ==
  QueueProfilePatch("layout", [shown.layout EXCEPT ![i].visible = ~@])

(* The buttons and the drag count the cards of enabled features only; a    *)
(* move swaps with the neighbour in the whole list.                        *)
MoveDashCard(i, dir) ==
  /\ i + dir \in DOMAIN shown.layout
  /\ QueueProfilePatch("layout", [shown.layout EXCEPT ![i] = shown.layout[i + dir],
                                                      ![i + dir] = shown.layout[i]])

Reordered(cards, ids) ==
  LET byId(id) == CHOOSE c \in Range(cards) : c.id = id
  IN [i \in DOMAIN ids |-> byId(ids[i])]
     \o SelectSeq(cards, LAMBDA c : c.id \notin Range(ids))

ReorderDashCards(from, to) ==
  LET ids == [i \in DOMAIN shown.layout |-> shown.layout[i].id]
      rest == RemoveAt(ids, from)
  IN from # to /\ QueueProfilePatch("layout", Reordered(shown.layout, InsertAt(rest, to, ids[from])))

ResetDashConfig == QueueProfilePatch("layout", DefaultLayout)
UpdateMonthlyOverviewPrefs == \E v \in Views : QueueProfilePatch("overview", v)

(* The last real series stays. *)
ToggleWealthMetric(m) ==
  LET rest == shown.metrics \ {m}
      next == IF m \notin shown.metrics THEN shown.metrics \cup {m}
              ELSE IF rest \ {"goal"} # {} THEN rest ELSE shown.metrics
  IN next # shown.metrics /\ QueueProfilePatch("metrics", next)

(* Mutant: the timer leaves the body where it was. *)
TimerOnly == [pending EXCEPT !.armed = FALSE]

EmptyQueue == [body |-> Nothing, armed |-> FALSE]

(* The debounce timer: what waits becomes the last link of the chain. *)
TimerFires ==
  /\ pending.armed
  /\ pending' = EmptyQueue
  /\ chain' = Append(chain, [body |-> pending.body, at |-> "waiting", by |-> me])
  /\ UNCHANGED <<me, saved, shown, calls, chosen, choices, failed, crossed>>

(* The request takes the token of the moment it starts. *)
SendNext ==
  /\ chain # <<>> /\ Head(chain).at = "waiting"
  /\ chain' = [chain EXCEPT ![1].at = "sent"]
  /\ UNCHANGED <<me, saved, shown, pending, calls, chosen, choices, failed, crossed>>

Patched(profile, body) ==
  [f \in DOMAIN profile |-> IF f \in Fields /\ body[f] # None THEN body[f] ELSE profile[f]]

(* A link that fails does not hold back the next one. *)
(* Mutant: the rejection runs through the chain. *)
Stuck == [chain EXCEPT ![1].at = "rejected"]

AfterFailure == Tail(chain)
ServeNext ==
  /\ chain # <<>> /\ Head(chain).at = "sent"
  /\ \/ saved' = [saved EXCEPT ![me] = Patched(@, Head(chain).body)]
        /\ chain' = Tail(chain) /\ failed' = failed
     \/ chain' = AfterFailure /\ failed' = TRUE /\ saved' = saved
  /\ UNCHANGED <<me, shown, pending, calls, chosen, choices, crossed>>

(***************************************************************************)
(* The other settings                                                      *)
(***************************************************************************)
Send(setting, value, before) ==
  /\ Choose1
  /\ calls' = calls \cup {[n |-> choices, setting |-> setting, value |-> value,
                           before |-> before, at |-> "sent", answer |-> Blank]}
  /\ crossed' = (crossed \/ Crossing)
  /\ UNCHANGED <<me, saved, pending, chain, chosen, failed>>

(* updateEnabledFeature, updatePrivacyPreference: the object shown at the  *)
(* click, with one key changed, is sent whole.                             *)
UpdateEnabledFeature(f) ==
  /\ Send("features", SymDiff(shown.features, {f}), {})
  /\ UNCHANGED shown

(* updateTransactionPreference: shown before it is saved. *)
UpdateTransactionPreference(k) ==
  /\ Send("switches", {k}, shown.switches)
  /\ shown' = [shown EXCEPT !.switches = SymDiff(@, {k})]

(* Name, decimal separator, first day of the month: nothing modelled here. *)
UpdateProfile == Send("name", {}, {}) /\ UNCHANGED shown

Stored(c, profile) ==
  CASE c.setting = "features" -> [profile EXCEPT !.features = c.value]
    [] c.setting = "switches" ->
         [profile EXCEPT !.switches = IF c.value \subseteq c.before THEN @ \ c.value
                                      ELSE @ \cup c.value]
    [] OTHER -> profile

ServeCall(c) ==
  /\ c.at = "sent"
  /\ \/ /\ saved' = [saved EXCEPT ![me] = Stored(c, @)]
        /\ calls' = (calls \ {c}) \cup {[c EXCEPT !.at = "ok", !.answer = saved'[me]]}
        /\ failed' = failed
     \/ /\ calls' = (calls \ {c}) \cup {[c EXCEPT !.at = "failed"]}
        /\ failed' = TRUE /\ saved' = saved
  /\ UNCHANGED <<me, shown, pending, chain, chosen, choices, crossed>>


RolledBack(c) == IF c.setting = "switches" THEN [shown EXCEPT !.switches = c.before] ELSE shown

HearCall(c) ==
  /\ c.at \in {"ok", "failed"}
  /\ calls' = calls \ {c}
  /\ shown' = IF c.at = "ok" THEN Applied(c.answer) ELSE RolledBack(c)
  /\ UNCHANGED <<me, saved, pending, chain, chosen, choices, failed, crossed>>

(* Signing out and in again: what waits is dropped, the chain is not. *)
SwitchAccount(a) ==
  /\ a # me /\ calls = {} /\ choices < MaxChoices
  /\ me' = a
  /\ pending' = EmptyQueue
  /\ shown' = Applied(saved[a])
  /\ chosen' = [f \in Fields |-> shown'[f]]
  /\ choices' = choices + 1
  /\ crossed' = (crossed \/ chain # <<>>)
  /\ UNCHANGED <<saved, chain, calls, failed>>

Next ==
  \/ \E i \in DOMAIN shown.layout :
       \/ ToggleDashCard(i)
       \/ \E d \in {-1, 1} : MoveDashCard(i, d)
       \/ \E j \in DOMAIN shown.layout : ReorderDashCards(i, j)
  \/ ResetDashConfig \/ UpdateMonthlyOverviewPrefs \/ \E m \in {"wealth", "goal"} : ToggleWealthMetric(m)
  \/ TimerFires \/ SendNext \/ ServeNext
  \/ \E f \in Features : UpdateEnabledFeature(f)
  \/ \E k \in Switches : UpdateTransactionPreference(k)
  \/ UpdateProfile
  \/ \E c \in calls : ServeCall(c) \/ HearCall(c)
  \/ \E a \in Accounts : SwitchAccount(a)

(* The timer fires and requests end, by an answer or by the timeout. *)
Fairness == WF_vars(TimerFires) /\ WF_vars(SendNext) /\ WF_vars(ServeNext)

Spec == Init /\ [][Next]_vars /\ Fairness

(***************************************************************************)
(* Properties                                                              *)
(***************************************************************************)
Quiet == ~Crossing

(* Whatever an account had saved, the screen shows each card of this       *)
(* release once and no retired one, after any sequence of moves, drags,    *)
(* resets and answers of the server.                                       *)
EveryCardShownOnce ==
  /\ Ids(shown.layout) = Range(Catalog)
  /\ Len(shown.layout) = Len(Catalog)

(* Once nothing is on its way the server holds the last layout and the     *)
(* last view settings the user chose, though several changes share one     *)
(* timer and the requests are sent one at a time.                          *)
LastChoiceIsSaved ==
  Quiet /\ ~failed /\ ~crossed =>
    \A f \in Fields : (chosen[f] = IF f = "layout" THEN MergeDashConfig(saved[me].layout)
                       ELSE saved[me][f])

(* Once nothing is on its way the screen shows what is saved, if every     *)
(* answer arrived before the next change was sent, failures included.      *)
ScreenShowsSaved ==
  Quiet /\ ~crossed =>
    /\ shown.features = saved[me].features /\ shown.switches = saved[me].switches
    /\ ~failed => shown = Applied(saved[me])

Working == pending.armed \/ chain # <<>>

(* A queued choice is sent in the end, also after a request that failed.   *)
EveryChoiceIsSent == Working ~> ~Working
=============================================================================
