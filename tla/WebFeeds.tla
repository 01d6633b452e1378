-------------------------------- MODULE WebFeeds --------------------------------
(***************************************************************************)
(* The two lists of movements of the web client: the cash flow and the     *)
(* transactions of the portfolio.  A list is loaded page by page under     *)
(* filters that the user changes while answers are on their way, and rows  *)
(* are deleted under it.  A page holds one row.                            *)
(***************************************************************************)
EXTENDS Integers, Sequences, FiniteSets, SequencesExt

CONSTANTS
  Rows,      \* rows at the server, numbers in the order of the list
  Filters,   \* what can be asked for
  Matches,   \* Matches[f]: the rows that f selects
  MaxLoads,  \* bound: requests for pages
  None

FeedsAssumption ==
  Rows \subseteq Nat /\ Matches \in [Filters -> SUBSET Rows] /\ MaxLoads \in Nat

VARIABLES
  feed,       \* "cashflow" or "asset"
  filters,    \* the filters on the screen
  debounced,  \* the filters after the debounce
  timer,      \* the debounce is running
  draft,      \* the filters in the open sheet, or None
  list,       \* the rows shown
  hasMore, page, loading,
  newest,     \* number of the newest request
  loads,      \* requests on their way
  rows,       \* rows at the server
  dying,      \* deletions on their way: [row, at]
  clean,      \* history: no row was deleted under a list that was still incomplete
  mixed       \* history: a page was lost, or asked for while the filters changed

vars == <<feed, filters, debounced, timer, draft, list, hasMore, page, loading, newest,
          loads, rows, dying, clean, mixed>>
chosen == <<filters, debounced, timer, draft>>
shown == <<list, hasMore, page>>

TypeOK ==
  /\ feed \in {"cashflow", "asset"} /\ filters \in Filters /\ debounced \in Filters
  /\ draft \in Filters \cup {None} /\ timer \in BOOLEAN
  /\ \A i \in DOMAIN list : list[i] \in Rows
  /\ hasMore \in BOOLEAN /\ loading \in BOOLEAN /\ page \in 1..Cardinality(Rows) + 1
  /\ newest \in 0..MaxLoads /\ rows \subseteq Rows
  /\ \A q \in loads : q.n \in 1..newest /\ q.at \in {"sent", "ok", "failed"}
  /\ \A p, q \in loads : feed = "cashflow" /\ ~p.all /\ ~q.all => p = q
  /\ clean \in BOOLEAN /\ mixed \in BOOLEAN

(***************************************************************************)
(* Requests                                                                *)
(***************************************************************************)
Matching(f) == SetToSortSeq(rows \cap Matches[f], <)
PageOf(f, p) == IF p <= Len(Matching(f)) THEN <<Matching(f)[p]>> ELSE <<>>

(* Mutant: nothing is aborted. *)
StillRunningAll == {q \in loads : q.n > 0}

(* A newer page of the cash flow aborts the older one, nothing else does. *)
StillRunning == {q \in loads : feed = "asset" \/ q.all}

Load(p, f, all, others) ==
  /\ newest < MaxLoads
  /\ newest' = newest + 1 /\ loading' = TRUE
  /\ loads' = others \cup
       {[n |-> newest + 1, filter |-> f, page |-> p, all |-> all, got |-> <<>>,
         more |-> FALSE, clean |-> p = 1 \/ clean, early |-> timer', at |-> "sent"]}

LoadPage(p, f) == Load(p, f, FALSE, StillRunning)

LoadCfFeed == feed = "cashflow" /\ LoadPage(1, debounced)

Init ==
  /\ feed \in {"cashflow", "asset"}
  /\ filters \in Filters /\ debounced = filters /\ timer = FALSE /\ draft = None
  /\ list = <<>> /\ hasMore = FALSE /\ page = 1 /\ loading = TRUE
  /\ newest = 1 /\ rows = Rows /\ dying = {} /\ clean = TRUE /\ mixed = FALSE
  /\ loads = {[n |-> 1, filter |-> filters, page |-> 1, all |-> FALSE, got |-> <<>>,
               more |-> FALSE, clean |-> TRUE, early |-> FALSE, at |-> "sent"]}

(***************************************************************************)
(* Filters                                                                 *)
(***************************************************************************)
(* The page of the cash flow loads at once under the old filters, because  *)
(* the loader changed, and again after the debounce.                       *)
SetFilters(f) ==
  /\ filters' = f /\ timer' = TRUE
  /\ IF feed = "cashflow" THEN LoadCfFeed ELSE UNCHANGED <<newest, loading, loads>>
  /\ UNCHANGED <<feed, debounced, shown, rows, dying, clean, mixed>>

EditFilters(f) == draft = None /\ f # filters /\ SetFilters(f) /\ UNCHANGED draft
EditTxFilters(f) == feed = "asset" /\ EditFilters(f)
(* The controls of the period and of the kinds of the cash flow. *)
PageMonth(f) == feed = "cashflow" /\ EditFilters(f)
PickMonth(f) == feed = "cashflow" /\ EditFilters(f)
ChoosePeriod(f) == feed = "cashflow" /\ EditFilters(f)
ShowView(f) == feed = "cashflow" /\ EditFilters(f)
ToggleType(f) == feed = "cashflow" /\ EditFilters(f)
ReviewUnverified(f) == feed = "cashflow" /\ EditFilters(f)

OpenFilters ==
  /\ draft = None /\ draft' = filters
  /\ UNCHANGED <<feed, filters, debounced, timer, shown, loading, newest, loads, rows, dying, clean, mixed>>
DraftFilters(f) ==
  /\ draft # None /\ f # draft /\ draft' = f
  /\ UNCHANGED <<feed, filters, debounced, timer, shown, loading, newest, loads, rows, dying, clean, mixed>>
DraftCfFilters(f) == feed = "cashflow" /\ DraftFilters(f)
DraftTxFilters(f) == feed = "asset" /\ DraftFilters(f)
ApplyFilters == draft # None /\ draft' = None /\ SetFilters(draft)
DiscardFilters ==
  /\ draft # None /\ draft' = None
  /\ UNCHANGED <<feed, filters, debounced, timer, shown, loading, newest, loads, rows, dying, clean, mixed>>

(* The portfolio reloads only if a filter really differs. *)
DebounceFires ==
  /\ timer /\ timer' = FALSE /\ debounced' = filters
  /\ IF feed = "asset" /\ debounced = filters THEN UNCHANGED <<newest, loading, loads>>
     ELSE LoadPage(1, filters)
  /\ UNCHANGED <<feed, filters, draft, shown, rows, dying, clean, mixed>>

(***************************************************************************)
(* Pages                                                                   *)
(***************************************************************************)
Askable == hasMore /\ ~loading /\ draft = None

More(p, all, others) ==
  /\ Askable
  /\ UNCHANGED <<feed, chosen, shown, rows, dying, clean, mixed>>
  /\ Load(p, filters, all, others)
LoadMoreCf == feed = "cashflow" /\ More(page + 1, FALSE, StillRunning)
LoadMoreAssetTx == feed = "asset" /\ More(page + 1, FALSE, StillRunning)
LoadAllCf == feed = "cashflow" /\ More(1, TRUE, loads)
LoadAllAssetTx == feed = "asset" /\ More(1, TRUE, loads)

(* After a form was left, after a row was verified, when the page is pulled. *)
Reload ==
  /\ UNCHANGED <<feed, chosen, shown, rows, dying, clean, mixed>>
  /\ LoadPage(1, filters)
PullRefresh == draft = None /\ Reload
FormLeft == Reload

(* What the server answers to the parameters of a request. *)
Serve(q) ==
  /\ q.at = "sent"
  /\ LET rest == q.page < Len(Matching(q.filter))
         got == q.got \o PageOf(q.filter, q.page)
     IN loads' = (loads \ {q}) \cup
          {IF q.all /\ rest THEN [q EXCEPT !.got = got, !.page = @ + 1]
           ELSE [q EXCEPT !.got = got, !.more = rest, !.at = "ok"]}
  /\ UNCHANGED <<feed, chosen, shown, loading, newest, rows, dying, clean, mixed>>
Fail(q) ==
  /\ q.at = "sent"
  /\ loads' = (loads \ {q}) \cup {[q EXCEPT !.at = "failed"]}
  /\ UNCHANGED <<feed, chosen, shown, loading, newest, rows, dying, clean, mixed>>


IsCurrent(q) == q.at = "ok" /\ q.n = newest

(* Mutant: a failed request leaves the flag up. *)
LoweredOnSuccess(q) == IF q.at = "ok" /\ q.n = newest THEN FALSE ELSE loading

(* A page of the cash flow lowers the flag if it is the newest request; a  *)
(* load of all pages, and every load of the portfolio, does it anyway.     *)
Lowered(q) == IF feed = "cashflow" /\ ~q.all /\ q.n # newest THEN loading ELSE FALSE

HearLoad(q) ==
  /\ q.at # "sent"
  /\ loads' = loads \ {q} /\ loading' = Lowered(q)
  /\ LET whole == q.all \/ q.page = 1
     IN IF IsCurrent(q)
        THEN /\ list' = IF whole THEN q.got ELSE list \o q.got
             /\ hasMore' = (~q.all /\ q.more)
             /\ page' = IF q.all THEN page ELSE q.page
             /\ clean' = q.clean /\ mixed' = (q.early \/ (mixed /\ ~whole))
        ELSE /\ UNCHANGED <<shown, clean>>
             /\ mixed' = (mixed \/ q.n = newest \/ ~Lowered(q))
  /\ UNCHANGED <<feed, chosen, newest, rows, dying>>

(***************************************************************************)
(* Deleting a row                                                          *)
(***************************************************************************)
AskDelete(r) ==
  /\ draft = None /\ r \in ToSet(list) /\ r \notin {d.row : d \in dying}
  /\ dying' = dying \cup {[row |-> r, at |-> "sent"]}
  /\ UNCHANGED <<feed, chosen, shown, loading, newest, loads, rows, clean, mixed>>
DeleteCfExpense(r) == feed = "cashflow" /\ AskDelete(r)
DeleteCfSplitSettlement(r) == feed = "cashflow" /\ AskDelete(r)
DeleteAssetTx(r) == feed = "asset" /\ AskDelete(r)

(* Pages that were cut before the row went do not fit those cut after. *)
ServeDelete(d) ==
  /\ d.at = "sent"
  /\ \/ /\ rows' = rows \ {d.row} /\ dying' = (dying \ {d}) \cup {[d EXCEPT !.at = "ok"]}
        /\ loads' = {[q EXCEPT !.clean = @ /\ q.at = "sent" /\ q.page = 1] : q \in loads}
        /\ clean' = (clean /\ ~hasMore)
     \/ rows' = rows /\ dying' = dying \ {d} /\ UNCHANGED <<loads, clean>>
  /\ UNCHANGED <<feed, chosen, shown, loading, newest, mixed>>

(* Mutant: the row of a deletion stays in the list. *)
KeptAsItIs(r) == list

Without(r) == SelectSeq(list, LAMBDA x : x # r)

(* The cash flow removes the row, the portfolio reloads. *)
DeleteCfTx(d) ==
  /\ feed = "cashflow" /\ d.at = "ok"
  /\ dying' = dying \ {d} /\ list' = Without(d.row)
  /\ UNCHANGED <<feed, chosen, hasMore, page, loading, newest, loads, rows, clean, mixed>>
DeleteTx(d) ==
  /\ feed = "asset" /\ d.at = "ok"
  /\ dying' = dying \ {d}
  /\ UNCHANGED <<feed, chosen, shown, rows, clean, mixed>>
  /\ LoadPage(1, debounced)

Next ==
  \/ \E f \in Filters : \/ EditFilters(f) \/ EditTxFilters(f) \/ PageMonth(f) \/ PickMonth(f)
                        \/ ChoosePeriod(f) \/ ShowView(f) \/ ToggleType(f) \/ ReviewUnverified(f)
                        \/ DraftCfFilters(f) \/ DraftTxFilters(f)
  \/ OpenFilters \/ ApplyFilters \/ DiscardFilters \/ DebounceFires
  \/ LoadMoreCf \/ LoadMoreAssetTx \/ LoadAllCf \/ LoadAllAssetTx \/ PullRefresh \/ FormLeft
  \/ \E q \in loads : Serve(q) \/ Fail(q) \/ HearLoad(q)
  \/ \E r \in Rows : DeleteCfExpense(r) \/ DeleteCfSplitSettlement(r) \/ DeleteAssetTx(r)
  \/ \E d \in dying : ServeDelete(d) \/ DeleteCfTx(d) \/ DeleteTx(d)

(* Every request is answered or fails, and its handler runs. *)
Answer == \E q \in loads : Serve(q) \/ Fail(q) \/ HearLoad(q)
Spec == Init /\ [][Next]_vars /\ WF_vars(Answer)

(***************************************************************************)
(* Properties                                                              *)
(***************************************************************************)
(* At rest the list shows the first rows of the filters on the screen, in  *)
(* order, none twice, and all of them if nothing more is offered, whatever *)
(* requests overtook each other.  Excepted are a page that failed, was     *)
(* asked for under a flag lowered too early or before the debounce ended,  *)
(* and a row deleted while pages were still to be loaded.                  *)
ListIsComplete ==
  loads = {} /\ dying = {} /\ ~timer /\ ~mixed /\ clean =>
    /\ IsPrefix(list, Matching(filters))
    /\ ~hasMore => list = Matching(filters)

Working == loading

(* The list stops loading, also when requests fail or are overtaken.       *)
LoadingEnds == Working ~> ~Working
=============================================================================
