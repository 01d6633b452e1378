-------------------------------- MODULE WebCache --------------------------------
(***************************************************************************)
(* What the pages show of the server: a query is read while a page wants   *)
(* it, kept in a cache under the account that is viewed and the period     *)
(* chosen, and marked stale by refreshAfter(reason) once a change was      *)
(* answered.  The queries do not depend on each other: a behaviour follows *)
(* one, chosen at the start.  The comparison of two years of the dashboard *)
(* reads for itself, outside the cache, when the refresh key is bumped.    *)
(***************************************************************************)
EXTENDS Naturals

CONSTANTS
  Queries,      \* the queries followed, one in a behaviour
  Pages,        \* pages gone to
  Reasons,      \* changes made
  Scopes,       \* accounts that can be viewed
  MaxSteps,     \* bound: changes made, and pages, accounts and periods gone to
  None

CacheAssumption ==
  /\ None \notin Scopes /\ MaxSteps \in Nat
  /\ Queries # {} /\ Pages # {} /\ Scopes # {}

Params == 1..2
Keys == Scopes \X Params

VARIABLES
  query,     \* the query followed
  page, scope, param,
  revision,  \* revision[s]: how often what the query shows of s has changed
  cache,     \* cache[k]: None, or [of, rev, fresh]
  reading,   \* reading[k]: None, or [of, since]: the one read on its way
  due,       \* due[k]: history: a change that the screen must show
  entered,   \* history: the revision when the accounts page was opened
  changes,   \* changes on their way: [of, reason, late]
  steps,
  year,      \* the year compared with this one, or None
  compared,  \* None, or the comparison on screen: [year, of, rev]
  compares,  \* reads of the comparison on their way: [year, of, since]
  loading,   \* the comparison's flag
  crossed    \* history: such a read was asked for while another was on its way

cacheVars == <<cache, reading>>
compareVars == <<year, compared, compares, loading, crossed>>
vars == <<query, page, scope, param, revision, cacheVars, due, entered, changes, steps, compareVars>>

(* Mutant: one cache for all accounts. *)
KeyForAll(s, p) == <<CHOOSE x \in Scopes : TRUE, p>>

KeyOf(s, p) == <<s, p>>

Key == KeyOf(scope, param)

TypeOK ==
  /\ query \in Queries /\ page \in Pages /\ scope \in Scopes /\ param \in Params
  /\ revision \in [Scopes -> 0..MaxSteps] /\ due \in [Keys -> 0..MaxSteps]
  /\ cache \in [Keys -> [of : Scopes, rev : 0..MaxSteps, fresh : BOOLEAN] \cup {None}]
  /\ reading \in [Keys -> [of : Scopes, since : 0..MaxSteps] \cup {None}]
  /\ (loading => compares # {})
  /\ steps \in 0..MaxSteps /\ entered \in 0..MaxSteps

(***************************************************************************)
(* Which page wants which query, and what a change touches                 *)
(***************************************************************************)
QueryNamesForPath(p) ==
  CASE p = "/dashboard" -> {"categories", "assets", "portfolioSummary", "investmentTypes", "trends",
                            "expSummary", "recurringStatus", "portfolioHistory", "monthlyOverview"}
    [] p = "/cashflow" -> {"categories", "assets"}
    [] p = "/accounts" -> {"assets", "investmentTypes", "trends"}
    [] p = "/portfolio" -> {"assets", "investmentTypes", "contributionSources"}
    [] p = "/split" -> {"categories", "assets"}
    [] p = "/settings/planning" -> {"categories", "assets", "investmentTypes", "contributionSources"}
    [] p = "/settings/data" -> {"categories", "assets"}
    [] OTHER -> {}

HasParam(q) == q \in {"expSummary", "portfolioHistory", "monthlyOverview"}
Active(k) == k = Key /\ query \in QueryNamesForPath(page)

ExpenseArea == {"expenses", "expSummary", "trends", "recurringStatus"}
(* Mutant: a movement does not refresh the accounts. *)
NoPortfolio(history, overview) == {}

PortfolioArea(history, overview) ==
  {"assets", "portfolioSummary"} \cup (IF history THEN {"portfolioHistory"} ELSE {})
                                 \cup (IF overview THEN {"monthlyOverview"} ELSE {})

RefreshAfter(reason) ==
  CASE reason \in {"EXPENSE", "RECURRING_GENERATED", "EXPENSES_RESET"} ->
         ExpenseArea \cup PortfolioArea(FALSE, TRUE)
    [] reason = "ASSET" -> PortfolioArea(TRUE, TRUE)
    [] reason = "PRICE" -> PortfolioArea(TRUE, FALSE)
    [] reason = "CATEGORY" -> {"categories"}
    [] reason = "CATEGORY_DELETED" -> {"categories"} \cup ExpenseArea
    [] reason = "INVESTMENT_TYPE" -> {"investmentTypes"}
    [] reason = "INVESTMENT_TYPE_DELETED" -> {"investmentTypes"} \cup PortfolioArea(FALSE, FALSE)
    [] reason = "CONTRIBUTION_SOURCE" -> {"contributionSources", "assets"}
    [] reason = "CONTRIBUTION_SOURCE_DELETED" -> {"contributionSources"} \cup PortfolioArea(TRUE, TRUE)
    [] reason \in {"ALLOCATION", "PORTFOLIO_RESET"} -> PortfolioArea(FALSE, FALSE)
    [] reason = "DEMO_LOADED" ->
         ExpenseArea \cup {"categories", "investmentTypes"} \cup PortfolioArea(FALSE, FALSE)
    [] reason = "CSV_IMPORTED" -> ExpenseArea

(* The server's side: what a change changes, and what an answer is made of.*)
Touched(reason) ==
  CASE reason \in {"EXPENSE", "RECURRING_GENERATED", "EXPENSES_RESET", "CSV_IMPORTED"} ->
         {"movements", "balances"}
    [] reason \in {"ASSET", "PORTFOLIO_RESET"} -> {"balances"}
    [] reason = "PRICE" -> {"prices"}
    [] reason = "CATEGORY" -> {"categories"}
    [] reason = "CATEGORY_DELETED" -> {"categories", "movements", "balances"}
    [] reason = "INVESTMENT_TYPE" -> {"types"}
    [] reason = "INVESTMENT_TYPE_DELETED" -> {"types", "balances"}
    [] reason = "CONTRIBUTION_SOURCE" -> {"sources"}
    [] reason = "CONTRIBUTION_SOURCE_DELETED" -> {"sources"}
    [] reason = "ALLOCATION" -> {"targets"}
    [] reason = "DEMO_LOADED" -> {"movements", "balances", "prices", "categories", "types", "sources"}

MadeOf(q) ==
  CASE q = "categories" -> {"categories"}
    [] q = "assets" -> {"balances", "prices", "types", "sources"}
    [] q = "portfolioSummary" -> {"balances", "prices", "types"}
    [] q = "portfolioHistory" -> {"balances", "prices"}
    [] q = "monthlyOverview" -> {"movements", "balances"}
    [] q = "expSummary" -> {"movements", "categories"}
    [] q \in {"trends", "recurringStatus"} -> {"movements"}
    [] q = "investmentTypes" -> {"types"}
    [] q = "contributionSources" -> {"sources"}

Affects(reason) == MadeOf(query) \cap Touched(reason) # {}

(* What the table of refreshAfter leaves stale, see the README.            *)
LeftOut ==
  {<<r, "portfolioHistory">> : r \in {"EXPENSE", "RECURRING_GENERATED", "EXPENSES_RESET"}} \cup
  {<<r, q>> : r \in {"CSV_IMPORTED", "CATEGORY_DELETED"},
              q \in {"assets", "portfolioSummary", "portfolioHistory", "monthlyOverview"}} \cup
  {<<"CATEGORY", "expSummary">>, <<"DEMO_LOADED", "contributionSources">>} \cup
  {<<"INVESTMENT_TYPE", q>> : q \in {"assets", "portfolioSummary"}} \cup
  {<<r, q>> : r \in {"INVESTMENT_TYPE_DELETED", "PORTFOLIO_RESET", "DEMO_LOADED"},
              q \in {"portfolioHistory", "monthlyOverview"}}

Init ==
  /\ query \in Queries /\ page \in Pages /\ scope \in Scopes /\ param = 1
  /\ revision = [s \in Scopes |-> 0] /\ due = [k \in Keys |-> 0] /\ entered = 0 /\ changes = {} /\ steps = 0
  /\ cache = [k \in Keys |-> None]
  /\ reading = [k \in Keys |-> IF Active(k) THEN [of |-> scope, since |-> 0] ELSE None]
  /\ compared = None /\ year = None /\ compares = {} /\ loading = FALSE /\ crossed = FALSE

(***************************************************************************)
(* Reading                                                                 *)
(***************************************************************************)
Fresh(k) == cache[k] # None /\ cache[k].fresh

(* A key that a page begins to want is read unless it is fresh, or is being*)
(* read already.  These are the values after the step.                     *)
Begins(k, s) ==
  reading' = IF ~Fresh(k) /\ reading[k] = None
             THEN [reading EXCEPT ![k] = [of |-> s, since |-> revision[s]]] ELSE reading

(* The comparison of two years, a component of the dashboard: it is read   *)
(* again for another year, another account, or a bump of the refresh key.  *)
(* Mutant: a bump does nothing. *)
BumpsNever(reason) == FALSE

Bumps(reason) == "monthlyOverview" \in RefreshAfter(reason)

Compare(y, s, now) ==
  /\ year' = y /\ compared' = None /\ loading' = TRUE
  /\ compares' = compares \cup {[year |-> y, of |-> s, since |-> now]}
  /\ crossed' = (compares # {})
(* With the page the component goes, and nobody hears its reads. *)
NotComparing == year' = None /\ compared' = None /\ loading' = FALSE /\ compares' = {} /\ crossed' = FALSE

Moves == steps < MaxSteps /\ steps' = steps + 1
Elsewhere == UNCHANGED <<query, revision, due, changes>>

(* An active key is read again, and an older read of it is dropped; any    *)
(* other key of the account is only marked.                                *)
Invalidated(s, active, now) ==
  /\ cache' = [k \in Keys |->
       IF k[1] # s \/ cache[k] = None THEN cache[k] ELSE [cache[k] EXCEPT !.fresh = FALSE]]
  /\ reading' = [k \in Keys |-> IF k \in active THEN [of |-> s, since |-> now] ELSE reading[k]]

(* Mutant: opening the accounts reads nothing that is fresh. *)
MountsOnly(p) == {}

FetchedOnMount(p) == IF p = "/accounts" THEN {"assets", "portfolioSummary"} ELSE {}

Shows(p, k, begins) ==
  /\ entered' = IF p = "/accounts" THEN revision[k[1]] ELSE 0
  /\ IF query \in FetchedOnMount(p)
     THEN Invalidated(k[1], IF query \in QueryNamesForPath(p) THEN {k} ELSE {}, revision[k[1]])
     ELSE /\ UNCHANGED cache
          /\ IF query \in QueryNamesForPath(p) /\ begins THEN Begins(k, k[1]) ELSE UNCHANGED reading

GoTo(p) ==
  /\ Moves /\ p # page /\ page' = p /\ UNCHANGED <<scope, param>> /\ Elsewhere /\ NotComparing
  /\ Shows(p, KeyOf(scope, param), ~Active(Key))

Sees(s, p) ==
  /\ Moves /\ scope' = s /\ param' = p /\ UNCHANGED page /\ Elsewhere
  /\ IF s # scope /\ year # None THEN Compare(year, s, revision[s]) ELSE UNCHANGED compareVars
  /\ IF s # scope THEN Shows(page, KeyOf(s, p), TRUE)
     ELSE UNCHANGED <<cache, entered>> /\ Begins(KeyOf(s, p), s)
SwitchAccount(s) == s # scope /\ Sees(s, param)
SetPeriod(p) == HasParam(query) /\ Active(Key) /\ p # param /\ Sees(scope, p)

CompareYear(y) ==
  /\ query = "monthlyOverview" /\ Active(Key) /\ Moves /\ y # year /\ Compare(y, scope, revision[scope])
  /\ UNCHANGED <<page, scope, param, cache, reading, entered>> /\ Elsewhere
(* Neither the reads on their way nor what they brought are dropped.       *)
CompareNone ==
  /\ year # None /\ year' = None
  /\ UNCHANGED <<query, page, scope, param, revision, cache, reading, due, entered, changes, steps>>
  /\ UNCHANGED <<compared, compares, loading, crossed>>

(* Mutant: the flag waits for a success. *)
StaysUp == loading

Down == FALSE

(* Whichever read is heard is shown; one that failed shows nothing.        *)
HearCompare(c) ==
  /\ compares' = compares \ {c} /\ loading' = FALSE
  /\ \E r \in c.since..revision[c.of] : compared' = [year |-> c.year, of |-> c.of, rev |-> r]
  /\ UNCHANGED <<query, page, scope, param, revision, cache, reading, due, entered, changes, steps, year, crossed>>
HearCompareError(c) ==
  /\ compares' = compares \ {c} /\ loading' = Down /\ compared' = None
  /\ UNCHANGED <<query, page, scope, param, revision, cache, reading, due, entered, changes, steps, year, crossed>>

HearRead(k) ==
  /\ reading[k] # None /\ reading' = [reading EXCEPT ![k] = None]
  /\ \E r \in reading[k].since..revision[reading[k].of] :
       cache' = [cache EXCEPT ![k] = [of |-> reading[k].of, rev |-> r, fresh |-> TRUE]]
  /\ UNCHANGED <<query, page, scope, param, revision, due, entered, changes, steps, compareVars>>
(* After one retry. *)
HearError(k) ==
  /\ reading[k] # None /\ reading' = [reading EXCEPT ![k] = None]
  /\ UNCHANGED <<query, page, scope, param, revision, cache, due, entered, changes, steps, compareVars>>

(* Thirty seconds later, and the window gets the focus. *)
Ages(k) ==
  /\ Fresh(k) /\ cache' = [cache EXCEPT ![k].fresh = FALSE]
  /\ UNCHANGED <<query, page, scope, param, revision, reading, due, entered, changes, steps, compareVars>>
Focus ==
  /\ Active(Key) /\ ~Fresh(Key) /\ reading[Key] = None /\ Begins(KeyOf(scope, param), scope)
  /\ UNCHANGED <<query, page, scope, param, revision, cache, due, entered, changes, steps, compareVars>>

(* Pulling a page down. *)
PullRefreshes(p) ==
  CASE p = "/dashboard" -> {"portfolioSummary", "expSummary", "portfolioHistory", "trends"}
    [] p \in {"/accounts", "/portfolio"} -> {"assets", "portfolioSummary"}
    [] OTHER -> {}
HandlePullRefresh ==
  /\ query \in PullRefreshes(page)
  /\ Invalidated(scope, {k \in Keys : Active(k)}, revision[scope])
  /\ UNCHANGED <<query, page, scope, param, revision, due, entered, changes, steps, compareVars>>

(***************************************************************************)
(* Changing                                                                *)
(***************************************************************************)
(* late: the handler calls the refreshAfter of the moment of the answer.   *)
Change(reason, late) ==
  /\ Moves
  /\ changes' = changes \cup {[of |-> scope, reason |-> reason, late |-> late, n |-> steps]}
  /\ UNCHANGED <<query, page, scope, param, revision, cache, reading, due, entered, compareVars>>

(* Promised are the changes that the table knows of, heard by a handler of *)
(* the account they were made in, to a key whose read is not overtaken: a  *)
(* read of an inactive key goes on, and its old answer counts as fresh.    *)
Promised(c, s, now) ==
  due' = [k \in Keys |->
    IF s = c.of /\ k[1] = s /\ <<c.reason, query>> \notin LeftOut /\ Affects(c.reason)
         /\ (Active(k) \/ reading[k] = None)
    THEN now ELSE due[k]]

Answered(c) ==
  LET s == IF c.late THEN scope ELSE c.of
      now == IF Affects(c.reason) THEN revision[c.of] + 1 ELSE revision[c.of] IN
  /\ changes' = changes \ {c} /\ revision' = [revision EXCEPT ![c.of] = now]
  /\ IF query \in RefreshAfter(c.reason) THEN Invalidated(s, {k \in Keys : k[1] = s /\ Active(k)}, revision'[s])
     ELSE UNCHANGED cacheVars
  /\ Promised(c, s, now) /\ UNCHANGED <<query, page, scope, param, entered, steps>>
  /\ IF year # None /\ Bumps(c.reason) THEN Compare(year, scope, revision'[scope])
     ELSE UNCHANGED compareVars
(* The answer is lost: the screen is left as it was. *)
Lost(c) ==
  /\ changes' = changes \ {c}
  /\ revision' = [revision EXCEPT ![c.of] = IF Affects(c.reason) THEN @ + 1 ELSE @]
  /\ UNCHANGED <<query, page, scope, param, cache, reading, due, entered, steps, compareVars>>

Next ==
  \/ \E p \in Pages : GoTo(p)
  \/ \E s \in Scopes : SwitchAccount(s)
  \/ \E p \in Params : SetPeriod(p)
  \/ \E k \in Keys : HearRead(k) \/ HearError(k) \/ Ages(k)
  \/ Focus \/ HandlePullRefresh
  \/ \E r \in Reasons, late \in BOOLEAN : Change(r, late)
  \/ \E c \in changes : Answered(c) \/ Lost(c)
  \/ \E y \in 1..2 : CompareYear(y)
  \/ CompareNone
  \/ \E c \in compares : HearCompare(c) \/ HearCompareError(c)

Answer == \E c \in compares : HearCompare(c) \/ HearCompareError(c)
Spec == Init /\ [][Next]_vars /\ WF_vars(Answer)

(***************************************************************************)
(* Properties                                                              *)
(***************************************************************************)
(* "Otherwise the Accounts tab serves stale data": what a page shows as    *)
(* fresh is not older than the last change that was answered.              *)
NothingStaleIsFresh ==
  Active(Key) /\ Fresh(Key) /\ reading[Key] = None => cache[Key].rev >= due[Key]

(* "Accounts always shows latest balances": what that page shows as fresh  *)
(* is not older than the moment it was opened, whatever the table left out.*)
AccountsAreLatest ==
  page = "/accounts" /\ query = "assets" /\ Fresh(Key) /\ reading[Key] = None => cache[Key].rev >= entered

(* "A view-as switch reads a fresh cache entry instead of bleeding data".  *)
ShownIsTheViewedAccounts == cache[Key] # None => cache[Key].of = scope

(* "Bumped on data mutations so Compare mode ... fetches re-run": of reads *)
(* that did not cross, the comparison is of the year chosen and the account*)
(* viewed, and not older than the last change that was answered.           *)
ComparisonIsCurrent ==
  year # None /\ compared # None /\ compares = {} /\ ~crossed =>
    compared.year = year /\ compared.of = scope /\ compared.rev >= due[Key]

Working == loading

(* The comparison stops loading, also after an error. *)
CompareLoadingEnds == Working ~> ~Working
=============================================================================
