------------------------------- MODULE WebClient -------------------------------
(***************************************************************************)
(* The sections of the web client, one per behaviour: those of             *)
(* WebSections, those of WebDialogs, and the preferences, the feeds and    *)
(* the query cache.  A behaviour of Spec is one of SectionsSpec and of     *)
(* DialogsSpec: to each the steps of the other sections are elsewhere.     *)
(***************************************************************************)
EXTENDS WebSections, WebDialogs

CONSTANTS
  prefAccounts, prefCatalog, prefRetired, prefLayouts0, prefFeatures, prefSwitches, prefMaxChoices,
  feedRows, feedFilters, feedMatches, feedMaxLoads,
  cacheQueries, cachePages, cacheReasons, cacheScopes, cacheMaxSteps

Pr == INSTANCE WebPreferences WITH
  Accounts <- prefAccounts, Catalog <- prefCatalog, Retired <- prefRetired,
  Layouts0 <- prefLayouts0, Features <- prefFeatures, Switches <- prefSwitches,
  MaxChoices <- prefMaxChoices,
  me <- v1, saved <- v2, shown <- v3, pending <- v4, chain <- v5, calls <- v6, chosen <- v7,
  choices <- v8, failed <- v9, crossed <- v10
Fe == INSTANCE WebFeeds WITH
  Rows <- feedRows, Filters <- feedFilters, Matches <- feedMatches, MaxLoads <- feedMaxLoads,
  feed <- v1, filters <- v2, debounced <- v3, timer <- v4, draft <- v5, list <- v6, hasMore <- v7,
  page <- v8, loading <- v9, newest <- v10, loads <- v11, rows <- v12, dying <- v13, clean <- v14,
  mixed <- v15
Ca == INSTANCE WebCache WITH
  Queries <- cacheQueries, Pages <- cachePages, Reasons <- cacheReasons, Scopes <- cacheScopes,
  MaxSteps <- cacheMaxSteps,
  query <- v1, page <- v2, scope <- v3, param <- v4, revision <- v5, cache <- v6, reading <- v7,
  due <- v8, entered <- v9, changes <- v10, steps <- v11, year <- v12, compared <- v13,
  compares <- v14, loading <- v15, crossed <- v16

ASSUME ClientAssumption == Pr!PreferencesAssumption /\ Fe!FeedsAssumption /\ Ca!CacheAssumption

OtherInit ==
  \/ section = "preferences" /\ Pr!Init /\ off11
  \/ section = "feeds" /\ Fe!Init /\ off16
  \/ section = "cache" /\ Ca!Init /\ off17

OtherNext ==
  \/ section = "preferences" /\ Pr!Next /\ UNCHANGED <<section, same11>>
  \/ section = "feeds" /\ Fe!Next /\ UNCHANGED <<section, same16>>
  \/ section = "cache" /\ Ca!Next /\ UNCHANGED <<section, same17>>

Init == SectionsInit \/ DialogsInit \/ OtherInit
Next == SectionsNext \/ DialogsNext \/ OtherNext

(***************************************************************************)
(* Fairness: requests are answered or time out, timers fire.               *)
(***************************************************************************)
Answer ==
  \/ section = "preferences" /\ Pr!ServeNext /\ UNCHANGED <<section, same11>>
  \/ section = "forms" /\ Fo!Answer /\ UNCHANGED <<section, same14>>
  \/ section = "feeds" /\ Fe!Answer /\ UNCHANGED <<section, same16>>
  \/ section = "bulk" /\ Bu!Answer /\ UNCHANGED <<section>>
  \/ section = "import" /\ Im!Answers /\ UNCHANGED <<section, same18>>
  \/ section = "security" /\ Se!AnswerAny /\ UNCHANGED <<section, same13>>
  \/ section = "trade" /\ Tr!Answer /\ UNCHANGED <<section, same13>>
  \/ section = "splitForm" /\ Sf!Answer /\ UNCHANGED <<section, same13>>
  \/ section = "templates" /\ St!Answer /\ UNCHANGED <<section, same16>>
  \/ section = "group" /\ Gr!Answer /\ UNCHANGED <<section, same18>>
  \/ section = "settle" /\ Sl!Answer /\ UNCHANGED <<section, same12>>
  \/ section = "lists" /\ Li!Answer /\ UNCHANGED <<section, same18>>
  \/ section = "cache" /\ Ca!Answer /\ UNCHANGED <<section, same17>>
Serve ==
  \/ section = "preferences" /\ Pr!SendNext /\ UNCHANGED <<section, same11>>
  \/ section = "security" /\ Se!ServeAny /\ UNCHANGED <<section, same13>>
  \/ section = "trade" /\ Tr!AnswerQuote /\ UNCHANGED <<section, same13>>
Timer == section = "preferences" /\ Pr!TimerFires /\ UNCHANGED <<section, same11>>

Spec == Init /\ [][Next]_vars /\ WF_vars(Answer) /\ WF_vars(Serve) /\ WF_vars(Timer)

(***************************************************************************)
(* Properties.  Each says of every section what the section's own          *)
(* properties say; they are stated, with their exceptions, there.          *)
(***************************************************************************)
(* Types, and the shape of every form, list and request.                   *)
TypeOK ==
  /\ In("preferences", Pr!TypeOK) /\ In("forms", Fo!TypeOK) /\ In("feeds", Fe!TypeOK)
  /\ In("bulk", Bu!TypeOK) /\ In("import", Im!TypeOK) /\ In("security", Se!TypeOK)
  /\ In("trade", Tr!TypeOK) /\ In("accounts", Ac!TypeOK) /\ In("splitForm", Sf!TypeOK)
  /\ In("templates", St!TypeOK) /\ In("group", Gr!TypeOK) /\ In("settle", Sl!TypeOK)
  /\ In("lists", Li!TypeOK) /\ In("cache", Ca!TypeOK)



(* Some flag of the section is up, some request of it queued. *)
Working ==
  \/ section = "preferences" /\ Pr!Working
  \/ section = "forms" /\ Fo!Working
  \/ section = "feeds" /\ Fe!Working
  \/ section = "bulk" /\ Bu!Working
  \/ section = "import" /\ Im!Working
  \/ section = "security" /\ Se!Working
  \/ section = "trade" /\ Tr!Working
  \/ section = "splitForm" /\ Sf!Working
  \/ section = "templates" /\ St!Working
  \/ section = "group" /\ Gr!Working
  \/ section = "settle" /\ Sl!Working
  \/ section = "lists" /\ Li!Working
  \/ section = "cache" /\ Ca!Working

(* Flags come down, spinners stop and the queue of preferences drains,     *)
(* also after a request that failed or was overtaken.                      *)
EverythingEnds == Working ~> ~Working
=============================================================================
