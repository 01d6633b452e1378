------------------------------- MODULE WebSession -------------------------------
(***************************************************************************)
(* The session of the web client: the login form, the app lock, the terms  *)
(* gate, the bootstrap of the profile, and the requests that renew the     *)
(* access token.  Each open tab has its own memory (React state and the    *)
(* access token); localStorage, the refresh cookie and the service         *)
(* worker's cache are shared by the tabs.  A refresh token is good once:   *)
(* the server blacklists it when it issues the next one.                   *)
(*                                                                         *)
(* A request is a record of `flights`: it is sent, served, and delivered   *)
(* to the code that awaits it, in any order with respect to the others.    *)
(***************************************************************************)
EXTENDS Integers, FiniteSets, Sequences

CONSTANTS
  Accounts,
  Demo,        \* the demo account, or a value outside Accounts
  WithMfa,     \* accounts that ask for a second factor
  Tabs,
  Agreed,      \* accounts that accepted the terms before
  MaxTokens,   \* bound: refresh tokens the server issues
  MaxOpen,     \* bound: requests on their way and answers yet to be stored
               \* that a user's step finds
  None

ASSUME SessionAssumption ==
  /\ None \notin Accounts /\ Demo # None
  /\ WithMfa \subseteq Accounts /\ Agreed \subseteq Accounts
  /\ MaxTokens \in Nat /\ MaxOpen \in Nat

VARIABLES
  issued,   \* issued[n]: the account of refresh token n
  spent,    \* refresh tokens on the blacklist
  agreed,   \* accounts whose terms_accepted_at is set
  jar,      \* the refresh cookie of the browser; 0 is no cookie
  store,    \* localStorage: fn_session, auth_email, is_demo, applock_enabled
            \* (with the account whose passkey this device registered)
  swCache,  \* accounts whose answers are in the worker's Cache Storage
  puts,     \* answers that the worker has yet to store there
  blob,     \* localStorage: fn_query_cache, the query cache of an installed app
  form,     \* form[t]: what the login form of tab t shows
  tab,      \* tab[t]: the memory of tab t
  cache,    \* cache[t]: the query cache, <<scope, account that answered>>
  flights,  \* requests not yet delivered
  lost,     \* history: an answer with a token, or the profile, was lost
  late,     \* history: an answer reached a session it was not meant for (LateFor)
  stray     \* history: the worker stored an answer of an earlier session after
            \* the last clearing of its cache

saved == <<swCache, puts, blob, stray>>
vars == <<issued, spent, agreed, jar, store, saved, form, tab, cache, flights,
          lost, late>>

People == Accounts \cup {None}
Kinds == {"login", "code", "unlock", "restore", "renew", "logout", "profile",
          "data", "accept", "reject"}
(* Requests whose answer may bring a new refresh cookie. *)
Issuing == {"login", "code", "unlock", "restore", "renew"}
Refreshing == {"restore", "renew"}
(* Requests that go through apiFetch: a 401 renews the token and retries. *)
Authorised == {"profile", "data", "accept", "reject"}

Flight == [tab : Tabs, kind : Kinds, who : People, name : People, cred : Nat,
           new : Nat, retried : BOOLEAN, old : BOOLEAN,
           at : {"sent", "ok", "refused", "challenge", "expired", "waiting",
                 "orphan", "cached"}]
Put == [who : People, old : BOOLEAN]
Storage == [session : BOOLEAN, email : People, demo : BOOLEAN, lock : People]
LoginForm == [mode : {"login", "register"}, email : Accounts, mfa : People]
Memory == [auth : BOOLEAN, ready : BOOLEAN, user : People, token : People,
           locked : BOOLEAN, booted : BOOLEAN, terms : BOOLEAN]

TypeOK ==
  /\ issued \in Seq(Accounts)
  /\ spent \subseteq 1..Len(issued) /\ jar \in 0..Len(issued)
  /\ agreed \subseteq Accounts /\ swCache \subseteq People
  /\ store \in Storage /\ form \in [Tabs -> LoginForm] /\ tab \in [Tabs -> Memory]
  /\ cache \in [Tabs -> SUBSET (People \X People)]
  /\ flights \subseteq Flight
  /\ \A f \in flights : f.cred <= Len(issued) /\ f.new <= Len(issued)
  /\ puts \subseteq Put /\ blob \subseteq People \X People
  /\ lost \in BOOLEAN /\ late \in BOOLEAN /\ stray \in BOOLEAN

SignedOut == [auth |-> FALSE, ready |-> TRUE, user |-> None, token |-> None,
              locked |-> FALSE, booted |-> FALSE, terms |-> TRUE]

Init ==
  /\ issued = <<>> /\ spent = {} /\ jar = 0
  /\ agreed = Agreed
  /\ store = [session |-> FALSE, email |-> None, demo |-> FALSE, lock |-> None]
  /\ swCache = {} /\ puts = {} /\ blob = {} /\ stray = FALSE
  /\ form \in [Tabs -> {[mode |-> "login", email |-> a, mfa |-> None] : a \in Accounts}]
  /\ tab = [t \in Tabs |-> SignedOut]
  /\ cache = [t \in Tabs |-> {}]
  /\ flights = {} /\ lost = FALSE /\ late = FALSE

(***************************************************************************)
(* Requests                                                                *)
(***************************************************************************)
Request(t, kind, who, name, cred) ==
  [tab |-> t, kind |-> kind, who |-> who, name |-> name, cred |-> cred, new |-> 0,
   retried |-> FALSE, old |-> FALSE, at |-> "sent"]

Awaiting(t, kinds) == {f \in flights : f.tab = t /\ f.kind \in kinds /\ f.at # "orphan"}

(* The bound MaxTokens: whatever may still make the server issue a token. *)
Room == Len(issued)
        + Cardinality({f \in flights : \/ f.kind \in Issuing /\ f.new = 0
                                       \/ f.at = "expired"}) < MaxTokens

Calm == Cardinality(flights) + Cardinality(puts) < MaxOpen

Owed(fs) == {[f EXCEPT !.old = TRUE] : f \in fs}
Older(t, fs) == {f \in fs : f.tab # t} \cup Owed({f \in fs : f.tab = t})

(***************************************************************************)
(* What the handlers of the session do to a tab.  Bootstrapping waits for  *)
(* authentication and shares a run that is still going on, so the profile  *)
(* is not requested twice.                                                 *)
(***************************************************************************)
Bootstrap(t, fs, token) ==
  IF \E f \in fs : f.tab = t /\ f.kind = "profile" /\ f.at # "orphan" THEN fs
  ELSE fs \cup {Request(t, "profile", token, None, 0)}

(* Mutant: the worker's cache outlives the session. *)
ResetAllButWorker(t) ==
  /\ cache' = [cache EXCEPT ![t] = {}]
  /\ blob' = {} /\ UNCHANGED <<swCache, stray>>
  /\ puts' = {[p EXCEPT !.old = TRUE] : p \in puts}

(* resetClientState: the query cache, the worker's cache and the stored    *)
(* copy are dropped; what the worker has yet to store is not.              *)
ResetClientState(t) ==
  /\ cache' = [cache EXCEPT ![t] = {}]
  /\ swCache' = {} /\ blob' = {} /\ stray' = FALSE
  /\ puts' = {[p EXCEPT !.old = TRUE] : p \in puts}

SignIn(f) ==
  LET t == f.tab IN
  /\ tab' = [tab EXCEPT ![t] = [auth |-> TRUE, ready |-> TRUE, user |-> f.name,
               token |-> f.who, locked |-> FALSE, booted |-> FALSE, terms |-> TRUE]]
  /\ store' = [store EXCEPT !.session = TRUE, !.email = f.name,
                            !.demo = f.who = Demo]
  /\ form' = [form EXCEPT ![t].mfa = None]
  /\ flights' = Bootstrap(t, Older(t, flights \ {f}), f.who)
  /\ ResetClientState(t)

(* logout(): the request goes out with the cookie of the moment, and the   *)
(* memory, the caches and localStorage are reset at once.                  *)
SignOut(t, fs) ==
  /\ tab' = [tab EXCEPT ![t] = SignedOut]
  /\ store' = [store EXCEPT !.session = FALSE, !.email = None, !.demo = FALSE]
  /\ flights' = Older(t, fs) \cup {Request(t, "logout", None, None, jar)}
  /\ ResetClientState(t)
  /\ form' = [form EXCEPT ![t] = [@ EXCEPT !.mode = "login", !.mfa = None]]

(* Mutant: a session learns its user only when it signs in. *)
UserAsShown(t, f) == tab[t].user

UserNow(t, f) == f.who
(* applyProfileData: the session belongs to whoever the profile says. *)
Applied(t, f, fs) ==
  /\ tab' = [tab EXCEPT ![t].user = UserNow(t, f), ![t].terms = f.who \in agreed,
                        ![t].booted = @ \/ (tab[t].auth /\ tab[t].ready
                                            /\ f.kind = "profile")]
  /\ store' = [store EXCEPT !.email = f.who]
  /\ flights' = fs
  /\ UNCHANGED <<cache, saved, form>>

(***************************************************************************)
(* The login form: password, second factor, demo, biometric, registration. *)
(***************************************************************************)
AtLogin(t) == ~tab[t].auth /\ Awaiting(t, {"login", "code"}) = {}

SwitchMode(t) ==
  /\ ~tab[t].auth /\ form[t].mfa = None
  /\ form' = [form EXCEPT ![t].mode = IF @ = "login" THEN "register" ELSE "login"]
  /\ UNCHANGED <<issued, spent, agreed, jar, store, saved, tab, cache, flights, lost, late>>

(* The field stays editable while a login is on its way. *)
TypeEmail(t) ==
  /\ ~tab[t].auth /\ form[t].mfa = None
  /\ \E a \in Accounts : form' = [form EXCEPT ![t].email = a]
  /\ UNCHANGED <<issued, spent, agreed, jar, store, saved, tab, cache, flights, lost, late>>

Submit(t) ==
  /\ AtLogin(t) /\ form[t].mode = "login" /\ form[t].mfa = None /\ Room /\ Calm
  /\ flights' = flights \cup {Request(t, "login", form[t].email, form[t].email, jar)}
  /\ UNCHANGED <<issued, spent, agreed, jar, store, saved, form, tab, cache, lost, late>>

(* The new account waits for approval; the form goes back to signing in. *)
Register(t) ==
  /\ AtLogin(t) /\ form[t].mode = "register"
  /\ agreed' = agreed \cup {form[t].email}
  /\ form' = [form EXCEPT ![t].mode = "login"]
  /\ UNCHANGED <<issued, spent, jar, store, saved, tab, cache, flights, lost, late>>

(* The name of the session is the email the form shows now. *)
SubmitCode(t) ==
  /\ AtLogin(t) /\ form[t].mfa # None /\ Room /\ Calm
  /\ flights' = flights \cup {Request(t, "code", form[t].mfa, form[t].email, jar)}
  /\ UNCHANGED <<issued, spent, agreed, jar, store, saved, form, tab, cache, lost, late>>

CancelMfa(t) ==
  /\ ~tab[t].auth /\ form[t].mfa # None
  /\ form' = [form EXCEPT ![t].mfa = None]
  /\ UNCHANGED <<issued, spent, agreed, jar, store, saved, tab, cache, flights, lost, late>>

DemoLogin(t) ==
  /\ AtLogin(t) /\ Demo \in Accounts /\ form[t].mfa = None /\ Room /\ Calm
  /\ flights' = flights \cup {Request(t, "code", Demo, Demo, jar)}
  /\ UNCHANGED <<issued, spent, agreed, jar, store, saved, form, tab, cache, lost, late>>

BiometricLogin(t) ==
  /\ AtLogin(t) /\ store.email # None /\ store.lock = store.email /\ form[t].mfa = None /\ Room /\ Calm
  /\ flights' = flights \cup {Request(t, "code", store.email, store.email, jar)}
  /\ UNCHANGED <<issued, spent, agreed, jar, store, saved, form, tab, cache, lost, late>>

(***************************************************************************)
(* The gates in front of the content: loading, app lock, terms.            *)
(***************************************************************************)
Loading(t) == ~tab[t].auth \/ ~tab[t].ready
AtLock(t) == ~Loading(t) /\ tab[t].locked
AtTerms(t) == /\ ~Loading(t) /\ ~tab[t].locked /\ tab[t].booted
              /\ ~store.demo /\ ~tab[t].terms
Content(t) == ~Loading(t) /\ ~tab[t].locked /\ ~AtTerms(t)

Logout(t) ==
  /\ AtLock(t) \/ Content(t)
  /\ Calm
  /\ SignOut(t, flights)
  /\ UNCHANGED <<issued, spent, agreed, jar, lost, late>>

EnableLock(t) ==
  /\ Content(t) /\ tab[t].token # None /\ ~store.demo
  /\ store' = [store EXCEPT !.lock = tab[t].token]
  /\ UNCHANGED <<issued, spent, agreed, jar, saved, form, tab, cache, flights, lost, late>>

DisableLock(t) ==
  /\ Content(t) /\ store.lock # None
  /\ store' = [store EXCEPT !.lock = None]
  /\ tab' = [tab EXCEPT ![t].locked = FALSE]
  /\ UNCHANGED <<issued, spent, agreed, jar, saved, form, cache, flights, lost, late>>

(* The app returns to the foreground after more than APPLOCK_BG_MS. *)
ComeBack(t) ==
  /\ store.lock # None /\ store.session /\ ~store.demo /\ ~tab[t].locked
  /\ tab' = [tab EXCEPT ![t].locked = TRUE]
  /\ UNCHANGED <<issued, spent, agreed, jar, store, saved, form, cache, flights, lost, late>>

Unlock(t) ==
  /\ AtLock(t) /\ Awaiting(t, {"unlock"}) = {} /\ Room /\ Calm
  /\ store.email # None /\ store.lock = store.email
  /\ flights' = flights \cup {Request(t, "unlock", store.email, store.email, jar)}
  /\ UNCHANGED <<issued, spent, agreed, jar, store, saved, form, tab, cache, lost, late>>

AnswerTerms(t) ==
  /\ AtTerms(t) /\ Awaiting(t, {"accept", "reject"}) = {} /\ Calm
  /\ \E kind \in {"accept", "reject"} :
       flights' = flights \cup {Request(t, kind, tab[t].token, None, 0)}
  /\ UNCHANGED <<issued, spent, agreed, jar, store, saved, form, tab, cache, lost, late>>

(***************************************************************************)
(* Queries of the mounted route wait for the bootstrap; the cache key      *)
(* carries the user that is shown.                                         *)
(***************************************************************************)
MayFetch(t) == tab[t].auth /\ tab[t].booted
FetchData(t) ==
  /\ MayFetch(t) /\ Calm
  /\ {f \in Awaiting(t, {"data"}) : ~f.old} = {}
  /\ flights' = flights \cup {Request(t, "data", tab[t].token, tab[t].user, 0)}
  /\ UNCHANGED <<issued, spent, agreed, jar, store, saved, form, tab, cache, lost, late>>

(***************************************************************************)
(* A reload: memory is gone, localStorage and the cookie remain, and an    *)
(* installed app takes the stored copy of the query cache.  Requests still *)
(* on their way may reach the server, but nobody hears the answer but the  *)
(* worker, which may still store it.                                       *)
(***************************************************************************)
(* Mutants: the lock is not restored; the stored value is taken as it is. *)
UnlockedAtStart == FALSE
LockOfAccount == store.lock

Stored(f) == [who |-> f.who, old |-> f.old]

LockedAtStart == store.lock # None /\ store.session /\ ~store.demo

Reload(t) ==
  /\ ~store.session \/ (Room /\ Calm)
  /\ LET dropped == {f \in flights : f.tab = t /\ f.at # "orphan"}
         orphans == {[f EXCEPT !.at = "orphan"] :
                       f \in {g \in dropped : g.at = "sent" /\ g.kind \in Issuing \cup {"logout"}}}
         restore == IF store.session THEN {Request(t, "restore", None, None, jar)} ELSE {}
     IN /\ flights' = (flights \ dropped) \cup orphans \cup restore
        /\ lost' = (lost \/ \E f \in dropped : f.kind \in Issuing \cup {"logout"})
        /\ \E heard \in SUBSET {f \in dropped : /\ f.kind = "data" /\ f.at \in {"sent", "ok"}
                                                /\ f.who # None} :
             puts' = puts \cup {Stored(f) : f \in heard}
  /\ tab' = [tab EXCEPT ![t] =
               [SignedOut EXCEPT !.auth = store.session, !.ready = ~store.session,
                                 !.user = store.email,
                                 !.locked = LockedAtStart]]
  /\ form' = [form EXCEPT ![t] = [@ EXCEPT !.mode = "login", !.mfa = None]]
  /\ cache' = [cache EXCEPT ![t] = blob]
  /\ UNCHANGED <<issued, spent, agreed, jar, store, swCache, blob, stray, late>>

(***************************************************************************)
(* The server.                                                             *)
(***************************************************************************)
Step(f, g) == flights' = (flights \ {f}) \cup {g}

Issue(f, account) ==
  /\ issued' = Append(issued, account)
  /\ IF f.at = "orphan" THEN flights' = flights \ {f}
     ELSE Step(f, [f EXCEPT !.at = "ok", !.new = Len(issued) + 1])

Refuse(f) == IF f.at = "orphan" THEN flights' = flights \ {f}
             ELSE Step(f, [f EXCEPT !.at = "refused"])

ServeRefresh(f) ==
  /\ f.kind \in Refreshing /\ f.at \in {"sent", "orphan"}
  /\ IF f.cred # 0 /\ f.cred \notin spent
     THEN spent' = spent \cup {f.cred} /\ Issue(f, issued[f.cred])
     ELSE Refuse(f) /\ UNCHANGED <<issued, spent>>
  /\ UNCHANGED <<agreed, jar, store, saved, form, tab, cache, lost, late>>

ServeSignIn(f) ==
  /\ f.kind \in {"login", "code", "unlock"} /\ f.at \in {"sent", "orphan"}
  /\ \/ f.kind = "login" /\ f.who \in WithMfa /\ f.at = "sent"
        /\ Step(f, [f EXCEPT !.at = "challenge"]) /\ UNCHANGED issued
     \/ ~(f.kind = "login" /\ f.who \in WithMfa) /\ Issue(f, f.who)
     \/ Refuse(f) /\ UNCHANGED issued
  /\ UNCHANGED <<spent, agreed, jar, store, saved, form, tab, cache, lost, late>>

ServeLogout(f) ==
  /\ f.kind = "logout" /\ f.at \in {"sent", "orphan"}
  /\ spent' = IF f.cred = 0 THEN spent ELSE spent \cup {f.cred}
  /\ IF f.at = "orphan" THEN flights' = flights \ {f}
     ELSE Step(f, [f EXCEPT !.at = IF f.cred = 0 THEN "refused" ELSE "ok"])
  /\ UNCHANGED <<issued, agreed, jar, store, saved, form, tab, cache, lost, late>>

(* An access token may have expired, but not the one just renewed. *)
ServeApi(f) ==
  /\ f.kind \in Authorised /\ f.at = "sent"
  /\ \/ /\ f.who # None
        /\ Step(f, [f EXCEPT !.at = "ok"])
        /\ agreed' = IF f.kind = "accept" THEN agreed \cup {f.who} ELSE agreed
     \/ /\ ~f.retried /\ (Room \/ f.who = None)
        /\ Step(f, [f EXCEPT !.at = "expired"])
        /\ UNCHANGED agreed
     \/ /\ f.retried /\ f.who = None
        /\ Step(f, [f EXCEPT !.at = "refused"])
        /\ UNCHANGED agreed
  /\ UNCHANGED <<issued, spent, jar, store, saved, form, tab, cache, lost, late>>

(* A network error or a timeout.  Before the server acted it leaves the    *)
(* browser as a refusal does, but no cookie is cleared; an answer that is  *)
(* lost afterwards may have carried a token (bound: once).                 *)
Fail(f) ==
  /\ \/ f.at = "sent" /\ f.kind \in Refreshing \cup Authorised /\ lost' = lost
     \/ f.at = "ok" /\ f.kind \in Issuing \cup {"logout"} /\ ~lost /\ lost' = TRUE
  /\ Step(f, [f EXCEPT !.at = "refused", !.new = 0, !.cred = 0])
  /\ UNCHANGED <<issued, spent, agreed, jar, store, saved, form, tab, cache, late>>

(* NetworkFirst: a read that the network fails is answered with what is    *)
(* stored under its URL, whoever asks.                                     *)
FallBack(f) ==
  /\ f.kind = "data" /\ f.at = "sent"
  /\ \E a \in swCache : Step(f, [f EXCEPT !.at = "cached", !.who = a])
  /\ UNCHANGED <<issued, spent, agreed, jar, store, saved, form, tab, cache, lost, late>>

(***************************************************************************)
(* Answers.                                                                *)
(***************************************************************************)
Cookie(f) == IF f.new # 0 THEN f.new
             ELSE IF f.at = "refused" /\ f.kind \in Refreshing /\ f.cred # 0 THEN 0
             ELSE jar

(* An answer of an earlier session; a logout whose token the browser has   *)
(* replaced; an unlock with the passkey of another account, possible while *)
(* the remembered email is still the one typed at the second factor.       *)
LateFor(f) == \/ f.old /\ f.kind \notin {"logout", "data"}
              \/ f.kind = "logout" /\ jar # f.cred
              \/ f.kind = "unlock" /\ f.at = "ok" /\ f.who # tab[f.tab].token

HearSignIn(f) ==
  /\ f.kind \in {"login", "code"} /\ f.at \in {"ok", "challenge", "refused"}
  /\ jar' = Cookie(f) /\ late' = (late \/ LateFor(f))
  /\ \/ f.at = "ok" /\ SignIn(f)
     \/ /\ f.at = "challenge"
        /\ form' = [form EXCEPT ![f.tab].mfa = f.who]
        /\ flights' = flights \ {f} /\ UNCHANGED <<tab, store, cache, saved>>
     \/ /\ f.at = "refused" /\ flights' = flights \ {f}
        /\ UNCHANGED <<tab, store, form, cache, saved>>
  /\ UNCHANGED <<issued, spent, agreed, lost>>

(* unlock() adopts the fresh token whatever the session is by now. *)
HearUnlock(f) ==
  /\ f.kind = "unlock" /\ f.at \in {"ok", "refused"}
  /\ jar' = Cookie(f) /\ late' = (late \/ LateFor(f))
  /\ flights' = flights \ {f}
  /\ IF f.at = "ok"
     THEN /\ tab' = [tab EXCEPT ![f.tab].token = f.who, ![f.tab].locked = FALSE]
          /\ store' = [store EXCEPT !.session = TRUE]
     ELSE UNCHANGED <<tab, store>>
  /\ UNCHANGED <<issued, spent, agreed, saved, form, cache, lost>>

HearRestore(f) ==
  /\ f.kind = "restore" /\ f.at \in {"ok", "refused"}
  /\ jar' = Cookie(f) /\ late' = (late \/ LateFor(f))
  /\ IF f.at = "ok"
     THEN /\ tab' = [tab EXCEPT ![f.tab].token = issued[f.new], ![f.tab].ready = TRUE]
          /\ flights' = Bootstrap(f.tab, flights \ {f}, issued[f.new])
          /\ UNCHANGED <<store, form, cache, saved>>
     ELSE SignOut(f.tab, flights \ {f})
  /\ UNCHANGED <<issued, spent, agreed, lost>>

(* The 401 of an authorised request: one renewal per tab, shared by all    *)
(* the requests that meet it while it lasts.                               *)
(* Mutant: every 401 renews for itself. *)
RenewalEach(t) == {[Request(t, "renew", None, None, jar) EXCEPT
                      !.retried = Awaiting(t, {"renew"}) # {}]}

Renewal(t) == IF Awaiting(t, {"renew"}) # {} THEN {}
              ELSE {Request(t, "renew", None, None, jar)}
Renew(f) ==
  /\ f.kind \in Authorised /\ f.at = "expired"
  /\ flights' = (flights \ {f}) \cup {[f EXCEPT !.at = "waiting"]}
                \cup Renewal(f.tab)
  /\ UNCHANGED <<issued, spent, agreed, jar, store, saved, form, tab, cache, lost, late>>

Retried(fs, t, token) ==
  {IF f.tab = t /\ f.at = "waiting"
   THEN [f EXCEPT !.at = "sent", !.who = token, !.retried = TRUE] ELSE f : f \in fs}
GivenUp(fs, t) ==
  {IF f.tab = t /\ f.at = "waiting" THEN [f EXCEPT !.at = "refused"] ELSE f : f \in fs}

HearRenew(f) ==
  /\ f.kind = "renew" /\ f.at \in {"ok", "refused"}
  /\ jar' = Cookie(f) /\ late' = (late \/ LateFor(f))
  /\ IF f.at = "ok"
     THEN /\ tab' = [tab EXCEPT ![f.tab].token = issued[f.new]]
          /\ flights' = Retried(flights \ {f}, f.tab, issued[f.new])
          /\ UNCHANGED <<store, form, cache, saved>>
     ELSE SignOut(f.tab, GivenUp(flights \ {f}, f.tab))
  /\ UNCHANGED <<issued, spent, agreed, lost>>

HearLogout(f) ==
  /\ f.kind = "logout" /\ f.at \in {"ok", "refused"}
  /\ jar' = IF f.at = "ok" THEN 0 ELSE jar
  /\ late' = (late \/ LateFor(f))
  /\ flights' = flights \ {f}
  /\ UNCHANGED <<issued, spent, agreed, store, saved, form, tab, cache, lost>>

(* A failed profile request ends the bootstrap all the same. *)
HearProfile(f) ==
  /\ f.kind \in {"profile", "accept", "reject"} /\ f.at \in {"ok", "refused"}
  /\ late' = (late \/ LateFor(f))
  /\ LET others == flights \ {f} t == f.tab
     IN \/ f.kind # "reject" /\ f.at = "ok" /\ Applied(t, f, others)
        \/ /\ f.kind # "reject" /\ f.at = "refused"
           /\ tab' = [tab EXCEPT ![t].booted = @ \/ (tab[t].auth /\ tab[t].ready
                                                    /\ f.kind = "profile")]
           /\ flights' = others /\ UNCHANGED <<store, cache, saved, form>>
        \/ f.kind = "reject" /\ SignOut(t, others)
  /\ lost' = (lost \/ (f.kind = "profile" /\ f.at = "refused"))
  /\ UNCHANGED <<issued, spent, agreed, jar>>

(* The page has the answer first, the worker stores a copy of it for       *)
(* offline use; the query cache drops the answers of queries cleared at a  *)
(* sign-out.                                                               *)
HearData(f) ==
  /\ f.kind = "data" /\ f.at \in {"ok", "cached", "refused"}
  /\ flights' = flights \ {f}
  /\ puts' = IF f.at = "ok" THEN puts \cup {Stored(f)} ELSE puts
  /\ cache' = IF f.at # "refused" /\ ~f.old
              THEN [cache EXCEPT ![f.tab] = @ \cup {<<f.name, f.who>>}] ELSE cache
  /\ UNCHANGED <<issued, spent, agreed, jar, store, swCache, blob, stray, form, tab, lost, late>>

(* The worker's cachePut(): a cache that was deleted is created again.     *)
Keep(p) ==
  /\ puts' = puts \ {p} /\ swCache' = swCache \cup {p.who}
  /\ stray' = (stray \/ p.old)
  /\ UNCHANGED <<issued, spent, agreed, jar, store, blob, form, tab, cache, flights, lost, late>>

(* The persister of an installed app, some time after a change.            *)
Persist(t) ==
  /\ blob # cache[t] /\ blob' = cache[t]
  /\ UNCHANGED <<issued, spent, agreed, jar, store, swCache, puts, stray, form, tab,
                 cache, flights, lost, late>>

Serve(f) == ServeRefresh(f) \/ ServeSignIn(f) \/ ServeLogout(f) \/ ServeApi(f)
            \/ Fail(f) \/ FallBack(f)
Hear(f) == \/ HearSignIn(f) \/ HearUnlock(f) \/ HearRestore(f) \/ Renew(f)
           \/ HearRenew(f) \/ HearLogout(f) \/ HearProfile(f) \/ HearData(f)

Next ==
  \/ \E t \in Tabs :
       \/ SwitchMode(t) \/ TypeEmail(t) \/ Submit(t) \/ Register(t) \/ SubmitCode(t)
       \/ CancelMfa(t) \/ DemoLogin(t) \/ BiometricLogin(t) \/ Logout(t)
       \/ EnableLock(t) \/ DisableLock(t) \/ ComeBack(t) \/ Unlock(t)
       \/ AnswerTerms(t) \/ FetchData(t) \/ Reload(t) \/ Persist(t)
  \/ \E f \in flights : Serve(f) \/ Hear(f)
  \/ \E p \in puts : Keep(p)

Spec == Init /\ [][Next]_vars

(***************************************************************************)
(* Properties                                                              *)
(***************************************************************************)
(* As long as no answer with a token was lost and none reached a later     *)
(* session, a renewal never presents a token that is already spent: the    *)
(* concurrent 401s of a tab share one renewal, so the rotation of the      *)
(* cookie does not sign the user out.                                      *)
RenewalsPresentFreshToken ==
  ~lost /\ ~late =>
    \A f \in flights : f.kind \in Refreshing /\ f.at = "sent" /\ ~f.old
                         /\ (\E t \in Tabs : tab[t].auth)
                       => f.cred # 0 /\ f.cred \notin spent

(* Unless the profile failed to load or the app was unlocked with another  *)
(* account's passkey, the account a tab shows, the account its access      *)
(* token acts for and the remembered email are the same, however the       *)
(* session began: password, second factor after the field was edited,      *)
(* demo, fingerprint, reload.                                              *)
ShownAccountIsTheTokens ==
  ~lost /\ ~late => \A t \in Tabs : tab[t].auth /\ tab[t].booted /\ tab[t].ready
             /\ Awaiting(t, {"profile"}) = {}
           => tab[t].user = tab[t].token /\ store.email = tab[t].user

(* What the query cache keeps under an account is what the server said to  *)
(* that account: read from the network, from the worker when the network   *)
(* fails, or from the stored copy after a reload.  Excepted is what the    *)
(* worker stored for an earlier session after its cache was cleared.       *)
CacheKeepsOwnAnswers ==
  ~lost /\ ~late /\ ~stray => \A t \in Tabs : \A c \in cache[t] : c[1] = c[2]

(* A locked session opens only on the answer to an unlock, or by ending:   *)
(* a reload, a late profile or a renewed token do not open it.             *)
OpensOnlyOnProof ==
  [][\A t \in Tabs : tab[t].auth /\ tab[t].locked /\ tab'[t].auth /\ ~tab'[t].locked
       => \E f \in flights \ flights' : f.tab = t /\ f.kind \in {"login", "code", "unlock"}
                                         /\ f.at = "ok"]_vars
=============================================================================
