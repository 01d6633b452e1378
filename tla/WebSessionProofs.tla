--------------------------- MODULE WebSessionProofs ---------------------------
(***************************************************************************)
(* The session of the web client, for any accounts, any number of refresh  *)
(* tokens and any number of requests on their way.                         *)
(*                                                                         *)
(* The argument: a token that is on its way to the browser is nobody       *)
(* else's (Tokens), so the cookie a delivered answer leaves is fresh.  In  *)
(* one tab, as long as no answer was lost and none came late, at most one  *)
(* renewal is on its way, it presents the cookie of the moment, and that   *)
(* cookie, the access token, the profile and every request of the session  *)
(* belong to one account (Good).  What the query cache, its stored copy    *)
(* and the worker's cache keep is that account's too (Caches), until the   *)
(* worker stores an answer of a session that ended.                        *)
(*                                                                         *)
(* Two tabs share the cookie but not the renewal, and either of them may   *)
(* sign the browser out under the other: what the last four theorems say   *)
(* of one tab is false of two, and TLC finds it violated.                  *)
(***************************************************************************)
EXTENDS WebSession, TLAPS

OneTab == \A t, u \in Tabs : t = u

-----------------------------------------------------------------------------
(* The invariant *)

SignsIn == {"login", "code", "unlock"}

(* A token on its way is unspent, is not the cookie, was not presented by  *)
(* any request, and belongs to the account that signed in.                 *)
TokenGood(f) ==
  /\ f.kind \in SignsIn => f.who # None
  /\ f.kind \in Issuing /\ f.at = "ok" => f.new # 0
  /\ f.new # 0 =>
       /\ f.kind \in Issuing /\ f.at = "ok"
       /\ f.new \notin spent /\ f.new # jar
       /\ f.kind \in SignsIn => issued[f.new] = f.who
       /\ \A g \in flights : g.cred # f.new

Unique(fs) == \A f, g \in fs : f.new # 0 /\ f.new = g.new => f = g
Tokens == (\A f \in flights : TokenGood(f)) /\ Unique(flights)

(* A locked session would lock again if it were reloaded. *)
LockStands(t) ==
  tab[t].auth /\ tab[t].locked /\ store.session => store.lock # None /\ ~store.demo

(* The requests of this session, not of an earlier one. *)
Mine(kinds) == {f \in flights : f.kind \in kinds /\ ~f.old}

(* Which requests a session may have on their way. *)
Shape(t) ==
  /\ store.session = tab[t].auth
  /\ \A f \in flights : f.at # "orphan"
  /\ \A f, g \in flights : f.kind \in Refreshing /\ g.kind \in Refreshing => f = g
  /\ \A f \in flights : f.kind = "restore" => tab[t].auth /\ ~tab[t].ready /\ ~f.old
  /\ tab[t].auth /\ ~tab[t].ready => \A f \in flights : f.kind = "restore"
  /\ \A f \in Mine({"login", "code", "logout"}) : ~tab[t].auth
  /\ \A f \in Mine(Authorised \cup {"unlock"}) : tab[t].auth
  /\ tab[t].auth /\ tab[t].booted => tab[t].ready

(* The cookie of a session is fresh, or the answer that replaces it is on  *)
(* its way; no late logout or renewal can spend or clear it.               *)
CookieGood(t) ==
  tab[t].auth =>
    /\ jar # 0
    /\ jar \notin spent \/ \E f \in Mine(Refreshing) : f.at = "ok"
    /\ \A f \in flights : f.kind = "logout" \/ (f.kind \in Refreshing /\ f.old) => f.cred # jar
    /\ \A f \in Mine(Refreshing) : f.at = "sent" =>
         /\ f.cred # 0 /\ f.cred \notin spent
         /\ \A g \in flights : g.kind = "logout" => g.cred # f.cred

(* Cookie, token, profile and requests belong to one account. *)
OneAccount(t) ==
  tab[t].auth /\ tab[t].ready =>
    /\ tab[t].token # None
    /\ issued[jar] = tab[t].token
    /\ \A f \in Mine(Authorised) : f.at # "cached" => f.who = tab[t].token
    /\ \A f \in Mine(Refreshing) :
         /\ f.at = "sent" => issued[f.cred] = tab[t].token
         /\ f.at = "ok" => issued[f.new] = tab[t].token
    /\ \A f \in Mine({"data"}) : f.name = tab[t].token
    /\ tab[t].booted => tab[t].user = tab[t].token /\ store.email = tab[t].token

Good(t) == Shape(t) /\ CookieGood(t) /\ OneAccount(t)

(* The inductive invariant. *)
IInv ==
  /\ TypeOK /\ Tokens
  /\ \A t \in Tabs : LockStands(t)
  /\ ~lost /\ ~late => \A t \in Tabs : Good(t)

-----------------------------------------------------------------------------
(* What the operators of the model do to a set of flights *)

(* The fields of a request. *)
LEMMA RequestType ==
  ASSUME NEW t \in Tabs, NEW kind \in Kinds, NEW who \in People, NEW name \in People,
         NEW cred \in Nat
  PROVE  LET r == Request(t, kind, who, name, cred) IN
         /\ r \in Flight /\ r.tab = t /\ r.kind = kind /\ r.who = who /\ r.name = name
         /\ r.cred = cred /\ r.new = 0 /\ ~r.retried /\ ~r.old /\ r.at = "sent"
BY DEF Request, Flight

(* Flights whose tokens the server has issued. *)
Typed(fs, n) == fs \subseteq Flight /\ \A f \in fs : f.cred <= n /\ f.new <= n

(* What outlives a tab, by its types. *)
SavedTyped == /\ swCache \subseteq People /\ puts \subseteq Put
              /\ blob \subseteq People \X People /\ stray \in BOOLEAN

(* Equal but for the mark of an earlier session. *)
Same(g, f) ==
  /\ g.tab = f.tab /\ g.kind = f.kind /\ g.who = f.who /\ g.name = f.name
  /\ g.cred = f.cred /\ g.new = f.new /\ g.retried = f.retried /\ g.at = f.at

(* Two flights that are the same but for their age, and have the same age. *)
LEMMA SameFlight ==
  ASSUME NEW f \in Flight, NEW g \in Flight, Same(f, g), f.old = g.old
  PROVE  f = g
BY DEF Same, Flight

(* A request of an earlier session keeps everything but its age. *)
LEMMA OwedIs ==
  ASSUME NEW f \in Flight
  PROVE  /\ [f EXCEPT !.old = TRUE] \in Flight
         /\ Same([f EXCEPT !.old = TRUE], f) /\ [f EXCEPT !.old = TRUE].old
BY DEF Flight, Same

(* What Older does to a set of flights; it merges no two that bring a      *)
(* token.                                                                  *)
LEMMA OlderIs ==
  ASSUME NEW t \in Tabs, NEW fs, fs \subseteq Flight
  PROVE  /\ \A g \in Older(t, fs) :
              /\ g \in Flight
              /\ g.tab = t => g.old
              /\ \E f \in fs : Same(g, f) /\ (g.tab # t => g = f)
         /\ Unique(fs) => Unique(Older(t, fs))
<1>1. \A g \in Older(t, fs) :
              /\ g \in Flight
              /\ g.tab = t => g.old
              /\ \E f \in fs : Same(g, f) /\ (g.tab # t => g = f)
  <2> SUFFICES ASSUME NEW g \in Older(t, fs)
               PROVE  /\ g \in Flight
                      /\ g.tab = t => g.old
                      /\ \E f \in fs : Same(g, f) /\ (g.tab # t => g = f)
    OBVIOUS
  <2>1. CASE g \in {f \in fs : f.tab # t}
    BY <2>1 DEF Same
  <2>2. CASE g \in Owed({f \in fs : f.tab = t})
    <3>1. PICK f \in fs : f.tab = t /\ g = [f EXCEPT !.old = TRUE]
      BY <2>2 DEF Owed
    <3> QED BY <3>1, OwedIs DEF Same
  <2> QED BY <2>1, <2>2 DEF Older
<1>2. ASSUME Unique(fs), NEW g \in Older(t, fs), NEW h \in Older(t, fs),
             g.new # 0, g.new = h.new
      PROVE  g = h
  <2>1. PICK f \in fs : Same(g, f) /\ (g.tab # t => g = f)  BY <1>1
  <2>2. PICK e \in fs : Same(h, e) /\ (h.tab # t => h = e)  BY <1>1
  <2>3. f = e  BY <1>2, <2>1, <2>2 DEF Same, Unique
  <2>4. Same(g, h)  BY <2>1, <2>2, <2>3 DEF Same
  <2>5. g.tab = t => g.old /\ h.old  BY <1>1, <2>4 DEF Same
  <2>6. g \in Flight /\ h \in Flight  BY <1>1
  <2>7. g.old \in BOOLEAN /\ h.old \in BOOLEAN BY <2>6 DEF Flight
  <2> QED BY <2>1, <2>2, <2>3, <2>4, <2>5, <2>6, <2>7, SameFlight DEF Same
<1> QED BY <1>1, <1>2 DEF Unique

-----------------------------------------------------------------------------
(* Types and tokens, whatever the number of tabs *)

(* Clearing the client's state keeps the types of what it clears. *)
LEMMA ResetTypes ==
  ASSUME TypeOK, NEW t \in Tabs, ResetClientState(t)
  PROVE  /\ SavedTyped'
         /\ cache' \in [Tabs -> SUBSET (People \X People)] /\ cache'[t] = {}
<1>1. puts' \subseteq Put
  <2>1. \A p \in Put : [p EXCEPT !.old = TRUE] \in Put  BY DEF Put
  <2> QED BY <2>1 DEF ResetClientState, TypeOK
<1> QED BY <1>1 DEF ResetClientState, TypeOK, SavedTyped

(* The steps of the login form and of the lock keep the types. *)
LEMMA FormSteps ==
  ASSUME TypeOK, NEW t \in Tabs,
         SwitchMode(t) \/ TypeEmail(t) \/ CancelMfa(t) \/ Register(t) \/ EnableLock(t)
         \/ DisableLock(t) \/ ComeBack(t)
  PROVE  TypeOK'
<1>1. CASE SwitchMode(t)  BY <1>1 DEF SwitchMode, TypeOK, saved, Storage, LoginForm, Memory
<1>2. CASE TypeEmail(t)
  <2>1. PICK a \in Accounts : form' = [form EXCEPT ![t].email = a]
    BY <1>2 DEF TypeEmail
  <2>2. form[t] \in LoginForm  BY DEF TypeOK
  <2>3. [form[t] EXCEPT !.email = a] \in LoginForm  BY <2>2 DEF LoginForm
  <2>4. form' \in [Tabs -> LoginForm]  BY <2>1, <2>3 DEF TypeOK
  <2> QED BY <1>2, <2>4 DEF TypeEmail, TypeOK, saved
<1>3. CASE CancelMfa(t)
  <2>1. form[t] \in LoginForm  BY DEF TypeOK
  <2>2. [form[t] EXCEPT !.mfa = None] \in LoginForm  BY <2>1 DEF LoginForm, People
  <2>3. form' \in [Tabs -> LoginForm]  BY <1>3, <2>2 DEF CancelMfa, TypeOK
  <2> QED BY <1>3, <2>3 DEF CancelMfa, TypeOK, saved
<1>4. CASE Register(t)  BY <1>4 DEF Register, TypeOK, saved, Storage, LoginForm, Memory
<1>5. CASE EnableLock(t)  BY <1>5 DEF EnableLock, TypeOK, saved, Storage, LoginForm, Memory, People
<1>6. CASE DisableLock(t)  BY <1>6 DEF DisableLock, TypeOK, saved, Storage, LoginForm, Memory, People
<1>7. CASE ComeBack(t)  BY <1>7 DEF ComeBack, TypeOK, saved, Storage, LoginForm, Memory, People
<1> QED BY <1>1, <1>2, <1>3, <1>4, <1>5, <1>6, <1>7

(* The user's requests keep the types. *)
LEMMA RequestSteps ==
  ASSUME TypeOK, NEW t \in Tabs,
         Submit(t) \/ SubmitCode(t) \/ DemoLogin(t) \/ BiometricLogin(t) \/ Unlock(t)
         \/ AnswerTerms(t) \/ FetchData(t)
  PROVE  TypeOK'
<1>0. ASSUME NEW kind \in Kinds, NEW who \in People, NEW name \in People,
             NEW cred \in 0..Len(issued),
             flights' = flights \cup {Request(t, kind, who, name, cred)},
             UNCHANGED <<issued, spent, agreed, jar, store, saved, form, tab, cache, lost, late>>
      PROVE TypeOK'
  <2> DEFINE r == Request(t, kind, who, name, cred)
  <2>1. cred \in Nat /\ cred <= Len(issued) /\ 0 <= Len(issued)
    BY DEF TypeOK
  <2>2. r \in Flight /\ r.cred <= Len(issued) /\ r.new <= Len(issued)
    BY <2>1, RequestType
  <2>3. flights' = flights \cup {r} BY <1>0
  <2> HIDE DEF r
  <2> QED BY <1>0, <2>2, <2>3 DEF TypeOK, saved, Storage, LoginForm, Memory
<1>1. CASE Submit(t)
  BY <1>1, <1>0 DEF Submit, TypeOK, Storage, LoginForm, Memory, People, Kinds
<1>2. CASE SubmitCode(t)
  BY <1>2, <1>0 DEF SubmitCode, TypeOK, Storage, LoginForm, Memory, People, Kinds
<1>3. CASE DemoLogin(t)
  BY <1>3, <1>0 DEF DemoLogin, TypeOK, Storage, LoginForm, Memory, People, Kinds
<1>4. CASE BiometricLogin(t)
  BY <1>4, <1>0 DEF BiometricLogin, TypeOK, Storage, LoginForm, Memory, People, Kinds
<1>5. CASE Unlock(t)
  BY <1>5, <1>0 DEF Unlock, TypeOK, Storage, LoginForm, Memory, People, Kinds
<1>6. CASE AnswerTerms(t)
  <2>1. PICK kind \in {"accept", "reject"} :
          flights' = flights \cup {Request(t, kind, tab[t].token, None, 0)}
    BY <1>6 DEF AnswerTerms
  <2>2. tab[t].token \in People /\ 0 \in 0..Len(issued) /\ None \in People /\ kind \in Kinds
    BY DEF TypeOK, Storage, LoginForm, Memory, People, Kinds
  <2> QED BY <1>6, <1>0, <2>1, <2>2 DEF AnswerTerms
<1>7. CASE FetchData(t)
  <2>1. tab[t].token \in People /\ tab[t].user \in People /\ 0 \in 0..Len(issued)
        /\ "data" \in Kinds
    BY DEF TypeOK, Storage, LoginForm, Memory, Kinds
  <2> QED BY <1>7, <1>0, <2>1 DEF FetchData
<1> QED BY <1>1, <1>2, <1>3, <1>4, <1>5, <1>6, <1>7

(* A flight of the next state that brings no token of its own. *)
Descends(g) ==
  /\ g.kind \in SignsIn => g.who # None
  /\ g.cred \in {0, jar} \/ \E f \in flights : g.cred = f.cred
  /\ \/ g.new = 0 /\ ~(g.kind \in Issuing /\ g.at = "ok")
     \/ \E f \in flights : Same(g, f)

(* A flight that stays as it is descends from itself. *)
LEMMA SameDescends ==
  ASSUME Tokens, NEW g, NEW f \in flights, Same(g, f)
  PROVE  Descends(g)
BY DEF Tokens, TokenGood, Descends, Same

(* Tokens survives a step in which every flight descends from an earlier   *)
(* one.                                                                    *)
LEMMA TokensKept ==
  ASSUME TypeOK, Tokens, issued' = issued, spent' = spent,
         \A g \in flights' : g.new # 0 => g.new # jar',
         Unique(flights'),
         \A g \in flights' : Descends(g)
  PROVE  Tokens'
<1>1. ASSUME NEW g \in flights', g.new # 0
      PROVE  \E f \in flights : Same(g, f) /\ f.new # 0
  BY <1>1 DEF Descends, Same
<1>2. ASSUME NEW g \in flights'
      PROVE  TokenGood(g)'
  <2>1. ASSUME g.new # 0
        PROVE  /\ g.kind \in Issuing /\ g.at = "ok"
               /\ g.new \notin spent
               /\ g.kind \in SignsIn => issued[g.new] = g.who
               /\ \A h \in flights' : h.cred # g.new
    <3>1. PICK f \in flights : Same(g, f) /\ f.new # 0  BY <1>1, <2>1
    <3>2. TokenGood(f)  BY DEF Tokens
    <3>3. \A h \in flights' : h.cred # f.new
      BY <3>1, <3>2 DEF Descends, TokenGood
    <3> QED BY <3>1, <3>2, <3>3 DEF TokenGood, Same
  <2>2. g.kind \in Issuing /\ g.at = "ok" => g.new # 0
    <3> SUFFICES ASSUME g.kind \in Issuing, g.at = "ok", g.new = 0 PROVE FALSE
      OBVIOUS
    <3>1. PICK f \in flights : Same(g, f)  BY DEF Descends
    <3> QED BY <3>1 DEF Tokens, TokenGood, Same
  <2>3. g.kind \in SignsIn => g.who # None  BY DEF Descends
  <2> QED BY <2>1, <2>2, <2>3 DEF TokenGood
<1>3. Unique(flights)' BY DEF Unique
<1> QED BY <1>2, <1>3 DEF Tokens

(* A request that presents the cookie, or nothing, may be added. *)
LEMMA NewRequest ==
  ASSUME NEW t \in Tabs, NEW kind \in Kinds, NEW who \in People, NEW name \in People,
         NEW cred \in {0, jar}, kind \in SignsIn => who # None, TypeOK
  PROVE  /\ Descends(Request(t, kind, who, name, cred))
         /\ Typed({Request(t, kind, who, name, cred)}, Len(issued))
         /\ Request(t, kind, who, name, cred).new = 0
<1> DEFINE r == Request(t, kind, who, name, cred)
<1>1. cred \in Nat /\ cred <= Len(issued) /\ 0 <= Len(issued)  BY DEF TypeOK
<1>2. /\ r \in Flight /\ r.kind = kind /\ r.who = who /\ r.cred = cred /\ r.new = 0
      /\ r.at = "sent"
  BY <1>1, RequestType
<1> HIDE DEF r
<1>3. Descends(r) /\ Typed({r}, Len(issued)) /\ r.new = 0
  BY <1>1, <1>2 DEF Descends, Typed
<1> QED BY <1>3 DEF r

(* A request without a token does not disturb the others. *)
LEMMA UniqueAdd ==
  ASSUME NEW fs, Unique(fs), NEW r, r.new = 0
  PROVE  Unique(fs \cup {r})
BY DEF Unique

(* Signing out keeps types and tokens. *)
LEMMA SignOutStep ==
  ASSUME TypeOK, Tokens, NEW t \in Tabs, NEW fs, Typed(fs, Len(issued)), Unique(fs),
         \A g \in fs : Descends(g),
         SignOut(t, fs), UNCHANGED <<issued, spent, agreed>>,
         jar' \in 0..Len(issued), \A g \in fs : g.new # 0 => g.new # jar',
         lost' \in BOOLEAN, late' \in BOOLEAN
  PROVE  TypeOK' /\ Tokens'
<1> DEFINE r == Request(t, "logout", None, None, jar)
<1>1. /\ Descends(r) /\ Typed({r}, Len(issued)) /\ r.new = 0
  BY NewRequest DEF Kinds, People, SignsIn
<1>2. flights' = Older(t, fs) \cup {r}  BY DEF SignOut
<1> HIDE DEF r
<1>3. \A g \in Older(t, fs) : g \in Flight /\ \E f \in fs : Same(g, f)
  BY OlderIs DEF Typed
<1>4. Typed(flights', Len(issued))
  BY <1>1, <1>2, <1>3 DEF Typed, Same
<1>5. Unique(flights')
  BY <1>1, <1>2, OlderIs, UniqueAdd DEF Typed
<1>6. \A g \in Older(t, fs) : Descends(g)
  BY <1>3 DEF Descends, Same
<1>7. \A g \in flights' : g.new # 0 => g.new # jar'
  BY <1>1, <1>2, <1>3 DEF Same
<1>8. Tokens'
  BY <1>1, <1>2, <1>5, <1>6, <1>7, TokensKept
<1>9. /\ tab' \in [Tabs -> Memory]
      /\ store' \in Storage
  BY DEF SignOut, SignedOut, TypeOK, People, Memory, Storage
<1>10. form' \in [Tabs -> LoginForm]
  <2>1. form[t] \in LoginForm
    BY DEF TypeOK
  <2>2. [form[t] EXCEPT !.mode = "login", !.mfa = None]
          \in LoginForm
    BY <2>1 DEF People, LoginForm
  <2> QED BY <2>2 DEF SignOut, TypeOK
<1>11. SavedTyped' /\ cache' \in [Tabs -> SUBSET (People \X People)]
  BY ResetTypes DEF SignOut
<1> QED BY <1>4, <1>8, <1>9, <1>10, <1>11 DEF TypeOK, Typed, SavedTyped

(* The flights, by their types. *)
LEMMA FlightsTyped ==
  ASSUME TypeOK PROVE Typed(flights, Len(issued))
BY DEF TypeOK, Typed

(* The server's steps keep types and tokens: what it issues is new. *)
LEMMA ServerSteps ==
  ASSUME TypeOK, Tokens, NEW f \in flights, Serve(f)
  PROVE  TypeOK' /\ Tokens'
<1>t. f \in Flight /\ f.cred \in 0..Len(issued) /\ f.new \in 0..Len(issued)
  BY DEF TypeOK, Flight
<1>0. ASSUME NEW account \in Accounts, f.at \in {"sent", "orphan"}, f.kind \in Issuing,
             f.kind \in SignsIn => account = f.who,
             Issue(f, account), spent' \subseteq spent \cup ({f.cred} \ {0}),
             spent \subseteq spent',
             UNCHANGED <<agreed, jar, store, saved, form, tab, cache, lost, late>>
      PROVE  TypeOK' /\ Tokens'
  <2>0. PICK n \in Nat : n = Len(issued) + 1
    BY DEF TypeOK
  <2>1. /\ issued' \in Seq(Accounts) /\ Len(issued') = n
        /\ \A i \in 1..Len(issued) : issued'[i] = issued[i]
        /\ issued'[n] = account
    BY <1>0, <2>0 DEF Issue, TypeOK
  <2>a. [f EXCEPT !.at = "ok", !.new = n] \in Flight
    BY <1>t, <2>0 DEF Flight
  <2>b. PICK h \in Flight : h = [f EXCEPT !.at = "ok", !.new = n]
    BY <2>a
  <2>2. /\ h.kind = f.kind /\ h.who = f.who /\ h.cred = f.cred
        /\ h.new = n /\ h.at = "ok"
    BY <1>t, <2>b DEF Flight
  <2>3. flights' \subseteq (flights \ {f}) \cup {h}
    BY <1>0, <2>0, <2>b DEF Issue, Step
  <2>4. Typed(flights', n)
    <3>1. \A g \in flights : g \in Flight /\ g.cred <= n /\ g.new <= n
      BY <2>0 DEF TypeOK, Flight
    <3>2. h \in Flight /\ h.cred <= n /\ h.new <= n
      BY <2>0, <2>2, <3>1
    <3> QED BY <2>3, <3>1, <3>2 DEF Typed
  <2>5. spent' \subseteq 1..n /\ jar' \in 0..n
    BY <1>0, <1>t, <2>0 DEF TypeOK
  <2>6. TypeOK'
    BY <1>0, <2>1, <2>4, <2>5 DEF TypeOK, Typed, saved
  <2>7. \A g \in flights : g.cred # n /\ g.new # n /\ g.cred \in Nat /\ g.new \in Nat
    BY <2>0 DEF TypeOK, Flight
  <2>8. n \notin spent' /\ n # jar' /\ n # 0
    BY <1>0, <1>t, <2>0 DEF TypeOK
  <2>9. ASSUME NEW g \in flights, g # f
        PROVE  TokenGood(g)'
    <3>1. TokenGood(g)  BY DEF Tokens
    <3>2. g.new # 0 => g.new \in 1..Len(issued) BY DEF TypeOK, Flight
    <3>3. g.new # 0 => \A e \in flights' : e.cred # g.new
      BY <2>2, <2>3, <3>1 DEF TokenGood
    <3>4. g.new # 0 => g.new \notin spent'
      BY <1>0, <3>1 DEF TokenGood
    <3> QED BY <1>0, <2>1, <3>1, <3>2, <3>3, <3>4 DEF TokenGood
  <2>10. TokenGood(h)'
    <3>1. \A e \in flights' : e.cred # n
      BY <2>2, <2>3, <2>7
    <3>2. f.kind \in SignsIn => f.who # None  BY DEF Tokens, TokenGood
    <3> QED BY <1>0, <2>1, <2>2, <2>8, <3>1, <3>2 DEF TokenGood
  <2>11. Unique(flights')
    BY <2>2, <2>3, <2>7 DEF Tokens, Unique
  <2>12. \A g \in flights' : TokenGood(g)'
    BY <2>3, <2>9, <2>10
  <2> QED BY <2>6, <2>11, <2>12 DEF Tokens, Unique
(* The answer brings no token; a spent token is not one that is on its way. *)
<1>9. ASSUME NEW h \in Flight, flights' \subseteq (flights \ {f}) \cup {h},
             h.kind = f.kind, h.kind \in SignsIn => h.who = f.who, h.cred \in {0, f.cred},
             h.new = 0, h.at # "ok" \/ h.kind \notin Issuing,
             spent \subseteq spent', spent' \subseteq spent \cup ({f.cred} \ {0}),
             agreed' \subseteq Accounts, lost' \in BOOLEAN,
             UNCHANGED <<issued, jar, store, saved, form, tab, cache, late>>
      PROVE  TypeOK' /\ Tokens'
  <2>1. Typed(flights', Len(issued))
    BY <1>9, <1>t DEF Typed, TypeOK
  <2>2. spent' \subseteq 1..Len(issued)
    BY <1>9, <1>t DEF TypeOK
  <2>3. TypeOK'
    BY <1>9, <2>1, <2>2 DEF TypeOK, Typed, saved
  <2>4. f.kind \in SignsIn => f.who # None  BY DEF Tokens, TokenGood
  <2>5. ASSUME NEW g \in flights'
        PROVE  TokenGood(g)'
    <3>1. CASE g = h  BY <1>9, <2>4, <3>1 DEF TokenGood
    <3>2. CASE g \in flights
      <4>1. TokenGood(g)  BY <3>2 DEF Tokens
      <4>2. g.new # 0 => \A e \in flights' : e.cred # g.new
        BY <1>9, <4>1 DEF TokenGood
      <4>3. g.new # 0 => g.new \notin spent'
        BY <1>9, <4>1 DEF TokenGood
      <4> QED BY <1>9, <4>1, <4>2, <4>3 DEF TokenGood
    <3> QED BY <1>9, <3>1, <3>2
  <2>6. Unique(flights')  BY <1>9 DEF Tokens, Unique
  <2> QED BY <2>3, <2>5, <2>6 DEF Tokens, Unique
<1>n. f.at # "ok" => f.new = 0  BY DEF Tokens, TokenGood
<1>a. ASSUME NEW a \in {"refused", "challenge", "expired", "ok"}, f.at # "ok",
             a # "ok" \/ f.kind \notin Issuing
      PROVE  LET h == [f EXCEPT !.at = a] IN
             /\ h \in Flight /\ h.kind = f.kind /\ h.who = f.who /\ h.cred = f.cred
             /\ h.new = 0 /\ h.at = a
  BY <1>a, <1>n DEF TypeOK, Flight
<1>1. CASE ServeRefresh(f)
  <2>1. CASE f.cred # 0 /\ f.cred \notin spent
    <3>1. issued[f.cred] \in Accounts  BY <1>t, <2>1 DEF TypeOK
    <3> QED BY <1>1, <1>0, <2>1, <3>1 DEF ServeRefresh, Refreshing, Issuing, SignsIn
  <2>2. CASE ~(f.cred # 0 /\ f.cred \notin spent)
    <3> DEFINE h == [f EXCEPT !.at = "refused"]
    <3>1. f.at # "ok" BY <1>1 DEF ServeRefresh
    <3>2. /\ h \in Flight /\ h.kind = f.kind /\ h.who = f.who /\ h.cred = f.cred
          /\ h.new = 0 /\ h.at = "refused"
      BY <1>a, <3>1
    <3>3. flights' \subseteq (flights \ {f}) \cup {h}
      BY <1>1, <2>2 DEF ServeRefresh, Refuse, Step
    <3> HIDE DEF h
    <3>4. agreed' \subseteq Accounts /\ lost' \in BOOLEAN BY <1>1 DEF ServeRefresh, TypeOK
    <3> QED BY <1>1, <1>9, <2>2, <3>2, <3>3, <3>4 DEF ServeRefresh
  <2> QED BY <2>1, <2>2
<1>2. CASE ServeSignIn(f)
  <2>1. CASE Issue(f, f.who)
    <3>1. f.who \in Accounts
      BY <1>2, <1>t DEF ServeSignIn, Tokens, TokenGood, SignsIn, Flight, People
    <3> QED BY <1>2, <1>0, <2>1, <3>1 DEF ServeSignIn, Issuing
  <2>2. CASE ~Issue(f, f.who)
    <3>1. PICK a \in {"refused", "challenge"} : 
             flights' \subseteq (flights \ {f}) \cup {[f EXCEPT !.at = a]}
      BY <1>2, <2>2 DEF ServeSignIn, Refuse, Step
    <3> DEFINE h == [f EXCEPT !.at = a]
    <3>2. f.at # "ok" BY <1>2 DEF ServeSignIn
    <3>3. /\ h \in Flight /\ h.kind = f.kind /\ h.who = f.who /\ h.cred = f.cred
          /\ h.new = 0 /\ h.at = a
      BY <1>a, <3>2
    <3>4. flights' \subseteq (flights \ {f}) \cup {h}  BY <3>1
    <3> HIDE DEF h
    <3>5. agreed' \subseteq Accounts /\ lost' \in BOOLEAN BY <1>2 DEF ServeSignIn, TypeOK
    <3> QED BY <1>2, <1>9, <2>2, <3>3, <3>4, <3>5 DEF ServeSignIn
  <2> QED BY <2>1, <2>2
<1>3. CASE ServeLogout(f)
  <2>1. PICK a \in {"refused", "ok"} :
           flights' \subseteq (flights \ {f}) \cup {[f EXCEPT !.at = a]}
    BY <1>3 DEF ServeLogout, Step
  <2> DEFINE h == [f EXCEPT !.at = a]
  <2>2. f.at # "ok" /\ f.kind \notin Issuing BY <1>3 DEF ServeLogout, Issuing
  <2>3. /\ h \in Flight /\ h.kind = f.kind /\ h.who = f.who /\ h.cred = f.cred
        /\ h.new = 0 /\ h.at = a
    BY <1>a, <2>2
  <2>4. flights' \subseteq (flights \ {f}) \cup {h}  BY <2>1
  <2> HIDE DEF h
  <2>5. agreed' \subseteq Accounts /\ lost' \in BOOLEAN BY <1>3 DEF ServeLogout, TypeOK
  <2>6. spent \subseteq spent' /\ spent' \subseteq spent \cup ({f.cred} \ {0})
    BY <1>3 DEF ServeLogout
  <2> QED BY <1>3, <1>9, <2>2, <2>3, <2>4, <2>5, <2>6 DEF ServeLogout
<1>4. CASE ServeApi(f)
  <2>1. PICK a \in {"refused", "expired", "ok"} :
           flights' \subseteq (flights \ {f}) \cup {[f EXCEPT !.at = a]}
    BY <1>4 DEF ServeApi, Step
  <2> DEFINE h == [f EXCEPT !.at = a]
  <2>2. f.at # "ok" /\ f.kind \notin Issuing BY <1>4 DEF ServeApi, Issuing, Authorised
  <2>3. /\ h \in Flight /\ h.kind = f.kind /\ h.who = f.who /\ h.cred = f.cred
        /\ h.new = 0 /\ h.at = a
    BY <1>a, <2>2
  <2>4. flights' \subseteq (flights \ {f}) \cup {h}  BY <2>1
  <2> HIDE DEF h
  <2>5. agreed' \subseteq Accounts /\ lost' \in BOOLEAN
    BY <1>4, <1>t DEF ServeApi, TypeOK, Flight, People
  <2> QED BY <1>4, <1>9, <2>2, <2>3, <2>4, <2>5 DEF ServeApi
<1>5. CASE Fail(f)
  <2> DEFINE h == [f EXCEPT !.at = "refused", !.new = 0, !.cred = 0]
  <2>1. /\ h \in Flight /\ h.kind = f.kind /\ h.who = f.who /\ h.cred = 0
        /\ h.new = 0 /\ h.at = "refused"
    BY <1>t DEF Flight
  <2>2. flights' \subseteq (flights \ {f}) \cup {h}  BY <1>5 DEF Fail, Step
  <2> HIDE DEF h
  <2>3. agreed' \subseteq Accounts /\ lost' \in BOOLEAN
    BY <1>5 DEF Fail, TypeOK
  <2> QED BY <1>5, <1>9, <2>1, <2>2, <2>3 DEF Fail
<1>6. CASE FallBack(f)
  <2>1. PICK a \in swCache : flights' = (flights \ {f}) \cup {[f EXCEPT !.at = "cached", !.who = a]}
    BY <1>6 DEF FallBack, Step
  <2> DEFINE h == [f EXCEPT !.at = "cached", !.who = a]
  <2>2. f.at # "ok" /\ f.kind = "data" /\ f.kind \notin SignsIn /\ a \in People
    BY <1>6 DEF FallBack, SignsIn, TypeOK
  <2>3. /\ h \in Flight /\ h.kind = f.kind /\ h.cred = f.cred
        /\ h.new = 0 /\ h.at = "cached"
    BY <1>t, <1>n, <2>2 DEF Flight
  <2>4. flights' \subseteq (flights \ {f}) \cup {h}  BY <2>1
  <2> HIDE DEF h
  <2>5. agreed' \subseteq Accounts /\ lost' \in BOOLEAN  BY <1>6 DEF FallBack, TypeOK
  <2> QED BY <1>6, <1>9, <2>2, <2>3, <2>4, <2>5 DEF FallBack
<1> QED BY <1>1, <1>2, <1>3, <1>4, <1>5, <1>6 DEF Serve

(* A request that waited for the renewal goes on as `at`, as `who`. *)
Resumed(g, f, who, at) ==
  /\ g.tab = f.tab /\ g.kind = f.kind /\ g.name = f.name /\ g.old = f.old
  /\ g.cred = f.cred /\ g.new = f.new /\ g.who = who /\ g.at = at

(* What Retried does to the requests that waited. *)
LEMMA RetriedIs ==
  ASSUME NEW fs, fs \subseteq Flight, NEW t \in Tabs, NEW token \in People
  PROVE  \A g \in Retried(fs, t, token) :
           /\ g \in Flight
           /\ \E f \in fs : IF f.tab = t /\ f.at = "waiting" THEN Resumed(g, f, token, "sent")
                            ELSE g = f
<1> SUFFICES ASSUME NEW f \in fs, f.tab = t, f.at = "waiting"
             PROVE  /\ [f EXCEPT !.at = "sent", !.who = token, !.retried = TRUE] \in Flight
                    /\ Resumed([f EXCEPT !.at = "sent", !.who = token, !.retried = TRUE],
                               f, token, "sent")
  BY DEF Retried
<1> f \in Flight OBVIOUS
<1> QED BY DEF Resumed, Flight

(* What GivenUp does to the requests that waited. *)
LEMMA GivenUpIs ==
  ASSUME NEW fs, fs \subseteq Flight, NEW t \in Tabs
  PROVE  \A g \in GivenUp(fs, t) :
           /\ g \in Flight
           /\ \E f \in fs : IF f.tab = t /\ f.at = "waiting" THEN Resumed(g, f, f.who, "refused")
                            ELSE g = f
<1> SUFFICES ASSUME NEW f \in fs, f.tab = t, f.at = "waiting"
             PROVE  /\ [f EXCEPT !.at = "refused"] \in Flight
                    /\ Resumed([f EXCEPT !.at = "refused"], f, f.who, "refused")
  BY DEF GivenUp
<1> f \in Flight OBVIOUS
<1> QED BY DEF Resumed, Flight

(* Once an answer is delivered, its token is nobody else's. *)
LEMMA CookieIs ==
  ASSUME TypeOK, Tokens, NEW f \in flights
  PROVE  /\ Cookie(f) \in 0..Len(issued)
         /\ \A g \in flights \ {f} : g.new # 0 => g.new # Cookie(f)
         /\ Unique(flights \ {f})
         /\ Typed(flights \ {f}, Len(issued))
         /\ \A g \in flights \ {f} : Descends(g)
<1>1. f \in Flight /\ f.new \in 0..Len(issued)  BY DEF TypeOK, Flight
<1>2. Cookie(f) \in 0..Len(issued)  BY <1>1 DEF Cookie, TypeOK
<1>3. \A g \in flights \ {f} : g.new # 0 => g.new # Cookie(f)
  BY DEF Cookie, Tokens, TokenGood, Unique
<1>4. Unique(flights \ {f})  BY DEF Tokens, Unique
<1>5. Typed(flights \ {f}, Len(issued))  BY DEF TypeOK, Typed
<1>6. \A g \in flights \ {f} : Descends(g)  BY SameDescends DEF Same
<1> QED BY <1>2, <1>3, <1>4, <1>5, <1>6

(* A step that leaves some of the flights and adds one request. *)
LEMMA FlightsKept ==
  ASSUME TypeOK, Tokens, UNCHANGED <<issued, spent>>,
         NEW fs, Typed(fs, Len(issued)), Unique(fs), \A g \in fs : Descends(g),
         NEW r, Typed({r}, Len(issued)), r.new = 0, Descends(r),
         flights' = fs \/ flights' = fs \cup {r},
         \A g \in fs : g.new # 0 => g.new # jar'
  PROVE  Tokens' /\ Typed(flights', Len(issued))
<1>1. Unique(flights')  BY UniqueAdd
<1> QED BY <1>1, TokensKept DEF Typed

(* Signing in keeps types and tokens. *)
LEMMA SignInStep ==
  ASSUME TypeOK, Tokens, NEW f \in flights, SignIn(f), f.kind \in SignsIn,
         UNCHANGED <<issued, spent, agreed, lost>>, jar' = Cookie(f), late' \in BOOLEAN
  PROVE  TypeOK' /\ Tokens'
<1> DEFINE t == f.tab
           fs == Older(t, flights \ {f})
           r == Request(t, "profile", f.who, None, 0)
<1>1. /\ f \in Flight /\ t \in Tabs /\ f.who \in People /\ f.name \in People
  BY DEF TypeOK, Flight
<1>2. /\ Descends(r) /\ Typed({r}, Len(issued)) /\ r.new = 0
  <2>1. "profile" \in Kinds /\ "profile" \notin SignsIn /\ None \in People
    BY DEF Kinds, SignsIn, People
  <2> QED BY <1>1, <2>1, NewRequest
<1>3. flights' = fs \/ flights' = fs \cup {r}
  BY DEF SignIn, Bootstrap
<1>4. /\ \A g \in fs : g \in Flight /\ \E h \in flights \ {f} : Same(g, h)
      /\ Unique(fs)
  BY <1>1, OlderIs, CookieIs DEF Typed
<1> HIDE DEF r, fs
<1>5. Typed(fs, Len(issued)) /\ \A g \in fs : g.new # 0 => g.new # jar'
  BY <1>4, CookieIs DEF Typed, Same
<1>6. \A g \in fs : Descends(g)
  BY <1>4, SameDescends
<1>7. Tokens' /\ Typed(flights', Len(issued))
  BY <1>2, <1>3, <1>4, <1>5, <1>6, FlightsKept
<1>8. /\ tab' \in [Tabs -> Memory]
      /\ store' \in Storage
      /\ form' \in [Tabs -> LoginForm]
  <2>1. tab' \in [Tabs -> Memory] /\ store' \in Storage
    BY <1>1 DEF SignIn, TypeOK, People, Memory, Storage
  <2>2. form' \in [Tabs -> LoginForm]
    BY <1>1 DEF SignIn, TypeOK, People, LoginForm
  <2> QED BY <2>1, <2>2
<1>9. jar' \in 0..Len(issued)  BY CookieIs
<1>10. SavedTyped' /\ cache' \in [Tabs -> SUBSET (People \X People)]
  BY <1>1, ResetTypes DEF SignIn
<1> QED BY <1>7, <1>8, <1>9, <1>10 DEF TypeOK, Typed, SavedTyped

(* The delivery of an answer keeps types and tokens. *)
LEMMA HearSteps ==
  ASSUME TypeOK, Tokens, NEW f \in flights, Hear(f)
  PROVE  TypeOK' /\ Tokens'
<1> DEFINE t == f.tab
           others == flights \ {f}
<1>1. /\ f \in Flight /\ t \in Tabs /\ f.who \in People /\ f.name \in People
      /\ f.new \in 0..Len(issued) /\ f.old \in BOOLEAN
  BY DEF TypeOK, Flight
<1>2. /\ Typed(others, Len(issued)) /\ Unique(others) /\ \A g \in others : Descends(g)
      /\ \A g \in others : g.new # 0 => g.new # Cookie(f)
      /\ Cookie(f) \in 0..Len(issued)
  BY CookieIs
<1>3. \A g \in others : g.new # 0 => g.new # jar
  BY DEF Tokens, TokenGood
<1>4. LateFor(f) \in BOOLEAN  BY <1>1 DEF LateFor
<1>5. f.kind \in Refreshing /\ f.at = "ok" => issued[f.new] \in Accounts
  BY <1>1 DEF Tokens, TokenGood, Refreshing, Issuing, TypeOK
<1> HIDE DEF others
(* The flight is gone and nothing else about the flights changes. *)
<1>a. ASSUME flights' = others, UNCHANGED <<issued, spent>>,
             \A g \in others : g.new # 0 => g.new # jar'
      PROVE  Tokens' /\ Typed(flights', Len(issued))
  BY <1>a, <1>2, TokensKept DEF Typed
<1>6. CASE HearSignIn(f)
  <2>1. CASE SignIn(f)
    <3>1. late' \in BOOLEAN  BY <1>6, <1>4 DEF HearSignIn, TypeOK
    <3> QED BY <1>6, <2>1, <3>1, SignInStep DEF HearSignIn, SignsIn
  <2>2. CASE ~SignIn(f)
    <3>1. flights' = others /\ UNCHANGED <<tab, store, cache, saved>>
          /\ (form' = form \/ form' = [form EXCEPT ![t].mfa = f.who])
      BY <1>6, <2>2 DEF HearSignIn, others
    <3>2. form' \in [Tabs -> LoginForm]
      <4>1. form[t] \in LoginForm  BY <1>1 DEF TypeOK
      <4>2. [form[t] EXCEPT !.mfa = f.who] \in LoginForm
        BY <1>1, <4>1 DEF LoginForm
      <4> QED BY <1>1, <3>1, <4>2 DEF TypeOK
    <3>3. jar' = Cookie(f) /\ late' \in BOOLEAN /\ UNCHANGED <<issued, spent, agreed, lost>>
      BY <1>6, <1>4 DEF HearSignIn, TypeOK
    <3>4. Tokens' /\ Typed(flights', Len(issued))
      BY <3>1, <3>3, <1>a, <1>2
    <3> QED BY <1>2, <3>1, <3>2, <3>3, <3>4 DEF TypeOK, Typed, saved
  <2> QED BY <2>1, <2>2
<1>7. CASE HearUnlock(f)
  <2>1. /\ tab' \in [Tabs -> Memory]
        /\ store' \in Storage
    <3>1. tab[t] \in Memory  BY <1>1 DEF TypeOK
    <3>2. [tab[t] EXCEPT !.token = f.who, !.locked = FALSE] \in Memory
      BY <1>1, <3>1 DEF Memory
    <3> QED BY <1>1, <1>7, <3>2 DEF HearUnlock, TypeOK, Storage
  <2>2. /\ jar' = Cookie(f) /\ late' \in BOOLEAN /\ flights' = others
        /\ UNCHANGED <<issued, spent, agreed, saved, form, cache, lost>>
    BY <1>7, <1>4 DEF HearUnlock, TypeOK, others
  <2>3. Tokens' /\ Typed(flights', Len(issued))
    BY <2>2, <1>a, <1>2
  <2> QED BY <1>2, <2>1, <2>2, <2>3 DEF TypeOK, Typed, saved
<1>8. CASE HearRestore(f)
  <2>1. /\ jar' = Cookie(f) /\ late' \in BOOLEAN /\ lost' \in BOOLEAN
        /\ UNCHANGED <<issued, spent, agreed, lost>>
    BY <1>8, <1>4 DEF HearRestore, TypeOK
  <2>2. CASE f.at = "ok"
    <3> DEFINE r == Request(t, "profile", issued[f.new], None, 0)
    <3>1. issued[f.new] \in People  BY <1>5, <1>8, <2>2 DEF HearRestore, Refreshing, People
    <3>2. /\ Descends(r) /\ Typed({r}, Len(issued)) /\ r.new = 0
      <4>1. "profile" \in Kinds /\ "profile" \notin SignsIn /\ None \in People
        BY DEF Kinds, SignsIn, People
      <4> QED BY <1>1, <3>1, <4>1, NewRequest
    <3>3. flights' = others \/ flights' = others \cup {r}
      BY <1>8, <2>2 DEF HearRestore, Bootstrap, others
    <3> HIDE DEF r
    <3>4. Tokens' /\ Typed(flights', Len(issued))
      BY <1>2, <2>1, <3>2, <3>3, FlightsKept
    <3>5. tab' \in [Tabs -> Memory]
      <4>1. tab[t] \in Memory  BY <1>1 DEF TypeOK
      <4>2. [tab[t] EXCEPT !.token = issued[f.new], !.ready = TRUE] \in Memory
        BY <3>1, <4>1 DEF Memory
      <4> QED BY <1>1, <1>8, <2>2, <4>2 DEF HearRestore, TypeOK
    <3> QED BY <1>2, <1>8, <2>1, <2>2, <3>4, <3>5 DEF TypeOK, Typed, HearRestore, saved
  <2>3. CASE f.at # "ok"
    <3>1. SignOut(t, others)  BY <1>8, <2>3 DEF HearRestore, others
    <3> QED BY <1>1, <1>2, <2>1, <3>1, SignOutStep
  <2> QED BY <2>2, <2>3
<1>9. CASE Renew(f)
  <2>1. PICK h \in Flight : h = [f EXCEPT !.at = "waiting"]
    BY <1>1 DEF Flight
  <2>2. /\ h.kind = f.kind /\ h.who = f.who /\ h.cred = f.cred /\ h.new = f.new /\ h.at = "waiting"
    BY <1>1, <2>1 DEF Flight
  <2>3. f.new = 0 /\ (f.kind \in SignsIn => f.who # None)
    BY <1>9 DEF Renew, Tokens, TokenGood
  <2>4. Descends(h) /\ Typed({h}, Len(issued))
    BY <2>2, <2>3 DEF Descends, TypeOK, Typed
  <2> DEFINE r == Request(t, "renew", None, None, jar)
             fs == others \cup {h}
  <2>5. /\ Descends(r) /\ Typed({r}, Len(issued)) /\ r.new = 0
    <3>1. "renew" \in Kinds /\ "renew" \notin SignsIn /\ None \in People
      BY DEF Kinds, SignsIn, People
    <3> QED BY <1>1, <3>1, NewRequest
  <2>6. flights' = fs \/ flights' = fs \cup {r}
    BY <1>9, <2>1 DEF Renew, Renewal, others
  <2> HIDE DEF r
  <2>7. /\ Unique(fs) /\ Typed(fs, Len(issued)) /\ \A g \in fs : Descends(g)
        /\ \A g \in fs : g.new # 0 => g.new # jar
    BY <1>2, <1>3, <2>2, <2>3, <2>4, UniqueAdd DEF Typed
  <2> HIDE DEF fs
  <2>8. UNCHANGED <<issued, spent, agreed, jar, store, saved, form, tab, cache, lost, late>>
    BY <1>9 DEF Renew
  <2>9. Tokens' /\ Typed(flights', Len(issued))
    BY <2>5, <2>6, <2>7, <2>8, FlightsKept
  <2> QED BY <2>8, <2>9 DEF TypeOK, Typed, saved
<1>10. CASE HearRenew(f)
  <2>1. /\ jar' = Cookie(f) /\ late' \in BOOLEAN /\ lost' \in BOOLEAN
        /\ UNCHANGED <<issued, spent, agreed, lost>>
    BY <1>10, <1>4 DEF HearRenew, TypeOK
  <2>2. CASE f.at = "ok"
    <3> DEFINE token == issued[f.new]
               fs == Retried(others, t, token)
    <3>1. token \in People /\ token # None
      BY <1>5, <1>10, <2>2, SessionAssumption DEF HearRenew, Refreshing, People
    <3>2. flights' = fs  BY <1>10, <2>2 DEF HearRenew, others
    <3>3. \A g \in fs : /\ g \in Flight
                        /\ \E e \in others : IF e.tab = t /\ e.at = "waiting"
                                              THEN Resumed(g, e, token, "sent") ELSE g = e
      BY <1>1, <1>2, <3>1, RetriedIs DEF Typed
    <3> HIDE DEF fs, token
    <3>4. \A e \in others : e.at = "waiting" => e.new = 0
      BY DEF Tokens, TokenGood, others
    <3>5. Unique(fs)  BY <1>2, <3>3, <3>4 DEF Unique, Resumed
    <3>6. \A g \in fs : Descends(g)
      BY <1>2, <3>1, <3>3, <3>4 DEF Descends, Resumed
    <3>7. Typed(fs, Len(issued)) /\ \A g \in fs : g.new # 0 => g.new # Cookie(f)
      BY <1>2, <3>3, <3>4 DEF Typed, Resumed
    <3>8. Tokens'
      BY <2>1, <3>2, <3>5, <3>6, <3>7, TokensKept
    <3>9. tab' \in [Tabs -> Memory]
      <4>1. tab[t] \in Memory  BY <1>1 DEF TypeOK
      <4>2. [tab[t] EXCEPT !.token = token] \in Memory
        BY <3>1, <4>1 DEF Memory
      <4> QED BY <1>1, <1>10, <2>2, <4>2 DEF HearRenew, TypeOK, token
    <3> QED BY <1>2, <1>10, <2>1, <2>2, <3>2, <3>7, <3>8, <3>9 DEF TypeOK, Typed, HearRenew, saved
  <2>3. CASE f.at # "ok"
    <3> DEFINE fs == GivenUp(others, t)
    <3>1. SignOut(t, fs)  BY <1>10, <2>3 DEF HearRenew, others
    <3>2. \A g \in fs : /\ g \in Flight
                        /\ \E e \in others : IF e.tab = t /\ e.at = "waiting"
                                              THEN Resumed(g, e, e.who, "refused") ELSE g = e
      BY <1>1, <1>2, GivenUpIs DEF Typed
    <3> HIDE DEF fs
    <3>3. \A e \in others : e.at = "waiting" => e.new = 0
      BY DEF Tokens, TokenGood, others
    <3>4. Unique(fs)  BY <1>2, <3>2, <3>3 DEF Unique, Resumed
    <3>5. \A g \in fs : Descends(g)
      BY <1>2, <3>2, <3>3 DEF Descends, Resumed
    <3>6. Typed(fs, Len(issued)) /\ \A g \in fs : g.new # 0 => g.new # Cookie(f)
      BY <1>2, <3>2, <3>3 DEF Typed, Resumed
    <3> QED BY <1>1, <1>2, <2>1, <3>1, <3>4, <3>5, <3>6, SignOutStep
  <2> QED BY <2>2, <2>3
<1>11. CASE HearLogout(f)
  <2>1. /\ jar' \in 0..Len(issued) /\ late' \in BOOLEAN /\ flights' = others
        /\ UNCHANGED <<issued, spent, agreed, store, saved, form, tab, cache, lost>>
    BY <1>11, <1>4 DEF HearLogout, TypeOK, others
  <2>2. \A g \in others : g.new # 0 => g.new # jar'
    BY <1>11, <1>3 DEF HearLogout
  <2>3. Tokens' /\ Typed(flights', Len(issued))
    BY <2>1, <2>2, <1>a
  <2> QED BY <2>1, <2>3 DEF TypeOK, Typed, saved
<1>12. CASE HearProfile(f)
  <2>1. /\ jar' = jar /\ late' \in BOOLEAN /\ lost' \in BOOLEAN
        /\ UNCHANGED <<issued, spent, agreed>>
    BY <1>12, <1>4 DEF HearProfile, TypeOK
  <2>2. CASE SignOut(t, others)
    <3>1. jar \in 0..Len(issued)  BY DEF TypeOK
    <3> QED BY <1>1, <1>2, <1>3, <2>1, <2>2, <3>1, SignOutStep
  <2>3. CASE ~SignOut(t, others)
    <3>1. /\ tab' \in [Tabs -> Memory]
          /\ store' \in Storage
          /\ flights' = others /\ UNCHANGED <<cache, saved, form>>
      <4>1. tab[t] \in Memory  BY <1>1 DEF TypeOK
      <4>2. ASSUME NEW b \in BOOLEAN, NEW c \in BOOLEAN
            PROVE  /\ [tab[t] EXCEPT !.user = f.who, !.terms = b, !.booted = c] \in Memory
                   /\ [tab[t] EXCEPT !.booted = c] \in Memory
        BY <1>1, <4>1 DEF Memory
      <4>3. (tab[t].booted \/ (tab[t].auth /\ tab[t].ready /\ f.kind = "profile")) \in BOOLEAN
            /\ (f.who \in agreed) \in BOOLEAN
        BY <4>1 DEF Memory
      <4> DEFINE b == f.who \in agreed
                 c == tab[t].booted \/ (tab[t].auth /\ tab[t].ready /\ f.kind = "profile")
      <4>4. CASE Applied(t, f, others)
        <5>1. tab' = [tab EXCEPT ![t] = [tab[t] EXCEPT !.user = f.who, !.terms = b, !.booted = c]]
          BY <1>1, <4>4 DEF Applied, UserNow, TypeOK
        <5>2. b \in BOOLEAN /\ c \in BOOLEAN  BY <4>3
        <5> HIDE DEF b, c
        <5>3. tab' \in [Tabs -> Memory]  BY <1>1, <4>2, <5>1, <5>2 DEF TypeOK
        <5> QED BY <1>1, <4>4, <5>3 DEF Applied, TypeOK, Storage
      <4>5. CASE ~Applied(t, f, others)
        <5>1. /\ tab' = [tab EXCEPT ![t] = [tab[t] EXCEPT !.booted = c]]
              /\ flights' = others /\ UNCHANGED <<store, cache, saved, form>>
          BY <1>1, <1>12, <2>3, <4>5 DEF HearProfile, TypeOK, others
        <5>2. c \in BOOLEAN  BY <4>3
        <5> HIDE DEF b, c
        <5>3. tab' \in [Tabs -> Memory]  BY <1>1, <4>2, <5>1, <5>2 DEF TypeOK
        <5> QED BY <5>1, <5>3 DEF TypeOK
      <4> QED BY <4>4, <4>5
    <3>2. Tokens' /\ Typed(flights', Len(issued))
      BY <1>3, <2>1, <3>1, <1>a
    <3> QED BY <2>1, <3>1, <3>2 DEF TypeOK, Typed, saved
  <2> QED BY <2>2, <2>3
<1>13. CASE HearData(f)
  <2>1. /\ flights' = others
        /\ UNCHANGED <<issued, spent, agreed, jar, store, form, tab, lost, late>>
    BY <1>13 DEF HearData, others
  <2>2. SavedTyped' /\ cache' \in [Tabs -> SUBSET (People \X People)]
    <3>1. Stored(f) \in Put  BY <1>1 DEF Stored, Put
    <3> QED BY <1>1, <1>13, <3>1 DEF HearData, TypeOK, SavedTyped
  <2>3. Tokens' /\ Typed(flights', Len(issued))
    BY <1>3, <2>1, <1>a
  <2> QED BY <2>1, <2>2, <2>3 DEF TypeOK, Typed, SavedTyped
<1> QED BY <1>6, <1>7, <1>8, <1>9, <1>10, <1>11, <1>12, <1>13 DEF Hear

(* Types and tokens at the start. *)
LEMMA TypeInit ==
  Init => TypeOK /\ Tokens
<1> SUFFICES ASSUME Init PROVE TypeOK /\ Tokens
  OBVIOUS
<1>1. TypeOK
  <2>1. issued \in Seq(Accounts) /\ Len(issued) = 0 /\ jar \in 0..Len(issued)
    BY DEF Init
  <2>2. store \in Storage /\ tab \in [Tabs -> Memory]
    BY DEF Init, Storage, Memory, SignedOut, People
  <2>3. form \in [Tabs -> LoginForm]
    <3>1. \A a \in Accounts : [mode |-> "login", email |-> a, mfa |-> None] \in LoginForm
      BY DEF LoginForm, People
    <3> QED BY <3>1 DEF Init
  <2> QED BY <2>1, <2>2, <2>3, SessionAssumption DEF Init, TypeOK
<1>2. Tokens
  BY DEF Init, Tokens, Unique
<1> QED BY <1>1, <1>2

(* A reload keeps types and tokens: what it abandons brings no token. *)
LEMMA ReloadStep ==
  ASSUME TypeOK, Tokens, NEW t \in Tabs, Reload(t)
  PROVE  TypeOK' /\ Tokens'
<1> DEFINE dropped == {f \in flights : f.tab = t /\ f.at # "orphan"}
           orphans == {[f EXCEPT !.at = "orphan"] :
                       f \in {g \in dropped : g.at = "sent" /\ g.kind \in Issuing \cup {"logout"}}}
           fs == (flights \ dropped) \cup orphans
           r == Request(t, "restore", None, None, jar)
<1>1. /\ Descends(r) /\ Typed({r}, Len(issued)) /\ r.new = 0
  <2>1. "restore" \in Kinds /\ "restore" \notin SignsIn /\ None \in People
    BY DEF Kinds, SignsIn, People
  <2> QED BY <2>1, NewRequest
<1>2. flights' = fs \/ flights' = fs \cup {r}
  BY DEF Reload
<1>3. ASSUME NEW g \in orphans
      PROVE  /\ g \in Flight /\ g.new = 0 /\ g.at # "ok"
             /\ g.kind \in SignsIn => g.who # None
             /\ \E f \in flights : g.cred = f.cred
  <2>1. PICK f \in flights : f.at = "sent" /\ g = [f EXCEPT !.at = "orphan"]
    BY <1>3
  <2>2. f \in Flight /\ TokenGood(f)  BY DEF TypeOK, Tokens
  <2>3. /\ g \in Flight /\ g.kind = f.kind /\ g.who = f.who /\ g.cred = f.cred
        /\ g.new = f.new /\ g.at = "orphan"
    BY <2>1, <2>2 DEF Flight
  <2> QED BY <2>1, <2>2, <2>3 DEF TokenGood
<1>4. \A g \in fs : g \in flights \/ g \in orphans
  OBVIOUS
<1> HIDE DEF r, orphans, dropped, fs
<1>5. \A g \in orphans : Descends(g)
  BY <1>3 DEF Descends
<1>6. \A g \in flights : Descends(g)
  BY SameDescends DEF Same
<1>7. Typed(fs, Len(issued))
  <2>1. \A g \in orphans : g.cred <= Len(issued) /\ 0 <= Len(issued) /\ g.new = 0
    BY <1>3 DEF TypeOK
  <2> QED BY <1>3, <1>4, <2>1 DEF TypeOK, Typed
<1>8. Unique(fs)
  BY <1>3, <1>4 DEF Tokens, Unique
<1>9. \A g \in fs : g.new # 0 => g.new # jar'
  BY <1>3, <1>4 DEF Tokens, TokenGood, Reload
<1>10. Tokens' /\ Typed(flights', Len(issued))
  BY <1>1, <1>2, <1>4, <1>5, <1>6, <1>7, <1>8, <1>9, FlightsKept DEF Reload
<1>11. tab' \in [Tabs -> Memory]
  <2>1. /\ store.session \in BOOLEAN /\ store.email \in People
        /\ store.demo \in BOOLEAN /\ LockedAtStart \in BOOLEAN
    BY DEF TypeOK, Storage, LockedAtStart
  <2>2. [SignedOut EXCEPT !.auth = store.session, !.ready = ~store.session,
                          !.user = store.email, !.locked = LockedAtStart] \in Memory
    BY <2>1 DEF SignedOut, Memory, People
  <2> QED BY <2>2 DEF Reload, TypeOK
<1>12. form' \in [Tabs -> LoginForm]
  <2>1. form[t] \in LoginForm
    BY DEF TypeOK
  <2>2. [form[t] EXCEPT !.mode = "login", !.mfa = None] \in LoginForm
    BY <2>1 DEF People, LoginForm
  <2> QED BY <2>2 DEF Reload, TypeOK
<1>13. lost' \in BOOLEAN /\ cache' \in [Tabs -> SUBSET (People \X People)]
  BY DEF Reload, TypeOK
<1>14. puts' \subseteq Put
  <2>1. \A f \in flights : Stored(f) \in Put  BY DEF Stored, Put, TypeOK, Flight
  <2>2. \A p \in puts' : p \in puts \/ \E f \in flights : p = Stored(f)
    BY DEF Reload
  <2> QED BY <2>1, <2>2 DEF TypeOK
<1> QED BY <1>10, <1>11, <1>12, <1>13, <1>14 DEF Reload, TypeOK, Typed

(* Logout keeps types and tokens. *)
LEMMA LogoutStep ==
  ASSUME TypeOK, Tokens, NEW t \in Tabs, Logout(t)
  PROVE  TypeOK' /\ Tokens'
<1>1. Typed(flights, Len(issued)) /\ Unique(flights)  BY FlightsTyped DEF Tokens
<1>2. \A g \in flights : Descends(g)  BY SameDescends DEF Same
<1>3. \A g \in flights : g.new # 0 => g.new # jar'  BY DEF Logout, Tokens, TokenGood
<1>4. jar' \in 0..Len(issued) /\ lost' \in BOOLEAN /\ late' \in BOOLEAN
  BY DEF Logout, TypeOK
<1> QED BY <1>1, <1>2, <1>3, <1>4, SignOutStep DEF Logout

(* Steps that leave the flights alone keep the tokens. *)
LEMMA FormTokens ==
  ASSUME TypeOK, Tokens, UNCHANGED <<issued, spent, jar, flights>>
  PROVE  Tokens'
BY DEF Tokens, TokenGood, Unique

(* The user's requests keep the tokens. *)
LEMMA RequestTokens ==
  ASSUME TypeOK, Tokens, NEW t \in Tabs,
         Submit(t) \/ SubmitCode(t) \/ DemoLogin(t) \/ BiometricLogin(t) \/ Unlock(t)
         \/ AnswerTerms(t) \/ FetchData(t)
  PROVE  Tokens'
<1>0. ASSUME NEW kind \in Kinds, NEW who \in People, NEW name \in People, NEW cred \in {0, jar},
             kind \in SignsIn => who # None,
             flights' = flights \cup {Request(t, kind, who, name, cred)},
             UNCHANGED <<issued, spent, jar>>
      PROVE Tokens'
  <2> DEFINE r == Request(t, kind, who, name, cred)
  <2>1. /\ Descends(r) /\ Typed({r}, Len(issued)) /\ r.new = 0
    BY <1>0, NewRequest
  <2>2. flights' = flights \cup {r}  BY <1>0
  <2> HIDE DEF r
  <2>3. \A g \in flights : Descends(g)  BY SameDescends DEF Same
  <2>4. Typed(flights, Len(issued)) /\ Unique(flights)  BY FlightsTyped DEF Tokens
  <2>5. \A g \in flights : g.new # 0 => g.new # jar'  BY <1>0 DEF Tokens, TokenGood
  <2> QED BY <1>0, <2>1, <2>2, <2>3, <2>4, <2>5, FlightsKept
<1>t. form[t] \in LoginForm /\ tab[t] \in Memory /\ store \in Storage
  BY DEF TypeOK
<1>1. CASE Submit(t)
  <2>1. form[t].email \in People /\ form[t].email # None /\ "login" \in Kinds
    BY <1>t, SessionAssumption DEF LoginForm, People, Kinds
  <2> QED BY <1>1, <1>0, <2>1 DEF Submit
<1>2. CASE SubmitCode(t)
  <2>1. form[t].email \in People /\ form[t].mfa \in People /\ "code" \in Kinds
    BY <1>t DEF LoginForm, People, Kinds
  <2> QED BY <1>2, <1>0, <2>1 DEF SubmitCode
<1>3. CASE DemoLogin(t)
  <2>1. Demo \in People /\ Demo # None /\ "code" \in Kinds
    BY <1>3, SessionAssumption DEF DemoLogin, People, Kinds
  <2> QED BY <1>3, <1>0, <2>1 DEF DemoLogin
<1>4. CASE BiometricLogin(t)
  <2>1. store.email \in People /\ "code" \in Kinds
    BY <1>t DEF Storage, Kinds
  <2> QED BY <1>4, <1>0, <2>1 DEF BiometricLogin
<1>5. CASE Unlock(t)
  <2>1. store.email \in People /\ "unlock" \in Kinds
    BY <1>t DEF Storage, Kinds
  <2> QED BY <1>5, <1>0, <2>1 DEF Unlock
<1>6. CASE AnswerTerms(t)
  <2>1. PICK kind \in {"accept", "reject"} :
          flights' = flights \cup {Request(t, kind, tab[t].token, None, 0)}
    BY <1>6 DEF AnswerTerms
  <2>2. tab[t].token \in People /\ None \in People /\ kind \in Kinds /\ kind \notin SignsIn
    BY <1>t DEF Memory, People, Kinds, SignsIn
  <2> QED BY <1>6, <1>0, <2>1, <2>2 DEF AnswerTerms
<1>7. CASE FetchData(t)
  <2>1. tab[t].token \in People /\ tab[t].user \in People
        /\ "data" \in Kinds /\ "data" \notin SignsIn
    BY <1>t DEF Memory, Kinds, SignsIn
  <2> QED BY <1>7, <1>0, <2>1 DEF FetchData
<1> QED BY <1>1, <1>2, <1>3, <1>4, <1>5, <1>6, <1>7

(* Every step keeps types and tokens. *)
LEMMA TypeStep ==
  TypeOK /\ Tokens /\ [Next]_vars => TypeOK' /\ Tokens'
<1> SUFFICES ASSUME TypeOK, Tokens, [Next]_vars PROVE TypeOK' /\ Tokens'
  OBVIOUS
<1>1. ASSUME NEW t \in Tabs,
             SwitchMode(t) \/ TypeEmail(t) \/ CancelMfa(t) \/ Register(t) \/ EnableLock(t)
             \/ DisableLock(t) \/ ComeBack(t)
      PROVE  TypeOK' /\ Tokens'
  <2>1. UNCHANGED <<issued, spent, jar, flights>>
    BY <1>1 DEF SwitchMode, TypeEmail, CancelMfa, Register, EnableLock, DisableLock, ComeBack
  <2> QED BY <1>1, <2>1, FormSteps, FormTokens
<1>2. ASSUME NEW t \in Tabs,
             Submit(t) \/ SubmitCode(t) \/ DemoLogin(t) \/ BiometricLogin(t) \/ Unlock(t)
             \/ AnswerTerms(t) \/ FetchData(t)
      PROVE  TypeOK' /\ Tokens'
  BY <1>2, RequestSteps, RequestTokens
<1>3. CASE UNCHANGED vars
  <2>1. TypeOK'  BY <1>3 DEF vars, saved, TypeOK
  <2> QED BY <1>3, <2>1, FormTokens DEF vars
<1>4. ASSUME NEW t \in Tabs, Persist(t) PROVE TypeOK' /\ Tokens'
  <2>1. TypeOK'  BY <1>4 DEF Persist, TypeOK
  <2> QED BY <1>4, <2>1, FormTokens DEF Persist
<1>5. ASSUME NEW p \in puts, Keep(p) PROVE TypeOK' /\ Tokens'
  <2>1. p.who \in People /\ p.old \in BOOLEAN  BY DEF TypeOK, Put
  <2>2. TypeOK'  BY <1>5, <2>1 DEF Keep, TypeOK
  <2> QED BY <1>5, <2>2, FormTokens DEF Keep
<1> QED BY <1>1, <1>2, <1>3, <1>4, <1>5, LogoutStep, ReloadStep, ServerSteps, HearSteps DEF Next

(* Types: every variable of the session has its type, however many tabs,   *)
(* accounts and tokens there are.                                          *)
THEOREM TypeCorrect == Spec => []TypeOK
<1>1. Spec => [](TypeOK /\ Tokens)
  BY TypeInit, TypeStep, PTL DEF Spec
<1> QED BY <1>1, PTL
-----------------------------------------------------------------------------
(* The app lock *)

(* A locked session of the only tab would lock again. *)
LEMMA LockSteps ==
  ASSUME OneTab, TypeOK, Tokens, NEW t \in Tabs, LockStands(t), [Next]_vars
  PROVE  LockStands(t)'
<1>t. tab[t] \in Memory /\ store \in Storage /\ tab \in [Tabs -> Memory]
  BY DEF TypeOK
<1>1. CASE UNCHANGED <<tab, store>>
  BY <1>1 DEF LockStands
<1>2. ASSUME NEW fs, SignOut(t, fs) PROVE LockStands(t)'
  BY <1>2, <1>t DEF SignOut, SignedOut, LockStands
<1>3. ASSUME NEW u \in Tabs,
             \/ SwitchMode(u) \/ TypeEmail(u) \/ Submit(u) \/ Register(u) \/ SubmitCode(u)
             \/ CancelMfa(u) \/ DemoLogin(u) \/ BiometricLogin(u) \/ Logout(u)
             \/ EnableLock(u) \/ DisableLock(u) \/ ComeBack(u) \/ Unlock(u)
             \/ AnswerTerms(u) \/ FetchData(u) \/ Reload(u) \/ Persist(u)
      PROVE  LockStands(t)'
  <2>1. u = t  BY DEF OneTab
  <2>2. CASE Logout(u)  BY <1>2, <2>1, <2>2 DEF Logout
  <2>3. CASE EnableLock(u)
    BY <1>t, <2>1, <2>3 DEF EnableLock, LockStands, Content, Storage
  <2>4. CASE DisableLock(u)
    BY <1>t, <2>1, <2>4 DEF DisableLock, LockStands, Storage, Memory
  <2>5. CASE ComeBack(u)
    BY <1>t, <2>1, <2>5 DEF ComeBack, LockStands
  <2>6. CASE Reload(u)
    BY <1>t, <2>1, <2>6 DEF Reload, LockStands, LockedAtStart, SignedOut
  <2> QED
    BY <1>1, <1>3, <2>2, <2>3, <2>4, <2>5, <2>6
    DEF SwitchMode, TypeEmail, Submit, Register, SubmitCode, CancelMfa, DemoLogin,
        BiometricLogin, Unlock, AnswerTerms, FetchData, Persist
<1>4. ASSUME NEW f \in flights, Serve(f)
      PROVE  LockStands(t)'
  BY <1>1, <1>4 DEF Serve, ServeRefresh, ServeSignIn, ServeLogout, ServeApi, Fail, FallBack
<1>5. ASSUME NEW f \in flights, Hear(f)
      PROVE  LockStands(t)'
  <2>1. f.tab = t  BY DEF OneTab, TypeOK, Flight
  <2>2. CASE HearSignIn(f)
    BY <1>1, <1>t, <2>1, <2>2 DEF HearSignIn, SignIn, LockStands, Memory
  <2>3. CASE HearUnlock(f)
    BY <1>1, <1>t, <2>1, <2>3 DEF HearUnlock, LockStands, Memory
  <2>4. CASE HearRestore(f)
    BY <1>1, <1>2, <1>t, <2>1, <2>4 DEF HearRestore, LockStands, Memory
  <2>5. CASE HearRenew(f)
    BY <1>1, <1>2, <1>t, <2>1, <2>5 DEF HearRenew, LockStands, Memory
  <2>6. CASE HearProfile(f)
    BY <1>1, <1>2, <1>t, <2>1, <2>6 DEF HearProfile, Applied, LockStands, Memory, Storage
  <2> QED
    BY <1>1, <1>5, <2>2, <2>3, <2>4, <2>5, <2>6 DEF Hear, Renew, HearLogout, HearData
<1>6. ASSUME NEW p \in puts, Keep(p)
      PROVE  LockStands(t)'
  BY <1>1, <1>6 DEF Keep
<1> QED BY <1>1, <1>3, <1>4, <1>5, <1>6 DEF Next, vars

(* The flight an answer was delivered from is gone. *)
LEMMA SignInDelivers ==
  ASSUME TypeOK, Tokens, NEW f \in flights, f.kind \in Issuing, f.at = "ok", SignIn(f)
  PROVE  f \notin flights'
<1>1. f.new # 0 /\ f \in Flight /\ f.tab \in Tabs
  BY DEF Tokens, TokenGood, TypeOK, Flight
<1>2. \A g \in Older(f.tab, flights \ {f}) : \E h \in flights \ {f} : Same(g, h)
  BY <1>1, OlderIs DEF TypeOK
<1>3. f \notin Older(f.tab, flights \ {f})
  BY <1>1, <1>2 DEF Tokens, Unique, Same
<1>4. \A who \in People : Request(f.tab, "profile", who, None, 0).new = 0
  BY DEF Request
<1>5. f.who \in People  BY <1>1 DEF Flight
<1> QED BY <1>1, <1>3, <1>4, <1>5 DEF SignIn, Bootstrap

(* Only a delivered proof opens a locked session. *)
LEMMA OpensStep ==
  ASSUME OneTab, TypeOK, Tokens, NEW t \in Tabs, LockStands(t), [Next]_vars,
         tab[t].auth, tab[t].locked, tab'[t].auth, ~tab'[t].locked
  PROVE  \E f \in flights \ flights' : /\ f.tab = t /\ f.kind \in {"login", "code", "unlock"}
                                       /\ f.at = "ok"
<1>t. tab[t] \in Memory /\ store \in Storage /\ tab \in [Tabs -> Memory]
  BY DEF TypeOK
<1>1. ASSUME UNCHANGED tab PROVE FALSE
  BY <1>1
<1>2. ASSUME NEW fs, SignOut(t, fs) PROVE FALSE
  BY <1>2, <1>t DEF SignOut, SignedOut
<1>3. ASSUME NEW u \in Tabs,
             \/ SwitchMode(u) \/ TypeEmail(u) \/ Submit(u) \/ Register(u) \/ SubmitCode(u)
             \/ CancelMfa(u) \/ DemoLogin(u) \/ BiometricLogin(u) \/ Logout(u)
             \/ EnableLock(u) \/ DisableLock(u) \/ ComeBack(u) \/ Unlock(u)
             \/ AnswerTerms(u) \/ FetchData(u) \/ Reload(u) \/ Persist(u)
      PROVE  FALSE
  <2>1. u = t  BY DEF OneTab
  <2>2. CASE Logout(u)  BY <1>2, <2>1, <2>2 DEF Logout
  <2>3. CASE DisableLock(u)
    BY <2>1, <2>3 DEF DisableLock, Content
  <2>4. CASE ComeBack(u)
    BY <1>t, <2>1, <2>4 DEF ComeBack
  <2>5. CASE Reload(u)
    BY <1>t, <2>1, <2>5 DEF Reload, LockStands, LockedAtStart, SignedOut
  <2> QED
    BY <1>1, <1>3, <2>2, <2>3, <2>4, <2>5
    DEF SwitchMode, TypeEmail, Submit, Register, SubmitCode, CancelMfa, DemoLogin,
        BiometricLogin, EnableLock, Unlock, AnswerTerms, FetchData, Persist
<1>4. ASSUME NEW f \in flights, Serve(f) PROVE FALSE
  BY <1>1, <1>4 DEF Serve, ServeRefresh, ServeSignIn, ServeLogout, ServeApi, Fail, FallBack
<1>5. ASSUME NEW f \in flights, Hear(f)
      PROVE  f \notin flights' /\ f.tab = t /\ f.kind \in {"login", "code", "unlock"} /\ f.at = "ok"
  <2>1. f.tab = t  BY DEF OneTab, TypeOK, Flight
  <2>2. CASE HearSignIn(f)
    <3>1. f.at = "ok" /\ SignIn(f)  BY <1>1, <2>2 DEF HearSignIn
    <3>2. f.kind \in {"login", "code"}  BY <2>2 DEF HearSignIn
    <3> QED BY <2>1, <3>1, <3>2, SignInDelivers DEF Issuing
  <2>3. CASE HearUnlock(f)
    BY <1>1, <2>1, <2>3 DEF HearUnlock
  <2>4. CASE HearRestore(f)
    BY <1>2, <1>t, <2>1, <2>4 DEF HearRestore, Memory
  <2>5. CASE HearRenew(f)
    BY <1>2, <1>t, <2>1, <2>5 DEF HearRenew, Memory
  <2>6. CASE HearProfile(f)
    BY <1>2, <1>t, <2>1, <2>6 DEF HearProfile, Applied, Memory
  <2> QED
    BY <1>1, <1>5, <2>2, <2>3, <2>4, <2>5, <2>6 DEF Hear, Renew, HearLogout, HearData
<1>6. ASSUME NEW p \in puts, Keep(p) PROVE FALSE
  BY <1>1, <1>6 DEF Keep
<1> QED BY <1>1, <1>3, <1>4, <1>5, <1>6 DEF Next, vars
-----------------------------------------------------------------------------
(* One session, one account *)

(* Steps that touch neither the flights nor what identifies the session. *)
LEMMA GoodKept ==
  ASSUME NEW t \in Tabs, Good(t), UNCHANGED <<issued, spent, jar, flights>>,
         store'.session = store.session, store'.email = store.email,
         tab'[t].auth = tab[t].auth, tab'[t].ready = tab[t].ready,
         tab'[t].user = tab[t].user, tab'[t].token = tab[t].token,
         tab'[t].booted = tab[t].booted
  PROVE  Good(t)'
<1>1. Shape(t)'  BY DEF Good, Shape, Mine
<1>2. CookieGood(t)'  BY DEF Good, CookieGood, Mine
<1>3. OneAccount(t)'  BY DEF Good, OneAccount, Mine
<1> QED BY <1>1, <1>2, <1>3 DEF Good

(* A request of the user's, on behalf of the session. *)
LEMMA GoodAdd ==
  ASSUME NEW t \in Tabs, Good(t), UNCHANGED <<issued, spent, jar, tab, store>>,
         NEW r, flights' = flights \cup {r}, r.kind \notin Refreshing, r.kind # "logout",
         ~r.old, r.at = "sent",
         r.kind \in {"login", "code"} => ~tab[t].auth,
         r.kind \in Authorised \cup {"unlock"} => tab[t].auth,
         tab[t].auth => tab[t].ready,
         r.kind \in Authorised => r.who = tab[t].token,
         r.kind = "data" => r.name = tab[t].token
  PROVE  Good(t)'
<1>1. Shape(t)'  BY DEF Good, Shape, Mine, Refreshing
<1>2. CookieGood(t)'  BY DEF Good, CookieGood, Mine, Refreshing
<1>3. OneAccount(t)'  BY DEF Good, OneAccount, Mine, Refreshing
<1> QED BY <1>1, <1>2, <1>3 DEF Good

(* The steps of the login form and of the lock. *)
LEMMA GoodForm ==
  ASSUME OneTab, TypeOK, NEW t \in Tabs, Good(t), NEW u \in Tabs,
         SwitchMode(u) \/ TypeEmail(u) \/ CancelMfa(u) \/ Register(u) \/ EnableLock(u)
         \/ DisableLock(u) \/ ComeBack(u)
  PROVE  Good(t)'
<1>1. tab[t] \in Memory /\ store \in Storage /\ tab \in [Tabs -> Memory] /\ u = t
  BY DEF TypeOK, OneTab
<1>2. UNCHANGED <<issued, spent, jar, cache, flights>>
  BY DEF SwitchMode, TypeEmail, CancelMfa, Register, EnableLock, DisableLock, ComeBack
<1>3. /\ store'.session = store.session /\ store'.email = store.email
  BY <1>1 DEF SwitchMode, TypeEmail, CancelMfa, Register, EnableLock, DisableLock, ComeBack,
              Storage
<1>4. \/ tab' = tab
      \/ \E b \in BOOLEAN : tab' = [tab EXCEPT ![t].locked = b]
  BY <1>1 DEF SwitchMode, TypeEmail, CancelMfa, Register, EnableLock, DisableLock, ComeBack
<1>5. /\ tab'[t].auth = tab[t].auth /\ tab'[t].ready = tab[t].ready
      /\ tab'[t].user = tab[t].user /\ tab'[t].token = tab[t].token
      /\ tab'[t].booted = tab[t].booted
  BY <1>1, <1>4 DEF Memory
<1> QED BY <1>2, <1>3, <1>5, GoodKept

(* The user's requests. *)
LEMMA GoodRequest ==
  ASSUME OneTab, TypeOK, NEW t \in Tabs, Good(t), NEW u \in Tabs,
         Submit(u) \/ SubmitCode(u) \/ DemoLogin(u) \/ BiometricLogin(u) \/ Unlock(u)
         \/ AnswerTerms(u) \/ FetchData(u)
  PROVE  Good(t)'
<1>1. tab[t] \in Memory /\ u = t
  BY DEF TypeOK, OneTab
<1>2. UNCHANGED <<issued, spent, jar, cache, tab, store>>
  BY DEF Submit, SubmitCode, DemoLogin, BiometricLogin, Unlock, AnswerTerms, FetchData
<1>3. ASSUME NEW kind, NEW who, NEW name, NEW cred,
             flights' = flights \cup {Request(t, kind, who, name, cred)},
             kind \notin Refreshing, kind # "logout",
             kind \in {"login", "code"} => ~tab[t].auth,
             kind \in Authorised \cup {"unlock"} => tab[t].auth,
             tab[t].auth => tab[t].ready,
             kind \in Authorised => who = tab[t].token,
             kind = "data" => name = tab[t].token
      PROVE  Good(t)'
  <2> DEFINE r == Request(t, kind, who, name, cred)
  <2>1. /\ r.kind = kind /\ r.who = who /\ r.name = name /\ r.at = "sent" /\ ~r.old
    BY DEF Request
  <2>2. flights' = flights \cup {r}  BY <1>3
  <2> HIDE DEF r
  <2> QED BY <1>2, <1>3, <2>1, <2>2, GoodAdd
<1>4. CASE Submit(u)
  BY <1>1, <1>3, <1>4 DEF Submit, AtLogin, Refreshing, Authorised
<1>5. CASE SubmitCode(u)
  BY <1>1, <1>3, <1>5 DEF SubmitCode, AtLogin, Refreshing, Authorised
<1>6. CASE DemoLogin(u)
  BY <1>1, <1>3, <1>6 DEF DemoLogin, AtLogin, Refreshing, Authorised
<1>7. CASE BiometricLogin(u)
  BY <1>1, <1>3, <1>7 DEF BiometricLogin, AtLogin, Refreshing, Authorised
<1>8. CASE Unlock(u)
  BY <1>1, <1>3, <1>8 DEF Unlock, AtLock, Loading, Refreshing, Authorised
<1>9. CASE AnswerTerms(u)
  <2>1. PICK kind \in {"accept", "reject"} :
          flights' = flights \cup {Request(u, kind, tab[u].token, None, 0)}
    BY <1>9 DEF AnswerTerms
  <2>2. tab[t].auth /\ tab[t].ready  BY <1>1, <1>9 DEF AnswerTerms, AtTerms, Loading
  <2> QED BY <1>1, <1>3, <2>1, <2>2 DEF Refreshing, Authorised
<1>10. CASE FetchData(u)
  <2>1. tab[t].auth /\ tab[t].booted  BY <1>1, <1>10 DEF FetchData, MayFetch
  <2>2. tab[t].ready /\ tab[t].user = tab[t].token
    BY <2>1 DEF Good, Shape, OneAccount
  <2>3. flights' = flights \cup {Request(t, "data", tab[t].token, tab[t].user, 0)}
    BY <1>1, <1>10 DEF FetchData
  <2> QED BY <1>3, <2>1, <2>2, <2>3 DEF Refreshing, Authorised
<1> QED BY <1>4, <1>5, <1>6, <1>7, <1>8, <1>9, <1>10

(* Signing out leaves old requests and a logout. *)
LEMMA GoodSignOut ==
  ASSUME OneTab, TypeOK, NEW t \in Tabs, NEW fs, fs \subseteq Flight, SignOut(t, fs),
         \A g \in fs : g.at # "orphan" /\ g.kind # "restore",
         \A f, g \in fs : f.kind \in Refreshing /\ g.kind \in Refreshing => f = g
  PROVE  Good(t)'
<1>1. tab'[t].auth = FALSE /\ store'.session = FALSE
  BY DEF SignOut, SignedOut, TypeOK, Storage
<1> DEFINE r == Request(t, "logout", None, None, jar)
<1>2. r.kind = "logout" /\ r.at = "sent"
  BY DEF Request
<1>3. flights' = Older(t, fs) \cup {r}  BY DEF SignOut
<1>4. \A g \in Older(t, fs) :
        /\ g \in Flight /\ g.old
        /\ \E f \in fs : Same(g, f)
  BY OlderIs DEF Flight, OneTab
<1> HIDE DEF r
<1>5. \A f, g \in flights' : f.kind \in Refreshing /\ g.kind \in Refreshing => f = g
  <2> SUFFICES ASSUME NEW f \in flights', NEW g \in flights',
                      f.kind \in Refreshing, g.kind \in Refreshing
               PROVE  f = g
    OBVIOUS
  <2>1. f \in Older(t, fs) /\ g \in Older(t, fs)  BY <1>2, <1>3 DEF Refreshing
  <2>2. PICK e \in fs : Same(f, e)  BY <1>4, <2>1
  <2>3. PICK h \in fs : Same(g, h)  BY <1>4, <2>1
  <2>4. e = h  BY <2>2, <2>3 DEF Same
  <2>5. Same(f, g) /\ f.old /\ g.old  BY <1>4, <2>1, <2>2, <2>3, <2>4 DEF Same
  <2>6. f \in Flight /\ g \in Flight  BY <1>4, <2>1
  <2>7. f.old = g.old  BY <2>5, <2>6 DEF Flight
  <2> QED BY <2>5, <2>6, <2>7, SameFlight
<1>6. \A g \in flights' : g.at # "orphan" /\ g.kind # "restore"
  BY <1>2, <1>3, <1>4 DEF Same
<1>7. \A g \in flights' : ~g.old => g.kind = "logout"
  BY <1>2, <1>3, <1>4
<1>8. Shape(t)'
  BY <1>1, <1>5, <1>6, <1>7 DEF Shape, Mine, Authorised
<1> QED BY <1>1, <1>8 DEF Good, CookieGood, OneAccount

(* Logout, from the lock screen or from the content. *)
LEMMA GoodLogout ==
  ASSUME OneTab, TypeOK, NEW t \in Tabs, Good(t), NEW u \in Tabs, Logout(u)
  PROVE  Good(t)'
<1>1. u = t  BY DEF OneTab
<1>2. tab[t].auth /\ tab[t].ready
  BY <1>1 DEF Logout, AtLock, Content, Loading
<1>3. \A g \in flights : g.at # "orphan" /\ g.kind # "restore"
  BY <1>2 DEF Good, Shape
<1>4. \A f, g \in flights : f.kind \in Refreshing /\ g.kind \in Refreshing => f = g
  BY DEF Good, Shape
<1>5. SignOut(t, flights) /\ flights \subseteq Flight  BY <1>1 DEF Logout, TypeOK
<1> QED BY <1>3, <1>4, <1>5, GoodSignOut

(* A reload that loses no token restores the session from a fresh cookie. *)
LEMMA GoodReload ==
  ASSUME OneTab, TypeOK, NEW t \in Tabs, Good(t), NEW u \in Tabs, Reload(u), ~lost'
  PROVE  Good(t)'
<1> DEFINE r == Request(t, "restore", None, None, jar)
<1>1. u = t  BY DEF OneTab
<1>2. \A f \in flights : f.tab = t /\ f.at # "orphan"
  BY DEF Good, Shape, TypeOK, Flight, OneTab
<1>3. \A f \in flights : f.kind \notin Issuing \cup {"logout"}
  BY <1>1, <1>2 DEF Reload
<1>4. flights' = IF store.session THEN {r} ELSE {}
  BY <1>1, <1>2, <1>3 DEF Reload
<1>5. r.kind = "restore" /\ r.at = "sent" /\ r.cred = jar /\ ~r.old
  BY DEF Request
<1> HIDE DEF r
<1>6. /\ tab'[t].auth = store.session /\ tab'[t].ready = ~store.session
      /\ ~tab'[t].booted
  BY <1>1 DEF Reload, SignedOut, TypeOK
<1>7. UNCHANGED <<issued, spent, jar, store>>  BY DEF Reload
<1>8. store.session = tab[t].auth  BY DEF Good, Shape
<1>9. Shape(t)'
  BY <1>4, <1>5, <1>6, <1>7 DEF Shape, Mine, Authorised, Refreshing
<1>10. CookieGood(t)'
  <2>1. SUFFICES ASSUME store.session PROVE CookieGood(t)'
    BY <1>4, <1>6 DEF CookieGood
  <2>2. jar # 0 /\ jar \notin spent
    BY <1>3, <1>8, <2>1 DEF Good, CookieGood, Mine, Refreshing, Issuing
  <2> QED BY <1>4, <1>5, <1>7, <2>1, <2>2 DEF CookieGood, Mine, Refreshing
<1>11. OneAccount(t)'  BY <1>6 DEF OneAccount
<1> QED BY <1>9, <1>10, <1>11 DEF Good

(* A flight that the server answers with no new token, or that fails. *)
LEMMA GoodAnswered ==
  ASSUME OneTab, TypeOK, Tokens, NEW t \in Tabs, Good(t), NEW f \in flights, NEW h,
         flights' = (flights \ {f}) \cup {h},
         h.kind = f.kind, h.who = f.who \/ h.at = "cached", h.name = f.name,
         h.old = f.old, h.cred \in {0, f.cred}, f.at # "cached", h.at \notin {"sent", "orphan"},
         h.at = "ok" => h.kind \notin Refreshing,
         f.kind \in Refreshing => f.at # "ok",
         UNCHANGED <<issued, jar, store, tab>>,
         f.kind \notin Refreshing => spent' \subseteq spent \cup {f.cred},
         f.kind \in Refreshing => spent' = spent,
         f.kind # "logout" => spent' = spent
  PROVE  Good(t)'
<1>1. Shape(t)'  BY DEF Good, Shape, Mine
<1>2. CookieGood(t)'
  <2> SUFFICES ASSUME tab[t].auth
               PROVE  CookieGood(t)'
    BY DEF CookieGood
  <2>1. jar # 0 /\ (jar \notin spent \/ \E g \in Mine(Refreshing) : g.at = "ok")
    BY DEF Good, CookieGood
  <2>2. \A g \in flights : g.kind = "logout" \/ (g.kind \in Refreshing /\ g.old) => g.cred # jar
    BY DEF Good, CookieGood
  <2>3. \A g \in Mine(Refreshing) : g.at = "sent" =>
         /\ g.cred # 0 /\ g.cred \notin spent
         /\ \A e \in flights : e.kind = "logout" => e.cred # g.cred
    BY DEF Good, CookieGood
  <2>4. jar' # 0 /\ (jar' \notin spent' \/ \E g \in Mine(Refreshing)' : g.at = "ok")
    BY <2>1, <2>2 DEF Mine
  <2>5. \A g \in flights' : g.kind = "logout" \/ (g.kind \in Refreshing /\ g.old) => g.cred # jar'
    BY <2>1, <2>2
  <2>6. \A g \in Mine(Refreshing)' : g.at = "sent" =>
         /\ g.cred # 0 /\ g.cred \notin spent'
         /\ \A e \in flights' : e.kind = "logout" => e.cred # g.cred
    BY <2>3 DEF Mine
  <2> QED BY <2>4, <2>5, <2>6 DEF CookieGood
<1>3. OneAccount(t)'
  <2> SUFFICES ASSUME tab[t].auth, tab[t].ready, OneAccount(t)
               PROVE  OneAccount(t)'
    BY DEF OneAccount, Good
  <2>1. \A g \in Mine(Authorised)' : g.at # "cached" => g.who = tab[t].token
    BY DEF OneAccount, Mine
  <2>2. \A g \in Mine(Refreshing)' :
         /\ g.at = "sent" => issued[g.cred] = tab[t].token
         /\ g.at = "ok" => issued[g.new] = tab[t].token
    BY DEF OneAccount, Mine
  <2>3. \A g \in Mine({"data"})' : g.name = tab[t].token
    BY DEF OneAccount, Mine
  <2> QED BY <2>1, <2>2, <2>3 DEF OneAccount
<1> QED BY <1>1, <1>2, <1>3 DEF Good

(* The server's steps: a renewal replaces the cookie it spends. *)
LEMMA GoodServe ==
  ASSUME OneTab, TypeOK, Tokens, NEW t \in Tabs, Good(t), NEW f \in flights, Serve(f), ~lost'
  PROVE  Good(t)'
<1>1. f \in Flight /\ f.at # "orphan"  BY DEF Good, Shape, TypeOK
<1>2. \A a \in {"refused", "challenge", "expired", "ok"} :
        LET h == [f EXCEPT !.at = a] IN
        /\ h.kind = f.kind /\ h.who = f.who /\ h.name = f.name /\ h.old = f.old
        /\ h.cred = f.cred /\ h.at = a
  BY <1>1 DEF Flight
<1>i. \A g \in flights : g.cred \in 0..Len(issued) /\ g.new \in 0..Len(issued)
  BY DEF TypeOK, Flight
<1>3. CASE ServeRefresh(f)
  <2>1. CASE f.cred # 0 /\ f.cred \notin spent
    <3>1. PICK n \in Nat : n = Len(issued) + 1  BY DEF TypeOK
    <3>2. PICK h : h = [f EXCEPT !.at = "ok", !.new = n]  OBVIOUS
    <3>3. /\ h.kind = f.kind /\ h.who = f.who /\ h.name = f.name /\ h.old = f.old
          /\ h.cred = f.cred /\ h.at = "ok" /\ h.new = n
      BY <1>1, <3>2 DEF Flight
    <3>4. /\ flights' = (flights \ {f}) \cup {h} /\ spent' = spent \cup {f.cred}
          /\ UNCHANGED <<jar, store, tab, cache>>
          /\ issued' = Append(issued, issued[f.cred])
      BY <1>1, <1>3, <2>1, <3>1, <3>2 DEF ServeRefresh, Issue, Step
    <3>5. /\ issued'[n] = issued[f.cred]
          /\ \A i \in 1..Len(issued) : issued'[i] = issued[i]
      BY <1>i, <2>1, <3>1, <3>4 DEF TypeOK
    <3>6. f.kind \in Refreshing /\ f.at = "sent"  BY <1>1, <1>3 DEF ServeRefresh
    <3>7. \A g \in flights : g.kind \in Refreshing => g = f
      BY <3>6 DEF Good, Shape
    <3>8. Shape(t)'  BY <3>3, <3>4 DEF Good, Shape, Mine
    <3>9. CookieGood(t)'
      <4> SUFFICES ASSUME tab[t].auth
                   PROVE  CookieGood(t)'
        BY <3>4 DEF CookieGood
      <4>1. jar # 0 /\ (jar \notin spent \/ \E g \in Mine(Refreshing) : g.at = "ok")
        BY DEF Good, CookieGood
      <4>2. \A g \in flights : g.kind = "logout" \/ (g.kind \in Refreshing /\ g.old) => g.cred # jar
        BY DEF Good, CookieGood
      <4>3. jar \notin spent  BY <3>6, <3>7, <4>1 DEF Mine
      <4>4. f.old => jar \notin spent'  BY <3>4, <3>6, <4>2, <4>3
      <4>5. ~f.old => h \in Mine(Refreshing)'  BY <3>3, <3>4, <3>6 DEF Mine
      <4>6. jar' # 0 /\ (jar' \notin spent' \/ \E g \in Mine(Refreshing)' : g.at = "ok")
        BY <3>3, <3>4, <4>1, <4>4, <4>5
      <4>7. \A g \in flights' :
              g.kind = "logout" \/ (g.kind \in Refreshing /\ g.old) => g.cred # jar'
        BY <3>3, <3>4, <4>2
      <4>8. \A g \in Mine(Refreshing)' : g.at # "sent"
        BY <3>3, <3>4, <3>7 DEF Mine
      <4> QED BY <4>6, <4>7, <4>8 DEF CookieGood
    <3>10. OneAccount(t)'
      <4> SUFFICES ASSUME tab[t].auth, tab[t].ready, OneAccount(t)
                   PROVE  OneAccount(t)'
        BY <3>4 DEF OneAccount, Good
      <4>1. \A g \in Mine(Authorised)' : g.at # "cached" => g.who = tab[t].token
        BY <3>3, <3>4, <3>6 DEF OneAccount, Mine, Refreshing, Authorised
      <4>2. \A g \in Mine(Refreshing)' : g = h
        BY <3>4, <3>7 DEF Mine
      <4>3. ~h.old => issued'[h.new] = tab[t].token
        BY <3>3, <3>5, <3>6 DEF OneAccount, Mine
      <4>4. \A g \in Mine({"data"})' : g.name = tab[t].token
        BY <3>3, <3>4 DEF OneAccount, Mine
      <4>5. issued'[jar'] = tab[t].token
        <5>1. jar \in 1..Len(issued)  BY DEF Good, CookieGood, TypeOK
        <5> QED BY <3>4, <3>5, <5>1 DEF OneAccount
      <4>6. h.at # "sent" /\ tab' = tab /\ store' = store  BY <3>3, <3>4
      <4>7. \A g \in Mine(Refreshing)' :
              /\ g.at = "sent" => issued'[g.cred] = tab[t].token
              /\ g.at = "ok" => issued'[g.new] = tab[t].token
        BY <4>2, <4>3, <4>6 DEF Mine
      <4> QED BY <4>1, <4>4, <4>5, <4>6, <4>7 DEF OneAccount
    <3> QED BY <3>8, <3>9, <3>10 DEF Good
  <2>2. CASE ~(f.cred # 0 /\ f.cred \notin spent)
    <3>1. PICK h : h = [f EXCEPT !.at = "refused"]  OBVIOUS
    <3>2. /\ flights' = (flights \ {f}) \cup {h}
          /\ UNCHANGED <<issued, spent, jar, store, tab, cache>>
      BY <1>1, <1>3, <2>2, <3>1 DEF ServeRefresh, Refuse, Step
    <3>3. f.at # "ok" /\ f.at # "cached"  BY <1>3 DEF ServeRefresh
    <3> QED BY <1>2, <3>1, <3>2, <3>3, GoodAnswered
  <2> QED BY <2>1, <2>2
<1>4. CASE ServeSignIn(f)
  <2>1. CASE Issue(f, f.who)
    <3>1. PICK n \in Nat : n = Len(issued) + 1  BY DEF TypeOK
    <3>2. PICK h : h = [f EXCEPT !.at = "ok", !.new = n]  OBVIOUS
    <3>3. /\ h.kind = f.kind /\ h.who = f.who /\ h.name = f.name /\ h.old = f.old
          /\ h.cred = f.cred /\ h.at = "ok" /\ h.new = n
      BY <1>1, <3>2 DEF Flight
    <3>4. /\ flights' = (flights \ {f}) \cup {h} /\ spent' = spent
          /\ UNCHANGED <<jar, store, tab, cache>>
          /\ issued' = Append(issued, f.who)
      BY <1>1, <1>4, <2>1, <3>1, <3>2 DEF ServeSignIn, Issue, Step
    <3>5. \A i \in 1..Len(issued) : issued'[i] = issued[i]
      BY <3>4 DEF TypeOK
    <3>6. f.kind \notin Refreshing /\ f.kind # "logout" /\ f.kind \notin Authorised
          /\ f.kind # "data"
      BY <1>4 DEF ServeSignIn, Refreshing, Authorised
    <3>7. Shape(t)'  BY <3>3, <3>4 DEF Good, Shape, Mine
    <3>8. CookieGood(t)'  BY <3>3, <3>4, <3>6 DEF Good, CookieGood, Mine
    <3>9. OneAccount(t)'
      <4> SUFFICES ASSUME tab[t].auth, tab[t].ready, OneAccount(t)
                   PROVE  OneAccount(t)'
        BY <3>4 DEF OneAccount, Good
      <4>1. jar \in 1..Len(issued)  BY DEF Good, CookieGood, TypeOK
      <4>2. \A g \in Mine(Refreshing)' : g \in Mine(Refreshing)
        BY <3>3, <3>4, <3>6 DEF Mine
      <4>3. \A g \in Mine(Refreshing) : /\ g.at = "sent" => g.cred \in 1..Len(issued)
                                        /\ g.at = "ok" => g.new \in 1..Len(issued)
        BY <1>i DEF Good, CookieGood, Mine, Tokens, TokenGood, Refreshing, Issuing
      <4>4. \A g \in Mine(Authorised)' : g.at # "cached" => g.who = tab[t].token
        BY <3>3, <3>4, <3>6 DEF OneAccount, Mine
      <4>5. \A g \in Mine({"data"})' : g.name = tab[t].token
        BY <3>3, <3>4, <3>6 DEF OneAccount, Mine
      <4>6. \A g \in Mine(Refreshing)' :
              /\ g.at = "sent" => issued'[g.cred] = tab[t].token
              /\ g.at = "ok" => issued'[g.new] = tab[t].token
        BY <3>5, <4>2, <4>3 DEF OneAccount
      <4> QED BY <3>4, <3>5, <4>1, <4>4, <4>5, <4>6 DEF OneAccount
    <3> QED BY <3>7, <3>8, <3>9 DEF Good
  <2>2. CASE ~Issue(f, f.who)
    <3>1. PICK a \in {"refused", "challenge"} :
             flights' = (flights \ {f}) \cup {[f EXCEPT !.at = a]} /\ issued' = issued
      BY <1>1, <1>4, <2>2 DEF ServeSignIn, Refuse, Step
    <3>2. PICK h : h = [f EXCEPT !.at = a]  OBVIOUS
    <3>3. flights' = (flights \ {f}) \cup {h}  BY <3>1, <3>2
    <3>4. UNCHANGED <<spent, jar, store, tab, cache>>  BY <1>4 DEF ServeSignIn
    <3>5. f.kind \notin Refreshing /\ f.at # "cached"  BY <1>4 DEF ServeSignIn, Refreshing
    <3>6. /\ h.kind = f.kind /\ h.who = f.who /\ h.name = f.name /\ h.old = f.old
          /\ h.cred = f.cred /\ h.at = a
      BY <1>2, <3>2
    <3> QED BY <3>1, <3>3, <3>4, <3>5, <3>6, GoodAnswered
  <2> QED BY <2>1, <2>2
<1>5. CASE ServeLogout(f)
  <2>1. PICK a \in {"refused", "ok"} :
           flights' = (flights \ {f}) \cup {[f EXCEPT !.at = a]}
    BY <1>1, <1>5 DEF ServeLogout, Step
  <2>2. PICK h : h = [f EXCEPT !.at = a]  OBVIOUS
  <2>3. flights' = (flights \ {f}) \cup {h}  BY <2>1, <2>2
  <2>4. UNCHANGED <<issued, jar, store, tab, cache>> /\ spent' \subseteq spent \cup {f.cred}
    BY <1>5 DEF ServeLogout
  <2>5. f.kind \notin Refreshing /\ f.kind = "logout" /\ f.at # "cached"
    BY <1>5 DEF ServeLogout, Refreshing
  <2> QED BY <1>2, <2>1, <2>2, <2>3, <2>4, <2>5, GoodAnswered
<1>6. CASE ServeApi(f)
  <2>1. PICK a \in {"refused", "expired", "ok"} :
           flights' = (flights \ {f}) \cup {[f EXCEPT !.at = a]}
    BY <1>6 DEF ServeApi, Step
  <2>2. PICK h : h = [f EXCEPT !.at = a]  OBVIOUS
  <2>3. flights' = (flights \ {f}) \cup {h}  BY <2>1, <2>2
  <2>4. UNCHANGED <<issued, spent, jar, store, tab, cache>>  BY <1>6 DEF ServeApi
  <2>5. f.kind \notin Refreshing /\ f.at # "cached"
    BY <1>6 DEF ServeApi, Refreshing, Authorised
  <2>6. /\ h.kind = f.kind /\ h.who = f.who /\ h.name = f.name /\ h.old = f.old
        /\ h.cred = f.cred /\ h.at = a
    BY <1>2, <2>2
  <2> QED BY <2>3, <2>4, <2>5, <2>6, GoodAnswered
<1>7. CASE Fail(f)
  <2>1. PICK h : h = [f EXCEPT !.at = "refused", !.new = 0, !.cred = 0]  OBVIOUS
  <2>2. /\ h.kind = f.kind /\ h.who = f.who /\ h.name = f.name /\ h.old = f.old
        /\ h.cred = 0 /\ h.at = "refused"
    BY <1>1, <2>1 DEF Flight
  <2>3. /\ flights' = (flights \ {f}) \cup {h} /\ f.at = "sent"
        /\ UNCHANGED <<issued, spent, jar, store, tab, cache>>
    BY <1>7, <2>1 DEF Fail, Step
  <2> QED BY <2>2, <2>3, GoodAnswered
<1>8. CASE FallBack(f)
  <2>1. PICK h : /\ \E a \in swCache : h = [f EXCEPT !.at = "cached", !.who = a]
                 /\ flights' = (flights \ {f}) \cup {h}
    BY <1>8 DEF FallBack, Step
  <2>2. /\ h.kind = f.kind /\ h.name = f.name /\ h.old = f.old
        /\ h.cred = f.cred /\ h.at = "cached"
    BY <1>1, <2>1 DEF Flight
  <2>3. /\ f.at = "sent" /\ f.kind \notin Refreshing
        /\ UNCHANGED <<issued, spent, jar, store, tab>>
    BY <1>8 DEF FallBack, Refreshing
  <2> QED BY <2>1, <2>2, <2>3, GoodAnswered
<1> QED BY <1>3, <1>4, <1>5, <1>6, <1>7, <1>8 DEF Serve

(* The answer of a request other than a renewal, and the cookie it may     *)
(* bring.                                                                  *)
LEMMA GoodGone ==
  ASSUME OneTab, TypeOK, Tokens, NEW t \in Tabs, Good(t), NEW f \in flights,
         flights' = flights \ {f}, f.kind \notin Refreshing,
         jar' = jar \/ (f.new # 0 /\ jar' = f.new /\ issued[f.new] = tab[t].token),
         UNCHANGED <<issued, spent>>,
         store'.session = store.session,
         store'.email = store.email \/ store'.email = tab[t].token,
         tab'[t].auth = tab[t].auth, tab'[t].ready = tab[t].ready,
         tab'[t].token = tab[t].token,
         \/ tab'[t].user = tab[t].user /\ tab'[t].booted = tab[t].booted
            /\ store'.email = store.email
         \/ /\ tab'[t].user = tab[t].token /\ store'.email = tab[t].token
            /\ tab'[t].booted = (tab[t].booted \/ tab'[t].booted)
            /\ tab[t].auth /\ tab[t].ready
  PROVE  Good(t)'
<1>1. Shape(t)'
  BY DEF Good, Shape, Mine
<1>2. CookieGood(t)'
  <2> SUFFICES ASSUME tab[t].auth PROVE CookieGood(t)'
    BY DEF CookieGood
  <2>1. jar # 0 /\ (jar \notin spent \/ \E g \in Mine(Refreshing) : g.at = "ok")
    BY DEF Good, CookieGood
  <2>2. \A g \in flights : g.kind = "logout" \/ (g.kind \in Refreshing /\ g.old) => g.cred # jar
    BY DEF Good, CookieGood
  <2>3. \A g \in Mine(Refreshing) : g.at = "sent" =>
         /\ g.cred # 0 /\ g.cred \notin spent
         /\ \A e \in flights : e.kind = "logout" => e.cred # g.cred
    BY DEF Good, CookieGood
  <2>4. f.new # 0 => f.new \notin spent /\ \A g \in flights : g.cred # f.new
    BY DEF Tokens, TokenGood
  <2>5. jar' # 0 /\ (jar' \notin spent' \/ \E g \in Mine(Refreshing)' : g.at = "ok")
    BY <2>1, <2>4 DEF Mine
  <2>6. \A g \in flights' : g.kind = "logout" \/ (g.kind \in Refreshing /\ g.old) => g.cred # jar'
    BY <2>2, <2>4
  <2>7. \A g \in Mine(Refreshing)' : g.at = "sent" =>
         /\ g.cred # 0 /\ g.cred \notin spent'
         /\ \A e \in flights' : e.kind = "logout" => e.cred # g.cred
    BY <2>3 DEF Mine
  <2> QED BY <2>5, <2>6, <2>7 DEF CookieGood
<1>3. OneAccount(t)'
  BY DEF Good, OneAccount, Mine
<1> QED BY <1>1, <1>2, <1>3 DEF Good

(* Signing in starts a session with a cookie nobody else has presented. *)
LEMMA GoodSignIn ==
  ASSUME OneTab, TypeOK, Tokens, NEW t \in Tabs, Good(t), NEW f \in flights,
         f.kind \in {"login", "code"}, f.at = "ok", ~f.old, SignIn(f),
         jar' = Cookie(f), UNCHANGED <<issued, spent>>
  PROVE  Good(t)'
<1>1. f \in Flight /\ f.tab = t /\ f.who \in People
  BY DEF TypeOK, Flight, OneTab
<1>2. f.new # 0 /\ jar' = f.new /\ f.new \notin spent /\ issued[f.new] = f.who
      /\ (\A g \in flights : g.cred # f.new) /\ f.who # None
  BY DEF Tokens, TokenGood, Issuing, SignsIn, Cookie
<1>3. tab[t].auth = FALSE
  BY <1>1 DEF Good, Shape, Mine, TypeOK, Memory
<1> DEFINE fs == Older(t, flights \ {f})
           r == Request(t, "profile", f.who, None, 0)
<1>4. r.kind = "profile" /\ r.who = f.who /\ r.cred = 0 /\ r.at = "sent"
  BY DEF Request
<1>5. flights' = fs \/ flights' = fs \cup {r}
  BY <1>1 DEF SignIn, Bootstrap
<1>6. \A g \in fs : g \in Flight /\ g.old /\ \E h \in flights : Same(g, h)
  <2>1. flights \ {f} \subseteq Flight  BY DEF TypeOK
  <2> QED BY <2>1, OlderIs DEF Flight, OneTab
<1> HIDE DEF fs, r
<1>7. \A g \in flights' : g.at # "orphan" /\ g.kind # "restore"
  BY <1>3, <1>4, <1>5, <1>6 DEF Good, Shape, Same
<1>8. \A g, h \in flights' : g.kind \in Refreshing /\ h.kind \in Refreshing => g = h
  <2> SUFFICES ASSUME NEW g \in flights', NEW h \in flights',
                      g.kind \in Refreshing, h.kind \in Refreshing
               PROVE  g = h
    OBVIOUS
  <2>1. g \in fs /\ h \in fs  BY <1>4, <1>5 DEF Refreshing
  <2>2. PICK d \in flights : Same(g, d)  BY <1>6, <2>1
  <2>3. PICK e \in flights : Same(h, e)  BY <1>6, <2>1
  <2>4. d = e  BY <2>2, <2>3 DEF Same, Good, Shape
  <2>5. Same(g, h) /\ g.old /\ h.old  BY <1>6, <2>1, <2>2, <2>3, <2>4 DEF Same
  <2>6. g \in Flight /\ h \in Flight  BY <1>6, <2>1
  <2>7. g.old = h.old  BY <2>5, <2>6 DEF Flight
  <2> QED BY <2>5, <2>6, <2>7, SameFlight
<1>9. \A g \in flights' : ~g.old => g.kind = "profile" /\ g.who = f.who
  BY <1>4, <1>5, <1>6
<1>10. /\ tab'[t].auth = TRUE /\ tab'[t].ready = TRUE /\ tab'[t].token = f.who
       /\ tab'[t].booted = FALSE /\ store'.session = TRUE
  BY <1>1 DEF SignIn, TypeOK, Storage
<1>11. \A g \in flights' : g.cred # f.new
  <2>1. \A g \in fs : g.cred # f.new  BY <1>2, <1>6 DEF Same
  <2> QED BY <1>2, <1>4, <1>5, <2>1
<1>12. Shape(t)'
  BY <1>7, <1>8, <1>9, <1>10 DEF Shape, Mine
<1>13. CookieGood(t)'
  BY <1>2, <1>9, <1>10, <1>11 DEF CookieGood, Mine, Refreshing
<1>14. OneAccount(t)'
  BY <1>2, <1>9, <1>10 DEF OneAccount, Mine, Refreshing
<1> QED BY <1>12, <1>13, <1>14 DEF Good

(* A request that met a 401 shares the renewal of the tab, or starts it. *)
LEMMA GoodRenew ==
  ASSUME OneTab, TypeOK, Tokens, NEW t \in Tabs, Good(t), NEW f \in flights, Renew(f)
  PROVE  Good(t)'
<1>1. f \in Flight /\ f.tab = t /\ f.kind \in Authorised /\ f.at = "expired"
  BY DEF TypeOK, Flight, OneTab, Renew
<1>2. PICK h : h = [f EXCEPT !.at = "waiting"]  OBVIOUS
<1>3. /\ h.kind = f.kind /\ h.who = f.who /\ h.name = f.name /\ h.old = f.old
      /\ h.cred = f.cred /\ h.new = f.new /\ h.at = "waiting"
  BY <1>1, <1>2 DEF Flight
<1> DEFINE r == Request(t, "renew", None, None, jar)
           renewing == Awaiting(t, {"renew"})
<1>4. r.kind = "renew" /\ r.at = "sent" /\ r.cred = jar /\ ~r.old
  BY DEF Request
<1>5. flights' = (flights \ {f}) \cup {h} \cup (IF renewing # {} THEN {} ELSE {r})
  BY <1>1, <1>2 DEF Renew, Renewal
<1>6. UNCHANGED <<issued, spent, jar, store, tab, cache>>
  BY DEF Renew
<1>7. f.kind \notin Refreshing /\ f.kind # "logout" /\ f.kind # "restore"
  BY <1>1 DEF Authorised, Refreshing
<1>8. tab[t].auth => tab[t].ready
  BY <1>7 DEF Good, Shape
<1>9. \A g \in flights : g.kind # "restore"
  BY <1>8 DEF Good, Shape
<1>10. renewing = {} => \A g \in flights : g.kind \notin Refreshing
  <2>1. \A g \in flights : g.tab = t /\ g.at # "orphan"
    BY DEF Good, Shape, TypeOK, Flight, OneTab
  <2> QED BY <1>9, <2>1 DEF Awaiting, Refreshing
<1> HIDE DEF r, renewing
<1>11. Shape(t)'
  <2>1. \A g \in flights' : g.at # "orphan" /\ g.kind # "restore"
    BY <1>3, <1>4, <1>5, <1>7, <1>9 DEF Good, Shape
  <2>2. \A g, e \in flights' : g.kind \in Refreshing /\ e.kind \in Refreshing => g = e
    BY <1>3, <1>5, <1>7, <1>10 DEF Good, Shape
  <2>3. \A g \in Mine({"login", "code", "logout"})' : ~tab[t].auth
    BY <1>3, <1>4, <1>5 DEF Good, Shape, Mine
  <2>4. \A g \in Mine(Authorised \cup {"unlock"})' : tab[t].auth
    BY <1>3, <1>4, <1>5 DEF Good, Shape, Mine, Authorised
  <2> QED BY <1>6, <1>8, <2>1, <2>2, <2>3, <2>4 DEF Good, Shape
<1>12. CookieGood(t)'
  <2> SUFFICES ASSUME tab[t].auth PROVE CookieGood(t)'
    BY <1>6 DEF CookieGood
  <2>1. jar # 0 /\ (jar \notin spent \/ \E g \in Mine(Refreshing) : g.at = "ok")
    BY DEF Good, CookieGood
  <2>2. \A g \in flights : g.kind = "logout" \/ (g.kind \in Refreshing /\ g.old) => g.cred # jar
    BY DEF Good, CookieGood
  <2>3. \A g \in Mine(Refreshing) : g.at = "sent" =>
         /\ g.cred # 0 /\ g.cred \notin spent
         /\ \A e \in flights : e.kind = "logout" => e.cred # g.cred
    BY DEF Good, CookieGood
  <2>4. renewing = {} => jar \notin spent
    BY <1>10, <2>1 DEF Mine
  <2>5. jar' # 0 /\ (jar' \notin spent' \/ \E g \in Mine(Refreshing)' : g.at = "ok")
    BY <1>5, <1>6, <1>7, <2>1 DEF Mine
  <2>6. \A g \in flights' : g.kind = "logout" \/ (g.kind \in Refreshing /\ g.old) => g.cred # jar'
    BY <1>3, <1>4, <1>5, <1>6, <1>7, <2>2
  <2>7. \A g \in Mine(Refreshing)' : g.at = "sent" =>
         /\ g.cred # 0 /\ g.cred \notin spent'
         /\ \A e \in flights' : e.kind = "logout" => e.cred # g.cred
    <3>1. \A e \in flights' : e.kind = "logout" => e \in flights
      BY <1>3, <1>4, <1>5, <1>7
    <3>2. \A g \in Mine(Refreshing)' : g \in Mine(Refreshing) \/ (g = r /\ renewing = {})
      BY <1>3, <1>5, <1>7 DEF Mine
    <3> QED BY <1>4, <1>6, <2>1, <2>2, <2>3, <2>4, <3>1, <3>2
  <2> QED BY <2>5, <2>6, <2>7 DEF CookieGood
<1>13. OneAccount(t)'
  BY <1>1, <1>3, <1>4, <1>5, <1>6, <1>7 DEF Good, OneAccount, Mine, Authorised, Refreshing
<1> QED BY <1>11, <1>12, <1>13 DEF Good

(* The session that a reload restores. *)
LEMMA GoodRestored ==
  ASSUME OneTab, TypeOK, Tokens, NEW t \in Tabs, Good(t), NEW f \in flights, HearRestore(f)
  PROVE  Good(t)'
<1>1. f \in Flight /\ f.tab = t /\ f.kind = "restore" /\ f.kind \in Refreshing
  BY DEF TypeOK, Flight, OneTab, HearRestore, Refreshing
<1>2. tab[t].auth /\ ~tab[t].ready
  BY <1>1 DEF Good, Shape
<1>3. \A g \in flights : g = f
  BY <1>1, <1>2 DEF Good, Shape, Refreshing
<1>4. CASE f.at = "ok"
  <2> DEFINE r == Request(t, "profile", issued[f.new], None, 0)
  <2>1. r.kind = "profile" /\ r.who = issued[f.new] /\ r.at = "sent"
    BY DEF Request
  <2>2. flights' = {r}
    BY <1>1, <1>3, <1>4 DEF HearRestore, Bootstrap
  <2> HIDE DEF r
  <2>3. f.new # 0 /\ jar' = f.new /\ f.new \notin spent
    BY <1>1, <1>4 DEF HearRestore, Cookie, Tokens, TokenGood, Issuing
  <2>4. issued[f.new] # None
    <3>1. f.new \in 1..Len(issued)  BY <1>1, <2>3 DEF TypeOK, Flight
    <3> QED BY <3>1, SessionAssumption DEF TypeOK
  <2>5. /\ tab'[t].auth = tab[t].auth /\ tab'[t].ready = TRUE
        /\ tab'[t].token = issued[f.new] /\ tab'[t].booted = tab[t].booted
        /\ UNCHANGED <<issued, spent, store, cache>>
    BY <1>1, <1>4 DEF HearRestore, TypeOK, Memory
  <2>6. ~tab[t].booted
    BY <1>2 DEF Good, Shape
  <2>7. Shape(t)'
    BY <1>2, <2>1, <2>2, <2>5 DEF Good, Shape, Mine, Refreshing
  <2>8. CookieGood(t)'
    BY <2>1, <2>2, <2>3, <2>5 DEF CookieGood, Mine, Refreshing
  <2>9. OneAccount(t)'
    BY <2>1, <2>2, <2>3, <2>4, <2>5, <2>6 DEF OneAccount, Mine, Refreshing
  <2> QED BY <2>7, <2>8, <2>9 DEF Good
<1>5. CASE f.at # "ok"
  <2>1. SignOut(t, flights \ {f}) /\ flights \ {f} = {}
    BY <1>1, <1>3, <1>5 DEF HearRestore
  <2> QED BY <2>1, GoodSignOut
<1> QED BY <1>4, <1>5

(* A renewal ends: the waiting requests go on with the new token, or the   *)
(* session ends.                                                           *)
LEMMA GoodRenewed ==
  ASSUME OneTab, TypeOK, Tokens, NEW t \in Tabs, Good(t), NEW f \in flights, HearRenew(f), ~late'
  PROVE  Good(t)'
<1> DEFINE others == flights \ {f}
<1>1. /\ f \in Flight /\ f.tab = t /\ f.kind = "renew" /\ f.kind \in Refreshing
      /\ UNCHANGED <<issued, spent>>
  BY DEF TypeOK, Flight, OneTab, HearRenew, Refreshing
<1>2. ~f.old  BY <1>1 DEF HearRenew, LateFor, TypeOK
<1>3. tab[t].auth => tab[t].ready
  BY <1>1 DEF Good, Shape
<1>4. \A g \in others : g.kind \notin Refreshing /\ g.kind # "restore" /\ g.at # "orphan"
  BY <1>1 DEF Good, Shape, Refreshing
<1>5. others \subseteq Flight  BY DEF TypeOK
<1>6. CASE f.at = "ok"
  <2> DEFINE token == issued[f.new]
  <2>1. /\ f.new # 0 /\ jar' = f.new /\ f.new \notin spent /\ \A g \in flights : g.cred # f.new
    BY <1>1, <1>6 DEF HearRenew, Cookie, Tokens, TokenGood, Issuing
  <2>2. token \in People
    <3>1. f.new \in 1..Len(issued)  BY <1>1, <2>1 DEF TypeOK, Flight
    <3> QED BY <3>1 DEF TypeOK, People
  <2>3. \A g \in flights' : \E e \in others :
          IF e.tab = t /\ e.at = "waiting" THEN Resumed(g, e, token, "sent") ELSE g = e
    BY <1>1, <1>5, <1>6, <2>2, RetriedIs DEF HearRenew
  <2>4. tab[t].auth => token = tab[t].token
    BY <1>1, <1>2, <1>3, <1>6 DEF Good, OneAccount, Mine
  <2>5. /\ tab'[t].auth = tab[t].auth /\ tab'[t].ready = tab[t].ready
        /\ tab'[t].user = tab[t].user /\ tab'[t].booted = tab[t].booted
        /\ tab'[t].token = token
        /\ UNCHANGED <<store, cache>>
    BY <1>1, <1>6 DEF HearRenew, TypeOK, Memory
  <2> HIDE DEF token, others
  <2>6. \A g \in flights' : \E e \in others :
          /\ g.kind = e.kind /\ g.old = e.old /\ g.name = e.name /\ g.cred = e.cred
          /\ \/ g.at = e.at /\ g.who = e.who
             \/ g.at = "sent" /\ g.who = token
    BY <2>3 DEF Resumed
  <2>7. \A g \in others : g \in flights  BY DEF others
  <2>8. Shape(t)'
    <3>1. \A g \in flights' : g.at # "orphan" /\ g.kind \notin Refreshing /\ g.kind # "restore"
      BY <1>4, <2>6
    <3>2. \A g \in Mine({"login", "code", "logout"})' : ~tab[t].auth
      BY <2>6, <2>7 DEF Good, Shape, Mine
    <3>3. \A g \in Mine(Authorised \cup {"unlock"})' : tab[t].auth
      BY <2>6, <2>7 DEF Good, Shape, Mine
    <3> QED BY <1>3, <2>5, <3>1, <3>2, <3>3 DEF Good, Shape
  <2>9. CookieGood(t)'
    BY <1>1, <1>4, <2>1, <2>5, <2>6, <2>7 DEF CookieGood, Mine
  <2>10. OneAccount(t)'
    <3> SUFFICES ASSUME tab[t].auth, tab[t].ready, OneAccount(t)
                 PROVE  OneAccount(t)'
      BY <2>5 DEF OneAccount, Good
    <3>1. \A g \in Mine(Authorised)' : g.at # "cached" => g.who = token
      BY <2>4, <2>6, <2>7 DEF OneAccount, Mine
    <3>2. Mine(Refreshing)' = {}
      BY <1>4, <2>6 DEF Mine
    <3>3. \A g \in Mine({"data"})' : g.name = token
      BY <2>4, <2>6, <2>7 DEF OneAccount, Mine
    <3>4. token # None /\ issued'[jar'] = token
      BY <1>1, <2>1, <2>4 DEF OneAccount, token
    <3> QED BY <2>4, <2>5, <3>1, <3>2, <3>3, <3>4 DEF OneAccount
  <2> QED BY <2>8, <2>9, <2>10 DEF Good
<1>7. CASE f.at # "ok"
  <2> DEFINE fs == GivenUp(others, t)
  <2>1. SignOut(t, fs)  BY <1>1, <1>7 DEF HearRenew
  <2>2. \A g \in fs : /\ g \in Flight
                      /\ \E e \in others : IF e.tab = t /\ e.at = "waiting"
                                            THEN Resumed(g, e, e.who, "refused") ELSE g = e
    BY <1>5, GivenUpIs
  <2> HIDE DEF fs, others
  <2>3. \A g \in fs : g.at # "orphan" /\ g.kind \notin Refreshing /\ g.kind # "restore"
    BY <1>4, <2>2 DEF Resumed
  <2> QED BY <2>1, <2>2, <2>3, GoodSignOut
<1> QED BY <1>6, <1>7

(* The profile is the one of the account the token acts for. *)
LEMMA GoodProfile ==
  ASSUME OneTab, TypeOK, Tokens, NEW t \in Tabs, Good(t), NEW f \in flights, HearProfile(f),
         ~late', ~lost'
  PROVE  Good(t)'
<1> DEFINE others == flights \ {f}
<1>1. /\ f \in Flight /\ f.tab = t /\ f.kind \in Authorised /\ f.kind # "restore"
      /\ f.kind \notin Refreshing /\ f.kind # "data" /\ f.kind # "logout"
      /\ UNCHANGED <<issued, spent, jar>>
  BY DEF TypeOK, Flight, OneTab, HearProfile, Refreshing, Authorised
<1>2. ~f.old  BY <1>1 DEF HearProfile, LateFor, TypeOK
<1>3. tab[t].auth /\ tab[t].ready
  BY <1>1, <1>2 DEF Good, Shape, Mine
<1>4. f.who = tab[t].token
  BY <1>1, <1>2, <1>3 DEF Good, OneAccount, Mine, HearProfile
<1>t. tab \in [Tabs -> Memory] /\ tab[t] \in Memory /\ store \in Storage
  BY DEF TypeOK
<1>5. CASE SignOut(t, others)
  <2>1. others \subseteq Flight  BY DEF TypeOK
  <2>2. \A g \in others : g.at # "orphan" /\ g.kind # "restore"
    BY <1>3 DEF Good, Shape
  <2>3. \A g, h \in others : g.kind \in Refreshing /\ h.kind \in Refreshing => g = h
    BY DEF Good, Shape
  <2> QED BY <1>5, <2>1, <2>2, <2>3, GoodSignOut
<1>6. CASE Applied(t, f, others)
  <2>1. /\ flights' = flights \ {f}
        /\ store'.session = store.session /\ store'.email = f.who
    BY <1>t, <1>6 DEF Applied, Storage
  <2>2. /\ tab'[t].auth = tab[t].auth /\ tab'[t].ready = tab[t].ready
        /\ tab'[t].token = tab[t].token /\ tab'[t].user = f.who
        /\ tab'[t].booted \in BOOLEAN /\ (tab[t].booted => tab'[t].booted)
    BY <1>t, <1>6 DEF Applied, UserNow, Memory
  <2>3. tab'[t].booted = (tab[t].booted \/ tab'[t].booted)
    BY <1>t, <2>2 DEF Memory
  <2> QED BY <1>1, <1>3, <1>4, <2>1, <2>2, <2>3, GoodGone
<1>7. CASE f.at = "refused" /\ f.kind # "reject"
  <2>1. f.kind # "profile"  BY <1>7 DEF HearProfile
  <2>2. /\ flights' = flights \ {f} /\ UNCHANGED <<store, cache>>
        /\ tab' = [tab EXCEPT ![t].booted = @ \/ (tab[t].auth /\ tab[t].ready
                                                    /\ f.kind = "profile")]
    BY <1>1, <1>7 DEF HearProfile, Applied
  <2>3. /\ tab'[t].auth = tab[t].auth /\ tab'[t].ready = tab[t].ready
        /\ tab'[t].token = tab[t].token /\ tab'[t].user = tab[t].user
        /\ tab'[t].booted = tab[t].booted
    BY <1>t, <2>1, <2>2 DEF Memory
  <2> QED BY <1>1, <2>2, <2>3, GoodGone
<1> QED BY <1>1, <1>5, <1>6, <1>7 DEF HearProfile

(* The delivery of an answer. *)
LEMMA GoodHear ==
  ASSUME OneTab, TypeOK, Tokens, NEW t \in Tabs, Good(t), NEW f \in flights, Hear(f),
         ~late', ~lost'
  PROVE  Good(t)'
<1>1. f \in Flight /\ f.tab = t /\ f.old \in BOOLEAN
  BY DEF TypeOK, Flight, OneTab
<1>t. tab \in [Tabs -> Memory] /\ tab[t] \in Memory /\ store \in Storage
  BY DEF TypeOK
<1>2. CASE HearSignIn(f)
  <2>1. ~f.old /\ f.kind \notin Refreshing /\ f.kind # "logout"
    BY <1>1, <1>2 DEF HearSignIn, LateFor, TypeOK, Refreshing
  <2>2. CASE f.at = "ok"
    BY <1>2, <2>1, <2>2, GoodSignIn DEF HearSignIn
  <2>3. CASE f.at # "ok"
    <3>1. f.new = 0  BY <2>3 DEF Tokens, TokenGood
    <3>2. jar' = jar  BY <1>2, <2>1, <3>1 DEF HearSignIn, Cookie
    <3>3. flights' = flights \ {f} /\ UNCHANGED <<issued, spent, store, tab, cache>>
      BY <1>2, <2>3 DEF HearSignIn
    <3> QED BY <2>1, <3>2, <3>3, GoodGone
  <2> QED BY <2>2, <2>3
<1>3. CASE HearUnlock(f)
  <2>1. ~f.old /\ f.kind \notin Refreshing /\ f.kind = "unlock"
    BY <1>1, <1>3 DEF HearUnlock, LateFor, TypeOK, Refreshing
  <2>2. flights' = flights \ {f} /\ UNCHANGED <<issued, spent, cache>>
    BY <1>3 DEF HearUnlock
  <2>3. CASE f.at = "ok"
    <3>1. f.who = tab[t].token
      BY <1>1, <1>3, <2>1, <2>3 DEF HearUnlock, LateFor, TypeOK
    <3>2. tab[t].auth /\ store.session
      BY <2>1 DEF Good, Shape, Mine
    <3>3. f.new # 0 /\ jar' = f.new /\ issued[f.new] = tab[t].token
      BY <1>3, <2>1, <2>3, <3>1 DEF HearUnlock, Cookie, Tokens, TokenGood, Issuing, SignsIn
    <3>4. store'.session = store.session /\ store'.email = store.email
      BY <1>t, <1>3, <2>3, <3>2 DEF HearUnlock, Storage
    <3>5. /\ tab'[t].auth = tab[t].auth /\ tab'[t].ready = tab[t].ready
          /\ tab'[t].token = tab[t].token /\ tab'[t].user = tab[t].user
          /\ tab'[t].booted = tab[t].booted
      BY <1>t, <1>1, <1>3, <2>3, <3>1 DEF HearUnlock, Memory
    <3> QED BY <2>1, <2>2, <3>3, <3>4, <3>5, GoodGone
  <2>4. CASE f.at # "ok"
    <3>1. f.new = 0  BY <2>4 DEF Tokens, TokenGood
    <3>2. jar' = jar /\ UNCHANGED <<store, tab>>
      BY <1>3, <2>1, <2>4, <3>1 DEF HearUnlock, Cookie
    <3> QED BY <2>1, <2>2, <3>2, GoodGone
  <2> QED BY <2>3, <2>4
<1>4. CASE HearLogout(f)
  <2>1. /\ jar = f.cred /\ f.kind = "logout" /\ f.kind \notin Refreshing
        /\ flights' = flights \ {f} /\ UNCHANGED <<issued, spent, store, tab, cache>>
    BY <1>4 DEF HearLogout, LateFor, TypeOK, Refreshing
  <2>2. ~tab[t].auth
    BY <2>1 DEF Good, CookieGood
  <2>3. Shape(t)'  BY <2>1 DEF Good, Shape, Mine
  <2> QED BY <2>1, <2>2, <2>3 DEF Good, CookieGood, OneAccount
<1>5. CASE HearData(f)
  <2>1. /\ f.kind = "data" /\ f.kind \in Authorised /\ f.kind \notin Refreshing
        /\ f.kind # "restore" /\ flights' = flights \ {f}
        /\ UNCHANGED <<issued, spent, jar, store, tab>>
    BY <1>5 DEF HearData, Authorised, Refreshing
  <2> QED BY <2>1, GoodGone
<1> QED BY <1>2, <1>3, <1>4, <1>5, GoodRestored, GoodRenew, GoodRenewed, GoodProfile DEF Hear

(* Every step that loses no answer and delivers none late. *)
LEMMA GoodStep ==
  ASSUME OneTab, TypeOK, Tokens, NEW t \in Tabs, ~lost /\ ~late => Good(t), [Next]_vars,
         ~lost', ~late'
  PROVE  Good(t)'
<1>1. lost \in BOOLEAN /\ late \in BOOLEAN  BY DEF TypeOK
<1>2. ~lost /\ ~late
  BY <1>1 DEF Next, vars, SwitchMode, TypeEmail, Submit, Register, SubmitCode, CancelMfa,
     DemoLogin, BiometricLogin, Logout, EnableLock, DisableLock, ComeBack, Unlock,
     AnswerTerms, FetchData, Reload, Serve, ServeRefresh, ServeSignIn, ServeLogout, ServeApi,
     Fail, FallBack, Persist, Keep, Hear, HearSignIn, HearUnlock, HearRestore, Renew, HearRenew, HearLogout,
     HearProfile, HearData
<1>3. Good(t)  BY <1>2
<1>4. CASE UNCHANGED vars  BY <1>3, <1>4, GoodKept DEF vars
<1>5. ASSUME NEW u \in Tabs, Persist(u) PROVE Good(t)'
  BY <1>3, <1>5, GoodKept DEF Persist
<1>6. ASSUME NEW p \in puts, Keep(p) PROVE Good(t)'
  BY <1>3, <1>6, GoodKept DEF Keep
<1> QED BY <1>3, <1>4, <1>5, <1>6, GoodForm, GoodRequest, GoodLogout, GoodReload, GoodServe, GoodHear DEF Next
-----------------------------------------------------------------------------
(* Whose answers the caches keep: what the worker holds, is about to store *)
(* or has handed out in this session belongs to the account of the cookie. *)

(* What the query cache and its stored copy keep. *)
OwnAnswers(t) == ~stray => \A c \in cache[t] \cup blob : c[1] = c[2]

(* What the worker keeps, and what it answered for the network. *)
OwnCopies(t) ==
  tab[t].auth =>
    /\ \A p \in puts : ~p.old => p.who = issued[jar]
    /\ ~stray => /\ \A a \in swCache : a = issued[jar]
                 /\ \A f \in Mine({"data"}) : f.at = "cached" => f.who = issued[jar]

(* The session that is being restored is the one of the cookie. *)
OwnRestore(t) ==
  tab[t].auth => \A f \in flights : f.kind = "restore" =>
    /\ f.at = "sent" => f.cred = jar
    /\ f.at = "ok" => issued[f.new] = issued[jar]

Caches(t) == OwnAnswers(t) /\ OwnCopies(t) /\ OwnRestore(t)
Kept == ~lost /\ ~late => \A t \in Tabs : Caches(t)

(* The account of the cookie stays the account of the session. *)
SameAccount(t) ==
  tab'[t].auth => tab[t].auth /\ issued'[jar'] = issued[jar]

(* Steps that store nothing and take no answer from the worker. *)
LEMMA CachesKept ==
  ASSUME NEW t \in Tabs, Caches(t), SameAccount(t), UNCHANGED <<saved, cache>>,
         \A g \in flights' : g.kind = "data" /\ ~g.old /\ g.at = "cached" =>
           \E e \in flights : e.kind = "data" /\ ~e.old /\ e.at = "cached" /\ e.who = g.who,
         OwnRestore(t)'
  PROVE  Caches(t)'
<1>1. OwnAnswers(t)'  BY DEF Caches, OwnAnswers, saved
<1>2. OwnCopies(t)'  BY DEF Caches, OwnCopies, saved, Mine, SameAccount
<1> QED BY <1>1, <1>2 DEF Caches

(* A session that is ready awaits no restore. *)
LEMMA NoRestore ==
  ASSUME NEW t \in Tabs, Good(t)', tab'[t].auth => tab'[t].ready
  PROVE  OwnRestore(t)'
BY DEF Good, Shape, OwnRestore

(* Requests added or taken away, on behalf of the same session. *)
LEMMA CachesFlights ==
  ASSUME NEW t \in Tabs, Caches(t), UNCHANGED <<saved, cache, issued>>,
         tab'[t].auth => tab[t].auth /\ jar' = jar,
         \A g \in flights' : g \in flights \/ (g.at # "cached" /\ g.kind # "restore")
  PROVE  Caches(t)'
<1>1. SameAccount(t)  BY DEF SameAccount
<1>2. OwnRestore(t)'  BY DEF Caches, OwnRestore
<1> QED BY <1>1, <1>2, CachesKept

(* The end of a session clears the caches; so does the start of the next.  *)
LEMMA CachesReset ==
  ASSUME TypeOK, NEW t \in Tabs, ResetClientState(t), Good(t)',
         tab'[t].auth => tab'[t].ready, \A g \in flights' : ~g.old => g.kind # "data"
  PROVE  Caches(t)'
<1>1. cache'[t] = {} /\ blob' = {} /\ swCache' = {} /\ \A p \in puts' : p.old
  <2>1. \A p \in puts : [p EXCEPT !.old = TRUE].old  BY DEF TypeOK, Put
  <2> QED BY <2>1, ResetTypes DEF ResetClientState
<1>2. OwnAnswers(t)'  BY <1>1 DEF OwnAnswers
<1>3. OwnCopies(t)'  BY <1>1 DEF OwnCopies, Mine
<1> QED BY <1>2, <1>3, NoRestore DEF Caches

(* The flights a sign-out leaves are of the session that ended. *)
LEMMA CachesSignOut ==
  ASSUME OneTab, TypeOK, NEW t \in Tabs, NEW fs, fs \subseteq Flight, SignOut(t, fs), Good(t)'
  PROVE  Caches(t)'
<1>1. tab'[t].auth = FALSE /\ ResetClientState(t)  BY DEF SignOut, SignedOut, TypeOK
<1>2. \A g \in flights' : ~g.old => g.kind # "data"
  BY <1>1 DEF Good, Shape, Mine, Authorised
<1> QED BY <1>1, <1>2, CachesReset

(* The user's steps, the worker's and the persister's. *)
LEMMA CachesTab ==
  ASSUME OneTab, TypeOK, NEW t \in Tabs, Good(t), Good(t)', Caches(t), NEW u \in Tabs,
         \/ SwitchMode(u) \/ TypeEmail(u) \/ Submit(u) \/ Register(u) \/ SubmitCode(u)
         \/ CancelMfa(u) \/ DemoLogin(u) \/ BiometricLogin(u) \/ Logout(u)
         \/ EnableLock(u) \/ DisableLock(u) \/ ComeBack(u) \/ Unlock(u)
         \/ AnswerTerms(u) \/ FetchData(u) \/ Persist(u)
  PROVE  Caches(t)'
<1>1. tab[t] \in Memory /\ tab \in [Tabs -> Memory] /\ u = t
  BY DEF TypeOK, OneTab
<1>2. ASSUME UNCHANGED <<saved, cache, issued, jar, flights>>, tab'[t].auth = tab[t].auth
      PROVE  Caches(t)'
  BY <1>2, CachesFlights
<1>3. CASE SwitchMode(u) \/ TypeEmail(u) \/ Register(u) \/ CancelMfa(u) \/ EnableLock(u)
  BY <1>2, <1>3 DEF SwitchMode, TypeEmail, Register, CancelMfa, EnableLock
<1>4. CASE DisableLock(u) \/ ComeBack(u)
  <2>1. tab'[t].auth = tab[t].auth
    BY <1>1, <1>4 DEF DisableLock, ComeBack, Memory
  <2> QED BY <1>2, <1>4, <2>1 DEF DisableLock, ComeBack
<1>5. ASSUME NEW kind, NEW who, NEW name, NEW cred, kind # "restore",
             flights' = flights \cup {Request(t, kind, who, name, cred)},
             UNCHANGED <<saved, cache, issued, jar, tab>>
      PROVE  Caches(t)'
  <2>1. /\ Request(t, kind, who, name, cred).kind = kind
        /\ Request(t, kind, who, name, cred).at = "sent"
    BY DEF Request
  <2> QED BY <1>5, <2>1, CachesFlights
<1>6. CASE Submit(u)  BY <1>1, <1>5, <1>6 DEF Submit
<1>7. CASE SubmitCode(u)  BY <1>1, <1>5, <1>7 DEF SubmitCode
<1>8. CASE DemoLogin(u)  BY <1>1, <1>5, <1>8 DEF DemoLogin
<1>9. CASE BiometricLogin(u)  BY <1>1, <1>5, <1>9 DEF BiometricLogin
<1>10. CASE Unlock(u)  BY <1>1, <1>5, <1>10 DEF Unlock
<1>11. CASE AnswerTerms(u)
  <2>1. PICK kind \in {"accept", "reject"} :
          flights' = flights \cup {Request(t, kind, tab[t].token, None, 0)}
    BY <1>1, <1>11 DEF AnswerTerms
  <2> QED BY <1>5, <1>11, <2>1 DEF AnswerTerms
<1>12. CASE FetchData(u)  BY <1>1, <1>5, <1>12 DEF FetchData
<1>13. CASE Logout(u)
  BY <1>1, <1>13, CachesSignOut DEF Logout, TypeOK
<1>14. CASE Persist(u)
  <2>1. /\ blob' = cache[t]
        /\ UNCHANGED <<issued, jar, swCache, puts, stray, tab, cache, flights>>
    BY <1>1, <1>14 DEF Persist
  <2> QED BY <2>1 DEF Caches, OwnAnswers, OwnCopies, OwnRestore, Mine
<1> QED BY <1>3, <1>4, <1>6, <1>7, <1>8, <1>9, <1>10, <1>11, <1>12, <1>13, <1>14

(* A reload takes the stored copy; the worker may still store the answers  *)
(* the page no longer waits for.                                           *)
LEMMA CachesReload ==
  ASSUME OneTab, TypeOK, NEW t \in Tabs, Good(t), Caches(t), NEW u \in Tabs, Reload(u), ~lost'
  PROVE  Caches(t)'
<1> DEFINE r == Request(t, "restore", None, None, jar)
<1>1. u = t  BY DEF OneTab
<1>2. \A f \in flights : f.tab = t /\ f.at # "orphan"
  BY DEF Good, Shape, TypeOK, Flight, OneTab
<1>3. \A f \in flights : f.kind \notin Issuing \cup {"logout"}
  BY <1>1, <1>2 DEF Reload
<1>4. flights' = IF store.session THEN {r} ELSE {}
  BY <1>1, <1>2, <1>3 DEF Reload
<1>5. r.kind = "restore" /\ r.at = "sent" /\ r.cred = jar
  BY DEF Request
<1> HIDE DEF r
<1>6. tab'[t].auth = store.session /\ store.session = tab[t].auth /\ cache'[t] = blob
  BY <1>1 DEF Reload, SignedOut, TypeOK, Good, Shape
<1>7. UNCHANGED <<issued, jar, swCache, blob, stray>>  BY DEF Reload
<1>8. \A p \in puts' : p \in puts \/ \E f \in flights :
        f.kind = "data" /\ f.at \in {"sent", "ok"} /\ p = Stored(f)
  BY DEF Reload
<1>9. tab[t].auth => \A f \in Mine({"data"}) : f.at \in {"sent", "ok"} => f.who = issued[jar]
  <2> SUFFICES ASSUME tab[t].auth, NEW f \in Mine({"data"}), f.at \in {"sent", "ok"}
               PROVE  f.who = issued[jar]
    OBVIOUS
  <2>1. f \in flights /\ f.kind = "data" /\ ~f.old  BY DEF Mine
  <2>2. tab[t].ready  BY <1>3, <2>1 DEF Good, Shape, Issuing
  <2> QED BY <2>1, <2>2 DEF Good, OneAccount, Mine, Authorised
<1>10. tab[t].auth => \A p \in puts' : ~p.old => p.who = issued[jar]
  <2> SUFFICES ASSUME tab[t].auth, NEW p \in puts', ~p.old PROVE p.who = issued[jar]
    OBVIOUS
  <2>1. CASE p \in puts  BY <2>1 DEF Caches, OwnCopies
  <2>2. CASE p \notin puts
    <3>1. PICK f \in flights : f.kind = "data" /\ f.at \in {"sent", "ok"} /\ p = Stored(f)
      BY <1>8, <2>2
    <3>2. p.who = f.who /\ ~f.old  BY <3>1 DEF Stored
    <3> QED BY <1>9, <3>1, <3>2 DEF Mine
  <2> QED BY <2>1, <2>2
<1>11. OwnAnswers(t)'  BY <1>6, <1>7 DEF Caches, OwnAnswers
<1>12. OwnCopies(t)'  BY <1>4, <1>5, <1>6, <1>7, <1>10 DEF Caches, OwnCopies, Mine
<1>13. OwnRestore(t)'  BY <1>4, <1>5, <1>7 DEF OwnRestore
<1> QED BY <1>11, <1>12, <1>13 DEF Caches

(* The server's answers, and the worker's in place of the network. *)
LEMMA CachesServe ==
  ASSUME OneTab, TypeOK, Tokens, NEW t \in Tabs, Good(t), Caches(t), NEW f \in flights, Serve(f)
  PROVE  Caches(t)'
<1>1. f \in Flight /\ f.at # "orphan" /\ f.cred \in 0..Len(issued)
  BY DEF Good, Shape, TypeOK, Flight
<1>2. /\ UNCHANGED <<jar, tab, cache, saved>>
  BY DEF Serve, ServeRefresh, ServeSignIn, ServeLogout, ServeApi, Fail, FallBack
<1>3. ASSUME issued' = issued, NEW h, flights' = (flights \ {f}) \cup {h}, h.at # "cached",
             h.kind = "restore" => h.at \notin {"sent", "ok"}
      PROVE  Caches(t)'
  <2>1. OwnRestore(t)'  BY <1>2, <1>3 DEF Caches, OwnRestore
  <2> QED BY <1>2, <1>3, <2>1, CachesKept DEF SameAccount
<1>4. \A a \in {"refused", "challenge", "expired", "ok"} :
        [f EXCEPT !.at = a].at = a /\ [f EXCEPT !.at = a].kind = f.kind
  BY <1>1 DEF Flight
<1>5. ASSUME NEW account \in Accounts, Issue(f, account),
             f.kind = "restore" => account = issued[f.cred] /\ f.at = "sent"
      PROVE  Caches(t)'
  <2>1. PICK n \in Nat : n = Len(issued) + 1  BY DEF TypeOK
  <2>2. PICK h : h = [f EXCEPT !.at = "ok", !.new = n]  OBVIOUS
  <2>3. h.kind = f.kind /\ h.at = "ok" /\ h.new = n
    BY <1>1, <2>2 DEF Flight
  <2>4. flights' = (flights \ {f}) \cup {h} /\ issued' = Append(issued, account)
    BY <1>1, <1>5, <2>1, <2>2 DEF Issue, Step
  <2>5. /\ issued'[n] = account
        /\ \A i \in 1..Len(issued) : issued'[i] = issued[i]
    BY <2>1, <2>4 DEF TypeOK
  <2>6. tab[t].auth => jar \in 1..Len(issued)
    BY DEF Good, CookieGood, TypeOK
  <2>7. ASSUME NEW g \in flights, g.at = "ok", g.kind = "restore"
        PROVE  g.new \in 1..Len(issued)
    <3>1. g.new \in 0..Len(issued)  BY DEF TypeOK, Flight
    <3>2. g.new # 0  BY <2>7 DEF Tokens, TokenGood, Issuing
    <3> QED BY <3>1, <3>2
  <2>8. ASSUME tab[t].auth, NEW g \in flights', g.kind = "restore"
        PROVE  /\ g.at = "sent" => g.cred = jar
               /\ g.at = "ok" => issued'[g.new] = issued'[jar]
    <3>1. CASE g = h
      <4>1. f.kind = "restore" /\ f.at = "sent"  BY <1>5, <2>3, <2>8, <3>1
      <4>2. f.cred = jar  BY <2>8, <4>1 DEF Caches, OwnRestore
      <4> QED BY <1>5, <2>3, <2>5, <2>6, <2>8, <3>1, <4>1, <4>2
    <3>2. CASE g \in flights
      BY <2>5, <2>6, <2>7, <2>8, <3>2 DEF Caches, OwnRestore
    <3> QED BY <2>4, <3>1, <3>2
  <2>9. OwnRestore(t)'  BY <1>2, <2>8 DEF OwnRestore
  <2>10. SameAccount(t)  BY <1>2, <2>5, <2>6 DEF SameAccount
  <2> QED BY <1>2, <2>3, <2>4, <2>9, <2>10, CachesKept
<1>6. CASE ServeRefresh(f)
  <2>1. CASE f.cred # 0 /\ f.cred \notin spent
    <3>1. issued[f.cred] \in Accounts  BY <1>1, <2>1 DEF TypeOK
    <3>2. Issue(f, issued[f.cred]) /\ f.at = "sent"
      BY <1>1, <1>6, <2>1 DEF ServeRefresh
    <3> QED BY <1>5, <3>1, <3>2
  <2>2. CASE ~(f.cred # 0 /\ f.cred \notin spent)
    <3>1. issued' = issued /\ flights' = (flights \ {f}) \cup {[f EXCEPT !.at = "refused"]}
      BY <1>1, <1>6, <2>2 DEF ServeRefresh, Refuse, Step
    <3> QED BY <1>3, <1>4, <3>1
  <2> QED BY <2>1, <2>2
<1>7. CASE ServeSignIn(f)
  <2>1. f.kind \in {"login", "code", "unlock"} /\ f.who \in Accounts
    BY <1>1, <1>7 DEF ServeSignIn, Tokens, TokenGood, SignsIn, Flight, People
  <2>2. CASE Issue(f, f.who)  BY <1>5, <2>1, <2>2
  <2>3. CASE ~Issue(f, f.who)
    <3>1. PICK a \in {"refused", "challenge"} :
            flights' = (flights \ {f}) \cup {[f EXCEPT !.at = a]} /\ issued' = issued
      BY <1>1, <1>7, <2>3 DEF ServeSignIn, Refuse, Step
    <3> QED BY <1>3, <1>4, <2>1, <3>1
  <2> QED BY <2>2, <2>3
<1>8. CASE ServeLogout(f) \/ ServeApi(f)
  <2>1. f.kind # "restore" /\ issued' = issued
    BY <1>8 DEF ServeLogout, ServeApi, Authorised
  <2>2. PICK a \in {"refused", "expired", "ok"} :
          flights' = (flights \ {f}) \cup {[f EXCEPT !.at = a]}
    BY <1>1, <1>8 DEF ServeLogout, ServeApi, Step
  <2> QED BY <1>3, <1>4, <2>1, <2>2
<1>9. CASE Fail(f)
  <2>1. PICK h : h = [f EXCEPT !.at = "refused", !.new = 0, !.cred = 0]  OBVIOUS
  <2>2. h.at = "refused"  BY <1>1, <2>1 DEF Flight
  <2>3. issued' = issued /\ flights' = (flights \ {f}) \cup {h}
    BY <1>9, <2>1 DEF Fail, Step
  <2> QED BY <1>3, <2>2, <2>3
<1>10. CASE FallBack(f)
  <2>1. PICK a \in swCache : flights' = (flights \ {f}) \cup {[f EXCEPT !.at = "cached", !.who = a]}
    BY <1>10 DEF FallBack, Step
  <2>2. PICK h : h = [f EXCEPT !.at = "cached", !.who = a]  OBVIOUS
  <2>3. h.kind = "data" /\ h.who = a
    BY <1>1, <1>10, <2>2 DEF FallBack, Flight
  <2>4. issued' = issued /\ flights' = (flights \ {f}) \cup {h}
    BY <1>10, <2>1, <2>2 DEF FallBack
  <2>5. OwnAnswers(t)'  BY <1>2 DEF Caches, OwnAnswers, saved
  <2>6. OwnCopies(t)'  BY <1>2, <2>3, <2>4 DEF Caches, OwnCopies, saved, Mine
  <2>7. OwnRestore(t)'  BY <1>2, <2>3, <2>4 DEF Caches, OwnRestore
  <2> QED BY <2>5, <2>6, <2>7 DEF Caches
<1> QED BY <1>6, <1>7, <1>8, <1>9, <1>10 DEF Serve

(* The answers: the page shows them, the worker stores them. *)
LEMMA CachesHear ==
  ASSUME OneTab, TypeOK, Tokens, NEW t \in Tabs, Good(t), Good(t)', Caches(t),
         NEW f \in flights, Hear(f), ~late'
  PROVE  Caches(t)'
<1>1. f \in Flight /\ f.tab = t /\ f.old \in BOOLEAN
  BY DEF TypeOK, Flight, OneTab
<1>t. tab \in [Tabs -> Memory] /\ tab[t] \in Memory
  BY DEF TypeOK
<1>o. flights \ {f} \subseteq Flight  BY DEF TypeOK
<1>a. ASSUME tab[t].auth, tab[t].ready, tab'[t].auth, tab'[t].ready,
             tab'[t].token = tab[t].token
      PROVE  issued'[jar'] = issued[jar]
  BY <1>a DEF Good, OneAccount
<1>2. CASE HearSignIn(f)
  <2>1. ~f.old /\ f.kind \in {"login", "code"}
    BY <1>1, <1>2 DEF HearSignIn, LateFor, TypeOK
  <2>2. ~tab[t].auth  BY <2>1 DEF Good, Shape, Mine
  <2>3. CASE f.at = "ok"
    <3>1. SignIn(f) /\ ResetClientState(t) /\ tab'[t].ready = TRUE
      BY <1>1, <1>2, <1>t, <2>3 DEF HearSignIn, SignIn
    <3>2. \A g \in flights' : ~g.old => g.kind # "data"
      <4>1. \A g \in Older(t, flights \ {f}) : g.tab = t /\ g.old
        <5>1. \A g \in Older(t, flights \ {f}) : g \in Flight /\ (g.tab = t => g.old)
          BY <1>o, OlderIs
        <5> QED BY <5>1 DEF Flight, OneTab
      <4>2. Request(t, "profile", f.who, None, 0).kind = "profile"  BY DEF Request
      <4>3. flights' \subseteq Older(t, flights \ {f}) \cup {Request(t, "profile", f.who, None, 0)}
        BY <1>1, <3>1 DEF SignIn, Bootstrap
      <4> QED BY <4>1, <4>2, <4>3
    <3> QED BY <3>1, <3>2, CachesReset
  <2>4. CASE f.at # "ok"
    <3>1. flights' = flights \ {f} /\ UNCHANGED <<saved, cache, issued, tab>>
      BY <1>2, <2>4 DEF HearSignIn
    <3> QED BY <2>2, <3>1, CachesFlights
  <2> QED BY <2>3, <2>4
<1>3. CASE HearUnlock(f)
  <2>1. f.kind = "unlock" /\ ~f.old /\ tab[t].auth
    BY <1>1, <1>3 DEF HearUnlock, LateFor, TypeOK, Good, Shape, Mine
  <2>2. tab[t].ready  BY <2>1 DEF Good, Shape
  <2>3. flights' = flights \ {f} /\ UNCHANGED <<saved, cache, issued>>
    BY <1>3 DEF HearUnlock
  <2>4. f.at = "ok" => f.who = tab[t].token
    BY <1>1, <1>3, <2>1 DEF HearUnlock, LateFor, TypeOK
  <2>5. /\ tab'[t].auth = tab[t].auth /\ tab'[t].ready = tab[t].ready
        /\ tab'[t].token = tab[t].token
    BY <1>1, <1>3, <1>t, <2>4 DEF HearUnlock, Memory
  <2>6. SameAccount(t) /\ OwnRestore(t)'
    BY <1>a, <2>1, <2>2, <2>5, NoRestore DEF SameAccount
  <2> QED BY <2>3, <2>6, CachesKept
<1>4. CASE HearRestore(f)
  <2>1. f.kind = "restore" /\ tab[t].auth
    BY <1>4 DEF HearRestore, Good, Shape
  <2>2. CASE f.at = "ok"
    <3>1. f.new # 0 /\ jar' = f.new /\ issued[f.new] = issued[jar]
      BY <1>4, <2>1, <2>2 DEF HearRestore, Cookie, Tokens, TokenGood, Issuing, Caches, OwnRestore
    <3>2. /\ tab'[t].auth = tab[t].auth /\ tab'[t].ready = TRUE
          /\ UNCHANGED <<saved, cache, issued>>
      BY <1>1, <1>4, <1>t, <2>2 DEF HearRestore, Memory
    <3>3. flights' \subseteq flights \cup {Request(t, "profile", issued[f.new], None, 0)}
      BY <1>1, <1>4, <2>2 DEF HearRestore, Bootstrap
    <3>4. Request(t, "profile", issued[f.new], None, 0).kind = "profile"  BY DEF Request
    <3>5. OwnRestore(t)'  BY <3>2, NoRestore
    <3> QED BY <2>1, <3>1, <3>2, <3>3, <3>4, <3>5, CachesKept DEF SameAccount
  <2>3. CASE f.at # "ok"
    BY <1>1, <1>4, <1>o, <2>3, CachesSignOut DEF HearRestore
  <2> QED BY <2>2, <2>3
<1>5. CASE Renew(f)
  <2>1. f.kind # "restore" /\ UNCHANGED <<saved, cache, issued, jar, tab>>
    BY <1>5 DEF Renew, Authorised
  <2>2. [f EXCEPT !.at = "waiting"].at = "waiting" /\ [f EXCEPT !.at = "waiting"].kind = f.kind
    BY <1>1 DEF Flight
  <2>3. /\ Request(t, "renew", None, None, jar).kind = "renew"
        /\ Request(t, "renew", None, None, jar).at = "sent"
    BY DEF Request
  <2>4. flights' \subseteq flights \cup {[f EXCEPT !.at = "waiting"], Request(t, "renew", None, None, jar)}
    BY <1>1, <1>5 DEF Renew, Renewal
  <2> QED BY <2>1, <2>2, <2>3, <2>4, CachesFlights
<1>6. CASE HearRenew(f)
  <2>1. f.kind = "renew" /\ f.kind \in Refreshing /\ f.kind \in Issuing /\ ~f.old
    BY <1>1, <1>6 DEF HearRenew, LateFor, TypeOK, Refreshing, Issuing
  <2>2. tab[t].auth => tab[t].ready  BY <2>1 DEF Good, Shape
  <2>3. CASE f.at = "ok"
    <3>1. f.new # 0 /\ f.new \in 0..Len(issued)
      BY <2>1, <2>3 DEF Tokens, TokenGood, TypeOK, Flight
    <3>2. issued[f.new] \in People  BY <3>1 DEF TypeOK, People
    <3>3. \A g \in flights' : \E e \in flights \ {f} :
            IF e.tab = t /\ e.at = "waiting" THEN Resumed(g, e, issued[f.new], "sent") ELSE g = e
      BY <1>1, <1>6, <1>o, <2>3, <3>2, RetriedIs DEF HearRenew
    <3>4. tab[t].auth => issued[f.new] = tab[t].token
      BY <2>1, <2>2, <2>3 DEF Good, OneAccount, Mine
    <3>5. /\ tab'[t].auth = tab[t].auth /\ tab'[t].ready = tab[t].ready
          /\ tab'[t].token = issued[f.new]
          /\ UNCHANGED <<saved, cache, issued>>
      BY <1>1, <1>6, <1>t, <2>3 DEF HearRenew, Memory
    <3>6. SameAccount(t) /\ OwnRestore(t)'
      BY <1>a, <2>2, <3>4, <3>5, NoRestore DEF SameAccount
    <3>7. \A g \in flights' : g.at = "cached" => g \in flights
      BY <3>3 DEF Resumed
    <3> QED BY <3>5, <3>6, <3>7, CachesKept
  <2>4. CASE f.at # "ok"
    <3>1. GivenUp(flights \ {f}, t) \subseteq Flight  BY <1>o, GivenUpIs
    <3> QED BY <1>1, <1>6, <2>4, <3>1, CachesSignOut DEF HearRenew
  <2> QED BY <2>3, <2>4
<1>7. CASE HearLogout(f)
  <2>1. jar = f.cred /\ f.kind = "logout"
    BY <1>7 DEF HearLogout, LateFor, TypeOK
  <2>2. ~tab[t].auth  BY <2>1 DEF Good, CookieGood
  <2>3. flights' = flights \ {f} /\ UNCHANGED <<saved, cache, issued, tab>>
    BY <1>7 DEF HearLogout
  <2> QED BY <2>2, <2>3, CachesFlights
<1>8. CASE HearProfile(f)
  <2>1. CASE SignOut(t, flights \ {f})  BY <1>o, <2>1, CachesSignOut
  <2>2. CASE ~SignOut(t, flights \ {f})
    <3>1. flights' = flights \ {f} /\ UNCHANGED <<saved, cache, issued, jar>>
      BY <1>1, <1>8, <2>2 DEF HearProfile, Applied
    <3>2. tab'[t].auth = tab[t].auth
      BY <1>1, <1>8, <1>t, <2>2 DEF HearProfile, Applied, Memory
    <3> QED BY <3>1, <3>2, CachesFlights
  <2> QED BY <2>1, <2>2
<1>9. CASE HearData(f)
  <2>1. /\ f.kind = "data" /\ flights' = flights \ {f}
        /\ UNCHANGED <<issued, jar, tab, swCache, blob, stray>>
    BY <1>9 DEF HearData
  <2>2. ASSUME ~f.old
        PROVE  /\ tab[t].auth /\ f.name = issued[jar]
               /\ f.at = "ok" => f.who = issued[jar]
               /\ f.at = "cached" /\ ~stray => f.who = issued[jar]
    <3>1. tab[t].auth  BY <2>1, <2>2 DEF Good, Shape, Mine, Authorised
    <3>2. tab[t].ready  BY <2>1, <3>1 DEF Good, Shape
    <3> QED BY <2>1, <2>2, <3>1, <3>2 DEF Good, OneAccount, Mine, Authorised, Caches, OwnCopies
  <2>3. OwnAnswers(t)'
    <3>1. \A c \in cache'[t] : c \in cache[t] \/ (~f.old /\ f.at # "refused" /\ c = <<f.name, f.who>>)
      BY <1>1, <1>9 DEF HearData, TypeOK
    <3>2. f.at \in {"ok", "cached", "refused"}  BY <1>9 DEF HearData
    <3> QED BY <2>1, <2>2, <3>1, <3>2 DEF Caches, OwnAnswers
  <2>4. OwnCopies(t)'
    <3>1. \A p \in puts' : p \in puts \/ (f.at = "ok" /\ p.who = f.who /\ p.old = f.old)
      BY <1>9 DEF HearData, Stored
    <3> QED BY <2>1, <2>2, <3>1 DEF Caches, OwnCopies, Mine
  <2>5. OwnRestore(t)'  BY <2>1 DEF Caches, OwnRestore
  <2> QED BY <2>3, <2>4, <2>5 DEF Caches
<1> QED BY <1>2, <1>3, <1>4, <1>5, <1>6, <1>7, <1>8, <1>9 DEF Hear

(* Every step keeps the caches' answers with their account. *)
LEMMA CachesStep ==
  ASSUME OneTab, TypeOK, Tokens, NEW t \in Tabs, Good(t), Good(t)', Caches(t), [Next]_vars,
         ~lost', ~late'
  PROVE  Caches(t)'
<1>1. CASE UNCHANGED vars  BY <1>1, CachesFlights DEF vars
<1>2. ASSUME NEW p \in puts, Keep(p) PROVE Caches(t)'
  <2>1. /\ puts' = puts \ {p} /\ swCache' = swCache \cup {p.who} /\ stray' = (stray \/ p.old)
        /\ UNCHANGED <<issued, jar, blob, tab, cache, flights>>
    BY <1>2 DEF Keep
  <2>2. stray \in BOOLEAN /\ p.old \in BOOLEAN  BY DEF TypeOK, Put
  <2>3. OwnAnswers(t)'  BY <2>1, <2>2 DEF Caches, OwnAnswers
  <2>4. OwnCopies(t)'  BY <2>1, <2>2 DEF Caches, OwnCopies, Mine
  <2>5. OwnRestore(t)'  BY <2>1 DEF Caches, OwnRestore
  <2> QED BY <2>3, <2>4, <2>5 DEF Caches
<1> QED BY <1>1, <1>2, CachesTab, CachesReload, CachesServe, CachesHear DEF Next

(* An answer once lost or late stays so. *)
LEMMA NothingLost ==
  ASSUME TypeOK, [Next]_vars, ~lost', ~late'
  PROVE  ~lost /\ ~late
BY DEF TypeOK, Next, vars, SwitchMode, TypeEmail, Submit, Register, SubmitCode, CancelMfa,
   DemoLogin, BiometricLogin, Logout, EnableLock, DisableLock, ComeBack, Unlock,
   AnswerTerms, FetchData, Reload, Serve, ServeRefresh, ServeSignIn, ServeLogout, ServeApi,
   Fail, FallBack, Persist, Keep, Hear, HearSignIn, HearUnlock, HearRestore, Renew, HearRenew,
   HearLogout, HearProfile, HearData
-----------------------------------------------------------------------------
(* The theorems *)

(* The invariant at the start. *)
LEMMA InvInit == Init => IInv
<1> SUFFICES ASSUME Init PROVE IInv
  OBVIOUS
<1>1. TypeOK /\ Tokens  BY TypeInit
<1>2. \A t \in Tabs : LockStands(t)
  BY DEF Init, LockStands, SignedOut
<1>3. \A t \in Tabs : Good(t)
  BY DEF Init, SignedOut, Good, Shape, CookieGood, OneAccount, Mine
<1> QED BY <1>1, <1>2, <1>3 DEF IInv

(* Every step keeps the invariant. *)
LEMMA InvStep == ASSUME OneTab PROVE IInv /\ [Next]_vars => IInv'
<1> SUFFICES ASSUME IInv, [Next]_vars PROVE IInv'
  OBVIOUS
<1>1. TypeOK' /\ Tokens'  BY TypeStep DEF IInv
<1>2. \A t \in Tabs : LockStands(t)'  BY LockSteps DEF IInv
<1>3. ~lost' /\ ~late' => \A t \in Tabs : Good(t)'  BY GoodStep DEF IInv
<1> QED BY <1>1, <1>2, <1>3 DEF IInv

(* The invariant, always. *)
LEMMA InvAlways == ASSUME OneTab PROVE Spec => []IInv
BY InvInit, InvStep, PTL DEF Spec

(* In one tab, as long as no answer with a token was lost or came late, a  *)
(* renewal never presents a spent refresh token: concurrent 401s cannot    *)
(* sign the user out.                                                      *)
THEOREM RenewalsAreFresh == ASSUME OneTab PROVE Spec => []RenewalsPresentFreshToken
<1>1. IInv => RenewalsPresentFreshToken
  <2> SUFFICES ASSUME IInv, ~lost, ~late, NEW f \in flights, f.kind \in Refreshing,
                      f.at = "sent", ~f.old, NEW t \in Tabs, tab[t].auth
               PROVE  f.cred # 0 /\ f.cred \notin spent
    BY DEF RenewalsPresentFreshToken
  <2> QED BY DEF IInv, Good, CookieGood, Mine
<1> QED BY <1>1, InvAlways, PTL

(* In one tab, with the same proviso, the account the tab shows, the       *)
(* account its token acts for and the remembered email are one, however    *)
(* the session began.                                                      *)
THEOREM ShowsTheTokensAccount == ASSUME OneTab PROVE Spec => []ShownAccountIsTheTokens
<1>1. IInv => ShownAccountIsTheTokens
  BY DEF ShownAccountIsTheTokens, IInv, Good, OneAccount
<1> QED BY <1>1, InvAlways, PTL

(* In one tab, with the same proviso, the query cache keeps under an       *)
(* account what the server said to that account, wherever it was read: the *)
(* network, the worker's cache or the stored copy.  Excepted is what the   *)
(* worker stored for an earlier session after its cache was cleared.       *)
THEOREM CacheIsOwn == ASSUME OneTab PROVE Spec => []CacheKeepsOwnAnswers
<1>1. Init => IInv /\ Kept
  <2>1. Init => \A t \in Tabs : Caches(t)
    BY DEF Init, SignedOut, Caches, OwnAnswers, OwnCopies, OwnRestore
  <2> QED BY <2>1, InvInit DEF Kept
<1>2. IInv /\ Kept /\ [Next]_vars => IInv' /\ Kept'
  <2> SUFFICES ASSUME IInv, Kept, [Next]_vars PROVE IInv' /\ Kept'
    OBVIOUS
  <2>1. IInv'  BY InvStep
  <2>2. ASSUME ~lost', ~late', NEW t \in Tabs PROVE Caches(t)'
    <3>1. ~lost /\ ~late  BY <2>2, NothingLost DEF IInv
    <3>2. Good(t) /\ Good(t)' /\ Caches(t)  BY <2>1, <2>2, <3>1 DEF IInv, Kept
    <3> QED BY <2>2, <3>2, CachesStep DEF IInv
  <2> QED BY <2>1, <2>2 DEF Kept
<1>3. Kept => CacheKeepsOwnAnswers
  BY DEF Kept, Caches, OwnAnswers, CacheKeepsOwnAnswers
<1> QED BY <1>1, <1>2, <1>3, PTL DEF Spec

(* In one tab a locked session opens only on the answer to an unlock or to *)
(* a new sign-in: a reload, a late profile or a renewed token do not open  *)
(* it.                                                                     *)
THEOREM LockOpensOnProof == ASSUME OneTab PROVE Spec => OpensOnlyOnProof
<1>1. IInv /\ [Next]_vars
        => [\A t \in Tabs : tab[t].auth /\ tab[t].locked /\ tab'[t].auth /\ ~tab'[t].locked
              => \E f \in flights \ flights' : f.tab = t /\ f.kind \in {"login", "code", "unlock"}
                                                /\ f.at = "ok"]_vars
  BY OpensStep DEF IInv
<1> QED BY <1>1, InvAlways, PTL DEF Spec, OpensOnlyOnProof
=============================================================================
