----------------------------- MODULE WebDialogsProofs ----------------------------
(***************************************************************************)
(* The dialogs of the web client change the server once and lose nothing   *)
(* of what only the browser has, for every number of rows, assets, tokens, *)
(* contacts, files and requests.                                           *)
(*                                                                         *)
(* Each section has an inductive invariant of its own; its steps are first *)
(* brought to a few forms (the lemmas that end in Is, Are or Cases) and    *)
(* then checked against each part of it.  The section that runs keeps its  *)
(* invariant, the others do not run.                                       *)
(***************************************************************************)
EXTENDS WebDialogs, FiniteSetTheorems, TLAPS

(***************************************************************************)
(* The sheet of a trade                                                    *)
(***************************************************************************)
(* A step of the form: what is filled in leaves what the user typed. *)
FormStep ==
  /\ UNCHANGED <<v1, v6, v7, v8, v11, v12>>
  /\ \/ v9' = v9 /\ v2 # None
     \/ v9 < tradeMaxOpenings /\ v9' = v9 + 1 /\ v6 = None
  /\ v2' # None => v1 = "trade" /\ DOMAIN v2' = Tr!FormFields
  /\ Tr!MineIsKept'
  /\ v4' # {} => v2' # None /\ "price" \notin v3'
  /\ \A p, q \in v4' : p = q

(* What the user filled in is what he typed, or what was saved. *)
Mine(f, t) ==
  /\ "cash" \in t => f.cash \in {Tr!Typed, Tr!OfSaved}
  /\ "tax" \in t => f.tax \in {Tr!Typed, Tr!OfSaved}
  /\ "price" \in t => f.price \in {Tr!Typed, Tr!Empty, Tr!OfSaved}

(* Filling in computes no field that is the user's. *)
LEMMA FillsIn ==
  ASSUME NEW f, NEW t, DOMAIN f = Tr!FormFields, Mine(f, t)
  PROVE DOMAIN Tr!Filled(f, t) = Tr!FormFields /\ Mine(Tr!Filled(f, t), t)
<1> DEFINE g == Tr!WithTax(f, t)
<1>1. DOMAIN g = Tr!FormFields /\ Mine(g, t)
  BY DEF Tr!WithTax, Tr!Estimates, Tr!FormFields, Mine
<1> HIDE DEF g
<1>2. DOMAIN Tr!WithCash(g, t) = Tr!FormFields /\ Mine(Tr!WithCash(g, t), t)
  BY <1>1 DEF Tr!WithCash, Tr!FormFields, Mine
<1> QED BY <1>2 DEF Tr!Filled, g

(* A lookup that goes on was begun for the sheet as it is. *)
LEMMA LooksUpOne ==
  ASSUME Tr!FormInv, NEW f, NEW t, Tr!Lookup(f, t), v4' # {}
  PROVE f # None /\ "price" \notin t /\ \A p, q \in v4' : p = q
<1>1. CASE Tr!Depends(f, t) = Tr!Depends(v2, v3)
  <2>1. v4 # {} BY <1>1 DEF Tr!Lookup
  <2>2. v2 # None /\ "price" \notin v3 BY <2>1 DEF Tr!FormInv
  <2>3. Tr!Depends(v2, v3) = <<v2.asset, v2.date, v2.price, "price" \in v3>> BY <2>2 DEF Tr!Depends
  <2>4. f # None BY <1>1, <2>3 DEF Tr!Depends, Tr!Empty
  <2>5. Tr!Depends(f, t) = <<f.asset, f.date, f.price, "price" \in t>> BY <2>4 DEF Tr!Depends
  <2>6. ("price" \in t) = ("price" \in v3) BY <1>1, <2>3, <2>5
  <2>7. v4' = v4 BY <1>1 DEF Tr!Lookup
  <2> QED BY <2>2, <2>4, <2>6, <2>7 DEF Tr!FormInv
<1>2. CASE Tr!Depends(f, t) # Tr!Depends(v2, v3)
  BY <1>2 DEF Tr!Lookup, Tr!LooksUp, Tr!Aborted
<1> QED BY <1>1, <1>2

(* Opening fills in a form of its own. *)
LEMMA OpensForm ==
  ASSUME Tr!FormInv, NEW f, NEW t, DOMAIN f = Tr!FormFields, Mine(f, t), Tr!Open(f, t)
  PROVE FormStep
<1>1. v6 = None BY DEF Tr!Open, Tr!FormInv
<1>2. v2' = Tr!Filled(f, t) /\ v3' = t /\ Tr!Lookup(v2', v3') BY DEF Tr!Open
<1>3. DOMAIN v2' = Tr!FormFields /\ Mine(v2', v3') BY <1>2, FillsIn
<1>4. v4' # {} => v2' # None /\ "price" \notin v3' BY <1>2, LooksUpOne
<1>6. \A p, q \in v4' : p = q BY <1>2, LooksUpOne
<1>5. Tr!MineIsKept' BY <1>3 DEF Mine, Tr!MineIsKept
<1> QED BY <1>1, <1>3, <1>4, <1>5, <1>6 DEF Tr!Open, FormStep

(* A change fills in the form again. *)
LEMMA ChangesForm ==
  ASSUME Tr!FormInv, NEW f, NEW t, v2 # None, DOMAIN f = Tr!FormFields, Mine(f, t), Tr!Change(f, t)
  PROVE FormStep
<1>2. v2' = Tr!Filled(f, t) /\ v3' = t /\ Tr!Lookup(v2', v3') BY DEF Tr!Change
<1>3. DOMAIN v2' = Tr!FormFields /\ Mine(v2', v3') BY <1>2, FillsIn
<1>4. v4' # {} => v2' # None /\ "price" \notin v3' BY <1>2, LooksUpOne
<1>6. \A p, q \in v4' : p = q BY <1>2, LooksUpOne
<1>5. Tr!MineIsKept' BY <1>3 DEF Mine, Tr!MineIsKept
<1> QED BY <1>3, <1>4, <1>5, <1>6 DEF Tr!Change, FormStep, Tr!FormInv

(* The form is opened empty, or on a trade that was saved. *)
LEMMA OpensAre ==
  ASSUME Tr!FormInv, Tr!OpenAddTxModal \/ \E item \in tradeSaved : Tr!OpenEditTransaction(item)
  PROVE FormStep
<1>1. CASE Tr!OpenAddTxModal
  <2>1. PICK d \in tradeDates :
    Tr!Open([asset |-> None, type |-> "buy", date |-> d, shares |-> 0, price |-> Tr!Empty, tax |-> Tr!Empty,
             cash |-> Tr!Empty, source |-> FALSE, edits |-> FALSE], {})
    BY <1>1 DEF Tr!OpenAddTxModal
  <2> DEFINE f == [asset |-> None, type |-> "buy", date |-> d, shares |-> 0, price |-> Tr!Empty,
                   tax |-> Tr!Empty, cash |-> Tr!Empty, source |-> FALSE, edits |-> FALSE]
  <2>2. DOMAIN f = Tr!FormFields /\ Mine(f, {}) BY DEF Tr!FormFields, Mine
  <2> HIDE DEF f
  <2>3. Tr!Open(f, {}) BY <2>1 DEF f
  <2> QED BY <2>2, <2>3, OpensForm
<1>2. ASSUME NEW item \in tradeSaved, Tr!OpenEditTransaction(item) PROVE FormStep
  <2> DEFINE f == [asset |-> item.asset, type |-> item.type, date |-> item.date, shares |-> 1,
                   price |-> Tr!OfSaved, tax |-> IF item.manual THEN Tr!OfSaved ELSE Tr!Empty,
                   cash |-> Tr!OfSaved, source |-> FALSE, edits |-> TRUE]
             t == {"price", "cash"} \cup (IF item.manual THEN {"tax"} ELSE {})
  <2>1. Tr!Open(f, t) BY <1>2 DEF Tr!OpenEditTransaction
  <2>2. DOMAIN f = Tr!FormFields BY DEF Tr!FormFields
  <2>3. Mine(f, t) BY DEF Mine
  <2> HIDE DEF f, t
  <2> QED BY <2>1, <2>2, <2>3, OpensForm
<1> QED BY <1>1, <1>2

(* Closing leaves no form and no lookup. *)
LEMMA ClosesForm ==
  ASSUME Tr!FormInv, v2 # None, v2' = None, v3' = {}, Tr!Lookup(None, {})
  PROVE v4' = {}
<1>1. Tr!Depends(None, {}) # Tr!Depends(v2, v3) BY DEF Tr!Depends, Tr!Empty
<1> QED BY <1>1 DEF Tr!Lookup, Tr!LooksUp, Tr!Aborted

(* Every change of a field leaves what the user typed elsewhere. *)
LEMMA ChangesAre ==
  ASSUME Tr!FormInv, Tr!MineIsKept,
         \/ Tr!CloseAddModal \/ Tr!DropAsset \/ Tr!TypeTax \/ Tr!TypeCash \/ Tr!SetSource
         \/ \E a \in tradeAssets : Tr!PickAsset(a)
         \/ \E t \in {"buy", "sell"} : Tr!SetType(t)
         \/ \E d \in tradeDates : Tr!SetDate(d)
         \/ \E n \in 0..1 : Tr!SetShares(n)
         \/ \E v \in Tr!Values : Tr!TypePrice(v)
  PROVE FormStep
<1> DEFINE Fits(f, t) == DOMAIN f = Tr!FormFields /\ Mine(f, t)
<1>a. v2 # None => Fits(v2, v3) BY DEF Tr!FormInv, Tr!MineIsKept, Mine
<1>b. ASSUME NEW f, NEW t, v2 # None, Fits(f, t), Tr!Change(f, t) PROVE FormStep BY <1>b, ChangesForm
<1>1. CASE Tr!CloseAddModal
  <2>1. v4' = {} /\ v2' = None BY <1>1, ClosesForm DEF Tr!CloseAddModal
  <2> QED BY <2>1, <1>1 DEF Tr!CloseAddModal, FormStep, Tr!MineIsKept
<1>2. CASE Tr!DropAsset \/ \E a \in tradeAssets : Tr!PickAsset(a)
  <2>1. PICK a : v2 # None /\ Tr!Change([v2 EXCEPT !.asset = a, !.price = Tr!Empty, !.cash = Tr!Empty,
                                         !.source = FALSE], v3 \ {"price", "cash"})
    BY <1>2 DEF Tr!DropAsset, Tr!PickAsset
  <2> DEFINE f == [v2 EXCEPT !.asset = a, !.price = Tr!Empty, !.cash = Tr!Empty, !.source = FALSE]
  <2>2. Fits(f, v3 \ {"price", "cash"}) BY <1>a, <2>1 DEF Tr!FormFields, Mine
  <2> HIDE DEF f
  <2> QED BY <2>1, <2>2, <1>b DEF f
<1>3. CASE Tr!TypeTax
  <2>1. v2 # None /\ Tr!Change([v2 EXCEPT !.tax = Tr!Typed], v3 \cup {"tax"}) BY <1>3 DEF Tr!TypeTax, Tr!Shown
  <2>2. Fits([v2 EXCEPT !.tax = Tr!Typed], v3 \cup {"tax"}) BY <1>a, <2>1 DEF Tr!FormFields, Mine
  <2> QED BY <2>1, <2>2, <1>b
<1>4. CASE Tr!TypeCash
  <2>1. v2 # None /\ Tr!Change([v2 EXCEPT !.cash = Tr!Typed], v3 \cup {"cash"}) BY <1>4 DEF Tr!TypeCash, Tr!Shown
  <2>2. Fits([v2 EXCEPT !.cash = Tr!Typed], v3 \cup {"cash"}) BY <1>a, <2>1 DEF Tr!FormFields, Mine
  <2> QED BY <2>1, <2>2, <1>b
<1>5. CASE Tr!SetSource
  <2>1. v2 # None /\ Tr!Change([v2 EXCEPT !.source = ~@], v3) BY <1>5 DEF Tr!SetSource, Tr!Shown
  <2>2. Fits([v2 EXCEPT !.source = ~@], v3) BY <1>a, <2>1 DEF Tr!FormFields, Mine
  <2> QED BY <2>1, <2>2, <1>b
<1>6. ASSUME NEW t \in {"buy", "sell"}, Tr!SetType(t) PROVE FormStep
  <2> DEFINE f == [v2 EXCEPT !.type = t, !.source = (t = "buy" /\ @)]
  <2>1. v2 # None /\ Tr!Change(f, v3) BY <1>6 DEF Tr!SetType, Tr!Shown
  <2>2. Fits(f, v3) BY <1>a, <2>1 DEF Tr!FormFields, Mine
  <2> HIDE DEF f
  <2> QED BY <2>1, <2>2, <1>b
<1>7. ASSUME NEW d \in tradeDates, Tr!SetDate(d) PROVE FormStep
  <2> DEFINE f == [v2 EXCEPT !.date = d, !.price = Tr!NoPrice(v2)]
  <2>1. v2 # None /\ Tr!Change(f, v3 \ {"price"}) BY <1>7 DEF Tr!SetDate, Tr!Shown
  <2>2. Fits(f, v3 \ {"price"}) BY <1>a, <2>1 DEF Tr!FormFields, Mine
  <2> HIDE DEF f
  <2> QED BY <2>1, <2>2, <1>b
<1>8. ASSUME NEW n \in 0..1, Tr!SetShares(n) PROVE FormStep
  <2>1. v2 # None /\ Tr!Change([v2 EXCEPT !.shares = n], v3) BY <1>8 DEF Tr!SetShares, Tr!Shown
  <2>2. Fits([v2 EXCEPT !.shares = n], v3) BY <1>a, <2>1 DEF Tr!FormFields, Mine
  <2> QED BY <2>1, <2>2, <1>b
<1>9. ASSUME NEW v \in Tr!Values, Tr!TypePrice(v) PROVE FormStep
  <2>1. v2 # None /\ Tr!Change([v2 EXCEPT !.price = v], v3 \cup {"price"}) BY <1>9 DEF Tr!TypePrice, Tr!Shown
  <2>2. Fits([v2 EXCEPT !.price = v], v3 \cup {"price"}) BY <1>a, <2>1 DEF Tr!FormFields, Mine, Tr!Values
  <2> QED BY <2>1, <2>2, <1>b
<1> QED BY <1>1, <1>2, <1>3, <1>4, <1>5, <1>6, <1>7, <1>8, <1>9

(* A quote that is heard is filled in where nobody typed a price. *)
LEMMA QuotesAre ==
  ASSUME Tr!FormInv, Tr!MineIsKept, Tr!AnswerQuote
  PROVE FormStep
<1>1. PICK q \in v4 : Tr!HearQuote(q) \/ Tr!HearNoQuote(q) BY DEF Tr!AnswerQuote
<1>2. v2 # None /\ "price" \notin v3 /\ DOMAIN v2 = Tr!FormFields /\ v1 = "trade" /\ Mine(v2, v3)
  BY <1>1 DEF Tr!FormInv, Tr!MineIsKept, Mine
<1>a. v4' \subseteq v4 /\ UNCHANGED <<v1, v3, v6, v7, v8, v9, v11, v12>>
  BY <1>1 DEF Tr!HearQuote, Tr!HearNoQuote
<1>b. \A p, r \in v4' : p = r BY <1>a DEF Tr!FormInv
<1>3. CASE Tr!HearNoQuote(q) \/ v2.price # Tr!Empty
  <2>1. UNCHANGED v2 BY <1>1, <1>3 DEF Tr!HearQuote, Tr!HearNoQuote
  <2>2. Tr!MineIsKept' BY <2>1, <1>a DEF Tr!MineIsKept
  <2> QED BY <1>2, <1>a, <1>b, <2>1, <2>2 DEF FormStep
<1>5. CASE Tr!HearQuote(q) /\ v2.price = Tr!Empty
  <2> DEFINE f == [v2 EXCEPT !.price = Tr!Quote(q[1], q[2])]
  <2>1. v2' = Tr!Filled(f, v3) BY <1>5 DEF Tr!HearQuote
  <2>2. DOMAIN f = Tr!FormFields /\ Mine(f, v3) BY <1>2 DEF Tr!FormFields, Mine
  <2> HIDE DEF f
  <2>3. DOMAIN v2' = Tr!FormFields /\ Mine(v2', v3) BY <2>1, <2>2, FillsIn
  <2>4. UNCHANGED <<v1, v3, v6, v7, v8, v9, v10, v11, v12>> BY <1>5 DEF Tr!HearQuote
  <2>5. v4' = {} BY <1>5 DEF Tr!HearQuote, Tr!FormInv
  <2> QED BY <1>2, <2>3, <2>4, <2>5, <1>b DEF FormStep, Tr!MineIsKept, Mine
<1> QED BY <1>1, <1>3, <1>5

(* Request s is sent for what is open. *)
Asks(s) ==
  /\ UNCHANGED <<v1, v2, v3, v4, v6, v9, v11, v12>>
  /\ v8' = v8 \cup {s} /\ DOMAIN s = Tr!RequestFields /\ s.n = v9 /\ s.at = "server"
  /\ \/ s.kind = "trade" /\ v2 # None
     \/ s.kind \in {"realize", "delete"} /\ v6 # None /\ v6.kind = s.kind
  /\ \/ ~v7 /\ v7'
     \/ s.kind = "delete" /\ v7' = v7
(* A button sends one request. *)
LEMMA TradeAsksAre ==
  ASSUME Tr!HandleAddTxSubmit \/ Tr!SubmitRealizeAsset \/ Tr!DeleteTx
  PROVE \E s : Asks(s)
<1>1. CASE Tr!HandleAddTxSubmit
  <2> DEFINE s == [n |-> v9, try |-> Tr!Cardinality(v8), kind |-> "trade", of |-> v2.asset,
                   at |-> "server"]
  <2>1. v8' = v8 \cup {s} BY <1>1 DEF Tr!HandleAddTxSubmit
  <2>2. DOMAIN s = Tr!RequestFields /\ s.n = v9 /\ s.at = "server" /\ s.kind = "trade"
    BY DEF Tr!RequestFields
  <2> HIDE DEF s
  <2>3. ~v7 /\ v7' BY <1>1 DEF Tr!HandleAddTxSubmit, Tr!Free
  <2>4. Asks(s) BY <1>1, <2>1, <2>2, <2>3 DEF Tr!HandleAddTxSubmit, Tr!Shown, Asks
  <2> QED BY <2>4
<1>2. CASE Tr!SubmitRealizeAsset \/ Tr!DeleteTx
  <2> DEFINE s == [n |-> v9, try |-> Tr!Cardinality(v8), kind |-> v6.kind, of |-> v6.asset,
                   at |-> "server"]
  <2>1. v8' = v8 \cup {s} BY <1>2 DEF Tr!SubmitRealizeAsset, Tr!DeleteTx, Tr!Ask
  <2>2. DOMAIN s = Tr!RequestFields /\ s.n = v9 /\ s.at = "server" /\ s.kind = v6.kind
    BY DEF Tr!RequestFields
  <2> HIDE DEF s
  <2>3. CASE Tr!SubmitRealizeAsset
    <3>1. ~v7 /\ v7' BY <2>3 DEF Tr!SubmitRealizeAsset, Tr!Free
    <3>2. Asks(s) BY <2>3, <2>1, <2>2, <3>1 DEF Tr!SubmitRealizeAsset, Asks
    <3> QED BY <3>2
  <2>4. CASE Tr!DeleteTx
    <3>1. Asks(s) BY <2>4, <2>1, <2>2 DEF Tr!DeleteTx, Asks
    <3> QED BY <3>1
  <2> QED BY <1>2, <2>3, <2>4
<1> QED BY <1>1, <1>2

(* An answer to a request for which a flag is up: it is heard, booked or   *)
(* gone on to the list; what is booked is not open afterwards.             *)
Answered(s) ==
  /\ s \in v8 /\ Tr!Flagged(s) /\ UNCHANGED <<v1, v9>> /\ v6' \in {v6, None}
  /\ \/ v8' = v8 \ {s}
     \/ \E t : v8' = (v8 \ {s}) \cup {t} /\ t.n = s.n /\ t.kind = s.kind /\ t.at = "feed"
               /\ DOMAIN t = Tr!RequestFields /\ v7' = v7
  /\ \/ UNCHANGED <<v11, v12, v2, v6>>
     \/ /\ s.at = "server" /\ v11' = [v11 EXCEPT ![s.n] = @ + 1]
        /\ \/ v12' = v12 \cup {s.n} /\ UNCHANGED <<v2, v6>>
           \/ v12' = v12 /\ v2' = None /\ s.kind = "trade" /\ UNCHANGED v6
           \/ v12' = v12 /\ v2' = v2 /\ s.kind = "realize"
              /\ (v6' # None => v6.kind # "realize")
  /\ UNCHANGED <<v2, v3, v4>> \/ (v2' = None /\ v4' = {})
(* What an answer may be. *)
LEMMA TradeAnswersAre ==
  ASSUME Tr!FormInv, Tr!RequestInv, Tr!Answer
  PROVE \E s : Answered(s)
<1>1. PICK s \in v8 : Tr!Flagged(s) /\ (Tr!SubmitAddTxFromModal(s) \/ Tr!HearRealized(s) \/ Tr!HearList(s)
                                            \/ Tr!HearRefusal(s) \/ Tr!HearLost(s))
  BY DEF Tr!Answer
<1>2. DOMAIN s = Tr!RequestFields BY <1>1 DEF Tr!RequestInv
<1> DEFINE t == [s EXCEPT !.at = "feed"]
<1>3. t.n = s.n /\ t.kind = s.kind /\ t.at = "feed" /\ DOMAIN t = Tr!RequestFields
  BY <1>2 DEF Tr!RequestFields
<1>4. Tr!Reading(s) => v8' = (v8 \ {s}) \cup {t} BY DEF Tr!Reading
<1> HIDE DEF t
<1>5. CASE Tr!SubmitAddTxFromModal(s)
  <2>1. v4' = {}
    <3>1. CASE v2 # None BY <3>1, <1>5, ClosesForm DEF Tr!SubmitAddTxFromModal
    <3>2. CASE v2 = None
      <4>1. v4 = {} BY <3>2 DEF Tr!FormInv
      <4> QED BY <4>1, <3>2, <1>5 DEF Tr!SubmitAddTxFromModal, Tr!Lookup, Tr!LooksUp, Tr!Aborted
    <3> QED BY <3>1, <3>2
  <2> QED BY <1>1, <1>3, <1>4, <1>5, <2>1 DEF Tr!SubmitAddTxFromModal, Tr!Booked, Answered
<1>6. CASE Tr!HearRealized(s)
  BY <1>1, <1>3, <1>4, <1>6 DEF Tr!HearRealized, Tr!Booked, Answered
<1>7. CASE Tr!HearList(s) BY <1>1, <1>7 DEF Tr!HearList, Answered
<1>8. CASE Tr!HearRefusal(s) BY <1>1, <1>8 DEF Tr!HearRefusal, Answered
<1>9. CASE Tr!HearLost(s) BY <1>1, <1>9 DEF Tr!HearLost, Tr!Booked, Answered
<1> QED BY <1>1, <1>5, <1>6, <1>7, <1>8, <1>9

(* A small sheet is opened or left. *)
SheetStep ==
  /\ UNCHANGED <<v1, v2, v3, v4, v7, v8, v11, v12>>
  /\ \/ v9' = v9 /\ v6' \in {v6, None}
     \/ v1 = "sheets" /\ v9 < tradeMaxOpenings /\ v9' = v9 + 1
(* Deletion s is answered. *)
Deleted(s) ==
  /\ s \in v8 /\ s.kind = "delete" /\ v8' = v8 \ {s} /\ v6' \in {v6, None}
  /\ v11' = v11 \/ (v11[s.n] = 0 /\ v11' = [v11 EXCEPT ![s.n] = @ + 1])
  /\ UNCHANGED <<v1, v2, v3, v4, v7, v9, v12>>
(* What a step of the sheets may be. *)
LEMMA TradeCases ==
  ASSUME Tr!FormInv, Tr!MineIsKept, Tr!RequestInv, Tr!Next
  PROVE FormStep \/ SheetStep \/ \E s : Asks(s) \/ Answered(s) \/ Deleted(s)
<1>1. CASE \E item \in tradeSaved : Tr!OpenEditTransaction(item) BY <1>1, OpensAre
<1>2. CASE Tr!OpenAddTxModal BY <1>2, OpensAre
<1>3. CASE \/ Tr!CloseAddModal \/ Tr!DropAsset \/ Tr!TypeTax \/ Tr!TypeCash \/ Tr!SetSource
           \/ \E a \in tradeAssets : Tr!PickAsset(a)
           \/ \E t \in {"buy", "sell"} : Tr!SetType(t)
           \/ \E d \in tradeDates : Tr!SetDate(d)
           \/ \E n \in 0..1 : Tr!SetShares(n)
           \/ \E v \in Tr!Values : Tr!TypePrice(v)
  BY <1>3, ChangesAre
<1>4. CASE Tr!AnswerQuote BY <1>4, QuotesAre
<1>5. CASE Tr!HandleAddTxSubmit \/ Tr!SubmitRealizeAsset \/ Tr!DeleteTx BY <1>5, TradeAsksAre
<1>6. CASE Tr!Answer BY <1>6, TradeAnswersAre
<1>7. CASE Tr!CloseSheet \/ Tr!SetRealizeForm BY <1>7 DEF Tr!CloseSheet, Tr!SetRealizeForm, SheetStep
<1>8. ASSUME NEW a \in tradeAssets, Tr!OpenRealizeAsset(a) \/ Tr!SetTxDeleteConfirm(a) \/ Tr!HandleArchiveInvestment(a)
      PROVE SheetStep
  BY <1>8 DEF Tr!OpenRealizeAsset, Tr!SetTxDeleteConfirm, Tr!HandleArchiveInvestment, Tr!OpenSheet, SheetStep
<1>9. ASSUME NEW s \in v8, Tr!HearDeleted(s) PROVE Deleted(s)
  BY <1>9 DEF Tr!HearDeleted, Tr!Booked, Deleted
<1> QED BY <1>1, <1>2, <1>3, <1>4, <1>5, <1>6, <1>7, <1>8, <1>9 DEF Tr!Next

(* The sheet and its lookup stay as they should be. *)
LEMMA TradeForm ==
  ASSUME Tr!IInv, Tr!Next
  PROVE Tr!FormInv' /\ Tr!MineIsKept'
<1>0. Tr!FormInv /\ Tr!MineIsKept /\ Tr!RequestInv /\ v9 \in Nat
  BY DEF Tr!IInv, Tr!BooksInv
<1>1. CASE FormStep
  BY <1>0, <1>1 DEF FormStep, Tr!FormInv
<1>2. CASE SheetStep
  BY <1>0, <1>2 DEF SheetStep, Tr!FormInv, Tr!MineIsKept
<1>3. ASSUME NEW s, Asks(s) PROVE Tr!FormInv' /\ Tr!MineIsKept'
  BY <1>0, <1>3 DEF Asks, Tr!FormInv, Tr!MineIsKept
<1>4. ASSUME NEW s, Answered(s) PROVE Tr!FormInv' /\ Tr!MineIsKept'
  BY <1>0, <1>4 DEF Answered, Tr!FormInv, Tr!MineIsKept
<1>5. ASSUME NEW s, Deleted(s) PROVE Tr!FormInv' /\ Tr!MineIsKept'
  BY <1>0, <1>5 DEF Deleted, Tr!FormInv, Tr!MineIsKept
<1> QED BY <1>0, <1>1, <1>2, <1>3, <1>4, <1>5, TradeCases

(* One flagged request is on its way. *)
LEMMA TradeRequests ==
  ASSUME Tr!IInv, Tr!Next
  PROVE Tr!RequestInv'
<1> USE DEF Tr!RequestInv, Tr!Flagged
<1>0. Tr!FormInv /\ Tr!MineIsKept /\ Tr!RequestInv /\ v9 \in Nat
  BY DEF Tr!IInv, Tr!BooksInv
<1>1. CASE FormStep
  BY <1>0, <1>1 DEF FormStep, Tr!FormInv
<1>2. CASE SheetStep
  BY <1>0, <1>2 DEF SheetStep, Tr!FormInv
<1>3. ASSUME NEW s, Asks(s) PROVE Tr!RequestInv'
  <2>1. s.kind \in Tr!Kinds /\ (s.kind = "trade" <=> v1 = "trade") /\ v9 > 0
    BY <1>0, <1>3 DEF Asks, Tr!FormInv, Tr!Kinds
  <2>2. \A t \in v8 : t.n = s.n => t.kind = s.kind
    BY <1>0, <1>3, <2>1 DEF Asks, Tr!FormInv
  <2>3. Tr!Flagged(s) => ~v7 /\ v7' /\ \A t \in v8 : ~Tr!Flagged(t)
    BY <1>0, <1>3 DEF Asks
  <2>4. \A t \in v8' : /\ DOMAIN t = Tr!RequestFields /\ t.n \in 1..v9 /\ t.kind \in Tr!Kinds
                       /\ t.kind = "trade" <=> v1 = "trade"
                       /\ v6 # None /\ t.n = v9 => t.kind = v6.kind
    BY <1>0, <1>3, <2>1, <2>2 DEF Asks, Tr!FormInv
  <2>5. \A t, u \in v8' : t.n = u.n => t.kind = u.kind
    BY <1>0, <1>3, <2>2 DEF Asks
  <2>6. \A t, u \in v8' : Tr!Flagged(t) /\ Tr!Flagged(u) => t = u /\ v7'
    BY <1>0, <1>3, <2>3 DEF Asks
  <2> QED BY <1>3, <2>4, <2>5, <2>6 DEF Asks
<1>4. ASSUME NEW s, Answered(s) PROVE Tr!RequestInv'
  <2>1. CASE v8' = v8 \ {s}
    BY <1>0, <1>4, <2>1 DEF Answered
  <2>2. ASSUME NEW t, v8' = (v8 \ {s}) \cup {t}, t.n = s.n, t.kind = s.kind, DOMAIN t = Tr!RequestFields,
               v7' = v7
        PROVE Tr!RequestInv'
    <3>1. \A u \in v8 \ {s} : ~Tr!Flagged(u) BY <1>0, <1>4 DEF Answered
    <3>2. v7' BY <1>0, <1>4, <2>2 DEF Answered
    <3>3. \A u \in v8' : /\ DOMAIN u = Tr!RequestFields /\ u.n \in 1..v9' /\ u.kind \in Tr!Kinds
                         /\ u.kind = "trade" <=> v1' = "trade"
                         /\ v6' # None /\ u.n = v9' => u.kind = v6'.kind
      BY <1>0, <1>4, <2>2 DEF Answered
    <3>4. \A u, w \in v8' : u.n = w.n => u.kind = w.kind BY <1>0, <1>4, <2>2 DEF Answered
    <3>5. \A u, w \in v8' : Tr!Flagged(u) /\ Tr!Flagged(w) => u = w /\ v7' BY <2>2, <3>1, <3>2
    <3> QED BY <3>3, <3>4, <3>5
  <2> QED BY <1>4, <2>1, <2>2 DEF Answered
<1>5. ASSUME NEW s, Deleted(s) PROVE Tr!RequestInv'
  BY <1>0, <1>5 DEF Deleted
<1> QED BY <1>0, <1>1, <1>2, <1>3, <1>4, <1>5, TradeCases

(* A sheet is booked once, unless its user was not told. *)
LEMMA TradeBooks ==
  ASSUME Tr!TradeAssumption, Tr!IInv, Tr!Next
  PROVE Tr!BooksInv' /\ Tr!OneTradePerSheet'
<1> USE DEF Tr!BooksInv, Tr!OneTradePerSheet, Tr!Unbooked
<1>0. Tr!FormInv /\ Tr!MineIsKept /\ Tr!RequestInv /\ Tr!BooksInv /\ Tr!OneTradePerSheet /\ tradeMaxOpenings \in Nat
  BY DEF Tr!IInv, Tr!TradeAssumption
<1>1. CASE FormStep
  BY <1>0, <1>1 DEF FormStep, Tr!FormInv
<1>2. CASE SheetStep
  BY <1>0, <1>2 DEF SheetStep, Tr!FormInv
<1>3. ASSUME NEW s, Asks(s) PROVE Tr!BooksInv' /\ Tr!OneTradePerSheet'
  BY <1>0, <1>3 DEF Asks, Tr!Flagged
<1>4. ASSUME NEW s, Answered(s) PROVE Tr!BooksInv' /\ Tr!OneTradePerSheet'
  <2>0. s.n \in 1..v9 /\ s.n \in 1..tradeMaxOpenings /\ \A u \in v8 \ {s} : ~Tr!Flagged(u)
    BY <1>0, <1>4 DEF Answered, Tr!RequestInv
  <2>1. \A u \in v8' : Tr!Flagged(u) => u.at # "server"
    BY <1>0, <1>4, <2>0 DEF Answered, Tr!Flagged
  <2>2. CASE UNCHANGED <<v11, v12, v2, v6>>
    BY <1>0, <1>4, <2>1, <2>2 DEF Answered
  <2>3. ASSUME s.at = "server", v11' = [v11 EXCEPT ![s.n] = @ + 1],
               \/ v12' = v12 \cup {s.n} /\ UNCHANGED <<v2, v6>>
               \/ v12' = v12 /\ v2' = None /\ s.kind = "trade" /\ UNCHANGED v6
               \/ v12' = v12 /\ v2' = v2 /\ s.kind = "realize"
                  /\ (v6' # None => v6.kind # "realize")
        PROVE Tr!BooksInv' /\ Tr!OneTradePerSheet'
    <3>1. Tr!Unbooked(s.n) BY <1>0, <1>4, <2>3 DEF Answered
    <3>2. v11' \in [1..tradeMaxOpenings -> Nat] BY <1>0, <2>0, <2>3
    <3>3. \A n \in 1..tradeMaxOpenings : v11'[n] = IF n = s.n THEN v11[n] + 1 ELSE v11[n] BY <1>0, <2>0, <2>3
    <3>4. v9' = v9 BY <1>4 DEF Answered
    <3>5. \A n \in 1..tradeMaxOpenings : n > v9' => v11'[n] = 0 BY <1>0, <2>0, <3>3, <3>4
    <3>6. Tr!OneTradePerSheet' BY <1>0, <2>3, <3>1, <3>3
    <3>7. v2' # None \/ (v6' # None /\ v6'.kind = "realize") => Tr!Unbooked(v9)'
      <4>1. CASE v12' = v12 \cup {s.n} /\ UNCHANGED <<v2, v6>>
        <5>1. CASE s.n = v9 BY <3>4, <4>1, <5>1
        <5>2. CASE s.n # v9
          <6> SUFFICES ASSUME v2 # None \/ (v6 # None /\ v6.kind = "realize")
                       PROVE Tr!Unbooked(v9)'
            BY <4>1
          <6>1. v9 \in 1..tradeMaxOpenings BY <1>0 DEF Tr!FormInv
          <6>2. Tr!Unbooked(v9) BY <1>0
          <6> QED BY <3>3, <3>4, <4>1, <5>2, <6>1, <6>2
        <5> QED BY <5>1, <5>2
      <4>2. CASE v2' = None /\ s.kind = "trade" /\ UNCHANGED v6
        BY <1>0, <1>4, <4>2 DEF Answered, Tr!RequestInv, Tr!FormInv
      <4>3. CASE v2' = v2 /\ s.kind = "realize" /\ (v6' # None => v6.kind # "realize")
        BY <1>0, <1>4, <4>3 DEF Answered, Tr!RequestInv, Tr!FormInv
      <4> QED BY <2>3, <4>1, <4>2, <4>3
    <3> QED BY <1>0, <2>1, <3>2, <3>4, <3>5, <3>6, <3>7
  <2> QED BY <1>4, <2>2, <2>3 DEF Answered
<1>5. ASSUME NEW s, Deleted(s) PROVE Tr!BooksInv' /\ Tr!OneTradePerSheet'
  <2>0. s.n \in 1..v9 /\ s.n \in 1..tradeMaxOpenings BY <1>0, <1>5 DEF Deleted, Tr!RequestInv
  <2>1. CASE v11' = v11 BY <1>0, <1>5, <2>1 DEF Deleted
  <2>2. CASE v11[s.n] = 0 /\ v11' = [v11 EXCEPT ![s.n] = @ + 1]
    <3>1. v11' \in [1..tradeMaxOpenings -> Nat] BY <1>0, <2>0, <2>2
    <3>2. \A n \in 1..tradeMaxOpenings : v11'[n] = IF n = s.n THEN 1 ELSE v11[n] BY <1>0, <2>0, <2>2
    <3>3. Tr!OneTradePerSheet' BY <1>0, <1>5, <3>2 DEF Deleted
    <3>4. \A t \in v8' : Tr!Flagged(t) /\ t.at = "server" => Tr!Unbooked(t.n)'
      <4> SUFFICES ASSUME NEW t \in v8', Tr!Flagged(t), t.at = "server" PROVE Tr!Unbooked(t.n)'
        OBVIOUS
      <4>1. t \in v8 /\ t.n # s.n BY <1>0, <1>5 DEF Deleted, Tr!RequestInv, Tr!Flagged
      <4>2. t.n \in 1..tradeMaxOpenings /\ Tr!Unbooked(t.n) BY <1>0, <4>1 DEF Tr!RequestInv
      <4> QED BY <1>5, <3>2, <4>1, <4>2 DEF Deleted
    <3>5. v2' # None \/ (v6' # None /\ v6'.kind = "realize") => Tr!Unbooked(v9)'
      <4> SUFFICES ASSUME v2' # None \/ (v6' # None /\ v6'.kind = "realize")
                   PROVE Tr!Unbooked(v9)'
        OBVIOUS
      <4>1. v2 = None BY <1>0, <1>5 DEF Deleted, Tr!RequestInv, Tr!FormInv
      <4>2. v6 # None /\ v6.kind = "realize" BY <1>5, <4>1 DEF Deleted
      <4>3. s.n # v9 BY <1>0, <1>5, <4>2 DEF Deleted, Tr!RequestInv
      <4>4. v9 \in 1..tradeMaxOpenings /\ Tr!Unbooked(v9) BY <1>0, <4>2 DEF Tr!FormInv
      <4> QED BY <1>5, <3>2, <4>3, <4>4 DEF Deleted
    <3>6. \A n \in 1..tradeMaxOpenings : n > v9' => v11'[n] = 0 BY <1>0, <1>5, <2>0, <3>2 DEF Deleted
    <3>7. v9' \in 0..tradeMaxOpenings BY <1>0, <1>5 DEF Deleted
    <3> QED BY <3>1, <3>3, <3>4, <3>5, <3>6, <3>7
  <2> QED BY <1>5, <2>1, <2>2 DEF Deleted
<1> QED BY <1>0, <1>1, <1>2, <1>3, <1>4, <1>5, TradeCases

(* At first nothing is open and nothing is booked. *)
LEMMA TradeInit ==
  ASSUME Tr!TradeAssumption, Tr!Init
  PROVE Tr!IInv
<1> USE DEF Tr!Init
<1>1. Tr!FormInv /\ Tr!MineIsKept BY DEF Tr!FormInv, Tr!MineIsKept
<1>2. Tr!RequestInv BY DEF Tr!RequestInv
<1>3. Tr!BooksInv /\ Tr!OneTradePerSheet BY DEF Tr!BooksInv, Tr!OneTradePerSheet, Tr!Unbooked, Tr!TradeAssumption
<1> QED BY <1>1, <1>2, <1>3 DEF Tr!IInv

(* What does not change keeps the invariant. *)
LEMMA TradeStays ==
  ASSUME Tr!IInv, UNCHANGED Tr!vars
  PROVE Tr!IInv'
<1> USE DEF Tr!vars
<1>1. Tr!FormInv' /\ Tr!MineIsKept' BY DEF Tr!IInv, Tr!FormInv, Tr!MineIsKept
<1>2. Tr!RequestInv' BY DEF Tr!IInv, Tr!RequestInv, Tr!Flagged
<1>3. Tr!BooksInv' /\ Tr!OneTradePerSheet' BY DEF Tr!IInv, Tr!BooksInv, Tr!OneTradePerSheet, Tr!Unbooked, Tr!Flagged
<1> QED BY <1>1, <1>2, <1>3 DEF Tr!IInv

(* Every step of the section keeps the invariant. *)
LEMMA TradeStep ==
  ASSUME Tr!TradeAssumption, Tr!IInv, Tr!Next \/ UNCHANGED Tr!vars
  PROVE Tr!IInv'
<1>1. CASE Tr!Next BY <1>1, TradeForm, TradeRequests, TradeBooks DEF Tr!IInv
<1>2. CASE UNCHANGED Tr!vars BY <1>2, TradeStays
<1> QED BY <1>1, <1>2

(***************************************************************************)
(* The forms                                                               *)
(***************************************************************************)
USE DEF Fo!screen, Fo!history

(* The flags are those of forms. *)
LEMMA FormNames ==
  /\ Fo!Flagged \subseteq Fo!Forms /\ "transfer" \in Fo!Forms /\ "asset" \in Fo!Forms
  /\ \A f \in Fo!Forms : Fo!SheetOf(f) \in Fo!Forms /\ (Fo!SheetOf(f) = "asset" <=> f = "asset")
BY DEF Fo!Flagged, Fo!Forms, Fo!SheetOf

(* A form appears on the screen, with a draft of its own. *)
Appears ==
  /\ v1' \in Fo!Forms /\ v4'.draft = v4.draft + 1
  /\ v4' \in [draft : Nat, ready : BOOLEAN, taxed : BOOLEAN]
  /\ v2' \in [Fo!Forms -> formRows \cup {None}] /\ v3' \in [Fo!Forms -> formRows \cup {None}]
  /\ v2'["transfer"] = None
  /\ \A f \in Fo!Forms : f # "asset" \/ v1' = "asset" => v2'[f] = v3'[f]
  /\ v12' = (v12 \/ Fo!Awaited(v1'))
  /\ UNCHANGED <<v6, v7, v8, v10, Fo!history>>
(* A form that opens on a row shows that row and edits it. *)
LEMMA OpensOn ==
  ASSUME Fo!FormsAssumption, Fo!ScreenInv, NEW f \in Fo!Forms \ {"transfer"}, NEW r \in formRows \cup {None}, Fo!Open(f, r, r)
  PROVE Appears
<1> USE DEF Fo!ScreenInv
<1>1. v4' = [draft |-> v4.draft + 1, ready |-> r # None, taxed |-> FALSE] BY DEF Fo!Open, Fo!NewDraft
<1>2. v2' = [v2 EXCEPT ![f] = r] /\ v3' = [v3 EXCEPT ![f] = r] BY DEF Fo!Open
<1>3. v1' = f /\ v1 = None /\ v1 # "asset"
  BY FormNames DEF Fo!Open, Fo!FormsAssumption
<1>4. v2' \in [Fo!Forms -> formRows \cup {None}] /\ v3' \in [Fo!Forms -> formRows \cup {None}] BY <1>2
<1>5. v2'["transfer"] = None BY <1>2, FormNames
<1>6. \A g \in Fo!Forms : g # "asset" \/ v1' = "asset" => v2'[g] = v3'[g] BY <1>2, <1>3
<1>7. v12' = (v12 \/ Fo!Awaited(v1')) /\ UNCHANGED <<v6, v7, v8, v10, Fo!history>>
  BY <1>3 DEF Fo!Open
<1> QED BY <1>1, <1>3, <1>4, <1>5, <1>6, <1>7 DEF Appears

(* Whatever form appears. *)
LEMMA AppearsIs ==
  ASSUME Fo!FormsAssumption, Fo!ScreenInv,
         \/ \E r \in formRows \cup {None} :
              \/ Fo!OpenExpenseModal(r) \/ Fo!OpenAsset(r) \/ Fo!OpenCategory(r) \/ Fo!OpenEditInvType(r)
              \/ Fo!OpenRecurringModal(r) \/ Fo!OpenPacModal(r)
         \/ Fo!OpenNewInvType \/ \E f \in Fo!Forms : Fo!SwitchTab(f)
  PROVE Appears
<1>0. {"expense", "asset", "category", "invtype", "recurring", "pac"} \subseteq Fo!Forms \ {"transfer"}
  BY DEF Fo!Forms
<1>1. ASSUME NEW r \in formRows \cup {None},
             \/ Fo!OpenExpenseModal(r) \/ Fo!OpenAsset(r) \/ Fo!OpenCategory(r) \/ Fo!OpenEditInvType(r)
             \/ Fo!OpenRecurringModal(r) \/ Fo!OpenPacModal(r)
      PROVE Appears
  BY <1>0, <1>1, OpensOn DEF Fo!OpenExpenseModal, Fo!OpenAsset, Fo!OpenCategory, Fo!OpenEditInvType,
    Fo!OpenRecurringModal, Fo!OpenPacModal
<1>2. CASE Fo!OpenNewInvType
  <2>1. v2["invtype"] = v3["invtype"] /\ v3["invtype"] \in formRows \cup {None}
    BY <1>0 DEF Fo!ScreenInv
  <2> QED BY <1>0, <1>2, <2>1, OpensOn DEF Fo!OpenNewInvType
<1>3. ASSUME NEW f \in Fo!Forms, Fo!SwitchTab(f) PROVE Appears
  <2> USE DEF Fo!ScreenInv
  <2>1. v4' = [draft |-> v4.draft + 1, ready |-> FALSE, taxed |-> FALSE] BY <1>3 DEF Fo!SwitchTab, Fo!NewDraft
  <2>2. v2' = v2 /\ v3' = [v3 EXCEPT !["transfer"] = None] /\ v1' = f
    BY <1>3 DEF Fo!SwitchTab
  <2>3. v1 # "asset" /\ v1' # "asset" /\ Fo!SheetOf(v1) = Fo!SheetOf(v1')
    BY <1>3, <2>2 DEF Fo!SwitchTab, Fo!SheetOf
  <2>4. Fo!Awaited(v1) <=> Fo!Awaited(v1') BY <2>3 DEF Fo!Awaited
  <2>5. v3' \in [Fo!Forms -> formRows \cup {None}] BY <2>2
  <2>6. \A g \in Fo!Forms : g # "asset" \/ v1' = "asset" => v2'[g] = v3'[g]
    BY <2>2, <2>3, FormNames
  <2>7. v12' = (v12 \/ Fo!Awaited(v1)) BY <1>3 DEF Fo!SwitchTab
  <2>8. v12' = (v12 \/ Fo!Awaited(v1')) BY <2>4, <2>7
  <2>9. UNCHANGED <<v6, v7, v8, v10, Fo!history>> BY <1>3 DEF Fo!SwitchTab
  <2> QED BY <2>1, <2>2, <2>5, <2>6, <2>8, <2>9 DEF Appears
<1> QED BY <1>1, <1>2, <1>3

(* The form is filled or left, or a question comes or goes. *)
Moves ==
  /\ v1' \in {v1, None} /\ v4'.draft = v4.draft
  /\ v4' \in [draft : Nat, ready : BOOLEAN, taxed : BOOLEAN]
  /\ v2' \in [Fo!Forms -> formRows \cup {None}] /\ v3' \in [Fo!Forms -> formRows \cup {None}]
  /\ v2'["transfer"] = None
  /\ \A f \in Fo!Forms : f # "asset" \/ v1' = "asset" => v2'[f] = v3'[f]
  /\ UNCHANGED <<v6, v7, v8, v12, Fo!history>>
(* What is typed keeps its draft. *)
LEMMA FillsAre ==
  ASSUME Fo!ScreenInv, NEW f, (\E ready \in BOOLEAN : Fo!Fill(f, ready)) \/ Fo!FillRate(f)
  PROVE Moves
<1>1. v4'.draft = v4.draft /\ v4' \in [draft : Nat, ready : BOOLEAN, taxed : BOOLEAN]
  BY DEF Fo!Fill, Fo!FillRate, Fo!ScreenInv
<1>2. UNCHANGED <<v1, v2, v3, v5, v6, v7, v8, v10, v12, Fo!history>>
  BY DEF Fo!Fill, Fo!FillRate
<1> QED BY <1>1, <1>2 DEF Moves, Fo!ScreenInv

(* A form that is left forgets the row, but for the values of an asset. *)
LEMMA CloseIs ==
  ASSUME Fo!FormsAssumption, Fo!ScreenInv, Fo!Close
  PROVE Moves
<1> USE DEF Fo!ScreenInv
<1>1. v1' = None /\ v1 \in Fo!Forms /\ v1' # "asset"
  BY FormNames DEF Fo!Close, Fo!FormsAssumption
<1>2. v2' = [f \in Fo!Forms |-> IF Fo!SheetOf(f) = Fo!SheetOf(v1) /\ f \notin Fo!KeepsRow
                                 THEN None ELSE v2[f]]
  BY DEF Fo!Close
<1>3. v3' = [f \in Fo!Forms |-> IF Fo!SheetOf(f) = Fo!SheetOf(v1) /\ f \notin Fo!KeepsValues
                                 THEN None ELSE v3[f]]
  BY DEF Fo!Close
<1>4. v2' \in [Fo!Forms -> formRows \cup {None}] /\ v3' \in [Fo!Forms -> formRows \cup {None}]
  BY <1>2, <1>3
<1>5. v2'["transfer"] = None BY <1>2, FormNames
<1>6. \A f \in Fo!Forms \ {"asset"} : v2'[f] = v3'[f]
  BY <1>2, <1>3 DEF Fo!KeepsRow, Fo!KeepsValues
<1>7. UNCHANGED <<v4, v6, v7, v8, v12, Fo!history>> BY DEF Fo!Close
<1> QED BY <1>1, <1>4, <1>5, <1>6, <1>7 DEF Moves

(* A question leaves the form as it is. *)
LEMMA FormAsksAre ==
  ASSUME Fo!ScreenInv, (\E f : Fo!Ask(f)) \/ Fo!CancelQuestion
  PROVE Moves
BY DEF Fo!Ask, Fo!CancelQuestion, Moves, Fo!ScreenInv

(* Request q is sent: of the form on the screen, or of a row of a list. *)
Posts(q) ==
  /\ v7' = v7 \cup {q} /\ DOMAIN q = Fo!RequestFields /\ q.form \in Fo!Forms /\ q.at = "sent"
  /\ q.id = q.of /\ q.form \notin v6 /\ v6' = Fo!Raised(q.form) /\ v8' = v8 + 1
  /\ q.draft = 0 \/ (q.draft = v4.draft /\ q.form = v1)
  /\ UNCHANGED <<v1, v2, v3, v4, v12, Fo!history>>
(* What is posted is one request. *)
LEMMA PostIs ==
  ASSUME Fo!ScreenInv, NEW f \in Fo!Forms, NEW draft, NEW id, Fo!Post(f, draft, id, id),
         draft = 0 \/ (draft = v4.draft /\ f = v1),
         UNCHANGED <<v1, v2, v3, v4, v12, Fo!history>>
  PROVE \E q : Posts(q)
<1> DEFINE q == [n |-> v8, form |-> f, draft |-> draft, id |-> id, of |-> id, at |-> "sent"]
<1>1. v7' = v7 \cup {q} /\ f \notin v6 /\ v6' = Fo!Raised(f) /\ v8' = v8 + 1 BY DEF Fo!Post
<1>2. DOMAIN q = Fo!RequestFields /\ q.form = f /\ q.draft = draft /\ q.at = "sent" /\ q.id = q.of
  BY DEF Fo!RequestFields
<1> HIDE DEF q
<1>3. Posts(q) BY <1>1, <1>2 DEF Posts
<1> QED BY <1>3

(* The button of a form sends the row that it shows. *)
LEMMA SubmitsAre ==
  ASSUME Fo!FormsAssumption, Fo!ScreenInv, NEW f \in Fo!Forms, v1 = f, Fo!Submit(f)
  PROVE \E q : Posts(q)
<1>1. v2[f] = v3[f] BY DEF Fo!ScreenInv
<1>2. Fo!Post(f, v4.draft, v2[f], v2[f]) BY <1>1 DEF Fo!Submit
<1> QED BY <1>2, PostIs DEF Fo!Submit

(* Every button sends one request, or asks first. *)
LEMMA ButtonsAre ==
  ASSUME Fo!FormsAssumption, Fo!ScreenInv,
         \/ Fo!SubmitExpense \/ Fo!SubmitTransferInCfModal \/ Fo!AddCategory \/ Fo!SubmitPac
         \/ Fo!SubmitRecurring \/ Fo!RecurringUpdateChoice \/ Fo!SaveAsset \/ Fo!AddInvestmentType
         \/ \E f \in Fo!Forms : Fo!TaxPropagation(f)
  PROVE Moves \/ \E q : Posts(q)
<1>0. {"expense", "transfer", "asset", "category", "invtype", "recurring", "pac"} = Fo!Forms
  BY DEF Fo!Forms
<1>1. ASSUME NEW f \in Fo!Forms, v1 = f, Fo!Submit(f) PROVE \E q : Posts(q) BY <1>1, SubmitsAre
<1>2. ASSUME NEW f \in Fo!Forms, Fo!Ask(f) PROVE Moves BY <1>2, FormAsksAre
<1>3. CASE Fo!SubmitExpense BY <1>0, <1>1, <1>3 DEF Fo!SubmitExpense
<1>4. CASE Fo!SubmitTransferInCfModal BY <1>0, <1>1, <1>4 DEF Fo!SubmitTransferInCfModal
<1>5. CASE Fo!AddCategory BY <1>0, <1>1, <1>5 DEF Fo!AddCategory
<1>6. CASE Fo!SubmitPac BY <1>0, <1>1, <1>6 DEF Fo!SubmitPac
<1>7. CASE Fo!SubmitRecurring BY <1>0, <1>1, <1>2, <1>7 DEF Fo!SubmitRecurring
<1>8. CASE Fo!RecurringUpdateChoice BY <1>0, <1>1, <1>8 DEF Fo!RecurringUpdateChoice
<1>9. CASE Fo!SaveAsset BY <1>0, <1>1, <1>2, <1>9 DEF Fo!SaveAsset
<1>10. CASE Fo!AddInvestmentType BY <1>0, <1>1, <1>2, <1>10 DEF Fo!AddInvestmentType
<1>11. CASE \E f \in Fo!Forms : Fo!TaxPropagation(f) BY <1>1, <1>11 DEF Fo!TaxPropagation
<1> QED BY <1>3, <1>4, <1>5, <1>6, <1>7, <1>8, <1>9, <1>10, <1>11

(* The buttons of the rows, and the undoing of an expense. *)
LEMMA RowButtonsAre ==
  ASSUME Fo!FormsAssumption, Fo!ScreenInv,
         \/ \E r \in formRows : \/ Fo!ToggleRecurringStatus(r) \/ Fo!DeleteRecurring(r)
                                \/ Fo!TogglePacStatus(r) \/ Fo!DeletePac(r) \/ Fo!DeleteExpense(r)
         \/ Fo!GeneratePacForMonth \/ \E n \in v10 : Fo!Undo(n)
  PROVE \E q : Posts(q)
<1>0. {"expense", "recurring", "pac"} \subseteq Fo!Forms
  BY DEF Fo!Forms
<1>1. ASSUME NEW f \in Fo!Forms, NEW r, Fo!OfRow(f, r) PROVE \E q : Posts(q)
  BY <1>1, PostIs DEF Fo!OfRow
<1>2. ASSUME NEW n, Fo!Undo(n) PROVE \E q : Posts(q)
  BY <1>0, <1>2, PostIs DEF Fo!Undo
<1> QED BY <1>0, <1>1, <1>2 DEF Fo!ToggleRecurringStatus, Fo!DeleteRecurring, Fo!TogglePacStatus, Fo!DeletePac,
  Fo!DeleteExpense, Fo!GeneratePacForMonth

(* What a step of the forms may be. *)
LEMMA FormsCases ==
  ASSUME Fo!FormsAssumption, Fo!ScreenInv, Fo!Next
  PROVE \/ Appears \/ Moves \/ \E q : Posts(q)
        \/ \E q \in v7 : Fo!Serve(q) \/ Fo!Hear(q)
<1>1. CASE \/ \E r \in formRows \cup {None} :
                \/ Fo!OpenExpenseModal(r) \/ Fo!OpenAsset(r) \/ Fo!OpenCategory(r) \/ Fo!OpenEditInvType(r)
                \/ Fo!OpenRecurringModal(r) \/ Fo!OpenPacModal(r)
           \/ Fo!OpenNewInvType \/ \E f \in Fo!Forms : Fo!SwitchTab(f)
  BY <1>1, AppearsIs
<1>2. ASSUME NEW b \in BOOLEAN,
             \/ Fo!FillExpense(b) \/ Fo!FillTransfer(b) \/ Fo!FillAsset(b) \/ Fo!FillCategory(b)
             \/ Fo!FillInvType(b) \/ Fo!FillRecurring(b) \/ Fo!FillPac(b) \/ Fo!FillBankAccount(b)
             \/ \E f \in Fo!Schedules : Fo!FillFrequency(f, b)
      PROVE Moves
  BY <1>2, FillsAre DEF Fo!FillExpense, Fo!FillTransfer, Fo!FillAsset, Fo!FillCategory, Fo!FillInvType, Fo!FillRecurring,
    Fo!FillPac, Fo!FillBankAccount, Fo!FillFrequency
<1>3. CASE Fo!Close BY <1>3, CloseIs
<1>4. CASE Fo!CancelQuestion BY <1>4, FormAsksAre
<1>5. CASE \/ Fo!SubmitExpense \/ Fo!SubmitTransferInCfModal \/ Fo!AddCategory \/ Fo!SubmitPac
           \/ Fo!SubmitRecurring \/ Fo!RecurringUpdateChoice \/ Fo!SaveAsset \/ Fo!AddInvestmentType
           \/ \E f \in Fo!Forms : Fo!TaxPropagation(f)
  BY <1>5, ButtonsAre
<1>6. CASE \/ \E r \in formRows : \/ Fo!ToggleRecurringStatus(r) \/ Fo!DeleteRecurring(r)
                                  \/ Fo!TogglePacStatus(r) \/ Fo!DeletePac(r) \/ Fo!DeleteExpense(r)
           \/ Fo!GeneratePacForMonth \/ \E n \in v10 : Fo!Undo(n)
  BY <1>6, RowButtonsAre
<1> QED BY <1>1, <1>2, <1>3, <1>4, <1>5, <1>6 DEF Fo!Next

(* Request t is request q, answered: recorded, refused, or both. *)
Serves(q, t) ==
  /\ q \in v7 /\ q.at = "sent" /\ v7' = (v7 \ {q}) \cup {t}
  /\ DOMAIN t = Fo!RequestFields /\ t.form = q.form /\ t.draft = q.draft /\ t.id = q.id /\ t.of = q.of
  /\ \/ t.at = "ok" /\ v9' = v9 \cup {q} /\ v13' = v13
     \/ t.at = "refused" /\ v9' = v9 /\ v13' = v13
     \/ t.at = "refused" /\ v9' = v9 \cup {q} /\ v13' = TRUE
  /\ UNCHANGED <<Fo!screen, v6, v8, v11, v12>>
(* The server answers one request. *)
LEMMA FormServeIs ==
  ASSUME Fo!RequestInv, NEW q \in v7, Fo!Serve(q)
  PROVE \E t : Serves(q, t)
<1>0. DOMAIN q = Fo!RequestFields BY DEF Fo!RequestInv
<1>1. ASSUME NEW a
      PROVE LET t == [q EXCEPT !.at = a] IN
            /\ DOMAIN t = Fo!RequestFields /\ t.form = q.form /\ t.draft = q.draft /\ t.id = q.id /\ t.of = q.of
            /\ t.at = a
  BY <1>0 DEF Fo!RequestFields
<1> DEFINE s == [q EXCEPT !.at = "ok"]
           r == [q EXCEPT !.at = "refused"]
<1>2. \/ v7' = (v7 \ {q}) \cup {s} /\ v9' = v9 \cup {q} /\ v13' = v13
      \/ v7' = (v7 \ {q}) \cup {r} /\ v9' = v9 /\ v13' = v13
      \/ v7' = (v7 \ {q}) \cup {r} /\ v9' = v9 \cup {q} /\ v13' = TRUE
  BY DEF Fo!Serve
<1>3. q.at = "sent" /\ UNCHANGED <<Fo!screen, v6, v8, v11, v12>> BY DEF Fo!Serve
<1>4. DOMAIN s = Fo!RequestFields /\ s.form = q.form /\ s.draft = q.draft /\ s.id = q.id /\ s.of = q.of /\ s.at = "ok"
  BY <1>1
<1>5. DOMAIN r = Fo!RequestFields /\ r.form = q.form /\ r.draft = q.draft /\ r.id = q.id /\ r.of = q.of /\ r.at = "refused"
  BY <1>1
<1> HIDE DEF s, r
<1>6. Serves(q, s) \/ Serves(q, r) BY <1>2, <1>3, <1>4, <1>5 DEF Serves
<1> QED BY <1>6

(* The answer q to the form that is on the screen takes it off. *)
Takes(q) == q.draft > 0 /\ q.at = "ok" /\ v1 # None /\ Fo!SheetOf(v1) = Fo!SheetOf(q.form)
Hears(q) ==
  /\ q \in v7 /\ v7' = v7 \ {q} /\ v6' = v6 \ {q.form}
  /\ v1' = IF Takes(q) THEN None ELSE v1
  /\ v11' = IF Takes(q) THEN v11 \cup {v4.draft} ELSE v11
  /\ v2' \in [Fo!Forms -> formRows \cup {None}] /\ v3' \in [Fo!Forms -> formRows \cup {None}]
  /\ v2'["transfer"] = None
  /\ \A f \in Fo!Forms : f # "asset" \/ v1' = "asset" => v2'[f] = v3'[f]
  /\ UNCHANGED <<v4, v8, v9, v12, v13>>
(* The handler of an answer. *)
LEMMA HearIs ==
  ASSUME Fo!FormsAssumption, Fo!ScreenInv, Fo!RequestInv, NEW q \in v7, Fo!Hear(q)
  PROVE Hears(q)
<1> USE DEF Fo!ScreenInv
<1> DEFINE shut(f) == Fo!Closes(q) /\ Fo!SheetOf(f) = Fo!SheetOf(q.form)
<1>1. v1 # None /\ shut(v1) <=> Takes(q) BY DEF Fo!Closes, Takes
<1>2. v2' = [f \in Fo!Forms |-> IF shut(f) THEN None ELSE v2[f]]
      /\ v3' = [f \in Fo!Forms |-> IF shut(f) THEN None ELSE v3[f]]
  BY DEF Fo!Hear
<1>3. v1' = IF v1 # None /\ shut(v1) THEN None ELSE v1
  BY DEF Fo!Hear
<1>4. v11' = v11 \cup (IF v1 # None /\ shut(v1) THEN {v4.draft} ELSE {}) BY DEF Fo!Hear
<1>5. v7' = v7 \ {q} /\ v6' = v6 \ {q.form} /\ UNCHANGED <<v4, v8, v9, v12, v13>>
  BY DEF Fo!Hear, Fo!Lowered
<1> HIDE DEF shut
<1>6. v2' \in [Fo!Forms -> formRows \cup {None}] /\ v3' \in [Fo!Forms -> formRows \cup {None}] BY <1>2
<1>7. v2'["transfer"] = None BY <1>2, FormNames
<1>8. v1' = "asset" => v1 = "asset" BY <1>3, FormNames DEF Fo!FormsAssumption
<1>9. \A f \in Fo!Forms : f # "asset" \/ v1' = "asset" => v2'[f] = v3'[f] BY <1>2, <1>8
<1>10. v1' = (IF Takes(q) THEN None ELSE v1) /\ v11' = (IF Takes(q) THEN v11 \cup {v4.draft} ELSE v11)
  BY <1>1, <1>3, <1>4
<1> QED BY <1>5, <1>6, <1>7, <1>9, <1>10 DEF Hears

(* The row that is edited stays the row that is shown. *)
LEMMA FormsScreen ==
  ASSUME Fo!FormsAssumption, Fo!IInv, Fo!Next
  PROVE Fo!ScreenInv'
<1>0. Fo!ScreenInv /\ Fo!RequestInv BY DEF Fo!IInv
<1>1. CASE Appears BY <1>0, <1>1 DEF Appears, Fo!ScreenInv
<1>2. CASE Moves BY <1>0, <1>2 DEF Moves, Fo!ScreenInv
<1>3. ASSUME NEW q, Posts(q) PROVE Fo!ScreenInv' BY <1>0, <1>3 DEF Posts, Fo!ScreenInv
<1>4. ASSUME NEW q \in v7, Fo!Serve(q) PROVE Fo!ScreenInv'
  <2>1. UNCHANGED <<Fo!screen, v8>> BY <1>4 DEF Fo!Serve
  <2> QED BY <1>0, <2>1 DEF Fo!ScreenInv
<1>5. ASSUME NEW q \in v7, Fo!Hear(q) PROVE Fo!ScreenInv'
  <2>1. Hears(q) BY <1>0, <1>5, HearIs
  <2> QED BY <1>0, <2>1 DEF Hears, Fo!ScreenInv
<1> QED BY <1>0, <1>1, <1>2, <1>3, <1>4, <1>5, FormsCases

(* What is sent saves the row it shows, and a form is sent once at a time. *)
LEMMA FormsRequests ==
  ASSUME Fo!FormsAssumption, Fo!IInv, Fo!Next
  PROVE Fo!RequestInv' /\ Fo!SavesTheRowItShows'
<1> USE DEF Fo!RequestInv, Fo!SavesTheRowItShows
<1>0. Fo!ScreenInv /\ Fo!RequestInv /\ Fo!SavesTheRowItShows /\ v4.draft \in Nat
  BY DEF Fo!IInv, Fo!ScreenInv
<1>1. CASE Appears
  <2>1. \A q \in v7 : q.form \in Fo!Forms /\ q.draft \in 0..v4'.draft BY <1>0, <1>1 DEF Appears
  <2>2. ~v12' => \A q \in v7 : ~(q.draft > 0 /\ Fo!SheetOf(q.form) = Fo!SheetOf(v1'))
    BY <1>1 DEF Appears, Fo!Awaited
  <2> QED BY <1>0, <1>1, <2>1, <2>2 DEF Appears
<1>2. CASE Moves BY <1>0, <1>2 DEF Moves
<1>3. ASSUME NEW q, Posts(q) PROVE Fo!RequestInv' /\ Fo!SavesTheRowItShows'
  <2>1. q.draft \in 0..v4.draft BY <1>0, <1>3 DEF Posts
  <2>2. v6 \subseteq v6' /\ (q.form \in Fo!Flagged => q.form \in v6') BY <1>3 DEF Posts, Fo!Raised
  <2>3. \A p \in v7 : p.form = q.form => p.form \notin Fo!Flagged BY <1>0, <1>3 DEF Posts
  <2>4. \A p \in v7' : /\ DOMAIN p = Fo!RequestFields /\ p.form \in Fo!Forms /\ p.draft \in 0..v4'.draft
                       /\ p.form \in Fo!Flagged => p.form \in v6'
    BY <1>0, <1>3, <2>1, <2>2 DEF Posts
  <2>5. \A p, r \in v7' : p.form = r.form /\ p.form \in Fo!Flagged => p = r
    BY <1>0, <1>3, <2>3 DEF Posts
  <2>6. ~v12' /\ v1' # None =>
          \A p \in v7' : p.draft > 0 /\ Fo!SheetOf(p.form) = Fo!SheetOf(v1') => p.draft = v4'.draft
    BY <1>0, <1>3 DEF Posts
  <2>7. Fo!SavesTheRowItShows' BY <1>0, <1>3 DEF Posts
  <2> QED BY <2>4, <2>5, <2>6, <2>7
<1>4. ASSUME NEW q \in v7, Fo!Serve(q) PROVE Fo!RequestInv' /\ Fo!SavesTheRowItShows'
  <2>1. PICK t : Serves(q, t) BY <1>0, <1>4, FormServeIs
  <2>2. \A p \in v7' : /\ DOMAIN p = Fo!RequestFields /\ p.form \in Fo!Forms /\ p.draft \in 0..v4'.draft
                       /\ p.form \in Fo!Flagged => p.form \in v6'
    BY <1>0, <2>1 DEF Serves
  <2>3. \A p, r \in v7' : p.form = r.form /\ p.form \in Fo!Flagged => p = r
    BY <1>0, <2>1 DEF Serves
  <2>4. ~v12' /\ v1' # None =>
          \A p \in v7' : p.draft > 0 /\ Fo!SheetOf(p.form) = Fo!SheetOf(v1') => p.draft = v4'.draft
    BY <1>0, <2>1 DEF Serves
  <2>5. Fo!SavesTheRowItShows' BY <1>0, <2>1 DEF Serves
  <2> QED BY <2>2, <2>3, <2>4, <2>5
<1>5. ASSUME NEW q \in v7, Fo!Hear(q) PROVE Fo!RequestInv' /\ Fo!SavesTheRowItShows'
  <2>1. Hears(q) BY <1>0, <1>5, HearIs
  <2> QED BY <1>0, <2>1 DEF Hears
<1> QED BY <1>0, <1>1, <1>2, <1>3, <1>4, <1>5, FormsCases

(* A draft is recorded once. *)
LEMMA FormsMade ==
  ASSUME Fo!FormsAssumption, Fo!IInv, Fo!Next
  PROVE Fo!MadeInv' /\ Fo!OneRowPerDraft'
<1> USE DEF Fo!MadeInv, Fo!OneRowPerDraft, Fo!SameDraft
<1>0. Fo!ScreenInv /\ Fo!RequestInv /\ Fo!MadeInv /\ Fo!OneRowPerDraft /\ v4.draft \in Nat
  BY DEF Fo!IInv, Fo!ScreenInv
<1>1. CASE Appears
  <2>1. \A p \in v9 : p.draft \in 0..v4'.draft /\ p.draft # v4'.draft BY <1>0, <1>1 DEF Appears
  <2> QED BY <1>0, <1>1, <2>1 DEF Appears
<1>2. CASE Moves
  <2>1. \A f \in Fo!Flagged : f = v1' => f = v1 BY <1>2, FormNames DEF Moves, Fo!FormsAssumption
  <2> QED BY <1>0, <1>2, <2>1 DEF Moves
<1>3. ASSUME NEW q, Posts(q) PROVE Fo!MadeInv' /\ Fo!OneRowPerDraft'
  <2>1. ~v13 => \A p \in v9 : p.draft > 0 /\ p.form \in Fo!Flagged => ~Fo!SameDraft(p, q)
    <3> SUFFICES ASSUME ~v13, NEW p \in v9, p.draft > 0, p.form \in Fo!Flagged, Fo!SameDraft(p, q) PROVE FALSE
      OBVIOUS
    <3>1. p.draft = v4.draft /\ p.form = v1 BY <1>3 DEF Posts
    <3>2. PICK r \in v7 : Fo!SameDraft(p, r) BY <1>0, <3>1
    <3>3. r.form \in v6 /\ r.form = q.form BY <1>0, <3>2 DEF Fo!RequestInv
    <3> QED BY <1>3, <3>3 DEF Posts
  <2>2. \A r \in v7' : r \in v7 \/ (r = q /\ r.at = "sent") BY <1>3 DEF Posts
  <2>3. v7 \subseteq v7' /\ UNCHANGED <<v1, v4, v9, v13>> BY <1>3 DEF Posts
  <2>4. \A r \in v7' : r.at = "ok" => \E p \in v9' : p.draft = r.draft BY <1>0, <2>2, <2>3
  <2> QED BY <1>0, <2>1, <2>2, <2>3, <2>4
<1>4. ASSUME NEW q \in v7, Fo!Serve(q) PROVE Fo!MadeInv' /\ Fo!OneRowPerDraft'
  <2>1. PICK t : Serves(q, t) BY <1>0, <1>4, FormServeIs
  <2>2. UNCHANGED <<v1, v4>> /\ q.draft \in 0..v4.draft BY <1>0, <2>1 DEF Serves, Fo!RequestInv
  <2>3. \A r \in v7' : (r \in v7 /\ r # q) \/ r = t BY <2>1 DEF Serves
  <2>4. \A r \in v7 : r # q => r \in v7' BY <2>1 DEF Serves
  <2>5. t \in v7' /\ t.form = q.form /\ t.draft = q.draft /\ t.at # "sent" /\ q.at = "sent" BY <2>1 DEF Serves
  <2>6. v9 \subseteq v9' /\ v9' \subseteq v9 \cup {q} /\ (t.at = "ok" => q \in v9')
    BY <2>1 DEF Serves
  <2>7. \A p \in v9' : p.draft \in 0..v4'.draft BY <1>0, <2>2, <2>6
  <2>8. \A r \in v7' : r.at = "ok" => \E p \in v9' : p.draft = r.draft BY <1>0, <2>3, <2>5, <2>6
  <2>9. ASSUME ~v13', NEW p \in v9', p.draft > 0, p.form \in Fo!Flagged
        PROVE /\ p.draft = v4.draft /\ p.form = v1 => \E r \in v7' : r.at = "ok" /\ Fo!SameDraft(p, r)
              /\ \A r \in v7' : r.at = "sent" => ~Fo!SameDraft(p, r)
    <3>0. ~v13 /\ (p \in v9 \/ (t.at = "ok" /\ p = q)) BY <2>1, <2>9 DEF Serves
    <3>1. CASE p \in v9
      <4>1. \A r \in v7' : r.at = "sent" => ~Fo!SameDraft(p, r) BY <1>0, <2>3, <2>5, <2>9, <3>0, <3>1
      <4>2. p.draft = v4.draft /\ p.form = v1 => \E r \in v7' : r.at = "ok" /\ Fo!SameDraft(p, r)
        <5> SUFFICES ASSUME p.draft = v4.draft, p.form = v1
                     PROVE \E r \in v7' : r.at = "ok" /\ Fo!SameDraft(p, r)
          OBVIOUS
        <5>1. PICK r \in v7 : r.at = "ok" /\ Fo!SameDraft(p, r) BY <1>0, <2>9, <3>0, <3>1
        <5>2. r # q BY <5>1, <2>5
        <5> QED BY <2>4, <5>1, <5>2
      <4> QED BY <4>1, <4>2
    <3>2. CASE t.at = "ok" /\ p = q
      <4>1. Fo!SameDraft(p, t) BY <2>5, <3>2
      <4>2. \A r \in v7 : r.form = q.form => r = q BY <1>0, <2>9, <3>2 DEF Fo!RequestInv
      <4>3. \A r \in v7' : r.at = "sent" => ~Fo!SameDraft(p, r) BY <2>3, <2>5, <3>2, <4>2
      <4> QED BY <2>5, <3>2, <4>1, <4>3
    <3> QED BY <3>0, <3>1, <3>2
  <2>10. Fo!OneRowPerDraft'
    <3> SUFFICES ASSUME ~v13', NEW p \in v9', NEW r \in v9',
                        p.draft > 0 /\ p.draft = r.draft /\ p.form = r.form /\ p.form \in Fo!Flagged /\ p.id = None
                 PROVE p.n = r.n
      OBVIOUS
    <3>0. ~v13 BY <2>1 DEF Serves
    <3>1. CASE p \in v9 /\ r \in v9 BY <1>0, <3>0, <3>1
    <3>2. \A s \in v9 : s.draft > 0 /\ s.form \in Fo!Flagged => ~Fo!SameDraft(s, q) BY <1>0, <2>5, <3>0
    <3>3. p = r \/ (p \in v9 /\ r \in v9) BY <2>6, <3>2
    <3> QED BY <3>1, <3>3
  <2> QED BY <2>2, <2>7, <2>8, <2>9, <2>10
<1>5. ASSUME NEW q \in v7, Fo!Hear(q) PROVE Fo!MadeInv' /\ Fo!OneRowPerDraft'
  <2>1. Hears(q) BY <1>0, <1>5, HearIs
  <2>2. v7' = v7 \ {q} /\ UNCHANGED <<v4, v9, v13>> BY <2>1 DEF Hears
  <2>3. ASSUME ~v13, NEW p \in v9, p.draft > 0, p.form \in Fo!Flagged, p.draft = v4.draft, p.form = v1'
        PROVE \E r \in v7' : r.at = "ok" /\ Fo!SameDraft(p, r)
    <3>1. v1' # None BY <2>3, FormNames DEF Fo!FormsAssumption
    <3>2. v1' = v1 /\ ~Takes(q) BY <2>1, <3>1 DEF Hears
    <3>3. PICK r \in v7 : r.at = "ok" /\ Fo!SameDraft(p, r) BY <1>0, <2>3, <3>2
    <3>4. r # q BY <2>3, <3>1, <3>2, <3>3 DEF Takes
    <3> QED BY <2>2, <3>3, <3>4
  <2> QED BY <1>0, <2>2, <2>3
<1> QED BY <1>0, <1>1, <1>2, <1>3, <1>4, <1>5, FormsCases

(* What an answer takes off the screen is recorded. *)
LEMMA FormsTaken ==
  ASSUME Fo!FormsAssumption, Fo!IInv, Fo!Next
  PROVE Fo!NothingTypedIsLost'
<1> USE DEF Fo!NothingTypedIsLost
<1>0. Fo!ScreenInv /\ Fo!RequestInv /\ Fo!MadeInv /\ Fo!NothingTypedIsLost
  BY DEF Fo!IInv
<1>1. CASE Appears BY <1>0, <1>1 DEF Appears
<1>2. CASE Moves BY <1>0, <1>2 DEF Moves
<1>3. ASSUME NEW q, Posts(q) PROVE Fo!NothingTypedIsLost' BY <1>0, <1>3 DEF Posts
<1>4. ASSUME NEW q \in v7, Fo!Serve(q) PROVE Fo!NothingTypedIsLost'
  <2>1. v9 \subseteq v9' /\ UNCHANGED <<v11, v12>> BY <1>4 DEF Fo!Serve
  <2> QED BY <1>0, <2>1
<1>5. ASSUME NEW q \in v7, Fo!Hear(q) PROVE Fo!NothingTypedIsLost'
  <2>1. Hears(q) BY <1>0, <1>5, HearIs
  <2>2. CASE ~Takes(q) BY <1>0, <2>1, <2>2 DEF Hears
  <2>3. CASE Takes(q)
    <3>1. ~v12 => \E p \in v9 : p.draft = v4.draft BY <1>0, <2>3 DEF Takes, Fo!RequestInv, Fo!MadeInv
    <3>2. v11' = v11 \cup {v4.draft} /\ UNCHANGED <<v9, v12>> BY <2>1, <2>3 DEF Hears
    <3> QED BY <1>0, <3>1, <3>2
  <2> QED BY <2>2, <2>3
<1> QED BY <1>0, <1>1, <1>2, <1>3, <1>4, <1>5, FormsCases

(* At first no form is open and nothing is sent. *)
LEMMA FormsInit ==
  ASSUME Fo!FormsAssumption, Fo!Init
  PROVE Fo!IInv
<1>1. Fo!ScreenInv BY FormNames DEF Fo!Init, Fo!ScreenInv
<1>2. Fo!RequestInv /\ Fo!MadeInv /\ Fo!SavesTheRowItShows /\ Fo!OneRowPerDraft /\ Fo!NothingTypedIsLost
  BY DEF Fo!Init, Fo!RequestInv, Fo!MadeInv, Fo!SavesTheRowItShows, Fo!OneRowPerDraft, Fo!NothingTypedIsLost
<1> QED BY <1>1, <1>2 DEF Fo!IInv

(* What does not change keeps the invariant. *)
LEMMA FormsStays ==
  ASSUME Fo!IInv, UNCHANGED Fo!vars
  PROVE Fo!IInv'
<1> USE DEF Fo!vars
<1>1. Fo!ScreenInv' BY DEF Fo!IInv, Fo!ScreenInv
<1>2. Fo!RequestInv' BY DEF Fo!IInv, Fo!RequestInv
<1>3. Fo!MadeInv' BY DEF Fo!IInv, Fo!MadeInv, Fo!SameDraft
<1>4. Fo!SavesTheRowItShows' /\ Fo!OneRowPerDraft' /\ Fo!NothingTypedIsLost'
  BY DEF Fo!IInv, Fo!SavesTheRowItShows, Fo!OneRowPerDraft, Fo!NothingTypedIsLost
<1> QED BY <1>1, <1>2, <1>3, <1>4 DEF Fo!IInv

(* Every step of the section keeps the invariant. *)
LEMMA FormsStep ==
  ASSUME Fo!FormsAssumption, Fo!IInv, Fo!Next \/ UNCHANGED Fo!vars
  PROVE Fo!IInv'
<1>1. CASE Fo!Next BY <1>1, FormsScreen, FormsRequests, FormsMade, FormsTaken DEF Fo!IInv
<1>2. CASE UNCHANGED Fo!vars BY <1>2, FormsStays
<1> QED BY <1>1, <1>2

HIDE DEF Fo!screen, Fo!history

(***************************************************************************)
(* The security settings                                                   *)
(***************************************************************************)
(* The kinds of the parts are apart. *)
LEMMA KindNames ==
  /\ Se!KindsOf["profile"] = Se!Factor \cup {"email", "name", "password", "delete", "profile"}
  /\ Se!KindsOf["list"] = Se!Changes \cup {"load"} /\ Se!KindsOf["danger"] = Se!Resets \cup {"demo"}
  /\ Se!Factor = {"setup", "enable", "disable"} /\ Se!Resets = {"transactions", "portfolio"}
  /\ Se!Changes = {"create", "share", "revoke", "change", "unshare"}
BY DEF Se!KindsOf, Se!Factor, Se!Changes, Se!Resets

(* The part of a request is that of its kind. *)
LEMMA PartIs ==
  ASSUME Se!CallInv, NEW c \in v8
  PROVE /\ c.kind \in Se!KindsOf["profile"] => v1 = "profile"
        /\ c.kind \in Se!KindsOf["list"] => v1 = "list"
        /\ c.kind \in Se!KindsOf["danger"] => v1 = "danger"
<1>1. c.kind \in Se!KindsOf[v1] /\ v1 \in {"profile", "list", "danger"} BY DEF Se!CallInv
<1> QED BY <1>1, KindNames

(* Request c is sent under a flag that was down. *)
Sends(c) ==
  /\ v8' = v8 \cup {c} /\ DOMAIN c = Se!CallFields /\ c.at = v10 /\ c.got = None
  /\ c.kind \in Se!KindsOf[v1] \ {"profile", "load"} /\ Se!Free(c.kind)
  /\ v7' = v7 \cup (Se!CardKinds \cap {c.kind})
  /\ c.kind = "create" => c.arg \in secRows /\ v6.revealed = None
  /\ UNCHANGED <<v1, v3, v10, v12>>
  /\ DOMAIN v6' = Se!CardFields
  /\ \A f \in Se!CardFields \ {"revoking"} : v6'[f] = v6[f]
(* What is sent is one request. *)
LEMMA SendIs ==
  ASSUME NEW kind \in Se!KindsOf[v1] \ {"profile", "load"}, NEW arg, Se!Send(kind, arg), UNCHANGED v12,
         kind = "create" => arg \in secRows /\ v6.revealed = None,
         DOMAIN v6' = Se!CardFields, \A f \in Se!CardFields \ {"revoking"} : v6'[f] = v6[f]
  PROVE \E c : Sends(c)
<1> DEFINE c == [kind |-> kind, arg |-> arg, at |-> v10, got |-> None]
<1>1. v8' = v8 \cup {c} BY DEF Se!Send, Se!Call
<1>2. DOMAIN c = Se!CallFields /\ c.kind = kind /\ c.arg = arg /\ c.at = v10 /\ c.got = None
  BY DEF Se!CallFields
<1> HIDE DEF c
<1>3. Se!Free(kind) /\ v7' = v7 \cup (Se!CardKinds \cap {kind}) /\ UNCHANGED <<v1, v3, v10, v12>>
  BY DEF Se!Send
<1>4. Sends(c) BY <1>1, <1>2, <1>3 DEF Sends
<1> QED BY <1>4

(* Every button sends one request. *)
LEMMA SecuritySendsAre ==
  ASSUME Se!CallInv, Se!CardInv,
         \/ Se!StartSetup \/ Se!ConfirmSetup \/ Se!HandleDisable
         \/ Se!SaveName \/ Se!HandleEmailSubmit \/ Se!HandlePwSubmit \/ Se!HandleDeleteAccount
         \/ \E r \in secRows : Se!HandleCreate(r) \/ Se!HandleRevoke(r) \/ Se!HandlePermChange(r)
         \/ Se!ConfirmDanger
  PROVE \E c : Sends(c)
<1>0. DOMAIN v6 = Se!CardFields BY DEF Se!CardInv
<1>a. ASSUME NEW kind, NEW arg, Se!Send(kind, arg), UNCHANGED <<v6, v12>>,
             kind \in Se!KindsOf[v1] \ {"profile", "load", "create"}
      PROVE \E c : Sends(c)
  <2>1. DOMAIN v6' = Se!CardFields /\ \A f \in Se!CardFields \ {"revoking"} : v6'[f] = v6[f] BY <1>0, <1>a
  <2> QED BY <1>a, <2>1, SendIs
<1>b. {"setup", "enable", "disable", "name", "email", "password", "delete"} \subseteq
        Se!KindsOf["profile"] \ {"profile", "load", "create"}
  BY KindNames
<1>c. {"share", "change", "unshare"} \subseteq Se!KindsOf["list"] \ {"profile", "load", "create"}
  BY KindNames
<1>1. CASE Se!StartSetup BY <1>1, <1>a, <1>b DEF Se!StartSetup
<1>2. CASE Se!ConfirmSetup
  <2>1. v1 = "profile" BY <1>2 DEF Se!ConfirmSetup, Se!CardInv
  <2> QED BY <1>2, <2>1, <1>a, <1>b DEF Se!ConfirmSetup
<1>3. CASE Se!HandleDisable BY <1>3, <1>a, <1>b DEF Se!HandleDisable
<1>4. CASE Se!SaveName \/ Se!HandleEmailSubmit \/ Se!HandlePwSubmit \/ Se!HandleDeleteAccount
  BY <1>4, <1>a, <1>b DEF Se!SaveName, Se!HandleEmailSubmit, Se!HandlePwSubmit, Se!HandleDeleteAccount
<1>5. ASSUME NEW r \in secRows, Se!HandleCreate(r) PROVE \E c : Sends(c)
  <2>1. v1 = "list" /\ v6.revealed = None /\ UNCHANGED <<v6, v12>> BY <1>5 DEF Se!HandleCreate, Se!FormShown
  <2>2. Se!Send("create", r) \/ Se!Send("share", r) BY <1>5 DEF Se!HandleCreate
  <2>3. CASE Se!Send("share", r) BY <2>1, <2>3, <1>a, <1>c
  <2>4. CASE Se!Send("create", r)
    <3>1. "create" \in Se!KindsOf[v1] \ {"profile", "load"} BY <2>1, KindNames
    <3>2. DOMAIN v6' = Se!CardFields /\ \A f \in Se!CardFields \ {"revoking"} : v6'[f] = v6[f] BY <1>0, <2>1
    <3> QED BY <2>1, <2>4, <3>1, <3>2, SendIs
  <2> QED BY <2>2, <2>3, <2>4
<1>6. ASSUME NEW r \in secRows, Se!HandleRevoke(r) PROVE \E c : Sends(c)
  <2>1. v1 = "list" /\ Se!Send("revoke", r) /\ v6' = [v6 EXCEPT !.revoking = r] /\ UNCHANGED v12
    BY <1>6 DEF Se!HandleRevoke, Se!FormShown
  <2>2. "revoke" \in Se!KindsOf[v1] \ {"profile", "load"} BY <2>1, KindNames
  <2>3. DOMAIN v6' = Se!CardFields /\ \A f \in Se!CardFields \ {"revoking"} : v6'[f] = v6[f] BY <1>0, <2>1
  <2> QED BY <2>1, <2>2, <2>3, SendIs
<1>7. ASSUME NEW r \in secRows, Se!HandlePermChange(r) PROVE \E c : Sends(c)
  BY <1>7, <1>a, <1>c DEF Se!HandlePermChange, Se!FormShown
<1>8. CASE Se!ConfirmDanger
  <2>1. v1 = "danger" /\ v6.question \in Se!Resets \cup {"demo"} BY <1>8 DEF Se!ConfirmDanger, Se!CardInv
  <2>2. v6.question \in Se!KindsOf[v1] \ {"profile", "load", "create"} BY <2>1, KindNames
  <2> QED BY <1>8, <2>2, <1>a DEF Se!ConfirmDanger
<1> QED BY <1>1, <1>2, <1>3, <1>4, <1>5, <1>6, <1>7, <1>8

(* Request c is heard: it is over, or followed by a read t under its flag. *)
Follows(c, t) ==
  /\ DOMAIN t = Se!CallFields /\ t.at = c.at /\ t.got = None
  /\ \/ /\ t.kind = "profile" /\ c.kind \in {"enable", "disable", "email"}
        /\ t.arg.of = c.kind /\ t.arg.codes = c.got.codes
     \/ t.kind = "load" /\ c.kind \in Se!Changes /\ t.arg = c.kind
Guarded == Se!Factor \cup {"create", "demo"}
Heard(c) ==
  /\ c \in v8 /\ UNCHANGED <<v1, v3, v10>>
  /\ \/ v8' = v8 \ {c}
     \/ /\ \E t : v8' = (v8 \ {c}) \cup {t} /\ Follows(c, t)
        /\ v7 \cap Guarded \subseteq v7'
  /\ \A f \in v7 : f \in v7' \/ f = "load" \/ (f = Se!Flag(c) /\ (Se!Here(c) \/ v1 = "danger"))
(* What the handlers of answers do to the requests. *)
LEMMA HeardIs ==
  ASSUME Se!CallInv, NEW c \in v8, Se!Answer(c)
  PROVE Heard(c)
<1>1. CASE Se!HearSetup(c)
  <2>1. v8' = v8 \ {c} /\ UNCHANGED <<v1, v3, v10>> /\ v7' = Se!Lower(c) /\ c.kind = "setup"
    BY <1>1 DEF Se!HearSetup, Se!Replace
  <2>2. Se!Flag(c) = c.kind BY <2>1 DEF Se!Flag
  <2> QED BY <2>1, <2>2 DEF Heard, Se!Lower
<1>2. CASE Se!HearChange(c)
  <2>1. UNCHANGED <<v1, v3, v10>> /\ c.kind \in {"enable", "disable", "email"} BY <1>2 DEF Se!HearChange
  <2>2. Se!Flag(c) = c.kind BY <2>1 DEF Se!Flag
  <2>3. CASE c.got.ok
    <3> DEFINE t == [kind |-> "profile", arg |-> [of |-> c.kind, codes |-> c.got.codes], at |-> c.at,
                     got |-> None]
    <3>1. v8' = (v8 \ {c}) \cup {t} /\ v7' = v7 BY <1>2, <2>3 DEF Se!HearChange, Se!Replace, Se!Call
    <3>2. Follows(c, t) BY <2>1 DEF Follows, Se!CallFields
    <3> HIDE DEF t
    <3> QED BY <2>1, <3>1, <3>2 DEF Heard
  <2>4. CASE ~c.got.ok
    <3>1. v8' = v8 \ {c} /\ v7' = Se!Lower(c) BY <1>2, <2>4 DEF Se!HearChange, Se!Replace
    <3> QED BY <2>1, <2>2, <3>1 DEF Heard, Se!Lower
  <2> QED BY <2>3, <2>4
<1>3. CASE Se!HearProfile(c)
  <2>1. v8' = v8 \ {c} /\ UNCHANGED <<v1, v3, v10>> /\ c.kind = "profile"
    BY <1>3 DEF Se!HearProfile, Se!Replace
  <2>2. v7' = IF Se!Here(c) THEN v7 \ {c.arg.of} ELSE v7 BY <1>3 DEF Se!HearProfile
  <2>3. Se!Flag(c) = c.arg.of BY <2>1 DEF Se!Flag
  <2> QED BY <2>1, <2>2, <2>3 DEF Heard
<1>4. CASE Se!HearAccount(c)
  <2>1. v8' = v8 \ {c} /\ UNCHANGED <<v1, v3, v10>> /\ v7' = Se!Lower(c)
        /\ c.kind \in {"name", "password", "delete"}
    BY <1>4 DEF Se!HearAccount, Se!Replace
  <2>2. Se!Flag(c) = c.kind BY <2>1 DEF Se!Flag
  <2> QED BY <2>1, <2>2 DEF Heard, Se!Lower
<1>5. CASE Se!HearListChange(c)
  <2>1. UNCHANGED <<v1, v3, v10>> /\ c.kind \in Se!Changes BY <1>5 DEF Se!HearListChange, Se!Changes
  <2>2. Se!Flag(c) = c.kind BY <2>1, KindNames DEF Se!Flag
  <2>3. CASE c.got.ok
    <3> DEFINE t == [kind |-> "load", arg |-> c.kind, at |-> c.at, got |-> None]
    <3>1. v8' = (v8 \ {c}) \cup {t} BY <1>5, <2>3 DEF Se!HearListChange, Se!ReadsAgain, Se!Replace, Se!Call
    <3>2. Follows(c, t) BY <2>1 DEF Follows, Se!CallFields
    <3>3. \A f \in v7 : f \in v7' \/ (c.kind # "create" /\ f = c.kind /\ Se!Here(c))
      BY <1>5, <2>3 DEF Se!HearListChange, Se!ReadsAgain, Se!Lower
    <3>4. v7 \cap Guarded \subseteq v7' BY <2>1, <3>3, KindNames DEF Guarded
    <3> HIDE DEF t
    <3>5. \A f \in v7 : f \in v7' \/ f = "load" \/ (f = Se!Flag(c) /\ (Se!Here(c) \/ v1 = "danger"))
      BY <2>2, <3>3
    <3>6. \E u : v8' = (v8 \ {c}) \cup {u} /\ Follows(c, u) BY <3>1, <3>2
    <3> QED BY <2>1, <3>4, <3>5, <3>6 DEF Heard
  <2>4. CASE ~c.got.ok
    <3>1. v8' = v8 \ {c} /\ v7' = Se!Lower(c) BY <1>5, <2>4 DEF Se!HearListChange, Se!ReadsAgain, Se!Replace
    <3> QED BY <2>1, <2>2, <3>1 DEF Heard, Se!Lower
  <2> QED BY <2>3, <2>4
<1>6. CASE Se!HearLoad(c)
  <2>1. v8' = v8 \ {c} /\ UNCHANGED <<v1, v3, v10>> /\ v7' = Se!Lowered(c) /\ c.kind = "load"
    BY <1>6 DEF Se!HearLoad, Se!Replace
  <2>2. Se!Flag(c) = c.arg BY <2>1 DEF Se!Flag
  <2> QED BY <2>1, <2>2 DEF Heard, Se!Lowered
<1>7. CASE Se!HearDanger(c)
  <2>1. v8' = v8 \ {c} /\ UNCHANGED <<v1, v3, v10>> /\ v7' = v7 \ {c.kind}
        /\ c.kind \in Se!Resets \cup {"demo"}
    BY <1>7 DEF Se!HearDanger, Se!Replace
  <2>2. Se!Flag(c) = c.kind /\ v1 = "danger" BY <2>1, KindNames, PartIs DEF Se!Flag
  <2> QED BY <2>1, <2>2 DEF Heard
<1> QED BY <1>1, <1>2, <1>3, <1>4, <1>5, <1>6, <1>7 DEF Se!Answer

(* What a served request becomes. *)
Served(c, d) ==
  /\ c \in v8 /\ c.got = None /\ v8' = (v8 \ {c}) \cup {d}
  /\ DOMAIN d = Se!CallFields /\ d.kind = c.kind /\ d.arg = c.arg /\ d.at = c.at
  /\ UNCHANGED <<v1, v6, v7, v10>>
  /\ DOMAIN v12' = Se!HistFields /\ \A f \in Se!HistFields \ {"failed"} : v12'[f] = v12[f]
  /\ \/ ~v12'.failed /\ ~v12.failed /\ ~Se!Refused(c) /\ v3' = Se!Applied(c) /\ d.got = Se!Reply(v3')
     \/ v12'.failed /\ v3' \in {v3, Se!Applied(c)}
(* Serving a request only answers it. *)
LEMMA ServedIs ==
  ASSUME Se!CallInv, NEW c \in v8, Se!Serve(c)
  PROVE \E d : Served(c, d)
<1>1. PICK ok \in BOOLEAN, lost \in BOOLEAN :
        /\ ok => ~Se!Refused(c)
        /\ v3' = IF ok THEN Se!Applied(c) ELSE v3
        /\ Se!Replace(c, {[c EXCEPT !.got = IF ok /\ ~lost THEN Se!Reply(v3') ELSE [ok |-> FALSE]]})
        /\ v12' = [v12 EXCEPT !.failed = @ \/ ~ok \/ lost]
  BY DEF Se!Serve
<1> DEFINE d == [c EXCEPT !.got = IF ok /\ ~lost THEN Se!Reply(v3') ELSE [ok |-> FALSE]]
<1>2. DOMAIN c = Se!CallFields /\ DOMAIN v12 = Se!HistFields BY DEF Se!CallInv
<1>3. /\ DOMAIN d = Se!CallFields /\ d.kind = c.kind /\ d.arg = c.arg /\ d.at = c.at
      /\ d.got = IF ok /\ ~lost THEN Se!Reply(v3') ELSE [ok |-> FALSE]
  BY <1>2 DEF Se!CallFields
<1>4. v8' = (v8 \ {c}) \cup {d} BY <1>1 DEF Se!Replace
<1>5. c.got = None /\ UNCHANGED <<v1, v6, v7, v10>> BY DEF Se!Serve
<1> HIDE DEF d
<1>6. /\ DOMAIN v12' = Se!HistFields /\ \A f \in Se!HistFields \ {"failed"} : v12'[f] = v12[f]
      /\ v12'.failed <=> (v12.failed \/ ~ok \/ lost)
  BY <1>1, <1>2 DEF Se!HistFields
<1>7. \/ ~v12'.failed /\ ~v12.failed /\ ~Se!Refused(c) /\ v3' = Se!Applied(c) /\ d.got = Se!Reply(v3')
      \/ v12'.failed /\ v3' \in {v3, Se!Applied(c)}
  BY <1>1, <1>3, <1>6
<1>8. Served(c, d) BY <1>3, <1>4, <1>5, <1>6, <1>7 DEF Served
<1> QED BY <1>8

(* A step of the screen alone. *)
Screen ==
  \/ Se!CancelSetup \/ Se!FinishBackupCodes \/ Se!DismissToken \/ Se!Understand \/ Se!CloseDanger
  \/ \E q \in Se!Resets \cup {"demo"} : Se!AskDanger(q)
(* A step sends, serves or hears a request, or is one of the screen. *)
LEMMA SecurityNextIs ==
  ASSUME Se!CallInv, Se!CardInv, Se!Next
  PROVE \/ \E c : Sends(c)
        \/ \E c \in v8 : \E d : Served(c, d)
        \/ \E c \in v8 : Se!Answer(c)
        \/ Screen \/ Se!Revisit
<1>1. CASE \/ Se!StartSetup \/ Se!ConfirmSetup \/ Se!HandleDisable
           \/ Se!SaveName \/ Se!HandleEmailSubmit \/ Se!HandlePwSubmit \/ Se!HandleDeleteAccount
           \/ \E r \in secRows : Se!HandleCreate(r) \/ Se!HandleRevoke(r) \/ Se!HandlePermChange(r)
           \/ Se!ConfirmDanger
  BY <1>1, SecuritySendsAre
<1>2. ASSUME NEW c \in v8, Se!Serve(c) PROVE \E d : Served(c, d) BY <1>2, ServedIs
<1>3. CASE Screen \/ Se!Revisit \/ \E c \in v8 : Se!Answer(c) BY <1>3
<1>4. CASE \E c \in v8 : Se!Serve(c) BY <1>2, <1>4
<1> QED BY <1>1, <1>3, <1>4 DEF Se!Next, Screen

(* What a step of the screen leaves alone. *)
LEMMA ScreenIs ==
  ASSUME Se!CallInv, Se!CardInv, Screen
  PROVE /\ UNCHANGED <<v1, v3, v8>> /\ DOMAIN v12' = Se!HistFields
        /\ v12'.seen = v12.seen /\ v12'.failed = v12.failed /\ v12'.heard = v12.heard
        /\ v12.left => v12'.left
        /\ v7' = v7 \/ (v1 = "danger" /\ v12'.left)
        /\ v10' = v10 \/ (v10' = v10 + 1 /\ v1 = "danger")
        /\ v1 # "danger" => v12'.left = v12.left
<1>0. DOMAIN v12 = Se!HistFields BY DEF Se!CallInv
<1>1. CASE Se!CancelSetup \/ Se!FinishBackupCodes \/ \E q \in Se!Resets \cup {"demo"} : Se!AskDanger(q)
  BY <1>0, <1>1 DEF Se!CancelSetup, Se!FinishBackupCodes, Se!AskDanger
<1>2. CASE Se!DismissToken BY <1>0, <1>2 DEF Se!DismissToken, Se!HistFields
<1>3. CASE Se!Understand BY <1>0, <1>3 DEF Se!Understand, Se!HistFields
<1>4. CASE Se!CloseDanger
  <2>1. v1 = "danger" BY <1>4 DEF Se!CloseDanger, Se!CardInv
  <2> QED BY <1>0, <1>4, <2>1 DEF Se!CloseDanger, Se!HistFields
<1> QED BY <1>1, <1>2, <1>3, <1>4 DEF Screen

(* What an answer leaves of the history, and of the cards' typing. *)
LEMMA HeardLeaves ==
  ASSUME Se!CallInv, Se!CardInv, NEW c \in v8, Se!Answer(c)
  PROVE /\ DOMAIN v12' = Se!HistFields /\ DOMAIN v6' = Se!CardFields /\ v1' = v1 /\ v10' = v10
        /\ \A f \in {"dismissed", "ticked", "failed", "left"} : v12'[f] = v12[f]
<1>0. DOMAIN v12 = Se!HistFields /\ DOMAIN v6 = Se!CardFields BY DEF Se!CallInv, Se!CardInv
<1>1. CASE Se!HearSetup(c) BY <1>0, <1>1 DEF Se!HearSetup, Se!CardFields
<1>2. CASE Se!HearChange(c) BY <1>0, <1>2 DEF Se!HearChange
<1>3. CASE Se!HearProfile(c) BY <1>0, <1>3 DEF Se!HearProfile, Se!ApplyProfileData, Se!HistFields, Se!CardFields
<1>4. CASE Se!HearAccount(c) BY <1>0, <1>4 DEF Se!HearAccount, Se!ApplyProfileData, Se!HistFields
<1>5. CASE Se!HearListChange(c) BY <1>0, <1>5 DEF Se!HearListChange, Se!Revealed, Se!HistFields, Se!CardFields
<1>6. CASE Se!HearLoad(c) BY <1>0, <1>6 DEF Se!HearLoad, Se!HistFields, Se!CardFields
<1>7. CASE Se!HearDanger(c) BY <1>0, <1>7 DEF Se!HearDanger, Se!Asked, Se!CardFields
<1> QED BY <1>1, <1>2, <1>3, <1>4, <1>5, <1>6, <1>7 DEF Se!Answer

(* A change of the server keeps the shape of its state. *)
LEMMA AppliedIs ==
  ASSUME Se!CallInv, NEW c \in v8
  PROVE /\ DOMAIN Se!Applied(c) = Se!TruthFields
        /\ c.kind # "enable" => Se!Applied(c).codes = v3.codes
                                /\ (Se!Applied(c).profile.on => v3.profile.on)
<1>0. DOMAIN v3 = Se!TruthFields BY DEF Se!CallInv
<1>1. \A on : /\ DOMAIN Se!Profile(on) = Se!TruthFields /\ Se!Profile(on).profile.on = on
              /\ Se!Profile(on).codes = v3.codes
  BY <1>0 DEF Se!Profile, Se!TruthFields
<1>2. \A r, st : /\ DOMAIN Se!Row(r, st) = Se!TruthFields /\ Se!Row(r, st).profile = v3.profile
                 /\ Se!Row(r, st).codes = v3.codes
  BY <1>0 DEF Se!Row, Se!TruthFields
<1>3. CASE c.kind = "enable"
  <2>1. Se!Applied(c) = [Se!Profile(TRUE) EXCEPT !.codes = @ + 1] BY <1>3 DEF Se!Applied
  <2> QED BY <1>1, <1>3, <2>1
<1>4. CASE c.kind = "disable"
  <2>1. Se!Applied(c) = [Se!Profile(FALSE) EXCEPT !.secret = 0] BY <1>4 DEF Se!Applied
  <2> QED BY <1>1, <2>1 DEF Se!TruthFields
<1>5. CASE c.kind \in {"name", "email"}
  <2>1. Se!Applied(c) = Se!Profile(v3.profile.on) BY <1>5 DEF Se!Applied
  <2> QED BY <1>1, <2>1
<1>6. CASE c.kind \in Se!Changes
  <2>1. \E r, st : Se!Applied(c) = Se!Row(r, st) BY <1>6 DEF Se!Applied, Se!Changes
  <2> QED BY <1>2, <2>1
<1>7. CASE c.kind \in {"setup", "delete"}
  <2>1. \/ Se!Applied(c) = [v3 EXCEPT !.secret = @ + 1] \/ Se!Applied(c) = [v3 EXCEPT !.gone = TRUE]
    BY <1>7 DEF Se!Applied
  <2> QED BY <1>0, <2>1 DEF Se!TruthFields
<1>8. CASE c.kind \notin {"setup", "delete", "enable", "disable", "name", "email"} \cup Se!Changes
  <2>1. Se!Applied(c) = v3 BY <1>8 DEF Se!Applied, Se!Changes
  <2> QED BY <1>0, <2>1
<1> QED BY <1>3, <1>4, <1>5, <1>6, <1>7, <1>8

(* The requests keep to their part. *)
LEMMA CallStays ==
  ASSUME Se!CallInv, Se!CardInv, Se!Next
  PROVE Se!CallInv'
<1>0. /\ v1 \in {"profile", "list", "danger"} /\ v10 \in Nat /\ (v1 # "danger" => v10 > 0)
      /\ DOMAIN v3 = Se!TruthFields /\ DOMAIN v12 = Se!HistFields
  BY DEF Se!CallInv
<1> DEFINE Fits(c) == /\ DOMAIN c = Se!CallFields /\ c.kind \in Se!KindsOf[v1] /\ c.at \in 0..v10
                      /\ c.kind = "profile" => c.arg.of \in Se!Factor \cup {"email"}
                      /\ c.kind = "load" => c.arg \in Se!Changes \cup {"mount"}
                      /\ c.kind = "create" => c.arg \in secRows
                      /\ v1 = "profile" /\ ~v12.left => c.at = v10
<1>a. \A c \in v8 : Fits(c) BY DEF Se!CallInv
<1>1. ASSUME NEW c, Sends(c) PROVE Se!CallInv'
  <2>1. Fits(c) BY <1>0, <1>1 DEF Sends
  <2>2. v8' = v8 \cup {c} /\ UNCHANGED <<v1, v3, v10, v12>> BY <1>1 DEF Sends
  <2>3. \A e \in v8' : Fits(e) BY <1>a, <2>1, <2>2
  <2> QED BY <1>0, <2>2, <2>3 DEF Se!CallInv
<1>2. ASSUME NEW c \in v8, NEW d, Served(c, d) PROVE Se!CallInv'
  <2>1. Fits(d) BY <1>a, <1>2 DEF Served
  <2>2. v8' = (v8 \ {c}) \cup {d} /\ UNCHANGED <<v1, v10>> /\ v12'.left = v12.left
        /\ DOMAIN v12' = Se!HistFields
    BY <1>2 DEF Served, Se!HistFields
  <2>3. DOMAIN v3' = Se!TruthFields BY <1>0, <1>2, AppliedIs DEF Served
  <2>4. \A e \in v8' : Fits(e) BY <1>a, <2>1, <2>2
  <2> QED BY <1>0, <2>2, <2>3, <2>4 DEF Se!CallInv
<1>3. ASSUME NEW c \in v8, Se!Answer(c) PROVE Se!CallInv'
  <2>1. Heard(c) BY <1>3, HeardIs
  <2>2. DOMAIN v12' = Se!HistFields /\ v12'.left = v12.left BY <1>3, HeardLeaves
  <2>3. UNCHANGED <<v1, v3, v10>> BY <2>1 DEF Heard
  <2>4. ASSUME NEW t, Follows(c, t) PROVE Fits(t)
    <3>1. DOMAIN t = Se!CallFields /\ t.at = c.at BY <2>4 DEF Follows
    <3>2. Fits(c) BY <1>a
    <3>3. CASE t.kind = "profile" /\ c.kind \in {"enable", "disable", "email"} /\ t.arg.of = c.kind
      <4>1. v1 = "profile" BY <3>3, PartIs, KindNames
      <4> QED BY <3>1, <3>2, <3>3, <4>1, KindNames
    <3>4. CASE t.kind = "load" /\ c.kind \in Se!Changes /\ t.arg = c.kind
      <4>1. v1 = "list" BY <3>4, PartIs, KindNames
      <4> QED BY <3>1, <3>2, <3>4, <4>1, KindNames
    <3> QED BY <2>4, <3>3, <3>4 DEF Follows
  <2>5. \A e \in v8' : Fits(e) BY <1>a, <2>1, <2>4 DEF Heard
  <2> QED BY <1>0, <2>2, <2>3, <2>5 DEF Se!CallInv
<1>4. CASE Screen
  <2>1. /\ UNCHANGED <<v1, v3, v8>> /\ DOMAIN v12' = Se!HistFields
        /\ (v1 # "danger" => v12'.left = v12.left)
        /\ (v10' = v10 \/ (v10' = v10 + 1 /\ v1 = "danger"))
    BY <1>4, ScreenIs
  <2>2. \A e \in v8' : Fits(e)' BY <1>0, <1>a, <2>1
  <2> QED BY <1>0, <2>1, <2>2 DEF Se!CallInv
<1>5. CASE Se!Revisit
  <2>1. UNCHANGED <<v1, v3>> /\ v10' = v10 + 1 /\ v1 # "danger" BY <1>5 DEF Se!Revisit
  <2>2. DOMAIN v12' = Se!HistFields /\ (v12'.left <=> (v12.left \/ v8 # {}))
    BY <1>0, <1>5 DEF Se!Revisit, Se!HistFields
  <2> DEFINE FitsThen(c) == /\ DOMAIN c = Se!CallFields /\ c.kind \in Se!KindsOf[v1] /\ c.at \in 0..v10'
                            /\ c.kind = "profile" => c.arg.of \in Se!Factor \cup {"email"}
                            /\ c.kind = "load" => c.arg \in Se!Changes \cup {"mount"}
                            /\ c.kind = "create" => c.arg \in secRows
                            /\ v1 = "profile" /\ ~v12'.left => c.at = v10'
  <2>3. v8' = v8 \/ \E m : /\ v8' = v8 \cup {m} /\ v1 = "list" /\ DOMAIN m = Se!CallFields
                           /\ m.kind = "load" /\ m.arg = "mount" /\ m.at = v10 + 1
    <3> DEFINE m == [kind |-> "load", arg |-> "mount", at |-> v10 + 1, got |-> None]
    <3>1. v8' = v8 \/ (v8' = v8 \cup {m} /\ v1 = "list") BY <1>5 DEF Se!Revisit, Se!Call
    <3>2. DOMAIN m = Se!CallFields /\ m.kind = "load" /\ m.arg = "mount" /\ m.at = v10 + 1 BY DEF Se!CallFields
    <3> HIDE DEF m
    <3> QED BY <3>1, <3>2
  <2>4. ASSUME NEW m, v1 = "list", DOMAIN m = Se!CallFields, m.kind = "load", m.arg = "mount",
               m.at = v10 + 1
        PROVE FitsThen(m)
    BY <1>0, <2>1, <2>4, KindNames
  <2>5. \A e \in v8 : FitsThen(e) BY <1>0, <1>a, <2>1, <2>2
  <2>6. \A e \in v8' : FitsThen(e) BY <2>3, <2>4, <2>5
  <2>7. v10' \in Nat /\ v10' > 0 BY <1>0, <2>1
  <2> QED BY <1>0, <2>1, <2>2, <2>6, <2>7 DEF Se!CallInv
<1> QED BY <1>1, <1>2, <1>3, <1>4, <1>5, SecurityNextIs

(* A flag that is down holds no request, and a request holds its flag. *)
LEMMA FlagStays ==
  ASSUME Se!CallInv, Se!FlagInv, Se!CardInv, Se!Next
  PROVE Se!FlagInv'
<1> DEFINE In2(G, c) == Se!Held(c) /\ Se!Flag(c) \in G
<1>0. \A G \in Se!Groups : \A c, d \in v8 : In2(G, c) /\ In2(G, d) => c = d /\ Se!Flag(c) \in v7
  BY DEF Se!FlagInv
<1>g. \A G \in Se!Groups : G \subseteq Guarded /\ G \subseteq Se!CardKinds /\ "load" \notin G /\ "mount" \notin G
  BY DEF Se!Groups, Guarded, Se!CardKinds, Se!Factor
<1>1. ASSUME NEW c, Sends(c) PROVE Se!FlagInv'
  <2>1. /\ v8' = v8 \cup {c} /\ v7' = v7 \cup (Se!CardKinds \cap {c.kind})
        /\ UNCHANGED <<v1, v10, v12>> /\ Se!Free(c.kind) /\ c.kind \notin {"profile", "load"}
    BY <1>1 DEF Sends
  <2>2. Se!Flag(c) = c.kind BY <2>1 DEF Se!Flag
  <2>3. \A e : Se!Held(e)' <=> Se!Held(e) BY <2>1 DEF Se!Held, Se!Here
  <2>4. ASSUME NEW G \in Se!Groups, Se!Flag(c) \in G PROVE v7 \cap G = {} /\ Se!Flag(c) \in v7'
    <3>1. Se!Flag(c) \in v7' BY <1>g, <2>1, <2>2, <2>4
    <3>2. CASE c.kind \in {"setup", "enable", "disable"}
      <4>1. G = Se!Factor BY <2>2, <2>4, <3>2 DEF Se!Groups, Se!Factor
      <4>2. v7 \cap Se!Factor = {} BY <2>1, <3>2 DEF Se!Free, Se!Factor
      <4> QED BY <3>1, <4>1, <4>2
    <3>3. CASE c.kind \notin {"setup", "enable", "disable"}
      <4>1. G = {c.kind} BY <2>2, <2>4, <3>3 DEF Se!Groups, Se!Factor
      <4>2. c.kind \notin v7 BY <2>1, <3>3 DEF Se!Free
      <4> QED BY <3>1, <4>1, <4>2
    <3> QED BY <3>2, <3>3
  <2>5. ASSUME NEW G \in Se!Groups, NEW d \in v8', NEW e \in v8', In2(G, d), In2(G, e)
        PROVE d = e /\ Se!Flag(d) \in v7'
    <3>1. \A x \in v8 : In2(G, x) => Se!Flag(x) \in v7 BY <1>0
    <3>2. CASE Se!Flag(c) \in G
      <4>1. v7 \cap G = {} /\ Se!Flag(c) \in v7' BY <2>4, <3>2
      <4>2. d = c /\ e = c BY <2>1, <2>5, <3>1, <4>1
      <4> QED BY <4>1, <4>2
    <3>3. CASE Se!Flag(c) \notin G
      <4>1. d \in v8 /\ e \in v8 BY <2>1, <2>5, <3>3
      <4> QED BY <1>0, <2>1, <2>5, <4>1
    <3> QED BY <3>2, <3>3
  <2>6. \A e : Se!Flag(e)' = Se!Flag(e) BY DEF Se!Flag
  <2>7. \A e, G : In2(G, e)' <=> In2(G, e) BY <2>3, <2>6
  <2> QED BY <2>3, <2>5, <2>6 DEF Se!FlagInv
<1>2. ASSUME NEW c \in v8, NEW d, Served(c, d) PROVE Se!FlagInv'
  <2>1. v8' = (v8 \ {c}) \cup {d} /\ UNCHANGED <<v1, v7, v10>> /\ v12'.left = v12.left
        /\ d.kind = c.kind /\ d.arg = c.arg /\ d.at = c.at
    BY <1>2 DEF Served, Se!HistFields
  <2>2. Se!Flag(d) = Se!Flag(c) /\ (Se!Held(d) <=> Se!Held(c)) BY <2>1 DEF Se!Flag, Se!Held, Se!Here
  <2>3. \A e : Se!Held(e)' <=> Se!Held(e) BY <2>1 DEF Se!Held, Se!Here
  <2>4. ASSUME NEW G \in Se!Groups, NEW x \in v8', NEW y \in v8', In2(G, x), In2(G, y)
        PROVE x = y /\ Se!Flag(x) \in v7'
    <3> DEFINE Was(z) == IF z = d THEN c ELSE z
    <3>1. \A z \in v8' : Was(z) \in v8 /\ (In2(G, z) <=> In2(G, Was(z))) /\ Se!Flag(Was(z)) = Se!Flag(z)
      BY <2>1, <2>2
    <3>2. Was(x) = Was(y) /\ Se!Flag(Was(x)) \in v7 BY <1>0, <2>4, <3>1
    <3>3. x = y BY <2>1, <3>2
    <3> QED BY <2>1, <3>1, <3>2, <3>3
  <2> QED BY <2>3, <2>4 DEF Se!FlagInv, Se!Flag
<1>3. ASSUME NEW c \in v8, Se!Answer(c) PROVE Se!FlagInv'
  <2>1. Heard(c) BY <1>3, HeardIs
  <2>2. UNCHANGED <<v1, v10>> /\ v12'.left = v12.left BY <1>3, HeardLeaves
  <2>3. \A e : Se!Held(e)' <=> Se!Held(e) BY <2>2 DEF Se!Held, Se!Here
  <2>4. ASSUME NEW t, Follows(c, t) PROVE Se!Flag(t) = Se!Flag(c) /\ (Se!Held(t) <=> Se!Held(c))
    <3>1. t.at = c.at BY <2>4 DEF Follows
    <3>2. Se!Held(t) <=> Se!Held(c) BY <3>1 DEF Se!Held, Se!Here
    <3>3. CASE t.kind = "profile" /\ c.kind \in {"enable", "disable", "email"} /\ t.arg.of = c.kind
      BY <3>2, <3>3 DEF Se!Flag
    <3>4. CASE t.kind = "load" /\ c.kind \in Se!Changes /\ t.arg = c.kind BY <3>2, <3>4, KindNames DEF Se!Flag
    <3> QED BY <2>4, <3>3, <3>4 DEF Follows
  <2>5. ASSUME NEW G \in Se!Groups, NEW e \in v8, In2(G, e), In2(G, c) => e = c, e # c
        PROVE Se!Flag(e) \in v7'
    <3>1. Se!Flag(e) \in v7 /\ Se!Flag(e) # "load" BY <1>0, <1>g, <2>5
    <3>2. ~In2(G, c) BY <2>5
    <3>3. ~(Se!Flag(e) = Se!Flag(c) /\ (Se!Here(c) \/ v1 = "danger"))
      BY <2>5, <3>2 DEF Se!Held
    <3> QED BY <2>1, <3>1, <3>3 DEF Heard
  <2>6. \A G \in Se!Groups : \A e \in v8 : In2(G, e) /\ In2(G, c) => e = c BY <1>0
  <2>7. CASE v8' = v8 \ {c} BY <1>0, <2>3, <2>5, <2>6, <2>7 DEF Se!FlagInv, Se!Flag
  <2>8. ASSUME NEW t, v8' = (v8 \ {c}) \cup {t}, Follows(c, t), v7 \cap Guarded \subseteq v7'
        PROVE Se!FlagInv'
    <3>1. ASSUME NEW G \in Se!Groups, NEW x \in v8', NEW y \in v8', In2(G, x), In2(G, y)
          PROVE x = y /\ Se!Flag(x) \in v7'
      <4> DEFINE Was(z) == IF z = t THEN c ELSE z
      <4>1. \A z \in v8' : Was(z) \in v8 /\ (In2(G, z) <=> In2(G, Was(z))) /\ Se!Flag(Was(z)) = Se!Flag(z)
        BY <2>4, <2>8
      <4>2. Was(x) = Was(y) /\ Se!Flag(Was(x)) \in v7 BY <1>0, <3>1, <4>1
      <4>3. x = y BY <2>8, <4>2
      <4>4. Se!Flag(x) \in v7 \cap Guarded BY <1>g, <3>1, <4>1, <4>2
      <4> QED BY <2>8, <4>3, <4>4
    <3> QED BY <2>3, <3>1 DEF Se!FlagInv, Se!Flag
  <2> QED BY <2>1, <2>7, <2>8 DEF Heard
<1>4. CASE Screen
  <2>1. /\ UNCHANGED <<v1, v8>> /\ (v12.left => v12'.left)
        /\ (v7' = v7 \/ (v1 = "danger" /\ v12'.left))
        /\ (v10' = v10 \/ (v10' = v10 + 1 /\ v1 = "danger"))
        /\ (v1 # "danger" => v12'.left = v12.left)
    BY <1>4, ScreenIs
  <2>2. \A e : Se!Held(e)' => Se!Held(e) /\ v7' = v7 BY <2>1 DEF Se!Held, Se!Here
  <2> QED BY <1>0, <2>1, <2>2 DEF Se!FlagInv, Se!Flag
<1>5. CASE Se!Revisit
  <2>1. v1' = v1 /\ v10' = v10 + 1 /\ v1 # "danger" /\ v10 \in Nat
    BY <1>5 DEF Se!Revisit, Se!CallInv
  <2>2. \A e \in v8 : e.at \in 0..v10 BY DEF Se!CallInv
  <2>3. ASSUME NEW e \in v8', Se!Held(e)' PROVE Se!Flag(e) = "mount"
    <3>1. e.at = v10 + 1 BY <2>1, <2>3 DEF Se!Held, Se!Here
    <3>2. e \notin v8 BY <2>1, <2>2, <3>1
    <3>3. e = [kind |-> "load", arg |-> "mount", at |-> v10 + 1, got |-> None]
      BY <1>5, <3>2 DEF Se!Revisit, Se!Call
    <3> QED BY <3>3 DEF Se!Flag
  <2> QED BY <1>g, <2>3 DEF Se!FlagInv, Se!Flag
<1> QED BY <1>1, <1>2, <1>3, <1>4, <1>5, SecurityNextIs

(* The cards show what their part may show, and what was ticked for it. *)
LEMMA CardStays ==
  ASSUME Se!CallInv, Se!CardInv, Se!ConfirmedForThisQuestion, Se!Next
  PROVE Se!CardInv' /\ Se!ConfirmedForThisQuestion'
<1>0. DOMAIN v6 = Se!CardFields /\ DOMAIN v12 = Se!HistFields BY DEF Se!CardInv, Se!CallInv
<1> USE DEF Se!CardInv, Se!ConfirmedForThisQuestion
<1>1. ASSUME NEW c, Sends(c) PROVE Se!CardInv' /\ Se!ConfirmedForThisQuestion'
  <2>1. UNCHANGED <<v1, v10, v12>> /\ DOMAIN v6' = Se!CardFields
        /\ \A f \in {"step", "codes", "question", "understood"} : v6'[f] = v6[f]
    BY <1>1 DEF Sends, Se!CardFields
  <2> QED BY <2>1
<1>2. ASSUME NEW c \in v8, NEW d, Served(c, d) PROVE Se!CardInv' /\ Se!ConfirmedForThisQuestion'
  <2>1. UNCHANGED <<v1, v10, v6>> /\ v12'.seen = v12.seen /\ v12'.ticked = v12.ticked
    BY <1>2 DEF Served, Se!HistFields
  <2> QED BY <2>1
<1>3. ASSUME NEW c \in v8, Se!Answer(c) PROVE Se!CardInv' /\ Se!ConfirmedForThisQuestion'
  <2>0. DOMAIN v6' = Se!CardFields /\ UNCHANGED <<v1, v10>> /\ v12'.ticked = v12.ticked
    BY <1>3, HeardLeaves
  <2>a. ASSUME \A f \in {"step", "codes", "question", "understood"} : v6'[f] = v6[f],
               v12'.seen = v12.seen
        PROVE Se!CardInv' /\ Se!ConfirmedForThisQuestion'
    BY <2>0, <2>a
  <2>1. CASE Se!HearSetup(c)
    <3>1. v1 = "profile" BY <2>1, PartIs, KindNames DEF Se!HearSetup
    <3>2. /\ v12' = v12 /\ v6'.question = v6.question /\ v6'.understood = v6.understood
          /\ v6'.codes = v6.codes /\ v6'.step \in {v6.step, "setup"}
      BY <1>0, <2>1 DEF Se!HearSetup, Se!CardFields
    <3> QED BY <2>0, <3>1, <3>2
  <2>2. CASE Se!HearChange(c) BY <2>2, <2>a DEF Se!HearChange
  <2>3. CASE Se!HearProfile(c)
    <3>1. /\ v6'.question = v6.question /\ v6'.understood = v6.understood
          /\ v6' = v6 \/ (c.got.ok /\ v6'.step = "backup-codes")
      BY <1>0, <2>3 DEF Se!HearProfile, Se!CardFields
    <3>2. CASE c.got.ok
      <4>1. v12'.seen = IF v6'.step = "backup-codes" THEN v6'.codes ELSE v12.seen
        BY <1>0, <2>3, <3>2 DEF Se!HearProfile, Se!ApplyProfileData, Se!HistFields
      <4> QED BY <2>0, <3>1, <4>1
    <3>3. CASE ~c.got.ok
      <4>1. v6' = v6 /\ v12' = v12 BY <2>3, <3>3 DEF Se!HearProfile
      <4> QED BY <2>a, <4>1
    <3> QED BY <3>2, <3>3
  <2>4. CASE Se!HearAccount(c)
    <3>1. v6' = v6 /\ (v12' = v12 \/ Se!ApplyProfileData(Se!AsAnswered(c.got.profile)))
      BY <2>4 DEF Se!HearAccount
    <3>2. Se!ApplyProfileData(Se!AsAnswered(c.got.profile)) =>
            v12'.seen = IF v6'.step = "backup-codes" THEN v6'.codes ELSE v12.seen
      BY <1>0 DEF Se!ApplyProfileData, Se!HistFields
    <3>3. v12'.seen = v12.seen BY <3>1, <3>2
    <3> QED BY <2>a, <3>1, <3>3
  <2>5. CASE Se!HearListChange(c)
    <3>1. /\ \A f \in {"step", "codes", "question", "understood"} : v6'[f] = v6[f]
          /\ v12'.seen = v12.seen
      BY <1>0, <2>5 DEF Se!HearListChange, Se!Revealed, Se!CardFields, Se!HistFields
    <3> QED BY <2>a, <3>1
  <2>6. CASE Se!HearLoad(c)
    <3>1. /\ \A f \in {"step", "codes", "question", "understood"} : v6'[f] = v6[f]
          /\ v12'.seen = v12.seen
      BY <1>0, <2>6 DEF Se!HearLoad, Se!CardFields, Se!HistFields
    <3> QED BY <2>a, <3>1
  <2>7. CASE Se!HearDanger(c)
    <3>1. /\ v12' = v12 /\ v6'.step = v6.step /\ v6'.codes = v6.codes
          /\ \/ v6' = v6
             \/ v6'.question = None /\ v6'.understood = FALSE
      BY <1>0, <2>7 DEF Se!HearDanger, Se!Asked, Se!CardFields
    <3> QED BY <2>0, <3>1
  <2> QED BY <1>3, <2>1, <2>2, <2>3, <2>4, <2>5, <2>6, <2>7 DEF Se!Answer
<1>4. CASE Se!CancelSetup
  <2>1. /\ UNCHANGED <<v1, v10, v12>> /\ DOMAIN v6' = Se!CardFields /\ v6'.step = "idle"
        /\ \A f \in {"codes", "question", "understood"} : v6'[f] = v6[f]
    BY <1>0, <1>4 DEF Se!CancelSetup, Se!CardFields
  <2> QED BY <2>1
<1>5. CASE Se!FinishBackupCodes
  <2>1. /\ UNCHANGED <<v1, v10, v12>> /\ DOMAIN v6' = Se!CardFields /\ v6'.step = "idle"
        /\ \A f \in {"question", "understood"} : v6'[f] = v6[f]
    BY <1>0, <1>5 DEF Se!FinishBackupCodes, Se!CardFields
  <2> QED BY <2>1
<1>6. CASE Se!DismissToken
  <2>1. /\ UNCHANGED <<v1, v10>> /\ v12'.seen = v12.seen /\ v12'.ticked = v12.ticked
        /\ DOMAIN v6' = Se!CardFields
        /\ \A f \in {"step", "codes", "question", "understood"} : v6'[f] = v6[f]
    BY <1>0, <1>6 DEF Se!DismissToken, Se!CardFields, Se!HistFields
  <2> QED BY <2>1
<1>7. CASE Se!Understand
  <2>1. /\ UNCHANGED <<v1, v10>> /\ v12'.seen = v12.seen /\ v12'.ticked = v10
        /\ DOMAIN v6' = Se!CardFields /\ \A f \in {"step", "codes", "question"} : v6'[f] = v6[f]
    BY <1>0, <1>7 DEF Se!Understand, Se!CardFields, Se!HistFields
  <2> QED BY <2>1
<1>8. CASE Se!CloseDanger
  <2>1. /\ v1' = v1 /\ v12'.seen = v12.seen
        /\ DOMAIN v6' = Se!CardFields /\ v6'.question = None /\ v6'.understood = FALSE
        /\ \A f \in {"step", "codes"} : v6'[f] = v6[f]
    BY <1>0, <1>8 DEF Se!CloseDanger, Se!Asked, Se!CardFields, Se!HistFields
  <2> QED BY <2>1
<1>9. ASSUME NEW q \in Se!Resets \cup {"demo"}, Se!AskDanger(q) PROVE Se!CardInv' /\ Se!ConfirmedForThisQuestion'
  <2>1. /\ v1' = v1 /\ v12' = v12 /\ v1 = "danger"
        /\ DOMAIN v6' = Se!CardFields /\ v6'.question = q /\ v6'.understood = FALSE
        /\ \A f \in {"step", "codes"} : v6'[f] = v6[f]
    BY <1>0, <1>9 DEF Se!AskDanger, Se!Asked, Se!CardFields
  <2> QED BY <2>1
<1>10. CASE Se!Revisit
  <2>1. v6' = Se!Blank BY <1>10 DEF Se!Revisit
  <2>2. /\ DOMAIN v6' = Se!CardFields /\ v6'.step = "idle" /\ v6'.question = None
        /\ v6'.understood = FALSE
    BY <2>1 DEF Se!Blank, Se!CardFields
  <2> QED BY <2>2
<1> QED BY <1>1, <1>2, <1>3, <1>4, <1>5, <1>6, <1>7, <1>8, <1>9, <1>10, SecurityNextIs DEF Screen

(* No token is made while one is shown. *)
LEMMA TokenStays ==
  ASSUME Se!SecurityAssumption, Se!CallInv, Se!FlagInv, Se!CardInv, Se!TokenInv, Se!NoTokenIsLost, Se!Next
  PROVE Se!TokenInv' /\ Se!NoTokenIsLost'
<1>0. DOMAIN v6 = Se!CardFields /\ DOMAIN v12 = Se!HistFields /\ v10 \in Nat /\ None \notin secRows
  BY DEF Se!CardInv, Se!CallInv, Se!SecurityAssumption
<1>1. ASSUME NEW c, Sends(c) PROVE Se!TokenInv' /\ Se!NoTokenIsLost'
  <2>1. /\ UNCHANGED <<v1, v10, v12>> /\ v6'.revealed = v6.revealed /\ v8' = v8 \cup {c}
        /\ c.kind = "create" => v6.revealed = None
    BY <1>1 DEF Sends, Se!CardFields
  <2> QED BY <2>1 DEF Se!TokenInv, Se!NoTokenIsLost, Se!Here
<1>2. ASSUME NEW c \in v8, NEW d, Served(c, d) PROVE Se!TokenInv' /\ Se!NoTokenIsLost'
  <2>1. UNCHANGED <<v1, v10, v6>> /\ v12'.heard = v12.heard /\ v12'.dismissed = v12.dismissed
    BY <1>2 DEF Served, Se!HistFields
  <2>2. \A e \in v8' : \E o \in v8 : e.kind = o.kind /\ e.at = o.at BY <1>2 DEF Served
  <2> QED BY <2>1, <2>2 DEF Se!TokenInv, Se!NoTokenIsLost, Se!Here
<1>3. ASSUME NEW c \in v8, Se!Answer(c) PROVE Se!TokenInv' /\ Se!NoTokenIsLost'
  <2>0. UNCHANGED <<v1, v10>> /\ v12'.dismissed = v12.dismissed BY <1>3, HeardLeaves
  <2>1. \A e \in v8' : e \in v8 \/ e.kind # "create"
    <3>1. Heard(c) BY <1>3, HeardIs
    <3> QED BY <3>1 DEF Heard, Follows
  <2>a. ASSUME v6'.revealed = v6.revealed, v12'.heard = v12.heard
        PROVE Se!TokenInv' /\ Se!NoTokenIsLost'
    BY <2>0, <2>1, <2>a DEF Se!TokenInv, Se!NoTokenIsLost, Se!Here
  <2>2. CASE Se!HearSetup(c)
    <3>1. v6'.revealed = v6.revealed /\ v12' = v12 BY <1>0, <2>2 DEF Se!HearSetup, Se!CardFields
    <3> QED BY <2>a, <3>1
  <2>3. CASE Se!HearChange(c) BY <2>3, <2>a DEF Se!HearChange
  <2>4. CASE Se!HearProfile(c)
    <3>1. v6'.revealed = v6.revealed /\ v12'.heard = v12.heard
      BY <1>0, <2>4 DEF Se!HearProfile, Se!ApplyProfileData, Se!CardFields, Se!HistFields
    <3> QED BY <2>a, <3>1
  <2>5. CASE Se!HearAccount(c)
    <3>1. v6' = v6 /\ v12'.heard = v12.heard
      BY <1>0, <2>5 DEF Se!HearAccount, Se!ApplyProfileData, Se!HistFields
    <3> QED BY <2>a, <3>1
  <2>6. CASE Se!HearListChange(c)
    <3>1. Se!Revealed(c) BY <2>6 DEF Se!HearListChange
    <3>2. CASE Se!Here(c) /\ c.got.ok /\ c.kind = "create"
      <4>1. v6'.revealed = c.arg /\ v12'.heard = v12.heard \cup {c.arg}
        BY <1>0, <3>1, <3>2 DEF Se!Revealed, Se!CardFields, Se!HistFields
      <4>2. c.arg \in secRows /\ v1 = "list" BY <3>2, PartIs, KindNames DEF Se!CallInv
      <4>3. v6.revealed = None BY <3>2 DEF Se!TokenInv
      <4>4. v12.heard \subseteq secRows BY DEF Se!TokenInv
      <4>5. v10 = 1 => v12.heard \subseteq v12.dismissed BY <1>0, <4>3, <4>4 DEF Se!NoTokenIsLost
      <4>6. ASSUME NEW e \in v8', e.kind = "create", Se!Here(e) PROVE FALSE
        <5>1. e \in v8 BY <2>1, <4>6
        <5>2. Se!Held(c) /\ Se!Held(e) BY <3>2, <4>2, <4>6 DEF Se!Held
        <5>3. Se!Flag(c) = "create" /\ Se!Flag(e) = "create" BY <3>2, <4>6 DEF Se!Flag
        <5>4. {"create"} \in Se!Groups BY DEF Se!Groups
        <5>5. e = c BY <5>1, <5>2, <5>3, <5>4 DEF Se!FlagInv
        <5>6. c \notin v8'
          <6>1. Heard(c) BY <1>3, HeardIs
          <6> QED BY <3>2, <6>1 DEF Heard, Follows
        <5> QED BY <5>5, <5>6
      <4>7. Se!TokenInv' BY <2>0, <4>1, <4>2, <4>4, <4>6 DEF Se!TokenInv, Se!Here
      <4>8. Se!NoTokenIsLost' BY <2>0, <4>1, <4>5 DEF Se!NoTokenIsLost
      <4> QED BY <4>7, <4>8
    <3>3. CASE ~(Se!Here(c) /\ c.got.ok /\ c.kind = "create")
      <4>1. v6'.revealed = v6.revealed /\ v12' = v12 BY <1>0, <3>1, <3>3 DEF Se!Revealed, Se!CardFields
      <4> QED BY <2>a, <4>1
    <3> QED BY <3>2, <3>3
  <2>7. CASE Se!HearLoad(c)
    <3>1. v6'.revealed = v6.revealed /\ v12'.heard = v12.heard
      BY <1>0, <2>7 DEF Se!HearLoad, Se!CardFields, Se!HistFields
    <3> QED BY <2>a, <3>1
  <2>8. CASE Se!HearDanger(c)
    <3>1. v6'.revealed = v6.revealed /\ v12' = v12
      BY <1>0, <2>8 DEF Se!HearDanger, Se!Asked, Se!CardFields
    <3> QED BY <2>a, <3>1
  <2> QED BY <1>3, <2>2, <2>3, <2>4, <2>5, <2>6, <2>7, <2>8 DEF Se!Answer
<1>4. CASE Screen
  <2>1. /\ UNCHANGED <<v1, v8>> /\ v12'.heard = v12.heard
        /\ (v10' = v10 \/ (v10' = v10 + 1 /\ v1 = "danger"))
    BY <1>4, ScreenIs
  <2>2. CASE v1 = "danger"
    <3>1. \A e \in v8 : e.kind # "create" BY <2>2, PartIs, KindNames
    <3> QED BY <2>1, <2>2, <3>1 DEF Se!TokenInv, Se!NoTokenIsLost
  <2>3. CASE v1 # "danger"
    <3>1. \/ v6'.revealed = v6.revealed /\ v12'.dismissed = v12.dismissed
          \/ v6'.revealed = None /\ v12'.dismissed = v12.dismissed \cup {v6.revealed}
      <4>1. CASE Se!CancelSetup \/ Se!FinishBackupCodes
        BY <1>0, <4>1 DEF Se!CancelSetup, Se!FinishBackupCodes, Se!CardFields
      <4>2. CASE Se!DismissToken BY <1>0, <4>2 DEF Se!DismissToken, Se!CardFields, Se!HistFields
      <4>3. ~Se!Understand /\ ~Se!CloseDanger /\ \A q \in Se!Resets \cup {"demo"} : ~Se!AskDanger(q)
        BY <2>3 DEF Se!Understand, Se!CloseDanger, Se!AskDanger, Se!CardInv
      <4> QED BY <1>4, <4>1, <4>2, <4>3 DEF Screen
    <3> QED BY <2>1, <2>3, <3>1 DEF Se!TokenInv, Se!NoTokenIsLost, Se!Here
  <2> QED BY <2>2, <2>3
<1>5. CASE Se!Revisit
  <2>1. v6' = Se!Blank /\ UNCHANGED v1 /\ v10' = v10 + 1 /\ v1 # "danger" BY <1>5 DEF Se!Revisit
  <2>2. v6'.revealed = None BY <2>1 DEF Se!Blank
  <2>3. v10' # 1 BY <1>0, <2>1 DEF Se!CallInv
  <2>4. v12'.heard = v12.heard BY <1>0, <1>5 DEF Se!Revisit, Se!HistFields
  <2>5. \A e \in v8' : e.kind = "create" => e \in v8 BY <1>5 DEF Se!Revisit, Se!Call
  <2> QED BY <2>1, <2>2, <2>3, <2>4, <2>5 DEF Se!TokenInv, Se!NoTokenIsLost
<1> QED BY <1>1, <1>2, <1>3, <1>4, <1>5, SecurityNextIs

(* Codes that were not shown are on their way. *)
LEMMA CodesStay ==
  ASSUME Se!CallInv, Se!FlagInv, Se!CardInv, Se!CodesInv, Se!Next
  PROVE Se!CodesInv'
<1>0. DOMAIN v6 = Se!CardFields /\ DOMAIN v12 = Se!HistFields BY DEF Se!CardInv, Se!CallInv
<1> DEFINE Tells(c) == /\ c.got # None => c.got.ok /\ (c.kind = "enable" => c.got.codes = v3.codes)
                       /\ c.kind = "profile" /\ c.arg.of = "enable" => c.arg.codes = v3.codes
           Shown == v3.profile.on => v12.seen = v3.codes \/ \E c \in v8 : Se!Shows(c)
<1>a. ~v12.failed /\ ~v12.left => Shown /\ \A c \in v8 : Tells(c) BY DEF Se!CodesInv
<1>b. \A c \in v8 : Se!Shows(c) => v1 = "profile" /\ Se!Flag(c) = "enable"
  BY PartIs, KindNames DEF Se!Shows
<1>c. ASSUME NEW c \in v8, NEW d \in v8, Se!Flag(c) = "enable", Se!Flag(d) = "enable",
             v1 = "profile", ~v12.left
      PROVE c = d
  <2>1. Se!Held(c) /\ Se!Held(d) BY <1>c DEF Se!Held, Se!Here, Se!CallInv
  <2>2. Se!Factor \in Se!Groups /\ "enable" \in Se!Factor BY DEF Se!Groups, Se!Factor
  <2> QED BY <1>c, <2>1, <2>2 DEF Se!FlagInv
<1>1. ASSUME NEW c, Sends(c) PROVE Se!CodesInv'
  <2>1. v8' = v8 \cup {c} /\ c.got = None /\ c.kind # "profile" /\ UNCHANGED <<v3, v12>>
    BY <1>1 DEF Sends
  <2> QED BY <1>a, <2>1 DEF Se!CodesInv, Se!Shows, Se!Flag
<1>2. ASSUME NEW c \in v8, NEW d, Served(c, d), ~v12'.failed, ~v12'.left PROVE Se!CodesInv'
  <2>1. /\ ~v12.failed /\ ~v12.left /\ v12'.seen = v12.seen /\ ~Se!Refused(c)
        /\ v3' = Se!Applied(c) /\ d.got = Se!Reply(v3')
    BY <1>2 DEF Served, Se!HistFields
  <2>2. v8' = (v8 \ {c}) \cup {d} /\ d.kind = c.kind /\ d.arg = c.arg BY <1>2 DEF Served
  <2>3. d.got.ok /\ d.got.codes = v3'.codes BY <2>1 DEF Se!Reply
  <2>4. Se!Flag(d) = Se!Flag(c) /\ (Se!Shows(d) <=> Se!Shows(c)) BY <2>2 DEF Se!Flag, Se!Shows
  <2>5. CASE c.kind = "enable"
    <3>1. Se!Flag(c) = "enable" /\ v1 = "profile" BY <2>5, PartIs, KindNames DEF Se!Flag
    <3>2. Se!Shows(d) BY <2>4, <2>5, <3>1 DEF Se!Shows
    <3>3. ASSUME NEW e \in v8, e # c
          PROVE e.kind # "enable" /\ ~(e.kind = "profile" /\ e.arg.of = "enable")
      <4>1. Se!Flag(e) # "enable" BY <1>c, <2>1, <3>1, <3>3
      <4> QED BY <4>1 DEF Se!Flag
    <3>4. ASSUME NEW e \in v8'
          PROVE /\ e.got # None => e.got.ok /\ (e.kind = "enable" => e.got.codes = v3'.codes)
                /\ e.kind = "profile" /\ e.arg.of = "enable" => e.arg.codes = v3'.codes
      <4>1. CASE e = d BY <2>2, <2>3, <2>5, <4>1
      <4>2. CASE e \in v8 /\ e # c BY <1>a, <2>1, <3>3, <4>2
      <4> QED BY <2>2, <4>1, <4>2
    <3> QED BY <2>2, <3>2, <3>4 DEF Se!CodesInv, Se!Shows, Se!Flag
  <2>6. CASE c.kind # "enable"
    <3>1. v3'.codes = v3.codes /\ (v3'.profile.on => v3.profile.on)
      BY <2>1, <2>6, AppliedIs
    <3>2. ASSUME NEW e \in v8'
          PROVE /\ e.got # None => e.got.ok /\ (e.kind = "enable" => e.got.codes = v3'.codes)
                /\ e.kind = "profile" /\ e.arg.of = "enable" => e.arg.codes = v3'.codes
      <4>1. CASE e = d BY <1>a, <2>1, <2>2, <2>3, <2>6, <3>1, <4>1
      <4>2. CASE e \in v8 /\ e # c BY <1>a, <2>1, <3>1, <4>2
      <4> QED BY <2>2, <4>1, <4>2
    <3>3. v3'.profile.on => v12'.seen = v3'.codes \/ \E e \in v8' : Se!Shows(e)
      BY <1>a, <2>1, <2>2, <2>4, <3>1
    <3> QED BY <3>2, <3>3 DEF Se!CodesInv, Se!Shows, Se!Flag
  <2> QED BY <2>5, <2>6
<1>3. ASSUME NEW c \in v8, Se!Answer(c), ~v12'.failed, ~v12'.left PROVE Se!CodesInv'
  <2>0. Heard(c) /\ ~v12.failed /\ ~v12.left BY <1>3, HeardIs, HeardLeaves
  <2>1. v3' = v3 BY <2>0 DEF Heard
  <2>2. c.got.ok /\ Tells(c) BY <1>3, <1>a, <2>0 DEF Se!Answer
  <2>3. \A e \in v8' : Tells(e)
    <3>1. ASSUME NEW t, Follows(c, t) PROVE Tells(t)
      <4>1. t.got = None BY <3>1 DEF Follows
      <4>2. t.kind = "profile" /\ t.arg.of = "enable" => c.kind = "enable" /\ t.arg.codes = c.got.codes
        BY <3>1 DEF Follows
      <4> QED BY <1>3, <2>2, <4>1, <4>2 DEF Se!Answer
    <3> QED BY <1>a, <2>0, <3>1 DEF Heard
  <2>4. \A e \in v8 : e # c => e \in v8' BY <2>0 DEF Heard
  <2>5. CASE ~Se!Shows(c)
    <3>1. v12'.seen = v12.seen
      <4>a. Se!ApplyProfileData(c.got.profile) /\ v6' = v6 => v12'.seen = v12.seen
        BY <1>0 DEF Se!ApplyProfileData, Se!HistFields, Se!CardInv
      <4>1. CASE Se!HearSetup(c) \/ Se!HearChange(c) \/ Se!HearDanger(c)
        BY <4>1 DEF Se!HearSetup, Se!HearChange, Se!HearDanger
      <4>2. CASE Se!HearProfile(c)
        <5>1. c.arg.of # "enable" BY <2>5, <4>2 DEF Se!HearProfile, Se!Shows, Se!Flag
        <5>2. v6' = v6 /\ Se!ApplyProfileData(c.got.profile) BY <2>2, <4>2, <5>1 DEF Se!HearProfile
        <5> QED BY <4>a, <5>2
      <4>3. CASE Se!HearAccount(c) BY <4>a, <4>3 DEF Se!HearAccount, Se!AsAnswered
      <4>4. CASE Se!HearListChange(c) BY <1>0, <4>4 DEF Se!HearListChange, Se!Revealed, Se!HistFields
      <4>5. CASE Se!HearLoad(c) BY <1>0, <4>5 DEF Se!HearLoad, Se!HistFields
      <4> QED BY <1>3, <4>1, <4>2, <4>3, <4>4, <4>5 DEF Se!Answer
    <3>2. v3'.profile.on => v12'.seen = v3'.codes \/ \E e \in v8' : Se!Shows(e)
      BY <1>a, <2>0, <2>1, <2>4, <2>5, <3>1
    <3> QED BY <2>1, <2>3, <3>2 DEF Se!CodesInv, Se!Shows, Se!Flag
  <2>6. CASE Se!Shows(c) /\ c.kind = "enable"
    <3>1. Se!HearChange(c)
      BY <1>3, <2>6, KindNames DEF Se!Answer, Se!HearSetup, Se!HearProfile, Se!HearAccount, Se!HearListChange, Se!HearLoad, Se!HearDanger
    <3> DEFINE t == [kind |-> "profile", arg |-> [of |-> c.kind, codes |-> c.got.codes], at |-> c.at,
                     got |-> None]
    <3>2. t \in v8' BY <2>2, <3>1 DEF Se!HearChange, Se!Replace, Se!Call
    <3>3. Se!Shows(t) BY <2>6 DEF Se!Shows, Se!Flag
    <3> HIDE DEF t
    <3>4. \E e \in v8' : Se!Shows(e) BY <3>2, <3>3
    <3> QED BY <2>1, <2>3, <3>4 DEF Se!CodesInv, Se!Shows, Se!Flag
  <2>7. CASE Se!Shows(c) /\ c.kind = "profile"
    <3>1. Se!HearProfile(c)
      BY <1>3, <2>7, KindNames DEF Se!Answer, Se!HearSetup, Se!HearChange, Se!HearAccount, Se!HearListChange, Se!HearLoad, Se!HearDanger
    <3>2. c.arg.of = "enable" BY <2>7 DEF Se!Shows, Se!Flag
    <3>3. Se!ShowsCodes(c)
      <4>1. v1 = "profile" BY <2>7, PartIs, KindNames
      <4> QED BY <2>0, <4>1 DEF Se!ShowsCodes, Se!Here, Se!CallInv
    <3>4. v6' = [v6 EXCEPT !.step = "backup-codes", !.codes = c.arg.codes]
          /\ Se!ApplyProfileData(c.got.profile)
      BY <2>2, <3>1, <3>2, <3>3 DEF Se!HearProfile
    <3>5. v6'.step = "backup-codes" /\ v6'.codes = v3.codes
      BY <1>0, <2>2, <2>7, <3>2, <3>4 DEF Se!CardFields
    <3>6. v12'.seen = v3.codes BY <1>0, <3>4, <3>5 DEF Se!ApplyProfileData, Se!HistFields
    <3> QED BY <2>1, <2>3, <3>6 DEF Se!CodesInv, Se!Shows, Se!Flag
  <2> QED BY <2>5, <2>6, <2>7 DEF Se!Shows
<1>4. CASE Screen
  <2>1. /\ UNCHANGED <<v3, v8>> /\ v12'.seen = v12.seen /\ v12'.failed = v12.failed
        /\ (v12.left => v12'.left)
    BY <1>4, ScreenIs
  <2> QED BY <1>a, <2>1 DEF Se!CodesInv, Se!Shows, Se!Flag
<1>5. CASE Se!Revisit
  <2>1. /\ v3' = v3 /\ v12'.seen = v12.seen /\ v12'.failed = v12.failed
        /\ (~v12'.left => ~v12.left /\ v8 = {})
    BY <1>0, <1>5 DEF Se!Revisit, Se!HistFields
  <2>2. \A e \in v8' : e \in v8 \/ (e.got = None /\ e.kind = "load") BY <1>5 DEF Se!Revisit, Se!Call
  <2>3. CASE v12'.failed \/ v12'.left BY <2>3 DEF Se!CodesInv
  <2>4. CASE ~v12'.failed /\ ~v12'.left
    <3>1. v3'.profile.on => v12'.seen = v3'.codes BY <1>a, <2>1, <2>4
    <3>2. \A e \in v8' : e.got = None /\ e.kind = "load" BY <2>1, <2>2, <2>4
    <3> QED BY <3>1, <3>2 DEF Se!CodesInv
  <2> QED BY <2>3, <2>4
<1>6. CASE v12'.failed \/ v12'.left BY <1>6 DEF Se!CodesInv
<1> QED BY <1>1, <1>2, <1>3, <1>4, <1>5, <1>6, SecurityNextIs

(* The security settings begin in order. *)
LEMMA SecurityInit ==
  ASSUME Se!SecurityAssumption, Se!Init
  PROVE Se!IInv
<1>1. /\ v1 \in {"profile", "list", "danger"} /\ v6 = Se!Blank
      /\ v10 = (IF v1 = "danger" THEN 0 ELSE 1)
      /\ v8 = IF v1 = "list" THEN {[kind |-> "load", arg |-> "mount", at |-> 1, got |-> None]} ELSE {}
  BY DEF Se!Init
<1>2. PICK on \in BOOLEAN :
        /\ v3 = [profile |-> [rev |-> 0, on |-> on], secret |-> 0, codes |-> IF on THEN 1 ELSE 0,
                 list |-> [rev |-> 0, rows |-> [r \in secRows |-> "none"]], gone |-> FALSE]
        /\ v12 = [seen |-> v3.codes, heard |-> {}, dismissed |-> {}, ticked |-> 0,
                  failed |-> FALSE, overtaken |-> FALSE, left |-> FALSE]
  BY DEF Se!Init
<1>3. DOMAIN v3 = Se!TruthFields BY <1>2 DEF Se!TruthFields
<1>4. DOMAIN v12 = Se!HistFields /\ v12.heard = {} /\ v12.seen = v3.codes BY <1>2 DEF Se!HistFields
<1>5. /\ DOMAIN v6 = Se!CardFields /\ v6.step = "idle" /\ v6.question = None
      /\ v6.understood = FALSE
  BY <1>1 DEF Se!Blank, Se!CardFields
<1>6. ASSUME NEW c \in v8
      PROVE /\ DOMAIN c = Se!CallFields /\ c.kind = "load" /\ c.arg = "mount" /\ c.at = 1 /\ c.got = None
            /\ v1 = "list" /\ Se!Flag(c) = "mount"
  BY <1>1 DEF Se!CallFields, Se!Flag
<1>7. Se!CallInv BY <1>1, <1>3, <1>4, <1>6, KindNames DEF Se!CallInv
<1>8. Se!FlagInv
  <2>1. \A G \in Se!Groups : "mount" \notin G BY DEF Se!Groups, Se!Factor
  <2> QED BY <1>6, <2>1 DEF Se!FlagInv
<1>9. Se!CardInv BY <1>5 DEF Se!CardInv
<1>10. Se!TokenInv /\ Se!NoTokenIsLost BY <1>4, <1>6 DEF Se!TokenInv, Se!NoTokenIsLost
<1>11. Se!CodesInv BY <1>4, <1>6 DEF Se!CodesInv
<1>12. Se!ConfirmedForThisQuestion BY <1>5 DEF Se!ConfirmedForThisQuestion
<1> QED BY <1>7, <1>8, <1>9, <1>10, <1>11, <1>12 DEF Se!IInv

(* A step that leaves the variables alone leaves them in order. *)
LEMMA SecurityStays ==
  ASSUME Se!IInv, UNCHANGED Se!vars
  PROVE Se!IInv'
BY DEF Se!IInv, Se!vars, Se!CallInv, Se!FlagInv, Se!CardInv, Se!TokenInv, Se!CodesInv, Se!NoTokenIsLost,
       Se!ConfirmedForThisQuestion, Se!Held, Se!Here, Se!Flag, Se!Shows

(* Every step of the security settings keeps them in order. *)
LEMMA SecurityStep ==
  ASSUME Se!SecurityAssumption, Se!IInv, Se!Next
  PROVE Se!IInv'
<1>1. Se!CallInv' BY CallStays DEF Se!IInv
<1>2. Se!FlagInv' BY FlagStays DEF Se!IInv
<1>3. Se!CardInv' /\ Se!ConfirmedForThisQuestion' BY CardStays DEF Se!IInv
<1>4. Se!TokenInv' /\ Se!NoTokenIsLost' BY TokenStays DEF Se!IInv
<1>5. Se!CodesInv' BY CodesStay DEF Se!IInv
<1> QED BY <1>1, <1>2, <1>3, <1>4, <1>5 DEF Se!IInv

(* Settings in order load the demo data once, and have shown the codes. *)
LEMMA SecurityKeeps ==
  ASSUME Se!IInv
  PROVE Se!EnabledMeansCodesShown /\ Se!OneSeedAtATime
<1>1. Se!EnabledMeansCodesShown BY DEF Se!IInv, Se!CodesInv, Se!EnabledMeansCodesShown, Se!Quiet
<1>2. ASSUME ~v12.left, NEW c \in v8, NEW d \in v8, c.kind = "demo", d.kind = "demo"
      PROVE c = d
  <2>1. v1 = "danger" BY <1>2, PartIs, KindNames DEF Se!IInv
  <2>2. Se!Held(c) /\ Se!Held(d) BY <1>2, <2>1 DEF Se!Held
  <2>3. Se!Flag(c) = "demo" /\ Se!Flag(d) = "demo" BY <1>2 DEF Se!Flag
  <2>4. {"demo"} \in Se!Groups BY DEF Se!Groups
  <2> QED BY <2>2, <2>3, <2>4 DEF Se!IInv, Se!FlagInv
<1> QED BY <1>1, <1>2 DEF Se!OneSeedAtATime

(***************************************************************************)
(* The contacts                                                            *)
(***************************************************************************)
(* Nothing is asked for: at most the sheet closes. *)
Idles == UNCHANGED <<v1, v11, v8, v12, v15>> /\ v10' \in {v10, None}

(* A sheet opens. *)
Opens ==
  /\ v10 = None /\ v11 < listMaxOpenings /\ v11' = v11 + 1
  /\ UNCHANGED <<v1, v8, v12, v15>>

(* Change o is sent: one of the open form under its flag, or another one. *)
Posted(o) ==
  /\ v8' = v8 \cup {o} /\ DOMAIN o = Li!OpFields /\ o.opening = v11 /\ o.result = None
  /\ UNCHANGED <<v1, v11, v10, v15>>
  /\ \/ /\ o.kind \in Li!FormKinds /\ v10 # None /\ v12'
        /\ v1 = "people" => ~v12
     \/ o.kind \notin Li!FormKinds /\ v12' = v12

(* Change o is served, or its answer read: it goes on as d. *)
Becomes(o, d) ==
  /\ o \in v8 /\ v8' = (v8 \ {o}) \cup {d} /\ UNCHANGED <<v1, v11, v10, v12>>
  /\ DOMAIN d = Li!OpFields /\ d.kind = o.kind /\ d.opening = o.opening
  /\ o.kind = "create" => o.result = None
  /\ \/ v15' = v15 /\ (o.kind = "create" => d.result = "error")
     \/ /\ o.kind = "create" /\ d.result \notin {None, "error"}
        /\ v15' = [v15 EXCEPT ![o.opening] = @ + 1]

(* The answer to change o is heard: a creation closes the sheet. *)
Ends(o) ==
  /\ o \in v8 /\ v8' = v8 \ {o} /\ UNCHANGED <<v1, v11, v15>>
  /\ o.kind \notin Li!FormKinds => (v12' <=> v12)
  /\ v10' \in {v10, None}
  /\ o.kind = "create" /\ o.result # "error" => v10' = None

(* What is sent is one change. *)
LEMMA PostedIs ==
  ASSUME NEW kind, NEW id, Li!Send(kind, id),
         \/ kind \in Li!FormKinds /\ v10 # None /\ v12' /\ (v1 = "people" => ~v12)
         \/ kind \notin Li!FormKinds /\ v12' = v12
  PROVE \E o : Posted(o)
<1> DEFINE o == [n |-> v9 + 1, kind |-> kind, id |-> id, opening |-> v11, result |-> None,
                 rev |-> 0, load |-> 0]
<1>1. v8' = v8 \cup {o} /\ UNCHANGED <<v1, v11, v10, v15>> BY DEF Li!Send
<1>2. DOMAIN o = Li!OpFields /\ o.kind = kind /\ o.opening = v11 /\ o.result = None BY DEF Li!OpFields
<1> HIDE DEF o
<1>3. Posted(o) BY <1>1, <1>2 DEF Posted
<1> QED BY <1>3

(* Every button sends one change. *)
LEMMA PostsAre ==
  ASSUME Li!HandleSave \/ Li!ConfirmDelete \/ Li!AnswerRequest("accept") \/ Li!AnswerRequest("decline")
         \/ Li!SpendInView \/ Li!SpendInSection
  PROVE \E o : Posted(o)
<1>1. CASE Li!HandleSave
  <2>1. Li!Send("create", None) \/ Li!Send("send", "links") \/ Li!Send("edit", v10) BY <1>1 DEF Li!HandleSave
  <2>2. v10 # None /\ v12' /\ (v1 = "people" => ~v12)
    BY <1>1 DEF Li!HandleSave, Li!Free, Li!ButtonFree, Li!EnterKey
  <2> QED BY <2>1, <2>2, PostedIs DEF Li!FormKinds
<1>2. CASE Li!ConfirmDelete
  BY <1>2, PostedIs DEF Li!ConfirmDelete, Li!FormKinds
<1>3. CASE Li!AnswerRequest("accept") \/ Li!AnswerRequest("decline")
  BY <1>3, PostedIs DEF Li!AnswerRequest, Li!FormKinds
<1>4. CASE Li!SpendInView \/ Li!SpendInSection
  BY <1>4, PostedIs DEF Li!SpendInView, Li!SpendInSection, Li!Spend, Li!FormKinds
<1> QED BY <1>1, <1>2, <1>3, <1>4

(* The server answers one change. *)
LEMMA ListsServeIs ==
  ASSUME Li!SplitListsAssumption, Li!FormInv, NEW o \in v8, Li!Serve(o)
  PROVE \E d : Becomes(o, d)
<1>1. PICK r : /\ r \in (IF Li!Refused(o) THEN {} ELSE IF o.kind = "create" THEN {x \in listRows : Li!Unused(x)} ELSE {"ok"})
                        \cup {"error"}
               /\ v8' = (v8 \ {o}) \cup {[o EXCEPT !.result = r, !.rev = IF o.kind = "edit" THEN v2.rows[o.id] + 1 ELSE 0]}
               /\ v15' = IF r # "error" /\ o.kind = "create" THEN [v15 EXCEPT ![o.opening] = @ + 1] ELSE v15
  BY DEF Li!Serve
<1> DEFINE d == [o EXCEPT !.result = r, !.rev = IF o.kind = "edit" THEN v2.rows[o.id] + 1 ELSE 0]
<1>2. DOMAIN o = Li!OpFields BY DEF Li!FormInv
<1>3. DOMAIN d = Li!OpFields /\ d.kind = o.kind /\ d.opening = o.opening /\ d.result = r BY <1>2 DEF Li!OpFields
<1>4. v8' = (v8 \ {o}) \cup {d} BY <1>1
<1> HIDE DEF d
<1>5. o.result = None /\ UNCHANGED <<v1, v11, v10, v12>> BY DEF Li!Serve, Li!form
<1>6. o.kind = "create" => r = "error" \/ r \in listRows BY <1>1
<1>7. o.kind = "create" /\ r # "error" => r \notin {None, "error"} BY <1>6 DEF Li!SplitListsAssumption
<1>8. Becomes(o, d) BY <1>1, <1>3, <1>4, <1>5, <1>7 DEF Becomes
<1> QED BY <1>8

(* An answer ends a change, or the requests are read before. *)
LEMMA ListsAnswersAre ==
  ASSUME Li!FormInv, NEW o \in v8, Li!HearError(o) \/ Li!Hear(o) \/ Li!HearSent(o) \/ Li!HearReloaded(o)
  PROVE Ends(o) \/ \E d : Becomes(o, d)
<1>1. CASE Li!HearError(o)
  BY <1>1 DEF Li!HearError, Li!Over, Ends, Li!FormKinds
<1>2. CASE Li!Hear(o) \/ Li!HearReloaded(o)
  <2>1. v8' = v8 \ {o} /\ Li!Over(o, TRUE) BY <1>2 DEF Li!Hear, Li!HearReloaded
  <2> QED BY <2>1 DEF Li!Over, Ends, Li!FormKinds
<1>3. CASE Li!HearSent(o)
  <2> DEFINE d == [o EXCEPT !.result = "reading", !.load = v5 + 1]
  <2>1. DOMAIN o = Li!OpFields BY DEF Li!FormInv
  <2>2. DOMAIN d = Li!OpFields /\ d.kind = o.kind /\ d.opening = o.opening BY <2>1 DEF Li!OpFields
  <2>3. v8' = (v8 \ {o}) \cup {d} BY <1>3 DEF Li!HearSent
  <2> HIDE DEF d
  <2>4. Becomes(o, d) BY <1>3, <2>2, <2>3 DEF Li!HearSent, Becomes, Li!form
  <2> QED BY <2>4
<1> QED BY <1>1, <1>2, <1>3

(* The steps of the lists, as far as the form goes. *)
LEMMA ListsCases ==
  ASSUME Li!SplitListsAssumption, Li!FormInv, Li!Next
  PROVE \/ Idles \/ Opens \/ (\E o : Posted(o))
        \/ (\E o \in v8 : Ends(o)) \/ (\E o \in v8 : \E d : Becomes(o, d))
<1>1. CASE Li!HandlePullRefresh \/ Li!CloseSheet
  BY <1>1 DEF Li!HandlePullRefresh, Li!CloseSheet, Idles, Li!form
<1>2. CASE \E l \in v4 : Li!ServeLoad(l) \/ Li!HearLoad(l, TRUE) \/ Li!HearLoad(l, FALSE)
  BY <1>2 DEF Li!ServeLoad, Li!HearLoad, Idles, Li!form
<1>3. CASE \E r \in listRows : Li!AskDelete(r) BY <1>3 DEF Li!AskDelete, Idles
<1>4. CASE \E s \in {"new", "invite"} \cup listRows : Li!OpenSheet(s) BY <1>4 DEF Li!OpenSheet, Opens
<1>5. CASE Li!HandleSave \/ Li!ConfirmDelete \/ Li!AnswerRequest("accept") \/ Li!AnswerRequest("decline")
           \/ Li!SpendInView \/ Li!SpendInSection
  BY <1>5, PostsAre
<1>6. CASE \E o \in v8 : Li!Serve(o) BY <1>6, ListsServeIs
<1>7. CASE \E o \in v8 : Li!HearError(o) \/ Li!Hear(o) \/ Li!HearSent(o) \/ Li!HearReloaded(o)
  BY <1>7, ListsAnswersAre
<1> QED BY <1>1, <1>2, <1>3, <1>4, <1>5, <1>6, <1>7 DEF Li!Next

(* Every change keeps to the opening it was sent from. *)
LEMMA ListsForm ==
  ASSUME Li!SplitListsAssumption, Li!FormInv, Li!Next
  PROVE Li!FormInv'
<1>0. /\ v11 \in 0..listMaxOpenings /\ v15 \in [1..listMaxOpenings -> Nat] /\ listMaxOpenings \in Nat
      /\ v10 # None => v11 > 0
      /\ \A o \in v8 : DOMAIN o = Li!OpFields /\ (o.kind \in Li!FormKinds => o.opening \in 1..v11)
  BY DEF Li!FormInv, Li!SplitListsAssumption
<1>1. CASE Idles BY <1>0, <1>1 DEF Idles, Li!FormInv
<1>2. CASE Opens BY <1>0, <1>2 DEF Opens, Li!FormInv
<1>3. ASSUME NEW o, Posted(o) PROVE Li!FormInv'
  <2>1. o.kind \in Li!FormKinds => o.opening \in 1..v11 BY <1>0, <1>3 DEF Posted
  <2> QED BY <1>0, <1>3, <2>1 DEF Posted, Li!FormInv
<1>4. ASSUME NEW o \in v8, Ends(o) PROVE Li!FormInv' BY <1>0, <1>4 DEF Ends, Li!FormInv
<1>5. ASSUME NEW o \in v8, NEW d, Becomes(o, d) PROVE Li!FormInv'
  <2>1. UNCHANGED <<v11, v10>> /\ \A e \in v8' : e \in v8 \/ e = d BY <1>5 DEF Becomes
  <2>2. DOMAIN d = Li!OpFields /\ (d.kind \in Li!FormKinds => d.opening \in 1..v11)
    BY <1>0, <1>5 DEF Becomes
  <2>3. v15' \in [1..listMaxOpenings -> Nat]
    <3>1. CASE v15' = v15 BY <1>0, <3>1
    <3>2. CASE o.kind = "create" /\ v15' = [v15 EXCEPT ![o.opening] = @ + 1]
      <4>1. o.opening \in 1..listMaxOpenings BY <1>0, <3>2 DEF Li!FormKinds
      <4> QED BY <1>0, <3>2, <4>1
    <3> QED BY <1>5, <3>1, <3>2 DEF Becomes
  <2> QED BY <1>0, <2>1, <2>2, <2>3 DEF Li!FormInv
<1> QED BY <1>1, <1>2, <1>3, <1>4, <1>5, ListsCases

(* The form of a contact asks for one thing at a time. *)
LEMMA ListsFlag ==
  ASSUME Li!SplitListsAssumption, Li!FormInv, Li!FlagInv, Li!Next
  PROVE Li!FlagInv'
<1> SUFFICES ASSUME v1' = "people" PROVE Li!FlagInv'
  BY DEF Li!FlagInv
<1>0. v1' = v1 BY ListsCases DEF Idles, Opens, Posted, Ends, Becomes
<1>a. \A o, p \in v8 : o.kind \in Li!FormKinds /\ p.kind \in Li!FormKinds => o = p /\ v12
  BY <1>0 DEF Li!FlagInv
<1>1. CASE Idles \/ Opens BY <1>a, <1>1 DEF Idles, Opens, Li!FlagInv
<1>2. ASSUME NEW o, Posted(o) PROVE Li!FlagInv'
  <2>1. CASE o.kind \in Li!FormKinds
    <3>1. v12' /\ ~v12 BY <1>0, <1>2, <2>1 DEF Posted
    <3>2. \A p \in v8' : p.kind \in Li!FormKinds => p = o BY <1>a, <1>2, <3>1 DEF Posted
    <3> QED BY <3>1, <3>2 DEF Li!FlagInv
  <2>2. CASE o.kind \notin Li!FormKinds BY <1>a, <1>2, <2>2 DEF Posted, Li!FlagInv
  <2> QED BY <2>1, <2>2
<1>3. ASSUME NEW o \in v8, Ends(o) PROVE Li!FlagInv'
  <2>1. v8' = v8 \ {o} BY <1>3 DEF Ends
  <2>2. CASE o.kind \in Li!FormKinds
    <3>1. \A p \in v8' : p.kind \notin Li!FormKinds BY <1>a, <2>1, <2>2
    <3> QED BY <3>1 DEF Li!FlagInv
  <2>3. CASE o.kind \notin Li!FormKinds BY <1>a, <1>3, <2>1, <2>3 DEF Ends, Li!FlagInv
  <2> QED BY <2>2, <2>3
<1>4. ASSUME NEW o \in v8, NEW d, Becomes(o, d) PROVE Li!FlagInv'
  <2>1. v8' = (v8 \ {o}) \cup {d} /\ d.kind = o.kind /\ v12' = v12 BY <1>4 DEF Becomes
  <2> QED BY <1>a, <2>1 DEF Li!FlagInv
<1> QED BY <1>1, <1>2, <1>3, <1>4, ListsCases

(* An opening creates one contact. *)
LEMMA ListsMade ==
  ASSUME Li!SplitListsAssumption, Li!FormInv, Li!FlagInv, Li!MadeInv, Li!OneContactPerForm, Li!Next
  PROVE Li!MadeInv' /\ Li!OneContactPerForm'
<1> SUFFICES ASSUME v1' = "people" PROVE Li!MadeInv' /\ Li!OneContactPerForm'
  BY DEF Li!MadeInv, Li!OneContactPerForm
<1>0. v1 = "people" BY ListsCases DEF Idles, Opens, Posted, Ends, Becomes
<1>a. /\ v11 \in 0..listMaxOpenings /\ v15 \in [1..listMaxOpenings -> Nat] /\ listMaxOpenings \in Nat
      /\ v10 # None => v11 > 0
      /\ \A o \in v8 : o.kind = "create" => o.opening \in 1..v11
  BY DEF Li!FormInv, Li!SplitListsAssumption, Li!FormKinds
<1>b. /\ \A n \in 1..listMaxOpenings : n > v11 => v15[n] = 0
      /\ \A o \in v8 : o.kind = "create" /\ o.result = None => v15[o.opening] = 0
      /\ v10 # None /\ v15[v11] # 0 =>
           \E o \in v8 : o.kind = "create" /\ o.result \notin {None, "error"}
      /\ \A n \in 1..listMaxOpenings : v15[n] <= 1
  BY <1>0 DEF Li!MadeInv, Li!OneContactPerForm
<1>1. CASE Idles BY <1>a, <1>b, <1>1 DEF Idles, Li!MadeInv, Li!OneContactPerForm
<1>2. CASE Opens
  <2>1. v15' = v15 /\ v8' = v8 /\ v11' = v11 + 1 /\ v11' \in 1..listMaxOpenings
    BY <1>a, <1>2 DEF Opens
  <2>2. v15[v11'] = 0 BY <1>a, <1>b, <2>1
  <2>3. \A n \in 1..listMaxOpenings : n > v11' => n > v11 BY <1>a, <2>1
  <2> QED BY <1>b, <2>1, <2>2, <2>3 DEF Li!MadeInv, Li!OneContactPerForm
<1>3. ASSUME NEW o, Posted(o) PROVE Li!MadeInv' /\ Li!OneContactPerForm'
  <2>1. UNCHANGED <<v15, v11, v10>> /\ v8' = v8 \cup {o} /\ o.opening = v11
    BY <1>3 DEF Posted
  <2>2. o.kind = "create" => v15[v11] = 0
    <3>1. SUFFICES ASSUME o.kind = "create", v15[v11] # 0 PROVE FALSE OBVIOUS
    <3>2. v10 # None /\ ~v12 BY <1>0, <1>3, <3>1 DEF Posted, Li!FormKinds
    <3>3. PICK p \in v8 : p.kind = "create" BY <1>b, <3>1, <3>2
    <3>4. v12 BY <1>0, <3>3 DEF Li!FlagInv, Li!FormKinds
    <3> QED BY <3>2, <3>4
  <2>3. \A p \in v8' : p.kind = "create" /\ p.result = None => v15[p.opening] = 0 BY <1>b, <2>1, <2>2
  <2> QED BY <1>b, <2>1, <2>3 DEF Li!MadeInv, Li!OneContactPerForm
<1>4. ASSUME NEW o \in v8, Ends(o) PROVE Li!MadeInv' /\ Li!OneContactPerForm'
  <2>1. UNCHANGED <<v15, v11>> /\ v8' = v8 \ {o} /\ v10' \in {v10, None} BY <1>4 DEF Ends
  <2>2. v10' # None /\ v15[v11] # 0 =>
          \E p \in v8' : p.kind = "create" /\ p.result \notin {None, "error"}
    <3> SUFFICES ASSUME v10' # None, v15[v11] # 0
                 PROVE \E p \in v8' : p.kind = "create" /\ p.result \notin {None, "error"}
      OBVIOUS
    <3>1. PICK p \in v8 : p.kind = "create" /\ p.result \notin {None, "error"} BY <1>b, <2>1
    <3>2. p # o BY <1>4, <3>1 DEF Ends
    <3> QED BY <2>1, <3>1, <3>2
  <2> QED BY <1>b, <2>1, <2>2 DEF Li!MadeInv, Li!OneContactPerForm
<1>5. ASSUME NEW o \in v8, NEW d, Becomes(o, d) PROVE Li!MadeInv' /\ Li!OneContactPerForm'
  <2>1. /\ UNCHANGED <<v11, v10>> /\ v8' = (v8 \ {o}) \cup {d}
        /\ d.kind = o.kind /\ d.opening = o.opening /\ (o.kind = "create" => o.result = None)
    BY <1>5 DEF Becomes
  <2>2. CASE v15' = v15 /\ (o.kind = "create" => d.result = "error")
    <3>1. \A p \in v8' : p.kind = "create" /\ p.result = None => v15[p.opening] = 0 BY <1>b, <2>1
    <3>2. v10 # None /\ v15[v11] # 0 =>
            \E p \in v8' : p.kind = "create" /\ p.result \notin {None, "error"}
      BY <1>b, <2>1
    <3> QED BY <1>b, <2>1, <2>2, <3>1, <3>2 DEF Li!MadeInv, Li!OneContactPerForm
  <2>3. CASE /\ o.kind = "create" /\ d.result \notin {None, "error"}
             /\ v15' = [v15 EXCEPT ![o.opening] = @ + 1]
    <3>1. o.opening \in 1..v11 /\ v15[o.opening] = 0 BY <1>a, <1>b, <2>1, <2>3
    <3>2. \A n \in 1..listMaxOpenings : v15'[n] = IF n = o.opening THEN 1 ELSE v15[n]
      BY <1>a, <2>3, <3>1
    <3>3. \A n \in 1..listMaxOpenings : v15'[n] <= 1 BY <1>b, <3>2
    <3>4. \A n \in 1..listMaxOpenings : n > v11' => v15'[n] = 0 BY <1>a, <1>b, <2>1, <3>1, <3>2
    <3>5. \A p \in v8' : p.kind = "create" => p = d
      BY <1>0, <2>1, <2>3 DEF Li!FlagInv, Li!FormKinds
    <3>6. d \in v8' BY <2>1
    <3> QED BY <2>1, <2>3, <3>3, <3>4, <3>5, <3>6 DEF Li!MadeInv, Li!OneContactPerForm
  <2> QED BY <1>5, <2>2, <2>3 DEF Becomes
<1> QED BY <1>1, <1>2, <1>3, <1>4, <1>5, ListsCases

(* At first nothing was opened. *)
LEMMA ListsInit ==
  ASSUME Li!SplitListsAssumption, Li!Init
  PROVE Li!IInv
<1>0. v8 = {} /\ v10 = None /\ v11 = 0 /\ v15 = [n \in 1..listMaxOpenings |-> 0] BY DEF Li!Init
<1>1. Li!FormInv BY <1>0 DEF Li!FormInv, Li!SplitListsAssumption
<1>2. Li!FlagInv /\ Li!MadeInv /\ Li!OneContactPerForm BY <1>0 DEF Li!FlagInv, Li!MadeInv, Li!OneContactPerForm
<1> QED BY <1>1, <1>2 DEF Li!IInv

(* What does not change keeps the invariant. *)
LEMMA ListsStays ==
  ASSUME Li!IInv, UNCHANGED Li!vars
  PROVE Li!IInv'
BY DEF Li!IInv, Li!vars, Li!FormInv, Li!FlagInv, Li!MadeInv, Li!OneContactPerForm

(* Every step of the section keeps the invariant. *)
LEMMA ListsStep ==
  ASSUME Li!SplitListsAssumption, Li!IInv, Li!Next
  PROVE Li!IInv'
BY ListsForm, ListsFlag, ListsMade DEF Li!IInv

(***************************************************************************)
(* The import of a file                                                    *)
(***************************************************************************)
(* The section counts as the library does. *)
LEMMA ImportCardinality == \A S : Im!Cardinality(S) = Cardinality(S)
BY DEF Im!Cardinality, Cardinality

(* Counting the numbers of calls. *)
LEMMA CountedNumbers ==
  ASSUME NEW m \in Nat, NEW S, S \subseteq 1..m
  PROVE /\ Cardinality(S) \in Nat
        /\ \A T : T \subseteq S => Cardinality(T) \in Nat /\ Cardinality(T) <= Cardinality(S)
        /\ \A k \in S : Cardinality(S \ {k}) \in Nat /\ Cardinality(S \ {k}) = Cardinality(S) - 1
        /\ \A k : Cardinality(S \cup {k}) \in Nat /\ Cardinality(S \cup {k}) <= Cardinality(S) + 1
        /\ \A k, T : T \subseteq S \cup {k} => Cardinality(T) \in Nat /\ Cardinality(T) <= Cardinality(S) + 1
        /\ \A k, T : k \in S /\ T \subseteq S \ {k} => Cardinality(T) \in Nat /\ Cardinality(T) <= Cardinality(S) - 1
<1>1. IsFiniteSet(1..m) BY FS_Interval
<1>2. IsFiniteSet(S) BY <1>1, FS_Subset
<1>3. Cardinality(S) \in Nat BY <1>2, FS_CardinalityType
<1>4. \A T : T \subseteq S => Cardinality(T) \in Nat /\ Cardinality(T) <= Cardinality(S)
  BY <1>2, FS_Subset, FS_CardinalityType
<1>5. ASSUME NEW k \in S PROVE IsFiniteSet(S \ {k}) /\ Cardinality(S \ {k}) = Cardinality(S) - 1
  BY <1>2, <1>5, FS_RemoveElement
<1>6. ASSUME NEW k PROVE /\ IsFiniteSet(S \cup {k}) /\ Cardinality(S \cup {k}) \in Nat
                         /\ Cardinality(S \cup {k}) <= Cardinality(S) + 1
  <2>1. /\ IsFiniteSet(S \cup {k})
        /\ Cardinality(S \cup {k}) = IF k \in S THEN Cardinality(S) ELSE Cardinality(S) + 1
    BY <1>2, FS_AddElement
  <2> QED BY <1>3, <2>1, FS_CardinalityType
<1>7. ASSUME NEW k, NEW T, T \subseteq S \cup {k}
      PROVE Cardinality(T) \in Nat /\ Cardinality(T) <= Cardinality(S) + 1
  <2>1. /\ IsFiniteSet(S \cup {k}) /\ Cardinality(S \cup {k}) \in Nat
        /\ Cardinality(S \cup {k}) <= Cardinality(S) + 1
    BY <1>6
  <2>2. IsFiniteSet(T) /\ Cardinality(T) <= Cardinality(S \cup {k}) BY <1>7, <2>1, FS_Subset
  <2>3. Cardinality(T) \in Nat BY <2>2, FS_CardinalityType
  <2> QED BY <1>3, <2>1, <2>2, <2>3
<1>8. ASSUME NEW k \in S, NEW T, T \subseteq S \ {k}
      PROVE Cardinality(T) \in Nat /\ Cardinality(T) <= Cardinality(S) - 1
  <2>1. IsFiniteSet(T) /\ Cardinality(T) <= Cardinality(S \ {k}) BY <1>5, <1>8, FS_Subset
  <2>2. Cardinality(T) \in Nat BY <2>1, FS_CardinalityType
  <2> QED BY <1>3, <1>5, <2>1, <2>2
<1>9. \A k \in S : Cardinality(S \ {k}) \in Nat /\ Cardinality(S \ {k}) = Cardinality(S) - 1
  BY <1>5, FS_CardinalityType
<1> QED BY <1>3, <1>4, <1>6, <1>7, <1>8, <1>9

(* The same as the section counts. *)
LEMMA Numbers ==
  ASSUME NEW m \in Nat, NEW S, S \subseteq 1..m
  PROVE /\ Im!Cardinality(S) \in Nat
        /\ \A T : T \subseteq S => Im!Cardinality(T) \in Nat /\ Im!Cardinality(T) <= Im!Cardinality(S)
        /\ \A k \in S : Im!Cardinality(S \ {k}) \in Nat /\ Im!Cardinality(S \ {k}) = Im!Cardinality(S) - 1
        /\ \A k : Im!Cardinality(S \cup {k}) \in Nat /\ Im!Cardinality(S \cup {k}) <= Im!Cardinality(S) + 1
        /\ \A k, T : T \subseteq S \cup {k} => Im!Cardinality(T) \in Nat /\ Im!Cardinality(T) <= Im!Cardinality(S) + 1
        /\ \A k, T : k \in S /\ T \subseteq S \ {k} => Im!Cardinality(T) \in Nat /\ Im!Cardinality(T) <= Im!Cardinality(S) - 1
BY CountedNumbers, ImportCardinality

(* A file of rows: none says what another one says. *)
LEMMA RowsDiffer ==
  ASSUME Im!ImportAssumption, NEW t \in Im!Texts
  PROVE /\ t[1] \in impFiles /\ \A r \in impRowNumbers : impRowsOf[t[1]][r] \in impRecords
        /\ \A r, s \in impRowNumbers : impRowsOf[t[1]][r] = impRowsOf[t[1]][s] => r = s
BY DEF Im!ImportAssumption, Im!Texts

(* Inserting a row unasked is a matter of the call alone. *)
LEMMA AloneIs ==
  ASSUME NEW t, NEW x
  PROVE Im!Alone(t, x)' <=> \A c, d \in v10' : Im!Unasked(c, t, x) /\ Im!Unasked(d, t, x) => c = d
BY DEF Im!Alone, Im!Unasked, Im!Turn, Im!Says

(* One row at a time: the first that is left. *)
LEMMA TurnIs ==
  ASSUME Im!ImportAssumption, NEW c, c.left \subseteq impRowNumbers
  PROVE /\ Im!Turn(c) \subseteq c.left
        /\ c.kind = "assets" => \A r, s \in Im!Turn(c) : r = s
<1>1. Im!Turn(c) \subseteq c.left BY DEF Im!Turn
<1>2. ASSUME c.kind = "assets", NEW r \in Im!Turn(c), NEW s \in Im!Turn(c) PROVE r = s
  <2>1. r \in Nat /\ s \in Nat BY <1>1 DEF Im!ImportAssumption
  <2>2. Im!Turn(c) = {k \in c.left : \A l \in c.left : k <= l} BY <1>2 DEF Im!Turn
  <2>3. r <= s /\ s <= r BY <2>2
  <2> QED BY <2>1, <2>3
<1> QED BY <1>1, <1>2

(* A step that calls nothing and is not of the server. *)
Chosen == UNCHANGED <<v8, v10, v16, v11, v12, v17>> /\ v14' = v14

(* Call c is made, and what it says was ticked was asked for. *)
Sent(c) ==
  /\ ~v8 /\ v8' /\ v16' = v16 + 1 /\ v10' = v10 \cup {c}
  /\ DOMAIN c = Im!CallFields /\ c.of \in Im!Texts /\ c.left \subseteq impRowNumbers /\ c.n = v16 + 1
  /\ ~c.heard /\ ~c.looked /\ (c.kind = "cashflow" => c.include = {})
  /\ UNCHANGED <<v11, v17, v14>>
  /\ v12' \in [impRecords -> Nat] /\ \A x \in impRecords : v12'[x] >= v12[x]
  /\ ~v14 => \A x \in impRecords : Im!Pends(c, x) => v12'[x] >= v12[x] + 1

(* Call c goes on as the elements of D, one at most, with less to do. *)
GoesOn(c, D) ==
  /\ c \in v10 /\ v10' = (v10 \ {c}) \cup D /\ v16' = v16
  /\ \A d, e \in D : d = e
  /\ \A d \in D : /\ DOMAIN d = Im!CallFields /\ d.kind = c.kind /\ d.of = c.of /\ d.include = c.include
                  /\ d.n = c.n /\ d.left \subseteq c.left
                  /\ d.kind = "preview" => ~d.heard
  /\ \/ v8' = v8 /\ \A d \in D : d.heard = c.heard
     \/ ~c.heard /\ \A d \in D : d.heard
  /\ v12' = v12 /\ (v14 => v14') /\ v17 \subseteq v17'

(* Nothing is inserted, and what call c has newly looked for in vain no    *)
(* other one is about to insert, or there is a race for it. *)
Waits(c, D) ==
  /\ GoesOn(c, D) /\ v11' = v11
  /\ \A d \in D, t \in Im!Types, x \in impRecords : Im!Unasked(d, t, x) =>
       \/ Im!Unasked(c, t, x) \/ <<t, x>> \in v17'
       \/ ~Im!Has(t, x) /\ \A e \in v10 : ~Im!Unasked(e, t, x)

(* What is sent is one call. *)
LEMMA SentIs ==
  ASSUME Im!ImportAssumption, Im!FileInv, Im!DueInv, NEW kind, NEW include, Im!Sends(kind, include),
         v12' \in [impRecords -> Nat], \A x \in impRecords : v12'[x] >= v12[x],
         kind = "cashflow" => include = {},
         kind = "assets" /\ ~v14 =>
           \A x \in impRecords : \A r \in include :
             impRowsOf[v5[1]][r] = x => v12'[x] >= v12[x] + 1
  PROVE \E c : Sent(c)
<1> DEFINE c == [kind |-> kind, of |-> v5, include |-> include, heard |-> FALSE,
                 looked |-> FALSE, left |-> Im!BuildCashflowImportRows(v5), n |-> v16 + 1]
<1>1. /\ ~v8 /\ v8' /\ v16' = v16 + 1 /\ v10' = v10 \cup {c}
      /\ UNCHANGED <<v11, v17, v14>> /\ v5 # None
  BY DEF Im!Sends, Im!Free, Im!HasPayload
<1>2. /\ DOMAIN c = Im!CallFields /\ c.kind = kind /\ c.of = v5 /\ c.include = include /\ ~c.heard
      /\ ~c.looked /\ c.left = Im!BuildCashflowImportRows(v5) /\ c.n = v16 + 1
  BY DEF Im!CallFields
<1> HIDE DEF c
<1>3. c.of \in Im!Texts BY <1>1, <1>2 DEF Im!FileInv
<1>4. c.left \subseteq impRowNumbers BY <1>2 DEF Im!BuildCashflowImportRows
<1>5. ~v14 => \A x \in impRecords : Im!Pends(c, x) => v12'[x] >= v12[x] + 1 BY <1>2 DEF Im!Pends, Im!Says
<1>6. Sent(c) BY <1>1, <1>2, <1>3, <1>4, <1>5 DEF Sent
<1> QED BY <1>6

(* Both buttons send one call. *)
LEMMA ImportSendsAre ==
  ASSUME Im!ImportAssumption, Im!FileInv, Im!DueInv, Im!DoImportCSV \/ Im!PreviewImportCSV
  PROVE \E c : Sent(c)
<1>0. v12 \in [impRecords -> Nat] BY DEF Im!DueInv
<1>1. CASE Im!PreviewImportCSV
  <2>1. Im!Sends("preview", {}) /\ v12' = v12 BY <1>1 DEF Im!PreviewImportCSV
  <2>2. v12' \in [impRecords -> Nat] /\ \A x \in impRecords : v12'[x] >= v12[x] BY <1>0, <2>1
  <2> QED BY <2>1, <2>2, SentIs
<1>2. CASE Im!DoImportCSV
  <2>1. Im!Sends(v1, Im!Included) BY <1>2 DEF Im!DoImportCSV
  <2>2. \A x \in impRecords : v12'[x] = IF Im!Wanted(x) THEN v12[x] + 1 ELSE v12[x] BY <1>2 DEF Im!DoImportCSV
  <2>3. v12' \in [impRecords -> Nat]
    <3>1. v12' = [x \in impRecords |-> IF Im!Wanted(x) THEN v12[x] + 1 ELSE v12[x]] BY <1>2 DEF Im!DoImportCSV
    <3> QED BY <1>0, <3>1
  <2>4. \A x \in impRecords : v12'[x] >= v12[x] BY <1>0, <2>2
  <2>5. ASSUME v1 = "assets", ~v14, NEW x \in impRecords, NEW r \in Im!Included,
               impRowsOf[v5[1]][r] = x
        PROVE v12'[x] >= v12[x] + 1
    <3>1. v7 # None /\ r \in v7.include BY <2>5 DEF Im!Included
    <3>2. v7.of = v5 BY <2>5, <3>1 DEF Im!FileInv
    <3>3. Im!Wanted(x) BY <2>5, <3>1, <3>2 DEF Im!Wanted
    <3> QED BY <1>0, <2>2, <3>3
  <2>6. v1 = "cashflow" => Im!Included = {} BY DEF Im!Included
  <2> QED BY <2>1, <2>3, <2>4, <2>5, <2>6, SentIs
<1> QED BY <1>1, <1>2

(* An answer changes nothing of what a call looked for. *)
LEMMA ImportAnswersAre ==
  ASSUME Im!CallInv, NEW c \in v10,
         Im!HearPreview(c) \/ Im!HearImport(c) \/ Im!HearNoPreview(c) \/ Im!HearLost(c)
  PROVE \E D : Waits(c, D)
<1>0. DOMAIN c = Im!CallFields /\ (c.kind = "preview" => ~c.heard) BY DEF Im!CallInv
<1>1. CASE Im!HearPreview(c)
  <2>1. Waits(c, {}) BY <1>0, <1>1 DEF Im!HearPreview, GoesOn, Waits, Im!serverVars
  <2> QED BY <2>1
<1>2. CASE Im!HearImport(c)
  <2>1. Waits(c, {}) BY <1>0, <1>2 DEF Im!HearImport, GoesOn, Waits, Im!serverVars
  <2> QED BY <2>1
<1>3. CASE Im!HearNoPreview(c)
  <2>1. Waits(c, {}) BY <1>0, <1>3 DEF Im!HearNoPreview, GoesOn, Waits, Im!serverVars
  <2> QED BY <2>1
<1>4. CASE Im!HearLost(c)
  <2> DEFINE d == [c EXCEPT !.heard = TRUE]
  <2>1. /\ DOMAIN d = Im!CallFields /\ d.kind = c.kind /\ d.of = c.of /\ d.include = c.include
        /\ d.n = c.n /\ d.left = c.left /\ d.looked = c.looked /\ d.heard
    BY <1>0 DEF Im!CallFields
  <2>2. v10' = (v10 \ {c}) \cup IF c.left = {} THEN {} ELSE {d} BY <1>4 DEF Im!HearLost, Im!Heard
  <2> HIDE DEF d
  <2>3. /\ c.kind # "preview" /\ ~c.heard /\ v16' = v16 /\ v11' = v11 /\ v12' = v12
        /\ v14' = v14 /\ v17' = v17
    BY <1>4 DEF Im!HearLost, Im!serverVars
  <2>4. \A t, x : Im!Unasked(d, t, x) => Im!Unasked(c, t, x) BY <2>1 DEF Im!Unasked, Im!Turn, Im!Says
  <2>5. \E D \in {{}, {d}} : v10' = (v10 \ {c}) \cup D BY <2>2
  <2>6. \A D \in {{}, {d}} : v10' = (v10 \ {c}) \cup D => GoesOn(c, D) BY <2>1, <2>3 DEF GoesOn
  <2> QED BY <2>3, <2>4, <2>5, <2>6 DEF Waits
<1> QED BY <1>1, <1>2, <1>3, <1>4

(* At the server a call goes on with rows left, or leaves. *)
LEMMA GoesIs ==
  ASSUME Im!CallInv, NEW c \in v10, c.kind # "preview", NEW left, left \subseteq c.left,
         NEW looked \in BOOLEAN, Im!Goes(c, left, looked), Im!ServerOnly, v17 \subseteq v17'
  PROVE \E D : GoesOn(c, D) /\ \A d \in D : d.left = left /\ d.looked = looked
<1> DEFINE d == [c EXCEPT !.left = left, !.looked = looked]
<1>1. DOMAIN c = Im!CallFields BY DEF Im!CallInv
<1>2. /\ DOMAIN d = Im!CallFields /\ d.kind = c.kind /\ d.of = c.of /\ d.include = c.include
      /\ d.n = c.n /\ d.left = left /\ d.looked = looked /\ d.heard = c.heard
  BY <1>1 DEF Im!CallFields
<1>3. v10' = (v10 \ {c}) \cup (IF c.heard /\ left = {} THEN {} ELSE {d}) BY DEF Im!Goes
<1> HIDE DEF d
<1>4. /\ v16' = v16 /\ v12' = v12 /\ v14' = v14 /\ v8' = v8
  BY DEF Im!ServerOnly
<1>5. \E D \in {{}, {d}} : v10' = (v10 \ {c}) \cup D BY <1>3
<1>6. \A D \in {{}, {d}} : v10' = (v10 \ {c}) \cup D =>
        GoesOn(c, D) /\ \A e \in D : e.left = left /\ e.looked = looked
  BY <1>2, <1>4 DEF GoesOn
<1> QED BY <1>5, <1>6

(* The transaction of a cash flow file begins by looking for its rows. *)
LEMMA ExpensesSought ==
  ASSUME Im!CallInv, Im!DueInv, NEW c \in v10, Im!LookForExpenses(c)
  PROVE \E D : Waits(c, D)
<1> DEFINE new == {r \in c.left : ~Im!Has("cashflow", Im!Says(c, r))}
<1>1. /\ c.kind = "cashflow" /\ Im!Goes(c, new, TRUE) /\ v17' = v17 \cup Im!Races(c, "cashflow", new)
      /\ v11' = v11 /\ Im!ServerOnly
  BY DEF Im!LookForExpenses
<1>2. PICK D : GoesOn(c, D) /\ \A d \in D : d.left = new /\ d.looked BY <1>1, GoesIs
<1>3. \A r \in new : r \in c.left /\ ~Im!Has("cashflow", Im!Says(c, r)) OBVIOUS
<1> HIDE DEF new
<1>4. ASSUME NEW d \in D, NEW t \in Im!Types, NEW x \in impRecords, Im!Unasked(d, t, x)
      PROVE <<t, x>> \in v17' \/ (~Im!Has(t, x) /\ \A e \in v10 : ~Im!Unasked(e, t, x))
  <2>1. t = "cashflow" /\ \E r \in new : Im!Says(c, r) = x
    BY <1>1, <1>2, <1>4 DEF Im!Unasked, Im!Turn, Im!Says, GoesOn
  <2>2. ~Im!Has(t, x) BY <1>3, <2>1
  <2>3. ASSUME NEW e \in v10, Im!Unasked(e, t, x) PROVE <<t, x>> \in v17'
    BY <1>1, <2>1, <2>3 DEF Im!Races
  <2> QED BY <2>2, <2>3
<1> QED BY <1>1, <1>2, <1>4 DEF Waits

(* A transaction of an asset is looked for; one that is there, and was not *)
(* ticked, is skipped. *)
LEMMA AssetSought ==
  ASSUME Im!ImportAssumption, Im!CallInv, Im!DueInv, NEW c \in v10, NEW r \in c.left, Im!LookForAsset(c, r)
  PROVE \E D : Waits(c, D)
<1>1. c.kind = "assets" /\ r \in Im!Turn(c) /\ v11' = v11 /\ Im!ServerOnly BY DEF Im!LookForAsset
<1>2. CASE Im!Has("assets", Im!Says(c, r)) /\ r \notin c.include
  <2>1. Im!Goes(c, c.left \ {r}, FALSE) /\ v17' = v17 BY <1>2 DEF Im!LookForAsset
  <2>2. PICK D : GoesOn(c, D) /\ \A d \in D : ~d.looked BY <1>1, <2>1, GoesIs
  <2>3. \A d \in D : \A t, x : ~Im!Unasked(d, t, x) BY <2>2 DEF Im!Unasked
  <2> QED BY <1>1, <2>2, <2>3 DEF Waits
<1>3. CASE ~(Im!Has("assets", Im!Says(c, r)) /\ r \notin c.include)
  <2>1. Im!Goes(c, c.left, TRUE) /\ v17' = v17 \cup Im!Races(c, "assets", {r} \ c.include)
    BY <1>3 DEF Im!LookForAsset
  <2>2. PICK D : GoesOn(c, D) /\ \A d \in D : d.left = c.left /\ d.looked BY <1>1, <2>1, GoesIs
  <2>3. ASSUME NEW d \in D, NEW t \in Im!Types, NEW x \in impRecords, Im!Unasked(d, t, x)
        PROVE <<t, x>> \in v17' \/ (~Im!Has(t, x) /\ \A e \in v10 : ~Im!Unasked(e, t, x))
    <3>1. /\ t = "assets" /\ d.kind = c.kind /\ d.of = c.of /\ d.left = c.left /\ d.include = c.include
      BY <1>1, <2>2, <2>3 DEF Im!Unasked, GoesOn
    <3>2. PICK s \in Im!Turn(d) \ d.include : Im!Says(d, s) = x BY <2>3 DEF Im!Unasked
    <3>3. s \in Im!Turn(c) \ c.include /\ Im!Says(c, s) = x BY <3>1, <3>2 DEF Im!Turn, Im!Says
    <3>4. s = r BY <1>1, <3>3, TurnIs DEF Im!CallInv
    <3>5. ~Im!Has(t, x) BY <1>3, <3>1, <3>3, <3>4
    <3>6. ASSUME NEW e \in v10, Im!Unasked(e, t, x) PROVE <<t, x>> \in v17'
      BY <2>1, <3>1, <3>3, <3>4, <3>6 DEF Im!Races
    <3> QED BY <3>5, <3>6
  <2> QED BY <1>1, <2>2, <2>3 DEF Waits
<1> QED BY <1>2, <1>3

(* Every step is one of these. *)
LEMMA ImportNextIs ==
  ASSUME Im!ImportAssumption, Im!FileInv, Im!CallInv, Im!DueInv, Im!Next
  PROVE \/ Chosen
        \/ \E c : Sent(c)
        \/ \E c \in v10 : \E D : Waits(c, D)
        \/ \E c \in v10 : Im!ImportExpenses(c)
        \/ \E c \in v10 : \E r \in c.left : Im!ImportAsset(c, r)
<1>1. CASE \E f \in impFiles : Im!HandleCSVUpload(f)
  BY <1>1 DEF Im!HandleCSVUpload, Chosen, Im!callVars, Im!serverVars
<1>2. CASE Im!RefuseUpload BY <1>2 DEF Im!RefuseUpload, Chosen, Im!callVars, Im!serverVars
<1>3. CASE \E p \in Im!Separators : Im!HandleCsvSepChange(p)
  BY <1>3 DEF Im!HandleCsvSepChange, Chosen, Im!callVars, Im!serverVars
<1>4. CASE \E t \in Im!Types : Im!SetCsvImportType(t)
  BY <1>4 DEF Im!SetCsvImportType, Chosen, Im!callVars, Im!serverVars
<1>5. CASE \E r \in v6 : Im!HearRead(r) \/ Im!NotRead(r)
  BY <1>5 DEF Im!HearRead, Im!NotRead, Chosen, Im!callVars, Im!serverVars
<1>6. CASE \E m \in BOOLEAN : Im!SetCsvMap(m) BY <1>6 DEF Im!SetCsvMap, Chosen, Im!callVars, Im!serverVars
<1>7. CASE \E rows \in SUBSET v7.rows : Im!SetDuplicateRows(rows)
  BY <1>7 DEF Im!SetDuplicateRows, Chosen, Im!callVars, Im!serverVars
<1>8. CASE Im!DoImportCSV \/ Im!PreviewImportCSV BY <1>8, ImportSendsAre
<1>9. ASSUME NEW c \in v10, Im!HearPreview(c) \/ Im!HearImport(c) \/ Im!HearNoPreview(c) \/ Im!HearLost(c)
      PROVE \E D : Waits(c, D)
  BY <1>9, ImportAnswersAre
<1>10. ASSUME NEW c \in v10, Im!LookForExpenses(c) PROVE \E D : Waits(c, D) BY <1>10, ExpensesSought
<1>11. ASSUME NEW c \in v10, NEW r \in c.left, Im!LookForAsset(c, r) PROVE \E D : Waits(c, D)
  BY <1>11, AssetSought
<1> QED BY <1>1, <1>2, <1>3, <1>4, <1>5, <1>6, <1>7, <1>8, <1>9, <1>10, <1>11 DEF Im!Next

(* A preview that is not of the rows at hand came late. *)
LEMMA FileKept ==
  ASSUME Im!ImportAssumption, Im!FileInv, Im!CallInv, Im!Next
  PROVE Im!FileInv'
<1> USE DEF Im!FileInv
<1>1. ASSUME NEW f \in impFiles, Im!HandleCSVUpload(f) PROVE Im!FileInv'
  <2>1. <<f, v3>> \in Im!Texts BY DEF Im!Texts
  <2> QED BY <1>1, <2>1 DEF Im!HandleCSVUpload, Im!NoPreview, Im!ReadCsv
<1>2. CASE Im!RefuseUpload BY <1>2 DEF Im!RefuseUpload, Im!fileVars
<1>3. ASSUME NEW p \in Im!Separators, Im!HandleCsvSepChange(p) PROVE Im!FileInv'
  <2>1. v2 # None => <<v2, p>> \in Im!Texts BY DEF Im!Texts
  <2>2. \A r \in v6' : r.text \in Im!Texts BY <1>3, <2>1 DEF Im!HandleCsvSepChange, Im!ReadAgain, Im!ReadCsv
  <2> QED BY <1>3, <2>2 DEF Im!HandleCsvSepChange
<1>4. ASSUME NEW t \in Im!Types, Im!SetCsvImportType(t) PROVE Im!FileInv' BY <1>4 DEF Im!SetCsvImportType
<1>5. ASSUME NEW r \in v6, Im!HearRead(r) \/ Im!NotRead(r) PROVE Im!FileInv'
  <2>1. v7 # None => v14 BY <1>5
  <2> QED BY <1>5, <2>1 DEF Im!HearRead, Im!NotRead
<1>6. ASSUME NEW m \in BOOLEAN, Im!SetCsvMap(m) PROVE Im!FileInv' BY <1>6 DEF Im!SetCsvMap
<1>7. ASSUME v7 # None, NEW rows \in SUBSET v7.rows, Im!SetDuplicateRows(rows)
      PROVE Im!FileInv'
  <2> DEFINE p == [v7 EXCEPT !.include = rows]
  <2>1. /\ DOMAIN p = Im!PreviewFields /\ p.of = v7.of /\ p.rows = v7.rows
        /\ p.include = rows
    BY <1>7 DEF Im!PreviewFields
  <2>2. v7' = p BY <1>7 DEF Im!SetDuplicateRows
  <2> HIDE DEF p
  <2> QED BY <1>7, <2>1, <2>2 DEF Im!SetDuplicateRows, Im!fileVars
<1>8. CASE Im!DoImportCSV \/ Im!PreviewImportCSV BY <1>8 DEF Im!DoImportCSV, Im!PreviewImportCSV, Im!Sends, Im!fileVars
<1>9. ASSUME NEW c \in v10, Im!HearPreview(c) PROVE Im!FileInv'
  <2> DEFINE has == {r \in c.left : v11["assets"][impRowsOf[c.of[1]][r]] > 0}
             p == [of |-> c.of, rows |-> has, include |-> {}]
  <2>1. c.of \in Im!Texts /\ c.left \subseteq impRowNumbers BY DEF Im!CallInv
  <2>2. DOMAIN p = Im!PreviewFields /\ p.of = c.of /\ p.rows = has /\ p.include = {} BY DEF Im!PreviewFields
  <2>3. v7' = p BY <1>9 DEF Im!HearPreview
  <2>4. has \subseteq impRowNumbers BY <2>1
  <2> HIDE DEF p, has
  <2> QED BY <1>9, <2>1, <2>2, <2>3, <2>4 DEF Im!HearPreview, Im!fileVars
<1>10. ASSUME NEW c \in v10, Im!HearNoPreview(c) PROVE Im!FileInv' BY <1>10 DEF Im!HearNoPreview, Im!fileVars
<1>11. ASSUME NEW c \in v10, Im!HearImport(c) \/ Im!HearLost(c) PROVE Im!FileInv'
  BY <1>11 DEF Im!HearImport, Im!HearLost, Im!fileVars
<1>12. ASSUME NEW c \in v10, Im!LookForExpenses(c) \/ Im!ImportExpenses(c) PROVE Im!FileInv'
  BY <1>12 DEF Im!LookForExpenses, Im!ImportExpenses, Im!ServerOnly, Im!fileVars
<1>13. ASSUME NEW c \in v10, NEW r \in c.left, Im!LookForAsset(c, r) \/ Im!ImportAsset(c, r) PROVE Im!FileInv'
  BY <1>13 DEF Im!LookForAsset, Im!ImportAsset, Im!ServerOnly, Im!fileVars
<1> QED
  BY <1>1, <1>2, <1>3, <1>4, <1>5, <1>6, <1>7, <1>8, <1>9, <1>10, <1>11, <1>12, <1>13 DEF Im!Next

(* What is sent is numbered anew, and is the only one awaited. *)
LEMMA CallsSent ==
  ASSUME Im!CallInv, Im!OneImportAtATime, NEW c, Sent(c)
  PROVE Im!CallInv' /\ Im!OneImportAtATime'
<1>1. /\ v10' = v10 \cup {c} /\ v16 \in Nat /\ v16' = v16 + 1 /\ c.n = v16 + 1 /\ v8'
      /\ DOMAIN c = Im!CallFields /\ c.of \in Im!Texts /\ c.left \subseteq impRowNumbers /\ ~c.heard
      /\ (c.kind = "cashflow" => c.include = {})
  BY DEF Sent, Im!CallInv
<1>2. \A d \in v10 : d.heard /\ d.n \in 1..v16 BY DEF Sent, Im!CallInv
<1>3. \A d \in v10 : d.n # c.n /\ d.n \in 1..(v16 + 1) BY <1>1, <1>2
<1>4. c.n \in 1..(v16 + 1) BY <1>1
<1>5. \A d \in v10' : /\ DOMAIN d = Im!CallFields /\ d.of \in Im!Texts /\ d.left \subseteq impRowNumbers
                      /\ d.n \in 1..v16' /\ (d.kind = "preview" => ~d.heard)
                      /\ (d.kind = "cashflow" => d.include = {})
  BY <1>1, <1>3, <1>4 DEF Im!CallInv
<1>6. \A d, e \in v10' : d.n = e.n => d = e BY <1>1, <1>3 DEF Im!CallInv
<1>7. Im!OneImportAtATime' BY <1>1, <1>2 DEF Im!OneImportAtATime
<1>8. v16' \in Nat BY <1>1
<1> QED BY <1>1, <1>5, <1>6, <1>7, <1>8 DEF Im!CallInv

(* What goes on keeps its number. *)
LEMMA CallsGo ==
  ASSUME Im!CallInv, Im!OneImportAtATime, NEW c, NEW D, GoesOn(c, D)
  PROVE Im!CallInv' /\ Im!OneImportAtATime'
<1>1. c \in v10 /\ v10' = (v10 \ {c}) \cup D /\ v16' = v16 /\ \A d, e \in D : d = e BY DEF GoesOn
<1>2. \A d \in D : /\ DOMAIN d = Im!CallFields /\ d.kind = c.kind /\ d.of = c.of
                   /\ d.n = c.n /\ d.left \subseteq c.left /\ d.include = c.include
                   /\ d.kind = "preview" => ~d.heard
  BY DEF GoesOn
<1>3. \A d \in v10' : /\ DOMAIN d = Im!CallFields /\ d.of \in Im!Texts /\ d.left \subseteq impRowNumbers
                      /\ d.n \in 1..v16' /\ (d.kind = "preview" => ~d.heard)
                      /\ (d.kind = "cashflow" => d.include = {})
  BY <1>1, <1>2 DEF Im!CallInv
<1>4. \A d, e \in v10' : d.n = e.n => d = e BY <1>1, <1>2 DEF Im!CallInv
<1>5. v16' \in Nat BY <1>1 DEF Im!CallInv
<1>6. CASE v8' = v8 /\ \A d \in D : d.heard = c.heard
  <2>1. \A d \in v10' : ~d.heard => v8' BY <1>1, <1>6 DEF Im!CallInv
  <2>2. Im!OneImportAtATime' BY <1>1, <1>6 DEF Im!OneImportAtATime
  <2> QED BY <1>3, <1>4, <1>5, <2>1, <2>2 DEF Im!CallInv
<1>7. CASE ~c.heard /\ \A d \in D : d.heard
  <2>1. \A d \in v10' : d.heard BY <1>1, <1>7 DEF Im!OneImportAtATime
  <2>2. Im!OneImportAtATime' BY <2>1 DEF Im!OneImportAtATime
  <2> QED BY <1>3, <1>4, <1>5, <2>1, <2>2 DEF Im!CallInv
<1> QED BY <1>6, <1>7 DEF GoesOn

(* Only numbers of calls are counted. *)
LEMMA DueAreCalls ==
  ASSUME Im!CallInv, NEW x PROVE v16 \in Nat /\ Im!Due(x) \subseteq 1..v16
BY DEF Im!CallInv, Im!Due

(* What is due is due by a call. *)
LEMMA DueIs ==
  ASSUME NEW x
  PROVE /\ \A k : k \in Im!Due(x) <=> \E d \in v10 : Im!Pends(d, x) /\ k = d.n
        /\ \A k : k \in Im!Due(x)' <=> \E d \in v10' : Im!Pends(d, x) /\ k = d.n
BY DEF Im!Due, Im!Pends, Im!Says

(* The account of x after a step. *)
LEMMA CountedIs ==
  ASSUME NEW x
  PROVE Im!Counted(x)' <=>
          /\ Im!Cardinality(Im!Due(x)') <= v12'[x]
          /\ v11'["assets"][x] + Im!Cardinality(Im!Due(x)') <= 1 + v12'[x]
          /\ \A c, d \in v10' : Im!Unasked(c, "assets", x) /\ Im!Unasked(d, "assets", x) => c = d
          /\ \A c \in v10' : Im!Unasked(c, "assets", x) => v11'["assets"][x] + Im!Cardinality(Im!Due(x)') <= v12'[x]
<1>1. Im!Alone("assets", x)' <=>
        \A c, d \in v10' : Im!Unasked(c, "assets", x) /\ Im!Unasked(d, "assets", x) => c = d
  BY AloneIs
<1>2. \A c : Im!Unasked(c, "assets", x)' <=> Im!Unasked(c, "assets", x) BY DEF Im!Unasked, Im!Turn, Im!Says
<1> QED BY <1>1, <1>2 DEF Im!Counted

LEMMA OnceIs ==
  ASSUME NEW x
  PROVE Im!Once(x)' <=>
          /\ v11'["cashflow"][x] <= 1
          /\ \A c, d \in v10' : Im!Unasked(c, "cashflow", x) /\ Im!Unasked(d, "cashflow", x) => c = d
          /\ \A c \in v10' : Im!Unasked(c, "cashflow", x) => v11'["cashflow"][x] = 0
<1>1. Im!Alone("cashflow", x)' <=>
        \A c, d \in v10' : Im!Unasked(c, "cashflow", x) /\ Im!Unasked(d, "cashflow", x) => c = d
  BY AloneIs
<1>2. \A c : Im!Unasked(c, "cashflow", x)' <=> Im!Unasked(c, "cashflow", x) BY DEF Im!Unasked, Im!Turn, Im!Says
<1> QED BY <1>1, <1>2 DEF Im!Once

(* A call that is sent is due for what was ticked. *)
LEMMA DueSent ==
  ASSUME Im!CallInv, Im!DueInv, NEW c, Sent(c)
  PROVE Im!DueInv'
<1>1. /\ v10' = v10 \cup {c} /\ c.n = v16 + 1 /\ v11' = v11 /\ (v14' <=> v14)
      /\ v12' \in [impRecords -> Nat] /\ \A x \in impRecords : v12'[x] >= v12[x]
      /\ v17' = v17 /\ ~c.looked
  BY DEF Sent
<1>2. v11 \in [Im!Types -> [impRecords -> Nat]] /\ v12 \in [impRecords -> Nat] BY DEF Im!DueInv
<1>3. \A t, x : ~Im!Unasked(c, t, x) BY <1>1 DEF Im!Unasked
<1>4. ASSUME ~v14, NEW x \in impRecords, <<"assets", x>> \notin v17
      PROVE Im!Counted(x)'
  <2>1. Im!Counted(x) BY <1>4 DEF Im!DueInv
  <2>2. v16 \in Nat /\ Im!Due(x) \subseteq 1..v16 BY DueAreCalls
  <2>3. /\ Im!Cardinality(Im!Due(x)) \in Nat /\ v12[x] \in Nat /\ v12'[x] \in Nat /\ v12'[x] >= v12[x]
        /\ v11["assets"][x] \in Nat /\ v11' = v11
    BY <1>1, <1>2, <2>2, Numbers DEF Im!Types
  <2>4. /\ Im!Cardinality(Im!Due(x)') \in Nat
        /\ Im!Cardinality(Im!Due(x)') - v12'[x] <= Im!Cardinality(Im!Due(x)) - v12[x]
    <3>1. CASE Im!Pends(c, x)
      <4>1. Im!Due(x)' \subseteq Im!Due(x) \cup {v16 + 1} BY <1>1, DueIs
      <4>2. Im!Cardinality(Im!Due(x)') \in Nat /\ Im!Cardinality(Im!Due(x)') <= Im!Cardinality(Im!Due(x)) + 1
        BY <2>2, <4>1, Numbers
      <4>3. v12'[x] >= v12[x] + 1 BY <1>4, <3>1 DEF Sent
      <4> QED BY <2>3, <4>2, <4>3
    <3>2. CASE ~Im!Pends(c, x)
      <4>1. Im!Due(x)' \subseteq Im!Due(x) BY <1>1, <3>2, DueIs
      <4>2. Im!Cardinality(Im!Due(x)') \in Nat /\ Im!Cardinality(Im!Due(x)') <= Im!Cardinality(Im!Due(x))
        BY <2>2, <4>1, Numbers
      <4> QED BY <2>3, <4>2
    <3> QED BY <3>1, <3>2
  <2>5. /\ Im!Cardinality(Im!Due(x)') <= v12'[x]
        /\ v11["assets"][x] + Im!Cardinality(Im!Due(x)') <= 1 + v12'[x]
    BY <2>1, <2>3, <2>4 DEF Im!Counted
  <2>6. \A d, e \in v10' : Im!Unasked(d, "assets", x) /\ Im!Unasked(e, "assets", x) => d = e
    BY <1>1, <1>3, <2>1 DEF Im!Counted, Im!Alone
  <2>7. ASSUME NEW d \in v10', Im!Unasked(d, "assets", x)
        PROVE v11["assets"][x] + Im!Cardinality(Im!Due(x)') <= v12'[x]
    <3>1. d \in v10 BY <1>1, <1>3, <2>7
    <3>2. v11["assets"][x] + Im!Cardinality(Im!Due(x)) <= v12[x] BY <2>1, <2>7, <3>1 DEF Im!Counted
    <3> QED BY <2>3, <2>4, <3>2
  <2> QED BY <2>3, <2>5, <2>6, <2>7, CountedIs
<1>5. ASSUME NEW x \in impRecords, <<"cashflow", x>> \notin v17 PROVE Im!Once(x)'
  <2>1. Im!Once(x) BY <1>5 DEF Im!DueInv
  <2> QED BY <1>1, <1>3, <2>1, OnceIs DEF Im!Once, Im!Alone
<1> QED BY <1>1, <1>2, <1>4, <1>5 DEF Im!DueInv

(* A call that goes on is due for no more than before. *)
LEMMA DueLess ==
  ASSUME Im!CallInv, NEW c, NEW D, GoesOn(c, D), NEW x
  PROVE /\ Im!Due(x)' \subseteq Im!Due(x)
        /\ Im!Cardinality(Im!Due(x)) \in Nat /\ Im!Cardinality(Im!Due(x)') \in Nat
        /\ Im!Cardinality(Im!Due(x)') <= Im!Cardinality(Im!Due(x))
<1>1. c \in v10 /\ v10' = (v10 \ {c}) \cup D BY DEF GoesOn
<1>2. \A d \in D : d.kind = c.kind /\ d.of = c.of /\ d.include = c.include /\ d.n = c.n /\ d.left \subseteq c.left
  BY DEF GoesOn
<1>3. \A d \in D : Im!Pends(d, x) => Im!Pends(c, x) BY <1>2 DEF Im!Pends, Im!Says
<1>4. Im!Due(x)' \subseteq Im!Due(x) BY <1>1, <1>2, <1>3, DueIs
<1>5. v16 \in Nat /\ Im!Due(x) \subseteq 1..v16 BY DueAreCalls
<1> QED BY <1>4, <1>5, Numbers

(* With its row done, it is not due for what the row says. *)
LEMMA DueGone ==
  ASSUME Im!ImportAssumption, Im!CallInv, NEW c \in v10, NEW r \in c.left, NEW D, GoesOn(c, D),
         \A d \in D : d.left = c.left \ {r}, c.kind = "assets", r \in c.include
  PROVE c.n \in Im!Due(Im!Says(c, r)) /\ Im!Due(Im!Says(c, r))' \subseteq Im!Due(Im!Says(c, r)) \ {c.n}
<1> DEFINE x == Im!Says(c, r)
<1>1. c \in v10 /\ v10' = (v10 \ {c}) \cup D BY DEF GoesOn
<1>2. \A d \in D : d.kind = c.kind /\ d.of = c.of /\ d.include = c.include /\ d.n = c.n BY DEF GoesOn
<1>3. c.of \in Im!Texts /\ c.left \subseteq impRowNumbers BY DEF Im!CallInv
<1>4. \A s \in c.left : impRowsOf[c.of[1]][s] = x => s = r BY <1>3, RowsDiffer DEF Im!Says
<1>5. Im!Pends(c, x) BY DEF Im!Pends, Im!Says
<1>6. \A d \in D : ~Im!Pends(d, x) BY <1>2, <1>4 DEF Im!Pends, Im!Says
<1> HIDE DEF x
<1>7. c.n \in Im!Due(x) BY <1>5, DueIs
<1>8. \A k : k \in Im!Due(x)' => k \in Im!Due(x) /\ k # c.n
  <2> SUFFICES ASSUME NEW d \in v10', Im!Pends(d, x) PROVE d.n \in Im!Due(x) /\ d.n # c.n BY DueIs DEF x
  <2>1. d \in v10 /\ d # c BY <1>1, <1>6
  <2>2. d.n \in Im!Due(x) BY <2>1, DueIs
  <2> QED BY <2>1, <2>2 DEF Im!CallInv
<1> QED BY <1>7, <1>8 DEF x

(* While nothing is inserted, a call that looked for x in vain is the only *)
(* one, or there is a race. *)
LEMMA DueWaits ==
  ASSUME Im!CallInv, Im!DueInv, NEW c \in v10, NEW D, Waits(c, D)
  PROVE Im!DueInv'
<1>1. /\ GoesOn(c, D) /\ v10' = (v10 \ {c}) \cup D /\ v11' = v11 /\ v12' = v12
      /\ (v14 => v14') /\ v17 \subseteq v17' /\ \A d, e \in D : d = e
  BY DEF Waits, GoesOn
<1>2. v11 \in [Im!Types -> [impRecords -> Nat]] /\ v12 \in [impRecords -> Nat] BY DEF Im!DueInv
<1>3. ASSUME NEW t \in Im!Types, NEW x \in impRecords, <<t, x>> \notin v17', Im!Alone(t, x)
      PROVE \A d, e \in v10' : Im!Unasked(d, t, x) /\ Im!Unasked(e, t, x) => d = e
  <2>1. \A d \in D : Im!Unasked(d, t, x) => Im!Unasked(c, t, x) \/ \A e \in v10 : ~Im!Unasked(e, t, x)
    BY <1>3 DEF Waits
  <2> QED BY <1>1, <1>3, <2>1 DEF Im!Alone
<1>4. ASSUME NEW t \in Im!Types, NEW x \in impRecords, <<t, x>> \notin v17', NEW d \in v10', Im!Unasked(d, t, x)
      PROVE v11[t][x] = 0 \/ \E e \in v10 : Im!Unasked(e, t, x)
  <2>1. CASE d \in D
    <3>1. Im!Unasked(c, t, x) \/ ~Im!Has(t, x) BY <1>4, <2>1 DEF Waits
    <3>2. v11[t][x] \in Nat BY <1>2
    <3> QED BY <3>1, <3>2 DEF Im!Has
  <2>2. CASE d \notin D
    <3>1. d \in v10 BY <1>1, <1>4, <2>2
    <3> QED BY <1>4, <3>1
  <2> QED BY <2>1, <2>2
<1>5. ASSUME ~v14', NEW x \in impRecords, <<"assets", x>> \notin v17' PROVE Im!Counted(x)'
  <2>1. Im!Counted(x) BY <1>1, <1>5 DEF Im!DueInv
  <2>2. /\ Im!Cardinality(Im!Due(x)) \in Nat /\ Im!Cardinality(Im!Due(x)') \in Nat
        /\ Im!Cardinality(Im!Due(x)') <= Im!Cardinality(Im!Due(x))
    BY <1>1, DueLess
  <2>3. v12[x] \in Nat /\ v11["assets"][x] \in Nat /\ "assets" \in Im!Types BY <1>2 DEF Im!Types
  <2>4. \A d, e \in v10' : Im!Unasked(d, "assets", x) /\ Im!Unasked(e, "assets", x) => d = e
    BY <1>3, <1>5, <2>1, <2>3 DEF Im!Counted
  <2>5. /\ Im!Cardinality(Im!Due(x)) <= v12[x]
        /\ v11["assets"][x] + Im!Cardinality(Im!Due(x)) <= 1 + v12[x]
    BY <2>1 DEF Im!Counted
  <2>6. ASSUME NEW d \in v10', Im!Unasked(d, "assets", x)
        PROVE v11["assets"][x] + Im!Cardinality(Im!Due(x)) <= v12[x]
    <3>1. CASE v11["assets"][x] = 0 BY <2>2, <2>3, <2>5, <3>1
    <3>2. CASE \E e \in v10 : Im!Unasked(e, "assets", x) BY <2>1, <3>2 DEF Im!Counted
    <3> QED BY <1>4, <1>5, <2>3, <2>6, <3>1, <3>2
  <2>7. /\ Im!Cardinality(Im!Due(x)') <= v12[x]
        /\ v11["assets"][x] + Im!Cardinality(Im!Due(x)') <= 1 + v12[x]
    BY <2>2, <2>3, <2>5
  <2>8. ASSUME NEW d \in v10', Im!Unasked(d, "assets", x)
        PROVE v11["assets"][x] + Im!Cardinality(Im!Due(x)') <= v12[x]
    <3>1. v11["assets"][x] + Im!Cardinality(Im!Due(x)) <= v12[x] BY <2>6, <2>8
    <3> QED BY <2>2, <2>3, <3>1
  <2> QED BY <1>1, <2>4, <2>7, <2>8, CountedIs
<1>6. ASSUME NEW x \in impRecords, <<"cashflow", x>> \notin v17' PROVE Im!Once(x)'
  <2>1. Im!Once(x) /\ "cashflow" \in Im!Types BY <1>1, <1>6 DEF Im!DueInv, Im!Types
  <2>2. \A d, e \in v10' : Im!Unasked(d, "cashflow", x) /\ Im!Unasked(e, "cashflow", x) => d = e
    BY <1>3, <1>6, <2>1 DEF Im!Once
  <2>3. \A d \in v10' : Im!Unasked(d, "cashflow", x) => v11["cashflow"][x] = 0
    BY <1>4, <1>6, <2>1 DEF Im!Once
  <2> QED BY <1>1, <2>1, <2>2, <2>3, OnceIs DEF Im!Once
<1> QED BY <1>1, <1>2, <1>5, <1>6 DEF Im!DueInv

(* What a cash flow import did not find it inserts once. *)
LEMMA ExpensesDone ==
  ASSUME Im!CallInv, Im!DueInv, NEW c \in v10, Im!ImportExpenses(c)
  PROVE Im!DueInv' /\ \E D : GoesOn(c, D)
<1>0. /\ c.kind = "cashflow" /\ c.looked /\ Im!Goes(c, {}, TRUE) /\ v17' = v17 /\ Im!ServerOnly
  BY DEF Im!ImportExpenses
<1>1. PICK D : GoesOn(c, D) /\ \A d \in D : d.left = {} BY <1>0, GoesIs
<1>2. /\ v10' = (v10 \ {c}) \cup D /\ v12' = v12 /\ (v14 => v14')
  BY <1>1 DEF GoesOn
<1>3. v11 \in [Im!Types -> [impRecords -> Nat]] /\ v12 \in [impRecords -> Nat] BY DEF Im!DueInv
<1>4. \A d \in D : \A t, x : ~Im!Unasked(d, t, x) BY <1>1 DEF Im!Unasked, Im!Turn
<1> DEFINE b == [x \in impRecords |-> IF \E r \in c.left : Im!Says(c, r) = x
                                      THEN v11["cashflow"][x] + 1 ELSE v11["cashflow"][x]]
<1>5. b \in [impRecords -> Nat] BY <1>3 DEF Im!Types
<1>6. v11' = [v11 EXCEPT !["cashflow"] = b] BY DEF Im!ImportExpenses
<1>7. \A x \in impRecords : b[x] = IF \E r \in c.left : Im!Says(c, r) = x
                                   THEN v11["cashflow"][x] + 1 ELSE v11["cashflow"][x]
  OBVIOUS
<1> HIDE DEF b
<1>8. /\ v11' \in [Im!Types -> [impRecords -> Nat]] /\ v11'["assets"] = v11["assets"]
      /\ v11'["cashflow"] = b
  BY <1>3, <1>5, <1>6 DEF Im!Types
<1>9. ASSUME NEW x \in impRecords, <<"cashflow", x>> \notin v17 PROVE Im!Once(x)'
  <2>1. Im!Once(x) BY <1>9 DEF Im!DueInv
  <2>2. v11["cashflow"][x] \in Nat BY <1>3 DEF Im!Types
  <2>3. c.include = {} BY <1>0 DEF Im!CallInv
  <2>4. CASE \E r \in c.left : Im!Says(c, r) = x
    <3>1. Im!Unasked(c, "cashflow", x) BY <1>0, <2>3, <2>4 DEF Im!Unasked, Im!Turn
    <3>2. b[x] = 1 BY <1>7, <2>1, <2>2, <2>4, <3>1 DEF Im!Once
    <3>3. \A d \in v10' : ~Im!Unasked(d, "cashflow", x) BY <1>2, <1>4, <2>1, <3>1 DEF Im!Once, Im!Alone
    <3> QED BY <1>8, <3>2, <3>3, OnceIs
  <2>5. CASE ~\E r \in c.left : Im!Says(c, r) = x
    <3>1. b[x] = v11["cashflow"][x] BY <1>7, <2>5
    <3> QED BY <1>2, <1>4, <1>8, <2>1, <3>1, OnceIs DEF Im!Once, Im!Alone
  <2> QED BY <2>4, <2>5
<1>10. ASSUME ~v14', NEW x \in impRecords, <<"assets", x>> \notin v17 PROVE Im!Counted(x)'
  <2>1. Im!Counted(x) BY <1>2, <1>10 DEF Im!DueInv
  <2>2. /\ Im!Cardinality(Im!Due(x)) \in Nat /\ Im!Cardinality(Im!Due(x)') \in Nat
        /\ Im!Cardinality(Im!Due(x)') <= Im!Cardinality(Im!Due(x))
    BY <1>1, DueLess
  <2>3. v12[x] \in Nat /\ v11["assets"][x] \in Nat BY <1>3 DEF Im!Types
  <2>4. \A d, e \in v10' : Im!Unasked(d, "assets", x) /\ Im!Unasked(e, "assets", x) => d = e
    BY <1>2, <1>4, <2>1 DEF Im!Counted, Im!Alone
  <2>5. /\ Im!Cardinality(Im!Due(x)') <= v12[x]
        /\ v11["assets"][x] + Im!Cardinality(Im!Due(x)') <= 1 + v12[x]
    BY <2>1, <2>2, <2>3 DEF Im!Counted
  <2>6. ASSUME NEW d \in v10', Im!Unasked(d, "assets", x)
        PROVE v11["assets"][x] + Im!Cardinality(Im!Due(x)') <= v12[x]
    <3>1. d \in v10 BY <1>2, <1>4, <2>6
    <3>2. v11["assets"][x] + Im!Cardinality(Im!Due(x)) <= v12[x] BY <2>1, <2>6, <3>1 DEF Im!Counted
    <3> QED BY <2>2, <2>3, <3>2
  <2> QED BY <1>2, <1>8, <2>4, <2>5, <2>6, CountedIs
<1>11. Im!DueInv' BY <1>0, <1>2, <1>3, <1>8, <1>9, <1>10 DEF Im!DueInv
<1> QED BY <1>1, <1>11

(* One more at the server is one less due, or the first. *)
LEMMA AssetDone ==
  ASSUME Im!ImportAssumption, Im!CallInv, Im!DueInv, NEW c \in v10, NEW r \in c.left, Im!ImportAsset(c, r)
  PROVE Im!DueInv' /\ \E D : GoesOn(c, D)
<1> DEFINE y == Im!Says(c, r)
<1>0. /\ c.kind = "assets" /\ c.looked /\ r \in Im!Turn(c) /\ Im!Goes(c, c.left \ {r}, FALSE)
      /\ v17' = v17 /\ Im!ServerOnly
  BY DEF Im!ImportAsset
<1>1. PICK D : GoesOn(c, D) /\ \A d \in D : d.left = c.left \ {r} /\ ~d.looked BY <1>0, GoesIs
<1>2. v10' = (v10 \ {c}) \cup D /\ v12' = v12 /\ (v14 => v14') BY <1>1 DEF GoesOn
<1>3. v11 \in [Im!Types -> [impRecords -> Nat]] /\ v12 \in [impRecords -> Nat] BY DEF Im!DueInv
<1>4. \A d \in D : \A t, x : ~Im!Unasked(d, t, x) BY <1>1 DEF Im!Unasked
<1>5. y \in impRecords BY RowsDiffer DEF Im!CallInv, Im!Says
<1> DEFINE a == [v11["assets"] EXCEPT ![y] = v11["assets"][y] + 1]
<1>6. /\ a \in [impRecords -> Nat] /\ a[y] = v11["assets"][y] + 1
      /\ \A x \in impRecords : x # y => a[x] = v11["assets"][x]
  BY <1>3, <1>5 DEF Im!Types
<1>7. v11' = [v11 EXCEPT !["assets"] = a] BY DEF Im!ImportAsset
<1> HIDE DEF a
<1>8. /\ v11' \in [Im!Types -> [impRecords -> Nat]] /\ v11'["assets"] = a
      /\ v11'["cashflow"] = v11["cashflow"]
  BY <1>3, <1>6, <1>7 DEF Im!Types
<1>9. r \in c.include => c.n \in Im!Due(y) /\ Im!Due(y)' \subseteq Im!Due(y) \ {c.n} BY <1>0, <1>1, DueGone
<1>10. r \notin c.include => Im!Unasked(c, "assets", y) BY <1>0 DEF Im!Unasked
<1> HIDE DEF y
<1>11. ASSUME ~v14', NEW x \in impRecords, <<"assets", x>> \notin v17 PROVE Im!Counted(x)'
  <2>1. Im!Counted(x) BY <1>2, <1>11 DEF Im!DueInv
  <2>2. /\ Im!Due(x)' \subseteq Im!Due(x)
        /\ Im!Cardinality(Im!Due(x)) \in Nat /\ Im!Cardinality(Im!Due(x)') \in Nat
        /\ Im!Cardinality(Im!Due(x)') <= Im!Cardinality(Im!Due(x))
    BY <1>1, DueLess
  <2>3. v12[x] \in Nat /\ v11["assets"][x] \in Nat /\ a[x] \in Nat BY <1>3, <1>6 DEF Im!Types
  <2>4. \A d, e \in v10' : Im!Unasked(d, "assets", x) /\ Im!Unasked(e, "assets", x) => d = e
    BY <1>2, <1>4, <2>1 DEF Im!Counted, Im!Alone
  <2>5. Im!Cardinality(Im!Due(x)') <= v12[x] BY <2>1, <2>2, <2>3 DEF Im!Counted
  <2>6. /\ a[x] + Im!Cardinality(Im!Due(x)') <= 1 + v12[x]
        /\ \A d \in v10' : Im!Unasked(d, "assets", x) => a[x] + Im!Cardinality(Im!Due(x)') <= v12[x]
    <3>1. CASE x = y /\ r \notin c.include
      <4>1. v11["assets"][x] + Im!Cardinality(Im!Due(x)) <= v12[x] BY <1>10, <2>1, <3>1 DEF Im!Counted
      <4>2. \A d \in v10' : ~Im!Unasked(d, "assets", x)
        BY <1>2, <1>4, <1>10, <2>1, <3>1 DEF Im!Counted, Im!Alone
      <4>3. a[x] = v11["assets"][x] + 1 BY <1>6, <3>1
      <4>4. a[x] + Im!Cardinality(Im!Due(x)') <= 1 + v12[x] BY <2>2, <2>3, <4>1, <4>3
      <4> QED BY <4>2, <4>4
    <3>2. CASE ~(x = y /\ r \notin c.include)
      <4>1. a[x] + Im!Cardinality(Im!Due(x)') <= v11["assets"][x] + Im!Cardinality(Im!Due(x))
        <5>1. CASE x = y
          <6>1. v16 \in Nat /\ Im!Due(x) \subseteq 1..v16 BY DueAreCalls
          <6>2. Im!Cardinality(Im!Due(x)') <= Im!Cardinality(Im!Due(x)) - 1 BY <1>9, <3>2, <5>1, <6>1, Numbers
          <6> QED BY <1>6, <2>2, <2>3, <5>1, <6>2
        <5>2. CASE x # y
          <6>1. a[x] = v11["assets"][x] BY <1>6, <5>2
          <6> QED BY <2>2, <2>3, <6>1
        <5> QED BY <5>1, <5>2
      <4>2. v11["assets"][x] + Im!Cardinality(Im!Due(x)) <= 1 + v12[x] BY <2>1 DEF Im!Counted
      <4>3. ASSUME NEW d \in v10', Im!Unasked(d, "assets", x)
            PROVE a[x] + Im!Cardinality(Im!Due(x)') <= v12[x]
        <5>1. d \in v10 BY <1>2, <1>4, <4>3
        <5>2. v11["assets"][x] + Im!Cardinality(Im!Due(x)) <= v12[x] BY <2>1, <4>3, <5>1 DEF Im!Counted
        <5> QED BY <2>2, <2>3, <4>1, <5>2
      <4> QED BY <2>2, <2>3, <4>1, <4>2, <4>3
    <3> QED BY <3>1, <3>2
  <2> QED BY <1>2, <1>8, <2>4, <2>5, <2>6, CountedIs
<1>12. ASSUME NEW x \in impRecords, <<"cashflow", x>> \notin v17 PROVE Im!Once(x)'
  <2>1. Im!Once(x) BY <1>12 DEF Im!DueInv
  <2> QED BY <1>2, <1>4, <1>8, <2>1, OnceIs DEF Im!Once, Im!Alone
<1>13. Im!DueInv' BY <1>0, <1>2, <1>3, <1>8, <1>11, <1>12 DEF Im!DueInv
<1> QED BY <1>1, <1>13

(* Nothing is chosen, sent or due at first. *)
LEMMA ImportInit ==
  ASSUME Im!ImportAssumption, Im!Init PROVE Im!IInv
<1>1. Im!FileInv
  <2>1. /\ v1 \in Im!Types /\ v2 = None /\ v3 = ";" /\ v5 = None /\ v6 = {}
        /\ v7 = None
    BY DEF Im!Init
  <2> QED BY <2>1 DEF Im!FileInv, Im!Separators
<1>2. v10 = {} /\ v16 = 0 /\ v12 = [x \in impRecords |-> 0] BY DEF Im!Init
<1>3. Im!CallInv /\ Im!OneImportAtATime BY <1>2 DEF Im!CallInv, Im!OneImportAtATime
<1>4. v11 \in [Im!Types -> [impRecords -> 0..1]] BY DEF Im!Init
<1>5. /\ v11 \in [Im!Types -> [impRecords -> Nat]] /\ v12 \in [impRecords -> Nat]
      /\ \A x \in impRecords : v12[x] = 0 /\ v11["cashflow"][x] \in 0..1 /\ v11["assets"][x] \in 0..1
  BY <1>2, <1>4 DEF Im!Types
<1>6. \A x \in impRecords : Im!Cardinality(Im!Due(x)) = 0
  <2>1. \A x \in impRecords : Im!Due(x) = {} BY <1>2 DEF Im!Due
  <2> QED BY <2>1, FS_EmptySet, ImportCardinality
<1>7. \A x \in impRecords : Im!Once(x) BY <1>2, <1>5 DEF Im!Once, Im!Alone
<1>8. \A x \in impRecords : Im!Counted(x) BY <1>2, <1>5, <1>6 DEF Im!Counted, Im!Alone
<1>9. Im!DueInv BY <1>5, <1>7, <1>8 DEF Im!DueInv
<1> QED BY <1>1, <1>3, <1>9 DEF Im!IInv

(* Nothing happens elsewhere. *)
LEMMA ImportStays ==
  ASSUME Im!IInv, UNCHANGED Im!vars PROVE Im!IInv'
<1> USE DEF Im!vars, Im!fileVars, Im!callVars, Im!serverVars
<1>1. Im!FileInv' BY DEF Im!IInv, Im!FileInv
<1>2. Im!CallInv' BY DEF Im!IInv, Im!CallInv
<1>3. Im!OneImportAtATime' BY DEF Im!IInv, Im!OneImportAtATime
<1>4. Im!DueInv'
  <2>1. Im!DueInv BY DEF Im!IInv
  <2> QED BY <2>1 DEF Im!DueInv, Im!Once, Im!Counted, Im!Alone, Im!Unasked, Im!Turn, Im!Says, Im!Due, Im!Pends
<1> QED BY <1>1, <1>2, <1>3, <1>4 DEF Im!IInv

(* Every step keeps the account of what was asked for. *)
LEMMA ImportStep ==
  ASSUME Im!ImportAssumption, Im!IInv, Im!Next PROVE Im!IInv'
<1> USE DEF Im!IInv
<1>1. Im!FileInv' BY FileKept
<1>2. CASE Chosen
  <2>1. Im!CallInv' /\ Im!OneImportAtATime' BY <1>2 DEF Chosen, Im!CallInv, Im!OneImportAtATime
  <2>2. Im!DueInv'
    <3>1. Im!DueInv /\ UNCHANGED <<v10, v11, v12, v17, v14>> BY <1>2 DEF Chosen
    <3> QED BY <3>1 DEF Im!DueInv, Im!Once, Im!Counted, Im!Alone, Im!Unasked, Im!Turn, Im!Says, Im!Due, Im!Pends
  <2> QED BY <1>1, <2>1, <2>2
<1>3. ASSUME NEW c, Sent(c) PROVE Im!IInv' BY <1>1, <1>3, CallsSent, DueSent
<1>4. ASSUME NEW c \in v10, NEW D, Waits(c, D) PROVE Im!IInv'
  <2>1. Im!CallInv' /\ Im!OneImportAtATime' BY <1>4, CallsGo DEF Waits
  <2> QED BY <1>1, <1>4, <2>1, DueWaits
<1>5. ASSUME NEW c \in v10, Im!ImportExpenses(c) PROVE Im!IInv'
  <2>1. Im!DueInv' /\ \E D : GoesOn(c, D) BY <1>5, ExpensesDone
  <2> QED BY <1>1, <2>1, CallsGo
<1>6. ASSUME NEW c \in v10, NEW r \in c.left, Im!ImportAsset(c, r) PROVE Im!IInv'
  <2>1. Im!DueInv' /\ \E D : GoesOn(c, D) BY <1>6, AssetDone
  <2> QED BY <1>1, <2>1, CallsGo
<1> QED BY <1>2, <1>3, <1>4, <1>5, <1>6, ImportNextIs

(* What is not due is at the server once, or was asked for. *)
LEMMA ImportKeeps ==
  ASSUME Im!IInv PROVE Im!OneImportAtATime /\ Im!NothingTwiceUnasked
<1>1. ASSUME ~v14, NEW x \in impRecords, <<"assets", x>> \notin v17 PROVE v11["assets"][x] <= 1 + v12[x]
  <2>1. v11["assets"][x] + Im!Cardinality(Im!Due(x)) <= 1 + v12[x] BY <1>1 DEF Im!IInv, Im!DueInv, Im!Counted
  <2>2. v16 \in Nat /\ Im!Due(x) \subseteq 1..v16 BY DueAreCalls DEF Im!IInv
  <2>3. Im!Cardinality(Im!Due(x)) \in Nat BY <2>2, Numbers
  <2>4. v11["assets"][x] \in Nat /\ v12[x] \in Nat BY DEF Im!IInv, Im!DueInv, Im!Types
  <2> QED BY <2>1, <2>3, <2>4
<1>2. \A x \in impRecords : <<"cashflow", x>> \notin v17 => v11["cashflow"][x] <= 1
  BY DEF Im!IInv, Im!DueInv, Im!Once
<1> QED BY <1>1, <1>2 DEF Im!IInv, Im!NothingTwiceUnasked

(***************************************************************************)
(* The sections together                                                   *)
(***************************************************************************)
(* The invariants of the sections above. *)
DialogsInv ==
  /\ In("trade", Tr!IInv)
  /\ In("forms", Fo!IInv)
  /\ In("security", Se!IInv)
  /\ In("lists", Li!IInv)
  /\ In("import", Im!IInv)

(* A section starts with its invariant. *)
LEMMA DialogsInvInit ==
  DialogsInit \/ NoDialog => DialogsInv
<1>1. ASSUME DialogsInit, section = "trade" PROVE Tr!IInv
  BY <1>1, DialogsAssumption, TradeInit DEF DialogsInit, DialogsAssumption
<1>2. ASSUME DialogsInit, section = "forms" PROVE Fo!IInv
  BY <1>2, DialogsAssumption, FormsInit DEF DialogsInit, DialogsAssumption
<1>3. ASSUME DialogsInit, section = "security" PROVE Se!IInv
  BY <1>3, DialogsAssumption, SecurityInit DEF DialogsInit, DialogsAssumption
<1>4. ASSUME DialogsInit, section = "lists" PROVE Li!IInv
  BY <1>4, DialogsAssumption, ListsInit DEF DialogsInit, DialogsAssumption
<1>5. ASSUME DialogsInit, section = "import" PROVE Im!IInv
  BY <1>5, DialogsAssumption, ImportInit DEF DialogsInit, DialogsAssumption
<1> QED BY <1>1, <1>2, <1>3, <1>4, <1>5 DEF DialogsInv, In, DialogsInit, NoDialog, Dialogs

(* The section that runs keeps its invariant. *)
LEMMA DialogsInvStep ==
  DialogsInv /\ [DialogStep]_vars => DialogsInv'
<1> SUFFICES ASSUME DialogsInv, [DialogStep]_vars PROVE DialogsInv'
  OBVIOUS
<1>0. section' = section BY DEF DialogStep, DialogsNext, NoDialog, Dialogs, vars
<1>1. ASSUME section = "trade" PROVE Tr!IInv'
  <2>1. Tr!Next \/ UNCHANGED Tr!vars
    BY <1>1 DEF DialogStep, DialogsNext, NoDialog, Dialogs, vars, Tr!vars, Tr!Empty, Tr!Typed, Tr!OfSaved
  <2>2. Tr!IInv BY <1>1 DEF DialogsInv, In
  <2>3. CASE Tr!Next BY <2>2, <2>3, DialogsAssumption, TradeStep DEF DialogsAssumption
  <2>4. CASE UNCHANGED Tr!vars BY <2>2, <2>4, TradeStays
  <2> QED BY <2>1, <2>3, <2>4
<1>2. ASSUME section = "forms" PROVE Fo!IInv'
  <2>1. Fo!Next \/ UNCHANGED Fo!vars
    BY <1>2 DEF DialogStep, DialogsNext, NoDialog, Dialogs, vars, Fo!vars, Fo!screen, Fo!history
  <2>2. Fo!IInv BY <1>2 DEF DialogsInv, In
  <2>3. CASE Fo!Next BY <2>2, <2>3, DialogsAssumption, FormsStep DEF DialogsAssumption
  <2>4. CASE UNCHANGED Fo!vars BY <2>2, <2>4, FormsStays
  <2> QED BY <2>1, <2>3, <2>4
<1>3. ASSUME section = "security" PROVE Se!IInv'
  <2>1. Se!Next \/ UNCHANGED Se!vars
    BY <1>3 DEF DialogStep, DialogsNext, NoDialog, Dialogs, vars, Se!vars
  <2>2. Se!IInv BY <1>3 DEF DialogsInv, In
  <2>3. CASE Se!Next BY <2>2, <2>3, DialogsAssumption, SecurityStep DEF DialogsAssumption
  <2>4. CASE UNCHANGED Se!vars BY <2>2, <2>4, SecurityStays
  <2> QED BY <2>1, <2>3, <2>4
<1>4. ASSUME section = "lists" PROVE Li!IInv'
  <2>1. Li!Next \/ UNCHANGED Li!vars
    BY <1>4 DEF DialogStep, DialogsNext, NoDialog, Dialogs, vars, Li!vars, Li!form
  <2>2. Li!IInv BY <1>4 DEF DialogsInv, In
  <2>3. CASE Li!Next BY <2>2, <2>3, DialogsAssumption, ListsStep DEF DialogsAssumption
  <2>4. CASE UNCHANGED Li!vars BY <2>2, <2>4, ListsStays
  <2> QED BY <2>1, <2>3, <2>4
<1>5. ASSUME section = "import" PROVE Im!IInv'
  <2>1. Im!Next \/ UNCHANGED Im!vars
    BY <1>5 DEF DialogStep, DialogsNext, NoDialog, Dialogs, vars, Im!vars, Im!fileVars, Im!callVars, Im!serverVars, Im!Text
  <2>2. Im!IInv BY <1>5 DEF DialogsInv, In
  <2>3. CASE Im!Next BY <2>2, <2>3, DialogsAssumption, ImportStep DEF DialogsAssumption
  <2>4. CASE UNCHANGED Im!vars BY <2>2, <2>4, ImportStays
  <2> QED BY <2>1, <2>3, <2>4
<1> QED BY <1>0, <1>1, <1>2, <1>3, <1>4, <1>5 DEF DialogsInv, In

(* Each of these sections keeps its invariant, whatever the other sections *)
(* do.                                                                     *)
THEOREM DialogsInvAlways == DialogsSpec => []DialogsInv
<1> QED BY DialogsInvInit, DialogsInvStep, PTL DEF DialogsSpec

(* Nothing that exists only in the browser goes away unsaved, for every    *)
(* number of forms' rows, assets, tokens, requests and visits.             *)
THEOREM NothingLostAlways == DialogsSpec => []NothingLost
<1>1. DialogsInv => NothingLost
  BY SecurityKeeps DEF DialogsInv, NothingLost, In, Fo!IInv, Tr!IInv, Se!IInv
<1> QED BY <1>1, DialogsInvAlways, PTL

(* One form, one question or one click is at most one change on the        *)
(* server, for every number of rows, files, assets and requests.           *)
THEOREM DoneOnceAlways == DialogsSpec => []DoneOnce
<1>1. DialogsInv => DoneOnce
  BY SecurityKeeps, ImportKeeps DEF DialogsInv, DoneOnce, In, Fo!IInv, Tr!IInv, Li!IInv
<1> QED BY <1>1, DialogsInvAlways, PTL
=============================================================================
