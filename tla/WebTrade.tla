-------------------------------- MODULE WebTrade --------------------------------
(***************************************************************************)
(* The sheet that records a trade of an asset, and the small sheets of the *)
(* portfolio page.  The sheet fills three fields by itself: the price with *)
(* the quote of the day, asked from the server; the tax of a sale with an  *)
(* estimate; the cash moved with what the trade comes to.  A field that    *)
(* the user typed, or that a saved trade brought along, is "touched" and   *)
(* is filled no more.  A value is a sequence that says where it comes from.*)
(* Part "trade" is that sheet, part "sheets" the other ones.               *)
(***************************************************************************)
EXTENDS Naturals, FiniteSets

CONSTANTS
  Assets,
  WithTicker,   \* the assets that have a quote
  Dates,
  Saved,        \* trades already recorded: [asset, type, date, manual]
  MaxOpenings,  \* bound: how often a sheet is opened
  MaxTyped,     \* bound: how often the fields of a sheet are changed
  None

TradeAssumption ==
  /\ WithTicker \subseteq Assets /\ None \notin Assets /\ MaxOpenings \in Nat /\ MaxTyped \in Nat
  /\ Saved \subseteq [asset : Assets, type : {"buy", "sell"}, date : Dates, manual : BOOLEAN]

Empty == <<>>
Typed == <<"typed">>
OfSaved == <<"saved">>
Quote(a, d) == <<"quote", a, d>>

VARIABLES
  part,      \* which of the two parts runs
  form,      \* the trade sheet; None when it is closed
  touched,   \* the fields that are the user's: "price", "cash", "tax"
  asking,    \* lookups of a quote on their way: <<asset, date>>
  status,    \* what is said about the price: "idle", "loading", "unavailable"
  sheet,     \* part "sheets": [kind, asset], or None
  busy,      \* the button waits (and, for a trade, the lock is held)
  sent,      \* requests on their way: [n, of, at]
  openings, typed,
  made,      \* history: made[n], what the n-th opening put into the books
  unsure     \* history: the openings that did not hear whether it was

vars == <<part, form, touched, asking, status, sheet, busy, sent, openings, typed, made, unsure>>

Fields == {"price", "cash", "tax"}

TypeOK ==
  /\ part \in {"trade", "sheets"} /\ touched \subseteq Fields /\ asking \subseteq Assets \X Dates
  /\ status \in {"idle", "loading", "unavailable"} /\ (status = "loading") = (asking # {})
  /\ (form # None => form.asset \in Assets \cup {None} /\ form.date \in Dates)
  /\ (sheet # None => sheet.asset \in Assets) /\ busy \in BOOLEAN
  /\ openings \in 0..MaxOpenings /\ typed \in 0..MaxTyped
  /\ made \in [1..MaxOpenings -> Nat] /\ unsure \subseteq 1..MaxOpenings

Init ==
  /\ part \in {"trade", "sheets"} /\ form = None /\ touched = {} /\ asking = {} /\ status = "idle"
  /\ sheet = None /\ busy = FALSE /\ sent = {} /\ openings = 0 /\ typed = 0
  /\ made = [n \in 1..MaxOpenings |-> 0] /\ unsure = {}

(***************************************************************************)
(* What the sheet fills in by itself                                       *)
(***************************************************************************)
HasTotal(f) == f.shares > 0 /\ f.price # Empty
EstimateSellTax(f) ==
  IF f.type = "sell" /\ f.asset # None /\ HasTotal(f) THEN <<"est", f.asset, f.price>> ELSE Empty
Cash(f) ==
  IF HasTotal(f) THEN <<"sum", f.type, f.price, IF f.type = "sell" THEN f.tax ELSE Empty>> ELSE Empty

(* Mutant: the estimate is made whoever filled in the field. *)
EstimatesAlways(f, t) == f.type = "sell"

Estimates(f, t) == f.type = "sell" /\ "tax" \notin t

WithTax(f, t) == IF Estimates(f, t) THEN [f EXCEPT !.tax = EstimateSellTax(f)] ELSE f
WithCash(f, t) == IF "cash" \in t THEN f ELSE [f EXCEPT !.cash = Cash(f)]
Filled(f, t) == WithCash(WithTax(f, t), t)

(* Mutant: an older lookup goes on. *)
StillAsked == asking

(* The clean-up of the effect aborts the lookup. *)
Aborted == {}

LooksUp(f, t) == f # None /\ f.asset \in WithTicker /\ "price" \notin t /\ f.price = Empty
Depends(f, t) == IF f = None THEN Empty ELSE <<f.asset, f.date, f.price, "price" \in t>>

(* The effect runs again when what it depends on changed.                  *)
Lookup(f, t) ==
  IF Depends(f, t) = Depends(form, touched) THEN UNCHANGED <<asking, status>>
  ELSE IF LooksUp(f, t) THEN asking' = Aborted \cup {<<f.asset, f.date>>} /\ status' = "loading"
  ELSE asking' = Aborted /\ status' = "idle"

(***************************************************************************)
(* The sheet of a trade                                                    *)
(***************************************************************************)
Open(f, t) ==
  /\ part = "trade" /\ form = None /\ openings < MaxOpenings /\ openings' = openings + 1
  /\ form' = Filled(f, t) /\ touched' = t /\ typed' = 0 /\ Lookup(form', t)
  /\ UNCHANGED <<part, sheet, busy, sent, made, unsure>>

OpenAddTxModal ==
  \E d \in Dates :
    Open([asset |-> None, type |-> "buy", date |-> d, shares |-> 0, price |-> Empty, tax |-> Empty,
          cash |-> Empty, source |-> FALSE, edits |-> FALSE], {})

OpenEditTransaction(item) ==
  Open([asset |-> item.asset, type |-> item.type, date |-> item.date, shares |-> 1, price |-> OfSaved,
        tax |-> IF item.manual THEN OfSaved ELSE Empty, cash |-> OfSaved, source |-> FALSE,
        edits |-> TRUE],
       {"price", "cash"} \cup (IF item.manual THEN {"tax"} ELSE {}))

CloseAddModal ==
  /\ form # None /\ form' = None /\ touched' = {} /\ Lookup(None, {})
  /\ UNCHANGED <<part, sheet, busy, sent, openings, typed, made, unsure>>

Change(f, t) ==
  /\ typed < MaxTyped /\ typed' = typed + 1
  /\ form' = Filled(f, t) /\ touched' = t /\ Lookup(form', t)
  /\ UNCHANGED <<part, sheet, busy, sent, openings, made, unsure>>

PickAsset(a) ==
  /\ form # None /\ form.asset = None
  /\ Change([form EXCEPT !.asset = a, !.price = Empty, !.cash = Empty, !.source = FALSE],
            touched \ {"price", "cash"})
DropAsset ==
  /\ form # None /\ form.asset # None
  /\ Change([form EXCEPT !.asset = None, !.price = Empty, !.cash = Empty, !.source = FALSE],
            touched \ {"price", "cash"})

(* The fields are there once an asset is chosen.                           *)
Shown == form # None /\ form.asset # None

SetType(t) ==
  /\ Shown /\ t # form.type
  /\ Change([form EXCEPT !.type = t, !.source = (t = "buy" /\ @)], touched)

(* Mutant: the quote of the old date stays. *)
KeepsPrice(f) == f.price

NoPrice(f) == Empty

SetDate(d) ==
  /\ Shown /\ d # form.date
  /\ Change([form EXCEPT !.date = d, !.price = NoPrice(form)], touched \ {"price"})
SetShares(n) == Shown /\ n # form.shares /\ Change([form EXCEPT !.shares = n], touched)
TypePrice(v) == Shown /\ Change([form EXCEPT !.price = v], touched \cup {"price"})
TypeTax == Shown /\ form.type = "sell" /\ Change([form EXCEPT !.tax = Typed], touched \cup {"tax"})
TypeCash == Shown /\ HasTotal(form) /\ Change([form EXCEPT !.cash = Typed], touched \cup {"cash"})
SetSource == Shown /\ form.type = "buy" /\ Change([form EXCEPT !.source = ~@], touched)

HearQuote(q) ==
  /\ asking' = asking \ {q}
  /\ IF form.price = Empty
     THEN /\ form' = Filled([form EXCEPT !.price = Quote(q[1], q[2])], touched) /\ status' = "idle"
     ELSE UNCHANGED form /\ status' = "idle"
  /\ UNCHANGED <<part, touched, sheet, busy, sent, openings, typed, made, unsure>>
HearNoQuote(q) ==
  /\ asking' = asking \ {q} /\ status' \in {"unavailable", "idle"}
  /\ UNCHANGED <<part, form, touched, sheet, busy, sent, openings, typed, made, unsure>>

(***************************************************************************)
(* Recording the trade                                                     *)
(***************************************************************************)
BuildPortfolioTransactionPayload(f) == f.shares > 0 /\ f.price # Empty /\ f.cash # Empty

(* Mutant: the button waits for nothing. *)
FreeAnyTime == TRUE

(* The synchronous lock; the disabled button of the other sheets. *)
Free == ~busy

(* Bound: nobody tries a third time what was booked twice. *)
Again == made[openings] < 2

HandleAddTxSubmit ==
  /\ Shown /\ Free /\ Again /\ BuildPortfolioTransactionPayload(form)
  /\ busy' = TRUE
  /\ sent' = sent \cup {[n |-> openings, try |-> Cardinality(sent), kind |-> "trade", of |-> form.asset,
                         at |-> "server"]}
  /\ UNCHANGED <<part, form, touched, asking, status, sheet, openings, typed, made, unsure>>

Booked(s) == made' = [made EXCEPT ![s.n] = @ + 1]
Reading(s) == sent' = (sent \ {s}) \cup {[s EXCEPT !.at = "feed"]}

(* The answer closes the sheet that is open; the lock is held until the    *)
(* list has been read again.                                               *)
SubmitAddTxFromModal(s) ==
  /\ s.kind = "trade" /\ s.at = "server" /\ Booked(s) /\ Reading(s)
  /\ form' = None /\ touched' = {} /\ Lookup(None, {})
  /\ UNCHANGED <<part, sheet, busy, openings, typed, unsure>>

(* Mutant: the flag comes down after a success only. *)
StaysUp == busy

Down == FALSE

HearList(s) ==
  /\ s.at = "feed" /\ sent' = sent \ {s} /\ busy' = FALSE
  /\ UNCHANGED <<part, form, touched, asking, status, sheet, openings, typed, made, unsure>>

HearRefusal(s) ==
  /\ s.at = "server" /\ sent' = sent \ {s} /\ busy' = Down
  /\ UNCHANGED <<part, form, touched, asking, status, sheet, openings, typed, made, unsure>>
HearLost(s) ==
  /\ s.at = "server" /\ sent' = sent \ {s} /\ busy' = Down /\ Booked(s) /\ unsure' = unsure \cup {s.n}
  /\ UNCHANGED <<part, form, touched, asking, status, sheet, openings, typed>>

(***************************************************************************)
(* The other sheets: an asset realised at a price, a trade deleted, and an *)
(* asset that cannot be archived because something is left in it           *)
(***************************************************************************)
OpenSheet(k, a) ==
  /\ part = "sheets" /\ sheet = None /\ openings < MaxOpenings /\ openings' = openings + 1
  /\ sheet' = [kind |-> k, asset |-> a] /\ typed' = 0
  /\ UNCHANGED <<part, form, touched, asking, status, busy, sent, made, unsure>>
OpenRealizeAsset(a) == OpenSheet("realize", a)
SetTxDeleteConfirm(a) == OpenSheet("delete", a)
HandleArchiveInvestment(a) == OpenSheet("blocked", a)

CloseSheet ==
  /\ sheet # None /\ sheet' = None
  /\ UNCHANGED <<part, form, touched, asking, status, busy, sent, openings, typed, made, unsure>>

(* Price, account and fee: typed counts what is filled in. *)
SetRealizeForm ==
  /\ sheet # None /\ sheet.kind = "realize" /\ typed < MaxTyped /\ typed' = typed + 1
  /\ UNCHANGED <<part, form, touched, asking, status, sheet, busy, sent, openings, made, unsure>>

Ask == sent' = sent \cup {[n |-> openings, try |-> Cardinality(sent), kind |-> sheet.kind,
                           of |-> sheet.asset, at |-> "server"]}

SubmitRealizeAsset ==
  /\ sheet # None /\ sheet.kind = "realize" /\ typed > 0 /\ Free /\ Again /\ busy' = TRUE /\ Ask
  /\ UNCHANGED <<part, form, touched, asking, status, sheet, openings, typed, made, unsure>>
HearRealized(s) ==
  /\ s.kind = "realize" /\ s.at = "server" /\ Booked(s) /\ Reading(s)
  /\ sheet' = IF sheet # None /\ sheet.kind = "realize" THEN None ELSE sheet
  /\ UNCHANGED <<part, form, touched, asking, status, busy, openings, typed, unsure>>

(* No flag, and the answer is not looked at; bound: asked twice at most.   *)
DeleteTx ==
  /\ sheet # None /\ sheet.kind = "delete" /\ Cardinality({s \in sent : s.kind = "delete"}) < 2 /\ Ask
  /\ UNCHANGED <<part, form, touched, asking, status, sheet, busy, openings, typed, made, unsure>>
HearDeleted(s) ==
  /\ s.kind = "delete" /\ sent' = sent \ {s}
  /\ \/ made[s.n] = 0 /\ Booked(s)
     \/ UNCHANGED made
  /\ sheet' = IF sheet # None /\ sheet.kind = "delete" THEN None ELSE sheet
  /\ UNCHANGED <<part, form, touched, asking, status, busy, openings, typed, unsure>>

Values == {Typed, Empty}
Flagged(s) == s.kind # "delete"
Answer == \E s \in sent : Flagged(s) /\ (SubmitAddTxFromModal(s) \/ HearRealized(s) \/ HearList(s)
                                           \/ HearRefusal(s) \/ HearLost(s))
AnswerQuote == \E q \in asking : HearQuote(q) \/ HearNoQuote(q)

Next ==
  \/ OpenAddTxModal \/ CloseAddModal \/ DropAsset \/ TypeTax \/ TypeCash \/ SetSource
  \/ HandleAddTxSubmit \/ Answer \/ AnswerQuote
  \/ CloseSheet \/ SetRealizeForm \/ SubmitRealizeAsset \/ DeleteTx
  \/ \E item \in Saved : OpenEditTransaction(item)
  \/ \E a \in Assets : PickAsset(a) \/ OpenRealizeAsset(a) \/ SetTxDeleteConfirm(a)
                         \/ HandleArchiveInvestment(a)
  \/ \E t \in {"buy", "sell"} : SetType(t)
  \/ \E d \in Dates : SetDate(d)
  \/ \E n \in 0..1 : SetShares(n)
  \/ \E v \in Values : TypePrice(v)
  \/ \E s \in sent : HearDeleted(s)

Spec == Init /\ [][Next]_vars /\ WF_vars(Answer) /\ WF_vars(AnswerQuote)

(***************************************************************************)
(* Properties                                                              *)
(***************************************************************************)
(* "A late response for an older date can't land on top of the current     *)
(* one": a price that nobody typed is the quote of this asset on this date.*)
PriceIsOfThisDate ==
  form # None /\ form.price \notin {Empty, Typed, OfSaved} => form.price = Quote(form.asset, form.date)

(* "Never overwritten ... in the background": what is touched is what was  *)
(* typed or saved, and not something the sheet computed.                   *)
MineIsKept ==
  form # None =>
    /\ "cash" \in touched => form.cash \in {Typed, OfSaved}
    /\ "tax" \in touched => form.tax \in {Typed, OfSaved}
    /\ "price" \in touched => form.price \in {Typed, Empty, OfSaved}

(* A sheet books one trade, or realises one asset, once: twice only for a  *)
(* user who was told of a network error and tried again.                   *)
OneTradePerSheet == \A n \in 1..MaxOpenings : made[n] <= 1 \/ n \in unsure

Working == busy \/ status = "loading"

(* The button comes back, and the hint of a lookup goes away.              *)
TradeFlagsEnd == Working ~> ~Working

(***************************************************************************)
(* The inductive invariant                                                 *)
(***************************************************************************)
FormFields == {"asset", "type", "date", "shares", "price", "tax", "cash", "source", "edits"}
RequestFields == {"n", "try", "kind", "of", "at"}
Kinds == {"trade", "realize", "delete"}

(* One quote is looked up, for a sheet whose price is not the user's.      *)
FormInv ==
  /\ form # None => part = "trade" /\ openings > 0 /\ DOMAIN form = FormFields
  /\ sheet # None => part = "sheets" /\ openings > 0
  /\ asking # {} => form # None /\ "price" \notin touched
  /\ \A p, q \in asking : p = q

(* One request is on its way for which a flag is up, and the requests of   *)
(* an opening are of the kind of its sheet.                                *)
RequestInv ==
  /\ \A s \in sent :
       /\ DOMAIN s = RequestFields /\ s.n \in 1..openings /\ s.kind \in Kinds
       /\ s.kind = "trade" <=> part = "trade"
       /\ sheet # None /\ s.n = openings => s.kind = sheet.kind
  /\ \A s, t \in sent : s.n = t.n => s.kind = t.kind
  /\ \A s, t \in sent : Flagged(s) /\ Flagged(t) => s = t /\ busy

(* What is open or at the server is not in the books, but for a request    *)
(* that was not answered.                                                  *)
Unbooked(n) == made[n] = 0 \/ n \in unsure
BooksInv ==
  /\ openings \in 0..MaxOpenings /\ made \in [1..MaxOpenings -> Nat]
  /\ \A n \in 1..MaxOpenings : n > openings => made[n] = 0
  /\ form # None \/ (sheet # None /\ sheet.kind = "realize") => Unbooked(openings)
  /\ \A s \in sent : Flagged(s) /\ s.at = "server" => Unbooked(s.n)

IInv == FormInv /\ MineIsKept /\ RequestInv /\ BooksInv /\ OneTradePerSheet
=============================================================================
