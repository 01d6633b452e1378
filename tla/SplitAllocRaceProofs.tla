------------------------- MODULE SplitAllocRaceProofs -------------------------
(***************************************************************************)
(* What overlapping writers of the split ledger may rely on, for any       *)
(* requests, amounts and number of writers: a rebuild that meets nobody    *)
(* leaves the rows of its debtors sound, whatever it found; and one writer *)
(* at a time never allocates a share or a payment twice, and commits       *)
(* nothing but what the atomic ledger of SplitLedger would have done.      *)
(***************************************************************************)
EXTENDS SplitAllocRace, TotalsTheorems, TLAPS

Allocs == [Pays -> [Charges -> Nat]]

Stages == {"idle", "pair", "delete", "shares", "payments", "payment", "share",
           "insert", "commit"} \cup Ended

Transactions ==
  [own : Allocs, gone : SUBSET (Pays \X Charges), found : SUBSET (Pays \X Charges),
   left : SUBSET Debtors, shares : SUBSET Charges, payments : SUBSET Pays,
   ahead : SUBSET Charges, pair : Debtors \cup {Creditor}, pay : Nat, share : Nat,
   remaining : Int, take : Int]

(* The local variables of a request, where its statements use them.        *)
Located(r) ==
  /\ stage[r] \in {"delete", "shares", "payments", "payment", "share", "insert"}
       => tx[r].pair \in Debtors
  /\ stage[r] = "pair" => tx[r].payments = {}
  /\ stage[r] \in {"payments", "delete", "pair"} => r \in Charges
  /\ Active(r) => \A s \in tx[r].payments : Debtor[s] = tx[r].pair
  /\ stage[r] \in {"share", "insert"} =>
       /\ tx[r].pay \in Pays /\ Debtor[tx[r].pay] = tx[r].pair
       /\ tx[r].ahead # {} => tx[r].remaining > 0
  /\ stage[r] = "insert" =>
       tx[r].share \in Charges /\ tx[r].take > 0 /\ tx[r].take <= tx[r].remaining

TypeOK ==
  /\ stage \in [Requests -> Stages]
  /\ tx \in [Requests -> Transactions]
  /\ rows \in Allocs
  /\ paid \in Seq(Pays) /\ charged \in Seq(Charges)
  /\ met \in [Requests -> SUBSET Requests]

TInv == TypeOK /\ \A r \in Requests : Located(r)

(* Requests that are active together have met. *)
MetAll == \A r, q \in Requests : Active(r) /\ Active(q) /\ q # r => q \in met[r]

Quiet(r) == Active(r) /\ met[r] = {}

(* The rows al of one debtor exceed neither a share nor a payment. *)
PairSound(al, d) ==
  /\ \A e \in Charges : ShareSound(al, e, d)
  /\ \A s \in Pays : Debtor[s] = d => PaymentSound(al, s)

(* The loops of a request allocate no more than what the request sees.     *)
Bounded(r) ==
  /\ stage[r] \in {"share", "insert"} =>
       tx[r].remaining <= Amount[tx[r].pay] - Spent(View(r), tx[r].pay)
  /\ stage[r] = "insert" =>
       tx[r].take <= Due[tx[r].share][tx[r].pair]
                       - Settled(View(r), tx[r].share, tx[r].pair)

(* The debtors whose rows r has not begun to rebuild. *)
Unbuilt(r) == tx[r].left \cup (IF stage[r] = "delete" THEN {tx[r].pair} ELSE {})

(* What a rebuild that has met nobody has left behind so far. *)
Rebuilt(r) ==
  /\ stage[r] # "pair" => tx[r].pair \notin tx[r].left
  /\ stage[r] = "commit" => tx[r].left = {}
  /\ \A d \in Unbuilt(r), s \in Pays, e \in Charges :
       Debtor[s] = d => tx[r].own[s][e] = 0
  /\ stage[r] = "delete" =>
       \A s \in Pays, e \in Charges :
         Debtor[s] = tx[r].pair /\ rows[s][e] > 0 => <<s, e>> \in tx[r].found
  /\ \A d \in Debtors :
       Due[r][d] > 0 /\ d \notin Unbuilt(r) => PairSound(View(r), d)

(* The inductive invariant of the quiet repair. *)
RInv ==
  /\ TInv /\ MetAll
  /\ \A r \in Requests : Quiet(r) => Bounded(r) /\ (r \in Charges => Rebuilt(r))

(* The inductive invariant of one writer at a time. *)
SInv ==
  /\ RInv
  /\ \A r \in Requests : met[r] = {}
  /\ \A d \in Debtors : PairSound(rows, d)
  /\ \A r \in Requests : Active(r) => \A d \in Debtors : PairSound(View(r), d)

-----------------------------------------------------------------------------
(***************************************************************************)
(* Sums over the rows.                                                     *)
(***************************************************************************)

(* Requests are among 1 .. MaxRequest, amounts and shares are naturals.    *)
LEMMA Numbers ==
  /\ MaxRequest \in Nat /\ Pays \subseteq 1 .. MaxRequest
  /\ Charges \subseteq 1 .. MaxRequest /\ Pays \cap Charges = {}
  /\ Pays \subseteq Nat /\ Charges \subseteq Nat
  /\ \A s \in Pays : Debtor[s] \in Debtors /\ Amount[s] \in Nat
  /\ \A e \in Charges, d \in Debtors : Due[e][d] \in Nat
<1>1. 1 .. MaxRequest \subseteq Nat
  OBVIOUS
<1> QED BY <1>1, RaceAssumption DEF Requests

(* The sums are naturals. *)
LEMMA SumsAreNatural ==
  ASSUME NEW al \in Allocs
  PROVE  /\ \A e \in Charges : \A d : Settled(al, e, d) \in Nat
         /\ \A s \in Pays : Spent(al, s) \in Nat
<1>1. ASSUME NEW e \in Charges, NEW d PROVE Settled(al, e, d) \in Nat
  <2> DEFINE f == [s \in 1 .. MaxRequest |->
                     IF s \in Pays /\ Debtor[s] = d THEN al[s][e] ELSE 0]
  <2>1. \A s \in 1 .. MaxRequest : f[s] \in Nat
    BY DEF Allocs
  <2> HIDE DEF f
  <2>2. Total(f, MaxRequest) \in Nat
    BY <2>1, Numbers, TotalNatural
  <2> QED BY <2>2 DEF Settled, f
<1>2. ASSUME NEW s \in Pays PROVE Spent(al, s) \in Nat
  <2> DEFINE f == [e \in 1 .. MaxRequest |-> IF e \in Charges THEN al[s][e] ELSE 0]
  <2>1. \A e \in 1 .. MaxRequest : f[e] \in Nat
    BY DEF Allocs
  <2> HIDE DEF f
  <2>2. Total(f, MaxRequest) \in Nat
    BY <2>1, Numbers, TotalNatural
  <2> QED BY <2>2 DEF Spent, f
<1> QED BY <1>1, <1>2

(* Where rows are lower by at most n, and that in one row, so are the sums. *)
LEMMA SumsBounded ==
  ASSUME NEW al \in Allocs, NEW new \in Allocs, NEW n \in Nat,
         NEW s \in Pays, NEW e \in Charges
  PROVE  /\ \A d : (\A t \in Pays : Debtor[t] = d =>
                      new[t][e] <= al[t][e] + (IF t = s THEN n ELSE 0))
                   => Settled(new, e, d) <= Settled(al, e, d) + n
         /\ (\A f \in Charges : new[s][f] <= al[s][f] + (IF f = e THEN n ELSE 0))
            => Spent(new, s) <= Spent(al, s) + n
<1>1. ASSUME NEW d, \A t \in Pays : Debtor[t] = d =>
                      new[t][e] <= al[t][e] + (IF t = s THEN n ELSE 0)
      PROVE  Settled(new, e, d) <= Settled(al, e, d) + n
  <2> DEFINE f == [t \in 1 .. MaxRequest |->
                     IF t \in Pays /\ Debtor[t] = d THEN al[t][e] ELSE 0]
             g == [t \in 1 .. MaxRequest |->
                     IF t \in Pays /\ Debtor[t] = d THEN new[t][e] ELSE 0]
  <2>1. \A t \in 1 .. MaxRequest : f[t] \in Int /\ g[t] \in Int
    BY DEF Allocs
  <2>2. \A t \in 1 .. MaxRequest : g[t] <= f[t] + (IF t = s THEN n ELSE 0)
    BY <1>1, <2>1
  <2>3. s \in Nat /\ MaxRequest \in Nat
    BY Numbers
  <2> HIDE DEF f, g
  <2>4. Total(g, MaxRequest) <= Total(f, MaxRequest) + n
    BY <2>1, <2>2, <2>3, TotalBound
  <2> QED BY <2>4 DEF Settled, f, g
<1>2. ASSUME \A f \in Charges : new[s][f] <= al[s][f] + (IF f = e THEN n ELSE 0)
      PROVE  Spent(new, s) <= Spent(al, s) + n
  <2> DEFINE f == [x \in 1 .. MaxRequest |-> IF x \in Charges THEN al[s][x] ELSE 0]
             g == [x \in 1 .. MaxRequest |-> IF x \in Charges THEN new[s][x] ELSE 0]
  <2>1. \A x \in 1 .. MaxRequest : f[x] \in Int /\ g[x] \in Int
    BY DEF Allocs
  <2>2. \A x \in 1 .. MaxRequest : g[x] <= f[x] + (IF x = e THEN n ELSE 0)
    BY <1>2, <2>1
  <2>3. e \in Nat /\ MaxRequest \in Nat
    BY Numbers
  <2> HIDE DEF f, g
  <2>4. Total(g, MaxRequest) <= Total(f, MaxRequest) + n
    BY <2>1, <2>2, <2>3, TotalBound
  <2> QED BY <2>4 DEF Spent, f, g
<1> QED BY <1>1, <1>2

(* The rows new of debtor d exceed none of al. *)
Within(new, al, d) ==
  \A s \in Pays, e \in Charges : Debtor[s] = d => new[s][e] <= al[s][e]

(* No more rows than sound ones are sound. *)
LEMMA FewerSound ==
  ASSUME NEW al \in Allocs, NEW new \in Allocs, NEW d \in Debtors, PairSound(al, d),
         Within(new, al, d)
  PROVE  PairSound(new, d)
<1>1. ASSUME NEW e \in Charges PROVE ShareSound(new, e, d)
  <2> DEFINE f == [s \in 1 .. MaxRequest |->
                     IF s \in Pays /\ Debtor[s] = d THEN al[s][e] ELSE 0]
             g == [s \in 1 .. MaxRequest |->
                     IF s \in Pays /\ Debtor[s] = d THEN new[s][e] ELSE 0]
  <2>1. \A s \in 1 .. MaxRequest : f[s] \in Int /\ g[s] \in Int
    BY DEF Allocs
  <2>2. \A s \in 1 .. MaxRequest : g[s] <= f[s]
    BY <2>1 DEF Within
  <2> HIDE DEF f, g
  <2>3. Total(g, MaxRequest) <= Total(f, MaxRequest)
    BY <2>1, <2>2, Numbers, TotalMonotone
  <2>4. Settled(new, e, d) <= Settled(al, e, d)
    BY <2>3 DEF Settled, f, g
  <2>5. Settled(new, e, d) \in Nat /\ Settled(al, e, d) \in Nat /\ Due[e][d] \in Nat
    BY SumsAreNatural, Numbers
  <2> QED BY <2>4, <2>5 DEF PairSound, ShareSound
<1>2. ASSUME NEW s \in Pays, Debtor[s] = d PROVE PaymentSound(new, s)
  <2> DEFINE f == [e \in 1 .. MaxRequest |-> IF e \in Charges THEN al[s][e] ELSE 0]
             g == [e \in 1 .. MaxRequest |-> IF e \in Charges THEN new[s][e] ELSE 0]
  <2>1. \A e \in 1 .. MaxRequest : f[e] \in Int /\ g[e] \in Int
    BY DEF Allocs
  <2>2. \A e \in 1 .. MaxRequest : g[e] <= f[e]
    BY <1>2, <2>1 DEF Within
  <2> HIDE DEF f, g
  <2>3. Total(g, MaxRequest) <= Total(f, MaxRequest)
    BY <2>1, <2>2, Numbers, TotalMonotone
  <2>4. Spent(new, s) <= Spent(al, s)
    BY <2>3 DEF Spent, f, g
  <2>5. Spent(new, s) \in Nat /\ Spent(al, s) \in Nat /\ Amount[s] \in Nat
    BY SumsAreNatural, Numbers
  <2> QED BY <1>2, <2>4, <2>5 DEF PairSound, PaymentSound
<1> QED BY <1>1, <1>2 DEF PairSound

(* No rows at all are sound. *)
LEMMA EmptySound ==
  ASSUME NEW al \in Allocs, NEW d \in Debtors,
         \A s \in Pays, e \in Charges : Debtor[s] = d => al[s][e] = 0
  PROVE  PairSound(al, d)
<1>1. ASSUME NEW e \in Charges PROVE ShareSound(al, e, d)
  <2> DEFINE f == [s \in 1 .. MaxRequest |->
                     IF s \in Pays /\ Debtor[s] = d THEN al[s][e] ELSE 0]
  <2>1. \A s \in 1 .. MaxRequest : f[s] = 0
    OBVIOUS
  <2> HIDE DEF f
  <2>2. Total(f, MaxRequest) = 0
    BY <2>1, Numbers, TotalZero
  <2>3. Settled(al, e, d) = 0
    BY <2>2 DEF Settled, f
  <2>4. Due[e][d] \in Nat
    BY Numbers
  <2> QED BY <2>3, <2>4 DEF ShareSound
<1>2. ASSUME NEW s \in Pays, Debtor[s] = d PROVE PaymentSound(al, s)
  <2> DEFINE f == [e \in 1 .. MaxRequest |-> IF e \in Charges THEN al[s][e] ELSE 0]
  <2>1. \A e \in 1 .. MaxRequest : f[e] = 0
    BY <1>2
  <2> HIDE DEF f
  <2>2. Total(f, MaxRequest) = 0
    BY <2>1, Numbers, TotalZero
  <2>3. Spent(al, s) = 0
    BY <2>2 DEF Spent, f
  <2>4. Amount[s] \in Nat
    BY Numbers
  <2> QED BY <2>3, <2>4 DEF PaymentSound
<1> QED BY <1>1, <1>2 DEF PairSound

(* A row that is within what its share and its payment have left.          *)
LEMMA RowWithin ==
  ASSUME NEW al \in Allocs, NEW s \in Pays, NEW e \in Charges, NEW n \in Nat,
         NEW new, new = [al EXCEPT ![s][e] = n],
         n <= Due[e][Debtor[s]] - Settled(al, e, Debtor[s]),
         n <= Amount[s] - Spent(al, s)
  PROVE  /\ new \in Allocs
         /\ Spent(new, s) <= Spent(al, s) + n
         /\ \A d \in Debtors : PairSound(al, d) => PairSound(new, d)
<1>1. /\ new \in Allocs
      /\ \A t \in Pays, f \in Charges :
           new[t][f] = IF t = s /\ f = e THEN n ELSE al[t][f]
      /\ \A t \in Pays, f \in Charges : al[t][f] \in Nat
  BY DEF Allocs
<1>2. Spent(new, s) <= Spent(al, s) + n
  <2>1. \A f \in Charges : new[s][f] <= al[s][f] + (IF f = e THEN n ELSE 0)
    BY <1>1
  <2> QED BY <1>1, <2>1, SumsBounded
<1>3. ASSUME NEW d \in Debtors, PairSound(al, d) PROVE PairSound(new, d)
  <2>1. CASE d # Debtor[s]
    <3>1. Within(new, al, d)
      BY <1>1, <2>1 DEF Within
    <3> QED BY <1>1, <1>3, <3>1, FewerSound
  <2>2. CASE d = Debtor[s]
    <3>1. ASSUME NEW f \in Charges PROVE ShareSound(new, f, d)
      <4>0. /\ Settled(new, f, d) \in Nat /\ Settled(al, f, d) \in Nat
            /\ Due[f][d] \in Nat /\ 0 \in Nat
        BY <1>1, SumsAreNatural, Numbers
      <4>1. CASE f = e
        <5>1. \A t \in Pays : Debtor[t] = d =>
                new[t][e] <= al[t][e] + (IF t = s THEN n ELSE 0)
          BY <1>1
        <5>2. Settled(new, e, d) <= Settled(al, e, d) + n
          BY <1>1, <5>1, SumsBounded
        <5> QED BY <2>2, <4>0, <4>1, <5>2 DEF ShareSound
      <4>2. CASE f # e
        <5>1. \A t \in Pays : Debtor[t] = d =>
                new[t][f] <= al[t][f] + (IF t = s THEN 0 ELSE 0)
          BY <1>1, <4>2
        <5>2. Settled(new, f, d) <= Settled(al, f, d) + 0
          BY <1>1, <4>0, <5>1, SumsBounded
        <5> QED BY <1>3, <4>0, <5>2 DEF ShareSound, PairSound
      <4> QED BY <4>1, <4>2
    <3>2. ASSUME NEW t \in Pays, Debtor[t] = d PROVE PaymentSound(new, t)
      <4>0. /\ Spent(new, t) \in Nat /\ Spent(al, t) \in Nat
            /\ Amount[t] \in Nat /\ 0 \in Nat
        BY <1>1, SumsAreNatural, Numbers
      <4>1. CASE t = s
        BY <1>2, <4>0, <4>1 DEF PaymentSound
      <4>2. CASE t # s
        <5>1. \A f \in Charges : new[t][f] <= al[t][f] + (IF f = e THEN 0 ELSE 0)
          BY <1>1, <4>2
        <5>2. Spent(new, t) <= Spent(al, t) + 0
          BY <1>1, <4>0, <5>1, SumsBounded
        <5> QED BY <1>3, <3>2, <4>0, <5>2 DEF PaymentSound, PairSound
      <4> QED BY <4>1, <4>2
    <3> QED BY <3>1, <3>2 DEF PairSound
  <2> QED BY <2>1, <2>2
<1> QED BY <1>1, <1>2, <1>3

-----------------------------------------------------------------------------
(***************************************************************************)
(* Types, and where each statement finds its variables.                    *)
(***************************************************************************)

(* The earliest of a set of requests is one of them. *)
LEMMA FirstIn ==
  ASSUME NEW S, S \subseteq Pays \/ S \subseteq Charges, S # {}
  PROVE  First(S) \in S /\ \A y \in S : First(S) <= y
<1>1. S \subseteq Nat
  BY Numbers
<1>2. \E x \in S : \A y \in S : x <= y
  BY <1>1, LeastNatural
<1> QED BY <1>2 DEF First

(* The rows a request sees are rows. *)
LEMMA ViewIsRows ==
  ASSUME TypeOK, NEW r \in Requests
  PROVE  View(r) \in Allocs
<1>1. /\ tx[r].own \in Allocs /\ rows \in Allocs
  BY DEF TypeOK, Transactions
<1>2. \A s \in Pays, e \in Charges : RowSeen(r, s, e) \in Nat
  BY <1>1 DEF RowSeen, Allocs
<1> QED BY <1>2 DEF View, Allocs

(* What it reads of a payment and of a share of its debtor is a number.     *)
LEMMA SeenIsInteger ==
  ASSUME TypeOK, NEW r \in Requests
  PROVE  /\ \A s \in Pays : RemainingSeen(r, s) \in Int
         /\ tx[r].pair \in Debtors => \A e \in Charges : OpenSeen(r, e) \in Int
<1>1. View(r) \in Allocs
  BY ViewIsRows
<1>2. ASSUME NEW s \in Pays PROVE RemainingSeen(r, s) \in Int
  BY <1>1, SumsAreNatural, Numbers DEF RemainingSeen
<1>3. ASSUME tx[r].pair \in Debtors, NEW e \in Charges PROVE OpenSeen(r, e) \in Int
  BY <1>1, <1>3, SumsAreNatural, Numbers DEF OpenSeen
<1> QED BY <1>2, <1>3

(* What a statement of r writes: its stage and its record. *)
Wrote(r, label, rec) ==
  /\ stage[r] \notin Ended \cup {"idle"}
  /\ label \in Stages \ (Ended \cup {"idle"}) /\ rec \in Transactions
  /\ stage' = [stage EXCEPT ![r] = label]
  /\ tx' = [tx EXCEPT ![r] = rec]
  /\ UNCHANGED <<rows, paid, charged, met>>

(* Such a write keeps the types, and touches no other request. *)
LEMMA WroteIs ==
  ASSUME TypeOK, NEW r \in Requests, NEW label, NEW rec, Wrote(r, label, rec)
  PROVE  /\ TypeOK' /\ stage'[r] = label /\ tx'[r] = rec
         /\ \A q \in Requests \ {r} : stage'[q] = stage[q] /\ tx'[q] = tx[q]
         /\ Active(r) /\ Active(r)' /\ rows' = rows /\ met' = met
BY DEF TypeOK, Wrote, Active

(* Others stay where they are. *)
LEMMA OthersStay ==
  ASSUME TInv, NEW r \in Requests, NEW label, NEW rec, Wrote(r, label, rec),
         Located(r)'
  PROVE  TInv'
<1>1. ASSUME NEW q \in Requests, q # r PROVE Located(q)'
  <2>1. stage'[q] = stage[q] /\ tx'[q] = tx[q]
    BY <1>1, WroteIs DEF TInv
  <2> QED BY <2>1 DEF TInv, Located, Active
<1>2. TypeOK'
  BY WroteIs DEF TInv
<1> QED BY <1>1, <1>2 DEF TInv

(* The statements within a transaction. *)
Inside(r) ==
  \/ StartPair(r) \/ DeleteRows(r) \/ ListShares(r) \/ ListPayments(r)
  \/ NextPayment(r) \/ NextShare(r) \/ EndPayment(r) \/ InsertRow(r)
  \/ EndPair(r) \/ EndCharge(r)

(* The record that a statement of r writes, and the next stage: the start  *)
(* of a DELETE.                                                            *)
LEMMA StartPairWrites ==
  ASSUME TInv, NEW r \in Requests, StartPair(r)
  PROVE  \E d \in tx[r].left :
           /\ d \in Debtors
           /\ Wrote(r, "delete", [tx[r] EXCEPT !.pair = d, !.left = @ \ {d},
                        !.found = {m \in Pays \X Charges :
                                     Debtor[m[1]] = d /\ rows[m[1]][m[2]] > 0}])
<1>1. PICK d \in tx[r].left :
        tx' = [tx EXCEPT ![r].pair = d, ![r].left = @ \ {d},
                         ![r].found = {m \in Pays \X Charges :
                                         Debtor[m[1]] = d /\ rows[m[1]][m[2]] > 0}]
  BY DEF StartPair
<1> DEFINE rec == [tx[r] EXCEPT !.pair = d, !.left = @ \ {d},
                        !.found = {m \in Pays \X Charges :
                                     Debtor[m[1]] = d /\ rows[m[1]][m[2]] > 0}]
<1>2. tx[r] \in Transactions /\ d \in Debtors
  BY DEF TInv, TypeOK, Transactions
<1>3. rec \in Transactions
  BY <1>2 DEF Transactions
<1>4. tx' = [tx EXCEPT ![r] = rec]
  BY <1>1, <1>2 DEF TInv, TypeOK, Transactions
<1> QED BY <1>2, <1>3, <1>4 DEF StartPair, Wrote, Goto, Unchanged, Stages, Ended

(* The end of the DELETE. *)
LEMMA DeleteRowsWrites ==
  ASSUME TInv, NEW r \in Requests, DeleteRows(r)
  PROVE  Wrote(r, "shares", [tx[r] EXCEPT !.gone = @ \cup tx[r].found, !.found = {}])
<1> DEFINE rec == [tx[r] EXCEPT !.gone = @ \cup tx[r].found, !.found = {}]
<1>1. tx[r] \in Transactions
  BY DEF TInv, TypeOK
<1>2. rec \in Transactions
  BY <1>1 DEF Transactions
<1>3. tx' = [tx EXCEPT ![r] = rec]
  BY <1>1 DEF TInv, TypeOK, Transactions, DeleteRows
<1> QED BY <1>2, <1>3 DEF DeleteRows, Wrote, Goto, Unchanged, Stages, Ended

(* The list of the shares of the pair. *)
LEMMA ListSharesWrites ==
  ASSUME TInv, NEW r \in Requests, ListShares(r)
  PROVE  \E label \in {"payment", "payments"} :
           /\ label = "payments" => r \in Charges
           /\ Wrote(r, label, [tx[r] EXCEPT
                 !.shares = {e \in Charges : Seen(r, e) /\ Due[e][tx[r].pair] > 0}])
<1> DEFINE rec == [tx[r] EXCEPT
                 !.shares = {e \in Charges : Seen(r, e) /\ Due[e][tx[r].pair] > 0}]
           label == IF r \in Pays THEN "payment" ELSE "payments"
<1>1. tx[r] \in Transactions
  BY DEF TInv, TypeOK
<1>2. rec \in Transactions
  BY <1>1 DEF Transactions
<1>3. tx' = [tx EXCEPT ![r] = rec]
  BY <1>1 DEF TInv, TypeOK, Transactions, ListShares
<1>4. Wrote(r, label, rec)
  BY <1>2, <1>3 DEF ListShares, Wrote, Goto, Unchanged, Stages, Ended
<1> QED BY <1>4 DEF Requests

(* The list of the payments of the pair. *)
LEMMA ListPaymentsWrites ==
  ASSUME TInv, NEW r \in Requests, ListPayments(r)
  PROVE  Wrote(r, "payment", [tx[r] EXCEPT
                 !.payments = {s \in Pays : Seen(r, s) /\ Debtor[s] = tx[r].pair}])
<1> DEFINE rec == [tx[r] EXCEPT
                 !.payments = {s \in Pays : Seen(r, s) /\ Debtor[s] = tx[r].pair}]
<1>1. tx[r] \in Transactions
  BY DEF TInv, TypeOK
<1>2. rec \in Transactions
  BY <1>1 DEF Transactions
<1>3. tx' = [tx EXCEPT ![r] = rec]
  BY <1>1 DEF TInv, TypeOK, Transactions, ListPayments
<1> QED BY <1>2, <1>3 DEF ListPayments, Wrote, Goto, Unchanged, Stages, Ended

(* The next payment: the earliest one, with what it has left. *)
LEMMA NextPaymentWrites ==
  ASSUME TInv, NEW r \in Requests, NextPayment(r)
  PROVE  LET s == First(tx[r].payments) IN
         /\ s \in tx[r].payments /\ s \in Pays /\ RemainingSeen(r, s) \in Int
         /\ Wrote(r, "share",
              [tx[r] EXCEPT !.payments = @ \ {s}, !.pay = s,
                            !.remaining = RemainingSeen(r, s),
                            !.ahead = IF RemainingSeen(r, s) > 0
                                      THEN tx[r].shares ELSE {}])
<1> DEFINE s == First(tx[r].payments)
           left == RemainingSeen(r, s)
           rec == [tx[r] EXCEPT !.payments = @ \ {s}, !.pay = s, !.remaining = left,
                                !.ahead = IF left > 0 THEN tx[r].shares ELSE {}]
<1>1. tx[r] \in Transactions /\ TypeOK
  BY DEF TInv, TypeOK
<1>2. s \in tx[r].payments
  BY <1>1, FirstIn DEF NextPayment, Transactions
<1>3. s \in Pays /\ s \in Nat
  BY <1>1, <1>2, Numbers DEF Transactions
<1>4. left \in Int
  BY <1>1, <1>3, SeenIsInteger
<1>5. tx' = [tx EXCEPT ![r].payments = @ \ {s}, ![r].pay = s, ![r].remaining = left,
                       ![r].ahead = IF left > 0 THEN tx[r].shares ELSE {}]
  BY DEF NextPayment
<1> HIDE DEF s, left
<1>6. rec \in Transactions
  BY <1>1, <1>2, <1>3, <1>4 DEF Transactions
<1>7. tx' = [tx EXCEPT ![r] = rec]
  BY <1>1, <1>5 DEF TypeOK, Transactions
<1>8. Wrote(r, "share", rec)
  BY <1>6, <1>7 DEF NextPayment, Wrote, Goto, Unchanged, Stages, Ended
<1> QED BY <1>2, <1>3, <1>4, <1>8 DEF s, left

(* The next share: the earliest one; only an open one is inserted on. *)
LEMMA NextShareWrites ==
  ASSUME TInv, NEW r \in Requests, NextShare(r)
  PROVE  LET e == First(tx[r].ahead)
             take == IF OpenSeen(r, e) < tx[r].remaining
                     THEN OpenSeen(r, e) ELSE tx[r].remaining
         IN  /\ e \in Charges /\ OpenSeen(r, e) \in Int
             /\ \E label \in {"insert", "share"} :
                  /\ label = "insert" => OpenSeen(r, e) > 0
                  /\ Wrote(r, label, [tx[r] EXCEPT !.ahead = @ \ {e}, !.share = e,
                                                   !.take = take])
<1> DEFINE e == First(tx[r].ahead)
           open == OpenSeen(r, e)
           take == IF open < tx[r].remaining THEN open ELSE tx[r].remaining
           rec == [tx[r] EXCEPT !.ahead = @ \ {e}, !.share = e, !.take = take]
           label == IF open > 0 THEN "insert" ELSE "share"
<1>1. tx[r] \in Transactions /\ TypeOK /\ tx[r].pair \in Debtors
  BY DEF TInv, TypeOK, Located, NextShare
<1>2. e \in tx[r].ahead
  BY <1>1, FirstIn DEF NextShare, Transactions
<1>3. e \in Charges /\ e \in Nat
  BY <1>1, <1>2, Numbers DEF Transactions
<1>4. open \in Int
  BY <1>1, <1>3, SeenIsInteger
<1>5. tx' = [tx EXCEPT ![r].ahead = @ \ {e}, ![r].share = e, ![r].take = take]
  BY DEF NextShare
<1>6. stage' = [stage EXCEPT ![r] = label]
  BY DEF NextShare, Goto
<1> HIDE DEF e, open
<1>7. rec \in Transactions
  BY <1>1, <1>3, <1>4 DEF Transactions
<1>8. tx' = [tx EXCEPT ![r] = rec]
  BY <1>1, <1>5 DEF TypeOK, Transactions
<1>9. Wrote(r, label, rec)
  BY <1>6, <1>7, <1>8 DEF NextShare, Wrote, Unchanged, Stages, Ended
<1> QED BY <1>3, <1>4, <1>9 DEF e, open

(* The INSERT of a row. *)
LEMMA InsertRowWrites ==
  ASSUME TInv, NEW r \in Requests, InsertRow(r)
  PROVE  LET left == tx[r].remaining - tx[r].take IN
         /\ left \in Int
         /\ Wrote(r, "share",
              [tx[r] EXCEPT !.own[tx[r].pay][tx[r].share] = tx[r].take,
                            !.remaining = left,
                            !.ahead = IF left > 0 THEN @ ELSE {}])
<1> DEFINE left == tx[r].remaining - tx[r].take
           rec == [tx[r] EXCEPT !.own[tx[r].pay][tx[r].share] = tx[r].take,
                                !.remaining = left,
                                !.ahead = IF left > 0 THEN @ ELSE {}]
<1>1. tx[r] \in Transactions /\ TypeOK
  BY DEF TInv, TypeOK
<1>2. /\ left \in Int /\ tx[r].take \in Nat
      /\ tx[r].pay \in Pays /\ tx[r].share \in Charges
  BY <1>1 DEF TInv, Located, InsertRow, Transactions
<1>3. rec \in Transactions
  <2>1. [tx[r].own EXCEPT ![tx[r].pay][tx[r].share] = tx[r].take] \in Allocs
    BY <1>1, <1>2 DEF Allocs, Transactions
  <2> QED BY <1>1, <1>2, <2>1 DEF Transactions
<1>4. tx' = [tx EXCEPT ![r] = rec]
  BY <1>1 DEF TypeOK, Transactions, InsertRow
<1> QED BY <1>2, <1>3, <1>4 DEF InsertRow, Wrote, Goto, Unchanged, Stages, Ended

(* The ends of the loops: a new stage and no new record. *)
LEMMA EndsWrite ==
  ASSUME TInv, NEW r \in Requests, EndPayment(r) \/ EndPair(r) \/ EndCharge(r)
  PROVE  \E label \in {"payment", "commit", "pair"} :
           /\ label = "payment" => stage[r] = "share" /\ tx[r].ahead = {}
           /\ label = "pair" => r \in Charges /\ stage[r] = "payment"
           /\ label # "payment" => tx[r].payments = {}
           /\ label = "commit" => r \in Pays \/ tx[r].left = {}
           /\ Wrote(r, label, tx[r])
<1>1. tx[r] \in Transactions /\ TypeOK /\ tx' = [tx EXCEPT ![r] = tx[r]]
  BY DEF TInv, TypeOK, EndPayment, EndPair, EndCharge
<1>2. CASE EndPayment(r)
  <2>1. Wrote(r, "payment", tx[r])
    BY <1>1, <1>2 DEF EndPayment, Wrote, Goto, Unchanged, Stages, Ended
  <2> QED BY <1>2, <2>1 DEF EndPayment
<1>3. CASE EndPair(r)
  <2> DEFINE label == IF r \in Pays THEN "commit" ELSE "pair"
  <2>1. Wrote(r, label, tx[r])
    BY <1>1, <1>3 DEF EndPair, Wrote, Goto, Unchanged, Stages, Ended
  <2> QED BY <1>3, <2>1 DEF EndPair, Requests
<1>4. CASE EndCharge(r)
  <2>1. Wrote(r, "commit", tx[r])
    BY <1>1, <1>4 DEF EndCharge, Wrote, Goto, Unchanged, Stages, Ended
  <2>2. tx[r].payments = {} /\ tx[r].left = {}
    BY <1>4 DEF TInv, Located, EndCharge
  <2> QED BY <2>1, <2>2
<1> QED BY <1>2, <1>3, <1>4

(* A statement within a transaction keeps the variables in place.          *)
LEMMA InsideKeepsTypes ==
  ASSUME TInv, NEW r \in Requests, Inside(r)
  PROVE  TInv'
<1>0. tx[r] \in Transactions /\ TypeOK
  BY DEF TInv, TypeOK
<1>1. CASE StartPair(r)
  <2>1. PICK d, rec :
          /\ d \in tx[r].left
          /\ d \in Debtors /\ Wrote(r, "delete", rec)
          /\ rec = [tx[r] EXCEPT !.pair = d, !.left = @ \ {d},
                        !.found = {m \in Pays \X Charges :
                                     Debtor[m[1]] = d /\ rows[m[1]][m[2]] > 0}]
    BY <1>1, StartPairWrites
  <2>2. stage'[r] = "delete" /\ tx'[r] = rec
    BY <1>0, <2>1, WroteIs
  <2>3. rec.pair \in Debtors /\ rec.payments = {}
    BY <1>0, <1>1, <2>1 DEF TInv, Located, StartPair, Transactions
  <2>4. Located(r)'
    BY <1>1, <2>2, <2>3 DEF TInv, Located, StartPair
  <2> QED BY <2>1, <2>4, OthersStay
<1>2. CASE DeleteRows(r)
  <2>1. PICK rec :
          /\ Wrote(r, "shares", rec)
          /\ rec = [tx[r] EXCEPT !.gone = @ \cup tx[r].found, !.found = {}]
    BY <1>2, DeleteRowsWrites
  <2>2. stage'[r] = "shares" /\ tx'[r] = rec /\ Active(r)
    BY <1>0, <2>1, WroteIs
  <2>3. rec.pair = tx[r].pair /\ rec.payments = tx[r].payments
    BY <1>0, <2>1 DEF Transactions
  <2>4. Located(r)'
    BY <1>2, <2>2, <2>3 DEF TInv, Located, DeleteRows
  <2> QED BY <2>1, <2>4, OthersStay
<1>3. CASE ListShares(r)
  <2> DEFINE rec == [tx[r] EXCEPT
                 !.shares = {e \in Charges : Seen(r, e) /\ Due[e][tx[r].pair] > 0}]
  <2>1. PICK label \in {"payment", "payments"} :
          /\ label = "payments" => r \in Charges
          /\ Wrote(r, label, rec)
    BY <1>3, ListSharesWrites
  <2>2. stage'[r] = label /\ tx'[r] = rec /\ Active(r)
    BY <1>0, <2>1, WroteIs
  <2>3. rec.pair = tx[r].pair /\ rec.payments = tx[r].payments
    BY <1>0 DEF Transactions
  <2> HIDE DEF rec
  <2>4. Located(r)'
    BY <1>3, <2>1, <2>2, <2>3 DEF TInv, Located, ListShares
  <2> QED BY <2>1, <2>4, OthersStay
<1>4. CASE ListPayments(r)
  <2>1. PICK rec :
          /\ Wrote(r, "payment", rec)
          /\ rec = [tx[r] EXCEPT
                 !.payments = {s \in Pays : Seen(r, s) /\ Debtor[s] = tx[r].pair}]
    BY <1>4, ListPaymentsWrites
  <2>2. stage'[r] = "payment" /\ tx'[r] = rec
    BY <1>0, <2>1, WroteIs
  <2>3. rec.pair = tx[r].pair /\ \A s \in rec.payments : Debtor[s] = rec.pair
    BY <1>0, <2>1 DEF Transactions
  <2>4. Located(r)'
    BY <1>4, <2>2, <2>3 DEF TInv, Located, ListPayments
  <2> QED BY <2>1, <2>4, OthersStay
<1>5. CASE NextPayment(r)
  <2>1. PICK s, rec :
          /\ s \in tx[r].payments
          /\ s \in Pays /\ RemainingSeen(r, s) \in Int
          /\ Wrote(r, "share", rec)
          /\ rec = [tx[r] EXCEPT !.payments = @ \ {s}, !.pay = s,
                            !.remaining = RemainingSeen(r, s),
                            !.ahead = IF RemainingSeen(r, s) > 0
                                      THEN tx[r].shares ELSE {}]
    BY <1>5, NextPaymentWrites
  <2>2. stage'[r] = "share" /\ tx'[r] = rec /\ Active(r)
    BY <1>0, <2>1, WroteIs
  <2>3. /\ rec.pair = tx[r].pair /\ rec.payments \subseteq tx[r].payments
        /\ rec.pay = s /\ (rec.ahead # {} => rec.remaining > 0)
    BY <1>0, <2>1 DEF Transactions
  <2>4. Located(r)'
    BY <1>5, <2>1, <2>2, <2>3 DEF TInv, Located, NextPayment
  <2> QED BY <2>1, <2>4, OthersStay
<1>6. CASE NextShare(r)
  <2> DEFINE e == First(tx[r].ahead)
             open == OpenSeen(r, e)
             rec == [tx[r] EXCEPT !.ahead = @ \ {e}, !.share = e,
                                  !.take = IF open < tx[r].remaining
                                           THEN open ELSE tx[r].remaining]
  <2>1. PICK label \in {"insert", "share"} :
          /\ e \in Charges /\ open \in Int
          /\ label = "insert" => open > 0
          /\ Wrote(r, label, rec)
    BY <1>6, NextShareWrites
  <2> HIDE DEF e, open
  <2>2. stage'[r] = label /\ tx'[r] = rec /\ Active(r)
    BY <1>0, <2>1, WroteIs
  <2>3. /\ tx[r].remaining \in Int /\ tx[r].remaining > 0
        /\ tx[r].pay \in Pays /\ Debtor[tx[r].pay] = tx[r].pair
        /\ tx[r].pair \in Debtors
        /\ \A s \in tx[r].payments : Debtor[s] = tx[r].pair
    BY <1>0, <1>6, <2>2 DEF TInv, Located, NextShare, Transactions
  <2>4. /\ rec.pair = tx[r].pair /\ rec.payments = tx[r].payments
        /\ rec.pay = tx[r].pay /\ rec.remaining = tx[r].remaining
        /\ rec.share = e
        /\ rec.take = IF open < tx[r].remaining THEN open ELSE tx[r].remaining
    BY <1>0 DEF Transactions
  <2> HIDE DEF rec
  <2>5. label = "insert" => rec.take > 0 /\ rec.take <= rec.remaining
    BY <2>1, <2>3, <2>4
  <2>6. Located(r)'
    BY <2>1, <2>2, <2>3, <2>4, <2>5 DEF Located
  <2> QED BY <2>1, <2>6, OthersStay
<1>7. CASE InsertRow(r)
  <2>1. PICK left, rec :
          /\ left \in Int
          /\ Wrote(r, "share", rec)
          /\ rec = [tx[r] EXCEPT !.own[tx[r].pay][tx[r].share] = tx[r].take,
                            !.remaining = left,
                            !.ahead = IF left > 0 THEN @ ELSE {}]
    BY <1>7, InsertRowWrites
  <2>2. stage'[r] = "share" /\ tx'[r] = rec /\ Active(r)
    BY <1>0, <2>1, WroteIs
  <2>3. /\ rec.pair = tx[r].pair /\ rec.payments = tx[r].payments
        /\ rec.pay = tx[r].pay /\ (rec.ahead # {} => rec.remaining > 0)
    BY <1>0, <2>1 DEF Transactions
  <2>4. Located(r)'
    BY <1>7, <2>2, <2>3 DEF TInv, Located, InsertRow
  <2> QED BY <2>1, <2>4, OthersStay
<1>8. CASE EndPayment(r) \/ EndPair(r) \/ EndCharge(r)
  <2>1. PICK label \in {"payment", "commit", "pair"} :
          /\ label = "payment" => stage[r] = "share"
          /\ label = "pair" => r \in Charges /\ tx[r].payments = {}
          /\ Wrote(r, label, tx[r])
    BY <1>8, EndsWrite
  <2>2. stage'[r] = label /\ tx'[r] = tx[r] /\ Active(r)
    BY <1>0, <2>1, WroteIs
  <2>3. Located(r)'
    BY <2>1, <2>2 DEF TInv, Located
  <2> QED BY <2>1, <2>3, OthersStay
<1> QED BY <1>1, <1>2, <1>3, <1>4, <1>5, <1>6, <1>7, <1>8 DEF Inside

(* The record of a request that is not active is a record. *)
LEMMA FreshIsTransaction == Fresh \in Transactions
BY Numbers DEF Fresh, NoRows, Transactions, Allocs

(* A request begins in place. *)
LEMMA BeginKeepsTypes ==
  ASSUME TInv, NEW r \in Requests, Begin(r)
  PROVE  TInv'
<1>1. PICK rec :
        /\ rec = IF r \in Pays
                 THEN [Fresh EXCEPT !.pair = Debtor[r], !.payments = {r}]
                 ELSE [Fresh EXCEPT !.left = {d \in Debtors : Due[r][d] > 0}]
        /\ tx' = [tx EXCEPT ![r] = rec]
  BY DEF Begin
<1>2. /\ rec \in Transactions
      /\ r \in Pays => rec.pair = Debtor[r] /\ rec.payments = {r}
      /\ r \notin Pays => rec.payments = {}
  BY <1>1, FreshIsTransaction, Numbers DEF Transactions, Fresh
<1>3. PICK label \in {"shares", "pair"} :
        /\ stage' = [stage EXCEPT ![r] = label]
        /\ label = IF r \in Pays THEN "shares" ELSE "pair"
  BY DEF Begin, Goto
<1>4. /\ stage'[r] = label /\ tx'[r] = rec
      /\ \A q \in Requests \ {r} : stage'[q] = stage[q] /\ tx'[q] = tx[q]
  BY <1>1, <1>3 DEF TInv, TypeOK
<1>5. met' \in [Requests -> SUBSET Requests]
  BY DEF TInv, TypeOK, Begin, Others
<1>6. TypeOK'
  <2>1. stage' \in [Requests -> Stages]
    BY <1>3 DEF TInv, TypeOK, Stages
  <2>2. tx' \in [Requests -> Transactions]
    BY <1>1, <1>2 DEF TInv, TypeOK
  <2> QED BY <1>5, <2>1, <2>2 DEF TInv, TypeOK, Begin
<1>7. ASSUME NEW q \in Requests PROVE Located(q)'
  <2>1. CASE q # r
    <3>1. stage'[q] = stage[q] /\ tx'[q] = tx[q]
      BY <1>4, <2>1
    <3> QED BY <3>1 DEF TInv, Located, Active
  <2>2. CASE q = r /\ r \in Pays
    <3>1. stage'[r] = "shares" /\ Debtor[r] \in Debtors
      BY <1>3, <1>4, <2>2, Numbers
    <3> QED BY <1>2, <1>4, <2>2, <3>1 DEF Located
  <2>3. CASE q = r /\ r \notin Pays
    <3>1. stage'[r] = "pair" /\ r \in Charges
      BY <1>3, <1>4, <2>3 DEF Requests
    <3> QED BY <1>2, <1>4, <2>3, <3>1 DEF Located
  <2> QED BY <2>1, <2>2, <2>3
<1> QED BY <1>6, <1>7 DEF TInv

(* A COMMIT or a rollback leaves every request in place. *)
LEMMA EndKeepsTypes ==
  ASSUME TInv, NEW r \in Requests, Commit(r) \/ Rollback(r)
  PROVE  TInv'
<1>1. /\ stage' \in [Requests -> Stages] /\ stage'[r] \in Ended
      /\ \A q \in Requests \ {r} : stage'[q] = stage[q]
  BY DEF TInv, TypeOK, Commit, Rollback, Goto, Stages, Ended
<1>2. tx' \in [Requests -> Transactions]
  <2>1. CASE Commit(r)
    <3>1. ASSUME NEW q \in Requests
          PROVE  [tx[q] EXCEPT !.found = @ \ tx[r].gone] \in Transactions
      <4>1. tx[q] \in Transactions
        BY DEF TInv, TypeOK
      <4> QED BY <4>1 DEF Transactions
    <3> QED BY <2>1, <3>1, FreshIsTransaction DEF Commit
  <2>2. CASE Rollback(r)
    BY <2>2, FreshIsTransaction DEF TInv, TypeOK, Rollback
  <2> QED BY <2>1, <2>2
<1>3. rows' \in Allocs /\ paid' \in Seq(Pays) /\ charged' \in Seq(Charges)
  <2>1. CASE Commit(r)
    <3>1. View(r) \in Allocs
      BY ViewIsRows DEF TInv
    <3>2. paid \in Seq(Pays) /\ charged \in Seq(Charges)
      BY DEF TInv, TypeOK
    <3>3. CASE r \in Pays
      <4>1. paid' = Append(paid, r) /\ charged' = charged /\ rows' = View(r)
        BY <2>1, <3>3 DEF Commit
      <4> QED BY <3>1, <3>2, <3>3, <4>1
    <3>4. CASE r \notin Pays
      <4>1. paid' = paid /\ charged' = Append(charged, r) /\ rows' = View(r)
        BY <2>1, <3>4 DEF Commit
      <4>2. r \in Charges
        BY <3>4 DEF Requests
      <4> QED BY <3>1, <3>2, <4>1, <4>2
    <3> QED BY <3>3, <3>4
  <2>2. CASE Rollback(r)
    BY <2>2 DEF TInv, TypeOK, Rollback, Unchanged
  <2> QED BY <2>1, <2>2
<1>4. met' \in [Requests -> SUBSET Requests]
  BY DEF TInv, TypeOK, Commit, Rollback, Unchanged
<1>5. ASSUME NEW q \in Requests PROVE Located(q)'
  <2>1. CASE q = r
    BY <1>1, <2>1 DEF Located, Active, Ended
  <2>2. CASE q # r
    <3>1. /\ stage'[q] = stage[q]
          /\ tx'[q].pair = tx[q].pair /\ tx'[q].payments = tx[q].payments
          /\ tx'[q].pay = tx[q].pay /\ tx'[q].ahead = tx[q].ahead
          /\ tx'[q].remaining = tx[q].remaining
          /\ tx'[q].share = tx[q].share /\ tx'[q].take = tx[q].take
      <4>1. tx[q] \in Transactions
        BY DEF TInv, TypeOK
      <4>2. CASE Commit(r)
        <5>1. tx'[q] = [tx[q] EXCEPT !.found = @ \ tx[r].gone]
          BY <2>2, <4>2 DEF Commit
        <5> QED BY <1>1, <2>2, <4>1, <5>1 DEF Transactions
      <4>3. CASE Rollback(r)
        BY <1>1, <2>2, <4>3 DEF Rollback, TInv, TypeOK
      <4> QED BY <4>2, <4>3
    <3> QED BY <3>1 DEF TInv, Located, Active
  <2> QED BY <2>1, <2>2
<1> QED BY <1>1, <1>2, <1>3, <1>4, <1>5 DEF TInv, TypeOK

(* An active request is refused, is the victim of a deadlock, or dies.     *)
Leaves(r) == Active(r) /\ Rollback(r)

(* A step of the system is the beginning of a request, a statement of it,  *)
(* its COMMIT, or its rollback.                                            *)
LEMMA StepsOf ==
  ASSUME Next
  PROVE  \E r \in Requests : Begin(r) \/ Inside(r) \/ Commit(r) \/ Leaves(r)
<1>1. PICK r \in Requests : Begin(r) \/ Step(r) \/ Crash(r)
  BY DEF Next
<1>2. CASE Begin(r)
  BY <1>2
<1>3. CASE Step(r) /\ ~Refused(r) /\ ~Victim(r)
  BY <1>3 DEF Step, Inside
<1>4. CASE Refused(r)
  BY <1>4 DEF Refused, Leaves, Active, Ended
<1>5. CASE Victim(r)
  <2>1. WaitsFor(r) # {}
    BY <1>5 DEF Victim, OnCycle
  <2>2. stage[r] \in {"delete", "insert"}
    BY <2>1 DEF WaitsFor
  <2> QED BY <1>5, <2>2 DEF Victim, Leaves, Active, Ended
<1>6. CASE Crash(r)
  BY <1>6 DEF Crash, Leaves
<1> QED BY <1>1, <1>2, <1>3, <1>4, <1>5, <1>6

(* Every statement writes one record, and moves within the transaction.    *)
LEMMA InsideWrites ==
  ASSUME TInv, NEW r \in Requests, Inside(r)
  PROVE  \E label, rec : Wrote(r, label, rec)
<1>1. CASE StartPair(r)
  BY <1>1, StartPairWrites
<1>2. CASE DeleteRows(r)
  BY <1>2, DeleteRowsWrites
<1>3. CASE ListShares(r)
  BY <1>3, ListSharesWrites
<1>4. CASE ListPayments(r)
  BY <1>4, ListPaymentsWrites
<1>5. CASE NextPayment(r)
  BY <1>5, NextPaymentWrites
<1>6. CASE NextShare(r)
  BY <1>6, NextShareWrites
<1>7. CASE InsertRow(r)
  BY <1>7, InsertRowWrites
<1>8. CASE EndPayment(r) \/ EndPair(r) \/ EndCharge(r)
  BY <1>8, EndsWrite
<1> QED BY <1>1, <1>2, <1>3, <1>4, <1>5, <1>6, <1>7, <1>8 DEF Inside

(* The types hold at first, when nothing has begun. *)
LEMMA InitTyped == Init => TInv
<1> SUFFICES ASSUME Init PROVE TInv
  OBVIOUS
<1>1. stage \in [Requests -> Stages] /\ \A r \in Requests : stage[r] = "idle"
  BY DEF Init, Stages
<1>2. tx \in [Requests -> Transactions]
  BY FreshIsTransaction DEF Init
<1>3. rows \in Allocs
  BY DEF Init, NoRows, Allocs
<1>4. paid \in Seq(Pays) /\ charged \in Seq(Charges)
  BY DEF Init
<1>5. met \in [Requests -> SUBSET Requests]
  BY DEF Init
<1>6. \A r \in Requests : Located(r)
  BY <1>1 DEF Located, Active
<1> QED BY <1>1, <1>2, <1>3, <1>4, <1>5, <1>6 DEF TInv, TypeOK

(* And every step keeps them. *)
LEMMA StepTyped ==
  ASSUME TInv, [Next]_vars
  PROVE  TInv'
<1>1. CASE Next
  <2>1. PICK r \in Requests : Begin(r) \/ Inside(r) \/ Commit(r) \/ Leaves(r)
    BY <1>1, StepsOf
  <2> QED BY <2>1, BeginKeepsTypes, InsideKeepsTypes, EndKeepsTypes DEF Leaves
<1>2. CASE UNCHANGED vars
  BY <1>2 DEF vars, TInv, TypeOK, Located, Active
<1> QED BY <1>1, <1>2

-----------------------------------------------------------------------------
(***************************************************************************)
(* Who meets whom.                                                         *)
(***************************************************************************)

(* A request that begins meets every request that is active. *)
LEMMA StepMeets ==
  ASSUME TInv, MetAll, Next
  PROVE  MetAll'
<1>1. PICK r \in Requests : Begin(r) \/ Inside(r) \/ Commit(r) \/ Leaves(r)
  BY StepsOf
<1> SUFFICES ASSUME NEW a \in Requests, NEW b \in Requests,
                    Active(a)', Active(b)', b # a
             PROVE  b \in met'[a]
  BY DEF MetAll
<1>2. CASE Begin(r)
  <2>1. \A q \in Requests \ {r} : stage'[q] = stage[q]
    BY <1>2 DEF Begin, Goto, TInv, TypeOK
  <2>2. /\ met'[r] = Others(r)
        /\ \A q \in Requests \ {r} :
             met'[q] = IF q \in Others(r) THEN met[q] \cup {r} ELSE met[q]
    BY <1>2 DEF Begin
  <2>3. \A q \in Requests \ {r} : Active(q)' => Active(q)
    BY <2>1 DEF Active
  <2> QED BY <2>2, <2>3 DEF MetAll, Others
<1>3. CASE ~Begin(r)
  <2>1. met' = met
    <3>1. CASE Inside(r)
      BY <3>1, InsideWrites DEF Wrote
    <3>2. CASE Commit(r) \/ Leaves(r)
      BY <3>2 DEF Commit, Leaves, Rollback, Unchanged
    <3> QED BY <1>1, <1>3, <3>1, <3>2
  <2>2. \A q \in Requests : Active(q)' => Active(q)
    <3>1. CASE Inside(r)
      <4>1. PICK label, rec : Wrote(r, label, rec)
        BY <3>1, InsideWrites
      <4>2. Active(r) /\ \A q \in Requests \ {r} : stage'[q] = stage[q]
        BY <4>1, WroteIs DEF TInv
      <4> QED BY <4>2 DEF Active
    <3>2. CASE Commit(r) \/ Leaves(r)
      <4>1. /\ stage'[r] \in Ended
            /\ \A q \in Requests \ {r} : stage'[q] = stage[q]
        BY <3>2 DEF Commit, Leaves, Rollback, Goto, TInv, TypeOK, Ended
      <4> QED BY <4>1 DEF Active
    <3> QED BY <1>1, <1>3, <3>1, <3>2
  <2> QED BY <2>1, <2>2 DEF MetAll
<1> QED BY <1>2, <1>3

(* While a request has met nobody, no step is another one's: a statement   *)
(* needs an active request, and a request that begins is met.              *)
LEMMA QuietIsAlone ==
  ASSUME TInv, MetAll, NEW r \in Requests, NEW q \in Requests, r # q,
         Begin(q) \/ Inside(q) \/ Commit(q) \/ Leaves(q)
  PROVE  ~Quiet(r)'
<1> SUFFICES ASSUME Quiet(r)'
             PROVE  FALSE
  OBVIOUS
<1>1. CASE Begin(q)
  <2>1. stage'[r] = stage[r]
    BY <1>1 DEF Begin, Goto, TInv, TypeOK
  <2>2. r \in Others(q)
    BY <2>1 DEF Quiet, Active, Others
  <2>3. q \in met'[r]
    BY <1>1, <2>2 DEF Begin
  <2> QED BY <2>3 DEF Quiet
<1>2. CASE ~Begin(q)
  <2>1. /\ Active(q) /\ met' = met
        /\ stage'[r] = stage[r]
    <3>1. CASE Inside(q)
      <4>1. PICK label, rec : Wrote(q, label, rec)
        BY <3>1, InsideWrites
      <4> QED BY <4>1, WroteIs DEF TInv
    <3>2. CASE Commit(q) \/ Leaves(q)
      BY <3>2 DEF Commit, Leaves, Rollback, Unchanged, Goto, TInv, TypeOK, Active, Ended
    <3> QED BY <1>2, <3>1, <3>2
  <2>2. Active(r) /\ met[r] = {}
    BY <2>1 DEF Quiet, Active
  <2> QED BY <2>1, <2>2 DEF MetAll
<1> QED BY <1>1, <1>2

-----------------------------------------------------------------------------
(***************************************************************************)
(* What a statement does to the rows its request sees.                     *)
(***************************************************************************)

(* Nothing, if it neither deletes nor inserts. *)
LEMMA ViewStays ==
  ASSUME TInv, NEW r \in Requests, NEW label, NEW rec, Wrote(r, label, rec),
         rec.own = tx[r].own, rec.gone = tx[r].gone
  PROVE  View(r)' = View(r)
<1>1. tx'[r] = rec /\ rows' = rows
  BY WroteIs DEF TInv
<1>2. \A s \in Pays, e \in Charges : RowSeen(r, s, e)' = RowSeen(r, s, e)
  BY <1>1 DEF RowSeen
<1> QED BY <1>2 DEF View

(* A DELETE leaves no row that it found, unless r has inserted it since,   *)
(* adds none, and touches no other row.                                    *)
LEMMA DeleteLowers ==
  ASSUME TInv, NEW r \in Requests, DeleteRows(r)
  PROVE  /\ View(r)' \in Allocs
         /\ \A d : Within(View(r)', View(r), d)
         /\ \A s \in Pays, e \in Charges :
              tx[r].own[s][e] = 0 /\ (rows[s][e] > 0 => <<s, e>> \in tx[r].found)
                => View(r)'[s][e] = 0
         /\ \A s \in Pays, e \in Charges :
              <<s, e>> \notin tx[r].found => View(r)'[s][e] = View(r)[s][e]
<1>1. PICK rec :
        /\ Wrote(r, "shares", rec)
        /\ rec = [tx[r] EXCEPT !.gone = @ \cup tx[r].found, !.found = {}]
  BY DeleteRowsWrites
<1>2. /\ tx[r] \in Transactions /\ rows \in Allocs
      /\ tx'[r] = rec /\ rows' = rows
  BY <1>1, WroteIs DEF TInv, TypeOK
<1>3. rec.own = tx[r].own /\ rec.gone = tx[r].gone \cup tx[r].found
  BY <1>1, <1>2 DEF Transactions
<1>4. \A s \in Pays, e \in Charges : tx[r].own[s][e] \in Nat /\ rows[s][e] \in Nat
  BY <1>2 DEF Transactions, Allocs
<1>5. ASSUME NEW s \in Pays, NEW e \in Charges
      PROVE  /\ View(r)[s][e] = IF tx[r].own[s][e] > 0 THEN tx[r].own[s][e]
                                ELSE IF <<s, e>> \in tx[r].gone THEN 0 ELSE rows[s][e]
             /\ View(r)'[s][e] = IF tx[r].own[s][e] > 0 THEN tx[r].own[s][e]
                                 ELSE IF <<s, e>> \in tx[r].gone \cup tx[r].found
                                      THEN 0 ELSE rows[s][e]
  BY <1>2, <1>3 DEF View, RowSeen
<1> DEFINE new == View(r)'
           own == tx[r].own
           gone == tx[r].gone
           found == tx[r].found
<1> HIDE DEF new, own, gone, found
<1>6. ASSUME NEW s \in Pays, NEW e \in Charges
      PROVE  /\ new[s][e] \in Nat
             /\ new[s][e] <= View(r)[s][e]
             /\ own[s][e] = 0 /\ (rows[s][e] > 0 => <<s, e>> \in found)
                  => new[s][e] = 0
             /\ <<s, e>> \notin found => new[s][e] = View(r)[s][e]
  BY <1>4, <1>5 DEF new, own, gone, found
<1>7. new \in Allocs
  <2>1. new = [s \in Pays |-> [e \in Charges |-> RowSeen(r, s, e)']]
    BY DEF new, View
  <2>2. new = [s \in Pays |-> [e \in Charges |-> new[s][e]]]
    BY <2>1
  <2> QED BY <1>6, <2>2 DEF Allocs
<1> QED BY <1>6, <1>7 DEF Within, new, own, found

(* An INSERT sets the row that it inserts. *)
LEMMA InsertSets ==
  ASSUME TInv, NEW r \in Requests, InsertRow(r)
  PROVE  View(r)' = [View(r) EXCEPT ![tx[r].pay][tx[r].share] = tx[r].take]
<1> DEFINE p == tx[r].pay
           f == tx[r].share
           n == tx[r].take
<1>1. PICK left, rec :
        /\ left \in Int
        /\ Wrote(r, "share", rec)
        /\ rec = [tx[r] EXCEPT !.own[tx[r].pay][tx[r].share] = tx[r].take,
                          !.remaining = left,
                          !.ahead = IF left > 0 THEN @ ELSE {}]
  BY InsertRowWrites
<1>2. /\ tx[r] \in Transactions /\ tx'[r] = rec /\ rows' = rows
      /\ p \in Pays /\ f \in Charges /\ n > 0
  BY <1>1, WroteIs DEF TInv, TypeOK, Located, InsertRow
<1>3. /\ rec.own = [tx[r].own EXCEPT ![p][f] = n]
      /\ rec.gone = tx[r].gone
  BY <1>1, <1>2 DEF Transactions
<1>4. \A s \in Pays, e \in Charges :
        rec.own[s][e] = IF s = p /\ e = f THEN n ELSE tx[r].own[s][e]
  BY <1>2, <1>3 DEF Transactions, Allocs
<1> HIDE DEF p, f, n
<1>5. ASSUME NEW s \in Pays, NEW e \in Charges
      PROVE  RowSeen(r, s, e)' = IF s = p /\ e = f THEN n ELSE RowSeen(r, s, e)
  BY <1>2, <1>3, <1>4 DEF RowSeen
<1>6. View(r)' = [s \in Pays |-> [e \in Charges |->
                   IF s = p /\ e = f THEN n ELSE RowSeen(r, s, e)]]
  BY <1>5 DEF View
<1>7. [View(r) EXCEPT ![p][f] = n]
        = [s \in Pays |-> [e \in Charges |->
             IF s = p /\ e = f THEN n ELSE RowSeen(r, s, e)]]
  BY <1>2 DEF View
<1> QED BY <1>6, <1>7 DEF p, f, n

-----------------------------------------------------------------------------
(***************************************************************************)
(* A statement keeps sound what its request sees, and bounded what it is   *)
(* about to insert.                                                        *)
(***************************************************************************)

(* A statement that neither deletes nor inserts: the view is the same, and *)
(* what remains and what is taken is what the statement has read.          *)
LEMMA ReadersKeepBounds ==
  ASSUME TInv, NEW r \in Requests, Bounded(r), Inside(r),
         ~DeleteRows(r), ~InsertRow(r)
  PROVE  Bounded(r)' /\ View(r)' = View(r)
<1>0. tx[r] \in Transactions /\ TypeOK
  BY DEF TInv, TypeOK
<1>1. CASE StartPair(r)
  <2>1. PICK d, rec :
          /\ Wrote(r, "delete", rec)
          /\ rec = [tx[r] EXCEPT !.pair = d, !.left = @ \ {d},
                        !.found = {m \in Pays \X Charges :
                                     Debtor[m[1]] = d /\ rows[m[1]][m[2]] > 0}]
    BY <1>1, StartPairWrites
  <2>2. stage'[r] = "delete" /\ rec.own = tx[r].own /\ rec.gone = tx[r].gone
    BY <1>0, <2>1, WroteIs DEF Transactions
  <2> QED BY <2>1, <2>2, ViewStays DEF Bounded
<1>2. CASE ListShares(r)
  <2> DEFINE rec == [tx[r] EXCEPT
                 !.shares = {e \in Charges : Seen(r, e) /\ Due[e][tx[r].pair] > 0}]
  <2>1. PICK label \in {"payment", "payments"} : Wrote(r, label, rec)
    BY <1>2, ListSharesWrites
  <2>2. stage'[r] = label /\ rec.own = tx[r].own /\ rec.gone = tx[r].gone
    BY <1>0, <2>1, WroteIs DEF Transactions
  <2> QED BY <2>1, <2>2, ViewStays DEF Bounded
<1>3. CASE ListPayments(r)
  <2>1. PICK rec :
          /\ Wrote(r, "payment", rec)
          /\ rec = [tx[r] EXCEPT
                 !.payments = {s \in Pays : Seen(r, s) /\ Debtor[s] = tx[r].pair}]
    BY <1>3, ListPaymentsWrites
  <2>2. stage'[r] = "payment" /\ rec.own = tx[r].own /\ rec.gone = tx[r].gone
    BY <1>0, <2>1, WroteIs DEF Transactions
  <2> QED BY <2>1, <2>2, ViewStays DEF Bounded
<1>4. CASE NextPayment(r)
  <2>1. PICK s, rec :
          /\ s \in Pays /\ RemainingSeen(r, s) \in Int
          /\ Wrote(r, "share", rec)
          /\ rec = [tx[r] EXCEPT !.payments = @ \ {s}, !.pay = s,
                            !.remaining = RemainingSeen(r, s),
                            !.ahead = IF RemainingSeen(r, s) > 0
                                      THEN tx[r].shares ELSE {}]
    BY <1>4, NextPaymentWrites
  <2>2. /\ stage'[r] = "share" /\ tx'[r] = rec
        /\ rec.own = tx[r].own /\ rec.gone = tx[r].gone
        /\ rec.pay = s /\ rec.remaining = RemainingSeen(r, s)
    BY <1>0, <2>1, WroteIs DEF Transactions
  <2>3. View(r)' = View(r)
    BY <2>1, <2>2, ViewStays
  <2>4. tx'[r].remaining = Amount[tx'[r].pay] - Spent(View(r)', tx'[r].pay)
    BY <2>2, <2>3 DEF RemainingSeen
  <2>5. tx'[r].remaining \in Int
    BY <2>1, <2>2
  <2> HIDE DEF Bounded
  <2>6. Bounded(r)'
    BY <2>2, <2>4, <2>5 DEF Bounded
  <2> QED BY <2>3, <2>6
<1>5. CASE NextShare(r)
  <2> DEFINE e == First(tx[r].ahead)
             open == OpenSeen(r, e)
             rec == [tx[r] EXCEPT !.ahead = @ \ {e}, !.share = e,
                                  !.take = IF open < tx[r].remaining
                                           THEN open ELSE tx[r].remaining]
  <2>1. PICK label \in {"insert", "share"} :
          /\ e \in Charges /\ open \in Int
          /\ Wrote(r, label, rec)
    BY <1>5, NextShareWrites
  <2>2. open = Due[e][tx[r].pair] - Settled(View(r), e, tx[r].pair)
    BY DEF OpenSeen
  <2> HIDE DEF e, open
  <2>3. /\ stage'[r] = label /\ tx'[r] = rec
        /\ rec.own = tx[r].own /\ rec.gone = tx[r].gone
        /\ rec.pay = tx[r].pay /\ rec.remaining = tx[r].remaining
        /\ rec.pair = tx[r].pair /\ rec.share = e
        /\ rec.take = IF open < tx[r].remaining THEN open ELSE tx[r].remaining
    BY <1>0, <2>1, WroteIs DEF Transactions
  <2> HIDE DEF rec
  <2>4. View(r)' = View(r)
    BY <2>1, <2>3, ViewStays
  <2>5. tx[r].remaining <= Amount[tx[r].pay] - Spent(View(r), tx[r].pay)
    BY <1>5 DEF Bounded, NextShare
  <2>6. rec.take <= open
    BY <1>0, <2>1, <2>3 DEF Transactions
  <2>7. tx'[r].remaining <= Amount[tx'[r].pay] - Spent(View(r)', tx'[r].pay)
    BY <2>3, <2>4, <2>5
  <2>8. tx'[r].take <= Due[tx'[r].share][tx'[r].pair]
                         - Settled(View(r)', tx'[r].share, tx'[r].pair)
    BY <2>2, <2>3, <2>4, <2>6
  <2> QED BY <2>4, <2>7, <2>8 DEF Bounded
<1>6. CASE EndPayment(r) \/ EndPair(r) \/ EndCharge(r)
  <2>1. PICK label \in {"payment", "commit", "pair"} : Wrote(r, label, tx[r])
    BY <1>6, EndsWrite
  <2>2. stage'[r] = label
    BY <1>0, <2>1, WroteIs
  <2> QED BY <2>1, <2>2, ViewStays DEF Bounded
<1> QED BY <1>1, <1>2, <1>3, <1>4, <1>5, <1>6 DEF Inside

(* An INSERT takes no more than the share and the payment have left: the   *)
(* rows stay sound, and the rest of the payment is what it has left.       *)
LEMMA InsertKeepsBounds ==
  ASSUME TInv, NEW r \in Requests, Bounded(r), InsertRow(r)
  PROVE  /\ Bounded(r)'
         /\ \A d \in Debtors : PairSound(View(r), d) => PairSound(View(r)', d)
<1> DEFINE p == tx[r].pay
           f == tx[r].share
           n == tx[r].take
<1>0. tx[r] \in Transactions /\ TypeOK
  BY DEF TInv, TypeOK
<1>1. PICK left, rec :
        /\ left = tx[r].remaining - n
        /\ Wrote(r, "share", rec)
        /\ rec = [tx[r] EXCEPT !.own[tx[r].pay][tx[r].share] = tx[r].take,
                          !.remaining = left,
                          !.ahead = IF left > 0 THEN @ ELSE {}]
  BY InsertRowWrites
<1>2. /\ stage'[r] = "share" /\ tx'[r].pay = p /\ tx'[r].remaining = left
  <2>1. stage'[r] = "share" /\ tx'[r] = rec
    BY <1>0, <1>1, WroteIs
  <2>2. rec.pay = tx[r].pay /\ rec.remaining = left
    BY <1>0, <1>1 DEF Transactions
  <2> QED BY <2>1, <2>2
<1>3. /\ p \in Pays /\ f \in Charges /\ n \in Nat /\ tx[r].remaining \in Int
      /\ Debtor[p] = tx[r].pair /\ n <= tx[r].remaining
  BY <1>0 DEF TInv, Located, InsertRow, Transactions
<1>4. /\ tx[r].remaining <= Amount[p] - Spent(View(r), p)
      /\ n <= Due[f][Debtor[p]] - Settled(View(r), f, Debtor[p])
  BY <1>3 DEF Bounded, InsertRow
<1> HIDE DEF p, f, n
<1>5. View(r) \in Allocs /\ View(r)' = [View(r) EXCEPT ![p][f] = n]
  BY <1>0, InsertSets, ViewIsRows DEF p, f, n
<1>6. /\ Spent(View(r), p) \in Nat /\ Amount[p] \in Nat
  BY <1>3, <1>5, SumsAreNatural, Numbers
<1>7. n <= Amount[p] - Spent(View(r), p)
  BY <1>3, <1>4, <1>6
<1> DEFINE new == View(r)'
<1>8. new = [View(r) EXCEPT ![p][f] = n]
  BY <1>5
<1> HIDE DEF new
<1>9. /\ new \in Allocs
      /\ Spent(new, p) <= Spent(View(r), p) + n
      /\ \A d \in Debtors : PairSound(View(r), d) => PairSound(new, d)
  BY <1>3, <1>4, <1>5, <1>7, <1>8, RowWithin
<1>10. Spent(new, p) \in Nat
  BY <1>3, <1>9, SumsAreNatural
<1>11. left <= Amount[p] - Spent(new, p)
  BY <1>1, <1>3, <1>4, <1>6, <1>9, <1>10
<1>12. tx'[r].remaining <= Amount[tx'[r].pay] - Spent(View(r)', tx'[r].pay)
  BY <1>2, <1>11 DEF new
<1> QED BY <1>2, <1>9, <1>12 DEF Bounded, new

(* All together. *)
LEMMA InsideKeepsBounds ==
  ASSUME TInv, NEW r \in Requests, Bounded(r), Inside(r)
  PROVE  /\ Bounded(r)'
         /\ \A d \in Debtors : PairSound(View(r), d) => PairSound(View(r)', d)
<1>1. CASE DeleteRows(r)
  <2>1. Bounded(r)'
    <3>1. stage'[r] = "shares"
      BY <1>1, DeleteRowsWrites, WroteIs DEF TInv
    <3> QED BY <3>1 DEF Bounded
  <2>2. View(r) \in Allocs /\ View(r)' \in Allocs
    BY <1>1, DeleteLowers, ViewIsRows DEF TInv
  <2> QED BY <1>1, <2>1, <2>2, DeleteLowers, FewerSound
<1>2. CASE InsertRow(r)
  BY <1>2, InsertKeepsBounds
<1>3. CASE ~DeleteRows(r) /\ ~InsertRow(r)
  BY <1>3, ReadersKeepBounds
<1> QED BY <1>1, <1>2, <1>3

-----------------------------------------------------------------------------
(***************************************************************************)
(* A rebuild that is alone.                                                *)
(***************************************************************************)

(* A request that begins has nothing behind it yet. *)
LEMMA BeginBuilds ==
  ASSUME TInv, NEW r \in Requests, Begin(r)
  PROVE  /\ Bounded(r)' /\ (r \in Charges => Rebuilt(r)')
         /\ View(r)' = rows
<1>1. PICK rec :
        /\ rec = IF r \in Pays
                 THEN [Fresh EXCEPT !.pair = Debtor[r], !.payments = {r}]
                 ELSE [Fresh EXCEPT !.left = {d \in Debtors : Due[r][d] > 0}]
        /\ tx' = [tx EXCEPT ![r] = rec]
  BY DEF Begin
<1>2. /\ tx'[r] = rec /\ rows' = rows
      /\ stage'[r] = IF r \in Pays THEN "shares" ELSE "pair"
  BY <1>1 DEF TInv, TypeOK, Begin, Goto
<1>3. /\ rec.own = NoRows /\ rec.gone = {}
      /\ r \notin Pays => rec.left = {d \in Debtors : Due[r][d] > 0}
  BY <1>1 DEF Fresh
<1>4. \A s \in Pays, e \in Charges : NoRows[s][e] = 0
  BY DEF NoRows
<1>5. Bounded(r)'
  BY <1>2 DEF Bounded
<1>6. ASSUME r \in Charges PROVE Rebuilt(r)'
  <2>1. r \notin Pays
    BY <1>6, Numbers
  <2>2. Unbuilt(r)' = {d \in Debtors : Due[r][d] > 0}
    BY <1>2, <1>3, <2>1 DEF Unbuilt
  <2> QED BY <1>2, <1>3, <1>4, <2>1, <2>2 DEF Rebuilt
<1>7. View(r)' = rows
  <2>1. \A s \in Pays, e \in Charges : RowSeen(r, s, e)' = rows[s][e]
    BY <1>2, <1>3, <1>4 DEF RowSeen
  <2>2. View(r)' = [s \in Pays |-> [e \in Charges |-> rows[s][e]]]
    BY <2>1 DEF View
  <2>3. rows = [s \in Pays |-> [e \in Charges |-> rows[s][e]]]
    BY DEF TInv, TypeOK, Allocs
  <2> QED BY <2>2, <2>3
<1> QED BY <1>5, <1>6, <1>7

(* A statement that leaves alone the pairs, the rows and the stage the     *)
(* rebuild depends on keeps what is rebuilt.                               *)
LEMMA SamePairsRebuilt ==
  ASSUME TInv, NEW r \in Requests, Rebuilt(r), NEW label, NEW rec,
         Wrote(r, label, rec), View(r)' = View(r),
         rec.own = tx[r].own, rec.left = tx[r].left, rec.pair = tx[r].pair,
         stage[r] \notin {"delete", "pair"}, label # "delete",
         label = "commit" => tx[r].left = {}
  PROVE  Rebuilt(r)'
<1>1. stage'[r] = label /\ tx'[r] = rec /\ rows' = rows
  BY WroteIs DEF TInv
<1>2. Unbuilt(r)' = Unbuilt(r)
  BY <1>1 DEF Unbuilt
<1> QED BY <1>1, <1>2 DEF Rebuilt

(* The statements of a rebuild that meets nobody rebuild the pairs one by  *)
(* one: the pair of the DELETE is left without rows, and rows are inserted *)
(* for the pair that is being rebuilt only.                                *)
LEMMA InsideRebuilds ==
  ASSUME TInv, NEW r \in Requests, r \in Charges, Inside(r), Bounded(r), Rebuilt(r)
  PROVE  Rebuilt(r)'
<1>0. tx[r] \in Transactions /\ TypeOK /\ r \notin Pays
  BY Numbers DEF TInv, TypeOK
<1>1. CASE StartPair(r)
  <2>1. PICK d, rec :
          /\ d \in tx[r].left
          /\ d \in Debtors /\ Wrote(r, "delete", rec)
          /\ rec = [tx[r] EXCEPT !.pair = d, !.left = @ \ {d},
                        !.found = {m \in Pays \X Charges :
                                     Debtor[m[1]] = d /\ rows[m[1]][m[2]] > 0}]
    BY <1>1, StartPairWrites
  <2>2. stage'[r] = "delete" /\ tx'[r] = rec /\ rows' = rows
    BY <1>0, <2>1, WroteIs
  <2>3. /\ rec.own = tx[r].own /\ rec.gone = tx[r].gone
        /\ rec.pair = d /\ rec.left = tx[r].left \ {d}
        /\ rec.found = {m \in Pays \X Charges :
                          Debtor[m[1]] = d /\ rows[m[1]][m[2]] > 0}
    BY <1>0, <2>1 DEF Transactions
  <2>4. View(r)' = View(r)
    BY <2>1, <2>3, ViewStays
  <2>5. Unbuilt(r) = tx[r].left
    BY <1>1 DEF Unbuilt, StartPair
  <2>6. Unbuilt(r)' = Unbuilt(r)
    BY <2>1, <2>2, <2>3, <2>5 DEF Unbuilt
  <2>7. \A s \in Pays, e \in Charges :
          Debtor[s] = d /\ rows[s][e] > 0 => <<s, e>> \in rec.found
    BY <2>3
  <2>8. \A b \in Unbuilt(r)', s \in Pays, e \in Charges :
          Debtor[s] = b => tx'[r].own[s][e] = 0
    BY <2>2, <2>3, <2>6 DEF Rebuilt
  <2>9. \A b \in Debtors :
          Due[r][b] > 0 /\ b \notin Unbuilt(r)' => PairSound(View(r)', b)
    BY <2>4, <2>6 DEF Rebuilt
  <2> QED BY <2>2, <2>3, <2>7, <2>8, <2>9 DEF Rebuilt
<1>2. CASE DeleteRows(r)
  <2>1. PICK rec :
          /\ Wrote(r, "shares", rec)
          /\ rec = [tx[r] EXCEPT !.gone = @ \cup tx[r].found, !.found = {}]
    BY <1>2, DeleteRowsWrites
  <2>2. stage'[r] = "shares" /\ tx'[r] = rec /\ rows' = rows
    BY <1>0, <2>1, WroteIs
  <2>3. /\ rec.own = tx[r].own /\ rec.left = tx[r].left /\ rec.pair = tx[r].pair
        /\ stage[r] = "delete" /\ tx[r].pair \in Debtors
    BY <1>0, <1>2, <2>1 DEF Transactions, DeleteRows, TInv, Located
  <2>4. Unbuilt(r) = tx[r].left \cup {tx[r].pair} /\ Unbuilt(r)' = tx[r].left
    BY <2>2, <2>3 DEF Unbuilt
  <2>5. PairSound(View(r)', tx[r].pair)
    <3>1. \A s \in Pays, e \in Charges : Debtor[s] = tx[r].pair =>
            /\ tx[r].own[s][e] = 0
            /\ rows[s][e] > 0 => <<s, e>> \in tx[r].found
      BY <2>3, <2>4 DEF Rebuilt
    <3>2. \A s \in Pays, e \in Charges : Debtor[s] = tx[r].pair => View(r)'[s][e] = 0
      BY <1>2, <3>1, DeleteLowers
    <3> DEFINE new == View(r)'
               d == tx[r].pair
    <3>3. new \in Allocs /\ d \in Debtors
      BY <1>2, <2>3, DeleteLowers
    <3>4. \A s \in Pays, e \in Charges : Debtor[s] = d => new[s][e] = 0
      BY <3>2
    <3> HIDE DEF new, d
    <3>5. PairSound(new, d)
      BY <3>3, <3>4, EmptySound
    <3> QED BY <3>5 DEF new, d
  <2>6. \A b \in Debtors :
          Due[r][b] > 0 /\ b \notin Unbuilt(r)' => PairSound(View(r)', b)
    BY <1>2, <2>4, <2>5, InsideKeepsBounds DEF Rebuilt
  <2>7. \A b \in Unbuilt(r)', s \in Pays, e \in Charges :
          Debtor[s] = b => tx'[r].own[s][e] = 0
    BY <2>2, <2>3, <2>4 DEF Rebuilt
  <2> QED BY <2>2, <2>3, <2>6, <2>7 DEF Rebuilt
<1>3. CASE ListShares(r)
  <2> DEFINE rec == [tx[r] EXCEPT
                 !.shares = {e \in Charges : Seen(r, e) /\ Due[e][tx[r].pair] > 0}]
  <2>1. PICK label \in {"payment", "payments"} : Wrote(r, label, rec)
    BY <1>3, ListSharesWrites
  <2>2. rec.own = tx[r].own /\ rec.left = tx[r].left /\ rec.pair = tx[r].pair
    BY <1>0 DEF Transactions
  <2> HIDE DEF rec
  <2>3. View(r)' = View(r) /\ stage[r] \notin {"delete", "pair"}
    BY <1>3, ReadersKeepBounds DEF ListShares, DeleteRows, InsertRow
  <2> QED BY <2>1, <2>2, <2>3, SamePairsRebuilt
<1>4. CASE ListPayments(r)
  <2>1. PICK rec :
          /\ Wrote(r, "payment", rec)
          /\ rec = [tx[r] EXCEPT
                 !.payments = {s \in Pays : Seen(r, s) /\ Debtor[s] = tx[r].pair}]
    BY <1>4, ListPaymentsWrites
  <2>2. rec.own = tx[r].own /\ rec.left = tx[r].left /\ rec.pair = tx[r].pair
    BY <1>0, <2>1 DEF Transactions
  <2>3. View(r)' = View(r) /\ stage[r] \notin {"delete", "pair"}
    BY <1>4, ReadersKeepBounds DEF ListPayments, DeleteRows, InsertRow
  <2> QED BY <2>1, <2>2, <2>3, SamePairsRebuilt
<1>5. CASE NextPayment(r)
  <2>1. PICK s, rec :
          /\ Wrote(r, "share", rec)
          /\ rec = [tx[r] EXCEPT !.payments = @ \ {s}, !.pay = s,
                            !.remaining = RemainingSeen(r, s),
                            !.ahead = IF RemainingSeen(r, s) > 0
                                      THEN tx[r].shares ELSE {}]
    BY <1>5, NextPaymentWrites
  <2>2. rec.own = tx[r].own /\ rec.left = tx[r].left /\ rec.pair = tx[r].pair
    BY <1>0, <2>1 DEF Transactions
  <2>3. View(r)' = View(r) /\ stage[r] \notin {"delete", "pair"}
    BY <1>5, ReadersKeepBounds DEF NextPayment, DeleteRows, InsertRow
  <2>4. Wrote(r, "share", rec)
    BY <2>1
  <2> QED BY <2>2, <2>3, <2>4, SamePairsRebuilt
<1>6. CASE NextShare(r)
  <2> DEFINE e == First(tx[r].ahead)
             open == OpenSeen(r, e)
             rec == [tx[r] EXCEPT !.ahead = @ \ {e}, !.share = e,
                                  !.take = IF open < tx[r].remaining
                                           THEN open ELSE tx[r].remaining]
  <2>1. PICK label \in {"insert", "share"} : Wrote(r, label, rec)
    BY <1>6, NextShareWrites
  <2> HIDE DEF e, open
  <2>2. rec.own = tx[r].own /\ rec.left = tx[r].left /\ rec.pair = tx[r].pair
    BY <1>0 DEF Transactions
  <2> HIDE DEF rec
  <2>3. View(r)' = View(r) /\ stage[r] \notin {"delete", "pair"}
    BY <1>6, ReadersKeepBounds DEF NextShare, DeleteRows, InsertRow
  <2> QED BY <2>1, <2>2, <2>3, SamePairsRebuilt
<1>7. CASE InsertRow(r)
  <2>1. PICK left, rec :
          /\ Wrote(r, "share", rec)
          /\ rec = [tx[r] EXCEPT !.own[tx[r].pay][tx[r].share] = tx[r].take,
                            !.remaining = left,
                            !.ahead = IF left > 0 THEN @ ELSE {}]
    BY <1>7, InsertRowWrites
  <2>2. stage'[r] = "share" /\ tx'[r] = rec /\ stage[r] = "insert"
    BY <1>0, <1>7, <2>1, WroteIs DEF InsertRow
  <2>3. /\ rec.own = [tx[r].own EXCEPT ![tx[r].pay][tx[r].share] = tx[r].take]
        /\ rec.left = tx[r].left /\ rec.pair = tx[r].pair
    BY <1>0, <2>1 DEF Transactions
  <2>4. tx[r].pay \in Pays /\ Debtor[tx[r].pay] = tx[r].pair /\ tx[r].pair \notin tx[r].left
    BY <2>2 DEF TInv, Located, Rebuilt
  <2>5. Unbuilt(r)' = tx[r].left /\ Unbuilt(r) = tx[r].left
    BY <2>2, <2>3 DEF Unbuilt
  <2>6. \A s \in Pays, e \in Charges :
          s # tx[r].pay => rec.own[s][e] = tx[r].own[s][e]
    BY <1>0, <2>3, <2>4 DEF Transactions, Allocs
  <2>7. \A b \in Unbuilt(r)', s \in Pays, e \in Charges :
          Debtor[s] = b => tx'[r].own[s][e] = 0
    BY <2>2, <2>4, <2>5, <2>6 DEF Rebuilt
  <2>8. \A b \in Debtors :
          Due[r][b] > 0 /\ b \notin Unbuilt(r)' => PairSound(View(r)', b)
    BY <2>5, InsideKeepsBounds DEF Rebuilt
  <2> QED BY <2>2, <2>3, <2>4, <2>7, <2>8 DEF Rebuilt
<1>8. CASE EndPayment(r) \/ EndPair(r)
  <2>1. PICK label \in {"payment", "pair"} : Wrote(r, label, tx[r])
    <3>1. PICK label \in {"payment", "commit", "pair"} :
            /\ label = "commit" => r \in Pays \/ tx[r].left = {}
            /\ Wrote(r, label, tx[r])
      BY <1>8, EndsWrite
    <3>2. label # "commit"
      BY <1>0, <1>8, <3>1, WroteIs DEF EndPayment, EndPair, Goto, TypeOK
    <3> QED BY <3>1, <3>2
  <2>2. View(r)' = View(r) /\ stage[r] \notin {"delete", "pair"}
    BY <1>8, ReadersKeepBounds DEF EndPayment, EndPair, DeleteRows, InsertRow
  <2> QED BY <2>1, <2>2, SamePairsRebuilt
<1>9. CASE EndCharge(r)
  <2>1. /\ stage'[r] = "commit" /\ tx' = tx /\ rows' = rows
        /\ stage[r] = "pair" /\ tx[r].left = {}
    BY <1>0, <1>9 DEF EndCharge, Goto, Unchanged, TypeOK
  <2>2. View(r)' = View(r)
    BY <1>9, ReadersKeepBounds DEF EndCharge, DeleteRows, InsertRow
  <2>3. Unbuilt(r)' = {} /\ Unbuilt(r) = {}
    BY <2>1 DEF Unbuilt
  <2> QED BY <2>1, <2>2, <2>3 DEF Rebuilt
<1> QED BY <1>1, <1>2, <1>3, <1>4, <1>5, <1>6, <1>7, <1>8, <1>9 DEF Inside

-----------------------------------------------------------------------------
(***************************************************************************)
(* The invariants.                                                         *)
(***************************************************************************)

(* At first nobody is active. *)
LEMMA InitQuiet == Init => RInv
<1> SUFFICES ASSUME Init PROVE RInv
  OBVIOUS
<1>1. TInv
  BY InitTyped
<1>2. \A r \in Requests : ~Active(r)
  BY DEF Init, Active
<1> QED BY <1>1, <1>2 DEF RInv, MetAll, Quiet

(* A step of a request that stays quiet keeps it bounded and rebuilt; a    *)
(* step of another one does not leave it quiet.                            *)
LEMMA StepQuiet ==
  ASSUME RInv, [Next]_vars
  PROVE  RInv'
<1>1. CASE Next
  <2>1. TInv' /\ MetAll'
    BY <1>1, StepTyped, StepMeets DEF RInv
  <2>2. ASSUME NEW r \in Requests, Quiet(r)'
        PROVE  Bounded(r)' /\ (r \in Charges => Rebuilt(r)')
    <3>1. PICK q \in Requests : Begin(q) \/ Inside(q) \/ Commit(q) \/ Leaves(q)
      BY <1>1, StepsOf
    <3>2. q = r
      BY <2>2, <3>1, QuietIsAlone DEF RInv
    <3>3. CASE Begin(r)
      BY <3>3, BeginBuilds DEF RInv
    <3>4. CASE Inside(r)
      <4>1. PICK label, rec : Wrote(r, label, rec)
        BY <3>4, InsideWrites DEF RInv
      <4>2. Active(r) /\ met' = met
        BY <4>1, WroteIs DEF RInv, TInv
      <4>3. Quiet(r)
        BY <2>2, <4>2 DEF Quiet
      <4> QED BY <3>4, <4>3, InsideKeepsBounds, InsideRebuilds DEF RInv
    <3>5. CASE Commit(r) \/ Leaves(r)
      <4>1. stage'[r] \in Ended
        BY <3>5 DEF RInv, TInv, TypeOK, Commit, Leaves, Rollback, Goto, Ended
      <4> QED BY <2>2, <4>1 DEF Quiet, Active
    <3> QED BY <3>1, <3>2, <3>3, <3>4, <3>5
  <2> QED BY <2>1, <2>2 DEF RInv
<1>2. CASE UNCHANGED vars
  BY <1>2, StepTyped DEF vars, RInv, MetAll, Quiet, Active, Bounded, Rebuilt, Unbuilt,
     View, RowSeen
<1> QED BY <1>1, <1>2

(* The state invariant behind the repair: what a request that has met      *)
(* nobody sees, inserts and has rebuilt.                                   *)
THEOREM QuietInvariance == Spec => []RInv
<1>1. Init => RInv
  BY InitQuiet
<1>2. RInv /\ [Next]_vars => RInv'
  BY StepQuiet
<1> QED BY <1>1, <1>2, PTL DEF Spec

(* QuietRebuildRepairs, for any requests and any number of writers: the    *)
(* COMMIT of an expense that has met nobody (rebuild_allocations_for_      *)
(* directed_pair, once per debtor) leaves no share of its debtors over     *)
(* settled and no payment of theirs over spent, whatever the overlapping   *)
(* requests before it had left behind.                                     *)
THEOREM QuietRepair == Spec => QuietRebuildRepairs
<1>1. ASSUME RInv, [Next]_vars,
             NEW r \in Charges, stage[r] = "commit", stage'[r] = "committed",
             met[r] = {}, NEW d \in Debtors, Due[r][d] > 0
      PROVE  PairSound(rows', d)
  <2>1. r \in Requests /\ Active(r) /\ Quiet(r)
    BY <1>1 DEF Requests, Active, Quiet, Ended
  <2>2. Rebuilt(r)
    BY <1>1, <2>1 DEF RInv
  <2>3. Unbuilt(r) = {}
    BY <1>1, <2>2 DEF Rebuilt, Unbuilt
  <2>4. PairSound(View(r), d)
    BY <1>1, <2>2, <2>3 DEF Rebuilt
  <2>5. rows' = View(r)
    <3>1. Next
      BY <1>1 DEF vars
    <3>2. PICK q \in Requests : Begin(q) \/ Inside(q) \/ Commit(q) \/ Leaves(q)
      BY <3>1, StepsOf
    <3>3. q = r
      <4> SUFFICES ASSUME q # r PROVE FALSE
        OBVIOUS
      <4>1. CASE Begin(q) \/ Commit(q) \/ Leaves(q)
        BY <1>1, <2>1, <4>1 DEF Begin, Commit, Leaves, Rollback, Goto, RInv, TInv, TypeOK
      <4>2. CASE Inside(q)
        <5>1. PICK label, rec : Wrote(q, label, rec)
          BY <1>1, <4>2, InsideWrites DEF RInv
        <5> QED BY <1>1, <2>1, <5>1, WroteIs DEF RInv, TInv
      <4> QED BY <3>2, <4>1, <4>2
    <3>4. ~Begin(r) /\ ~Leaves(r)
      BY <1>1, <2>1 DEF Begin, Leaves, Rollback, Goto, RInv, TInv, TypeOK
    <3>5. ~Inside(r)
      <4> SUFFICES ASSUME Inside(r) PROVE FALSE
        OBVIOUS
      <4>1. PICK label, rec : Wrote(r, label, rec)
        BY <1>1, <2>1, InsideWrites DEF RInv
      <4> QED BY <1>1, <2>1, <4>1, WroteIs DEF RInv, TInv, Wrote, Ended
    <3>6. Commit(r)
      BY <3>2, <3>3, <3>4, <3>5
    <3> QED BY <3>6 DEF Commit
  <2> QED BY <2>4, <2>5
<1>2. RInv /\ [Next]_vars =>
        [\A r \in Charges :
           stage[r] = "commit" /\ stage'[r] = "committed" /\ met[r] = {} =>
             \A d \in Debtors : Due[r][d] > 0 =>
               /\ \A e \in Charges : ShareSound(rows', e, d)
               /\ \A s \in Pays : Debtor[s] = d => PaymentSound(rows', s)]_vars
  BY <1>1 DEF PairSound
<1> QED BY <1>2, QuietInvariance, PTL DEF Spec, QuietRebuildRepairs

-----------------------------------------------------------------------------
(***************************************************************************)
(* One writer at a time (SQLite, or one gunicorn worker).                  *)
(***************************************************************************)

(* With one writer, a request begins when no other one is active. *)
LEMMA AloneBegins ==
  ASSUME Writers = 1, NEW r \in Requests, Begin(r)
  PROVE  Others(r) = {}
<1>1. Others(r) \subseteq 1 .. MaxRequest
  BY RaceAssumption DEF Others
<1>2. IsFiniteSet(1 .. MaxRequest)
  BY RaceAssumption, FS_Interval
<1>3. IsFiniteSet(Others(r))
  BY <1>1, <1>2, FS_Subset
<1>4. Cardinality(Others(r)) \in Nat /\ Cardinality(Others(r)) < 1
  BY <1>3, FS_CardinalityType DEF Begin
<1>5. Cardinality(Others(r)) = 0
  BY <1>4
<1> QED BY <1>3, <1>5, FS_EmptySet

(* At first there are no rows. *)
LEMMA InitSerial == Init => SInv
<1> SUFFICES ASSUME Init PROVE SInv
  OBVIOUS
<1>1. RInv
  BY InitQuiet
<1>2. \A r \in Requests : met[r] = {} /\ ~Active(r)
  BY DEF Init, Active
<1>3. rows \in Allocs /\ \A s \in Pays, e \in Charges : rows[s][e] = 0
  BY <1>1 DEF RInv, TInv, TypeOK, Init, NoRows
<1>4. \A d \in Debtors : PairSound(rows, d)
  BY <1>3, EmptySound
<1> QED BY <1>1, <1>2, <1>4 DEF SInv

(* Every transaction starts from sound rows, keeps what it sees sound, and *)
(* commits what it sees.                                                   *)
LEMMA StepSerial ==
  ASSUME Writers = 1, SInv, [Next]_vars
  PROVE  SInv'
<1>0. RInv'
  BY StepQuiet DEF SInv
<1>1. CASE Next
  <2>1. PICK r \in Requests : Begin(r) \/ Inside(r) \/ Commit(r) \/ Leaves(r)
    BY <1>1, StepsOf
  <2>2. TInv /\ MetAll /\ \A q \in Requests : met[q] = {}
    BY DEF SInv, RInv
  <2>3. CASE Begin(r)
    <3>1. Others(r) = {}
      BY <2>3, AloneBegins
    <3>2. /\ \A q \in Requests : met'[q] = {}
          /\ \A q \in Requests \ {r} : stage'[q] = stage[q]
          /\ rows' = rows
      BY <2>2, <2>3, <3>1 DEF Begin, Goto, TInv, TypeOK
    <3>3. \A q \in Requests \ {r} : ~Active(q)'
      BY <3>1, <3>2 DEF Others, Active
    <3>4. View(r)' = rows
      BY <2>2, <2>3, BeginBuilds
    <3>5. \A d \in Debtors : PairSound(rows, d)
      BY DEF SInv
    <3>6. \A q \in Requests : Active(q)' => \A d \in Debtors : PairSound(View(q)', d)
      BY <3>3, <3>4, <3>5
    <3> QED BY <1>0, <3>2, <3>5, <3>6 DEF SInv
  <2>4. CASE Inside(r)
    <3>1. PICK label, rec : Wrote(r, label, rec)
      BY <2>2, <2>4, InsideWrites
    <3>2. /\ Active(r) /\ met' = met /\ rows' = rows
          /\ \A q \in Requests \ {r} : stage'[q] = stage[q]
      BY <2>2, <3>1, WroteIs DEF TInv
    <3>3. \A q \in Requests \ {r} : ~Active(q)'
      BY <2>2, <3>2 DEF MetAll, Active
    <3>4. Quiet(r) /\ Bounded(r)
      BY <2>2, <3>2 DEF Quiet, SInv, RInv
    <3>5. \A d \in Debtors : PairSound(View(r), d) /\ PairSound(rows, d)
      BY <3>2 DEF SInv
    <3>6. \A d \in Debtors : PairSound(View(r)', d)
      BY <2>2, <2>4, <3>4, <3>5, InsideKeepsBounds
    <3>7. \A q \in Requests : Active(q)' => \A d \in Debtors : PairSound(View(q)', d)
      BY <3>3, <3>6
    <3> QED BY <1>0, <2>2, <3>2, <3>5, <3>7 DEF SInv
  <2>5. CASE Commit(r) \/ Leaves(r)
    <3>1. /\ met' = met /\ Active(r) /\ stage'[r] \in Ended
          /\ \A q \in Requests \ {r} : stage'[q] = stage[q]
      BY <2>2, <2>5 DEF Commit, Leaves, Rollback, Unchanged, Goto, TInv, TypeOK,
         Active, Ended
    <3>2. \A q \in Requests : ~Active(q)'
      BY <2>2, <3>1 DEF MetAll, Active
    <3>3. rows' = View(r) \/ rows' = rows
      BY <2>5 DEF Commit, Leaves, Rollback, Unchanged
    <3>4. \A d \in Debtors : PairSound(View(r), d) /\ PairSound(rows, d)
      BY <3>1 DEF SInv
    <3>5. \A d \in Debtors : PairSound(rows', d)
      BY <3>3, <3>4
    <3> QED BY <1>0, <2>2, <3>1, <3>2, <3>5 DEF SInv
  <2> QED BY <2>1, <2>3, <2>4, <2>5
<1>2. CASE UNCHANGED vars
  BY <1>0, <1>2 DEF vars, SInv, Active, View, RowSeen
<1> QED BY <1>1, <1>2

(* One write transaction at a time, no share is ever settled beyond its    *)
(* amount and no payment spent beyond its own: invariant (b) of            *)
(* SplitSettlementAllocation, and the two passes that "non possono mai     *)
(* allocare due volte" (allocations.py), whatever the requests, and        *)
(* wherever a worker dies.                                                 *)
THEOREM OneWriterIsSound ==
  ASSUME Writers = 1
  PROVE  Spec => [](SharesNeverOverSettled /\ SettlementsNeverOverSpent)
<1>1. Init => SInv
  BY InitSerial
<1>2. SInv /\ [Next]_vars => SInv'
  BY StepSerial
<1>3. SInv => SharesNeverOverSettled /\ SettlementsNeverOverSpent
  BY Numbers DEF SInv, PairSound, SharesNeverOverSettled, SettlementsNeverOverSpent
<1> QED BY <1>1, <1>2, <1>3, PTL DEF Spec

-----------------------------------------------------------------------------
(***************************************************************************)
(* One writer at a time, continued: what the loops of a transaction have   *)
(* written is what the atomic ledger writes.                               *)
(***************************************************************************)

(* The shares and the payments over which r loops for debtor d.            *)
Shares(r, d) == {e \in Charges : Seen(r, e) /\ Due[e][d] > 0}

Bills(r, d) == IF r \in Pays THEN {r} ELSE {s \in Pays : Seen(r, s) /\ Debtor[s] = d}

Closed(al, e, d) == Settled(al, e, d) = Due[e][d]
SpentUp(al, s) == Spent(al, s) = Amount[s]
Served(al, s, E, d) == SpentUp(al, s) \/ \A e \in E : Closed(al, e, d)

(* Shares by date, and payments by date: the rows of the payments S of d   *)
(* on the shares E.                                                        *)
InOrder(al, S, E, d) ==
  /\ \A s \in S, f \in Charges :
       al[s][f] > 0 => f \in E /\ \A e \in E : e < f => Closed(al, e, d)
  /\ \A s \in S, t \in S, e \in E :
       s < t /\ al[t][e] > 0 => SpentUp(al, s) /\ \A f \in E : e < f => al[s][f] = 0

(* The loops have come to their end: no money is idle. *)
Finished(al, S, E, d) == InOrder(al, S, E, d) /\ \A s \in S : Served(al, s, E, d)

(* The loop over the payments S: those of Q are to come, p is at hand.     *)
Passing(al, S, E, d, Q, p) ==
  /\ Q \subseteq S /\ InOrder(al, S, E, d)
  /\ \A t \in Q : (\A e \in Charges : al[t][e] = 0) /\ \A s \in S \ Q : s < t
  /\ \A s \in S \ Q : s = p \/ Served(al, s, E, d)

(* The loop over the shares E for payment p: those of A are to come.       *)
Reaching(al, E, p, A, left) ==
  /\ A \subseteq E
  /\ left = Amount[p] - Spent(al, p)
  /\ \A f \in A : al[p][f] = 0 /\ \A e \in E \ A : e < f

(* The shares that p has passed are closed, but for e; or p is spent.      *)
ClosedBut(al, E, A, e, d) == \A f \in E \ A : f = e \/ Closed(al, f, d)

ClosedOrSpent(al, E, A, left, d) ==
  (left = 0 /\ A = {}) \/ \A f \in E \ A : Closed(al, f, d)

(* What is taken: the rest of the payment, or what is open of the share.   *)
Taken(al, e, d, left, n) ==
  LET open == Due[e][d] - Settled(al, e, d)
  IN  open > 0 /\ n = IF open < left THEN open ELSE left

Rest(A, left) == IF left > 0 THEN A ELSE {}

(* What one more row does to the rows and to their sums.                   *)
RowAdded(al, new, s, e, n) ==
  /\ new \in Allocs
  /\ \A t \in Pays, f \in Charges :
       new[t][f] = IF t = s /\ f = e THEN n ELSE al[t][f]
  /\ \A f \in Charges : \A d :
       Settled(new, f, d)
         = Settled(al, f, d) + (IF f = e /\ d = Debtor[s] THEN n ELSE 0)
  /\ \A t \in Pays : Spent(new, t) = Spent(al, t) + (IF t = s THEN n ELSE 0)

(* One more row, where there was none.                                     *)
LEMMA RowAdds ==
  ASSUME NEW al \in Allocs, NEW s \in Pays, NEW e \in Charges, NEW n \in Nat,
         al[s][e] = 0, NEW new, new = [al EXCEPT ![s][e] = n]
  PROVE  RowAdded(al, new, s, e, n)
<1>1. /\ new \in Allocs
      /\ \A t \in Pays, f \in Charges :
           /\ new[t][f] = IF t = s /\ f = e THEN n ELSE al[t][f]
           /\ al[t][f] \in Nat /\ new[t][f] \in Nat
  BY DEF Allocs
<1>2. ASSUME NEW f \in Charges, NEW d
      PROVE  Settled(new, f, d)
               = Settled(al, f, d) + (IF f = e /\ d = Debtor[s] THEN n ELSE 0)
  <2> DEFINE a == [t \in 1 .. MaxRequest |->
                     IF t \in Pays /\ Debtor[t] = d THEN al[t][f] ELSE 0]
             b == [t \in 1 .. MaxRequest |->
                     IF t \in Pays /\ Debtor[t] = d THEN new[t][f] ELSE 0]
             m == IF f = e /\ d = Debtor[s] THEN n ELSE 0
  <2>1. \A t \in 1 .. MaxRequest : a[t] \in Int /\ b[t] \in Int
    BY <1>1
  <2>2. \A t \in 1 .. MaxRequest : t # s => b[t] = a[t]
    BY <1>1
  <2>3. s \in 1 .. MaxRequest /\ m \in Int /\ b[s] = a[s] + m
    BY <1>1, Numbers
  <2>4. MaxRequest \in Nat
    BY Numbers
  <2> HIDE DEF a, b, m
  <2>5. Total(b, MaxRequest) = Total(a, MaxRequest) + m
    BY <2>1, <2>2, <2>3, <2>4, TotalOneMore
  <2> QED BY <2>5 DEF Settled, a, b, m
<1>3. ASSUME NEW t \in Pays
      PROVE  Spent(new, t) = Spent(al, t) + (IF t = s THEN n ELSE 0)
  <2> DEFINE a == [x \in 1 .. MaxRequest |-> IF x \in Charges THEN al[t][x] ELSE 0]
             b == [x \in 1 .. MaxRequest |-> IF x \in Charges THEN new[t][x] ELSE 0]
             m == IF t = s THEN n ELSE 0
  <2>1. \A x \in 1 .. MaxRequest : a[x] \in Int /\ b[x] \in Int
    BY <1>1
  <2>2. \A x \in 1 .. MaxRequest : x # e => b[x] = a[x]
    BY <1>1
  <2>3. e \in 1 .. MaxRequest /\ m \in Int /\ b[e] = a[e] + m
    BY <1>1, Numbers
  <2>4. MaxRequest \in Nat
    BY Numbers
  <2> HIDE DEF a, b, m
  <2>5. Total(b, MaxRequest) = Total(a, MaxRequest) + m
    BY <2>1, <2>2, <2>3, <2>4, TotalOneMore
  <2> QED BY <2>5 DEF Spent, a, b, m
<1> QED BY <1>1, <1>2, <1>3 DEF RowAdded

(* The sums depend on their own rows only.                                 *)
LEMMA SumsAgree ==
  ASSUME NEW al \in Allocs, NEW new \in Allocs
  PROVE  /\ \A d : (\A s \in Pays, e \in Charges : Debtor[s] = d => new[s][e] = al[s][e])
                   => \A e \in Charges : Settled(new, e, d) = Settled(al, e, d)
         /\ \A s \in Pays : (\A e \in Charges : new[s][e] = al[s][e])
                            => Spent(new, s) = Spent(al, s)
<1>1. ASSUME NEW d,
             \A s \in Pays, e \in Charges : Debtor[s] = d => new[s][e] = al[s][e],
             NEW e \in Charges
      PROVE  Settled(new, e, d) = Settled(al, e, d)
  <2> DEFINE a == [t \in 1 .. MaxRequest |->
                     IF t \in Pays /\ Debtor[t] = d THEN al[t][e] ELSE 0]
             b == [t \in 1 .. MaxRequest |->
                     IF t \in Pays /\ Debtor[t] = d THEN new[t][e] ELSE 0]
  <2>1. \A t \in 1 .. MaxRequest : a[t] \in Int /\ b[t] = a[t]
    BY <1>1 DEF Allocs
  <2> HIDE DEF a, b
  <2>2. Total(b, MaxRequest) = Total(a, MaxRequest)
    BY <2>1, Numbers, TotalSame
  <2> QED BY <2>2 DEF Settled, a, b
<1>2. ASSUME NEW s \in Pays, \A e \in Charges : new[s][e] = al[s][e]
      PROVE  Spent(new, s) = Spent(al, s)
  <2> DEFINE a == [x \in 1 .. MaxRequest |-> IF x \in Charges THEN al[s][x] ELSE 0]
             b == [x \in 1 .. MaxRequest |-> IF x \in Charges THEN new[s][x] ELSE 0]
  <2>1. \A x \in 1 .. MaxRequest : a[x] \in Int /\ b[x] = a[x]
    BY <1>2 DEF Allocs
  <2> HIDE DEF a, b
  <2>2. Total(b, MaxRequest) = Total(a, MaxRequest)
    BY <2>1, Numbers, TotalSame
  <2> QED BY <2>2 DEF Spent, a, b
<1> QED BY <1>1, <1>2

(* The payments S of debtor d and the shares E it owes. *)
Pair(S, E, d) ==
  /\ d \in Debtors /\ S \subseteq Pays /\ E \subseteq Charges
  /\ \A s \in S : Debtor[s] = d

(* The loops of a pair do not depend on the rows of other debtors. *)
LEMMA FinishedStays ==
  ASSUME NEW al \in Allocs, NEW new \in Allocs, NEW S, NEW E, NEW d, Pair(S, E, d),
         \A s \in Pays, e \in Charges : Debtor[s] = d => new[s][e] = al[s][e],
         Finished(al, S, E, d)
  PROVE  Finished(new, S, E, d)
<1>1. \A e \in Charges : Settled(new, e, d) = Settled(al, e, d)
  BY SumsAgree
<1>2. \A s \in S : Spent(new, s) = Spent(al, s) /\ \A e \in Charges : new[s][e] = al[s][e]
  BY SumsAgree DEF Pair
<1>3. S \subseteq Pays /\ E \subseteq Charges
  BY DEF Pair
<1> QED BY <1>1, <1>2, <1>3 DEF Finished, InOrder, Served, Closed, SpentUp

(* No rows at all are in order. *)
LEMMA NoRowsPass ==
  ASSUME NEW al \in Allocs, NEW S, NEW E, NEW d, Pair(S, E, d),
         \A s \in S, e \in Charges : al[s][e] = 0
  PROVE  Passing(al, S, E, d, S, 0)
<1>1. \A s \in S, e \in Charges : ~ (al[s][e] > 0)
  OBVIOUS
<1>2. \A s \in S, e \in E : ~ (al[s][e] > 0)
  BY <1>1 DEF Pair
<1> QED BY <1>1, <1>2 DEF Passing, InOrder

(* The next payment is the earliest. *)
LEMMA NextPasses ==
  ASSUME NEW al \in Allocs, NEW S, NEW E, NEW d, Pair(S, E, d),
         NEW Q, Q # {}, Passing(al, S, E, d, Q, 0), NEW s, s = First(Q)
  PROVE  /\ Passing(al, S, E, d, Q \ {s}, s) /\ s \in S \ (Q \ {s}) /\ s \in Pays
         /\ \A e \in Charges : al[s][e] = 0
<1>1. Q \subseteq S /\ Q \subseteq Pays
  BY DEF Passing, Pair
<1>2. s \in Q /\ \A t \in Q : s <= t
  BY <1>1, FirstIn
<1>3. ASSUME NEW t \in Q \ {s}, NEW u \in S \ (Q \ {s}) PROVE u < t
  <2>1. CASE u = s
    <3>1. s \in Nat /\ t \in Nat /\ s <= t /\ t # s
      BY <1>1, <1>2, Numbers
    <3> QED BY <2>1, <3>1
  <2>2. CASE u # s
    BY <2>2 DEF Passing
  <2> QED BY <2>1, <2>2
<1>4. \A u \in S \ (Q \ {s}) : u = s \/ Served(al, u, E, d)
  <2>1. \A u \in S : u # 0
    BY Numbers DEF Pair
  <2> QED BY <2>1 DEF Passing
<1> QED BY <1>1, <1>2, <1>3, <1>4 DEF Passing

(* A payment is passed when it is spent or nothing is open for it. *)
LEMMA PaymentPassed ==
  ASSUME NEW al, NEW S, NEW E, NEW d, NEW Q, NEW p, Passing(al, S, E, d, Q, p),
         Served(al, p, E, d)
  PROVE  Passing(al, S, E, d, Q, 0)
BY DEF Passing

(* A row for the payment at hand keeps all in order: the older shares are  *)
(* closed, and the earlier payments are spent.                             *)
LEMMA RowPasses ==
  ASSUME NEW al \in Allocs, NEW S, NEW E, NEW d, Pair(S, E, d), PairSound(al, d),
         NEW Q, NEW p \in S \ Q, Passing(al, S, E, d, Q, p),
         NEW A, NEW left \in Int, left > 0, Reaching(al, E, p, A, left),
         NEW e \in E \ A, al[p][e] = 0,
         ClosedBut(al, E, A, e, d),
         NEW take, Taken(al, e, d, left, take),
         NEW new, RowAdded(al, new, p, e, take),
         NEW B, B = Rest(A, left - take)
  PROVE  /\ Passing(new, S, E, d, Q, p)
         /\ Reaching(new, E, p, B, left - take)
         /\ ClosedOrSpent(new, E, B, left - take, d)
<1>1. /\ p \in Pays /\ p \in S /\ e \in Charges /\ Debtor[p] = d /\ d \in Debtors
      /\ S \subseteq Pays /\ E \subseteq Charges /\ \A s \in S : Debtor[s] = d
  BY DEF Pair
<1>2. /\ \A f \in Charges : Settled(al, f, d) \in Nat /\ Due[f][d] \in Nat
      /\ \A s \in Pays : Spent(al, s) \in Nat /\ Amount[s] \in Nat
  <2>1. \A f \in Charges : Settled(al, f, d) \in Nat
    BY SumsAreNatural
  <2>2. \A s \in Pays : Spent(al, s) \in Nat
    BY SumsAreNatural
  <2> QED BY <1>1, <2>1, <2>2, Numbers
<1>3. PICK open \in Int : open = Due[e][d] - Settled(al, e, d)
  BY <1>1, <1>2
<1>open. open > 0 /\ take \in Nat /\ take > 0 /\ take <= open /\ take <= left
       /\ (take = open \/ take = left)
  BY <1>1, <1>2, <1>3 DEF Taken
<1>rest. B = IF left - take > 0 THEN A ELSE {}
  BY DEF Rest
<1>4. /\ new \in Allocs
      /\ \A t \in Pays, f \in Charges :
           new[t][f] = IF t = p /\ f = e THEN take ELSE al[t][f]
      /\ \A f \in Charges :
           Settled(new, f, d) = Settled(al, f, d) + (IF f = e THEN take ELSE 0)
      /\ \A t \in Pays : Spent(new, t) = Spent(al, t) + (IF t = p THEN take ELSE 0)
  BY <1>1 DEF RowAdded
<1>5. left = Amount[p] - Spent(al, p)
  BY DEF Reaching
<1>6. ~ Closed(al, e, d) /\ ~ SpentUp(al, p)
  BY <1>1, <1>2, <1>3, <1>open, <1>rest, <1>5 DEF Closed, SpentUp
<1>7. \A f \in E : Closed(al, f, d) => Closed(new, f, d)
  BY <1>1, <1>2, <1>4, <1>6 DEF Closed
<1>8. \A s \in S : s # p =>
        /\ SpentUp(al, s) <=> SpentUp(new, s)
        /\ \A f \in Charges : new[s][f] = al[s][f]
  BY <1>1, <1>2, <1>4 DEF SpentUp
<1>9. ASSUME NEW s \in S \ Q, s # p PROVE SpentUp(al, s)
  BY <1>6, <1>9 DEF Passing, Served
<1>10. InOrder(new, S, E, d)
  <2>1. ASSUME NEW s \in S, NEW f \in Charges, new[s][f] > 0
        PROVE  f \in E /\ \A x \in E : x < f => Closed(new, x, d)
    <3>1. CASE s = p /\ f = e
      <4>1. ASSUME NEW x \in E, x < e PROVE Closed(new, x, d)
        <5>1. x \notin A
          <6>1. x \in A => e < x
            BY DEF Reaching
          <6>2. x \in Nat /\ e \in Nat
            BY <1>1, Numbers
          <6> QED BY <4>1, <6>1, <6>2
        <5>2. x # e
          BY <1>1, <4>1, Numbers
        <5> QED BY <1>7, <5>1, <5>2 DEF ClosedBut
      <4> QED BY <3>1, <4>1
    <3>2. CASE ~ (s = p /\ f = e)
      <4>1. al[s][f] > 0 /\ s \in Pays
        BY <1>1, <1>4, <2>1, <3>2
      <4> QED BY <1>7, <4>1 DEF Passing, InOrder
    <3> QED BY <3>1, <3>2
  <2>2. ASSUME NEW s \in S, NEW t \in S, NEW x \in E, s < t, new[t][x] > 0
        PROVE  SpentUp(new, s) /\ \A f \in E : x < f => new[s][f] = 0
    <3>1. CASE t = p /\ x = e
      <4>1. s # p /\ s \in Nat /\ t \in Nat
        BY <1>1, <2>2, <3>1, Numbers
      <4>2. s \notin Q
        <5>1. s \in Q => p < s
          BY DEF Passing
        <5> QED BY <2>2, <3>1, <4>1, <5>1
      <4>3. SpentUp(new, s)
        BY <1>8, <1>9, <4>1, <4>2
      <4>4. ASSUME NEW f \in E, x < f PROVE new[s][f] = 0
        <5>1. ~ (al[s][f] > 0)
          <6> SUFFICES ASSUME al[s][f] > 0 PROVE FALSE
            OBVIOUS
          <6>1. Closed(al, e, d)
            BY <1>1, <3>1, <4>4 DEF Passing, InOrder
          <6> QED BY <1>6, <6>1
        <5>2. al[s][f] \in Nat
          BY <1>1 DEF Allocs
        <5> QED BY <1>1, <1>8, <4>1, <5>1, <5>2
      <4> QED BY <4>3, <4>4
    <3>2. CASE ~ (t = p /\ x = e)
      <4>1. al[t][x] > 0
        BY <1>1, <1>4, <2>2, <3>2
      <4>2. SpentUp(al, s) /\ \A f \in E : x < f => al[s][f] = 0
        BY <2>2, <4>1 DEF Passing, InOrder
      <4>3. s # p
        BY <1>6, <4>2
      <4> QED BY <1>1, <1>8, <4>2, <4>3
    <3> QED BY <3>1, <3>2
  <2> QED BY <2>1, <2>2 DEF InOrder
<1>11. Passing(new, S, E, d, Q, p)
  <2>1. Q \subseteq S
    BY DEF Passing
  <2>2. ASSUME NEW t \in Q
        PROVE  (\A f \in Charges : new[t][f] = 0) /\ \A s \in S \ Q : s < t
    <3>1. t \in S /\ t # p
      BY <2>1
    <3> QED BY <1>8, <3>1 DEF Passing
  <2>3. \A s \in S \ Q : s = p \/ Served(new, s, E, d)
    BY <1>8, <1>9 DEF Served
  <2> QED BY <1>10, <2>1, <2>2, <2>3 DEF Passing
<1>12. Reaching(new, E, p, B, left - take)
  <2>1. B \subseteq A /\ A \subseteq E
    BY <1>rest DEF Reaching
  <2>2. left - take = Amount[p] - Spent(new, p)
    BY <1>1, <1>2, <1>3, <1>open, <1>rest, <1>4, <1>5
  <2>3. ASSUME NEW f \in B PROVE new[p][f] = 0 /\ \A x \in E \ B : x < f
    <3>1. f \in A /\ f # e /\ B = A
      BY <1>rest, <2>1, <2>3
    <3>2. al[p][f] = 0 /\ \A x \in E \ A : x < f
      BY <3>1 DEF Reaching
    <3>3. new[p][f] = al[p][f]
      BY <1>1, <1>4, <2>1, <3>1
    <3> QED BY <3>1, <3>2, <3>3
  <2> QED BY <2>1, <2>2, <2>3 DEF Reaching
<1>13. ClosedOrSpent(new, E, B, left - take, d)
  <2>1. CASE take = left
    BY <1>3, <1>open, <1>rest, <2>1 DEF ClosedOrSpent
  <2>2. CASE take = open /\ left - take > 0
    <3>1. Closed(new, e, d)
      BY <1>1, <1>2, <1>3, <1>4, <2>2 DEF Closed
    <3> QED BY <1>rest, <1>7, <2>2, <3>1 DEF ClosedOrSpent, ClosedBut
  <2> QED BY <1>3, <1>open, <1>rest, <2>1, <2>2
<1> QED BY <1>11, <1>12, <1>13

-----------------------------------------------------------------------------
(* The statements for one pair of people, from the DELETE to the last row. *)
InPair == {"delete", "shares", "payments", "payment", "share", "insert"}

(* What the loops of r have written for the pair at hand. *)
Loops(r) ==
  /\ stage[r] \in {"shares", "payments"} =>
       \A s \in Bills(r, tx[r].pair), e \in Charges : View(r)[s][e] = 0
  /\ stage[r] = "shares" /\ r \in Pays => tx[r].payments = {r}
  /\ stage[r] \in {"payments", "payment", "share", "insert"} =>
       tx[r].shares = Shares(r, tx[r].pair)
  /\ stage[r] = "payment" =>
       Passing(View(r), Bills(r, tx[r].pair), tx[r].shares, tx[r].pair,
               tx[r].payments, 0)
  /\ stage[r] \in {"share", "insert"} =>
       /\ Passing(View(r), Bills(r, tx[r].pair), tx[r].shares, tx[r].pair,
                  tx[r].payments, tx[r].pay)
       /\ tx[r].pay \in Bills(r, tx[r].pair) \ tx[r].payments
       /\ Reaching(View(r), tx[r].shares, tx[r].pay, tx[r].ahead, tx[r].remaining)
  /\ stage[r] = "share" =>
       ClosedOrSpent(View(r), tx[r].shares, tx[r].ahead, tx[r].remaining, tx[r].pair)
  /\ stage[r] = "insert" =>
       /\ tx[r].share \in tx[r].shares \ tx[r].ahead
       /\ View(r)[tx[r].pay][tx[r].share] = 0
       /\ ClosedBut(View(r), tx[r].shares, tx[r].ahead, tx[r].share, tx[r].pair)
       /\ Taken(View(r), tx[r].share, tx[r].pair, tx[r].remaining, tx[r].take)

(* What r has written for debtor d is what the loops of one rebuild write. *)
Complete(r, d) == Finished(View(r), Bills(r, d), Shares(r, d), d)

Built(r) ==
  /\ r \in Charges => \A d \in Debtors :
       Due[r][d] > 0 /\ d \notin tx[r].left
       /\ ~ (stage[r] \in InPair /\ d = tx[r].pair) => Complete(r, d)
  /\ r \in Pays /\ stage[r] = "commit" => Complete(r, Debtor[r])

(* The pairs that r rebuilds are those it has to rebuild. *)
Tracked(r) ==
  /\ r \in Pays => tx[r].pair = Debtor[r]
  /\ r \in Charges => \A d \in tx[r].left : Due[r][d] > 0
  /\ r \in Charges /\ stage[r] \in InPair =>
       Due[r][tx[r].pair] > 0 /\ tx[r].pair \notin tx[r].left
  /\ stage[r] = "delete" => \A m \in tx[r].found : Debtor[m[1]] = tx[r].pair

(* The payments whose rows r leaves alone, and has left alone so far. *)
Foreign(r, s) == IF r \in Pays THEN s # r
                 ELSE Due[r][Debtor[s]] = 0 \/ Debtor[s] \in Unbuilt(r)

Untouched(r) ==
  \A s \in Pays, e \in Charges : Foreign(r, s) => View(r)[s][e] = rows[s][e]

(* A row is the row of a payment and of a share that exist. *)
ViewKnown(r) ==
  \A s \in Pays, e \in Charges :
    View(r)[s][e] > 0 => Seen(r, s) /\ Seen(r, e) /\ Due[e][Debtor[s]] > 0

RowsKnown ==
  \A s \in Pays, e \in Charges :
    rows[s][e] > 0 => /\ stage[s] = "committed" /\ stage[e] = "committed"
                      /\ Due[e][Debtor[s]] > 0

(* Payments and expenses are numbered by their commits. *)
Once(q) == \A i, j \in DOMAIN q : q[i] = q[j] => i = j
Has(q, x) == \E i \in DOMAIN q : q[i] = x

Logged ==
  /\ Once(paid) /\ Once(charged)
  /\ \A s \in Pays : stage[s] = "committed" <=> Has(paid, s)
  /\ \A e \in Charges : stage[e] = "committed" <=> Has(charged, e)

(* What a request that is alone has done so far. *)
Working(r) == Loops(r) /\ Built(r) /\ Tracked(r) /\ Untouched(r) /\ ViewKnown(r)

(* The inductive invariant of the refinement. *)
LInv == SInv /\ RowsKnown /\ Logged /\ \A r \in Requests : Active(r) => Working(r)

(* A statement of r does not change what r sees of other requests. *)
LEMMA SameLists ==
  ASSUME TypeOK, NEW r \in Requests, NEW label, NEW rec, Wrote(r, label, rec)
  PROVE  /\ \A q \in Requests : Seen(r, q)' = Seen(r, q)
         /\ \A d : Shares(r, d)' = Shares(r, d) /\ Bills(r, d)' = Bills(r, d)
<1>1. \A q \in Requests : Seen(r, q)' = Seen(r, q)
  BY WroteIs DEF Seen
<1>2. \A q \in Pays \cup Charges : Seen(r, q)' = Seen(r, q)
  BY <1>1 DEF Requests
<1> QED BY <1>1, <1>2 DEF Shares, Bills

(* The payments and shares of a debtor are its own. *)
LEMMA ListsOfPair ==
  ASSUME NEW r \in Requests, NEW d \in Debtors, r \in Pays => d = Debtor[r]
  PROVE  Pair(Bills(r, d), Shares(r, d), d)
BY DEF Pair, Bills, Shares

(* Only committed-ness matters to what is known of the rows and the log.   *)
LEMMA KnownStays ==
  ASSUME TypeOK, RowsKnown, Logged, rows' = rows, paid' = paid, charged' = charged,
         \A q \in Requests : stage'[q] = "committed" <=> stage[q] = "committed"
  PROVE  RowsKnown' /\ Logged'
<1>1. \A q \in Pays \cup Charges : stage'[q] = "committed" <=> stage[q] = "committed"
  BY DEF Requests
<1> QED BY <1>1 DEF RowsKnown, Logged, Once, Has

(* What holds of a request that is alone, at each of its statements.       *)
LEMMA AtWork ==
  ASSUME LInv, NEW r \in Requests, Active(r)
  PROVE  /\ TInv /\ TypeOK /\ tx[r] \in Transactions /\ View(r) \in Allocs
         /\ Located(r) /\ Bounded(r) /\ (r \in Charges => Rebuilt(r)) /\ Working(r)
         /\ \A d \in Debtors : PairSound(View(r), d)
         /\ tx[r].pair \in Debtors =>
              /\ Pair(Bills(r, tx[r].pair), Shares(r, tx[r].pair), tx[r].pair)
              /\ PairSound(View(r), tx[r].pair)
<1>1. /\ TInv /\ TypeOK /\ tx[r] \in Transactions /\ Located(r) /\ Working(r)
      /\ \A d \in Debtors : PairSound(View(r), d)
  BY DEF LInv, SInv, RInv, TInv, TypeOK
<1>2. Bounded(r) /\ (r \in Charges => Rebuilt(r))
  BY DEF LInv, SInv, RInv, Quiet
<1>3. View(r) \in Allocs
  BY <1>1, ViewIsRows
<1>4. tx[r].pair \in Debtors =>
        Pair(Bills(r, tx[r].pair), Shares(r, tx[r].pair), tx[r].pair)
  BY <1>1, ListsOfPair DEF Working, Tracked
<1> QED BY <1>1, <1>2, <1>3, <1>4

(* The lists of the pair that the statement leaves at hand. *)
LEMMA ListsOfRecord ==
  ASSUME TypeOK, NEW r \in Requests, NEW label, NEW rec, Wrote(r, label, rec)
  PROVE  /\ Bills(r, tx[r].pair)' = Bills(r, rec.pair)
         /\ Shares(r, tx[r].pair)' = Shares(r, rec.pair)
<1>1. \A q \in Requests : Seen(r, q)' = Seen(r, q)
  BY SameLists
<1>2. \A q \in Pays \cup Charges : Seen(r, q)' = Seen(r, q)
  BY <1>1 DEF Requests
<1>3. tx'[r] = rec
  BY WroteIs
<1> QED BY <1>2, <1>3 DEF Shares, Bills

(* A statement that leaves the rows alone: what r has completed stays.     *)
LEMMA SameRows ==
  ASSUME TypeOK, NEW r \in Requests, NEW label, NEW rec, Wrote(r, label, rec),
         View(r)' = View(r), Unbuilt(r)' = Unbuilt(r), Untouched(r), ViewKnown(r)
  PROVE  /\ Untouched(r)' /\ ViewKnown(r)'
         /\ \A d : Complete(r, d)' <=> Complete(r, d)
<1>1. /\ \A q \in Requests : Seen(r, q)' = Seen(r, q)
      /\ \A d : Shares(r, d)' = Shares(r, d) /\ Bills(r, d)' = Bills(r, d)
      /\ rows' = rows
  BY SameLists, WroteIs
<1>2. \A q \in Pays \cup Charges : Seen(r, q)' = Seen(r, q)
  BY <1>1 DEF Requests
<1> QED BY <1>1, <1>2 DEF Untouched, Foreign, ViewKnown, Complete

(* A statement of the loops stays with the pair at hand. *)
LEMMA SamePair ==
  ASSUME TypeOK, NEW r \in Requests, NEW label, NEW rec, Wrote(r, label, rec),
         View(r)' = View(r), Working(r),
         rec.pair = tx[r].pair, rec.left = tx[r].left,
         stage[r] \in InPair \ {"delete"}, label \in InPair \ {"delete"}
  PROVE  Built(r)' /\ Tracked(r)' /\ Untouched(r)' /\ ViewKnown(r)'
<1>1. stage'[r] = label /\ tx'[r] = rec
  BY WroteIs
<1>2. Unbuilt(r)' = Unbuilt(r)
  BY <1>1 DEF Unbuilt
<1>3. /\ Untouched(r)' /\ ViewKnown(r)'
      /\ \A d : Complete(r, d)' <=> Complete(r, d)
  BY <1>2, SameRows DEF Working
<1>4. Tracked(r)'
  BY <1>1 DEF Working, Tracked
<1>5. Built(r)'
  BY <1>1, <1>3 DEF Working, Built, InPair
<1> QED BY <1>3, <1>4, <1>5

(* The list of the shares: no payment of the pair has rows yet. *)
LEMMA ListSharesWorks ==
  ASSUME LInv, NEW r \in Requests, Active(r), ListShares(r)
  PROVE  Working(r)'
<1>at. PICK d : d = tx[r].pair
  OBVIOUS
<1> DEFINE rec == [tx[r] EXCEPT !.shares = {e \in Charges : Seen(r, e)
                                                     /\ Due[e][tx[r].pair] > 0}]
<1>0. /\ TInv /\ TypeOK /\ tx[r] \in Transactions /\ View(r) \in Allocs
      /\ Located(r) /\ Bounded(r) /\ Working(r)
      /\ d \in Debtors => Pair(Bills(r, d), Shares(r, d), d)
  BY <1>at, AtWork
<1>1. PICK label \in {"payment", "payments"} : Wrote(r, label, rec)
  BY <1>0, ListSharesWrites
<1>2. /\ stage[r] = "shares" /\ d \in Debtors
      /\ stage' = [stage EXCEPT ![r] = IF r \in Pays THEN "payment" ELSE "payments"]
  BY <1>at, <1>0 DEF ListShares, Located, Goto
<1>3. /\ rec.pair = d /\ rec.left = tx[r].left /\ rec.payments = tx[r].payments
      /\ rec.shares = Shares(r, d)
  BY <1>at, <1>0 DEF Transactions, Shares
<1> HIDE DEF rec
<1>4. stage'[r] = label /\ tx'[r] = rec /\ (label = "payment" <=> r \in Pays)
  BY <1>0, <1>1, <1>2, WroteIs DEF TypeOK
<1>5. View(r)' = View(r)
  BY <1>0, <1>2, ReadersKeepBounds DEF Inside, DeleteRows, InsertRow
<1>7. Built(r)' /\ Tracked(r)' /\ Untouched(r)' /\ ViewKnown(r)'
  BY <1>at, <1>0, <1>1, <1>2, <1>3, <1>5, SamePair DEF InPair
<1>8. \A s \in Bills(r, d), e \in Charges : View(r)[s][e] = 0
  BY <1>at, <1>0, <1>2 DEF Working, Loops
<1>9. r \in Pays => rec.payments = Bills(r, d)
  BY <1>0, <1>2, <1>3 DEF Working, Loops, Bills
<1>10. Passing(View(r), Bills(r, d), Shares(r, d), d, Bills(r, d), 0)
  BY <1>0, <1>2, <1>8, NoRowsPass
<1>11. /\ tx'[r].pair = d /\ tx'[r].shares = Shares(r, d)
       /\ r \in Pays => tx'[r].payments = Bills(r, d)
  BY <1>3, <1>4, <1>9
<1>all. Bills(r, tx[r].pair)' = Bills(r, d) /\ Shares(r, tx[r].pair)' = Shares(r, d)
  BY <1>0, <1>1, <1>3, ListsOfRecord
<1>12. Loops(r)'
  BY <1>4, <1>5, <1>8, <1>10, <1>11, <1>all DEF Loops
<1> QED BY <1>7, <1>12 DEF Working

(* The list of the payments. *)
LEMMA ListPaymentsWorks ==
  ASSUME LInv, NEW r \in Requests, Active(r), ListPayments(r)
  PROVE  Working(r)'
<1>at. PICK d : d = tx[r].pair
  OBVIOUS
<1> DEFINE rec == [tx[r] EXCEPT !.payments = {s \in Pays : Seen(r, s)
                                                     /\ Debtor[s] = tx[r].pair}]
<1>0. /\ TInv /\ TypeOK /\ tx[r] \in Transactions /\ View(r) \in Allocs
      /\ Located(r) /\ Bounded(r) /\ Working(r)
      /\ d \in Debtors => Pair(Bills(r, d), Shares(r, d), d)
  BY <1>at, AtWork
<1>1. Wrote(r, "payment", rec)
  BY <1>0, ListPaymentsWrites
<1>2. stage[r] = "payments" /\ d \in Debtors /\ r \notin Pays
  BY <1>at, <1>0, Numbers DEF ListPayments, Located
<1>3. /\ rec.pair = d /\ rec.left = tx[r].left /\ rec.shares = tx[r].shares
      /\ rec.payments = Bills(r, d)
  BY <1>at, <1>0, <1>2 DEF Transactions, Bills
<1> HIDE DEF rec
<1>4. stage'[r] = "payment" /\ tx'[r] = rec
  BY <1>0, <1>1, WroteIs
<1>5. View(r)' = View(r)
  BY <1>0, <1>2, ReadersKeepBounds DEF Inside, DeleteRows, InsertRow
<1>7. Built(r)' /\ Tracked(r)' /\ Untouched(r)' /\ ViewKnown(r)'
  BY <1>at, <1>0, <1>1, <1>2, <1>3, <1>5, SamePair DEF InPair
<1>8. /\ \A s \in Bills(r, d), e \in Charges : View(r)[s][e] = 0
      /\ tx[r].shares = Shares(r, d)
  BY <1>at, <1>0, <1>2 DEF Working, Loops
<1>10. Passing(View(r), Bills(r, d), Shares(r, d), d, Bills(r, d), 0)
  BY <1>0, <1>2, <1>8, NoRowsPass
<1>11. /\ tx'[r].pair = d /\ tx'[r].shares = Shares(r, d)
       /\ tx'[r].payments = Bills(r, d)
  BY <1>3, <1>4, <1>8
<1>all. Bills(r, tx[r].pair)' = Bills(r, d) /\ Shares(r, tx[r].pair)' = Shares(r, d)
  BY <1>0, <1>1, <1>3, ListsOfRecord
<1>12. Loops(r)'
  BY <1>4, <1>5, <1>8, <1>10, <1>11, <1>all DEF Loops
<1> QED BY <1>7, <1>12 DEF Working

(* The next payment has no rows yet, and those before it are served. *)
LEMMA NextPaymentWorks ==
  ASSUME LInv, NEW r \in Requests, Active(r), NextPayment(r)
  PROVE  Working(r)'
<1>at. PICK d : d = tx[r].pair
  OBVIOUS
<1>0. /\ TInv /\ TypeOK /\ tx[r] \in Transactions /\ View(r) \in Allocs
      /\ Located(r) /\ Bounded(r) /\ Working(r)
      /\ d \in Debtors => Pair(Bills(r, d), Shares(r, d), d) /\ PairSound(View(r), d)
  BY <1>at, AtWork
<1>1. PICK s, rec :
        /\ s = First(tx[r].payments) /\ s \in Pays
        /\ RemainingSeen(r, s) \in Int
        /\ Wrote(r, "share", rec)
        /\ rec = [tx[r] EXCEPT !.payments = @ \ {s}, !.pay = s,
                          !.remaining = RemainingSeen(r, s),
                          !.ahead = IF RemainingSeen(r, s) > 0
                                    THEN tx[r].shares ELSE {}]
  BY <1>0, NextPaymentWrites
<1>2. stage[r] = "payment" /\ d \in Debtors /\ tx[r].payments # {}
  BY <1>at, <1>0 DEF NextPayment, Located
<1>3. /\ rec.pair = d /\ rec.left = tx[r].left /\ rec.shares = tx[r].shares
      /\ rec.payments = tx[r].payments \ {s} /\ rec.pay = s
      /\ rec.remaining = RemainingSeen(r, s)
      /\ rec.ahead = IF RemainingSeen(r, s) > 0 THEN tx[r].shares ELSE {}
  BY <1>at, <1>0, <1>1 DEF Transactions
<1>4. Wrote(r, "share", rec) /\ stage'[r] = "share" /\ tx'[r] = rec
  BY <1>0, <1>1, WroteIs
<1>5. View(r)' = View(r)
  BY <1>0, <1>2, ReadersKeepBounds DEF Inside, DeleteRows, InsertRow
<1>6. Bills(r, tx[r].pair)' = Bills(r, d) /\ Shares(r, tx[r].pair)' = Shares(r, d)
  BY <1>0, <1>3, <1>4, ListsOfRecord
<1>7. Built(r)' /\ Tracked(r)' /\ Untouched(r)' /\ ViewKnown(r)'
  BY <1>at, <1>0, <1>2, <1>3, <1>4, <1>5, SamePair DEF InPair
<1>8. /\ Passing(View(r), Bills(r, d), Shares(r, d), d, tx[r].payments, 0)
      /\ tx[r].shares = Shares(r, d)
  BY <1>at, <1>0, <1>2 DEF Working, Loops
<1>9. /\ Passing(View(r), Bills(r, d), Shares(r, d), d, tx[r].payments \ {s}, s)
      /\ s \in Bills(r, d) \ (tx[r].payments \ {s})
      /\ \A e \in Charges : View(r)[s][e] = 0
  BY <1>0, <1>1, <1>2, <1>8, NextPasses
<1>10. Shares(r, d) \subseteq Charges
  BY DEF Shares
<1>11. RemainingSeen(r, s) = Amount[s] - Spent(View(r), s) /\ RemainingSeen(r, s) >= 0
  <2>1. Spent(View(r), s) <= Amount[s]
    BY <1>0, <1>2, <1>9 DEF Pair, PairSound, PaymentSound
  <2>2. Spent(View(r), s) \in Nat /\ Amount[s] \in Nat
    BY <1>0, <1>1, SumsAreNatural, Numbers
  <2> QED BY <2>1, <2>2 DEF RemainingSeen
<1>12. /\ Reaching(View(r), Shares(r, d), s, rec.ahead, rec.remaining)
       /\ ClosedOrSpent(View(r), Shares(r, d), rec.ahead, rec.remaining, d)
  <2>1. CASE RemainingSeen(r, s) > 0
    BY <1>3, <1>8, <1>9, <1>10, <1>11, <2>1 DEF Reaching, ClosedOrSpent
  <2>2. CASE ~ (RemainingSeen(r, s) > 0)
    <3>1. RemainingSeen(r, s) = 0
      BY <1>1, <1>11, <2>2
    <3> QED BY <1>3, <1>11, <2>2, <3>1 DEF Reaching, ClosedOrSpent
  <2> QED BY <2>1, <2>2
<1>13. /\ tx'[r].pair = d /\ tx'[r].shares = Shares(r, d) /\ tx'[r].pay = s
       /\ tx'[r].payments = tx[r].payments \ {s}
       /\ tx'[r].ahead = rec.ahead /\ tx'[r].remaining = rec.remaining
  BY <1>3, <1>4, <1>8
<1>14. Loops(r)'
  BY <1>4, <1>5, <1>6, <1>9, <1>12, <1>13 DEF Loops
<1> QED BY <1>7, <1>14 DEF Working

(* The next share: it is open and is inserted on, or it is closed. *)
LEMMA NextShareWorks ==
  ASSUME LInv, NEW r \in Requests, Active(r), NextShare(r)
  PROVE  Working(r)'
<1>at. PICK d : d = tx[r].pair
  OBVIOUS
<1>0. /\ TInv /\ TypeOK /\ tx[r] \in Transactions /\ View(r) \in Allocs
      /\ Located(r) /\ Bounded(r) /\ Working(r)
      /\ d \in Debtors => Pair(Bills(r, d), Shares(r, d), d) /\ PairSound(View(r), d)
  BY <1>at, AtWork
<1>1. PICK e, rec, label :
        /\ e = First(tx[r].ahead)
        /\ e \in Charges /\ OpenSeen(r, e) \in Int
        /\ label \in {"insert", "share"}
        /\ Wrote(r, label, rec)
        /\ rec = [tx[r] EXCEPT !.ahead = @ \ {e}, !.share = e,
                               !.take = IF OpenSeen(r, e) < tx[r].remaining
                                        THEN OpenSeen(r, e) ELSE tx[r].remaining]
  BY <1>0, NextShareWrites
<1>2. /\ stage[r] = "share" /\ d \in Debtors /\ tx[r].ahead # {}
      /\ stage' = [stage EXCEPT ![r] = IF OpenSeen(r, e) > 0 THEN "insert" ELSE "share"]
  BY <1>at, <1>0, <1>1 DEF NextShare, Located, Goto
<1>3. /\ rec.pair = d /\ rec.left = tx[r].left /\ rec.shares = tx[r].shares
      /\ rec.payments = tx[r].payments /\ rec.pay = tx[r].pay
      /\ rec.remaining = tx[r].remaining
      /\ rec.ahead = tx[r].ahead \ {e} /\ rec.share = e
      /\ rec.take = IF OpenSeen(r, e) < tx[r].remaining
                    THEN OpenSeen(r, e) ELSE tx[r].remaining
  BY <1>at, <1>0, <1>1 DEF Transactions
<1>4. /\ Wrote(r, label, rec) /\ label \in {"insert", "share"}
      /\ stage'[r] = label /\ tx'[r] = rec /\ (label = "insert" <=> OpenSeen(r, e) > 0)
  BY <1>0, <1>1, <1>2, WroteIs DEF TypeOK
<1>5. View(r)' = View(r)
  BY <1>0, <1>2, ReadersKeepBounds DEF Inside, DeleteRows, InsertRow
<1>6. Bills(r, tx[r].pair)' = Bills(r, d) /\ Shares(r, tx[r].pair)' = Shares(r, d)
  BY <1>0, <1>3, <1>4, ListsOfRecord
<1>7. Built(r)' /\ Tracked(r)' /\ Untouched(r)' /\ ViewKnown(r)'
  BY <1>at, <1>0, <1>2, <1>3, <1>4, <1>5, SamePair DEF InPair
<1>8. /\ tx[r].shares = Shares(r, d)
      /\ Passing(View(r), Bills(r, d), Shares(r, d), d, tx[r].payments, tx[r].pay)
      /\ tx[r].pay \in Bills(r, d) \ tx[r].payments
      /\ Reaching(View(r), Shares(r, d), tx[r].pay, tx[r].ahead, tx[r].remaining)
      /\ \A f \in Shares(r, d) \ tx[r].ahead : Closed(View(r), f, d)
  BY <1>at, <1>0, <1>2 DEF Working, Loops, ClosedOrSpent
<1>9. e \in tx[r].ahead /\ (\A f \in tx[r].ahead : e <= f) /\ tx[r].ahead \subseteq Charges
  <2>1. tx[r].ahead \subseteq Charges
    BY <1>0 DEF Transactions
  <2> QED BY <1>1, <1>2, <2>1, FirstIn
<1>10. /\ Reaching(View(r), Shares(r, d), tx[r].pay, rec.ahead, rec.remaining)
       /\ View(r)[tx[r].pay][e] = 0 /\ e \in Shares(r, d) \ rec.ahead
  <2>1. \A f \in tx[r].ahead \ {e} : e < f
    BY <1>1, <1>9, Numbers
  <2> QED BY <1>3, <1>8, <1>9, <2>1 DEF Reaching
<1>11. OpenSeen(r, e) = Due[e][d] - Settled(View(r), e, d)
  BY <1>at DEF OpenSeen
<1>12. ~ (OpenSeen(r, e) > 0) => Closed(View(r), e, d)
  <2>1. Settled(View(r), e, d) <= Due[e][d]
    BY <1>0, <1>1, <1>2 DEF PairSound, ShareSound
  <2>2. Settled(View(r), e, d) \in Nat /\ Due[e][d] \in Nat
    BY <1>0, <1>1, <1>2, SumsAreNatural, Numbers
  <2> QED BY <1>11, <2>1, <2>2 DEF Closed
<1>13. /\ tx'[r].pair = d /\ tx'[r].shares = Shares(r, d) /\ tx'[r].pay = tx[r].pay
       /\ tx'[r].payments = tx[r].payments /\ tx'[r].share = e
       /\ tx'[r].ahead = rec.ahead /\ tx'[r].remaining = rec.remaining
       /\ tx'[r].take = rec.take
  BY <1>3, <1>4, <1>8
<1>14. OpenSeen(r, e) > 0 => Taken(View(r), e, d, tx[r].remaining, rec.take)
  BY <1>3, <1>11 DEF Taken
<1>15. ClosedBut(View(r), Shares(r, d), rec.ahead, e, d)
  BY <1>3, <1>8 DEF ClosedBut
<1>16. CASE label = "share"
  <2>1. ClosedOrSpent(View(r), Shares(r, d), rec.ahead, rec.remaining, d)
    BY <1>4, <1>12, <1>15, <1>16 DEF ClosedBut, ClosedOrSpent
  <2>2. Loops(r)'
    BY <1>4, <1>5, <1>6, <1>8, <1>10, <1>13, <1>16, <2>1 DEF Loops
  <2> QED BY <1>7, <2>2 DEF Working
<1>17. CASE label = "insert"
  <2>1. OpenSeen(r, e) > 0
    BY <1>4, <1>17
  <2>2. Loops(r)'
    BY <1>3, <1>4, <1>5, <1>6, <1>8, <1>10, <1>13, <1>14, <1>15, <1>17, <2>1 DEF Loops
  <2> QED BY <1>7, <2>2 DEF Working
<1> QED BY <1>1, <1>16, <1>17

(* After the last share, the payment is spent or nothing is open for it.   *)
LEMMA EndPaymentWorks ==
  ASSUME LInv, NEW r \in Requests, Active(r), EndPayment(r)
  PROVE  Working(r)'
<1>at. PICK d : d = tx[r].pair
  OBVIOUS
<1>0. /\ TInv /\ TypeOK /\ tx[r] \in Transactions /\ View(r) \in Allocs
      /\ Located(r) /\ Bounded(r) /\ Working(r)
      /\ d \in Debtors => Pair(Bills(r, d), Shares(r, d), d)
  BY <1>at, AtWork
<1>1. stage[r] = "share" /\ d \in Debtors /\ tx[r].ahead = {}
  BY <1>at, <1>0 DEF EndPayment, Located
<1>2. Wrote(r, "payment", tx[r])
  BY <1>0, <1>1 DEF EndPayment, Wrote, Goto, Unchanged, Stages, Ended, TypeOK
<1>4. stage'[r] = "payment" /\ tx'[r] = tx[r]
  BY <1>0, <1>2, WroteIs
<1>5. View(r)' = View(r)
  BY <1>0, <1>1, ReadersKeepBounds DEF Inside, DeleteRows, InsertRow
<1>6. Bills(r, tx[r].pair)' = Bills(r, d) /\ Shares(r, tx[r].pair)' = Shares(r, d)
  BY <1>at, <1>0, <1>2, ListsOfRecord
<1>7. Built(r)' /\ Tracked(r)' /\ Untouched(r)' /\ ViewKnown(r)'
  BY <1>at, <1>0, <1>1, <1>2, <1>5, SamePair DEF InPair
<1>8. /\ tx[r].shares = Shares(r, d)
      /\ Passing(View(r), Bills(r, d), Shares(r, d), d, tx[r].payments, tx[r].pay)
      /\ tx[r].pay \in Bills(r, d) \ tx[r].payments
      /\ Reaching(View(r), Shares(r, d), tx[r].pay, tx[r].ahead, tx[r].remaining)
      /\ \/ tx[r].remaining = 0
         \/ \A f \in Shares(r, d) \ tx[r].ahead : Closed(View(r), f, d)
  BY <1>at, <1>0, <1>1 DEF Working, Loops, ClosedOrSpent
<1>9. Served(View(r), tx[r].pay, Shares(r, d), d)
  <2>1. CASE tx[r].remaining = 0
    <3>1. tx[r].pay \in Pays
      BY <1>0, <1>1, <1>8 DEF Pair
    <3>2. Spent(View(r), tx[r].pay) \in Nat /\ Amount[tx[r].pay] \in Nat
      BY <1>0, <3>1, SumsAreNatural, Numbers
    <3>3. 0 = Amount[tx[r].pay] - Spent(View(r), tx[r].pay)
      BY <1>8, <2>1 DEF Reaching
    <3> QED BY <3>2, <3>3 DEF Served, SpentUp
  <2>2. CASE \A f \in Shares(r, d) \ tx[r].ahead : Closed(View(r), f, d)
    BY <1>1, <2>2 DEF Served
  <2> QED BY <1>8, <2>1, <2>2
<1>10. Passing(View(r), Bills(r, d), Shares(r, d), d, tx[r].payments, 0)
  BY <1>8, <1>9, PaymentPassed
<1>14. Loops(r)'
  BY <1>at, <1>4, <1>5, <1>6, <1>8, <1>10 DEF Loops
<1> QED BY <1>7, <1>14 DEF Working

(* A row more, for the payment and the pair at hand. *)
LEMMA InsertRowWorks ==
  ASSUME LInv, NEW r \in Requests, Active(r), InsertRow(r)
  PROVE  Working(r)'
<1>at. PICK d, p, e, take, left :
        /\ d = tx[r].pair /\ p = tx[r].pay /\ e = tx[r].share /\ take = tx[r].take
        /\ left = tx[r].remaining - take
  OBVIOUS
<1>0. /\ TInv /\ TypeOK /\ tx[r] \in Transactions /\ View(r) \in Allocs
      /\ Located(r) /\ Working(r)
      /\ d \in Debtors => Pair(Bills(r, d), Shares(r, d), d) /\ PairSound(View(r), d)
  BY <1>at, AtWork
<1>1. PICK rec :
        /\ Wrote(r, "share", rec)
        /\ rec = [tx[r] EXCEPT !.own[tx[r].pay][tx[r].share] = tx[r].take,
                          !.remaining = left,
                          !.ahead = IF left > 0 THEN @ ELSE {}]
  BY <1>at, <1>0, InsertRowWrites
<1>2. /\ stage[r] = "insert" /\ d \in Debtors /\ p \in Pays /\ e \in Charges
      /\ take > 0 /\ take <= tx[r].remaining /\ Debtor[p] = d
      /\ take \in Nat /\ tx[r].remaining \in Int
  BY <1>at, <1>0 DEF InsertRow, Located, Transactions
<1>3. /\ rec.pair = d /\ rec.left = tx[r].left /\ rec.shares = tx[r].shares
      /\ rec.payments = tx[r].payments /\ rec.pay = p /\ rec.remaining = left
      /\ rec.ahead = IF left > 0 THEN tx[r].ahead ELSE {}
  BY <1>at, <1>0, <1>1 DEF Transactions
<1>4. Wrote(r, "share", rec) /\ stage'[r] = "share" /\ tx'[r] = rec /\ rows' = rows
  BY <1>0, <1>1, WroteIs
<1>5. Bills(r, tx[r].pair)' = Bills(r, d) /\ Shares(r, tx[r].pair)' = Shares(r, d)
  BY <1>0, <1>3, <1>4, ListsOfRecord
<1>6. /\ tx[r].shares = Shares(r, d)
      /\ Passing(View(r), Bills(r, d), Shares(r, d), d, tx[r].payments, p)
      /\ p \in Bills(r, d) \ tx[r].payments
      /\ Reaching(View(r), Shares(r, d), p, tx[r].ahead, tx[r].remaining)
      /\ e \in Shares(r, d) \ tx[r].ahead /\ View(r)[p][e] = 0
      /\ ClosedBut(View(r), Shares(r, d), tx[r].ahead, e, d)
      /\ Taken(View(r), e, d, tx[r].remaining, take)
  BY <1>at, <1>0, <1>2 DEF Working, Loops
<1>7. rec.ahead = Rest(tx[r].ahead, left)
  BY <1>3 DEF Rest
<1>8. PICK new : new = View(r)'
  OBVIOUS
<1>9. RowAdded(View(r), new, p, e, take)
  <2>1. new = [View(r) EXCEPT ![p][e] = take]
    BY <1>at, <1>0, <1>8, InsertSets
  <2> QED BY <1>0, <1>2, <1>6, <2>1, RowAdds
<1>10. tx[r].remaining > 0
  BY <1>2
<1>11. /\ Passing(new, Bills(r, d), Shares(r, d), d, tx[r].payments, p)
       /\ Reaching(new, Shares(r, d), p, rec.ahead, left)
       /\ ClosedOrSpent(new, Shares(r, d), rec.ahead, left, d)
  <2>1. PICK al, S, E, Q, A, B, rem :
          /\ al = View(r) /\ S = Bills(r, d) /\ E = Shares(r, d)
          /\ Q = tx[r].payments /\ A = tx[r].ahead /\ rem = tx[r].remaining
          /\ B = rec.ahead
    OBVIOUS
  <2>2. /\ al \in Allocs /\ Pair(S, E, d) /\ PairSound(al, d)
        /\ p \in S \ Q /\ Passing(al, S, E, d, Q, p)
        /\ rem \in Int /\ rem > 0 /\ Reaching(al, E, p, A, rem)
        /\ e \in E \ A /\ al[p][e] = 0
        /\ ClosedBut(al, E, A, e, d)
        /\ Taken(al, e, d, rem, take)
        /\ RowAdded(al, new, p, e, take)
        /\ B = Rest(A, rem - take) /\ left = rem - take
    BY <1>at, <1>0, <1>2, <1>3, <1>6, <1>7, <1>9, <1>10, <2>1
  <2>3. /\ Passing(new, S, E, d, Q, p)
        /\ Reaching(new, E, p, B, rem - take)
        /\ ClosedOrSpent(new, E, B, rem - take, d)
    BY ONLY <2>2, RowPasses
  <2> QED BY <2>1, <2>2, <2>3
<1>12. /\ tx'[r].pair = d /\ tx'[r].shares = Shares(r, d) /\ tx'[r].pay = p
       /\ tx'[r].payments = tx[r].payments /\ tx'[r].remaining = left
       /\ tx'[r].ahead = rec.ahead /\ tx'[r].left = tx[r].left
  BY <1>3, <1>4, <1>6
<1>13. Loops(r)'
  BY <1>4, <1>5, <1>6, <1>8, <1>11, <1>12 DEF Loops
<1>14. new \in Allocs /\ \A s \in Pays, f \in Charges :
         new[s][f] = IF s = p /\ f = e THEN take ELSE View(r)[s][f]
  BY <1>9 DEF RowAdded
<1>15. /\ \A q \in Requests : Seen(r, q)' = Seen(r, q)
       /\ \A b : Shares(r, b)' = Shares(r, b) /\ Bills(r, b)' = Bills(r, b)
  BY <1>0, <1>4, SameLists
<1>16. Unbuilt(r)' = Unbuilt(r) /\ Unbuilt(r) = tx[r].left
  BY <1>2, <1>4, <1>12 DEF Unbuilt
<1>17. Tracked(r)'
  BY <1>2, <1>4, <1>12, <1>at, <1>0 DEF Working, Tracked, InPair
<1>18. Untouched(r)'
  <2>1. ~ Foreign(r, p)
    BY <1>at, <1>0, <1>2, <1>6, <1>16 DEF Foreign, Bills, Working, Tracked, InPair, Requests
  <2>2. \A s \in Pays, f \in Charges : Foreign(r, s) => new[s][f] = rows[s][f]
    BY <1>0, <1>14, <2>1 DEF Working, Untouched
  <2>3. \A s : Foreign(r, s)' = Foreign(r, s)
    BY <1>16 DEF Foreign
  <2> QED BY <1>4, <1>8, <2>2, <2>3 DEF Untouched
<1>19. ViewKnown(r)'
  <2>1. Seen(r, p) /\ Seen(r, e) /\ Due[e][Debtor[p]] > 0
    BY <1>2, <1>6 DEF Bills, Shares, Seen
  <2>2. \A s \in Pays, f \in Charges :
          new[s][f] > 0 => Seen(r, s) /\ Seen(r, f) /\ Due[f][Debtor[s]] > 0
    BY <1>0, <1>14, <2>1 DEF Working, ViewKnown
  <2>3. \A q \in Pays \cup Charges : Seen(r, q)' = Seen(r, q)
    BY <1>15 DEF Requests
  <2> QED BY <1>8, <2>2, <2>3 DEF ViewKnown
<1>20. ASSUME NEW b \in Debtors, b # d, r \in Charges, Complete(r, b)
       PROVE  Complete(r, b)'
  <2>1. Pair(Bills(r, b), Shares(r, b), b)
    BY <1>20, ListsOfPair, Numbers
  <2>2. \A s \in Pays, f \in Charges : Debtor[s] = b => new[s][f] = View(r)[s][f]
    BY <1>2, <1>14, <1>20
  <2>3. Finished(View(r), Bills(r, b), Shares(r, b), b)
    BY <1>20 DEF Complete
  <2>4. Finished(new, Bills(r, b), Shares(r, b), b)
    BY <1>0, <1>14, <2>1, <2>2, <2>3, FinishedStays
  <2> QED BY <1>8, <1>15, <2>4 DEF Complete
<1>21. Built(r)'
  BY <1>at, <1>0, <1>2, <1>4, <1>12, <1>20 DEF Working, Built, InPair
<1> QED BY <1>13, <1>17, <1>18, <1>19, <1>21 DEF Working

(* The DELETE leaves no row of the pair at hand, and all rows of others.   *)
LEMMA DeleteRowsWorks ==
  ASSUME LInv, NEW r \in Requests, Active(r), DeleteRows(r)
  PROVE  Working(r)'
<1>at. PICK d : d = tx[r].pair
  OBVIOUS
<1>0. /\ TInv /\ TypeOK /\ tx[r] \in Transactions /\ View(r) \in Allocs
      /\ Located(r) /\ Working(r) /\ (r \in Charges => Rebuilt(r)) 
      /\ d \in Debtors => Pair(Bills(r, d), Shares(r, d), d)
  BY <1>at, AtWork
<1>1. PICK rec :
        /\ Wrote(r, "shares", rec)
        /\ rec = [tx[r] EXCEPT !.gone = @ \cup tx[r].found, !.found = {}]
  BY <1>0, DeleteRowsWrites
<1>2. stage[r] = "delete" /\ d \in Debtors /\ r \in Charges /\ r \notin Pays
  BY <1>at, <1>0, Numbers DEF DeleteRows, Located
<1>3. rec.pair = d /\ rec.left = tx[r].left
  BY <1>at, <1>0, <1>1 DEF Transactions
<1>4. Wrote(r, "shares", rec) /\ stage'[r] = "shares" /\ tx'[r] = rec /\ rows' = rows
  BY <1>0, <1>1, WroteIs
<1>5. Bills(r, tx[r].pair)' = Bills(r, d) /\ Shares(r, tx[r].pair)' = Shares(r, d)
  BY <1>0, <1>3, <1>4, ListsOfRecord
<1>6. PICK new : new = View(r)'
  OBVIOUS
<1>7. /\ new \in Allocs
      /\ \A s \in Pays, e \in Charges :
           /\ new[s][e] <= View(r)[s][e]
           /\ tx[r].own[s][e] = 0 /\ (rows[s][e] > 0 => <<s, e>> \in tx[r].found)
                => new[s][e] = 0
           /\ <<s, e>> \notin tx[r].found => new[s][e] = View(r)[s][e]
  <2>1. \A b : Within(new, View(r), b)
    BY <1>0, <1>6, DeleteLowers
  <2>2. \A s \in Pays, e \in Charges : new[s][e] <= View(r)[s][e]
    BY <2>1 DEF Within
  <2> QED BY <1>0, <1>6, <2>2, DeleteLowers
<1>8. \A s \in Pays, e \in Charges : Debtor[s] # d => new[s][e] = View(r)[s][e]
  <2>1. \A m \in tx[r].found : Debtor[m[1]] = d
    BY <1>at, <1>0, <1>2 DEF Working, Tracked
  <2>2. \A s \in Pays, e \in Charges : Debtor[s] # d => <<s, e>> \notin tx[r].found
    BY <2>1
  <2> QED BY <1>7, <2>2
<1>9. \A s \in Pays, e \in Charges : Debtor[s] = d => new[s][e] = 0
  <2>1. \A s \in Pays, e \in Charges : Debtor[s] = d =>
          /\ tx[r].own[s][e] = 0
          /\ rows[s][e] > 0 => <<s, e>> \in tx[r].found
    BY <1>at, <1>0, <1>2 DEF Rebuilt, Unbuilt
  <2> QED BY <1>7, <2>1
<1>10. Loops(r)'
  <2>1. \A s \in Bills(r, d), e \in Charges : new[s][e] = 0
    BY <1>0, <1>2, <1>9 DEF Pair
  <2> QED BY <1>2, <1>4, <1>5, <1>6, <2>1 DEF Loops
<1>11. /\ \A q \in Requests : Seen(r, q)' = Seen(r, q)
       /\ \A b : Shares(r, b)' = Shares(r, b) /\ Bills(r, b)' = Bills(r, b)
  BY <1>0, <1>4, SameLists
<1>12. tx'[r].pair = d /\ tx'[r].left = tx[r].left
  BY <1>3, <1>4
<1>13. Unbuilt(r) = tx[r].left \cup {d} /\ Unbuilt(r)' = tx[r].left
  BY <1>at, <1>2, <1>4, <1>12 DEF Unbuilt
<1>14. Due[r][d] > 0 /\ d \notin tx[r].left
  BY <1>at, <1>0, <1>2 DEF Working, Tracked, InPair
<1>15. Tracked(r)'
  BY <1>0, <1>2, <1>4, <1>12, <1>14 DEF Working, Tracked
<1>16. Untouched(r)'
  <2>1. \A s \in Pays : Foreign(r, s)' => Foreign(r, s) /\ Debtor[s] # d
    BY <1>2, <1>13, <1>14 DEF Foreign
  <2>2. \A s \in Pays, e \in Charges : Foreign(r, s) => View(r)[s][e] = rows[s][e]
    BY <1>0 DEF Working, Untouched
  <2> QED BY <1>4, <1>6, <1>8, <2>1, <2>2 DEF Untouched
<1>17. ViewKnown(r)'
  <2>1. \A s \in Pays, e \in Charges : new[s][e] > 0 => View(r)[s][e] > 0
    <3>1. \A s \in Pays, e \in Charges :
            new[s][e] \in Nat /\ View(r)[s][e] \in Nat /\ new[s][e] <= View(r)[s][e]
      BY <1>0, <1>7 DEF Allocs
    <3> QED BY <3>1
  <2>2. \A q \in Pays \cup Charges : Seen(r, q)' = Seen(r, q)
    BY <1>11 DEF Requests
  <2> QED BY <1>0, <1>6, <2>1, <2>2 DEF Working, ViewKnown
<1>18. ASSUME NEW b \in Debtors, b # d, Complete(r, b)
       PROVE  Complete(r, b)'
  <2>1. Pair(Bills(r, b), Shares(r, b), b)
    BY <1>2, ListsOfPair
  <2>2. \A s \in Pays, f \in Charges : Debtor[s] = b => new[s][f] = View(r)[s][f]
    BY <1>8, <1>18
  <2>3. Finished(View(r), Bills(r, b), Shares(r, b), b)
    BY <1>18 DEF Complete
  <2>4. Finished(new, Bills(r, b), Shares(r, b), b)
    BY <1>0, <1>7, <2>1, <2>2, <2>3, FinishedStays
  <2> QED BY <1>6, <1>11, <2>4 DEF Complete
<1>19. Built(r)'
  BY <1>at, <1>0, <1>2, <1>4, <1>12, <1>18 DEF Working, Built, InPair
<1> QED BY <1>10, <1>15, <1>16, <1>17, <1>19 DEF Working

(* The DELETE of a pair starts, and finds the rows of this pair. *)
LEMMA StartPairWorks ==
  ASSUME LInv, NEW r \in Requests, Active(r), StartPair(r)
  PROVE  Working(r)'
<1>0. /\ TInv /\ TypeOK /\ tx[r] \in Transactions /\ Bounded(r)
      /\ Located(r) /\ Working(r)
  BY AtWork
<1>1. PICK d, rec :
        /\ d \in tx[r].left
        /\ d \in Debtors /\ Wrote(r, "delete", rec)
        /\ rec = [tx[r] EXCEPT !.pair = d, !.left = @ \ {d},
                      !.found = {m \in Pays \X Charges :
                                   Debtor[m[1]] = d /\ rows[m[1]][m[2]] > 0}]
  BY <1>0, StartPairWrites
<1>2. stage[r] = "pair" /\ r \in Charges /\ r \notin Pays
  BY <1>0, Numbers DEF StartPair, Located
<1>3. /\ rec.pair = d /\ rec.left = tx[r].left \ {d}
      /\ \A m \in rec.found : Debtor[m[1]] = d
  BY <1>0, <1>1 DEF Transactions
<1>4. Wrote(r, "delete", rec) /\ stage'[r] = "delete" /\ tx'[r] = rec
  BY <1>0, <1>1, WroteIs
<1>5. View(r)' = View(r)
  BY <1>0, <1>2, ReadersKeepBounds DEF Inside, DeleteRows, InsertRow
<1>6. Unbuilt(r)' = Unbuilt(r)
  BY <1>1, <1>2, <1>3, <1>4 DEF Unbuilt
<1>7. /\ Untouched(r)' /\ ViewKnown(r)'
      /\ \A b : Complete(r, b)' <=> Complete(r, b)
  BY <1>0, <1>4, <1>5, <1>6, SameRows DEF Working
<1>8. Loops(r)'
  BY <1>4 DEF Loops
<1>9. Tracked(r)'
  BY <1>0, <1>1, <1>2, <1>3, <1>4 DEF Working, Tracked
<1>10. Built(r)'
  BY <1>0, <1>2, <1>3, <1>4, <1>7 DEF Working, Built, InPair
<1> QED BY <1>7, <1>8, <1>9, <1>10 DEF Working

(* After the last payment, the pair is complete. *)
LEMMA EndPairWorks ==
  ASSUME LInv, NEW r \in Requests, Active(r), EndPair(r)
  PROVE  Working(r)'
<1>at. PICK d : d = tx[r].pair
  OBVIOUS
<1>0. /\ TInv /\ TypeOK /\ tx[r] \in Transactions /\ Bounded(r)
      /\ Located(r) /\ Working(r)
      /\ d \in Debtors => Pair(Bills(r, d), Shares(r, d), d)
  BY <1>at, AtWork
<1>1. PICK label : label = IF r \in Pays THEN "commit" ELSE "pair"
  OBVIOUS
<1>2. stage[r] = "payment" /\ d \in Debtors /\ tx[r].payments = {}
  BY <1>at, <1>0 DEF EndPair, Located
<1>3. Wrote(r, label, tx[r])
  BY <1>0, <1>1, <1>2 DEF EndPair, Wrote, Goto, Unchanged, Stages, Ended, TypeOK
<1>4. stage'[r] = label /\ tx'[r] = tx[r]
  BY <1>0, <1>3, WroteIs
<1>5. View(r)' = View(r)
  BY <1>0, <1>2, ReadersKeepBounds DEF Inside, DeleteRows, InsertRow
<1>6. Unbuilt(r)' = Unbuilt(r)
  BY <1>1, <1>2, <1>4 DEF Unbuilt
<1>7. /\ Untouched(r)' /\ ViewKnown(r)'
      /\ \A b : Complete(r, b)' <=> Complete(r, b)
  BY <1>0, <1>3, <1>5, <1>6, SameRows DEF Working
<1>8. Complete(r, d)
  <2>1. Passing(View(r), Bills(r, d), Shares(r, d), d, {}, 0)
    BY <1>at, <1>0, <1>2 DEF Working, Loops
  <2>2. \A s \in Bills(r, d) : s # 0
    BY <1>0, <1>2, Numbers DEF Pair
  <2> QED BY <2>1, <2>2 DEF Complete, Finished, Passing
<1>9. Loops(r)'
  BY <1>1, <1>4 DEF Loops
<1>10. Tracked(r)'
  BY <1>0, <1>1, <1>4 DEF Working, Tracked, InPair
<1>11. Built(r)'
  BY <1>at, <1>0, <1>1, <1>2, <1>4, <1>7, <1>8 DEF Working, Built, InPair, Tracked
<1> QED BY <1>7, <1>9, <1>10, <1>11 DEF Working

(* No pair is left. *)
LEMMA EndChargeWorks ==
  ASSUME LInv, NEW r \in Requests, Active(r), EndCharge(r)
  PROVE  Working(r)'
<1>0. /\ TInv /\ TypeOK /\ tx[r] \in Transactions /\ Bounded(r)
      /\ Located(r) /\ Working(r)
  BY AtWork
<1>1. stage[r] = "pair" /\ r \in Charges /\ r \notin Pays
  BY <1>0, Numbers DEF EndCharge, Located
<1>2. Wrote(r, "commit", tx[r])
  BY <1>0, <1>1 DEF EndCharge, Wrote, Goto, Unchanged, Stages, Ended, TypeOK
<1>3. stage'[r] = "commit" /\ tx'[r] = tx[r]
  BY <1>0, <1>2, WroteIs
<1>4. View(r)' = View(r)
  BY <1>0, <1>1, ReadersKeepBounds DEF Inside, DeleteRows, InsertRow
<1>5. Unbuilt(r)' = Unbuilt(r)
  BY <1>1, <1>3 DEF Unbuilt
<1>6. /\ Untouched(r)' /\ ViewKnown(r)'
      /\ \A b : Complete(r, b)' <=> Complete(r, b)
  BY <1>0, <1>2, <1>4, <1>5, SameRows DEF Working
<1>7. Loops(r)' /\ Tracked(r)' /\ Built(r)'
  BY <1>0, <1>1, <1>3, <1>6 DEF Working, Loops, Tracked, Built, InPair
<1> QED BY <1>6, <1>7 DEF Working

(* Every statement. *)
LEMMA InsideWorks ==
  ASSUME LInv, NEW r \in Requests, Active(r), Inside(r)
  PROVE  Working(r)'
BY StartPairWorks, DeleteRowsWorks, ListSharesWorks, ListPaymentsWorks,
   NextPaymentWorks, NextShareWorks, EndPaymentWorks, InsertRowWorks,
   EndPairWorks, EndChargeWorks DEF Inside

(* A request begins with the rows that are committed; it has none itself.  *)
LEMMA BeginWorks ==
  ASSUME LInv, NEW r \in Requests, Begin(r)
  PROVE  Working(r)'
<1>0. TInv /\ TypeOK /\ RowsKnown
  BY DEF LInv, SInv, RInv, TInv
<1>1. PICK rec :
        /\ rec = IF r \in Pays
                 THEN [Fresh EXCEPT !.pair = Debtor[r], !.payments = {r}]
                 ELSE [Fresh EXCEPT !.left = {d \in Debtors : Due[r][d] > 0}]
        /\ tx' = [tx EXCEPT ![r] = rec]
  BY DEF Begin
<1>2. /\ tx'[r] = rec /\ rows' = rows /\ stage[r] = "idle"
      /\ stage'[r] = IF r \in Pays THEN "shares" ELSE "pair"
  BY <1>0, <1>1 DEF TypeOK, Begin, Goto
<1>3. /\ r \in Pays => rec.pair = Debtor[r] /\ rec.payments = {r}
      /\ r \notin Pays => rec.left = {d \in Debtors : Due[r][d] > 0}
  BY <1>1 DEF Fresh
<1>4. View(r)' = rows
  BY <1>0, BeginBuilds
<1>5. \A s \in Pays, e \in Charges : rows[s][e] \in Nat
  BY <1>0 DEF TypeOK, Allocs
<1>6. \A s \in Pays, e \in Charges : s = r \/ e = r => rows[s][e] = 0
  BY <1>0, <1>2, <1>5 DEF RowsKnown
<1>7. \A q \in Pays \cup Charges : stage[q] = "committed" => Seen(r, q)'
  <2>1. \A q \in Requests : q # r => stage'[q] = stage[q]
    BY <1>0 DEF TypeOK, Begin, Goto
  <2> QED BY <1>2, <2>1 DEF Seen, Requests
<1>8. ViewKnown(r)'
  BY <1>0, <1>4, <1>7 DEF ViewKnown, RowsKnown
<1>9. Untouched(r)'
  BY <1>2, <1>4 DEF Untouched
<1>10. CASE r \in Pays
  <2>1. stage'[r] = "shares" /\ r \notin Charges
    BY <1>2, <1>10, Numbers
  <2>2. \A s \in Bills(r, tx[r].pair)', e \in Charges : View(r)'[s][e] = 0
    BY <1>4, <1>6, <1>10 DEF Bills
  <2>3. Loops(r)'
    BY <1>2, <1>3, <1>10, <2>1, <2>2 DEF Loops
  <2>4. Tracked(r)' /\ Built(r)'
    BY <1>2, <1>3, <1>10, <2>1 DEF Tracked, Built
  <2> QED BY <1>8, <1>9, <2>3, <2>4 DEF Working
<1>11. CASE r \notin Pays
  <2>1. stage'[r] = "pair"
    BY <1>2, <1>11
  <2>2. Loops(r)' /\ Tracked(r)' /\ Built(r)'
    BY <1>2, <1>3, <1>11, <2>1 DEF Loops, Tracked, Built, InPair
  <2> QED BY <1>8, <1>9, <2>2 DEF Working
<1> QED BY <1>10, <1>11

(* A log with one more entry. *)
LEMMA AppendedOnce ==
  ASSUME NEW S, NEW q \in Seq(S), Once(q), NEW x \in S,
         ~ Has(q, x), NEW new, new = Append(q, x)
  PROVE  Once(new) /\ \A s : Has(new, s) <=> s = x \/ Has(q, s)
<1>1. /\ Len(q) \in Nat /\ DOMAIN q = 1 .. Len(q) /\ DOMAIN new = 1 .. Len(q) + 1
      /\ new[Len(q) + 1] = x /\ \A i \in 1 .. Len(q) : new[i] = q[i]
  OBVIOUS
<1>2. \A i \in DOMAIN new : i \in DOMAIN q \/ i = Len(q) + 1
  BY <1>1
<1>3. \A i \in DOMAIN q : i # Len(q) + 1 /\ i \in DOMAIN new
  BY <1>1
<1>4. Once(new)
  BY <1>1, <1>2, <1>3 DEF Once, Has
<1>5. Len(q) + 1 \in DOMAIN new
  BY <1>1
<1> QED BY <1>1, <1>2, <1>3, <1>4, <1>5 DEF Has

(* A COMMIT logs its request, and the rows that its request has seen.      *)
LEMMA CommitLogs ==
  ASSUME LInv, NEW r \in Requests, Active(r), Commit(r)
  PROVE  RowsKnown' /\ Logged'
<1>0. TInv /\ TypeOK /\ Working(r) /\ RowsKnown /\ Logged /\ Pays \cap Charges = {}
  BY Numbers DEF LInv, SInv, RInv, TInv
<1>1. /\ stage[r] = "commit" /\ stage'[r] = "committed" /\ rows' = View(r)
      /\ \A q \in Requests : q # r => stage'[q] = stage[q]
  BY <1>0 DEF Commit, Goto, TypeOK
<1>2. \A q \in Pays \cup Charges : stage'[q] = "committed" <=> Seen(r, q)
  BY <1>1 DEF Seen, Requests
<1>3. RowsKnown'
  BY <1>0, <1>1, <1>2 DEF Working, ViewKnown, RowsKnown
<1>4. Logged'
  <2>1. CASE r \in Pays
    <3>1. paid' = Append(paid, r) /\ charged' = charged /\ r \notin Charges
      BY <1>0, <2>1 DEF Commit
    <3>2. Once(paid') /\ \A s : Has(paid', s) <=> s = r \/ Has(paid, s)
      <4>1. paid \in Seq(Pays) /\ r \in Pays /\ Once(paid) /\ paid' = Append(paid, r)
        BY <1>0, <2>1, <3>1 DEF Logged, TypeOK
      <4>2. ~ Has(paid, r)
        BY <1>0, <1>1, <4>1 DEF Logged
      <4> QED BY <4>1, <4>2, AppendedOnce
    <3> QED BY <1>0, <1>1, <1>2, <2>1, <3>1, <3>2 DEF Logged, Seen
  <2>2. CASE r \notin Pays
    <3>1. paid' = paid /\ charged' = Append(charged, r) /\ r \in Charges
      BY <1>0, <2>2 DEF Commit, Requests
    <3>2. Once(charged') /\ \A s : Has(charged', s) <=> s = r \/ Has(charged, s)
      <4>1. charged \in Seq(Charges) /\ r \in Charges /\ Once(charged) /\ charged' = Append(charged, r)
        BY <1>0, <2>2, <3>1 DEF Logged, TypeOK
      <4>2. ~ Has(charged, r)
        BY <1>0, <1>1, <4>1 DEF Logged
      <4> QED BY <4>1, <4>2, AppendedOnce
    <3> QED BY <1>0, <1>1, <1>2, <2>2, <3>1, <3>2 DEF Logged, Seen
  <2> QED BY <2>1, <2>2
<1> QED BY <1>3, <1>4

(* At first there is nothing. *)
LEMMA InitLoops == Init => LInv
<1> SUFFICES ASSUME Init PROVE LInv
  OBVIOUS
<1>1. SInv
  BY InitSerial
<1>2. \A r \in Requests : stage[r] = "idle" /\ ~Active(r)
  BY DEF Init, Active
<1>3. RowsKnown
  BY DEF Init, NoRows, RowsKnown
<1>4. Logged
  BY <1>2 DEF Init, Logged, Once, Has, Requests
<1> QED BY <1>1, <1>2, <1>3, <1>4 DEF LInv

(* Every step keeps the loops on their way. *)
LEMMA StepLoops ==
  ASSUME Writers = 1, LInv, [Next]_vars
  PROVE  LInv'
<1>0. SInv' /\ SInv /\ TInv /\ TypeOK /\ MetAll /\ RowsKnown /\ Logged
      /\ \A q \in Requests : met[q] = {}
  BY StepSerial DEF LInv, SInv, RInv, TInv
<1>1. CASE Next
  <2>1. PICK r \in Requests : Begin(r) \/ Inside(r) \/ Commit(r) \/ Leaves(r)
    BY <1>1, StepsOf
  <2>2. CASE Begin(r)
    <3>1. /\ Others(r) = {} /\ rows' = rows /\ paid' = paid /\ charged' = charged
          /\ stage[r] = "idle" /\ stage'[r] # "committed"
          /\ \A q \in Requests \ {r} : stage'[q] = stage[q]
      BY <1>0, <2>2, AloneBegins DEF Begin, Goto, TypeOK
    <3>2. \A q \in Requests \ {r} : ~Active(q)'
      BY <3>1 DEF Others, Active
    <3>3. RowsKnown' /\ Logged'
      <4>1. \A q \in Requests : stage'[q] = "committed" <=> stage[q] = "committed"
        BY <3>1
      <4> QED BY <1>0, <3>1, <4>1, KnownStays
    <3>4. Working(r)'
      BY <2>2, BeginWorks
    <3> QED BY <1>0, <3>2, <3>3, <3>4 DEF LInv
  <2>3. CASE Inside(r)
    <3>1. PICK label, rec : Wrote(r, label, rec)
      BY <1>0, <2>3, InsideWrites
    <3>2. /\ Active(r) /\ Active(r)' /\ rows' = rows /\ paid' = paid /\ charged' = charged
          /\ \A q \in Requests \ {r} : stage'[q] = stage[q]
      BY <1>0, <3>1, WroteIs DEF Wrote
    <3>3. \A q \in Requests \ {r} : ~Active(q)'
      BY <1>0, <3>2 DEF MetAll, Active
    <3>4. RowsKnown' /\ Logged'
      <4>1. \A q \in Requests : stage'[q] = "committed" <=> stage[q] = "committed"
        BY <3>2 DEF Active, Ended
      <4> QED BY <1>0, <3>2, <4>1, KnownStays
    <3>5. Working(r)'
      BY <2>3, <3>2, InsideWorks
    <3> QED BY <1>0, <3>3, <3>4, <3>5 DEF LInv
  <2>4. CASE Commit(r) \/ Leaves(r)
    <3>1. /\ Active(r) /\ stage'[r] \in Ended
          /\ \A q \in Requests \ {r} : stage'[q] = stage[q]
      BY <1>0, <2>4 DEF Commit, Leaves, Rollback, Unchanged, Goto, TypeOK,
         Active, Ended
    <3>2. \A q \in Requests : ~Active(q)'
      BY <1>0, <3>1 DEF MetAll, Active
    <3>3. RowsKnown' /\ Logged'
      <4>1. CASE Commit(r)
        BY <3>1, <4>1, CommitLogs
      <4>2. CASE Leaves(r)
        <5>1. rows' = rows /\ paid' = paid /\ charged' = charged /\ stage'[r] = "failed"
          BY <1>0, <4>2 DEF Leaves, Rollback, Unchanged, Goto, TypeOK
        <5>2. \A q \in Requests : stage'[q] = "committed" <=> stage[q] = "committed"
          BY <3>1, <5>1 DEF Active, Ended
        <5> QED BY <1>0, <5>1, <5>2, KnownStays
      <4> QED BY <2>4, <4>1, <4>2
    <3> QED BY <1>0, <3>2, <3>3 DEF LInv
  <2> QED BY <2>1, <2>2, <2>3, <2>4
<1>2. CASE UNCHANGED vars
  <2>1. /\ rows' = rows /\ paid' = paid /\ charged' = charged
        /\ stage' = stage /\ tx' = tx
    BY <1>2 DEF vars
  <2>2. RowsKnown' /\ Logged'
    BY <1>0, <2>1, KnownStays
  <2>3. ASSUME NEW r \in Requests, Active(r)' PROVE Working(r)'
    <3>1. Working(r)
      BY <2>1, <2>3 DEF LInv, Active
    <3>2. View(r)' = View(r)
      BY <2>1 DEF View, RowSeen
    <3>3. \A q : Seen(r, q)' = Seen(r, q)
      BY <2>1 DEF Seen
    <3>4. Unbuilt(r)' = Unbuilt(r)
      BY <2>1 DEF Unbuilt
    <3>5. \A d : Bills(r, d)' = Bills(r, d) /\ Shares(r, d)' = Shares(r, d)
      BY <3>3 DEF Bills, Shares
    <3>6. Bills(r, tx[r].pair)' = Bills(r, tx[r].pair)
      BY <2>1, <3>3 DEF Bills
    <3>7. Shares(r, tx[r].pair)' = Shares(r, tx[r].pair)
      BY <2>1, <3>3 DEF Shares
    <3>8. Loops(r)'
      BY <2>1, <3>1, <3>2, <3>6, <3>7 DEF Working, Loops
    <3>9. \A d : Complete(r, d)' = Complete(r, d)
      BY <3>2, <3>5 DEF Complete
    <3>10. Built(r)' /\ Tracked(r)'
      BY <2>1, <3>1, <3>9 DEF Working, Built, Tracked
    <3>11. Untouched(r)' /\ ViewKnown(r)'
      BY <2>1, <3>1, <3>2, <3>3, <3>4 DEF Working, Untouched, ViewKnown, Foreign
    <3> QED BY <3>8, <3>10, <3>11 DEF Working
  <2> QED BY <1>0, <2>2, <2>3 DEF LInv
<1> QED BY <1>1, <1>2

-----------------------------------------------------------------------------

(***************************************************************************)
(* The ledger of SplitLedgerProofs, with the tables of Ledger: its theorems  *)
(* on complete allocations are about the same operators.                   *)
(***************************************************************************)
F == INSTANCE SplitLedgerProofs WITH
  Users <- {Creditor}, Contacts <- Debtors, Book <- [u \in {Creditor} |-> Debtors],
  MaxGroup <- 0, MaxExpense <- Cardinality(Charges),
  MaxSettlement <- Cardinality(Pays), Dates <- Requests,
  Splits <- {SplitOfCharge(e) : e \in Charges},
  Payments <- {PaymentOf(s) : s \in Pays},
  creator <- <<>>, members <- <<>>,
  expense <- [k \in 1 .. Cardinality(Charges) |->
                IF k <= Len(charged) THEN ExpenseRow(charged[k]) ELSE NoRow],
  settlement <- [k \in 1 .. Cardinality(Pays) |->
                   IF k <= Len(paid)
                   THEN [group |-> 0, pay |-> PaymentOf(paid[k])] ELSE NoRow],
  alloc <- [k \in 1 .. Cardinality(Pays) |-> [j \in 1 .. Cardinality(Charges) |->
              IF k <= Len(paid) /\ j <= Len(charged)
              THEN rows[paid[k]][charged[j]] ELSE 0]],
  last <- [group |-> 0, expense |-> Len(charged), settlement |-> Len(paid)]

(* Their ids.                                                              *)
LEMMA FifoIds ==
  /\ F!SettlementIds = Ledger!SettlementIds /\ F!ExpenseIds = Ledger!ExpenseIds
BY DEF F!SettlementIds, Ledger!SettlementIds, F!ExpenseIds, Ledger!ExpenseIds

(* Sums.                                                                   *)
LEMMA FifoTotal ==
  ASSUME NEW f, NEW n
  PROVE  F!Total(f,n) = Ledger!Total(f,n)
BY DEF F!Total, Ledger!Total

(* The earliest of a set.                                                  *)
LEMMA FifoEarliest ==
  ASSUME NEW f, NEW n
  PROVE  F!Earliest(f,n) = Ledger!Earliest(f,n)
BY DEF F!Earliest, Ledger!Earliest

(* The next settlement.                                                    *)
LEMMA FifoFirstSettlement ==
  ASSUME NEW st, NEW S
  PROVE  F!FirstSettlement(st, S) = Ledger!FirstSettlement(st, S)
BY FifoEarliest DEF F!FirstSettlement, Ledger!FirstSettlement, F!NoGroup, Ledger!NoGroup

(* The next share.                                                         *)
LEMMA FifoFirstShare ==
  ASSUME NEW st, NEW S
  PROVE  F!FirstShare(st, S) = Ledger!FirstShare(st, S)
BY FifoEarliest DEF F!FirstShare, Ledger!FirstShare

(* What is left of a settlement.                                           *)
LEMMA FifoRemaining ==
  ASSUME NEW st, NEW al, NEW s
  PROVE  F!Remaining(st, al, s) = Ledger!Remaining(st, al, s)
BY FifoTotal DEF F!Remaining, Ledger!Remaining

(* What is open of a share.                                                *)
LEMMA FifoOpen ==
  ASSUME NEW ex, NEW st, NEW al, NEW s, NEW e
  PROVE  F!Open(ex, st, al, s, e) = Ledger!Open(ex, st, al, s, e)
BY FifoIds, FifoTotal DEF F!Open, Ledger!Open, F!Allocated, Ledger!Allocated

(* Where money can still go.                                               *)
LEMMA FifoMatches ==
  ASSUME NEW ex, NEW st, NEW al, NEW S
  PROVE  F!Matches(ex, st, al, S) = Ledger!Matches(ex, st, al, S)
BY FifoIds, FifoRemaining, FifoOpen DEF F!Matches, Ledger!Matches, F!InScope, Ledger!InScope, F!Owes, Ledger!Owes, F!NoGroup, Ledger!NoGroup

(* One row.                                                                *)
LEMMA FifoConsumeOne ==
  ASSUME NEW ex, NEW st, NEW al, NEW S
  PROVE  F!ConsumeOne(ex, st, al, S) = Ledger!ConsumeOne(ex, st, al, S)
BY FifoFirstSettlement, FifoFirstShare, FifoRemaining, FifoOpen, FifoMatches DEF F!ConsumeOne, Ledger!ConsumeOne, F!Lesser, Ledger!Lesser

(* All rows of a rebuild.                                                  *)
LEMMA FifoConsume ==
  ASSUME NEW ex, NEW st, NEW al, NEW S
  PROVE  F!Consume(ex, st, al, S) = Ledger!Consume(ex, st, al, S)
BY FifoConsumeOne DEF F!Consume, Ledger!Consume

(* The tables of the ledger, from the payments P and the expenses C that   *)
(* have committed and from their rows R.                                   *)
MapEx(C) == [k \in 1 .. Cardinality(Charges) |->
               IF k <= Len(C) THEN ExpenseRow(C[k]) ELSE NoRow]

MapSt(P) == [k \in 1 .. Cardinality(Pays) |->
               IF k <= Len(P) THEN [group |-> 0, pay |-> PaymentOf(P[k])] ELSE NoRow]

MapAl(R, P, C) ==
  [k \in 1 .. Cardinality(Pays) |-> [j \in 1 .. Cardinality(Charges) |->
     IF k <= Len(P) /\ j <= Len(C) THEN R[P[k]][C[j]] ELSE 0]]

(* Rows of payments and of shares that have committed, and sound.          *)
Books(R, P, C) ==
  /\ R \in Allocs
  /\ P \in Seq(Pays) /\ Once(P) /\ C \in Seq(Charges) /\ Once(C)
  /\ \A s \in Pays, e \in Charges :
       R[s][e] > 0 => Has(P, s) /\ Has(C, e) /\ Due[e][Debtor[s]] > 0
  /\ \A d \in Debtors : PairSound(R, d)

(* A log without repetition is no longer than what it logs.                *)
LEMMA LogIsShort ==
  ASSUME NEW S, IsFiniteSet(S), NEW q \in Seq(S), Once(q)
  PROVE  Len(q) \in Nat /\ Len(q) <= Cardinality(S)
<1>1. Len(q) \in Nat /\ q \in [1 .. Len(q) -> S] /\ DOMAIN q = 1 .. Len(q)
  OBVIOUS
<1>2. q \in Injection(1 .. Len(q), S)
  BY <1>1 DEF Injection, IsInjective, Once
<1>3. Cardinality(1 .. Len(q)) <= Cardinality(S)
  BY <1>2, FS_Injection
<1>4. Cardinality(1 .. Len(q)) = Len(q)
  BY <1>1, FS_Interval
<1> QED BY <1>1, <1>3, <1>4

(* Payments and expenses are finitely many.                                *)
LEMMA RequestsAreFew ==
  /\ IsFiniteSet(Pays) /\ IsFiniteSet(Charges)
  /\ Cardinality(Pays) \in Nat /\ Cardinality(Charges) \in Nat
<1>1. IsFiniteSet(1 .. MaxRequest)
  BY Numbers, FS_Interval
<1>2. IsFiniteSet(Pays) /\ IsFiniteSet(Charges)
  BY <1>1, Numbers, FS_Subset
<1> QED BY <1>2, FS_CardinalityType

(* The split of an expense is one the ledger knows.                        *)
LEMMA SplitIs ==
  ASSUME NEW e \in Charges
  PROVE  /\ SplitOfCharge(e) \in F!Split
         /\ SplitOfCharge(e).payer = Creditor /\ Creditor \in SplitOfCharge(e).among
         /\ SplitOfCharge(e).among \ {Creditor} = {d \in Debtors : Due[e][d] > 0}
         /\ \A d \in Debtors : SplitOfCharge(e).share[d] = Due[e][d]
         /\ SplitOfCharge(e).share[Creditor] = 0
<1>1. Creditor \notin Debtors /\ IsFiniteSet(Debtors)
  BY MappingAssumption
<1>2. \A d \in Debtors : Due[e][d] \in Nat
  BY Numbers
<1>3. SumOver(Debtors, Due[e]) \in Nat
  <2> DEFINE n == Cardinality(Debtors)
             q == Numbered(Debtors)
             f == [i \in 1 .. n |-> Due[e][q[i]]]
  <2>1. n \in Nat /\ q \in [1 .. n -> Debtors]
    BY <1>1, NumberedIs DEF NumberedBy
  <2>2. \A i \in 1 .. n : f[i] \in Nat
    BY <1>2, <2>1
  <2> HIDE DEF n, f
  <2>3. Total(f, n) \in Nat
    BY <2>1, <2>2, TotalNatural
  <2> QED BY <2>3 DEF SumOver, n, f, q
<1>4. F!Identities = {Creditor} \cup Debtors
  BY DEF F!Identities
<1>5. [i \in {Creditor} \cup Debtors |-> IF i = Creditor THEN 0 ELSE Due[e][i]]
        \in [F!Identities -> Nat]
  BY <1>2, <1>4
<1>6. {Creditor} \cup {d \in Debtors : Due[e][d] > 0} \in SUBSET F!Identities
  BY <1>4
<1>7. SplitOfCharge(e) \in F!Split
  BY <1>3, <1>4, <1>5, <1>6 DEF SplitOfCharge, F!Split, F!Methods
<1> QED BY <1>1, <1>7 DEF SplitOfCharge

(* The constants of the ledger are what it assumes.                        *)
LEMMA MappingIsLedger ==
  /\ F!LedgerAssumption
  /\ NoRow \notin F!Expense /\ NoRow \notin F!Settlement
<1>1. F!Identities = {Creditor} \cup Debtors
  BY DEF F!Identities
<1>2. [u \in {Creditor} |-> Debtors] \in [{Creditor} -> SUBSET F!Identities]
  BY <1>1
<1>3. \A sp \in {SplitOfCharge(e) : e \in Charges} :
        sp \in F!Split /\ sp.payer \in sp.among
  BY SplitIs
<1>4. Requests \subseteq Nat
  BY Numbers DEF Requests
<1>5. \A s \in Pays : PaymentOf(s) \in F!Payment
  BY <1>1, RaceAssumption DEF PaymentOf, F!Payment, Requests
<1>6. NoUser \notin {Creditor}
  BY MappingAssumption
<1>7. F!Expense = Ledger!Expense /\ F!Settlement = Ledger!Settlement
  BY DEF F!Expense, Ledger!Expense, F!Settlement, Ledger!Settlement, F!Split,
     Ledger!Split, F!Payment, Ledger!Payment, F!Methods, Ledger!Methods,
     F!Identities, Ledger!Identities, F!GroupIds, Ledger!GroupIds,
     F!NoGroup, Ledger!NoGroup
<1>8. NoRow \notin F!Expense /\ NoRow \notin F!Settlement
  BY <1>7, MappingAssumption
<1> QED BY <1>2, <1>3, <1>4, <1>5, <1>6, <1>8, RequestsAreFew DEF F!LedgerAssumption

(* f lists the entries of g in the order of a log q.                       *)
Relisted(f, n, q, g) ==
  /\ \E S \in SUBSET (1 .. MaxRequest) : q \in Seq(S)
  /\ Once(q) /\ n \in Nat /\ Len(q) <= n
  /\ \A i \in 1 .. n : f[i] = IF i <= Len(q) THEN g[q[i]] ELSE 0
  /\ \A j \in 1 .. MaxRequest : g[j] \in Int /\ (g[j] = 0 \/ Has(q, j))

(* So their sums are the same.                                             *)
LEMMA SumOfLog ==
  ASSUME NEW q, NEW n, NEW f, NEW g, Relisted(f, n, q, g)
  PROVE  Total(f, n) = Total(g, MaxRequest)
<1> DEFINE m == MaxRequest
           a == [i \in 1 .. n |-> IF i <= Len(q) THEN q[i] ELSE -i]
           b == [j \in 1 .. m |-> j]
<1>1. /\ n \in Nat /\ m \in Nat /\ Len(q) \in Nat /\ Len(q) <= n
      /\ DOMAIN q = 1 .. Len(q) /\ \A i \in 1 .. Len(q) : q[i] \in 1 .. m
  <2>1. PICK S \in SUBSET (1 .. m) : q \in Seq(S)
    BY DEF Relisted
  <2>2. DOMAIN q = 1 .. Len(q) /\ Len(q) \in Nat /\ \A i \in 1 .. Len(q) : q[i] \in S
    BY <2>1
  <2> QED BY <2>2, Numbers DEF Relisted
<1>2. \A i \in 1 .. n :
        /\ i <= Len(q) => i \in DOMAIN q /\ a[i] = q[i] /\ a[i] \in 1 .. m
        /\ ~ (i <= Len(q)) => a[i] = -i /\ a[i] \notin 1 .. m
  BY <1>1
<1>3. \A j \in 1 .. m : b[j] = j
  OBVIOUS
<1> HIDE DEF a, b
<1>4. ASSUME NEW i \in 1 .. n, NEW k \in 1 .. n, a[i] = a[k] PROVE i = k
  <2>1. CASE i <= Len(q) /\ k <= Len(q)
    BY <1>2, <1>4, <2>1 DEF Once, Relisted
  <2>2. CASE ~ (i <= Len(q)) /\ ~ (k <= Len(q))
    BY <1>1, <1>2, <1>4, <2>2
  <2> QED BY <1>2, <1>4, <2>1, <2>2
<1>5. \A i \in 1 .. n : f[i] \in Int
  BY <1>1, <1>2 DEF Relisted
<1>6. \A i \in 1 .. n : \A j \in 1 .. m : a[i] = b[j] => f[i] = g[j]
  BY <1>1, <1>2, <1>3 DEF Relisted
<1>7. ASSUME NEW i \in 1 .. n, \A j \in 1 .. m : a[i] # b[j] PROVE f[i] = 0
  <2>1. ~ (i <= Len(q))
    BY <1>2, <1>3, <1>7
  <2> QED BY <2>1 DEF Relisted
<1>8. ASSUME NEW j \in 1 .. m, \A i \in 1 .. n : a[i] # b[j] PROVE g[j] = 0
  <2>1. ~ Has(q, j)
    <3> SUFFICES ASSUME NEW i \in DOMAIN q, q[i] = j PROVE FALSE
      BY DEF Has
    <3>1. i \in 1 .. n /\ i <= Len(q)
      BY <1>1
    <3> QED BY <1>2, <1>3, <1>8, <3>1
  <2> QED BY <2>1 DEF Relisted
<1>9. Matched(n, m, f, g, a, b)
  BY <1>1, <1>3, <1>4, <1>5, <1>6, <1>7, <1>8 DEF Matched
<1> QED BY <1>9, TotalMatched DEF m

(* The entries of the tables.                                              *)
LEMMA EntriesAre ==
  ASSUME NEW R, NEW P, NEW C, Books(R, P, C),
         NEW ex, ex = MapEx(C), NEW st, st = MapSt(P), NEW al, al = MapAl(R, P, C)
  PROVE  /\ Len(P) \in Nat /\ Len(P) <= Cardinality(Pays)
         /\ Len(C) \in Nat /\ Len(C) <= Cardinality(Charges)
         /\ F!SettlementIds = 1 .. Cardinality(Pays)
         /\ F!ExpenseIds = 1 .. Cardinality(Charges)
         /\ \A k \in F!SettlementIds :
              IF k <= Len(P)
              THEN /\ P[k] \in Pays /\ st[k] # NoRow /\ st[k].group = 0
                   /\ st[k].pay.debtor = Debtor[P[k]] /\ st[k].pay.creditor = Creditor
                   /\ st[k].pay.amount = Amount[P[k]] /\ st[k].pay.date = P[k]
              ELSE st[k] = NoRow
         /\ \A j \in F!ExpenseIds :
              IF j <= Len(C)
              THEN /\ C[j] \in Charges /\ ex[j] # NoRow /\ ex[j].group = 0
                   /\ ex[j].date = C[j] /\ ex[j].split = SplitOfCharge(C[j])
              ELSE ex[j] = NoRow
         /\ \A k \in F!SettlementIds, j \in F!ExpenseIds :
              al[k][j] = IF k <= Len(P) /\ j <= Len(C) THEN R[P[k]][C[j]] ELSE 0
         /\ F!Tables(ex, st, al)
<1>1. Len(P) \in Nat /\ Len(P) <= Cardinality(Pays)
  BY LogIsShort, RequestsAreFew DEF Books
<1>2. Len(C) \in Nat /\ Len(C) <= Cardinality(Charges)
  BY LogIsShort, RequestsAreFew DEF Books
<1>3. F!SettlementIds = 1 .. Cardinality(Pays) /\ F!ExpenseIds = 1 .. Cardinality(Charges)
  BY DEF F!SettlementIds, F!ExpenseIds
<1>4. /\ \A k \in 1 .. Cardinality(Pays) : k <= Len(P) => P[k] \in Pays
      /\ \A j \in 1 .. Cardinality(Charges) : j <= Len(C) => C[j] \in Charges
  <2>1. P \in Seq(Pays) /\ C \in Seq(Charges)
    BY DEF Books
  <2> QED BY <1>1, <1>2, <2>1
<1>5. \A s \in Pays : [group |-> 0, pay |-> PaymentOf(s)] \in F!Settlement
  <2>1. \A s \in Pays : PaymentOf(s) \in F!Payment
    BY MappingIsLedger DEF F!LedgerAssumption
  <2> QED BY <2>1 DEF F!Settlement, F!NoGroup
<1>6. \A e \in Charges : ExpenseRow(e) \in F!Expense
  <2>1. F!Identities = {Creditor} \cup Debtors
    BY DEF F!Identities
  <2>2. ASSUME NEW e \in Charges PROVE SplitOfCharge(e).among \in SUBSET F!Identities
    BY SplitIs, <2>1 DEF SplitOfCharge
  <2> QED BY <2>2, SplitIs DEF ExpenseRow, F!Expense, F!NoGroup, Requests
<1>7. \A k \in F!SettlementIds :
        st[k] = IF k <= Len(P) THEN [group |-> 0, pay |-> PaymentOf(P[k])] ELSE NoRow
  BY <1>3 DEF MapSt
<1>8. \A j \in F!ExpenseIds : ex[j] = IF j <= Len(C) THEN ExpenseRow(C[j]) ELSE NoRow
  BY <1>3 DEF MapEx
<1>9. \A k \in F!SettlementIds :
        IF k <= Len(P)
        THEN /\ P[k] \in Pays /\ st[k] # NoRow /\ st[k].group = 0
             /\ st[k].pay.debtor = Debtor[P[k]] /\ st[k].pay.creditor = Creditor
             /\ st[k].pay.amount = Amount[P[k]] /\ st[k].pay.date = P[k]
        ELSE st[k] = NoRow
  <2>1. ASSUME NEW k \in F!SettlementIds, k <= Len(P)
        PROVE  /\ P[k] \in Pays /\ st[k] # NoRow /\ st[k].group = 0
               /\ st[k].pay.debtor = Debtor[P[k]] /\ st[k].pay.creditor = Creditor
               /\ st[k].pay.amount = Amount[P[k]] /\ st[k].pay.date = P[k]
    <3>1. PICK s \in Pays : s = P[k]
      BY <1>3, <1>4, <2>1
    <3>2. PICK x : x = st[k]
      OBVIOUS
    <3>3. x = [group |-> 0, pay |-> PaymentOf(s)]
      BY <1>7, <2>1, <3>1, <3>2
    <3>4. x # NoRow
      BY <1>5, <3>3, MappingIsLedger
    <3>5. /\ x.group = 0 /\ x.pay.debtor = Debtor[s] /\ x.pay.creditor = Creditor
          /\ x.pay.amount = Amount[s] /\ x.pay.date = s
      BY <3>3 DEF PaymentOf
    <3> QED BY <3>1, <3>2, <3>4, <3>5
  <2>2. ASSUME NEW k \in F!SettlementIds, ~ (k <= Len(P)) PROVE st[k] = NoRow
    BY <1>7, <2>2
  <2> QED BY <2>1, <2>2
<1>10. \A j \in F!ExpenseIds :
         IF j <= Len(C)
         THEN /\ C[j] \in Charges /\ ex[j] # NoRow /\ ex[j].group = 0
              /\ ex[j].date = C[j] /\ ex[j].split = SplitOfCharge(C[j])
         ELSE ex[j] = NoRow
  <2>1. \A j \in F!ExpenseIds : j <= Len(C) => C[j] \in Charges /\ ex[j] = ExpenseRow(C[j])
    BY <1>3, <1>4, <1>8
  <2>2. \A j \in F!ExpenseIds : j <= Len(C) => ex[j] # NoRow
    BY <1>6, <2>1, MappingIsLedger
  <2>3. \A e : /\ ExpenseRow(e).group = 0 /\ ExpenseRow(e).date = e
               /\ ExpenseRow(e).split = SplitOfCharge(e)
    BY DEF ExpenseRow
  <2>4. \A j \in F!ExpenseIds : ~ (j <= Len(C)) => ex[j] = NoRow
    BY <1>8
  <2> QED BY <2>1, <2>2, <2>3, <2>4
<1>11. \A k \in F!SettlementIds, j \in F!ExpenseIds :
         al[k][j] = IF k <= Len(P) /\ j <= Len(C) THEN R[P[k]][C[j]] ELSE 0
  BY <1>3 DEF MapAl
<1>12. F!Tables(ex, st, al)
  <2>1. st \in [F!SettlementIds -> F!Settlement \cup {NoRow}]
    BY <1>3, <1>4, <1>5 DEF MapSt
  <2>2. ex \in [F!ExpenseIds -> F!Expense \cup {NoRow}]
    BY <1>3, <1>4, <1>6 DEF MapEx
  <2>3. \A k \in F!SettlementIds, j \in F!ExpenseIds :
          (IF k <= Len(P) /\ j <= Len(C) THEN R[P[k]][C[j]] ELSE 0) \in Nat
    BY <1>3, <1>4 DEF Books, Allocs
  <2>4. al \in F!Allocs
    BY <1>3, <2>3 DEF MapAl, F!Allocs
  <2> QED BY <2>1, <2>2, <2>4 DEF F!Tables
<1> QED BY <1>1, <1>2, <1>3, <1>9, <1>10, <1>11, <1>12

(* What is left of a payment, and what is open of a share.                 *)
LEMMA LeftAndOpen ==
  ASSUME NEW R, NEW P, NEW C, Books(R, P, C),
         NEW ex, ex = MapEx(C), NEW st, st = MapSt(P), NEW al, al = MapAl(R, P, C)
  PROVE  /\ \A k \in F!SettlementIds : k <= Len(P) =>
              F!Remaining(st, al, k) = Amount[P[k]] - Spent(R, P[k])
         /\ \A j \in F!ExpenseIds, d \in Debtors : j <= Len(C) =>
              F!Open(ex, st, al, j, d) = Due[C[j]][d] - Settled(R, C[j], d)
         /\ \A j \in F!ExpenseIds : j <= Len(C) =>
              F!Open(ex, st, al, j, Creditor) = 0
<1>1. /\ Len(P) \in Nat /\ Len(P) <= Cardinality(Pays)
      /\ Len(C) \in Nat /\ Len(C) <= Cardinality(Charges)
      /\ F!SettlementIds = 1 .. Cardinality(Pays)
      /\ F!ExpenseIds = 1 .. Cardinality(Charges)
      /\ \A k \in F!SettlementIds :
           IF k <= Len(P)
           THEN /\ P[k] \in Pays /\ st[k] # NoRow /\ st[k].pay.debtor = Debtor[P[k]]
                /\ st[k].pay.amount = Amount[P[k]]
           ELSE st[k] = NoRow
      /\ \A j \in F!ExpenseIds :
           j <= Len(C) => C[j] \in Charges /\ ex[j].split = SplitOfCharge(C[j])
      /\ \A k \in F!SettlementIds, j \in F!ExpenseIds :
           al[k][j] = IF k <= Len(P) /\ j <= Len(C) THEN R[P[k]][C[j]] ELSE 0
  BY EntriesAre
<1>2. /\ P \in Seq(Pays) /\ Once(P) /\ Pays \subseteq 1 .. MaxRequest
      /\ C \in Seq(Charges) /\ Once(C) /\ Charges \subseteq 1 .. MaxRequest
      /\ R \in Allocs
      /\ \A s \in Pays, e \in Charges : R[s][e] \in Nat
      /\ \A s \in Pays, e \in Charges : R[s][e] > 0 => Has(P, s) /\ Has(C, e)
  BY Numbers DEF Books, Allocs
<1>3. ASSUME NEW k \in F!SettlementIds, k <= Len(P)
      PROVE  F!Remaining(st, al, k) = Amount[P[k]] - Spent(R, P[k])
  <2> DEFINE n == Cardinality(Charges)
             g == [e \in 1 .. MaxRequest |-> IF e \in Charges THEN R[P[k]][e] ELSE 0]
  <2>1. P[k] \in Pays
    BY <1>1, <1>3
  <2>2. \A i \in 1 .. n : al[k][i] = IF i <= Len(C) THEN g[C[i]] ELSE 0
    <3>1. \A i \in 1 .. n : i <= Len(C) => C[i] \in Charges /\ C[i] \in 1 .. MaxRequest
      BY <1>1, Numbers
    <3>2. \A i \in 1 .. n : i <= Len(C) => g[C[i]] = R[P[k]][C[i]]
      BY <3>1
    <3> QED BY <1>1, <1>3, <3>2
  <2>3. ASSUME NEW e \in 1 .. MaxRequest PROVE g[e] \in Int /\ (g[e] = 0 \/ Has(C, e))
    <3>1. CASE e \in Charges
      <4>1. g[e] = R[P[k]][e] /\ R[P[k]][e] \in Nat
        BY <1>2, <2>1, <3>1
      <4>2. R[P[k]][e] > 0 => Has(C, e)
        BY <1>2, <2>1, <3>1
      <4> QED BY <4>1, <4>2
    <3>2. CASE e \notin Charges
      BY <3>2
    <3> QED BY <3>1, <3>2
  <2>4. n \in Nat /\ Len(C) <= n
    BY <1>1, RequestsAreFew
  <2> HIDE DEF n, g
  <2>5. Relisted(al[k], n, C, g)
    BY <1>2, <2>2, <2>3, <2>4 DEF Relisted
  <2>6. Total(al[k], n) = Total(g, MaxRequest)
    BY <2>5, SumOfLog
  <2>7. F!Total(al[k], n) = Spent(R, P[k])
    BY <2>6 DEF F!Total, Total, Spent, g
  <2> QED BY <1>1, <1>3, <2>7 DEF F!Remaining, n
<1>4. ASSUME NEW j \in F!ExpenseIds, j <= Len(C), NEW d
      PROVE  F!Allocated(st, al, j, d) = Settled(R, C[j], d)
  <2> DEFINE n == Cardinality(Pays)
             g == [s \in 1 .. MaxRequest |->
                     IF s \in Pays /\ Debtor[s] = d THEN R[s][C[j]] ELSE 0]
             f == [k \in F!SettlementIds |->
                     IF st[k] # NoRow /\ st[k].pay.debtor = d THEN al[k][j] ELSE 0]
  <2>1. C[j] \in Charges
    BY <1>1, <1>4
  <2>2. \A i \in 1 .. n : f[i] = IF i <= Len(P) THEN g[P[i]] ELSE 0
    <3>1. \A i \in 1 .. n : i <= Len(P) => P[i] \in Pays /\ P[i] \in 1 .. MaxRequest
      BY <1>1, Numbers
    <3>2. \A i \in 1 .. n : i <= Len(P) =>
            g[P[i]] = IF Debtor[P[i]] = d THEN R[P[i]][C[j]] ELSE 0
      BY <3>1
    <3> QED BY <1>1, <1>4, <3>2
  <2>3. ASSUME NEW s \in 1 .. MaxRequest PROVE g[s] \in Int /\ (g[s] = 0 \/ Has(P, s))
    <3>1. CASE s \in Pays /\ Debtor[s] = d
      <4>1. g[s] = R[s][C[j]] /\ R[s][C[j]] \in Nat
        BY <1>2, <2>1, <3>1
      <4>2. R[s][C[j]] > 0 => Has(P, s)
        BY <1>2, <2>1, <3>1
      <4> QED BY <4>1, <4>2
    <3>2. CASE ~ (s \in Pays /\ Debtor[s] = d)
      BY <3>2
    <3> QED BY <3>1, <3>2
  <2>4. n \in Nat /\ Len(P) <= n
    BY <1>1, RequestsAreFew
  <2>5. F!Allocated(st, al, j, d) = F!Total(f, n)
    BY DEF F!Allocated
  <2> HIDE DEF n, g, f
  <2>6. Relisted(f, n, P, g)
    BY <1>2, <2>2, <2>3, <2>4 DEF Relisted
  <2>7. Total(f, n) = Total(g, MaxRequest)
    BY <2>6, SumOfLog
  <2> QED BY <2>5, <2>7 DEF F!Total, Total, Settled, g
<1>5. ASSUME NEW j \in F!ExpenseIds, j <= Len(C)
      PROVE  /\ \A d \in Debtors :
                  F!Open(ex, st, al, j, d) = Due[C[j]][d] - Settled(R, C[j], d)
             /\ F!Open(ex, st, al, j, Creditor) = 0
  <2>1. /\ C[j] \in Charges /\ ex[j].split = SplitOfCharge(C[j])
    BY <1>1, <1>5
  <2>2. Settled(R, C[j], Creditor) = 0
    <3> DEFINE g == [s \in 1 .. MaxRequest |->
                       IF s \in Pays /\ Debtor[s] = Creditor THEN R[s][C[j]] ELSE 0]
    <3>1. \A s \in 1 .. MaxRequest : g[s] = 0
      BY Numbers, MappingAssumption
    <3> HIDE DEF g
    <3>2. Total(g, MaxRequest) = 0
      BY <3>1, Numbers, TotalZero
    <3> QED BY <3>2 DEF Settled, g
  <2>3. \A d \in Debtors : ex[j].split.share[d] = Due[C[j]][d]
    BY <2>1, SplitIs
  <2>4. ex[j].split.share[Creditor] = 0
    BY <2>1, SplitIs
  <2> QED BY <1>4, <1>5, <2>2, <2>3, <2>4 DEF F!Open
<1> QED BY <1>3, <1>5

(* Who owes what.                                                          *)
LEMMA OwesIs ==
  ASSUME NEW R, NEW P, NEW C, Books(R, P, C),
         NEW ex, ex = MapEx(C), NEW st, st = MapSt(P),
         NEW k \in F!SettlementIds, NEW j \in F!ExpenseIds
  PROVE  /\ F!Owes(ex, st, k, j) <=>
              k <= Len(P) /\ j <= Len(C) /\ Due[C[j]][Debtor[P[k]]] > 0
         /\ F!InScope(ex, st, k, j) <=> F!Owes(ex, st, k, j)
<1>1. PICK al : al = MapAl(R, P, C)
  OBVIOUS
<1>2. /\ IF k <= Len(P)
         THEN /\ P[k] \in Pays /\ st[k] # NoRow /\ st[k].group = 0
              /\ st[k].pay.debtor = Debtor[P[k]] /\ st[k].pay.creditor = Creditor
         ELSE st[k] = NoRow
      /\ IF j <= Len(C)
         THEN /\ C[j] \in Charges /\ ex[j] # NoRow /\ ex[j].split = SplitOfCharge(C[j])
         ELSE ex[j] = NoRow
  BY <1>1, EntriesAre
<1>3. CASE k <= Len(P) /\ j <= Len(C)
  <2>1. PICK e \in Charges : e = C[j]
    BY <1>2, <1>3
  <2>2. PICK s \in Pays : s = P[k]
    BY <1>2, <1>3
  <2>3. PICK sp : sp = ex[j].split
    OBVIOUS
  <2>4. sp.payer = Creditor /\ sp.among \ {Creditor} = {d \in Debtors : Due[e][d] > 0}
    BY <1>2, <1>3, <2>1, <2>3, SplitIs
  <2>5. Debtor[s] \in Debtors
    BY Numbers
  <2>6. Debtor[s] \in sp.among \ {sp.payer} <=> Due[e][Debtor[s]] > 0
    BY <2>4, <2>5
  <2>7. F!Owes(ex, st, k, j) <=> Due[e][Debtor[s]] > 0
    BY <1>2, <1>3, <2>2, <2>3, <2>4, <2>6 DEF F!Owes
  <2>8. F!InScope(ex, st, k, j) <=> F!Owes(ex, st, k, j)
    BY <1>2, <1>3 DEF F!InScope, F!NoGroup
  <2> QED BY <1>3, <2>1, <2>2, <2>7, <2>8
<1>4. CASE ~ (k <= Len(P) /\ j <= Len(C))
  BY <1>2, <1>4 DEF F!Owes, F!InScope
<1> QED BY <1>3, <1>4

(* The rows are those of a ledger.                                         *)
LEMMA BooksAreSound ==
  ASSUME NEW R, NEW P, NEW C, Books(R, P, C),
         NEW ex, ex = MapEx(C), NEW st, st = MapSt(P), NEW al, al = MapAl(R, P, C)
  PROVE  F!Sound(ex, st, al)
<1>1. /\ \A k \in F!SettlementIds :
           IF k <= Len(P) THEN P[k] \in Pays ELSE st[k] = NoRow
      /\ \A j \in F!ExpenseIds :
           IF j <= Len(C) THEN C[j] \in Charges ELSE ex[j] = NoRow
      /\ \A k \in F!SettlementIds, j \in F!ExpenseIds :
           al[k][j] = IF k <= Len(P) /\ j <= Len(C) THEN R[P[k]][C[j]] ELSE 0
  BY EntriesAre
<1>2. /\ R \in Allocs /\ \A d \in Debtors : PairSound(R, d)
      /\ \A s \in Pays, e \in Charges : R[s][e] > 0 => Due[e][Debtor[s]] > 0
  BY DEF Books
<1>3. F!FollowDebts(ex, st, al)
  <2>1. ASSUME NEW k \in F!SettlementIds, NEW j \in F!ExpenseIds, al[k][j] > 0
        PROVE  F!Owes(ex, st, k, j)
    <3>1. k <= Len(P) /\ j <= Len(C) /\ al[k][j] = R[P[k]][C[j]]
      BY <1>1, <2>1
    <3>2. P[k] \in Pays /\ C[j] \in Charges
      BY <1>1, <3>1
    <3>3. Due[C[j]][Debtor[P[k]]] > 0
      BY <1>2, <2>1, <3>1, <3>2
    <3> QED BY <3>1, <3>3, OwesIs
  <2> QED BY <2>1 DEF F!FollowDebts
<1>4. F!NotOverSpent(st, al)
  <2>1. ASSUME NEW k \in F!SettlementIds, st[k] # NoRow
        PROVE  F!Remaining(st, al, k) >= 0
    <3>1. k <= Len(P) /\ P[k] \in Pays
      BY <1>1, <2>1
    <3>2. F!Remaining(st, al, k) = Amount[P[k]] - Spent(R, P[k])
      BY <3>1, LeftAndOpen
    <3>3. PICK s \in Pays : s = P[k]
      BY <3>1
    <3>4. Spent(R, s) <= Amount[s] /\ Spent(R, s) \in Nat /\ Amount[s] \in Nat
      BY <1>2, SumsAreNatural, Numbers DEF PairSound, PaymentSound
    <3> QED BY <3>2, <3>3, <3>4
  <2> QED BY <2>1 DEF F!NotOverSpent
<1>5. F!NotOverSettled(ex, st, al)
  <2>1. ASSUME NEW j \in F!ExpenseIds, NEW p \in F!Identities, ex[j] # NoRow
        PROVE  F!Open(ex, st, al, j, p) >= 0
    <3>1. j <= Len(C) /\ C[j] \in Charges
      BY <1>1, <2>1
    <3>2. CASE p \in Debtors
      <4>1. F!Open(ex, st, al, j, p) = Due[C[j]][p] - Settled(R, C[j], p)
        BY <3>1, <3>2, LeftAndOpen
      <4>2. PICK e \in Charges : e = C[j]
        BY <3>1
      <4>3. Settled(R, e, p) <= Due[e][p] /\ Settled(R, e, p) \in Nat /\ Due[e][p] \in Nat
        BY <1>2, <3>2, SumsAreNatural, Numbers DEF PairSound, ShareSound
      <4> QED BY <4>1, <4>2, <4>3
    <3>3. CASE p = Creditor
      <4>1. F!Open(ex, st, al, j, Creditor) = 0
        BY <3>1, LeftAndOpen
      <4> QED BY <3>3, <4>1
    <3> QED BY <3>2, <3>3 DEF F!Identities
  <2> QED BY <2>1 DEF F!NotOverSettled
<1> QED BY <1>3, <1>4, <1>5 DEF F!Sound

(* The ids of the payments S in the log P, and the shares of d in the log C. *)
Ids(P, S) == {k \in F!SettlementIds : k <= Len(P) /\ P[k] \in S}
Owed(C, d) == {e \in Charges : Has(C, e) /\ Due[e][d] > 0}

(* The loops have come to their end exactly when the ledger has no match   *)
(* left, and their rows are in the order of the ledger.                    *)
LEMMA FinishedIsComplete ==
  ASSUME NEW R, NEW P, NEW C, Books(R, P, C),
         NEW ex, ex = MapEx(C), NEW st, st = MapSt(P), NEW al, al = MapAl(R, P, C),
         NEW d, NEW S, NEW E, E = Owed(C, d), Pair(S, E, d), Finished(R, S, E, d),
         NEW T, T = Ids(P, S)
  PROVE  F!Complete(ex, st, al, T) /\ F!OfPair(st, T, d, Creditor)
<1>1. /\ Len(P) \in Nat /\ Len(C) \in Nat
      /\ F!SettlementIds = 1 .. Cardinality(Pays)
      /\ F!ExpenseIds = 1 .. Cardinality(Charges)
      /\ \A k \in F!SettlementIds : k <= Len(P) =>
           /\ P[k] \in Pays /\ st[k] # NoRow /\ st[k].group = 0
           /\ st[k].pay.debtor = Debtor[P[k]] /\ st[k].pay.creditor = Creditor
           /\ st[k].pay.date = P[k]
      /\ \A j \in F!ExpenseIds : j <= Len(C) => C[j] \in Charges /\ ex[j].date = C[j]
      /\ \A k \in F!SettlementIds, j \in F!ExpenseIds :
           al[k][j] = IF k <= Len(P) /\ j <= Len(C) THEN R[P[k]][C[j]] ELSE 0
  BY EntriesAre
<1>2. /\ R \in Allocs /\ d \in Debtors /\ S \subseteq Pays /\ E \subseteq Charges
      /\ \A s \in S : Debtor[s] = d
      /\ InOrder(R, S, E, d) /\ \A s \in S : Served(R, s, E, d)
  BY DEF Books, Pair, Finished
<1>3. \A k \in T : /\ k \in F!SettlementIds /\ k <= Len(P) /\ P[k] \in S /\ P[k] \in Pays
                   /\ st[k] # NoRow /\ st[k].pay.debtor = d /\ st[k].pay.creditor = Creditor
                   /\ st[k].pay.date = P[k] /\ st[k].group = 0
  BY <1>1, <1>2 DEF Ids
<1>4. \A j \in F!ExpenseIds : j <= Len(C) => C[j] \in Charges /\ Has(C, C[j])
  <2>1. \A j \in F!ExpenseIds : j <= Len(C) => j \in DOMAIN C
    <3>1. C \in Seq(Charges)
      BY DEF Books
    <3> QED BY <1>1, <3>1
  <2> QED BY <1>1, <2>1 DEF Has
<1>5. \A i, j \in F!ExpenseIds : i <= Len(C) /\ j <= Len(C) /\ C[i] = C[j] => i = j
  <2>1. \A j \in F!ExpenseIds : j <= Len(C) => j \in DOMAIN C
    <3>1. C \in Seq(Charges)
      BY DEF Books
    <3> QED BY <1>1, <3>1
  <2> QED BY <2>1 DEF Books, Once
<1>6. \A i, k \in F!SettlementIds : i <= Len(P) /\ k <= Len(P) /\ P[i] = P[k] => i = k
  <2>1. \A j \in F!SettlementIds : j <= Len(P) => j \in DOMAIN P
    <3>1. P \in Seq(Pays)
      BY DEF Books
    <3> QED BY <1>1, <3>1
  <2> QED BY <2>1 DEF Books, Once
<1>7. \A k \in T, j \in F!ExpenseIds :
        F!InScope(ex, st, k, j) <=> j <= Len(C) /\ C[j] \in E
  <2>1. ASSUME NEW k \in T, NEW j \in F!ExpenseIds
        PROVE  F!InScope(ex, st, k, j) <=> j <= Len(C) /\ C[j] \in E
    <3>1. F!InScope(ex, st, k, j) <=>
            k <= Len(P) /\ j <= Len(C) /\ Due[C[j]][Debtor[P[k]]] > 0
      BY <1>3, OwesIs
    <3>2. k <= Len(P) /\ Debtor[P[k]] = d
      BY <1>2, <1>3
    <3>3. j <= Len(C) => (C[j] \in E <=> Due[C[j]][d] > 0)
      BY <1>4 DEF Owed
    <3> QED BY <3>1, <3>2, <3>3
  <2> QED BY <2>1
<1>8. \A i, j \in F!ExpenseIds :
        i <= Len(C) /\ j <= Len(C) /\ F!Older(ex, i, j) => C[i] < C[j]
  <2>1. ASSUME NEW i \in F!ExpenseIds, NEW j \in F!ExpenseIds,
               i <= Len(C), j <= Len(C), F!Older(ex, i, j)
        PROVE  C[i] < C[j]
    <3>1. ex[i].date = C[i] /\ ex[j].date = C[j]
      BY <1>1, <2>1
    <3>2. i < j => i # j
      BY <1>1
    <3> QED BY <1>5, <2>1, <3>1, <3>2 DEF F!Older
  <2> QED BY <2>1
<1>9. \A k, t \in T : F!Before(st, k, t) => P[k] < P[t]
  <2>1. ASSUME NEW k \in T, NEW t \in T, F!Before(st, k, t) PROVE P[k] < P[t]
    <3>1. F!PassOf(st, k) = 0 + 1 /\ F!PassOf(st, t) = 0 + 1
      BY <1>3 DEF F!PassOf, F!NoGroup
    <3>2. st[k].pay.date = P[k] /\ st[t].pay.date = P[t]
      BY <1>3
    <3>3. k < t => k # t
      BY <1>1, <1>3
    <3> QED BY <1>3, <1>6, <2>1, <3>1, <3>2, <3>3 DEF F!Before
  <2> QED BY <2>1
<1>10. \A k \in T, j \in F!ExpenseIds :
         al[k][j] > 0 => j <= Len(C) /\ C[j] \in E /\ R[P[k]][C[j]] > 0
  <2>1. ASSUME NEW k \in T, NEW j \in F!ExpenseIds, al[k][j] > 0
        PROVE  j <= Len(C) /\ C[j] \in E /\ R[P[k]][C[j]] > 0
    <3>1. j <= Len(C) /\ R[P[k]][C[j]] > 0
      BY <1>1, <1>3, <2>1
    <3>2. C[j] \in Charges /\ P[k] \in S
      BY <1>1, <1>3, <3>1
    <3> QED BY <1>2, <3>1, <3>2 DEF InOrder
  <2> QED BY <2>1
<1>11. \A j \in F!ExpenseIds : j <= Len(C) =>
         (F!Open(ex, st, al, j, d) = 0 <=> Closed(R, C[j], d))
  <2>1. ASSUME NEW j \in F!ExpenseIds, j <= Len(C)
        PROVE  F!Open(ex, st, al, j, d) = 0 <=> Closed(R, C[j], d)
    <3>1. F!Open(ex, st, al, j, d) = Due[C[j]][d] - Settled(R, C[j], d)
      BY <1>2, <2>1, LeftAndOpen
    <3>2. PICK e \in Charges : e = C[j]
      BY <1>1, <2>1
    <3>3. Settled(R, e, d) \in Nat /\ Due[e][d] \in Nat
      BY <1>2, SumsAreNatural, Numbers
    <3> QED BY <3>1, <3>2, <3>3 DEF Closed
  <2> QED BY <2>1
<1>12. \A k \in T : F!Remaining(st, al, k) = 0 <=> SpentUp(R, P[k])
  <2>1. ASSUME NEW k \in T PROVE F!Remaining(st, al, k) = 0 <=> SpentUp(R, P[k])
    <3>1. F!Remaining(st, al, k) = Amount[P[k]] - Spent(R, P[k])
      BY <1>3, LeftAndOpen
    <3>2. PICK s \in Pays : s = P[k]
      BY <1>3
    <3>3. Spent(R, s) \in Nat /\ Amount[s] \in Nat
      BY <1>2, SumsAreNatural, Numbers
    <3> QED BY <3>1, <3>2, <3>3 DEF SpentUp
  <2> QED BY <2>1
<1>13. F!SharesInOrder(ex, st, al, T)
  <2>1. ASSUME NEW k \in T, NEW f \in F!ExpenseIds, al[k][f] > 0,
               NEW e \in F!ExpenseIds, F!InScope(ex, st, k, e), F!Older(ex, e, f)
        PROVE  F!Open(ex, st, al, e, st[k].pay.debtor) = 0
    <3>1. f <= Len(C) /\ C[f] \in E /\ R[P[k]][C[f]] > 0 /\ e <= Len(C) /\ C[e] \in E
      BY <1>7, <1>10, <2>1
    <3>2. C[e] < C[f]
      BY <1>8, <2>1, <3>1
    <3>3. C[f] \in Charges /\ P[k] \in S
      BY <1>1, <1>3, <3>1
    <3>4. Closed(R, C[e], d)
      BY <1>2, <3>1, <3>2, <3>3 DEF InOrder
    <3> QED BY <1>3, <1>11, <3>1, <3>4
  <2> QED BY <2>1 DEF F!SharesInOrder
<1>14. F!SettlementsInOrder(ex, st, al, T)
  <2>1. ASSUME NEW s \in T, NEW t \in T, NEW e \in F!ExpenseIds,
               F!Before(st, s, t), F!InScope(ex, st, s, e), al[t][e] > 0
        PROVE  /\ F!Remaining(st, al, s) = 0
               /\ \A f \in F!ExpenseIds : F!Older(ex, e, f) => al[s][f] = 0
    <3>1. e <= Len(C) /\ C[e] \in E /\ R[P[t]][C[e]] > 0 /\ P[s] < P[t]
      BY <1>9, <1>10, <2>1
    <3>2. P[s] \in S /\ P[t] \in S
      BY <1>3
    <3>3. SpentUp(R, P[s]) /\ \A f \in E : C[e] < f => R[P[s]][f] = 0
      BY <1>2, <3>1, <3>2 DEF InOrder
    <3>4. ASSUME NEW f \in F!ExpenseIds, F!Older(ex, e, f) PROVE al[s][f] = 0
      <4>1. CASE f <= Len(C) /\ C[f] \in E
        <5>1. C[e] < C[f]
          BY <1>8, <3>1, <3>4, <4>1
        <5> QED BY <1>1, <1>3, <3>3, <4>1, <5>1
      <4>2. CASE ~ (f <= Len(C) /\ C[f] \in E)
        <5>1. ~ (al[s][f] > 0)
          BY <1>10, <4>2
        <5>2. al[s][f] \in Nat
          <6>1. f <= Len(C) => C[f] \in Charges
            BY <1>1
          <6>2. f <= Len(C) => R[P[s]][C[f]] \in Nat
            BY <1>2, <1>3, <6>1 DEF Allocs
          <6> QED BY <1>1, <1>3, <6>2
        <5> QED BY <5>1, <5>2
      <4> QED BY <4>1, <4>2
    <3> QED BY <1>12, <3>3, <3>4
  <2> QED BY <2>1 DEF F!SettlementsInOrder
<1>15. F!RowsInScope(ex, st, al, T)
  BY <1>7, <1>10 DEF F!RowsInScope
<1>16. F!Matches(ex, st, al, T) = {}
  <2> SUFFICES ASSUME NEW k \in T, NEW j \in F!ExpenseIds, F!InScope(ex, st, k, j),
                      F!Remaining(st, al, k) > 0,
                      F!Open(ex, st, al, j, st[k].pay.debtor) > 0
               PROVE  FALSE
    BY DEF F!Matches
  <2>1. j <= Len(C) /\ C[j] \in E /\ P[k] \in S
    BY <1>3, <1>7
  <2>2. SpentUp(R, P[k]) \/ Closed(R, C[j], d)
    BY <1>2, <2>1 DEF Served
  <2> QED BY <1>3, <1>11, <1>12, <2>1, <2>2
<1>17. F!OfPair(st, T, d, Creditor)
  BY <1>3 DEF F!OfPair, F!OfPairs
<1> QED BY <1>13, <1>14, <1>15, <1>16, <1>17 DEF F!Complete

(* A log with one more entry: where its entries are.                       *)
LEMMA AppendedIs ==
  ASSUME NEW S, NEW q \in Seq(S), Once(q), NEW x \in S, ~ Has(q, x),
         NEW new, new = Append(q, x)
  PROVE  /\ new \in Seq(S) /\ Once(new) /\ Len(q) \in Nat /\ Len(new) = Len(q) + 1
         /\ new[Len(q) + 1] = x
         /\ \A i \in 1 .. Len(q) : new[i] = q[i] /\ q[i] \in S /\ q[i] # x
         /\ \A s : Has(new, s) <=> s = x \/ Has(q, s)
<1>1. new \in Seq(S) /\ Len(q) \in Nat /\ Len(new) = Len(q) + 1 /\ new[Len(q) + 1] = x
  OBVIOUS
<1>2. /\ DOMAIN q = 1 .. Len(q) /\ \A i \in 1 .. Len(q) : new[i] = q[i] /\ q[i] \in S
  OBVIOUS
<1>3. \A i \in 1 .. Len(q) : q[i] # x
  BY <1>2 DEF Has
<1>4. Once(new) /\ \A s : Has(new, s) <=> s = x \/ Has(q, s)
  BY AppendedOnce
<1> QED BY <1>1, <1>2, <1>3, <1>4

(* The rows of the payments whose rows Own are kept.                       *)
Kept(R, new, Own) ==
  \A s \in Pays, e \in Charges : s \notin Own => new[s][e] = R[s][e]

(* The mapped rows are rows of the ledger.                                 *)
RowsOf(al, R, P, C) ==
  \A k \in F!SettlementIds, j \in F!ExpenseIds :
    al[k][j] = IF k <= Len(P) /\ j <= Len(C) THEN R[P[k]][C[j]] ELSE 0

(* The mapped table of allocations has exactly the rows.                   *)
LEMMA MapsAreRows ==
  ASSUME NEW R, NEW P, NEW C, Books(R, P, C), NEW al, al = MapAl(R, P, C)
  PROVE  al \in F!Allocs /\ RowsOf(al, R, P, C)
<1>1. PICK ex, st : ex = MapEx(C) /\ st = MapSt(P)
  OBVIOUS
<1>2. F!Tables(ex, st, al)
  BY <1>1, EntriesAre
<1> QED BY <1>1, <1>2, EntriesAre DEF F!Tables, RowsOf

(* Rows that agree on every id are the same rows.                          *)
LEMMA RowsAreEqual ==
  ASSUME NEW a \in F!Allocs, NEW b \in F!Allocs,
         \A k \in F!SettlementIds, j \in F!ExpenseIds : a[k][j] = b[k][j]
  PROVE  a = b
<1>1. \A k \in F!SettlementIds : a[k] = b[k]
  BY DEF F!Allocs
<1> QED BY <1>1 DEF F!Allocs

(* allocate_new_settlement for payment r: the rows R become new.           *)
Registers(R, P, C, new, Q, r) ==
  /\ Books(R, P, C) /\ r \in Pays /\ ~ Has(P, r) /\ Q = Append(P, r)
  /\ Books(new, Q, C) /\ Kept(R, new, {r})
  /\ Finished(new, {r}, Owed(C, Debtor[r]), Debtor[r])

(* What its loops write for the new payment is what the ledger consumes.   *)
LEMMA PaymentConsumes ==
  ASSUME NEW R, NEW P, NEW C, NEW new, NEW Q, NEW r, Registers(R, P, C, new, Q, r)
  PROVE  /\ Len(P) + 1 \in F!SettlementIds
         /\ MapAl(new, Q, C)
              = F!Consume(MapEx(C), MapSt(Q), MapAl(R, P, C), {Len(P) + 1})
<1>1. PICK d, ex, st, al, n :
        /\ d = Debtor[r] /\ ex = MapEx(C) /\ st = MapSt(Q) /\ al = MapAl(R, P, C)
        /\ n = Len(P) + 1
  OBVIOUS
<1>2. /\ Books(R, P, C) /\ r \in Pays /\ ~ Has(P, r) /\ Q = Append(P, r)
      /\ Books(new, Q, C) /\ Kept(R, new, {r})
      /\ Finished(new, {r}, Owed(C, d), d)
  BY <1>1 DEF Registers
<1> USE <1>1, <1>2
<1>3. /\ P \in Seq(Pays) /\ Once(P) /\ R \in Allocs
      /\ \A s \in Pays, e \in Charges :
           R[s][e] > 0 => Has(P, s) /\ Has(C, e) /\ Due[e][Debtor[s]] > 0
      /\ \A s \in Pays, e \in Charges : R[s][e] \in Nat
  BY DEF Books, Allocs
<1>4. /\ Q \in Seq(Pays) /\ Once(Q) /\ Len(P) \in Nat /\ Len(Q) = n
      /\ Q[n] = r /\ \A i \in 1 .. Len(P) : Q[i] = P[i] /\ P[i] \in Pays /\ P[i] # r
      /\ \A s : Has(Q, s) <=> s = r \/ Has(P, s)
  <2>1. P \in Seq(Pays) /\ Once(P) /\ r \in Pays /\ ~ Has(P, r) /\ Q = Append(P, r)
    BY <1>3
  <2>2. /\ Q \in Seq(Pays) /\ Once(Q) /\ Len(P) \in Nat /\ Len(Q) = Len(P) + 1
        /\ Q[Len(P) + 1] = r
        /\ \A i \in 1 .. Len(P) : Q[i] = P[i] /\ P[i] \in Pays /\ P[i] # r
        /\ \A s : Has(Q, s) <=> s = r \/ Has(P, s)
    BY <2>1, AppendedIs
  <2> QED BY <2>2
<1>5. Books(R, Q, C)
  BY <1>3, <1>4 DEF Books
<1>6. /\ Len(C) \in Nat
      /\ F!SettlementIds = 1 .. Cardinality(Pays)
      /\ F!ExpenseIds = 1 .. Cardinality(Charges)
      /\ Len(Q) <= Cardinality(Pays)
  BY <1>5, EntriesAre
<1>7. n \in F!SettlementIds
  BY <1>4, <1>6, RequestsAreFew
<1>8. \A k \in F!SettlementIds : k <= Len(Q) => k = n \/ (k \in 1 .. Len(P) /\ k # n)
  BY <1>4, <1>6
<1>9. \A j \in F!ExpenseIds : j <= Len(C) => C[j] \in Charges
  BY <1>5, EntriesAre
<1>10. \A k \in F!SettlementIds, j \in F!ExpenseIds :
        /\ al[k][j] = IF k <= Len(Q) /\ j <= Len(C) THEN R[Q[k]][C[j]] ELSE 0
        /\ k = n => al[k][j] = 0
  <2>1. ASSUME NEW k \in F!SettlementIds, NEW j \in F!ExpenseIds
        PROVE  /\ al[k][j] = IF k <= Len(Q) /\ j <= Len(C) THEN R[Q[k]][C[j]] ELSE 0
               /\ k = n => al[k][j] = 0
    <3>1. al[k][j] = IF k <= Len(P) /\ j <= Len(C) THEN R[P[k]][C[j]] ELSE 0
      BY EntriesAre
    <3>2. CASE k = n
      <4>1. al[k][j] = 0
        BY <1>4, <3>1, <3>2
      <4>2. \A e \in Charges : R[r][e] = 0
        BY <1>3
      <4>3. j <= Len(C) => R[Q[k]][C[j]] = 0
        BY <1>4, <1>9, <3>2, <4>2
      <4> QED BY <4>1, <4>3
    <3>3. CASE k # n
      <4>1. k <= Len(Q) <=> k <= Len(P)
        BY <1>4, <1>6, <3>3
      <4>2. k <= Len(P) => Q[k] = P[k]
        BY <1>4, <1>6
      <4> QED BY <3>1, <3>3, <4>1, <4>2
    <3> QED BY <3>2, <3>3
  <2> QED BY <2>1
<1>11. al = MapAl(R, Q, C)
  <2>1. PICK o : o = MapAl(R, Q, C)
    OBVIOUS
  <2>2. al \in F!Allocs /\ o \in F!Allocs
    BY <1>5, <2>1, MapsAreRows
  <2>3. \A k \in F!SettlementIds, j \in F!ExpenseIds :
          o[k][j] = IF k <= Len(Q) /\ j <= Len(C) THEN R[Q[k]][C[j]] ELSE 0
    <3>1. RowsOf(o, R, Q, C)
      BY <1>5, <2>1, MapsAreRows
    <3> QED BY <3>1 DEF RowsOf
  <2>4. \A k \in F!SettlementIds, j \in F!ExpenseIds : o[k][j] = al[k][j]
    BY <1>10, <2>3
  <2> QED BY <2>1, <2>2, <2>4, RowsAreEqual
<1>12. F!Tables(ex, st, al) /\ F!Sound(ex, st, al)
  BY <1>5, <1>11, EntriesAre, BooksAreSound
<1>13. PICK b : b = F!Consume(ex, st, al, {n})
  OBVIOUS
<1>14. PICK a : a = MapAl(new, Q, C)
  OBVIOUS
<1>15. F!LedgerAssumption
  BY MappingIsLedger
<1>16. PICK T : T = {n}
  OBVIOUS
<1>17. T \in SUBSET F!SettlementIds
  BY <1>7, <1>16
<1>18. F!Filled(ex, st, al, T)
  <2>1. \A s \in T, e \in F!ExpenseIds : al[s][e] = 0
    BY <1>7, <1>10, <1>16
  <2> QED BY <1>15, <1>17, <2>1, F!NothingWritten
<1> HIDE <1>1, <1>2
<1>19. /\ b \in F!Allocs /\ F!Sound(ex, st, b)
       /\ F!Filled(ex, st, b, T) /\ F!Matches(ex, st, b, T) = {}
       /\ \A t \in F!SettlementIds, f \in F!ExpenseIds : t \notin T => b[t][f] = al[t][f]
  <2>1. b = F!Consume(ex, st, al, T)
    BY <1>13, <1>16
  <2> QED BY <1>12, <1>15, <1>17, <1>18, <2>1, F!ConsumeFills
<1>20. F!Complete(ex, st, b, T)
  <2>1. T \in SUBSET T
    OBVIOUS
  <2> QED BY <1>15, <1>17, <1>19, <2>1, F!CompleteOfFewer
<1>21. F!Complete(ex, st, a, T) /\ F!OfPair(st, T, d, Creditor)
  <2>1. T = Ids(Q, {r})
    BY <1>4, <1>6, <1>7, <1>8, <1>16 DEF Ids
  <2>2. Pair({r}, Owed(C, d), d)
    BY <1>1, <1>2, Numbers DEF Pair, Owed
  <2>3. PICK S : S = {r}
    OBVIOUS
  <2>4. Finished(new, S, Owed(C, d), d) /\ Pair(S, Owed(C, d), d) /\ T = Ids(Q, S)
    BY <1>1, <1>2, <2>1, <2>2, <2>3
  <2> QED BY <1>1, <1>2, <1>14, <2>4, FinishedIsComplete
<1>22. F!Tables(ex, st, a) /\ F!Sound(ex, st, a)
  BY <1>1, <1>2, <1>14, EntriesAre, BooksAreSound
<1>23. F!Tables(ex, st, b)
  BY <1>12, <1>19 DEF F!Tables
<1>24. F!AgreeOutside(a, b, T)
  <2>1. ASSUME NEW k \in F!SettlementIds \ T, NEW j \in F!ExpenseIds PROVE a[k][j] = b[k][j]
    <3>1. k # n /\ b[k][j] = al[k][j]
      BY <1>16, <1>19, <2>1
    <3>2. a[k][j] = IF k <= Len(Q) /\ j <= Len(C) THEN new[Q[k]][C[j]] ELSE 0
      <4>1. RowsOf(a, new, Q, C)
        BY <1>1, <1>2, <1>14, MapsAreRows
      <4> QED BY <4>1 DEF RowsOf
    <3>3. ASSUME k <= Len(Q), j <= Len(C) PROVE new[Q[k]][C[j]] = R[Q[k]][C[j]]
      <4>1. Q[k] \in Pays /\ Q[k] # r
        BY <1>4, <1>8, <3>1, <3>3
      <4> QED BY <1>1, <1>2, <1>9, <3>3, <4>1 DEF Kept
    <3> QED BY <1>10, <3>1, <3>2, <3>3
  <2> QED BY <2>1 DEF F!AgreeOutside
<1>25. a = b
  BY <1>15, <1>19, <1>20, <1>21, <1>22, <1>23, <1>24, F!FilledOnce
<1> QED BY <1>1, <1>2, <1>7, <1>13, <1>14, <1>25

(* The debtors whose pairs expense r does not rebuild keep their rows, and *)
(* the loops over the others have come to their end.                       *)
BillsOf(P, d) == {s \in Pays : Has(P, s) /\ Debtor[s] = d}

Rebuilds(R, new, P, C, r) ==
  /\ \A s \in Pays, e \in Charges : Due[r][Debtor[s]] = 0 => new[s][e] = R[s][e]
  /\ \A d \in Debtors : Due[r][d] > 0 => Finished(new, BillsOf(P, d), Owed(C, d), d)

(* apply_split_shares for the new expense r: the rows R become new.        *)
Creates(R, P, C, new, D, r) ==
  /\ Books(R, P, C) /\ r \in Charges /\ ~ Has(C, r) /\ D = Append(C, r)
  /\ Books(new, P, D) /\ Rebuilds(R, new, P, D, r)

(* What its loops write for the pairs of its debtors is what the ledger    *)
(* rebuilds.                                                               *)
LEMMA ChargeRebuilds ==
  ASSUME NEW R, NEW P, NEW C, NEW new, NEW D, NEW r, Creates(R, P, C, new, D, r)
  PROVE  /\ Len(C) + 1 \in F!ExpenseIds
         /\ MapAl(new, P, D)
              = F!Rebuild(MapEx(D), MapSt(P), F!Cascade(MapAl(R, P, C), {}, {Len(C) + 1}),
                          F!PairsOf(MapEx(C), Len(C) + 1)
                            \cup F!PairsOf(MapEx(D), Len(C) + 1))
<1>1. PICK ex, ex1, st, al, n :
        /\ ex = MapEx(C) /\ ex1 = MapEx(D) /\ st = MapSt(P) /\ al = MapAl(R, P, C)
        /\ n = Len(C) + 1
  OBVIOUS
<1>2. /\ Books(R, P, C) /\ r \in Charges /\ ~ Has(C, r) /\ D = Append(C, r)
      /\ Books(new, P, D) /\ Rebuilds(R, new, P, D, r)
  BY DEF Creates
<1> USE <1>1, <1>2
<1>3. /\ C \in Seq(Charges) /\ Once(C) /\ R \in Allocs
      /\ \A s \in Pays, e \in Charges :
           R[s][e] > 0 => Has(P, s) /\ Has(C, e) /\ Due[e][Debtor[s]] > 0
      /\ \A s \in Pays, e \in Charges : R[s][e] \in Nat
  BY DEF Books, Allocs
<1>4. /\ D \in Seq(Charges) /\ Once(D) /\ Len(C) \in Nat /\ Len(D) = n
      /\ D[n] = r /\ \A i \in 1 .. Len(C) : D[i] = C[i] /\ C[i] \in Charges /\ C[i] # r
      /\ \A e : Has(D, e) <=> e = r \/ Has(C, e)
  <2>1. C \in Seq(Charges) /\ Once(C) /\ r \in Charges /\ ~ Has(C, r) /\ D = Append(C, r)
    BY <1>3
  <2>2. /\ D \in Seq(Charges) /\ Once(D) /\ Len(C) \in Nat /\ Len(D) = Len(C) + 1
        /\ D[Len(C) + 1] = r
        /\ \A i \in 1 .. Len(C) : D[i] = C[i] /\ C[i] \in Charges /\ C[i] # r
        /\ \A e : Has(D, e) <=> e = r \/ Has(C, e)
    BY <2>1, AppendedIs
  <2> QED BY <2>2
<1>5. Books(R, P, D)
  BY <1>3, <1>4 DEF Books
<1>6. /\ Len(P) \in Nat /\ Len(P) <= Cardinality(Pays)
      /\ F!SettlementIds = 1 .. Cardinality(Pays)
      /\ F!ExpenseIds = 1 .. Cardinality(Charges)
      /\ Len(D) <= Cardinality(Charges)
  BY <1>5, EntriesAre
<1>7. n \in F!ExpenseIds
  BY <1>4, <1>6, RequestsAreFew
<1>8. /\ \A k \in F!SettlementIds :
           IF k <= Len(P)
           THEN /\ P[k] \in Pays /\ st[k] # NoRow
                /\ st[k].pay.debtor = Debtor[P[k]] /\ st[k].pay.creditor = Creditor
           ELSE st[k] = NoRow
      /\ ex[n] = NoRow /\ ex1[n] # NoRow /\ ex1[n].split = SplitOfCharge(r)
  <2>1. ex[n] = NoRow
    <3>1. ~ (n <= Len(C))
      BY <1>4
    <3> QED BY <1>7, <3>1, EntriesAre
  <2>2. ex1[n] # NoRow /\ ex1[n].split = SplitOfCharge(D[n])
    <3>1. n <= Len(D)
      BY <1>4
    <3> QED BY <1>7, <3>1, EntriesAre
  <2>3. \A k \in F!SettlementIds :
           IF k <= Len(P)
           THEN /\ P[k] \in Pays /\ st[k] # NoRow
                /\ st[k].pay.debtor = Debtor[P[k]] /\ st[k].pay.creditor = Creditor
           ELSE st[k] = NoRow
    BY EntriesAre
  <2> QED BY <1>4, <2>1, <2>2, <2>3
<1>9. RowsOf(al, R, P, C) /\ al \in F!Allocs
  BY MapsAreRows
<1>10. PICK o : o = MapAl(R, P, D)
  OBVIOUS
<1>11. RowsOf(o, R, P, D) /\ o \in F!Allocs
  BY <1>5, <1>10, MapsAreRows
<1>12. PICK a : a = MapAl(new, P, D)
  OBVIOUS
<1>13. RowsOf(a, new, P, D) /\ a \in F!Allocs
  BY <1>12, MapsAreRows
<1>14. \A k \in F!SettlementIds, j \in F!ExpenseIds :
         /\ al[k][j] = o[k][j]
         /\ j = n => al[k][j] = 0
  <2>1. ASSUME NEW k \in F!SettlementIds, NEW j \in F!ExpenseIds
        PROVE  al[k][j] = o[k][j] /\ (j = n => al[k][j] = 0)
    <3>1. al[k][j] = IF k <= Len(P) /\ j <= Len(C) THEN R[P[k]][C[j]] ELSE 0
      BY <1>9 DEF RowsOf
    <3>2. o[k][j] = IF k <= Len(P) /\ j <= Len(D) THEN R[P[k]][D[j]] ELSE 0
      BY <1>11 DEF RowsOf
    <3>3. CASE j = n
      <4>1. al[k][j] = 0
        BY <1>4, <3>1, <3>3
      <4>2. \A s \in Pays : R[s][r] = 0
        BY <1>3
      <4>3. k <= Len(P) => R[P[k]][D[j]] = 0
        BY <1>4, <1>8, <3>3, <4>2
      <4> QED BY <3>2, <4>1, <4>3
    <3>4. CASE j # n
      <4>1. j <= Len(D) <=> j <= Len(C)
        BY <1>4, <1>6, <3>4
      <4>2. j <= Len(C) => D[j] = C[j]
        BY <1>4, <1>6
      <4> QED BY <3>1, <3>2, <3>4, <4>1, <4>2
    <3> QED BY <3>3, <3>4
  <2> QED BY <2>1
<1>15. al = o
  BY <1>9, <1>11, <1>14, RowsAreEqual
<1>16. F!Tables(ex1, st, al) /\ F!Sound(ex1, st, al)
  BY <1>5, <1>10, <1>15, EntriesAre, BooksAreSound
<1>17. F!Tables(ex1, st, a) /\ F!Sound(ex1, st, a)
  BY <1>12, EntriesAre, BooksAreSound
<1>18. F!Cascade(al, {}, {n}) = al
  <2>1. PICK c : c = F!Cascade(al, {}, {n})
    OBVIOUS
  <2>2. \A k \in F!SettlementIds, j \in F!ExpenseIds :
          c[k][j] = IF j = n THEN 0 ELSE al[k][j]
    BY <2>1 DEF F!Cascade
  <2>3. \A k \in F!SettlementIds, j \in F!ExpenseIds : c[k][j] = al[k][j]
    BY <1>14, <2>2
  <2>4. c \in F!Allocs
    <3>1. \A k \in F!SettlementIds, j \in F!ExpenseIds :
            (IF k \in {} \/ j \in {n} THEN 0 ELSE al[k][j]) \in Nat
      BY <1>9 DEF F!Allocs
    <3> QED BY <2>1, <3>1 DEF F!Cascade, F!Allocs
  <2> QED BY <1>9, <2>1, <2>3, <2>4, RowsAreEqual
<1>19. PICK Q : Q = F!PairsOf(ex, n) \cup F!PairsOf(ex1, n)
  OBVIOUS
<1>20. \A d : <<d, Creditor>> \in Q <=> d \in Debtors /\ Due[r][d] > 0
  <2>1. PICK sp : sp = SplitOfCharge(r)
    OBVIOUS
  <2>2. sp.payer = Creditor /\ sp.among \ {Creditor} = {d \in Debtors : Due[r][d] > 0}
    BY <2>1, SplitIs
  <2>3. F!PairsOf(ex, n) = {}
    BY <1>8 DEF F!PairsOf
  <2>4. F!PairsOf(ex1, n) = {<<d, sp.payer>> : d \in sp.among \ {sp.payer}}
    BY <1>8, <2>1 DEF F!PairsOf
  <2>5. Q = {<<d, Creditor>> : d \in {x \in Debtors : Due[r][x] > 0}}
    BY <1>19, <2>2, <2>3, <2>4
  <2> QED BY <2>5
<1>21. PICK b : b = F!Rebuild(ex1, st, al, Q)
  OBVIOUS
<1>22. F!LedgerAssumption
  BY MappingIsLedger
<1>23. PICK S : S = F!OfPairs(st, Q)
  OBVIOUS
<1>24. S \in SUBSET F!SettlementIds
  BY <1>23 DEF F!OfPairs
<1> HIDE <1>1, <1>2
<1>25. /\ b \in F!Allocs /\ F!Sound(ex1, st, b)
       /\ F!Filled(ex1, st, b, S) /\ F!Matches(ex1, st, b, S) = {}
       /\ \A t \in F!SettlementIds \ S, f \in F!ExpenseIds : b[t][f] = al[t][f]
  BY <1>16, <1>21, <1>22, <1>23, F!RebuildFills
<1>26. F!Tables(ex1, st, b)
  BY <1>16, <1>25 DEF F!Tables
<1>27. \A k \in F!SettlementIds :
         k \in S <=> k <= Len(P) /\ Due[r][Debtor[P[k]]] > 0
  <2>1. ASSUME NEW k \in F!SettlementIds
        PROVE  k \in S <=> k <= Len(P) /\ Due[r][Debtor[P[k]]] > 0
    <3>1. k \in S <=> st[k] # NoRow /\ <<st[k].pay.debtor, st[k].pay.creditor>> \in Q
      BY <1>23 DEF F!OfPairs
    <3>2. CASE k <= Len(P)
      <4>1. /\ st[k] # NoRow /\ st[k].pay.debtor = Debtor[P[k]]
            /\ st[k].pay.creditor = Creditor /\ Debtor[P[k]] \in Debtors
        BY <1>8, <3>2, Numbers
      <4> QED BY <1>20, <3>1, <3>2, <4>1
    <3>3. CASE ~ (k <= Len(P))
      BY <1>8, <3>1, <3>3
    <3> QED BY <3>2, <3>3
  <2> QED BY <2>1
<1>28. ASSUME NEW k \in F!SettlementIds, NEW j \in F!ExpenseIds PROVE a[k][j] = b[k][j]
  <2>1. CASE k \notin S
    <3>1. b[k][j] = o[k][j]
      BY <1>14, <1>25, <2>1
    <3>2. o[k][j] = IF k <= Len(P) /\ j <= Len(D) THEN R[P[k]][D[j]] ELSE 0
      BY <1>11 DEF RowsOf
    <3>3. a[k][j] = IF k <= Len(P) /\ j <= Len(D) THEN new[P[k]][D[j]] ELSE 0
      BY <1>13 DEF RowsOf
    <3>4. ASSUME k <= Len(P), j <= Len(D) PROVE new[P[k]][D[j]] = R[P[k]][D[j]]
      <4>1. P[k] \in Pays /\ D[j] \in Charges
        <5>1. j \in 1 .. Len(D)
          BY <1>4, <1>6, <3>4
        <5>2. D[j] \in Charges
          BY <1>4, <5>1
        <5> QED BY <1>8, <3>4, <5>2
      <4>2. PICK s \in Pays : s = P[k]
        BY <4>1
      <4>3. Debtor[s] \in Debtors /\ Due[r][Debtor[s]] \in Nat
        BY <1>1, <1>2, Numbers
      <4>4. Due[r][Debtor[s]] = 0
        BY <1>27, <2>1, <3>4, <4>2, <4>3
      <4> QED BY <1>1, <1>2, <4>1, <4>2, <4>4 DEF Rebuilds
    <3> QED BY <3>1, <3>2, <3>3, <3>4
  <2>2. CASE k \in S
    <3>1. k <= Len(P) /\ P[k] \in Pays /\ Due[r][Debtor[P[k]]] > 0
      BY <1>8, <1>27, <2>2
    <3>2. PICK d \in Debtors : d = Debtor[P[k]]
      BY <3>1, Numbers
    <3>3. PICK B : B = BillsOf(P, d)
      OBVIOUS
    <3>4. PICK T : T = Ids(P, B)
      OBVIOUS
    <3>5. Finished(new, B, Owed(D, d), d) /\ Pair(B, Owed(D, d), d)
      <4>1. Finished(new, B, Owed(D, d), d)
        BY <1>1, <1>2, <3>1, <3>2, <3>3 DEF Rebuilds
      <4> QED BY <3>3, <4>1 DEF Pair, BillsOf, Owed
    <3>6. F!Complete(ex1, st, a, T) /\ F!OfPair(st, T, d, Creditor)
      BY <1>1, <1>2, <1>12, <3>4, <3>5, FinishedIsComplete
    <3>7. \A t \in F!SettlementIds : t <= Len(P) => Has(P, P[t])
      <4>1. \A t \in F!SettlementIds : t <= Len(P) => t \in DOMAIN P
        <5>1. P \in Seq(Pays)
          BY <1>1, <1>2 DEF Books
        <5> QED BY <1>6, <5>1
      <4> QED BY <4>1 DEF Has
    <3>8. \A t \in F!SettlementIds :
            t \in T <=> t <= Len(P) /\ Debtor[P[t]] = d
      BY <1>8, <3>3, <3>4, <3>7 DEF Ids, BillsOf
    <3>9. k \in T /\ T \in SUBSET S
      <4>1. T \in SUBSET F!SettlementIds
        BY <3>4 DEF Ids
      <4>2. \A t \in T : t \in S
        BY <1>27, <3>1, <3>2, <3>8, <4>1
      <4> QED BY <3>1, <3>2, <3>8, <4>2
    <3>10. F!Complete(ex1, st, b, T)
      BY <1>22, <1>24, <1>25, <3>9, F!CompleteOfFewer
    <3>11. F!AgreeBeside(st, a, b, T, d, Creditor)
      <4>1. ASSUME NEW t \in F!OfPairs(st, {<<d, Creditor>>}) PROVE t \in T
        <5>1. t \in F!SettlementIds /\ st[t] # NoRow /\ st[t].pay.debtor = d
          BY <4>1 DEF F!OfPairs
        <5> QED BY <1>8, <3>8, <5>1
      <4> QED BY <4>1 DEF F!AgreeBeside
    <3>12. \A t \in T, f \in F!ExpenseIds : a[t][f] = b[t][f]
      BY <1>17, <1>22, <1>25, <1>26, <3>6, <3>10, <3>11, F!FilledAgree
    <3> QED BY <3>9, <3>12
  <2> QED BY <2>1, <2>2
<1>29. a = b
  BY <1>13, <1>25, <1>28, RowsAreEqual
<1> QED BY <1>1, <1>2, <1>7, <1>12, <1>18, <1>19, <1>21, <1>29

(* What has committed is a ledger.                                         *)
LEMMA CommittedBooks == LInv => Books(rows, paid, charged)
<1> SUFFICES ASSUME LInv PROVE Books(rows, paid, charged)
  OBVIOUS
<1>1. rows \in Allocs /\ paid \in Seq(Pays) /\ charged \in Seq(Charges)
  BY DEF LInv, SInv, RInv, TInv, TypeOK
<1>2. \A d \in Debtors : PairSound(rows, d)
  BY DEF LInv, SInv
<1>3. Once(paid) /\ Once(charged)
  BY DEF LInv, Logged
<1>4. \A s \in Pays, e \in Charges :
        rows[s][e] > 0 => Has(paid, s) /\ Has(charged, e) /\ Due[e][Debtor[s]] > 0
  BY DEF LInv, Logged, RowsKnown
<1> QED BY <1>1, <1>2, <1>3, <1>4 DEF Books

(* A request that commits for the first time, and what it has seen.        *)
LEMMA CommitIs ==
  ASSUME LInv, NEW r \in Requests, Commit(r)
  PROVE  /\ Working(r) /\ stage[r] = "commit" /\ rows' = View(r)
         /\ r \in Pays => ~ Has(paid, r) /\ paid' = Append(paid, r) /\ charged' = charged
         /\ r \in Charges =>
              ~ Has(charged, r) /\ charged' = Append(charged, r) /\ paid' = paid
         /\ \A s \in Pays : Seen(r, s) <=> s = r \/ Has(paid, s)
         /\ \A e \in Charges : Seen(r, e) <=> e = r \/ Has(charged, e)
<1>1. stage[r] = "commit" /\ rows' = View(r)
  BY DEF Commit
<1>2. Active(r) /\ Working(r)
  BY <1>1 DEF LInv, Active, Ended
<1>3. Logged
  BY DEF LInv
<1>4. r \in Pays => ~ Has(paid, r) /\ paid' = Append(paid, r) /\ charged' = charged
  BY <1>1, <1>3 DEF Logged, Commit
<1>5. r \in Charges => ~ Has(charged, r) /\ charged' = Append(charged, r) /\ paid' = paid
  BY <1>1, <1>3, Numbers DEF Logged, Commit
<1> QED BY <1>1, <1>2, <1>3, <1>4, <1>5 DEF Logged, Seen

(* A payment commits the rows that the ledger writes for it.               *)
LEMMA PaymentCommits ==
  ASSUME LInv, LInv', NEW r \in Pays, Commit(r)
  PROVE  /\ Len(paid) + 1 \in F!SettlementIds
         /\ paid' = Append(paid, r) /\ charged' = charged
         /\ MapAl(rows', paid', charged')
              = F!Consume(MapEx(charged), MapSt(paid'), MapAl(rows, paid, charged),
                          {Len(paid) + 1})
<1>1. r \in Requests
  BY DEF Requests
<1>2. /\ Working(r) /\ stage[r] = "commit" /\ rows' = View(r)
      /\ ~ Has(paid, r) /\ paid' = Append(paid, r) /\ charged' = charged
      /\ \A e \in Charges : Seen(r, e) <=> e = r \/ Has(charged, e)
  BY <1>1, CommitIs
<1>3. PICK new, P, C : new = rows' /\ P = paid' /\ C = charged
  OBVIOUS
<1>4. Books(rows, paid, C) /\ Books(new, P, C)
  <2>1. Books(rows, paid, charged)'
    BY CommittedBooks, PTL
  <2> QED BY <1>2, <1>3, <2>1, CommittedBooks
<1>5. Kept(rows, new, {r})
  BY <1>2, <1>3 DEF Working, Untouched, Foreign, Kept
<1>6. PICK d : d = Debtor[r]
  OBVIOUS
<1>7. Finished(new, {r}, Owed(C, d), d)
  <2>1. Bills(r, d) = {r}
    BY DEF Bills
  <2>2. r \notin Charges
    BY Numbers
  <2>3. Shares(r, d) = Owed(C, d)
    <3>1. \A e \in Charges : Seen(r, e) <=> Has(C, e)
      BY <1>2, <1>3, <2>2
    <3> QED BY <3>1 DEF Shares, Owed
  <2>4. Complete(r, d)
    BY <1>2, <1>6 DEF Working, Built
  <2> QED BY <1>2, <1>3, <2>1, <2>3, <2>4 DEF Complete
<1>8. ~ Has(paid, r) /\ P = Append(paid, r)
  BY <1>2, <1>3
<1>9. Registers(rows, paid, C, new, P, r)
  BY <1>4, <1>5, <1>6, <1>7, <1>8 DEF Registers
<1>10. /\ Len(paid) + 1 \in F!SettlementIds
       /\ MapAl(new, P, C)
            = F!Consume(MapEx(C), MapSt(P), MapAl(rows, paid, C), {Len(paid) + 1})
  BY <1>9, PaymentConsumes
<1> QED BY <1>2, <1>3, <1>10

(* An expense commits the rows that the ledger rebuilds for it.            *)
LEMMA ChargeCommits ==
  ASSUME LInv, LInv', NEW r \in Charges, Commit(r)
  PROVE  /\ Len(charged) + 1 \in F!ExpenseIds
         /\ charged' = Append(charged, r) /\ paid' = paid
         /\ MapAl(rows', paid', charged')
              = F!Rebuild(MapEx(charged'), MapSt(paid),
                          F!Cascade(MapAl(rows, paid, charged), {}, {Len(charged) + 1}),
                          F!PairsOf(MapEx(charged), Len(charged) + 1)
                            \cup F!PairsOf(MapEx(charged'), Len(charged) + 1))
<1>1. r \in Requests
  BY DEF Requests
<1>2. /\ Working(r) /\ stage[r] = "commit" /\ rows' = View(r)
      /\ ~ Has(charged, r) /\ charged' = Append(charged, r) /\ paid' = paid
      /\ \A s \in Pays : Seen(r, s) <=> s = r \/ Has(paid, s)
      /\ \A e \in Charges : Seen(r, e) <=> e = r \/ Has(charged, e)
  BY <1>1, CommitIs
<1>3. PICK new, P, C, D : new = rows' /\ P = paid /\ C = charged /\ D = charged'
  OBVIOUS
<1>4. Books(rows, P, C) /\ Books(new, P, D)
  <2>1. Books(rows, paid, charged)'
    BY CommittedBooks, PTL
  <2> QED BY <1>2, <1>3, <2>1, CommittedBooks
<1>5. r \notin Pays /\ tx[r].left = {}
  <2>1. met[r] = {} /\ Active(r) /\ RInv
    BY <1>1, <1>2 DEF LInv, SInv, Active, Ended
  <2>2. Rebuilt(r)
    BY <1>1, <2>1 DEF RInv, Quiet
  <2> QED BY <1>2, <2>2, Numbers DEF Rebuilt
<1>6. Rebuilds(rows, new, P, D, r)
  <2>1. \A s \in Pays, e \in Charges : Due[r][Debtor[s]] = 0 => new[s][e] = rows[s][e]
    BY <1>2, <1>3, <1>5 DEF Working, Untouched, Foreign
  <2>2. ASSUME NEW d \in Debtors, Due[r][d] > 0
        PROVE  Finished(new, BillsOf(P, d), Owed(D, d), d)
    <3>1. Complete(r, d)
      BY <1>2, <1>5, <2>2 DEF Working, Built, InPair
    <3>2. Bills(r, d) = BillsOf(P, d)
      BY <1>2, <1>3, <1>5 DEF Bills, BillsOf
    <3>3. \A e \in Charges : Seen(r, e) <=> Has(D, e)
      <4>1. C \in Seq(Charges) /\ Once(C) /\ ~ Has(C, r) /\ D = Append(C, r)
        BY <1>2, <1>3, <1>4 DEF Books
      <4>2. Once(D) /\ \A e : Has(D, e) <=> e = r \/ Has(C, e)
        BY <4>1, AppendedOnce
      <4> QED BY <1>2, <1>3, <4>2
    <3>4. Shares(r, d) = Owed(D, d)
      BY <3>3 DEF Shares, Owed
    <3> QED BY <1>2, <1>3, <3>1, <3>2, <3>4 DEF Complete
  <2> QED BY <2>1, <2>2 DEF Rebuilds
<1>7. ~ Has(C, r) /\ D = Append(C, r)
  BY <1>2, <1>3
<1>8. Creates(rows, P, C, new, D, r)
  BY <1>4, <1>6, <1>7 DEF Creates
<1>9. /\ Len(C) + 1 \in F!ExpenseIds
      /\ MapAl(new, P, D)
           = F!Rebuild(MapEx(D), MapSt(P), F!Cascade(MapAl(rows, P, C), {}, {Len(C) + 1}),
                       F!PairsOf(MapEx(C), Len(C) + 1) \cup F!PairsOf(MapEx(D), Len(C) + 1))
  BY <1>8, ChargeRebuilds
<1> QED BY <1>2, <1>3, <1>9

(* The tables grow by one row.                                             *)
LEMMA TablesGrow ==
  /\ \A P, Q, s : P \in Seq(Pays) /\ Q = Append(P, s) /\ Len(P) + 1 \in F!SettlementIds
       => MapSt(Q) = [MapSt(P) EXCEPT ![Len(P) + 1] = [group |-> 0, pay |-> PaymentOf(s)]]
  /\ \A C, D, e : C \in Seq(Charges) /\ D = Append(C, e) /\ Len(C) + 1 \in F!ExpenseIds
       => MapEx(D) = [MapEx(C) EXCEPT ![Len(C) + 1] = ExpenseRow(e)]
<1>1. ASSUME NEW P, NEW Q, NEW s, P \in Seq(Pays), Q = Append(P, s),
             Len(P) + 1 \in F!SettlementIds
      PROVE  MapSt(Q) = [MapSt(P) EXCEPT ![Len(P) + 1] =
                           [group |-> 0, pay |-> PaymentOf(s)]]
  <2>1. /\ Len(P) \in Nat /\ Len(Q) = Len(P) + 1 /\ Q[Len(P) + 1] = s
        /\ \A i \in 1 .. Len(P) : Q[i] = P[i]
    BY <1>1
  <2>2. Len(P) + 1 \in 1 .. Cardinality(Pays)
    BY <1>1 DEF F!SettlementIds
  <2>3. \A k \in 1 .. Cardinality(Pays) :
          IF k <= Len(Q) THEN k = Len(P) + 1 \/ (k <= Len(P) /\ k # Len(P) + 1 /\ Q[k] = P[k])
          ELSE k # Len(P) + 1 /\ ~ (k <= Len(P))
    BY <2>1
  <2> QED BY <2>1, <2>2, <2>3 DEF MapSt
<1>2. ASSUME NEW C, NEW D, NEW e, C \in Seq(Charges), D = Append(C, e),
             Len(C) + 1 \in F!ExpenseIds
      PROVE  MapEx(D) = [MapEx(C) EXCEPT ![Len(C) + 1] = ExpenseRow(e)]
  <2>1. /\ Len(C) \in Nat /\ Len(D) = Len(C) + 1 /\ D[Len(C) + 1] = e
        /\ \A i \in 1 .. Len(C) : D[i] = C[i]
    BY <1>2
  <2>2. Len(C) + 1 \in 1 .. Cardinality(Charges)
    BY <1>2 DEF F!ExpenseIds
  <2>3. \A k \in 1 .. Cardinality(Charges) :
          IF k <= Len(D) THEN k = Len(C) + 1 \/ (k <= Len(C) /\ k # Len(C) + 1 /\ D[k] = C[k])
          ELSE k # Len(C) + 1 /\ ~ (k <= Len(C))
    BY <2>1
  <2> QED BY <2>1, <2>2, <2>3 DEF MapEx
<1> QED BY <1>1, <1>2

(* The COMMIT of a payment is CreateSettlement.                            *)
LEMMA PaymentIsLedger ==
  ASSUME LInv, LInv', NEW r \in Pays, Commit(r)
  PROVE  Ledger!CreateSettlement(Creditor, 0, PaymentOf(r))
<1>1. /\ Len(paid) + 1 \in F!SettlementIds
      /\ paid' = Append(paid, r) /\ charged' = charged
      /\ MapAl(rows', paid', charged')
           = F!Consume(MapEx(charged), MapSt(paid'), MapAl(rows, paid, charged),
                       {Len(paid) + 1})
  BY PaymentCommits
<1>2. paid \in Seq(Pays) /\ Len(paid) \in Nat /\ Len(paid') = Len(paid) + 1
  BY <1>1 DEF LInv, SInv, RInv, TInv, TypeOK
<1>3. Len(paid) + 1 <= Cardinality(Pays)
  BY <1>1, <1>2, RequestsAreFew DEF F!SettlementIds
<1>4. MapSt(paid') = [MapSt(paid) EXCEPT ![Len(paid) + 1] =
                        [group |-> 0, pay |-> PaymentOf(r)]]
  BY <1>1, <1>2, TablesGrow
<1>5. MapAl(rows', paid', charged')
        = Ledger!Consume(MapEx(charged), MapSt(paid'), MapAl(rows, paid, charged),
                         {Len(paid) + 1})
  BY <1>1, FifoConsume
<1>6. /\ PaymentOf(r).debtor = Debtor[r] /\ PaymentOf(r).creditor = Creditor
      /\ Debtor[r] \in Debtors /\ Creditor \notin Debtors
  BY Numbers, MappingAssumption DEF PaymentOf
<1>7. [group |-> 0, expense |-> Len(charged'), settlement |-> Len(paid')]
        = [[group |-> 0, expense |-> Len(charged), settlement |-> Len(paid)]
             EXCEPT !.settlement = Len(paid) + 1]
  BY <1>1, <1>2
<1>8. Ledger!GroupAllowed(Creditor, 0)
  BY DEF Ledger!GroupAllowed, Ledger!NoGroup
<1>9. MapEx(charged') = MapEx(charged)
  BY <1>1
<1> QED
  BY <1>3, <1>4, <1>5, <1>6, <1>7, <1>8, <1>9
  DEF Ledger!CreateSettlement, Ledger!groupVars, MapSt, MapEx, MapAl

(* The COMMIT of an expense is CreateExpense.                              *)
LEMMA ChargeIsLedger ==
  ASSUME LInv, LInv', NEW r \in Charges, Commit(r)
  PROVE  Ledger!CreateExpense(Creditor, 0, r, SplitOfCharge(r))
<1>1. /\ Len(charged) + 1 \in F!ExpenseIds
      /\ charged' = Append(charged, r) /\ paid' = paid
      /\ MapAl(rows', paid', charged')
           = F!Rebuild(MapEx(charged'), MapSt(paid),
                       F!Cascade(MapAl(rows, paid, charged), {}, {Len(charged) + 1}),
                       F!PairsOf(MapEx(charged), Len(charged) + 1)
                         \cup F!PairsOf(MapEx(charged'), Len(charged) + 1))
  BY ChargeCommits
<1>2. charged \in Seq(Charges) /\ Len(charged) \in Nat /\ Len(charged') = Len(charged) + 1
  BY <1>1 DEF LInv, SInv, RInv, TInv, TypeOK
<1>3. Len(charged) + 1 <= Cardinality(Charges)
  BY <1>1, <1>2, RequestsAreFew DEF F!ExpenseIds
<1>4. MapEx(charged') = [MapEx(charged) EXCEPT ![Len(charged) + 1] = ExpenseRow(r)]
  BY <1>1, <1>2, TablesGrow
<1>5. /\ \A ex, e : F!PairsOf(ex, e) = Ledger!PairsOf(ex, e)
      /\ \A al, S, E : F!Cascade(al, S, E) = Ledger!Cascade(al, S, E)
      /\ \A st, Q : F!OfPairs(st, Q) = Ledger!OfPairs(st, Q)
  BY FifoIds DEF F!PairsOf, Ledger!PairsOf, F!Cascade, Ledger!Cascade, F!OfPairs, Ledger!OfPairs
<1>6. \A ex, st, al, Q : F!Rebuild(ex, st, al, Q) = Ledger!Rebuild(ex, st, al, Q)
  <2> TAKE ex, st, al, Q
  <2>1. F!OfPairs(st, Q) = Ledger!OfPairs(st, Q)
    BY <1>5
  <2>2. PICK S : S = Ledger!OfPairs(st, Q)
    OBVIOUS
  <2>3. F!Cascade(al, S, {}) = Ledger!Cascade(al, S, {})
    BY <1>5
  <2>4. F!Consume(ex, st, Ledger!Cascade(al, S, {}), S)
          = Ledger!Consume(ex, st, Ledger!Cascade(al, S, {}), S)
    BY FifoConsume
  <2> QED BY <2>1, <2>2, <2>3, <2>4 DEF F!Rebuild, Ledger!Rebuild
<1>7. MapAl(rows', paid', charged')
        = Ledger!Rebuild(MapEx(charged'), MapSt(paid),
                         Ledger!Cascade(MapAl(rows, paid, charged), {}, {Len(charged) + 1}),
                         Ledger!PairsOf(MapEx(charged), Len(charged) + 1)
                           \cup Ledger!PairsOf(MapEx(charged'), Len(charged) + 1))
  BY <1>1, <1>5, <1>6
<1>8. ExpenseRow(r)
        = [[group |-> 0, date |-> r, by |-> Creditor, split |-> SplitOfCharge(r),
            adhoc |-> {}, home |-> 0]
             EXCEPT !.split = SplitOfCharge(r), !.home = 0,
                    !.adhoc = SplitOfCharge(r).among]
  <2>1. PICK sp : sp = SplitOfCharge(r)
    OBVIOUS
  <2>2. ExpenseRow(r) = [group |-> 0, date |-> r, by |-> Creditor, split |-> sp,
                         adhoc |-> sp.among, home |-> 0]
    BY <2>1 DEF ExpenseRow
  <2>3. PICK row : row = [group |-> 0, date |-> r, by |-> Creditor, split |-> sp,
                          adhoc |-> {}, home |-> 0]
    OBVIOUS
  <2>4. [row EXCEPT !.split = sp] = row
    BY <2>3
  <2>5. [row EXCEPT !.home = 0] = row
    BY <2>3
  <2>6. [row EXCEPT !.adhoc = sp.among]
          = [group |-> 0, date |-> r, by |-> Creditor, split |-> sp,
             adhoc |-> sp.among, home |-> 0]
    BY <2>3
  <2>7. [row EXCEPT !.split = sp, !.home = 0, !.adhoc = sp.among]
          = [[[row EXCEPT !.split = sp] EXCEPT !.home = 0] EXCEPT !.adhoc = sp.among]
    OBVIOUS
  <2> QED BY <2>1, <2>2, <2>3, <2>4, <2>5, <2>6, <2>7
<1>9. [group |-> 0, expense |-> Len(charged'), settlement |-> Len(paid')]
        = [[group |-> 0, expense |-> Len(charged), settlement |-> Len(paid)]
             EXCEPT !.expense = Len(charged) + 1]
  BY <1>1, <1>2
<1>10. /\ Ledger!GroupAllowed(Creditor, 0)
       /\ Ledger!Resolvable(Creditor, 0, SplitOfCharge(r))
  <2>1. SplitOfCharge(r).among \subseteq {Creditor} \cup Debtors
    BY DEF SplitOfCharge
  <2> QED BY <2>1 DEF Ledger!GroupAllowed, Ledger!Resolvable, Ledger!NoGroup
<1>11. MapSt(paid') = MapSt(paid)
  BY <1>1
<1> QED
  BY <1>3, <1>4, <1>7, <1>8, <1>9, <1>10, <1>11
  DEF Ledger!CreateExpense, Ledger!ApplySplitShares, Ledger!NoGroup,
      Ledger!groupVars, MapSt, MapEx, MapAl

(* Nothing has committed at first: the ledger is empty.                    *)
LEMMA InitIsLedger == Init => Ledger!Init
<1> SUFFICES ASSUME Init PROVE Ledger!Init
  OBVIOUS
<1>1. paid = <<>> /\ charged = <<>> /\ Len(paid) = 0 /\ Len(charged) = 0
  BY DEF Init
<1>2. Ledger!GroupIds = {}
  BY DEF Ledger!GroupIds
<1>3. \A x : <<>> = [g \in {} |-> x]
  OBVIOUS
<1>4. /\ \A k \in 1 .. Cardinality(Charges) : ~ (k <= Len(charged))
      /\ \A k \in 1 .. Cardinality(Pays) : ~ (k <= Len(paid))
  BY <1>1
<1>5. MapEx(charged) = [k \in 1 .. Cardinality(Charges) |-> NoRow]
  BY <1>4 DEF MapEx
<1>6. MapSt(paid) = [k \in 1 .. Cardinality(Pays) |-> NoRow]
  BY <1>4 DEF MapSt
<1>7. MapAl(rows, paid, charged)
        = [k \in 1 .. Cardinality(Pays) |-> [j \in 1 .. Cardinality(Charges) |-> 0]]
  BY <1>4 DEF MapAl
<1> QED
  BY <1>1, <1>2, <1>3, <1>5, <1>6, <1>7
  DEF Ledger!Init, Ledger!ExpenseIds, Ledger!SettlementIds, MapEx, MapSt, MapAl

(* A COMMIT is a request of the ledger, every other statement a stutter.   *)
LEMMA StepIsLedger ==
  ASSUME LInv, LInv', [Next]_vars
  PROVE  UNCHANGED <<rows, paid, charged>> \/ Ledger!Next
<1>1. CASE Next
  <2>1. PICK r \in Requests : Begin(r) \/ Inside(r) \/ Commit(r) \/ Leaves(r)
    BY <1>1, StepsOf
  <2>2. CASE Begin(r)
    BY <2>2 DEF Begin
  <2>3. CASE Inside(r)
    <3>1. PICK label, rec : Wrote(r, label, rec)
      BY <2>3, InsideWrites DEF LInv, SInv, RInv
    <3> QED BY <3>1 DEF Wrote, Unchanged
  <2>4. CASE Leaves(r)
    BY <2>4 DEF Leaves, Rollback, Unchanged
  <2>5. CASE Commit(r) /\ r \in Pays
    <3>1. Ledger!CreateSettlement(Creditor, 0, PaymentOf(r))
      BY <2>5, PaymentIsLedger
    <3> QED BY <2>5, <3>1 DEF Ledger!Next, Ledger!NoGroup
  <2>6. CASE Commit(r) /\ r \in Charges
    <3>1. Ledger!CreateExpense(Creditor, 0, r, SplitOfCharge(r))
      BY <2>6, ChargeIsLedger
    <3>2. Ledger!WriteExpense(Creditor)
      BY <2>6, <3>1 DEF Ledger!WriteExpense, Ledger!NoGroup, Requests
    <3> QED BY <3>2 DEF Ledger!Next
  <2> QED BY <2>1, <2>2, <2>3, <2>4, <2>5, <2>6 DEF Requests
<1>2. CASE UNCHANGED vars
  BY <1>2 DEF vars
<1> QED BY <1>1, <1>2

(* One write transaction at a time, what the statements of the requests    *)
(* commit is what the handlers of SplitLedger do in one step: no request,  *)
(* statement or crash leads to rows that the atomic ledger would not have. *)
THEOREM OneWriterImplements ==
  ASSUME Writers = 1
  PROVE  Spec => ImplementsLedger
<1>1. Init => LInv
  BY InitLoops
<1>2. LInv /\ [Next]_vars => LInv'
  BY StepLoops
<1>3. Init => Ledger!Init
  BY InitIsLedger
<1>4. LInv /\ LInv' /\ [Next]_vars
        => [UNCHANGED <<rows, paid, charged>> \/ Ledger!Next]_vars
  BY StepIsLedger
<1> QED BY <1>1, <1>2, <1>3, <1>4, PTL DEF Spec, ImplementsLedger

=============================================================================
