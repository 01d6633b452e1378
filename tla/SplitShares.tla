------------------------------ MODULE SplitShares ------------------------------
(***************************************************************************)
(* How the amount of an expense becomes one share per participant: the     *)
(* four methods of services.py.  Amounts and shares are cents; the         *)
(* raw_input of a participant has four decimals and is given in units of   *)
(* 0.0001 (so an exact amount is in hundredths of a cent).  A method gives *)
(* its shares in the order of the participants, or Refused.                *)
(***************************************************************************)
EXTENDS Integers, Sequences, SequencesExt, Totals

Refused == <<>>

SumOf(s) == Total(s, Len(s))

(* _q2 of n / d cents: ROUND_HALF_UP. *)
Q2(n, d) == (2 * n + d) \div (2 * d)

(* Mutant: every share is rounded, the residual cents stay where they are. *)
RoundOnly(total, raw, d) == [i \in DOMAIN raw |-> Q2(raw[i], d)]

(* _distribute_remainder of the raw shares raw[i] / d: the residual cents  *)
(* go one by one to the shares in their order, round and round.            *)
DistributeRemainder(total, raw, d) ==
  LET rounded == [i \in DOMAIN raw |-> Q2(raw[i], d)]
      diff == total - SumOf(rounded)
      step == IF diff > 0 THEN 1 ELSE -1
      turns(i) == (step * diff + Len(raw) - i) \div Len(raw)
      shares == [i \in DOMAIN raw |-> rounded[i] + step * turns(i)]
  IN  IF \E i \in DOMAIN raw : shares[i] < 0 THEN Refused ELSE shares

EqualShares(total, n) == DistributeRemainder(total, [i \in 1 .. n |-> total], n)

(* Only the sum is compared with the total, to the cent. *)
ExactShares(total, raw) ==
  IF Q2(SumOf(raw), 100) # total THEN Refused
  ELSE [i \in DOMAIN raw |-> Q2(raw[i], 100)]

PercentageShares(total, raw) ==
  IF Q2(SumOf(raw), 100) # 100 * 100 THEN Refused
  ELSE DistributeRemainder(total, [i \in DOMAIN raw |-> total * raw[i]], 100 * 10000)

WeightedShares(total, raw) ==
  IF SumOf(raw) = 0 THEN Refused
  ELSE DistributeRemainder(total, [i \in DOMAIN raw |-> total * raw[i]], SumOf(raw))

SharesOf(method, total, n, raw) ==
  CASE method = "EQUAL" -> EqualShares(total, n)
    [] method = "EXACT" -> ExactShares(total, raw)
    [] method = "PERCENTAGE" -> PercentageShares(total, raw)
    [] method = "SHARES" -> WeightedShares(total, raw)

(* The split that apply_split_shares writes for the people of a request,   *)
(* out of `everyone`; none if the method refuses.                          *)
Divided(method, total, payer, people, raw, everyone) ==
  LET shares == SharesOf(method, total, Len(people), raw)
      at(x) == CHOOSE i \in DOMAIN people : people[i] = x
  IN  IF shares = Refused THEN {}
      ELSE {[amount |-> total, method |-> method, payer |-> payer,
             among |-> ToSet(people),
             share |-> [x \in everyone |->
                          IF x \in ToSet(people) THEN shares[at(x)] ELSE 0]]}
=============================================================================
