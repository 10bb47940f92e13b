------------------------------ MODULE DealSpine ------------------------------
(***************************************************************************)
(* The order of a deal's steps, computed from its terms, and whose each    *)
(* step is: platform/deals/deal-spine.ts.                                  *)
(***************************************************************************)
EXTENDS Naturals, Sequences

Role == {"PAYER", "PROVIDER"}
Track == {"COMMERCE", "SERVICE"}
Timing == {"UPFRONT", "ON_COMPLETION"}

PayerStages == {"DEPOSIT_PAID", "PAID", "GOODS_RECEIVED", "ACCEPTED"}
ProviderStages == {"DEPOSIT_CONFIRMED", "PAYMENT_CONFIRMED", "STARTED", "DISPATCHED",
                   "WORK_DELIVERED"}
EitherStages == {"AGREED", "DONE"}
Stage == PayerStages \cup ProviderStages \cup EitherStages

CARRIES_AMOUNT == {"DEPOSIT_PAID", "PAID"}
CONFIRMS == [stage \in CARRIES_AMOUNT |->
               IF stage = "PAID" THEN "PAYMENT_CONFIRMED" ELSE "DEPOSIT_CONFIRMED"]

MayMark(stage, role) ==
  \/ stage \in EitherStages
  \/ stage \in PayerStages /\ role = "PAYER"
  \/ stage \in ProviderStages /\ role = "PROVIDER"

(* A deposit is null or a positive figure, which 0 stands for here.        *)
HasDeposit(terms) == terms.deposit > 0

(* A deposit pushes the balance to the end whatever the timing says.       *)
PaymentLast(terms) == HasDeposit(terms) \/ terms.timing = "ON_COMPLETION"

Payment == <<"PAID", "PAYMENT_CONFIRMED">>
Fulfilment(track) ==
  IF track = "COMMERCE" THEN <<"DISPATCHED", "GOODS_RECEIVED">>
                        ELSE <<"STARTED", "WORK_DELIVERED", "ACCEPTED">>

SpineFor(track, terms) ==
  <<"AGREED">>
  \o (IF HasDeposit(terms) THEN <<"DEPOSIT_PAID", "DEPOSIT_CONFIRMED">> ELSE <<>>)
  \o (IF PaymentLast(terms) THEN Fulfilment(track) \o Payment
                            ELSE Payment \o Fulfilment(track))
  \o <<"DONE">>

InSpine(track, terms) ==
  LET spine == SpineFor(track, terms) IN {spine[i] : i \in DOMAIN spine}

(* The stages that come before this one.                                   *)
Earlier(track, terms, stage) ==
  LET spine == SpineFor(track, terms)
      at == {i \in DOMAIN spine : spine[i] = stage} IN
  {spine[j] : j \in {j \in DOMAIN spine : \E k \in at : j < k}}
=============================================================================
