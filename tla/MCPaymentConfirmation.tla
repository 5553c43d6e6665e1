------------------------ MODULE MCPaymentConfirmation ------------------------
(* Payments of every motif, for TLC. *)
EXTENDS PaymentConfirmation

CONSTANTS deposit, subscription, m1, m2

MCMotif == [p \in Payments |->
    CASE p = deposit -> "WALLET_DEPOSIT"
      [] p = subscription -> "SUBSCRIPTION"
      [] OTHER -> "MI_SERVICE"]

MCAlone == {{p} : p \in Payments}
MCCart == {{m1, m2}} \union {{p} : p \in Payments \ {m1, m2}}

\* Everything is paid through PayGate.
MCPaygate == [g \in Groups |-> "paygate"]
==============================================================================
