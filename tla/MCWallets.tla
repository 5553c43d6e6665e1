------------------------------- MODULE MCWallets -------------------------------
(* Two clients, or the first wallet of a shop, for TLC.  No handler moves  *)
(* both a client's and a shop's money, so the two halves run apart.        *)
EXTENDS Wallets

CONSTANTS alice, bob, shop

VARIABLE half   \* bound: whose wallets a behaviour is about

MCOpening == [o \in {alice, bob} |-> IF o = alice THEN 2 ELSE 1]

MCInit == Init /\ half \in {"clients", "shops"}

MCNext ==
    /\ UNCHANGED half
    /\ \/ half = "clients" /\ (ClientStep \/ CorrectionStep)
       \/ half = "shops" /\ ShopStep
       \/ SettlementStep
       \/ crash

MCSpec == MCInit /\ [][MCNext]_<<vars, half>>
===============================================================================
