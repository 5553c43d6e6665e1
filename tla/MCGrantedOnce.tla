----------------------------- MODULE MCGrantedOnce -----------------------------
(* A cart, or a deposit or subscription beside a purchase of one service.     *)
EXTENDS MCPaymentConfirmation

CONSTANT m3

VARIABLE topic      \* bound: the payments that a behaviour is about

topicVars == <<vars, topic>>

\* Deposits and subscriptions go through the widget, Mi purchases through PayGate.
WidgetAndPaygate == [g \in Groups |-> IF Mi(g) THEN "paygate" ELSE "kkiapay"]

MCInit == Init /\ topic \in {{m1, m2}, {deposit, m3}, {subscription, m3}}

MCNext ==
    /\ Next
    /\ UNCHANGED topic
    /\ UNION begun' \subseteq topic

MCSpec == MCInit /\ [][MCNext]_topicVars /\ Fairness
================================================================================
