----------------------------- MODULE Wallets_proofs -----------------------------
(***************************************************************************)
(* Proofs about the wallets, for any owners, references and amounts.       *)
(***************************************************************************)
EXTENDS Wallets, Sums, TLAPS

(***************************************************************************)
(* What a transaction can be: it is born settled unless it is a deposit, a *)
(* transfer or a withdrawal; a transfer has two ends, a withdrawal goes to *)
(* the platform, which has no wallet; who locks a wallet to confirm a      *)
(* transaction found it recorded and not settled.                          *)
(***************************************************************************)
Shaped(r) ==
    /\ txn[r].motif = "WITHDRAWAL" => txn[r].to = System
    /\ txn[r].motif = "ORDER_PAYMENT" => txn[r].from # txn[r].to
    /\ ~Unused(r) /\ txn[r].status # "SUCCESS"
         => txn[r].motif \in {"WITHDRAWAL", "ORDER_PAYMENT", "WALLET_DEPOSIT"}
    /\ txn[r].motif = "WALLET_DEPOSIT" /\ txn[r].status # "SUCCESS" => txn[r].from = txn[r].to
    /\ r \in asDeposit => txn[r].status = "SUCCESS" /\ txn[r].motif = "ORDER_PAYMENT"
    /\ r \in storing \union undone =>
          ~Unused(r) /\ txn[r].motif = "WALLET_DEPOSIT" /\ txn[r].from = txn[r].to
    /\ r \in storing => r \notin undone
    /\ Paying(r) => ~Unused(r) /\ txn[r].status # "SUCCESS"

IInv == TypeOK /\ \A r \in Refs : Shaped(r)

\* What a new transaction of a motif looks like.
Proper(motif, from, to, status) ==
    /\ motif = "WITHDRAWAL" => to = System
    /\ motif = "ORDER_PAYMENT" => from # to
    /\ status = "SUCCESS" \/ motif \in {"WITHDRAWAL", "ORDER_PAYMENT", "WALLET_DEPOSIT"}
    /\ motif = "WALLET_DEPOSIT" /\ status = "PENDING" => from = to

\* What recording it does to the balances, but for an admin's correction.
Moves(motif, from, to, amount, status) ==
    \A o \in Owners :
        \/ Correcting(o) /\ o \in {from, to}
        \/ balance'[o] - balance[o]
             = (IF to = o /\ status = "SUCCESS" THEN amount ELSE 0)
               - (IF from = o /\ motif # "WALLET_DEPOSIT"
                        /\ (status = "SUCCESS" \/ motif = "WITHDRAWAL")
                  THEN amount ELSE 0)

\* No confirmation begins.
NoneBegins == \A q \in Refs : Paying(q)' => Paying(q)

\* Transactions, and what is known of them, are left alone.
Still ==
    /\ UNCHANGED <<txn, asDeposit, undone>>
    /\ storing' \subseteq storing
    /\ \A r \in Refs : Paying(r)' => Paying(r)

\* Only the request of a new deposit begins to hold it.
HoldsNew(r, motif, status) ==
    /\ undone' = undone
    /\ \A q \in storing' \ storing : q = r /\ motif = "WALLET_DEPOSIT" /\ status = "PENDING"

(* A reference that is recorded holds a transaction.                       *)
LEMMA RecordedType ==
    ASSUME TypeOK, NEW r \in Refs, ~Unused(r)
    PROVE  txn[r] \in Txn
    BY DEF TypeOK, Unused

LEMMA NoTxnDiffers == NoTxn \notin Txn
    BY DEF NoTxn, Txn, Motifs

LEMMA StillShaped ==
    ASSUME IInv, Still
    PROVE  \A r \in Refs : Shaped(r)'
    BY DEF IInv, Still, Shaped, Unused

\* A new transaction, with the shape that its motif asks for.
LEMMA RecordShaped ==
    ASSUME IInv, NEW r \in Refs, NEW motif \in Motifs,
           NEW from \in Owners \union {System}, NEW to \in Owners \union {System},
           NEW amount \in Nat, NEW status \in {"PENDING", "SUCCESS"},
           Record(r, motif, from, to, amount, status),
           Proper(motif, from, to, status),
           asDeposit' = asDeposit, HoldsNew(r, motif, status), NoneBegins
    PROVE  txn' \in [Refs -> Txn \union {NoTxn}] /\ \A q \in Refs : Shaped(q)'
<1> DEFINE t == Transaction(motif, from, to, amount, status)
<1>1. t \in Txn /\ t # NoTxn
    BY NoTxnDiffers DEF Transaction, Txn, Status
<1>2. Unused(r) /\ txn' = [txn EXCEPT ![r] = t]
    BY DEF Record
<1>3. txn' \in [Refs -> Txn \union {NoTxn}]
    BY <1>1, <1>2 DEF IInv, TypeOK
<1>4. \A q \in Refs \ {r} : Shaped(q)'
    BY <1>2 DEF IInv, TypeOK, Shaped, Unused, NoneBegins, HoldsNew
<1>5. Shaped(r)'
    <2>1. txn'[r] = t
        BY <1>2 DEF IInv, TypeOK
    <2>2. r \notin asDeposit' /\ ~Paying(r)' /\ r \notin undone' /\ r \notin storing
        BY <1>2 DEF IInv, Shaped, Unused, NoTxn, NoneBegins, HoldsNew
    <2>3. r \in storing' => motif = "WALLET_DEPOSIT" /\ status = "PENDING"
        BY <2>2 DEF HoldsNew
    <2> QED
        BY <1>1, <2>1, <2>2, <2>3 DEF Shaped, Transaction, Proper, Unused
<1> QED
    BY <1>3, <1>4, <1>5

\* A transaction that is settled keeps its shape.
LEMMA SettleShaped ==
    ASSUME IInv, NEW r \in Refs, ~Unused(r), NEW status \in {"SUCCESS", "FAILED"},
           Settle(r, status),
           status = "SUCCESS" \/ (r \notin asDeposit /\ txn[r].motif \in {"WITHDRAWAL", "WALLET_DEPOSIT"}
                                  /\ txn[r].status # "SUCCESS"),
           asDeposit' \subseteq asDeposit
              \union (IF status = "SUCCESS" /\ txn[r].motif = "ORDER_PAYMENT" THEN {r} ELSE {}),
           UNCHANGED <<storing, undone>>,
           \A q \in Refs : Paying(q)' => Paying(q),
           ~Paying(r)'
    PROVE  txn' \in [Refs -> Txn \union {NoTxn}] /\ \A q \in Refs : Shaped(q)'
<1>1. txn[r] \in Txn
    BY RecordedType DEF IInv
<1>2. txn' = [txn EXCEPT ![r] = [txn[r] EXCEPT !.status = status]]
    BY DEF Settle
<1>3. txn'[r] \in Txn /\ txn'[r].status = status /\ txn'[r].motif = txn[r].motif
      /\ txn'[r].from = txn[r].from /\ txn'[r].to = txn[r].to
    BY <1>1, <1>2 DEF IInv, TypeOK, Txn, Status
<1>4. txn' \in [Refs -> Txn \union {NoTxn}]
    BY <1>2, <1>3 DEF IInv, TypeOK
<1>5. \A q \in Refs \ {r} : Shaped(q)'
    BY <1>2 DEF IInv, TypeOK, Shaped, Unused
<1>6. Shaped(r)'
    BY <1>3, NoTxnDiffers DEF IInv, Shaped, Unused
<1> QED
    BY <1>4, <1>5, <1>6

-------------------------------------------------------------------------------
LEMMA InvInit == Init => IInv
<1> SUFFICES ASSUME Init PROVE IInv
    OBVIOUS
<1>1. TypeOK
    BY WalletsAssumption DEF Init, TypeOK, WalletsAssumption, Owners, NoCorrection, Correction
<1>2. \A r \in Refs : ~Paying(r)
    BY WalletsAssumption DEF Init, Paying, WalletsAssumption
<1> QED
    BY <1>1, <1>2 DEF Init, IInv, Shaped, Unused, NoTxn

-------------------------------------------------------------------------------
\* What every step does to money, and to what an admin has decided.
Explained ==
    /\ \E r \in Refs : MoneyMovesWith(r)
    /\ \A r \in Refs : Decided(r) => txn'[r] = txn[r]

Good == IInv' /\ Explained

LEMMA StillExplained ==
    ASSUME Still, \A o \in Owners : Correcting(o) \/ balance'[o] = balance[o], IInv
    PROVE  Explained
<1>1. PICK r \in Refs : TRUE
    BY WalletsAssumption DEF WalletsAssumption
<1>2. \A o \in Owners : Effect(r, o)' = Effect(r, o) /\ Effect(r, o) \in Int
                          /\ balance[o] \in Nat
    BY DEF Still, Effect, Spent, IInv, TypeOK, Txn, NoTxn
<1>3. MoneyMovesWith(r)
    BY <1>2 DEF MoneyMovesWith, Still
<1> QED
    BY <1>3 DEF Explained, Still

(* A step that records a transaction moves its amount, if it is settled or  *)
(* a withdrawal, away from its sender.                                      *)
LEMMA RecordExplained ==
    ASSUME IInv, NEW r \in Refs, NEW motif \in Motifs,
           NEW from \in Owners \union {System}, NEW to \in Owners \union {System},
           NEW amount \in Nat, NEW status \in {"PENDING", "SUCCESS"},
           Record(r, motif, from, to, amount, status),
           asDeposit' = asDeposit, undone' = undone,
           Moves(motif, from, to, amount, status)
    PROVE  Explained
<1>1. txn[r] = NoTxn /\ txn' = [txn EXCEPT ![r] = Transaction(motif, from, to, amount, status)]
    BY DEF Record, Unused
<1>2. \A q \in Refs \ {r} : txn'[q] = txn[q]
    BY <1>1 DEF IInv, TypeOK
<1>3. txn'[r] = Transaction(motif, from, to, amount, status)
    BY <1>1 DEF IInv, TypeOK
<1>4. r \notin asDeposit /\ r \notin undone
    BY <1>1 DEF IInv, Shaped, NoTxn, Unused
<1>5. \A o \in Owners : Effect(r, o) = 0
    BY <1>1, <1>4 DEF Effect, Spent, NoTxn
<1>6. \A o \in Owners :
        Effect(r, o)' = (IF to = o /\ status = "SUCCESS" THEN amount ELSE 0)
                      - (IF from = o /\ motif # "WALLET_DEPOSIT"
                               /\ (status = "SUCCESS" \/ motif = "WITHDRAWAL")
                         THEN amount ELSE 0)
    BY <1>3, <1>4 DEF Effect, Spent, Transaction
<1>7. MoneyMovesWith(r)
    BY <1>2, <1>5, <1>6 DEF MoneyMovesWith, Moves
<1>8. ~Decided(r)
    BY <1>1 DEF Decided, NoTxn
<1> QED
    BY <1>2, <1>7, <1>8 DEF Explained

\* Of a step that leaves transactions alone only the types are left to show.
LEMMA StillGood ==
    ASSUME IInv, Still, TypeOK', \A o \in Owners : Correcting(o) \/ balance'[o] = balance[o]
    PROVE  Good
    BY StillShaped, StillExplained DEF Good, IInv

\* Of a step that records a transaction, too.
LEMMA RecordGood ==
    ASSUME IInv, NEW r \in Refs, NEW motif \in Motifs,
           NEW from \in Owners \union {System}, NEW to \in Owners \union {System},
           NEW amount \in Nat, NEW status \in {"PENDING", "SUCCESS"},
           Record(r, motif, from, to, amount, status),
           Proper(motif, from, to, status),
           NoneBegins,
           asDeposit' = asDeposit, HoldsNew(r, motif, status),
           txn' \in [Refs -> Txn \union {NoTxn}] => TypeOK',
           Moves(motif, from, to, amount, status)
    PROVE  Good
<1>1. txn' \in [Refs -> Txn \union {NoTxn}] /\ \A q \in Refs : Shaped(q)'
    BY RecordShaped
<1>2. Explained
    BY RecordExplained DEF HoldsNew
<1> QED
    BY <1>1, <1>2 DEF Good, IInv

-------------------------------------------------------------------------------
LEMMA GoodClient ==
    ASSUME IInv, NEW c \in Clients,
           \/ getOrCreateWallet(c)
           \/ \E m \in Admins :
                 \/ \E amount \in Amounts : manualTopUp(m, c, amount)
                 \/ resetToZero(m, c)
    PROVE  Good
<1>1. CASE getOrCreateWallet(c)
    <2>1. TypeOK'
        BY <1>1 DEF getOrCreateWallet, IInv, TypeOK, locks, Owners
    <2> QED
        BY <1>1, <2>1, StillGood DEF getOrCreateWallet, Still, Paying, locks
<1>2. ASSUME NEW m \in Admins, NEW new \in Nat, readWallet(m, c, new)
      PROVE  Good
    <2>1. balance[c] \in Nat
        BY DEF IInv, TypeOK, Owners
    <2>2. [phase |-> "read", owner |-> c, seen |-> balance[c], new |-> new] \in Correction
        BY <2>1 DEF Correction
    <2>3. TypeOK'
        BY <1>2, <2>2 DEF readWallet, IInv, TypeOK, locks
    <2> QED
        BY <1>2, <2>3, StillGood DEF readWallet, Still, Paying, locks
<1>3. balance[c] \in Nat /\ \A amount \in Amounts : balance[c] + amount \in Nat
    BY WalletsAssumption DEF IInv, TypeOK, Owners, WalletsAssumption
<1> QED
    BY <1>1, <1>2, <1>3 DEF manualTopUp, resetToZero

LEMMA GoodRequest ==
    ASSUME IInv, NEW c \in Clients, NEW r \in Refs, NEW amount \in Amounts,
           \/ initiateDeposit(r, c, amount)
           \/ requestWithdrawal(r, c, amount)
           \/ \E d \in Clients : initiateUserPayment(r, c, d, amount)
    PROVE  Good
<1>1. amount \in Nat /\ c \in Owners /\ c # System /\ balance \in [Owners -> Nat]
      /\ "PENDING" \in {"PENDING", "SUCCESS"}
    BY WalletsAssumption DEF WalletsAssumption, Owners, IInv, TypeOK
<1>2. CASE initiateDeposit(r, c, amount)
    <2>1. txn' \in [Refs -> Txn \union {NoTxn}] => TypeOK'
        BY <1>2 DEF initiateDeposit, IInv, TypeOK, locks, Owners
    <2>2. NoneBegins
        BY <1>2 DEF initiateDeposit, NoneBegins, Paying, locks
    <2>3. Moves("WALLET_DEPOSIT", c, c, amount, "PENDING")
        BY <1>1, <1>2 DEF initiateDeposit, Moves
    <2> QED
        BY <1>1, <1>2, <2>1, <2>2, <2>3, RecordGood DEF initiateDeposit, Motifs, Proper, HoldsNew
<1>3. CASE requestWithdrawal(r, c, amount)
    <2>1. balance[c] \in Nat /\ balance[c] >= amount
        BY <1>1, <1>3 DEF requestWithdrawal
    <2>2. balance' = [balance EXCEPT ![c] = balance[c] - amount]
        BY <1>3 DEF requestWithdrawal, Debit
    <2>3. txn' \in [Refs -> Txn \union {NoTxn}] => TypeOK'
        BY <1>1, <1>3, <2>1, <2>2 DEF requestWithdrawal, IInv, TypeOK, locks
    <2>4. NoneBegins
        BY <1>3 DEF requestWithdrawal, NoneBegins, Paying, locks
    <2>5. Moves("WITHDRAWAL", c, System, amount, "PENDING")
        BY <1>1, <2>2 DEF Moves
    <2> QED
        BY <1>1, <1>3, <2>3, <2>4, <2>5, RecordGood, WalletsAssumption
        DEF requestWithdrawal, Motifs, WalletsAssumption, Proper, HoldsNew
<1>4. ASSUME NEW d \in Clients, initiateUserPayment(r, c, d, amount)
      PROVE  Good
    <2>1. txn' \in [Refs -> Txn \union {NoTxn}] => TypeOK'
        BY <1>4 DEF initiateUserPayment, IInv, TypeOK, locks
    <2>2. NoneBegins
        BY <1>4 DEF initiateUserPayment, NoneBegins, Paying, locks
    <2>3. d \in Owners \union {System}
        BY DEF Owners
    <2>4. Moves("ORDER_PAYMENT", c, d, amount, "PENDING")
        BY <1>1, <1>4 DEF initiateUserPayment, Moves
    <2> QED
        BY <1>1, <1>4, <2>1, <2>2, <2>3, <2>4, RecordGood DEF initiateUserPayment, Motifs, Proper, HoldsNew
<1> QED
    BY <1>2, <1>3, <1>4

-------------------------------------------------------------------------------
\* Of a step that settles a transaction, what it does to the balances is left.
LEMMA SettleGood ==
    ASSUME IInv, NEW r \in Refs, ~Unused(r), NEW status \in {"SUCCESS", "FAILED"},
           Settle(r, status), txn[r].status # "SUCCESS",
           status = "SUCCESS" \/ txn[r].motif \in {"WITHDRAWAL", "WALLET_DEPOSIT"},
           ~Decided(r),
           NEW late \in BOOLEAN, late => status = "SUCCESS" /\ txn[r].motif = "ORDER_PAYMENT",
           asDeposit' = (IF late THEN asDeposit \union {r} ELSE asDeposit),
           UNCHANGED <<storing, undone>>,
           \A q \in Refs : Paying(q)' => Paying(q),
           ~Paying(r)',
           txn' \in [Refs -> Txn \union {NoTxn}] /\ asDeposit' \subseteq Refs => TypeOK',
           \A o \in Owners :
               balance'[o] - balance[o]
               = (IF txn[r].to = o /\ status = "SUCCESS" THEN txn[r].amount ELSE 0)
                 - (IF txn[r].from = o /\ txn[r].motif = "ORDER_PAYMENT" /\ ~late
                    THEN txn[r].amount ELSE 0)
                 + (IF txn[r].from = o /\ txn[r].motif = "WITHDRAWAL" /\ status = "FAILED"
                    THEN txn[r].amount ELSE 0)
    PROVE  Good
<1>1. txn[r] \in Txn /\ Shaped(r) /\ r \notin asDeposit
    BY RecordedType DEF IInv, Shaped
<1>2. txn' \in [Refs -> Txn \union {NoTxn}] /\ \A q \in Refs : Shaped(q)'
    BY <1>1, SettleShaped
<1>3. TypeOK'
    BY <1>2 DEF IInv, TypeOK
<1>4. txn' = [txn EXCEPT ![r] = [txn[r] EXCEPT !.status = status]]
    BY DEF Settle
<1>5. txn'[r].status = status /\ txn'[r].motif = txn[r].motif /\ txn'[r].from = txn[r].from
      /\ txn'[r].to = txn[r].to /\ txn'[r].amount = txn[r].amount
    BY <1>1, <1>4 DEF IInv, TypeOK, Txn
<1>6. \A q \in Refs \ {r} : txn'[q] = txn[q]
    BY <1>4 DEF IInv, TypeOK
<1>7. txn[r].motif \in {"WITHDRAWAL", "ORDER_PAYMENT", "WALLET_DEPOSIT"}
      /\ (txn[r].motif = "WITHDRAWAL" => txn[r].status = "PENDING")
    BY <1>1 DEF Shaped, Decided
<1>8. txn[r].amount \in Nat /\ balance \in [Owners -> Nat]
    BY <1>1 DEF Txn, IInv, TypeOK
<1> DEFINE Kept(o) == IF txn[r].to = o /\ r \in undone THEN txn[r].amount ELSE 0
<1>9. \A o \in Owners :
        Effect(r, o) = Kept(o) - (IF txn[r].from = o /\ txn[r].motif = "WITHDRAWAL"
                                  THEN txn[r].amount ELSE 0)
    BY <1>1, <1>7, <1>8 DEF Effect, Spent, Txn
<1>10. \A o \in Owners :
        Effect(r, o)' = Kept(o) + (IF txn[r].to = o /\ status = "SUCCESS" THEN txn[r].amount ELSE 0)
                        - (IF txn[r].from = o /\ \/ txn[r].motif = "WITHDRAWAL" /\ status # "FAILED"
                                                 \/ txn[r].motif = "ORDER_PAYMENT" /\ ~late
                           THEN txn[r].amount ELSE 0)
    BY <1>1, <1>5, <1>7, <1>8 DEF Effect, Spent
<1>11. \A o \in Owners : balance'[o] - balance[o] = Effect(r, o)' - Effect(r, o)
    BY <1>7, <1>9, <1>10, <1>8
<1>12. MoneyMovesWith(r)
    BY <1>6, <1>11 DEF MoneyMovesWith
<1> QED
    BY <1>2, <1>3, <1>6, <1>12 DEF Good, IInv, Explained

LEMMA GoodDeposit ==
    ASSUME IInv, NEW r \in Refs,
           \/ \E outcome \in {"succeeded", "failed"} : applyDepositEvent(r, outcome)
           \/ confirmDeposit(r)
    PROVE  Good
<1>1. Row(r) /\ txn[r] \in Txn /\ txn[r].status # "SUCCESS" /\ Shaped(r) /\ ~Unused(r) /\ ~Paying(r)
    BY RecordedType DEF IInv, applyDepositEvent, confirmDeposit, Row
<1>2. lock' = lock /\ absent' = absent /\ fresh' = fresh /\ wallets' = wallets /\ admin' = admin
      /\ torn' = torn /\ faults' = faults /\ UNCHANGED <<storing, undone>>
    BY DEF applyDepositEvent, confirmDeposit, locks
<1>3. (\A q \in Refs : Paying(q)' => Paying(q)) /\ ~Paying(r)'
    BY <1>1, <1>2 DEF Paying
<1>4. System \notin Owners /\ wallets \subseteq Owners /\ balance \in [Owners -> Nat]
      /\ txn[r].amount \in Nat
    BY <1>1, WalletsAssumption DEF WalletsAssumption, IInv, TypeOK, Txn
<1>5. ASSUME applyDepositEvent(r, "failed")
      PROVE  Good
    <2>1. balance' = balance /\ Settle(r, "FAILED") /\ txn[r].motif = "WALLET_DEPOSIT"
          /\ asDeposit' = asDeposit
        BY <1>5 DEF applyDepositEvent
    <2>2. txn' \in [Refs -> Txn \union {NoTxn}] => TypeOK'
        BY <1>2, <2>1 DEF IInv, TypeOK
    <2>3. ~Decided(r)
        BY <2>1 DEF Decided
    <2>4. \A o \in Owners :
            balance'[o] - balance[o]
            = (IF txn[r].to = o /\ "FAILED" = "SUCCESS" THEN txn[r].amount ELSE 0)
              - (IF txn[r].from = o /\ txn[r].motif = "ORDER_PAYMENT" /\ ~FALSE
                 THEN txn[r].amount ELSE 0)
              + (IF txn[r].from = o /\ txn[r].motif = "WITHDRAWAL" /\ "FAILED" = "FAILED"
                 THEN txn[r].amount ELSE 0)
        BY <1>4, <2>1
    <2>5. asDeposit' = (IF FALSE THEN asDeposit \union {r} ELSE asDeposit)
        BY <2>1
    <2>6. FALSE \in BOOLEAN /\ "FAILED" \in {"SUCCESS", "FAILED"}
        OBVIOUS
    <2> QED
        BY <1>1, <1>2, <1>3, <2>1, <2>2, <2>3, <2>4, <2>5, <2>6, SettleGood
<1>6. ASSUME \/ applyDepositEvent(r, "succeeded")
             \/ confirmDeposit(r)
      PROVE  Good
    <2>1. /\ Available(txn[r].to) /\ Credit(txn[r].to, txn[r].amount) /\ Settle(r, "SUCCESS")
          /\ asDeposit' = (IF txn[r].motif = "ORDER_PAYMENT" THEN asDeposit \union {r} ELSE asDeposit)
        BY <1>6 DEF applyDepositEvent, confirmDeposit
    <2>2. txn[r].to \in Owners /\ txn[r].motif # "WITHDRAWAL"
        BY <1>1, <1>4, <2>1 DEF Available, Shaped
    <2>3. balance' = [balance EXCEPT ![txn[r].to] = balance[txn[r].to] + txn[r].amount]
        BY <2>1 DEF Credit
    <2>4. txn' \in [Refs -> Txn \union {NoTxn}] => TypeOK'
        BY <1>2, <1>4, <2>1, <2>2, <2>3 DEF IInv, TypeOK
    <2>5. \A o \in Owners : balance'[o] - balance[o] = IF txn[r].to = o THEN txn[r].amount ELSE 0
        BY <1>4, <2>2, <2>3
    <2>6. ~Decided(r)
        BY <2>2 DEF Decided
    <2>7. PICK late \in BOOLEAN : late <=> txn[r].motif = "ORDER_PAYMENT"
        <3>1. CASE txn[r].motif = "ORDER_PAYMENT"
            BY <3>1
        <3>2. CASE txn[r].motif # "ORDER_PAYMENT"
            BY <3>2
        <3> QED
            BY <3>1, <3>2
    <2>8. \A o \in Owners :
            balance'[o] - balance[o]
            = (IF txn[r].to = o /\ "SUCCESS" = "SUCCESS" THEN txn[r].amount ELSE 0)
              - (IF txn[r].from = o /\ txn[r].motif = "ORDER_PAYMENT" /\ ~late
                 THEN txn[r].amount ELSE 0)
              + (IF txn[r].from = o /\ txn[r].motif = "WITHDRAWAL" /\ "SUCCESS" = "FAILED"
                 THEN txn[r].amount ELSE 0)
        BY <1>4, <2>2, <2>5, <2>7
    <2>9. asDeposit' = (IF late THEN asDeposit \union {r} ELSE asDeposit)
        BY <2>1, <2>7
    <2> QED
        BY <1>1, <1>2, <1>3, <2>1, <2>2, <2>4, <2>6, <2>7, <2>8, <2>9, SettleGood
<1> QED
    BY <1>5, <1>6

\* The request's own save: no money moves, and a success it takes back is noted.
LEMMA GoodStore ==
    ASSUME IInv, NEW r \in Refs, storeExternalPaymentId(r)
    PROVE  Good
<1>1. /\ r \in storing /\ ~Unused(r) /\ ~Paying(r) /\ txn[r] \in Txn /\ Shaped(r)
      /\ txn[r].motif = "WALLET_DEPOSIT" /\ txn[r].from = txn[r].to
      /\ r \notin asDeposit /\ r \notin undone
    BY RecordedType DEF storeExternalPaymentId, Row, IInv, Shaped
<1>2. /\ UNCHANGED <<wallets, balance, lock, absent, fresh, admin, asDeposit, torn, faults>>
      /\ txn' = [txn EXCEPT ![r] = [txn[r] EXCEPT !.status = "PENDING"]]
      /\ storing' = storing \ {r}
      /\ undone' = IF txn[r].status = "SUCCESS" THEN undone \union {r} ELSE undone
    BY DEF storeExternalPaymentId, Settle, locks
<1>3. txn'[r] \in Txn /\ txn'[r].status = "PENDING" /\ txn'[r].motif = txn[r].motif
      /\ txn'[r].from = txn[r].from /\ txn'[r].to = txn[r].to /\ txn'[r].amount = txn[r].amount
    BY <1>1, <1>2 DEF IInv, TypeOK, Txn, Status
<1>4. \A q \in Refs \ {r} : txn'[q] = txn[q]
    BY <1>2 DEF IInv, TypeOK
<1>5. TypeOK'
    BY <1>2, <1>3 DEF IInv, TypeOK
<1>6. \A q \in Refs \ {r} : Shaped(q)'
    BY <1>2, <1>4 DEF IInv, Shaped, Unused, Paying
<1>7. Shaped(r)'
    BY <1>1, <1>2, <1>3, NoTxnDiffers DEF Shaped, Unused, Paying
<1>8. \A o \in Owners : Effect(r, o)' = Effect(r, o) /\ Effect(r, o) \in Int
    BY <1>1, <1>2, <1>3 DEF Effect, Spent, Txn
<1>9. MoneyMovesWith(r)
    BY <1>2, <1>4, <1>8 DEF MoneyMovesWith, IInv, TypeOK
<1>10. ~Decided(r)
    BY <1>1 DEF Decided
<1> QED
    BY <1>4, <1>5, <1>6, <1>7, <1>9, <1>10 DEF Good, IInv, Explained

LEMMA ReleaseFrees ==
    ASSUME NEW h, h # Nobody, lock' = Release(h), IInv
    PROVE  /\ lock' \in [Owners -> Refs \union Calls \union {Nobody}]
           /\ \A q \in Refs : Paying(q)' => Paying(q) /\ q # h
    BY WalletsAssumption DEF Release, Paying, IInv, TypeOK, WalletsAssumption

LEMMA GoodTransfer ==
    ASSUME IInv, NEW r \in Refs, lockSender(r) \/ confirmUserPayment(r)
    PROVE  Good
<1>1. r # Nobody /\ Nobody \notin Refs
    BY WalletsAssumption DEF WalletsAssumption
<1>2. CASE lockSender(r)
    <2>1. lock' = [lock EXCEPT ![txn[r].from] = r] /\ txn' = txn
          /\ UNCHANGED <<asDeposit, storing, undone>>
          /\ wallets' = wallets /\ balance' = balance /\ txn[r].from \in Clients
        BY <1>2 DEF lockSender
    <2>2. TypeOK'
        BY <1>2, <2>1 DEF lockSender, IInv, TypeOK
    <2>3. \A q \in Refs : Paying(q)' => Paying(q) \/ q = r
        BY <2>1 DEF Paying, IInv, TypeOK
    <2>4. ~Unused(r) /\ txn[r].status # "SUCCESS"
        BY <1>2 DEF lockSender, Row
    <2>5. \A q \in Refs : Shaped(q)'
        BY <2>1, <2>3, <2>4 DEF IInv, Shaped, Unused
    <2>6. \A o \in Owners : Effect(r, o)' = Effect(r, o) /\ Effect(r, o) \in Int
                             /\ balance[o] \in Nat
        BY <2>1 DEF Effect, Spent, IInv, TypeOK, Txn, NoTxn
    <2>7. MoneyMovesWith(r)
        BY <2>1, <2>6 DEF MoneyMovesWith
    <2> QED
        BY <2>1, <2>2, <2>5, <2>7 DEF Good, IInv, Explained
<1>3. CASE refuseTransfer(r) \/ lockWaitFails(r)
    <2>1. lock' = Release(r) /\ UNCHANGED <<wallets, balance, txn, absent, fresh, admin, asDeposit, storing, undone, torn, faults>>
        BY <1>3 DEF refuseTransfer, lockWaitFails
    <2>2. lock' \in [Owners -> Refs \union Calls \union {Nobody}] /\ \A q \in Refs : Paying(q)' => Paying(q)
        BY <1>1, <2>1, ReleaseFrees
    <2>3. TypeOK'
        BY <2>1, <2>2 DEF IInv, TypeOK
    <2> QED
        BY <2>1, <2>2, <2>3, StillGood DEF Still
<1>4. CASE transfer(r)
    <2>1. Paying(r) /\ ~Unused(r) /\ txn[r] \in Txn /\ Shaped(r) /\ txn[r].status # "SUCCESS"
        BY <1>4, RecordedType DEF transfer, IInv, Shaped
    <2>2. txn[r].to \in wallets /\ balance[txn[r].from] >= txn[r].amount /\ Settle(r, "SUCCESS")
          /\ lock' = Release(r) /\ UNCHANGED <<wallets, absent, fresh, admin, asDeposit, storing, undone, torn, faults>>
        BY <1>4 DEF transfer, ReceiverLocked, affords
    <2>3. System \notin Owners /\ wallets \subseteq Owners /\ balance \in [Owners -> Nat]
          /\ txn[r].amount \in Nat /\ txn[r].from \in Owners \union {System}
        BY <2>1, WalletsAssumption DEF WalletsAssumption, IInv, TypeOK, Txn
    <2>4. txn[r].to \in Owners /\ txn[r].motif \in {"ORDER_PAYMENT", "WALLET_DEPOSIT"}
        BY <2>1, <2>2, <2>3 DEF Shaped
    <2>5. lock' \in [Owners -> Refs \union Calls \union {Nobody}]
          /\ (\A q \in Refs : Paying(q)' => Paying(q)) /\ ~Paying(r)'
        BY <1>1, <2>2, ReleaseFrees
    <2> DEFINE Moved(o) ==
            (IF txn[r].to = o /\ "SUCCESS" = "SUCCESS" THEN txn[r].amount ELSE 0)
            - (IF txn[r].from = o /\ txn[r].motif = "ORDER_PAYMENT" /\ ~FALSE
               THEN txn[r].amount ELSE 0)
            + (IF txn[r].from = o /\ txn[r].motif = "WITHDRAWAL" /\ "SUCCESS" = "FAILED"
               THEN txn[r].amount ELSE 0)
    <2>6. ASSUME txn[r].from = txn[r].to
          PROVE  balance' \in [Owners -> Nat] /\ \A o \in Owners : balance'[o] - balance[o] = Moved(o)
        <3>1. txn[r].motif = "WALLET_DEPOSIT"
            BY <2>1, <2>4, <2>6 DEF Shaped
        <3>2. balance' = [balance EXCEPT ![txn[r].to] = balance[txn[r].to] + txn[r].amount]
            BY <1>4, <2>6 DEF transfer
        <3>3. \A o \in Owners : balance'[o] \in Nat /\ 
                balance'[o] - balance[o] = IF txn[r].to = o THEN txn[r].amount ELSE 0
            BY <2>3, <2>4, <3>2
        <3>4. balance' \in [Owners -> Nat]
            BY <2>3, <3>2, <3>3
        <3> QED
            BY <2>3, <3>1, <3>3, <3>4
    <2>7. ASSUME txn[r].from # txn[r].to
          PROVE  balance' \in [Owners -> Nat] /\ \A o \in Owners : balance'[o] - balance[o] = Moved(o)
        <3>1. txn[r].motif = "ORDER_PAYMENT"
            BY <2>1, <2>4, <2>7 DEF Shaped
        <3>2. balance' = [balance EXCEPT ![txn[r].from] = balance[txn[r].from] - txn[r].amount,
                                         ![txn[r].to] = balance[txn[r].to] + txn[r].amount]
            BY <1>4, <2>3, <2>4, <2>7 DEF transfer
        <3>3. \A o \in Owners : balance'[o] \in Nat /\
                balance'[o] - balance[o] = IF txn[r].to = o THEN txn[r].amount
                                           ELSE IF txn[r].from = o THEN 0 - txn[r].amount ELSE 0
            BY <2>2, <2>3, <2>4, <2>7, <3>2
        <3>4. balance' \in [Owners -> Nat]
            BY <2>3, <3>2, <3>3
        <3> QED
            BY <2>3, <2>7, <3>1, <3>3, <3>4
    <2>8. balance' \in [Owners -> Nat] /\ \A o \in Owners : balance'[o] - balance[o] = Moved(o)
        BY <2>6, <2>7
    <2>9. txn' \in [Refs -> Txn \union {NoTxn}] => TypeOK'
        BY <2>2, <2>5, <2>8 DEF IInv, TypeOK
    <2>10. ~Decided(r) /\ asDeposit' = (IF FALSE THEN asDeposit \union {r} ELSE asDeposit)
        BY <2>2, <2>4 DEF Decided
    <2>11. FALSE \in BOOLEAN /\ "SUCCESS" \in {"SUCCESS", "FAILED"}
        OBVIOUS
    <2> QED
        BY <2>1, <2>2, <2>5, <2>8, <2>9, <2>10, <2>11, SettleGood
<1> QED
    BY <1>2, <1>3, <1>4 DEF confirmUserPayment

LEMMA GoodWithdrawal ==
    ASSUME IInv, NEW r \in Refs, confirmWithdrawal(r) \/ rejectWithdrawal(r)
    PROVE  Good
<1>1. /\ ~Unused(r) /\ ~Paying(r) /\ txn[r] \in Txn /\ Shaped(r)
      /\ txn[r].motif = "WITHDRAWAL" /\ txn[r].status = "PENDING" /\ txn[r].to = System
      /\ UNCHANGED <<wallets, lock, absent, fresh, admin, asDeposit, storing, undone, torn, faults>>
    BY RecordedType
    DEF confirmWithdrawal, rejectWithdrawal, PendingWithdrawal, Row, IInv, Shaped, locks
<1>2. (\A q \in Refs : Paying(q)' => Paying(q)) /\ ~Paying(r)' /\ ~Decided(r)
    BY <1>1 DEF Paying, Decided
<1>3. System \notin Owners /\ wallets \subseteq Owners /\ balance \in [Owners -> Nat]
      /\ txn[r].amount \in Nat
    BY <1>1, WalletsAssumption DEF WalletsAssumption, IInv, TypeOK, Txn
<1>4. asDeposit' = (IF FALSE THEN asDeposit \union {r} ELSE asDeposit) /\ FALSE \in BOOLEAN
      /\ "FAILED" \in {"SUCCESS", "FAILED"} /\ "SUCCESS" \in {"SUCCESS", "FAILED"}
    BY <1>1
<1> DEFINE Moved(o, status) ==
        (IF txn[r].to = o /\ status = "SUCCESS" THEN txn[r].amount ELSE 0)
        - (IF txn[r].from = o /\ txn[r].motif = "ORDER_PAYMENT" /\ ~FALSE
           THEN txn[r].amount ELSE 0)
        + (IF txn[r].from = o /\ txn[r].motif = "WITHDRAWAL" /\ status = "FAILED"
           THEN txn[r].amount ELSE 0)
<1>5. CASE confirmWithdrawal(r)
    <2>1. balance' = balance /\ Settle(r, "SUCCESS")
        BY <1>5 DEF confirmWithdrawal
    <2>2. \A o \in Owners : balance'[o] - balance[o] = Moved(o, "SUCCESS")
        BY <1>1, <1>3, <2>1
    <2>3. txn' \in [Refs -> Txn \union {NoTxn}] => TypeOK'
        BY <1>1, <2>1 DEF IInv, TypeOK
    <2> QED
        BY <1>1, <1>2, <1>4, <2>1, <2>2, <2>3, SettleGood
<1>6. CASE rejectWithdrawal(r)
    <2>1. Settle(r, "FAILED") /\ txn[r].from \in Owners
          /\ balance' = [balance EXCEPT ![txn[r].from] = balance[txn[r].from] + txn[r].amount]
        BY <1>3, <1>6 DEF rejectWithdrawal, Available, Credit
    <2>2. \A o \in Owners : balance'[o] - balance[o] = Moved(o, "FAILED")
        BY <1>1, <1>3, <2>1
    <2>3. balance' \in [Owners -> Nat]
        BY <1>3, <2>1
    <2>4. txn' \in [Refs -> Txn \union {NoTxn}] => TypeOK'
        BY <1>1, <2>3 DEF IInv, TypeOK
    <2> QED
        BY <1>1, <1>2, <1>4, <2>1, <2>2, <2>4, SettleGood
<1> QED
    BY <1>5, <1>6

-------------------------------------------------------------------------------
LEMMA GoodCorrection ==
    ASSUME IInv, NEW m \in Admins,
           saveWallet(m) \/ recordFails(m) \/ \E r \in Refs : recordCorrection(m, r)
    PROVE  Good
<1> DEFINE a == admin[m]
<1>1. a \in Correction /\ a.phase # "idle"
    BY DEF saveWallet, recordFails, recordCorrection, IInv, TypeOK, NoCorrection, Correction
<1>2. System \notin Owners /\ balance \in [Owners -> Nat] /\ a.seen \in Nat /\ a.new \in Nat
      /\ a.owner \in Owners /\ torn \subseteq Owners
    BY <1>1, WalletsAssumption DEF WalletsAssumption, IInv, TypeOK, Correction, Owners
<1>3. ASSUME admin' = [admin EXCEPT ![m] = NoCorrection]
      PROVE  admin' \in [Admins -> Correction \union {NoCorrection}] /\ Correcting(a.owner)
    BY <1>1, <1>3 DEF Correcting, IInv, TypeOK, NoCorrection
<1>4. CASE saveWallet(m)
    <2>1. /\ a.phase = "read" /\ balance' = [balance EXCEPT ![a.owner] = a.new]
          /\ torn' \in {torn, torn \union {a.owner}}
          /\ admin' = [admin EXCEPT ![m].phase = "saved"]
          /\ UNCHANGED <<wallets, txn, lock, absent, fresh, asDeposit, storing, undone, faults>>
        BY <1>4 DEF saveWallet, locks
    <2>2. admin'[m] = [phase |-> "saved", owner |-> a.owner, seen |-> a.seen, new |-> a.new]
        BY <1>1, <2>1 DEF IInv, TypeOK, Correction
    <2>3. admin' \in [Admins -> Correction \union {NoCorrection}]
        <3>1. admin'[m] \in Correction
            BY <1>1, <2>2 DEF Correction
        <3> QED
            BY <2>1, <3>1 DEF IInv, TypeOK
    <2>4. admin'[m] # admin[m]
        BY <2>1, <2>2
    <2>5. \A o \in Owners : Correcting(o) \/ balance'[o] = balance[o]
        BY <1>2, <2>1, <2>4 DEF Correcting
    <2>6. TypeOK'
        BY <1>2, <2>1, <2>3 DEF IInv, TypeOK
    <2> QED
        BY <2>1, <2>5, <2>6, StillGood DEF Still, Paying
<1>5. CASE recordFails(m)
    <2>1. TypeOK'
        BY <1>2, <1>3, <1>5 DEF recordFails, IInv, TypeOK, locks
    <2> QED
        BY <1>5, <2>1, StillGood DEF recordFails, Still, Paying, locks
<1>6. ASSUME NEW r \in Refs, recordCorrection(m, r)
      PROVE  Good
    <2>1. admin' = [admin EXCEPT ![m] = NoCorrection]
          /\ UNCHANGED <<wallets, balance, lock, absent, fresh, asDeposit, storing, undone, torn, faults>>
        BY <1>6 DEF recordCorrection, locks
    <2>2. txn' \in [Refs -> Txn \union {NoTxn}] => TypeOK'
        BY <1>3, <2>1 DEF IInv, TypeOK
    <2>3. Correcting(a.owner) /\ NoneBegins
        BY <1>3, <2>1 DEF NoneBegins, Paying
    <2>4. \A o \in Owners : balance'[o] - balance[o] = 0
        BY <1>2, <2>1
    <2>5. CASE a.new > a.seen
        <3>1. Record(r, "WALLET_DEPOSIT", System, a.owner, a.new - a.seen, "SUCCESS")
            BY <1>6, <2>5 DEF recordCorrection
        <3>2. a.new - a.seen \in Nat /\ "WALLET_DEPOSIT" \in Motifs /\ "SUCCESS" \in {"PENDING", "SUCCESS"}
            BY <1>2, <2>5 DEF Motifs
        <3>3. Moves("WALLET_DEPOSIT", System, a.owner, a.new - a.seen, "SUCCESS")
            BY <1>2, <2>3, <2>4 DEF Moves
        <3> QED
            BY <1>2, <2>1, <2>2, <2>3, <3>1, <3>2, <3>3, RecordGood DEF Proper, HoldsNew
    <2>6. CASE ~(a.new > a.seen)
        <3>1. Record(r, "REFUND", a.owner, System, a.seen - a.new, "SUCCESS")
            BY <1>6, <2>6 DEF recordCorrection
        <3>2. a.seen - a.new \in Nat /\ "REFUND" \in Motifs /\ "SUCCESS" \in {"PENDING", "SUCCESS"}
            BY <1>2, <2>6 DEF Motifs
        <3>3. Moves("REFUND", a.owner, System, a.seen - a.new, "SUCCESS")
            BY <1>2, <2>3, <2>4 DEF Moves
        <3> QED
            BY <1>2, <2>1, <2>2, <2>3, <3>1, <3>2, <3>3, RecordGood DEF Proper, HoldsNew
    <2> QED
        BY <2>5, <2>6
<1> QED
    BY <1>4, <1>5, <1>6

-------------------------------------------------------------------------------
LEMMA GoodShopWallet ==
    ASSUME IInv, NEW s \in Shops,
           \/ getOrCreateShopWallet(s)
           \/ \E k \in Calls : getOrCreateLockedWallet(k, s) \/ rollback(k, s)
    PROVE  Good
<1>1. s \in Owners /\ Calls \intersect Refs = {} /\ Nobody \notin Refs
    BY WalletsAssumption DEF Owners, WalletsAssumption
<1>2. CASE getOrCreateShopWallet(s)
    <2>1. TypeOK'
        BY <1>1, <1>2 DEF getOrCreateShopWallet, IInv, TypeOK, locks
    <2> QED
        BY <1>2, <2>1, StillGood DEF getOrCreateShopWallet, Still, Paying, locks
<1>3. ASSUME NEW k \in Calls, getOrCreateLockedWallet(k, s) \/ rollback(k, s)
      PROVE  Good
    <2>1. k \notin Refs
        BY <1>1
    <2>2. /\ UNCHANGED <<balance, txn, admin, asDeposit, storing, undone, torn, faults>>
          /\ lock' \in {lock, [lock EXCEPT ![s] = k], [lock EXCEPT ![s] = Nobody]}
          /\ absent' \in {absent, [absent EXCEPT ![k] = s], [absent EXCEPT ![k] = Nobody]}
          /\ fresh' \in {fresh, fresh \union {s}, fresh \ {s}}
          /\ wallets' \in {wallets, wallets \union {s}, wallets \ {s}}
        BY <1>3 DEF getOrCreateLockedWallet, selectForUpdate, insertWallet, selectWinner,
                    insertDeadlocks, rollback
    <2>3. TypeOK'
        BY <1>1, <2>2 DEF IInv, TypeOK
    <2>4. \A q \in Refs : Paying(q)' => Paying(q)
        BY <1>1, <2>1, <2>2 DEF Paying, IInv, TypeOK
    <2> QED
        BY <2>2, <2>3, <2>4, StillGood DEF Still
<1> QED
    BY <1>2, <1>3

\* What a shop spends, with the wallet locked for one call or not.
LEMMA GoodSpend ==
    ASSUME IInv, NEW s \in Shops, NEW r \in Refs, NEW amount \in Amounts,
           NEW motif \in {"WITHDRAWAL", "SUBSCRIPTION", "MI_SERVICE"},
           NEW status \in {"PENDING", "SUCCESS"}, motif = "WITHDRAWAL" \/ status = "SUCCESS",
           balance[s] >= amount, Debit(s, amount), Record(r, motif, s, System, amount, status),
           lock' \in {lock, [lock EXCEPT ![s] = Nobody]}, fresh' \subseteq fresh,
           UNCHANGED <<wallets, absent, admin, asDeposit, storing, undone, torn, faults>>
    PROVE  Good
<1>1. s \in Owners /\ amount \in Nat /\ System \notin Owners /\ Nobody \notin Refs
      /\ balance \in [Owners -> Nat] /\ motif \in Motifs
    BY WalletsAssumption DEF Owners, WalletsAssumption, IInv, TypeOK, Motifs
<1>2. balance' = [balance EXCEPT ![s] = balance[s] - amount]
    BY DEF Debit
<1>3. txn' \in [Refs -> Txn \union {NoTxn}] => TypeOK'
    BY <1>1, <1>2 DEF IInv, TypeOK
<1>4. NoneBegins
    BY <1>1 DEF NoneBegins, Paying, IInv, TypeOK
<1>5. Moves(motif, s, System, amount, status)
    BY <1>1, <1>2 DEF Moves
<1>6. /\ s \in Owners \union {System} /\ System \in Owners \union {System}
      /\ asDeposit' = asDeposit /\ motif # "ORDER_PAYMENT" /\ motif # "WALLET_DEPOSIT"
    BY <1>1
<1>7. Proper(motif, s, System, status)
    BY <1>6 DEF Proper
<1>8. CASE status = "PENDING"
  <2>1. "PENDING" \in {"PENDING", "SUCCESS"}
    OBVIOUS
  <2>2. Record(r, motif, s, System, amount, "PENDING") /\ Moves(motif, s, System, amount, "PENDING")
        /\ Proper(motif, s, System, "PENDING")
    BY <1>5, <1>7, <1>8
  <2> QED
    BY <1>1, <1>3, <1>4, <1>6, <2>1, <2>2, RecordGood DEF HoldsNew
<1>9. CASE status = "SUCCESS"
  <2>1. "SUCCESS" \in {"PENDING", "SUCCESS"}
    OBVIOUS
  <2>2. Record(r, motif, s, System, amount, "SUCCESS") /\ Moves(motif, s, System, amount, "SUCCESS")
        /\ Proper(motif, s, System, "SUCCESS")
    BY <1>5, <1>7, <1>9
  <2> QED
    BY <1>1, <1>3, <1>4, <1>6, <2>1, <2>2, RecordGood DEF HoldsNew
<1> QED
    BY <1>8, <1>9

LEMMA GoodShop ==
    ASSUME IInv, NEW s \in Shops, NEW r \in Refs, NEW amount \in Amounts,
           \/ initiatePurchase(s, r, amount)
           \/ \E k \in Calls :
                 \/ shopRequestWithdrawal(k, s, r, amount)
                 \/ paySubscriptionFromWallet(k, s, r, amount)
                 \/ applyWalletCredit(k, s, r, amount)
    PROVE  Good
<1>1. CASE initiatePurchase(s, r, amount)
    <2>1. /\ balance[s] >= amount /\ Debit(s, amount)
          /\ Record(r, "MI_SERVICE", s, System, amount, "SUCCESS")
          /\ UNCHANGED <<wallets, lock, absent, fresh, admin, asDeposit, storing, undone, torn, faults>>
        BY <1>1 DEF initiatePurchase, locks
    <2>2. "MI_SERVICE" \in {"WITHDRAWAL", "SUBSCRIPTION", "MI_SERVICE"}
          /\ "SUCCESS" \in {"PENDING", "SUCCESS"}
        OBVIOUS
    <2> QED
        BY <2>1, <2>2, GoodSpend
<1>2. ASSUME NEW k \in Calls,
             shopRequestWithdrawal(k, s, r, amount) \/ paySubscriptionFromWallet(k, s, r, amount)
      PROVE  Good
    <2>1. PICK motif \in {"WITHDRAWAL", "SUBSCRIPTION", "MI_SERVICE"}, status \in {"PENDING", "SUCCESS"} :
            (motif = "WITHDRAWAL" \/ status = "SUCCESS") /\ Spend(k, s, r, motif, amount, status)
        BY <1>2 DEF shopRequestWithdrawal, paySubscriptionFromWallet
    <2>2. lock' = [lock EXCEPT ![s] = Nobody] /\ fresh' \subseteq fresh
          /\ UNCHANGED <<wallets, absent, admin, asDeposit, storing, undone, torn, faults>>
          /\ balance[s] >= amount /\ Debit(s, amount) /\ Record(r, motif, s, System, amount, status)
        BY <2>1 DEF Spend, Commit
    <2> QED
        BY <2>1, <2>2, GoodSpend
<1>3. ASSUME NEW k \in Calls, applyWalletCredit(k, s, r, amount)
      PROVE  Good
    <2>1. s \in Owners /\ amount \in Nat /\ System \notin Owners /\ Nobody \notin Refs
          /\ balance \in [Owners -> Nat] /\ "PROVIDER_PAYOUT" \in Motifs
          /\ "SUCCESS" \in {"PENDING", "SUCCESS"}
        BY WalletsAssumption DEF Owners, WalletsAssumption, IInv, TypeOK, Motifs
    <2>2. lock' = [lock EXCEPT ![s] = Nobody] /\ fresh' \subseteq fresh
          /\ UNCHANGED <<wallets, absent, admin, asDeposit, storing, undone, torn, faults>>
        BY <1>3 DEF applyWalletCredit, Commit
    <2>3. NoneBegins
        BY <2>1, <2>2 DEF NoneBegins, Paying, IInv, TypeOK
    <2>4. CASE Unused(r)
        <3>1. balance' = [balance EXCEPT ![s] = balance[s] + amount]
              /\ Record(r, "PROVIDER_PAYOUT", System, s, amount, "SUCCESS")
            BY <1>3, <2>4 DEF applyWalletCredit, Credit
        <3>2. txn' \in [Refs -> Txn \union {NoTxn}] => TypeOK'
            BY <2>1, <2>2, <3>1 DEF IInv, TypeOK
        <3>3. Moves("PROVIDER_PAYOUT", System, s, amount, "SUCCESS")
            BY <2>1, <3>1 DEF Moves
        <3>4. s \in Owners \union {System} /\ System \in Owners \union {System}
              /\ asDeposit' = asDeposit
            BY <2>1, <2>2
        <3> QED
            BY <2>1, <2>2, <2>3, <3>1, <3>2, <3>3, <3>4, RecordGood DEF Proper, HoldsNew
    <2>5. CASE ~Unused(r)
        <3>1. UNCHANGED <<balance, txn, asDeposit, storing, undone>>
            BY <1>3, <2>2, <2>5 DEF applyWalletCredit
        <3>2. TypeOK'
            BY <2>1, <2>2, <3>1 DEF IInv, TypeOK
        <3>3. \A o \in Owners : balance'[o] = balance[o]
            BY <3>1
        <3>4. Still
            BY <2>3, <3>1 DEF Still, NoneBegins
        <3> QED
            BY <3>2, <3>3, <3>4, StillGood
    <2> QED
        BY <2>4, <2>5
<1> QED
    BY <1>1, <1>2, <1>3

LEMMA GoodCrash ==
    ASSUME IInv, crash
    PROVE  Good
<1>1. UNCHANGED <<balance, txn, asDeposit, undone>> /\ storing' = {} /\ lock' = [o \in Owners |-> Nobody]
    BY DEF crash
<1>2. \A q \in Refs : ~Paying(q)'
    BY <1>1, WalletsAssumption DEF Paying, WalletsAssumption
<1>3. \A m \in Admins : admin[m].phase = "saved" => admin[m].owner \in Owners
    BY DEF IInv, TypeOK, Correction, NoCorrection, Owners
<1>4. torn' \subseteq Owners
    BY <1>3 DEF crash, IInv, TypeOK
<1>5. TypeOK'
    BY <1>1, <1>4, WalletsAssumption DEF crash, IInv, TypeOK, WalletsAssumption
<1> QED
    BY <1>1, <1>2, <1>5, StillGood DEF Still

-------------------------------------------------------------------------------
\* Every step keeps the invariant and moves money only as its transaction says.
LEMMA GoodStep ==
    ASSUME IInv, Next
    PROVE  Good
<1>1. CASE ClientStep
    BY <1>1, GoodClient, GoodRequest DEF ClientStep
<1>2. CASE SettlementStep
    BY <1>2, GoodDeposit, GoodStore, GoodTransfer, GoodWithdrawal DEF SettlementStep
<1>3. CASE CorrectionStep
    BY <1>3, GoodCorrection DEF CorrectionStep
<1>4. CASE ShopStep
    BY <1>4, GoodShopWallet, GoodShop DEF ShopStep
<1> QED
    BY <1>1, <1>2, <1>3, <1>4, GoodCrash DEF Next

LEMMA InvStep == IInv /\ [Next]_vars => IInv'
<1>1. ASSUME IInv, UNCHANGED vars
      PROVE  IInv'
    BY <1>1 DEF vars, locks, IInv, TypeOK, Shaped, Unused, Paying
<1> QED
    BY <1>1, GoodStep DEF Good

LEMMA Invariance == Spec => []IInv
    BY InvInit, InvStep, PTL DEF Spec

\* Balances, locks, transactions and corrections keep their types whatever the
\* handlers of transaction.service.ts, client_wallet.service.ts and
\* pro_wallet.service.ts do: no balance is ever negative.
THEOREM TypeInvariant == Spec => []TypeOK
<1>1. IInv => TypeOK
    BY DEF IInv
<1> QED
    BY <1>1, Invariance, PTL

\* For any wallets and any number of concurrent handlers, restarts and failed
\* inserts, each step changes a balance by exactly what the status of one
\* transaction says, but for an admin's correction.
THEOREM MoneyExplained == Spec => MoneyFollowsStatus
<1>1. IInv /\ [Next]_vars => [\E r \in Refs : MoneyMovesWith(r)]_vars
    BY GoodStep DEF Good, Explained
<1> QED
    BY <1>1, Invariance, PTL DEF Spec, MoneyFollowsStatus

\* No endpoint, admin decision or provider's answer changes a withdrawal that was
\* paid out or refunded.
THEOREM WithdrawalsDecidedOnce == Spec => WithdrawalFinal
<1>1. IInv /\ [Next]_vars => [\A r \in Refs : Decided(r) => txn'[r] = txn[r]]_vars
    BY GoodStep DEF Good, Explained
<1> QED
    BY <1>1, Invariance, PTL DEF Spec, WithdrawalFinal

-------------------------------------------------------------------------------
(***************************************************************************)
(* The balances, summed over all transactions and corrections.             *)
(***************************************************************************)
Effects(o) == [r \in Refs |-> Effect(r, o)]
Pending(o) == [m \in Admins |-> Unrecorded(m, o)]

BalanceInv ==
    \A o \in Owners \ torn :
        balance[o] = OpeningOf(o) + SumOf(Effects(o), Refs) + SumOf(Pending(o), Admins)

LEMMA EffectType ==
    ASSUME TypeOK, NEW o \in Owners
    PROVE  /\ \A r \in Refs : Effects(o)[r] = Effect(r, o) /\ Effects(o)[r] \in Int
           /\ \A m \in Admins : Pending(o)[m] = Unrecorded(m, o) /\ Pending(o)[m] \in Int
<1>1. \A r \in Refs : txn[r].amount \in Nat
    BY DEF TypeOK, Txn, NoTxn
<1>2. \A m \in Admins : admin[m].new \in Nat /\ admin[m].seen \in Nat
    BY DEF TypeOK, Correction, NoCorrection
<1> QED
    BY <1>1, <1>2 DEF Effects, Pending, Effect, Unrecorded

LEMMA SumsType ==
    ASSUME TypeOK, NEW o \in Owners
    PROVE  /\ SumOf(Effects(o), Refs) \in Int
           /\ SumOf(Pending(o), Admins) \in Int
           /\ OpeningOf(o) \in Nat
           /\ balance[o] \in Nat
<1>1. SumOf(Effects(o), Refs) \in Int
    BY EffectType, SumType, FinitelyMany DEF FinitelyMany
<1>2. SumOf(Pending(o), Admins) \in Int
    BY EffectType, SumType, FinitelyMany DEF FinitelyMany
<1> QED
    BY <1>1, <1>2, WalletsAssumption DEF WalletsAssumption, OpeningOf, TypeOK

LEMMA BalanceInit == Init => BalanceInv
<1> SUFFICES ASSUME Init, NEW o \in Owners
             PROVE  balance[o] = OpeningOf(o) + SumOf(Effects(o), Refs) + SumOf(Pending(o), Admins)
    BY DEF BalanceInv
<1>1. TypeOK
    BY InvInit DEF IInv
<1>2. \A r \in Refs : Effects(o)[r] = 0
    BY WalletsAssumption DEF Init, Effects, Effect, Spent, NoTxn, WalletsAssumption
<1>3. \A m \in Admins : Pending(o)[m] = 0
    BY DEF Init, Pending, Unrecorded, NoCorrection
<1>4. SumOf(Effects(o), Refs) = 0
    BY <1>2, FinitelyMany, SumZero DEF FinitelyMany
<1>5. SumOf(Pending(o), Admins) = 0
    BY <1>3, FinitelyMany, SumZero DEF FinitelyMany
<1> QED
    BY <1>1, <1>4, <1>5, SumsType DEF Init, OpeningOf

\* When one transaction changes, the sum over all changes by what it does.
LEMMA EffectsChange ==
    ASSUME TypeOK, TypeOK', NEW o \in Owners, NEW r \in Refs,
           \A q \in Refs \ {r} : txn'[q] = txn[q] /\ (q \in asDeposit' <=> q \in asDeposit)
                                     /\ (q \in undone' <=> q \in undone)
    PROVE  /\ SumOf(Effects(o)', Refs) \in Int
           /\ SumOf(Effects(o)', Refs) - SumOf(Effects(o), Refs) = Effect(r, o)' - Effect(r, o)
<1>1. \A q \in Refs : Effects(o)[q] \in Int /\ Effects(o)'[q] \in Int
  <2>1. \A q \in Refs : txn[q].amount \in Nat /\ txn'[q].amount \in Nat
      BY DEF TypeOK, Txn, NoTxn
  <2> QED
      BY <2>1 DEF Effects, Effect
<1>2. Effects(o)[r] = Effect(r, o) /\ Effects(o)'[r] = Effect(r, o)'
    BY DEF Effects
<1>3. \A q \in Refs \ {r} : Effects(o)'[q] = Effects(o)[q]
    BY DEF Effects, Effect, Spent
<1>4. SumOf(Effects(o)', Refs) - SumOf(Effects(o), Refs) = Effects(o)'[r] - Effects(o)[r]
    BY <1>1, <1>3, SumChange, FinitelyMany DEF FinitelyMany
<1>5. SumOf(Effects(o)', Refs) \in Int
    BY <1>1, SumType, FinitelyMany DEF FinitelyMany
<1> QED
    BY <1>2, <1>4, <1>5

LEMMA PendingChange ==
    ASSUME TypeOK, TypeOK', NEW o \in Owners, NEW m \in Admins,
           \A n \in Admins \ {m} : admin'[n] = admin[n]
    PROVE  /\ SumOf(Pending(o)', Admins) \in Int
           /\ SumOf(Pending(o)', Admins) - SumOf(Pending(o), Admins)
                = Unrecorded(m, o)' - Unrecorded(m, o)
<1>1. \A n \in Admins : Pending(o)[n] \in Int /\ Pending(o)'[n] \in Int
  <2>1. \A n \in Admins : /\ admin[n].new \in Nat /\ admin[n].seen \in Nat
                          /\ admin'[n].new \in Nat /\ admin'[n].seen \in Nat
      BY DEF TypeOK, Correction, NoCorrection
  <2> QED
      BY <2>1 DEF Pending, Unrecorded
<1>2. Pending(o)[m] = Unrecorded(m, o) /\ Pending(o)'[m] = Unrecorded(m, o)'
    BY DEF Pending
<1>3. \A n \in Admins \ {m} : Pending(o)'[n] = Pending(o)[n]
    BY DEF Pending, Unrecorded
<1>4. SumOf(Pending(o)', Admins) - SumOf(Pending(o), Admins) = Pending(o)'[m] - Pending(o)[m]
    BY <1>1, <1>3, SumChange, FinitelyMany DEF FinitelyMany
<1>5. SumOf(Pending(o)', Admins) \in Int
    BY <1>1, SumType, FinitelyMany DEF FinitelyMany
<1> QED
    BY <1>2, <1>4, <1>5

\* One transaction moves the money of o, and no correction of o's wallet goes on.
LEMMA BalanceMoves ==
    ASSUME IInv, IInv', BalanceInv, NEW o \in Owners \ torn, NEW r \in Refs, MoneyMovesWith(r),
           ~Correcting(o), \A m \in Admins : Unrecorded(m, o)' = Unrecorded(m, o)
    PROVE  balance'[o] = OpeningOf(o) + SumOf(Effects(o)', Refs) + SumOf(Pending(o)', Admins)
<1>1. TypeOK /\ TypeOK'
    BY DEF IInv
<1>2. /\ SumOf(Effects(o)', Refs) \in Int
      /\ SumOf(Effects(o)', Refs) - SumOf(Effects(o), Refs) = Effect(r, o)' - Effect(r, o)
    BY <1>1, EffectsChange DEF MoneyMovesWith
<1>3. SumOf(Pending(o)', Admins) = SumOf(Pending(o), Admins)
    BY <1>1, EffectType, SumSame, FinitelyMany DEF FinitelyMany, Pending
<1>4. balance'[o] - balance[o] = Effect(r, o)' - Effect(r, o) /\ balance'[o] \in Nat
    BY <1>1 DEF MoneyMovesWith, TypeOK
<1>5. balance[o] = OpeningOf(o) + SumOf(Effects(o), Refs) + SumOf(Pending(o), Admins)
    BY DEF BalanceInv
<1> QED
    BY <1>1, <1>2, <1>3, <1>4, <1>5, SumsType

\* No money moves, and no correction of o's wallet is saved or recorded.
LEMMA BalanceStays ==
    ASSUME IInv, IInv', BalanceInv, NEW o \in Owners \ torn, UNCHANGED <<balance, txn, asDeposit, undone>>,
           \A m \in Admins : Unrecorded(m, o)' = Unrecorded(m, o)
    PROVE  balance'[o] = OpeningOf(o) + SumOf(Effects(o)', Refs) + SumOf(Pending(o)', Admins)
<1>1. TypeOK
    BY DEF IInv
<1>2. Effects(o)' = Effects(o)
    BY DEF Effects, Effect, Spent
<1>3. SumOf(Pending(o)', Admins) = SumOf(Pending(o), Admins)
    BY <1>1, EffectType, SumSame, FinitelyMany DEF FinitelyMany, Pending
<1> QED
    BY <1>2, <1>3 DEF BalanceInv

\* The correction m of o's wallet is the only one that changes what is unrecorded, and
\* the transaction r the only one that is recorded, if any.
LEMMA BalanceCorrects ==
    ASSUME IInv, IInv', BalanceInv, NEW o \in Owners \ torn, NEW m \in Admins, NEW r \in Refs,
           \A n \in Admins \ {m} : admin'[n] = admin[n],
           \A q \in Refs \ {r} : txn'[q] = txn[q],
           UNCHANGED <<asDeposit, undone>>,
           balance'[o] - balance[o]
             = (Effect(r, o)' - Effect(r, o)) + (Unrecorded(m, o)' - Unrecorded(m, o))
    PROVE  balance'[o] = OpeningOf(o) + SumOf(Effects(o)', Refs) + SumOf(Pending(o)', Admins)
<1>1. TypeOK /\ TypeOK'
    BY DEF IInv
<1>2. /\ SumOf(Effects(o)', Refs) \in Int
      /\ SumOf(Effects(o)', Refs) - SumOf(Effects(o), Refs) = Effect(r, o)' - Effect(r, o)
    BY <1>1, EffectsChange
<1>3. /\ SumOf(Pending(o)', Admins) \in Int
      /\ SumOf(Pending(o)', Admins) - SumOf(Pending(o), Admins) = Unrecorded(m, o)' - Unrecorded(m, o)
    BY <1>1, PendingChange
<1>4. balance'[o] \in Nat
    BY <1>1 DEF TypeOK
<1>5. balance[o] = OpeningOf(o) + SumOf(Effects(o), Refs) + SumOf(Pending(o), Admins)
    BY DEF BalanceInv
<1>6. balance'[o] - balance[o]
         = (SumOf(Effects(o)', Refs) - SumOf(Effects(o), Refs))
            + (SumOf(Pending(o)', Admins) - SumOf(Pending(o), Admins))
    BY <1>2, <1>3
<1> QED
    BY <1>1, <1>2, <1>3, <1>4, <1>5, <1>6, SumsType

LEMMA BalanceSaved ==
    ASSUME IInv, IInv', BalanceInv, NEW m \in Admins, saveWallet(m), NEW o \in Owners \ torn', o = admin[m].owner
    PROVE  balance'[o] = OpeningOf(o) + SumOf(Effects(o)', Refs) + SumOf(Pending(o)', Admins)
<1>1. admin[m] \in Correction /\ admin[m].phase = "read" /\ TypeOK
    BY DEF IInv, TypeOK, saveWallet, NoCorrection
<1>2. balance[o] = admin[m].seen /\ balance'[o] = admin[m].new /\ o \notin torn
    BY <1>1 DEF saveWallet, TypeOK
<1>3. admin' = [admin EXCEPT ![m] = [admin[m] EXCEPT !.phase = "saved"]]
    BY DEF saveWallet
<1>4. Unrecorded(m, o) = 0 /\ Unrecorded(m, o)' = admin[m].new - admin[m].seen
    BY <1>1, <1>3 DEF Unrecorded, Correction, TypeOK
<1>5. PICK r \in Refs : TRUE
    BY WalletsAssumption DEF WalletsAssumption
<1>6. Effect(r, o)' = Effect(r, o) /\ Effect(r, o) \in Int
    BY <1>1, EffectType DEF saveWallet, Effect, Spent
<1>7. balance'[o] - balance[o]
        = (Effect(r, o)' - Effect(r, o)) + (Unrecorded(m, o)' - Unrecorded(m, o))
    BY <1>1, <1>2, <1>4, <1>6 DEF Correction
<1>8. UNCHANGED <<txn, asDeposit, storing, undone>> /\ \A n \in Admins \ {m} : admin'[n] = admin[n]
    BY <1>1, <1>3 DEF saveWallet, TypeOK
<1> QED
    BY <1>2, <1>7, <1>8, BalanceCorrects

LEMMA BalanceRecorded ==
    ASSUME IInv, IInv', BalanceInv, NEW m \in Admins, NEW r \in Refs, recordCorrection(m, r),
           NEW o \in Owners \ torn', o = admin[m].owner
    PROVE  balance'[o] = OpeningOf(o) + SumOf(Effects(o)', Refs) + SumOf(Pending(o)', Admins)
<1> DEFINE a == admin[m]
<1>1. a \in Correction /\ a.phase = "saved" /\ TypeOK
    BY DEF IInv, TypeOK, recordCorrection, NoCorrection
<1>2. /\ admin' = [admin EXCEPT ![m] = NoCorrection]
      /\ UNCHANGED <<balance, asDeposit, storing, undone, torn>>
    BY DEF recordCorrection
<1>3. a.new \in Nat /\ a.seen \in Nat /\ o # System /\ a.owner = o
    BY <1>1, WalletsAssumption DEF Correction, WalletsAssumption, Owners
<1>4. Unrecorded(m, o) = a.new - a.seen /\ Unrecorded(m, o)' = 0
    BY <1>1, <1>2, <1>3 DEF Unrecorded, NoCorrection, TypeOK
<1>5. Unused(r) /\ r \notin asDeposit /\ r \notin undone /\ Effect(r, o) = 0
  <2>1. Unused(r)
      BY DEF recordCorrection, Record
  <2> QED
      BY <2>1, <1>3 DEF IInv, Shaped, Unused, NoTxn, Effect
<1>6. Effect(r, o)' = a.new - a.seen
  <2>1. CASE a.new > a.seen
    <3>1. txn'[r] = Transaction("WALLET_DEPOSIT", System, o, a.new - a.seen, "SUCCESS")
        BY <1>1, <1>3, <2>1 DEF recordCorrection, Record, TypeOK
    <3> QED
        BY <1>2, <1>3, <1>5, <3>1 DEF Effect, Spent, Transaction
  <2>2. CASE ~(a.new > a.seen)
    <3>1. txn'[r] = Transaction("REFUND", o, System, a.seen - a.new, "SUCCESS")
        BY <1>1, <1>3, <2>2 DEF recordCorrection, Record, TypeOK
    <3> QED
        BY <1>2, <1>3, <1>5, <3>1 DEF Effect, Spent, Transaction
  <2> QED
      BY <2>1, <2>2
<1>7. \A q \in Refs \ {r} : txn'[q] = txn[q]
    BY <1>1 DEF recordCorrection, Record, TypeOK
<1>8. \A n \in Admins \ {m} : admin'[n] = admin[n]
    BY <1>1, <1>2 DEF TypeOK
<1>9. balance'[o] - balance[o]
        = (Effect(r, o)' - Effect(r, o)) + (Unrecorded(m, o)' - Unrecorded(m, o))
    BY <1>1, <1>2, <1>3, <1>4, <1>5, <1>6 DEF TypeOK
<1> QED
    BY <1>2, <1>7, <1>8, <1>9, BalanceCorrects

\* No other step touches a correction but to begin one.
LEMMA OthersCorrectNothing ==
    ASSUME IInv, [Next]_vars, NEW o \in Owners,
           ~crash, \A m \in Admins : ~saveWallet(m) /\ ~recordFails(m),
           \A m \in Admins, r \in Refs : ~recordCorrection(m, r)
    PROVE  /\ ~Correcting(o)
           /\ \A m \in Admins : Unrecorded(m, o)' = Unrecorded(m, o)
<1>1. CASE UNCHANGED admin
    BY <1>1 DEF Correcting, Unrecorded
<1>2. ASSUME NEW m \in Admins, NEW c \in Clients, NEW new \in Nat, readWallet(m, c, new)
      PROVE  /\ ~Correcting(o)
             /\ \A n \in Admins : Unrecorded(n, o)' = Unrecorded(n, o)
  <2>1. admin[m] = NoCorrection
      BY <1>2 DEF readWallet, IInv, TypeOK, Correction
  <2>2. o # System
      BY WalletsAssumption DEF WalletsAssumption
  <2>3. \A n \in Admins \ {m} : admin'[n] = admin[n]
      BY <1>2 DEF readWallet, IInv, TypeOK
  <2>4. admin'[m].phase = "read"
      BY <1>2 DEF readWallet, IInv, TypeOK
  <2> QED
      BY <2>1, <2>2, <2>3, <2>4 DEF Correcting, Unrecorded, NoCorrection
<1>3. CASE \E c \in Clients, m \in Admins :
              (\E amount \in Amounts : manualTopUp(m, c, amount)) \/ resetToZero(m, c)
  <2>1. PICK c \in Clients, m \in Admins :
              (\E amount \in Amounts : manualTopUp(m, c, amount)) \/ resetToZero(m, c)
      BY <1>3
  <2>2. balance[c] \in Nat /\ Amounts \subseteq Nat
      BY WalletsAssumption DEF WalletsAssumption, IInv, TypeOK, Owners
  <2>3. \E new \in Nat : readWallet(m, c, new)
      BY <2>1, <2>2 DEF manualTopUp, resetToZero
  <2> QED
      BY <1>2, <2>3
<1>4. CASE ClientStep
    BY <1>1, <1>3, <1>4
       DEF ClientStep, getOrCreateWallet, initiateDeposit, requestWithdrawal, initiateUserPayment
<1>5. CASE SettlementStep
    BY <1>1, <1>5
       DEF SettlementStep, applyDepositEvent, storeExternalPaymentId, confirmDeposit, lockSender,
           confirmUserPayment,
           transfer, refuseTransfer, lockWaitFails, confirmWithdrawal, rejectWithdrawal
<1>6. CASE ShopStep
    BY <1>1, <1>6
       DEF ShopStep, getOrCreateShopWallet, initiatePurchase, getOrCreateLockedWallet, selectForUpdate,
           insertWallet, selectWinner, insertDeadlocks, rollback, shopRequestWithdrawal,
           paySubscriptionFromWallet, applyWalletCredit, Spend, Commit
<1>7. CASE UNCHANGED vars
    BY <1>1, <1>7 DEF vars
<1> QED
    BY <1>4, <1>5, <1>6, <1>7 DEF Next, CorrectionStep

LEMMA BalanceStep ==
    ASSUME IInv, BalanceInv, [Next]_vars
    PROVE  BalanceInv'
<1>1. IInv'
    BY InvStep
<1>2. torn \subseteq torn'
    BY DEF Next, vars, ClientStep, getOrCreateWallet, initiateDeposit, requestWithdrawal,
           initiateUserPayment, manualTopUp, resetToZero, readWallet, SettlementStep,
           applyDepositEvent, storeExternalPaymentId, confirmDeposit, lockSender,
           confirmUserPayment, transfer, refuseTransfer, lockWaitFails, confirmWithdrawal, rejectWithdrawal, CorrectionStep,
           saveWallet, recordCorrection, recordFails, ShopStep, getOrCreateShopWallet,
           initiatePurchase, getOrCreateLockedWallet, selectForUpdate, insertWallet, selectWinner,
           insertDeadlocks, rollback, shopRequestWithdrawal, paySubscriptionFromWallet,
           applyWalletCredit, Spend, Commit, crash
<1>3. SUFFICES ASSUME NEW o \in Owners \ torn'
               PROVE  balance'[o] = OpeningOf(o) + SumOf(Effects(o)', Refs) + SumOf(Pending(o)', Admins)
    BY DEF BalanceInv
<1>4. o \in Owners \ torn /\ TypeOK
    BY <1>2 DEF IInv
<1>5. ASSUME NEW m \in Admins, saveWallet(m), o # admin[m].owner
      PROVE  UNCHANGED <<balance[o], txn, asDeposit, storing, undone>> /\ ~Correcting(o)
             /\ \A n \in Admins : Unrecorded(n, o)' = Unrecorded(n, o)
  <2>1. /\ \A n \in Admins \ {m} : admin'[n] = admin[n]
        /\ admin'[m].owner = admin[m].owner
      BY <1>4, <1>5 DEF saveWallet, TypeOK, Correction, NoCorrection
  <2> QED
      BY <1>4, <1>5, <2>1 DEF saveWallet, Correcting, Unrecorded, TypeOK
<1>6. CASE \E m \in Admins : saveWallet(m)
  <2>1. PICK m \in Admins : saveWallet(m)
      BY <1>6
  <2>2. CASE o = admin[m].owner
      BY <1>1, <2>1, <2>2, BalanceSaved
  <2>3. CASE o # admin[m].owner
    <3>1. PICK r \in Refs : MoneyMovesWith(r)
        BY <2>1, GoodStep DEF Good, Explained, Next, CorrectionStep
    <3> QED
        BY <1>1, <1>4, <1>5, <2>1, <2>3, <3>1, BalanceMoves
  <2> QED
      BY <2>2, <2>3
<1>7. CASE \E m \in Admins, r \in Refs : recordCorrection(m, r)
  <2>1. PICK m \in Admins, r \in Refs : recordCorrection(m, r)
      BY <1>7
  <2>2. CASE o = admin[m].owner
      BY <1>1, <2>1, <2>2, BalanceRecorded
  <2>3. CASE o # admin[m].owner
    <3>1. /\ \A n \in Admins \ {m} : admin'[n] = admin[n]
          /\ admin'[m] = NoCorrection
        BY <1>4, <2>1 DEF recordCorrection, TypeOK
    <3>2. o # System
        BY WalletsAssumption DEF WalletsAssumption
    <3>3. ~Correcting(o) /\ \A n \in Admins : Unrecorded(n, o)' = Unrecorded(n, o)
        BY <2>3, <3>1, <3>2 DEF Correcting, Unrecorded, NoCorrection
    <3>4. PICK q \in Refs : MoneyMovesWith(q)
        BY <2>1, GoodStep DEF Good, Explained, Next, CorrectionStep
    <3> QED
        BY <1>1, <1>4, <3>3, <3>4, BalanceMoves
  <2> QED
      BY <2>2, <2>3
<1>8. CASE \E m \in Admins : recordFails(m)
  <2>1. PICK m \in Admins : recordFails(m)
      BY <1>8
  <2>2. o # admin[m].owner /\ o # System
      BY <2>1, WalletsAssumption DEF recordFails, WalletsAssumption
  <2>3. \A n \in Admins \ {m} : admin'[n] = admin[n]
      BY <1>4, <2>1 DEF recordFails, TypeOK
  <2>4. admin'[m] = NoCorrection
      BY <1>4, <2>1 DEF recordFails, TypeOK
  <2>5. \A n \in Admins : Unrecorded(n, o)' = Unrecorded(n, o)
      BY <2>2, <2>3, <2>4 DEF Unrecorded, NoCorrection
  <2> QED
      BY <1>1, <1>4, <2>1, <2>5, BalanceStays DEF recordFails
<1>9. CASE crash
  <2>1. \A m \in Admins : ~(admin[m].phase = "saved" /\ admin[m].owner = o)
      BY <1>9 DEF crash
  <2>2. \A m \in Admins : admin'[m] = NoCorrection
      BY <1>9 DEF crash
  <2>3. \A m \in Admins : Unrecorded(m, o)' = Unrecorded(m, o)
      BY <2>1, <2>2 DEF Unrecorded, NoCorrection
  <2> QED
      BY <1>1, <1>4, <1>9, <2>3, BalanceStays DEF crash
<1>10. CASE /\ ~crash /\ \A m \in Admins : ~saveWallet(m) /\ ~recordFails(m)
            /\ \A m \in Admins, r \in Refs : ~recordCorrection(m, r)
  <2>1. ~Correcting(o) /\ \A m \in Admins : Unrecorded(m, o)' = Unrecorded(m, o)
      BY <1>4, <1>10, OthersCorrectNothing
  <2>2. CASE Next
    <3>1. PICK r \in Refs : MoneyMovesWith(r)
        BY <2>2, GoodStep DEF Good, Explained
    <3> QED
        BY <1>1, <1>4, <2>1, <3>1, BalanceMoves
  <2>3. CASE UNCHANGED vars
      BY <1>1, <1>4, <2>1, <2>3, BalanceStays DEF vars
  <2> QED
      BY <2>2, <2>3
<1> QED
    BY <1>6, <1>7, <1>8, <1>9, <1>10

\* The folds of the property are these sums.
LEMMA EffectsAdd ==
    ASSUME TypeOK, NEW o \in Owners
    PROVE  MapThenSumSet(LAMBDA x : Effect(x, o), Refs) = SumOf(Effects(o), Refs)
<1> DEFINE Fold(H) ==
        H = [s \in SUBSET Refs |->
               IF s = {} THEN 0
               ELSE Effect((CHOOSE x \in s : TRUE), o) + H[s \ {CHOOSE x \in s : TRUE}]]
           iter == CHOOSE H : Fold(H)
<1>1. MapThenSumSet(LAMBDA x : Effect(x, o), Refs) = iter[Refs]
    BY DEF MapThenSumSet, MapThenFoldSet
<1>2. \A s \in SUBSET Refs : s # {} =>
          Effect((CHOOSE x \in s : TRUE), o) = Effects(o)[CHOOSE x \in s : TRUE]
  <2>1. \A s \in SUBSET Refs : s # {} => (CHOOSE x \in s : TRUE) \in Refs
      OBVIOUS
  <2> QED
      BY <2>1, EffectType
<1>3. \A H : Fold(H) <=> IsFold(Effects(o), Refs, H)
    BY <1>2 DEF IsFold
<1>4. PICK G : IsSum(Effects(o), Refs, G) /\ IsFold(Effects(o), Refs, G)
    BY FoldExists, EffectType, FinitelyMany DEF FinitelyMany
<1>5. IsFold(Effects(o), Refs, iter)
  <2> HIDE DEF Fold
  <2>1. \E H : Fold(H)
      BY <1>3, <1>4
  <2>2. Fold(iter)
      BY <2>1
  <2> QED
      BY <1>3, <2>2
<1> HIDE DEF iter, Fold
<1>6. iter = G
    BY <1>4, <1>5, FoldsAgree, FinitelyMany DEF FinitelyMany
<1>7. SumOf(Effects(o), Refs) = G[Refs]
    BY <1>4, SumIs, EffectType, FinitelyMany DEF FinitelyMany
<1> QED
    BY <1>1, <1>6, <1>7

LEMMA PendingAdd ==
    ASSUME TypeOK, NEW o \in Owners
    PROVE  MapThenSumSet(LAMBDA x : Unrecorded(x, o), Admins) = SumOf(Pending(o), Admins)
<1> DEFINE Fold(H) ==
        H = [s \in SUBSET Admins |->
               IF s = {} THEN 0
               ELSE Unrecorded((CHOOSE x \in s : TRUE), o) + H[s \ {CHOOSE x \in s : TRUE}]]
           iter == CHOOSE H : Fold(H)
<1>1. MapThenSumSet(LAMBDA x : Unrecorded(x, o), Admins) = iter[Admins]
    BY DEF MapThenSumSet, MapThenFoldSet
<1>2. \A s \in SUBSET Admins : s # {} =>
          Unrecorded((CHOOSE x \in s : TRUE), o) = Pending(o)[CHOOSE x \in s : TRUE]
  <2>1. \A s \in SUBSET Admins : s # {} => (CHOOSE x \in s : TRUE) \in Admins
      OBVIOUS
  <2> QED
      BY <2>1, EffectType
<1>3. \A H : Fold(H) <=> IsFold(Pending(o), Admins, H)
    BY <1>2 DEF IsFold
<1>4. PICK G : IsSum(Pending(o), Admins, G) /\ IsFold(Pending(o), Admins, G)
    BY FoldExists, EffectType, FinitelyMany DEF FinitelyMany
<1>5. IsFold(Pending(o), Admins, iter)
  <2> HIDE DEF Fold
  <2>1. \E H : Fold(H)
      BY <1>3, <1>4
  <2>2. Fold(iter)
      BY <2>1
  <2> QED
      BY <1>3, <2>2
<1> HIDE DEF iter, Fold
<1>6. iter = G
    BY <1>4, <1>5, FoldsAgree, FinitelyMany DEF FinitelyMany
<1>7. SumOf(Pending(o), Admins) = G[Admins]
    BY <1>4, SumIs, EffectType, FinitelyMany DEF FinitelyMany
<1> QED
    BY <1>1, <1>6, <1>7

\* Every balance is its opening plus what its transactions say plus the correction that
\* is saved and not yet recorded, for any number of handlers, restarts, deadlocks and
\* repeated confirmations, unless a correction overwrote another change of that wallet
\* or was never recorded.
THEOREM BalancesExplained == Spec => []LedgerExplainsBalance
<1>1. TypeOK /\ BalanceInv => LedgerExplainsBalance
  <2> SUFFICES ASSUME TypeOK, BalanceInv, NEW o \in Owners \ torn
               PROVE  balance[o] = OpeningOf(o)
                                   + MapThenSumSet(LAMBDA r : Effect(r, o), Refs)
                                   + MapThenSumSet(LAMBDA m : Unrecorded(m, o), Admins)
      BY DEF LedgerExplainsBalance
  <2>1. MapThenSumSet(LAMBDA r : Effect(r, o), Refs) = SumOf(Effects(o), Refs)
      BY EffectsAdd
  <2>2. MapThenSumSet(LAMBDA m : Unrecorded(m, o), Admins) = SumOf(Pending(o), Admins)
      BY PendingAdd
  <2> QED
      BY <2>1, <2>2 DEF BalanceInv
<1>2. IInv /\ BalanceInv /\ [Next]_vars => BalanceInv'
    BY BalanceStep
<1>3. IInv => TypeOK
    BY DEF IInv
<1> QED
    BY <1>1, <1>2, <1>3, BalanceInit, Invariance, PTL DEF Spec

=============================================================================
