------------------------- MODULE PaymentSettlement -------------------------
(***************************************************************************)
(* What the payment service promises its callers, without requests,        *)
(* sessions, attempts, locks or threads: an order is settled in one step   *)
(* together with its account, only while both may be sold, and a settled   *)
(* order is announced at most once.  PaymentFlow implements it.            *)
(***************************************************************************)
CONSTANTS Orders, Accounts, OrderAccount

VARIABLES
    status,     \* orders.status
    stock,      \* accounts.status
    announced   \* orders whose payment the gateway was told of

vars == <<status, stock, announced>>

Init ==
    /\ status = [o \in Orders |-> "PendingPay"]
    /\ stock \in [Accounts -> {"OnSale", "Trading"}]
    /\ announced = {}

Settle(o) ==
    /\ status[o] = "PendingPay"
    /\ stock[OrderAccount[o]] \in {"OnSale", "Trading"}
    /\ status' = [status EXCEPT ![o] = "Paid"]
    /\ stock' = [stock EXCEPT ![OrderAccount[o]] = "Sold"]
    /\ UNCHANGED announced

Announce(o) ==
    /\ status[o] = "Paid"
    /\ o \notin announced
    /\ announced' = announced \cup {o}
    /\ UNCHANGED <<status, stock>>

Withdraw(o) ==
    /\ status[o] = "PendingPay"
    /\ \E st \in {"Cancelled", "Expired"} : status' = [status EXCEPT ![o] = st]
    /\ UNCHANGED <<stock, announced>>

Relist(a) ==
    /\ stock[a] # "Sold"
    /\ \E st \in {"OnSale", "Trading", "Removed"} : stock' = [stock EXCEPT ![a] = st]
    /\ UNCHANGED <<status, announced>>

Next ==
    \/ \E o \in Orders : Settle(o) \/ Announce(o) \/ Withdraw(o)
    \/ \E a \in Accounts : Relist(a)

Spec == Init /\ [][Next]_vars
=============================================================================
