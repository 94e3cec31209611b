----------------------------- MODULE PromoCode -----------------------------
(***************************************************************************)
(* A promo code with limits, the users who enter it and the orders made    *)
(* with it (bot/handlers/promo_code.py, order.py and back.py, bot/         *)
(* middlewares/payment_method.py, core/tasks/periodic/promo_codes.py,      *)
(* core/services and core/repositories of users and transactions).         *)
(*                                                                         *)
(* A user enters the code under a lock that all users share: the uses are  *)
(* counted from the transactions that carry the code and from the users    *)
(* who have it active, and the code becomes the user's active one.  The    *)
(* discount is in the prices of the payment keyboard; the price that was   *)
(* tapped is the price of the order.  The order reads the active code      *)
(* again and carries it; when its link is shown the code is cleared.  The  *)
(* nightly task clears the codes that were entered a day ago.              *)
(*                                                                         *)
(* Every await is a point where another user's handler or the task may     *)
(* run.  The lock's 180 s outlive an entry.                                *)
(***************************************************************************)
EXTENDS Naturals, FiniteSets

CONSTANTS
    User,
    Order,         \* orders that may be created
    NoOrder, Free,
    AccountLimit,  \* usage_account
    GlobalLimit,   \* usage_global
    Deactivates,   \* TRUE if the nightly task is in play
    MaxFaults,     \* bound on handlers that fail midway
    MaxLate        \* bound on orders that are paid after they were cancelled

ASSUME PromoCodeAssumption ==
    /\ IsFiniteSet(User) /\ IsFiniteSet(Order) /\ Free \notin User
    /\ AccountLimit \in Nat /\ GlobalLimit \in Nat
    /\ Deactivates \in BOOLEAN
    /\ MaxFaults \in Nat /\ MaxLate \in Nat

Prices == {"full", "discounted"}

VARIABLES
    active,  \* users whose active_promo is the code
    used,    \* users whose draft says a code was used (is_used_promo_code)
    at,      \* the state of each user's conversation
    keys,    \* the prices on the user's payment keyboard
    price,   \* the price of the user's draft
    pc,      \* what the user's handler does
    got,     \* what it has counted or read: uses by orders, or the active code
    lock,    \* lock_promo_input_processing
    order,   \* the transactions: who ordered, with the code or not, counted or not
    faults, late

vars == <<active, used, at, keys, price, pc, got, lock, order, faults, late>>

At == {"CHOOSE_PAYMENT", "ENTER_PROMO", "ORDER_CONFIRMATION", "ORDER_CONFIRMED"}
Pc == {"idle", "count orders", "count users", "save", "create", "message", "clear"}
Transaction == [by: User, promo: BOOLEAN, price: Prices, counts: BOOLEAN]

PromoCodeTypeOK ==
    /\ active \subseteq User /\ used \subseteq User
    /\ at \in [User -> At]
    /\ keys \in [User -> Prices] /\ price \in [User -> Prices]
    /\ pc \in [User -> Pc]
    /\ got \in [User -> Nat]
    /\ lock \in User \cup {Free}
    /\ order \in [Order -> Transaction \cup {NoOrder}]
    /\ faults \in Nat /\ late \in Nat

Init ==
    /\ active = {} /\ used = {}
    /\ at = [u \in User |-> "CHOOSE_PAYMENT"]
    /\ keys = [u \in User |-> "full"] /\ price = [u \in User |-> "full"]
    /\ pc = [u \in User |-> "idle"]
    /\ got = [u \in User |-> 0]
    /\ lock = Free
    /\ order = [o \in Order |-> NoOrder]
    /\ faults = 0 /\ late = 0

\* get_processing_or_succeeded_transactions: a cancelled, failed or charged-back
\* transaction does not count.
Uses(u) == {o \in Order : order[o] # NoOrder /\ order[o].promo /\ order[o].counts
                            /\ order[o].by = u}
AllUses == UNION {Uses(u) : u \in User}

PriceFor(u) == IF u \in active THEN "discounted" ELSE "full"

-----------------------------------------------------------------------------
(* The conversation.                                                         *)

Go(u, where) == at' = [at EXCEPT ![u] = where]

\* A slip: the keyboard that is there is kept.
ShowOldKeyboard(u) ==
    /\ pc[u] = "idle"
    /\ Go(u, "CHOOSE_PAYMENT")
    /\ UNCHANGED <<active, used, keys, price, pc, got, lock, order, faults, late>>

\* handle_destination_choose_payment and its like render the prices anew;
\* /start and a repeated order clear the draft on the way there.
ShowPaymentMethods(u) ==
    /\ pc[u] = "idle"
    /\ Go(u, "CHOOSE_PAYMENT")
    /\ keys' = [keys EXCEPT ![u] = PriceFor(u)]
    /\ used' \in {used, used \ {u}}
    /\ UNCHANGED <<active, price, pc, got, lock, order, faults, late>>

AskForPromo(u) ==
    /\ pc[u] = "idle" /\ at[u] = "CHOOSE_PAYMENT"
    /\ Go(u, "ENTER_PROMO")
    /\ UNCHANGED <<active, used, keys, price, pc, got, lock, order, faults, late>>

CancelPromo(u) ==
    /\ pc[u] = "idle" /\ at[u] = "ENTER_PROMO"
    /\ active' = active \ {u} /\ used' = used \ {u}
    /\ UNCHANGED <<at, keys, price, pc, got, lock, order, faults, late>>

ChoosePaymentMethod(u) ==
    /\ pc[u] = "idle" /\ at[u] = "CHOOSE_PAYMENT"
    /\ price' = [price EXCEPT ![u] = keys[u]]
    /\ used' = IF u \in active THEN used ELSE used \ {u}
    /\ Go(u, "ORDER_CONFIRMATION")
    /\ UNCHANGED <<active, keys, pc, got, lock, order, faults, late>>

-----------------------------------------------------------------------------
(* Entering the code: handle_enter_promo.                                    *)

\* A slip: the lock is not asked.
EnterUnlocked(u) ==
    /\ pc[u] = "idle" /\ at[u] = "ENTER_PROMO"
    /\ lock' = u
    /\ pc' = [pc EXCEPT ![u] = "count orders"]
    /\ UNCHANGED <<active, used, at, keys, price, got, order, faults, late>>

\* The user waits up to 30 s for the lock, and is told to wait if it stays busy:
\* that leaves everything as it is.
Enter(u) ==
    /\ pc[u] = "idle" /\ at[u] = "ENTER_PROMO"
    /\ lock = Free
    /\ lock' = u
    /\ pc' = [pc EXCEPT ![u] = "count orders"]
    /\ UNCHANGED <<active, used, at, keys, price, got, order, faults, late>>

Leave(u) ==
    /\ pc' = [pc EXCEPT ![u] = "idle"]
    /\ lock' = IF lock = u THEN Free ELSE lock
    /\ got' = [got EXCEPT ![u] = 0]

Refuse(u) == Leave(u) /\ UNCHANGED <<active, used, at, keys, price, order, faults, late>>

CountOrders(u) ==
    /\ pc[u] = "count orders"
    /\ IF Cardinality(Uses(u)) >= AccountLimit
         THEN Refuse(u)
         ELSE /\ got' = [got EXCEPT ![u] = Cardinality(AllUses)]
              /\ pc' = [pc EXCEPT ![u] = "count users"]
              /\ UNCHANGED <<active, used, at, keys, price, lock, order, faults, late>>

CountUsers(u) ==
    /\ pc[u] = "count users"
    /\ IF got[u] + Cardinality(active) >= GlobalLimit
         THEN Refuse(u)
         ELSE /\ pc' = [pc EXCEPT ![u] = "save"]
              /\ UNCHANGED <<active, used, at, keys, price, got, lock, order, faults, late>>

Activate(u) ==
    /\ pc[u] = "save"
    /\ active' = active \cup {u}
    /\ used' = used \cup {u}
    /\ Leave(u)
    /\ UNCHANGED <<at, keys, price, order, faults, late>>

-----------------------------------------------------------------------------
(* Creating the order: handle_order_confirmed (OrderCreation has its detail). *)

\* got keeps whether the order carries the code.
Confirm(u) ==
    /\ pc[u] = "idle" /\ at[u] = "ORDER_CONFIRMATION"
    /\ u \in active \/ u \notin used
    /\ got' = [got EXCEPT ![u] = IF u \in active THEN 1 ELSE 0]
    /\ pc' = [pc EXCEPT ![u] = "create"]
    /\ UNCHANGED <<active, used, at, keys, price, lock, order, faults, late>>

CreateOrder(u, o) ==
    /\ pc[u] = "create" /\ order[o] = NoOrder
    /\ order' = [order EXCEPT ![o] = [by |-> u, promo |-> got[u] = 1,
                                      price |-> price[u], counts |-> TRUE]]
    /\ pc' = [pc EXCEPT ![u] = "message"]
    /\ UNCHANGED <<active, used, at, keys, price, got, lock, faults, late>>

ShowLink(u) ==
    /\ pc[u] = "message"
    /\ pc' = [pc EXCEPT ![u] = "clear"]
    /\ UNCHANGED <<active, used, at, keys, price, got, lock, order, faults, late>>

ClearNothing(u) ==  \* a slip: the code stays active
    /\ pc[u] = "clear"
    /\ Leave(u)
    /\ Go(u, "ORDER_CONFIRMED")
    /\ UNCHANGED <<active, used, keys, price, order, faults, late>>

ClearPromo(u) ==
    /\ pc[u] = "clear"
    /\ active' = active \ {u}
    /\ Leave(u)
    /\ Go(u, "ORDER_CONFIRMED")
    /\ UNCHANGED <<used, keys, price, order, faults, late>>

\* An exception ends the handler: the conversation stays where it was, the lock is
\* released on the way out.
HandlerFails(u) ==
    /\ pc[u] # "idle"
    /\ faults < MaxFaults
    /\ faults' = faults + 1
    /\ Leave(u)
    /\ UNCHANGED <<active, used, at, keys, price, order, late>>

-----------------------------------------------------------------------------
(* The rest of the system.                                                   *)

\* deactivate_unused_promo_codes_task: some codes were entered a day ago.
Deactivate ==
    /\ Deactivates
    /\ active' \in SUBSET active \ {active}
    /\ UNCHANGED <<used, at, keys, price, pc, got, lock, order, faults, late>>

\* The order is cancelled, fails or is charged back.
StopCounting(o) ==
    /\ order[o] # NoOrder /\ order[o].counts
    /\ order' = [order EXCEPT ![o].counts = FALSE]
    /\ UNCHANGED <<active, used, at, keys, price, pc, got, lock, faults, late>>

\* A cancelled order turns out to be sent (STATUS_TRANSITION_MATRIX).
CountAgain(o) ==
    /\ order[o] # NoOrder /\ ~order[o].counts
    /\ late < MaxLate
    /\ late' = late + 1
    /\ order' = [order EXCEPT ![o].counts = TRUE]
    /\ UNCHANGED <<active, used, at, keys, price, pc, got, lock, faults>>

-----------------------------------------------------------------------------
Handler(u) ==
    \/ CountOrders(u) \/ CountUsers(u) \/ Activate(u)
    \/ (\E o \in Order : CreateOrder(u, o)) \/ ShowLink(u) \/ ClearPromo(u)

Taps(u) ==
    \/ ShowPaymentMethods(u) \/ AskForPromo(u) \/ CancelPromo(u)
    \/ ChoosePaymentMethod(u) \/ Enter(u) \/ Confirm(u)

Next ==
    \/ \E u \in User : Taps(u) \/ Handler(u) \/ HandlerFails(u)
    \/ Deactivate
    \/ \E o \in Order : StopCounting(o) \/ CountAgain(o)

Spec == Init /\ [][Next]_vars

-----------------------------------------------------------------------------
(* Properties                                                                *)

\* One entry is counted at a time, and what it counted of the users still holds
\* when it activates the code.
EntriesExclude ==
    \A u \in User :
        /\ pc[u] \in {"count orders", "count users", "save"} => lock = u
        /\ pc[u] = "save" => Cardinality(active) < GlobalLimit

\* The discount is where the code is: on the keyboard and in the draft of a user who has
\* it active, and in the draft of an order that is to carry it.
DiscountFollows ==
    \A u \in User :
        /\ pc[u] \in {"count orders", "count users", "save"} => at[u] = "ENTER_PROMO"
        /\ u \in active /\ at[u] = "CHOOSE_PAYMENT" => keys[u] = "discounted"
        /\ u \in active /\ at[u] = "ORDER_CONFIRMATION" => price[u] = "discounted"
        /\ pc[u] = "create" /\ got[u] = 1 => price[u] = "discounted"

PromoCodeInv == PromoCodeTypeOK /\ EntriesExclude /\ DiscountFollows

\* Users who enter the last use of a code at the same time do not all get it: no more
\* users have it active than it may be used (handle_enter_promo's shared lock).
HoldersWithinLimit == Cardinality(active) <= GlobalLimit

\* An order that carries the code, and so uses it up, got the discount: the prices on
\* the keyboard keep step with the active code.
UsedCodeGaveDiscount ==
    \A o \in Order : order[o] # NoOrder /\ order[o].promo => order[o].price = "discounted"

\* What every step keeps.
IInv == PromoCodeInv /\ HoldersWithinLimit /\ UsedCodeGaveDiscount

\* models.py:39, "На аккаунт": a user's orders that count stay within usage_account.
AccountLimitKept == \A u \in User : Cardinality(Uses(u)) <= AccountLimit

\* models.py:40, "Всего": all users' orders that count stay within usage_global.
GlobalLimitKept == Cardinality(AllUses) <= GlobalLimit

\* order.py:381-386 and the keyboard's text: a code that was cancelled for its age is
\* gone, so an order with the discount carries the code that gave it.
DiscountIsAccounted ==
    \A o \in Order : order[o] # NoOrder /\ order[o].price = "discounted" => order[o].promo
=============================================================================
