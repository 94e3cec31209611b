--------------------------- MODULE OrderCreation ---------------------------
(***************************************************************************)
(* The button "create the order" under an order's message, step by step:   *)
(* _create_order_once and _handle_order_confirmed_helper (bot/handlers/    *)
(* order.py), PaymentService.create_payment with the clients of the two    *)
(* gateways, TransactionService, and the screens of bot/renderers/order.py *)
(* that edit the message.  CreateTransaction of PaymentPipeline is this    *)
(* handler as the workers see it.                                          *)
(*                                                                         *)
(* A tap takes the user's lock, answers the query, opens a payment at the  *)
(* gateway, saves the transaction, edits the message and shows the link.   *)
(* Each step may fail, and some failures leave the button where it is: the *)
(* user taps again and the next payment belongs to the same message.       *)
(* While a handler runs the conversation is WAITING and answers other taps *)
(* itself (bot/router.py), so there is one handler at a time; its calls    *)
(* time out well before the lock's 180 s.                                  *)
(*                                                                         *)
(* The lock is given back in a finally, and is left to its 180 s in three  *)
(* ways: a restart drops the handler and the conversation; the query's     *)
(* answer fails, which comes after the lock and before the try; or Redis   *)
(* fails while the lock is taken or given back.                            *)
(*                                                                         *)
(* Meanwhile the gateway reports payments that were paid or ran out: the   *)
(* row takes the status, or is made again from the payload that came back, *)
(* and the message named in it is edited (PaymentPipeline, OrderMessage).  *)
(***************************************************************************)
EXTENDS Naturals, FiniteSets

CONSTANTS
    Payment,     \* payments the gateway may open
    NoPayment,
    MaxTaps, MaxFaults, MaxRestarts,
    MaxStrays    \* bound on locks left behind by a bot that runs on

OrderCreationAssumption ==
    /\ IsFiniteSet(Payment) /\ NoPayment \notin Payment
    /\ MaxTaps \in Nat /\ MaxFaults \in Nat /\ MaxRestarts \in Nat
    /\ MaxStrays \in Nat

VARIABLES
    pc,      \* the handler
    cur,     \* its payment
    trouble, \* what went wrong with the call to the gateway
    lock,    \* lock_order_confirm:{user}: free, the handler's, left behind
    state,   \* the state of the conversation
    msg,     \* what the message shows, and of which payment
    told,    \* what the user was told last, apart from the message
    gate,    \* the payments at the gateway
    row,     \* the transactions
    due,     \* transactions whose update_order_message_task is queued
    seen,    \* payments whose link was shown
    old,     \* payments of the messages of earlier orders
    strays,  \* how many locks were left behind by a bot that runs on
    taps, faults, restarts

vars == <<pc, cur, trouble, lock, state, msg, told, gate, row, due, seen, old,
          strays, taps, faults, restarts>>
limits == <<taps, faults, restarts>>

Pc == {"idle", "answer", "check", "pay", "row", "insert", "creating", "save", "link", "failed",
       "clear"}
Troubles == {"none", "not connected", "no answer", "refused"}
Screens == {"confirmation", "creating", "link", "failed", "no link", "gone", "paid", "closed"}
Gate == {"none", "open", "paid", "closed"}

OrderCreationTypeOK ==
    /\ pc \in Pc
    /\ cur \in Payment \cup {NoPayment}
    /\ trouble \in Troubles
    /\ lock \in {"free", "held", "left"}
    /\ state \in {"ORDER_CONFIRMATION", "ORDER_CONFIRMED", "lost"}
    /\ msg \in [what: Screens, of: Payment \cup {NoPayment}]
    /\ told \in {"nothing", "alert", "gateway trouble", "error"}
    /\ gate \in [Payment -> Gate]
    /\ row \in [Payment -> Gate]
    /\ due \subseteq Payment /\ seen \subseteq Payment /\ old \subseteq Payment
    /\ strays \in Nat /\ taps \in Nat /\ faults \in Nat /\ restarts \in Nat

Init ==
    /\ pc = "idle" /\ cur = NoPayment /\ trouble = "none"
    /\ lock = "free"
    /\ state = "ORDER_CONFIRMATION"
    /\ msg = [what |-> "confirmation", of |-> NoPayment]
    /\ told = "nothing"
    /\ gate = [p \in Payment |-> "none"]
    /\ row = [p \in Payment |-> "none"]
    /\ due = {} /\ seen = {} /\ old = {}
    /\ strays = 0 /\ taps = 0 /\ faults = 0 /\ restarts = 0

\* The screens with the button, and whether a message can still be edited.
HasButton == msg.what \in {"confirmation", "failed"}
Show(what, p) ==
    msg' = IF msg.what = "gone" THEN msg ELSE [what |-> what, of |-> p]

Fault == faults < MaxFaults /\ faults' = faults + 1 /\ UNCHANGED <<taps, restarts>>

-----------------------------------------------------------------------------
(* The end of the handler.                                                   *)

FreeLock == lock' = "free" /\ UNCHANGED strays

\* The lock stays until its 180 s are over.
LeaveLock ==
    /\ strays < MaxStrays
    /\ strays' = strays + 1
    /\ lock' = "left"

EndKeepingLock(next, says) ==  \* a slip: it is released after a success only
    /\ pc' = "idle" /\ cur' = NoPayment /\ trouble' = "none"
    /\ IF next = "ORDER_CONFIRMED" THEN FreeLock ELSE UNCHANGED <<lock, strays>>
    /\ state' = next /\ told' = says

\* The lock is released whatever happened; a release that fails is logged.
End(next, says) ==
    /\ pc' = "idle" /\ cur' = NoPayment /\ trouble' = "none"
    /\ FreeLock \/ LeaveLock
    /\ state' = next /\ told' = says

\* The conversation stays, the user is told in an alert.
Stay(says) == End("ORDER_CONFIRMATION", says)

\* An exception: PTB keeps the state, error_handler sends a message.
Raise == End("ORDER_CONFIRMATION", "error")

Step(next) == pc' = next /\ UNCHANGED <<lock, strays, state, told>>

-----------------------------------------------------------------------------
Press ==
    /\ pc = "idle" /\ state = "ORDER_CONFIRMATION" /\ HasButton
    /\ taps < MaxTaps
    /\ taps' = taps + 1

Tap ==
    /\ Press
    /\ IF lock = "free"
         THEN lock' = "held" /\ pc' = "answer" /\ UNCHANGED told
         ELSE told' = "alert" /\ UNCHANGED <<lock, pc>>
    /\ UNCHANGED <<cur, trouble, state, msg, gate, row, due, old, seen, strays, faults, restarts>>

\* Redis fails, perhaps after it gave the lock, or the alert cannot be sent.
TapFails ==
    /\ Press
    /\ faults < MaxFaults /\ faults' = faults + 1
    /\ told' = "error"
    /\ UNCHANGED <<lock, strays>> \/ (lock = "free" /\ LeaveLock)
    /\ UNCHANGED <<pc, cur, trouble, state, msg, gate, row, due, old, seen, restarts>>

\* The query is answered before the try: when Telegram refuses (it expired) or does not
\* answer, the exception goes past the release.
Answer ==
    /\ pc = "answer"
    /\ \/ Step("check") /\ UNCHANGED limits
       \/ /\ Fault
          /\ LeaveLock
          /\ pc' = "idle" /\ state' = "ORDER_CONFIRMATION" /\ told' = "error"
    /\ UNCHANGED <<cur, trouble, msg, gate, row, due, old, seen>>

\* No username, not enough on the balance of Fragment, a promo code that ran out:
\* an alert or an error.  The maintenance mode deletes the message as well.
Checks ==
    /\ pc = "check"
    /\ UNCHANGED <<gate, row, due, old, seen>>
    /\ \/ Step("pay") /\ UNCHANGED <<cur, trouble, msg, limits>>
       \/ Fault /\ (Stay("alert") \/ Raise) /\ UNCHANGED msg
       \/ Fault /\ Raise /\ Show("gone", NoPayment)

-----------------------------------------------------------------------------
(* create_payment: the user's row is read before the gateway is called, so   *)
(* that a busy database repeats nothing but the reading.                     *)

\* What the clients make of an error of httpx (_make_request of both).
ClientRaises(t) == IF t = "not connected" THEN "APINetworkError" ELSE "APIError"

\* What the handler catches of it (order.py:404).
Caught(error) == error \in {"ConnectTimeout", "ReadTimeout"}

Open(p) ==
    /\ gate[p] = "none"
    /\ gate' = [gate EXCEPT ![p] = "open"]
    /\ cur' = p

PaymentOpens ==
    /\ pc = "pay" /\ trouble = "none"
    /\ \E p \in Payment : Open(p)
    /\ Step("row")
    /\ UNCHANGED <<trouble, msg, row, due, old, seen, limits>>

\* The gateway opened a payment and gave no link.
NoLink ==
    /\ pc = "pay" /\ trouble = "none"
    /\ \E p \in Payment : gate[p] = "none" /\ gate' = [gate EXCEPT ![p] = "open"]
    /\ Fault
    /\ Stay("nothing")
    /\ Show("no link", NoPayment)
    /\ UNCHANGED <<row, due, old, seen>>

CallFailsRepeated ==  \* a slip: the call is repeated
    /\ pc = "pay" /\ trouble = "none"
    /\ Fault
    /\ \E p \in Payment :
          gate[p] = "none" /\ gate' = [gate EXCEPT ![p] = "open"] /\ trouble' = "none"
    /\ UNCHANGED <<pc, cur, lock, strays, state, msg, told, row, due, old, seen>>

\* After "no answer" the gateway may have opened the payment.
CallFails ==
    /\ pc = "pay" /\ trouble = "none"
    /\ Fault
    /\ \E t \in Troubles \ {"none"} :
          /\ trouble' = t
          /\ \/ UNCHANGED gate
             \/ /\ t = "no answer"
                /\ \E p \in Payment : gate[p] = "none" /\ gate' = [gate EXCEPT ![p] = "open"]
    /\ UNCHANGED <<pc, cur, lock, strays, state, msg, told, row, due, old, seen>>

ReportTrouble ==
    /\ pc = "pay" /\ trouble # "none"
    /\ IF Caught(ClientRaises(trouble)) THEN Stay("gateway trouble") ELSE Raise
    /\ UNCHANGED <<msg, gate, row, due, old, seen, limits>>

-----------------------------------------------------------------------------
(* create_transaction, save_message_id and the message.                      *)

\* TransactionService.create_transaction keeps a row that is there.
FindRow ==
    /\ pc = "row"
    /\ Step(IF row[cur] = "none" THEN "insert" ELSE "creating")
    /\ UNCHANGED <<cur, trouble, msg, gate, row, due, old, seen, limits>>

InsertRow ==
    /\ pc = "insert"
    /\ IF row[cur] = "none"
         THEN /\ row' = [row EXCEPT ![cur] = "open"]
              /\ Step("creating") /\ UNCHANGED <<cur, trouble>>
         ELSE Raise /\ UNCHANGED row   \* IntegrityError
    /\ UNCHANGED <<msg, gate, due, old, seen, limits>>

RowFails ==
    /\ pc \in {"row", "insert"}
    /\ Fault
    /\ Raise
    /\ UNCHANGED <<msg, gate, row, due, old, seen>>

ShowCreating ==
    /\ pc = "creating"
    /\ IF msg.what = "gone"
         THEN Raise
         ELSE Step("save") /\ UNCHANGED <<cur, trouble>>
    /\ Show("creating", NoPayment)
    /\ UNCHANGED <<gate, row, due, old, seen, limits>>

\* save_message_id: FALSE when the row is not there; an error counts as FALSE.
SaveMessage ==
    /\ pc = "save"
    /\ \/ row[cur] # "none" /\ Step("link") /\ UNCHANGED limits
       \/ row[cur] = "none" /\ Step("failed") /\ UNCHANGED limits
       \/ Step("failed") /\ Fault
    /\ UNCHANGED <<cur, trouble, msg, gate, row, due, old, seen>>

ShowFailed ==
    /\ pc = "failed"
    /\ Stay("nothing")
    /\ Show("failed", NoPayment)
    /\ UNCHANGED <<gate, row, due, old, seen, limits>>

ShowLink ==
    /\ pc = "link"
    /\ IF msg.what = "gone"
         THEN Raise /\ UNCHANGED seen
         ELSE Step("clear") /\ seen' = seen \cup {cur} /\ UNCHANGED <<cur, trouble>>
    /\ Show("link", cur)
    /\ UNCHANGED <<gate, row, due, old, limits>>

\* An edit that times out twice may be done or not.
EditFails ==
    /\ pc \in {"creating", "link", "failed"}
    /\ Fault
    /\ Raise
    /\ \/ UNCHANGED <<msg, seen>>
       \/ /\ pc \in {"creating", "failed"} /\ Show(pc, NoPayment) /\ UNCHANGED seen
       \/ /\ pc = "link" /\ msg.what # "gone"
          /\ Show("link", cur) /\ seen' = seen \cup {cur}
    /\ UNCHANGED <<gate, row, due, old>>

\* The promo code is cleared, which may fail; the administrator is notified.
ClearPromo ==
    /\ pc = "clear"
    /\ \/ End("ORDER_CONFIRMED", "nothing") /\ UNCHANGED limits
       \/ Fault /\ Raise
    /\ UNCHANGED <<msg, gate, row, due, old, seen>>

-----------------------------------------------------------------------------
(* Around the handler.                                                       *)

Restart ==
    /\ restarts < MaxRestarts
    /\ restarts' = restarts + 1
    /\ pc' = "idle" /\ cur' = NoPayment /\ trouble' = "none"
    /\ lock' = IF lock = "held" THEN "left" ELSE lock
    /\ state' = "lost"
    /\ UNCHANGED <<msg, told, gate, row, due, old, seen, strays, taps, faults>>

\* Another order, with a message of its own: the messages before it keep their
\* payments.
NextOrder ==
    /\ pc = "idle" /\ (state \in {"lost", "ORDER_CONFIRMED"} \/ msg.what = "gone")
    /\ taps < MaxTaps
    /\ state' = "ORDER_CONFIRMATION"
    /\ msg' = [what |-> "confirmation", of |-> NoPayment]
    /\ old' = {p \in Payment : gate[p] # "none"}
    /\ told' = "nothing"
    /\ UNCHANGED <<pc, cur, trouble, lock, strays, gate, row, due, seen, limits>>

LockRunsOut ==
    /\ lock = "left"
    /\ lock' = "free"
    /\ UNCHANGED <<pc, cur, trouble, strays, state, msg, told, gate, row, due, old, seen, limits>>

UserDeletesMessage ==
    /\ faults < MaxFaults /\ faults' = faults + 1
    /\ msg' = [what |-> "gone", of |-> NoPayment]
    /\ UNCHANGED <<pc, cur, trouble, lock, strays, state, told, gate, row, due, old, seen, taps,
                   restarts>>

\* Only who saw the link can pay; an unpaid payment runs out after half an hour.
GatewayMoves(p) ==
    /\ gate[p] = "open"
    /\ \E s \in {"closed"} \cup (IF p \in seen THEN {"paid"} ELSE {}) :
          gate' = [gate EXCEPT ![p] = s]
    /\ UNCHANGED <<pc, cur, trouble, lock, strays, state, msg, told, row, due, old, seen, limits>>

\* The webhook and update_transaction_status_task; a row that is missing is made
\* from the payload, which names the message.
Report(p) ==
    /\ gate[p] \in {"paid", "closed"} /\ row[p] # gate[p]
    /\ row' = [row EXCEPT ![p] = gate[p]]
    /\ due' = due \cup {p}
    /\ UNCHANGED <<pc, cur, trouble, lock, strays, state, msg, told, gate, old, seen, limits>>

ShowStatus(p) ==
    /\ p \in due
    /\ due' = due \ {p}
    /\ IF p \in old THEN UNCHANGED msg ELSE Show(row[p], p)
    /\ UNCHANGED <<pc, cur, trouble, lock, strays, state, told, gate, row, old, seen, limits>>

-----------------------------------------------------------------------------
Handler ==
    \/ Answer \/ Checks
    \/ PaymentOpens \/ NoLink \/ CallFails \/ ReportTrouble
    \/ FindRow \/ InsertRow \/ RowFails
    \/ ShowCreating \/ SaveMessage \/ ShowFailed \/ ShowLink \/ EditFails
    \/ ClearPromo

Next ==
    \/ Tap \/ TapFails \/ Handler
    \/ Restart \/ NextOrder \/ LockRunsOut \/ UserDeletesMessage
    \/ \E p \in Payment : GatewayMoves(p) \/ Report(p) \/ ShowStatus(p)

Spec == Init /\ [][Next]_vars

\* The calls of a handler end by their timeouts; Redis lets a lock run out; the
\* workers take the tasks of reported payments.
FairSpec ==
    /\ Spec
    /\ WF_vars(Handler) /\ WF_vars(LockRunsOut)
    /\ \A p \in Payment : WF_vars(Report(p)) /\ WF_vars(ShowStatus(p))

-----------------------------------------------------------------------------
(* Properties                                                                *)

\* The lock is held by a running handler and by nobody else.  It is left to its 180 s
\* only by a restart, or by an answer or a call of Redis that failed (order.py:490-507):
\* no error of the checks, the gateway, the row or the message keeps it.
LockFollowsHandler ==
    /\ lock = "held" <=> pc # "idle"
    /\ lock = "left" => restarts + strays > 0

OrderCreationInv == OrderCreationTypeOK /\ LockFollowsHandler

\* Nobody can pay what the shop does not know: when a link is shown, and from then on,
\* the transaction of its payment is saved (order.py:418-446).  What the nightly clean-up
\* does with cancelled rows is PaymentPipeline's matter.
LinkHasRow == \A p \in seen : row[p] # "none"

\* A tap opens at most one payment, whatever is repeated after an error
\* (db_action_with_tenacity around create_payment).
OnePaymentPerTap == Cardinality({p \in Payment : gate[p] # "none"}) <= taps

\* A confirmed order is one whose link was shown.
ConfirmedOrderWasShown == [][state' = "ORDER_CONFIRMED" => cur \in seen]_state

\* Whatever fails, the handler ends and its lock is free again: at once, or by its 180 s.
TapEnds == pc # "idle" ~> lock = "free"

\* order.py:59, ORDER_CONFIRM_BUSY_MESSAGE: who is told that the order is being created
\* already has a handler at work on it.
BusyMeansCreating == [][taps' > taps /\ told' = "alert" => lock = "held"]_vars

\* create_payment, services/payment.py:108: the message is the one of the payment
\* whose link was made for it.  Once the message shows a payment, it never shows
\* another one's status.
MessageKeepsItsOrder ==
    [][msg.what = "link" /\ msg'.what \in {"paid", "closed"} => msg'.of = msg.of]_msg

\* order.py:404-409: a network trouble of the gateway leaves the user with the alert
\* that says so.
Unreachable == trouble \in {"not connected", "no answer"}
GatewayTroubleIsTold ==
    [][Unreachable /\ pc = "pay" /\ state' = state => told' = "gateway trouble"]_pc
=============================================================================
