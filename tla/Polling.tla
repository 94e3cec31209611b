------------------------------ MODULE Polling ------------------------------
(***************************************************************************)
(* The payment pipeline together with what heals it when webhooks are lost:*)
(* the poll of pending PayPear payments (core/tasks/periodic/payments.py), *)
(* the poll of unfinished Fragment orders (fragment_orders.py) and the     *)
(* command an operator runs by hand (sync_fragment_orders).  A poll lists  *)
(* rows, asks the service about one of them, and leaves the answer under   *)
(* the webhook's key: three steps, between which webhooks and tasks go on. *)
(*                                                                         *)
(* A Fragment order can be asked for only by its FragmentTransaction, a    *)
(* record that a task of its own makes (update_fragment_tx_task): it may   *)
(* come late, and it may be lost.                                          *)
(***************************************************************************)
EXTENDS PaymentPipeline

CONSTANTS
    NotListed,  \* a poll that is not at the transaction
    Polls,      \* which of "paypear", "fragment" and "command" are run
    MaxQueue    \* bound on the copies of one task that the polls queue

ASSUME PollingAssumption ==
    /\ Polls \subseteq {"paypear", "fragment", "command"}
    /\ MaxQueue \in Nat

VARIABLES
    payment,    \* PayPear's status of the payment
    recordTask, \* whether an update_fragment_tx_task waits for the order
    record,     \* whether the FragmentTransaction of the order exists
    payPoll,    \* the PayPear poll at the transaction
    fragPoll    \* the Fragment poll, or the command, at the transaction

pollVars == <<payment, recordTask, record, payPoll, fragPoll>>
allVars  == <<vars, pollVars>>

Listed    == "listed"
WaitingStatuses == {"SEND_CREATED", "IN_DOUBT"}
FinalFragmentStatuses == {"COMPLETED", "FAILED"}

\* The Fragment poll at a row: who asks, the status the row was listed with, and
\* what is to be pushed (Listed: fragment-api has not been asked yet).
Inquiry == [by: {"fragment", "command"}, listed: StatusString, push: FragmentNews \cup {Listed}]

PollingTypeOK ==
    /\ TypeOK
    /\ payment \in [Tx -> PayPearStatus]
    /\ recordTask \in [Tx -> BOOLEAN]
    /\ record \in [Tx -> BOOLEAN]
    /\ payPoll \in [Tx -> PaymentNews \cup {NotListed, Listed}]
    /\ fragPoll \in [Tx -> Inquiry \cup {NotListed}]

PollingInit ==
    /\ Init
    /\ payment = [x \in Tx |-> "NEW"]
    /\ recordTask = [x \in Tx |-> FALSE]
    /\ record = [x \in Tx |-> FALSE]
    /\ payPoll = [x \in Tx |-> NotListed]
    /\ fragPoll = [x \in Tx |-> NotListed]

-----------------------------------------------------------------------------
(* The gateway, and the record of the order.                                *)

\* What a payment may turn into; it is paid only once the link has been shown.
PaymentMoves ==
    [NEW       |-> {"CONFIRMED", "EXPIRED"},
     EXPIRED   |-> {"CONFIRMED"},
     CONFIRMED |-> {"REFUNDED"}]

PaymentAdvances(x) ==
    /\ payment[x] \in DOMAIN PaymentMoves
    /\ \E next \in PaymentMoves[payment[x]] :
          /\ next = "EXPIRED" \/ created[x]
          /\ payment' = [payment EXCEPT ![x] = next]
    /\ UNCHANGED <<vars, recordTask, record, payPoll, fragPoll>>

\* PayPear reports the status of the payment, or repeats an earlier one.
PastReports ==
    [NEW |-> {"NEW"}, EXPIRED |-> {"NEW", "EXPIRED"},
     CONFIRMED |-> {"NEW", "CONFIRMED"}, REFUNDED |-> {"CONFIRMED", "REFUNDED"}]

PayPearWebhook(x) ==
    /\ payment[x] \in DOMAIN PastReports
    /\ \E raw \in PastReports[payment[x]] : PaymentWebhook(x, <<"paypear", raw>>)
    /\ UNCHANGED pollVars

\* A webhook of fragment-api, and the answer to the POST, also queue the task that
\* makes the record.
AnnounceOrder(x) ==
    /\ recordTask' = [recordTask EXCEPT ![x] = TRUE]
    /\ UNCHANGED <<payment, record, payPoll, fragPoll>>

FragmentWebhookWithRecord(x) ==
    /\ \E raw \in FragmentStatus : FragmentWebhook(x, raw)
    /\ AnnounceOrder(x)

SaveFragmentStatusWithRecord(w) ==
    /\ SaveFragmentStatus(w)
    /\ \/ pc[w] = "send_accepted" /\ AnnounceOrder(task[w].tx)
       \/ pc[w] = "send_failed" /\ UNCHANGED pollVars

MakeRecord(x) ==
    /\ recordTask[x]
    /\ recordTask' = [recordTask EXCEPT ![x] = FALSE]
    /\ record' = [record EXCEPT ![x] = TRUE]
    /\ UNCHANGED <<vars, payment, payPoll, fragPoll>>

\* The task is acknowledged on receipt: it is gone when its worker dies.
LoseRecordTask(x) ==
    /\ recordTask[x]
    /\ crashes < MaxCrashes
    /\ crashes' = crashes + 1
    /\ recordTask' = [recordTask EXCEPT ![x] = FALSE]
    /\ UNCHANGED <<shop, keys, queue, lock, pc, task, locals, outside, news, faults,
                   retries, payment, record, payPoll, fragPoll>>

-----------------------------------------------------------------------------
(* Common to the polls.                                                     *)

\* The task a poll queues has no payload to recreate a row from.
UpdateTask(x) == [kind |-> "update", tx |-> x, payload |-> FALSE]

LeaveUnder(key, x, status) ==
    /\ key' = [key EXCEPT ![x] = status]
    /\ Enqueue(UpdateTask(x))

\* The marker poll_acted keeps a poll from a row for 30 seconds after it has pushed
\* something; here, the bound on waiting tasks does.
MayList(x) == queue[UpdateTask(x)] < MaxQueue

-----------------------------------------------------------------------------
(* poll_pending_paypear_payments_task.                                      *)

PayPearLists(x) ==
    /\ "paypear" \in Polls
    /\ payPoll[x] = NotListed
    /\ db[x] = "PENDING"
    /\ MayList(x)
    /\ payPoll' = [payPoll EXCEPT ![x] = Listed]
    /\ UNCHANGED <<vars, payment, recordTask, record, fragPoll>>

\* The answer is read; a payment still pending is left alone.
PayPearAnswers(x) ==
    LET status == FromPayPear(payment[x])
    IN  /\ payPoll[x] = Listed
        /\ payPoll' = [payPoll EXCEPT ![x] = IF status = "PENDING" THEN NotListed ELSE status]
        /\ UNCHANGED <<vars, payment, recordTask, record, fragPoll>>

\* The answer goes under the webhook's key, without the lock the webhook takes.
PayPearPushesKeyOnly(x) ==  \* a slip: no task is queued
    /\ payPoll[x] \notin {NotListed, Listed}
    /\ payKey' = [payKey EXCEPT ![x] = payPoll[x]]
    /\ payPoll' = [payPoll EXCEPT ![x] = NotListed]
    /\ UNCHANGED <<shop, fragKey, queue, lock, pc, task, locals, outside, news, crashes,
                   faults, retries, payment, recordTask, record, fragPoll>>
PayPearPushes(x) ==
    /\ payPoll[x] \notin {NotListed, Listed}
    /\ LeaveUnder(payKey, x, payPoll[x])
    /\ payPoll' = [payPoll EXCEPT ![x] = NotListed]
    /\ UNCHANGED <<shop, fragKey, lock, pc, task, locals, outside, news, crashes,
                   faults, retries, payment, recordTask, record, fragPoll>>

-----------------------------------------------------------------------------
(* poll_unfinished_fragment_orders_task and sync_fragment_orders.           *)

Lists(x, who) ==
    /\ who \in Polls
    /\ fragPoll[x] = NotListed
    /\ MayList(x)
    /\ fragPoll' = [fragPoll EXCEPT ![x] = [by |-> who, listed |-> db[x], push |-> Listed]]
    /\ UNCHANGED <<vars, payment, recordTask, record, payPoll>>

FragmentLists(x) == db[x] \in WaitingStatuses /\ Lists(x, "fragment")

\* The operator may name any transaction.
CommandLists(x) == db[x] # Absent /\ Lists(x, "command")

\* What the poll makes of an answer: a final status, IN_DOUBT if the order takes
\* too long, or nothing yet.  How old the order is, is left open.
decide_next_status_completed(raw) ==  \* a slip: a failed order is not final
    IF raw = "COMPLETED" THEN {"SUCCESS"} ELSE {Listed, "IN_DOUBT"}
decide_next_status(raw) ==
    IF raw \in FinalFragmentStatuses THEN {FromFragment(raw)} ELSE {Listed, "IN_DOUBT"}

\* The command translates whatever it is told.
NextStatus(inquiry, raw) ==
    IF inquiry.by = "fragment" THEN decide_next_status(raw) ELSE {FromFragment(raw)}

\* Without a record there is nothing to ask for.  An answer that changes nothing is
\* dropped, and so is one that could not be had.
DropInquiry(x) ==
    /\ fragPoll[x] # NotListed
    /\ fragPoll[x].push = Listed
    /\ \/ ~record[x]
       \/ \E status \in NextStatus(fragPoll[x], order[x]) : status \in {Listed, fragPoll[x].listed}
    /\ fragPoll' = [fragPoll EXCEPT ![x] = NotListed]
    /\ UNCHANGED <<vars, payment, recordTask, record, payPoll>>

FragmentAnswers(x) ==
    /\ fragPoll[x] # NotListed
    /\ fragPoll[x].push = Listed
    /\ record[x]
    /\ \E status \in NextStatus(fragPoll[x], order[x]) \ {Listed, fragPoll[x].listed} :
          fragPoll' = [fragPoll EXCEPT ![x].push = status]
    /\ UNCHANGED <<vars, payment, recordTask, record, payPoll>>

\* push_fragment_status.  The poll takes the webhook's lock first, the command does
\* not; the webhook holds it for one step of its own.
FragmentPushesToRow(x) ==  \* a slip: the row is updated past the pipeline
    /\ fragPoll[x] # NotListed
    /\ fragPoll[x].push # Listed
    /\ db' = [db EXCEPT ![x] = fragPoll[x].push]
    /\ fragPoll' = [fragPoll EXCEPT ![x] = NotListed]
    /\ UNCHANGED <<created, keys, queue, lock, pc, task, locals, outside, news, crashes,
                   faults, retries, payment, recordTask, record, payPoll>>
FragmentPushes(x) ==
    /\ fragPoll[x] # NotListed
    /\ fragPoll[x].push # Listed
    /\ LeaveUnder(fragKey, x, fragPoll[x].push)
    /\ fragPoll' = [fragPoll EXCEPT ![x] = NotListed]
    /\ recordTask' = [recordTask EXCEPT ![x] = TRUE]
    /\ UNCHANGED <<shop, payKey, lock, pc, task, locals, outside, news, crashes, faults,
                   retries, payment, record, payPoll>>

\* PayPear does not answer, or the webhook's lock is taken: this tick skips the row.
PollFails(x) ==
    /\ \/ /\ payPoll[x] = Listed
          /\ payPoll' = [payPoll EXCEPT ![x] = NotListed]
          /\ UNCHANGED fragPoll
       \/ /\ fragPoll[x] # NotListed
          /\ fragPoll' = [fragPoll EXCEPT ![x] = NotListed]
          /\ UNCHANGED payPoll
    /\ faults < MaxFaults
    /\ faults' = faults + 1
    /\ UNCHANGED <<shop, keys, queue, lock, pc, task, locals, outside, news, crashes,
                   retries, payment, recordTask, record>>

-----------------------------------------------------------------------------

\* The rest of the pipeline goes on as before.
PipelineStep ==
    /\ \/ \E x \in Tx : CreateTransaction(x) \/ CleanUpCancelled(x) \/ OrderAdvances(x)
                        \/ LockRunsOut(x)
       \/ \E w \in Worker :
             \/ \E t \in Task : Start(w, t)
             \/ UpdateStep(w) \/ PrepareStep(w) \/ Failure(w)
             \/ \E reply \in Replies : OrderAccepted(w, reply)
             \/ AnswerLost(w) \/ OrderRefused(w) \/ OrderRefusedForNow(w) \/ EnqueueUpdate(w)
    /\ UNCHANGED pollVars

PayPearPoll(x) == PayPearLists(x) \/ PayPearAnswers(x) \/ PayPearPushes(x)
FragmentPoll(x) == FragmentLists(x) \/ DropInquiry(x) \/ FragmentAnswers(x) \/ FragmentPushes(x)

PollingNext ==
    \/ PipelineStep
    \/ \E w \in Worker : SaveFragmentStatusWithRecord(w)
    \/ \E x \in Tx :
          \/ PaymentAdvances(x) \/ PayPearWebhook(x) \/ FragmentWebhookWithRecord(x)
          \/ MakeRecord(x) \/ LoseRecordTask(x)
          \/ PayPearPoll(x) \/ FragmentPoll(x) \/ CommandLists(x) \/ PollFails(x)

PollingSpec == PollingInit /\ [][PollingNext]_allVars

\* As in the pipeline; and celery-beat starts both polls again and again, a service
\* that is asked answers unless PollFails, and the record's task is run.
PollingFairness ==
    /\ \A w \in Worker : WF_allVars(SaveFragmentStatusWithRecord(w))
    /\ \A w \in Worker : WF_allVars(/\ UpdateStep(w) \/ PrepareStep(w) \/ SendStep(w)
                                    /\ PollingNext)
    /\ \A t \in Task : WF_allVars((\E w \in Worker : Start(w, t)) /\ UNCHANGED pollVars)
    /\ \A x \in Tx :
          /\ WF_allVars(LockRunsOut(x) /\ UNCHANGED pollVars)
          /\ WF_allVars(MakeRecord(x))
          /\ WF_allVars(PayPearPoll(x))
          /\ WF_allVars(FragmentPoll(x))

FairPollingSpec == PollingSpec /\ PollingFairness

-----------------------------------------------------------------------------
(* Properties.                                                              *)

\* Polls that push statuses past the webhooks keep what the pipeline relies on: its
\* inductive invariant holds next to them, whoever pushes and whenever.
PollingInv == PollingTypeOK /\ IInv

\* Whatever webhooks are lost, and although a worker dies with a status it has taken
\* from a key, a payment that PayPear knows to be made gets its row out of PENDING.
PaidIsNoticed ==
    \A x \in Tx : payment[x] = "CONFIRMED" /\ db[x] = "PENDING" ~> db[x] # "PENDING"

\* So does an order that fragment-api has closed get its row out of waiting, if it
\* has left a record.
ClosedOrderIsNoticed ==
    \A x \in Tx :
        order[x] \in FinalFragmentStatuses /\ record[x] /\ db[x] \in WaitingStatuses
            ~> db[x] \notin WaitingStatuses

\* "There is no order at Fragment ... the stars were not sent": a listed row without
\* a record has no order.
NoRecordNoOrder ==
    \A x \in Tx :
        /\ fragPoll[x] # NotListed
        /\ fragPoll[x].listed \in WaitingStatuses
        /\ ~record[x]
        => orders[x] = 0

\* "The same lock the webhook takes - not to diverge from it if it has come after
\* all": the poll never puts its doubt over an end that a webhook has reported.
PollAgreesWithWebhook ==
    [][\A x \in Tx :
          /\ fragPoll[x] # NotListed
          /\ fragPoll'[x] = NotListed
          /\ fragKey[x] \in {"SUCCESS", "FAILED"}
          => fragKey'[x] = fragKey[x]]_allVars

=============================================================================
