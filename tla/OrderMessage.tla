---------------------------- MODULE OrderMessage ----------------------------
(***************************************************************************)
(* The message of an order in the user's chat, and the tasks that keep it  *)
(* in step with the row of the transaction (core/integrations/platega/     *)
(* tasks.py, webhook_workflow.py, webhook_utils.py; the screens are those  *)
(* of bot/renderers/webhook.py).                                           *)
(*                                                                         *)
(* update_transaction_status_task queues an update_order_message_task for  *)
(* every status it was asked to set, whether it wrote one or not.  Two     *)
(* others write the row and queue nothing: prepare_send_stars_task, whose  *)
(* SENDING looks like the PROCESSING before it, and the administrator's    *)
(* form, which takes no lock and asks no matrix.                           *)
(*                                                                         *)
(* The message's task takes the message lock without waiting, and leaves   *)
(* when it is busy; it reads the status of the row under the lock and      *)
(* edits the message.  A busy database, a RetryAfter, a TimedOut or a      *)
(* NetworkError of Telegram queue the task again; any other error ends it. *)
(*                                                                         *)
(* The lock's 180 s outlive an edit (core/services/tg_bot.py: 10 s to      *)
(* connect, 60 s to write, 15 s to read).  When the worker's container     *)
(* dies, the broker hands the task out again after its visibility timeout  *)
(* of an hour, when its lock has run out.  When only the process that runs *)
(* the task is killed, the task is acknowledged and gone: acks_late is     *)
(* set, task_reject_on_worker_lost is not (Crash in PaymentPipeline).      *)
(***************************************************************************)
EXTENDS Naturals, Sequences, FiniteSets, TransactionStatuses

CONSTANTS
    Task,        \* the update_order_message_tasks of one transaction
    Free, Dead,  \* values of the lock: nobody's, a dead worker's
    News,        \* the statuses update_transaction_status_task is asked to set
    Typed,       \* the statuses an administrator's form is saved with
    MaxForms,    \* bound on forms that change the status
    MaxFaults,   \* bound on errors of the database and of Telegram
    MaxDeaths    \* bound on deaths of workers

ASSUME OrderMessageAssumption ==
    /\ Task \cap {Free, Dead} = {} /\ Free # Dead
    /\ News \subseteq PaymentNews \cup FragmentNews
    /\ Typed \subseteq ALL_STATUSES
    /\ MaxForms \in Nat /\ MaxFaults \in Nat /\ MaxDeaths \in Nat

VARIABLES
    history, \* the statuses the row has had; the last one is its status
    forms,   \* which of them were written by a form
    shown,   \* which of them the message shows
    pc,      \* what each task does, or how it ended
    read,    \* which status it read
    lock,    \* lock_payment_message_polling:{transaction}
    faults, deaths

vars == <<history, forms, shown, pc, read, lock, faults, deaths>>

Holding == {"read", "edit"}
Ended   == {"updated", "duplicate", "gave up", "lost"}
Pc      == {"none", "queued", "dead"} \cup Holding \cup Ended

Now == Len(history)
Row == history[Now]

OrderMessageTypeOK ==
    /\ history \in Seq(StatusString) /\ Now > 0
    /\ forms \subseteq Nat
    /\ shown \in 1..Now
    /\ pc \in [Task -> Pc]
    /\ read \in [Task -> Nat]
    /\ lock \in Task \cup {Free, Dead}
    /\ faults \in Nat /\ deaths \in Nat

\* The handler of the order has shown the payment link of a pending transaction.
Init ==
    /\ history = <<"PENDING">>
    /\ forms = {}
    /\ shown = 1
    /\ pc = [t \in Task |-> "none"]
    /\ read = [t \in Task |-> 0]
    /\ lock = Free
    /\ faults = 0 /\ deaths = 0

\* _MESSAGE_PARTS_REGISTRY: the statuses of an order under way look the same.
Screen(status) ==
    IF status \in {"PROCESSING", "SENDING", "SEND_CREATED"} THEN "processing" ELSE status

-----------------------------------------------------------------------------
(* The writers of the row.  The tasks do it one at a time, under the lock of  *)
(* the transaction (PaymentPipeline), but read the row before they write it, *)
(* and a form may be saved in between.                                       *)

\* The k-th status is what a task that writes now may have read: only forms have
\* written since, and s may follow it.
MayFollow(k, s) ==
    /\ k + 1..Now \subseteq forms
    /\ is_change_status_allowed(history[k], s)

\* Nothing is written when the row was, or is by now, what the task wants.
Write(s) ==
    \E k \in 1..Now :
        /\ MayFollow(k, s)
        /\ history' = IF s \in {history[k], Row} THEN history ELSE Append(history, s)

\* The write takes too long or fails: the status counts as it was.
WriteFails(s) ==
    /\ \E k \in 1..Now : MayFollow(k, s)
    /\ faults < MaxFaults /\ faults' = faults + 1
    /\ UNCHANGED history

\* A slip: nothing is queued for a status of an order under way.
SetStatusUnlessPaid(t, s) ==
    /\ pc[t] = "none"
    /\ (Write(s) /\ UNCHANGED faults) \/ WriteFails(s)
    /\ pc' = [pc EXCEPT ![t] = IF Screen(s) = "processing" THEN "none" ELSE "queued"]
    /\ UNCHANGED <<forms, shown, read, lock, deaths>>

\* update_transaction_status_workflow queues the message's task even when the
\* row had the status already, or could not be written.
SetStatus(t, s) ==
    /\ pc[t] = "none"
    /\ (Write(s) /\ UNCHANGED faults) \/ WriteFails(s)
    /\ pc' = [pc EXCEPT ![t] = "queued"]
    /\ UNCHANGED <<forms, shown, read, lock, deaths>>

\* Its worker dies between the two: the status is gone from its key.
SetStatusAndDie(s) ==
    /\ deaths < MaxDeaths
    /\ Write(s)
    /\ deaths' = deaths + 1
    /\ UNCHANGED <<forms, shown, pc, read, lock, faults>>

\* prepare_send_stars_workflow.
SetSending ==
    /\ Write("SENDING")
    /\ UNCHANGED <<forms, shown, pc, read, lock, faults, deaths>>

SaveForm(s) ==
    /\ s # Row
    /\ Cardinality(forms) < MaxForms
    /\ history' = Append(history, s)
    /\ forms' = forms \cup {Now + 1}
    /\ UNCHANGED <<shown, pc, read, lock, faults, deaths>>

-----------------------------------------------------------------------------
(* update_order_message_task                                                *)

End(t, how) ==
    /\ pc' = [pc EXCEPT ![t] = how]
    /\ lock' = Free

\* A slip: the lock is not asked.
StartUnlocked(t) ==
    /\ pc[t] = "queued"
    /\ lock' = t
    /\ pc' = [pc EXCEPT ![t] = "read"]
    /\ UNCHANGED <<history, forms, shown, read, faults, deaths>>

Start(t) ==
    /\ pc[t] = "queued"
    /\ lock = Free
    /\ lock' = t
    /\ pc' = [pc EXCEPT ![t] = "read"]
    /\ UNCHANGED <<history, forms, shown, read, faults, deaths>>

LeaveAsDuplicate(t) ==
    /\ pc[t] = "queued"
    /\ lock # Free
    /\ pc' = [pc EXCEPT ![t] = "duplicate"]
    /\ UNCHANGED <<history, forms, shown, read, lock, faults, deaths>>

Read(t) ==
    /\ pc[t] = "read"
    /\ read' = [read EXCEPT ![t] = Now]
    /\ pc' = [pc EXCEPT ![t] = "edit"]
    /\ UNCHANGED <<history, forms, shown, lock, faults, deaths>>

\* A busy database queues the task again.  After 900 s, or on another database
\* error, the read returns None, and asking None for its status ends the task.
ReadFails(t) ==
    /\ pc[t] = "read"
    /\ faults < MaxFaults
    /\ faults' = faults + 1
    /\ \E how \in {"queued", "gave up"} : End(t, how)
    /\ UNCHANGED <<history, forms, shown, read, deaths>>

\* A message that already looks this way is a BadRequest, which ends the task too.
Edit(t) ==
    /\ pc[t] = "edit"
    /\ shown' = read[t]
    /\ End(t, "updated")
    /\ UNCHANGED <<history, forms, read, faults, deaths>>

\* RetryAfter, NetworkError or TimedOut; after the last the message may be edited.
EditAgain(t) ==
    /\ pc[t] = "edit"
    /\ faults < MaxFaults
    /\ faults' = faults + 1
    /\ shown' \in {shown, read[t]}
    /\ End(t, "queued")
    /\ UNCHANGED <<history, forms, read, deaths>>

\* The user has blocked the bot, or the 900 s are over.
EditRefused(t) ==
    /\ pc[t] = "edit"
    /\ faults < MaxFaults
    /\ faults' = faults + 1
    /\ End(t, "gave up")
    /\ UNCHANGED <<history, forms, shown, read, deaths>>

\* With its container, or alone.
Dies(t) ==
    /\ pc[t] \in Holding
    /\ deaths < MaxDeaths
    /\ deaths' = deaths + 1
    /\ shown' \in IF pc[t] = "edit" THEN {shown, read[t]} ELSE {shown}
    /\ lock' = Dead
    /\ \E how \in {"dead", "lost"} : pc' = [pc EXCEPT ![t] = how]
    /\ UNCHANGED <<history, forms, read, faults>>

LockRunsOut ==
    /\ lock = Dead
    /\ lock' = Free
    /\ UNCHANGED <<history, forms, shown, pc, read, faults, deaths>>

Redeliver(t) ==
    /\ pc[t] = "dead"
    /\ lock # Dead
    /\ pc' = [pc EXCEPT ![t] = "queued"]
    /\ UNCHANGED <<history, forms, shown, read, lock, faults, deaths>>

-----------------------------------------------------------------------------
TaskRuns(t) ==
    \/ Start(t) \/ LeaveAsDuplicate(t)
    \/ Read(t) \/ ReadFails(t)
    \/ Edit(t) \/ EditAgain(t) \/ EditRefused(t)
    \/ Redeliver(t)

Next ==
    \/ \E s \in News : SetStatusAndDie(s) \/ \E t \in Task : SetStatus(t, s)
    \/ SetSending
    \/ \E s \in Typed : SaveForm(s)
    \/ \E t \in Task : TaskRuns(t) \/ Dies(t)
    \/ LockRunsOut

Spec == Init /\ [][Next]_vars

\* Workers take tasks, the broker hands out again what it was not told is done, Redis
\* lets locks run out.
FairSpec ==
    /\ Spec
    /\ WF_vars(LockRunsOut)
    /\ \A t \in Task : WF_vars(TaskRuns(t))

-----------------------------------------------------------------------------
(* Properties                                                               *)

\* The lock belongs to the task that reads or edits, and what that task is about to
\* show is no older than what the message shows.
OneEditor ==
    /\ \A t \in Task : pc[t] \in Holding => lock = t
    /\ \A t \in Task : pc[t] = "edit" => read[t] \in shown..Now

MessageInv == OrderMessageTypeOK /\ OneEditor

\* However the tasks overlap, retry and are handed out again, the message never goes
\* back to a status the order had left before the one it shows
\* (update_order_message_task reads the row under the lock).
NoOldNews == [][shown' >= shown]_shown

\* A status nobody queues a task for: one of a form, or SENDING written over one (it
\* needs none after PROCESSING, which looks the same).
Unannounced(k) == k \in forms \/ (k - 1 \in forms /\ history[k] = "SENDING")

\* The row has looked the way it does since such a status.
LooksUnannounced ==
    \E k \in 1..Now : Unannounced(k) /\ \A i \in k..Now : Screen(history[i]) = Screen(Row)

\* Nothing is lost silently: a message that stays behind the row at the end is owed
\* to a task that left as a duplicate or gave up, to a worker that died, or to a form,
\* after which nothing is queued (core/admin.py:161-186).  SENDING needs no task of its
\* own (tasks.py:291-302).
BehindForAReason ==
    /\ \A t \in Task : pc[t] \in Ended \cup {"none"}
    /\ Screen(history[shown]) # Screen(Row)
    => \/ \E t \in Task : pc[t] \in {"duplicate", "gave up"}
       \/ deaths > 0
       \/ LooksUnannounced

\* The n-th status, once it was read, is shown in the end, through retries, duplicates and
\* deaths of the container, unless a task gives up (safe_telegram_action_with_retries) or
\* is acknowledged although its process was killed.
WhatIsReadIsShown(n) ==
    (\E t \in Task : pc[t] = "edit" /\ read[t] = n)
        ~> (shown >= n \/ \E t \in Task : pc[t] \in {"gave up", "lost"})

\* What tasks.py:171 says of a task that finds the lock busy: it is a duplicate, so
\* the message ends up showing the order's status without it.
DuplicateCanLeave ==
    /\ \A t \in Task : pc[t] \in {"none", "updated", "duplicate"}
    /\ deaths = 0 /\ forms = {}
    => Screen(history[shown]) = Screen(Row)
=============================================================================
