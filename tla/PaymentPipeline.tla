-------------------------- MODULE PaymentPipeline --------------------------
(***************************************************************************)
(* The path of a paid transaction through the Celery workers, from the     *)
(* gateway's webhook to the order at fragment-api:                         *)
(*                                                                         *)
(*   webhook -> update_transaction_status_task -> prepare_send_stars_task  *)
(*           -> send_stars_task -> POST to fragment-api -> webhook -> ...  *)
(*                                                                         *)
(* (core/views.py, core/integrations/platega/tasks.py and webhook_utils.py,*)
(* core/services/redis_service.py, core/repositories/transaction.py).      *)
(* A webhook leaves the new status under a key of Redis and queues a task; *)
(* the task takes the status from the key (GETDEL), reads the row of the   *)
(* transaction, checks the move against the matrix and writes it.  The     *)
(* three tasks of one transaction exclude each other by a Redis lock with  *)
(* a time to live.  Workers die, the database may be busy or fail, Fragment*)
(* may refuse an order or lose its answer, and Fragment and the gateways   *)
(* report late, twice and out of order.                                    *)
(*                                                                         *)
(* The tasks that only inform (update_order_message_task,                  *)
(* update_transaction_payload_task, update_fragment_tx_task) change neither*)
(* the row's status nor the order: their queueing is left out here.        *)
(***************************************************************************)
EXTENDS Naturals, TransactionStatuses

CONSTANTS
    Tx,              \* transactions
    Worker,          \* worker processes of celery_worker
    Nobody, Crashed, \* values of a lock: free; held by a process that died
    NoTask,          \* the task of an idle worker
    PaymentReports,  \* <<gateway, raw status>>: what the gateways report
    Replies,         \* raw statuses fragment-api answers an accepted order with
    LockOutlivesCall,\* TRUE if the calls to fragment-api end within the lock's TTL
    MaxNews,         \* bound on webhooks per transaction
    MaxCrashes,      \* bound on worker deaths
    MaxFaults,       \* bound on database errors
    MaxRetries       \* bound on retries of send_stars_task (max_retries=100)

ASSUME ConstantsAssumption ==
    /\ {Nobody, Crashed} \cap Worker = {} /\ Nobody # Crashed
    /\ LockOutlivesCall \in BOOLEAN
    /\ Replies \subseteq FragmentStatus
    /\ MaxNews \in Nat /\ MaxCrashes \in Nat /\ MaxFaults \in Nat /\ MaxRetries \in Nat

Absent == "absent"   \* no row with this id
NoKey  == "no key"   \* the Redis key does not exist
NoOrder == "no order"

Task == [kind: {"update", "prepare", "send"}, tx: Tx, payload: BOOLEAN]

VARIABLES
    db,       \* status of the transaction's row
    created,  \* whether the bot's order handler has saved the transaction
    payKey,   \* latest_status:{platega|paypear}:{tx}
    fragKey,  \* latest_status:fragment:{tx}
    queue,    \* the broker: how many copies of a task wait
    lock,     \* lock_payment:{tx}
    pc, task, \* what a worker does, and the task it does it for
    pay, frag,\* the statuses it took from the keys
    seen,     \* the status of the row it read
    orders,   \* fragment-api: orders accepted for the transaction
    order,    \* fragment-api: the state of the latest of them
    news, crashes, faults, retries  \* how much of each bound is used

shop    == <<db, created>>
keys    == <<payKey, fragKey>>
locals  == <<pay, frag, seen>>
outside == <<orders, order>>
vars == <<db, created, payKey, fragKey, queue, lock, pc, task, pay, frag, seen,
          orders, order, news, crashes, faults, retries>>

Idle      == "idle"
UpdatePc  == {"consume_fragment", "read", "recreate", "insert", "write", "publish"}
PreparePc == {"prepare_write", "prepare_publish"}
SendPc    == {"send_call", "send_failed", "send_accepted", "send_enqueue"}

TypeOK ==
    /\ db \in [Tx -> StatusString \cup {Absent}]
    /\ created \in [Tx -> BOOLEAN]
    /\ payKey \in [Tx -> PaymentNews \cup {NoKey}]
    /\ fragKey \in [Tx -> FragmentNews \cup {NoKey}]
    /\ queue \in [Task -> Nat]
    /\ lock \in [Tx -> Worker \cup {Nobody, Crashed}]
    /\ pc \in [Worker -> {Idle} \cup UpdatePc \cup PreparePc \cup SendPc]
    /\ task \in [Worker -> Task \cup {NoTask}]
    /\ \A w \in Worker : pc[w] # Idle => task[w] \in Task
    /\ pay \in [Worker -> PaymentNews \cup {NoKey}]
    /\ frag \in [Worker -> FragmentNews \cup {NoKey}]
    /\ seen \in [Worker -> StatusString \cup {Absent}]
    /\ orders \in [Tx -> Nat]
    /\ order \in [Tx -> FragmentStatus \cup {NoOrder}]
    /\ news \in [Tx -> Nat]
    /\ crashes \in Nat /\ faults \in Nat /\ retries \in Nat

Init ==
    /\ db = [x \in Tx |-> Absent]
    /\ created = [x \in Tx |-> FALSE]
    /\ payKey = [x \in Tx |-> NoKey]
    /\ fragKey = [x \in Tx |-> NoKey]
    /\ queue = [t \in Task |-> 0]
    /\ lock = [x \in Tx |-> Nobody]
    /\ pc = [w \in Worker |-> Idle]
    /\ task = [w \in Worker |-> NoTask]
    /\ pay = [w \in Worker |-> NoKey]
    /\ frag = [w \in Worker |-> NoKey]
    /\ seen = [w \in Worker |-> Absent]
    /\ orders = [x \in Tx |-> 0]
    /\ order = [x \in Tx |-> NoOrder]
    /\ news = [x \in Tx |-> 0]
    /\ crashes = 0 /\ faults = 0 /\ retries = 0

-----------------------------------------------------------------------------
(* The bot, the housekeeping and the senders of webhooks.                   *)

\* _handle_order_confirmed_helper saves the transaction once the gateway has
\* issued the payment link; TransactionService.create_transaction keeps a row
\* that a webhook has made meanwhile.  (OrderCreation splits this step.)
CreateTransaction(x) ==
    /\ ~created[x]
    /\ created' = [created EXCEPT ![x] = TRUE]
    /\ db' = IF db[x] = Absent THEN [db EXCEPT ![x] = "PENDING"] ELSE db
    /\ UNCHANGED <<keys, queue, lock, pc, task, locals, outside,
                   news, crashes, faults, retries>>

\* The nightly clean-up deletes rows that were cancelled two weeks ago; the
\* order's handler is long over by then.
CleanUpCancelled(x) ==
    /\ created[x]
    /\ db[x] = "CANCELLED"
    /\ db' = [db EXCEPT ![x] = Absent]
    /\ UNCHANGED <<created, keys, queue, lock, pc, task, locals, outside,
                   news, crashes, faults, retries>>

Translate(report) ==
    IF report[1] = "platega" THEN FromPlatega(report[2]) ELSE FromPayPear(report[2])

\* _process_webhook for a gateway: the last status to arrive overwrites the key.
\* A transaction has one gateway, so one key stands for the gateways' two.  Nobody
\* pays before the bot has saved the transaction and shown the payment link, but a
\* link that was issued may be reported pending, or run out.
PaymentWebhook(x, report) ==
    /\ news[x] < MaxNews
    /\ created[x] \/ Translate(report) \in {"PENDING", "CANCELLED", Unrecognised}
    /\ news' = [news EXCEPT ![x] = @ + 1]
    /\ payKey' = [payKey EXCEPT ![x] = Translate(report)]
    /\ queue' = [queue EXCEPT ![[kind |-> "update", tx |-> x, payload |-> TRUE]] = @ + 1]
    /\ UNCHANGED <<shop, fragKey, lock, pc, task, locals, outside,
                   crashes, faults, retries>>

\* The statuses an order has shown so far: a webhook may carry any of them, since
\* webhooks are retried and overtake each other.
Reported ==
    [CREATED         |-> {"CREATED"},
     PENDING         |-> {"CREATED", "PENDING"},
     BLOCKCHAIN_SENT |-> {"CREATED", "PENDING", "BLOCKCHAIN_SENT"},
     COMPLETED       |-> {"CREATED", "PENDING", "BLOCKCHAIN_SENT", "COMPLETED"},
     FAILED          |-> {"CREATED", "PENDING", "BLOCKCHAIN_SENT", "FAILED"}]

\* _process_webhook for fragment-api; its webhook has no payload to recreate the
\* row from.
FragmentWebhook(x, raw) ==
    /\ news[x] < MaxNews
    /\ order[x] # NoOrder
    /\ raw \in Reported[order[x]]
    /\ news' = [news EXCEPT ![x] = @ + 1]
    /\ fragKey' = [fragKey EXCEPT ![x] = FromFragment(raw)]
    /\ queue' = [queue EXCEPT ![[kind |-> "update", tx |-> x, payload |-> FALSE]] = @ + 1]
    /\ UNCHANGED <<shop, payKey, lock, pc, task, locals, outside,
                   crashes, faults, retries>>

\* fragment-api works on the order.
OrderAdvances(x) ==
    /\ \E next \in {"BLOCKCHAIN_SENT", "COMPLETED", "FAILED"} :
          /\ \/ order[x] \in {"CREATED", "PENDING"}
             \/ order[x] = "BLOCKCHAIN_SENT" /\ next # "BLOCKCHAIN_SENT"
          /\ order' = [order EXCEPT ![x] = next]
    /\ UNCHANGED <<shop, keys, queue, lock, pc, task, locals, orders,
                   news, crashes, faults, retries>>

-----------------------------------------------------------------------------
(* Common parts of the workers' steps.                                      *)

\* A task starts when a worker is free and its transaction's lock can be had; with
\* the lock taken it is queued again (sync_get_lock_or_retry), which changes
\* nothing here.
TakeUnlocked(w, t) ==  \* a slip: the task does not wait for the lock
    /\ pc[w] = Idle
    /\ queue[t] > 0
    /\ queue' = [queue EXCEPT ![t] = @ - 1]
Take(w, t) ==
    /\ pc[w] = Idle
    /\ lock[t.tx] = Nobody
    /\ queue[t] > 0
    /\ queue' = [queue EXCEPT ![t] = @ - 1]

\* The task goes on in worker w, under its lock.
Hold(w, t, next) ==
    /\ lock' = [lock EXCEPT ![t.tx] = w]
    /\ task' = [task EXCEPT ![w] = t]
    /\ pc' = [pc EXCEPT ![w] = next]

Enqueue(t) == queue' = [queue EXCEPT ![t] = @ + 1]

\* The worker is free again.  A lock whose time to live has run out belongs to
\* somebody else: releasing it raises an error and changes nothing.
DoneWithAnyLock(w) ==  \* a slip: the lock is deleted, whoever holds it
    /\ lock' = [lock EXCEPT ![task[w].tx] = Nobody]
    /\ pc' = [pc EXCEPT ![w] = Idle]
    /\ task' = [task EXCEPT ![w] = NoTask]
    /\ pay' = [pay EXCEPT ![w] = NoKey]
    /\ frag' = [frag EXCEPT ![w] = NoKey]
    /\ seen' = [seen EXCEPT ![w] = Absent]
Done(w) ==
    /\ lock' = IF lock[task[w].tx] = w
                THEN [lock EXCEPT ![task[w].tx] = Nobody] ELSE lock
    /\ pc' = [pc EXCEPT ![w] = Idle]
    /\ task' = [task EXCEPT ![w] = NoTask]
    /\ pay' = [pay EXCEPT ![w] = NoKey]
    /\ frag' = [frag EXCEPT ![w] = NoKey]
    /\ seen' = [seen EXCEPT ![w] = Absent]

Goto(w, next) == /\ pc' = [pc EXCEPT ![w] = next]
                 /\ UNCHANGED <<lock, task>>

DatabaseFault == faults < MaxFaults /\ faults' = faults + 1

-----------------------------------------------------------------------------
(* update_transaction_status_task.                                          *)

\* The status to apply, of the two taken: Fragment's, unless the payment was
\* charged back.
NewStatus(w) ==
    IF pay[w] # NoKey /\ (frag[w] = NoKey \/ pay[w] = "CHARGEBACKED")
    THEN pay[w] ELSE frag[w]

\* The finally clause: a status that was not applied goes back under its key,
\* unless a newer one has arrived there.
KeepStatus(w) ==
    LET x == task[w].tx
    IN  /\ payKey' = IF payKey[x] = NoKey /\ NewStatus(w) = pay[w]
                      THEN [payKey EXCEPT ![x] = pay[w]] ELSE payKey
        /\ fragKey' = IF fragKey[x] = NoKey /\ NewStatus(w) = frag[w]
                       THEN [fragKey EXCEPT ![x] = frag[w]] ELSE fragKey

\* The lock is taken and the payment key emptied.
StartUpdateWithGet(w, t) ==  \* a slip: GET instead of GETDEL
    /\ t.kind = "update"
    /\ Take(w, t)
    /\ Hold(w, t, "consume_fragment")
    /\ pay' = [pay EXCEPT ![w] = payKey[t.tx]]
    /\ UNCHANGED <<shop, keys, frag, seen, outside, news, crashes, faults, retries>>
StartUpdate(w, t) ==
    /\ t.kind = "update"
    /\ Take(w, t)
    /\ Hold(w, t, "consume_fragment")
    /\ pay' = [pay EXCEPT ![w] = payKey[t.tx]]
    /\ payKey' = [payKey EXCEPT ![t.tx] = NoKey]
    /\ UNCHANGED <<shop, fragKey, frag, seen, outside, news, crashes, faults, retries>>

\* The Fragment key is emptied; with nothing under either key there is nothing to
\* do ("was already processed").
ConsumeFragment(w) ==
    LET x == task[w].tx
    IN  /\ pc[w] = "consume_fragment"
        /\ fragKey' = [fragKey EXCEPT ![x] = NoKey]
        /\ \/ /\ pay[w] = NoKey /\ fragKey[x] = NoKey
              /\ Done(w)
           \/ /\ pay[w] # NoKey \/ fragKey[x] # NoKey
              /\ frag' = [frag EXCEPT ![w] = fragKey[x]]
              /\ Goto(w, "read")
              /\ UNCHANGED <<pay, seen>>
        /\ UNCHANGED <<shop, payKey, queue, outside, news, crashes, faults, retries>>

\* The matrix decides whether the move goes on; a refused one is only noted in
\* the payload.
Decide(w, status) ==
    \/ /\ is_change_status_allowed(status, NewStatus(w))
       /\ seen' = [seen EXCEPT ![w] = status]
       /\ Goto(w, "write")
       /\ UNCHANGED <<pay, frag>>
    \/ /\ ~is_change_status_allowed(status, NewStatus(w))
       /\ Done(w)

ReadRow(w) ==
    /\ pc[w] = "read"
    /\ db[task[w].tx] # Absent
    /\ Decide(w, db[task[w].tx])
    /\ UNCHANGED <<shop, keys, queue, outside, news, crashes, faults, retries>>

\* No row, or a database error that is read as one; with a payload the row is
\* made anew.
FindNoRow(w) ==
    /\ pc[w] = "read"
    /\ \/ db[task[w].tx] = Absent /\ UNCHANGED faults
       \/ DatabaseFault
    /\ \/ /\ task[w].payload
          /\ Goto(w, "recreate")
          /\ UNCHANGED <<keys, locals>>
       \/ /\ ~task[w].payload
          /\ KeepStatus(w)
          /\ Done(w)
    /\ UNCHANGED <<shop, queue, outside, news, crashes, retries>>

\* create_transaction looks for the row once more ...
Recreate(w) ==
    /\ pc[w] = "recreate"
    /\ \/ db[task[w].tx] # Absent /\ Decide(w, db[task[w].tx])
       \/ db[task[w].tx] = Absent /\ Goto(w, "insert") /\ UNCHANGED locals
    /\ UNCHANGED <<shop, keys, queue, outside, news, crashes, faults, retries>>

\* ... and inserts it with the new status ...
InsertRow(w) ==
    LET x == task[w].tx
    IN  /\ pc[w] = "insert"
        /\ db[x] = Absent
        /\ db' = [db EXCEPT ![x] = NewStatus(w)]
        /\ Decide(w, NewStatus(w))
        /\ UNCHANGED <<created, keys, queue, outside, news, crashes, faults, retries>>

\* ... unless the bot was faster (IntegrityError), or the insertion fails for good.
InsertFails(w) ==
    /\ pc[w] = "insert"
    /\ \/ db[task[w].tx] # Absent /\ UNCHANGED faults
       \/ DatabaseFault
    /\ KeepStatus(w)
    /\ Done(w)
    /\ UNCHANGED <<shop, queue, outside, news, crashes, retries>>

\* safe_set_status_for_transaction_obj_with_retries: nothing to write if the row
\* had the status already; else UPDATE by primary key.
WriteRow(w) ==
    LET x == task[w].tx
    IN  /\ pc[w] = "write"
        /\ \/ seen[w] = NewStatus(w) /\ UNCHANGED db
           \/ /\ seen[w] # NewStatus(w)
              /\ db[x] # Absent
              /\ db' = [db EXCEPT ![x] = NewStatus(w)]
        /\ Goto(w, "publish")
        /\ UNCHANGED <<created, keys, queue, locals, outside, news, crashes, faults, retries>>

\* The write fails for good or has run out of time: the task goes on regardless.
WriteIsLost(w) ==
    /\ pc[w] = "write"
    /\ seen[w] # NewStatus(w)
    /\ DatabaseFault
    /\ Goto(w, "publish")
    /\ UNCHANGED <<shop, keys, queue, locals, outside, news, crashes, retries>>

\* The row was deleted meanwhile: the UPDATE affects no row, which raises.
WriteFindsNoRow(w) ==
    /\ pc[w] = "write"
    /\ seen[w] # NewStatus(w)
    /\ db[task[w].tx] = Absent
    /\ KeepStatus(w)
    /\ Done(w)
    /\ UNCHANGED <<shop, queue, outside, news, crashes, faults, retries>>

\* The database is busy: the task is queued again and the status put back.
RetryUpdate(w) ==
    /\ \/ pc[w] \in {"read", "recreate", "insert"}
       \/ pc[w] = "write" /\ seen[w] # NewStatus(w)
    /\ DatabaseFault
    /\ Enqueue(task[w])
    /\ KeepStatus(w)
    /\ Done(w)
    /\ UNCHANGED <<shop, outside, news, crashes, retries>>

\* A paid transaction goes on to prepare_send_stars_task.
PublishUpdateIfChanged(w) ==  \* a slip: only a changed row goes on
    /\ pc[w] = "publish"
    /\ IF NewStatus(w) = "PROCESSING" /\ seen[w] # "PROCESSING"
       THEN Enqueue([task[w] EXCEPT !.kind = "prepare"])
       ELSE UNCHANGED queue
    /\ Done(w)
    /\ UNCHANGED <<shop, keys, outside, news, crashes, faults, retries>>
PublishUpdate(w) ==
    /\ pc[w] = "publish"
    /\ IF NewStatus(w) = "PROCESSING"
       THEN Enqueue([task[w] EXCEPT !.kind = "prepare"])
       ELSE UNCHANGED queue
    /\ Done(w)
    /\ UNCHANGED <<shop, keys, outside, news, crashes, faults, retries>>

-----------------------------------------------------------------------------
(* prepare_send_stars_task.                                                 *)

\* The row is read under the lock; a missing row, or one that may not move to
\* SENDING, ends the task.
StartPrepare(w, t) ==
    /\ t.kind = "prepare"
    /\ Take(w, t)
    /\ \/ /\ db[t.tx] # Absent
          /\ is_change_status_allowed(db[t.tx], "SENDING")
          /\ Hold(w, t, "prepare_write")
       \/ /\ db[t.tx] = Absent \/ ~is_change_status_allowed(db[t.tx], "SENDING")
          /\ UNCHANGED <<lock, pc, task>>
    /\ UNCHANGED <<shop, keys, locals, outside, news, crashes, faults, retries>>

\* UPDATE ... WHERE id = x AND NOT status = SENDING: the point of no return.  Only
\* who changed the row goes on to queue the sending.
PrepareWrite(w) ==
    LET x == task[w].tx
    IN  /\ pc[w] = "prepare_write"
        /\ \/ /\ db[x] \notin {Absent, "SENDING"}
              /\ db' = [db EXCEPT ![x] = "SENDING"]
              /\ Goto(w, "prepare_publish")
              /\ UNCHANGED locals
           \/ /\ db[x] \in {Absent, "SENDING"}
              /\ Done(w)
              /\ UNCHANGED db
        /\ UNCHANGED <<created, keys, queue, outside, news, crashes, faults, retries>>

\* The database is busy (the task is queued again) or fails for good (the task ends).
PrepareWriteFails(w) ==
    /\ pc[w] = "prepare_write"
    /\ DatabaseFault
    /\ Enqueue(task[w]) \/ UNCHANGED queue
    /\ Done(w)
    /\ UNCHANGED <<shop, keys, outside, news, crashes, retries>>

PreparePublish(w) ==
    /\ pc[w] = "prepare_publish"
    /\ Enqueue([task[w] EXCEPT !.kind = "send"])
    /\ Done(w)
    /\ UNCHANGED <<shop, keys, outside, news, crashes, faults, retries>>

\* prepare_send_stars_task and send_stars_task end when the row cannot be read.
ReadFails(w, t) ==
    /\ t.kind \in {"prepare", "send"}
    /\ Take(w, t)
    /\ DatabaseFault
    /\ UNCHANGED <<shop, keys, lock, pc, task, locals, outside, news, crashes, retries>>

-----------------------------------------------------------------------------
(* send_stars_task.                                                         *)

StartSend(w, t) ==
    /\ t.kind = "send"
    /\ Take(w, t)
    /\ \/ db[t.tx] = "SENDING" /\ Hold(w, t, "send_call")
       \/ db[t.tx] # "SENDING" /\ UNCHANGED <<lock, pc, task>>
    /\ UNCHANGED <<shop, keys, locals, outside, news, crashes, faults, retries>>

\* fragment-api accepts the order and the worker gets its answer.
OrderAccepted(w, reply) ==
    LET x == task[w].tx
    IN  /\ pc[w] = "send_call"
        /\ orders' = [orders EXCEPT ![x] = @ + 1]
        /\ order' = [order EXCEPT ![x] = reply]
        /\ frag' = [frag EXCEPT ![w] = FromFragment(reply)]
        /\ Goto(w, "send_accepted")
        /\ UNCHANGED <<shop, keys, queue, pay, seen, news, crashes, faults, retries>>

\* The answer times out after fragment-api has accepted the order: to the worker,
\* an error like any other.
AnswerLost(w) ==
    LET x == task[w].tx
    IN  /\ pc[w] = "send_call"
        /\ orders' = [orders EXCEPT ![x] = @ + 1]
        /\ order' = [order EXCEPT ![x] = "CREATED"]
        /\ frag' = [frag EXCEPT ![w] = "FAILED"]
        /\ Goto(w, "send_failed")
        /\ UNCHANGED <<shop, keys, queue, pay, seen, news, crashes, faults, retries>>

\* The order is not placed: an error of the checks before the POST, a refusal, or
\* the task's own time limit.
OrderRefused(w) ==
    /\ pc[w] = "send_call"
    /\ frag' = [frag EXCEPT ![w] = "FAILED"]
    /\ Goto(w, "send_failed")
    /\ UNCHANGED <<shop, keys, queue, pay, seen, outside, news, crashes, faults, retries>>

\* The order is not placed for a passing reason (no connection, 429, low balance):
\* retry() queues the task again and raises Retry, which the workflow's
\* "except Exception" takes for a failed sending.
OrderRefusedForNow(w) ==
    /\ pc[w] = "send_call"
    /\ retries < MaxRetries
    /\ retries' = retries + 1
    /\ Enqueue(task[w])
    /\ frag' = [frag EXCEPT ![w] = "FAILED"]
    /\ Goto(w, "send_failed")
    /\ UNCHANGED <<shop, keys, pay, seen, outside, news, crashes, faults>>

\* A failure overwrites the Fragment key; an answer gives way to news that is
\* there already (SET ... NX).
SaveFragmentStatus(w) ==
    LET x == task[w].tx
    IN  /\ pc[w] \in {"send_failed", "send_accepted"}
        /\ fragKey' = IF pc[w] = "send_failed" \/ fragKey[x] = NoKey
                       THEN [fragKey EXCEPT ![x] = frag[w]] ELSE fragKey
        /\ Goto(w, "send_enqueue")
        /\ UNCHANGED <<shop, payKey, queue, locals, outside, news, crashes, faults, retries>>

EnqueueUpdateIfAccepted(w) ==  \* a slip: the except branch queues nothing
    /\ pc[w] = "send_enqueue"
    /\ IF frag[w] # "FAILED"
       THEN Enqueue([task[w] EXCEPT !.kind = "update"]) ELSE UNCHANGED queue
    /\ Done(w)
    /\ UNCHANGED <<shop, keys, outside, news, crashes, faults, retries>>
EnqueueUpdate(w) ==
    /\ pc[w] = "send_enqueue"
    /\ Enqueue([task[w] EXCEPT !.kind = "update"])
    /\ Done(w)
    /\ UNCHANGED <<shop, keys, outside, news, crashes, faults, retries>>

-----------------------------------------------------------------------------
(* Deaths of workers, and the lock's time to live.                          *)

\* The kinds of tasks acknowledged only when they end (acks_late=True).
AcksLateSendToo == {"update", "prepare", "send"}
AcksLate == {"update", "prepare"}

\* A worker dies.  With its container a task acknowledged late is delivered again,
\* once its visibility timeout has passed; if only the process is killed, or the
\* task was acknowledged on receipt, the task is gone.
Crash(w) ==
    LET x == task[w].tx
    IN  /\ pc[w] # Idle
        /\ crashes < MaxCrashes
        /\ crashes' = crashes + 1
        /\ \/ task[w].kind \in AcksLate /\ Enqueue(task[w])
           \/ UNCHANGED queue
        /\ lock' = IF lock[x] = w THEN [lock EXCEPT ![x] = Crashed] ELSE lock
        /\ pc' = [pc EXCEPT ![w] = Idle]
        /\ task' = [task EXCEPT ![w] = NoTask]
        /\ pay' = [pay EXCEPT ![w] = NoKey]
        /\ frag' = [frag EXCEPT ![w] = NoKey]
        /\ seen' = [seen EXCEPT ![w] = Absent]
        /\ UNCHANGED <<shop, keys, outside, news, faults, retries>>

\* The lock of a dead worker runs out after its 180 seconds.
LockRunsOut(x) ==
    /\ lock[x] = Crashed
    /\ lock' = [lock EXCEPT ![x] = Nobody]
    /\ UNCHANGED <<shop, keys, queue, pc, task, locals, outside,
                   news, crashes, faults, retries>>

\* So does the lock of a worker whose four calls to fragment-api, of up to 45
\* seconds per phase each, take longer.
LockRunsOutInCall(w) ==
    /\ ~LockOutlivesCall
    /\ pc[w] = "send_call"
    /\ lock[task[w].tx] = w
    /\ lock' = [lock EXCEPT ![task[w].tx] = Nobody]
    /\ UNCHANGED <<shop, keys, queue, pc, task, locals, outside,
                   news, crashes, faults, retries>>

-----------------------------------------------------------------------------

Start(w, t) == StartUpdate(w, t) \/ StartPrepare(w, t) \/ StartSend(w, t)

UpdateStep(w) ==
    \/ ConsumeFragment(w) \/ ReadRow(w) \/ FindNoRow(w) \/ Recreate(w)
    \/ InsertRow(w) \/ InsertFails(w)
    \/ WriteRow(w) \/ WriteFindsNoRow(w) \/ PublishUpdate(w)

PrepareStep(w) == PrepareWrite(w) \/ PreparePublish(w)

SendStep(w) ==
    \/ \E reply \in Replies : OrderAccepted(w, reply)
    \/ AnswerLost(w) \/ OrderRefused(w) \/ OrderRefusedForNow(w)
    \/ SaveFragmentStatus(w) \/ EnqueueUpdate(w)

Failure(w) ==
    \/ WriteIsLost(w) \/ RetryUpdate(w) \/ PrepareWriteFails(w)
    \/ \E t \in Task : ReadFails(w, t)
    \/ Crash(w) \/ LockRunsOutInCall(w)

Environment(x) ==
    \/ CreateTransaction(x) \/ CleanUpCancelled(x)
    \/ \E report \in PaymentReports : PaymentWebhook(x, report)
    \/ \E raw \in FragmentStatus : FragmentWebhook(x, raw)
    \/ OrderAdvances(x) \/ LockRunsOut(x)

Next ==
    \/ \E x \in Tx : Environment(x)
    \/ \E w \in Worker :
          \/ \E t \in Task : Start(w, t)
          \/ UpdateStep(w) \/ PrepareStep(w) \/ SendStep(w) \/ Failure(w)

Spec == Init /\ [][Next]_vars

\* Workers keep running and take every task they can; the TTL runs.  Nothing is
\* assumed of the gateways, of fragment-api or of the bot.
Fairness ==
    /\ \A w \in Worker : WF_vars(UpdateStep(w) \/ PrepareStep(w) \/ SendStep(w))
    /\ \A t \in Task : WF_vars(\E w \in Worker : Start(w, t))
    /\ \A x \in Tx : WF_vars(LockRunsOut(x))

FairSpec == Spec /\ Fairness

-----------------------------------------------------------------------------
(* Properties.                                                              *)

\* fragment-api accepts at most one order per transaction, whatever is delivered
\* twice, retried, crashes or is answered too late ("the point of no return" of
\* prepare_send_stars_workflow): the customer is not sent the stars twice.
AtMostOneOrder == \A x \in Tx : orders[x] <= 1

\* Stars are ordered only for a row that has passed the point of no return: no
\* order stands beside a row that is gone, unpaid or cancelled.
OrderHasCommittedRow ==
    \A x \in Tx : orders[x] > 0 => db[x] \in PastPointOfNoReturn

\* Every change of a row's status is a move of the matrix, its creation or its
\* deletion: no task writes over a status that another has written since it read
\* the row.
StatusMoves ==
    \A x \in Tx : \/ db'[x] = db[x]
                  \/ db[x] = Absent \/ db'[x] = Absent
                  \/ is_change_status_allowed(db[x], db'[x])
StatusFollowsMatrix == [][StatusMoves]_vars

\* A transaction passes the point of no return once and never comes back, not
\* even by being deleted and made anew by a late webhook.
PastIsPast ==
    \A x \in Tx : db[x] \in PastPointOfNoReturn =>
                    /\ db'[x] \in PastPointOfNoReturn
                    /\ db'[x] = "SENDING" => db[x] = "SENDING"
NoWayBack == [][PastIsPast]_vars

\* An order is placed only while its row is SENDING: a charge-back that has reached
\* the row stops the sending.  Needs the lock to outlive the calls.
OrderedWhileSending ==
    [][\A x \in Tx : orders'[x] # orders[x] => db[x] = "SENDING"]_vars

\* A paid row leaves PROCESSING, and a row in SENDING leaves it, while no worker
\* dies and the database answers.
ProcessingEnds == \A x \in Tx : db[x] = "PROCESSING" ~> db[x] # "PROCESSING"
SendingEnds == \A x \in Tx : db[x] = "SENDING" ~> db[x] # "SENDING"

\* A payment or a refund that a gateway has reported does not stay under its key for
\* good, although tasks and statuses are not paired: one task may take the status
\* that another was queued for.  The exception is a row that the nightly clean-up
\* deletes between the task's reading and writing it: the status is put back under
\* its key, and no task is left to take it.
MoneyNews == {"PROCESSING", "CHARGEBACKED"}
MoneyNewsIsTaken ==
    \A x \in Tx : payKey[x] \in MoneyNews ~> payKey[x] \notin MoneyNews \/ db[x] = Absent

-----------------------------------------------------------------------------
(* The inductive invariant behind AtMostOneOrder.                           *)

\* The right to place an order for x: it passes from the worker that moved the row
\* to SENDING, through the queue, to the worker that calls fragment-api, and back
\* to the queue when that one retries.
Queued(x) == \E t \in Task : t.kind = "send" /\ t.tx = x /\ queue[t] > 0
Carries(w, x) == pc[w] \in {"prepare_publish", "send_call"} /\ task[w].tx = x
MayOrder(x) == Queued(x) \/ \E w \in Worker : Carries(w, x)

WorkerInv(w) ==
    /\ pc[w] \in UpdatePc => task[w].kind = "update"
    /\ pc[w] \in PreparePc => task[w].kind = "prepare"
    /\ pc[w] \in SendPc => task[w].kind = "send"
    /\ pc[w] \in UpdatePc \cup PreparePc => lock[task[w].tx] = w
    /\ pc[w] \in UpdatePc \ {"consume_fragment"} =>
          NewStatus(w) \in PaymentNews \cup FragmentNews
WorkersInv == \A w \in Worker : WorkerInv(w)

\* What a worker has read still holds when it writes.
WorkerFresh(w) ==
    /\ pc[w] = "prepare_write" => db[task[w].tx] = "PROCESSING"
    /\ pc[w] = "write" =>
          /\ seen[w] # Absent
          /\ is_change_status_allowed(seen[w], NewStatus(w))
          /\ \/ db[task[w].tx] = seen[w]
             \/ seen[w] = "CANCELLED" /\ db[task[w].tx] = Absent /\ created[task[w].tx]
FreshInv == \A w \in Worker : WorkerFresh(w)

OneRight ==
    /\ \A t \in Task : t.kind = "send" => queue[t] <= 1
    /\ \A t, u \in Task :
          t.kind = "send" /\ u.kind = "send" /\ t.tx = u.tx /\ queue[t] > 0 /\ queue[u] > 0
             => t = u
    /\ \A v, w \in Worker : \A x \in Tx : Carries(v, x) /\ Carries(w, x) => v = w
    /\ \A w \in Worker : \A x \in Tx : ~(Carries(w, x) /\ Queued(x))

RightUnspent == \A x \in Tx : MayOrder(x) => orders[x] = 0

CommittedInv ==
    \A x \in Tx : MayOrder(x) \/ orders[x] > 0 => db[x] \in PastPointOfNoReturn

RightsInv == OneRight /\ RightUnspent /\ CommittedInv /\ AtMostOneOrder

IInv == TypeOK /\ WorkersInv /\ FreshInv /\ RightsInv

-----------------------------------------------------------------------------
(* The pipeline implements the contract of StarsOrder.                      *)

StageOf(status) ==
    IF status = "PROCESSING" THEN "paid"
    ELSE IF status = "SENDING" THEN "sending"
    ELSE IF status \in PastPointOfNoReturn THEN "settled"
    ELSE "open"

Contract == INSTANCE StarsOrder WITH
    stage   <- [x \in Tx |-> StageOf(db[x])],
    permit  <- [x \in Tx |-> MayOrder(x)],
    ordered <- orders

\* Every behaviour of the pipeline, seen through the rows, the right to order and
\* the orders placed, is one of the contract: one commit per purchase, one order
\* per commit.
ImplementsStarsOrder == Contract!Spec

=============================================================================
