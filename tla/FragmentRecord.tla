--------------------------- MODULE FragmentRecord ---------------------------
(***************************************************************************)
(* The shop's own record of an order at fragment-api (FragmentTransaction).*)
(* Three parties tell its status: the task that placed the order, from the *)
(* answer; fragment-api's webhooks; the poll.  Each leaves what it knows   *)
(* under a Redis key of its own and queues update_fragment_tx_task, which  *)
(* empties all three keys and writes the best of what it found             *)
(* (core/integrations/fragment/tasks.py and webhook_workflow.py).          *)
(*                                                                         *)
(* A transaction has one order at most (PaymentPipeline proves it), so the *)
(* order and its record are named by the transaction.                      *)
(***************************************************************************)
EXTENDS Naturals, FiniteSets, TransactionStatuses

CONSTANTS
    Tx, Worker,
    Nobody, Dead,     \* a free lock, and one left behind by a worker that died
    AnswerComesFirst, \* TRUE if the answer is saved before any webhook is sent
    InOrder,          \* TRUE if webhooks are neither repeated nor reordered
    MaxWebhooks, MaxPolls, MaxFaults, MaxCrashes  \* bounds on webhooks, poll answers,
                                                  \* busy databases and deaths

ASSUME RecordAssumption ==
    /\ Nobody \notin Worker /\ Dead \notin Worker /\ Nobody # Dead
    /\ AnswerComesFirst \in BOOLEAN /\ InOrder \in BOOLEAN
    /\ MaxWebhooks \in Nat /\ MaxPolls \in Nat /\ MaxFaults \in Nat /\ MaxCrashes \in Nat

None == "none"  \* no order, no record, nothing under a key
Source == {"webhook", "poll", "creation"}

VARIABLES
    order,   \* fragment-api: the order's status
    answer,  \* the answer to the POST, until the sending task has saved it
    inquiry, \* the poll's answer, until it is pushed
    told,    \* the last status a webhook has reported
    key,     \* latest_status:fragment__from_{webhook|poll|creation}:{tx}
    queue,   \* how many update_fragment_tx_tasks wait
    record,  \* status of the FragmentTransaction
    lock,    \* lock_fragment:{tx}
    pc, at,  \* what a worker does, and for which transaction
    taken,   \* what it took from the keys
    webhooks, polls, faults, crashes  \* how much of each bound is used

external == <<order, answer, inquiry, told, webhooks, polls>>
vars == <<order, answer, inquiry, told, key, queue, record, lock, pc, at, taken,
          webhooks, polls, faults, crashes>>

Status == FragmentStatus \cup {None}
Empty == [s \in Source |-> None]

TypeOK ==
    /\ order \in [Tx -> Status] /\ answer \in [Tx -> Status]
    /\ inquiry \in [Tx -> Status] /\ told \in [Tx -> Status]
    /\ key \in [Tx -> [Source -> Status]]
    /\ queue \in [Tx -> Nat]
    /\ record \in [Tx -> Status]
    /\ lock \in [Tx -> Worker \cup {Nobody, Dead}]
    /\ pc \in [Worker -> {"idle", "take_poll", "take_creation", "read", "create", "write"}]
    /\ at \in [Worker -> Tx]
    /\ taken \in [Worker -> [Source -> Status]]
    /\ webhooks \in Nat /\ polls \in Nat /\ faults \in Nat /\ crashes \in Nat

Init ==
    /\ order = [x \in Tx |-> None] /\ answer = [x \in Tx |-> None]
    /\ inquiry = [x \in Tx |-> None] /\ told = [x \in Tx |-> None]
    /\ key = [x \in Tx |-> Empty]
    /\ queue = [x \in Tx |-> 0]
    /\ record = [x \in Tx |-> None]
    /\ lock = [x \in Tx |-> Nobody]
    /\ pc = [w \in Worker |-> "idle"]
    /\ at \in [Worker -> Tx]
    /\ taken = [w \in Worker |-> Empty]
    /\ webhooks = 0 /\ polls = 0 /\ faults = 0 /\ crashes = 0

-----------------------------------------------------------------------------
(* The order, and the three who tell its status.                            *)

\* The statuses an order passes through.
Rank == [none |-> 0, CREATED |-> 1, PENDING |-> 2, BLOCKCHAIN_SENT |-> 3,
         COMPLETED |-> 4, FAILED |-> 4]

\* Somebody saves a status under its key and queues the task.
TellInternal(x, source, status) ==  \* a slip: the shop's word for it is saved
    /\ key' = [key EXCEPT ![x][source] = FromFragment(status)]
    /\ queue' = [queue EXCEPT ![x] = @ + 1]
Tell(x, source, status) ==
    /\ key' = [key EXCEPT ![x][source] = status]
    /\ queue' = [queue EXCEPT ![x] = @ + 1]

tasks == <<record, lock, pc, at, taken, faults, crashes>>

\* The POST is accepted; its answer is on the way to the sending task, or times out.
PlaceOrder(x) ==
    /\ order[x] = None
    /\ \E status \in {"CREATED", "FAILED"} :
          /\ order' = [order EXCEPT ![x] = status]
          /\ \/ answer' = [answer EXCEPT ![x] = status]
             \/ ~AnswerComesFirst /\ UNCHANGED answer
    /\ UNCHANGED <<inquiry, told, key, queue, webhooks, polls, tasks>>

OrderAdvances(x) ==
    /\ order[x] \notin {None, "COMPLETED", "FAILED"}
    /\ \E status \in FragmentStatus :
          /\ Rank[status] > Rank[order[x]]
          /\ order' = [order EXCEPT ![x] = status]
    /\ UNCHANGED <<answer, inquiry, told, key, queue, webhooks, polls, tasks>>

\* send_stars_workflow saves the answer.
SaveAnswer(x) ==
    /\ answer[x] # None
    /\ Tell(x, "creation", answer[x])
    /\ answer' = [answer EXCEPT ![x] = None]
    /\ UNCHANGED <<order, inquiry, told, webhooks, polls, tasks>>

\* A webhook carries the order's status, or, late, an earlier one.
Webhook(x) ==
    /\ webhooks < MaxWebhooks
    /\ order[x] # None
    /\ AnswerComesFirst => answer[x] = None
    /\ \E status \in FragmentStatus :
          /\ \/ status = order[x]
             \/ ~InOrder /\ Rank[status] < Rank[order[x]]
          /\ Tell(x, "webhook", status)
          /\ told' = [told EXCEPT ![x] = status]
    /\ webhooks' = webhooks + 1
    /\ UNCHANGED <<order, answer, inquiry, polls, tasks>>

\* The poll asks about an order that has a record ...
PollAsks(x) ==
    /\ polls < MaxPolls
    /\ record[x] # None /\ inquiry[x] = None
    /\ inquiry' = [inquiry EXCEPT ![x] = order[x]]
    /\ polls' = polls + 1
    /\ UNCHANGED <<order, answer, told, key, queue, webhooks, tasks>>

\* ... and pushes the answer, unless the record says it already.
PollPushes(x) ==
    /\ inquiry[x] # None
    /\ \/ Tell(x, "poll", inquiry[x])
       \/ UNCHANGED <<key, queue>>
    /\ inquiry' = [inquiry EXCEPT ![x] = None]
    /\ UNCHANGED <<order, answer, told, webhooks, polls, tasks>>

-----------------------------------------------------------------------------
(* update_fragment_tx_task.                                                 *)

Taking(w, source, next) ==
    LET x == at'[w]
    IN  /\ taken' = [taken EXCEPT ![w][source] = key[x][source]]
        /\ key' = [key EXCEPT ![x][source] = None]
        /\ pc' = [pc EXCEPT ![w] = next]

\* The lock is taken, and the keys are emptied one by one.
StartWithoutLock(w, x) ==  \* a slip: the lock is not waited for
    /\ pc[w] = "idle"
    /\ queue[x] > 0
    /\ queue' = [queue EXCEPT ![x] = @ - 1]
    /\ lock' = [lock EXCEPT ![x] = w]
    /\ at' = [at EXCEPT ![w] = x]
    /\ Taking(w, "webhook", "take_poll")
    /\ UNCHANGED <<external, record, faults, crashes>>
Start(w, x) ==
    /\ pc[w] = "idle"
    /\ queue[x] > 0 /\ lock[x] = Nobody
    /\ queue' = [queue EXCEPT ![x] = @ - 1]
    /\ lock' = [lock EXCEPT ![x] = w]
    /\ at' = [at EXCEPT ![w] = x]
    /\ Taking(w, "webhook", "take_poll")
    /\ UNCHANGED <<external, record, faults, crashes>>

TakePoll(w) ==
    /\ pc[w] = "take_poll"
    /\ UNCHANGED at
    /\ Taking(w, "poll", "take_creation")
    /\ UNCHANGED <<external, queue, record, lock, faults, crashes>>

TakeCreation(w) ==
    /\ pc[w] = "take_creation"
    /\ UNCHANGED at
    /\ Taking(w, "creation", "read")
    /\ UNCHANGED <<external, queue, record, lock, faults, crashes>>

\* The status to write: the webhook's, else the poll's, else the answer's, which is
\* the oldest.
Chosen(w) ==
    IF taken[w]["webhook"] # None THEN "webhook"
    ELSE IF taken[w]["poll"] # None THEN "poll" ELSE "creation"
NewStatus(w) == taken[w][Chosen(w)]

Leave(w) ==
    /\ lock' = [lock EXCEPT ![at[w]] = Nobody]
    /\ pc' = [pc EXCEPT ![w] = "idle"]
    /\ taken' = [taken EXCEPT ![w] = Empty]
    /\ UNCHANGED at

Succeed(w) == Leave(w) /\ UNCHANGED key

\* The finally clause: a status that was not written goes back under its key,
\* unless a newer one is there.  What else was taken is dropped.
Fail(w) ==
    /\ Leave(w)
    /\ key' = IF key[at[w]][Chosen(w)] = None
               THEN [key EXCEPT ![at[w]][Chosen(w)] = NewStatus(w)] ELSE key

Goto(w, next) == pc' = [pc EXCEPT ![w] = next] /\ UNCHANGED <<lock, at, taken, key>>

\* Nothing to do, a record that says it already, one to write, or none.
Read(w) ==
    /\ pc[w] = "read"
    /\ \/ NewStatus(w) \in {None, record[at[w]]} /\ Succeed(w)
       \/ /\ NewStatus(w) \notin {None, record[at[w]]}
          /\ Goto(w, IF record[at[w]] = None THEN "create" ELSE "write")
    /\ UNCHANGED <<external, queue, record, faults, crashes>>

\* A record that was made meanwhile would raise IntegrityError.
Create(w) ==
    /\ pc[w] = "create"
    /\ \/ /\ record[at[w]] = None
          /\ record' = [record EXCEPT ![at[w]] = NewStatus(w)]
          /\ Succeed(w)
       \/ /\ record[at[w]] # None
          /\ Fail(w)
          /\ UNCHANGED record
    /\ UNCHANGED <<external, queue, faults, crashes>>

\* UPDATE ... WHERE NOT status = new: a record that has the status by now counts as
\* a failure.
Write(w) ==
    /\ pc[w] = "write"
    /\ \/ /\ record[at[w]] # NewStatus(w)
          /\ record' = [record EXCEPT ![at[w]] = NewStatus(w)]
          /\ Succeed(w)
       \/ /\ record[at[w]] = NewStatus(w)
          /\ Fail(w)
          /\ UNCHANGED record
    /\ UNCHANGED <<external, queue, faults, crashes>>

\* The database is busy: the task is queued again and its status put back.
RetryNotQueued(w) ==  \* a slip: the task fails instead
    /\ pc[w] \in {"read", "create", "write"} /\ NewStatus(w) # None
    /\ faults < MaxFaults
    /\ faults' = faults + 1
    /\ Fail(w)
    /\ UNCHANGED <<external, record, queue, crashes>>
Retry(w) ==
    /\ pc[w] \in {"read", "create", "write"} /\ NewStatus(w) # None
    /\ faults < MaxFaults
    /\ faults' = faults + 1
    /\ queue' = [queue EXCEPT ![at[w]] = @ + 1]
    /\ Fail(w)
    /\ UNCHANGED <<external, record, crashes>>

\* A worker dies.  The task was acknowledged on receipt: it is gone with all it has
\* taken, and its lock stays until its time to live is over.
Die(w) ==
    /\ pc[w] # "idle"
    /\ crashes < MaxCrashes
    /\ crashes' = crashes + 1
    /\ lock' = [lock EXCEPT ![at[w]] = Dead]
    /\ pc' = [pc EXCEPT ![w] = "idle"]
    /\ taken' = [taken EXCEPT ![w] = Empty]
    /\ UNCHANGED <<external, key, queue, record, at, faults>>

LockRunsOut(x) ==
    /\ lock[x] = Dead
    /\ lock' = [lock EXCEPT ![x] = Nobody]
    /\ UNCHANGED <<external, key, queue, record, pc, at, taken, faults, crashes>>

-----------------------------------------------------------------------------

WorkerStep(w) ==
    \/ TakePoll(w) \/ TakeCreation(w) \/ Read(w) \/ Create(w) \/ Write(w)

Next ==
    \/ \E x \in Tx : PlaceOrder(x) \/ OrderAdvances(x) \/ SaveAnswer(x) \/ Webhook(x)
                     \/ PollAsks(x) \/ PollPushes(x) \/ LockRunsOut(x)
    \/ \E w \in Worker : WorkerStep(w) \/ Retry(w) \/ Die(w) \/ \E x \in Tx : Start(w, x)

Spec == Init /\ [][Next]_vars

\* Workers run and take waiting tasks; the sending task saves its answer; the lock
\* of a dead worker runs out.
Fairness ==
    /\ \A w \in Worker : WF_vars(WorkerStep(w))
    /\ \A x \in Tx : /\ WF_vars(SaveAnswer(x))
                   /\ WF_vars(\E w \in Worker : Start(w, x))
                   /\ WF_vars(LockRunsOut(x))

FairSpec == Spec /\ Fairness

-----------------------------------------------------------------------------
(* Properties.                                                              *)

\* A worker at its task holds the transaction's lock; this is why WritersExclude holds.
HoldsLock == \A w \in Worker : pc[w] # "idle" => lock[at[w]] = w
IInv == TypeOK /\ HoldsLock

\* While a worker makes or writes the record nobody else does: neither
\* IntegrityError nor "is not changed" ever comes of two tasks.
WritersExclude ==
    \A v, w \in Worker :
        pc[v] \in {"create", "write"} /\ pc[w] \in {"create", "write"} /\ at[v] = at[w]
            => v = w

\* Unless a worker dies, what is told is taken: no key keeps a status for good,
\* although tasks and statuses are not paired and a busy database puts statuses back.
KeysAreEmptied ==
    \A x \in Tx : \A s \in Source :
        key[x][s] # None ~> key[x][s] = None \/ crashes > 0

\* If the answer was saved first, webhooks come in order and no worker dies, a
\* completed order that a webhook has reported is what the record says in the end.
RecordFollowsWebhook ==
    \A x \in Tx : order[x] = "COMPLETED" /\ told[x] = "COMPLETED"
                    ~> record[x] = "COMPLETED" \/ crashes > 0

\* A closed record is not written again.
StaysClosed ==
    \A x \in Tx : record[x] \in {"COMPLETED", "FAILED"} => record'[x] = record[x]

\* ... and it keeps saying so.
ClosedRecordStays == [][StaysClosed]_vars

\* "The status from the moment the order was created is the oldest, it goes last":
\* it is never written over what a webhook has told.
AnswerGoesLast ==
    [][\A w \in Worker :
          Write(w) /\ record'[at[w]] # record[at[w]] /\ Chosen(w) = "creation"
              => told[at[w]] = None]_vars

=============================================================================
