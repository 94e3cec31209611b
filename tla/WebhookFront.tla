---------------------------- MODULE WebhookFront ----------------------------
(***************************************************************************)
(* The webhook endpoints (core/views.py, core/integrations/                *)
(* webhook_utils.py) step by step: several requests run side by side on    *)
(* the event loop and give way to each other at every await.  A notifi-    *)
(* cation of fragment-api is remembered by its idempotency key, then read, *)
(* and under the lock of its service and transaction its status is put     *)
(* under its keys and the tasks are queued that take it from there.        *)
(*                                                                         *)
(* The senders are free to deliver a notification any number of times, at  *)
(* any time: as a retry of a delivery that was not answered 200, or as a   *)
(* duplicate.  Redis and the broker may fail at every step, and the server *)
(* may die with some of its requests.                                      *)
(***************************************************************************)
EXTENDS Naturals, SequencesExt

CONSTANTS
    Tx,             \* transactions
    News,           \* the notifications the senders have to deliver
    Request,        \* requests that can be in flight together
    None,
    MaxDeliveries,  \* bound on deliveries of one notification
    MaxTasks,       \* bound on the tasks of one transaction in its queue
    MaxFaults       \* bound on failures, deaths and locks that run out

Service == {"PAYMENT", "FRAGMENT"}
Slot    == Service \X Tx  \* what a lock_latest_status is held for
RecordSlot == {"FRAGMENT__FROM_WEBHOOK"} \X Tx

\* What the endpoint tells apart in a notification: whether it carries an
\* idempotency key and the order's id, and whether it can be read.
NewsType ==
    [service : Service, tx : Tx, number : Nat, keyed : BOOLEAN, hasId : BOOLEAN,
     reads : {"as news", "as nothing to do with us", "not at all"}]

WebhookAssumption ==
    /\ News \subseteq NewsType /\ None \notin News \cup Request
    /\ "a dead request" \notin Request
    /\ \A n \in News : n.keyed \/ n.hasId => n.service = "FRAGMENT"
    /\ MaxDeliveries \in Nat /\ MaxTasks \in Nat /\ MaxFaults \in Nat

VARIABLES
    step,       \* what each request does next; "free": no request
    about,      \* the notification a request carries
    seen,       \* the idempotency keys: "no", "for good", or "for 48 hours"
    lock,       \* who holds the lock of a slot
    key,        \* whose status is under each latest_status key
    queued,     \* update_transaction_status_task and update_fragment_tx_task
    deliveries, faults,
    queuings,   \* history: how often a notification has queued its task
    accepted,   \* history: notifications answered with 200
    failed,     \* history: those with a delivery that ended without 200
    broken      \* history: slots whose critical section broke off or lost its lock

front == <<step, about>>
vars  == <<front, seen, lock, key, queued, deliveries, faults,
           queuings, accepted, failed, broken>>

Steps == {"free", "check", "expire", "read", "acquire",
          "save", "save record", "queue record", "queue", "release"}
Critical == {"save", "save record", "queue record", "queue", "release"}
SlotOf(n) == <<n.service, n.tx>>
Inside(s) == {r \in Request : step[r] \in Critical /\ SlotOf(about[r]) = s}

TypeOK ==
    /\ step \in [Request -> Steps]
    /\ about \in [Request -> News \cup {None}]
    /\ \A r \in Request : step[r] = "free" <=> about[r] = None
    /\ seen \in [News -> {"no", "for good", "for 48 hours"}]
    /\ lock \in [Slot -> Request \cup {None, "a dead request"}]
    /\ key \in [Slot \cup RecordSlot -> News \cup {None}]
    /\ queued \in [Slot \cup RecordSlot -> 0 .. MaxTasks]
    /\ deliveries \in [News -> 0 .. MaxDeliveries] /\ faults \in 0 .. MaxFaults
    /\ queuings \in [News -> Nat]
    /\ accepted \subseteq News /\ failed \subseteq News /\ broken \subseteq Slot

Init ==
    /\ step = [r \in Request |-> "free"] /\ about = [r \in Request |-> None]
    /\ seen = [n \in News |-> "no"]
    /\ lock = [s \in Slot |-> None]
    /\ key = [s \in Slot \cup RecordSlot |-> None]
    /\ queued = [s \in Slot \cup RecordSlot |-> 0]
    /\ deliveries = [n \in News |-> 0] /\ faults = 0
    /\ queuings = [n \in News |-> 0]
    /\ accepted = {} /\ failed = {} /\ broken = {}

-----------------------------------------------------------------------------
(* One request.                                                             *)

\* The order of the steps under the lock.
CriticalStepsQueueFirst(n) ==  \* a slip: the tasks are queued before the status is there
    IF n.hasId THEN <<"queue record", "queue", "save", "save record", "release">>
               ELSE <<"queue", "save", "release">>
CriticalSteps(n) ==
    IF n.hasId THEN <<"save", "save record", "queue record", "queue", "release">>
               ELSE <<"save", "queue", "release">>

Goes(r, next) == step' = [step EXCEPT ![r] = next] /\ UNCHANGED about
GoesOn(r) ==
    LET path == CriticalSteps(about[r])
    IN  \E i \in 1 .. Len(path) - 1 : path[i] = step[r] /\ Goes(r, path[i + 1])

\* The request is over, with 200 or without.
Answer(R, ok) ==
    LET news == {about[r] : r \in R}
    IN  /\ step' = [r \in Request |-> IF r \in R THEN "free" ELSE step[r]]
        /\ about' = [r \in Request |-> IF r \in R THEN None ELSE about[r]]
        /\ accepted' = IF ok THEN accepted \cup news ELSE accepted
        /\ failed' = IF ok THEN failed ELSE failed \cup news

\* A delivery that passes the sender's authentication.
Deliver(r, n) ==
    /\ step[r] = "free" /\ deliveries[n] < MaxDeliveries
    /\ deliveries' = [deliveries EXCEPT ![n] = @ + 1]
    /\ step' = [step EXCEPT ![r] = IF n.keyed THEN "check" ELSE "read"]
    /\ about' = [about EXCEPT ![r] = n]
    /\ UNCHANGED <<seen, lock, key, queued, faults, queuings, accepted, failed, broken>>

\* The key a notification is remembered by.
SameKey(m, n) == m = n

\* The notification is remembered (SETNX), or known: it is answered and left.
CheckKeyLooks(r) ==  \* a slip: GET now, SET with its time to live later
    /\ step[r] = "check"
    /\ LET known == \E m \in News : SameKey(m, about[r]) /\ seen[m] # "no"
       IN  \/ known /\ Answer({r}, TRUE)
           \/ ~known /\ Goes(r, "expire") /\ UNCHANGED <<accepted, failed>>
    /\ UNCHANGED <<seen, lock, key, queued, deliveries, faults, queuings, broken>>
CheckKey(r) ==
    /\ step[r] = "check"
    /\ LET known == \E m \in News : SameKey(m, about[r]) /\ seen[m] # "no"
       IN  \/ known /\ Answer({r}, TRUE) /\ UNCHANGED seen
           \/ ~known /\ Goes(r, "expire") /\ seen' = [seen EXCEPT ![about[r]] = "for good"]
              /\ UNCHANGED <<accepted, failed>>
    /\ UNCHANGED <<lock, key, queued, deliveries, faults, queuings, broken>>

Expire(r) ==
    /\ step[r] = "expire"
    /\ Goes(r, "read")
    /\ seen' = [seen EXCEPT ![about[r]] = "for 48 hours"]
    /\ UNCHANGED <<lock, key, queued, deliveries, faults, queuings, accepted, failed, broken>>

\* The body is parsed: an event PayPear sends about something else is confirmed.
Read(r) ==
    /\ step[r] = "read"
    /\ \/ about[r].reads = "as news" /\ Goes(r, "acquire") /\ UNCHANGED <<accepted, failed>>
       \/ about[r].reads = "as nothing to do with us" /\ Answer({r}, TRUE)
       \/ about[r].reads = "not at all" /\ Answer({r}, FALSE)
    /\ UNCHANGED <<seen, lock, key, queued, deliveries, faults, queuings, broken>>

AcquireAnyway(r) ==  \* a slip: whoever does not get the lock goes on without it
    LET s == SlotOf(about[r])
    IN  /\ step[r] = "acquire"
        /\ lock' = [lock EXCEPT ![s] = IF @ = None THEN r ELSE @]
        /\ Goes(r, Head(CriticalSteps(about[r])))
        /\ UNCHANGED <<seen, key, queued, deliveries, faults, queuings, accepted, failed, broken>>
Acquire(r) ==
    LET s == SlotOf(about[r])
    IN  /\ step[r] = "acquire" /\ lock[s] = None
        /\ lock' = [lock EXCEPT ![s] = r]
        /\ Goes(r, Head(CriticalSteps(about[r])))
        /\ UNCHANGED <<seen, key, queued, deliveries, faults, queuings, accepted, failed, broken>>

\* The wait for the lock is over: 429.
GiveUpPolitely(r) ==  \* a slip: the request is confirmed all the same
    /\ step[r] = "acquire" /\ lock[SlotOf(about[r])] # None
    /\ Answer({r}, TRUE)
    /\ UNCHANGED <<seen, lock, key, queued, deliveries, faults, queuings, broken>>
GiveUp(r) ==
    /\ step[r] = "acquire" /\ lock[SlotOf(about[r])] # None
    /\ Answer({r}, FALSE)
    /\ UNCHANGED <<seen, lock, key, queued, deliveries, faults, queuings, broken>>

Save(r) ==
    LET n == about[r]
        s == IF step[r] = "save" THEN SlotOf(n) ELSE <<"FRAGMENT__FROM_WEBHOOK", n.tx>>
    IN  /\ step[r] \in {"save", "save record"}
        /\ key' = [key EXCEPT ![s] = n]
        /\ GoesOn(r)
        /\ UNCHANGED <<seen, lock, queued, deliveries, faults, queuings, accepted, failed, broken>>

Queue(r) ==
    LET n == about[r]
        s == IF step[r] = "queue" THEN SlotOf(n) ELSE <<"FRAGMENT__FROM_WEBHOOK", n.tx>>
    IN  /\ step[r] \in {"queue", "queue record"}
        /\ queued[s] < MaxTasks
        /\ queued' = [queued EXCEPT ![s] = @ + 1]
        /\ queuings' = IF step[r] = "queue" THEN [queuings EXCEPT ![n] = @ + 1] ELSE queuings
        /\ GoesOn(r)
        /\ UNCHANGED <<seen, lock, key, deliveries, faults, accepted, failed, broken>>

\* A lock that has run out, or is somebody else's by now, is not released.
ReleaseLock(R) == lock' = [s \in Slot |-> IF lock[s] \in R THEN None ELSE lock[s]]

Release(r) ==
    /\ step[r] = "release"
    /\ ReleaseLock({r})
    /\ Answer({r}, TRUE)
    /\ UNCHANGED <<seen, key, queued, deliveries, faults, queuings, broken>>

-----------------------------------------------------------------------------
(* Failures, and the tasks.                                                 *)

Breaks(R) == broken' = broken \cup {SlotOf(about[r]) : r \in {q \in R : step[q] \in Critical}}

\* Redis or the broker raises: 500, and the lock is released.
Fails(r) ==
    /\ step[r] \notin {"free", "release"} /\ faults < MaxFaults
    /\ faults' = faults + 1
    /\ ReleaseLock({r}) /\ Answer({r}, FALSE) /\ Breaks({r})
    /\ UNCHANGED <<seen, key, queued, deliveries, queuings>>

\* A process of the server dies: its requests are not answered, its locks stay.
Dies(R) ==
    /\ \A r \in R : step[r] # "free"
    /\ faults < MaxFaults /\ faults' = faults + 1
    /\ lock' = [s \in Slot |-> IF lock[s] \in R THEN "a dead request" ELSE lock[s]]
    /\ Answer(R, FALSE) /\ Breaks(R)
    /\ UNCHANGED <<seen, key, queued, deliveries, queuings>>

\* A lock lives for 45 seconds; a request that still holds it goes on.
LockRunsOut(s) ==
    /\ lock[s] # None
    /\ \/ lock[s] = "a dead request" /\ UNCHANGED <<faults, broken>>
       \/ /\ lock[s] # "a dead request"
          /\ faults < MaxFaults /\ faults' = faults + 1
          /\ broken' = broken \cup {s}
    /\ lock' = [lock EXCEPT ![s] = None]
    /\ UNCHANGED <<front, seen, key, queued, deliveries, queuings, accepted, failed>>

\* A task takes the status from its key (GETDEL), whoever has left it there.
Take(s) ==
    /\ queued[s] > 0
    /\ queued' = [queued EXCEPT ![s] = @ - 1]
    /\ key' = [key EXCEPT ![s] = None]
    /\ UNCHANGED <<front, seen, lock, deliveries, faults, queuings, accepted, failed, broken>>

Next ==
    \/ \E r \in Request, n \in News : Deliver(r, n)
    \/ \E r \in Request :
          \/ CheckKey(r) \/ Expire(r) \/ Read(r) \/ Acquire(r) \/ GiveUp(r)
          \/ Save(r) \/ Queue(r) \/ Release(r) \/ Fails(r)
    \/ \E R \in SUBSET Request \ {{}} : Dies(R)
    \/ \E s \in Slot : LockRunsOut(s)
    \/ \E s \in Slot \cup RecordSlot : Take(s)

Spec == Init /\ [][Next]_vars

-----------------------------------------------------------------------------
(* Properties.                                                              *)

\* Types are kept, and a service's notifications of one transaction are
\* written by one request at a time, unless a lock has run out.
WebhookInv ==
    /\ TypeOK
    /\ \A s \in Slot : s \notin broken => \A r \in Inside(s) : lock[s] = r

\* However often, and however close together, a notification with an
\* idempotency key is delivered, it queues its task once.
KeyedNewsActsOnce == \A n \in News : n.keyed => queuings[n] <= 1

\* A notification that has been answered with 200, is news, and is not being
\* processed any more, has queued its task.  The exception is one with a key
\* that has a failed delivery behind it: the key was set before the failure,
\* and the repetition is confirmed unread (webhook_utils.py:48-51).  Payment
\* services send no key: what they are told is true.
AcceptedNewsIsQueued ==
    \A n \in accepted :
       \/ queuings[n] > 0
       \/ n.reads = "as nothing to do with us"
       \/ n.keyed /\ n \in failed
       \/ \E r \in Request : about[r] = n

\* No status waits under a key without a task that will take it: a request is
\* still to queue it, or one has broken off (then the poll has to find it).
StatusHasItsTask ==
    \A s \in Slot \cup RecordSlot :
       LET told == IF s \in Slot THEN s ELSE <<"FRAGMENT", s[2]>>
       IN  key[s] # None =>
              \/ queued[s] > 0
              \/ told \in broken
              \/ \E r \in Inside(told) :
                    step[r] \in {"save record", "queue record", "queue"}

\* The row's status and the order's record are told the same news: of two
\* webhooks of one order the same one comes last under both keys.
KeysTellTheSame ==
    \A x \in Tx :
       LET row    == key[<<"FRAGMENT", x>>]
           record == key[<<"FRAGMENT__FROM_WEBHOOK", x>>]
       IN  /\ <<"FRAGMENT", x>> \notin broken /\ Inside(<<"FRAGMENT", x>>) = {}
           /\ None \notin {row, record} /\ row.hasId
           => row = record
=============================================================================
