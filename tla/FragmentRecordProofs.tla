------------------------ MODULE FragmentRecordProofs ------------------------
(***************************************************************************)
(* That the lock of update_fragment_tx_task excludes two writers of one    *)
(* record, for any number of orders, workers, webhooks, polls, deaths and  *)
(* busy databases; and that a closed record stays closed where the answer  *)
(* is saved before any webhook is sent and webhooks come in order.         *)
(*                                                                         *)
(* The second rests on the first.  Only one task is at an order, so what   *)
(* it has taken, what is under the keys meanwhile, the record and the      *)
(* order can be compared: InOrderInv says that each is no further than     *)
(* the one it comes before, and that the answer of the sending task is     *)
(* spent when there is a record.                                           *)
(***************************************************************************)
EXTENDS MCFragmentRecord, TLAPS

\* A webhook comes, and a busy database sends a task round again: the actions without
\* their bounds, which the instances of MCFragmentRecord differ in.
WebhookComes(x) ==
    /\ order[x] # None
    /\ \E status \in FragmentStatus :
          Tell(x, "webhook", status) /\ told' = [told EXCEPT ![x] = status]
    /\ webhooks' = webhooks + 1
    /\ UNCHANGED <<order, answer, inquiry, polls, tasks>>

Retries(w) ==
    /\ pc[w] \in {"read", "create", "write"} /\ NewStatus(w) # None
    /\ faults' = faults + 1
    /\ queue' = [queue EXCEPT ![at[w]] = @ + 1]
    /\ Fail(w)
    /\ UNCHANGED <<external, record, crashes>>

-----------------------------------------------------------------------------
(* The lock.                                                                *)

\* Initially nobody is at a task.
LEMMA InitInv == Init => IInv
BY RecordAssumption DEF Init, IInv, TypeOK, HoldsLock, Status, Empty, Source

\* What a task has chosen to write is a status.
LEMMA ChosenType ==
    ASSUME TypeOK, NEW w \in Worker
    PROVE  Chosen(w) \in Source /\ NewStatus(w) \in Status
BY DEF TypeOK, Chosen, NewStatus, Source

\* A status told is a status under a key, and one more task.
LEMMA TellType ==
    ASSUME TypeOK, NEW x \in Tx, NEW s \in Source, NEW status \in Status,
           Tell(x, s, status)
    PROVE  key' \in [Tx -> [Source -> Status]] /\ queue' \in [Tx -> Nat]
BY DEF TypeOK, Tell

\* What the order, and those who tell its status, do leaves workers and locks alone.
LEMMA OutsideKeepsInv ==
    ASSUME IInv, NEW x \in Tx,
           \/ PlaceOrder(x) \/ OrderAdvances(x) \/ SaveAnswer(x) \/ WebhookComes(x)
           \/ PollAsks(x) \/ PollPushes(x)
    PROVE  IInv'
<1> USE DEF IInv
<1>1. HoldsLock'
  BY DEF HoldsLock, PlaceOrder, OrderAdvances, SaveAnswer, WebhookComes, PollAsks, PollPushes,
         tasks
<1>2. "CREATED" \in FragmentStatus /\ "FAILED" \in FragmentStatus
  BY DEF FragmentStatus
<1>3. {"webhook", "poll", "creation"} = Source /\ FragmentStatus \subseteq Status /\ None \in Status
  BY DEF Source, Status
<1>4. CASE PlaceOrder(x)
  <2>1. order' \in [Tx -> Status] /\ answer' \in [Tx -> Status]
    <3>1. PICK status \in Status :
            /\ order' = [order EXCEPT ![x] = status]
            /\ answer' = [answer EXCEPT ![x] = status] \/ answer' = answer
      BY <1>2, <1>3, <1>4 DEF PlaceOrder
    <3> QED  BY <3>1 DEF TypeOK
  <2> QED  BY <1>1, <1>4, <2>1 DEF PlaceOrder, tasks, TypeOK
<1>5. CASE OrderAdvances(x)
  BY <1>1, <1>3, <1>5 DEF OrderAdvances, tasks, TypeOK
<1>6. CASE SaveAnswer(x)
  <2>1. answer[x] \in Status /\ answer' \in [Tx -> Status]
    BY <1>3, <1>6 DEF SaveAnswer, TypeOK
  <2>2. key' \in [Tx -> [Source -> Status]] /\ queue' \in [Tx -> Nat]
    BY <1>3, <1>6, <2>1, TellType DEF SaveAnswer
  <2> QED  BY <1>1, <1>6, <2>1, <2>2 DEF SaveAnswer, tasks, TypeOK
<1>7. CASE WebhookComes(x)
  <2>1. PICK status \in FragmentStatus :
          Tell(x, "webhook", status) /\ told' = [told EXCEPT ![x] = status]
    BY <1>7 DEF WebhookComes
  <2>2. key' \in [Tx -> [Source -> Status]] /\ queue' \in [Tx -> Nat]
    BY <1>3, <2>1, TellType
  <2>3. told' \in [Tx -> Status] /\ webhooks' \in Nat
    BY <1>3, <1>7, <2>1 DEF WebhookComes, TypeOK
  <2> QED  BY <1>1, <1>7, <2>2, <2>3 DEF WebhookComes, tasks, TypeOK
<1>8. CASE PollAsks(x)
  BY <1>1, <1>8 DEF PollAsks, tasks, TypeOK
<1>9. CASE PollPushes(x)
  <2>1. inquiry[x] \in Status /\ inquiry' \in [Tx -> Status]
    BY <1>3, <1>9 DEF PollPushes, TypeOK
  <2>2. key' \in [Tx -> [Source -> Status]] /\ queue' \in [Tx -> Nat]
    BY <1>3, <1>9, <2>1, TellType DEF PollPushes, TypeOK
  <2> QED  BY <1>1, <1>9, <2>1, <2>2 DEF PollPushes, tasks, TypeOK
<1> QED  BY <1>4, <1>5, <1>6, <1>7, <1>8, <1>9

\* A worker takes the lock only when it is free, so no other worker has it.
LEMMA StartKeepsInv ==
    ASSUME IInv, NEW w \in Worker, NEW x \in Tx, Start(w, x)
    PROVE  IInv'
<1> USE DEF IInv
<1>1. at' = [at EXCEPT ![w] = x] /\ at'[w] = x
  BY DEF Start, TypeOK
<1>2. HoldsLock'
  <2> SUFFICES ASSUME NEW v \in Worker, pc'[v] # "idle" PROVE lock'[at'[v]] = v
    BY DEF HoldsLock
  <2>1. CASE v = w
    BY <1>1, <2>1 DEF Start, TypeOK
  <2>2. CASE v # w
    <3>1. at'[v] = at[v] /\ pc[v] # "idle"
      BY <1>1, <2>2 DEF Start, Taking, TypeOK
    <3>2. at[v] # x
      BY <3>1, RecordAssumption DEF Start, HoldsLock
    <3> QED  BY <3>1, <3>2 DEF Start, HoldsLock, TypeOK
  <2> QED  BY <2>1, <2>2
<1>3. key' \in [Tx -> [Source -> Status]] /\ taken' \in [Worker -> [Source -> Status]]
  BY <1>1 DEF Start, Taking, TypeOK, Status, Source
<1>4. queue' \in [Tx -> Nat]
  BY DEF Start, TypeOK
<1> QED  BY <1>1, <1>2, <1>3, <1>4 DEF Start, Taking, TypeOK, external

\* Emptying the other keys keeps worker, transaction and lock.
LEMMA TakingKeepsInv ==
    ASSUME IInv, NEW w \in Worker, TakePoll(w) \/ TakeCreation(w)
    PROVE  IInv'
<1> USE DEF IInv
<1>1. at[w] \in Tx /\ at' = at /\ lock' = lock
  BY DEF TakePoll, TakeCreation, TypeOK
<1>2. pc[w] # "idle" /\ pc' \in [Worker -> {"idle", "take_poll", "take_creation", "read", "create", "write"}]
      /\ \A v \in Worker : pc'[v] # "idle" => pc[v] # "idle"
  BY DEF TakePoll, TakeCreation, Taking, TypeOK
<1>3. HoldsLock'
  BY <1>1, <1>2 DEF HoldsLock
<1>4. key' \in [Tx -> [Source -> Status]] /\ taken' \in [Worker -> [Source -> Status]]
  <2>1. PICK s \in Source :
          /\ taken' = [taken EXCEPT ![w][s] = key[at[w]][s]]
          /\ key' = [key EXCEPT ![at[w]][s] = None]
    BY <1>1 DEF TakePoll, TakeCreation, Taking, Source
  <2> QED  BY <1>1, <2>1 DEF TypeOK, Status
<1>5. UNCHANGED <<external, queue, record, lock, faults, crashes>>
  BY DEF TakePoll, TakeCreation
<1> QED  BY <1>1, <1>2, <1>3, <1>4, <1>5 DEF TypeOK, external

\* Who lets go of a lock lets go of its own.
LEMMA LeaveKeepsInv ==
    ASSUME IInv, NEW w \in Worker, pc[w] # "idle", NEW free \in {Nobody, Dead},
           lock' = [lock EXCEPT ![at[w]] = free],
           pc' = [pc EXCEPT ![w] = "idle"],
           taken' = [taken EXCEPT ![w] = Empty],
           at' = at
    PROVE  /\ HoldsLock'
           /\ lock' \in [Tx -> Worker \cup {Nobody, Dead}]
           /\ pc' \in [Worker -> {"idle", "take_poll", "take_creation", "read", "create", "write"}]
           /\ at' \in [Worker -> Tx]
           /\ taken' \in [Worker -> [Source -> Status]]
<1> USE DEF IInv
<1>1. HoldsLock'
  <2> SUFFICES ASSUME NEW v \in Worker, pc'[v] # "idle" PROVE lock'[at'[v]] = v
    BY DEF HoldsLock
  <2>1. v # w /\ pc[v] # "idle"
    BY DEF TypeOK
  <2>2. at[v] # at[w]
    BY <2>1 DEF HoldsLock
  <2> QED  BY <2>1, <2>2 DEF HoldsLock, TypeOK
<1>2. Empty \in [Source -> Status]
  BY DEF Empty, Status
<1> QED  BY <1>1, <1>2 DEF TypeOK

\* A status put back is a status under its key.
LEMMA FailType ==
    ASSUME IInv, NEW w \in Worker, Fail(w)
    PROVE  key' \in [Tx -> [Source -> Status]]
<1>1. Chosen(w) \in Source /\ NewStatus(w) \in Status
  BY ChosenType DEF IInv
<1> QED  BY <1>1 DEF Fail, IInv, TypeOK

\* A task that succeeds or fails leaves types and locks in order.
LEMMA EndKeepsInv ==
    ASSUME IInv, NEW w \in Worker, pc[w] # "idle", Succeed(w) \/ Fail(w)
    PROVE  /\ HoldsLock'
           /\ lock' \in [Tx -> Worker \cup {Nobody, Dead}]
           /\ pc' \in [Worker -> {"idle", "take_poll", "take_creation", "read", "create", "write"}]
           /\ at' \in [Worker -> Tx]
           /\ taken' \in [Worker -> [Source -> Status]]
           /\ key' \in [Tx -> [Source -> Status]]
<1>1. Leave(w)
  BY DEF Succeed, Fail
<1>2. key' \in [Tx -> [Source -> Status]]
  BY FailType DEF Succeed, IInv, TypeOK
<1> QED  BY <1>1, <1>2, LeaveKeepsInv DEF Leave

\* Reading, making, writing, and the retry of each.
LEMMA WorkKeepsInv ==
    ASSUME IInv, NEW w \in Worker, Read(w) \/ Create(w) \/ Write(w) \/ Retries(w)
    PROVE  IInv'
<1> USE DEF IInv
<1>1. NewStatus(w) \in Status /\ at[w] \in Tx
  BY ChosenType DEF TypeOK
<1>2. pc[w] # "idle"
  BY DEF Read, Create, Write, Retries
<1>3. record' \in [Tx -> Status] /\ queue' \in [Tx -> Nat] /\ faults' \in Nat
  <2>1. record' = record \/ record' = [record EXCEPT ![at[w]] = NewStatus(w)]
    BY DEF Read, Create, Write, Retries
  <2>2. queue' = queue \/ queue' = [queue EXCEPT ![at[w]] = @ + 1]
    BY DEF Read, Create, Write, Retries
  <2>3. faults' = faults \/ faults' = faults + 1
    BY DEF Read, Create, Write, Retries
  <2>4. record' \in [Tx -> Status]
    BY <1>1, <2>1 DEF TypeOK
  <2>5. queue' \in [Tx -> Nat]
    <3>1. queue \in [Tx -> Nat] /\ queue[at[w]] + 1 \in Nat
      BY <1>1 DEF TypeOK
    <3> QED  BY <1>1, <2>2, <3>1
  <2> QED  BY <2>3, <2>4, <2>5 DEF TypeOK
<1>4. UNCHANGED <<external, crashes>>
  BY DEF Read, Create, Write, Retries
<1>5. CASE Succeed(w) \/ Fail(w)
  <2>1. /\ HoldsLock'
        /\ lock' \in [Tx -> Worker \cup {Nobody, Dead}]
        /\ pc' \in [Worker -> {"idle", "take_poll", "take_creation", "read", "create", "write"}]
        /\ at' \in [Worker -> Tx]
        /\ taken' \in [Worker -> [Source -> Status]]
        /\ key' \in [Tx -> [Source -> Status]]
    BY <1>2, <1>5, EndKeepsInv
  <2> QED  BY <1>3, <1>4, <2>1 DEF TypeOK, external
<1>6. CASE (Read(w) /\ Goto(w, "create")) \/ (Read(w) /\ Goto(w, "write"))
  <2>1. lock' = lock /\ at' = at /\ key' = key /\ taken' = taken
    BY <1>6 DEF Goto
  <2>2. pc' \in [Worker -> {"idle", "take_poll", "take_creation", "read", "create", "write"}]
        /\ \A v \in Worker : pc'[v] # "idle" => pc[v] # "idle"
    BY <1>2, <1>6 DEF Goto, TypeOK
  <2>3. HoldsLock'
    BY <2>1, <2>2 DEF HoldsLock
  <2> QED  BY <1>3, <1>4, <2>1, <2>2, <2>3 DEF TypeOK, external
<1> QED  BY <1>5, <1>6 DEF Read, Create, Write, Retries

\* A dead worker's lock is nobody's until it runs out.
LEMMA DeathKeepsInv ==
    ASSUME IInv, \/ \E w \in Worker : Die(w)
                 \/ \E x \in Tx : LockRunsOut(x)
    PROVE  IInv'
<1> USE DEF IInv
<1>1. ASSUME NEW w \in Worker, Die(w) PROVE IInv'
  <2>1. /\ HoldsLock'
        /\ lock' \in [Tx -> Worker \cup {Nobody, Dead}]
        /\ pc' \in [Worker -> {"idle", "take_poll", "take_creation", "read", "create", "write"}]
        /\ at' \in [Worker -> Tx]
        /\ taken' \in [Worker -> [Source -> Status]]
    BY <1>1, LeaveKeepsInv DEF Die
  <2> QED  BY <1>1, <2>1 DEF Die, TypeOK, external
<1>2. ASSUME NEW x \in Tx, LockRunsOut(x) PROVE IInv'
  <2>1. HoldsLock'
    BY <1>2, RecordAssumption DEF LockRunsOut, HoldsLock, TypeOK
  <2> QED  BY <1>2, <2>1 DEF LockRunsOut, TypeOK, external
<1> QED  BY <1>1, <1>2

\* Every step, of either instance, keeps it.
LEMMA StepKeepsInv ==
    ASSUME IInv,
           \/ \E x \in Tx : \/ PlaceOrder(x) \/ OrderAdvances(x) \/ SaveAnswer(x)
                            \/ WebhookComes(x) \/ PollAsks(x) \/ PollPushes(x) \/ LockRunsOut(x)
           \/ \E w \in Worker : WorkerStep(w) \/ Retries(w) \/ Die(w) \/ \E x \in Tx : Start(w, x)
           \/ UNCHANGED vars
    PROVE  IInv'
<1>1. CASE UNCHANGED vars
  BY <1>1 DEF vars, IInv, TypeOK, HoldsLock
<1> QED  BY <1>1, OutsideKeepsInv, StartKeepsInv, TakingKeepsInv, WorkKeepsInv, DeathKeepsInv
            DEF WorkerStep

\* The bounds apart, the steps are these.
LEMMA Unbounded ==
    /\ \A x \in Tx : Webhook(x) => WebhookComes(x)
    /\ \A w \in Worker : Retry(w) => Retries(w)
<1>1. ASSUME NEW x \in Tx, Webhook(x)  PROVE WebhookComes(x)
  BY <1>1 DEF Webhook, WebhookComes
<1>2. ASSUME NEW w \in Worker, Retry(w)  PROVE Retries(w)
  BY <1>2 DEF Retry, Retries
<1> QED  BY <1>1, <1>2

\* The inductive invariant: at its task, a worker holds the transaction's lock.
THEOREM RecordInvariant == Spec => []IInv
<1>1. Init => IInv
  BY InitInv
<1>2. IInv /\ [Next]_vars => IInv'
  BY StepKeepsInv, Unbounded DEF Next
<1> QED  BY <1>1, <1>2, PTL DEF Spec

\* update_fragment_tx_task: of two workers at most one makes or writes a record.
THEOREM OneWriter == Spec => []WritersExclude
<1>1. IInv => WritersExclude
  BY DEF IInv, HoldsLock, WritersExclude
<1> QED  BY <1>1, RecordInvariant, PTL
-----------------------------------------------------------------------------
(* The order of the statuses, where the answer is saved before any webhook  *)
(* is sent and webhooks come in order.                                      *)

\* An order that has status s may come to have status t.
Upto(s, t) == s = t \/ Rank[s] < Rank[t]

LEMMA UptoFacts ==
    /\ \A s \in Status : Upto(s, s) /\ Upto(None, s)
    /\ \A s, t, u \in Status : Upto(s, t) /\ Upto(t, u) => Upto(s, u)
    /\ \A s \in {"COMPLETED", "FAILED"}, t \in Status : Upto(s, t) => t = s
<1>1. /\ Rank["none"] = 0 /\ Rank["CREATED"] = 1 /\ Rank["PENDING"] = 2
      /\ Rank["BLOCKCHAIN_SENT"] = 3 /\ Rank["COMPLETED"] = 4 /\ Rank["FAILED"] = 4
  BY DEF Rank
<1>2. Status = {"none", "CREATED", "PENDING", "BLOCKCHAIN_SENT", "COMPLETED", "FAILED"}
  BY DEF Status, FragmentStatus, None
<1>3. \A s \in Status : Rank[s] \in 0..4 /\ (s # "none" => Rank["none"] < Rank[s])
  BY <1>1, <1>2
<1>4. \A s, t, u \in Status : Upto(s, t) /\ Upto(t, u) => Upto(s, u)
  BY <1>3 DEF Upto
<1>5. \A s \in {"COMPLETED", "FAILED"}, t \in Status : Upto(s, t) => t = s
  BY <1>1, <1>3 DEF Upto
<1>6. \A s \in Status : Upto(s, s) /\ Upto(None, s)
  BY <1>3 DEF Upto, None
<1> QED  BY <1>4, <1>5, <1>6

\* What is told of an order, in the record, under the keys and on the way, is no further
\* than the order; the answer is told first, and spent when there is a record.
KeysInOrder(x) ==
    /\ inquiry[x] = None /\ key[x]["poll"] = None
    /\ order[x] = None => answer[x] = None
    /\ order[x] = None \/ answer[x] # None =>
          /\ queue[x] = 0 /\ record[x] = None
          /\ key[x]["webhook"] = None /\ key[x]["creation"] = None
          /\ \A w \in Worker : pc[w] # "idle" => at[w] # x
    /\ Upto(record[x], order[x])
    /\ Upto(answer[x], order[x])
    /\ Upto(key[x]["creation"], order[x])
    /\ key[x]["webhook"] # None =>
          /\ Upto(record[x], key[x]["webhook"])
          /\ Upto(key[x]["creation"], key[x]["webhook"])
          /\ Upto(key[x]["webhook"], order[x])
    /\ record[x] # None => key[x]["creation"] = None

\* So is what a task has taken, and it is no further than what a webhook has told since.
WebhookInOrder(w) ==
    taken[w]["webhook"] # None =>
        /\ Upto(record[at[w]], taken[w]["webhook"])
        /\ Upto(key[at[w]]["creation"], taken[w]["webhook"])
        /\ Upto(taken[w]["webhook"], order[at[w]])
        /\ key[at[w]]["webhook"] # None => Upto(taken[w]["webhook"], key[at[w]]["webhook"])

AnswerInOrder(w) ==
    taken[w]["creation"] # None =>
        /\ record[at[w]] = None
        /\ Upto(taken[w]["creation"], order[at[w]])
        /\ key[at[w]]["webhook"] # None => Upto(taken[w]["creation"], key[at[w]]["webhook"])

WorkInOrder(w) ==
    /\ taken[w]["poll"] = None
    /\ WebhookInOrder(w) /\ AnswerInOrder(w)
    /\ pc[w] \in {"take_poll", "take_creation"} => taken[w]["creation"] = None
    /\ pc[w] \in {"read", "create", "write"} => key[at[w]]["creation"] = None
    /\ pc[w] = "create" => record[at[w]] = None /\ NewStatus(w) # None
    /\ pc[w] = "write" => record[at[w]] \notin {None, NewStatus(w)} /\ NewStatus(w) # None

InOrderInv ==
    /\ IInv
    /\ \A x \in Tx : KeysInOrder(x)
    /\ \A w \in Worker : IF pc[w] = "idle" THEN taken[w] = Empty ELSE WorkInOrder(w)

\* At first nothing is told.
LEMMA InOrderInit == Init => InOrderInv
<1> SUFFICES ASSUME Init PROVE InOrderInv
  OBVIOUS
<1>1. None \in Status /\ Upto(None, None)
  BY UptoFacts DEF Status
<1>2. ASSUME NEW x \in Tx  PROVE KeysInOrder(x)
  BY <1>1 DEF Init, KeysInOrder, Empty, Source
<1> QED  BY <1>2, InitInv DEF Init, InOrderInv

\* The statuses an invariant of this kind speaks of.
LEMMA Statuses ==
    ASSUME TypeOK, NEW x \in Tx
    PROVE  /\ order[x] \in Status /\ answer[x] \in Status /\ record[x] \in Status
           /\ key[x]["webhook"] \in Status /\ key[x]["creation"] \in Status
           /\ key[x]["poll"] \in Status /\ None \in Status
           /\ \A w \in Worker : taken[w]["webhook"] \in Status /\ taken[w]["creation"] \in Status
BY DEF TypeOK, Status, Source

\* A step at one order leaves what is said of the others.
LEMMA Elsewhere ==
    ASSUME InOrderInv, IInv', NEW x \in Tx,
           \A y \in Tx \ {x} :
              /\ order'[y] = order[y] /\ answer'[y] = answer[y] /\ inquiry'[y] = inquiry[y]
              /\ key'[y] = key[y] /\ queue'[y] = queue[y] /\ record'[y] = record[y],
           \A v \in Worker :
              at'[v] # x /\ pc'[v] # "idle" => pc'[v] = pc[v] /\ at'[v] = at[v] /\ taken'[v] = taken[v],
           \A v \in Worker : pc'[v] = "idle" => taken'[v] = Empty,
           KeysInOrder(x)',
           \A v \in Worker : at'[v] = x /\ pc'[v] # "idle" => WorkInOrder(v)'
    PROVE  InOrderInv'
<1>1. ASSUME NEW y \in Tx \ {x}  PROVE KeysInOrder(y)'
  <2>1. KeysInOrder(y)
    BY DEF InOrderInv
  <2>2. \A v \in Worker : pc'[v] # "idle" /\ at'[v] = y => pc[v] # "idle" /\ at[v] = y
    OBVIOUS
  <2> QED  BY <2>1, <2>2 DEF KeysInOrder
<1>2. ASSUME NEW v \in Worker, pc'[v] # "idle", at'[v] # x  PROVE WorkInOrder(v)'
  <2>1. pc'[v] = pc[v] /\ at'[v] = at[v] /\ taken'[v] = taken[v]
    BY <1>2
  <2>2. at[v] \in Tx \ {x} /\ WorkInOrder(v)
    BY <1>2, <2>1 DEF InOrderInv, IInv, TypeOK
  <2>3. order'[at[v]] = order[at[v]] /\ key'[at[v]] = key[at[v]] /\ record'[at[v]] = record[at[v]]
    BY <2>2
  <2> QED  BY <2>1, <2>2, <2>3 DEF WorkInOrder, WebhookInOrder, AnswerInOrder, NewStatus, Chosen
<1> QED  BY <1>1, <1>2 DEF InOrderInv

\* An order goes on, or is placed: what was said of it is behind it.
LEMMA OrderKeepsOrder ==
    ASSUME InOrderInv, NEW x \in Tx,
           OrderAdvances(x) \/ (PlaceOrder(x) /\ answer'[x] # None)
    PROVE  InOrderInv'
<1>1. IInv'
  BY OutsideKeepsInv DEF InOrderInv
<1>2. /\ Upto(order[x], order'[x]) /\ order' = [order EXCEPT ![x] = order'[x]]
      /\ order'[x] # None /\ order'[x] \in Status
  <2>1. PICK status \in FragmentStatus :
          order' = [order EXCEPT ![x] = status] /\ (order[x] = None \/ Rank[status] > Rank[order[x]])
    BY DEF OrderAdvances, PlaceOrder, FragmentStatus
  <2>2. status \in Status /\ status # None
    BY DEF Status, FragmentStatus, None
  <2>3. order \in [Tx -> Status] /\ Rank[order[x]] \in Nat /\ Rank[status] \in Nat
    BY <2>2 DEF InOrderInv, IInv, TypeOK, Rank, Status, FragmentStatus, None
  <2>4. Upto(order[x], status)
    BY <2>1, <2>2, <2>3, UptoFacts DEF Upto
  <2> QED  BY <2>1, <2>2, <2>3, <2>4
<1>3. UNCHANGED <<inquiry, key, queue, record, pc, at, taken>>
  BY DEF OrderAdvances, PlaceOrder, tasks
<1>4. /\ order[x] # None => answer' = answer
      /\ order[x] = None => answer' = [answer EXCEPT ![x] = order'[x]]
  <2>1. CASE OrderAdvances(x)
    BY <2>1 DEF OrderAdvances
  <2>2. CASE PlaceOrder(x) /\ answer'[x] # None
    <3>1. order[x] = None /\ answer[x] = None
      BY <2>2 DEF PlaceOrder, InOrderInv, KeysInOrder
    <3>2. order \in [Tx -> Status]
      BY DEF InOrderInv, IInv, TypeOK
    <3>3. PICK status \in {"CREATED", "FAILED"} :
            /\ order' = [order EXCEPT ![x] = status]
            /\ answer' = [answer EXCEPT ![x] = status] \/ answer' = answer
      BY <2>2 DEF PlaceOrder
    <3> QED  BY <2>2, <3>1, <3>2, <3>3
  <2> QED  BY <2>1, <2>2
<1>5. \A s \in Status : Upto(s, order[x]) => Upto(s, order'[x])
  BY <1>2, UptoFacts, Statuses DEF InOrderInv, IInv
<1>6. KeysInOrder(x)'
  <2>1. KeysInOrder(x)
    BY DEF InOrderInv
  <2>2. answer'[x] \in {answer[x], order'[x]} /\ (order[x] # None => answer'[x] = answer[x])
    BY <1>4 DEF InOrderInv, IInv, TypeOK
  <2>3. Upto(answer'[x], order'[x])
    BY <1>2, <1>5, <2>1, <2>2, UptoFacts, Statuses DEF KeysInOrder, InOrderInv, IInv
  <2> QED  BY <1>2, <1>3, <1>5, <2>1, <2>2, <2>3, Statuses DEF KeysInOrder, InOrderInv, IInv
<1>7. ASSUME NEW v \in Worker, at'[v] = x, pc'[v] # "idle"  PROVE WorkInOrder(v)'
  <2>1. WorkInOrder(v) /\ at[v] = x
    BY <1>3, <1>7 DEF InOrderInv
  <2> QED  BY <1>3, <1>5, <2>1, Statuses
           DEF WorkInOrder, WebhookInOrder, AnswerInOrder, NewStatus, Chosen, InOrderInv, IInv
<1>8. \A y \in Tx \ {x} : order'[y] = order[y] /\ answer'[y] = answer[y]
  BY <1>2, <1>4 DEF InOrderInv, IInv, TypeOK
<1>9. \A v \in Worker : pc'[v] = "idle" => taken'[v] = Empty
  BY <1>3 DEF InOrderInv
<1> QED  BY <1>1, <1>3, <1>6, <1>7, <1>8, <1>9, Elsewhere

\* The answer is told: nothing else has been.
LEMMA AnswerKeepsOrder ==
    ASSUME InOrderInv, NEW x \in Tx, SaveAnswer(x)
    PROVE  InOrderInv'
<1>1. IInv'
  BY OutsideKeepsInv DEF InOrderInv
<1>2. /\ key' = [key EXCEPT ![x]["creation"] = answer[x]]
      /\ queue' = [queue EXCEPT ![x] = @ + 1] /\ answer' = [answer EXCEPT ![x] = None]
      /\ answer[x] # None
      /\ UNCHANGED <<order, inquiry, record, pc, at, taken>>
  BY DEF SaveAnswer, Tell, tasks
<1>3. /\ key'[x]["creation"] = answer[x] /\ key'[x]["webhook"] = key[x]["webhook"]
      /\ key'[x]["poll"] = key[x]["poll"] /\ answer'[x] = None
  BY <1>2 DEF InOrderInv, IInv, TypeOK, Source
<1>4. KeysInOrder(x)
  BY DEF InOrderInv
<1>5. KeysInOrder(x)'
  BY <1>2, <1>3, <1>4, UptoFacts, Statuses DEF KeysInOrder, InOrderInv, IInv
<1>6. \A v \in Worker : pc[v] # "idle" => at[v] # x
  BY <1>2, <1>4 DEF KeysInOrder
<1>7. \A y \in Tx \ {x} : key'[y] = key[y] /\ queue'[y] = queue[y] /\ answer'[y] = answer[y]
  BY <1>2 DEF InOrderInv, IInv, TypeOK
<1>8. \A v \in Worker : pc'[v] = "idle" => taken'[v] = Empty
  BY <1>2 DEF InOrderInv
<1> QED  BY <1>1, <1>2, <1>5, <1>6, <1>7, <1>8, Elsewhere

\* A webhook tells how far the order is.
LEMMA WebhookKeepsOrder ==
    ASSUME InOrderInv, NEW x \in Tx, WebhookComes(x), answer[x] = None,
           Tell(x, "webhook", order[x])
    PROVE  InOrderInv'
<1>1. IInv'
  BY OutsideKeepsInv DEF InOrderInv
<1>2. /\ key' = [key EXCEPT ![x]["webhook"] = order[x]]
      /\ queue' = [queue EXCEPT ![x] = @ + 1] /\ order[x] # None /\ answer[x] = None
      /\ UNCHANGED <<order, answer, inquiry, record, pc, at, taken>>
  BY DEF WebhookComes, Tell, tasks
<1>3. /\ key'[x]["creation"] = key[x]["creation"] /\ key'[x]["webhook"] = order[x]
      /\ key'[x]["poll"] = key[x]["poll"]
  BY <1>2 DEF InOrderInv, IInv, TypeOK, Source
<1>4. KeysInOrder(x)
  BY DEF InOrderInv
<1>5. KeysInOrder(x)'
  BY <1>2, <1>3, <1>4, UptoFacts, Statuses DEF KeysInOrder, InOrderInv, IInv
<1>6. ASSUME NEW v \in Worker, at'[v] = x, pc'[v] # "idle"  PROVE WorkInOrder(v)'
  <2>1. WorkInOrder(v) /\ at[v] = x
    BY <1>2, <1>6 DEF InOrderInv
  <2> QED  BY <1>2, <1>3, <2>1
           DEF WorkInOrder, WebhookInOrder, AnswerInOrder, NewStatus, Chosen
<1>7. \A y \in Tx \ {x} : key'[y] = key[y] /\ queue'[y] = queue[y]
  BY <1>2 DEF InOrderInv, IInv, TypeOK
<1>8. \A v \in Worker : pc'[v] = "idle" => taken'[v] = Empty
  BY <1>2 DEF InOrderInv
<1> QED  BY <1>1, <1>2, <1>5, <1>6, <1>7, <1>8, Elsewhere

\* At an order that somebody works on, the answer has been told.
LEMMA AtWork ==
    ASSUME InOrderInv, NEW w \in Worker, pc[w] # "idle"
    PROVE  /\ at[w] \in Tx /\ KeysInOrder(at[w]) /\ WorkInOrder(w)
           /\ order[at[w]] # None /\ answer[at[w]] = None
           /\ \A v \in Worker : pc[v] # "idle" /\ at[v] = at[w] => v = w
BY DEF InOrderInv, IInv, TypeOK, HoldsLock, KeysInOrder

\* A task takes what is under the keys, the webhook's status first.
LEMMA StartKeepsOrder ==
    ASSUME InOrderInv, NEW w \in Worker, NEW x \in Tx, Start(w, x)
    PROVE  InOrderInv'
<1>1. IInv'
  BY StartKeepsInv DEF InOrderInv
<1>2. /\ at' = [at EXCEPT ![w] = x] /\ at'[w] = x /\ pc[w] = "idle"
      /\ pc' = [pc EXCEPT ![w] = "take_poll"]
      /\ taken' = [taken EXCEPT ![w]["webhook"] = key[x]["webhook"]]
      /\ key' = [key EXCEPT ![x]["webhook"] = None]
      /\ queue[x] # 0 /\ queue' = [queue EXCEPT ![x] = @ - 1]
      /\ UNCHANGED <<order, answer, inquiry, record>>
  BY DEF Start, Taking, InOrderInv, IInv, TypeOK, external
<1>3. /\ key'[x]["creation"] = key[x]["creation"] /\ key'[x]["webhook"] = None
      /\ key'[x]["poll"] = key[x]["poll"]
  BY <1>2 DEF InOrderInv, IInv, TypeOK, Source
<1>4. KeysInOrder(x) /\ order[x] # None /\ answer[x] = None
  BY <1>2 DEF InOrderInv, KeysInOrder
<1>5. KeysInOrder(x)'
  BY <1>2, <1>3, <1>4 DEF KeysInOrder
<1>6. \A v \in Worker : pc'[v] # "idle" /\ at'[v] = x => v = w
  BY <1>1, <1>2 DEF IInv, TypeOK, HoldsLock
<1>7. /\ pc'[w] = "take_poll" /\ taken'[w]["webhook"] = key[x]["webhook"]
      /\ taken'[w]["poll"] = None /\ taken'[w]["creation"] = None
  BY <1>2 DEF InOrderInv, IInv, TypeOK, Source, Empty
<1>8. WorkInOrder(w)'
  BY <1>2, <1>3, <1>4, <1>7 DEF WorkInOrder, WebhookInOrder, AnswerInOrder, KeysInOrder
<1>9. \A y \in Tx \ {x} : key'[y] = key[y] /\ queue'[y] = queue[y]
  BY <1>2 DEF InOrderInv, IInv, TypeOK
<1>10. \A v \in Worker \ {w} : pc'[v] = pc[v] /\ at'[v] = at[v] /\ taken'[v] = taken[v]
  BY <1>2 DEF InOrderInv, IInv, TypeOK
<1>11. \A v \in Worker : pc'[v] = "idle" => taken'[v] = Empty
  BY <1>2, <1>7, <1>10 DEF InOrderInv
<1> QED  BY <1>1, <1>2, <1>5, <1>6, <1>8, <1>9, <1>10, <1>11, Elsewhere

LEMMA TakingKeepsOrder ==
    ASSUME InOrderInv, NEW w \in Worker, TakePoll(w) \/ TakeCreation(w)
    PROVE  InOrderInv'
<1> PICK x \in Tx : x = at[w]
  BY DEF InOrderInv, IInv, TypeOK
<1>1. IInv'
  BY TakingKeepsInv DEF InOrderInv
<1>2. pc[w] \in {"take_poll", "take_creation"} /\ UNCHANGED <<order, answer, inquiry, record, queue, at>>
  BY DEF TakePoll, TakeCreation, external
<1>3. /\ x \in Tx /\ KeysInOrder(x) /\ WorkInOrder(w) /\ order[x] # None /\ answer[x] = None
      /\ \A v \in Worker : pc[v] # "idle" /\ at[v] = x => v = w
  BY <1>2, AtWork
<1>4. PICK s \in {"poll", "creation"} :
        /\ taken' = [taken EXCEPT ![w][s] = key[x][s]]
        /\ key' = [key EXCEPT ![x][s] = None]
        /\ IF s = "poll" THEN pc[w] = "take_poll" /\ pc' = [pc EXCEPT ![w] = "take_creation"]
                         ELSE pc[w] = "take_creation" /\ pc' = [pc EXCEPT ![w] = "read"]
  BY <1>2 DEF TakePoll, TakeCreation, Taking
<1>5. /\ key'[x]["webhook"] = key[x]["webhook"] /\ key'[x]["poll"] = None
      /\ key'[x]["creation"] = IF s = "creation" THEN None ELSE key[x]["creation"]
  BY <1>3, <1>4 DEF InOrderInv, IInv, TypeOK, Source, KeysInOrder
<1>6. /\ taken'[w]["webhook"] = taken[w]["webhook"] /\ taken'[w]["poll"] = None
      /\ taken'[w]["creation"] = IF s = "creation" THEN key[x]["creation"] ELSE None
      /\ pc'[w] = IF s = "creation" THEN "read" ELSE "take_creation"
  BY <1>3, <1>4 DEF InOrderInv, IInv, TypeOK, Source, KeysInOrder, WorkInOrder
<1>7. \A v \in Worker \ {w} : pc'[v] = pc[v] /\ at'[v] = at[v] /\ taken'[v] = taken[v]
  BY <1>2, <1>4 DEF InOrderInv, IInv, TypeOK
<1>8. \A y \in Tx \ {x} : key'[y] = key[y]
  BY <1>4 DEF InOrderInv, IInv, TypeOK
<1>9. Upto(None, order[x]) /\ (key[x]["webhook"] # None => Upto(None, key[x]["webhook"]))
      /\ (taken[w]["webhook"] # None => Upto(None, taken[w]["webhook"]))
  BY <1>3, UptoFacts, Statuses DEF InOrderInv, IInv
<1>10. \A v \in Worker : pc'[v] = "idle" => taken'[v] = Empty
  BY <1>6, <1>7 DEF InOrderInv
<1>11. KeysInOrder(x)'
  BY <1>2, <1>3, <1>5, <1>9 DEF KeysInOrder
<1>12. at[w] = x /\ at'[w] = x
  BY <1>2
<1>13. WorkInOrder(w)'
  BY <1>2, <1>3, <1>5, <1>6, <1>9, <1>12
     DEF WorkInOrder, WebhookInOrder, AnswerInOrder, KeysInOrder
<1> QED  BY <1>1, <1>2, <1>3, <1>6, <1>7, <1>8, <1>10, <1>11, <1>13, Elsewhere

\* What a task writes comes from a webhook; only where there is no record yet it may be
\* the answer.
LEMMA WhatIsWritten ==
    ASSUME InOrderInv, NEW w \in Worker, pc[w] # "idle", NewStatus(w) # None
    PROVE  \/ /\ Chosen(w) = "webhook" /\ NewStatus(w) = taken[w]["webhook"]
              /\ taken[w]["webhook"] # None
           \/ /\ Chosen(w) = "creation" /\ NewStatus(w) = taken[w]["creation"]
              /\ taken[w]["creation"] # None /\ record[at[w]] = None
<1>1. taken[w]["poll"] = None /\ AnswerInOrder(w)
  BY AtWork DEF WorkInOrder
<1> QED  BY <1>1 DEF NewStatus, Chosen, AnswerInOrder

\* A task ends: it has put back what it could not write, or left the keys, and the record
\* is as it was or has the status the task chose.
LEMMA EndKeepsOrder ==
    ASSUME InOrderInv, IInv', NEW w \in Worker, pc[w] # "idle", Leave(w) \/ Die(w),
           key' = key \/ (Fail(w) /\ record' = record /\ pc[w] \in {"read", "create", "write"} /\ NewStatus(w) # None),
           \/ record' = record
           \/ /\ record' = [record EXCEPT ![at[w]] = NewStatus(w)]
              /\ NewStatus(w) # None /\ pc[w] \in {"create", "write"} /\ key' = key,
           queue' = queue \/ queue' = [queue EXCEPT ![at[w]] = @ + 1],
           UNCHANGED <<order, answer, inquiry>>
    PROVE  InOrderInv'
<1> PICK x \in Tx : x = at[w]
  BY DEF InOrderInv, IInv, TypeOK
<1>1. /\ KeysInOrder(x) /\ WorkInOrder(w) /\ order[x] # None /\ answer[x] = None
      /\ \A v \in Worker : pc[v] # "idle" /\ at[v] = x => v = w
  BY AtWork
<1>2. /\ pc' = [pc EXCEPT ![w] = "idle"] /\ taken' = [taken EXCEPT ![w] = Empty] /\ at' = at
  BY DEF Leave, Die
<1>3. /\ \A v \in Worker \ {w} : pc'[v] = pc[v] /\ at'[v] = at[v] /\ taken'[v] = taken[v]
      /\ pc'[w] = "idle" /\ taken'[w] = Empty
  BY <1>2 DEF InOrderInv, IInv, TypeOK
<1>4. \A v \in Worker : pc'[v] = "idle" => taken'[v] = Empty
  BY <1>3 DEF InOrderInv
<1>5. \A v \in Worker : ~ (pc'[v] # "idle" /\ at'[v] = x)
  BY <1>1, <1>3
<1>6. \A y \in Tx \ {x} : key'[y] = key[y] /\ record'[y] = record[y] /\ queue'[y] = queue[y]
  BY DEF InOrderInv, IInv, TypeOK, Fail
<1>7. CASE record' = record /\ key' = key
  <2>1. KeysInOrder(x)'
    BY <1>1, <1>5, <1>7 DEF KeysInOrder
  <2> QED  BY <1>3, <1>4, <1>5, <1>6, <2>1, Elsewhere
<1>8. CASE record' = [record EXCEPT ![at[w]] = NewStatus(w)] /\ NewStatus(w) # None /\ key' = key
           /\ pc[w] \in {"create", "write"}
  <2>1. record'[x] = NewStatus(w)
    BY <1>8 DEF InOrderInv, IInv, TypeOK
  <2>2. /\ Upto(NewStatus(w), order[x]) /\ key[x]["creation"] = None
        /\ key[x]["webhook"] # None => Upto(NewStatus(w), key[x]["webhook"])
    BY <1>1, <1>8, WhatIsWritten DEF WorkInOrder, WebhookInOrder, AnswerInOrder
  <2>3. KeysInOrder(x)'
    BY <1>1, <1>5, <1>8, <2>1, <2>2 DEF KeysInOrder
  <2> QED  BY <1>3, <1>4, <1>5, <1>6, <2>3, Elsewhere
<1>9. CASE Fail(w) /\ record' = record /\ pc[w] \in {"read", "create", "write"} /\ NewStatus(w) # None
  <2>1. KeysInOrder(x)'
    <3>1. key[x]["creation"] = None
      BY <1>1, <1>9 DEF WorkInOrder
    <3>2. CASE Chosen(w) = "webhook" /\ key[x]["webhook"] = None
      <4>1. /\ key'[x]["webhook"] = taken[w]["webhook"] /\ key'[x]["creation"] = None
            /\ key'[x]["poll"] = None /\ taken[w]["webhook"] # None
        BY <1>1, <1>9, <3>1, <3>2, WhatIsWritten
           DEF Fail, InOrderInv, IInv, TypeOK, Source, KeysInOrder
      <4>2. /\ Upto(record[x], taken[w]["webhook"]) /\ Upto(key[x]["creation"], taken[w]["webhook"])
            /\ Upto(taken[w]["webhook"], order[x])
        BY <1>1, <4>1 DEF WorkInOrder, WebhookInOrder
      <4> QED  BY <1>1, <1>5, <1>9, <3>1, <4>1, <4>2 DEF KeysInOrder
    <3>3. CASE Chosen(w) = "creation"
      <4>1. taken[w]["creation"] # None /\ record[x] = None /\ NewStatus(w) = taken[w]["creation"]
        BY <1>9, <3>3, WhatIsWritten
      <4>2. /\ key'[x]["creation"] = taken[w]["creation"] /\ key'[x]["webhook"] = key[x]["webhook"]
            /\ key'[x]["poll"] = None
        BY <1>1, <1>9, <3>1, <3>3, <4>1 DEF Fail, InOrderInv, IInv, TypeOK, Source, KeysInOrder
      <4>3. /\ Upto(taken[w]["creation"], order[x])
            /\ key[x]["webhook"] # None => Upto(taken[w]["creation"], key[x]["webhook"])
        BY <1>1, <4>1 DEF WorkInOrder, AnswerInOrder
      <4> QED  BY <1>1, <1>5, <1>9, <4>1, <4>2, <4>3 DEF KeysInOrder
    <3>4. CASE Chosen(w) = "webhook" /\ key[x]["webhook"] # None
      <4>1. key' = key
        BY <1>9, <3>4 DEF Fail
      <4> QED  BY <1>1, <1>5, <1>9, <4>1 DEF KeysInOrder
    <3> QED  BY <1>9, <3>2, <3>3, <3>4, WhatIsWritten
  <2> QED  BY <1>3, <1>4, <1>5, <1>6, <1>9, <2>1, Elsewhere
<1> QED  BY <1>7, <1>8, <1>9

\* Reading, making, writing and sending round again; a task that dies loses what it took.
LEMMA WorkKeepsOrder ==
    ASSUME InOrderInv, NEW w \in Worker,
           Read(w) \/ Create(w) \/ Write(w) \/ Retries(w) \/ Die(w)
    PROVE  InOrderInv'
<1>1. IInv'
  BY WorkKeepsInv, DeathKeepsInv DEF InOrderInv
<1>2. pc[w] # "idle" /\ UNCHANGED <<order, answer, inquiry>>
      /\ (queue' = queue \/ queue' = [queue EXCEPT ![at[w]] = @ + 1])
  BY DEF Read, Create, Write, Retries, Die, external
<1>3. WorkInOrder(w)
  BY <1>2, AtWork
<1>4. CASE Read(w) /\ ~ Succeed(w)
  <2>1. /\ pc[w] = "read" /\ NewStatus(w) \notin {None, record[at[w]]}
        /\ Goto(w, IF record[at[w]] = None THEN "create" ELSE "write")
        /\ UNCHANGED <<record, queue>>
    BY <1>4 DEF Read
  <2>2. /\ UNCHANGED <<lock, at, taken, key, record, queue>>
        /\ pc' = [pc EXCEPT ![w] = IF record[at[w]] = None THEN "create" ELSE "write"]
    BY <2>1 DEF Goto
  <2>3. pc'[w] = (IF record[at[w]] = None THEN "create" ELSE "write")
        /\ (\A v \in Worker \ {w} : pc'[v] = pc[v])
    BY <2>2 DEF InOrderInv, IInv, TypeOK
  <2> PICK x \in Tx : x = at[w]
    BY DEF InOrderInv, IInv, TypeOK
  <2>4. KeysInOrder(x)'
    <3>1. KeysInOrder(x) /\ order[x] # None /\ answer[x] = None
      BY <1>2, AtWork
    <3> QED  BY <1>2, <2>2, <3>1 DEF KeysInOrder
  <2>5. WorkInOrder(w)'
    BY <1>2, <1>3, <2>1, <2>2, <2>3
       DEF WorkInOrder, WebhookInOrder, AnswerInOrder, NewStatus, Chosen
  <2>6. \A v \in Worker : at'[v] = x /\ pc'[v] # "idle" => v = w
    BY <1>2, <2>2, <2>3, AtWork
  <2>7. \A v \in Worker : pc'[v] = "idle" => taken'[v] = Empty
    BY <2>2, <2>3 DEF InOrderInv
  <2>8. \A v \in Worker : at'[v] # x => pc'[v] = pc[v] /\ at'[v] = at[v] /\ taken'[v] = taken[v]
    BY <2>2, <2>3
  <2> QED  BY <1>1, <1>2, <2>2, <2>4, <2>5, <2>6, <2>7, <2>8, Elsewhere
<1>5. CASE Read(w) /\ Succeed(w)
  <2>1. record' = record /\ key' = key /\ Leave(w)
    BY <1>5 DEF Read, Succeed
  <2> QED  BY <1>1, <1>2, <2>1, EndKeepsOrder
<1>6. CASE Create(w)
  <2>1. record[at[w]] = None /\ pc[w] = "create" /\ NewStatus(w) # None
    BY <1>3, <1>6 DEF Create, WorkInOrder
  <2>2. Leave(w) /\ key' = key /\ record' = [record EXCEPT ![at[w]] = NewStatus(w)]
    BY <1>6, <2>1 DEF Create, Succeed
  <2> QED  BY <1>1, <1>2, <2>1, <2>2, EndKeepsOrder
<1>7. CASE Write(w)
  <2>1. record[at[w]] # NewStatus(w) /\ pc[w] = "write" /\ NewStatus(w) # None
    BY <1>3, <1>7 DEF Write, WorkInOrder
  <2>2. Leave(w) /\ key' = key /\ record' = [record EXCEPT ![at[w]] = NewStatus(w)]
    BY <1>7, <2>1 DEF Write, Succeed
  <2> QED  BY <1>1, <1>2, <2>1, <2>2, EndKeepsOrder
<1>8. CASE Retries(w)
  <2>1. Leave(w) /\ Fail(w) /\ record' = record /\ NewStatus(w) # None
        /\ pc[w] \in {"read", "create", "write"}
    BY <1>8 DEF Retries, Fail
  <2> QED  BY <1>1, <1>2, <2>1, EndKeepsOrder
<1>9. CASE Die(w)
  <2>1. record' = record /\ key' = key
    BY <1>9 DEF Die
  <2> QED  BY <1>1, <1>2, <1>9, <2>1, EndKeepsOrder
<1> QED  BY <1>4, <1>5, <1>6, <1>7, <1>8, <1>9

\* The steps of the instance where the answer is saved first and webhooks come in order.
InOrderStep ==
    \/ \E x \in Tx :
          \/ OrderAdvances(x) \/ SaveAnswer(x) \/ LockRunsOut(x) \/ PollPushes(x)
          \/ PlaceOrder(x) /\ answer'[x] # None
          \/ WebhookComes(x) /\ answer[x] = None /\ Tell(x, "webhook", order[x])
    \/ \E w \in Worker : WorkerStep(w) \/ Retries(w) \/ Die(w) \/ \E x \in Tx : Start(w, x)

LEMMA InOrderSteps == IInv /\ Ordered!Next => InOrderStep
<1> SUFFICES ASSUME IInv, Ordered!Next  PROVE InOrderStep
  OBVIOUS
<1>1. ASSUME NEW x \in Tx, Ordered!PlaceOrder(x)  PROVE PlaceOrder(x) /\ answer'[x] # None
  <2>1. PICK status \in {"CREATED", "FAILED"} :
          order' = [order EXCEPT ![x] = status] /\ answer' = [answer EXCEPT ![x] = status]
    BY <1>1 DEF Ordered!PlaceOrder
  <2>2. answer'[x] # None
    BY <2>1 DEF IInv, TypeOK, None
  <2>3. order[x] = None /\ UNCHANGED <<inquiry, told, key, queue, webhooks, polls, tasks>>
    BY <1>1 DEF Ordered!PlaceOrder, Ordered!tasks, tasks, Ordered!None, None
  <2> QED  BY <2>1, <2>2, <2>3 DEF PlaceOrder
<1>2. ASSUME NEW x \in Tx, Ordered!Webhook(x)
      PROVE  WebhookComes(x) /\ answer[x] = None /\ Tell(x, "webhook", order[x])
  BY <1>2 DEF Ordered!Webhook, Ordered!Tell, Ordered!tasks, Ordered!None, Ordered!FragmentStatus,
              WebhookComes, Tell, tasks, None, FragmentStatus
<1>3. ASSUME NEW x \in Tx, Ordered!PollAsks(x)  PROVE FALSE
  BY <1>3 DEF Ordered!PollAsks, IInv, TypeOK
<1>4. ASSUME NEW x \in Tx,
             \/ Ordered!OrderAdvances(x) \/ Ordered!SaveAnswer(x)
             \/ Ordered!PollPushes(x) \/ Ordered!LockRunsOut(x)
      PROVE  OrderAdvances(x) \/ SaveAnswer(x) \/ PollPushes(x) \/ LockRunsOut(x)
  BY <1>4 DEF Ordered!OrderAdvances, Ordered!SaveAnswer, Ordered!PollPushes, Ordered!LockRunsOut,
              Ordered!Tell, Ordered!tasks, Ordered!external, Ordered!None, Ordered!FragmentStatus,
              Ordered!Rank, OrderAdvances, SaveAnswer, PollPushes, LockRunsOut, Tell, tasks, external,
              None, FragmentStatus, Rank
<1>5. ASSUME NEW w \in Worker, NEW x \in Tx, Ordered!Start(w, x)  PROVE Start(w, x)
  BY <1>5 DEF Ordered!Start, Ordered!Taking, Ordered!external, Ordered!None, Start, Taking, external, None
<1>6. ASSUME NEW w \in Worker, Ordered!Retry(w)  PROVE Retries(w)
  BY <1>6 DEF Ordered!Retry, Ordered!Fail, Ordered!Leave, Ordered!NewStatus, Ordered!Chosen,
              Ordered!Empty, Ordered!Source, Ordered!external, Ordered!None,
              Retries, Fail, Leave, NewStatus, Chosen, Empty, Source, external, None
<1>7. ASSUME NEW w \in Worker, Ordered!Die(w)  PROVE Die(w)
  BY <1>7 DEF Ordered!Die, Ordered!Empty, Ordered!Source, Ordered!external, Ordered!None,
              Die, Empty, Source, external, None
<1>8. ASSUME NEW w \in Worker, Ordered!WorkerStep(w)  PROVE WorkerStep(w)
  <2>1. Ordered!Succeed(w) = Succeed(w) /\ Ordered!Fail(w) = Fail(w)
    BY DEF Ordered!Succeed, Ordered!Fail, Ordered!Leave, Ordered!NewStatus, Ordered!Chosen,
           Ordered!Empty, Ordered!Source, Ordered!None,
           Succeed, Fail, Leave, NewStatus, Chosen, Empty, Source, None
  <2>2. Ordered!NewStatus(w) = NewStatus(w) /\ Ordered!None = None
    BY DEF Ordered!NewStatus, Ordered!Chosen, Ordered!None, NewStatus, Chosen, None
  <2>3. CASE Ordered!TakePoll(w) \/ Ordered!TakeCreation(w)
    BY <2>3 DEF Ordered!TakePoll, Ordered!TakeCreation, Ordered!Taking, Ordered!external,
                Ordered!None, WorkerStep, TakePoll, TakeCreation, Taking, external, None
  <2>4. CASE Ordered!Read(w)
    BY <2>1, <2>2, <2>4 DEF Ordered!Read, Ordered!Goto, Ordered!external, WorkerStep, Read, Goto, external
  <2>5. CASE Ordered!Create(w)
    BY <2>1, <2>2, <2>5 DEF Ordered!Create, Ordered!external, WorkerStep, Create, external
  <2>6. CASE Ordered!Write(w)
    BY <2>1, <2>2, <2>6 DEF Ordered!Write, Ordered!external, WorkerStep, Write, external
  <2> QED  BY <1>8, <2>3, <2>4, <2>5, <2>6 DEF Ordered!WorkerStep
<1> QED  BY <1>1, <1>2, <1>3, <1>4, <1>5, <1>6, <1>7, <1>8 DEF Ordered!Next, InOrderStep

LEMMA InOrderStepKeeps ==
    ASSUME InOrderInv, InOrderStep \/ UNCHANGED vars
    PROVE  InOrderInv' /\ StaysClosed
<1>1. CASE UNCHANGED vars
  <2>1. IInv'
    BY <1>1, StepKeepsInv DEF InOrderInv
  <2>2. /\ \A x \in Tx : KeysInOrder(x)' = KeysInOrder(x)
        /\ \A w \in Worker : WorkInOrder(w)' = WorkInOrder(w)
    BY <1>1 DEF vars, KeysInOrder, WorkInOrder, WebhookInOrder, AnswerInOrder, NewStatus, Chosen
  <2> QED  BY <1>1, <2>1, <2>2 DEF vars, InOrderInv, StaysClosed
<1>2. ASSUME NEW x \in Tx, LockRunsOut(x)  PROVE InOrderInv' /\ StaysClosed
  <2>1. IInv'
    BY <1>2, DeathKeepsInv DEF InOrderInv
  <2>2. UNCHANGED <<order, answer, inquiry, key, queue, record, pc, at, taken>>
    BY <1>2 DEF LockRunsOut, external
  <2>3. /\ \A y \in Tx : KeysInOrder(y)' = KeysInOrder(y)
        /\ \A w \in Worker : WorkInOrder(w)' = WorkInOrder(w)
    BY <2>2 DEF KeysInOrder, WorkInOrder, WebhookInOrder, AnswerInOrder, NewStatus, Chosen
  <2> QED  BY <2>1, <2>2, <2>3 DEF InOrderInv, StaysClosed
<1>3. ASSUME NEW x \in Tx, PollPushes(x)  PROVE FALSE
  BY <1>3 DEF PollPushes, InOrderInv, KeysInOrder
<1>4. ASSUME NEW x \in Tx,
             \/ OrderAdvances(x) \/ SaveAnswer(x)
             \/ PlaceOrder(x) /\ answer'[x] # None
             \/ WebhookComes(x) /\ answer[x] = None /\ Tell(x, "webhook", order[x])
      PROVE  InOrderInv' /\ StaysClosed
  <2>1. record' = record
    BY <1>4 DEF OrderAdvances, SaveAnswer, PlaceOrder, WebhookComes, tasks
  <2> QED  BY <1>4, <2>1, OrderKeepsOrder, AnswerKeepsOrder, WebhookKeepsOrder DEF StaysClosed
<1>5. ASSUME NEW w \in Worker,
             TakePoll(w) \/ TakeCreation(w) \/ (\E x \in Tx : Start(w, x))
      PROVE  InOrderInv' /\ StaysClosed
  <2>1. record' = record
    BY <1>5 DEF TakePoll, TakeCreation, Start
  <2> QED  BY <1>5, <2>1, TakingKeepsOrder, StartKeepsOrder DEF StaysClosed
<1>6. ASSUME NEW w \in Worker, Read(w) \/ Create(w) \/ Write(w) \/ Retries(w) \/ Die(w)
      PROVE  InOrderInv' /\ StaysClosed
  <2>1. pc[w] # "idle" /\ (record' = record
          \/ /\ pc[w] \in {"create", "write"} /\ record' = [record EXCEPT ![at[w]] = NewStatus(w)])
    BY <1>6 DEF Read, Create, Write, Retries, Die
  <2>2. at[w] \in Tx /\ WorkInOrder(w) /\ KeysInOrder(at[w])
    BY <2>1, AtWork
  <2>3. CASE pc[w] \in {"create", "write"} /\ record[at[w]] \in {"COMPLETED", "FAILED"}
    <3>1. pc[w] = "write" /\ NewStatus(w) # None /\ record[at[w]] # NewStatus(w)
          /\ record[at[w]] # None
      BY <2>2, <2>3 DEF WorkInOrder, None
    <3>2. Upto(record[at[w]], NewStatus(w)) /\ NewStatus(w) \in Status
      BY <2>1, <2>2, <3>1, WhatIsWritten, Statuses DEF WorkInOrder, WebhookInOrder, InOrderInv, IInv
    <3> QED  BY <2>3, <3>1, <3>2, UptoFacts
  <2>4. CASE pc[w] \notin {"create", "write"} \/ record[at[w]] \notin {"COMPLETED", "FAILED"}
    <3>1. StaysClosed
      BY <2>1, <2>4 DEF StaysClosed, InOrderInv, IInv, TypeOK
    <3> QED  BY <1>6, <3>1, WorkKeepsOrder
  <2> QED  BY <2>3, <2>4
<1>7. ASSUME NEW w \in Worker,
             WorkerStep(w) \/ Retries(w) \/ Die(w) \/ (\E x \in Tx : Start(w, x))
      PROVE  InOrderInv' /\ StaysClosed
  BY <1>5, <1>6, <1>7 DEF WorkerStep
<1>8. ASSUME NEW x \in Tx,
             \/ OrderAdvances(x) \/ SaveAnswer(x) \/ LockRunsOut(x) \/ PollPushes(x)
             \/ PlaceOrder(x) /\ answer'[x] # None
             \/ WebhookComes(x) /\ answer[x] = None /\ Tell(x, "webhook", order[x])
      PROVE  InOrderInv' /\ StaysClosed
  <2>1. CASE LockRunsOut(x)
    BY <1>2, <2>1
  <2>2. CASE PollPushes(x)
    BY <1>3, <2>2
  <2>3. CASE \/ OrderAdvances(x) \/ SaveAnswer(x)
             \/ PlaceOrder(x) /\ answer'[x] # None
             \/ WebhookComes(x) /\ answer[x] = None /\ Tell(x, "webhook", order[x])
    BY <1>4, <2>3
  <2> QED  BY <1>8, <2>1, <2>2, <2>3
<1> QED  BY <1>1, <1>7, <1>8 DEF InOrderStep

\* What holds of both parts of MCFragmentRecord.
PartInv == IInv /\ (part = "in order" => InOrderInv)

\* update_fragment_tx_task: where the answer is saved before any webhook is sent and
\* webhooks come in order, the record of a completed or failed order is not written
\* again, whatever task has waited, failed, been repeated or died meanwhile.
THEOREM ClosedStaysInOrder == RecordSpec => InOrderRecordStays
<1>1. RecordInit => PartInv
  BY InitInv, InOrderInit DEF RecordInit, PartInv
<1>2. ASSUME PartInv, [AnyOrderMoves \/ InOrderMoves]_recordVars
      PROVE  PartInv' /\ (part = "in order" => StaysClosed)
  <2>1. CASE AnyOrderMoves
    <3>1. IInv'
      BY <1>2, <2>1, StepKeepsInv, Unbounded DEF AnyOrderMoves, Next, PartInv
    <3> QED  BY <2>1, <3>1 DEF AnyOrderMoves, PartInv
  <2>2. CASE InOrderMoves
    <3>1. InOrderInv /\ InOrderStep
      BY <1>2, <2>2, InOrderSteps DEF InOrderMoves, PartInv
    <3>2. InOrderInv' /\ StaysClosed
      BY <3>1, InOrderStepKeeps
    <3> QED  BY <3>2 DEF PartInv, InOrderInv
  <2>3. CASE UNCHANGED recordVars
    <3>1. UNCHANGED vars /\ part' = part
      BY <2>3 DEF recordVars
    <3>2. IInv'
      BY <1>2, <3>1, StepKeepsInv DEF PartInv
    <3>3. CASE part = "in order"
      BY <1>2, <3>1, <3>2, <3>3, InOrderStepKeeps DEF PartInv
    <3> QED  BY <3>1, <3>2, <3>3 DEF PartInv
  <2> QED  BY <1>2, <2>1, <2>2, <2>3
<1> QED  BY <1>1, <1>2, PTL DEF RecordSpec, InOrderRecordStays
=============================================================================
