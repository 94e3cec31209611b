------------------------- MODULE WebhookFrontProofs -------------------------
(***************************************************************************)
(* Proofs about WebhookFront, for any transactions, notifications,         *)
(* requests and bounds that meet WebhookAssumption.                        *)
(*                                                                         *)
(* First what each sort of step does to the requests (GoesFacts,           *)
(* AnswerFacts, CriticalPath), then one invariant per theorem:             *)
(*   TypeOK, Locked  whoever is under the lock of a slot holds it,         *)
(*   Once            of a notification's requests one has set its key,     *)
(*                   and the task is not queued before that one is through,*)
(*   AcceptedInv     who has taken note of what was answered with 200,     *)
(*   TaskInv         whoever writes under a key still queues the task,     *)
(*   Tells           what the request under an order's lock has left under *)
(*                   the order's two keys by each of its steps.            *)
(* Only Tells needs the lock, and Locked for it: the others hold whatever  *)
(* the requests do side by side.                                           *)
(***************************************************************************)
EXTENDS WebhookFront, TLAPS

-----------------------------------------------------------------------------
(* Facts about slots, and about the order of the steps under the lock.      *)

RecordOf(n) == <<"FRAGMENT__FROM_WEBHOOK", n.tx>>

\* What a request carries is a notification with a slot and a record of its own.
LEMMA AboutFacts ==
    ASSUME WebhookAssumption, TypeOK, NEW r \in Request, step[r] # "free"
    PROVE  /\ about[r] \in News /\ about[r] # None
           /\ about[r].service \in Service /\ about[r].tx \in Tx
           /\ SlotOf(about[r]) \in Slot
           /\ RecordOf(about[r]) \in RecordSlot
<1>1. about[r] \in News /\ about[r] # None
  BY DEF TypeOK
<1>2. about[r].service \in Service /\ about[r].tx \in Tx
  BY <1>1 DEF WebhookAssumption, NewsType, Service
<1>. QED
  BY <1>1, <1>2 DEF SlotOf, Slot, RecordOf, RecordSlot

\* A status and a record are kept in different places.
LEMMA SlotsDiffer ==
    /\ Slot \cap RecordSlot = {}
    /\ \A s \in Slot : s[1] \in Service /\ s[2] \in Tx
    /\ \A s \in RecordSlot : s[2] \in Tx /\ s = <<"FRAGMENT__FROM_WEBHOOK", s[2]>>
BY DEF Slot, RecordSlot, Service

\* The path through the critical section, step by step.
LEMMA CriticalPath ==
    ASSUME NEW r \in Request, GoesOn(r)
    PROVE  \E next \in Critical :
              /\ step' = [step EXCEPT ![r] = next] /\ about' = about
              /\ \/ step[r] = "save" /\ next = (IF about[r].hasId THEN "save record" ELSE "queue")
                 \/ step[r] = "save record" /\ about[r].hasId /\ next = "queue record"
                 \/ step[r] = "queue record" /\ about[r].hasId /\ next = "queue"
                 \/ step[r] = "queue" /\ next = "release"
<1>1. CASE about[r].hasId
  <2> DEFINE path == <<"save", "save record", "queue record", "queue", "release">>
  <2>1. CriticalSteps(about[r]) = path
    BY <1>1 DEF CriticalSteps
  <2>2. Len(path) = 5
    OBVIOUS
  <2>3. /\ path[1] = "save" /\ path[2] = "save record" /\ path[3] = "queue record"
        /\ path[4] = "queue" /\ path[5] = "release"
    OBVIOUS
  <2> HIDE DEF path
  <2>4. \E i \in 1 .. 4 : path[i] = step[r] /\ Goes(r, path[i + 1])
    BY <2>1, <2>2 DEF GoesOn
  <2>5. \/ path[1] = step[r] /\ Goes(r, path[2])
        \/ path[2] = step[r] /\ Goes(r, path[3])
        \/ path[3] = step[r] /\ Goes(r, path[4])
        \/ path[4] = step[r] /\ Goes(r, path[5])
    BY <2>4
  <2>. QED
    BY <1>1, <2>3, <2>5 DEF Goes, Critical
<1>2. CASE ~about[r].hasId
  <2> DEFINE path == <<"save", "queue", "release">>
  <2>1. CriticalSteps(about[r]) = path
    BY <1>2 DEF CriticalSteps
  <2>2. PICK i \in 1 .. 2 : path[i] = step[r] /\ Goes(r, path[i + 1])
    BY <2>1 DEF GoesOn
  <2>3. i \in {1, 2}
    OBVIOUS
  <2>4. \/ path[i] = "save" /\ path[i + 1] = "queue"
        \/ path[i] = "queue" /\ path[i + 1] = "release"
    BY <2>3
  <2> HIDE DEF path
  <2>. QED
    BY <1>2, <2>2, <2>4 DEF Goes, Critical
<1>. QED
  BY <1>1, <1>2

\* The path begins with the saving of the status.
LEMMA PathBegins == ASSUME NEW n PROVE Head(CriticalSteps(n)) = "save"
BY DEF CriticalSteps

-----------------------------------------------------------------------------
(* Types.                                                                   *)

\* The requests, what they carry, and what is said of notifications.
FrontOK ==
    /\ step \in [Request -> Steps]
    /\ about \in [Request -> News \cup {None}]
    /\ \A r \in Request : step[r] = "free" <=> about[r] = None
AnswersOK == accepted \subseteq News /\ failed \subseteq News

\* A request that goes on keeps its type.
LEMMA GoesTyped ==
    ASSUME TypeOK, NEW r \in Request, step[r] # "free", NEW next \in Steps \ {"free"},
           Goes(r, next)
    PROVE  FrontOK'
BY DEF TypeOK, FrontOK, Goes

\* An answer to requests that are there frees them and leaves the others.
LEMMA AnswerFacts ==
    ASSUME TypeOK, NEW R \in SUBSET Request, NEW ok, Answer(R, ok)
    PROVE  /\ \A r \in R : step'[r] = "free" /\ about'[r] = None
           /\ \A r \in Request : r \notin R => step'[r] = step[r] /\ about'[r] = about[r]
           /\ accepted' \in {accepted, accepted \cup {about[r] : r \in R}}
           /\ failed' \in {failed, failed \cup {about[r] : r \in R}}
BY DEF Answer, TypeOK

\* So does an answer to one request.
LEMMA AnswerOne ==
    ASSUME TypeOK, NEW r \in Request, NEW ok, Answer({r}, ok)
    PROVE  /\ step'[r] = "free" /\ about'[r] = None
           /\ \A q \in Request : q # r => step'[q] = step[q] /\ about'[q] = about[q]
<1>1. r \in {r} /\ \A q \in Request : q # r => q \notin {r}
  OBVIOUS
<1>. QED
  BY <1>1, AnswerFacts

\* It keeps the types of what it changes.
LEMMA AnswerTyped ==
    ASSUME WebhookAssumption, TypeOK, NEW R \in SUBSET Request, NEW ok,
           \A r \in R : step[r] # "free", Answer(R, ok)
    PROVE  FrontOK' /\ AnswersOK'
<1>1. \A r \in R : about[r] \in News
  BY AboutFacts
<1>2. {about[r] : r \in R} \subseteq News
  BY <1>1
<1>3. AnswersOK'
  <2>1. accepted \subseteq News /\ failed \subseteq News
    BY DEF TypeOK
  <2>2. /\ accepted' \in {accepted, accepted \cup {about[r] : r \in R}}
        /\ failed' \in {failed, failed \cup {about[r] : r \in R}}
    BY AnswerFacts
  <2>. QED
    BY <1>2, <2>1, <2>2 DEF AnswersOK
<1>4. step' \in [Request -> Steps] /\ about' \in [Request -> News \cup {None}]
  BY DEF Answer, TypeOK, Steps
<1>5. \A r \in Request : step'[r] = "free" <=> about'[r] = None
  BY AnswerFacts DEF TypeOK
<1>. QED
  BY <1>3, <1>4, <1>5 DEF FrontOK

\* A fault is counted up to its bound.
LEMMA FaultsCount ==
    ASSUME WebhookAssumption, TypeOK, faults < MaxFaults, faults' = faults + 1
    PROVE  faults' \in 0 .. MaxFaults
<1>1. faults \in 0 .. MaxFaults /\ MaxFaults \in Nat
  BY DEF TypeOK, WebhookAssumption
<1>. QED
  BY <1>1

\* Every step keeps the types.
LEMMA TypeStep ==
    ASSUME WebhookAssumption, TypeOK, [Next]_vars
    PROVE  TypeOK'
<1>0. MaxDeliveries \in Nat /\ MaxTasks \in Nat /\ MaxFaults \in Nat /\ None \notin News
  BY DEF WebhookAssumption
<1>1. ASSUME NEW r \in Request, NEW n \in News, Deliver(r, n)
      PROVE  TypeOK'
  <2>1. FrontOK'
    BY <1>0, <1>1 DEF Deliver, TypeOK, FrontOK, Steps
  <2>2. deliveries' \in [News -> 0 .. MaxDeliveries]
    <3>1. deliveries \in [News -> 0 .. MaxDeliveries]
      BY DEF TypeOK
    <3>2. /\ deliveries[n] < MaxDeliveries
          /\ deliveries' = [deliveries EXCEPT ![n] = deliveries[n] + 1]
      BY <1>1 DEF Deliver
    <3>. QED
      BY <1>0, <1>1, <3>1, <3>2
  <2>. QED
    BY <1>1, <2>1, <2>2 DEF Deliver, TypeOK, FrontOK
<1>2. ASSUME NEW r \in Request, CheckKey(r)
      PROVE  TypeOK'
  <2>1. about[r] \in News
    BY <1>2, AboutFacts DEF CheckKey
  <2>2. FrontOK' /\ AnswersOK'
    <3>1. CASE Answer({r}, TRUE)
      BY <1>2, <3>1, AnswerTyped DEF CheckKey
    <3>2. CASE Goes(r, "expire") /\ UNCHANGED <<accepted, failed>>
      BY <1>2, <3>2, GoesTyped DEF CheckKey, Steps, AnswersOK, TypeOK
    <3>. QED
      BY <1>2, <3>1, <3>2 DEF CheckKey
  <2>3. seen' \in [News -> {"no", "for good", "for 48 hours"}]
    BY <1>2, <2>1 DEF CheckKey, TypeOK
  <2>. QED
    BY <1>2, <2>2, <2>3 DEF CheckKey, TypeOK, FrontOK, AnswersOK
<1>3. ASSUME NEW r \in Request, Expire(r)
      PROVE  TypeOK'
  <2>1. about[r] \in News
    BY <1>3, AboutFacts DEF Expire
  <2>2. FrontOK'
    BY <1>3, GoesTyped DEF Expire, Steps
  <2>. QED
    BY <1>3, <2>1, <2>2 DEF Expire, TypeOK, FrontOK
<1>4. ASSUME NEW r \in Request, Read(r)
      PROVE  TypeOK'
  <2>1. FrontOK' /\ AnswersOK'
    <3>1. CASE Goes(r, "acquire") /\ UNCHANGED <<accepted, failed>>
      BY <1>4, <3>1, GoesTyped DEF Read, Steps, AnswersOK, TypeOK
    <3>2. CASE Answer({r}, TRUE) \/ Answer({r}, FALSE)
      BY <1>4, <3>2, AnswerTyped DEF Read
    <3>. QED
      BY <1>4, <3>1, <3>2 DEF Read
  <2>. QED
    BY <1>4, <2>1 DEF Read, TypeOK, FrontOK, AnswersOK
<1>5. ASSUME NEW r \in Request, Acquire(r)
      PROVE  TypeOK'
  <2>1. FrontOK'
    BY <1>5, PathBegins, GoesTyped DEF Acquire, Steps
  <2>. QED
    BY <1>5, <2>1 DEF Acquire, TypeOK, FrontOK
<1>6. ASSUME NEW r \in Request, GiveUp(r)
      PROVE  TypeOK'
  <2>1. FrontOK' /\ AnswersOK'
    BY <1>6, AnswerTyped DEF GiveUp
  <2>. QED
    BY <1>6, <2>1 DEF GiveUp, TypeOK, FrontOK, AnswersOK
<1>7. ASSUME NEW r \in Request, Save(r)
      PROVE  TypeOK'
  <2>1. about[r] \in News /\ SlotOf(about[r]) \in Slot /\ RecordOf(about[r]) \in RecordSlot
    BY <1>7, AboutFacts DEF Save
  <2>2. PICK next \in Critical : Goes(r, next)
    BY <1>7, CriticalPath DEF Save, Goes
  <2>3. FrontOK'
    BY <1>7, <2>2, GoesTyped DEF Save, Steps, Critical
  <2>4. PICK s \in Slot \cup RecordSlot : key' = [key EXCEPT ![s] = about[r]]
    BY <1>7, <2>1 DEF Save, RecordOf
  <2>5. key' \in [Slot \cup RecordSlot -> News \cup {None}]
    BY <2>1, <2>4 DEF TypeOK
  <2>. QED
    BY <1>7, <2>3, <2>5 DEF Save, TypeOK, FrontOK
<1>8. ASSUME NEW r \in Request, Queue(r)
      PROVE  TypeOK'
  <2>1. about[r] \in News /\ SlotOf(about[r]) \in Slot /\ RecordOf(about[r]) \in RecordSlot
    BY <1>8, AboutFacts DEF Queue
  <2>2. PICK next \in Critical : Goes(r, next)
    BY <1>8, CriticalPath DEF Queue, Goes
  <2>3. FrontOK'
    BY <1>8, <2>2, GoesTyped DEF Queue, Steps, Critical
  <2>4. PICK s \in Slot \cup RecordSlot :
           queued[s] < MaxTasks /\ queued' = [queued EXCEPT ![s] = queued[s] + 1]
    BY <1>8, <2>1 DEF Queue, RecordOf
  <2>5. queued' \in [Slot \cup RecordSlot -> 0 .. MaxTasks]
    <3>1. queued \in [Slot \cup RecordSlot -> 0 .. MaxTasks]
      BY DEF TypeOK
    <3>. QED
      BY <1>0, <2>4, <3>1
  <2>6. queuings' \in [News -> Nat]
    <3>1. queuings' \in {queuings, [queuings EXCEPT ![about[r]] = queuings[about[r]] + 1]}
      BY <1>8 DEF Queue
    <3>2. queuings \in [News -> Nat]
      BY DEF TypeOK
    <3>. QED
      BY <2>1, <3>1, <3>2
  <2>. QED
    BY <1>8, <2>3, <2>5, <2>6 DEF Queue, TypeOK, FrontOK
<1>9. ASSUME NEW r \in Request, Release(r)
      PROVE  TypeOK'
  <2>1. FrontOK' /\ AnswersOK'
    BY <1>9, AnswerTyped DEF Release
  <2>2. lock' \in [Slot -> Request \cup {None, "a dead request"}]
    BY <1>9 DEF Release, ReleaseLock, TypeOK
  <2>. QED
    BY <1>9, <2>1, <2>2 DEF Release, TypeOK, FrontOK, AnswersOK
<1>10. ASSUME NEW r \in Request, Fails(r)
      PROVE  TypeOK'
  <2>1. FrontOK' /\ AnswersOK' /\ SlotOf(about[r]) \in Slot
    BY <1>10, AnswerTyped, AboutFacts DEF Fails
  <2>2. lock' \in [Slot -> Request \cup {None, "a dead request"}]
    BY <1>10 DEF Fails, ReleaseLock, TypeOK
  <2>3. broken' \subseteq Slot /\ faults' \in 0 .. MaxFaults
    <3>1. broken \subseteq Slot
      BY DEF TypeOK
    <3>2. \A s \in broken' : s \in broken \/ s = SlotOf(about[r])
      BY <1>10 DEF Fails, Breaks
    <3>3. faults' \in 0 .. MaxFaults
      BY <1>0, <1>10, FaultsCount DEF Fails
    <3>. QED
      BY <2>1, <3>1, <3>2, <3>3
  <2>. QED
    BY <1>10, <2>1, <2>2, <2>3 DEF Fails, TypeOK, FrontOK, AnswersOK
<1>11. ASSUME NEW R \in SUBSET Request, Dies(R)
      PROVE  TypeOK'
  <2>1. FrontOK' /\ AnswersOK'
    BY <1>11, AnswerTyped DEF Dies
  <2>2. lock' \in [Slot -> Request \cup {None, "a dead request"}]
    BY <1>11 DEF Dies, TypeOK
  <2>3. \A r \in R : SlotOf(about[r]) \in Slot
    BY <1>11, AboutFacts DEF Dies
  <2>4. broken' \subseteq Slot
    <3>1. \A s \in broken' : s \in broken \/ \E r \in R : s = SlotOf(about[r])
      BY <1>11 DEF Dies, Breaks
    <3>. QED
      BY <2>3, <3>1 DEF TypeOK
  <2>5. faults' \in 0 .. MaxFaults
    BY <1>0, <1>11, FaultsCount DEF Dies
  <2>. QED
    BY <1>11, <2>1, <2>2, <2>4, <2>5 DEF Dies, TypeOK, FrontOK, AnswersOK
<1>12. ASSUME NEW s \in Slot, LockRunsOut(s)
      PROVE  TypeOK'
  <2>1. faults' \in 0 .. MaxFaults /\ broken' \subseteq Slot
    <3>1. broken \subseteq Slot /\ faults \in 0 .. MaxFaults
      BY DEF TypeOK
    <3>2. \/ UNCHANGED <<faults, broken>>
          \/ faults < MaxFaults /\ faults' = faults + 1 /\ broken' = broken \cup {s}
      BY <1>12 DEF LockRunsOut
    <3>. QED
      BY <1>12, <3>1, <3>2, FaultsCount
  <2>2. lock' \in [Slot -> Request \cup {None, "a dead request"}]
    BY <1>12 DEF LockRunsOut, TypeOK
  <2>. QED
    BY <1>12, <2>1, <2>2 DEF LockRunsOut, front, TypeOK
<1>13. ASSUME NEW s \in Slot \cup RecordSlot, Take(s)
      PROVE  TypeOK'
  <2>1. queued' \in [Slot \cup RecordSlot -> 0 .. MaxTasks]
    <3>1. queued \in [Slot \cup RecordSlot -> 0 .. MaxTasks]
      BY DEF TypeOK
    <3>. QED
      BY <1>0, <1>13, <3>1 DEF Take
  <2>2. key' \in [Slot \cup RecordSlot -> News \cup {None}]
    BY <1>13 DEF Take, TypeOK
  <2>. QED
    BY <1>13, <2>1, <2>2 DEF Take, front, TypeOK
<1>14. CASE UNCHANGED vars
  BY <1>14 DEF vars, front, TypeOK
<1>. QED
  BY <1>1, <1>2, <1>3, <1>4, <1>5, <1>6, <1>7, <1>8, <1>9, <1>10, <1>11, <1>12, <1>13, <1>14
  DEF Next

-----------------------------------------------------------------------------
(* The critical section.                                                    *)

\* Whoever is under the lock of a slot holds it, unless it broke off there.
Locked == \A s \in Slot : s \notin broken => \A r \in Inside(s) : lock[s] = r

\* A request that goes on leaves the others where they are.
LEMMA GoesFacts ==
    ASSUME TypeOK, NEW r \in Request, NEW next, Goes(r, next)
    PROVE  /\ step'[r] = next /\ about'[r] = about[r]
           /\ \A q \in Request : q # r => step'[q] = step[q] /\ about'[q] = about[q]
           /\ \A q \in Request : about'[q] = about[q]
BY DEF TypeOK, Goes

\* So does one that gives its lock back.
LEMMA ReleaseFacts ==
    ASSUME NEW R, ReleaseLock(R), NEW s \in Slot
    PROVE  lock[s] \notin R => lock'[s] = lock[s]
BY DEF ReleaseLock

\* Every step keeps the critical section.
LEMMA LockedStep ==
    ASSUME WebhookAssumption, TypeOK, Locked, [Next]_vars
    PROVE  Locked'
<1> SUFFICES ASSUME NEW s \in Slot, s \notin broken',
                    NEW q \in Request, step'[q] \in Critical, SlotOf(about'[q]) = s
             PROVE  lock'[s] = q
  BY DEF Locked, Inside
<1> USE DEF Critical
<1>0. /\ None \notin Request /\ "a dead request" \notin Request
      /\ lock \in [Slot -> Request \cup {None, "a dead request"}]
  BY DEF WebhookAssumption, TypeOK
<1>a. s \notin broken /\ step[q] \in Critical /\ SlotOf(about[q]) = s => lock[s] = q
  BY DEF Locked, Inside
<1>1. ASSUME NEW r \in Request, NEW n \in News, Deliver(r, n)
      PROVE  lock'[s] = q
  <2>1. q # r
    BY <1>1 DEF Deliver, TypeOK
  <2>2. step'[q] = step[q] /\ about'[q] = about[q] /\ lock' = lock /\ broken' = broken
    BY <1>1, <2>1 DEF Deliver, TypeOK
  <2>. QED
    BY <1>a, <2>2
<1>2. ASSUME NEW r \in Request, NEW next, Goes(r, next),
             next \notin Critical \/ (step[r] \in Critical),
             lock' = lock, broken' = broken
      PROVE  lock'[s] = q
  <2>1. step[q] \in Critical /\ about'[q] = about[q]
    BY <1>2, GoesFacts
  <2>. QED
    BY <1>2, <1>a, <2>1
<1>3. ASSUME NEW R \in SUBSET Request, NEW ok, Answer(R, ok),
             s \in broken' \/ lock'[s] = lock[s] \/ lock[s] \in R, broken \subseteq broken'
      PROVE  lock'[s] = q
  <2>1. q \notin R
    BY <1>3, AnswerFacts
  <2>2. step'[q] = step[q] /\ about'[q] = about[q]
    BY <1>3, <2>1, AnswerFacts
  <2>. QED
    BY <1>3, <1>a, <2>1, <2>2
<1>4. ASSUME NEW r \in Request, CheckKey(r) \/ Read(r) \/ GiveUp(r)
      PROVE  lock'[s] = q
  <2>1. lock' = lock /\ broken' = broken
    BY <1>4 DEF CheckKey, Read, GiveUp
  <2>2. \/ Goes(r, "expire") \/ Goes(r, "acquire")
        \/ Answer({r}, TRUE) \/ Answer({r}, FALSE)
    BY <1>4 DEF CheckKey, Read, GiveUp
  <2>. QED
    BY <1>2, <1>3, <2>1, <2>2
<1>5. ASSUME NEW r \in Request, Expire(r)
      PROVE  lock'[s] = q
  BY <1>2, <1>5 DEF Expire
<1>6. ASSUME NEW r \in Request, Acquire(r)
      PROVE  lock'[s] = q
  <2>1. /\ lock[SlotOf(about[r])] = None
        /\ lock' = [lock EXCEPT ![SlotOf(about[r])] = r]
        /\ SlotOf(about[r]) \in Slot
    BY <1>6, AboutFacts DEF Acquire
  <2>2. about' = about /\ broken' = broken /\ \A p \in Request : p # r => step'[p] = step[p]
    BY <1>6, GoesFacts DEF Acquire, Goes
  <2>3. CASE q = r
    BY <1>0, <2>1, <2>2, <2>3
  <2>4. CASE q # r
    <3>1. lock[s] = q
      BY <1>a, <2>2, <2>4
    <3>2. s # SlotOf(about[r])
      BY <1>0, <2>1, <3>1
    <3>. QED
      BY <1>0, <2>1, <3>1, <3>2
  <2>. QED
    BY <2>3, <2>4
<1>7. ASSUME NEW r \in Request, Save(r) \/ Queue(r)
      PROVE  lock'[s] = q
  <2>1. PICK next \in Critical : Goes(r, next)
    BY <1>7, CriticalPath DEF Save, Queue, Goes
  <2>2. step[r] \in Critical /\ lock' = lock /\ broken' = broken
    BY <1>7 DEF Save, Queue
  <2>. QED
    BY <1>2, <2>1, <2>2
<1>8. ASSUME NEW r \in Request, Release(r)
      PROVE  lock'[s] = q
  <2>1. lock[s] \notin {r} => lock'[s] = lock[s]
    BY <1>8, ReleaseFacts DEF Release
  <2>. QED
    BY <1>8, <1>3, <2>1 DEF Release
<1>9. ASSUME NEW r \in Request, Fails(r)
      PROVE  lock'[s] = q
  <2>1. lock[s] \notin {r} => lock'[s] = lock[s]
    BY <1>9, ReleaseFacts DEF Fails
  <2>. QED
    BY <1>9, <1>3, <2>1 DEF Fails, Breaks
<1>10. ASSUME NEW R \in SUBSET Request, Dies(R)
      PROVE  lock'[s] = q
  <2>1. lock[s] \notin R => lock'[s] = lock[s]
    BY <1>10 DEF Dies
  <2>. QED
    BY <1>10, <1>3, <2>1 DEF Dies, Breaks
<1>11. ASSUME NEW t \in Slot, LockRunsOut(t)
      PROVE  lock'[s] = q
  <2>1. /\ lock' = [lock EXCEPT ![t] = None] /\ about' = about /\ step' = step
        /\ \/ lock[t] = "a dead request" /\ broken' = broken
           \/ broken' = broken \cup {t}
    BY <1>11 DEF LockRunsOut, front
  <2>2. lock[s] = q
    BY <1>a, <2>1
  <2>3. s # t
    BY <1>0, <2>1, <2>2
  <2>. QED
    BY <1>0, <2>1, <2>2, <2>3
<1>12. ASSUME NEW t \in Slot \cup RecordSlot, Take(t)
      PROVE  lock'[s] = q
  BY <1>12, <1>a DEF Take, front
<1>13. CASE UNCHANGED vars
  BY <1>13, <1>a DEF vars, front
<1>. QED
  BY <1>1, <1>4, <1>5, <1>6, <1>7, <1>8, <1>9, <1>10, <1>11, <1>12, <1>13 DEF Next

\* The endpoints' invariant: a service's notifications of one transaction are
\* written by one request at a time, unless a lock ran out or a request broke
\* off under it (lock_latest_status, and the locks' 45 seconds).
THEOREM CriticalSection == ASSUME WebhookAssumption PROVE Spec => []WebhookInv
<1>1. Init => WebhookInv
  <2> SUFFICES ASSUME Init PROVE WebhookInv
    OBVIOUS
  <2>1. TypeOK
    <3>1. MaxDeliveries \in Nat /\ MaxTasks \in Nat /\ MaxFaults \in Nat
      BY DEF WebhookAssumption
    <3>2. 0 \in 0 .. MaxDeliveries /\ 0 \in 0 .. MaxTasks /\ 0 \in 0 .. MaxFaults
      BY <3>1
    <3>3. /\ deliveries \in [News -> 0 .. MaxDeliveries]
          /\ queued \in [Slot \cup RecordSlot -> 0 .. MaxTasks]
          /\ faults \in 0 .. MaxFaults
      BY <3>2 DEF Init
    <3>. QED
      BY <3>3 DEF Init, TypeOK, Steps
  <2>. QED
    BY <2>1 DEF WebhookInv, Init, Inside, Critical
<1>2. WebhookInv /\ [Next]_vars => WebhookInv'
  BY TypeStep, LockedStep DEF WebhookInv, Locked
<1>. QED
  BY <1>1, <1>2, PTL DEF Spec

-----------------------------------------------------------------------------
(* A notification with an idempotency key queues its task once.             *)

\* The request that carries a notification and has set its key.
Past(r, n) == about[r] = n /\ step[r] # "check"

\* Of the requests that carry a notification with a key, at most one has set
\* the key, and as long as it is on its way the task has not been queued.
Once(n) ==
    /\ \A r \in Request : Past(r, n) => seen[n] # "no"
    /\ queuings[n] > 0 => seen[n] # "no"
    /\ \A r, q \in Request : Past(r, n) /\ Past(q, n) => r = q
    /\ \A r \in Request : Past(r, n) /\ step[r] # "release" => queuings[n] = 0
    /\ queuings[n] <= 1
OnceInv == \A n \in News : n.keyed => Once(n)

\* Requests that are answered, or stay where they are, are no new ones.
LEMMA OnceKept ==
    ASSUME NEW n, Once(n),
           \A q \in Request : Past(q, n)' => Past(q, n) /\ (step'[q] = "release" \/ step[q] # "release"),
           seen'[n] = seen[n] \/ seen'[n] # "no", queuings'[n] = queuings[n]
    PROVE  Once(n)'
BY DEF Once

\* Every step keeps it.
LEMMA OnceStep ==
    ASSUME WebhookAssumption, TypeOK, OnceInv, [Next]_vars
    PROVE  OnceInv'
<1> SUFFICES ASSUME NEW n \in News, n.keyed PROVE Once(n)'
  BY DEF OnceInv
<1>0. Once(n) /\ n # None
  BY DEF OnceInv, WebhookAssumption
<1>a. /\ seen \in [News -> {"no", "for good", "for 48 hours"}]
      /\ queuings \in [News -> Nat]
  BY DEF TypeOK
<1>b. queuings[n] \in Nat
  BY <1>a
<1>1. ASSUME NEW r \in Request, NEW m \in News, Deliver(r, m)
      PROVE  Once(n)'
  <2>1. /\ about'[r] = m /\ (m.keyed => step'[r] = "check")
        /\ \A q \in Request : q # r => step'[q] = step[q] /\ about'[q] = about[q]
        /\ seen' = seen /\ queuings' = queuings
    BY <1>1 DEF Deliver, TypeOK
  <2>2. \A q \in Request : Past(q, n)' => q # r
    BY <1>0, <2>1 DEF Past
  <2>3. \A q \in Request : Past(q, n)' => Past(q, n) /\ step'[q] = step[q]
    BY <2>1, <2>2 DEF Past
  <2>. QED
    BY <1>0, <2>1, <2>3, OnceKept
<1>2. ASSUME NEW R \in SUBSET Request, NEW ok, Answer(R, ok), seen' = seen, queuings' = queuings
      PROVE  Once(n)'
  BY <1>0, <1>2, AnswerFacts, OnceKept DEF Past
<1>3. ASSUME NEW r \in Request, NEW next, Goes(r, next), step[r] # "check", step[r] # "release",
             seen' = seen \/ seen' = [seen EXCEPT ![about[r]] = "for 48 hours"],
             queuings' = queuings
      PROVE  Once(n)'
  <2>1. seen'[n] = seen[n] \/ seen'[n] # "no"
    BY <1>3, <1>a
  <2>. QED
    BY <1>0, <1>3, <2>1, GoesFacts, OnceKept DEF Past
<1>4. ASSUME NEW r \in Request, CheckKey(r)
      PROVE  Once(n)'
  <2>1. queuings' = queuings /\ about[r] \in News
    BY <1>4, AboutFacts DEF CheckKey
  <2>2. CASE Answer({r}, TRUE) /\ seen' = seen
    BY <1>2, <2>1, <2>2
  <2>3. CASE Goes(r, "expire") /\ seen[about[r]] = "no"
             /\ seen' = [seen EXCEPT ![about[r]] = "for good"]
    <3>1. /\ step'[r] = "expire" /\ about'[r] = about[r]
          /\ \A q \in Request : q # r => step'[q] = step[q] /\ about'[q] = about[q]
      BY <2>3, GoesFacts
    <3>2. CASE about[r] = n
      <4>1. seen[n] = "no" /\ seen'[n] = "for good"
        BY <2>3, <3>2, <1>a
      <4>2. \A q \in Request : ~Past(q, n)
        BY <1>0, <4>1 DEF Once
      <4>3. queuings[n] = 0
        <5>1. queuings[n] > 0 => seen[n] # "no"
          BY <1>0 DEF Once
        <5>2. ~(queuings[n] > 0)
          BY <4>1, <5>1
        <5>. QED
          BY <1>b, <5>2
      <4>4. \A q \in Request : Past(q, n)' => q = r
        BY <3>1, <4>2 DEF Past
      <4>5. queuings'[n] = 0
        BY <2>1, <4>3
      <4>. QED
        <5>1. queuings'[n] <= 1 /\ ~(queuings'[n] > 0)
          BY <4>5
        <5>2. seen'[n] # "no"
          BY <4>1
        <5>. QED
          BY <4>4, <4>5, <5>1, <5>2 DEF Once
    <3>3. CASE about[r] # n
      <4>1. seen'[n] = seen[n]
        BY <2>1, <2>3, <3>3, <1>a
      <4>. QED
        BY <1>0, <2>1, <3>1, <3>3, <4>1, OnceKept DEF Past
    <3>. QED
      BY <3>2, <3>3
  <2>. QED
    BY <1>4, <2>1, <2>2, <2>3 DEF CheckKey, SameKey
<1>5. ASSUME NEW r \in Request, Expire(r) \/ Acquire(r) \/ Save(r)
      PROVE  Once(n)'
  <2>1. PICK next : Goes(r, next)
    BY <1>5, CriticalPath DEF Expire, Acquire, Save, Goes
  <2>. QED
    BY <1>3, <1>5, <2>1 DEF Expire, Acquire, Save
<1>6. ASSUME NEW r \in Request, Read(r) \/ GiveUp(r)
      PROVE  Once(n)'
  <2>1. Goes(r, "acquire") \/ Answer({r}, TRUE) \/ Answer({r}, FALSE)
    BY <1>6 DEF Read, GiveUp
  <2>2. seen' = seen /\ queuings' = queuings /\ step[r] # "check" /\ step[r] # "release"
    BY <1>6 DEF Read, GiveUp
  <2>. QED
    BY <1>2, <1>3, <2>1, <2>2
<1>7. ASSUME NEW r \in Request, Queue(r)
      PROVE  Once(n)'
  <2>1. PICK next \in Critical :
           /\ step' = [step EXCEPT ![r] = next] /\ about' = about
           /\ step[r] = "queue" => next = "release"
    BY <1>7, CriticalPath DEF Queue
  <2>2. Goes(r, next)
    BY <2>1 DEF Goes
  <2>3. seen' = seen /\ step[r] \in {"queue", "queue record"}
    BY <1>7 DEF Queue
  <2>4. CASE step[r] = "queue" /\ about[r] = n
    <3>1. queuings' = [queuings EXCEPT ![n] = queuings[n] + 1]
      BY <1>7, <2>4 DEF Queue
    <3>2. queuings[n] = 0 /\ seen'[n] # "no" /\ \A q \in Request : Past(q, n) => q = r
      BY <1>0, <2>3, <2>4 DEF Once, Past
    <3>3. queuings'[n] = 1
      <4>1. queuings'[n] = queuings[n] + 1
        BY <1>a, <3>1
      <4>. QED
        BY <3>2, <4>1
    <3>4. \A q \in Request : Past(q, n)' => q = r
      BY <2>2, <3>2, GoesFacts DEF Past
    <3>5. step'[r] = "release"
      BY <2>1, <2>2, <2>4, GoesFacts
    <3>. QED
      BY <3>2, <3>3, <3>4, <3>5 DEF Once
  <2>5. CASE ~(step[r] = "queue" /\ about[r] = n)
    <3>1. queuings'[n] = queuings[n]
      BY <1>7, <1>a, <2>5 DEF Queue
    <3>2. \A q \in Request : Past(q, n)' => Past(q, n) /\ (step'[q] = "release" \/ step[q] # "release")
      BY <2>2, <2>3, GoesFacts DEF Past
    <3>. QED
      BY <1>0, <2>3, <3>1, <3>2, OnceKept
  <2>. QED
    BY <2>4, <2>5
<1>8. ASSUME NEW r \in Request, Release(r) \/ Fails(r)
      PROVE  Once(n)'
  BY <1>2, <1>8 DEF Release, Fails
<1>9. ASSUME NEW R \in SUBSET Request, Dies(R)
      PROVE  Once(n)'
  BY <1>2, <1>9 DEF Dies
<1>10. CASE UNCHANGED <<front, seen, queuings>>
  BY <1>0, <1>10, OnceKept DEF front, Past
<1>11. ASSUME NEW s, LockRunsOut(s) \/ Take(s)
      PROVE  UNCHANGED <<front, seen, queuings>>
  BY <1>11 DEF LockRunsOut, Take
<1>. QED
  BY <1>1, <1>4, <1>5, <1>6, <1>7, <1>8, <1>9, <1>10, <1>11 DEF Next, vars

\* No key is set in the beginning.
LEMMA OnceInit == ASSUME WebhookAssumption, Init PROVE OnceInv
<1> SUFFICES ASSUME NEW n \in News PROVE Once(n)
  BY DEF OnceInv
<1>1. queuings[n] = 0 /\ \A r \in Request : ~Past(r, n)
  BY DEF Init, Past, WebhookAssumption
<1>. QED
  BY <1>1 DEF Once

\* However often and however close together a notification with an idempotency
\* key is delivered, it queues its task once: the key is set and tested in one
\* command (webhook_utils.py:48), before anything else is done.
THEOREM ActsOnce == ASSUME WebhookAssumption PROVE Spec => []KeyedNewsActsOnce
<1>1. Init => OnceInv
  BY OnceInit
<1>2. TypeOK /\ OnceInv /\ [Next]_vars => OnceInv'
  BY OnceStep
<1>3. OnceInv => KeyedNewsActsOnce
  BY DEF OnceInv, Once, KeyedNewsActsOnce
<1>4. WebhookInv => TypeOK
  BY DEF WebhookInv
<1>. QED
  BY <1>1, <1>2, <1>3, <1>4, CriticalSection, PTL DEF Spec

-----------------------------------------------------------------------------
(* What has been answered with 200 has been taken note of.                  *)

HasQueued(n) == queuings[n] > 0
NothingToDo(n) == n.reads = "as nothing to do with us"

\* What is accepted has queued its task, or its key was set by a request that
\* has, or failed, or is still on its way.
AcceptedInv ==
    /\ \A r \in Request : step[r] = "release" => HasQueued(about[r])
    /\ \A r \in Request : step[r] \in {"check", "expire"} => about[r].keyed
    /\ \A n \in accepted :
          HasQueued(n) \/ NothingToDo(n) \/ (n.keyed /\ seen[n] # "no")
    /\ \A n \in News :
          n.keyed /\ seen[n] # "no" =>
             \/ HasQueued(n) \/ NothingToDo(n) \/ n \in failed
             \/ \E r \in Request : Past(r, n)

\* No step takes back what has been queued.
LEMMA QueuingsGrow ==
    ASSUME WebhookAssumption, TypeOK, [Next]_vars, NEW n \in News, HasQueued(n)
    PROVE  HasQueued(n)'
<1>1. queuings \in [News -> Nat]
  BY DEF TypeOK
<1>2. \/ queuings' = queuings
      \/ \E r \in Request : Queue(r)
  BY DEF Next, Deliver, CheckKey, Expire, Read, Acquire, GiveUp, Save, Release, Fails,
         Dies, LockRunsOut, Take, vars
<1>3. ASSUME NEW r \in Request, Queue(r)
      PROVE  HasQueued(n)'
  <2>1. queuings' \in {queuings, [queuings EXCEPT ![about[r]] = queuings[about[r]] + 1]}
    BY <1>3 DEF Queue
  <2>. QED
    BY <1>1, <2>1 DEF HasQueued
<1>. QED
  BY <1>2, <1>3 DEF HasQueued

\* Answers to requests of which the accepted ones have done their work.
LEMMA AcceptedAnswer ==
    ASSUME WebhookAssumption, TypeOK, AcceptedInv, NEW R \in SUBSET Request, NEW ok \in BOOLEAN,
           \A r \in R : step[r] # "free", Answer(R, ok), seen' = seen, queuings' = queuings,
           ok => \A r \in R : \/ HasQueued(about[r]) \/ NothingToDo(about[r])
                              \/ step[r] = "check" /\ seen[about[r]] # "no"
    PROVE  AcceptedInv'
<1>1. /\ \A r \in R : step'[r] = "free" /\ about'[r] = None
      /\ \A r \in Request : r \notin R => step'[r] = step[r] /\ about'[r] = about[r]
  BY AnswerFacts
<1>2. \A n : HasQueued(n)' <=> HasQueued(n)
  BY DEF HasQueued
<1>3. \A r \in Request : step'[r] = "release" => HasQueued(about[r])'
  <2> SUFFICES ASSUME NEW r \in Request, step'[r] = "release" PROVE HasQueued(about[r])'
    OBVIOUS
  <2>1. HasQueued(about[r]) /\ about'[r] = about[r]
    BY <1>1 DEF AcceptedInv
  <2>. QED
    BY <2>1 DEF HasQueued
<1>4. \A r \in Request : step'[r] \in {"check", "expire"} => about'[r].keyed
  BY <1>1 DEF AcceptedInv
<1>5. ASSUME NEW n \in accepted'
      PROVE  HasQueued(n)' \/ NothingToDo(n) \/ (n.keyed /\ seen'[n] # "no")
  <2>1. CASE n \in accepted
    BY <1>2, <2>1 DEF AcceptedInv
  <2>2. CASE n \notin accepted
    <3>1. ok /\ \E r \in R : about[r] = n
      BY <2>2 DEF Answer
    <3>2. PICK r \in R : about[r] = n
      BY <3>1
    <3>3. step[r] = "check" => n.keyed
      BY <3>2 DEF AcceptedInv
    <3>. QED
      BY <1>2, <3>1, <3>2, <3>3
  <2>. QED
    BY <2>1, <2>2
<1>6. ASSUME NEW n \in News, n.keyed, seen'[n] # "no"
      PROVE  \/ HasQueued(n)' \/ NothingToDo(n) \/ n \in failed'
             \/ \E r \in Request : Past(r, n)'
  <2>1. \/ HasQueued(n) \/ NothingToDo(n) \/ n \in failed
        \/ \E r \in Request : Past(r, n)
    BY <1>6 DEF AcceptedInv
  <2>2. n \in failed => n \in failed'
    BY DEF Answer
  <2>3. ASSUME NEW r \in R, Past(r, n)
        PROVE  HasQueued(n) \/ NothingToDo(n) \/ n \in failed'
    BY <2>3 DEF Answer, Past
  <2>4. \A r \in Request : r \notin R /\ Past(r, n) => Past(r, n)'
    BY <1>1 DEF Past
  <2>. QED
    BY <1>2, <2>1, <2>2, <2>3, <2>4
<1>. QED
  BY <1>3, <1>4, <1>5, <1>6 DEF AcceptedInv, NothingToDo

\* A request that has its key checked, and goes on.
LEMMA AcceptedGoes ==
    ASSUME WebhookAssumption, TypeOK, AcceptedInv, [Next]_vars, NEW r \in Request, NEW next,
           Goes(r, next), step[r] \notin {"free", "check"}, next \notin {"free", "check", "expire"},
           next = "release" => HasQueued(about[r])',
           \A n \in News : seen'[n] # "no" <=> seen[n] # "no",
           UNCHANGED <<accepted, failed>>
    PROVE  AcceptedInv'
<1>1. /\ step'[r] = next /\ about'[r] = about[r]
      /\ \A q \in Request : q # r => step'[q] = step[q] /\ about'[q] = about[q]
  BY GoesFacts
<1>2. \A n \in News : HasQueued(n) => HasQueued(n)'
  BY QueuingsGrow
<1>3. \A q \in Request : step[q] # "free" => about[q] \in News
  BY AboutFacts
<1>4. ASSUME NEW q \in Request, step'[q] = "release"
      PROVE  HasQueued(about[q])'
  <2>1. CASE q = r
    BY <1>1, <1>4, <2>1
  <2>2. CASE q # r
    <3>1. HasQueued(about[q]) /\ about[q] \in News
      BY <1>1, <1>3, <1>4, <2>2 DEF AcceptedInv
    <3>2. PICK n \in News : n = about[q]
      BY <3>1
    <3>3. HasQueued(n)' /\ about'[q] = n
      BY <1>1, <1>2, <2>2, <3>1, <3>2
    <3>. QED
      BY <3>3 DEF HasQueued
  <2>. QED
    BY <2>1, <2>2
<1>5. \A q \in Request : step'[q] \in {"check", "expire"} => about'[q].keyed
  BY <1>1 DEF AcceptedInv
<1>6. accepted \subseteq News
  BY DEF TypeOK
<1>7. \A n \in accepted' : HasQueued(n)' \/ NothingToDo(n) \/ (n.keyed /\ seen'[n] # "no")
  BY <1>2, <1>6 DEF AcceptedInv
<1>8. ASSUME NEW n \in News, n.keyed, seen'[n] # "no"
      PROVE  \/ HasQueued(n)' \/ NothingToDo(n) \/ n \in failed'
             \/ \E q \in Request : Past(q, n)'
  <2>1. \/ HasQueued(n) \/ NothingToDo(n) \/ n \in failed
        \/ \E q \in Request : Past(q, n)
    BY <1>8 DEF AcceptedInv
  <2>2. \A q \in Request : Past(q, n) => Past(q, n)'
    BY <1>1 DEF Past
  <2>. QED
    BY <1>2, <2>1, <2>2
<1>. QED
  BY <1>4, <1>5, <1>7, <1>8 DEF AcceptedInv, NothingToDo

\* Every step keeps it.
LEMMA AcceptedStep ==
    ASSUME WebhookAssumption, TypeOK, OnceInv, AcceptedInv, [Next]_vars
    PROVE  AcceptedInv'
<1>a. /\ seen \in [News -> {"no", "for good", "for 48 hours"}]
      /\ queuings \in [News -> Nat] /\ accepted \subseteq News
  BY DEF TypeOK
<1>1. ASSUME NEW r \in Request, NEW m \in News, Deliver(r, m)
      PROVE  AcceptedInv'
  <2>1. /\ step[r] = "free" /\ about[r] = None /\ about'[r] = m
        /\ step'[r] = (IF m.keyed THEN "check" ELSE "read")
        /\ \A q \in Request : q # r => step'[q] = step[q] /\ about'[q] = about[q]
    BY <1>1 DEF Deliver, TypeOK
  <2>2. UNCHANGED <<seen, queuings, accepted, failed>>
    BY <1>1 DEF Deliver
  <2>3. \A n : HasQueued(n)' <=> HasQueued(n)
    BY <2>2 DEF HasQueued
  <2>4. ASSUME NEW q \in Request, step'[q] = "release"
        PROVE  HasQueued(about[q])'
    <3>1. HasQueued(about[q]) /\ about'[q] = about[q]
      BY <2>1, <2>4 DEF AcceptedInv
    <3>. QED
      BY <2>2, <3>1 DEF HasQueued
  <2>5. \A q \in Request : step'[q] \in {"check", "expire"} => about'[q].keyed
    BY <2>1 DEF AcceptedInv
  <2>6. \A n \in News, q \in Request : Past(q, n) => Past(q, n)'
    BY <2>1 DEF Past, WebhookAssumption
  <2>. QED
    BY <2>2, <2>3, <2>4, <2>5, <2>6 DEF AcceptedInv, NothingToDo
<1>2. ASSUME NEW r \in Request, CheckKey(r)
      PROVE  AcceptedInv'
  <2>1. about[r] \in News /\ step[r] = "check"
    BY <1>2, AboutFacts DEF CheckKey
  <2>2. CASE Answer({r}, TRUE) /\ seen[about[r]] # "no" /\ seen' = seen
    BY <1>2, <2>1, <2>2, AcceptedAnswer DEF CheckKey
  <2>3. CASE /\ Goes(r, "expire") /\ seen' = [seen EXCEPT ![about[r]] = "for good"]
             /\ UNCHANGED <<accepted, failed>>
    <3>1. /\ step'[r] = "expire" /\ about' = about
          /\ \A q \in Request : q # r => step'[q] = step[q]
      BY <2>3, GoesFacts DEF Goes
    <3>2. \A n \in News : /\ seen[n] # "no" => seen'[n] # "no"
                          /\ seen'[n] # "no" => seen[n] # "no" \/ n = about[r]
      BY <1>a, <2>3
    <3>3. queuings' = queuings
      BY <1>2 DEF CheckKey
    <3>4. \A n : HasQueued(n)' <=> HasQueued(n)
      BY <3>3 DEF HasQueued
    <3>5. ASSUME NEW q \in Request, step'[q] = "release"
          PROVE  HasQueued(about[q])'
      <4>1. HasQueued(about[q])
        BY <3>1, <3>5 DEF AcceptedInv
      <4>. QED
        BY <3>1, <3>3, <4>1 DEF HasQueued
    <3>6. \A q \in Request : step'[q] \in {"check", "expire"} => about'[q].keyed
      BY <2>1, <3>1 DEF AcceptedInv
    <3>7. \A n \in News, q \in Request : Past(q, n) => Past(q, n)'
      BY <2>1, <3>1 DEF Past
    <3>8. Past(r, about[r])' /\ about'[r] = about[r]
      BY <3>1 DEF Past
    <3>9. \A n \in accepted' : HasQueued(n)' \/ NothingToDo(n) \/ (n.keyed /\ seen'[n] # "no")
      BY <1>a, <2>3, <3>2, <3>4 DEF AcceptedInv
    <3>10. ASSUME NEW n \in News, n.keyed, seen'[n] # "no"
           PROVE  \/ HasQueued(n)' \/ NothingToDo(n) \/ n \in failed'
                  \/ \E q \in Request : Past(q, n)'
      <4>1. CASE n = about[r]
        BY <3>1, <4>1 DEF Past
      <4>2. CASE n # about[r]
        BY <2>3, <3>2, <3>4, <3>7, <3>10, <4>2 DEF AcceptedInv
      <4>. QED
        BY <4>1, <4>2
    <3>. QED
      BY <3>5, <3>6, <3>9, <3>10 DEF AcceptedInv, NothingToDo
  <2>. QED
    BY <1>2, <2>1, <2>2, <2>3 DEF CheckKey, SameKey
<1>3. ASSUME NEW r \in Request, Expire(r)
      PROVE  AcceptedInv'
  <2>1. about[r] \in News /\ step[r] = "expire"
    BY <1>3, AboutFacts DEF Expire
  <2>2. seen[about[r]] # "no"
    <3>1. PICK n \in News : n = about[r]
      BY <2>1
    <3>2. n.keyed /\ Past(r, n)
      BY <2>1, <3>1 DEF AcceptedInv, Past
    <3>. QED
      BY <3>1, <3>2 DEF OnceInv, Once
  <2>3. \A n \in News : seen'[n] # "no" <=> seen[n] # "no"
    BY <1>3, <1>a, <2>2 DEF Expire
  <2>. QED
    BY <1>3, <2>1, <2>3, AcceptedGoes DEF Expire
<1>4. ASSUME NEW r \in Request, Read(r)
      PROVE  AcceptedInv'
  <2>1. CASE Goes(r, "acquire") /\ UNCHANGED <<accepted, failed>>
    BY <1>4, <2>1, AcceptedGoes DEF Read
  <2>2. CASE Answer({r}, TRUE) /\ NothingToDo(about[r])
    BY <1>4, <2>2, AcceptedAnswer DEF Read
  <2>3. CASE Answer({r}, FALSE)
    BY <1>4, <2>3, AcceptedAnswer DEF Read
  <2>. QED
    BY <1>4, <2>1, <2>2, <2>3 DEF Read, NothingToDo
<1>5. ASSUME NEW r \in Request, Acquire(r)
      PROVE  AcceptedInv'
  BY <1>5, PathBegins, AcceptedGoes DEF Acquire
<1>6. ASSUME NEW r \in Request, GiveUp(r)
      PROVE  AcceptedInv'
  BY <1>6, AcceptedAnswer DEF GiveUp
<1>7. ASSUME NEW r \in Request, Save(r)
      PROVE  AcceptedInv'
  <2>1. PICK next \in {"save record", "queue record", "queue"} : Goes(r, next)
    BY <1>7, CriticalPath DEF Save, Goes
  <2>. QED
    BY <1>7, <2>1, AcceptedGoes DEF Save
<1>8. ASSUME NEW r \in Request, Queue(r)
      PROVE  AcceptedInv'
  <2>1. PICK next \in {"queue", "release"} :
           Goes(r, next) /\ (next = "release" => step[r] = "queue")
    BY <1>8, CriticalPath DEF Queue, Goes
  <2>2. ASSUME next = "release"
        PROVE  HasQueued(about[r])'
    <3>1. about[r] \in News /\ about' = about
      BY <1>8, <2>1, AboutFacts DEF Queue, Goes
    <3>2. queuings' = [queuings EXCEPT ![about[r]] = queuings[about[r]] + 1]
      BY <1>8, <2>1, <2>2 DEF Queue
    <3>3. queuings'[about'[r]] = queuings[about[r]] + 1 /\ queuings[about[r]] \in Nat
      BY <1>a, <3>1, <3>2
    <3>. QED
      BY <3>3 DEF HasQueued
  <2>. QED
    BY <1>8, <2>1, <2>2, AcceptedGoes DEF Queue
<1>9. ASSUME NEW r \in Request, Release(r)
      PROVE  AcceptedInv'
  <2>1. HasQueued(about[r])
    BY <1>9 DEF Release, AcceptedInv
  <2>. QED
    BY <1>9, <2>1, AcceptedAnswer DEF Release
<1>10. ASSUME NEW r \in Request, Fails(r)
      PROVE  AcceptedInv'
  BY <1>10, AcceptedAnswer DEF Fails
<1>11. ASSUME NEW R \in SUBSET Request, Dies(R)
      PROVE  AcceptedInv'
  BY <1>11, AcceptedAnswer DEF Dies
<1>12. CASE UNCHANGED <<front, seen, queuings, accepted, failed>>
  BY <1>12 DEF AcceptedInv, HasQueued, NothingToDo, Past, front
<1>13. ASSUME NEW s, LockRunsOut(s) \/ Take(s)
      PROVE  UNCHANGED <<front, seen, queuings, accepted, failed>>
  BY <1>13 DEF LockRunsOut, Take
<1>. QED
  BY <1>1, <1>2, <1>3, <1>4, <1>5, <1>6, <1>7, <1>8, <1>9, <1>10, <1>11, <1>12, <1>13
  DEF Next, vars

\* A notification answered with 200 has queued its task, unless it is none of
\* the shop's business, or is still being processed, or has a key and a failed
\* delivery behind it (views.py, webhook_utils.py:48-51).
THEOREM AcceptedIsQueued == ASSUME WebhookAssumption PROVE Spec => []AcceptedNewsIsQueued
<1>1. Init => OnceInv /\ AcceptedInv
  BY OnceInit DEF Init, AcceptedInv
<1>2. TypeOK /\ OnceInv /\ AcceptedInv /\ [Next]_vars => OnceInv' /\ AcceptedInv'
  BY OnceStep, AcceptedStep
<1>3. TypeOK /\ AcceptedInv => AcceptedNewsIsQueued
  <2> SUFFICES ASSUME TypeOK, AcceptedInv, NEW n \in accepted,
                      ~HasQueued(n), ~NothingToDo(n)
               PROVE  \/ n.keyed /\ n \in failed
                      \/ \E r \in Request : about[r] = n
    BY DEF AcceptedNewsIsQueued, HasQueued, NothingToDo
  <2>1. n \in News
    BY DEF TypeOK
  <2>. QED
    BY <2>1 DEF AcceptedInv, Past
<1>4. WebhookInv => TypeOK
  BY DEF WebhookInv
<1>. QED
  BY <1>1, <1>2, <1>3, <1>4, CriticalSection, PTL DEF Spec

-----------------------------------------------------------------------------
(* No status waits under a key without a task that will take it.            *)

Told(s)    == IF s \in Slot THEN s ELSE <<"FRAGMENT", s[2]>>
ToQueue(s) == IF s \in Slot THEN {"save record", "queue record", "queue"} ELSE {"queue record"}
HasTask(s) == queued[s] > 0

\* A request that has written what is under a key and is still to queue its task.
Writes(r, s) == SlotOf(about[r]) = Told(s) /\ step[r] \in ToQueue(s)

WillBeTaken(s) ==
    \/ HasTask(s) \/ Told(s) \in broken
    \/ \E r \in Request : Writes(r, s)
TaskInv == \A s \in Slot \cup RecordSlot : key[s] # None => WillBeTaken(s)

\* A key that is not written, of which no request is done, keeps its task.
LEMMA TaskKept ==
    ASSUME TaskInv, NEW s \in Slot \cup RecordSlot, key'[s] = key[s], queued'[s] = queued[s],
           broken \subseteq broken',
           \A r \in Request : Writes(r, s) => Writes(r, s)' \/ Told(s) \in broken'
    PROVE  key'[s] # None => WillBeTaken(s)'
<1>1. HasTask(s)' <=> HasTask(s)
  BY DEF HasTask
<1>2. Told(s)' = Told(s)
  BY DEF Told
<1>. QED
  BY <1>1, <1>2 DEF TaskInv, WillBeTaken

\* A request that writes nothing yet, or nothing any more, leaves those that do.
LEMMA WritesKept ==
    ASSUME NEW r \in Request, step[r] \notin {"save record", "queue record", "queue"},
           \A q \in Request : q # r => step'[q] = step[q] /\ about'[q] = about[q],
           NEW q \in Request, NEW s, Writes(q, s)
    PROVE  Writes(q, s)'
<1>1. q # r
  BY DEF Writes, ToQueue
<1>. QED
  BY <1>1 DEF Writes, ToQueue, Told

\* Requests that are answered while they write have broken off.
LEMMA WritersBreak ==
    ASSUME TypeOK, NEW R \in SUBSET Request, NEW ok, Answer(R, ok), Breaks(R),
           NEW q \in Request, NEW s, Writes(q, s)
    PROVE  Writes(q, s)' \/ Told(s) \in broken'
<1>1. CASE q \in R
  <2>1. step[q] \in Critical
    BY DEF Writes, ToQueue, Critical
  <2>. QED
    BY <1>1, <2>1 DEF Breaks, Writes
<1>2. CASE q \notin R
  BY <1>2, AnswerFacts DEF Writes, ToQueue, Told
<1>. QED
  BY <1>1, <1>2

\* Every step keeps it.
LEMMA TaskStep ==
    ASSUME WebhookAssumption, TypeOK, TaskInv, [Next]_vars
    PROVE  TaskInv'
<1> SUFFICES ASSUME NEW s \in Slot \cup RecordSlot PROVE key'[s] # None => WillBeTaken(s)'
  BY DEF TaskInv
<1>a. /\ key \in [Slot \cup RecordSlot -> News \cup {None}]
      /\ queued \in [Slot \cup RecordSlot -> Nat]
  <2>1. /\ key \in [Slot \cup RecordSlot -> News \cup {None}]
        /\ queued \in [Slot \cup RecordSlot -> 0 .. MaxTasks]
    BY DEF TypeOK
  <2>2. 0 .. MaxTasks \subseteq Nat
    <3>1. MaxTasks \in Nat
      BY DEF WebhookAssumption
    <3>. QED
      BY <3>1
  <2>. QED
    BY <2>1, <2>2
<1>1. ASSUME NEW r \in Request, step[r] \notin {"save record", "queue record", "queue"},
             \A q \in Request : q # r => step'[q] = step[q] /\ about'[q] = about[q],
             UNCHANGED <<key, queued, broken>>
      PROVE  key'[s] # None => WillBeTaken(s)'
  BY <1>1, WritesKept, TaskKept
<1>2. ASSUME NEW r \in Request, NEW n \in News, Deliver(r, n)
      PROVE  key'[s] # None => WillBeTaken(s)'
  BY <1>1, <1>2 DEF Deliver, TypeOK
<1>3. ASSUME NEW r \in Request, CheckKey(r) \/ Read(r) \/ GiveUp(r) \/ Release(r)
      PROVE  key'[s] # None => WillBeTaken(s)'
  <2>1. \/ Goes(r, "expire") \/ Goes(r, "acquire")
        \/ Answer({r}, TRUE) \/ Answer({r}, FALSE)
    BY <1>3 DEF CheckKey, Read, GiveUp, Release
  <2>2. \A q \in Request : q # r => step'[q] = step[q] /\ about'[q] = about[q]
    <3>1. ASSUME NEW next, Goes(r, next)
          PROVE  \A q \in Request : q # r => step'[q] = step[q] /\ about'[q] = about[q]
      BY <3>1, GoesFacts
    <3>2. ASSUME NEW ok, Answer({r}, ok)
          PROVE  \A q \in Request : q # r => step'[q] = step[q] /\ about'[q] = about[q]
      BY <3>2, AnswerOne
    <3>. QED
      BY <2>1, <3>1, <3>2
  <2>. QED
    BY <1>1, <1>3, <2>2 DEF CheckKey, Read, GiveUp, Release
<1>4. ASSUME NEW r \in Request, Expire(r) \/ Acquire(r)
      PROVE  key'[s] # None => WillBeTaken(s)'
  <2>1. \A q \in Request : q # r => step'[q] = step[q] /\ about'[q] = about[q]
    BY <1>4, GoesFacts DEF Expire, Acquire
  <2>. QED
    BY <1>1, <1>4, <2>1 DEF Expire, Acquire
<1>5. ASSUME NEW r \in Request, Save(r)
      PROVE  key'[s] # None => WillBeTaken(s)'
  <2>1. /\ SlotOf(about[r]) \in Slot /\ RecordOf(about[r]) \in RecordSlot
        /\ about[r] \in News
    BY <1>5, AboutFacts DEF Save
  <2>2. PICK next \in Critical :
           /\ Goes(r, next)
           /\ step[r] = "save" => next \in {"save record", "queue"}
           /\ step[r] = "save record" => next = "queue record" /\ about[r].hasId
    BY <1>5, CriticalPath DEF Save, Goes
  <2>3. /\ step'[r] = next /\ about' = about
        /\ \A q \in Request : q # r => step'[q] = step[q]
    BY <2>2, GoesFacts DEF Goes
  <2>4. queued' = queued /\ broken' = broken
    BY <1>5 DEF Save
  <2>5. CASE step[r] = "save"
    <3>1. key' = [key EXCEPT ![SlotOf(about[r])] = about[r]]
      BY <1>5, <2>5 DEF Save
    <3>2. CASE s = SlotOf(about[r])
      <4>1. Writes(r, s)'
        BY <2>1, <2>2, <2>3, <2>5, <3>2 DEF Writes, Told, ToQueue
      <4>. QED
        BY <4>1 DEF WillBeTaken
    <3>3. CASE s # SlotOf(about[r])
      <4>1. key'[s] = key[s]
        BY <3>1, <3>3, <1>a
      <4>. QED
        BY <2>3, <2>4, <2>5, <4>1, WritesKept, TaskKept
    <3>. QED
      BY <3>2, <3>3
  <2>6. CASE step[r] = "save record"
    <3>1. key' = [key EXCEPT ![RecordOf(about[r])] = about[r]]
      BY <1>5, <2>6 DEF Save, RecordOf
    <3>2. CASE s = RecordOf(about[r])
      <4>1. about[r].service = "FRAGMENT"
        BY <2>1, <2>2, <2>6 DEF WebhookAssumption
      <4>2. s \notin Slot /\ s[2] = about[r].tx
        BY <2>1, <3>2, SlotsDiffer DEF RecordOf
      <4>3. SlotOf(about[r]) = Told(s)
        BY <4>1, <4>2 DEF Told, SlotOf
      <4>4. Writes(r, s)'
        BY <2>2, <2>3, <2>6, <4>2, <4>3 DEF Writes, Told, ToQueue
      <4>. QED
        BY <4>4 DEF WillBeTaken
    <3>3. CASE s # RecordOf(about[r])
      <4>1. key'[s] = key[s]
        BY <3>1, <3>3, <1>a
      <4>2. \A q \in Request : Writes(q, s) => Writes(q, s)'
        BY <2>2, <2>3, <2>6 DEF Writes, Told, ToQueue
      <4>. QED
        BY <2>4, <4>1, <4>2, TaskKept
    <3>. QED
      BY <3>2, <3>3
  <2>. QED
    BY <1>5, <2>5, <2>6 DEF Save
<1>6. ASSUME NEW r \in Request, Queue(r)
      PROVE  key'[s] # None => WillBeTaken(s)'
  <2> DEFINE t == IF step[r] = "queue" THEN SlotOf(about[r]) ELSE RecordOf(about[r])
  <2>1. /\ SlotOf(about[r]) \in Slot /\ RecordOf(about[r]) \in RecordSlot
        /\ t \in Slot \cup RecordSlot
    BY <1>6, AboutFacts DEF Queue
  <2>2. PICK next \in Critical :
           Goes(r, next) /\ (step[r] = "queue record" => next = "queue")
    BY <1>6, CriticalPath DEF Queue, Goes
  <2>3. /\ step'[r] = next /\ about' = about
        /\ \A q \in Request : q # r => step'[q] = step[q]
    BY <2>2, GoesFacts DEF Goes
  <2>4. key' = key /\ broken' = broken /\ step[r] \in {"queue", "queue record"}
    BY <1>6 DEF Queue
  <2>5. queued' = [queued EXCEPT ![t] = queued[t] + 1]
    BY <1>6 DEF Queue, RecordOf
  <2>6. CASE s = t
    <3> HIDE DEF t
    <3>1. queued'[s] = queued[s] + 1 /\ queued[s] \in Nat
      BY <1>a, <2>1, <2>5, <2>6
    <3>2. HasTask(s)'
      BY <3>1 DEF HasTask
    <3>. QED
      BY <3>2 DEF WillBeTaken
  <2>7. CASE s # t
    <3>1. queued'[s] = queued[s]
      <4> HIDE DEF t
      <4>. QED
        BY <1>a, <2>1, <2>5, <2>7
    <3>2. Writes(r, s) => Writes(r, s)'
      <4> SUFFICES ASSUME Writes(r, s) PROVE Writes(r, s)'
        OBVIOUS
      <4>1. SlotOf(about[r]) = Told(s) /\ step[r] \in ToQueue(s)
        BY DEF Writes
      <4>2. CASE s \in Slot
        <5>1. s = SlotOf(about[r])
          BY <4>1, <4>2 DEF Told
        <5>2. step[r] = "queue record"
          BY <2>4, <2>7, <5>1
        <5>. QED
          BY <2>2, <2>3, <4>1, <4>2, <5>2 DEF Writes, Told, ToQueue
      <4>3. CASE s \notin Slot
        <5>1. step[r] = "queue record" /\ SlotOf(about[r]) = <<"FRAGMENT", s[2]>>
          BY <4>1, <4>3 DEF Told, ToQueue
        <5>2. s[2] = about[r].tx /\ s = <<"FRAGMENT__FROM_WEBHOOK", s[2]>>
          BY <4>3, <5>1, SlotsDiffer DEF SlotOf
        <5>3. s = t
          BY <5>1, <5>2 DEF RecordOf
        <5>. QED
          BY <2>7, <5>3
      <4>. QED
        BY <4>2, <4>3
    <3>3. \A q \in Request : Writes(q, s) => Writes(q, s)'
      <4>1. \A q \in Request : q # r /\ Writes(q, s) => Writes(q, s)'
        BY <2>3 DEF Writes, Told, ToQueue
      <4>. QED
        BY <3>2, <4>1
    <3>. QED
      BY <2>4, <3>1, <3>3, TaskKept
  <2>. QED
    BY <2>6, <2>7
<1>7. ASSUME NEW R \in SUBSET Request, Answer(R, FALSE), Breaks(R), UNCHANGED <<key, queued>>
      PROVE  key'[s] # None => WillBeTaken(s)'
  <2>1. broken \subseteq broken'
    BY <1>7 DEF Breaks
  <2>. QED
    BY <1>7, <2>1, WritersBreak, TaskKept
<1>8. ASSUME NEW r \in Request, Fails(r)
      PROVE  key'[s] # None => WillBeTaken(s)'
  BY <1>7, <1>8 DEF Fails
<1>9. ASSUME NEW R \in SUBSET Request, Dies(R)
      PROVE  key'[s] # None => WillBeTaken(s)'
  BY <1>7, <1>9 DEF Dies
<1>10. ASSUME UNCHANGED front, key'[s] = key[s], queued'[s] = queued[s], broken \subseteq broken'
       PROVE  key'[s] # None => WillBeTaken(s)'
  <2>1. \A q \in Request : Writes(q, s) => Writes(q, s)'
    BY <1>10 DEF front, Writes, Told, ToQueue
  <2>. QED
    BY <1>10, <2>1, TaskKept
<1>11. ASSUME NEW t \in Slot, LockRunsOut(t)
       PROVE  key'[s] # None => WillBeTaken(s)'
  BY <1>10, <1>11 DEF LockRunsOut
<1>12. ASSUME NEW t \in Slot \cup RecordSlot, Take(t)
       PROVE  key'[s] # None => WillBeTaken(s)'
  <2>1. key' = [key EXCEPT ![t] = None] /\ queued' = [queued EXCEPT ![t] = queued[t] - 1]
    BY <1>12 DEF Take
  <2>2. s # t => key'[s] = key[s] /\ queued'[s] = queued[s]
    BY <1>a, <2>1
  <2>3. s = t => key'[s] = None
    BY <1>a, <2>1
  <2>. QED
    BY <1>10, <1>12, <2>2, <2>3 DEF Take
<1>13. CASE UNCHANGED vars
  BY <1>10, <1>13 DEF vars
<1>. QED
  BY <1>2, <1>3, <1>4, <1>5, <1>6, <1>8, <1>9, <1>11, <1>12, <1>13 DEF Next

\* A status that waits under a key, of the row or of the order's record, has a
\* task queued that will take it, or a request that is still to queue one; the
\* poll has to find it only where a request broke off or lost its lock
\* (critical_section, views.py:95-107).
THEOREM HasItsTask == ASSUME WebhookAssumption PROVE Spec => []StatusHasItsTask
<1>1. Init => TaskInv
  BY DEF Init, TaskInv
<1>2. TypeOK /\ TaskInv /\ [Next]_vars => TaskInv'
  BY TaskStep
<1>3. TaskInv => StatusHasItsTask
  <2> SUFFICES ASSUME TaskInv, NEW s \in Slot \cup RecordSlot, key[s] # None
               PROVE  \/ queued[s] > 0 \/ Told(s) \in broken
                      \/ \E r \in Inside(Told(s)) :
                            step[r] \in {"save record", "queue record", "queue"}
    BY DEF StatusHasItsTask, Told
  <2>1. WillBeTaken(s)
    BY DEF TaskInv
  <2>2. ASSUME NEW r \in Request, Writes(r, s)
        PROVE  r \in Inside(Told(s)) /\ step[r] \in {"save record", "queue record", "queue"}
    BY <2>2 DEF Writes, ToQueue, Inside, Critical
  <2>. QED
    BY <2>1, <2>2 DEF WillBeTaken, HasTask
<1>4. WebhookInv => TypeOK
  BY DEF WebhookInv
<1>. QED
  BY <1>1, <1>2, <1>3, <1>4, CriticalSection, PTL DEF Spec

-----------------------------------------------------------------------------
(* The row's status and the order's record are told the same news.          *)

RowKey(x)    == <<"FRAGMENT", x>>
RecordKey(x) == <<"FRAGMENT__FROM_WEBHOOK", x>>

\* The request is under the lock of the order, and what it has left by its step.
At(r, x)    == SlotOf(about[r]) = RowKey(x) /\ step[r] \in Critical
Wrote(r, x) ==
    /\ key[RowKey(x)] \in {None, about[r]}
    /\ about[r].hasId /\ step[r] # "save record" => key[RecordKey(x)] \in {None, about[r]}
Agree(x) ==
    None \notin {key[RowKey(x)], key[RecordKey(x)]} /\ key[RowKey(x)].hasId
       => key[RowKey(x)] = key[RecordKey(x)]

\* Before the first write the keys agree; after it both hold what the request
\* has written, or what was taken since.
Tells(x) ==
    RowKey(x) \notin broken =>
       /\ (\A r \in Request : At(r, x) => step[r] = "save") => Agree(x)
       /\ \A r \in Request : At(r, x) /\ step[r] # "save" => Wrote(r, x)
TellInv == \A x \in Tx : Tells(x)

\* The keys of an order are keys.
LEMMA OrderKeys ==
    ASSUME NEW x \in Tx
    PROVE  /\ RowKey(x) \in Slot /\ RecordKey(x) \in RecordSlot
           /\ RowKey(x) \notin RecordSlot /\ RecordKey(x) \notin Slot
BY DEF RowKey, RecordKey, Slot, RecordSlot, Service

\* One request at a time is under the lock of an order.
LEMMA OneAt ==
    ASSUME Locked, NEW x \in Tx, RowKey(x) \notin broken,
           NEW r \in Request, At(r, x), NEW q \in Request, At(q, x)
    PROVE  q = r
BY OrderKeys DEF Locked, Inside, At

\* Steps that write nothing under an order's keys, and move nobody who has.
LEMMA TellsKept ==
    ASSUME NEW x, Tells(x), broken \subseteq broken',
           key'[RowKey(x)] \in {None, key[RowKey(x)]},
           key'[RecordKey(x)] \in {None, key[RecordKey(x)]},
           RowKey(x) \notin broken' =>
              \A r \in Request :
                 /\ At(r, x) => At(r, x)' /\ step'[r] = step[r]
                 /\ At(r, x)' /\ step'[r] # "save" =>
                       At(r, x) /\ step'[r] = step[r] /\ about'[r] = about[r]
    PROVE  Tells(x)'
<1> SUFFICES ASSUME RowKey(x) \notin broken'
             PROVE  /\ (\A r \in Request : At(r, x)' => step'[r] = "save") => Agree(x)'
                    /\ \A r \in Request : At(r, x)' /\ step'[r] # "save" => Wrote(r, x)'
  BY DEF Tells, RowKey
<1>1. ASSUME \A r \in Request : At(r, x)' => step'[r] = "save"
      PROVE  Agree(x)'
  <2>1. Agree(x)
    BY <1>1 DEF Tells
  <2>. QED
    BY <2>1 DEF Agree, RowKey, RecordKey
<1>2. ASSUME NEW r \in Request, At(r, x)', step'[r] # "save"
      PROVE  Wrote(r, x)'
  <2>1. Wrote(r, x) /\ step'[r] = step[r] /\ about'[r] = about[r]
    BY <1>2 DEF Tells
  <2>. QED
    BY <2>1 DEF Wrote, RowKey, RecordKey
<1>. QED
  BY <1>1, <1>2

\* A request that writes, queues or releases under another lock.
LEMMA TellsElsewhere ==
    ASSUME WebhookAssumption, TypeOK, NEW x \in Tx, Tells(x),
           NEW r \in Request, Save(r) \/ Queue(r) \/ Release(r), SlotOf(about[r]) # RowKey(x)
    PROVE  Tells(x)'
<1>1. /\ SlotOf(about[r]) \in Slot /\ RecordOf(about[r]) \in RecordSlot
      /\ about[r] \in News /\ about[r] # None
  BY AboutFacts DEF Save, Queue, Release
<1>2. broken' = broken
  BY DEF Save, Queue, Release
<1>a. (\E next \in Critical : Goes(r, next)) \/ Answer({r}, TRUE)
  BY CriticalPath DEF Save, Queue, Release, Goes
<1>3. \A q \in Request : q # r => step'[q] = step[q] /\ about'[q] = about[q]
  BY <1>a, GoesFacts, AnswerOne
<1>4. about'[r] \in {about[r], None} /\ (about'[r] = None => step'[r] = "free")
  BY <1>1, <1>a, GoesFacts, AnswerOne
<1>5. ~At(r, x) /\ ~At(r, x)'
  BY <1>4 DEF At, RowKey, Critical
<1>6. \A q \in Request : q # r => (At(q, x)' <=> At(q, x))
  BY <1>3 DEF At, RowKey
<1>7. key'[RowKey(x)] = key[RowKey(x)] /\ key'[RecordKey(x)] = key[RecordKey(x)]
  <2>1. CASE key' = key
    BY <2>1
  <2>2. CASE Save(r) /\ step[r] = "save"
    <3>1. key' = [key EXCEPT ![SlotOf(about[r])] = about[r]]
      BY <2>2 DEF Save
    <3>. QED
      BY <1>1, <3>1, OrderKeys DEF TypeOK
  <2>3. CASE Save(r) /\ step[r] = "save record"
    <3>1. key' = [key EXCEPT ![RecordOf(about[r])] = about[r]]
      BY <2>3 DEF Save, RecordOf
    <3>2. about[r].hasId
      BY <2>3, CriticalPath DEF Save
    <3>3. about[r].service = "FRAGMENT"
      BY <1>1, <3>2 DEF WebhookAssumption
    <3>4. RecordOf(about[r]) # RecordKey(x)
      BY <3>3 DEF RecordOf, RecordKey, SlotOf, RowKey
    <3>. QED
      BY <1>1, <3>1, <3>4, OrderKeys DEF TypeOK
  <2>. QED
    BY <2>1, <2>2, <2>3 DEF Save, Queue, Release
<1>. QED
  BY <1>2, <1>3, <1>5, <1>6, <1>7, TellsKept

\* The request under the order's lock writes what is under both keys.
LEMMA TellsUnderLock ==
    ASSUME WebhookAssumption, TypeOK, Locked, Locked', NEW x \in Tx, Tells(x),
           NEW r \in Request, Save(r) \/ Queue(r) \/ Release(r), SlotOf(about[r]) = RowKey(x)
    PROVE  Tells(x)'
<1> SUFFICES ASSUME RowKey(x) \notin broken'
             PROVE  Tells(x)'
  BY DEF Tells, RowKey
<1>1. /\ about[r] \in News /\ about[r] # None /\ RecordOf(about[r]) = RecordKey(x)
      /\ key \in [Slot \cup RecordSlot -> News \cup {None}]
  <2>1. about[r].tx = x
    BY DEF SlotOf, RowKey
  <2>. QED
    BY <2>1, AboutFacts DEF Save, Queue, Release, TypeOK, RecordOf, RecordKey
<1>2. broken' = broken /\ RowKey(x) \notin broken
  BY DEF Save, Queue, Release
<1>3. At(r, x)
  BY DEF At, Save, Queue, Release, Critical
<1>4. step[r] # "save" => Wrote(r, x)
  BY <1>2, <1>3 DEF Tells
<1>5. ASSUME NEW next \in Critical \ {"save"}, Goes(r, next), Wrote(r, x)'
      PROVE  Tells(x)'
  <2>1. step'[r] = next /\ about'[r] = about[r]
    BY <1>5, GoesFacts
  <2>2. At(r, x)'
    BY <1>3, <1>5, <2>1 DEF At, RowKey
  <2>3. \A q \in Request : At(q, x)' => q = r
    <3>1. RowKey(x) \in Slot /\ RowKey(x)' = RowKey(x)
      BY OrderKeys DEF RowKey
    <3>. QED
      BY <2>2, <3>1 DEF Locked, Inside, At
  <2>. QED
    BY <1>5, <2>1, <2>2, <2>3 DEF Tells
<1>6. CASE Save(r) /\ step[r] = "save"
  <2>1. PICK next \in Critical \ {"save"} :
           Goes(r, next) /\ (next = (IF about[r].hasId THEN "save record" ELSE "queue"))
    BY <1>6, CriticalPath DEF Save, Goes, Critical
  <2>2. key'[RowKey(x)] = about[r] /\ step'[r] = next /\ about'[r] = about[r]
    BY <1>1, <1>6, <2>1, GoesFacts, OrderKeys DEF Save
  <2>3. Wrote(r, x)'
    BY <2>1, <2>2 DEF Wrote, RowKey
  <2>. QED
    BY <1>5, <2>1, <2>3
<1>7. CASE Save(r) /\ step[r] = "save record"
  <2>1. Goes(r, "queue record") /\ "queue record" \in Critical \ {"save"}
    BY <1>7, CriticalPath DEF Save, Goes, Critical
  <2>2. key' = [key EXCEPT ![RecordKey(x)] = about[r]]
    BY <1>1, <1>7 DEF Save, RecordOf
  <2>3. key'[RowKey(x)] = key[RowKey(x)] /\ key'[RecordKey(x)] = about[r]
    BY <1>1, <2>2, OrderKeys
  <2>4. about'[r] = about[r]
    BY <2>1, GoesFacts
  <2>5. Wrote(r, x)'
    BY <1>4, <1>7, <2>3, <2>4 DEF Wrote, RowKey, RecordKey
  <2>. QED
    BY <1>5, <2>1, <2>5
<1>8. CASE Queue(r)
  <2>1. PICK next \in Critical \ {"save"} : Goes(r, next)
    BY <1>8, CriticalPath DEF Queue, Goes, Critical
  <2>2. key' = key /\ about'[r] = about[r] /\ step[r] \notin {"save", "save record"}
    BY <1>8, <2>1, GoesFacts DEF Queue
  <2>3. Wrote(r, x)'
    BY <1>4, <2>2 DEF Wrote, RowKey, RecordKey
  <2>. QED
    BY <1>5, <2>1, <2>3
<1>9. CASE Release(r)
  <2>1. key' = key /\ step[r] = "release"
    BY <1>9 DEF Release
  <2>2. Agree(x)'
    BY <1>1, <1>4, <2>1 DEF Wrote, Agree, RowKey, RecordKey
  <2>3. \A q \in Request : ~At(q, x)'
    <3>1. /\ step'[r] = "free"
          /\ \A q \in Request : q # r => step'[q] = step[q] /\ about'[q] = about[q]
      BY <1>9, AnswerOne DEF Release
    <3>2. \A q \in Request : q # r => ~At(q, x)
      BY <1>2, <1>3, OneAt
    <3>. QED
      BY <3>1, <3>2 DEF At, RowKey, Critical
  <2>. QED
    BY <2>2, <2>3 DEF Tells
<1>. QED
  BY <1>6, <1>7, <1>8, <1>9 DEF Save

\* Every step keeps it.
LEMMA TellStep ==
    ASSUME WebhookAssumption, TypeOK, Locked, Locked', TellInv, [Next]_vars
    PROVE  TellInv'
<1> SUFFICES ASSUME NEW x \in Tx PROVE Tells(x)'
  BY DEF TellInv
<1>0. Tells(x)
  BY DEF TellInv
<1>1. ASSUME NEW r \in Request, step[r] \notin Critical, step'[r] \notin Critical \/ step'[r] = "save",
             \A q \in Request : q # r => step'[q] = step[q] /\ about'[q] = about[q],
             UNCHANGED <<key, broken>>
      PROVE  Tells(x)'
  <2>1. ~At(r, x) /\ (At(r, x)' => step'[r] = "save")
    BY <1>1 DEF At, Critical
  <2>2. \A q \in Request : q # r => (At(q, x)' <=> At(q, x))
    BY <1>1 DEF At, RowKey
  <2>. QED
    BY <1>0, <1>1, <2>1, <2>2, TellsKept
<1>2. ASSUME NEW r \in Request, NEW n \in News, Deliver(r, n)
      PROVE  Tells(x)'
  BY <1>1, <1>2 DEF Deliver, TypeOK, Critical
<1>3. ASSUME NEW r \in Request, CheckKey(r) \/ Expire(r) \/ Read(r) \/ Acquire(r) \/ GiveUp(r)
      PROVE  Tells(x)'
  <2>1. /\ step[r] \notin Critical /\ UNCHANGED <<key, broken>>
    BY <1>3 DEF CheckKey, Expire, Read, Acquire, GiveUp, Critical
  <2>2. \/ \E next \in {"expire", "read", "acquire", "save"} : Goes(r, next)
        \/ \E ok \in BOOLEAN : Answer({r}, ok)
    BY <1>3, PathBegins DEF CheckKey, Expire, Read, Acquire, GiveUp
  <2>3. CASE \E next \in {"expire", "read", "acquire", "save"} : Goes(r, next)
    BY <1>1, <2>1, <2>3, GoesFacts DEF Critical
  <2>4. CASE \E ok \in BOOLEAN : Answer({r}, ok)
    BY <1>1, <2>1, <2>4, AnswerOne DEF Critical
  <2>. QED
    BY <2>2, <2>3, <2>4
<1>4. ASSUME NEW r \in Request, Save(r) \/ Queue(r) \/ Release(r)
      PROVE  Tells(x)'
  BY <1>0, <1>4, TellsElsewhere, TellsUnderLock
<1>5. ASSUME NEW R \in SUBSET Request, Answer(R, FALSE), Breaks(R), key' = key
      PROVE  Tells(x)'
  <2> SUFFICES ASSUME RowKey(x) \notin broken'
               PROVE  Tells(x)'
    BY DEF Tells, RowKey
  <2>1. broken \subseteq broken'
    BY <1>5 DEF Breaks
  <2>2. ASSUME NEW q \in R
        PROVE  ~At(q, x) /\ ~At(q, x)'
    <3>1. step'[q] = "free"
      BY <1>5, AnswerFacts
    <3>2. ~At(q, x)
      BY <1>5 DEF At, Breaks
    <3>. QED
      BY <3>1, <3>2 DEF At, Critical
  <2>3. ASSUME NEW q \in Request, q \notin R
        PROVE  step'[q] = step[q] /\ about'[q] = about[q] /\ (At(q, x)' <=> At(q, x))
    <3>1. step'[q] = step[q] /\ about'[q] = about[q]
      BY <1>5, <2>3, AnswerFacts
    <3>. QED
      BY <3>1 DEF At, RowKey
  <2>. QED
    BY <1>0, <1>5, <2>1, <2>2, <2>3, TellsKept
<1>6. ASSUME NEW r \in Request, Fails(r)
      PROVE  Tells(x)'
  BY <1>5, <1>6 DEF Fails
<1>7. ASSUME NEW R \in SUBSET Request, Dies(R)
      PROVE  Tells(x)'
  BY <1>5, <1>7 DEF Dies
<1>8. ASSUME UNCHANGED front, broken \subseteq broken',
             key'[RowKey(x)] \in {None, key[RowKey(x)]},
             key'[RecordKey(x)] \in {None, key[RecordKey(x)]}
      PROVE  Tells(x)'
  <2>1. \A q \in Request : At(q, x)' <=> At(q, x)
    BY <1>8 DEF front, At, RowKey
  <2>. QED
    BY <1>0, <1>8, <2>1, TellsKept DEF front
<1>9. ASSUME NEW s \in Slot, LockRunsOut(s)
      PROVE  Tells(x)'
  BY <1>8, <1>9 DEF LockRunsOut
<1>10. ASSUME NEW s \in Slot \cup RecordSlot, Take(s)
       PROVE  Tells(x)'
  <2>1. key' = [key EXCEPT ![s] = None]
    BY <1>10 DEF Take
  <2>2. /\ key'[RowKey(x)] \in {None, key[RowKey(x)]}
        /\ key'[RecordKey(x)] \in {None, key[RecordKey(x)]}
    BY <2>1, OrderKeys DEF TypeOK
  <2>. QED
    BY <1>8, <1>10, <2>2 DEF Take
<1>11. CASE UNCHANGED vars
  BY <1>8, <1>11 DEF vars
<1>. QED
  BY <1>2, <1>3, <1>4, <1>6, <1>7, <1>9, <1>10, <1>11 DEF Next

\* Of two webhooks of one order the same one comes last under the key of the
\* row's status and under that of the order's record: both are written under one
\* lock (critical_section, views.py:95-99).
THEOREM TheSameIsTold == ASSUME WebhookAssumption PROVE Spec => []KeysTellTheSame
<1>1. Init => TellInv
  <2> SUFFICES ASSUME Init, NEW x \in Tx PROVE Tells(x)
    BY DEF TellInv
  <2>1. \A r \in Request : ~At(r, x)
    BY DEF Init, At, Critical
  <2>2. key[RowKey(x)] = None
    BY OrderKeys DEF Init
  <2>. QED
    BY <2>1, <2>2 DEF Tells, Agree
<1>2. TypeOK /\ Locked /\ Locked' /\ TellInv /\ [Next]_vars => TellInv'
  BY TellStep
<1>3. TellInv => KeysTellTheSame
  <2> SUFFICES ASSUME TellInv, NEW x \in Tx,
                      RowKey(x) \notin broken, Inside(RowKey(x)) = {}
               PROVE  Agree(x)
    BY DEF KeysTellTheSame, Agree, RowKey, RecordKey
  <2>1. \A r \in Request : ~At(r, x)
    BY DEF Inside, At
  <2>. QED
    BY <2>1 DEF TellInv, Tells
<1>4. WebhookInv => TypeOK /\ Locked
  BY DEF WebhookInv, Locked
<1>. QED
  BY <1>1, <1>2, <1>3, <1>4, CriticalSection, PTL DEF Spec
=============================================================================
