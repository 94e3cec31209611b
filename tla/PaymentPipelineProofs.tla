------------------------ MODULE PaymentPipelineProofs ------------------------
(***************************************************************************)
(* Proofs about PaymentPipeline, for any transactions, workers and bounds.  *)
(*                                                                         *)
(* IInv is inductive.  Its parts are carried over a step one by one: the   *)
(* types (TypeStep); what a busy worker is (WorkersStep), from the types;  *)
(* that what it has read still holds (FreshStep), from the lock; and the   *)
(* right to place an order (RightsStep), from all of these.  The right is  *)
(* made when a row is moved to SENDING, which happens once because no      *)
(* status that Redis can hold leads back from there (PastIsClosed); it     *)
(* moves between the queue and one worker; it is used by the order.        *)
(*                                                                         *)
(* From the invariant follow what a step may do to a row, that an order is *)
(* placed for a row in SENDING only, and that the pipeline implements the  *)
(* contract of StarsOrder, whose permit is the right to place an order.    *)
(***************************************************************************)
EXTENDS PaymentPipeline, TLAPS

-----------------------------------------------------------------------------
(* Facts about the statuses.                                                *)

\* is_change_status_allowed: nothing that Redis can hold leads out of the statuses
\* past the point of no return.
LEMMA PastIsClosed ==
    ASSUME NEW current \in PastPointOfNoReturn,
           NEW new \in PaymentNews \cup FragmentNews,
           is_change_status_allowed(current, new)
    PROVE  new \in PastPointOfNoReturn \ {"SENDING"}
BY DEF PastPointOfNoReturn, PaymentNews, FragmentNews, is_change_status_allowed,
       STATUS_TRANSITION_MATRIX, SendingMoves, FailedMoves, ALL_STATUSES, Unrecognised

\* SENDING is entered from PROCESSING only.
LEMMA OnlyPaidMaySend ==
    ASSUME NEW current \in StatusString, is_change_status_allowed(current, "SENDING")
    PROVE  current = "PROCESSING"
BY DEF is_change_status_allowed, STATUS_TRANSITION_MATRIX, SendingMoves, FailedMoves,
       StatusString, ALL_STATUSES, Unrecognised

\* What the keys hold are statuses a row can take, none of them SENDING.
LEMMA NewsAreStatuses ==
    /\ PaymentNews \cup FragmentNews \subseteq StatusString \ {"SENDING"}
    /\ PaymentNews \cap FragmentNews = {}
    /\ NoKey \notin StatusString /\ Absent \notin StatusString
BY DEF PaymentNews, FragmentNews, StatusString, ALL_STATUSES, Unrecognised, NoKey, Absent

\* The translations of foreign statuses yield what the keys can hold.
LEMMA Translations ==
    /\ \A report : Translate(report) \in PaymentNews
    /\ \A raw : FromFragment(raw) \in FragmentNews
BY DEF Translate, FromPlatega, FromPayPear, FromFragment, PaymentNews, FragmentNews

-----------------------------------------------------------------------------
(* Types.                                                                   *)

\* A task has a transaction.
LEMMA TaskFacts == \A t \in Task : t.tx \in Tx
BY DEF Task

\* Every step keeps the types.
LEMMA TypeStep ==
    ASSUME TypeOK, WorkersInv, [Next]_vars
    PROVE  TypeOK'
<1> USE DEF TypeOK, Take, Hold, Enqueue, Done, Goto, DatabaseFault, KeepStatus, Decide,
            shop, keys, locals, outside, UpdatePc, PreparePc, SendPc, Idle
<1>1. ASSUME NEW x \in Tx, CreateTransaction(x)
      PROVE  TypeOK'
    BY <1>1 DEF CreateTransaction, StatusString, ALL_STATUSES
<1>2. ASSUME NEW x \in Tx, CleanUpCancelled(x)
      PROVE  TypeOK'
    BY <1>2 DEF CleanUpCancelled
<1>3. ASSUME NEW x \in Tx, NEW report \in PaymentReports, PaymentWebhook(x, report)
      PROVE  TypeOK'
  <2>1. Translate(report) \in PaymentNews
    BY Translations
  <2>2. [kind |-> "update", tx |-> x, payload |-> TRUE] \in Task
    BY DEF Task
  <2>. QED
    BY <1>3, <2>1, <2>2 DEF PaymentWebhook
<1>4. ASSUME NEW x \in Tx, NEW raw \in FragmentStatus, FragmentWebhook(x, raw)
      PROVE  TypeOK'
  <2>1. FromFragment(raw) \in FragmentNews
    BY Translations
  <2>2. [kind |-> "update", tx |-> x, payload |-> FALSE] \in Task
    BY DEF Task
  <2>. QED
    BY <1>4, <2>1, <2>2 DEF FragmentWebhook
<1>5. ASSUME NEW x \in Tx, OrderAdvances(x)
      PROVE  TypeOK'
    BY <1>5 DEF OrderAdvances, FragmentStatus
<1>6. ASSUME NEW x \in Tx, LockRunsOut(x)
      PROVE  TypeOK'
    BY <1>6 DEF LockRunsOut
<1>7. ASSUME NEW w \in Worker, NEW t \in Task, StartUpdate(w, t)
      PROVE  TypeOK'
  <2>1. t.tx \in Tx
    BY TaskFacts
  <2>. QED
    BY <1>7, <2>1 DEF StartUpdate
<1>8. ASSUME NEW w \in Worker, NEW t \in Task, StartPrepare(w, t)
      PROVE  TypeOK'
  <2>1. t.tx \in Tx
    BY TaskFacts
  <2>. QED
    BY <1>8, <2>1 DEF StartPrepare
<1>9. ASSUME NEW w \in Worker, NEW t \in Task, StartSend(w, t)
      PROVE  TypeOK'
  <2>1. t.tx \in Tx
    BY TaskFacts
  <2>. QED
    BY <1>9, <2>1 DEF StartSend
<1>10. ASSUME NEW w \in Worker, ConsumeFragment(w)
      PROVE  TypeOK'
  <2>1. task[w] \in Task /\ task[w].tx \in Tx
    BY <1>10, TaskFacts DEF ConsumeFragment
  <2>. QED
    BY <1>10, <2>1 DEF ConsumeFragment
<1>11. ASSUME NEW w \in Worker, ReadRow(w)
      PROVE  TypeOK'
  <2>1. task[w] \in Task /\ task[w].tx \in Tx
    BY <1>11, TaskFacts DEF ReadRow
  <2>. QED
    BY <1>11, <2>1 DEF ReadRow
<1>12. ASSUME NEW w \in Worker, FindNoRow(w)
      PROVE  TypeOK'
  <2>1. task[w] \in Task /\ task[w].tx \in Tx
    BY <1>12, TaskFacts DEF FindNoRow
  <2>. QED
    BY <1>12, <2>1 DEF FindNoRow
<1>13. ASSUME NEW w \in Worker, Recreate(w)
      PROVE  TypeOK'
  <2>1. task[w] \in Task /\ task[w].tx \in Tx
    BY <1>13, TaskFacts DEF Recreate
  <2>. QED
    BY <1>13, <2>1 DEF Recreate
<1>14. ASSUME NEW w \in Worker, InsertRow(w)
      PROVE  TypeOK'
  <2>1. task[w] \in Task /\ task[w].tx \in Tx
    BY <1>14, TaskFacts DEF InsertRow
  <2>2. NewStatus(w) \in StatusString
    BY <1>14, NewsAreStatuses DEF InsertRow, WorkersInv, WorkerInv
  <2>. QED
    BY <1>14, <2>1, <2>2 DEF InsertRow
<1>15. ASSUME NEW w \in Worker, WriteRow(w)
      PROVE  TypeOK'
  <2>1. task[w] \in Task /\ task[w].tx \in Tx
    BY <1>15, TaskFacts DEF WriteRow
  <2>2. NewStatus(w) \in StatusString
    BY <1>15, NewsAreStatuses DEF WriteRow, WorkersInv, WorkerInv
  <2>. QED
    BY <1>15, <2>1, <2>2 DEF WriteRow
<1>16. ASSUME NEW w \in Worker, WriteFindsNoRow(w)
      PROVE  TypeOK'
  <2>1. task[w] \in Task /\ task[w].tx \in Tx
    BY <1>16, TaskFacts DEF WriteFindsNoRow
  <2>. QED
    BY <1>16, <2>1 DEF WriteFindsNoRow
<1>17. ASSUME NEW w \in Worker, PublishUpdate(w)
      PROVE  TypeOK'
  <2>1. task[w] \in Task /\ task[w].tx \in Tx
    BY <1>17, TaskFacts DEF PublishUpdate
  <2>2. [task[w] EXCEPT !.kind = "prepare"] \in Task
    BY <2>1 DEF Task
  <2>. QED
    BY <1>17, <2>1, <2>2 DEF PublishUpdate
<1>18. ASSUME NEW w \in Worker, PrepareWrite(w)
      PROVE  TypeOK'
  <2>1. task[w] \in Task /\ task[w].tx \in Tx
    BY <1>18, TaskFacts DEF PrepareWrite
  <2>. QED
    BY <1>18, <2>1 DEF PrepareWrite, StatusString, ALL_STATUSES
<1>19. ASSUME NEW w \in Worker, PreparePublish(w)
      PROVE  TypeOK'
  <2>1. task[w] \in Task /\ task[w].tx \in Tx
    BY <1>19, TaskFacts DEF PreparePublish
  <2>2. [task[w] EXCEPT !.kind = "send"] \in Task
    BY <2>1 DEF Task
  <2>. QED
    BY <1>19, <2>1, <2>2 DEF PreparePublish
<1>20. ASSUME NEW w \in Worker, NEW reply \in Replies, OrderAccepted(w, reply)
      PROVE  TypeOK'
  <2>1. task[w] \in Task /\ task[w].tx \in Tx
    BY <1>20, TaskFacts DEF OrderAccepted
  <2>. QED
    BY <1>20, <2>1, Translations, ConstantsAssumption DEF OrderAccepted, ConstantsAssumption
<1>21. ASSUME NEW w \in Worker, AnswerLost(w)
      PROVE  TypeOK'
  <2>1. task[w] \in Task /\ task[w].tx \in Tx
    BY <1>21, TaskFacts DEF AnswerLost
  <2>. QED
    BY <1>21, <2>1 DEF AnswerLost, FragmentStatus, FragmentNews
<1>22. ASSUME NEW w \in Worker, OrderRefused(w)
      PROVE  TypeOK'
  <2>1. task[w] \in Task /\ task[w].tx \in Tx
    BY <1>22, TaskFacts DEF OrderRefused
  <2>. QED
    BY <1>22, <2>1 DEF OrderRefused, FragmentNews
<1>23. ASSUME NEW w \in Worker, OrderRefusedForNow(w)
      PROVE  TypeOK'
  <2>1. task[w] \in Task /\ task[w].tx \in Tx
    BY <1>23, TaskFacts DEF OrderRefusedForNow
  <2>. QED
    BY <1>23, <2>1 DEF OrderRefusedForNow, FragmentNews
<1>24. ASSUME NEW w \in Worker, SaveFragmentStatus(w)
      PROVE  TypeOK'
  <2>1. task[w] \in Task /\ task[w].tx \in Tx
    BY <1>24, TaskFacts DEF SaveFragmentStatus
  <2>. QED
    BY <1>24, <2>1 DEF SaveFragmentStatus
<1>25. ASSUME NEW w \in Worker, EnqueueUpdate(w)
      PROVE  TypeOK'
  <2>1. task[w] \in Task /\ task[w].tx \in Tx
    BY <1>25, TaskFacts DEF EnqueueUpdate
  <2>2. [task[w] EXCEPT !.kind = "update"] \in Task
    BY <2>1 DEF Task
  <2>. QED
    BY <1>25, <2>1, <2>2 DEF EnqueueUpdate
<1>26. ASSUME NEW w \in Worker, InsertFails(w)
      PROVE  TypeOK'
  <2>1. task[w] \in Task /\ task[w].tx \in Tx
    BY <1>26, TaskFacts DEF InsertFails
  <2>. QED
    BY <1>26, <2>1 DEF InsertFails
<1>27. ASSUME NEW w \in Worker, WriteIsLost(w)
      PROVE  TypeOK'
  <2>1. task[w] \in Task /\ task[w].tx \in Tx
    BY <1>27, TaskFacts DEF WriteIsLost
  <2>. QED
    BY <1>27, <2>1 DEF WriteIsLost
<1>28. ASSUME NEW w \in Worker, RetryUpdate(w)
      PROVE  TypeOK'
  <2>1. task[w] \in Task /\ task[w].tx \in Tx
    BY <1>28, TaskFacts DEF RetryUpdate
  <2>. QED
    BY <1>28, <2>1 DEF RetryUpdate
<1>29. ASSUME NEW w \in Worker, PrepareWriteFails(w)
      PROVE  TypeOK'
  <2>1. task[w] \in Task /\ task[w].tx \in Tx
    BY <1>29, TaskFacts DEF PrepareWriteFails
  <2>. QED
    BY <1>29, <2>1 DEF PrepareWriteFails
<1>30. ASSUME NEW w \in Worker, NEW t \in Task, ReadFails(w, t)
      PROVE  TypeOK'
  <2>1. t.tx \in Tx
    BY TaskFacts
  <2>. QED
    BY <1>30, <2>1 DEF ReadFails
<1>31. ASSUME NEW w \in Worker, Crash(w)
      PROVE  TypeOK'
  <2>1. task[w] \in Task /\ task[w].tx \in Tx
    BY <1>31, TaskFacts DEF Crash
  <2>. QED
    BY <1>31, <2>1 DEF Crash
<1>32. ASSUME NEW w \in Worker, LockRunsOutInCall(w)
      PROVE  TypeOK'
  <2>1. task[w] \in Task /\ task[w].tx \in Tx
    BY <1>32, TaskFacts DEF LockRunsOutInCall
  <2>. QED
    BY <1>32, <2>1 DEF LockRunsOutInCall
<1>33. CASE UNCHANGED vars
    BY <1>33 DEF vars
<1>. QED
    BY <1>1, <1>2, <1>3, <1>4, <1>5, <1>6, <1>7, <1>8, <1>9, <1>10, <1>11, <1>12, <1>13, <1>14, <1>15, <1>16,
       <1>17, <1>18, <1>19, <1>20, <1>21, <1>22, <1>23, <1>24, <1>25, <1>26, <1>27, <1>28, <1>29, <1>30, <1>31, <1>32, <1>33
    DEF Next, Environment, Start, UpdateStep, PrepareStep, SendStep, Failure

\* Every step keeps what a busy worker is: the kind of its task, the lock it holds, the
\* status it is to apply.
LEMMA WorkersStep ==
    ASSUME TypeOK, WorkersInv, [Next]_vars
    PROVE  WorkersInv'
<1> USE DEF TypeOK, WorkersInv, NewStatus, Take, Hold, Enqueue, Done, Goto, DatabaseFault, KeepStatus, Decide,
            shop, keys, locals, outside, UpdatePc, PreparePc, SendPc, Idle
<1>1. ASSUME NEW x \in Tx, CreateTransaction(x)
      PROVE  WorkersInv'
    BY <1>1, ConstantsAssumption DEF CreateTransaction, WorkerInv, ConstantsAssumption
<1>2. ASSUME NEW x \in Tx, CleanUpCancelled(x)
      PROVE  WorkersInv'
    BY <1>2, ConstantsAssumption DEF CleanUpCancelled, WorkerInv, ConstantsAssumption
<1>3. ASSUME NEW x \in Tx, NEW report \in PaymentReports, PaymentWebhook(x, report)
      PROVE  WorkersInv'
    BY <1>3, ConstantsAssumption DEF PaymentWebhook, WorkerInv, ConstantsAssumption
<1>4. ASSUME NEW x \in Tx, NEW raw \in FragmentStatus, FragmentWebhook(x, raw)
      PROVE  WorkersInv'
    BY <1>4, ConstantsAssumption DEF FragmentWebhook, WorkerInv, ConstantsAssumption
<1>5. ASSUME NEW x \in Tx, OrderAdvances(x)
      PROVE  WorkersInv'
    BY <1>5, ConstantsAssumption DEF OrderAdvances, WorkerInv, ConstantsAssumption
<1>6. ASSUME NEW x \in Tx, LockRunsOut(x)
      PROVE  WorkersInv'
    BY <1>6, ConstantsAssumption DEF LockRunsOut, WorkerInv, ConstantsAssumption
<1>7. ASSUME NEW w \in Worker, NEW t \in Task, StartUpdate(w, t)
      PROVE  WorkersInv'
  <2>1. t.tx \in Tx
    BY TaskFacts
  <2>. QED
    BY <1>7, <2>1, ConstantsAssumption DEF StartUpdate, WorkerInv, ConstantsAssumption
<1>8. ASSUME NEW w \in Worker, NEW t \in Task, StartPrepare(w, t)
      PROVE  WorkersInv'
  <2>1. t.tx \in Tx
    BY TaskFacts
  <2>2. ASSUME NEW v \in Worker, v # w
        PROVE  WorkerInv(v)'
    <3>1. WorkerInv(v)
      OBVIOUS
    <3>2. /\ pc'[v] = pc[v] /\ task'[v] = task[v] /\ pay'[v] = pay[v] /\ frag'[v] = frag[v]
          /\ pc[v] # Idle /\ lock[task[v].tx] = v => lock'[task[v].tx] = v
      BY <1>8, <2>1, <2>2, TaskFacts, ConstantsAssumption DEF StartPrepare, ConstantsAssumption
    <3>. QED
      BY <3>1, <3>2 DEF WorkerInv
  <2>3. WorkerInv(w)'
    BY <1>8, <2>1 DEF StartPrepare, WorkerInv
  <2>. QED
    BY <2>2, <2>3
<1>9. ASSUME NEW w \in Worker, NEW t \in Task, StartSend(w, t)
      PROVE  WorkersInv'
  <2>1. t.tx \in Tx
    BY TaskFacts
  <2>2. ASSUME NEW v \in Worker, v # w
        PROVE  WorkerInv(v)'
    <3>1. WorkerInv(v)
      OBVIOUS
    <3>2. /\ pc'[v] = pc[v] /\ task'[v] = task[v] /\ pay'[v] = pay[v] /\ frag'[v] = frag[v]
          /\ pc[v] # Idle /\ lock[task[v].tx] = v => lock'[task[v].tx] = v
      BY <1>9, <2>1, <2>2, TaskFacts, ConstantsAssumption DEF StartSend, ConstantsAssumption
    <3>. QED
      BY <3>1, <3>2 DEF WorkerInv
  <2>3. WorkerInv(w)'
    BY <1>9, <2>1 DEF StartSend, WorkerInv
  <2>. QED
    BY <2>2, <2>3
<1>10. ASSUME NEW w \in Worker, ConsumeFragment(w)
      PROVE  WorkersInv'
  <2>1. task[w] \in Task /\ task[w].tx \in Tx
    BY <1>10, TaskFacts DEF ConsumeFragment
  <2>2. ASSUME NEW v \in Worker, v # w
        PROVE  WorkerInv(v)'
    <3>1. WorkerInv(v)
      OBVIOUS
    <3>2. /\ pc'[v] = pc[v] /\ task'[v] = task[v] /\ pay'[v] = pay[v] /\ frag'[v] = frag[v]
          /\ pc[v] # Idle /\ lock[task[v].tx] = v => lock'[task[v].tx] = v
      BY <1>10, <2>1, <2>2, TaskFacts, ConstantsAssumption DEF ConsumeFragment, ConstantsAssumption
    <3>. QED
      BY <3>1, <3>2 DEF WorkerInv
  <2>3. WorkerInv(w)'
    BY <1>10, <2>1 DEF ConsumeFragment, WorkerInv
  <2>. QED
    BY <2>2, <2>3
<1>11. ASSUME NEW w \in Worker, ReadRow(w)
      PROVE  WorkersInv'
  <2>1. task[w] \in Task /\ task[w].tx \in Tx
    BY <1>11, TaskFacts DEF ReadRow
  <2>2. ASSUME NEW v \in Worker, v # w
        PROVE  WorkerInv(v)'
    <3>1. WorkerInv(v)
      OBVIOUS
    <3>2. /\ pc'[v] = pc[v] /\ task'[v] = task[v] /\ pay'[v] = pay[v] /\ frag'[v] = frag[v]
          /\ pc[v] # Idle /\ lock[task[v].tx] = v => lock'[task[v].tx] = v
      BY <1>11, <2>1, <2>2, TaskFacts, ConstantsAssumption DEF ReadRow, ConstantsAssumption
    <3>. QED
      BY <3>1, <3>2 DEF WorkerInv
  <2>3. WorkerInv(w)'
    BY <1>11, <2>1 DEF ReadRow, WorkerInv
  <2>. QED
    BY <2>2, <2>3
<1>12. ASSUME NEW w \in Worker, FindNoRow(w)
      PROVE  WorkersInv'
  <2>1. task[w] \in Task /\ task[w].tx \in Tx
    BY <1>12, TaskFacts DEF FindNoRow
  <2>2. ASSUME NEW v \in Worker, v # w
        PROVE  WorkerInv(v)'
    <3>1. WorkerInv(v)
      OBVIOUS
    <3>2. /\ pc'[v] = pc[v] /\ task'[v] = task[v] /\ pay'[v] = pay[v] /\ frag'[v] = frag[v]
          /\ pc[v] # Idle /\ lock[task[v].tx] = v => lock'[task[v].tx] = v
      BY <1>12, <2>1, <2>2, TaskFacts, ConstantsAssumption DEF FindNoRow, ConstantsAssumption
    <3>. QED
      BY <3>1, <3>2 DEF WorkerInv
  <2>3. WorkerInv(w)'
    BY <1>12, <2>1 DEF FindNoRow, WorkerInv
  <2>. QED
    BY <2>2, <2>3
<1>13. ASSUME NEW w \in Worker, Recreate(w)
      PROVE  WorkersInv'
  <2>1. task[w] \in Task /\ task[w].tx \in Tx
    BY <1>13, TaskFacts DEF Recreate
  <2>2. ASSUME NEW v \in Worker, v # w
        PROVE  WorkerInv(v)'
    <3>1. WorkerInv(v)
      OBVIOUS
    <3>2. /\ pc'[v] = pc[v] /\ task'[v] = task[v] /\ pay'[v] = pay[v] /\ frag'[v] = frag[v]
          /\ pc[v] # Idle /\ lock[task[v].tx] = v => lock'[task[v].tx] = v
      BY <1>13, <2>1, <2>2, TaskFacts, ConstantsAssumption DEF Recreate, ConstantsAssumption
    <3>. QED
      BY <3>1, <3>2 DEF WorkerInv
  <2>3. WorkerInv(w)'
    BY <1>13, <2>1 DEF Recreate, WorkerInv
  <2>. QED
    BY <2>2, <2>3
<1>14. ASSUME NEW w \in Worker, InsertRow(w)
      PROVE  WorkersInv'
  <2>1. task[w] \in Task /\ task[w].tx \in Tx
    BY <1>14, TaskFacts DEF InsertRow
  <2>2. ASSUME NEW v \in Worker, v # w
        PROVE  WorkerInv(v)'
    <3>1. WorkerInv(v)
      OBVIOUS
    <3>2. /\ pc'[v] = pc[v] /\ task'[v] = task[v] /\ pay'[v] = pay[v] /\ frag'[v] = frag[v]
          /\ pc[v] # Idle /\ lock[task[v].tx] = v => lock'[task[v].tx] = v
      BY <1>14, <2>1, <2>2, TaskFacts, ConstantsAssumption DEF InsertRow, ConstantsAssumption
    <3>. QED
      BY <3>1, <3>2 DEF WorkerInv
  <2>3. WorkerInv(w)'
    BY <1>14, <2>1 DEF InsertRow, WorkerInv
  <2>. QED
    BY <2>2, <2>3
<1>15. ASSUME NEW w \in Worker, WriteRow(w)
      PROVE  WorkersInv'
  <2>1. task[w] \in Task /\ task[w].tx \in Tx
    BY <1>15, TaskFacts DEF WriteRow
  <2>. QED
    BY <1>15, <2>1, ConstantsAssumption DEF WriteRow, WorkerInv, ConstantsAssumption
<1>16. ASSUME NEW w \in Worker, WriteFindsNoRow(w)
      PROVE  WorkersInv'
  <2>1. task[w] \in Task /\ task[w].tx \in Tx
    BY <1>16, TaskFacts DEF WriteFindsNoRow
  <2>. QED
    BY <1>16, <2>1, ConstantsAssumption DEF WriteFindsNoRow, WorkerInv, ConstantsAssumption
<1>17. ASSUME NEW w \in Worker, PublishUpdate(w)
      PROVE  WorkersInv'
  <2>1. task[w] \in Task /\ task[w].tx \in Tx
    BY <1>17, TaskFacts DEF PublishUpdate
  <2>. QED
    BY <1>17, <2>1, ConstantsAssumption DEF PublishUpdate, WorkerInv, ConstantsAssumption
<1>18. ASSUME NEW w \in Worker, PrepareWrite(w)
      PROVE  WorkersInv'
  <2>1. task[w] \in Task /\ task[w].tx \in Tx
    BY <1>18, TaskFacts DEF PrepareWrite
  <2>2. ASSUME NEW v \in Worker, v # w
        PROVE  WorkerInv(v)'
    <3>1. WorkerInv(v)
      OBVIOUS
    <3>2. /\ pc'[v] = pc[v] /\ task'[v] = task[v] /\ pay'[v] = pay[v] /\ frag'[v] = frag[v]
          /\ pc[v] # Idle /\ lock[task[v].tx] = v => lock'[task[v].tx] = v
      BY <1>18, <2>1, <2>2, TaskFacts, ConstantsAssumption DEF PrepareWrite, ConstantsAssumption
    <3>. QED
      BY <3>1, <3>2 DEF WorkerInv
  <2>3. WorkerInv(w)'
    BY <1>18, <2>1 DEF PrepareWrite, WorkerInv
  <2>. QED
    BY <2>2, <2>3
<1>19. ASSUME NEW w \in Worker, PreparePublish(w)
      PROVE  WorkersInv'
  <2>1. task[w] \in Task /\ task[w].tx \in Tx
    BY <1>19, TaskFacts DEF PreparePublish
  <2>. QED
    BY <1>19, <2>1, ConstantsAssumption DEF PreparePublish, WorkerInv, ConstantsAssumption
<1>20. ASSUME NEW w \in Worker, NEW reply \in Replies, OrderAccepted(w, reply)
      PROVE  WorkersInv'
  <2>1. task[w] \in Task /\ task[w].tx \in Tx
    BY <1>20, TaskFacts DEF OrderAccepted
  <2>. QED
    BY <1>20, <2>1, ConstantsAssumption DEF OrderAccepted, WorkerInv, ConstantsAssumption
<1>21. ASSUME NEW w \in Worker, AnswerLost(w)
      PROVE  WorkersInv'
  <2>1. task[w] \in Task /\ task[w].tx \in Tx
    BY <1>21, TaskFacts DEF AnswerLost
  <2>. QED
    BY <1>21, <2>1, ConstantsAssumption DEF AnswerLost, WorkerInv, ConstantsAssumption
<1>22. ASSUME NEW w \in Worker, OrderRefused(w)
      PROVE  WorkersInv'
  <2>1. task[w] \in Task /\ task[w].tx \in Tx
    BY <1>22, TaskFacts DEF OrderRefused
  <2>. QED
    BY <1>22, <2>1, ConstantsAssumption DEF OrderRefused, WorkerInv, ConstantsAssumption
<1>23. ASSUME NEW w \in Worker, OrderRefusedForNow(w)
      PROVE  WorkersInv'
  <2>1. task[w] \in Task /\ task[w].tx \in Tx
    BY <1>23, TaskFacts DEF OrderRefusedForNow
  <2>. QED
    BY <1>23, <2>1, ConstantsAssumption DEF OrderRefusedForNow, WorkerInv, ConstantsAssumption
<1>24. ASSUME NEW w \in Worker, SaveFragmentStatus(w)
      PROVE  WorkersInv'
  <2>1. task[w] \in Task /\ task[w].tx \in Tx
    BY <1>24, TaskFacts DEF SaveFragmentStatus
  <2>. QED
    BY <1>24, <2>1, ConstantsAssumption DEF SaveFragmentStatus, WorkerInv, ConstantsAssumption
<1>25. ASSUME NEW w \in Worker, EnqueueUpdate(w)
      PROVE  WorkersInv'
  <2>1. task[w] \in Task /\ task[w].tx \in Tx
    BY <1>25, TaskFacts DEF EnqueueUpdate
  <2>. QED
    BY <1>25, <2>1, ConstantsAssumption DEF EnqueueUpdate, WorkerInv, ConstantsAssumption
<1>26. ASSUME NEW w \in Worker, InsertFails(w)
      PROVE  WorkersInv'
  <2>1. task[w] \in Task /\ task[w].tx \in Tx
    BY <1>26, TaskFacts DEF InsertFails
  <2>. QED
    BY <1>26, <2>1, ConstantsAssumption DEF InsertFails, WorkerInv, ConstantsAssumption
<1>27. ASSUME NEW w \in Worker, WriteIsLost(w)
      PROVE  WorkersInv'
  <2>1. task[w] \in Task /\ task[w].tx \in Tx
    BY <1>27, TaskFacts DEF WriteIsLost
  <2>. QED
    BY <1>27, <2>1, ConstantsAssumption DEF WriteIsLost, WorkerInv, ConstantsAssumption
<1>28. ASSUME NEW w \in Worker, RetryUpdate(w)
      PROVE  WorkersInv'
  <2>1. task[w] \in Task /\ task[w].tx \in Tx
    BY <1>28, TaskFacts DEF RetryUpdate
  <2>. QED
    BY <1>28, <2>1, ConstantsAssumption DEF RetryUpdate, WorkerInv, ConstantsAssumption
<1>29. ASSUME NEW w \in Worker, PrepareWriteFails(w)
      PROVE  WorkersInv'
  <2>1. task[w] \in Task /\ task[w].tx \in Tx
    BY <1>29, TaskFacts DEF PrepareWriteFails
  <2>. QED
    BY <1>29, <2>1, ConstantsAssumption DEF PrepareWriteFails, WorkerInv, ConstantsAssumption
<1>30. ASSUME NEW w \in Worker, NEW t \in Task, ReadFails(w, t)
      PROVE  WorkersInv'
  <2>1. t.tx \in Tx
    BY TaskFacts
  <2>. QED
    BY <1>30, <2>1, ConstantsAssumption DEF ReadFails, WorkerInv, ConstantsAssumption
<1>31. ASSUME NEW w \in Worker, Crash(w)
      PROVE  WorkersInv'
  <2>1. task[w] \in Task /\ task[w].tx \in Tx
    BY <1>31, TaskFacts DEF Crash
  <2>. QED
    BY <1>31, <2>1, ConstantsAssumption DEF Crash, WorkerInv, ConstantsAssumption
<1>32. ASSUME NEW w \in Worker, LockRunsOutInCall(w)
      PROVE  WorkersInv'
  <2>1. task[w] \in Task /\ task[w].tx \in Tx
    BY <1>32, TaskFacts DEF LockRunsOutInCall
  <2>. QED
    BY <1>32, <2>1, ConstantsAssumption DEF LockRunsOutInCall, WorkerInv, ConstantsAssumption
<1>33. CASE UNCHANGED vars
    BY <1>33 DEF vars, WorkerInv
<1>. QED
    BY <1>1, <1>2, <1>3, <1>4, <1>5, <1>6, <1>7, <1>8, <1>9, <1>10, <1>11, <1>12, <1>13, <1>14, <1>15, <1>16,
       <1>17, <1>18, <1>19, <1>20, <1>21, <1>22, <1>23, <1>24, <1>25, <1>26, <1>27, <1>28, <1>29, <1>30, <1>31, <1>32, <1>33
    DEF Next, Environment, Start, UpdateStep, PrepareStep, SendStep, Failure

\* Two workers in the locked part of update or prepare are not at the same row.
LEMMA AloneWithLock ==
    ASSUME WorkersInv, NEW v \in Worker, NEW w \in Worker,
           pc[v] \in UpdatePc \cup PreparePc, pc[w] \in UpdatePc \cup PreparePc,
           task[v].tx = task[w].tx
    PROVE  v = w
BY DEF WorkersInv, WorkerInv

\* Every step keeps what the workers have read valid.
LEMMA FreshStep ==
    ASSUME TypeOK, WorkersInv, FreshInv, [Next]_vars
    PROVE  FreshInv'
<1> USE DEF TypeOK, FreshInv, NewStatus, Take, Hold, Enqueue, Done, Goto, DatabaseFault, KeepStatus, Decide,
            shop, keys, locals, outside, UpdatePc, PreparePc, SendPc, Idle
<1>1. ASSUME NEW x \in Tx, CreateTransaction(x)
      PROVE  FreshInv'
    BY <1>1 DEF CreateTransaction, WorkerFresh, Absent
<1>2. ASSUME NEW x \in Tx, CleanUpCancelled(x)
      PROVE  FreshInv'
    BY <1>2 DEF CleanUpCancelled, WorkerFresh
<1>3. ASSUME NEW x \in Tx, NEW report \in PaymentReports, PaymentWebhook(x, report)
      PROVE  FreshInv'
    BY <1>3 DEF PaymentWebhook, WorkerFresh
<1>4. ASSUME NEW x \in Tx, NEW raw \in FragmentStatus, FragmentWebhook(x, raw)
      PROVE  FreshInv'
    BY <1>4 DEF FragmentWebhook, WorkerFresh
<1>5. ASSUME NEW x \in Tx, OrderAdvances(x)
      PROVE  FreshInv'
    BY <1>5 DEF OrderAdvances, WorkerFresh
<1>6. ASSUME NEW x \in Tx, LockRunsOut(x)
      PROVE  FreshInv'
    BY <1>6 DEF LockRunsOut, WorkerFresh
<1>7. ASSUME NEW w \in Worker, NEW t \in Task, StartUpdate(w, t)
      PROVE  FreshInv'
  <2>1. t.tx \in Tx
    BY TaskFacts
  <2>2. ASSUME NEW v \in Worker, v # w
        PROVE  WorkerFresh(v)'
    BY <1>7, <2>1, <2>2 DEF StartUpdate, WorkerFresh
  <2>3. WorkerFresh(w)'
    BY <1>7, <2>1, NewsAreStatuses DEF StartUpdate, WorkerFresh
  <2>. QED
    BY <2>2, <2>3
<1>8. ASSUME NEW w \in Worker, NEW t \in Task, StartPrepare(w, t)
      PROVE  FreshInv'
  <2>1. t.tx \in Tx
    BY TaskFacts
  <2>2. ASSUME NEW v \in Worker, v # w
        PROVE  WorkerFresh(v)'
    BY <1>8, <2>1, <2>2 DEF StartPrepare, WorkerFresh
  <2>3. WorkerFresh(w)'
    BY <1>8, <2>1, OnlyPaidMaySend DEF StartPrepare, WorkerFresh
  <2>. QED
    BY <2>2, <2>3
<1>9. ASSUME NEW w \in Worker, NEW t \in Task, StartSend(w, t)
      PROVE  FreshInv'
  <2>1. t.tx \in Tx
    BY TaskFacts
  <2>2. ASSUME NEW v \in Worker, v # w
        PROVE  WorkerFresh(v)'
    BY <1>9, <2>1, <2>2 DEF StartSend, WorkerFresh
  <2>3. WorkerFresh(w)'
    BY <1>9, <2>1, NewsAreStatuses DEF StartSend, WorkerFresh
  <2>. QED
    BY <2>2, <2>3
<1>10. ASSUME NEW w \in Worker, ConsumeFragment(w)
      PROVE  FreshInv'
  <2>1. task[w] \in Task /\ task[w].tx \in Tx
    BY <1>10, TaskFacts DEF ConsumeFragment
  <2>2. ASSUME NEW v \in Worker, v # w
        PROVE  WorkerFresh(v)'
    BY <1>10, <2>1, <2>2 DEF ConsumeFragment, WorkerFresh
  <2>3. WorkerFresh(w)'
    BY <1>10, <2>1, NewsAreStatuses DEF ConsumeFragment, WorkerFresh
  <2>. QED
    BY <2>2, <2>3
<1>11. ASSUME NEW w \in Worker, ReadRow(w)
      PROVE  FreshInv'
  <2>1. task[w] \in Task /\ task[w].tx \in Tx
    BY <1>11, TaskFacts DEF ReadRow
  <2>2. ASSUME NEW v \in Worker, v # w
        PROVE  WorkerFresh(v)'
    BY <1>11, <2>1, <2>2 DEF ReadRow, WorkerFresh
  <2>3. WorkerFresh(w)'
    BY <1>11, <2>1, NewsAreStatuses DEF ReadRow, WorkerFresh
  <2>. QED
    BY <2>2, <2>3
<1>12. ASSUME NEW w \in Worker, FindNoRow(w)
      PROVE  FreshInv'
  <2>1. task[w] \in Task /\ task[w].tx \in Tx
    BY <1>12, TaskFacts DEF FindNoRow
  <2>2. ASSUME NEW v \in Worker, v # w
        PROVE  WorkerFresh(v)'
    BY <1>12, <2>1, <2>2 DEF FindNoRow, WorkerFresh
  <2>3. WorkerFresh(w)'
    BY <1>12, <2>1, NewsAreStatuses DEF FindNoRow, WorkerFresh
  <2>. QED
    BY <2>2, <2>3
<1>13. ASSUME NEW w \in Worker, Recreate(w)
      PROVE  FreshInv'
  <2>1. task[w] \in Task /\ task[w].tx \in Tx
    BY <1>13, TaskFacts DEF Recreate
  <2>2. ASSUME NEW v \in Worker, v # w
        PROVE  WorkerFresh(v)'
    BY <1>13, <2>1, <2>2 DEF Recreate, WorkerFresh
  <2>3. WorkerFresh(w)'
    BY <1>13, <2>1, NewsAreStatuses DEF Recreate, WorkerFresh
  <2>. QED
    BY <2>2, <2>3
<1>14. ASSUME NEW w \in Worker, InsertRow(w)
      PROVE  FreshInv'
  <2>1. task[w] \in Task /\ task[w].tx \in Tx
    BY <1>14, TaskFacts DEF InsertRow
  <2>2. ASSUME NEW v \in Worker, v # w
        PROVE  WorkerFresh(v)'
    <3>1. pc[v] \in {"write", "prepare_write"} => task[v].tx # task[w].tx
      BY <1>14, <2>2, AloneWithLock DEF InsertRow
    <3>2. pc[v] # Idle => task[v].tx \in Tx
      BY <2>2, TaskFacts
    <3>3. pc[v] \in {"write", "prepare_write"} => db'[task[v].tx] = db[task[v].tx]
      BY <1>14, <2>1, <3>1, <3>2 DEF InsertRow
    <3>. QED
      BY <1>14, <2>1, <2>2, <3>3 DEF InsertRow, WorkerFresh
  <2>3. WorkerFresh(w)'
    BY <1>14, <2>1, NewsAreStatuses DEF InsertRow, WorkerFresh, WorkersInv, WorkerInv
  <2>. QED
    BY <2>2, <2>3
<1>15. ASSUME NEW w \in Worker, WriteRow(w)
      PROVE  FreshInv'
  <2>1. task[w] \in Task /\ task[w].tx \in Tx
    BY <1>15, TaskFacts DEF WriteRow
  <2>2. ASSUME NEW v \in Worker, v # w
        PROVE  WorkerFresh(v)'
    <3>1. pc[v] \in {"write", "prepare_write"} => task[v].tx # task[w].tx
      BY <1>15, <2>2, AloneWithLock DEF WriteRow
    <3>2. pc[v] # Idle => task[v].tx \in Tx
      BY <2>2, TaskFacts
    <3>3. pc[v] \in {"write", "prepare_write"} => db'[task[v].tx] = db[task[v].tx]
      BY <1>15, <2>1, <3>1, <3>2 DEF WriteRow
    <3>. QED
      BY <1>15, <2>1, <2>2, <3>3 DEF WriteRow, WorkerFresh
  <2>3. WorkerFresh(w)'
    BY <1>15, <2>1, NewsAreStatuses DEF WriteRow, WorkerFresh
  <2>. QED
    BY <2>2, <2>3
<1>16. ASSUME NEW w \in Worker, WriteFindsNoRow(w)
      PROVE  FreshInv'
  <2>1. task[w] \in Task /\ task[w].tx \in Tx
    BY <1>16, TaskFacts DEF WriteFindsNoRow
  <2>2. ASSUME NEW v \in Worker, v # w
        PROVE  WorkerFresh(v)'
    BY <1>16, <2>1, <2>2 DEF WriteFindsNoRow, WorkerFresh
  <2>3. WorkerFresh(w)'
    BY <1>16, <2>1, NewsAreStatuses DEF WriteFindsNoRow, WorkerFresh
  <2>. QED
    BY <2>2, <2>3
<1>17. ASSUME NEW w \in Worker, PublishUpdate(w)
      PROVE  FreshInv'
  <2>1. task[w] \in Task /\ task[w].tx \in Tx
    BY <1>17, TaskFacts DEF PublishUpdate
  <2>2. ASSUME NEW v \in Worker, v # w
        PROVE  WorkerFresh(v)'
    BY <1>17, <2>1, <2>2 DEF PublishUpdate, WorkerFresh
  <2>3. WorkerFresh(w)'
    BY <1>17, <2>1, NewsAreStatuses DEF PublishUpdate, WorkerFresh
  <2>. QED
    BY <2>2, <2>3
<1>18. ASSUME NEW w \in Worker, PrepareWrite(w)
      PROVE  FreshInv'
  <2>1. task[w] \in Task /\ task[w].tx \in Tx
    BY <1>18, TaskFacts DEF PrepareWrite
  <2>2. ASSUME NEW v \in Worker, v # w
        PROVE  WorkerFresh(v)'
    <3>1. pc[v] \in {"write", "prepare_write"} => task[v].tx # task[w].tx
      BY <1>18, <2>2, AloneWithLock DEF PrepareWrite
    <3>2. pc[v] # Idle => task[v].tx \in Tx
      BY <2>2, TaskFacts
    <3>3. pc[v] \in {"write", "prepare_write"} => db'[task[v].tx] = db[task[v].tx]
      BY <1>18, <2>1, <3>1, <3>2 DEF PrepareWrite
    <3>. QED
      BY <1>18, <2>1, <2>2, <3>3 DEF PrepareWrite, WorkerFresh
  <2>3. WorkerFresh(w)'
    BY <1>18, <2>1, NewsAreStatuses DEF PrepareWrite, WorkerFresh
  <2>. QED
    BY <2>2, <2>3
<1>19. ASSUME NEW w \in Worker, PreparePublish(w)
      PROVE  FreshInv'
  <2>1. task[w] \in Task /\ task[w].tx \in Tx
    BY <1>19, TaskFacts DEF PreparePublish
  <2>2. ASSUME NEW v \in Worker, v # w
        PROVE  WorkerFresh(v)'
    BY <1>19, <2>1, <2>2 DEF PreparePublish, WorkerFresh
  <2>3. WorkerFresh(w)'
    BY <1>19, <2>1, NewsAreStatuses DEF PreparePublish, WorkerFresh
  <2>. QED
    BY <2>2, <2>3
<1>20. ASSUME NEW w \in Worker, NEW reply \in Replies, OrderAccepted(w, reply)
      PROVE  FreshInv'
  <2>1. task[w] \in Task /\ task[w].tx \in Tx
    BY <1>20, TaskFacts DEF OrderAccepted
  <2>2. ASSUME NEW v \in Worker, v # w
        PROVE  WorkerFresh(v)'
    BY <1>20, <2>1, <2>2 DEF OrderAccepted, WorkerFresh
  <2>3. WorkerFresh(w)'
    BY <1>20, <2>1, NewsAreStatuses DEF OrderAccepted, WorkerFresh
  <2>. QED
    BY <2>2, <2>3
<1>21. ASSUME NEW w \in Worker, AnswerLost(w)
      PROVE  FreshInv'
  <2>1. task[w] \in Task /\ task[w].tx \in Tx
    BY <1>21, TaskFacts DEF AnswerLost
  <2>2. ASSUME NEW v \in Worker, v # w
        PROVE  WorkerFresh(v)'
    BY <1>21, <2>1, <2>2 DEF AnswerLost, WorkerFresh
  <2>3. WorkerFresh(w)'
    BY <1>21, <2>1, NewsAreStatuses DEF AnswerLost, WorkerFresh
  <2>. QED
    BY <2>2, <2>3
<1>22. ASSUME NEW w \in Worker, OrderRefused(w)
      PROVE  FreshInv'
  <2>1. task[w] \in Task /\ task[w].tx \in Tx
    BY <1>22, TaskFacts DEF OrderRefused
  <2>2. ASSUME NEW v \in Worker, v # w
        PROVE  WorkerFresh(v)'
    BY <1>22, <2>1, <2>2 DEF OrderRefused, WorkerFresh
  <2>3. WorkerFresh(w)'
    BY <1>22, <2>1, NewsAreStatuses DEF OrderRefused, WorkerFresh
  <2>. QED
    BY <2>2, <2>3
<1>23. ASSUME NEW w \in Worker, OrderRefusedForNow(w)
      PROVE  FreshInv'
  <2>1. task[w] \in Task /\ task[w].tx \in Tx
    BY <1>23, TaskFacts DEF OrderRefusedForNow
  <2>2. ASSUME NEW v \in Worker, v # w
        PROVE  WorkerFresh(v)'
    BY <1>23, <2>1, <2>2 DEF OrderRefusedForNow, WorkerFresh
  <2>3. WorkerFresh(w)'
    BY <1>23, <2>1, NewsAreStatuses DEF OrderRefusedForNow, WorkerFresh
  <2>. QED
    BY <2>2, <2>3
<1>24. ASSUME NEW w \in Worker, SaveFragmentStatus(w)
      PROVE  FreshInv'
  <2>1. task[w] \in Task /\ task[w].tx \in Tx
    BY <1>24, TaskFacts DEF SaveFragmentStatus
  <2>2. ASSUME NEW v \in Worker, v # w
        PROVE  WorkerFresh(v)'
    BY <1>24, <2>1, <2>2 DEF SaveFragmentStatus, WorkerFresh
  <2>3. WorkerFresh(w)'
    BY <1>24, <2>1, NewsAreStatuses DEF SaveFragmentStatus, WorkerFresh
  <2>. QED
    BY <2>2, <2>3
<1>25. ASSUME NEW w \in Worker, EnqueueUpdate(w)
      PROVE  FreshInv'
  <2>1. task[w] \in Task /\ task[w].tx \in Tx
    BY <1>25, TaskFacts DEF EnqueueUpdate
  <2>2. ASSUME NEW v \in Worker, v # w
        PROVE  WorkerFresh(v)'
    BY <1>25, <2>1, <2>2 DEF EnqueueUpdate, WorkerFresh
  <2>3. WorkerFresh(w)'
    BY <1>25, <2>1, NewsAreStatuses DEF EnqueueUpdate, WorkerFresh
  <2>. QED
    BY <2>2, <2>3
<1>26. ASSUME NEW w \in Worker, InsertFails(w)
      PROVE  FreshInv'
  <2>1. task[w] \in Task /\ task[w].tx \in Tx
    BY <1>26, TaskFacts DEF InsertFails
  <2>2. ASSUME NEW v \in Worker, v # w
        PROVE  WorkerFresh(v)'
    BY <1>26, <2>1, <2>2 DEF InsertFails, WorkerFresh
  <2>3. WorkerFresh(w)'
    BY <1>26, <2>1, NewsAreStatuses DEF InsertFails, WorkerFresh
  <2>. QED
    BY <2>2, <2>3
<1>27. ASSUME NEW w \in Worker, WriteIsLost(w)
      PROVE  FreshInv'
  <2>1. task[w] \in Task /\ task[w].tx \in Tx
    BY <1>27, TaskFacts DEF WriteIsLost
  <2>2. ASSUME NEW v \in Worker, v # w
        PROVE  WorkerFresh(v)'
    BY <1>27, <2>1, <2>2 DEF WriteIsLost, WorkerFresh
  <2>3. WorkerFresh(w)'
    BY <1>27, <2>1, NewsAreStatuses DEF WriteIsLost, WorkerFresh
  <2>. QED
    BY <2>2, <2>3
<1>28. ASSUME NEW w \in Worker, RetryUpdate(w)
      PROVE  FreshInv'
  <2>1. task[w] \in Task /\ task[w].tx \in Tx
    BY <1>28, TaskFacts DEF RetryUpdate
  <2>2. ASSUME NEW v \in Worker, v # w
        PROVE  WorkerFresh(v)'
    BY <1>28, <2>1, <2>2 DEF RetryUpdate, WorkerFresh
  <2>3. WorkerFresh(w)'
    BY <1>28, <2>1, NewsAreStatuses DEF RetryUpdate, WorkerFresh
  <2>. QED
    BY <2>2, <2>3
<1>29. ASSUME NEW w \in Worker, PrepareWriteFails(w)
      PROVE  FreshInv'
  <2>1. task[w] \in Task /\ task[w].tx \in Tx
    BY <1>29, TaskFacts DEF PrepareWriteFails
  <2>2. ASSUME NEW v \in Worker, v # w
        PROVE  WorkerFresh(v)'
    BY <1>29, <2>1, <2>2 DEF PrepareWriteFails, WorkerFresh
  <2>3. WorkerFresh(w)'
    BY <1>29, <2>1, NewsAreStatuses DEF PrepareWriteFails, WorkerFresh
  <2>. QED
    BY <2>2, <2>3
<1>30. ASSUME NEW w \in Worker, NEW t \in Task, ReadFails(w, t)
      PROVE  FreshInv'
  <2>1. t.tx \in Tx
    BY TaskFacts
  <2>2. ASSUME NEW v \in Worker, v # w
        PROVE  WorkerFresh(v)'
    BY <1>30, <2>1, <2>2 DEF ReadFails, WorkerFresh
  <2>3. WorkerFresh(w)'
    BY <1>30, <2>1, NewsAreStatuses DEF ReadFails, WorkerFresh
  <2>. QED
    BY <2>2, <2>3
<1>31. ASSUME NEW w \in Worker, Crash(w)
      PROVE  FreshInv'
  <2>1. task[w] \in Task /\ task[w].tx \in Tx
    BY <1>31, TaskFacts DEF Crash
  <2>2. ASSUME NEW v \in Worker, v # w
        PROVE  WorkerFresh(v)'
    BY <1>31, <2>1, <2>2 DEF Crash, WorkerFresh
  <2>3. WorkerFresh(w)'
    BY <1>31, <2>1, NewsAreStatuses DEF Crash, WorkerFresh
  <2>. QED
    BY <2>2, <2>3
<1>32. ASSUME NEW w \in Worker, LockRunsOutInCall(w)
      PROVE  FreshInv'
  <2>1. task[w] \in Task /\ task[w].tx \in Tx
    BY <1>32, TaskFacts DEF LockRunsOutInCall
  <2>2. ASSUME NEW v \in Worker, v # w
        PROVE  WorkerFresh(v)'
    BY <1>32, <2>1, <2>2 DEF LockRunsOutInCall, WorkerFresh
  <2>3. WorkerFresh(w)'
    BY <1>32, <2>1, NewsAreStatuses DEF LockRunsOutInCall, WorkerFresh
  <2>. QED
    BY <2>2, <2>3
<1>33. CASE UNCHANGED vars
    BY <1>33 DEF vars, WorkerFresh
<1>. QED
    BY <1>1, <1>2, <1>3, <1>4, <1>5, <1>6, <1>7, <1>8, <1>9, <1>10, <1>11, <1>12, <1>13, <1>14, <1>15, <1>16,
       <1>17, <1>18, <1>19, <1>20, <1>21, <1>22, <1>23, <1>24, <1>25, <1>26, <1>27, <1>28, <1>29, <1>30, <1>31, <1>32, <1>33
    DEF Next, Environment, Start, UpdateStep, PrepareStep, SendStep, Failure

-----------------------------------------------------------------------------
(* The right to place an order.                                             *)

\* What most steps do to the rights to order: none is made, none is used, and no row
\* comes back from the point of no return.
RightsOnlyFade ==
    /\ \A t \in Task : t.kind = "send" => queue'[t] <= queue[t]
    /\ \A w \in Worker, x \in Tx : Carries(w, x)' => Carries(w, x)
    /\ orders' = orders
    /\ \A x \in Tx : db[x] \in PastPointOfNoReturn => db'[x] \in PastPointOfNoReturn

\* A step in which rights only fade keeps the invariant of the rights.
LEMMA RightsKept ==
    ASSUME TypeOK, TypeOK', RightsInv, RightsOnlyFade
    PROVE  RightsInv'
<1>1. \A t \in Task : t.kind = "send" /\ queue'[t] > 0 => queue[t] > 0
  BY DEF TypeOK, RightsOnlyFade
<1>2. \A x \in Tx : Queued(x)' => Queued(x)
  BY <1>1 DEF Queued
<1>3. \A x \in Tx : MayOrder(x)' => MayOrder(x)
  BY <1>2 DEF MayOrder, RightsOnlyFade
<1>4. OneRight'
  <2>1. \A t \in Task : t.kind = "send" => queue'[t] <= 1
    BY DEF TypeOK, RightsInv, OneRight, RightsOnlyFade
  <2>2. \A t, u \in Task :
          t.kind = "send" /\ u.kind = "send" /\ t.tx = u.tx /\ queue'[t] > 0 /\ queue'[u] > 0
             => t = u
    BY <1>1 DEF RightsInv, OneRight
  <2>3. \A v, w \in Worker : \A x \in Tx : Carries(v, x)' /\ Carries(w, x)' => v = w
    BY DEF RightsInv, OneRight, RightsOnlyFade
  <2>4. \A w \in Worker : \A x \in Tx : ~(Carries(w, x)' /\ Queued(x)')
    BY <1>2 DEF RightsInv, OneRight, RightsOnlyFade
  <2>. QED
    BY <2>1, <2>2, <2>3, <2>4 DEF OneRight
<1>5. RightUnspent' /\ CommittedInv' /\ AtMostOneOrder'
  BY <1>3 DEF RightsInv, RightUnspent, CommittedInv, AtMostOneOrder, RightsOnlyFade
<1>. QED
  BY <1>4, <1>5 DEF RightsInv

\* The right moves from the queue to worker w, which takes task t.
LEMMA RightTaken ==
    ASSUME TypeOK, RightsInv, NEW w \in Worker, NEW t \in Task, t.kind = "send",
           pc[w] = Idle, queue[t] > 0, queue' = [queue EXCEPT ![t] = @ - 1],
           pc' = [pc EXCEPT ![w] = "send_call"], task' = [task EXCEPT ![w] = t],
           UNCHANGED <<orders, db>>
    PROVE  RightsInv'
<1>1. \A u \in Task : u.kind = "send" => queue'[u] <= queue[u] /\ (u = t => queue'[u] = 0)
  BY DEF TypeOK, RightsInv, OneRight
<1>2. \A u \in Task : u.kind = "send" /\ queue'[u] > 0 => queue[u] > 0 /\ u.tx # t.tx
  BY <1>1 DEF TypeOK, RightsInv, OneRight
<1>3. \A x \in Tx : Queued(x)' => Queued(x) /\ x # t.tx
  BY <1>2 DEF Queued
<1>4. \A v \in Worker : \A x \in Tx :
         Carries(v, x)' => IF v = w THEN x = t.tx ELSE Carries(v, x)
  BY DEF TypeOK, Carries
<1>5. Queued(t.tx)
  BY DEF Queued
<1>6. OneRight'
  <2>1. \A u \in Task : u.kind = "send" => queue'[u] <= 1
    BY <1>1 DEF TypeOK, RightsInv, OneRight
  <2>2. \A u, s \in Task :
          u.kind = "send" /\ s.kind = "send" /\ u.tx = s.tx /\ queue'[u] > 0 /\ queue'[s] > 0
             => u = s
    BY <1>2 DEF RightsInv, OneRight
  <2>3. \A v, z \in Worker : \A x \in Tx : Carries(v, x)' /\ Carries(z, x)' => v = z
    BY <1>4, <1>5 DEF RightsInv, OneRight
  <2>4. \A v \in Worker : \A x \in Tx : ~(Carries(v, x)' /\ Queued(x)')
    BY <1>3, <1>4 DEF RightsInv, OneRight
  <2>. QED
    BY <2>1, <2>2, <2>3, <2>4 DEF OneRight
<1>7. \A x \in Tx : MayOrder(x)' => MayOrder(x)
  BY <1>3, <1>4, <1>5 DEF MayOrder
<1>. QED
  BY <1>6, <1>7 DEF RightsInv, RightUnspent, CommittedInv, AtMostOneOrder

\* The right moves from worker w to the queue, as task u.
LEMMA RightQueued ==
    ASSUME TypeOK, RightsInv, NEW w \in Worker, NEW u \in Task, u.kind = "send",
           Carries(w, u.tx), queue' = [queue EXCEPT ![u] = @ + 1],
           NEW next \in {Idle, "send_failed"}, pc' = [pc EXCEPT ![w] = next],
           \A v \in Worker : v # w => task'[v] = task[v],
           UNCHANGED <<orders, db>>
    PROVE  RightsInv'
<1>1. u.tx \in Tx
  BY TaskFacts
<1>2. ~Queued(u.tx)
  BY <1>1 DEF RightsInv, OneRight
<1>3. \A s \in Task : s.kind = "send" /\ s.tx = u.tx => queue[s] = 0
  BY <1>2 DEF Queued, TypeOK
<1>4. \A s \in Task : s.kind = "send" =>
         queue'[s] = IF s = u THEN 1 ELSE queue[s]
  BY <1>3 DEF TypeOK
<1>5. \A x \in Tx : Queued(x)' => x = u.tx \/ Queued(x)
  BY <1>4 DEF Queued
<1>6. \A v \in Worker : \A x \in Tx : Carries(v, x)' => v # w /\ Carries(v, x)
  BY DEF TypeOK, Carries, Idle
<1>7. OneRight'
  <2>1. \A s \in Task : s.kind = "send" => queue'[s] <= 1
    BY <1>4 DEF RightsInv, OneRight
  <2>2. \A s, r \in Task :
          s.kind = "send" /\ r.kind = "send" /\ s.tx = r.tx /\ queue'[s] > 0 /\ queue'[r] > 0
             => s = r
    BY <1>3, <1>4 DEF RightsInv, OneRight
  <2>3. \A v, z \in Worker : \A x \in Tx : Carries(v, x)' /\ Carries(z, x)' => v = z
    BY <1>6 DEF RightsInv, OneRight
  <2>4. \A v \in Worker : \A x \in Tx : ~(Carries(v, x)' /\ Queued(x)')
    BY <1>1, <1>5, <1>6 DEF RightsInv, OneRight
  <2>. QED
    BY <2>1, <2>2, <2>3, <2>4 DEF OneRight
<1>8. \A x \in Tx : MayOrder(x)' => MayOrder(x)
  BY <1>5, <1>6 DEF MayOrder
<1>. QED
  BY <1>7, <1>8 DEF RightsInv, RightUnspent, CommittedInv, AtMostOneOrder

\* Worker w uses the right.
LEMMA RightUsed ==
    ASSUME TypeOK, RightsInv, NEW w \in Worker, NEW x \in Tx, Carries(w, x),
           orders' = [orders EXCEPT ![x] = @ + 1],
           NEW next \in {"send_accepted", "send_failed"}, pc' = [pc EXCEPT ![w] = next],
           UNCHANGED <<task, queue, db>>
    PROVE  RightsInv'
<1>1. \A y \in Tx : Queued(y)' <=> Queued(y)
  BY DEF Queued
<1>2. \A v \in Worker : \A y \in Tx : Carries(v, y)' => v # w /\ Carries(v, y)
  BY DEF TypeOK, Carries
<1>3. \A y \in Tx : MayOrder(y)' => MayOrder(y) /\ y # x
  BY <1>1, <1>2 DEF MayOrder, RightsInv, OneRight
<1>4. MayOrder(x) /\ orders[x] = 0
  BY DEF MayOrder, RightsInv, RightUnspent
<1>5. \A y \in Tx : orders'[y] = IF y = x THEN 1 ELSE orders[y]
  BY <1>4 DEF TypeOK
<1>6. OneRight'
  <2>1. \A v, z \in Worker : \A y \in Tx : Carries(v, y)' /\ Carries(z, y)' => v = z
    BY <1>2 DEF RightsInv, OneRight
  <2>2. \A v \in Worker : \A y \in Tx : ~(Carries(v, y)' /\ Queued(y)')
    BY <1>1, <1>2 DEF RightsInv, OneRight
  <2>. QED
    BY <2>1, <2>2 DEF RightsInv, OneRight
<1>7. RightUnspent' /\ AtMostOneOrder'
  BY <1>3, <1>5 DEF RightsInv, RightUnspent, AtMostOneOrder
<1>8. CommittedInv'
  BY <1>3, <1>4, <1>5 DEF RightsInv, CommittedInv
<1>. QED
  BY <1>6, <1>7, <1>8 DEF RightsInv

\* Worker w moves a row to SENDING, and with it gets the right.
LEMMA RightMade ==
    ASSUME TypeOK, RightsInv, NEW w \in Worker, task[w].tx \in Tx,
           ~MayOrder(task[w].tx), orders[task[w].tx] = 0,
           db' = [db EXCEPT ![task[w].tx] = "SENDING"],
           pc' = [pc EXCEPT ![w] = "prepare_publish"], UNCHANGED <<task, queue, orders>>
    PROVE  RightsInv'
<1> DEFINE x == task[w].tx
<1>1. \A y \in Tx : Queued(y)' <=> Queued(y)
  BY DEF Queued
<1>2. \A v \in Worker : \A y \in Tx : Carries(v, y)' => (v = w /\ y = x) \/ Carries(v, y)
  BY DEF TypeOK, Carries
<1>3. ~Queued(x) /\ \A v \in Worker : ~Carries(v, x)
  BY DEF MayOrder
<1>4. \A v \in Worker : \A y \in Tx : Carries(v, y)' => (v = w <=> y = x)
  BY <1>2, <1>3 DEF TypeOK, Carries
<1>5. OneRight'
  <2>1. \A v, z \in Worker : \A y \in Tx : Carries(v, y)' /\ Carries(z, y)' => v = z
    BY <1>2, <1>3, <1>4 DEF RightsInv, OneRight
  <2>2. \A v \in Worker : \A y \in Tx : ~(Carries(v, y)' /\ Queued(y)')
    BY <1>1, <1>2, <1>3 DEF RightsInv, OneRight
  <2>. QED
    BY <2>1, <2>2 DEF RightsInv, OneRight
<1>6. \A y \in Tx : MayOrder(y)' => y = x \/ MayOrder(y)
  BY <1>1, <1>2 DEF MayOrder
<1>7. RightUnspent' /\ AtMostOneOrder'
  BY <1>6 DEF RightsInv, RightUnspent, AtMostOneOrder
<1>8. CommittedInv'
  BY <1>6 DEF RightsInv, CommittedInv, TypeOK, PastPointOfNoReturn
<1>. QED
  BY <1>5, <1>7, <1>8 DEF RightsInv


\* Every step keeps the invariant of the rights.
LEMMA RightsStep ==
    ASSUME TypeOK, TypeOK', WorkersInv, FreshInv, RightsInv, [Next]_vars
    PROVE  RightsInv'
<1> USE DEF TypeOK, NewStatus, Take, Hold, Enqueue, Done, Goto, DatabaseFault, KeepStatus, Decide,
            shop, keys, locals, outside, UpdatePc, PreparePc, SendPc, Idle
<1>1. ASSUME NEW x \in Tx, CreateTransaction(x)
      PROVE  RightsInv'
    BY <1>1, RightsKept DEF CreateTransaction, RightsOnlyFade, Carries, PastPointOfNoReturn, Absent
<1>2. ASSUME NEW x \in Tx, CleanUpCancelled(x)
      PROVE  RightsInv'
    BY <1>2, RightsKept DEF CleanUpCancelled, RightsOnlyFade, Carries, PastPointOfNoReturn
<1>3. ASSUME NEW x \in Tx, NEW report \in PaymentReports, PaymentWebhook(x, report)
      PROVE  RightsInv'
    BY <1>3, RightsKept DEF PaymentWebhook, RightsOnlyFade, Carries
<1>4. ASSUME NEW x \in Tx, NEW raw \in FragmentStatus, FragmentWebhook(x, raw)
      PROVE  RightsInv'
    BY <1>4, RightsKept DEF FragmentWebhook, RightsOnlyFade, Carries
<1>5. ASSUME NEW x \in Tx, OrderAdvances(x)
      PROVE  RightsInv'
    BY <1>5, RightsKept DEF OrderAdvances, RightsOnlyFade, Carries
<1>6. ASSUME NEW x \in Tx, LockRunsOut(x)
      PROVE  RightsInv'
    BY <1>6, RightsKept DEF LockRunsOut, RightsOnlyFade, Carries
<1>7. ASSUME NEW w \in Worker, NEW t \in Task, StartUpdate(w, t)
      PROVE  RightsInv'
  <2>1. t.tx \in Tx
    BY TaskFacts
  <2>. QED
    BY <1>7, <2>1, RightsKept DEF StartUpdate, RightsOnlyFade, Carries
<1>8. ASSUME NEW w \in Worker, NEW t \in Task, StartPrepare(w, t)
      PROVE  RightsInv'
  <2>1. t.tx \in Tx
    BY TaskFacts
  <2>. QED
    BY <1>8, <2>1, RightsKept DEF StartPrepare, RightsOnlyFade, Carries
<1>9. ASSUME NEW w \in Worker, NEW t \in Task, StartSend(w, t)
      PROVE  RightsInv'
  <2>1. t.tx \in Tx
    BY TaskFacts
  <2>2. CASE db[t.tx] # "SENDING"
    BY <1>9, <2>1, <2>2, RightsKept DEF StartSend, RightsOnlyFade, Carries
  <2>3. CASE db[t.tx] = "SENDING"
    BY <1>9, <2>3, RightTaken DEF StartSend
  <2>. QED
    BY <2>2, <2>3
<1>10. ASSUME NEW w \in Worker, ConsumeFragment(w)
      PROVE  RightsInv'
  <2>1. task[w] \in Task /\ task[w].tx \in Tx
    BY <1>10, TaskFacts DEF ConsumeFragment
  <2>. QED
    BY <1>10, <2>1, RightsKept DEF ConsumeFragment, RightsOnlyFade, Carries
<1>11. ASSUME NEW w \in Worker, ReadRow(w)
      PROVE  RightsInv'
  <2>1. task[w] \in Task /\ task[w].tx \in Tx
    BY <1>11, TaskFacts DEF ReadRow
  <2>. QED
    BY <1>11, <2>1, RightsKept DEF ReadRow, RightsOnlyFade, Carries
<1>12. ASSUME NEW w \in Worker, FindNoRow(w)
      PROVE  RightsInv'
  <2>1. task[w] \in Task /\ task[w].tx \in Tx
    BY <1>12, TaskFacts DEF FindNoRow
  <2>. QED
    BY <1>12, <2>1, RightsKept DEF FindNoRow, RightsOnlyFade, Carries
<1>13. ASSUME NEW w \in Worker, Recreate(w)
      PROVE  RightsInv'
  <2>1. task[w] \in Task /\ task[w].tx \in Tx
    BY <1>13, TaskFacts DEF Recreate
  <2>. QED
    BY <1>13, <2>1, RightsKept DEF Recreate, RightsOnlyFade, Carries
<1>14. ASSUME NEW w \in Worker, InsertRow(w)
      PROVE  RightsInv'
  <2>1. task[w] \in Task /\ task[w].tx \in Tx
    BY <1>14, TaskFacts DEF InsertRow
  <2>. QED
    BY <1>14, <2>1, RightsKept DEF InsertRow, RightsOnlyFade, Carries, PastPointOfNoReturn, Absent
<1>15. ASSUME NEW w \in Worker, WriteRow(w)
      PROVE  RightsInv'
  <2>1. task[w] \in Task /\ task[w].tx \in Tx
    BY <1>15, TaskFacts DEF WriteRow
  <2>. QED
    BY <1>15, <2>1, RightsKept, PastIsClosed DEF WriteRow, RightsOnlyFade, Carries, PastPointOfNoReturn, Absent, FreshInv, WorkerFresh, WorkersInv, WorkerInv
<1>16. ASSUME NEW w \in Worker, WriteFindsNoRow(w)
      PROVE  RightsInv'
  <2>1. task[w] \in Task /\ task[w].tx \in Tx
    BY <1>16, TaskFacts DEF WriteFindsNoRow
  <2>. QED
    BY <1>16, <2>1, RightsKept DEF WriteFindsNoRow, RightsOnlyFade, Carries
<1>17. ASSUME NEW w \in Worker, PublishUpdate(w)
      PROVE  RightsInv'
  <2>1. task[w] \in Task /\ task[w].tx \in Tx
    BY <1>17, TaskFacts DEF PublishUpdate
  <2> DEFINE u == [task[w] EXCEPT !.kind = "prepare"]
  <2>2. u \in Task /\ u.kind # "send"
    BY <2>1 DEF Task
  <2>3. queue' \in {queue, [queue EXCEPT ![u] = @ + 1]}
    BY <1>17 DEF PublishUpdate
  <2> HIDE DEF u
  <2>. QED
    BY <1>17, <2>1, <2>2, <2>3, RightsKept DEF PublishUpdate, RightsOnlyFade, Carries
<1>18. ASSUME NEW w \in Worker, PrepareWrite(w)
      PROVE  RightsInv'
  <2>1. task[w] \in Task /\ task[w].tx \in Tx
    BY <1>18, TaskFacts DEF PrepareWrite
  <2>2. CASE db[task[w].tx] \in {Absent, "SENDING"}
    BY <1>18, <2>1, <2>2, RightsKept DEF PrepareWrite, RightsOnlyFade, Carries
  <2>3. CASE db[task[w].tx] \notin {Absent, "SENDING"}
    <3>1. db[task[w].tx] = "PROCESSING"
      BY <1>18 DEF PrepareWrite, FreshInv, WorkerFresh
    <3>2. ~MayOrder(task[w].tx) /\ orders[task[w].tx] = 0
      <4>1. db[task[w].tx] \notin PastPointOfNoReturn
        BY <3>1 DEF PastPointOfNoReturn
      <4>2. ~MayOrder(task[w].tx) /\ ~(orders[task[w].tx] > 0)
        BY <2>1, <4>1 DEF RightsInv, CommittedInv
      <4>. QED
        BY <2>1, <4>2
    <3>3. /\ db' = [db EXCEPT ![task[w].tx] = "SENDING"]
          /\ pc' = [pc EXCEPT ![w] = "prepare_publish"]
          /\ UNCHANGED <<task, queue, orders>>
      BY <1>18, <2>3 DEF PrepareWrite
    <3>. QED
      BY <2>1, <3>2, <3>3, RightMade
  <2>. QED
    BY <2>2, <2>3
<1>19. ASSUME NEW w \in Worker, PreparePublish(w)
      PROVE  RightsInv'
  <2>1. task[w] \in Task /\ task[w].tx \in Tx
    BY <1>19, TaskFacts DEF PreparePublish
  <2> DEFINE u == [task[w] EXCEPT !.kind = "send"]
  <2>2. u \in Task /\ u.kind = "send" /\ u.tx = task[w].tx
    BY <2>1 DEF Task
  <2>3. Carries(w, u.tx)
    BY <1>19, <2>2 DEF PreparePublish, Carries
  <2>4. /\ queue' = [queue EXCEPT ![u] = @ + 1]
        /\ pc' = [pc EXCEPT ![w] = Idle] /\ task' = [task EXCEPT ![w] = NoTask]
        /\ UNCHANGED <<orders, db>>
    BY <1>19 DEF PreparePublish
  <2> HIDE DEF u
  <2>. QED
    BY <2>2, <2>3, <2>4, RightQueued
<1>20. ASSUME NEW w \in Worker, NEW reply \in Replies, OrderAccepted(w, reply)
      PROVE  RightsInv'
  <2>1. task[w] \in Task /\ task[w].tx \in Tx
    BY <1>20, TaskFacts DEF OrderAccepted
  <2>2. Carries(w, task[w].tx)
    BY <1>20 DEF OrderAccepted, Carries
  <2>3. /\ orders' = [orders EXCEPT ![task[w].tx] = @ + 1]
        /\ pc' = [pc EXCEPT ![w] = "send_accepted"]
        /\ UNCHANGED <<task, queue, db>>
    BY <1>20 DEF OrderAccepted
  <2>. QED
    BY <2>1, <2>2, <2>3, RightUsed
<1>21. ASSUME NEW w \in Worker, AnswerLost(w)
      PROVE  RightsInv'
  <2>1. task[w] \in Task /\ task[w].tx \in Tx
    BY <1>21, TaskFacts DEF AnswerLost
  <2>2. Carries(w, task[w].tx)
    BY <1>21 DEF AnswerLost, Carries
  <2>3. /\ orders' = [orders EXCEPT ![task[w].tx] = @ + 1]
        /\ pc' = [pc EXCEPT ![w] = "send_failed"]
        /\ UNCHANGED <<task, queue, db>>
    BY <1>21 DEF AnswerLost
  <2>. QED
    BY <2>1, <2>2, <2>3, RightUsed
<1>22. ASSUME NEW w \in Worker, OrderRefused(w)
      PROVE  RightsInv'
  <2>1. task[w] \in Task /\ task[w].tx \in Tx
    BY <1>22, TaskFacts DEF OrderRefused
  <2>. QED
    BY <1>22, <2>1, RightsKept DEF OrderRefused, RightsOnlyFade, Carries
<1>23. ASSUME NEW w \in Worker, OrderRefusedForNow(w)
      PROVE  RightsInv'
  <2>1. task[w] \in Task /\ task[w].kind = "send"
    BY <1>23 DEF OrderRefusedForNow, WorkersInv, WorkerInv
  <2>2. Carries(w, task[w].tx)
    BY <1>23 DEF OrderRefusedForNow, Carries
  <2>3. /\ queue' = [queue EXCEPT ![task[w]] = @ + 1]
        /\ pc' = [pc EXCEPT ![w] = "send_failed"]
        /\ UNCHANGED <<task, orders, db>>
    BY <1>23 DEF OrderRefusedForNow
  <2>. QED
    BY <2>1, <2>2, <2>3, RightQueued
<1>24. ASSUME NEW w \in Worker, SaveFragmentStatus(w)
      PROVE  RightsInv'
  <2>1. task[w] \in Task /\ task[w].tx \in Tx
    BY <1>24, TaskFacts DEF SaveFragmentStatus
  <2>. QED
    BY <1>24, <2>1, RightsKept DEF SaveFragmentStatus, RightsOnlyFade, Carries
<1>25. ASSUME NEW w \in Worker, EnqueueUpdate(w)
      PROVE  RightsInv'
  <2>1. task[w] \in Task /\ task[w].tx \in Tx
    BY <1>25, TaskFacts DEF EnqueueUpdate
  <2> DEFINE u == [task[w] EXCEPT !.kind = "update"]
  <2>2. u \in Task /\ u.kind # "send"
    BY <2>1 DEF Task
  <2>3. queue' \in {queue, [queue EXCEPT ![u] = @ + 1]}
    BY <1>25 DEF EnqueueUpdate
  <2> HIDE DEF u
  <2>. QED
    BY <1>25, <2>1, <2>2, <2>3, RightsKept DEF EnqueueUpdate, RightsOnlyFade, Carries
<1>26. ASSUME NEW w \in Worker, InsertFails(w)
      PROVE  RightsInv'
  <2>1. task[w] \in Task /\ task[w].tx \in Tx
    BY <1>26, TaskFacts DEF InsertFails
  <2>. QED
    BY <1>26, <2>1, RightsKept DEF InsertFails, RightsOnlyFade, Carries
<1>27. ASSUME NEW w \in Worker, WriteIsLost(w)
      PROVE  RightsInv'
  <2>1. task[w] \in Task /\ task[w].tx \in Tx
    BY <1>27, TaskFacts DEF WriteIsLost
  <2>. QED
    BY <1>27, <2>1, RightsKept DEF WriteIsLost, RightsOnlyFade, Carries
<1>28. ASSUME NEW w \in Worker, RetryUpdate(w)
      PROVE  RightsInv'
  <2>1. task[w] \in Task /\ task[w].tx \in Tx
    BY <1>28, TaskFacts DEF RetryUpdate
  <2>2. task[w].kind # "send"
    BY <1>28 DEF RetryUpdate, WorkersInv, WorkerInv
  <2>. QED
    BY <1>28, <2>1, RightsKept, <2>2 DEF RetryUpdate, RightsOnlyFade, Carries
<1>29. ASSUME NEW w \in Worker, PrepareWriteFails(w)
      PROVE  RightsInv'
  <2>1. task[w] \in Task /\ task[w].tx \in Tx
    BY <1>29, TaskFacts DEF PrepareWriteFails
  <2>2. task[w].kind # "send"
    BY <1>29 DEF PrepareWriteFails, WorkersInv, WorkerInv
  <2>. QED
    BY <1>29, <2>1, RightsKept, <2>2 DEF PrepareWriteFails, RightsOnlyFade, Carries
<1>30. ASSUME NEW w \in Worker, NEW t \in Task, ReadFails(w, t)
      PROVE  RightsInv'
  <2>1. t.tx \in Tx
    BY TaskFacts
  <2>. QED
    BY <1>30, <2>1, RightsKept DEF ReadFails, RightsOnlyFade, Carries
<1>31. ASSUME NEW w \in Worker, Crash(w)
      PROVE  RightsInv'
  <2>1. task[w] \in Task /\ task[w].tx \in Tx
    BY <1>31, TaskFacts DEF Crash
  <2>2. task[w].kind \in AcksLate => task[w].kind # "send"
    BY DEF AcksLate
  <2>. QED
    BY <1>31, <2>1, RightsKept, <2>2 DEF Crash, RightsOnlyFade, Carries
<1>32. ASSUME NEW w \in Worker, LockRunsOutInCall(w)
      PROVE  RightsInv'
  <2>1. task[w] \in Task /\ task[w].tx \in Tx
    BY <1>32, TaskFacts DEF LockRunsOutInCall
  <2>. QED
    BY <1>32, <2>1, RightsKept DEF LockRunsOutInCall, RightsOnlyFade, Carries
<1>33. CASE UNCHANGED vars
    BY <1>33 DEF vars, RightsInv, OneRight, RightUnspent, CommittedInv, AtMostOneOrder, MayOrder, Queued, Carries
<1>. QED
    BY <1>1, <1>2, <1>3, <1>4, <1>5, <1>6, <1>7, <1>8, <1>9, <1>10, <1>11, <1>12, <1>13, <1>14, <1>15, <1>16,
       <1>17, <1>18, <1>19, <1>20, <1>21, <1>22, <1>23, <1>24, <1>25, <1>26, <1>27, <1>28, <1>29, <1>30, <1>31, <1>32, <1>33
    DEF Next, Environment, Start, UpdateStep, PrepareStep, SendStep, Failure

-----------------------------------------------------------------------------
(* The inductive invariant, and what follows from it.                       *)

\* The invariant holds at first ...
LEMMA Initially == Init => IInv
BY ConstantsAssumption
DEF Init, IInv, TypeOK, WorkersInv, WorkerInv, FreshInv, WorkerFresh, RightsInv, OneRight,
    RightUnspent, CommittedInv, AtMostOneOrder, MayOrder, Queued, Carries, Idle, UpdatePc,
    PreparePc, SendPc, ConstantsAssumption

\* ... and every step keeps it.
LEMMA Inductive == IInv /\ [Next]_vars => IInv'
BY TypeStep, WorkersStep, FreshStep, RightsStep DEF IInv

\* So the pipeline never leaves it.
THEOREM Invariant == Spec => []IInv
BY Initially, Inductive, PTL DEF Spec

\* The state of the pipeline keeps its type: what is read from a key is a status a
\* row can take, a busy worker has a task, no queue count goes below zero.
THEOREM TypeCorrect == Spec => []TypeOK
<1>1. IInv => TypeOK
  BY DEF IInv
<1>. QED
  BY <1>1, Invariant, PTL

\* No interleaving of webhooks, tasks, retries, deaths of workers and expiries of
\* the lock makes send_stars_task place a second order.
THEOREM NoSecondOrder == Spec => []AtMostOneOrder
<1>1. IInv => AtMostOneOrder
  BY DEF IInv, RightsInv
<1>. QED
  BY <1>1, Invariant, PTL

\* Where there is an order, the row has been moved to SENDING and is past it.
THEOREM OrdersAreCommitted == Spec => []OrderHasCommittedRow
<1>1. IInv => OrderHasCommittedRow
  BY DEF IInv, TypeOK, RightsInv, CommittedInv, OrderHasCommittedRow
<1>. QED
  BY <1>1, Invariant, PTL

-----------------------------------------------------------------------------
(* What a step may do to a row.                                             *)

\* The steps that change a row.
LEMMA WhoWritesRows ==
    ASSUME Next
    PROVE  \/ \E x \in Tx : CreateTransaction(x) \/ CleanUpCancelled(x)
           \/ \E w \in Worker : InsertRow(w) \/ WriteRow(w) \/ PrepareWrite(w)
           \/ UNCHANGED db
<1>1. ASSUME NEW x \in Tx, Environment(x)
      PROVE  CreateTransaction(x) \/ CleanUpCancelled(x) \/ UNCHANGED db
  BY <1>1 DEF Environment, PaymentWebhook, FragmentWebhook, OrderAdvances, LockRunsOut, shop
<1>2. ASSUME NEW w \in Worker, NEW t \in Task, Start(w, t)
      PROVE  UNCHANGED db
  BY <1>2 DEF Start, StartUpdate, StartPrepare, StartSend, shop
<1>3. ASSUME NEW w \in Worker, UpdateStep(w)
      PROVE  InsertRow(w) \/ WriteRow(w) \/ UNCHANGED db
  BY <1>3 DEF UpdateStep, ConsumeFragment, ReadRow, FindNoRow, Recreate, InsertFails,
              WriteFindsNoRow, PublishUpdate, shop
<1>4. ASSUME NEW w \in Worker, PrepareStep(w)
      PROVE  PrepareWrite(w) \/ UNCHANGED db
  BY <1>4 DEF PrepareStep, PreparePublish, shop
<1>5. ASSUME NEW w \in Worker, SendStep(w)
      PROVE  UNCHANGED db
  BY <1>5 DEF SendStep, OrderAccepted, AnswerLost, OrderRefused, OrderRefusedForNow,
              SaveFragmentStatus, EnqueueUpdate, shop
<1>6. ASSUME NEW w \in Worker, Failure(w)
      PROVE  UNCHANGED db
  BY <1>6 DEF Failure, WriteIsLost, RetryUpdate, PrepareWriteFails, ReadFails,
              Crash, LockRunsOutInCall, shop
<1>. QED
  BY <1>1, <1>2, <1>3, <1>4, <1>5, <1>6 DEF Next

\* A step changes a row as the matrix says, and never back over the point of no return.
LEMMA RowStep ==
    ASSUME IInv, Next
    PROVE  StatusMoves /\ PastIsPast
<1> USE DEF TypeOK, NewStatus, Take, Hold, Enqueue, Done, Goto, DatabaseFault, KeepStatus, Decide,
            shop, keys, locals, outside, UpdatePc, PreparePc, SendPc, Idle
<1>1. TypeOK /\ WorkersInv /\ FreshInv
  BY DEF IInv
<1>2. ASSUME NEW x \in Tx, CreateTransaction(x)
      PROVE  StatusMoves /\ PastIsPast
  BY <1>1, <1>2 DEF CreateTransaction, StatusMoves, PastIsPast, PastPointOfNoReturn, Absent
<1>3. ASSUME NEW x \in Tx, CleanUpCancelled(x)
      PROVE  StatusMoves /\ PastIsPast
  BY <1>1, <1>3 DEF CleanUpCancelled, StatusMoves, PastIsPast, PastPointOfNoReturn
<1>4. ASSUME NEW w \in Worker, InsertRow(w)
      PROVE  StatusMoves /\ PastIsPast
  BY <1>1, <1>4, TaskFacts DEF InsertRow, StatusMoves, PastIsPast, PastPointOfNoReturn, Absent
<1>5. ASSUME NEW w \in Worker, WriteRow(w)
      PROVE  StatusMoves /\ PastIsPast
  BY <1>1, <1>5, TaskFacts, PastIsClosed, NewsAreStatuses
  DEF WriteRow, FreshInv, WorkerFresh, WorkersInv, WorkerInv, StatusMoves, PastIsPast,
      PastPointOfNoReturn, Absent
<1>6. ASSUME NEW w \in Worker, PrepareWrite(w)
      PROVE  StatusMoves /\ PastIsPast
  <2>1. is_change_status_allowed("PROCESSING", "SENDING")
    BY DEF is_change_status_allowed, STATUS_TRANSITION_MATRIX, ALL_STATUSES
  <2>. QED
    BY <1>1, <1>6, <2>1, TaskFacts
    DEF PrepareWrite, FreshInv, WorkerFresh, StatusMoves, PastIsPast, PastPointOfNoReturn
<1>7. CASE UNCHANGED db
  BY <1>7 DEF StatusMoves, PastIsPast
<1>. QED
  BY <1>2, <1>3, <1>4, <1>5, <1>6, <1>7, WhoWritesRows

\* Every change of a row's status is one the matrix allows, although the workflow
\* checks the matrix before it writes and the write itself checks nothing.
THEOREM MatrixIsKept == Spec => StatusFollowsMatrix
<1>1. IInv /\ [Next]_vars => [StatusMoves]_vars
  BY RowStep
<1>. QED
  BY <1>1, Invariant, PTL DEF Spec, StatusFollowsMatrix

\* The point of no return is passed once.
THEOREM NoReturn == Spec => NoWayBack
<1>1. IInv /\ [Next]_vars => [PastIsPast]_vars
  BY RowStep
<1>. QED
  BY <1>1, Invariant, PTL DEF Spec, NoWayBack

-----------------------------------------------------------------------------
(* The row while the order is placed.                                       *)

\* Worker w is at the call, holds the lock and has a row in SENDING before it.
AtCall(w) ==
    pc[w] = "send_call" =>
        /\ lock[task[w].tx] = w
        /\ db[task[w].tx] = "SENDING"

\* A call begins with the lock taken and the row read; another call goes on.
LEMMA CallsBegin ==
    ASSUME TypeOK, Next, NEW w \in Worker, pc'[w] = "send_call"
    PROVE  \/ \E t \in Task : StartSend(w, t) /\ db[t.tx] = "SENDING" /\ task'[w] = t
           \/ pc[w] = "send_call" /\ task'[w] = task[w]
<1> USE DEF TypeOK, Take, Hold, Done, Goto, locals, UpdatePc, PreparePc, SendPc, Idle
<1>1. ASSUME NEW x \in Tx, Environment(x)
      PROVE  pc' = pc /\ task' = task
  BY <1>1 DEF Environment, CreateTransaction, CleanUpCancelled, PaymentWebhook,
     FragmentWebhook, OrderAdvances, LockRunsOut
<1>2. ASSUME NEW v \in Worker, NEW t \in Task, Start(v, t)
      PROVE  \/ StartSend(v, t) /\ v = w /\ db[t.tx] = "SENDING" /\ task'[w] = t
             \/ pc[w] = "send_call" /\ task'[w] = task[w]
  BY <1>2 DEF Start, StartUpdate, StartPrepare, StartSend
<1>3. ASSUME NEW v \in Worker, UpdateStep(v)
      PROVE  pc[w] = "send_call" /\ task'[w] = task[w]
  BY <1>3 DEF UpdateStep, ConsumeFragment, ReadRow, Decide, FindNoRow, Recreate, InsertRow,
     InsertFails, WriteRow, WriteFindsNoRow, PublishUpdate
<1>4. ASSUME NEW v \in Worker, PrepareStep(v) \/ SendStep(v)
      PROVE  pc[w] = "send_call" /\ task'[w] = task[w]
  BY <1>4 DEF PrepareStep, PrepareWrite, PreparePublish, SendStep, OrderAccepted, AnswerLost,
     OrderRefused, OrderRefusedForNow, SaveFragmentStatus, EnqueueUpdate
<1>5. ASSUME NEW v \in Worker, Failure(v)
      PROVE  pc[w] = "send_call" /\ task'[w] = task[w]
  BY <1>5 DEF Failure, WriteIsLost, RetryUpdate, PrepareWriteFails, ReadFails, Crash,
     LockRunsOutInCall
<1>. QED
  BY <1>1, <1>2, <1>3, <1>4, <1>5 DEF Next

\* Who is at the call keeps the lock, if its time to live outlasts the call.
LEMMA CallKeepsLock ==
    ASSUME LockOutlivesCall, TypeOK, Next, NEW w \in Worker,
           pc[w] = "send_call", pc'[w] = "send_call", lock[task[w].tx] = w
    PROVE  lock'[task[w].tx] = w
<1> USE DEF TypeOK, Take, Hold, Done, Goto, UpdatePc, PreparePc, SendPc, Idle
<1>1. w # Nobody /\ w # Crashed /\ task[w].tx \in Tx
  BY ConstantsAssumption, TaskFacts DEF ConstantsAssumption
<1>2. ASSUME NEW x \in Tx, Environment(x)
      PROVE  lock'[task[w].tx] = w
  BY <1>1, <1>2 DEF Environment, CreateTransaction, CleanUpCancelled, PaymentWebhook,
     FragmentWebhook, OrderAdvances, LockRunsOut
<1>3. ASSUME NEW v \in Worker, NEW t \in Task, Start(v, t)
      PROVE  lock'[task[w].tx] = w
  BY <1>1, <1>3, TaskFacts DEF Start, StartUpdate, StartPrepare, StartSend
<1>4. ASSUME NEW v \in Worker, UpdateStep(v)
      PROVE  lock'[task[w].tx] = w
  BY <1>1, <1>4 DEF UpdateStep, ConsumeFragment, ReadRow, Decide, FindNoRow, Recreate, InsertRow,
     InsertFails, WriteRow, WriteFindsNoRow, PublishUpdate
<1>5. ASSUME NEW v \in Worker, PrepareStep(v) \/ SendStep(v)
      PROVE  lock'[task[w].tx] = w
  BY <1>1, <1>5 DEF PrepareStep, PrepareWrite, PreparePublish, SendStep, OrderAccepted,
     AnswerLost, OrderRefused, OrderRefusedForNow, SaveFragmentStatus, EnqueueUpdate
<1>6. ASSUME NEW v \in Worker, Failure(v)
      PROVE  lock'[task[w].tx] = w
  BY <1>1, <1>6 DEF Failure, WriteIsLost, RetryUpdate, PrepareWriteFails, ReadFails, Crash,
     LockRunsOutInCall
<1>. QED
  BY <1>2, <1>3, <1>4, <1>5, <1>6 DEF Next

\* So the row stays SENDING: those who write rows hold its lock, or leave this one alone.
LEMMA CallStep ==
    ASSUME LockOutlivesCall, IInv, \A w \in Worker : AtCall(w), [Next]_vars
    PROVE  \A w \in Worker : AtCall(w)'
<1> USE DEF UpdatePc, PreparePc, SendPc, Idle
<1>1. TypeOK /\ WorkersInv
  BY DEF IInv
<1>2. CASE UNCHANGED vars
  BY <1>2 DEF vars, AtCall
<1>3. ASSUME Next, NEW w \in Worker, NEW t \in Task,
             StartSend(w, t), db[t.tx] = "SENDING", task'[w] = t
      PROVE  AtCall(w)'
  BY <1>1, <1>3, TaskFacts DEF StartSend, Hold, AtCall, TypeOK, shop
<1>4. ASSUME Next, NEW w \in Worker,
             pc[w] = "send_call", pc'[w] = "send_call", task'[w] = task[w]
      PROVE  AtCall(w)'
  <2> DEFINE x == task[w].tx
  <2>1. x \in Tx /\ lock[x] = w /\ db[x] = "SENDING"
    BY <1>1, <1>4, TaskFacts DEF AtCall, TypeOK
  <2>2. lock'[x] = w
    BY <1>1, <1>4, <2>1, CallKeepsLock
  <2>3. ASSUME NEW v \in Worker, InsertRow(v) \/ WriteRow(v) \/ PrepareWrite(v)
        PROVE  task[v].tx # x
    <3>1. lock[task[v].tx] = v /\ v # w
      BY <1>1, <1>4, <2>3 DEF InsertRow, WriteRow, PrepareWrite, WorkersInv, WorkerInv
    <3>. QED
      BY <2>1, <3>1
  <2>4. ASSUME NEW v \in Worker, InsertRow(v) \/ WriteRow(v) \/ PrepareWrite(v)
        PROVE  db'[x] = db[x]
    BY <1>1, <2>1, <2>3, <2>4 DEF InsertRow, WriteRow, PrepareWrite, TypeOK
  <2>5. ASSUME NEW y \in Tx, CreateTransaction(y) \/ CleanUpCancelled(y)
        PROVE  db'[x] = db[x]
    BY <1>1, <2>1, <2>5 DEF CreateTransaction, CleanUpCancelled, TypeOK, Absent
  <2>6. db'[x] = "SENDING"
    BY <1>4, <2>1, <2>4, <2>5, WhoWritesRows
  <2>. QED
    BY <1>4, <2>2, <2>6 DEF AtCall
<1>5. ASSUME NEW w \in Worker, Next
      PROVE  AtCall(w)'
  <2>1. CASE pc'[w] # "send_call"
    BY <2>1 DEF AtCall
  <2>2. CASE pc'[w] = "send_call"
    BY <1>1, <1>3, <1>4, <1>5, <2>2, CallsBegin
  <2>. QED
    BY <2>1, <2>2
<1>. QED
  BY <1>2, <1>5

\* Orders are placed at a call only.
LEMMA WhoPlacesOrders ==
    ASSUME Next
    PROVE  \/ orders' = orders
           \/ \E w \in Worker : pc[w] = "send_call" /\ orders' = [orders EXCEPT ![task[w].tx] = @ + 1]
<1> USE DEF outside
<1>1. ASSUME NEW x \in Tx, Environment(x)
      PROVE  orders' = orders
  BY <1>1 DEF Environment, CreateTransaction, CleanUpCancelled, PaymentWebhook,
     FragmentWebhook, OrderAdvances, LockRunsOut
<1>2. ASSUME NEW v \in Worker, NEW t \in Task, Start(v, t)
      PROVE  orders' = orders
  BY <1>2 DEF Start, StartUpdate, StartPrepare, StartSend
<1>3. ASSUME NEW v \in Worker, UpdateStep(v) \/ PrepareStep(v)
      PROVE  orders' = orders
  BY <1>3 DEF UpdateStep, ConsumeFragment, ReadRow, FindNoRow, Recreate, InsertRow,
     InsertFails, WriteRow, WriteFindsNoRow, PublishUpdate, PrepareStep, PrepareWrite,
     PreparePublish
<1>4. ASSUME NEW v \in Worker, SendStep(v)
      PROVE  \/ orders' = orders
             \/ pc[v] = "send_call" /\ orders' = [orders EXCEPT ![task[v].tx] = @ + 1]
  BY <1>4 DEF SendStep, OrderAccepted, AnswerLost, OrderRefused, OrderRefusedForNow,
     SaveFragmentStatus, EnqueueUpdate
<1>5. ASSUME NEW v \in Worker, Failure(v)
      PROVE  orders' = orders
  BY <1>5 DEF Failure, WriteIsLost, RetryUpdate, PrepareWriteFails, ReadFails, Crash,
     LockRunsOutInCall
<1>. QED
  BY <1>1, <1>2, <1>3, <1>4, <1>5 DEF Next

\* While the lock outlives the calls to fragment-api, an order is placed for a row in
\* SENDING only: what is charged back, and says so in its row, is not sent any more.
THEOREM SendingWhenOrdered == ASSUME LockOutlivesCall PROVE Spec => OrderedWhileSending
<1> DEFINE CallInv == \A w \in Worker : AtCall(w)
           Placed == \A x \in Tx : orders'[x] # orders[x] => db[x] = "SENDING"
<1>1. Init => CallInv
  BY DEF Init, AtCall, Idle
<1>2. IInv /\ CallInv /\ [Next]_vars => CallInv'
  BY CallStep
<1>3. IInv /\ CallInv /\ [Next]_vars => [Placed]_vars
  <2>1. ASSUME IInv, CallInv, Next
        PROVE  Placed
    <3>1. TypeOK
      BY <2>1 DEF IInv
    <3>. QED
      BY <2>1, <3>1, WhoPlacesOrders, TaskFacts DEF AtCall, TypeOK, Idle
  <2>. QED
    BY <2>1
<1>. QED
  BY <1>1, <1>2, <1>3, Invariant, PTL DEF Spec, OrderedWhileSending


-----------------------------------------------------------------------------
(* The refinement of StarsOrder.                                            *)

\* A step that leaves the queued sendings, their carriers and the orders alone.
RightsUntouched ==
    /\ \A t \in Task : t.kind = "send" => queue'[t] = queue[t]
    /\ \A w \in Worker, x \in Tx : Carries(w, x)' <=> Carries(w, x)
    /\ orders' = orders

\* The permit of purchase x, as the contract sees it, after a step: the others' stay.
OthersMayOrder(x) == \A y \in Tx : y # x => (MayOrder(y)' <=> MayOrder(y))

\* Such a step leaves every right to order where it is.
LEMMA UntouchedRights ==
    ASSUME RightsUntouched
    PROVE  \A x \in Tx : MayOrder(x)' <=> MayOrder(x)
<1>1. \A x \in Tx : Queued(x)' <=> Queued(x)
  BY DEF Queued, RightsUntouched
<1>. QED
  BY <1>1 DEF MayOrder, RightsUntouched

\* The steps that touch the rights to order.
LEMMA WhoTouchesRights ==
    ASSUME IInv, Next
    PROVE  \/ RightsUntouched
           \/ \E w \in Worker, t \in Task : StartSend(w, t) \/ ReadFails(w, t)
           \/ \E w \in Worker :
                 \/ PrepareWrite(w) \/ PreparePublish(w)
                 \/ \E reply \in Replies : OrderAccepted(w, reply)
                 \/ AnswerLost(w) \/ OrderRefused(w) \/ OrderRefusedForNow(w)
                 \/ Crash(w)
<1> USE DEF TypeOK, Take, Hold, Enqueue, Done, Goto, shop, keys, locals, outside,
            UpdatePc, PreparePc, SendPc, Idle
<1>1. TypeOK /\ WorkersInv
  BY DEF IInv
<1>2. ASSUME NEW x \in Tx, Environment(x)
      PROVE  RightsUntouched
  BY <1>1, <1>2 DEF Environment, CreateTransaction, CleanUpCancelled, PaymentWebhook,
     FragmentWebhook, OrderAdvances, LockRunsOut, RightsUntouched, Carries
<1>3. ASSUME NEW w \in Worker, NEW t \in Task, StartUpdate(w, t) \/ StartPrepare(w, t)
      PROVE  RightsUntouched
  BY <1>1, <1>3 DEF StartUpdate, StartPrepare, RightsUntouched, Carries
<1>4. ASSUME NEW w \in Worker, UpdateStep(w)
      PROVE  RightsUntouched
  <2>1. CASE PublishUpdate(w)
    <3> DEFINE u == [task[w] EXCEPT !.kind = "prepare"]
    <3>1. task[w] \in Task
      BY <1>1, <2>1 DEF PublishUpdate
    <3>2. u \in Task /\ u.kind # "send"
      BY <3>1 DEF Task
    <3>3. queue' \in {queue, [queue EXCEPT ![u] = @ + 1]}
      BY <2>1 DEF PublishUpdate
    <3> HIDE DEF u
    <3>. QED
      BY <1>1, <2>1, <3>2, <3>3 DEF PublishUpdate, RightsUntouched, Carries
  <2>2. CASE ~PublishUpdate(w)
    BY <1>1, <1>4, <2>2 DEF UpdateStep, ConsumeFragment, ReadRow, Decide, FindNoRow, Recreate,
       InsertRow, InsertFails, WriteRow, WriteFindsNoRow, KeepStatus, RightsUntouched, Carries
  <2>. QED
    BY <2>1, <2>2
<1>5. ASSUME NEW w \in Worker, SaveFragmentStatus(w) \/ EnqueueUpdate(w)
      PROVE  RightsUntouched
  <2>1. CASE SaveFragmentStatus(w)
    BY <1>1, <2>1 DEF SaveFragmentStatus, RightsUntouched, Carries
  <2>2. CASE EnqueueUpdate(w)
    <3> DEFINE u == [task[w] EXCEPT !.kind = "update"]
    <3>1. task[w] \in Task
      BY <1>1, <2>2 DEF EnqueueUpdate
    <3>2. u \in Task /\ u.kind # "send"
      BY <3>1 DEF Task
    <3>3. queue' = [queue EXCEPT ![u] = @ + 1]
      BY <2>2 DEF EnqueueUpdate
    <3> HIDE DEF u
    <3>. QED
      BY <1>1, <2>2, <3>2, <3>3 DEF EnqueueUpdate, RightsUntouched, Carries
  <2>. QED
    BY <1>5, <2>1, <2>2
<1>6. ASSUME NEW w \in Worker, WriteIsLost(w) \/ LockRunsOutInCall(w)
      PROVE  RightsUntouched
  BY <1>1, <1>6 DEF WriteIsLost, LockRunsOutInCall, RightsUntouched, Carries
<1>7. ASSUME NEW w \in Worker, RetryUpdate(w) \/ PrepareWriteFails(w)
      PROVE  RightsUntouched
  <2>1. task[w] \in Task /\ task[w].kind # "send"
    BY <1>1, <1>7 DEF RetryUpdate, PrepareWriteFails, WorkersInv, WorkerInv
  <2>2. queue' \in {queue, [queue EXCEPT ![task[w]] = @ + 1]}
    BY <1>7 DEF RetryUpdate, PrepareWriteFails
  <2>. QED
    BY <1>1, <1>7, <2>1, <2>2 DEF RetryUpdate, PrepareWriteFails, KeepStatus,
       RightsUntouched, Carries
<1>. QED
  BY <1>2, <1>3, <1>4, <1>5, <1>6, <1>7 DEF Next, Start, PrepareStep, SendStep, Failure

\* The row of purchase x moves among open and paid, or is settled from open or sending
\* (or again); the other rows stay.
RowMoves(x) ==
    /\ \A y \in Tx : y # x => db'[y] = db[y]
    /\ \/ StageOf(db[x]) \in {"open", "paid"} /\ StageOf(db'[x]) \in {"open", "paid"}
       \/ StageOf(db[x]) \in {"open", "sending", "settled"} /\ StageOf(db'[x]) = "settled"

\* A paid row is not settled before it is sent.
LEMMA PaidIsNotSettled ==
    ASSUME NEW new \in PaymentNews \cup FragmentNews,
           is_change_status_allowed("PROCESSING", new)
    PROVE  new \notin PastPointOfNoReturn
BY DEF PastPointOfNoReturn, PaymentNews, FragmentNews, is_change_status_allowed,
       STATUS_TRANSITION_MATRIX, SendingMoves, FailedMoves, ALL_STATUSES, Unrecognised

\* The rows move as the contract's purchases do, but for the write that commits one.
LEMMA StageStep ==
    ASSUME IInv, Next
    PROVE  \/ UNCHANGED db
           \/ \E x \in Tx : RowMoves(x)
           \/ \E w \in Worker : PrepareWrite(w)
<1>1. TypeOK /\ WorkersInv /\ FreshInv
  BY DEF IInv
<1>2. ASSUME NEW x \in Tx, CreateTransaction(x) \/ CleanUpCancelled(x)
      PROVE  UNCHANGED db \/ RowMoves(x)
  BY <1>1, <1>2 DEF CreateTransaction, CleanUpCancelled, TypeOK, RowMoves, StageOf,
     PastPointOfNoReturn, Absent
<1>3. ASSUME NEW w \in Worker, InsertRow(w)
      PROVE  RowMoves(task[w].tx) /\ task[w].tx \in Tx
  <2>1. task[w].tx \in Tx
    BY <1>1, <1>3, TaskFacts DEF InsertRow, TypeOK, Idle
  <2>2. NewStatus(w) # "SENDING"
    BY <1>1, <1>3, NewsAreStatuses DEF InsertRow, WorkersInv, WorkerInv, UpdatePc
  <2>3. db[task[w].tx] = Absent /\ db' = [db EXCEPT ![task[w].tx] = NewStatus(w)]
    BY <1>3 DEF InsertRow
  <2>. QED
    BY <1>1, <2>1, <2>2, <2>3 DEF TypeOK, RowMoves, StageOf, PastPointOfNoReturn, Absent
<1>4. ASSUME NEW w \in Worker, WriteRow(w)
      PROVE  UNCHANGED db \/ (RowMoves(task[w].tx) /\ task[w].tx \in Tx)
  <2>1. task[w].tx \in Tx
    BY <1>1, <1>4, TaskFacts DEF WriteRow, TypeOK, Idle
  <2>2. NewStatus(w) \in PaymentNews \cup FragmentNews
    BY <1>1, <1>4 DEF WriteRow, WorkersInv, WorkerInv, UpdatePc
  <2>3. ASSUME db[task[w].tx] # Absent
        PROVE  is_change_status_allowed(db[task[w].tx], NewStatus(w))
    BY <1>1, <1>4, <2>3 DEF WriteRow, FreshInv, WorkerFresh
  <2>4. ASSUME db[task[w].tx] # Absent, db' = [db EXCEPT ![task[w].tx] = NewStatus(w)]
        PROVE  RowMoves(task[w].tx)
    <3> DEFINE old == db[task[w].tx]
               new == NewStatus(w)
    <3>1. is_change_status_allowed(old, new) /\ new \in PaymentNews \cup FragmentNews
      BY <2>2, <2>3, <2>4
    <3>2. db'[task[w].tx] = new /\ \A y \in Tx : y # task[w].tx => db'[y] = db[y]
      BY <1>1, <2>1, <2>4 DEF TypeOK
    <3>3. new # "SENDING"
      BY <3>1, NewsAreStatuses
    <3> HIDE DEF old, new
    <3>4. CASE old \in PastPointOfNoReturn
      <4>1. new \in PastPointOfNoReturn \ {"SENDING"}
        BY <3>1, <3>4, PastIsClosed
      <4>. QED
        BY <3>2, <3>4, <4>1 DEF RowMoves, StageOf, PastPointOfNoReturn, old
    <3>5. CASE old = "PROCESSING"
      <4>1. new \notin PastPointOfNoReturn
        BY <3>1, <3>5, PaidIsNotSettled
      <4>. QED
        BY <3>2, <3>5, <4>1 DEF RowMoves, StageOf, PastPointOfNoReturn, old
    <3>6. CASE old \notin PastPointOfNoReturn \cup {"PROCESSING"}
      BY <3>2, <3>3, <3>6 DEF RowMoves, StageOf, PastPointOfNoReturn, old
    <3>. QED
      BY <3>4, <3>5, <3>6
  <2>. QED
    BY <1>4, <2>1, <2>4 DEF WriteRow
<1>. QED
  BY <1>2, <1>3, <1>4, WhoWritesRows

\* No row but the one a commit writes changes in a step that touches the rights.
LEMMA RightsWithoutRows ==
    ASSUME NEW w \in Worker,
           \/ \E t \in Task : StartSend(w, t) \/ ReadFails(w, t)
           \/ PreparePublish(w) \/ AnswerLost(w) \/ OrderRefused(w) \/ OrderRefusedForNow(w)
           \/ \E reply \in Replies : OrderAccepted(w, reply)
           \/ Crash(w)
    PROVE  UNCHANGED db
BY DEF StartSend, ReadFails, PreparePublish, AnswerLost, OrderRefused, OrderRefusedForNow,
       OrderAccepted, Crash, shop

\* The right for x goes with the worker that carried it: nobody else had it.
LEMMA RightDropped ==
    ASSUME TypeOK, RightsInv, NEW w \in Worker, NEW x \in Tx, Carries(w, x),
           \A t \in Task : t.kind = "send" => queue'[t] = queue[t],
           \A v \in Worker, y \in Tx : Carries(v, y)' <=> v # w /\ Carries(v, y)
    PROVE  OthersMayOrder(x) /\ ~MayOrder(x)'
<1>1. \A y \in Tx : Queued(y)' <=> Queued(y)
  BY DEF Queued
<1>2. \A y \in Tx : Carries(w, y) => y = x
  BY DEF Carries
<1>3. ~Queued(x) /\ \A v \in Worker : v # w => ~Carries(v, x)
  BY DEF RightsInv, OneRight
<1>. QED
  BY <1>1, <1>2, <1>3 DEF OthersMayOrder, MayOrder

\* The right for t's purchase goes with task t, when that is taken and dropped.
LEMMA RightDequeued ==
    ASSUME TypeOK, RightsInv, NEW t \in Task, t.kind = "send", queue[t] > 0,
           queue' = [queue EXCEPT ![t] = @ - 1],
           \A v \in Worker, y \in Tx : Carries(v, y)' <=> Carries(v, y)
    PROVE  OthersMayOrder(t.tx) /\ ~MayOrder(t.tx)'
<1>1. \A u \in Task : u # t => queue'[u] = queue[u]
  BY DEF TypeOK
<1>2. \A y \in Tx : y # t.tx => (Queued(y)' <=> Queued(y))
  BY <1>1 DEF Queued
<1>3. queue[t] = 1 /\ queue'[t] = 0
  BY DEF TypeOK, RightsInv, OneRight
<1>4. \A u \in Task : u.kind = "send" /\ u.tx = t.tx /\ u # t => ~(queue[u] > 0)
  BY DEF RightsInv, OneRight
<1>5. ~Queued(t.tx)'
  BY <1>1, <1>3, <1>4 DEF Queued
<1>6. Queued(t.tx) /\ t.tx \in Tx
  BY TaskFacts DEF Queued
<1>7. \A v \in Worker : ~Carries(v, t.tx)
  BY <1>6 DEF RightsInv, OneRight
<1>. QED
  BY <1>2, <1>5, <1>6, <1>7 DEF OthersMayOrder, MayOrder

\* The right for t's purchase passes from task t to the worker that takes it.
LEMMA RightToWorker ==
    ASSUME TypeOK, NEW t \in Task, t.kind = "send", queue[t] > 0,
           queue' = [queue EXCEPT ![t] = @ - 1], NEW w \in Worker,
           \A v \in Worker, y \in Tx :
              Carries(v, y)' <=> (v = w /\ y = t.tx) \/ (v # w /\ Carries(v, y)),
           \A y \in Tx : ~Carries(w, y)
    PROVE  \A y \in Tx : MayOrder(y)' <=> MayOrder(y)
<1>1. \A u \in Task : u # t => queue'[u] = queue[u]
  BY DEF TypeOK
<1>2. \A y \in Tx : y # t.tx => (Queued(y)' <=> Queued(y))
  BY <1>1 DEF Queued
<1>3. Queued(t.tx) /\ t.tx \in Tx
  BY TaskFacts DEF Queued
<1>4. Carries(w, t.tx)'
  BY <1>3
<1>. QED
  BY <1>2, <1>3, <1>4 DEF MayOrder

\* The right for u's purchase passes from the worker that carried it to task u.
LEMMA RightToQueue ==
    ASSUME TypeOK, NEW u \in Task, u.kind = "send",
           queue' = [queue EXCEPT ![u] = @ + 1], NEW w \in Worker, Carries(w, u.tx),
           \A v \in Worker, y \in Tx : Carries(v, y)' <=> v # w /\ Carries(v, y)
    PROVE  \A y \in Tx : MayOrder(y)' <=> MayOrder(y)
<1>1. \A t \in Task : t # u => queue'[t] = queue[t]
  BY DEF TypeOK
<1>2. \A y \in Tx : y # u.tx => (Queued(y)' <=> Queued(y))
  BY <1>1 DEF Queued
<1>3. queue'[u] > 0
  BY DEF TypeOK
<1>4. Queued(u.tx)' /\ u.tx \in Tx
  BY <1>3, TaskFacts DEF Queued
<1>5. \A y \in Tx : Carries(w, y) => y = u.tx
  BY DEF Carries
<1>. QED
  BY <1>2, <1>4, <1>5 DEF MayOrder

\* What a step that is no commit does to the rights to order: nothing; it gives one up;
\* or it uses one.
RightsSettle ==
    \/ orders' = orders /\ \A y \in Tx : MayOrder(y)' <=> MayOrder(y)
    \/ \E x \in Tx : OthersMayOrder(x) /\ ~MayOrder(x)' /\ orders' = orders
    \/ \E x \in Tx : /\ MayOrder(x) /\ OthersMayOrder(x) /\ ~MayOrder(x)'
                     /\ orders' = [orders EXCEPT ![x] = @ + 1]

\* The right is handed on, given up or used by the steps around the sending.
LEMMA SendingStep ==
    ASSUME TypeOK, WorkersInv, RightsInv, NEW w \in Worker,
           \/ \E t \in Task : StartSend(w, t) \/ ReadFails(w, t)
           \/ PreparePublish(w) \/ AnswerLost(w) \/ OrderRefused(w) \/ OrderRefusedForNow(w)
           \/ \E reply \in Replies : OrderAccepted(w, reply)
           \/ Crash(w)
    PROVE  RightsSettle
<1> USE DEF TypeOK, Take, Hold, Enqueue, Done, Goto, DatabaseFault, shop, keys, locals, outside,
            UpdatePc, PreparePc, SendPc, Idle
<1>1. ASSUME NEW t \in Task, StartSend(w, t)
      PROVE  RightsSettle
  <2>1. /\ t.kind = "send" /\ queue[t] > 0 /\ queue' = [queue EXCEPT ![t] = @ - 1]
        /\ t.tx \in Tx /\ orders' = orders /\ pc[w] = Idle
    BY <1>1, TaskFacts DEF StartSend
  <2>2. CASE db[t.tx] = "SENDING"
    <3>1. \A v \in Worker, y \in Tx :
              Carries(v, y)' <=> (v = w /\ y = t.tx) \/ (v # w /\ Carries(v, y))
      BY <1>1, <2>2 DEF StartSend, Carries
    <3>2. \A y \in Tx : ~Carries(w, y)
      BY <2>1 DEF Carries
    <3>. QED
      BY <2>1, <3>1, <3>2, RightToWorker DEF RightsSettle
  <2>3. CASE db[t.tx] # "SENDING"
    <3>1. \A v \in Worker, y \in Tx : Carries(v, y)' <=> Carries(v, y)
      BY <1>1, <2>3 DEF StartSend, Carries
    <3>. QED
      BY <2>1, <3>1, RightDequeued DEF RightsSettle
  <2>. QED
    BY <2>2, <2>3
<1>2. ASSUME NEW t \in Task, ReadFails(w, t)
      PROVE  RightsSettle
  <2>1. /\ queue[t] > 0 /\ queue' = [queue EXCEPT ![t] = @ - 1]
        /\ t.tx \in Tx /\ orders' = orders
    BY <1>2, TaskFacts DEF ReadFails
  <2>2. \A v \in Worker, y \in Tx : Carries(v, y)' <=> Carries(v, y)
    BY <1>2 DEF ReadFails, Carries
  <2>3. CASE t.kind = "send"
    BY <2>1, <2>2, <2>3, RightDequeued DEF RightsSettle
  <2>4. CASE t.kind # "send"
    <3>1. RightsUntouched
      BY <2>1, <2>2, <2>4 DEF RightsUntouched
    <3>. QED
      BY <2>1, <3>1, UntouchedRights DEF RightsSettle
  <2>. QED
    BY <2>3, <2>4
<1>3. ASSUME PreparePublish(w)
      PROVE  RightsSettle
  <2> DEFINE u == [task[w] EXCEPT !.kind = "send"]
  <2>1. task[w] \in Task
    BY <1>3 DEF PreparePublish
  <2>2. u \in Task /\ u.kind = "send" /\ u.tx = task[w].tx
    BY <2>1 DEF Task
  <2>3. queue' = [queue EXCEPT ![u] = @ + 1] /\ orders' = orders /\ Carries(w, u.tx)
    BY <1>3, <2>2 DEF PreparePublish, Carries
  <2>4. \A v \in Worker, y \in Tx : Carries(v, y)' <=> v # w /\ Carries(v, y)
    BY <1>3 DEF PreparePublish, Carries
  <2> HIDE DEF u
  <2>. QED
    BY <2>2, <2>3, <2>4, RightToQueue DEF RightsSettle
<1>4. ASSUME OrderRefusedForNow(w)
      PROVE  RightsSettle
  <2>1. task[w] \in Task /\ task[w].kind = "send"
    BY <1>4 DEF OrderRefusedForNow, WorkersInv, WorkerInv
  <2>2. queue' = [queue EXCEPT ![task[w]] = @ + 1] /\ orders' = orders /\ Carries(w, task[w].tx)
    BY <1>4 DEF OrderRefusedForNow, Carries
  <2>3. \A v \in Worker, y \in Tx : Carries(v, y)' <=> v # w /\ Carries(v, y)
    BY <1>4 DEF OrderRefusedForNow, Carries
  <2>. QED
    BY <2>1, <2>2, <2>3, RightToQueue DEF RightsSettle
<1>5. ASSUME \/ AnswerLost(w) \/ OrderRefused(w)
             \/ \E reply \in Replies : OrderAccepted(w, reply)
      PROVE  RightsSettle
  <2>1. PICK x \in Tx : x = task[w].tx /\ Carries(w, x)
    BY <1>5, TaskFacts DEF AnswerLost, OrderRefused, OrderAccepted, Carries
  <2>2. \A v \in Worker, y \in Tx : Carries(v, y)' <=> v # w /\ Carries(v, y)
    BY <1>5 DEF AnswerLost, OrderRefused, OrderAccepted, Carries
  <2>3. queue' = queue /\ orders' \in {orders, [orders EXCEPT ![x] = @ + 1]}
    BY <1>5, <2>1 DEF AnswerLost, OrderRefused, OrderAccepted
  <2>4. MayOrder(x)
    BY <2>1 DEF MayOrder
  <2>5. OthersMayOrder(x) /\ ~MayOrder(x)'
    BY <2>1, <2>2, <2>3, RightDropped
  <2>. QED
    BY <2>1, <2>3, <2>4, <2>5 DEF RightsSettle
<1>6. ASSUME Crash(w)
      PROVE  RightsSettle
  <2>1. task[w] \in Task /\ task[w].tx \in Tx /\ orders' = orders
    BY <1>6, TaskFacts DEF Crash
  <2>2. \A t \in Task : t.kind = "send" => queue'[t] = queue[t]
    BY <1>6, <2>1 DEF Crash, AcksLate
  <2>3. \A v \in Worker, y \in Tx : Carries(v, y)' <=> v # w /\ Carries(v, y)
    BY <1>6 DEF Crash, Carries
  <2>4. CASE Carries(w, task[w].tx)
    BY <2>1, <2>2, <2>3, <2>4, RightDropped DEF RightsSettle
  <2>5. CASE ~Carries(w, task[w].tx)
    <3>1. RightsUntouched
      BY <2>1, <2>2, <2>3, <2>5 DEF RightsUntouched, Carries
    <3>. QED
      BY <2>1, <3>1, UntouchedRights DEF RightsSettle
  <2>. QED
    BY <2>4, <2>5
<1>. QED
  BY <1>1, <1>2, <1>3, <1>4, <1>5, <1>6

\* The contract's permit is a truth value.
LEMMA PermitIsBoolean ==
    ASSUME NEW x \in Tx
    PROVE  MayOrder(x) \in BOOLEAN /\ MayOrder(x)' \in BOOLEAN
BY DEF MayOrder

\* Initially nothing is paid, permitted or ordered.
LEMMA ContractInit == Init => Contract!Init
<1> SUFFICES ASSUME Init PROVE Contract!Init
  OBVIOUS
<1>1. \A x \in Tx : StageOf(db[x]) = "open"
  BY DEF Init, StageOf, Absent, PastPointOfNoReturn
<1>2. \A x \in Tx : ~MayOrder(x)
  BY DEF Init, MayOrder, Queued, Carries, Idle
<1>3. \A x \in Tx : MayOrder(x) = FALSE
  BY <1>2, PermitIsBoolean
<1>4. orders = [x \in Tx |-> 0]
  BY DEF Init
<1>. QED
  BY <1>1, <1>3, <1>4 DEF Contract!Init

\* A step in which rows move and no right changes.
LEMMA ContractRows ==
    ASSUME TypeOK, NEW x \in Tx, RowMoves(x), orders' = orders,
           \A y \in Tx : MayOrder(y)' <=> MayOrder(y)
    PROVE  [Contract!Next]_(Contract!purchase)
<1> DEFINE st == [y \in Tx |-> StageOf(db[y])]
           st2 == [y \in Tx |-> StageOf(db'[y])]
           pm == [y \in Tx |-> MayOrder(y)]
           pm2 == [y \in Tx |-> MayOrder(y)']
<1>1. pm2 = pm
  <2>1. \A y \in Tx : MayOrder(y)' = MayOrder(y)
    BY PermitIsBoolean
  <2>. QED
    BY <2>1
<1>2. \A y \in Tx : y # x => st2[y] = st[y]
  BY DEF RowMoves
<1>3. st2 = [st EXCEPT ![x] = st2[x]]
  BY <1>2
<1>4. \/ st[x] \in {"open", "paid"} /\ st2[x] \in {"open", "paid"}
      \/ st[x] \in {"open", "sending", "settled"} /\ st2[x] = "settled"
  BY DEF RowMoves
<1>5. CASE st[x] \in {"open", "paid"} /\ st2[x] \in {"open", "paid"}
  <2>1. Contract!Pay(x)
    BY <1>1, <1>3, <1>5 DEF Contract!Pay
  <2>. QED
    BY <2>1 DEF Contract!Next
<1>6. CASE st[x] \in {"open", "sending"} /\ st2[x] = "settled"
  <2>1. Contract!Settle(x)
    BY <1>1, <1>3, <1>6 DEF Contract!Settle
  <2>. QED
    BY <2>1 DEF Contract!Next
<1>7. CASE st[x] = "settled" /\ st2[x] = "settled"
  <2>1. st2 = st
    BY <1>3, <1>7
  <2>. QED
    BY <1>1, <2>1 DEF Contract!purchase
<1>. QED
  BY <1>4, <1>5, <1>6, <1>7

\* A step in which no row moves and a right may be given up or used.
LEMMA ContractRights ==
    ASSUME TypeOK, db' = db, RightsSettle
    PROVE  [Contract!Next]_(Contract!purchase)
<1> DEFINE st == [y \in Tx |-> StageOf(db[y])]
           st2 == [y \in Tx |-> StageOf(db'[y])]
           pm == [y \in Tx |-> MayOrder(y)]
           pm2 == [y \in Tx |-> MayOrder(y)']
<1>1. st2 = st
  OBVIOUS
<1>2. CASE orders' = orders /\ \A y \in Tx : MayOrder(y)' <=> MayOrder(y)
  <2>1. \A y \in Tx : MayOrder(y)' = MayOrder(y)
    BY <1>2, PermitIsBoolean
  <2>2. pm2 = pm
    BY <2>1
  <2>. QED
    BY <1>1, <1>2, <2>2 DEF Contract!purchase
<1>3. ASSUME NEW x \in Tx, OthersMayOrder(x), ~MayOrder(x)'
      PROVE  pm2 = [pm EXCEPT ![x] = FALSE]
  <2>1. \A y \in Tx : MayOrder(y)' = IF y = x THEN FALSE ELSE MayOrder(y)
    BY <1>3, PermitIsBoolean DEF OthersMayOrder
  <2>. QED
    BY <2>1
<1>4. ASSUME NEW x \in Tx, OthersMayOrder(x), ~MayOrder(x)', orders' = orders
      PROVE  Contract!Forfeit(x)
  BY <1>1, <1>3, <1>4 DEF Contract!Forfeit
<1>5. ASSUME NEW x \in Tx, MayOrder(x), OthersMayOrder(x), ~MayOrder(x)',
             orders' = [orders EXCEPT ![x] = @ + 1]
      PROVE  Contract!PlaceOrder(x)
  BY <1>1, <1>3, <1>5 DEF Contract!PlaceOrder
<1>. QED
  BY <1>2, <1>4, <1>5 DEF RightsSettle, Contract!Next

\* The write that commits a purchase issues its permit.
LEMMA ContractCommit ==
    ASSUME IInv, NEW w \in Worker, PrepareWrite(w)
    PROVE  [Contract!Next]_(Contract!purchase)
<1> USE DEF TypeOK, Done, Goto, shop, keys, locals, outside, UpdatePc, PreparePc, SendPc, Idle
<1>1. TypeOK /\ FreshInv /\ RightsInv /\ task[w].tx \in Tx
  BY TaskFacts DEF IInv, PrepareWrite
<1>2. orders' = orders
  BY DEF PrepareWrite
<1>3. CASE db[task[w].tx] \in {Absent, "SENDING"}
  <2>1. RightsUntouched /\ db' = db
    BY <1>1, <1>3 DEF PrepareWrite, RightsUntouched, Carries
  <2>. QED
    BY <1>1, <1>2, <2>1, UntouchedRights, ContractRights DEF RightsSettle
<1>4. CASE db[task[w].tx] \notin {Absent, "SENDING"}
  <2> DEFINE x == task[w].tx
             st == [y \in Tx |-> StageOf(db[y])]
             st2 == [y \in Tx |-> StageOf(db'[y])]
             pm == [y \in Tx |-> MayOrder(y)]
             pm2 == [y \in Tx |-> MayOrder(y)']
  <2>1. db[x] = "PROCESSING" /\ db' = [db EXCEPT ![x] = "SENDING"]
    BY <1>1, <1>4 DEF PrepareWrite, FreshInv, WorkerFresh
  <2>2. st[x] = "paid" /\ st2 = [st EXCEPT ![x] = "sending"]
    BY <1>1, <2>1 DEF StageOf
  <2>3. \A y \in Tx : Queued(y)' <=> Queued(y)
    BY DEF PrepareWrite, Queued
  <2>4. \A v \in Worker, y \in Tx : Carries(v, y)' <=> (v = w /\ y = x) \/ Carries(v, y)
    BY <1>1, <1>4 DEF PrepareWrite, Carries
  <2>5. \A y \in Tx : MayOrder(y)' <=> y = x \/ MayOrder(y)
    BY <2>3, <2>4 DEF MayOrder
  <2>6. \A y \in Tx : MayOrder(y)' = IF y = x THEN TRUE ELSE MayOrder(y)
    BY <2>5, PermitIsBoolean
  <2>7. pm2 = [pm EXCEPT ![x] = TRUE]
    BY <2>6
  <2>8. Contract!Commit(x)
    BY <1>2, <2>2, <2>7 DEF Contract!Commit
  <2>. QED
    BY <1>1, <2>8 DEF Contract!Next
<1>. QED
  BY <1>3, <1>4

\* Every step of the pipeline is one of the contract, or changes nothing it sees.
LEMMA ContractStep ==
    ASSUME IInv, [Next]_vars
    PROVE  [Contract!Next]_(Contract!purchase)
<1>1. TypeOK /\ WorkersInv /\ RightsInv
  BY DEF IInv
<1>2. CASE UNCHANGED vars
  <2>1. RightsUntouched /\ db' = db
    BY <1>2 DEF vars, RightsUntouched, Carries
  <2>2. RightsSettle
    BY <2>1, UntouchedRights DEF RightsSettle, RightsUntouched
  <2>. QED
    BY <1>1, <2>1, <2>2, ContractRights
<1>3. ASSUME NEW w \in Worker, PrepareWrite(w)
      PROVE  [Contract!Next]_(Contract!purchase)
  BY <1>3, ContractCommit
<1>4. CASE Next /\ RightsUntouched /\ ~\E w \in Worker : PrepareWrite(w)
  <2>1. orders' = orders /\ \A y \in Tx : MayOrder(y)' <=> MayOrder(y)
    BY <1>4, UntouchedRights DEF RightsUntouched
  <2>2. UNCHANGED db \/ \E x \in Tx : RowMoves(x)
    BY <1>4, StageStep
  <2>. QED
    BY <1>1, <2>1, <2>2, ContractRows, ContractRights DEF RightsSettle
<1>5. ASSUME NEW w \in Worker,
             \/ \E t \in Task : StartSend(w, t) \/ ReadFails(w, t)
             \/ PreparePublish(w) \/ AnswerLost(w) \/ OrderRefused(w) \/ OrderRefusedForNow(w)
             \/ \E reply \in Replies : OrderAccepted(w, reply)
             \/ Crash(w)
      PROVE  [Contract!Next]_(Contract!purchase)
  <2>1. db' = db
    BY <1>5, RightsWithoutRows
  <2>2. RightsSettle
    BY <1>1, <1>5, SendingStep
  <2>. QED
    BY <1>1, <2>1, <2>2, ContractRights
<1>. QED
  BY <1>2, <1>3, <1>4, <1>5, WhoTouchesRights

\* The pipeline implements the contract of StarsOrder: a purchase is committed once, a
\* commit issues one permit, and the permit is used for one order or given up.
THEOREM Refinement == Spec => ImplementsStarsOrder
<1>1. IInv /\ [Next]_vars => [Contract!Next]_(Contract!purchase)
  BY ContractStep
<1>. QED
  BY <1>1, ContractInit, Invariant, PTL DEF Spec, ImplementsStarsOrder, Contract!Spec

\* What the contract itself promises, whoever implements it: no purchase is ordered twice,
\* because the permit and the order together are at most one.
THEOREM ContractOrdersOnce == Contract!Spec => []Contract!OrderedOnce
<1> DEFINE Promise == Contract!TypeOK /\ Contract!PermitInv
<1>1. ASSUME Contract!Init  PROVE Promise
  <2>1. \A x \in Tx : StageOf(db[x]) = "open"
    BY <1>1, Zenon DEF Contract!Init
  <2>2. \A x \in Tx : MayOrder(x) = FALSE
    BY <1>1, Zenon DEF Contract!Init
  <2>3. orders = [x \in Tx |-> 0]
    BY <1>1 DEF Contract!Init
  <2>4. Contract!TypeOK
    BY <2>1, <2>3, PermitIsBoolean DEF Contract!TypeOK, Contract!Stage
  <2>5. Contract!PermitInv
    BY <2>1, <2>2, <2>3 DEF Contract!PermitInv
  <2> QED
    BY <2>4, <2>5
<1>2. Promise /\ [Contract!Next]_(Contract!purchase) => Promise'
  <2> SUFFICES ASSUME Promise, [Contract!Next]_(Contract!purchase)
               PROVE  Promise'
    OBVIOUS
  <2> USE DEF Contract!TypeOK, Contract!PermitInv, Contract!Stage
  <2>1. CASE UNCHANGED Contract!purchase
    BY <2>1 DEF Contract!purchase
  <2>2. CASE \E x \in Tx : Contract!Pay(x) \/ Contract!Settle(x)
    BY <2>2 DEF Contract!Pay, Contract!Settle
  <2>3. CASE \E x \in Tx : Contract!Commit(x)
    BY <2>3 DEF Contract!Commit
  <2>4. CASE \E x \in Tx : Contract!PlaceOrder(x)
    <3>1. PICK x \in Tx : Contract!PlaceOrder(x)
      BY <2>4
    <3>2. MayOrder(x) /\ orders' = [orders EXCEPT ![x] = @ + 1]
      BY <3>1 DEF Contract!PlaceOrder
    <3>3. orders[x] = 0
      BY <3>2
    <3>4. \A y \in Tx : MayOrder(y)' = IF y = x THEN FALSE ELSE MayOrder(y)
      BY <3>1, Zenon DEF Contract!PlaceOrder
    <3>5. \A y \in Tx : StageOf(db[y])' = StageOf(db[y])
      BY <3>1, Zenon DEF Contract!PlaceOrder
    <3>6. Contract!TypeOK'
      BY <3>2, <3>5, PermitIsBoolean
    <3>7. \A y \in Tx : orders'[y] = IF y = x THEN 1 ELSE orders[y]
      BY <3>2, <3>3
    <3>8. StageOf(db[x]) \notin {"open", "paid"}
      BY <3>2
    <3>9. Contract!PermitInv'
      <4> SUFFICES ASSUME NEW y \in Tx
                   PROVE  /\ StageOf(db[y])' \in {"open", "paid"} => ~MayOrder(y)' /\ orders'[y] = 0
                          /\ MayOrder(y)' => orders'[y] = 0
                          /\ orders'[y] <= 1
        OBVIOUS
      <4>1. StageOf(db[y])' = StageOf(db[y])
        BY <3>5
      <4>2. CASE y = x
        <5>1. MayOrder(y)' = FALSE /\ orders'[y] = 1
          BY <3>4, <3>7, <4>2
        <5> QED
          BY <5>1, <4>1, <4>2, <3>8
      <4>3. CASE y # x
        <5>1. MayOrder(y)' = MayOrder(y) /\ orders'[y] = orders[y]
          BY <3>4, <3>7, <4>3
        <5>2. /\ StageOf(db[y]) \in {"open", "paid"} => ~MayOrder(y) /\ orders[y] = 0
              /\ MayOrder(y) => orders[y] = 0
              /\ orders[y] <= 1
          OBVIOUS
        <5> QED
          BY <5>1, <5>2, <4>1
      <4> QED
        BY <4>2, <4>3
    <3> QED
      BY <3>6, <3>9
  <2>5. CASE \E x \in Tx : Contract!Forfeit(x)
    BY <2>5 DEF Contract!Forfeit
  <2> QED
    BY <2>1, <2>2, <2>3, <2>4, <2>5 DEF Contract!Next
<1>3. Promise => Contract!OrderedOnce
  BY DEF Contract!PermitInv, Contract!OrderedOnce
<1>. QED
  BY <1>1, <1>2, <1>3, PTL DEF Contract!Spec
=============================================================================
