---------------------------- MODULE PollingProofs ----------------------------
(***************************************************************************)
(* Proofs about Polling, for any transactions, workers, polls and bounds:  *)
(* next to the polls and to the operator's command the pipeline keeps its  *)
(* inductive invariant, and still implements the contract of StarsOrder.   *)
(*                                                                         *)
(* A step of Polling is a step of the pipeline (PipelineGoesOn), or it     *)
(* brings news: it writes keys, counters and update tasks, and leaves the  *)
(* rows, the workers, the locks and the rights to order alone (NewsComes). *)
(* IInv says nothing of keys and of update tasks but their types.          *)
(***************************************************************************)
EXTENDS Polling, PaymentPipelineProofs

-----------------------------------------------------------------------------
(* The two sorts of steps.                                                  *)

\* Nothing moves but news.
NewsComes ==
    /\ UNCHANGED <<db, created, lock, pc, task, locals, orders, order>>
    /\ \A t \in Task : t.kind = "send" => queue'[t] = queue[t]

\* News leaves the invariant of the pipeline as it is.
LEMMA NewsKeepsInv ==
    ASSUME IInv, TypeOK', NewsComes
    PROVE  IInv'
<1> USE DEF NewsComes, locals
<1>1. WorkersInv'
  BY DEF IInv, WorkersInv, WorkerInv, NewStatus
<1>2. FreshInv'
  BY DEF IInv, FreshInv, WorkerFresh, NewStatus
<1>3. RightsOnlyFade
  BY DEF IInv, TypeOK, RightsOnlyFade, Carries
<1>4. RightsInv'
  BY <1>3, RightsKept DEF IInv
<1>. QED
  BY <1>1, <1>2, <1>4 DEF IInv

\* So it does the purchases of the contract.
LEMMA NewsKeepsContract ==
    ASSUME TypeOK, NewsComes
    PROVE  [Contract!Next]_(Contract!purchase)
<1>1. RightsUntouched /\ db' = db
  BY DEF NewsComes, RightsUntouched, Carries
<1>2. RightsSettle
  BY <1>1, UntouchedRights DEF RightsSettle, RightsUntouched
<1>. QED
  BY <1>1, <1>2, ContractRights

\* A task that takes a status is no sending.
LEMMA UpdateTasks ==
    ASSUME NEW x \in Tx
    PROVE  /\ UpdateTask(x) \in Task /\ UpdateTask(x).kind = "update"
           /\ [kind |-> "update", tx |-> x, payload |-> TRUE] \in Task
BY DEF UpdateTask, Task

-----------------------------------------------------------------------------
(* Which step is of which sort.                                             *)

\* The steps taken over from the pipeline are its steps.
LEMMA PipelineGoesOn ==
    ASSUME \/ PipelineStep
           \/ \E w \in Worker : SaveFragmentStatusWithRecord(w)
           \/ \E x \in Tx : FragmentWebhookWithRecord(x)
    PROVE  Next
BY DEF PipelineStep, SaveFragmentStatusWithRecord, FragmentWebhookWithRecord, Next,
       Environment, SendStep

\* The others bring news.
LEMMA PollsBringNews ==
    ASSUME TypeOK, NEW x \in Tx,
           \/ PaymentAdvances(x) \/ PayPearWebhook(x) \/ MakeRecord(x) \/ LoseRecordTask(x)
           \/ PayPearPoll(x) \/ FragmentPoll(x) \/ CommandLists(x) \/ PollFails(x)
    PROVE  NewsComes
<1> USE DEF NewsComes, vars, shop, keys, locals, outside
<1>1. ASSUME \/ PaymentAdvances(x) \/ MakeRecord(x) \/ LoseRecordTask(x) \/ PollFails(x)
             \/ CommandLists(x)
      PROVE  NewsComes
  BY <1>1 DEF PaymentAdvances, MakeRecord, LoseRecordTask, PollFails, CommandLists, Lists
<1>2. ASSUME PayPearWebhook(x)
      PROVE  NewsComes
  BY <1>2, UpdateTasks DEF PayPearWebhook, PaymentWebhook, TypeOK
<1>3. ASSUME PayPearPoll(x)
      PROVE  NewsComes
  <2>1. CASE PayPearPushes(x)
    BY <2>1, UpdateTasks DEF PayPearPushes, LeaveUnder, Enqueue, TypeOK
  <2>2. CASE PayPearLists(x) \/ PayPearAnswers(x)
    BY <2>2 DEF PayPearLists, PayPearAnswers
  <2>. QED
    BY <1>3, <2>1, <2>2 DEF PayPearPoll
<1>4. ASSUME FragmentPoll(x)
      PROVE  NewsComes
  <2>1. CASE FragmentPushes(x)
    BY <2>1, UpdateTasks DEF FragmentPushes, LeaveUnder, Enqueue, TypeOK
  <2>2. CASE FragmentLists(x) \/ DropInquiry(x) \/ FragmentAnswers(x)
    BY <2>2 DEF FragmentLists, Lists, DropInquiry, FragmentAnswers
  <2>. QED
    BY <1>4, <2>1, <2>2 DEF FragmentPoll
<1>. QED
  BY <1>1, <1>2, <1>3, <1>4

-----------------------------------------------------------------------------
(* Types.                                                                   *)

\* What a poll is told translates into what the keys can hold.
LEMMA AnswersAreNews ==
    /\ \A raw : FromPayPear(raw) \in PaymentNews
    /\ \A inquiry, raw : NextStatus(inquiry, raw) \subseteq FragmentNews \cup {Listed}
BY DEF FromPayPear, FromFragment, PaymentNews, FragmentNews, NextStatus, decide_next_status

\* A step of the pipeline keeps the polls' types.
LEMMA PollsStayTyped ==
    ASSUME PollingTypeOK, TypeOK',
           \/ PipelineStep
           \/ \E w \in Worker : SaveFragmentStatusWithRecord(w)
           \/ \E x \in Tx : FragmentWebhookWithRecord(x)
    PROVE  PollingTypeOK'
<1>1. CASE PipelineStep
  BY <1>1 DEF PipelineStep, pollVars, PollingTypeOK
<1>2. ASSUME NEW w \in Worker, SaveFragmentStatusWithRecord(w)
      PROVE  PollingTypeOK'
  BY <1>2 DEF SaveFragmentStatusWithRecord, AnnounceOrder, pollVars, PollingTypeOK
<1>3. ASSUME NEW x \in Tx, FragmentWebhookWithRecord(x)
      PROVE  PollingTypeOK'
  BY <1>3 DEF FragmentWebhookWithRecord, AnnounceOrder, PollingTypeOK
<1>. QED
  BY <1>1, <1>2, <1>3

\* What an inquiry of the Fragment poll holds.
LEMMA InquiryFacts ==
    ASSUME PollingTypeOK, NEW x \in Tx, fragPoll[x] # NotListed
    PROVE  /\ fragPoll[x] \in Inquiry
           /\ fragPoll[x].push # Listed => fragPoll[x].push \in FragmentNews
BY DEF PollingTypeOK, Inquiry

\* A step that brings news keeps all types.
LEMMA NewsIsTyped ==
    ASSUME PollingTypeOK, NEW x \in Tx,
           \/ PaymentAdvances(x) \/ PayPearWebhook(x) \/ MakeRecord(x) \/ LoseRecordTask(x)
           \/ PayPearPoll(x) \/ FragmentPoll(x) \/ CommandLists(x) \/ PollFails(x)
    PROVE  PollingTypeOK'
<1> USE DEF PollingTypeOK
<1>1. CASE PaymentAdvances(x)
  <2>1. \A p \in DOMAIN PaymentMoves : PaymentMoves[p] \subseteq PayPearStatus
    BY DEF PaymentMoves, PayPearStatus
  <2>. QED
    BY <1>1, <2>1 DEF PaymentAdvances, vars, TypeOK
<1>2. CASE MakeRecord(x)
  BY <1>2 DEF MakeRecord, vars, TypeOK
<1>3. CASE LoseRecordTask(x)
  BY <1>3 DEF LoseRecordTask, TypeOK, shop, keys, locals, outside
<1>4. CASE PollFails(x)
  BY <1>4 DEF PollFails, TypeOK, shop, keys, locals, outside
<1>5. CASE PayPearWebhook(x)
  <2>1. PICK raw \in PastReports[payment[x]] : PaymentWebhook(x, <<"paypear", raw>>)
    BY <1>5 DEF PayPearWebhook
  <2>2. Translate(<<"paypear", raw>>) \in PaymentNews
    BY Translations
  <2>3. TypeOK'
    BY <2>1, <2>2, UpdateTasks DEF PaymentWebhook, TypeOK, shop, keys, locals, outside
  <2>. QED
    BY <1>5, <2>3 DEF PayPearWebhook, pollVars
<1>6. CASE PayPearLists(x)
  BY <1>6 DEF PayPearLists, vars, TypeOK
<1>7. CASE PayPearAnswers(x)
  BY <1>7, AnswersAreNews DEF PayPearAnswers, vars, TypeOK
<1>8. CASE PayPearPushes(x)
  <2>1. payPoll[x] \in PaymentNews
    BY <1>8 DEF PayPearPushes
  <2>2. payKey' \in [Tx -> PaymentNews \cup {NoKey}]
    BY <1>8, <2>1 DEF PayPearPushes, LeaveUnder, TypeOK
  <2>3. queue' \in [Task -> Nat]
    <3>1. queue' = [queue EXCEPT ![UpdateTask(x)] = @ + 1]
      BY <1>8 DEF PayPearPushes, LeaveUnder, Enqueue
    <3>2. UpdateTask(x) \in Task /\ queue \in [Task -> Nat]
      BY UpdateTasks DEF TypeOK
    <3>. QED
      BY <3>1, <3>2
  <2>. QED
    BY <1>8, <2>2, <2>3 DEF PayPearPushes, TypeOK, shop, keys, locals, outside
<1>9. CASE FragmentLists(x) \/ CommandLists(x)
  <2>1. PICK who \in {"fragment", "command"} : Lists(x, who) /\ db[x] # Absent
    BY <1>9 DEF FragmentLists, CommandLists, WaitingStatuses, Absent
  <2>2. [by |-> who, listed |-> db[x], push |-> Listed] \in Inquiry
    BY <2>1 DEF Inquiry, TypeOK
  <2>. QED
    BY <2>1, <2>2 DEF Lists, vars, TypeOK
<1>10. CASE DropInquiry(x)
  BY <1>10 DEF DropInquiry, vars, TypeOK
<1>11. CASE FragmentAnswers(x)
  <2>1. fragPoll[x] \in Inquiry
    BY <1>11, InquiryFacts DEF FragmentAnswers
  <2>2. PICK status \in FragmentNews : fragPoll' = [fragPoll EXCEPT ![x].push = status]
    BY <1>11, AnswersAreNews DEF FragmentAnswers
  <2>3. [fragPoll[x] EXCEPT !.push = status] \in Inquiry
    BY <2>1, <2>2 DEF Inquiry
  <2>4. fragPoll' = [fragPoll EXCEPT ![x] = [fragPoll[x] EXCEPT !.push = status]]
    BY <2>2
  <2>. QED
    BY <1>11, <2>3, <2>4 DEF FragmentAnswers, vars, TypeOK
<1>12. CASE FragmentPushes(x)
  <2>1. fragPoll[x].push \in FragmentNews
    BY <1>12, InquiryFacts DEF FragmentPushes
  <2>2. fragKey' \in [Tx -> FragmentNews \cup {NoKey}]
    BY <1>12, <2>1 DEF FragmentPushes, LeaveUnder, TypeOK
  <2>3. queue' \in [Task -> Nat]
    <3>1. queue' = [queue EXCEPT ![UpdateTask(x)] = @ + 1]
      BY <1>12 DEF FragmentPushes, LeaveUnder, Enqueue
    <3>2. UpdateTask(x) \in Task /\ queue \in [Task -> Nat]
      BY UpdateTasks DEF TypeOK
    <3>. QED
      BY <3>1, <3>2
  <2>. QED
    BY <1>12, <2>2, <2>3 DEF FragmentPushes, TypeOK, shop, keys, locals, outside
<1>. QED
  BY <1>1, <1>2, <1>3, <1>4, <1>5, <1>6, <1>7, <1>8, <1>9, <1>10, <1>11, <1>12
  DEF PayPearPoll, FragmentPoll

-----------------------------------------------------------------------------
(* The invariant, and the contract.                                         *)

\* The invariant holds at first ...
LEMMA PollingInitially == PollingInit => PollingInv
<1>1. PollingInit => IInv
  BY Initially DEF PollingInit
<1>2. PollingInit /\ IInv => PollingTypeOK
  BY DEF PollingInit, PollingTypeOK, IInv, PayPearStatus
<1>. QED
  BY <1>1, <1>2 DEF PollingInv

\* ... every step keeps it, and is one of the contract.
LEMMA PollingStep ==
    ASSUME PollingInv, [PollingNext]_allVars
    PROVE  PollingInv' /\ [Contract!Next]_(Contract!purchase)
<1>1. PollingTypeOK /\ TypeOK /\ IInv
  BY DEF PollingInv, PollingTypeOK
<1>2. CASE UNCHANGED allVars
  <2>1. UNCHANGED <<vars, payment, recordTask, record, payPoll, fragPoll>>
    BY <1>2 DEF allVars, pollVars
  <2>2. IInv' /\ [Contract!Next]_(Contract!purchase)
    BY <1>1, <2>1, Inductive, ContractStep
  <2>. QED
    BY <1>1, <2>1, <2>2 DEF PollingInv, PollingTypeOK, IInv
<1>3. CASE \/ PipelineStep
           \/ \E w \in Worker : SaveFragmentStatusWithRecord(w)
           \/ \E x \in Tx : FragmentWebhookWithRecord(x)
  <2>1. Next
    BY <1>3, PipelineGoesOn
  <2>2. IInv' /\ [Contract!Next]_(Contract!purchase)
    BY <1>1, <2>1, Inductive, ContractStep
  <2>3. PollingTypeOK'
    BY <1>1, <1>3, <2>2, PollsStayTyped DEF IInv
  <2>. QED
    BY <2>2, <2>3 DEF PollingInv
<1>4. ASSUME NEW x \in Tx,
             \/ PaymentAdvances(x) \/ PayPearWebhook(x) \/ MakeRecord(x) \/ LoseRecordTask(x)
             \/ PayPearPoll(x) \/ FragmentPoll(x) \/ CommandLists(x) \/ PollFails(x)
      PROVE  PollingInv' /\ [Contract!Next]_(Contract!purchase)
  <2>1. NewsComes
    BY <1>1, <1>4, PollsBringNews
  <2>2. PollingTypeOK' /\ TypeOK'
    BY <1>1, <1>4, NewsIsTyped DEF PollingTypeOK
  <2>3. IInv'
    BY <1>1, <2>1, <2>2, NewsKeepsInv
  <2>. QED
    BY <1>1, <2>1, <2>2, <2>3, NewsKeepsContract DEF PollingInv
<1>. QED
  BY <1>2, <1>3, <1>4 DEF PollingNext

\* Whatever the polls and the command push, and whenever, the pipeline keeps its
\* inductive invariant.
THEOREM PollingInvariant == PollingSpec => []PollingInv
<1>1. PollingInv /\ [PollingNext]_allVars => PollingInv'
  BY PollingStep
<1>. QED
  BY <1>1, PollingInitially, PTL DEF PollingSpec

\* No push of a poll or of the command, next to whatever webhooks and tasks do, makes
\* send_stars_task place a second order.
THEOREM NoSecondOrderWithPolls == PollingSpec => []AtMostOneOrder
<1>1. PollingInv => AtMostOneOrder
  BY DEF PollingInv, IInv, RightsInv
<1>. QED
  BY <1>1, PollingInvariant, PTL

\* The pipeline with its polls implements the contract of StarsOrder: a poll may tell a
\* purchase's status, never commit it or issue a permit.
THEOREM RefinementWithPolls == PollingSpec => ImplementsStarsOrder
<1>1. PollingInit => Contract!Init
  BY ContractInit DEF PollingInit
<1>2. PollingInv /\ [PollingNext]_allVars => [Contract!Next]_(Contract!purchase)
  BY PollingStep
<1>. QED
  BY <1>1, <1>2, PollingInvariant, PTL DEF PollingSpec, ImplementsStarsOrder, Contract!Spec

\* Next to the polls, too, a row changes as the matrix says and never comes back from
\* the point of no return: the polls write no row.
THEOREM RowsWithPolls == PollingSpec => StatusFollowsMatrix /\ NoWayBack
<1>1. ASSUME PollingInv, PollingNext
      PROVE  StatusMoves /\ PastIsPast
  <2>1. IInv /\ TypeOK
    BY <1>1 DEF PollingInv, PollingTypeOK
  <2>2. Next \/ NewsComes
    BY <1>1, <2>1, PipelineGoesOn, PollsBringNews DEF PollingNext
  <2>3. CASE Next
    BY <2>1, <2>3, RowStep
  <2>4. CASE NewsComes
    BY <2>4 DEF NewsComes, StatusMoves, PastIsPast
  <2>. QED
    BY <2>2, <2>3, <2>4
<1>2. PollingInv /\ [PollingNext]_allVars => [StatusMoves]_vars /\ [PastIsPast]_vars
  BY <1>1 DEF allVars
<1>. QED
  BY <1>2, PollingInvariant, PTL DEF PollingSpec, StatusFollowsMatrix, NoWayBack
=============================================================================
