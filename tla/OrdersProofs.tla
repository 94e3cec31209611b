---------------------------- MODULE OrdersProofs ----------------------------
(***************************************************************************)
(* Proofs about the parts of MCOrders, for any users, orders, payments,    *)
(* tasks and bounds. The parts share no variable, so each has an invariant *)
(* of its own and PartsInv is all of them:                                 *)
(*                                                                         *)
(*   MessageInv   whoever is at the message has the lock, and has read no  *)
(*                older status than is shown (OwedInv, on top of it: what  *)
(*                the message still lacks is on its way, or was never      *)
(*                announced),                                              *)
(*   CreationInv  the lock goes with the handler, or was left behind by a  *)
(*                restart or an answer or a call of Redis that failed; a   *)
(*                handler that has a payment has a row for it, and the     *)
(*                payments that were opened, with the one that may still   *)
(*                be, are no more than the taps,                           *)
(*   CallsInv     an order's stars were taken once, and then its call is   *)
(*                over or is in the one error that is not repeated,        *)
(*   SendingInv   each coroutine knows whom it has served and whom it is   *)
(*                still to serve (JobOK); and the form, the inbox and the  *)
(*                users agree with it.                                     *)
(*                                                                         *)
(* OrdersInv and the properties of the parts follow from PartsInv          *)
(* (PartsMean), and what is said in a step from it and the step            *)
(* (Justified).                                                            *)
(***************************************************************************)
EXTENDS MCOrders, FiniteSetTheorems, TLAPS

-----------------------------------------------------------------------------
(* The message of an order (OrderMessage).                                  *)

\* A status that is written makes the history longer, or leaves it as it is.
LEMMA WriteGrows ==
    ASSUME OrderMessageTypeOK, NEW s \in StatusString,
           Write(s) \/ (s # Row /\ history' = Append(history, s)) \/ history' = history
    PROVE  /\ history' \in Seq(StatusString) /\ Now' \in Nat /\ Now \in Nat /\ Now' >= Now
           /\ history' = history \/ history' = Append(history, s)
<1>1. history' = history \/ history' = Append(history, s)
  BY DEF Write
<1> QED  BY <1>1 DEF OrderMessageTypeOK, Now

\* At first no task holds the lock.
LEMMA MessageInit == Init => MessageInv
BY OrderMessageAssumption
   DEF Init, MessageInv, OrderMessageTypeOK, OneEditor, Now, Pc, Holding, Ended, StatusString,
       ALL_STATUSES

\* The writers of the row.
Writes ==
    \/ \E s \in News : SetStatusAndDie(s) \/ \E t \in Task : SetStatus(t, s)
    \/ SetSending
    \/ \E s \in Typed : SaveForm(s)

\* A writer leaves the message alone, and sets no task to work on it.
LEMMA WritesKeepMessage ==
    ASSUME MessageInv, Writes
    PROVE  MessageInv' /\ shown' = shown
<1> USE DEF MessageInv
<1>1. PICK s \in StatusString :
         Write(s) \/ (s # Row /\ history' = Append(history, s)) \/ history' = history
  <2>1. News \cup Typed \cup {"SENDING"} \subseteq StatusString
    BY OrderMessageAssumption
       DEF StatusString, ALL_STATUSES, PaymentNews, FragmentNews, Unrecognised
  <2> QED  BY <2>1 DEF Writes, SetStatusAndDie, SetStatus, WriteFails, SetSending, SaveForm
<1>2. history' \in Seq(StatusString) /\ Now' \in Nat /\ Now' >= Now /\ Now \in Nat
  BY <1>1, WriteGrows
<1>3. UNCHANGED <<shown, read, lock>>
  BY DEF Writes, SetStatusAndDie, SetStatus, SetSending, SaveForm
<1>4. /\ faults' \in Nat /\ deaths' \in Nat /\ forms' \subseteq Nat
  <2>1. faults' \in {faults, faults + 1} /\ deaths' \in {deaths, deaths + 1}
        /\ forms' \in {forms, forms \cup {Now + 1}}
    BY DEF Writes, SetStatusAndDie, SetStatus, WriteFails, SetSending, SaveForm
  <2> QED  BY <1>2, <2>1 DEF OrderMessageTypeOK
<1>5. /\ pc' \in [Task -> Pc]
      /\ \A t \in Task : pc'[t] \in Holding => pc'[t] = pc[t]
  <2>1. ASSUME NEW t \in Task, NEW new \in News, SetStatus(t, new)
        PROVE  pc' = [pc EXCEPT ![t] = "queued"] /\ "queued" \in Pc \ Holding
    BY <2>1 DEF SetStatus, Pc, Holding
  <2>2. pc' = pc \/ \E t \in Task, new \in News : SetStatus(t, new)
    BY DEF Writes, SetStatusAndDie, SetSending, SaveForm
  <2> QED  BY <2>1, <2>2 DEF OrderMessageTypeOK
<1>6. OrderMessageTypeOK'
  BY <1>2, <1>3, <1>4, <1>5 DEF OrderMessageTypeOK
<1>7. OneEditor'
  BY <1>2, <1>3, <1>5 DEF OrderMessageTypeOK, OneEditor, Holding
<1> QED  BY <1>3, <1>6, <1>7

\* A task that starts, or has nothing to do with the message.
LEMMA StartKeepsMessage ==
    ASSUME MessageInv,
           LockRunsOut \/ \E t \in Task : Start(t) \/ LeaveAsDuplicate(t) \/ Redeliver(t)
    PROVE  MessageInv' /\ shown' = shown
<1> USE DEF MessageInv
<1>1. CASE LockRunsOut
  BY <1>1, OrderMessageAssumption DEF LockRunsOut, OrderMessageTypeOK, OneEditor, Now
<1>2. ASSUME NEW t \in Task, Start(t)  PROVE MessageInv' /\ shown' = shown
  BY <1>2, OrderMessageAssumption DEF Start, OrderMessageTypeOK, OneEditor, Now, Pc, Holding
<1>3. ASSUME NEW t \in Task, LeaveAsDuplicate(t) \/ Redeliver(t)
      PROVE  MessageInv' /\ shown' = shown
  BY <1>3 DEF LeaveAsDuplicate, Redeliver, OrderMessageTypeOK, OneEditor, Now, Pc, Holding, Ended
<1> QED  BY <1>1, <1>2, <1>3

\* A task that reads under the lock reads the newest status.
LEMMA ReadKeepsMessage ==
    ASSUME MessageInv, NEW t \in Task, Read(t)
    PROVE  MessageInv' /\ shown' = shown
<1> USE DEF MessageInv
<1>1. Now \in Nat /\ Now' = Now /\ shown \in 1..Now
  BY DEF Read, OrderMessageTypeOK, Now
<1>2. OrderMessageTypeOK'
  BY <1>1 DEF Read, OrderMessageTypeOK, Pc, Holding
<1>3. OneEditor'
  BY <1>1 DEF Read, OrderMessageTypeOK, OneEditor, Holding
<1> QED  BY <1>2, <1>3 DEF Read

\* A task that lets the lock go, whatever it has shown, has shown nothing older, and no
\* other task is at the message.
LEMMA EndKeepsMessage ==
    ASSUME MessageInv, NEW t \in Task, pc[t] \in Holding,
           NEW how \in Pc \ Holding, pc' = [pc EXCEPT ![t] = how],
           lock' \in {Free, Dead}, UNCHANGED <<history, forms, read>>,
           shown' = shown \/ (pc[t] = "edit" /\ shown' = read[t]),
           faults' \in Nat, deaths' \in Nat
    PROVE  MessageInv' /\ shown' >= shown
<1> USE DEF MessageInv
<1>1. lock = t /\ Now' = Now /\ Now \in Nat
  BY DEF OneEditor, OrderMessageTypeOK, Now
<1>2. shown' \in 1..Now /\ shown' >= shown
  BY <1>1 DEF OneEditor, OrderMessageTypeOK
<1>3. \A other \in Task : pc'[other] \notin Holding
  BY <1>1 DEF OneEditor, OrderMessageTypeOK
<1>4. OrderMessageTypeOK'
  BY <1>1, <1>2 DEF OrderMessageTypeOK
<1>5. OneEditor'
  BY <1>3 DEF OneEditor, Holding
<1> QED  BY <1>2, <1>4, <1>5

\* The ways a task ends.
LEMMA EndingsKeepMessage ==
    ASSUME MessageInv, NEW t \in Task,
           ReadFails(t) \/ Edit(t) \/ EditAgain(t) \/ EditRefused(t) \/ Dies(t)
    PROVE  MessageInv' /\ shown' >= shown
<1>1. faults \in Nat /\ deaths \in Nat
  BY DEF MessageInv, OrderMessageTypeOK
<1>2. {"queued", "gave up", "updated", "dead", "lost"} \subseteq Pc \ Holding
  BY DEF Pc, Holding, Ended
<1>3. pc[t] \in Holding
  BY DEF ReadFails, Edit, EditAgain, EditRefused, Dies, Holding
<1>4. \E how \in Pc \ Holding : pc' = [pc EXCEPT ![t] = how]
  <2>1. CASE ReadFails(t)
    <3>1. PICK how \in {"queued", "gave up"} : End(t, how)
      BY <2>1 DEF ReadFails
    <3> QED  BY <3>1, <1>2 DEF End
  <2>2. CASE Edit(t) \/ EditAgain(t) \/ EditRefused(t)
    <3>1. \E how \in {"queued", "gave up", "updated"} : End(t, how)
      BY <2>2 DEF Edit, EditAgain, EditRefused
    <3> QED  BY <3>1, <1>2 DEF End
  <2>3. CASE Dies(t)
    <3>1. \E how \in {"dead", "lost"} : pc' = [pc EXCEPT ![t] = how]
      BY <2>3 DEF Dies
    <3> QED  BY <3>1, <1>2
  <2> QED  BY <2>1, <2>2, <2>3
<1>5. lock' \in {Free, Dead} /\ UNCHANGED <<history, forms, read>>
  BY DEF ReadFails, Edit, EditAgain, EditRefused, Dies, End
<1>6. faults' \in {faults, faults + 1}
  BY DEF ReadFails, Edit, EditAgain, EditRefused, Dies
<1>7. deaths' \in {deaths, deaths + 1}
  BY DEF ReadFails, Edit, EditAgain, EditRefused, Dies
<1>8. faults' \in Nat /\ deaths' \in Nat
  BY <1>1, <1>6, <1>7
<1>9. shown' = shown \/ (pc[t] = "edit" /\ shown' = read[t])
  BY DEF ReadFails, Edit, EditAgain, EditRefused, Dies, End
<1> QED  BY <1>3, <1>4, <1>5, <1>8, <1>9, EndKeepsMessage

\* Every step keeps the invariant, and shows nothing older.
LEMMA MessageStep == MessageInv /\ [Next]_vars => MessageInv' /\ [shown' >= shown]_shown
<1> SUFFICES ASSUME MessageInv, [Next]_vars PROVE MessageInv' /\ [shown' >= shown]_shown
  OBVIOUS
<1>1. CASE UNCHANGED vars
  BY <1>1 DEF vars, MessageInv, OrderMessageTypeOK, OneEditor, Now
<1>2. ASSUME NEW t \in Task, TaskRuns(t) \/ Dies(t)
      PROVE  MessageInv' /\ [shown' >= shown]_shown
  BY <1>2, StartKeepsMessage, ReadKeepsMessage, EndingsKeepMessage DEF TaskRuns
<1> QED  BY <1>1, <1>2, WritesKeepMessage, StartKeepsMessage DEF Next, Writes

\* The lock belongs to the task at the message, and what it is about to show is no older
\* than what is shown.
THEOREM MessageInvariant == Spec => []MessageInv
BY MessageInit, MessageStep, PTL DEF Spec

\* However tasks overlap, retry, die and are handed out again, the message never goes back
\* to a status from before the one it shows.
THEOREM NewsGoesForward == Spec => NoOldNews
<1>1. Spec => [][[shown' >= shown]_shown]_vars
  BY MessageInvariant, MessageStep, PTL DEF Spec
<1>2. [[shown' >= shown]_shown]_vars => [shown' >= shown]_shown
  BY DEF vars
<1> QED  BY <1>1, <1>2, PTL DEF NoOldNews

-----------------------------------------------------------------------------
(* What is shown in the end.                                                *)

\* A task that is going to show what the row says, as far as is known.
Coming(t) ==
    \/ pc[t] \in {"queued", "read"}
    \/ pc[t] = "edit" /\ Screen(history[read[t]]) = Screen(Row)

\* The message looks like the row's status, and nobody is about to show another.
Settled ==
    /\ Screen(history[shown]) = Screen(Row)
    /\ \A t \in Task : pc[t] = "edit" => Screen(history[read[t]]) = Screen(Row)

Excused == deaths > 0 \/ \E t \in Task : pc[t] \in {"duplicate", "gave up"}

OwedInv == Excused \/ LooksUnannounced \/ Settled \/ \E t \in Task : Coming(t)

\* An excuse remains one.
LEMMA ExcuseStays ==
    ASSUME MessageInv, [Next]_vars, Excused
    PROVE  Excused'
<1>1. deaths \in Nat /\ pc \in [Task -> Pc]
  BY DEF MessageInv, OrderMessageTypeOK
<1>2. deaths' = deaths \/ deaths' = deaths + 1
  BY DEF Next, vars, TaskRuns, SetStatus, SetStatusAndDie, SetSending, SaveForm, Start,
     LeaveAsDuplicate, Read, ReadFails, Edit, EditAgain, EditRefused, Redeliver, Dies, LockRunsOut
<1>3. \A t \in Task : pc[t] \in {"duplicate", "gave up"} => pc'[t] = pc[t]
  BY <1>1 DEF Next, vars, TaskRuns, SetStatus, SetStatusAndDie, SetSending, SaveForm, Start,
     LeaveAsDuplicate, Read, ReadFails, Edit, EditAgain, EditRefused, Redeliver, Dies, LockRunsOut,
     End, Holding
<1>4. deaths > 0 => deaths' > 0
  BY <1>1, <1>2
<1> QED  BY <1>3, <1>4 DEF Excused

\* Only an order in processing goes on to sending.
LEMMA SendingFollows ==
    ASSUME NEW s \in StatusString, is_change_status_allowed(s, "SENDING")
    PROVE  Screen(s) = Screen("SENDING")
<1>1. s \in ALL_STATUSES /\ "SENDING" \in STATUS_TRANSITION_MATRIX[s]
  BY DEF is_change_status_allowed, ALL_STATUSES
<1>2. s = "PROCESSING"
  BY <1>1 DEF ALL_STATUSES, STATUS_TRANSITION_MATRIX, SendingMoves, FailedMoves
<1> QED  BY <1>2 DEF Screen

\* What is owed stays owed when SENDING is written: it looks like the PROCESSING before
\* it, or was written over a form.
LEMMA SendingOwes ==
    ASSUME MessageInv, OwedInv, ~Excused, SetSending
    PROVE  OwedInv'
<1>1. /\ history \in Seq(StatusString) /\ Now \in Nat /\ Now > 0 /\ shown \in 1..Now
      /\ UNCHANGED <<forms, shown, pc, read>>
  BY DEF MessageInv, OrderMessageTypeOK, Now, SetSending
<1>2. CASE history' = history
  BY <1>1, <1>2
     DEF OwedInv, Excused, LooksUnannounced, Unannounced, Settled, Coming, Row, Now, SetSending
<1>3. CASE history' # history
  <2>1. PICK k \in 1..Now : MayFollow(k, "SENDING") /\ history' = Append(history, "SENDING")
    BY <1>3 DEF SetSending, Write
  <2>2. /\ Now' = Now + 1 /\ Row' = "SENDING"
        /\ \A i \in 1..Now : history'[i] = history[i]
    BY <1>1, <2>1 DEF Now, Row
  <2>3. CASE k = Now
    <3>1. Screen(Row) = Screen(Row')
      BY <1>1, <2>1, <2>2, <2>3, SendingFollows DEF MayFollow, Row, Now
    <3>2. CASE LooksUnannounced
      <4>1. PICK n \in 1..Now : Unannounced(n) /\ \A i \in n..Now : Screen(history[i]) = Screen(Row)
        BY <3>2 DEF LooksUnannounced
      <4>2. Unannounced(n)' /\ n \in 1..Now'
        BY <1>1, <2>2, <4>1 DEF Unannounced
      <4>3. ASSUME NEW i \in n..Now'
            PROVE  Screen(history'[i]) = Screen(Row')
        <5>1. CASE i = Now'
          BY <5>1 DEF Row
        <5>2. CASE i # Now'
          <6>1. i \in n..Now /\ i \in 1..Now
            BY <1>1, <2>2, <5>2
          <6> QED  BY <2>2, <3>1, <4>1, <6>1
        <5> QED  BY <5>1, <5>2
      <4> QED  BY <4>2, <4>3 DEF OwedInv, LooksUnannounced
    <3>3. \A t \in Task : pc[t] = "edit" => read[t] \in 1..Now
      BY <1>1 DEF MessageInv, OneEditor
    <3>4. Settled => Settled'
      BY <1>1, <2>2, <3>1, <3>3 DEF Settled
    <3>5. \A t \in Task : Coming(t) => Coming(t)'
      BY <1>1, <2>2, <3>1, <3>3 DEF Coming
    <3> QED  BY <3>2, <3>4, <3>5 DEF OwedInv
  <2>4. CASE k # Now
    <3>1. Now \in forms' /\ Now' - 1 = Now
      BY <1>1, <2>1, <2>2, <2>4 DEF MayFollow
    <3>2. LooksUnannounced'
      <4>1. Unannounced(Now)'
        BY <2>2, <3>1 DEF Unannounced, Row
      <4>2. Now' \in 1..Now' /\ \A i \in Now'..Now' : i = Now'
        BY <1>1, <2>2
      <4> QED  BY <4>1, <4>2 DEF LooksUnannounced, Row
    <3> QED  BY <3>2 DEF OwedInv
  <2> QED  BY <2>3, <2>4
<1> QED  BY <1>2, <1>3

\* The task that edits has shown what the row looks like, or another one is waiting.
LEMMA EditOwes ==
    ASSUME MessageInv, OwedInv, ~Excused, NEW t \in Task, Edit(t)
    PROVE  OwedInv'
<1>1. /\ pc \in [Task -> Pc] /\ pc[t] = "edit" /\ pc' = [pc EXCEPT ![t] = "updated"]
      /\ shown' = read[t] /\ history' = history /\ forms' = forms /\ read' = read
      /\ Row' = Row /\ Now' = Now
  BY DEF MessageInv, OrderMessageTypeOK, Edit, End, Row, Now
<1>2. \A u \in Task : u # t => pc[u] \notin Holding
  BY <1>1 DEF MessageInv, OneEditor, Holding
<1>3. CASE LooksUnannounced
  BY <1>1, <1>3 DEF OwedInv, LooksUnannounced, Unannounced
<1>4. CASE Screen(history[read[t]]) = Screen(Row)
  <2>1. Screen(history'[shown']) = Screen(Row')
    BY <1>1, <1>4
  <2>2. \A u \in Task : pc'[u] # "edit"
    BY <1>1, <1>2 DEF Holding
  <2> QED  BY <2>1, <2>2 DEF OwedInv, Settled
<1>5. CASE Screen(history[read[t]]) # Screen(Row) /\ ~LooksUnannounced
  <2>1. PICK u \in Task : Coming(u)
    BY <1>1, <1>5 DEF OwedInv, Settled
  <2>2. u # t /\ pc'[u] = "queued"
    BY <1>1, <1>2, <1>5, <2>1 DEF Coming, Holding
  <2> QED  BY <2>2 DEF OwedInv, Coming
<1> QED  BY <1>3, <1>4, <1>5

\* A task that is queued or has just read is coming; a form is an excuse as long as the
\* row looks like it.
LEMMA OwedStep ==
    ASSUME MessageInv, OwedInv, [Next]_vars
    PROVE  OwedInv'
<1>1. pc \in [Task -> Pc] /\ read \in [Task -> Nat] /\ deaths \in Nat
  BY DEF MessageInv, OrderMessageTypeOK
<1>2. CASE Excused
  BY <1>2, ExcuseStays DEF OwedInv
<1>3. ASSUME NEW t \in Task, pc'[t] \in {"queued", "read"}
      PROVE  OwedInv'
  BY <1>3 DEF OwedInv, Coming
<1>4. ASSUME NEW t \in Task, pc'[t] \in {"duplicate", "gave up"}
      PROVE  OwedInv'
  BY <1>4 DEF OwedInv, Excused
<1>5. CASE deaths' = deaths + 1
  <2>1. deaths' > 0
    BY <1>1, <1>5
  <2> QED  BY <2>1 DEF OwedInv, Excused
<1>6. ASSUME NEW t \in Task, Read(t)
      PROVE  OwedInv'
  <2>1. pc'[t] = "edit" /\ read'[t] = Now /\ history' = history
    BY <1>1, <1>6 DEF Read
  <2>2. history'[read'[t]] = Row'
    BY <2>1 DEF Row, Now
  <2> QED  BY <2>1, <2>2 DEF OwedInv, Coming
<1>7. ASSUME NEW s \in Typed, SaveForm(s)
      PROVE  OwedInv'
  <2>1. history \in Seq(StatusString) /\ s \in StatusString
    BY OrderMessageAssumption DEF MessageInv, OrderMessageTypeOK, StatusString
  <2>2. Now' = Now + 1 /\ Now \in Nat /\ Now' \in forms'
    BY <1>7, <2>1 DEF SaveForm, Now
  <2>3. Unannounced(Now)'
    BY <2>2 DEF Unannounced
  <2>4. Now' \in 1..Now' /\ \A i \in Now'..Now' : i = Now'
    BY <2>2
  <2>5. LooksUnannounced'
    BY <2>3, <2>4 DEF LooksUnannounced, Row
  <2> QED  BY <2>5 DEF OwedInv
<1>8. CASE UNCHANGED <<history, forms, shown, pc, read, deaths>>
  BY <1>8 DEF OwedInv, Excused, LooksUnannounced, Unannounced, Settled, Coming, Row, Now
<1>9. \/ \E t \in Task : pc'[t] \in {"queued", "read", "duplicate", "gave up"}
      \/ deaths' = deaths + 1
      \/ SetSending \/ \E s \in Typed : SaveForm(s)
      \/ \E t \in Task : Read(t) \/ Edit(t)
      \/ UNCHANGED <<history, forms, shown, pc, read, deaths>>
  BY <1>1 DEF Next, vars, TaskRuns, SetStatus, SetStatusAndDie, Start, LeaveAsDuplicate,
     ReadFails, EditAgain, EditRefused, Redeliver, Dies, LockRunsOut, End
<1> QED  BY <1>2, <1>3, <1>4, <1>5, <1>6, <1>7, <1>8, <1>9, SendingOwes, EditOwes

\* Nothing is lost silently: if the message stays behind the row when every task has
\* ended, a task has left as a duplicate or given up, a worker has died, or the row looks
\* the way a form has left it, after which nobody queues a task (webhook_workflow.py,
\* tasks.py:291-302, admin.py:161-186).
THEOREM BehindIsExcused == Spec => []BehindForAReason
<1>1. Init => OwedInv
  BY DEF Init, OwedInv, Settled, Row, Now
<1>2. MessageInv /\ OwedInv /\ [Next]_vars => OwedInv'
  BY OwedStep
<1>3. MessageInv /\ OwedInv => BehindForAReason
  BY DEF MessageInv, OrderMessageTypeOK, OwedInv, Excused, Settled, Coming, BehindForAReason, Ended
<1> QED  BY <1>1, <1>2, <1>3, MessageInvariant, PTL DEF Spec

-----------------------------------------------------------------------------
(* Calls to fragment-api (FragmentClient).                                  *)

\* The next request is one of the phase.
RequestFits(o) ==
    /\ phase[o] = "finding" => at[o] = "user"
    /\ phase[o] = "checking" => at[o] # "post"

\* What has been taken is sent, or counts as failed: the error of a post without an
\* answer is none that is repeated.
Taken(o) == posted[o] # 0
TakenWhen(o) ==
    /\ phase[o] = "sent" => Taken(o)
    /\ Taken(o) => \/ phase[o] \in {"sent", "failed"}
                   \/ phase[o] = "sending" /\ raised[o] = "APIError"

CallsInv ==
    /\ F!FragmentClientTypeOK
    /\ \A o \in Order : RequestFits(o) /\ TakenWhen(o) /\ posted[o] \in {0, 1}

LEMMA CallsInit == ASSUME F!FragmentClientAssumption, F!Init PROVE CallsInv
<1>1. /\ Wallet \in Nat /\ MaxBadAnswers \in Nat /\ MaxAttempts \in Nat /\ MaxRuns \in Nat
  BY DEF F!FragmentClientAssumption
<1>2. 0 \in 0 .. MaxBadAnswers /\ 0 \in 0 .. (MaxAttempts + MaxRuns) /\ Wallet \in Int
  BY <1>1
<1>3. F!FragmentClientTypeOK
  BY <1>2 DEF F!Init, F!FragmentClientTypeOK, F!Running, F!Request, F!Error
<1>4. \A o \in Order : RequestFits(o) /\ TakenWhen(o) /\ posted[o] \in {0, 1}
  BY DEF F!Init, RequestFits, TakenWhen, Taken
<1>. QED
  BY <1>3, <1>4 DEF CallsInv

Phases == F!Running \cup
             {"new", "found", "not found", "payable", "given up", "sent", "failed"}
CallMoves(o) == F!Find(o) \/ F!Confirm(o) \/ F!Paid(o) \/ F!Call(o) \/ F!Rename(o)

\* A move of a call is about its order only.
LEMMA CallChanges ==
    ASSUME F!FragmentClientAssumption, F!FragmentClientTypeOK, NEW o \in Order, CallMoves(o)
    PROVE  /\ phase' = phase \/ \E p \in Phases : phase' = [phase EXCEPT ![o] = p]
           /\ at' = at \/ \E a \in F!Request : at' = [at EXCEPT ![o] = a]
           /\ raised' = raised \/ \E e \in F!Error \cup {"none"} : raised' = [raised EXCEPT ![o] = e]
           /\ \/ UNCHANGED <<balance, posted>>
              \/ balance' = balance - 1 /\ posted' = [posted EXCEPT ![o] = posted[o] + 1]
<1>1. /\ phase \in [Order -> Phases] /\ at \in [Order -> F!Request]
      /\ raised \in [Order -> F!Error \cup {"none"}]
  BY DEF F!FragmentClientTypeOK, Phases
<1>2. /\ \A request : \A answer \in F!Answer : F!Raised(request, answer) \in F!Error
      /\ \A p \in F!Running : F!First(p) \in F!Request /\ F!AfterFailure(p) \in Phases
  BY DEF F!Raised, F!Answer, F!RetryAfter, F!Error, F!First, F!Request, F!AfterFailure, F!Running, Phases
<1>3. /\ phase' = phase \/ \E p \in Phases : phase' = [phase EXCEPT ![o] = p]
      /\ at' = at \/ \E a \in F!Request : at' = [at EXCEPT ![o] = a]
      /\ raised' = raised \/ \E e \in F!Error \cup {"none"} : raised' = [raised EXCEPT ![o] = e]
  <2>1. CASE F!Find(o)
    BY <2>1, <1>2 DEF F!Find, F!Begin, F!Running, Phases
  <2>2. CASE F!Confirm(o)
    BY <2>2, <1>2 DEF F!Confirm, F!Begin, F!Running, Phases
  <2>3. CASE F!Paid(o)
    BY <2>3, <1>2 DEF F!Paid, F!Begin, F!Running, Phases
  <2>4. CASE F!LookUp(o)
    BY <2>4, <1>2 DEF F!LookUp, F!Becomes, F!Goes, F!Fails, F!Error, F!Request, Phases
  <2>5. CASE F!Prices(o)
    BY <2>5, <1>2 DEF F!Prices, F!Goes, F!Request
  <2>6. CASE F!Balances(o)
    BY <2>6, <1>2 DEF F!Balances, F!Becomes, F!Goes, F!Fails, F!Error, F!Request, Phases
  <2>7. CASE F!Post(o)
    BY <2>7, <1>2 DEF F!Post, F!Becomes, F!Fails, F!Error, Phases
  <2>8. CASE F!RequestFails(o)
    BY <2>8, <1>2 DEF F!RequestFails, F!Fails, F!FragmentClientAssumption
  <2>9. CASE F!TryAgain(o)
    BY <2>9, <1>1, <1>2 DEF F!TryAgain
  <2>10. CASE F!GiveUp(o)
    BY <2>10, <1>1, <1>2 DEF F!GiveUp, F!Becomes
  <2>11. CASE F!Rename(o)
    BY <2>11 DEF F!Rename
  <2>. QED
    BY <2>1, <2>2, <2>3, <2>4, <2>5, <2>6, <2>7, <2>8, <2>9, <2>10, <2>11 DEF CallMoves, F!Call
<1>4. \/ UNCHANGED <<balance, posted>>
      \/ balance' = balance - 1 /\ posted' = [posted EXCEPT ![o] = posted[o] + 1]
  BY DEF CallMoves, F!Find, F!Confirm, F!Paid, F!Begin, F!Rename, F!Call, F!LookUp, F!Prices,
      F!Balances, F!Post, F!RequestFails, F!GiveUp, F!TryAgain, F!Place
<1>. QED
  BY <1>3, <1>4

\* Every call keeps the types.
LEMMA CallsTyped ==
    ASSUME F!FragmentClientAssumption, F!FragmentClientTypeOK, NEW o \in Order, CallMoves(o)
    PROVE  F!FragmentClientTypeOK'
<1>0. MaxBadAnswers \in Nat /\ MaxAttempts \in Nat \ {0} /\ MaxRuns \in Nat \ {0}
  BY DEF F!FragmentClientAssumption
<1>1. /\ phase \in [Order -> Phases] /\ at \in [Order -> F!Request]
      /\ raised \in [Order -> F!Error \cup {"none"}]
      /\ exists \in [Order -> BOOLEAN]
  BY DEF F!FragmentClientTypeOK, Phases
<1>n. /\ runs \in [Order -> 0 .. (MaxAttempts + MaxRuns)]
      /\ balance \in Int /\ posted \in [Order -> Nat]
      /\ badAnswers \in 0 .. MaxBadAnswers
  BY DEF F!FragmentClientTypeOK
<1>4. /\ phase' \in [Order -> Phases] /\ at' \in [Order -> F!Request]
      /\ raised' \in [Order -> F!Error \cup {"none"}]
  BY <1>1, CallChanges
<1>5. runs' \in [Order -> 0 .. (MaxAttempts + MaxRuns)]
  <2>1. CASE runs' = runs
    BY <2>1, <1>n
  <2>2. CASE runs' = [runs EXCEPT ![o] = 1]
    <3>1. 1 \in 0 .. (MaxAttempts + MaxRuns)
      BY <1>0
    <3>. QED
      BY <2>2, <3>1, <1>n
  <2>3. CASE F!TryAgain(o)
    <3>1. F!Limit(o) <= MaxAttempts + MaxRuns
      BY <1>0 DEF F!Limit
    <3>2. runs' = [runs EXCEPT ![o] = runs[o] + 1] /\ runs[o] < F!Limit(o) /\ F!Limit(o) \in Nat
      BY <2>3, <1>0 DEF F!TryAgain, F!Limit
    <3>. QED
      <4>1. runs[o] + 1 \in 0 .. (MaxAttempts + MaxRuns)
        BY <3>1, <3>2, <1>0, <1>n
      <4>. QED
        BY <3>2, <4>1, <1>n
  <2>. QED
    BY <2>1, <2>2, <2>3
    DEF CallMoves, F!Find, F!Confirm, F!Paid, F!Begin, F!Rename, F!Call, F!LookUp, F!Prices, F!Balances,
        F!Post, F!RequestFails, F!GiveUp, F!Becomes, F!Goes, F!Fails
<1>6. balance' \in Int /\ posted' \in [Order -> Nat]
  BY <1>n, CallChanges
<1>7. exists' \in [Order -> BOOLEAN]
  <2>1. exists' \in {exists, [exists EXCEPT ![o] = ~exists[o]]}
    BY DEF CallMoves, F!Find, F!Confirm, F!Paid, F!Rename, F!Call, F!LookUp, F!Prices, F!Balances,
        F!Post, F!RequestFails, F!GiveUp, F!TryAgain
  <2>. QED
    BY <1>1, <2>1
<1>8. badAnswers' \in 0 .. MaxBadAnswers
  <2>1. \/ badAnswers' = badAnswers
        \/ badAnswers < MaxBadAnswers /\ badAnswers' = badAnswers + 1
    BY DEF CallMoves, F!Find, F!Confirm, F!Paid, F!Rename, F!Call, F!LookUp, F!Prices, F!Balances,
        F!Post, F!RequestFails, F!GiveUp, F!TryAgain
  <2>. QED
    BY <1>0, <1>n, <2>1
<1>. QED
  BY <1>4, <1>5, <1>6, <1>7, <1>8 DEF F!FragmentClientTypeOK, Phases

\* A call leaves the other orders alone.
LEMMA OtherCalls ==
    ASSUME F!FragmentClientAssumption, CallsInv, NEW o \in Order, CallMoves(o), NEW q \in Order, q # o
    PROVE  RequestFits(q)' /\ TakenWhen(q)' /\ posted'[q] \in {0, 1}
<1>1. /\ phase'[q] = phase[q] /\ at'[q] = at[q] /\ raised'[q] = raised[q]
      /\ posted'[q] = posted[q]
  <2>1. /\ phase \in [Order -> Phases] /\ at \in [Order -> F!Request]
        /\ raised \in [Order -> F!Error \cup {"none"}] /\ posted \in [Order -> Nat]
    BY DEF CallsInv, F!FragmentClientTypeOK, Phases
  <2>. QED
    BY <2>1, CallChanges DEF CallsInv
<1>. QED
  BY <1>1 DEF CallsInv, RequestFits, TakenWhen, Taken

\* An order that is not being sent, and is not sent by the step, is not taken by it.
LEMMA NotTaken ==
    ASSUME NEW o \in Order, CallsInv, posted'[o] = posted[o],
           phase'[o] # "sent", Taken(o) => phase'[o] = "failed" \/
              (phase'[o] = "sending" /\ raised'[o] = "APIError")
    PROVE  TakenWhen(o)' /\ posted'[o] \in {0, 1}
BY DEF CallsInv, TakenWhen, Taken

LEMMA ThisCall ==
    ASSUME F!FragmentClientAssumption, CallsInv, NEW o \in Order, CallMoves(o)
    PROVE  RequestFits(o)' /\ TakenWhen(o)' /\ posted'[o] \in {0, 1}
<1>0. RequestFits(o) /\ TakenWhen(o)
  BY DEF CallsInv
<1>a. /\ phase \in [Order -> Phases] /\ at \in [Order -> F!Request]
      /\ raised \in [Order -> F!Error \cup {"none"}]
  BY DEF CallsInv, F!FragmentClientTypeOK, Phases
<1>b. posted \in [Order -> Nat] /\ posted[o] \in {0, 1}
  BY DEF CallsInv, F!FragmentClientTypeOK
<1>1. CASE F!Find(o) \/ F!Confirm(o) \/ F!Paid(o)
  <2>1. ~Taken(o) /\ posted' = posted
    BY <1>0, <1>1 DEF F!Find, F!Confirm, F!Paid, TakenWhen
  <2>2. /\ phase'[o] \in {"finding", "checking", "sending"}
        /\ phase'[o] = "finding" => at'[o] = "user"
        /\ phase'[o] = "checking" => at'[o] = "prices"
    BY <1>a, <1>1 DEF F!Find, F!Confirm, F!Paid, F!Begin, F!First
  <2>. QED
    BY <2>1, <2>2, NotTaken DEF RequestFits
<1>2. CASE F!LookUp(o) \/ F!Prices(o) \/ F!Balances(o)
  <2>1. ~Taken(o) /\ posted' = posted
    BY <1>0, <1>2 DEF F!LookUp, F!Prices, F!Balances, F!Asks, F!Running, TakenWhen
  <2>2. phase'[o] # "sent" /\ RequestFits(o)'
    <3>1. CASE F!LookUp(o)
      <4>1. \/ F!Becomes(o, "found") \/ F!Becomes(o, "not found")
            \/ phase[o] # "finding" /\ F!Goes(o, "prices")
            \/ F!Fails(o, "APIError")
        BY <3>1 DEF F!LookUp
      <4>2. phase[o] # "sent"
        BY <3>1 DEF F!LookUp, F!Asks, F!Running
      <4>. QED
        BY <1>0, <1>a, <4>1, <4>2 DEF F!Becomes, F!Goes, F!Fails, RequestFits
    <3>2. CASE F!Prices(o)
      BY <1>0, <1>a, <3>2 DEF F!Prices, F!Asks, F!Running, F!Goes, RequestFits
    <3>3. CASE F!Balances(o)
      <4>1. phase[o] \in {"checking", "sending"}
        BY <1>0, <3>3 DEF F!Balances, F!Asks, F!Running, RequestFits
      <4>2. \/ F!Fails(o, "NotEnoughBalance")
            \/ phase[o] = "checking" /\ F!Becomes(o, "payable")
            \/ phase[o] = "sending" /\ F!Goes(o, "post")
        BY <4>1, <3>3 DEF F!Balances
      <4>. QED
        BY <1>0, <1>a, <4>1, <4>2 DEF F!Becomes, F!Goes, F!Fails, RequestFits
    <3>. QED
      BY <1>2, <3>1, <3>2, <3>3
  <2>. QED
    BY <2>1, <2>2, NotTaken
<1>3. ASSUME F!Asks(o, "post")
      PROVE  ~Taken(o) /\ posted[o] = 0 /\ phase[o] = "sending"
  BY <1>0, <1>b, <1>3 DEF F!Asks, F!Running, RequestFits, TakenWhen, Taken
<1>4. ASSUME F!Place(o)
      PROVE  posted[o] = 0 => posted'[o] = 1
  BY <1>b, <1>4 DEF F!Place
<1>5. CASE F!Post(o)
  <2>1. CASE F!Place(o) /\ F!Becomes(o, "sent")
    <3>1. posted'[o] = 1 /\ phase'[o] = "sent"
      BY <1>a, <1>3, <1>4, <1>5, <2>1 DEF F!Post, F!Becomes
    <3>. QED
      BY <3>1 DEF RequestFits, TakenWhen, Taken
  <2>2. CASE F!Fails(o, "APIError") /\ UNCHANGED <<balance, posted>>
    <3>1. phase' = phase /\ at' = at
      BY <2>2 DEF F!Fails
    <3>. QED
      BY <1>0, <1>3, <1>5, <2>2, <3>1, NotTaken DEF F!Post, RequestFits
  <2>. QED
    BY <1>5, <2>1, <2>2 DEF F!Post
<1>6. CASE F!RequestFails(o)
  <2>1. PICK answer \in Worst :
           /\ F!Asks(o, at[o]) /\ F!Fails(o, F!Raised(at[o], answer))
           /\ \/ posted' = posted
              \/ answer = "no answer" /\ at[o] = "post" /\ F!Place(o)
    BY <1>6 DEF F!RequestFails
  <2>2. phase' = phase /\ at' = at /\ phase[o] \in F!Running /\ raised[o] = "none"
    BY <2>1 DEF F!Fails, F!Asks
  <2>3. RequestFits(o)'
    BY <1>0, <2>2 DEF RequestFits
  <2>4. CASE posted' = posted
    <3>1. ~Taken(o)
      BY <1>0, <2>2 DEF TakenWhen, F!Running
    <3>. QED
      BY <2>2, <2>3, <2>4, <3>1, NotTaken DEF F!Running
  <2>5. CASE answer = "no answer" /\ at[o] = "post" /\ F!Place(o)
    <3>1. posted'[o] = 1 /\ phase'[o] = "sending"
      BY <1>3, <1>4, <2>1, <2>2, <2>5
    <3>2. raised'[o] = "APIError"
      BY <1>a, <2>1, <2>5 DEF F!Fails, F!Raised
    <3>. QED
      BY <2>3, <3>1, <3>2 DEF TakenWhen, Taken
  <2>. QED
    BY <2>1, <2>4, <2>5
<1>7. CASE F!TryAgain(o)
  <2>1. posted' = posted /\ phase' = phase /\ phase[o] \in F!Running /\ F!Retried(o)
    BY <1>7 DEF F!TryAgain
  <2>2. ~Taken(o)
    BY <1>0, <2>1 DEF TakenWhen, F!Running, F!Retried, F!RetriedByCelery
  <2>3. RequestFits(o)'
    BY <1>a, <1>7, <2>1 DEF F!TryAgain, F!First, RequestFits
  <2>. QED
    BY <2>1, <2>2, <2>3, NotTaken DEF F!Running
<1>8. CASE F!GiveUp(o)
  <2>1. posted' = posted /\ at' = at /\ phase[o] \in F!Running
    BY <1>8 DEF F!GiveUp, F!Becomes
  <2>2. phase'[o] = F!AfterFailure(phase[o])
    BY <1>a, <1>8 DEF F!GiveUp, F!Becomes
  <2>3. /\ phase'[o] \in {"new", "given up", "failed"}
        /\ phase[o] = "sending" => phase'[o] = "failed"
    BY <2>1, <2>2 DEF F!AfterFailure, F!Running
  <2>4. Taken(o) => phase'[o] = "failed"
    BY <1>0, <2>1, <2>3 DEF TakenWhen, F!Running
  <2>. QED
    BY <2>1, <2>3, <2>4, NotTaken DEF RequestFits
<1>9. CASE F!Rename(o)
  BY <1>0, <1>b, <1>9 DEF F!Rename, RequestFits, TakenWhen, Taken
<1>. QED
  BY <1>1, <1>2, <1>5, <1>6, <1>7, <1>8, <1>9 DEF CallMoves, F!Call

\* Every step keeps the invariant of the calls.
LEMMA CallsStep ==
    ASSUME F!FragmentClientAssumption, CallsInv, [F!Next]_calls
    PROVE  CallsInv'
<1>1. ASSUME NEW o \in Order, CallMoves(o)
      PROVE  CallsInv'
  <2>1. F!FragmentClientTypeOK'
    BY <1>1, CallsTyped DEF CallsInv
  <2>2. \A q \in Order : RequestFits(q)' /\ TakenWhen(q)' /\ posted'[q] \in {0, 1}
    BY <1>1, OtherCalls, ThisCall
  <2>. QED
    BY <2>1, <2>2 DEF CallsInv
<1>2. CASE UNCHANGED calls
  BY <1>2 DEF calls, CallsInv, F!FragmentClientTypeOK, RequestFits, TakenWhen, Taken
<1>. QED
  BY <1>1, <1>2 DEF F!Next, CallMoves

\* What the invariant says of the properties that the runs check.
LEMMA CallsMean == CallsInv => F!FragmentClientInv /\ F!OrderedOnce
<1> SUFFICES ASSUME CallsInv, NEW o \in Order
             PROVE  /\ posted[o] <= 1
                    /\ phase[o] = "sent" => posted[o] = 1
                    /\ posted[o] = 1 => phase[o] \in {"sent", "sending", "failed"}
  BY DEF CallsInv, F!FragmentClientInv, F!SentIsPosted, F!OrderedOnce
<1>1. posted[o] \in {0, 1}
  BY DEF CallsInv
<1>2. posted[o] <= 1
  BY <1>1
<1>3. /\ phase[o] = "sent" => Taken(o)
      /\ Taken(o) => phase[o] \in {"sent", "sending", "failed"}
  BY DEF CallsInv, TakenWhen
<1>4. Taken(o) <=> posted[o] = 1
  BY <1>1 DEF Taken
<1>. QED
  BY <1>2, <1>3, <1>4

\* A name is called not found by a look-up of a name that is not there.
LEMMA NotFoundStep ==
    ASSUME F!FragmentClientAssumption, CallsInv, [F!Next]_calls, NEW o \in Order,
           phase'[o] = "not found", phase[o] # "not found"
    PROVE  ~exists[o]
<1>a. phase \in [Order -> Phases]
  BY DEF CallsInv, F!FragmentClientTypeOK, Phases
<1>1. PICK q \in Order : CallMoves(q)
  BY DEF F!Next, CallMoves, calls
<1>2. q = o
  BY <1>a, <1>1, CallChanges DEF CallsInv
<1>3. F!LookUp(o)
  BY <1>a, <1>1, <1>2 DEF CallMoves, F!Find, F!Confirm, F!Paid, F!Begin, F!Rename, F!Call,
     F!Prices, F!Balances, F!Post, F!RequestFails, F!GiveUp, F!TryAgain, F!Becomes, F!Goes,
     F!Fails, F!AfterFailure, F!Running
<1>. QED
  BY <1>a, <1>3 DEF F!LookUp, F!Becomes, F!Goes, F!Fails

-----------------------------------------------------------------------------
(* The tap that creates an order (OrderCreation).                           *)

\* The payment of a handler that has one has a row once it has been looked for.
HasPayment == {"row", "insert", "creating", "save", "link", "failed", "clear"}
HasRow     == {"creating", "save", "link", "failed", "clear"}
HandlerInv ==
    /\ handler \in HasPayment => cur \in Payment
    /\ handler \in HasRow => row[cur] # "none"
    /\ handler = "clear" => cur \in seen
    /\ \A p \in due : row[p] \in {"paid", "closed"}
    /\ C!LinkHasRow

\* Payments that were opened, and the one that the running handler may still open.
Opened == {p \in Payment : gate[p] # "none"}
MayOpen == handler \in {"answer", "check"} \/ (handler = "pay" /\ trouble = "none")
OpenedInv == Cardinality(Opened) + (IF MayOpen THEN 1 ELSE 0) <= taps

CreationTypes ==
    /\ handler \in C!Pc /\ cur \in Payment \cup {NoPayment} /\ trouble \in C!Troubles
    /\ userLock \in {"free", "held", "left"}
    /\ state \in {"ORDER_CONFIRMATION", "ORDER_CONFIRMED", "lost"}
    /\ msg \in [what : C!Screens, of : Payment \cup {NoPayment}]
    /\ told \in {"nothing", "alert", "gateway trouble", "error"}
    /\ gate \in [Payment -> C!Gate] /\ row \in [Payment -> C!Gate]
    /\ due \subseteq Payment /\ seen \subseteq Payment /\ old \subseteq Payment
CreationCounts == strays \in Nat /\ taps \in Nat /\ mishaps \in Nat /\ restarts \in Nat

CreationInv ==
    /\ CreationTypes /\ CreationCounts
    /\ C!LockFollowsHandler /\ HandlerInv /\ OpenedInv

\* A message that is shown is a message.
LEMMA ShowTyped ==
    ASSUME CreationTypes, NEW what \in C!Screens, NEW p \in Payment \cup {NoPayment},
           C!Show(what, p)
    PROVE  msg' \in [what : C!Screens, of : Payment \cup {NoPayment}]
BY DEF C!Show, CreationTypes

\* The steps of the handler keep the types.
LEMMA HandlerTyped ==
    ASSUME CreationTypes, HandlerInv, C!Handler
    PROVE  CreationTypes'
<1> USE DEF CreationTypes, C!Pc, C!Troubles, C!Gate
<1>s. {"gone", "no link", "creating", "failed", "link"} \subseteq C!Screens
  BY DEF C!Screens
<1> DEFINE Ends == \/ \E next \in {"ORDER_CONFIRMATION", "ORDER_CONFIRMED"} :
                         C!End(next, "nothing")
                   \/ \E says \in {"nothing", "alert", "gateway trouble", "error"} :
                         C!End("ORDER_CONFIRMATION", says)
           Steps(next) == C!Step(next) /\ cur' \in Payment \cup {NoPayment} /\ trouble' = trouble
<1>1. ASSUME Ends \/ \E next \in C!Pc : Steps(next)
      PROVE  /\ handler' \in C!Pc /\ cur' \in Payment \cup {NoPayment} /\ trouble' \in C!Troubles
             /\ userLock' \in {"free", "held", "left"}
             /\ state' \in {"ORDER_CONFIRMATION", "ORDER_CONFIRMED", "lost"}
             /\ told' \in {"nothing", "alert", "gateway trouble", "error"}
  BY <1>1 DEF C!End, C!FreeLock, C!LeaveLock, C!Step
<1>0. CASE C!Answer
  BY <1>0 DEF C!Answer, C!Step, C!LeaveLock
<1>2. CASE C!Checks
  BY <1>1, <1>2, <1>s, ShowTyped DEF C!Checks, C!Stay, C!Raise
<1>3. CASE C!PaymentOpens
  BY <1>1, <1>3 DEF C!PaymentOpens, C!Open
<1>4. CASE C!NoLink
  BY <1>1, <1>4, <1>s, ShowTyped DEF C!NoLink, C!Stay
<1>5. CASE C!CallFails
  BY <1>5 DEF C!CallFails
<1>6. CASE C!ReportTrouble
  BY <1>1, <1>6 DEF C!ReportTrouble, C!Stay, C!Raise
<1>7. CASE C!FindRow
  BY <1>1, <1>7 DEF C!FindRow
<1>8. CASE C!InsertRow
  BY <1>1, <1>8 DEF C!InsertRow, C!Raise
<1>9. CASE C!RowFails
  BY <1>1, <1>9 DEF C!RowFails, C!Raise
<1>10. CASE C!ShowCreating
  BY <1>1, <1>10, <1>s, ShowTyped DEF C!ShowCreating, C!Raise
<1>11. CASE C!SaveMessage
  BY <1>1, <1>11 DEF C!SaveMessage
<1>12. CASE C!ShowFailed
  BY <1>1, <1>12, <1>s, ShowTyped DEF C!ShowFailed, C!Stay
<1>13. CASE C!ShowLink
  BY <1>1, <1>13, <1>s, ShowTyped DEF C!ShowLink, C!Raise, HandlerInv, HasPayment
<1>14. CASE C!EditFails
  BY <1>1, <1>14, <1>s, ShowTyped DEF C!EditFails, C!Raise, HandlerInv, HasPayment
<1>15. CASE C!ClearPromo
  BY <1>1, <1>15 DEF C!ClearPromo, C!Raise
<1>. QED
  BY <1>0, <1>2, <1>3, <1>4, <1>5, <1>6, <1>7, <1>8, <1>9, <1>10, <1>11, <1>12, <1>13, <1>14, <1>15
  DEF C!Handler

\* What happens around the handler.
Around ==
    \/ C!Tap \/ C!TapFails \/ C!Restart \/ C!NextOrder \/ C!LockRunsOut \/ C!UserDeletesMessage
    \/ \E p \in Payment : C!GatewayMoves(p) \/ C!Report(p) \/ C!ShowStatus(p)

LEMMA AroundTyped ==
    ASSUME CreationTypes, HandlerInv, Around
    PROVE  CreationTypes'
<1> USE DEF CreationTypes
<1>s. {"confirmation", "gone", "paid", "closed"} \subseteq C!Screens
  BY DEF C!Screens
<1>1. CASE C!Tap
  BY <1>1 DEF C!Tap, C!Pc
<1>0. CASE C!TapFails
  BY <1>0 DEF C!TapFails, C!LeaveLock
<1>2. CASE C!Restart
  BY <1>2 DEF C!Restart, C!Pc, C!Troubles
<1>3. CASE C!NextOrder
  BY <1>3, <1>s DEF C!NextOrder
<1>4. CASE C!LockRunsOut
  BY <1>4 DEF C!LockRunsOut
<1>5. CASE C!UserDeletesMessage
  BY <1>5, <1>s DEF C!UserDeletesMessage
<1>6. ASSUME NEW p \in Payment, C!GatewayMoves(p)
      PROVE  CreationTypes'
  BY <1>6 DEF C!GatewayMoves, C!Gate
<1>7. ASSUME NEW p \in Payment, C!Report(p)
      PROVE  CreationTypes'
  BY <1>7 DEF C!Report, C!Gate
<1>8. ASSUME NEW p \in Payment, C!ShowStatus(p)
      PROVE  CreationTypes'
  <2>1. row[p] \in C!Screens
    BY <1>8, <1>s DEF C!ShowStatus, HandlerInv
  <2>2. msg' \in [what : C!Screens, of : Payment \cup {NoPayment}]
    BY <1>8, <2>1, ShowTyped DEF C!ShowStatus
  <2>. QED
    BY <1>8, <2>2 DEF C!ShowStatus
<1>. QED
  BY <1>0, <1>1, <1>2, <1>3, <1>4, <1>5, <1>6, <1>7, <1>8 DEF Around

\* A handler keeps the lock until it ends; then the lock is free, or counts as left behind.
LEMMA HandlerLock ==
    ASSUME C!Handler
    PROVE  \/ handler' = "idle" /\ userLock' = "free" /\ strays' = strays
           \/ handler' = "idle" /\ userLock' = "left" /\ strays' = strays + 1
           \/ handler # "idle" /\ handler' # "idle" /\ UNCHANGED <<userLock, strays>>
<1> DEFINE ends == handler' = "idle" /\ (C!FreeLock \/ C!LeaveLock)
           goes == handler # "idle" /\ handler' # "idle" /\ UNCHANGED <<userLock, strays>>
<1>1. ends \/ goes
  BY DEF C!Handler, C!Answer, C!Checks, C!PaymentOpens, C!NoLink, C!CallFails, C!ReportTrouble,
     C!FindRow, C!InsertRow, C!RowFails, C!ShowCreating, C!SaveMessage, C!ShowFailed, C!ShowLink,
     C!EditFails, C!ClearPromo, C!Step, C!End, C!Stay, C!Raise
<1>. QED
  BY <1>1 DEF C!FreeLock, C!LeaveLock

LEMMA LocksLeft ==
    ASSUME C!Handler \/ Around
    PROVE  strays' \in {strays, strays + 1}
<1>1. CASE C!Handler
  BY <1>1, HandlerLock
<1>2. CASE Around
  BY <1>2 DEF Around, C!Tap, C!TapFails, C!LeaveLock, C!Restart, C!NextOrder, C!LockRunsOut,
     C!UserDeletesMessage, C!GatewayMoves, C!Report, C!ShowStatus
<1>. QED
  BY <1>1, <1>2

LEMMA CountsTyped ==
    ASSUME CreationCounts, C!Handler \/ Around
    PROVE  CreationCounts'
<1>1. taps' \in {taps, taps + 1} /\ mishaps' \in {mishaps, mishaps + 1}
      /\ restarts' \in {restarts, restarts + 1}
  BY DEF C!Handler, Around, C!Tap, C!TapFails, C!Press, C!Restart, C!NextOrder, C!LockRunsOut,
     C!UserDeletesMessage, C!GatewayMoves, C!Report, C!ShowStatus, C!Answer, C!Checks,
     C!PaymentOpens, C!NoLink, C!CallFails, C!ReportTrouble, C!FindRow, C!InsertRow, C!RowFails,
     C!ShowCreating, C!SaveMessage, C!ShowFailed, C!ShowLink, C!EditFails, C!ClearPromo,
     C!Fault, C!limits
<1>2. strays' \in {strays, strays + 1}
  BY LocksLeft
<1>. QED
  BY <1>1, <1>2 DEF CreationCounts

\* The lock follows the handler.
LEMMA LockStep ==
    ASSUME CreationTypes, CreationCounts, C!LockFollowsHandler, C!Handler \/ Around
    PROVE  C!LockFollowsHandler'
<1>0. /\ userLock = "held" <=> handler # "idle"
      /\ userLock = "left" => restarts + strays > 0
      /\ restarts \in Nat /\ strays \in Nat
  BY DEF C!LockFollowsHandler, CreationCounts
<1>1. CASE C!Handler
  <2>1. restarts' = restarts
    BY <1>1 DEF C!Handler, C!Answer, C!Checks, C!PaymentOpens, C!NoLink, C!CallFails,
       C!ReportTrouble, C!FindRow, C!InsertRow, C!RowFails, C!ShowCreating, C!SaveMessage,
       C!ShowFailed, C!ShowLink, C!EditFails, C!ClearPromo, C!Fault, C!limits
  <2>. QED
    BY <1>0, <1>1, <2>1, HandlerLock DEF C!LockFollowsHandler
<1>2. CASE C!Restart
  <2>1. restarts' + strays' > 0
    BY <1>0, <1>2 DEF C!Restart
  <2>2. handler' = "idle" /\ userLock' # "held"
    BY <1>2 DEF C!Restart
  <2>. QED
    BY <2>1, <2>2 DEF C!LockFollowsHandler
<1>3. CASE Around /\ ~C!Restart
  <2>1. /\ restarts' = restarts
        /\ \/ UNCHANGED <<handler, userLock, strays>>
           \/ userLock = "free" /\ userLock' = "held" /\ handler' = "answer"
           \/ userLock = "left" /\ userLock' = "free" /\ handler' = handler
           \/ handler' = handler /\ userLock = "free" /\ userLock' = "left" /\ strays' = strays + 1
    BY <1>3 DEF Around, C!Tap, C!TapFails, C!Press, C!LeaveLock, C!NextOrder, C!LockRunsOut,
       C!UserDeletesMessage, C!GatewayMoves, C!Report, C!ShowStatus, C!limits
  <2>. QED
    BY <1>0, <2>1 DEF C!LockFollowsHandler
<1>. QED
  BY <1>1, <1>2, <1>3

\* A row that is there stays.
LEMMA RowsStay ==
    ASSUME CreationTypes, C!Handler \/ Around, NEW p \in Payment, row[p] # "none"
    PROVE  row'[p] # "none"
<1>1. \/ row' = row
      \/ \E q \in Payment : row' = [row EXCEPT ![q] = gate[q]] /\ gate[q] \in {"paid", "closed"}
      \/ row' = [row EXCEPT ![cur] = "open"]
  BY DEF C!Handler, Around, C!Tap, C!TapFails, C!Press, C!Restart, C!NextOrder, C!LockRunsOut,
     C!UserDeletesMessage, C!GatewayMoves, C!Report, C!ShowStatus, C!Answer, C!Checks,
     C!PaymentOpens, C!NoLink, C!CallFails,
     C!ReportTrouble, C!FindRow, C!InsertRow, C!RowFails, C!ShowCreating, C!SaveMessage,
     C!ShowFailed, C!ShowLink, C!EditFails, C!ClearPromo
<1>. QED
  BY <1>1 DEF CreationTypes

\* What is due has a final status, and who has a link has a row.
LEMMA RowFacts ==
    ASSUME CreationTypes, HandlerInv, C!Handler \/ Around
    PROVE  /\ \A p \in due' : row'[p] \in {"paid", "closed"}
           /\ C!LinkHasRow'
<1>1. \/ UNCHANGED <<row, due>>
      \/ \E p \in Payment : C!Report(p)
      \/ row[cur] = "none" /\ row' = [row EXCEPT ![cur] = "open"] /\ due' = due
      \/ row' = row /\ due' \subseteq due
  BY DEF C!Handler, Around, C!Tap, C!TapFails, C!Press, C!Restart, C!NextOrder, C!LockRunsOut,
     C!UserDeletesMessage, C!GatewayMoves, C!ShowStatus, C!Answer, C!Checks, C!PaymentOpens,
     C!NoLink, C!CallFails, C!ReportTrouble, C!FindRow, C!InsertRow, C!RowFails, C!ShowCreating,
     C!SaveMessage, C!ShowFailed, C!ShowLink, C!EditFails, C!ClearPromo
<1>2. \A p \in due' : row'[p] \in {"paid", "closed"}
  <2>1. ASSUME NEW q \in Payment, C!Report(q)
        PROVE  \A p \in due' : row'[p] \in {"paid", "closed"}
    BY <2>1 DEF C!Report, CreationTypes, HandlerInv
  <2>. QED
    BY <1>1, <2>1 DEF CreationTypes, HandlerInv
<1>3. \/ seen' = seen
      \/ handler = "link" /\ seen' = seen \cup {cur}
  BY DEF C!Handler, Around, C!Tap, C!TapFails, C!Press, C!Restart, C!NextOrder, C!LockRunsOut,
     C!UserDeletesMessage, C!GatewayMoves, C!Report, C!ShowStatus, C!Answer, C!Checks,
     C!PaymentOpens, C!NoLink, C!CallFails,
     C!ReportTrouble, C!FindRow, C!InsertRow, C!RowFails, C!ShowCreating, C!SaveMessage,
     C!ShowFailed, C!ShowLink, C!EditFails, C!ClearPromo
<1>4. \A p \in seen' : p \in Payment /\ row[p] # "none"
  BY <1>3 DEF HandlerInv, HasPayment, HasRow, C!LinkHasRow, CreationTypes
<1>. QED
  BY <1>2, <1>4, RowsStay DEF C!LinkHasRow

\* The handler has a payment, with a row, when it needs them.
LEMMA HandlerStep ==
    ASSUME CreationTypes, HandlerInv, C!Handler \/ Around
    PROVE  HandlerInv'
<1> USE DEF HasPayment, HasRow
<1>1. /\ handler \in HasPayment => cur \in Payment
      /\ handler \in HasRow => row[cur] # "none"
      /\ handler = "clear" => cur \in seen
  BY DEF HandlerInv
<1>2. CASE handler' = "idle"
  BY <1>2, RowFacts DEF HandlerInv
<1>3. CASE handler' = handler /\ cur' = cur
  <2>1. handler \in HasRow => row'[cur] # "none"
    BY <1>1, RowsStay
  <2>2. seen \subseteq seen'
    BY DEF C!Handler, Around, C!Tap, C!TapFails, C!Press, C!Restart, C!NextOrder, C!LockRunsOut,
       C!UserDeletesMessage, C!GatewayMoves, C!Report, C!ShowStatus, C!Answer, C!Checks,
       C!PaymentOpens, C!NoLink, C!CallFails, C!ReportTrouble, C!FindRow, C!InsertRow, C!RowFails,
       C!ShowCreating, C!SaveMessage, C!ShowFailed, C!ShowLink, C!EditFails, C!ClearPromo
  <2>. QED
    BY <1>1, <1>3, <2>1, <2>2, RowFacts DEF HandlerInv
<1>4. CASE handler' \in {"answer", "check", "pay"}
  BY <1>4, RowFacts DEF HandlerInv
<1>5. CASE C!PaymentOpens
  BY <1>5, RowFacts DEF C!PaymentOpens, C!Open, C!Step, HandlerInv
<1>6. CASE C!FindRow /\ C!Step(IF row[cur] = "none" THEN "insert" ELSE "creating")
  BY <1>1, <1>6, RowFacts DEF C!FindRow, C!Step, HandlerInv
<1>7. CASE C!InsertRow /\ C!Step("creating")
  <2>1. cur \in Payment /\ cur' = cur /\ handler' = "creating" /\ row'[cur] = "open"
    BY <1>1, <1>7 DEF C!InsertRow, C!Step, C!Raise, C!End, CreationTypes
  <2>. QED
    BY <2>1, RowFacts DEF HandlerInv
<1>8. CASE (C!ShowCreating /\ C!Step("save")) \/ (C!SaveMessage /\ (C!Step("link") \/ C!Step("failed")))
  <2>1. cur \in Payment /\ row' = row /\ row[cur] # "none" /\ handler' \in {"save", "link", "failed"}
        /\ cur' = cur
    BY <1>1, <1>8 DEF C!ShowCreating, C!SaveMessage, C!Step, C!Raise, C!End
  <2>. QED
    BY <2>1, RowFacts DEF HandlerInv
<1>9. CASE C!ShowLink /\ C!Step("clear")
  <2>1. cur \in Payment /\ row' = row /\ row[cur] # "none" /\ handler' = "clear"
        /\ cur' = cur /\ cur \in seen'
    BY <1>1, <1>9 DEF C!ShowLink, C!Step, C!Raise, C!End
  <2>. QED
    BY <2>1, RowFacts DEF HandlerInv
<1>10. CASE C!Handler
  <2>1. \/ handler' \in {"idle", "check", "pay"} \/ (handler' = handler /\ cur' = cur)
        \/ C!PaymentOpens \/ C!FindRow
        \/ C!InsertRow /\ C!Step("creating")
        \/ C!ShowCreating /\ C!Step("save")
        \/ C!SaveMessage /\ (C!Step("link") \/ C!Step("failed"))
        \/ C!ShowLink /\ C!Step("clear")
    BY <1>10 DEF C!Handler, C!Answer, C!Checks, C!NoLink, C!CallFails, C!Stay, C!Raise, C!End,
       C!Step, C!ReportTrouble, C!InsertRow, C!RowFails, C!ShowCreating, C!SaveMessage,
       C!ShowFailed, C!ShowLink, C!EditFails, C!ClearPromo
  <2>2. C!FindRow => C!Step(IF row[cur] = "none" THEN "insert" ELSE "creating")
    BY DEF C!FindRow
  <2>. QED
    BY <1>2, <1>3, <1>4, <1>5, <1>6, <1>7, <1>8, <1>9, <2>1, <2>2
<1>11. CASE Around
  <2>1. handler' \in {"idle", "answer"} \/ (handler' = handler /\ cur' = cur)
    BY <1>11 DEF Around, C!Tap, C!TapFails, C!Press, C!Restart, C!NextOrder, C!LockRunsOut,
       C!UserDeletesMessage, C!GatewayMoves, C!Report, C!ShowStatus
  <2>. QED
    BY <1>2, <1>3, <1>4, <2>1
<1>. QED
  BY <1>10, <1>11

\* Finite sets and their sizes are the same in OrderCreation as here.
LEMMA SameSizes == \A S : /\ C!Cardinality(S) = Cardinality(S)
                          /\ C!IsFiniteSet(S) <=> IsFiniteSet(S)
BY DEF C!Cardinality, Cardinality, C!IsFiniteSet, IsFiniteSet

LEMMA OpenedFinite ==
    ASSUME C!OrderCreationAssumption
    PROVE  IsFiniteSet(Opened) /\ Cardinality(Opened) \in Nat
<1>1. IsFiniteSet(Payment)
  BY SameSizes DEF C!OrderCreationAssumption
<1>2. IsFiniteSet(Opened)
  BY <1>1, FS_Subset DEF Opened
<1>. QED
  BY <1>2, FS_CardinalityType

\* A payment is opened by a handler that may open one, and may not open another.
LEMMA OpeningStep ==
    ASSUME CreationTypes, C!Handler \/ Around
    PROVE  \/ Opened' = Opened /\ taps' = taps /\ (MayOpen' => MayOpen)
           \/ Opened' = Opened /\ taps' = taps + 1
           \/ /\ MayOpen /\ ~MayOpen' /\ taps' = taps
              /\ \E p \in Payment : Opened' = Opened \cup {p}
<1> DEFINE opens == /\ MayOpen /\ ~MayOpen' /\ taps' = taps
                    /\ \E p \in Payment : Opened' = Opened \cup {p}
<1>1. ASSUME NEW p \in Payment, gate' = [gate EXCEPT ![p] = "open"]
      PROVE  Opened' = Opened \cup {p}
  BY <1>1 DEF Opened, CreationTypes
<1>2. CASE C!PaymentOpens
  <2>1. MayOpen /\ ~MayOpen' /\ taps' = taps
    BY <1>2 DEF C!PaymentOpens, C!Step, C!limits, MayOpen
  <2>. QED
    BY <1>1, <1>2, <2>1 DEF C!PaymentOpens, C!Open
<1>3. CASE C!NoLink
  <2>1. MayOpen /\ ~MayOpen' /\ taps' = taps
    BY <1>3 DEF C!NoLink, C!Stay, C!End, C!Fault, MayOpen
  <2>. QED
    BY <1>1, <1>3, <2>1 DEF C!NoLink
<1>4. CASE C!CallFails
  <2>1. MayOpen /\ ~MayOpen' /\ taps' = taps
    BY <1>4 DEF C!CallFails, C!Fault, MayOpen
  <2>2. gate' = gate \/ \E p \in Payment : gate' = [gate EXCEPT ![p] = "open"]
    BY <1>4 DEF C!CallFails
  <2>3. gate' = gate => Opened' = Opened
    BY DEF Opened
  <2>. QED
    BY <1>1, <2>1, <2>2, <2>3
<1>5. CASE C!Handler /\ ~(C!PaymentOpens \/ C!NoLink \/ C!CallFails)
  <2>1. gate' = gate /\ taps' = taps
    BY <1>5 DEF C!Handler, C!Answer, C!Checks, C!ReportTrouble, C!FindRow, C!InsertRow, C!RowFails,
       C!ShowCreating, C!SaveMessage, C!ShowFailed, C!ShowLink, C!EditFails, C!ClearPromo,
       C!Fault, C!limits
  <2>2. MayOpen' => MayOpen
    BY <1>5 DEF C!Handler, C!Answer, C!Checks, C!ReportTrouble, C!FindRow, C!InsertRow, C!RowFails,
       C!ShowCreating, C!SaveMessage, C!ShowFailed, C!ShowLink, C!EditFails, C!ClearPromo,
       C!Stay, C!Raise, C!End, C!Step, MayOpen
  <2>. QED
    BY <2>1, <2>2 DEF Opened
<1>6. CASE C!Tap \/ C!TapFails
  BY <1>6 DEF C!Tap, C!TapFails, C!Press, Opened
<1>7. ASSUME NEW p \in Payment, C!GatewayMoves(p)
      PROVE  Opened' = Opened
  BY <1>7 DEF C!GatewayMoves, Opened, CreationTypes
<1>8. CASE Around /\ ~(C!Tap \/ C!TapFails)
  <2>1. taps' = taps /\ (MayOpen' => MayOpen)
    BY <1>8 DEF Around, C!Restart, C!NextOrder, C!LockRunsOut, C!UserDeletesMessage,
       C!GatewayMoves, C!Report, C!ShowStatus, C!limits, MayOpen
  <2>2. gate' = gate \/ \E p \in Payment : C!GatewayMoves(p)
    BY <1>8 DEF Around, C!Restart, C!NextOrder, C!LockRunsOut, C!UserDeletesMessage,
       C!Report, C!ShowStatus
  <2>. QED
    BY <1>7, <2>1, <2>2 DEF Opened
<1>. QED
  BY <1>2, <1>3, <1>4, <1>5, <1>6, <1>8

LEMMA OpenedStep ==
    ASSUME C!OrderCreationAssumption, CreationTypes, CreationCounts, OpenedInv,
           C!Handler \/ Around
    PROVE  OpenedInv'
<1> DEFINE n == Cardinality(Opened)
           m == Cardinality(Opened')
<1>1. n \in Nat /\ IsFiniteSet(Opened) /\ taps \in Nat
  BY OpenedFinite DEF CreationCounts
<1>2. ASSUME NEW p \in Payment, Opened' = Opened \cup {p}
      PROVE  m \in {n, n + 1}
  BY <1>1, <1>2, FS_AddElement
<1>3. Opened' = Opened => m = n
  OBVIOUS
<1>4. \/ m = n /\ taps' = taps /\ (MayOpen' => MayOpen)
      \/ m = n /\ taps' = taps + 1
      \/ MayOpen /\ ~MayOpen' /\ taps' = taps /\ m \in {n, n + 1}
  BY <1>2, <1>3, OpeningStep
<1>5. n + (IF MayOpen THEN 1 ELSE 0) <= taps
  BY DEF OpenedInv
<1> HIDE DEF n, m
<1>6. m + (IF MayOpen' THEN 1 ELSE 0) <= taps'
  BY <1>1, <1>4, <1>5
<1>. QED
  BY <1>6 DEF OpenedInv, m

LEMMA CreationInit == ASSUME C!OrderCreationAssumption, C!Init PROVE CreationInv
<1>1. CreationTypes /\ CreationCounts
  BY DEF C!Init, CreationTypes, CreationCounts, C!Pc, C!Troubles, C!Screens, C!Gate
<1>2. C!LockFollowsHandler /\ HandlerInv
  BY DEF C!Init, C!LockFollowsHandler, HandlerInv, HasPayment, HasRow, C!LinkHasRow
<1>3. Opened = {} /\ ~MayOpen /\ taps = 0
  BY DEF C!Init, Opened, MayOpen
<1>4. OpenedInv
  <2>1. Cardinality(Opened) = 0
    BY <1>3, FS_EmptySet
  <2>. QED
    BY <1>3, <2>1 DEF OpenedInv
<1>. QED
  BY <1>1, <1>2, <1>4 DEF CreationInv

\* Every step keeps the invariant of the tap.
LEMMA CreationStep ==
    ASSUME C!OrderCreationAssumption, CreationInv, [C!Next]_creation
    PROVE  CreationInv'
<1>1. CASE C!Handler \/ Around
  <2>1. CreationTypes' /\ CreationCounts'
    BY <1>1, HandlerTyped, AroundTyped, CountsTyped DEF CreationInv
  <2>2. C!LockFollowsHandler' /\ HandlerInv' /\ OpenedInv'
    BY <1>1, LockStep, HandlerStep, OpenedStep DEF CreationInv
  <2>. QED
    BY <2>1, <2>2 DEF CreationInv
<1>2. CASE UNCHANGED creation
  BY <1>2 DEF creation, CreationInv, CreationTypes, CreationCounts, C!LockFollowsHandler,
     HandlerInv, OpenedInv, Opened, MayOpen, C!LinkHasRow
<1>. QED
  BY <1>1, <1>2 DEF C!Next, Around

LEMMA CreationMeans ==
    ASSUME C!OrderCreationAssumption, CreationInv
    PROVE  C!OrderCreationInv /\ PaymentsAreKnown
<1>1. C!OrderCreationInv
  BY DEF CreationInv, CreationTypes, CreationCounts, C!OrderCreationInv, C!OrderCreationTypeOK
<1>2. C!OnePaymentPerTap
  <2>1. Cardinality(Opened) + (IF MayOpen THEN 1 ELSE 0) <= taps /\ taps \in Nat
    BY DEF CreationInv, OpenedInv, CreationCounts
  <2>2. Cardinality(Opened) <= taps
    BY <2>1, OpenedFinite
  <2>. QED
    BY <2>2, SameSizes DEF C!OnePaymentPerTap, Opened
<1>. QED
  BY <1>1, <1>2 DEF PaymentsAreKnown, CreationInv, HandlerInv

\* An order is confirmed by the handler that has shown its link.
LEMMA ConfirmedStep ==
    ASSUME CreationInv, [C!Next]_creation, state' = "ORDER_CONFIRMED", state' # state
    PROVE  cur \in seen
<1>1. handler = "clear"
  BY DEF C!Next, C!Handler, C!Tap, C!TapFails, C!Press, C!Restart, C!NextOrder, C!LockRunsOut,
     C!UserDeletesMessage, C!GatewayMoves, C!Report, C!ShowStatus, C!Answer, C!Checks,
     C!PaymentOpens, C!NoLink, C!CallFails,
     C!ReportTrouble, C!FindRow, C!InsertRow, C!RowFails, C!ShowCreating, C!SaveMessage,
     C!ShowFailed, C!ShowLink, C!EditFails, C!ClearPromo, C!Stay, C!Raise, C!End, C!Step, creation
<1>. QED
  BY <1>1 DEF CreationInv, HandlerInv

-----------------------------------------------------------------------------
(* One coroutine of a broadcast (Broadcast).                                *)

JobType ==
    [kind : B!Button, step : B!Steps, row : B!RowType,
     to : SUBSET User, left : SUBSET User, user : User \cup {None}, again : BOOLEAN,
     got : [User -> Nat], tried : [User -> Nat]]

Fresh(j, u)      == j.got[u] = 0 /\ j.tried[u] = 0
OnceFailed(j, u) == j.got[u] <= 1 /\ j.tried[u] = 1
Bounded(j, u)    == j.got[u] <= 1 + j.tried[u] /\ j.got[u] <= 2
Done(j, u, R)    == j.got[u] > 0 \/ u \in R \/ j.tried[u] = 2

\* Whom a coroutine has served, and whom it is still to serve; R: who has ever
\* blocked the bot.
JobOK(j, R) ==
    /\ j.left \subseteq j.to
    /\ j.step \in {"none", "published", "lost", "started", "upload", "record", "fetch"} => j.to = {}
    /\ j.step \in {"mark", "ended", "failed"} => j.left = {}
    /\ j.step \in {"fetch", "send", "drop", "mark"} => j.kind = "broadcast"
    /\ j.step # "none" => j.kind # "save"
    /\ j.step = "drop" => j.user \in j.left /\ j.user \in R
    /\ j.again => j.user \in j.left /\ OnceFailed(j, j.user)
    /\ \A u \in j.to \ j.left : Done(j, u, R)
    /\ \A u \in User : (u \in j.left \/ u \notin j.to) /\ ~(j.again /\ u = j.user) => Fresh(j, u)
    /\ \A u \in User : Bounded(j, u)

\* The same users, with the same copies and attempts.
Same(j, k, u) == k.got[u] = j.got[u] /\ k.tried[u] = j.tried[u]

LEMMA SameCounts ==
    ASSUME NEW j, NEW k, NEW u, Same(j, k, u)
    PROVE  /\ Fresh(k, u) <=> Fresh(j, u)
           /\ OnceFailed(k, u) <=> OnceFailed(j, u)
           /\ Bounded(k, u) <=> Bounded(j, u)
           /\ \A R : Done(k, u, R) <=> Done(j, u, R)
BY DEF Same, Fresh, OnceFailed, Bounded, Done

\* A user that has been served, in the second attempt or the first.
LEMMA ServedOK ==
    ASSUME NEW R, NEW j \in JobType, JobOK(j, R), NEW u \in j.left, j.step \in {"send", "drop"},
           j.again => u = j.user,
           NEW k \in JobType, \A v \in User : v # u => Same(j, k, v),
           k.kind = j.kind, k.to = j.to, k.left = j.left,
           Bounded(k, u), Done(k, u, R)
    PROVE  B!Served(k, u) \in JobType /\ JobOK(B!Served(k, u), R)
<1> DEFINE s == B!Served(k, u)
<1>1. /\ s.kind = j.kind /\ s.to = j.to /\ s.left = j.left \ {u} /\ s.again = FALSE
      /\ s.step = (IF j.left \ {u} = {} THEN "mark" ELSE "send")
      /\ s.got = k.got /\ s.tried = k.tried
  BY DEF B!Served, JobType
<1>2. s \in JobType
  BY DEF B!Served, JobType, B!Steps
<1>3. \A v \in User : Same(k, s, v)
  BY <1>1 DEF Same
<1>4. Bounded(s, u) /\ Done(s, u, R)
  BY <1>3, SameCounts DEF JobType
<1>5. \A v \in User : v # u => Same(j, s, v)
  BY <1>3 DEF Same
<1> HIDE DEF s
<1>6. \A v \in User : Bounded(s, v)
  BY <1>4, <1>5, SameCounts DEF JobOK
<1>7. \A v \in s.to \ s.left : Done(s, v, R)
  <2> SUFFICES ASSUME NEW v \in s.to \ s.left, v # u PROVE Done(s, v, R)
    BY <1>4
  <2>1. v \in User /\ v \in j.to \ j.left
    BY <1>1 DEF JobType
  <2>. QED
    BY <1>5, <2>1, SameCounts DEF JobOK
<1>8. ASSUME NEW v \in User, v \in s.left \/ v \notin s.to
      PROVE  Fresh(s, v)
  <2>1. v # u /\ (v \in j.left \/ v \notin j.to)
    BY <1>1, <1>8 DEF JobOK
  <2>2. Fresh(j, v)
    BY <2>1 DEF JobOK
  <2>. QED
    BY <1>5, <2>1, <2>2, SameCounts
<1>. QED
  BY <1>1, <1>2, <1>6, <1>7, <1>8 DEF JobOK, s

\* A coroutine whose step alone changes.
LEMMA StepOK ==
    ASSUME NEW R, NEW j \in JobType, JobOK(j, R), NEW next \in B!Steps,
           next \in {"none", "published", "lost", "started", "upload", "record", "fetch"} => j.to = {},
           next \in {"mark", "ended", "failed"} => j.left = {},
           next \in {"fetch", "send", "drop", "mark"} => j.kind = "broadcast",
           next # "none" => j.kind # "save",
           next # "drop"
    PROVE  [j EXCEPT !.step = next] \in JobType /\ JobOK([j EXCEPT !.step = next], R)
<1> DEFINE s == [j EXCEPT !.step = next]
<1>1. /\ s.kind = j.kind /\ s.to = j.to /\ s.left = j.left /\ s.again = j.again
      /\ s.step = next /\ s.user = j.user /\ s.got = j.got /\ s.tried = j.tried
  BY DEF JobType
<1>2. s \in JobType
  BY DEF JobType
<1>3. \A v : Same(j, s, v)
  BY <1>1 DEF Same
<1> HIDE DEF s
<1>4. \A v \in User : Bounded(s, v)
  BY <1>3, SameCounts DEF JobOK
<1>5. \A v \in s.to \ s.left : Done(s, v, R)
  BY <1>1, <1>3, SameCounts DEF JobOK
<1>6. \A v \in User : (v \in s.left \/ v \notin s.to) /\ ~(s.again /\ v = s.user) => Fresh(s, v)
  BY <1>1, <1>3, SameCounts DEF JobOK
<1>7. s.again => s.user \in s.left /\ OnceFailed(s, s.user)
  BY <1>1, <1>3, SameCounts DEF JobOK
<1>. QED
  BY <1>1, <1>2, <1>4, <1>5, <1>6, <1>7 DEF JobOK, s

\* Who blocks the bot meanwhile takes nothing from what was done.
LEMMA RefusedGrow ==
    ASSUME NEW R, NEW S, R \subseteq S, NEW j, JobOK(j, R)
    PROVE  JobOK(j, S)
BY DEF JobOK, Done

-----------------------------------------------------------------------------
(* All of them, the form, the listener and the users.                       *)

JobsInv == job \in [B!Press -> JobType] /\ \A o \in B!Press : JobOK(job[o], refused)

\* The orders of the inbox are published ones, each there once, and orders that no
\* form has submitted are not begun.
InboxInv ==
    /\ listening \in BOOLEAN /\ inbox \in Seq(B!Press) /\ submits \in 0 .. MaxSubmits
    /\ \A i \in 1 .. Len(inbox) : inbox[i] <= submits /\ job[inbox[i]].step = "published"
    /\ \A i, k \in 1 .. Len(inbox) : inbox[i] = inbox[k] => i = k
    /\ \A o \in B!Press : o > submits => job[o].step = "none"

\* The form carries the mark of the row along.
FormInv ==
    /\ broadcast \in B!RowType /\ (saved = None \/ saved \in B!RowType)
    /\ B!FileNeedsPreview
    /\ saved # None => saved.sent = broadcast.sent
    /\ B!SentMeansAllTried

UsersInv ==
    /\ active \in [User -> BOOLEAN] /\ blocked \in [User -> BOOLEAN]
    /\ news \in [User -> Seq(BOOLEAN)]
    /\ \A u \in User : blocked[u] => u \in refused
    /\ \A u \in User : \A i \in 1 .. Len(news[u]) : news[u][i] => u \in refused

BoundsInv == moves \in 0 .. MaxMoves /\ breakdowns \in 0 .. MaxBreakdowns

SendingInv == JobsInv /\ InboxInv /\ FormInv /\ UsersInv /\ BoundsInv

\* What a move of a coroutine may do: its job goes on, and nothing of the listener or
\* of the users' answers changes.
Begun(j) == j.step \notin {"none", "published", "lost", "ended", "failed", "dead"}
GoesOn(o) ==
    /\ Begun(job[o])
    /\ \E k \in JobType : /\ JobOK(k, refused) /\ k.step \notin {"none", "published"}
                          /\ job' = [job EXCEPT ![o] = k]
    /\ UNCHANGED <<saved, listening, inbox, blocked, news, submits, moves, refused>>

\* A job whose step alone changes goes on.
LEMMA ToGoesOn ==
    ASSUME JobsInv, NEW o \in B!Press, NEW next \in B!Steps \ {"none", "published", "drop"},
           Begun(job[o]), B!To(o, next),
           UNCHANGED <<saved, listening, inbox, blocked, news, submits, moves, refused>>,
           next \in {"lost", "started", "upload", "record", "fetch"} => job[o].to = {},
           next \in {"mark", "ended", "failed"} => job[o].left = {},
           next \in {"fetch", "send", "mark"} => job[o].kind = "broadcast"
    PROVE  GoesOn(o)
<1> DEFINE k == [job[o] EXCEPT !.step = next]
<1>1. job \in [B!Press -> JobType] /\ job[o] \in JobType /\ JobOK(job[o], refused)
  BY DEF JobsInv
<1>2. job[o].kind # "save"
  BY <1>1 DEF JobOK, Begun
<1>3. k \in JobType /\ JobOK(k, refused)
  BY <1>1, <1>2, StepOK
<1>4. job' = [job EXCEPT ![o] = k] /\ k.step = next
  BY <1>1 DEF B!To, JobType
<1>. QED
  BY <1>3, <1>4 DEF GoesOn

LEMMA ReadRowGoesOn ==
    ASSUME JobsInv, FormInv, NEW o \in B!Press, B!ReadRow(o)
    PROVE  GoesOn(o)
<1>1. job \in [B!Press -> JobType] /\ job[o] \in JobType /\ JobOK(job[o], refused)
      /\ broadcast \in B!RowType /\ job[o].step = "started"
  BY DEF JobsInv, FormInv, B!ReadRow
<1> DEFINE next == IF job[o].kind = "preview" THEN "upload" ELSE "fetch"
           j == [job[o] EXCEPT !.row = broadcast]
           k == [j EXCEPT !.step = next]
<1>2. /\ j \in JobType /\ j.kind = job[o].kind /\ j.to = job[o].to /\ j.left = job[o].left
      /\ j.again = job[o].again /\ j.step = job[o].step /\ j.user = job[o].user
      /\ j.got = job[o].got /\ j.tried = job[o].tried
  BY <1>1 DEF JobType
<1>3. JobOK(j, refused)
  BY <1>1, <1>2 DEF JobOK, Done, Fresh, OnceFailed, Bounded
<1>4. /\ next \in B!Steps /\ j.to = {} /\ j.kind # "save"
      /\ next = "fetch" => j.kind = "broadcast"
  BY <1>1, <1>2 DEF JobOK, JobType, B!Steps, B!Button
<1> HIDE DEF j
<1>5. k \in JobType /\ JobOK(k, refused)
  BY <1>2, <1>3, <1>4, StepOK
<1>6. job' = [job EXCEPT ![o] = k] /\ k.step = next
  BY <1>1, <1>2 DEF B!ReadRow, JobType, j
<1> HIDE DEF k
<1>7. next \notin {"none", "published"}
  OBVIOUS
<1>. QED
  BY <1>1, <1>5, <1>6, <1>7 DEF GoesOn, Begun, B!ReadRow, B!Others

LEMMA FetchGoesOn ==
    ASSUME JobsInv, NEW o \in B!Press, B!Fetch(o)
    PROVE  GoesOn(o)
<1>1. job \in [B!Press -> JobType] /\ job[o] \in JobType /\ JobOK(job[o], refused)
      /\ job[o].step = "fetch"
  BY DEF JobsInv, B!Fetch
<1> DEFINE us == {u \in User : active[u]}
           next == IF us = {} THEN "mark" ELSE "send"
           k == [job[o] EXCEPT !.to = us, !.left = us, !.step = next]
<1>2. /\ k \in JobType /\ k.kind = "broadcast" /\ k.to = us /\ k.left = us
      /\ k.again = job[o].again /\ k.step = next
      /\ k.got = job[o].got /\ k.tried = job[o].tried
  BY <1>1 DEF JobType, JobOK, B!Steps
<1>3. job[o].to = {} /\ ~job[o].again
  BY <1>1 DEF JobOK
<1>4. \A u \in User : Fresh(job[o], u) /\ Bounded(job[o], u)
  BY <1>1, <1>3 DEF JobOK
<1>5. \A u : Same(job[o], k, u)
  BY <1>2 DEF Same
<1>6. job' = [job EXCEPT ![o] = k]
  BY <1>1 DEF B!Fetch, JobType
<1> HIDE DEF k
<1>7. \A u \in User : Fresh(k, u) /\ Bounded(k, u)
  BY <1>4, <1>5, SameCounts
<1>8. JobOK(k, refused)
  BY <1>2, <1>3, <1>7 DEF JobOK
<1>. QED
  BY <1>1, <1>2, <1>6, <1>8 DEF GoesOn, Begun, B!Fetch, B!Others

LEMMA DeliverGoesOn ==
    ASSUME JobsInv, NEW o \in B!Press, NEW u \in User, B!Deliver(o, u)
    PROVE  GoesOn(o)
<1>1. job \in [B!Press -> JobType] /\ job[o] \in JobType /\ JobOK(job[o], refused)
      /\ job[o].step = "send"
  BY DEF JobsInv, B!Deliver, B!Serves
<1> DEFINE j == job[o]
           k == [j EXCEPT !.got[u] = @ + 1]
<1>2. u \in j.left /\ (j.again => u = j.user)
  BY <1>1 DEF B!Deliver, B!Serves, JobOK
<1>4. j.got \in [User -> Nat] /\ j.got[u] + 1 \in Nat /\ j.got[u] \in Nat /\ j.tried[u] \in Nat
  BY <1>1 DEF JobType
<1>3. /\ k \in JobType /\ k.kind = j.kind /\ k.to = j.to /\ k.left = j.left
      /\ k.got[u] = j.got[u] + 1 /\ k.tried[u] = j.tried[u]
      /\ \A v \in User : v # u => Same(j, k, v)
  <2>1. /\ k.kind = j.kind /\ k.to = j.to /\ k.left = j.left /\ k.tried = j.tried
        /\ k.got = [j.got EXCEPT ![u] = j.got[u] + 1]
    BY <1>1 DEF JobType
  <2>2. k.got \in [User -> Nat]
    BY <1>4, <2>1
  <2>3. k \in JobType
    BY <1>1, <1>4 DEF JobType
  <2> HIDE DEF k, j
  <2>. QED
    BY <1>4, <2>1, <2>2, <2>3 DEF Same
<1>5. Fresh(j, u) \/ OnceFailed(j, u)
  BY <1>1, <1>2 DEF JobOK
<1>6. job' = [job EXCEPT ![o] = B!Served(k, u)]
  BY <1>1 DEF B!Deliver
<1> HIDE DEF j, k
<1>7. Bounded(k, u) /\ Done(k, u, refused)
  BY <1>3, <1>4, <1>5 DEF Fresh, OnceFailed, Bounded, Done
<1>8. B!Served(k, u) \in JobType /\ JobOK(B!Served(k, u), refused)
  BY <1>1, <1>2, <1>3, <1>7, ServedOK DEF j
<1>9. B!Served(k, u).step \notin {"none", "published"}
  BY <1>3 DEF B!Served, JobType
<1>. QED
  BY <1>1, <1>6, <1>8, <1>9 DEF GoesOn, Begun, B!Deliver, B!Others

LEMMA SendFailsGoesOn ==
    ASSUME JobsInv, NEW o \in B!Press, NEW u \in User, B!SendFails(o, u)
    PROVE  GoesOn(o)
<1> DEFINE j == job[o]
           k(n) == [j EXCEPT !.got[u] = @ + n, !.tried[u] = @ + 1]
           again(n) == [k(n) EXCEPT !.again = TRUE, !.user = u]
<1>1. job \in [B!Press -> JobType] /\ j \in JobType /\ JobOK(j, refused) /\ j.step = "send"
  BY DEF JobsInv, B!SendFails, B!Serves
<1>2. u \in j.left /\ (j.again => u = j.user)
  BY <1>1 DEF B!SendFails, B!Serves, JobOK
<1>3. PICK n \in {0, 1} :
         job' = [job EXCEPT ![o] = IF j.again THEN B!Served(k(n), u) ELSE again(n)]
  <2>1. PICK n \in IF blocked[u] THEN {0} ELSE {0, 1} :
           job' = [job EXCEPT ![o] = IF k(n).again THEN B!Served(k(n), u) ELSE again(n)]
    BY DEF B!SendFails
  <2>2. k(n).again = j.again
    BY <1>1 DEF JobType
  <2> HIDE DEF j, k, again
  <2>3. n \in {0, 1}
    OBVIOUS
  <2>. QED
    BY <2>1, <2>2, <2>3
<1>5. /\ j.got \in [User -> Nat] /\ j.tried \in [User -> Nat]
      /\ j.got[u] \in Nat /\ j.tried[u] \in Nat
      /\ j.got[u] + n \in Nat /\ j.tried[u] + 1 \in Nat
  BY <1>1 DEF JobType
<1>4. /\ k(n) \in JobType /\ k(n).kind = j.kind /\ k(n).to = j.to /\ k(n).left = j.left
      /\ k(n).step = "send"
      /\ k(n).got[u] = j.got[u] + n /\ k(n).tried[u] = j.tried[u] + 1
      /\ \A v \in User : v # u => Same(j, k(n), v)
  <2>1. /\ k(n).kind = j.kind /\ k(n).to = j.to /\ k(n).left = j.left /\ k(n).step = "send"
        /\ k(n).got = [j.got EXCEPT ![u] = j.got[u] + n]
        /\ k(n).tried = [j.tried EXCEPT ![u] = j.tried[u] + 1]
    BY <1>1 DEF JobType
  <2>2. k(n).got \in [User -> Nat] /\ k(n).tried \in [User -> Nat]
    BY <1>5, <2>1
  <2>3. k(n) \in JobType
    BY <1>1, <1>5 DEF JobType
  <2> HIDE DEF k, j
  <2>. QED
    BY <1>5, <2>1, <2>2, <2>3 DEF Same
<1>6. IF j.again THEN OnceFailed(j, u) ELSE Fresh(j, u)
  BY <1>1, <1>2 DEF JobOK
<1>7. CASE j.again
  <2> HIDE DEF j, k
  <2>1. Bounded(k(n), u) /\ Done(k(n), u, refused)
    BY <1>4, <1>5, <1>6, <1>7 DEF OnceFailed, Bounded, Done
  <2>2. B!Served(k(n), u) \in JobType /\ JobOK(B!Served(k(n), u), refused)
    BY <1>1, <1>2, <1>4, <2>1, ServedOK
  <2>3. B!Served(k(n), u).step \notin {"none", "published"}
    BY <1>4 DEF B!Served, JobType
  <2>. QED
    BY <1>1, <1>3, <1>7, <2>2, <2>3 DEF GoesOn, Begun, B!SendFails, B!Others, j
<1>8. CASE ~j.again
  <2> DEFINE s == again(n)
  <2>1. /\ s \in JobType /\ s.kind = j.kind /\ s.to = j.to /\ s.left = j.left
        /\ s.step = "send" /\ s.again = TRUE /\ s.user = u
        /\ s.got = k(n).got /\ s.tried = k(n).tried
    BY <1>4 DEF JobType
  <2>2. job' = [job EXCEPT ![o] = s]
    BY <1>3, <1>8
  <2> HIDE DEF j, k, s
  <2>3. OnceFailed(s, u) /\ Bounded(s, u)
    <3>1. j.got[u] = 0 /\ j.tried[u] = 0
      BY <1>6, <1>8 DEF Fresh
    <3>2. s.got[u] \in {0, 1} /\ s.tried[u] = 1
      <4>1. s.got[u] = 0 + n /\ s.tried[u] = 0 + 1
        BY <1>4, <2>1, <3>1
      <4>. QED
        BY <4>1
    <3>. QED
      BY <3>2 DEF OnceFailed, Bounded
  <2>4. \A v \in User : v # u => Same(j, s, v)
    BY <1>4, <2>1 DEF Same
  <2>5. \A v \in User : Bounded(s, v)
    BY <1>1, <2>3, <2>4, SameCounts DEF JobOK
  <2>6. \A v \in s.to \ s.left : Done(s, v, refused)
    <3> SUFFICES ASSUME NEW v \in s.to \ s.left PROVE Done(s, v, refused)
      OBVIOUS
    <3>1. v \in User /\ v # u /\ Done(j, v, refused)
      BY <1>1, <1>2, <2>1 DEF JobOK, JobType
    <3>. QED
      BY <2>4, <3>1, SameCounts
  <2>7. \A v \in User : (v \in s.left \/ v \notin s.to) /\ v # u => Fresh(s, v)
    <3> SUFFICES ASSUME NEW v \in User, v \in s.left \/ v \notin s.to, v # u
                 PROVE  Fresh(s, v)
      OBVIOUS
    <3>1. Fresh(j, v)
      BY <1>1, <1>8, <2>1 DEF JobOK
    <3>. QED
      BY <2>4, <3>1, SameCounts
  <2>8. JobOK(s, refused)
    BY <1>1, <1>2, <2>1, <2>3, <2>5, <2>6, <2>7 DEF JobOK
  <2>. QED
    BY <1>1, <2>1, <2>2, <2>8 DEF GoesOn, Begun, B!SendFails, B!Others, j
<1>. QED
  BY <1>7, <1>8

LEMMA RefuseGoesOn ==
    ASSUME JobsInv, UsersInv, NEW o \in B!Press, NEW u \in User, B!Refuse(o, u)
    PROVE  GoesOn(o)
<1> DEFINE j == job[o]
           s == [j EXCEPT !.step = "drop", !.user = u]
<1>1. job \in [B!Press -> JobType] /\ j \in JobType /\ JobOK(j, refused) /\ j.step = "send"
      /\ u \in refused
  BY DEF JobsInv, UsersInv, B!Refuse, B!Serves
<1>2. u \in j.left /\ (j.again => u = j.user)
  BY <1>1 DEF B!Refuse, B!Serves, JobOK
<1>3. /\ s \in JobType /\ s.kind = j.kind /\ s.to = j.to /\ s.left = j.left
      /\ s.step = "drop" /\ s.again = j.again /\ s.user = u
      /\ s.got = j.got /\ s.tried = j.tried
  BY <1>1 DEF JobType, B!Steps
<1>4. job' = [job EXCEPT ![o] = s]
  BY <1>1 DEF B!Refuse, JobType
<1>5. \A v : Same(j, s, v)
  BY <1>3 DEF Same
<1> HIDE DEF s
<1>6. \A v \in User : Bounded(s, v)
  BY <1>1, <1>5, SameCounts DEF JobOK
<1>7. \A v \in s.to \ s.left : Done(s, v, refused)
  BY <1>1, <1>3, <1>5, SameCounts DEF JobOK
<1>8. \A v \in User : (v \in s.left \/ v \notin s.to) /\ ~(s.again /\ v = s.user) => Fresh(s, v)
  BY <1>1, <1>2, <1>3, <1>5, SameCounts DEF JobOK
<1>9. s.again => OnceFailed(s, s.user)
  BY <1>1, <1>2, <1>3, <1>5, SameCounts DEF JobOK
<1>10. JobOK(s, refused)
  BY <1>1, <1>2, <1>3, <1>6, <1>7, <1>8, <1>9 DEF JobOK
<1>. QED
  BY <1>1, <1>3, <1>4, <1>10 DEF GoesOn, Begun, B!Refuse, B!Others

\* A blocked user is done with, whether it is saved as such or not.
LEMMA DropGoesOn ==
    ASSUME JobsInv, NEW o \in B!Press, B!Drop(o) \/ B!DropFails(o)
    PROVE  GoesOn(o) /\ job[o].user \in User \cap refused
<1> DEFINE j == job[o]
           u == j.user
<1>1. job \in [B!Press -> JobType] /\ j \in JobType /\ JobOK(j, refused) /\ j.step = "drop"
  BY DEF JobsInv, B!Drop, B!DropFails
<1>2. u \in j.left /\ u \in refused /\ u \in User
  BY <1>1 DEF JobOK, JobType
<1>3. \A v \in User : Same(j, j, v)
  BY DEF Same
<1>4. Bounded(j, u) /\ Done(j, u, refused)
  BY <1>1, <1>2 DEF JobOK, Done
<1>5. job' = [job EXCEPT ![o] = B!Served(j, u)]
  BY <1>1 DEF B!Drop, B!DropFails
<1> HIDE DEF j, u
<1>6. B!Served(j, u) \in JobType /\ JobOK(B!Served(j, u), refused)
  BY <1>1, <1>2, <1>3, <1>4, ServedOK DEF u
<1>7. B!Served(j, u).step \notin {"none", "published"}
  BY <1>1 DEF B!Served, JobType
<1>. QED
  BY <1>1, <1>2, <1>5, <1>6, <1>7 DEF GoesOn, Begun, B!Drop, B!DropFails, B!Others, j, u

\* Every move of a coroutine.
LEMMA CoroutineGoesOn ==
    ASSUME SendingInv, NEW o \in B!Press, B!JobStep(o) \/ B!JobFault(o)
    PROVE  GoesOn(o)
<1>1. JobsInv /\ FormInv /\ UsersInv /\ job[o] \in JobType /\ JobOK(job[o], refused)
  BY DEF SendingInv, JobsInv
<1>2. CASE B!ReadRow(o)
  BY <1>1, <1>2, ReadRowGoesOn
<1>3. CASE B!UploadPreview(o)
  BY <1>1, <1>3, ToGoesOn DEF B!UploadPreview, B!Others, B!Steps, Begun, JobOK
<1>4. CASE B!RecordPreview(o)
  BY <1>1, <1>4, ToGoesOn DEF B!RecordPreview, B!Others, B!Steps, Begun, JobOK
<1>5. CASE B!MarkSent(o)
  BY <1>1, <1>5, ToGoesOn DEF B!MarkSent, B!Others, B!Steps, Begun, JobOK
<1>6. CASE B!JobFails(o)
  BY <1>1, <1>6, ToGoesOn DEF B!JobFails, B!Others, B!Steps, Begun, JobOK
<1>7. CASE B!Fetch(o)
  BY <1>1, <1>7, FetchGoesOn
<1>8. CASE \E u \in User : B!Deliver(o, u) \/ B!Refuse(o, u) \/ B!SendFails(o, u)
  BY <1>1, <1>8, DeliverGoesOn, RefuseGoesOn, SendFailsGoesOn
<1>9. CASE B!Drop(o) \/ B!DropFails(o)
  BY <1>1, <1>9, DropGoesOn
<1>. QED
  BY <1>2, <1>3, <1>4, <1>5, <1>6, <1>7, <1>8, <1>9 DEF B!JobStep, B!JobFault

\* A coroutine that goes on leaves the other jobs, the inbox and the coroutines that
\* have ended as they are.
LEMMA GoingOnKeepsJobs ==
    ASSUME SendingInv, NEW o \in B!Press, GoesOn(o)
    PROVE  /\ JobsInv' /\ InboxInv'
           /\ \A q \in B!Press : job[q].step \in {"none", "ended"} => job'[q] = job[q]
<1>1. job \in [B!Press -> JobType] /\ \A q \in B!Press : JobOK(job[q], refused)
  BY DEF SendingInv, JobsInv
<1>2. PICK k \in JobType : /\ JobOK(k, refused) /\ k.step \notin {"none", "published"}
                           /\ job' = [job EXCEPT ![o] = k]
  BY DEF GoesOn
<1>3. \A q \in B!Press : job'[q] = IF q = o THEN k ELSE job[q]
  BY <1>1, <1>2
<1>4. JobsInv'
  <2>1. job' \in [B!Press -> JobType]
    BY <1>1, <1>2
  <2>2. refused' = refused
    BY DEF GoesOn
  <2>. QED
    BY <1>1, <1>2, <1>3, <2>1, <2>2 DEF JobsInv
<1>5. \A q \in B!Press : job[q].step \in {"none", "published", "ended"} => job'[q] = job[q]
  BY <1>3 DEF GoesOn, Begun
<1>6. InboxInv'
  <2>1. InboxInv /\ listening' = listening /\ inbox' = inbox /\ submits' = submits
    BY DEF SendingInv, GoesOn
  <2>2. \A i \in 1 .. Len(inbox) : inbox[i] \in B!Press
    BY <2>1 DEF InboxInv
  <2>. QED
    BY <1>5, <2>1, <2>2 DEF InboxInv
<1>. QED
  BY <1>4, <1>5, <1>6

\* An ended broadcast that all have been tried for.
TriedAll(j) == j.kind = "broadcast" /\ j.step = "ended" /\ j.left = {}

LEMMA CoroutineKeepsInv ==
    ASSUME B!BroadcastAssumption, SendingInv, NEW o \in B!Press, B!JobStep(o) \/ B!JobFault(o)
    PROVE  SendingInv'
<1>1. GoesOn(o)
  BY CoroutineGoesOn
<1>2. /\ JobsInv' /\ InboxInv'
      /\ \A q \in B!Press : job[q].step \in {"none", "ended"} => job'[q] = job[q]
  BY <1>1, GoingOnKeepsJobs
<1>3. /\ broadcast \in B!RowType /\ (saved = None \/ saved \in B!RowType) /\ B!FileNeedsPreview
      /\ saved # None => saved.sent = broadcast.sent
      /\ B!SentMeansAllTried /\ saved' = saved
  BY <1>1 DEF SendingInv, FormInv, GoesOn
<1>4. (\E q \in B!Press : TriedAll(job[q])) => \E q \in B!Press : TriedAll(job'[q])
  BY <1>2 DEF TriedAll
<1>5. FormInv'
  <2>1. CASE broadcast' = broadcast
    BY <1>3, <1>4, <2>1 DEF FormInv, B!FileNeedsPreview, B!SentMeansAllTried, TriedAll
  <2>2. CASE B!RecordPreview(o)
    <3>1. /\ broadcast' \in B!RowType /\ broadcast'.preview = TRUE
          /\ broadcast'.sent = broadcast.sent /\ saved = None
      <4>1. job[o].row \in B!RowType
        BY DEF SendingInv, JobsInv, JobType
      <4>. QED
        BY <1>3, <2>2, <4>1 DEF B!RecordPreview, B!RowType
    <3>. QED
      BY <1>3, <1>4, <3>1 DEF FormInv, B!FileNeedsPreview, B!SentMeansAllTried, TriedAll
  <2>3. CASE B!MarkSent(o)
    <3>1. /\ broadcast' \in B!RowType /\ broadcast'.file = broadcast.file
          /\ broadcast'.preview = broadcast.preview /\ saved = None
      BY <1>3, <2>3 DEF B!MarkSent, B!RowType
    <3>2. TriedAll(job'[o])
      <4>1. job \in [B!Press -> JobType] /\ JobOK(job[o], refused) /\ job[o].step = "mark"
        BY <2>3 DEF SendingInv, JobsInv, B!MarkSent
      <4>2. job' = [job EXCEPT ![o].step = "ended"]
        BY <2>3 DEF B!MarkSent, B!To
      <4>. QED
        BY <4>1, <4>2 DEF JobOK, JobType, TriedAll
    <3>. QED
      BY <1>3, <3>1, <3>2 DEF FormInv, B!FileNeedsPreview, B!SentMeansAllTried, TriedAll
  <2>. QED
    BY <2>1, <2>2, <2>3 DEF B!JobStep, B!JobFault, B!ReadRow, B!UploadPreview, B!Fetch, B!Drop,
       B!Deliver, B!Refuse, B!JobFails, B!DropFails, B!SendFails
<1>6. UsersInv'
  <2>1. UsersInv /\ UNCHANGED <<blocked, news, refused>>
    BY <1>1 DEF SendingInv, GoesOn
  <2>2. \/ active' = active
        \/ \E u \in User : active' = [active EXCEPT ![u] = FALSE]
    <3>1. B!Drop(o) => job[o].user \in User
      BY DropGoesOn DEF SendingInv
    <3>. QED
      BY <3>1 DEF B!JobStep, B!JobFault, B!ReadRow, B!UploadPreview, B!Fetch, B!Drop, B!RecordPreview,
         B!MarkSent, B!Deliver, B!Refuse, B!JobFails, B!DropFails, B!SendFails
  <2>. QED
    BY <2>1, <2>2 DEF UsersInv
<1>7. BoundsInv'
  <2>1. MaxBreakdowns \in Nat
    BY DEF B!BroadcastAssumption
  <2>2. moves' = moves /\ BoundsInv
    BY <1>1 DEF SendingInv, GoesOn
  <2>3. breakdowns' = breakdowns \/ B!Fault
    BY DEF B!JobStep, B!JobFault, B!ReadRow, B!UploadPreview, B!Fetch, B!Drop, B!RecordPreview,
       B!MarkSent, B!Deliver, B!Refuse, B!JobFails, B!DropFails, B!SendFails
  <2>. QED
    BY <2>1, <2>2, <2>3 DEF BoundsInv, B!Fault
<1>. QED
  BY <1>2, <1>5, <1>6, <1>7 DEF SendingInv

\* A form that is submitted begins an order that nobody has begun.
LEMMA SubmitKeepsInv ==
    ASSUME B!BroadcastAssumption, SendingInv, NEW m \in B!Files, NEW button \in B!Button,
           B!Submit(m, button)
    PROVE  SendingInv'
<1> DEFINE o == submits + 1
           k == [job[o] EXCEPT !.kind = button,
                               !.step = IF listening THEN "published" ELSE "lost"]
<1>1. /\ saved = None /\ submits < MaxSubmits /\ submits' = o /\ saved' = B!Saved(m)
      /\ UNCHANGED <<broadcast, listening, active, blocked, news, moves, breakdowns, refused>>
  BY DEF B!Submit
<1>2. submits \in Nat /\ MaxSubmits \in Nat /\ o \in B!Press /\ submits' \in 0 .. MaxSubmits
  BY <1>1 DEF SendingInv, InboxInv, B!BroadcastAssumption, B!Press
<1>3. /\ broadcast \in B!RowType /\ B!FileNeedsPreview /\ B!SentMeansAllTried
      /\ job \in [B!Press -> JobType] /\ \A q \in B!Press : JobOK(job[q], refused)
  BY DEF SendingInv, JobsInv, FormInv
<1>4. /\ B!Saved(m) \in B!RowType /\ B!Saved(m).sent = broadcast.sent
      /\ B!Saved(m).file # None => B!Saved(m).preview
  BY <1>3 DEF B!Saved, B!RowType, B!Files, B!FileNeedsPreview
<1>5. job[o].step = "none"
  <2>1. o > submits
    BY <1>2
  <2>. QED
    BY <1>2, <2>1 DEF SendingInv, InboxInv
<1>6. CASE B!Accepted(button, saved')
  <2>1. /\ job' = [job EXCEPT ![o] = k]
        /\ inbox' = IF listening THEN Append(inbox, o) ELSE inbox
    BY <1>1, <1>2, <1>3, <1>6 DEF B!Submit, JobType
  <2>2. button # "save"
    BY <1>6 DEF B!Accepted
  <2>3. /\ k \in JobType /\ JobOK(k, refused)
        /\ k.step = (IF listening THEN "published" ELSE "lost")
    <3> DEFINE j == [job[o] EXCEPT !.kind = button]
    <3>1. /\ j \in JobType /\ j.kind = button /\ j.step = "none" /\ j.to = job[o].to
          /\ j.left = job[o].left /\ j.again = job[o].again /\ j.user = job[o].user
          /\ j.got = job[o].got /\ j.tried = job[o].tried
      BY <1>2, <1>3, <1>5 DEF JobType
    <3>2. JobOK(j, refused)
      BY <1>2, <1>3, <1>5, <2>2, <3>1 DEF JobOK, Fresh, OnceFailed, Bounded, Done
    <3>3. j.to = {}
      BY <3>1, <3>2 DEF JobOK
    <3> DEFINE next == IF listening THEN "published" ELSE "lost"
    <3>4. next \in {"published", "lost"} /\ next \in B!Steps
      BY DEF B!Steps
    <3>5. k = [j EXCEPT !.step = next]
      BY <1>2, <1>3, <3>1 DEF JobType
    <3>6. k.step = next
      BY <1>2, <1>3 DEF JobType
    <3> HIDE DEF j, k, next
    <3>7. [j EXCEPT !.step = next] \in JobType /\ JobOK([j EXCEPT !.step = next], refused)
      BY <2>2, <3>1, <3>2, <3>3, <3>4, StepOK
    <3>. QED
      BY <3>5, <3>6, <3>7 DEF next
  <2> HIDE DEF k
  <2>4. \A q \in B!Press : job'[q] = IF q = o THEN k ELSE job[q]
    BY <1>2, <1>3, <2>1
  <2>5. JobsInv'
    <3>1. job' \in [B!Press -> JobType]
      BY <1>2, <1>3, <2>1, <2>3
    <3>. QED
      BY <1>1, <1>3, <2>3, <2>4, <3>1 DEF JobsInv
  <2>6. InboxInv'
    <3>1. /\ inbox \in Seq(B!Press) /\ listening \in BOOLEAN
          /\ \A i \in 1 .. Len(inbox) : inbox[i] \in B!Press /\ inbox[i] <= submits
                /\ job[inbox[i]].step = "published"
          /\ \A i, n \in 1 .. Len(inbox) : inbox[i] = inbox[n] => i = n
          /\ \A q \in B!Press : q > submits => job[q].step = "none"
      BY DEF SendingInv, InboxInv
    <3>2. \A q \in B!Press : q > o => q > submits /\ q # o
      BY <1>2 DEF B!Press
    <3>3. \A q \in B!Press : q > submits' => job'[q].step = "none"
      BY <1>1, <2>4, <3>1, <3>2
    <3>4. \A q \in B!Press : q <= submits => q <= o /\ q # o
      BY <1>2 DEF B!Press
    <3>5. \A i \in 1 .. Len(inbox) : /\ inbox[i] <= o /\ inbox[i] # o
                                     /\ job'[inbox[i]].step = "published"
      BY <2>4, <3>1, <3>4
    <3>6. CASE listening
      <4>1. /\ inbox' = Append(inbox, o) /\ inbox' \in Seq(B!Press)
            /\ Len(inbox') = Len(inbox) + 1 /\ inbox'[Len(inbox) + 1] = o
            /\ \A i \in 1 .. Len(inbox) : inbox'[i] = inbox[i]
        BY <1>2, <2>1, <3>1, <3>6
      <4>2. Len(inbox) \in Nat
        BY <3>1
      <4>3. \A i \in 1 .. Len(inbox') : i \in 1 .. Len(inbox) \/ i = Len(inbox) + 1
        BY <4>1, <4>2
      <4>4. job'[o].step = "published" /\ o <= o
        BY <1>2, <2>3, <2>4, <3>6
      <4>5. \A i \in 1 .. Len(inbox') : inbox'[i] <= o /\ job'[inbox'[i]].step = "published"
        BY <3>5, <4>1, <4>3, <4>4
      <4>6. \A i, n \in 1 .. Len(inbox') : inbox'[i] = inbox'[n] => i = n
        BY <3>1, <3>5, <4>1, <4>3
      <4>. QED
        BY <1>1, <1>2, <3>1, <3>3, <4>1, <4>5, <4>6 DEF InboxInv
    <3>7. CASE ~listening
      <4>1. inbox' = inbox
        BY <2>1, <3>7
      <4>. QED
        BY <1>1, <1>2, <3>1, <3>3, <3>5, <4>1 DEF InboxInv
    <3>. QED
      BY <3>6, <3>7
  <2>7. FormInv'
    <3>1. (\E q \in B!Press : TriedAll(job[q])) => \E q \in B!Press : TriedAll(job'[q])
      BY <1>5, <2>4 DEF TriedAll
    <3>. QED
      BY <1>1, <1>3, <1>4, <3>1 DEF FormInv, B!FileNeedsPreview, B!SentMeansAllTried, TriedAll
  <2>. QED
    BY <1>1, <2>5, <2>6, <2>7 DEF SendingInv, UsersInv, BoundsInv
<1>7. CASE ~B!Accepted(button, saved')
  <2>1. job' = job /\ inbox' = inbox
    BY <1>7 DEF B!Submit
  <2>2. JobsInv' /\ UsersInv' /\ BoundsInv'
    BY <1>1, <2>1 DEF SendingInv, JobsInv, UsersInv, BoundsInv
  <2>3. FormInv'
    BY <1>1, <1>3, <1>4, <2>1 DEF FormInv, B!FileNeedsPreview, B!SentMeansAllTried
  <2>4. InboxInv'
    <3>1. \A q \in B!Press : /\ q > o => q > submits
                             /\ q <= submits => q <= o
      BY <1>2 DEF B!Press
    <3>2. /\ inbox \in Seq(B!Press) /\ listening \in BOOLEAN
          /\ \A i \in 1 .. Len(inbox) : inbox[i] \in B!Press /\ inbox[i] <= submits
                /\ job[inbox[i]].step = "published"
          /\ \A i, n \in 1 .. Len(inbox) : inbox[i] = inbox[n] => i = n
          /\ \A q \in B!Press : q > submits => job[q].step = "none"
      BY DEF SendingInv, InboxInv
    <3>. QED
      BY <1>1, <1>2, <2>1, <3>1, <3>2 DEF InboxInv
  <2>. QED
    BY <2>2, <2>3, <2>4 DEF SendingInv
<1>. QED
  BY <1>6, <1>7

LEMMA ListenKeepsInv ==
    ASSUME SendingInv, B!Listen
    PROVE  SendingInv'
<1> DEFINE o == Head(inbox)
           k == [job[o] EXCEPT !.step = "started"]
<1>1. /\ inbox # <<>> /\ inbox' = Tail(inbox) /\ job' = [job EXCEPT ![o].step = "started"]
      /\ UNCHANGED <<broadcast, saved, listening, active, blocked, news, submits, moves,
                     breakdowns, refused>>
  BY DEF B!Listen
<1>2. /\ inbox \in Seq(B!Press) /\ listening \in BOOLEAN /\ submits \in 0 .. MaxSubmits
      /\ \A i \in 1 .. Len(inbox) : inbox[i] \in B!Press /\ inbox[i] <= submits
            /\ job[inbox[i]].step = "published"
      /\ \A i, n \in 1 .. Len(inbox) : inbox[i] = inbox[n] => i = n
      /\ \A q \in B!Press : q > submits => job[q].step = "none"
  BY DEF SendingInv, InboxInv
<1>3. /\ o = inbox[1] /\ Len(inbox) \in Nat /\ 1 \in 1 .. Len(inbox)
      /\ inbox' \in Seq(B!Press) /\ Len(inbox') = Len(inbox) - 1
      /\ \A i \in 1 .. Len(inbox') : inbox'[i] = inbox[i + 1]
  BY <1>1, <1>2
<1>4. /\ job \in [B!Press -> JobType] /\ \A q \in B!Press : JobOK(job[q], refused)
      /\ o \in B!Press /\ job[o].step = "published"
  BY <1>2, <1>3 DEF SendingInv, JobsInv
<1>5. k \in JobType /\ JobOK(k, refused)
  <2>1. job[o].to = {} /\ job[o].kind # "save" /\ "started" \in B!Steps
    BY <1>4 DEF JobOK, B!Steps
  <2>. QED
    BY <1>4, <2>1, StepOK
<1>6. job' = [job EXCEPT ![o] = k]
  BY <1>1, <1>4
<1> HIDE DEF k
<1>7. \A q \in B!Press : job'[q] = IF q = o THEN k ELSE job[q]
  BY <1>4, <1>6
<1>8. JobsInv'
  <2>1. job' \in [B!Press -> JobType]
    BY <1>4, <1>5, <1>6
  <2>. QED
    BY <1>1, <1>4, <1>5, <1>7, <2>1 DEF JobsInv
<1>9. InboxInv'
  <2>1. \A i \in 1 .. Len(inbox') : i + 1 \in 1 .. Len(inbox) /\ i + 1 # 1
    BY <1>3
  <2>2. \A i \in 1 .. Len(inbox') : inbox'[i] # o
    BY <1>2, <1>3, <2>1
  <2>3. \A i \in 1 .. Len(inbox') : inbox'[i] <= submits /\ job'[inbox'[i]].step = "published"
    <3> SUFFICES ASSUME NEW i \in 1 .. Len(inbox')
                 PROVE  inbox'[i] <= submits /\ job'[inbox'[i]].step = "published"
      OBVIOUS
    <3>1. /\ inbox'[i] = inbox[i + 1] /\ inbox[i + 1] \in B!Press /\ inbox[i + 1] <= submits
          /\ job[inbox[i + 1]].step = "published"
      BY <1>2, <1>3, <2>1
    <3>2. job'[inbox'[i]] = job[inbox'[i]]
      BY <1>7, <2>2, <3>1
    <3>. QED
      BY <3>1, <3>2
  <2>4. \A i, n \in 1 .. Len(inbox') : inbox'[i] = inbox'[n] => i = n
    <3> SUFFICES ASSUME NEW i \in 1 .. Len(inbox'), NEW n \in 1 .. Len(inbox'), inbox'[i] = inbox'[n]
                 PROVE  i = n
      OBVIOUS
    <3>1. i + 1 = n + 1
      BY <1>2, <1>3, <2>1
    <3>. QED
      BY <3>1
  <2>5. \A q \in B!Press : q > submits => job'[q].step = "none"
    BY <1>2, <1>4, <1>7
  <2>. QED
    BY <1>1, <1>2, <1>3, <2>3, <2>4, <2>5 DEF InboxInv
<1>10. FormInv'
  <2>1. (\E q \in B!Press : TriedAll(job[q])) => \E q \in B!Press : TriedAll(job'[q])
    BY <1>4, <1>7 DEF TriedAll
  <2>. QED
    BY <1>1, <2>1 DEF SendingInv, FormInv, B!FileNeedsPreview, B!SentMeansAllTried, TriedAll
<1>. QED
  BY <1>1, <1>8, <1>9, <1>10 DEF SendingInv, UsersInv, BoundsInv

\* The listener ends or the bot dies: orders are lost and coroutines broken off, and
\* those that have ended are as they were.
LEMMA DeathKeepsInv ==
    ASSUME B!BroadcastAssumption, SendingInv, B!ListenerEnds \/ B!BotRestarts
    PROVE  SendingInv'
<1>1. /\ inbox' = <<>> /\ listening' \in BOOLEAN
      /\ UNCHANGED <<broadcast, saved, active, blocked, news, submits, moves, refused>>
  BY DEF B!ListenerEnds, B!BotRestarts
<1>2. /\ job \in [B!Press -> JobType] /\ \A q \in B!Press : JobOK(job[q], refused)
      /\ submits \in 0 .. MaxSubmits /\ \A q \in B!Press : q > submits => job[q].step = "none"
  BY DEF SendingInv, JobsInv, InboxInv
<1> DEFINE kept(q) == job'[q] = job[q]
           lost(q) == job[q].step = "published" /\ job'[q] = [job[q] EXCEPT !.step = "lost"]
           dead(q) == B!Running(q) /\ job'[q] = [job[q] EXCEPT !.step = "dead"]
<1>4. \A q \in B!Press : kept(q) \/ lost(q) \/ dead(q)
  BY DEF B!ListenerEnds, B!BotRestarts
<1>5. ASSUME NEW q \in B!Press
      PROVE  job'[q] \in JobType /\ JobOK(job'[q], refused)
  <2>1. job[q] \in JobType /\ JobOK(job[q], refused)
    BY <1>2
  <2>2. CASE lost(q)
    <3>1. job[q].to = {} /\ job[q].kind # "save" /\ "lost" \in B!Steps
      BY <2>1, <2>2 DEF JobOK, B!Steps
    <3>. QED
      BY <2>1, <2>2, <3>1, StepOK
  <2>3. CASE dead(q)
    <3>1. job[q].kind # "save" /\ "dead" \in B!Steps
      BY <2>1, <2>3 DEF JobOK, B!Steps, B!Running
    <3>. QED
      BY <2>1, <2>3, <3>1, StepOK
  <2>. QED
    BY <1>4, <2>1, <2>2, <2>3
<1>6. job' \in [B!Press -> JobType]
  <2>1. \E f : job' = [q \in B!Press |-> f[q]]
    BY <1>2 DEF B!ListenerEnds, B!BotRestarts
  <2>. QED
    BY <1>5, <2>1
<1>7. JobsInv'
  BY <1>1, <1>5, <1>6 DEF JobsInv
<1>8. InboxInv'
  <2>1. \A q \in B!Press : q > submits => job'[q].step = "none"
    BY <1>2, <1>4 DEF B!Running
  <2>. QED
    BY <1>1, <1>2, <2>1 DEF InboxInv
<1>9. FormInv'
  <2>1. (\E q \in B!Press : TriedAll(job[q])) => \E q \in B!Press : TriedAll(job'[q])
    BY <1>4 DEF TriedAll, B!Running
  <2>. QED
    BY <1>1, <2>1 DEF SendingInv, FormInv, B!FileNeedsPreview, B!SentMeansAllTried, TriedAll
<1>10. UsersInv' /\ BoundsInv'
  <2>1. B!Fault /\ MaxBreakdowns \in Nat
    BY DEF B!ListenerEnds, B!BotRestarts, B!BroadcastAssumption
  <2>. QED
    BY <1>1, <2>1 DEF SendingInv, UsersInv, BoundsInv, B!Fault
<1>. QED
  BY <1>7, <1>8, <1>9, <1>10 DEF SendingInv

LEMMA CommitKeepsInv ==
    ASSUME SendingInv, B!Commit
    PROVE  SendingInv'
BY DEF SendingInv, B!Commit, JobsInv, InboxInv, FormInv, UsersInv, BoundsInv,
   B!FileNeedsPreview, B!SentMeansAllTried

\* What is left of a sequence is where it was, one place further on.
LEMMA TailFacts ==
    ASSUME NEW S, NEW q \in Seq(S), q # <<>>
    PROVE  /\ Tail(q) \in Seq(S)
           /\ \A i \in 1 .. Len(Tail(q)) : i + 1 \in 1 .. Len(q) /\ Tail(q)[i] = q[i + 1]
OBVIOUS

LEMMA HeadFacts ==
    ASSUME NEW S, NEW q \in Seq(S), q # <<>>
    PROVE  Head(q) = q[1] /\ 1 \in 1 .. Len(q)
OBVIOUS

\* Who blocks the bot is remembered, and the updates that say so are about who did.
LEMMA UserKeepsInv ==
    ASSUME B!BroadcastAssumption, SendingInv, NEW u \in User,
           B!UserMoves(u) \/ B!Track(u) \/ B!TrackFails(u)
    PROVE  SendingInv'
<1>1. UNCHANGED <<broadcast, saved, listening, inbox, job, submits>>
  BY DEF B!UserMoves, B!Track, B!TrackFails
<1>2. /\ active \in [User -> BOOLEAN] /\ blocked \in [User -> BOOLEAN]
      /\ news \in [User -> Seq(BOOLEAN)]
      /\ \A v \in User : blocked[v] => v \in refused
      /\ \A v \in User : \A i \in 1 .. Len(news[v]) : news[v][i] => v \in refused
  BY DEF SendingInv, UsersInv
<1>3. refused \subseteq refused'
  BY DEF B!UserMoves, B!Track, B!TrackFails
<1>4. JobsInv'
  BY <1>1, <1>3, RefusedGrow DEF SendingInv, JobsInv
<1>5. InboxInv' /\ FormInv'
  BY <1>1 DEF SendingInv, InboxInv, FormInv, B!FileNeedsPreview, B!SentMeansAllTried
<1>6. BoundsInv'
  <2>1. MaxBreakdowns \in Nat /\ MaxMoves \in Nat
    BY DEF B!BroadcastAssumption
  <2>2. \/ moves < MaxMoves /\ moves' = moves + 1 /\ breakdowns' = breakdowns
        \/ moves' = moves /\ breakdowns' = breakdowns
        \/ moves' = moves /\ breakdowns < MaxBreakdowns /\ breakdowns' = breakdowns + 1
    BY DEF B!UserMoves, B!Track, B!TrackFails, B!Fault
  <2>. QED
    BY <2>1, <2>2 DEF SendingInv, BoundsInv
<1>7. UsersInv'
  <2>1. CASE B!UserMoves(u)
    <3>1. /\ active' = active /\ blocked' = [blocked EXCEPT ![u] = ~blocked[u]]
          /\ news' = [news EXCEPT ![u] = Append(news[u], blocked'[u])]
          /\ refused' = refused \cup {v \in User : blocked'[v]}
      BY <2>1 DEF B!UserMoves
    <3>2. blocked' \in [User -> BOOLEAN] /\ blocked'[u] \in BOOLEAN
      BY <1>2, <3>1
    <3>3. news' \in [User -> Seq(BOOLEAN)]
      BY <1>2, <3>1, <3>2
    <3>4. \A v \in User : blocked'[v] => v \in refused'
      BY <3>1
    <3>5. ASSUME NEW v \in User, NEW i \in 1 .. Len(news'[v]), news'[v][i]
          PROVE  v \in refused'
      <4>1. CASE v = u
        <5>1. news'[u] = Append(news[u], blocked'[u]) /\ news[u] \in Seq(BOOLEAN)
          BY <1>2, <3>1
        <5>2. \/ i \in 1 .. Len(news[u]) /\ news'[u][i] = news[u][i]
              \/ news'[u][i] = blocked'[u]
          BY <3>2, <3>5, <4>1, <5>1
        <5>. QED
          BY <1>2, <1>3, <3>4, <3>5, <4>1, <5>2
      <4>2. CASE v # u
        BY <1>2, <1>3, <3>1, <3>5, <4>2
      <4>. QED
        BY <4>1, <4>2
    <3>. QED
      BY <1>2, <3>1, <3>2, <3>3, <3>4, <3>5 DEF UsersInv
  <2>2. CASE B!Track(u) \/ B!TrackFails(u)
    <3>1. /\ news[u] # <<>> /\ news' = [news EXCEPT ![u] = Tail(news[u])]
          /\ blocked' = blocked /\ refused' = refused
          /\ active' = active \/ active' = [active EXCEPT ![u] = ~Head(news[u])]
      BY <2>2 DEF B!Track, B!TrackFails
    <3>0. news[u] \in Seq(BOOLEAN)
      BY <1>2
    <3>2. Tail(news[u]) \in Seq(BOOLEAN)
      BY <3>0, <3>1, TailFacts
    <3>3. \A i \in 1 .. Len(Tail(news[u])) :
             i + 1 \in 1 .. Len(news[u]) /\ Tail(news[u])[i] = news[u][i + 1]
      BY <3>0, <3>1, TailFacts
    <3>4. news' \in [User -> Seq(BOOLEAN)] /\ active' \in [User -> BOOLEAN]
      BY <1>2, <3>1, <3>2
    <3>5. ASSUME NEW v \in User, NEW i \in 1 .. Len(news'[v]), news'[v][i]
          PROVE  v \in refused
      BY <1>2, <3>1, <3>3, <3>5
    <3>. QED
      BY <1>2, <3>1, <3>4, <3>5 DEF UsersInv
  <2>. QED
    BY <2>1, <2>2
<1>. QED
  BY <1>4, <1>5, <1>6, <1>7 DEF SendingInv

LEMMA SendingInit == ASSUME B!BroadcastAssumption, B!Init PROVE SendingInv
<1>1. MaxSubmits \in Nat /\ MaxMoves \in Nat /\ MaxBreakdowns \in Nat
  BY DEF B!BroadcastAssumption
<1>2. B!NoJob \in JobType /\ JobOK(B!NoJob, {}) /\ B!NoJob.step = "none"
  BY DEF B!NoJob, JobType, B!Button, B!Steps, B!NewRow, B!RowType, B!Files, JobOK, Fresh,
     OnceFailed, Bounded, Done
<1>3. JobsInv
  BY <1>2 DEF B!Init, JobsInv
<1>4. InboxInv
  BY <1>1, <1>2 DEF B!Init, InboxInv
<1>5. FormInv
  <2>1. PICK m \in B!Files : broadcast = B!NewRow(m)
    BY DEF B!Init
  <2>2. broadcast \in B!RowType /\ broadcast.sent = FALSE /\ broadcast.file = None /\ saved = None
    BY <2>1 DEF B!Init, B!NewRow, B!RowType, B!Files
  <2>. QED
    BY <2>2 DEF FormInv, B!FileNeedsPreview, B!SentMeansAllTried
<1>6. UsersInv
  BY DEF B!Init, UsersInv
<1>7. BoundsInv
  BY <1>1 DEF B!Init, BoundsInv
<1>. QED
  BY <1>3, <1>4, <1>5, <1>6, <1>7 DEF SendingInv

\* Every step keeps the invariant of the broadcasts.
LEMMA SendingStep ==
    ASSUME B!BroadcastAssumption, SendingInv, [B!Next]_sending
    PROVE  SendingInv'
<1>1. CASE UNCHANGED sending
  BY <1>1 DEF sending, SendingInv, JobsInv, InboxInv, FormInv, UsersInv, BoundsInv,
     B!FileNeedsPreview, B!SentMeansAllTried
<1>2. CASE B!Next
  BY <1>2, SubmitKeepsInv, CommitKeepsInv, ListenKeepsInv, DeathKeepsInv, CoroutineKeepsInv,
     UserKeepsInv DEF B!Next
<1>. QED
  BY <1>1, <1>2

LEMMA SendingMeans ==
    ASSUME SendingInv
    PROVE  B!BroadcastInv /\ EachUserIsServedOnce
<1>1. B!BroadcastTypeOK
  BY DEF SendingInv, JobsInv, InboxInv, FormInv, UsersInv, BoundsInv, B!BroadcastTypeOK, JobOK, JobType
<1>2. B!FileNeedsPreview /\ B!SentMeansAllTried
  BY DEF SendingInv, FormInv
<1>3. B!OncePerPress
  BY DEF SendingInv, JobsInv, JobOK, Bounded, B!OncePerPress
<1>4. B!NobodyForgotten
  BY DEF SendingInv, JobsInv, JobType, JobOK, Done, B!NobodyForgotten
<1>. QED
  BY <1>1, <1>2, <1>3, <1>4 DEF B!BroadcastInv, EachUserIsServedOnce

\* Who is taken off the broadcasts has refused one, or an update says so.
LEMMA DroppedStep ==
    ASSUME SendingInv, [B!Next]_sending, NEW u \in User, active[u], ~active'[u]
    PROVE  u \in refused
<1>1. /\ active \in [User -> BOOLEAN]
      /\ \A v \in User : \A i \in 1 .. Len(news[v]) : news[v][i] => v \in refused
      /\ news \in [User -> Seq(BOOLEAN)]
  BY DEF SendingInv, UsersInv
<1>2. \/ \E o \in B!Press : B!Drop(o)
      \/ \E v \in User : B!Track(v)
  BY DEF B!Next, B!Submit, B!Commit, B!Listen, B!ListenerEnds, B!BotRestarts, B!UserMoves,
     B!TrackFails, B!JobStep, B!JobFault, B!ReadRow, B!UploadPreview, B!Fetch, B!RecordPreview,
     B!MarkSent, B!Deliver, B!Refuse, B!JobFails, B!DropFails, B!SendFails, sending
<1>3. ASSUME NEW o \in B!Press, B!Drop(o)
      PROVE  u \in refused
  <2>1. active' = [active EXCEPT ![job[o].user] = FALSE]
    BY <1>3 DEF B!Drop
  <2>2. job[o].user \in refused
    BY <1>3, DropGoesOn DEF SendingInv
  <2>. QED
    BY <1>1, <2>1, <2>2
<1>4. ASSUME NEW v \in User, B!Track(v)
      PROVE  u \in refused
  <2>1. active' = [active EXCEPT ![v] = ~Head(news[v])] /\ news[v] # <<>>
    BY <1>4 DEF B!Track
  <2>2. u = v /\ Head(news[v])
    BY <1>1, <2>1
  <2>3. news[v] \in Seq(BOOLEAN)
    BY <1>1
  <2>4. Head(news[v]) = news[v][1] /\ 1 \in 1 .. Len(news[v])
    BY <2>1, <2>3, HeadFacts
  <2>. QED
    BY <1>1, <2>2, <2>4
<1>. QED
  BY <1>2, <1>3, <1>4

-----------------------------------------------------------------------------
(* The parts together.                                                      *)

PartsInv == MessageInv /\ CreationInv /\ CallsInv /\ SendingInv

\* In a step one part moves, or none.
LEMMA PartsMove ==
    ASSUME [OrdersNext]_ordersVars
    PROVE  [Next]_vars /\ [C!Next]_creation /\ [F!Next]_calls /\ [B!Next]_sending
BY DEF OrdersNext, MessageMoves, CreationMoves, CallsMove, BroadcastMoves, Of, ordersVars

LEMMA PartsInit == OrdersInit => PartsInv
BY OrdersAssumption, MessageInit, CreationInit, CallsInit, SendingInit DEF OrdersInit, PartsInv

LEMMA PartsStep == PartsInv /\ [OrdersNext]_ordersVars => PartsInv'
BY OrdersAssumption, PartsMove, MessageStep, CreationStep, CallsStep, SendingStep DEF PartsInv

LEMMA PartsMean ==
    PartsInv => OrdersInv /\ PaymentsAreKnown /\ OrderedOnce /\ EachUserIsServedOnce
BY OrdersAssumption, CreationMeans, CallsMean, SendingMeans DEF PartsInv, OrdersInv, OrderedOnce

LEMMA PartsAlways == OrdersSpec => []PartsInv
BY PartsInit, PartsStep, PTL DEF OrdersSpec

\* What is said in a step is so.
LEMMA JustifiedStep ==
    ASSUME PartsInv, [OrdersNext]_ordersVars
    PROVE  /\ [state' = "ORDER_CONFIRMED" => cur \in seen]_state
           /\ [\A o \in Order : phase'[o] = "not found" /\ phase[o] # "not found" => ~exists[o]]_phase
           /\ [\A u \in User : active[u] /\ ~active'[u] => u \in refused]_(B!vars)
<1>1. [C!Next]_creation /\ [F!Next]_calls /\ [B!Next]_sending
  BY PartsMove
<1>2. state' # state /\ state' = "ORDER_CONFIRMED" => cur \in seen
  BY <1>1, ConfirmedStep DEF PartsInv
<1>3. \A o \in Order : phase'[o] = "not found" /\ phase[o] # "not found" => ~exists[o]
  BY <1>1, NotFoundStep, OrdersAssumption DEF PartsInv
<1>4. \A u \in User : active[u] /\ ~active'[u] => u \in refused
  BY <1>1, DroppedStep DEF PartsInv
<1>. QED
  BY <1>2, <1>3, <1>4

\* Every part of the shop that has to come to an end keeps its types and its order: one
\* task at a message, the lock of a tap with its handler unless a restart, an answer to the
\* query or a call of Redis that failed left it behind, what fragment-api took is sent or
\* failed, a file of a broadcast only with its preview (webhook_workflow.py, order.py,
\* fragment/client.py, broadcast.py).
THEOREM PartsAreSound == OrdersSpec => []OrdersInv
BY PartsAlways, PartsMean, PTL

\* A user who sees a payment link has a row in the shop, and a tap opens one payment at
\* most, whatever fails in the handler and however often the bot is started again
\* (handlers/order.py).
THEOREM PaymentsKnown == OrdersSpec => []PaymentsAreKnown
BY PartsAlways, PartsMean, PTL

\* fragment-api is asked to send stars once for an order, however its calls are repeated
\* (_request, retry_on_fragment_api_errors, the retries of send_stars).
THEOREM StarsOrderedOnce == OrdersSpec => []OrderedOnce
BY PartsAlways, PartsMean, PTL

\* A broadcast that is marked as sent has been tried on each of its users, nobody was
\* passed over, and nobody got it twice unless an answer was lost, for any number of
\* orders side by side, deaths of the bot and errors (process_broadcast,
\* _send_message_with_retries).
THEOREM UsersServedOnce == OrdersSpec => []EachUserIsServedOnce
BY PartsAlways, PartsMean, PTL

\* An order is confirmed when its link was shown, a receiver is "not found" when
\* fragment-api says so, and a user is taken off the broadcasts when it has blocked the
\* bot: an error of the network never does any of these.
THEOREM Justified == OrdersSpec => StepsAreJustified
<1> DEFINE Shown == state' = "ORDER_CONFIRMED" => cur \in seen
           Missing == \A o \in Order : phase'[o] = "not found" /\ phase[o] # "not found" => ~exists[o]
           Blocked == \A u \in User : active[u] /\ ~active'[u] => u \in refused
           Said == [Shown]_state /\ [Missing]_phase /\ [Blocked]_(B!vars)
<1>1. PartsInv /\ [OrdersNext]_ordersVars => Said
  BY JustifiedStep
<1>2. OrdersSpec => [][Said]_ordersVars
  BY <1>1, PartsAlways, PTL DEF OrdersSpec
<1>3. [Said]_ordersVars => Said
  BY DEF ordersVars, creation, calls, sending, B!vars
<1> HIDE DEF Shown, Missing, Blocked
<1>4. [][Said]_ordersVars => [][Shown]_state /\ [][Missing]_phase /\ [][Blocked]_(B!vars)
  BY <1>3, PTL
<1>. QED
  BY <1>2, <1>4, PTL DEF Shown, Missing, Blocked, StepsAreJustified, C!ConfirmedOrderWasShown,
     F!NotFoundIsTrue, B!OnlyBlockersAreDropped
=============================================================================
