---------------------------- MODULE WritersProofs ----------------------------
(***************************************************************************)
(* Proofs about MCWriters, for any tasks, notes, forms and busy databases, *)
(* and any transactions, requests and bounds on the deliveries of the two  *)
(* instances of the webhook endpoints.                                     *)
(*                                                                         *)
(* First the row: that no writer but an administrator's form takes back    *)
(* what another one has written (RowInv), and that a note is lost only to  *)
(* one that overlaps with it (NotesInv). Then the endpoints: each instance *)
(* that MCWriters has is shown to be one that WebhookFrontProofs is about, *)
(* assumption, initial states and steps, and WritersCompose says that side *)
(* by side they behave as each of them alone.                              *)
(***************************************************************************)
EXTENDS MCWriters, TLAPS

\* At first nobody has read anything.
LEMMA InitInv == Init => RowInv
<1> SUFFICES ASSUME Init PROVE RowInv
  OBVIOUS
<1>1. row \in RowType /\ payload \in Payload
  BY DEF Init, RowType, Payload, StatusString, ALL_STATUSES
<1>2. RowTypeOK
  <2>1. pc \in [Task -> {"queued", "read", "idle"} \cup Ended] /\ ask \in [Task -> News \cup Key]
    BY DEF Init
  <2>2. /\ object \in [Task \cup {Bot} -> RowType \cup {None}]
        /\ json \in [Noter -> Payload \cup {None}]
    BY DEF Init
  <2>3. 0 \in 0..MaxForms /\ 0 \in 0..MaxFaults
    BY RowAssumption
  <2> QED  BY <1>1, <2>1, <2>2, <2>3 DEF Init, RowTypeOK
<1>3. OneSetter /\ ReadHolds
  BY RowAssumption DEF Init, OneSetter, ReadHolds, Task
<1> QED  BY <1>2, <1>3 DEF RowInv

\* What a task may do to the row: write the status it was asked for where the matrix
\* allows it.
Moves == is_change_status_allowed(row.status, row'.status) /\ row'.message = row.message

\* The tasks that set a status.
LEMMA SetterKeepsInv ==
    ASSUME RowInv, NEW s \in Setter, StartSetter(s) \/ Refuse(s)
    PROVE  RowInv' /\ row' = row
<1> USE DEF RowInv
<1>1. row' = row
  BY DEF StartSetter, Refuse
<1>2. CASE StartSetter(s)
  <2>1. RowTypeOK'
    BY <1>2 DEF StartSetter, RowTypeOK, Task, Ended
  <2>2. OneSetter'
    BY <1>2, RowAssumption DEF StartSetter, RowTypeOK, OneSetter, Task
  <2>3. ReadHolds'
    BY <1>2, <2>2, RowAssumption DEF StartSetter, RowTypeOK, OneSetter, ReadHolds, Task
  <2> QED  BY <1>1, <2>1, <2>2, <2>3
<1>3. CASE Refuse(s)
  <2>1. /\ pc[s] = "read" /\ lock' = None /\ object' = [object EXCEPT ![s] = None]
        /\ UNCHANGED <<row, payload, json, ask, saver, form, forms, faults, overlap, meddled,
                       sendings>>
    BY <1>3 DEF Refuse, Forget
  <2>2. pc' \in [Task -> {"queued", "read", "idle"} \cup Ended]
        /\ (\A t \in Task \ {s} : pc'[t] = "read" => pc[t] = "read") /\ pc'[s] # "read"
    BY <1>3, RowAssumption DEF Refuse, RowTypeOK, Task, Ended
  <2>3. \A other \in Setter : pc'[other] # "read"
    BY <2>1, <2>2 DEF OneSetter, Task
  <2>4. RowTypeOK'
    BY <2>1, <2>2 DEF RowTypeOK, Task
  <2>5. OneSetter'
    BY <2>1, <2>3, RowAssumption DEF OneSetter
  <2>6. ReadHolds'
    BY <2>1, <2>2, <2>3, RowAssumption DEF ReadHolds, Task
  <2> QED  BY <1>1, <2>4, <2>5, <2>6
<1> QED  BY <1>2, <1>3

\* The write of a status.  What the task has read is the row's status still, unless a form
\* has meddled.
LEMMA WriteKeepsInv ==
    ASSUME RowInv, NEW s \in Setter, WriteStatus(s)
    PROVE  RowInv' /\ (Moves \/ row' = row \/ meddled)
<1> USE DEF RowInv
<1>1. /\ pc[s] = "read" /\ Allowed(s) /\ lock' = None
      /\ row' = [row EXCEPT !.status = Written(s)]
      /\ pc' = [pc EXCEPT ![s] = "done"] /\ object' = [object EXCEPT ![s] = None]
      /\ UNCHANGED <<payload, json, ask, saver, form, forms, faults, overlap, meddled>>
  BY DEF WriteStatus, Forget
<1>2. ask[s] \in StatusString /\ row.status \in StatusString /\ row \in RowType
  BY RowAssumption DEF ReadHolds, RowTypeOK, RowType
<1>3. Written(s) \in {row.status, ask[s]}
  BY DEF Written
<1>4. row' \in RowType /\ row'.status = Written(s) /\ row'.message = row.message
      /\ (Written(s) = row.status => row' = row)
  BY <1>1, <1>2, <1>3 DEF RowType
<1>5. sendings' \in Nat
  BY DEF WriteStatus, RowTypeOK
<1>6. RowTypeOK'
  BY <1>1, <1>4, <1>5 DEF RowTypeOK, Task, Ended
<1>7. \A other \in Setter : pc'[other] # "read"
  BY <1>1 DEF OneSetter, RowTypeOK, Task
<1>8. OneSetter'
  BY <1>1, <1>7, RowAssumption DEF OneSetter
<1>9. ReadHolds'
  BY <1>1, <1>7, RowAssumption DEF ReadHolds, RowTypeOK, Task
<1>10. Moves \/ row' = row \/ meddled
  BY <1>1, <1>3, <1>4 DEF Moves, Allowed, ReadHolds
<1> QED  BY <1>6, <1>8, <1>9, <1>10

\* The tasks that note something: neither the status nor the lock is theirs.
LEMMA NoterKeepsInv ==
    ASSUME RowInv, NEW n \in Noter, StartNoter(n) \/ ErrorIsNoted(n) \/ SaveNote(n)
    PROVE  RowInv' /\ row' = row
<1> USE DEF RowInv
<1>1. n \notin Setter /\ n \in Task
  BY RowAssumption DEF Task
<1>2. /\ row' = row /\ UNCHANGED <<ask, saver, form, lock, forms, faults, meddled, sendings>>
      /\ \A t \in Task \ {n} : pc'[t] = pc[t] /\ object'[t] = object[t]
  BY <1>1 DEF StartNoter, ErrorIsNoted, SaveNote, Forget, RowTypeOK
<1>3. /\ pc' \in [Task -> {"queued", "read", "idle"} \cup Ended]
      /\ object' \in [Task \cup {Bot} -> RowType \cup {None}]
  BY <1>1 DEF StartNoter, ErrorIsNoted, SaveNote, Forget, RowTypeOK, Ended
<1>4. \A m \in Noter \ {n} : json'[m] = json[m] /\ pc'[m] = pc[m]
  BY <1>1 DEF StartNoter, ErrorIsNoted, SaveNote, RowTypeOK, Task
<1>5. /\ json' \in [Noter -> Payload \cup {None}]
      /\ pc'[n] = "read" => json'[n] \in Payload
  BY <1>1 DEF StartNoter, ErrorIsNoted, SaveNote, RowTypeOK, ReadHolds, Task
<1>6. payload' \in Payload /\ overlap' \subseteq Noter \X Noter
  <2>1. CASE StartNoter(n) \/ ErrorIsNoted(n)
    BY <2>1 DEF StartNoter, ErrorIsNoted, RowTypeOK
  <2>2. CASE SaveNote(n)
    <3>1. payload' = [json[n] EXCEPT ![ask[n]] = n] /\ json[n] \in Payload /\ ask[n] \in Key
      BY <2>2 DEF SaveNote, Noted, Merged, ReadHolds
    <3>2. payload' \in Payload
      BY <3>1 DEF Payload
    <3>3. overlap' \subseteq Noter \X Noter
      BY <2>2 DEF SaveNote, Noted, StillReading, RowTypeOK
    <3> QED  BY <3>2, <3>3
  <2> QED  BY <2>1, <2>2
<1>7. RowTypeOK'
  BY <1>2, <1>3, <1>5, <1>6 DEF RowTypeOK
<1>8. \A s \in Setter : pc'[s] = pc[s] /\ object'[s] = object[s]
  BY <1>1, <1>2 DEF Task
<1>9. OneSetter'
  BY <1>2, <1>8 DEF OneSetter
<1>10. ReadHolds'
  BY <1>2, <1>4, <1>5, <1>8 DEF ReadHolds
<1> QED  BY <1>2, <1>7, <1>9, <1>10

\* A task that ends or starts again because of the database.
LEMMA FailureKeepsInv ==
    ASSUME RowInv, NEW t \in Task, DatabaseFails(t)
    PROVE  RowInv' /\ row' = row
<1> USE DEF RowInv
<1>1. /\ pc[t] = "read" /\ lock' = (IF lock = t THEN None ELSE lock)
      /\ object' = [object EXCEPT ![t] = None]
      /\ json' = (IF t \in Noter THEN [json EXCEPT ![t] = None] ELSE json)
      /\ UNCHANGED <<row, payload, ask, saver, form, forms, overlap, meddled, sendings>>
  BY DEF DatabaseFails, Forget
<1>2. PICK next \in {"queued", "failed"} : pc' = [pc EXCEPT ![t] = next]
  BY DEF DatabaseFails
<1>3. faults' \in 0..MaxFaults
  BY RowAssumption DEF DatabaseFails, Fault, RowTypeOK
<1>4. RowTypeOK'
  BY <1>1, <1>2, <1>3 DEF RowTypeOK, Ended, Task
<1>5. pc'[t] # "read" /\ \A other \in Task \ {t} : pc'[other] = pc[other]
  BY <1>2 DEF RowTypeOK
<1>6. OneSetter'
  BY <1>1, <1>5, RowAssumption DEF OneSetter, RowTypeOK, Task
<1>7. ReadHolds'
  BY <1>1, <1>5, RowAssumption DEF ReadHolds, RowTypeOK, Task
<1> QED  BY <1>1, <1>4, <1>6, <1>7

\* The order handler, which saves the message's id only, and an administrator who opens a
\* form.
LEMMA OthersKeepInv ==
    ASSUME RowInv, ReadForMessage \/ SaveMessage \/ SaveMessageFails \/ OpenForm
    PROVE  RowInv' /\ row'.status = row.status /\ (row.message => row'.message)
<1> USE DEF RowInv
<1>1. /\ row' \in RowType /\ row'.status = row.status /\ (row.message => row'.message)
      /\ UNCHANGED <<payload, pc, json, ask, lock, overlap, meddled, sendings>>
  BY DEF ReadForMessage, SaveMessage, SaveMessageFails, OpenForm, tasks, RowTypeOK, RowType
<1>2. /\ object' \in [Task \cup {Bot} -> RowType \cup {None}]
      /\ saver' \in {"none", "read", "saved", "failed"} /\ (form' = None \/ form' \in RowType)
      /\ forms' \in 0..MaxForms /\ faults' \in 0..MaxFaults
  BY RowAssumption DEF ReadForMessage, SaveMessage, SaveMessageFails, OpenForm, tasks, Forget,
                       Fault, RowTypeOK
<1>3. RowTypeOK'
  BY <1>1, <1>2 DEF RowTypeOK
<1>4. \A s \in Setter : s # Bot => object'[s] = object[s]
  BY DEF ReadForMessage, SaveMessage, SaveMessageFails, OpenForm, tasks, Forget, RowTypeOK, Task
<1>5. OneSetter' /\ ReadHolds'
  BY <1>1, <1>4, RowAssumption DEF OneSetter, ReadHolds
<1> QED  BY <1>1, <1>3, <1>5

\* The form.
LEMMA FormKeepsInv ==
    ASSUME RowInv, NEW target \in Target, SaveForm(target)
    PROVE  RowInv' /\ form # None /\ form' = None
<1> USE DEF RowInv
<1>1. /\ form # None /\ form' = None /\ meddled' = TRUE
      /\ row' = [form EXCEPT !.target = target]
      /\ UNCHANGED <<payload, pc, object, json, ask, saver, lock, forms, faults, overlap, sendings>>
  BY DEF SaveForm, tasks
<1>2. row' \in RowType
  BY <1>1 DEF RowTypeOK, RowType
<1>3. RowTypeOK' /\ OneSetter' /\ ReadHolds'
  BY <1>1, <1>2 DEF RowTypeOK, OneSetter, ReadHolds
<1> QED  BY <1>1, <1>3

\* What each step may do to the row.
StepIsFair ==
    \/ form # None /\ form' = None
    \/ /\ row'.status = row.status \/ is_change_status_allowed(row.status, row'.status) \/ meddled
       /\ row.message => row'.message

LEMMA StepKeepsInv == RowInv /\ [Next]_vars => RowInv' /\ (StepIsFair \/ UNCHANGED vars)
<1> SUFFICES ASSUME RowInv, [Next]_vars PROVE RowInv' /\ (StepIsFair \/ UNCHANGED vars)
  OBVIOUS
<1>1. CASE UNCHANGED vars
  BY <1>1 DEF vars, tasks, RowInv, RowTypeOK, OneSetter, ReadHolds
<1>2. ASSUME NEW s \in Setter, StartSetter(s) \/ Refuse(s)  PROVE RowInv' /\ StepIsFair
  BY <1>2, SetterKeepsInv DEF StepIsFair
<1>3. ASSUME NEW s \in Setter, WriteStatus(s)  PROVE RowInv' /\ StepIsFair
  <2>1. row'.message = row.message
    BY <1>3 DEF WriteStatus, RowInv, RowTypeOK, RowType
  <2> QED  BY <1>3, <2>1, WriteKeepsInv DEF StepIsFair, Moves
<1>4. ASSUME NEW n \in Noter, StartNoter(n) \/ ErrorIsNoted(n) \/ SaveNote(n)
      PROVE  RowInv' /\ StepIsFair
  BY <1>4, NoterKeepsInv DEF StepIsFair
<1>5. ASSUME NEW t \in Task, DatabaseFails(t)  PROVE RowInv' /\ StepIsFair
  BY <1>5, FailureKeepsInv DEF StepIsFair
<1>6. CASE ReadForMessage \/ SaveMessage \/ SaveMessageFails \/ OpenForm
  BY <1>6, OthersKeepInv DEF StepIsFair
<1>7. ASSUME NEW target \in Target, SaveForm(target)  PROVE RowInv' /\ StepIsFair
  BY <1>7, FormKeepsInv DEF StepIsFair
<1> QED  BY <1>1, <1>2, <1>3, <1>4, <1>5, <1>6, <1>7 DEF Next

\* One setter at a time, which finds the row as it has read it.
THEOREM RowInvariant == Spec => []RowInv
<1>1. RowInv /\ [Next]_vars => RowInv'
  BY StepKeepsInv
<1> QED  BY <1>1, InitInv, PTL DEF Spec

\* No writer but the administrator's form takes back what another one has written: the
\* status follows the matrix, unless a form was saved under the feet of a task, and the
\* message's id stays.
THEOREM OnlyFormsDo == Spec => OnlyFormsTakeBack
<1>1. RowInv /\ [Next]_vars
      => [\/ row'.status = row.status
          \/ is_change_status_allowed(row.status, row'.status)
          \/ form # None /\ form' = None
          \/ meddled]_vars
  BY StepKeepsInv DEF StepIsFair
<1>2. RowInv /\ [Next]_vars => [row.message => row'.message \/ (form # None /\ form' = None)]_vars
  BY StepKeepsInv DEF StepIsFair
<1> QED
  BY <1>1, <1>2, RowInvariant, PTL
     DEF Spec, OnlyFormsTakeBack, OnlyFormsBreakTheMatrix, MessageIsKept

-----------------------------------------------------------------------------
(* The notes.                                                               *)

\* A note that may be lost: one that overlapped has been saved after it, or another one
\* under its key.
MayBeLost(n) ==
    \/ \E m \in Noter : <<m, n>> \in overlap /\ pc[m] = "done"
    \/ \E m \in Noter \ {n} : pc[m] = "done" /\ ask[m] = ask[n]

\* A note that is there, and that whoever is about to save has read, or overlaps.
IsKept(n) ==
    /\ payload[ask[n]] = n
    /\ \A m \in Noter : pc[m] = "read" => json[m][ask[n]] = n \/ <<m, n>> \in overlap

NotesInv == \A n \in Noter : pc[n] = "done" => IsKept(n) \/ MayBeLost(n)

\* What a step does to the notes.
NotesAreLeft ==
    /\ payload' = payload /\ overlap' = overlap
    /\ \A n \in Noter : /\ pc'[n] = "done" <=> pc[n] = "done"
                        /\ pc'[n] = "read" => \/ pc[n] = "read" /\ json'[n] = json[n]
                                              \/ json'[n] = payload

LEMMA NotesChange ==
    ASSUME RowInv, [Next]_vars
    PROVE  ask' = ask /\ (NotesAreLeft \/ \E n \in Noter : SaveNote(n))
<1>1. /\ pc \in [Task -> {"queued", "read", "idle"} \cup Ended]
      /\ json \in [Noter -> Payload \cup {None}]
  BY DEF RowInv, RowTypeOK
<1>2. \A n \in Noter : n \in Task /\ n \notin Setter
  BY RowAssumption DEF Task
<1>3. ASSUME NEW s \in Setter, StartSetter(s) \/ WriteStatus(s) \/ Refuse(s)
      PROVE  ask' = ask /\ NotesAreLeft
  BY <1>1, <1>2, <1>3 DEF StartSetter, WriteStatus, Refuse, NotesAreLeft
<1>4. ASSUME NEW n \in Noter, StartNoter(n) \/ ErrorIsNoted(n)
      PROVE  ask' = ask /\ NotesAreLeft
  BY <1>1, <1>2, <1>4 DEF StartNoter, ErrorIsNoted, NotesAreLeft
<1>5. ASSUME NEW t \in Task, DatabaseFails(t)
      PROVE  ask' = ask /\ NotesAreLeft
  BY <1>1, <1>2, <1>5 DEF DatabaseFails, NotesAreLeft
<1>6. CASE \/ ReadForMessage \/ SaveMessage \/ SaveMessageFails
           \/ OpenForm \/ (\E target \in Target : SaveForm(target)) \/ UNCHANGED vars
  BY <1>6 DEF ReadForMessage, SaveMessage, SaveMessageFails, OpenForm, SaveForm, vars, tasks, NotesAreLeft
<1>7. ASSUME NEW n \in Noter, SaveNote(n)
      PROVE  ask' = ask
  BY <1>7 DEF SaveNote
<1> QED  BY <1>3, <1>4, <1>5, <1>6, <1>7 DEF Next

\* A saved note is there, and all who are reading overlap it; another one is still kept
\* by a writer that has read it, and may be lost by the others.
LEMMA NotesStep ==
    ASSUME RowInv, NotesInv, [Next]_vars
    PROVE  NotesInv'
<1>1. ask' = ask
  BY NotesChange
<1>2. CASE NotesAreLeft
  <2> SUFFICES ASSUME NEW n \in Noter, pc'[n] = "done"
               PROVE  IsKept(n)' \/ MayBeLost(n)'
    BY DEF NotesInv
  <2>1. IsKept(n) \/ MayBeLost(n)
    BY <1>2 DEF NotesInv, NotesAreLeft
  <2>2. CASE IsKept(n)
    BY <1>1, <1>2, <2>2 DEF IsKept, NotesAreLeft
  <2>3. CASE MayBeLost(n)
    BY <1>1, <1>2, <2>3 DEF MayBeLost, NotesAreLeft
  <2> QED  BY <2>1, <2>2, <2>3
<1>3. ASSUME NEW m \in Noter, SaveNote(m)
      PROVE  NotesInv'
  <2>1. /\ pc[m] = "read" /\ payload' = [json[m] EXCEPT ![ask[m]] = m]
        /\ overlap' = overlap \cup {<<k, m>> : k \in StillReading(m)}
        /\ pc' = [pc EXCEPT ![m] = "done"] /\ json' = [json EXCEPT ![m] = None]
    BY <1>3 DEF SaveNote, Noted, Merged
  <2>2. /\ pc \in [Task -> {"queued", "read", "idle"} \cup Ended] /\ m \in Task
        /\ json \in [Noter -> Payload \cup {None}] /\ json[m] \in Payload
        /\ \A k \in Noter : ask[k] \in Key /\ k \in Task
    BY <2>1 DEF RowInv, RowTypeOK, ReadHolds, Task
  <2>3. /\ \A n \in Noter \ {m} : pc'[n] = pc[n] /\ json'[n] = json[n]
        /\ pc'[m] = "done" /\ payload'[ask[m]] = m
        /\ \A k \in Key : k # ask[m] => payload'[k] = json[m][k]
    BY <2>1, <2>2 DEF Payload
  <2>4. IsKept(m)'
    <3>1. \A k \in Noter : pc'[k] = "read" => <<k, m>> \in overlap'
      BY <2>1, <2>3 DEF StillReading
    <3> QED  BY <1>1, <2>3, <3>1 DEF IsKept
  <2>5. ASSUME NEW n \in Noter \ {m}, pc[n] = "done"
        PROVE  IsKept(n)' \/ MayBeLost(n)'
    <3>1. \A k \in Noter : pc[k] = "done" => pc'[k] = "done"
      BY <2>3
    <3>2. CASE MayBeLost(n)
      BY <1>1, <2>1, <3>1, <3>2 DEF MayBeLost
    <3>3. CASE IsKept(n) /\ ask[m] = ask[n]
      BY <1>1, <2>3, <3>3 DEF MayBeLost
    <3>4. CASE IsKept(n) /\ <<m, n>> \in overlap
      BY <2>1, <2>3, <3>4 DEF MayBeLost
    <3>5. CASE IsKept(n) /\ ask[m] # ask[n] /\ json[m][ask[n]] = n
      <4>1. payload'[ask[n]] = n
        BY <2>2, <2>3, <3>5
      <4>2. \A k \in Noter : pc'[k] = "read" => json'[k][ask[n]] = n \/ <<k, n>> \in overlap'
        BY <2>1, <2>3, <3>5 DEF IsKept
      <4> QED  BY <1>1, <4>1, <4>2 DEF IsKept
    <3> QED  BY <2>1, <2>5, <3>2, <3>3, <3>4, <3>5 DEF NotesInv, IsKept
  <2> QED  BY <2>3, <2>4, <2>5 DEF NotesInv
<1> QED  BY <1>2, <1>3, NotesChange

\* A note is lost only to another one that had read the payload before it was saved, or
\* has its key: whatever tasks note, busy databases repeat and setters write, notes that
\* follow each other are all kept (_update_metadata_by_obj).
THEOREM NotesAreKept == Spec => []NotesAreLostInOverlapOnly
<1>1. Init => NotesInv
  BY RowAssumption DEF Init, NotesInv, Task
<1>2. RowInv /\ NotesInv /\ [Next]_vars => NotesInv'
  BY NotesStep
<1>3. NotesInv => NotesAreLostInOverlapOnly
  BY DEF NotesInv, IsKept, MayBeLost, NotesAreLostInOverlapOnly
<1> QED  BY <1>1, <1>2, <1>3, RowInvariant, PTL DEF Spec

-----------------------------------------------------------------------------
(* The webhook endpoints, as WebhookFrontProofs has them.                   *)

\* The two webhooks of an order are notifications of WebhookFront, which
\* WebhookFrontProofs is about, and so are the other sorts.
WP == INSTANCE WebhookFrontProofs
         WITH News <- OrderNews, MaxFaults <- MaxBreaks, lock <- slotLock, faults <- breaks

LEMMA WebhooksAssumption == WP!WebhookAssumption
BY WritersAssumption DEF W!WebhookAssumption, WP!WebhookAssumption, W!NewsType, WP!NewsType, W!Service, WP!Service

LEMMA WebhooksInit == W!Init => WP!Init
BY DEF W!Init, WP!Init, W!Slot, WP!Slot, W!RecordSlot, WP!RecordSlot, W!Service, WP!Service

LEMMA WebhooksNext == W!Next => WP!Next
<1>1. ASSUME NEW r \in Request, NEW n, W!Deliver(r, n)  PROVE WP!Deliver(r, n)
  BY <1>1 DEF W!Deliver, WP!Deliver
<1>2. ASSUME NEW r \in Request, W!CheckKey(r)  PROVE WP!CheckKey(r)
  BY <1>2 DEF W!CheckKey, WP!CheckKey, W!SameKey, WP!SameKey, W!Answer, WP!Answer, W!Goes,
                WP!Goes
<1>3. ASSUME NEW r \in Request, W!Expire(r)  PROVE WP!Expire(r)
  BY <1>3 DEF W!Expire, WP!Expire, W!Goes, WP!Goes
<1>4. ASSUME NEW r \in Request, W!Read(r)  PROVE WP!Read(r)
  BY <1>4 DEF W!Read, WP!Read, W!Goes, WP!Goes, W!Answer, WP!Answer
<1>5. ASSUME NEW r \in Request, W!Acquire(r)  PROVE WP!Acquire(r)
  BY <1>5 DEF W!Acquire, WP!Acquire, W!SlotOf, WP!SlotOf, W!Goes, WP!Goes, W!CriticalSteps,
                WP!CriticalSteps
<1>6. ASSUME NEW r \in Request, W!GiveUp(r)  PROVE WP!GiveUp(r)
  BY <1>6 DEF W!GiveUp, WP!GiveUp, W!SlotOf, WP!SlotOf, W!Answer, WP!Answer
<1>7. ASSUME NEW r \in Request, W!Save(r)  PROVE WP!Save(r)
  BY <1>7 DEF W!Save, WP!Save, W!SlotOf, WP!SlotOf, W!GoesOn, WP!GoesOn, W!CriticalSteps,
                WP!CriticalSteps, W!Goes, WP!Goes
<1>8. ASSUME NEW r \in Request, W!Queue(r)  PROVE WP!Queue(r)
  BY <1>8 DEF W!Queue, WP!Queue, W!SlotOf, WP!SlotOf, W!GoesOn, WP!GoesOn, W!CriticalSteps,
                WP!CriticalSteps, W!Goes, WP!Goes
<1>9. ASSUME NEW r \in Request, W!Release(r)  PROVE WP!Release(r)
  BY <1>9 DEF W!Release, WP!Release, W!ReleaseLock, WP!ReleaseLock, W!Answer, WP!Answer, W!Slot,
                WP!Slot, W!Service, WP!Service
<1>10. ASSUME NEW r \in Request, W!Fails(r)  PROVE WP!Fails(r)
  BY <1>10 DEF W!Fails, WP!Fails, W!ReleaseLock, WP!ReleaseLock, W!Slot, WP!Slot, W!Service,
                WP!Service, W!Answer, WP!Answer, W!Breaks, WP!Breaks, W!SlotOf, WP!SlotOf,
                W!Critical, WP!Critical
<1>11. ASSUME NEW R \in SUBSET Request \ {{}}, W!Dies(R)  PROVE WP!Dies(R)
  BY <1>11 DEF W!Dies, WP!Dies, W!Slot, WP!Slot, W!Service, WP!Service, W!Answer, WP!Answer,
                W!Breaks, WP!Breaks, W!SlotOf, WP!SlotOf, W!Critical, WP!Critical
<1>12. ASSUME NEW s, W!LockRunsOut(s)  PROVE WP!LockRunsOut(s)
  BY <1>12 DEF W!LockRunsOut, WP!LockRunsOut, W!front, WP!front
<1>13. ASSUME NEW s, W!Take(s)  PROVE WP!Take(s)
  BY <1>13 DEF W!Take, WP!Take, W!front, WP!front
<1> QED  BY <1>1, <1>2, <1>3, <1>4, <1>5, <1>6, <1>7, <1>8, <1>9, <1>10, <1>11, <1>12, <1>13
          DEF W!Next, WP!Next, W!Slot, WP!Slot, W!RecordSlot, WP!RecordSlot, W!Service, WP!Service

\* The other sorts of notification.
OP == INSTANCE WebhookFrontProofs
         WITH News <- OtherNews, MaxDeliveries <- 2, MaxFaults <- 1,
              lock <- slotLock, faults <- breaks

LEMMA OthersAssumption == OP!WebhookAssumption
BY WritersAssumption DEF O!WebhookAssumption, OP!WebhookAssumption, O!NewsType, OP!NewsType, O!Service, OP!Service

LEMMA OthersInit == O!Init => OP!Init
BY DEF O!Init, OP!Init, O!Slot, OP!Slot, O!RecordSlot, OP!RecordSlot, O!Service, OP!Service

LEMMA OthersNext == O!Next => OP!Next
<1>1. ASSUME NEW r \in Request, NEW n, O!Deliver(r, n)  PROVE OP!Deliver(r, n)
  BY <1>1 DEF O!Deliver, OP!Deliver
<1>2. ASSUME NEW r \in Request, O!CheckKey(r)  PROVE OP!CheckKey(r)
  BY <1>2 DEF O!CheckKey, OP!CheckKey, O!SameKey, OP!SameKey, O!Answer, OP!Answer, O!Goes,
                OP!Goes
<1>3. ASSUME NEW r \in Request, O!Expire(r)  PROVE OP!Expire(r)
  BY <1>3 DEF O!Expire, OP!Expire, O!Goes, OP!Goes
<1>4. ASSUME NEW r \in Request, O!Read(r)  PROVE OP!Read(r)
  BY <1>4 DEF O!Read, OP!Read, O!Goes, OP!Goes, O!Answer, OP!Answer
<1>5. ASSUME NEW r \in Request, O!Acquire(r)  PROVE OP!Acquire(r)
  BY <1>5 DEF O!Acquire, OP!Acquire, O!SlotOf, OP!SlotOf, O!Goes, OP!Goes, O!CriticalSteps,
                OP!CriticalSteps
<1>6. ASSUME NEW r \in Request, O!GiveUp(r)  PROVE OP!GiveUp(r)
  BY <1>6 DEF O!GiveUp, OP!GiveUp, O!SlotOf, OP!SlotOf, O!Answer, OP!Answer
<1>7. ASSUME NEW r \in Request, O!Save(r)  PROVE OP!Save(r)
  BY <1>7 DEF O!Save, OP!Save, O!SlotOf, OP!SlotOf, O!GoesOn, OP!GoesOn, O!CriticalSteps,
                OP!CriticalSteps, O!Goes, OP!Goes
<1>8. ASSUME NEW r \in Request, O!Queue(r)  PROVE OP!Queue(r)
  BY <1>8 DEF O!Queue, OP!Queue, O!SlotOf, OP!SlotOf, O!GoesOn, OP!GoesOn, O!CriticalSteps,
                OP!CriticalSteps, O!Goes, OP!Goes
<1>9. ASSUME NEW r \in Request, O!Release(r)  PROVE OP!Release(r)
  BY <1>9 DEF O!Release, OP!Release, O!ReleaseLock, OP!ReleaseLock, O!Answer, OP!Answer, O!Slot,
                OP!Slot, O!Service, OP!Service
<1>10. ASSUME NEW r \in Request, O!Fails(r)  PROVE OP!Fails(r)
  BY <1>10 DEF O!Fails, OP!Fails, O!ReleaseLock, OP!ReleaseLock, O!Slot, OP!Slot, O!Service,
                OP!Service, O!Answer, OP!Answer, O!Breaks, OP!Breaks, O!SlotOf, OP!SlotOf,
                O!Critical, OP!Critical
<1>11. ASSUME NEW R \in SUBSET Request \ {{}}, O!Dies(R)  PROVE OP!Dies(R)
  BY <1>11 DEF O!Dies, OP!Dies, O!Slot, OP!Slot, O!Service, OP!Service, O!Answer, OP!Answer,
                O!Breaks, OP!Breaks, O!SlotOf, OP!SlotOf, O!Critical, OP!Critical
<1>12. ASSUME NEW s, O!LockRunsOut(s)  PROVE OP!LockRunsOut(s)
  BY <1>12 DEF O!LockRunsOut, OP!LockRunsOut, O!front, OP!front
<1>13. ASSUME NEW s, O!Take(s)  PROVE OP!Take(s)
  BY <1>13 DEF O!Take, OP!Take, O!front, OP!front
<1> QED  BY <1>1, <1>2, <1>3, <1>4, <1>5, <1>6, <1>7, <1>8, <1>9, <1>10, <1>11, <1>12, <1>13
          DEF O!Next, OP!Next, O!Slot, OP!Slot, O!RecordSlot, OP!RecordSlot, O!Service, OP!Service

-----------------------------------------------------------------------------
(* The parts together.                                                      *)

Others == part = "other notifications"

\* Each part starts, and steps, as its component does.
LEMMA WritersStart ==
    WritersInit => /\ Init
                   /\ Others => OP!Init
                   /\ ~Others => WP!Init
BY WebhooksInit, OthersInit DEF WritersInit, Others

LEMMA WritersStep ==
    ASSUME [RowMoves \/ WebhooksMove \/ OthersMove]_writersVars
    PROVE  /\ [Next]_vars
           /\ Others' <=> Others
           /\ Others => [OP!Next]_(OP!vars)
           /\ ~Others => [WP!Next]_(WP!vars)
<1>1. CASE RowMoves
  BY <1>1 DEF RowMoves, Others, frontVars, OP!vars, OP!front, WP!vars, WP!front
<1>2. CASE WebhooksMove
  BY <1>2, WebhooksNext DEF WebhooksMove, Others
<1>3. CASE OthersMove
  BY <1>3, OthersNext DEF OthersMove, Others
<1>4. CASE UNCHANGED writersVars
  BY <1>4 DEF writersVars, Others, frontVars, OP!vars, OP!front, WP!vars, WP!front
<1> QED  BY <1>1, <1>2, <1>3, <1>4

\* So what holds of the components holds of them side by side.
LEMMA WritersCompose ==
    WritersSpec => /\ Spec
                   /\ ([](Others) /\ OP!Spec) \/ ([](~Others) /\ WP!Spec)
<1>1. [RowMoves \/ WebhooksMove \/ OthersMove]_writersVars
        => /\ [Next]_vars
           /\ Others' <=> Others
           /\ Others => [OP!Next]_(OP!vars)
           /\ ~Others => [WP!Next]_(WP!vars)
  BY WritersStep
<1> QED  BY <1>1, WritersStart, PTL DEF WritersSpec, Spec, OP!Spec, WP!Spec

\* _change_status and the webhook endpoints (views.py): one task at a time sets the row's
\* status, and one request at a time writes a service's notifications of a transaction,
\* unless a lock ran out or a request broke off under it.
THEOREM WritersInvariant == WritersSpec => []WritersInv
<1>1. WP!Spec => []WP!WebhookInv
  BY WP!CriticalSection, WebhooksAssumption
<1>2. OP!Spec => []OP!WebhookInv
  BY OP!CriticalSection, OthersAssumption
<1>3. WP!WebhookInv => W!WebhookInv
  BY DEF WP!WebhookInv, W!WebhookInv, WP!TypeOK, W!TypeOK, WP!Inside, W!Inside, WP!SlotOf, W!SlotOf,
         WP!Slot, W!Slot, WP!RecordSlot, W!RecordSlot, WP!Service, W!Service, WP!Steps, W!Steps,
         WP!Critical, W!Critical
<1>4. OP!WebhookInv => O!WebhookInv
  BY DEF OP!WebhookInv, O!WebhookInv, OP!TypeOK, O!TypeOK, OP!Inside, O!Inside, OP!SlotOf, O!SlotOf,
         OP!Slot, O!Slot, OP!RecordSlot, O!RecordSlot, OP!Service, O!Service, OP!Steps, O!Steps,
         OP!Critical, O!Critical
<1>5. RowInv /\ ((Others /\ OP!WebhookInv) \/ (~Others /\ WP!WebhookInv)) => WritersInv
  BY <1>3, <1>4 DEF WritersInv, Others
<1> QED  BY <1>1, <1>2, <1>5, RowInvariant, WritersCompose, PTL

\* webhook_utils.py:48: however often a notification with an idempotency key is delivered,
\* it queues its task once.
THEOREM KeyedActsOnce == WritersSpec => []KeyedNewsActsOnce
<1>1. WP!Spec => []WP!KeyedNewsActsOnce
  BY WP!ActsOnce, WebhooksAssumption
<1>2. OP!Spec => []OP!KeyedNewsActsOnce
  BY OP!ActsOnce, OthersAssumption
<1>3. ((Others /\ OP!KeyedNewsActsOnce) \/ (~Others /\ WP!KeyedNewsActsOnce)) => KeyedNewsActsOnce
  BY DEF KeyedNewsActsOnce, Others, WP!KeyedNewsActsOnce, W!KeyedNewsActsOnce, OP!KeyedNewsActsOnce,
         O!KeyedNewsActsOnce
<1> QED  BY <1>1, <1>2, <1>3, WritersCompose, PTL

\* views.py: a notification answered with 200 has queued its task, unless it is none of the
\* shop's business, or is still being processed, or has a key and a failed delivery.
THEOREM AcceptedQueues == WritersSpec => []AcceptedNewsIsQueued
<1>1. WP!Spec => []WP!AcceptedNewsIsQueued
  BY WP!AcceptedIsQueued, WebhooksAssumption
<1>2. OP!Spec => []OP!AcceptedNewsIsQueued
  BY OP!AcceptedIsQueued, OthersAssumption
<1>3. ((Others /\ OP!AcceptedNewsIsQueued) \/ (~Others /\ WP!AcceptedNewsIsQueued)) => AcceptedNewsIsQueued
  BY DEF AcceptedNewsIsQueued, Others, WP!AcceptedNewsIsQueued, W!AcceptedNewsIsQueued,
         OP!AcceptedNewsIsQueued, O!AcceptedNewsIsQueued
<1> QED  BY <1>1, <1>2, <1>3, WritersCompose, PTL

\* views.py:95-107, critical_section: no status waits under a key without a task to take it,
\* unless a request broke off or lost its lock.
THEOREM StatusesHaveTasks == WritersSpec => []StatusHasItsTask
<1>1. WP!Spec => []WP!StatusHasItsTask
  BY WP!HasItsTask, WebhooksAssumption
<1>2. OP!Spec => []OP!StatusHasItsTask
  BY OP!HasItsTask, OthersAssumption
<1>3. ((Others /\ OP!StatusHasItsTask) \/ (~Others /\ WP!StatusHasItsTask)) => StatusHasItsTask
  BY DEF StatusHasItsTask, Others, WP!StatusHasItsTask, W!StatusHasItsTask, WP!Slot, W!Slot,
         WP!RecordSlot, W!RecordSlot, WP!Service, W!Service, WP!Inside, W!Inside, WP!SlotOf, W!SlotOf,
         WP!Critical, W!Critical, OP!StatusHasItsTask, O!StatusHasItsTask, OP!Slot, O!Slot,
         OP!RecordSlot, O!RecordSlot, OP!Service, O!Service, OP!Inside, O!Inside, OP!SlotOf, O!SlotOf,
         OP!Critical, O!Critical
<1> QED  BY <1>1, <1>2, <1>3, WritersCompose, PTL

\* views.py:95-99: of two webhooks of one order the same one comes last under the key of the
\* row's status and under that of the order's record.
THEOREM KeysAgree == WritersSpec => []KeysTellTheSame
<1>1. WP!Spec => []WP!KeysTellTheSame
  BY WP!TheSameIsTold, WebhooksAssumption
<1>2. OP!Spec => []OP!KeysTellTheSame
  BY OP!TheSameIsTold, OthersAssumption
<1>3. ((Others /\ OP!KeysTellTheSame) \/ (~Others /\ WP!KeysTellTheSame)) => KeysTellTheSame
  BY DEF KeysTellTheSame, Others, WP!KeysTellTheSame, W!KeysTellTheSame, WP!Inside, W!Inside,
         WP!SlotOf, W!SlotOf, WP!Critical, W!Critical, OP!KeysTellTheSame, O!KeysTellTheSame,
         OP!Inside, O!Inside, OP!SlotOf, O!SlotOf, OP!Critical, O!Critical
<1> QED  BY <1>1, <1>2, <1>3, WritersCompose, PTL
=============================================================================
