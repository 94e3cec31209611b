--------------------------- MODULE TransactionRow ---------------------------
(***************************************************************************)
(* The row of one transaction and its metadata (core/models.py), and all   *)
(* that write to them side by side: the Celery tasks that set the status   *)
(* under lock_payment (core/integrations/platega/tasks.py), those that     *)
(* note something in the payload, under no lock, the order handler of the  *)
(* bot, which saves the id of the order's message, and an administrator's  *)
(* form (core/admin.py).                                                   *)
(*                                                                         *)
(* Every writer reads the row into an object, and later saves some of the  *)
(* object's fields (core/repositories/transaction.py); only the form saves *)
(* all of them.  What is read is as old as the writer is slow.             *)
(***************************************************************************)
EXTENDS Naturals, FiniteSets, TransactionStatuses

CONSTANTS
    Setter,    \* tasks that set a status
    Noter,     \* tasks that note something in the payload
    Key,       \* keys of the payload
    None,
    News,      \* the statuses that are asked for
    Target,    \* target usernames a form may hold
    MaxForms,  \* bound on forms an administrator opens
    MaxFaults  \* bound on busy databases

Bot == "bot"  \* the order handler

ASSUME RowAssumption ==
    /\ Setter \cap Noter = {} /\ Bot \notin Setter \cup Noter
    /\ None \notin Setter \cup Noter \cup Target
    /\ News \subseteq StatusString
    /\ MaxForms \in Nat /\ MaxFaults \in Nat

VARIABLES
    row,     \* status, message_id, target_username
    payload, \* metadata_info.payload: the noter whose value a key has
    pc,      \* what each task does
    object,  \* the row as the writer has read it
    json,    \* the payload as a noter has read it
    ask,     \* the status a setter sets, the key a noter writes
    saver,   \* what the order handler does about the message id
    form,    \* the row as the administrator's form shows it; None: no form
    lock,    \* lock_payment:{transaction}
    forms, faults,
    overlap, \* history: <<n, m>>, n read the payload before m saved it
    meddled, \* history: a form was saved after the holder of the lock began
    sendings \* history: how many times the row went to SENDING

tasks == <<pc, object, json, ask>>
vars  == <<row, payload, tasks, saver, form, lock, forms, faults, overlap, meddled, sendings>>

Task    == Setter \cup Noter
Ended   == {"done", "refused", "failed"}
RowType == [status : StatusString, message : BOOLEAN, target : Target]
Payload == [Key -> Noter \cup {None}]

RowTypeOK ==
    /\ row \in RowType /\ payload \in Payload
    /\ pc \in [Task -> {"queued", "read", "idle"} \cup Ended]
    /\ object \in [Task \cup {Bot} -> RowType \cup {None}]
    /\ json \in [Noter -> Payload \cup {None}]
    /\ ask \in [Task -> News \cup Key]
    /\ saver \in {"none", "read", "saved", "failed"}
    /\ form = None \/ form \in RowType
    /\ lock \in Setter \cup {None}
    /\ forms \in 0..MaxForms /\ faults \in 0..MaxFaults
    /\ overlap \subseteq Noter \X Noter /\ meddled \in BOOLEAN /\ sendings \in Nat

\* The order handler has inserted the row; the gateway knows of the payment.
Init ==
    /\ row \in [status : {"PENDING"}, message : {FALSE}, target : Target]
    /\ payload = [k \in Key |-> None]
    /\ pc = [t \in Task |-> IF t \in Setter THEN "queued" ELSE "idle"]
    /\ object = [t \in Task \cup {Bot} |-> None]
    /\ json = [n \in Noter |-> None]
    /\ ask \in {a \in [Task -> News \cup Key] :
                   (\A s \in Setter : a[s] \in News) /\ (\A n \in Noter : a[n] \in Key)}
    /\ saver = "none" /\ form = None /\ lock = None
    /\ forms = 0 /\ faults = 0 /\ overlap = {} /\ meddled = FALSE /\ sendings = 0

\* What a writer has read lives as long as it works on it.
Forget(t) == object' = [object EXCEPT ![t] = None]

Fault == faults < MaxFaults /\ faults' = faults + 1

-----------------------------------------------------------------------------
(* The tasks that set a status: one at a time.                             *)

StartSetterUnlocked(s) ==  \* a slip: the lock is not asked
    /\ pc[s] = "queued"
    /\ lock' = s
    /\ pc' = [pc EXCEPT ![s] = "read"]
    /\ object' = [object EXCEPT ![s] = row]
    /\ meddled' = FALSE
    /\ UNCHANGED <<row, payload, json, ask, saver, form, forms, faults, overlap, sendings>>

StartSetter(s) ==
    /\ pc[s] = "queued" /\ lock = None
    /\ lock' = s
    /\ pc' = [pc EXCEPT ![s] = "read"]
    /\ object' = [object EXCEPT ![s] = row]
    /\ meddled' = FALSE
    /\ UNCHANGED <<row, payload, json, ask, saver, form, forms, faults, overlap, sendings>>

Allowed(s) == is_change_status_allowed(object[s].status, ask[s])

Refuse(s) ==
    /\ pc[s] = "read" /\ ~ Allowed(s)
    /\ IF \E n \in Noter : pc[n] = "idle"
       THEN \E n \in Noter : /\ pc[n] = "idle"
                              /\ pc' = [pc EXCEPT ![s] = "refused", ![n] = "queued"]
       ELSE pc' = [pc EXCEPT ![s] = "refused"]
    /\ lock' = None /\ Forget(s)
    /\ UNCHANGED <<row, payload, json, ask, saver, form, forms, faults, overlap, meddled, sendings>>

\* The status of the row after the write: a task that works on its object
\* writes nothing when the object has the status already; prepare_send_stars
\* updates the row by its id.
Written(s) ==
    IF ask[s] # "SENDING" /\ object[s].status = ask[s] THEN row.status ELSE ask[s]

WriteWholeRow(s) ==  \* a slip: save() instead of an UPDATE of the status
    /\ pc[s] = "read" /\ Allowed(s)
    /\ row' = [object[s] EXCEPT !.status = Written(s)]
    /\ sendings' = sendings + IF row'.status = "SENDING" /\ row.status # "SENDING" THEN 1 ELSE 0
    /\ pc' = [pc EXCEPT ![s] = "done"]
    /\ lock' = None /\ Forget(s)
    /\ UNCHANGED <<payload, json, ask, saver, form, forms, faults, overlap, meddled>>

WriteStatus(s) ==
    /\ pc[s] = "read" /\ Allowed(s)
    /\ row' = [row EXCEPT !.status = Written(s)]
    /\ sendings' = sendings + IF row'.status = "SENDING" /\ row.status # "SENDING" THEN 1 ELSE 0
    /\ pc' = [pc EXCEPT ![s] = "done"]
    /\ lock' = None /\ Forget(s)
    /\ UNCHANGED <<payload, json, ask, saver, form, forms, faults, overlap, meddled>>

-----------------------------------------------------------------------------
(* The tasks that note something: under no lock.                           *)

StartNoter(n) ==
    /\ pc[n] = "queued"
    /\ pc' = [pc EXCEPT ![n] = "read"]
    /\ object' = [object EXCEPT ![n] = row]
    /\ json' = [json EXCEPT ![n] = payload]
    /\ UNCHANGED <<row, payload, ask, saver, form, lock, forms, faults, overlap, meddled, sendings>>

\* What send_stars notes when an order fails: no refusal is needed for it.
ErrorIsNoted(n) ==
    /\ pc[n] = "idle" /\ pc' = [pc EXCEPT ![n] = "queued"]
    /\ UNCHANGED <<row, payload, object, json, ask, saver, form, lock, forms, faults, overlap, meddled, sendings>>

Merged(n)   == [json[n] EXCEPT ![ask[n]] = n]
Replaced(n) == [k \in Key |-> IF k = ask[n] THEN n ELSE None]

\* Those that have read the payload and have not saved theirs.
StillReading(n) == {m \in Noter \ {n} : pc[m] = "read"}

Noted(n, json2) ==
    /\ payload' = json2
    /\ overlap' = overlap \cup {<<m, n>> : m \in StillReading(n)}

SaveNoteReplacing(n) ==  \* a slip: the note replaces the payload
    /\ pc[n] = "read"
    /\ Noted(n, Replaced(n))
    /\ pc' = [pc EXCEPT ![n] = "done"]
    /\ Forget(n) /\ json' = [json EXCEPT ![n] = None]
    /\ UNCHANGED <<row, ask, saver, form, lock, forms, faults, meddled, sendings>>

SaveNote(n) ==
    /\ pc[n] = "read"
    /\ Noted(n, Merged(n))
    /\ pc' = [pc EXCEPT ![n] = "done"]
    /\ Forget(n) /\ json' = [json EXCEPT ![n] = None]
    /\ UNCHANGED <<row, ask, saver, form, lock, forms, faults, meddled, sendings>>

-----------------------------------------------------------------------------
(* A busy database queues a task again, from its beginning; another error, *)
(* or the end of its time, ends it.                                        *)

DatabaseFails(t) ==
    /\ Fault /\ pc[t] = "read"
    /\ \E next \in {"queued", "failed"} : pc' = [pc EXCEPT ![t] = next]
    /\ lock' = IF lock = t THEN None ELSE lock
    /\ Forget(t)
    /\ json' = IF t \in Noter THEN [json EXCEPT ![t] = None] ELSE json
    /\ UNCHANGED <<row, payload, ask, saver, form, forms, overlap, meddled, sendings>>

-----------------------------------------------------------------------------
(* The order handler: save_message_id.                                     *)

ReadForMessage ==
    /\ saver = "none" /\ saver' = "read"
    /\ object' = [object EXCEPT ![Bot] = row]
    /\ UNCHANGED <<row, payload, pc, json, ask, form, lock, forms, faults, overlap, meddled, sendings>>

SaveMessage ==
    /\ saver = "read" /\ saver' = "saved"
    /\ row' = [row EXCEPT !.message = TRUE]
    /\ Forget(Bot)
    /\ UNCHANGED <<payload, pc, json, ask, form, lock, forms, faults, overlap, meddled, sendings>>

SaveMessageFails ==
    /\ Fault /\ saver \in {"none", "read"} /\ saver' = "failed"
    /\ Forget(Bot)
    /\ UNCHANGED <<row, payload, pc, json, ask, form, lock, forms, overlap, meddled, sendings>>

-----------------------------------------------------------------------------
(* The administrator, who corrects the target of an order: every field of  *)
(* the form goes back into the row.  The metadata are shown only.          *)

OpenForm ==
    /\ form = None /\ forms < MaxForms /\ forms' = forms + 1
    /\ form' = row
    /\ UNCHANGED <<row, payload, tasks, saver, lock, faults, overlap, meddled, sendings>>

SaveForm(target) ==
    /\ form # None /\ form' = None
    /\ row' = [form EXCEPT !.target = target]
    /\ meddled' = TRUE
    /\ UNCHANGED <<payload, tasks, saver, lock, forms, faults, overlap, sendings>>

-----------------------------------------------------------------------------
Next ==
    \/ \E s \in Setter : StartSetter(s) \/ WriteStatus(s) \/ Refuse(s)
    \/ \E n \in Noter : StartNoter(n) \/ ErrorIsNoted(n) \/ SaveNote(n)
    \/ \E t \in Task : DatabaseFails(t)
    \/ ReadForMessage \/ SaveMessage \/ SaveMessageFails
    \/ OpenForm \/ \E target \in Target : SaveForm(target)

Spec == Init /\ [][Next]_vars

-----------------------------------------------------------------------------
(* The lock of the transaction keeps one setter between its reading and    *)
(* its writing (sync_get_lock_or_retry).                                   *)
OneSetter == \A s \in Setter : pc[s] = "read" <=> lock = s

(* What a task has read is the row's status still when it writes, unless a *)
(* form was saved meanwhile.                                               *)
ReadHolds ==
    /\ \A s \in Setter : /\ ask[s] \in News
                         /\ pc[s] = "read" /\ ~meddled => object[s].status = row.status
    /\ \A n \in Noter : ask[n] \in Key /\ (pc[n] = "read" => json[n] \in Payload)

RowInv == RowTypeOK /\ OneSetter /\ ReadHolds

(* However slow the writers are, the status of the row moves along the     *)
(* matrix: a note or a message id that is saved late never puts back an    *)
(* older status.  Only an administrator's form can, by its save or under   *)
(* the feet of a task that has read the row                                *)
(* (_update_transaction_by_obj, _update_metadata_by_obj, save_message_id). *)
OnlyFormsBreakTheMatrix ==
    [][\/ row'.status = row.status
       \/ is_change_status_allowed(row.status, row'.status)
       \/ form # None /\ form' = None
       \/ meddled]_vars

(* The message id, once saved, is kept: the handler saves it while the     *)
(* tasks of the webhook are at work, and a task without it edits nothing.  *)
(* Only a form that was opened before can lose it.                         *)
MessageIsKept ==
    [][row.message => row'.message \/ (form # None /\ form' = None)]_vars

(* Both: no writer but the form takes back what another one has written.   *)
OnlyFormsTakeBack == OnlyFormsBreakTheMatrix /\ MessageIsKept

(* A note is lost only to another one that had read the payload before it  *)
(* was saved: notes that follow each other are all kept, whatever keys     *)
(* they have (_update_metadata_by_obj).                                    *)
NotesAreLostInOverlapOnly ==
    \A n \in Noter : pc[n] = "done" =>
        \/ payload[ask[n]] = n
        \/ \E m \in Noter : <<m, n>> \in overlap /\ pc[m] = "done"
        \/ \E m \in Noter \ {n} : pc[m] = "done" /\ ask[m] = ask[n]

-----------------------------------------------------------------------------
(* core/repositories/transaction.py:308: "если обновлять через             *)
(* `transaction_obj`, то запись будет просто обновлена": what one task     *)
(* noted under its own key stays when another one notes something else.    *)
NotesAreMerged ==
    \A n \in Noter : pc[n] = "done" =>
        payload[ask[n]] = n \/ \E m \in Noter \ {n} : pc[m] = "done" /\ ask[m] = ask[n]

(* core/domain/enums.py:99: "Тут переход сам в себя запрещён!": a          *)
(* transaction goes to SENDING once, since that step orders the stars.  A  *)
(* form opened before it and saved after it takes the row back.            *)
SendsOnce == sendings <= 1
=============================================================================
