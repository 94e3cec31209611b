------------------------------ MODULE Broadcast ------------------------------
(***************************************************************************)
(* A broadcast of the shop: the row an administrator edits (core/admin.py, *)
(* core/models.py), the buttons of its form, which publish an order to the *)
(* bot through Redis (core/services/redis_service.py), and the coroutines  *)
(* of the bot that send the preview and the messages                       *)
(* (bot/notifications/broadcast.py), one per order and side by side.       *)
(*                                                                         *)
(* The form is saved and the order published in one database transaction,  *)
(* in SQLite's IMMEDIATE mode: nobody else writes before it is committed,  *)
(* everybody reads the row as it was before it.  Redis hands an order to   *)
(* the listener that is subscribed at the time, or to nobody.              *)
(*                                                                         *)
(* A file_id is the media it was uploaded from.  The text and the buttons  *)
(* of the row decide nothing here and are left out.                        *)
(***************************************************************************)
EXTENDS Naturals, Sequences, FiniteSets

CONSTANTS
    User, Media, None,  \* None: no media, no file_id
    MaxSubmits,         \* bound on submitted forms
    MaxMoves,           \* bound on users that block the bot or come back
    MaxFaults           \* bound on errors, and on deaths of the bot or its listener

BroadcastAssumption ==
    /\ None \notin Media
    /\ MaxSubmits \in Nat /\ MaxMoves \in Nat /\ MaxFaults \in Nat

VARIABLES
    row,       \* the broadcast as committed
    saved,     \* what the form has saved and not yet committed; None: no form open
    listening, \* whether listen_redis_for_broadcasts runs
    inbox,     \* the orders it has been handed and not yet started
    job,       \* the coroutine of every accepted order
    active,    \* is_active of the users
    blocked,   \* whether the user blocks the bot
    news,      \* my_chat_member updates on their way, one sequence per user
    submits, moves, faults,
    refused    \* history: users that have blocked the bot at some time

vars == <<row, saved, listening, inbox, job, active, blocked, news,
          submits, moves, faults, refused>>

Button == {"save", "preview", "broadcast"}
Files  == Media \cup {None}
Press  == 1..MaxSubmits
Steps  == {"none", "published", "lost", "started", "upload", "record",
           "fetch", "send", "drop", "mark", "ended", "failed", "dead"}

RowType == [media : Files, file : Files, preview : BOOLEAN, sent : BOOLEAN]
NewRow(m) == [media |-> m, file |-> None, preview |-> FALSE, sent |-> FALSE]

\* left: the users still to be served; user: the one being served; again: its
\* first attempt has failed; got: the copies each user got of this order;
\* tried: how many attempts on each user ended with an error.
NoJob == [kind |-> "save", step |-> "none", row |-> NewRow(None), to |-> {},
          left |-> {}, user |-> None, again |-> FALSE,
          got |-> [u \in User |-> 0], tried |-> [u \in User |-> 0]]

BroadcastTypeOK ==
    /\ row \in RowType
    /\ saved = None \/ saved \in RowType
    /\ listening \in BOOLEAN
    /\ inbox \in Seq(Press)
    /\ \A o \in Press :
        /\ job[o].kind \in Button /\ job[o].step \in Steps /\ job[o].row \in RowType
        /\ job[o].left \subseteq job[o].to /\ job[o].to \subseteq User
        /\ job[o].user \in User \cup {None}
    /\ active \in [User -> BOOLEAN] /\ blocked \in [User -> BOOLEAN]
    /\ news \in [User -> Seq(BOOLEAN)]
    /\ submits \in 0..MaxSubmits /\ moves \in 0..MaxMoves /\ faults \in 0..MaxFaults

Init ==
    /\ row \in {NewRow(m) : m \in Files}
    /\ saved = None
    /\ listening = TRUE /\ inbox = <<>>
    /\ job = [o \in Press |-> NoJob]
    /\ active = [u \in User |-> TRUE] /\ blocked = [u \in User |-> FALSE]
    /\ news = [u \in User |-> <<>>]
    /\ submits = 0 /\ moves = 0 /\ faults = 0
    /\ refused = {}

-----------------------------------------------------------------------------
(* The form.                                                               *)

\* Broadcast.save: other media make the preview void.
Saved(m) ==
    IF m = row.media THEN row
    ELSE [row EXCEPT !.media = m, !.preview = FALSE, !.file = None]

\* response_change: whether the button's order is published.
Accepted(button, r) ==
    \/ button = "preview"
    \/ button = "broadcast" /\ r.preview /\ (r.media # None => r.file # None)

Submit(m, button) ==
    /\ saved = None /\ submits < MaxSubmits
    /\ submits' = submits + 1
    /\ saved' = Saved(m)
    /\ IF Accepted(button, saved')
       THEN /\ job' = [job EXCEPT ![submits'].kind = button,
                                  ![submits'].step = IF listening THEN "published" ELSE "lost"]
            /\ inbox' = IF listening THEN Append(inbox, submits') ELSE inbox
       ELSE UNCHANGED <<job, inbox>>
    /\ UNCHANGED <<row, listening, active, blocked, news, moves, faults, refused>>

Commit ==
    /\ saved # None
    /\ row' = saved /\ saved' = None
    /\ UNCHANGED <<listening, inbox, job, active, blocked, news, submits, moves, faults, refused>>

-----------------------------------------------------------------------------
(* The listener.                                                           *)

Listen ==
    /\ listening /\ inbox # <<>>
    /\ job' = [job EXCEPT ![Head(inbox)].step = "started"]
    /\ inbox' = Tail(inbox)
    /\ UNCHANGED <<row, saved, listening, active, blocked, news, submits, moves, faults, refused>>

Running(o) == job[o].step \notin {"none", "lost", "ended", "failed", "dead"}

Fault == faults < MaxFaults /\ faults' = faults + 1

\* An error of Redis ends the listener for good, and the orders it was handed.
ListenerEnds ==
    /\ Fault /\ listening
    /\ listening' = FALSE /\ inbox' = <<>>
    /\ job' = [o \in Press |-> IF job[o].step = "published"
                               THEN [job[o] EXCEPT !.step = "lost"] ELSE job[o]]
    /\ UNCHANGED <<row, saved, active, blocked, news, submits, moves, refused>>

\* The bot dies and is started again, with a new listener.
BotRestarts ==
    /\ Fault
    /\ listening' = TRUE /\ inbox' = <<>>
    /\ job' = [o \in Press |-> IF Running(o) THEN [job[o] EXCEPT !.step = "dead"] ELSE job[o]]
    /\ UNCHANGED <<row, saved, active, blocked, news, submits, moves, refused>>

-----------------------------------------------------------------------------
(* process_preview and process_broadcast.                                  *)

Others == <<saved, listening, inbox, blocked, news, submits, moves, refused>>

To(o, step) == job' = [job EXCEPT ![o].step = step]

\* The row is read once, as committed.
ReadRow(o) ==
    /\ job[o].step = "started"
    /\ job' = [job EXCEPT ![o].row = row,
                          ![o].step = IF job[o].kind = "preview" THEN "upload" ELSE "fetch"]
    /\ UNCHANGED <<row, active, faults, Others>>

UploadPreview(o) == job[o].step = "upload" /\ To(o, "record") /\ UNCHANGED <<row, active, faults, Others>>

JobFailsMarking(o) ==  \* a slip: a sending that breaks off is marked as sent
    /\ Fault /\ saved = None /\ job[o].step \in {"started", "upload", "record", "fetch", "mark"}
    /\ row' = [row EXCEPT !.sent = job[o].kind = "broadcast"]
    /\ To(o, "failed")
    /\ UNCHANGED <<active, Others>>

\* A refusal of Telegram, a second network error, an error of the database.
JobFails(o) ==
    /\ Fault /\ job[o].step \in {"started", "upload", "record", "fetch", "mark"}
    /\ To(o, "failed")
    /\ UNCHANGED <<row, active, Others>>

\* asave(update_fields = [telegram_file_id, preview_sent]): media that were
\* replaced meanwhile do not matter, since "media" is not among the fields.
RecordPreview(o) ==
    /\ job[o].step = "record" /\ saved = None
    /\ row' = [row EXCEPT !.file = job[o].row.media, !.preview = TRUE]
    /\ To(o, "ended")
    /\ UNCHANGED <<active, faults, Others>>

Fetch(o) ==
    /\ job[o].step = "fetch"
    /\ LET us == {u \in User : active[u]} IN
       job' = [job EXCEPT ![o].to = us, ![o].left = us,
                          ![o].step = IF us = {} THEN "mark" ELSE "send"]
    /\ UNCHANGED <<row, active, faults, Others>>

\* The next user of the query, or the one whose first attempt has failed.
Serves(o, u) ==
    /\ job[o].step = "send"
    /\ IF job[o].again THEN u = job[o].user ELSE u \in job[o].left

Served(j, u) ==
    [j EXCEPT !.left = @ \ {u}, !.user = None, !.again = FALSE,
              !.step = IF j.left \ {u} = {} THEN "mark" ELSE "send"]

Deliver(o, u) ==
    /\ Serves(o, u) /\ ~ blocked[u]
    /\ job' = [job EXCEPT ![o] = Served([job[o] EXCEPT !.got[u] = @ + 1], u)]
    /\ UNCHANGED <<row, active, faults, Others>>

\* A NetworkError, after the message was sent or instead of it: one more
\* attempt, then the user is counted as failed.
SendFails(o, u) ==
    /\ Serves(o, u) /\ Fault
    /\ \E n \in IF blocked[u] THEN {0} ELSE {0, 1} :
        LET j == [job[o] EXCEPT !.got[u] = @ + n, !.tried[u] = @ + 1] IN
        job' = [job EXCEPT ![o] = IF j.again THEN Served(j, u)
                                  ELSE [j EXCEPT !.again = TRUE, !.user = u]]
    /\ UNCHANGED <<row, active, Others>>

Refuse(o, u) ==
    /\ Serves(o, u) /\ blocked[u]
    /\ job' = [job EXCEPT ![o].step = "drop", ![o].user = u]
    /\ UNCHANGED <<row, active, faults, Others>>

\* The user as the query returned it is saved with is_active = FALSE.
Drop(o) ==
    /\ job[o].step = "drop" /\ saved = None
    /\ active' = [active EXCEPT ![job[o].user] = FALSE]
    /\ job' = [job EXCEPT ![o] = Served(@, @.user)]
    /\ UNCHANGED <<row, faults, Others>>

DropFails(o) ==
    /\ job[o].step = "drop" /\ Fault
    /\ job' = [job EXCEPT ![o] = Served(@, @.user)]
    /\ UNCHANGED <<row, active, Others>>

MarkSent(o) ==
    /\ job[o].step = "mark" /\ saved = None
    /\ row' = [row EXCEPT !.sent = TRUE]
    /\ To(o, "ended")
    /\ UNCHANGED <<active, faults, Others>>

-----------------------------------------------------------------------------
(* The users, and track_chat_member_update.                                *)

UserMoves(u) ==
    /\ moves < MaxMoves /\ moves' = moves + 1
    /\ blocked' = [blocked EXCEPT ![u] = ~ @]
    /\ news' = [news EXCEPT ![u] = Append(@, blocked'[u])]
    /\ refused' = refused \cup {v \in User : blocked'[v]}
    /\ UNCHANGED <<row, saved, listening, inbox, job, active, submits, faults>>

Track(u) ==
    /\ news[u] # <<>> /\ saved = None
    /\ active' = [active EXCEPT ![u] = ~ Head(news[u])]
    /\ news' = [news EXCEPT ![u] = Tail(@)]
    /\ UNCHANGED <<row, saved, listening, inbox, job, blocked, submits, moves, faults, refused>>

TrackFails(u) ==
    /\ news[u] # <<>> /\ Fault
    /\ news' = [news EXCEPT ![u] = Tail(@)]
    /\ UNCHANGED <<row, saved, listening, inbox, job, active, blocked, submits, moves, refused>>

-----------------------------------------------------------------------------
JobStep(o) ==
    \/ ReadRow(o) \/ UploadPreview(o) \/ RecordPreview(o)
    \/ Fetch(o) \/ Drop(o) \/ MarkSent(o)
    \/ \E u \in User : Deliver(o, u) \/ Refuse(o, u)

JobFault(o) == JobFails(o) \/ DropFails(o) \/ \E u \in User : SendFails(o, u)

Next ==
    \/ \E m \in Files, b \in Button : Submit(m, b)
    \/ Commit \/ Listen \/ ListenerEnds \/ BotRestarts
    \/ \E o \in Press : JobStep(o) \/ JobFault(o)
    \/ \E u \in User : UserMoves(u) \/ Track(u) \/ TrackFails(u)

Spec == Init /\ [][Next]_vars

\* The web server finishes a request, the bot's loop runs every coroutine.
Fairness ==
    /\ WF_vars(Commit) /\ WF_vars(Listen)
    /\ \A o \in Press : WF_vars(JobStep(o))

FairSpec == Spec /\ Fairness

-----------------------------------------------------------------------------
(* A file_id and the mark of the preview come and go together, whatever    *)
(* order the saves of the form and of the coroutines are done in; a row    *)
(* without them accepts no broadcast (response_change,                     *)
(* Broadcast._check_update_fields, process_preview).                       *)
FileNeedsPreview ==
    /\ row.file # None => row.preview
    /\ saved # None /\ saved.file # None => saved.preview

BroadcastInv == BroadcastTypeOK /\ FileNeedsPreview

(* A broadcast is marked as done only when a coroutine has been through    *)
(* every user it found active: an error half-way, a death of the bot or a  *)
(* failed query never mark it (process_broadcast).                         *)
SentMeansAllTried ==
    row.sent => \E o \in Press : /\ job[o].kind = "broadcast" /\ job[o].step = "ended"
                                 /\ job[o].left = {}

(* What goes wrong with one user does not cost another one the message:    *)
(* once a coroutine has ended, every user it found active has the message, *)
(* has blocked the bot, or two attempts on it have failed                  *)
(* (_send_message_with_retries).                                           *)
NobodyForgotten ==
    \A o \in Press : job[o].step \in {"mark", "ended"} \/ (job[o].step = "failed" /\ job[o].to # {}) =>
        \A u \in job[o].to : job[o].got[u] > 0 \/ u \in refused \/ job[o].tried[u] = 2

(* A user gets an order's message once, and a second time only when the    *)
(* answer to the first attempt was lost (_retry_action).                   *)
OncePerPress ==
    \A o \in Press, u \in User : job[o].got[u] <= 1 + job[o].tried[u] /\ job[o].got[u] <= 2

(* A user is taken off the broadcasts only if it has blocked the bot: an   *)
(* error of the network never does it (_send_message_with_retries,         *)
(* track_chat_member_update).                                              *)
OnlyBlockersAreDropped ==
    [][\A u \in User : active[u] /\ ~ active'[u] => u \in refused]_vars

(* A coroutine that has started comes to an end, whatever users block the  *)
(* bot and whatever calls fail.                                            *)
JobEnds(o) == job[o].step = "started" ~> ~ Running(o)

-----------------------------------------------------------------------------
(* core/admin.py:326: "Если вы изменили медиа, предпросмотр нужно          *)
(* отправить заново": a row whose preview is marked as sent has the        *)
(* file_id of its media.  A preview that was on its way when the media     *)
(* were replaced marks the new ones, and users get the old ones.           *)
PreviewIsOfTheMedia == row.preview => row.file = row.media

(* core/models.py:72: "Пользователь неактивен, если у бота нет к нему      *)
(* доступа": when no update and no coroutine is under way, an inactive     *)
(* user is one that blocks the bot.  The return of a user between the      *)
(* refusal and the save is overwritten.                                    *)
InactiveIsUnreachable ==
    (\A o \in Press : ~ Running(o)) /\ (\A u \in User : news[u] = <<>>) =>
        \A u \in User : ~ active[u] => blocked[u]

(* core/admin.py:344: "Массовая рассылка запущена в фоновом режиме": a     *)
(* broadcast the form accepts has reached the bot.  Once an error of Redis *)
(* has ended the listener nobody is subscribed, and the number of          *)
(* receivers that Redis returns is thrown away.                            *)
AcceptedReachesTheBot ==
    [][\A o \in Press : job[o].step = "none" /\ job'[o].kind = "broadcast"
            => job'[o].step # "lost"]_vars
=============================================================================
