----------------------------- MODULE MCWriters -----------------------------
(***************************************************************************)
(* Small instances, for TLC, of the components where several processes     *)
(* write what belongs to one transaction: its row (TransactionRow) and the *)
(* keys of the webhook endpoints (WebhookFront, once with two webhooks of  *)
(* an order and once with the other sorts of notification).                *)
(*                                                                         *)
(* They share nothing of what is modelled, so that their interleavings say *)
(* no more than each of them alone: in a behaviour only the one that       *)
(* "part" names moves, and the others keep their initial state.            *)
(***************************************************************************)
EXTENDS TransactionRow, TLC

CONSTANTS
    Typed,  \* the target the user has typed in, one of Target
    Tx, Request, MaxDeliveries, MaxTasks, MaxBreaks

VARIABLES
    part,
    step, about, seen, slotLock, key, queued, deliveries, breaks,
    queuings, accepted, failed, broken

frontVars == <<step, about, seen, slotLock, key, queued, deliveries, breaks,
               queuings, accepted, failed, broken>>
writersVars == <<part, vars, frontVars>>

Notification(service, tx, number, keyed, hasId, reads) ==
    [service |-> service, tx |-> tx, number |-> number, keyed |-> keyed, hasId |-> hasId,
     reads |-> reads]

\* Two webhooks of an order; a payment, an event about something else and a webhook
\* that cannot be read.
OrderNews == {Notification("FRAGMENT", x, i, TRUE, TRUE, "as news") : x \in Tx, i \in {1, 2}}
OtherNews ==
    UNION {{Notification("PAYMENT", x, 1, FALSE, FALSE, "as news"),
            Notification("PAYMENT", x, 2, FALSE, FALSE, "as nothing to do with us"),
            Notification("FRAGMENT", x, 1, TRUE, TRUE, "not at all")} : x \in Tx}

W == INSTANCE WebhookFront
        WITH News <- OrderNews, MaxFaults <- MaxBreaks, lock <- slotLock, faults <- breaks
O == INSTANCE WebhookFront
        WITH News <- OtherNews, MaxDeliveries <- 2, MaxFaults <- 1,
             lock <- slotLock, faults <- breaks

ASSUME WritersAssumption == W!WebhookAssumption /\ O!WebhookAssumption

WritersInit ==
    /\ part \in {"row", "webhooks", "other notifications"}
    /\ Init
    /\ row.target = Typed
    /\ part # "row" =>
          /\ \A s \in Setter : ask[s] = "PENDING"
          /\ \A m, n \in Noter : ask[m] = ask[n]
    /\ IF part = "other notifications" THEN O!Init ELSE W!Init

RowMoves == part = "row" /\ Next /\ UNCHANGED <<part, frontVars>>
WebhooksMove == part = "webhooks" /\ W!Next /\ UNCHANGED <<part, vars>>
OthersMove == part = "other notifications" /\ O!Next /\ UNCHANGED <<part, vars>>

WritersSpec == WritersInit /\ [][RowMoves \/ WebhooksMove \/ OthersMove]_writersVars

\* Those who do the same are interchangeable.
Symmetry == Permutations(Setter) \cup Permutations(Noter) \cup Permutations(Key)
            \cup Permutations(Request)

-----------------------------------------------------------------------------
\* The types of all parts, OneSetter of the row, the critical section of the webhooks.
WritersInv ==
    /\ RowInv
    /\ IF part = "other notifications" THEN O!WebhookInv ELSE W!WebhookInv

\* WebhookFront: a notification with an idempotency key queues its task once.
KeyedNewsActsOnce ==
    IF part = "other notifications" THEN O!KeyedNewsActsOnce ELSE W!KeyedNewsActsOnce

\* WebhookFront: a notification answered with 200 has queued its task, unless it has a
\* key and a failed delivery.
AcceptedNewsIsQueued ==
    IF part = "other notifications" THEN O!AcceptedNewsIsQueued ELSE W!AcceptedNewsIsQueued

\* WebhookFront: no status waits under a key without a task to take it.
StatusHasItsTask ==
    IF part = "other notifications" THEN O!StatusHasItsTask ELSE W!StatusHasItsTask

\* WebhookFront: of two webhooks of one order the same one comes last under both keys.
KeysTellTheSame ==
    IF part = "other notifications" THEN O!KeysTellTheSame ELSE W!KeysTellTheSame
=============================================================================
