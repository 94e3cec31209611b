----------------------------- MODULE MCOrders -----------------------------
(***************************************************************************)
(* Small instances, for TLC, of the components whose work has to come to   *)
(* an end: the message of an order (OrderMessage), the tap that creates it *)
(* (OrderCreation), the calls to fragment-api (FragmentClient) and a       *)
(* broadcast (Broadcast).                                                  *)
(*                                                                         *)
(* They share nothing of what is modelled, so that their interleavings say *)
(* no more than each of them alone: in a behaviour only the one that       *)
(* "part" names moves, and the others keep their initial state.            *)
(***************************************************************************)
EXTENDS OrderMessage

CONSTANTS
    Payment, NoPayment, MaxTaps, MaxMishaps, MaxRestarts, MaxStrays,
    Order, Wallet, MaxAttempts, MaxRuns, MaxBadAnswers, Worst,
    User, Media, None, MaxSubmits, MaxMoves, MaxBreakdowns

VARIABLES
    part,
    handler, cur, trouble, userLock, state, msg, told, gate, row, due, seen, old,
    strays, taps, mishaps, restarts,
    phase, at, runs, raised, balance, exists, posted, badAnswers,
    broadcast, saved, listening, inbox, job, active, blocked, news,
    submits, moves, breakdowns, refused

creation == <<handler, cur, trouble, userLock, state, msg, told, gate, row, due, seen, old,
              strays, taps, mishaps, restarts>>
calls == <<phase, at, runs, raised, balance, exists, posted, badAnswers>>
sending == <<broadcast, saved, listening, inbox, job, active, blocked, news,
             submits, moves, breakdowns, refused>>
ordersVars == <<part, vars, creation, calls, sending>>

C == INSTANCE OrderCreation
        WITH MaxFaults <- MaxMishaps, pc <- handler, lock <- userLock, faults <- mishaps
F == INSTANCE FragmentClient WITH MaxFaults <- MaxBadAnswers, faults <- badAnswers
B == INSTANCE Broadcast WITH MaxFaults <- MaxBreakdowns, row <- broadcast, faults <- breakdowns

ASSUME OrdersAssumption ==
    C!OrderCreationAssumption /\ F!FragmentClientAssumption /\ B!BroadcastAssumption

OrdersInit ==
    /\ part \in {"message", "creation", "calls", "broadcast"}
    /\ Init /\ C!Init /\ F!Init /\ B!Init
    /\ part # "calls" => \A o \in Order : exists[o]
    /\ part # "broadcast" => broadcast.media = None

\* An action of one of the parts.
Of(p, A) == part = p /\ A /\ UNCHANGED part
MessageMoves == Of("message", Next) /\ UNCHANGED <<creation, calls, sending>>
CreationMoves == Of("creation", C!Next) /\ UNCHANGED <<vars, calls, sending>>
CallsMove == Of("calls", F!Next) /\ UNCHANGED <<vars, creation, sending>>
BroadcastMoves == Of("broadcast", B!Next) /\ UNCHANGED <<vars, creation, calls>>

OrdersNext == MessageMoves \/ CreationMoves \/ CallsMove \/ BroadcastMoves

\* The processes of each part that run on.  As one part moves only, one fairness
\* condition may be about a process of each: the tasks, the calls and the broadcasts of
\* one number, and those that are there once.
Runs(i) ==
    \/ /\ Of("message", i \in Task /\ TaskRuns(i)) /\ UNCHANGED <<creation, calls, sending>>
    \/ /\ Of("calls", i \in Order /\ F!Call(i)) /\ UNCHANGED <<vars, creation, sending>>
    \/ /\ Of("broadcast", i \in 1..MaxSubmits /\ B!JobStep(i))
       /\ UNCHANGED <<vars, creation, calls>>

HandlerRuns ==
    \/ Of("message", LockRunsOut) /\ UNCHANGED <<creation, calls, sending>>
    \/ Of("creation", C!Handler) /\ UNCHANGED <<vars, calls, sending>>
    \/ Of("broadcast", B!Commit) /\ UNCHANGED <<vars, creation, calls>>

ListenerRuns ==
    \/ Of("creation", C!LockRunsOut) /\ UNCHANGED <<vars, calls, sending>>
    \/ Of("broadcast", B!Listen) /\ UNCHANGED <<vars, creation, calls>>

OrdersFairness ==
    /\ \A i \in Task \cup Order \cup 1..MaxSubmits : WF_ordersVars(Runs(i))
    /\ WF_ordersVars(HandlerRuns) /\ WF_ordersVars(ListenerRuns)

OrdersSpec == OrdersInit /\ [][OrdersNext]_ordersVars /\ OrdersFairness

-----------------------------------------------------------------------------
\* The types of all parts, with OneEditor, LockFollowsHandler, SentIsPosted and
\* FileNeedsPreview.
OrdersInv ==
    MessageInv /\ C!OrderCreationInv /\ F!FragmentClientInv /\ B!BroadcastInv

\* OrderCreation: nobody can pay what the shop does not know, and a tap opens at most
\* one payment.
PaymentsAreKnown == C!LinkHasRow /\ C!OnePaymentPerTap

\* FragmentClient: fragment-api takes one order for a sending at most.
OrderedOnce == F!OrderedOnce

\* Broadcast: a broadcast is marked as sent when a coroutine has been through all its
\* users, none of whom was forgotten or served twice for nothing.
EachUserIsServedOnce == B!SentMeansAllTried /\ B!NobodyForgotten /\ B!OncePerPress

\* OrderCreation, FragmentClient, Broadcast: what is said is so.  A confirmed order is one
\* whose link was shown, a receiver is "not found" only when fragment-api says so, and
\* only users who have blocked the bot are taken off the broadcasts.
StepsAreJustified ==
    C!ConfirmedOrderWasShown /\ F!NotFoundIsTrue /\ B!OnlyBlockersAreDropped

\* Whatever is begun ends: a status that was read is shown, a tap gives its lock back, a
\* call ends, a broadcast ends.  Statuses, calls and broadcasts being alike, the second
\* status (the first new one) and the first call and broadcast stand for the others.
WorkEnds == WhatIsReadIsShown(2) /\ C!TapEnds /\ F!CallEnds(1) /\ B!JobEnds(1)
=============================================================================
