------------------------------- MODULE MCBot -------------------------------
(***************************************************************************)
(* Small instances, for TLC, of what the users of the bot meet: the promo  *)
(* code (PromoCode, once as the .cfg has it and once "roomy", with one     *)
(* more use in all than for an account) and the dialogue of one user       *)
(* (Conversation).                                                         *)
(*                                                                         *)
(* They share nothing of what is modelled, so that their interleavings say *)
(* no more than each of them alone: in a behaviour only the one that       *)
(* "part" names moves, and the others keep their initial state.            *)
(***************************************************************************)
EXTENDS PromoCode, TLC

CONSTANTS Quantity, Friend, Self, MaxMessages, MaxFailures, MaxMoves

VARIABLES
    part,
    state, draft, activeMessage, screen, sent, expired, member, failures,
    moves,  \* of the dialogue
    roomyActive, roomyUsed, roomyAt, roomyKeys, roomyPrice, roomyPc, roomyGot,
    roomyLock, roomyOrder, roomyFaults, roomyLate

C == INSTANCE Conversation
        WITH active <- activeMessage, faults <- failures, MaxFaults <- MaxFailures

Roomy == INSTANCE PromoCode
            WITH GlobalLimit <- AccountLimit + 1, MaxFaults <- 0, MaxLate <- 0,
                 active <- roomyActive, used <- roomyUsed, at <- roomyAt,
                 keys <- roomyKeys, price <- roomyPrice, pc <- roomyPc, got <- roomyGot,
                 lock <- roomyLock, order <- roomyOrder, faults <- roomyFaults,
                 late <- roomyLate

ASSUME BotAssumption == C!ConversationAssumption /\ Roomy!PromoCodeAssumption

dialogue == <<state, draft, activeMessage, screen, sent, expired, member,
              failures, moves>>
roomyVars == <<roomyActive, roomyUsed, roomyAt, roomyKeys, roomyPrice, roomyPc, roomyGot,
               roomyLock, roomyOrder, roomyFaults, roomyLate>>
botVars == <<part, vars, dialogue, roomyVars>>

BotInit ==
    /\ part \in {"promo code", "roomy code", "conversation"}
    /\ Init
    /\ C!Init
    /\ part # "conversation" => member
    /\ Roomy!Init

\* A handler fails or an order counts again, not both: what is checked of this instance
\* PromoCodeProofs proves for any number of them.
PromoCodeMoves ==
    /\ part = "promo code"
    /\ Next /\ faults' + late' <= 1
    /\ UNCHANGED <<part, dialogue, roomyVars>>
RoomyCodeMoves == part = "roomy code" /\ Roomy!Next /\ UNCHANGED <<part, vars, dialogue>>
ConversationMoves == part = "conversation" /\ C!Next /\ UNCHANGED <<part, vars, roomyVars>>

BotSpec == BotInit /\ [][PromoCodeMoves \/ RoomyCodeMoves \/ ConversationMoves]_botVars

\* Users, and orders, are interchangeable.
UserAndOrderSymmetry == Permutations(User) \cup Permutations(Order)

-----------------------------------------------------------------------------
\* The types of all parts, EntriesExclude of the code, DraftIsComplete of the dialogue.
BotInv == PromoCodeInv /\ Roomy!PromoCodeInv /\ C!ConversationInv

\* PromoCode: where no handler fails and no order is paid after it was cancelled, a
\* user's orders stay within usage_account, however entering, ordering and the nightly
\* task interleave.
UndisturbedLimitKept == Roomy!AccountLimitKept

\* Conversation: the order that is made is the one the user was shown.
WhatIsShownIsOrdered == C!WhatIsShownIsOrdered

\* Conversation: while nothing failed no state of the dialogue is a dead end.
NoDeadEnd == C!NoDeadEnd

\* Conversation: the bot does not delete the message with the link.
LinkStays == C!LinkStays
=============================================================================
