-------------------------- MODULE MCFragmentRecord --------------------------
(***************************************************************************)
(* Small instances of FragmentRecord for TLC, told apart by "part": one    *)
(* with answers, polls and webhooks in any order, as the .cfg has it, and  *)
(* one where the answer is saved first and webhooks come in order.         *)
(***************************************************************************)
EXTENDS FragmentRecord

VARIABLE part

Ordered == INSTANCE FragmentRecord
               WITH AnswerComesFirst <- TRUE, InOrder <- TRUE,
                    MaxWebhooks <- MaxWebhooks + 1, MaxPolls <- 0, MaxFaults <- MaxFaults + 1

recordVars == <<part, vars>>

RecordInit == Init /\ part \in {"any order", "in order"}

AnyOrderMoves == part = "any order" /\ Next /\ UNCHANGED part
InOrderMoves  == part = "in order" /\ Ordered!Next /\ UNCHANGED part

\* What is fair does not depend on what the instances differ in.
RecordSpec == RecordInit /\ [][AnyOrderMoves \/ InOrderMoves]_recordVars /\ Fairness

-----------------------------------------------------------------------------
\* In order: a completed order that a webhook has reported is what the record says in
\* the end, unless a worker dies.
InOrderRecordFollows == part = "in order" => RecordFollowsWebhook

\* In order: a closed record is not written again.
InOrderRecordStays == [][part = "in order" => StaysClosed]_recordVars
=============================================================================
