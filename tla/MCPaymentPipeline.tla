------------------------- MODULE MCPaymentPipeline -------------------------
(***************************************************************************)
(* Small instances of PaymentPipeline for TLC.                              *)
(***************************************************************************)
EXTENDS PaymentPipeline, TLC

\* What the gateways report in a run: a link that runs out, is paid after all and
\* refunded ...
PaidLate == {<<"paypear", "EXPIRED">>, <<"paypear", "CONFIRMED">>, <<"paypear", "REFUNDED">>}
\* ... or anything.
EveryReport ==
    {"platega"} \X (PlategaStatus \cup {"?"}) \cup {"paypear"} \X PayPearStatus

\* Workers are interchangeable.
WorkerSymmetry == Permutations(Worker)
=============================================================================
