----------------------------- MODULE MCPolling -----------------------------
(***************************************************************************)
(* Small instances of Polling for TLC.                                      *)
(***************************************************************************)
EXTENDS Polling, TLC

\* PayPear's webhooks: which of them come is up to the payment.
PayPearReports == {"paypear"} \X PayPearStatus

WorkerSymmetry == Permutations(Worker)
=============================================================================
