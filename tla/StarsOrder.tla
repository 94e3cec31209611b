----------------------------- MODULE StarsOrder -----------------------------
(***************************************************************************)
(* What the payment pipeline promises, without workers, locks, keys or     *)
(* queues.  A purchase is open until it is paid; a paid one is sent once:  *)
(* passing from paid to sending issues a permit to place one order at      *)
(* fragment-api.  The permit is used or forfeited, never issued again,     *)
(* because a purchase that is being sent or is settled is never open or    *)
(* paid again.                                                             *)
(***************************************************************************)
EXTENDS Naturals

CONSTANT Tx

VARIABLES stage, permit, ordered

purchase == <<stage, permit, ordered>>

Stage == {"open", "paid", "sending", "settled"}

TypeOK ==
    /\ stage \in [Tx -> Stage]
    /\ permit \in [Tx -> BOOLEAN]
    /\ ordered \in [Tx -> Nat]

Init ==
    /\ stage = [x \in Tx |-> "open"]
    /\ permit = [x \in Tx |-> FALSE]
    /\ ordered = [x \in Tx |-> 0]

\* The gateway says the purchase is paid, or that it is not after all.
Pay(x) ==
    /\ stage[x] \in {"open", "paid"}
    /\ \E s \in {"open", "paid"} : stage' = [stage EXCEPT ![x] = s]
    /\ UNCHANGED <<permit, ordered>>

\* The point of no return.
Commit(x) ==
    /\ stage[x] = "paid"
    /\ stage' = [stage EXCEPT ![x] = "sending"]
    /\ permit' = [permit EXCEPT ![x] = TRUE]
    /\ UNCHANGED ordered

\* The purchase is settled: sent, failed, in doubt or charged back.  It may be
\* settled without having been sent, but not out of paid.
Settle(x) ==
    /\ stage[x] \in {"open", "sending"}
    /\ stage' = [stage EXCEPT ![x] = "settled"]
    /\ UNCHANGED <<permit, ordered>>

PlaceOrder(x) ==
    /\ permit[x]
    /\ permit' = [permit EXCEPT ![x] = FALSE]
    /\ ordered' = [ordered EXCEPT ![x] = @ + 1]
    /\ UNCHANGED stage

Forfeit(x) ==
    /\ permit' = [permit EXCEPT ![x] = FALSE]
    /\ UNCHANGED <<stage, ordered>>

Next == \E x \in Tx :
    Pay(x) \/ Commit(x) \/ Settle(x) \/ PlaceOrder(x) \/ Forfeit(x)

Spec == Init /\ [][Next]_purchase

\* The permit and the order together are at most one, and there is neither before
\* the purchase is being sent.
PermitInv ==
    \A x \in Tx :
        /\ stage[x] \in {"open", "paid"} => ~permit[x] /\ ordered[x] = 0
        /\ permit[x] => ordered[x] = 0
        /\ ordered[x] <= 1

\* No purchase is ordered twice.
OrderedOnce == \A x \in Tx : ordered[x] <= 1
=============================================================================
