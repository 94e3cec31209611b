--------------------------- MODULE FragmentClient ---------------------------
(***************************************************************************)
(* The calls of the shop to fragment-api, request by request: FragmentClient*)
(* (core/integrations/fragment/client.py) with the two ways its callers    *)
(* repeat it, retries_with_tenacity (core/integrations/utils.py) in the bot*)
(* and Celery's retry in create_fragment_transaction_if_not_sent_with_     *)
(* retries (core/integrations/platega/webhook_utils.py).                   *)
(*                                                                         *)
(* For an order the bot looks the receiver of a gift up, then checks that  *)
(* the wallet covers the stars; once the order is paid, a worker does both *)
(* again and posts the order.  PaymentPipeline knows of all this only that *)
(* the order was accepted, refused, or accepted without an answer.  Other  *)
(* orders are at their own steps meanwhile, the wallet is one for all, and *)
(* a receiver may change its name at any time.                             *)
(***************************************************************************)
EXTENDS Integers, FiniteSets

CONSTANTS
    Order,
    Wallet,        \* how many orders the wallet covers at first
    MaxAttempts,   \* RetryConfig.attempts
    MaxRuns,       \* runs of the sending task in its ten minutes
    MaxFaults,     \* answers that are not the one that was hoped for
    Worst          \* which of those the instance has

Answer == {"no connection", "no answer", "token", "busy", "busy for n", "missing", "refused", "empty"}

FragmentClientAssumption ==
    /\ IsFiniteSet(Order)
    /\ {Wallet, MaxFaults} \subseteq Nat
    /\ {MaxAttempts, MaxRuns} \subseteq Nat \ {0}
    /\ Worst \subseteq Answer

VARIABLES
    phase,    \* what the shop does for the order
    at,       \* the request that is made next
    runs,     \* attempts of this phase, the current one included
    raised,   \* the exception of the latest attempt
    balance,  \* of the wallet
    exists,   \* the receiver has the name that was typed in
    posted,   \* orders fragment-api has taken
    faults

vars == <<phase, at, runs, raised, balance, exists, posted, faults>>

Request == {"user", "prices", "balances", "post"}
Running == {"finding", "checking", "sending"}
Error == {"APIError", "NetworkError", "TooManyRequests", "TemporaryError",
          "NotEnoughBalance", "AttributeError", "KeyError"}

FragmentClientTypeOK ==
    /\ phase \in [Order -> Running \cup
          {"new", "found", "not found", "payable", "given up", "sent", "failed"}]
    /\ at \in [Order -> Request]
    /\ runs \in [Order -> 0..(MaxAttempts + MaxRuns)]
    /\ raised \in [Order -> Error \cup {"none"}]
    /\ balance \in Int
    /\ exists \in [Order -> BOOLEAN]
    /\ posted \in [Order -> Nat]
    /\ faults \in 0..MaxFaults

Init ==
    /\ phase = [o \in Order |-> "new"]
    /\ at = [o \in Order |-> "user"]
    /\ runs = [o \in Order |-> 0]
    /\ raised = [o \in Order |-> "none"]
    /\ balance = Wallet
    /\ exists \in [Order -> BOOLEAN]
    /\ posted = [o \in Order |-> 0]
    /\ faults = 0

-----------------------------------------------------------------------------
(* What an answer is to the caller (_make_request, _find_user_by_username,   *)
(* _send_stars_request, check_is_enough_currency_for_stars).                 *)

\* parse_retry_after: a number without a unit has no second group to strip.
RetryAfter(answer) == IF answer = "busy for n" THEN "AttributeError" ELSE "TooManyRequests"

Raised(request, answer) ==
    CASE answer = "no connection"          -> "NetworkError"  \* SAFE_TO_RETRY
      [] answer \in {"no answer", "token"} -> "APIError"
      [] answer \in {"busy", "busy for n"} -> RetryAfter(answer)
      [] answer = "empty"                  -> "TemporaryError"
      [] answer \in {"missing", "refused"} ->
            IF request \in {"user", "post"} THEN "APIError" ELSE "KeyError"

\* Answers a request can have: only a list can be empty, and a name that is missing
\* is not an error of the look-up.
May(request, answer) ==
    /\ answer \in Worst
    /\ answer = "empty" => request \in {"prices", "balances"}
    /\ answer = "missing" => request # "user"

-----------------------------------------------------------------------------
(* The attempts.                                                             *)

First(p) == IF p = "checking" THEN "prices" ELSE "user"

Begin(o, p) ==
    /\ phase' = [phase EXCEPT ![o] = p]
    /\ at' = [at EXCEPT ![o] = First(p)]
    /\ runs' = [runs EXCEPT ![o] = 1]
    /\ raised' = [raised EXCEPT ![o] = "none"]

Fails(o, error) == raised' = [raised EXCEPT ![o] = error] /\ UNCHANGED <<phase, at, runs>>

Becomes(o, p) == phase' = [phase EXCEPT ![o] = p] /\ UNCHANGED <<at, runs, raised>>

Goes(o, request) == at' = [at EXCEPT ![o] = request] /\ UNCHANGED <<phase, runs, raised>>

Asks(o, request) == phase[o] \in Running /\ at[o] = request /\ raised[o] = "none"

\* The user types the name of the receiver of a gift; for oneself it is not looked up.
Find(o) ==
    /\ phase[o] \in {"new", "not found"}
    /\ Begin(o, "finding")
    /\ UNCHANGED <<balance, exists, posted, faults>>

Confirm(o) ==
    /\ phase[o] \in {"new", "found", "given up"}
    /\ Begin(o, "checking")
    /\ UNCHANGED <<balance, exists, posted, faults>>

\* The payment arrives and send_stars_task starts.
Paid(o) ==
    /\ phase[o] = "payable"
    /\ Begin(o, "sending")
    /\ UNCHANGED <<balance, exists, posted, faults>>

-----------------------------------------------------------------------------
LookUp(o) ==
    /\ Asks(o, "user")
    /\ IF phase[o] = "finding"
         THEN Becomes(o, IF exists[o] THEN "found" ELSE "not found")
         ELSE IF exists[o] THEN Goes(o, "prices") ELSE Fails(o, "APIError")
    /\ UNCHANGED <<balance, exists, posted, faults>>

Prices(o) ==
    /\ Asks(o, "prices")
    /\ Goes(o, "balances")
    /\ UNCHANGED <<balance, exists, posted, faults>>

Balances(o) ==
    /\ Asks(o, "balances")
    /\ \/ balance < 1 /\ Fails(o, "NotEnoughBalance")
       \/ balance >= 1 /\ phase[o] = "checking" /\ Becomes(o, "payable")
       \/ balance >= 1 /\ phase[o] # "checking" /\ Goes(o, "post")
    /\ UNCHANGED <<balance, exists, posted, faults>>

\* fragment-api takes the order if the wallet covers it.
Place(o) ==
    /\ balance >= 1
    /\ balance' = balance - 1
    /\ posted' = [posted EXCEPT ![o] = @ + 1]

Post(o) ==
    /\ Asks(o, "post")
    /\ \/ Place(o) /\ Becomes(o, "sent")
       \/ balance < 1 /\ Fails(o, "APIError") /\ UNCHANGED <<balance, posted>>
    /\ UNCHANGED <<exists, faults>>

LookUpFailsAsMissing(o) ==  \* a slip: every other status of the look-up is a "no"
    /\ phase[o] = "finding" /\ Asks(o, "user")
    /\ faults < MaxFaults /\ faults' = faults + 1
    /\ "refused" \in Worst
    /\ Becomes(o, "not found")
    /\ UNCHANGED <<balance, exists, posted>>

\* Any request may fail; a post without an answer may have been taken.
RequestFails(o) ==
    /\ \E answer \in Worst :
          /\ Asks(o, at[o]) /\ May(at[o], answer)
          /\ faults < MaxFaults /\ faults' = faults + 1
          /\ Fails(o, Raised(at[o], answer))
          /\ \/ UNCHANGED <<balance, posted>>
             \/ answer = "no answer" /\ at[o] = "post" /\ Place(o)
    /\ UNCHANGED exists

-----------------------------------------------------------------------------
(* Repetitions.                                                              *)

RetriedEverywhere == Error  \* a slip: every error is retried

\* retries_with_tenacity, and the clauses around create_fragment_transaction.
RetriedByTenacity == {"NetworkError", "TemporaryError", "TooManyRequests"}
RetriedByCelery == {"NetworkError", "TemporaryError", "TooManyRequests", "NotEnoughBalance"}

Limit(o) == IF phase[o] = "sending" THEN MaxRuns ELSE MaxAttempts
Retried(o) == raised[o] \in (IF phase[o] = "sending" THEN RetriedByCelery ELSE RetriedByTenacity)

TryAgain(o) ==
    /\ phase[o] \in Running /\ Retried(o) /\ runs[o] < Limit(o)
    /\ runs' = [runs EXCEPT ![o] = @ + 1]
    /\ at' = [at EXCEPT ![o] = First(phase[o])]
    /\ raised' = [raised EXCEPT ![o] = "none"]
    /\ UNCHANGED <<phase, balance, exists, posted, faults>>

AfterFailure(p) ==
    CASE p = "finding" -> "new" [] p = "checking" -> "given up" [] p = "sending" -> "failed"

\* The last attempt's exception is the call's: error_handler answers the user, who may
\* do it again; the worker reports the sending as failed.
GiveUp(o) ==
    /\ phase[o] \in Running /\ raised[o] # "none" /\ ~(Retried(o) /\ runs[o] < Limit(o))
    /\ Becomes(o, AfterFailure(phase[o]))
    /\ UNCHANGED <<balance, exists, posted, faults>>

-----------------------------------------------------------------------------
\* The receiver takes the name, or gives it up.
Rename(o) ==
    /\ faults < MaxFaults /\ faults' = faults + 1
    /\ exists' = [exists EXCEPT ![o] = ~@]
    /\ UNCHANGED <<phase, at, runs, raised, balance, posted>>

Call(o) ==
    \/ LookUp(o) \/ Prices(o) \/ Balances(o) \/ Post(o) \/ RequestFails(o)
    \/ TryAgain(o) \/ GiveUp(o)

Next == \E o \in Order : Find(o) \/ Confirm(o) \/ Paid(o) \/ Call(o) \/ Rename(o)

Spec == Init /\ [][Next]_vars

\* A request ends by its timeouts and a repetition by its pause.
FairSpec == Spec /\ \A o \in Order : WF_vars(Call(o))

-----------------------------------------------------------------------------
(* Properties                                                                *)

\* However often a sending is repeated, fragment-api takes one order for it at most:
\* whatever is repeated has not been posted ("a network error when the request was
\* certainly NOT sent", errors.py:9).
OrderedOnce == \A o \in Order : posted[o] <= 1

\* What is known to be sent was taken, and what was taken without an answer is a
\* failure to the worker: nothing is sent for an order that was not even paid for.
SentIsPosted ==
    /\ \A o \in Order : phase[o] = "sent" => posted[o] = 1
    /\ \A o \in Order : posted[o] = 1 => phase[o] \in {"sent", "sending", "failed"}

FragmentClientInv == FragmentClientTypeOK /\ SentIsPosted

\* "Not found" is said of a name only when fragment-api says so: an error of the
\* look-up is not the answer "no" (resolve_username's Returns, client.py:152).
NotFoundIsTrue ==
    [][\A o \in Order :
          phase'[o] = "not found" /\ phase[o] # "not found" => ~exists[o]]_phase

\* A call ends: its repetitions are bounded, and the tap or the task it belongs to is
\* not left waiting.
CallEnds(o) == phase[o] \in Running ~> phase[o] \notin Running

\* client.py:82-85 checks the wallet "to make sure that the bot can transfer the stars
\* automatically": an order that was confirmed finds the wallet full enough.
CheckedIsCovered ==
    \A o \in Order : phase[o] = "sending" => raised[o] # "NotEnoughBalance"

\* parse_retry_after, utils.py:9, "returns the seconds, or None": fragment-api being
\* busy is the error that the callers wait for and repeat after.
BusyIsRetried ==
    [][\A o \in Order : phase[o] = "sending" /\ phase'[o] = "failed"
           => raised[o] # "AttributeError"]_phase
=============================================================================
