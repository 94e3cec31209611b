------------------------ MODULE TransactionStatuses ------------------------
(***************************************************************************)
(* The status vocabulary of the shop and the pure functions over it: the   *)
(* statuses of a Transaction and the matrix of the moves between them      *)
(* (core/domain/enums.py), and the translations of the payment gateways'   *)
(* and of fragment-api's own statuses into them.                           *)
(***************************************************************************)

ALL_STATUSES ==
    {"PENDING", "PROCESSING", "SENDING", "SEND_CREATED", "IN_DOUBT",
     "CHARGEBACKED", "SUCCESS", "CANCELLED", "FAILED"}

\* Every string a gateway may send that names no status: the code stores it as
\* it came and treats all of them alike.
Unrecognised == "unrecognised"

StatusString == ALL_STATUSES \cup {Unrecognised}

-----------------------------------------------------------------------------
(* The moves of a Transaction's status.  Two rows of the matrix have a name: *)
(* the properties about sending hang on them.                                *)

\* A slip in one of them, to test the properties with: an order that failed may be
\* put back in processing.
FailedMovesWithRestart ==
    {"FAILED", "SUCCESS", "SEND_CREATED", "IN_DOUBT", "CHARGEBACKED", "PROCESSING"}

SendingMoves == {"SEND_CREATED", "SUCCESS", "FAILED", "IN_DOUBT", "CHARGEBACKED"}
FailedMoves == {"FAILED", "SUCCESS", "SEND_CREATED", "IN_DOUBT", "CHARGEBACKED"}

STATUS_TRANSITION_MATRIX ==
    [PENDING      |-> {"PENDING", "CANCELLED", "PROCESSING", "CHARGEBACKED"},
     PROCESSING   |-> {"PROCESSING", "SENDING", "CANCELLED"},
     SENDING      |-> SendingMoves,
     SEND_CREATED |-> {"SEND_CREATED", "SUCCESS", "FAILED", "IN_DOUBT", "CHARGEBACKED"},
     SUCCESS      |-> {"SUCCESS", "CHARGEBACKED"},
     FAILED       |-> FailedMoves,
     IN_DOUBT     |-> {"IN_DOUBT", "SUCCESS", "FAILED", "CHARGEBACKED"},
     CANCELLED    |-> {"CANCELLED", "IN_DOUBT", "SUCCESS", "FAILED", "CHARGEBACKED"},
     CHARGEBACKED |-> {"CHARGEBACKED"}]

is_change_status_allowed(current, new) ==
    \/ /\ current \in ALL_STATUSES
       /\ new \in STATUS_TRANSITION_MATRIX[current]
    \/ /\ current \notin ALL_STATUSES
       /\ new \in {"PENDING", "PROCESSING", "CANCELLED", "CHARGEBACKED"}
    \/ /\ current \notin ALL_STATUSES \/ current \in {"PENDING", "PROCESSING"}
       /\ new \notin ALL_STATUSES

\* The statuses from SENDING on ("the point of no return" of
\* prepare_send_stars_workflow): the matrix never leads out of this set.
PastPointOfNoReturn ==
    {"SENDING", "SEND_CREATED", "SUCCESS", "FAILED", "IN_DOUBT", "CHARGEBACKED"}

-----------------------------------------------------------------------------
(* Translations of foreign statuses.                                        *)

PlategaStatus == {"PENDING", "CANCELED", "CONFIRMED", "CHARGEBACKED"}

FromPlatega(raw) ==
    IF raw = "CONFIRMED" THEN "PROCESSING"
    ELSE IF raw = "CANCELED" THEN "CANCELLED"
    ELSE IF raw \in {"CHARGEBACKED", "PENDING"} THEN raw
    ELSE Unrecognised

PayPearStatus == {"NEW", "PROCESS", "CONFIRMED", "CANCELED", "REFUNDED", "EXPIRED"}

FromPayPear(raw) ==
    IF raw = "CONFIRMED" THEN "PROCESSING"
    ELSE IF raw \in {"CANCELED", "EXPIRED"} THEN "CANCELLED"
    ELSE IF raw = "REFUNDED" THEN "CHARGEBACKED"
    ELSE IF raw \in {"NEW", "PROCESS"} THEN "PENDING"
    ELSE Unrecognised

FragmentStatus == {"CREATED", "PENDING", "COMPLETED", "FAILED", "BLOCKCHAIN_SENT"}

FromFragment(raw) ==
    IF raw \in {"CREATED", "PENDING"} THEN "SEND_CREATED"
    ELSE IF raw = "COMPLETED" THEN "SUCCESS"
    ELSE IF raw = "FAILED" THEN "FAILED"
    ELSE "IN_DOUBT"

\* What the payment keys and the Fragment key of Redis can hold.
PaymentNews == {"PENDING", "PROCESSING", "CANCELLED", "CHARGEBACKED", Unrecognised}
FragmentNews == {"SEND_CREATED", "SUCCESS", "FAILED", "IN_DOUBT"}

=============================================================================
