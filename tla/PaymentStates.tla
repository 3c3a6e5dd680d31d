---------------------------- MODULE PaymentStates ----------------------------
(***************************************************************************)
(* The life cycle of a Spree payment as this engine uses it: the states of *)
(* the state machine, the source states of some events, and the predicates *)
(* that decide which actions a job or an administrator may run on it.      *)
(*                                                                         *)
(* The events belong to Spree (external); :reset_for_retry and every       *)
(* can_*? predicate are the engine's own.                                  *)
(***************************************************************************)

PaymentState == {"checkout", "processing", "pending", "completed",
                 "failed", "void", "invalid"}

\* Spree::Payment::INVALID_STATES, read through has_invalid_state?.
InvalidStates == {"failed", "invalid"}

\* Source states of the events the engine consults, named after the event.
FromComplete   == {"processing", "pending", "checkout"}
FromInvalidate == {"checkout"}

\* reset_for_retry: the only way out of `failed`, `void` and `invalid`.
FromResetForRetry == {"failed", "void", "invalid", "processing"}

-----------------------------------------------------------------------------
(* The predicates of VpagoPaymentSource; `placed` is order.completed?.     *)

CanProcess(state) ==
  /\ state \notin {"completed", "pending"}
  /\ state \in {"processing", "checkout"} \cup InvalidStates

CanCapture_AnyOrder(state, placed) == state = "pending"
CanCapture(state, placed) == placed /\ state = "pending"

CanSyncCapture(state, placed) ==
  placed /\ state \in {"pending", "processing", "failed"}

CanVoid_Completed(state) == state = "completed"
CanVoid(state) == state = "pending"

\* Authorized but not captured: ABA holds the money of a pre-auth payment.
AwaitingPreAuthCapture(state) == state \in {"pending", "processing"}

=============================================================================
