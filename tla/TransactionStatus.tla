-------------------------- MODULE TransactionStatus --------------------------
(***************************************************************************)
(* The status of a transaction and what each operation on it does          *)
(* (Domain/Model/AbstractStatus and its six subclasses).                   *)
(*                                                                         *)
(* AbstractStatus throws IllegalStateTransitionException for every         *)
(* operation; a subclass overrides the operations its status allows.  An   *)
(* operation is modelled as a set of moves <<from, to>>: the exception is   *)
(* the absence of a move.                                                  *)
(***************************************************************************)

Status == {"pending", "approved", "declined", "aborted", "refunded", "chargedback"}

\* Operation names of AbstractStatus, each with the moves its overrides make.
Approve    == {<<"pending", "approved">>, <<"approved", "approved">>}
Decline    == {<<"pending", "declined">>, <<"declined", "declined">>}
Abort      == {<<"pending", "aborted">>,  <<"aborted", "aborted">>}
Refund     == {<<"approved", "refunded">>, <<"refunded", "refunded">>}
Chargeback == {<<"approved", "chargedback">>, <<"refunded", "chargedback">>,
               <<"chargedback", "chargedback">>}

\* s.op() does not throw.
Allows(s, op) == \E m \in op : m[1] = s

\* The status a transaction has after op: an exception leaves it as it was.
After(s, op) == IF Allows(s, op) THEN CHOOSE n \in Status : <<s, n>> \in op ELSE s

\* BillerResponse::CHARGE_RESULT_*: what the service reads from a biller's answer.
Result == {"approved", "declined", "aborted", "pending"}

\* The status operation a result calls for; a pending result calls for none.
Operation(result) ==
    CASE result = "approved" -> Approve
      [] result = "declined" -> Decline
      [] result = "aborted"  -> Abort
      [] OTHER               -> {}

==============================================================================
