-------------------------- MODULE PaymentLifecycle ---------------------------
(***************************************************************************)
(* What the service promises about a transaction, without handlers,        *)
(* memory, retries or storage: a transaction is processed once, money is   *)
(* taken only while it is unprocessed, and it is approved only if money    *)
(* was taken.                                                              *)
(***************************************************************************)
CONSTANT TxId

VARIABLES
    status,  \* the status of each transaction, "absent" before it exists
    paid     \* the transactions for which the biller took money

Unprocessed == {"absent", "pending"}
Outcome == {"pending", "approved", "declined", "aborted"}

Init == status = [t \in TxId |-> "absent"] /\ paid = {}

\* The biller takes the money.
Take(t) ==
    /\ status[t] \in Unprocessed
    /\ paid' = paid \cup {t}
    /\ UNCHANGED status

\* The outcome is recorded; money taken without an answer may end otherwise.
Record(t, outcome) ==
    /\ status[t] \in Unprocessed
    /\ outcome = "approved" => t \in paid
    /\ status' = [status EXCEPT ![t] = outcome]
    /\ UNCHANGED paid

Next == \E t \in TxId : Take(t) \/ \E outcome \in Outcome : Record(t, outcome)

Spec == Init /\ [][Next]_<<status, paid>>

==============================================================================
