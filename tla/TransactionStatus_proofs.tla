---------------------- MODULE TransactionStatus_proofs -----------------------
(***************************************************************************)
(* Lemmas about the status operations.                                     *)
(***************************************************************************)
EXTENDS TransactionStatus, TLAPS

\* What each operation an update may call leaves: a CHOOSE-free After.
LEMMA AfterApprove ==
    ASSUME NEW s
    PROVE  After(s, Approve) = IF s \in {"pending", "approved"} THEN "approved" ELSE s
<1>1. CASE s \in {"pending", "approved"}
  <2>1. Allows(s, Approve)
    BY <1>1 DEF Allows, Approve
  <2>2. \A n : <<s, n>> \in Approve => n = "approved"
    BY DEF Approve
  <2>3. <<s, "approved">> \in Approve /\ "approved" \in Status
    BY <1>1 DEF Approve, Status
  <2>4. (CHOOSE n \in Status : <<s, n>> \in Approve) = "approved"
    BY <2>2, <2>3
  <2> QED  BY <1>1, <2>1, <2>4 DEF After
<1>2. CASE s \notin {"pending", "approved"}
  BY <1>2 DEF After, Allows, Approve
<1> QED  BY <1>1, <1>2

LEMMA AfterDecline ==
    ASSUME NEW s
    PROVE  After(s, Decline) = IF s \in {"pending", "declined"} THEN "declined" ELSE s
<1>1. CASE s \in {"pending", "declined"}
  <2>1. Allows(s, Decline)
    BY <1>1 DEF Allows, Decline
  <2>2. \A n : <<s, n>> \in Decline => n = "declined"
    BY DEF Decline
  <2>3. <<s, "declined">> \in Decline /\ "declined" \in Status
    BY <1>1 DEF Decline, Status
  <2>4. (CHOOSE n \in Status : <<s, n>> \in Decline) = "declined"
    BY <2>2, <2>3
  <2> QED  BY <1>1, <2>1, <2>4 DEF After
<1>2. CASE s \notin {"pending", "declined"}
  BY <1>2 DEF After, Allows, Decline
<1> QED  BY <1>1, <1>2

LEMMA AfterAbort ==
    ASSUME NEW s
    PROVE  After(s, Abort) = IF s \in {"pending", "aborted"} THEN "aborted" ELSE s
<1>1. CASE s \in {"pending", "aborted"}
  <2>1. Allows(s, Abort)
    BY <1>1 DEF Allows, Abort
  <2>2. \A n : <<s, n>> \in Abort => n = "aborted"
    BY DEF Abort
  <2>3. <<s, "aborted">> \in Abort /\ "aborted" \in Status
    BY <1>1 DEF Abort, Status
  <2>4. (CHOOSE n \in Status : <<s, n>> \in Abort) = "aborted"
    BY <2>2, <2>3
  <2> QED  BY <1>1, <2>1, <2>4 DEF After
<1>2. CASE s \notin {"pending", "aborted"}
  BY <1>2 DEF After, Allows, Abort
<1> QED  BY <1>1, <1>2

(* A biller result that does not throw makes the status equal to the result,
   unless it is pending, which leaves it. *)
LEMMA ResultBecomesStatus ==
    ASSUME NEW s, NEW result \in Result \ {"pending"}, Allows(s, Operation(result))
    PROVE  After(s, Operation(result)) = result
<1>1. CASE result = "approved"
  <2>1. s \in {"pending", "approved"}
    BY <1>1 DEF Allows, Operation, Approve
  <2> QED  BY <1>1, <2>1, AfterApprove DEF Operation
<1>2. CASE result = "declined"
  <2>1. s \in {"pending", "declined"}
    BY <1>2 DEF Allows, Operation, Decline
  <2> QED  BY <1>2, <2>1, AfterDecline DEF Operation
<1>3. CASE result = "aborted"
  <2>1. s \in {"pending", "aborted"}
    BY <1>3 DEF Allows, Operation, Abort
  <2> QED  BY <1>3, <2>1, AfterAbort DEF Operation
<1> QED  BY <1>1, <1>2, <1>3 DEF Result

==============================================================================
