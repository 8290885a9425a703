------------------------- MODULE RocketgateResponse --------------------------
(***************************************************************************)
(* What Rocketgate answers and how the service reads it                    *)
(* (Infrastructure/Domain/Model/RocketgateBillerResponse).                 *)
(*                                                                         *)
(* A reply is reduced to what the code branches on: the class of its       *)
(* reason code, the major number of _3DSECURE_VERSION (0: absent or not in  *)
(* {1, 2}), and which group of 3DS fields its payload carries.             *)
(***************************************************************************)
EXTENDS Integers, TransactionStatus

(* Classes of RocketgateErrorCodes:
     success  '0'                        link     '0' with PAYMENT_LINK_URL
     nsf      105 over the limit         decline  every other refusal
     auth     202 3DS auth required      init     225 3DS2 initiation
     sca      228 SCA required           failed3ds 203, 204, 205, 223
     abort    the codes of $errorCodesForAbortedStatus *)
Reason == {"success", "link", "nsf", "decline", "auth", "init", "sca", "failed3ds", "abort"}

\* PAREQ + acsURL, _3DSECURE_DEVICE_COLLECTION_*, _3DSECURE_STEP_UP_* + guidNo.
Fields == {"none", "pareq", "device", "stepUp"}

Reply == [reason: Reason, version: 0..2, fields: Fields]

(* A biller response object of the service.  payload is FALSE for the one the
   circuit breaker's fallback makes: it carries neither request nor response. *)
Response == [result: Result, reason: Reason \cup {"fallback"}, version: 0..2,
             fields: Fields, payload: BOOLEAN]

\* Mutant of BillerResult: a payment link, reason code '0' too, counts as approved.
BillerResultByCode(reason, use3D) ==
    CASE use3D /\ reason \in {"auth", "init", "sca"} -> "pending"
      [] reason = "abort"                           -> "aborted"
      [] reason \in {"success", "link"}             -> "approved"
      [] OTHER                                      -> "declined"

\* getBillerResponseResultFrom: later tests override earlier ones.
BillerResult(reason, use3D) ==
    CASE use3D /\ reason \in {"auth", "init", "sca"} -> "pending"
      [] reason = "abort"                           -> "aborted"
      [] reason = "link"                            -> "pending"
      [] reason = "success"                         -> "approved"
      [] OTHER                                      -> "declined"

\* RocketgateBillerResponse::create.
ResponseOf(reply, use3D) ==
    [result  |-> BillerResult(reply.reason, use3D), reason |-> reply.reason,
     version |-> reply.version, fields |-> reply.fields, payload |-> TRUE]

\* createAbortedResponse, from getFallback: no answer, or the circuit is open.
Fallback ==
    [result |-> "aborted", reason |-> "fallback", version |-> 0,
     fields |-> "none", payload |-> FALSE]

\* threedsVersion(); 0 stands for null.
ThreedsVersion(resp) ==
    CASE ~resp.payload                      -> 0
      [] resp.payload /\ resp.version # 0   -> resp.version
      [] resp.payload /\ resp.version = 0 /\ resp.fields = "pareq" -> 1
      [] resp.payload /\ resp.version = 0 /\ resp.fields \in {"device", "stepUp"} -> 2
      [] OTHER                              -> 0

(* The payload announces 3DS 2, so that only the device collection fields tell
   whether the 3DS flow can go on. *)
Announces3DS2(resp) == resp.version = 2 \/ resp.reason = "init"

\* shouldRetryWithThreeD: a 3DS step is asked for but its fields did not come.
ShouldRetryWithThreeD(resp, simplified, cardHash) ==
    /\ resp.payload
    /\ \/ Announces3DS2(resp) /\ resp.fields # "device"
       \/ ~Announces3DS2(resp) /\ resp.reason = "auth" /\ resp.fields # "pareq"
       \/ ~Announces3DS2(resp) /\ resp.reason = "sca" /\ (simplified \/ ~cardHash)

\* Mutant of ShouldRetryWithoutThreeD: a charge without an answer is retried too.
ShouldRetryWithoutAnswer(resp) == resp.reason \in {"failed3ds", "fallback"}

\* shouldRetryWithoutThreeD: the card or the issuer cannot do 3DS.
ShouldRetryWithoutThreeD(resp) == resp.reason = "failed3ds"

IsNsfTransaction(resp) == resp.reason = "nsf"

ThreeDsAuthIsRequired(resp) == resp.reason = "auth"

==============================================================================
