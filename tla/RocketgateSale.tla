--------------------------- MODULE RocketgateSale ----------------------------
(***************************************************************************)
(* Rocketgate charge transactions: the handlers that create, look up,      *)
(* complete and abort one, each run by a PHP process of its own over a     *)
(* Firestore document, a Redis key for the CVV, the biller and the BI log. *)
(*                                                                         *)
(* Nothing locks a transaction and a save is a blind overwrite of the       *)
(* document (DocumentReference::set), so a step of this module is what a    *)
(* handler does between two accesses to something shared: a biller call,    *)
(* a Redis access, a read or a write of the document, a BI event.          *)
(***************************************************************************)
EXTENDS ChargeEntity

CONSTANTS
    Request,        \* HTTP requests; each runs one handler once
    TxId,           \* transaction ids
    None,           \* no transaction, no CVV
    BillerReplies,  \* the replies Rocketgate may give
    Faults,         \* what may go wrong, a subset of Fault
    Overlap,        \* TRUE: requests on one transaction may run at once
    NsfFlow         \* env('NSF_FLOW_ENABLED')

(* crash     the PHP process dies between two steps
   noAnswer  a biller call fails or the circuit is open; the charge may have
             been taken all the same
   firestore a read or a save throws FirestoreException; a save that throws
             may have been applied
   redis     a Redis access fails; RedisRepository only logs it
   upgrade   the biller answers a transaction known as 3DS 1 with 3DS 2
   approved2 the biller approves the first charge of a sale and says 3DS 2,
             which the service takes for a request to charge again *)
Fault == {"crash", "noAnswer", "firestore", "redis", "upgrade", "approved2"}

ASSUME NoneAssumption == None \notin TxId /\ None \notin Request
ASSUME RepliesAssumption == BillerReplies \subseteq Reply
ASSUME FaultsAssumption == Faults \subseteq Fault
ASSUME ModeAssumption == Overlap \in BOOLEAN /\ NsfFlow \in BOOLEAN

SaleKind == {"newCard", "existingCard", "check"}
FollowUpKind == {"lookup", "complete", "simplified", "abort"}
Kind == SaleKind \cup FollowUpKind

\* The steps at which a handler waits for the biller; those in TakingStep may take money.
ChargeStep == {"charge", "chargeWith3D", "chargeWithout3D"}
TakingStep == ChargeStep \cup {"lookup", "bypass", "complete"}
CallStep == TakingStep \cup {"upload", "bypassUpload"}
Call == Request \X CallStep

Step == CallStep \cup {"storeCvv", "add", "biCreated", "lookupBi", "lookupCvv",
                       "retrieveCvv", "deleteCvv", "update", "biUpdated"}

VARIABLES
    doc,       \* the Firestore collection: a document for each id
    cvv,       \* Redis: the request whose CVV is stored for an id, or None
    captured,  \* the biller: the calls that took money for an id
    bi,        \* BI events: the set of <<id, status>> reported
    pc,        \* "idle", a Step, or how the request ended
    kind,      \* the handler a request runs
    on,        \* the id a request works on, or None
    mem,       \* the entity in the memory of a request
    got,       \* the CVV a request retrieved, or None
    answer     \* the biller response a complete request holds

vars == <<doc, cvv, captured, bi, pc, kind, on, mem, got, answer>>

Ended == {"done", "rejected", "failed"}

TypeOK ==
    /\ doc \in [TxId -> Document(Call)]
    /\ cvv \in [TxId -> Request \cup {None}]
    /\ captured \in [TxId -> SUBSET Call]
    /\ bi \subseteq TxId \X Status
    /\ pc \in [Request -> {"idle"} \cup Step \cup Ended]
    /\ kind \in [Request -> Kind]
    /\ on \in [Request -> TxId \cup {None}]
    /\ mem \in [Request -> Entity(Call)]
    /\ got \in [Request -> Request \cup {None}]
    /\ answer \in [Request -> Response]

Init ==
    /\ doc = [t \in TxId |-> NoDocument]
    /\ cvv = [t \in TxId |-> None]
    /\ captured = [t \in TxId |-> {}]
    /\ bi = {}
    /\ pc = [r \in Request |-> "idle"]
    /\ kind = [r \in Request |-> "abort"]
    /\ on = [r \in Request |-> None]
    /\ mem = [r \in Request |-> NewEntity(FALSE)]
    /\ got = [r \in Request |-> None]
    /\ answer = [r \in Request |-> Fallback]

Active(r) == pc[r] \in Step

GoTo(r, step) == pc' = [pc EXCEPT ![r] = step]

(* Whether a client may send a request on t: it learns the id from the answer to
   the sale, and with Overlap nothing else holds it back - a double submit, a
   retry after a gateway timeout, a second tab. *)
MayStart(t) ==
    \A q \in Request : Active(q) /\ on[q] = t => Overlap /\ kind[q] \notin SaleKind

-----------------------------------------------------------------------------
(* Starting a request.                                                     *)

\* Where a handler goes once it has its entity.
FirstStep(k) == CASE k \in SaleKind     -> "charge"
                  [] k = "complete"     -> "retrieveCvv"
                  [] k = "simplified"   -> "complete"
                  [] k = "lookup"       -> "lookup"
                  [] k = "abort"        -> "update"

(* A sale creates the entity under a fresh id: nobody knows it before the
   handler returns. *)
StartSale(r, t, k, use3D) ==
    /\ pc[r] = "idle"
    /\ \A q \in Request : on[q] # t
    /\ kind' = [kind EXCEPT ![r] = k]
    /\ on' = [on EXCEPT ![r] = t]
    /\ mem' = [mem EXCEPT ![r] = NewEntity(use3D)]
    /\ GoTo(r, FirstStep(k))
    /\ UNCHANGED <<doc, cvv, captured, bi, got, answer>>

(* The entity a follow-up works on.  complete and simplifiedComplete set the
   3D flag, which is not stored, before anything else; abort aborts. *)
Loaded(k, d) ==
    CASE k \in {"complete", "simplified"} -> [Hydrate(d) EXCEPT !.with3D = TRUE]
      [] k = "abort" -> [Hydrate(d) EXCEPT !.status = After(@, Abort)]
      [] OTHER       -> Hydrate(d)

\* Mutants of GoesOn: the test forgets one of the processed statuses.
GoesOnDeclined(d) == d.status \in {"pending", "declined"}
GoesOnApproved(d) == d.status \in {"pending", "approved"}

\* The status test every follow-up makes on the transaction findById returns.
GoesOn(d) == d.status = "pending"

\* lookup also reads the first response payload and throws without one.
LoadPending(r, t, k) ==
    /\ pc[r] = "idle"
    /\ MayStart(t)
    /\ GoesOn(doc[t])
    /\ kind' = [kind EXCEPT ![r] = k]
    /\ on' = [on EXCEPT ![r] = t]
    /\ mem' = [mem EXCEPT ![r] = Loaded(k, doc[t])]
    /\ GoTo(r, IF k = "lookup" /\ doc[t].ixn = {} THEN "failed" ELSE FirstStep(k))
    /\ UNCHANGED <<doc, cvv, captured, bi, got, answer>>

(* TransactionNotFound, InvalidStatus, InvalidPreviousTransactionStatus,
   TransactionAlreadyProcessed; or the read failed. *)
LoadRefused(r, t, k) ==
    /\ pc[r] = "idle"
    /\ MayStart(t)
    /\ ~GoesOn(doc[t]) \/ "firestore" \in Faults
    /\ kind' = [kind EXCEPT ![r] = k]
    /\ on' = [on EXCEPT ![r] = IF doc[t].status = "absent" THEN None ELSE t]
    /\ GoTo(r, "rejected")
    /\ UNCHANGED <<doc, cvv, captured, bi, mem, got, answer>>

-----------------------------------------------------------------------------
(* The biller.                                                             *)

(* use3DSecure as the biller echoes it: what a charge or an upload asked for,
   always set on a lookup; a complete call does not say. *)
Echo(r) == CASE pc[r] = "lookup"   -> {TRUE}
             [] pc[r] = "complete" -> BOOLEAN
             [] OTHER              -> {mem[r].with3D}

(* What Rocketgate may answer at this point: unless "approved2" the approval of
   a first charge does not announce 3DS 2, and unless "upgrade" it keeps to the
   3DS version the transaction has. *)
Offered(r, reply) ==
    /\ \/ "approved2" \in Faults
       \/ pc[r] = "charge" /\ reply.reason = "success" => reply.version # 2
    /\ \/ "upgrade" \in Faults
       \/ mem[r].ver = 0
       \/ ThreedsVersion(ResponseOf(reply, TRUE)) <= mem[r].ver

(* The answers the call request r waits for may end with: the response the
   service gets and whether the biller took the money.  An approved call did;
   when no answer came, or came too late, it may have. *)
Answers(r) ==
    {[resp |-> ResponseOf(reply, use3D),
      took |-> reply.reason = "success" /\ pc[r] \in TakingStep] :
        reply \in {x \in BillerReplies : Offered(r, x)}, use3D \in Echo(r)}
    \cup
    {[resp |-> Fallback, took |-> took] :
        took \in {x \in BOOLEAN : "noAnswer" \in Faults /\ (x => pc[r] \in TakingStep)}}

\* The biller's side of an answer.
Takes(r, took) ==
    captured' = IF took THEN [captured EXCEPT ![on[r]] = @ \cup {<<r, pc[r]>>}]
                ELSE captured

\* The call a response r holds answers: a complete deletes the CVV in between.
AnsweredCall(r) == IF pc[r] = "deleteCvv" THEN "complete" ELSE pc[r]

(* The handler takes resp as the final response to its call: it updates the
   entity e and goes on, or the update throws and nothing more is done. *)
Settle(r, e, resp, next) ==
    \/ /\ ~UpdateThrows(e, resp, NsfFlow)
       /\ mem' = [mem EXCEPT ![r] = UpdatedEntity(e, <<r, AnsweredCall(r)>>, resp, NsfFlow)]
       /\ GoTo(r, next)
    \/ /\ UpdateThrows(e, resp, NsfFlow)
       /\ GoTo(r, "failed")
       /\ UNCHANGED mem

-----------------------------------------------------------------------------
(* Sales: ChargeThreeDService::chargeNewCreditCard, chargeExistingCreditCard,
   RocketgateChargeService::chargeOtherPaymentType.                        *)

\* Mutant of RetriesWithThreeD: the retry without 3DS may be retried with 3DS.
RetriesAgainWithThreeD(r, resp) ==
    /\ pc[r] # "chargeWith3D"
    /\ kind[r] = "newCard" /\ ShouldRetryWithThreeD(resp, FALSE, FALSE)

\* The first charge of a card sale is retried with 3DS.
RetriesWithThreeD(r, resp) ==
    /\ pc[r] = "charge"
    /\ \/ kind[r] = "newCard" /\ ShouldRetryWithThreeD(resp, FALSE, FALSE)
       \/ /\ kind[r] = "existingCard"
          /\ \E simplified \in BOOLEAN : ShouldRetryWithThreeD(resp, simplified, TRUE)

\* It may not be: the simplified 3DS flag of an existing card may be off.
KeepsFirstAnswer(r, resp) ==
    \/ ~RetriesWithThreeD(r, resp)
    \/ kind[r] = "existingCard" /\ ~ShouldRetryWithThreeD(resp, FALSE, TRUE)

\* A new card sale whose card cannot do 3DS is charged again without it.
RetriesWithoutThreeD(r, resp) ==
    /\ kind[r] = "newCard"
    /\ pc[r] \in {"charge", "chargeWith3D"}
    /\ ShouldRetryWithoutThreeD(resp)

ChargeRetriedWithThreeD(r) ==
    /\ pc[r] \in ChargeStep
    /\ \E a \in Answers(r) :
          /\ Takes(r, a.took)
          /\ RetriesWithThreeD(r, a.resp)
          /\ mem' = [mem EXCEPT ![r] = MarkedWithThreeD(@, <<r, pc[r]>>, a.resp)]
    /\ GoTo(r, "chargeWith3D")
    /\ UNCHANGED <<doc, cvv, bi, kind, on, got, answer>>

ChargeRetriedWithoutThreeD(r) ==
    /\ pc[r] \in ChargeStep
    /\ \E a \in Answers(r) :
          /\ Takes(r, a.took)
          /\ KeepsFirstAnswer(r, a.resp)
          /\ RetriesWithoutThreeD(r, a.resp)
          /\ mem' = [mem EXCEPT ![r] = MarkedWithoutThreeD(@, <<r, pc[r]>>, a.resp)]
    /\ GoTo(r, "chargeWithout3D")
    /\ UNCHANGED <<doc, cvv, bi, kind, on, got, answer>>

\* The CVV is kept for the complete step when a new card sale waits for 3DS 1.
AfterCharge(r, resp) ==
    IF kind[r] = "newCard" /\ ThreeDsAuthIsRequired(resp) /\ resp.result = "pending"
    THEN "storeCvv" ELSE "add"

ChargeAnswered(r) ==
    /\ pc[r] \in ChargeStep
    /\ \E a \in Answers(r) :
          /\ Takes(r, a.took)
          /\ KeepsFirstAnswer(r, a.resp)
          /\ ~RetriesWithoutThreeD(r, a.resp)
          /\ Settle(r, mem[r], a.resp, AfterCharge(r, a.resp))
    /\ UNCHANGED <<doc, cvv, bi, kind, on, got, answer>>

\* Mutant of UploadsCard: the card of any sale may be uploaded.
UploadsAnyCard(r) == kind[r] = "newCard"

\* The card of a sale refused for lack of funds may be uploaded.
UploadsCard(r) == kind[r] = "newCard" /\ mem[r].nsf /\ NsfFlow

(* ChargeTransactionCreated, then: a declined existing card sale returns, an NSF
   sale may upload the card, every other sale saves the fields read from its
   interactions. *)
ReportCreated(r) ==
    /\ pc[r] = "biCreated"
    /\ bi' = bi \cup {<<on[r], mem[r].status>>}
    /\ \/ /\ kind[r] = "existingCard"
          /\ mem[r].status \in {"declined", "aborted"}
          /\ GoTo(r, "done")
       \/ UploadsCard(r) /\ GoTo(r, "upload")
       \/ /\ kind[r] = "existingCard" => mem[r].status \notin {"declined", "aborted"}
          /\ GoTo(r, "update")
    /\ UNCHANGED <<doc, cvv, captured, kind, on, mem, got, answer>>

\* cardUpload: charged on a clone that shares the interactions, recorded on the original.
CardUploaded(r) ==
    /\ pc[r] = "upload"
    /\ \E a \in Answers(r) : Takes(r, a.took) /\ Settle(r, mem[r], a.resp, "update")
    /\ UNCHANGED <<doc, cvv, bi, kind, on, got, answer>>

-----------------------------------------------------------------------------
(* The 3DS 2 lookup: LookupThreeDsTwoService::manageTransactionByLookupResponse. *)

LookupRetriedWithoutThreeD(r) ==
    /\ pc[r] = "lookup"
    /\ \E a \in Answers(r) :
          /\ Takes(r, a.took)
          /\ ShouldRetryWithoutThreeD(a.resp)
          /\ mem' = [mem EXCEPT ![r] = MarkedWithoutThreeD(@, <<r, pc[r]>>, a.resp)]
    /\ GoTo(r, "bypass")
    /\ UNCHANGED <<doc, cvv, bi, kind, on, got, answer>>

(* The 3D flag is set just before the update, and the update is reported only
   when no authentication has to follow. *)
LookupAnswered(r) ==
    /\ pc[r] = "lookup"
    /\ \E a \in Answers(r) :
          /\ Takes(r, a.took)
          /\ ~ShouldRetryWithoutThreeD(a.resp)
          /\ Settle(r, [mem[r] EXCEPT !.with3D = TRUE], a.resp,
                    IF ThreeDsAuthIsRequired(a.resp) THEN "lookupCvv" ELSE "lookupBi")
    /\ UNCHANGED <<doc, cvv, bi, kind, on, got, answer>>

\* The charge without 3DS; an NSF answer may be followed by a card upload.
BypassAnswered(r) ==
    /\ pc[r] = "bypass"
    /\ \E a \in Answers(r), next \in {"lookupBi", "bypassUpload"} :
          /\ Takes(r, a.took)
          /\ next = "bypassUpload" => IsNsfTransaction(a.resp) /\ NsfFlow
          /\ Settle(r, mem[r], a.resp, next)
    /\ UNCHANGED <<doc, cvv, bi, kind, on, got, answer>>

(* The upload updates a clone: the entity gains the interactions alone, through
   the collection both share. *)
BypassUploaded(r) ==
    /\ pc[r] = "bypassUpload"
    /\ \E a \in Answers(r) :
          /\ Takes(r, a.took)
          /\ mem' = [mem EXCEPT ![r].ixn = Recorded(mem[r], <<r, pc[r]>>, a.resp)]
    /\ GoTo(r, "lookupBi")
    /\ UNCHANGED <<doc, cvv, bi, kind, on, got, answer>>

\* TransactionUpdated is written before the document.
ReportLookup(r) ==
    /\ pc[r] = "lookupBi"
    /\ bi' = bi \cup {<<on[r], mem[r].status>>}
    /\ GoTo(r, "lookupCvv")
    /\ UNCHANGED <<doc, cvv, captured, kind, on, mem, got, answer>>

-----------------------------------------------------------------------------
(* The CVV in Redis: RedisRepository.                                      *)

\* storeCvv: SET with NX, so a CVV already there stays.
Stored(t, r) == [cvv EXCEPT ![t] = IF @ = None THEN r ELSE @]

StoreCvv(r) ==
    /\ \/ pc[r] = "storeCvv" /\ GoTo(r, "add")
       \/ pc[r] = "lookupCvv" /\ GoTo(r, "update")
    /\ \/ /\ pc[r] = "lookupCvv" => mem[r].with3D /\ mem[r].status = "pending"
          /\ cvv' = Stored(on[r], r)
       \/ /\ \/ pc[r] = "lookupCvv" /\ ~(mem[r].with3D /\ mem[r].status = "pending")
             \/ "redis" \in Faults
          /\ UNCHANGED cvv
    /\ UNCHANGED <<doc, captured, bi, kind, on, mem, got, answer>>

RetrieveCvv(r) ==
    /\ pc[r] = "retrieveCvv"
    /\ \/ got' = [got EXCEPT ![r] = cvv[on[r]]]
       \/ "redis" \in Faults /\ got' = [got EXCEPT ![r] = None]
    /\ GoTo(r, "complete")
    /\ UNCHANGED <<doc, cvv, captured, bi, kind, on, mem, answer>>

\* REDIS_RECORD_TTL runs out.
CvvExpires(t) ==
    /\ cvv[t] # None
    /\ cvv' = [cvv EXCEPT ![t] = None]
    /\ UNCHANGED <<doc, captured, bi, pc, kind, on, mem, got, answer>>

-----------------------------------------------------------------------------
(* Completing 3DS.                                                         *)

\* completeThreeD keeps the response while it deletes the CVV, simplifiedComplete updates at once.
CompleteAnswered(r) ==
    /\ pc[r] = "complete"
    /\ \E a \in Answers(r) :
          /\ Takes(r, a.took)
          /\ \/ /\ kind[r] = "complete"
                /\ answer' = [answer EXCEPT ![r] = a.resp]
                /\ GoTo(r, "deleteCvv")
                /\ UNCHANGED mem
             \/ /\ kind[r] = "simplified"
                /\ Settle(r, mem[r], a.resp, "update")
                /\ UNCHANGED answer
    /\ UNCHANGED <<doc, cvv, bi, kind, on, got>>

\* Mutants of DeleteCvv: only an approval deletes the CVV; the entity is not updated.
DeleteCvvIfApproved(r) ==
    /\ pc[r] = "deleteCvv"
    /\ cvv' = IF got[r] # None /\ answer[r].result = "approved"
              THEN [cvv EXCEPT ![on[r]] = None] ELSE cvv
    /\ Settle(r, mem[r], answer[r], "update")
    /\ UNCHANGED <<doc, captured, bi, kind, on, got, answer>>

DeleteCvvWithoutUpdate(r) ==
    /\ pc[r] = "deleteCvv"
    /\ cvv' = IF got[r] # None THEN [cvv EXCEPT ![on[r]] = None] ELSE cvv
    /\ GoTo(r, "update")
    /\ UNCHANGED <<doc, captured, bi, kind, on, mem, got, answer>>

\* The CVV goes if one was retrieved; then the entity is updated.
DeleteCvv(r) ==
    /\ pc[r] = "deleteCvv"
    /\ \/ cvv' = IF got[r] # None THEN [cvv EXCEPT ![on[r]] = None] ELSE cvv
       \/ "redis" \in Faults /\ UNCHANGED cvv
    /\ Settle(r, mem[r], answer[r], "update")
    /\ UNCHANGED <<doc, captured, bi, kind, on, got, answer>>

-----------------------------------------------------------------------------
(* Saving and reporting.                                                   *)

Reports(k) == k \in {"complete", "simplified", "abort"}

\* Mutant of Save: what a lookup did is reported but not saved.
SaveUnlessLookup(r) ==
    /\ \/ pc[r] = "add" /\ GoTo(r, "biCreated")
       \/ pc[r] = "update" /\ GoTo(r, IF Reports(kind[r]) THEN "biUpdated" ELSE "done")
    /\ doc' = IF kind[r] = "lookup" THEN doc
              ELSE [doc EXCEPT ![on[r]] = ToDocument(mem[r])]
    /\ UNCHANGED <<cvv, captured, bi, kind, on, mem, got, answer>>

\* repository->add and repository->update: the whole document is replaced.
Save(r) ==
    /\ \/ pc[r] = "add" /\ GoTo(r, "biCreated")
       \/ pc[r] = "update" /\ GoTo(r, IF Reports(kind[r]) THEN "biUpdated" ELSE "done")
    /\ doc' = [doc EXCEPT ![on[r]] = ToDocument(mem[r])]
    /\ UNCHANGED <<cvv, captured, bi, kind, on, mem, got, answer>>

\* FirestoreException: the write may have been applied.
SaveFails(r) ==
    /\ "firestore" \in Faults
    /\ pc[r] \in {"add", "update"}
    /\ \/ doc' = [doc EXCEPT ![on[r]] = ToDocument(mem[r])]
       \/ UNCHANGED doc
    /\ GoTo(r, "failed")
    /\ UNCHANGED <<cvv, captured, bi, kind, on, mem, got, answer>>

(* An attempt of the save takes effect without an answer and the repository makes
   another one (FirestoreRepository). *)
SaveRepeated(r) ==
    /\ "firestore" \in Faults
    /\ pc[r] \in {"add", "update"}
    /\ doc' = [doc EXCEPT ![on[r]] = ToDocument(mem[r])]
    /\ UNCHANGED <<cvv, captured, bi, pc, kind, on, mem, got, answer>>

ReportUpdated(r) ==
    /\ pc[r] = "biUpdated"
    /\ bi' = bi \cup {<<on[r], mem[r].status>>}
    /\ GoTo(r, "done")
    /\ UNCHANGED <<doc, cvv, captured, kind, on, mem, got, answer>>

Crash(r) ==
    /\ "crash" \in Faults
    /\ Active(r)
    /\ GoTo(r, "failed")
    /\ UNCHANGED <<doc, cvv, captured, bi, kind, on, mem, got, answer>>

-----------------------------------------------------------------------------

\* What a running handler does next, unless it crashes.
Proceed(r) ==
    \/ ChargeRetriedWithThreeD(r) \/ ChargeRetriedWithoutThreeD(r) \/ ChargeAnswered(r)
    \/ ReportCreated(r) \/ CardUploaded(r)
    \/ LookupRetriedWithoutThreeD(r) \/ LookupAnswered(r) \/ BypassAnswered(r)
    \/ BypassUploaded(r) \/ ReportLookup(r)
    \/ StoreCvv(r) \/ RetrieveCvv(r) \/ CompleteAnswered(r) \/ DeleteCvv(r)
    \/ Save(r) \/ SaveFails(r) \/ ReportUpdated(r)

Start(r) ==
    \E t \in TxId :
        \/ \E k \in SaleKind, use3D \in BOOLEAN :
              /\ k = "check" => ~use3D
              /\ StartSale(r, t, k, use3D)
        \/ \E k \in FollowUpKind : LoadPending(r, t, k) \/ LoadRefused(r, t, k)

Next ==
    \/ \E r \in Request : Start(r) \/ Proceed(r) \/ SaveRepeated(r) \/ Crash(r)
    \/ \E t \in TxId : CvvExpires(t)

Spec == Init /\ [][Next]_vars

\* A PHP process runs until its request ends; clients need not send any.
FairSpec == Spec /\ \A r \in Request : WF_vars(Proceed(r))

-----------------------------------------------------------------------------
(* Properties that hold however the requests overlap and whatever fails.   *)

HasResult(d, result) == \E i \in d.ixn : i.result = result

\* The status of an entity or document rests on a biller answer it holds.  An
\* aborted one may have none: no answer came, or the client gave up.
Backed(d) == d.status \in {"pending", "approved", "declined"} => HasResult(d, d.status)

\* If d is approved, a call whose approval it holds is among those that took money.
Paid(d, taken) == d.status = "approved" =>
                    \E i \in d.ixn : i.result = "approved" /\ i.call \in taken

\* A document never has a status its own record of biller answers does not
\* explain, whatever interleaving, lost answer or failed save wrote it.
StatusIsRecorded == \A t \in TxId : Backed(doc[t])

\* A document says approved only if the biller took money in a call whose
\* approval the document holds: no interleaving, lost answer or failed save
\* makes a free purchase.
ApprovedIsPaid == \A t \in TxId : Paid(doc[t], captured[t])

\* Why the last two hold: the entity in the memory of each running handler is
\* as well founded as the document it will overwrite, from the first answer
\* on, and an answer held while the CVV is deleted is founded too.
MemoryIsFounded(r) ==
    /\ on[r] \in TxId
    /\ Paid(mem[r], captured[on[r]])
    /\ pc[r] \in ChargeStep => mem[r].status = "pending" /\ ~mem[r].nsf
    /\ pc[r] \notin ChargeStep => Backed(mem[r])
    /\ pc[r] = "upload" => mem[r].nsf /\ NsfFlow
    /\ pc[r] = "deleteCvv" =>
         /\ answer[r].result # "aborted" => answer[r].payload
         /\ answer[r].result = "approved" => <<r, "complete">> \in captured[on[r]]

Founded == /\ StatusIsRecorded
           /\ ApprovedIsPaid
           /\ \A r \in Request : Active(r) => MemoryIsFounded(r)

\* One request never charges twice, for all its retries with and without 3DS
\* and its card uploads.
OneCapturePerRequest ==
    \A t \in TxId : \A c, d \in captured[t] : c[1] = d[1] => c = d

-----------------------------------------------------------------------------
(* Properties of requests that do not overlap and do not fail.             *)

\* No request is at work on t.
Quiet(t) == \A r \in Request : Active(r) => on[r] # t

\* Money taken and the approved status agree when nothing is under way.
PaidIsApproved ==
    \A t \in TxId : Quiet(t) => (captured[t] # {} <=> doc[t].status = "approved")

\* Sale, lookups and completes together charge a transaction once.
AtMostOneCapture == \A t \in TxId : \A c, d \in captured[t] : c = d

\* The BI log never reports an outcome that the document contradicts.
BiAgrees ==
    \A e \in bi : Quiet(e[1]) => e[2] \in {"pending", doc[e[1]].status}

\* The CVV a complete used is deleted whatever the biller answered, and does
\* not come back.
UsedCvvIsGone ==
    \A r \in Request : pc[r] \in {"update", "biUpdated", "done"} /\ got[r] # None
                          => cvv[on[r]] # got[r]

\* The stored 3DS version goes down from 2 to 1, never up from 1 to 2.
VersionNeverRises ==
    [][\A t \in TxId : ~(doc[t].ver = 1 /\ doc'[t].ver = 2)]_vars

\* What PaymentLifecycle promises, see there.
Lifecycle ==
    INSTANCE PaymentLifecycle WITH
        status <- [t \in TxId |-> doc[t].status],
        paid   <- {t \in TxId : captured[t] # {}}
LifecycleSpec == Lifecycle!Spec

-----------------------------------------------------------------------------
(* Liveness: every request ends, whatever the biller answers: the 3DS retries
   of a sale and of a lookup are bounded. *)
RequestEnds == \A r \in Request : Active(r) ~> ~Active(r)

-----------------------------------------------------------------------------
(* What the repository's documents say, and its code does not.             *)

\* docs/openapi.yml: abort "Marks a pending transaction as aborted"; a processed
\* one is answered with "Transaction Already Processed".
AbortSparesApproved ==
    [][\A r \in Request :
          kind[r] = "abort" /\ pc[r] = "update" /\ pc'[r] = "biUpdated"
             => doc[on[r]].status # "approved"]_vars

==============================================================================
