-------------------- MODULE RocketgateSale_serial_proofs ---------------------
(***************************************************************************)
(* What holds of RocketgateSale when clients do not overlap requests on a  *)
(* transaction, or when some of the faults are left out.  Each theorem      *)
(* names the faults it cannot live with; all others may happen.            *)
(*                                                                         *)
(* A first part reduces the steps of a running request to nine shapes that *)
(* keep only what the invariants tell apart; each invariant is then proved  *)
(* against the shapes.                                                     *)
(***************************************************************************)
EXTENDS RocketgateSale_proofs

-----------------------------------------------------------------------------
(* How far a request is.                                                   *)

\* No answer that counts has come: all a retry does is to ask again.
Early == TakingStep \cup {"retrieveCvv"}

\* The entity is as it was loaded or created, its status pending.
Unset == Early \cup {"deleteCvv"}

\* The entity is updated; what an add or update wrote is not known yet.
LateStep == {"storeCvv", "add", "lookupBi", "lookupCvv", "bypassUpload", "update"}

\* The document holds the entity's status.
SavedStep == {"biCreated", "upload", "biUpdated"}

LEMMA StepsOf == /\ Step = Unset \cup LateStep \cup SavedStep
                 /\ Unset \cap (LateStep \cup SavedStep) = {}
                 /\ Step \cap (Ended \cup {"idle"}) = {} /\ "idle" \notin Ended
BY DEF Step, CallStep, TakingStep, ChargeStep, Early, Unset, LateStep, SavedStep, Ended

(* A status that leaves no second charge to a later request; when every call is
   answered, money taken shows as approved. *)
Final(status) == /\ status # "pending"
                 /\ "noAnswer" \notin Faults => status = "approved"

(* What is true of a running request whatever the others do: before the update
   the entity is pending and not marked NSF, its status is a biller result, and
   the answer held while the CVV is deleted fits the 3DS version. *)
Paced(r) ==
    /\ pc[r] \in Unset => mem[r].status = "pending" /\ ~mem[r].nsf
    /\ mem[r].status \in Result
    /\ pc[r] = "deleteCvv" /\ "upgrade" \notin Faults =>
          mem[r].ver = 0 \/ ThreedsVersion(answer[r]) <= mem[r].ver

AllPaced == \A r \in Request : Active(r) => Paced(r)

-----------------------------------------------------------------------------
(* What an answer tells.                                                   *)

LEMMA ResponseVersion ==
    ASSUME NEW reply \in Reply, NEW use3D \in BOOLEAN
    PROVE  ThreedsVersion(ResponseOf(reply, use3D)) = ThreedsVersion(ResponseOf(reply, TRUE))
BY DEF ThreedsVersion, ResponseOf

(* Money taken is final or unanswered; an answer fits the version the entity
   has; a retry means that nothing was taken, but for the approved first charge
   that announces 3DS 2. *)
LEMMA AnswerTells ==
    ASSUME NEW r \in Request, TypeOK, NEW a \in Answers(r)
    PROVE  /\ a.took => Final(a.resp.result)
           /\ "upgrade" \notin Faults => mem[r].ver = 0 \/ ThreedsVersion(a.resp) <= mem[r].ver
           /\ ShouldRetryWithoutThreeD(a.resp) => ~a.took
           /\ \A simplified, cardHash \in BOOLEAN :
                 pc[r] = "charge" /\ ShouldRetryWithThreeD(a.resp, simplified, cardHash) /\ a.took
                    => "approved2" \in Faults
<1>1. CASE \E reply \in {x \in BillerReplies : Offered(r, x)}, use3D \in Echo(r) :
             a = [resp |-> ResponseOf(reply, use3D),
                  took |-> reply.reason = "success" /\ pc[r] \in TakingStep]
  <2>1. PICK reply \in BillerReplies, use3D \in Echo(r) :
             /\ Offered(r, reply)
             /\ a = [resp |-> ResponseOf(reply, use3D),
                     took |-> reply.reason = "success" /\ pc[r] \in TakingStep]
    BY <1>1
  <2>2. reply \in Reply
    BY RepliesAssumption
  <2>3. use3D \in BOOLEAN
    BY DEF Echo, TypeOK, Entity
  <2>4. /\ a.resp = ResponseOf(reply, use3D)
        /\ a.took = (reply.reason = "success" /\ pc[r] \in TakingStep)
    BY <2>1
  <2>5. a.resp.reason = reply.reason /\ a.resp.version = reply.version
    BY <2>4 DEF ResponseOf
  <2>6. a.took => a.resp.result = "approved"
    <3>1. reply.reason = "success" => BillerResult(reply.reason, use3D) = "approved"
      BY DEF BillerResult
    <3>2. a.resp.result = BillerResult(reply.reason, use3D)
      BY <2>4 DEF ResponseOf
    <3> QED  BY <2>4, <3>1, <3>2
  <2>7. "upgrade" \notin Faults => mem[r].ver = 0 \/ ThreedsVersion(a.resp) <= mem[r].ver
    BY <2>1, <2>2, <2>3, <2>4, ResponseVersion DEF Offered
  <2>8. ASSUME NEW simplified \in BOOLEAN, NEW cardHash \in BOOLEAN, pc[r] = "charge",
               ShouldRetryWithThreeD(a.resp, simplified, cardHash), a.took
        PROVE  "approved2" \in Faults
    BY <2>1, <2>4, <2>5, <2>8 DEF Offered, ShouldRetryWithThreeD, Announces3DS2
  <2> QED  BY <2>4, <2>5, <2>6, <2>7, <2>8 DEF Final, ShouldRetryWithoutThreeD
<1>2. CASE \E took \in {x \in BOOLEAN : "noAnswer" \in Faults /\ (x => pc[r] \in TakingStep)} :
             a = [resp |-> Fallback, took |-> took]
  <2>1. a.resp = Fallback /\ "noAnswer" \in Faults
    BY <1>2
  <2>2. mem[r].ver \in 0..2
    BY DEF TypeOK, Entity
  <2> QED  BY <2>1, <2>2 DEF Final, Fallback, ThreedsVersion, ShouldRetryWithoutThreeD,
                             ShouldRetryWithThreeD
<1> QED  BY <1>1, <1>2 DEF Answers

(* The update of an entity that is pending and not marked NSF: it throws only
   for the version, and otherwise takes the result over; a stored version 1 does
   not rise, and without 3DS none is set. *)
LEMMA FirstUpdate ==
    ASSUME NEW e \in Entity(Call), NEW c \in Call, NEW resp \in Response,
           e.status = "pending", ~e.nsf
    PROVE  /\ UpdateThrows(e, resp, NsfFlow) => e.ver # 0 /\ ThreedsVersion(resp) > e.ver
           /\ ~UpdateThrows(e, resp, NsfFlow) =>
                LET u == UpdatedEntity(e, c, resp, NsfFlow)
                IN  /\ u.status = resp.result
                    /\ e.ver = 1 => u.ver = 1
                    /\ e.ver = 0 /\ ~e.with3D => u.ver = 0 /\ ~u.with3D
<1>1. ~FrozenByNsf(e, NsfFlow) /\ resp.result \in Result
  BY DEF FrozenByNsf, Response
<1>2. ThreedsVersion(resp) \in 0..2 /\ e.ver \in 0..2
  BY ThreedsVersionType DEF Entity
<1>3. resp.result # "pending" => Allows(e.status, Operation(resp.result))
  BY <1>1 DEF Allows, Operation, Result, Approve, Decline, Abort
<1>4. UpdateThrows(e, resp, NsfFlow) => e.ver # 0 /\ ThreedsVersion(resp) > e.ver
  BY <1>2, <1>3 DEF UpdateThrows, VersionRefused, VersionSet
<1>5. ASSUME ~UpdateThrows(e, resp, NsfFlow)
      PROVE  LET u == UpdatedEntity(e, c, resp, NsfFlow)
             IN  /\ u.status = resp.result
                 /\ e.ver = 1 => u.ver = 1
                 /\ e.ver = 0 /\ ~e.with3D => u.ver = 0 /\ ~u.with3D
  <2>1. UpdatedEntity(e, c, resp, NsfFlow).status = resp.result
    BY <1>1, <1>5, UpdatedEntityType, ModeAssumption
  <2>2. ~VersionRefused(e, VersionSet(e, resp))
    BY <1>1, <1>5 DEF UpdateThrows
  <2>3. /\ UpdatedEntity(e, c, resp, NsfFlow).ver =
             IF VersionSet(e, resp) = 0 THEN e.ver ELSE VersionSet(e, resp)
        /\ UpdatedEntity(e, c, resp, NsfFlow).with3D = e.with3D
    BY <1>1 DEF UpdatedEntity
  <2> QED  BY <1>2, <2>1, <2>2, <2>3 DEF VersionRefused, VersionSet
<1> QED  BY <1>4, <1>5

-----------------------------------------------------------------------------
(* The shapes of a step of a running request.                              *)

\* A step of r is r's own business as far as pc, mem and answer go.
OwnStep(r) == /\ Active(r) /\ on' = on
              /\ \A q \in Request \ {r} : /\ pc'[q] = pc[q] /\ mem'[q] = mem[q]
                                         /\ answer'[q] = answer[q]

\* Asked again, with or without 3DS.
Retried(r) ==
    /\ \E took \in BOOLEAN : Takes(r, took) /\ (took => "approved2" \in Faults)
    /\ mem'[r].status = mem[r].status /\ mem'[r].nsf = mem[r].nsf
    /\ \/ pc[r] \in ChargeStep /\ pc'[r] \in ChargeStep
       \/ /\ pc[r] = "lookup" /\ pc'[r] = "bypass"
          /\ mem'[r].ver = 0 /\ ~mem'[r].with3D
    /\ UNCHANGED <<doc, bi>>

\* The answer is taken for final and the entity updated for the first time.
Settled(r) ==
    /\ \/ /\ pc[r] \in TakingStep
          /\ \E took \in BOOLEAN : Takes(r, took) /\ (took => Final(mem'[r].status))
       \/ /\ pc[r] = "deleteCvv"
          /\ captured' = captured /\ mem'[r].status = answer[r].result
    /\ pc'[r] \in LateStep
    /\ mem'[r].status \in Result
    /\ mem[r].ver = 1 => mem'[r].ver = 1
    /\ mem[r].ver = 0 /\ ~mem[r].with3D /\ pc[r] # "lookup" => mem'[r].ver = 0 /\ ~mem'[r].with3D
    /\ UNCHANGED <<doc, bi>>

\* The update throws: the answer would raise the 3DS version.
Thrown(r) ==
    /\ "upgrade" \in Faults
    /\ \/ pc[r] \in TakingStep /\ \E took \in BOOLEAN : Takes(r, took)
       \/ pc[r] = "deleteCvv" /\ captured' = captured
    /\ pc'[r] = "failed"
    /\ UNCHANGED <<doc, bi>>

\* A complete keeps the answer while it deletes the CVV.
Held(r) ==
    /\ pc[r] = "complete" /\ pc'[r] = "deleteCvv"
    /\ \E took \in BOOLEAN : Takes(r, took) /\ (took => Final(answer'[r].result))
    /\ answer'[r].result \in Result
    /\ "upgrade" \notin Faults => mem[r].ver = 0 \/ ThreedsVersion(answer'[r]) <= mem[r].ver
    /\ mem'[r] = mem[r]
    /\ UNCHANGED <<doc, bi>>

\* A card upload adds its answer and nothing else.
Uploaded(r) ==
    /\ \/ pc[r] = "upload" /\ pc'[r] = "update"
       \/ pc[r] = "bypassUpload" /\ pc'[r] = "lookupBi"
    /\ mem'[r].status = mem[r].status /\ mem'[r].ver = mem[r].ver
    /\ mem'[r].with3D = mem[r].with3D
    /\ UNCHANGED <<doc, bi, captured>>

\* The document is written, whether the handler learns of it or not.
Written(r) ==
    /\ pc[r] \in {"add", "update"}
    /\ doc' = [doc EXCEPT ![on[r]] = ToDocument(mem[r])]
    /\ \/ pc[r] = "add" /\ pc'[r] = "biCreated"
       \/ pc[r] = "update" /\ pc'[r] \in {"biUpdated", "done"}
       \/ "firestore" \in Faults /\ pc'[r] \in {pc[r], "failed"}
    /\ UNCHANGED <<captured, bi, mem, answer>>

Reported(r) ==
    /\ \/ pc[r] = "biCreated" /\ pc'[r] \in {"done", "update"}
       \/ pc[r] = "biCreated" /\ pc'[r] = "upload"
       \/ pc[r] = "lookupBi" /\ pc'[r] = "lookupCvv"
       \/ pc[r] = "biUpdated" /\ pc'[r] = "done"
    /\ bi' = bi \cup {<<on[r], mem[r].status>>}
    /\ UNCHANGED <<doc, captured, mem, answer>>

\* A Redis access.
Moved(r) ==
    /\ \/ pc[r] = "storeCvv" /\ pc'[r] = "add"
       \/ pc[r] = "lookupCvv" /\ pc'[r] = "update"
       \/ pc[r] = "retrieveCvv" /\ pc'[r] = "complete"
    /\ UNCHANGED <<doc, captured, bi, mem, answer>>

\* The process dies, or its save fails without effect.
Died(r) ==
    /\ "crash" \in Faults \/ "firestore" \in Faults
    /\ pc'[r] = "failed"
    /\ UNCHANGED <<doc, captured, bi, mem, answer>>

Shape(r) == \/ Retried(r) \/ Settled(r) \/ Thrown(r) \/ Held(r) \/ Uploaded(r)
            \/ Written(r) \/ Reported(r) \/ Moved(r) \/ Died(r)

\* Settle, before any other update of the entity e: it settles or throws.
LEMMA SettleShape ==
    ASSUME Typed, NEW r \in Request, pc[r] \in TakingStep \cup {"deleteCvv"},
           NEW e \in Entity(Call), NEW resp \in Response,
           e.status = "pending", ~e.nsf, e.ver = mem[r].ver,
           pc[r] # "lookup" => e.with3D = mem[r].with3D,
           "upgrade" \notin Faults => mem[r].ver = 0 \/ ThreedsVersion(resp) <= mem[r].ver,
           NEW next \in LateStep, Settle(r, e, resp, next), on' = on, UNCHANGED <<doc, bi>>,
           \A q \in Request \ {r} : answer'[q] = answer[q],
           \/ /\ pc[r] \in TakingStep
              /\ \E took \in BOOLEAN : Takes(r, took) /\ (took => Final(resp.result))
           \/ pc[r] = "deleteCvv" /\ captured' = captured /\ resp = answer[r]
    PROVE  OwnStep(r) /\ (Settled(r) \/ Thrown(r))
<1>1. Active(r) /\ pc[r] \in CallStep \cup {"deleteCvv"} /\ next \in Step /\ pc[r] \in Unset
  BY DEF Active, Step, CallStep, Unset, Early, LateStep
<1>2. <<r, AnsweredCall(r)>> \in Call
  BY <1>1 DEF AnsweredCall, Call, CallStep, TakingStep, ChargeStep
<1>3. /\ \A q \in Request \ {r} : pc'[q] = pc[q] /\ mem'[q] = mem[q]
      /\ \/ /\ pc'[r] = next
            /\ mem'[r] = UpdatedEntity(e, <<r, AnsweredCall(r)>>, resp, NsfFlow)
            /\ ~UpdateThrows(e, resp, NsfFlow)
         \/ pc'[r] = "failed" /\ UpdateThrows(e, resp, NsfFlow)
  <2>1. CASE ~UpdateThrows(e, resp, NsfFlow)
    BY <1>1, <2>1 DEF Settle, GoTo, Typed, TypeOK
  <2>2. CASE UpdateThrows(e, resp, NsfFlow)
    BY <1>1, <2>2 DEF Settle, GoTo, Typed, TypeOK
  <2> QED  BY <2>1, <2>2
<1>4. OwnStep(r)
  BY <1>1, <1>3 DEF OwnStep
<1>5. resp.result \in Result /\ e.ver \in 0..2 /\ ThreedsVersion(resp) \in 0..2
  BY ThreedsVersionType DEF Response, Entity
<1>6. \/ pc[r] \in TakingStep /\ \E took \in BOOLEAN : Takes(r, took)
      \/ pc[r] = "deleteCvv" /\ captured' = captured
  OBVIOUS
<1>7. CASE pc'[r] = "failed" /\ UpdateThrows(e, resp, NsfFlow)
  <2>1. "upgrade" \in Faults
    BY <1>2, <1>5, <1>7, FirstUpdate
  <2> QED  BY <1>1, <1>4, <1>6, <1>7, <2>1 DEF Thrown
<1>8. CASE /\ pc'[r] = next
           /\ mem'[r] = UpdatedEntity(e, <<r, AnsweredCall(r)>>, resp, NsfFlow)
           /\ ~UpdateThrows(e, resp, NsfFlow)
  <2>1. /\ mem'[r].status = resp.result
        /\ e.ver = 1 => mem'[r].ver = 1
        /\ e.ver = 0 /\ ~e.with3D => mem'[r].ver = 0 /\ ~mem'[r].with3D
    BY <1>2, <1>8, FirstUpdate
  <2> QED  BY <1>4, <1>5, <1>8, <2>1 DEF Settled
<1> QED  BY <1>3, <1>7, <1>8

\* The steps at which a running request waits for the biller.
LEMMA BillerShape ==
    ASSUME Typed, Founded, NEW r \in Request, Paced(r),
           \/ ChargeRetriedWithThreeD(r) \/ ChargeRetriedWithoutThreeD(r) \/ ChargeAnswered(r)
           \/ CardUploaded(r) \/ LookupRetriedWithoutThreeD(r) \/ LookupAnswered(r)
           \/ BypassAnswered(r) \/ BypassUploaded(r) \/ CompleteAnswered(r)
    PROVE  OwnStep(r) /\ Shape(r)
<1>0. /\ mem[r] \in Entity(Call) /\ mem \in [Request -> Entity(Call)]
      /\ answer \in [Request -> Response] /\ pc \in [Request -> {"idle"} \cup Step \cup Ended]
  BY DEF Typed, TypeOK
<1>a. /\ TakingStep \subseteq Step /\ ChargeStep \subseteq TakingStep /\ TakingStep \subseteq Unset
      /\ {"upload", "bypassUpload"} \subseteq Step
      /\ {"lookup", "bypass", "complete"} \subseteq TakingStep
  BY DEF Step, CallStep, TakingStep, ChargeStep, Unset, Early
<1>b. ASSUME NEW a \in Answers(r)
      PROVE  /\ a.resp \in Response /\ a.took \in BOOLEAN
             /\ a.took => pc[r] \in TakingStep /\ Final(a.resp.result)
             /\ "upgrade" \notin Faults => mem[r].ver = 0 \/ ThreedsVersion(a.resp) <= mem[r].ver
             /\ ShouldRetryWithoutThreeD(a.resp) => ~a.took
  BY AnswersType, AnswerTells DEF Typed
<1>1. CASE ChargeRetriedWithThreeD(r)
  <2>1. PICK a \in Answers(r) :
          /\ Takes(r, a.took) /\ RetriesWithThreeD(r, a.resp)
          /\ mem' = [mem EXCEPT ![r] = MarkedWithThreeD(@, <<r, pc[r]>>, a.resp)]
    BY <1>1 DEF ChargeRetriedWithThreeD
  <2>2. pc[r] = "charge" /\ pc[r] \in ChargeStep /\ "chargeWith3D" \in ChargeStep /\ Active(r)
    BY <1>a, <2>1 DEF RetriesWithThreeD, ChargeStep, Active
  <2>3. a.took => "approved2" \in Faults
    BY <2>1, <2>2, AnswerTells DEF RetriesWithThreeD, Typed
  <2>4. /\ pc'[r] = "chargeWith3D" /\ mem'[r] = MarkedWithThreeD(mem[r], <<r, pc[r]>>, a.resp)
        /\ \A q \in Request \ {r} : pc'[q] = pc[q] /\ mem'[q] = mem[q]
        /\ UNCHANGED <<doc, bi, on, answer>>
    BY <1>0, <1>1, <2>1 DEF ChargeRetriedWithThreeD, GoTo
  <2>5. mem'[r].status = mem[r].status /\ mem'[r].nsf = mem[r].nsf
    BY <1>0, <2>4 DEF MarkedWithThreeD, Entity
  <2>6. Retried(r)
    BY <1>b, <2>1, <2>2, <2>3, <2>4, <2>5 DEF Retried
  <2> QED  BY <2>2, <2>4, <2>6 DEF OwnStep, Shape
<1>2. CASE ChargeRetriedWithoutThreeD(r) \/ LookupRetriedWithoutThreeD(r)
  <2>1. PICK a \in Answers(r) :
          /\ Takes(r, a.took) /\ ShouldRetryWithoutThreeD(a.resp)
          /\ mem' = [mem EXCEPT ![r] = MarkedWithoutThreeD(@, <<r, pc[r]>>, a.resp)]
    BY <1>2 DEF ChargeRetriedWithoutThreeD, LookupRetriedWithoutThreeD, RetriesWithoutThreeD
  <2>2. /\ Active(r)
        /\ \/ pc[r] \in ChargeStep /\ pc'[r] \in ChargeStep
           \/ pc[r] = "lookup" /\ pc'[r] = "bypass"
        /\ \A q \in Request \ {r} : pc'[q] = pc[q]
        /\ UNCHANGED <<doc, bi, on, answer>>
    BY <1>0, <1>2, <1>a DEF ChargeRetriedWithoutThreeD, LookupRetriedWithoutThreeD, GoTo,
                            ChargeStep, Active
  <2>3. /\ mem'[r] = MarkedWithoutThreeD(mem[r], <<r, pc[r]>>, a.resp)
        /\ \A q \in Request \ {r} : mem'[q] = mem[q]
    BY <1>0, <2>1
  <2>4. /\ mem'[r].status = mem[r].status /\ mem'[r].nsf = mem[r].nsf
        /\ mem'[r].ver = 0 /\ ~mem'[r].with3D
    BY <1>0, <2>3 DEF MarkedWithoutThreeD, Entity
  <2>5. Retried(r)
    BY <1>b, <2>1, <2>2, <2>4 DEF Retried
  <2> QED  BY <2>2, <2>3, <2>5 DEF OwnStep, Shape
<1>3. CASE ChargeAnswered(r) \/ LookupAnswered(r) \/ BypassAnswered(r)
           \/ (CompleteAnswered(r) /\ kind[r] = "simplified")
  <2> DEFINE e == IF pc[r] = "lookup" THEN [mem[r] EXCEPT !.with3D = TRUE] ELSE mem[r]
  <2>1. PICK a \in Answers(r), next \in LateStep :
          Takes(r, a.took) /\ Settle(r, e, a.resp, next) /\ pc[r] \in TakingStep
    <3>1. CASE ChargeAnswered(r)
      BY <3>1, <1>a DEF ChargeAnswered, AfterCharge, LateStep, ChargeStep
    <3>2. CASE LookupAnswered(r)
      BY <3>2, <1>a DEF LookupAnswered, LateStep
    <3>3. CASE BypassAnswered(r)
      BY <3>3, <1>a DEF BypassAnswered, LateStep
    <3>4. CASE CompleteAnswered(r) /\ kind[r] = "simplified"
      BY <3>4, <1>a DEF CompleteAnswered, LateStep
    <3> QED  BY <1>3, <3>1, <3>2, <3>3, <3>4
  <2>2. UNCHANGED <<doc, bi, on, answer>>
    BY <1>3 DEF ChargeAnswered, LookupAnswered, BypassAnswered, CompleteAnswered
  <2>3. mem[r].status = "pending" /\ ~mem[r].nsf
    BY <1>a, <2>1 DEF Paced
  <2>4. /\ e \in Entity(Call) /\ e.status = "pending" /\ ~e.nsf /\ e.ver = mem[r].ver
        /\ pc[r] # "lookup" => e.with3D = mem[r].with3D
    BY <1>0, <2>3 DEF Entity
  <2> HIDE DEF e
  <2>5. /\ a.resp \in Response
        /\ \E took \in BOOLEAN : Takes(r, took) /\ (took => Final(a.resp.result))
        /\ "upgrade" \notin Faults => mem[r].ver = 0 \/ ThreedsVersion(a.resp) <= mem[r].ver
    BY <1>b, <2>1
  <2> QED  BY <2>1, <2>2, <2>4, <2>5, SettleShape DEF Shape
<1>4. CASE CompleteAnswered(r) /\ kind[r] # "simplified"
  <2>1. PICK a \in Answers(r) : Takes(r, a.took) /\ answer' = [answer EXCEPT ![r] = a.resp]
    BY <1>4 DEF CompleteAnswered
  <2>2. /\ pc[r] = "complete" /\ pc'[r] = "deleteCvv" /\ mem' = mem
        /\ \A q \in Request \ {r} : pc'[q] = pc[q]
        /\ UNCHANGED <<doc, bi, on>>
    BY <1>0, <1>4 DEF CompleteAnswered, GoTo
  <2>3. answer'[r] = a.resp /\ \A q \in Request \ {r} : answer'[q] = answer[q]
    BY <1>0, <2>1
  <2>4. Held(r)
    BY <1>b, <2>1, <2>2, <2>3 DEF Held, Response
  <2> QED  BY <1>a, <2>2, <2>3, <2>4 DEF OwnStep, Shape, Active
<1>5. CASE CardUploaded(r)
  <2>1. PICK a \in Answers(r) : Takes(r, a.took) /\ Settle(r, mem[r], a.resp, "update")
    BY <1>5 DEF CardUploaded
  <2>2. /\ pc[r] = "upload" /\ Active(r) /\ <<r, AnsweredCall(r)>> \in Call
        /\ UNCHANGED <<doc, bi, on, answer>>
    BY <1>5, <1>a DEF CardUploaded, Active, AnsweredCall, Call, CallStep
  <2>3. FrozenByNsf(mem[r], NsfFlow)
    BY <2>2 DEF Founded, MemoryIsFounded, FrozenByNsf
  <2>4. captured' = captured
    BY <1>b, <2>1, <2>2 DEF Takes, TakingStep, ChargeStep
  <2>5. /\ mem' = [mem EXCEPT ![r] = UpdatedEntity(mem[r], <<r, AnsweredCall(r)>>, a.resp, NsfFlow)]
        /\ GoTo(r, "update")
    BY <2>1, <2>3 DEF Settle, UpdateThrows
  <2>6. /\ pc'[r] = "update"
        /\ mem'[r] = [mem[r] EXCEPT !.ixn = Recorded(mem[r], <<r, AnsweredCall(r)>>, a.resp)]
        /\ \A q \in Request \ {r} : pc'[q] = pc[q] /\ mem'[q] = mem[q]
    BY <1>0, <2>3, <2>5 DEF GoTo, UpdatedEntity
  <2>7. /\ mem'[r].status = mem[r].status /\ mem'[r].ver = mem[r].ver
        /\ mem'[r].with3D = mem[r].with3D
    BY <1>0, <2>6 DEF Entity
  <2> QED  BY <2>2, <2>4, <2>6, <2>7 DEF OwnStep, Shape, Uploaded
<1>6. CASE BypassUploaded(r)
  <2>1. PICK a \in Answers(r) :
          /\ Takes(r, a.took)
          /\ mem' = [mem EXCEPT ![r].ixn = Recorded(mem[r], <<r, pc[r]>>, a.resp)]
    BY <1>6 DEF BypassUploaded
  <2>2. /\ pc[r] = "bypassUpload" /\ Active(r) /\ pc'[r] = "lookupBi"
        /\ \A q \in Request \ {r} : pc'[q] = pc[q]
        /\ UNCHANGED <<doc, bi, on, answer>>
    BY <1>0, <1>6, <1>a DEF BypassUploaded, GoTo, Active
  <2>3. captured' = captured
    BY <1>b, <2>1, <2>2 DEF Takes, TakingStep, ChargeStep
  <2>4. /\ mem'[r].status = mem[r].status /\ mem'[r].ver = mem[r].ver
        /\ mem'[r].with3D = mem[r].with3D
        /\ \A q \in Request \ {r} : mem'[q] = mem[q]
    BY <1>0, <2>1 DEF Entity
  <2> QED  BY <2>2, <2>3, <2>4 DEF OwnStep, Shape, Uploaded
<1>7. CompleteAnswered(r) => kind[r] \in {"simplified", "complete"}
  BY DEF CompleteAnswered
<1> QED  BY <1>1, <1>2, <1>3, <1>4, <1>5, <1>6

\* The other steps of a running request.
LEMMA OtherShape ==
    ASSUME Typed, NEW r \in Request, Paced(r),
           \/ ReportCreated(r) \/ ReportLookup(r) \/ StoreCvv(r) \/ RetrieveCvv(r)
           \/ DeleteCvv(r) \/ Save(r) \/ SaveFails(r) \/ SaveRepeated(r) \/ ReportUpdated(r)
           \/ Crash(r)
    PROVE  OwnStep(r) /\ Shape(r)
<1>0. /\ mem[r] \in Entity(Call) /\ pc \in [Request -> {"idle"} \cup Step \cup Ended]
      /\ {"biCreated", "lookupBi", "biUpdated", "storeCvv", "lookupCvv", "retrieveCvv",
          "deleteCvv", "add", "update"} \subseteq Step
  BY DEF Typed, TypeOK, Step
<1>1. CASE ReportCreated(r) \/ ReportLookup(r) \/ ReportUpdated(r)
  <2>1. OwnStep(r)
    BY <1>0, <1>1 DEF ReportCreated, ReportLookup, ReportUpdated, GoTo, OwnStep, Active
  <2>2. Reported(r)
    BY <1>0, <1>1 DEF ReportCreated, ReportLookup, ReportUpdated, GoTo, Reported
  <2> QED  BY <2>1, <2>2 DEF Shape
<1>2. CASE StoreCvv(r) \/ RetrieveCvv(r)
  BY <1>0, <1>2 DEF StoreCvv, RetrieveCvv, GoTo, OwnStep, Active, Moved, Shape
<1>3. CASE DeleteCvv(r)
  <2>1. /\ pc[r] = "deleteCvv" /\ Settle(r, mem[r], answer[r], "update")
        /\ UNCHANGED <<doc, captured, bi, on, answer>>
    BY <1>3 DEF DeleteCvv
  <2>2. mem[r].status = "pending" /\ ~mem[r].nsf
    BY <2>1 DEF Paced, Unset
  <2>3. answer[r] \in Response /\ "update" \in LateStep
    BY DEF Typed, TypeOK, LateStep
  <2>4. "upgrade" \notin Faults => mem[r].ver = 0 \/ ThreedsVersion(answer[r]) <= mem[r].ver
    BY <2>1 DEF Paced
  <2> QED  BY <1>0, <2>1, <2>2, <2>3, <2>4, SettleShape DEF Shape
<1>4. CASE Save(r) \/ SaveRepeated(r)
  BY <1>0, <1>4 DEF Save, SaveRepeated, GoTo, OwnStep, Active, Written, Shape
<1>5. CASE SaveFails(r)
  <2>1. OwnStep(r)
    BY <1>0, <1>5 DEF SaveFails, GoTo, OwnStep, Active
  <2>2. Written(r) \/ Died(r)
    BY <1>0, <1>5 DEF SaveFails, GoTo, Written, Died
  <2> QED  BY <2>1, <2>2 DEF Shape
<1>6. CASE Crash(r)
  BY <1>0, <1>6 DEF Crash, GoTo, OwnStep, Active, Died, Shape
<1> QED  BY <1>1, <1>2, <1>3, <1>4, <1>5, <1>6

LEMMA StepShape ==
    ASSUME Typed, Founded, AllPaced, NEW r \in Request, Proceed(r) \/ SaveRepeated(r) \/ Crash(r)
    PROVE  OwnStep(r) /\ Shape(r) /\ Paced(r)
<1>1. Active(r)
  BY DEF Proceed, ChargeRetriedWithThreeD, ChargeRetriedWithoutThreeD, ChargeAnswered,
         ReportCreated, CardUploaded, LookupRetriedWithoutThreeD, LookupAnswered,
         BypassAnswered, BypassUploaded, ReportLookup, StoreCvv, RetrieveCvv,
         CompleteAnswered, DeleteCvv, Save, SaveFails, ReportUpdated, SaveRepeated, Crash,
         Active, Step, CallStep, TakingStep, ChargeStep
<1>2. Paced(r)
  BY <1>1 DEF AllPaced
<1> QED  BY <1>2, BillerShape, OtherShape DEF Proceed

-----------------------------------------------------------------------------
(* The shapes of a request's start on t.                                   *)

OwnStart(r) == /\ pc[r] = "idle"
               /\ \A q \in Request \ {r} : /\ pc'[q] = pc[q] /\ mem'[q] = mem[q]
                                           /\ on'[q] = on[q] /\ answer'[q] = answer[q]
               /\ UNCHANGED <<doc, captured, bi>>

SaleBegun(r, t) ==
    /\ \A q \in Request : on[q] # t
    /\ on'[r] = t /\ pc'[r] = "charge"
    /\ mem'[r].status = "pending" /\ ~mem'[r].nsf

FollowUpBegun(r, t) ==
    /\ MayStart(t) /\ doc[t].status = "pending"
    /\ on'[r] = t /\ mem'[r].ver = doc[t].ver
    /\ \/ /\ pc'[r] \in {"lookup", "retrieveCvv", "complete"}
          /\ mem'[r].status = "pending" /\ ~mem'[r].nsf
       \/ pc'[r] = "update" /\ mem'[r].status = "aborted"

NotBegun(r, t) ==
    /\ pc'[r] \in Ended
    /\ on'[r] = None \/ (on'[r] = t /\ doc[t].status # "absent")

LEMMA StartShape ==
    ASSUME Typed, NEW r \in Request, Start(r)
    PROVE  /\ OwnStart(r)
           /\ \E t \in TxId : SaleBegun(r, t) \/ FollowUpBegun(r, t) \/ NotBegun(r, t)
<1>0. /\ pc \in [Request -> {"idle"} \cup Step \cup Ended] /\ on \in [Request -> TxId \cup {None}]
      /\ mem \in [Request -> Entity(Call)] /\ doc \in [TxId -> Document(Call)]
  BY DEF Typed, TypeOK
<1>1. PICK t \in TxId :
        \/ \E k \in SaleKind, use3D \in BOOLEAN : StartSale(r, t, k, use3D)
        \/ \E k \in FollowUpKind : LoadPending(r, t, k) \/ LoadRefused(r, t, k)
  BY DEF Start
<1>2. ASSUME NEW k \in SaleKind, NEW use3D \in BOOLEAN, StartSale(r, t, k, use3D)
      PROVE  OwnStart(r) /\ SaleBegun(r, t)
  <2>1. FirstStep(k) = "charge"
    BY DEF FirstStep, SaleKind
  <2>2. OwnStart(r)
    BY <1>0, <1>2 DEF StartSale, GoTo, OwnStart
  <2>3. mem'[r] = NewEntity(use3D) /\ on'[r] = t /\ pc'[r] = "charge"
    BY <1>0, <1>2, <2>1 DEF StartSale, GoTo
  <2> QED  BY <1>2, <2>2, <2>3 DEF StartSale, SaleBegun, NewEntity
<1>3. ASSUME NEW k \in FollowUpKind, LoadPending(r, t, k)
      PROVE  OwnStart(r) /\ (FollowUpBegun(r, t) \/ NotBegun(r, t))
  <2>1. OwnStart(r)
    BY <1>0, <1>3 DEF LoadPending, GoTo, OwnStart
  <2>2. MayStart(t) /\ doc[t].status = "pending" /\ mem'[r] = Loaded(k, doc[t]) /\ on'[r] = t
    BY <1>0, <1>3 DEF LoadPending, GoesOn
  <2>3. mem'[r].ver = doc[t].ver /\ ~mem'[r].nsf
    BY <1>0, <2>2 DEF Loaded, Hydrate, FollowUpKind
  <2>4. mem'[r].status = IF k = "abort" THEN "aborted" ELSE "pending"
    BY <1>0, <2>2, AfterAbort DEF Loaded, Hydrate, FollowUpKind
  <2>5. pc'[r] \in {"failed", FirstStep(k)}
    BY <1>0, <1>3 DEF LoadPending, GoTo
  <2>6. /\ k = "abort" => FirstStep(k) = "update"
        /\ k # "abort" => FirstStep(k) \in {"lookup", "retrieveCvv", "complete"}
    BY DEF FirstStep, FollowUpKind, SaleKind
  <2> QED  BY <2>1, <2>2, <2>3, <2>4, <2>5, <2>6 DEF FollowUpBegun, NotBegun, Ended
<1>4. ASSUME NEW k \in FollowUpKind, LoadRefused(r, t, k)
      PROVE  OwnStart(r) /\ NotBegun(r, t)
  BY <1>0, <1>4 DEF LoadRefused, GoTo, OwnStart, NotBegun, Ended
<1> QED  BY <1>1, <1>2, <1>3, <1>4

-----------------------------------------------------------------------------
(* Every step of Next, as the invariants below see it.                     *)

\* Nothing they read changes: a stuttering step, or a CVV that expires.
Nothing == UNCHANGED <<doc, captured, bi, pc, on, mem, answer>>

Summary == \/ Nothing
           \/ \E r \in Request : OwnStep(r) /\ Shape(r) /\ Paced(r)
           \/ \E r \in Request, t \in TxId :
                 OwnStart(r) /\ (SaleBegun(r, t) \/ FollowUpBegun(r, t) \/ NotBegun(r, t))

LEMMA NextSummary == Typed /\ Founded /\ AllPaced /\ [Next]_vars => Summary
<1> SUFFICES ASSUME Typed, Founded, AllPaced, [Next]_vars PROVE Summary
  OBVIOUS
<1>1. CASE UNCHANGED vars
  BY <1>1 DEF vars, Summary, Nothing
<1>2. ASSUME NEW t \in TxId, CvvExpires(t) PROVE Summary
  BY <1>2 DEF CvvExpires, Summary, Nothing
<1>3. ASSUME NEW r \in Request, Start(r) PROVE Summary
  BY <1>3, StartShape DEF Summary
<1>4. ASSUME NEW r \in Request, Proceed(r) \/ SaveRepeated(r) \/ Crash(r) PROVE Summary
  BY <1>4, StepShape DEF Summary
<1> QED  BY <1>1, <1>2, <1>3, <1>4 DEF Next

\* Every running request stays paced, however requests overlap.
LEMMA PacedKept == Typed /\ AllPaced /\ Summary => AllPaced'
<1> SUFFICES ASSUME Typed, AllPaced, Summary, NEW q \in Request, Active(q)' PROVE Paced(q)'
  BY DEF AllPaced
<1>1. CASE Nothing
  BY <1>1 DEF Nothing, AllPaced, Active, Paced
<1>2. ASSUME NEW r \in Request, OwnStep(r), Shape(r), Paced(r) PROVE Paced(q)'
  <2>1. CASE q # r
    BY <1>2, <2>1 DEF OwnStep, AllPaced, Active, Paced
  <2>2. CASE q = r
    <3>1. CASE Retried(r)
      BY <1>2, <2>2, <3>1 DEF Retried, Paced, Unset, Early, TakingStep, ChargeStep
    <3>2. CASE Settled(r)
      BY <2>2, <3>2, StepsOf DEF Settled, Paced, Unset
    <3>3. CASE Thrown(r) \/ Died(r)
      BY <2>2, <3>3, StepsOf DEF Thrown, Died, Active, Ended
    <3>4. CASE Held(r)
      BY <1>2, <2>2, <3>4 DEF Held, Paced, Unset, Early, TakingStep
    <3>5. CASE Uploaded(r) \/ Written(r) \/ Reported(r)
      BY <1>2, <2>2, <3>5 DEF Uploaded, Written, Reported, Paced, Active, Unset, Early, TakingStep,
                              ChargeStep, Step, CallStep
    <3>6. CASE Moved(r)
      BY <1>2, <2>2, <3>6 DEF Moved, Paced, Unset, Early, TakingStep, ChargeStep
    <3> QED  BY <1>2, <3>1, <3>2, <3>3, <3>4, <3>5, <3>6 DEF Shape
  <2> QED  BY <2>1, <2>2
<1>3. ASSUME NEW r \in Request, NEW t \in TxId, OwnStart(r),
             SaleBegun(r, t) \/ FollowUpBegun(r, t) \/ NotBegun(r, t)
      PROVE  Paced(q)'
  <2>1. CASE q # r
    BY <1>3, <2>1 DEF OwnStart, AllPaced, Active, Paced
  <2>2. CASE q = r
    BY <1>3, <2>2, StepsOf DEF SaleBegun, FollowUpBegun, NotBegun, Active, Paced, Result,
                               Unset, Early, TakingStep, ChargeStep
  <2> QED  BY <2>1, <2>2
<1> QED  BY <1>1, <1>2, <1>3 DEF Summary

LEMMA InitPaced == Init => AllPaced
BY DEF Init, AllPaced, Active, Step, CallStep, TakingStep, ChargeStep

\* What each layer below may use of every state, and of every step.
Ground == Typed /\ Founded /\ AllPaced

LEMMA GroundAlways == Spec => []Ground /\ [][Summary]_vars
<1>1. Ground /\ [Next]_vars => Summary
  BY NextSummary DEF Ground
<1>2. Ground /\ [Next]_vars => AllPaced'
  BY <1>1, PacedKept DEF Ground
<1>3. Spec => [](Typed /\ Founded)
  <2>1. Spec => []Typed
    BY InitTyped, NextTyped, PTL DEF Spec
  <2> QED  BY <2>1, FoundedAlways, PTL
<1> QED  BY <1>1, <1>2, <1>3, InitPaced, PTL DEF Spec, Ground

-----------------------------------------------------------------------------
(* Requests on a transaction do not overlap.  Then a running request is     *)
(* alone on its transaction, and the document is the one it has read, or    *)
(* none for a sale, until it saves.                                        *)

\* Two running requests are on two transactions.
Sole == \A q, r \in Request : Active(q) /\ Active(r) /\ on[q] = on[r] => q = r

\* Nobody knows the id of a sale that has not started: nothing bears it.
FreshIds ==
    /\ \A r \in Request : pc[r] = "idle" => on[r] = None
    /\ \A t \in TxId : (\A q \in Request : on[q] # t) =>
          /\ doc[t] = NoDocument /\ captured[t] = {}
          /\ \A e \in bi : e[1] # t

(* The document of a running request: unprocessed until the request saves, with
   the entity's status after; a version 1 in it is the entity's version too,
   unless 3DS has been given up on the way. *)
OwnDocument(r) ==
    LET d == doc[on[r]]
    IN  /\ d.status \in {"absent", "pending", mem[r].status}
        /\ pc[r] \notin SavedStep \cup {"add", "update"} => d.status \in {"absent", "pending"}
        /\ pc[r] \in SavedStep => d.status = mem[r].status
        /\ pc[r] \in ChargeStep => d.ver = 0
        /\ d.ver = 1 => \/ mem[r].ver = 1
                        \/ mem[r].ver = 0 /\ ~mem[r].with3D /\ pc[r] # "lookup"

SerialInv == /\ Sole
             /\ FreshIds
             /\ \A r \in Request : Active(r) => OwnDocument(r)

LEMMA InitSerial == Init => SerialInv
<1> SUFFICES ASSUME Init PROVE SerialInv
  OBVIOUS
<1>1. \A r \in Request : ~Active(r)
  BY StepsOf DEF Init, Active
<1>2. FreshIds
  BY DEF Init, FreshIds
<1> QED  BY <1>1, <1>2 DEF SerialInv, Sole

\* A step of r writes and charges at its own transaction alone, and reports it alone.
LEMMA OwnStepTouches ==
    ASSUME Typed, NEW r \in Request, OwnStep(r), Shape(r)
    PROVE  /\ on[r] \in TxId
           /\ \A t \in TxId \ {on[r]} : doc'[t] = doc[t] /\ captured'[t] = captured[t]
           /\ \A e \in bi' : e \in bi \/ e = <<on[r], mem[r].status>>
           /\ pc'[r] # "idle" /\ (pc'[r] \in Step \/ pc'[r] \in Ended)
<1>1. on[r] \in TxId
  BY DEF OwnStep, Typed, OnTransaction
<1>2. doc \in [TxId -> Document(Call)] /\ captured \in [TxId -> SUBSET Call]
  BY DEF Typed, TypeOK
<1>3. \A t \in TxId \ {on[r]} : doc'[t] = doc[t] /\ captured'[t] = captured[t]
  BY <1>1, <1>2 DEF Shape, Retried, Settled, Thrown, Held, Uploaded, Written, Reported, Moved,
                    Died, Takes
<1>4. \A e \in bi' : e \in bi \/ e = <<on[r], mem[r].status>>
  BY DEF Shape, Retried, Settled, Thrown, Held, Uploaded, Written, Reported, Moved, Died
<1>5. pc'[r] \in Step \/ pc'[r] \in Ended
  BY StepsOf DEF Shape, Retried, Settled, Thrown, Held, Uploaded, Written, Reported, Moved, Died,
                 Step, CallStep, TakingStep, Ended, OwnStep, Active
<1> QED  BY <1>1, <1>3, <1>4, <1>5, StepsOf

\* A step of r leaves its document as OwnDocument says.
LEMMA DocumentKept ==
    ASSUME Typed, Founded, NEW r \in Request, OwnStep(r), Shape(r), Paced(r), OwnDocument(r), Active(r)'
    PROVE  OwnDocument(r)'
<1>0. on[r] \in TxId /\ on'[r] = on[r] /\ Active(r)
  BY DEF OwnStep, Typed, OnTransaction
<1>1. CASE Retried(r)
  BY <1>0, <1>1 DEF Retried, OwnDocument, SavedStep, ChargeStep
<1>2. CASE Settled(r)
  <2>1. /\ pc[r] \in Unset /\ pc'[r] \in LateStep /\ pc[r] \notin SavedStep \cup {"add", "update"}
        /\ pc'[r] \notin SavedStep \cup ChargeStep
    BY <1>2, StepsOf DEF Settled, Unset, Early, LateStep, TakingStep, ChargeStep, SavedStep
  <2>2. doc'[on'[r]] = doc[on[r]] /\ doc[on[r]].status \in {"absent", "pending"}
    BY <1>0, <1>2, <2>1 DEF Settled, OwnDocument
  <2>3. doc[on[r]].ver = 1 => mem'[r].ver = 1 \/ (mem'[r].ver = 0 /\ ~mem'[r].with3D)
    BY <1>2 DEF Settled, OwnDocument
  <2>4. pc'[r] # "lookup"
    BY <2>1 DEF LateStep
  <2> QED  BY <2>1, <2>2, <2>3, <2>4 DEF OwnDocument
<1>3. CASE Thrown(r) \/ Died(r)
  BY <1>3, StepsOf DEF Thrown, Died, Active, Ended
<1>4. CASE Held(r)
  BY <1>0, <1>4 DEF Held, OwnDocument, SavedStep, ChargeStep
<1>5. CASE Uploaded(r)
  BY <1>0, <1>5 DEF Uploaded, OwnDocument, SavedStep, ChargeStep
<1>6. CASE Written(r)
  <2>1. doc'[on'[r]] = ToDocument(mem'[r]) /\ mem'[r] = mem[r]
    BY <1>0, <1>6 DEF Written, Typed, TypeOK
  <2>2. pc'[r] \notin ChargeStep /\ pc'[r] # "lookup"
    BY <1>6, StepsOf DEF Written, Active, ChargeStep, Ended
  <2>3. pc'[r] \in SavedStep \cup {"add", "update"}
    BY <1>6, StepsOf DEF Written, Active, SavedStep, Ended
  <2> QED  BY <2>1, <2>2, <2>3 DEF OwnDocument, ToDocument
<1>7. CASE Reported(r)
  BY <1>0, <1>7, StepsOf DEF Reported, OwnDocument, SavedStep, ChargeStep, Active, Ended
<1>8. CASE Moved(r)
  BY <1>0, <1>8 DEF Moved, OwnDocument, SavedStep, ChargeStep
<1> QED  BY <1>1, <1>2, <1>3, <1>4, <1>5, <1>6, <1>7, <1>8 DEF Shape

LEMMA SerialKept == ~Overlap /\ Ground /\ SerialInv /\ Summary => SerialInv'
<1> SUFFICES ASSUME ~Overlap, Ground, SerialInv, Summary PROVE SerialInv'
  OBVIOUS
<1> USE DEF Ground
<1>1. CASE Nothing
  BY <1>1 DEF Nothing, SerialInv, Sole, FreshIds, Active, OwnDocument
<1>2. ASSUME NEW r \in Request, OwnStep(r), Shape(r), Paced(r) PROVE SerialInv'
  <2>1. /\ on[r] \in TxId /\ on' = on /\ Active(r) /\ OwnDocument(r)
        /\ \A t \in TxId \ {on[r]} : doc'[t] = doc[t] /\ captured'[t] = captured[t]
        /\ \A e \in bi' : e \in bi \/ e = <<on[r], mem[r].status>>
        /\ pc'[r] # "idle" /\ pc[r] # "idle"
    BY <1>2, OwnStepTouches, StepsOf DEF OwnStep, SerialInv, Active
  <2>2. \A q \in Request \ {r} : /\ pc'[q] = pc[q] /\ mem'[q] = mem[q]
                                 /\ Active(q)' <=> Active(q)
    BY <1>2 DEF OwnStep, Active
  <2>3. Sole'
    BY <2>1, <2>2 DEF SerialInv, Sole
  <2>4. FreshIds'
    BY <2>1, <2>2 DEF SerialInv, FreshIds
  <2>5. ASSUME NEW q \in Request, Active(q)' PROVE OwnDocument(q)'
    <3>1. CASE q = r
      BY <1>2, <2>1, <2>5, <3>1, DocumentKept
    <3>2. CASE q # r
      <4>1. Active(q) /\ OwnDocument(q) /\ on[q] \in TxId /\ on[q] # on[r]
        BY <2>1, <2>2, <2>5, <3>2 DEF SerialInv, Sole, Typed, OnTransaction
      <4> QED  BY <2>1, <2>2, <3>2, <4>1 DEF OwnDocument
    <3> QED  BY <3>1, <3>2
  <2> QED  BY <2>3, <2>4, <2>5 DEF SerialInv
<1>3. ASSUME NEW r \in Request, NEW t \in TxId, OwnStart(r),
             SaleBegun(r, t) \/ FollowUpBegun(r, t) \/ NotBegun(r, t)
      PROVE  SerialInv'
  <2>1. /\ on[r] = None /\ ~Active(r) /\ None \notin TxId
        /\ \A q \in Request \ {r} : /\ on'[q] = on[q] /\ mem'[q] = mem[q] /\ pc'[q] = pc[q]
                                    /\ Active(q)' <=> Active(q)
        /\ UNCHANGED <<doc, captured, bi>>
    BY <1>3, StepsOf, NoneAssumption DEF OwnStart, SerialInv, FreshIds, Active
  <2>2. pc'[r] # "idle"
    BY <1>3, StepsOf DEF SaleBegun, FollowUpBegun, NotBegun, Ended
  <2>3. FreshIds'
    BY <2>1, <2>2 DEF SerialInv, FreshIds
  <2>4. Active(r)' => on'[r] = t /\ \A q \in Request : Active(q) => on[q] # t
    BY <1>3, StepsOf DEF SaleBegun, FollowUpBegun, NotBegun, MayStart, Active, Ended
  <2>5. Sole'
    BY <2>1, <2>4 DEF SerialInv, Sole
  <2>6. Active(r)' => OwnDocument(r)'
    <3>1. CASE SaleBegun(r, t)
      <4>1. doc'[on'[r]] = NoDocument /\ pc'[r] = "charge"
        BY <2>1, <3>1 DEF SaleBegun, SerialInv, FreshIds
      <4> QED  BY <4>1 DEF OwnDocument, NoDocument, SavedStep, ChargeStep
    <3>2. CASE FollowUpBegun(r, t)
      BY <2>1, <3>2 DEF FollowUpBegun, OwnDocument, SavedStep, ChargeStep
    <3>3. CASE NotBegun(r, t)
      BY <3>3, StepsOf DEF NotBegun, Active
    <3> QED  BY <1>3, <3>1, <3>2, <3>3
  <2>7. ASSUME NEW q \in Request, q # r, Active(q)' PROVE OwnDocument(q)'
    BY <2>1, <2>7 DEF SerialInv, OwnDocument
  <2> QED  BY <2>3, <2>5, <2>6, <2>7 DEF SerialInv
<1> QED  BY <1>1, <1>2, <1>3 DEF Summary

LEMMA SerialAlways == ~Overlap => (Spec => []SerialInv)
<1> SUFFICES ASSUME ~Overlap PROVE Spec => []SerialInv
  OBVIOUS
<1>1. Ground /\ SerialInv /\ [Summary]_vars => SerialInv'
  <2>1. UNCHANGED vars => Nothing
    BY DEF vars, Nothing
  <2> QED  BY <2>1, SerialKept DEF Summary
<1> QED  BY <1>1, InitSerial, GroundAlways, PTL DEF Spec

\* What the theorems below take from SerialAlways: the invariants and the step.
LEMMA SerialSteps == ~Overlap => (Spec => [](Ground /\ SerialInv) /\ [][Summary]_vars)
<1> SUFFICES ASSUME ~Overlap PROVE Spec => [](Ground /\ SerialInv) /\ [][Summary]_vars
  OBVIOUS
<1>1. Spec => []SerialInv
  BY SerialAlways
<1> QED  BY <1>1, GroundAlways, PTL

(* Without overlapping requests the stored 3DS version never goes from 1 to 2,
   for all retries, failed or repeated saves and upgrades by the biller. *)
THEOREM VersionNeverRisesSerially == ~Overlap => (Spec => VersionNeverRises)
<1> SUFFICES ASSUME ~Overlap PROVE Spec => VersionNeverRises
  OBVIOUS
<1> DEFINE Keeps == \A t \in TxId : ~(doc[t].ver = 1 /\ doc'[t].ver = 2)
<1>1. Ground /\ SerialInv /\ Summary => Keeps
  <2> SUFFICES ASSUME Ground, SerialInv, Summary, NEW t \in TxId, doc[t].ver = 1, doc'[t].ver = 2
               PROVE  FALSE
    OBVIOUS
  <2>1. ASSUME NEW r \in Request, OwnStep(r), Shape(r) PROVE FALSE
    <3>1. CASE Written(r)
      <4>1. on[r] = t /\ doc'[t].ver = mem[r].ver
        BY <3>1 DEF Written, Ground, Typed, TypeOK, ToDocument
      <4>2. OwnDocument(r)
        BY <2>1 DEF SerialInv, OwnStep
      <4> QED  BY <4>1, <4>2 DEF OwnDocument
    <3>2. CASE ~Written(r)
      BY <2>1, <3>2 DEF Shape, Retried, Settled, Thrown, Held, Uploaded, Reported, Moved, Died
    <3> QED  BY <3>1, <3>2
  <2> QED  BY <2>1 DEF Summary, Nothing, OwnStart
<1>2. Ground /\ SerialInv /\ UNCHANGED vars => Keeps
  BY DEF vars
<1>3. Ground /\ SerialInv /\ [Summary]_vars => Keeps
  BY <1>1, <1>2
<1> HIDE DEF Keeps
<1>4. Spec => [][Keeps]_vars
  BY <1>3, SerialSteps, PTL
<1> QED  BY <1>4, PTL DEF VersionNeverRises, Keeps

-----------------------------------------------------------------------------
(* The refinement of PaymentLifecycle.                                     *)

StatusView == [t \in TxId |-> doc[t].status]
PaidView == {t \in TxId : captured[t] # {}}

\* A call that takes money is a Take of the lifecycle, or takes again what was taken.
LEMMA TakeRefines ==
    ASSUME Typed, NEW r \in Request, on[r] \in TxId, NEW took \in BOOLEAN, Takes(r, took),
           doc' = doc, doc[on[r]].status \in {"absent", "pending"}
    PROVE  [Lifecycle!Next]_<<StatusView, PaidView>>
<1>1. StatusView' = StatusView
  BY DEF StatusView
<1>2. PaidView' = PaidView \/ PaidView' = PaidView \cup {on[r]}
  BY DEF Takes, PaidView, Typed, TypeOK
<1>3. CASE PaidView' = PaidView
  BY <1>1, <1>3
<1>4. CASE PaidView' = PaidView \cup {on[r]}
  <2>1. StatusView[on[r]] \in Lifecycle!Unprocessed
    BY DEF StatusView, Lifecycle!Unprocessed
  <2>2. Lifecycle!Take(on[r])
    BY <1>1, <1>4, <2>1 DEF Lifecycle!Take, StatusView, PaidView
  <2> QED  BY <2>2 DEF Lifecycle!Next, Lifecycle!Take
<1> QED  BY <1>2, <1>3, <1>4

\* A save is a Record of the lifecycle, or writes the status that was there.
LEMMA WriteRefines ==
    ASSUME Ground, SerialInv, NEW r \in Request, OwnStep(r), Paced(r), Written(r)
    PROVE  [Lifecycle!Next]_<<StatusView, PaidView>>
<1>1. on[r] \in TxId /\ OwnDocument(r) /\ MemoryIsFounded(r)
  BY DEF OwnStep, Ground, Founded, MemoryIsFounded, SerialInv
<1>2. doc'[on[r]].status = mem[r].status /\ \A t \in TxId \ {on[r]} : doc'[t] = doc[t]
  BY <1>1 DEF Written, Ground, Typed, TypeOK, ToDocument
<1>3. PaidView' = PaidView
  BY DEF Written, PaidView
<1>4. StatusView' = [StatusView EXCEPT ![on[r]] = mem[r].status]
  BY <1>1, <1>2 DEF StatusView
<1>5. CASE doc[on[r]].status = mem[r].status
  <2>1. StatusView' = StatusView
    BY <1>4, <1>5 DEF StatusView
  <2> QED  BY <1>3, <2>1
<1>6. CASE doc[on[r]].status \in {"absent", "pending"}
  <2>1. mem[r].status \in Lifecycle!Outcome
    BY DEF Paced, Result, Lifecycle!Outcome
  <2>2. mem[r].status = "approved" => on[r] \in PaidView
    BY <1>1 DEF MemoryIsFounded, Paid, PaidView
  <2>3. StatusView[on[r]] \in Lifecycle!Unprocessed
    BY <1>1, <1>6 DEF StatusView, Lifecycle!Unprocessed
  <2>4. Lifecycle!Record(on[r], mem[r].status)
    BY <1>3, <1>4, <2>2, <2>3 DEF Lifecycle!Record, StatusView, PaidView
  <2> QED  BY <1>1, <2>1, <2>4 DEF Lifecycle!Next, Lifecycle!Record
<1> QED  BY <1>1, <1>5, <1>6 DEF OwnDocument

LEMMA StepRefines ==
    ASSUME Ground, SerialInv, Summary
    PROVE  [Lifecycle!Next]_<<StatusView, PaidView>>
<1>1. ASSUME UNCHANGED <<doc, captured>> PROVE [Lifecycle!Next]_<<StatusView, PaidView>>
  BY <1>1 DEF StatusView, PaidView
<1>2. ASSUME NEW r \in Request, OwnStep(r), Shape(r), Paced(r)
      PROVE  [Lifecycle!Next]_<<StatusView, PaidView>>
  <2>1. on[r] \in TxId /\ OwnDocument(r)
    BY <1>2 DEF OwnStep, Ground, Founded, MemoryIsFounded, SerialInv
  <2>2. CASE Written(r)
    BY <1>2, <2>2, WriteRefines
  <2>3. CASE Uploaded(r) \/ Reported(r) \/ Moved(r) \/ Died(r)
    BY <1>1, <2>3 DEF Uploaded, Reported, Moved, Died
  <2>4. CASE Retried(r) \/ Settled(r) \/ Thrown(r) \/ Held(r)
    <3>1. pc[r] \in Unset /\ doc' = doc
      BY <2>4, StepsOf DEF Retried, Settled, Thrown, Held, Unset, Early, TakingStep
    <3>2. doc[on[r]].status \in {"absent", "pending"}
      BY <2>1, <3>1, StepsOf DEF OwnDocument, LateStep
    <3>3. captured' = captured \/ \E took \in BOOLEAN : Takes(r, took)
      BY <2>4 DEF Retried, Settled, Thrown, Held
    <3> QED  BY <1>1, <2>1, <3>1, <3>2, <3>3, TakeRefines DEF Ground
  <2> QED  BY <1>2, <2>2, <2>3, <2>4 DEF Shape
<1> QED  BY <1>1, <1>2 DEF Summary, Nothing, OwnStart

(* Without overlapping requests the handlers implement PaymentLifecycle: money
   is taken only from an unprocessed transaction, an outcome is recorded once,
   and approved only if money was taken - whatever crashes, lost answers, failed
   or repeated saves and retries there are. *)
THEOREM LifecycleImplemented == ~Overlap => (Spec => LifecycleSpec)
<1> SUFFICES ASSUME ~Overlap PROVE Spec => LifecycleSpec
  OBVIOUS
<1>1. Init => Lifecycle!Init
  BY DEF Init, Lifecycle!Init, NoDocument
<1>2. Ground /\ SerialInv /\ [Summary]_vars => [Lifecycle!Next]_<<StatusView, PaidView>>
  <2>1. UNCHANGED vars => UNCHANGED <<StatusView, PaidView>>
    BY DEF vars, StatusView, PaidView
  <2> QED  BY <2>1, StepRefines
<1>3. Spec => [][Lifecycle!Next]_<<StatusView, PaidView>>
  BY <1>2, SerialSteps, PTL
<1>4. Spec => Lifecycle!Init
  BY <1>1, PTL DEF Spec
<1> QED  BY <1>3, <1>4, PTL DEF LifecycleSpec, Lifecycle!Spec, StatusView, PaidView

-----------------------------------------------------------------------------
(* Requests do not overlap, none dies or fails to save, and the biller keeps *)
(* to the 3DS version and to the order of a 3DS sale: a transaction is      *)
(* charged once.  Redis may fail and calls may stay unanswered.            *)

Steady == /\ ~Overlap
          /\ Faults \subseteq {"noAnswer", "redis"}

(* How many calls took money for t while r runs on it, and what shows it: none
   before the first answer that counts; then the answer held, the entity and at
   last the document. *)
TakenBy(r) ==
    /\ pc[r] \in Early => captured[on[r]] = {}
    /\ captured[on[r]] # {} =>
          /\ pc[r] = "deleteCvv" => Final(answer[r].result)
          /\ pc[r] \notin Unset => Final(mem[r].status)

OnceInv ==
    /\ AtMostOneCapture
    /\ \A r \in Request : Active(r) => TakenBy(r)
    /\ \A t \in TxId : Quiet(t) /\ captured[t] # {} => Final(doc[t].status)

LEMMA InitOnce == Init => OnceInv
BY StepsOf DEF Init, OnceInv, AtMostOneCapture, Active

\* The calls that took money for a transaction stay one at most.
LEMMA TakesOnce ==
    ASSUME Typed, NEW r \in Request, on[r] \in TxId, NEW took \in BOOLEAN, Takes(r, took),
           AtMostOneCapture, captured[on[r]] = {}
    PROVE  /\ AtMostOneCapture'
           /\ captured'[on[r]] # {} => took
BY DEF Takes, AtMostOneCapture, Typed, TypeOK

\* A step of r, running alone on its transaction, leaves it charged once.
LEMMA TakenKept ==
    ASSUME Steady, Ground, SerialInv, OnceInv, NEW r \in Request, OwnStep(r), Shape(r), Paced(r)
    PROVE  /\ AtMostOneCapture'
           /\ Active(r)' => TakenBy(r)'
           /\ ~Active(r)' /\ captured'[on[r]] # {} => Final(doc'[on[r]].status)
<1>0. /\ on[r] \in TxId /\ on' = on /\ Active(r) /\ OwnDocument(r) /\ TakenBy(r) /\ Typed
      /\ AtMostOneCapture
  BY DEF OwnStep, Ground, Typed, OnTransaction, SerialInv, OnceInv
<1>a. /\ TakingStep \subseteq Early /\ "deleteCvv" \notin Early /\ "complete" \in Early
      /\ ChargeStep \cup {"bypass", "lookup"} \subseteq TakingStep
      /\ Early \subseteq Unset
  BY DEF Early, Unset, TakingStep, ChargeStep
<1>b. captured' = captured => AtMostOneCapture'
  BY <1>0 DEF AtMostOneCapture
<1>1. CASE Retried(r)
  <2>1. PICK took \in BOOLEAN : Takes(r, took) /\ ~took
    BY <1>1 DEF Retried, Steady
  <2>2. captured' = captured
    BY <2>1 DEF Takes
  <2>3. pc[r] \in Early /\ pc'[r] \in Early
    BY <1>1, <1>a DEF Retried
  <2>4. Active(r)'
    BY <2>3, StepsOf DEF Active, Unset
  <2> QED  BY <1>0, <1>a, <1>b, <2>2, <2>3, <2>4 DEF TakenBy
<1>2. CASE Settled(r)
  <2>1. pc'[r] \in LateStep /\ pc'[r] \notin Unset /\ Active(r)' /\ doc' = doc
    BY <1>2, StepsOf DEF Settled, Active
  <2>2. CASE pc[r] = "deleteCvv" /\ captured' = captured /\ mem'[r].status = answer[r].result
    BY <1>0, <1>a, <1>b, <2>1, <2>2 DEF TakenBy, Unset
  <2>3. CASE pc[r] \in TakingStep
    <3>1. PICK took \in BOOLEAN : Takes(r, took) /\ (took => Final(mem'[r].status))
      BY <1>2, <1>a, <2>3 DEF Settled
    <3>2. captured[on[r]] = {}
      BY <1>0, <1>a, <2>3 DEF TakenBy
    <3> QED  BY <1>0, <1>a, <2>1, <3>1, <3>2, TakesOnce DEF TakenBy, Unset
  <2> QED  BY <1>2, <2>2, <2>3 DEF Settled
<1>3. CASE Thrown(r) \/ Died(r)
  BY <1>3 DEF Thrown, Died, Steady
<1>4. CASE Held(r)
  <2>1. PICK took \in BOOLEAN : Takes(r, took) /\ (took => Final(answer'[r].result))
    BY <1>4 DEF Held
  <2>2. captured[on[r]] = {}
    BY <1>0, <1>4, <1>a DEF TakenBy, Held
  <2>3. pc'[r] = "deleteCvv" /\ Active(r)' /\ pc'[r] \in Unset
    BY <1>4, StepsOf DEF Held, Active, Unset
  <2> QED  BY <1>0, <1>a, <2>1, <2>2, <2>3, TakesOnce DEF TakenBy
<1>5. CASE Uploaded(r)
  BY <1>0, <1>5, <1>b, StepsOf DEF Uploaded, TakenBy, Unset, Early, TakingStep, ChargeStep, Active,
                                  LateStep, SavedStep
<1>6. CASE Written(r)
  <2>1. /\ doc'[on[r]] = ToDocument(mem[r]) /\ captured' = captured /\ mem' = mem
        /\ pc[r] \notin Unset /\ pc'[r] \notin Unset
    BY <1>0, <1>6, StepsOf DEF Written, Typed, TypeOK, LateStep, SavedStep, Ended, Steady
  <2> QED  BY <1>0, <1>a, <1>b, <2>1 DEF TakenBy, ToDocument, Unset
<1>7. CASE Reported(r)
  <2>1. /\ doc' = doc /\ captured' = captured /\ mem' = mem
        /\ pc[r] \notin Unset /\ pc'[r] \notin Unset
        /\ Active(r)' \/ pc[r] \in SavedStep
    BY <1>0, <1>7, StepsOf DEF Reported, Active, LateStep, SavedStep, Ended
  <2> QED  BY <1>0, <1>a, <1>b, <2>1 DEF TakenBy, OwnDocument, Unset
<1>8. CASE Moved(r)
  BY <1>0, <1>8, <1>b, StepsOf DEF Moved, TakenBy, Unset, Early, TakingStep, ChargeStep, Active,
                                  LateStep, SavedStep
<1> QED  BY <1>1, <1>2, <1>3, <1>4, <1>5, <1>6, <1>7, <1>8 DEF Shape

LEMMA OnceKept == Steady /\ Ground /\ SerialInv /\ OnceInv /\ Summary => OnceInv'
<1> SUFFICES ASSUME Steady, Ground, SerialInv, OnceInv, Summary PROVE OnceInv'
  OBVIOUS
<1>1. CASE Nothing
  BY <1>1 DEF Nothing, OnceInv, AtMostOneCapture, Quiet, Active, TakenBy
<1>2. ASSUME NEW r \in Request, OwnStep(r), Shape(r), Paced(r) PROVE OnceInv'
  <2>1. /\ on[r] \in TxId /\ on' = on /\ Active(r)
        /\ \A t \in TxId \ {on[r]} : doc'[t] = doc[t] /\ captured'[t] = captured[t]
        /\ \A q \in Request \ {r} : /\ pc'[q] = pc[q] /\ mem'[q] = mem[q] /\ answer'[q] = answer[q]
                                    /\ Active(q)' <=> Active(q)
    BY <1>2, OwnStepTouches DEF OwnStep, Active, Ground
  <2>2. /\ AtMostOneCapture'
        /\ Active(r)' => TakenBy(r)'
        /\ ~Active(r)' /\ captured'[on[r]] # {} => Final(doc'[on[r]].status)
    BY <1>2, TakenKept
  <2>3. ASSUME NEW q \in Request, q # r, Active(q)' PROVE TakenBy(q)'
    <3>1. Active(q) /\ TakenBy(q) /\ on[q] \in TxId /\ on[q] # on[r]
      BY <2>1, <2>3 DEF OnceInv, SerialInv, Sole, Ground, Typed, OnTransaction
    <3> QED  BY <2>1, <2>3, <3>1 DEF TakenBy
  <2>4. ASSUME NEW t \in TxId, Quiet(t)', captured'[t] # {} PROVE Final(doc'[t].status)
    <3>1. CASE t = on[r]
      BY <2>1, <2>2, <2>4, <3>1 DEF Quiet
    <3>2. CASE t # on[r]
      <4>1. Quiet(t)
        BY <2>1, <2>4, <3>2 DEF Quiet
      <4> QED  BY <2>1, <2>4, <3>2, <4>1 DEF OnceInv
    <3> QED  BY <3>1, <3>2
  <2> QED  BY <2>2, <2>3, <2>4 DEF OnceInv
<1>3. ASSUME NEW r \in Request, NEW t \in TxId, OwnStart(r),
             SaleBegun(r, t) \/ FollowUpBegun(r, t) \/ NotBegun(r, t)
      PROVE  OnceInv'
  <2>1. /\ ~Active(r)
        /\ \A q \in Request \ {r} : /\ on'[q] = on[q] /\ mem'[q] = mem[q] /\ pc'[q] = pc[q]
                                    /\ answer'[q] = answer[q]
                                    /\ Active(q)' <=> Active(q)
        /\ UNCHANGED <<doc, captured, bi>>
    BY <1>3, StepsOf DEF OwnStart, Active
  <2>2. ASSUME Active(r)' PROVE on'[r] = t /\ captured[t] = {}
    <3>1. CASE SaleBegun(r, t)
      BY <3>1 DEF SaleBegun, SerialInv, FreshIds
    <3>2. CASE FollowUpBegun(r, t)
      <4>1. Quiet(t) /\ ~Final(doc[t].status)
        BY <3>2 DEF FollowUpBegun, MayStart, Quiet, Steady, Final
      <4> QED  BY <3>2, <4>1 DEF FollowUpBegun, OnceInv
    <3>3. CASE NotBegun(r, t)
      BY <2>2, <3>3, StepsOf DEF NotBegun, Active
    <3> QED  BY <1>3, <3>1, <3>2, <3>3
  <2>3. Active(r)' => TakenBy(r)'
    BY <2>1, <2>2 DEF TakenBy
  <2>4. ASSUME NEW q \in Request, q # r, Active(q)' PROVE TakenBy(q)'
    BY <2>1, <2>4 DEF OnceInv, TakenBy
  <2>5. ASSUME NEW s \in TxId, Quiet(s)', captured'[s] # {} PROVE Final(doc'[s].status)
    <3>1. Quiet(s)
      BY <2>1, <2>5 DEF Quiet
    <3> QED  BY <2>1, <2>5, <3>1 DEF OnceInv
  <2>6. AtMostOneCapture'
    BY <2>1 DEF OnceInv, AtMostOneCapture
  <2> QED  BY <2>3, <2>4, <2>5, <2>6 DEF OnceInv
<1> QED  BY <1>1, <1>2, <1>3 DEF Summary

LEMMA OnceAlways == Steady => (Spec => []OnceInv)
<1> SUFFICES ASSUME Steady PROVE Spec => []OnceInv
  OBVIOUS
<1>1. Ground /\ SerialInv /\ OnceInv /\ [Summary]_vars => OnceInv'
  <2>1. UNCHANGED vars => Nothing
    BY DEF vars, Nothing
  <2> QED  BY <2>1, OnceKept DEF Summary
<1>2. Spec => [](Ground /\ SerialInv) /\ [][Summary]_vars
  BY SerialSteps DEF Steady
<1> QED  BY <1>1, <1>2, InitOnce, PTL DEF Spec

(* A sale, its lookups and its completes together charge a transaction once, also
   when calls stay unanswered - taken or not - and when Redis fails. *)
THEOREM ChargedOnce ==
    ~Overlap /\ Faults \subseteq {"noAnswer", "redis"} => (Spec => []AtMostOneCapture)
<1> SUFFICES ASSUME Steady PROVE Spec => []AtMostOneCapture
  BY DEF Steady
<1>1. OnceInv => AtMostOneCapture
  BY DEF OnceInv
<1> QED  BY <1>1, OnceAlways, PTL

(* When every call is answered too, a transaction no request is at work on is
   approved if and only if the biller took money for it. *)
THEOREM PaidAgreesWithApproved ==
    ~Overlap /\ Faults \subseteq {"redis"} => (Spec => []PaidIsApproved)
<1> SUFFICES ASSUME Steady, "noAnswer" \notin Faults PROVE Spec => []PaidIsApproved
  BY DEF Steady
<1>1. Ground /\ OnceInv => PaidIsApproved
  <2> SUFFICES ASSUME Ground, OnceInv, NEW t \in TxId, Quiet(t)
               PROVE  captured[t] # {} <=> doc[t].status = "approved"
    BY DEF PaidIsApproved
  <2>1. captured[t] # {} => doc[t].status = "approved"
    BY DEF OnceInv, Final
  <2>2. doc[t].status = "approved" => captured[t] # {}
    BY DEF Ground, Founded, ApprovedIsPaid, Paid
  <2> QED  BY <2>1, <2>2
<1> QED  BY <1>1, OnceAlways, GroundAlways, PTL

-----------------------------------------------------------------------------
(* Requests do not overlap, none dies or fails to save: what the BI log says *)
(* of a transaction is pending or its status.                              *)

Saving == /\ ~Overlap
          /\ "crash" \notin Faults /\ "firestore" \notin Faults

\* So far the log says nothing of r's transaction that the entity contradicts.
ReportedBy(r) == \A e \in bi : e[1] = on[r] => e[2] \in {"pending", mem[r].status}

ReportInv == /\ BiAgrees
             /\ \A r \in Request : Active(r) => ReportedBy(r)

LEMMA InitReport == Init => ReportInv
BY StepsOf DEF Init, ReportInv, BiAgrees, Active

\* A step of r leaves nothing in the log that its entity, or its document once r has ended, contradicts.
LEMMA ReportedKept ==
    ASSUME Saving, Ground, SerialInv, NEW r \in Request, ReportedBy(r), OwnStep(r), Shape(r), Paced(r),
           NEW e \in bi', e[1] = on[r]
    PROVE  /\ Active(r)' => e[2] \in {"pending", mem'[r].status}
           /\ ~Active(r)' => e[2] \in {"pending", doc'[on[r]].status}
<1>0. /\ on[r] \in TxId /\ on' = on /\ Active(r) /\ OwnDocument(r) /\ Typed
  BY DEF OwnStep, Ground, Typed, OnTransaction, SerialInv
<1>1. e \notin bi => e[2] = mem[r].status
  BY <1>0, OwnStepTouches DEF OwnStep
<1>2. e[2] \in {"pending", mem[r].status}
  BY <1>1 DEF ReportedBy
<1>3. CASE Retried(r) \/ Uploaded(r)
  <2>1. Active(r)' /\ mem'[r].status = mem[r].status
    BY <1>3, StepsOf DEF Retried, Uploaded, Active, Unset, Early, TakingStep, LateStep
  <2> QED  BY <1>2, <2>1
<1>4. CASE Settled(r) \/ Thrown(r)
  <2>1. pc[r] \in Unset
    BY <1>4 DEF Settled, Thrown, Unset, Early
  <2> QED  BY <1>2, <2>1 DEF Paced
<1>5. CASE Held(r)
  <2>1. Active(r)' /\ mem'[r].status = mem[r].status
    BY <1>5, StepsOf DEF Held, Active, Unset
  <2> QED  BY <1>2, <2>1
<1>6. CASE Written(r)
  <2>1. doc'[on[r]].status = mem[r].status /\ mem'[r] = mem[r]
    BY <1>0, <1>6 DEF Written, Typed, TypeOK, ToDocument
  <2> QED  BY <1>2, <2>1
<1>7. CASE Reported(r)
  <2>1. /\ mem' = mem /\ doc' = doc
        /\ Active(r)' \/ pc[r] \in SavedStep
    BY <1>0, <1>7, StepsOf DEF Reported, Active, LateStep, SavedStep
  <2> QED  BY <1>0, <1>2, <2>1 DEF OwnDocument
<1>8. CASE Moved(r)
  <2>1. Active(r)' /\ mem' = mem
    BY <1>8, StepsOf DEF Moved, Active, LateStep, Unset, Early, TakingStep
  <2> QED  BY <1>2, <2>1
<1>9. ~Died(r)
  BY DEF Died, Saving
<1> QED  BY <1>3, <1>4, <1>5, <1>6, <1>7, <1>8, <1>9 DEF Shape

LEMMA ReportKept == Saving /\ Ground /\ SerialInv /\ ReportInv /\ Summary => ReportInv'
<1> SUFFICES ASSUME Saving, Ground, SerialInv, ReportInv, Summary PROVE ReportInv'
  OBVIOUS
<1>0. bi \subseteq TxId \X Status
  BY DEF Ground, Typed, TypeOK
<1>1. CASE Nothing
  BY <1>1 DEF Nothing, ReportInv, BiAgrees, Quiet, Active, ReportedBy
<1>2. ASSUME NEW r \in Request, OwnStep(r), Shape(r), Paced(r) PROVE ReportInv'
  <2>1. /\ on[r] \in TxId /\ on' = on /\ Active(r) /\ ReportedBy(r)
        /\ \A t \in TxId \ {on[r]} : doc'[t] = doc[t]
        /\ \A e \in bi' : e \in bi \/ e[1] = on[r]
        /\ \A q \in Request \ {r} : /\ pc'[q] = pc[q] /\ mem'[q] = mem[q]
                                    /\ Active(q)' <=> Active(q)
    BY <1>2, OwnStepTouches DEF OwnStep, Active, Ground, ReportInv
  <2>2. \A e \in bi' : e[1] = on[r] =>
           /\ Active(r)' => e[2] \in {"pending", mem'[r].status}
           /\ ~Active(r)' => e[2] \in {"pending", doc'[on[r]].status}
    BY <1>2, <2>1, ReportedKept
  <2>3. ASSUME NEW q \in Request, q # r, Active(q)' PROVE ReportedBy(q)'
    <3>1. Active(q) /\ ReportedBy(q) /\ on[q] # on[r]
      BY <2>1, <2>3 DEF ReportInv, SerialInv, Sole
    <3> QED  BY <2>1, <2>3, <3>1 DEF ReportedBy
  <2>4. ASSUME NEW e \in bi', Quiet(e[1])' PROVE e[2] \in {"pending", doc'[e[1]].status}
    <3>1. CASE e[1] = on[r]
      <4>1. ~Active(r)'
        BY <2>1, <2>4, <3>1 DEF Quiet
      <4> QED  BY <2>2, <3>1, <4>1
    <3>2. CASE e[1] # on[r]
      <4>1. e \in bi /\ e[1] \in TxId
        BY <1>0, <2>1, <3>2
      <4>2. Quiet(e[1])
        BY <2>1, <2>4, <3>2 DEF Quiet
      <4> QED  BY <2>1, <3>2, <4>1, <4>2 DEF ReportInv, BiAgrees
    <3> QED  BY <3>1, <3>2
  <2>5. Active(r)' => ReportedBy(r)'
    BY <2>1, <2>2 DEF ReportedBy
  <2> QED  BY <2>3, <2>4, <2>5 DEF ReportInv, BiAgrees
<1>3. ASSUME NEW r \in Request, NEW t \in TxId, OwnStart(r),
             SaleBegun(r, t) \/ FollowUpBegun(r, t) \/ NotBegun(r, t)
      PROVE  ReportInv'
  <2>1. /\ ~Active(r)
        /\ \A q \in Request \ {r} : /\ on'[q] = on[q] /\ mem'[q] = mem[q] /\ pc'[q] = pc[q]
                                    /\ Active(q)' <=> Active(q)
        /\ UNCHANGED <<doc, bi>>
    BY <1>3, StepsOf DEF OwnStart, Active
  <2>2. ASSUME Active(r)', NEW e \in bi', e[1] = on'[r] PROVE e[2] = "pending"
    <3>1. CASE SaleBegun(r, t)
      BY <2>1, <2>2, <3>1 DEF SaleBegun, SerialInv, FreshIds
    <3>2. CASE FollowUpBegun(r, t)
      <4>1. Quiet(t)
        BY <3>2 DEF FollowUpBegun, MayStart, Quiet, Saving
      <4> QED  BY <2>1, <2>2, <3>2, <4>1 DEF FollowUpBegun, ReportInv, BiAgrees
    <3>3. CASE NotBegun(r, t)
      BY <2>2, <3>3, StepsOf DEF NotBegun, Active
    <3> QED  BY <1>3, <3>1, <3>2, <3>3
  <2>3. ASSUME NEW q \in Request, q # r, Active(q)' PROVE ReportedBy(q)'
    BY <2>1, <2>3 DEF ReportInv, ReportedBy
  <2>4. ASSUME NEW e \in bi', Quiet(e[1])' PROVE e[2] \in {"pending", doc'[e[1]].status}
    <3>1. Quiet(e[1])
      BY <2>1, <2>4 DEF Quiet
    <3> QED  BY <2>1, <3>1 DEF ReportInv, BiAgrees
  <2> QED  BY <2>2, <2>3, <2>4 DEF ReportInv, BiAgrees, ReportedBy
<1> QED  BY <1>1, <1>2, <1>3 DEF Summary

(* The BI log never contradicts the document of a transaction no request is at
   work on, though a lookup reports before it saves - also when calls stay
   unanswered, a 3DS version is refused or Redis fails. *)
THEOREM LogAgrees ==
    ~Overlap /\ "crash" \notin Faults /\ "firestore" \notin Faults => (Spec => []BiAgrees)
<1> SUFFICES ASSUME Saving PROVE Spec => []BiAgrees
  BY DEF Saving
<1>1. Ground /\ SerialInv /\ ReportInv /\ [Summary]_vars => ReportInv'
  <2>1. UNCHANGED vars => Nothing
    BY DEF vars, Nothing
  <2> QED  BY <2>1, ReportKept DEF Summary
<1>2. Spec => [](Ground /\ SerialInv) /\ [][Summary]_vars
  BY SerialSteps DEF Saving
<1>3. ReportInv => BiAgrees
  BY DEF ReportInv
<1> QED  BY <1>1, <1>2, <1>3, InitReport, PTL DEF Spec

-----------------------------------------------------------------------------
(* However requests overlap and whatever else fails.                       *)

\* A request that has not had the answer that counts has taken nothing.
OneInv ==
    /\ OneCapturePerRequest
    /\ \A r \in Request : pc[r] \in Early \cup {"idle"} =>
          \A t \in TxId : \A c \in captured[t] : c[1] # r

LEMMA OneKept == "approved2" \notin Faults /\ Ground /\ OneInv /\ Summary => OneInv'
<1> SUFFICES ASSUME "approved2" \notin Faults, Ground, OneInv, Summary PROVE OneInv'
  OBVIOUS
<1>0. captured \in [TxId -> SUBSET Call]
  BY DEF Ground, Typed, TypeOK
<1>1. CASE Nothing
  BY <1>1 DEF Nothing, OneInv, OneCapturePerRequest
<1>2. ASSUME NEW r \in Request, OwnStep(r), Shape(r) PROVE OneInv'
  <2>1. \A q \in Request \ {r} : pc'[q] = pc[q]
    BY <1>2 DEF OwnStep
  <2>2. on[r] \in TxId /\ pc'[r] # "idle"
    BY <1>2, OwnStepTouches DEF Ground
  <2>3. CASE captured' = captured /\ (pc'[r] \in Early => pc[r] \in Early)
    BY <2>1, <2>2, <2>3 DEF OneInv, OneCapturePerRequest
  <2>4. CASE /\ pc[r] \in Early /\ pc'[r] \notin Early
             /\ \E took \in BOOLEAN : Takes(r, took)
    <3>1. \A t \in TxId : \A c \in captured[t] : c[1] # r
      BY <2>4 DEF OneInv
    <3>2. \A t \in TxId : \A c \in captured'[t] : c \in captured[t] \/ c = <<r, pc[r]>>
      BY <1>0, <2>2, <2>4 DEF Takes
    <3>3. OneCapturePerRequest'
      BY <3>1, <3>2 DEF OneInv, OneCapturePerRequest
    <3> QED  BY <2>1, <2>2, <2>4, <3>2, <3>3 DEF OneInv
  <2>5. \/ captured' = captured /\ (pc'[r] \in Early => pc[r] \in Early)
        \/ /\ pc[r] \in Early /\ pc'[r] \notin Early
           /\ \E took \in BOOLEAN : Takes(r, took)
    <3>1. CASE Retried(r)
      BY <3>1 DEF Retried, Takes, Early, TakingStep, ChargeStep
    <3>2. CASE Settled(r)
      BY <3>2, StepsOf DEF Settled, Unset, Early
    <3>3. CASE Thrown(r)
      BY <3>3, StepsOf DEF Thrown, Unset, Early, Ended
    <3>4. CASE Held(r)
      BY <3>4 DEF Held, Early, TakingStep, ChargeStep
    <3>5. CASE Uploaded(r) \/ Written(r) \/ Reported(r) \/ Moved(r) \/ Died(r)
      BY <3>5, <1>2 DEF Uploaded, Written, Reported, Moved, Died, Early, TakingStep, ChargeStep
    <3> QED  BY <1>2, <3>1, <3>2, <3>3, <3>4, <3>5 DEF Shape
  <2> QED  BY <2>3, <2>4, <2>5
<1>3. ASSUME NEW r \in Request, OwnStart(r) PROVE OneInv'
  BY <1>3 DEF OwnStart, OneInv, OneCapturePerRequest
<1> QED  BY <1>1, <1>2, <1>3 DEF Summary

(* One request never charges twice, for all its retries with and without 3DS and
   its card uploads, however requests overlap and whatever fails - unless the
   biller approves a first charge and announces 3DS 2 with it. *)
THEOREM RequestChargesOnce == "approved2" \notin Faults => (Spec => []OneCapturePerRequest)
<1> SUFFICES ASSUME "approved2" \notin Faults PROVE Spec => []OneCapturePerRequest
  OBVIOUS
<1>1. Init => OneInv
  BY DEF Init, OneInv, OneCapturePerRequest
<1>2. Ground /\ OneInv /\ [Summary]_vars => OneInv'
  <2>1. UNCHANGED vars => Nothing
    BY DEF vars, Nothing
  <2> QED  BY <2>1, OneKept DEF Summary
<1>3. OneInv => OneCapturePerRequest
  BY DEF OneInv
<1> QED  BY <1>1, <1>2, <1>3, GroundAlways, PTL DEF Spec

-----------------------------------------------------------------------------
(* The CVV of a card, for requests that may overlap.                       *)

\* A request there has stored its CVV if it ever does.
PastStore == {"add", "biCreated", "upload", "update", "biUpdated"} \cup Ended

\* A CVV was stored by a request that will not store it again; only a complete
\* gets one, and it is gone once that complete saves.
CvvInv ==
    /\ \A t \in TxId : cvv[t] # None => pc[cvv[t]] \in PastStore
    /\ \A r \in Request : pc[r] = "retrieveCvv" => kind[r] = "complete"
    /\ \A r \in Request : got[r] # None =>
          /\ kind[r] = "complete" /\ pc[got[r]] \in PastStore
          /\ pc[r] \in {"complete", "deleteCvv", "update", "biUpdated"} \cup Ended
    /\ \A r \in Request : pc[r] = "done" => on[r] \in TxId
    /\ UsedCvvIsGone

\* What a step of r does to the CVVs, while Redis answers.
LEMMA CvvStep ==
    ASSUME Typed, "redis" \notin Faults, NEW r \in Request,
           Proceed(r) \/ SaveRepeated(r) \/ Crash(r)
    PROVE  /\ kind' = kind
           /\ pc[r] = "complete" /\ kind[r] = "complete" => pc'[r] \in {"deleteCvv", "failed"}
           /\ pc[r] = "deleteCvv" => pc'[r] \in {"update", "failed"}
           /\ \/ UNCHANGED <<cvv, got>> /\ (pc[r] = "deleteCvv" => pc'[r] = "failed")
              \/ /\ pc[r] \in {"storeCvv", "lookupCvv"} /\ pc'[r] \in {"add", "update"}
                 /\ cvv' = Stored(on[r], r) /\ got' = got
              \/ /\ pc[r] = "retrieveCvv" /\ pc'[r] = "complete"
                 /\ cvv' = cvv /\ got' = [got EXCEPT ![r] = cvv[on[r]]]
              \/ /\ pc[r] = "deleteCvv"
                 /\ cvv' = IF got[r] # None THEN [cvv EXCEPT ![on[r]] = None] ELSE cvv
                 /\ got' = got
<1> DEFINE Goal ==
      /\ kind' = kind
      /\ pc[r] = "complete" /\ kind[r] = "complete" => pc'[r] \in {"deleteCvv", "failed"}
      /\ pc[r] = "deleteCvv" => pc'[r] \in {"update", "failed"}
      /\ \/ UNCHANGED <<cvv, got>> /\ (pc[r] = "deleteCvv" => pc'[r] = "failed")
         \/ /\ pc[r] \in {"storeCvv", "lookupCvv"} /\ pc'[r] \in {"add", "update"}
            /\ cvv' = Stored(on[r], r) /\ got' = got
         \/ /\ pc[r] = "retrieveCvv" /\ pc'[r] = "complete"
            /\ cvv' = cvv /\ got' = [got EXCEPT ![r] = cvv[on[r]]]
         \/ /\ pc[r] = "deleteCvv"
            /\ cvv' = IF got[r] # None THEN [cvv EXCEPT ![on[r]] = None] ELSE cvv
            /\ got' = got
<1>0. pc \in [Request -> {"idle"} \cup Step \cup Ended]
  BY DEF Typed, TypeOK
<1>1. CASE \/ ChargeRetriedWithThreeD(r) \/ ChargeRetriedWithoutThreeD(r) \/ ChargeAnswered(r)
           \/ CardUploaded(r) \/ LookupRetriedWithoutThreeD(r) \/ LookupAnswered(r)
           \/ BypassAnswered(r) \/ BypassUploaded(r)
  BY <1>1 DEF ChargeRetriedWithThreeD, ChargeRetriedWithoutThreeD, ChargeAnswered, CardUploaded,
              LookupRetriedWithoutThreeD, LookupAnswered, BypassAnswered, BypassUploaded, ChargeStep
<1>2. CASE \/ ReportCreated(r) \/ ReportLookup(r) \/ Save(r) \/ SaveFails(r) \/ SaveRepeated(r)
           \/ ReportUpdated(r)
  BY <1>2 DEF ReportCreated, ReportLookup, Save, SaveFails, SaveRepeated, ReportUpdated
<1>3. CASE Crash(r)
  BY <1>0, <1>3 DEF Crash, GoTo
<1>4. CASE CompleteAnswered(r)
  BY <1>0, <1>4 DEF CompleteAnswered, GoTo
<1>5. CASE DeleteCvv(r)
  BY <1>0, <1>5 DEF DeleteCvv, Settle, GoTo
<1>6. CASE RetrieveCvv(r)
  BY <1>0, <1>6 DEF RetrieveCvv, GoTo
<1>7. CASE StoreCvv(r)
  BY <1>0, <1>7 DEF StoreCvv, GoTo
<1> QED  BY <1>1, <1>2, <1>3, <1>4, <1>5, <1>6, <1>7 DEF Proceed

\* Once past the store, a request stays there.
LEMMA PastStoreKept ==
    ASSUME NEW r \in Request, OwnStep(r), Shape(r), NEW q \in Request, pc[q] \in PastStore
    PROVE  pc'[q] \in PastStore
<1>1. CASE q # r
  BY <1>1 DEF OwnStep
<1>2. CASE q = r
  BY <1>2, StepsOf DEF Shape, Retried, Settled, Thrown, Held, Uploaded, Written, Reported, Moved, Died,
                       PastStore, OwnStep, Active, TakingStep, ChargeStep, Ended
<1> QED  BY <1>1, <1>2

\* A step of r keeps CvvInv.
LEMMA CvvStepKept ==
    ASSUME "redis" \notin Faults, Ground, CvvInv, NEW r \in Request,
           Proceed(r) \/ SaveRepeated(r) \/ Crash(r)
    PROVE  CvvInv'
<1>0. /\ OwnStep(r) /\ Shape(r) /\ on[r] \in TxId /\ on' = on /\ kind' = kind
      /\ \A q \in Request \ {r} : pc'[q] = pc[q]
      /\ pc[r] \in Step /\ None \notin Request
      /\ cvv \in [TxId -> Request \cup {None}] /\ got \in [Request -> Request \cup {None}]
  BY StepShape, CvvStep, NoneAssumption DEF OwnStep, Ground, Typed, TypeOK, OnTransaction, Active
<1>1. \A q \in Request : pc[q] \in PastStore => pc'[q] \in PastStore
  BY <1>0, PastStoreKept
<1>2. /\ \A t \in TxId : cvv'[t] # None => pc'[cvv'[t]] \in PastStore
      /\ \A t \in TxId : cvv'[t] \in {cvv[t], None} \/ pc[cvv'[t]] \notin PastStore
  <2>1. CASE \A t \in TxId : cvv'[t] \in {cvv[t], None}
    BY <1>0, <1>1, <2>1 DEF CvvInv
  <2>2. CASE /\ pc[r] \in {"storeCvv", "lookupCvv"} /\ pc'[r] \in {"add", "update"}
             /\ cvv' = Stored(on[r], r)
    <3>1. \A t \in TxId : cvv'[t] = cvv[t] \/ cvv'[t] = r
      BY <1>0, <2>2 DEF Stored
    <3>2. pc[r] \notin PastStore /\ pc'[r] \in PastStore
      BY <2>2 DEF PastStore, Ended
    <3> QED  BY <1>0, <1>1, <3>1, <3>2 DEF CvvInv
  <2> QED  BY <1>0, <2>1, <2>2, CvvStep DEF Ground
<1>3. ASSUME NEW q \in Request, pc'[q] = "retrieveCvv" PROVE kind'[q] = "complete"
  <2>1. q # r
    BY <1>0, <1>3, StepsOf DEF Shape, Retried, Settled, Thrown, Held, Uploaded, Written, Reported, Moved,
                               Died, ChargeStep, LateStep
  <2> QED  BY <1>0, <1>3, <2>1 DEF CvvInv
<1>4. ASSUME NEW q \in Request, got'[q] # None
      PROVE  /\ kind'[q] = "complete" /\ pc'[got'[q]] \in PastStore
             /\ pc'[q] \in {"complete", "deleteCvv", "update", "biUpdated"} \cup Ended
             /\ pc'[q] \in {"update", "biUpdated", "done"} => cvv'[on'[q]] # got'[q]
  <2>1. CASE /\ q = r /\ pc[r] = "retrieveCvv" /\ pc'[r] = "complete"
             /\ got' = [got EXCEPT ![r] = cvv[on[r]]]
    <3>1. got'[q] = cvv[on[r]] /\ got'[q] \in Request
      BY <1>0, <1>4, <2>1
    <3> QED  BY <1>0, <1>1, <1>4, <2>1, <3>1 DEF CvvInv
  <2>2. CASE got'[q] = got[q]
    <3>1. /\ kind[q] = "complete" /\ pc[got[q]] \in PastStore /\ got[q] \in Request
          /\ pc[q] \in {"complete", "deleteCvv", "update", "biUpdated"} \cup Ended
      BY <1>0, <1>4, <2>2 DEF CvvInv
    <3>2. /\ pc'[q] \in {"complete", "deleteCvv", "update", "biUpdated"} \cup Ended
          /\ pc'[q] \in {"update", "biUpdated", "done"} =>
                pc[q] \in {"update", "biUpdated", "done"} \/ (q = r /\ pc[r] = "deleteCvv")
      <4>1. CASE q # r
        BY <1>0, <3>1, <4>1
      <4>2. CASE q = r
        <5>1. pc[r] \in {"complete", "deleteCvv", "update", "biUpdated"}
          BY <1>0, <3>1, <4>2, StepsOf
        <5>2. CASE pc[r] = "complete"
          BY <3>1, <4>2, <5>2, CvvStep DEF Ground, Ended
        <5>3. CASE pc[r] = "deleteCvv"
          BY <4>2, <5>3, CvvStep DEF Ground, Ended
        <5>4. CASE pc[r] \in {"update", "biUpdated"}
          BY <1>0, <4>2, <5>4 DEF Shape, Retried, Settled, Thrown, Held, Uploaded, Written, Reported,
                                  Moved, Died, TakingStep, ChargeStep, Ended
        <5> QED  BY <5>1, <5>2, <5>3, <5>4
      <4> QED  BY <4>1, <4>2
    <3>3. ASSUME pc'[q] \in {"update", "biUpdated", "done"} PROVE cvv'[on'[q]] # got'[q]
      <4>1. CASE q = r /\ pc[r] = "deleteCvv"
        <5>1. cvv' = [cvv EXCEPT ![on[r]] = None]
          BY <1>4, <2>2, <3>3, <4>1, CvvStep DEF Ground
        <5> QED  BY <1>0, <1>4, <4>1, <5>1
      <4>2. CASE pc[q] \in {"update", "biUpdated", "done"}
        <5>1. cvv[on[q]] # got[q]
          BY <1>4, <2>2, <4>2 DEF CvvInv, UsedCvvIsGone
        <5>2. on[q] \in TxId
          BY <4>2 DEF CvvInv, Ground, Typed, OnTransaction, Active, Step
        <5> QED  BY <1>0, <1>2, <1>4, <2>2, <3>1, <5>1, <5>2
      <4> QED  BY <3>2, <3>3, <4>1, <4>2
    <3> QED  BY <1>0, <1>1, <2>2, <3>1, <3>2, <3>3
  <2>3. \/ q = r /\ pc[r] = "retrieveCvv" /\ pc'[r] = "complete" /\ got' = [got EXCEPT ![r] = cvv[on[r]]]
        \/ got'[q] = got[q]
    BY <1>0, CvvStep DEF Ground
  <2> QED  BY <2>1, <2>2, <2>3
<1>5. \A q \in Request : pc'[q] = "done" => on'[q] \in TxId
  BY <1>0 DEF CvvInv
<1> QED  BY <1>2, <1>3, <1>4, <1>5 DEF CvvInv, UsedCvvIsGone

LEMMA CvvKept == "redis" \notin Faults /\ Ground /\ CvvInv /\ [Next]_vars => CvvInv'
<1> SUFFICES ASSUME "redis" \notin Faults, Ground, CvvInv, [Next]_vars PROVE CvvInv'
  OBVIOUS
<1>0. /\ cvv \in [TxId -> Request \cup {None}] /\ got \in [Request -> Request \cup {None}]
      /\ pc \in [Request -> {"idle"} \cup Step \cup Ended] /\ kind \in [Request -> Kind]
      /\ None \notin TxId
  BY NoneAssumption DEF Ground, Typed, TypeOK
<1>1. CASE UNCHANGED vars
  BY <1>1 DEF vars, CvvInv, UsedCvvIsGone
<1>2. ASSUME NEW t \in TxId, CvvExpires(t) PROVE CvvInv'
  <2>1. \A s \in TxId : cvv'[s] \in {cvv[s], None}
    BY <1>0, <1>2 DEF CvvExpires
  <2>2. UNCHANGED <<pc, kind, on, got>>
    BY <1>2 DEF CvvExpires
  <2>3. \A r \in Request : pc[r] \in {"update", "biUpdated", "done"} => on[r] \in TxId
    BY DEF CvvInv, Ground, Typed, OnTransaction, Active, Step
  <2> QED  BY <2>1, <2>2, <2>3 DEF CvvInv, UsedCvvIsGone
<1>3. ASSUME NEW r \in Request, Start(r) PROVE CvvInv'
  <2>1. pc[r] = "idle" /\ \A q \in Request \ {r} : pc'[q] = pc[q] /\ on'[q] = on[q]
    BY <1>3, StartShape DEF OwnStart, Ground
  <2>2. UNCHANGED <<cvv, got>> /\ \A q \in Request \ {r} : kind'[q] = kind[q]
    BY <1>0, <1>3 DEF Start, StartSale, LoadPending, LoadRefused
  <2>3. got[r] = None /\ pc[r] \notin PastStore
    BY <2>1, StepsOf DEF CvvInv, PastStore
  <2>4. pc'[r] = "retrieveCvv" => kind'[r] = "complete"
    BY <1>0, <1>3 DEF Start, StartSale, LoadPending, LoadRefused, GoTo, FirstStep, SaleKind, FollowUpKind
  <2>5. pc'[r] # "done"
    BY <1>0, <1>3 DEF Start, StartSale, LoadPending, LoadRefused, GoTo, FirstStep, SaleKind, FollowUpKind
  <2>6. \A q \in Request : q # r => pc'[q] = pc[q] /\ on'[q] = on[q] /\ kind'[q] = kind[q]
    BY <2>1, <2>2
  <2>7. \A q \in Request : pc[q] \in PastStore => pc'[q] \in PastStore
    BY <2>3, <2>6
  <2>8. /\ \A t \in TxId : cvv'[t] # None => pc'[cvv'[t]] \in PastStore
        /\ \A q \in Request : got'[q] # None => pc'[got'[q]] \in PastStore
    BY <1>0, <2>2, <2>7 DEF CvvInv
  <2> QED  BY <2>2, <2>3, <2>4, <2>5, <2>6, <2>8 DEF CvvInv, UsedCvvIsGone
<1>4. ASSUME NEW r \in Request, Proceed(r) \/ SaveRepeated(r) \/ Crash(r) PROVE CvvInv'
  BY <1>4, CvvStepKept
<1> QED  BY <1>1, <1>2, <1>3, <1>4 DEF Next

(* The CVV a complete retrieved is gone once it saves and never comes back, for
   any interleaving, crash, lost answer or failed save, while Redis answers. *)
THEOREM UsedCvvStaysGone == "redis" \notin Faults => (Spec => []UsedCvvIsGone)
<1> SUFFICES ASSUME "redis" \notin Faults PROVE Spec => []UsedCvvIsGone
  OBVIOUS
<1>1. Init => CvvInv
  BY DEF Init, CvvInv, UsedCvvIsGone
<1>2. CvvInv => UsedCvvIsGone
  BY DEF CvvInv
<1> QED  BY <1>1, <1>2, CvvKept, GroundAlways, PTL DEF Spec

==============================================================================
