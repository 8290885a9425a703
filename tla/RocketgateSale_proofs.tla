----------------------- MODULE RocketgateSale_proofs -------------------------
(***************************************************************************)
(* What holds of RocketgateSale for every set of requests, transactions,   *)
(* biller replies and faults, whether requests overlap or not.             *)
(***************************************************************************)
EXTENDS RocketgateSale, ChargeEntity_proofs

-----------------------------------------------------------------------------
(* Type correctness.  A running request has a transaction: without that a   *)
(* Redis access would be outside the domain of cvv.                         *)

OnTransaction == \A r \in Request : Active(r) => on[r] \in TxId

Typed == TypeOK /\ OnTransaction

\* Every answer carries a response of the service.
LEMMA AnswersType ==
    ASSUME NEW r \in Request, TypeOK, NEW a \in Answers(r)
    PROVE  /\ a.resp \in Response
           /\ a.took \in BOOLEAN
           /\ a.took => pc[r] \in TakingStep
           /\ a.resp.result # "aborted" => a.resp.payload
           /\ a.resp.result = "approved" /\ pc[r] \in TakingStep => a.took
<1>1. CASE \E reply \in BillerReplies, use3D \in Echo(r) :
             a = [resp |-> ResponseOf(reply, use3D),
                  took |-> reply.reason = "success" /\ pc[r] \in TakingStep]
  <2>1. PICK reply \in BillerReplies, use3D \in Echo(r) :
             a = [resp |-> ResponseOf(reply, use3D),
                  took |-> reply.reason = "success" /\ pc[r] \in TakingStep]
    BY <1>1
  <2>2. reply \in Reply
    BY RepliesAssumption
  <2>3. use3D \in BOOLEAN
    BY DEF Echo, TypeOK, Entity
  <2>4. /\ a.resp = ResponseOf(reply, use3D)
        /\ a.took = (reply.reason = "success" /\ pc[r] \in TakingStep)
    BY <2>1
  <2> QED  BY <2>2, <2>3, <2>4, ResponseOfType
<1>2. CASE \E took \in {x \in BOOLEAN : "noAnswer" \in Faults /\ (x => pc[r] \in TakingStep)} :
             a = [resp |-> Fallback, took |-> took]
  <2>1. PICK took \in BOOLEAN : /\ took => pc[r] \in TakingStep
                                /\ a = [resp |-> Fallback, took |-> took]
    BY <1>2
  <2>2. a.resp = Fallback /\ a.took = took
    BY <2>1
  <2>3. Fallback.result = "aborted"
    BY DEF Fallback
  <2> QED  BY <2>1, <2>2, <2>3, FallbackType
<1> QED  BY <1>1, <1>2 DEF Answers

LEMMA TakesType ==
    ASSUME NEW r \in Request, TypeOK, pc[r] \in CallStep, NEW took \in BOOLEAN, Takes(r, took)
    PROVE  captured' \in [TxId -> SUBSET Call]
<1>1. <<r, pc[r]>> \in Call
  BY DEF Call
<1>2. captured \in [TxId -> SUBSET Call]
  BY DEF TypeOK
<1> QED  BY <1>1, <1>2 DEF Takes

LEMMA GoToType ==
    ASSUME NEW r \in Request, TypeOK, NEW step \in {"idle"} \cup Step \cup Ended, GoTo(r, step)
    PROVE  /\ pc' \in [Request -> {"idle"} \cup Step \cup Ended]
           /\ pc'[r] = step
           /\ \A q \in Request \ {r} : pc'[q] = pc[q]
BY DEF TypeOK, GoTo

\* Settle keeps the entity well formed and goes to next or gives up.
LEMMA SettleType ==
    ASSUME NEW r \in Request, TypeOK, pc[r] \in CallStep \cup {"deleteCvv"},
           NEW e \in Entity(Call), NEW resp \in Response,
           NEW next \in Step, Settle(r, e, resp, next)
    PROVE  /\ mem' \in [Request -> Entity(Call)]
           /\ pc' \in [Request -> {"idle"} \cup Step \cup Ended]
           /\ \A q \in Request \ {r} : pc'[q] = pc[q] /\ mem'[q] = mem[q]
           /\ \/ /\ pc'[r] = next
                 /\ mem'[r] = UpdatedEntity(e, <<r, AnsweredCall(r)>>, resp, NsfFlow)
                 /\ ~UpdateThrows(e, resp, NsfFlow)
              \/ pc'[r] = "failed" /\ mem'[r] = mem[r]
<1>1. <<r, AnsweredCall(r)>> \in Call
  BY DEF AnsweredCall, Call, CallStep, TakingStep, ChargeStep
<1>2. NsfFlow \in BOOLEAN
  BY ModeAssumption
<1>3. mem \in [Request -> Entity(Call)]
  BY DEF TypeOK
<1>4. CASE ~UpdateThrows(e, resp, NsfFlow)
  <2>1. UpdatedEntity(e, <<r, AnsweredCall(r)>>, resp, NsfFlow) \in Entity(Call)
    BY <1>1, <1>2, <1>4, UpdatedEntityType
  <2>2. /\ mem' = [mem EXCEPT ![r] = UpdatedEntity(e, <<r, AnsweredCall(r)>>, resp, NsfFlow)]
        /\ GoTo(r, next)
    BY <1>4 DEF Settle
  <2> QED  BY <1>3, <1>4, <2>1, <2>2, GoToType
<1>5. CASE UpdateThrows(e, resp, NsfFlow)
  <2>1. GoTo(r, "failed") /\ mem' = mem
    BY <1>5 DEF Settle
  <2>2. "failed" \in Ended
    BY DEF Ended
  <2> QED  BY <1>3, <2>1, <2>2, GoToType
<1> QED  BY <1>4, <1>5

LEMMA InitTyped == Init => Typed
<1> SUFFICES ASSUME Init PROVE Typed
  OBVIOUS
<1>1. NoDocument \in Document(Call)
  BY DEF NoDocument, Document
<1>2. NewEntity(FALSE) \in Entity(Call)
  BY NewEntityType
<1>3. TypeOK
  BY <1>1, <1>2, FallbackType DEF Init, TypeOK, Kind, SaleKind, FollowUpKind
<1>4. OnTransaction
  BY DEF Init, OnTransaction, Active, Step, CallStep, TakingStep, ChargeStep
<1> QED  BY <1>3, <1>4 DEF Typed

\* The steps a handler starts with are steps.
LEMMA FirstStepType ==
    ASSUME NEW k \in Kind
    PROVE  FirstStep(k) \in Step
BY DEF FirstStep, Kind, SaleKind, FollowUpKind, Step, CallStep, TakingStep, ChargeStep

LEMMA StartTyped ==
    ASSUME Typed, NEW r \in Request, Start(r)
    PROVE  Typed'
<1>1. PICK t \in TxId :
        \/ \E k \in SaleKind, use3D \in BOOLEAN : StartSale(r, t, k, use3D)
        \/ \E k \in FollowUpKind : LoadPending(r, t, k) \/ LoadRefused(r, t, k)
  BY DEF Start
<1>2. ASSUME NEW k \in SaleKind, NEW use3D \in BOOLEAN, StartSale(r, t, k, use3D)
      PROVE  Typed'
  <2>1. k \in Kind /\ FirstStep(k) \in Step
    BY FirstStepType DEF Kind
  <2>2. NewEntity(use3D) \in Entity(Call)
    BY NewEntityType
  <2>3. TypeOK'
    BY <1>2, <2>1, <2>2 DEF StartSale, Typed, TypeOK, GoTo
  <2>4. OnTransaction'
    BY <1>2, <2>1 DEF StartSale, Typed, TypeOK, OnTransaction, Active, GoTo
  <2> QED  BY <2>3, <2>4 DEF Typed
<1>3. ASSUME NEW k \in FollowUpKind, LoadPending(r, t, k)
      PROVE  Typed'
  <2>1. k \in Kind /\ FirstStep(k) \in Step
    BY FirstStepType DEF Kind
  <2>2. doc[t] \in Document(Call) /\ doc[t].status = "pending"
    BY <1>3 DEF LoadPending, GoesOn, Typed, TypeOK
  <2>3. Hydrate(doc[t]) \in Entity(Call)
    BY <2>2, HydrateType
  <2>4. After(Hydrate(doc[t]).status, Abort) \in Status
    BY <2>2, AfterAbort DEF Hydrate, Status
  <2>5. Loaded(k, doc[t]) \in Entity(Call)
    BY <2>3, <2>4 DEF Loaded, Entity
  <2>6. TypeOK'
    BY <1>3, <2>1, <2>5 DEF LoadPending, Typed, TypeOK, GoTo, Ended
  <2>7. OnTransaction'
    BY <1>3, <2>1 DEF LoadPending, Typed, TypeOK, OnTransaction, Active, GoTo
  <2> QED  BY <2>6, <2>7 DEF Typed
<1>4. ASSUME NEW k \in FollowUpKind, LoadRefused(r, t, k)
      PROVE  Typed'
  <2>1. "rejected" \in Ended /\ "rejected" \notin Step /\ k \in Kind
    BY DEF Ended, Kind, Step, CallStep, TakingStep, ChargeStep
  <2>2. TypeOK'
    BY <1>4, <2>1 DEF LoadRefused, Typed, TypeOK, GoTo
  <2>3. OnTransaction'
    BY <1>4, <2>1 DEF LoadRefused, Typed, TypeOK, OnTransaction, Active, GoTo
  <2> QED  BY <2>2, <2>3 DEF Typed
<1> QED  BY <1>1, <1>2, <1>3, <1>4

\* A step of r that leaves on alone and r at a step, or ended, keeps OnTransaction.
LEMMA SameTransaction ==
    ASSUME Typed, NEW r \in Request, Active(r), on' = on,
           \A q \in Request \ {r} : pc'[q] = pc[q]
    PROVE  OnTransaction'
BY DEF Typed, TypeOK, OnTransaction, Active

\* The biller steps of a handler, retries apart: an answer, then Settle.
LEMMA SettleTyped ==
    ASSUME Typed, NEW r \in Request, pc[r] \in CallStep, NEW a \in Answers(r),
           NEW e \in Entity(Call), NEW next \in Step,
           Takes(r, a.took), Settle(r, e, a.resp, next),
           UNCHANGED <<doc, cvv, bi, kind, on, got>>, answer' \in [Request -> Response]
    PROVE  Typed'
<1>1. a.resp \in Response /\ a.took \in BOOLEAN
  BY AnswersType DEF Typed
<1>2. captured' \in [TxId -> SUBSET Call]
  BY <1>1, TakesType DEF Typed
<1>3. /\ mem' \in [Request -> Entity(Call)]
      /\ pc' \in [Request -> {"idle"} \cup Step \cup Ended]
      /\ \A q \in Request \ {r} : pc'[q] = pc[q]
  BY <1>1, SettleType DEF Typed
<1>4. TypeOK'
  BY <1>2, <1>3 DEF Typed, TypeOK
<1>5. OnTransaction'
  BY <1>3, SameTransaction DEF Active, Step
<1> QED  BY <1>4, <1>5 DEF Typed

\* The retries: an answer, then the entity is marked and another call is made.
LEMMA RetryTyped ==
    ASSUME Typed, NEW r \in Request, pc[r] \in CallStep, NEW a \in Answers(r),
           NEW e \in Entity(Call), NEW next \in Step,
           Takes(r, a.took), mem' = [mem EXCEPT ![r] = e], GoTo(r, next),
           UNCHANGED <<doc, cvv, bi, kind, on, got>>, answer' \in [Request -> Response]
    PROVE  Typed'
<1>1. captured' \in [TxId -> SUBSET Call]
  BY AnswersType, TakesType DEF Typed
<1>2. /\ pc' \in [Request -> {"idle"} \cup Step \cup Ended]
      /\ \A q \in Request \ {r} : pc'[q] = pc[q]
  BY GoToType DEF Typed
<1>3. TypeOK'
  BY <1>1, <1>2 DEF Typed, TypeOK
<1>4. OnTransaction'
  BY <1>2, SameTransaction DEF Active, Step
<1> QED  BY <1>3, <1>4 DEF Typed

LEMMA BillerStepTyped ==
    ASSUME Typed, NEW r \in Request,
           \/ ChargeRetriedWithThreeD(r) \/ ChargeRetriedWithoutThreeD(r) \/ ChargeAnswered(r)
           \/ CardUploaded(r) \/ LookupRetriedWithoutThreeD(r) \/ LookupAnswered(r)
           \/ BypassAnswered(r) \/ BypassUploaded(r) \/ CompleteAnswered(r)
    PROVE  Typed'
<1> USE DEF Step, CallStep, TakingStep, ChargeStep
<1>0. mem[r] \in Entity(Call) /\ answer \in [Request -> Response]
  BY DEF Typed, TypeOK
<1>1. CASE ChargeRetriedWithThreeD(r)
  <2>1. pc[r] \in ChargeStep
    BY <1>1 DEF ChargeRetriedWithThreeD
  <2>2. PICK a \in Answers(r) :
          Takes(r, a.took) /\ mem' = [mem EXCEPT ![r] = MarkedWithThreeD(@, <<r, pc[r]>>, a.resp)]
    BY <1>1 DEF ChargeRetriedWithThreeD
  <2>3. MarkedWithThreeD(mem[r], <<r, pc[r]>>, a.resp) \in Entity(Call)
    BY <1>0, <2>1, AnswersType, MarkedType DEF Typed, Call
  <2> HIDE DEF Step, CallStep, TakingStep, ChargeStep
  <2>4. pc[r] \in CallStep /\ "chargeWith3D" \in Step
    BY <2>1 DEF Step, CallStep, TakingStep, ChargeStep
  <2> QED  BY <1>0, <1>1, <2>2, <2>3, <2>4, RetryTyped DEF ChargeRetriedWithThreeD
<1>2. CASE ChargeRetriedWithoutThreeD(r)
  <2>1. pc[r] \in ChargeStep
    BY <1>2 DEF ChargeRetriedWithoutThreeD
  <2>2. PICK a \in Answers(r) :
          Takes(r, a.took) /\ mem' = [mem EXCEPT ![r] = MarkedWithoutThreeD(@, <<r, pc[r]>>, a.resp)]
    BY <1>2 DEF ChargeRetriedWithoutThreeD
  <2>3. MarkedWithoutThreeD(mem[r], <<r, pc[r]>>, a.resp) \in Entity(Call)
    BY <1>0, <2>1, AnswersType, MarkedType DEF Typed, Call
  <2> HIDE DEF Step, CallStep, TakingStep, ChargeStep
  <2>4. pc[r] \in CallStep /\ "chargeWithout3D" \in Step
    BY <2>1 DEF Step, CallStep, TakingStep, ChargeStep
  <2> QED  BY <1>0, <1>2, <2>2, <2>3, <2>4, RetryTyped DEF ChargeRetriedWithoutThreeD
<1>3. CASE ChargeAnswered(r)
  <2>1. PICK a \in Answers(r) :
          Takes(r, a.took) /\ Settle(r, mem[r], a.resp, AfterCharge(r, a.resp))
    BY <1>3 DEF ChargeAnswered
  <2>2. pc[r] \in CallStep /\ AfterCharge(r, a.resp) \in Step
    BY <1>3 DEF ChargeAnswered, AfterCharge
  <2> HIDE DEF Step, CallStep, TakingStep, ChargeStep
  <2> QED  BY <1>0, <1>3, <2>1, <2>2, SettleTyped DEF ChargeAnswered
<1>4. CASE CardUploaded(r)
  <2>1. PICK a \in Answers(r) : Takes(r, a.took) /\ Settle(r, mem[r], a.resp, "update")
    BY <1>4 DEF CardUploaded
  <2>2. pc[r] \in CallStep /\ "update" \in Step
    BY <1>4 DEF CardUploaded
  <2> HIDE DEF Step, CallStep, TakingStep, ChargeStep
  <2> QED  BY <1>0, <1>4, <2>1, <2>2, SettleTyped DEF CardUploaded
<1>5. CASE LookupRetriedWithoutThreeD(r)
  <2>1. PICK a \in Answers(r) :
          Takes(r, a.took) /\ mem' = [mem EXCEPT ![r] = MarkedWithoutThreeD(@, <<r, pc[r]>>, a.resp)]
    BY <1>5 DEF LookupRetriedWithoutThreeD
  <2>2. pc[r] \in CallStep /\ "bypass" \in Step
    BY <1>5 DEF LookupRetriedWithoutThreeD
  <2>3. MarkedWithoutThreeD(mem[r], <<r, pc[r]>>, a.resp) \in Entity(Call)
    BY <1>0, <2>2, AnswersType, MarkedType DEF Typed, Call
  <2> HIDE DEF Step, CallStep, TakingStep, ChargeStep
  <2> QED  BY <1>0, <1>5, <2>1, <2>2, <2>3, RetryTyped DEF LookupRetriedWithoutThreeD
<1>6. CASE LookupAnswered(r)
  <2> DEFINE e == [mem[r] EXCEPT !.with3D = TRUE]
  <2>1. PICK a \in Answers(r) :
          /\ Takes(r, a.took)
          /\ Settle(r, e, a.resp, IF ThreeDsAuthIsRequired(a.resp) THEN "lookupCvv" ELSE "lookupBi")
    BY <1>6 DEF LookupAnswered
  <2>2. pc[r] \in CallStep /\ (IF ThreeDsAuthIsRequired(a.resp) THEN "lookupCvv" ELSE "lookupBi") \in Step
    BY <1>6 DEF LookupAnswered
  <2>3. e \in Entity(Call)
    BY <1>0 DEF Entity
  <2> HIDE DEF Step, CallStep, TakingStep, ChargeStep, e
  <2> QED  BY <1>0, <1>6, <2>1, <2>2, <2>3, SettleTyped DEF LookupAnswered
<1>7. CASE BypassAnswered(r)
  <2>1. PICK a \in Answers(r), next \in {"lookupBi", "bypassUpload"} :
          Takes(r, a.took) /\ Settle(r, mem[r], a.resp, next)
    BY <1>7 DEF BypassAnswered
  <2>2. pc[r] \in CallStep /\ next \in Step
    BY <1>7 DEF BypassAnswered
  <2> HIDE DEF Step, CallStep, TakingStep, ChargeStep
  <2> QED  BY <1>0, <1>7, <2>1, <2>2, SettleTyped DEF BypassAnswered
<1>8. CASE BypassUploaded(r)
  <2>1. PICK a \in Answers(r) :
          /\ Takes(r, a.took)
          /\ mem' = [mem EXCEPT ![r].ixn = Recorded(mem[r], <<r, pc[r]>>, a.resp)]
    BY <1>8 DEF BypassUploaded
  <2>2. pc[r] \in CallStep /\ "lookupBi" \in Step
    BY <1>8 DEF BypassUploaded
  <2> DEFINE e == [mem[r] EXCEPT !.ixn = Recorded(mem[r], <<r, pc[r]>>, a.resp)]
  <2>3. Recorded(mem[r], <<r, pc[r]>>, a.resp) \in SUBSET Interaction(Call)
    BY <1>0, <2>2, AnswersType, RecordedType DEF Typed, Call
  <2>4. e \in Entity(Call) /\ mem' = [mem EXCEPT ![r] = e]
    BY <1>0, <2>1, <2>3 DEF Entity
  <2> HIDE DEF Step, CallStep, TakingStep, ChargeStep, e
  <2> QED  BY <1>0, <1>8, <2>1, <2>2, <2>4, RetryTyped DEF BypassUploaded
<1>9. CASE CompleteAnswered(r)
  <2>1. PICK a \in Answers(r) :
          /\ Takes(r, a.took)
          /\ \/ /\ answer' = [answer EXCEPT ![r] = a.resp]
                /\ GoTo(r, "deleteCvv")
                /\ mem' = mem
             \/ /\ Settle(r, mem[r], a.resp, "update")
                /\ answer' = answer
    BY <1>9 DEF CompleteAnswered
  <2>2. pc[r] \in CallStep /\ "update" \in Step /\ "deleteCvv" \in Step
    BY <1>9 DEF CompleteAnswered
  <2>3. a.resp \in Response
    BY AnswersType DEF Typed
  <2>4. mem' = mem => mem' = [mem EXCEPT ![r] = mem[r]]
    BY DEF Typed, TypeOK
  <2>5. answer' \in [Request -> Response]
    BY <1>0, <2>1, <2>3
  <2> HIDE DEF Step, CallStep, TakingStep, ChargeStep
  <2>6. UNCHANGED <<doc, cvv, bi, kind, on, got>>
    BY <1>9 DEF CompleteAnswered
  <2> QED  BY <1>0, <2>1, <2>2, <2>4, <2>5, <2>6, SettleTyped, RetryTyped
<1> QED  BY <1>1, <1>2, <1>3, <1>4, <1>5, <1>6, <1>7, <1>8, <1>9

\* The steps that do not wait for the biller.
LEMMA OwnStepTyped ==
    ASSUME Typed, NEW r \in Request,
           \/ ReportCreated(r) \/ ReportLookup(r) \/ StoreCvv(r) \/ RetrieveCvv(r)
           \/ DeleteCvv(r) \/ Save(r) \/ SaveFails(r) \/ SaveRepeated(r) \/ ReportUpdated(r)
           \/ Crash(r)
    PROVE  Typed'
<1> USE DEF Step, CallStep, TakingStep, ChargeStep, Ended
<1>0. /\ mem[r] \in Entity(Call) /\ mem[r].status \in Status
      /\ Active(r) => on[r] \in TxId
      /\ ToDocument(mem[r]) \in Document(Call)
  BY ToDocumentType DEF Typed, TypeOK, Entity, OnTransaction
<1>1. CASE ReportCreated(r)
  <2>1. Active(r)
    BY <1>1 DEF ReportCreated, Active
  <2>2. TypeOK'
    BY <1>0, <1>1, <2>1 DEF ReportCreated, Typed, TypeOK, GoTo
  <2> QED  BY <1>1, <2>1, <2>2, SameTransaction DEF ReportCreated, GoTo, Typed, TypeOK
<1>2. CASE ReportLookup(r)
  <2>1. Active(r)
    BY <1>2 DEF ReportLookup, Active
  <2>2. TypeOK'
    BY <1>0, <1>2, <2>1 DEF ReportLookup, Typed, TypeOK, GoTo
  <2> QED  BY <1>2, <2>1, <2>2, SameTransaction DEF ReportLookup, GoTo, Typed, TypeOK
<1>3. CASE StoreCvv(r)
  <2>1. Active(r)
    BY <1>3 DEF StoreCvv, Active
  <2>2. TypeOK'
    BY <1>0, <1>3, <2>1 DEF StoreCvv, Stored, Typed, TypeOK, GoTo
  <2> QED  BY <1>3, <2>1, <2>2, SameTransaction DEF StoreCvv, GoTo, Typed, TypeOK
<1>4. CASE RetrieveCvv(r)
  <2>1. Active(r)
    BY <1>4 DEF RetrieveCvv, Active
  <2>2. TypeOK'
    BY <1>0, <1>4, <2>1 DEF RetrieveCvv, Typed, TypeOK, GoTo
  <2> QED  BY <1>4, <2>1, <2>2, SameTransaction DEF RetrieveCvv, GoTo, Typed, TypeOK
<1>5. CASE DeleteCvv(r)
  <2>1. Active(r) /\ pc[r] = "deleteCvv" /\ "update" \in Step
    BY <1>5 DEF DeleteCvv, Active
  <2>2. cvv' \in [TxId -> Request \cup {None}]
    BY <1>5 DEF DeleteCvv, Typed, TypeOK
  <2>3. answer[r] \in Response /\ Settle(r, mem[r], answer[r], "update")
    BY <1>5 DEF DeleteCvv, Typed, TypeOK
  <2> HIDE DEF Step, CallStep, TakingStep, ChargeStep, Ended
  <2>4. /\ mem' \in [Request -> Entity(Call)]
        /\ pc' \in [Request -> {"idle"} \cup Step \cup Ended]
        /\ \A q \in Request \ {r} : pc'[q] = pc[q]
    BY <1>0, <2>1, <2>3, SettleType DEF Typed
  <2>5. TypeOK'
    BY <1>5, <2>2, <2>4 DEF DeleteCvv, Typed, TypeOK
  <2> QED  BY <1>5, <2>1, <2>4, <2>5, SameTransaction DEF DeleteCvv, Typed
<1>6. CASE Save(r)
  <2>1. Active(r)
    BY <1>6 DEF Save, Active
  <2>2. TypeOK'
    BY <1>0, <1>6, <2>1 DEF Save, Typed, TypeOK, GoTo
  <2> QED  BY <1>6, <2>1, <2>2, SameTransaction DEF Save, GoTo, Typed, TypeOK
<1>7. CASE SaveFails(r)
  <2>1. Active(r)
    BY <1>7 DEF SaveFails, Active
  <2>2. TypeOK'
    BY <1>0, <1>7, <2>1 DEF SaveFails, Typed, TypeOK, GoTo
  <2> QED  BY <1>7, <2>1, <2>2, SameTransaction DEF SaveFails, GoTo, Typed, TypeOK
<1>8. CASE ReportUpdated(r)
  <2>1. Active(r)
    BY <1>8 DEF ReportUpdated, Active
  <2>2. TypeOK'
    BY <1>0, <1>8, <2>1 DEF ReportUpdated, Typed, TypeOK, GoTo
  <2> QED  BY <1>8, <2>1, <2>2, SameTransaction DEF ReportUpdated, GoTo, Typed, TypeOK
<1>9. CASE Crash(r)
  <2>1. TypeOK'
    BY <1>9 DEF Crash, Typed, TypeOK, GoTo
  <2> QED  BY <1>9, <2>1, SameTransaction DEF Crash, GoTo, Typed, TypeOK
<1>10. CASE SaveRepeated(r)
  <2>1. Active(r)
    BY <1>10 DEF SaveRepeated, Active
  <2>2. TypeOK'
    BY <1>0, <1>10, <2>1 DEF SaveRepeated, Typed, TypeOK
  <2> QED  BY <1>10, <2>1, <2>2, SameTransaction DEF SaveRepeated, Typed, TypeOK
<1> QED  BY <1>1, <1>2, <1>3, <1>4, <1>5, <1>6, <1>7, <1>8, <1>9, <1>10

LEMMA NextTyped == Typed /\ [Next]_vars => Typed'
<1> SUFFICES ASSUME Typed, [Next]_vars PROVE Typed'
  OBVIOUS
<1>1. CASE UNCHANGED vars
  BY <1>1 DEF vars, Typed, TypeOK, OnTransaction, Active
<1>2. ASSUME NEW t \in TxId, CvvExpires(t) PROVE Typed'
  BY <1>2 DEF CvvExpires, Typed, TypeOK, OnTransaction, Active
<1>3. ASSUME NEW r \in Request, Start(r) \/ Proceed(r) \/ SaveRepeated(r) \/ Crash(r) PROVE Typed'
  BY <1>3, StartTyped, BillerStepTyped, OwnStepTyped DEF Proceed
<1> QED  BY <1>1, <1>2, <1>3 DEF Next

(* Every reachable state is well typed, and a running handler always has the
   transaction it works on: no step of any interleaving or fault leaves the
   values the code's own types allow. *)
THEOREM TypeCorrect == Spec => []TypeOK
<1>1. Spec => []Typed
  BY InitTyped, NextTyped, PTL DEF Spec
<1>2. Typed => TypeOK
  BY DEF Typed
<1> QED  BY <1>1, <1>2, PTL

-----------------------------------------------------------------------------
(* The status of a document is founded: Founded is inductive.              *)

\* Interactions and money taken only grow, and keep a status founded.
LEMMA FoundedGrows ==
    ASSUME NEW d, NEW d2, d2.status = d.status, d.ixn \subseteq d2.ixn,
           NEW taken, NEW taken2, taken \subseteq taken2
    PROVE  /\ Backed(d) => Backed(d2)
           /\ Paid(d, taken) => Paid(d2, taken2)
BY DEF Backed, HasResult, Paid

(* An update leaves a founded entity if the response is: it carries a payload
   unless it is the fallback, and an approval that counts was paid for. *)
LEMMA UpdateFounded ==
    ASSUME NEW e \in Entity(Call), NEW c \in Call, NEW resp \in Response, NEW taken,
           ~UpdateThrows(e, resp, NsfFlow),
           Backed(e) \/ (e.status = "pending" /\ ~e.nsf),
           Paid(e, taken),
           resp.result # "aborted" => resp.payload,
           resp.result = "approved" => FrozenByNsf(e, NsfFlow) \/ c \in taken
    PROVE  /\ Backed(UpdatedEntity(e, c, resp, NsfFlow))
           /\ Paid(UpdatedEntity(e, c, resp, NsfFlow), taken)
<1> DEFINE u == UpdatedEntity(e, c, resp, NsfFlow)
           i == [call |-> c, result |-> resp.result]
<1>1. /\ u.ixn = Recorded(e, c, resp)
      /\ u.status = IF FrozenByNsf(e, NsfFlow) \/ resp.result = "pending"
                    THEN e.status ELSE resp.result
  BY UpdatedEntityType, ModeAssumption
<1>2. e.ixn \subseteq Recorded(e, c, resp) /\ (resp.payload => i \in Recorded(e, c, resp))
  BY RecordedType
<1>3. e.ixn \subseteq u.ixn /\ (resp.payload => i \in u.ixn)
  BY <1>1, <1>2
<1>4. i.call = c /\ i.result = resp.result /\ resp.result \in Result
  BY DEF Response
<1> HIDE DEF u, i
<1>5. CASE FrozenByNsf(e, NsfFlow)
  <2>1. Backed(e)
    BY <1>5 DEF FrozenByNsf
  <2>2. u.status = e.status
    BY <1>1, <1>5
  <2> QED  BY <1>3, <2>1, <2>2, FoundedGrows DEF u
<1>6. CASE ~FrozenByNsf(e, NsfFlow) /\ resp.result = "pending"
  <2>1. u.status = e.status
    BY <1>1, <1>6
  <2>2. Paid(u, taken)
    BY <1>3, <2>1, FoundedGrows
  <2>3. HasResult(u, "pending")
    BY <1>3, <1>4, <1>6 DEF HasResult
  <2>4. Backed(u)
    BY <1>3, <2>1, <2>3, FoundedGrows DEF Backed
  <2> QED  BY <2>2, <2>4 DEF u
<1>7. CASE ~FrozenByNsf(e, NsfFlow) /\ resp.result # "pending"
  <2>1. u.status = resp.result
    BY <1>1, <1>7
  <2>2. u.status # "aborted" => HasResult(u, u.status)
    BY <1>3, <1>4, <2>1 DEF HasResult
  <2>3. Backed(u)
    BY <2>2 DEF Backed
  <2>4. Paid(u, taken)
    BY <1>3, <1>4, <1>7, <2>1 DEF Paid
  <2> QED  BY <2>3, <2>4 DEF u
<1> QED  BY <1>5, <1>6, <1>7

(* A step of r keeps Founded if it takes no money back, touches no other
   request's memory, saves only what is founded and leaves r founded. *)
LEMMA StepFounded ==
    ASSUME Founded, NEW r \in Request,
           \A t \in TxId : captured[t] \subseteq captured'[t],
           \A q \in Request \ {r} : /\ pc'[q] = pc[q] /\ on'[q] = on[q]
                                    /\ mem'[q] = mem[q] /\ answer'[q] = answer[q],
           \A t \in TxId : \/ doc'[t] = doc[t]
                           \/ Backed(doc'[t]) /\ Paid(doc'[t], captured'[t]),
           Active(r)' => MemoryIsFounded(r)'
    PROVE  Founded'
<1>1. StatusIsRecorded'
  BY DEF Founded, StatusIsRecorded, Backed, HasResult
<1>2. ApprovedIsPaid'
  BY DEF Founded, ApprovedIsPaid, Paid
<1>3. ASSUME NEW q \in Request \ {r}, Active(q)'
      PROVE  MemoryIsFounded(q)'
  <2>1. Active(q) /\ MemoryIsFounded(q)
    BY <1>3 DEF Founded, Active
  <2>2. captured[on[q]] \subseteq captured'[on[q]]
    BY <2>1 DEF MemoryIsFounded
  <2> QED  BY <1>3, <2>1, <2>2, FoundedGrows DEF MemoryIsFounded
<1> QED  BY <1>1, <1>2, <1>3 DEF Founded

LEMMA TakesGrows ==
    ASSUME NEW r \in Request, TypeOK, NEW took \in BOOLEAN, on[r] \in TxId, Takes(r, took)
    PROVE  /\ \A t \in TxId : captured[t] \subseteq captured'[t]
           /\ took => <<r, pc[r]>> \in captured'[on[r]]
BY DEF TypeOK, Takes

\* Where Settle leads: steps at which no more is asked of the entity than to be founded.
RestStep == Step \ (ChargeStep \cup {"upload", "deleteCvv"})

\* r is left founded by a step to a RestStep, or by ending.
LEMMA RestFounded ==
    ASSUME NEW r \in Request, Active(r)' => pc'[r] \in RestStep, on'[r] \in TxId,
           Backed(mem'[r]), Paid(mem'[r], captured'[on'[r]])
    PROVE  Active(r)' => MemoryIsFounded(r)'
BY DEF Active, MemoryIsFounded, RestStep, Backed, Paid, HasResult

\* A biller answer that Settle takes leaves everything founded.
LEMMA SettleFounded ==
    ASSUME Typed, Founded, NEW r \in Request, pc[r] \in TakingStep \cup {"upload"},
           NEW a \in Answers(r), NEW e \in Entity(Call),
           e.status = mem[r].status, e.ixn = mem[r].ixn, e.nsf = mem[r].nsf,
           NEW next \in RestStep, Takes(r, a.took), Settle(r, e, a.resp, next),
           UNCHANGED <<doc, on>>,
           \A q \in Request \ {r} : answer'[q] = answer[q]
    PROVE  Founded'
<1> DEFINE c == <<r, pc[r]>>
<1>1. /\ Active(r) /\ pc[r] \in CallStep /\ c \in Call
      /\ AnsweredCall(r) = pc[r] /\ next \in Step
  BY DEF Active, Step, CallStep, TakingStep, ChargeStep, Call, AnsweredCall, RestStep
<1>2. MemoryIsFounded(r) /\ on[r] \in TxId
  BY <1>1 DEF Founded, MemoryIsFounded
<1>3. /\ a.resp \in Response /\ a.took \in BOOLEAN
      /\ a.resp.result # "aborted" => a.resp.payload
      /\ a.resp.result = "approved" /\ pc[r] \in TakingStep => a.took
  BY AnswersType DEF Typed
<1>4. /\ \A t \in TxId : captured[t] \subseteq captured'[t]
      /\ a.took => c \in captured'[on[r]]
  BY <1>2, <1>3, TakesGrows DEF Typed
<1>5. /\ \A q \in Request \ {r} : pc'[q] = pc[q] /\ mem'[q] = mem[q]
      /\ \/ /\ pc'[r] = next
            /\ mem'[r] = UpdatedEntity(e, c, a.resp, NsfFlow)
            /\ ~UpdateThrows(e, a.resp, NsfFlow)
         \/ pc'[r] = "failed"
  BY <1>1, <1>3, SettleType DEF Typed
<1>6. CASE pc'[r] = "failed"
  <2>1. ~Active(r)'
    BY <1>6 DEF Active, Step, CallStep, TakingStep, ChargeStep
  <2> QED  BY <1>4, <1>5, <2>1, StepFounded
<1>7. CASE /\ pc'[r] = next
           /\ mem'[r] = UpdatedEntity(e, c, a.resp, NsfFlow)
           /\ ~UpdateThrows(e, a.resp, NsfFlow)
  <2>1. Backed(e) \/ (e.status = "pending" /\ ~e.nsf)
    BY <1>2 DEF MemoryIsFounded, Backed, HasResult
  <2>2. Paid(e, captured'[on[r]])
    BY <1>2, <1>4 DEF MemoryIsFounded, Paid
  <2>3. a.resp.result = "approved" => FrozenByNsf(e, NsfFlow) \/ c \in captured'[on[r]]
    BY <1>2, <1>3, <1>4 DEF MemoryIsFounded, FrozenByNsf
  <2> HIDE DEF c
  <2>4. Backed(mem'[r]) /\ Paid(mem'[r], captured'[on[r]])
    BY <1>1, <1>3, <1>7, <2>1, <2>2, <2>3, UpdateFounded
  <2>5. Active(r)' => MemoryIsFounded(r)'
    BY <1>2, <1>7, <2>4, RestFounded
  <2> QED  BY <1>4, <1>5, <2>5, StepFounded
<1> QED  BY <1>5, <1>6, <1>7

\* A retry, or an upload that only adds interactions, leaves everything founded.
LEMMA RetryFounded ==
    ASSUME Typed, Founded, NEW r \in Request, pc[r] \in CallStep,
           NEW a \in Answers(r), NEW e \in Entity(Call),
           e.status = mem[r].status, mem[r].ixn \subseteq e.ixn, e.nsf = mem[r].nsf,
           NEW next \in Step \ {"upload", "deleteCvv"}, next \in ChargeStep <=> pc[r] \in ChargeStep,
           Takes(r, a.took), mem' = [mem EXCEPT ![r] = e], GoTo(r, next),
           UNCHANGED <<doc, on, answer>>
    PROVE  Founded'
<1>1. Active(r)
  BY DEF Active, Step
<1>2. MemoryIsFounded(r) /\ on[r] \in TxId
  BY <1>1 DEF Founded, MemoryIsFounded
<1>3. \A t \in TxId : captured[t] \subseteq captured'[t]
  BY <1>2, AnswersType, TakesGrows DEF Typed
<1>4. /\ pc'[r] = next /\ mem'[r] = e
      /\ \A q \in Request \ {r} : pc'[q] = pc[q] /\ mem'[q] = mem[q]
  BY DEF Typed, TypeOK, GoTo
<1>5. Paid(e, captured'[on[r]]) /\ (next \notin ChargeStep => Backed(e))
  BY <1>2, <1>3, FoundedGrows DEF MemoryIsFounded
<1>6. MemoryIsFounded(r)'
  BY <1>2, <1>4, <1>5 DEF MemoryIsFounded
<1> QED  BY <1>3, <1>4, <1>6, StepFounded

LEMMA InitFounded == Init => Founded
BY DEF Init, Founded, StatusIsRecorded, ApprovedIsPaid, Backed, Paid, NoDocument,
       Active, Step, CallStep, TakingStep, ChargeStep

LEMMA StartFounded ==
    ASSUME Typed, Founded, NEW r \in Request, Start(r)
    PROVE  Founded'
<1>1. PICK t \in TxId :
        \/ \E k \in SaleKind, use3D \in BOOLEAN : StartSale(r, t, k, use3D)
        \/ \E k \in FollowUpKind : LoadPending(r, t, k) \/ LoadRefused(r, t, k)
  BY DEF Start
<1>2. ASSUME NEW k \in SaleKind, NEW use3D \in BOOLEAN, StartSale(r, t, k, use3D)
      PROVE  Founded'
  <2>1. /\ pc'[r] = "charge" /\ mem'[r] = NewEntity(use3D) /\ on'[r] = t
        /\ \A q \in Request \ {r} : pc'[q] = pc[q] /\ mem'[q] = mem[q] /\ on'[q] = on[q]
    BY <1>2 DEF StartSale, GoTo, FirstStep, SaleKind, Typed, TypeOK
  <2>2. MemoryIsFounded(r)'
    BY <2>1 DEF MemoryIsFounded, NewEntity, Paid, ChargeStep
  <2> QED  BY <1>2, <2>1, <2>2, StepFounded DEF StartSale
<1>3. ASSUME NEW k \in FollowUpKind, LoadPending(r, t, k)
      PROVE  Founded'
  <2> DEFINE step == IF k = "lookup" /\ doc[t].ixn = {} THEN "failed" ELSE FirstStep(k)
  <2>1. /\ pc'[r] = step /\ mem'[r] = Loaded(k, doc[t]) /\ on'[r] = t
        /\ \A q \in Request \ {r} : pc'[q] = pc[q] /\ mem'[q] = mem[q] /\ on'[q] = on[q]
        /\ UNCHANGED <<doc, captured, answer>>
    BY <1>3 DEF LoadPending, GoTo, Typed, TypeOK
  <2>2. doc[t].status = "pending" /\ Backed(doc[t])
    BY <1>3 DEF LoadPending, GoesOn, Founded, StatusIsRecorded
  <2>3. step \in {"failed", "retrieveCvv", "complete", "lookup", "update"}
    BY DEF FirstStep, FollowUpKind, SaleKind
  <2>4. /\ Loaded(k, doc[t]).ixn = doc[t].ixn
        /\ Loaded(k, doc[t]).status \in {"pending", "aborted"}
    BY <2>2, AfterAbort DEF Loaded, Hydrate
  <2>5. Backed(Loaded(k, doc[t])) /\ Paid(Loaded(k, doc[t]), captured[t])
    BY <2>2, <2>4 DEF Backed, HasResult, Paid
  <2>6. Active(r)' => pc'[r] \in RestStep
    BY <2>1, <2>3 DEF Active, RestStep, Step, CallStep, TakingStep, ChargeStep
  <2> HIDE DEF step
  <2>7. Active(r)' => MemoryIsFounded(r)'
    BY <2>1, <2>5, <2>6, RestFounded
  <2> QED  BY <2>1, <2>7, StepFounded
<1>4. ASSUME NEW k \in FollowUpKind, LoadRefused(r, t, k)
      PROVE  Founded'
  <2>1. ~Active(r)'
    BY <1>4 DEF LoadRefused, GoTo, Typed, TypeOK, Active, Step, CallStep, TakingStep, ChargeStep
  <2> QED  BY <1>4, <2>1, StepFounded DEF LoadRefused, GoTo, Typed, TypeOK
<1> QED  BY <1>1, <1>2, <1>3, <1>4

LEMMA BillerStepFounded ==
    ASSUME Typed, Founded, NEW r \in Request,
           \/ ChargeRetriedWithThreeD(r) \/ ChargeRetriedWithoutThreeD(r) \/ ChargeAnswered(r)
           \/ CardUploaded(r) \/ LookupRetriedWithoutThreeD(r) \/ LookupAnswered(r)
           \/ BypassAnswered(r) \/ BypassUploaded(r) \/ CompleteAnswered(r)
    PROVE  Founded'
<1>0. mem[r] \in Entity(Call) /\ answer \in [Request -> Response]
  BY DEF Typed, TypeOK
<1>1. CASE ChargeRetriedWithThreeD(r)
  <2>1. PICK a \in Answers(r) :
          Takes(r, a.took) /\ mem' = [mem EXCEPT ![r] = MarkedWithThreeD(@, <<r, pc[r]>>, a.resp)]
    BY <1>1 DEF ChargeRetriedWithThreeD
  <2>2. pc[r] \in ChargeStep
    BY <1>1 DEF ChargeRetriedWithThreeD
  <2>3. pc[r] \in CallStep /\ "chargeWith3D" \in ChargeStep
                           /\ "chargeWith3D" \in Step \ {"upload", "deleteCvv"}
    BY <2>2 DEF Step, CallStep, TakingStep, ChargeStep
  <2> DEFINE e == MarkedWithThreeD(mem[r], <<r, pc[r]>>, a.resp)
  <2>4. e \in Entity(Call)
    BY <1>0, <2>3, AnswersType, MarkedType DEF Typed, Call
  <2>5. mem[r].ixn \subseteq e.ixn /\ e.status = mem[r].status /\ e.nsf = mem[r].nsf
    BY <1>0 DEF MarkedWithThreeD, Recorded, Entity
  <2> HIDE DEF e
  <2>6. mem' = [mem EXCEPT ![r] = e]
    BY <2>1 DEF e
  <2>7. GoTo(r, "chargeWith3D") /\ UNCHANGED <<doc, on, answer>>
    BY <1>1 DEF ChargeRetriedWithThreeD
  <2> QED  BY <2>1, <2>2, <2>3, <2>4, <2>5, <2>6, <2>7, RetryFounded
<1>2. CASE ChargeRetriedWithoutThreeD(r)
  <2>1. PICK a \in Answers(r) :
          Takes(r, a.took) /\ mem' = [mem EXCEPT ![r] = MarkedWithoutThreeD(@, <<r, pc[r]>>, a.resp)]
    BY <1>2 DEF ChargeRetriedWithoutThreeD
  <2>2. pc[r] \in ChargeStep
    BY <1>2 DEF ChargeRetriedWithoutThreeD
  <2>3. pc[r] \in CallStep /\ "chargeWithout3D" \in ChargeStep
                           /\ "chargeWithout3D" \in Step \ {"upload", "deleteCvv"}
    BY <2>2 DEF Step, CallStep, TakingStep, ChargeStep
  <2> DEFINE e == MarkedWithoutThreeD(mem[r], <<r, pc[r]>>, a.resp)
  <2>4. e \in Entity(Call)
    BY <1>0, <2>3, AnswersType, MarkedType DEF Typed, Call
  <2>5. mem[r].ixn \subseteq e.ixn /\ e.status = mem[r].status /\ e.nsf = mem[r].nsf
    BY <1>0 DEF MarkedWithoutThreeD, Recorded, Entity
  <2> HIDE DEF e
  <2>6. mem' = [mem EXCEPT ![r] = e]
    BY <2>1 DEF e
  <2>7. GoTo(r, "chargeWithout3D") /\ UNCHANGED <<doc, on, answer>>
    BY <1>2 DEF ChargeRetriedWithoutThreeD
  <2> QED  BY <2>1, <2>2, <2>3, <2>4, <2>5, <2>6, <2>7, RetryFounded
<1>3. CASE ChargeAnswered(r)
  <2>1. PICK a \in Answers(r) :
          Takes(r, a.took) /\ Settle(r, mem[r], a.resp, AfterCharge(r, a.resp))
    BY <1>3 DEF ChargeAnswered
  <2>2. pc[r] \in TakingStep \cup {"upload"} /\ AfterCharge(r, a.resp) \in RestStep
    BY <1>3 DEF ChargeAnswered, AfterCharge, RestStep, Step, CallStep, TakingStep, ChargeStep
  <2> QED  BY <1>0, <1>3, <2>1, <2>2, SettleFounded DEF ChargeAnswered
<1>4. CASE CardUploaded(r)
  <2>1. PICK a \in Answers(r) : Takes(r, a.took) /\ Settle(r, mem[r], a.resp, "update")
    BY <1>4 DEF CardUploaded
  <2>2. pc[r] \in TakingStep \cup {"upload"} /\ "update" \in RestStep
    BY <1>4 DEF CardUploaded, RestStep, Step, CallStep, TakingStep, ChargeStep
  <2> QED  BY <1>0, <1>4, <2>1, <2>2, SettleFounded DEF CardUploaded
<1>5. CASE LookupRetriedWithoutThreeD(r)
  <2>1. PICK a \in Answers(r) :
          Takes(r, a.took) /\ mem' = [mem EXCEPT ![r] = MarkedWithoutThreeD(@, <<r, pc[r]>>, a.resp)]
    BY <1>5 DEF LookupRetriedWithoutThreeD
  <2>2. /\ pc[r] \in CallStep /\ pc[r] \notin ChargeStep
        /\ "bypass" \in Step \ {"upload", "deleteCvv"} /\ "bypass" \notin ChargeStep
    BY <1>5 DEF LookupRetriedWithoutThreeD, Step, CallStep, TakingStep, ChargeStep
  <2> DEFINE e == MarkedWithoutThreeD(mem[r], <<r, pc[r]>>, a.resp)
  <2>3. e \in Entity(Call)
    BY <1>0, <2>2, AnswersType, MarkedType DEF Typed, Call
  <2>4. mem[r].ixn \subseteq e.ixn /\ e.status = mem[r].status /\ e.nsf = mem[r].nsf
    BY <1>0 DEF MarkedWithoutThreeD, Recorded, Entity
  <2> HIDE DEF e
  <2>5. mem' = [mem EXCEPT ![r] = e]
    BY <2>1 DEF e
  <2>6. GoTo(r, "bypass") /\ UNCHANGED <<doc, on, answer>>
    BY <1>5 DEF LookupRetriedWithoutThreeD
  <2> QED  BY <2>1, <2>2, <2>3, <2>4, <2>5, <2>6, RetryFounded
<1>6. CASE LookupAnswered(r)
  <2> DEFINE e == [mem[r] EXCEPT !.with3D = TRUE]
             next(resp) == IF ThreeDsAuthIsRequired(resp) THEN "lookupCvv" ELSE "lookupBi"
  <2>1. PICK a \in Answers(r) : Takes(r, a.took) /\ Settle(r, e, a.resp, next(a.resp))
    BY <1>6 DEF LookupAnswered
  <2>2. pc[r] \in TakingStep \cup {"upload"} /\ next(a.resp) \in RestStep
    BY <1>6 DEF LookupAnswered, RestStep, Step, CallStep, TakingStep, ChargeStep
  <2>3. /\ e \in Entity(Call)
        /\ e.status = mem[r].status /\ e.ixn = mem[r].ixn /\ e.nsf = mem[r].nsf
    BY <1>0 DEF Entity
  <2> HIDE DEF e, next
  <2> QED  BY <1>6, <2>1, <2>2, <2>3, SettleFounded DEF LookupAnswered
<1>7. CASE BypassAnswered(r)
  <2>1. PICK a \in Answers(r), next \in {"lookupBi", "bypassUpload"} :
          Takes(r, a.took) /\ Settle(r, mem[r], a.resp, next)
    BY <1>7 DEF BypassAnswered
  <2>2. pc[r] \in TakingStep \cup {"upload"} /\ next \in RestStep
    BY <1>7 DEF BypassAnswered, RestStep, Step, CallStep, TakingStep, ChargeStep
  <2> QED  BY <1>0, <1>7, <2>1, <2>2, SettleFounded DEF BypassAnswered
<1>8. CASE BypassUploaded(r)
  <2>1. PICK a \in Answers(r) :
          /\ Takes(r, a.took)
          /\ mem' = [mem EXCEPT ![r].ixn = Recorded(mem[r], <<r, pc[r]>>, a.resp)]
    BY <1>8 DEF BypassUploaded
  <2>2. /\ pc[r] \in CallStep /\ pc[r] \notin ChargeStep
        /\ "lookupBi" \in Step \ {"upload", "deleteCvv"} /\ "lookupBi" \notin ChargeStep
    BY <1>8 DEF BypassUploaded, Step, CallStep, TakingStep, ChargeStep
  <2> DEFINE e == [mem[r] EXCEPT !.ixn = Recorded(mem[r], <<r, pc[r]>>, a.resp)]
  <2>3. Recorded(mem[r], <<r, pc[r]>>, a.resp) \in SUBSET Interaction(Call)
    BY <1>0, <2>2, AnswersType, RecordedType DEF Typed, Call
  <2>4. e \in Entity(Call) /\ mem' = [mem EXCEPT ![r] = e]
    BY <1>0, <2>1, <2>3 DEF Entity
  <2>5. mem[r].ixn \subseteq e.ixn /\ e.status = mem[r].status /\ e.nsf = mem[r].nsf
    BY <1>0 DEF Recorded, Entity
  <2> HIDE DEF e
  <2>6. GoTo(r, "lookupBi") /\ UNCHANGED <<doc, on, answer>>
    BY <1>8 DEF BypassUploaded
  <2> QED  BY <2>1, <2>2, <2>4, <2>5, <2>6, RetryFounded
<1>9. CASE CompleteAnswered(r)
  <2>1. PICK a \in Answers(r) :
          /\ Takes(r, a.took)
          /\ \/ /\ answer' = [answer EXCEPT ![r] = a.resp]
                /\ GoTo(r, "deleteCvv")
                /\ mem' = mem
             \/ /\ Settle(r, mem[r], a.resp, "update")
                /\ answer' = answer
    BY <1>9 DEF CompleteAnswered
  <2>2. /\ pc[r] = "complete" /\ pc[r] \in TakingStep \cup {"upload"}
        /\ "update" \in RestStep /\ Active(r)
    BY <1>9 DEF CompleteAnswered, Active, RestStep, Step, CallStep, TakingStep, ChargeStep
  <2>3. UNCHANGED <<doc, on>>
    BY <1>9 DEF CompleteAnswered
  <2>4. CASE Settle(r, mem[r], a.resp, "update") /\ answer' = answer
    BY <1>0, <2>1, <2>2, <2>3, <2>4, SettleFounded
  <2>5. CASE /\ answer' = [answer EXCEPT ![r] = a.resp]
             /\ GoTo(r, "deleteCvv")
             /\ mem' = mem
    <3>1. MemoryIsFounded(r) /\ on[r] \in TxId
      BY <2>2 DEF Founded, MemoryIsFounded
    <3>2. /\ a.resp \in Response /\ a.took \in BOOLEAN
          /\ a.resp.result # "aborted" => a.resp.payload
          /\ a.resp.result = "approved" => a.took
      BY <2>2, AnswersType DEF Typed, TakingStep
    <3>3. /\ \A t \in TxId : captured[t] \subseteq captured'[t]
          /\ a.took => <<r, "complete">> \in captured'[on[r]]
      BY <2>1, <2>2, <3>1, <3>2, TakesGrows DEF Typed
    <3>4. /\ pc'[r] = "deleteCvv" /\ answer'[r] = a.resp /\ mem'[r] = mem[r]
          /\ \A q \in Request \ {r} : /\ pc'[q] = pc[q] /\ mem'[q] = mem[q]
                                      /\ answer'[q] = answer[q]
      BY <1>0, <2>5 DEF GoTo, Typed, TypeOK
    <3>5. Backed(mem[r]) /\ Paid(mem[r], captured'[on[r]])
      BY <2>2, <3>1, <3>3, FoundedGrows DEF MemoryIsFounded, ChargeStep
    <3>6. MemoryIsFounded(r)'
      BY <2>3, <3>1, <3>2, <3>3, <3>4, <3>5 DEF MemoryIsFounded, ChargeStep
    <3> QED  BY <2>3, <3>3, <3>4, <3>6, StepFounded
  <2> QED  BY <2>1, <2>4, <2>5
<1> QED  BY <1>1, <1>2, <1>3, <1>4, <1>5, <1>6, <1>7, <1>8, <1>9

LEMMA OwnStepFounded ==
    ASSUME Typed, Founded, NEW r \in Request,
           \/ ReportCreated(r) \/ ReportLookup(r) \/ StoreCvv(r) \/ RetrieveCvv(r)
           \/ DeleteCvv(r) \/ Save(r) \/ SaveFails(r) \/ SaveRepeated(r) \/ ReportUpdated(r)
           \/ Crash(r)
    PROVE  Founded'
<1> USE DEF Step, CallStep, TakingStep, ChargeStep, Ended
<1>0. Active(r) => MemoryIsFounded(r)
  BY DEF Founded
<1>1. CASE ReportCreated(r)
  <2>1. /\ Active(r) /\ pc[r] = "biCreated"
        /\ pc'[r] \in {"done", "upload", "update"}
        /\ pc'[r] = "upload" => mem[r].nsf /\ NsfFlow
        /\ \A q \in Request \ {r} : pc'[q] = pc[q]
        /\ UNCHANGED <<doc, captured, on, mem, answer>>
    BY <1>1 DEF ReportCreated, UploadsCard, GoTo, Active, Typed, TypeOK
  <2>2. Active(r)' => MemoryIsFounded(r)'
    BY <1>0, <2>1 DEF MemoryIsFounded, Backed, HasResult, Paid
  <2> QED  BY <2>1, <2>2, StepFounded
<1>2. CASE ReportLookup(r) \/ StoreCvv(r) \/ RetrieveCvv(r) \/ ReportUpdated(r) \/ Crash(r)
  <2>1. /\ Active(r)
        /\ \/ pc[r] \notin ChargeStep /\ pc'[r] \in {"lookupCvv", "add", "update", "complete", "done"}
           \/ pc'[r] = "failed"
        /\ \A q \in Request \ {r} : pc'[q] = pc[q]
        /\ UNCHANGED <<doc, captured, on, mem, answer>>
    BY <1>2 DEF ReportLookup, StoreCvv, RetrieveCvv, ReportUpdated, Crash, GoTo, Active, Typed, TypeOK
  <2>2. Active(r)' => MemoryIsFounded(r)'
    BY <1>0, <2>1 DEF Active, MemoryIsFounded, Backed, HasResult, Paid
  <2> QED  BY <2>1, <2>2, StepFounded
<1>3. CASE DeleteCvv(r)
  <2>1. /\ pc[r] = "deleteCvv" /\ Active(r) /\ "update" \in Step
        /\ Settle(r, mem[r], answer[r], "update")
        /\ UNCHANGED <<doc, captured, on, answer>>
    BY <1>3 DEF DeleteCvv, Active
  <2>2. mem[r] \in Entity(Call) /\ answer[r] \in Response /\ MemoryIsFounded(r)
    BY <1>0, <2>1 DEF Typed, TypeOK
  <2>3. AnsweredCall(r) = "complete" /\ <<r, "complete">> \in Call
    BY <2>1 DEF AnsweredCall, Call
  <2>4. "update" \in RestStep /\ "failed" \notin Step
    BY DEF RestStep
  <2> HIDE DEF Step, CallStep, TakingStep, ChargeStep, Ended
  <2>5. /\ \A q \in Request \ {r} : pc'[q] = pc[q] /\ mem'[q] = mem[q]
        /\ \/ /\ pc'[r] = "update"
              /\ mem'[r] = UpdatedEntity(mem[r], <<r, "complete">>, answer[r], NsfFlow)
              /\ ~UpdateThrows(mem[r], answer[r], NsfFlow)
           \/ pc'[r] = "failed"
    BY <2>1, <2>2, <2>3, SettleType DEF Typed
  <2>6. CASE pc'[r] = "failed"
    BY <2>1, <2>4, <2>5, <2>6, StepFounded DEF Active
  <2>7. CASE /\ pc'[r] = "update"
             /\ mem'[r] = UpdatedEntity(mem[r], <<r, "complete">>, answer[r], NsfFlow)
             /\ ~UpdateThrows(mem[r], answer[r], NsfFlow)
    <3>1. Backed(mem[r])
      BY <2>1, <2>2 DEF MemoryIsFounded, ChargeStep
    <3>2. Backed(mem'[r]) /\ Paid(mem'[r], captured[on[r]])
      BY <2>1, <2>2, <2>3, <2>7, <3>1, UpdateFounded DEF MemoryIsFounded
    <3>3. Active(r)' => MemoryIsFounded(r)'
      BY <2>1, <2>2, <2>4, <2>7, <3>2, RestFounded DEF MemoryIsFounded
    <3> QED  BY <2>1, <2>5, <3>3, StepFounded
  <2> QED  BY <2>5, <2>6, <2>7
<1>4. CASE Save(r) \/ SaveFails(r)
  <2>1. /\ Active(r) /\ pc[r] \in {"add", "update"}
        /\ pc'[r] \in {"biCreated", "biUpdated", "done", "failed"}
        /\ \A q \in Request \ {r} : pc'[q] = pc[q]
        /\ doc' = doc \/ doc' = [doc EXCEPT ![on[r]] = ToDocument(mem[r])]
        /\ UNCHANGED <<captured, on, mem, answer>>
    BY <1>4 DEF Save, SaveFails, GoTo, Active, Typed, TypeOK
  <2>2. MemoryIsFounded(r) /\ on[r] \in TxId
    BY <1>0, <2>1 DEF MemoryIsFounded
  <2>3. Backed(mem[r]) /\ Paid(mem[r], captured[on[r]])
    BY <2>1, <2>2 DEF MemoryIsFounded
  <2>4. Backed(ToDocument(mem[r])) /\ Paid(ToDocument(mem[r]), captured[on[r]])
    BY <2>3 DEF ToDocument, Backed, HasResult, Paid
  <2>5. \A t \in TxId : \/ doc'[t] = doc[t]
                        \/ Backed(doc'[t]) /\ Paid(doc'[t], captured'[t])
    BY <2>1, <2>2, <2>4 DEF Typed, TypeOK
  <2>6. Active(r)' => MemoryIsFounded(r)'
    BY <2>1, <2>2 DEF Active, MemoryIsFounded, Backed, HasResult, Paid
  <2> QED  BY <2>1, <2>5, <2>6, StepFounded
<1>5. CASE SaveRepeated(r)
  <2>1. /\ Active(r) /\ pc[r] \in {"add", "update"} /\ pc' = pc
        /\ doc' = [doc EXCEPT ![on[r]] = ToDocument(mem[r])]
        /\ UNCHANGED <<captured, on, mem, answer>>
    BY <1>5 DEF SaveRepeated, Active
  <2>2. MemoryIsFounded(r) /\ on[r] \in TxId
    BY <1>0, <2>1 DEF MemoryIsFounded
  <2>3. Backed(mem[r]) /\ Paid(mem[r], captured[on[r]])
    BY <2>1, <2>2 DEF MemoryIsFounded
  <2>4. Backed(ToDocument(mem[r])) /\ Paid(ToDocument(mem[r]), captured[on[r]])
    BY <2>3 DEF ToDocument, Backed, HasResult, Paid
  <2>5. \A t \in TxId : \/ doc'[t] = doc[t]
                        \/ Backed(doc'[t]) /\ Paid(doc'[t], captured'[t])
    BY <2>1, <2>2, <2>4 DEF Typed, TypeOK
  <2>6. Active(r)' => MemoryIsFounded(r)'
    BY <2>1, <2>2 DEF Active, MemoryIsFounded, Backed, HasResult, Paid
  <2> QED  BY <2>1, <2>5, <2>6, StepFounded
<1> QED  BY <1>1, <1>2, <1>3, <1>4, <1>5

LEMMA NextFounded == Typed /\ Founded /\ [Next]_vars => Founded'
<1> SUFFICES ASSUME Typed, Founded, [Next]_vars PROVE Founded'
  OBVIOUS
<1>1. CASE UNCHANGED vars
  BY <1>1 DEF vars, Founded, StatusIsRecorded, ApprovedIsPaid, Active, MemoryIsFounded,
              Backed, HasResult, Paid
<1>2. ASSUME NEW t \in TxId, CvvExpires(t) PROVE Founded'
  BY <1>2 DEF CvvExpires, Founded, StatusIsRecorded, ApprovedIsPaid, Active, MemoryIsFounded,
              Backed, HasResult, Paid
<1>3. ASSUME NEW r \in Request, Start(r) \/ Proceed(r) \/ SaveRepeated(r) \/ Crash(r) PROVE Founded'
  BY <1>3, StartFounded, BillerStepFounded, OwnStepFounded DEF Proceed
<1> QED  BY <1>1, <1>2, <1>3 DEF Next

\* Founded is an invariant, for any requests, faults and interleaving.
THEOREM FoundedAlways == Spec => []Founded
<1>1. Spec => []Typed
  BY InitTyped, NextTyped, PTL DEF Spec
<1> QED  BY <1>1, InitFounded, NextFounded, PTL DEF Spec

(* No interleaving of handlers, crash, lost answer, failed save or Redis error
   makes a document approved without a recorded call that took the money. *)
THEOREM ApprovedIsAlwaysPaid == Spec => []ApprovedIsPaid
<1>1. Founded => ApprovedIsPaid
  BY DEF Founded
<1> QED  BY <1>1, FoundedAlways, PTL

\* Nor pending, approved or declined without the biller answer that says so.
THEOREM StatusIsAlwaysRecorded == Spec => []StatusIsRecorded
<1>1. Founded => StatusIsRecorded
  BY DEF Founded
<1> QED  BY <1>1, FoundedAlways, PTL

==============================================================================
