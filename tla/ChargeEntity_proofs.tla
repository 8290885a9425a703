------------------------ MODULE ChargeEntity_proofs --------------------------
(***************************************************************************)
(* Lemmas about the responses and the entity, for any set of biller calls. *)
(***************************************************************************)
EXTENDS ChargeEntity, TransactionStatus_proofs

\* Every reply makes a well-formed response, and approved comes from success alone.
LEMMA ResponseOfType ==
    ASSUME NEW reply \in Reply, NEW use3D \in BOOLEAN
    PROVE  /\ ResponseOf(reply, use3D) \in Response
           /\ ResponseOf(reply, use3D).payload
           /\ ResponseOf(reply, use3D).result = "approved" => reply.reason = "success"
<1>1. reply.reason \in Reason /\ reply.version \in 0..2 /\ reply.fields \in Fields
  BY DEF Reply
<1>2. BillerResult(reply.reason, use3D) \in Result
  BY <1>1 DEF BillerResult, Reason, Result
<1>3. BillerResult(reply.reason, use3D) = "approved" => reply.reason = "success"
  BY <1>1 DEF BillerResult, Reason
<1> QED  BY <1>1, <1>2, <1>3 DEF ResponseOf, Response

LEMMA FallbackType == Fallback \in Response
BY DEF Fallback, Response, Result, Fields

LEMMA ThreedsVersionType ==
    ASSUME NEW resp \in Response
    PROVE  ThreedsVersion(resp) \in 0..2
BY DEF Response, ThreedsVersion, Fields

LEMMA RecordedType ==
    ASSUME NEW calls, NEW e \in Entity(calls), NEW c \in calls, NEW resp \in Response
    PROVE  /\ Recorded(e, c, resp) \in SUBSET Interaction(calls)
           /\ e.ixn \subseteq Recorded(e, c, resp)
           /\ resp.payload => [call |-> c, result |-> resp.result] \in Recorded(e, c, resp)
<1>1. [call |-> c, result |-> resp.result] \in Interaction(calls)
  BY DEF Interaction, Response
<1>2. e.ixn \in SUBSET Interaction(calls)
  BY DEF Entity
<1> QED  BY <1>1, <1>2 DEF Recorded

LEMMA MarkedType ==
    ASSUME NEW calls, NEW e \in Entity(calls), NEW c \in calls, NEW resp \in Response
    PROVE  /\ MarkedWithThreeD(e, c, resp) \in Entity(calls)
           /\ MarkedWithoutThreeD(e, c, resp) \in Entity(calls)
<1>1. Recorded(e, c, resp) \in SUBSET Interaction(calls)
  BY RecordedType
<1>2. /\ [e EXCEPT !.with3D = TRUE] \in Entity(calls)
      /\ [e EXCEPT !.with3D = FALSE] \in Entity(calls)
  BY DEF Entity
<1>3. \A f \in Entity(calls) : /\ [f EXCEPT !.ver = 0] \in Entity(calls)
                               /\ [f EXCEPT !.ixn = Recorded(e, c, resp)] \in Entity(calls)
  BY <1>1 DEF Entity
<1>4. MarkedWithThreeD(e, c, resp) \in Entity(calls)
  BY <1>2, <1>3 DEF MarkedWithThreeD
<1>5. MarkedWithoutThreeD(e, c, resp) \in Entity(calls)
  BY <1>2, <1>3 DEF MarkedWithoutThreeD
<1> QED  BY <1>4, <1>5

(* The entity after an update: well formed, nothing forgotten, and its status is
   the one it had or the result of the response. *)
LEMMA UpdatedEntityType ==
    ASSUME NEW calls, NEW e \in Entity(calls), NEW c \in calls, NEW resp \in Response,
           NEW flow \in BOOLEAN, ~UpdateThrows(e, resp, flow)
    PROVE  /\ UpdatedEntity(e, c, resp, flow) \in Entity(calls)
           /\ UpdatedEntity(e, c, resp, flow).ixn = Recorded(e, c, resp)
           /\ UpdatedEntity(e, c, resp, flow).status =
                IF FrozenByNsf(e, flow) \/ resp.result = "pending" THEN e.status ELSE resp.result
<1>0. Recorded(e, c, resp) \in SUBSET Interaction(calls)
  BY RecordedType
<1>1. CASE FrozenByNsf(e, flow)
  BY <1>0, <1>1 DEF UpdatedEntity, Entity
<1>2. CASE ~FrozenByNsf(e, flow)
  <2> DEFINE st == IF resp.result = "pending" THEN e.status
                   ELSE After(e.status, Operation(resp.result))
             vr == IF VersionSet(e, resp) = 0 THEN e.ver ELSE VersionSet(e, resp)
             ns == IF flow THEN IsNsfTransaction(resp) ELSE e.nsf
  <2>1. UpdatedEntity(e, c, resp, flow) =
          [status |-> st, ver |-> vr, nsf |-> ns, with3D |-> e.with3D,
           ixn |-> Recorded(e, c, resp)]
    BY <1>2 DEF UpdatedEntity
  <2>2. resp.result \in Result
    BY DEF Response
  <2>3. st = IF resp.result = "pending" THEN e.status ELSE resp.result
    BY <1>2, <2>2, ResultBecomesStatus DEF UpdateThrows
  <2>4. st \in Status
    BY <2>2, <2>3 DEF Entity, Result, Status
  <2>5. vr \in 0..2
    BY ThreedsVersionType DEF VersionSet, Entity
  <2>6. ns \in BOOLEAN
    BY DEF IsNsfTransaction, Entity
  <2>7. e.with3D \in BOOLEAN
    BY DEF Entity
  <2> HIDE DEF st, vr, ns
  <2> QED  BY <1>0, <1>2, <2>1, <2>3, <2>4, <2>5, <2>6, <2>7 DEF Entity
<1> QED  BY <1>1, <1>2

LEMMA HydrateType ==
    ASSUME NEW calls, NEW d \in Document(calls), d.status # "absent"
    PROVE  Hydrate(d) \in Entity(calls)
BY DEF Document, Hydrate, Entity, Status

LEMMA ToDocumentType ==
    ASSUME NEW calls, NEW e \in Entity(calls)
    PROVE  ToDocument(e) \in Document(calls)
BY DEF Entity, ToDocument, Document

LEMMA NewEntityType ==
    ASSUME NEW calls, NEW use3D \in BOOLEAN
    PROVE  NewEntity(use3D) \in Entity(calls)
BY DEF NewEntity, Entity, Status

==============================================================================
