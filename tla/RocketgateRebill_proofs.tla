----------------------- MODULE RocketgateRebill_proofs ------------------------
(***************************************************************************)
(* What holds of RocketgateRebill for every set of sales, requests and      *)
(* faults, whatever requests overlap.                                       *)
(***************************************************************************)
EXTENDS RocketgateRebill, ChargeEntity_proofs

-----------------------------------------------------------------------------
(* Transactions.                                                           *)

\* The transaction holds the merchant ids and the card of its sale only.
Own(t) == {t.settings, t.fields, t.card, t.echo} \subseteq {t.root, None}

LEMMA AbsentIsNone == Absent \notin Transaction /\ Absent.status \notin Status
BY DEF Absent, Transaction, Status

LEMMA SaleDocumentType ==
    ASSUME NEW s \in Sale, NEW known
    PROVE  SaleDocument(s, known) \in Transaction /\ Own(SaleDocument(s, known))
BY DEF SaleDocument, Transaction, Status, OrNone, Own

LEMMA NewRebillType ==
    ASSUME NEW t \in Transaction, NEW o \in Op, NEW ids \in Sale
    PROVE  /\ NewRebill(t, o, ids) \in Transaction
           /\ NewRebill(t, o, ids).status = "pending"
           /\ NewRebill(t, o, ids).settings = ids
           /\ NewRebill(t, o, ids).root = t.root
           /\ NewRebill(t, o, ids).stray = (t.stray \/ o \notin Validated)
           /\ ids = t.root => Own(NewRebill(t, o, ids))
BY DEF NewRebill, Transaction, Status, OrNone, Own

\* A validated request repeats the ids of the sale, when the chain has kept them.
LEMMA AcceptedIsOwn ==
    ASSUME NEW t \in Transaction, NEW o \in Validated, NEW ids \in Sale, NEW pays \in BOOLEAN,
           Accepts(t, o, ids, pays), Own(t)
    PROVE  ids = t.root /\ t.card \in {t.root, None}
BY NoneAssumption DEF Accepts, Identity, Own, Transaction, OrNone

LEMMA WithAnswerType ==
    ASSUME NEW t \in Transaction, NEW status \in Status, NEW known \in {t.settings, None}
    PROVE  /\ WithAnswer(t, status, known) \in Transaction
           /\ WithAnswer(t, status, known).status = status
           /\ WithAnswer(t, status, known).settings = t.settings
           /\ WithAnswer(t, status, known).root = t.root
           /\ WithAnswer(t, status, known).stray = t.stray
           /\ Own(t) => Own(WithAnswer(t, status, known))
<1>1. known \in OrNone
  BY DEF Transaction, OrNone
<1>2. WithAnswer(t, status, known) =
        [status |-> status, settings |-> t.settings, fields |-> t.fields, card |-> known,
         echo |-> known, root |-> t.root, stray |-> t.stray]
  BY DEF WithAnswer
<1> DEFINE w == WithAnswer(t, status, known)
<1>3. /\ w.status = status /\ w.settings = t.settings /\ w.fields = t.fields /\ w.card = known
      /\ w.echo = known /\ w.root = t.root /\ w.stray = t.stray
  BY <1>2
<1>4. w \in Transaction
  BY <1>1, <1>2 DEF Transaction
<1> HIDE DEF w
<1>5. Own(t) => Own(w)
  BY <1>3 DEF Own
<1> QED  BY <1>3, <1>4, <1>5 DEF w

LEMMA WithFieldsType ==
    ASSUME NEW t \in Transaction
    PROVE  /\ WithFields(t) \in Transaction
           /\ WithFields(t).status = t.status
           /\ WithFields(t).settings = t.settings
           /\ WithFields(t).root = t.root
           /\ WithFields(t).stray = t.stray
           /\ Own(t) => Own(WithFields(t))
<1> DEFINE f == IF t.status \in {"approved", "pending"} THEN t.echo ELSE t.fields
<1>1. WithFields(t) =
        [status |-> t.status, settings |-> t.settings, fields |-> f, card |-> t.card,
         echo |-> t.echo, root |-> t.root, stray |-> t.stray]
  BY DEF WithFields, Transaction
<1>2. f \in {t.echo, t.fields}
  OBVIOUS
<1> HIDE DEF f
<1> DEFINE w == WithFields(t)
<1>3. /\ w.status = t.status /\ w.settings = t.settings /\ w.fields = f /\ w.card = t.card
      /\ w.echo = t.echo /\ w.root = t.root /\ w.stray = t.stray
  BY <1>1
<1>4. w \in Transaction
  BY <1>1, <1>2 DEF Transaction
<1> HIDE DEF w
<1>5. Own(t) => Own(w)
  BY <1>2, <1>3 DEF Own
<1> QED  BY <1>3, <1>4, <1>5 DEF w

\* The update of a new transaction leaves the result as its status.
LEMMA OutcomeIsResult ==
    ASSUME NEW r \in Request, NEW resp \in Response
    PROVE  Outcome(r, resp) = resp.result /\ resp.result \in Status
<1> DEFINE e == NewEntity(FALSE)
<1>1. e \in Entity(Request)
  BY NewEntityType
<1>2. e.status = "pending" /\ e.nsf = FALSE /\ e.with3D = FALSE
  BY DEF NewEntity
<1>3. resp.result \in Result
  BY DEF Response
<1>4. ~FrozenByNsf(e, NsfFlow) /\ VersionSet(e, resp) = 0
  BY <1>2 DEF FrozenByNsf, VersionSet
<1>5. resp.result # "pending" => Allows("pending", Operation(resp.result))
  BY <1>3 DEF Result, Operation, Allows, Approve, Decline, Abort
<1>6. ~UpdateThrows(e, resp, NsfFlow)
  BY <1>2, <1>4, <1>5 DEF UpdateThrows, VersionRefused
<1> HIDE DEF e
<1>7. UpdatedEntity(e, r, resp, NsfFlow).status =
        IF FrozenByNsf(e, NsfFlow) \/ resp.result = "pending" THEN e.status ELSE resp.result
  BY <1>1, <1>6, NsfAssumption, UpdatedEntityType
<1>8. Outcome(r, resp) = UpdatedEntity(e, r, resp, NsfFlow).status
  BY DEF Outcome, e
<1> QED  BY <1>2, <1>3, <1>4, <1>7, <1>8 DEF Result, Status

LEMMA AnswerOutcome ==
    ASSUME NEW r \in Request, NEW reason \in Reasons
    PROVE  LET resp == ResponseOf([reason |-> reason, version |-> 0, fields |-> "none"], FALSE)
           IN  /\ Outcome(r, resp) \in Status
               /\ Outcome(r, resp) = "approved" <=> reason = "success"
<1> DEFINE reply == [reason |-> reason, version |-> 0, fields |-> "none"]
           resp == ResponseOf(reply, FALSE)
<1>1. reply \in Reply
  BY DEF Reply, Reason, Reasons, Fields
<1> HIDE DEF reply
<1>2. resp \in Response /\ (resp.result = "approved" => reply.reason = "success")
  BY <1>1, ResponseOfType
<1>3. reply.reason = reason
  BY DEF reply
<1>4. resp.result = BillerResult(reason, FALSE)
  BY <1>3 DEF ResponseOf
<1>5. reason = "success" => resp.result = "approved"
  BY <1>4 DEF BillerResult
<1> HIDE DEF resp
<1>6. Outcome(r, resp) = resp.result /\ resp.result \in Status
  BY <1>2, OutcomeIsResult
<1>7. Outcome(r, resp) \in Status /\ (Outcome(r, resp) = "approved" <=> reason = "success")
  BY <1>2, <1>3, <1>5, <1>6
<1> QED  BY <1>7 DEF resp, reply

LEMMA FallbackOutcome == \A r \in Request : Outcome(r, Fallback) = "aborted"
BY FallbackType, OutcomeIsResult DEF Fallback

-----------------------------------------------------------------------------
(* The inductive invariant: what each step of a request knows of its        *)
(* document, of its event and of what Rocketgate did, and that the           *)
(* documents a request may name hold nothing but their sale's identity.     *)

\* A status and what Rocketgate did agree.
Truthful(r, status) ==
    /\ status = "approved" => r \in carried
    /\ status = "declined" => r \notin carried

OwnRequest(r) ==
    tx[r] # Absent /\ ~tx[r].stray =>
        Own(tx[r]) /\ tx[r].settings = tx[r].root /\ sent[r] \in {tx[r].root, None}

RequestInv(r) ==
    /\ pc[r] \in Working => tx[r] \in Transaction
    /\ pc[r] \in Working => tx[r].settings \in Sale
    /\ pc[r] \in {"idle", "call"} => r \notin carried
    /\ pc[r] \in {"idle", "call", "add"} => doc[r] = Absent /\ bi[r] = "none"
    /\ pc[r] \in Working \ {"call"} => Truthful(r, tx[r].status)
    /\ pc[r] \in {"report", "classify", "update"} => doc[r].status = tx[r].status
    /\ pc[r] \in {"classify", "update", "done"} => bi[r] = doc[r].status
    /\ bi[r] # "none" => bi[r] = doc[r].status
    /\ Truthful(r, doc[r].status)
    /\ OwnRequest(r)

DocumentsOwn == \A t \in TxId : doc[t] # Absent /\ ~doc[t].stray => Own(doc[t])

RebillInv == TypeOK /\ DocumentsOwn /\ \A r \in Request : RequestInv(r)

LEMMA InvIsEnough == RebillInv => ActsOnItsOwn /\ StoredIsTrue /\ ReportedIsStored
BY DEF RebillInv, RequestInv, OwnRequest, Truthful, ActsOnItsOwn, StoredIsTrue, ReportedIsStored

LEMMA InitInv == Init => RebillInv
<1> SUFFICES ASSUME Init PROVE RebillInv
  OBVIOUS
<1>1. PICK known \in [Sale -> Known] :
         doc = [t \in TxId |-> IF t \in Sale THEN SaleDocument(t, known[t]) ELSE Absent]
  BY DEF Init
<1>2. \A t \in Sale : doc[t] \in Transaction /\ Own(doc[t])
  BY <1>1, SaleDocumentType DEF TxId
<1>3. \A r \in Request : doc[r] = Absent
  BY <1>1, DistinctAssumption DEF TxId
<1>4. doc \in [TxId -> Transaction \cup {Absent}]
  BY <1>1, <1>2, <1>3 DEF TxId
<1>5. <<>> \in Seq(Request)
  OBVIOUS
<1>6. TypeOK
  BY <1>4, <1>5 DEF Init, TypeOK, Op, OrNone
<1>7. DocumentsOwn
  BY <1>2, <1>3 DEF DocumentsOwn, TxId
<1>8. \A r \in Request : RequestInv(r)
  BY <1>3 DEF Init, RequestInv, OwnRequest, Truthful, Working, Absent
<1> QED  BY <1>6, <1>7, <1>8 DEF RebillInv

\* What a request knows depends on its own part of the state only.
LEMMA OthersKeep ==
    ASSUME NEW q \in Request, RequestInv(q),
           pc'[q] = pc[q], tx'[q] = tx[q], sent'[q] = sent[q], doc'[q] = doc[q],
           bi'[q] = bi[q], q \in carried' <=> q \in carried
    PROVE  RequestInv(q)'
BY DEF RequestInv, OwnRequest, Truthful

LEMMA GotoType ==
    ASSUME TypeOK, NEW r \in Request,
           NEW step \in Working \cup {"done", "failed"}, Goto(r, step)
    PROVE  /\ pc' \in [Request -> {"idle"} \cup Working \cup {"done", "failed"}]
           /\ pc'[r] = step
           /\ \A q \in Request \ {r} : pc'[q] = pc[q]
BY DEF TypeOK, Goto

LEMMA StoreType ==
    ASSUME RebillInv, NEW r \in Request, NEW t \in Transaction, ~t.stray => Own(t), Store(r, t)
    PROVE  /\ doc' \in [TxId -> Transaction \cup {Absent}]
           /\ doc'[r] = t
           /\ \A q \in TxId \ {r} : doc'[q] = doc[q]
           /\ DocumentsOwn'
<1>1. doc \in [TxId -> Transaction \cup {Absent}] /\ r \in TxId
  BY DEF RebillInv, TypeOK, TxId
<1>2. /\ doc' \in [TxId -> Transaction \cup {Absent}]
      /\ doc'[r] = t
      /\ \A q \in TxId \ {r} : doc'[q] = doc[q]
  BY <1>1 DEF Store
<1>3. DocumentsOwn'
  BY <1>2 DEF RebillInv, DocumentsOwn
<1> QED  BY <1>2, <1>3

LEMMA CarryOutType ==
    ASSUME TypeOK, NEW r \in Request, tx[r].settings \in Sale, CarryOut(r)
    PROVE  /\ carried' = carried \cup {r} /\ carried' \subseteq Request
           /\ on' \subseteq Sale
BY DEF TypeOK, CarryOut

LEMMA ReceiveKeeps ==
    ASSUME RebillInv, NEW r \in Request, NEW t \in TxId, NEW o \in Op, NEW ids \in Sale,
           NEW pays \in BOOLEAN, Receive(r, t, o, ids, pays)
    PROVE  RebillInv'
<1>0. TypeOK /\ DocumentsOwn /\ \A q \in Request : RequestInv(q)
  BY DEF RebillInv
<1>1. pc[r] = "idle" /\ UNCHANGED <<doc, on, bi, carried>>
  BY DEF Receive
<1>2. CASE Goto(r, "failed") /\ UNCHANGED <<op, tx, sent, order, blurred>>
  <2>1. /\ pc' \in [Request -> {"idle"} \cup Working \cup {"done", "failed"}]
        /\ pc'[r] = "failed" /\ \A q \in Request \ {r} : pc'[q] = pc[q]
    BY <1>0, <1>2, GotoType
  <2>2. TypeOK'
    BY <1>0, <1>1, <1>2, <2>1 DEF TypeOK
  <2>3. RequestInv(r)'
    BY <1>0, <1>1, <1>2, <2>1 DEF RequestInv, OwnRequest, Truthful, Working
  <2>4. \A q \in Request \ {r} : RequestInv(q)'
    BY <1>0, <1>1, <1>2, <2>1, OthersKeep
  <2> QED  BY <1>0, <1>1, <2>2, <2>3, <2>4 DEF RebillInv, DocumentsOwn
<1>3. CASE /\ Accepts(doc[t], o, ids, pays) /\ Goto(r, "call") /\ op' = [op EXCEPT ![r] = o]
           /\ tx' = [tx EXCEPT ![r] = NewRebill(doc[t], o, ids)]
           /\ sent' = [sent EXCEPT ![r] = IF o \in Validated /\ ~pays THEN doc[t].card ELSE None]
           /\ order' = Append(order, r)
           /\ blurred' = IF Handled(ids) = {} THEN blurred ELSE blurred \cup {ids}
  <2> DEFINE d == doc[t]
             n == NewRebill(d, o, ids)
             card == IF o \in Validated /\ ~pays THEN d.card ELSE None
  <2>1. d \in Transaction /\ (~d.stray => Own(d))
    BY <1>0, <1>3 DEF TypeOK, Accepts, DocumentsOwn
  <2>2. card \in OrNone
    BY <2>1 DEF Transaction, OrNone
  <2> HIDE DEF d
  <2>3. /\ n \in Transaction /\ n.status = "pending" /\ n.settings = ids /\ n.root = d.root
        /\ n.stray = (d.stray \/ o \notin Validated)
        /\ ids = d.root => Own(n)
    BY <2>1, NewRebillType
  <2>4. ~n.stray => ids = d.root /\ d.card \in {d.root, None}
    <3>1. SUFFICES ASSUME ~n.stray PROVE ids = d.root /\ d.card \in {d.root, None}
      OBVIOUS
    <3>2. o \in Validated /\ Own(d) /\ Accepts(d, o, ids, pays)
      BY <1>3, <2>1, <2>3, <3>1 DEF d
    <3> QED  BY <2>1, <3>2, AcceptedIsOwn
  <2>5. ~n.stray => Own(n) /\ n.settings = n.root /\ card \in {n.root, None}
    BY <2>3, <2>4
  <2> HIDE DEF n, card
  <2>6. /\ pc' \in [Request -> {"idle"} \cup Working \cup {"done", "failed"}]
        /\ pc'[r] = "call" /\ \A q \in Request \ {r} : pc'[q] = pc[q]
    BY <1>0, <1>3, GotoType DEF Working
  <2>7. /\ tx' = [tx EXCEPT ![r] = n] /\ sent' = [sent EXCEPT ![r] = card]
    BY <1>3 DEF n, card, d
  <2>8. /\ tx' \in [Request -> Transaction \cup {Absent}] /\ sent' \in [Request -> OrNone]
        /\ op' \in [Request -> Op] /\ order' \in Seq(Request) /\ blurred' \subseteq Sale
        /\ tx'[r] = n /\ sent'[r] = card
        /\ \A q \in Request \ {r} : tx'[q] = tx[q] /\ sent'[q] = sent[q]
    BY <1>0, <1>3, <2>2, <2>3, <2>7 DEF TypeOK
  <2>9. TypeOK'
    BY <1>0, <1>1, <2>6, <2>8 DEF TypeOK
  <2>10. doc'[r] = Absent /\ bi'[r] = "none" /\ r \notin carried'
    BY <1>0, <1>1 DEF RequestInv
  <2>11. RequestInv(r)'
    BY <2>3, <2>5, <2>6, <2>8, <2>10 DEF RequestInv, OwnRequest, Truthful, Working, Absent
  <2>12. \A q \in Request \ {r} : RequestInv(q)'
    BY <1>0, <1>1, <2>6, <2>8, OthersKeep
  <2> QED  BY <1>0, <1>1, <2>9, <2>11, <2>12 DEF RebillInv, DocumentsOwn
<1> QED  BY <1>2, <1>3 DEF Receive

-----------------------------------------------------------------------------
(* The call and what follows.                                              *)

\* Both ways the call ends: the transaction takes the outcome.
LEMMA OutcomeKeeps ==
    ASSUME RebillInv, NEW r \in Request, pc[r] = "call",
           NEW status \in Status, NEW known \in {tx[r].settings, None},
           tx' = [tx EXCEPT ![r] = WithAnswer(@, status, known)], Goto(r, "add"),
           carried' \in {carried, carried \cup {r}}, on' \subseteq Sale, blurred' \subseteq Sale,
           Truthful(r, status)', UNCHANGED <<doc, op, sent, order, bi>>
    PROVE  RebillInv'
<1>0. TypeOK /\ DocumentsOwn /\ \A q \in Request : RequestInv(q)
  BY DEF RebillInv
<1> DEFINE t == tx[r]
           w == WithAnswer(t, status, known)
<1>1. t \in Transaction /\ t.settings \in Sale
  BY <1>0 DEF RequestInv, Working
<1>2. OwnRequest(r)
  BY <1>0 DEF RequestInv
<1>3. ~t.stray => Own(t) /\ t.settings = t.root /\ sent[r] \in {t.root, None}
  BY <1>1, <1>2, AbsentIsNone DEF OwnRequest
<1>4. known \in {t.settings, None}
  OBVIOUS
<1> HIDE DEF t
<1>5. /\ w \in Transaction /\ w.status = status /\ w.settings = t.settings
      /\ w.root = t.root /\ w.stray = t.stray
      /\ Own(t) => Own(w)
  BY <1>1, <1>4, WithAnswerType
<1> HIDE DEF w
<1>6. tx' = [tx EXCEPT ![r] = w]
  BY DEF w, t
<1>7. /\ tx' \in [Request -> Transaction \cup {Absent}] /\ tx'[r] = w
      /\ \A q \in Request \ {r} : tx'[q] = tx[q]
  BY <1>0, <1>5, <1>6 DEF TypeOK
<1>8. /\ pc' \in [Request -> {"idle"} \cup Working \cup {"done", "failed"}]
      /\ pc'[r] = "add" /\ \A q \in Request \ {r} : pc'[q] = pc[q]
  BY <1>0, GotoType DEF Working
<1>9. TypeOK'
  BY <1>0, <1>7, <1>8 DEF TypeOK
<1>10. doc'[r] = Absent /\ bi'[r] = "none"
  BY <1>0 DEF RequestInv
<1>11. OwnRequest(r)'
  BY <1>3, <1>5, <1>7 DEF OwnRequest
<1>12. RequestInv(r)'
  BY <1>1, <1>5, <1>7, <1>8, <1>10, <1>11 DEF RequestInv, Truthful, Working, Absent
<1>13. \A q \in Request \ {r} : RequestInv(q)'
  BY <1>0, <1>7, <1>8, OthersKeep
<1> QED  BY <1>0, <1>9, <1>12, <1>13 DEF RebillInv, DocumentsOwn

LEMMA AnsweredKeeps ==
    ASSUME RebillInv, NEW r \in Request, Answered(r)
    PROVE  RebillInv'
<1>1. TypeOK /\ RequestInv(r) /\ pc[r] = "call"
  BY DEF RebillInv, Answered
<1>2. r \notin carried /\ tx[r].settings \in Sale
  BY <1>1 DEF RequestInv, Working
<1>3. PICK reason \in Reasons, known \in {tx[r].settings, None} :
         LET resp == ResponseOf([reason |-> reason, version |-> 0, fields |-> "none"], FALSE)
         IN  /\ tx' = [tx EXCEPT ![r] = WithAnswer(@, Outcome(r, resp), known)]
             /\ IF reason = "success" THEN CarryOut(r) ELSE UNCHANGED <<on, carried>>
  BY DEF Answered
<1> DEFINE status == Outcome(r, ResponseOf([reason |-> reason, version |-> 0,
                                            fields |-> "none"], FALSE))
<1>4. status \in Status /\ (status = "approved" <=> reason = "success")
  BY AnswerOutcome
<1>5. tx' = [tx EXCEPT ![r] = WithAnswer(@, status, known)]
  BY <1>3
<1> HIDE DEF status
<1>6. /\ carried' = (IF reason = "success" THEN carried \cup {r} ELSE carried)
      /\ on' \subseteq Sale
  BY <1>1, <1>2, <1>3, CarryOutType DEF TypeOK
<1>7. Truthful(r, status)'
  BY <1>2, <1>4, <1>6 DEF Truthful
<1>8. Goto(r, "add") /\ UNCHANGED <<doc, op, sent, order, bi>> /\ blurred' \subseteq Sale
  BY <1>1 DEF Answered, TypeOK
<1> QED  BY <1>1, <1>4, <1>5, <1>6, <1>7, <1>8, OutcomeKeeps

LEMMA NoAnswerKeeps ==
    ASSUME RebillInv, NEW r \in Request, NoAnswer(r)
    PROVE  RebillInv'
<1>1. TypeOK /\ RequestInv(r) /\ pc[r] = "call"
  BY DEF RebillInv, NoAnswer
<1>2. tx[r].settings \in Sale
  BY <1>1 DEF RequestInv, Working
<1>3. tx' = [tx EXCEPT ![r] = WithAnswer(@, "aborted", None)] /\ "aborted" \in Status
  BY FallbackOutcome DEF NoAnswer, Status
<1>4. carried' \in {carried, carried \cup {r}} /\ on' \subseteq Sale /\ blurred' \subseteq Sale
  BY <1>1, <1>2, CarryOutType DEF NoAnswer, TypeOK
<1>5. Truthful(r, "aborted")'
  BY DEF Truthful
<1>6. Goto(r, "add") /\ UNCHANGED <<doc, op, sent, order, bi>>
  BY DEF NoAnswer
<1> QED  BY <1>1, <1>3, <1>4, <1>5, <1>6, OutcomeKeeps

LEMMA AddKeeps ==
    ASSUME RebillInv, NEW r \in Request, Add(r)
    PROVE  RebillInv'
<1>0. TypeOK /\ DocumentsOwn /\ \A q \in Request : RequestInv(q)
  BY DEF RebillInv
<1>1. pc[r] = "add" /\ Store(r, tx[r]) /\ Goto(r, "report")
      /\ UNCHANGED <<on, op, tx, sent, order, bi, carried, blurred>>
  BY DEF Add
<1>2. tx[r] \in Transaction /\ (~tx[r].stray => Own(tx[r]))
  BY <1>0, <1>1, AbsentIsNone DEF RequestInv, OwnRequest, Working
<1>3. /\ doc' \in [TxId -> Transaction \cup {Absent}] /\ doc'[r] = tx[r]
      /\ \A q \in TxId \ {r} : doc'[q] = doc[q]
      /\ DocumentsOwn'
  BY <1>1, <1>2, StoreType
<1>4. /\ pc' \in [Request -> {"idle"} \cup Working \cup {"done", "failed"}]
      /\ pc'[r] = "report" /\ \A q \in Request \ {r} : pc'[q] = pc[q]
  BY <1>0, <1>1, GotoType DEF Working
<1>5. TypeOK'
  BY <1>0, <1>1, <1>3, <1>4 DEF TypeOK
<1>6. RequestInv(r)'
  BY <1>0, <1>1, <1>2, <1>3, <1>4 DEF RequestInv, OwnRequest, Truthful, Working
<1>7. \A q \in Request \ {r} : RequestInv(q)'
  BY <1>0, <1>1, <1>3, <1>4, OthersKeep DEF TxId
<1> QED  BY <1>3, <1>5, <1>6, <1>7 DEF RebillInv

LEMMA ReportKeeps ==
    ASSUME RebillInv, NEW r \in Request, Report(r)
    PROVE  RebillInv'
<1>0. TypeOK /\ DocumentsOwn /\ \A q \in Request : RequestInv(q)
  BY DEF RebillInv
<1> DEFINE step == IF op[r] = "cancel" THEN "done"
                   ELSE IF tx[r].status \in {"declined", "aborted"} THEN "classify"
                   ELSE "update"
<1>1. pc[r] = "report" /\ bi' = [bi EXCEPT ![r] = tx[r].status] /\ Goto(r, step)
      /\ UNCHANGED <<doc, on, op, tx, sent, order, carried, blurred>>
  BY DEF Report
<1>2. step \in {"done", "classify", "update"}
  OBVIOUS
<1> HIDE DEF step
<1>3. tx[r] \in Transaction /\ doc[r].status = tx[r].status
  BY <1>0, <1>1 DEF RequestInv, Working
<1>4. /\ bi' \in [Request -> Status \cup {"none"}] /\ bi'[r] = tx[r].status
      /\ \A q \in Request \ {r} : bi'[q] = bi[q]
  BY <1>0, <1>1, <1>3 DEF TypeOK, Transaction
<1>5. /\ pc' \in [Request -> {"idle"} \cup Working \cup {"done", "failed"}]
      /\ pc'[r] = step /\ \A q \in Request \ {r} : pc'[q] = pc[q]
  BY <1>0, <1>1, <1>2, GotoType DEF Working
<1>6. TypeOK'
  BY <1>0, <1>1, <1>4, <1>5 DEF TypeOK
<1>7. RequestInv(r)'
  BY <1>0, <1>1, <1>2, <1>3, <1>4, <1>5 DEF RequestInv, OwnRequest, Truthful, Working
<1>8. \A q \in Request \ {r} : RequestInv(q)'
  BY <1>0, <1>1, <1>4, <1>5, OthersKeep
<1> QED  BY <1>0, <1>1, <1>6, <1>7, <1>8 DEF RebillInv, DocumentsOwn

LEMMA ClassifyKeeps ==
    ASSUME RebillInv, NEW r \in Request, Classify(r)
    PROVE  RebillInv'
<1>0. TypeOK /\ DocumentsOwn /\ \A q \in Request : RequestInv(q)
  BY DEF RebillInv
<1>1. PICK step \in {"update", "failed"} : Goto(r, step)
  BY DEF Classify
<1>2. pc[r] = "classify" /\ UNCHANGED <<doc, on, op, tx, sent, order, bi, carried, blurred>>
  BY DEF Classify
<1>3. /\ pc' \in [Request -> {"idle"} \cup Working \cup {"done", "failed"}]
      /\ pc'[r] = step /\ \A q \in Request \ {r} : pc'[q] = pc[q]
  BY <1>0, <1>1, GotoType DEF Working
<1>4. TypeOK'
  BY <1>0, <1>2, <1>3 DEF TypeOK
<1>5. RequestInv(r)'
  BY <1>0, <1>1, <1>2, <1>3 DEF RequestInv, OwnRequest, Truthful, Working
<1>6. \A q \in Request \ {r} : RequestInv(q)'
  BY <1>0, <1>2, <1>3, OthersKeep
<1> QED  BY <1>0, <1>2, <1>4, <1>5, <1>6 DEF RebillInv, DocumentsOwn

LEMMA UpdateKeeps ==
    ASSUME RebillInv, NEW r \in Request, Update(r)
    PROVE  RebillInv'
<1>0. TypeOK /\ DocumentsOwn /\ \A q \in Request : RequestInv(q)
  BY DEF RebillInv
<1> DEFINE t == tx[r]
           w == WithFields(t)
<1>1. /\ pc[r] = "update" /\ Store(r, w) /\ Goto(r, "done") /\ tx' = [tx EXCEPT ![r] = w]
      /\ UNCHANGED <<on, op, sent, order, bi, carried, blurred>>
  BY DEF Update
<1>2. /\ t \in Transaction /\ t.settings \in Sale
      /\ ~t.stray => Own(t) /\ t.settings = t.root /\ sent[r] \in {t.root, None}
  BY <1>0, <1>1, AbsentIsNone DEF RequestInv, OwnRequest, Working
<1>3. doc[r].status = t.status /\ bi[r] = doc[r].status /\ Truthful(r, t.status)
  BY <1>0, <1>1 DEF RequestInv, Working
<1> HIDE DEF t
<1>4. /\ w \in Transaction /\ w.status = t.status /\ w.settings = t.settings
      /\ w.root = t.root /\ w.stray = t.stray /\ (Own(t) => Own(w))
  BY <1>2, WithFieldsType
<1> HIDE DEF w
<1>5. /\ doc' \in [TxId -> Transaction \cup {Absent}] /\ doc'[r] = w
      /\ \A q \in TxId \ {r} : doc'[q] = doc[q]
      /\ DocumentsOwn'
  BY <1>1, <1>2, <1>4, StoreType
<1>6. /\ tx' \in [Request -> Transaction \cup {Absent}] /\ tx'[r] = w
      /\ \A q \in Request \ {r} : tx'[q] = tx[q]
  BY <1>0, <1>1, <1>4 DEF TypeOK
<1>7. /\ pc' \in [Request -> {"idle"} \cup Working \cup {"done", "failed"}]
      /\ pc'[r] = "done" /\ \A q \in Request \ {r} : pc'[q] = pc[q]
  BY <1>0, <1>1, GotoType DEF Working
<1>8. TypeOK'
  BY <1>0, <1>1, <1>5, <1>6, <1>7 DEF TypeOK
<1>9. OwnRequest(r)'
  BY <1>1, <1>2, <1>4, <1>6 DEF OwnRequest
<1>10. RequestInv(r)'
  BY <1>1, <1>3, <1>4, <1>5, <1>7, <1>9 DEF RequestInv, Truthful, Working
<1>11. \A q \in Request \ {r} : RequestInv(q)'
  BY <1>0, <1>1, <1>5, <1>6, <1>7, OthersKeep DEF TxId
<1> QED  BY <1>5, <1>8, <1>10, <1>11 DEF RebillInv

-----------------------------------------------------------------------------
(* Failures.                                                               *)

LEMMA ForgetType ==
    ASSUME TypeOK, NEW r \in Request, tx[r].settings \in Sale, Forget(r)
    PROVE  blurred' \subseteq Sale
BY DEF TypeOK, Forget

LEMMA SaveFailsKeeps ==
    ASSUME RebillInv, NEW r \in Request, SaveFails(r)
    PROVE  RebillInv'
<1>0. TypeOK /\ DocumentsOwn /\ \A q \in Request : RequestInv(q)
  BY DEF RebillInv
<1> DEFINE t == tx[r]
           w == IF pc[r] = "update" THEN WithFields(t) ELSE t
<1>1. /\ pc[r] \in {"add", "update"} /\ Goto(r, "failed")
      /\ Store(r, w) \/ UNCHANGED doc
      /\ UNCHANGED <<on, op, tx, sent, order, bi, carried>>
  BY DEF SaveFails
<1>2. /\ t \in Transaction /\ t.settings \in Sale /\ Truthful(r, t.status)
      /\ ~t.stray => Own(t)
  BY <1>0, <1>1, AbsentIsNone DEF RequestInv, OwnRequest, Working
<1>3. blurred' \subseteq Sale
  BY <1>0, <1>2, ForgetType DEF SaveFails
<1>4. /\ pc[r] = "add" => bi[r] = "none"
      /\ pc[r] = "update" => bi[r] = doc[r].status /\ doc[r].status = t.status
  BY <1>0, <1>1 DEF RequestInv, Working
<1> HIDE DEF t
<1>5. w \in Transaction /\ w.status = t.status /\ (~w.stray => Own(w))
  BY <1>2, WithFieldsType
<1> HIDE DEF w
<1>6. /\ doc' \in [TxId -> Transaction \cup {Absent}]
      /\ doc'[r] = w \/ doc'[r] = doc[r]
      /\ \A q \in TxId \ {r} : doc'[q] = doc[q]
      /\ DocumentsOwn'
  <2>1. CASE Store(r, w)
    BY <1>5, <2>1, StoreType
  <2>2. CASE UNCHANGED doc
    BY <1>0, <2>2 DEF TypeOK, DocumentsOwn
  <2> QED  BY <1>1, <2>1, <2>2
<1>7. /\ pc' \in [Request -> {"idle"} \cup Working \cup {"done", "failed"}]
      /\ pc'[r] = "failed" /\ \A q \in Request \ {r} : pc'[q] = pc[q]
  BY <1>0, <1>1, GotoType DEF Working
<1>8. TypeOK'
  BY <1>0, <1>1, <1>3, <1>6, <1>7 DEF TypeOK
<1>9. OwnRequest(r)'
  BY <1>0, <1>1 DEF RequestInv, OwnRequest
<1>10. Truthful(r, doc[r].status)
  BY <1>0 DEF RequestInv
<1>11. bi[r] # "none" => bi[r] = doc[r].status
  BY <1>0 DEF RequestInv
<1>12. RequestInv(r)'
  BY <1>1, <1>2, <1>4, <1>5, <1>6, <1>7, <1>9, <1>10, <1>11
     DEF RequestInv, Truthful, Working
<1>13. \A q \in Request \ {r} : RequestInv(q)'
  BY <1>0, <1>1, <1>6, <1>7, OthersKeep DEF TxId
<1> QED  BY <1>6, <1>8, <1>12, <1>13 DEF RebillInv

LEMMA DieKeeps ==
    ASSUME RebillInv, NEW r \in Request, Die(r)
    PROVE  RebillInv'
<1>0. TypeOK /\ DocumentsOwn /\ \A q \in Request : RequestInv(q)
  BY DEF RebillInv
<1>1. /\ pc[r] \in Working /\ Goto(r, "failed")
      /\ (pc[r] = "call" /\ CarryOut(r)) \/ UNCHANGED <<on, carried>>
      /\ UNCHANGED <<doc, op, tx, sent, order, bi>>
  BY DEF Die
<1>2. tx[r].settings \in Sale
  BY <1>0, <1>1 DEF RequestInv
<1>3. blurred' \subseteq Sale
  BY <1>0, <1>2, ForgetType DEF Die
<1>4. /\ on' \subseteq Sale /\ carried' \subseteq Request
      /\ pc[r] # "call" => carried' = carried
      /\ \A q \in Request \ {r} : q \in carried' <=> q \in carried
  BY <1>0, <1>1, <1>2, CarryOutType DEF TypeOK
<1>5. /\ pc' \in [Request -> {"idle"} \cup Working \cup {"done", "failed"}]
      /\ pc'[r] = "failed" /\ \A q \in Request \ {r} : pc'[q] = pc[q]
  BY <1>0, <1>1, GotoType DEF Working
<1>6. TypeOK'
  BY <1>0, <1>1, <1>3, <1>4, <1>5 DEF TypeOK
<1>7. pc[r] = "call" => doc[r] = Absent /\ bi[r] = "none"
  BY <1>0 DEF RequestInv
<1>8. Truthful(r, doc[r].status)'
  <2>1. CASE pc[r] = "call"
    BY <1>1, <1>7, <2>1 DEF Truthful, Absent
  <2>2. CASE pc[r] # "call"
    BY <1>0, <1>1, <1>4, <2>2 DEF RequestInv, Truthful
  <2> QED  BY <2>1, <2>2
<1>9. OwnRequest(r)'
  BY <1>0, <1>1 DEF RequestInv, OwnRequest
<1>10. RequestInv(r)'
  BY <1>0, <1>1, <1>5, <1>8, <1>9 DEF RequestInv, Truthful, Working
<1>11. \A q \in Request \ {r} : RequestInv(q)'
  BY <1>0, <1>1, <1>4, <1>5, OthersKeep
<1> QED  BY <1>0, <1>1, <1>6, <1>10, <1>11 DEF RebillInv, DocumentsOwn

-----------------------------------------------------------------------------
(* The theorems.                                                           *)

LEMMA StepInv == RebillInv /\ [Next]_vars => RebillInv'
<1> SUFFICES ASSUME RebillInv, [Next]_vars PROVE RebillInv'
  OBVIOUS
<1>1. CASE UNCHANGED vars
  BY <1>1 DEF vars, RebillInv, TypeOK, DocumentsOwn, RequestInv, OwnRequest, Truthful
<1>2. CASE Next
  <2>1. PICK r \in Request :
           \/ \E t \in TxId, o \in Op, ids \in Sale, pays \in BOOLEAN :
                 Receive(r, t, o, ids, pays)
           \/ Proceed(r) \/ Die(r)
    BY <1>2 DEF Next
  <2>2. CASE \E t \in TxId, o \in Op, ids \in Sale, pays \in BOOLEAN :
                Receive(r, t, o, ids, pays)
    BY <2>2, ReceiveKeeps
  <2>3. CASE Answered(r)
    BY <2>3, AnsweredKeeps
  <2>4. CASE NoAnswer(r)
    BY <2>4, NoAnswerKeeps
  <2>5. CASE Add(r)
    BY <2>5, AddKeeps
  <2>6. CASE Report(r)
    BY <2>6, ReportKeeps
  <2>7. CASE Classify(r)
    BY <2>7, ClassifyKeeps
  <2>8. CASE Update(r)
    BY <2>8, UpdateKeeps
  <2>9. CASE SaveFails(r)
    BY <2>9, SaveFailsKeeps
  <2>10. CASE Die(r)
    BY <2>10, DieKeeps
  <2> QED
    BY <2>1, <2>2, <2>3, <2>4, <2>5, <2>6, <2>7, <2>8, <2>9, <2>10 DEF Proceed
<1> QED  BY <1>1, <1>2

LEMMA AlwaysInv == Spec => []RebillInv
BY InitInv, StepInv, PTL DEF Spec

\* Every handler leaves well-typed documents, requests and events, whatever a
\* Rocketgate subscription request names and whatever fails on the way.
THEOREM TypeCorrect == Spec => []TypeOK
<1>1. RebillInv => TypeOK
  BY DEF RebillInv
<1> QED  BY <1>1, AlwaysInv, PTL

\* An update, a start and a stop never reach another customer's subscription or
\* card, however long the chain of transactions they name.
THEOREM SubscriptionKept == Spec => []ActsOnItsOwn
BY InvIsEnough, AlwaysInv, PTL

\* No stored approval of a request Rocketgate did not carry out, no stored refusal
\* of one it did, whatever is lost or overlaps.
THEOREM OutcomeKept == Spec => []StoredIsTrue
BY InvIsEnough, AlwaysInv, PTL

\* No event of a status that is not the stored one, and none missing of a request
\* that ended well.
THEOREM ReportKept == Spec => []ReportedIsStored
BY InvIsEnough, AlwaysInv, PTL

-----------------------------------------------------------------------------
(* What the stored transactions tell of a subscription.                     *)
(*                                                                         *)
(* Rocketgate rebills it as the last request carried out asked.  A request   *)
(* carried out is approved, stored or about to be, unless the subscription   *)
(* is blurred; and the one being handled is the last one received, or two    *)
(* were handled at once.                                                   *)

\* The requests on a subscription, and those carried out, as positions in order.
Of(s) == {i \in DOMAIN order : tx[order[i]].settings = s}
CarriedOf(s) == {i \in Of(s) : order[i] \in carried}

\* The last request carried out asks to rebill, or there was none.
Rebilled(s) ==
    \/ CarriedOf(s) = {}
    \/ \E i \in CarriedOf(s) :
          Asks(op[order[i]]) = "rebill" /\ \A j \in CarriedOf(s) : j <= i

\* The approval is stored, or about to be.
Held(r) == tx[r].status = "approved" /\ (pc[r] = "add" \/ doc[r].status = "approved")

Clear(s) ==
    /\ \A i, j \in Of(s) : pc[order[i]] \in Working => j <= i
    /\ \A i \in CarriedOf(s) : Held(order[i])
    /\ s \in on <=> Rebilled(s)

\* Every request accepted is in order, once.
Placed ==
    /\ \A i, j \in DOMAIN order : order[i] = order[j] => i = j
    /\ \A i \in DOMAIN order : tx[order[i]] \in Transaction /\ pc[order[i]] # "idle"
    /\ \A r \in Request :
          pc[r] \in Working \/ r \in carried \/ doc[r] # Absent =>
              \E i \in DOMAIN order : order[i] = r
    /\ \A r \in Request : doc[r] # Absent => doc[r].settings = tx[r].settings

RecordInv == Placed /\ \A s \in Sale \ blurred : Clear(s)

LEMMA RecordIsEnough == RebillInv /\ RecordInv => QuietRecordIsTruth
<1> SUFFICES ASSUME RebillInv, RecordInv, NEW s \in Sale, Handled(s) = {}, s \notin blurred
             PROVE  s \in on <=> RecordedAsOn(s)
  BY DEF QuietRecordIsTruth
<1>1. Clear(s) /\ Placed
  BY DEF RecordInv
<1>2. \A i \in DOMAIN order : order[i] \in Request
  BY DEF RebillInv, TypeOK
<1>3. CarriedOf(s) \subseteq Approvals(s)
  <2> SUFFICES ASSUME NEW i \in CarriedOf(s) PROVE i \in Approvals(s)
    OBVIOUS
  <2>1. Held(order[i]) /\ i \in DOMAIN order /\ tx[order[i]].settings = s
    BY <1>1 DEF Clear, CarriedOf, Of
  <2>2. pc[order[i]] # "add"
    BY <1>2, <2>1 DEF Handled, Working
  <2>3. doc[order[i]].status = "approved" /\ doc[order[i]] # Absent
    BY <2>1, <2>2 DEF Held, Absent
  <2> QED  BY <1>1, <1>2, <2>1, <2>3 DEF Approvals, Placed
<1>4. Approvals(s) \subseteq CarriedOf(s)
  <2> SUFFICES ASSUME NEW i \in Approvals(s) PROVE i \in CarriedOf(s)
    OBVIOUS
  <2>1. /\ i \in DOMAIN order /\ order[i] \in Request
        /\ doc[order[i]].status = "approved" /\ doc[order[i]].settings = s
    BY <1>2 DEF Approvals
  <2>2. order[i] \in carried /\ doc[order[i]] # Absent
    BY <2>1 DEF RebillInv, RequestInv, Truthful, Absent
  <2> QED  BY <1>1, <2>1, <2>2 DEF CarriedOf, Of, Placed
<1>5. \A i \in DOMAIN order : op[order[i]] \in {"update", "start"} <=> Asks(op[order[i]]) = "rebill"
  BY DEF Asks
<1>6. Approvals(s) \subseteq DOMAIN order
  BY DEF Approvals
<1> QED  BY <1>1, <1>3, <1>4, <1>5, <1>6 DEF Clear, Rebilled, RecordedAsOn

LEMMA InitRecord == Init => RecordInv
<1> SUFFICES ASSUME Init PROVE RecordInv
  OBVIOUS
<1>1. order = <<>> /\ on = Sale /\ carried = {} /\ \A r \in Request : pc[r] = "idle"
  BY DEF Init
<1>2. \A r \in Request : doc[r] = Absent
  BY DistinctAssumption DEF Init, TxId
<1>3. DOMAIN order = {}
  BY <1>1
<1>4. Placed
  BY <1>1, <1>2, <1>3 DEF Placed, Working
<1>5. \A s \in Sale : Clear(s)
  BY <1>1, <1>3 DEF Clear, Of, CarriedOf, Rebilled
<1> QED  BY <1>4, <1>5 DEF RecordInv

\* A step after the call, or a request refused: what Rocketgate does is as before.
LEMMA RestKeeps ==
    ASSUME RebillInv, RecordInv, NEW r \in Request,
           UNCHANGED <<on, op, order, carried>>,
           \A q \in Request \ {r} : pc'[q] = pc[q] /\ tx'[q] = tx[q] /\ doc'[q] = doc[q],
           pc'[r] # "idle", pc'[r] \in Working => pc[r] \in Working,
           tx[r] \in Transaction =>
               tx'[r] \in Transaction /\ tx'[r].settings = tx[r].settings,
           doc'[r] # Absent => doc[r] # Absent \/ pc[r] \in Working,
           doc'[r] # Absent => doc'[r].settings = tx'[r].settings,
           blurred \subseteq blurred',
           r \in carried /\ Held(r) => Held(r)' \/ tx[r].settings \in blurred'
    PROVE  RecordInv'
<1>1. Placed /\ \A i \in DOMAIN order : order[i] \in Request
  BY DEF RecordInv, RebillInv, TypeOK
<1>2. \A i \in DOMAIN order : tx'[order[i]] \in Transaction
                              /\ tx'[order[i]].settings = tx[order[i]].settings
  BY <1>1 DEF Placed
<1>3. Placed'
  <2>1. \A i \in DOMAIN order : pc'[order[i]] # "idle"
    BY <1>1 DEF Placed
  <2>2. \A q \in Request :
            pc'[q] \in Working \/ q \in carried \/ doc'[q] # Absent =>
                \E i \in DOMAIN order : order[i] = q
    BY <1>1 DEF Placed
  <2>3. \A q \in Request : doc'[q] # Absent => doc'[q].settings = tx'[q].settings
    BY <1>1 DEF Placed
  <2> QED  BY <1>1, <1>2, <2>1, <2>2, <2>3 DEF Placed
<1>4. \A s : Of(s)' = Of(s) /\ CarriedOf(s)' = CarriedOf(s)
  BY <1>2 DEF Of, CarriedOf
<1>5. ASSUME NEW s \in Sale \ blurred' PROVE Clear(s)'
  <2>1. Clear(s)
    BY <1>5 DEF RecordInv
  <2>2. Rebilled(s)' <=> Rebilled(s)
    BY <1>4 DEF Rebilled
  <2>3. \A i \in Of(s) : pc'[order[i]] \in Working => pc[order[i]] \in Working
    BY <1>1 DEF Of
  <2>4. ASSUME NEW i \in CarriedOf(s) PROVE Held(order[i])'
    <3>1. Held(order[i]) /\ order[i] \in Request /\ order[i] \in carried
          /\ tx[order[i]].settings = s
      BY <1>1, <2>1 DEF Clear, CarriedOf, Of
    <3>2. CASE order[i] # r
      BY <3>1, <3>2 DEF Held
    <3>3. CASE order[i] = r
      BY <1>5, <3>1, <3>3
    <3> QED  BY <3>2, <3>3
  <2> QED  BY <1>4, <2>1, <2>2, <2>3, <2>4 DEF Clear
<1> QED  BY <1>3, <1>5 DEF RecordInv

\* A request received has nothing carried out, and is the last one on its
\* subscription; the one before it has ended, or the subscription is blurred.
LEMMA ReceiveKeepsRecord ==
    ASSUME RebillInv, RecordInv, NEW r \in Request, NEW t \in TxId, NEW o \in Op,
           NEW ids \in Sale, NEW pays \in BOOLEAN, Receive(r, t, o, ids, pays)
    PROVE  RecordInv'
<1>1. /\ TypeOK /\ RequestInv(r) /\ Placed /\ pc[r] = "idle"
      /\ UNCHANGED <<doc, on, bi, carried>>
  BY DEF RebillInv, RecordInv, Receive
<1>2. r \notin carried /\ doc[r] = Absent
  BY <1>1 DEF RequestInv
<1>3. CASE Goto(r, "failed") /\ UNCHANGED <<op, tx, sent, order, blurred>>
  <2>1. pc'[r] = "failed" /\ \A q \in Request \ {r} : pc'[q] = pc[q]
    BY <1>1, <1>3, GotoType
  <2> QED  BY <1>1, <1>2, <1>3, <2>1, RestKeeps DEF Working
<1>4. CASE /\ Accepts(doc[t], o, ids, pays) /\ Goto(r, "call") /\ op' = [op EXCEPT ![r] = o]
           /\ tx' = [tx EXCEPT ![r] = NewRebill(doc[t], o, ids)]
           /\ order' = Append(order, r)
           /\ blurred' = IF Handled(ids) = {} THEN blurred ELSE blurred \cup {ids}
  <2> DEFINE n == NewRebill(doc[t], o, ids)
             k == Len(order) + 1
  <2>1. n \in Transaction /\ n.settings = ids
    BY <1>1, <1>4, NewRebillType DEF TypeOK, Accepts
  <2> HIDE DEF n
  <2>2. /\ tx'[r] = n /\ op'[r] = o
        /\ \A q \in Request \ {r} : tx'[q] = tx[q] /\ op'[q] = op[q]
    BY <1>1, <1>4 DEF TypeOK, n
  <2>3. pc'[r] = "call" /\ \A q \in Request \ {r} : pc'[q] = pc[q]
    BY <1>1, <1>4, GotoType DEF Working
  <2>4. /\ DOMAIN order = 1..Len(order) /\ Len(order) \in Nat
        /\ DOMAIN order' = 1..k /\ order'[k] = r
        /\ \A i \in DOMAIN order : order'[i] = order[i]
    BY <1>1, <1>4 DEF TypeOK
  <2>5. \A i \in DOMAIN order : order[i] \in Request /\ order[i] # r
    BY <1>1 DEF TypeOK, Placed
  <2>6. /\ DOMAIN order' = DOMAIN order \cup {k} /\ k \notin DOMAIN order
        /\ \A i \in DOMAIN order : i <= k /\ k <= k
        /\ order'[k] = r /\ \A i \in DOMAIN order : order'[i] = order[i]
    BY <2>4
  <2> HIDE DEF k
  <2>7. Placed'
    <3>1. \A i, j \in DOMAIN order' : order'[i] = order'[j] => i = j
      BY <1>1, <2>5, <2>6 DEF Placed
    <3>2. ASSUME NEW i \in DOMAIN order'
          PROVE  tx'[order'[i]] \in Transaction /\ pc'[order'[i]] # "idle"
      <4>1. CASE i = k
        BY <2>1, <2>2, <2>3, <2>6, <4>1
      <4>2. CASE i # k
        <5>1. i \in DOMAIN order /\ order'[i] = order[i]
          BY <2>6, <4>2
        <5> QED  BY <1>1, <2>2, <2>3, <2>5, <5>1 DEF Placed
      <4> QED  BY <4>1, <4>2
    <3>3. \A q \in Request :
              pc'[q] \in Working \/ q \in carried \/ doc[q] # Absent =>
                  \E i \in DOMAIN order' : order'[i] = q
      BY <1>1, <2>3, <2>6 DEF Placed
    <3>4. \A q \in Request : doc[q] # Absent => doc[q].settings = tx'[q].settings
      BY <1>1, <1>2, <2>2 DEF Placed
    <3> QED  BY <1>1, <3>1, <3>2, <3>3, <3>4 DEF Placed
  <2>8. \A s : Of(s)' = IF s = ids THEN Of(s) \cup {k} ELSE Of(s)
    BY <2>1, <2>2, <2>5, <2>6 DEF Of
  <2>9. \A s : CarriedOf(s)' = CarriedOf(s)
    BY <1>1, <1>2, <2>5, <2>6, <2>8 DEF CarriedOf, Of
  <2>10. ASSUME NEW s \in Sale \ blurred' PROVE Clear(s)'
    <3>1. Clear(s)
      BY <1>4, <2>10 DEF RecordInv
    <3>2. Rebilled(s)' <=> Rebilled(s)
      <4>1. \A i \in CarriedOf(s) : order'[i] = order[i] /\ op'[order'[i]] = op[order[i]]
        BY <2>2, <2>5, <2>6 DEF CarriedOf, Of
      <4> QED  BY <2>9, <4>1 DEF Rebilled
    <3>3. ASSUME NEW i \in CarriedOf(s) PROVE Held(order[i])'
      <4>1. i \in DOMAIN order /\ order'[i] = order[i] /\ Held(order[i])
        BY <2>6, <3>1 DEF Clear, CarriedOf, Of
      <4> QED  BY <1>1, <2>2, <2>3, <2>5, <4>1 DEF Held
    <3>4. \A i, j \in Of(s)' : pc'[order'[i]] \in Working => j <= i
      <4>1. CASE s = ids
        <5>1. Handled(s) = {}
          BY <1>4, <2>10, <4>1
        <5>2. \A i \in Of(s) : pc[order[i]] \notin Working
          BY <2>5, <5>1 DEF Handled, Of
        <5>3. \A i \in Of(s) : pc'[order'[i]] \notin Working /\ i <= k
          BY <2>3, <2>5, <2>6, <5>2 DEF Of
        <5>4. k <= k
          BY <2>4 DEF k
        <5> QED  BY <2>8, <4>1, <5>3, <5>4
      <4>2. CASE s # ids
        BY <2>3, <2>5, <2>6, <2>8, <3>1, <4>2 DEF Clear, Of
      <4> QED  BY <4>1, <4>2
    <3>5. s \in on' <=> Rebilled(s)'
      BY <1>1, <3>1, <3>2 DEF Clear
    <3> QED  BY <2>9, <3>3, <3>4, <3>5 DEF Clear
  <2> QED  BY <2>7, <2>10 DEF RecordInv
<1> QED  BY <1>3, <1>4 DEF Receive

\* The call ends with the request carried out: the last one on its subscription, it
\* decides alone whether Rocketgate rebills it.
LEMMA CarryOutKeeps ==
    ASSUME RebillInv, RecordInv, NEW r \in Request, pc[r] = "call", CarryOut(r),
           UNCHANGED <<doc, op, order>>,
           \A q \in Request \ {r} : pc'[q] = pc[q] /\ tx'[q] = tx[q],
           pc'[r] # "idle",
           tx'[r] \in Transaction, tx'[r].settings = tx[r].settings,
           blurred \subseteq blurred', Held(r)' \/ tx[r].settings \in blurred'
    PROVE  RecordInv'
<1>1. /\ Placed /\ RequestInv(r) /\ pc[r] \in Working
      /\ \A i \in DOMAIN order : order[i] \in Request
      /\ DOMAIN order = 1..Len(order) /\ Len(order) \in Nat
  BY DEF RecordInv, RebillInv, TypeOK, Working
<1>2. PICK k \in DOMAIN order : order[k] = r
  BY <1>1 DEF Placed
<1>3. doc[r] = Absent /\ r \notin carried /\ carried' = carried \cup {r}
  BY <1>1 DEF RequestInv, CarryOut
<1>4. \A i \in DOMAIN order : tx'[order[i]] \in Transaction
                              /\ tx'[order[i]].settings = tx[order[i]].settings
  BY <1>1 DEF Placed
<1>5. Placed'
  <2>1. \A i \in DOMAIN order : pc'[order[i]] # "idle"
    BY <1>1 DEF Placed
  <2>2. \A q \in Request :
            pc'[q] \in Working \/ q \in carried' \/ doc[q] # Absent =>
                \E i \in DOMAIN order : order[i] = q
    BY <1>1, <1>2, <1>3 DEF Placed
  <2>3. \A q \in Request : doc[q] # Absent => doc[q].settings = tx'[q].settings
    BY <1>1, <1>3 DEF Placed
  <2> QED  BY <1>1, <1>4, <2>1, <2>2, <2>3 DEF Placed
<1>6. \A s : Of(s)' = Of(s)
  BY <1>4 DEF Of
<1>7. \A s : CarriedOf(s)' = IF s = tx[r].settings THEN CarriedOf(s) \cup {k} ELSE CarriedOf(s)
  BY <1>1, <1>2, <1>3, <1>6 DEF CarriedOf, Of, Placed
<1>8. ASSUME NEW s \in Sale \ blurred' PROVE Clear(s)'
  <2>1. Clear(s)
    BY <1>8 DEF RecordInv
  <2>2. \A i, j \in Of(s) : pc'[order[i]] \in Working => j <= i
    BY <1>1, <2>1 DEF Clear, Of
  <2>3. CASE s # tx[r].settings
    <3>1. s \in on' <=> s \in on
      BY <2>3 DEF CarryOut
    <3>2. Rebilled(s)' <=> Rebilled(s)
      BY <1>7, <2>3 DEF Rebilled
    <3>3. \A i \in CarriedOf(s) : Held(order[i])'
      BY <1>1, <2>1, <2>3 DEF Clear, CarriedOf, Of, Held
    <3> QED  BY <1>6, <1>7, <2>1, <2>2, <2>3, <3>1, <3>2, <3>3 DEF Clear
  <2>4. CASE s = tx[r].settings
    <3>1. k \in Of(s)
      BY <1>2, <2>4 DEF Of
    <3>2. \A j \in Of(s) : j <= k
      BY <1>1, <1>2, <2>1, <3>1 DEF Clear
    <3>3. CarriedOf(s)' = CarriedOf(s) \cup {k} /\ CarriedOf(s)' \subseteq DOMAIN order
          /\ \A j \in CarriedOf(s)' : j <= k
      BY <1>2, <1>7, <2>4, <3>1, <3>2 DEF CarriedOf, Of
    <3>4. s \in on' <=> Asks(op[r]) = "rebill"
      BY <2>4 DEF CarryOut
    <3>5. Rebilled(s)' <=> Asks(op[r]) = "rebill"
      <4>1. Rebilled(s)' => Asks(op[r]) = "rebill"
        <5>1. SUFFICES ASSUME NEW i \in CarriedOf(s)', Asks(op[order[i]]) = "rebill",
                              \A j \in CarriedOf(s)' : j <= i
                       PROVE  Asks(op[r]) = "rebill"
          BY <3>3 DEF Rebilled
        <5>2. i \in Nat /\ k \in Nat /\ i <= k /\ k <= i
          BY <1>1, <1>2, <3>3, <5>1
        <5> QED  BY <1>2, <5>1, <5>2
      <4>2. Asks(op[r]) = "rebill" => Rebilled(s)'
        BY <1>2, <3>3 DEF Rebilled
      <4> QED  BY <4>1, <4>2
    <3>6. \A i \in CarriedOf(s)' : Held(order[i])'
      <4> SUFFICES ASSUME NEW i \in CarriedOf(s)' PROVE Held(order[i])'
        OBVIOUS
      <4>1. CASE i = k
        BY <1>2, <1>8, <2>4, <4>1
      <4>2. CASE i # k
        <5>1. i \in CarriedOf(s) /\ i \in DOMAIN order /\ order[i] # r
          BY <1>1, <1>2, <3>3, <4>2 DEF CarriedOf, Of, Placed
        <5>2. Held(order[i])
          BY <2>1, <5>1 DEF Clear
        <5> QED  BY <1>1, <5>1, <5>2 DEF Held
      <4> QED  BY <4>1, <4>2
    <3> QED  BY <1>6, <2>2, <3>4, <3>5, <3>6 DEF Clear
  <2> QED  BY <2>3, <2>4
<1> QED  BY <1>5, <1>8 DEF RecordInv

\* What every step below starts from.
LEMMA Begins ==
    ASSUME RebillInv, RecordInv, NEW r \in Request, pc[r] \in Working,
           NEW step \in Working \cup {"done", "failed"}, Goto(r, step)
    PROVE  /\ TypeOK /\ RequestInv(r) /\ tx[r] \in Transaction /\ tx[r].settings \in Sale
           /\ pc'[r] = step /\ \A q \in Request \ {r} : pc'[q] = pc[q]
           /\ doc[r] # Absent => doc[r].settings = tx[r].settings
<1>1. TypeOK /\ RequestInv(r) /\ Placed
  BY DEF RebillInv, RecordInv
<1> QED  BY <1>1, GotoType DEF RequestInv, Placed

LEMMA AnsweredKeepsRecord ==
    ASSUME RebillInv, RecordInv, NEW r \in Request, Answered(r)
    PROVE  RecordInv'
<1>1. /\ pc[r] = "call" /\ pc[r] \in Working /\ Goto(r, "add")
      /\ UNCHANGED <<doc, op, sent, order, bi, blurred>>
  BY DEF Answered, Working
<1>2. /\ TypeOK /\ RequestInv(r) /\ tx[r] \in Transaction
      /\ pc'[r] = "add" /\ \A q \in Request \ {r} : pc'[q] = pc[q]
  BY <1>1, Begins DEF Working
<1>3. PICK reason \in Reasons, known \in {tx[r].settings, None} :
         LET resp == ResponseOf([reason |-> reason, version |-> 0, fields |-> "none"], FALSE)
         IN  /\ tx' = [tx EXCEPT ![r] = WithAnswer(@, Outcome(r, resp), known)]
             /\ IF reason = "success" THEN CarryOut(r) ELSE UNCHANGED <<on, carried>>
  BY DEF Answered
<1> DEFINE status == Outcome(r, ResponseOf([reason |-> reason, version |-> 0,
                                            fields |-> "none"], FALSE))
           w == WithAnswer(tx[r], status, known)
<1>4. status \in Status /\ (status = "approved" <=> reason = "success")
  BY AnswerOutcome
<1>5. tx' = [tx EXCEPT ![r] = w]
  BY <1>3
<1> HIDE DEF status
<1>6. w \in Transaction /\ w.status = status /\ w.settings = tx[r].settings
  BY <1>2, <1>4, WithAnswerType
<1> HIDE DEF w
<1>7. tx'[r] = w /\ \A q \in Request \ {r} : tx'[q] = tx[q]
  BY <1>2, <1>5 DEF TypeOK
<1>8. CASE reason = "success"
  <2>1. CarryOut(r) /\ Held(r)'
    BY <1>2, <1>3, <1>4, <1>6, <1>7, <1>8 DEF Held
  <2> QED  BY <1>1, <1>2, <1>6, <1>7, <2>1, CarryOutKeeps
<1>9. CASE reason # "success"
  <2>1. UNCHANGED <<on, carried>> /\ r \notin carried /\ doc'[r] = Absent
    BY <1>1, <1>2, <1>3, <1>9 DEF RequestInv
  <2> QED  BY <1>1, <1>2, <1>6, <1>7, <2>1, RestKeeps
<1> QED  BY <1>8, <1>9

LEMMA NoAnswerKeepsRecord ==
    ASSUME RebillInv, RecordInv, NEW r \in Request, NoAnswer(r)
    PROVE  RecordInv'
<1>1. /\ pc[r] = "call" /\ pc[r] \in Working /\ Goto(r, "add")
      /\ UNCHANGED <<doc, op, sent, order, bi>>
  BY DEF NoAnswer, Working
<1>2. /\ TypeOK /\ RequestInv(r) /\ tx[r] \in Transaction
      /\ pc'[r] = "add" /\ \A q \in Request \ {r} : pc'[q] = pc[q]
  BY <1>1, Begins DEF Working
<1> DEFINE w == WithAnswer(tx[r], "aborted", None)
<1>3. tx' = [tx EXCEPT ![r] = w] /\ "aborted" \in Status
  BY FallbackOutcome DEF NoAnswer, Status
<1>4. w \in Transaction /\ w.settings = tx[r].settings
  BY <1>2, <1>3, WithAnswerType
<1> HIDE DEF w
<1>5. tx'[r] = w /\ \A q \in Request \ {r} : tx'[q] = tx[q]
  BY <1>2, <1>3 DEF TypeOK
<1>6. CASE CarryOut(r) /\ blurred' = blurred \cup {tx[r].settings}
  BY <1>1, <1>2, <1>4, <1>5, <1>6, CarryOutKeeps
<1>7. CASE UNCHANGED <<on, carried, blurred>>
  <2>1. r \notin carried /\ doc'[r] = Absent
    BY <1>1, <1>2 DEF RequestInv
  <2> QED  BY <1>1, <1>2, <1>4, <1>5, <1>7, <2>1, RestKeeps
<1> QED  BY <1>6, <1>7 DEF NoAnswer

LEMMA AddKeepsRecord ==
    ASSUME RebillInv, RecordInv, NEW r \in Request, Add(r)
    PROVE  RecordInv'
<1>1. /\ pc[r] = "add" /\ pc[r] \in Working /\ Store(r, tx[r]) /\ Goto(r, "report")
      /\ UNCHANGED <<on, op, tx, sent, order, bi, carried, blurred>>
  BY DEF Add, Working
<1>2. /\ TypeOK /\ tx[r] \in Transaction
      /\ pc'[r] = "report" /\ \A q \in Request \ {r} : pc'[q] = pc[q]
  BY <1>1, Begins DEF Working
<1>3. doc'[r] = tx[r] /\ \A q \in Request \ {r} : doc'[q] = doc[q]
  BY <1>1, <1>2 DEF Store, TypeOK, TxId
<1>4. Held(r) => Held(r)'
  BY <1>1, <1>3 DEF Held
<1> QED  BY <1>1, <1>2, <1>3, <1>4, RestKeeps DEF Working

LEMMA UpdateKeepsRecord ==
    ASSUME RebillInv, RecordInv, NEW r \in Request, Update(r)
    PROVE  RecordInv'
<1> DEFINE w == WithFields(tx[r])
<1>1. /\ pc[r] = "update" /\ pc[r] \in Working /\ Store(r, w) /\ Goto(r, "done")
      /\ tx' = [tx EXCEPT ![r] = w]
      /\ UNCHANGED <<on, op, sent, order, bi, carried, blurred>>
  BY DEF Update, Working
<1>2. /\ TypeOK /\ tx[r] \in Transaction
      /\ pc'[r] = "done" /\ \A q \in Request \ {r} : pc'[q] = pc[q]
  BY <1>1, Begins DEF Working
<1>3. w \in Transaction /\ w.status = tx[r].status /\ w.settings = tx[r].settings
  BY <1>2, WithFieldsType
<1> HIDE DEF w
<1>4. /\ doc'[r] = w /\ \A q \in Request \ {r} : doc'[q] = doc[q]
      /\ tx'[r] = w /\ \A q \in Request \ {r} : tx'[q] = tx[q]
  BY <1>1, <1>2 DEF Store, TypeOK, TxId
<1>5. Held(r) => Held(r)'
  BY <1>3, <1>4 DEF Held
<1> QED  BY <1>1, <1>2, <1>3, <1>4, <1>5, RestKeeps DEF Working

LEMMA SaveFailsKeepsRecord ==
    ASSUME RebillInv, RecordInv, NEW r \in Request, SaveFails(r)
    PROVE  RecordInv'
<1> DEFINE w == IF pc[r] = "update" THEN WithFields(tx[r]) ELSE tx[r]
<1>1. /\ pc[r] \in {"add", "update"} /\ pc[r] \in Working /\ Goto(r, "failed")
      /\ Store(r, w) \/ UNCHANGED doc
      /\ UNCHANGED <<on, op, tx, sent, order, bi, carried>> /\ Forget(r)
  BY DEF SaveFails, Working
<1>2. /\ TypeOK /\ RequestInv(r) /\ tx[r] \in Transaction
      /\ pc'[r] = "failed" /\ \A q \in Request \ {r} : pc'[q] = pc[q]
      /\ doc[r] # Absent => doc[r].settings = tx[r].settings
  BY <1>1, Begins
<1>3. w \in Transaction /\ w.status = tx[r].status /\ w.settings = tx[r].settings
  BY <1>2, WithFieldsType
<1> HIDE DEF w
<1>4. /\ doc'[r] = w \/ doc'[r] = doc[r]
      /\ \A q \in Request \ {r} : doc'[q] = doc[q]
  BY <1>1, <1>2 DEF Store, TypeOK, TxId
<1>5. doc'[r] # Absent => doc'[r].settings = tx[r].settings
  BY <1>2, <1>3, <1>4
<1>6. blurred \subseteq blurred'
  BY <1>1 DEF Forget
<1>7. ASSUME r \in carried, Held(r) PROVE Held(r)' \/ tx[r].settings \in blurred'
  <2>1. CASE doc'[r] = w
    BY <1>1, <1>3, <1>7, <2>1 DEF Held
  <2>2. CASE doc'[r] = doc[r] /\ pc[r] = "add"
    BY <1>1, <1>2, <1>7, <2>2 DEF RequestInv, Forget
  <2>3. CASE doc'[r] = doc[r] /\ pc[r] = "update"
    BY <1>1, <1>7, <2>3 DEF Held
  <2> QED  BY <1>1, <1>4, <2>1, <2>2, <2>3
<1> QED  BY <1>1, <1>2, <1>4, <1>5, <1>6, <1>7, RestKeeps DEF Working

LEMMA DieKeepsRecord ==
    ASSUME RebillInv, RecordInv, NEW r \in Request, Die(r)
    PROVE  RecordInv'
<1>1. /\ pc[r] \in Working /\ Goto(r, "failed") /\ Forget(r)
      /\ (pc[r] = "call" /\ CarryOut(r)) \/ UNCHANGED <<on, carried>>
      /\ UNCHANGED <<doc, op, tx, sent, order, bi>>
  BY DEF Die
<1>2. /\ TypeOK /\ RequestInv(r) /\ tx[r] \in Transaction
      /\ pc'[r] = "failed" /\ \A q \in Request \ {r} : pc'[q] = pc[q]
      /\ doc[r] # Absent => doc[r].settings = tx[r].settings
  BY <1>1, Begins
<1>3. blurred \subseteq blurred'
  BY <1>1 DEF Forget
<1>4. CASE pc[r] = "call" /\ CarryOut(r)
  <2>1. tx[r].settings \in blurred'
    BY <1>1, <1>2, <1>4 DEF RequestInv, Forget, CarryOut
  <2> QED  BY <1>1, <1>2, <1>3, <1>4, <2>1, CarryOutKeeps
<1>5. CASE UNCHANGED <<on, carried>>
  <2>1. ASSUME r \in carried, Held(r) PROVE Held(r)' \/ tx[r].settings \in blurred'
    <3>1. CASE pc[r] = "add"
      BY <1>1, <1>2, <1>5, <2>1, <3>1 DEF RequestInv, Forget
    <3>2. CASE pc[r] # "add"
      BY <1>1, <2>1, <3>2 DEF Held
    <3> QED  BY <3>1, <3>2
  <2> QED  BY <1>1, <1>2, <1>3, <1>5, <2>1, RestKeeps DEF Working
<1> QED  BY <1>1, <1>4, <1>5

LEMMA StepRecord == RebillInv /\ RecordInv /\ [Next]_vars => RecordInv'
<1> SUFFICES ASSUME RebillInv, RecordInv, [Next]_vars PROVE RecordInv'
  OBVIOUS
<1>1. CASE UNCHANGED vars
  <2>1. UNCHANGED <<doc, on, pc, op, tx, order, carried, blurred>>
    BY <1>1 DEF vars
  <2>2. Placed'
    BY <2>1 DEF RecordInv, Placed
  <2>3. \A s \in Sale \ blurred' : Clear(s)'
    BY <2>1 DEF RecordInv, Clear, Rebilled, CarriedOf, Of, Held
  <2> QED  BY <2>2, <2>3 DEF RecordInv
<1>2. CASE Next
  <2>1. PICK r \in Request :
           \/ \E t \in TxId, o \in Op, ids \in Sale, pays \in BOOLEAN :
                 Receive(r, t, o, ids, pays)
           \/ Proceed(r) \/ Die(r)
    BY <1>2 DEF Next
  <2>2. CASE \E t \in TxId, o \in Op, ids \in Sale, pays \in BOOLEAN :
                Receive(r, t, o, ids, pays)
    BY <2>2, ReceiveKeepsRecord
  <2>3. CASE Answered(r)
    BY <2>3, AnsweredKeepsRecord
  <2>4. CASE NoAnswer(r)
    BY <2>4, NoAnswerKeepsRecord
  <2>5. CASE Add(r)
    BY <2>5, AddKeepsRecord
  <2>6. CASE Report(r)
    <3>1. PICK step \in {"done", "classify", "update"} : Goto(r, step)
      BY <2>6 DEF Report
    <3>2. pc[r] \in Working /\ pc[r] # "add"
          /\ UNCHANGED <<doc, on, op, tx, sent, order, carried, blurred>>
      BY <2>6 DEF Report, Working
    <3>3. /\ pc'[r] = step /\ \A q \in Request \ {r} : pc'[q] = pc[q]
          /\ doc[r] # Absent => doc[r].settings = tx[r].settings
      BY <3>1, <3>2, Begins DEF Working
    <3>4. Held(r) => Held(r)'
      BY <3>2 DEF Held
    <3> QED  BY <3>2, <3>3, <3>4, RestKeeps
  <2>7. CASE Classify(r)
    <3>1. PICK step \in {"update", "failed"} : Goto(r, step)
      BY <2>7 DEF Classify
    <3>2. pc[r] \in Working /\ pc[r] # "add"
          /\ UNCHANGED <<doc, on, op, tx, sent, order, bi, carried, blurred>>
      BY <2>7 DEF Classify, Working
    <3>3. /\ pc'[r] = step /\ \A q \in Request \ {r} : pc'[q] = pc[q]
          /\ doc[r] # Absent => doc[r].settings = tx[r].settings
      BY <3>1, <3>2, Begins DEF Working
    <3>4. Held(r) => Held(r)'
      BY <3>2 DEF Held
    <3> QED  BY <3>2, <3>3, <3>4, RestKeeps
  <2>8. CASE Update(r)
    BY <2>8, UpdateKeepsRecord
  <2>9. CASE SaveFails(r)
    BY <2>9, SaveFailsKeepsRecord
  <2>10. CASE Die(r)
    BY <2>10, DieKeepsRecord
  <2> QED
    BY <2>1, <2>2, <2>3, <2>4, <2>5, <2>6, <2>7, <2>8, <2>9, <2>10 DEF Proceed
<1> QED  BY <1>1, <1>2

\* While no request on a subscription is handled, its stored transactions tell
\* whether Rocketgate rebills it, however many requests came before and whatever
\* failed: unless two overlapped on it or one's outcome was lost.
THEOREM RecordTellsTruth == Spec => []QuietRecordIsTruth
<1>1. RebillInv /\ RecordInv => QuietRecordIsTruth
  BY RecordIsEnough
<1>2. Init => RecordInv
  BY InitRecord
<1>3. RebillInv /\ RecordInv /\ [Next]_vars => RecordInv'
  BY StepRecord
<1> QED  BY <1>1, <1>2, <1>3, AlwaysInv, PTL DEF Spec

==============================================================================
