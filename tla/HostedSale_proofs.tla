-------------------------- MODULE HostedSale_proofs --------------------------
(***************************************************************************)
(* What holds of HostedSale for every set of requests, ids, billers and    *)
(* faults, first whatever kinds of requests overlap, then while those that *)
(* rewrite a transaction are alone and a payment has one outcome.          *)
(***************************************************************************)
EXTENDS HostedSale, TransactionStatus_proofs

-----------------------------------------------------------------------------
(* Entities.                                                               *)

LEMMA NewEntityType ==
    ASSUME NEW b \in Biller, NEW type \in Type, NEW of \in TxId \cup {None}
    PROVE  /\ NewEntity(b, type, of) \in Entity
           /\ NewEntity(b, type, of).status = "pending"
           /\ NewEntity(b, type, of).biller = b
           /\ NewEntity(b, type, of).type = type
           /\ NewEntity(b, type, of).of = of
BY DEF NewEntity, Entity, Status

\* A pending entity takes the result of any response as its status.
LEMMA UpdatedType ==
    ASSUME NEW e \in Entity, e.status = "pending", NEW result \in Result
    PROVE  /\ Updated(e, result) \in Entity
           /\ Updated(e, result).status = result
           /\ Updated(e, result).biller = e.biller
           /\ Updated(e, result).type = e.type
           /\ Updated(e, result).of = e.of
<1>1. result # "pending" => Allows("pending", Operation(result))
  BY DEF Result, Operation, Allows, Approve, Decline, Abort
<1>2. result # "pending" => After("pending", Operation(result)) = result
  BY <1>1, ResultBecomesStatus
<1>3. Updated(e, result) = [e EXCEPT !.status = result]
  BY <1>2 DEF Updated, Entity
<1>4. result \in Status
  BY DEF Result, Status
<1> QED  BY <1>3, <1>4 DEF Entity

LEMMA LoadedType ==
    ASSUME TypeOK, NEW t \in TxId
    PROVE  /\ Loaded(doc[t]) \in Document
           /\ Loaded(doc[t]).status # "absent" => Loaded(doc[t]) = doc[t] /\ doc[t] \in Entity
BY DEF TypeOK, Loaded, Document, Entity

LEMMA PostbackResultType ==
    ASSUME NEW n \in Notice
    PROVE  /\ PostbackResult(n) \in Result
           /\ PostbackResult(n) = "approved" => n.said = "approved"
           /\ PostbackResult(n) = "pending" => n.said = "waiting"
BY DEF PostbackResult, Result, Notice

LEMMA TargetType ==
    ASSUME TypeOK, NEW r \in Request, on[r] \in TxId
    PROVE  Target(r) \in TxId
BY DEF TypeOK, Target

-----------------------------------------------------------------------------
(* Type correctness.  A running request has a transaction, and a second one *)
(* while it is about to save or report that.                               *)

HasTransaction(r) ==
    /\ Active(r) => on[r] \in TxId
    /\ pc[r] \in {"saveCross", "reportCross"} => made[r] \in TxId

Typed == TypeOK /\ \A r \in Request : HasTransaction(r)

LEMMA InitTyped == Init => Typed
<1> SUFFICES ASSUME Init PROVE Typed
  OBVIOUS
<1>1. NewEntity("qysso", "charge", None) \in Entity
  BY NewEntityType DEF Biller, Type
<1>2. NoDocument \in Document
  BY <1>1 DEF NoDocument, Entity, Document
<1>3. TypeOK
  BY <1>1, <1>2 DEF Init, TypeOK, Kind
<1>4. \A r \in Request : HasTransaction(r)
  BY DEF Init, HasTransaction, Active, Step
<1> QED  BY <1>3, <1>4 DEF Typed

LEMMA GoToType ==
    ASSUME TypeOK, NEW r \in Request, NEW step \in Step \cup Ended, GoTo(r, step)
    PROVE  /\ pc' \in [Request -> {"idle"} \cup Step \cup Ended]
           /\ pc'[r] = step
           /\ \A q \in Request \ {r} : pc'[q] = pc[q]
BY DEF TypeOK, GoTo

\* Starting a request changes nothing but what the request holds.
LEMMA BeginType ==
    ASSUME Typed, NEW r \in Request, NEW k \in Kind, NEW t \in TxId,
           NEW u \in TxId \cup {None}, NEW e \in Entity, NEW n \in Notice \cup {None},
           NEW step \in {"call", "save"} \cup Ended,
           Begin(r, k, t, u, e, n), GoTo(r, step)
    PROVE  /\ Typed'
           /\ pc'[r] = step /\ kind'[r] = k /\ on'[r] = t /\ made'[r] = u /\ mem'[r] = e
           /\ \A q \in Request \ {r} : /\ pc'[q] = pc[q] /\ kind'[q] = kind[q]
                                       /\ on'[q] = on[q] /\ made'[q] = made[q]
                                       /\ mem'[q] = mem[q]
           /\ doc' = doc /\ told' = told
<1>0. TypeOK
  BY DEF Typed
<1>1. step \in Step \cup Ended
  BY DEF Step
<1>2. /\ pc' \in [Request -> {"idle"} \cup Step \cup Ended]
      /\ pc'[r] = step
      /\ \A q \in Request \ {r} : pc'[q] = pc[q]
  BY <1>0, <1>1, GoToType
<1>3. /\ kind' = [kind EXCEPT ![r] = k] /\ on' = [on EXCEPT ![r] = t]
      /\ made' = [made EXCEPT ![r] = u] /\ mem' = [mem EXCEPT ![r] = e]
      /\ msg' = [msg EXCEPT ![r] = n]
      /\ doc' = doc /\ pages' = pages /\ told' = told /\ bi' = bi
  BY DEF Begin
<1>4. /\ kind' \in [Request -> Kind] /\ on' \in [Request -> TxId \cup {None}]
      /\ made' \in [Request -> TxId \cup {None}] /\ mem' \in [Request -> Entity]
      /\ msg' \in [Request -> Notice \cup {None}]
  BY <1>0, <1>3 DEF TypeOK
<1>5. TypeOK'
  BY <1>0, <1>2, <1>3, <1>4 DEF TypeOK
<1>6. /\ kind'[r] = k /\ on'[r] = t /\ made'[r] = u /\ mem'[r] = e
      /\ \A q \in Request \ {r} : /\ kind'[q] = kind[q] /\ on'[q] = on[q]
                                  /\ made'[q] = made[q] /\ mem'[q] = mem[q]
  BY <1>0, <1>3 DEF TypeOK
<1>7. ASSUME NEW q \in Request PROVE HasTransaction(q)'
  <2>1. CASE q = r
    BY <1>2, <1>6, <2>1 DEF HasTransaction, Active, Ended
  <2>2. CASE q # r
    BY <1>2, <1>6, <2>2 DEF Typed, HasTransaction, Active
  <2> QED  BY <2>1, <2>2
<1> QED  BY <1>2, <1>3, <1>5, <1>6, <1>7 DEF Typed

-----------------------------------------------------------------------------
(* The billers' word.  HostedInv is what the model checker checks as TypeOK *)
(* and ToldInv, and is inductive.                                          *)

HostedInv == Typed /\ ToldInv

LEMMA InitHosted == Init => HostedInv
<1> SUFFICES ASSUME Init PROVE HostedInv
  OBVIOUS
<1>1. \A t \in TxId : doc[t].status = "absent"
  BY DEF Init, NoDocument, NewEntity
<1>2. ApprovedIsTold /\ \A t \in TxId : Unsettled(doc[t])
  BY <1>1 DEF ApprovedIsTold, ApprovedBy, Unsettled
<1>3. \A r \in Request : MemoryIsTold(r)
  BY DEF Init, MemoryIsTold
<1> QED  BY <1>2, <1>3, InitTyped DEF HostedInv, ToldInv, Init

\* A request that starts with an entity as well founded as MemoryIsTold asks.
LEMMA BeginTold ==
    ASSUME HostedInv, NEW r \in Request, NEW k \in Kind, NEW t \in TxId,
           NEW u \in TxId \cup {None}, NEW e \in Entity, NEW n \in Notice \cup {None},
           NEW step \in {"call", "save"} \cup Ended,
           Begin(r, k, t, u, e, n), GoTo(r, step),
           step = "call" =>
              /\ e.status = "pending"
              /\ \/ k = "sale" /\ Unsettled(e)
                 \/ k = "qr" /\ Unsettled(e) /\ e.biller = "pumapay"
                 \/ k = "cancel" /\ e.type = "cancel" /\ e.of = t,
           step = "save" =>
              /\ ApprovedBy(e, IF k = "sale" \/ u = None THEN t ELSE u)
              /\ Unsettled(e)
    PROVE  HostedInv'
<1>1. /\ Typed'
      /\ pc'[r] = step /\ kind'[r] = k /\ on'[r] = t /\ made'[r] = u /\ mem'[r] = e
      /\ \A q \in Request \ {r} : /\ pc'[q] = pc[q] /\ kind'[q] = kind[q]
                                  /\ on'[q] = on[q] /\ made'[q] = made[q]
                                  /\ mem'[q] = mem[q]
      /\ doc' = doc /\ told' = told
  BY BeginType DEF HostedInv
<1>2. ToldInv
  BY DEF HostedInv
<1>3. /\ ApprovedIsTold'
      /\ \A x \in TxId : Unsettled(doc[x])'
      /\ \A x \in told' : x.about = "rebill" => x.said # "waiting"
  BY <1>1, <1>2 DEF ToldInv, ApprovedIsTold, ApprovedBy, Explains, Unsettled
<1>4. ASSUME NEW q \in Request PROVE MemoryIsTold(q)'
  <2>1. CASE q = r
    <3>1. step = "call" => AwaitsAnswer(r)'
      BY <1>1 DEF AwaitsAnswer, Unsettled
    <3>2. step = "save" => ApprovedBy(mem[r], Target(r))' /\ Unsettled(mem[r])'
      BY <1>1 DEF ApprovedBy, Explains, Target, Unsettled
    <3> QED  BY <1>1, <2>1, <3>1, <3>2 DEF MemoryIsTold, Ended
  <2>2. CASE q # r
    <3>1. MemoryIsTold(q)
      BY <1>2 DEF ToldInv
    <3> QED  BY <1>1, <2>2, <3>1
             DEF MemoryIsTold, AwaitsAnswer, ApprovedBy, Explains, Target, Unsettled
  <2> QED  BY <2>1, <2>2
<1> QED  BY <1>1, <1>3, <1>4 DEF HostedInv, ToldInv

-----------------------------------------------------------------------------
(* Each way a request starts.                                              *)

LEMMA StartSaleHosted ==
    ASSUME HostedInv, NEW r \in Request, NEW t \in TxId, NEW u \in TxId \cup {None},
           NEW b \in Biller, StartSale(r, t, u, b)
    PROVE  HostedInv'
<1>1. /\ Begin(r, "sale", t, u, NewEntity(b, "charge", None), None)
      /\ GoTo(r, "call")
  BY DEF StartSale
<1>2. /\ NewEntity(b, "charge", None) \in Entity
      /\ NewEntity(b, "charge", None).status = "pending"
      /\ Unsettled(NewEntity(b, "charge", None))
  BY NewEntityType DEF Unsettled, Type
<1>3. "sale" \in Kind /\ "call" \in {"call", "save"} \cup Ended
  BY DEF Kind
<1> QED  BY <1>1, <1>2, <1>3, BeginTold

LEMMA StartQrHosted ==
    ASSUME HostedInv, NEW r \in Request, NEW t \in TxId, StartQr(r, t)
    PROVE  HostedInv'
<1>1. /\ Begin(r, "qr", t, None, NewEntity("pumapay", "charge", None), None)
      /\ GoTo(r, "call")
  BY DEF StartQr
<1>2. /\ NewEntity("pumapay", "charge", None) \in Entity
      /\ NewEntity("pumapay", "charge", None).status = "pending"
      /\ NewEntity("pumapay", "charge", None).biller = "pumapay"
      /\ Unsettled(NewEntity("pumapay", "charge", None))
  BY NewEntityType DEF Unsettled, Biller, Type
<1>3. "qr" \in Kind /\ "call" \in {"call", "save"} \cup Ended
  BY DEF Kind
<1> QED  BY <1>1, <1>2, <1>3, BeginTold

LEMMA StartQrAgainHosted ==
    ASSUME HostedInv, NEW r \in Request, NEW t \in TxId, StartQrAgain(r, t)
    PROVE  HostedInv'
<1> DEFINE e == [Loaded(doc[t]) EXCEPT !.biller = "pumapay"]
<1>1. Begin(r, "qr", t, None, e, None) /\ GoTo(r, "call") /\ Loaded(doc[t]).status = "pending"
  BY DEF StartQrAgain, AcceptsQr
<1>2. doc[t] \in Entity /\ Loaded(doc[t]) = doc[t] /\ Unsettled(doc[t])
  BY <1>1, LoadedType DEF HostedInv, Typed, ToldInv
<1>3. e \in Entity /\ e.status = "pending" /\ e.biller = "pumapay" /\ Unsettled(e)
  BY <1>1, <1>2 DEF Entity, Biller, Unsettled
<1>4. "qr" \in Kind /\ "call" \in {"call", "save"} \cup Ended
  BY DEF Kind
<1> HIDE DEF e
<1> QED  BY <1>1, <1>3, <1>4, BeginTold

LEMMA StartCancelHosted ==
    ASSUME HostedInv, NEW r \in Request, NEW t \in TxId, NEW u \in TxId, StartCancel(r, t, u)
    PROVE  HostedInv'
<1>1. /\ Begin(r, "cancel", t, u, NewEntity("pumapay", "cancel", t), None)
      /\ GoTo(r, "call")
  BY DEF StartCancel
<1>2. /\ NewEntity("pumapay", "cancel", t) \in Entity
      /\ NewEntity("pumapay", "cancel", t).status = "pending"
      /\ NewEntity("pumapay", "cancel", t).type = "cancel"
      /\ NewEntity("pumapay", "cancel", t).of = t
  BY NewEntityType DEF Biller, Type
<1>3. "cancel" \in Kind /\ "call" \in {"call", "save"} \cup Ended
  BY DEF Kind
<1> QED  BY <1>1, <1>2, <1>3, BeginTold

\* Requests that update a stored transaction: abort, or a postback's outcome.
LEMMA PendingIsSale ==
    ASSUME HostedInv, NEW t \in TxId, Loaded(doc[t]).status = "pending", NEW result \in Result
    PROVE  LET e == Updated(Loaded(doc[t]), result)
           IN  e \in Entity /\ e.status = result /\ e.type = "charge" /\ e.of = None
<1>1. doc[t] \in Entity /\ Loaded(doc[t]) = doc[t] /\ Unsettled(doc[t])
  BY LoadedType DEF HostedInv, Typed, ToldInv
<1>2. doc[t].status = "pending" /\ doc[t].type = "charge" /\ doc[t].of = None
  BY <1>1 DEF Unsettled
<1> QED  BY <1>1, <1>2, UpdatedType

LEMMA StartAbortHosted ==
    ASSUME HostedInv, NEW r \in Request, NEW t \in TxId, StartAbort(r, t)
    PROVE  HostedInv'
<1> DEFINE e == Updated(Loaded(doc[t]), "aborted")
<1>1. Begin(r, "abort", t, None, e, None) /\ GoTo(r, "save") /\ Loaded(doc[t]).status = "pending"
  BY DEF StartAbort
<1>2. e \in Entity /\ e.status = "aborted"
  BY <1>1, PendingIsSale DEF Result
<1>3. ApprovedBy(e, t) /\ Unsettled(e)
  BY <1>2 DEF ApprovedBy, Unsettled
<1>4. "abort" \in Kind /\ "save" \in {"call", "save"} \cup Ended
  BY DEF Kind
<1> HIDE DEF e
<1> QED  BY <1>1, <1>2, <1>3, <1>4, BeginTold

\* A request that ends at once stores nothing, whatever it holds.
LEMMA EndsHosted ==
    ASSUME HostedInv, NEW r \in Request, NEW k \in Kind, NEW t \in TxId, NEW e \in Entity,
           NEW n \in Notice \cup {None}, NEW step \in {"done", "rejected"},
           Begin(r, k, t, None, e, n), GoTo(r, step)
    PROVE  HostedInv'
<1>1. step \in {"call", "save"} \cup Ended /\ step # "call" /\ step # "save"
  BY DEF Ended
<1> QED  BY <1>1, BeginTold

LEMMA ClientRefusedHosted ==
    ASSUME HostedInv, NEW r \in Request, NEW t \in TxId, NEW k \in {"qr", "cancel", "abort"},
           ClientRefused(r, t, k)
    PROVE  HostedInv'
<1>1. Begin(r, k, t, None, mem[r], None) /\ GoTo(r, "rejected")
  BY DEF ClientRefused
<1>2. k \in Kind /\ mem[r] \in Entity
  BY DEF Kind, HostedInv, Typed, TypeOK
<1> QED  BY <1>1, <1>2, EndsHosted

-----------------------------------------------------------------------------
(* Each way a postback is received.                                        *)

LEMMA JoinUpdatesHosted ==
    ASSUME HostedInv, NEW r \in Request, NEW n \in told, JoinUpdates(r, n)
    PROVE  HostedInv'
<1> DEFINE e == Updated(Loaded(doc[n.tx]), PostbackResult(n))
<1>1. /\ Begin(r, "join", n.tx, None, e, n) /\ GoTo(r, "save")
      /\ IsJoin(n) /\ ~CreatesCrossSale(n) /\ Loaded(doc[n.tx]).status = "pending"
  BY DEF JoinUpdates, AcceptsJoin
<1>2. n \in Notice /\ n.tx \in TxId
  BY DEF HostedInv, Typed, TypeOK, Notice
<1>3. /\ PostbackResult(n) \in Result
      /\ PostbackResult(n) = "approved" => n.said = "approved"
  BY <1>2, PostbackResultType
<1>4. e \in Entity /\ e.status = PostbackResult(n) /\ e.type = "charge" /\ e.of = None
  BY <1>1, <1>2, <1>3, PendingIsSale
<1>5. e.status = "approved" => n.about = "join"
  BY <1>1, <1>4 DEF IsJoin, CreatesCrossSale
<1>6. ApprovedBy(e, n.tx) /\ Unsettled(e)
  BY <1>3, <1>4, <1>5 DEF ApprovedBy, Explains, Unsettled
<1>7. "join" \in Kind /\ "save" \in {"call", "save"} \cup Ended
  BY DEF Kind
<1> HIDE DEF e
<1> QED  BY <1>1, <1>2, <1>4, <1>6, <1>7, BeginTold

\* A transaction made for a postback is approved by that postback.
LEMMA JoinCreatesHosted ==
    ASSUME HostedInv, NEW r \in Request, NEW n \in told, NEW u \in TxId, JoinCreates(r, n, u)
    PROVE  HostedInv'
<1> DEFINE e == Updated(NewEntity(doc[n.tx].biller, "charge", n.tx), PostbackResult(n))
<1>1. Begin(r, "join", n.tx, u, e, n) /\ GoTo(r, "save") /\ CreatesCrossSale(n)
  BY DEF JoinCreates
<1>2. n \in Notice /\ n.tx \in TxId /\ doc[n.tx].biller \in Biller
  BY DEF HostedInv, Typed, TypeOK, Notice, Document
<1>3. PostbackResult(n) = "approved" /\ n.said = "approved" /\ n.about = "crossSale"
  BY <1>1, <1>2, PostbackResultType DEF CreatesCrossSale
<1>4. e \in Entity /\ e.status = "approved" /\ e.type = "charge" /\ e.of = n.tx
  BY <1>2, <1>3, NewEntityType, UpdatedType DEF Result, Type
<1>5. ApprovedBy(e, u) /\ Unsettled(e)
  BY <1>3, <1>4 DEF ApprovedBy, Explains, Unsettled
<1>6. "join" \in Kind /\ "save" \in {"call", "save"} \cup Ended /\ u # None
  BY NoneAssumption DEF Kind
<1> HIDE DEF e
<1> QED  BY <1>1, <1>2, <1>4, <1>5, <1>6, BeginTold

LEMMA RebillCreatesHosted ==
    ASSUME HostedInv, NEW r \in Request, NEW n \in told, NEW u \in TxId, RebillCreates(r, n, u)
    PROVE  HostedInv'
<1> DEFINE e == Updated(NewEntity(n.from, "rebill", n.tx), PostbackResult(n))
<1>1. Begin(r, "rebill", n.tx, u, e, n) /\ GoTo(r, "save") /\ n.about = "rebill"
  BY DEF RebillCreates
<1>2. n \in Notice /\ n.tx \in TxId /\ n.from \in Biller
  BY DEF HostedInv, Typed, TypeOK, Notice, Sender, Biller
<1>3. /\ PostbackResult(n) \in Result /\ PostbackResult(n) # "pending"
      /\ PostbackResult(n) = "approved" => n.said = "approved"
  BY <1>1, <1>2, PostbackResultType DEF HostedInv, ToldInv
<1>4. e \in Entity /\ e.status = PostbackResult(n) /\ e.type = "rebill" /\ e.of = n.tx
  BY <1>2, <1>3, NewEntityType, UpdatedType DEF Type
<1>5. ApprovedBy(e, u) /\ Unsettled(e)
  BY <1>1, <1>3, <1>4 DEF ApprovedBy, Explains, Unsettled
<1>6. "rebill" \in Kind /\ "save" \in {"call", "save"} \cup Ended /\ u # None
  BY NoneAssumption DEF Kind
<1> HIDE DEF e
<1> QED  BY <1>1, <1>2, <1>4, <1>5, <1>6, BeginTold

\* Postbacks that change no transaction.
LEMMA PostbackEndsHosted ==
    ASSUME HostedInv, NEW r \in Request, NEW n \in told,
           JoinIgnored(r, n) \/ JoinRefused(r, n) \/ RebillRefused(r, n)
    PROVE  HostedInv'
<1>1. n \in Notice /\ n.tx \in TxId /\ mem[r] \in Entity
  BY DEF HostedInv, Typed, TypeOK, Notice
<1>2. CASE JoinIgnored(r, n)
  <2>1. /\ Begin(r, "join", n.tx, None, Loaded(doc[n.tx]), n) /\ GoTo(r, "done")
        /\ Loaded(doc[n.tx]).status # "absent"
    BY <1>2 DEF JoinIgnored
  <2>2. Loaded(doc[n.tx]) \in Entity
    BY <1>1, <2>1, LoadedType DEF HostedInv, Typed
  <2>3. "join" \in Kind
    BY DEF Kind
  <2> QED  BY <1>1, <2>1, <2>2, <2>3, EndsHosted
<1>3. CASE JoinRefused(r, n) \/ RebillRefused(r, n)
  <2>1. PICK k \in {"join", "rebill"} :
           Begin(r, k, n.tx, None, mem[r], n) /\ GoTo(r, "rejected")
    BY <1>3 DEF JoinRefused, RebillRefused
  <2>2. k \in Kind
    BY DEF Kind
  <2> QED  BY <1>1, <2>1, <2>2, EndsHosted
<1> QED  BY <1>2, <1>3

-----------------------------------------------------------------------------
(* The steps of a running request.                                         *)

\* What the billers say more, and what other requests do, never unsettles a
\* request.
LEMMA MemoryKept ==
    ASSUME HostedInv, NEW q \in Request, told \subseteq told',
           pc'[q] = pc[q], mem'[q] = mem[q],
           kind' = kind, on' = on, made' = made
    PROVE  MemoryIsTold(q)' /\ (HasTransaction(q)')
<1>1. MemoryIsTold(q) /\ HasTransaction(q)
  BY DEF HostedInv, Typed, ToldInv
<1>2. Target(q)' = Target(q)
  BY DEF Target
<1>3. ApprovedBy(mem[q], Target(q)) => ApprovedBy(mem[q], Target(q))'
  BY <1>2 DEF ApprovedBy, Explains
<1>4. AwaitsAnswer(q) => AwaitsAnswer(q)'
  BY DEF AwaitsAnswer, Unsettled
<1> QED  BY <1>1, <1>3, <1>4 DEF MemoryIsTold, Unsettled, HasTransaction, Active

\* A request that ends, by an answer, a failure or a crash.
LEMMA EndingHosted ==
    ASSUME HostedInv, NEW r \in Request, NEW step \in Ended, GoTo(r, step),
           doc' = doc, told' = told, mem' = mem, kind' = kind, on' = on, made' = made,
           msg' = msg, pages' \subseteq TxId \X Sender, bi' \subseteq TxId \X Status
    PROVE  HostedInv'
<1>0. TypeOK
  BY DEF HostedInv, Typed
<1>1. /\ pc' \in [Request -> {"idle"} \cup Step \cup Ended] /\ pc'[r] = step
      /\ \A q \in Request \ {r} : pc'[q] = pc[q]
  BY <1>0, GoToType
<1>2. TypeOK'
  BY <1>0, <1>1 DEF TypeOK
<1>3. /\ ApprovedIsTold'
      /\ \A x \in TxId : Unsettled(doc[x])'
      /\ \A x \in told' : x.about = "rebill" => x.said # "waiting"
  BY DEF HostedInv, ToldInv, ApprovedIsTold, ApprovedBy, Explains, Unsettled
<1>4. ASSUME NEW q \in Request PROVE MemoryIsTold(q)' /\ (HasTransaction(q)')
  <2>1. CASE q = r
    BY <1>1, <2>1 DEF MemoryIsTold, HasTransaction, Active, Ended, Step
  <2>2. CASE q # r
    BY <1>1, <2>2, MemoryKept
  <2> QED  BY <2>1, <2>2
<1> QED  BY <1>2, <1>3, <1>4 DEF HostedInv, Typed, ToldInv

\* An answer is of a request that called, whose entity was pending.
LEMMA AnswerType ==
    ASSUME TypeOK, NEW r \in Request, AwaitsAnswer(r), on[r] \in TxId, NEW said \in Answers(r)
    PROVE  /\ kind[r] \in {"sale", "qr", "cancel"}
           /\ CallResult(r, said) \in Result
           /\ CallResult(r, said) = "approved" =>
                 \/ kind[r] = "sale" /\ said = "approved"
                 \/ kind[r] = "cancel" /\ said \in {"approved", "declined"}
           /\ kind[r] = "cancel" => CallResult(r, said) = "approved"
           /\ Answer(r, said) \in Notice
           /\ Answer(r, said).tx = on[r] /\ Answer(r, said).about = kind[r]
           /\ Answer(r, said).said = said
<1>1. kind[r] \in {"sale", "qr", "cancel"} /\ mem[r].biller \in Biller
  BY DEF AwaitsAnswer, TypeOK, Entity
<1>2. said \in Said
  BY DEF Answers, Said
<1>3. SentBy(mem[r].biller) \in Sender
  BY <1>1 DEF SentBy, Biller, Sender
<1>4. Answer(r, said) \in Notice
  BY <1>1, <1>2, <1>3 DEF Answer, Notice
<1>5. kind[r] = "qr" => said # "approved"
  BY DEF Answers, AwaitsAnswer
<1>6. kind[r] = "cancel" => said \in {"approved", "declined"}
  BY DEF Answers
<1>7. CallResult(r, said) \in Result
  BY <1>2 DEF CallResult, Said, Result
<1>8. CallResult(r, said) = "approved" => kind[r] = "cancel" \/ said = "approved"
  BY <1>2 DEF CallResult, Said
<1> QED  BY <1>1, <1>4, <1>5, <1>6, <1>7, <1>8 DEF Answer, CallResult

LEMMA CallAnsweredHosted ==
    ASSUME HostedInv, NEW r \in Request, CallAnswered(r)
    PROVE  HostedInv'
<1>0. TypeOK /\ ToldInv
  BY DEF HostedInv, Typed
<1>1. PICK said \in Answers(r) :
         /\ mem' = [mem EXCEPT ![r] = Updated(@, CallResult(r, said))]
         /\ msg' = [msg EXCEPT ![r] = Answer(r, said)]
         /\ told' = told \cup {n \in {Answer(r, said)} : said \in {"approved", "declined"}}
  BY DEF CallAnswered
<1> DEFINE result == CallResult(r, said)
           answer == Answer(r, said)
<1>2. /\ pc[r] = "call" /\ GoTo(r, "save") /\ on[r] \in TxId
      /\ doc' = doc /\ pages' = pages /\ bi' = bi /\ kind' = kind
      /\ on' = on /\ made' = made
  BY DEF CallAnswered, HostedInv, Typed, HasTransaction, Active, Step
<1>3. AwaitsAnswer(r)
  BY <1>0, <1>2 DEF ToldInv, MemoryIsTold
<1>4. mem[r] \in Entity /\ mem[r].status = "pending"
  BY <1>0, <1>3 DEF TypeOK, AwaitsAnswer
<1>5. /\ kind[r] \in {"sale", "qr", "cancel"}
      /\ result \in Result
      /\ result = "approved" => \/ kind[r] = "sale" /\ said = "approved"
                                \/ kind[r] = "cancel" /\ said \in {"approved", "declined"}
      /\ kind[r] = "cancel" => result = "approved"
      /\ answer \in Notice
      /\ answer.tx = on[r] /\ answer.about = kind[r] /\ answer.said = said
  BY <1>0, <1>2, <1>3, AnswerType
<1> HIDE DEF result, answer
<1>6. /\ mem'[r] \in Entity /\ mem'[r].status = result
      /\ mem'[r].type = mem[r].type /\ mem'[r].of = mem[r].of
      /\ \A q \in Request \ {r} : mem'[q] = mem[q]
      /\ mem' \in [Request -> Entity]
  BY <1>0, <1>1, <1>4, <1>5, UpdatedType DEF TypeOK, result
<1>7. "save" \in Step \cup Ended
  BY DEF Step
<1>8. /\ pc' \in [Request -> {"idle"} \cup Step \cup Ended] /\ pc'[r] = "save"
      /\ \A q \in Request \ {r} : pc'[q] = pc[q]
  BY <1>0, <1>2, <1>7, GoToType
<1>9. result = "approved" => answer \in told'
  BY <1>1, <1>5 DEF answer
<1>10. /\ told' \subseteq Notice /\ told \subseteq told' /\ told' \subseteq told \cup {answer}
       /\ msg' \in [Request -> Notice \cup {None}]
  BY <1>0, <1>1, <1>5 DEF TypeOK, answer
<1>11. TypeOK'
  BY <1>0, <1>2, <1>6, <1>8, <1>10 DEF TypeOK
<1>12. \A n \in told' : n.about = "rebill" => n.said # "waiting"
  BY <1>0, <1>5, <1>10 DEF ToldInv
<1>13. ApprovedIsTold' /\ \A t \in TxId : Unsettled(doc[t])'
  BY <1>0, <1>2, <1>10 DEF ToldInv, ApprovedIsTold, ApprovedBy, Explains, Unsettled
<1>14. ASSUME NEW q \in Request PROVE MemoryIsTold(q)' /\ (HasTransaction(q)')
  <2>1. CASE q = r
    <3>1. HasTransaction(r)'
      BY <1>2, <1>8 DEF HasTransaction
    <3>2. Unsettled(mem[r])'
      BY <1>3, <1>5, <1>6 DEF Unsettled, AwaitsAnswer
    <3>3. ASSUME result = "approved" PROVE Explains(answer, mem'[r], Target(r)')
      <4>1. CASE kind[r] = "sale"
        <5>1. Target(r)' = on[r] /\ mem'[r].type = "charge" /\ mem'[r].of = None
          BY <1>2, <1>3, <1>6, <4>1 DEF Target, AwaitsAnswer, Unsettled
        <5> QED  BY <1>5, <3>3, <4>1, <5>1 DEF Explains
      <4>2. CASE kind[r] = "cancel"
        <5>1. mem'[r].type = "cancel" /\ mem'[r].of = on[r]
          BY <1>3, <1>6, <4>2 DEF AwaitsAnswer
        <5> QED  BY <1>5, <3>3, <4>2, <5>1 DEF Explains
      <4> QED  BY <1>5, <3>3, <4>1, <4>2
    <3>4. ApprovedBy(mem[r], Target(r))'
      BY <1>6, <1>9, <3>3 DEF ApprovedBy, Explains
    <3> QED  BY <1>8, <2>1, <3>1, <3>2, <3>4 DEF MemoryIsTold
  <2>2. CASE q # r
    BY <1>2, <1>6, <1>8, <1>10, <2>2, MemoryKept
  <2> QED  BY <2>1, <2>2
<1> QED  BY <1>11, <1>12, <1>13, <1>14 DEF HostedInv, Typed, ToldInv

\* The entity in memory may be stored as the transaction about to be saved.
LEMMA Storing ==
    ASSUME HostedInv, NEW r \in Request, pc[r] \in {"save", "saveCross"},
           NEW x, x = (IF pc[r] = "save" THEN Target(r) ELSE made[r]),
           doc' \in {doc, [doc EXCEPT ![x] = mem[r]]}, told' = told
    PROVE  /\ x \in TxId /\ (doc' \in [TxId -> Document])
           /\ ApprovedIsTold' /\ \A t \in TxId : Unsettled(doc[t])'
           /\ \A n \in told' : n.about = "rebill" => n.said # "waiting"
<1>0. TypeOK /\ ToldInv /\ MemoryIsTold(r) /\ HasTransaction(r)
  BY DEF HostedInv, Typed, ToldInv
<1>1. x \in TxId
  BY <1>0, TargetType DEF HasTransaction, Active, Step
<1>2. mem[r] \in Entity /\ mem[r] \in Document
  BY <1>0 DEF TypeOK, Entity, Document
<1>3. ApprovedBy(mem[r], x) /\ Unsettled(mem[r])
  BY <1>0 DEF MemoryIsTold, ApprovedBy
<1>4. ASSUME NEW t \in TxId
      PROVE  doc'[t] \in Document /\ ApprovedBy(doc[t], t)' /\ Unsettled(doc[t])'
  <2>1. ApprovedBy(doc[t], t) /\ Unsettled(doc[t]) /\ doc[t] \in Document
    BY <1>0 DEF ToldInv, ApprovedIsTold, TypeOK
  <2>2. doc'[t] = doc[t] \/ (t = x /\ doc'[t] = mem[r])
    BY <1>0, <1>1 DEF TypeOK
  <2>3. CASE doc'[t] = doc[t]
    BY <2>1, <2>3 DEF ApprovedBy, Explains, Unsettled
  <2>4. CASE t = x /\ doc'[t] = mem[r]
    BY <1>2, <1>3, <2>4 DEF ApprovedBy, Explains, Unsettled
  <2> QED  BY <2>2, <2>3, <2>4
<1>5. doc' \in [TxId -> Document]
  BY <1>0, <1>1, <1>2 DEF TypeOK
<1>6. \A n \in told' : n.about = "rebill" => n.said # "waiting"
  BY <1>0 DEF ToldInv
<1> QED  BY <1>1, <1>4, <1>5, <1>6 DEF ApprovedIsTold

LEMMA SaveHosted ==
    ASSUME HostedInv, NEW r \in Request, Save(r)
    PROVE  HostedInv'
<1>0. TypeOK /\ MemoryIsTold(r) /\ HasTransaction(r)
  BY DEF HostedInv, Typed, ToldInv
<1> DEFINE x == IF pc[r] = "save" THEN Target(r) ELSE made[r]
           next == IF pc[r] = "save" THEN "report" ELSE "reportCross"
<1>1. /\ pc[r] \in {"save", "saveCross"} /\ GoTo(r, next)
      /\ doc' = [doc EXCEPT ![x] = mem[r]]
      /\ told' = told /\ mem' = mem /\ kind' = kind /\ on' = on /\ made' = made
      /\ pages' = pages /\ bi' = bi /\ msg' = msg
  BY DEF Save
<1>2. /\ doc' \in [TxId -> Document]
      /\ ApprovedIsTold' /\ \A t \in TxId : Unsettled(doc[t])'
      /\ \A n \in told' : n.about = "rebill" => n.said # "waiting"
  BY <1>1, Storing
<1>3. next \in Step \cup Ended
  BY DEF Step
<1>4. /\ pc' \in [Request -> {"idle"} \cup Step \cup Ended] /\ pc'[r] = next
      /\ \A q \in Request \ {r} : pc'[q] = pc[q]
  BY <1>0, <1>1, <1>3, GoToType
<1>5. TypeOK'
  BY <1>0, <1>1, <1>2, <1>4 DEF TypeOK
<1>6. ASSUME NEW q \in Request PROVE MemoryIsTold(q)' /\ (HasTransaction(q)')
  <2>1. CASE q = r
    <3>1. HasTransaction(r)'
      BY <1>0, <1>1, <1>4 DEF HasTransaction, Active, Step
    <3>2. MemoryIsTold(r)'
      BY <1>0, <1>1, <1>4 DEF MemoryIsTold, ApprovedBy, Explains, Target, Unsettled
    <3> QED  BY <2>1, <3>1, <3>2
  <2>2. CASE q # r
    BY <1>1, <1>4, <2>2, MemoryKept
  <2> QED  BY <2>1, <2>2
<1> QED  BY <1>2, <1>5, <1>6 DEF HostedInv, Typed, ToldInv

LEMMA SaveFailsHosted ==
    ASSUME HostedInv, NEW r \in Request, SaveFails(r)
    PROVE  HostedInv'
<1>0. TypeOK
  BY DEF HostedInv, Typed
<1> DEFINE x == IF pc[r] = "save" THEN Target(r) ELSE made[r]
<1>1. /\ pc[r] \in {"save", "saveCross"} /\ GoTo(r, "failed")
      /\ doc' \in {doc, [doc EXCEPT ![x] = mem[r]]}
      /\ told' = told /\ mem' = mem /\ kind' = kind /\ on' = on /\ made' = made
      /\ pages' = pages /\ bi' = bi /\ msg' = msg
  BY DEF SaveFails
<1>2. /\ doc' \in [TxId -> Document]
      /\ ApprovedIsTold' /\ \A t \in TxId : Unsettled(doc[t])'
      /\ \A n \in told' : n.about = "rebill" => n.said # "waiting"
  BY <1>1, Storing
<1>3. "failed" \in Step \cup Ended
  BY DEF Ended
<1>4. /\ pc' \in [Request -> {"idle"} \cup Step \cup Ended] /\ pc'[r] = "failed"
      /\ \A q \in Request \ {r} : pc'[q] = pc[q]
  BY <1>0, <1>1, <1>3, GoToType
<1>5. TypeOK'
  BY <1>0, <1>1, <1>2, <1>4 DEF TypeOK
<1>6. ASSUME NEW q \in Request PROVE MemoryIsTold(q)' /\ (HasTransaction(q)')
  <2>1. CASE q = r
    BY <1>4, <2>1 DEF MemoryIsTold, HasTransaction, Active, Step
  <2>2. CASE q # r
    BY <1>1, <1>4, <2>2, MemoryKept
  <2> QED  BY <2>1, <2>2
<1> QED  BY <1>2, <1>5, <1>6 DEF HostedInv, Typed, ToldInv

LEMMA SaveRepeatedHosted ==
    ASSUME HostedInv, NEW r \in Request, SaveRepeated(r)
    PROVE  HostedInv'
<1>0. TypeOK
  BY DEF HostedInv, Typed
<1> DEFINE x == IF pc[r] = "save" THEN Target(r) ELSE made[r]
<1>1. /\ pc[r] \in {"save", "saveCross"} /\ pc' = pc
      /\ doc' \in {doc, [doc EXCEPT ![x] = mem[r]]}
      /\ told' = told /\ mem' = mem /\ kind' = kind /\ on' = on /\ made' = made
      /\ pages' = pages /\ bi' = bi /\ msg' = msg
  BY DEF SaveRepeated
<1>2. /\ doc' \in [TxId -> Document]
      /\ ApprovedIsTold' /\ \A t \in TxId : Unsettled(doc[t])'
      /\ \A n \in told' : n.about = "rebill" => n.said # "waiting"
  BY <1>1, Storing
<1>3. TypeOK'
  BY <1>0, <1>1, <1>2 DEF TypeOK
<1>4. ASSUME NEW q \in Request PROVE MemoryIsTold(q)' /\ (HasTransaction(q)')
  BY <1>1, MemoryKept
<1> QED  BY <1>2, <1>3, <1>4 DEF HostedInv, Typed, ToldInv

\* Reporting goes on to the cross sale of an Epoch sale, or ends the request.
LEMMA ReportHosted ==
    ASSUME HostedInv, NEW r \in Request, Report(r)
    PROVE  HostedInv'
<1>0. TypeOK /\ MemoryIsTold(r) /\ HasTransaction(r) /\ mem[r] \in Entity
  BY DEF HostedInv, Typed, ToldInv, TypeOK
<1>1. pc[r] \in {"report", "reportCross"} /\ on[r] \in TxId
  BY <1>0 DEF Report, HasTransaction, Active, Step
<1>2. Target(r) \in TxId /\ mem[r].status \in Status
  BY <1>0, <1>1, TargetType DEF Entity
<1>3. SentBy(mem[r].biller) \in Sender
  BY <1>0 DEF SentBy, Entity, Biller, Sender
<1>4. Opened(r) \subseteq TxId \X Sender
  BY <1>0, <1>1, <1>3 DEF Opened, TypeOK
<1>5. /\ doc' = doc /\ told' = told /\ mem' = mem /\ kind' = kind /\ on' = on
      /\ made' = made /\ msg' = msg
  BY DEF Report
<1>6. pages' \subseteq TxId \X Sender /\ bi' \subseteq TxId \X Status
  <2>1. pc[r] = "reportCross" => made[r] \in TxId
    BY <1>0 DEF HasTransaction
  <2> QED  BY <1>0, <1>2, <1>4, <2>1 DEF Report, TypeOK
<1>7. CASE GoTo(r, "done")
  <2>1. "done" \in Ended
    BY DEF Ended
  <2> QED  BY <1>5, <1>6, <1>7, <2>1, EndingHosted
<1>8. CASE ~GoTo(r, "done")
  <2>1. /\ GoTo(r, "saveCross") /\ pc[r] = "report"
        /\ made[r] \in TxId /\ mem[r].status = "pending"
    BY <1>0, <1>8 DEF Report, TypeOK
  <2>2. "saveCross" \in Step \cup Ended
    BY DEF Step
  <2>3. /\ pc' \in [Request -> {"idle"} \cup Step \cup Ended] /\ pc'[r] = "saveCross"
        /\ \A q \in Request \ {r} : pc'[q] = pc[q]
    BY <1>0, <2>1, <2>2, GoToType
  <2>4. TypeOK'
    BY <1>0, <1>5, <1>6, <2>3 DEF TypeOK
  <2>5. /\ ApprovedIsTold'
        /\ \A x \in TxId : Unsettled(doc[x])'
        /\ \A x \in told' : x.about = "rebill" => x.said # "waiting"
    BY <1>5 DEF HostedInv, ToldInv, ApprovedIsTold, ApprovedBy, Explains, Unsettled
  <2>6. ASSUME NEW q \in Request PROVE MemoryIsTold(q)' /\ (HasTransaction(q)')
    <3>1. CASE q = r
      BY <1>0, <1>1, <1>5, <2>1, <2>3, <3>1 DEF MemoryIsTold, HasTransaction, Unsettled
    <3>2. CASE q # r
      BY <1>5, <2>3, <3>2, MemoryKept
    <3> QED  BY <3>1, <3>2
  <2> QED  BY <2>4, <2>5, <2>6 DEF HostedInv, Typed, ToldInv
<1> QED  BY <1>7, <1>8

LEMMA FailsHosted ==
    ASSUME HostedInv, NEW r \in Request, CallFails(r) \/ Crash(r)
    PROVE  HostedInv'
<1>1. /\ GoTo(r, "failed")
      /\ doc' = doc /\ told' = told /\ mem' = mem /\ kind' = kind /\ on' = on
      /\ made' = made /\ msg' = msg /\ pages' = pages /\ bi' = bi
  BY DEF CallFails, Crash
<1>2. pages \subseteq TxId \X Sender /\ bi \subseteq TxId \X Status
  BY DEF HostedInv, Typed, TypeOK
<1>3. "failed" \in Ended
  BY DEF Ended
<1> QED  BY <1>1, <1>2, <1>3, EndingHosted

-----------------------------------------------------------------------------
(* The billers, and every step.                                            *)

LEMMA TellHosted ==
    ASSUME HostedInv, NEW n \in Notice, n.about = "rebill" => n.said # "waiting", Tell(n)
    PROVE  HostedInv'
<1>1. /\ told' = told \cup {n} /\ doc' = doc /\ pages' = pages /\ bi' = bi /\ pc' = pc
      /\ kind' = kind /\ on' = on /\ made' = made /\ mem' = mem /\ msg' = msg
  BY DEF Tell
<1>2. TypeOK'
  BY <1>1 DEF HostedInv, Typed, TypeOK
<1>3. /\ ApprovedIsTold'
      /\ \A x \in TxId : Unsettled(doc[x])'
      /\ \A x \in told' : x.about = "rebill" => x.said # "waiting"
  BY <1>1 DEF HostedInv, ToldInv, ApprovedIsTold, ApprovedBy, Explains, Unsettled
<1>4. \A q \in Request : MemoryIsTold(q)' /\ (HasTransaction(q)')
  BY <1>1, MemoryKept
<1> QED  BY <1>2, <1>3, <1>4 DEF HostedInv, Typed, ToldInv

LEMMA BillerTellsHosted ==
    ASSUME HostedInv, BillerTells
    PROVE  HostedInv'
<1>0. told \subseteq Notice /\ pages \subseteq TxId \X Sender
  BY DEF HostedInv, Typed, TypeOK
<1>1. ASSUME NEW page \in pages, NEW said \in Said, TellJoin(page[1], page[2], said)
      PROVE  HostedInv'
  <2> DEFINE n == [tx |-> page[1], from |-> page[2], about |-> "join", said |-> said]
  <2>1. n \in Notice /\ n.about # "rebill"
    BY <1>0 DEF Notice
  <2>2. Tell(n)
    BY <1>1 DEF TellJoin
  <2> QED  BY <2>1, <2>2, TellHosted
<1>2. ASSUME NEW m \in told, NEW said \in Said, TellRebill(m.tx, m.from, said)
      PROVE  HostedInv'
  <2> DEFINE n == [tx |-> m.tx, from |-> m.from, about |-> "rebill", said |-> said]
  <2>1. n \in Notice
    BY <1>0 DEF Notice
  <2>2. n.said # "waiting" /\ Tell(n)
    BY <1>2 DEF TellRebill
  <2> QED  BY <2>1, <2>2, TellHosted
<1>3. ASSUME NEW m \in told, NEW said \in Said, TellCrossSale(m.tx, said)
      PROVE  HostedInv'
  <2> DEFINE n == [tx |-> m.tx, from |-> "legacy", about |-> "crossSale", said |-> said]
  <2>1. n \in Notice /\ n.about # "rebill"
    BY <1>0 DEF Notice, Sender
  <2>2. Tell(n)
    BY <1>3 DEF TellCrossSale
  <2> QED  BY <2>1, <2>2, TellHosted
<1> QED  BY <1>1, <1>2, <1>3 DEF BillerTells

LEMMA StartHosted ==
    ASSUME HostedInv, NEW r \in Request, Start(r)
    PROVE  HostedInv'
<1>1. PICK t \in TxId :
         \/ \E b \in Biller, u \in TxId \cup {None} : StartSale(r, t, u, b)
         \/ StartQr(r, t) \/ StartQrAgain(r, t) \/ StartAbort(r, t)
         \/ \E u \in TxId : StartCancel(r, t, u)
         \/ \E k \in {"qr", "cancel", "abort"} : ClientRefused(r, t, k)
  BY DEF Start
<1> QED  BY <1>1, StartSaleHosted, StartQrHosted, StartQrAgainHosted, StartAbortHosted,
            StartCancelHosted, ClientRefusedHosted

LEMMA ReceiveHosted ==
    ASSUME HostedInv, NEW r \in Request, Receive(r)
    PROVE  HostedInv'
BY JoinUpdatesHosted, JoinCreatesHosted, RebillCreatesHosted, PostbackEndsHosted DEF Receive

LEMMA ProceedHosted ==
    ASSUME HostedInv, NEW r \in Request, Proceed(r)
    PROVE  HostedInv'
BY CallAnsweredHosted, SaveHosted, SaveFailsHosted, SaveRepeatedHosted,
   ReportHosted, FailsHosted DEF Proceed

LEMMA StepHosted == HostedInv /\ [Next]_vars => HostedInv'
<1> SUFFICES ASSUME HostedInv, [Next]_vars PROVE HostedInv'
  OBVIOUS
<1>1. CASE Next
  BY <1>1, StartHosted, ReceiveHosted, ProceedHosted, BillerTellsHosted DEF Next
<1>2. CASE UNCHANGED vars
  BY <1>2 DEF vars, HostedInv, Typed, TypeOK, HasTransaction, Active, ToldInv, ApprovedIsTold,
              MemoryIsTold, AwaitsAnswer, ApprovedBy, Explains, Target, Unsettled
<1> QED  BY <1>1, <1>2

-----------------------------------------------------------------------------
(* The theorems.                                                           *)

\* The state of hosted sales always has its type, whatever fails or overlaps.
THEOREM HostedTypeCorrect == Spec => []TypeOK
<1>1. HostedInv => TypeOK
  BY DEF HostedInv, Typed
<1> QED  BY <1>1, InitHosted, StepHosted, PTL DEF Spec

\* What a running request is about to save is always as well founded as what is
\* stored.
THEOREM MemoryIsAlwaysTold == Spec => []ToldInv
<1>1. HostedInv => ToldInv
  BY DEF HostedInv
<1> QED  BY <1>1, InitHosted, StepHosted, PTL DEF Spec

\* Every transaction stored as approved was approved by its biller, for that very
\* payment, however requests and postbacks overlap and whatever fails.
THEOREM ApprovedIsAlwaysTold == Spec => []ApprovedIsTold
<1>1. ToldInv => ApprovedIsTold
  BY DEF ToldInv
<1> QED  BY <1>1, MemoryIsAlwaysTold, PTL

-----------------------------------------------------------------------------
(* While QR codes and aborts are alone at work on a transaction and a       *)
(* payment has one outcome: one word of its biller, no page left before     *)
(* that, no declined cross sale.  Sales, postbacks and cancellations may    *)
(* overlap, and any of the other faults may happen.                         *)

\* The requests that rewrite a transaction without a word of its biller.
Rewriter == {"qr", "abort"}
RewritersAlone == Racing \cap Rewriter = {}
PaidOnce == Faults \cap {"earlyReturn", "payAgain", "declinedCross"} = {}

Settled(t) == doc[t].status \notin {"absent", "pending"}

\* The document of t says what the entity e does.
Same(t, e) == doc[t].status = e.status /\ doc[t].biller = e.biller

\* The charge a renewal or cancellation e is of.
Charged(e) == e.of \in TxId /\ doc[e.of].status = "approved" /\ doc[e.of].biller = e.biller

\* The handler works on the transaction the request is about, not on a new one.
InPlace(q) == kind[q] = "sale" \/ made[q] = None

\* Ids: nothing is known of one before a request takes it, a second transaction
\* belongs to the request that made it, and two requests at work on one
\* transaction in place are join postbacks.
Known(t) == doc[t].status # "absent" \/ (\E page \in pages : page[1] = t) => ~Fresh(t)
Named(q) ==
    /\ pc[q] = "idle" => on[q] = None /\ made[q] = None
    /\ pc[q] # "idle" => on[q] \in TxId
Closed(q) == made[q] # None => Loaded(doc[made[q]]).status # "pending"
Apart(p, q) ==
    /\ made[p] # None /\ made[p] = made[q] => p = q
    /\ Active(p) /\ InPlace(p) => made[q] # on[p]
    /\ p # q /\ Active(p) /\ Active(q) /\ InPlace(p) /\ InPlace(q) /\ on[p] = on[q] =>
          kind[p] = "join" /\ kind[q] = "join"

IdsInv ==
    /\ \A t \in TxId : Known(t)
    /\ \A q \in Request : Named(q) /\ Closed(q)
    /\ \A p, q \in Request : Apart(p, q)

\* The billers' word on a payment: one outcome, of a page that was opened; and
\* a transaction with a page has that outcome, or was aborted, or is pending.
OneWord ==
    /\ \A n \in told : n.about = "crossSale" => n.said = "approved"
    /\ \A n \in told : n.about = "join" => n.said # "waiting" /\ <<n.tx, n.from>> \in pages
    /\ \A m, n \in told : m.about = "join" /\ n.about = "join" /\ m.tx = n.tx => m = n
Shown(t) ==
    \/ doc[t].status \in {"pending", "aborted"}
    \/ \E n \in told : n.about = "join" /\ n.tx = t /\ doc[t].status = PostbackResult(n)
NotShown(q) ==
    Active(q) => \A page \in pages : page[1] # made[q] /\ (kind[q] = "sale" => page[1] # on[q])

WordInv ==
    /\ OneWord
    /\ \A page \in pages : Shown(page[1])
    /\ \A q \in Request : NotShown(q)

\* The work of a running request, seen from the documents: what it will save does
\* not change an outcome, what it saved is still so, and it holds what its kind
\* of handler makes of the notice.
Saves(q) ==
    /\ pc[q] = "call" => kind[q] \in {"sale", "qr", "cancel"} /\ ~Settled(Target(q))
    /\ pc[q] = "save" /\ Settled(Target(q)) => Same(Target(q), mem[q])
    /\ pc[q] \in {"report", "saveCross", "reportCross"} => Same(Target(q), mem[q])
    /\ pc[q] \in {"saveCross", "reportCross"} => kind[q] = "sale"
    /\ pc[q] = "reportCross" => Same(made[q], mem[q])
    /\ kind[q] = "sale" /\ made[q] # None => ~Settled(made[q]) /\ mem[q].biller = "epoch"
Renews(q) ==
    /\ mem[q].type # "charge" => Charged(mem[q])
    /\ ~InPlace(q) => mem[q].type # "charge" \/ mem[q].of # None
    /\ kind[q] \in {"rebill", "cancel"} => made[q] # None
Heeds(q) ==
    /\ kind[q] \in {"join", "rebill"} => msg[q] \in told /\ mem[q].status = PostbackResult(msg[q])
    /\ kind[q] = "join" /\ made[q] = None =>
          /\ msg[q].about = "join" /\ msg[q].tx = on[q]
          /\ mem[q].status # "pending" /\ mem[q].biller = doc[on[q]].biller
    /\ kind[q] = "qr" => made[q] = None /\ mem[q].status \in {"pending", "aborted"}
    /\ kind[q] = "abort" => made[q] = None /\ mem[q].status = "aborted"
Work(q) == Active(q) => Saves(q) /\ Renews(q) /\ Heeds(q)

Accepted(q) ==
    pc[q] = "done" /\ kind[q] \in {"join", "rebill"} /\ msg[q].said = "approved" =>
        \/ doc[Target(q)].status = "approved"
        \/ msg[q].from = "legacy" /\ doc[Target(q)].status = "aborted"

RequestInv == \A q \in Request : Work(q) /\ Accepted(q)

StoredRebills == \A t \in TxId : doc[t].status # "absent" /\ doc[t].type # "charge" => Charged(doc[t])

\* Inductive while rewriters are alone and a payment has one outcome.
OutcomeInv ==
    /\ HostedInv /\ IdsInv /\ WordInv /\ RequestInv
    /\ StoredRebills /\ ReportedIsStored

\* A step changes no outcome and removes no document.
Stands ==
    \A t \in TxId :
        /\ Settled(t) => doc'[t].status = doc[t].status /\ doc'[t].biller = doc[t].biller
        /\ doc[t].status # "absent" => doc'[t].status # "absent"

-----------------------------------------------------------------------------
(* What the others' steps leave.                                           *)

LEMMA ChargedStands ==
    ASSUME Stands, NEW e, Charged(e)
    PROVE  e.of \in TxId /\ doc'[e.of].status = "approved" /\ doc'[e.of].biller = e.biller
BY DEF Stands, Settled, Charged

\* A request that is not at work finds its word again in the documents.
LEMMA AcceptedStands ==
    ASSUME OutcomeInv, Stands, NEW q \in Request, pc'[q] = pc[q], kind'[q] = kind[q],
           on'[q] = on[q], made'[q] = made[q], msg'[q] = msg[q]
    PROVE  Accepted(q)'
<1>1. Accepted(q) /\ Named(q) /\ TypeOK
  BY DEF OutcomeInv, RequestInv, IdsInv, HostedInv, Typed
<1>2. Target(q)' = Target(q)
  BY DEF Target
<1>3. SUFFICES ASSUME pc[q] = "done" PROVE Accepted(q)'
  BY DEF Accepted
<1>4. Target(q) \in TxId
  BY <1>1, <1>3 DEF Target, Named, TypeOK
<1>5. doc[Target(q)].status \in {"approved", "aborted"} => doc'[Target(q)].status = doc[Target(q)].status
  BY <1>4 DEF Stands, Settled
<1> QED  BY <1>1, <1>2, <1>5 DEF Accepted

\* A request's work goes on if what it watches stays, or another join wrote the
\* same outcome.
LEMMA WorkStands ==
    ASSUME OutcomeInv, Stands, NEW q \in Request, told \subseteq told',
           pc'[q] = pc[q], kind'[q] = kind[q], on'[q] = on[q], made'[q] = made[q],
           mem'[q] = mem[q], msg'[q] = msg[q],
           Active(q) =>
              \/ \A t \in {Target(q), made[q]} \cap TxId : doc'[t] = doc[t]
              \/ /\ kind[q] = "join" /\ made[q] = None
                 /\ Same(on[q], mem[q])' /\ doc'[on[q]].biller = doc[on[q]].biller
    PROVE  Work(q)'
<1> SUFFICES ASSUME Active(q) PROVE (Saves(q) /\ Renews(q) /\ Heeds(q))'
  BY DEF Work, Active
<1>1. Work(q) /\ TypeOK /\ HasTransaction(q) /\ on[q] \in TxId
  BY DEF OutcomeInv, RequestInv, HostedInv, Typed, HasTransaction
<1>2. Target(q)' = Target(q) /\ Target(q) \in TxId
  BY <1>1, TargetType DEF Target
<1>3. Saves(q) /\ Renews(q) /\ Heeds(q)
  BY <1>1 DEF Work
<1>4. Renews(q)'
  <2>1. mem[q].type # "charge" => Charged(mem[q])'
    BY <1>3, ChargedStands DEF Renews, Charged
  <2> QED  BY <1>3, <2>1 DEF Renews, InPlace
<1>5. CASE \A t \in {Target(q), made[q]} \cap TxId : doc'[t] = doc[t]
  <2>1. doc'[Target(q)] = doc[Target(q)]
    BY <1>2, <1>5
  <2>2. made[q] # None => doc'[made[q]] = doc[made[q]]
    BY <1>1, <1>5 DEF TypeOK
  <2>3. kind[q] = "join" /\ made[q] = None => Target(q) = on[q]
    BY DEF Target
  <2>4. pc[q] = "reportCross" => made[q] # None
    BY <1>1, NoneAssumption DEF HasTransaction
  <2>5. Saves(q)'
    BY <1>2, <1>3, <2>1, <2>2, <2>4 DEF Saves, Same, Settled
  <2>6. Heeds(q)'
    BY <1>3, <2>1, <2>3 DEF Heeds
  <2> QED  BY <1>4, <2>5, <2>6
<1>6. CASE /\ kind[q] = "join" /\ made[q] = None
           /\ Same(on[q], mem[q])' /\ doc'[on[q]].biller = doc[on[q]].biller
  <2>1. Target(q) = on[q] /\ Same(Target(q), mem[q])'
    BY <1>2, <1>6 DEF Target, Same
  <2>2. pc[q] \notin {"call", "saveCross", "reportCross"}
    BY <1>3, <1>6 DEF Saves
  <2>3. Saves(q)'
    BY <1>6, <2>1, <2>2 DEF Saves
  <2>4. Heeds(q)'
    BY <1>3, <1>6 DEF Heeds
  <2> QED  BY <1>4, <2>3, <2>4
<1> QED  BY <1>5, <1>6

\* The ids stay in order while no request starts.
LEMMA IdsStand ==
    ASSUME OutcomeInv, kind' = kind, on' = on, made' = made,
           \A q \in Request : (pc'[q] \in Step => pc[q] \in Step) /\ (pc'[q] = "idle" <=> pc[q] = "idle"),
           \A t \in TxId : doc'[t].status # "absent" \/ (\E page \in pages' : page[1] = t) => ~Fresh(t),
           \A q \in Request : Closed(q)'
    PROVE  IdsInv'
<1>1. \A t \in TxId : Known(t)'
  BY DEF Known, Fresh
<1>2. \A q \in Request : Named(q)'
  BY DEF OutcomeInv, IdsInv, Named
<1>3. ASSUME NEW p \in Request, NEW q \in Request PROVE Apart(p, q)'
  <2>1. Apart(p, q)
    BY DEF OutcomeInv, IdsInv
  <2> QED  BY <2>1 DEF Apart, Active, InPlace
<1> QED  BY <1>1, <1>2, <1>3 DEF IdsInv

\* What the records say stands with the outcomes.
LEMMA RecordsStand ==
    ASSUME OutcomeInv, Stands, NEW t \in TxId, doc'[t] = doc[t],
           doc[t].status # "absent", doc[t].type # "charge"
    PROVE  Charged(doc[t])'
<1>1. Charged(doc[t])
  BY DEF OutcomeInv, StoredRebills
<1> QED  BY <1>1, ChargedStands DEF Charged

LEMMA ReportsStand ==
    ASSUME OutcomeInv, Stands, bi' = bi
    PROVE  ReportedIsStored'
<1>1. bi \subseteq TxId \X Status /\ ReportedIsStored
  BY DEF OutcomeInv, HostedInv, Typed, TypeOK
<1>2. ASSUME NEW e \in bi
      PROVE  /\ doc'[e[1]].status # "absent"
             /\ e[2] # "pending" => doc'[e[1]].status = e[2]
  <2>1. e[1] \in TxId /\ e[2] \in Status
    BY <1>1
  <2>2. /\ doc[e[1]].status # "absent"
        /\ e[2] # "pending" => doc[e[1]].status = e[2]
    BY <1>1 DEF ReportedIsStored
  <2> QED  BY <2>1, <2>2 DEF Stands, Settled
<1> QED  BY <1>2 DEF ReportedIsStored

-----------------------------------------------------------------------------
(* Saving.                                                                 *)

\* A save by r of x, whichever attempt of it takes effect.
Writes(r, x) ==
    /\ x = (IF pc[r] = "save" THEN Target(r) ELSE made[r])
    /\ pc[r] \in {"save", "saveCross"}
    /\ doc' = doc \/ doc' = [doc EXCEPT ![x] = mem[r]]
    /\ \/ pc'[r] = pc[r] \/ pc'[r] = "failed"
       \/ /\ doc' = [doc EXCEPT ![x] = mem[r]]
          /\ pc'[r] = (IF pc[r] = "save" THEN "report" ELSE "reportCross")
    /\ \A q \in Request \ {r} : pc'[q] = pc[q]
    /\ kind' = kind /\ on' = on /\ made' = made /\ mem' = mem /\ msg' = msg
    /\ told' = told /\ pages' = pages /\ bi' = bi

LEMMA SavingWrites ==
    ASSUME OutcomeInv, NEW r \in Request, Save(r) \/ SaveFails(r) \/ SaveRepeated(r)
    PROVE  \E x \in TxId : Writes(r, x)
<1> DEFINE x == IF pc[r] = "save" THEN Target(r) ELSE made[r]
<1>0. pc \in [Request -> {"idle"} \cup Step \cup Ended]
  BY DEF OutcomeInv, HostedInv, Typed, TypeOK
<1>1. pc[r] \in {"save", "saveCross"}
  BY DEF Save, SaveFails, SaveRepeated
<1>2. x \in TxId
  BY <1>1, TargetType DEF OutcomeInv, HostedInv, Typed, HasTransaction, Active, Step
<1>3. Writes(r, x)
  BY <1>0, <1>1 DEF Save, SaveFails, SaveRepeated, GoTo, Writes
<1> QED  BY <1>2, <1>3

\* What is known of a request about to save x.
LEMMA WriterFacts ==
    ASSUME OutcomeInv, NEW r \in Request, NEW x \in TxId, Writes(r, x)
    PROVE  /\ Active(r) /\ Saves(r) /\ Renews(r) /\ Heeds(r) /\ mem[r] \in Entity
           /\ Unsettled(mem[r]) /\ on[r] \in TxId
           /\ (InPlace(r) => made[r] # on[r]) /\ kind[r] \in Kind
           /\ \/ x = on[r] /\ InPlace(r) /\ pc[r] = "save"
              \/ x = made[r] /\ ~InPlace(r) /\ pc[r] = "save"
              \/ x = made[r] /\ kind[r] = "sale" /\ pc[r] = "saveCross"
           /\ pc[r] = "save" => x = Target(r)
<1>1. pc[r] \in {"save", "saveCross"} /\ Active(r)
  BY DEF Writes, Active, Step
<1>2. Saves(r) /\ Renews(r) /\ Heeds(r)
  BY <1>1 DEF OutcomeInv, RequestInv, Work
<1>3. mem[r] \in Entity /\ kind[r] \in Kind /\ on[r] \in TxId
  BY <1>1 DEF OutcomeInv, HostedInv, Typed, TypeOK, HasTransaction
<1>4. Unsettled(mem[r])
  BY <1>1 DEF OutcomeInv, HostedInv, ToldInv, MemoryIsTold
<1>5. InPlace(r) => made[r] # on[r]
  BY <1>1 DEF OutcomeInv, IdsInv, Apart
<1>6. /\ \/ x = on[r] /\ InPlace(r) /\ pc[r] = "save"
         \/ x = made[r] /\ ~InPlace(r) /\ pc[r] = "save"
         \/ x = made[r] /\ kind[r] = "sale" /\ pc[r] = "saveCross"
      /\ pc[r] = "save" => x = Target(r)
  BY <1>1, <1>2 DEF Writes, Target, InPlace, Saves
<1> QED  BY <1>1, <1>2, <1>3, <1>4, <1>5, <1>6

\* Only a join that works on x in place shares it.
LEMMA WriterAlone ==
    ASSUME OutcomeInv, NEW r \in Request, NEW x \in TxId, Writes(r, x),
           NEW q \in Request, q # r
    PROVE  /\ x # made[q]
           /\ Active(q) /\ x = Target(q) =>
                 /\ x = on[r] /\ x = on[q] /\ pc[r] = "save"
                 /\ kind[r] = "join" /\ kind[q] = "join" /\ made[r] = None /\ made[q] = None
<1>1. /\ Active(r) /\ kind[r] \in Kind
      /\ \/ x = on[r] /\ InPlace(r) /\ pc[r] = "save"
         \/ x = made[r]
  BY WriterFacts
<1>2. Apart(r, q) /\ Apart(q, r)
  BY DEF OutcomeInv, IdsInv
<1>3. x # None
  BY NoneAssumption
<1>4. x # made[q]
  BY <1>1, <1>2, <1>3 DEF Apart
<1>5. ASSUME Active(q), x = Target(q)
      PROVE  /\ x = on[r] /\ x = on[q] /\ pc[r] = "save"
             /\ kind[r] = "join" /\ kind[q] = "join" /\ made[r] = None /\ made[q] = None
  <2>1. x = on[q] /\ InPlace(q)
    BY <1>4, <1>5 DEF Target, InPlace
  <2>2. x # made[r]
    BY <1>2, <1>5, <2>1 DEF Apart
  <2>3. x = on[r] /\ InPlace(r) /\ pc[r] = "save"
    BY <1>1, <2>2
  <2>4. kind[r] = "join" /\ kind[q] = "join"
    BY <1>1, <1>2, <1>5, <2>1, <2>3 DEF Apart
  <2> QED  BY <2>1, <2>3, <2>4 DEF InPlace
<1> QED  BY <1>4, <1>5

LEMMA WriteStands ==
    ASSUME OutcomeInv, NEW r \in Request, NEW x \in TxId, Writes(r, x)
    PROVE  Stands
<1>1. ASSUME NEW t \in TxId, Settled(t)
      PROVE  doc'[t].status = doc[t].status /\ doc'[t].biller = doc[t].biller
  <2>1. CASE doc'[t] = doc[t]
    BY <2>1
  <2>2. CASE doc'[t] # doc[t]
    <3>1. t = x /\ doc'[t] = mem[r]
      BY <2>2 DEF Writes, OutcomeInv, HostedInv, Typed, TypeOK
    <3>2. pc[r] = "save"
      BY <1>1, <3>1, WriterFacts, NoneAssumption DEF Saves, Settled
    <3>3. Same(x, mem[r])
      BY <1>1, <3>1, <3>2, WriterFacts DEF Saves
    <3> QED  BY <3>1, <3>3 DEF Same
  <2> QED  BY <2>1, <2>2
<1>2. ASSUME NEW t \in TxId, doc[t].status # "absent" PROVE doc'[t].status # "absent"
  <2>1. doc'[t] = doc[t] \/ doc'[t] = mem[r]
    BY DEF Writes, OutcomeInv, HostedInv, Typed, TypeOK
  <2>2. mem[r].status # "absent"
    BY WriterFacts DEF Entity, Status
  <2> QED  BY <1>2, <2>1, <2>2
<1> QED  BY <1>1, <1>2 DEF Stands

LEMMA WriteOthers ==
    ASSUME OutcomeInv, NEW r \in Request, NEW x \in TxId, Writes(r, x),
           NEW q \in Request, q # r
    PROVE  Work(q)'
<1>1. Stands
  BY WriteStands
<1>2. \A t \in TxId : doc'[t] = doc[t] \/ (t = x /\ doc'[t] = mem[r])
  BY DEF Writes, OutcomeInv, HostedInv, Typed, TypeOK
<1>3. x # made[q]
  BY WriterAlone
<1>4. /\ told' = told /\ pc'[q] = pc[q] /\ kind'[q] = kind[q] /\ on'[q] = on[q]
      /\ made'[q] = made[q] /\ mem'[q] = mem[q] /\ msg'[q] = msg[q]
  BY DEF Writes
<1>5. CASE ~Active(q)
  BY <1>4, <1>5 DEF Work, Active
<1>6. CASE Active(q) /\ (x # Target(q) \/ doc' = doc)
  <2>1. \A t \in {Target(q), made[q]} \cap TxId : doc'[t] = doc[t]
    BY <1>2, <1>3, <1>6
  <2> QED  BY <1>1, <1>4, <2>1, WorkStands
<1>7. CASE Active(q) /\ x = Target(q) /\ doc' # doc
  <2>1. /\ x = on[r] /\ x = on[q] /\ pc[r] = "save"
        /\ kind[r] = "join" /\ kind[q] = "join" /\ made[r] = None /\ made[q] = None
    BY <1>7, WriterAlone
  <2>2. Heeds(r) /\ Heeds(q)
    BY <1>7, WriterFacts DEF OutcomeInv, RequestInv, Work
  <2>3. msg[q] = msg[r]
    BY <2>1, <2>2 DEF Heeds, OutcomeInv, WordInv, OneWord
  <2>4. mem[q].status = mem[r].status /\ mem[q].biller = doc[x].biller /\ mem[r].biller = doc[x].biller
    BY <2>1, <2>2, <2>3 DEF Heeds
  <2>5. doc'[x] = mem[r]
    BY <1>7 DEF Writes, OutcomeInv, HostedInv, Typed, TypeOK
  <2>6. Same(on[q], mem[q])' /\ doc'[on[q]].biller = doc[on[q]].biller
    BY <1>4, <2>1, <2>4, <2>5 DEF Same
  <2> QED  BY <1>1, <1>4, <2>1, <2>6, WorkStands
<1> QED  BY <1>5, <1>6, <1>7

LEMMA WriteOwn ==
    ASSUME OutcomeInv, NEW r \in Request, NEW x \in TxId, Writes(r, x)
    PROVE  Work(r)'
<1> SUFFICES ASSUME Active(r)' PROVE (Saves(r) /\ Renews(r) /\ Heeds(r))'
  BY DEF Work
<1>0. /\ kind' = kind /\ on' = on /\ made' = made /\ mem' = mem /\ msg' = msg /\ told' = told
      /\ Target(r)' = Target(r)
  BY DEF Writes, Target
<1>1. Stands
  BY WriteStands
<1>2. \A t \in TxId : doc'[t] = doc[t] \/ (t = x /\ doc'[t] = mem[r])
  BY DEF Writes, OutcomeInv, HostedInv, Typed, TypeOK
<1>3. /\ Saves(r) /\ Renews(r) /\ Heeds(r) /\ on[r] \in TxId
      /\ InPlace(r) => made[r] # on[r]
      /\ \/ x = on[r] /\ InPlace(r) /\ pc[r] = "save"
         \/ x = made[r] /\ ~InPlace(r) /\ pc[r] = "save"
         \/ x = made[r] /\ kind[r] = "sale" /\ pc[r] = "saveCross"
      /\ pc[r] = "save" => x = Target(r)
  BY WriterFacts
<1>4. Renews(r)'
  <2>1. mem[r].type # "charge" => Charged(mem[r])'
    BY <1>0, <1>1, <1>3, ChargedStands DEF Renews, Charged
  <2> QED  BY <1>0, <1>3, <2>1 DEF Renews, InPlace
<1>5. Heeds(r)'
  <2>1. ASSUME kind[r] = "join", made[r] = None PROVE doc'[on[r]].biller = doc[on[r]].biller
    <3>1. mem[r].biller = doc[on[r]].biller
      BY <1>3, <2>1 DEF Heeds
    <3> QED  BY <1>2, <1>3, <3>1
  <2> QED  BY <1>0, <1>3, <2>1 DEF Heeds
<1>6. CASE pc[r] = "save"
  <2>1. x = Target(r) /\ (pc'[r] = "save" \/ (pc'[r] = "report" /\ doc'[x] = mem[r]))
    BY <1>3, <1>6 DEF Writes, Active, Step, OutcomeInv, HostedInv, Typed, TypeOK
  <2>2. pc'[r] = "save" /\ Settled(x)' => Same(x, mem[r])'
    BY <1>0, <1>2, <1>3, <1>6, <2>1 DEF Saves, Settled, Same
  <2>3. pc'[r] = "report" => Same(x, mem[r])'
    BY <1>0, <2>1 DEF Same
  <2>4. kind[r] = "sale" /\ made[r] # None => ~Settled(made[r])' /\ mem[r].biller = "epoch"
    <3>1. kind[r] = "sale" => x = on[r] /\ made[r] # on[r]
      BY <1>3, <1>6 DEF InPlace
    <3>2. made[r] # None => made[r] \in TxId
      BY DEF OutcomeInv, HostedInv, Typed, TypeOK
    <3> QED  BY <1>0, <1>2, <1>3, <3>1, <3>2 DEF Saves, Settled
  <2> QED  BY <1>0, <1>4, <1>5, <2>1, <2>2, <2>3, <2>4 DEF Saves
<1>7. CASE pc[r] = "saveCross"
  <2>1. x = made[r] /\ kind[r] = "sale" /\ Target(r) = on[r]
        /\ (pc'[r] = "saveCross" \/ (pc'[r] = "reportCross" /\ doc'[x] = mem[r]))
    BY <1>3, <1>7 DEF Writes, Active, Step, OutcomeInv, HostedInv, Typed, TypeOK, Target
  <2>2. Same(on[r], mem[r])'
    BY <1>0, <1>2, <1>3, <1>7, <2>1 DEF Saves, Same
  <2>3. mem[r].status = "pending"
    BY <1>7 DEF OutcomeInv, HostedInv, ToldInv, MemoryIsTold
  <2>4. ~Settled(made[r])' /\ mem[r].biller = "epoch"
    BY <1>0, <1>2, <1>3, <2>1, <2>3, NoneAssumption DEF Saves, Settled
  <2>5. pc'[r] = "reportCross" => Same(made[r], mem[r])'
    BY <1>0, <2>1 DEF Same
  <2> QED  BY <1>0, <1>4, <1>5, <2>1, <2>2, <2>4, <2>5 DEF Saves
<1> QED  BY <1>3, <1>6, <1>7

LEMMA WriteIds ==
    ASSUME OutcomeInv, NEW r \in Request, NEW x \in TxId, Writes(r, x)
    PROVE  IdsInv'
<1>0. /\ kind' = kind /\ on' = on /\ made' = made /\ pages' = pages
      /\ \A t \in TxId : doc'[t] = doc[t] \/ (t = x /\ doc'[t] = mem[r])
  BY DEF Writes, OutcomeInv, HostedInv, Typed, TypeOK
<1>1. /\ Active(r) /\ Saves(r) /\ Renews(r) /\ mem[r] \in Entity /\ Unsettled(mem[r])
      /\ InPlace(r) => made[r] # on[r]
      /\ \/ x = on[r] /\ InPlace(r) /\ pc[r] = "save"
         \/ x = made[r] /\ ~InPlace(r) /\ pc[r] = "save"
         \/ x = made[r] /\ kind[r] = "sale" /\ pc[r] = "saveCross"
  BY WriterFacts
<1>2. \A q \in Request : (pc'[q] \in Step => pc[q] \in Step) /\ (pc'[q] = "idle" <=> pc[q] = "idle")
  BY <1>1 DEF Writes, Active, Step
<1>3. \A t \in TxId : doc'[t].status # "absent" \/ (\E page \in pages' : page[1] = t) => ~Fresh(t)
  BY <1>0, <1>1 DEF OutcomeInv, IdsInv, Known, Fresh
<1>4. ASSUME NEW q \in Request PROVE Closed(q)'
  <2>1. Closed(q) /\ (made[q] # None => made[q] \in TxId)
    BY DEF OutcomeInv, IdsInv, HostedInv, Typed, TypeOK
  <2>2. CASE q = r /\ x = made[r]
    <3>1. Loaded(mem[r]).status # "pending"
      BY <1>1, <2>2, NoneAssumption DEF Renews, Unsettled, Loaded, Saves, Entity
    <3> QED  BY <1>0, <2>1, <2>2, <3>1 DEF Closed
  <2>3. CASE x # made[q]
    BY <1>0, <2>1, <2>3 DEF Closed
  <2> QED  BY <2>2, <2>3, WriterAlone
<1> QED  BY <1>0, <1>2, <1>3, <1>4, IdsStand

LEMMA WriteWord ==
    ASSUME OutcomeInv, NEW r \in Request, NEW x \in TxId, Writes(r, x)
    PROVE  WordInv'
<1>0. /\ kind' = kind /\ on' = on /\ made' = made /\ pages' = pages /\ told' = told
      /\ \A t \in TxId : doc'[t] = doc[t] \/ (t = x /\ doc'[t] = mem[r])
      /\ \A q \in Request : Active(q)' => Active(q)
      /\ pages \subseteq TxId \X Sender
  BY DEF Writes, OutcomeInv, HostedInv, Typed, TypeOK, Active, Step
<1>1. /\ Active(r) /\ Renews(r) /\ Heeds(r) /\ kind[r] \in Kind
      /\ x = made[r] \/ (x = on[r] /\ InPlace(r))
  BY WriterFacts
<1>2. OneWord' /\ \A q \in Request : NotShown(q)'
  BY <1>0 DEF OutcomeInv, WordInv, OneWord, NotShown
<1>3. ASSUME NEW page \in pages PROVE Shown(page[1])'
  <2>1. Shown(page[1]) /\ NotShown(r) /\ page[1] \in TxId
    BY <1>0 DEF OutcomeInv, WordInv
  <2>2. CASE doc'[page[1]] = doc[page[1]]
    BY <1>0, <2>1, <2>2 DEF Shown
  <2>3. CASE page[1] = x /\ doc'[x] = mem[r]
    <3>1. x = on[r] /\ InPlace(r) /\ kind[r] # "sale"
      BY <1>1, <2>1, <2>3 DEF NotShown
    <3>2. kind[r] \in {"qr", "join", "abort"} /\ made[r] = None
      BY <1>1, <3>1 DEF Kind, InPlace, Renews
    <3>3. \/ mem[r].status \in {"pending", "aborted"}
          \/ /\ msg[r] \in told /\ msg[r].about = "join" /\ msg[r].tx = x
             /\ mem[r].status = PostbackResult(msg[r])
      BY <1>1, <3>1, <3>2 DEF Heeds
    <3> QED  BY <1>0, <2>3, <3>3 DEF Shown
  <2> QED  BY <1>0, <2>1, <2>2, <2>3
<1> QED  BY <1>0, <1>2, <1>3 DEF WordInv

LEMMA SavingOutcome ==
    ASSUME OutcomeInv, NEW r \in Request, Save(r) \/ SaveFails(r) \/ SaveRepeated(r)
    PROVE  OutcomeInv' /\ Stands
<1>1. PICK x \in TxId : Writes(r, x)
  BY SavingWrites
<1>2. HostedInv'
  BY SaveHosted, SaveFailsHosted, SaveRepeatedHosted DEF OutcomeInv
<1>3. Stands
  BY <1>1, WriteStands
<1>4. \A q \in Request : Work(q)'
  BY <1>1, WriteOthers, WriteOwn
<1>5. ASSUME NEW q \in Request PROVE Accepted(q)'
  <2>1. CASE q = r
    <3>1. pc'[r] # "done"
      BY <1>1 DEF Writes
    <3> QED  BY <2>1, <3>1 DEF Accepted
  <2>2. CASE q # r
    <3>1. /\ pc'[q] = pc[q] /\ kind'[q] = kind[q] /\ on'[q] = on[q]
          /\ made'[q] = made[q] /\ msg'[q] = msg[q]
      BY <1>1, <2>2 DEF Writes
    <3> QED  BY <1>3, <3>1, AcceptedStands
  <2> QED  BY <2>1, <2>2
<1>6. ASSUME NEW t \in TxId, doc'[t].status # "absent", doc'[t].type # "charge"
      PROVE  Charged(doc[t])'
  <2>1. doc'[t] = doc[t] \/ doc'[t] = mem[r]
    BY <1>1 DEF Writes, OutcomeInv, HostedInv, Typed, TypeOK
  <2>2. CASE doc'[t] = doc[t]
    BY <1>3, <1>6, <2>2, RecordsStand
  <2>3. CASE doc'[t] = mem[r]
    <3>1. Charged(mem[r])
      BY <1>1, <1>6, <2>3, WriterFacts DEF Renews
    <3> QED  BY <1>3, <2>3, <3>1, ChargedStands DEF Charged
  <2> QED  BY <2>1, <2>2, <2>3
<1>7. ReportedIsStored'
  <2>1. bi' = bi
    BY <1>1 DEF Writes
  <2> QED  BY <1>3, <2>1, ReportsStand
<1> QED  BY <1>1, <1>2, <1>3, <1>4, <1>5, <1>6, <1>7, WriteIds, WriteWord
         DEF OutcomeInv, RequestInv, StoredRebills

-----------------------------------------------------------------------------
(* The other steps of a running request.                                   *)

LEMMA UnchangedStands == doc' = doc => Stands
BY DEF Stands

LEMMA PostbackApproves ==
    ASSUME NEW n, n.said = "approved"
    PROVE  PostbackResult(n) = "approved"
BY DEF PostbackResult

\* The pages a report opens are of transactions stored as pending, and no other
\* request at work on them opens one.
LEMMA OpensPending ==
    ASSUME OutcomeInv, NEW r \in Request, Report(r), pages' # pages,
           NEW page \in Opened(r)
    PROVE  /\ page[1] \in {on[r], made[r]} \ {None} /\ kind[r] \in {"sale", "qr"}
           /\ doc[page[1]].status = "pending"
<1>1. /\ page[1] \in {on[r], made[r]} \ {None} /\ kind[r] \in {"sale", "qr"}
      /\ mem[r].status = "pending"
  BY DEF Opened
<1>2. /\ pc[r] \in {"report", "reportCross"}
      /\ pc[r] = "report" => ~(kind[r] = "sale" /\ made[r] # None)
  BY <1>1 DEF Report
<1>3. Saves(r) /\ Heeds(r)
  BY <1>2 DEF OutcomeInv, RequestInv, Work, Active, Step
<1>4. Same(Target(r), mem[r])
  BY <1>2, <1>3 DEF Saves
<1>5. on[r] = Target(r)
  BY <1>1, <1>3 DEF Target, Heeds
<1>6. CASE pc[r] = "report"
  <2>1. made[r] = None
    BY <1>1, <1>2, <1>3, <1>6 DEF Heeds
  <2> QED  BY <1>1, <1>4, <1>5, <2>1 DEF Same
<1>7. CASE pc[r] = "reportCross"
  <2>1. Same(made[r], mem[r])
    BY <1>3, <1>7 DEF Saves
  <2> QED  BY <1>1, <1>4, <1>5, <2>1 DEF Same
<1> QED  BY <1>1, <1>2, <1>6, <1>7

LEMMA ReportOutcome ==
    ASSUME OutcomeInv, NEW r \in Request, Report(r)
    PROVE  OutcomeInv' /\ Stands
<1>0. TypeOK /\ pc[r] \in {"report", "reportCross"} /\ Active(r)
  BY DEF OutcomeInv, HostedInv, Typed, Report, Active, Step
<1>1. /\ doc' = doc /\ told' = told /\ kind' = kind /\ on' = on /\ made' = made
      /\ mem' = mem /\ msg' = msg
      /\ \/ pages' = pages
         \/ pages' = pages \cup Opened(r)
  BY DEF Report
<1>2. /\ \A q \in Request \ {r} : pc'[q] = pc[q]
      /\ \/ pc'[r] = "done"
         \/ pc'[r] = "saveCross" /\ pc[r] = "report" /\ kind[r] = "sale" /\ pages' = pages
  BY <1>0 DEF Report, GoTo, TypeOK
<1>3. Saves(r) /\ Renews(r) /\ Heeds(r)
  BY <1>0 DEF OutcomeInv, RequestInv, Work
<1>4. HostedInv'
  BY ReportHosted DEF OutcomeInv
<1>5. Stands
  BY <1>1, UnchangedStands
<1>6. ASSUME NEW q \in Request PROVE Work(q)' /\ Accepted(q)'
  <2>1. CASE q = r
    <3>1. Work(r)'
      <4>1. CASE pc'[r] = "done"
        BY <4>1 DEF Work, Active, Step
      <4>2. CASE pc'[r] # "done"
        <5>1. pc'[r] = "saveCross" /\ pc[r] = "report" /\ kind[r] = "sale"
          BY <1>2, <4>2
        <5>2. Saves(r)'
          BY <1>1, <1>3, <5>1 DEF Saves, Same, Target, Settled
        <5>3. Renews(r)' /\ Heeds(r)'
          BY <1>1, <1>3 DEF Renews, Heeds, Charged, InPlace
        <5> QED  BY <5>2, <5>3 DEF Work
      <4> QED  BY <4>1, <4>2
    <3>2. ASSUME kind[r] \in {"join", "rebill"}, msg[r].said = "approved"
          PROVE  doc[Target(r)].status = "approved"
      <4>1. mem[r].status = "approved"
        BY <1>3, <3>2, PostbackApproves DEF Heeds
      <4>2. Same(Target(r), mem[r])
        BY <1>0, <1>3 DEF Saves
      <4> QED  BY <4>1, <4>2 DEF Same
    <3>3. Accepted(r)'
      BY <1>1, <3>2 DEF Accepted, Target
    <3> QED  BY <2>1, <3>1, <3>3
  <2>2. CASE q # r
    <3>1. /\ pc'[q] = pc[q] /\ kind'[q] = kind[q] /\ on'[q] = on[q]
          /\ made'[q] = made[q] /\ mem'[q] = mem[q] /\ msg'[q] = msg[q]
      BY <1>1, <1>2, <2>2
    <3> QED  BY <1>1, <1>5, <3>1, WorkStands, AcceptedStands
  <2> QED  BY <2>1, <2>2
<1>7. IdsInv'
  <2>1. \A q \in Request : (pc'[q] \in Step => pc[q] \in Step) /\ (pc'[q] = "idle" <=> pc[q] = "idle")
    BY <1>0, <1>2 DEF Active
  <2>2. \A q \in Request : Closed(q)'
    BY <1>1 DEF OutcomeInv, IdsInv, Closed
  <2>3. ASSUME NEW t \in TxId, doc'[t].status # "absent" \/ \E page \in pages' : page[1] = t
        PROVE  ~Fresh(t)
    <3>1. CASE doc[t].status # "absent" \/ \E page \in pages : page[1] = t
      BY <3>1 DEF OutcomeInv, IdsInv, Known
    <3>2. CASE pages' # pages /\ \E page \in Opened(r) : page[1] = t
      BY <3>2, OpensPending DEF Fresh
    <3> QED  BY <1>1, <2>3, <3>1, <3>2
  <2> QED  BY <1>1, <2>1, <2>2, <2>3, IdsStand
<1>8. WordInv'
  <2>1. OneWord'
    BY <1>1 DEF OutcomeInv, WordInv, OneWord
  <2>2. ASSUME NEW page \in pages' PROVE Shown(page[1])'
    <3>1. Shown(page[1])
      <4>1. CASE page \in pages
        BY <4>1 DEF OutcomeInv, WordInv
      <4>2. CASE page \notin pages
        BY <1>1, <2>2, <4>2, OpensPending DEF Shown
      <4> QED  BY <4>1, <4>2
    <3> QED  BY <1>1, <3>1 DEF Shown
  <2>3. ASSUME NEW q \in Request, Active(q)', NEW page \in pages'
        PROVE  page[1] # made[q] /\ (kind[q] = "sale" => page[1] # on[q])
    <3>1. Active(q)
      BY <1>0, <1>2, <2>3 DEF Active
    <3>2. CASE page \in pages
      BY <3>1, <3>2 DEF OutcomeInv, WordInv, NotShown
    <3>3. CASE page \notin pages
      <4>1. /\ page[1] \in {on[r], made[r]} \ {None} /\ kind[r] \in {"sale", "qr"}
        BY <1>1, <2>3, <3>3, OpensPending
      <4>2. InPlace(r) /\ q # r
        BY <1>1, <1>2, <1>3, <2>3, <3>3, <4>1 DEF InPlace, Heeds, Active, Step
      <4>3. Apart(r, q) /\ Apart(q, r)
        BY DEF OutcomeInv, IdsInv
      <4>4. page[1] # made[q]
        BY <1>0, <4>1, <4>2, <4>3 DEF Apart
      <4>5. kind[q] = "sale" => page[1] # on[q]
        BY <1>0, <3>1, <4>1, <4>2, <4>3 DEF Apart, InPlace
      <4> QED  BY <4>4, <4>5
    <3> QED  BY <3>2, <3>3
  <2> QED  BY <1>1, <2>1, <2>2, <2>3 DEF WordInv, NotShown
<1>9. StoredRebills'
  BY <1>1 DEF OutcomeInv, StoredRebills, Charged
<1>10. ReportedIsStored'
  <2>1. bi' = bi \cup {<<Target(r), mem[r].status>>} \/ bi' = bi \cup {<<made[r], mem[r].status>>}
    BY DEF Report
  <2>2. pc[r] = "report" => bi' = bi \cup {<<Target(r), mem[r].status>>}
    BY DEF Report
  <2>3. Same(Target(r), mem[r]) /\ (pc[r] = "reportCross" => Same(made[r], mem[r]))
    BY <1>0, <1>3 DEF Saves
  <2>4. mem[r].status # "absent"
    BY <1>0 DEF TypeOK, Entity, Status
  <2> QED  BY <1>0, <1>1, <2>1, <2>2, <2>3, <2>4 DEF OutcomeInv, ReportedIsStored, Same
<1> QED  BY <1>4, <1>5, <1>6, <1>7, <1>8, <1>9, <1>10 DEF OutcomeInv, RequestInv

\* A step that touches neither documents nor pages nor the log keeps what other
\* requests, ids and records rely on.
LEMMA QuietOutcome ==
    ASSUME OutcomeInv, HostedInv', NEW r \in Request,
           doc' = doc, pages' = pages, bi' = bi, kind' = kind, on' = on, made' = made,
           \A q \in Request \ {r} : pc'[q] = pc[q] /\ mem'[q] = mem[q] /\ msg'[q] = msg[q],
           pc[r] \in Step, pc'[r] \in Step \cup {"failed"},
           told \subseteq told', OneWord', Work(r)'
    PROVE  OutcomeInv' /\ Stands
<1>1. Stands
  BY UnchangedStands
<1>2. ASSUME NEW q \in Request PROVE Work(q)' /\ Accepted(q)'
  <2>1. CASE q = r
    <3>1. pc'[r] # "done"
      BY DEF Step
    <3> QED  BY <2>1, <3>1 DEF Accepted
  <2>2. CASE q # r
    <3>1. /\ pc'[q] = pc[q] /\ kind'[q] = kind[q] /\ on'[q] = on[q]
          /\ made'[q] = made[q] /\ mem'[q] = mem[q] /\ msg'[q] = msg[q]
      BY <2>2
    <3> QED  BY <1>1, <3>1, WorkStands, AcceptedStands
  <2> QED  BY <2>1, <2>2
<1>3. IdsInv'
  <2>1. \A q \in Request : (pc'[q] \in Step => pc[q] \in Step) /\ (pc'[q] = "idle" <=> pc[q] = "idle")
    BY DEF Step
  <2>2. /\ \A q \in Request : Closed(q)'
        /\ \A t \in TxId : doc'[t].status # "absent" \/ (\E page \in pages' : page[1] = t) => ~Fresh(t)
    BY DEF OutcomeInv, IdsInv, Closed, Known
  <2> QED  BY <2>1, <2>2, IdsStand
<1>4. WordInv'
  <2>1. ASSUME NEW page \in pages PROVE Shown(page[1])'
    BY DEF OutcomeInv, WordInv, Shown
  <2>2. ASSUME NEW q \in Request PROVE NotShown(q)'
    <3>1. NotShown(q) /\ (Active(q)' => Active(q))
      BY DEF OutcomeInv, WordInv, Active
    <3> QED  BY <3>1 DEF NotShown
  <2> QED  BY <2>1, <2>2 DEF WordInv
<1>5. StoredRebills' /\ ReportedIsStored'
  BY DEF OutcomeInv, StoredRebills, Charged, ReportedIsStored
<1> QED  BY <1>1, <1>2, <1>3, <1>4, <1>5 DEF OutcomeInv, RequestInv

LEMMA FailsOutcome ==
    ASSUME OutcomeInv, NEW r \in Request, CallFails(r) \/ Crash(r)
    PROVE  OutcomeInv' /\ Stands
<1>0. TypeOK
  BY DEF OutcomeInv, HostedInv, Typed
<1>1. /\ doc' = doc /\ told' = told /\ mem' = mem /\ kind' = kind /\ on' = on
      /\ made' = made /\ msg' = msg /\ pages' = pages /\ bi' = bi
      /\ pc'[r] = "failed" /\ \A q \in Request \ {r} : pc'[q] = pc[q]
  BY <1>0 DEF CallFails, Crash, GoTo, TypeOK
<1>2. pc[r] \in Step
  BY DEF CallFails, Crash, Active, Step
<1>3. HostedInv'
  BY FailsHosted DEF OutcomeInv
<1>4. OneWord'
  BY <1>1 DEF OutcomeInv, WordInv, OneWord
<1>5. Work(r)'
  BY <1>1 DEF Work, Active, Step
<1> QED  BY <1>1, <1>2, <1>3, <1>4, <1>5, QuietOutcome

LEMMA CallAnsweredOutcome ==
    ASSUME OutcomeInv, NEW r \in Request, CallAnswered(r)
    PROVE  OutcomeInv' /\ Stands
<1>0. TypeOK /\ HostedInv
  BY DEF OutcomeInv, HostedInv, Typed
<1>1. PICK said \in Answers(r) :
         /\ mem' = [mem EXCEPT ![r] = Updated(@, CallResult(r, said))]
         /\ msg' = [msg EXCEPT ![r] = Answer(r, said)]
         /\ told' = told \cup {n \in {Answer(r, said)} : said \in {"approved", "declined"}}
  BY DEF CallAnswered
<1> DEFINE result == CallResult(r, said)
<1>2. /\ pc[r] = "call" /\ Active(r)
      /\ pc'[r] = "save" /\ \A q \in Request \ {r} : pc'[q] = pc[q]
      /\ doc' = doc /\ pages' = pages /\ bi' = bi /\ kind' = kind
      /\ on' = on /\ made' = made
      /\ \A q \in Request \ {r} : msg'[q] = msg[q]
  BY <1>0, <1>1 DEF CallAnswered, GoTo, TypeOK, Active, Step
<1>3. Saves(r) /\ Renews(r) /\ Heeds(r) /\ kind[r] \in {"sale", "qr", "cancel"}
  BY <1>2 DEF OutcomeInv, RequestInv, Work, Saves
<1>4. /\ AwaitsAnswer(r) /\ mem[r] \in Entity /\ mem[r].status = "pending"
      /\ on[r] \in TxId
  BY <1>0, <1>2 DEF HostedInv, Typed, HasTransaction, ToldInv, MemoryIsTold, TypeOK, AwaitsAnswer
<1>5. /\ result \in Result /\ (kind[r] = "qr" => result \in {"pending", "aborted"})
      /\ Answer(r, said).about = kind[r]
  <2>1. /\ result \in Result /\ Answer(r, said).about = kind[r]
    BY <1>0, <1>4, AnswerType
  <2>2. kind[r] = "qr" => said \in {"waiting", "garbled"}
    BY <1>4 DEF Answers, AwaitsAnswer
  <2> QED  BY <2>1, <2>2 DEF CallResult
<1> HIDE DEF result
<1>6. /\ mem'[r].status = result /\ mem'[r].biller = mem[r].biller
      /\ mem'[r].type = mem[r].type /\ mem'[r].of = mem[r].of
      /\ \A q \in Request \ {r} : mem'[q] = mem[q]
  BY <1>0, <1>1, <1>4, <1>5, UpdatedType DEF TypeOK, result
<1>7. /\ told \subseteq told'
      /\ \A n \in told' : n \in told \/ n.about \in {"sale", "cancel", "qr"}
  BY <1>1, <1>3, <1>5
<1>8. OneWord'
  <2>1. OneWord
    BY DEF OutcomeInv, WordInv
  <2>2. \A n \in told' : n.about \in {"join", "crossSale"} => n \in told
    BY <1>7
  <2> QED  BY <1>2, <2>1, <2>2 DEF OneWord
<1>9. Work(r)'
  <2>1. Saves(r)'
    BY <1>2, <1>3, <1>6 DEF Saves, Settled, Target
  <2>2. Renews(r)'
    BY <1>2, <1>3, <1>6 DEF Renews, Charged, InPlace
  <2>3. Heeds(r)'
    BY <1>2, <1>3, <1>5, <1>6 DEF Heeds
  <2> QED  BY <2>1, <2>2, <2>3 DEF Work
<1>10. HostedInv'
  BY <1>0, CallAnsweredHosted
<1>11. pc[r] \in Step /\ pc'[r] \in Step \cup {"failed"}
  BY <1>2 DEF Step
<1> QED  BY <1>2, <1>6, <1>7, <1>8, <1>9, <1>10, <1>11, QuietOutcome

-----------------------------------------------------------------------------
(* The billers' word.                                                      *)

LEMMA TellOutcome ==
    ASSUME OutcomeInv, HostedInv', NEW n, Tell(n), OneWord'
    PROVE  OutcomeInv' /\ Stands
<1>1. /\ told' = told \cup {n} /\ doc' = doc /\ pages' = pages /\ bi' = bi /\ pc' = pc
      /\ kind' = kind /\ on' = on /\ made' = made /\ mem' = mem /\ msg' = msg
  BY DEF Tell
<1>2. Stands
  BY <1>1, UnchangedStands
<1>3. \A q \in Request : Work(q)' /\ Accepted(q)'
  BY <1>1, <1>2, WorkStands, AcceptedStands
<1>4. IdsInv'
  BY <1>1 DEF OutcomeInv, IdsInv, Known, Named, Closed, Apart, Fresh, Active, InPlace
<1>5. WordInv'
  <2>1. ASSUME NEW page \in pages PROVE Shown(page[1])'
    BY <1>1 DEF OutcomeInv, WordInv, Shown
  <2>2. ASSUME NEW q \in Request PROVE NotShown(q)'
    BY <1>1 DEF OutcomeInv, WordInv, NotShown, Active
  <2> QED  BY <1>1, <2>1, <2>2 DEF WordInv
<1>6. StoredRebills' /\ ReportedIsStored'
  BY <1>1 DEF OutcomeInv, StoredRebills, Charged, ReportedIsStored
<1> QED  BY <1>2, <1>3, <1>4, <1>5, <1>6 DEF OutcomeInv, RequestInv

LEMMA BillerTellsOutcome ==
    ASSUME OutcomeInv, PaidOnce, BillerTells
    PROVE  OutcomeInv' /\ Stands
<1>0. told \subseteq Notice /\ pages \subseteq TxId \X Sender /\ OneWord
  BY DEF OutcomeInv, HostedInv, Typed, TypeOK, WordInv
<1>1. HostedInv'
  BY BillerTellsHosted DEF OutcomeInv
<1>2. ASSUME NEW page \in pages, NEW said \in Said, TellJoin(page[1], page[2], said)
      PROVE  OutcomeInv' /\ Stands
  <2> DEFINE n == [tx |-> page[1], from |-> page[2], about |-> "join", said |-> said]
  <2>1. said # "waiting" /\ OneOutcome(n) /\ Tell(n) /\ told' = told \cup {n} /\ pages' = pages
    BY <1>2 DEF TellJoin, PaidOnce, Tell
  <2>2. page = <<n.tx, n.from>> /\ n.about = "join" /\ n.said # "waiting"
    BY <1>0, <2>1
  <2>3. ASSUME NEW m \in told, m.about = "join", m.tx = n.tx PROVE m = n
    <3>1. m \in Notice /\ m.said # "waiting"
      BY <1>0, <2>3 DEF OneWord
    <3>2. m.from = n.from /\ m.said = n.said
      BY <2>1, <2>2, <2>3, <3>1 DEF OneOutcome, PaidOnce
    <3> QED  BY <2>3, <3>1, <3>2 DEF Notice
  <2> HIDE DEF n
  <2>4. OneWord'
    BY <1>0, <2>1, <2>2, <2>3 DEF OneWord
  <2> QED  BY <1>1, <2>1, <2>4, TellOutcome
<1>3. ASSUME NEW m \in told, NEW said \in Said, TellRebill(m.tx, m.from, said)
      PROVE  OutcomeInv' /\ Stands
  <2> DEFINE n == [tx |-> m.tx, from |-> m.from, about |-> "rebill", said |-> said]
  <2>1. Tell(n) /\ told' = told \cup {n} /\ pages' = pages /\ n.about = "rebill"
    BY <1>3 DEF TellRebill, Tell
  <2> HIDE DEF n
  <2>2. OneWord'
    BY <1>0, <2>1 DEF OneWord
  <2> QED  BY <1>1, <2>1, <2>2, TellOutcome
<1>4. ASSUME NEW m \in told, NEW said \in Said, TellCrossSale(m.tx, said)
      PROVE  OutcomeInv' /\ Stands
  <2> DEFINE n == [tx |-> m.tx, from |-> "legacy", about |-> "crossSale", said |-> said]
  <2>1. /\ Tell(n) /\ told' = told \cup {n} /\ pages' = pages
        /\ n.about = "crossSale" /\ n.said = "approved"
    BY <1>4 DEF TellCrossSale, Tell, PaidOnce
  <2> HIDE DEF n
  <2>2. OneWord'
    BY <1>0, <2>1 DEF OneWord
  <2> QED  BY <1>1, <2>1, <2>2, TellOutcome
<1> QED  BY <1>2, <1>3, <1>4 DEF BillerTells

-----------------------------------------------------------------------------
(* Starting a request.                                                     *)

LEMMA FreshIsUnknown ==
    ASSUME OutcomeInv, NEW t \in TxId, Fresh(t)
    PROVE  doc[t].status = "absent" /\ \A page \in pages : page[1] # t
BY DEF OutcomeInv, IdsInv, Known

\* A transaction that can be updated is nobody's second one.
LEMMA PendingIsNotMade ==
    ASSUME OutcomeInv, NEW t \in TxId, Loaded(doc[t]).status = "pending"
    PROVE  \A q \in Request : made[q] # t
BY NoneAssumption DEF OutcomeInv, IdsInv, Closed

LEMMA MayStartAlone ==
    ASSUME RewritersAlone, NEW t, NEW k, MayStart(t, k)
    PROVE  \A q \in Request : Active(q) /\ on[q] = t => k \notin Rewriter /\ kind[q] \notin Rewriter
BY DEF RewritersAlone, MayStart

\* What a handler of kind k that goes to work on t, and u, with the entity e and
\* the notice n has made sure of.
Ready(k, t, u, e, n, step) ==
    /\ step = "call" => k \in {"sale", "qr", "cancel"}
    /\ k = "sale" => Fresh(t) /\ u # t /\ (u # None => e.biller = "epoch")
    /\ k = "sale" \/ u = None => ~Settled(t) /\ \A q \in Request : made[q] # t
    /\ k = "sale" \/ u = None =>
          \A q \in Request : Active(q) /\ InPlace(q) /\ on[q] = t => k = "join" /\ kind[q] = "join"
    /\ k # "sale" /\ u # None => e.type # "charge" \/ e.of # None
    /\ k \in {"rebill", "cancel"} => u # None
    /\ e.type # "charge" => Charged(e)
    /\ k \in {"join", "rebill"} => n \in told /\ e.status = PostbackResult(n)
    /\ k = "join" /\ u = None =>
          n.about = "join" /\ n.tx = t /\ e.status # "pending" /\ e.biller = doc[t].biller
    /\ k = "qr" => u = None /\ e.status \in {"pending", "aborted"}
    /\ k = "abort" => u = None /\ e.status = "aborted"

\* What a handler that answers OK at once has seen.
AnswersOk(k, t, u, n) ==
    u = None /\ (k \in {"join", "rebill"} /\ n.said = "approved" =>
                    \/ doc[t].status = "approved"
                    \/ n.from = "legacy" /\ doc[t].status = "aborted")

LEMMA BeginOutcome ==
    ASSUME OutcomeInv, HostedInv', NEW r \in Request, NEW k \in Kind, NEW t \in TxId,
           NEW u \in TxId \cup {None}, NEW e \in Entity, NEW n \in Notice \cup {None},
           NEW step \in {"call", "save"} \cup Ended,
           Begin(r, k, t, u, e, n), GoTo(r, step),
           u # None => Fresh(u),
           step \in {"call", "save"} => Ready(k, t, u, e, n, step),
           step = "done" => AnswersOk(k, t, u, n)
    PROVE  OutcomeInv' /\ Stands
<1>0. TypeOK /\ Typed
  BY DEF OutcomeInv, HostedInv, Typed
<1>1. /\ pc'[r] = step /\ kind'[r] = k /\ on'[r] = t /\ made'[r] = u /\ mem'[r] = e
      /\ \A q \in Request \ {r} : /\ pc'[q] = pc[q] /\ kind'[q] = kind[q]
                                  /\ on'[q] = on[q] /\ made'[q] = made[q]
                                  /\ mem'[q] = mem[q]
      /\ doc' = doc /\ told' = told
  <2>1. step \in Step \cup Ended
    BY DEF Step
  <2>2. pc'[r] = step /\ \A q \in Request \ {r} : pc'[q] = pc[q]
    BY <1>0, <2>1, GoToType
  <2> QED  BY <1>0, <2>2 DEF Begin, TypeOK
<1>2. /\ msg'[r] = n /\ \A q \in Request \ {r} : msg'[q] = msg[q]
      /\ pages' = pages /\ bi' = bi
  BY <1>0 DEF Begin, TypeOK
<1>3. on[r] = None /\ made[r] = None
  BY DEF Begin, OutcomeInv, IdsInv, Named
<1>4. Active(r)' <=> step \in {"call", "save"}
  BY <1>1 DEF Active, Step, Ended
<1>5. Stands
  BY <1>1, UnchangedStands
<1>6. u # None => u \in TxId /\ doc[u].status = "absent" /\ \A page \in pages : page[1] # u
  BY FreshIsUnknown
<1>7. Work(r)'
  <2> SUFFICES ASSUME step \in {"call", "save"} PROVE (Saves(r) /\ Renews(r) /\ Heeds(r))'
    BY <1>4 DEF Work
  <2>0. Ready(k, t, u, e, n, step)
    OBVIOUS
  <2>1. ~Settled(Target(r))'
    <3>1. Target(r)' = IF k = "sale" \/ u = None THEN t ELSE u
      BY <1>1 DEF Target
    <3> QED  BY <1>1, <1>6, <2>0, <3>1 DEF Ready, Settled
  <2>2. Saves(r)'
    <3>1. u # None => ~Settled(u)
      BY <1>6 DEF Settled
    <3> QED  BY <1>1, <2>0, <2>1, <3>1 DEF Saves, Ready, Settled
  <2>3. Renews(r)'
    BY <1>1, <2>0 DEF Renews, Ready, Charged, InPlace
  <2>4. Heeds(r)'
    BY <1>1, <1>2, <2>0 DEF Heeds, Ready
  <2> QED  BY <2>2, <2>3, <2>4
<1>8. Accepted(r)'
  <2>1. step = "done" => Target(r)' = t
    BY <1>1 DEF AnswersOk, Target
  <2> QED  BY <1>1, <1>2, <2>1 DEF Accepted, AnswersOk
<1>9. ASSUME NEW q \in Request PROVE Work(q)' /\ Accepted(q)'
  BY <1>1, <1>2, <1>5, <1>7, <1>8, WorkStands, AcceptedStands
<1>10. IdsInv'
  <2>1. ASSUME NEW x \in TxId PROVE Known(x)'
    <3>1. Known(x) /\ x # None
      BY NoneAssumption DEF OutcomeInv, IdsInv
    <3>2. ~Fresh(x) => ~Fresh(x)'
      BY <1>1, <1>3, <3>1 DEF Fresh
    <3> QED  BY <1>1, <1>2, <3>1, <3>2 DEF Known
  <2>2. ASSUME NEW q \in Request PROVE Named(q)' /\ Closed(q)'
    <3>1. CASE q = r
      <4>1. Named(r)'
        BY <1>1 DEF Named, Ended
      <4>2. Closed(r)'
        BY <1>1, <1>6 DEF Closed, Loaded
      <4> QED  BY <3>1, <4>1, <4>2
    <3>2. CASE q # r
      BY <1>1, <3>2 DEF OutcomeInv, IdsInv, Named, Closed
    <3> QED  BY <3>1, <3>2
  <2>3. ASSUME NEW p \in Request, NEW q \in Request PROVE Apart(p, q)'
    <3>0. Apart(p, q) /\ t # None
      BY NoneAssumption DEF OutcomeInv, IdsInv
    <3>1. CASE p # r /\ q # r
      BY <1>1, <3>0, <3>1 DEF Apart, Active, InPlace
    <3>2. CASE p = r /\ q = r
      BY <1>1, <1>4, <3>0, <3>2 DEF Apart, Ready, InPlace
    <3>3. CASE p = r /\ q # r
      <4>1. u # None => u # made[q]
        BY DEF Fresh
      <4>2. Active(q)' <=> Active(q)
        BY <1>1, <3>3 DEF Active
      <4> QED  BY <1>1, <1>4, <3>3, <4>1, <4>2 DEF Apart, Ready, InPlace
    <3>4. CASE p # r /\ q = r
      <4>1. u # None => u # made[p] /\ u # on[p]
        BY DEF Fresh
      <4>2. (Active(p)' <=> Active(p)) /\ (Active(p) => on[p] # None)
        BY <1>0, <1>1, <3>4, NoneAssumption DEF Active, Typed, HasTransaction
      <4> QED  BY <1>1, <1>4, <3>4, <4>1, <4>2 DEF Apart, Ready, InPlace
    <3> QED  BY <3>1, <3>2, <3>3, <3>4
  <2> QED  BY <2>1, <2>2, <2>3 DEF IdsInv
<1>11. WordInv'
  <2>1. OneWord' /\ \A page \in pages : Shown(page[1])'
    BY <1>1, <1>2 DEF OutcomeInv, WordInv, OneWord, Shown
  <2>2. ASSUME NEW q \in Request PROVE NotShown(q)'
    <3>1. CASE q = r
      <4>1. step \in {"call", "save"} /\ k = "sale" => \A page \in pages : page[1] # t
        BY FreshIsUnknown DEF Ready
      <4>2. \A page \in pages : page[1] # u
        BY <1>0, <1>6, NoneAssumption DEF TypeOK
      <4> QED  BY <1>1, <1>2, <1>4, <3>1, <4>1, <4>2 DEF NotShown
    <3>2. CASE q # r
      BY <1>1, <1>2, <3>2 DEF OutcomeInv, WordInv, NotShown, Active
    <3> QED  BY <3>1, <3>2
  <2> QED  BY <1>2, <2>1, <2>2 DEF WordInv
<1>12. StoredRebills' /\ ReportedIsStored'
  BY <1>1, <1>2 DEF OutcomeInv, StoredRebills, Charged, ReportedIsStored
<1> QED  BY <1>5, <1>9, <1>10, <1>11, <1>12 DEF OutcomeInv, RequestInv

LEMMA StartSaleOutcome ==
    ASSUME OutcomeInv, NEW r \in Request, NEW t \in TxId, NEW u \in TxId \cup {None},
           NEW b \in Biller, StartSale(r, t, u, b)
    PROVE  OutcomeInv' /\ Stands
<1> DEFINE e == NewEntity(b, "charge", None)
<1>1. /\ Begin(r, "sale", t, u, e, None) /\ GoTo(r, "call")
      /\ Fresh(t) /\ (u # None => b = "epoch" /\ u # t /\ Fresh(u))
  BY DEF StartSale
<1>2. e \in Entity /\ e.biller = b /\ e.type = "charge"
  BY NewEntityType DEF Type
<1>3. "sale" \in Kind /\ "call" \in {"call", "save"} \cup Ended /\ t # None
  BY NoneAssumption DEF Kind
<1>4. ~Settled(t) /\ \A q \in Request : made[q] # t /\ on[q] # t
  BY <1>1, FreshIsUnknown DEF Fresh, Settled
<1>5. Ready("sale", t, u, e, None, "call")
  <2> HIDE DEF e
  <2> QED  BY <1>1, <1>2, <1>3, <1>4 DEF Ready
<1>6. HostedInv'
  BY StartSaleHosted DEF OutcomeInv
<1> HIDE DEF e
<1> QED  BY <1>1, <1>2, <1>3, <1>5, <1>6, BeginOutcome

LEMMA StartQrOutcome ==
    ASSUME OutcomeInv, NEW r \in Request, NEW t \in TxId, StartQr(r, t)
    PROVE  OutcomeInv' /\ Stands
<1> DEFINE e == NewEntity("pumapay", "charge", None)
<1>1. Begin(r, "qr", t, None, e, None) /\ GoTo(r, "call") /\ Fresh(t)
  BY DEF StartQr
<1>2. e \in Entity /\ e.status = "pending" /\ e.type = "charge"
  BY NewEntityType DEF Biller, Type
<1>3. "qr" \in Kind /\ "call" \in {"call", "save"} \cup Ended
  BY DEF Kind
<1>4. ~Settled(t) /\ \A q \in Request : made[q] # t /\ on[q] # t
  BY <1>1, FreshIsUnknown DEF Fresh, Settled
<1> HIDE DEF e
<1>5. Ready("qr", t, None, e, None, "call")
  BY <1>2, <1>4 DEF Ready
<1>6. HostedInv'
  BY StartQrHosted DEF OutcomeInv
<1> QED  BY <1>1, <1>2, <1>3, <1>5, <1>6, BeginOutcome

LEMMA StartQrAgainOutcome ==
    ASSUME OutcomeInv, RewritersAlone, NEW r \in Request, NEW t \in TxId, StartQrAgain(r, t)
    PROVE  OutcomeInv' /\ Stands
<1> DEFINE e == [Loaded(doc[t]) EXCEPT !.biller = "pumapay"]
<1>1. /\ Begin(r, "qr", t, None, e, None) /\ GoTo(r, "call")
      /\ MayStart(t, "qr") /\ Loaded(doc[t]).status = "pending" /\ Loaded(doc[t]).type = "charge"
  BY DEF StartQrAgain, AcceptsQr
<1>2. Loaded(doc[t]) = doc[t] /\ doc[t] \in Entity
  BY <1>1, LoadedType DEF OutcomeInv, HostedInv, Typed
<1>3. e \in Entity /\ e.status = "pending" /\ e.type = "charge"
  BY <1>1, <1>2 DEF Entity, Biller
<1>4. "qr" \in Kind /\ "call" \in {"call", "save"} \cup Ended
  BY DEF Kind
<1> HIDE DEF e
<1>5. ~Settled(t) /\ (\A q \in Request : made[q] # t)
      /\ \A q \in Request : ~(Active(q) /\ on[q] = t)
  BY <1>1, <1>2, PendingIsNotMade, MayStartAlone DEF Settled, Rewriter
<1>6. Ready("qr", t, None, e, None, "call")
  BY <1>3, <1>5 DEF Ready
<1>7. HostedInv'
  BY StartQrAgainHosted DEF OutcomeInv
<1> QED  BY <1>1, <1>3, <1>4, <1>6, <1>7, BeginOutcome

LEMMA StartCancelOutcome ==
    ASSUME OutcomeInv, RewritersAlone, NEW r \in Request, NEW t \in TxId, NEW u \in TxId,
           StartCancel(r, t, u)
    PROVE  OutcomeInv' /\ Stands
<1> DEFINE e == NewEntity("pumapay", "cancel", t)
<1>1. /\ Begin(r, "cancel", t, u, e, None) /\ GoTo(r, "call")
      /\ MayStart(t, "cancel") /\ Fresh(u) /\ AcceptsRenewal(Loaded(doc[t]), "pumapay")
  BY DEF StartCancel
<1>2. e \in Entity /\ e.type = "cancel" /\ e.of = t /\ e.biller = "pumapay"
  BY NewEntityType DEF Biller, Type
<1>3. "cancel" \in Kind /\ "call" \in {"call", "save"} \cup Ended /\ u # None
  BY NoneAssumption DEF Kind
<1>4. doc[t].status = "approved" /\ doc[t].biller = "pumapay"
  BY <1>1 DEF AcceptsRenewal, Loaded
<1> HIDE DEF e
<1>5. Charged(e)
  BY <1>1, <1>2, <1>4 DEF Charged
<1>6. Ready("cancel", t, u, e, None, "call")
  BY <1>2, <1>3, <1>5 DEF Ready
<1>7. HostedInv'
  BY StartCancelHosted DEF OutcomeInv
<1> QED  BY <1>1, <1>2, <1>3, <1>6, <1>7, BeginOutcome

LEMMA StartAbortOutcome ==
    ASSUME OutcomeInv, RewritersAlone, NEW r \in Request, NEW t \in TxId, StartAbort(r, t)
    PROVE  OutcomeInv' /\ Stands
<1> DEFINE e == Updated(Loaded(doc[t]), "aborted")
<1>1. /\ Begin(r, "abort", t, None, e, None) /\ GoTo(r, "save")
      /\ MayStart(t, "abort") /\ Loaded(doc[t]).status = "pending"
  BY DEF StartAbort
<1>2. e \in Entity /\ e.status = "aborted" /\ e.type = "charge"
  BY <1>1, PendingIsSale DEF OutcomeInv, Result
<1>3. ~Settled(t)
  BY <1>1, LoadedType DEF OutcomeInv, HostedInv, Typed, Settled
<1>4. "abort" \in Kind /\ "save" \in {"call", "save"} \cup Ended
  BY DEF Kind
<1> HIDE DEF e
<1>5. (\A q \in Request : made[q] # t) /\ \A q \in Request : ~(Active(q) /\ on[q] = t)
  BY <1>1, PendingIsNotMade, MayStartAlone DEF Rewriter
<1>6. Ready("abort", t, None, e, None, "save")
  BY <1>2, <1>3, <1>5 DEF Ready
<1>7. HostedInv'
  BY StartAbortHosted DEF OutcomeInv
<1> QED  BY <1>1, <1>2, <1>4, <1>6, <1>7, BeginOutcome

LEMMA JoinUpdatesOutcome ==
    ASSUME OutcomeInv, RewritersAlone, NEW r \in Request, NEW n \in told, JoinUpdates(r, n)
    PROVE  OutcomeInv' /\ Stands
<1> DEFINE t == n.tx
           e == Updated(Loaded(doc[t]), PostbackResult(n))
<1>1. /\ Begin(r, "join", t, None, e, n) /\ GoTo(r, "save")
      /\ IsJoin(n) /\ ~CreatesCrossSale(n) /\ MayStart(t, "join")
      /\ Loaded(doc[t]).status = "pending"
  BY DEF JoinUpdates, AcceptsJoin
<1>2. n \in Notice /\ t \in TxId /\ OneWord
  BY DEF OutcomeInv, HostedInv, Typed, TypeOK, Notice, WordInv
<1>3. n.about = "join" /\ n.said # "waiting" /\ <<t, n.from>> \in pages
  BY <1>1, <1>2, PostbackApproves DEF IsJoin, CreatesCrossSale, OneWord
<1>4. PostbackResult(n) \in Result /\ PostbackResult(n) # "pending"
  BY <1>2, <1>3, PostbackResultType
<1>5. Loaded(doc[t]) = doc[t] /\ doc[t] \in Entity /\ doc[t].status = "pending"
  BY <1>1, <1>2, LoadedType DEF OutcomeInv, HostedInv, Typed
<1>6. e \in Entity /\ e.status = PostbackResult(n) /\ e.biller = doc[t].biller
  BY <1>4, <1>5, UpdatedType
<1>7. e.type = "charge"
  BY <1>1, <1>2, <1>4, PendingIsSale DEF OutcomeInv
<1>8. "join" \in Kind /\ "save" \in {"call", "save"} \cup Ended
  BY DEF Kind
<1> HIDE DEF e, t
<1>9. ~Settled(t) /\ (\A q \in Request : made[q] # t)
      /\ \A q \in Request : Active(q) /\ InPlace(q) /\ on[q] = t => kind[q] = "join"
  <2>1. ~Settled(t) /\ \A q \in Request : made[q] # t
    BY <1>1, <1>2, <1>5, PendingIsNotMade DEF Settled
  <2>2. ASSUME NEW q \in Request, Active(q), InPlace(q), on[q] = t PROVE kind[q] = "join"
    <3>1. kind[q] \notin Rewriter /\ kind[q] \in Kind
      BY <1>1, <1>2, <2>2, MayStartAlone DEF OutcomeInv, HostedInv, Typed, TypeOK
    <3>2. kind[q] # "sale"
      <4>1. \A page \in pages : kind[q] = "sale" => page[1] # on[q]
        BY <2>2 DEF OutcomeInv, WordInv, NotShown
      <4> QED  BY <1>3, <2>2, <4>1
    <3>3. kind[q] \notin {"rebill", "cancel"}
      BY <2>2 DEF InPlace, OutcomeInv, RequestInv, Work, Renews
    <3> QED  BY <3>1, <3>2, <3>3 DEF Kind, Rewriter
  <2> QED  BY <2>1, <2>2
<1>10. Ready("join", t, None, e, n, "save")
  <2>1. n.tx = t
    BY DEF t
  <2> QED  BY <1>3, <1>4, <1>6, <1>7, <1>9, <2>1 DEF Ready
<1>11. HostedInv'
  BY JoinUpdatesHosted DEF OutcomeInv
<1> QED  BY <1>1, <1>2, <1>6, <1>8, <1>10, <1>11, BeginOutcome

LEMMA JoinCreatesOutcome ==
    ASSUME OutcomeInv, RewritersAlone, NEW r \in Request, NEW n \in told, NEW u \in TxId,
           JoinCreates(r, n, u)
    PROVE  OutcomeInv' /\ Stands
<1> DEFINE t == n.tx
           e == Updated(NewEntity(doc[t].biller, "charge", t), PostbackResult(n))
<1>1. /\ Begin(r, "join", t, u, e, n) /\ GoTo(r, "save")
      /\ CreatesCrossSale(n) /\ MayStart(t, "join") /\ Fresh(u)
  BY DEF JoinCreates
<1>2. n \in Notice /\ t \in TxId /\ doc[t].biller \in Biller
  BY DEF OutcomeInv, HostedInv, Typed, TypeOK, Notice, Document
<1>3. PostbackResult(n) \in Result
  BY <1>2, PostbackResultType
<1>4. e \in Entity /\ e.status = PostbackResult(n) /\ e.type = "charge" /\ e.of = t
  BY <1>2, <1>3, NewEntityType, UpdatedType DEF Type
<1>5. "join" \in Kind /\ "save" \in {"call", "save"} \cup Ended /\ u # None /\ t # None
  BY <1>2, NoneAssumption DEF Kind
<1> HIDE DEF e, t
<1>7. Ready("join", t, u, e, n, "save")
  BY <1>4, <1>5 DEF Ready
<1>8. HostedInv'
  BY JoinCreatesHosted DEF OutcomeInv
<1> QED  BY <1>1, <1>2, <1>4, <1>5, <1>7, <1>8, BeginOutcome

LEMMA RebillCreatesOutcome ==
    ASSUME OutcomeInv, RewritersAlone, NEW r \in Request, NEW n \in told, NEW u \in TxId,
           RebillCreates(r, n, u)
    PROVE  OutcomeInv' /\ Stands
<1> DEFINE t == n.tx
           e == Updated(NewEntity(n.from, "rebill", t), PostbackResult(n))
<1>1. /\ Begin(r, "rebill", t, u, e, n) /\ GoTo(r, "save")
      /\ MayStart(t, "rebill") /\ Fresh(u) /\ AcceptsRenewal(Loaded(doc[t]), n.from)
  BY DEF RebillCreates
<1>2. n \in Notice /\ t \in TxId /\ n.from \in Biller
  BY DEF OutcomeInv, HostedInv, Typed, TypeOK, Notice, Sender, Biller
<1>3. PostbackResult(n) \in Result
  BY <1>2, PostbackResultType
<1>4. /\ e \in Entity /\ e.status = PostbackResult(n) /\ e.type = "rebill" /\ e.of = t
      /\ e.biller = n.from
  BY <1>2, <1>3, NewEntityType, UpdatedType DEF Type
<1>5. "rebill" \in Kind /\ "save" \in {"call", "save"} \cup Ended /\ u # None
  BY NoneAssumption DEF Kind
<1>6. doc[t].status = "approved" /\ doc[t].biller = n.from
  BY <1>1 DEF AcceptsRenewal, Loaded
<1> HIDE DEF e, t
<1>7. Charged(e)
  BY <1>1, <1>2, <1>4, <1>6 DEF Charged
<1>8. Ready("rebill", t, u, e, n, "save")
  BY <1>4, <1>5, <1>7 DEF Ready
<1>9. HostedInv'
  BY RebillCreatesHosted DEF OutcomeInv
<1> QED  BY <1>1, <1>2, <1>4, <1>5, <1>8, <1>9, BeginOutcome

\* Legacy's answer to a payment already processed: what it said is recorded, or
\* the client had aborted the sale.
LEMMA JoinIgnoredOutcome ==
    ASSUME OutcomeInv, NEW r \in Request, NEW n \in told, JoinIgnored(r, n)
    PROVE  OutcomeInv' /\ Stands
<1> DEFINE t == n.tx
           e == Loaded(doc[t])
<1>1. /\ Begin(r, "join", t, None, e, n) /\ GoTo(r, "done")
      /\ IsJoin(n) /\ ~CreatesCrossSale(n) /\ n.from = "legacy"
      /\ e.status \notin {"absent", "pending"}
  BY DEF JoinIgnored
<1>2. n \in Notice /\ t \in TxId /\ OneWord
  BY DEF OutcomeInv, HostedInv, Typed, TypeOK, Notice, WordInv
<1>3. e = doc[t] /\ e \in Entity
  BY <1>1, <1>2, LoadedType DEF OutcomeInv, HostedInv, Typed
<1>4. ASSUME n.said = "approved" PROVE doc[t].status \in {"approved", "aborted"}
  <2>1. n.about = "join"
    BY <1>1, <1>2, <1>4, PostbackApproves DEF IsJoin, CreatesCrossSale
  <2>2. <<n.tx, n.from>> \in pages
    BY <1>2, <2>1 DEF OneWord
  <2>3. Shown(t)
    BY <2>2 DEF OutcomeInv, WordInv
  <2>4. \A m \in told : m.about = "join" /\ m.tx = t => m = n
    BY <1>2, <2>1 DEF OneWord
  <2> QED  BY <1>1, <1>3, <1>4, <2>3, <2>4, PostbackApproves DEF Shown
<1>5. "join" \in Kind /\ "done" \in {"call", "save"} \cup Ended
  BY DEF Kind, Ended
<1> HIDE DEF e, t
<1>6. AnswersOk("join", t, None, n)
  BY <1>1, <1>4 DEF AnswersOk
<1>7. HostedInv'
  BY PostbackEndsHosted DEF OutcomeInv
<1> QED  BY <1>1, <1>2, <1>3, <1>5, <1>6, <1>7, BeginOutcome

\* A refused request leaves everything as it is.
LEMMA RefusedOutcome ==
    ASSUME OutcomeInv, HostedInv', NEW r \in Request, NEW k \in Kind, NEW t \in TxId,
           NEW n \in Notice \cup {None}, Begin(r, k, t, None, mem[r], n), GoTo(r, "rejected")
    PROVE  OutcomeInv' /\ Stands
<1>1. mem[r] \in Entity /\ "rejected" \in {"call", "save"} \cup Ended
  BY DEF OutcomeInv, HostedInv, Typed, TypeOK, Ended
<1> QED  BY <1>1, BeginOutcome

LEMMA PostbackRefusedOutcome ==
    ASSUME OutcomeInv, NEW r \in Request, NEW n \in told, JoinRefused(r, n) \/ RebillRefused(r, n)
    PROVE  OutcomeInv' /\ Stands
<1>1. PICK k \in {"join", "rebill"} :
         Begin(r, k, n.tx, None, mem[r], n) /\ GoTo(r, "rejected")
  BY DEF JoinRefused, RebillRefused
<1>2. k \in Kind /\ n \in Notice /\ n.tx \in TxId
  BY DEF Kind, OutcomeInv, HostedInv, Typed, TypeOK, Notice
<1>3. HostedInv'
  BY PostbackEndsHosted DEF OutcomeInv
<1> QED  BY <1>1, <1>2, <1>3, RefusedOutcome

LEMMA ClientRefusedOutcome ==
    ASSUME OutcomeInv, NEW r \in Request, NEW t \in TxId, NEW k \in {"qr", "cancel", "abort"},
           ClientRefused(r, t, k)
    PROVE  OutcomeInv' /\ Stands
<1>1. Begin(r, k, t, None, mem[r], None) /\ GoTo(r, "rejected") /\ k \in Kind
  BY DEF ClientRefused, Kind
<1>2. HostedInv'
  BY ClientRefusedHosted DEF OutcomeInv
<1> QED  BY <1>1, <1>2, RefusedOutcome

-----------------------------------------------------------------------------
(* Every step.                                                             *)

LEMMA InitOutcome == Init => OutcomeInv
<1> SUFFICES ASSUME Init PROVE OutcomeInv
  OBVIOUS
<1>1. /\ \A t \in TxId : doc[t].status = "absent"
      /\ pages = {} /\ told = {} /\ bi = {}
      /\ \A q \in Request : pc[q] = "idle" /\ on[q] = None /\ made[q] = None
  BY DEF Init, NoDocument, NewEntity
<1>2. \A q \in Request : ~Active(q)
  BY <1>1 DEF Active, Step
<1>3. IdsInv
  BY <1>1, <1>2 DEF IdsInv, Known, Named, Closed, Apart
<1>4. WordInv
  BY <1>1, <1>2 DEF WordInv, OneWord, NotShown
<1>5. RequestInv
  BY <1>1, <1>2 DEF RequestInv, Work, Accepted
<1>6. StoredRebills /\ ReportedIsStored
  BY <1>1 DEF StoredRebills, ReportedIsStored
<1> QED  BY <1>3, <1>4, <1>5, <1>6, InitHosted DEF OutcomeInv

LEMMA StepOutcome ==
    ASSUME OutcomeInv, RewritersAlone, PaidOnce, [Next]_vars
    PROVE  OutcomeInv' /\ Stands
<1>1. CASE UNCHANGED vars
  <2>1. /\ told' = told /\ doc' = doc /\ pages' = pages /\ bi' = bi /\ pc' = pc
        /\ kind' = kind /\ on' = on /\ made' = made /\ mem' = mem /\ msg' = msg
    BY <1>1 DEF vars
  <2>2. HostedInv' /\ Stands
    BY StepHosted, UnchangedStands, <2>1 DEF OutcomeInv
  <2>3. \A q \in Request : Work(q)' /\ Accepted(q)'
    BY <2>1, <2>2, WorkStands, AcceptedStands
  <2>4. IdsInv'
    BY <2>1 DEF OutcomeInv, IdsInv, Known, Named, Closed, Apart, Fresh, Active, InPlace
  <2>5. WordInv'
    BY <2>1 DEF OutcomeInv, WordInv, OneWord, Shown, NotShown, Active
  <2>6. StoredRebills' /\ ReportedIsStored'
    BY <2>1 DEF OutcomeInv, StoredRebills, Charged, ReportedIsStored
  <2> QED  BY <2>2, <2>3, <2>4, <2>5, <2>6 DEF OutcomeInv, RequestInv
<1>2. ASSUME NEW r \in Request, Start(r) PROVE OutcomeInv' /\ Stands
  <2>1. PICK t \in TxId :
           \/ \E b \in Biller, u \in TxId \cup {None} : StartSale(r, t, u, b)
           \/ StartQr(r, t) \/ StartQrAgain(r, t) \/ StartAbort(r, t)
           \/ \E u \in TxId : StartCancel(r, t, u)
           \/ \E k \in {"qr", "cancel", "abort"} : ClientRefused(r, t, k)
    BY <1>2 DEF Start
  <2> QED  BY <2>1, StartSaleOutcome, StartQrOutcome, StartQrAgainOutcome, StartAbortOutcome,
              StartCancelOutcome, ClientRefusedOutcome
<1>3. ASSUME NEW r \in Request, Receive(r) PROVE OutcomeInv' /\ Stands
  BY <1>3, JoinUpdatesOutcome, JoinIgnoredOutcome, JoinCreatesOutcome, RebillCreatesOutcome,
     PostbackRefusedOutcome DEF Receive
<1>4. ASSUME NEW r \in Request, Proceed(r) PROVE OutcomeInv' /\ Stands
  BY <1>4, CallAnsweredOutcome, FailsOutcome, ReportOutcome, SavingOutcome DEF Proceed
<1> QED  BY <1>1, <1>2, <1>3, <1>4, BillerTellsOutcome DEF Next

LEMMA OutcomeAlways == RewritersAlone /\ PaidOnce => (Spec => []OutcomeInv)
<1> SUFFICES ASSUME RewritersAlone /\ PaidOnce PROVE Spec => []OutcomeInv
  OBVIOUS
<1>1. OutcomeInv /\ [Next]_vars => OutcomeInv'
  BY StepOutcome
<1> QED  BY <1>1, InitOutcome, PTL DEF Spec

\* While QR codes and aborts are not overlapped and a payment has one
\* outcome, a processed transaction keeps its status, whatever is repeated, comes
\* late, fails or is saved twice.
THEOREM OutcomeNeverChanges == RewritersAlone /\ PaidOnce => (Spec => OutcomeStands)
<1> SUFFICES ASSUME RewritersAlone /\ PaidOnce PROVE Spec => OutcomeStands
  OBVIOUS
<1>1. ASSUME OutcomeInv, [Next]_vars
      PROVE  [\A t \in TxId : doc[t].status \notin {"absent", "pending"} =>
                 doc'[t].status = doc[t].status]_vars
  BY <1>1, StepOutcome DEF Stands, Settled
<1> QED  BY <1>1, OutcomeAlways, PTL DEF Spec, OutcomeStands

\* While QR codes and aborts are not overlapped and a payment has one
\* outcome, a postback that said approved and was answered OK is recorded as
\* approved, or Legacy sent it for a sale the client had aborted.
THEOREM ApprovalIsKept == RewritersAlone /\ PaidOnce => (Spec => []AcceptedIsRecorded)
<1>1. OutcomeInv => AcceptedIsRecorded
  BY DEF OutcomeInv, RequestInv, Accepted, AcceptedIsRecorded
<1> QED  BY <1>1, OutcomeAlways, PTL

\* While QR codes and aborts are not overlapped and a payment has one
\* outcome, every renewal and cancellation stored is of a charge of the same biller
\* that is approved.
THEOREM RenewalsAreOfCharges == RewritersAlone /\ PaidOnce => (Spec => []RebillFollowsApproved)
<1>1. OutcomeInv => RebillFollowsApproved
  BY DEF OutcomeInv, StoredRebills, Charged, RebillFollowsApproved
<1> QED  BY <1>1, OutcomeAlways, PTL

\* While QR codes and aborts are not overlapped and a payment has one
\* outcome, the final outcome in an event is the one stored, through repeated saves,
\* lost answers and crashes.
THEOREM ReportIsStored == RewritersAlone /\ PaidOnce => (Spec => []ReportedIsStored)
<1>1. OutcomeInv => ReportedIsStored
  BY DEF OutcomeInv
<1> QED  BY <1>1, OutcomeAlways, PTL

==============================================================================
