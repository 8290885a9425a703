----------------------- MODULE NetbillingMember_proofs ------------------------
(***************************************************************************)
(* What holds of NetbillingMember for every set of sales, requests, plans   *)
(* and faults, whatever requests overlap.                                   *)
(***************************************************************************)
EXTENDS NetbillingMember, TransactionStatus_proofs

-----------------------------------------------------------------------------
(* Transactions.                                                           *)

\* The transaction tells its own sale's member only.
Named(t) == {t.interactions, t.settings, t.fields} \subseteq {t.member, None}

LEMMA AbsentIsNone == Absent \notin Transaction /\ Absent.status \notin Status
BY DEF Absent, Transaction, Status

LEMMA SaleDocumentType ==
    ASSUME NEW s \in Sale, NEW known
    PROVE  SaleDocument(s, known) \in Transaction /\ Named(SaleDocument(s, known))
BY DEF SaleDocument, Transaction, Status, OrNone, Member, TxId, Named

LEMMA NewTransactionType ==
    ASSUME NEW settings \in OrNone, NEW member \in Member
    PROVE  /\ NewTransaction(settings, member) \in Transaction
           /\ NewTransaction(settings, member).settings = settings
           /\ NewTransaction(settings, member).member = member
           /\ settings \in {member, None} => Named(NewTransaction(settings, member))
BY DEF NewTransaction, Transaction, Status, OrNone, Named

\* The member a chain tells is its sale's.
LEMMA MemberOfIsOwn ==
    ASSUME NEW t \in Transaction, Named(t), MemberOf(t) # None
    PROVE  MemberOf(t) = t.member
BY DEF MemberOf, Named

LEMMA OutcomeIsAnswer == \A result \in Answer : Outcome(result) = result /\ result \in Status
<1>1. Outcome("approved") = "approved"
  BY DEF Outcome, After, Allows, Operation, Approve, Status
<1>2. Outcome("declined") = "declined"
  BY DEF Outcome, After, Allows, Operation, Decline, Status
<1>3. Outcome("aborted") = "aborted"
  BY DEF Outcome, After, Allows, Operation, Abort, Status
<1> QED  BY <1>1, <1>2, <1>3 DEF Answer, Status

LEMMA UpdatedType ==
    ASSUME NEW r \in Request, tx[r] \in Transaction, Named(tx[r]),
           NEW result \in Answer, NEW known \in {tx[r].member, None}
    PROVE  /\ Updated(r, result, known) \in Transaction
           /\ Updated(r, result, known).status = result
           /\ Updated(r, result, known).settings = tx[r].settings
           /\ Updated(r, result, known).member = tx[r].member
           /\ Named(Updated(r, result, known))
<1> DEFINE t == tx[r]
           f == IF result = "approved" /\ op[r] \notin {"saleNew", "cancel"}
                THEN known ELSE t.fields
           w == Updated(r, result, known)
<1>1. known \in OrNone /\ f \in {known, t.fields}
  BY DEF Transaction, OrNone
<1>2. Outcome(result) = result /\ result \in Status
  BY OutcomeIsAnswer
<1>3. w = [status |-> result, interactions |-> known, settings |-> t.settings,
           fields |-> f, member |-> t.member]
  BY <1>2 DEF Updated
<1> HIDE DEF f, w
<1>4. /\ w.status = result /\ w.interactions = known /\ w.settings = t.settings
      /\ w.fields = f /\ w.member = t.member
  BY <1>3
<1>5. w \in Transaction
  BY <1>1, <1>2, <1>3 DEF Transaction
<1>6. Named(w)
  BY <1>1, <1>4 DEF Named
<1> QED  BY <1>4, <1>5, <1>6 DEF w

LEMMA WithFieldsType ==
    ASSUME NEW t \in Transaction, Named(t)
    PROVE  /\ WithFields(t) \in Transaction
           /\ WithFields(t).status = t.status
           /\ WithFields(t).settings = t.settings
           /\ WithFields(t).member = t.member
           /\ Named(WithFields(t))
<1> DEFINE f == IF t.status = "approved" THEN t.interactions ELSE t.fields
           w == WithFields(t)
<1>1. w = [status |-> t.status, interactions |-> t.interactions, settings |-> t.settings,
           fields |-> f, member |-> t.member]
  BY DEF WithFields, Transaction
<1>2. f \in {t.interactions, t.fields}
  OBVIOUS
<1> HIDE DEF f, w
<1>3. /\ w.status = t.status /\ w.interactions = t.interactions /\ w.settings = t.settings
      /\ w.fields = f /\ w.member = t.member
  BY <1>1
<1>4. w \in Transaction
  BY <1>1, <1>2 DEF Transaction
<1>5. Named(w)
  BY <1>2, <1>3 DEF Named
<1> QED  BY <1>3, <1>4, <1>5 DEF w

-----------------------------------------------------------------------------
(* The inductive invariant: what each step of a request knows of its calls, *)
(* its document and its event, and that no document tells another member.   *)

\* A status and what Netbilling did agree.
Truthful(r, status) ==
    /\ status = "approved" =>
          /\ op[r] # "cancel" => r \in charged
          /\ op[r] \notin NewSale => r \in applied
    /\ status = "declined" =>
          /\ r \notin applied
          /\ r \in charged => op[r] \in Updates

\* A charge is accounted for by a status.
Accounted(r, status) ==
    r \in charged \ unsure =>
        \/ status = "approved"
        \/ status = "declined" /\ op[r] \in Updates /\ r \notin applied

OwnMember(r) == tx[r] # Absent /\ op[r] \notin NewSale => tx[r].settings = tx[r].member

\* What is known of a request before, between and after its calls.
Uncalled(r) == r \notin charged /\ r \notin applied
Between(r) ==
    /\ op[r] \notin NewSale /\ r \notin applied
    /\ op[r] \in Updates => r \in charged /\ answer[r] \in {tx[r].member, None}
    /\ op[r] = "cancel" => r \notin charged
Called(r) == Truthful(r, tx[r].status) /\ Accounted(r, tx[r].status)

RequestInv(r) ==
    /\ pc[r] \in Working => tx[r] \in Transaction
    /\ pc[r] \in Working => Named(tx[r])
    /\ pc[r] \in Working /\ tx[r].settings = None => tx[r].member = r
    /\ pc[r] \in {"idle", "charge"} => Uncalled(r)
    /\ pc[r] = "charge" => op[r] # "cancel"
    /\ pc[r] = "member" => Between(r)
    /\ pc[r] \in {"add", "report", "update", "classify"} => Called(r)
    /\ pc[r] \in {"idle", "charge", "member", "add"} => doc[r] = Absent /\ bi[r] = "none"
    /\ pc[r] \in {"report", "update", "classify"} => doc[r].status = tx[r].status
    /\ pc[r] \in {"update", "classify", "done"} => bi[r] = doc[r].status
    /\ bi[r] # "none" => bi[r] = doc[r].status
    /\ Truthful(r, doc[r].status)
    /\ pc[r] \in {"done", "failed"} => Accounted(r, doc[r].status)
    /\ OwnMember(r)

DocumentsNamed == \A t \in TxId : doc[t] # Absent => Named(doc[t])

MemberInv == TypeOK /\ DocumentsNamed /\ \A r \in Request : RequestInv(r)

LEMMA InvIsEnough ==
    MemberInv => ActsOnItsMember /\ StoredIsTrue /\ ChargeIsStored /\ ReportedIsStored
BY DEF MemberInv, RequestInv, OwnMember, Truthful, Accounted,
       ActsOnItsMember, StoredIsTrue, ChargeIsStored, ReportedIsStored, TypeOK

LEMMA InitInv == Init => MemberInv
<1> SUFFICES ASSUME Init PROVE MemberInv
  OBVIOUS
<1>1. PICK known \in [Sale -> Known] :
         doc = [t \in TxId |-> IF t \in Sale THEN SaleDocument(t, known[t]) ELSE Absent]
  BY DEF Init
<1>2. \A t \in Sale : doc[t] \in Transaction /\ Named(doc[t])
  BY <1>1, SaleDocumentType DEF TxId
<1>3. \A r \in Request : doc[r] = Absent
  BY <1>1, DistinctAssumption DEF TxId
<1>4. doc \in [TxId -> Transaction \cup {Absent}]
  BY <1>1, <1>2, <1>3 DEF TxId
<1>5. <<>> \in Seq(Request)
  OBVIOUS
<1>6. TypeOK
  BY <1>4, <1>5, JoinedAssumption DEF Init, TypeOK, Op, OrNone
<1>7. DocumentsNamed
  BY <1>2, <1>3 DEF DocumentsNamed, TxId
<1>8. \A r \in Request : RequestInv(r)
  BY <1>3 DEF Init, RequestInv, OwnMember, Truthful, Accounted, Uncalled, Working, Absent
<1> QED  BY <1>6, <1>7, <1>8 DEF MemberInv

\* A step of request r leaves what the others know.
OthersAlone(r) ==
    \A q \in Request \ {r} :
        /\ pc'[q] = pc[q] /\ op'[q] = op[q] /\ tx'[q] = tx[q] /\ answer'[q] = answer[q]
        /\ doc'[q] = doc[q] /\ bi'[q] = bi[q]
        /\ q \in charged' <=> q \in charged
        /\ q \in applied' <=> q \in applied
        /\ q \in unsure' <=> q \in unsure

LEMMA OthersKeep ==
    ASSUME MemberInv, NEW r \in Request, OthersAlone(r), TypeOK', DocumentsNamed', RequestInv(r)'
    PROVE  MemberInv'
<1>1. ASSUME NEW q \in Request \ {r} PROVE RequestInv(q)'
  <2>1. RequestInv(q)
    BY DEF MemberInv
  <2>2. /\ pc'[q] = pc[q] /\ op'[q] = op[q] /\ tx'[q] = tx[q] /\ answer'[q] = answer[q]
        /\ doc'[q] = doc[q] /\ bi'[q] = bi[q]
        /\ q \in charged' <=> q \in charged
        /\ q \in applied' <=> q \in applied
        /\ q \in unsure' <=> q \in unsure
    BY DEF OthersAlone
  <2>3. /\ (Truthful(q, tx[q].status)' <=> Truthful(q, tx[q].status))
        /\ (Truthful(q, doc[q].status)' <=> Truthful(q, doc[q].status))
        /\ (Accounted(q, tx[q].status)' <=> Accounted(q, tx[q].status))
        /\ (Accounted(q, doc[q].status)' <=> Accounted(q, doc[q].status))
        /\ (Uncalled(q)' <=> Uncalled(q)) /\ (Between(q)' <=> Between(q))
        /\ (OwnMember(q)' <=> OwnMember(q))
        /\ (Named(tx[q])' <=> Named(tx[q]))
    BY <2>2 DEF Truthful, Accounted, Uncalled, Between, OwnMember, Named
  <2> QED  BY <2>1, <2>2, <2>3 DEF RequestInv, Called
<1> QED  BY <1>1 DEF MemberInv

-----------------------------------------------------------------------------
(* What an action's parts leave.                                           *)

LEMMA GotoType ==
    ASSUME TypeOK, NEW r \in Request,
           NEW step \in Working \cup {"done", "failed"}, Goto(r, step)
    PROVE  /\ pc' \in [Request -> {"idle"} \cup Working \cup {"done", "failed"}]
           /\ pc'[r] = step
           /\ \A q \in Request \ {r} : pc'[q] = pc[q]
BY DEF TypeOK, Goto

LEMMA StoreType ==
    ASSUME MemberInv, NEW r \in Request, NEW t \in Transaction, Named(t), Store(r, t)
    PROVE  /\ doc' \in [TxId -> Transaction \cup {Absent}]
           /\ doc'[r] = t
           /\ \A q \in Request \ {r} : doc'[q] = doc[q]
           /\ DocumentsNamed'
<1>1. doc \in [TxId -> Transaction \cup {Absent}] /\ r \in TxId
  BY DEF MemberInv, TypeOK, TxId
<1>2. /\ doc' \in [TxId -> Transaction \cup {Absent}]
      /\ doc'[r] = t
      /\ \A q \in TxId \ {r} : doc'[q] = doc[q]
  BY <1>1 DEF Store
<1>3. DocumentsNamed'
  BY <1>2 DEF MemberInv, DocumentsNamed
<1> QED  BY <1>2, <1>3 DEF TxId

LEMMA ChargeType ==
    ASSUME TypeOK, NEW r \in Request, Charge(r)
    PROVE  /\ charged' = charged \cup {r} /\ charged' \subseteq Request /\ applied' = applied
           /\ plan' \in [Member -> Plan \cup {"none", "cancelled"}]
BY DEF TypeOK, Charge

LEMMA ApplyType ==
    ASSUME TypeOK, NEW r \in Request, Apply(r)
    PROVE  /\ applied' = applied \cup {r} /\ applied' \subseteq Request /\ charged' = charged
           /\ plan' \in [Member -> Plan \cup {"none", "cancelled"}]
BY DEF TypeOK, Apply

LEMMA LoseType ==
    ASSUME TypeOK, NEW r \in Request, tx[r] \in Transaction, Lose(r)
    PROVE  unsure' = unsure \cup {r} /\ unsure' \subseteq Request /\ blurred' \subseteq Member
BY DEF TypeOK, Lose, Blur, Transaction

LEMMA BlurType ==
    ASSUME TypeOK, NEW r \in Request, tx[r] \in Transaction, Blur(r)
    PROVE  blurred' \subseteq Member
BY DEF TypeOK, Blur, Transaction

\* The calls are over: the transaction in memory.
LEMMA SettleType ==
    ASSUME MemberInv, NEW r \in Request, pc[r] \in Working,
           NEW result \in Answer, NEW known \in {tx[r].member, None}, Settle(r, result, known)
    PROVE  /\ pc' \in [Request -> {"idle"} \cup Working \cup {"done", "failed"}]
           /\ pc'[r] = "add" /\ \A q \in Request \ {r} : pc'[q] = pc[q]
           /\ tx' \in [Request -> Transaction \cup {Absent}]
           /\ \A q \in Request \ {r} : tx'[q] = tx[q]
           /\ tx'[r] \in Transaction /\ Named(tx[r])'
           /\ tx'[r].status = result
           /\ tx'[r].settings = tx[r].settings /\ tx'[r].member = tx[r].member
           /\ answer' = answer
<1>1. TypeOK /\ tx[r] \in Transaction /\ Named(tx[r])
  BY DEF MemberInv, RequestInv
<1> DEFINE w == Updated(r, result, known)
<1>2. /\ w \in Transaction /\ w.status = result /\ w.settings = tx[r].settings
      /\ w.member = tx[r].member /\ Named(w)
  BY <1>1, UpdatedType
<1> HIDE DEF w
<1>3. tx' = [tx EXCEPT ![r] = w] /\ Goto(r, "add") /\ answer' = answer
  BY DEF Settle, w
<1>4. /\ tx' \in [Request -> Transaction \cup {Absent}] /\ tx'[r] = w
      /\ \A q \in Request \ {r} : tx'[q] = tx[q]
  BY <1>1, <1>2, <1>3 DEF TypeOK
<1>5. Named(tx[r])'
  BY <1>2, <1>4 DEF Named
<1>6. /\ pc' \in [Request -> {"idle"} \cup Working \cup {"done", "failed"}]
      /\ pc'[r] = "add" /\ \A q \in Request \ {r} : pc'[q] = pc[q]
  BY <1>1, <1>3, GotoType DEF Working
<1> QED  BY <1>2, <1>3, <1>4, <1>5, <1>6

-----------------------------------------------------------------------------
(* A request is received.                                                  *)

LEMMA AcceptKeeps ==
    ASSUME MemberInv, NEW r \in Request, pc[r] = "idle", blurred' \subseteq Member,
           NEW o \in Op, NEW t \in Transaction, NEW step \in {"charge", "member"},
           Accept(r, o, t, step), Named(t), step = "member" <=> o = "cancel",
           t.settings = None => t.member = r, o \notin NewSale => t.settings = t.member
    PROVE  MemberInv'
<1>1. TypeOK /\ DocumentsNamed /\ RequestInv(r)
  BY DEF MemberInv
<1>2. /\ Goto(r, step) /\ op' = [op EXCEPT ![r] = o] /\ tx' = [tx EXCEPT ![r] = t]
      /\ order' = Append(order, r)
      /\ UNCHANGED <<doc, plan, charged, applied, wish, answer, bi, unsure>>
  BY DEF Accept, netbilling
<1>3. /\ pc' \in [Request -> {"idle"} \cup Working \cup {"done", "failed"}]
      /\ pc'[r] = step /\ \A q \in Request \ {r} : pc'[q] = pc[q]
  BY <1>1, <1>2, GotoType DEF Working
<1>4. /\ op' \in [Request -> Op] /\ tx' \in [Request -> Transaction \cup {Absent}]
      /\ order' \in Seq(Request) /\ op'[r] = o /\ tx'[r] = t
      /\ \A q \in Request \ {r} : op'[q] = op[q] /\ tx'[q] = tx[q]
  BY <1>1, <1>2 DEF TypeOK
<1>5. TypeOK'
  BY <1>1, <1>2, <1>3, <1>4 DEF TypeOK
<1>6. DocumentsNamed' /\ OthersAlone(r)
  BY <1>1, <1>2, <1>3, <1>4 DEF DocumentsNamed, OthersAlone
<1>7. doc[r] = Absent /\ bi[r] = "none" /\ r \notin charged /\ r \notin applied
  BY <1>1 DEF RequestInv, Uncalled
<1>8. Named(tx[r])' /\ OwnMember(r)'
  BY <1>4 DEF Named, OwnMember
<1>9. Uncalled(r)' /\ Truthful(r, doc[r].status)' /\ (step = "member" => Between(r)')
  BY <1>2, <1>4, <1>7 DEF Uncalled, Truthful, Between, Absent, NewSale, Updates
<1>10. RequestInv(r)'
  BY <1>2, <1>3, <1>4, <1>7, <1>8, <1>9 DEF RequestInv, Working
<1> QED  BY <1>5, <1>6, <1>10, OthersKeep

LEMMA ReceiveSaleKeeps ==
    ASSUME MemberInv, NEW r \in Request, NEW o \in NewSale, NEW given \in OrNone,
           ReceiveSale(r, o, given)
    PROVE  MemberInv'
<1> DEFINE m == IF given = None THEN r ELSE given
           t == NewTransaction(given, m)
<1>1. TypeOK /\ pc[r] = "idle" /\ Accept(r, o, t, "charge")
  BY DEF MemberInv, ReceiveSale, CanStart
<1>2. m \in Member /\ given \in {m, None} /\ (given = None => m = r)
  BY DEF OrNone, Member, TxId
<1>3. blurred' \subseteq Member
  BY <1>1 DEF ReceiveSale, TypeOK, OrNone
<1> HIDE DEF m
<1>4. t \in Transaction /\ t.settings = given /\ t.member = m /\ Named(t)
  BY <1>2, NewTransactionType
<1> HIDE DEF t
<1>5. o \in Op /\ o # "cancel"
  BY DEF Op, NewSale
<1> QED  BY <1>1, <1>2, <1>3, <1>4, <1>5, AcceptKeeps

LEMMA ReceiveChangeKeeps ==
    ASSUME MemberInv, NEW r \in Request, NEW o \in Updates \cup {"cancel"}, NEW t \in TxId,
           ReceiveChange(r, o, t)
    PROVE  MemberInv'
<1>1. TypeOK /\ DocumentsNamed /\ RequestInv(r) /\ pc[r] = "idle"
  BY DEF MemberInv, ReceiveChange, CanStart
<1>2. CASE Goto(r, "failed") /\ UNCHANGED <<doc, netbilling, request, tx, answer, bi, unsure, blurred>>
  <2>1. /\ pc' \in [Request -> {"idle"} \cup Working \cup {"done", "failed"}]
        /\ pc'[r] = "failed" /\ \A q \in Request \ {r} : pc'[q] = pc[q]
    BY <1>1, <1>2, GotoType
  <2>2. TypeOK' /\ DocumentsNamed' /\ OthersAlone(r)
    BY <1>1, <1>2, <2>1
       DEF TypeOK, DocumentsNamed, OthersAlone, netbilling, request
  <2>3. RequestInv(r)'
    BY <1>1, <1>2, <2>1
       DEF RequestInv, OwnMember, Truthful, Accounted, Uncalled, Working, netbilling, request
  <2> QED  BY <2>2, <2>3, OthersKeep
<1>3. CASE /\ TellsMember(doc[t])
           /\ Accept(r, o, NewTransaction(MemberOf(doc[t]), doc[t].member),
                     IF o = "cancel" THEN "member" ELSE "charge")
           /\ blurred' = IF Handled(doc[t].member) = {} THEN blurred
                         ELSE blurred \cup {doc[t].member}
  <2> DEFINE d == doc[t]
             n == NewTransaction(d.member, d.member)
             step == IF o = "cancel" THEN "member" ELSE "charge"
  <2>1. d \in Transaction /\ Named(d) /\ MemberOf(d) = d.member
    BY <1>1, <1>3, MemberOfIsOwn DEF TypeOK, TellsMember, DocumentsNamed
  <2>2. d.member \in Member /\ d.member \in OrNone
    BY <2>1 DEF Transaction, OrNone
  <2>3. blurred' \subseteq Member
    BY <1>1, <1>3, <2>2 DEF TypeOK
  <2>4. Accept(r, o, n, step)
    BY <1>3, <2>1
  <2>5. step \in {"charge", "member"} /\ (step = "member" <=> o = "cancel")
    OBVIOUS
  <2> HIDE DEF d, step
  <2>6. n \in Transaction /\ n.settings = d.member /\ n.member = d.member /\ Named(n)
    BY <2>2, NewTransactionType
  <2> HIDE DEF n
  <2>7. o \in Op
    BY DEF Op
  <2>8. n.settings # None
    BY <2>2, <2>6, NoneAssumption DEF Member, TxId
  <2> QED  BY <1>1, <2>3, <2>4, <2>5, <2>6, <2>7, <2>8, AcceptKeeps
<1> QED  BY <1>2, <1>3 DEF ReceiveChange

-----------------------------------------------------------------------------
(* The calls.                                                              *)

LEMMA TargetIsMember ==
    ASSUME MemberInv, NEW r \in Request, pc[r] \in Working
    PROVE  tx[r] \in Transaction /\ Target(r) = tx[r].member
BY DEF MemberInv, RequestInv, Target, Named

\* The calls of a request end and its transaction takes the outcome.
LEMMA SettleKeeps ==
    ASSUME MemberInv, NEW r \in Request, pc[r] \in {"charge", "member"},
           NEW result \in Answer, NEW known \in {tx[r].member, None}, Settle(r, result, known),
           charged' \in {charged, charged \cup {r}}, applied' \in {applied, applied \cup {r}},
           unsure' \in {unsure, unsure \cup {r}}, blurred' \subseteq Member,
           plan' \in [Member -> Plan \cup {"none", "cancelled"}],
           UNCHANGED <<doc, request, bi>>,
           Truthful(r, result)', Accounted(r, result)'
    PROVE  MemberInv'
<1>1. TypeOK /\ DocumentsNamed /\ RequestInv(r) /\ pc[r] \in Working
  BY DEF MemberInv, Working
<1>2. /\ pc' \in [Request -> {"idle"} \cup Working \cup {"done", "failed"}]
      /\ pc'[r] = "add" /\ \A q \in Request \ {r} : pc'[q] = pc[q]
      /\ tx' \in [Request -> Transaction \cup {Absent}]
      /\ \A q \in Request \ {r} : tx'[q] = tx[q]
      /\ tx'[r] \in Transaction /\ Named(tx[r])'
      /\ tx'[r].status = result
      /\ tx'[r].settings = tx[r].settings /\ tx'[r].member = tx[r].member
      /\ answer' = answer
  BY <1>1, SettleType
<1>3. op' = op /\ wish' = wish /\ order' = order /\ doc' = doc /\ bi' = bi
  BY DEF request
<1>4. TypeOK'
  BY <1>1, <1>2, <1>3 DEF TypeOK
<1>5. DocumentsNamed' /\ OthersAlone(r)
  BY <1>1, <1>2, <1>3 DEF DocumentsNamed, OthersAlone
<1>6. doc[r] = Absent /\ bi[r] = "none" /\ (tx[r].settings = None => tx[r].member = r)
  BY <1>1 DEF RequestInv, Working
<1>7. OwnMember(r)'
  BY <1>1, <1>2, <1>3, TargetIsMember, AbsentIsNone DEF RequestInv, OwnMember
<1>8. Called(r)'
  BY <1>2 DEF Called, Truthful, Accounted
<1>9. Truthful(r, doc[r].status)'
  BY <1>3, <1>6 DEF Truthful, Absent
<1>10. RequestInv(r)'
  BY <1>2, <1>3, <1>6, <1>7, <1>8, <1>9 DEF RequestInv, Working
<1> QED  BY <1>4, <1>5, <1>10, OthersKeep

\* A request ends in a call, or anywhere the service loses it.
LEMMA LoseKeeps ==
    ASSUME MemberInv, NEW r \in Request, pc[r] \in Working, Goto(r, "failed"), Lose(r),
           charged' \in {charged, charged \cup {r}}, applied' \in {applied, applied \cup {r}},
           pc[r] \notin {"charge", "member"} => charged' = charged /\ applied' = applied,
           plan' \in [Member -> Plan \cup {"none", "cancelled"}],
           UNCHANGED <<doc, request, tx, answer, bi>>
    PROVE  MemberInv'
<1>1. TypeOK /\ DocumentsNamed /\ RequestInv(r) /\ tx[r] \in Transaction
  BY TargetIsMember DEF MemberInv
<1>2. /\ pc' \in [Request -> {"idle"} \cup Working \cup {"done", "failed"}]
      /\ pc'[r] = "failed" /\ \A q \in Request \ {r} : pc'[q] = pc[q]
  BY <1>1, GotoType
<1>3. unsure' = unsure \cup {r} /\ unsure' \subseteq Request /\ blurred' \subseteq Member
  BY <1>1, LoseType
<1>4. op' = op /\ wish' = wish /\ order' = order
  BY DEF request
<1>5. TypeOK'
  BY <1>1, <1>2, <1>3, <1>4 DEF TypeOK
<1>6. DocumentsNamed' /\ OthersAlone(r)
  BY <1>1, <1>2, <1>3, <1>4 DEF DocumentsNamed, OthersAlone
<1>7. Truthful(r, doc[r].status)'
  <2>1. CASE pc[r] \in {"charge", "member"}
    BY <1>1, <2>1 DEF RequestInv, Truthful, Absent
  <2>2. CASE pc[r] \notin {"charge", "member"}
    BY <1>1, <1>4, <2>2 DEF RequestInv, Truthful
  <2> QED  BY <2>1, <2>2
<1>8. Accounted(r, doc[r].status)'
  BY <1>3 DEF Accounted
<1>9. OwnMember(r)' /\ (bi[r] # "none" => bi[r] = doc[r].status)
  BY <1>1, <1>4 DEF RequestInv, OwnMember
<1>10. RequestInv(r)'
  BY <1>2, <1>7, <1>8, <1>9 DEF RequestInv, Working
<1> QED  BY <1>5, <1>6, <1>10, OthersKeep

LEMMA ChargeAnsweredKeeps ==
    ASSUME MemberInv, NEW r \in Request, ChargeAnswered(r)
    PROVE  MemberInv'
<1>1. /\ TypeOK /\ DocumentsNamed /\ RequestInv(r) /\ pc[r] = "charge" /\ pc[r] \in Working
      /\ UNCHANGED <<doc, request, bi>>
  BY DEF MemberInv, ChargeAnswered, Working
<1>2. tx[r] \in Transaction /\ Target(r) = tx[r].member
  BY <1>1, TargetIsMember
<1>3. PICK result \in Answer, known \in {tx[r].member, None} :
         /\ IF result = "approved" /\ op[r] \in Updates
            THEN /\ answer' = [answer EXCEPT ![r] = known]
                 /\ Goto(r, "member")
                 /\ UNCHANGED tx
            ELSE Settle(r, result, known)
         /\ \/ result # "declined" /\ Charge(r)
            \/ result # "approved" /\ UNCHANGED netbilling
         /\ IF result = "aborted" THEN Lose(r) ELSE UNCHANGED <<unsure, blurred>>
  BY <1>2 DEF ChargeAnswered
<1>4. Uncalled(r) /\ op[r] # "cancel" /\ doc[r] = Absent /\ bi[r] = "none"
  BY <1>1 DEF RequestInv
<1>5. /\ charged' \in {charged, charged \cup {r}} /\ applied' = applied
      /\ charged' \subseteq Request
      /\ plan' \in [Member -> Plan \cup {"none", "cancelled"}]
      /\ result = "approved" => r \in charged'
      /\ result = "declined" => r \notin charged'
  BY <1>1, <1>3, <1>4, ChargeType DEF netbilling, TypeOK, Uncalled
<1>6. /\ unsure' \in {unsure, unsure \cup {r}} /\ unsure' \subseteq Request
      /\ blurred' \subseteq Member
      /\ result = "aborted" => r \in unsure'
  BY <1>1, <1>2, <1>3, LoseType DEF TypeOK
<1>7. op' = op /\ wish' = wish /\ order' = order /\ doc' = doc /\ bi' = bi
  BY <1>1 DEF request
<1>8. CASE result = "approved" /\ op[r] \in Updates
  <2>1. answer' = [answer EXCEPT ![r] = known] /\ Goto(r, "member") /\ tx' = tx
    BY <1>3, <1>8
  <2>2. /\ pc' \in [Request -> {"idle"} \cup Working \cup {"done", "failed"}]
        /\ pc'[r] = "member" /\ \A q \in Request \ {r} : pc'[q] = pc[q]
    BY <1>1, <2>1, GotoType DEF Working
  <2>3. /\ answer' \in [Request -> OrNone] /\ answer'[r] = known
        /\ \A q \in Request \ {r} : answer'[q] = answer[q]
    BY <1>1, <1>2, <2>1 DEF TypeOK, Transaction, OrNone
  <2>4. TypeOK'
    BY <1>1, <1>5, <1>6, <1>7, <2>1, <2>2, <2>3 DEF TypeOK
  <2>5. DocumentsNamed' /\ OthersAlone(r)
    BY <1>1, <1>5, <1>6, <1>7, <2>1, <2>2, <2>3 DEF DocumentsNamed, OthersAlone
  <2>6. Between(r)'
    BY <1>4, <1>5, <1>7, <1>8, <2>1, <2>3 DEF Between, Uncalled, NewSale, Updates
  <2>7. Truthful(r, doc[r].status)' /\ OwnMember(r)' /\ Named(tx[r])'
    BY <1>1, <1>4, <1>7, <2>1 DEF Truthful, Absent, RequestInv, OwnMember, Named
  <2>8. RequestInv(r)'
    BY <1>1, <1>2, <1>4, <1>7, <2>1, <2>2, <2>6, <2>7 DEF RequestInv, Working
  <2> QED  BY <2>4, <2>5, <2>8, OthersKeep
<1>9. CASE ~(result = "approved" /\ op[r] \in Updates)
  <2>1. Settle(r, result, known)
    BY <1>3, <1>9
  <2>2. op[r] \in NewSale \/ result # "approved"
    BY <1>1, <1>4, <1>9 DEF TypeOK, Op
  <2>3. Truthful(r, result)'
    BY <1>4, <1>5, <1>7, <2>2 DEF Truthful, Uncalled
  <2>4. Accounted(r, result)'
    BY <1>5, <1>6 DEF Accounted, Answer
  <2>5. pc[r] \in {"charge", "member"}
    BY <1>1
  <2> QED  BY <1>1, <1>5, <1>6, <2>1, <2>3, <2>4, <2>5, SettleKeeps
<1> QED  BY <1>8, <1>9

LEMMA ChargeUnansweredKeeps ==
    ASSUME MemberInv, NEW r \in Request, ChargeUnanswered(r)
    PROVE  MemberInv'
<1>1. /\ TypeOK /\ pc[r] = "charge" /\ pc[r] \in Working
      /\ Charge(r) \/ UNCHANGED netbilling
      /\ Goto(r, "failed") /\ Lose(r) /\ UNCHANGED <<doc, request, tx, answer, bi>>
  BY DEF MemberInv, ChargeUnanswered, Working
<1>2. /\ charged' \in {charged, charged \cup {r}} /\ applied' = applied
      /\ plan' \in [Member -> Plan \cup {"none", "cancelled"}]
  BY <1>1, ChargeType DEF netbilling, TypeOK
<1> QED  BY <1>1, <1>2, LoseKeeps

LEMMA MemberAnsweredKeeps ==
    ASSUME MemberInv, NEW r \in Request, MemberAnswered(r)
    PROVE  MemberInv'
<1>1. /\ TypeOK /\ RequestInv(r) /\ pc[r] = "member" /\ pc[r] \in Working
      /\ UNCHANGED <<doc, request, bi>>
  BY DEF MemberInv, MemberAnswered, Working
<1>2. tx[r] \in Transaction /\ Target(r) = tx[r].member
  BY <1>1, TargetIsMember
<1>3. PICK result \in Answer \cup {"same"}, known \in {tx[r].member, None} :
         /\ result = "same" => op[r] \in Updates
         /\ IF Kept(op[r], result)
            THEN Settle(r, "approved", answer[r])
            ELSE Settle(r, IF result = "same" THEN "declined" ELSE result, known)
         /\ \/ result # "declined" /\ Apply(r)
            \/ result \in {"declined", "aborted"} /\ UNCHANGED netbilling
         /\ IF result = "aborted" THEN Lose(r)
            ELSE Blur(r) \/ UNCHANGED blurred
         /\ result # "aborted" => UNCHANGED unsure
  BY <1>2 DEF MemberAnswered
<1>4. Between(r) /\ op' = op
  BY <1>1 DEF RequestInv, request
<1>5. /\ applied' \in {applied, applied \cup {r}} /\ charged' = charged
      /\ plan' \in [Member -> Plan \cup {"none", "cancelled"}]
      /\ result \in {"approved", "same"} => r \in applied'
      /\ result = "declined" => r \notin applied'
  BY <1>1, <1>3, <1>4, ApplyType DEF netbilling, TypeOK, Between
<1>6. /\ unsure' \in {unsure, unsure \cup {r}} /\ blurred' \subseteq Member
      /\ result = "aborted" => r \in unsure'
  BY <1>1, <1>2, <1>3, LoseType, BlurType DEF TypeOK
<1>7. CASE Kept(op[r], result)
  <2>1. op[r] \in Updates /\ result \in {"approved", "same"}
    BY <1>7 DEF Kept
  <2>2. Settle(r, "approved", answer[r]) /\ answer[r] \in {tx[r].member, None}
    BY <1>3, <1>4, <1>7, <2>1 DEF Between
  <2>3. Truthful(r, "approved")' /\ Accounted(r, "approved")'
    BY <1>4, <1>5, <2>1 DEF Truthful, Accounted, Between
  <2>4. "approved" \in Answer /\ pc[r] \in {"charge", "member"}
    BY <1>1 DEF Answer
  <2> QED  BY <1>1, <1>5, <1>6, <2>2, <2>3, <2>4, SettleKeeps
<1>8. CASE ~Kept(op[r], result)
  <2>1. result \in Answer /\ (op[r] \in Updates => result # "approved")
    BY <1>3, <1>8 DEF Kept
  <2>2. Settle(r, result, known)
    BY <1>3, <1>8, <2>1 DEF Answer
  <2>3. op[r] = "cancel" \/ op[r] \in Updates
    BY <1>1, <1>4 DEF TypeOK, Op, Between
  <2>4. Truthful(r, result)'
    BY <1>4, <1>5, <2>1, <2>3 DEF Truthful, Between, Updates
  <2>5. Accounted(r, result)'
    BY <1>4, <1>5, <1>6, <2>1, <2>3 DEF Accounted, Between, Answer
  <2>6. pc[r] \in {"charge", "member"}
    BY <1>1
  <2> QED  BY <1>1, <1>5, <1>6, <2>1, <2>2, <2>4, <2>5, <2>6, SettleKeeps
<1> QED  BY <1>7, <1>8

LEMMA MemberUnansweredKeeps ==
    ASSUME MemberInv, NEW r \in Request, MemberUnanswered(r)
    PROVE  MemberInv'
<1>1. /\ TypeOK /\ pc[r] = "member" /\ pc[r] \in Working
      /\ Apply(r) \/ UNCHANGED netbilling
      /\ Lose(r) /\ UNCHANGED <<doc, request, bi>>
  BY DEF MemberInv, MemberUnanswered, Working
<1>2. /\ applied' \in {applied, applied \cup {r}} /\ charged' = charged
      /\ plan' \in [Member -> Plan \cup {"none", "cancelled"}]
  BY <1>1, ApplyType DEF netbilling, TypeOK
<1>3. CASE Goto(r, "failed") /\ UNCHANGED <<tx, answer>>
  BY <1>1, <1>2, <1>3, LoseKeeps
<1>4. CASE Settle(r, "aborted", None)
  <2>1. unsure' = unsure \cup {r} /\ blurred' \subseteq Member
    BY <1>1, TargetIsMember, LoseType
  <2>2. Truthful(r, "aborted")' /\ Accounted(r, "aborted")'
    BY <2>1 DEF Truthful, Accounted
  <2>3. "aborted" \in Answer /\ pc[r] \in {"charge", "member"} /\ None \in {tx[r].member, None}
    BY <1>1 DEF Answer
  <2> QED  BY <1>1, <1>2, <1>4, <2>1, <2>2, <2>3, SettleKeeps
<1> QED  BY <1>3, <1>4 DEF MemberUnanswered

-----------------------------------------------------------------------------
(* After the calls.                                                        *)

LEMMA AddKeeps ==
    ASSUME MemberInv, NEW r \in Request, Add(r)
    PROVE  MemberInv'
<1>1. /\ TypeOK /\ RequestInv(r) /\ pc[r] = "add" /\ Store(r, tx[r]) /\ Goto(r, "report")
      /\ UNCHANGED <<plan, charged, applied, op, wish, order, tx, answer, bi, unsure, blurred>>
  BY DEF MemberInv, Add, netbilling, request
<1>2. /\ tx[r] \in Transaction /\ Named(tx[r]) /\ bi[r] = "none" /\ Called(r)
      /\ tx[r].settings = None => tx[r].member = r
  BY <1>1 DEF RequestInv, Working
<1>3. /\ doc' \in [TxId -> Transaction \cup {Absent}] /\ doc'[r] = tx[r]
      /\ \A q \in Request \ {r} : doc'[q] = doc[q]
      /\ DocumentsNamed'
  BY <1>1, <1>2, StoreType
<1>4. /\ pc' \in [Request -> {"idle"} \cup Working \cup {"done", "failed"}]
      /\ pc'[r] = "report" /\ \A q \in Request \ {r} : pc'[q] = pc[q]
  BY <1>1, GotoType DEF Working
<1>5. TypeOK' /\ OthersAlone(r)
  BY <1>1, <1>3, <1>4 DEF TypeOK, OthersAlone
<1>6. Called(r)' /\ Truthful(r, doc[r].status)' /\ OwnMember(r)' /\ Named(tx[r])'
  BY <1>1, <1>2, <1>3 DEF RequestInv, Called, Truthful, Accounted, OwnMember, Named
<1>7. RequestInv(r)'
  BY <1>1, <1>2, <1>3, <1>4, <1>6 DEF RequestInv, Working
<1> QED  BY <1>3, <1>5, <1>7, OthersKeep

LEMMA ReportKeeps ==
    ASSUME MemberInv, NEW r \in Request, Report(r)
    PROVE  MemberInv'
<1>1. PICK step \in {"update", "classify", "done"} :
         /\ Goto(r, step) /\ pc[r] = "report" /\ bi' = [bi EXCEPT ![r] = tx[r].status]
         /\ UNCHANGED <<doc, plan, charged, applied, op, wish, order, tx, answer, unsure, blurred>>
  BY DEF Report, netbilling, request
<1>2. TypeOK /\ DocumentsNamed /\ RequestInv(r)
  BY DEF MemberInv
<1>3. /\ tx[r] \in Transaction /\ Named(tx[r]) /\ Called(r) /\ doc[r].status = tx[r].status
      /\ tx[r].settings = None => tx[r].member = r
  BY <1>1, <1>2 DEF RequestInv, Working
<1>4. /\ bi' \in [Request -> Status \cup {"none"}] /\ bi'[r] = tx[r].status
      /\ \A q \in Request \ {r} : bi'[q] = bi[q]
  BY <1>1, <1>2, <1>3 DEF TypeOK, Transaction
<1>5. /\ pc' \in [Request -> {"idle"} \cup Working \cup {"done", "failed"}]
      /\ pc'[r] = step /\ \A q \in Request \ {r} : pc'[q] = pc[q]
  BY <1>1, <1>2, GotoType DEF Working
<1>6. TypeOK' /\ DocumentsNamed' /\ OthersAlone(r)
  BY <1>1, <1>2, <1>4, <1>5 DEF TypeOK, DocumentsNamed, OthersAlone
<1>7. /\ Called(r)' /\ Truthful(r, doc[r].status)' /\ Accounted(r, doc[r].status)'
      /\ OwnMember(r)' /\ Named(tx[r])'
  BY <1>1, <1>2, <1>3 DEF RequestInv, Called, Truthful, Accounted, OwnMember, Named
<1>8. RequestInv(r)'
  BY <1>1, <1>3, <1>4, <1>5, <1>7 DEF RequestInv, Working
<1> QED  BY <1>6, <1>8, OthersKeep

LEMMA UpdateKeeps ==
    ASSUME MemberInv, NEW r \in Request, Update(r)
    PROVE  MemberInv'
<1> DEFINE w == WithFields(tx[r])
<1>1. PICK step \in {"classify", "done"} :
         /\ Goto(r, step) /\ pc[r] = "update" /\ Store(r, w) /\ tx' = [tx EXCEPT ![r] = w]
         /\ UNCHANGED <<plan, charged, applied, op, wish, order, answer, bi, unsure, blurred>>
  BY DEF Update, netbilling, request
<1>2. TypeOK /\ DocumentsNamed /\ RequestInv(r)
  BY DEF MemberInv
<1>3. /\ tx[r] \in Transaction /\ Named(tx[r]) /\ Called(r) /\ doc[r].status = tx[r].status
      /\ tx[r].settings = None => tx[r].member = r
      /\ bi[r] = doc[r].status
  BY <1>1, <1>2 DEF RequestInv, Working
<1>4. OwnMember(r)
  BY <1>2 DEF RequestInv
<1>5. /\ w \in Transaction /\ w.status = tx[r].status /\ w.settings = tx[r].settings
      /\ w.member = tx[r].member /\ Named(w)
  BY <1>3, WithFieldsType
<1> HIDE DEF w
<1>6. /\ doc' \in [TxId -> Transaction \cup {Absent}] /\ doc'[r] = w
      /\ \A q \in Request \ {r} : doc'[q] = doc[q]
      /\ DocumentsNamed'
  BY <1>1, <1>5, StoreType
<1>7. /\ tx' \in [Request -> Transaction \cup {Absent}] /\ tx'[r] = w
      /\ \A q \in Request \ {r} : tx'[q] = tx[q]
  BY <1>1, <1>2, <1>5 DEF TypeOK
<1>8. /\ pc' \in [Request -> {"idle"} \cup Working \cup {"done", "failed"}]
      /\ pc'[r] = step /\ \A q \in Request \ {r} : pc'[q] = pc[q]
  BY <1>1, <1>2, GotoType DEF Working
<1>9. TypeOK' /\ OthersAlone(r)
  BY <1>1, <1>2, <1>6, <1>7, <1>8 DEF TypeOK, OthersAlone
<1>10. OwnMember(r)' /\ Named(tx[r])'
  BY <1>1, <1>3, <1>4, <1>5, <1>7, AbsentIsNone DEF OwnMember, Named
<1>11. Called(r)' /\ Truthful(r, doc[r].status)' /\ Accounted(r, doc[r].status)'
  BY <1>1, <1>3, <1>5, <1>6, <1>7 DEF Called, Truthful, Accounted
<1>12. RequestInv(r)'
  BY <1>1, <1>3, <1>5, <1>6, <1>7, <1>8, <1>10, <1>11 DEF RequestInv, Working
<1> QED  BY <1>6, <1>9, <1>12, OthersKeep

LEMMA ClassifyKeeps ==
    ASSUME MemberInv, NEW r \in Request, Classify(r)
    PROVE  MemberInv'
<1>1. PICK step \in {"done", "failed"} :
         /\ Goto(r, step) /\ pc[r] = "classify"
         /\ UNCHANGED <<doc, plan, charged, applied, op, wish, order, tx, answer, bi,
                        unsure, blurred>>
  BY DEF Classify, netbilling, request
<1>2. TypeOK /\ DocumentsNamed /\ RequestInv(r)
  BY DEF MemberInv
<1>3. /\ pc' \in [Request -> {"idle"} \cup Working \cup {"done", "failed"}]
      /\ pc'[r] = step /\ \A q \in Request \ {r} : pc'[q] = pc[q]
  BY <1>1, <1>2, GotoType DEF Working
<1>4. TypeOK' /\ DocumentsNamed' /\ OthersAlone(r)
  BY <1>1, <1>2, <1>3 DEF TypeOK, DocumentsNamed, OthersAlone
<1>5. Called(r) /\ doc[r].status = tx[r].status /\ bi[r] = doc[r].status
  BY <1>1, <1>2 DEF RequestInv
<1>6. Truthful(r, doc[r].status)' /\ Accounted(r, doc[r].status)' /\ OwnMember(r)'
  BY <1>1, <1>2, <1>5 DEF RequestInv, Called, Truthful, Accounted, OwnMember
<1>7. RequestInv(r)'
  BY <1>1, <1>3, <1>5, <1>6 DEF RequestInv, Working
<1> QED  BY <1>4, <1>7, OthersKeep

-----------------------------------------------------------------------------
(* Failures.                                                               *)

LEMMA SaveFailsKeeps ==
    ASSUME MemberInv, NEW r \in Request, SaveFails(r)
    PROVE  MemberInv'
<1> DEFINE t == tx[r]
           w == IF pc[r] = "update" THEN WithFields(t) ELSE t
<1>1. /\ pc[r] \in {"add", "update"} /\ pc[r] \in Working /\ Goto(r, "failed")
      /\ Store(r, w) \/ UNCHANGED doc
      /\ Lose(r)
      /\ UNCHANGED <<plan, charged, applied, op, wish, order, tx, answer, bi>>
  BY DEF SaveFails, Working, netbilling, request
<1>2. TypeOK /\ DocumentsNamed /\ RequestInv(r)
  BY DEF MemberInv
<1>3. t \in Transaction /\ Named(t) /\ Truthful(r, t.status)
  BY <1>1, <1>2 DEF RequestInv, Called
<1>4. /\ pc[r] = "add" => bi[r] = "none"
      /\ pc[r] = "update" => bi[r] = doc[r].status /\ doc[r].status = t.status
  BY <1>2 DEF RequestInv
<1>5. unsure' = unsure \cup {r} /\ unsure' \subseteq Request /\ blurred' \subseteq Member
  BY <1>1, <1>2, <1>3, LoseType
<1> HIDE DEF t
<1>6. w \in Transaction /\ w.status = t.status /\ Named(w)
  BY <1>3, WithFieldsType
<1> HIDE DEF w
<1>7. /\ doc' \in [TxId -> Transaction \cup {Absent}]
      /\ doc'[r] = w \/ doc'[r] = doc[r]
      /\ \A q \in Request \ {r} : doc'[q] = doc[q]
      /\ DocumentsNamed'
  <2>1. CASE Store(r, w)
    BY <1>6, <2>1, StoreType
  <2>2. CASE UNCHANGED doc
    BY <1>2, <2>2 DEF TypeOK, DocumentsNamed
  <2> QED  BY <1>1, <2>1, <2>2
<1>8. /\ pc' \in [Request -> {"idle"} \cup Working \cup {"done", "failed"}]
      /\ pc'[r] = "failed" /\ \A q \in Request \ {r} : pc'[q] = pc[q]
  BY <1>1, <1>2, GotoType
<1>9. TypeOK' /\ OthersAlone(r)
  BY <1>1, <1>2, <1>5, <1>7, <1>8 DEF TypeOK, OthersAlone
<1>10. Truthful(r, doc[r].status)
  BY <1>2 DEF RequestInv
<1>11. Truthful(r, doc[r].status)' /\ Accounted(r, doc[r].status)'
  BY <1>1, <1>3, <1>5, <1>6, <1>7, <1>10 DEF Truthful, Accounted
<1>12. OwnMember(r)' /\ (bi[r] # "none" => bi[r] = doc[r].status)
  BY <1>1, <1>2 DEF RequestInv, OwnMember
<1>13. (bi[r] # "none" => bi[r] = doc[r].status)'
  BY <1>1, <1>4, <1>6, <1>7
<1>14. RequestInv(r)'
  BY <1>8, <1>11, <1>12, <1>13 DEF RequestInv, Working
<1> QED  BY <1>7, <1>9, <1>14, OthersKeep

LEMMA DieKeeps ==
    ASSUME MemberInv, NEW r \in Request, Die(r)
    PROVE  MemberInv'
<1>1. /\ TypeOK /\ pc[r] \in Working /\ Goto(r, "failed") /\ Lose(r)
      /\ UNCHANGED <<doc, request, tx, answer, bi>>
      /\ \/ pc[r] = "charge" /\ Charge(r)
         \/ pc[r] = "member" /\ Apply(r)
         \/ UNCHANGED netbilling
  BY DEF MemberInv, Die
<1>2. /\ charged' \in {charged, charged \cup {r}} /\ applied' \in {applied, applied \cup {r}}
      /\ pc[r] \notin {"charge", "member"} => charged' = charged /\ applied' = applied
      /\ plan' \in [Member -> Plan \cup {"none", "cancelled"}]
  BY <1>1, ChargeType, ApplyType DEF netbilling, TypeOK
<1> QED  BY <1>1, <1>2, LoseKeeps

-----------------------------------------------------------------------------
(* The theorems.                                                           *)

LEMMA StepInv == MemberInv /\ [Next]_vars => MemberInv'
<1> SUFFICES ASSUME MemberInv, [Next]_vars PROVE MemberInv'
  OBVIOUS
<1>1. CASE UNCHANGED vars
  BY <1>1 DEF vars, netbilling, request, MemberInv, TypeOK, DocumentsNamed, RequestInv,
              OwnMember, Truthful, Accounted, Uncalled, Between, Called, Named
<1>2. CASE Next
  <2>1. PICK r \in Request :
           \/ \E o \in NewSale, given \in OrNone : ReceiveSale(r, o, given)
           \/ \E o \in Updates \cup {"cancel"}, t \in TxId : ReceiveChange(r, o, t)
           \/ Proceed(r) \/ Die(r)
    BY <1>2 DEF Next
  <2>2. CASE \E o \in NewSale, given \in OrNone : ReceiveSale(r, o, given)
    BY <2>2, ReceiveSaleKeeps
  <2>3. CASE \E o \in Updates \cup {"cancel"}, t \in TxId : ReceiveChange(r, o, t)
    BY <2>3, ReceiveChangeKeeps
  <2>4. CASE ChargeAnswered(r)
    BY <2>4, ChargeAnsweredKeeps
  <2>5. CASE ChargeUnanswered(r)
    BY <2>5, ChargeUnansweredKeeps
  <2>6. CASE MemberAnswered(r)
    BY <2>6, MemberAnsweredKeeps
  <2>7. CASE MemberUnanswered(r)
    BY <2>7, MemberUnansweredKeeps
  <2>8. CASE Add(r)
    BY <2>8, AddKeeps
  <2>9. CASE Report(r)
    BY <2>9, ReportKeeps
  <2>10. CASE Update(r)
    BY <2>10, UpdateKeeps
  <2>11. CASE Classify(r)
    BY <2>11, ClassifyKeeps
  <2>12. CASE SaveFails(r)
    BY <2>12, SaveFailsKeeps
  <2>13. CASE Die(r)
    BY <2>13, DieKeeps
  <2> QED
    BY <2>1, <2>2, <2>3, <2>4, <2>5, <2>6, <2>7, <2>8, <2>9, <2>10, <2>11, <2>12, <2>13
       DEF Proceed
<1> QED  BY <1>1, <1>2

LEMMA AlwaysInv == Spec => []MemberInv
BY InitInv, StepInv, PTL DEF Spec

\* Every handler leaves well-typed documents, requests and events.
THEOREM TypeCorrect == Spec => []TypeOK
<1>1. MemberInv => TypeOK
  BY DEF MemberInv
<1> QED  BY <1>1, AlwaysInv, PTL

\* No update and no cancellation reaches another customer's membership, however
\* long the chain of transactions it names and wherever they hold the member.
THEOREM MembershipKept == Spec => []ActsOnItsMember
BY InvIsEnough, AlwaysInv, PTL

\* No stored approval without the charge and the change it stands for, no stored
\* refusal of what was done but for the charge of an update.
THEOREM OutcomeKept == Spec => []StoredIsTrue
BY InvIsEnough, AlwaysInv, PTL

\* The only charges the service answered and does not show as approved are those of
\* updates whose member was then not changed.
THEOREM ChargeKept == Spec => []ChargeIsStored
BY InvIsEnough, AlwaysInv, PTL

\* No event of a status that is not the stored one, and none missing of a request
\* that ended well.
THEOREM ReportKept == Spec => []ReportedIsStored
BY InvIsEnough, AlwaysInv, PTL

-----------------------------------------------------------------------------
(* What the stored transactions tell of a member.                           *)
(*                                                                         *)
(* Netbilling rebills a member as the last request that took effect asked,   *)
(* or, between the two calls of an update, as that update asks already.      *)
(* A request that took effect is approved, stored or about to be, unless the *)
(* member is blurred; and the one being handled is the last one received, or *)
(* two were handled at once.  No request is about a sale not yet received.   *)

\* What a request asks for took effect: a sale's charge, the change of a member.
Took(r) == r \in (IF op[r] \in NewSale THEN charged ELSE applied)
Asked(r) == IF op[r] = "cancel" THEN "cancelled" ELSE wish[r]

\* The requests about a member, and those that took effect, as positions in order.
Of(m) == {i \in DOMAIN order : tx[order[i]].member = m}
TookOf(m) == {i \in Of(m) : Took(order[i])}

\* The member is rebilled as the last request that took effect asked.
Follows(m) ==
    \/ TookOf(m) = {} /\ plan[m] = (IF m \in Sale THEN Joined ELSE "none")
    \/ \E i \in TookOf(m) : plan[m] = Asked(order[i]) /\ \A j \in TookOf(m) : j <= i

\* Or as an update asked that was charged for it and whose second call is to come.
Foreseen(m) ==
    \E r \in Request :
        pc[r] = "member" /\ op[r] \in Updates /\ tx[r].member = m /\ plan[m] = wish[r]

\* The approval is stored, or about to be.
Held(r) == tx[r].status = "approved" /\ (pc[r] = "add" \/ doc[r].status = "approved")

Clear(m) ==
    /\ \A i, j \in Of(m) : pc[order[i]] \in Working => j <= i
    /\ \A i \in TookOf(m) : Held(order[i])
    /\ Follows(m) \/ Foreseen(m)

\* The sale that makes the member has been received.
Started(m) == m \in Sale \/ pc[m] # "idle"

\* Every request accepted is in order, once, and is about a member there may be.
Placed ==
    /\ \A i, j \in DOMAIN order : order[i] = order[j] => i = j
    /\ \A i \in DOMAIN order :
          /\ tx[order[i]] \in Transaction /\ pc[order[i]] # "idle"
          /\ Started(tx[order[i]].member)
    /\ \A r \in Request :
          pc[r] \in Working \/ Took(r) \/ doc[r] # Absent => \E i \in DOMAIN order : order[i] = r
    /\ \A r \in Request : doc[r] # Absent => doc[r].member = tx[r].member
    /\ \A t \in TxId : doc[t] # Absent => Started(doc[t].member)
    /\ \A m \in Member : plan[m] # "none" => Started(m)

\* Of what a sale changes for a member there was already, nothing is known.
Shared ==
    \A r \in Request :
        pc[r] \in Working /\ op[r] \in NewSale /\ tx[r].settings # None => tx[r].member \in blurred

PlanInv == Placed /\ Shared /\ \A m \in Member \ blurred : Clear(m)

LEMMA PlanIsEnough == MemberInv /\ PlanInv => QuietPlanIsRecorded
<1> SUFFICES ASSUME MemberInv, PlanInv, NEW m \in Member, Handled(m) = {}, m \notin blurred
             PROVE  plan[m] = RecordedPlan(m)
  BY DEF QuietPlanIsRecorded
<1>1. Clear(m) /\ Placed /\ Follows(m)
  <2>1. Clear(m) /\ Placed
    BY DEF PlanInv
  <2>2. ~Foreseen(m)
    <3> SUFFICES ASSUME NEW r \in Request, pc[r] = "member", tx[r].member = m
                 PROVE  FALSE
      BY DEF Foreseen
    <3>1. tx[r] # Absent
      BY AbsentIsNone DEF MemberInv, RequestInv, Working
    <3> QED  BY <3>1 DEF Handled, About, Working
  <2> QED  BY <2>1, <2>2 DEF Clear
<1>2. /\ \A i \in DOMAIN order : order[i] \in Request /\ i \in Nat
      /\ \A r \in Request : op[r] \in Op
  BY DEF MemberInv, TypeOK
<1>3. TookOf(m) \subseteq Approvals(m)
  <2> SUFFICES ASSUME NEW i \in TookOf(m) PROVE i \in Approvals(m)
    OBVIOUS
  <2>1. Held(order[i]) /\ i \in DOMAIN order /\ tx[order[i]].member = m
    BY <1>1 DEF Clear, TookOf, Of
  <2>2. tx[order[i]] # Absent
    BY <1>1, <2>1, AbsentIsNone DEF Placed
  <2>3. pc[order[i]] # "add"
    BY <1>2, <2>1, <2>2 DEF Handled, About, Working
  <2>4. doc[order[i]].status = "approved" /\ doc[order[i]] # Absent
    BY <2>1, <2>3 DEF Held, Absent
  <2> QED  BY <1>1, <1>2, <2>1, <2>4 DEF Approvals, Placed
<1>4. Approvals(m) \subseteq TookOf(m)
  <2> SUFFICES ASSUME NEW i \in Approvals(m) PROVE i \in TookOf(m)
    OBVIOUS
  <2>1. /\ i \in DOMAIN order /\ order[i] \in Request
        /\ doc[order[i]].status = "approved" /\ doc[order[i]].member = m
    BY <1>2 DEF Approvals
  <2>2. Truthful(order[i], doc[order[i]].status) /\ doc[order[i]] # Absent
    BY <2>1 DEF MemberInv, RequestInv, Absent
  <2>3. Took(order[i])
    BY <1>2, <2>1, <2>2 DEF Truthful, Took, NewSale
  <2> QED  BY <1>1, <2>1, <2>2, <2>3 DEF TookOf, Of, Placed
<1>5. CASE TookOf(m) = {}
  BY <1>1, <1>4, <1>5 DEF Clear, Follows, RecordedPlan
<1>6. ASSUME NEW i \in TookOf(m), plan[m] = Asked(order[i]), \A j \in TookOf(m) : j <= i
      PROVE  plan[m] = RecordedPlan(m)
  <2> DEFINE last == CHOOSE k \in Approvals(m) : \A j \in Approvals(m) : j <= k
  <2>1. i \in Approvals(m) /\ \A j \in Approvals(m) : j <= i
    BY <1>3, <1>4, <1>6
  <2>2. last \in Approvals(m) /\ \A j \in Approvals(m) : j <= last
    BY <2>1
  <2>3. i \in Nat /\ last \in Nat /\ i <= last /\ last <= i
    BY <1>2, <2>1, <2>2 DEF Approvals
  <2>4. last = i
    BY <2>3
  <2>5. RecordedPlan(m) = IF op[order[last]] = "cancel" THEN "cancelled" ELSE wish[order[last]]
    BY <2>1 DEF RecordedPlan
  <2> HIDE DEF last
  <2> QED  BY <1>6, <2>4, <2>5 DEF Asked
<1> QED  BY <1>1, <1>5, <1>6 DEF Clear, Follows

LEMMA InitPlan == Init => PlanInv
<1> SUFFICES ASSUME Init PROVE PlanInv
  OBVIOUS
<1>1. /\ order = <<>> /\ charged = {} /\ applied = {}
      /\ \A r \in Request : pc[r] = "idle"
      /\ \A m \in Member : plan[m] = IF m \in Sale THEN Joined ELSE "none"
  BY DEF Init
<1>2. PICK known \in [Sale -> Known] :
         doc = [t \in TxId |-> IF t \in Sale THEN SaleDocument(t, known[t]) ELSE Absent]
  BY DEF Init
<1>3. /\ \A r \in Request : doc[r] = Absent
      /\ \A s \in Sale : doc[s].member = s
  BY <1>2, DistinctAssumption DEF TxId, SaleDocument
<1>4. DOMAIN order = {}
  BY <1>1
<1>5. \A m : TookOf(m) = {} /\ Of(m) = {}
  BY <1>4 DEF TookOf, Of
<1>6. Placed
  <2>1. \A r \in Request : pc[r] \notin Working /\ ~Took(r)
    BY <1>1 DEF Working, Took
  <2>2. \A t \in TxId : doc[t] # Absent => Started(doc[t].member)
    BY <1>3 DEF TxId, Started
  <2>3. \A m \in Member : plan[m] # "none" => Started(m)
    BY <1>1 DEF Started
  <2> QED  BY <1>3, <1>4, <2>1, <2>2, <2>3 DEF Placed
<1>7. \A m \in Member : Clear(m)
  BY <1>1, <1>5 DEF Clear, Follows
<1>8. Shared
  BY <1>1 DEF Shared, Working
<1> QED  BY <1>6, <1>7, <1>8 DEF PlanInv

\* A step of a request being handled: its member's plan stays, or is what it asks
\* for, which is then its effect; or the member is blurred.
LEMMA WorkKeeps ==
    ASSUME MemberInv, PlanInv, NEW r \in Request, pc[r] \in Working,
           UNCHANGED <<op, wish, order>>, blurred \subseteq blurred',
           \A q \in Request \ {r} :
               pc'[q] = pc[q] /\ tx'[q] = tx[q] /\ (Took(q)' <=> Took(q)),
           \A t \in TxId \ {r} : doc'[t] = doc[t],
           pc'[r] # "idle",
           tx'[r] \in Transaction, tx'[r].member = tx[r].member,
           tx'[r].settings = tx[r].settings,
           doc'[r] # Absent => doc'[r].member = tx[r].member,
           \A m \in Member \ {tx[r].member} : plan'[m] = plan[m],
           \/ tx[r].member \in blurred'
           \/ /\ plan'[tx[r].member] = plan[tx[r].member] /\ (Took(r)' <=> Took(r))
              /\ Took(r) /\ Held(r) => Held(r)'
              /\ pc[r] = "member" => op[r] \notin Updates
           \/ /\ pc[r] = "charge" /\ pc'[r] = "member" /\ op[r] \in Updates
              /\ plan'[tx[r].member] \in {plan[tx[r].member], wish[r]}
              /\ (Took(r)' <=> Took(r)) /\ ~Took(r)
           \/ plan'[tx[r].member] = Asked(r) /\ Took(r)' /\ Held(r)'
    PROVE  PlanInv'
<1>1. /\ Placed
      /\ \A i \in DOMAIN order : order[i] \in Request /\ i \in Nat
  BY DEF PlanInv, MemberInv, TypeOK
<1>2. PICK k \in DOMAIN order : order[k] = r
  BY <1>1 DEF Placed
<1>3. Started(tx[r].member) /\ tx[r] \in Transaction
  BY <1>1, <1>2 DEF Placed
<1>4. \A m \in Member : Started(m) => Started(m)'
  BY DEF Started, Member, TxId
<1>5. /\ \A i \in DOMAIN order : /\ tx[order[i]] \in Transaction
                                 /\ tx'[order[i]] \in Transaction
                                 /\ tx'[order[i]].member = tx[order[i]].member
      /\ \A i \in DOMAIN order : tx[order[i]].member \in Member
  BY <1>1 DEF Placed, Transaction
<1>6. Placed'
  <2>1. \A i \in DOMAIN order : pc'[order[i]] # "idle" /\ Started(tx[order[i]].member)'
    <3> SUFFICES ASSUME NEW i \in DOMAIN order
                 PROVE  pc'[order[i]] # "idle" /\ Started(tx[order[i]].member)'
      OBVIOUS
    <3>1. pc'[order[i]] # "idle"
      BY <1>1 DEF Placed
    <3>2. Started(tx[order[i]].member)
      BY <1>1 DEF Placed
    <3> DEFINE m == tx[order[i]].member
    <3>3. Started(m)' /\ tx'[order[i]].member = m
      BY <1>4, <1>5, <3>2
    <3> QED  BY <3>1, <3>3 DEF Started
  <2>2. \A q \in Request :
            pc'[q] \in Working \/ Took(q)' \/ doc'[q] # Absent =>
                \E i \in DOMAIN order : order[i] = q
    BY <1>1, <1>2 DEF Placed, TxId
  <2>3. \A q \in Request : doc'[q] # Absent => doc'[q].member = tx'[q].member
    BY <1>1 DEF Placed, TxId
  <2>4. \A t \in TxId : doc[t] # Absent => doc[t].member \in Member
    BY DEF MemberInv, TypeOK, Transaction
  <2>5. ASSUME NEW t \in TxId, doc'[t] # Absent PROVE Started(doc[t].member)'
    <3>1. PICK m \in Member : m = doc'[t].member /\ Started(m)
      BY <1>1, <1>3, <2>4, <2>5 DEF Placed, Transaction
    <3>2. Started(m)'
      BY <1>4, <3>1
    <3> QED  BY <3>1, <3>2 DEF Started
  <2>6. ASSUME NEW m \in Member, plan'[m] # "none" PROVE Started(m)'
    BY <1>1, <1>3, <1>4, <2>6 DEF Placed
  <2> QED  BY <1>1, <1>5, <2>1, <2>2, <2>3, <2>5, <2>6 DEF Placed
<1>7. \A m : Of(m)' = Of(m)
  BY <1>5 DEF Of
<1>8. \A q : Asked(q)' = Asked(q)
  BY DEF Asked
<1>9. ASSUME NEW m \in Member \ blurred' PROVE Clear(m)'
  <2>1. Clear(m)
    BY <1>9 DEF PlanInv
  <2>2. \A i, j \in Of(m) : pc'[order[i]] \in Working => j <= i
    BY <1>1, <2>1 DEF Clear, Of
  <2>3. ASSUME NEW i \in TookOf(m), order[i] # r PROVE Held(order[i])'
    <3>1. i \in DOMAIN order /\ order[i] \in Request /\ Held(order[i])
      BY <1>1, <2>1 DEF Clear, TookOf, Of
    <3> QED  BY <2>3, <3>1 DEF Held, TxId
  <2> DEFINE Sent == /\ pc[r] = "charge" /\ pc'[r] = "member" /\ op[r] \in Updates
                     /\ plan'[m] \in {plan[m], wish[r]}
  <2>4. CASE m # tx[r].member \/ ( /\ Took(r)' <=> Took(r)
                                   /\ \/ /\ plan'[m] = plan[m]
                                         /\ pc[r] = "member" => op[r] \notin Updates
                                      \/ Sent
                                   /\ Took(r) /\ Held(r) => Held(r)' )
    <3>1. TookOf(m)' = TookOf(m)
      BY <1>1, <1>7, <2>4 DEF TookOf, Of
    <3>2. plan'[m] = plan[m] /\ Follows(m) => Follows(m)'
      BY <1>8, <3>1 DEF Follows
    <3>3. Follows(m)' \/ Foreseen(m)'
      <4>1. CASE m = tx[r].member /\ Sent /\ plan'[m] = wish[r]
        <5>1. tx'[r].member = m /\ plan'[m] = wish'[r] /\ pc'[r] = "member" /\ op'[r] \in Updates
          BY <4>1
        <5> QED  BY <5>1 DEF Foreseen
      <4>2. CASE plan'[m] = plan[m] /\ (m = tx[r].member /\ pc[r] = "member" => op[r] \notin Updates)
        <5>1. CASE Follows(m)
          BY <3>2, <4>2, <5>1
        <5>2. CASE Foreseen(m)
          <6>1. PICK q \in Request : /\ pc[q] = "member" /\ op[q] \in Updates
                                     /\ tx[q].member = m /\ plan[m] = wish[q]
            BY <5>2 DEF Foreseen
          <6>2. q # r
            BY <4>2, <6>1
          <6>3. /\ pc'[q] = "member" /\ op'[q] \in Updates
                /\ tx'[q].member = m /\ plan'[m] = wish'[q]
            BY <4>2, <6>1, <6>2
          <6> QED  BY <6>3 DEF Foreseen
        <5> QED  BY <2>1, <5>1, <5>2 DEF Clear
      <4> QED  BY <1>9, <2>4, <4>1, <4>2
    <3>4. ASSUME NEW i \in TookOf(m), order[i] = r PROVE Held(order[i])'
      <4>1. Took(r) /\ Held(r) /\ m = tx[r].member
        BY <2>1, <3>4 DEF Clear, TookOf, Of
      <4> QED  BY <1>9, <3>4, <4>1
    <3> QED  BY <1>7, <2>2, <2>3, <3>1, <3>3, <3>4 DEF Clear
  <2>5. CASE m = tx[r].member /\ plan'[m] = Asked(r) /\ Took(r)' /\ Held(r)'
    <3>1. k \in Of(m)
      BY <1>2, <2>5 DEF Of
    <3>2. \A j \in Of(m) : j <= k
      BY <1>2, <2>1, <3>1 DEF Clear
    <3>3. TookOf(m)' = TookOf(m) \cup {k}
      <4>1. \A i \in DOMAIN order : order[i] = r <=> i = k
        BY <1>1, <1>2 DEF Placed
      <4> QED  BY <1>1, <1>2, <1>7, <2>5, <3>1, <4>1 DEF TookOf, Of
    <3>4. k \in TookOf(m)' /\ \A j \in TookOf(m)' : j <= k
      BY <3>1, <3>2, <3>3 DEF TookOf
    <3>5. plan'[m] = Asked(order[k])'
      BY <1>2, <1>8, <2>5
    <3>6. Follows(m)' \/ Foreseen(m)'
      BY <3>4, <3>5 DEF Follows
    <3>7. \A i \in TookOf(m)' : Held(order[i])'
      <4> SUFFICES ASSUME NEW i \in TookOf(m)' PROVE Held(order[i])'
        OBVIOUS
      <4>1. CASE order[i] = r
        BY <2>5, <4>1 DEF Held
      <4>2. CASE order[i] # r
        BY <1>2, <2>3, <3>3, <4>2
      <4> QED  BY <4>1, <4>2
    <3> QED  BY <1>7, <2>2, <3>6, <3>7 DEF Clear
  <2> QED  BY <1>9, <2>4, <2>5
<1>10. Shared'
  BY DEF PlanInv, Shared
<1> QED  BY <1>6, <1>9, <1>10 DEF PlanInv

\* A request refused at once changes nothing that counts.
LEMMA RefuseKeeps ==
    ASSUME MemberInv, PlanInv, NEW r \in Request, pc[r] = "idle", Goto(r, "failed"),
           UNCHANGED <<doc, netbilling, request, tx, blurred>>
    PROVE  PlanInv'
<1>1. TypeOK /\ Placed /\ \A i \in DOMAIN order : order[i] \in Request
  BY DEF PlanInv, MemberInv, TypeOK
<1>2. pc'[r] = "failed" /\ \A q \in Request \ {r} : pc'[q] = pc[q]
  BY <1>1, GotoType
<1>3. UNCHANGED <<doc, plan, charged, applied, op, wish, order, tx, blurred>>
  BY DEF netbilling, request
<1>4. \A m \in Member : Started(m) => Started(m)'
  BY <1>2, DistinctAssumption DEF Started, Member, TxId
<1>5. Placed'
  <2>1. \A i \in DOMAIN order : tx[order[i]].member \in Member
    BY <1>1 DEF Placed, Transaction
  <2>2. \A i \in DOMAIN order : pc'[order[i]] # "idle" /\ Started(tx[order[i]].member)'
    BY <1>1, <1>2, <1>3, <1>4, <2>1 DEF Placed, Started
  <2>3. \A q \in Request : Took(q)' <=> Took(q)
    BY <1>3 DEF Took
  <2>4. \A q \in Request : pc'[q] \in Working => pc[q] \in Working
    BY <1>2 DEF Working
  <2>5. \A t \in TxId : doc[t] # Absent => doc[t].member \in Member
    BY <1>1 DEF TypeOK, Transaction
  <2>6. \A t \in TxId : doc'[t] # Absent => Started(doc[t].member)'
    BY <1>1, <1>3, <1>4, <2>5 DEF Placed, Started
  <2>7. \A m \in Member : plan'[m] # "none" => Started(m)'
    BY <1>1, <1>3, <1>4 DEF Placed
  <2> QED  BY <1>1, <1>3, <2>2, <2>3, <2>4, <2>6, <2>7 DEF Placed
<1>6. ASSUME NEW m \in Member \ blurred' PROVE Clear(m)'
  <2>1. Clear(m)
    BY <1>3, <1>6 DEF PlanInv
  <2>2. \A q : (Took(q)' <=> Took(q)) /\ Asked(q)' = Asked(q)
    BY <1>3 DEF Took, Asked
  <2>3. Of(m)' = Of(m) /\ TookOf(m)' = TookOf(m)
    BY <1>3, <2>2 DEF Of, TookOf
  <2>4. Follows(m)' \/ Foreseen(m)'
    <3>1. Follows(m) => Follows(m)'
      BY <1>3, <2>2, <2>3 DEF Follows
    <3>2. Foreseen(m) => Foreseen(m)'
      BY <1>2, <1>3 DEF Foreseen
    <3> QED  BY <2>1, <3>1, <3>2 DEF Clear
  <2>5. \A i, j \in Of(m) : pc'[order[i]] \in Working => j <= i
    BY <1>1, <1>2, <2>1 DEF Clear, Of, Working
  <2>6. ASSUME NEW i \in TookOf(m) PROVE Held(order[i])'
    <3>1. i \in DOMAIN order /\ Held(order[i])
      BY <2>1 DEF Clear, TookOf, Of
    <3>2. order[i] \in Request \ {r}
      BY <1>1, <3>1 DEF Placed
    <3> QED  BY <1>2, <1>3, <3>1, <3>2 DEF Held
  <2> QED  BY <1>3, <2>3, <2>4, <2>5, <2>6 DEF Clear
<1>7. Shared'
  BY <1>2, <1>3 DEF PlanInv, Shared, Working
<1> QED  BY <1>5, <1>6, <1>7 DEF PlanInv

\* A request accepted has no effect yet, and is the last one about its member; the
\* one before it has ended, or the member is blurred.
LEMMA AcceptKeepsPlan ==
    ASSUME MemberInv, PlanInv, NEW r \in Request, pc[r] = "idle",
           NEW o \in Op, NEW n \in Transaction, NEW step \in {"charge", "member"},
           Accept(r, o, n, step), o \in NewSale /\ n.settings # None => n.member \in blurred',
           n.member = r \/ Started(n.member),
           blurred \subseteq blurred', n.member \in blurred' \/ Handled(n.member) = {}
    PROVE  PlanInv'
<1>0. PICK k \in Nat : k = Len(order) + 1
  BY DEF MemberInv, TypeOK
<1>1. /\ TypeOK /\ Placed /\ RequestInv(r)
      /\ \A i \in DOMAIN order : order[i] \in Request
  BY DEF PlanInv, MemberInv, TypeOK
<1>2. /\ Goto(r, step) /\ op' = [op EXCEPT ![r] = o] /\ tx' = [tx EXCEPT ![r] = n]
      /\ order' = Append(order, r)
      /\ UNCHANGED <<doc, plan, charged, applied, wish>>
  BY DEF Accept, netbilling
<1>3. r \notin charged /\ r \notin applied /\ doc[r] = Absent
  BY <1>1 DEF RequestInv, Uncalled
<1>4. /\ tx'[r] = n /\ op'[r] = o
      /\ \A q \in Request \ {r} : tx'[q] = tx[q] /\ op'[q] = op[q]
  BY <1>1, <1>2 DEF TypeOK
<1>5. pc'[r] = step /\ pc'[r] # "idle" /\ \A q \in Request \ {r} : pc'[q] = pc[q]
  BY <1>1, <1>2, GotoType DEF Working
<1>6. /\ DOMAIN order' = DOMAIN order \cup {k} /\ k \notin DOMAIN order
      /\ \A i \in DOMAIN order : i <= k /\ k <= k
      /\ order'[k] = r /\ \A i \in DOMAIN order : order'[i] = order[i]
  <2>1. /\ DOMAIN order = 1..Len(order) /\ Len(order) \in Nat
        /\ DOMAIN order' = 1..k /\ order'[k] = r
        /\ \A i \in DOMAIN order : order'[i] = order[i]
    BY <1>0, <1>1, <1>2 DEF TypeOK
  <2> QED  BY <1>0, <2>1
<1>7. k <= k
  OBVIOUS
<1>8. \A i \in DOMAIN order : order[i] \in Request /\ order[i] # r /\ order[i] \in Request \ {r}
  BY <1>1 DEF Placed
<1>9. \A q \in Request : Took(q)' <=> Took(q)
  <2>1. ~Took(r) /\ ~Took(r)'
    BY <1>2, <1>3 DEF Took
  <2> QED  BY <1>2, <1>4, <2>1 DEF Took
<1>10. \A m \in Member : Started(m) => Started(m)'
  BY <1>5 DEF Started, Member, TxId
<1>11. n.member \in Member /\ Started(n.member)'
  <2>1. Started(r)'
    BY <1>5 DEF Started
  <2>2. n.member \in Member
    BY DEF Transaction
  <2> QED  BY <1>10, <2>1, <2>2
<1>12. \A i \in DOMAIN order : tx'[order'[i]] = tx[order[i]] /\ pc'[order'[i]] = pc[order[i]]
                               /\ op'[order'[i]] = op[order[i]] /\ order'[i] = order[i]
  BY <1>4, <1>5, <1>6, <1>8
<1>13. Placed'
  <2>1. \A i, j \in DOMAIN order' : order'[i] = order'[j] => i = j
    BY <1>1, <1>6, <1>8 DEF Placed
  <2>2. ASSUME NEW i \in DOMAIN order'
        PROVE  /\ tx'[order'[i]] \in Transaction /\ pc'[order'[i]] # "idle"
               /\ Started(tx[order[i]].member)'
    <3>1. CASE i = k
      BY <1>4, <1>5, <1>6, <1>11, <3>1 DEF Started
    <3>2. CASE i # k
      <4>1. i \in DOMAIN order
        BY <1>6, <3>2
      <4>2. PICK m \in Member : m = tx[order[i]].member /\ Started(m)
        BY <1>1, <4>1 DEF Placed, Transaction
      <4>3. Started(m)' /\ m = tx'[order'[i]].member
        BY <1>10, <1>12, <4>1, <4>2
      <4>4. Started(tx[order[i]].member)'
        BY <4>3 DEF Started
      <4> QED  BY <1>1, <1>12, <4>1, <4>4 DEF Placed
    <3> QED  BY <3>1, <3>2
  <2>3. \A q \in Request :
            pc'[q] \in Working \/ Took(q)' \/ doc'[q] # Absent =>
                \E i \in DOMAIN order' : order'[i] = q
    BY <1>1, <1>2, <1>5, <1>6, <1>9 DEF Placed
  <2>4. \A q \in Request : doc'[q] # Absent => doc'[q].member = tx'[q].member
    BY <1>1, <1>2, <1>3, <1>4 DEF Placed
  <2>5. ASSUME NEW t \in TxId, doc'[t] # Absent PROVE Started(doc[t].member)'
    <3>1. PICK m \in Member : m = doc'[t].member /\ Started(m)
      BY <1>1, <1>2, <2>5 DEF Placed, TypeOK, Transaction
    <3>2. Started(m)'
      BY <1>10, <3>1
    <3> QED  BY <3>1, <3>2 DEF Started
  <2>6. \A m \in Member : plan'[m] # "none" => Started(m)'
    BY <1>1, <1>2, <1>10 DEF Placed
  <2> QED  BY <2>1, <2>2, <2>3, <2>4, <2>5, <2>6 DEF Placed
<1>14. \A m : Of(m)' = IF m = n.member THEN Of(m) \cup {k} ELSE Of(m)
  BY <1>4, <1>6, <1>12 DEF Of
<1>15. \A m : TookOf(m)' = TookOf(m)
  <2>1. \A i \in DOMAIN order : Took(order[i])' <=> Took(order[i])
    BY <1>2, <1>12 DEF Took
  <2>2. ~Took(order[k])'
    BY <1>2, <1>3, <1>6 DEF Took
  <2>3. \A m : Of(m) \subseteq DOMAIN order
    BY DEF Of
  <2> QED  BY <1>6, <1>14, <2>1, <2>2, <2>3 DEF TookOf
<1>16. ASSUME NEW m \in Member \ blurred' PROVE Clear(m)'
  <2>1. Clear(m)
    BY <1>16 DEF PlanInv
  <2>2. Follows(m)' \/ Foreseen(m)'
    <3>1. \A i \in TookOf(m) : Asked(order[i])' = Asked(order[i])
      BY <1>2, <1>12 DEF TookOf, Of, Asked
    <3>2. Follows(m) => Follows(m)'
      BY <1>2, <1>15, <3>1 DEF Follows, TookOf, Of
    <3>3. Foreseen(m) => Foreseen(m)'
      <4> SUFFICES ASSUME NEW q \in Request, pc[q] = "member", op[q] \in Updates,
                          tx[q].member = m, plan[m] = wish[q]
                   PROVE  Foreseen(m)'
        BY DEF Foreseen
      <4>1. q # r
        OBVIOUS
      <4>2. /\ pc'[q] = "member" /\ op'[q] \in Updates
            /\ tx'[q].member = m /\ plan'[m] = wish'[q]
        BY <1>2, <1>4, <1>5, <4>1
      <4> QED  BY <4>2 DEF Foreseen
    <3> QED  BY <2>1, <3>2, <3>3 DEF Clear
  <2>3. ASSUME NEW i \in TookOf(m) PROVE Held(order[i])'
    <3>1. i \in DOMAIN order /\ Held(order[i])
      BY <2>1 DEF Clear, TookOf, Of
    <3> QED  BY <1>2, <1>12, <3>1 DEF Held
  <2>4. \A i, j \in Of(m)' : pc'[order'[i]] \in Working => j <= i
    <3>1. CASE m = n.member
      <4>1. Handled(m) = {}
        BY <1>16, <3>1
      <4>2. \A i \in Of(m) : pc[order[i]] \notin Working
        BY <1>1, <4>1, AbsentIsNone DEF Handled, About, Of, Placed
      <4>3. \A i \in Of(m) : pc'[order'[i]] \notin Working /\ i <= k
        BY <1>6, <1>12, <4>2 DEF Of
      <4> QED  BY <1>7, <1>14, <3>1, <4>3
    <3>2. CASE m # n.member
      BY <1>12, <1>14, <2>1, <3>2 DEF Clear, Of
    <3> QED  BY <3>1, <3>2
  <2> QED  BY <1>15, <2>2, <2>3, <2>4 DEF Clear
<1>17. Shared'
  BY <1>4, <1>5 DEF PlanInv, Shared
<1> QED  BY <1>13, <1>16, <1>17 DEF PlanInv

LEMMA ReceiveSaleKeepsPlan ==
    ASSUME MemberInv, PlanInv, NEW r \in Request, NEW o \in NewSale, NEW given \in OrNone,
           ReceiveSale(r, o, given)
    PROVE  PlanInv'
<1> DEFINE m == IF given = None THEN r ELSE given
           n == NewTransaction(given, m)
<1>1. /\ pc[r] = "idle" /\ Accept(r, o, n, "charge") /\ Placed
      /\ blurred' = (IF given = None THEN blurred ELSE blurred \cup {given})
  BY DEF PlanInv, ReceiveSale, CanStart
<1>2. m \in Member /\ (given # None => given \in Member /\ plan[given] # "none")
  BY DEF ReceiveSale, OrNone, Member, TxId
<1>3. m = r \/ Started(m)
  BY <1>1, <1>2 DEF Placed
<1>4. m \in blurred' \/ Handled(m) = {}
  <2>1. CASE given # None
    BY <1>1, <2>1
  <2>2. CASE given = None
    <3>1. m = r /\ ~Started(r)
      BY <1>1, <2>2, DistinctAssumption DEF Started
    <3>2. \A q \in Request : pc[q] \in Working => tx[q] \in Transaction /\ Started(tx[q].member)
      BY <1>1 DEF Placed
    <3>3. None # r
      BY NoneAssumption
    <3> QED  BY <3>1, <3>2, <3>3, AbsentIsNone DEF Handled, About
  <2> QED  BY <2>1, <2>2
<1>5. given # None => m \in blurred'
  BY <1>1
<1> HIDE DEF m
<1>6. n \in Transaction /\ n.settings = given /\ n.member = m
  BY <1>2, NewTransactionType
<1> HIDE DEF n
<1>7. o \in Op /\ blurred \subseteq blurred'
  BY <1>1 DEF Op
<1> QED  BY <1>1, <1>3, <1>4, <1>5, <1>6, <1>7, AcceptKeepsPlan

LEMMA ReceiveChangeKeepsPlan ==
    ASSUME MemberInv, PlanInv, NEW r \in Request, NEW o \in Updates \cup {"cancel"},
           NEW t \in TxId, ReceiveChange(r, o, t)
    PROVE  PlanInv'
<1>1. pc[r] = "idle" /\ Placed /\ TypeOK
  BY DEF MemberInv, PlanInv, ReceiveChange, CanStart
<1>2. CASE Goto(r, "failed") /\ UNCHANGED <<doc, netbilling, request, tx, blurred>>
  BY <1>1, <1>2, RefuseKeeps
<1>3. CASE /\ TellsMember(doc[t])
           /\ Accept(r, o, NewTransaction(MemberOf(doc[t]), doc[t].member),
                     IF o = "cancel" THEN "member" ELSE "charge")
           /\ blurred' = IF Handled(doc[t].member) = {} THEN blurred
                         ELSE blurred \cup {doc[t].member}
  <2> DEFINE d == doc[t]
             n == NewTransaction(MemberOf(d), d.member)
             step == IF o = "cancel" THEN "member" ELSE "charge"
  <2>1. d \in Transaction /\ d.member \in Member /\ MemberOf(d) \in OrNone
    BY <1>1, <1>3 DEF TypeOK, TellsMember, Transaction, MemberOf, OrNone
  <2>2. n \in Transaction /\ n.member = d.member
    BY <2>1, NewTransactionType
  <2>3. Started(d.member)
    BY <1>1, <1>3 DEF Placed, TellsMember
  <2>4. step \in {"charge", "member"} /\ Accept(r, o, n, step)
    BY <1>3
  <2>5. d.member \in blurred' \/ Handled(d.member) = {}
    BY <1>3
  <2>6. o \in Op /\ o \notin NewSale /\ blurred \subseteq blurred'
    BY <1>3 DEF Op, Updates, NewSale
  <2> HIDE DEF n, d, step
  <2> QED  BY <1>1, <2>2, <2>3, <2>4, <2>5, <2>6, AcceptKeepsPlan
<1> QED  BY <1>1, <1>2, <1>3 DEF ReceiveChange

-----------------------------------------------------------------------------
(* The calls change the plan of the member a request is about.              *)

LEMMA ChargeChanges ==
    ASSUME MemberInv, NEW r \in Request, pc[r] \in Working, Charge(r)
    PROVE  /\ \A m \in Member \ {tx[r].member} : plan'[m] = plan[m]
           /\ \A q \in Request \ {r} : q \in charged' <=> q \in charged
           /\ applied' = applied /\ r \in charged'
           /\ plan'[tx[r].member] \in {plan[tx[r].member], wish[r]}
           /\ tx[r].settings = None => plan'[tx[r].member] = wish[r]
<1>1. TypeOK /\ Target(r) = tx[r].member /\ tx[r].member \in Member
  BY TargetIsMember DEF MemberInv, Transaction
<1>2. applied' = applied /\ charged' = charged \cup {r}
  BY DEF Charge
<1>3. \/ plan' = [plan EXCEPT ![tx[r].member] = wish[r]]
      \/ tx[r].settings # None /\ UNCHANGED plan
  BY <1>1 DEF Charge
<1> QED  BY <1>1, <1>2, <1>3 DEF TypeOK

LEMMA ApplyChanges ==
    ASSUME MemberInv, NEW r \in Request, pc[r] \in Working, Apply(r)
    PROVE  /\ \A m \in Member \ {tx[r].member} : plan'[m] = plan[m]
           /\ \A q \in Request \ {r} : q \in applied' <=> q \in applied
           /\ charged' = charged /\ r \in applied'
           /\ plan'[tx[r].member] = Asked(r)
<1>1. TypeOK /\ Target(r) = tx[r].member /\ tx[r].member \in Member
  BY TargetIsMember DEF MemberInv, Transaction
<1>2. /\ charged' = charged /\ applied' = applied \cup {r}
      /\ plan' = [plan EXCEPT ![tx[r].member] = Asked(r)]
  BY <1>1 DEF Apply, Asked
<1> QED  BY <1>1, <1>2 DEF TypeOK

\* What Netbilling did for one request at most.
Acts(r) == Charge(r) \/ Apply(r) \/ UNCHANGED netbilling

LEMMA ActsAlone ==
    ASSUME MemberInv, NEW r \in Request, pc[r] \in Working, Acts(r), op' = op
    PROVE  /\ \A m \in Member \ {tx[r].member} : plan'[m] = plan[m]
           /\ \A q \in Request \ {r} : Took(q)' <=> Took(q)
BY ChargeChanges, ApplyChanges DEF Acts, Took, netbilling

\* A request that loses an outcome or a save blurs its member.
LEMMA LoseKeepsPlan ==
    ASSUME MemberInv, PlanInv, NEW r \in Request, pc[r] \in Working,
           UNCHANGED <<op, wish, order>>, Lose(r), Acts(r),
           \A q \in Request \ {r} : pc'[q] = pc[q] /\ tx'[q] = tx[q],
           \A t \in TxId \ {r} : doc'[t] = doc[t],
           pc'[r] # "idle",
           tx'[r] \in Transaction, tx'[r].member = tx[r].member,
           tx'[r].settings = tx[r].settings,
           doc'[r] # Absent => doc'[r].member = tx[r].member
    PROVE  PlanInv'
<1>1. blurred \subseteq blurred' /\ tx[r].member \in blurred'
  BY DEF Lose, Blur
<1> QED  BY <1>1, ActsAlone, WorkKeeps

\* What a step of a request being handled starts from.
LEMMA WhileWorking ==
    ASSUME MemberInv, PlanInv, NEW r \in Request, pc[r] \in Working
    PROVE  /\ TypeOK /\ RequestInv(r) /\ tx[r] \in Transaction /\ Named(tx[r])
           /\ Target(r) = tx[r].member /\ tx[r].member \in Member
           /\ doc[r] # Absent => doc[r].member = tx[r].member
           /\ pc[r] \in {"charge", "member", "add"} => doc[r] = Absent
BY TargetIsMember DEF MemberInv, PlanInv, Placed, RequestInv, Transaction

\* The calls end without anything lost.
LEMMA SettleKeepsPlan ==
    ASSUME MemberInv, PlanInv, NEW r \in Request, pc[r] \in {"charge", "member"},
           NEW result \in Answer, NEW known \in {tx[r].member, None}, Settle(r, result, known),
           UNCHANGED <<doc, op, wish, order>>, Acts(r), blurred \subseteq blurred',
           \/ /\ UNCHANGED netbilling
              /\ pc[r] = "member" /\ op[r] \in Updates => tx[r].member \in blurred'
           \/ /\ result = "approved" /\ Took(r)'
              /\ plan'[tx[r].member] = Asked(r) \/ tx[r].member \in blurred
    PROVE  PlanInv'
<1>1. pc[r] \in Working /\ doc[r] = Absent /\ tx[r].member \in Member
  BY WhileWorking DEF Working
<1>2. /\ pc'[r] = "add" /\ \A q \in Request \ {r} : pc'[q] = pc[q]
      /\ \A q \in Request \ {r} : tx'[q] = tx[q]
      /\ tx'[r] \in Transaction /\ tx'[r].status = result
      /\ tx'[r].settings = tx[r].settings /\ tx'[r].member = tx[r].member
  BY <1>1, SettleType
<1>3. /\ \A m \in Member \ {tx[r].member} : plan'[m] = plan[m]
      /\ \A q \in Request \ {r} : Took(q)' <=> Took(q)
  BY <1>1, ActsAlone
<1>4. CASE /\ UNCHANGED netbilling
           /\ pc[r] = "member" /\ op[r] \in Updates => tx[r].member \in blurred'
  <2>1. plan' = plan /\ (Took(r)' <=> Took(r))
    BY <1>4 DEF netbilling, Took
  <2>2. ~Held(r)
    BY <1>1 DEF Held, Absent
  <2>3. pc'[r] # "idle"
    BY <1>2
  <2> QED  BY <1>1, <1>2, <1>3, <1>4, <2>1, <2>2, <2>3, WorkKeeps
<1>5. CASE /\ result = "approved" /\ Took(r)'
           /\ plan'[tx[r].member] = Asked(r) \/ tx[r].member \in blurred
  <2>1. Held(r)'
    BY <1>2, <1>5 DEF Held
  <2> QED  BY <1>1, <1>2, <1>3, <1>5, <2>1, WorkKeeps
<1> QED  BY <1>4, <1>5

LEMMA ChargeAnsweredKeepsPlan ==
    ASSUME MemberInv, PlanInv, NEW r \in Request, ChargeAnswered(r)
    PROVE  PlanInv'
<1>1. /\ pc[r] = "charge" /\ pc[r] \in Working
      /\ UNCHANGED <<doc, op, wish, order, bi>>
  BY DEF ChargeAnswered, Working, request
<1>2. /\ TypeOK /\ RequestInv(r) /\ tx[r] \in Transaction /\ Target(r) = tx[r].member
      /\ doc[r] = Absent
  BY <1>1, WhileWorking
<1>3. PICK result \in Answer, known \in {tx[r].member, None} :
         /\ IF result = "approved" /\ op[r] \in Updates
            THEN /\ answer' = [answer EXCEPT ![r] = known]
                 /\ Goto(r, "member")
                 /\ UNCHANGED tx
            ELSE Settle(r, result, known)
         /\ \/ result # "declined" /\ Charge(r)
            \/ result # "approved" /\ UNCHANGED netbilling
         /\ IF result = "aborted" THEN Lose(r) ELSE UNCHANGED <<unsure, blurred>>
  BY <1>2 DEF ChargeAnswered
<1>4. Acts(r)
  BY <1>3 DEF Acts
<1>5. CASE result = "aborted"
  <2>1. Settle(r, result, known) /\ Lose(r)
    BY <1>3, <1>5
  <2>2. /\ pc'[r] = "add" /\ \A q \in Request \ {r} : pc'[q] = pc[q]
        /\ \A q \in Request \ {r} : tx'[q] = tx[q]
        /\ tx'[r] \in Transaction
        /\ tx'[r].settings = tx[r].settings /\ tx'[r].member = tx[r].member
    BY <1>1, <2>1, SettleType
  <2> QED  BY <1>1, <1>2, <1>4, <2>1, <2>2, LoseKeepsPlan
<1>6. CASE result = "declined"
  <2>1. Settle(r, result, known) /\ UNCHANGED netbilling /\ UNCHANGED blurred
    BY <1>3, <1>6
  <2> QED  BY <1>1, <1>4, <2>1, SettleKeepsPlan
<1>7. CASE result = "approved" /\ op[r] \in Updates
  <2>1. Goto(r, "member") /\ UNCHANGED <<tx, blurred>> /\ Charge(r)
    BY <1>3, <1>7
  <2>2. pc'[r] = "member" /\ \A q \in Request \ {r} : pc'[q] = pc[q]
    BY <1>2, <2>1, GotoType DEF Working
  <2>3. plan'[tx[r].member] \in {plan[tx[r].member], wish[r]} /\ applied' = applied
    BY <1>1, <2>1, ChargeChanges
  <2>4. (Took(r)' <=> Took(r)) /\ ~Took(r)
    BY <1>1, <1>2, <1>7, <2>3 DEF Took, Updates, NewSale, RequestInv, Uncalled
  <2>5. ~Held(r)
    BY <1>1, <1>2 DEF Held, Absent
  <2>6. \A q \in Request \ {r} : Took(q)' <=> Took(q)
    BY <1>1, <1>4, ActsAlone
  <2>7. \A m \in Member \ {tx[r].member} : plan'[m] = plan[m]
    BY <1>1, <2>1, ChargeChanges
  <2>8. pc'[r] # "idle" /\ blurred \subseteq blurred'
    BY <2>1, <2>2
  <2> QED  BY <1>1, <1>2, <1>7, <2>1, <2>2, <2>3, <2>4, <2>5, <2>6, <2>7, <2>8, WorkKeeps
<1>8. CASE result = "approved" /\ op[r] \notin Updates
  <2>1. Settle(r, result, known) /\ UNCHANGED blurred /\ Charge(r)
    BY <1>3, <1>8
  <2>2. op[r] \in NewSale /\ op[r] # "cancel"
    BY <1>1, <1>2, <1>8 DEF RequestInv, TypeOK, Op
  <2>3. Took(r)'
    BY <1>1, <2>1, <2>2, ChargeChanges DEF Took
  <2>4. plan'[tx[r].member] = Asked(r) \/ tx[r].member \in blurred
    BY <1>1, <2>1, <2>2, ChargeChanges DEF Asked, PlanInv, Shared
  <2> QED  BY <1>1, <1>4, <1>8, <2>1, <2>3, <2>4, SettleKeepsPlan
<1> QED  BY <1>5, <1>6, <1>7, <1>8 DEF Answer

LEMMA MemberAnsweredKeepsPlan ==
    ASSUME MemberInv, PlanInv, NEW r \in Request, MemberAnswered(r)
    PROVE  PlanInv'
<1>1. /\ pc[r] = "member" /\ pc[r] \in Working
      /\ UNCHANGED <<doc, op, wish, order, bi>>
  BY DEF MemberAnswered, Working, request
<1>2. /\ TypeOK /\ RequestInv(r) /\ tx[r] \in Transaction /\ Target(r) = tx[r].member
      /\ doc[r] = Absent
  BY <1>1, WhileWorking
<1>3. op[r] \notin NewSale /\ (op[r] \in Updates => answer[r] \in {tx[r].member, None})
  BY <1>1, <1>2 DEF RequestInv, Between
<1>4. PICK result \in Answer \cup {"same"}, known \in {tx[r].member, None} :
         /\ result = "same" => op[r] \in Updates
         /\ IF Kept(op[r], result)
            THEN Settle(r, "approved", answer[r])
            ELSE Settle(r, IF result = "same" THEN "declined" ELSE result, known)
         /\ \/ result # "declined" /\ Apply(r)
            \/ result \in {"declined", "aborted"} /\ UNCHANGED netbilling
         /\ IF result = "aborted" THEN Lose(r)
            ELSE IF op[r] \in Updates /\ ~Kept(op[r], result) THEN Blur(r)
            ELSE UNCHANGED blurred
  BY <1>2 DEF MemberAnswered
<1>5. Acts(r)
  BY <1>4 DEF Acts
<1>6. CASE result \in {"approved", "same"}
  <2>1. PICK told \in {tx[r].member, None} : Settle(r, "approved", told)
    <3>1. CASE op[r] \in Updates
      BY <1>3, <1>4, <1>6, <3>1 DEF Kept
    <3>2. CASE op[r] \notin Updates
      BY <1>4, <1>6, <3>2 DEF Kept
    <3> QED  BY <3>1, <3>2
  <2>2. UNCHANGED blurred /\ Apply(r)
    BY <1>4, <1>6 DEF Kept
  <2>3. Took(r)' /\ plan'[tx[r].member] = Asked(r)
    BY <1>1, <1>3, <2>2, ApplyChanges DEF Took
  <2> QED  BY <1>1, <1>5, <2>1, <2>2, <2>3, SettleKeepsPlan DEF Answer
<1>7. CASE result \in {"declined", "aborted"}
  <2>1. Settle(r, result, known)
    BY <1>4, <1>7 DEF Kept
  <2>2. CASE result = "declined"
    <3>1. UNCHANGED netbilling
      BY <1>4, <2>2
    <3>2. blurred \subseteq blurred' /\ (op[r] \in Updates => tx[r].member \in blurred')
      BY <1>4, <2>2 DEF Kept, Blur
    <3> QED  BY <1>1, <1>5, <2>1, <2>2, <3>1, <3>2, SettleKeepsPlan DEF Answer
  <2>3. CASE result = "aborted"
    <3>1. /\ pc'[r] = "add" /\ \A q \in Request \ {r} : pc'[q] = pc[q]
          /\ \A q \in Request \ {r} : tx'[q] = tx[q]
          /\ tx'[r] \in Transaction
          /\ tx'[r].settings = tx[r].settings /\ tx'[r].member = tx[r].member
      BY <1>1, <2>1, <2>3, SettleType DEF Answer
    <3> QED  BY <1>1, <1>2, <1>4, <1>5, <2>3, <3>1, LoseKeepsPlan
  <2> QED  BY <1>7, <2>2, <2>3
<1> QED  BY <1>6, <1>7 DEF Answer

LEMMA ChargeUnansweredKeepsPlan ==
    ASSUME MemberInv, PlanInv, NEW r \in Request, ChargeUnanswered(r)
    PROVE  PlanInv'
<1>1. /\ pc[r] \in Working /\ Goto(r, "failed") /\ Lose(r) /\ Acts(r)
      /\ UNCHANGED <<doc, op, wish, order, tx>>
  BY DEF ChargeUnanswered, Working, request, Acts
<1>2. /\ TypeOK /\ tx[r] \in Transaction
      /\ doc[r] # Absent => doc[r].member = tx[r].member
  BY <1>1, WhileWorking
<1>3. pc'[r] = "failed" /\ \A q \in Request \ {r} : pc'[q] = pc[q]
  BY <1>1, <1>2, GotoType
<1> QED  BY <1>1, <1>2, <1>3, LoseKeepsPlan

LEMMA MemberUnansweredKeepsPlan ==
    ASSUME MemberInv, PlanInv, NEW r \in Request, MemberUnanswered(r)
    PROVE  PlanInv'
<1>1. /\ pc[r] = "member" /\ pc[r] \in Working /\ Lose(r) /\ Acts(r)
      /\ UNCHANGED <<doc, op, wish, order>>
      /\ IF op[r] = "updateNew" THEN Goto(r, "failed") /\ UNCHANGED <<tx, answer>>
         ELSE Settle(r, "aborted", None)
  BY DEF MemberUnanswered, Working, request, Acts
<1>2. /\ TypeOK /\ tx[r] \in Transaction
      /\ doc[r] # Absent => doc[r].member = tx[r].member
  BY <1>1, WhileWorking
<1>3. CASE Goto(r, "failed") /\ UNCHANGED tx
  <2>1. pc'[r] = "failed" /\ \A q \in Request \ {r} : pc'[q] = pc[q]
    BY <1>2, <1>3, GotoType
  <2> QED  BY <1>1, <1>2, <1>3, <2>1, LoseKeepsPlan
<1>4. CASE Settle(r, "aborted", None)
  <2>1. /\ pc'[r] = "add" /\ \A q \in Request \ {r} : pc'[q] = pc[q]
        /\ \A q \in Request \ {r} : tx'[q] = tx[q]
        /\ tx'[r] \in Transaction
        /\ tx'[r].settings = tx[r].settings /\ tx'[r].member = tx[r].member
    BY <1>1, <1>4, SettleType DEF Answer
  <2> QED  BY <1>1, <1>2, <2>1, LoseKeepsPlan
<1> QED  BY <1>1, <1>3, <1>4

\* A step after the calls that nothing gets lost in.
LEMMA LaterKeepsPlan ==
    ASSUME MemberInv, PlanInv, NEW r \in Request, pc[r] \in Working,
           NEW step \in Working \cup {"done", "failed"}, Goto(r, step),
           UNCHANGED <<netbilling, op, wish, order, blurred>>,
           \A q \in Request \ {r} : tx'[q] = tx[q],
           tx'[r] \in Transaction, tx'[r].member = tx[r].member,
           tx'[r].settings = tx[r].settings, tx'[r].status = tx[r].status,
           \A t \in TxId \ {r} : doc'[t] = doc[t],
           pc[r] # "member",
           \/ pc[r] # "add" /\ doc'[r] = doc[r]
           \/ doc'[r].status = tx[r].status /\ doc'[r].member = tx[r].member
    PROVE  PlanInv'
<1>1. TypeOK /\ (doc[r] # Absent => doc[r].member = tx[r].member)
  BY WhileWorking
<1>2. pc'[r] = step /\ pc'[r] # "idle" /\ \A q \in Request \ {r} : pc'[q] = pc[q]
  BY <1>1, GotoType DEF Working
<1>3. plan' = plan /\ \A q : Took(q)' <=> Took(q)
  BY DEF netbilling, Took
<1>4. Held(r) => Held(r)'
  BY DEF Held
<1>5. doc'[r] # Absent => doc'[r].member = tx[r].member
  BY <1>1
<1> QED  BY <1>2, <1>3, <1>4, <1>5, WorkKeeps

LEMMA AddKeepsPlan ==
    ASSUME MemberInv, PlanInv, NEW r \in Request, Add(r)
    PROVE  PlanInv'
<1>1. /\ pc[r] \in Working /\ pc[r] # "member" /\ Store(r, tx[r]) /\ Goto(r, "report")
      /\ UNCHANGED <<netbilling, op, wish, order, tx, blurred>>
  BY DEF Add, Working, request
<1>2. TypeOK /\ tx[r] \in Transaction
  BY <1>1, WhileWorking
<1>3. doc'[r] = tx[r] /\ \A t \in TxId \ {r} : doc'[t] = doc[t]
  BY <1>1, <1>2 DEF Store, TypeOK, TxId
<1> QED  BY <1>1, <1>2, <1>3, LaterKeepsPlan DEF Working

LEMMA UpdateKeepsPlan ==
    ASSUME MemberInv, PlanInv, NEW r \in Request, Update(r)
    PROVE  PlanInv'
<1> DEFINE w == WithFields(tx[r])
<1>1. /\ pc[r] \in Working /\ pc[r] # "member" /\ Store(r, w) /\ tx' = [tx EXCEPT ![r] = w]
      /\ UNCHANGED <<netbilling, op, wish, order, blurred>>
  BY DEF Update, Working, request
<1>2. PICK step \in {"classify", "done"} : Goto(r, step)
  BY DEF Update
<1>3. TypeOK /\ tx[r] \in Transaction /\ Named(tx[r])
  BY <1>1, WhileWorking
<1>4. /\ w \in Transaction /\ w.status = tx[r].status /\ w.settings = tx[r].settings
      /\ w.member = tx[r].member
  BY <1>3, WithFieldsType
<1> HIDE DEF w
<1>5. /\ doc'[r] = w /\ \A t \in TxId \ {r} : doc'[t] = doc[t]
      /\ tx'[r] = w /\ \A q \in Request \ {r} : tx'[q] = tx[q]
  BY <1>1, <1>3 DEF Store, TypeOK, TxId
<1> QED  BY <1>1, <1>2, <1>4, <1>5, LaterKeepsPlan DEF Working

LEMMA SaveFailsKeepsPlan ==
    ASSUME MemberInv, PlanInv, NEW r \in Request, SaveFails(r)
    PROVE  PlanInv'
<1> DEFINE w == IF pc[r] = "update" THEN WithFields(tx[r]) ELSE tx[r]
<1>1. /\ pc[r] \in Working /\ Goto(r, "failed") /\ Lose(r) /\ Acts(r)
      /\ Store(r, w) \/ UNCHANGED doc
      /\ UNCHANGED <<op, wish, order, tx>>
  BY DEF SaveFails, Working, request, Acts
<1>2. /\ TypeOK /\ tx[r] \in Transaction /\ Named(tx[r])
      /\ doc[r] # Absent => doc[r].member = tx[r].member
  BY <1>1, WhileWorking
<1>3. w.member = tx[r].member
  BY <1>2, WithFieldsType
<1> HIDE DEF w
<1>4. /\ doc'[r] = w \/ doc'[r] = doc[r]
      /\ \A t \in TxId \ {r} : doc'[t] = doc[t]
  BY <1>1, <1>2 DEF Store, TypeOK, TxId
<1>5. pc'[r] = "failed" /\ \A q \in Request \ {r} : pc'[q] = pc[q]
  BY <1>1, <1>2, GotoType
<1> QED  BY <1>1, <1>2, <1>3, <1>4, <1>5, LoseKeepsPlan

LEMMA DieKeepsPlan ==
    ASSUME MemberInv, PlanInv, NEW r \in Request, Die(r)
    PROVE  PlanInv'
<1>1. /\ pc[r] \in Working /\ Goto(r, "failed") /\ Lose(r) /\ Acts(r)
      /\ UNCHANGED <<doc, op, wish, order, tx>>
  BY DEF Die, request, Acts
<1>2. /\ TypeOK /\ tx[r] \in Transaction
      /\ doc[r] # Absent => doc[r].member = tx[r].member
  BY <1>1, WhileWorking
<1>3. pc'[r] = "failed" /\ \A q \in Request \ {r} : pc'[q] = pc[q]
  BY <1>1, <1>2, GotoType
<1> QED  BY <1>1, <1>2, <1>3, LoseKeepsPlan

LEMMA StepPlan == MemberInv /\ PlanInv /\ [Next]_vars => PlanInv'
<1> SUFFICES ASSUME MemberInv, PlanInv, [Next]_vars PROVE PlanInv'
  OBVIOUS
<1>1. CASE UNCHANGED vars
  <2>1. UNCHANGED <<doc, plan, charged, applied, pc, op, wish, order, tx, blurred>>
    BY <1>1 DEF vars, netbilling, request
  <2>2. Placed' /\ Shared'
    BY <2>1 DEF PlanInv, Placed, Shared, Started, Took
  <2>3. \A m \in Member \ blurred' : Clear(m)'
    BY <2>1 DEF PlanInv, Clear, Follows, Foreseen, TookOf, Of, Held, Took, Asked
  <2> QED  BY <2>2, <2>3 DEF PlanInv
<1>2. CASE Next
  <2>1. PICK r \in Request :
           \/ \E o \in NewSale, given \in OrNone : ReceiveSale(r, o, given)
           \/ \E o \in Updates \cup {"cancel"}, t \in TxId : ReceiveChange(r, o, t)
           \/ Proceed(r) \/ Die(r)
    BY <1>2 DEF Next
  <2>2. CASE \E o \in NewSale, given \in OrNone : ReceiveSale(r, o, given)
    BY <2>2, ReceiveSaleKeepsPlan
  <2>3. CASE \E o \in Updates \cup {"cancel"}, t \in TxId : ReceiveChange(r, o, t)
    BY <2>3, ReceiveChangeKeepsPlan
  <2>4. CASE ChargeAnswered(r)
    BY <2>4, ChargeAnsweredKeepsPlan
  <2>5. CASE ChargeUnanswered(r)
    BY <2>5, ChargeUnansweredKeepsPlan
  <2>6. CASE MemberAnswered(r)
    BY <2>6, MemberAnsweredKeepsPlan
  <2>7. CASE MemberUnanswered(r)
    BY <2>7, MemberUnansweredKeepsPlan
  <2>8. CASE Add(r)
    BY <2>8, AddKeepsPlan
  <2>9. CASE Report(r)
    <3>1. PICK step \in {"update", "classify", "done"} : Goto(r, step)
      BY <2>9 DEF Report
    <3>2. pc[r] \in Working /\ pc[r] \notin {"add", "member"}
          /\ UNCHANGED <<doc, netbilling, op, wish, order, tx, blurred>>
      BY <2>9 DEF Report, Working, request
    <3> QED  BY <3>1, <3>2, WhileWorking, LaterKeepsPlan DEF Working
  <2>10. CASE Update(r)
    BY <2>10, UpdateKeepsPlan
  <2>11. CASE Classify(r)
    <3>1. PICK step \in {"done", "failed"} : Goto(r, step)
      BY <2>11 DEF Classify
    <3>2. pc[r] \in Working /\ pc[r] \notin {"add", "member"}
          /\ UNCHANGED <<doc, netbilling, op, wish, order, tx, blurred>>
      BY <2>11 DEF Classify, Working, request
    <3> QED  BY <3>1, <3>2, WhileWorking, LaterKeepsPlan DEF Working
  <2>12. CASE SaveFails(r)
    BY <2>12, SaveFailsKeepsPlan
  <2>13. CASE Die(r)
    BY <2>13, DieKeepsPlan
  <2> QED
    BY <2>1, <2>2, <2>3, <2>4, <2>5, <2>6, <2>7, <2>8, <2>9, <2>10, <2>11, <2>12, <2>13
       DEF Proceed
<1> QED  BY <1>1, <1>2

\* While no request about a member is handled, the stored transactions tell what
\* Netbilling rebills it, however many sales, updates and cancellations came before
\* and whatever failed: unless two overlapped, a sale was made to a member there
\* was already, an update was charged and then refused, or an outcome or a save was
\* lost.
THEOREM PlanKept == Spec => []QuietPlanIsRecorded
<1>1. MemberInv /\ PlanInv => QuietPlanIsRecorded
  BY PlanIsEnough
<1>2. Init => PlanInv
  BY InitPlan
<1>3. MemberInv /\ PlanInv /\ [Next]_vars => PlanInv'
  BY StepPlan
<1> QED  BY <1>1, <1>2, <1>3, AlwaysInv, PTL DEF Spec

==============================================================================
