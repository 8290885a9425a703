--------------------------- MODULE NetbillingMember ---------------------------
(***************************************************************************)
(* Netbilling: sales with a new or an existing card, updates and            *)
(* cancellations of what a member is rebilled.                              *)
(*                                                                         *)
(* An update is two calls: the card is charged, then the member is changed.  *)
(* A member is named for the sale whose charge created it, and a request's   *)
(* transaction for the request.                                             *)
(***************************************************************************)
EXTENDS TransactionStatus, Naturals, Sequences

CONSTANTS
    Sale,     \* sales, stored before anything below happens
    Request,
    None,     \* no member
    Plan,     \* what a request may ask a member to be rebilled
    Joined,   \* the plan of the members of those sales
    Known,    \* where the documents of the sales may hold the member
    Faults,   \* what may go wrong, a subset of Fault
    Overlap   \* TRUE: requests may be handled at once

(* lost      a call ends in an exception or, before it is made, in the breaker
   save      a save fails, its effect unknown
   classify  the error classification cannot be read
   die       the process dies between two steps *)
Fault == {"lost", "save", "classify", "die"}

ASSUME NoneAssumption == None \notin Sale \cup Request
ASSUME DistinctAssumption == Sale \cap Request = {}
ASSUME PlanAssumption == Plan \cap {"none", "cancelled"} = {}
ASSUME JoinedAssumption == Joined \in Plan
ASSUME KnownAssumption == Known \subseteq SUBSET {"interactions", "settings", "fields"}
ASSUME FaultsAssumption == Faults \subseteq Fault
ASSUME OverlapAssumption == Overlap \in BOOLEAN

TxId == Sale \cup Request
Member == TxId
OrNone == Member \cup {None}

NewSale == {"saleNew", "saleExisting"}
Updates == {"updateNew", "updateExisting"}
Op == NewSale \cup Updates \cup {"cancel"}

(* interactions  the member in the request or the first response stored
   settings      billerMemberId of billerChargeSettings
   fields        billerMemberId of subsequentOperationFields
   member        history: whom the sale at the end of the previousTransaction
                 chain is a sale to *)
Transaction == [status: Status, interactions: OrNone, settings: OrNone, fields: OrNone,
                member: Member]

Absent == [status |-> "absent"]

SaleDocument(s, known) ==
    [status |-> "approved",
     interactions |-> IF "interactions" \in known THEN s ELSE None,
     settings |-> IF "settings" \in known THEN s ELSE None,
     fields |-> IF "fields" \in known THEN s ELSE None,
     member |-> s]

VARIABLES
    doc,      \* the stored transactions
    plan,     \* what Netbilling rebills each member: a plan, "none", "cancelled"
    pc,       \* where each request is
    op,       \* its operation
    wish,     \* the plan it asks for
    tx,       \* its transaction, in memory
    answer,   \* an update's approved charge: the member it tells, or None
    order,    \* the requests in the order of their transactions' createdAt
    bi,       \* the status the BI event of each request reports, or "none"
    charged,  \* history: the requests Netbilling took a charge for
    applied,  \* history: those that left their member with what they asked for
    unsure,   \* history: those one of whose outcomes or saves got lost
    blurred   \* history: the members changed by two requests at once, by one that
              \* is unsure, or by the charge of an update that was then refused

Working == {"charge", "member", "add", "report", "classify", "update"}

request == <<op, wish, order>>
netbilling == <<plan, charged, applied>>
vars == <<doc, netbilling, pc, request, tx, answer, bi, unsure, blurred>>

TypeOK ==
    /\ doc \in [TxId -> Transaction \cup {Absent}]
    /\ plan \in [Member -> Plan \cup {"none", "cancelled"}]
    /\ pc \in [Request -> {"idle"} \cup Working \cup {"done", "failed"}]
    /\ op \in [Request -> Op]
    /\ wish \in [Request -> Plan]
    /\ tx \in [Request -> Transaction \cup {Absent}]
    /\ answer \in [Request -> OrNone]
    /\ order \in Seq(Request)
    /\ bi \in [Request -> Status \cup {"none"}]
    /\ charged \subseteq Request
    /\ applied \subseteq Request
    /\ unsure \subseteq Request
    /\ blurred \subseteq Member

Init ==
    /\ \E known \in [Sale -> Known] :
          doc = [t \in TxId |-> IF t \in Sale THEN SaleDocument(t, known[t]) ELSE Absent]
    /\ plan = [m \in Member |-> IF m \in Sale THEN Joined ELSE "none"]
    /\ pc = [r \in Request |-> "idle"]
    /\ op = [r \in Request |-> "cancel"]
    /\ wish \in [Request -> Plan]
    /\ tx = [r \in Request |-> Absent]
    /\ answer = [r \in Request |-> None]
    /\ order = <<>>
    /\ bi = [r \in Request |-> "none"]
    /\ charged = {}
    /\ applied = {}
    /\ unsure = {}
    /\ blurred = {}

Goto(r, step) == pc' = [pc EXCEPT ![r] = step]
Store(r, t) == doc' = [doc EXCEPT ![r] = t]

-----------------------------------------------------------------------------
(* A request is received.                                                  *)

\* getNetbillingBillerMemberIdFromTransaction.
MemberOf(t) ==
    IF t.interactions # None THEN t.interactions
    ELSE IF t.settings # None THEN t.settings ELSE t.fields

TellsMember(t) == t # Absent /\ MemberOf(t) # None

\* createNetbillingTransaction, createNetbilling{Update,Cancel}RebillTransaction.
NewTransaction(settings, member) ==
    [status |-> "pending", interactions |-> None, settings |-> settings, fields |-> None,
     member |-> member]

\* Whom a request is about: nobody before it is received.
About(r) == IF tx[r] = Absent THEN None ELSE tx[r].member
Handled(m) == {r \in Request : pc[r] \in Working /\ About(r) = m}

Accept(r, o, t, step) ==
    /\ Goto(r, step)
    /\ op' = [op EXCEPT ![r] = o]
    /\ tx' = [tx EXCEPT ![r] = t]
    /\ order' = Append(order, r)
    /\ UNCHANGED <<doc, netbilling, wish, answer, bi, unsure>>

CanStart(r) == pc[r] = "idle" /\ (Overlap \/ \A q \in Request : pc[q] \notin Working)

(* A sale to a new member; a cross sale with a new card may name the member of
   the sale before it, whose rebill it may change as well. *)
ReceiveSale(r, o, given) ==
    /\ CanStart(r)
    /\ given # None => o = "saleNew" /\ plan[given] # "none"
    /\ Accept(r, o, NewTransaction(given, IF given = None THEN r ELSE given), "charge")
    /\ blurred' = IF given = None THEN blurred ELSE blurred \cup {given}

(* An update or a cancellation names a transaction; it fails when that is missing
   or tells no member. *)
ReceiveChange(r, o, t) ==
    /\ CanStart(r)
    /\ \/ /\ ~TellsMember(doc[t])
          /\ Goto(r, "failed")
          /\ UNCHANGED <<doc, netbilling, request, tx, answer, bi, unsure, blurred>>
       \/ /\ TellsMember(doc[t])
          /\ Accept(r, o, NewTransaction(MemberOf(doc[t]), doc[t].member),
                    IF o = "cancel" THEN "member" ELSE "charge")
          /\ blurred' = IF Handled(doc[t].member) = {} THEN blurred
                        ELSE blurred \cup {doc[t].member}

-----------------------------------------------------------------------------
(* What Netbilling does.                                                   *)

\* The member a call names; a sale without one creates it.
Target(r) == IF tx[r].settings = None THEN r ELSE tx[r].settings

(* A charge is taken. It also says what to rebill, a sale's and an update's alike
   (prepareRecurringBillingFields); what that changes for a member who is rebilled
   already is not known. *)
Charge(r) ==
    /\ charged' = charged \cup {r}
    /\ \/ plan' = [plan EXCEPT ![Target(r)] = wish[r]]
       \/ tx[r].settings # None /\ UNCHANGED plan
    /\ UNCHANGED applied

\* A member's rebill is changed, or ended.
Apply(r) ==
    /\ applied' = applied \cup {r}
    /\ plan' = [plan EXCEPT ![Target(r)] = IF op[r] = "cancel" THEN "cancelled" ELSE wish[r]]
    /\ UNCHANGED charged

Blur(r) == blurred' = blurred \cup {tx[r].member}

\* The service does not know what became of the request.
Lose(r) == unsure' = unsure \cup {r} /\ Blur(r)

-----------------------------------------------------------------------------
(* The outcome of the calls.                                               *)

\* getBillerResponseResultFrom: code 0, any other code, 9000.
Answer == {"approved", "declined", "aborted"}

\* Mutant of Outcome: the code is the status.
OutcomeIsCode(result) == IF result = "approved" THEN "0" ELSE result

\* updateTransactionFromNetbillingResponse of a pending transaction.
Outcome(result) == After("pending", Operation(result))

\* Mutant of Updated: the transaction's own id is taken for the member's.
UpdatedWithTransId(r, result, known) ==
    [status |-> Outcome(result),
     interactions |-> IF known = None THEN None ELSE r,
     settings |-> tx[r].settings,
     fields |-> tx[r].fields,
     member |-> tx[r].member]

(* The transaction with the answer, and with the fields of an approval, which a
   new card's sale and a cancellation do not set here. *)
Updated(r, result, known) ==
    [status |-> Outcome(result),
     interactions |-> known,
     settings |-> tx[r].settings,
     fields |-> IF result = "approved" /\ op[r] \notin {"saleNew", "cancel"}
                THEN known ELSE tx[r].fields,
     member |-> tx[r].member]

Settle(r, result, known) ==
    /\ tx' = [tx EXCEPT ![r] = Updated(r, result, known)]
    /\ Goto(r, "add")
    /\ UNCHANGED answer

\* An answer to a charge; 9000 does not tell whether it was taken.
ChargeAnswered(r) ==
    /\ pc[r] = "charge"
    /\ \E result \in Answer, known \in {Target(r), None} :
          /\ IF result = "approved" /\ op[r] \in Updates
             THEN /\ answer' = [answer EXCEPT ![r] = known]
                  /\ Goto(r, "member")
                  /\ UNCHANGED tx
             ELSE Settle(r, result, known)
          /\ \/ result # "declined" /\ Charge(r)
             \/ result # "approved" /\ UNCHANGED netbilling
          /\ IF result = "aborted" THEN Lose(r) ELSE UNCHANGED <<unsure, blurred>>
    /\ UNCHANGED <<doc, request, bi>>

\* No breaker: NetbillingServiceException leaves the handler.
ChargeUnanswered(r) ==
    /\ "lost" \in Faults
    /\ pc[r] = "charge"
    /\ Charge(r) \/ UNCHANGED netbilling
    /\ Goto(r, "failed")
    /\ Lose(r)
    /\ UNCHANGED <<doc, request, tx, answer, bi>>

\* Mutant of Kept: "No changes made" is a refusal.
KeptIfApproved(o, result) == o \in Updates /\ result = "approved"

\* Mutant of Kept: the member's answer is not looked at.
KeptAlways(o, result) == o \in Updates

(* Whether the charge's answer stays the update's: the member was changed, or was
   as asked already ("No changes made"). *)
Kept(o, result) == o \in Updates /\ result \in {"approved", "same"}

MemberAnswered(r) ==
    /\ pc[r] = "member"
    /\ \E result \in Answer \cup {"same"}, known \in {Target(r), None} :
          /\ result = "same" => op[r] \in Updates /\ plan[Target(r)] = wish[r]
          /\ IF Kept(op[r], result)
             THEN Settle(r, "approved", answer[r])
             ELSE Settle(r, IF result = "same" THEN "declined" ELSE result, known)
          /\ \/ result # "declined" /\ Apply(r)
             \/ result \in {"declined", "aborted"} /\ UNCHANGED netbilling
          /\ IF result = "aborted" THEN Lose(r)
             ELSE /\ IF op[r] \in Updates /\ ~Kept(op[r], result) THEN Blur(r)
                     ELSE UNCHANGED blurred
                  /\ UNCHANGED unsure
    /\ UNCHANGED <<doc, request, bi>>

(* The breaker answers for an existing card's update and a cancellation; the
   translator of a new card's is given the adapter itself. *)
MemberUnanswered(r) ==
    /\ "lost" \in Faults
    /\ pc[r] = "member"
    /\ IF op[r] = "updateNew" THEN Goto(r, "failed") /\ UNCHANGED <<tx, answer>>
       ELSE Settle(r, "aborted", None)
    /\ Apply(r) \/ UNCHANGED netbilling
    /\ Lose(r)
    /\ UNCHANGED <<doc, request, bi>>

-----------------------------------------------------------------------------
(* After the calls.                                                        *)

Refused(r) == tx[r].status \in {"declined", "aborted"}

\* Mutant of Add: only sales are stored.
AddSales(r) ==
    /\ pc[r] = "add"
    /\ IF op[r] \in NewSale THEN Store(r, tx[r]) ELSE UNCHANGED doc
    /\ Goto(r, "report")
    /\ UNCHANGED <<netbilling, request, tx, answer, bi, unsure, blurred>>

Add(r) ==
    /\ pc[r] = "add"
    /\ Store(r, tx[r])
    /\ Goto(r, "report")
    /\ UNCHANGED <<netbilling, request, tx, answer, bi, unsure, blurred>>

Report(r) ==
    /\ pc[r] = "report"
    /\ bi' = [bi EXCEPT ![r] = tx[r].status]
    /\ Goto(r, IF op[r] = "saleNew" THEN "update"
               ELSE IF Refused(r) /\ op[r] # "cancel" THEN "classify" ELSE "done")
    /\ UNCHANGED <<doc, netbilling, request, tx, answer, unsure, blurred>>

\* The second save of a new card's sale.
WithFields(t) ==
    [t EXCEPT !.fields = IF t.status = "approved" THEN t.interactions ELSE @]

Update(r) ==
    /\ pc[r] = "update"
    /\ tx' = [tx EXCEPT ![r] = WithFields(@)]
    /\ Store(r, WithFields(tx[r]))
    /\ Goto(r, IF Refused(r) THEN "classify" ELSE "done")
    /\ UNCHANGED <<netbilling, request, answer, bi, unsure, blurred>>

Classify(r) ==
    /\ pc[r] = "classify"
    /\ \/ Goto(r, "done")
       \/ "classify" \in Faults /\ Goto(r, "failed")
    /\ UNCHANGED <<doc, netbilling, request, tx, answer, bi, unsure, blurred>>

\* Mutant of SaveFails: the exception is caught.
SaveFailsSilently(r) ==
    /\ "save" \in Faults
    /\ pc[r] \in {"add", "update"}
    /\ UNCHANGED doc
    /\ Goto(r, IF pc[r] = "add" THEN "report" ELSE "done")
    /\ Lose(r)
    /\ UNCHANGED <<netbilling, request, tx, answer, bi>>

SaveFails(r) ==
    /\ "save" \in Faults
    /\ pc[r] \in {"add", "update"}
    /\ \/ Store(r, IF pc[r] = "update" THEN WithFields(tx[r]) ELSE tx[r])
       \/ UNCHANGED doc
    /\ Goto(r, "failed")
    /\ Lose(r)
    /\ UNCHANGED <<netbilling, request, tx, answer, bi>>

\* Netbilling may carry out the call all the same.
Die(r) ==
    /\ "die" \in Faults
    /\ pc[r] \in Working
    /\ \/ pc[r] = "charge" /\ Charge(r)
       \/ pc[r] = "member" /\ Apply(r)
       \/ UNCHANGED netbilling
    /\ Goto(r, "failed")
    /\ Lose(r)
    /\ UNCHANGED <<doc, request, tx, answer, bi>>

Proceed(r) ==
    \/ ChargeAnswered(r) \/ ChargeUnanswered(r) \/ MemberAnswered(r) \/ MemberUnanswered(r)
    \/ Add(r) \/ Report(r) \/ Update(r) \/ Classify(r) \/ SaveFails(r)

Next ==
    \E r \in Request :
        \/ \E o \in NewSale, given \in OrNone : ReceiveSale(r, o, given)
        \/ \E o \in Updates \cup {"cancel"}, t \in TxId : ReceiveChange(r, o, t)
        \/ Proceed(r) \/ Die(r)

Spec == Init /\ [][Next]_vars

-----------------------------------------------------------------------------
(* Properties.                                                             *)

\* Every update and cancellation calls Netbilling for the member the sale at the
\* end of the chain it names is a sale to, wherever the documents of that chain
\* hold the member.
ActsOnItsMember ==
    \A r \in Request :
        tx[r] # Absent /\ op[r] \notin NewSale => tx[r].settings = tx[r].member

\* What is stored is what Netbilling did: an approved sale was charged, an approved
\* update charged and its member changed, an approved cancellation carried out; of
\* a declined transaction nothing was done, but for an update's charge and what that
\* charge changed.
StoredIsTrue ==
    \A r \in Request :
        /\ doc[r].status = "approved" =>
              /\ op[r] # "cancel" => r \in charged
              /\ op[r] \notin NewSale => r \in applied
        /\ doc[r].status = "declined" =>
              /\ r \notin applied
              /\ r \in charged => op[r] \in Updates

\* A charge is accounted for once its request has ended: by an approved transaction,
\* or by a declined one because the member was not changed; unless an outcome or a
\* save got lost.
ChargeIsStored ==
    \A r \in charged \ unsure :
        pc[r] \in {"done", "failed"} =>
            \/ doc[r].status = "approved"
            \/ doc[r].status = "declined" /\ op[r] \in Updates /\ r \notin applied

\* Every event reports the status stored, and a request that ended well has been
\* reported.
ReportedIsStored ==
    \A r \in Request : bi[r] # "none" \/ pc[r] = "done" => bi[r] = doc[r].status

\* The approved requests about a member, as positions in order.
Approvals(m) ==
    {i \in DOMAIN order : doc[order[i]].status = "approved" /\ doc[order[i]].member = m}

\* What the stored transactions tell a member is rebilled: what the last one
\* approved asked for.
RecordedPlan(m) ==
    IF Approvals(m) = {} THEN IF m \in Sale THEN Joined ELSE "none"
    ELSE LET last == order[CHOOSE i \in Approvals(m) : \A j \in Approvals(m) : j <= i]
         IN  IF op[last] = "cancel" THEN "cancelled" ELSE wish[last]

\* Between requests the transactions stored tell what Netbilling rebills each
\* member, as long as no two requests were about the member at once, none lost an
\* outcome, and no update was charged and then refused: its charge named the member
\* and the plan, and is stored as declined.
QuietPlanIsRecorded ==
    \A m \in Member :
        Handled(m) = {} /\ m \notin blurred => plan[m] = RecordedPlan(m)

==============================================================================
