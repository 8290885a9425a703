----------------------------- MODULE HostedSale ------------------------------
(***************************************************************************)
(* Sales that the customer pays on a page of the biller (Epoch, Qysso,     *)
(* Legacy, Pumapay): the service creates a pending transaction, the biller *)
(* reports the outcome later in a postback, and reports renewals and cross *)
(* sales in postbacks of their own.                                        *)
(*                                                                         *)
(* A postback may come at any time after the page was opened, more than    *)
(* once and in any order: told only grows and any request may deliver any   *)
(* notice in it.  As in RocketgateSale nothing locks a transaction and a    *)
(* save replaces the document, so a step is what a handler does between     *)
(* two accesses to something shared.                                       *)
(***************************************************************************)
EXTENDS TransactionStatus

CONSTANTS
    Request,   \* HTTP requests; each runs one handler once
    TxId,      \* transaction ids
    None,      \* no transaction, no notice
    Billers,   \* the billers in use, a subset of Biller
    Faults,    \* what may go wrong, a subset of Fault
    Racing     \* the kinds of requests that may overlap on one transaction

(* crash       the PHP process dies between two steps
   firestore   a read or a save throws; a save that throws may have been applied
   noAnswer    a call to the biller fails or its circuit is open
   malformed   a request is refused for its content: a bad digest, a missing
               site or Legacy id, a charge without rebill
   earlyReturn Qysso sends the customer back before the payment is final
   payAgain    the customer pays after a payment that failed
   declinedCross  Legacy posts a cross sale that was declined *)
Fault == {"crash", "firestore", "noAnswer", "malformed", "earlyReturn", "payAgain",
          "declinedCross"}

Kind == {"sale", "qr", "join", "rebill", "cancel", "abort"}

(* A document's biller.  "crypto" is a Legacy transaction whose charge settings
   name the biller 'crypto': it becomes a Pumapay one when a QR code is asked
   for it. *)
Biller == {"epoch", "qysso", "legacy", "crypto", "pumapay"}
Sender == {"epoch", "qysso", "legacy", "pumapay"}
SentBy(b) == IF b = "crypto" THEN "legacy" ELSE b

ASSUME NoneAssumption == None \notin TxId
ASSUME BillersAssumption == Billers \subseteq Biller
ASSUME FaultsAssumption == Faults \subseteq Fault
ASSUME RacingAssumption == Racing \subseteq Kind

(* What a biller said about a payment or a cancellation.  "sale", "qr" and "cancel"
   are answers to a call, the others are postbacks; garbled stands for every other
   status. *)
Said == {"approved", "declined", "waiting", "garbled"}
Notice == [tx: TxId, from: Sender, said: Said,
           about: {"sale", "qr", "cancel", "join", "crossSale", "rebill"}]

\* Renewals and cancellations are both rebill updates, which no handler tells apart.
Type == {"charge", "rebill", "cancel"}

\* of: the charge a rebill update or a Legacy cross sale was created from.
Entity == [status: Status, biller: Biller, type: Type, of: TxId \cup {None}]
Document == [status: Status \cup {"absent"}, biller: Biller, type: Type, of: TxId \cup {None}]

VARIABLES
    doc,    \* the Firestore collection
    pages,  \* payment pages opened: <<id, sender>>
    told,   \* what the billers have said, as they said it
    bi,     \* BI events: the set of <<id, status>> reported
    pc,     \* "idle", a Step, or how the request ended
    kind,   \* the handler a request runs
    on,     \* the id a request is about, or None
    made,   \* the id of a second transaction a request creates, or None
    mem,    \* the entity in the memory of a request
    msg     \* the notice a request delivers or was answered, or None

vars == <<doc, pages, told, bi, pc, kind, on, made, mem, msg>>

Step == {"call", "save", "report", "saveCross", "reportCross"}
Ended == {"done", "rejected", "failed"}

TypeOK ==
    /\ doc \in [TxId -> Document]
    /\ pages \subseteq TxId \X Sender
    /\ told \subseteq Notice
    /\ bi \subseteq TxId \X Status
    /\ pc \in [Request -> {"idle"} \cup Step \cup Ended]
    /\ kind \in [Request -> Kind]
    /\ on \in [Request -> TxId \cup {None}]
    /\ made \in [Request -> TxId \cup {None}]
    /\ mem \in [Request -> Entity]
    /\ msg \in [Request -> Notice \cup {None}]

NewEntity(b, type, of) == [status |-> "pending", biller |-> b, type |-> type, of |-> of]

NoDocument == [NewEntity("qysso", "charge", None) EXCEPT !.status = "absent"]

Init ==
    /\ doc = [t \in TxId |-> NoDocument]
    /\ pages = {}
    /\ told = {}
    /\ bi = {}
    /\ pc = [r \in Request |-> "idle"]
    /\ kind = [r \in Request |-> "abort"]
    /\ on = [r \in Request |-> None]
    /\ made = [r \in Request |-> None]
    /\ mem = [r \in Request |-> NewEntity("qysso", "charge", None)]
    /\ msg = [r \in Request |-> None]

Active(r) == pc[r] \in Step

GoTo(r, step) == pc' = [pc EXCEPT ![r] = step]

\* No request made or used the id yet: TransactionId::create.
Fresh(t) == \A q \in Request : t \notin {on[q], made[q]}

\* Whether a request of kind k on t may start while others are at work on t.
MayStart(t, k) ==
    \A q \in Request : Active(q) /\ on[q] = t => {k, kind[q]} \subseteq Racing

Begin(r, k, t, u, e, n) ==
    /\ pc[r] = "idle"
    /\ kind' = [kind EXCEPT ![r] = k]
    /\ on'   = [on EXCEPT ![r] = t]
    /\ made' = [made EXCEPT ![r] = u]
    /\ mem'  = [mem EXCEPT ![r] = e]
    /\ msg'  = [msg EXCEPT ![r] = n]
    /\ UNCHANGED <<doc, pages, told, bi>>

-----------------------------------------------------------------------------
(* Reading a transaction: findById, hydrate.                               *)

\* Mutant of Loaded: setStatus is forgotten, the entity stays Pending.
LoadedPending(d) == [d EXCEPT !.status = IF @ = "absent" THEN @ ELSE "pending"]

(* The entity findById returns, an absent one when it returns null or throws:
   hydrate has no case for Epoch, and it builds every Pumapay document as a
   charge, which throws for a rebill update since that has no charge information. *)
Loaded(d) ==
    IF d.biller = "epoch" \/ (d.biller = "pumapay" /\ d.type # "charge")
    THEN [d EXCEPT !.status = "absent"] ELSE d

\* The entity after the update from a response with this result; a pending
\* entity, and every update is of one, allows every operation.
Updated(e, result) ==
    [e EXCEPT !.status = IF result = "pending" THEN @ ELSE After(@, Operation(result))]

-----------------------------------------------------------------------------
(* Sales and QR codes.                                                     *)

\* Only an Epoch sale creates cross sales at once, here at most one.
StartSale(r, t, u, b) ==
    /\ Fresh(t)
    /\ u # None => b = "epoch" /\ u # t /\ Fresh(u)
    /\ b \in Billers \ {"pumapay"}
    /\ Begin(r, "sale", t, u, NewEntity(b, "charge", None), None)
    /\ GoTo(r, "call")

StartQr(r, t) ==
    /\ "pumapay" \in Billers
    /\ Fresh(t)
    /\ Begin(r, "qr", t, None, NewEntity("pumapay", "charge", None), None)
    /\ GoTo(r, "call")

\* createOrUpdateTransaction with an id: the transaction becomes a Pumapay one.
AcceptsQr(e) == e.status = "pending" /\ e.type = "charge" /\ e.biller \in {"pumapay", "crypto"}

StartQrAgain(r, t) ==
    /\ "pumapay" \in Billers
    /\ MayStart(t, "qr")
    /\ AcceptsQr(Loaded(doc[t]))
    /\ Begin(r, "qr", t, None, [Loaded(doc[t]) EXCEPT !.biller = "pumapay"], None)
    /\ GoTo(r, "call")

(* The biller's answers to the call of a request. Epoch and Legacy take a failed call
   for one of them; for Qysso and Pumapay it throws (CallFails). Pumapay accepts or
   refuses a QR code, and a cancellation. *)
Answers(r) ==
    IF kind[r] = "cancel" THEN {"approved", "declined"}
    ELSE CASE mem[r].biller = "epoch"   -> {"waiting", "declined", "garbled"}
           [] mem[r].biller = "qysso"   -> {"waiting", "declined", "approved"}
           [] mem[r].biller = "pumapay" -> {"waiting", "garbled"}
           [] OTHER -> {"waiting"} \cup {x \in {"garbled"} : "noAnswer" \in Faults}

Answer(r, said) == [tx |-> on[r], from |-> SentBy(mem[r].biller), about |-> kind[r],
                    said |-> said]

\* Mutant of CallResult: a Qysso sale is approved unless it is declined.
CallResultOpen(r, said) ==
    IF kind[r] = "cancel" \/ (said = "waiting" /\ mem[r].biller = "qysso") THEN "approved"
    ELSE CASE said = "waiting" -> "pending"
           [] said = "garbled" -> "aborted"
           [] OTHER            -> said

(* What the service makes of an answer. Of Pumapay's to a cancellation it reads
   neither "success" nor the code: PumapayCancelRebillBillerResponse is approved. *)
CallResult(r, said) ==
    IF kind[r] = "cancel" THEN "approved"
    ELSE CASE said = "waiting" -> "pending"
           [] said = "garbled" -> "aborted"
           [] OTHER            -> said

CallAnswered(r) ==
    /\ pc[r] = "call"
    /\ \E said \in Answers(r) :
          /\ mem' = [mem EXCEPT ![r] = Updated(@, CallResult(r, said))]
          /\ msg' = [msg EXCEPT ![r] = Answer(r, said)]
          /\ told' = told \cup {n \in {Answer(r, said)} : said \in {"approved", "declined"}}
    /\ GoTo(r, "save")
    /\ UNCHANGED <<doc, pages, bi, kind, on, made>>

CallFails(r) ==
    /\ "noAnswer" \in Faults
    /\ pc[r] = "call"
    /\ mem[r].biller \in {"qysso", "pumapay"}
    /\ GoTo(r, "failed")
    /\ UNCHANGED <<doc, pages, told, bi, kind, on, made, mem, msg>>

-----------------------------------------------------------------------------
(* The billers.                                                            *)

\* The biller approved the payment of t and told or answered so.
PaymentApproved(t, from) ==
    \E n \in told : /\ n.tx = t /\ n.from = from
                    /\ n.about \in {"sale", "join"} /\ n.said = "approved"

(* A payment has one outcome: the customer pays at one biller, once, unless the
   first attempt failed and "payAgain". *)
OneOutcome(n) ==
    \A m \in told : m.tx = n.tx /\ m.about = "join" /\ m.said # "waiting" =>
        \/ m.from = n.from /\ m.said = n.said
        \/ m.said # "approved" /\ "payAgain" \in Faults

Tell(n) ==
    /\ n \notin told
    /\ told' = told \cup {n}
    /\ UNCHANGED <<doc, pages, bi, pc, kind, on, made, mem, msg>>

\* The outcome of the payment on a page; Qysso also posts when it sends the
\* customer back.
TellJoin(t, from, said) ==
    LET n == [tx |-> t, from |-> from, about |-> "join", said |-> said]
    IN  /\ said # "waiting" => OneOutcome(n)
        /\ said = "waiting" => from = "qysso" /\ "earlyReturn" \in Faults
        /\ Tell(n)

TellRebill(t, from, said) ==
    /\ from \in {"qysso", "pumapay"} /\ said # "waiting"
    /\ PaymentApproved(t, from)
    /\ Tell([tx |-> t, from |-> from, about |-> "rebill", said |-> said])

TellCrossSale(t, said) ==
    /\ said = "approved" \/ (said = "declined" /\ "declinedCross" \in Faults)
    /\ PaymentApproved(t, "legacy")
    /\ Tell([tx |-> t, from |-> "legacy", about |-> "crossSale", said |-> said])

BillerTells ==
    \/ \E page \in pages, said \in Said : TellJoin(page[1], page[2], said)
    \/ \E m \in told, said \in Said : \/ TellRebill(m.tx, m.from, said)
                                     \/ TellCrossSale(m.tx, said)

\* Mutant of PostbackResult: any other status from Qysso counts as approved.
PostbackResultOpen(n) ==
    CASE n.said \in {"approved", "declined"}      -> n.said
      [] n.from = "qysso" /\ n.said = "waiting"   -> "pending"
      [] n.from = "qysso" /\ n.said = "garbled"   -> "approved"
      [] n.from = "legacy" /\ n.said \in {"waiting", "garbled"} -> "declined"
      [] OTHER                                    -> "aborted"

\* getStatus, mapStatus, LegacyPostbackBillerResponse::create.
PostbackResult(n) ==
    CASE n.said \in {"approved", "declined"}      -> n.said
      [] n.from = "qysso" /\ n.said = "waiting"   -> "pending"
      [] n.from = "qysso" /\ n.said = "garbled"   -> "declined"
      [] n.from = "legacy" /\ n.said \in {"waiting", "garbled"} -> "declined"
      [] OTHER                                    -> "aborted"

-----------------------------------------------------------------------------
(* Postbacks.                                                              *)

IsJoin(n) == n.about \in {"join", "crossSale"}

\* An approved Legacy cross sale gets a transaction of its own.
CreatesCrossSale(n) == n.about = "crossSale" /\ PostbackResult(n) = "approved"

\* The biller and status tests; Legacy's handler tests no biller.
AcceptsJoin(e, n) ==
    e.status = "pending" /\ (n.from # "legacy" => e.biller = n.from)

JoinUpdates(r, n) ==
    /\ IsJoin(n) /\ ~CreatesCrossSale(n)
    /\ MayStart(n.tx, "join")
    /\ AcceptsJoin(Loaded(doc[n.tx]), n)
    /\ Begin(r, "join", n.tx, None, Updated(Loaded(doc[n.tx]), PostbackResult(n)), n)
    /\ GoTo(r, "save")

\* Mutant of JoinCreates: isNotProcessed is asked of the main transaction.
JoinCreatesIfPending(r, n, u) ==
    /\ CreatesCrossSale(n)
    /\ MayStart(n.tx, "join")
    /\ Fresh(u) /\ Loaded(doc[n.tx]).status # "absent"
    /\ Begin(r, "join", n.tx, u,
             Updated(NewEntity(doc[n.tx].biller, "charge", n.tx), PostbackResult(n)), n)
    /\ GoTo(r, IF doc[n.tx].status = "pending" THEN "save" ELSE "done")

\* createLegacyCrossSaleTransaction, whatever the status of the main one.
JoinCreates(r, n, u) ==
    /\ CreatesCrossSale(n)
    /\ MayStart(n.tx, "join")
    /\ Fresh(u) /\ Loaded(doc[n.tx]).status # "absent"
    /\ Begin(r, "join", n.tx, u,
             Updated(NewEntity(doc[n.tx].biller, "charge", n.tx), PostbackResult(n)), n)
    /\ GoTo(r, "save")

\* Legacy: a processed transaction is left alone and the answer is OK.
JoinIgnored(r, n) ==
    /\ IsJoin(n) /\ ~CreatesCrossSale(n)
    /\ n.from = "legacy"
    /\ MayStart(n.tx, "join")
    /\ Loaded(doc[n.tx]).status \notin {"absent", "pending"}
    /\ Begin(r, "join", n.tx, None, Loaded(doc[n.tx]), n)
    /\ GoTo(r, "done")

\* TransactionNotFound, InvalidBiller, PostbackAlreadyProcessed; or the read or
\* the content fails.
JoinRefused(r, n) ==
    /\ IsJoin(n)
    /\ MayStart(n.tx, "join")
    /\ \/ Loaded(doc[n.tx]).status = "absent"
       \/ n.from # "legacy" /\ ~AcceptsJoin(Loaded(doc[n.tx]), n)
       \/ Faults \cap {"firestore", "malformed"} # {}
    /\ Begin(r, "join", n.tx, None, mem[r], n)
    /\ GoTo(r, "rejected")

\* Mutant of AcceptsRenewal: the previous transaction may be a pending one.
AcceptsAnyRenewal(e, b) == e.biller = b /\ e.status \in {"pending", "approved"}

\* validatePreviousTransactionData.
AcceptsRenewal(e, b) == e.biller = b /\ e.status = "approved"

(* A rebill postback always creates a transaction: nothing tells a repeated one
   from the next renewal. *)
RebillCreates(r, n, u) ==
    /\ n.about = "rebill"
    /\ MayStart(n.tx, "rebill")
    /\ Fresh(u)
    /\ AcceptsRenewal(Loaded(doc[n.tx]), n.from)
    /\ Begin(r, "rebill", n.tx, u,
             Updated(NewEntity(n.from, "rebill", n.tx), PostbackResult(n)), n)
    /\ GoTo(r, "save")

RebillRefused(r, n) ==
    /\ n.about = "rebill"
    /\ MayStart(n.tx, "rebill")
    /\ \/ ~AcceptsRenewal(Loaded(doc[n.tx]), n.from)
       \/ Faults \cap {"firestore", "malformed"} # {}
    /\ Begin(r, "rebill", n.tx, None, mem[r], n)
    /\ GoTo(r, "rejected")

Receive(r) ==
    \E n \in told :
        \/ JoinUpdates(r, n) \/ JoinIgnored(r, n) \/ JoinRefused(r, n) \/ RebillRefused(r, n)
        \/ \E u \in TxId : JoinCreates(r, n, u) \/ RebillCreates(r, n, u)

-----------------------------------------------------------------------------
(* Requests of the client on a known transaction.                          *)

\* PumapayCancelRebillCommandHandler: a new transaction, then the call.
StartCancel(r, t, u) ==
    /\ MayStart(t, "cancel")
    /\ Fresh(u)
    /\ AcceptsRenewal(Loaded(doc[t]), "pumapay") /\ doc[t].type = "charge"
    /\ Begin(r, "cancel", t, u, NewEntity("pumapay", "cancel", t), None)
    /\ GoTo(r, "call")

StartAbort(r, t) ==
    /\ MayStart(t, "abort")
    /\ Loaded(doc[t]).status = "pending"
    /\ Begin(r, "abort", t, None, Updated(Loaded(doc[t]), "aborted"), None)
    /\ GoTo(r, "save")

ClientRefused(r, t, k) ==
    /\ MayStart(t, k)
    /\ doc[t].status # "absent"
    /\ \/ k = "qr" /\ ~AcceptsQr(Loaded(doc[t]))
       \/ k = "cancel" /\ ~AcceptsRenewal(Loaded(doc[t]), "pumapay")
       \/ k = "abort" /\ Loaded(doc[t]).status # "pending"
       \/ Faults \cap {"firestore", "malformed"} # {}
    /\ Begin(r, k, t, None, mem[r], None)
    /\ GoTo(r, "rejected")

-----------------------------------------------------------------------------
(* Saving and reporting.                                                   *)

\* Mutant of Target: a new transaction is saved under the id of the charge it is for.
TargetOfCharge(r) == on[r]

\* The transaction the handler saves first.
Target(r) == IF kind[r] = "sale" \/ made[r] = None THEN on[r] ELSE made[r]

Save(r) ==
    \/ /\ pc[r] = "save"
       /\ doc' = [doc EXCEPT ![Target(r)] = mem[r]]
       /\ GoTo(r, "report")
       /\ UNCHANGED <<pages, told, bi, kind, on, made, mem, msg>>
    \/ /\ pc[r] = "saveCross"
       /\ doc' = [doc EXCEPT ![made[r]] = mem[r]]
       /\ GoTo(r, "reportCross")
       /\ UNCHANGED <<pages, told, bi, kind, on, made, mem, msg>>

\* FirestoreException: the write may have been applied.
SaveFails(r) ==
    /\ "firestore" \in Faults
    /\ pc[r] \in {"save", "saveCross"}
    /\ doc' \in {doc, [doc EXCEPT ![IF pc[r] = "save" THEN Target(r) ELSE made[r]] = mem[r]]}
    /\ GoTo(r, "failed")
    /\ UNCHANGED <<pages, told, bi, kind, on, made, mem, msg>>

(* An attempt of the save takes effect without an answer and the repository makes
   another one (FirestoreRepository). *)
SaveRepeated(r) ==
    /\ "firestore" \in Faults
    /\ pc[r] \in {"save", "saveCross"}
    /\ doc' = [doc EXCEPT ![IF pc[r] = "save" THEN Target(r) ELSE made[r]] = mem[r]]
    /\ UNCHANGED <<pages, told, bi, pc, kind, on, made, mem, msg>>

\* Mutant of Opened: a page for a cross sale the sale does not have, too.
OpenedForAll(r) ==
    {<<t, SentBy(mem[r].biller)>> :
        t \in {x \in {on[r], made[r]} :
                  kind[r] \in {"sale", "qr"} /\ mem[r].status = "pending"}}

\* The page or QR code the answer to the client leads to.
Opened(r) ==
    {<<t, SentBy(mem[r].biller)>> :
        t \in {x \in {on[r], made[r]} \ {None} :
                  kind[r] \in {"sale", "qr"} /\ mem[r].status = "pending"}}

\* ChargeTransactionCreated, TransactionUpdated, RebillUpdateTransactionCreated.
\* The Epoch loop ends at the first transaction that is not pending.
Report(r) ==
    \/ /\ pc[r] = "report"
       /\ kind[r] = "sale" /\ made[r] # None /\ mem[r].status = "pending"
       /\ bi' = bi \cup {<<Target(r), mem[r].status>>}
       /\ GoTo(r, "saveCross")
       /\ UNCHANGED <<doc, pages, told, kind, on, made, mem, msg>>
    \/ /\ pc[r] = "report"
       /\ ~(kind[r] = "sale" /\ made[r] # None /\ mem[r].status = "pending")
       /\ bi' = bi \cup {<<Target(r), mem[r].status>>}
       /\ pages' = pages \cup Opened(r)
       /\ GoTo(r, "done")
       /\ UNCHANGED <<doc, told, kind, on, made, mem, msg>>
    \/ /\ pc[r] = "reportCross"
       /\ bi' = bi \cup {<<made[r], mem[r].status>>}
       /\ pages' = pages \cup Opened(r)
       /\ GoTo(r, "done")
       /\ UNCHANGED <<doc, told, kind, on, made, mem, msg>>

Crash(r) ==
    /\ "crash" \in Faults
    /\ Active(r)
    /\ GoTo(r, "failed")
    /\ UNCHANGED <<doc, pages, told, bi, kind, on, made, mem, msg>>

-----------------------------------------------------------------------------

Start(r) ==
    \E t \in TxId :
        \/ \E b \in Biller, u \in TxId \cup {None} : StartSale(r, t, u, b)
        \/ StartQr(r, t) \/ StartQrAgain(r, t) \/ StartAbort(r, t)
        \/ \E u \in TxId : StartCancel(r, t, u)
        \/ \E k \in {"qr", "cancel", "abort"} : ClientRefused(r, t, k)

Proceed(r) ==
    \/ CallAnswered(r) \/ CallFails(r) \/ Report(r) \/ Crash(r)
    \/ Save(r) \/ SaveFails(r) \/ SaveRepeated(r)

Next ==
    \/ \E r \in Request : Start(r) \/ Receive(r) \/ Proceed(r)
    \/ BillerTells

Spec == Init /\ [][Next]_vars

-----------------------------------------------------------------------------
(* Properties that hold whatever overlaps and whatever fails.              *)

(* A biller's word that explains an approved entity e saved under id t: its approval
   in the answer to the sale or in a join for a sale, in the postback about it for
   a cross sale or a renewal. For a cancellation any answer of Pumapay's will do,
   since the service reads none (RefusedCancelIsDeclined). *)
Explains(n, e, t) ==
    \/ /\ n.said = "approved"
       /\ \/ e.type = "charge" /\ e.of = None /\ n.tx = t /\ n.about \in {"sale", "join"}
          \/ e.type = "charge" /\ n.tx = e.of /\ n.about = "crossSale"
          \/ e.type = "rebill" /\ n.tx = e.of /\ n.about = "rebill"
    \/ e.type = "cancel" /\ n.tx = e.of /\ n.about = "cancel"

ApprovedBy(e, t) == e.status = "approved" => \E n \in told : Explains(n, e, t)

\* No payment is approved without the biller's approval of that very payment, and no
\* cancellation without an answer to it.
ApprovedIsTold == \A t \in TxId : ApprovedBy(doc[t], t)

\* Only a sale is ever stored or saved as pending.
Unsettled(e) == e.status = "pending" => e.type = "charge" /\ e.of = None

\* What an entity is while its handler waits for the biller.
AwaitsAnswer(r) ==
    /\ mem[r].status = "pending"
    /\ \/ kind[r] = "sale" /\ Unsettled(mem[r])
       \/ kind[r] = "qr" /\ Unsettled(mem[r]) /\ mem[r].biller = "pumapay"
       \/ kind[r] = "cancel" /\ mem[r].type = "cancel" /\ mem[r].of = on[r]

MemoryIsTold(r) ==
    /\ pc[r] = "call" => AwaitsAnswer(r)
    /\ pc[r] \in {"save", "report"} => ApprovedBy(mem[r], Target(r)) /\ Unsettled(mem[r])
    /\ pc[r] \in {"saveCross", "reportCross"} => mem[r].status = "pending" /\ Unsettled(mem[r])

\* Why ApprovedIsTold holds: the entity a running request will save is as well
\* founded, under the id it will be saved under, and a payment that is still
\* pending is a sale's, so that a join can only approve a sale.
ToldInv ==
    /\ ApprovedIsTold
    /\ \A t \in TxId : Unsettled(doc[t])
    /\ \A n \in told : n.about = "rebill" => n.said # "waiting"
    /\ \A r \in Request : MemoryIsTold(r)

-----------------------------------------------------------------------------
(* Properties while only postbacks overlap and a payment has one outcome.  *)

\* A processed transaction keeps its status, however often, late or at once the
\* biller repeats what it said, and whatever was lost in between.
OutcomeStands ==
    [][\A t \in TxId : doc[t].status \notin {"absent", "pending"} =>
          doc'[t].status = doc[t].status]_vars

\* A postback that said approved and was answered OK is recorded; only Legacy is
\* answered OK for a payment of a transaction the client aborted before.
AcceptedIsRecorded ==
    \A r \in Request :
        pc[r] = "done" /\ kind[r] \in {"join", "rebill"} /\ msg[r].said = "approved" =>
            \/ doc[Target(r)].status = "approved"
            \/ msg[r].from = "legacy" /\ doc[Target(r)].status = "aborted"

\* Every renewal and cancellation is of a charge that is, and stays, approved.
RebillFollowsApproved ==
    \A t \in TxId : doc[t].status # "absent" /\ doc[t].type # "charge" =>
        doc[doc[t].of].status = "approved" /\ doc[doc[t].of].biller = doc[t].biller

\* No event is without its document, and a final outcome in the BI log is the outcome
\* stored, from then on.
ReportedIsStored ==
    \A e \in bi : /\ doc[e[1]].status # "absent"
                  /\ e[2] # "pending" => doc[e[1]].status = e[2]

-----------------------------------------------------------------------------
(* What the repository's documents say, and its code does not.             *)

\* docs/openapi.yml: the Epoch join postback is answered with the status the
\* transaction got, approved or declined.
EpochPostbackIsProcessed ==
    \A r \in Request :
        pc[r] = "rejected" /\ kind[r] = "join" /\ msg[r].from = "epoch" =>
            doc[on[r]].status # "pending"

\* docs/openapi.yml: of a cancellation "not accepted by the biller" the transaction
\* is created with status declined.
RefusedCancelIsDeclined ==
    \A r \in Request :
        /\ pc[r] = "done" /\ kind[r] = "cancel" /\ msg[r] # None
        /\ msg[r].said = "declined"
        => doc[made[r]].status = "declined"

==============================================================================
