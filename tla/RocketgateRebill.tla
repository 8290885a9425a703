--------------------------- MODULE RocketgateRebill ---------------------------
(***************************************************************************)
(* The requests that change a Rocketgate subscription: update, start, stop  *)
(* and cancel, each a new rebill update transaction that names an earlier   *)
(* transaction - the sale, or another rebill update of it.                  *)
(*                                                                         *)
(* A subscription is what a merchant customer id and a merchant invoice id  *)
(* identify at Rocketgate; it is named for its sale.  A card hash is         *)
(* named for the subscription Rocketgate returned it for.                   *)
(***************************************************************************)
EXTENDS ChargeEntity, Sequences

CONSTANTS
    Sale,     \* sales, stored before anything below happens
    Request,  \* requests; each one's transaction is named for it
    None,     \* no subscription, no card hash
    Known,    \* what the documents of the sales may hold, sets of parts
    NsfFlow,  \* env('NSF_FLOW_ENABLED')
    Faults,   \* what may go wrong, a subset of Fault
    Overlap   \* TRUE: requests may be handled at once

(* lost      no answer: refused by the breaker, not received, or not returned
   save      a save fails, its effect unknown
   classify  the error classification cannot be read
   die       the process dies between two steps *)
Fault == {"lost", "save", "classify", "die"}

ASSUME NoneAssumption == None \notin Sale
ASSUME KnownAssumption == Known \subseteq SUBSET {"settings", "fields", "card"}
ASSUME DistinctAssumption == Sale \cap Request = {}
ASSUME NsfAssumption == NsfFlow \in BOOLEAN
ASSUME FaultsAssumption == Faults \subseteq Fault
ASSUME OverlapAssumption == Overlap \in BOOLEAN

TxId == Sale \cup Request
OrNone == Sale \cup {None}

Op == {"update", "start", "stop", "cancel"}

(* settings   the merchant ids of billerChargeSettings
   fields     those of subsequentOperationFields
   card       the card hash in the response payload responsePayload() finds
   echo       the merchant ids in the last response payload
   root       history: the sale at the end of the previousTransaction chain
   stray      history: a cancellation is part of that chain, itself included *)
Transaction == [status: Status, settings: OrNone, fields: OrNone, card: OrNone,
                echo: OrNone, root: Sale, stray: BOOLEAN]

Absent == [status |-> "absent"]

(* The document of a sale.  Its ids come from the request or from Rocketgate's
   answer, and it may hold neither, nor a card: the sale was declined, or is
   another biller's.  No handler below reads its status. *)
SaleDocument(s, known) ==
    [status |-> "approved",
     settings |-> IF "settings" \in known THEN s ELSE None,
     fields |-> IF "fields" \in known THEN s ELSE None,
     card |-> IF "card" \in known THEN s ELSE None,
     echo |-> None, root |-> s, stray |-> FALSE]

VARIABLES
    doc,      \* the stored transactions
    on,       \* the subscriptions Rocketgate rebills
    pc,       \* where each request is
    op,       \* its operation
    tx,       \* its transaction, in memory
    sent,     \* the card hash taken from the transaction it names, or None
    order,    \* the requests in the order of their transactions' createdAt
    bi,       \* the status the BI event of each request reports, or "none"
    carried,  \* history: the requests Rocketgate carried out
    blurred   \* history: the subscriptions two requests changed at once, or
              \* one whose outcome the service does not know or did not store

vars == <<doc, on, pc, op, tx, sent, order, bi, carried, blurred>>

Working == {"call", "add", "report", "classify", "update"}

TypeOK ==
    /\ doc \in [TxId -> Transaction \cup {Absent}]
    /\ on \in SUBSET Sale
    /\ pc \in [Request -> {"idle"} \cup Working \cup {"done", "failed"}]
    /\ op \in [Request -> Op]
    /\ tx \in [Request -> Transaction \cup {Absent}]
    /\ sent \in [Request -> OrNone]
    /\ order \in Seq(Request)
    /\ bi \in [Request -> Status \cup {"none"}]
    /\ carried \subseteq Request
    /\ blurred \subseteq Sale

Init ==
    /\ \E known \in [Sale -> Known] :
          doc = [t \in TxId |-> IF t \in Sale THEN SaleDocument(t, known[t]) ELSE Absent]
    /\ on = Sale
    /\ pc = [r \in Request |-> "idle"]
    /\ op = [r \in Request |-> "update"]
    /\ tx = [r \in Request |-> Absent]
    /\ sent = [r \in Request |-> None]
    /\ order = <<>>
    /\ bi = [r \in Request |-> "none"]
    /\ carried = {}
    /\ blurred = {}

Goto(r, step) == pc' = [pc EXCEPT ![r] = step]

-----------------------------------------------------------------------------
(* Before the call.                                                        *)

\* validateBillerFiels: the ids the command must repeat.
Identity(t) == IF t.fields # None THEN t.fields ELSE t.settings

\* The operations whose command is checked against the transaction it names.
Validated == {"update", "start", "stop"}

\* Mutant of Accepts: the merchant ids are not compared.
AcceptsAnyIds(t, o, ids, pays) ==
    /\ t # Absent
    /\ o \in Validated => pays \/ t.card # None

(* The request is accepted: a command without a payment takes the card hash of
   the transaction it names, and there must be one. *)
Accepts(t, o, ids, pays) ==
    /\ t # Absent
    /\ o \in Validated => Identity(t) = ids /\ (pays \/ t.card # None)

\* createUpdateRebillTransaction, createCancelRebillTransaction.
NewRebill(t, o, ids) ==
    [status |-> "pending", settings |-> ids, fields |-> None, card |-> None,
     echo |-> None, root |-> t.root, stray |-> t.stray \/ o \notin Validated]

\* The requests on a subscription that are being handled.
Handled(s) == {r \in Request : pc[r] \in Working /\ tx[r].settings = s}

\* A request names transaction t and the merchant ids of subscription ids.
Receive(r, t, o, ids, pays) ==
    /\ pc[r] = "idle"
    /\ Overlap \/ \A q \in Request : pc[q] \notin Working
    /\ \/ /\ ~Accepts(doc[t], o, ids, pays)
          /\ Goto(r, "failed")
          /\ UNCHANGED <<op, tx, sent, order, blurred>>
       \/ /\ Accepts(doc[t], o, ids, pays)
          /\ Goto(r, "call")
          /\ op' = [op EXCEPT ![r] = o]
          /\ tx' = [tx EXCEPT ![r] = NewRebill(doc[t], o, ids)]
          /\ sent' = [sent EXCEPT ![r] = IF o \in Validated /\ ~pays THEN doc[t].card ELSE None]
          /\ order' = Append(order, r)
          /\ blurred' = IF Handled(ids) = {} THEN blurred ELSE blurred \cup {ids}
    /\ UNCHANGED <<doc, on, bi, carried>>

-----------------------------------------------------------------------------
(* The call.                                                               *)

\* Mutant of Asks: the handler that stops a subscription calls update.
AsksAll(o) == IF o = "cancel" THEN "suspend" ELSE "rebill"

\* What each handler's call asks Rocketgate for.
Asks(o) == IF o \in {"update", "start"} THEN "rebill" ELSE "suspend"

\* Rocketgate carries out a request.
CarryOut(r) ==
    /\ carried' = carried \cup {r}
    /\ on' = IF Asks(op[r]) = "rebill"
             THEN on \cup {tx[r].settings} ELSE on \ {tx[r].settings}

\* Mutant of Outcome: the status is the class of the reason code.
OutcomeIsReason(r, resp) == resp.reason

\* Mutant of Outcome: no answer is a refusal.
OutcomeWithoutAbort(r, resp) ==
    IF resp.result = "aborted" THEN "declined"
    ELSE UpdatedEntity(NewEntity(FALSE), r, resp, NsfFlow).status

\* updateRocketgateTransactionFromBillerResponse, for a transaction without 3DS.
Outcome(r, resp) == UpdatedEntity(NewEntity(FALSE), r, resp, NsfFlow).status

\* The update, with what the payload holds.
WithAnswer(t, status, known) ==
    [status |-> status, settings |-> t.settings, fields |-> t.fields, card |-> known,
     echo |-> known, root |-> t.root, stray |-> t.stray]

Reasons == {"success", "nsf", "decline", "abort"}

(* Rocketgate answers; the answer's payload holds the merchant ids and the card
   hash of the subscription, or neither. *)
Answered(r) ==
    /\ pc[r] = "call"
    /\ \E reason \in Reasons, known \in {tx[r].settings, None} :
          LET resp == ResponseOf([reason |-> reason, version |-> 0, fields |-> "none"], FALSE)
          IN  /\ tx' = [tx EXCEPT ![r] = WithAnswer(@, Outcome(r, resp), known)]
              /\ IF reason = "success" THEN CarryOut(r) ELSE UNCHANGED <<on, carried>>
    /\ Goto(r, "add")
    /\ UNCHANGED <<doc, op, sent, order, bi, blurred>>

\* getFallback: an aborted response, whatever Rocketgate did.
NoAnswer(r) ==
    /\ "lost" \in Faults
    /\ pc[r] = "call"
    /\ tx' = [tx EXCEPT ![r] = WithAnswer(@, Outcome(r, Fallback), None)]
    /\ \/ CarryOut(r) /\ blurred' = blurred \cup {tx[r].settings}
       \/ UNCHANGED <<on, carried, blurred>>
    /\ Goto(r, "add")
    /\ UNCHANGED <<doc, op, sent, order, bi>>

-----------------------------------------------------------------------------
(* After the call.                                                         *)

Store(r, t) == doc' = [doc EXCEPT ![r] = t]

\* Mutant of Add: a transaction without an answer is not stored.
AddAnswered(r) ==
    /\ pc[r] = "add"
    /\ IF tx[r].status = "aborted" THEN UNCHANGED doc ELSE Store(r, tx[r])
    /\ Goto(r, "report")
    /\ UNCHANGED <<on, op, tx, sent, order, bi, carried, blurred>>

Add(r) ==
    /\ pc[r] = "add"
    /\ Store(r, tx[r])
    /\ Goto(r, "report")
    /\ UNCHANGED <<on, op, tx, sent, order, bi, carried, blurred>>

Report(r) ==
    /\ pc[r] = "report"
    /\ bi' = [bi EXCEPT ![r] = tx[r].status]
    /\ Goto(r, IF op[r] = "cancel" THEN "done"
               ELSE IF tx[r].status \in {"declined", "aborted"} THEN "classify" ELSE "update")
    /\ UNCHANGED <<doc, on, op, tx, sent, order, carried, blurred>>

Classify(r) ==
    /\ pc[r] = "classify"
    /\ \/ Goto(r, "update")
       \/ "classify" \in Faults /\ Goto(r, "failed")
    /\ UNCHANGED <<doc, on, op, tx, sent, order, bi, carried, blurred>>

\* The fields are set when the answer was approved or pending.
WithFields(t) == [t EXCEPT !.fields = IF t.status \in {"approved", "pending"} THEN t.echo ELSE @]

Update(r) ==
    /\ pc[r] = "update"
    /\ tx' = [tx EXCEPT ![r] = WithFields(@)]
    /\ Store(r, WithFields(tx[r]))
    /\ Goto(r, "done")
    /\ UNCHANGED <<on, op, sent, order, bi, carried, blurred>>

\* What the service forgets when the request ends here.
Forget(r) ==
    blurred' = IF r \in carried' /\ doc'[r] = Absent
               THEN blurred \cup {tx[r].settings} ELSE blurred

(* FirestoreException: of the first save, the service may have lost what
   Rocketgate carried out; of the second, only fields. *)
SaveFails(r) ==
    /\ "save" \in Faults
    /\ pc[r] \in {"add", "update"}
    /\ \/ Store(r, IF pc[r] = "update" THEN WithFields(tx[r]) ELSE tx[r])
       \/ UNCHANGED doc
    /\ Goto(r, "failed")
    /\ UNCHANGED <<on, op, tx, sent, order, bi, carried>>
    /\ Forget(r)

\* During the call, Rocketgate may carry it out all the same.
Die(r) ==
    /\ "die" \in Faults
    /\ pc[r] \in Working
    /\ \/ pc[r] = "call" /\ CarryOut(r)
       \/ UNCHANGED <<on, carried>>
    /\ Goto(r, "failed")
    /\ UNCHANGED <<doc, op, tx, sent, order, bi>>
    /\ Forget(r)

Proceed(r) ==
    \/ Answered(r) \/ NoAnswer(r)
    \/ Add(r) \/ Report(r) \/ Classify(r) \/ Update(r) \/ SaveFails(r)

Next ==
    \E r \in Request :
        \/ \E t \in TxId, o \in Op, ids \in Sale, pays \in BOOLEAN : Receive(r, t, o, ids, pays)
        \/ Proceed(r) \/ Die(r)

Spec == Init /\ [][Next]_vars

-----------------------------------------------------------------------------
(* Properties.                                                             *)

(* An update, a start and a stop act on the subscription of the sale at the end
   of the chain they name, and without a payment of their own on its card: unless
   a cancellation, whose ids nobody compares, is part of the chain. *)
ActsOnItsOwn ==
    \A r \in Request :
        tx[r] # Absent /\ ~tx[r].stray =>
            tx[r].settings = tx[r].root /\ sent[r] \in {tx[r].root, None}

\* What is stored of a request is what Rocketgate did: an approval means it was
\* carried out and a refusal that it was not; an abort tells nothing.
StoredIsTrue ==
    \A r \in Request :
        /\ doc[r].status = "approved" => r \in carried
        /\ doc[r].status = "declined" => r \notin carried

\* Every event reports the status stored, and a request that ended well has been
\* reported: the save comes first and the second one changes no status.
ReportedIsStored ==
    \A r \in Request : bi[r] # "none" \/ pc[r] = "done" => bi[r] = doc[r].status

\* The approved transactions of a subscription, as positions in order.
Approvals(s) ==
    {i \in DOMAIN order : doc[order[i]].status = "approved" /\ doc[order[i]].settings = s}

\* The stored transactions tell that it rebills: the last one approved does.
RecordedAsOn(s) ==
    \/ Approvals(s) = {}
    \/ \E i \in Approvals(s) :
          op[order[i]] \in {"update", "start"} /\ \A j \in Approvals(s) : j <= i

\* Between requests the transactions stored by creation time tell whether
\* Rocketgate rebills a subscription, as long as no two requests on it were handled
\* at once and no outcome of one was lost: approved operations only, each the last
\* word until the next one.
QuietRecordIsTruth ==
    \A s \in Sale :
        Handled(s) = {} /\ s \notin blurred => (s \in on <=> RecordedAsOn(s))

==============================================================================
