# Verification of the ProBiller NG transaction service

TLA+ models of the PHP service under `src/`, model-checked with TLC, with theorems
checked by TLAPS. The service creates payment transactions, asks a payment provider (a
*biller*: Rocketgate, Netbilling, Epoch, Qysso, Legacy, Pumapay) to act on them, stores
the outcome in Firestore, and reports it to a log of BI events. It has no
lock, no database transaction and no queue. All difficulty comes from that: handlers
of several requests work on copies of one document, billers answer late, twice or not at
all, and money changes hands in between.

## 1. Inventory

| Component | State it keeps | Operations | Properties that make it correct |
|---|---|---|---|
| Status machine (`Domain/Model/AbstractStatus` and subclasses) | the status of a transaction | approve, decline, abort, refund, chargeback; any other move throws | a result becomes the status, a processed transaction stays processed |
| Transaction entity (`Transaction`, `ChargeTransaction`, `RebillUpdateTransaction`) | status, 3DS version, 3DS flag, NSF flag, biller interactions, previous transaction | one update per biller response, per biller | status explained by the interactions; 3DS version never rises from 1 to 2 |
| Rocketgate responses (`RocketgateBillerResponse`, `RocketgateErrorCodes`) | none | result, 3DS version, when to retry | a retry never follows an approval |
| Rocketgate sales (new card, existing card, other payment types; `ChargeThreeDService`) | an entity in memory | charge, retry with and without 3DS, NSF card upload, save, report | one charge per request, whatever the answers |
| Rocketgate follow-ups (complete, simplified complete, lookup; `LookupThreeDsTwoService`) | as above, and the CVV in Redis | read, call, update, save, report | one charge per transaction, an outcome once and for all |
| Abort | | read, abort, save, report | spares processed transactions |
| CVV store (`RedisRepository`) | one key per transaction, with a time to live | set if absent, read, delete; errors are logged only | a used CVV is gone |
| Hosted sales (Epoch, Qysso, Legacy, Pumapay QR codes) | a pending document and a page of the biller | create, call, save, report | a transaction the biller knows is found again |
| Postbacks (join, cross sale, rebill) | | read, translate, update or create, save, report | no payment approved without the biller's approval; the outcome stands when repeated; renewals follow approved charges |
| Pumapay cancellation | a new rebill transaction | read, create, call, save, report | is of an approved charge; what Pumapay refused is not stored as approved |
| Rocketgate rebill updates (update, start, stop, cancel; `CreateUpdateRebillTransactionTrait`) | a rebill update transaction naming an earlier one | read, compare merchant ids, create, call, save, report, save again | acts on the subscription it names; what is stored is what the biller did |
| Netbilling (sales with a new or an existing card, update, cancellation) | transactions, the member id in one of three places | charge, change the member, save, report | acts on the member it names; no charge unaccounted for |
| Firestore repository (`FirestoreTransactionRepository`) | the documents, and two fallback collections | add, update (with retries), findById (with repair) | who is told a save is done finds it; a repair undoes no save |
| Firestore serializer | none | hydrate | a document can be read back |
| Clients, adapters, circuit breakers | breaker windows | call, fall back to "aborted" | no answer is never an approval |
| BI log | events | write | no event contradicts the document |
| HTTP interface, queries, configuration client, DTO assembly, wiring | none relevant | | |

How they interact: a controller runs one command handler per request, in a PHP process of
its own. A handler reads a document (`findById`), calls a biller service synchronously, may
read or write a Redis key, replaces the whole document (`DocumentReference::set`) and
writes a BI event; billers call back with postbacks that are requests like any other.
Shared state is the Firestore collection, Redis, the biller and the BI log.

Hard behaviours: requests overlapping between read and save; a biller that charged
although no answer came; retries decided by answers; repeated, late and reordered
postbacks; a save that fails after it was applied; a process that dies between two
effects; state that is not stored (3DS flag, NSF flag) and must be guessed at the next
request. `PROJECT.json` lists each hazard with the line where it bites.

## 2. Modules

| Module | Models |
|---|---|
| `TransactionStatus` | The six statuses, the moves each operation makes, the result of a biller response and the operation it calls for. |
| `RocketgateResponse` | What the service reads from a Rocketgate reply: result, 3DS version, retry decisions. A reply is a class of reason codes, a version and the kind of fields it carries. |
| `ChargeEntity` | The entity of a Rocketgate sale, `updateRocketgateTransactionFromBillerResponse`, and what survives a save and a load. |
| `RocketgateSale` | The seven Rocketgate handlers that work on a charge (three sales, lookup, complete, simplified complete, abort), Redis, the biller, the BI log. |
| `PaymentLifecycle` | The abstract specification: a transaction is processed once, money is taken only while it is unprocessed, it is approved only if money was taken. |
| `HostedSale` | Epoch, Qysso, Legacy and Pumapay: sales, QR codes, postbacks, cancellation, abort, the billers. |
| `FirestoreRepository` | `findById`, `add`, `update`: each access over several attempts, the recursion to the previous transaction, the repair of a document on read. |
| `DocumentStore` | The abstract specification of the repository: a register per transaction, saves that may take effect while they run and, when given up on, later. |
| `RocketgateRebill` | The four handlers that change a Rocketgate subscription, over chains of transactions that refer to each other. |
| `NetbillingMember` | The four Netbilling handlers: sales, the two-call update, cancellation. |
| `MC...` | Replies, documents, symmetry and views for TLC, one module per system module. |
| `..._proofs` | Theorems and lemmas about the module of that name. |
| `RocketgateSale_serial_proofs` | Theorems of `RocketgateSale` that need serial requests or leave out a fault; EXTENDS `RocketgateSale_proofs`. |

`RocketgateSale` EXTENDS `ChargeEntity`, which EXTENDS `RocketgateResponse` and
`TransactionStatus`; it instantiates `PaymentLifecycle` with a refinement mapping (`status`
is the document's, `paid` the transactions the biller took money for). `HostedSale` and
`NetbillingMember` EXTEND `TransactionStatus`, `RocketgateRebill` EXTENDS `ChargeEntity`;
`FirestoreRepository` instantiates `DocumentStore` (`saving` is the save under way,
`stored` the callers that were told it is done).

### State and code

The system modules have the same shape. `doc` is the Firestore collection: a function from
ids to documents, `"absent"` where there is none. `Request` is a set of HTTP requests, each
of which runs one handler once: `pc[r]` is the point it has reached, `mem[r]` the entity in
its memory, `on[r]` the transaction, `kind[r]` the handler. **A step is what a handler does
between two accesses to something shared**; a read of the document starts a request, so what
is in `mem` may be stale from the next step on. `bi` is the set of events reported.

`RocketgateSale` adds `captured` (the calls for which the biller took money: a ghost of the
biller's books), `cvv` (Redis) and `answer`. The biller's reply is any member of
`BillerReplies`; with `"noAnswer"` there is none, though money may have been taken. An
entity holds `ixn`, the responses stored with it, each named by the call it answers.

`HostedSale` adds `pages` (payment pages customers can be on), `told` (what billers said, in
postbacks and in answers to calls) and `msg` (the notice a request delivers or was answered).
The answer to a call and what the service makes of it are separate: `Answers` is what the
biller may say, `CallResult` the result stored, which for a Pumapay cancellation is approved
whatever the answer. `told` holds the former. It only grows and any request may deliver any
postback in it, so that one can come late, twice or at once with another; it is lost if no
request delivers it. The biller itself
says only what a payment allows (`OneOutcome`): the customer pays a page once, unless
`"payAgain"`.

A failing save in these two modules is either done or not; one that is done while its answer
is lost is tried again and may overwrite what others saved in between (`SaveRepeated`).
`FirestoreRepository` looks inside: `tries` counts the attempts of the access under way,
`chain` holds the snapshots `findById` has read on its way down the previous transactions, and
`late` the attempts that may still arrive. A document there is which callers' changes it
contains (`rev`) and whether its interactions pair up, which is what the repair decides on.

`RocketgateRebill` names a subscription (the merchant customer and invoice ids) for its
sale. `on` is the set of subscriptions Rocketgate rebills; `settings`, `fields`, `card`
and `echo` are the places of a document in which the ids and the card hash may
be found by the next command; `root` and `stray` are history, the sale at the end of the
chain and whether a cancellation is part of it. `NetbillingMember` does the same for members,
whose id may be in the `interactions`, `settings` or `fields` of a document, and keeps
`plan`, what Netbilling rebills each member. `order` is the order of `createdAt`. In both,
`blurred` is history: where two requests on one subscription or member met, or one lost
an outcome, the records cannot tell, and `QuietRecordIsTruth` and `QuietPlanIsRecorded`
claim nothing. A Netbilling update first charges the card with the member id and the recurring
fields of the new plan, as a sale does, so that the charge itself may change what is rebilled;
when the change of the member is then refused the update is stored as declined although
the plan may have changed, and the member is blurred from there on.

`Faults` names what may go wrong in a run. `Overlap` (or `Racing`, the kinds of hosted
requests) says whether requests on one transaction may run at the same time. Both are
constants, so a run can ask what holds of serial clients and what of any.

Each operator named `...` and marked "Mutant of" is a plausible bug of the definition below it;
none is reachable from the specification. They are used to show that each property notices
such a bug.

## 3. Runs

| Run | Question | Bounds |
|---|---|---|
| `sale_serial` | Serial requests, only Redis failing: paid is approved, one capture per transaction, BI agrees. | 4 requests on 1 transaction, all replies |
| `sale_faulty` | Serial requests with crashes, missing answers, failing saves and Redis: `PaymentLifecycle` is implemented, the 3DS version never rises, no request charges twice. | 3 requests, 1 transaction, all replies |
| `sale_overlap` | Everything overlaps and all but Redis fails, and the biller gives the odd answers too: a stored outcome is explained by stored answers, an approval by money, and a used CVV is gone. | 3 requests, 1 transaction, all replies |
| `sale_live` | Every request ends. | 2 requests, all faults |
| `abort_race` | *violated*: abort spares an approved transaction. | 3 requests, few replies |
| `hosted_postbacks` | Overlapping sales, cancellations and postbacks, repeated or late, and crashes: the outcome stands, an accepted approval is recorded, renewals follow approved charges, BI agrees. | 4 requests, 2 ids, five billers |
| `hosted_anything` | Every kind of request overlapping and failing: no payment is approved without the biller's approval of it, no cancellation without an answer to it. | 3 requests, 2 ids |
| `epoch_postback` | *violated*: an Epoch join postback is processed. | 2 requests, 1 id |
| `cancel_refused` | *violated*: a cancellation Pumapay refused is stored as declined. | 3 requests, 2 ids |
| `firestore_races` | Two callers race, every attempt may be lost, late or refused, either may die: `DocumentStore` is implemented, an acknowledged save survives what did not race with it, a quiet read returns what is stored. | 2 callers, a sale and its rebill, 2 attempts |
| `rocketgate_rebills` | Overlapping, unanswered, unsaved, interrupted rebill updates: each acts on its subscription, what is stored is what Rocketgate did, reports agree, quiet records tell what is rebilled. | 2 requests, 2 sales |
| `netbilling_members` | The same of Netbilling's members, and every charge is accounted for. | 2 requests, 1 sale, 2 plans |

Why the bounds are enough. Requests on different Rocketgate transactions share nothing
but the ids, so one transaction shows every interaction; the longest chain on one
transaction that is not a repetition is sale, lookup, complete and one more, which is
four requests; three are enough where two must overlap on a transaction that a third
created. Hosted transactions come in twos (an Epoch sale and its cross sale, a charge and
its renewal), hence two ids; four requests make a sale, two racing postbacks and a
renewal or a repeated one. `hosted_anything` leaves out Legacy sales that are not crypto
ones, because a crypto sale is a Legacy one that can also become a Pumapay one, and
"crash", because an ambiguous failing save ends a request at every point where it matters.
"malformed" adds only more ways to be refused and is in no run. The views drop what the
memory of ended requests holds, which nothing reads; requests (and hosted ids) are
symmetric.

Two attempts are one that is repeated and one that is the last, which is all the loop tells
apart; two documents make the recursion of `findById` go one level down, and the repair of the
lower one fall between the read of the upper one and its repair. Two rebill requests chain
(a request on the transaction of the one before) or overlap; a second sale gives
the ids and the card that must not be used. In `netbilling_members` the second member is one
that a sale among the requests creates. Documents of sales come in the variants of the
MC modules, some telling nothing.

Deadlock is not checked: when every request has ended nothing more happens, which is where
the bounded instance, not the service, stops.

Fairness. `RequestEnds` is checked under weak fairness of `Proceed(r)` for each request: a
PHP process that has a request goes on until it answered. Biller calls have timeouts
(an answer or a fallback), so a call is one step that happens. Nothing forces clients to send a
request, the biller to post back or a CVV to expire. The property says that retries with and
without 3DS, which undo each other's flag, are bounded whatever the biller answers.

### What the runs found

* `abort_race`: `AbortTransactionCommandHandler` tests the status of its own copy and
  then overwrites the document. A complete that approves in between is lost: the customer is
  charged, the document says aborted.
* `epoch_postback`: `FirestoreSerializer::hydrate` has no case for Epoch, so the documented
  Epoch join postback is answered with "not found" and the sale stays pending.
* `cancel_refused`: `PumapayCancelRebillBillerResponse::create` is approved whatever `success`
  and `code` of Pumapay's answer say, where the response class of the QR code reads both. A refused
  cancellation, which the interface documents as declined, is stored, reported and answered
  as approved. `ApprovedIsTold` therefore asks of an approved cancellation only that Pumapay
  answered.

Other observations, each in the model as the code has it:

* A Netbilling update that was charged and whose member was then not changed is
  stored and reported as declined, without the charge (`ChargeIsStored` states it as the
  exception). Its charge carried the member id and the recurring fields, so that the plan may
  have changed as well (`QuietPlanIsRecorded` claims nothing of such a member).
* The CVV is stored with NX (`Stored`): a lookup after one that left its CVV keeps the old one,
  which the complete step then sends.
* A Rocketgate answer with a higher 3DS version throws after the card was charged: nothing is
  saved and the next complete charges again (`"upgrade"`, left out where
  `AtMostOneCapture` is checked and proved).
* `NetbillingServiceProvider` lines 79-82 mean to give the new card translator the
  circuit breaker, but its constructor asks for the adapter itself, so the binding has no effect:
  an exception after the charge leaves the handler and nothing is stored.
* The Rocketgate cancel handler does not compare the merchant ids of the command with the
  transaction it names, unlike update, start and stop (`ActsOnItsOwn` excepts chains with
  a cancellation).
* A repair saves the whole snapshot: a save of another request that falls between the read
  and the repair is undone (`AckedSurvives` excepts calls that met).
* Without `NO_OF_FIRESTORE_READ_WRITE_ATTEMPTS` a save returns as if it were done; with
  `Attempts = 0` `AckedSurvives` fails.

What the code allows and no document contradicts is modelled and not stated as a
property: a repeated rebill or cross sale postback makes a second transaction; an
approved postback of a sale the client aborted is refused (by Legacy accepted and
ignored); a declined Legacy cross sale declines its pending main transaction; a QR code asked for again
while the join postback is handled puts the transaction back to pending; an approved first
charge that announces 3DS 2 is charged again (`"approved2"`, where `OneCapturePerRequest`
and `AtMostOneCapture` would fail).

## 4. Proofs

Checked by TLAPS for every set of requests, ids, replies, billers and callers; the
assumptions are the ASSUMEs of the system modules (the constants have their types and
`None` is not an id). A theorem holds for every set of faults and any overlap unless its
statement begins with what it needs. Every invariant, action property and
refinement that a passing run checks is a theorem; a run shows it on a small instance,
the theorem for all. Only `RequestEnds`, which is liveness, is model-checked only.

Each invariant was checked by TLC before it was proved. The step lemmas have one step
per action, and one per conjunct the action can disturb.

### Rocketgate sales, whatever overlaps

* `TypeCorrect`: `TypeOK` alone is not inductive: a running request must have a transaction,
  else a Redis access is outside the domain of `cvv`; `Typed` adds that.
* `FoundedAlways`, `ApprovedIsAlwaysPaid`, `StatusIsAlwaysRecorded`: an approval is backed by
  money taken in a call whose approval the document holds, and any outcome by a stored
  answer. Documents alone are not inductive since saves are blind: `Founded` adds that
  the entity in the memory of each running handler is as well founded as the document it
  will overwrite. Before its first answer a sale's entity is not yet backed, so the
  charge steps are told apart.
* `RequestChargesOnce` (`OneCapturePerRequest`), without `"approved2"`: `OneInv` says that a
  request which still waits for the answer that counts has taken nothing, and that a
  retry follows only an answer without money.
* `UsedCvvStaysGone` (`UsedCvvIsGone`), without `"redis"`: `CvvInv` names the request that
  stored each CVV and says that it is past its only store, so that no CVV comes back.

### Rocketgate sales, serial requests

`RocketgateSale_serial_proofs` proves the rest for `~Overlap`. Its first part reduces the
steps of a running request to nine shapes (`Shape`: took an answer and retries, settled,
wrote, reported, ended, ...), which keep only what the invariants tell apart; `Ground`
collects what every state has. `SerialInv` then relates the entity of the one running
request to the document it works on (status, 3DS version, not yet saved or saved), and
what is known of a transaction nobody is at work on. On it rest

* `VersionNeverRisesSerially` (`VersionNeverRises`) and `LifecycleImplemented`, the refinement
  of `PaymentLifecycle` step by step, with all faults;
* `ChargedOnce` (`AtMostOneCapture`), with `"noAnswer"` and `"redis"` only: by `OnceInv` a request
  that may still charge works on a transaction without money taken, and a
  transaction nobody works on that was paid is in a status that refuses another charge;
* `PaidAgreesWithApproved` (`PaidIsApproved`), with `"redis"` only;
* `LogAgrees` (`BiAgrees`), without `"crash"` and `"firestore"`: by `ReportInv` the events of a
  transaction say nothing the entity in memory, which will be saved, contradicts. It is
  needed since a lookup reports before it saves.

No hypothesis is there for convenience: for each excluded fault, and for `Overlap`, TLC
finds the property violated with 3 requests when that alone is allowed. A process that dies
between an approved charge and its save, or a save given up on, leaves a pending
transaction that the next complete charges again; an unanswered call may have charged what
is then declined; an upgraded or unannounced 3DS version makes the retry decision wrong.

### Hosted sales

* `HostedTypeCorrect`: `Typed` adds that a request about to save a cross sale has made one.
* `MemoryIsAlwaysTold`, `ApprovedIsAlwaysTold`: no sale, cross sale or renewal is approved
  without the biller's own approval of that very payment, and no cancellation without an answer
  to it, which may be a refusal. The inductive `ToldInv` adds that pending transactions
  are sales (so that a join postback can only approve a sale, never a renewal or cross
  sale), that renewals are never said to be waiting, and that what a request is about to
  save is as well founded under the id it will be saved under.
* `OutcomeNeverChanges` (`OutcomeStands`), `ApprovalIsKept` (`AcceptedIsRecorded`),
  `RenewalsAreOfCharges` (`RebillFollowsApproved`), `ReportIsStored` (`ReportedIsStored`), for
  `RewritersAlone` and `PaidOnce`: QR codes asked for again and aborts do not overlap with
  other requests on the transaction, and a payment has one outcome (none of `"earlyReturn"`,
  `"payAgain"`, `"declinedCross"`). Sales, postbacks and cancellations overlap at will,
  and crashes, unanswered calls, failing and repeated saves and malformed postbacks
  may all happen. `OutcomeInv` has a part of ids (a second transaction belongs to the request
  that made it; two requests at work on one transaction in place are join postbacks), one of
  what billers said (one word on a payment, of a page that was opened) and one of
  requests (what a request is about to save does not change a stored outcome, because
  racing joins carry the same word). That a step changes no settled outcome and removes no
  document (`Stands`) is proved first and used for the others; `ReportedIsStored` needs the
  second half, since it says that no event is without its document.
  With QR codes or aborts overlapping, or a second outcome of a payment, TLC finds each
  property violated (`RebillFollowsApproved` with 4 requests and overlapping renewals; with
  `"declinedCross"` alone it found no violation of that one).

### Firestore repository

* `TypeCorrect`, and `StoreImplemented`, the refinement `Spec => StoreSpec` for `Attempts > 0`. A
  step maps to the save step of the same caller: the first attempt to `Begin`, an answered one
  to `Acknowledge`, a lost one to `Attempt` (given up or not), a read to a stutter. The
  invariant it needs (`InUse`) says that a caller has a save under way exactly while it is at a
  save step, by itself, and that a chain is not empty where its top is looked at.
* `QuietFindReturnsStored` (`QuietFindIsExact`) and, for `Attempts > 0`, `AcknowledgedSurvives`
  (`AckedSurvives`). `CallsInv` ties the ids and contents a call works with to each other
  (`Linked`), says that calls running at one time have met (`Meeting`), and that the snapshots
  of a call that met nobody are the documents, or what the call itself repaired since
  (`Reads`). `AckedSurvives` is not inductive: `Survives` adds that every call which did not
  meet the acknowledged one builds on its save, in the snapshots it holds, in the entity it
  changes and in what it is about to write, so that a repair writes it back. The steps are first
  reduced to one form (`Moves`).
* With no attempts a save returns as done without writing, so that the refinement and
  `AckedSurvives` are false; the hypothesis says so. The find needs none.

### Rebill updates and Netbilling

* `RocketgateRebill_proofs`: `TypeCorrect`, `SubscriptionKept` (`ActsOnItsOwn`), `OutcomeKept`
  (`StoredIsTrue`), `ReportKept` (`ReportedIsStored`). The invariant `RebillInv` is
  that of documents (`DocumentsOwn`: wherever a document outside a stray chain holds ids
  or a card they are its root's, so that a chain of any length stays on its subscription) and
  of requests (`RequestInv`: what is in memory at each step, carried out or not, stored or not,
  reported or not). An approval in memory is not yet a document, so `StoredIsTrue` alone is not
  inductive.
* `RecordTellsTruth` (`QuietRecordIsTruth`), with no hypothesis. `RecordInv` is an
  invariant over `order`: every request accepted is in it once, and for a subscription that is
  not blurred the last approved operation decides what is rebilled, where the operation
  of a request under way counts from the moment Rocketgate carried it out.
* `NetbillingMember_proofs`: `TypeCorrect`, `MembershipKept` (`ActsOnItsMember`), `OutcomeKept`,
  `ChargeKept` (`ChargeIsStored`) and `ReportKept`, from `MemberInv` of the same shape:
  every place of a document that holds a member holds that of its root, and at each step a request
  has charged and applied exactly what its transaction says, or is unsure. `PlanKept`
  (`QuietPlanIsRecorded`) from `PlanInv`, with no hypothesis: as above, and a member was started
  by some transaction before any plan or document of it, while a sale to a member there was
  already blurs it. Between the charge of an update and the answer about its member, the plan is
  the old one or already the one the update asks for (`Foreseen`).

### Lemmas

A result becomes the status of an entity that allows it (`ResultBecomesStatus`); types of
every helper; what an answer tells of money, version and retry (`AnswerTells`); what
starting a request changes (`BeginTold`, `BeginOutcome`); what another request's step leaves
(`MemoryKept`, `RestFounded`, `WorkStands`).

What is left to TLC: `RequestEnds` (fairness and liveness are beyond the prover) and the
properties of the three runs that expect a violation, which are false.

## 5. Not modelled

Amounts, addresses, card data, encryption, the digests of postbacks, the wording of
answers, the content of error classifications, BI payloads, validation of requests
(one refusal each), site configuration. When a circuit breaker is open is decided by a vendored
package from a window of earlier calls; the models let the fallback come at any call instead,
which allows every behaviour of an open or closed breaker and so is sound for the safety
properties. The configuration client, the wiring and the console command change no state of
a transaction. The documents below `src/docs/static` are the browser code of a
vendored API viewer.

## 6. Plan

1. *Done*: `TransactionStatus`, `RocketgateResponse`, `ChargeEntity`, `RocketgateSale`,
   `PaymentLifecycle`, `HostedSale`; `FirestoreRepository` and `DocumentStore`;
   `RocketgateRebill`; `NetbillingMember`; the theorems above.
2. `Hydration`: which documents each handler can write and `hydrate` cannot read, as a
   round trip over the kinds of transactions.
3. Proofs: weaker hypotheses where they are still stronger than a single property needs (one
   transaction without overlaps instead of all, `RebillFollowsApproved` with
   `"declinedCross"`); what each handler's answer to the client promises about the document.
