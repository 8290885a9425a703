------------------------- MODULE FirestoreRepository --------------------------
(***************************************************************************)
(* FirestoreTransactionRepository: the documents that PHP processes read    *)
(* with findById and overwrite with add and update, each over attempts that *)
(* may fail with a known or an unknown effect.                              *)
(*                                                                         *)
(* findById is not read-only: it follows previousTransactionId first and    *)
(* then, for each document from the last to the first, saves back the       *)
(* snapshot it read with the biller interactions of the migrated            *)
(* collections when the document's own do not pair up.                      *)
(***************************************************************************)
EXTENDS Naturals, Sequences

CONSTANTS
    Caller,      \* processes, each making one call of the kinds in Op
    TxId,        \* transaction ids
    None,        \* no id, no document, no entity, no save
    Previous,    \* previousTransactionId of each transaction, or None
    Attempts,    \* env('NO_OF_FIRESTORE_READ_WRITE_ATTEMPTS')
    Migrated,    \* the interactions the migrated collections may hold
    Faults,      \* what may go wrong, a subset of Fault
    Overlap      \* TRUE: calls may run at once

(* lost      RequestException, or ServiceException with a code that is retried:
             whether the attempt had an effect is not known
   late      a lost save may also take effect at any later time
   refused   ServiceException with another code
   die       the process dies between two accesses *)
Fault == {"lost", "late", "refused", "die"}

ASSUME NoneAssumption == None \notin TxId
ASSUME AttemptsAssumption == Attempts \in Nat
ASSUME FaultsAssumption == Faults \subseteq Fault
ASSUME PreviousAssumption == Previous \in [TxId -> TxId \cup {None}]
ASSUME OverlapAssumption == Overlap \in BOOLEAN

\* Whether the biller interactions of a document pair up: as many requests as
\* responses; other numbers of them, or none at all.
Interactions == {"even", "uneven"}

(* A stored or hydrated transaction: the calls whose change it contains - the
   identity of everything that is not a biller interaction - and its
   interactions. *)
Content == [rev: SUBSET Caller, ints: Interactions]
ASSUME MigratedAssumption == Migrated \subseteq Interactions
ASSUME NoneIsNoContent == None \notin Content

Frame == [id: TxId, data: Content]
Write == [by: Caller, id: TxId, val: Content]
ASSUME NoneIsNoWrite == None \notin Write

\* find: a query or a handler that gives up after it; update: a handler that
\* loads, changes and saves; add: one that saves a new transaction.
Op == {"find", "update", "add"}

ReadStep == {"get", "query"}
SaveStep == {"repair", "set"}
Step == ReadStep \cup SaveStep \cup {"check", "change"}
Ended == {"found", "null", "saved", "failed"}

VARIABLES
    doc,       \* the transactions collection
    fallback,  \* the interactions the migrated collections hold, or None
    late,      \* lost saves that may still take effect
    pc,        \* "idle", a Step, or how the call ended
    op,        \* the call
    on,        \* the id it is about, or None
    chain,     \* findById: the snapshots read, the first document's first
    entity,    \* what findById returned or add is to save, or None
    write,     \* the arguments of the running saveToFirestore, or None
    tries,     \* attempts made of the running read or save
    met,       \* history: the calls that ran at some time while this one did
    wrote,     \* history: the ids a save of this call took effect on
    overrun    \* history: the calls on a document that a lost save changed
               \* late, after they began

memory == <<op, on, chain, entity>>
vars == <<doc, fallback, late, pc, memory, write, tries, met, wrote, overrun>>

TypeOK ==
    /\ doc \in [TxId -> Content \cup {None}]
    /\ fallback \in [TxId -> Interactions \cup {None}]
    /\ late \subseteq Write
    /\ pc \in [Caller -> {"idle"} \cup Step \cup Ended]
    /\ op \in [Caller -> Op]
    /\ on \in [Caller -> TxId \cup {None}]
    /\ chain \in [Caller -> Seq(Frame)]
    /\ entity \in [Caller -> Content \cup {None}]
    /\ write \in [Caller -> Write \cup {None}]
    /\ tries \in [Caller -> Nat]
    /\ met \in [Caller -> SUBSET Caller]
    /\ wrote \in [Caller -> SUBSET TxId]
    /\ overrun \subseteq Caller

Init ==
    /\ doc \in [TxId -> {None} \cup [rev: {{}}, ints: Interactions]]
    /\ fallback \in [TxId -> Migrated \cup {None}]
    /\ late = {}
    /\ pc = [c \in Caller |-> "idle"]
    /\ op = [c \in Caller |-> "find"]
    /\ on = [c \in Caller |-> None]
    /\ chain = [c \in Caller |-> <<>>]
    /\ entity = [c \in Caller |-> None]
    /\ write = [c \in Caller |-> None]
    /\ tries = [c \in Caller |-> 0]
    /\ met = [c \in Caller |-> {}]
    /\ wrote = [c \in Caller |-> {}]
    /\ overrun = {}

Running(c) == pc[c] \in Step

-----------------------------------------------------------------------------
(* Attempts: getSnapshots and saveToFirestore.                             *)

\* A read or a save begins: with no attempt configured the loop is not
\* entered, a read then throws and a save returns as if it were done.
Enter(step) ==
    IF Attempts > 0 THEN step ELSE IF step = "set" THEN "saved" ELSE "failed"

GoTo(c, step) ==
    /\ pc' = [pc EXCEPT ![c] = Enter(step)]
    /\ tries' = [tries EXCEPT ![c] = 0]

\* A step that does not access Firestore, or an end.
Turn(c, step) ==
    /\ pc' = [pc EXCEPT ![c] = step]
    /\ tries' = [tries EXCEPT ![c] = 0]

\* Mutant of AfterLoss: the last lost attempt is not an error.
AfterLossSilent(c) ==
    IF tries[c] + 1 < Attempts THEN pc[c] ELSE IF pc[c] = "set" THEN "saved" ELSE "failed"

\* Another attempt, or FirestoreException after the last one.
AfterLoss(c) == IF tries[c] + 1 < Attempts THEN pc[c] ELSE "failed"

Retry(c) ==
    /\ "lost" \in Faults
    /\ pc' = [pc EXCEPT ![c] = AfterLoss(c)]
    /\ tries' = [tries EXCEPT ![c] = @ + 1]

ReadLost(c) ==
    /\ pc[c] \in ReadStep
    /\ Retry(c)
    /\ UNCHANGED <<doc, fallback, late, memory, write, met, wrote, overrun>>

Refused(c) ==
    /\ "refused" \in Faults
    /\ pc[c] \in ReadStep \cup SaveStep
    /\ Turn(c, "failed")
    /\ write' = [write EXCEPT ![c] = None]
    /\ UNCHANGED <<doc, fallback, late, memory, met, wrote, overrun>>

TakeEffect(w) ==
    /\ doc' = [doc EXCEPT ![w.id] = w.val]
    /\ wrote' = [wrote EXCEPT ![w.by] = @ \cup {w.id}]

\* A save attempt without an answer: done, not done, or not done yet.
SaveLost(c) ==
    /\ pc[c] \in SaveStep
    /\ Retry(c)
    /\ \/ TakeEffect(write[c]) /\ UNCHANGED late
       \/ UNCHANGED <<doc, wrote, late>>
       \/ /\ "late" \in Faults
          /\ late' = late \cup {write[c]}
          /\ UNCHANGED <<doc, wrote>>
    /\ write' = [write EXCEPT ![c] = IF pc'[c] = "failed" THEN None ELSE @]
    /\ UNCHANGED <<fallback, memory, met, overrun>>

\* More than one attempt of a save may be on its way.
Land(w) ==
    /\ TakeEffect(w)
    /\ late' \in {late, late \ {w}}
    /\ overrun' = overrun \cup {c \in Caller : on[c] = w.id}
    /\ UNCHANGED <<fallback, pc, memory, write, tries, met>>

-----------------------------------------------------------------------------
(* findById.                                                               *)

Top(c) == chain[c][Len(chain[c])]
Below(c) == SubSeq(chain[c], 1, Len(chain[c]) - 1)

\* The id the read under way is for: what the last document read refers to.
Target(c) == IF chain[c] = <<>> THEN on[c] ELSE Previous[Top(c).id]

\* An answered snapshot. A missing previous transaction is no error.
Got(c) ==
    /\ pc[c] = "get"
    /\ LET t == Target(c)
       IN  \/ /\ doc[t] = None
              /\ Turn(c, IF chain[c] = <<>> THEN "null" ELSE "check")
              /\ UNCHANGED chain
           \/ /\ doc[t] # None
              /\ chain' = [chain EXCEPT ![c] = Append(@, [id |-> t, data |-> doc[t]])]
              /\ IF Previous[t] = None THEN Turn(c, "check") ELSE GoTo(c, "get")
    /\ UNCHANGED <<doc, fallback, late, op, on, entity, write, met, wrote, overrun>>

(* The first document's transaction is what findById returns; the transaction of
   another one is only hydrated into it. *)
Finish(c, data) ==
    IF Len(chain[c]) > 1
    THEN /\ chain' = [chain EXCEPT ![c] = Below(c)]
         /\ Turn(c, "check")
         /\ UNCHANGED entity
    ELSE /\ chain' = [chain EXCEPT ![c] = <<>>]
         /\ entity' = [entity EXCEPT ![c] = data]
         /\ Turn(c, IF op[c] = "find" THEN "found" ELSE "change")

\* areRequestInteractionsEqualToReposeInteractions of the snapshot.
Check(c) ==
    /\ pc[c] = "check"
    /\ \/ Top(c).data.ints = "even" /\ Finish(c, Top(c).data)
       \/ /\ Top(c).data.ints # "even"
          /\ GoTo(c, "query")
          /\ UNCHANGED <<chain, entity>>
    /\ UNCHANGED <<doc, fallback, late, op, on, write, met, wrote, overrun>>

\* Mutant of Repaired: only the interactions are saved.
RepairedAlone(data, ints) == [rev |-> {}, ints |-> ints]

\* Mutant of Repaired: the interactions are added to those of the document.
RepairedMixed(data, ints) == [data EXCEPT !.ints = IF @ = ints THEN @ ELSE "mixed"]

\* What is saved back: the snapshot, with other interactions.
Repaired(data, ints) == [data EXCEPT !.ints = ints]

(* populateBillerInteractionFromFallbackCollections, the query and the documents
   it names taken as one read: nothing writes these collections. *)
Queried(c) ==
    /\ pc[c] = "query"
    /\ LET f == Top(c)
       IN  \/ /\ fallback[f.id] = None
              /\ Finish(c, f.data)
              /\ UNCHANGED write
           \/ /\ fallback[f.id] # None
              /\ write' = [write EXCEPT ![c] =
                     [by |-> c, id |-> f.id, val |-> Repaired(f.data, fallback[f.id])]]
              /\ GoTo(c, "repair")
              /\ UNCHANGED <<chain, entity>>
    /\ UNCHANGED <<doc, fallback, late, op, on, met, wrote, overrun>>

\* Mutant of RepairSaved: the snapshot is returned as it was read.
RepairSavedUnseen(c) ==
    /\ pc[c] = "repair"
    /\ TakeEffect(write[c])
    /\ write' = [write EXCEPT ![c] = None]
    /\ Finish(c, Top(c).data)
    /\ UNCHANGED <<fallback, late, op, on, met, overrun>>

RepairSaved(c) ==
    /\ pc[c] = "repair"
    /\ TakeEffect(write[c])
    /\ write' = [write EXCEPT ![c] = None]
    /\ Finish(c, write[c].val)
    /\ UNCHANGED <<fallback, late, op, on, met, overrun>>

-----------------------------------------------------------------------------
(* add and update.                                                         *)

\* The handler changes the entity, its interactions included, and saves it.
Change(c) ==
    /\ pc[c] = "change"
    /\ \E ints \in Interactions :
          LET changed == [rev |-> entity[c].rev \cup {c}, ints |-> ints]
          IN  /\ entity' = [entity EXCEPT ![c] = changed]
              /\ write' = [write EXCEPT ![c] = [by |-> c, id |-> on[c], val |-> changed]]
    /\ GoTo(c, "set")
    /\ UNCHANGED <<doc, fallback, late, op, on, chain, met, wrote, overrun>>

Saved(c) ==
    /\ pc[c] = "set"
    /\ TakeEffect(write[c])
    /\ write' = [write EXCEPT ![c] = None]
    /\ Turn(c, "saved")
    /\ UNCHANGED <<fallback, late, memory, met, overrun>>

-----------------------------------------------------------------------------
(* Calls.                                                                  *)

Meets(c) ==
    met' = [d \in Caller |->
              IF d = c THEN {e \in Caller : Running(e)}
              ELSE IF Running(d) THEN met[d] \cup {c} ELSE met[d]]

\* A new id is known to nobody until the call that adds it has ended.
Known(t) == \A d \in Caller : on[d] = t /\ op[d] = "add" => ~Running(d)

Call(c, t, o) ==
    /\ pc[c] = "idle"
    /\ Overlap \/ \A d \in Caller : ~Running(d)
    /\ op' = [op EXCEPT ![c] = o]
    /\ on' = [on EXCEPT ![c] = t]
    /\ Meets(c)
    /\ UNCHANGED <<doc, fallback, late, chain, wrote, overrun>>

Find(c, t) ==
    /\ Known(t)
    /\ \E o \in {"find", "update"} : Call(c, t, o)
    /\ GoTo(c, "get")
    /\ UNCHANGED <<entity, write>>

Add(c, t) ==
    /\ doc[t] = None
    /\ \A d \in Caller : on[d] # t
    /\ Call(c, t, "add")
    /\ \E ints \in Interactions :
          LET new == [rev |-> {c}, ints |-> ints]
          IN  /\ entity' = [entity EXCEPT ![c] = new]
              /\ write' = [write EXCEPT ![c] = [by |-> c, id |-> t, val |-> new]]
    /\ GoTo(c, "set")

Die(c) ==
    /\ "die" \in Faults
    /\ Running(c)
    /\ Turn(c, "failed")
    /\ write' = [write EXCEPT ![c] = None]
    /\ UNCHANGED <<doc, fallback, late, memory, met, wrote, overrun>>

-----------------------------------------------------------------------------

Proceed(c) ==
    \/ ReadLost(c) \/ Refused(c) \/ SaveLost(c)
    \/ Got(c) \/ Check(c) \/ Queried(c) \/ RepairSaved(c)
    \/ Change(c) \/ Saved(c)

Next ==
    \/ \E c \in Caller :
          \/ \E t \in TxId : Find(c, t) \/ Add(c, t)
          \/ Proceed(c) \/ Die(c)
    \/ \E w \in late : Land(w)

Spec == Init /\ [][Next]_vars

-----------------------------------------------------------------------------
(* Properties.                                                             *)

\* What the handlers may expect, see there.
Store == INSTANCE DocumentStore WITH
            saving <- write,
            stored <- {c \in Caller : pc[c] = "saved"}
StoreSpec == Store!Spec

\* A call that was told its save is done finds its change in the document,
\* unless a call that ran at the same time wrote the document or a lost attempt
\* took effect late: no repair made by an earlier or a later read, and no
\* retry of one, undoes a save.
AckedSurvives ==
    \A c \in Caller :
        pc[c] = "saved" /\ c \notin overrun =>
            \/ doc[on[c]] # None /\ c \in doc[on[c]].rev
            \/ \E d \in met[c] : on[c] \in wrote[d]

\* A find that met no other call, nor a late save, returns the transaction as it
\* is stored when it returns, whether it repaired it, or the one before it, or
\* not.
QuietFindIsExact ==
    [][\A c \in Caller :
          /\ pc[c] # "found" /\ pc'[c] = "found"
          /\ met[c] = {} /\ c \notin overrun
          => entity'[c] = doc'[on[c]]]_vars

==============================================================================
