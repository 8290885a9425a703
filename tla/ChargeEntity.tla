---------------------------- MODULE ChargeEntity -----------------------------
(***************************************************************************)
(* The ChargeTransaction entity as the Rocketgate handlers see it, its     *)
(* update from a biller response (Domain/Model/Transaction) and what its   *)
(* Firestore document keeps (Transaction::toArray, FirestoreSerializer).   *)
(*                                                                         *)
(* An interaction stands for the response payload the entity stores: the   *)
(* biller call it answers and the result read from it.  Payment data,      *)
(* dates, settings and the encoded biller transactions are left out.       *)
(***************************************************************************)
EXTENDS RocketgateResponse

\* calls is the set of identities of biller calls.
Interaction(calls) == [call: calls, result: Result]

Entity(calls) == [status: Status, ver: 0..2, nsf: BOOLEAN, with3D: BOOLEAN,
                  ixn: SUBSET Interaction(calls)]

\* status is "absent" while the collection holds no such document.
Document(calls) == [status: Status \cup {"absent"}, ver: 0..2, nsf: BOOLEAN,
                    ixn: SUBSET Interaction(calls)]

NoDocument == [status |-> "absent", ver |-> 0, nsf |-> FALSE, ixn |-> {}]

\* A new entity: Pending, no 3DS version, with3D copied from requiredToUse3D.
NewEntity(use3D) ==
    [status |-> "pending", ver |-> 0, nsf |-> FALSE, with3D |-> use3D, ixn |-> {}]

(* toArray: with3D is not stored. *)
ToDocument(e) == [status |-> e.status, ver |-> e.ver, nsf |-> e.nsf, ixn |-> e.ixn]

(* hydrate: isNsf is stored but not read back, with3D is rebuilt from a
   non-empty version. *)
Hydrate(d) ==
    [status |-> d.status, ver |-> d.ver, nsf |-> FALSE, with3D |-> d.ver # 0,
     ixn |-> d.ixn]

\* updateTransactionBillerInteraction: an empty payload adds nothing.
Recorded(e, c, resp) ==
    e.ixn \cup {i \in {[call |-> c, result |-> resp.result]} : resp.payload}

\* Before a retry: updateTransactionWith3D(true), then the interactions.
MarkedWithThreeD(e, c, resp) ==
    [e EXCEPT !.with3D = TRUE, !.ixn = Recorded(e, c, resp)]

\* Mutant of MarkedWithoutThreeD: the version is stepped down, not cleared.
SteppedDownWithoutThreeD(e, c, resp) ==
    [e EXCEPT !.with3D = FALSE, !.ver = e.ver - 1, !.ixn = Recorded(e, c, resp)]

(* Before a retry: updateTransactionWith3D(false), updateThreedsVersion(0) -
   0 is lower than any version, so it is always accepted - and the
   interactions. *)
MarkedWithoutThreeD(e, c, resp) ==
    [e EXCEPT !.with3D = FALSE, !.ver = 0, !.ixn = Recorded(e, c, resp)]

\* The version a response sets: none when the purchase is not with 3DS.
VersionSet(e, resp) == IF e.with3D THEN ThreedsVersion(resp) ELSE 0

\* Mutant of VersionRefused: any version replaces any other.
VersionNotRefused(e, v) == FALSE

\* updateThreedsVersion throws: "version can be set from 2 to 1, but no from 1 to 2".
VersionRefused(e, v) == v # 0 /\ e.ver # 0 /\ v > e.ver

\* An entity flagged NSF only collects interactions.
FrozenByNsf(e, nsfFlow) == e.nsf /\ nsfFlow

\* updateRocketgateTransactionFromBillerResponse throws.
UpdateThrows(e, resp, nsfFlow) ==
    /\ ~FrozenByNsf(e, nsfFlow)
    /\ \/ VersionRefused(e, VersionSet(e, resp))
       \/ resp.result # "pending" /\ ~Allows(e.status, Operation(resp.result))

\* Mutant of UpdatedEntity: the interactions of an approval are not added.
UpdatedEntityOnly(e, c, resp, nsfFlow) ==
    [status |-> IF resp.result = "pending" THEN e.status
                ELSE After(e.status, Operation(resp.result)),
     ver    |-> e.ver,
     nsf    |-> e.nsf,
     with3D |-> e.with3D,
     ixn    |-> IF resp.result = "approved" THEN e.ixn ELSE Recorded(e, c, resp)]

\* The entity updateRocketgateTransactionFromBillerResponse leaves.
UpdatedEntity(e, c, resp, nsfFlow) ==
    IF FrozenByNsf(e, nsfFlow)
    THEN [e EXCEPT !.ixn = Recorded(e, c, resp)]
    ELSE [status |-> IF resp.result = "pending" THEN e.status
                     ELSE After(e.status, Operation(resp.result)),
          ver    |-> IF VersionSet(e, resp) = 0 THEN e.ver ELSE VersionSet(e, resp),
          nsf    |-> IF nsfFlow THEN IsNsfTransaction(resp) ELSE e.nsf,
          with3D |-> e.with3D,
          ixn    |-> Recorded(e, c, resp)]

==============================================================================
