---------------------------- MODULE DocumentStore -----------------------------
(***************************************************************************)
(* What the handlers may expect of the transaction repository: a register   *)
(* for each transaction that a save overwrites as a whole.                  *)
(*                                                                         *)
(* A save may take effect several times while it runs and, if an attempt of *)
(* it was given up on, once more at any later time.  When the caller is     *)
(* told that it is done, the register holds the value saved.                *)
(***************************************************************************)
CONSTANTS Caller, TxId, Content, None

VARIABLES
    doc,       \* the register of each transaction, None when it has none
    saving,    \* the save a caller has under way, or None
    late,      \* saves given up on that may still take effect
    stored     \* the callers that were told their save is done

vars == <<doc, saving, late, stored>>

Write == [by: Caller, id: TxId, val: Content]

Init ==
    /\ doc \in [TxId -> Content \cup {None}]
    /\ saving = [c \in Caller |-> None]
    /\ late = {}
    /\ stored = {}

TakeEffect(w) == doc' = [doc EXCEPT ![w.id] = w.val]

Begin(w) ==
    /\ saving[w.by] = None
    /\ saving' = [saving EXCEPT ![w.by] = w]
    /\ UNCHANGED <<doc, late, stored>>

\* The save is done; a save the repository makes for itself is told to nobody.
Acknowledge(c) ==
    /\ saving[c] # None
    /\ TakeEffect(saving[c])
    /\ saving' = [saving EXCEPT ![c] = None]
    /\ stored' \in {stored, stored \cup {c}}
    /\ UNCHANGED late

\* The caller goes on trying, or is told that the save failed, or dies.
Attempt(c) ==
    /\ saving[c] # None
    /\ TakeEffect(saving[c]) \/ UNCHANGED doc
    /\ late' \in {late, late \cup {saving[c]}}
    /\ saving' \in {saving, [saving EXCEPT ![c] = None]}
    /\ UNCHANGED stored

Land(w) ==
    /\ TakeEffect(w)
    /\ late' \in {late, late \ {w}}
    /\ UNCHANGED <<saving, stored>>

Next ==
    \/ \E w \in Write : Begin(w)
    \/ \E c \in Caller : Acknowledge(c) \/ Attempt(c)
    \/ \E w \in late : Land(w)

Spec == Init /\ [][Next]_vars

==============================================================================
