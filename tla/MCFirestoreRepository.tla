------------------------ MODULE MCFirestoreRepository -------------------------
(***************************************************************************)
(* FirestoreRepository for TLC: a sale and a rebill that refers to it.      *)
(***************************************************************************)
EXTENDS FirestoreRepository, TLC

CONSTANTS sale, rebill

SaleOfRebill == [t \in TxId |-> IF t = rebill THEN sale ELSE None]

\* What the memory of a call that has ended holds no longer matters.
LiveState ==
    <<doc, fallback, late, pc, on, write, met, wrote, overrun,
      [c \in Caller |-> IF Running(c) THEN <<op[c], chain[c], entity[c], tries[c]>> ELSE <<>>]>>

CallerSymmetry == Permutations(Caller)

==============================================================================
