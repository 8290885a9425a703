-------------------------- MODULE MCRocketgateRebill --------------------------
(***************************************************************************)
(* RocketgateRebill for TLC.                                                *)
(***************************************************************************)
EXTENDS RocketgateRebill, TLC

\* An approved sale, one whose ids Rocketgate made up, a refused one, and another
\* biller's.
SomeKnown == {{"settings", "fields", "card"}, {"fields", "card"}, {"settings"}, {}}

\* The requests and the sales each play the same part.
MCSymmetry == Permutations(Request) \cup Permutations(Sale)

\* What a request that has ended had in memory no longer matters.
LiveState ==
    <<doc, on, pc, order, bi, carried, blurred,
      [r \in Request |-> IF pc[r] \in Working THEN <<tx[r], sent[r]>> ELSE <<>>],
      [r \in Request |-> IF pc[r] \in Working \/ doc[r] # Absent THEN op[r] ELSE "none"]>>

==============================================================================
