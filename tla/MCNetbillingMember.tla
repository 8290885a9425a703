-------------------------- MODULE MCNetbillingMember --------------------------
(***************************************************************************)
(* NetbillingMember for TLC.                                                *)
(***************************************************************************)
EXTENDS NetbillingMember, TLC

\* A sale of before fields were stored, one that only the fields tell of, and one
\* that tells nothing.
SomeKnown == {{"interactions", "settings"}, {"fields"}, {}}

\* What a request that has ended had in memory no longer matters.
LiveState ==
    <<doc, plan, pc, op, wish, order, bi, charged, applied, unsure, blurred,
      [r \in Request |-> IF pc[r] \in Working THEN <<tx[r], answer[r]>> ELSE <<>>]>>

RequestSymmetry == Permutations(Request)

==============================================================================
