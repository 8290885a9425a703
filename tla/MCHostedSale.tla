---------------------------- MODULE MCHostedSale -----------------------------
(***************************************************************************)
(* HostedSale for TLC.                                                     *)
(***************************************************************************)
EXTENDS HostedSale, TLC

\* Requests and ids are interchangeable; None is neither.
HostedSymmetry == Permutations(Request) \cup Permutations(TxId)

\* What the memory of a request that has ended holds no longer matters.
LiveState ==
    <<doc, pages, told, bi, pc, on, made,
      [r \in Request |-> IF Active(r) THEN <<mem[r]>> ELSE <<>>],
      [r \in Request |-> IF pc[r] = "idle" THEN <<>> ELSE <<kind[r], msg[r]>>]>>

\* Where only TypeOK and ToldInv are checked, neither the BI log nor anything else
\* of an ended request matters, but for the ids it used.
WorkState ==
    <<doc, pages, told,
      {t \in TxId : Fresh(t)},
      [r \in Request |->
          CASE Active(r)      -> <<pc[r], kind[r], on[r], made[r], mem[r]>>
            [] pc[r] = "idle" -> <<"idle">>
            [] OTHER          -> <<"ended">>]>>

==============================================================================
