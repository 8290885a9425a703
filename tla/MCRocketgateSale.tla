-------------------------- MODULE MCRocketgateSale ---------------------------
(***************************************************************************)
(* RocketgateSale for TLC: the replies Rocketgate is known to give.        *)
(***************************************************************************)
EXTENDS RocketgateSale, TLC

Replies(reasons, versions, fields) == [reason: reasons, version: versions, fields: fields]

(* Final answers carry a version or none; an authentication request carries
   PAREQ (3DS 1), the step-up fields (3DS 2) or neither; an initiation the
   device collection fields or nothing; SCA and failed 3DS nothing. *)
AllReplies ==
    Replies({"success"}, 0..2, {"none"})
    \cup Replies({"link", "nsf", "decline", "abort", "failed3ds", "sca"}, {0}, {"none"})
    \cup Replies({"auth"}, {0, 1}, {"pareq"}) \cup Replies({"auth"}, {2}, {"stepUp"})
    \cup Replies({"auth"}, {0}, {"none"})
    \cup Replies({"init"}, {0}, {"device", "none"})

\* One reply of each kind a handler reacts to in its own way.
FewReplies ==
    Replies({"success", "nsf", "decline", "failed3ds"}, {0}, {"none"})
    \cup Replies({"success"}, {2}, {"none"})
    \cup Replies({"auth"}, {0}, {"pareq"}) \cup Replies({"init"}, {0}, {"device"})

\* What the memory of a request that has ended holds no longer matters.
LiveState ==
    <<doc, cvv, captured, bi, pc, on, got,
      [r \in Request |-> IF Active(r) THEN <<kind[r], mem[r]>> ELSE <<>>],
      [r \in Request |-> IF pc[r] = "deleteCvv" THEN <<answer[r]>> ELSE <<>>]>>

RequestSymmetry == Permutations(Request)

==============================================================================
