--------------------- MODULE FirestoreRepository_proofs -----------------------
(***************************************************************************)
(* The repository implements DocumentStore as soon as one attempt is        *)
(* configured, a save it acknowledged is not undone by calls that did not   *)
(* meet it, and a find that met no other call is exact - for any number of  *)
(* processes, documents, attempts and faults.                               *)
(***************************************************************************)
EXTENDS FirestoreRepository, TLAPS

\* What the steps of a call rely on: which of its variables are in use.
InUse(c) ==
    /\ Running(c) => on[c] \in TxId
    /\ pc[c] \in {"check", "query", "repair"} => chain[c] # <<>>
    /\ pc[c] = "get" => Target(c) \in TxId
    /\ pc[c] = "change" => entity[c] \in Content
    /\ pc[c] \in SaveStep => write[c] \in [by: {c}, id: TxId, val: Content]
    /\ Attempts > 0 /\ pc[c] \notin SaveStep => write[c] = None
    /\ pc[c] = "idle" => chain[c] = <<>>

Inv == TypeOK /\ \A c \in Caller : InUse(c)

LEMMA TopIsFrame ==
    ASSUME TypeOK, NEW c \in Caller, chain[c] # <<>>
    PROVE  /\ Top(c) \in Frame
           /\ Len(chain[c]) \in Nat \ {0}
           /\ Below(c) \in Seq(Frame)
           /\ Len(chain[c]) > 1 => Below(c) # <<>>
  <1>1. chain[c] \in Seq(Frame)
    BY DEF TypeOK
  <1>2. Len(chain[c]) \in Nat \ {0}
    BY <1>1
  <1>3. Top(c) \in Frame
    BY <1>1, <1>2 DEF Top
  <1>4. Below(c) \in Seq(Frame) /\ Len(Below(c)) = Len(chain[c]) - 1
    BY <1>1, <1>2 DEF Below
  <1>5. Len(chain[c]) > 1 => Below(c) # <<>>
    BY <1>2, <1>4
  <1> QED BY <1>2, <1>3, <1>4, <1>5

\* A snapshot read is the last of the chain, and the next read is for the
\* transaction before it.
LEMMA PushedFrame ==
    ASSUME NEW s \in Seq(Frame), NEW f \in Frame
    PROVE  /\ Append(s, f) \in Seq(Frame)
           /\ Append(s, f) # <<>>
           /\ Append(s, f)[Len(Append(s, f))] = f
  OBVIOUS

\* What Finish does to the variables a call uses.
LEMMA FinishFacts ==
    ASSUME TypeOK, NEW c \in Caller, NEW data \in Content,
           chain[c] # <<>>, Finish(c, data)
    PROVE  /\ chain' \in [Caller -> Seq(Frame)]
           /\ entity' \in [Caller -> Content \cup {None}]
           /\ pc'[c] \in {"check", "found", "change"}
           /\ pc' = [pc EXCEPT ![c] = pc'[c]]
           /\ tries' = [tries EXCEPT ![c] = 0]
           /\ pc'[c] = "check" => chain'[c] # <<>>
           /\ pc'[c] = "change" => entity'[c] \in Content
           /\ \A d \in Caller \ {c} : chain'[d] = chain[d] /\ entity'[d] = entity[d]
  <1>1. CASE Len(chain[c]) > 1
    <2>1. /\ chain' = [chain EXCEPT ![c] = Below(c)]
          /\ Turn(c, "check")
          /\ UNCHANGED entity
      BY <1>1 DEF Finish
    <2>2. Below(c) \in Seq(Frame) /\ Below(c) # <<>>
      BY <1>1, TopIsFrame
    <2> QED BY <2>1, <2>2 DEF Turn, TypeOK
  <1>2. CASE ~(Len(chain[c]) > 1)
    <2>1. /\ chain' = [chain EXCEPT ![c] = <<>>]
          /\ entity' = [entity EXCEPT ![c] = data]
          /\ Turn(c, IF op[c] = "find" THEN "found" ELSE "change")
      BY <1>2 DEF Finish
    <2> QED BY <2>1 DEF Turn, TypeOK
  <1> QED BY <1>1, <1>2

-----------------------------------------------------------------------------

LEMMA InitInv == Init => Inv
  <1> SUFFICES ASSUME Init PROVE Inv
    OBVIOUS
  <1>1. doc \in [TxId -> Content \cup {None}]
    BY DEF Init, Content
  <1>2. TypeOK
    BY <1>1, MigratedAssumption DEF Init, TypeOK, Op
  <1>3. \A c \in Caller : InUse(c)
    BY DEF Init, InUse, Running, Step, ReadStep, SaveStep
  <1> QED BY <1>2, <1>3 DEF Inv

LEMMA CallTyped ==
    ASSUME Inv, NEW c \in Caller, NEW t \in TxId, NEW o \in Op, Call(c, t, o)
    PROVE  /\ op' \in [Caller -> Op]
           /\ on' \in [Caller -> TxId \cup {None}]
           /\ on'[c] = t
           /\ chain'[c] = chain[c]
           /\ met' \in [Caller -> SUBSET Caller]
           /\ \A d \in Caller \ {c} : on'[d] = on[d]
  BY DEF Call, Meets, Inv, TypeOK

-----------------------------------------------------------------------------
(* The invariant is inductive. *)

\* A document of the chain is done with: the call goes on with the one above.
LEMMA FinishInv ==
    ASSUME Inv, NEW c \in Caller, NEW data \in Content,
           Finish(c, data), chain[c] # <<>>, on[c] \in TxId,
           UNCHANGED <<fallback, late, op, on, met, overrun>>,
           doc' \in [TxId -> Content \cup {None}],
           wrote' \in [Caller -> SUBSET TxId],
           \/ pc[c] \notin SaveStep /\ UNCHANGED write
           \/ write' = [write EXCEPT ![c] = None]
    PROVE  Inv'
  <1>1. TypeOK /\ \A d \in Caller : InUse(d)
    BY DEF Inv
  <1>2. /\ chain' \in [Caller -> Seq(Frame)]
        /\ entity' \in [Caller -> Content \cup {None}]
        /\ pc'[c] \in {"check", "found", "change"}
        /\ pc' = [pc EXCEPT ![c] = pc'[c]]
        /\ tries' = [tries EXCEPT ![c] = 0]
        /\ pc'[c] = "check" => chain'[c] # <<>>
        /\ pc'[c] = "change" => entity'[c] \in Content
        /\ \A d \in Caller \ {c} : chain'[d] = chain[d] /\ entity'[d] = entity[d]
    BY <1>1, FinishFacts
  <1>3. pc' \in [Caller -> {"idle"} \cup Step \cup Ended]
    BY <1>1, <1>2 DEF TypeOK, Step, Ended
  <1>4. write' \in [Caller -> Write \cup {None}]
    BY <1>1 DEF TypeOK
  <1>5. tries' \in [Caller -> Nat]
    BY <1>1, <1>2 DEF TypeOK
  <1>6. TypeOK'
    BY <1>1, <1>2, <1>3, <1>4, <1>5 DEF TypeOK
  <1>7. ASSUME NEW d \in Caller PROVE InUse(d)'
    <2>1. InUse(d)
      BY <1>1
    <2>2. CASE d = c
      <3>1. Attempts > 0 => write'[c] = None
        BY <1>1, <2>1, <2>2 DEF InUse, TypeOK
      <3> QED BY <2>2, <3>1, <1>2 DEF InUse, SaveStep
    <2>3. CASE d # c
      <3>1. pc'[d] = pc[d] /\ write'[d] = write[d] /\ on'[d] = on[d]
        BY <1>1, <1>2, <2>3 DEF TypeOK
      <3> QED BY <2>1, <2>3, <3>1, <1>2 DEF InUse, Target, Top, Running
    <2> QED BY <2>2, <2>3
  <1> QED BY <1>6, <1>7 DEF Inv

LEMMA StepInv == Inv /\ [Next]_vars => Inv'
  <1> SUFFICES ASSUME Inv, [Next]_vars PROVE Inv'
    OBVIOUS
  <1>t. TypeOK /\ \A c \in Caller : InUse(c)
    BY DEF Inv
  <1> USE AttemptsAssumption
  <1>1. ASSUME NEW c \in Caller, NEW t \in TxId, Find(c, t) PROVE Inv'
    <2>1. PICK o \in Op : Call(c, t, o)
      BY <1>1 DEF Find, Op
    <2>2. /\ GoTo(c, "get") /\ UNCHANGED <<entity, write>>
          /\ pc[c] = "idle" /\ UNCHANGED <<doc, fallback, late, chain, wrote, overrun>>
      BY <1>1, <2>1 DEF Find, Call
    <2>3. chain[c] = <<>> /\ (Attempts > 0 => write[c] = None)
      BY <2>2, <1>t DEF InUse, SaveStep
    <2>4. TypeOK'
      BY <1>t, <2>1, <2>2, CallTyped DEF TypeOK, GoTo, Enter, Step, ReadStep, SaveStep, Ended
    <2>5. ASSUME NEW d \in Caller PROVE InUse(d)'
      <3>1. CASE d = c
        BY <3>1, <1>t, <2>1, <2>2, <2>3, CallTyped
           DEF InUse, Target, GoTo, Enter, Running, Step, ReadStep, SaveStep, TypeOK
      <3>2. CASE d # c
        <4>1. InUse(d)
          BY <1>t
        <4> QED BY <3>2, <4>1, <1>t, <2>1, <2>2, CallTyped
                DEF InUse, Target, Top, GoTo, Running, TypeOK
      <3> QED BY <3>1, <3>2
    <2> QED BY <2>4, <2>5 DEF Inv
  <1>2. ASSUME NEW c \in Caller, NEW t \in TxId, Add(c, t) PROVE Inv'
    <2>1. Call(c, t, "add") /\ "add" \in Op
      BY <1>2 DEF Add, Op
    <2>2. PICK ints \in Interactions :
             /\ entity' = [entity EXCEPT ![c] = [rev |-> {c}, ints |-> ints]]
             /\ write' = [write EXCEPT ![c] =
                            [by |-> c, id |-> t, val |-> [rev |-> {c}, ints |-> ints]]]
      BY <1>2 DEF Add
    <2>3. /\ GoTo(c, "set")
          /\ pc[c] = "idle" /\ UNCHANGED <<doc, fallback, late, chain, wrote, overrun>>
      BY <1>2, <2>1 DEF Add, Call
    <2>4. [rev |-> {c}, ints |-> ints] \in Content
      BY DEF Content
    <2>5. TypeOK'
      BY <1>t, <2>1, <2>2, <2>3, <2>4, CallTyped
         DEF TypeOK, Write, GoTo, Enter, Step, ReadStep, SaveStep, Ended
    <2>6. ASSUME NEW d \in Caller PROVE InUse(d)'
      <3>1. CASE d = c
        BY <3>1, <1>t, <2>1, <2>2, <2>3, <2>4, CallTyped
           DEF InUse, Target, GoTo, Enter, Running, Step, ReadStep, SaveStep, TypeOK
      <3>2. CASE d # c
        <4>1. InUse(d)
          BY <1>t
        <4> QED BY <3>2, <4>1, <1>t, <2>1, <2>2, <2>3, CallTyped
                DEF InUse, Target, Top, GoTo, Running, TypeOK
      <3> QED BY <3>1, <3>2
    <2> QED BY <2>5, <2>6 DEF Inv
  <1>3. ASSUME NEW c \in Caller, ReadLost(c) PROVE Inv'
    <2>1. TypeOK'
      BY <1>3, <1>t DEF ReadLost, Retry, AfterLoss, memory, TypeOK, Ended
    <2>2. ASSUME NEW d \in Caller PROVE InUse(d)'
      <3>1. InUse(d)
        BY <1>t
      <3> QED BY <3>1, <1>3, <1>t DEF ReadLost, Retry, AfterLoss, memory, InUse, Target, Top,
                                      Running, Step, ReadStep, SaveStep, TypeOK
    <2> QED BY <2>1, <2>2 DEF Inv
  <1>4. ASSUME NEW c \in Caller, Refused(c) \/ Die(c) PROVE Inv'
    <2>1. /\ Turn(c, "failed") /\ write' = [write EXCEPT ![c] = None]
          /\ UNCHANGED <<doc, fallback, late, memory, met, wrote, overrun>>
      BY <1>4 DEF Refused, Die
    <2>2. TypeOK'
      BY <2>1, <1>t DEF Turn, memory, TypeOK, Ended
    <2>3. ASSUME NEW d \in Caller PROVE InUse(d)'
      <3>1. InUse(d)
        BY <1>t
      <3> QED BY <3>1, <2>1, <1>t DEF Turn, memory, InUse, Target, Top,
                                      Running, Step, ReadStep, SaveStep, TypeOK
    <2> QED BY <2>2, <2>3 DEF Inv
  <1>5. ASSUME NEW c \in Caller, SaveLost(c) PROVE Inv'
    <2>1. pc[c] \in SaveStep /\ write[c] \in [by: {c}, id: TxId, val: Content]
      BY <1>5, <1>t DEF SaveLost, InUse
    <2>2. write[c] \in Write /\ write[c].by = c
      BY <2>1 DEF Write
    <2>3. /\ pc' = [pc EXCEPT ![c] = AfterLoss(c)] /\ AfterLoss(c) \in {pc[c], "failed"}
          /\ tries' = [tries EXCEPT ![c] = @ + 1]
          /\ write' = [write EXCEPT ![c] = IF pc'[c] = "failed" THEN None ELSE @]
          /\ UNCHANGED <<fallback, memory, met, overrun>>
      BY <1>5 DEF SaveLost, Retry, AfterLoss
    <2>4. doc' \in [TxId -> Content \cup {None}] /\ wrote' \in [Caller -> SUBSET TxId]
      <3>1. write[c].id \in TxId /\ write[c].val \in Content
        BY <2>1
      <3>2. CASE TakeEffect(write[c])
        BY <3>1, <3>2, <2>2, <1>t DEF TakeEffect, TypeOK
      <3>3. CASE UNCHANGED <<doc, wrote>>
        BY <3>3, <1>t DEF TypeOK
      <3> QED BY <1>5, <3>2, <3>3 DEF SaveLost
    <2>5. late' \subseteq Write
      BY <1>5, <1>t, <2>2 DEF SaveLost, TypeOK
    <2>6. TypeOK'
      <3>1. /\ pc' \in [Caller -> {"idle"} \cup Step \cup Ended]
            /\ tries' \in [Caller -> Nat]
            /\ write' \in [Caller -> Write \cup {None}]
        BY <2>1, <2>2, <2>3, <1>t DEF TypeOK, Ended
      <3> QED BY <3>1, <2>3, <2>4, <2>5, <1>t DEF memory, TypeOK
    <2>7. ASSUME NEW d \in Caller PROVE InUse(d)'
      <3>1. InUse(d)
        BY <1>t
      <3>2. CASE d = c
        BY <3>1, <3>2, <2>1, <2>3, <1>t DEF memory, InUse, Target, Top,
                                    Running, Step, ReadStep, SaveStep, TypeOK
      <3>3. CASE d # c
        BY <3>1, <3>3, <2>3, <1>t DEF memory, InUse, Target, Top, Running, TypeOK
      <3> QED BY <3>2, <3>3
    <2> QED BY <2>6, <2>7 DEF Inv
  <1>6. ASSUME NEW c \in Caller, Got(c) PROVE Inv'
    <2> DEFINE t == Target(c)
    <2>1. pc[c] = "get" /\ t \in TxId /\ on[c] \in TxId
      BY <1>6, <1>t DEF Got, InUse, Running, Step, ReadStep
    <2>2. UNCHANGED <<doc, fallback, late, op, on, entity, write, met, wrote, overrun>>
      BY <1>6 DEF Got
    <2>3. CASE doc[t] = None
      <3>1. Turn(c, IF chain[c] = <<>> THEN "null" ELSE "check") /\ UNCHANGED chain
        BY <1>6, <2>3 DEF Got
      <3>2. TypeOK'
        BY <3>1, <2>2, <1>t DEF Turn, TypeOK, Step, ReadStep, SaveStep, Ended
      <3>3. ASSUME NEW d \in Caller PROVE InUse(d)'
        <4>1. InUse(d)
          BY <1>t
        <4> QED BY <4>1, <3>1, <2>1, <2>2, <1>t DEF Turn, InUse, Target, Top,
                                      Running, Step, ReadStep, SaveStep, TypeOK
      <3> QED BY <3>2, <3>3 DEF Inv
    <2>4. CASE doc[t] # None
      <3> DEFINE f == [id |-> t, data |-> doc[t]]
      <3>1. /\ chain' = [chain EXCEPT ![c] = Append(@, f)]
            /\ IF Previous[t] = None THEN Turn(c, "check") ELSE GoTo(c, "get")
        BY <1>6, <2>4 DEF Got
      <3>2. f \in Frame /\ f.id = t
        BY <2>1, <2>4, <1>t DEF Frame, TypeOK
      <3> HIDE DEF f
      <3>3. chain[c] \in Seq(Frame)
        BY <1>t DEF TypeOK
      <3>4. /\ chain'[c] \in Seq(Frame) /\ chain'[c] # <<>>
            /\ chain'[c][Len(chain'[c])] = f
            /\ chain' \in [Caller -> Seq(Frame)]
            /\ \A d \in Caller \ {c} : chain'[d] = chain[d]
        <4>1. chain'[c] = Append(chain[c], f)
          BY <3>1, <1>t DEF TypeOK
        <4>2. /\ Append(chain[c], f) \in Seq(Frame) /\ Append(chain[c], f) # <<>>
              /\ Append(chain[c], f)[Len(Append(chain[c], f))] = f
          BY <3>2, <3>3, PushedFrame
        <4> QED BY <4>1, <4>2, <3>1, <1>t DEF TypeOK
      <3>5. TypeOK'
        <4>1. /\ pc' \in [Caller -> {"idle"} \cup Step \cup Ended]
              /\ tries' \in [Caller -> Nat]
          <5>1. PICK step \in Step \cup Ended : /\ pc' = [pc EXCEPT ![c] = step]
                                               /\ tries' = [tries EXCEPT ![c] = 0]
            BY <3>1 DEF Turn, GoTo, Enter, Step, ReadStep, SaveStep, Ended
          <5> QED BY <5>1, <1>t DEF TypeOK
        <4> QED BY <4>1, <3>4, <2>2, <1>t DEF TypeOK
      <3>6. ASSUME NEW d \in Caller PROVE InUse(d)'
        <4>1. InUse(d)
          BY <1>t
        <4>2. CASE d # c
          BY <4>1, <4>2, <3>1, <3>4, <2>2, <1>t
             DEF Turn, GoTo, InUse, Target, Top, Running, TypeOK
        <4>3. CASE d = c /\ Previous[t] = None
          BY <4>1, <4>3, <3>1, <3>4, <2>1, <2>2, <1>t
             DEF Turn, InUse, Running, Step, ReadStep, SaveStep, TypeOK
        <4>4. CASE d = c /\ Previous[t] # None
          <5>1. Previous[t] \in TxId
            BY <4>4, <2>1, PreviousAssumption
          <5>2. Target(c)' = Previous[t]
            BY <3>2, <3>4 DEF Target, Top
          <5> QED BY <4>1, <4>4, <5>1, <5>2, <3>1, <3>4, <2>1, <2>2, <1>t
                  DEF GoTo, Enter, InUse, Running, Step, ReadStep, SaveStep, TypeOK
        <4> QED BY <4>2, <4>3, <4>4
      <3> QED BY <3>5, <3>6 DEF Inv
    <2> QED BY <2>3, <2>4
  <1>7. ASSUME NEW c \in Caller, Check(c) PROVE Inv'
    <2>1. /\ pc[c] = "check" /\ chain[c] # <<>> /\ on[c] \in TxId
          /\ UNCHANGED <<doc, fallback, late, op, on, write, met, wrote, overrun>>
      BY <1>7, <1>t DEF Check, InUse, Running, Step
    <2>2. CASE Top(c).data.ints = "even"
      <3>1. Finish(c, Top(c).data)
        BY <1>7, <2>2 DEF Check
      <3>2. Top(c).data \in Content
        BY <2>1, <1>t, TopIsFrame DEF Frame
      <3>3. /\ doc' \in [TxId -> Content \cup {None}] /\ wrote' \in [Caller -> SUBSET TxId]
            /\ pc[c] \notin SaveStep
        BY <2>1, <1>t DEF TypeOK, SaveStep
      <3> QED BY <2>1, <3>1, <3>2, <3>3, FinishInv
    <2>3. CASE Top(c).data.ints # "even"
      <3>1. GoTo(c, "query") /\ UNCHANGED <<chain, entity>>
        BY <1>7, <2>3 DEF Check
      <3>2. TypeOK'
        BY <3>1, <2>1, <1>t DEF GoTo, Enter, TypeOK, Step, ReadStep, SaveStep, Ended
      <3>3. ASSUME NEW d \in Caller PROVE InUse(d)'
        <4>1. InUse(d)
          BY <1>t
        <4> QED BY <4>1, <3>1, <2>1, <1>t DEF GoTo, Enter, InUse, Target, Top,
                                      Running, Step, ReadStep, SaveStep, TypeOK
      <3> QED BY <3>2, <3>3 DEF Inv
    <2> QED BY <2>2, <2>3
  <1>8. ASSUME NEW c \in Caller, Queried(c) PROVE Inv'
    <2> DEFINE f == Top(c)
    <2>1. /\ pc[c] = "query" /\ chain[c] # <<>> /\ on[c] \in TxId
          /\ UNCHANGED <<doc, fallback, late, op, on, met, wrote, overrun>>
      BY <1>8, <1>t DEF Queried, InUse, Running, Step, ReadStep
    <2>2. f \in Frame
      BY <2>1, <1>t, TopIsFrame
    <2>3. CASE fallback[f.id] = None
      <3>1. Finish(c, f.data) /\ UNCHANGED write
        BY <1>8, <2>3 DEF Queried
      <3>2. /\ doc' \in [TxId -> Content \cup {None}] /\ wrote' \in [Caller -> SUBSET TxId]
            /\ pc[c] \notin SaveStep /\ f.data \in Content
        BY <2>1, <2>2, <1>t DEF TypeOK, SaveStep, Frame
      <3> QED BY <2>1, <3>1, <3>2, FinishInv
    <2>4. CASE fallback[f.id] # None
      <3> DEFINE w == [by |-> c, id |-> f.id, val |-> Repaired(f.data, fallback[f.id])]
      <3>1. /\ write' = [write EXCEPT ![c] = w]
            /\ GoTo(c, "repair") /\ UNCHANGED <<chain, entity>>
        BY <1>8, <2>4 DEF Queried
      <3>2. w \in [by: {c}, id: TxId, val: Content] /\ w \in Write
        <4>1. f.id \in TxId /\ f.data \in Content /\ fallback[f.id] \in Interactions
          BY <2>2, <2>4, <1>t DEF Frame, TypeOK
        <4> HIDE DEF f
        <4>2. Repaired(f.data, fallback[f.id]) \in Content
          BY <4>1 DEF Repaired, Content
        <4> QED BY <4>1, <4>2 DEF Write
      <3> HIDE DEF w
      <3>3. TypeOK'
        BY <3>1, <3>2, <2>1, <1>t DEF GoTo, Enter, TypeOK, Step, ReadStep, SaveStep, Ended
      <3>4. ASSUME NEW d \in Caller PROVE InUse(d)'
        <4>1. InUse(d)
          BY <1>t
        <4>2. CASE d = c
          BY <4>1, <4>2, <3>1, <3>2, <2>1, <1>t DEF GoTo, Enter, InUse, Target, Top,
                                      Running, Step, ReadStep, SaveStep, TypeOK
        <4>3. CASE d # c
          BY <4>1, <4>3, <3>1, <2>1, <1>t DEF GoTo, InUse, Target, Top, Running, TypeOK
        <4> QED BY <4>2, <4>3
      <3> QED BY <3>3, <3>4 DEF Inv
    <2> QED BY <2>3, <2>4
  <1>9. ASSUME NEW c \in Caller, RepairSaved(c) PROVE Inv'
    <2>1. /\ pc[c] = "repair" /\ chain[c] # <<>> /\ on[c] \in TxId
          /\ write[c] \in [by: {c}, id: TxId, val: Content]
          /\ write' = [write EXCEPT ![c] = None]
          /\ TakeEffect(write[c]) /\ Finish(c, write[c].val)
          /\ UNCHANGED <<fallback, late, op, on, met, overrun>>
      BY <1>9, <1>t DEF RepairSaved, InUse, Running, Step, ReadStep, SaveStep
    <2>2. doc' \in [TxId -> Content \cup {None}] /\ wrote' \in [Caller -> SUBSET TxId]
      BY <2>1, <1>t DEF TakeEffect, TypeOK
    <2> QED BY <2>1, <2>2, FinishInv
  <1>10. ASSUME NEW c \in Caller, Change(c) PROVE Inv'
    <2>1. pc[c] = "change" /\ entity[c] \in Content /\ on[c] \in TxId
      BY <1>10, <1>t DEF Change, InUse, Running, Step
    <2>2. PICK e \in Content :
             /\ entity' = [entity EXCEPT ![c] = e]
             /\ write' = [write EXCEPT ![c] = [by |-> c, id |-> on[c], val |-> e]]
      <3>1. PICK ints \in Interactions :
               LET changed == [rev |-> entity[c].rev \cup {c}, ints |-> ints]
               IN  /\ entity' = [entity EXCEPT ![c] = changed]
                   /\ write' = [write EXCEPT ![c] = [by |-> c, id |-> on[c], val |-> changed]]
        BY <1>10 DEF Change
      <3>2. [rev |-> entity[c].rev \cup {c}, ints |-> ints] \in Content
        BY <2>1, <3>1 DEF Content
      <3> QED BY <3>1, <3>2
    <2>3. GoTo(c, "set") /\ UNCHANGED <<doc, fallback, late, op, on, chain, met, wrote, overrun>>
      BY <1>10 DEF Change
    <2>4. TypeOK'
      BY <2>1, <2>2, <2>3, <1>t DEF Write, GoTo, Enter, TypeOK, Step, ReadStep, SaveStep, Ended
    <2>5. ASSUME NEW d \in Caller PROVE InUse(d)'
      <3>1. InUse(d)
        BY <1>t
      <3>2. CASE d = c
        BY <3>1, <3>2, <2>1, <2>2, <2>3, <1>t DEF GoTo, Enter, InUse, Target, Top,
                                      Running, Step, ReadStep, SaveStep, TypeOK
      <3>3. CASE d # c
        BY <3>1, <3>3, <2>2, <2>3, <1>t DEF GoTo, InUse, Target, Top, Running, TypeOK
      <3> QED BY <3>2, <3>3
    <2> QED BY <2>4, <2>5 DEF Inv
  <1>11. ASSUME NEW c \in Caller, Saved(c) PROVE Inv'
    <2>1. /\ pc[c] = "set" /\ on[c] \in TxId
          /\ write[c] \in [by: {c}, id: TxId, val: Content]
          /\ write' = [write EXCEPT ![c] = None]
          /\ TakeEffect(write[c]) /\ Turn(c, "saved")
          /\ UNCHANGED <<fallback, late, memory, met, overrun>>
      BY <1>11, <1>t DEF Saved, InUse, Running, Step, ReadStep, SaveStep
    <2>2. doc' \in [TxId -> Content \cup {None}] /\ wrote' \in [Caller -> SUBSET TxId]
      BY <2>1, <1>t DEF TakeEffect, TypeOK
    <2>3. TypeOK'
      BY <2>1, <2>2, <1>t DEF memory, Turn, TypeOK, Ended
    <2>4. ASSUME NEW d \in Caller PROVE InUse(d)'
      <3>1. InUse(d)
        BY <1>t
      <3> QED BY <3>1, <2>1, <1>t DEF memory, Turn, InUse, Target, Top,
                                      Running, Step, ReadStep, SaveStep, TypeOK
    <2> QED BY <2>3, <2>4 DEF Inv
  <1>12. ASSUME NEW w \in late, Land(w) PROVE Inv'
    <2>1. w \in Write
      BY <1>t DEF TypeOK
    <2>2. TypeOK'
      BY <2>1, <1>12, <1>t DEF Land, TakeEffect, memory, Write, TypeOK
    <2>3. ASSUME NEW d \in Caller PROVE InUse(d)'
      <3>1. InUse(d)
        BY <1>t
      <3> QED BY <3>1, <1>12 DEF Land, memory, InUse, Target, Top, Running
    <2> QED BY <2>2, <2>3 DEF Inv
  <1>13. CASE UNCHANGED vars
    BY <1>13, <1>t DEF vars, memory, Inv, TypeOK, InUse, Target, Top, Running
  <1> QED BY <1>1, <1>2, <1>3, <1>4, <1>5, <1>6, <1>7, <1>8, <1>9, <1>10, <1>11, <1>12, <1>13
          DEF Next, Proceed

\* Type correctness, with what the steps of a call rely on.
THEOREM TypeCorrect == Spec => []TypeOK
  <1>1. Inv => TypeOK
    BY DEF Inv
  <1> QED BY <1>1, InitInv, StepInv, PTL DEF Spec

-----------------------------------------------------------------------------
(* The refinement. *)

Told == {c \in Caller : pc[c] = "saved"}

\* No step but Saved tells a caller that its save is done.
LEMMA ToldNothing ==
    ASSUME TypeOK, NEW c \in Caller, NEW step, step # "saved", pc[c] # "saved",
           pc' = [pc EXCEPT ![c] = step]
    PROVE  Told' = Told
  BY DEF Told, TypeOK

LEMMA InitRefines == Attempts > 0 /\ Init => Store!Init
  <1> SUFFICES ASSUME Init PROVE Store!Init
    OBVIOUS
  <1>1. doc \in [TxId -> Content \cup {None}]
    BY InitInv DEF Inv, TypeOK
  <1> QED BY <1>1 DEF Init, Store!Init

LEMMA StepRefines ==
    ASSUME Attempts > 0, Inv, [Next]_vars
    PROVE  [Store!Next]_(Store!vars)
  <1>t. TypeOK /\ \A c \in Caller : InUse(c)
    BY DEF Inv
  <1>w. Store!Write = Write
    BY DEF Store!Write, Write
  <1> USE DEF Told
  <1>1. ASSUME NEW c \in Caller, NEW t \in TxId, Find(c, t) PROVE UNCHANGED Store!vars
    <2>1. /\ UNCHANGED <<doc, late, write>> /\ pc[c] = "idle"
          /\ pc' = [pc EXCEPT ![c] = "get"]
      BY <1>1 DEF Find, Call, GoTo, Enter
    <2>2. Told' = Told
      BY <2>1, <1>t, ToldNothing
    <2> QED BY <2>1, <2>2 DEF Store!vars
  <1>2. ASSUME NEW c \in Caller, NEW t \in TxId, Add(c, t) PROVE Store!Next
    <2>1. PICK ints \in Interactions :
             write' = [write EXCEPT ![c] =
                         [by |-> c, id |-> t, val |-> [rev |-> {c}, ints |-> ints]]]
      BY <1>2 DEF Add
    <2> DEFINE w == [by |-> c, id |-> t, val |-> [rev |-> {c}, ints |-> ints]]
    <2>2. /\ UNCHANGED <<doc, late>> /\ pc[c] = "idle"
          /\ pc' = [pc EXCEPT ![c] = "set"]
      BY <1>2 DEF Add, Call, GoTo, Enter
    <2>3. Told' = Told
      BY <2>2, <1>t, ToldNothing
    <2>4. w \in Write /\ w.by = c
      BY DEF Write, Content
    <2>5. write[c] = None
      BY <2>2, <1>t DEF InUse, SaveStep
    <2> HIDE DEF w
    <2>6. Store!Begin(w)
      BY <2>1, <2>2, <2>3, <2>4, <2>5 DEF Store!Begin, w
    <2> QED BY <2>4, <2>6, <1>w DEF Store!Next
  <1>3. ASSUME NEW c \in Caller, ReadLost(c) PROVE UNCHANGED Store!vars
    <2>1. /\ UNCHANGED <<doc, late, write>> /\ pc[c] \in ReadStep
          /\ pc' = [pc EXCEPT ![c] = AfterLoss(c)]
      BY <1>3 DEF ReadLost, Retry
    <2>2. AfterLoss(c) # "saved"
      BY <2>1 DEF AfterLoss, ReadStep
    <2>3. Told' = Told
      BY <2>1, <2>2, <1>t, ToldNothing DEF ReadStep
    <2> QED BY <2>1, <2>3 DEF Store!vars
  <1>4. ASSUME NEW c \in Caller, Refused(c) \/ Die(c) PROVE [Store!Next]_(Store!vars)
    <2>1. /\ pc' = [pc EXCEPT ![c] = "failed"] /\ write' = [write EXCEPT ![c] = None]
          /\ UNCHANGED <<doc, late>> /\ pc[c] # "saved"
      BY <1>4 DEF Refused, Die, Turn, Running, Step, ReadStep, SaveStep
    <2>2. Told' = Told
      BY <2>1, <1>t, ToldNothing
    <2>3. CASE pc[c] \in SaveStep
      <3>1. write[c] # None
        BY <2>3, <1>t, NoneIsNoWrite DEF InUse, Write
      <3>2. Store!Attempt(c)
        BY <2>1, <2>2, <3>1 DEF Store!Attempt
      <3> QED BY <3>2 DEF Store!Next
    <2>4. CASE pc[c] \notin SaveStep
      <3>1. write[c] = None /\ write \in [Caller -> Write \cup {None}]
        BY <2>4, <1>t DEF InUse, TypeOK
      <3>2. write' = write
        BY <2>1, <3>1
      <3> QED BY <2>1, <2>2, <3>2 DEF Store!vars
    <2> QED BY <2>3, <2>4
  <1>5. ASSUME NEW c \in Caller, SaveLost(c) PROVE Store!Next
    <2>1. /\ pc[c] \in SaveStep /\ write[c] \in [by: {c}, id: TxId, val: Content]
          /\ pc' = [pc EXCEPT ![c] = AfterLoss(c)]
      BY <1>5, <1>t DEF SaveLost, Retry, InUse
    <2>2. AfterLoss(c) # "saved"
      BY <2>1 DEF AfterLoss, SaveStep
    <2>3. Told' = Told
      BY <2>1, <2>2, <1>t, ToldNothing DEF SaveStep
    <2>4. write[c] # None
      BY <2>1, NoneIsNoWrite DEF Write
    <2>5. write' \in {write, [write EXCEPT ![c] = None]}
      <3>1. write \in [Caller -> Write \cup {None}]
        BY <1>t DEF TypeOK
      <3>2. write' = [write EXCEPT ![c] = IF pc'[c] = "failed" THEN None ELSE @]
        BY <1>5 DEF SaveLost
      <3> QED BY <3>1, <3>2
    <2>6. /\ late' \in {late, late \cup {write[c]}}
          /\ Store!TakeEffect(write[c]) \/ UNCHANGED doc
      BY <1>5 DEF SaveLost, TakeEffect, Store!TakeEffect
    <2>7. Store!Attempt(c)
      BY <2>3, <2>4, <2>5, <2>6 DEF Store!Attempt
    <2> QED BY <2>7 DEF Store!Next
  <1>6. ASSUME NEW c \in Caller, Got(c) PROVE UNCHANGED Store!vars
    <2>1. /\ UNCHANGED <<doc, late, write>> /\ pc[c] = "get"
          /\ \E step \in {"null", "check", "get"} : pc' = [pc EXCEPT ![c] = step]
      BY <1>6 DEF Got, Turn, GoTo, Enter
    <2>2. Told' = Told
      BY <2>1, <1>t, ToldNothing
    <2> QED BY <2>1, <2>2 DEF Store!vars
  <1>7. ASSUME NEW c \in Caller, Check(c) PROVE UNCHANGED Store!vars
    <2>1. /\ UNCHANGED <<doc, late, write>> /\ pc[c] = "check"
          /\ \E step \in {"check", "found", "change", "query"} : pc' = [pc EXCEPT ![c] = step]
      BY <1>7 DEF Check, Finish, Turn, GoTo, Enter
    <2>2. Told' = Told
      BY <2>1, <1>t, ToldNothing
    <2> QED BY <2>1, <2>2 DEF Store!vars
  <1>8. ASSUME NEW c \in Caller, Queried(c) PROVE [Store!Next]_(Store!vars)
    <2> DEFINE f == Top(c)
    <2>1. /\ UNCHANGED <<doc, late>> /\ pc[c] = "query"
          /\ \E step \in {"check", "found", "change", "repair"} : pc' = [pc EXCEPT ![c] = step]
      BY <1>8 DEF Queried, Finish, Turn, GoTo, Enter
    <2>2. Told' = Told
      BY <2>1, <1>t, ToldNothing
    <2>3. CASE fallback[f.id] = None
      <3>1. UNCHANGED write
        BY <1>8, <2>3 DEF Queried
      <3> QED BY <2>1, <2>2, <3>1 DEF Store!vars
    <2>4. CASE fallback[f.id] # None
      <3> DEFINE w == [by |-> c, id |-> f.id, val |-> Repaired(f.data, fallback[f.id])]
      <3>1. write' = [write EXCEPT ![c] = w] /\ w.by = c
        BY <1>8, <2>4 DEF Queried
      <3>2. write[c] = None
        BY <2>1, <1>t DEF InUse, SaveStep
      <3>3. w \in Write
        <4>1. chain[c] # <<>>
          BY <2>1, <1>t DEF InUse
        <4>2. f \in Frame
          BY <4>1, <1>t, TopIsFrame
        <4>3. f.id \in TxId /\ f.data \in Content /\ fallback[f.id] \in Interactions
          BY <4>2, <2>4, <1>t DEF Frame, TypeOK
        <4> HIDE DEF f
        <4>4. Repaired(f.data, fallback[f.id]) \in Content
          BY <4>3 DEF Repaired, Content
        <4> QED BY <4>3, <4>4 DEF Write
      <3> HIDE DEF w
      <3>4. Store!Begin(w)
        BY <2>1, <2>2, <3>1, <3>2 DEF Store!Begin
      <3> QED BY <3>3, <3>4, <1>w DEF Store!Next
    <2> QED BY <2>3, <2>4
  <1>9. ASSUME NEW c \in Caller, RepairSaved(c) PROVE Store!Next
    <2>1. /\ pc[c] = "repair" /\ write' = [write EXCEPT ![c] = None]
          /\ Store!TakeEffect(write[c]) /\ UNCHANGED late
          /\ \E step \in {"check", "found", "change"} : pc' = [pc EXCEPT ![c] = step]
      BY <1>9 DEF RepairSaved, Finish, Turn, TakeEffect, Store!TakeEffect
    <2>2. Told' = Told
      BY <2>1, <1>t, ToldNothing
    <2>3. write[c] # None
      BY <2>1, <1>t, NoneIsNoWrite DEF InUse, SaveStep, Write
    <2>4. Store!Acknowledge(c)
      BY <2>1, <2>2, <2>3 DEF Store!Acknowledge
    <2> QED BY <2>4 DEF Store!Next
  <1>10. ASSUME NEW c \in Caller, Change(c) PROVE Store!Next
    <2>1. PICK ints \in Interactions :
             write' = [write EXCEPT ![c] =
               [by |-> c, id |-> on[c],
                val |-> [rev |-> entity[c].rev \cup {c}, ints |-> ints]]]
      BY <1>10 DEF Change
    <2> DEFINE w == [by |-> c, id |-> on[c],
                     val |-> [rev |-> entity[c].rev \cup {c}, ints |-> ints]]
    <2>2. /\ UNCHANGED <<doc, late>> /\ pc[c] = "change"
          /\ pc' = [pc EXCEPT ![c] = "set"]
      BY <1>10 DEF Change, GoTo, Enter
    <2>3. Told' = Told
      BY <2>2, <1>t, ToldNothing
    <2>4. w \in Write /\ w.by = c /\ write[c] = None
      BY <2>2, <1>t DEF Write, Content, InUse, Running, Step, SaveStep
    <2> HIDE DEF w
    <2>5. Store!Begin(w)
      BY <2>1, <2>2, <2>3, <2>4 DEF Store!Begin, w
    <2> QED BY <2>4, <2>5, <1>w DEF Store!Next
  <1>11. ASSUME NEW c \in Caller, Saved(c) PROVE Store!Next
    <2>1. /\ pc[c] = "set" /\ write' = [write EXCEPT ![c] = None]
          /\ Store!TakeEffect(write[c]) /\ UNCHANGED late
          /\ pc' = [pc EXCEPT ![c] = "saved"]
      BY <1>11 DEF Saved, Turn, TakeEffect, Store!TakeEffect
    <2>2. Told' = Told \cup {c}
      BY <2>1, <1>t DEF TypeOK
    <2>3. write[c] # None
      BY <2>1, <1>t, NoneIsNoWrite DEF InUse, SaveStep, Write
    <2>4. Store!Acknowledge(c)
      BY <2>1, <2>2, <2>3 DEF Store!Acknowledge
    <2> QED BY <2>4 DEF Store!Next
  <1>12. ASSUME NEW w \in late, Land(w) PROVE Store!Next
    <2>1. Store!Land(w)
      BY <1>12 DEF Land, TakeEffect, memory, Store!Land, Store!TakeEffect
    <2> QED BY <2>1 DEF Store!Next
  <1>13. CASE UNCHANGED vars
    BY <1>13 DEF vars, Store!vars
  <1> QED BY <1>1, <1>2, <1>3, <1>4, <1>5, <1>6, <1>7, <1>8, <1>9, <1>10, <1>11, <1>12, <1>13
          DEF Next, Proceed

\* findById, add and update, with their retries, their repair of documents and
\* their lost and late attempts, keep what DocumentStore promises the handlers:
\* a document only ever takes the value of a save under way or given up on, and
\* holds the value saved at the moment a caller is told that its save is done.
THEOREM StoreImplemented == Attempts > 0 => (Spec => StoreSpec)
  <1> SUFFICES ASSUME Attempts > 0 PROVE Spec => StoreSpec
    OBVIOUS
  <1>1. Init => Store!Init
    BY InitRefines
  <1>2. Inv /\ [Next]_vars => [Store!Next]_(Store!vars)
    BY StepRefines
  <1> QED BY <1>1, <1>2, InitInv, StepInv, PTL DEF Spec, StoreSpec, Store!Spec

-----------------------------------------------------------------------------
(* What a call has in hand.                                                *)

\* The snapshots of findById.
Held(c) == {chain[c][i] : i \in DOMAIN chain[c]}

\* The ids and contents a call works with belong together.
Linked(c) ==
    /\ pc[c] # "idle" => on[c] \in TxId
    /\ chain[c] # <<>> => chain[c][1].id = on[c]
    /\ pc[c] \in {"change", "set"} => chain[c] = <<>>
    /\ pc[c] = "query" => Top(c).data.ints # "even"
    /\ pc[c] = "repair" =>
          /\ Top(c).data.ints # "even" /\ fallback[Top(c).id] # None
          /\ write[c].id = Top(c).id
          /\ write[c].val = Repaired(Top(c).data, fallback[Top(c).id])
    /\ pc[c] = "set" => write[c].id = on[c] /\ c \in write[c].val.rev

\* Calls that run at one time have met.
Meeting(c, d) == c # d /\ Running(c) /\ Running(d) => d \in met[c]

\* The document of t is as it was read, or repaired since by the call itself.
AsRead(t, data) ==
    \/ doc[t] = data
    \/ data.ints # "even" /\ fallback[t] # None /\ doc[t] = Repaired(data, fallback[t])

\* A call that is alone reads what is stored.
Reads(c) ==
    Running(c) /\ met[c] = {} /\ c \notin overrun =>
        \A f \in Held(c) : f.id = on[c] => AsRead(f.id, f.data)

\* A saved call that no save of a call it met, nor a late one, may have undone.
Acked(c) ==
    pc[c] = "saved" /\ c \notin overrun /\ \A d \in met[c] : on[c] \notin wrote[d]

\* What d read or is about to save of the document of c has the change of c.
BuildsOn(d, c) ==
    /\ \A f \in Held(d) : f.id = on[c] => c \in f.data.rev
    /\ pc[d] = "change" /\ on[d] = on[c] => c \in entity[d].rev
    /\ pc[d] \in SaveStep /\ write[d].id = on[c] => c \in write[d].val.rev

\* Calls that began after c was told its save is done build on it.
Survives(c) ==
    Acked(c) =>
        /\ doc[on[c]] # None /\ c \in doc[on[c]].rev
        /\ \A d \in Caller : Running(d) /\ d \notin met[c] => BuildsOn(d, c)

CallsInv == \A c \in Caller : Linked(c) /\ Reads(c) /\ \A d \in Caller : Meeting(c, d)

LEMMA FramesHeld ==
    ASSUME TypeOK, NEW c \in Caller
    PROVE  /\ Held(c) \subseteq Frame
           /\ chain[c] = <<>> => Held(c) = {}
           /\ chain[c] # <<>> => Top(c) \in Held(c)
  <1>1. chain[c] \in Seq(Frame)
    BY DEF TypeOK
  <1>2. Held(c) \subseteq Frame
    BY <1>1 DEF Held
  <1>3. chain[c] = <<>> => DOMAIN chain[c] = {}
    OBVIOUS
  <1>4. chain[c] # <<>> => Len(chain[c]) \in DOMAIN chain[c]
    BY <1>1
  <1> QED BY <1>2, <1>3, <1>4 DEF Held, Top

\* A snapshot read is added to those held, the first one stays the first.
LEMMA HeldAfterRead ==
    ASSUME NEW s \in Seq(Frame), NEW f \in Frame
    PROVE  /\ \A i \in DOMAIN Append(s, f) : Append(s, f)[i] = f \/ \E j \in DOMAIN s : Append(s, f)[i] = s[j]
           /\ Append(s, f)[1] = IF s = <<>> THEN f ELSE s[1]
  <1>1. Len(Append(s, f)) = Len(s) + 1 /\ Len(s) \in Nat
    OBVIOUS
  <1>2. \A i \in 1..Len(s) : Append(s, f)[i] = s[i]
    OBVIOUS
  <1>3. Append(s, f)[Len(s) + 1] = f
    OBVIOUS
  <1>4. DOMAIN Append(s, f) = 1..(Len(s) + 1) /\ DOMAIN s = 1..Len(s)
    OBVIOUS
  <1>5. \A i \in 1..(Len(s) + 1) : i = Len(s) + 1 \/ i \in 1..Len(s)
    BY <1>1
  <1>6. s = <<>> => Len(s) = 0
    OBVIOUS
  <1>7. s # <<>> => 1 \in 1..Len(s)
    BY <1>1
  <1> QED BY <1>2, <1>3, <1>4, <1>5, <1>6, <1>7

LEMMA HeldAfterPop ==
    ASSUME NEW s \in Seq(Frame), Len(s) > 1
    PROVE  LET p == SubSeq(s, 1, Len(s) - 1)
           IN  /\ p # <<>> /\ p[1] = s[1]
               /\ \A i \in DOMAIN p : i \in DOMAIN s /\ p[i] = s[i]
  <1> DEFINE n == Len(s) - 1
             p == SubSeq(s, 1, n)
  <1>1. n \in Nat /\ n >= 1
    OBVIOUS
  <1>2. Len(p) = n /\ DOMAIN p = 1..n /\ DOMAIN s = 1..Len(s)
    BY <1>1
  <1>3. \A i \in 1..n : p[i] = s[i]
    BY <1>1
  <1>4. \A i \in 1..n : i \in 1..Len(s)
    OBVIOUS
  <1>5. p # <<>>
    <2>1. Len(p) # 0
      BY <1>1, <1>2
    <2> HIDE DEF p
    <2> QED BY <2>1
  <1> QED BY <1>1, <1>2, <1>3, <1>4, <1>5

\* What findById does when it is done with a document.
LEMMA FinishHeld ==
    ASSUME TypeOK, NEW c \in Caller, NEW data \in Content, Linked(c),
           chain[c] # <<>>, Finish(c, data), on' = on, on[c] \in TxId
    PROVE  /\ Held(c)' \subseteq Held(c) /\ Linked(c)'
           /\ pc'[c] \in {"check", "found", "change"}
           /\ pc'[c] \in {"found", "change"} =>
                 /\ Top(c) \in Held(c) /\ Top(c).id = on[c] /\ entity'[c] = data
           /\ \A d \in Caller \ {c} : pc'[d] = pc[d] /\ chain'[d] = chain[d] /\ entity'[d] = entity[d]
  <1>1. chain[c] \in Seq(Frame) /\ Len(chain[c]) \in Nat \ {0}
    BY TopIsFrame DEF TypeOK
  <1>2. CASE Len(chain[c]) > 1
    <2>1. /\ chain' = [chain EXCEPT ![c] = Below(c)]
          /\ pc' = [pc EXCEPT ![c] = "check"] /\ entity' = entity
      BY <1>2 DEF Finish, Turn
    <2>2. chain'[c] = Below(c) /\ pc'[c] = "check"
      BY <2>1 DEF TypeOK
    <2>3. /\ chain'[c] # <<>> /\ chain'[c][1] = chain[c][1]
          /\ \A i \in DOMAIN chain'[c] : i \in DOMAIN chain[c] /\ chain'[c][i] = chain[c][i]
      BY <1>1, <1>2, <2>2, HeldAfterPop DEF Below
    <2>4. Held(c)' \subseteq Held(c)
      BY <2>3 DEF Held
    <2>5. Linked(c)'
      BY <2>2, <2>3 DEF Linked
    <2> QED BY <2>1, <2>2, <2>4, <2>5 DEF TypeOK
  <1>3. CASE ~(Len(chain[c]) > 1)
    <2>1. /\ chain' = [chain EXCEPT ![c] = <<>>] /\ entity' = [entity EXCEPT ![c] = data]
          /\ pc' = [pc EXCEPT ![c] = IF op[c] = "find" THEN "found" ELSE "change"]
      BY <1>3 DEF Finish, Turn
    <2>2. chain'[c] = <<>> /\ entity'[c] = data /\ pc'[c] \in {"found", "change"}
      BY <2>1 DEF TypeOK
    <2>3. Held(c)' = {}
      <3>1. DOMAIN (chain'[c]) = {}
        BY <2>2
      <3> QED BY <3>1 DEF Held
    <2>4. Linked(c)'
      BY <2>2 DEF Linked
    <2>5. Len(chain[c]) = 1
      <3>1. PICK n \in Nat \ {0} : n = Len(chain[c])
        BY <1>1
      <3>2. ~(n > 1)
        BY <1>3, <3>1
      <3>3. n = 1
        BY <3>2
      <3> QED BY <3>1, <3>3
    <2>6. Top(c).id = on[c]
      BY <2>5 DEF Top, Linked
    <2> QED BY <2>1, <2>2, <2>3, <2>4, <2>6, FramesHeld DEF TypeOK
  <1> QED BY <1>2, <1>3

-----------------------------------------------------------------------------
(* One step of a running call, seen from the documents and from the others. *)

Moves(c) ==
    /\ Running(c) /\ on' = on /\ met' = met /\ overrun' = overrun /\ fallback' = fallback
    /\ \A d \in Caller \ {c} :
          pc'[d] = pc[d] /\ chain'[d] = chain[d] /\ entity'[d] = entity[d] /\ write'[d] = write[d]
    /\ \/ /\ doc' = doc /\ wrote' = wrote
          /\ \A f \in Held(c)' : f \in Held(c) \/ (f.data = doc[f.id] /\ doc[f.id] # None)
       \/ pc[c] \in SaveStep /\ TakeEffect(write[c]) /\ Held(c)' \subseteq Held(c)
    /\ Linked(c)'
    /\ pc'[c] = "change" => \E f \in Held(c) : f.id = on[c] /\ entity'[c].rev = f.data.rev
    /\ pc'[c] \in SaveStep =>
          \/ pc[c] \in SaveStep /\ write'[c] = write[c]
          \/ \E f \in Held(c) : write'[c].id = f.id /\ write'[c].val.rev = f.data.rev
          \/ pc[c] = "change" /\ write'[c].id = on[c] /\ entity[c].rev \subseteq write'[c].val.rev
    /\ Attempts > 0 /\ pc'[c] = "saved" => pc[c] = "set" /\ TakeEffect(write[c])
    /\ pc'[c] = "found" => \E f \in Held(c) :
          /\ f.id = on[c]
          /\ \/ doc' = doc /\ entity'[c] = f.data /\ (f.data.ints = "even" \/ fallback[f.id] = None)
             \/ pc[c] \in SaveStep /\ TakeEffect(write[c]) /\ write[c].id = f.id
                /\ entity'[c] = write[c].val

\* A call that ends or tries again.
LEMMA TriesMove ==
    ASSUME Inv, NEW c \in Caller, Linked(c), Running(c),
           pc' = [pc EXCEPT ![c] = pc'[c]], pc'[c] \in {pc[c], "failed"}, pc'[c] # "change",
           memory' = memory, met' = met, overrun' = overrun, fallback' = fallback,
           write' = [write EXCEPT ![c] = IF pc'[c] = "failed" THEN None ELSE @] \/ write' = write,
           \/ doc' = doc /\ wrote' = wrote
           \/ pc[c] \in SaveStep /\ TakeEffect(write[c])
    PROVE  Moves(c)
  <1>1. TypeOK
    BY DEF Inv
  <1>2. on' = on /\ chain' = chain /\ entity' = entity
    BY DEF memory
  <1>3. Held(c)' = Held(c) /\ Top(c)' = Top(c)
    BY <1>2 DEF Held, Top
  <1>4. pc'[c] # "failed" => pc'[c] = pc[c] /\ write'[c] = write[c]
    BY <1>1 DEF TypeOK
  <1>5. Linked(c)'
    BY <1>2, <1>3, <1>4 DEF Linked, Running, Step, ReadStep, SaveStep
  <1>6. \A d \in Caller \ {c} : pc'[d] = pc[d] /\ write'[d] = write[d]
    BY <1>1 DEF TypeOK
  <1>7. pc'[c] \notin {"saved", "found"}
    BY DEF Running, Step, ReadStep, SaveStep
  <1>8. pc'[c] \in SaveStep => pc[c] \in SaveStep /\ write'[c] = write[c]
    BY <1>4 DEF SaveStep
  <1> QED BY <1>2, <1>3, <1>5, <1>6, <1>7, <1>8 DEF Moves

LEMMA ReadLostMoves ==
    ASSUME Inv, NEW c \in Caller, Linked(c), ReadLost(c)
    PROVE  Moves(c)
  <1>1. TypeOK /\ Running(c) /\ pc[c] # "change"
    BY DEF Inv, ReadLost, Running, Step, ReadStep
  <1>2. pc' = [pc EXCEPT ![c] = AfterLoss(c)] /\ AfterLoss(c) \in {pc[c], "failed"}
    BY DEF ReadLost, Retry, AfterLoss
  <1>3. pc' = [pc EXCEPT ![c] = pc'[c]] /\ pc'[c] \in {pc[c], "failed"} /\ pc'[c] # "change"
    BY <1>1, <1>2 DEF TypeOK
  <1>4. UNCHANGED <<doc, fallback, late, memory, write, met, wrote, overrun>>
    BY DEF ReadLost
  <1> QED BY <1>1, <1>3, <1>4, TriesMove

LEMMA EndsMove ==
    ASSUME Inv, NEW c \in Caller, Linked(c), Refused(c) \/ Die(c)
    PROVE  Moves(c)
  <1>1. TypeOK /\ Running(c)
    BY DEF Inv, Refused, Die, Running, Step
  <1>2. /\ pc' = [pc EXCEPT ![c] = "failed"] /\ write' = [write EXCEPT ![c] = None]
        /\ UNCHANGED <<doc, fallback, late, memory, met, wrote, overrun>>
    BY DEF Refused, Die, Turn
  <1>3. pc'[c] = "failed" /\ pc' = [pc EXCEPT ![c] = pc'[c]]
    BY <1>1, <1>2 DEF TypeOK
  <1>4. write' = [write EXCEPT ![c] = IF pc'[c] = "failed" THEN None ELSE @]
    BY <1>2, <1>3
  <1> QED BY <1>1, <1>2, <1>3, <1>4, TriesMove

LEMMA SaveLostMoves ==
    ASSUME Inv, NEW c \in Caller, Linked(c), SaveLost(c)
    PROVE  Moves(c)
  <1>1. TypeOK /\ Running(c) /\ pc[c] # "change" /\ pc[c] \in SaveStep
    BY DEF Inv, SaveLost, Running, Step, SaveStep
  <1>2. pc' = [pc EXCEPT ![c] = AfterLoss(c)] /\ AfterLoss(c) \in {pc[c], "failed"}
    BY DEF SaveLost, Retry, AfterLoss
  <1>3. pc' = [pc EXCEPT ![c] = pc'[c]] /\ pc'[c] \in {pc[c], "failed"} /\ pc'[c] # "change"
    BY <1>1, <1>2 DEF TypeOK
  <1>4. /\ UNCHANGED <<fallback, memory, met, overrun>>
        /\ write' = [write EXCEPT ![c] = IF pc'[c] = "failed" THEN None ELSE @]
        /\ TakeEffect(write[c]) \/ (doc' = doc /\ wrote' = wrote)
    BY DEF SaveLost
  <1> QED BY <1>1, <1>3, <1>4, TriesMove

LEMMA GotMoves ==
    ASSUME Inv, NEW c \in Caller, Linked(c), Got(c)
    PROVE  Moves(c)
  <1> DEFINE t == Target(c)
  <1>1. TypeOK /\ Running(c) /\ pc[c] = "get" /\ on[c] \in TxId /\ t \in TxId
    BY DEF Inv, InUse, Got, Running, Step, ReadStep
  <1>2. UNCHANGED <<doc, fallback, late, op, on, entity, write, met, wrote, overrun>>
    BY DEF Got
  <1>3. CASE doc[t] = None
    <2>1. chain' = chain /\ pc' = [pc EXCEPT ![c] = IF chain[c] = <<>> THEN "null" ELSE "check"]
      BY <1>3 DEF Got, Turn
    <2>2. Held(c)' = Held(c)
      BY <2>1 DEF Held
    <2>3. pc'[c] \in {"null", "check"} /\ \A d \in Caller \ {c} : pc'[d] = pc[d]
      BY <1>1, <2>1 DEF TypeOK
    <2>4. Linked(c)'
      BY <1>1, <1>2, <2>1, <2>3 DEF Linked
    <2> QED BY <1>1, <1>2, <2>1, <2>2, <2>3, <2>4 DEF Moves, SaveStep
  <1>4. CASE doc[t] # None
    <2> DEFINE f == [id |-> t, data |-> doc[t]]
    <2>1. /\ chain' = [chain EXCEPT ![c] = Append(@, f)]
          /\ IF Previous[t] = None THEN Turn(c, "check") ELSE GoTo(c, "get")
      BY <1>4 DEF Got
    <2>2. f \in Frame /\ f.id = t /\ f.data = doc[f.id] /\ doc[f.id] # None
          /\ (chain[c] = <<>> => f.id = on[c])
      BY <1>1, <1>4 DEF Frame, TypeOK, Target
    <2> HIDE DEF f
    <2>3. chain[c] \in Seq(Frame) /\ chain'[c] = Append(chain[c], f)
          /\ \A d \in Caller \ {c} : chain'[d] = chain[d]
      BY <1>1, <2>1 DEF TypeOK
    <2>4. /\ \A i \in DOMAIN (chain'[c]) : chain'[c][i] = f \/ \E j \in DOMAIN (chain[c]) : chain'[c][i] = chain[c][j]
          /\ chain'[c][1] = IF chain[c] = <<>> THEN f ELSE chain[c][1]
      BY <2>2, <2>3, HeldAfterRead
    <2>5. \A g \in Held(c)' : g \in Held(c) \/ g = f
      BY <2>4 DEF Held
    <2>6. pc'[c] \in {"check", "get", "failed"} /\ \A d \in Caller \ {c} : pc'[d] = pc[d]
      BY <1>1, <2>1 DEF Turn, GoTo, Enter, TypeOK
    <2>7. Linked(c)'
      BY <1>1, <1>2, <2>2, <2>4, <2>6 DEF Linked
    <2> QED BY <1>1, <1>2, <2>2, <2>3, <2>5, <2>6, <2>7 DEF Moves, SaveStep
  <1> QED BY <1>3, <1>4

LEMMA CheckMoves ==
    ASSUME Inv, NEW c \in Caller, Linked(c), Check(c)
    PROVE  Moves(c)
  <1>1. TypeOK /\ Running(c) /\ pc[c] = "check" /\ on[c] \in TxId /\ chain[c] # <<>>
    BY DEF Inv, InUse, Check, Running, Step
  <1>2. UNCHANGED <<doc, fallback, late, op, on, write, met, wrote, overrun>>
    BY DEF Check
  <1>3. Top(c) \in Held(c) /\ Top(c).data \in Content
    BY <1>1, FramesHeld DEF Frame
  <1>4. CASE Top(c).data.ints = "even"
    <2>1. Finish(c, Top(c).data)
      BY <1>4 DEF Check
    <2>2. /\ Held(c)' \subseteq Held(c) /\ Linked(c)'
          /\ pc'[c] \in {"check", "found", "change"}
          /\ pc'[c] \in {"found", "change"} =>
                Top(c) \in Held(c) /\ Top(c).id = on[c] /\ entity'[c] = Top(c).data
          /\ \A d \in Caller \ {c} : pc'[d] = pc[d] /\ chain'[d] = chain[d] /\ entity'[d] = entity[d]
      BY <1>1, <1>2, <1>3, <2>1, FinishHeld
    <2> QED BY <1>1, <1>2, <1>4, <2>2 DEF Moves, SaveStep
  <1>5. CASE Top(c).data.ints # "even"
    <2>1. GoTo(c, "query") /\ chain' = chain /\ entity' = entity
      BY <1>5 DEF Check
    <2>2. pc'[c] \in {"query", "failed"} /\ \A d \in Caller \ {c} : pc'[d] = pc[d]
      BY <1>1, <2>1 DEF GoTo, Enter, TypeOK
    <2>3. Held(c)' = Held(c) /\ Top(c)' = Top(c)
      BY <2>1 DEF Held, Top
    <2>4. Linked(c)'
      BY <1>1, <1>2, <1>5, <2>1, <2>2, <2>3 DEF Linked
    <2> QED BY <1>1, <1>2, <2>1, <2>2, <2>3, <2>4 DEF Moves, SaveStep
  <1> QED BY <1>4, <1>5

LEMMA QueriedMoves ==
    ASSUME Inv, NEW c \in Caller, Linked(c), Queried(c)
    PROVE  Moves(c)
  <1>1. TypeOK /\ Running(c) /\ pc[c] = "query" /\ on[c] \in TxId /\ chain[c] # <<>>
    BY DEF Inv, InUse, Queried, Running, Step, ReadStep
  <1>2. UNCHANGED <<doc, fallback, late, op, on, met, wrote, overrun>>
    BY DEF Queried
  <1>3. Top(c) \in Held(c) /\ Top(c).data \in Content /\ Top(c).data.ints # "even"
    BY <1>1, FramesHeld DEF Frame, Linked
  <1>4. CASE fallback[Top(c).id] = None
    <2>1. Finish(c, Top(c).data) /\ write' = write
      BY <1>4 DEF Queried
    <2>2. /\ Held(c)' \subseteq Held(c) /\ Linked(c)'
          /\ pc'[c] \in {"check", "found", "change"}
          /\ pc'[c] \in {"found", "change"} =>
                Top(c) \in Held(c) /\ Top(c).id = on[c] /\ entity'[c] = Top(c).data
          /\ \A d \in Caller \ {c} : pc'[d] = pc[d] /\ chain'[d] = chain[d] /\ entity'[d] = entity[d]
      BY <1>1, <1>2, <1>3, <2>1, FinishHeld
    <2> QED BY <1>1, <1>2, <1>4, <2>1, <2>2 DEF Moves, SaveStep
  <1>5. CASE fallback[Top(c).id] # None
    <2> DEFINE w == [by |-> c, id |-> Top(c).id,
                     val |-> Repaired(Top(c).data, fallback[Top(c).id])]
    <2>1. write' = [write EXCEPT ![c] = w] /\ GoTo(c, "repair") /\ chain' = chain /\ entity' = entity
      BY <1>5 DEF Queried
    <2>2. write'[c] = w /\ \A d \in Caller \ {c} : write'[d] = write[d]
      BY <1>1, <2>1 DEF TypeOK
    <2>3. pc'[c] \in {"repair", "failed"} /\ \A d \in Caller \ {c} : pc'[d] = pc[d]
      BY <1>1, <2>1 DEF GoTo, Enter, TypeOK
    <2>4. Held(c)' = Held(c) /\ Top(c)' = Top(c)
      BY <2>1 DEF Held, Top
    <2>5. w.id = Top(c).id /\ w.val = Repaired(Top(c).data, fallback[Top(c).id])
          /\ w.val.rev = Top(c).data.rev
      BY <1>3 DEF Repaired, Content
    <2> HIDE DEF w
    <2>6. Linked(c)'
      BY <1>1, <1>2, <1>3, <1>5, <2>1, <2>2, <2>3, <2>4, <2>5 DEF Linked
    <2>7. write'[c].id = Top(c).id /\ write'[c].val.rev = Top(c).data.rev
      BY <2>2, <2>5
    <2> QED BY <1>1, <1>2, <1>3, <2>1, <2>2, <2>3, <2>4, <2>6, <2>7 DEF Moves, SaveStep
  <1> QED BY <1>4, <1>5

LEMMA RepairSavedMoves ==
    ASSUME Inv, NEW c \in Caller, Linked(c), RepairSaved(c)
    PROVE  Moves(c)
  <1>1. TypeOK /\ Running(c) /\ pc[c] = "repair" /\ on[c] \in TxId /\ chain[c] # <<>>
        /\ write[c].val \in Content
    BY DEF Inv, InUse, RepairSaved, Running, Step, SaveStep
  <1>2. /\ TakeEffect(write[c]) /\ write' = [write EXCEPT ![c] = None]
        /\ Finish(c, write[c].val) /\ UNCHANGED <<fallback, late, op, on, met, overrun>>
    BY DEF RepairSaved
  <1>3. /\ write[c].id = Top(c).id /\ Top(c) \in Held(c)
        /\ write[c].val.rev = Top(c).data.rev
    <2>1. Top(c) \in Held(c) /\ Top(c).data \in Content
      BY <1>1, FramesHeld DEF Frame
    <2> QED BY <1>1, <2>1 DEF Linked, Repaired, Content
  <1>4. /\ Held(c)' \subseteq Held(c) /\ Linked(c)'
        /\ pc'[c] \in {"check", "found", "change"}
        /\ pc'[c] \in {"found", "change"} =>
              Top(c) \in Held(c) /\ Top(c).id = on[c] /\ entity'[c] = write[c].val
        /\ \A d \in Caller \ {c} : pc'[d] = pc[d] /\ chain'[d] = chain[d] /\ entity'[d] = entity[d]
    BY <1>1, <1>2, FinishHeld
  <1>5. \A d \in Caller \ {c} : write'[d] = write[d]
    BY <1>1, <1>2 DEF TypeOK
  <1> QED BY <1>1, <1>2, <1>3, <1>4, <1>5 DEF Moves, SaveStep

LEMMA ChangeMoves ==
    ASSUME Inv, NEW c \in Caller, Linked(c), Change(c)
    PROVE  Moves(c)
  <1>1. TypeOK /\ Running(c) /\ pc[c] = "change" /\ on[c] \in TxId /\ chain[c] = <<>>
    BY DEF Inv, InUse, Change, Running, Step, Linked
  <1>2. UNCHANGED <<doc, fallback, late, op, on, chain, met, wrote, overrun>> /\ GoTo(c, "set")
    BY DEF Change
  <1>3. PICK ints \in Interactions :
           /\ entity' = [entity EXCEPT ![c] = [rev |-> entity[c].rev \cup {c}, ints |-> ints]]
           /\ write' = [write EXCEPT ![c] =
                 [by |-> c, id |-> on[c], val |-> [rev |-> entity[c].rev \cup {c}, ints |-> ints]]]
    BY DEF Change
  <1>4. /\ write'[c].id = on[c] /\ write'[c].val.rev = entity[c].rev \cup {c}
        /\ \A d \in Caller \ {c} : write'[d] = write[d] /\ entity'[d] = entity[d]
    BY <1>1, <1>3 DEF TypeOK
  <1>5. pc'[c] = Enter("set") /\ \A d \in Caller \ {c} : pc'[d] = pc[d]
    BY <1>1, <1>2 DEF GoTo, TypeOK
  <1>6. pc'[c] \in {"set", "saved", "failed"} /\ (Attempts > 0 => pc'[c] = "set")
    BY <1>5 DEF Enter
  <1>7. Held(c)' = Held(c)
    BY <1>2 DEF Held
  <1>8. Linked(c)'
    BY <1>1, <1>2, <1>4, <1>6 DEF Linked
  <1> QED BY <1>1, <1>2, <1>4, <1>5, <1>6, <1>7, <1>8 DEF Moves, SaveStep

LEMMA SavedMoves ==
    ASSUME Inv, NEW c \in Caller, Linked(c), Saved(c)
    PROVE  Moves(c)
  <1>1. TypeOK /\ Running(c) /\ pc[c] = "set" /\ pc[c] \in SaveStep /\ on[c] \in TxId
    BY DEF Inv, InUse, Saved, Running, Step, SaveStep
  <1>2. /\ TakeEffect(write[c]) /\ write' = [write EXCEPT ![c] = None]
        /\ pc' = [pc EXCEPT ![c] = "saved"]
        /\ UNCHANGED <<fallback, late, memory, met, overrun>>
    BY DEF Saved, Turn
  <1>3. on' = on /\ chain' = chain /\ entity' = entity
    BY <1>2 DEF memory
  <1>4. pc'[c] = "saved" /\ \A d \in Caller \ {c} : pc'[d] = pc[d] /\ write'[d] = write[d]
    BY <1>1, <1>2 DEF TypeOK
  <1>5. Held(c)' = Held(c)
    BY <1>3 DEF Held
  <1>6. Linked(c)'
    BY <1>1, <1>3, <1>4 DEF Linked
  <1> QED BY <1>1, <1>2, <1>3, <1>4, <1>5, <1>6 DEF Moves, SaveStep

LEMMA ProceedMoves ==
    ASSUME Inv, NEW c \in Caller, Linked(c), Proceed(c) \/ Die(c)
    PROVE  Moves(c)
  BY ReadLostMoves, EndsMove, SaveLostMoves, GotMoves, CheckMoves, QueriedMoves,
     RepairSavedMoves, ChangeMoves, SavedMoves DEF Proceed

-----------------------------------------------------------------------------
(* A call that is alone returns what is stored.                            *)

\* A repair leaves every snapshot of its document as read, or repaired.
LEMMA RepairKeepsAsRead ==
    ASSUME NEW t, NEW data, NEW other, AsRead(t, data), AsRead(t, other),
           data \in Content, other \in Content,
           other.ints # "even", fallback[t] # None, fallback' = fallback,
           doc'[t] = Repaired(other, fallback[t])
    PROVE  AsRead(t, data)'
  <1>1. Repaired(Repaired(other, fallback[t]), fallback[t]) = Repaired(other, fallback[t])
    BY DEF Repaired, Content
  <1>2. Repaired(Repaired(data, fallback[t]), fallback[t]) = Repaired(data, fallback[t])
    BY DEF Repaired, Content
  <1>3. CASE doc[t] = other /\ doc[t] = data
    BY <1>3 DEF AsRead
  <1>4. CASE doc[t] = other /\ data.ints # "even" /\ doc[t] = Repaired(data, fallback[t])
    BY <1>2, <1>4 DEF AsRead
  <1>5. CASE doc[t] = Repaired(other, fallback[t])
    <2>1. doc'[t] = doc[t]
      BY <1>5
    <2> QED BY <2>1 DEF AsRead
  <1> QED BY <1>3, <1>4, <1>5 DEF AsRead

LEMMA CallsMove ==
    ASSUME Inv, CallsInv, NEW c \in Caller, Moves(c)
    PROVE  CallsInv'
  <1>0. TypeOK /\ Linked(c) /\ Reads(c) /\ Running(c)
    BY DEF Inv, CallsInv, Moves
  <1>1. /\ on' = on /\ met' = met /\ overrun' = overrun /\ fallback' = fallback
        /\ \A d \in Caller \ {c} :
              pc'[d] = pc[d] /\ chain'[d] = chain[d] /\ entity'[d] = entity[d] /\ write'[d] = write[d]
    BY DEF Moves
  <1>2. ASSUME NEW d \in Caller PROVE Linked(d)'
    <2>1. CASE d = c
      BY <2>1 DEF Moves
    <2>2. CASE d # c
      <3>1. Linked(d)
        BY DEF CallsInv
      <3> QED BY <1>1, <2>2, <3>1 DEF Linked, Top
    <2> QED BY <2>1, <2>2
  <1>3. ASSUME NEW d \in Caller, NEW e \in Caller PROVE Meeting(d, e)'
    <2>1. \A x \in Caller : Running(x)' => Running(x)
      BY <1>0, <1>1 DEF Running
    <2> QED BY <1>1, <2>1 DEF CallsInv, Meeting
  <1>4. ASSUME NEW d \in Caller PROVE Reads(d)'
    <2>1. CASE d # c
      <3>1. Running(d)' => c \in met[d]
        BY <1>0, <1>1, <2>1 DEF CallsInv, Meeting, Running
      <3> QED BY <1>1, <3>1 DEF Reads
    <2>2. CASE d = c
      <3> SUFFICES ASSUME met[c] = {}, c \notin overrun, NEW f \in Held(c)', f.id = on[c]
                   PROVE  AsRead(f.id, f.data)'
        BY <1>1, <2>2 DEF Reads
      <3>1. \A g \in Held(c) : g.id = on[c] => AsRead(g.id, g.data)
        BY <1>0 DEF Reads
      <3>2. CASE doc' = doc /\ (f \in Held(c) \/ f.data = doc[f.id])
        BY <1>1, <3>1, <3>2 DEF AsRead
      <3>3. CASE pc[c] \in SaveStep /\ TakeEffect(write[c]) /\ f \in Held(c)
        <4>1. write[c].id \in TxId /\ doc' = [doc EXCEPT ![write[c].id] = write[c].val]
          BY <3>3 DEF TakeEffect, Inv, InUse
        <4>2. AsRead(f.id, f.data) /\ f \in Frame /\ f.id \in TxId
          BY <1>0, <3>1, <3>3, FramesHeld DEF Frame
        <4>3. CASE write[c].id # f.id
          <5>1. doc'[f.id] = doc[f.id]
            BY <1>0, <4>1, <4>2, <4>3 DEF TypeOK
          <5> QED BY <1>1, <4>2, <5>1 DEF AsRead
        <4>4. CASE write[c].id = f.id
          <5>1. chain[c] # <<>>
            BY <1>0, <3>3, FramesHeld
          <5>2. pc[c] = "repair"
            BY <1>0, <3>3, <5>1 DEF SaveStep, Linked
          <5>3. /\ Top(c) \in Held(c) /\ Top(c) \in Frame /\ Top(c).id = f.id
                /\ Top(c).data.ints # "even" /\ fallback[f.id] # None
                /\ write[c].val = Repaired(Top(c).data, fallback[f.id])
            BY <1>0, <4>4, <5>1, <5>2, FramesHeld DEF Linked
          <5>4. AsRead(f.id, Top(c).data)
            BY <3>1, <5>3
          <5>5. doc'[f.id] = Repaired(Top(c).data, fallback[f.id])
            BY <1>0, <4>1, <4>2, <4>4, <5>3 DEF TypeOK
          <5>6. f.data \in Content /\ Top(c).data \in Content
            BY <4>2, <5>3 DEF Frame
          <5> QED BY <1>1, <4>2, <5>3, <5>4, <5>5, <5>6, RepairKeepsAsRead
        <4> QED BY <4>3, <4>4
      <3> QED BY <3>2, <3>3 DEF Moves
    <2> QED BY <2>1, <2>2
  <1> QED BY <1>2, <1>3, <1>4 DEF CallsInv

\* A find that ends returns what is stored.
LEMMA FindsStored ==
    ASSUME Inv, CallsInv, NEW c \in Caller, Moves(c), pc'[c] = "found",
           met[c] = {}, c \notin overrun
    PROVE  entity'[c] = doc'[on[c]]
  <1>0. TypeOK /\ Running(c) /\ Reads(c) /\ on[c] \in TxId
    BY DEF Inv, InUse, CallsInv, Moves
  <1>1. PICK f \in Held(c) :
          /\ f.id = on[c]
          /\ \/ doc' = doc /\ entity'[c] = f.data /\ (f.data.ints = "even" \/ fallback[f.id] = None)
             \/ pc[c] \in SaveStep /\ TakeEffect(write[c]) /\ write[c].id = f.id
                /\ entity'[c] = write[c].val
    BY DEF Moves
  <1>2. CASE doc' = doc /\ entity'[c] = f.data /\ (f.data.ints = "even" \/ fallback[f.id] = None)
    <2>1. AsRead(f.id, f.data)
      BY <1>0, <1>1 DEF Reads
    <2> QED BY <1>1, <1>2, <2>1 DEF AsRead
  <1>3. CASE TakeEffect(write[c]) /\ write[c].id = f.id /\ entity'[c] = write[c].val
    BY <1>0, <1>1, <1>3 DEF TakeEffect, TypeOK
  <1> QED BY <1>1, <1>2, <1>3

-----------------------------------------------------------------------------
(* A save that was told of survives what runs later.                       *)

LEMMA SurvivesMove ==
    ASSUME Inv, CallsInv, Attempts > 0, NEW c \in Caller, Moves(c),
           NEW x \in Caller, Survives(x)
    PROVE  Survives(x)'
  <1>0. TypeOK /\ Linked(c) /\ Linked(x) /\ Running(c)
    BY DEF Inv, CallsInv, Moves
  <1>1. /\ on' = on /\ met' = met /\ overrun' = overrun /\ fallback' = fallback
        /\ \A d \in Caller \ {c} :
              pc'[d] = pc[d] /\ chain'[d] = chain[d] /\ entity'[d] = entity[d] /\ write'[d] = write[d]
    BY DEF Moves
  <1>2. \/ doc' = doc /\ wrote' = wrote
        \/ /\ pc[c] \in SaveStep /\ write[c].id \in TxId /\ write[c].by = c /\ write[c].val \in Content
           /\ doc' = [doc EXCEPT ![write[c].id] = write[c].val]
           /\ wrote' = [wrote EXCEPT ![c] = @ \cup {write[c].id}]
    <2>1. pc[c] \in SaveStep => write[c] \in [by: {c}, id: TxId, val: Content]
      BY DEF Inv, InUse
    <2> QED BY <2>1 DEF Moves, TakeEffect
  <1>3. ASSUME NEW d \in Caller PROVE wrote[d] \subseteq wrote'[d]
    <2>1. CASE wrote' = wrote
      BY <2>1
    <2>2. CASE wrote' = [wrote EXCEPT ![c] = @ \cup {write[c].id}]
      <3>1. wrote \in [Caller -> SUBSET TxId]
        BY <1>0 DEF TypeOK
      <3>2. wrote'[d] = IF d = c THEN wrote[c] \cup {write[c].id} ELSE wrote[d]
        BY <2>2, <3>1
      <3> QED BY <3>2
    <2> QED BY <1>2, <2>1, <2>2
  <1> SUFFICES ASSUME Acked(x)' PROVE Survives(x)'
    BY DEF Survives
  <1>4. pc'[x] = "saved" /\ x \notin overrun /\ \A d \in met[x] : on[x] \notin wrote'[d]
    BY <1>1 DEF Acked
  <1>5. CASE x = c
    <2>1. pc[c] = "set" /\ TakeEffect(write[c])
      BY <1>4, <1>5 DEF Moves
    <2>2. write[c].id = on[c] /\ c \in write[c].val.rev /\ on[c] \in TxId
      BY <1>0, <2>1 DEF Linked
    <2>3. write[c].val \in Content
      BY <2>1 DEF Inv, InUse, SaveStep
    <2>4. doc'[on[c]] = write[c].val
      BY <1>0, <2>1, <2>2 DEF TakeEffect, TypeOK
    <2>5. doc'[on[c]] # None /\ c \in doc'[on[c]].rev
      BY <2>2, <2>3, <2>4, NoneIsNoContent
    <2>6. ASSUME NEW d \in Caller, Running(d)' PROVE d \in met[c]
      <3>1. d # c
        BY <1>4, <1>5, <2>6 DEF Running, Step, ReadStep, SaveStep
      <3>2. Running(d)
        BY <1>1, <2>6, <3>1 DEF Running
      <3> QED BY <1>0, <3>1, <3>2 DEF CallsInv, Meeting
    <2> QED BY <1>1, <1>5, <2>5, <2>6 DEF Survives
  <1>6. CASE x # c
    <2>1. pc[x] = "saved" /\ on[x] \in TxId /\ Acked(x)
      <3>1. met[x] \subseteq Caller
        BY <1>0 DEF TypeOK
      <3> QED BY <1>0, <1>1, <1>3, <1>4, <1>6, <3>1 DEF Acked, Linked
    <2>2. /\ doc[on[x]] # None /\ x \in doc[on[x]].rev
          /\ \A d \in Caller : Running(d) /\ d \notin met[x] => BuildsOn(d, x)
      BY <2>1 DEF Survives
    <2>3. doc'[on[x]] # None /\ x \in doc'[on[x]].rev
      <3>1. CASE doc'[on[x]] = doc[on[x]]
        BY <2>2, <3>1
      <3>2. CASE doc'[on[x]] # doc[on[x]]
        <4>1. /\ pc[c] \in SaveStep /\ write[c].id = on[x] /\ write[c].val \in Content
              /\ doc'[on[x]] = write[c].val /\ on[x] \in wrote'[c]
          BY <1>0, <1>2, <2>1, <3>2 DEF TypeOK
        <4>2. c \notin met[x]
          BY <1>4, <4>1
        <4>3. x \in write[c].val.rev
          BY <1>0, <2>2, <4>1, <4>2 DEF BuildsOn
        <4> QED BY <4>1, <4>3, NoneIsNoContent
      <3> QED BY <3>1, <3>2
    <2>4. ASSUME NEW d \in Caller, Running(d)', d \notin met[x] PROVE BuildsOn(d, x)'
      <3>1. CASE d # c
        <4>1. Running(d) /\ BuildsOn(d, x)
          BY <1>1, <2>2, <2>4, <3>1 DEF Running
        <4>2. Held(d)' = Held(d)
          BY <1>1, <3>1 DEF Held
        <4> QED BY <1>1, <3>1, <4>1, <4>2 DEF BuildsOn
      <3>2. CASE d = c
        <4>0. BuildsOn(c, x)
          BY <1>0, <2>2, <2>4, <3>2
        <4>1. ASSUME NEW f \in Held(c)', f.id = on[x] PROVE x \in f.data.rev
          <5>1. f \in Held(c) \/ f.data = doc[f.id]
            BY DEF Moves
          <5> QED BY <2>2, <4>0, <4>1, <5>1 DEF BuildsOn
        <4>2. ASSUME pc'[c] = "change", on[c] = on[x] PROVE x \in entity'[c].rev
          BY <4>0, <4>2 DEF Moves, BuildsOn
        <4>3. ASSUME pc'[c] \in SaveStep, write'[c].id = on[x] PROVE x \in write'[c].val.rev
          <5>1. \/ pc[c] \in SaveStep /\ write'[c] = write[c]
                \/ \E f \in Held(c) : write'[c].id = f.id /\ write'[c].val.rev = f.data.rev
                \/ pc[c] = "change" /\ write'[c].id = on[c] /\ entity[c].rev \subseteq write'[c].val.rev
            BY <4>3 DEF Moves
          <5> QED BY <4>0, <4>3, <5>1 DEF BuildsOn
        <4> QED BY <1>1, <3>2, <4>1, <4>2, <4>3 DEF BuildsOn
      <3> QED BY <3>1, <3>2
    <2> QED BY <1>1, <2>3, <2>4 DEF Survives
  <1> QED BY <1>5, <1>6

-----------------------------------------------------------------------------
(* A call begins.                                                          *)

Begins(c, t) ==
    /\ pc[c] = "idle" /\ on' = [on EXCEPT ![c] = t] /\ Meets(c)
    /\ UNCHANGED <<doc, fallback, late, chain, wrote, overrun>>
    /\ pc'[c] \in {"get", "set", "failed"} \/ (Attempts = 0 /\ pc'[c] = "saved")
    /\ \A d \in Caller \ {c} : pc'[d] = pc[d] /\ entity'[d] = entity[d] /\ write'[d] = write[d]
    /\ pc'[c] = "set" =>
          /\ write'[c].id = t /\ c \in write'[c].val.rev
          /\ \A d \in Caller : on[d] # t

LEMMA CallsBegin ==
    ASSUME Inv, NEW c \in Caller, NEW t \in TxId, Find(c, t) \/ Add(c, t)
    PROVE  Begins(c, t)
  <1>0. TypeOK
    BY DEF Inv
  <1>1. CASE Find(c, t)
    <2>1. PICK o \in Op : Call(c, t, o)
      BY <1>1 DEF Find, Op
    <2>2. GoTo(c, "get") /\ entity' = entity /\ write' = write
      BY <1>1 DEF Find
    <2>3. pc'[c] \in {"get", "failed"} /\ \A d \in Caller \ {c} : pc'[d] = pc[d]
      BY <1>0, <2>2 DEF GoTo, Enter, TypeOK
    <2> QED BY <2>1, <2>2, <2>3 DEF Begins, Call
  <1>2. CASE Add(c, t)
    <2>1. Call(c, t, "add") /\ GoTo(c, "set") /\ \A d \in Caller : on[d] # t
      BY <1>2 DEF Add
    <2>2. PICK ints \in Interactions :
             /\ entity' = [entity EXCEPT ![c] = [rev |-> {c}, ints |-> ints]]
             /\ write' = [write EXCEPT ![c] =
                            [by |-> c, id |-> t, val |-> [rev |-> {c}, ints |-> ints]]]
      BY <1>2 DEF Add
    <2>3. /\ write'[c].id = t /\ c \in write'[c].val.rev
          /\ \A d \in Caller \ {c} : entity'[d] = entity[d] /\ write'[d] = write[d]
      BY <1>0, <2>2 DEF TypeOK
    <2>4. /\ pc'[c] = "set" \/ (Attempts = 0 /\ pc'[c] = "saved")
          /\ \A d \in Caller \ {c} : pc'[d] = pc[d]
      BY <1>0, <2>1, AttemptsAssumption DEF GoTo, Enter, TypeOK
    <2> QED BY <2>1, <2>3, <2>4 DEF Begins, Call
  <1> QED BY <1>1, <1>2

LEMMA BeginsInv ==
    ASSUME Inv, CallsInv, NEW c \in Caller, NEW t \in TxId, Begins(c, t)
    PROVE  /\ CallsInv'
           /\ \A x \in Caller : Attempts > 0 /\ Survives(x) => Survives(x)'
  <1>0. TypeOK /\ chain[c] = <<>> /\ ~Running(c)
    BY DEF Inv, InUse, Begins, Running, Step, ReadStep, SaveStep
  <1>1. /\ doc' = doc /\ fallback' = fallback /\ chain' = chain /\ wrote' = wrote /\ overrun' = overrun
        /\ \A d \in Caller \ {c} : pc'[d] = pc[d] /\ entity'[d] = entity[d] /\ write'[d] = write[d]
        /\ pc'[c] \in {"get", "set", "failed", "saved"}
    BY DEF Begins
  <1>2. on'[c] = t /\ \A d \in Caller \ {c} : on'[d] = on[d]
    BY <1>0 DEF Begins, TypeOK
  <1>3. /\ \A d \in Caller : d # c => met'[d] = IF Running(d) THEN met[d] \cup {c} ELSE met[d]
        /\ met'[c] = {e \in Caller : Running(e)}
    BY DEF Begins, Meets
  <1>4. \A d \in Caller : Held(d)' = Held(d) /\ Top(d)' = Top(d)
    BY <1>1 DEF Held, Top
  <1>5. Held(c) = {}
    BY <1>0, FramesHeld
  <1>6. ASSUME NEW d \in Caller PROVE Linked(d)'
    <2>1. CASE d = c
      BY <1>0, <1>1, <1>2, <2>1 DEF Begins, Linked
    <2>2. CASE d # c
      <3>1. Linked(d)
        BY DEF CallsInv
      <3> QED BY <1>1, <1>2, <1>4, <2>2, <3>1 DEF Linked
    <2> QED BY <2>1, <2>2
  <1>7. ASSUME NEW d \in Caller PROVE Reads(d)'
    <2>1. CASE d = c
      BY <1>4, <1>5, <2>1 DEF Reads
    <2>2. CASE d # c
      <3>1. Running(d)' => c \in met'[d]
        BY <1>1, <1>3, <2>2 DEF Running
      <3> QED BY <3>1 DEF Reads
    <2> QED BY <2>1, <2>2
  <1>8. ASSUME NEW d \in Caller, NEW e \in Caller PROVE Meeting(d, e)'
    <2>1. Meeting(d, e)
      BY DEF CallsInv
    <2>2. \A x \in Caller : x # c => (Running(x)' <=> Running(x))
      BY <1>1 DEF Running
    <2> QED BY <1>3, <2>1, <2>2 DEF Meeting
  <1>9. ASSUME NEW x \in Caller, Attempts > 0, Survives(x) PROVE Survives(x)'
    <2> SUFFICES ASSUME Acked(x)' PROVE Survives(x)'
      BY DEF Survives
    <2>1. x # c
      BY <1>9 DEF Acked, Begins
    <2>2. pc[x] = "saved" /\ ~Running(x)
      BY <1>1, <2>1 DEF Acked, Running, Step, ReadStep, SaveStep
    <2>3. met'[x] = met[x] /\ on'[x] = on[x]
      BY <1>2, <1>3, <2>1, <2>2
    <2>4. Acked(x)
      BY <1>1, <2>2, <2>3 DEF Acked
    <2>5. ASSUME NEW d \in Caller, Running(d)', d \notin met[x] PROVE BuildsOn(d, x)'
      <3>1. CASE d # c
        <4>1. Running(d) /\ BuildsOn(d, x)
          BY <1>1, <1>9, <2>4, <2>5, <3>1 DEF Running, Survives
        <4> QED BY <1>1, <1>2, <1>4, <2>3, <3>1, <4>1 DEF BuildsOn
      <3>2. CASE d = c
        <4>1. pc'[c] \in SaveStep => pc'[c] = "set"
          BY <1>1 DEF SaveStep
        <4>2. pc'[c] = "set" => write'[c].id # on[x]
          BY DEF Begins
        <4> QED BY <1>1, <1>4, <1>5, <2>3, <3>2, <4>1, <4>2 DEF BuildsOn
      <3> QED BY <3>1, <3>2
    <2> QED BY <1>1, <1>9, <2>3, <2>4, <2>5 DEF Survives
  <1> QED BY <1>6, <1>7, <1>8, <1>9 DEF CallsInv

\* A late save spoils only the calls on its document.
LEMMA LandInv ==
    ASSUME Inv, CallsInv, NEW w \in late, Land(w)
    PROVE  /\ CallsInv'
           /\ \A x \in Caller : Survives(x) => Survives(x)'
  <1>0. TypeOK /\ w.id \in TxId /\ w.by \in Caller
    BY DEF Inv, TypeOK, Write
  <1>1. /\ on' = on /\ chain' = chain /\ entity' = entity /\ fallback' = fallback /\ pc' = pc
        /\ write' = write /\ met' = met
        /\ doc' = [doc EXCEPT ![w.id] = w.val]
        /\ wrote' = [wrote EXCEPT ![w.by] = @ \cup {w.id}]
        /\ overrun' = overrun \cup {c \in Caller : on[c] = w.id}
    BY DEF Land, TakeEffect, memory
  <1>2. \A d \in Caller : Held(d)' = Held(d) /\ Top(d)' = Top(d) /\ Running(d)' = Running(d)
    BY <1>1 DEF Held, Top, Running
  <1>3. \A t \in TxId : t # w.id => doc'[t] = doc[t]
    BY <1>0, <1>1 DEF TypeOK
  <1>4. \A d \in Caller : wrote[d] \subseteq wrote'[d]
    BY <1>0, <1>1 DEF TypeOK
  <1>5. ASSUME NEW d \in Caller PROVE Linked(d)'
    BY <1>1, <1>2 DEF CallsInv, Linked
  <1>6. ASSUME NEW d \in Caller, NEW e \in Caller PROVE Meeting(d, e)'
    BY <1>1, <1>2 DEF CallsInv, Meeting
  <1>7. ASSUME NEW d \in Caller PROVE Reads(d)'
    <2> SUFFICES ASSUME Running(d), met[d] = {}, d \notin overrun', NEW f \in Held(d), f.id = on[d]
                 PROVE  AsRead(f.id, f.data)'
      BY <1>1, <1>2 DEF Reads
    <2>1. on[d] \in TxId /\ on[d] # w.id /\ AsRead(f.id, f.data)
      BY <1>1 DEF Inv, InUse, CallsInv, Reads
    <2>2. doc'[f.id] = doc[f.id]
      BY <1>3, <2>1
    <2> QED BY <1>1, <2>1, <2>2 DEF AsRead
  <1>8. ASSUME NEW x \in Caller, Survives(x) PROVE Survives(x)'
    <2> SUFFICES ASSUME Acked(x)' PROVE Survives(x)'
      BY DEF Survives
    <2>1. met[x] \subseteq Caller
      BY <1>0 DEF TypeOK
    <2>2. Acked(x) /\ on[x] \in TxId /\ on[x] # w.id
      BY <1>1, <1>4, <2>1 DEF Acked, CallsInv, Linked
    <2>3. doc'[on[x]] = doc[on[x]]
      BY <1>3, <2>2
    <2>4. ASSUME NEW d \in Caller, Running(d), d \notin met[x] PROVE BuildsOn(d, x)'
      <3>1. BuildsOn(d, x)
        BY <1>8, <2>2, <2>4 DEF Survives
      <3> QED BY <1>1, <1>2, <3>1 DEF BuildsOn
    <2> QED BY <1>1, <1>2, <1>8, <2>2, <2>3, <2>4 DEF Survives
  <1> QED BY <1>5, <1>6, <1>7, <1>8 DEF CallsInv

-----------------------------------------------------------------------------

LEMMA InitCalls == Init => CallsInv /\ \A x \in Caller : Survives(x)
  <1> SUFFICES ASSUME Init PROVE CallsInv /\ \A x \in Caller : Survives(x)
    OBVIOUS
  <1>1. \A c \in Caller : pc[c] = "idle" /\ chain[c] = <<>> /\ on[c] = None
    BY DEF Init
  <1>2. \A c \in Caller : ~Running(c)
    BY <1>1 DEF Running, Step, ReadStep, SaveStep
  <1> QED BY <1>1, <1>2 DEF CallsInv, Linked, Reads, Meeting, Survives, Acked, SaveStep

LEMMA UnchangedCalls ==
    ASSUME UNCHANGED vars, CallsInv
    PROVE  CallsInv' /\ \A x \in Caller : Survives(x) => Survives(x)'
  <1>1. /\ doc' = doc /\ fallback' = fallback /\ pc' = pc /\ on' = on /\ chain' = chain
        /\ entity' = entity /\ write' = write /\ met' = met /\ wrote' = wrote /\ overrun' = overrun
    BY DEF vars, memory
  <1>2. \A d \in Caller : Held(d)' = Held(d) /\ Top(d)' = Top(d) /\ Running(d)' = Running(d)
    BY <1>1 DEF Held, Top, Running
  <1>3. \A d \in Caller : Linked(d)' /\ Reads(d)' /\ \A e \in Caller : Meeting(d, e)'
    BY <1>1, <1>2 DEF CallsInv, Linked, Reads, Meeting, AsRead
  <1>4. \A x, d \in Caller : BuildsOn(d, x) => BuildsOn(d, x)'
    BY <1>1, <1>2 DEF BuildsOn
  <1>5. \A x \in Caller : Survives(x) => Survives(x)'
    BY <1>1, <1>2, <1>4 DEF Survives, Acked
  <1> QED BY <1>3, <1>5 DEF CallsInv

LEMMA StepCalls ==
    ASSUME Inv, CallsInv, [Next]_vars
    PROVE  /\ CallsInv'
           /\ \A x \in Caller : Attempts > 0 /\ Survives(x) => Survives(x)'
  <1>1. CASE UNCHANGED vars
    BY <1>1, UnchangedCalls
  <1>2. ASSUME NEW c \in Caller, NEW t \in TxId, Find(c, t) \/ Add(c, t)
        PROVE  CallsInv' /\ \A x \in Caller : Attempts > 0 /\ Survives(x) => Survives(x)'
    BY <1>2, CallsBegin, BeginsInv
  <1>3. ASSUME NEW c \in Caller, Proceed(c) \/ Die(c)
        PROVE  CallsInv' /\ \A x \in Caller : Attempts > 0 /\ Survives(x) => Survives(x)'
    <2>1. Moves(c)
      BY <1>3, ProceedMoves DEF CallsInv
    <2> QED BY <2>1, CallsMove, SurvivesMove
  <1>4. ASSUME NEW w \in late, Land(w)
        PROVE  CallsInv' /\ \A x \in Caller : Attempts > 0 /\ Survives(x) => Survives(x)'
    BY <1>4, LandInv
  <1> QED BY <1>1, <1>2, <1>3, <1>4 DEF Next

\* A find that met no other call, nor a late save, returns the transaction as it
\* is stored when it returns, whatever it repaired, retried or lost on the way.
THEOREM QuietFindReturnsStored == Spec => QuietFindIsExact
  <1>1. Inv /\ CallsInv /\ [Next]_vars => CallsInv'
    BY StepCalls
  <1>2. Init => CallsInv
    BY InitCalls
  <1>3. ASSUME Inv, CallsInv, [Next]_vars
        PROVE  [\A c \in Caller :
                  /\ pc[c] # "found" /\ pc'[c] = "found"
                  /\ met[c] = {} /\ c \notin overrun
                  => entity'[c] = doc'[on[c]]]_vars
    <2> SUFFICES ASSUME Next, NEW c \in Caller, pc[c] # "found", pc'[c] = "found",
                        met[c] = {}, c \notin overrun
                 PROVE  entity'[c] = doc'[on[c]]
      BY <1>3
    <2>1. ASSUME NEW d \in Caller, NEW t \in TxId, Find(d, t) \/ Add(d, t) PROVE FALSE
      <3>1. Begins(d, t)
        BY <1>3, <2>1, CallsBegin
      <3> QED BY <3>1 DEF Begins
    <2>2. ASSUME NEW d \in Caller, Proceed(d) \/ Die(d) PROVE entity'[c] = doc'[on[c]]
      <3>1. Moves(d)
        BY <1>3, <2>2, ProceedMoves DEF CallsInv
      <3>2. d = c
        BY <3>1 DEF Moves
      <3> QED BY <1>3, <3>1, <3>2, FindsStored
    <2>3. ASSUME NEW w \in late, Land(w) PROVE FALSE
      BY <2>3 DEF Land
    <2> QED BY <2>1, <2>2, <2>3 DEF Next
  <1> QED BY <1>1, <1>2, <1>3, InitInv, StepInv, PTL DEF Spec, QuietFindIsExact

\* With at least one attempt configured, a call that was told its save is done
\* finds its change in the document, unless a call it met wrote the document too
\* or a lost attempt took effect late.
THEOREM AcknowledgedSurvives == Attempts > 0 => (Spec => []AckedSurvives)
  <1> SUFFICES ASSUME Attempts > 0 PROVE Spec => []AckedSurvives
    OBVIOUS
  <1> DEFINE J == CallsInv /\ \A x \in Caller : Survives(x)
  <1>1. Init => J
    BY InitCalls
  <1>2. Inv /\ J /\ [Next]_vars => J'
    <2> SUFFICES ASSUME Inv, J, [Next]_vars PROVE J'
      OBVIOUS
    <2> QED BY StepCalls
  <1>3. J => AckedSurvives
    BY DEF Survives, Acked, AckedSurvives
  <1> HIDE DEF J
  <1> QED BY <1>1, <1>2, <1>3, InitInv, StepInv, PTL DEF Spec

==============================================================================
