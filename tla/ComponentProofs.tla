-------------------------- MODULE ComponentProofs ---------------------------
(***************************************************************************)
(* Theorems about the components that MCComponents runs together: the      *)
(* context stack, the OTLP exporter, the baggage, the metric pipeline and  *)
(* the exponential histogram.  They share no state.                        *)
(*                                                                         *)
(* ContextStack, for every number of guards, spans and values and every    *)
(* MaxPos: that the newest attached context is current after a drop needs  *)
(* the order of attachment to agree with the order of the positions, and a *)
(* position with a context to have its guard (OrderIsPosition).            *)
(*                                                                         *)
(* OtlpExport, for any exports, any policy and any delays a collector may  *)
(* ask for: how often a batch may have been stored depends on the attempts *)
(* made so far (StoresFollowAttempts), and an answer is there only when the*)
(* export is done (Answered).                                              *)
(*                                                                         *)
(* Baggage, for any names, lengths and limits: the counter covers what the *)
(* pairs take (BaggageInv).                                                *)
(*                                                                         *)
(* MetricPipeline, for any views, whatever instruments each selects, and any*)
(* instruments: what a resolution has found halfway through the views      *)
(* (Resolving), and that the aggregators of the pipeline are those of the  *)
(* caches (StreamsInv).  Loops over sequences                              *)
(* are folds there; FoldLaws gives induction over them.                    *)
(*                                                                         *)
(* ExponentialHistogram, for any sizes, scales and values: how far the     *)
(* loop of downscale has merged the bins (MergedUpTo), what buckets hold   *)
(* when the values are sorted into them (Sorted), that the scale is the    *)
(* largest at which the values fit (HistogramInv), and that a panic has a  *)
(* value too far from a kept one and ends the recording (Panicking).       *)
(* Powers of two are a recursive function, which PowerOf2Step unfolds.     *)
(***************************************************************************)
EXTENDS ContextStack, OtlpExport, Baggage, MetricPipeline, ExponentialHistogram, DataLemmas

(* Guards are ordered by their positions as they were by time. *)
OrderIsPosition ==
    /\ before \subseteq Attached \X Attached
    /\ \A g, h \in Attached : <<g, h>> \in before <=> guardPos[g] < guardPos[h]

ContextIndInv == TypeOK /\ GuardsValid /\ NothingRetained /\ OrderIsPosition

-----------------------------------------------------------------------------
(* What a context refers to are spans and values. *)
LEMMA ResourceType ==
    ASSUME NEW cx \in Context
    PROVE  Resources(cx) \subseteq Spans \cup Entries
BY ContextAssumption DEF Resources, Context, ContextAssumption

(* The contexts a program can attach are contexts. *)
LEMMA DerivedType == TypeOK => Derived \cup {saved} \subseteq Context
BY DEF TypeOK, Derived, Context

(* Types survive every step. *)
LEMMA ContextTypeStep == ContextIndInv /\ [Next]_vars => TypeOK'
<1> SUFFICES ASSUME ContextIndInv, [Next]_vars PROVE TypeOK'
  OBVIOUS
<1> USE DEF ContextIndInv
<1> Empty \in Context
  BY DEF Empty, Context
<1>1. CASE Save
  BY <1>1 DEF Save, TypeOK, historyVars
<1>2. ASSUME NEW g \in Guards, NEW cx \in Context, Push(g, cx) PROVE TypeOK'
  <2>1. stack' \in Seq(Context \cup {Hole}) /\ Len(stack') = Len(stack) + 1
    BY <1>2 DEF Push, TypeOK
  <2>2. Len(stack) + 1 \in 0..MaxPos /\ Len(stack) + 1 < MaxPos
    BY <1>2, ContextAssumption DEF Push, CanPush, TypeOK, ContextAssumption
  <2>3. guardPos' \in [Guards -> 0..MaxPos]
    BY <1>2, <2>2 DEF Push, TypeOK
  <2>4. Attached \X {g} \subseteq Guards \X Guards
    BY DEF Attached
  <2>5. before' \subseteq Guards \X Guards
    BY <1>2, <2>4 DEF Push, TypeOK
  <2> QED
    BY <1>2, <2>1, <2>2, <2>3, <2>5 DEF Push, TypeOK
<1>3. ASSUME NEW g \in Guards, NEW cx \in Context, PushRefused(g, cx) PROVE TypeOK'
  BY <1>3, ResourceType, ContextAssumption DEF PushRefused, TypeOK, ContextAssumption
<1>4. ASSUME NEW g \in Guards, PopTop(g) PROVE TypeOK'
  <2>1. PICK n \in DOMAIN stack :
          stack[n] # Hole /\ currentCx' = stack[n] /\ stack' = SubSeq(stack, 1, n - 1)
    BY <1>4 DEF PopTop
  <2>2. currentCx' \in Context
    BY <2>1 DEF TypeOK
  <2>3. n - 1 \in Nat /\ n - 1 < MaxPos /\ n - 1 <= Len(stack)
    BY <2>1, ContextAssumption DEF TypeOK, ContextAssumption
  <2>4. stack' \in Seq(Context \cup {Hole}) /\ Len(stack') = n - 1
    BY <2>1, <2>3 DEF TypeOK
  <2>5. droppedInPop' \subseteq Spans \cup Entries
    BY <1>4 DEF PopTop, DroppedByPop, TypeOK, Context
  <2>6. /\ saved' \in Context /\ guardPos' \in [Guards -> 0..MaxPos]
        /\ guardCx' \in [Guards -> Context] /\ before' \subseteq Guards \X Guards
        /\ droppedInPush' \subseteq Spans \cup Entries
    BY <1>4, ContextAssumption DEF PopTop, Forget, TypeOK, ContextAssumption
  <2> QED
    BY <2>2, <2>3, <2>4, <2>5, <2>6 DEF TypeOK
<1>5. ASSUME NEW g \in Guards, PopBelow(g) PROVE TypeOK'
  <2> DEFINE popped == stack[guardPos[g] + 1]
  <2>1. guardPos[g] + 1 \in DOMAIN stack /\ guardPos[g] \in 1..(MaxPos - 1)
    BY <1>5, ContextAssumption DEF PopBelow, TypeOK, ContextAssumption
  <2>2. guardPos[g] # Len(stack) /\ g \in Attached
    BY <1>5, <2>1 DEF PopBelow, TypeOK, Attached
  <2>3. popped \in Context
    BY <2>2 DEF GuardsValid, ContextAt, TypeOK, Attached
  <2>4. droppedInPop' \subseteq Spans \cup Entries
    BY <1>5, <2>3 DEF PopBelow, DroppedByPop, TypeOK, Context
  <2>5. stack' \in Seq(Context \cup {Hole}) /\ Len(stack') = Len(stack)
    BY <1>5, <2>1 DEF PopBelow, TypeOK
  <2>6. /\ saved' \in Context /\ guardPos' \in [Guards -> 0..MaxPos]
        /\ guardCx' \in [Guards -> Context] /\ before' \subseteq Guards \X Guards
        /\ droppedInPush' \subseteq Spans \cup Entries /\ currentCx' \in Context
    BY <1>5, ContextAssumption DEF PopBelow, Forget, TypeOK, ContextAssumption
  <2> QED
    BY <2>4, <2>5, <2>6 DEF TypeOK
<1>6. ASSUME NEW g \in Guards, DropRefused(g) PROVE TypeOK'
  BY <1>6, ContextAssumption DEF DropRefused, Forget, TypeOK, ContextAssumption
<1>7. CASE UNCHANGED vars
  BY <1>7 DEF vars, historyVars, TypeOK
<1> QED
  BY <1>1, <1>2, <1>3, <1>4, <1>5, <1>6, <1>7, DerivedType DEF Next, Attach, DropGuard

(* Steps that leave the stack and the attached guards alone. *)
LEMMA Undisturbed ==
    ASSUME ContextIndInv, UNCHANGED <<currentCx, stack, before>>, TypeOK',
           Attached' = Attached,
           \A g \in Attached : guardPos'[g] = guardPos[g] /\ guardCx'[g] = guardCx[g]
    PROVE  ContextIndInv'
BY DEF ContextIndInv, GuardsValid, NothingRetained, OrderIsPosition, ContextAt

(* Dropping a guard takes it out of the attached ones and of their order. *)
LEMMA ForgetGuard ==
    ASSUME ContextIndInv, NEW g \in Guards, Forget(g), guardPos[g] # 0
    PROVE  /\ Attached' = Attached \ {g}
           /\ \A h \in Attached' : guardPos'[h] = guardPos[h] /\ guardCx'[h] = guardCx[h]
           /\ OrderIsPosition'
<1>1. Attached' = Attached \ {g}
  BY ContextAssumption DEF ContextIndInv, TypeOK, Forget, Attached, ContextAssumption
<1>2. \A h \in Attached' : guardPos'[h] = guardPos[h] /\ guardCx'[h] = guardCx[h]
  BY <1>1 DEF ContextIndInv, TypeOK, Forget, Attached
<1>3. before' \subseteq Attached' \X Attached'
  BY <1>1 DEF ContextIndInv, OrderIsPosition, Forget
<1>4. ASSUME NEW h \in Attached', NEW k \in Attached'
      PROVE  <<h, k>> \in before' <=> guardPos'[h] < guardPos'[k]
  <2>1. <<h, k>> \in before' <=> <<h, k>> \in before
    BY <1>1 DEF Forget
  <2> QED
    BY <1>1, <1>2, <2>1 DEF ContextIndInv, OrderIsPosition
<1> QED
  BY <1>1, <1>2, <1>3, <1>4 DEF OrderIsPosition

(* A successful attach puts the new guard on top of all others. *)
LEMMA PushStep ==
    ASSUME ContextIndInv, TypeOK', NEW g \in Guards, NEW cx \in Context, Push(g, cx)
    PROVE  ContextIndInv'
<1> DEFINE n == Len(stack)
<1>1. n \in Nat /\ Len(stack') = n + 1 /\ n + 1 \in 1..(MaxPos - 1)
  BY ContextAssumption DEF ContextIndInv, TypeOK, Push, CanPush, ContextAssumption
<1>2. \A p \in 0..n : ContextAt(p)' = ContextAt(p)
  BY <1>1 DEF ContextIndInv, TypeOK, Push, ContextAt
<1>3. \A p : p = n + 1 => ContextAt(p)' = cx
  BY <1>1 DEF Push, ContextAt
<1>4. g \notin Attached /\ Attached' = Attached \cup {g}
  BY <1>1, ContextAssumption DEF ContextIndInv, TypeOK, Push, Attached, ContextAssumption
<1>5. /\ guardPos'[g] = n + 1 /\ guardCx'[g] = cx
      /\ \A h \in Attached : guardPos'[h] = guardPos[h] /\ guardCx'[h] = guardCx[h]
  BY <1>4 DEF ContextIndInv, TypeOK, Push, Attached
<1>6. \A h \in Attached : guardPos[h] \in 1..n
  BY <1>1 DEF ContextIndInv, GuardsValid, Attached
<1>7. GuardsValid'
  <2>1. ContextAt(0)' = Empty
    BY <1>1, <1>2 DEF ContextIndInv, GuardsValid
  <2>2. ASSUME NEW h \in Attached'
        PROVE  guardPos'[h] <= Len(stack') /\ ContextAt(guardPos[h])' = guardCx'[h]
    <3>1. CASE h = g
      <4>1. guardPos'[h] = n + 1
        BY <1>5, <3>1
      <4> QED
        BY <1>1, <1>5, <3>1, <4>1 DEF ContextAt, Push
    <3>2. CASE h # g
      <4>1. h \in Attached /\ guardPos'[h] = guardPos[h]
        BY <1>4, <1>5, <3>2
      <4>2. ContextAt(guardPos[h]) = guardCx[h]
        BY <4>1 DEF ContextIndInv, GuardsValid
      <4>3. guardPos[h] \in 0..n
        BY <4>1, <1>6, <1>1
      <4>4. ContextAt(guardPos[h])' = ContextAt(guardPos[h])
        BY <1>2, <4>1, <4>3 DEF ContextAt
      <4> QED
        BY <1>1, <1>5, <4>1, <4>2, <4>3, <4>4
    <3> QED
      BY <3>1, <3>2
  <2>3. ASSUME NEW h \in Attached', NEW k \in Attached', guardPos'[h] = guardPos'[k]
        PROVE  h = k
    BY <1>1, <1>4, <1>5, <1>6, <2>3 DEF ContextIndInv, GuardsValid
  <2> QED
    BY <2>1, <2>2, <2>3 DEF GuardsValid
<1>8. NothingRetained'
  <2> SUFFICES ASSUME NEW p \in 1..Len(stack'), ContextAt(p)' # Hole
               PROVE  \E h \in Attached' : guardPos'[h] = p
    BY DEF NothingRetained
  <2>1. CASE p = n + 1
    BY <1>4, <1>5, <2>1
  <2>2. CASE p # n + 1
    <3>1. p \in 1..n
      BY <1>1, <2>2
    <3>2. ContextAt(p) # Hole
      BY <1>1, <1>2, <3>1
    <3>3. PICK h \in Attached : guardPos[h] = p
      BY <3>1, <3>2 DEF ContextIndInv, NothingRetained
    <3> QED
      BY <1>4, <1>5, <3>3
  <2> QED
    BY <2>1, <2>2
<1>9. OrderIsPosition'
  <2>1. before' = before \cup (Attached \X {g})
    BY DEF Push
  <2>2. before' \subseteq Attached' \X Attached'
    BY <1>4, <2>1 DEF ContextIndInv, OrderIsPosition
  <2>3. ASSUME NEW h \in Attached', NEW k \in Attached'
        PROVE  <<h, k>> \in before' <=> guardPos'[h] < guardPos'[k]
    <3>1. CASE k = g
      <4>1. <<h, k>> \in before' <=> h \in Attached
        BY <1>4, <2>1, <3>1 DEF ContextIndInv, OrderIsPosition
      <4>2. guardPos'[h] < guardPos'[k] <=> h \in Attached
        BY <1>1, <1>4, <1>5, <1>6, <3>1
      <4> QED
        BY <4>1, <4>2
    <3>2. CASE k # g /\ h = g
      <4>1. <<h, k>> \notin before'
        BY <1>4, <2>1, <3>2 DEF ContextIndInv, OrderIsPosition
      <4>2. ~(guardPos'[h] < guardPos'[k])
        BY <1>1, <1>4, <1>5, <1>6, <3>2
      <4> QED
        BY <4>1, <4>2
    <3>3. CASE k # g /\ h # g
      <4>1. h \in Attached /\ k \in Attached
        BY <1>4, <3>3
      <4>2. <<h, k>> \in before' <=> <<h, k>> \in before
        BY <2>1, <3>3
      <4> QED
        BY <1>5, <4>1, <4>2 DEF ContextIndInv, OrderIsPosition
    <3> QED
      BY <3>1, <3>2, <3>3
  <2> QED
    BY <2>2, <2>3 DEF OrderIsPosition
<1> QED
  BY <1>7, <1>8, <1>9 DEF ContextIndInv

(* Popping the top uncovers the highest context that still has a guard. *)
LEMMA PopTopStep ==
    ASSUME ContextIndInv, TypeOK', NEW g \in Guards, PopTop(g)
    PROVE  ContextIndInv'
<1>1. PICK n \in DOMAIN stack :
        /\ stack[n] # Hole
        /\ \A m \in (n + 1)..Len(stack) : stack[m] = Hole
        /\ currentCx' = stack[n]
        /\ stack' = SubSeq(stack, 1, n - 1)
  BY DEF PopTop
<1>2. /\ n \in 1..Len(stack) /\ Len(stack) \in Nat /\ Len(stack) < MaxPos
      /\ Len(stack') = n - 1
      /\ \A i \in 1..(n - 1) : stack'[i] = stack[i]
  BY <1>1 DEF ContextIndInv, TypeOK
<1>3. \A p \in 0..(n - 1) : ContextAt(p)' = ContextAt(p)
  BY <1>1, <1>2 DEF ContextAt
<1>4. \A p \in n..(Len(stack) - 1) : ContextAt(p) = Hole
  BY <1>1, <1>2 DEF ContextAt
<1>5. /\ Attached' = Attached \ {g}
      /\ \A h \in Attached' : guardPos'[h] = guardPos[h] /\ guardCx'[h] = guardCx[h]
      /\ OrderIsPosition'
      /\ guardPos[g] = Len(stack)
  BY ForgetGuard DEF PopTop, ContextIndInv, TypeOK
<1>6. \A h \in Attached' : guardPos[h] \in 1..(n - 1)
  <2> SUFFICES ASSUME NEW h \in Attached' PROVE guardPos[h] \in 1..(n - 1)
    OBVIOUS
  <2>1. h \in Attached /\ h # g /\ g \in Attached
    BY <1>2, <1>5, ContextAssumption DEF Attached, ContextAssumption
  <2>2. guardPos[h] \in 1..(Len(stack) - 1)
    BY <1>2, <1>5, <2>1 DEF ContextIndInv, GuardsValid, Attached
  <2>3. ContextAt(guardPos[h]) = guardCx[h]
    BY <2>1 DEF ContextIndInv, GuardsValid
  <2>4. guardCx[h] # Hole
    BY <2>1, ContextAssumption DEF ContextIndInv, TypeOK, Attached, ContextAssumption
  <2> QED
    BY <1>2, <1>4, <2>2, <2>3, <2>4
<1>7. GuardsValid'
  <2>1. ContextAt(0)' = Empty
    BY <1>2, <1>3 DEF ContextIndInv, GuardsValid
  <2>2. ASSUME NEW h \in Attached'
        PROVE  guardPos'[h] <= Len(stack') /\ ContextAt(guardPos[h])' = guardCx'[h]
    <3>1. h \in Attached /\ guardPos'[h] = guardPos[h] /\ guardPos[h] \in 0..(n - 1)
      BY <1>2, <1>5, <1>6
    <3>2. ContextAt(guardPos[h])' = ContextAt(guardPos[h])
      BY <1>3, <3>1 DEF ContextAt
    <3>3. ContextAt(guardPos[h]) = guardCx[h]
      BY <3>1 DEF ContextIndInv, GuardsValid
    <3> QED
      BY <1>2, <1>5, <3>1, <3>2, <3>3
  <2>3. \A h, k \in Attached' : guardPos'[h] = guardPos'[k] => h = k
    BY <1>5 DEF ContextIndInv, GuardsValid
  <2> QED
    BY <2>1, <2>2, <2>3 DEF GuardsValid
<1>8. NothingRetained'
  <2> SUFFICES ASSUME NEW p \in 1..Len(stack'), ContextAt(p)' # Hole
               PROVE  \E h \in Attached' : guardPos'[h] = p
    BY DEF NothingRetained
  <2>1. p \in 1..(n - 1) /\ p \in 1..Len(stack) /\ p # Len(stack)
    BY <1>2
  <2>2. ContextAt(p) # Hole
    BY <1>2, <1>3, <2>1
  <2>3. PICK h \in Attached : guardPos[h] = p
    BY <2>1, <2>2 DEF ContextIndInv, NothingRetained
  <2> QED
    BY <1>5, <2>1, <2>3
<1> QED
  BY <1>5, <1>7, <1>8 DEF ContextIndInv

(* A drop below the top leaves a hole and every other context in place. *)
LEMMA PopBelowStep ==
    ASSUME ContextIndInv, TypeOK', NEW g \in Guards, PopBelow(g)
    PROVE  ContextIndInv'
<1> DEFINE q == guardPos[g]
<1>1. /\ q \in 1..(Len(stack) - 1) /\ Len(stack') = Len(stack) /\ Len(stack) \in Nat
      /\ stack' = [stack EXCEPT ![q + 1] = Hole]
  BY DEF PopBelow, ContextIndInv, TypeOK
<1>2. \A p \in (0..Len(stack)) \ {q} : ContextAt(p)' = ContextAt(p)
  <2> SUFFICES ASSUME NEW p \in (0..Len(stack)) \ {q} PROVE ContextAt(p)' = ContextAt(p)
    OBVIOUS
  <2>1. CASE p = Len(stack)
    BY <1>1, <2>1 DEF PopBelow, ContextAt
  <2>2. CASE p # Len(stack)
    <3>1. p + 1 \in DOMAIN stack
      <4>1. p \in 0..Len(stack) /\ Len(stack) \in Nat
        BY <1>1
      <4>2. p + 1 \in 1..Len(stack)
        BY <2>2, <4>1
      <4>3. DOMAIN stack = 1..Len(stack)
        BY DEF ContextIndInv, TypeOK
      <4> QED
        BY <4>2, <4>3
    <3>2. p # q /\ p \in Nat /\ q \in Nat
      BY <1>1
    <3>3. p + 1 # q + 1
      BY <3>2
    <3>4. stack'[p + 1] = stack[p + 1]
      BY <1>1, <3>1, <3>3
    <3> QED
      BY <1>1, <2>2, <3>4 DEF ContextAt
  <2> QED
    BY <2>1, <2>2
<1>3. \A p \in 1..(Len(stack) - 1) : p = q => ContextAt(p)' = Hole
  <2> SUFFICES ASSUME NEW p \in 1..(Len(stack) - 1), p = q PROVE ContextAt(p)' = Hole
    OBVIOUS
  <2>1. p + 1 \in DOMAIN stack /\ p # Len(stack')
    BY <1>1 DEF ContextIndInv, TypeOK
  <2>2. stack'[p + 1] = Hole
    BY <1>1, <2>1
  <2> QED
    BY <2>1, <2>2 DEF ContextAt
<1>4. /\ Attached' = Attached \ {g}
      /\ \A h \in Attached' : guardPos'[h] = guardPos[h] /\ guardCx'[h] = guardCx[h]
      /\ OrderIsPosition'
  BY <1>1, ForgetGuard DEF PopBelow
<1>5. GuardsValid'
  <2>1. ContextAt(0)' = Empty
    BY <1>1, <1>2 DEF ContextIndInv, GuardsValid
  <2>2. ASSUME NEW h \in Attached'
        PROVE  guardPos'[h] <= Len(stack') /\ ContextAt(guardPos[h])' = guardCx'[h]
    <3>1. g \in Attached
      BY <1>1, ContextAssumption DEF Attached, ContextIndInv, TypeOK, ContextAssumption
    <3>2. /\ h \in Attached /\ guardPos'[h] = guardPos[h]
          /\ guardPos[h] \in (0..Len(stack)) \ {q}
      BY <1>1, <1>4, <3>1 DEF ContextIndInv, GuardsValid, Attached
    <3>3. ContextAt(guardPos[h])' = ContextAt(guardPos[h])
      BY <1>2, <3>2 DEF ContextAt
    <3>4. ContextAt(guardPos[h]) = guardCx[h]
      BY <3>2 DEF ContextIndInv, GuardsValid
    <3> QED
      BY <1>1, <1>4, <3>2, <3>3, <3>4
  <2>3. \A h, k \in Attached' : guardPos'[h] = guardPos'[k] => h = k
    BY <1>4 DEF ContextIndInv, GuardsValid
  <2> QED
    BY <2>1, <2>2, <2>3 DEF GuardsValid
<1>6. NothingRetained'
  <2> SUFFICES ASSUME NEW p \in 1..Len(stack'), ContextAt(p)' # Hole
               PROVE  \E h \in Attached' : guardPos'[h] = p
    BY DEF NothingRetained
  <2>1. p \in 1..Len(stack) /\ p \in (0..Len(stack)) \ {q}
    BY <1>1, <1>3
  <2>2. ContextAt(p) # Hole
    BY <1>2, <2>1
  <2>3. PICK h \in Attached : guardPos[h] = p
    BY <2>1, <2>2 DEF ContextIndInv, NothingRetained
  <2> QED
    BY <1>4, <2>1, <2>3
<1> QED
  BY <1>4, <1>5, <1>6 DEF ContextIndInv

(* The invariant is inductive. *)
LEMMA ContextInductive == ContextIndInv /\ [Next]_vars => ContextIndInv'
<1> SUFFICES ASSUME ContextIndInv, [Next]_vars PROVE ContextIndInv'
  OBVIOUS
<1> TypeOK'
  BY ContextTypeStep
<1>1. CASE Save
  BY <1>1, Undisturbed DEF Save, historyVars, Attached
<1>2. ASSUME NEW g \in Guards, NEW cx \in Context, Push(g, cx) PROVE ContextIndInv'
  BY <1>2, PushStep
<1>3. ASSUME NEW g \in Guards, NEW cx \in Context, PushRefused(g, cx) PROVE ContextIndInv'
  <2>1. Attached' = Attached
    BY <1>3, ContextAssumption DEF PushRefused, Attached, ContextIndInv, TypeOK, ContextAssumption
  <2>2. \A h \in Attached : guardPos'[h] = guardPos[h] /\ guardCx'[h] = guardCx[h]
    BY <1>3 DEF PushRefused, Attached, ContextIndInv, TypeOK
  <2> QED
    BY <1>3, <2>1, <2>2, Undisturbed DEF PushRefused
<1>4. ASSUME NEW g \in Guards, PopTop(g) PROVE ContextIndInv'
  BY <1>4, PopTopStep
<1>5. ASSUME NEW g \in Guards, PopBelow(g) PROVE ContextIndInv'
  BY <1>5, PopBelowStep
<1>6. ASSUME NEW g \in Guards, DropRefused(g) PROVE ContextIndInv'
  <2>1. /\ Attached' = Attached \ {g} /\ g \notin Attached
        /\ \A h \in Attached' : guardPos'[h] = guardPos[h] /\ guardCx'[h] = guardCx[h]
        /\ OrderIsPosition'
    BY <1>6, ForgetGuard, ContextAssumption DEF DropRefused, Attached, ContextAssumption
  <2>2. GuardsValid'
    BY <1>6, <2>1 DEF DropRefused, ContextIndInv, GuardsValid, ContextAt
  <2>3. NothingRetained'
    BY <1>6, <2>1 DEF DropRefused, ContextIndInv, NothingRetained, ContextAt
  <2> QED
    BY <2>1, <2>2, <2>3 DEF ContextIndInv
<1>7. CASE UNCHANGED vars
  BY <1>7, Undisturbed DEF vars, historyVars, Attached
<1> QED
  BY <1>1, <1>2, <1>3, <1>4, <1>5, <1>6, <1>7, DerivedType
     DEF Next, Attach, DropGuard, ContextIndInv

(* The empty stack satisfies it. *)
LEMMA InitialState == Init => ContextIndInv
<1> SUFFICES ASSUME Init PROVE ContextIndInv
  OBVIOUS
<1>1. Attached = {} /\ Len(stack) = 0
  BY DEF Init, Attached
<1>2. TypeOK
  BY <1>1, ContextAssumption DEF Init, TypeOK, Empty, Context, ContextAssumption
<1>3. GuardsValid /\ NothingRetained /\ OrderIsPosition
  BY <1>1 DEF Init, GuardsValid, NothingRetained, OrderIsPosition, ContextAt
<1> QED
  BY <1>2, <1>3 DEF ContextIndInv

(* So it holds in every reachable state. *)
LEMMA Invariance == Spec => []ContextIndInv
BY InitialState, ContextInductive, PTL DEF Spec

-----------------------------------------------------------------------------
(* The guard on top of the stack is the newest one, and its context is the  *)
(* current one.                                                             *)
LEMMA TopIsNewest == ContextIndInv => CurrentIsNewest
<1> SUFFICES ASSUME ContextIndInv PROVE CurrentIsNewest
  OBVIOUS
<1>1. Len(stack) \in Nat /\ ContextAt(Len(stack)) = currentCx /\ currentCx # Hole
  BY ContextAssumption DEF ContextIndInv, TypeOK, ContextAt, ContextAssumption
<1>2. Len(stack) # 0 => \E g \in Attached : guardPos[g] = Len(stack)
  BY <1>1 DEF ContextIndInv, NothingRetained
<1>3. ASSUME Attached = {} PROVE currentCx = Empty
  BY <1>1, <1>2, <1>3 DEF ContextIndInv, GuardsValid
<1>4. ASSUME NEW g \in Attached, \A h \in Attached \ {g} : <<h, g>> \in before
      PROVE  currentCx = guardCx[g]
  <2>1. guardPos[g] \in 1..Len(stack) /\ ContextAt(guardPos[g]) = guardCx[g]
    BY <1>1 DEF ContextIndInv, GuardsValid, Attached
  <2>2. PICK t \in Attached : guardPos[t] = Len(stack)
    BY <1>1, <1>2, <2>1
  <2>3. CASE t = g
    BY <1>1, <2>1, <2>2, <2>3
  <2>4. CASE t # g
    <3>1. guardPos[t] < guardPos[g]
      BY <1>4, <2>4 DEF ContextIndInv, OrderIsPosition
    <3> QED
      BY <1>1, <2>1, <2>2, <3>1
  <2> QED
    BY <2>3, <2>4
<1> QED
  BY <1>3, <1>4 DEF CurrentIsNewest

(* Every variable of the context stack keeps its type and the stack its     *)
(* bound (push).                                                            *)
THEOREM TypeCorrect == Spec => []TypeOK
BY Invariance, PTL DEF ContextIndInv

(* "the ids are always valid": a live guard finds its own context at its    *)
(* position, whatever was attached and dropped in between (push, pop_id).   *)
THEOREM PositionsValid == Spec => []GuardsValid
BY Invariance, PTL DEF ContextIndInv

(* No context stays in the stack once its guard was dropped (pop_id).       *)
THEOREM NothingKept == Spec => []NothingRetained
BY Invariance, PTL DEF ContextIndInv

(* Guards dropped in any order leave the newest attached context current.   *)
THEOREM NewestIsCurrent == Spec => []CurrentIsNewest
BY Invariance, TopIsNewest, PTL

-----------------------------------------------------------------------------
(* The OTLP exporter. *)

ErrorType == [code : {"none", "429", "ResourceExhausted", "Network", "4xx", "5xx", "Unavailable",
                      "Internal"},
              hint : {NoHint} \cup ServerDelays]

OtlpTypeOK ==
    /\ transport \in {"http", "grpc"} /\ clientThere \in BOOLEAN
    /\ xPc \in [Exports -> {"new", "attempt", "sent", "failed", "done"}]
    /\ attempt \in [Exports -> 0..MaxRetries]
    /\ delay \in [Exports -> Nat] /\ failure \in [Exports -> ErrorType]
    /\ answer \in [Exports -> {"none", "Ok", "Err"}]
    /\ waited \in [Exports -> Nat] /\ throttles \in [Exports -> Nat]
    /\ stored \in [Exports -> Nat] /\ lostAnswers \in [Exports -> Nat]

(* An export answers when it is done. *)
Answered(x) == answer[x] = "none" <=> xPc[x] # "done"
(* Only the attempt just made may have stored the batch besides those that  *)
(* were repeated.                                                           *)
StoresFollowAttempts(x) ==
    /\ xPc[x] \in {"new", "attempt", "sent"} => stored[x] <= attempt[x]
    /\ xPc[x] \in {"failed", "done"} => stored[x] <= attempt[x] + 1
    /\ stored[x] = lostAnswers[x] + (IF answer[x] = "Ok" THEN 1 ELSE 0)
LastAttempt(x) ==
    answer[x] = "Err" => Classify(failure[x]) = "NonRetryable" \/ attempt[x] = MaxRetries
DelaysBounded(x) ==
    /\ throttles[x] <= attempt[x]
    /\ waited[x] <= (attempt[x] - throttles[x]) * MaxDelay + throttles[x] * DelayCap

ExportInv(x) ==
    /\ Answered(x) /\ StoresFollowAttempts(x) /\ LastAttempt(x) /\ DelaysBounded(x)
OtlpIndInv == OtlpTypeOK /\ \A x \in Exports : ExportInv(x)

-----------------------------------------------------------------------------
LEMMA PolicyType == {MaxRetries, InitialDelay, MaxDelay, JitterMax, DelayCap} \subseteq Nat
BY RetryAssumption DEF RetryAssumption

(* The smaller of two numbers. *)
LEMMA MinOfTwo ==
    ASSUME NEW a \in Nat, NEW b \in Nat
    PROVE  Min({a, b}) \in Nat /\ Min({a, b}) <= b
<1> \E m \in {a, b} : \A y \in {a, b} : m <= y
  <2>1. CASE a <= b
    BY <2>1
  <2>2. CASE b <= a
    BY <2>2
  <2> QED
    BY <2>1, <2>2
<1> QED
  BY DEF Min

(* One delay more of either kind. *)
LEMMA OneMore ==
    ASSUME NEW n \in Nat, NEW d \in Nat PROVE (n + 1) * d = n * d + d /\ n * d \in Nat
BY Z3

(* Every error an attempt can meet has its type. *)
LEMMA ErrorTyped ==
    ASSUME OtlpTypeOK, NEW code \in Codes[transport], NEW hint \in Hints(code)
    PROVE  Error(code, hint) \in ErrorType
<1> code \in {"Network", "429", "4xx", "5xx", "ResourceExhausted", "Unavailable", "Internal"}
  BY DEF Codes, OtlpTypeOK
<1> hint \in {NoHint} \cup ServerDelays
  BY DEF Hints
<1> QED
  BY DEF Error, ErrorType

(* Without a hint nothing is throttled, and a bad request is not repeated. *)
LEMMA BadRequest == Classify(Error("4xx", NoHint)) = "NonRetryable"
BY DEF Classify, Error, Throttling

(* What is throttled carries a delay. *)
LEMMA ThrottledDelay ==
    ASSUME NEW e \in ErrorType, Classify(e) = "Throttled" PROVE e.hint \in Nat
<1> e.hint # NoHint
  BY DEF Classify, ErrorType, Throttling
<1> QED
  BY RetryAssumption DEF ErrorType, RetryAssumption

-----------------------------------------------------------------------------
(* Types hold at first and survive every step. *)
LEMMA TypeInit == OtlpInit => OtlpTypeOK
BY PolicyType DEF OtlpInit, OtlpTypeOK, ErrorType, NoError, Error

LEMMA OtlpTypeStep ==
    ASSUME OtlpTypeOK, [OtlpNext]_otlpVars PROVE OtlpTypeOK'
<1> USE PolicyType
<1>1. ASSUME NEW x \in Exports, BuildBody(x) PROVE OtlpTypeOK'
  <2>1. Error("4xx", NoHint) \in ErrorType
    BY DEF Error, ErrorType
  <2>2. answer' \in [Exports -> {"none", "Ok", "Err"}] /\ failure' \in [Exports -> ErrorType]
    BY <1>1, <2>1 DEF BuildBody, OtlpTypeOK
  <2> QED
    BY <1>1, <2>2 DEF BuildBody, OtlpTypeOK
<1>2. ASSUME NEW x \in Exports, TakeClient(x) PROVE OtlpTypeOK'
  <2> AlreadyShutDown \in ErrorType
    BY DEF AlreadyShutDown, Error, ErrorType
  <2> QED
    BY <1>2 DEF TakeClient, OtlpTypeOK
<1>3. ASSUME NEW x \in Exports, Succeed(x) PROVE OtlpTypeOK'
  BY <1>3 DEF Succeed, OtlpTypeOK, retryVars
<1>4. ASSUME NEW x \in Exports, NEW code \in Codes[transport], NEW hint \in Hints(code),
             Fail(x, Error(code, hint))
      PROVE OtlpTypeOK'
  <2>1. Error(code, hint) \in ErrorType
    BY ErrorTyped
  <2>2. stored' \in [Exports -> Nat] /\ lostAnswers' \in [Exports -> Nat]
    BY <1>4 DEF Fail, OtlpTypeOK
  <2> QED
    BY <1>4, <2>1, <2>2 DEF Fail, OtlpTypeOK
<1>5. ASSUME NEW x \in Exports, Delay(x) PROVE OtlpTypeOK'
  <2>1. attempt' \in [Exports -> 0..MaxRetries]
    BY <1>5 DEF Delay, RetriesLeft, OtlpTypeOK
  <2>2. CASE Classify(failure[x]) = "Retryable"
    <3>1. PICK jitter \in 0..JitterMax :
            waited' = [waited EXCEPT ![x] = @ + Min({delay[x] + jitter, MaxDelay})]
      BY <1>5, <2>2 DEF Delay
    <3>2. Min({delay[x] + jitter, MaxDelay}) \in Nat /\ Min({2 * delay[x], MaxDelay}) \in Nat
      BY MinOfTwo DEF OtlpTypeOK
    <3>3. delay' = [delay EXCEPT ![x] = Min({2 * delay[x], MaxDelay})] /\ throttles' = throttles
      BY <1>5, <2>2 DEF Delay
    <3> QED
      BY <1>5, <2>1, <3>1, <3>2, <3>3 DEF Delay, OtlpTypeOK
  <2>3. CASE Classify(failure[x]) = "Throttled"
    <3>1. /\ waited' = [waited EXCEPT ![x] = @ + Capped(failure[x].hint)]
          /\ throttles' = [throttles EXCEPT ![x] = @ + 1] /\ delay' = delay
      BY <1>5, <2>3 DEF Delay
    <3>2. Capped(failure[x].hint) \in Nat
      BY <2>3, ThrottledDelay, MinOfTwo DEF Capped, OtlpTypeOK
    <3> QED
      BY <1>5, <2>1, <3>1, <3>2 DEF Delay, OtlpTypeOK
  <2> QED
    BY <1>5, <2>2, <2>3 DEF Delay
<1>6. ASSUME NEW x \in Exports, GiveUp(x) PROVE OtlpTypeOK'
  BY <1>6 DEF GiveUp, OtlpTypeOK, retryVars
<1>7. CASE ShutdownClient
  BY <1>7 DEF ShutdownClient, OtlpTypeOK, retryVars
<1>8. CASE UNCHANGED otlpVars
  BY <1>8 DEF otlpVars, retryVars, OtlpTypeOK
<1> QED
  BY <1>1, <1>2, <1>3, <1>4, <1>5, <1>6, <1>7, <1>8 DEF OtlpNext

-----------------------------------------------------------------------------
(* A step of one export leaves the others alone. *)
Untouched(x) ==
    /\ xPc'[x] = xPc[x] /\ attempt'[x] = attempt[x] /\ failure'[x] = failure[x]
    /\ waited'[x] = waited[x] /\ throttles'[x] = throttles[x] /\ answer'[x] = answer[x]
    /\ stored'[x] = stored[x] /\ lostAnswers'[x] = lostAnswers[x]

LEMMA UntouchedKeeps ==
    ASSUME NEW x \in Exports, ExportInv(x), Untouched(x) PROVE ExportInv(x)'
BY DEF ExportInv, Untouched, Answered, StoresFollowAttempts, LastAttempt, DelaysBounded, Classify

(* The delay before another attempt stays within the bounds. *)
LEMMA DelayBound ==
    ASSUME OtlpTypeOK, NEW x \in Exports, ExportInv(x), Delay(x) PROVE DelaysBounded(x)'
<1> DEFINE a == attempt[x]
           n == throttles[x]
           w == waited[x]
<1>0. /\ a \in Nat /\ n \in Nat /\ w \in Nat /\ n <= a
      /\ w <= (a - n) * MaxDelay + n * DelayCap
  BY PolicyType DEF OtlpTypeOK, ExportInv, DelaysBounded
<1>1. attempt'[x] = a + 1
  BY <1>0 DEF Delay, OtlpTypeOK
<1>2. CASE Classify(failure[x]) = "Retryable"
  <2>1. PICK jitter \in 0..JitterMax :
          waited' = [waited EXCEPT ![x] = @ + Min({delay[x] + jitter, MaxDelay})]
    BY <1>2 DEF Delay
  <2>a. delay[x] + jitter \in Nat
    BY PolicyType DEF OtlpTypeOK
  <2>2. PICK d \in Nat : d <= MaxDelay /\ waited'[x] = w + d
    BY <2>1, <2>a, MinOfTwo, PolicyType DEF OtlpTypeOK
  <2>3. throttles'[x] = n
    BY <1>2 DEF Delay
  <2>4. (a - n) \in Nat /\ (a + 1) - n = (a - n) + 1
    BY <1>0
  <2>5. ((a - n) + 1) * MaxDelay = (a - n) * MaxDelay + MaxDelay /\ (a - n) * MaxDelay \in Nat
    BY <2>4, OneMore, PolicyType
  <2>6. n * DelayCap \in Nat
    BY <1>0, OneMore, PolicyType
  <2> HIDE DEF a, n, w
  <2>7. w + d <= ((a + 1) - n) * MaxDelay + n * DelayCap
    BY <1>0, <2>2, <2>4, <2>5, <2>6, PolicyType
  <2> QED
    BY <1>0, <1>1, <2>2, <2>3, <2>7 DEF DelaysBounded
<1>3. CASE Classify(failure[x]) = "Throttled"
  <2>1. waited' = [waited EXCEPT ![x] = @ + Capped(failure[x].hint)]
    BY <1>3 DEF Delay
  <2>2. PICK d \in Nat : d <= DelayCap /\ waited'[x] = w + d
    BY <1>3, <2>1, ThrottledDelay, MinOfTwo, PolicyType DEF OtlpTypeOK, Capped
  <2>3. throttles'[x] = n + 1
    BY <1>3 DEF Delay, OtlpTypeOK
  <2>4. (a - n) \in Nat /\ (a + 1) - (n + 1) = a - n
    BY <1>0
  <2>5. (n + 1) * DelayCap = n * DelayCap + DelayCap /\ n * DelayCap \in Nat
    BY <1>0, OneMore, PolicyType
  <2>6. (a - n) * MaxDelay \in Nat
    BY <2>4, OneMore, PolicyType
  <2> HIDE DEF a, n, w
  <2>7. w + d <= ((a + 1) - (n + 1)) * MaxDelay + (n + 1) * DelayCap
    BY <1>0, <2>2, <2>4, <2>5, <2>6, PolicyType
  <2> QED
    BY <1>0, <1>1, <2>2, <2>3, <2>7 DEF DelaysBounded
<1> QED
  BY <1>2, <1>3 DEF Delay

(* Every step keeps what is known of every export. *)
LEMMA ExportStep ==
    ASSUME OtlpIndInv, [OtlpNext]_otlpVars, NEW y \in Exports PROVE ExportInv(y)'
<1> USE DEF OtlpIndInv
<1>1. ASSUME NEW x \in Exports, BuildBody(x) PROVE ExportInv(y)'
  <2>1. CASE y # x
    BY <1>1, <2>1, UntouchedKeeps DEF BuildBody, Untouched, OtlpTypeOK
  <2>2. CASE y = x
    BY <1>1, <2>2, BadRequest
       DEF BuildBody, ExportInv, Answered, StoresFollowAttempts, LastAttempt, DelaysBounded,
              OtlpTypeOK
  <2> QED
    BY <2>1, <2>2
<1>2. ASSUME NEW x \in Exports, TakeClient(x) PROVE ExportInv(y)'
  <2>1. CASE y # x
    BY <1>2, <2>1, UntouchedKeeps DEF TakeClient, Untouched, OtlpTypeOK
  <2>2. CASE y = x
    BY <1>2, <2>2
       DEF TakeClient, ExportInv, Answered, StoresFollowAttempts, LastAttempt, DelaysBounded,
              OtlpTypeOK
  <2> QED
    BY <2>1, <2>2
<1>3. ASSUME NEW x \in Exports, Succeed(x) PROVE ExportInv(y)'
  <2>1. CASE y # x
    BY <1>3, <2>1, UntouchedKeeps DEF Succeed, Untouched, OtlpTypeOK, retryVars
  <2>2. CASE y = x
    BY <1>3, <2>2 DEF Succeed, ExportInv, Answered, StoresFollowAttempts, LastAttempt,
                      DelaysBounded, OtlpTypeOK, retryVars
  <2> QED
    BY <2>1, <2>2
<1>4. ASSUME NEW x \in Exports, NEW e, Fail(x, e) PROVE ExportInv(y)'
  <2>1. PICK lost \in {0, 1} :
          /\ stored' = [stored EXCEPT ![x] = @ + lost]
          /\ lostAnswers' = [lostAnswers EXCEPT ![x] = @ + lost]
    BY <1>4 DEF Fail
  <2>2. CASE y # x
    BY <1>4, <2>1, <2>2, UntouchedKeeps DEF Fail, Untouched, OtlpTypeOK
  <2>3. CASE y = x
    BY <1>4, <2>1, <2>3 DEF Fail, ExportInv, Answered, StoresFollowAttempts, LastAttempt,
                            DelaysBounded, OtlpTypeOK
  <2> QED
    BY <2>2, <2>3
<1>5. ASSUME NEW x \in Exports, Delay(x) PROVE ExportInv(y)'
  <2>1. CASE y # x
    BY <1>5, <2>1, UntouchedKeeps DEF Delay, Untouched, OtlpTypeOK
  <2>2. CASE y = x
    <3>1. DelaysBounded(y)'
      BY <1>5, <2>2, DelayBound
    <3>2. Answered(y)' /\ StoresFollowAttempts(y)' /\ LastAttempt(y)'
      BY <1>5, <2>2 DEF Delay, ExportInv, Answered, StoresFollowAttempts, LastAttempt, OtlpTypeOK
    <3> QED
      BY <3>1, <3>2 DEF ExportInv
  <2> QED
    BY <2>1, <2>2
<1>6. ASSUME NEW x \in Exports, GiveUp(x) PROVE ExportInv(y)'
  <2>1. CASE y # x
    BY <1>6, <2>1, UntouchedKeeps DEF GiveUp, Untouched, OtlpTypeOK, retryVars
  <2>2. CASE y = x
    <3>1. LastAttempt(y)'
      BY <1>6, <2>2, PolicyType
         DEF GiveUp, LastAttempt, RetriesLeft, OtlpTypeOK, retryVars, Classify
    <3>2. Answered(y)' /\ StoresFollowAttempts(y)' /\ DelaysBounded(y)'
      BY <1>6, <2>2
         DEF GiveUp, ExportInv, Answered, StoresFollowAttempts, DelaysBounded, OtlpTypeOK,
                        retryVars
    <3> QED
      BY <3>1, <3>2 DEF ExportInv
  <2> QED
    BY <2>1, <2>2
<1>7. CASE ShutdownClient
  BY <1>7, UntouchedKeeps DEF ShutdownClient, Untouched, retryVars
<1>8. CASE UNCHANGED otlpVars
  BY <1>8, UntouchedKeeps DEF otlpVars, retryVars, Untouched
<1> QED
  BY <1>1, <1>2, <1>3, <1>4, <1>5, <1>6, <1>7, <1>8 DEF OtlpNext

-----------------------------------------------------------------------------
(* The inductive invariant: types, answers, stores and delays of every      *)
(* export.                                                                  *)
THEOREM OtlpInductive == OtlpSpec => []OtlpIndInv
<1>1. OtlpInit => OtlpIndInv
  <2> SUFFICES ASSUME OtlpInit PROVE OtlpIndInv
    OBVIOUS
  <2>1. OtlpTypeOK
    BY TypeInit
  <2>2. ASSUME NEW x \in Exports PROVE ExportInv(x)
    BY PolicyType
       DEF OtlpInit, ExportInv, Answered, StoresFollowAttempts, LastAttempt, DelaysBounded
  <2> QED
    BY <2>1, <2>2 DEF OtlpIndInv
<1>2. OtlpIndInv /\ [OtlpNext]_otlpVars => OtlpIndInv'
  BY OtlpTypeStep, ExportStep DEF OtlpIndInv
<1> QED
  BY <1>1, <1>2, PTL DEF OtlpSpec

(* Whatever the collector, the network and a shutdown do: Ok is a batch     *)
(* stored and known to be; an error was final or the last attempt allowed;  *)
(* a batch is stored at most MaxRetries + 1 times, again only for a lost    *)
(* answer; the delays respect the policy and the cap.                       *)
THEOREM OutcomeIsTrue == OtlpSpec => []ExportOutcome
<1>1. OtlpIndInv => ExportOutcome
  <2> SUFFICES ASSUME OtlpIndInv, NEW x \in Exports
               PROVE  /\ stored[x] = lostAnswers[x] + (IF answer[x] = "Ok" THEN 1 ELSE 0)
                      /\ LastAttempt(x)
                      /\ stored[x] <= MaxRetries + 1
                      /\ waited[x] <= (attempt[x] - throttles[x]) * MaxDelay
                                      + throttles[x] * DelayCap
    BY DEF ExportOutcome, LastAttempt
  <2>1. stored[x] \in Nat /\ attempt[x] \in 0..MaxRetries /\ MaxRetries \in Nat
    BY PolicyType DEF OtlpIndInv, OtlpTypeOK
  <2>2. stored[x] <= attempt[x] + 1
    BY <2>1 DEF OtlpIndInv, OtlpTypeOK, ExportInv, StoresFollowAttempts
  <2>3. stored[x] <= MaxRetries + 1
    BY <2>1, <2>2
  <2> QED
    BY <2>3 DEF OtlpIndInv, ExportInv, StoresFollowAttempts, DelaysBounded
<1> QED
  BY <1>1, OtlpInductive, PTL

-----------------------------------------------------------------------------
(* The baggage. *)

(* What BaggageWithinLimits needs to survive: the counter is a number within *)
(* the limit that covers what the pairs take.                                *)
BaggageInv ==
    /\ IsFiniteSet(DOMAIN pairs) /\ DOMAIN pairs \subseteq Names \ InvalidNames
    /\ \A n \in DOMAIN pairs : pairs[n] \in Nat
    /\ Cardinality(DOMAIN pairs) <= MaxKeyValuePairs
    /\ kvContentLen \in Nat /\ kvContentLen <= MaxLenOfAllPairs
    /\ SumOf(pairs, DOMAIN pairs) <= kvContentLen

LEMMA ContentIsSum == ContentLength = SumOf(pairs, DOMAIN pairs)
BY DEF SumOf, ContentLength, MapThenSumSet, MapThenFoldSet

LEMMA BaggageStart == BaggageInit => BaggageInv
<1> SUFFICES ASSUME BaggageInit PROVE BaggageInv
  OBVIOUS
<1>1. DOMAIN pairs = {} /\ kvContentLen = 0
  BY DEF BaggageInit
<1>2. IsFiniteSet({}) /\ Cardinality({}) = 0
  BY FS_EmptySet
<1>3. SumOf(pairs, DOMAIN pairs) = 0
  BY <1>1, <1>2, SumStep
<1> QED
  BY <1>1, <1>2, <1>3, BaggageAssumption DEF BaggageInv, BaggageAssumption

(* An inserted pair: what it replaces is taken from the counter. *)
LEMMA InsertKeeps ==
    ASSUME BaggageInv, NEW name \in Names, NEW length \in PairLengths, ~Refused(name, length),
           BaggageInsert(name, length)
    PROVE  BaggageInv'
<1> USE DEF BaggageInv
<1> DEFINE D == DOMAIN pairs
           old == IF name \in D THEN pairs[name] ELSE 0
<1>2. /\ length \in Nat /\ MaxKeyValuePairs \in Nat /\ MaxLenOfAllPairs \in Nat
      /\ old \in Nat /\ NewContentLen(name, length) = kvContentLen + length - old
  BY BaggageAssumption DEF BaggageAssumption, NewContentLen
<1>1. /\ pairs' = [n \in D \cup {name} |-> IF n = name THEN length ELSE pairs[n]]
      /\ kvContentLen' = kvContentLen + length - old
      /\ kvContentLen' <= MaxLenOfAllPairs
      /\ name \notin D => name \notin InvalidNames /\ Cardinality(D) # MaxKeyValuePairs
  <2> HIDE DEF old
  <2> QED
    BY <1>2 DEF BaggageInsert, Refused
<1>3. /\ DOMAIN pairs' = D \cup {name} /\ pairs'[name] = length
      /\ \A n \in D \ {name} : pairs'[n] = pairs[n]
  BY <1>1
<1>4. SumOf(pairs', D \cup {name}) = SumOf(pairs, D \ {name}) + length
  BY <1>2, <1>3, SumAdd
<1>5. /\ SumOf(pairs, D) = SumOf(pairs, D \ {name}) + old
      /\ SumOf(pairs, D \ {name}) \in Nat /\ SumOf(pairs, D) \in Nat /\ old \in Nat
  <2>1. SumOf(pairs, D) \in Nat
    BY SumType
  <2>2. SumOf(pairs, D \ {name}) \in Nat
    <3>1. IsFiniteSet(D \ {name}) /\ \A n \in D \ {name} : pairs[n] \in Nat
      BY FS_Subset
    <3> QED
      BY <3>1, SumType
  <2>3. CASE name \in D
    <3>1. SumOf(pairs, D) = pairs[name] + SumOf(pairs, D \ {name})
      BY <2>3, SumRemove
    <3> QED
      BY <2>1, <2>2, <2>3, <3>1
  <2>4. CASE name \notin D
    <3>1. D \ {name} = D
      BY <2>4
    <3> QED
      BY <2>1, <2>4, <3>1
  <2> QED
    BY <2>3, <2>4
<1>6. /\ IsFiniteSet(D \cup {name}) /\ Cardinality(D) \in Nat
      /\ Cardinality(D \cup {name}) = IF name \in D THEN Cardinality(D) ELSE Cardinality(D) + 1
  BY FS_AddElement, FS_CardinalityType
<1>7. /\ kvContentLen' \in Nat
      /\ SumOf(pairs', DOMAIN pairs') <= kvContentLen'
  <2> HIDE DEF old, D
  <2>1. SumOf(pairs', D \cup {name}) <= kvContentLen' /\ kvContentLen' \in Nat
    BY <1>1, <1>2, <1>4, <1>5 DEF D
  <2> QED
    BY <1>3, <2>1
<1>8. \A n \in DOMAIN pairs' : pairs'[n] \in Nat
  BY <1>1, <1>2
<1>9. Cardinality(DOMAIN pairs') <= MaxKeyValuePairs
  BY <1>1, <1>2, <1>3, <1>6
<1>10. DOMAIN pairs' \subseteq Names \ InvalidNames
  BY <1>1, <1>3
<1> QED
  BY <1>1, <1>3, <1>6, <1>7, <1>8, <1>9, <1>10

(* A removed pair leaves the counter above what is there. *)
LEMMA RemoveKeeps ==
    ASSUME BaggageInv, NEW name \in Names, BaggageRemove(name)
    PROVE  BaggageInv'
<1> USE DEF BaggageInv
<1> DEFINE D == DOMAIN pairs
<1>1. /\ name \in D /\ pairs' = [n \in D \ {name} |-> pairs[n]] /\ kvContentLen' = kvContentLen
      /\ DOMAIN pairs' = D \ {name}
  BY DEF BaggageRemove, baggageVars
<1>2. /\ IsFiniteSet(D \ {name}) /\ Cardinality(D) \in Nat /\ MaxKeyValuePairs \in Nat
      /\ Cardinality(D \ {name}) = Cardinality(D) - 1
  BY <1>1, FS_RemoveElement, FS_CardinalityType, BaggageAssumption DEF BaggageAssumption
<1>3. /\ SumOf(pairs, D) = pairs[name] + SumOf(pairs, D \ {name})
      /\ SumOf(pairs, D \ {name}) \in Nat
  <2>1. SumOf(pairs, D) = pairs[name] + SumOf(pairs, D \ {name})
    BY <1>1, SumRemove
  <2>2. \A n \in D \ {name} : pairs[n] \in Nat
    OBVIOUS
  <2> QED
    BY <1>2, <2>1, <2>2, SumType
<1>4. SumOf(pairs', D \ {name}) = SumOf(pairs, D \ {name})
  <2>1. \A n \in D \ {name} : pairs'[n] = pairs[n]
    BY <1>1
  <2> QED
    BY <1>2, <2>1, SumSame
<1>5. SumOf(pairs', DOMAIN pairs') <= kvContentLen
  <2> pairs[name] \in Nat
    BY <1>1
  <2> HIDE DEF D
  <2> QED
    BY <1>1, <1>3, <1>4 DEF D
<1> QED
  BY <1>1, <1>2, <1>5

LEMMA BaggageStep == BaggageInv /\ [BaggageNext]_baggageVars => BaggageInv'
<1> SUFFICES ASSUME BaggageInv, [BaggageNext]_baggageVars PROVE BaggageInv'
  OBVIOUS
<1>1. CASE UNCHANGED baggageVars
  BY <1>1 DEF baggageVars, BaggageInv
<1>2. ASSUME NEW name \in Names, NEW length \in PairLengths, BaggageInsert(name, length)
      PROVE  BaggageInv'
  <2>1. CASE Refused(name, length)
    BY <1>1, <1>2, <2>1 DEF BaggageInsert
  <2>2. CASE ~Refused(name, length)
    BY <1>2, <2>2, InsertKeeps
  <2> QED
    BY <2>1, <2>2
<1>3. ASSUME NEW name \in Names, BaggageRemove(name) PROVE BaggageInv'
  BY <1>3, RemoveKeeps
<1> QED
  BY <1>1, <1>2, <1>3 DEF BaggageNext

(* BaggageInv implies the limits. *)
LEMMA LimitsFollow == BaggageInv => BaggageWithinLimits
<1> SUFFICES ASSUME BaggageInv PROVE BaggageWithinLimits
  OBVIOUS
<1>1. SumOf(pairs, DOMAIN pairs) \in Nat /\ MaxLenOfAllPairs \in Nat
  BY SumType, BaggageAssumption DEF BaggageInv, BaggageAssumption
<1> QED
  BY <1>1, ContentIsSum DEF BaggageInv, BaggageWithinLimits

(* Baggage keeps both limits, whatever is inserted and removed and whatever  *)
(* the limits are.                                                          *)
THEOREM BaggageStaysWithinLimits == BaggageSpec => []BaggageWithinLimits
<1>1. BaggageSpec => []BaggageInv
  BY BaggageStart, BaggageStep, PTL DEF BaggageSpec
<1> QED
  BY <1>1, LimitsFollow, PTL

-----------------------------------------------------------------------------
AggregatorTypes ==
    {"Drop", "LastValue", "Sum", "ExplicitBucketHistogram", "Base2ExponentialHistogram"}
Id == Scopes \X Name \X InstrumentKinds
Stream == [id : Id, name : Name, type : AggregatorTypes]
Entry == [scope : Scopes, instruments : Seq(Stream)]
Cache == UNION {[D -> AggregatorTypes] : D \in SUBSET Id}
Resolution == [cache : Cache, added : Seq(Stream), measures : Seq(Id), seen : SUBSET Name,
               matched : BOOLEAN, failed : BOOLEAN]

(* Who has asked for an aggregator, once instrument has; and that a view    *)
(* dropped one of the streams that instrument asks for.                     *)
Asking(instrument) == Instruments \cup {instrument}
Dropped(instrument, asking) == StreamsOf(instrument) \cap DroppedFor(asking) # {}
DropsOf(c, asking) == \A id \in DOMAIN c : c[id] = "Drop" => id \in DroppedFor(asking)
(* The identities with an aggregator. *)
Kept(c) == {id \in DOMAIN c : c[id] # "Drop"}

(* What a resolution has found so far, as against the cache it began with. *)
Resolving(r, instrument) ==
    /\ r \in Resolution
    /\ DOMAIN cache \subseteq DOMAIN r.cache /\ \A id \in DOMAIN cache : r.cache[id] = cache[id]
    /\ DropsOf(r.cache, Asking(instrument))
    /\ {a.id : a \in ToSet(r.added)} = Kept(r.cache) \ DOMAIN cache
    /\ \A a \in ToSet(r.added) : a.id[1] = instrument.scope /\ a.id[2] = Normalized(a.name)
    /\ \A m, n \in DOMAIN r.added : r.added[m].id = r.added[n].id => m = n
    /\ ToSet(r.measures) \subseteq Kept(r.cache)
    /\ Kept(r.cache) \ DOMAIN cache \subseteq ToSet(r.measures)
    /\ r.seen # {} => r.measures # <<>>
(* A match that did not fail measures, unless a view drops. *)
MeasuresOrDrops(r, instrument) ==
    r.matched /\ ~r.failed /\ r.measures = <<>> => Dropped(instrument, Asking(instrument))

(* More instruments ask for more streams to be dropped. *)
LEMMA MoreDropped ==
    ASSUME NEW some, NEW more, some \subseteq more
    PROVE  DroppedFor(some) \subseteq DroppedFor(more)
BY DEF DroppedFor

LEMMA ViewDrops ==
    ASSUME NEW instrument, NEW view \in ToSet(views), instrument \in view.matches,
           view.aggregation = "Drop"
    PROVE  StreamId(instrument, StreamName(view, instrument)) \in DroppedFor(Asking(instrument))
<1>1. view \in {w \in ViewsOf(instrument) : w.aggregation = "Drop"}
  BY DEF ViewsOf
<1> DEFINE ids(i) ==
              {StreamId(i, StreamName(v, i)) : v \in {w \in ViewsOf(i) : w.aggregation = "Drop"}}
<1>2. StreamId(instrument, StreamName(view, instrument)) \in ids(instrument)
  BY <1>1
<1>3. instrument \in Asking(instrument)
  BY DEF Asking
<1>4. \A id, i : i \in Asking(instrument) /\ id \in ids(i)
                    => id \in UNION {ids(j) : j \in Asking(instrument)}
  OBVIOUS
<1> HIDE DEF ids
<1>5. StreamId(instrument, StreamName(view, instrument))
        \in UNION {ids(j) : j \in Asking(instrument)}
  BY ONLY <1>2, <1>3, <1>4
<1> QED
  BY <1>5 DEF DroppedFor, ids

LEMMA StreamNames ==
    ASSUME NEW instrument
    PROVE  /\ StreamId(instrument, instrument.name) \in StreamsOf(instrument)
           /\ \A v \in ToSet(views) : instrument \in v.matches =>
                 StreamId(instrument, StreamName(v, instrument)) \in StreamsOf(instrument)
BY DEF StreamsOf, ViewsOf

LEMMA NormalizedType == ASSUME NEW name \in Name PROVE Normalized(name) \in Name
BY PipelineAssumption DEF Name, Normalized, PipelineAssumption

LEMMA CompatibleType ==
    ASSUME NEW kind, NEW aggregation, Compatible(kind, aggregation)
    PROVE  aggregation \in AggregatorTypes
BY DEF Compatible, AggregatorTypes

LEMMA DefaultFits ==
    ASSUME NEW kind
    PROVE  /\ Compatible(kind, DefaultAggregation(kind)) /\ DefaultAggregation(kind) # "Drop"
<1>1. CASE kind \in {"Gauge", "ObservableGauge"}
  BY <1>1 DEF Compatible, DefaultAggregation
<1>2. CASE kind \notin {"Gauge", "ObservableGauge"} /\ kind = "Histogram"
  BY <1>2 DEF Compatible, DefaultAggregation
<1>3. CASE kind \notin {"Gauge", "ObservableGauge"} /\ kind # "Histogram"
  BY <1>3 DEF Compatible, DefaultAggregation
<1> QED
  BY <1>1, <1>2, <1>3

(* What is added to the end of a sequence. *)
LEMMA AppendFacts ==
    ASSUME NEW X, NEW s \in Seq(X), NEW x \in X
    PROVE  /\ Append(s, x) \in Seq(X) /\ Append(s, x) # <<>>
           /\ DOMAIN Append(s, x) = DOMAIN s \cup {Len(s) + 1} /\ Len(s) + 1 \notin DOMAIN s
           /\ Append(s, x)[Len(s) + 1] = x /\ \A i \in DOMAIN s : Append(s, x)[i] = s[i]
           /\ ToSet(Append(s, x)) = ToSet(s) \cup {x}
<1>1. /\ Append(s, x) \in Seq(X) /\ Len(Append(s, x)) = Len(s) + 1
      /\ Append(s, x)[Len(Append(s, x))] = x /\ \A i \in 1..Len(s) : Append(s, x)[i] = s[i]
  BY AppendProperties
<1>2. Len(s) \in Nat /\ DOMAIN s = 1..Len(s) /\ DOMAIN Append(s, x) = 1..(Len(s) + 1)
  BY <1>1
<1> QED
  BY <1>1, <1>2, ToSetAppend

LEMMA ResolutionFields ==
    ASSUME NEW r \in Resolution
    PROVE  /\ r.cache \in Cache /\ r.added \in Seq(Stream) /\ r.measures \in Seq(Id)
           /\ r.seen \in SUBSET Name /\ r.matched \in BOOLEAN /\ r.failed \in BOOLEAN
           /\ r = [cache |-> r.cache, added |-> r.added, measures |-> r.measures,
                   seen |-> r.seen, matched |-> r.matched, failed |-> r.failed]
BY DEF Resolution

-----------------------------------------------------------------------------
(* An identity that is cached already. *)
LEMMA KnownStream ==
    ASSUME NEW instrument \in Instrument, NEW r, Resolving(r, instrument), NEW name \in Name,
           NEW asked, NEW id, id = StreamId(instrument, name),
           id \in DOMAIN r.cache,
           NEW q, q = CachedAggregator(r, instrument, name, asked),
           Compatible(instrument.kind, IF asked = "Default" THEN DefaultAggregation(instrument.kind)
                                       ELSE asked)
    PROVE  /\ Resolving(q, instrument) /\ q.matched = r.matched
           /\ q.measures = <<>> => id \in DroppedFor(Asking(instrument))
<1> USE DEF Resolving
<1>0. /\ r \in Resolution /\ r.cache \in Cache /\ r.added \in Seq(Stream)
      /\ r.measures \in Seq(Id) /\ r.seen \in SUBSET Name
      /\ r.matched \in BOOLEAN /\ r.failed \in BOOLEAN
      /\ r = [cache |-> r.cache, added |-> r.added, measures |-> r.measures,
              seen |-> r.seen, matched |-> r.matched, failed |-> r.failed]
  BY ResolutionFields
<1>a. id \in Id
  <2>1. id \in DOMAIN r.cache /\ DOMAIN r.cache \in SUBSET Id
    BY <1>0 DEF Cache
  <2> QED
    BY <2>1
<1>1. [i \in DOMAIN r.cache \cup {id} |-> IF i = id THEN r.cache[id] ELSE r.cache[i]] = r.cache
  <2> r.cache = [i \in DOMAIN r.cache |-> r.cache[i]]
    BY <1>0 DEF Cache
  <2> QED
    OBVIOUS
<1> DEFINE more == [i \in DOMAIN r.cache \cup {id} |-> IF i = id THEN r.cache[id] ELSE r.cache[i]]
<1>2. q = [r EXCEPT
               !.cache = more,
               !.added = @,
               !.measures = IF r.cache[id] = "Drop" THEN @ ELSE Append(@, id),
               !.seen = IF r.cache[id] = "Drop" THEN @ ELSE @ \cup {name}]
  BY Zenon DEF CachedAggregator
<1> HIDE DEF more
<1>b. more = r.cache
  BY <1>1 DEF more
<1>3. CASE r.cache[id] = "Drop"
  <2>1. q = r
    BY <1>0, <1>2, <1>3, <1>b
  <2>2. id \in DroppedFor(Asking(instrument))
    BY <1>3 DEF DropsOf
  <2> QED
    BY <2>1, <2>2
<1>4. CASE r.cache[id] # "Drop"
  <2> DEFINE longer == Append(r.measures, id)
             met == r.seen \cup {name}
  <2>2. /\ longer \in Seq(Id) /\ longer # <<>> /\ ToSet(longer) = ToSet(r.measures) \cup {id}
    BY ONLY <1>0, <1>a, AppendFacts
  <2>c. met \in SUBSET Name
    BY <1>0
  <2>d. q = [r EXCEPT !.cache = more, !.added = @, !.measures = longer, !.seen = met]
    BY <1>2, <1>4
  <2> HIDE DEF longer, met
  <2>1. /\ q = [cache |-> r.cache, added |-> r.added, measures |-> longer, seen |-> met,
                matched |-> r.matched, failed |-> r.failed]
        /\ q.cache = r.cache /\ q.added = r.added /\ q.measures = longer
        /\ q.seen = met /\ q.matched = r.matched /\ q.failed = r.failed
    BY <1>0, <1>b, <2>d
  <2>3. id \in Kept(r.cache)
    BY <1>4 DEF Kept
  <2>4. q \in Resolution
    BY <1>0, <2>1, <2>2, <2>c DEF Resolution
  <2> QED
    BY <2>1, <2>2, <2>3, <2>4
<1> QED
  BY <1>3, <1>4

(* A new identity. *)
LEMMA NewStream ==
    ASSUME NEW instrument \in Instrument, NEW r, Resolving(r, instrument), NEW name \in Name,
           NEW asked, NEW id,
           asked = "Drop" => id \in DroppedFor(Asking(instrument)), id = StreamId(instrument, name),
           id \notin DOMAIN r.cache,
           NEW q, q = CachedAggregator(r, instrument, name, asked),
           Compatible(instrument.kind, IF asked = "Default" THEN DefaultAggregation(instrument.kind)
                                       ELSE asked)
    PROVE  /\ Resolving(q, instrument) /\ q.matched = r.matched
           /\ q.measures = <<>> => id \in DroppedFor(Asking(instrument))
<1> USE DEF Resolving
<1> DEFINE type == IF asked = "Default" THEN DefaultAggregation(instrument.kind) ELSE asked
           stream == [id |-> id, name |-> name, type |-> type]
           c == [i \in DOMAIN r.cache \cup {id} |-> IF i = id THEN type ELSE r.cache[i]]
<1>a. /\ r \in Resolution /\ r.cache \in Cache /\ r.added \in Seq(Stream)
      /\ r.measures \in Seq(Id) /\ r.seen \in SUBSET Name
      /\ r.matched \in BOOLEAN /\ r.failed \in BOOLEAN
      /\ r = [cache |-> r.cache, added |-> r.added, measures |-> r.measures,
              seen |-> r.seen, matched |-> r.matched, failed |-> r.failed]
  BY ResolutionFields
<1>0. /\ id \in Id /\ type \in AggregatorTypes
      /\ type = "Drop" => id \in DroppedFor(Asking(instrument))
  <2>1. instrument.scope \in Scopes /\ instrument.kind \in InstrumentKinds
    BY DEF Instrument
  <2>2. id \in Id
    BY <2>1, NormalizedType DEF Id, StreamId
  <2>3. asked = "Default" => type # "Drop"
    BY <2>1, DefaultFits
  <2>4. type \in AggregatorTypes
    BY <2>1, CompatibleType, DefaultFits
  <2> QED
    BY <2>2, <2>3, <2>4
<1>1. c \in Cache /\ DOMAIN c = DOMAIN r.cache \cup {id} /\ c[id] = type
      /\ \A i \in DOMAIN r.cache : c[i] = r.cache[i]
  <2>1. DOMAIN r.cache \in SUBSET Id /\ \A i \in DOMAIN r.cache : r.cache[i] \in AggregatorTypes
    BY <1>a DEF Cache
  <2>2. c \in [DOMAIN r.cache \cup {id} -> AggregatorTypes]
    <3> DEFINE D == DOMAIN r.cache
    <3>1. type \in AggregatorTypes /\ \A i \in D : r.cache[i] \in AggregatorTypes
      BY <1>0, <2>1
    <3> HIDE DEF type, D
    <3>2. \A i \in D \cup {id} : (IF i = id THEN type ELSE r.cache[i]) \in AggregatorTypes
      BY <3>1
    <3>3. [i \in D \cup {id} |-> IF i = id THEN type ELSE r.cache[i]]
            \in [D \cup {id} -> AggregatorTypes]
      BY ONLY <3>2
    <3> QED
      BY <3>3 DEF D
  <2>3. DOMAIN r.cache \cup {id} \in SUBSET Id
    <3>1. id \in Id
      BY <1>0
    <3> QED
      BY ONLY <2>1, <3>1
  <2> QED
    BY <2>2, <2>3 DEF Cache
<1>2. q = [r EXCEPT
               !.cache = c,
               !.added = IF type = "Drop" THEN @ ELSE Append(@, stream),
               !.measures = IF type = "Drop" THEN @ ELSE Append(@, id),
               !.seen = IF type = "Drop" THEN @ ELSE @ \cup {name}]
  BY DEF CachedAggregator
<1> HIDE DEF type, c
<1>3. CASE type = "Drop"
  <2>1. /\ q.cache = c /\ q.added = r.added /\ q.measures = r.measures
        /\ q.seen = r.seen /\ q.matched = r.matched /\ q.failed = r.failed
        /\ q = [cache |-> c, added |-> r.added, measures |-> r.measures, seen |-> r.seen,
                matched |-> r.matched, failed |-> r.failed]
    BY <1>a, <1>2, <1>3
  <2>2. Kept(c) = Kept(r.cache)
    BY <1>1, <1>3 DEF Kept
  <2>3. q \in Resolution
    BY <1>a, <1>1, <2>1 DEF Resolution
  <2> QED
    <3>1. /\ DOMAIN cache \subseteq DOMAIN q.cache
          /\ \A i \in DOMAIN cache : q.cache[i] = cache[i]
          /\ DropsOf(q.cache, Asking(instrument))
      BY <1>0, <1>1, <1>3, <2>1 DEF DropsOf
    <3>2. id \in DroppedFor(Asking(instrument))
      BY <1>0, <1>3
    <3> QED
      BY <2>1, <2>2, <2>3, <3>1, <3>2
<1>4. CASE type # "Drop"
  <2>1. /\ stream \in Stream /\ stream.id = id /\ stream.name = name
    <3>1. type \in AggregatorTypes /\ id \in Id
      BY <1>0
    <3> QED
      BY ONLY <3>1, name \in Name DEF Stream
  <2> HIDE DEF stream
  <2> DEFINE longer == Append(r.measures, id)
             added == Append(r.added, stream)
             met == r.seen \cup {name}
  <2>2. /\ longer \in Seq(Id) /\ longer # <<>> /\ ToSet(longer) = ToSet(r.measures) \cup {id}
    BY ONLY <1>0, <1>a, AppendFacts
  <2>3. /\ added \in Seq(Stream) /\ DOMAIN added = DOMAIN r.added \cup {Len(r.added) + 1}
        /\ Len(r.added) + 1 \notin DOMAIN r.added
        /\ added[Len(r.added) + 1] = stream
        /\ \A i \in DOMAIN r.added : added[i] = r.added[i]
        /\ ToSet(added) = ToSet(r.added) \cup {stream}
    BY <1>a, <2>1, AppendFacts
  <2>c. met \in SUBSET Name
    BY <1>a
  <2>d. q = [r EXCEPT !.cache = c, !.added = added, !.measures = longer, !.seen = met]
    BY <1>2, <1>4
  <2> HIDE DEF longer, added, met
  <2>e. /\ q.cache = c /\ q.added = added /\ q.measures = longer
        /\ q.seen = met /\ q.matched = r.matched /\ q.failed = r.failed
        /\ q = [cache |-> c, added |-> added, measures |-> longer, seen |-> met,
                matched |-> r.matched, failed |-> r.failed]
    BY <1>a, <2>d
  <2>4. /\ q.cache = c /\ q.added = added /\ q.measures = longer
        /\ q.seen = met /\ q.matched = r.matched /\ q.failed = r.failed
        /\ q \in Resolution
    BY <1>a, <1>1, <2>2, <2>3, <2>c, <2>e DEF Resolution
  <2>5. Kept(c) = Kept(r.cache) \cup {id} /\ id \notin DOMAIN cache
    BY <1>1, <1>4 DEF Kept
  <2>6. {a.id : a \in ToSet(q.added)} = Kept(q.cache) \ DOMAIN cache
    <3>1. {a.id : a \in ToSet(q.added)} = {a.id : a \in ToSet(r.added)} \cup {id}
      <4>1. \A S, x : {a.id : a \in S \cup {x}} = {a.id : a \in S} \cup {x.id}
        OBVIOUS
      <4>2. ToSet(q.added) = ToSet(r.added) \cup {stream} /\ stream.id = id
        BY <2>1, <2>3, <2>4
      <4> QED
        BY ONLY <4>1, <4>2
    <3> QED
      BY <2>4, <2>5, <3>1
  <2>7. \A a \in ToSet(q.added) : a.id[1] = instrument.scope /\ a.id[2] = Normalized(a.name)
    <3>1. stream.id[1] = instrument.scope /\ stream.id[2] = Normalized(stream.name)
      BY <2>1 DEF StreamId
    <3> QED
      BY <1>a, <2>3, <2>4, <3>1
  <2>8. \A m, n \in DOMAIN q.added : q.added[m].id = q.added[n].id => m = n
    <3>1. \A m \in DOMAIN r.added : r.added[m].id \in DOMAIN r.cache /\ r.added[m].id # id
      <4>1. \A m \in DOMAIN r.added : r.added[m].id \in Kept(r.cache)
        BY DEF ToSet
      <4> QED
        BY <4>1 DEF Kept
    <3>2. \A m \in DOMAIN r.added : added[m].id # id /\ added[m].id = r.added[m].id
      BY <2>3, <3>1
    <3>3. added[Len(r.added) + 1].id = id
      BY <2>1, <2>3
    <3> QED
      BY <2>3, <2>4, <3>2, <3>3
  <2>9. /\ ToSet(q.measures) \subseteq Kept(q.cache)
        /\ Kept(q.cache) \ DOMAIN cache \subseteq ToSet(q.measures)
        /\ q.measures # <<>>
    BY <2>2, <2>4, <2>5
  <2>10. /\ DOMAIN cache \subseteq DOMAIN q.cache
         /\ \A i \in DOMAIN cache : q.cache[i] = cache[i]
         /\ DropsOf(q.cache, Asking(instrument))
    BY <1>1, <1>4, <2>4 DEF DropsOf
  <2> QED
    BY <2>4, <2>6, <2>7, <2>8, <2>9, <2>10
<1> QED
  BY <1>3, <1>4

LEMMA CachedAggregatorKeeps ==
    ASSUME NEW instrument \in Instrument, NEW r, Resolving(r, instrument), NEW name \in Name,
           NEW asked, NEW id, id = StreamId(instrument, name),
           asked = "Drop" => id \in DroppedFor(Asking(instrument)),
           NEW q, q = CachedAggregator(r, instrument, name, asked)
    PROVE  /\ Resolving(q, instrument) /\ q.matched = r.matched
           /\ q.measures = <<>> =>
                 \/ id \in DroppedFor(Asking(instrument))
                 \/ q.failed /\ asked # "Default"
<1> DEFINE type == IF asked = "Default" THEN DefaultAggregation(instrument.kind) ELSE asked
<1>1. CASE ~Compatible(instrument.kind, type)
  <2>1. q = [r EXCEPT !.failed = TRUE]
    BY <1>1 DEF CachedAggregator
  <2>2. /\ q \in Resolution /\ q.failed /\ q.cache = r.cache /\ q.added = r.added
        /\ q.measures = r.measures /\ q.seen = r.seen /\ q.matched = r.matched
    BY <2>1 DEF Resolving, Resolution
  <2>3. asked # "Default"
    BY <1>1, DefaultFits
  <2> QED
    BY <2>2, <2>3 DEF Resolving
<1>2. CASE Compatible(instrument.kind, type) /\ id \in DOMAIN r.cache
  BY <1>2, KnownStream
<1>3. CASE Compatible(instrument.kind, type) /\ id \notin DOMAIN r.cache
  BY <1>3, NewStream
<1> QED
  BY <1>1, <1>2, <1>3

-----------------------------------------------------------------------------
(* One view. *)
LEMMA ApplyViewKeeps ==
    ASSUME NEW instrument \in Instrument, NEW r, Resolving(r, instrument),
           MeasuresOrDrops(r, instrument), NEW view \in View, view \in ToSet(views),
           NEW q, q = ApplyView(r, instrument, view)
    PROVE  Resolving(q, instrument) /\ MeasuresOrDrops(q, instrument)
<1> DEFINE seen == [r EXCEPT !.matched = TRUE]
<1>0. PICK name \in Name : name = StreamName(view, instrument)
  BY DEF View, Instrument, StreamName
<1>1. Resolving(seen, instrument) /\ seen.matched /\ seen.measures = r.measures
  <2>1. r \in Resolution
    BY DEF Resolving
  <2>2. /\ seen.cache = r.cache /\ seen.added = r.added /\ seen.measures = r.measures
        /\ seen.seen = r.seen /\ seen.matched /\ seen \in Resolution
    BY <2>1 DEF Resolution
  <2> HIDE DEF seen
  <2> QED
    BY <2>2 DEF Resolving
<1>2. q = IF instrument \notin view.matches THEN r ELSE IF name \in r.seen THEN seen
          ELSE CachedAggregator(seen, instrument, name, view.aggregation)
  BY <1>0 DEF ApplyView
<1> HIDE DEF seen
<1>3. CASE instrument \notin view.matches
  BY <1>2, <1>3
<1>4. CASE instrument \in view.matches /\ name \in r.seen
  <2>1. q.measures # <<>>
    BY <1>1, <1>2, <1>4 DEF Resolving
  <2> QED
    BY <1>1, <1>2, <1>4, <2>1 DEF MeasuresOrDrops
<1>5. CASE instrument \in view.matches /\ name \notin r.seen
  <2>0. PICK id : id = StreamId(instrument, name)
    OBVIOUS
  <2>1. view.aggregation = "Drop" => id \in DroppedFor(Asking(instrument))
    BY <1>0, <1>5, <2>0, ViewDrops
  <2>2. q = CachedAggregator(seen, instrument, name, view.aggregation)
    BY <1>2, <1>5
  <2>3. /\ Resolving(q, instrument)
        /\ q.measures = <<>> => id \in DroppedFor(Asking(instrument)) \/ q.failed
    BY <1>1, <2>0, <2>1, <2>2, CachedAggregatorKeeps
  <2>4. id \in StreamsOf(instrument)
    BY <1>0, <1>5, <2>0, StreamNames
  <2> QED
    BY <2>3, <2>4 DEF MeasuresOrDrops, Dropped
<1> QED
  BY <1>3, <1>4, <1>5

ViewStep(instrument, r, view) == ApplyView(r, instrument, view)
Viewing == INSTANCE FoldLaws WITH Op <- ViewStep
Viewed(instrument, base, s) ==
    FoldLeft(LAMBDA r, view : ApplyView(r, instrument, view), base, s)

LEMMA ViewedIsFold ==
    ASSUME NEW c, NEW base, NEW s PROVE Viewed(c, base, s) = Viewing!Fold(c, base, s)
BY DEF FoldLeft, MapThenFoldSet, Viewed, ViewStep, Max, Viewing!FoldLeft, Viewing!MapThenFoldSet,
       Viewing!Max, Viewing!Fold

LEMMA ViewedRuns ==
    ASSUME NEW c, NEW base, NEW X, NEW s \in Seq(X)
    PROVE  \E h : /\ h[0] = base
                  /\ \A k \in Nat : k < Len(s) => h[k + 1] = ApplyView(h[k], c, s[k + 1])
                  /\ h[Len(s)] = Viewed(c, base, s)
<1>1. \E h : /\ h[0] = base
             /\ \A k \in Nat : k < Len(s) => h[k + 1] = ViewStep(c, h[k], s[k + 1])
             /\ h[Len(s)] = Viewing!Fold(c, base, s)
  BY Viewing!FoldRuns
<1>2. Viewed(c, base, s) = Viewing!Fold(c, base, s)
  BY ViewedIsFold
<1> QED
  BY <1>1, <1>2 DEF ViewStep

(* What holds before the first view and survives each holds after the last. *)
LEMMA AllViewsKeep ==
    ASSUME NEW instrument \in Instrument, NEW r, Resolving(r, instrument), MeasuresOrDrops(r,
           instrument),
           views \in Seq(View), NEW q, q = Viewed(instrument, r, views)
    PROVE  Resolving(q, instrument) /\ MeasuresOrDrops(q, instrument)
<1>0. PICK s : s = views
  OBVIOUS
<1>1. PICK h : /\ h[0] = r
               /\ \A k \in Nat : k < Len(s) => h[k + 1] = ApplyView(h[k], instrument, s[k + 1])
               /\ h[Len(s)] = q
  BY <1>0, ViewedRuns
<1>2. s \in Seq(View) /\ Len(s) \in Nat /\ DOMAIN s = 1..Len(s)
  BY <1>0
<1> DEFINE N == {k \in Nat : k <= Len(s) =>
                               Resolving(h[k], instrument) /\ MeasuresOrDrops(h[k], instrument)}
<1>3. 0 \in N
  BY <1>1
<1>4. ASSUME NEW k \in Nat, k \in N PROVE k + 1 \in N
  <2> SUFFICES ASSUME k + 1 <= Len(s)
               PROVE  Resolving(h[k + 1], instrument) /\ MeasuresOrDrops(h[k + 1], instrument)
    OBVIOUS
  <2>1. k < Len(s) /\ k <= Len(s) /\ k + 1 \in DOMAIN s
    BY <1>2
  <2>2. s[k + 1] \in View /\ s[k + 1] \in ToSet(views)
    BY <1>0, <1>2, <2>1 DEF ToSet
  <2>3. h[k + 1] = ApplyView(h[k], instrument, s[k + 1])
    BY <1>1, <2>1
  <2>4. Resolving(h[k], instrument) /\ MeasuresOrDrops(h[k], instrument)
    BY <1>4, <2>1
  <2> QED
    BY <2>2, <2>3, <2>4, ApplyViewKeeps
<1>5. Len(s) \in N
  <2> HIDE DEF N
  <2> QED
    BY <1>2, <1>3, <1>4, SetInduction
<1> QED
  BY <1>1, <1>2, <1>5

(* Inserter::instrument: every new aggregator is measured on, and only a    *)
(* view drops an instrument.                                                *)
LEMMA ResolveFacts ==
    ASSUME NEW instrument \in Instrument, cache \in Cache, views \in Seq(View),
           DropsOf(cache, Instruments), NEW q, q = Resolve(instrument)
    PROVE  /\ Resolving(q, instrument)
           /\ q.measures = <<>> => Dropped(instrument, Asking(instrument))
<1> DEFINE start == [cache |-> cache, added |-> <<>>, measures |-> <<>>, seen |-> {},
                     matched |-> FALSE, failed |-> FALSE]
           viewed == Viewed(instrument, start, views)
<1>1. Resolving(start, instrument) /\ MeasuresOrDrops(start, instrument)
  <2>1. start \in Resolution
    BY DEF Resolution
  <2>2. ToSet(start.added) = {} /\ ToSet(start.measures) = {} /\ DOMAIN start.added = {}
    BY ToSetEmpty
  <2>3. DropsOf(cache, Asking(instrument))
    BY MoreDropped DEF DropsOf, Asking
  <2> QED
    BY <2>1, <2>2, <2>3 DEF Resolving, MeasuresOrDrops, Kept
<1>2. Resolving(viewed, instrument) /\ MeasuresOrDrops(viewed, instrument)
  <2> HIDE DEF start
  <2> QED
    BY <1>1, AllViewsKeep
<1>3. q = IF Settled(viewed) THEN viewed
          ELSE CachedAggregator(viewed, instrument, instrument.name, "Default")
  BY DEF Resolve, Viewed
<1> HIDE DEF viewed
<1>4. CASE Settled(viewed)
  BY <1>2, <1>3, <1>4 DEF Settled, MeasuresOrDrops
<1>5. CASE ~Settled(viewed)
  <2>1. instrument.name \in Name
    BY DEF Instrument
  <2>2. q = CachedAggregator(viewed, instrument, instrument.name, "Default")
    BY <1>3, <1>5
  <2>3. PICK id : id = StreamId(instrument, instrument.name)
    OBVIOUS
  <2>4. /\ Resolving(q, instrument)
        /\ q.measures = <<>> => id \in DroppedFor(Asking(instrument))
    BY <1>2, <2>1, <2>2, <2>3, CachedAggregatorKeeps
  <2> QED
    BY <2>3, <2>4, StreamNames DEF Dropped
<1> QED
  BY <1>4, <1>5

-----------------------------------------------------------------------------
(* The pipeline's scopes: each once, with streams of its own, each once.    *)
OwnStreams(entry) ==
    /\ \A a \in ToSet(entry.instruments) :
          a.id[1] = entry.scope /\ a.id[2] = Normalized(a.name)
    /\ \A m, n \in DOMAIN entry.instruments :
          entry.instruments[m].id = entry.instruments[n].id => m = n
WellFormed(ag) ==
    /\ ag \in Seq(Entry)
    /\ \A m, n \in DOMAIN ag : ag[m].scope = ag[n].scope => m = n
    /\ \A m \in DOMAIN ag : OwnStreams(ag[m])
Streams(ag) == UNION {ToSet(entry.instruments) : entry \in ToSet(ag)}
Ids(ag) == {a.id : a \in Streams(ag)}

Creation == [instrument : Instrument, measures : Seq(Id)]

(* What StreamsCollected needs to survive: the aggregators in the pipeline, *)
(* those in the cache and those handed out are the same.                    *)
StreamsInv ==
    /\ views \in Seq(View)
    /\ cache \in Cache /\ DropsOf(cache, Instruments)
    /\ WellFormed(aggregations) /\ Ids(aggregations) = Kept(cache)
    /\ created \in Seq(Creation)
    /\ UNION {ToSet(c.measures) : c \in ToSet(created)} = Kept(cache)
    /\ \A c \in ToSet(created) : c.measures = <<>> => Dropped(c.instrument, Instruments)

LEMMA StreamsStart == PipelineInit => StreamsInv
<1> SUFFICES ASSUME PipelineInit PROVE StreamsInv
  OBVIOUS
<1>1. views \in Seq(View)
  <2>1. PICK m \in 0..MaxViews : views \in [1..m -> View]
    BY DEF PipelineInit, BoundedSeq, SeqOf
  <2>2. m \in Nat
    BY <2>1, PipelineAssumption DEF PipelineAssumption
  <2> QED
    BY <2>1, <2>2
<1>2. cache \in Cache /\ DOMAIN cache = {}
  <2>1. cache = [i \in {} |-> ""] /\ {} \in SUBSET Id
    BY DEF PipelineInit
  <2>2. cache \in [{} -> AggregatorTypes]
    BY <2>1
  <2> QED
    BY <2>1, <2>2 DEF Cache
<1>3. WellFormed(<<>>) /\ Streams(<<>>) = {} /\ ToSet(<<>>) = {}
  BY ToSetEmpty DEF WellFormed, Streams
<1> QED
  BY <1>1, <1>2, <1>3 DEF PipelineInit, StreamsInv, Ids, Kept, DropsOf

(* AddAggregators, when there are some. *)
Joined(ag, scope, added, next) ==
    LET old == {i \in DOMAIN ag : ag[i].scope = scope}
    IN IF old # {}
       THEN next = [i \in DOMAIN ag |->
                       IF i \in old THEN [ag[i] EXCEPT !.instruments = @ \o added] ELSE ag[i]]
       ELSE next \in SetToSeqs(ToSet(ag) \cup {[scope |-> scope, instruments |-> added]})

(* Streams that are all new join a scope of the pipeline, or bring it.      *)
LEMMA StreamsAdded ==
    ASSUME NEW ag, WellFormed(ag), NEW scope \in Scopes, NEW added \in Seq(Stream), added # <<>>,
           OwnStreams([scope |-> scope, instruments |-> added]),
           \A a \in ToSet(added) : a.id \notin Ids(ag),
           NEW next, Joined(ag, scope, added, next)
    PROVE  WellFormed(next) /\ Streams(next) = Streams(ag) \cup ToSet(added)
<1> USE DEF WellFormed
<1>0. Len(ag) \in Nat /\ DOMAIN ag = 1..Len(ag)
  OBVIOUS
<1> DEFINE old == {i \in DOMAIN ag : ag[i].scope = scope}
<1>a. IF old # {}
      THEN next = [i \in DOMAIN ag |->
                      IF i \in old THEN [ag[i] EXCEPT !.instruments = @ \o added] ELSE ag[i]]
      ELSE next \in SetToSeqs(ToSet(ag) \cup {[scope |-> scope, instruments |-> added]})
  BY DEF Joined
<1>1. CASE old # {}
  <2>1. PICK m \in DOMAIN ag : ag[m].scope = scope
    BY <1>1
  <2>2. old = {m}
    BY <2>1
  <2> DEFINE more == ag[m].instruments \o added
             entry == [scope |-> scope, instruments |-> more]
  <2>3. ag[m] \in Entry /\ ag[m].instruments \in Seq(Stream)
    <3>1. ag[m] \in Entry
      BY <1>0, <2>1, ElementOfSeq
    <3> QED
      BY <3>1 DEF Entry
  <2>4. more \in Seq(Stream) /\ ToSet(more) = ToSet(ag[m].instruments) \cup ToSet(added)
    BY <2>3, ConcatProperties, ToSetConcat
  <2>5. [ag[m] EXCEPT !.instruments = @ \o added] = entry
    <3>1. ag[m] = [scope |-> scope, instruments |-> ag[m].instruments]
      BY <2>1, <2>3 DEF Entry
    <3>2. PICK e, long : e = ag[m] /\ long = more
      OBVIOUS
    <3>3. [e EXCEPT !.instruments = @ \o added] = [e EXCEPT !.instruments = long]
      <4>1. long = e.instruments \o added
        BY <3>2
      <4> QED
        BY ONLY <4>1, Zenon
    <3>4. [e EXCEPT !.instruments = long] = [scope |-> scope, instruments |-> long]
      <4>1. \E is : e = [scope |-> scope, instruments |-> is]
        BY <3>1, <3>2
      <4> QED
        BY ONLY <4>1
    <3> QED
      BY <3>2, <3>3, <3>4, Zenon
  <2>6. /\ next \in Seq(Entry) /\ DOMAIN next = DOMAIN ag /\ next[m] = entry
        /\ \A i \in DOMAIN ag : i # m => next[i] = ag[i]
    <3>1. next = [i \in DOMAIN ag |-> IF i = m THEN entry ELSE ag[i]]
      <4>1. next = [i \in DOMAIN ag |->
                      IF i \in old THEN [ag[i] EXCEPT !.instruments = @ \o added] ELSE ag[i]]
        BY <1>a, <1>1
      <4>2. \A i \in DOMAIN ag : i \in old <=> i = m
        BY <2>1, <2>2
      <4> HIDE DEF old, entry
      <4> QED
        BY <2>5, <4>1, <4>2
    <3>2. entry \in Entry
      BY <2>4 DEF Entry
    <3>3. \A i \in DOMAIN ag : ag[i] \in Entry
      BY <1>0, ElementOfSeq
    <3> HIDE DEF entry
    <3>4. \A i \in 1..Len(ag) : (IF i = m THEN entry ELSE ag[i]) \in Entry
      BY <1>0, <3>2, <3>3
    <3>5. next \in [1..Len(ag) -> Entry]
      BY <1>0, <3>1, <3>4
    <3>6. next \in Seq(Entry)
      BY <1>0, <3>5
    <3> QED
      BY <2>1, <3>1, <3>6
  <2>7. OwnStreams(entry)
    <3>1. OwnStreams(ag[m])
      BY <2>1
    <3>2. \A a \in ToSet(more) : a.id[1] = scope /\ a.id[2] = Normalized(a.name)
      BY <2>1, <2>4, <3>1 DEF OwnStreams
    <3> DEFINE key == [a \in Stream |-> a.id]
    <3>3. \A s \in Seq(Stream) : Apart(key, s)
             <=> \A i, j \in DOMAIN s : s[i].id = s[j].id => i = j
      <4> SUFFICES ASSUME NEW s \in Seq(Stream)
                   PROVE  Apart(key, s) <=> \A i, j \in DOMAIN s : s[i].id = s[j].id => i = j
        OBVIOUS
      <4>1. \A i \in DOMAIN s : s[i] \in Stream /\ key[s[i]] = s[i].id
        BY ElementOfSeq
      <4> QED
        BY <4>1 DEF Apart
    <3>4. Apart(key, ag[m].instruments) /\ Apart(key, added)
      BY <2>3, <3>1, <3>3 DEF OwnStreams
    <3>5. \A x \in ToSet(ag[m].instruments), y \in ToSet(added) : key[x] # key[y]
      <4> SUFFICES ASSUME NEW x \in ToSet(ag[m].instruments), NEW y \in ToSet(added)
                   PROVE  key[x] # key[y]
        OBVIOUS
      <4>1. x \in Stream /\ y \in Stream
        BY <2>3, ElementOfSeq DEF ToSet
      <4>2. x \in Streams(ag)
        BY <2>1 DEF Streams, ToSet
      <4> QED
        BY <4>1, <4>2 DEF Ids
    <3> HIDE DEF key
    <3>6. Apart(key, more)
      BY <2>3, <3>4, <3>5, ApartConcat
    <3> HIDE DEF more
    <3>7. \A i, j \in DOMAIN more : more[i].id = more[j].id => i = j
      BY <2>4, <3>3, <3>6
    <3> QED
      BY <3>2, <3>7 DEF OwnStreams
  <2>8. Streams(next) = Streams(ag) \cup ToSet(added)
    <3>0. \A g, x : x \in Streams(g) <=> \E i \in DOMAIN g : x \in ToSet(g[i].instruments)
      BY DEF Streams, ToSet
    <3>1. \A x : x \in Streams(next) <=> \E i \in DOMAIN ag : x \in ToSet(next[i].instruments)
      BY <2>6, <3>0
    <3>2. \A x : x \in Streams(ag) <=> \E i \in DOMAIN ag : x \in ToSet(ag[i].instruments)
      BY <3>0
    <3>3. ToSet(next[m].instruments) = ToSet(ag[m].instruments) \cup ToSet(added)
      BY <2>4, <2>6
    <3> HIDE DEF entry, more
    <3>4. \A x : x \in Streams(next) <=> x \in Streams(ag) \cup ToSet(added)
      BY <2>1, <2>6, <3>1, <3>2, <3>3
    <3> QED
      BY <3>4
  <2> QED
    <3>1. \A i, j \in DOMAIN next : next[i].scope = next[j].scope => i = j
      BY <2>1, <2>6
    <3>2. \A i \in DOMAIN next : OwnStreams(next[i])
      BY <2>6, <2>7
    <3> QED
      BY <2>6, <2>8, <3>1, <3>2
<1>2. CASE old = {}
  <2> DEFINE entry == [scope |-> scope, instruments |-> added]
             S == ToSet(ag) \cup {entry}
  <2>1. entry \in Entry /\ entry.scope = scope /\ entry.instruments = added /\ OwnStreams(entry)
    BY DEF Entry
  <2>2. S \subseteq Entry
    BY <1>0, <2>1, ElementOfSeq DEF ToSet
  <2>3. IsFiniteSet(S)
    BY ToSetFinite, FS_AddElement
  <2>4. next \in SetToSeqs(S)
    BY <1>a, <1>2
  <2>5. /\ next \in Seq(S) /\ ToSet(next) = S
        /\ \A i, j \in DOMAIN next : next[i] = next[j] => i = j
    <3> HIDE DEF S
    <3> QED
      BY <2>3, <2>4, OrderOfSet
  <2> HIDE DEF entry
  <2>6. \A e \in ToSet(ag) : e.scope # scope /\ OwnStreams(e)
    BY <1>2 DEF ToSet
  <2>7. \A e, d \in S : e.scope = d.scope => e = d
    BY <2>1, <2>6 DEF ToSet
  <2>8. \A e \in S : OwnStreams(e)
    BY <2>1, <2>6
  <2>9. \A i \in DOMAIN next : next[i] \in S
    BY <2>5 DEF ToSet
  <2>10. next \in Seq(Entry)
    <3>1. Len(next) \in Nat /\ next \in [1..Len(next) -> S]
      BY <2>5
    <3> HIDE DEF S
    <3>2. next \in [1..Len(next) -> Entry]
      BY <2>2, <3>1
    <3> QED
      BY <3>1, <3>2
  <2>11. Streams(next) = Streams(ag) \cup ToSet(added)
    BY <2>1, <2>5 DEF Streams
  <2> QED
    BY <2>5, <2>7, <2>8, <2>9, <2>10, <2>11
<1> QED
  BY <1>1, <1>2

LEMMA CreateKeepsStreams ==
    ASSUME StreamsInv, NEW instrument \in Instrument, CreateInstrument(instrument)
    PROVE  StreamsInv'
<1> USE DEF StreamsInv
<1>1. PICK r : /\ r = Resolve(instrument) /\ cache' = r.cache
               /\ AddAggregators(instrument.scope, r.added)
               /\ created' = Append(created, [instrument |-> instrument, measures |-> r.measures])
               /\ views' = views
  BY DEF CreateInstrument
<1>2. /\ Resolving(r, instrument)
      /\ r.measures = <<>> => Dropped(instrument, Asking(instrument))
  BY <1>1, ResolveFacts
<1>3. /\ r.cache \in Cache /\ r.added \in Seq(Stream) /\ r.measures \in Seq(Id)
      /\ instrument.scope \in Scopes
  BY <1>2, ResolutionFields DEF Resolving, Instrument
<1>4. /\ {a.id : a \in ToSet(r.added)} = Kept(r.cache) \ DOMAIN cache
      /\ Kept(r.cache) = Kept(cache) \cup {a.id : a \in ToSet(r.added)}
  <2>1. /\ {a.id : a \in ToSet(r.added)} = Kept(r.cache) \ DOMAIN cache
        /\ DOMAIN cache \subseteq DOMAIN r.cache /\ \A id \in DOMAIN cache : r.cache[id] = cache[id]
    BY <1>2 DEF Resolving
  <2>2. Kept(r.cache) \cap DOMAIN cache = Kept(cache)
    BY <2>1 DEF Kept
  <2> QED
    BY <2>1, <2>2
<1>5. /\ \A i : StreamsOf(i)' = StreamsOf(i)
      /\ \A is : DroppedFor(is)' = DroppedFor(is)
  BY <1>1 DEF StreamsOf, DroppedFor, ViewsOf
<1>6. WellFormed(aggregations') /\ Ids(aggregations') = Kept(r.cache)
  <2>1. CASE r.added = <<>>
    <3>1. aggregations' = aggregations
      BY <1>1, <2>1 DEF AddAggregators
    <3>2. {a.id : a \in ToSet(r.added)} = {}
      BY <2>1, ToSetEmpty
    <3> QED
      BY <1>4, <3>1, <3>2
  <2>2. CASE r.added # <<>>
    <3>1. Joined(aggregations, instrument.scope, r.added, aggregations')
      BY <1>1, <2>2 DEF AddAggregators, Joined
    <3>2. OwnStreams([scope |-> instrument.scope, instruments |-> r.added])
      BY <1>2 DEF Resolving, OwnStreams
    <3>3. \A a \in ToSet(r.added) : a.id \notin Ids(aggregations)
      <4>1. \A a \in ToSet(r.added) : a.id \notin DOMAIN cache
        BY <1>4
      <4> QED
        BY <4>1 DEF Kept
    <3>4. WellFormed(aggregations')
          /\ Streams(aggregations') = Streams(aggregations) \cup ToSet(r.added)
      <4>1. PICK ag, next, scope, added :
                /\ ag = aggregations /\ next = aggregations' /\ scope = instrument.scope
                /\ added = r.added
        OBVIOUS
      <4>2. /\ WellFormed(ag) /\ scope \in Scopes /\ added \in Seq(Stream) /\ added # <<>>
            /\ OwnStreams([scope |-> scope, instruments |-> added])
            /\ \A a \in ToSet(added) : a.id \notin Ids(ag)
            /\ Joined(ag, scope, added, next)
        BY <1>3, <2>2, <3>1, <3>2, <3>3, <4>1
      <4>4. WellFormed(next) /\ Streams(next) = Streams(ag) \cup ToSet(added)
        BY ONLY <4>2, StreamsAdded
      <4> QED
        BY <4>1, <4>4
    <3>5. Ids(aggregations') = Ids(aggregations) \cup {a.id : a \in ToSet(r.added)}
      <4>1. Streams(aggregations') = Streams(aggregations) \cup ToSet(r.added)
        BY <3>4
      <4> QED
        BY <4>1 DEF Ids
    <3> QED
      BY <1>4, <3>4, <3>5
  <2> QED
    BY <2>1, <2>2
<1> DEFINE c == [instrument |-> instrument, measures |-> r.measures]
<1>7. /\ created' \in Seq(Creation) /\ ToSet(created') = ToSet(created) \cup {c}
      /\ c.measures = r.measures /\ c.instrument = instrument
  <2>1. c \in Creation /\ c.measures = r.measures /\ c.instrument = instrument
    BY <1>3 DEF Creation
  <2> HIDE DEF c
  <2> QED
    BY <1>1, <2>1, AppendFacts DEF c
<1> HIDE DEF c
<1>8. UNION {ToSet(d.measures) : d \in ToSet(created')} = Kept(r.cache)
  <2>1. /\ ToSet(r.measures) \subseteq Kept(r.cache)
        /\ Kept(r.cache) \ DOMAIN cache \subseteq ToSet(r.measures)
    BY <1>2 DEF Resolving
  <2>2. UNION {ToSet(d.measures) : d \in ToSet(created')} = Kept(cache) \cup ToSet(r.measures)
    BY <1>7
  <2> QED
    BY <1>4, <2>1, <2>2
<1>11. Instruments' = Asking(instrument) /\ Instruments \subseteq Asking(instrument)
  BY <1>7 DEF Instruments, Asking
<1>9. \A d \in ToSet(created') : d.measures = <<>> => Dropped(d.instrument, Instruments)'
  <2>1. \A d \in ToSet(created') : d.measures = <<>> => Dropped(d.instrument, Asking(instrument))
    <3>1. DroppedFor(Instruments) \subseteq DroppedFor(Asking(instrument))
      BY <1>11, MoreDropped
    <3> QED
      BY <1>2, <1>7, <3>1 DEF Dropped
  <2> QED
    BY <1>5, <1>11, <2>1 DEF Dropped
<1>10. DropsOf(cache, Instruments)'
  BY <1>1, <1>2, <1>5, <1>11 DEF Resolving, DropsOf
<1> QED
  BY <1>1, <1>3, <1>6, <1>7, <1>8, <1>9, <1>10

LEMMA StreamsStep == StreamsInv /\ [PipelineNext]_pipelineState => StreamsInv'
<1> SUFFICES ASSUME StreamsInv, [PipelineNext]_pipelineState PROVE StreamsInv'
  OBVIOUS
<1>1. ASSUME NEW instrument \in Instrument, CreateInstrument(instrument) PROVE StreamsInv'
  BY <1>1, CreateKeepsStreams
<1>2. ASSUME UNCHANGED <<views, cache, aggregations, created>> PROVE StreamsInv'
  BY <1>2 DEF StreamsInv, DropsOf, Dropped, Instruments, StreamsOf, DroppedFor, ViewsOf
<1>3. ASSUME NEW full, Produce(full) PROVE StreamsInv'
  BY <1>2, <1>3 DEF Produce
<1> QED
  BY <1>1, <1>2, <1>3 DEF PipelineNext, pipelineState

(* An aggregator's identity but for the case of its name is its id.         *)
LEMMA StreamsFollow == StreamsInv => StreamsCollected
<1> SUFFICES ASSUME StreamsInv PROVE StreamsCollected
  OBVIOUS
<1> USE DEF StreamsInv
<1> DEFINE parts == [i \in DOMAIN aggregations |-> aggregations[i].instruments]
           added == FlattenSeq(parts)
           identity(a) == <<a.id[1], a.name[1], a.id[3]>>
           key == [a \in Stream |-> a.id]
<1>1. /\ aggregations \in Seq(Entry) /\ Len(aggregations) \in Nat
      /\ DOMAIN aggregations = 1..Len(aggregations)
  BY DEF WellFormed
<1>2. /\ parts \in Seq(Seq(Stream)) /\ DOMAIN parts = DOMAIN aggregations
      /\ \A i \in DOMAIN aggregations : parts[i] = aggregations[i].instruments
                                        /\ parts[i] \in Seq(Stream)
  <2>1. \A i \in 1..Len(aggregations) : aggregations[i].instruments \in Seq(Stream)
    <3>1. \A i \in 1..Len(aggregations) : aggregations[i] \in Entry
      BY <1>1, ElementOfSeq
    <3> QED
      BY <3>1 DEF Entry
  <2>2. parts \in [1..Len(aggregations) -> Seq(Stream)]
    BY <1>1, <2>1
  <2> QED
    BY <1>1, <2>1, <2>2
<1> HIDE DEF parts
<1>3. added \in Seq(Stream) /\ ToSet(added) = UNION {ToSet(parts[i]) : i \in DOMAIN parts}
  BY <1>2, FlattenType, FlattenToSet
<1>4. Apart(key, added)
  <2>1. \A i \in DOMAIN parts : \A x \in ToSet(parts[i]) :
            x \in Stream /\ key[x] = x.id /\ x.id[1] = aggregations[i].scope
    <3>1. \A i \in DOMAIN parts : \A x \in ToSet(parts[i]) : x \in Stream
      BY <1>2, ElementOfSeq DEF ToSet
    <3> QED
      BY <1>2, <3>1 DEF WellFormed, OwnStreams
  <2>2. \A i \in DOMAIN parts : Apart(key, parts[i])
    <3> SUFFICES ASSUME NEW i \in DOMAIN parts PROVE Apart(key, parts[i])
      OBVIOUS
    <3>1. \A m \in DOMAIN parts[i] : parts[i][m] \in ToSet(parts[i])
      BY DEF ToSet
    <3>2. \A m \in DOMAIN parts[i] : key[parts[i][m]] = parts[i][m].id
      BY <2>1, <3>1
    <3> HIDE DEF key
    <3>3. OwnStreams(aggregations[i]) /\ parts[i] = aggregations[i].instruments
      BY <1>2 DEF WellFormed
    <3>4. \A m, n \in DOMAIN parts[i] : parts[i][m].id = parts[i][n].id => m = n
      BY <3>3 DEF OwnStreams
    <3> QED
      BY ONLY <3>2, <3>4 DEF Apart
  <2>3. \A i, j \in DOMAIN parts : i # j =>
            \A x \in ToSet(parts[i]), y \in ToSet(parts[j]) : key[x] # key[y]
    <3> HIDE DEF key
    <3>1. \A i, j \in DOMAIN parts : aggregations[i].scope = aggregations[j].scope => i = j
      BY <1>2 DEF WellFormed
    <3> QED
      BY ONLY <2>1, <3>1
  <2> HIDE DEF key
  <2> QED
    BY <1>2, <2>2, <2>3, FlattenApart
<1>5. \A x \in ToSet(added) :
          x \in Stream /\ key[x] = <<x.id[1], <<x.name[1], 0>>, x.id[3]>>
  <2> SUFFICES ASSUME NEW x \in ToSet(added)
               PROVE  x \in Stream /\ key[x] = <<x.id[1], <<x.name[1], 0>>, x.id[3]>>
    OBVIOUS
  <2>1. PICK i \in DOMAIN parts : x \in ToSet(parts[i])
    BY <1>3
  <2>2. x \in Stream /\ x.id[2] = <<x.name[1], 0>>
    <3>1. OwnStreams(aggregations[i]) /\ parts[i] = aggregations[i].instruments
          /\ parts[i] \in Seq(Stream)
      BY <1>2, <2>1 DEF WellFormed
    <3>2. x \in Stream
      BY <2>1, <3>1, ElementOfSeq DEF ToSet
    <3>3. x.id[2] = Normalized(x.name)
      BY <2>1, <3>1 DEF OwnStreams
    <3> QED
      BY <3>2, <3>3 DEF Normalized
  <2>3. x.id \in Id
    BY <2>2 DEF Stream
  <2>4. x.id = <<x.id[1], x.id[2], x.id[3]>>
    BY <2>3 DEF Id
  <2> QED
    BY <2>2, <2>4
<1> HIDE DEF added, key
<1>6. \A a, b \in DOMAIN added : identity(added[a]) = identity(added[b]) => a = b
  <2> SUFFICES ASSUME NEW a \in DOMAIN added, NEW b \in DOMAIN added,
                      identity(added[a]) = identity(added[b])
               PROVE  a = b
    OBVIOUS
  <2>1. added[a] \in ToSet(added) /\ added[b] \in ToSet(added)
    BY DEF ToSet
  <2>2. key[added[a]] = key[added[b]]
    BY <1>5, <2>1
  <2> QED
    BY <1>4, <2>2 DEF Apart
<1>7. {a.id : a \in ToSet(added)} = UNION {ToSet(c.measures) : c \in ToSet(created)}
  <2>1. ToSet(added) = Streams(aggregations)
    <3>1. \A g, x : x \in Streams(g) <=> \E i \in DOMAIN g : x \in ToSet(g[i].instruments)
      BY DEF Streams, ToSet
    <3>2. \A x : x \in Streams(aggregations)
                     <=> \E i \in DOMAIN aggregations : x \in ToSet(aggregations[i].instruments)
      BY <3>1
    <3>3. \A x : x \in ToSet(added) <=> x \in Streams(aggregations)
      BY <1>2, <1>3, <3>2
    <3> QED
      BY <3>3
  <2> QED
    BY <2>1 DEF Ids
<1> QED
  BY <1>6, <1>7, Zenon DEF StreamsCollected, added, parts, Dropped

(* The pipeline collects, once and under one name, what instruments measure *)
(* on, whatever views there are and whatever instruments are created.       *)
THEOREM InstrumentsAreCollected == PipelineSpec => []StreamsCollected
<1>1. PipelineSpec => []StreamsInv
  BY StreamsStart, StreamsStep, PTL DEF PipelineSpec
<1> QED
  BY <1>1, StreamsFollow, PTL

-----------------------------------------------------------------------------
Metric == [name : Name, data : [type : AggregatorTypes, points : Nat]]
ScopeMetrics == [scope : Scopes \cup {""}, metrics : Seq(Metric)]

(* What a collection owes for one aggregator, for those of a scope, and for *)
(* one scope.                                                               *)
Filled(a, full, cycle) ==
    IF a.id \in full THEN <<[name |-> a.name, data |-> Points(a.type, cycle)]>> ELSE <<>>
ScopeOwes(s, full, cycle) == FlattenSeq([j \in DOMAIN s |-> Filled(s[j], full, cycle)])
Busy(entry, full, cycle) ==
    IF ScopeOwes(entry.instruments, full, cycle) = <<>> THEN <<>>
    ELSE <<[scope |-> entry.scope, metrics |-> ScopeOwes(entry.instruments, full, cycle)]>>

LEMMA FilledType ==
    ASSUME NEW a \in Stream, NEW full, NEW cycle \in Nat
    PROVE  /\ Filled(a, full, cycle) \in Seq(Metric)
           /\ [name |-> a.name, data |-> Points(a.type, cycle)] \in Metric
<1>1. [name |-> a.name, data |-> Points(a.type, cycle)] \in Metric
  BY DEF Stream, Metric, Points
<1> QED
  BY <1>1 DEF Filled

LEMMA ScopeOwesType ==
    ASSUME NEW s \in Seq(Stream), NEW full, NEW cycle \in Nat
    PROVE  /\ [j \in DOMAIN s |-> Filled(s[j], full, cycle)] \in Seq(Seq(Metric))
           /\ ScopeOwes(s, full, cycle) \in Seq(Metric)
<1> DEFINE parts == [j \in DOMAIN s |-> Filled(s[j], full, cycle)]
<1>1. Len(s) \in Nat /\ DOMAIN s = 1..Len(s)
  OBVIOUS
<1>2. \A j \in 1..Len(s) : Filled(s[j], full, cycle) \in Seq(Metric)
  BY <1>1, ElementOfSeq, FilledType
<1>3. parts \in [1..Len(s) -> Seq(Metric)]
  BY <1>1, <1>2
<1>4. parts \in Seq(Seq(Metric))
  BY <1>1, <1>3
<1> HIDE DEF parts
<1>5. FlattenSeq(parts) \in Seq(Metric)
  BY <1>4, FlattenType
<1> QED
  BY <1>4, <1>5 DEF ScopeOwes, parts

-----------------------------------------------------------------------------
(* One instrument. *)
MetricStep(full, acc, instrument) == WriteMetric(acc, instrument, full)
Writing == INSTANCE FoldLaws WITH Op <- MetricStep
Written(full, base, s) ==
    FoldLeft(LAMBDA a, instrument : WriteMetric(a, instrument, full), base, s)

LEMMA WrittenIsFold ==
    ASSUME NEW c, NEW base, NEW s PROVE Written(c, base, s) = Writing!Fold(c, base, s)
BY DEF FoldLeft, MapThenFoldSet, Written, MetricStep, Max, Writing!FoldLeft,
       Writing!MapThenFoldSet, Writing!Max, Writing!Fold

LEMMA WrittenRuns ==
    ASSUME NEW c, NEW base, NEW X, NEW s \in Seq(X)
    PROVE  \E h : /\ h[0] = base
                  /\ \A k \in Nat : k < Len(s) => h[k + 1] = WriteMetric(h[k], s[k + 1], c)
                  /\ h[Len(s)] = Written(c, base, s)
<1>1. \E h : /\ h[0] = base
             /\ \A k \in Nat : k < Len(s) => h[k + 1] = MetricStep(c, h[k], s[k + 1])
             /\ h[Len(s)] = Writing!Fold(c, base, s)
  BY Writing!FoldRuns
<1>2. Written(c, base, s) = Writing!Fold(c, base, s)
  BY WrittenIsFold
<1> QED
  BY <1>1, <1>2 DEF MetricStep

(* The metrics written so far are those owed; what follows them is old.     *)
MetricsSoFar(acc, owed) ==
    /\ acc = [j |-> acc.j, metrics |-> acc.metrics]
    /\ acc.metrics \in Seq(Metric) /\ acc.j = Len(owed) /\ Begins(acc.metrics, owed)

LEMMA WriteMetricKeeps ==
    ASSUME collections \in Nat, NEW full, NEW a \in Stream, NEW owed \in Seq(Metric),
           NEW acc, MetricsSoFar(acc, owed),
           NEW next, next = WriteMetric(acc, a, full)
    PROVE  /\ owed \o Filled(a, full, collections + 1) \in Seq(Metric)
           /\ MetricsSoFar(next, owed \o Filled(a, full, collections + 1))
<1> DEFINE fresh == [name |-> a.name, data |-> Points(a.type, collections + 1)]
           n == Len(owed) + 1
           old == acc.metrics
           overwritten == IF n <= Len(old) THEN [old EXCEPT ![n] = fresh] ELSE Append(old, fresh)
<1>0. /\ acc = [j |-> acc.j, metrics |-> acc.metrics] /\ old \in Seq(Metric)
      /\ acc.j = Len(owed) /\ Begins(old, owed) /\ Len(owed) \in Nat /\ Len(old) \in Nat
  BY DEF MetricsSoFar
<1>1. fresh \in Metric
  <2>1. collections + 1 \in Nat
    OBVIOUS
  <2> QED
    BY <2>1, FilledType
<1>2. CASE a.id \in full
  <2>1. next = [j |-> n, metrics |-> overwritten]
    BY <1>0, <1>2 DEF WriteMetric
  <2>2. Filled(a, full, collections + 1) = <<fresh>>
    BY <1>2 DEF Filled
  <2>3. PICK x, s, t : x = fresh /\ s = old /\ t = overwritten
    OBVIOUS
  <2>4. /\ x \in Metric /\ s \in Seq(Metric) /\ Begins(s, owed)
        /\ t = Put(s, Len(owed) + 1, x)
    BY <1>0, <1>1, <2>3 DEF Put
  <2>5. /\ t \in Seq(Metric)
        /\ owed \o <<x>> \in Seq(Metric) /\ Begins(t, owed \o <<x>>)
        /\ Len(owed \o <<x>>) = Len(owed) + 1
    BY <2>4, PutNext
  <2>6. next = [j |-> n, metrics |-> t] /\ Filled(a, full, collections + 1) = <<x>>
    BY <2>1, <2>2, <2>3
  <2>7. next.j = n /\ next.metrics = t /\ next = [j |-> next.j, metrics |-> next.metrics]
    BY <2>6
  <2> QED
    BY <2>5, <2>6, <2>7 DEF MetricsSoFar
<1>3. CASE a.id \notin full
  <2>1. Filled(a, full, collections + 1) = <<>> /\ owed \o <<>> = owed
    BY <1>3, ConcatEmptySeq DEF Filled
  <2>2. CASE n <= Len(old) /\ old[n].data.type = a.type
    <3> DEFINE data == Points(a.type, 0)
               emptied == [old EXCEPT ![n].data = data]
    <3>1. next = [acc EXCEPT !.metrics[n].data = data]
      BY <1>0, <1>3, <2>2 DEF WriteMetric
    <3>2. next = [j |-> acc.j, metrics |-> emptied]
      BY <1>0, <3>1
    <3>3. emptied \in Seq(Metric) /\ \A m \in 1..Len(owed) : emptied[m] = old[m]
      <4>1. n \in 1..Len(old) /\ old[n] \in Metric
        BY <1>0, <2>2, ElementOfSeq
      <4>2. data \in [type : AggregatorTypes, points : Nat]
        BY DEF Points, Stream
      <4> HIDE DEF data
      <4>3. [old[n] EXCEPT !.data = data] \in Metric
        BY <4>1, <4>2 DEF Metric
      <4>4. emptied = [old EXCEPT ![n] = [old[n] EXCEPT !.data = data]]
        BY Zenon
      <4> HIDE DEF emptied
      <4>5. emptied \in Seq(Metric)
        <5>1. PICK e : e = [old[n] EXCEPT !.data = data]
          OBVIOUS
        <5>2. emptied = [old EXCEPT ![n] = e] /\ e \in Metric
          BY <4>3, <4>4, <5>1
        <5> QED
          BY <1>0, <4>1, <5>2
      <4> QED
        BY <1>0, <4>1, <4>4, <4>5
    <3>4. Len(emptied) = Len(old)
      BY <1>0
    <3> HIDE DEF emptied
    <3>5. Begins(emptied, owed)
      BY <1>0, <3>3, <3>4 DEF Begins
    <3> QED
      <4>1. /\ next.j = acc.j /\ next.metrics = emptied
            /\ next = [j |-> next.j, metrics |-> next.metrics]
        BY <3>2
      <4> QED
        BY <1>0, <2>1, <3>3, <3>5, <4>1 DEF MetricsSoFar
  <2>3. CASE ~(n <= Len(old) /\ old[n].data.type = a.type)
    <3>1. next = acc
      BY <1>0, <1>3, <2>3 DEF WriteMetric
    <3> QED
      BY <2>1, <3>1
  <2> QED
    BY <2>2, <2>3
<1> QED
  BY <1>2, <1>3

(* A scope's metrics, whatever was kept. *)
LEMMA ScopeWritten ==
    ASSUME collections \in Nat, NEW full, NEW s \in Seq(Stream), NEW earlier \in Seq(Metric)
    PROVE  Truncate(Written(full, [j |-> 0, metrics |-> earlier], s))
             = ScopeOwes(s, full, collections + 1)
<1> DEFINE parts == [j \in DOMAIN s |-> Filled(s[j], full, collections + 1)]
           start == [j |-> 0, metrics |-> earlier]
<1>1. parts \in Seq(Seq(Metric)) /\ Len(s) \in Nat /\ DOMAIN s = 1..Len(s) /\ Len(parts) = Len(s)
  <2>1. Len(s) \in Nat /\ DOMAIN s = 1..Len(s)
    OBVIOUS
  <2>2. parts \in Seq(Seq(Metric))
    <3>1. collections + 1 \in Nat
      OBVIOUS
    <3> QED
      BY <3>1, ScopeOwesType, Zenon
  <2>3. DOMAIN parts = 1..Len(s)
    BY <2>1
  <2> HIDE DEF parts
  <2>4. Len(parts) = Len(s)
    BY <2>1, <2>2, <2>3
  <2> QED
    BY <2>1, <2>2, <2>4
<1>2. PICK g : /\ g[0] = <<>> /\ g[Len(s)] = FlattenSeq(parts)
               /\ \A k \in Nat : k <= Len(s) => g[k] \in Seq(Metric)
               /\ \A k \in Nat : k < Len(s) => g[k + 1] = g[k] \o parts[k + 1]
  <2> HIDE DEF parts
  <2>1. \E g : /\ g[0] = <<>> /\ g[Len(parts)] = FlattenSeq(parts)
               /\ \A k \in Nat : k <= Len(parts) => g[k] \in Seq(Metric)
               /\ \A k \in Nat : k < Len(parts) => g[k + 1] = g[k] \o parts[k + 1]
    BY <1>1, FlattenGrows
  <2> QED
    BY <1>1, <2>1
<1>3. PICK h : /\ h[0] = start
               /\ \A k \in Nat : k < Len(s) => h[k + 1] = WriteMetric(h[k], s[k + 1], full)
               /\ h[Len(s)] = Written(full, start, s)
  BY WrittenRuns
<1> DEFINE N == {k \in Nat : k <= Len(s) => MetricsSoFar(h[k], g[k])}
<1>4. 0 \in N
  <2>1. MetricsSoFar(start, <<>>)
    BY DEF MetricsSoFar, Begins
  <2> QED
    BY <1>2, <1>3, <2>1
<1>5. ASSUME NEW k \in Nat, k \in N PROVE k + 1 \in N
  <2> SUFFICES ASSUME k + 1 <= Len(s) PROVE MetricsSoFar(h[k + 1], g[k + 1])
    OBVIOUS
  <2>1. k < Len(s) /\ k <= Len(s) /\ k + 1 \in DOMAIN s /\ s[k + 1] \in Stream
    BY <1>1, ElementOfSeq
  <2>2. h[k + 1] = WriteMetric(h[k], s[k + 1], full) /\ g[k] \in Seq(Metric)
    BY <1>2, <1>3, <2>1
  <2>3. g[k + 1] = g[k] \o Filled(s[k + 1], full, collections + 1)
    BY <1>2, <2>1
  <2>4. MetricsSoFar(h[k], g[k])
    BY <1>5, <2>1
  <2> QED
    BY <2>1, <2>2, <2>3, <2>4, WriteMetricKeeps
<1>6. MetricsSoFar(h[Len(s)], g[Len(s)]) /\ g[Len(s)] \in Seq(Metric)
  <2>1. Len(s) \in N
    <3> HIDE DEF N
    <3> QED
      BY <1>1, <1>4, <1>5, SetInduction
  <2> QED
    BY <1>1, <1>2, <2>1
<1>7. Truncate(h[Len(s)]) = g[Len(s)]
  BY <1>6, BeginsWith DEF MetricsSoFar, Truncate
<1> QED
  BY <1>2, <1>3, <1>7 DEF ScopeOwes

-----------------------------------------------------------------------------
(* One scope. *)
ScopeStep(full, acc, entry) == WriteScope(acc, entry, full)
Collecting == INSTANCE FoldLaws WITH Op <- ScopeStep
Collected(full, base, s) == FoldLeft(LAMBDA acc, entry : WriteScope(acc, entry, full), base, s)

LEMMA CollectedIsFold ==
    ASSUME NEW c, NEW base, NEW s PROVE Collected(c, base, s) = Collecting!Fold(c, base, s)
BY DEF FoldLeft, MapThenFoldSet, Collected, ScopeStep, Max, Collecting!FoldLeft,
       Collecting!MapThenFoldSet, Collecting!Max, Collecting!Fold

LEMMA CollectedRuns ==
    ASSUME NEW c, NEW base, NEW X, NEW s \in Seq(X)
    PROVE  \E h : /\ h[0] = base
                  /\ \A k \in Nat : k < Len(s) => h[k + 1] = WriteScope(h[k], s[k + 1], c)
                  /\ h[Len(s)] = Collected(c, base, s)
<1>1. \E h : /\ h[0] = base
             /\ \A k \in Nat : k < Len(s) => h[k + 1] = ScopeStep(c, h[k], s[k + 1])
             /\ h[Len(s)] = Collecting!Fold(c, base, s)
  BY Collecting!FoldRuns
<1>2. Collected(c, base, s) = Collecting!Fold(c, base, s)
  BY CollectedIsFold
<1> QED
  BY <1>1, <1>2 DEF ScopeStep

(* The scopes written so far are those owed. *)
ScopesSoFar(acc, owed) ==
    /\ acc = [i |-> acc.i, scopes |-> acc.scopes]
    /\ acc.scopes \in Seq(ScopeMetrics) /\ acc.i = Len(owed) /\ Begins(acc.scopes, owed)

LEMMA BusyType ==
    ASSUME NEW entry \in Entry, NEW full, NEW cycle \in Nat
    PROVE  Busy(entry, full, cycle) \in Seq(ScopeMetrics)
<1>1. entry.scope \in Scopes /\ entry.instruments \in Seq(Stream)
  BY DEF Entry
<1>2. ScopeOwes(entry.instruments, full, cycle) \in Seq(Metric)
  BY <1>1, ScopeOwesType
<1>3. [scope |-> entry.scope, metrics |-> ScopeOwes(entry.instruments, full, cycle)]
        \in ScopeMetrics
  BY <1>1, <1>2 DEF ScopeMetrics
<1> QED
  BY <1>3 DEF Busy

(* What WriteScope meets at its place, and what it writes there. *)
OldScope(scopes, n) ==
    IF n <= Len(scopes) THEN scopes[n] ELSE [scope |-> "", metrics |-> <<>>]
NewMetrics(old, entry, full) ==
    Truncate(Written(full, [j |-> 0, metrics |-> old.metrics], entry.instruments))
NewScope(old, written, entry) ==
    [scope |-> IF written = <<>> THEN old.scope ELSE entry.scope, metrics |-> written]
ScopePlaced(i, scopes, entry, full, old, written) ==
    [i |-> IF written = <<>> THEN i ELSE i + 1,
     scopes |-> Put(scopes, i + 1, NewScope(old, written, entry))]

LEMMA WriteScopeIs ==
    ASSUME NEW acc, NEW entry, NEW full
    PROVE  WriteScope(acc, entry, full) =
               ScopePlaced(acc.i, acc.scopes, entry, full, OldScope(acc.scopes, acc.i + 1),
                           NewMetrics(OldScope(acc.scopes, acc.i + 1), entry, full))
BY DEF WriteScope, ScopePlaced, OldScope, NewMetrics, NewScope, Put, Written

LEMMA WriteScopeKeeps ==
    ASSUME collections \in Nat, NEW full, NEW entry \in Entry, NEW owed \in Seq(ScopeMetrics),
           NEW acc, ScopesSoFar(acc, owed),
           NEW next, next = WriteScope(acc, entry, full)
    PROVE  ScopesSoFar(next, owed \o Busy(entry, full, collections + 1))
<1> DEFINE n == Len(owed) + 1
           old == OldScope(acc.scopes, n)
           written == NewMetrics(old, entry, full)
           new == NewScope(old, written, entry)
<1>0. /\ acc = [i |-> acc.i, scopes |-> acc.scopes] /\ acc.scopes \in Seq(ScopeMetrics)
      /\ acc.i = Len(owed) /\ Begins(acc.scopes, owed) /\ Len(owed) \in Nat
      /\ Len(acc.scopes) \in Nat
  BY DEF ScopesSoFar
<1>1. next = [i |-> IF written = <<>> THEN Len(owed) ELSE n, scopes |-> Put(acc.scopes, n, new)]
  <2>1. acc.i = Len(owed)
    BY <1>0
  <2> QED
    BY <2>1, WriteScopeIs DEF ScopePlaced
<1>2. old \in ScopeMetrics
  <2>1. CASE n <= Len(acc.scopes)
    <3>1. n \in 1..Len(acc.scopes)
      BY <1>0, <2>1
    <3> QED
      BY <1>0, <2>1, <3>1, ElementOfSeq DEF OldScope
  <2>2. CASE ~(n <= Len(acc.scopes))
    <3>1. <<>> \in Seq(Metric)
      OBVIOUS
    <3>2. [scope |-> "", metrics |-> <<>>] \in ScopeMetrics
      BY <3>1 DEF ScopeMetrics
    <3> QED
      BY <2>2, <3>2 DEF OldScope
  <2> QED
    BY <2>1, <2>2
<1>3. old.scope \in Scopes \cup {""} /\ old.metrics \in Seq(Metric)
  <2> HIDE DEF old
  <2> QED
    BY <1>2 DEF ScopeMetrics
<1>4. entry.scope \in Scopes /\ entry.instruments \in Seq(Stream) /\ collections + 1 \in Nat
  BY DEF Entry
<1> HIDE DEF old
<1>5. written = ScopeOwes(entry.instruments, full, collections + 1) /\ written \in Seq(Metric)
  <2>1. PICK earlier, s : earlier = old.metrics /\ s = entry.instruments
    OBVIOUS
  <2>2. earlier \in Seq(Metric) /\ s \in Seq(Stream)
    BY <1>3, <1>4, <2>1
  <2>3. Truncate(Written(full, [j |-> 0, metrics |-> earlier], s))
          = ScopeOwes(s, full, collections + 1)
    BY <2>2, ScopeWritten
  <2>4. ScopeOwes(s, full, collections + 1) \in Seq(Metric)
    BY <1>4, <2>2, ScopeOwesType
  <2> QED
    BY <2>1, <2>3, <2>4 DEF NewMetrics
<1> HIDE DEF written
<1>6. new \in ScopeMetrics
  BY <1>3, <1>4, <1>5 DEF ScopeMetrics, NewScope
<1>7. Busy(entry, full, collections + 1)
        = IF written = <<>> THEN <<>> ELSE <<[scope |-> entry.scope, metrics |-> written]>>
  BY <1>5 DEF Busy
<1>8. PICK x, s, t : x = new /\ s = acc.scopes /\ t = Put(s, Len(owed) + 1, x)
  OBVIOUS
<1>9. /\ t \in Seq(ScopeMetrics) /\ Begins(t, owed)
      /\ Begins(t, owed \o <<x>>) /\ Len(owed \o <<x>>) = Len(owed) + 1
  <2>1. x \in ScopeMetrics /\ s \in Seq(ScopeMetrics) /\ Begins(s, owed)
    BY <1>0, <1>6, <1>8
  <2> QED
    BY <1>8, <2>1, PutNext
<1>10. next = [i |-> IF written = <<>> THEN Len(owed) ELSE n, scopes |-> t]
  BY <1>1, <1>8
<1>11. /\ next.i = (IF written = <<>> THEN Len(owed) ELSE n) /\ next.scopes = t
       /\ next = [i |-> next.i, scopes |-> next.scopes]
  BY <1>10
<1>12. CASE written = <<>>
  <2>1. owed \o Busy(entry, full, collections + 1) = owed
    BY <1>7, <1>12, ConcatEmptySeq
  <2> QED
    BY <1>9, <1>11, <1>12, <2>1 DEF ScopesSoFar
<1>13. CASE written # <<>>
  <2>1. Busy(entry, full, collections + 1) = <<x>>
    BY <1>7, <1>8, <1>13 DEF NewScope
  <2> QED
    BY <1>9, <1>11, <1>13, <2>1 DEF ScopesSoFar
<1> QED
  BY <1>12, <1>13

(* Pipeline::produce, whatever was kept from earlier collections.           *)
LEMMA ProduceWrites ==
    ASSUME aggregations \in Seq(Entry), collections \in Nat, metrics \in Seq(ScopeMetrics),
           NEW full, Produce(full)
    PROVE  /\ metrics' = Afresh(full, collections + 1)
           /\ metrics' \in Seq(ScopeMetrics)
<1> DEFINE parts == [j \in DOMAIN aggregations |-> Busy(aggregations[j], full, collections + 1)]
           start == [i |-> 0, scopes |-> metrics]
<1>0. PICK s : s = aggregations
  OBVIOUS
<1>1. /\ s \in Seq(Entry) /\ Len(s) \in Nat /\ DOMAIN s = 1..Len(s)
      /\ parts \in Seq(Seq(ScopeMetrics)) /\ Len(parts) = Len(s)
      /\ \A j \in 1..Len(s) : parts[j] = Busy(s[j], full, collections + 1)
  <2>1. s \in Seq(Entry) /\ Len(s) \in Nat /\ DOMAIN s = 1..Len(s) /\ DOMAIN parts = 1..Len(s)
    BY <1>0
  <2>2. \A j \in 1..Len(s) : parts[j] = Busy(s[j], full, collections + 1)
    BY <1>0, <2>1
  <2>3. \A j \in 1..Len(s) : Busy(s[j], full, collections + 1) \in Seq(ScopeMetrics)
    <3>1. collections + 1 \in Nat
      OBVIOUS
    <3> QED
      BY <2>1, <3>1, ElementOfSeq, BusyType
  <2>4. parts \in [1..Len(s) -> Seq(ScopeMetrics)]
    BY <1>0, <2>1, <2>3
  <2> HIDE DEF parts
  <2> QED
    BY <2>1, <2>2, <2>4
<1>2. PICK g : /\ g[0] = <<>> /\ g[Len(s)] = FlattenSeq(parts)
               /\ \A k \in Nat : k <= Len(s) => g[k] \in Seq(ScopeMetrics)
               /\ \A k \in Nat : k < Len(s) => g[k + 1] = g[k] \o parts[k + 1]
  <2> HIDE DEF parts
  <2>1. \E g : /\ g[0] = <<>> /\ g[Len(parts)] = FlattenSeq(parts)
               /\ \A k \in Nat : k <= Len(parts) => g[k] \in Seq(ScopeMetrics)
               /\ \A k \in Nat : k < Len(parts) => g[k + 1] = g[k] \o parts[k + 1]
    BY <1>1, FlattenGrows
  <2> QED
    BY <1>1, <2>1
<1>3. PICK h : /\ h[0] = start
               /\ \A k \in Nat : k < Len(s) => h[k + 1] = WriteScope(h[k], s[k + 1], full)
               /\ h[Len(s)] = Collected(full, start, s)
  <2>1. PICK base : base = start
    OBVIOUS
  <2>2. \E h : /\ h[0] = base
               /\ \A k \in Nat : k < Len(s) => h[k + 1] = WriteScope(h[k], s[k + 1], full)
               /\ h[Len(s)] = Collected(full, base, s)
    <3>1. s \in Seq(Entry)
      BY <1>1
    <3> QED
      BY ONLY <3>1, CollectedRuns
  <2> QED
    BY <2>1, <2>2
<1> DEFINE N == {k \in Nat : k <= Len(s) => ScopesSoFar(h[k], g[k])}
<1>4. 0 \in N
  <2>1. ScopesSoFar(start, <<>>)
    BY DEF ScopesSoFar, Begins
  <2> QED
    BY <1>2, <1>3, <2>1
<1>5. ASSUME NEW k \in Nat, k \in N PROVE k + 1 \in N
  <2> SUFFICES ASSUME k + 1 <= Len(s) PROVE ScopesSoFar(h[k + 1], g[k + 1])
    OBVIOUS
  <2>1. k < Len(s) /\ k <= Len(s) /\ k + 1 \in 1..Len(s) /\ s[k + 1] \in Entry
    BY <1>1, ElementOfSeq
  <2>2. h[k + 1] = WriteScope(h[k], s[k + 1], full) /\ g[k] \in Seq(ScopeMetrics)
    BY <1>2, <1>3, <2>1
  <2>3. g[k + 1] = g[k] \o Busy(s[k + 1], full, collections + 1)
    BY <1>1, <1>2, <2>1
  <2>4. ScopesSoFar(h[k], g[k])
    BY <1>5, <2>1
  <2> QED
    BY <2>1, <2>2, <2>3, <2>4, WriteScopeKeeps
<1>6. ScopesSoFar(h[Len(s)], g[Len(s)]) /\ g[Len(s)] \in Seq(ScopeMetrics)
  <2>1. Len(s) \in N
    <3> HIDE DEF N
    <3> QED
      BY <1>1, <1>4, <1>5, SetInduction
  <2> QED
    BY <1>1, <1>2, <2>1
<1>7. SubSeq(h[Len(s)].scopes, 1, h[Len(s)].i) = g[Len(s)]
  BY <1>6, BeginsWith DEF ScopesSoFar
<1>8. metrics' = SubSeq(h[Len(s)].scopes, 1, h[Len(s)].i)
  BY <1>0, <1>3 DEF Produce, Collected
<1>9. Afresh(full, collections + 1) = FlattenSeq(parts)
  BY DEF Afresh, Busy, ScopeOwes, Filled
<1> HIDE DEF parts
<1> QED
  BY <1>2, <1>6, <1>7, <1>8, <1>9

-----------------------------------------------------------------------------
KeptInv == StreamsInv /\ metrics \in Seq(ScopeMetrics) /\ collections \in Nat

LEMMA KeptStep == KeptInv /\ [PipelineNext]_pipelineState => KeptInv'
<1> SUFFICES ASSUME KeptInv, [PipelineNext]_pipelineState PROVE KeptInv'
  OBVIOUS
<1>0. StreamsInv' /\ aggregations \in Seq(Entry)
  <2>1. StreamsInv
    BY DEF KeptInv
  <2> QED
    <3>1. aggregations \in Seq(Entry)
      BY <2>1 DEF StreamsInv, WellFormed
    <3>2. StreamsInv'
      BY ONLY <2>1, [PipelineNext]_pipelineState, StreamsStep, PTL
    <3> QED
      BY <3>1, <3>2
<1>1. ASSUME NEW full, Produce(full) PROVE KeptInv'
  <2>1. aggregations \in Seq(Entry) /\ collections \in Nat /\ metrics \in Seq(ScopeMetrics)
    BY <1>0 DEF KeptInv
  <2>2. metrics' \in Seq(ScopeMetrics)
    BY <1>1, <2>1, ProduceWrites
  <2>3. collections' = collections + 1
    BY <1>1 DEF Produce
  <2> QED
    BY <1>0, <2>1, <2>2, <2>3 DEF KeptInv
<1>2. ASSUME UNCHANGED <<metrics, collections>> PROVE KeptInv'
  BY <1>0, <1>2 DEF KeptInv
<1> QED
  BY <1>1, <1>2 DEF PipelineNext, CreateInstrument, pipelineState

LEMMA CollectStep ==
    KeptInv /\ [PipelineNext]_pipelineState
      => [collections' # collections => metrics' = Afresh(reporting', collections')]_pipelineState
<1> SUFFICES ASSUME KeptInv, PipelineNext, collections' # collections
             PROVE  metrics' = Afresh(reporting', collections')
  BY DEF pipelineState
<1>1. PICK full : Produce(full)
  BY DEF PipelineNext, CreateInstrument
<1> QED
  BY <1>1, ProduceWrites DEF KeptInv, StreamsInv, WellFormed, Produce

(* A collection leaves what it would have left in an empty ResourceMetrics, *)
(* whatever scopes, instruments and types the kept one held.                *)
THEOREM CollectionIsAfresh == PipelineSpec => CollectedAfresh
<1>1. PipelineInit => KeptInv
  BY StreamsStart DEF PipelineInit, KeptInv
<1>2. PipelineSpec => []KeptInv
  BY <1>1, KeptStep, PTL DEF PipelineSpec
<1> QED
  BY <1>2, CollectStep, PTL DEF PipelineSpec, CollectedAfresh

-----------------------------------------------------------------------------
(* The exponential histogram. *)

(* Powers of two. *)
Doubling(n) == {g \in [0..n -> Nat] : g[0] = 1 /\ \A k \in 0..(n - 1) : g[k + 1] = 2 * g[k]}

LEMMA DoublingExists == \A n \in Nat : Doubling(n) # {}
<1> DEFINE N == {n \in Nat : Doubling(n) # {}}
<1>1. 0 \in N
  <2>1. [k \in 0..0 |-> 1] \in Doubling(0)
    BY DEF Doubling
  <2> QED
    BY <2>1
<1>2. ASSUME NEW n \in Nat, n \in N PROVE n + 1 \in N
  <2>1. PICK g : g \in Doubling(n)
    BY <1>2
  <2> DEFINE h == [k \in 0..(n + 1) |-> IF k = n + 1 THEN 2 * g[n] ELSE g[k]]
  <2>2. g \in [0..n -> Nat] /\ g[0] = 1 /\ \A k \in 0..(n - 1) : g[k + 1] = 2 * g[k]
    BY <2>1 DEF Doubling
  <2>3. h \in [0..(n + 1) -> Nat]
    BY <2>2
  <2>4. h[0] = 1
    BY <2>2
  <2>5. ASSUME NEW k \in 0..(n + 1 - 1) PROVE h[k + 1] = 2 * h[k]
    BY <2>2, <2>5
  <2> HIDE DEF h
  <2>6. h \in Doubling(n + 1)
    BY <2>3, <2>4, <2>5 DEF Doubling
  <2> QED
    BY <2>6
<1>3. Nat \subseteq N
  <2> HIDE DEF N
  <2> QED
    BY <1>1, <1>2, SetInduction
<1> QED
  BY <1>3

LEMMA DoublingOne ==
    ASSUME NEW n \in Nat, NEW m \in Nat, n <= m, NEW g \in Doubling(n), NEW h \in Doubling(m)
    PROVE  g[n] = h[n]
<1> DEFINE N == {k \in Nat : k <= n => g[k] = h[k]}
<1>0. /\ g[0] = 1 /\ \A k \in 0..(n - 1) : g[k + 1] = 2 * g[k]
      /\ h[0] = 1 /\ \A k \in 0..(m - 1) : h[k + 1] = 2 * h[k]
  BY DEF Doubling
<1>1. 0 \in N
  BY <1>0
<1>2. ASSUME NEW k \in Nat, k \in N PROVE k + 1 \in N
  BY <1>0, <1>2
<1>3. Nat \subseteq N
  <2> HIDE DEF N
  <2> QED
    BY <1>1, <1>2, SetInduction
<1> QED
  BY <1>3

LEMMA PowerOf2Step ==
    /\ PowerOf2[0] = 1
    /\ \A n \in Nat : PowerOf2[n + 1] = 2 * PowerOf2[n]
    /\ \A n \in Nat : PowerOf2[n] \in Nat /\ PowerOf2[n] > 0
<1> DEFINE Powers(f) == f = [n \in Nat |-> IF n = 0 THEN 1 ELSE 2 * f[n - 1]]
           upto == [n \in Nat |-> CHOOSE g : g \in Doubling(n)]
           f == [n \in Nat |-> upto[n][n]]
<1>1. \A n \in Nat : upto[n] \in Doubling(n)
  BY DoublingExists
<1> HIDE DEF upto
<1>2. f[0] = 1
  BY <1>1 DEF Doubling
<1>3. ASSUME NEW n \in Nat PROVE f[n + 1] = 2 * f[n]
  <2>1. upto[n + 1][n + 1] = 2 * upto[n + 1][n]
    BY <1>1 DEF Doubling
  <2>2. upto[n][n] = upto[n + 1][n]
    BY <1>1, DoublingOne
  <2> QED
    BY <2>1, <2>2
<1>4. Powers(f)
  <2>1. ASSUME NEW n \in Nat PROVE f[n] = IF n = 0 THEN 1 ELSE 2 * f[n - 1]
    <3>1. CASE n = 0
      BY <1>2, <3>1
    <3>2. CASE n # 0
      <4>1. n - 1 \in Nat /\ (n - 1) + 1 = n
        BY <3>2
      <4>2. f[(n - 1) + 1] = 2 * f[n - 1]
        BY <1>3, <4>1
      <4> QED
        BY <3>2, <4>1, <4>2
    <3> QED
      BY <3>1, <3>2
  <2>2. f = [n \in Nat |-> f[n]]
    OBVIOUS
  <2> HIDE DEF f
  <2> QED
    BY <2>1, <2>2
<1> HIDE DEF f
<1>5. Powers(PowerOf2)
  <2>1. PowerOf2 = CHOOSE g : Powers(g)
    BY DEF PowerOf2
  <2> HIDE DEF Powers
  <2> QED
    BY <1>4, <2>1
<1>6. PowerOf2[0] = 1 /\ \A n \in Nat : n # 0 => PowerOf2[n] = 2 * PowerOf2[n - 1]
  BY <1>5
<1>7. ASSUME NEW n \in Nat PROVE PowerOf2[n + 1] = 2 * PowerOf2[n]
  <2>1. n + 1 \in Nat /\ n + 1 # 0 /\ (n + 1) - 1 = n
    OBVIOUS
  <2> QED
    BY <1>6, <2>1
<1> DEFINE N == {n \in Nat : PowerOf2[n] \in Nat /\ PowerOf2[n] > 0}
<1>8. Nat \subseteq N
  <2>1. 0 \in N
    BY <1>6
  <2>2. \A n \in Nat : n \in N => n + 1 \in N
    BY <1>7
  <2> HIDE DEF N
  <2> QED
    BY <2>1, <2>2, SetInduction
<1> QED
  BY <1>6, <1>7, <1>8

LEMMA PowerOf2Sum ==
    ASSUME NEW m \in Nat, NEW n \in Nat
    PROVE  PowerOf2[m + n] = PowerOf2[m] * PowerOf2[n]
<1> DEFINE N == {k \in Nat : PowerOf2[m + k] = PowerOf2[m] * PowerOf2[k]}
<1>1. 0 \in N
  BY PowerOf2Step
<1>2. ASSUME NEW k \in Nat, k \in N PROVE k + 1 \in N
  <2>1. PowerOf2[(m + k) + 1] = 2 * PowerOf2[m + k] /\ PowerOf2[k + 1] = 2 * PowerOf2[k]
    BY PowerOf2Step
  <2>2. PowerOf2[m] \in Nat /\ PowerOf2[k] \in Nat
    BY PowerOf2Step
  <2>3. PowerOf2[m + k] = PowerOf2[m] * PowerOf2[k] /\ m + (k + 1) = (m + k) + 1
    BY <1>2
  <2>4. \A a, b \in Nat : 2 * (a * b) = a * (2 * b)
    OBVIOUS
  <2> QED
    BY <2>1, <2>2, <2>3, <2>4
<1>3. Nat \subseteq N
  <2> HIDE DEF N
  <2> QED
    BY <1>1, <1>2, SetInduction
<1> QED
  BY <1>3

-----------------------------------------------------------------------------
(* The members of I whose bin is from low to high and in a group.           *)
BinsIn(I, bin, steps, low, high, group) ==
    {x \in I : low <= bin[x] /\ bin[x] <= high /\ bin[x] \div steps = group}
(* The counts c of the bins from s on are those of f.                       *)
CountsOf(I, f, bin, s, c) ==
    \A i \in 1..Len(c) : c[i] = SumOf(f, {x \in I : bin[x] = s + i - 1})
(* The bins up to s + k are merged into h, the others are as in c.          *)
MergedUpTo(I, f, bin, s, c, steps, k, h) ==
    /\ h \in Seq(Nat) /\ Len(h) = Len(c)
    /\ \A p \in (k + 2)..Len(c) : h[p] = c[p]
    /\ \A p \in 1..((k + (s % steps)) \div steps + 1) :
          h[p] = SumOf(f, BinsIn(I, bin, steps, s, s + k, s \div steps + p - 1))

(* One more bin joins the group next, alone when it is a fresh one.         *)
Joins(I, bin, s, steps, k, base, next, fresh) ==
    /\ \A p \in Int : p # next => BinsIn(I, bin, steps, s, s + (k + 1), base + p)
                                    = BinsIn(I, bin, steps, s, s + k, base + p)
    /\ {x \in I : bin[x] = s + (k + 1)} \subseteq BinsIn(I, bin, steps, s, s + (k + 1), base + next)
    /\ BinsIn(I, bin, steps, s, s + (k + 1), base + next) \ {x \in I : bin[x] = s + (k + 1)}
          = BinsIn(I, bin, steps, s, s + k, base + next)
    /\ fresh => BinsIn(I, bin, steps, s, s + k, base + next) = {}

LEMMA MergeSets ==
    ASSUME NEW I, NEW bin \in [I -> Int], NEW s \in Int, NEW steps \in Nat, steps > 0, NEW k \in Nat
    PROVE  Joins(I, bin, s, steps, k, s \div steps, (k + 1 + (s % steps)) \div steps,
                 (k + 1 + (s % steps)) % steps = 0)
<1> DEFINE o == s % steps
           base == s \div steps
           q == (k + o) \div steps
           next == (k + 1 + o) \div steps
<1>1. o \in Nat /\ base \in Int
  BY DivMod, DivBounds
<1>2. (s + k) \div steps = base + q /\ q \in 0..k
  BY Groups
<1>3. (s + (k + 1)) \div steps = base + next /\ next \in 0..(k + 1)
  BY Groups
<1>4. next = IF (k + 1 + o) % steps = 0 THEN q + 1 ELSE q
  <2>1. k + o \in Nat /\ (k + o) + 1 = k + 1 + o
    BY <1>1
  <2> QED
    BY <2>1, NextGroup
<1> HIDE DEF o, base, q, next
<1>5. \A v \in Int : v <= s + k => v \div steps <= base + q /\ v \div steps \in Int
  BY <1>2, DivMonotone, DivBounds
<1>6. ASSUME NEW p \in Int, p # next
      PROVE  BinsIn(I, bin, steps, s, s + (k + 1), base + p)
               = BinsIn(I, bin, steps, s, s + k, base + p)
  <2>1. \A v \in Int : v <= s + (k + 1) /\ v \div steps = base + p => v <= s + k
    BY <1>1, <1>3, <1>6
  <2> QED
    BY <2>1 DEF BinsIn
<1>7. {x \in I : bin[x] = s + (k + 1)} \subseteq BinsIn(I, bin, steps, s, s + (k + 1), base + next)
  BY <1>3 DEF BinsIn
<1>8. BinsIn(I, bin, steps, s, s + (k + 1), base + next) \ {x \in I : bin[x] = s + (k + 1)}
        = BinsIn(I, bin, steps, s, s + k, base + next)
  <2>1. \A v \in Int : (v <= s + (k + 1) /\ v # s + (k + 1)) <=> v <= s + k
    OBVIOUS
  <2> QED
    BY <2>1 DEF BinsIn
<1>9. ASSUME (k + 1 + o) % steps = 0 PROVE BinsIn(I, bin, steps, s, s + k, base + next) = {}
  <2>1. next = q + 1
    BY <1>4, <1>9
  <2>2. \A v \in Int : v <= s + k => v \div steps # base + next
    BY <1>1, <1>2, <1>5, <2>1
  <2> QED
    BY <2>2 DEF BinsIn
<1>10. Joins(I, bin, s, steps, k, base, next, (k + 1 + o) % steps = 0)
  BY <1>6, <1>7, <1>8, <1>9 DEF Joins
<1> QED
  BY <1>10 DEF o, base, next

LEMMA MergeKeeps ==
    ASSUME NEW I, IsFiniteSet(I), NEW f \in [I -> Nat], NEW bin \in [I -> Int],
           NEW s \in Int, NEW c \in Seq(Nat), CountsOf(I, f, bin, s, c),
           NEW steps \in Nat, steps > 0, NEW k \in Nat, k + 2 <= Len(c),
           NEW h, MergedUpTo(I, f, bin, s, c, steps, k, h)
    PROVE  MergedUpTo(I, f, bin, s, c, steps, k + 1,
                      Merge([steps |-> steps, offset |-> s % steps], h, k + 1))
<1> DEFINE o == s % steps
           base == s \div steps
           q == (k + o) \div steps
           next == (k + 1 + o) \div steps
           fresh == (k + 1 + o) % steps = 0
           new == {x \in I : bin[x] = s + (k + 1)}
           In(high, p) == BinsIn(I, bin, steps, s, high, base + p)
           g == Merge([steps |-> steps, offset |-> s % steps], h, k + 1)
<1>1. o \in Nat /\ base \in Int
  BY DivMod, DivBounds
<1>2. q \in 0..k /\ next \in 0..(k + 1)
  <2>1. k + 1 \in Nat
    OBVIOUS
  <2>2. \A m \in Nat : (m + (s % steps)) \div steps \in 0..m
    BY Groups
  <2> QED
    BY <2>1, <2>2
<1>3. next = IF fresh THEN q + 1 ELSE q
  <2>1. k + o \in Nat /\ (k + o) + 1 = k + 1 + o
    BY <1>1
  <2> QED
    BY <2>1, NextGroup
<1>4. /\ \A p \in Int : p # next => In(s + (k + 1), p) = In(s + k, p)
      /\ new \subseteq In(s + (k + 1), next)
      /\ In(s + (k + 1), next) \ new = In(s + k, next)
      /\ fresh => In(s + k, next) = {}
  <2>1. Joins(I, bin, s, steps, k, base, next, fresh)
    BY MergeSets
  <2> QED
    BY ONLY <2>1 DEF Joins
<1>5. g = [h EXCEPT ![next + 1] = h[k + 2] + (IF fresh THEN 0 ELSE h[next + 1])]
  <2>1. k + 1 + o = (k + 1) + o /\ (k + 1) + 1 = k + 2
    OBVIOUS
  <2> QED
    BY <2>1 DEF Merge
<1>6. /\ h \in Seq(Nat) /\ Len(h) = Len(c) /\ Len(c) \in Nat
      /\ \A p \in (k + 2)..Len(c) : h[p] = c[p]
      /\ \A p \in 1..(q + 1) : h[p] = SumOf(f, BinsIn(I, bin, steps, s, s + k, base + p - 1))
  <2>1. MergedUpTo(I, f, bin, s, c, steps, k, h) /\ Len(c) \in Nat
    OBVIOUS
  <2> QED
    BY ONLY <2>1 DEF MergedUpTo
<1>7. h[k + 2] = SumOf(f, new)
  <2>1. k + 2 \in 1..Len(c) /\ k + 2 \in (k + 2)..Len(c) /\ s + (k + 2) - 1 = s + (k + 1)
    BY <1>6
  <2>2. c[k + 2] = SumOf(f, {x \in I : bin[x] = s + (k + 2) - 1})
    BY <2>1 DEF CountsOf
  <2> QED
    BY <1>6, <2>1, <2>2
<1>8. \A x \in I : f[x] \in Nat
  OBVIOUS
<1>9. \A p \in Int : IsFiniteSet(In(s + (k + 1), p)) /\ In(s + (k + 1), p) \subseteq I
  BY FS_Subset DEF BinsIn
<1> HIDE DEF o, base, q, next, fresh, new, In, g
<1>10. SumOf(f, In(s + (k + 1), next)) = SumOf(f, new) + SumOf(f, In(s + k, next))
  <2>1. /\ IsFiniteSet(In(s + (k + 1), next)) /\ new \in SUBSET In(s + (k + 1), next)
        /\ \A x \in In(s + (k + 1), next) : f[x] \in Nat
    BY <1>2, <1>4, <1>8, <1>9
  <2>2. PICK all : all = In(s + (k + 1), next)
    OBVIOUS
  <2>3. SumOf(f, all) = SumOf(f, new) + SumOf(f, all \ new)
    <3>1. IsFiniteSet(all) /\ new \in SUBSET all /\ \A x \in all : f[x] \in Nat
      BY <2>1, <2>2, Zenon
    <3> QED
      BY ONLY <3>1, SumSplit
  <2> QED
    BY <1>4, <2>2, <2>3
<1>11. \A p \in 0..q : h[p + 1] = SumOf(f, In(s + k, p))
  <2> SUFFICES ASSUME NEW p \in 0..q PROVE h[p + 1] = SumOf(f, In(s + k, p))
    OBVIOUS
  <2>1. p + 1 \in 1..(q + 1) /\ base + (p + 1) - 1 = base + p
    BY <1>1, <1>2
  <2> QED
    BY <1>6, <2>1 DEF In
<1>12. next + 1 \in 1..Len(h) /\ k + 2 \in 1..Len(h)
  BY <1>2, <1>6
<1>13. h[k + 2] \in Nat /\ h[next + 1] \in Nat
  BY <1>6, <1>12, ElementOfSeq
<1>14. g[next + 1] = SumOf(f, In(s + (k + 1), next)) /\ g[next + 1] \in Nat
  <2>1. g[next + 1] = h[k + 2] + (IF fresh THEN 0 ELSE h[next + 1])
    BY <1>5, <1>6, <1>12
  <2>2. CASE fresh
    <3>1. SumOf(f, In(s + k, next)) = 0
      BY <1>4, <2>2, SumStep, FS_EmptySet
    <3> QED
      BY <1>7, <1>10, <1>13, <2>1, <2>2, <3>1
  <2>3. CASE ~fresh
    <3>1. next = q /\ q \in 0..q
      BY <1>2, <1>3, <2>3
    <3>2. h[next + 1] = SumOf(f, In(s + k, next))
      BY <1>11, <3>1
    <3> QED
      BY <1>7, <1>10, <1>13, <2>1, <2>3, <3>2
  <2> QED
    BY <2>2, <2>3
<1>15. /\ g \in Seq(Nat) /\ Len(g) = Len(c)
       /\ \A p \in 1..Len(c) : p # next + 1 => g[p] = h[p]
  BY <1>5, <1>6, <1>12, <1>13
<1>16. \A p \in (k + 1 + 2)..Len(c) : g[p] = c[p]
  <2> SUFFICES ASSUME NEW p \in (k + 1 + 2)..Len(c) PROVE g[p] = c[p]
    OBVIOUS
  <2>1. p \in 1..Len(c) /\ p # next + 1 /\ p \in (k + 2)..Len(c)
    <3>1. k + 1 + 2 <= p /\ p <= Len(c) /\ p \in Int /\ next <= k + 1 /\ next \in Int
      BY <1>2, <1>6
    <3> QED
      BY <3>1
  <2> QED
    BY <1>6, <1>15, <2>1
<1>17. ASSUME NEW p \in 1..(next + 1) PROVE g[p] = SumOf(f, In(s + (k + 1), p - 1))
  <2>1. CASE p = next + 1
    <3>1. p - 1 = next
      BY <1>2, <2>1
    <3> QED
      BY <1>14, <2>1, <3>1
  <2>2. CASE p # next + 1
    <3>0. q \in Int /\ next \in Int /\ next <= k + 1 /\ Len(c) \in Int /\ k + 2 <= Len(c)
          /\ (next = q + 1 \/ next = q)
      BY <1>2, <1>3, <1>6
    <3>1. p - 1 \in 0..q /\ p - 1 # next /\ (p - 1) + 1 = p /\ p \in 1..Len(c)
      BY ONLY <2>2, <3>0, k \in Nat, p \in 1..(next + 1)
    <3> QED
      BY <1>4, <1>11, <1>15, <2>2, <3>1
  <2> QED
    BY <2>1, <2>2
<1>18. \A p \in 1..(next + 1) : g[p] = SumOf(f, BinsIn(I, bin, steps, s, s + (k + 1), base + p - 1))
  <2> SUFFICES ASSUME NEW p \in 1..(next + 1)
               PROVE  g[p] = SumOf(f, BinsIn(I, bin, steps, s, s + (k + 1), base + p - 1))
    OBVIOUS
  <2>1. base + (p - 1) = base + p - 1
    BY <1>1, <1>2
  <2>2. g[p] = SumOf(f, In(s + (k + 1), p - 1))
    BY <1>17
  <2> QED
    BY <2>1, <2>2 DEF In
<1> QED
  BY <1>15, <1>16, <1>18 DEF MergedUpTo, g, o, base, next

-----------------------------------------------------------------------------
(* The loop over a bucket's counts. *)
Merging == INSTANCE FoldLaws WITH Op <- Merge

LEMMA MergedIsFold ==
    ASSUME NEW c, NEW base, NEW s PROVE Merged(c, base, s) = Merging!Fold(c, base, s)
BY DEF FoldLeft, MapThenFoldSet, Merged, Max, Merging!FoldLeft, Merging!MapThenFoldSet, Merging!Max,
       Merging!Fold

(* The loop has a state before each step and after the last one.            *)
MergeStates(group, counts, places, h) ==
    /\ h[0] = counts
    /\ \A k \in Nat : k < Len(places) => h[k + 1] = Merge(group, h[k], places[k + 1])
    /\ h[Len(places)] = Merged(group, counts, places)

LEMMA MergeRuns ==
    ASSUME NEW group, NEW counts, NEW X, NEW places \in Seq(X)
    PROVE  \E h : MergeStates(group, counts, places, h)
<1>1. \E h : /\ h[0] = counts
             /\ \A k \in Nat : k < Len(places) => h[k + 1] = Merge(group, h[k], places[k + 1])
             /\ h[Len(places)] = Merging!Fold(group, counts, places)
  BY Merging!FoldRuns
<1>2. Merged(group, counts, places) = Merging!Fold(group, counts, places)
  BY MergedIsFold
<1> QED
  BY <1>1, <1>2 DEF MergeStates

LEMMA MergedRuns ==
    ASSUME NEW group, NEW counts, NEW last \in Nat
    PROVE  \E h : /\ h[0] = counts
                  /\ \A k \in Nat : k < last => h[k + 1] = Merge(group, h[k], k + 1)
                  /\ h[last] = Merged(group, counts, [i \in 1..last |-> i])
<1> DEFINE s == [i \in 1..last |-> i]
<1>1. s \in Seq(Nat) /\ Len(s) = last
  OBVIOUS
<1>2. \A k \in Nat : k < last => s[k + 1] = k + 1
  OBVIOUS
<1> HIDE DEF s
<1>3. PICK h : MergeStates(group, counts, s, h)
  BY <1>1, MergeRuns
<1>4. /\ h[0] = counts
      /\ \A k \in Nat : k < last => h[k + 1] = Merge(group, h[k], k + 1)
      /\ h[last] = Merged(group, counts, s)
  BY <1>1, <1>2, <1>3 DEF MergeStates
<1> QED
  BY <1>4 DEF s

LEMMA MergedAll ==
    ASSUME NEW I, IsFiniteSet(I), NEW f \in [I -> Nat], NEW bin \in [I -> Int],
           NEW s \in Int, NEW c \in Seq(Nat), CountsOf(I, f, bin, s, c), Len(c) > 0,
           NEW steps \in Nat, steps > 0
    PROVE  /\ MergedUpTo(I, f, bin, s, c, steps, 0, c)
           /\ MergedUpTo(I, f, bin, s, c, steps, Len(c) - 1,
                         Merged([steps |-> steps, offset |-> s % steps], c,
                                [i \in 1..(Len(c) - 1) |-> i]))
<1> DEFINE group == [steps |-> steps, offset |-> s % steps]
           last == Len(c) - 1
<1>1. last \in Nat /\ Len(c) \in Nat
  OBVIOUS
<1>2. MergedUpTo(I, f, bin, s, c, steps, 0, c)
  <2>1. (0 + (s % steps)) \div steps = 0
    <3>1. (0 + (s % steps)) \div steps \in 0..0
      BY Groups
    <3> QED
      BY <3>1
  <2>2. s \div steps \in Int
    BY DivBounds
  <2>3. BinsIn(I, bin, steps, s, s + 0, s \div steps + 1 - 1) = {x \in I : bin[x] = s + 1 - 1}
    BY <2>2 DEF BinsIn
  <2>4. c[1] = SumOf(f, {x \in I : bin[x] = s + 1 - 1})
    <3>1. 1 \in 1..Len(c)
      BY <1>1
    <3> QED
      BY <3>1 DEF CountsOf
  <2>5. \A p \in 1..(0 + 1) : p = 1
    OBVIOUS
  <2> QED
    BY <2>1, <2>3, <2>4, <2>5 DEF MergedUpTo
<1>3. PICK h : /\ h[0] = c
               /\ \A k \in Nat : k < last => h[k + 1] = Merge(group, h[k], k + 1)
               /\ h[last] = Merged(group, c, [i \in 1..last |-> i])
  BY <1>1, MergedRuns
<1> DEFINE M == {k \in Nat : k <= last => MergedUpTo(I, f, bin, s, c, steps, k, h[k])}
<1>4. 0 \in M
  BY <1>2, <1>3
<1>5. ASSUME NEW k \in Nat, k \in M PROVE k + 1 \in M
  <2> SUFFICES ASSUME k + 1 <= last PROVE MergedUpTo(I, f, bin, s, c, steps, k + 1, h[k + 1])
    OBVIOUS
  <2>1. k < last /\ k + 2 <= Len(c)
    BY <1>1
  <2>2. MergedUpTo(I, f, bin, s, c, steps, k, h[k])
    BY <1>5, <2>1
  <2>3. h[k + 1] = Merge(group, h[k], k + 1)
    BY <1>3, <2>1
  <2>4. MergedUpTo(I, f, bin, s, c, steps, k + 1, Merge(group, h[k], k + 1))
    BY <2>1, <2>2, MergeKeeps
  <2> QED
    BY <2>3, <2>4
<1>6. Nat \subseteq M
  <2> HIDE DEF M
  <2> QED
    BY <1>4, <1>5, SetInduction
<1>7. MergedUpTo(I, f, bin, s, c, steps, last, h[last])
  BY <1>1, <1>6
<1> QED
  BY <1>2, <1>3, <1>7

-----------------------------------------------------------------------------
BucketType == [start : Int, counts : Seq(Nat)]
(* The buckets b are what sorting the values that f counts into bins gives. *)
Sorted(I, f, bin, b) ==
    LET counted == {x \in I : f[x] > 0}
    IN IF counted = {} THEN b.counts = <<>>
       ELSE /\ \A x \in counted : b.start <= bin[x] /\ bin[x] <= EndBin(b)
            /\ \E x \in counted : bin[x] = b.start
            /\ \E x \in counted : bin[x] = EndBin(b)
            /\ CountsOf(I, f, bin, b.start, b.counts)

(* The bins that are 2^n times as wide.                                     *)
Wider(I, bin, n) == [x \in I |-> bin[x] \div PowerOf2[n]]

(* A downscale sorts into bins that are as many times as wide.              *)
LEMMA DownscaleSorts ==
    ASSUME NEW I, IsFiniteSet(I), NEW f \in [I -> Nat], NEW bin \in [I -> Int],
           NEW b \in BucketType, Sorted(I, f, bin, b), NEW n \in Nat
    PROVE  /\ Downscale(b, n) \in BucketType
           /\ Sorted(I, f, Wider(I, bin, n), Downscale(b, n))
<1> DEFINE steps == PowerOf2[n]
           s == b.start
           c == b.counts
           last == Len(c) - 1
           group == [steps |-> steps, offset |-> s % steps]
           m == Merged(group, c, [i \in 1..last |-> i])
           q == (last + (s % steps)) \div steps
           base == s \div steps
           r == IF last <= 0 THEN c ELSE SubSeq(m, 1, q + 1)
           wide == Wider(I, bin, n)
           counted == {x \in I : f[x] > 0}
<1>1. steps \in Nat /\ steps > 0
  BY PowerOf2Step
<1>2. s \in Int /\ c \in Seq(Nat) /\ Len(c) \in Nat
  BY DEF BucketType
<1>3. Downscale(b, n) = [start |-> base, counts |-> r]
  BY DEF Downscale, Grouping, GroupOffset, ShiftRight
<1>4. base \in Int
  BY <1>1, <1>2, DivBounds
<1>5. CASE counted = {}
  <2>1. c = <<>>
    BY <1>5 DEF Sorted
  <2>2. r = <<>>
    BY <2>1
  <2> HIDE DEF r, base, wide
  <2> QED
    BY <1>3, <1>4, <1>5, <2>2 DEF Sorted, BucketType
<1>6. CASE counted # {}
  <2>1. /\ \A x \in counted : s <= bin[x] /\ bin[x] <= s + last
        /\ \E x \in counted : bin[x] = s
        /\ \E x \in counted : bin[x] = s + last
        /\ CountsOf(I, f, bin, s, c)
    <3>1. EndBin(b) = s + last
      BY <1>2 DEF EndBin
    <3> QED
      BY <1>6, <3>1 DEF Sorted
  <2>2. last \in Nat /\ Len(c) > 0
    BY <1>2, <1>6, <2>1
  <2>3. q \in 0..last /\ (s + last) \div steps = base + q
    BY <1>1, <1>2, <2>2, Groups
  <2>4. MergedUpTo(I, f, bin, s, c, steps, 0, c) /\ MergedUpTo(I, f, bin, s, c, steps, last, m)
    BY <1>1, <1>2, <2>1, <2>2, MergedAll
  <2> HIDE DEF m
  <2>5. /\ r \in Seq(Nat) /\ Len(r) = q + 1
        /\ \A p \in 1..(q + 1) : r[p] = SumOf(f, BinsIn(I, bin, steps, s, s + last, base + p - 1))
    <3>1. CASE last = 0
      <4>1. q = 0 /\ Len(c) = 1
        <5>1. last \in Int /\ Len(c) = last + 1
          BY <1>2
        <5> HIDE DEF q, last
        <5> QED
          BY <2>3, <3>1, <5>1
      <4>3. r = c
        <5> HIDE DEF last, c, m, q
        <5> QED
          BY <3>1 DEF r
      <4>2. \A p \in 1..((0 + (s % steps)) \div steps + 1) :
               c[p] = SumOf(f, BinsIn(I, bin, steps, s, s + 0, base + p - 1))
        BY <2>4 DEF MergedUpTo
      <4>4. (0 + (s % steps)) \div steps = q
        BY <3>1
      <4> HIDE DEF q, r, last
      <4> QED
        BY <1>2, <3>1, <4>1, <4>2, <4>3, <4>4
    <3>2. CASE last # 0
      <4>1. m \in Seq(Nat) /\ Len(m) = last + 1
        BY <1>2, <2>4 DEF MergedUpTo
      <4>2. \A p \in 1..(q + 1) :
               m[p] = SumOf(f, BinsIn(I, bin, steps, s, s + last, base + p - 1))
        BY <2>4 DEF MergedUpTo
      <4>3. r = SubSeq(m, 1, q + 1)
        <5>1. ~(last <= 0)
          <6> HIDE DEF last
          <6> QED
            BY <2>2, <3>2
        <5> HIDE DEF last, c, q
        <5> QED
          BY <5>1 DEF r
      <4>4. r \in Seq(Nat) /\ Len(r) = q + 1 /\ \A p \in 1..(q + 1) : r[p] = m[p]
        <5> HIDE DEF q, r
        <5> QED
          BY <2>2, <2>3, <4>1, <4>3
      <4> QED
        BY <4>2, <4>4
    <3> QED
      BY <3>1, <3>2
  <2>6. \A x \in I : wide[x] = bin[x] \div steps /\ bin[x] \in Int /\ f[x] \in Nat
    BY DEF Wider
  <2>7. \A x \in counted : base <= wide[x] /\ wide[x] <= base + q
    <3> SUFFICES ASSUME NEW x \in counted PROVE base <= wide[x] /\ wide[x] <= base + q
      OBVIOUS
    <3>1. x \in I /\ s <= bin[x] /\ bin[x] <= s + last /\ bin[x] \in Int /\ s + last \in Int
      BY <1>2, <2>1, <2>2
    <3>2. s \div steps <= bin[x] \div steps /\ bin[x] \div steps <= (s + last) \div steps
      BY <1>1, <1>2, <3>1, DivMonotone
    <3> QED
      BY <2>3, <2>6, <3>1, <3>2
  <2>8. \E x \in counted : wide[x] = base
    BY <2>1, <2>6
  <2>9. \E x \in counted : wide[x] = base + q
    BY <2>1, <2>3, <2>6
  <2>10. ASSUME NEW p \in 1..(q + 1)
         PROVE  r[p] = SumOf(f, {x \in I : wide[x] = base + p - 1})
    <3> DEFINE all == {x \in I : wide[x] = base + p - 1}
               some == BinsIn(I, bin, steps, s, s + last, base + p - 1)
    <3>1. some \in SUBSET all
      BY <2>6 DEF BinsIn
    <3>2. \A x \in all \ some : f[x] = 0
      <4> SUFFICES ASSUME NEW x \in all, f[x] # 0 PROVE x \in some
        OBVIOUS
      <4>1. x \in counted /\ x \in I
        BY <2>6
      <4> QED
        BY <2>1, <2>6, <4>1 DEF BinsIn
    <3>3. IsFiniteSet(all) /\ \A x \in all : f[x] \in Nat
      BY FS_Subset
    <3> HIDE DEF all, some
    <3>4. SumOf(f, all) = SumOf(f, some)
      BY <3>1, <3>2, <3>3, SumWithin
    <3>5. r[p] = SumOf(f, some)
      BY <2>5 DEF some
    <3> QED
      BY <3>4, <3>5 DEF all
  <2> HIDE DEF r, q, base, wide
  <2>11. CountsOf(I, f, wide, base, r)
    BY <2>5, <2>10 DEF CountsOf
  <2>12. EndBin([start |-> base, counts |-> r]) = base + q
    <3> DEFINE wider == [start |-> base, counts |-> r]
    <3>1. wider.start = base /\ wider.counts = r
      OBVIOUS
    <3> HIDE DEF wider
    <3>2. EndBin(wider) = base + Len(r) - 1
      BY <3>1 DEF EndBin
    <3>3. q \in Int /\ Len(r) = q + 1
      BY <2>3, <2>5
    <3>4. EndBin(wider) = base + q
      BY ONLY <1>4, <3>2, <3>3
    <3> QED
      BY <3>4 DEF wider
  <2>13. Sorted(I, f, wide, [start |-> base, counts |-> r])
    BY <1>6, <2>7, <2>8, <2>9, <2>11, <2>12 DEF Sorted
  <2>14. [start |-> base, counts |-> r] \in BucketType
    BY <1>4, <2>5 DEF BucketType
  <2> QED
    BY <1>3, <2>13, <2>14 DEF wide
<1> QED
  BY <1>5, <1>6

-----------------------------------------------------------------------------
(* ExpoBuckets::record. *)
LEMMA TwoBounds ==
    ASSUME NEW a \in Int, NEW z \in Int
    PROVE  /\ Min({a, z}) = IF a <= z THEN a ELSE z
           /\ Max({a, z}) = IF a >= z THEN a ELSE z
<1>1. Min({a, z}) \in {a, z} /\ \A y \in {a, z} : Min({a, z}) <= y
  <2>1. \E m \in {a, z} : \A y \in {a, z} : m <= y
    OBVIOUS
  <2> QED
    BY <2>1 DEF Min
<1>2. Max({a, z}) \in {a, z} /\ \A y \in {a, z} : Max({a, z}) >= y
  <2>1. \E m \in {a, z} : \A y \in {a, z} : m >= y
    OBVIOUS
  <2> QED
    BY <2>1 DEF Max
<1> QED
  BY <1>1, <1>2

(* A bin counts what sorting puts there, and none where there is no bin.    *)
CountAt(b, at) == IF at \in b.start..EndBin(b) THEN b.counts[at - b.start + 1] ELSE 0

LEMMA CountAtIs ==
    ASSUME NEW I, IsFiniteSet(I), NEW f \in [I -> Nat], NEW bin \in [I -> Int],
           NEW b \in BucketType, Sorted(I, f, bin, b), NEW at \in Int
    PROVE  /\ CountAt(b, at) = SumOf(f, {y \in I : bin[y] = at})
           /\ CountAt(b, at) \in Nat
<1> DEFINE there == {y \in I : bin[y] = at}
           counted == {y \in I : f[y] > 0}
<1>1. IsFiniteSet(there) /\ \A y \in there : y \in I /\ f[y] \in Nat /\ bin[y] = at
  BY FS_Subset
<1>2. SumOf(f, there) \in Nat
  BY <1>1, SumType
<1>3. b.start \in Int /\ b.counts \in Seq(Nat) /\ EndBin(b) = b.start + Len(b.counts) - 1
  BY DEF BucketType, EndBin
<1>4. CASE at \in b.start..EndBin(b)
  <2>1. b.counts # <<>>
    BY <1>3, <1>4
  <2>2. CountsOf(I, f, bin, b.start, b.counts)
    BY <2>1 DEF Sorted
  <2>3. at - b.start + 1 \in 1..Len(b.counts) /\ b.start + (at - b.start + 1) - 1 = at
    <3>1. b.start \in Int /\ Len(b.counts) \in Nat /\ EndBin(b) = b.start + Len(b.counts) - 1
      BY <1>3
    <3>2. b.start <= at /\ at <= EndBin(b)
      BY <1>4, <3>1
    <3> QED
      BY ONLY <3>1, <3>2, at \in Int
  <2>4. b.counts[at - b.start + 1] = SumOf(f, {y \in I : bin[y] = b.start + (at - b.start + 1) - 1})
    BY <2>2, <2>3 DEF CountsOf
  <2> QED
    BY <1>2, <1>4, <2>3, <2>4 DEF CountAt
<1>5. CASE at \notin b.start..EndBin(b)
  <2>1. \A y \in there : f[y] = 0
    <3> SUFFICES ASSUME NEW y \in there, f[y] # 0 PROVE FALSE
      OBVIOUS
    <3>1. y \in counted
      BY <1>1
    <3>2. b.start <= bin[y] /\ bin[y] <= EndBin(b)
      BY <3>1 DEF Sorted
    <3>3. bin[y] = at /\ EndBin(b) \in Int
      BY <1>1, <1>3
    <3> QED
      BY <1>3, <1>5, <3>2, <3>3
  <2>2. SumOf(f, there) = 0
    BY <1>1, <2>1, SumNone
  <2> QED
    BY <1>5, <2>2 DEF CountAt
<1> QED
  BY <1>4, <1>5

(* The bins after a value is counted, by what they hold.                    *)
LEMMA CountInIs ==
    ASSUME NEW b \in BucketType, b.counts # <<>>, NEW bin \in Int
    PROVE  LET low == IF b.start <= bin THEN b.start ELSE bin
               high == IF EndBin(b) >= bin THEN EndBin(b) ELSE bin
           IN  CountIn(b, bin) =
                   [start |-> low,
                    counts |-> [i \in 1..(high - low + 1) |->
                       CountAt(b, low + i - 1) + (IF low + i - 1 = bin THEN 1 ELSE 0)]]
<1>1. b.start \in Int /\ EndBin(b) \in Int
  BY DEF BucketType, EndBin
<1>2. /\ Min({b.start, bin}) = IF b.start <= bin THEN b.start ELSE bin
      /\ Max({EndBin(b), bin}) = IF EndBin(b) >= bin THEN EndBin(b) ELSE bin
  BY <1>1, TwoBounds
<1> QED
  BY <1>2, Zenon DEF CountIn, CountAt

LEMMA CountInSorts ==
    ASSUME NEW I, IsFiniteSet(I), NEW f \in [I -> Nat], NEW bin \in [I -> Int],
           NEW b \in BucketType, Sorted(I, f, bin, b), NEW x \in I
    PROVE  /\ CountIn(b, bin[x]) \in BucketType
           /\ Sorted(I, [f EXCEPT ![x] = @ + 1], bin, CountIn(b, bin[x]))
<1> DEFINE g == [f EXCEPT ![x] = @ + 1]
           counted == {y \in I : f[y] > 0}
           At(at) == {y \in I : bin[y] = at}
<1>1. /\ g \in [I -> Nat] /\ g[x] = f[x] + 1 /\ \A y \in I \ {x} : g[y] = f[y]
      /\ {y \in I : g[y] > 0} = counted \cup {x}
      /\ bin[x] \in Int /\ \A y \in I : f[y] \in Nat
  OBVIOUS
<1>2. \A at \in Int : SumOf(g, At(at)) = SumOf(f, At(at)) + (IF at = bin[x] THEN 1 ELSE 0)
  <2> SUFFICES ASSUME NEW at \in Int
               PROVE  SumOf(g, At(at)) = SumOf(f, At(at)) + (IF at = bin[x] THEN 1 ELSE 0)
    OBVIOUS
  <2>1. IsFiniteSet(At(at)) /\ At(at) \subseteq I /\ (x \in At(at) <=> at = bin[x])
    BY FS_Subset
  <2> HIDE DEF At, g
  <2>2. CASE at = bin[x]
    <3>1. x \in At(at) /\ \A y \in At(at) : f[y] \in Nat
      BY <1>1, <2>1, <2>2
    <3>2. \A y \in At(at) \ {x} : g[y] = f[y]
      BY <1>1, <2>1
    <3>3. SumOf(g, At(at)) = SumOf(f, At(at)) + 1
      BY <1>1, <2>1, <3>1, <3>2, SumBump
    <3> QED
      BY <2>2, <3>3
  <2>3. CASE at # bin[x]
    <3>1. \A y \in At(at) : g[y] = f[y]
      BY <1>1, <2>1, <2>3
    <3>2. SumOf(g, At(at)) = SumOf(f, At(at))
      BY <2>1, <3>1, SumSame
    <3>3. SumOf(f, At(at)) \in Nat
      BY <1>1, <2>1, SumType
    <3> QED
      BY <2>3, <3>2, <3>3
  <2> QED
    BY <2>2, <2>3
<1>3. CASE b.counts = <<>>
  <2>1. counted = {}
    <3> SUFFICES ASSUME NEW y \in counted PROVE FALSE
      OBVIOUS
    <3>1. b.start <= bin[y] /\ bin[y] <= EndBin(b)
      BY DEF Sorted
    <3>2. EndBin(b) = b.start - 1 /\ b.start \in Int /\ bin[y] \in Int
      BY <1>3 DEF EndBin, BucketType
    <3> QED
      BY <3>1, <3>2
  <2>2. SumOf(f, At(bin[x])) = 0
    <3>1. IsFiniteSet(At(bin[x])) /\ \A y \in At(bin[x]) : f[y] = 0
      BY <1>1, <2>1, FS_Subset
    <3> HIDE DEF At
    <3> QED
      BY <3>1, SumNone
  <2>3. SumOf(g, At(bin[x])) = 1
    <3> HIDE DEF At, g
    <3>1. SumOf(g, At(bin[x])) = SumOf(f, At(bin[x])) + 1
      BY <1>1, <1>2
    <3> QED
      BY <2>2, <3>1
  <2> DEFINE r == [start |-> bin[x], counts |-> <<1>>]
  <2>4. CountIn(b, bin[x]) = r
    BY <1>3 DEF CountIn
  <2>5. r.start = bin[x] /\ r.counts = <<1>> /\ r \in BucketType
    BY <1>1 DEF BucketType
  <2> HIDE DEF r
  <2>6. EndBin(r) = bin[x]
    BY <1>1, <2>5 DEF EndBin
  <2>7. CountsOf(I, g, bin, r.start, r.counts)
    <3> SUFFICES ASSUME NEW i \in 1..Len(r.counts)
                 PROVE  r.counts[i] = SumOf(g, {y \in I : bin[y] = r.start + i - 1})
      BY DEF CountsOf
    <3>1. i = 1 /\ r.counts[i] = 1 /\ r.start + i - 1 = bin[x]
      BY <1>1, <2>5
    <3> QED
      BY <2>3, <3>1
  <2>8. Sorted(I, g, bin, r)
    <3>1. {y \in I : g[y] > 0} = {x}
      BY <1>1, <2>1
    <3> HIDE DEF g
    <3> QED
      BY <1>1, <2>5, <2>6, <2>7, <3>1 DEF Sorted
  <2> QED
    BY <2>4, <2>5, <2>8
<1>4. CASE b.counts # <<>>
  <2> DEFINE low == IF b.start <= bin[x] THEN b.start ELSE bin[x]
             high == IF EndBin(b) >= bin[x] THEN EndBin(b) ELSE bin[x]
             c == [i \in 1..(high - low + 1) |->
                      CountAt(b, low + i - 1) + (IF low + i - 1 = bin[x] THEN 1 ELSE 0)]
             r == [start |-> low, counts |-> c]
  <2>1. CountIn(b, bin[x]) = r
    BY <1>1, <1>4, CountInIs
  <2>2. b.start \in Int /\ EndBin(b) \in Int /\ b.start <= EndBin(b)
    <3>1. b.start \in Int /\ b.counts \in Seq(Nat) /\ EndBin(b) = b.start + Len(b.counts) - 1
      BY DEF EndBin, BucketType
    <3> QED
      BY <1>4, <3>1
  <2>3. /\ low \in Int /\ high \in Int /\ low <= high
        /\ low <= b.start /\ EndBin(b) <= high /\ low <= bin[x] /\ bin[x] <= high
        /\ low = b.start \/ low = bin[x]
        /\ high = EndBin(b) \/ high = bin[x]
    BY <1>1, <2>2
  <2>4. high - low + 1 \in Nat
    BY <2>3
  <2>5. \A i \in 1..(high - low + 1) : c[i] \in Nat /\ c[i] = SumOf(g, At(low + i - 1))
    <3> SUFFICES ASSUME NEW i \in 1..(high - low + 1)
                 PROVE  c[i] \in Nat /\ c[i] = SumOf(g, At(low + i - 1))
      OBVIOUS
    <3>1. c[i] = CountAt(b, low + i - 1) + (IF low + i - 1 = bin[x] THEN 1 ELSE 0)
      OBVIOUS
    <3>2. low + i - 1 \in Int
      BY <2>3
    <3> HIDE DEF c, low, high
    <3>3. CountAt(b, low + i - 1) \in Nat /\ CountAt(b, low + i - 1) = SumOf(f, At(low + i - 1))
      BY <3>2, CountAtIs
    <3>4. SumOf(g, At(low + i - 1))
            = SumOf(f, At(low + i - 1)) + (IF low + i - 1 = bin[x] THEN 1 ELSE 0)
      BY <1>2, <3>2
    <3> QED
      BY <3>1, <3>3, <3>4
  <2>6. c \in Seq(Nat) /\ Len(c) = high - low + 1
    <3>1. DOMAIN c = 1..(high - low + 1) /\ c = [i \in 1..(high - low + 1) |-> c[i]]
      OBVIOUS
    <3>2. PICK n \in Nat : n = high - low + 1
      BY <2>4
    <3> HIDE DEF c, low, high, g
    <3>3. c \in [1..n -> Nat]
      BY <2>5, <3>1, <3>2
    <3>4. c \in Seq(Nat) /\ Len(c) = n
      BY ONLY <3>3, n \in Nat
    <3> QED
      BY <3>2, <3>4
  <2>7. r.start = low /\ r.counts = c
    OBVIOUS
  <2> HIDE DEF r, c, low, high
  <2>8. r \in BucketType
    BY <2>3, <2>6 DEF r, BucketType
  <2>9. EndBin(r) = high
    BY <2>3, <2>6, <2>7 DEF EndBin
  <2>10. CountsOf(I, g, bin, r.start, r.counts)
    BY <2>5, <2>6, <2>7 DEF CountsOf
  <2>11. counted # {}
    BY <1>4 DEF Sorted
  <2>12. /\ \A y \in counted : b.start <= bin[y] /\ bin[y] <= EndBin(b)
         /\ \E y \in counted : bin[y] = b.start
         /\ \E y \in counted : bin[y] = EndBin(b)
    BY <2>11 DEF Sorted
  <2>13. \A y \in counted \cup {x} : low <= bin[y] /\ bin[y] <= high
    BY <1>1, <2>2, <2>3, <2>12
  <2>14. \E y \in counted \cup {x} : bin[y] = low
    BY <2>3, <2>12
  <2>15. \E y \in counted \cup {x} : bin[y] = high
    BY <2>3, <2>12
  <2>16. Sorted(I, g, bin, r)
    <3> DEFINE all == {y \in I : g[y] > 0}
    <3>1. all = counted \cup {x}
      BY <1>1
    <3> HIDE DEF g, counted
    <3> QED
      BY <2>7, <2>9, <2>10, <2>13, <2>14, <2>15, <3>1 DEF Sorted
  <2> QED
    BY <2>1, <2>8, <2>16
<1> QED
  BY <1>3, <1>4

-----------------------------------------------------------------------------
(* A bounded set of integers has a least and a greatest member. *)
LEMMA LeastOfNat ==
    ASSUME NEW S \in SUBSET Nat, S # {} PROVE \E m \in S : \A y \in S : m <= y
<1> DEFINE N == {n \in Nat : (\E k \in S : k <= n) => \E m \in S : \A y \in S : m <= y}
<1>1. 0 \in N
  <2>1. \A k \in S : k <= 0 => \A y \in S : k <= y
    OBVIOUS
  <2> QED
    BY <2>1
<1>2. ASSUME NEW n \in Nat, n \in N PROVE n + 1 \in N
  <2> SUFFICES ASSUME NEW k \in S, k <= n + 1 PROVE \E m \in S : \A y \in S : m <= y
    OBVIOUS
  <2>1. CASE \E j \in S : j <= n
    BY <1>2, <2>1
  <2>2. CASE ~ \E j \in S : j <= n
    <3>1. \A y \in S : k <= y
      BY <2>2
    <3> QED
      BY <3>1
  <2> QED
    BY <2>1, <2>2
<1>3. Nat \subseteq N
  <2> HIDE DEF N
  <2> QED
    BY <1>1, <1>2, SetInduction
<1>4. PICK k \in S : k \in Nat
  OBVIOUS
<1>5. k \in N /\ k <= k
  BY <1>3, <1>4
<1> QED
  BY <1>5

LEMMA MinIn ==
    ASSUME NEW S \in SUBSET Int, S # {}, NEW low \in Int, \A y \in S : low <= y
    PROVE  Min(S) \in S /\ \A y \in S : Min(S) <= y
<1> DEFINE T == {y - low : y \in S}
<1>0. \A y \in S : y \in Int /\ y - low \in Nat /\ y - low \in T
  OBVIOUS
<1>1. T \in SUBSET Nat /\ T # {}
  BY <1>0
<1>2. PICK m \in T : \A z \in T : m <= z
  <2> HIDE DEF T
  <2> QED
    BY <1>1, LeastOfNat
<1>3. PICK a \in S : m = a - low
  OBVIOUS
<1>4. \A y \in S : a <= y
  <2> SUFFICES ASSUME NEW y \in S PROVE a <= y
    OBVIOUS
  <2>1. a - low <= y - low /\ a \in Int /\ y \in Int
    BY <1>0, <1>2, <1>3
  <2> QED
    BY <2>1
<1>5. \E c \in S : \A y \in S : c <= y
  BY <1>4
<1> QED
  BY <1>5 DEF Min

LEMMA MaxIn ==
    ASSUME NEW S \in SUBSET Int, S # {}, NEW high \in Int, \A y \in S : y <= high
    PROVE  Max(S) \in S /\ \A y \in S : y <= Max(S)
<1> DEFINE T == {high - y : y \in S}
<1>0. \A y \in S : y \in Int /\ high - y \in Nat /\ high - y \in T
  OBVIOUS
<1>1. T \in SUBSET Nat /\ T # {}
  BY <1>0
<1>2. PICK m \in T : \A z \in T : m <= z
  <2> HIDE DEF T
  <2> QED
    BY <1>1, LeastOfNat
<1>3. PICK a \in S : m = high - a
  OBVIOUS
<1>4. \A y \in S : a >= y
  <2> SUFFICES ASSUME NEW y \in S PROVE a >= y
    OBVIOUS
  <2>1. high - a <= high - y /\ a \in Int /\ y \in Int
    BY <1>0, <1>2, <1>3
  <2> QED
    BY <2>1
<1>5. \E c \in S : \A y \in S : c >= y
  BY <1>4
<1>6. Max(S) \in S /\ \A y \in S : Max(S) >= y
  BY <1>5 DEF Max
<1> QED
  BY <1>6

-----------------------------------------------------------------------------
(* The values that f counts are in at most size bins. *)
FitIn(I, f, bin, size) ==
    \A x, y \in I : f[x] > 0 /\ f[y] > 0 => bin[x] - bin[y] < size
LEMMA WiderType ==
    ASSUME NEW I, NEW bin \in [I -> Int], NEW n \in Nat
    PROVE  /\ Wider(I, bin, n) \in [I -> Int]
           /\ \A x \in I : Wider(I, bin, n)[x] = bin[x] \div PowerOf2[n]
           /\ Wider(I, bin, 0) = bin
<1>1. \A y \in Int : y \div PowerOf2[n] \in Int
  BY PowerOf2Step, DivBounds
<1>2. \A y \in Int : y \div PowerOf2[0] = y
  <2>1. PowerOf2[0] = 1
    BY PowerOf2Step
  <2> QED
    BY <2>1
<1> QED
  BY <1>1, <1>2 DEF Wider

LEMMA WiderFits ==
    ASSUME NEW I, NEW f, NEW bin \in [I -> Int], NEW size \in Nat, size > 0, NEW n \in Nat,
           FitIn(I, f, bin, size)
    PROVE  FitIn(I, f, Wider(I, bin, n), size)
<1> SUFFICES ASSUME NEW x \in I, NEW y \in I, f[x] > 0, f[y] > 0
             PROVE  Wider(I, bin, n)[x] - Wider(I, bin, n)[y] < size
  BY DEF FitIn
<1>1. bin[x] - bin[y] < size /\ bin[x] \in Int /\ bin[y] \in Int
  BY DEF FitIn
<1>2. PowerOf2[n] \in Nat /\ PowerOf2[n] > 0
  BY PowerOf2Step
<1>3. bin[x] \div PowerOf2[n] - bin[y] \div PowerOf2[n] < size
  BY <1>1, <1>2, DivCloser
<1> QED
  BY <1>3, WiderType

(* What the ends tell of all. *)
LEMMA EndsFit ==
    ASSUME NEW I, NEW f, NEW bin \in [I -> Int], NEW size \in Nat, NEW n \in Nat,
           NEW low \in I, NEW high \in I, f[low] > 0, f[high] > 0,
           \A x \in I : f[x] > 0 => bin[low] <= bin[x] /\ bin[x] <= bin[high]
    PROVE  FitIn(I, f, Wider(I, bin, n), size) <=>
               bin[high] \div PowerOf2[n] - bin[low] \div PowerOf2[n] < size
<1> DEFINE d == PowerOf2[n]
           wide == Wider(I, bin, n)
<1>1. d \in Nat /\ d > 0
  BY PowerOf2Step
<1>2. \A x \in I : wide[x] = bin[x] \div d /\ wide[x] \in Int /\ bin[x] \in Int
  BY WiderType
<1>3. \A x \in I : f[x] > 0 => wide[low] <= wide[x] /\ wide[x] <= wide[high]
  BY <1>1, <1>2, DivMonotone
<1> HIDE DEF wide, d
<1>4. FitIn(I, f, wide, size) <=> wide[high] - wide[low] < size
  BY <1>2, <1>3 DEF FitIn
<1> QED
  BY <1>2, <1>4 DEF wide, d

LEMMA MoreFit ==
    ASSUME NEW I, NEW f \in [I -> Nat], NEW g \in [I -> Nat], \A y \in I : f[y] > 0 => g[y] > 0,
           NEW bin, NEW size, FitIn(I, g, bin, size)
    PROVE  FitIn(I, f, bin, size)
BY DEF FitIn

(* The values that g counts fit after a shift of n, and of no less.         *)
LeastShift(I, g, bin, n, size) ==
    /\ n \in 0..(ExpoMaxScale + 1)
    /\ n <= ExpoMaxScale => FitIn(I, g, Wider(I, bin, n), size)
    /\ n > 0 => ~FitIn(I, g, Wider(I, bin, n - 1), size)

(* scale_change shifts as far as it must, and no further. *)
LEMMA ScaleChangeIs ==
    ASSUME NEW I, NEW f \in [I -> Nat], NEW bin \in [I -> Int], maxSize \in Nat \ {0},
           NEW b \in BucketType, Sorted(I, f, bin, b), FitIn(I, f, bin, maxSize), NEW x \in I,
           NEW g, g = [f EXCEPT ![x] = @ + 1]
    PROVE  LeastShift(I, g, bin, ScaleChange(b, bin[x]), maxSize)
<1> DEFINE change == ScaleChange(b, bin[x])
           counted == {y \in I : f[y] > 0}
           e == EndBin(b)
           s == b.start
           low == IF s >= bin[x] THEN bin[x] ELSE s
           high == IF s >= bin[x] THEN e ELSE bin[x]
           fits == {n \in 0..ExpoMaxScale :
                       high \div PowerOf2[n] - low \div PowerOf2[n] < maxSize}
<1>0. ExpoMaxScale \in Nat
  BY ExpoAssumption
<1>1. /\ g \in [I -> Nat] /\ g[x] > 0 /\ \A y \in I \ {x} : g[y] = f[y]
      /\ bin[x] \in Int /\ \A y \in I : f[y] \in Nat /\ bin[y] \in Int
      /\ \A y \in I : g[y] > 0 <=> y = x \/ y \in counted
  OBVIOUS
<1>2. s \in Int /\ b.counts \in Seq(Nat) /\ e = s + Len(b.counts) - 1 /\ e \in Int
  BY DEF BucketType, EndBin
<1>3. CASE b.counts = <<>>
  <2>1. change = 0
    BY <1>3 DEF ScaleChange
  <2> HIDE DEF change
  <2>2. counted = {}
    <3> SUFFICES ASSUME NEW y \in counted PROVE FALSE
      OBVIOUS
    <3>1. s <= bin[y] /\ bin[y] <= e
      BY DEF Sorted
    <3>2. e = s - 1 /\ bin[y] \in Int
      BY <1>2, <1>3
    <3> QED
      BY <1>2, <3>1, <3>2
  <2>3. FitIn(I, g, bin, maxSize)
    BY <1>1, <2>2 DEF FitIn
  <2>4. LeastShift(I, g, bin, change, maxSize)
    BY <1>0, <2>1, <2>3, WiderType DEF LeastShift
  <2> QED
    BY <2>4 DEF change
<1>4. CASE b.counts # <<>>
  <2>0. RangeWith(b, bin[x]) = <<low, high>>
    BY DEF RangeWith
  <2>1. change = Min(fits \cup {ExpoMaxScale + 1})
    <3>1. RangeWith(b, bin[x])[1] = low /\ RangeWith(b, bin[x])[2] = high
      BY <2>0
    <3> HIDE DEF low, high
    <3> QED
      BY <1>4, <3>1 DEF ScaleChange, ShiftRight
  <2> HIDE DEF change
  <2>2. change \in fits \cup {ExpoMaxScale + 1} /\ \A n \in fits : change <= n
    <3>1. /\ fits \cup {ExpoMaxScale + 1} \in SUBSET Int /\ fits \cup {ExpoMaxScale + 1} # {}
          /\ \A y \in fits \cup {ExpoMaxScale + 1} : 0 <= y
      BY <1>0
    <3> HIDE DEF fits
    <3>2. PICK all : all = fits \cup {ExpoMaxScale + 1}
      OBVIOUS
    <3>3. Min(all) \in all /\ \A y \in all : Min(all) <= y
      <4>1. all \in SUBSET Int /\ all # {} /\ 0 \in Int /\ \A y \in all : 0 <= y
        BY ONLY <3>1, <3>2
      <4> QED
        BY ONLY <4>1, MinIn
    <3> QED
      BY <2>1, <3>2, <3>3
  <2>3. /\ counted # {}
        /\ \A y \in counted : s <= bin[y] /\ bin[y] <= e
        /\ \E y \in counted : bin[y] = s
        /\ \E y \in counted : bin[y] = e
    <3>1. counted # {}
      BY <1>4 DEF Sorted
    <3> QED
      BY <3>1 DEF Sorted
  <2>4. PICK first \in counted : bin[first] = s
    BY <2>3
  <2>5. PICK final \in counted : bin[final] = e
    BY <2>3
  <2>6. change \in 0..(ExpoMaxScale + 1) /\ (change <= ExpoMaxScale => change \in fits)
        /\ (change > 0 => /\ change - 1 \in Nat /\ change - 1 \in 0..ExpoMaxScale
                          /\ change - 1 \notin fits)
    <3>1. \A n \in fits : n \in 0..ExpoMaxScale
      OBVIOUS
    <3> HIDE DEF fits
    <3> QED
      BY <1>0, <2>2, <3>1
  <2>7. ASSUME ~(s < bin[x] /\ bin[x] < e) PROVE LeastShift(I, g, bin, change, maxSize)
    <3>1. PICK i, j \in I : /\ g[i] > 0 /\ g[j] > 0 /\ bin[i] = low /\ bin[j] = high
                            /\ \A y \in I : g[y] > 0 => bin[i] <= bin[y] /\ bin[y] <= bin[j]
      <4>1. CASE s >= bin[x]
        <5>1. low = bin[x] /\ high = e
          BY <4>1
        <5>2. \A y \in I : g[y] > 0 => bin[x] <= bin[y] /\ bin[y] <= e
          BY <1>1, <1>2, <2>3, <2>5, <4>1
        <5>3. g[final] > 0 /\ final \in I
          BY <1>1
        <5> HIDE DEF low, high, s, e
        <5> QED
          BY <1>1, <2>5, <5>1, <5>2, <5>3
      <4>2. CASE ~(s >= bin[x])
        <5>1. low = s /\ high = bin[x]
          BY <4>2
        <5>2. \A y \in I : g[y] > 0 => s <= bin[y] /\ bin[y] <= bin[x]
          <6> HIDE DEF s, e, counted
          <6>1. s <= bin[x] /\ e <= bin[x]
            BY <1>1, <1>2, <2>7, <4>2
          <6> SUFFICES ASSUME NEW y \in I, g[y] > 0 PROVE s <= bin[y] /\ bin[y] <= bin[x]
            OBVIOUS
          <6>2. CASE y = x
            BY <1>1, <6>1, <6>2
          <6>3. CASE y \in counted
            BY <1>1, <1>2, <2>3, <6>1, <6>3
          <6> QED
            BY <1>1, <6>2, <6>3
        <5>3. g[first] > 0 /\ first \in I
          BY <1>1
        <5> HIDE DEF low, high, s, e
        <5> QED
          BY <1>1, <2>4, <5>1, <5>2, <5>3
      <4> QED
        BY <4>1, <4>2
    <3>2. maxSize \in Nat
      OBVIOUS
    <3>3. \A n \in Nat : FitIn(I, g, Wider(I, bin, n), maxSize)
                            <=> high \div PowerOf2[n] - low \div PowerOf2[n] < maxSize
      <4> HIDE DEF low, high
      <4> SUFFICES ASSUME NEW n \in Nat
                   PROVE  FitIn(I, g, Wider(I, bin, n), maxSize)
                            <=> high \div PowerOf2[n] - low \div PowerOf2[n] < maxSize
        OBVIOUS
      <4>1. PICK size \in Nat : size = maxSize
        OBVIOUS
      <4>2. FitIn(I, g, Wider(I, bin, n), size)
               <=> bin[j] \div PowerOf2[n] - bin[i] \div PowerOf2[n] < size
        BY <3>1, EndsFit
      <4> QED
        BY <3>1, <4>1, <4>2
    <3>4. \A n \in 0..ExpoMaxScale : n \in fits <=> FitIn(I, g, Wider(I, bin, n), maxSize)
      <4> SUFFICES ASSUME NEW n \in 0..ExpoMaxScale
                   PROVE  n \in fits <=> FitIn(I, g, Wider(I, bin, n), maxSize)
        OBVIOUS
      <4>1. n \in fits <=> high \div PowerOf2[n] - low \div PowerOf2[n] < maxSize
        <5> HIDE DEF low, high
        <5> QED
          OBVIOUS
      <4>2. n \in Nat
        BY <1>0
      <4> HIDE DEF low, high, fits
      <4> QED
        BY <3>3, <4>1, <4>2
    <3> HIDE DEF fits, low, high
    <3>5. change <= ExpoMaxScale => FitIn(I, g, Wider(I, bin, change), maxSize)
      <4>1. change <= ExpoMaxScale => change \in 0..ExpoMaxScale
        BY <1>0, <2>6
      <4> QED
        BY <2>6, <3>4, <4>1
    <3>6. change > 0 => ~FitIn(I, g, Wider(I, bin, change - 1), maxSize)
      BY <2>6, <3>4
    <3> QED
      BY <2>6, <3>5, <3>6 DEF LeastShift
  <2>8. ASSUME s < bin[x] /\ bin[x] < e PROVE LeastShift(I, g, bin, change, maxSize)
    <3>1. low = s /\ high = bin[x]
      BY <1>1, <1>2, <2>8
    <3>2. e - s < maxSize
      BY <2>4, <2>5 DEF FitIn
    <3>3. bin[x] - s < maxSize
      BY <1>1, <1>2, <2>8, <3>2
    <3>4. 0 \in fits
      <4>1. PowerOf2[0] = 1
        BY PowerOf2Step
      <4>2. bin[x] \div 1 = bin[x] /\ s \div 1 = s
        BY <1>1, <1>2
      <4> HIDE DEF low, high, s
      <4> QED
        BY <1>0, <3>1, <3>3, <4>1, <4>2
    <3>5. change = 0
      <4> HIDE DEF fits
      <4> QED
        BY <2>2, <2>6, <3>4
    <3>6. FitIn(I, g, bin, maxSize)
      <4> HIDE DEF s, e, counted
      <4>1. \A y \in I : g[y] > 0 => s <= bin[y] /\ bin[y] <= e
        <5>1. s <= bin[x] /\ bin[x] <= e
          BY <1>1, <1>2, <2>8
        <5> QED
          BY <1>1, <2>3, <5>1
      <4> SUFFICES ASSUME NEW y \in I, NEW z \in I, g[y] > 0, g[z] > 0
                   PROVE  bin[y] - bin[z] < maxSize
        BY DEF FitIn
      <4>2. bin[y] <= e /\ s <= bin[z] /\ bin[y] \in Int /\ bin[z] \in Int
        BY <1>1, <4>1
      <4> QED
        BY <1>2, <3>2, <4>2
    <3> QED
      BY <1>0, <3>5, <3>6, WiderType DEF LeastShift
  <2>9. LeastShift(I, g, bin, change, maxSize)
    BY <2>7, <2>8
  <2> QED
    BY <2>9 DEF change
<1> QED
  BY <1>3, <1>4

-----------------------------------------------------------------------------
(* The bins of the values at a scale. *)
BinsOf(atScale) == [x \in ExpoIndices |-> GetBin(x, atScale)]
(* The measurements in the buckets. *)
InBuckets(values) ==
    SumOf([sign \in Signs |-> SumOf(values[sign], ExpoIndices)], Signs)

HistogramType ==
    /\ maxSize \in Nat \ {0} /\ scale \in 0..ExpoMaxScale
    /\ expoCount \in Nat /\ zeroCount \in Nat /\ underflows \in Nat
    /\ buckets \in [Signs -> BucketType] /\ kept \in [Signs -> [ExpoIndices -> Nat]]
(* The buckets b have what values counts, at the largest scale that fits.   *)
ExactAt(size, atScale, values, b) ==
    /\ \A sign \in Signs : /\ Sorted(ExpoIndices, values[sign], BinsOf(atScale), b[sign])
                           /\ FitIn(ExpoIndices, values[sign], BinsOf(atScale), size)
    /\ atScale < ExpoMaxScale =>
          \E sign \in Signs : ~FitIn(ExpoIndices, values[sign], BinsOf(atScale + 1), size)
(* The value x is too far from another one.  A panic has one such value,    *)
(* and no value is recorded after it.                                       *)
Distant(x, values) ==
    \E y \in ExpoIndices : values[y] > 0 /\ (x - y >= ExpoIntLimit \/ y - x >= ExpoIntLimit)
Panicking(isPoisoned, lost, values) ==
    /\ isPoisoned \in BOOLEAN
    /\ lost = {} \/ /\ isPoisoned
                    /\ \E sign \in Signs, x \in ExpoIndices :
                          lost = {<<sign, x>>} /\ Distant(x, values[sign])
HistogramInv ==
    /\ HistogramType
    /\ ExactAt(maxSize, scale, kept, buckets)
    /\ Panicking(poisoned, panicked, kept)
    /\ expoCount = zeroCount + underflows + Cardinality(panicked) + InBuckets(kept)

LEMMA NobodyPanicked ==
    ASSUME NEW lost, lost = {} PROVE Cardinality(lost) = 0
BY FS_EmptySet
LEMMA PanickedOnce ==
    ASSUME NEW isPoisoned, NEW lost, NEW values, Panicking(isPoisoned, lost, values)
    PROVE  Cardinality(lost) \in 0..1
<1>1. CASE lost = {}
  BY <1>1, NobodyPanicked
<1>2. CASE lost # {}
  <2>1. PICK p : lost = {p}
    BY <1>2 DEF Panicking
  <2> QED
    BY <2>1, FS_Singleton
<1> QED
  BY <1>1, <1>2

LEMMA ExpoFinite == /\ IsFiniteSet(ExpoIndices) /\ ExpoIndices \subseteq Int
                    /\ IsFiniteSet(Signs) /\ ExpoMaxScale \in Nat
<1>1. ExpoBelow \in Nat /\ ExpoAbove \in Nat /\ ExpoMaxScale \in Nat
  BY ExpoAssumption
<1>2. IsFiniteSet((-ExpoBelow)..ExpoAbove)
  <2>1. -ExpoBelow \in Int /\ ExpoAbove \in Int
    BY <1>1
  <2>2. \A low, high \in Int : IsFiniteSet(low..high)
    BY FS_Interval
  <2> QED
    BY <2>1, <2>2
<1>3. IsFiniteSet(Signs)
  <2>1. Signs = ({} \cup {"pos"}) \cup {"neg"}
    BY DEF Signs
  <2>2. IsFiniteSet({} \cup {"pos"})
    BY FS_EmptySet, FS_AddElement
  <2> QED
    BY <2>1, <2>2, FS_AddElement
<1> QED
  BY <1>1, <1>2, <1>3 DEF ExpoIndices

LEMMA BinsOfType ==
    ASSUME NEW s \in 0..ExpoMaxScale
    PROVE  BinsOf(s) \in [ExpoIndices -> Int]
<1>1. ExpoMaxScale - s \in Nat
  BY ExpoFinite
<1>2. \A x \in ExpoIndices : GetBin(x, s) \in Int
  BY <1>1, ExpoFinite, PowerOf2Step, DivBounds DEF GetBin, ShiftRight
<1> QED
  BY <1>2 DEF BinsOf

LEMMA BinsWider ==
    ASSUME NEW s \in 0..ExpoMaxScale, NEW n \in 0..s
    PROVE  /\ BinsOf(s - n) = Wider(ExpoIndices, BinsOf(s), n)
           /\ s - n \in 0..ExpoMaxScale /\ n \in Nat
<1>1. /\ ExpoMaxScale - s \in Nat /\ n \in Nat /\ s - n \in 0..ExpoMaxScale
      /\ ExpoMaxScale - (s - n) = (ExpoMaxScale - s) + n
  BY ExpoFinite
<1>2. PowerOf2[(ExpoMaxScale - s) + n] = PowerOf2[ExpoMaxScale - s] * PowerOf2[n]
  BY <1>1, PowerOf2Sum
<1>3. /\ PowerOf2[n] \in Nat /\ PowerOf2[n] > 0
      /\ PowerOf2[ExpoMaxScale - s] \in Nat /\ PowerOf2[ExpoMaxScale - s] > 0
  BY <1>1, PowerOf2Step
<1>4. \A x \in ExpoIndices : GetBin(x, s - n) = BinsOf(s)[x] \div PowerOf2[n]
  <2> SUFFICES ASSUME NEW x \in ExpoIndices
               PROVE  GetBin(x, s - n) = BinsOf(s)[x] \div PowerOf2[n]
    OBVIOUS
  <2>1. x \in Int
    BY ExpoFinite
  <2>2. (x \div PowerOf2[ExpoMaxScale - s]) \div PowerOf2[n]
          = x \div (PowerOf2[ExpoMaxScale - s] * PowerOf2[n])
    BY <1>3, <2>1, DivDiv
  <2>3. GetBin(x, s - n) = x \div PowerOf2[(ExpoMaxScale - s) + n]
    BY <1>1 DEF GetBin, ShiftRight
  <2>4. BinsOf(s)[x] = x \div PowerOf2[ExpoMaxScale - s]
    BY DEF BinsOf, GetBin, ShiftRight
  <2> QED
    BY <1>2, <2>2, <2>3, <2>4
<1> QED
  BY <1>1, <1>4 DEF BinsOf, Wider

(* One more measurement. *)
LEMMA InBucketsType ==
    ASSUME NEW k \in [Signs -> [ExpoIndices -> Nat]]
    PROVE  /\ InBuckets(k) \in Nat
           /\ \A sign \in Signs : SumOf(k[sign], ExpoIndices) \in Nat
<1>1. \A sign \in Signs : SumOf(k[sign], ExpoIndices) \in Nat
  BY ExpoFinite, SumType
<1> DEFINE w == [sign \in Signs |-> SumOf(k[sign], ExpoIndices)]
<1>2. \A sign \in Signs : w[sign] \in Nat
  BY <1>1
<1> HIDE DEF w
<1>3. SumOf(w, Signs) \in Nat
  BY <1>2, ExpoFinite, SumType
<1> QED
  BY <1>1, <1>3 DEF InBuckets, w

LEMMA InBucketsMore ==
    ASSUME NEW k \in [Signs -> [ExpoIndices -> Nat]], NEW sign \in Signs, NEW x \in ExpoIndices,
           NEW l, l = [k EXCEPT ![sign][x] = @ + 1]
    PROVE  InBuckets(l) = InBuckets(k) + 1
<1> DEFINE w == [s \in Signs |-> SumOf(k[s], ExpoIndices)]
           v == [s \in Signs |-> SumOf(l[s], ExpoIndices)]
<1>1. /\ l[sign] = [k[sign] EXCEPT ![x] = @ + 1]
      /\ \A s \in Signs \ {sign} : l[s] = k[s]
      /\ k[sign] \in [ExpoIndices -> Nat]
  OBVIOUS
<1>2. SumOf(l[sign], ExpoIndices) = SumOf(k[sign], ExpoIndices) + 1
  <2>1. PICK f \in [ExpoIndices -> Nat] : f = k[sign]
    BY <1>1
  <2>2. PICK g : g = [f EXCEPT ![x] = @ + 1]
    OBVIOUS
  <2>3. g[x] = f[x] + 1 /\ (\A y \in ExpoIndices \ {x} : g[y] = f[y])
        /\ \A y \in ExpoIndices : f[y] \in Nat
    BY <2>2
  <2>4. SumOf(g, ExpoIndices) = SumOf(f, ExpoIndices) + 1
    BY ONLY <2>3, x \in ExpoIndices, ExpoFinite, SumBump
  <2>5. g = l[sign]
    BY <1>1, <2>1, <2>2
  <2> QED
    BY <2>1, <2>4, <2>5
<1>3. \A s \in Signs : w[s] \in Nat
  BY InBucketsType
<1>4. v[sign] = w[sign] + 1 /\ \A s \in Signs \ {sign} : v[s] = w[s]
  BY <1>1, <1>2
<1> HIDE DEF v, w
<1>5. SumOf(v, Signs) = SumOf(w, Signs) + 1
  BY <1>3, <1>4, ExpoFinite, SumBump
<1> QED
  BY <1>5 DEF v, w, InBuckets

LEMMA InBucketsNone == InBuckets(NoValuesKept) = 0
<1>1. \A sign \in Signs : SumOf(NoValuesKept[sign], ExpoIndices) = 0
  <2> SUFFICES ASSUME NEW sign \in Signs PROVE SumOf(NoValuesKept[sign], ExpoIndices) = 0
    OBVIOUS
  <2>1. \A x \in ExpoIndices : NoValuesKept[sign][x] = 0
    BY DEF NoValuesKept
  <2> QED
    BY <2>1, ExpoFinite, SumNone
<1> DEFINE w == [sign \in Signs |-> SumOf(NoValuesKept[sign], ExpoIndices)]
<1>2. \A sign \in Signs : w[sign] = 0
  BY <1>1
<1> HIDE DEF w
<1>3. SumOf(w, Signs) = 0
  BY <1>2, ExpoFinite, SumNone
<1> QED
  BY <1>3 DEF InBuckets, w

-----------------------------------------------------------------------------
(* A new data point and one that is reset hold nothing. *)
LEMMA NothingRecorded ==
    ASSUME NEW size \in Nat \ {0}
    PROVE  /\ NoBuckets \in [Signs -> BucketType]
           /\ NoValuesKept \in [Signs -> [ExpoIndices -> Nat]]
           /\ ExactAt(size, ExpoMaxScale, NoValuesKept, NoBuckets)
<1>1. NoBuckets \in [Signs -> BucketType]
  BY DEF NoBuckets, BucketType
<1>2. NoValuesKept \in [Signs -> [ExpoIndices -> Nat]]
  BY DEF NoValuesKept
<1>3. ASSUME NEW sign \in Signs
      PROVE  /\ Sorted(ExpoIndices, NoValuesKept[sign], BinsOf(ExpoMaxScale), NoBuckets[sign])
             /\ FitIn(ExpoIndices, NoValuesKept[sign], BinsOf(ExpoMaxScale), size)
  <2>1. \A x \in ExpoIndices : ~(NoValuesKept[sign][x] > 0)
    BY DEF NoValuesKept
  <2>2. NoBuckets[sign].counts = <<>>
    BY DEF NoBuckets
  <2> QED
    BY <2>1, <2>2 DEF Sorted, FitIn
<1>4. ~(ExpoMaxScale < ExpoMaxScale)
  BY ExpoFinite
<1> QED
  BY <1>1, <1>2, <1>3, <1>4 DEF ExactAt

LEMMA HistogramStarts == ExpoInit => HistogramInv
<1> SUFFICES ASSUME ExpoInit PROVE HistogramInv
  OBVIOUS
<1>1. /\ maxSize \in Nat \ {0} /\ scale = ExpoMaxScale /\ scale \in 0..ExpoMaxScale
      /\ expoCount = 0 /\ zeroCount = 0 /\ underflows = 0
      /\ buckets = NoBuckets /\ kept = NoValuesKept /\ poisoned = FALSE /\ panicked = {}
  BY ExpoAssumption, ExpoFinite DEF ExpoInit
<1>2. HistogramType
  BY <1>1, NothingRecorded DEF HistogramType
<1>3. ExactAt(maxSize, scale, kept, buckets)
  BY <1>1, NothingRecorded
<1>4. expoCount = zeroCount + underflows + Cardinality(panicked) + InBuckets(kept)
  BY <1>1, InBucketsNone, NobodyPanicked
<1> QED
  BY <1>1, <1>2, <1>3, <1>4 DEF HistogramInv, Panicking

LEMMA HistogramResets == HistogramInv /\ ResetPoint => HistogramInv'
<1> SUFFICES ASSUME HistogramInv, ResetPoint PROVE HistogramInv'
  OBVIOUS
<1>0. maxSize \in Nat \ {0} /\ poisoned \in BOOLEAN
  BY DEF HistogramInv, HistogramType, Panicking
<1>1. /\ maxSize' \in Nat \ {0} /\ scale' = ExpoMaxScale /\ scale' \in 0..ExpoMaxScale
      /\ expoCount' = 0 /\ zeroCount' = 0 /\ underflows' = 0
      /\ buckets' = NoBuckets /\ kept' = NoValuesKept /\ panicked' = {}
  BY <1>0, ExpoFinite DEF ResetPoint
<1>5. poisoned' \in BOOLEAN
  BY <1>0, Zenon DEF ResetPoint
<1>2. HistogramType'
  BY <1>1, NothingRecorded DEF HistogramType
<1>3. ExactAt(maxSize', scale', kept', buckets')
  BY <1>1, NothingRecorded
<1>4. expoCount' = zeroCount' + underflows' + Cardinality(panicked') + InBuckets(kept')
  BY <1>1, InBucketsNone, NobodyPanicked
<1> QED
  BY <1>1, <1>2, <1>3, <1>4, <1>5 DEF HistogramInv, Panicking

(* What a measurement finds: no earlier one panicked. *)
LEMMA UpdateFinds ==
    ASSUME HistogramInv, Update
    PROVE  /\ poisoned = FALSE /\ panicked = {} /\ expoCount' = expoCount + 1
           /\ expoCount \in Nat /\ zeroCount \in Nat /\ underflows \in Nat
           /\ InBuckets(kept) \in Nat /\ expoCount = zeroCount + underflows + InBuckets(kept)
<1>1. poisoned = FALSE /\ panicked = {} /\ expoCount' = expoCount + 1
  BY DEF HistogramInv, Panicking, Update
<1>2. HistogramType /\ InBuckets(kept) \in Nat
  BY InBucketsType DEF HistogramInv, HistogramType
<1>3. PICK n : n = InBuckets(kept)
  OBVIOUS
<1>4. expoCount = zeroCount + underflows + 0 + n
  BY <1>1, <1>3, NobodyPanicked DEF HistogramInv
<1> QED
  BY <1>1, <1>2, <1>3, <1>4 DEF HistogramType

LEMMA HistogramRecordsZero == HistogramInv /\ RecordZero => HistogramInv'
<1> SUFFICES ASSUME HistogramInv, RecordZero PROVE HistogramInv'
  OBVIOUS
<1>1. UNCHANGED <<maxSize, scale, buckets, poisoned, kept, underflows, panicked>>
      /\ zeroCount' = zeroCount + 1 /\ Update
  BY DEF RecordZero
<1>2. PICK n \in Nat : /\ n = InBuckets(kept) /\ n = InBuckets(kept')
                       /\ expoCount = zeroCount + underflows + n /\ expoCount' = expoCount + 1
                       /\ expoCount \in Nat /\ zeroCount \in Nat /\ underflows \in Nat
                       /\ panicked' = {} /\ poisoned' = FALSE
  BY <1>1, UpdateFinds
<1>3. HistogramType'
  BY <1>1, <1>2 DEF HistogramInv, HistogramType
<1>4. ExactAt(maxSize', scale', kept', buckets')
  BY <1>1 DEF HistogramInv
<1>5. expoCount' = zeroCount' + underflows' + Cardinality(panicked') + InBuckets(kept')
  BY <1>1, <1>2, NobodyPanicked
<1> QED
  BY <1>2, <1>3, <1>4, <1>5 DEF HistogramInv, Panicking

-----------------------------------------------------------------------------
(* The buckets after a value x that needs a change of scale is recorded.    *)
RecordedAt(size, s, change, values, b) ==
    /\ change \in 0..(ExpoMaxScale + 1)
    /\ change <= s => /\ s - change \in 0..ExpoMaxScale /\ b \in [Signs -> BucketType]
                      /\ ExactAt(size, s - change, values, b)

LEMMA RecordedSorts ==
    ASSUME maxSize \in Nat \ {0}, NEW s \in 0..ExpoMaxScale,
           NEW k \in [Signs -> [ExpoIndices -> Nat]], NEW b \in [Signs -> BucketType],
           ExactAt(maxSize, s, k, b), NEW at \in Signs, NEW x \in ExpoIndices,
           NEW change, change = ScaleChange(b[at], GetBin(x, s)),
           NEW l, l = [k EXCEPT ![at][x] = @ + 1],
           NEW c, c = [[sign \in Signs |-> Downscale(b[sign], change)]
                          EXCEPT ![at] = CountIn(@, GetBin(x, s - change))]
    PROVE  RecordedAt(maxSize, s, change, l, c)
<1> DEFINE I == ExpoIndices
           bins == BinsOf(s)
<1>1. bins \in [I -> Int] /\ bins[x] = GetBin(x, s)
  <2>1. bins[x] = GetBin(x, s)
    BY DEF BinsOf
  <2> QED
    BY <2>1, BinsOfType
<1>2. PICK size \in Nat \ {0} : size = maxSize
  OBVIOUS
<1>3. PICK f \in [I -> Nat] : f = k[at]
  OBVIOUS
<1>4. PICK g : g = [f EXCEPT ![x] = @ + 1]
  OBVIOUS
<1>5. /\ l \in [Signs -> [I -> Nat]] /\ l[at] = g /\ \A sign \in Signs \ {at} : l[sign] = k[sign]
      /\ g \in [I -> Nat] /\ \A y \in I : f[y] > 0 => g[y] > 0
  BY <1>3, <1>4
<1>6. PICK old \in BucketType : old = b[at]
  OBVIOUS
<1>7. Sorted(I, f, bins, old) /\ FitIn(I, f, bins, maxSize)
  BY <1>3, <1>6 DEF ExactAt
<1>8. change = ScaleChange(old, bins[x])
  BY <1>1, <1>6
<1> HIDE DEF bins, I
<1>9. /\ change \in 0..(ExpoMaxScale + 1)
      /\ change <= ExpoMaxScale => FitIn(I, g, Wider(I, bins, change), maxSize)
      /\ change > 0 => ~FitIn(I, g, Wider(I, bins, change - 1), maxSize)
  <2>1. x \in I
    BY DEF I
  <2>2. LeastShift(I, g, bins, ScaleChange(old, bins[x]), maxSize)
    BY <1>1, <1>4, <1>7, <2>1, ScaleChangeIs
  <2> QED
    BY <1>8, <2>2 DEF LeastShift
<1>10. ASSUME change <= s
       PROVE  /\ s - change \in 0..ExpoMaxScale /\ c \in [Signs -> BucketType]
              /\ ExactAt(maxSize, s - change, l, c)
  <2>1. change \in 0..s /\ change \in Nat /\ change <= ExpoMaxScale
    BY <1>9, <1>10, ExpoFinite
  <2>2. BinsOf(s - change) = Wider(I, bins, change) /\ s - change \in 0..ExpoMaxScale
    BY <2>1, BinsWider DEF I, bins
  <2>3. PICK wide : wide = Wider(I, bins, change)
    OBVIOUS
  <2>4. wide \in [I -> Int]
    <3>1. Wider(I, bins, change) \in [I -> Int]
      BY <1>1, <2>1, WiderType
    <3> QED
      BY <2>3, <3>1
  <2>5. \A sign \in Signs : Downscale(b[sign], change) \in BucketType
                            /\ Sorted(I, k[sign], wide, Downscale(b[sign], change))
    <3> SUFFICES ASSUME NEW sign \in Signs
                 PROVE  Downscale(b[sign], change) \in BucketType
                        /\ Sorted(I, k[sign], wide, Downscale(b[sign], change))
      OBVIOUS
    <3>1. PICK h \in [I -> Nat] : h = k[sign]
      BY DEF I
    <3>2. PICK d \in BucketType : d = b[sign]
      OBVIOUS
    <3>3. Sorted(I, h, bins, d) /\ IsFiniteSet(I)
      BY <3>1, <3>2, ExpoFinite DEF I, bins, ExactAt
    <3>4. Downscale(d, change) \in BucketType
          /\ Sorted(I, h, Wider(I, bins, change), Downscale(d, change))
      BY <1>1, <2>1, <3>3, DownscaleSorts
    <3> QED
      BY <2>3, <3>1, <3>2, <3>4
  <2>6. PICK e \in BucketType : e = Downscale(b[at], change)
    BY <2>5
  <2>7. CountIn(e, wide[x]) \in BucketType /\ Sorted(I, g, wide, CountIn(e, wide[x]))
    <3>1. Sorted(I, f, wide, e) /\ IsFiniteSet(I) /\ x \in I
      BY <1>3, <2>5, <2>6, ExpoFinite DEF I
    <3>2. Sorted(I, [f EXCEPT ![x] = @ + 1], wide, CountIn(e, wide[x]))
          /\ CountIn(e, wide[x]) \in BucketType
      BY <2>4, <3>1, CountInSorts
    <3> QED
      BY <1>4, <3>2
  <2>8. wide[x] = GetBin(x, s - change)
    BY <2>2, <2>3 DEF BinsOf
  <2>9. /\ c[at] = CountIn(e, wide[x])
        /\ \A sign \in Signs \ {at} : c[sign] = Downscale(b[sign], change)
        /\ c = [sign \in Signs |-> c[sign]]
    BY <2>6, <2>8
  <2>10. c \in [Signs -> BucketType]
    BY <2>5, <2>7, <2>9
  <2>11. \A sign \in Signs : Sorted(I, l[sign], BinsOf(s - change), c[sign])
    <3> SUFFICES ASSUME NEW sign \in Signs
                 PROVE  Sorted(I, l[sign], BinsOf(s - change), c[sign])
      OBVIOUS
    <3>1. CASE sign = at
      BY <1>5, <2>2, <2>3, <2>7, <2>9, <3>1
    <3>2. CASE sign # at
      BY <1>5, <2>2, <2>3, <2>5, <2>9, <3>2
    <3> QED
      BY <3>1, <3>2
  <2>12. \A sign \in Signs : FitIn(I, l[sign], BinsOf(s - change), maxSize)
    <3> SUFFICES ASSUME NEW sign \in Signs PROVE FitIn(I, l[sign], BinsOf(s - change), maxSize)
      OBVIOUS
    <3>1. CASE sign = at
      BY <1>5, <1>9, <2>1, <2>2, <3>1
    <3>2. CASE sign # at
      <4>1. l[sign] = k[sign] /\ FitIn(I, k[sign], bins, size)
        BY <1>2, <1>5, <3>2 DEF I, bins, ExactAt
      <4>2. size \in Nat /\ size > 0
        OBVIOUS
      <4>3. FitIn(I, k[sign], Wider(I, bins, change), size)
        BY <1>1, <2>1, <4>1, <4>2, WiderFits
      <4> QED
        BY <1>2, <2>2, <4>1, <4>3
    <3> QED
      BY <3>1, <3>2
  <2>13. ASSUME s - change < ExpoMaxScale
         PROVE  \E sign \in Signs : ~FitIn(I, l[sign], BinsOf(s - change + 1), maxSize)
    <3>1. CASE change = 0
      <4>1. s - change = s /\ s < ExpoMaxScale
        BY <2>13, <3>1, ExpoFinite
      <4>2. PICK sign \in Signs : ~FitIn(I, k[sign], BinsOf(s + 1), maxSize)
        BY <4>1 DEF I, ExactAt
      <4>3. k[sign] \in [I -> Nat] /\ l[sign] \in [I -> Nat]
            /\ \A y \in I : k[sign][y] > 0 => l[sign][y] > 0
        BY <1>3, <1>5 DEF I
      <4>4. ~FitIn(I, l[sign], BinsOf(s + 1), maxSize)
        BY <4>2, <4>3, MoreFit
      <4> QED
        BY <4>1, <4>4
    <3>2. CASE change # 0
      <4>1. change - 1 \in 0..s /\ change > 0 /\ s - (change - 1) = s - change + 1
        BY <2>1, <3>2
      <4>2. BinsOf(s - change + 1) = Wider(I, bins, change - 1)
        BY <4>1, BinsWider DEF I, bins
      <4> QED
        BY <1>5, <1>9, <4>1, <4>2
    <3> QED
      BY <3>1, <3>2
  <2> QED
    BY <2>2, <2>10, <2>11, <2>12, <2>13 DEF ExactAt, I
<1> QED
  BY <1>9, <1>10 DEF RecordedAt

LEMMA HistogramRecords ==
    ASSUME HistogramInv, NEW sign \in Signs, NEW x \in ExpoIndices, RecordValue(sign, x)
    PROVE  HistogramInv'
<1>0. HistogramType
  BY DEF HistogramInv
<1>1. PICK change : change = ScaleChange(buckets[sign], GetBin(x, scale))
  OBVIOUS
<1>2. PICK l : l = [kept EXCEPT ![sign][x] = @ + 1]
  OBVIOUS
<1>3. PICK c : c = [[s \in Signs |-> Downscale(buckets[s], change)]
                       EXCEPT ![sign] = CountIn(@, GetBin(x, scale - change))]
  OBVIOUS
<1>4. /\ Update /\ zeroCount' = zeroCount /\ maxSize' = maxSize
      /\ poisoned' = poisoned /\ panicked' = panicked
      /\ IF scale - change < 0
         THEN underflows' = underflows + 1 /\ UNCHANGED <<scale, buckets, kept>>
         ELSE scale' = scale - change /\ buckets' = c /\ kept' = l /\ underflows' = underflows
  BY <1>1, <1>2, <1>3, Zenon DEF RecordValue
<1>5. /\ change \in 0..(ExpoMaxScale + 1)
      /\ change <= scale =>
           /\ scale - change \in 0..ExpoMaxScale /\ c \in [Signs -> BucketType]
           /\ ExactAt(maxSize, scale - change, l, c)
  <2>1. PICK s \in 0..ExpoMaxScale : s = scale
    BY <1>0 DEF HistogramType
  <2>2. PICK k \in [Signs -> [ExpoIndices -> Nat]] : k = kept
    BY <1>0 DEF HistogramType
  <2>3. PICK b \in [Signs -> BucketType] : b = buckets
    BY <1>0 DEF HistogramType
  <2>4. maxSize \in Nat \ {0}
    BY <1>0 DEF HistogramType
  <2>5. ExactAt(maxSize, s, k, b)
    BY <2>1, <2>2, <2>3 DEF HistogramInv
  <2>6. /\ change = ScaleChange(b[sign], GetBin(x, s))
        /\ l = [k EXCEPT ![sign][x] = @ + 1]
        /\ c = [[r \in Signs |-> Downscale(b[r], change)]
                   EXCEPT ![sign] = CountIn(@, GetBin(x, s - change))]
    BY <1>1, <1>2, <1>3, <2>1, <2>2, <2>3
  <2>7. RecordedAt(maxSize, s, change, l, c)
    BY ONLY <2>4, <2>5, <2>6, sign \in Signs, x \in ExpoIndices, s \in 0..ExpoMaxScale,
            k \in [Signs -> [ExpoIndices -> Nat]], b \in [Signs -> BucketType], RecordedSorts
  <2> QED
    BY <2>1, <2>7 DEF RecordedAt
<1>6. scale \in Int /\ change \in Int /\ (scale - change < 0 <=> ~(change <= scale))
  BY <1>0, <1>5, ExpoFinite DEF HistogramType
<1>7. /\ expoCount \in Nat /\ zeroCount \in Nat /\ underflows \in Nat /\ InBuckets(kept) \in Nat
      /\ expoCount = zeroCount + underflows + InBuckets(kept) /\ expoCount' = expoCount + 1
      /\ poisoned' = FALSE /\ panicked' = {} /\ Cardinality(panicked') = 0
  BY <1>4, UpdateFinds, NobodyPanicked
<1>8. CASE change <= scale
  <2>1. scale' = scale - change /\ buckets' = c /\ kept' = l /\ underflows' = underflows
    BY <1>4, <1>6, <1>8
  <2>2. InBuckets(l) = InBuckets(kept) + 1 /\ l \in [Signs -> [ExpoIndices -> Nat]]
    <3>1. kept \in [Signs -> [ExpoIndices -> Nat]]
      BY <1>0 DEF HistogramType
    <3>2. l \in [Signs -> [ExpoIndices -> Nat]]
      BY <1>2, <3>1
    <3> QED
      BY <1>2, <3>1, <3>2, InBucketsMore
  <2>3. expoCount' \in Nat /\ expoCount' = zeroCount' + underflows' + InBuckets(l)
    BY <1>4, <1>7, <2>1, <2>2
  <2>4. HistogramType'
    BY <1>0, <1>4, <1>5, <1>7, <1>8, <2>1, <2>2, <2>3 DEF HistogramType
  <2>5. ExactAt(maxSize', scale', kept', buckets')
    BY <1>4, <1>5, <1>8, <2>1
  <2>6. expoCount' = zeroCount' + underflows' + Cardinality(panicked') + InBuckets(kept')
    <3>1. zeroCount' \in Nat /\ underflows' \in Nat
      BY <1>4, <1>7, <2>1
    <3> QED
      BY <1>7, <2>1, <2>2, <2>3, <3>1
  <2> QED
    BY <1>7, <2>4, <2>5, <2>6 DEF HistogramInv, Panicking
<1>9. CASE ~(change <= scale)
  <2>1. underflows' = underflows + 1 /\ scale' = scale /\ buckets' = buckets /\ kept' = kept
    BY <1>4, <1>6, <1>9
  <2>2. HistogramType'
    BY <1>0, <1>4, <1>7, <2>1 DEF HistogramType
  <2>3. ExactAt(maxSize', scale', kept', buckets')
    BY <1>4, <2>1 DEF HistogramInv
  <2>4. expoCount' = zeroCount' + underflows' + Cardinality(panicked') + InBuckets(kept')
    BY <1>4, <1>7, <2>1
  <2> QED
    BY <1>7, <2>2, <2>3, <2>4 DEF HistogramInv, Panicking
<1> QED
  BY <1>8, <1>9

(* Bins that are too far apart hold values that are. *)
LEMMA ApartBefore ==
    ASSUME NEW x \in Int, NEW y \in Int, NEW d \in Nat, d > 0, NEW limit \in Nat \ {0},
           x \div d - y \div d >= limit
    PROVE  x - y >= limit
<1>1. PICK p \in Int : p = x \div d /\ d * p <= x
  BY DivBounds
<1>2. PICK q \in Int : q = y \div d /\ y < d * q + d
  BY DivBounds
<1>3. PICK m \in Nat : p = q + limit + m
  <2>1. p - q - limit \in Nat
    BY <1>1, <1>2
  <2> QED
    BY <2>1
<1>4. d * (q + limit + m) = d * q + d * limit + d * m /\ d * m >= 0
  BY <1>2, <1>3
<1>5. d * limit >= d + limit - 1
  <2>1. (d - 1) * (limit - 1) >= 0
    OBVIOUS
  <2>2. (d - 1) * (limit - 1) = d * limit - d - limit + 1
    OBVIOUS
  <2> QED
    BY <2>1, <2>2
<1>6. PICK a \in Int, b \in Int, c \in Int : a = d * q /\ b = d * limit /\ c = d * m
  BY <1>2, <1>3
<1> QED
  BY <1>1, <1>2, <1>3, <1>4, <1>5, <1>6

LEMMA TooFarIsDistant ==
    ASSUME HistogramType, NEW sign \in Signs, NEW x \in ExpoIndices,
           Sorted(ExpoIndices, kept[sign], BinsOf(scale), buckets[sign]),
           TooFar(buckets[sign], GetBin(x, scale))
    PROVE  Distant(x, kept[sign])
<1> DEFINE d == PowerOf2[ExpoMaxScale - scale]
           counted == {y \in ExpoIndices : kept[sign][y] > 0}
<1>1. PICK b \in BucketType : b = buckets[sign]
  BY DEF HistogramType
<1>2. ExpoMaxScale - scale \in Nat /\ d \in Nat /\ d > 0 /\ ExpoIntLimit \in Nat \ {0}
  BY ExpoAssumption, ExpoFinite, PowerOf2Step DEF HistogramType
<1>3. \A y \in ExpoIndices : y \in Int /\ BinsOf(scale)[y] = y \div d
  BY ExpoFinite DEF BinsOf, GetBin, ShiftRight
<1>4. GetBin(x, scale) = x \div d
  BY DEF GetBin, ShiftRight
<1>5. /\ b.counts # <<>>
      /\ IF b.start >= x \div d THEN EndBin(b) - x \div d >= ExpoIntLimit
         ELSE x \div d - b.start >= ExpoIntLimit
  BY <1>1, <1>4, Zenon DEF TooFar, RangeWith
<1>6. PICK low \in counted, high \in counted :
          b.start = BinsOf(scale)[low] /\ EndBin(b) = BinsOf(scale)[high]
  BY <1>1, <1>5 DEF Sorted
<1>7. /\ b.start = low \div d /\ EndBin(b) = high \div d
      /\ low \in ExpoIndices /\ kept[sign][low] > 0 /\ high \in ExpoIndices /\ kept[sign][high] > 0
  BY <1>3, <1>6
<1> HIDE DEF d, counted
<1>8. CASE b.start >= x \div d
  <2>1. high - x >= ExpoIntLimit
    BY <1>2, <1>3, <1>5, <1>7, <1>8, ApartBefore
  <2> QED
    BY <1>7, <2>1 DEF Distant
<1>9. CASE ~(b.start >= x \div d)
  <2>1. x - low >= ExpoIntLimit
    BY <1>2, <1>3, <1>5, <1>7, <1>9, ApartBefore
  <2> QED
    BY <1>7, <2>1 DEF Distant
<1> QED
  BY <1>8, <1>9

LEMMA HistogramPanics ==
    ASSUME HistogramInv, NEW sign \in Signs, NEW x \in ExpoIndices, RecordTooFar(sign, x)
    PROVE  HistogramInv'
<1>1. UNCHANGED <<maxSize, scale, zeroCount, buckets, kept, underflows>> /\ Update
      /\ poisoned' = TRUE /\ panicked' = panicked \cup {<<sign, x>>}
  BY DEF RecordTooFar
<1>2. PICK n \in Nat : /\ n = InBuckets(kept) /\ n = InBuckets(kept')
                       /\ expoCount = zeroCount + underflows + n /\ expoCount' = expoCount + 1
                       /\ expoCount \in Nat /\ zeroCount \in Nat /\ underflows \in Nat
                       /\ panicked' = {<<sign, x>>}
  BY <1>1, UpdateFinds
<1>3. HistogramType'
  BY <1>1, <1>2 DEF HistogramInv, HistogramType
<1>4. ExactAt(maxSize', scale', kept', buckets')
  BY <1>1 DEF HistogramInv
<1>5. Panicking(poisoned', panicked', kept')
  <2>1. Distant(x, kept[sign])
    <3>1. TooFar(buckets[sign], GetBin(x, scale))
      BY DEF RecordTooFar
    <3>2. Sorted(ExpoIndices, kept[sign], BinsOf(scale), buckets[sign]) /\ HistogramType
      BY DEF HistogramInv, ExactAt
    <3> QED
      BY <3>1, <3>2, TooFarIsDistant
  <2> QED
    BY <1>1, <1>2, <2>1 DEF Panicking
<1>6. expoCount' = zeroCount' + underflows' + Cardinality(panicked') + InBuckets(kept')
  <2>1. PICK set : set = {<<sign, x>>} /\ set = panicked' /\ Cardinality(set) = 1
    BY <1>2, FS_Singleton
  <2>2. Cardinality(panicked') = 1 /\ underflows' = underflows /\ zeroCount' = zeroCount
    BY <1>1, <2>1
  <2> QED
    BY <1>2, <2>2
<1> QED
  BY <1>3, <1>4, <1>5, <1>6 DEF HistogramInv

LEMMA HistogramKeeps == HistogramInv /\ [ExpoNext]_expoVars => HistogramInv'
<1> SUFFICES ASSUME HistogramInv, [ExpoNext]_expoVars PROVE HistogramInv'
  OBVIOUS
<1>1. CASE RecordZero
  BY <1>1, HistogramRecordsZero
<1>2. CASE ResetPoint
  BY <1>2, HistogramResets
<1>3. CASE \E sign \in Signs, x \in ExpoIndices : RecordValue(sign, x)
  BY <1>3, HistogramRecords
<1>5. CASE \E sign \in Signs, x \in ExpoIndices : RecordTooFar(sign, x)
  BY <1>5, HistogramPanics
<1>4. CASE UNCHANGED expoVars
  BY <1>4 DEF expoVars, HistogramInv, HistogramType
<1> QED
  BY <1>1, <1>2, <1>3, <1>4, <1>5 DEF ExpoNext

-----------------------------------------------------------------------------
(* The property's terms, by those of the invariant. *)
LEMMA BinsAtIs ==
    ASSUME HistogramType, NEW sign \in Signs, NEW s \in 0..ExpoMaxScale, ValuesKept(sign) # {}
    PROVE  /\ Min(BinsAt(sign, s)) \in BinsAt(sign, s) /\ Max(BinsAt(sign, s)) \in BinsAt(sign, s)
           /\ \A n \in BinsAt(sign, s) :
                 n \in Int /\ Min(BinsAt(sign, s)) <= n /\ n <= Max(BinsAt(sign, s))
<1>1. /\ -ExpoBelow \in Int /\ ExpoAbove \in Int /\ ExpoMaxScale - s \in Nat
      /\ \A x \in ExpoIndices : x \in Int /\ -ExpoBelow <= x /\ x <= ExpoAbove
  BY ExpoAssumption, ExpoFinite DEF ExpoIndices
<1> DEFINE d == PowerOf2[ExpoMaxScale - s]
<1>2. d \in Nat /\ d > 0
  BY <1>1, PowerOf2Step
<1> HIDE DEF d
<1>3. \A x \in ExpoIndices : x \div d \in Int /\ (-ExpoBelow) \div d <= x \div d
                             /\ x \div d <= ExpoAbove \div d
  BY <1>1, <1>2, DivBounds, DivMonotone
<1>4. (-ExpoBelow) \div d \in Int /\ ExpoAbove \div d \in Int
  BY <1>1, <1>2, DivBounds
<1>5. PICK S : S = BinsAt(sign, s)
  OBVIOUS
<1>6. \A n \in S : \E x \in ExpoIndices : n = x \div d
  BY <1>5 DEF BinsAt, ValuesKept, GetBin, ShiftRight, d
<1>7. S # {}
  BY <1>5 DEF BinsAt
<1>8. S \in SUBSET Int /\ \A n \in S : (-ExpoBelow) \div d <= n /\ n <= ExpoAbove \div d
  BY <1>3, <1>6
<1>9. Min(S) \in S /\ \A n \in S : Min(S) <= n
  BY <1>4, <1>7, <1>8, MinIn
<1>10. Max(S) \in S /\ \A n \in S : n <= Max(S)
  BY <1>4, <1>7, <1>8, MaxIn
<1> QED
  BY <1>5, <1>8, <1>9, <1>10

LEMMA FitsAtIs ==
    ASSUME HistogramType, NEW s \in 0..ExpoMaxScale
    PROVE  FitsAt(s) <=> \A sign \in Signs : FitIn(ExpoIndices, kept[sign], BinsOf(s), maxSize)
<1>1. ASSUME NEW sign \in Signs
      PROVE  (ValuesKept(sign) = {} \/ Max(BinsAt(sign, s)) - Min(BinsAt(sign, s)) < maxSize)
                <=> FitIn(ExpoIndices, kept[sign], BinsOf(s), maxSize)
  <2>1. \A x \in ExpoIndices : kept[sign][x] > 0 <=> x \in ValuesKept(sign)
    BY DEF ValuesKept
  <2>2. CASE ValuesKept(sign) = {}
    BY <2>1, <2>2 DEF FitIn
  <2>3. CASE ValuesKept(sign) # {}
    <3>1. PICK low, high : low = Min(BinsAt(sign, s)) /\ high = Max(BinsAt(sign, s))
      OBVIOUS
    <3>2. /\ low \in BinsAt(sign, s) /\ high \in BinsAt(sign, s)
          /\ \A n \in BinsAt(sign, s) : n \in Int /\ low <= n /\ n <= high
      BY <2>3, <3>1, BinsAtIs
    <3>3. \A x \in ValuesKept(sign) : x \in ExpoIndices /\ BinsOf(s)[x] \in BinsAt(sign, s)
      BY DEF ValuesKept, BinsAt, BinsOf
    <3>4. \A n \in BinsAt(sign, s) : \E x \in ValuesKept(sign) : n = BinsOf(s)[x]
      BY DEF ValuesKept, BinsAt, BinsOf
    <3>5. maxSize \in Int
      BY DEF HistogramType
    <3>6. ASSUME high - low < maxSize
          PROVE  FitIn(ExpoIndices, kept[sign], BinsOf(s), maxSize)
      <4> SUFFICES ASSUME NEW x \in ExpoIndices, NEW y \in ExpoIndices,
                          kept[sign][x] > 0, kept[sign][y] > 0
                   PROVE  BinsOf(s)[x] - BinsOf(s)[y] < maxSize
        BY DEF FitIn
      <4>1. BinsOf(s)[x] \in BinsAt(sign, s) /\ BinsOf(s)[y] \in BinsAt(sign, s)
        BY <2>1, <3>3
      <4>2. /\ BinsOf(s)[x] \in Int /\ BinsOf(s)[x] <= high
            /\ BinsOf(s)[y] \in Int /\ low <= BinsOf(s)[y]
            /\ low \in Int /\ high \in Int
        BY <3>2, <4>1
      <4> QED
        BY <3>5, <3>6, <4>2
    <3>7. ASSUME FitIn(ExpoIndices, kept[sign], BinsOf(s), maxSize)
          PROVE  high - low < maxSize
      <4>1. PICK x, y \in ValuesKept(sign) : high = BinsOf(s)[x] /\ low = BinsOf(s)[y]
        BY <3>2, <3>4
      <4>2. x \in ExpoIndices /\ y \in ExpoIndices /\ kept[sign][x] > 0 /\ kept[sign][y] > 0
        BY DEF ValuesKept
      <4> QED
        BY <3>7, <4>1, <4>2 DEF FitIn
    <3> QED
      BY <2>3, <3>1, <3>6, <3>7
  <2> QED
    BY <2>2, <2>3
<1> QED
  BY <1>1, Zenon DEF FitsAt

LEMMA SortedIntoIs ==
    ASSUME HistogramType, NEW sign \in Signs, NEW b \in BucketType,
           Sorted(ExpoIndices, kept[sign], BinsOf(scale), b)
    PROVE  SortedInto(sign, b)
<1> DEFINE bins == BinsOf(scale)
           counted == {x \in ExpoIndices : kept[sign][x] > 0}
<1>1. counted = ValuesKept(sign) /\ \A x \in ExpoIndices : bins[x] = GetBin(x, scale)
  BY DEF ValuesKept, BinsOf
<1>2. CASE ValuesKept(sign) = {}
  BY <1>1, <1>2 DEF Sorted, SortedInto
<1>3. CASE ValuesKept(sign) # {}
  <2>1. /\ \A x \in counted : b.start <= bins[x] /\ bins[x] <= EndBin(b)
        /\ \E x \in counted : bins[x] = b.start
        /\ \E x \in counted : bins[x] = EndBin(b)
        /\ CountsOf(ExpoIndices, kept[sign], bins, b.start, b.counts)
    BY <1>1, <1>3 DEF Sorted
  <2>2. scale \in 0..ExpoMaxScale
    BY DEF HistogramType
  <2>3. PICK low, high : low = Min(BinsAt(sign, scale)) /\ high = Max(BinsAt(sign, scale))
    OBVIOUS
  <2>4. /\ low \in BinsAt(sign, scale) /\ high \in BinsAt(sign, scale)
        /\ \A n \in BinsAt(sign, scale) : n \in Int /\ low <= n /\ n <= high
    BY <1>3, <2>2, <2>3, BinsAtIs
  <2>5. \A n : n \in BinsAt(sign, scale) <=> \E x \in counted : n = bins[x]
    BY <1>1 DEF BinsAt
  <2>6. b.start = low /\ EndBin(b) = high
    <3> HIDE DEF bins, counted
    <3>1. /\ b.start \in BinsAt(sign, scale) /\ EndBin(b) \in BinsAt(sign, scale)
          /\ b.start <= low /\ high <= EndBin(b)
      BY <2>1, <2>4, <2>5
    <3>2. b.start \in Int /\ EndBin(b) \in Int /\ low \in Int /\ high \in Int
          /\ low <= b.start /\ EndBin(b) <= high
      BY <2>4, <3>1
    <3> QED
      BY <3>1, <3>2
  <2>7. \A i \in DOMAIN b.counts : b.counts[i] = KeptIn(sign, b.start + i - 1)
    <3> SUFFICES ASSUME NEW i \in DOMAIN b.counts
                 PROVE  b.counts[i] = KeptIn(sign, b.start + i - 1)
      OBVIOUS
    <3>1. i \in 1..Len(b.counts)
      BY DEF BucketType
    <3>2. b.counts[i] = SumOf(kept[sign], {x \in ExpoIndices : bins[x] = b.start + i - 1})
      BY <2>1, <3>1 DEF CountsOf
    <3>3. {x \in ExpoIndices : bins[x] = b.start + i - 1}
            = {x \in ExpoIndices : GetBin(x, scale) = b.start + i - 1}
      BY <1>1
    <3>4. KeptIn(sign, b.start + i - 1)
            = SumOf(kept[sign], {x \in ExpoIndices : GetBin(x, scale) = b.start + i - 1})
      BY DEF KeptIn, SumOf
    <3> QED
      BY <3>2, <3>3, <3>4
  <2> QED
    BY <1>3, <2>3, <2>6, <2>7 DEF SortedInto
<1> QED
  BY <1>2, <1>3

LEMMA KeptTotalIs == MapThenSumSet(LAMBDA sign : KeptTotal[sign], Signs) = InBuckets(kept)
<1>1. KeptTotal = [sign \in Signs |-> SumOf(kept[sign], ExpoIndices)]
  BY DEF KeptTotal, SumOf
<1>2. MapThenSumSet(LAMBDA sign : KeptTotal[sign], Signs) = SumOf(KeptTotal, Signs)
  BY DEF SumOf
<1> QED
  BY <1>1, <1>2 DEF InBuckets

LEMMA HistogramExact == HistogramInv => BucketsExact
<1> SUFFICES ASSUME HistogramInv PROVE BucketsExact
  OBVIOUS
<1>1. HistogramType /\ scale \in 0..ExpoMaxScale
  BY DEF HistogramInv, HistogramType
<1>2. \A sign \in Signs : SortedInto(sign, buckets[sign])
  <2> SUFFICES ASSUME NEW sign \in Signs PROVE SortedInto(sign, buckets[sign])
    OBVIOUS
  <2>1. buckets[sign] \in BucketType
    BY <1>1 DEF HistogramType
  <2>2. Sorted(ExpoIndices, kept[sign], BinsOf(scale), buckets[sign])
    BY DEF HistogramInv, ExactAt
  <2> QED
    BY <1>1, <2>1, <2>2, SortedIntoIs
<1>3. FitsAt(scale)
  BY <1>1, FitsAtIs DEF HistogramInv, ExactAt
<1>4. ASSUME scale < ExpoMaxScale PROVE ~FitsAt(scale + 1)
  <2>1. scale + 1 \in 0..ExpoMaxScale
    BY <1>1, <1>4, ExpoFinite
  <2> QED
    BY <1>1, <1>4, <2>1, FitsAtIs DEF HistogramInv, ExactAt
<1>5. expoCount = zeroCount + underflows + Cardinality(panicked)
                     + MapThenSumSet(LAMBDA sign : KeptTotal[sign], Signs)
  BY KeptTotalIs DEF HistogramInv
<1>6. Panicking(poisoned, panicked, kept) /\ Cardinality(panicked) \in 0..1
  BY PanickedOnce DEF HistogramInv
<1>7. \A p \in panicked : \E y \in ValuesKept(p[1]) : \/ p[2] - y >= ExpoIntLimit
                                                      \/ y - p[2] >= ExpoIntLimit
  <2> SUFFICES ASSUME NEW p \in panicked
               PROVE  \E y \in ValuesKept(p[1]) : \/ p[2] - y >= ExpoIntLimit
                                                  \/ y - p[2] >= ExpoIntLimit
    OBVIOUS
  <2>1. PICK sign \in Signs, x \in ExpoIndices : p = <<sign, x>> /\ Distant(x, kept[sign])
    BY <1>6 DEF Panicking
  <2>2. p[1] = sign /\ p[2] = x
    BY <2>1
  <2> QED
    BY <2>1, <2>2 DEF Distant, ValuesKept
<1> QED
  BY <1>2, <1>3, <1>4, <1>5, <1>6, <1>7 DEF BucketsExact

(* Whatever is recorded in whatever order, with whatever changes of scale:  *)
(* the merging of bins in place that downscale does and the widening that   *)
(* record does leave each bucket with exactly the values of its bin, in at  *)
(* most max_size bins, and scale_change never lowers the scale further than *)
(* the values need.  For every size, every scale and every range of values, *)
(* but for a measurement too far from a value in the buckets for their      *)
(* distance in i32: it panics, nothing is recorded after it until the data  *)
(* are reset, and it leaves the buckets exact.                              *)
THEOREM HistogramIsExact == ExpoSpec => []BucketsExact
<1>1. ExpoInit => HistogramInv
  BY HistogramStarts
<1>2. HistogramInv /\ [ExpoNext]_expoVars => HistogramInv'
  BY HistogramKeeps
<1>3. HistogramInv => BucketsExact
  BY HistogramExact
<1> QED
  BY <1>1, <1>2, <1>3, PTL DEF ExpoSpec
=============================================================================
