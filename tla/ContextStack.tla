---------------------------- MODULE ContextStack ----------------------------
(***************************************************************************)
(* The stack of contexts attached to one thread                             *)
(* (opentelemetry/src/context.rs) and the guards that detach them.  Guards  *)
(* may be dropped in any order; they never leave their thread, so there is  *)
(* one actor.                                                               *)
(*                                                                         *)
(* A context refers to at most one entry and one span, each by an Arc: the *)
(* value is dropped with the last context that refers to it.  Whether that *)
(* happens while the thread-local RefCell is borrowed is what the history  *)
(* variables droppedInPush and droppedInPop record.                        *)
(*                                                                         *)
(* A definition marked as a slip is not part of the model: it is a wrong   *)
(* form of the definition after it, which the properties must reject.      *)
(***************************************************************************)
EXTENDS Integers, Sequences, FiniteSets

CONSTANTS
    Guards,    \* bound: ContextGuards alive at a time
    Spans,     \* spans alive at a time
    Entries,   \* values alive at a time
    NoSpan,    \* the context has no span
    NoEntry,   \* the context has no value
    Hole,      \* the None that an out-of-order drop leaves in the stack
    MaxPos     \* MAX_POS: u16::MAX in the code

Context == [span : Spans \cup {NoSpan}, entry : Entries \cup {NoEntry}]
Empty == [span |-> NoSpan, entry |-> NoEntry]

ContextAssumption ==
    /\ MaxPos \in Nat \ {0}
    /\ Spans \cap Entries = {}
    /\ {NoSpan, NoEntry} \cap (Spans \cup Entries) = {}
    /\ Hole \notin Context
ASSUME ContextAssumption

VARIABLES
    currentCx,      \* the context current on the thread
    stack,          \* the contexts below it, with holes
    guardPos,       \* cx_pos of a live guard, 0 (BASE_POS) for a dead one
    saved,          \* a clone kept by the program, or by a WithContext future
    guardCx,        \* history: the context the guard was given for
    before,         \* history: <<g, h>> when g was attached before h, both live
    droppedInPush,  \* history: spans and values dropped inside push
    droppedInPop    \* history: spans and values dropped inside pop_id

historyVars == <<guardCx, before, droppedInPush, droppedInPop>>
vars == <<currentCx, stack, guardPos, saved, historyVars>>

-----------------------------------------------------------------------------
(* Guards whose attach succeeded. *)
Attached == {g \in Guards : guardPos[g] \in 1..(MaxPos - 1)}

(* The context at a position: BASE_POS is the empty context, the current    *)
(* one is at position Len(stack).                                           *)
ContextAt(p) == IF p = Len(stack) THEN currentCx ELSE stack[p + 1]

(* What a context refers to, and everything some context refers to. *)
Resources(cx) == {cx.span, cx.entry} \ {NoSpan, NoEntry}
Referenced ==
    Resources(currentCx) \cup Resources(saved)
        \cup UNION {Resources(stack[i]) : i \in {j \in DOMAIN stack : stack[j] # Hole}}

(* with_value, with_span and the like replace one of the two by a new one   *)
(* and share the other with the current context or start from nothing.      *)
Derived ==
    [span : {currentCx.span, NoSpan} \cup (Spans \ Referenced),
     entry : {currentCx.entry, NoEntry} \cup (Entries \ Referenced)]

Init ==
    /\ currentCx = Empty /\ stack = <<>> /\ saved = Empty
    /\ guardPos = [g \in Guards |-> 0]
    /\ guardCx = [g \in Guards |-> Empty]
    /\ before = {} /\ droppedInPush = {} /\ droppedInPop = {}

-----------------------------------------------------------------------------
(* Context::attach *)

CanPush == Len(stack) + 1 < MaxPos

Push(g, cx) ==
    /\ guardPos[g] = 0
    /\ CanPush
    /\ stack' = Append(stack, currentCx)
    /\ currentCx' = cx
    /\ guardPos' = [guardPos EXCEPT ![g] = Len(stack) + 1]
    /\ guardCx' = [guardCx EXCEPT ![g] = cx]
    /\ before' = before \cup (Attached \X {g})
    /\ UNCHANGED <<saved, droppedInPush, droppedInPop>>

(* Too many contexts: the attach fails and push drops its argument. *)
PushRefused(g, cx) ==
    /\ guardPos[g] = 0
    /\ ~CanPush
    /\ guardPos' = [guardPos EXCEPT ![g] = MaxPos]
    /\ droppedInPush' = droppedInPush \cup (Resources(cx) \ Referenced)
    /\ UNCHANGED <<currentCx, stack, saved, guardCx, before, droppedInPop>>

Attach(g) == \E cx \in Derived \cup {saved} : Push(g, cx) \/ PushRefused(g, cx)

(* Context::current() keeps a clone; a clone is dropped outside any borrow. *)
Save ==
    /\ saved' \in {currentCx, Empty}
    /\ UNCHANGED <<currentCx, stack, guardPos, historyVars>>

-----------------------------------------------------------------------------
(* ContextGuard::drop *)

(* pop_id hands the span out and drops the rest of the context. *)
DroppedByPop(cx) == {cx.entry} \ {NoEntry}

Forget(g) ==
    /\ guardPos' = [guardPos EXCEPT ![g] = 0]
    /\ guardCx' = [guardCx EXCEPT ![g] = Empty]
    /\ before' = {pair \in before : g \notin {pair[1], pair[2]}}
    /\ UNCHANGED <<saved, droppedInPush>>

(* The top of the stack: holes under it go too, the next context becomes    *)
(* current.                                                                 *)
PopTop(g) ==
    /\ guardPos[g] # MaxPos
    /\ guardPos[g] > 0
    /\ guardPos[g] = Len(stack)
    /\ \E n \in DOMAIN stack :
          /\ stack[n] # Hole
          /\ \A m \in (n + 1)..Len(stack) : stack[m] = Hole
          /\ currentCx' = stack[n]
          /\ stack' = SubSeq(stack, 1, n - 1)
    /\ Forget(g)
    /\ droppedInPop' = droppedInPop \cup (DroppedByPop(currentCx) \ Referenced')

(* Slip: the stack closes up. *)
RemoveBelow(g) ==
    /\ guardPos[g] \in 1..(Len(stack) - 1)
    /\ stack' = SubSeq(stack, 1, guardPos[g]) \o SubSeq(stack, guardPos[g] + 2, Len(stack))
    /\ UNCHANGED <<currentCx, droppedInPop>>
    /\ Forget(g)

(* Slip: the context below comes back. *)
RestorePrevious(g) ==
    /\ guardPos[g] \in 1..(Len(stack) - 1)
    /\ stack[guardPos[g]] # Hole
    /\ currentCx' = stack[guardPos[g]]
    /\ stack' = SubSeq(stack, 1, guardPos[g] - 1)
    /\ UNCHANGED droppedInPop
    /\ Forget(g)

(* Slip: the context stays. *)
KeepBelow(g) ==
    /\ guardPos[g] \in 1..(Len(stack) - 1)
    /\ UNCHANGED <<currentCx, stack, droppedInPop>>
    /\ Forget(g)

(* Out of order: a hole is left.  A position beyond the stack would be      *)
(* ignored; GuardsValid says that no guard has one.                         *)
PopBelow(g) ==
    /\ guardPos[g] \in 1..(Len(stack) - 1)
    /\ stack' = [stack EXCEPT ![guardPos[g] + 1] = Hole]
    /\ UNCHANGED currentCx
    /\ Forget(g)
    /\ droppedInPop' = droppedInPop \cup (DroppedByPop(stack[guardPos[g] + 1]) \ Referenced')

(* The guard of a refused attach. *)
DropRefused(g) ==
    /\ guardPos[g] = MaxPos
    /\ Forget(g)
    /\ UNCHANGED <<currentCx, stack, droppedInPop>>

DropGuard(g) == PopTop(g) \/ PopBelow(g) \/ DropRefused(g)

Next == Save \/ \E g \in Guards : Attach(g) \/ DropGuard(g)

Spec == Init /\ [][Next]_vars

-----------------------------------------------------------------------------
(* Properties *)

(* Types; the stack never outgrows its positions. *)
TypeOK ==
    /\ currentCx \in Context /\ saved \in Context
    /\ stack \in Seq(Context \cup {Hole})
    /\ Len(stack) < MaxPos
    /\ guardPos \in [Guards -> 0..MaxPos]
    /\ guardCx \in [Guards -> Context]
    /\ before \subseteq Guards \X Guards
    /\ droppedInPush \subseteq Spans \cup Entries
    /\ droppedInPop \subseteq Spans \cup Entries

(* "the ids are always valid and ... always within the bounds of the        *)
(* stack": a live guard's position still holds the very context it was      *)
(* given for, no two guards share one, and the base is never a hole (push,  *)
(* pop_id).                                                                 *)
GuardsValid ==
    /\ ContextAt(0) = Empty
    /\ \A g \in Attached :
          guardPos[g] <= Len(stack) /\ ContextAt(guardPos[g]) = guardCx[g]
    /\ \A g, h \in Attached : guardPos[g] = guardPos[h] => g = h

(* Nothing outlives its guard: every context above the base belongs to a    *)
(* live guard, so a detached span is not kept alive by the stack.           *)
NothingRetained ==
    \A p \in 1..Len(stack) :
        ContextAt(p) # Hole => \E g \in Attached : guardPos[g] = p

(* Whatever the order of the drops, the current context is the one attached *)
(* last among those still attached, and the empty one when there is none.   *)
CurrentIsNewest ==
    /\ Attached = {} => currentCx = Empty
    /\ \A g \in Attached :
          (\A h \in Attached \ {g} : <<h, g>> \in before) => currentCx = guardCx[g]

(* "prevents panics that would otherwise occur from attempting to borrow    *)
(* the context while it's being mutably borrowed for cleanup": no value of  *)
(* a context is dropped, its destructor run, while the RefCell is borrowed. *)
NothingDroppedInBorrow == droppedInPush = {} /\ droppedInPop = {}
=============================================================================
