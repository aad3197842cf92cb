------------------------------ MODULE FramePool ------------------------------
(***************************************************************************)
(* The shared pool of continuation frames (frame.rs).  All stacks live in  *)
(* one array.  A frame names the one below it; a released frame stays in   *)
(* its slot as Vacant and names the next free one, unless it was the       *)
(* highest in use: then the high-water mark `next_unused` comes down.      *)
(***************************************************************************)
EXTENDS Integers, Sequences, FiniteSets

CONSTANTS
    Tasks, Frames,
    Size,        \* slots supplied by the host
    MaxDepth,    \* frames_per_task
    None,        \* an empty slot, and no answer
    Vacant

VARIABLES slots, free_head, free_count, next_unused, stack, answer

vars == <<slots, free_head, free_count, next_unused, stack, answer>>

NONE == -1

Index == 0 .. Size - 1

pool == [slots |-> slots, free_head |-> free_head,
         free_count |-> free_count, next_unused |-> next_unused, stack |-> stack]

Init ==
    /\ slots = [i \in Index |-> None]
    /\ free_head = NONE /\ free_count = 0 /\ next_unused = 0
    /\ stack = [t \in Tasks |-> [top |-> NONE, depth |-> 0]]
    /\ answer = None

-----------------------------------------------------------------------------
(* Each operation as a function of the whole pool, so that calls compose. *)

CanHold(p, t, count) ==
    /\ p.stack[t].depth + count <= MaxDepth
    /\ count <= Size - p.next_unused + p.free_count

(* Fault: the free list is not counted on. *)
CanPushAboveMark(p, t) == p.stack[t].depth < MaxDepth /\ p.next_unused < Size

CanPush(p, t) ==
    /\ p.stack[t].depth < MaxDepth
    /\ p.free_head # NONE \/ p.next_unused < Size

Pushed(p, t, frame) ==
    LET fresh == p.free_head = NONE
        index == IF fresh THEN p.next_unused ELSE p.free_head
    IN [slots |-> [p.slots EXCEPT ![index] = [kind |-> frame, previous |-> p.stack[t].top]],
        free_head |-> IF fresh THEN NONE ELSE p.slots[index].previous,
        free_count |-> IF fresh THEN p.free_count ELSE p.free_count - 1,
        next_unused |-> IF fresh THEN p.next_unused + 1 ELSE p.next_unused,
        stack |-> [p.stack EXCEPT ![t] = [top |-> index, depth |-> @.depth + 1]]]

Popped(p, t) ==
    LET index == p.stack[t].top
        highest == index + 1 = p.next_unused
        lower == [p.stack EXCEPT ![t] = [top |-> p.slots[index].previous, depth |-> @.depth - 1]]
    IN IF highest
       THEN [p EXCEPT !.slots[index] = None, !.next_unused = @ - 1, !.stack = lower]
       ELSE [p EXCEPT !.slots[index] = [kind |-> Vacant, previous |-> p.free_head],
                      !.free_head = index, !.free_count = @ + 1, !.stack = lower]

Becomes(p) ==
    /\ slots' = p.slots /\ free_head' = p.free_head /\ free_count' = p.free_count
    /\ next_unused' = p.next_unused /\ stack' = p.stack

Refused == answer' = "Frames" /\ UNCHANGED <<slots, free_head, free_count, next_unused, stack>>

-----------------------------------------------------------------------------
Push(t, frame) ==
    IF CanPush(pool, t) THEN Becomes(Pushed(pool, t, frame)) /\ answer' = "Ok" ELSE Refused

(* Machine::complete enters a scope: one check, then two pushes, of which  *)
(* the second must not fail.                                               *)
PushTwo(t, first, second) ==
    LET one == Pushed(pool, t, first) IN
    IF ~CanHold(pool, t, 2) THEN Refused
    ELSE IF ~CanPush(pool, t) THEN Refused
    ELSE IF ~CanPush(one, t) THEN Becomes(one) /\ answer' = "Frames"
    ELSE Becomes(Pushed(one, t, second)) /\ answer' = "Ok"

Pop(t) ==
    IF stack[t].depth = 0
    THEN answer' = None /\ UNCHANGED <<slots, free_head, free_count, next_unused, stack>>
    ELSE Becomes(Popped(pool, t)) /\ answer' = slots[stack[t].top].kind

Next ==
    \E t \in Tasks :
        \/ Pop(t)
        \/ \E f \in Frames : Push(t, f)
        \/ \E f, g \in Frames : PushTwo(t, f, g)

Spec == Init /\ [][Next]_vars

-----------------------------------------------------------------------------
(* Properties *)

(* Following `previous` from i, the k-th slot. *)
Chain(i) ==
    LET at[k \in 0 .. Size] == IF k = 0 THEN i
                               ELSE IF at[k - 1] = NONE THEN NONE ELSE slots[at[k - 1]].previous
    IN at

(* The frames of task t, read off its chain. *)
StackOf(t) ==
    [k \in 1 .. stack[t].depth |-> slots[Chain(stack[t].top)[stack[t].depth - k]].kind]

S == INSTANCE Stacks WITH stacks <- [t \in Tasks |-> StackOf(t)]

(* The pool implements separate stacks with a common capacity; in           *)
(* particular a push is refused only when no slot is left, and entering a   *)
(* scope never stops after its first frame.                                 *)
ImplementsStacks == S!SSpec
=============================================================================
