------------------------------- MODULE Stacks -------------------------------
(* What the frame pool promises the machine: every task has a stack of its *)
(* own, and a push succeeds unless the task is at its depth limit or all   *)
(* the stacks together fill the pool.                                      *)
EXTENDS Integers, Sequences, Functions

CONSTANTS Tasks, Frames, Size, MaxDepth, None

VARIABLES
    stacks,    \* the frames of each task, top last
    answer     \* what the last call returned

Total == FoldFunction(LAMBDA stack, n : n + Len(stack), 0, stacks)

SInit == stacks = [t \in Tasks |-> <<>>] /\ answer = None

Push(t, frame) ==
    IF Len(stacks[t]) < MaxDepth /\ Total < Size
    THEN stacks' = [stacks EXCEPT ![t] = Append(@, frame)] /\ answer' = "Ok"
    ELSE answer' = "Frames" /\ UNCHANGED stacks

(* Both frames or neither. *)
PushTwo(t, first, second) ==
    IF Len(stacks[t]) + 2 <= MaxDepth /\ Total + 2 <= Size
    THEN stacks' = [stacks EXCEPT ![t] = @ \o <<first, second>>] /\ answer' = "Ok"
    ELSE answer' = "Frames" /\ UNCHANGED stacks

Pop(t) ==
    IF stacks[t] = <<>>
    THEN answer' = None /\ UNCHANGED stacks
    ELSE /\ answer' = stacks[t][Len(stacks[t])]
         /\ stacks' = [stacks EXCEPT ![t] = SubSeq(@, 1, Len(@) - 1)]

SNext ==
    \E t \in Tasks :
        \/ Pop(t)
        \/ \E f \in Frames : Push(t, f)
        \/ \E f, g \in Frames : PushTwo(t, f, g)

SSpec == SInit /\ [][SNext]_<<stacks, answer>>
=============================================================================
