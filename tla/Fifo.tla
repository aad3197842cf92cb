-------------------------------- MODULE Fifo --------------------------------
(* What a bounded stream promises: values come out once, in the order they *)
(* went in; a full or closed stream gives the value back; the first close  *)
(* decides the end, which is seen only after every value.                  *)
EXTENDS Integers, Sequences

CONSTANTS Capacity, Items, Ends, None

VARIABLES queue, ending, reply

FInit == queue = <<>> /\ ending = None /\ reply = <<"Pending">>

TrySend(v) ==
    /\ reply' = CASE ending # None -> <<"Closed", v>>
                  [] ending = None /\ Len(queue) = Capacity -> <<"Full", v>>
                  [] OTHER -> <<"Ok">>
    /\ queue' = IF ending = None /\ Len(queue) < Capacity THEN Append(queue, v) ELSE queue
    /\ UNCHANGED ending

Receive ==
    /\ reply' = CASE queue # <<>> -> <<"Item", Head(queue)>>
                  [] queue = <<>> /\ ending # None -> <<"End", ending>>
                  [] OTHER -> <<"Pending">>
    /\ queue' = IF queue = <<>> THEN queue ELSE Tail(queue)
    /\ UNCHANGED ending

Close(e) ==
    /\ ending' = IF ending = None THEN e ELSE ending
    /\ reply' = <<"Ok">>
    /\ UNCHANGED queue

FNext == Receive \/ (\E v \in Items : TrySend(v)) \/ (\E e \in Ends : Close(e))

FSpec == FInit /\ [][FNext]_<<queue, ending, reply>>
=============================================================================
