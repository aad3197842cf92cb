------------------------------- MODULE Channel -------------------------------
(* The bounded channel of stream.rs: a ring of caller-provided slots.      *)
EXTENDS ChannelConstants, Sequences

VARIABLES slots, head, len, end, reply

vars == <<slots, head, len, end, reply>>

Init ==
    /\ slots = [i \in 0 .. RingSize - 1 |-> Empty]
    /\ head = 0 /\ len = 0 /\ end = Empty
    /\ reply = <<"Pending">>

(* Fault: a close does not stop the producer. *)
try_send_when_closed(v) ==
    IF len = RingSize
    THEN reply' = <<"Full", v>> /\ UNCHANGED <<slots, head, len, end>>
    ELSE /\ slots' = [slots EXCEPT ![(head + len) % RingSize] = v]
         /\ len' = len + 1
         /\ reply' = <<"Ok">>
         /\ UNCHANGED <<head, end>>

try_send(v) ==
    IF end # Empty
    THEN reply' = <<"Closed", v>> /\ UNCHANGED <<slots, head, len, end>>
    ELSE IF len = RingSize
    THEN reply' = <<"Full", v>> /\ UNCHANGED <<slots, head, len, end>>
    ELSE /\ slots' = [slots EXCEPT ![(head + len) % RingSize] = v]
         /\ len' = len + 1
         /\ reply' = <<"Ok">>
         /\ UNCHANGED <<head, end>>

Ended == IF end = Empty THEN <<"Pending">> ELSE <<"End", end>>

receive ==
    /\ IF len > 0
       THEN /\ slots' = [slots EXCEPT ![head] = Empty]
            /\ head' = (head + 1) % RingSize
            /\ len' = len - 1
            /\ reply' = IF slots[head] # Empty THEN <<"Item", slots[head]>> ELSE Ended
       ELSE reply' = Ended /\ UNCHANGED <<slots, head, len>>
    /\ UNCHANGED end

close(e) ==
    /\ end' = IF end = Empty THEN e ELSE end
    /\ reply' = <<"Ok">>
    /\ UNCHANGED <<slots, head, len>>

Next == receive \/ (\E v \in Items : try_send(v)) \/ (\E e \in Ends : close(e))

Spec == Init /\ [][Next]_vars

-----------------------------------------------------------------------------
(* The slots that hold items are the `len` slots from `head` on, around    *)
(* the end of the array, and no others.                                    *)
RingWellFormed ==
    /\ slots \in [0 .. RingSize - 1 -> Items \cup {Empty}]
    /\ len \in 0 .. RingSize /\ end \in Ends \cup {Empty}
    /\ head \in 0 .. RingSize - 1 \/ head = 0
    /\ \A i \in 0 .. RingSize - 1 :
          slots[i] # Empty <=> (head <= i /\ i < head + len) \/ i + RingSize < head + len

(* The buffered values, oldest first. *)
Buffered == [i \in 1 .. len |-> slots[(head + i - 1) % RingSize]]

F == INSTANCE Fifo
       WITH Capacity <- RingSize, None <- Empty, queue <- Buffered, ending <- end

(* The ring implements a bounded queue with a sticky end: nothing is lost,  *)
(* duplicated or reordered when the indices wrap.                           *)
ImplementsFifo == F!FSpec
=============================================================================
