---------------------------- MODULE ChannelProofs ----------------------------
(* The ring of stream.rs keeps its items where its indices say, and so      *)
(* implements a bounded queue, for every capacity.                          *)
EXTENDS Channel, SequenceTheorems, TLAPS

(* An index that is less than twice the capacity wraps at most once. *)
LEMMA Wrap ==
    ASSUME NEW c \in Nat \ {0}, NEW x \in 0 .. 2 * c - 1
    PROVE  x % c = IF x < c THEN x ELSE x - c
BY SMTT(30)

(* The next slot to write lies in the ring, at the end of the occupied run. *)
LEMMA InRing ==
    ASSUME NEW c \in Nat \ {0}, NEW h \in 0 .. c - 1, NEW n \in 0 .. c
    PROVE  /\ (h + n) % c \in 0 .. c - 1
           /\ (h + n) % c = IF h + n < c THEN h + n ELSE h + n - c
<1>1. SUFFICES ASSUME NEW x \in 0 .. 2 * c - 1, x = h + n
               PROVE  x % c \in 0 .. c - 1 /\ x % c = IF x < c THEN x ELSE x - c
  OBVIOUS
<1>2. x % c = IF x < c THEN x ELSE x - c
  BY Wrap, Zenon
<1> QED
  BY <1>2

(* The ring stays well formed, whatever calls are made of the channel. *)
THEOREM RingCorrect == Spec => []RingWellFormed
<1>1. Init => RingWellFormed
  BY ChannelAssumption DEF Init, RingWellFormed
<1>2. RingWellFormed /\ [Next]_vars => RingWellFormed'
  <2> SUFFICES ASSUME RingWellFormed, [Next]_vars
               PROVE  RingWellFormed'
    BY Zenon
  <2> USE ChannelAssumption
  <2>1. CASE receive
    <3>1. CASE len = 0
      BY <2>1, <3>1 DEF receive, RingWellFormed
    <3>2. CASE len # 0
      <4>1. RingSize \in Nat \ {0} /\ head \in 0 .. RingSize - 1 /\ 1 \in 0 .. RingSize
        BY <3>2 DEF RingWellFormed
      <4>2. (head + 1) % RingSize = IF head + 1 < RingSize THEN head + 1 ELSE head + 1 - RingSize
        BY <4>1, InRing, Zenon
      <4>3. /\ slots' = [slots EXCEPT ![head] = Empty]
            /\ len' = len - 1 /\ end' = end
            /\ head' = IF head + 1 < RingSize THEN head + 1 ELSE head + 1 - RingSize
        BY <2>1, <3>2, <4>2 DEF receive, RingWellFormed
      <4> QED
        BY <3>2, <4>1, <4>3 DEF RingWellFormed
    <3> QED
      BY <3>1, <3>2, Zenon
  <2>2. ASSUME NEW v \in Items, try_send(v)
        PROVE  RingWellFormed'
    <3>1. CASE end # Empty \/ len = RingSize
      BY <2>2, <3>1, Zenon DEF try_send, RingWellFormed
    <3>2. CASE end = Empty /\ len # RingSize
      <4>1. RingSize \in Nat \ {0} /\ head \in 0 .. RingSize - 1 /\ len \in 0 .. RingSize
        BY <3>2 DEF RingWellFormed
      <4>2. (head + len) % RingSize = IF head + len < RingSize THEN head + len
                                      ELSE head + len - RingSize
        BY <4>1, InRing, Zenon
      <4>3. (head + len) % RingSize \in 0 .. RingSize - 1
        BY <4>1, <4>2
      <4> DEFINE j == (head + len) % RingSize
      <4>4. /\ slots' = [slots EXCEPT ![j] = v]
            /\ len' = len + 1 /\ head' = head /\ end' = end
        BY <2>2, <3>2, Zenon DEF try_send
      <4>5. j \in 0 .. RingSize - 1 /\ j = IF head + len < RingSize THEN head + len
                                           ELSE head + len - RingSize
        BY <4>2, <4>3, Zenon
      <4> HIDE DEF j
      <4> QED
        BY <2>2, <3>2, <4>1, <4>4, <4>5 DEF RingWellFormed
    <3> QED
      BY <3>1, <3>2, Zenon
  <2>3. ASSUME NEW e \in Ends, close(e)
        PROVE  RingWellFormed'
    BY <2>3, Zenon DEF close, RingWellFormed
  <2>4. CASE UNCHANGED vars
    BY <2>4, Zenon DEF vars, RingWellFormed
  <2> QED
    BY <2>1, <2>2, <2>3, <2>4, Zenon DEF Next
<1> QED
  BY <1>1, <1>2, PTL DEF Spec

(* Where the i-th buffered item is when the oldest is at h. *)
At(h, i) == IF h + i - 1 < RingSize THEN h + i - 1 ELSE h + i - 1 - RingSize

(* The buffer is a sequence of items, read from the slots in ring order. *)
LEMMA BufferedItems ==
    ASSUME RingWellFormed
    PROVE  /\ Buffered = [i \in 1 .. len |-> slots[At(head, i)]]
           /\ Buffered \in Seq(Items) /\ Len(Buffered) = len
           /\ \A i \in 1 .. len : At(head, i) \in 0 .. RingSize - 1 /\ slots[At(head, i)] \in Items
<1> USE ChannelAssumption
<1>1. ASSUME NEW i \in 1 .. len
      PROVE  /\ (head + i - 1) % RingSize = At(head, i)
             /\ At(head, i) \in 0 .. RingSize - 1 /\ slots[At(head, i)] \in Items
  <2>1. RingSize \in Nat \ {0} /\ head \in 0 .. RingSize - 1 /\ i - 1 \in 0 .. RingSize
    BY DEF RingWellFormed
  <2>2. (head + (i - 1)) % RingSize = At(head, i)
    BY <2>1, InRing, Zenon DEF At
  <2>3. head + (i - 1) = head + i - 1
    BY <2>1, Zenon
  <2>4. At(head, i) \in 0 .. RingSize - 1 /\ slots[At(head, i)] # Empty
    BY <2>1 DEF At, RingWellFormed
  <2> QED
    BY <2>2, <2>3, <2>4, Zenon DEF RingWellFormed
<1>2. Buffered = [i \in 1 .. len |-> slots[At(head, i)]]
  BY <1>1, Zenon DEF Buffered
<1>3. len \in Nat
  BY DEF RingWellFormed
<1> QED
  BY <1>1, <1>2, <1>3

(* Receiving takes the head of the buffer. *)
LEMMA ReceiveStep ==
    ASSUME RingWellFormed, RingWellFormed', receive
    PROVE  F!Receive
<1> USE ChannelAssumption
<1>1. CASE len = 0
  <2>1. Buffered = <<>> /\ Buffered' = Buffered
    BY <1>1 DEF Buffered, receive
  <2> QED
    BY <1>1, <2>1 DEF receive, F!Receive, Ended
<1>2. CASE len # 0
  <2>1. RingSize \in Nat \ {0} /\ head \in 0 .. RingSize - 1 /\ len \in 1 .. RingSize
    BY <1>2 DEF RingWellFormed
  <2>2. head' = IF head + 1 < RingSize THEN head + 1 ELSE head + 1 - RingSize
    <3>1. 1 \in 0 .. RingSize
      BY <2>1
    <3>2. (head + 1) % RingSize = IF head + 1 < RingSize THEN head + 1 ELSE head + 1 - RingSize
      BY <2>1, <3>1, InRing, Zenon
    <3>3. head' = (head + 1) % RingSize
      BY <1>2, <2>1 DEF receive
    <3> QED
      BY <3>2, <3>3, Zenon
  <2>3. Buffered # <<>> /\ Head(Buffered) = slots[head] /\ slots[head] # Empty
    BY <2>1, BufferedItems DEF At, RingWellFormed
  <2>4. \A i \in 1 .. len - 1 : slots'[At(head', i)] = slots[At(head, i + 1)]
    BY <1>2, <2>1, <2>2 DEF receive, At, RingWellFormed
  <2>5. len' = len - 1
    BY <1>2, <2>1 DEF receive
  <2>6. Buffered' = Tail(Buffered)
    <3>1. /\ (Buffered = [i \in 1 .. len |-> slots[At(head, i)]])'
          /\ (Buffered \in Seq(Items) /\ Len(Buffered) = len)'
      BY BufferedItems, PTL
    <3>2. /\ Buffered = [i \in 1 .. len |-> slots[At(head, i)]]
          /\ Buffered \in Seq(Items) /\ Len(Buffered) = len
      BY BufferedItems, Zenon
    <3> SUFFICES ASSUME NEW old, NEW new,
                        old \in Seq(Items), Len(old) = len, old # <<>>,
                        new \in Seq(Items), Len(new) = len - 1,
                        \A i \in 1 .. len - 1 : new[i] = old[i + 1]
                 PROVE  new = Tail(old)
      BY <2>1, <2>3, <2>4, <2>5, <3>1, <3>2
    <3>3. /\ Tail(old) \in Seq(Items) /\ Len(Tail(old)) = len - 1
          /\ \A i \in 1 .. len - 1 : Tail(old)[i] = old[i + 1]
      BY HeadTailProperties, Zenon
    <3> QED
      BY <3>3, SeqEqual, Zenon
  <2> QED
    BY <1>2, <2>1, <2>3, <2>6 DEF receive, F!Receive
<1> QED
  BY <1>1, <1>2, Zenon

(* Sending appends to the buffer, or gives the value back. *)
LEMMA SendStep ==
    ASSUME RingWellFormed, RingWellFormed', NEW v \in Items, try_send(v)
    PROVE  F!TrySend(v)
<1> USE ChannelAssumption
<1>0. Len(Buffered) = len /\ len \in 0 .. RingSize
  BY BufferedItems, Zenon DEF RingWellFormed
<1>1. CASE end # Empty \/ len = RingSize
  <2>1. Buffered' = Buffered
    BY <1>1, Zenon DEF Buffered, try_send
  <2> QED
    BY <1>0, <1>1, <2>1 DEF try_send, F!TrySend
<1>2. CASE end = Empty /\ len # RingSize
  <2>1. RingSize \in Nat \ {0} /\ head \in 0 .. RingSize - 1 /\ len \in 0 .. RingSize - 1
    BY <1>2 DEF RingWellFormed
  <2>2. (head + len) % RingSize = At(head, len + 1)
    <3>1. (head + len) % RingSize = IF head + len < RingSize THEN head + len
                                    ELSE head + len - RingSize
      BY <2>1, <1>0, InRing, Zenon
    <3>2. At(head, len + 1) = IF head + len < RingSize THEN head + len
                              ELSE head + len - RingSize
      BY <2>1 DEF At
    <3> QED
      BY <3>1, <3>2
  <2>3. /\ slots' = [slots EXCEPT ![At(head, len + 1)] = v]
        /\ len' = len + 1 /\ head' = head /\ end' = end /\ reply' = <<"Ok">>
    BY <1>2, <2>2, Zenon DEF try_send
  <2>4. /\ slots'[At(head', len + 1)] = v
        /\ \A i \in 1 .. len : slots'[At(head', i)] = slots[At(head, i)]
    <3>1. At(head', len + 1) = At(head, len + 1) /\ At(head, len + 1) \in 0 .. RingSize - 1
      BY <2>1, <2>3 DEF At
    <3>2. \A i \in 1 .. len : At(head', i) = At(head, i) /\ At(head, i) \in 0 .. RingSize - 1 /\ At(head, i) # At(head, len + 1)
      BY <2>1, <2>3 DEF At
    <3>3. slots \in [0 .. RingSize - 1 -> Items \cup {Empty}]
      BY Zenon DEF RingWellFormed
    <3> QED
      BY <2>3, <3>1, <3>2, <3>3, Zenon
  <2>5. Buffered' = Append(Buffered, v)
    <3>1. /\ (Buffered = [i \in 1 .. len |-> slots[At(head, i)]])'
          /\ (Buffered \in Seq(Items) /\ Len(Buffered) = len)'
      BY BufferedItems, PTL
    <3>2. /\ Buffered = [i \in 1 .. len |-> slots[At(head, i)]]
          /\ Buffered \in Seq(Items) /\ Len(Buffered) = len
      BY BufferedItems, Zenon
    <3>5. /\ Len(Buffered)' = len + 1 /\ Buffered'[len + 1] = v
          /\ \A i \in 1 .. len : Buffered'[i] = Buffered[i]
      <4>1. Buffered' = [i \in 1 .. len + 1 |-> slots'[At(head', i)]]
        BY <2>3, <3>1, Zenon
      <4>2. Buffered'[len + 1] = v
        BY <2>1, <2>4, <4>1
      <4>3. \A i \in 1 .. len : Buffered'[i] = slots'[At(head', i)] /\ Buffered[i] = slots[At(head, i)]
        BY <2>1, <4>1, <3>2
      <4> QED
        BY <2>3, <2>4, <3>1, <4>2, <4>3, Zenon
    <3> SUFFICES ASSUME NEW old, NEW new,
                        old \in Seq(Items), Len(old) = len,
                        new \in Seq(Items), Len(new) = len + 1, new[len + 1] = v,
                        \A i \in 1 .. len : new[i] = old[i]
                 PROVE  new = Append(old, v)
      BY <3>1, <3>2, <3>5, Zenon
    <3>3. /\ Append(old, v) \in Seq(Items) /\ Len(Append(old, v)) = len + 1
          /\ \A i \in 1 .. len : Append(old, v)[i] = old[i]
          /\ Append(old, v)[len + 1] = v
      BY AppendProperties
    <3>4. \A i \in 1 .. len + 1 : new[i] = Append(old, v)[i]
      BY <2>1, <3>3
    <3> QED
      BY <3>3, <3>4, SeqEqual, Zenon
  <2> QED
    BY <1>0, <1>2, <2>1, <2>3, <2>5 DEF F!TrySend
<1> QED
  BY <1>1, <1>2, Zenon

(* The ring of stream.rs implements a bounded FIFO with a sticky end, for   *)
(* every capacity (zero included) and every type of item.                   *)
THEOREM FifoImplemented == Spec => ImplementsFifo
<1>1. Init => F!FInit
  BY DEF Init, F!FInit, Buffered
<1>2. RingWellFormed /\ RingWellFormed' /\ [Next]_vars => [F!FNext]_<<Buffered, end, reply>>
  <2> SUFFICES ASSUME RingWellFormed, RingWellFormed', [Next]_vars
               PROVE  [F!FNext]_<<Buffered, end, reply>>
    BY Zenon
  <2>1. CASE receive
    BY <2>1, ReceiveStep, Zenon DEF F!FNext
  <2>2. ASSUME NEW v \in Items, try_send(v)
        PROVE  F!FNext
    BY <2>2, SendStep, Zenon DEF F!FNext
  <2>3. ASSUME NEW e \in Ends, close(e)
        PROVE  F!FNext
    BY <2>3, Zenon DEF close, F!FNext, F!Close, Buffered
  <2>4. CASE UNCHANGED vars
    BY <2>4, Zenon DEF vars, Buffered
  <2> QED
    BY <2>1, <2>2, <2>3, <2>4, Zenon DEF Next
<1> QED
  BY <1>1, <1>2, RingCorrect, PTL DEF Spec, ImplementsFifo, F!FSpec
=============================================================================
