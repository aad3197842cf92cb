-------------------------- MODULE ChannelConstants --------------------------
(* The parameters of a channel.                                            *)
EXTENDS Integers

CONSTANTS RingSize,      \* slots the host supplies
          Items, Ends,
          Empty          \* a slot without an item, a stream without an end

ASSUME ChannelAssumption == RingSize \in Nat /\ Empty \notin Items /\ Empty \notin Ends
=============================================================================
