-------------------------------- MODULE MCCore --------------------------------
(* The three structures that core builds in storage the host supplies: the    *)
(* table of handles, the ring of a channel and the pool of frames.  They are  *)
(* separate objects, so each behaviour is one of the three on its own.  The   *)
(* table has three slots, each used for two generations, so that chains of    *)
(* two delegations, reuse of a revoked parent's slot and retirement of        *)
(* exhausted slots all happen.                                                *)
EXTENDS HandleTable, ChannelConstants, TLC

CONSTANTS MaxIssued,    \* bound on the number of keys issued in a behaviour
          Tasks, Frames, Size, MaxDepth, Vacant

ASSUME PoolAssumption ==
    Size \in Nat /\ MaxDepth \in Nat /\ None \notin Frames /\ Vacant \notin Frames

VARIABLES
    subject,    \* which of the three this behaviour is about
    ring_slots, head, len, end, reply,
    pool_slots, free_head, free_count, next_unused, stack, answer

ringVars == <<ring_slots, head, len, end, reply>>
poolVars == <<pool_slots, free_head, free_count, next_unused, stack, answer>>

Ring == INSTANCE Channel WITH slots <- ring_slots
Pool == INSTANCE FramePool WITH slots <- pool_slots

CoreInit == Init /\ Ring!Init /\ Pool!Init /\ subject \in {"table", "ring", "pool"}

CoreNext ==
    \/ subject = "table" /\ Next /\ UNCHANGED <<subject, ringVars, poolVars>>
    \/ subject = "ring" /\ Ring!Next /\ UNCHANGED <<subject, vars, poolVars>>
    \/ subject = "pool" /\ Pool!Next /\ UNCHANGED <<subject, vars, ringVars>>

CoreSpec == CoreInit /\ [][CoreNext]_<<subject, vars, ringVars, poolVars>>

(* The ring of a channel implements a bounded queue with a sticky end.        *)
ImplementsFifo == Ring!ImplementsFifo

(* The frame pool implements separate stacks with a common capacity.          *)
ImplementsStacks == Pool!ImplementsStacks

Symmetry == Permutations(Owners) \cup Permutations(Tasks) \cup Permutations(Frames)

IssuedBound == Cardinality(DOMAIN lineage) <= MaxIssued
===============================================================================
