---------------------------- MODULE CallConstants ----------------------------
(* What the two stores of a federated call share: its deadlines, and bounds.  *)
EXTENDS Naturals

CONSTANTS PrepareBy,     \* end of the reservation
          ExecuteBy,     \* execution deadline
          MaxNow,        \* bound on both clocks
          MaxAuthority,  \* bound on the revisions of an authority
          Refused,       \* an answer: it did not happen
          Unknown,       \* an answer: it may have happened
          None

ASSUME DeadlineAssumption ==
  PrepareBy \in Nat /\ ExecuteBy \in Nat /\ MaxNow \in Nat /\ MaxAuthority \in Nat
==============================================================================
