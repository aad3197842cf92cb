------------------------------ MODULE OnceLedger ------------------------------
(* What the request-evidence protocol promises of one request identity, for   *)
(* any number of attempts, retries and crashes: it is held by one attempt at  *)
(* a time, it may be let go only before anything ran, it runs at most once,   *)
(* and once its retry range is over it never runs again.                      *)
EXTENDS Naturals

CONSTANT Identities

VARIABLES phase,  \* "free", "held", "run", "settled" or "over"
          runs    \* executions started for an identity

Init ==
  /\ phase = [k \in Identities |-> "free"]
  /\ runs = [k \in Identities |-> 0]

Become(k, from, to) == phase[k] = from /\ phase' = [phase EXCEPT ![k] = to]

Hold(k) == Become(k, "free", "held") /\ UNCHANGED runs
LetGo(k) == (Become(k, "held", "free") \/ Become(k, "held", "over")) /\ UNCHANGED runs
Run(k) == Become(k, "held", "run") /\ runs[k] = 0 /\ runs' = [runs EXCEPT ![k] = 1]
Settle(k) == Become(k, "run", "settled") /\ UNCHANGED runs

(* A retry range ends: what is not under way is over.                         *)
End(K) ==
  /\ \A k \in K : phase[k] \in {"free", "settled"}
  /\ phase' = [k \in Identities |-> IF k \in K THEN "over" ELSE phase[k]]
  /\ UNCHANGED runs

Next ==
  \/ \E k \in Identities : Hold(k) \/ LetGo(k) \/ Run(k) \/ Settle(k)
  \/ \E K \in SUBSET Identities : End(K)

Spec == Init /\ [][Next]_<<phase, runs>>
==============================================================================
