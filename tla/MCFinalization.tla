--------------------------- MODULE MCFinalization ---------------------------
(* A request R with an actor A below it. *)
EXTENDS Finalization, TLC

RequestAndActor == [p \in {"R", "A"} |-> IF p = "R" THEN None ELSE "R"]

OneEach == [p \in Procs |-> IF p \in Actors THEN 1 ELSE 0]

(* Hosts have no identity that the specification looks at. *)
HostSymmetry == Permutations(Hosts)
=============================================================================
