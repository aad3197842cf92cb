------------------------------ MODULE MCMachine ------------------------------
(* Small programs for Machine: each brings together the constructs whose   *)
(* interplay is in question.                                               *)
EXTENDS Machine

Leaf(kind) == [kind |-> kind, next |-> None]

Literal(v) == [kind |-> "Literal", value |-> v, next |-> None]

Race(l, r) == [kind |-> "Fork", join |-> "Race", left |-> l, right |-> r, next |-> None]

All(l, r) == [kind |-> "Fork", join |-> "All", left |-> l, right |-> r, next |-> None]

Finally(body, cleanup) ==
    [kind |-> "Finally", body |-> body, cleanup |-> cleanup, next |-> None]

Catch(body, recover) == [kind |-> "Catch", body |-> body, recover |-> recover, next |-> None]

Let(slot, value, body) ==
    [kind |-> "Let", slot |-> slot, value |-> value, body |-> body, next |-> None]

(* A caught, cleaned-up request, then a scope that reads a binding. *)
Sequential ==
    [entry |-> 1, resumes |-> {5},
     nodes |-> << Catch(2, 5),
                  [Finally(3, 4) EXCEPT !.next = 6],
                  Leaf("Request"), Leaf("Request"), Literal("five"),
                  Let("x", 7, 8), Leaf("Input"),
                  [kind |-> "Scope", body |-> 9, next |-> None],
                  [kind |-> "Load", slot |-> "x", next |-> None] >>]

(* A bounded loop over a request, a branch, a conditional and a call. *)
Control ==
    [entry |-> 1, resumes |-> {},
     nodes |-> << [kind |-> "Then", first |-> 2, then |-> 6, next |-> None],
                  [kind |-> "While", condition |-> 3, body |-> 4, max |-> 1, next |-> 5],
                  Leaf("Request"), Leaf("Input"),
                  [kind |-> "Branch", condition |-> 3, yes |-> 4, no |-> 7, next |-> None],
                  [kind |-> "If", yes |-> 4, no |-> 8, next |-> None],
                  [kind |-> "Fail", error |-> "failed", next |-> None],
                  [kind |-> "Call", entry |-> 9, next |-> None],
                  [kind |-> "Load", slot |-> "x", next |-> None] >>]

(* A race of a request with a request that has cleanup. *)
Racing ==
    [entry |-> 1, resumes |-> {},
     nodes |-> << [Race(2, 3) EXCEPT !.next = 6], Leaf("Request"), Finally(4, 5),
                  Leaf("Request"), Leaf("Request"), Leaf("Input") >>]

(* A cleanup that races two requests. *)
CleanupRace ==
    [entry |-> 1, resumes |-> {},
     nodes |-> << Finally(2, 3), Leaf("Request"), Race(4, 5), Leaf("Request"), Leaf("Request") >>]

(* A binding and a scope around a join, one branch of which races. *)
Nested ==
    [entry |-> 1, resumes |-> {},
     nodes |-> << Let("x", 2, 3), Literal("five"),
                  All(4, 5),
                  Race(6, 7),
                  [kind |-> "Scope", body |-> 8, next |-> None],
                  [kind |-> "Load", slot |-> "x", next |-> None],
                  Leaf("Request"),
                  Let("x", 6, 6) >>]

(* Slots 3 and 4 are freed by one branch and taken by a race in slot 5. *)
Reusing ==
    [entry |-> 1, resumes |-> {},
     nodes |-> << All(2, 3), All(4, 4), All(5, 6), Literal("five"),
                  [Leaf("Request") EXCEPT !.next = 7], Leaf("Request"),
                  Race(8, 9), Leaf("Request"), Leaf("Request") >>]

(* A race of a branch that cleans up after a join with one that recovers. *)
Deep ==
    [entry |-> 1, resumes |-> {},
     nodes |-> << Race(2, 3), Finally(4, 5), Catch(6, 6),
                  All(6, 7), Leaf("Request"), Leaf("Request"), Literal("five") >>]

Ample == [tasks |-> 5, frames |-> 20, frames_per_task |-> 8, max_steps |-> None,
          cleanup_steps |-> 40, tickets |-> 20]

(* Every limit is reached. *)
Tight == [tasks |-> 3, frames |-> 4, frames_per_task |-> 3, max_steps |-> 12,
          cleanup_steps |-> 5, tickets |-> 2]

Run(programs, within) == {[image |-> p, limits |-> within] : p \in programs}

AllPrograms == {Sequential, Control, Racing, CleanupRace, Nested, Deep}

AllExecutions ==
    Run(AllPrograms, Ample) \cup Run(AllPrograms, Tight)
      \cup Run({Reusing}, [Ample EXCEPT !.tasks = 7, !.cleanup_steps = 60])

CleanupRaces == Run({Racing, CleanupRace}, Ample)

MCTruth(v) == IF v \in {"yes", "no"} THEN Ok(v = "yes") ELSE Err("Type")
MCPair(a, b) == Ok("both")
MCErrorValue(e) == e
TwoReplies == {Ok("yes"), Ok("no"), Err("refused")}
=============================================================================
