----------------------------- MODULE MCSubmission -----------------------------
(* Small instances of Submission: up to three attempts of two requests.       *)
EXTENDS Submission, TLC

CONSTANTS x, y, z, i1, i2, h1, h2, p, q

At(id, e) == [id |-> id, epoch |-> e]
Done == [outcome |-> "done", certain |-> TRUE, size |-> 1]
Failed == [outcome |-> "failed", certain |-> FALSE, size |-> 2]
Unknown == [outcome |-> "unknown", certain |-> TRUE, size |-> 1]
Huge == [outcome |-> "done", certain |-> TRUE, size |-> MaxRecordBytes + 1]

Setup(keys, hashes, classes, deadline, results, ops, n) ==
  [attempts |-> Requests, key |-> keys, hash |-> hashes, classes |-> classes, deadline |-> deadline,
   charge |-> [a \in Requests |-> 1], results |-> results, ops |-> ops, faults |-> n]

All(v) == [a \in Requests |-> v]
Same == All(At(i1, 0))
Two == x :> At(i1, 0) @@ y :> At(i2, 0) @@ z :> At(i1, 0)

\* one request sent again while its first attempts are dropped or left unknown
Retried == Setup(Same, All(h1), All({p}), All(Never), {Done, Failed}, {"drop", "crash"}, 2)
\* the retry range is closed and results are retired under retries
Closed == Setup(x :> At(i1, 0) @@ y :> At(i1, 0) @@ z :> At(i1, 1), All(h1), All({p}),
                All(Never), {Done, Failed, Unknown}, {"close", "retire"}, 1)
\* two requests compete for records, slots and budget; results of any size
Bounded == Setup(Two, All(h1), x :> {p} @@ y :> {q} @@ z :> {p, q}, All(Never),
                 {Done, Failed, Huge}, {"retire"}, 1)
\* another submission under the same key, and access withdrawn
Reused == Setup(Same, x :> h1 @@ y :> h2 @@ z :> h1, All({p}), All(Never), {Done},
                {"withdraw"}, 0)
\* deadlines and cancellation race the end of the execution
Timed == [Setup(Two, All(h1), x :> {p} @@ y :> {q} @@ z :> {p},
                x :> 1 @@ y :> 2 @@ z :> Never, {Done, Failed}, {"cancel", "drop", "clock"}, 1)
          EXCEPT !.attempts = {x, y}]

MCSetups == {Retried, Closed, Bounded, Reused, Timed}
==============================================================================
