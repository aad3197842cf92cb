--------------------------- MODULE SubmissionProofs ---------------------------
(* A request runs at most once, for any number of attempts, keys and epochs,  *)
(* under dropped callers, crashes and unknown commits: Submission implements  *)
(* OnceLedger.  Whoever is told its result is told the same one, and a        *)
(* confirmed cancellation leaves no other outcome.                            *)
EXTENDS Submission, TLAPS

(* What the proofs need to know of the shape of the state.                    *)
Shape ==
  /\ setup.key \in [Requests -> Keys]
  /\ rows = [k \in Keys |-> rows[k]]
  /\ pc = [a \in Requests |-> pc[a]]
  /\ job = [a \in Requests |-> job[a]]
  /\ runs \in [Keys -> Nat]
  /\ epoch \in Nat

(* The inductive invariant.                                                   *)
IInv == Shape /\ JobsMatch /\ Owned

core == <<setup, rows, epoch, runs>>

(* Two attempts that reserved under one identity are the same attempt: the    *)
(* pending row carries the reservation id of its owner.                       *)
LEMMA OneOwner ==
  ASSUME NEW a \in Requests, NEW b \in Requests, Mine(a) = Mine(b)
  PROVE  a = b
BY Zenon DEF Mine, Pending

(* An attempt may move on its own as long as it claims nothing new: nothing   *)
(* in the store and no other attempt is touched.                              *)
LEMMA Quiet ==
  ASSUME IInv, UNCHANGED core, NEW a \in Requests, NEW where, NEW j,
         pc' = [pc EXCEPT ![a] = where],
         job' = [job EXCEPT ![a] = j],
         HoldsAt(where, j) => HoldsAt(pc[a], job[a]),
         RanAt(where, j) => RanAt(pc[a], job[a]),
         Matches(where, j)
  PROVE  IInv'
<1>1. \A b \in Requests : /\ b # a => pc'[b] = pc[b] /\ job'[b] = job[b]
                          /\ pc'[a] = where /\ job'[a] = j
  BY Zenon DEF IInv, Shape
<1>2. Shape'
  BY Zenon DEF IInv, Shape, core
<1>3. JobsMatch'
  BY <1>1, Zenon DEF IInv, JobsMatch
<1>4. \A b \in Requests : Mine(b)' = Mine(b) /\ Key(b)' = Key(b)
  BY Zenon DEF core, Mine, Key, Pending
<1>5. \A b \in Requests :
        /\ HoldsAt(pc'[b], job'[b]) => HoldsAt(pc[b], job[b])
        /\ RanAt(pc'[b], job'[b]) => RanAt(pc[b], job[b])
  BY <1>1, Zenon
<1>6. Owned'
  BY <1>4, <1>5, Zenon DEF IInv, Owned, core
<1> QED
  BY <1>2, <1>3, <1>6, Zenon DEF IInv

(* The steps an attempt takes by itself, but for the start of its program.    *)
QuietStep(a) ==
  \/ Prepare(a) \/ StartReserve(a) \/ Reserved(a) \/ Lower(a) \/ Insert(a)
  \/ EnsureLive(a) \/ Evaluate(a) \/ Settle(a) \/ Settled(a)
  \/ StartRelease(a) \/ Released(a)

(* Such a step leaves the store alone and keeps the invariant.                *)
LEMMA QuietSteps ==
  ASSUME IInv, NEW a \in Requests, QuietStep(a)
  PROVE  UNCHANGED core /\ IInv'
<1> DEFINE To(where, j) == pc' = [pc EXCEPT ![a] = where] /\ job' = [job EXCEPT ![a] = j]
           Ok(where, j) == /\ HoldsAt(where, j) => HoldsAt(pc[a], job[a])
                           /\ RanAt(where, j) => RanAt(pc[a], job[a])
                           /\ Matches(where, j)
<1>1. UNCHANGED core
  BY Zenon DEF QuietStep, Prepare, StartReserve, Reserved, Lower, Insert, EnsureLive, Evaluate, Settle,
         Settled, StartRelease, Released, core, control, storeVars, Fault
<1>2. ASSUME NEW where, NEW j, To(where, j), Ok(where, j) PROVE IInv'
  BY <1>1, <1>2, Quiet, Zenon
<1>3. job = [job EXCEPT ![a] = job[a]] /\ Matches(pc[a], job[a])
  BY Zenon DEF IInv, Shape, JobsMatch
<1> HIDE DEF To, Ok
<1>4. CASE Prepare(a)
  <2>1. To("prepared", job[a]) \/ To("answered", job[a])
    BY <1>3, <1>4, Zenon DEF Prepare, Goto, Answer, To
  <2>2. Ok("prepared", job[a]) /\ Ok("answered", job[a])
    BY <1>3, <1>4, Zenon DEF Prepare, Ok, HoldsAt, RanAt, Matches, NoJob
  <2> QED
    BY <1>1, <1>2, <2>1, <2>2, Zenon
<1>5. CASE StartReserve(a)
  <2> DEFINE h == [op |-> "reserve", answer |-> "queued", seen |-> None]
  <2>1. To("reserving", h) \/ To("answered", job[a])
    BY <1>3, <1>5, Zenon DEF StartReserve, Goto, Answer, Leave, Hand, To
  <2>2. Ok("reserving", h) /\ Ok("answered", job[a])
    BY <1>3, <1>5, Zenon DEF StartReserve, Ok, HoldsAt, RanAt, Matches, NoJob
  <2> QED
    BY <1>1, <1>2, <2>1, <2>2, Zenon
<1>6. CASE Reserved(a)
  <2>1. CASE job[a].answer = "new"
    <3>1. To("reserved", NoJob)
      BY <1>6, <2>1, Zenon DEF Reserved, Goto, Taken, To
    <3>2. Ok("reserved", NoJob)
      BY <1>3, <1>6, <2>1, Zenon DEF Reserved, Ok, HoldsAt, RanAt, Matches, NoJob
    <3> QED
      BY <1>1, <1>2, <3>1, <3>2, Zenon
  <2>2. CASE job[a].answer # "new"
    <3>1. To("answered", NoJob)
      BY <1>6, <2>2, Zenon DEF Reserved, Goto, Answer, Leave, Taken, To
    <3>2. Ok("answered", NoJob)
      BY Zenon DEF Ok, HoldsAt, RanAt, Matches, NoJob
    <3> QED
      BY <1>1, <1>2, <3>1, <3>2, Zenon
  <2> QED
    BY <2>1, <2>2, Zenon
<1>7. CASE Lower(a)
  <2>1. To("budgeted", job[a]) \/ To("refused", job[a])
    BY <1>3, <1>7, Zenon DEF Lower, Goto, To
  <2>2. Ok("budgeted", job[a]) /\ Ok("refused", job[a])
    BY <1>3, <1>7, Zenon DEF Lower, Ok, HoldsAt, RanAt, Matches, NoJob
  <2> QED
    BY <1>1, <1>2, <2>1, <2>2, Zenon
<1>8. CASE Insert(a)
  <2>1. To("accepted", job[a]) \/ To("refused", job[a])
    BY <1>3, <1>8, Zenon DEF Insert, Goto, To
  <2>2. Ok("accepted", job[a]) /\ Ok("refused", job[a])
    BY <1>3, <1>8, Zenon DEF Insert, Ok, HoldsAt, RanAt, Matches, NoJob
  <2> QED
    BY <1>1, <1>2, <2>1, <2>2, Zenon
<1>9. CASE EnsureLive(a)
  <2>1. To("consuming", job[a]) \/ To("ended", job[a])
    BY <1>3, <1>9, Zenon DEF EnsureLive, Goto, To
  <2>2. Ok("consuming", job[a]) /\ Ok("ended", job[a])
    BY <1>3, <1>9, Zenon DEF EnsureLive, Ok, HoldsAt, RanAt, Matches, NoJob
  <2> QED
    BY <1>1, <1>2, <2>1, <2>2, Zenon
<1>10. CASE Evaluate(a)
  <2>1. To("settling", job[a])
    BY <1>3, <1>10, Zenon DEF Evaluate, Goto, To
  <2>2. Ok("settling", job[a])
    BY <1>3, <1>10, Zenon DEF Evaluate, Ok, HoldsAt, RanAt, Matches, NoJob
  <2> QED
    BY <1>1, <1>2, <2>1, <2>2, Zenon
<1>11. CASE Settle(a)
  <2> DEFINE h(out) == [op |-> "complete", answer |-> "queued", seen |-> out]
  <2>1. (\E out : To("completing", h(out))) \/ To("answered", job[a])
    BY <1>3, <1>11, Zenon DEF Settle, Unsettled, Goto, Answer, To
  <2>2. (\A out : Ok("completing", h(out))) /\ Ok("answered", job[a])
    BY <1>3, <1>11, Zenon DEF Settle, Ok, HoldsAt, RanAt, Matches, NoJob
  <2> HIDE DEF h
  <2> QED
    BY <1>1, <1>2, <2>1, <2>2, Zenon
<1>12. CASE Settled(a)
  <2>1. To("answered", NoJob)
    BY <1>12, Zenon DEF Settled, Unsettled, Goto, Answer, Taken, To
  <2>2. Ok("answered", NoJob)
    BY Zenon DEF Ok, HoldsAt, RanAt, Matches, NoJob
  <2> QED
    BY <1>1, <1>2, <2>1, <2>2, Zenon
<1>13. CASE StartRelease(a)
  <2> DEFINE h == [op |-> "release", answer |-> "queued", seen |-> None]
  <2>1. To("releasing", h) \/ To("endedReleasing", h) \/ To("answered", job[a])
    BY <1>3, <1>13, Zenon DEF StartRelease, Goto, Answer, Leave, Hand, To
  <2>2. Ok("releasing", h) /\ Ok("endedReleasing", h) /\ Ok("answered", job[a])
    BY <1>3, <1>13, Zenon DEF StartRelease, Ok, HoldsAt, RanAt, Matches, NoJob
  <2> QED
    BY <1>1, <1>2, <2>1, <2>2, Zenon
<1>14. CASE Released(a)
  <2>1. To("answered", NoJob)
    BY <1>14, Zenon DEF Released, Goto, Answer, Leave, Taken, To
  <2>2. Ok("answered", NoJob)
    BY Zenon DEF Ok, HoldsAt, RanAt, Matches, NoJob
  <2> QED
    BY <1>1, <1>2, <2>1, <2>2, Zenon
<1> QED
  BY <1>1, <1>4, <1>5, <1>6, <1>7, <1>8, <1>9, <1>10, <1>11, <1>12, <1>13, <1>14, Zenon DEF QuietStep

(* The start of a program takes the reservation from held to run; nobody else *)
(* can hold it.                                                               *)
LEMMA Starts ==
  ASSUME IInv, NEW a \in Requests, Execute(a)
  PROVE  /\ IInv'
         /\ UNCHANGED core \/ (/\ UNCHANGED <<setup, rows, epoch>>
                                /\ rows[Key(a)] = Mine(a) /\ runs[Key(a)] = 0
                                /\ runs' = [runs EXCEPT ![Key(a)] = 1])
<1> DEFINE To(where, j) == pc' = [pc EXCEPT ![a] = where] /\ job' = [job EXCEPT ![a] = j]
<1>1. job = [job EXCEPT ![a] = job[a]] /\ job[a] = NoJob /\ Key(a) \in Keys
  BY Zenon DEF IInv, Shape, JobsMatch, Matches, Execute, Key
<1>2. UNCHANGED <<setup, rows, epoch, job>>
  BY Zenon DEF Execute, control, storeVars
<1>3. rows[Key(a)] = Mine(a) /\ runs[Key(a)] = 0
  BY Zenon DEF IInv, Owned, HoldsAt, Execute
<1>4. CASE UNCHANGED runs
  <2>1. UNCHANGED core
    BY <1>2, <1>4, Zenon DEF core
  <2>2. To("ended", job[a]) \/ To("answered", job[a])
    <3>1. pc' # [pc EXCEPT ![a] = "executing"] \/ runs[Key(a)] + 1 # runs[Key(a)]
      BY <1>3
    <3>2. runs' # [runs EXCEPT ![Key(a)] = runs[Key(a)] + 1]
      BY <1>1, <1>3, <1>4 DEF IInv, Shape
    <3> QED
      BY <1>1, <1>2, <3>2, Zenon DEF Execute, Goto, Answer
  <2>3. /\ HoldsAt("ended", job[a]) => HoldsAt(pc[a], job[a])
        /\ HoldsAt("answered", job[a]) => HoldsAt(pc[a], job[a])
        /\ ~RanAt("ended", job[a]) /\ ~RanAt("answered", job[a])
        /\ Matches("ended", job[a]) /\ Matches("answered", job[a])
    BY <1>1 DEF Execute, HoldsAt, RanAt, Matches, NoJob
  <2> QED
    BY <2>1, <2>2, <2>3, Quiet, Zenon
<1>5. CASE runs' = [runs EXCEPT ![Key(a)] = @ + 1] /\ Goto(a, "executing")
  <2>1. runs' = [runs EXCEPT ![Key(a)] = 1]
    BY <1>3, <1>5
  <2>2. \A b \in Requests : Mine(b)' = Mine(b) /\ Key(b)' = Key(b) /\ Key(b) \in Keys
    BY <1>2, Zenon DEF Mine, Key, Pending, IInv, Shape
  <2>3. \A b \in Requests : b # a => pc'[b] = pc[b] /\ job'[b] = job[b]
    BY <1>2, <1>5, Zenon DEF IInv, Shape, Goto
  <2>4. pc'[a] = "executing" /\ job'[a] = NoJob
    BY <1>1, <1>2, <1>5, Zenon DEF IInv, Shape, Goto
  <2>5. Shape'
    <3>1. runs' \in [Keys -> Nat]
      BY <1>1, <2>1, Zenon DEF IInv, Shape
    <3>2. pc' = [b \in Requests |-> pc'[b]]
      BY <1>5, Zenon DEF IInv, Shape, Goto
    <3> QED
      BY <1>2, <3>1, <3>2, Zenon DEF IInv, Shape
  <2>6. JobsMatch'
    BY <2>3, <2>4, Zenon DEF IInv, JobsMatch, Matches
  <2>7. \A b \in Requests : b # a /\ Key(b) = Key(a) => rows[Key(b)] # Mine(b)
    BY <1>3, OneOwner, Zenon
  <2>8. runs'[Key(a)] = 1 /\ \A k \in Keys : k # Key(a) => runs'[k] = runs[k]
    BY <1>1, <2>1, Zenon DEF IInv, Shape
  <2>9. Mine(a).state = "pending"
    BY Zenon DEF Mine, Pending
  <2>10. \A b \in Requests :
           /\ HoldsAt(pc'[b], job'[b]) => rows[Key(b)] = Mine(b) /\ runs'[Key(b)] = 0
           /\ RanAt(pc'[b], job'[b]) => rows[Key(b)] = Mine(b) /\ runs'[Key(b)] = 1
    <3> TAKE b \in Requests
    <3>1. CASE b = a
      BY <1>3, <2>4, <2>8, <3>1 DEF HoldsAt, RanAt, NoJob
    <3>2. CASE b # a
      BY <2>2, <2>3, <2>7, <2>8, <3>2, Zenon DEF IInv, Owned
    <3> QED
      BY <3>1, <3>2, Zenon
  <2>11. \A k \in Keys :
           /\ rows[k].state \in {"absent", "pending", "committed", "retired"}
           /\ rows[k].state = "absent" /\ k.epoch >= epoch => runs'[k] = 0
    BY <1>3, <2>8, <2>9, Zenon DEF IInv, Owned
  <2>12. Owned'
    BY <1>2, <2>2, <2>10, <2>11, Zenon DEF Owned
  <2> QED
    BY <1>2, <1>3, <2>1, <2>5, <2>6, <2>12, Zenon DEF IInv
<1> QED
  BY <1>4, <1>5, Zenon DEF Execute

(* A transaction replaces a row on behalf of the attempt that handed it in.   *)
LEMMA Replaces ==
  ASSUME IInv, NEW a \in Requests, NEW j, NEW r,
         UNCHANGED <<setup, epoch, runs, pc>>,
         job' = [job EXCEPT ![a] = j],
         rows' = [rows EXCEPT ![Key(a)] = r],
         Matches(pc[a], j), ~RanAt(pc[a], j),
         HoldsAt(pc[a], j) => r = Mine(a) /\ runs[Key(a)] = 0,
         \A b \in Requests : b # a /\ Key(b) = Key(a) => rows[Key(b)] # Mine(b),
         r.state \in {"absent", "pending", "committed", "retired"},
         r.state = "absent" /\ Key(a).epoch >= epoch => runs[Key(a)] = 0
  PROVE  IInv'
<1>1. \A b \in Requests : Mine(b)' = Mine(b) /\ Key(b)' = Key(b) /\ Key(b) \in Keys
  BY Zenon DEF Mine, Key, Pending, IInv, Shape
<1>2. job'[a] = j /\ \A b \in Requests : b # a => job'[b] = job[b]
  BY Zenon DEF IInv, Shape
<1>3. rows'[Key(a)] = r /\ \A k \in Keys : k # Key(a) => rows'[k] = rows[k]
  BY <1>1, Zenon DEF IInv, Shape
<1>4. Shape'
  <2>1. rows' = [k \in Keys |-> rows'[k]]
    BY <1>1, Zenon DEF IInv, Shape
  <2>2. job' = [b \in Requests |-> job'[b]]
    BY Zenon DEF IInv, Shape
  <2> QED
    BY <2>1, <2>2, Zenon DEF IInv, Shape
<1>5. JobsMatch'
  BY <1>2, Zenon DEF IInv, JobsMatch
<1>6. \A b \in Requests :
        /\ HoldsAt(pc[b], job'[b]) => rows'[Key(b)] = Mine(b) /\ runs[Key(b)] = 0
        /\ RanAt(pc[b], job'[b]) => rows'[Key(b)] = Mine(b) /\ runs[Key(b)] = 1
  <2> TAKE b \in Requests
  <2>1. CASE b = a
    BY <1>2, <1>3, <2>1, Zenon
  <2>2. CASE b # a
    <3>1. /\ HoldsAt(pc[b], job[b]) => rows[Key(b)] = Mine(b) /\ runs[Key(b)] = 0
          /\ RanAt(pc[b], job[b]) => rows[Key(b)] = Mine(b) /\ runs[Key(b)] = 1
      BY Zenon DEF IInv, Owned
    <3> QED
      BY <1>1, <1>2, <1>3, <2>2, <3>1, Zenon
  <2> QED
    BY <2>1, <2>2, Zenon
<1>7. \A k \in Keys :
        /\ rows'[k].state \in {"absent", "pending", "committed", "retired"}
        /\ rows'[k].state = "absent" /\ k.epoch >= epoch => runs[k] = 0
  BY <1>3, Zenon DEF IInv, Owned
<1>8. Owned'
  BY <1>1, <1>6, <1>7, Zenon DEF Owned
<1> QED
  BY <1>4, <1>5, <1>8, Zenon DEF IInv

(* What a transaction may do to the row of its request.                       *)
Reserves(a) ==
  /\ rows[Key(a)].state = "absent" /\ Key(a).epoch = epoch
  /\ rows' = [rows EXCEPT ![Key(a)] = Mine(a)]
Completes(a) ==
  /\ rows[Key(a)] = Mine(a) /\ runs[Key(a)] = 1
  /\ \E r : rows' = [rows EXCEPT ![Key(a)] = Committed(Mine(a).hash, r)]
Releases(a) ==
  /\ rows[Key(a)] = Mine(a) /\ runs[Key(a)] = 0
  /\ rows' = [rows EXCEPT ![Key(a)] = NoRow]

(* The transactions of the workers keep the invariant, whether or not their   *)
(* caller is still there and whether or not it learns their outcome.          *)
LEMMA Transactions ==
  ASSUME IInv, NEW a \in Requests, RunJob(a)
  PROVE  /\ IInv'
         /\ UNCHANGED <<setup, epoch, runs>>
         /\ UNCHANGED rows \/ Reserves(a) \/ Completes(a) \/ Releases(a)
<1>1. Matches(pc[a], job[a]) /\ job[a].answer = "queued"
  BY Zenon DEF IInv, JobsMatch, RunJob
<1>2. job[a].op \in {"reserve", "complete", "release"}
  BY <1>1 DEF Matches, NoJob
<1>3. PICK what : /\ Return(a, what)
                  /\ what = JobAnswer(a) \/ what = "unknown"
                  /\ \/ UNCHANGED storeVars /\ what # "new"
                     \/ Write(a) /\ Writes(JobAnswer(a))
  BY DEF RunJob, Writes
<1> DEFINE j == IF pc[a] = "gone" THEN NoJob
                ELSE [op |-> job[a].op, answer |-> what, seen |-> rows[Key(a)]]
<1>4. job' = [job EXCEPT ![a] = j]
  BY <1>3, Zenon DEF Return
<1>5. UNCHANGED <<setup, runs, pc>>
  BY Zenon DEF RunJob, control, Fault
<1>6. Matches(pc[a], j)
  BY <1>1 DEF Matches, NoJob
<1>7. what # "queued" /\ (what = "new" => job[a].op = "reserve")
  <2>1. ReserveAnswer(Key(a), Mine(a)) # "queued"
    BY Zenon DEF ReserveAnswer, Present
  <2>2. CompleteAnswer(Key(a), Mine(a), job[a].seen) \notin {"queued", "new"}
    BY Zenon DEF CompleteAnswer
  <2>3. ReleaseAnswer(Key(a), Mine(a)) \notin {"queued", "new"}
    BY Zenon DEF ReleaseAnswer
  <2> QED
    BY <1>2, <1>3, <2>1, <2>2, <2>3, Zenon DEF JobAnswer
<1>8. ~RanAt(pc[a], j) /\ (HoldsAt(pc[a], j) => what = "new")
  BY <1>1, <1>7 DEF HoldsAt, RanAt, Matches, NoJob
<1> HIDE DEF j
<1>9. CASE UNCHANGED storeVars /\ what # "new"
  <2>1. UNCHANGED core /\ UNCHANGED rows
    BY <1>5, <1>9, Zenon DEF core, storeVars
  <2>2. pc' = [pc EXCEPT ![a] = pc[a]]
    BY <1>5, Zenon DEF IInv, Shape
  <2>3. IInv'
    BY <1>4, <1>6, <1>8, <1>9, <2>1, <2>2, Quiet, Zenon
  <2> QED
    BY <2>1, <2>3, Zenon DEF core
<1>10. CASE Write(a) /\ Writes(JobAnswer(a))
  <2>0. Mine(a).state = "pending" /\ Key(a) \in Keys
    BY Zenon DEF Mine, Pending, IInv, Shape, Key
  <2>1. CASE job[a].op = "reserve"
    <3>1. /\ rows[Key(a)].state = "absent" /\ Key(a).epoch = epoch
      BY <1>10, <2>1, Zenon DEF Writes, JobAnswer, ReserveAnswer, Present
    <3>2. rows' = [rows EXCEPT ![Key(a)] = Mine(a)] /\ UNCHANGED epoch
      BY <1>10, <2>1, Zenon DEF Write, Reserve
    <3>3. runs[Key(a)] = 0
      BY <2>0, <3>1 DEF IInv, Owned, Shape
    <3>4. \A b \in Requests : b # a /\ Key(b) = Key(a) => rows[Key(b)] # Mine(b)
      BY <3>1 DEF Mine, Pending
    <3>5. IInv'
      BY <1>4, <1>5, <1>6, <1>8, <2>0, <3>2, <3>3, <3>4, Replaces, Zenon
    <3> QED
      BY <1>5, <3>1, <3>2, <3>5, Zenon DEF Reserves
  <2>2. CASE job[a].op = "complete"
    <3>1. rows[Key(a)] = Mine(a) /\ runs[Key(a)] = 1
      BY <1>1, <2>2, Zenon DEF IInv, Owned, RanAt
    <3>2. /\ rows' = [rows EXCEPT ![Key(a)] = Committed(Mine(a).hash, job[a].seen)]
          /\ UNCHANGED epoch
      BY <1>10, <2>2, <3>1, Zenon DEF Write, Complete
    <3>3. \A b \in Requests : b # a /\ Key(b) = Key(a) => rows[Key(b)] # Mine(b)
      BY <3>1, OneOwner, Zenon
    <3>4. Committed(Mine(a).hash, job[a].seen).state = "committed"
      BY Zenon DEF Committed
    <3>5. ~HoldsAt(pc[a], j)
      BY <1>7, <1>8, <2>2, Zenon
    <3>6. IInv'
      BY <1>4, <1>5, <1>6, <1>8, <3>2, <3>3, <3>4, <3>5, Replaces, Zenon
    <3> QED
      BY <1>5, <3>1, <3>2, <3>6, Zenon DEF Completes
  <2>3. CASE job[a].op = "release"
    <3>1. rows[Key(a)] = Mine(a) /\ runs[Key(a)] = 0
      BY <1>1, <2>3, Zenon DEF IInv, Owned, HoldsAt
    <3>2. rows' = [rows EXCEPT ![Key(a)] = NoRow] /\ UNCHANGED epoch
      BY <1>10, <2>3, Zenon DEF Write, Release
    <3>3. \A b \in Requests : b # a /\ Key(b) = Key(a) => rows[Key(b)] # Mine(b)
      BY <3>1, OneOwner, Zenon
    <3>4. NoRow.state = "absent"
      BY Zenon DEF NoRow
    <3>5. ~HoldsAt(pc[a], j)
      BY <1>7, <1>8, <2>3, Zenon
    <3>6. IInv'
      BY <1>4, <1>5, <1>6, <1>8, <3>1, <3>2, <3>3, <3>4, <3>5, Replaces, Zenon
    <3> QED
      BY <1>5, <3>1, <3>2, <3>6, Zenon DEF Releases
  <2> QED
    BY <1>2, <2>1, <2>2, <2>3, Zenon
<1> QED
  BY <1>3, <1>9, <1>10, Zenon

(* A caller that goes away leaves at most a transaction that is under way.    *)
LEMMA Drops ==
  ASSUME IInv, NEW a \in Requests, Drop(a)
  PROVE  UNCHANGED core /\ IInv'
<1> DEFINE j == IF job[a].answer = "queued" THEN job[a] ELSE NoJob
<1>1. UNCHANGED core
  BY Zenon DEF Drop, core, storeVars, Fault
<1>2. pc' = [pc EXCEPT ![a] = "gone"] /\ job' = [job EXCEPT ![a] = j]
  BY Zenon DEF Drop, Goto
<1>3. Matches(pc[a], job[a])
  BY Zenon DEF IInv, JobsMatch
<1>4. Matches("gone", j)
  BY <1>3, Zenon DEF Matches, NoJob
<1>5. /\ HoldsAt("gone", j) => HoldsAt(pc[a], job[a])
      /\ RanAt("gone", j) => RanAt(pc[a], job[a])
  BY Zenon DEF HoldsAt, RanAt, NoJob
<1> HIDE DEF j
<1> QED
  BY <1>1, <1>2, <1>4, <1>5, Quiet, Zenon

(* After a restart nobody claims a reservation; the rows stay as they are.    *)
LEMMA Crashes ==
  ASSUME IInv, Crash
  PROVE  UNCHANGED core /\ IInv'
<1>1. UNCHANGED core
  BY Zenon DEF Crash, core, storeVars, Fault
<1>2. \A a \in Requests : pc'[a] \notin Live /\ job'[a] = NoJob
  BY Zenon DEF Crash, Live, Holding, Leased
<1>3. Shape'
  BY <1>1, Zenon DEF IInv, Shape, core, Crash
<1>4. \A a \in Requests : /\ ~HoldsAt(pc'[a], job'[a]) /\ ~RanAt(pc'[a], job'[a])
                          /\ Matches(pc'[a], job'[a])
  BY <1>2 DEF HoldsAt, RanAt, Matches, NoJob, Live, Holding, Leased
<1>5. JobsMatch'
  BY <1>4, Zenon DEF JobsMatch
<1>6. Owned'
  BY <1>1, <1>4, Zenon DEF IInv, Owned, core
<1> QED
  BY <1>1, <1>3, <1>5, <1>6, Zenon DEF IInv

(* The host's operations touch no pending row.                                *)
LEMMA HostRows ==
  ASSUME IInv, UNCHANGED <<setup, runs, pc, job>>, epoch' \in Nat, epoch' >= epoch,
         rows' = [k \in Keys |-> rows'[k]],
         \A k \in Keys :
           \/ rows'[k] = rows[k]
           \/ rows[k].state = "committed" /\ rows'[k].state = "retired"
           \/ /\ rows[k].state \in {"committed", "retired"} /\ rows'[k].state = "absent"
              /\ k.epoch < epoch'
  PROVE  IInv'
<1>1. \A b \in Requests : /\ Mine(b)' = Mine(b) /\ Key(b)' = Key(b) /\ Key(b) \in Keys
                          /\ Mine(b).state = "pending"
  BY Zenon DEF Mine, Key, Pending, IInv, Shape
<1>2. \A b \in Requests : rows[Key(b)] = Mine(b) => rows'[Key(b)] = Mine(b)
  BY <1>1, Zenon
<1>3. \A k \in Keys : k.epoch \in Nat
  BY DEF Keys
<1>4. \A k \in Keys :
        /\ rows'[k].state \in {"absent", "pending", "committed", "retired"}
        /\ rows'[k].state = "absent" /\ k.epoch >= epoch' => runs[k] = 0
  <2> TAKE k \in Keys
  <2>1. /\ rows[k].state \in {"absent", "pending", "committed", "retired"}
        /\ rows[k].state = "absent" /\ k.epoch >= epoch => runs[k] = 0
    BY Zenon DEF IInv, Owned
  <2> QED
    BY <1>3, <2>1 DEF IInv, Shape
<1>5. Owned'
  BY <1>1, <1>2, <1>4, Zenon DEF IInv, Owned
<1> QED
  BY <1>5, Zenon DEF IInv, Shape, JobsMatch

(* Retirement keeps the row of a settled request.                             *)
LEMMA Retires ==
  ASSUME IInv, NEW k \in Keys, RetireResult(k)
  PROVE  /\ IInv' /\ UNCHANGED <<epoch, runs>>
         /\ rows[k].state = "committed" /\ rows'[k].state = "retired"
         /\ \A i \in Keys : i # k => rows'[i] = rows[i]
<1>1. /\ UNCHANGED <<setup, runs, pc, job, epoch>> /\ rows[k].state = "committed"
      /\ rows' = [rows EXCEPT ![k] = Retired(rows[k].hash)]
  BY Zenon DEF RetireResult, Retire, Retirable, attempts, control
<1>2. rows'[k].state = "retired" /\ \A i \in Keys : i # k => rows'[i] = rows[i]
  BY <1>1, Zenon DEF IInv, Shape, Retired
<1>3. rows' = [i \in Keys |-> rows'[i]]
  BY <1>1, Zenon DEF IInv, Shape
<1>4. epoch' \in Nat /\ epoch' >= epoch
  BY <1>1 DEF IInv, Shape
<1>5. IInv'
  BY <1>1, <1>2, <1>3, <1>4, HostRows, Zenon
<1> QED
  BY <1>1, <1>2, <1>5, Zenon

(* The closure of a retry range removes only what can never run again.        *)
LEMMA Closes ==
  ASSUME IInv, CloseEpoch
  PROVE  /\ IInv' /\ UNCHANGED runs /\ epoch' = epoch + 1
         /\ \A k \in Keys :
              \/ rows'[k] = rows[k]
              \/ /\ rows[k].state \in {"committed", "retired"} /\ rows'[k].state = "absent"
                 /\ k.epoch < epoch'
<1>1. UNCHANGED <<setup, runs, pc, job>> /\ epoch' = epoch + 1
  BY Zenon DEF CloseEpoch, CloseRetryEpoch, attempts, control
<1>2. rows' = [k \in Keys |-> IF k \in {i \in Keys : Reclaimable(i, epoch + 1)}
                              THEN NoRow ELSE rows[k]]
  BY Zenon DEF CloseEpoch, CloseRetryEpoch
<1>3. \A k \in Keys :
        \/ rows'[k] = rows[k]
        \/ /\ rows[k].state \in {"committed", "retired"} /\ rows'[k].state = "absent"
           /\ k.epoch < epoch'
  BY <1>1, <1>2, Zenon DEF Reclaimable, Retirable, NoRow
<1>4. rows' = [k \in Keys |-> rows'[k]]
  BY <1>2, Zenon
<1>5. epoch' \in Nat /\ epoch' >= epoch
  BY <1>1 DEF IInv, Shape
<1>6. IInv'
  BY <1>1, <1>3, <1>4, <1>5, HostRows, Zenon
<1> QED
  BY <1>1, <1>3, <1>6, Zenon

(* What is neither an attempt's own step nor a change of the store.           *)
Aside ==
  \/ \E a \in Requests : CancelRequest(a)
  \/ Withdraw \/ Clock \/ Sweeper \/ UNCHANGED vars

(* A cancellation, a clock step or a sweep touches no record and no job.      *)
LEMMA Asides ==
  ASSUME IInv, Aside
  PROVE  UNCHANGED core /\ IInv'
<1>1. UNCHANGED <<setup, rows, epoch, runs, pc, job>>
  BY Zenon DEF Aside, CancelRequest, Withdraw, Clock, Sweeper, vars, storeVars, control
<1> QED
  BY <1>1, Zenon DEF core, IInv, Shape, JobsMatch, Owned, Mine, Key, Pending

(* Every step is of one of these kinds.                                       *)
LEMMA Kinds ==
  ASSUME [Next]_vars
  PROVE  \/ \E a \in Requests : QuietStep(a) \/ Execute(a) \/ RunJob(a) \/ Drop(a)
         \/ \E k \in Keys : RetireResult(k)
         \/ Crash \/ CloseEpoch \/ Aside
BY Zenon DEF Next, Proceed, QuietStep, Aside

(* Reservations are owned: the inductive invariant of the submissions.        *)
THEOREM ReservationsOwned == Spec => []IInv
<1>1. ASSUME Init PROVE IInv
  <2>1. Shape
    BY <1>1, SubmissionSetups, Zenon DEF Init, StoreInit, Shape
  <2>2. \A a \in Requests : pc[a] = "idle" /\ job[a] = NoJob
    BY <1>1, Zenon DEF Init
  <2>3. \A k \in Keys : rows[k] = NoRow /\ runs[k] = 0
    BY <1>1, Zenon DEF Init, StoreInit
  <2>4. JobsMatch
    BY <2>2, Zenon DEF JobsMatch, Matches
  <2>5. \A a \in Requests : ~HoldsAt(pc[a], job[a]) /\ ~RanAt(pc[a], job[a])
    BY <2>2 DEF HoldsAt, RanAt, NoJob
  <2>6. Owned
    BY <2>3, <2>5 DEF Owned, NoRow
  <2> QED
    BY <2>1, <2>4, <2>6, Zenon DEF IInv
<1>2. IInv /\ [Next]_vars => IInv'
  BY QuietSteps, Starts, Transactions, Drops, Retires, Crashes, Closes, Asides, Kinds, Zenon
<1> QED
  BY <1>1, <1>2, PTL DEF Spec

(* A step that changes nothing of the rows changes no phase.                  *)
LEMMA SamePhase ==
  ASSUME UNCHANGED core
  PROVE  UNCHANGED <<[k \in Keys |-> Phase(k)], runs>>
BY DEF core, Phase

(* A change of one row is a change of one phase.                              *)
LEMMA OnePhase ==
  ASSUME NEW k \in Keys, UNCHANGED epoch, \A i \in Keys : i # k => rows'[i] = rows[i],
         \A i \in Keys : i # k => runs'[i] = runs[i]
  PROVE  [i \in Keys |-> Phase(i)]' = [[i \in Keys |-> Phase(i)] EXCEPT ![k] = Phase(k)']
<1>1. \A i \in Keys : i # k => Phase(i)' = Phase(i)
  BY Zenon DEF Phase
<1> QED
  BY <1>1, Zenon

(* Submission implements OnceLedger: no request identity runs twice, and none *)
(* runs after its retry range is over, whatever is retried, dropped, lost or  *)
(* interrupted.                                                               *)
THEOREM RunsOnce == Spec => ImplementsOnceLedger
<1> DEFINE ph == [k \in Keys |-> Phase(k)]
<1>1. Init => Ledger!Init
  BY DEF Init, StoreInit, Ledger!Init, Phase, NoRow, Keys
<1>2. IInv /\ [Next]_vars => [Ledger!Next]_<<ph, runs>>
  <2> SUFFICES ASSUME IInv, [Next]_vars
               PROVE  [Ledger!Next]_<<ph, runs>>
    BY Zenon
  <2>1. CASE UNCHANGED core
    BY <2>1, SamePhase, Zenon
  <2>2. ASSUME NEW a \in Requests, Execute(a) PROVE [Ledger!Next]_<<ph, runs>>
    <3>1. Key(a) \in Keys /\ Key(a)' = Key(a)
      BY <2>2, Zenon DEF IInv, Shape, Key, Execute, control
    <3>2. CASE ~UNCHANGED core
      <4>1. /\ UNCHANGED <<rows, epoch>> /\ rows[Key(a)] = Mine(a) /\ runs[Key(a)] = 0
            /\ runs' = [runs EXCEPT ![Key(a)] = 1]
        BY <2>2, <3>2, Starts, Zenon
      <4>2. runs'[Key(a)] = 1 /\ \A i \in Keys : i # Key(a) => runs'[i] = runs[i]
        BY <3>1, <4>1, Zenon DEF IInv, Shape
      <4>3. ph' = [ph EXCEPT ![Key(a)] = Phase(Key(a))']
        BY <3>1, <4>1, <4>2, OnePhase, Zenon
      <4>4. Phase(Key(a)) = "held" /\ Phase(Key(a))' = "run"
        BY <2>2, <3>1, <4>1, <4>2 DEF Phase, Mine, Pending, Execute, control, Key
      <4>5. Ledger!Run(Key(a))
        BY <3>1, <4>1, <4>3, <4>4, Zenon DEF Ledger!Run, Ledger!Become
      <4> QED
        BY <3>1, <4>5, Zenon DEF Ledger!Next
    <3> QED
      BY <2>1, <3>2, Zenon
  <2>3. ASSUME NEW a \in Requests, RunJob(a) PROVE [Ledger!Next]_<<ph, runs>>
    <3>1. Key(a) \in Keys /\ Mine(a).state = "pending" /\ Key(a)' = Key(a)
      BY <2>3, Transactions, Zenon DEF IInv, Shape, Key, Mine, Pending
    <3>2. UNCHANGED <<setup, epoch, runs>>
      BY <2>3, Transactions, Zenon
    <3>3. ASSUME NEW r, rows' = [rows EXCEPT ![Key(a)] = r]
          PROVE  /\ rows'[Key(a)] = r
                 /\ ph' = [ph EXCEPT ![Key(a)] = Phase(Key(a))']
      <4>1. rows'[Key(a)] = r /\ \A i \in Keys : i # Key(a) => rows'[i] = rows[i]
        BY <3>1, <3>3, Zenon DEF IInv, Shape
      <4> QED
        BY <3>1, <3>2, <4>1, OnePhase, Zenon
    <3>4. CASE Reserves(a)
      <4>1. rows'[Key(a)] = Mine(a) /\ ph' = [ph EXCEPT ![Key(a)] = Phase(Key(a))']
        BY <3>3, <3>4, Zenon DEF Reserves
      <4>2. runs[Key(a)] = 0
        BY <3>1, <3>4 DEF Reserves, IInv, Owned, Shape
      <4>3. Phase(Key(a)) = "free"
        BY <3>1, <3>4, SMTT(20) DEF Reserves, Phase, IInv, Shape
      <4>4. Phase(Key(a))' = "held"
        BY <3>1, <3>2, <4>1, <4>2, SMTT(20) DEF Phase
      <4>5. Ledger!Hold(Key(a))
        BY <3>1, <3>2, <4>1, <4>3, <4>4, Zenon DEF Ledger!Hold, Ledger!Become
      <4> QED
        BY <3>1, <4>5, Zenon DEF Ledger!Next
    <3>5. CASE Completes(a)
      <4>1. PICK r : rows' = [rows EXCEPT ![Key(a)] = Committed(Mine(a).hash, r)]
        BY <3>5, Zenon DEF Completes
      <4>2. /\ rows'[Key(a)].state = "committed"
            /\ ph' = [ph EXCEPT ![Key(a)] = Phase(Key(a))']
        BY <3>3, <4>1, Zenon DEF Committed
      <4>3. Phase(Key(a)) = "run" /\ Phase(Key(a))' = "settled"
        BY <3>1, <3>2, <3>5, <4>2 DEF Completes, Phase
      <4>4. Ledger!Settle(Key(a))
        BY <3>1, <3>2, <4>2, <4>3, Zenon DEF Ledger!Settle, Ledger!Become
      <4> QED
        BY <3>1, <4>4, Zenon DEF Ledger!Next
    <3>6. CASE Releases(a)
      <4>1. /\ rows'[Key(a)].state = "absent"
            /\ ph' = [ph EXCEPT ![Key(a)] = Phase(Key(a))']
        BY <3>3, <3>6, Zenon DEF Releases, NoRow
      <4>2. Phase(Key(a)) = "held" /\ Phase(Key(a))' \in {"free", "over"}
        BY <3>1, <3>2, <3>6, <4>1, Zenon DEF Releases, Phase
      <4>3. Ledger!LetGo(Key(a))
        BY <3>1, <3>2, <4>1, <4>2, Zenon DEF Ledger!LetGo, Ledger!Become
      <4> QED
        BY <3>1, <4>3, Zenon DEF Ledger!Next
    <3> QED
      BY <2>1, <2>3, <3>2, <3>4, <3>5, <3>6, Transactions, Zenon DEF core
  <2>4. ASSUME NEW k \in Keys, RetireResult(k) PROVE [Ledger!Next]_<<ph, runs>>
    <3>1. /\ UNCHANGED <<epoch, runs>> /\ rows[k].state = "committed"
          /\ rows'[k].state = "retired" /\ \A i \in Keys : i # k => rows'[i] = rows[i]
      BY <2>4, Retires, Zenon
    <3>2. Phase(k) = "settled" /\ Phase(k)' = "over" /\ \A i \in Keys : i # k => Phase(i)' = Phase(i)
      BY <3>1, Zenon DEF Phase
    <3>3. Ledger!End({k})
      BY <3>1, <3>2, Zenon DEF Ledger!End
    <3> QED
      BY <3>3, Zenon DEF Ledger!Next
  <2>5. CASE CloseEpoch
    <3> DEFINE K == {k \in Keys : Phase(k) # Phase(k)'}
    <3>1. /\ UNCHANGED runs /\ epoch' = epoch + 1
          /\ \A k \in Keys :
               \/ rows'[k] = rows[k]
               \/ /\ rows[k].state \in {"committed", "retired"} /\ rows'[k].state = "absent"
                  /\ k.epoch < epoch'
      BY <2>5, Closes, Zenon
    <3>2. \A k \in Keys : k.epoch \in Nat
      BY DEF Keys
    <3>3. \A k \in K : Phase(k) \in {"free", "settled"} /\ Phase(k)' = "over"
      <4> TAKE k \in K
      <4>1. rows[k].state \in {"absent", "pending", "committed", "retired"}
        BY Zenon DEF IInv, Owned
      <4> QED
        BY <3>1, <3>2, <4>1 DEF Phase, IInv, Shape
    <3>4. Ledger!End(K)
      BY <3>1, <3>3, Zenon DEF Ledger!End
    <3> QED
      BY <3>4, Zenon DEF Ledger!Next
  <2> QED
    BY <2>1, <2>2, <2>3, <2>4, <2>5, QuietSteps, Drops, Crashes, Asides, Kinds, Zenon
<1> QED
  BY <1>1, <1>2, ReservationsOwned, PTL DEF Spec, ImplementsOnceLedger, Ledger!Spec

----------------------------------------------------------------------------
(* What callers are told.  At most one attempt of an identity ever runs, so   *)
(* every result of it that is on its way has the same origin.                 *)
Ran(a) == RanAt(pc[a], job[a]) \/ pc[a] = "completing"
PastAt(where, j) == where \in {"completing", "answered", "gone"} /\ ~RanAt(where, j)
Shown(j) == j.answer = "present" /\ j.seen.state = "committed"
IsResult(o, a) ==
  o = [outcome |-> o.outcome, certain |-> o.certain, size |-> o.size, by |-> a]

(* The result of b is, or can become, the result of identity k.               *)
Produced(k, b) ==
  \/ Key(b) = k /\ Ran(b)
  \/ rows[k].state = "committed" /\ rows[k].result.by = b
  \/ \E a \in Requests : /\ Key(a) = k
                         /\ \/ Shown(job[a]) /\ job[a].seen.result.by = b
                            \/ answer[a].kind = "result" /\ answer[a].result.by = b
OneProducer ==
  \A k \in Keys : \A b, c \in Requests :
    Produced(k, b) => runs[k] = 1 /\ (Produced(k, c) => b = c)

(* r is what an attempt of identity k with submission hash h produced; that   *)
(* attempt is past its own transaction, so r is final.                        *)
Sourced(k, h, r) ==
  \E b \in Requests : /\ r.by = b /\ output[b] = r
                      /\ Key(b) = k /\ setup.hash[b] = h
                      /\ PastAt(pc[b], job[b])

(* The output of an attempt is its own, and the one its transaction writes.   *)
OutAt(where, j) == where \in {"settling", "completing"} \/ j.op = "complete"
OwnAt(where, j, o, a) ==
  /\ OutAt(where, j) => IsResult(o, a)
  /\ j.op = "complete" /\ j.answer = "queued" => j.seen = o
Sources ==
  /\ \A a \in Requests :
       /\ OwnAt(pc[a], job[a], output[a], a)
       /\ Shown(job[a]) => Sourced(Key(a), job[a].seen.hash, job[a].seen.result)
       /\ answer[a].kind = "result" => /\ answer[a] = Told(answer[a].result)
                                       /\ Sourced(Key(a), setup.hash[a], answer[a].result)
  /\ \A k \in Keys : rows[k].state = "committed" => Sourced(k, rows[k].hash, rows[k].result)

(* The inductive invariant for what is told.                                  *)
AInv ==
  /\ IInv
  /\ output = [a \in Requests |-> output[a]] /\ answer = [a \in Requests |-> answer[a]]
  /\ OneProducer /\ Sources

(* What an attempt tells: what it told before, what its own transaction has   *)
(* settled, or the settled result it was shown for the same submission.       *)
Tells(a, w, where, j, o) ==
  \/ w = answer[a]
  \/ /\ Ran(a) /\ OutAt(pc[a], job[a]) /\ PastAt(where, j)
     /\ o = output[a] /\ IsResult(o, a) /\ w = Told(o)
  \/ Shown(job[a]) /\ job[a].seen.hash = setup.hash[a] /\ w = Told(job[a].seen.result)

(* What a row holds after a step of a: what it held, or the output of a.      *)
Holds(a, k, row, where, j, o) ==
  \/ row = rows[k]
  \/ /\ k = Key(a) /\ Ran(a) /\ OutAt(pc[a], job[a]) /\ PastAt(where, j)
     /\ o = output[a] /\ IsResult(o, a)
     /\ row.hash = setup.hash[a] /\ row.result = o

(* A step of one attempt, and of the store on its behalf.                     *)
Steps(a, where, j, o, w) ==
  /\ UNCHANGED <<setup, runs>>
  /\ pc' = [pc EXCEPT ![a] = where] /\ job' = [job EXCEPT ![a] = j]
  /\ output' = [output EXCEPT ![a] = o] /\ answer' = [answer EXCEPT ![a] = w]
  /\ \A k \in Keys : rows'[k].state = "committed" => Holds(a, k, rows'[k], where, j, o)
  /\ PastAt(pc[a], job[a]) => PastAt(where, j) /\ o = output[a]
  /\ RanAt(where, j) \/ where = "completing" => Ran(a)
  /\ Shown(j) => j.seen = rows[Key(a)] \/ j = job[a]
  /\ w.kind = "result" => Tells(a, w, where, j, o)
  /\ OwnAt(where, j, o, a)

(* A result of b is in the store, shown to an attempt or told.                *)
Handed(b) ==
  \/ \E k \in Keys : rows[k].state = "committed" /\ rows[k].result.by = b
  \/ \E a \in Requests : \/ Shown(job[a]) /\ job[a].seen.result.by = b
                         \/ answer[a].kind = "result" /\ answer[a].result.by = b

(* What is handed on was handed on before, or is the output of its attempt,   *)
(* as it was.                                                                 *)
HandsOn ==
  \A b \in Requests :
    Handed(b)' => output'[b] = output[b] /\ (Handed(b) \/ OutAt(pc[b], job[b]))

(* Such a step keeps the origin of every result.                              *)
LEMMA StepsKeep ==
  ASSUME AInv, IInv', NEW a \in Requests, NEW where, NEW j, NEW o, NEW w,
         Steps(a, where, j, o, w)
  PROVE  AInv' /\ HandsOn
<1> DEFINE Made(r) == /\ Ran(a) /\ OutAt(pc[a], job[a]) /\ PastAt(where, j)
                      /\ o = output[a] /\ IsResult(o, a) /\ r = o
           Given(c) == output'[c] = output[c] /\ (Handed(c) \/ OutAt(pc[c], job[c]))
           Final(k, h, r) == \E b \in Requests : /\ r.by = b /\ output'[b] = r
                                                 /\ Key(b) = k /\ setup.hash[b] = h
                                                 /\ PastAt(pc'[b], job'[b])
<1>1. /\ pc'[a] = where /\ job'[a] = j /\ output'[a] = o /\ answer'[a] = w
      /\ \A b \in Requests : b # a => /\ pc'[b] = pc[b] /\ job'[b] = job[b]
                                      /\ output'[b] = output[b] /\ answer'[b] = answer[b]
  BY Zenon DEF AInv, IInv, Shape, Steps
<1>2. /\ \A b \in Requests : Key(b)' = Key(b) /\ Key(b) \in Keys
      /\ setup' = setup /\ runs' = runs
  BY Zenon DEF AInv, IInv, Shape, Key, Steps
<1>3. \A b \in Requests : PastAt(pc[b], job[b]) => PastAt(pc'[b], job'[b]) /\ output'[b] = output[b]
  BY <1>1, Zenon DEF Steps
<1>4. ASSUME NEW k, NEW h, NEW r, Sourced(k, h, r) PROVE Final(k, h, r)
  BY <1>3, <1>4, Zenon DEF Sourced
<1>5. \A b \in Requests : (RanAt(pc'[b], job'[b]) \/ pc'[b] = "completing") => Ran(b)
  BY <1>1, Zenon DEF Steps, Ran
<1>6. ASSUME NEW r, Made(r)
      PROVE  /\ Final(Key(a), setup.hash[a], r)
             /\ \A c \in Requests : r.by = c => Produced(Key(a), c) /\ Given(c)
  <2>1. r.by = a /\ output'[a] = r
    BY <1>1, <1>6 DEF IsResult
  <2>2. Final(Key(a), setup.hash[a], r)
    BY <1>1, <1>6, <2>1, Zenon
  <2> QED
    BY <1>1, <1>6, <2>1, <2>2, Zenon DEF Produced
<1>7. ASSUME NEW k, NEW h, NEW r, Sourced(k, h, r), NEW c \in Requests, r.by = c, Handed(c)
      PROVE  Given(c)
  BY <1>3, <1>7, Zenon DEF Sourced
<1> HIDE DEF Final, Made, Given
<1>8. ASSUME NEW k \in Keys, rows'[k].state = "committed"
      PROVE  /\ Final(k, rows'[k].hash, rows'[k].result)
             /\ \A c \in Requests : rows'[k].result.by = c => Produced(k, c) /\ Given(c)
  <2>1. CASE rows'[k] = rows[k]
    <3>1. Sourced(k, rows[k].hash, rows[k].result)
      BY <1>8, <2>1, Zenon DEF AInv, Sources
    <3>2. Final(k, rows'[k].hash, rows'[k].result)
      BY <1>4, <2>1, <3>1, Zenon
    <3> QED
      BY <1>8, <1>7, <2>1, <3>1, <3>2, Zenon DEF Produced, Handed
  <2>2. CASE k = Key(a) /\ rows'[k].hash = setup.hash[a] /\ Made(rows'[k].result)
    <3>1. Final(Key(a), setup.hash[a], rows'[k].result)
      BY <1>6, <2>2, Zenon
    <3>2. \A c \in Requests : rows'[k].result.by = c => Produced(Key(a), c) /\ Given(c)
      BY <1>6, <2>2, Zenon
    <3>3. Final(k, rows'[k].hash, rows'[k].result)
      BY <2>2, <3>1, Zenon
    <3> QED
      BY <2>2, <3>2, <3>3, Zenon
  <2> QED
    BY <1>8, <2>1, <2>2, Zenon DEF Steps, Holds, Made
<1>9. ASSUME NEW b \in Requests, Shown(job'[b])
      PROVE  /\ Final(Key(b), job'[b].seen.hash, job'[b].seen.result)
             /\ \A c \in Requests : job'[b].seen.result.by = c => Produced(Key(b), c) /\ Given(c)
  <2>1. \/ job'[b] = job[b]
        \/ job'[b].seen = rows[Key(b)]
    BY <1>1, <1>9, Zenon DEF Steps
  <2>2. CASE job'[b] = job[b]
    <3>1. Sourced(Key(b), job[b].seen.hash, job[b].seen.result)
      BY <1>9, <2>2, Zenon DEF AInv, Sources
    <3>2. Final(Key(b), job'[b].seen.hash, job'[b].seen.result)
      BY <1>4, <2>2, <3>1, Zenon
    <3> QED
      BY <1>9, <1>7, <2>2, <3>1, <3>2, Zenon DEF Produced, Handed
  <2>3. CASE job'[b].seen = rows[Key(b)]
    <3>1. rows[Key(b)].state = "committed"
      BY <1>9, <2>3, Zenon DEF Shown
    <3>2. Sourced(Key(b), rows[Key(b)].hash, rows[Key(b)].result)
      BY <1>2, <3>1, Zenon DEF AInv, Sources
    <3>3. Final(Key(b), job'[b].seen.hash, job'[b].seen.result)
      BY <1>4, <2>3, <3>2, Zenon
    <3> QED
      BY <1>2, <1>7, <2>3, <3>1, <3>2, <3>3, Zenon DEF Produced, Handed
  <2> QED
    BY <2>1, <2>2, <2>3, Zenon
<1>10. ASSUME NEW b \in Requests, answer'[b].kind = "result"
      PROVE  /\ answer'[b] = Told(answer'[b].result)
             /\ Final(Key(b), setup.hash[b], answer'[b].result)
             /\ \A c \in Requests : answer'[b].result.by = c => Produced(Key(b), c) /\ Given(c)
  <2>0. /\ \A r : Told(r).result = r
        /\ answer[b].kind = "result" => answer[b] = Told(answer[b].result)
    BY Zenon DEF Told, AInv, Sources
  <2>1. answer'[b] = Told(answer'[b].result)
    BY <1>1, <1>10, <2>0 DEF Steps, Tells
  <2>2. \/ answer'[b] = answer[b]
        \/ b = a /\ Made(answer'[b].result)
        \/ /\ Shown(job[b]) /\ job[b].seen.hash = setup.hash[b]
           /\ answer'[b].result = job[b].seen.result
    BY <1>1, <1>10, <2>0 DEF Steps, Tells, Made
  <2>3. CASE answer'[b] = answer[b]
    <3>1. Sourced(Key(b), setup.hash[b], answer[b].result)
      BY <1>10, <2>3, Zenon DEF AInv, Sources
    <3>2. Final(Key(b), setup.hash[b], answer'[b].result)
      BY <1>4, <2>3, <3>1, Zenon
    <3> QED
      BY <1>10, <1>7, <2>1, <2>3, <3>1, <3>2, Zenon DEF Produced, Handed
  <2>4. CASE b = a /\ Made(answer'[b].result)
    <3>1. Final(Key(a), setup.hash[a], answer'[b].result)
      BY <1>6, <2>4, Zenon
    <3>2. \A c \in Requests : answer'[b].result.by = c => Produced(Key(a), c) /\ Given(c)
      BY <1>6, <2>4, Zenon
    <3> QED
      BY <2>1, <2>4, <3>1, <3>2, Zenon
  <2>5. CASE /\ Shown(job[b]) /\ job[b].seen.hash = setup.hash[b]
             /\ answer'[b].result = job[b].seen.result
    <3>1. Sourced(Key(b), setup.hash[b], job[b].seen.result)
      BY <2>5, Zenon DEF AInv, Sources
    <3>2. Final(Key(b), setup.hash[b], answer'[b].result)
      BY <1>4, <2>5, <3>1, Zenon
    <3> QED
      BY <1>7, <2>1, <2>5, <3>1, <3>2, Zenon DEF Produced, Handed
  <2> QED
    BY <2>2, <2>3, <2>4, <2>5, Zenon
<1>11. ASSUME NEW k \in Keys, NEW b \in Requests, Produced(k, b)' PROVE Produced(k, b)
  <2>1. CASE Key(b)' = k /\ Ran(b)'
    BY <1>2, <1>5, <2>1, Zenon DEF Produced, Ran
  <2>2. CASE rows'[k].state = "committed" /\ rows'[k].result.by = b
    BY <1>8, <2>2, Zenon
  <2>3. ASSUME NEW c \in Requests, Key(c)' = k, Shown(job'[c]), job'[c].seen.result.by = b
        PROVE  Produced(k, b)
    BY <1>2, <1>9, <2>3, Zenon
  <2>4. ASSUME NEW c \in Requests, Key(c)' = k, answer'[c].kind = "result", answer'[c].result.by = b
        PROVE  Produced(k, b)
    BY <1>2, <1>10, <2>4, Zenon
  <2> QED
    BY <1>11, <2>1, <2>2, <2>3, <2>4, Zenon DEF Produced, Shown
<1>12. OneProducer'
  <2> SUFFICES ASSUME NEW k \in Keys, NEW b \in Requests, NEW c \in Requests, Produced(k, b)'
               PROVE  runs'[k] = 1 /\ (Produced(k, c)' => b = c)
    BY Zenon DEF OneProducer
  <2>1. Produced(k, b) /\ (Produced(k, c)' => Produced(k, c))
    BY <1>11, Zenon
  <2> QED
    BY <1>2, <2>1, Zenon DEF AInv, OneProducer
<1>13. \A b \in Requests : OwnAt(pc'[b], job'[b], output'[b], b)
  BY <1>1, Zenon DEF Steps, AInv, Sources
<1>14. Sources'
  BY <1>2, <1>8, <1>9, <1>10, <1>13 DEF Sources, Shown, Sourced, Final
<1>15. output' = [b \in Requests |-> output'[b]] /\ answer' = [b \in Requests |-> answer'[b]]
  BY Zenon DEF AInv, Steps
<1>16. HandsOn
  BY <1>8, <1>9, <1>10, Zenon DEF HandsOn, Handed, Shown, Given
<1> QED
  BY <1>12, <1>14, <1>15, <1>16, Zenon DEF AInv

(* What the steps an attempt takes by itself do to its answer and output.     *)
LEMMA QuietTells ==
  ASSUME AInv, NEW a \in Requests, QuietStep(a) \/ (Execute(a) /\ UNCHANGED runs)
  PROVE  AInv' /\ HandsOn
<1> DEFINE To(where, j, o, w) ==
             /\ pc' = [pc EXCEPT ![a] = where] /\ job' = [job EXCEPT ![a] = j]
             /\ output' = [output EXCEPT ![a] = o] /\ answer' = [answer EXCEPT ![a] = w]
           Ok(where, j, o, w) ==
             /\ PastAt(pc[a], job[a]) => PastAt(where, j) /\ o = output[a]
             /\ RanAt(where, j) \/ where = "completing" => Ran(a)
             /\ Shown(j) => j.seen = rows[Key(a)] \/ j = job[a]
             /\ w.kind = "result" => Tells(a, w, where, j, o)
             /\ OwnAt(where, j, o, a)
           ja == job[a]  oa == output[a]  wa == answer[a]
<1>0. UNCHANGED <<setup, runs, rows>> /\ IInv'
  BY QuietSteps, Starts, Zenon DEF AInv, core, Execute, control, storeVars
<1>1. ASSUME NEW where, NEW j, NEW o, NEW w, To(where, j, o, w), Ok(where, j, o, w)
      PROVE  AInv' /\ HandsOn
  <2>1. Steps(a, where, j, o, w)
    BY <1>0, <1>1, Zenon DEF Steps, Holds
  <2> QED
    BY <1>0, <2>1, StepsKeep, Zenon
<1>2. /\ job = [job EXCEPT ![a] = ja] /\ output = [output EXCEPT ![a] = oa]
      /\ answer = [answer EXCEPT ![a] = wa]
  BY Zenon DEF AInv, IInv, Shape
<1>3. Matches(pc[a], ja) /\ OwnAt(pc[a], ja, oa, a)
  BY Zenon DEF AInv, IInv, JobsMatch, Sources
<1>4. Refused.kind # "result" /\ Indeterminate.kind # "result" /\ NoJob.op # "complete" /\ ~Shown(NoJob)
  BY Zenon DEF Refused, Indeterminate, NoJob, Shown
<1>5. ASSUME NEW w, w.kind # "result" \/ w = wa, ja = NoJob, ~PastAt(pc[a], NoJob) \/ pc[a] = "answered"
      PROVE  /\ pc[a] \notin {"settling", "completing", "answered"} =>
                  /\ Ok("prepared", ja, oa, w) /\ Ok("budgeted", ja, oa, w)
                  /\ Ok("refused", ja, oa, w) /\ Ok("accepted", ja, oa, w)
                  /\ Ok("consuming", ja, oa, w) /\ Ok("ended", ja, oa, w)
             /\ Ok("answered", ja, oa, w)
  BY <1>3, <1>4, <1>5, Zenon DEF OwnAt, OutAt, RanAt, PastAt, NoJob, Tells
<1> HIDE DEF To, Ok, ja, oa, wa
<1>6. CASE Prepare(a)
  <2>1. To("prepared", ja, oa, wa) \/ To("answered", ja, oa, Refused)
    BY <1>2, <1>6, Zenon DEF Prepare, Goto, Answer, To
  <2>2. ja = NoJob /\ pc[a] = "idle"
    BY <1>3, <1>6, Zenon DEF Prepare, Matches
  <2> QED
    BY <1>1, <1>4, <1>5, <2>1, <2>2 DEF PastAt
<1>7. CASE StartReserve(a)
  <2> DEFINE h == [op |-> "reserve", answer |-> "queued", seen |-> None]
  <2>1. To("reserving", h, oa, wa) \/ To("answered", ja, oa, Refused)
    BY <1>2, <1>7, Zenon DEF StartReserve, Goto, Answer, Leave, Hand, To
  <2>2. ja = NoJob /\ pc[a] = "prepared"
    BY <1>3, <1>7, Zenon DEF StartReserve, Matches
  <2>3. Ok("reserving", h, oa, wa)
    BY <2>2, Zenon DEF Ok, OwnAt, OutAt, RanAt, PastAt, Shown, Tells, wa
  <2> HIDE DEF h
  <2> QED
    BY <1>1, <1>4, <1>5, <2>1, <2>2, <2>3, Zenon DEF PastAt
<1>8. CASE Reserved(a)
  <2>1. pc[a] = "reserving" /\ ja.op = "reserve" /\ ja = job[a]
    BY <1>3, <1>8, Zenon DEF Reserved, Matches, ja, NoJob
  <2>2. CASE ja.answer = "new"
    <3>1. To("reserved", NoJob, oa, wa)
      BY <1>2, <1>8, <2>1, <2>2, Zenon DEF Reserved, Goto, Taken, To
    <3>2. Ok("reserved", NoJob, oa, wa)
      BY <1>4, <2>1, Zenon DEF Ok, OwnAt, OutAt, RanAt, PastAt, Tells, wa, NoJob
    <3> QED
      BY <1>1, <3>1, <3>2, Zenon
  <2>3. CASE ja.answer # "new"
    <3>1. \/ ja.answer = "present" /\ To("answered", NoJob, oa, Replay(a, ja.seen))
          \/ To("answered", NoJob, oa, Refused)
          \/ To("answered", NoJob, oa, Indeterminate)
      BY <1>2, <1>8, <2>1, <2>3, Zenon DEF Reserved, Leave, Answer, Goto, Taken, To
    <3>2. ASSUME NEW w, w.kind = "result" => Tells(a, w, "answered", NoJob, oa)
          PROVE  Ok("answered", NoJob, oa, w)
      BY <1>4, <2>1, <3>2, Zenon DEF Ok, OwnAt, OutAt, RanAt, PastAt, NoJob
    <3>3. ASSUME ja.answer = "present", Replay(a, ja.seen).kind = "result"
          PROVE  Tells(a, Replay(a, ja.seen), "answered", NoJob, oa)
      BY <2>1, <3>3, Zenon DEF Replay, Refused, Told, Tells, Shown
    <3> QED
      BY <1>1, <1>4, <3>1, <3>2, <3>3, Zenon
  <2> QED
    BY <2>2, <2>3, Zenon
<1>9. CASE Lower(a) \/ Insert(a) \/ EnsureLive(a)
  <2>1. /\ ja = NoJob /\ pc[a] \in {"reserved", "budgeted", "accepted"}
        /\ \/ To("budgeted", ja, oa, wa) \/ To("refused", ja, oa, wa) \/ To("accepted", ja, oa, wa)
           \/ To("consuming", ja, oa, wa) \/ To("ended", ja, oa, wa)
    BY <1>2, <1>3, <1>9, Zenon DEF Lower, Insert, EnsureLive, Goto, To, Matches
  <2> QED
    BY <1>1, <1>5, <2>1 DEF PastAt
<1>10. CASE Evaluate(a)
  <2>1. PICK r : To("settling", ja,
             [outcome |-> FrozenOutcome(entries'[a], r.outcome), certain |-> r.certain,
              size |-> r.size, by |-> a], wa)
    BY <1>2, <1>10, Zenon DEF Evaluate, Goto, To
  <2> DEFINE o == [outcome |-> FrozenOutcome(entries'[a], r.outcome), certain |-> r.certain,
                   size |-> r.size, by |-> a]
  <2>2. ja = NoJob /\ pc[a] = "executing"
    BY <1>3, <1>10, Zenon DEF Evaluate, Matches
  <2>3. IsResult(o, a)
    BY Zenon DEF IsResult
  <2> HIDE DEF o
  <2>4. Ok("settling", ja, o, wa)
    BY <1>4, <2>2, <2>3, Zenon DEF Ok, OwnAt, OutAt, RanAt, PastAt, Tells, wa, NoJob, Ran
  <2> QED
    BY <1>1, <2>1, <2>4, Zenon DEF o
<1>11. CASE Settle(a)
  <2>0. ja = NoJob /\ pc[a] = "settling" /\ IsResult(oa, a)
    BY <1>3, <1>11, Zenon DEF Settle, Matches, OwnAt, OutAt
  <2>1. CASE To("answered", ja, oa, Indeterminate)
    BY <1>1, <1>4, <1>5, <2>0, <2>1, Zenon DEF PastAt
  <2>2. ASSUME NEW c,
               To("completing", [op |-> "complete", answer |-> "queued",
                                 seen |-> [oa EXCEPT !.certain = c]], [oa EXCEPT !.certain = c], wa)
        PROVE  AInv' /\ HandsOn
    <3> DEFINE o == [oa EXCEPT !.certain = c]
               h == [op |-> "complete", answer |-> "queued", seen |-> o]
    <3>1. IsResult(o, a)
      BY <2>0 DEF IsResult
    <3> HIDE DEF o
    <3>2. Ok("completing", h, o, wa)
      BY <2>0, <3>1, Zenon DEF Ok, OwnAt, OutAt, RanAt, PastAt, Tells, wa, Shown, Ran
    <3> QED
      BY <1>1, <2>2, <3>2, Zenon DEF o
  <2> QED
    BY <1>2, <1>11, <2>1, <2>2, Zenon DEF Settle, Unsettled, Answer, Goto, To, oa
<1>12. CASE Settled(a)
  <2>1. pc[a] = "completing" /\ ja.op = "complete" /\ ja.answer # "queued" /\ IsResult(oa, a)
    BY <1>3, <1>12, Zenon DEF Settled, Matches, OwnAt, OutAt, ja, NoJob
  <2>2. \/ To("answered", NoJob, oa, Told(oa)) \/ To("answered", NoJob, oa, Refused)
        \/ To("answered", NoJob, oa, Indeterminate)
    BY <1>2, <1>12, Zenon DEF Settled, Unsettled, Answer, Goto, Taken, To, oa
  <2>3. PastAt("answered", NoJob)
    BY Zenon DEF PastAt, RanAt, NoJob
  <2>4. Tells(a, Told(oa), "answered", NoJob, oa)
    BY <2>1, <2>3, Zenon DEF Tells, Told, Ran, OutAt, oa
  <2>5. ASSUME NEW w, w.kind # "result" \/ w = Told(oa)
        PROVE  Ok("answered", NoJob, oa, w)
    BY <1>4, <2>1, <2>3, <2>4, <2>5, Zenon DEF Ok, OwnAt, OutAt, RanAt, oa, NoJob
  <2> QED
    BY <1>1, <1>4, <2>2, <2>5, Zenon
<1>13. CASE StartRelease(a)
  <2> DEFINE h == [op |-> "release", answer |-> "queued", seen |-> None]
  <2>1. \/ To("releasing", h, oa, wa) \/ To("endedReleasing", h, oa, wa)
        \/ To("answered", ja, oa, Refused)
    BY <1>2, <1>13, Zenon DEF StartRelease, Goto, Answer, Leave, Hand, To
  <2>2. ja = NoJob /\ pc[a] \in {"refused", "ended"}
    BY <1>3, <1>13, Zenon DEF StartRelease, Matches
  <2>3. Ok("releasing", h, oa, wa) /\ Ok("endedReleasing", h, oa, wa)
    BY <2>2, Zenon DEF Ok, OwnAt, OutAt, RanAt, PastAt, Shown, Tells, wa
  <2> HIDE DEF h
  <2> QED
    BY <1>1, <1>4, <1>5, <2>1, <2>2, <2>3, Zenon DEF PastAt
<1>14. CASE Released(a)
  <2>1. pc[a] \in {"releasing", "endedReleasing"}
    BY <1>14, Zenon DEF Released
  <2>2. To("answered", NoJob, oa, Refused) \/ To("answered", NoJob, oa, Indeterminate)
    BY <1>2, <1>14, Zenon DEF Released, Leave, Answer, Goto, Taken, To
  <2>3. Ok("answered", NoJob, oa, Refused) /\ Ok("answered", NoJob, oa, Indeterminate)
    BY <1>4, <2>1, Zenon DEF Ok, OwnAt, OutAt, RanAt, PastAt, NoJob
  <2> QED
    BY <1>1, <2>2, <2>3, Zenon
<1>15. CASE Execute(a) /\ UNCHANGED runs
  <2>1. ja = NoJob /\ pc[a] = "consuming"
    BY <1>3, <1>15, Zenon DEF Execute, Matches
  <2>2. runs[Key(a)] \in Nat /\ Key(a) \in Keys
    BY Zenon DEF AInv, IInv, Shape, Key
  <2>3. runs' # [runs EXCEPT ![Key(a)] = runs[Key(a)] + 1]
    BY <1>15, <2>2 DEF AInv, IInv, Shape
  <2>4. To("ended", ja, oa, wa) \/ To("answered", ja, oa, Indeterminate)
    BY <1>2, <1>15, <2>3, Zenon DEF Execute, Goto, Answer, To
  <2> QED
    BY <1>1, <1>4, <1>5, <2>1, <2>4 DEF PastAt
<1> QED
  BY <1>6, <1>7, <1>8, <1>9, <1>10, <1>11, <1>12, <1>13, <1>14, <1>15, Zenon DEF QuietStep

(* A transaction shows its caller what the row held, and writes only what the *)
(* attempt it belongs to produced.                                            *)
LEMMA TransactionTells ==
  ASSUME AInv, NEW a \in Requests, RunJob(a)
  PROVE  AInv' /\ HandsOn
<1> DEFINE oa == output[a]  wa == answer[a]
<1>0. IInv' /\ UNCHANGED <<setup, runs>>
  BY Transactions, Zenon DEF AInv
<1>1. /\ Matches(pc[a], job[a]) /\ job[a].answer = "queued" /\ OwnAt(pc[a], job[a], oa, a)
      /\ Key(a) \in Keys /\ rows = [k \in Keys |-> rows[k]]
  BY Zenon DEF AInv, IInv, JobsMatch, RunJob, Sources, Shape, Key
<1>2. job[a].op \in {"reserve", "complete", "release"}
  BY <1>1 DEF Matches, NoJob
<1>3. PICK what : /\ Return(a, what) /\ what # "queued"
                  /\ UNCHANGED storeVars \/ (Write(a) /\ Writes(JobAnswer(a)))
  <2>1. JobAnswer(a) # "queued"
    BY <1>2, Zenon DEF JobAnswer, ReserveAnswer, CompleteAnswer, ReleaseAnswer, Present
  <2> QED
    BY <2>1, Zenon DEF RunJob
<1> DEFINE j == IF pc[a] = "gone" THEN NoJob
                ELSE [op |-> job[a].op, answer |-> what, seen |-> rows[Key(a)]]
<1>4. /\ pc' = [pc EXCEPT ![a] = pc[a]] /\ job' = [job EXCEPT ![a] = j]
      /\ output' = [output EXCEPT ![a] = oa] /\ answer' = [answer EXCEPT ![a] = wa]
  BY <1>3, Zenon DEF RunJob, Return, AInv, IInv, Shape
<1>5. /\ PastAt(pc[a], job[a]) => PastAt(pc[a], j)
      /\ ~RanAt(pc[a], j)
      /\ Shown(j) => j.seen = rows[Key(a)] \/ j = job[a]
      /\ OwnAt(pc[a], j, oa, a)
  BY <1>1, <1>3 DEF PastAt, RanAt, Matches, Shown, OwnAt, OutAt, NoJob
<1>6. job[a].op = "complete" => /\ Ran(a) /\ PastAt(pc[a], j) /\ IsResult(oa, a)
                                /\ job[a].seen = oa
  BY <1>1, <1>5 DEF Ran, RanAt, PastAt, OwnAt, OutAt, Matches, NoJob
<1> HIDE DEF j
<1>7. \A k \in Keys : rows'[k].state = "committed" => Holds(a, k, rows'[k], pc[a], j, oa)
  <2>1. CASE UNCHANGED storeVars
    BY <2>1, Zenon DEF storeVars, Holds
  <2>2. ASSUME NEW r, rows' = [rows EXCEPT ![Key(a)] = r],
               r.state = "committed" => job[a].op = "complete" /\ r.hash = setup.hash[a] /\ r.result = oa
        PROVE  \A k \in Keys : rows'[k].state = "committed" => Holds(a, k, rows'[k], pc[a], j, oa)
    <3>1. \A k \in Keys : rows'[k] = IF k = Key(a) THEN r ELSE rows[k]
      BY <1>1, <2>2, Zenon
    <3> QED
      BY <1>6, <2>2, <3>1, Zenon DEF Holds, OutAt
  <2>3. CASE Write(a) /\ job[a].op = "reserve"
    <3>1. rows' = [rows EXCEPT ![Key(a)] = Mine(a)] /\ Mine(a).state # "committed"
      BY <2>3, Zenon DEF Write, Reserve, Mine, Pending
    <3> QED
      BY <2>2, <3>1, Zenon
  <2>4. CASE Write(a) /\ job[a].op = "release"
    <3>1. rows' = [rows EXCEPT ![Key(a)] = NoRow] /\ NoRow.state # "committed"
      BY <2>4, Zenon DEF Write, Release, NoRow
    <3> QED
      BY <2>2, <3>1, Zenon
  <2>5. CASE Write(a) /\ job[a].op = "complete"
    <3>1. rows[Key(a)] = Mine(a)
      BY <1>1, <2>5, Zenon DEF AInv, IInv, Owned, RanAt
    <3>2. /\ rows' = [rows EXCEPT ![Key(a)] = Committed(setup.hash[a], oa)]
      BY <1>6, <2>5, <3>1 DEF Write, Complete, Mine, Pending
    <3>3. /\ Committed(setup.hash[a], oa).hash = setup.hash[a]
          /\ Committed(setup.hash[a], oa).result = oa
      BY Zenon DEF Committed
    <3> QED
      BY <2>2, <2>5, <3>2, <3>3, Zenon
  <2> QED
    BY <1>2, <1>3, <2>1, <2>3, <2>4, <2>5, Zenon
<1>8. Steps(a, pc[a], j, oa, wa)
  BY <1>0, <1>4, <1>5, <1>7, Zenon DEF Steps, Tells, Ran
<1> QED
  BY <1>0, <1>8, StepsKeep, Zenon

(* A caller that goes away tells nothing.                                     *)
LEMMA DropTells ==
  ASSUME AInv, NEW a \in Requests, Drop(a)
  PROVE  AInv' /\ HandsOn
<1> DEFINE j == IF job[a].answer = "queued" THEN job[a] ELSE NoJob
           oa == output[a]  wa == answer[a]
<1>1. IInv' /\ UNCHANGED <<setup, runs, rows>>
  BY Drops, Zenon DEF AInv, core
<1>2. /\ pc' = [pc EXCEPT ![a] = "gone"] /\ job' = [job EXCEPT ![a] = j]
      /\ output' = [output EXCEPT ![a] = oa] /\ answer' = [answer EXCEPT ![a] = wa]
  BY Zenon DEF Drop, Goto, AInv
<1>3. OwnAt(pc[a], job[a], oa, a) /\ Matches(pc[a], job[a]) /\ pc[a] \notin {"answered", "gone"}
  BY Zenon DEF AInv, Sources, IInv, JobsMatch, Drop, Live, Holding, Leased
<1>4. /\ PastAt(pc[a], job[a]) => PastAt("gone", j)
      /\ RanAt("gone", j) => Ran(a)
      /\ Shown(j) => j = job[a]
      /\ OwnAt("gone", j, oa, a)
  BY <1>3, Zenon DEF PastAt, RanAt, Ran, Shown, OwnAt, OutAt, NoJob
<1> HIDE DEF j
<1>5. Steps(a, "gone", j, oa, wa)
  BY <1>1, <1>2, <1>4, Zenon DEF Steps, Tells, Holds
<1> QED
  BY <1>1, <1>5, StepsKeep, Zenon

(* A step that gives no new answer keeps what was said.                       *)
LEMMA SilentKeeps ==
  ASSUME AInv, IInv', UNCHANGED <<setup, output, answer>>,
         \A b \in Requests :
           /\ PastAt(pc[b], job[b]) => PastAt(pc'[b], job'[b])
           /\ Shown(job'[b]) => job'[b] = job[b]
           /\ OwnAt(pc'[b], job'[b], output[b], b),
         \A k \in Keys : rows'[k].state = "committed" => rows'[k] = rows[k]
  PROVE  /\ HandsOn /\ (OneProducer' => AInv')
         /\ \A k \in Keys : \A b \in Requests :
              Produced(k, b)' => Produced(k, b) \/ (Key(b) = k /\ Ran(b)')
<1>1. \A b \in Requests : Key(b)' = Key(b)
  BY Zenon DEF Key
<1>2. ASSUME NEW k, NEW h, NEW r, Sourced(k, h, r)
      PROVE  \E b \in Requests : /\ r.by = b /\ output'[b] = r
                                 /\ Key(b)' = k /\ setup'.hash[b] = h
                                 /\ PastAt(pc'[b], job'[b])
  BY <1>1, <1>2, Zenon DEF Sourced
<1>3. ASSUME NEW k \in Keys, rows'[k].state = "committed"
      PROVE  Sourced(k, rows[k].hash, rows[k].result)'
  <2>1. Sourced(k, rows[k].hash, rows[k].result) /\ rows'[k] = rows[k]
    BY <1>3, Zenon DEF AInv, Sources
  <2> QED
    BY <1>2, <2>1 DEF Sourced
<1>4. ASSUME NEW b \in Requests, Shown(job'[b])
      PROVE  Sourced(Key(b), job[b].seen.hash, job[b].seen.result)'
  <2>1. Sourced(Key(b), job[b].seen.hash, job[b].seen.result) /\ job'[b] = job[b]
    BY <1>4, Zenon DEF AInv, Sources
  <2> QED
    BY <1>1, <1>2, <2>1 DEF Sourced
<1>5. ASSUME NEW b \in Requests, answer'[b].kind = "result"
      PROVE  answer'[b] = Told(answer'[b].result) /\ Sourced(Key(b), setup.hash[b], answer[b].result)'
  <2>1. answer[b] = Told(answer[b].result) /\ Sourced(Key(b), setup.hash[b], answer[b].result)
    BY <1>5, Zenon DEF AInv, Sources
  <2> QED
    BY <1>1, <1>2, <2>1 DEF Sourced
<1>6. Sources'
  BY <1>3, <1>4, <1>5, Zenon DEF Sources, Shown, Told
<1>7. \A k \in Keys : \A b \in Requests :
        Produced(k, b)' => Produced(k, b) \/ (Key(b) = k /\ Ran(b)')
  BY <1>1, Zenon DEF Produced, Shown
<1>8. \A b \in Requests : Handed(b)' => Handed(b)
  BY Zenon DEF Handed, Shown
<1> QED
  BY <1>6, <1>7, <1>8, Zenon DEF AInv, HandsOn

(* Nobody new has run: results keep their one origin.                         *)
LEMMA SilentOneProducer ==
  ASSUME AInv, UNCHANGED runs,
         \A k \in Keys : \A b \in Requests :
           Produced(k, b)' => Produced(k, b) \/ (Key(b) = k /\ Ran(b)'),
         \A b \in Requests : Ran(b)' => Ran(b)
  PROVE  OneProducer'
<1>1. \A k \in Keys : \A b \in Requests : Produced(k, b)' => Produced(k, b)
  BY Zenon DEF Produced
<1> QED
  BY <1>1, Zenon DEF AInv, OneProducer

(* The start of a program: there was no result of its identity before.        *)
LEMMA StartTells ==
  ASSUME AInv, NEW a \in Requests, Execute(a), ~UNCHANGED runs
  PROVE  AInv' /\ HandsOn
<1>1. /\ IInv' /\ UNCHANGED <<setup, rows, job, output>> /\ rows[Key(a)] = Mine(a)
      /\ runs[Key(a)] = 0 /\ runs' = [runs EXCEPT ![Key(a)] = 1]
  BY Starts, Zenon DEF AInv, core, Execute, control, storeVars
<1>2. pc[a] = "consuming" /\ pc' = [pc EXCEPT ![a] = "executing"] /\ UNCHANGED answer
  BY Zenon DEF Execute, Goto
<1>3. pc'[a] = "executing" /\ \A b \in Requests : b # a => pc'[b] = pc[b]
  BY <1>2, Zenon DEF AInv, IInv, Shape
<1>4. Key(a) \in Keys /\ \A k \in Keys : runs'[k] = IF k = Key(a) THEN 1 ELSE runs[k]
  BY <1>1, Zenon DEF AInv, IInv, Shape, Key
<1>5. \A b \in Requests :
        /\ PastAt(pc[b], job[b]) => PastAt(pc'[b], job'[b])
        /\ Shown(job'[b]) => job'[b] = job[b]
        /\ OwnAt(pc'[b], job'[b], output[b], b)
  <2>1. \A b \in Requests : OwnAt(pc[b], job[b], output[b], b)
    BY Zenon DEF AInv, Sources
  <2> QED
    BY <1>1, <1>2, <1>3, <2>1, Zenon DEF PastAt, OwnAt, OutAt
<1>6. \A k \in Keys : rows'[k].state = "committed" => rows'[k] = rows[k]
  BY <1>1, Zenon
<1>7. /\ HandsOn /\ (OneProducer' => AInv')
      /\ \A k \in Keys : \A b \in Requests :
           Produced(k, b)' => Produced(k, b) \/ (Key(b) = k /\ Ran(b)')
  BY <1>1, <1>2, <1>5, <1>6, SilentKeeps, Zenon
<1>8. \A b \in Requests : Ran(b)' => Ran(b) \/ b = a
  BY <1>1, <1>3, Zenon DEF Ran
<1>9. \A b \in Requests : ~Produced(Key(a), b)
  BY <1>1, <1>4 DEF AInv, OneProducer
<1>10. \A k \in Keys : \A b \in Requests :
         Produced(k, b)' => IF k = Key(a) THEN b = a ELSE Produced(k, b)
  BY <1>7, <1>8, <1>9 DEF Produced
<1>11. OneProducer'
  BY <1>4, <1>10 DEF AInv, OneProducer
<1> QED
  BY <1>7, <1>11, Zenon

(* Everything else: a crash, the host's operations, the clock.                *)
LEMMA OtherTells ==
  ASSUME AInv, Crash \/ CloseEpoch \/ Aside \/ (\E k \in Keys : RetireResult(k))
  PROVE  AInv' /\ HandsOn
<1>1. IInv' /\ UNCHANGED <<setup, runs, output, answer>>
  BY Crashes, Closes, Asides, Retires, Zenon DEF AInv, core, Crash, CloseEpoch, RetireResult, Aside,
     CancelRequest, Withdraw, Clock, Sweeper, vars, control, attempts, Fault
<1>2. \A k \in Keys : rows'[k].state = "committed" => rows'[k] = rows[k]
  <2>1. CASE Crash \/ Aside
    BY <2>1, Crashes, Asides, Zenon DEF AInv, core
  <2>2. CASE CloseEpoch
    BY <2>2, Closes, Zenon DEF AInv
  <2>3. ASSUME NEW k \in Keys, RetireResult(k)
        PROVE  \A i \in Keys : rows'[i].state = "committed" => rows'[i] = rows[i]
    BY <2>3, Retires, Zenon DEF AInv
  <2> QED
    BY <2>1, <2>2, <2>3, Zenon
<1>3. \A b \in Requests : OwnAt(pc[b], job[b], output[b], b)
  BY Zenon DEF AInv, Sources
<1>4. \A b \in Requests :
        /\ PastAt(pc[b], job[b]) => PastAt(pc'[b], job'[b])
        /\ Shown(job'[b]) => job'[b] = job[b]
        /\ OwnAt(pc'[b], job'[b], output[b], b)
        /\ Ran(b)' => Ran(b)
  <2>1. CASE Crash
    <3>1. \A b \in Requests : job'[b] = NoJob /\ pc'[b] = IF pc[b] \in Live THEN "gone" ELSE pc[b]
      BY <2>1, Zenon DEF Crash
    <3> QED
      BY <3>1 DEF PastAt, RanAt, Ran, Shown, OwnAt, OutAt, NoJob, Live, Holding, Leased
  <2>2. CASE ~Crash
    <3>1. UNCHANGED <<pc, job>>
      BY <2>2, Zenon DEF CloseEpoch, RetireResult, Aside, CancelRequest, Withdraw, Clock, Sweeper,
                  vars, attempts
    <3> QED
      BY <1>3, <3>1, Zenon DEF Ran
  <2> QED
    BY <2>1, <2>2, Zenon
<1>5. /\ HandsOn /\ (OneProducer' => AInv')
      /\ \A k \in Keys : \A b \in Requests :
           Produced(k, b)' => Produced(k, b) \/ (Key(b) = k /\ Ran(b)')
  BY <1>1, <1>2, <1>4, SilentKeeps, Zenon
<1>6. OneProducer'
  BY <1>1, <1>4, <1>5, SilentOneProducer, Zenon
<1> QED
  BY <1>5, <1>6, Zenon

(* Every result has one origin, in every behaviour.                           *)
THEOREM ResultsHaveOneOrigin == Spec => []AInv
<1>1. ASSUME Init, IInv PROVE AInv
  <2>1. \A a \in Requests : /\ pc[a] = "idle" /\ job[a] = NoJob /\ answer[a] = NoAnswer
    BY <1>1, Zenon DEF Init
  <2>2. \A k \in Keys : rows[k].state # "committed"
    BY <1>1, Zenon DEF Init, StoreInit, NoRow
  <2>3. \A a \in Requests : /\ ~Ran(a) /\ ~Shown(job[a]) /\ answer[a].kind # "result"
                            /\ OwnAt(pc[a], job[a], output[a], a)
    BY <2>1 DEF Ran, RanAt, Shown, OwnAt, OutAt, NoJob, NoAnswer
  <2>4. OneProducer /\ Sources
    BY <2>2, <2>3, Zenon DEF OneProducer, Produced, Sources
  <2> QED
    BY <1>1, <2>4, Zenon DEF AInv, Init
<1>2. AInv /\ [Next]_vars => AInv'
  BY QuietTells, StartTells, TransactionTells, DropTells, OtherTells, Kinds, Zenon
<1> QED
  BY <1>1, <1>2, ReservationsOwned, PTL DEF Spec

(* Callers that were told a result of one request were told the same one, and *)
(* it is the result of what they submitted: settling, replaying, dropping and *)
(* crashing never mix results up.                                             *)
THEOREM AnswersAlwaysAgree == Spec => []AnswersAgree
<1>1. AInv => AnswersAgree
  <2> SUFFICES ASSUME AInv, NEW a \in Requests, NEW b \in Requests, answer[a].kind = "result"
               PROVE  /\ setup.hash[answer[a].result.by] = setup.hash[a]
                      /\ answer[b].kind = "result" /\ Key(a) = Key(b) => answer[a] = answer[b]
    BY Zenon DEF AnswersAgree
  <2>1. Sourced(Key(a), setup.hash[a], answer[a].result)
    BY Zenon DEF AInv, Sources
  <2>2. ASSUME answer[b].kind = "result", Key(a) = Key(b) PROVE answer[a] = answer[b]
    <3>1. /\ answer[a] = Told(answer[a].result) /\ answer[b] = Told(answer[b].result)
          /\ Sourced(Key(b), setup.hash[b], answer[b].result)
      BY <2>2, Zenon DEF AInv, Sources
    <3>2. PICK c \in Requests : answer[a].result.by = c /\ output[c] = answer[a].result
      BY <2>1, Zenon DEF Sourced
    <3>3. PICK d \in Requests : answer[b].result.by = d /\ output[d] = answer[b].result
      BY <3>1, Zenon DEF Sourced
    <3>4. Produced(Key(a), c) /\ Produced(Key(a), d) /\ Key(a) \in Keys
      BY <2>2, <3>2, <3>3, Zenon DEF Produced, AInv, IInv, Shape, Key
    <3>5. c = d
      BY <3>4, Zenon DEF AInv, OneProducer
    <3> QED
      BY <3>1, <3>2, <3>3, <3>5, Zenon
  <2> QED
    BY <2>1, <2>2, Zenon DEF Sourced
<1> QED
  BY <1>1, ResultsHaveOneOrigin, PTL

----------------------------------------------------------------------------
(* Cancellation.  Whoever can be told that a is cancelled is told so because  *)
(* no other outcome of a can come any more.                                   *)
Remembered(a) == a \in acked \/ entries[a] = "cancelled" \/ \E e \in history : e.of = a
Unfrozen == {"accepted", "consuming", "executing"}

(* The entry of a cancelled attempt stays cancelled until its outcome is      *)
(* frozen, and that outcome is what is settled.                               *)
BoundAt(where, j, o, st) ==
  /\ where \notin {"idle"} \cup Holding
  /\ where \in Unfrozen => st = "cancelled"
  /\ OutAt(where, j) => o.outcome = "cancelled"
Cancels ==
  \A a \in Requests :
    /\ entries[a] # "none" => pc[a] \in Leased
    /\ entries[a] = "running" => pc[a] \in Unfrozen
    /\ Remembered(a) => /\ BoundAt(pc[a], job[a], output[a], entries[a])
                        /\ Handed(a) => output[a].outcome = "cancelled"

(* The inductive invariant for cancellation.                                  *)
CInv ==
  /\ AInv /\ Cancels
  /\ entries = [a \in Requests |-> entries[a]]
  /\ now \in Nat /\ setup.deadline \in [Requests -> Nat]

(* An attempt whose outcome is open has handed nothing on.                    *)
LEMMA UnfrozenIsSilent ==
  ASSUME AInv, NEW a \in Requests, pc[a] \in Unfrozen
  PROVE  ~Handed(a) /\ job[a] = NoJob /\ ~OutAt(pc[a], job[a])
<1>1. job[a] = NoJob
  BY Zenon DEF AInv, IInv, JobsMatch, Matches, Unfrozen
<1>2. ~PastAt(pc[a], job[a])
  BY Zenon DEF PastAt, Unfrozen
<1>3. \A k, h, r : Sourced(k, h, r) => r.by # a
  BY <1>2, Zenon DEF Sourced
<1>4. ~Handed(a)
  BY <1>3, Zenon DEF Handed, AInv, Sources
<1> QED
  BY <1>1, <1>4 DEF OutAt, Unfrozen, NoJob

(* A step may make an attempt known as cancelled only if it was, or if its    *)
(* entry was running.                                                         *)
LEMMA CancelsStep ==
  ASSUME CInv, HandsOn,
         \A b \in Requests :
           /\ entries'[b] # "none" => pc'[b] \in Leased
           /\ entries'[b] = "running" => pc'[b] \in Unfrozen
           /\ Remembered(b)' => /\ Remembered(b) \/ entries[b] = "running"
                                /\ BoundAt(pc'[b], job'[b], output'[b], entries'[b])
  PROVE  Cancels'
<1>1. ASSUME NEW b \in Requests, Remembered(b)', Handed(b)'
      PROVE  output'[b].outcome = "cancelled"
  <2>1. output'[b] = output[b] /\ (Handed(b) \/ OutAt(pc[b], job[b]))
    BY <1>1, Zenon DEF HandsOn
  <2>2. CASE Remembered(b)
    BY <2>1, <2>2, Zenon DEF CInv, Cancels, BoundAt
  <2>3. CASE entries[b] = "running"
    <3>1. pc[b] \in Unfrozen
      BY <2>3, Zenon DEF CInv, Cancels
    <3> QED
      BY <2>1, <3>1, UnfrozenIsSilent, Zenon DEF CInv
  <2> QED
    BY <1>1, <2>2, <2>3, Zenon
<1> QED
  BY <1>1, Zenon DEF Cancels

(* A step of one attempt that leaves its entry in state st.                   *)
LEMMA CancelsMove ==
  ASSUME CInv, AInv', HandsOn, NEW a \in Requests, NEW where, NEW j, NEW o, NEW st,
         pc' = [pc EXCEPT ![a] = where], job' = [job EXCEPT ![a] = j],
         output' = [output EXCEPT ![a] = o], entries' = [entries EXCEPT ![a] = st],
         UNCHANGED <<acked, now, setup>>,
         \A e \in history' : \/ e \in history
                             \/ e.of = a /\ entries[a] \in {"cancelled", "running"},
         st # "none" => where \in Leased,
         st = "running" => where \in Unfrozen,
         st = "cancelled" => entries[a] = "cancelled",
         Remembered(a) => BoundAt(where, j, o, st),
         entries[a] = "running" /\ (\E e \in history' : e \notin history) =>
           BoundAt(where, j, o, st)
  PROVE  CInv'
<1>1. /\ pc'[a] = where /\ job'[a] = j /\ output'[a] = o /\ entries'[a] = st
      /\ \A b \in Requests : b # a => /\ pc'[b] = pc[b] /\ job'[b] = job[b]
                                      /\ output'[b] = output[b] /\ entries'[b] = entries[b]
  BY Zenon DEF CInv, AInv, IInv, Shape
<1>2. ASSUME NEW b \in Requests, b # a
      PROVE  /\ entries'[b] # "none" => pc'[b] \in Leased
             /\ entries'[b] = "running" => pc'[b] \in Unfrozen
             /\ Remembered(b)' => /\ Remembered(b)
                                  /\ BoundAt(pc'[b], job'[b], output'[b], entries'[b])
  <2>1. Remembered(b)' => Remembered(b)
    BY <1>1, <1>2, Zenon DEF Remembered
  <2> QED
    BY <1>1, <1>2, <2>1, Zenon DEF CInv, Cancels
<1>3. Remembered(a)' => /\ Remembered(a) \/ entries[a] = "running"
                        /\ BoundAt(where, j, o, st)
  <2>1. CASE Remembered(a)
    BY <2>1, Zenon
  <2>2. CASE ~Remembered(a)
    BY <1>1, <2>2, Zenon DEF Remembered
  <2> QED
    BY <2>1, <2>2, Zenon
<1>4. Cancels'
  BY <1>1, <1>2, <1>3, CancelsStep
<1> QED
  BY <1>4, Zenon DEF CInv

(* What the end of a lease adds to the remembered cancellations.              *)
LEMMA LeaseEnds ==
  ASSUME NEW a \in Requests, NEW cl, NEW u, EndLease(a, cl, u)
  PROVE  /\ entries' = [entries EXCEPT ![a] = "none"] /\ UNCHANGED now
         /\ \A e \in history' : \/ e \in history
                                \/ e.of = a /\ entries[a] = "cancelled"
                                \/ e.of = a /\ entries[a] = "running" /\ u = "cancelled"
<1>1. \A h : Prune(h) \subseteq h
  BY Zenon DEF Prune
<1>2. \A x : \A e \in Remember(a, x) : e \in history \/ e.of = a
  <2> TAKE x
  <2> DEFINE n == [of |-> a, until |-> x, at |-> Max({0} \cup {e.at : e \in history}) + 1]
  <2>1. Remember(a, x) = Prune(history \cup {n}) /\ n.of = a
    BY Zenon DEF Remember
  <2> HIDE DEF n
  <2> QED
    BY <1>1, <2>1, Zenon
<1> QED
  BY <1>1, <1>2, Zenon DEF EndLease

(* A step of an attempt that leaves the registry's tables alone.              *)
LEMMA CancelsSame ==
  ASSUME CInv, AInv', HandsOn, NEW a \in Requests, NEW where, NEW j, NEW o,
         pc' = [pc EXCEPT ![a] = where], job' = [job EXCEPT ![a] = j],
         output' = [output EXCEPT ![a] = o],
         UNCHANGED <<entries, history, acked, now, setup>>,
         \/ pc[a] \in {"idle"} \cup Holding
         \/ /\ entries[a] # "none" => where \in Leased
            /\ entries[a] = "running" => where \in Unfrozen
            /\ Remembered(a) => BoundAt(where, j, o, entries[a])
  PROVE  CInv'
<1>1. entries' = [entries EXCEPT ![a] = entries[a]]
  BY Zenon DEF CInv
<1>2. CASE pc[a] \in {"idle"} \cup Holding
  <2>1. entries[a] = "none" /\ ~Remembered(a)
    BY <1>2, Zenon DEF CInv, Cancels, BoundAt, Leased, Holding
  <2> QED
    BY <1>1, <2>1, CancelsMove, Zenon
<1>3. CASE pc[a] \notin {"idle"} \cup Holding
  BY <1>1, <1>3, CancelsMove, Zenon
<1> QED
  BY <1>2, <1>3, Zenon

(* The end of an attempt's lease.                                             *)
LEMMA CancelsEnd ==
  ASSUME CInv, AInv', HandsOn, NEW a \in Requests, NEW where, NEW j, NEW o, NEW cl, NEW u,
         pc' = [pc EXCEPT ![a] = where], job' = [job EXCEPT ![a] = j],
         output' = [output EXCEPT ![a] = o],
         UNCHANGED <<acked, setup>>, EndLease(a, cl, u),
         where \in {"ended", "answered", "gone"},
         OutAt(where, j) => OutAt(pc[a], job[a]) /\ o = output[a]
  PROVE  CInv'
<1>1. /\ entries' = [entries EXCEPT ![a] = "none"] /\ UNCHANGED now
      /\ \A e \in history' : \/ e \in history
                             \/ e.of = a /\ entries[a] \in {"cancelled", "running"}
  BY LeaseEnds, Zenon
<1>2. where \notin {"idle"} \cup Holding /\ where \notin Unfrozen
  BY Zenon DEF Holding, Unfrozen
<1>3. Remembered(a) => BoundAt(where, j, o, "none")
  BY <1>2, Zenon DEF BoundAt, CInv, Cancels
<1>4. entries[a] = "running" => BoundAt(where, j, o, "none")
  <2>1. entries[a] = "running" => ~OutAt(pc[a], job[a])
    BY UnfrozenIsSilent, Zenon DEF CInv, Cancels
  <2> QED
    BY <1>2, <2>1, Zenon DEF BoundAt
<1> HIDE DEF CInv
<1> QED
  BY <1>1, <1>3, <1>4, CancelsMove, Zenon

(* The steps of an attempt, of its transactions and of its caller.            *)
LEMMA AttemptCancels ==
  ASSUME CInv, NEW a \in Requests, QuietStep(a) \/ Execute(a) \/ RunJob(a) \/ Drop(a)
  PROVE  CInv'
<1> DEFINE To(where, j, o) ==
             /\ pc' = [pc EXCEPT ![a] = where] /\ job' = [job EXCEPT ![a] = j]
             /\ output' = [output EXCEPT ![a] = o]
           ja == job[a]  oa == output[a]
<1>0. AInv' /\ HandsOn
  BY QuietTells, StartTells, TransactionTells, DropTells, Zenon DEF CInv
<1>1. UNCHANGED <<acked, setup>>
  BY Zenon DEF QuietStep, Prepare, StartReserve, Reserved, Lower, Insert, EnsureLive, Execute, Evaluate,
         Settle, Settled, StartRelease, Released, RunJob, Drop, control, Fault
<1>2. /\ pc = [pc EXCEPT ![a] = pc[a]]
      /\ job = [job EXCEPT ![a] = ja] /\ output = [output EXCEPT ![a] = oa]
  BY Zenon DEF CInv, AInv, IInv, Shape
<1>3. /\ Matches(pc[a], ja) /\ (entries[a] # "none" => pc[a] \in Leased)
      /\ entries[a] = "running" => pc[a] \in Unfrozen
      /\ Remembered(a) => BoundAt(pc[a], ja, oa, entries[a])
  BY Zenon DEF CInv, AInv, IInv, JobsMatch, Cancels
<1>4. ASSUME NEW where, NEW j, NEW o, To(where, j, o), UNCHANGED <<entries, history, now>>,
             \/ pc[a] \in {"idle"} \cup Holding
             \/ /\ entries[a] # "none" => where \in Leased
                /\ entries[a] = "running" => where \in Unfrozen
                /\ Remembered(a) => BoundAt(where, j, o, entries[a])
      PROVE  CInv'
  BY <1>0, <1>1, <1>4, CancelsSame, Zenon
<1>5. ASSUME NEW where, NEW j, NEW u, To(where, j, oa), EndLease(a, setup.classes[a], u),
             where \in {"ended", "answered", "gone"}, OutAt(where, j) => OutAt(pc[a], ja)
      PROVE  CInv'
  BY <1>0, <1>1, <1>5, CancelsEnd, Zenon
<1>6. ~OutAt("ended", NoJob) /\ ~OutAt("answered", NoJob) /\ ~OutAt("gone", NoJob)
  BY Zenon DEF OutAt, NoJob
<1> HIDE DEF To, ja, oa
<1>7. CASE Prepare(a) \/ StartReserve(a) \/ Reserved(a) \/ Lower(a)
  <2>1. /\ pc[a] \in {"idle"} \cup Holding
        /\ UNCHANGED <<entries, history, now, output>>
    BY <1>7, Zenon DEF Prepare, StartReserve, Reserved, Lower, Leave, TryAdmit, registryVars, tables, Holding
  <2>2. \E where, j : To(where, j, oa)
    <3>1. CASE Prepare(a) \/ Lower(a)
      BY <1>2, <3>1, Zenon DEF Prepare, Lower, Goto, Answer, To
    <3>2. CASE StartReserve(a)
      BY <1>2, <3>2, Zenon DEF StartReserve, Goto, Answer, Leave, Hand, To
    <3>3. CASE Reserved(a)
      <4>1. job' = [job EXCEPT ![a] = NoJob]
        BY <3>3, Zenon DEF Reserved, Taken
      <4>2. \E where : pc' = [pc EXCEPT ![a] = where]
        BY <3>3, Zenon DEF Reserved, Goto, Answer, Leave
      <4> QED
        BY <1>2, <2>1, <4>1, <4>2, Zenon DEF To
    <3> QED
      BY <1>7, <3>1, <3>2, <3>3, Zenon
  <2> QED
    BY <1>4, <2>1, <2>2, Zenon
<1>8. CASE StartRelease(a) \/ Released(a)
  <2>1. /\ pc[a] \in {"refused", "ended", "releasing", "endedReleasing"}
        /\ UNCHANGED <<entries, history, now, output>>
    BY <1>8, Zenon DEF StartRelease, Released, Leave, registryVars, tables
  <2>2. PICK where, j : /\ To(where, j, oa)
                        /\ pc[a] \notin Holding => where \in {"endedReleasing", "answered"}
                        /\ j.op \in {"none", "release"}
    <3> DEFINE h == [op |-> "release", answer |-> "queued", seen |-> None]
    <3>1. h.op = "release" /\ NoJob.op = "none"
      BY Zenon DEF NoJob
    <3>2. CASE StartRelease(a)
      <4>1. ja = NoJob
        BY <1>3, <3>2, Zenon DEF StartRelease, Matches
      <4>2. \/ pc[a] = "refused" /\ To("releasing", h, oa)
            \/ To("endedReleasing", h, oa) \/ To("answered", ja, oa)
        BY <1>2, <3>2, Zenon DEF StartRelease, Goto, Answer, Leave, Hand, To
      <4> HIDE DEF h
      <4> QED
        BY <3>1, <4>1, <4>2, Zenon DEF Holding
    <3>3. CASE Released(a)
      <4>1. To("answered", NoJob, oa)
        BY <1>2, <3>3, Zenon DEF Released, Goto, Answer, Leave, Taken, To
      <4> QED
        BY <3>1, <4>1, Zenon
    <3> QED
      BY <1>8, <3>2, <3>3, Zenon
  <2>3. CASE pc[a] \notin Holding
    <3>1. entries[a] = "none" /\ ~OutAt(where, j)
      BY <1>3, <2>1, <2>2, <2>3, Zenon DEF Leased, OutAt
    <3>2. BoundAt(where, j, oa, entries[a])
      BY <2>2, <2>3, <3>1, Zenon DEF BoundAt, Holding, Unfrozen
    <3> QED
      BY <1>4, <2>1, <2>2, <3>1, <3>2, Zenon
  <2> QED
    BY <1>4, <2>1, <2>2, <2>3, Zenon
<1>9. CASE Insert(a)
  <2>1. pc[a] = "budgeted" /\ UNCHANGED <<job, output, now>>
    BY <1>9, Zenon DEF Insert
  <2>2. CASE UNCHANGED <<entries, history>> /\ Goto(a, "refused")
    BY <1>2, <1>4, <2>1, <2>2, Zenon DEF Holding, Goto, To
  <2>3. CASE InsertRunning(a, Deadline(a)) /\ Goto(a, "accepted")
    <3>1. entries[a] = "none" /\ ~Remembered(a)
      BY <1>3, <2>1, Zenon DEF BoundAt, Leased, Holding
    <3>2. entries' = [entries EXCEPT ![a] = "running"] /\ history' \subseteq history
      BY <2>3, Zenon DEF InsertRunning, Prune
    <3>3. To("accepted", ja, oa) /\ "accepted" \in Leased /\ "accepted" \in Unfrozen
      BY <1>2, <2>1, <2>3, Zenon DEF To, Goto, Leased, Unfrozen
    <3>4. /\ \A e \in history' : e \in history
          /\ pc' = [pc EXCEPT ![a] = "accepted"] /\ job' = [job EXCEPT ![a] = ja]
          /\ output' = [output EXCEPT ![a] = oa] /\ UNCHANGED <<acked, now, setup>>
      BY <1>1, <2>1, <3>2, <3>3, Zenon DEF To
    <3> QED
      BY <1>0, <3>1, <3>2, <3>3, <3>4, CancelsMove, Zenon
  <2> QED
    BY <1>9, <2>2, <2>3, Zenon DEF Insert, tables
<1>10. CASE EnsureLive(a)
  <2>1. pc[a] = "accepted" /\ UNCHANGED <<job, output>>
    BY <1>10, Zenon DEF EnsureLive
  <2>2. ja = NoJob
    BY <1>3, <2>1, Zenon DEF Matches
  <2>3. CASE UNCHANGED registryVars /\ Goto(a, "consuming")
    <3>1. Remembered(a) => BoundAt("consuming", ja, oa, entries[a])
      BY <1>3, <2>1, <2>2, Zenon DEF BoundAt, Holding, Unfrozen, OutAt, NoJob
    <3>2. To("consuming", ja, oa) /\ "consuming" \in Leased /\ "consuming" \in Unfrozen
      BY <1>2, <2>1, <2>3, Zenon DEF To, Goto, Leased, Unfrozen
    <3> QED
      BY <1>4, <2>3, <3>1, <3>2, Zenon DEF registryVars
  <2>4. CASE EndLease(a, setup.classes[a], "cancelled") /\ Goto(a, "ended")
    <3>1. To("ended", ja, oa)
      BY <1>2, <2>1, <2>4, Zenon DEF To, Goto
    <3> QED
      BY <1>5, <1>6, <2>2, <2>4, <3>1, Zenon
  <2> QED
    BY <1>10, <2>3, <2>4, Zenon DEF EnsureLive
<1>11. CASE Execute(a)
  <2>1. pc[a] = "consuming" /\ UNCHANGED <<job, output>>
    BY <1>11, Zenon DEF Execute
  <2>2. ja = NoJob
    BY <1>3, <2>1, Zenon DEF Matches
  <2>3. CASE UNCHANGED registryVars /\ Goto(a, "executing")
    <3>1. Remembered(a) => BoundAt("executing", ja, oa, entries[a])
      BY <1>3, <2>1, <2>2, Zenon DEF BoundAt, Holding, Unfrozen, OutAt, NoJob
    <3>2. To("executing", ja, oa) /\ "executing" \in Leased /\ "executing" \in Unfrozen
      BY <1>2, <2>1, <2>3, Zenon DEF To, Goto, Leased, Unfrozen
    <3> QED
      BY <1>4, <2>3, <3>1, <3>2, Zenon DEF registryVars
  <2>4. CASE /\ EndLease(a, setup.classes[a], "cancelled")
             /\ Goto(a, "ended") \/ Answer(a, Indeterminate)
    <3>1. To("ended", ja, oa) \/ To("answered", ja, oa)
      BY <1>2, <2>1, <2>4, Zenon DEF To, Goto, Answer
    <3> QED
      BY <1>5, <1>6, <2>2, <2>4, <3>1, Zenon
  <2> QED
    BY <1>11, <2>3, <2>4, Zenon DEF Execute
<1>12. CASE Evaluate(a)
  <2>1. PICK r \in setup.results :
          /\ FinishExecution(a, r.outcome, Deadline(a))
          /\ output' = [output EXCEPT ![a] =
               [outcome |-> FrozenOutcome(entries'[a], r.outcome),
                certain |-> r.certain, size |-> r.size, by |-> a]]
    BY <1>12, Zenon DEF Evaluate
  <2> DEFINE st == FrozenState(a, r.outcome, Deadline(a))
             o == [outcome |-> FrozenOutcome(st, r.outcome),
                   certain |-> r.certain, size |-> r.size, by |-> a]
  <2>2. pc[a] = "executing" /\ ja = NoJob /\ pc' = [pc EXCEPT ![a] = "settling"] /\ UNCHANGED job
    BY <1>3, <1>12, Zenon DEF Evaluate, Matches, Goto
  <2>3. entries' = [entries EXCEPT ![a] = st] /\ history' \subseteq history /\ UNCHANGED now
    BY <2>1, Zenon DEF FinishExecution, Prune
  <2>4. entries'[a] = st
    BY <2>3, Zenon DEF CInv
  <2>5. To("settling", ja, o)
    BY <1>2, <2>1, <2>2, <2>4, Zenon DEF To
  <2>6. Deadline(a) \in Nat /\ now \in Nat
    BY Zenon DEF CInv, Deadline
  <2>7. st # "running" /\ (st = "cancelled" <=> entries[a] = "cancelled")
    BY <2>6 DEF FrozenState
  <2>8. st = "cancelled" => o.outcome = "cancelled"
    BY Zenon DEF FrozenOutcome
  <2> HIDE DEF st, o
  <2>9. Remembered(a) => BoundAt("settling", ja, o, st)
    <3>1. Remembered(a) => entries[a] = "cancelled"
      BY <1>3, <2>2, Zenon DEF BoundAt, Unfrozen
    <3> QED
      BY <2>7, <2>8, <3>1, Zenon DEF BoundAt, Holding, Unfrozen
  <2>10. "settling" \in Leased
    BY Zenon DEF Leased
  <2> QED
    BY <1>0, <1>1, <2>3, <2>5, <2>7, <2>9, <2>10, CancelsMove, Zenon DEF To
<1>13. CASE Settle(a)
  <2>1. pc[a] = "settling" /\ ja = NoJob /\ entries[a] # "running" /\ OutAt(pc[a], ja)
    BY <1>3, <1>13, Zenon DEF Settle, Matches, Unfrozen, OutAt
  <2>2. CASE Unsettled(a) /\ UNCHANGED <<job, output>>
    <3>1. To("answered", ja, oa)
      BY <1>2, <2>2, Zenon DEF Unsettled, Answer, Goto, To
    <3> QED
      BY <1>5, <2>1, <2>2, <3>1, Zenon DEF Unsettled
  <2>3. ASSUME NEW c, UNCHANGED registryVars, Goto(a, "completing"),
               output' = [output EXCEPT ![a] = [oa EXCEPT !.certain = c]],
               job' = [job EXCEPT ![a] = [op |-> "complete", answer |-> "queued",
                                          seen |-> [oa EXCEPT !.certain = c]]]
        PROVE  CInv'
    <3> DEFINE o == [oa EXCEPT !.certain = c]
               h == [op |-> "complete", answer |-> "queued", seen |-> o]
    <3>1. o.outcome = oa.outcome
      <4>1. IsResult(oa, a)
        BY <2>1, Zenon DEF CInv, AInv, Sources, OwnAt, OutAt, oa
      <4> QED
        BY <4>1, Zenon DEF IsResult
    <3>2. To("completing", h, o) /\ "completing" \in Leased
      BY <2>3, Zenon DEF Goto, To, Leased
    <3> HIDE DEF o, h
    <3>3. Remembered(a) => BoundAt("completing", h, o, entries[a])
      BY <1>3, <2>1, <3>1, Zenon DEF BoundAt, Holding, Unfrozen
    <3> QED
      BY <1>4, <2>1, <2>3, <3>2, <3>3, Zenon DEF registryVars
  <2> QED
    BY <1>13, <2>2, <2>3, Zenon DEF Settle, oa
<1>14. CASE Settled(a)
  <2>1. \E u : EndLease(a, setup.classes[a], u)
    BY <1>14, Zenon DEF Settled, Unsettled
  <2>2. To("answered", NoJob, oa)
    BY <1>2, <1>14, Zenon DEF Settled, Unsettled, Answer, Goto, Taken, To
  <2> QED
    BY <1>5, <1>6, <2>1, <2>2, Zenon
<1>15. CASE RunJob(a)
  <2>1. PICK j : job' = [job EXCEPT ![a] = j] /\ (j.op = "complete" => ja.op = "complete")
    BY <1>15, Zenon DEF RunJob, Return, NoJob, ja
  <2>2. UNCHANGED registryVars /\ UNCHANGED <<pc, output>>
    BY <1>15, Zenon DEF RunJob
  <2>3. To(pc[a], j, oa)
    BY <1>2, <2>1, <2>2, Zenon DEF To
  <2>4. Remembered(a) => BoundAt(pc[a], j, oa, entries[a])
    BY <1>3, <2>1, Zenon DEF BoundAt, OutAt
  <2> QED
    BY <1>3, <1>4, <2>2, <2>3, <2>4, Zenon DEF registryVars
<1>16. CASE Drop(a)
  <2> DEFINE j == IF ja.answer = "queued" THEN ja ELSE NoJob
  <2>1. To("gone", j, oa)
    BY <1>2, <1>16, Zenon DEF Drop, Goto, To, ja
  <2>2. OutAt("gone", j) => OutAt(pc[a], ja)
    BY Zenon DEF OutAt, NoJob
  <2> HIDE DEF j
  <2>3. CASE EndLease(a, setup.classes[a], "cancelled")
    BY <1>5, <2>1, <2>2, <2>3, Zenon
  <2>4. CASE UNCHANGED <<entries, history, now>> /\ pc[a] \notin Leased
    <3>1. entries[a] = "none"
      BY <1>3, <2>4, Zenon
    <3>2. Remembered(a) => BoundAt("gone", j, oa, entries[a])
      BY <1>3, <2>2, Zenon DEF BoundAt, Holding, Unfrozen
    <3> QED
      BY <1>4, <2>1, <2>4, <3>1, <3>2, Zenon
  <2>5. CASE pc[a] \in Leased
    <3>1. pc[a] \notin Holding
      BY <2>5, Zenon DEF Leased, Holding
    <3>2. EndLease(a, setup.classes[a], "cancelled")
      BY <1>16, <2>5, <3>1, Zenon DEF Drop
    <3> QED
      BY <2>3, <3>2, Zenon
  <2>6. CASE pc[a] \notin Leased
    <3>1. UNCHANGED <<entries, history, now>>
      BY <1>16, <2>6, Zenon DEF Drop, registryVars, tables
    <3> QED
      BY <2>4, <2>6, <3>1, Zenon
  <2> QED
    BY <2>5, <2>6, Zenon
<1> QED
  BY <1>7, <1>8, <1>9, <1>10, <1>11, <1>12, <1>13, <1>14, <1>15, <1>16, Zenon DEF QuietStep

(* A crash forgets every entry; a cancellation is confirmed only for an entry *)
(* that it cancels or that was cancelled; the sweeper expires running ones.   *)
LEMMA OtherCancels ==
  ASSUME CInv, Crash \/ CloseEpoch \/ Aside \/ (\E k \in Keys : RetireResult(k))
  PROVE  CInv'
<1>0. AInv' /\ HandsOn /\ UNCHANGED <<setup, output>>
  BY OtherTells, Zenon DEF CInv, Crash, CloseEpoch, RetireResult, Aside,
     CancelRequest, Withdraw, Clock, Sweeper, vars, control, attempts, Fault
<1>1. now' \in Nat /\ setup'.deadline \in [Requests -> Nat]
  <2>1. now' = now \/ now' = now + 1
    BY Zenon DEF Crash, CloseEpoch, RetireResult, Aside, CancelRequest, Withdraw, Clock, Sweeper,
           vars, attempts, registryVars, Restart, Cancel, Tick, Sweep
  <2> QED
    BY <1>0, <2>1 DEF CInv
<1>2. ASSUME NEW b \in Requests
      PROVE  /\ entries[b] # "none" => pc[b] \in Leased
             /\ entries[b] = "running" => pc[b] \in Unfrozen
             /\ Remembered(b) => BoundAt(pc[b], job[b], output[b], entries[b])
  BY Zenon DEF CInv, Cancels
<1>3. CASE Crash
  <2>1. /\ \A b \in Requests : /\ job'[b] = NoJob /\ entries'[b] = "none"
                               /\ pc'[b] = IF pc[b] \in Live THEN "gone" ELSE pc[b]
        /\ history' = {} /\ acked' = acked /\ entries' = [b \in Requests |-> entries'[b]]
    BY <1>3, Zenon DEF Crash, Restart, NoEntries, Fault
  <2>2. \A b \in Requests : Remembered(b)' => Remembered(b)
    BY <2>1, Zenon DEF Remembered
  <2>3. \A b \in Requests : BoundAt(pc[b], job[b], output[b], entries[b]) =>
                            BoundAt(pc'[b], job'[b], output'[b], entries'[b])
    BY <2>1 DEF BoundAt, OutAt, NoJob, Live, Holding, Leased, Unfrozen
  <2>4. Cancels'
    BY <1>0, <1>2, <2>1, <2>2, <2>3, CancelsStep, Zenon
  <2> QED
    BY <1>0, <1>1, <2>1, <2>4, Zenon DEF CInv
<1>4. ASSUME ~Crash PROVE UNCHANGED <<pc, job>>
  BY <1>4, Zenon DEF CloseEpoch, RetireResult, Aside, CancelRequest, Withdraw, Clock, Sweeper,
              vars, attempts
<1>5. CASE UNCHANGED <<entries, history, acked>> /\ ~Crash
  <2>1. \A b \in Requests : Remembered(b)' <=> Remembered(b)
    BY <1>5, Zenon DEF Remembered
  <2>2. Cancels'
    BY <1>0, <1>2, <1>4, <1>5, <2>1, CancelsStep, Zenon
  <2> QED
    BY <1>0, <1>1, <1>5, <2>2, Zenon DEF CInv
<1>6. CASE Sweeper
  <2>1. /\ \A b \in Requests : \/ entries'[b] = entries[b]
                               \/ entries[b] = "running" /\ entries'[b] = "expired"
        /\ history' \subseteq history /\ acked' = acked
        /\ entries' = [b \in Requests |-> entries'[b]]
    BY <1>6, Zenon DEF Sweeper, Sweep, Prune, control
  <2>2. \A b \in Requests : Remembered(b)' => Remembered(b)
    BY <2>1, Zenon DEF Remembered
  <2>3. UNCHANGED <<pc, job>>
    BY <1>6, Zenon DEF Sweeper
  <2>4. \A b \in Requests : BoundAt(pc[b], job[b], output[b], entries[b]) =>
                            BoundAt(pc[b], job[b], output[b], entries'[b])
    BY <2>1, Zenon DEF BoundAt
  <2>5. ASSUME NEW b \in Requests
        PROVE  /\ entries'[b] # "none" => pc'[b] \in Leased
               /\ entries'[b] = "running" => pc'[b] \in Unfrozen
    BY <1>2, <2>1, <2>3, Zenon
  <2>6. Cancels'
    BY <1>0, <1>2, <2>2, <2>3, <2>4, <2>5, CancelsStep, Zenon
  <2> QED
    BY <1>0, <1>1, <2>1, <2>6, Zenon DEF CInv
<1>7. ASSUME NEW c \in Requests, CancelRequest(c) PROVE CInv'
  <2>1. /\ CancelAcknowledged(c) /\ acked' = acked \cup {c} /\ UNCHANGED <<pc, job>>
        /\ entries' = [entries EXCEPT ![c] = IF @ = "running" THEN "cancelled" ELSE @]
        /\ history' \subseteq history
    BY <1>7, Zenon DEF CancelRequest, Cancel, Finish, Prune
  <2>2. /\ entries'[c] = IF entries[c] = "running" THEN "cancelled" ELSE entries[c]
        /\ \A b \in Requests : b # c => entries'[b] = entries[b]
        /\ entries' = [b \in Requests |-> entries'[b]]
    BY <2>1, Zenon DEF CInv
  <2>3. \A b \in Requests : b # c => (Remembered(b)' => Remembered(b))
    BY <2>1, <2>2, Zenon DEF Remembered
  <2>4. Remembered(c) \/ entries[c] = "running"
    BY <2>1, Zenon DEF CancelAcknowledged, Remembered, Prune
  <2>5. BoundAt(pc'[c], job'[c], output'[c], entries'[c])
    <3>1. CASE entries[c] = "running"
      <4>1. pc[c] \in Unfrozen /\ ~OutAt(pc[c], job[c])
        BY <1>2, <3>1, UnfrozenIsSilent, Zenon DEF CInv
      <4> QED
        BY <1>0, <2>1, <2>2, <3>1, <4>1, Zenon DEF BoundAt, Unfrozen, Holding
    <3>2. CASE entries[c] # "running"
      BY <1>0, <1>2, <2>1, <2>2, <2>4, <3>2, Zenon
    <3> QED
      BY <3>1, <3>2, Zenon
  <2>6. ASSUME NEW b \in Requests
        PROVE  /\ entries'[b] # "none" => pc'[b] \in Leased
               /\ entries'[b] = "running" => pc'[b] \in Unfrozen
               /\ Remembered(b)' => /\ Remembered(b) \/ entries[b] = "running"
                                    /\ BoundAt(pc'[b], job'[b], output'[b], entries'[b])
    <3>1. CASE b = c
      BY <1>2, <2>1, <2>2, <2>4, <2>5, <3>1, Zenon
    <3>2. CASE b # c
      BY <1>0, <1>2, <2>1, <2>2, <2>3, <3>2, Zenon
    <3> QED
      BY <3>1, <3>2, Zenon
  <2>7. Cancels'
    BY <1>0, <2>6, CancelsStep, Zenon
  <2> QED
    BY <1>0, <1>1, <2>2, <2>7, Zenon DEF CInv
<1>8. \/ Crash \/ Sweeper \/ UNCHANGED <<entries, history, acked>>
      \/ \E c \in Requests : CancelRequest(c)
  BY Zenon DEF CloseEpoch, RetireResult, Aside, Withdraw, Clock, Tick, vars, attempts, registryVars,
         tables, control
<1> QED
  BY <1>3, <1>5, <1>6, <1>7, <1>8, Zenon

(* Cancellation holds inductively.                                            *)
THEOREM CancellationBinds == Spec => []CInv
<1>1. ASSUME Init, AInv PROVE CInv
  <2>1. \A a \in Requests : pc[a] = "idle" /\ entries[a] = "none" /\ ~Remembered(a)
    BY <1>1, Zenon DEF Init, RegistryInit, NoEntries, Remembered
  <2>2. entries = [a \in Requests |-> entries[a]] /\ now \in Nat
    BY <1>1, Zenon DEF Init, RegistryInit, NoEntries
  <2>3. setup.deadline \in [Requests -> Nat]
    BY <1>1, SubmissionSetups, Zenon DEF Init
  <2> QED
    BY <1>1, <2>1, <2>2, <2>3, Zenon DEF CInv, Cancels
<1>2. CInv /\ [Next]_vars => CInv'
  BY AttemptCancels, OtherCancels, Kinds, Zenon
<1> QED
  BY <1>1, <1>2, ResultsHaveOneOrigin, PTL DEF Spec

(* A request whose cancellation was confirmed has no other outcome: neither   *)
(* cancel, finish_execution, the end of the lease nor a crash lets another    *)
(* one be told or settled.                                                    *)
THEOREM ConfirmedCancellationHolds == Spec => []CancelHolds
<1>1. Spec => [](acked \subseteq Requests)
  <2>1. Init => acked \subseteq Requests
    BY Zenon DEF Init
  <2>2. acked \subseteq Requests /\ [Next]_vars => (acked \subseteq Requests)'
    <3> SUFFICES ASSUME acked \subseteq Requests, [Next]_vars PROVE acked' \subseteq Requests
      BY Zenon
    <3>1. UNCHANGED acked \/ \E a \in Requests : acked' = acked \cup {a}
      BY DEF Next, Proceed, Prepare, StartReserve, Reserved, Lower, Insert, EnsureLive, Execute,
             Evaluate, Settle, Settled, StartRelease, Released, RunJob, Drop, CancelRequest, Crash,
             Withdraw, CloseEpoch, RetireResult, Clock, Sweeper, control, attempts, Fault, vars
    <3> QED
      BY <3>1, Zenon
  <2> QED
    BY <2>1, <2>2, PTL DEF Spec
<1>2. CInv /\ acked \subseteq Requests => CancelHolds
  <2> SUFFICES ASSUME CInv, NEW a \in Requests, a \in acked
               PROVE  /\ answer[a].kind = "result" /\ answer[a].result.by = a =>
                           answer[a].result.outcome = "cancelled"
                      /\ \A k \in Keys : rows[k].state = "committed" /\ rows[k].result.by = a =>
                           rows[k].result.outcome = "cancelled"
    BY Zenon DEF CancelHolds
  <2>1. Handed(a) => output[a].outcome = "cancelled"
    BY Zenon DEF CInv, Cancels, Remembered
  <2>2. \A k, h, r : Sourced(k, h, r) /\ r.by = a => r = output[a]
    BY Zenon DEF Sourced
  <2>3. answer[a].kind = "result" /\ answer[a].result.by = a =>
          Handed(a) /\ answer[a].result = output[a]
    BY <2>2, Zenon DEF Handed, CInv, AInv, Sources
  <2>4. \A k \in Keys : rows[k].state = "committed" /\ rows[k].result.by = a =>
          Handed(a) /\ rows[k].result = output[a]
    BY <2>2, Zenon DEF Handed, CInv, AInv, Sources
  <2> QED
    BY <2>1, <2>3, <2>4, Zenon
<1> QED
  BY <1>1, <1>2, CancellationBinds, PTL
==============================================================================
