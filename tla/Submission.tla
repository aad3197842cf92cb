------------------------------ MODULE Submission ------------------------------
(* One gateway: its request store, its request registry, and the submissions  *)
(* that run through both.  An attempt is one call of `submit`; attempts that  *)
(* carry the same caller material and epoch are retries of one request.  The  *)
(* future of an attempt can be dropped at any await, a store transaction it   *)
(* started still runs on its worker, and the process can stop at any step.    *)
EXTENDS EvidenceStore, RequestRegistry

CONSTANTS Setups  \* what is exercised: attempts, host operations and faults

(* A reservation id belongs to one attempt; an attempt is of one request.     *)
ASSUME SubmissionSetups ==
  /\ Owners = Requests
  /\ \A s \in Setups : s.key \in [Requests -> Keys] /\ s.deadline \in [Requests -> Nat]

VARIABLES setup,   \* the chosen setup
          access,  \* whether the session still has the right to submit
          pc,      \* where an attempt is
          output,  \* what its execution produced, once frozen
          answer,  \* what its caller was told
          job,     \* the store transaction an attempt has handed to a worker
          runs,    \* executions started per request identity (history)
          acked,   \* requests a caller was told are cancelled (history)
          faults   \* what may still go wrong

control == <<setup, access, faults, acked>>
vars == <<storeVars, registryVars, control, pc, output, answer, job, runs>>

Outcomes == {"done", "failed", "unknown", "cancelled", "timeout"}
Key(a) == setup.key[a]
Deadline(a) == setup.deadline[a]
Mine(a) == Pending(setup.hash[a], a)
Able(op) == op \in setup.ops

NoAnswer == [kind |-> "none", result |-> None]
Refused == [kind |-> "refused", result |-> None]
Indeterminate == [kind |-> "indeterminate", result |-> None]
Told(r) == [kind |-> "result", result |-> r]

NoJob == [op |-> "none", answer |-> "none", seen |-> None]

Init ==
  /\ StoreInit /\ RegistryInit
  /\ setup \in Setups
  /\ access = TRUE
  /\ pc = [a \in Requests |-> "idle"]
  /\ output = [a \in Requests |-> None]
  /\ answer = [a \in Requests |-> NoAnswer]
  /\ job = [a \in Requests |-> NoJob]
  /\ runs = [k \in Keys |-> 0]
  /\ acked = {}
  /\ faults = setup.faults

(* validate_submission_access and validate_request_deadline.                  *)
Valid(a) == access /\ now < Deadline(a)

Goto(a, where) == pc' = [pc EXCEPT ![a] = where]
Answer(a, what) == Goto(a, "answered") /\ answer' = [answer EXCEPT ![a] = what]

(* RedbGatewayIdempotencyStore::run: the worker may have no capacity left.    *)
Hand(a, op) == job' = [job EXCEPT ![a] = [op |-> op, answer |-> "queued", seen |-> None]]
Taken(a) == job' = [job EXCEPT ![a] = NoJob]
Fault == faults > 0 /\ faults' = faults - 1 /\ UNCHANGED <<setup, access, acked>>

----------------------------------------------------------------------------
(* prepare_submission: admission before the payload is looked at.             *)
Prepare(a) ==
  /\ pc[a] = "idle" /\ a \in setup.attempts
  /\ IF Valid(a) /\ TryAdmitAllowed(setup.classes[a])
     THEN TryAdmit(setup.classes[a]) /\ Goto(a, "prepared") /\ UNCHANGED answer
     ELSE Answer(a, Refused) /\ UNCHANGED registryVars
  /\ UNCHANGED <<storeVars, control, output, job, runs>>

(* The admission of an attempt without an entry is released when it returns.  *)
Leave(a, what) ==
  /\ Answer(a, what)
  /\ ReleaseAdmission(setup.classes[a])
  /\ UNCHANGED <<now, tables, budget>>

StartReserve(a) ==
  /\ pc[a] = "prepared"
  /\ \/ Valid(a) /\ Hand(a, "reserve") /\ Goto(a, "reserving")
        /\ UNCHANGED <<registryVars, answer, control>>
     \/ ~Valid(a) /\ Leave(a, Refused) /\ UNCHANGED <<job, control>>
     \/ Valid(a) /\ Leave(a, Refused) /\ UNCHANGED job /\ Fault
  /\ UNCHANGED <<storeVars, output, runs>>

(* record::replay: only a settled result of the same submission is told.      *)
Replay(a, row) ==
  IF row.hash = setup.hash[a] /\ row.state = "committed" /\ Valid(a)
  THEN Told(row.result) ELSE Refused

Reserved(a) ==
  /\ pc[a] = "reserving"
  /\ job[a].answer # "queued"
  /\ Taken(a)
  /\ CASE job[a].answer = "new" -> Goto(a, "reserved") /\ UNCHANGED <<registryVars, answer>>
       [] job[a].answer = "present" -> Leave(a, Replay(a, job[a].seen))
       [] job[a].answer \in {"closed", "full"} -> Leave(a, Refused)
       [] OTHER -> Leave(a, Indeterminate)
  /\ UNCHANGED <<storeVars, control, output, runs>>

(* Lowering, inspection and the budget; any of them may refuse.               *)
Lower(a) ==
  /\ pc[a] = "reserved"
  /\ \/ /\ Valid(a)
        /\ budget.running + setup.charge[a] <= BudgetLimit
        /\ ReserveBudget(a, setup.charge[a])
        /\ Goto(a, "budgeted")
     \/ Goto(a, "refused") /\ UNCHANGED budget
  /\ UNCHANGED <<storeVars, now, tables, running, control, output, answer, job, runs>>

(* executor_for, then the entry; a refusal gives the budget back.             *)
Insert(a) ==
  /\ pc[a] = "budgeted"
  /\ \/ Valid(a) /\ InsertRunning(a, Deadline(a)) /\ Goto(a, "accepted") /\ UNCHANGED now
     \/ ReleaseBudget(a) /\ Goto(a, "refused") /\ UNCHANGED <<now, tables, running>>
  /\ UNCHANGED <<storeVars, control, output, answer, job, runs>>

(* ensure_live, before the objects of the request are consumed.               *)
EnsureLive(a) ==
  /\ pc[a] = "accepted"
  /\ IF now < Deadline(a) /\ entries[a] = "running"
     THEN Goto(a, "consuming") /\ UNCHANGED registryVars
     ELSE EndLease(a, setup.classes[a], "cancelled") /\ Goto(a, "ended")
  /\ UNCHANGED <<storeVars, control, output, answer, job, runs>>

(* The objects are consumed and the program starts; or the objects were not   *)
(* consumed, or nobody knows.                                                 *)
Execute(a) ==
  /\ pc[a] = "consuming"
  /\ \/ Goto(a, "executing") /\ runs' = [runs EXCEPT ![Key(a)] = @ + 1]
        /\ UNCHANGED <<registryVars, answer>>
     \/ EndLease(a, setup.classes[a], "cancelled") /\ UNCHANGED runs
        /\ \/ Goto(a, "ended") /\ UNCHANGED answer
           \/ Answer(a, Indeterminate)
  /\ UNCHANGED <<storeVars, control, output, job>>

(* eval_tainted returns; finish_execution decides what the outcome is.        *)
Evaluate(a) ==
  /\ pc[a] = "executing"
  /\ \E r \in setup.results :
       /\ FinishExecution(a, r.outcome, Deadline(a))
       /\ output' = [output EXCEPT ![a] =
            [outcome |-> FrozenOutcome(entries'[a], r.outcome),
             certain |-> r.certain, size |-> r.size, by |-> a]]
  /\ Goto(a, "settling")
  /\ UNCHANGED <<storeVars, control, answer, job, runs>>

(* A request that cannot be settled: guard.fail keeps the frozen state.       *)
Unsettled(a) == EndLease(a, setup.classes[a], "failed") /\ Answer(a, Indeterminate)

(* Fault: the evidence is written before the cleanup report is merged         *)
SettleBeforeReport(a) ==
  /\ pc[a] = "settling"
  /\ \E certain \in {output[a].certain, FALSE} :
       /\ output' = [output EXCEPT ![a].certain = certain]
       /\ job' = [job EXCEPT ![a] = [op |-> "complete", answer |-> "queued", seen |-> output[a]]]
       /\ Goto(a, "completing")
       /\ UNCHANGED <<registryVars, answer, control>>
  /\ UNCHANGED <<storeVars, runs>>
(* finish_request_output may add unresolved effects; only a finished request  *)
(* is committed.                                                              *)
Settle(a) ==
  /\ pc[a] = "settling"
  /\ \/ \E certain \in {output[a].certain, FALSE} :
            LET out == [output[a] EXCEPT !.certain = certain] IN
            /\ output' = [output EXCEPT ![a] = out]
            /\ job' = [job EXCEPT ![a] = [op |-> "complete", answer |-> "queued", seen |-> out]]
            /\ Goto(a, "completing")
            /\ UNCHANGED <<registryVars, answer, control>>
     \/ Unsettled(a) /\ UNCHANGED <<job, output>> /\ Fault
  /\ UNCHANGED <<storeVars, runs>>

Settled(a) ==
  /\ pc[a] = "completing"
  /\ job[a].answer # "queued"
  /\ Taken(a)
  /\ IF job[a].answer = "ok"
     THEN /\ EndLease(a, setup.classes[a], "none")
          /\ Answer(a, IF access THEN Told(output[a]) ELSE Refused)
     ELSE Unsettled(a)
  /\ UNCHANGED <<storeVars, control, output, runs>>

(* release_submission_idempotency_reservation_and_fail.                       *)
StartRelease(a) ==
  /\ pc[a] \in {"refused", "ended"}
  /\ \/ /\ Hand(a, "release")
        /\ Goto(a, IF pc[a] = "refused" THEN "releasing" ELSE "endedReleasing")
        /\ UNCHANGED <<registryVars, answer, control>>
     \/ /\ IF pc[a] = "refused" THEN Leave(a, Refused)
           ELSE Answer(a, Refused) /\ UNCHANGED registryVars
        /\ UNCHANGED job /\ Fault
  /\ UNCHANGED <<storeVars, output, runs>>

Released(a) ==
  LET what == IF job[a].answer = "ok" THEN Refused ELSE Indeterminate IN
  /\ pc[a] \in {"releasing", "endedReleasing"}
  /\ job[a].answer # "queued"
  /\ Taken(a)
  /\ IF pc[a] = "releasing" THEN Leave(a, what)
     ELSE Answer(a, what) /\ UNCHANGED registryVars
  /\ UNCHANGED <<storeVars, control, output, runs>>

----------------------------------------------------------------------------
(* The worker's transaction, with the caller still there or not.              *)
JobAnswer(a) ==
  CASE job[a].op = "reserve" -> ReserveAnswer(Key(a), Mine(a))
    [] job[a].op = "complete" -> CompleteAnswer(Key(a), Mine(a), job[a].seen)
    [] job[a].op = "release" -> ReleaseAnswer(Key(a), Mine(a))
Writes(what) == what \in {"new", "ok"}
Write(a) ==
  CASE job[a].op = "reserve" -> Reserve(Key(a), Mine(a))
    [] job[a].op = "complete" -> Complete(Key(a), job[a].seen)
    [] job[a].op = "release" -> Release(Key(a))

Return(a, what) ==
  job' = [job EXCEPT ![a] = IF pc[a] = "gone" THEN NoJob
                            ELSE [op |-> job[a].op, answer |-> what, seen |-> rows[Key(a)]]]

RunJob(a) ==
  /\ job[a].answer = "queued"
  /\ \/ /\ IF Writes(JobAnswer(a)) THEN Write(a) ELSE UNCHANGED storeVars
        /\ Return(a, JobAnswer(a))
        /\ UNCHANGED control
     \/ /\ Writes(JobAnswer(a))          \* the commit reports an error
        /\ Write(a) \/ UNCHANGED storeVars
        /\ Return(a, "unknown")
        /\ Fault
  /\ UNCHANGED <<registryVars, pc, output, answer, runs>>

----------------------------------------------------------------------------
Holding == {"prepared", "reserving", "reserved", "budgeted", "refused", "releasing"}
Leased == {"accepted", "consuming", "executing", "settling", "completing"}
Live == Holding \cup Leased \cup {"ended", "endedReleasing"}

(* The caller goes away and the attempt's future is dropped.                  *)
Drop(a) ==
  /\ Able("drop")
  /\ pc[a] \in Live
  /\ Goto(a, "gone")
  /\ job' = [job EXCEPT ![a] = IF job[a].answer = "queued" THEN job[a] ELSE NoJob]
  /\ CASE pc[a] \in Leased -> EndLease(a, setup.classes[a], "cancelled")
       [] pc[a] \in Holding -> /\ ReleaseAdmission(setup.classes[a])
                               /\ ReleaseBudget(a)
                               /\ UNCHANGED <<now, tables>>
       [] OTHER -> UNCHANGED registryVars
  /\ Fault
  /\ UNCHANGED <<storeVars, output, answer, runs>>

(* The process stops and is started again: only the store is left.            *)
Crash ==
  /\ Able("crash")
  /\ \E a \in Requests : pc[a] \in Live
  /\ pc' = [a \in Requests |-> IF pc[a] \in Live THEN "gone" ELSE pc[a]]
  /\ job' = [a \in Requests |-> NoJob]
  /\ Restart
  /\ Fault
  /\ UNCHANGED <<storeVars, output, answer, runs>>

CancelRequest(a) ==
  /\ Able("cancel")
  /\ a \notin acked
  /\ CancelAcknowledged(a)
  /\ Cancel(a)
  /\ acked' = acked \cup {a}
  /\ UNCHANGED <<storeVars, setup, access, faults, pc, output, answer, job, runs>>

Withdraw ==
  /\ Able("withdraw") /\ access
  /\ access' = FALSE
  /\ UNCHANGED <<storeVars, registryVars, setup, faults, acked, pc, output, answer, job, runs>>

attempts == <<registryVars, control, pc, output, answer, job, runs>>
CloseEpoch == Able("close") /\ epoch < MaxEpoch /\ CloseRetryEpoch /\ UNCHANGED attempts
RetireResult(k) == Able("retire") /\ Retire(k) /\ UNCHANGED attempts

Clock == Able("clock") /\ Tick /\ UNCHANGED <<storeVars, control, pc, output, answer, job, runs>>
Sweeper == Sweep(setup.deadline) /\ UNCHANGED <<storeVars, control, pc, output, answer, job, runs>>

Proceed(a) ==
  \/ Prepare(a) \/ StartReserve(a) \/ Reserved(a) \/ Lower(a) \/ Insert(a)
  \/ EnsureLive(a) \/ Execute(a) \/ Evaluate(a) \/ Settle(a) \/ Settled(a)
  \/ StartRelease(a) \/ Released(a)

Next ==
  \/ \E a \in Requests : Proceed(a) \/ RunJob(a) \/ Drop(a) \/ CancelRequest(a)
  \/ \E k \in Keys : RetireResult(k)
  \/ Crash \/ Withdraw \/ CloseEpoch \/ Clock \/ Sweeper

(* The sweeper and the clock go on, workers finish what they accepted, and an *)
(* attempt is polled.  A program may run for ever while its request is        *)
(* running; a request that is not is cancelled in the kernel.                 *)
Fairness ==
  /\ WF_vars(Clock) /\ WF_vars(Sweeper)
  /\ \A a \in Requests :
       /\ WF_vars(RunJob(a))
       /\ WF_vars(Proceed(a) /\ (pc[a] = "executing" => entries[a] # "running"))
Spec == Init /\ [][Next]_vars
FairSpec == Spec /\ Fairness

----------------------------------------------------------------------------
(* An attempt at `where` with job j holds its reservation unused.             *)
HoldsAt(where, j) ==
  \/ where \in {"reserved", "budgeted", "refused", "accepted", "consuming", "ended"}
  \/ where = "reserving" /\ j.answer = "new"
  \/ j.op = "release" /\ j.answer = "queued"
RanAt(where, j) ==
  \/ where \in {"executing", "settling"}
  \/ j.op = "complete" /\ j.answer = "queued"

(* A reservation belongs to one attempt until it lets go of it or its         *)
(* transaction replaces it; what ran is never again free in an open range.    *)
Owned ==
  /\ \A a \in Requests :
       /\ HoldsAt(pc[a], job[a]) => rows[Key(a)] = Mine(a) /\ runs[Key(a)] = 0
       /\ RanAt(pc[a], job[a]) => rows[Key(a)] = Mine(a) /\ runs[Key(a)] = 1
  /\ \A k \in Keys :
       /\ rows[k].state \in {"absent", "pending", "committed", "retired"}
       /\ rows[k].state = "absent" /\ k.epoch >= epoch => runs[k] = 0

(* The transaction an attempt waits for is the one it handed to a worker.     *)
Matches(where, j) ==
  \/ where = "reserving" /\ j.op = "reserve"
  \/ where = "completing" /\ j.op = "complete"
  \/ where \in {"releasing", "endedReleasing"} /\ j.op = "release"
  \/ where = "gone" /\ j.op \in {"reserve", "complete", "release"} /\ j.answer = "queued"
  \/ where \notin {"reserving", "completing", "releasing", "endedReleasing"} /\ j = NoJob
JobsMatch == \A a \in Requests : Matches(pc[a], job[a])

Phase(k) ==
  CASE rows[k].state = "absent" -> IF k.epoch < epoch THEN "over" ELSE "free"
    [] rows[k].state = "pending" -> IF runs[k] = 0 THEN "held" ELSE "run"
    [] rows[k].state = "committed" -> "settled"
    [] rows[k].state = "retired" -> "over"

Ledger == INSTANCE OnceLedger WITH Identities <- Keys, phase <- [k \in Keys |-> Phase(k)]

(* However often a request is sent again, dropped, interrupted by a crash or  *)
(* left with an unknown commit, its program starts at most once: the store    *)
(* and the submissions implement OnceLedger.                                  *)
ImplementsOnceLedger == Ledger!Spec

(* All callers that were told a result of one request were told the same one, *)
(* and it is the result of what they submitted themselves.                    *)
AnswersAgree ==
  \A a, b \in Requests :
    answer[a].kind = "result" =>
      /\ setup.hash[answer[a].result.by] = setup.hash[a]
      /\ answer[b].kind = "result" /\ Key(a) = Key(b) => answer[a] = answer[b]

(* A request whose cancellation was confirmed has no other outcome, neither   *)
(* told to its caller nor left in the store.                                  *)
CancelHolds ==
  \A a \in acked :
    /\ answer[a].kind = "result" /\ answer[a].result.by = a =>
         answer[a].result.outcome = "cancelled"
    /\ \A k \in Keys : rows[k].state = "committed" /\ rows[k].result.by = a =>
         rows[k].result.outcome = "cancelled"

(* Slots, budget, entries and the deadline index are those of the attempts    *)
(* that are under way, however an attempt ended.                              *)
SlotsAccounted ==
  LET held == {a \in Requests : pc[a] \in Holding \cup Leased}
      charged == {a \in Requests : pc[a] \in Leased \cup {"budgeted"}}
  IN /\ running.global = Cardinality(held)
     /\ \A c \in Classes : running.of[c] = Cardinality({a \in held : c \in setup.classes[a]})
     /\ budget.running = MapThenSumSet(LAMBDA a : setup.charge[a], charged)
     /\ {a \in Requests : entries[a] # "none"} = {a \in Requests : pc[a] \in Leased}
     /\ deadlines = {a \in Requests : entries[a] = "running" /\ Deadline(a) # Never}
     /\ Cardinality(history) <= MaxHistory

(* What the store charges for its records and what the registry holds for     *)
(* attempts under way are exact, through errors, drops, unknown commits and   *)
(* reopening.                                                                 *)
Accounted == EvidenceAccounted /\ SlotsAccounted

(* An attempt with a deadline ends, even if its program never returns by      *)
(* itself: the sweeper finds every deadline that has passed.                  *)
AttemptsEnd ==
  \A a \in Requests :
    (pc[a] \in Live /\ Deadline(a) # Never) ~> pc[a] \notin Live
==============================================================================
