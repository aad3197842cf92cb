---------------------------- MODULE RequestRegistry ----------------------------
(* The gateway's in-memory table of requests: admission counters, budget,     *)
(* entries with their deadlines, and a bounded memory of cancellations.  It   *)
(* is one mutex, so every operation is one step; it is empty after a restart. *)
EXTENDS Integers, FiniteSetsExt

CONSTANTS Requests,       \* submission ids; each names one admitted request
          Classes,        \* principals, surfaces and risk classes
          MaxInFlight,    \* limits.max_in_flight_requests
          ClassLimit,     \* configured in-flight limit of a class
          BudgetLimit,    \* gateway budget
          Retention,      \* how long a cancellation is remembered
          MaxHistory,     \* max_recent_cancellations
          MaxNow          \* last instant explored

VARIABLES now,        \* the host's monotonic clock
          entries,    \* state of the entry of a request, "none" without one
          until,      \* when a cancelled entry may be forgotten
          deadlines,  \* requests in the deadline index
          history,    \* remembered cancellations and when they run out
          running,    \* global and per-class counters
          budget      \* running charge and reservations

registryVars == <<now, entries, until, deadlines, history, running, budget>>
tables == <<entries, until, deadlines, history>>

Never == MaxNow + 1

NoEntries == [r \in Requests |-> "none"]
NoTimes == [r \in Requests |-> 0]
NoneRunning == [global |-> 0, of |-> [c \in Classes |-> 0]]
NoBudget == [running |-> 0, reserved |-> NoTimes]

RegistryInit ==
  /\ entries = NoEntries /\ until = NoTimes /\ deadlines = {} /\ history = {}
  /\ running = NoneRunning /\ budget = NoBudget
  /\ now = 0

(* A restart leaves nothing of the registry.                                  *)
Restart ==
  /\ entries' = NoEntries /\ until' = NoTimes /\ deadlines' = {} /\ history' = {}
  /\ running' = NoneRunning /\ budget' = NoBudget
  /\ UNCHANGED now

----------------------------------------------------------------------------
Fair(limit, global) ==
  LET fair == IF global \in {0, 1} THEN global ELSE global - 1
  IN IF limit <= fair THEN limit ELSE fair

TryAdmitAllowed(classes) ==
  /\ running.global < MaxInFlight
  /\ \A c \in classes : running.of[c] < Fair(ClassLimit, MaxInFlight)

Counted(classes, d) ==
  [global |-> running.global + d,
   of |-> [c \in Classes |-> IF c \in classes THEN running.of[c] + d ELSE running.of[c]]]

TryAdmit(classes) ==
  /\ running' = Counted(classes, 1)
  /\ UNCHANGED <<now, tables, budget>>

ReleaseAdmission(classes) == running' = Counted(classes, -1)

ReserveBudget(r, charge) ==
  budget' = [running |-> budget.running + charge,
             reserved |-> [budget.reserved EXCEPT ![r] = charge]]
ReleaseBudget(r) ==
  budget' = [running |-> budget.running - budget.reserved[r],
             reserved |-> [budget.reserved EXCEPT ![r] = 0]]

(* prune_request_history: the index is emptied from its front, ordered by     *)
(* expiry and then by insertion, while that entry has run out or there are    *)
(* too many.                                                                  *)
Before(d, e) == d.until < e.until \/ (d.until = e.until /\ d.at < e.at)
Prune(h) ==
  LET live == {e \in h : e.until > now}
  IN {e \in live : Cardinality({d \in live : ~Before(d, e)}) <= MaxHistory}

(* retain_request_history: the sequence number is past every remembered one.  *)
Remember(r, expires) ==
  LET last == Max({0} \cup {e.at : e \in history})
  IN Prune(history \cup {[of |-> r, until |-> expires, at |-> last + 1]})

InsertRunning(r, deadline) ==
  /\ entries' = [entries EXCEPT ![r] = "running"]
  /\ deadlines' = deadlines \cup (IF deadline = Never THEN {} ELSE {r})
  /\ history' = Prune(history)
  /\ UNCHANGED <<until, running, budget>>

(* Fault: an entry that is no longer running stays in the deadline index      *)
FinishStillIndexed(r, state) ==
  /\ entries' = [entries EXCEPT ![r] = IF @ = "running" THEN state ELSE @]
  /\ until' = [until EXCEPT ![r] = IF entries[r] = "running" /\ state = "cancelled"
                                   THEN now + Retention ELSE @]
  /\ UNCHANGED deadlines
(* A running entry takes its final state and leaves the deadline index; a     *)
(* state it already has is kept.                                              *)
Finish(r, state) ==
  /\ entries' = [entries EXCEPT ![r] = IF @ = "running" THEN state ELSE @]
  /\ until' = [until EXCEPT ![r] = IF entries[r] = "running" /\ state = "cancelled"
                                   THEN now + Retention ELSE @]
  /\ deadlines' = deadlines \ {r}

(* What Cancel tells its caller.                                              *)
CancelAcknowledged(r) ==
  \/ entries[r] \in {"running", "cancelled"}
  \/ entries[r] = "none" /\ \E e \in Prune(history) : e.of = r

Cancel(r) ==
  /\ Finish(r, "cancelled")
  /\ history' = Prune(history)
  /\ UNCHANGED <<now, running, budget>>

(* Fault: the end of the execution overwrites an earlier cancellation         *)
FrozenAnyway(r, outcome, deadline) ==
  IF deadline <= now THEN "expired" ELSE IF outcome = "done" THEN "completed" ELSE "failed"
(* finish_execution freezes the outcome before it is persisted.               *)
FrozenState(r, outcome, deadline) ==
  CASE entries[r] # "running" -> entries[r]
    [] entries[r] = "running" /\ deadline <= now -> "expired"
    [] entries[r] = "running" /\ deadline > now ->
         IF outcome = "done" THEN "completed" ELSE "failed"

FrozenOutcome(state, outcome) ==
  CASE state \in {"cancelled", "none"} -> "cancelled"
    [] state = "expired" -> "timeout"
    [] OTHER -> outcome

FinishExecution(r, outcome, deadline) ==
  /\ entries' = [entries EXCEPT ![r] = FrozenState(r, outcome, deadline)]
  /\ deadlines' = deadlines \ {r}
  /\ history' = Prune(history)
  /\ UNCHANGED <<now, until, running, budget>>

(* The request's lease ends: Drop of the guard, then of the lease.  A guard   *)
(* that never finished leaves its entry cancelled (fail leaves it failed).    *)
EndLease(r, classes, unfinished) ==
  LET cancelled == \/ entries[r] = "cancelled"
                   \/ entries[r] = "running" /\ unfinished = "cancelled"
      expires == IF entries[r] = "running" THEN now + Retention ELSE until[r]
  IN /\ entries' = [entries EXCEPT ![r] = "none"]
     /\ deadlines' = deadlines \ {r}
     /\ history' = IF cancelled /\ MaxHistory > 0 /\ expires > now
                   THEN Remember(r, expires)
                   ELSE IF unfinished = "none" THEN history ELSE Prune(history)
     /\ ReleaseAdmission(classes)
     /\ ReleaseBudget(r)
     /\ until' = [until EXCEPT ![r] = 0]
     /\ UNCHANGED now

(* Fault: only the deadlines of this very instant are looked up               *)
SweepThisInstant(Deadline) ==
  LET late == {r \in deadlines : Deadline[r] = now} IN
  /\ entries' = [r \in Requests |-> IF r \in late /\ entries[r] = "running"
                                    THEN "expired" ELSE entries[r]]
  /\ deadlines' = deadlines \ late
  /\ history' = Prune(history)
  /\ UNCHANGED <<now, until, running, budget>>
(* expire_deadlines, run by the sweeper every 50 ms.                          *)
Sweep(Deadline) ==
  LET late == {r \in deadlines : Deadline[r] <= now} IN
  /\ entries' = [r \in Requests |-> IF r \in late /\ entries[r] = "running"
                                    THEN "expired" ELSE entries[r]]
  /\ deadlines' = deadlines \ late
  /\ history' = Prune(history)
  /\ UNCHANGED <<now, until, running, budget>>

Tick == now < MaxNow /\ now' = now + 1 /\ UNCHANGED <<tables, running, budget>>
==============================================================================
