----------------------------- MODULE CallBridge ------------------------------
(* The target's bridge from the directory to its kernel: the handlers of      *)
(* Invoke and Cancel under the admission lock, the tasks they start, and the  *)
(* jobs both hand to blocking workers.  A handler's future can be dropped at  *)
(* any await and a task can give up waiting: the job at hand goes on without  *)
(* them.  Only the end of the process ends a job.                             *)
EXTENDS CallDirectory

CONSTANTS Slots,         \* where a request is handled
          Late,          \* the slot of requests whose sender is gone
          Outcomes       \* how a program can end: what it returned, whether effects
                         \* stayed unresolved, whether its scope was finished

VARIABLES lock,      \* the slot that holds the admission lock
          closed,    \* admission is closed
          live,      \* the task registered for the call
          hs,        \* the handler in each slot
          reply,     \* the answer of each slot, until its sender takes it
          orphans,   \* jobs of dropped handlers
          task,      \* where each task is
          job,       \* the transaction each task's job is at
          out,       \* what each task's program returned
          ran        \* tasks that started the program

taskVars == <<task, job, out, ran>>
bridgeVars == <<lock, closed, live, hs, reply, orphans, taskVars>>

Free == [pc |-> "free", seen |-> None, ans |-> None]
NoOutcome == [value |-> None, effects |-> FALSE, stopped |-> FALSE]

BridgeInit ==
  /\ lock = None /\ closed = FALSE /\ live = None /\ orphans = {}
  /\ hs = [h \in Slots |-> Free]
  /\ reply = [h \in Slots |-> None]
  /\ task = [t \in Tasks |-> "none"]
  /\ job = [t \in Tasks |-> "none"]
  /\ out = [t \in Tasks |-> NoOutcome]
  /\ ran = {}

----------------------------------------------------------------------------
(* The jobs of the handlers, named by where the handler waits for them.       *)
Jobs == {"claim", "view", "close", "cancel", "settle", "record", "settle_close", "record_accept"}

JobRow(pc) ==
  CASE pc = "claim" -> invoke_call(row)
    [] pc = "cancel" -> cancel_call(row)
    [] pc \in {"close", "settle_close"} -> close_unaccepted_call(row)
    [] pc = "record_accept" -> record_kernel_cancel_accepted(row)
    [] OTHER -> row
(* The second transaction of a job that follows a cancellation.               *)
JobRest(pc) ==
  CASE pc = "record" /\ row.binding # None -> {"record_accept"}
    [] pc \in {"settle", "record"} /\ row.binding = None /\ row.status = "Preparing"
         -> {"settle_close"}
    [] OTHER -> {}

(* What a handler may answer where it is; nothing where it goes on.           *)
Answers(h) ==
  LET pc == hs[h].pc IN
  CASE pc = "invoke" -> IF closed THEN {Refused} ELSE {}
    [] pc = "claim" -> {InvokeAnswer(row)} \ {"Preparing"}
    [] pc = "decide" -> IF hs[h].seen = "bound" \/ live # None THEN {"Preparing"}
                        ELSE IF hs[h].seen = "stop" \/ now >= ExecuteBy THEN {} ELSE {Refused}
    [] pc = "close" -> {IF CloseAllowed(row) THEN "Closed" ELSE Refused}
    [] pc = "await" -> IF hs[h].seen \in ran THEN {"Accepted"}
                       ELSE IF task[hs[h].seen] = "gone" THEN {Refused} ELSE {}
    [] pc = "cancel" -> LET c == CancelAnswer(row) IN
                        IF c = Refused \/ ~c.cancelled \/ c.kernel_cancel THEN {c} ELSE {}
    [] pc = "signal" -> IF task[hs[h].seen] \in {"ready", "admit"} THEN {}
                        ELSE {hs[h].ans} \cup (IF task[hs[h].seen] = "gone" THEN {Refused} ELSE {})
    [] pc \in {"settle", "record"} -> IF JobRest(pc) = {} THEN {hs[h].ans} ELSE {}
    [] pc = "settle_close" -> {IF CloseAllowed(row) THEN hs[h].ans ELSE Refused}
    [] pc = "record_accept" -> {hs[h].ans}
    [] OTHER -> {}

Answered(h) ==
  \E a \in Answers(h) :
    /\ row' = JobRow(hs[h].pc)
    /\ hs' = [hs EXCEPT ![h] = Free]
    /\ reply' = IF h = Late THEN reply ELSE [reply EXCEPT ![h] = a]
    /\ lock' = IF lock = h THEN None ELSE lock
    /\ UNCHANGED <<grant, peer, now, closed, live, orphans, taskVars>>

(* A handler goes on, and takes row to r.                                     *)
Goes(h, from, to, r) ==
  /\ hs[h].pc = from /\ Answers(h) = {}
  /\ hs' = [hs EXCEPT ![h] = to]
  /\ row' = r
  /\ UNCHANGED <<grant, peer, now, closed, reply, orphans, job, out, ran>>
Holds(h, from, to) ==
  Goes(h, from, [hs[h] EXCEPT !.pc = to], JobRow(from)) /\ UNCHANGED <<lock, live, task>>

Lock(h) ==
  /\ lock = None /\ lock' = h
  /\ \/ Goes(h, "invoke", [hs[h] EXCEPT !.pc = "claim"], row)
     \/ Goes(h, "stop", [hs[h] EXCEPT !.pc = "cancel"], row)
  /\ UNCHANGED <<live, task>>

SeenOf(r) == IF r.binding # None THEN "bound" ELSE IF r.cancelled THEN "stop" ELSE "go"
View(h) ==
  Goes(h, "view", [hs[h] EXCEPT !.pc = "decide", !.seen = SeenOf(row)], row)
  /\ UNCHANGED <<lock, live, task>>

(* The task is registered, under the state's lock, before it may begin.       *)
Spawn(h, t) ==
  /\ hs[h].pc = "decide" /\ hs[h].seen = "go"
  /\ live = None /\ now < ExecuteBy /\ ~closed
  /\ task[t] = "none" /\ task' = [task EXCEPT ![t] = "ready"]
  /\ live' = t
  /\ hs' = [hs EXCEPT ![h] = [@ EXCEPT !.pc = "await", !.seen = t]]
  /\ UNCHANGED <<directoryVars, lock, closed, reply, orphans, job, out, ran>>

Cancel(h) ==
  Goes(h, "cancel", [hs[h] EXCEPT !.pc = "select", !.ans = CancelAnswer(row)], cancel_call(row))
  /\ UNCHANGED <<lock, live, task>>

(* The task to stop is looked up under the state's lock ...                   *)
Select(h) ==
  /\ hs[h].pc = "select"
  /\ hs' = [hs EXCEPT ![h] = IF live = None THEN [@ EXCEPT !.pc = "settle"]
                                            ELSE [@ EXCEPT !.pc = "signal", !.seen = live]]
  /\ UNCHANGED <<directoryVars, lock, closed, live, reply, orphans, taskVars>>
(* ... and its process cancelled without it: it may have ended meanwhile.     *)
(* A process that was cancelled still returns, with whatever it has.          *)
Signal(h) ==
  LET t == hs[h].seen IN
  /\ hs[h].pc = "signal"
  /\ task[t] # "gone" /\ ~out[t].stopped
  /\ hs' = [hs EXCEPT ![h].pc = "record"]
  /\ UNCHANGED <<directoryVars, lock, closed, live, reply, orphans, taskVars>>

HandlerStep(h) ==
  \/ Answered(h) \/ Lock(h) \/ View(h) \/ Cancel(h) \/ Select(h) \/ Signal(h)
  \/ Holds(h, "claim", "view") \/ Holds(h, "decide", "close")
  \/ \E pc \in {"settle", "record"} : \E rest \in JobRest(pc) : Holds(h, pc, rest)
  \/ \E t \in Tasks : Spawn(h, t)

(* The future of a handler is dropped: its lock is free, its job goes on.     *)
Dropped(h) ==
  /\ hs' = [hs EXCEPT ![h] = Free]
  /\ lock' = IF lock = h THEN None ELSE lock
  /\ orphans' = orphans \cup ({hs[h].pc} \cap Jobs)

(* A handler waits for its job no longer than the store's timeout.            *)
HandlerTimeout(h) ==
  /\ hs[h].pc \in Jobs /\ Dropped(h)
  /\ reply' = IF h = Late THEN reply ELSE [reply EXCEPT ![h] = Refused]
  /\ UNCHANGED <<directoryVars, closed, live, taskVars>>

OrphanStep(pc) ==
  /\ pc \in orphans
  /\ row' = JobRow(pc)
  /\ orphans' = (orphans \ {pc}) \cup JobRest(pc)
  /\ UNCHANGED <<grant, peer, now, lock, closed, live, hs, reply, taskVars>>

----------------------------------------------------------------------------
(* Tasks.                                                                     *)

(* A task that ends is no longer registered.                                  *)
Exit(t) ==
  /\ task' = [task EXCEPT ![t] = "gone"]
  /\ live' = IF live = t THEN None ELSE live
  /\ UNCHANGED <<directoryVars, lock, closed, hs, reply, orphans, job, out, ran>>
Advance(t, pc, j) ==
  /\ task' = [task EXCEPT ![t] = pc]
  /\ job' = [job EXCEPT ![t] = j]
  /\ UNCHANGED <<directoryVars, lock, closed, live, hs, reply, orphans>>

(* reserve_lifecycle, then the job that binds, authorizes and accepts.        *)
Reserve(t) ==
  /\ task[t] = "ready"
  /\ Exit(t) \/ (Advance(t, "admit", "bind") /\ UNCHANGED <<out, ran>>)

(* The program starts once its acceptance is durable.                         *)
Admit(t) ==
  /\ task[t] = "admit" /\ job[t] = "ok"
  /\ Advance(t, "eval", "none")
  /\ ran' = ran \cup {t} /\ UNCHANGED out
(* Waiting ends with a failed job, or with the call's deadline whatever the   *)
(* job is doing.                                                              *)
NotAdmitted(t) == task[t] = "admit" /\ (job[t] = "failed" \/ now >= ExecuteBy) /\ Exit(t)

(* The program returns and its scope is finished, within the cleanup timeout  *)
(* or not; then one job publishes both.                                       *)
Finish(t, ends) ==
  /\ task[t] = "eval"
  /\ \E o \in ends :
       /\ out' = [out EXCEPT ![t] = o]
       /\ Advance(t, "publish", IF o.stopped THEN "stop" ELSE "result")
  /\ UNCHANGED ran

Published(t) == task[t] = "publish" /\ job[t] \in {"done", "failed"} /\ Exit(t)

(* Nor does a task wait longer than that for its job.                         *)
TaskTimeout(t) ==
  /\ task[t] \in {"admit", "publish"} /\ job[t] \notin {"done", "failed"}
  /\ Exit(t)

TaskStep(t) == Reserve(t) \/ Admit(t) \/ NotAdmitted(t) \/ Published(t)

----------------------------------------------------------------------------
(* The transactions of a task's job.                                          *)
JobTxn(t, from, ok, r, next) ==
  /\ job[t] = from
  /\ row' = IF ok THEN r ELSE row
  /\ job' = [job EXCEPT ![t] = IF ok THEN next ELSE "failed"]
  /\ UNCHANGED <<grant, peer, now, lock, closed, live, hs, reply, orphans, task, out, ran>>

Bind(t) == JobTxn(t, "bind", BindAllowed(row, t), bind_kernel_identity(row, t), "authorize")
Authorize(t) == JobTxn(t, "authorize", authorize_kernel_execution(row), row, "accept")
Accept(t) == JobTxn(t, "accept", AcceptAllowed(row, t), record_kernel_acceptance(row, t), "ok")
Stop(t) == JobTxn(t, "stop", StopAllowed(row), record_execution_stopped(row), "result")
Publish(t) ==
  JobTxn(t, "result", ResultAllowed(row, out[t].value, out[t].effects),
         record_call_result(row, out[t].value, out[t].effects), "done")

(* The store fails, with the transaction committed or not, or the result      *)
(* cannot be encoded.                                                         *)
JobFails(t) ==
  /\ job[t] \in {"bind", "authorize", "accept", "ok", "stop", "result"}
  /\ job' = [job EXCEPT ![t] = "failed"]
  /\ UNCHANGED <<directoryVars, lock, closed, live, hs, reply, orphans, task, out, ran>>

JobStep(t) == Bind(t) \/ Authorize(t) \/ Accept(t) \/ Stop(t) \/ Publish(t)

----------------------------------------------------------------------------
(* The host.                                                                  *)
Close == /\ ~closed /\ closed' = TRUE
         /\ UNCHANGED <<directoryVars, lock, live, hs, reply, orphans, taskVars>>

(* Once it has every admission lock, shutdown aborts the registered tasks.    *)
Shutdown ==
  /\ closed /\ lock = None /\ live # None
  /\ Exit(live)

(* The process ends and starts again on the same store.                       *)
TargetCrash ==
  /\ lock' = None /\ closed' = FALSE /\ live' = None /\ orphans' = {}
  /\ hs' = [h \in Slots |-> Free]
  /\ task' = [t \in Tasks |-> IF task[t] = "none" THEN "none" ELSE "gone"]
  /\ job' = [t \in Tasks |-> IF job[t] \in {"none", "done"} THEN job[t] ELSE "failed"]
  /\ UNCHANGED <<directoryVars, reply, out, ran>>
==============================================================================
