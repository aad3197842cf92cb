---------------------------- MODULE FederatedCall ----------------------------
(* One remote call between two hosts: the kernel's attempts at the operation  *)
(* through the remote endpoint and the worker that carries cancellations on   *)
(* the source, the wire, and the directory and bridge of the target.          *)
(* The endpoint and the worker wait for one request at a time.  A request     *)
(* whose sender no longer waits is lost, or is handled with nobody to take    *)
(* the answer; what the sender handed to a blocking worker still happens.     *)
EXTENDS CallBridge, CallSource, FiniteSets

CONSTANTS Setups         \* what is exercised: operations, how programs end, attempts, faults

VARIABLES setup,     \* the chosen setup
          proc,      \* the attempt of the endpoint and the cancellation worker
          rpc,       \* the request each has outstanding
          told,      \* what the last attempt answered the kernel
          left,      \* source jobs whose waiter is gone
          tries,     \* attempts that may still begin
          faults     \* faults that may still happen

targetVars == <<directoryVars, bridgeVars>>
hostVars == <<setup, proc, rpc, told, left, tries, faults>>
vars == <<targetVars, sourceVars, hostVars>>

Senders == {"endpoint", "worker"}

ASSUME SlotAssumption == Senders \cup {Late} \subseteq Slots /\ Late \notin Senders

(* A refusal is neither silence, nor doubt, nor what a program can return.    *)
ASSUME AnswerAssumption == Refused \notin {None, Unknown} \cup {o.value : o \in Outcomes}
ASSUME EndsAssumption == \A x \in Setups : x.ends \subseteq Outcomes

Idle == [pc |-> "idle", got |-> None, now |-> 0, replay |-> FALSE, polling |-> FALSE]
Able(op) == op \in setup.ops

Init ==
  /\ DirectoryInit /\ BridgeInit /\ SourceInit
  /\ setup \in Setups
  /\ proc = [s \in Senders |-> Idle]
  /\ rpc = [s \in Senders |-> "none"]
  /\ told = None /\ left = {}
  /\ tries = setup.tries /\ faults = setup.faults

----------------------------------------------------------------------------
(* The source's transactions, named by where a process waits for them.        *)
SourceJobs == {"origin", "stage", "bind", "mark", "settle", "ack", "release"}
JobOk(pc, got, at) ==
  CASE pc = "origin" -> ~barrier /\ origin # "Retired"
    [] pc = "stage" -> StageAllowed(at)
    [] pc = "bind" -> rec.staged /\ BindPreparedAllowed(rec, got)
    [] pc = "mark" -> MarkOutboundAllowed(at)
    [] pc = "settle" -> rec.staged /\ SettleAllowed(rec, got)
    [] pc = "ack" -> rec.staged /\ AckAllowed(rec, got)
    [] OTHER -> TRUE
SourceRec(pc, got, at) ==
  IF ~JobOk(pc, got, at) THEN rec ELSE
  CASE pc = "stage" -> stage_outbound
    [] pc = "bind" -> bind(rec, got)
    [] pc = "mark" -> mark_invoke_possible(rec)
    [] pc = "settle" -> settle_outbound(got)
    [] pc = "ack" -> record_outbound_cancellation(got)
    [] OTHER -> rec
SourceTxn(pc, got, at) ==
  CASE pc = "origin" -> bind_outbound_origin
    [] pc = "release" -> release_outbound_responsibility
    [] OTHER -> rec' = SourceRec(pc, got, at) /\ UNCHANGED <<origin, barrier, link, clock>>

Waits == {"preparing", "inspecting", "invoking", "cancelling"}
At(s, pc) == proc[s].pc = pc

(* Where a process goes from here; an attempt may end with an answer, a pass  *)
(* of the worker just ends.                                                   *)
To(s, p) == proc' = [proc EXCEPT ![s] = p] /\ UNCHANGED <<rpc, told>>
Step(s, pc) == To(s, [proc[s] EXCEPT !.pc = pc])
Send(s, kind, p) ==
  /\ rpc' = [rpc EXCEPT ![s] = kind]
  /\ proc' = [proc EXCEPT ![s] = p]
  /\ UNCHANGED told
Ends(s, a) ==
  /\ proc' = [proc EXCEPT ![s] = Idle]
  /\ told' = IF s = "endpoint" THEN a ELSE told
  /\ UNCHANGED rpc
Local == UNCHANGED <<targetVars, setup, left, tries, faults>>
Read == Local /\ UNCHANGED sourceVars

(* A session with the target is not to be had.                                *)
Offline == Able("offline")

(* terminal_result, and what follows from an inspection.                      *)
Proven(i) == i.stopped /\ ~i.effects /\ i.result # None

(* Fault: the time of the loop is the one its attempt began with.             *)
SampledTime(s) == proc[s].now

(* The deadline is compared with the attempt's sample of the time before an   *)
(* Invoke, with the time itself in the loop after it.                         *)
PollTime(s) == IF proc[s].polling THEN clock ELSE proc[s].now
Judge(s, i) ==
  IF s = "worker" THEN Ends(s, None) ELSE
  CASE i.status \in {"Finished", "Closed"} /\ Proven(i)
         -> To(s, [proc[s] EXCEPT !.pc = "release", !.got = i.result])
    [] i.status \in {"Finished", "Closed", "Unproven"} /\ ~Proven(i) -> Ends(s, Unknown)
    [] OTHER -> IF PollTime(s) >= ExecuteBy THEN Ends(s, Unknown)
                ELSE Step(s, IF proc[s].polling THEN "inspect" ELSE "mark")

----------------------------------------------------------------------------
(* An attempt: FederationRemoteEndpoint::invoke.                              *)
Begin ==
  /\ At("endpoint", "idle") /\ rpc["endpoint"] = "none" /\ tries > 0
  /\ tries' = tries - 1
  /\ told' = IF Evidence = "Retired" THEN Unknown ELSE None
  /\ proc' = [proc EXCEPT !["endpoint"] =
                IF Evidence = "Retired" THEN Idle
                ELSE [Idle EXCEPT !.pc = "validate", !.replay = Evidence = "Recorded"]]
  /\ UNCHANGED <<targetVars, sourceVars, setup, rpc, left, faults>>

(* A replay that the host's configuration no longer admits may have run.      *)
InvalidAnswer(p) == IF p.replay THEN Unknown ELSE Refused
Validate ==
  /\ At("endpoint", "validate")
  /\ \/ Step("endpoint", "origin")
     \/ Able("reconfigure") /\ Ends("endpoint", InvalidAnswer(proc["endpoint"]))
  /\ Read

(* Fault: without a session nothing can have happened.                        *)
OfflineForgets(invoke) == Refused

(* Without a session nothing leaves; whether something left before is what    *)
(* the record says.                                                           *)
OfflineAnswer(invoke) == IF invoke THEN Unknown ELSE Refused
Connected(p, invoke) ==
  \/ Offline /\ Ends("endpoint", OfflineAnswer(invoke))
  \/ invoke /\ To("endpoint", [p EXCEPT !.pc = "inspect"])
  \/ ~invoke /\ p.now >= ExecuteBy /\ Ends("endpoint", Unknown)
  \/ ~invoke /\ p.now < ExecuteBy /\ To("endpoint", [p EXCEPT !.pc = "mark"])

Existing ==
  LET p == [proc["endpoint"] EXCEPT !.now = clock] IN
  /\ At("endpoint", "existing")
  /\ CASE rec.terminal # None -> Judge("endpoint", rec.terminal)
       [] rec.terminal = None /\ rec.prepared # None -> Connected(p, rec.invoke)
       [] OTHER -> IF clock >= PrepareBy
                   THEN Ends("endpoint", IF rec.staged THEN Unknown ELSE Refused)
                   ELSE \/ Offline /\ Ends("endpoint", Refused)
                        \/ To("endpoint", [p EXCEPT !.pc = "stage"])
  /\ Read

Connect ==
  /\ At("endpoint", "connect")
  /\ Connected(proc["endpoint"], rec.invoke)
  /\ Read

(* A pass of the worker over this call: retry_cancellation, inspect_cancelled.*)
Pursue(r) ==
  CASE cancel_request(r) -> Send("worker", "cancel", [Idle EXCEPT !.pc = "cancelling"])
    [] r.cancel /\ r.terminal = None /\ r.prepared # None /\ ~cancel_request(r)
         -> To("worker", [Idle EXCEPT !.pc = "inspect"])
    [] OTHER -> Ends("worker", None)
(* Fault: a call without a reservation is taken for one that needs no Cancel. *)
ListedPrepared == rec.cancel /\ rec.prepared # None /\ (rec.cancelling \/ rec.unsettled)

Listed == rec.cancel /\ (rec.cancelling \/ rec.unsettled)
Scan ==
  /\ At("worker", "idle") /\ rpc["worker"] = "none" /\ Listed
  /\ IF rec.prepared = None THEN Send("worker", "prepare", [Idle EXCEPT !.pc = "preparing"])
     ELSE Pursue(rec)
  /\ Read

(* inspect_call_persisted, for both.                                          *)
Inspect(s) ==
  /\ At(s, "inspect")
  /\ CASE rec.terminal # None -> Judge(s, rec.terminal)
       [] rec.terminal = None /\ rec.prepared = None -> Ends(s, Unknown)
       [] OTHER -> Send(s, "inspect", [proc[s] EXCEPT !.pc = "inspecting"])
  /\ Read

(* A process takes the result of its job.                                     *)
AfterJob(s, ok) ==
  LET p == proc[s]
  IN CASE p.pc = "release" -> Ends(s, p.got)
       [] p.pc = "ack" -> Ends(s, None)
       [] p.pc \notin {"release", "ack"} /\ ~ok -> Ends(s, Unknown)
       [] p.pc = "origin" /\ ok -> Step(s, "existing")
       [] p.pc = "stage" /\ ok ->
            IF rec.prepared # None THEN Step(s, "connect")
            ELSE Send(s, "prepare", [p EXCEPT !.pc = "preparing"])
       [] p.pc = "bind" /\ ok ->
            IF s = "worker" THEN Pursue(bind(rec, p.got)) ELSE Step(s, "connect")
       [] p.pc = "mark" /\ ok -> Send(s, "invoke", [p EXCEPT !.pc = "invoking"])
       [] p.pc = "settle" /\ ok -> Judge(s, p.got)
Job(s) ==
  /\ proc[s].pc \in SourceJobs
  /\ \E at \in source_time(proc[s].now) :
       /\ SourceTxn(proc[s].pc, proc[s].got, at)
       /\ AfterJob(s, JobOk(proc[s].pc, proc[s].got, at))
  /\ Local

(* A process takes the answer to its request.                                 *)
AfterReply(s, a) ==
  LET p == proc[s] IN
  CASE a = Refused -> [Idle EXCEPT !.pc = "failed"]
    [] p.pc = "preparing" /\ a # Refused -> [p EXCEPT !.pc = "bind", !.got = a]
    [] p.pc = "cancelling" /\ a # Refused -> [p EXCEPT !.pc = "ack", !.got = a]
    [] p.pc = "invoking" /\ a # Refused -> [p EXCEPT !.pc = "inspect", !.polling = TRUE]
    [] OTHER -> [p EXCEPT !.pc = "inspected", !.got = a]
Take(s) ==
  /\ proc[s].pc \in Waits /\ reply[s] # None
  /\ reply' = [reply EXCEPT ![s] = None]
  /\ rpc' = [rpc EXCEPT ![s] = "none"]
  /\ proc' = [proc EXCEPT ![s] = AfterReply(s, reply[s])]
  /\ UNCHANGED <<directoryVars, lock, closed, live, hs, orphans, taskVars, sourceVars,
                 setup, told, left, tries, faults>>
Failed(s) == At(s, "failed") /\ Ends(s, Unknown) /\ Read

(* Only a retained terminal receipt is settled.                               *)
Terminal(i) == i.status = "Closed" \/ (i.status = "Finished" /\ i.result # None)
Inspected(s) ==
  /\ At(s, "inspected")
  /\ IF Terminal(proc[s].got) THEN Step(s, "settle") ELSE Judge(s, proc[s].got)
  /\ Read

----------------------------------------------------------------------------
(* The wire and the target's sessions.                                        *)
Serve(s) ==
  /\ \/ /\ rpc[s] = "prepare"
        /\ row' = prepare_call(row)
        /\ reply' = [reply EXCEPT ![s] = IF PrepareAllowed(row) THEN Prepared(row') ELSE Refused]
     \/ /\ rpc[s] = "inspect"
        /\ row' = row
        /\ reply' = [reply EXCEPT ![s] = IF InspectAllowed(row) THEN inspection(row) ELSE Refused]
  /\ rpc' = [rpc EXCEPT ![s] = "served"]
  /\ UNCHANGED <<grant, peer, now, lock, closed, live, hs, orphans, taskVars, sourceVars,
                 setup, proc, told, left, tries, faults>>

Entry(kind) == [Free EXCEPT !.pc = IF kind = "cancel" THEN "stop" ELSE kind]
Arrive(s) ==
  /\ rpc[s] \in {"invoke", "cancel"}
  /\ hs' = [hs EXCEPT ![s] = Entry(rpc[s])]
  /\ rpc' = [rpc EXCEPT ![s] = "served"]
  /\ UNCHANGED <<directoryVars, lock, closed, live, reply, orphans, taskVars, sourceVars,
                 setup, proc, told, left, tries, faults>>

(* The target's side of a request whose sender no longer waits: it is lost or *)
(* its session noticed ...                                                    *)
Abandoned(s) == rpc[s] # "none" /\ proc[s].pc \notin Waits
Vanish(s) ==
  /\ Abandoned(s)
  /\ rpc' = [rpc EXCEPT ![s] = "none"]
  /\ reply' = [reply EXCEPT ![s] = None]
  /\ Dropped(s)
  /\ UNCHANGED <<directoryVars, closed, live, taskVars, sourceVars,
                 setup, proc, told, left, tries, faults>>
(* ... or it is handled all the same.                                         *)
Linger(s) ==
  /\ Abandoned(s) /\ hs[Late] = Free
  /\ \/ rpc[s] \in {"prepare", "invoke", "cancel"}
     \/ hs[s] # Free
  /\ hs' = [hs EXCEPT ![Late] = IF hs[s] = Free THEN Entry(rpc[s]) ELSE hs[s], ![s] = Free]
  /\ lock' = IF lock = s THEN Late ELSE lock
  /\ rpc' = [rpc EXCEPT ![s] = "none"]
  /\ UNCHANGED <<directoryVars, closed, live, reply, orphans, taskVars, sourceVars,
                 setup, proc, told, left, tries, faults>>
LatePrepare ==
  /\ hs[Late].pc = "prepare"
  /\ row' = prepare_call(row)
  /\ hs' = [hs EXCEPT ![Late] = Free]
  /\ UNCHANGED <<grant, peer, now, lock, closed, live, reply, orphans, taskVars, sourceVars, hostVars>>

----------------------------------------------------------------------------
(* Faults.                                                                    *)

(* A sender or the waiter of a job gives up, by a timeout or because it was   *)
(* dropped: the answer is unknown.                                            *)
GiveUp(s) ==
  /\ proc[s].pc \in Waits \cup SourceJobs
  /\ \/ Able("timeout") /\ faults > 0 /\ faults' = faults - 1
     \/ rpc[s] = "dead" /\ UNCHANGED faults
  /\ left' = IF proc[s].pc \in SourceJobs
             THEN left \cup {proc[s]} ELSE left
  /\ Ends(s, Unknown)
  /\ UNCHANGED <<targetVars, sourceVars, setup, tries>>

LeftJob(j) ==
  /\ j \in left
  /\ \E at \in source_time(j.now) : SourceTxn(j.pc, j.got, at)
  /\ left' = left \ {j}
  /\ UNCHANGED <<targetVars, setup, proc, rpc, told, tries, faults>>

Fault == faults > 0 /\ faults' = faults - 1 /\ UNCHANGED <<setup, left, tries>>

CrashSource ==
  /\ Able("restart") /\ faults > 0 /\ faults' = faults - 1
  /\ proc' = [s \in Senders |-> Idle]
  /\ told' = IF At("endpoint", "idle") THEN told ELSE Unknown
  /\ left' = {}
  /\ UNCHANGED <<targetVars, sourceVars, setup, rpc, tries>>

CrashTarget ==
  /\ Able("crash") /\ Fault
  /\ TargetCrash
  /\ rpc' = [s \in Senders |-> IF rpc[s] = "none" \/ reply[s] # None THEN rpc[s] ELSE "dead"]
  /\ UNCHANGED <<sourceVars, proc, told>>

StoreFault ==
  /\ Able("store") /\ Fault
  /\ \/ \E t \in Tasks : JobFails(t) \/ TaskTimeout(t)
     \/ \E h \in Slots : HandlerTimeout(h)
  /\ UNCHANGED <<sourceVars, proc, rpc, told>>

----------------------------------------------------------------------------
(* Operators and clocks.                                                      *)
Target(A) == A /\ UNCHANGED <<sourceVars, hostVars>>
Directory(A) == Target(A /\ UNCHANGED bridgeVars)
Source(A) == A /\ UNCHANGED <<targetVars, hostVars>>

Operate ==
  \/ Able("grant") /\ Directory(set_call_authority)
  \/ Able("peer") /\ (Directory(set_peer) \/ Source(set_link))
  \/ Able("overdue") /\ Directory(DeadlineStop)
  \/ Able("shutdown") /\ Target(Close \/ Shutdown)
CancelOperation == Able("cancel") /\ ~barrier /\ Source(stage_outbound_cancellation)
Maintain == Able("retire") /\ Source(retire_completed_outbound)
Time == (Able("time") /\ Directory(Tick)) \/ (Able("clock") /\ Source(SourceTick))

ProcStep(s) == Inspect(s) \/ Job(s) \/ Take(s) \/ Failed(s) \/ Inspected(s)
Attempt == Validate \/ Existing \/ Connect
Wire(s) == Serve(s) \/ Arrive(s) \/ Vanish(s) \/ Linger(s)

(* What tasks and jobs do by themselves; a program may never return.          *)
Background ==
  \/ \E t \in Tasks : Target(TaskStep(t) \/ JobStep(t))
  \/ \E pc \in Jobs : Target(OrphanStep(pc))
  \/ \E j \in left : LeftJob(j)
  \/ LatePrepare

Next ==
  \/ Begin \/ Attempt \/ Scan
  \/ \E s \in Senders : ProcStep(s) \/ Wire(s) \/ GiveUp(s)
  \/ \E h \in Slots : Target(HandlerStep(h))
  \/ \E t \in Tasks : Target(Finish(t, setup.ends))
  \/ Background
  \/ CrashSource \/ CrashTarget \/ StoreFault
  \/ Operate \/ CancelOperation \/ Maintain \/ Time

Spec == Init /\ [][Next]_vars

(* Everything that was begun goes on, programs excepted.  The admission lock  *)
(* is handed out in the order it was asked for, and a request to a host that  *)
(* has died times out.                                                        *)
SenderStep(s) ==
  \/ ProcStep(s) \/ Wire(s) \/ Target(HandlerStep(s))
  \/ rpc[s] = "dead" /\ GiveUp(s)
Fairness ==
  /\ SF_vars(Attempt \/ SenderStep("endpoint"))
  /\ SF_vars(Scan \/ SenderStep("worker"))
  /\ SF_vars(Target(HandlerStep(Late)))
  /\ WF_vars(Background)
  /\ WF_vars(Time)
FairSpec == Spec /\ Fairness
----------------------------------------------------------------------------
(* What the caller was promised.                                              *)
Promise == INSTANCE RemoteCall
             WITH Results <- {o.value : o \in Outcomes},
                  runs <- Cardinality(ran), closed <- row.status = "Closed",
                  value <- IF \E t \in ran : out[t].value # None
                           THEN (CHOOSE o \in {out[t] : t \in ran} : o.value # None).value ELSE None
ImplementsRemoteCall == Promise!CallSpec

(* A known refusal is the truth: an attempt that ends before dispatch, the    *)
(* answer of InvalidAnswer and OfflineAnswer, is not one of a program that    *)
(* has run for an earlier attempt.                                            *)
RefusedNeverRan == told = Refused => ran = {}

(* No program runs before its source has noted that an Invoke may have left   *)
(* (mark_outbound_invoke_possible).                                           *)
InvokeMarked == ran # {} => rec.invoke \/ origin = "Retired"

(* The program runs once, however many attempts, sessions and restarts invoke *)
(* the call, and never after the directory has closed it.                     *)
RunsOnce == (\A t, u \in ran : t = u) /\ (row.status = "Closed" => ran = {})

(* What the source keeps of a call is true of the target, across crashes,     *)
(* lost answers and late jobs: the mark before any effect, a settled receipt  *)
(* that says stopped only of a finished scope, and a call released or retired *)
(* only after a program without unresolved effects.                           *)
LedgerTruthful ==
  /\ InvokeMarked
  /\ rec.terminal # None /\ rec.terminal.stopped => \A t \in ran : out[t].stopped
  /\ origin \in {"Released", "Retired"} => \A t \in ran : out[t].stopped /\ ~out[t].effects

(* Both stores can be read back after any sequence of transactions, and their *)
(* indices list exactly the calls they are for.                               *)
StoresAgree ==
  /\ rec.staged => restore_record(rec)
  /\ rec.unsettled <=> rec.staged /\ rec.terminal = None
  /\ rec.cancelling <=> rec.cancel /\ rec.ack = None /\ rec.terminal = None
  /\ row.pending <=> row.status \in {"Preparing", "Accepted"} \/ (row.status = "Finished" /\ ~row.stopped)
  /\ row.input <=> row.status \in {"Preparing", "Accepted"}

(* Every attempt answers the kernel, by the execution deadline if not before. *)
AttemptsAnswer ==
  Able("clock") => (proc["endpoint"].pc # "idle" ~> proc["endpoint"].pc = "idle")

(* The worker gets every cancellation of a call under way to the target,      *)
(* unless the target has never heard of the call and cannot any more, or no   *)
(* longer admits the source.                                                  *)
CancelArrives ==
  rec.cancel ~> \/ rec.ack # None \/ rec.terminal # None
                \/ row.status = "Absent" /\ ~PrepareAllowed(row)
                \/ ~peer.on
==============================================================================
