------------------------- MODULE FederatedCallProofs -------------------------
(* Whatever the tasks, requests and faults: the program of a federated call   *)
(* runs at most once, never after the call was closed, and never before the   *)
(* source has durably noted that an Invoke may have left; both stores stay    *)
(* readable; what the source keeps of a call is true of the target; and until *)
(* a call is retired, what its caller is told is what RemoteCall promises.    *)
(* Four invariants, each on top of the one before: IInv (who may run), SInv   *)
(* (rows, indices and sessions), TInv (what is recorded, told and kept), CInv *)
(* (what is answered).                                                        *)
EXTENDS FederatedCall, TLAPS

(* A stored call names the task it has accepted from its acceptance on.       *)
IsRow(r) == r = [f \in DOMAIN NoCall |-> r[f]]
RowOk(r) == IsRow(r) /\ (r.accepted # None => r.status \in {"Accepted", "Finished"})

Begun(r) == r.status \in {"Preparing", "Accepted", "Finished"}

(* What a transaction other than an acceptance or a claim does to a row.      *)
Keeps(r, q) == RowOk(q) /\ q.accepted = r.accepted /\ (Begun(q) => Begun(r))

(* Each transaction of the directory keeps an accepted task; only a claim     *)
(* begins a call.                                                             *)
LEMMA RowsKept ==
  ASSUME NEW r, RowOk(r)
  PROVE  /\ Keeps(r, prepare_call(r)) /\ Keeps(r, close_unaccepted_call(r))
         /\ Keeps(r, cancel_call(r)) /\ Keeps(r, record_kernel_cancel_accepted(r))
         /\ Keeps(r, request_call_deadline_stop(r)) /\ Keeps(r, record_execution_stopped(r))
         /\ RowOk(invoke_call(r)) /\ invoke_call(r).accepted = r.accepted
<1>1. Keeps(r, prepare_call(r))
  BY Zenon DEF RowOk, IsRow, Keeps, Begun, NoCall, prepare_call
<1>2. Keeps(r, close_unaccepted_call(r))
  BY Zenon DEF RowOk, IsRow, Keeps, Begun, NoCall, close_unaccepted_call, ClosedRow, Revised
<1>3. Keeps(r, CancelledRow(r))
  BY ZenonT(30) DEF RowOk, IsRow, Keeps, Begun, NoCall, CancelledRow, ClosedRow, Revised
<1>4. Keeps(r, cancel_call(r))
  BY <1>3, Zenon DEF RowOk, IsRow, Keeps, Begun, NoCall, cancel_call
<1>5. Keeps(r, record_kernel_cancel_accepted(r))
  BY Zenon DEF RowOk, IsRow, Keeps, Begun, NoCall, record_kernel_cancel_accepted, Revised
<1>6. Keeps(r, request_call_deadline_stop(r))
  BY Zenon DEF RowOk, IsRow, Keeps, Begun, NoCall, request_call_deadline_stop, Revised
<1>7. Keeps(r, record_execution_stopped(r))
  BY Zenon DEF RowOk, IsRow, Keeps, Begun, NoCall, record_execution_stopped, Revised
<1>8. RowOk(invoke_call(r)) /\ invoke_call(r).accepted = r.accepted
  BY Zenon DEF RowOk, IsRow, NoCall, invoke_call, ClosedRow, Revised
<1>9. QED BY <1>1, <1>2, <1>4, <1>5, <1>6, <1>7, <1>8, Zenon

(* Binding and publishing keep it too.                                        *)
LEMMA TaskRowsKept ==
  ASSUME NEW r, RowOk(r), NEW t, NEW v, NEW e
  PROVE  Keeps(r, bind_kernel_identity(r, t)) /\ Keeps(r, record_call_result(r, v, e))
<1>1. Keeps(r, bind_kernel_identity(r, t))
  BY Zenon DEF RowOk, IsRow, Keeps, Begun, NoCall, bind_kernel_identity
<1>2. Keeps(r, record_call_result(r, v, e))
  BY ZenonT(30) DEF RowOk, IsRow, Keeps, Begun, NoCall, record_call_result, Revised
<1>3. QED BY <1>1, <1>2, Zenon

(* An acceptance is for one task and for good.                                *)
LEMMA RowAccepted ==
  ASSUME NEW r, RowOk(r), NEW t, AcceptAllowed(r, t)
  PROVE  LET q == record_kernel_acceptance(r, t)
         IN RowOk(q) /\ q.accepted = t /\ r.accepted \in {None, t} /\ (Begun(q) => Begun(r))
<1>1. CASE Accepting(r)
  BY <1>1, Zenon DEF RowOk, IsRow, Begun, NoCall, Accepting, record_kernel_acceptance, Revised
<1>2. CASE ~Accepting(r)
  BY <1>2, Zenon DEF AcceptAllowed, record_kernel_acceptance
<1>3. QED BY <1>1, <1>2, Zenon

(* The jobs of handlers, wherever they are run.                               *)
LEMMA JobRowKept ==
  ASSUME RowOk(row), NEW pc
  PROVE  LET q == JobRow(pc)
         IN RowOk(q) /\ q.accepted = row.accepted /\ (Begun(q) => Begun(row) \/ pc = "claim")
<1>1. Keeps(row, row)
  BY Zenon DEF Keeps
<1>2. QED BY <1>1, RowsKept, Zenon DEF JobRow, Keeps

----------------------------------------------------------------------------
(* The source's record never forgets that an Invoke may have left, except by  *)
(* retiring the call with its origin.                                         *)
Marked == rec.invoke \/ origin = "Retired"
RecOk(r) == r = [f \in DOMAIN NoRecord |-> r[f]] /\ (r.invoke => r.staged)

(* What a step of the source alone may do to it.                              *)
Remembers == RecOk(rec') /\ (Marked => Marked')

(* The jobs of the source, whether anyone waits for them or not.              *)
LEMMA SourceRemembers ==
  ASSUME RecOk(rec), NEW pc, NEW got, NEW at, SourceTxn(pc, got, at)
  PROVE  /\ Remembers
         /\ pc = "mark" /\ JobOk(pc, got, at) => Marked'
<1>1. CASE pc = "origin"
  BY <1>1, Zenon DEF SourceTxn, bind_outbound_origin, Remembers, Marked
<1>2. CASE pc = "release"
  BY <1>2, Zenon DEF SourceTxn, release_outbound_responsibility, Remembers, Marked
<1>3. CASE pc \notin {"origin", "release"}
  <2>1. rec' = SourceRec(pc, got, at) /\ origin' = origin
    BY <1>3, Zenon DEF SourceTxn
  <2>2. CASE ~JobOk(pc, got, at)
    BY <2>1, <2>2, Zenon DEF SourceRec, Remembers, Marked
  <2>3. CASE JobOk(pc, got, at) /\ pc = "stage"
    <3>1. rec' = stage_outbound /\ origin # "Retired"
      BY <2>1, <2>3, Zenon DEF SourceRec, JobOk, StageAllowed
    <3>2. QED BY <2>3, <3>1, <2>1, Zenon DEF stage_outbound, RecOk, NoRecord, Remembers, Marked
  <2>4. CASE JobOk(pc, got, at) /\ pc = "bind"
    BY <2>1, <2>4, Zenon DEF SourceRec, bind, RecOk, NoRecord, Remembers, Marked
  <2>5. CASE JobOk(pc, got, at) /\ pc = "mark"
    <3>1. rec' = mark_invoke_possible(rec) /\ rec.staged
      BY <2>1, <2>5, Zenon DEF SourceRec, JobOk, MarkOutboundAllowed
    <3>2. QED BY <2>5, <3>1, Zenon DEF mark_invoke_possible, RecOk, NoRecord, Remembers, Marked
  <2>6. CASE JobOk(pc, got, at) /\ pc = "settle"
    BY <2>1, <2>6, Zenon DEF SourceRec, settle_outbound, settle, RecOk, NoRecord, Remembers, Marked
  <2>7. CASE JobOk(pc, got, at) /\ pc = "ack"
    BY <2>1, <2>7, Zenon DEF SourceRec, record_outbound_cancellation, record_cancellation,
                      RecOk, NoRecord, Remembers, Marked
  <2>8. CASE JobOk(pc, got, at) /\ pc \notin {"stage", "bind", "mark", "settle", "ack"}
    BY <1>3, <2>1, <2>8, Zenon DEF SourceRec, Remembers, Marked
  <2>9. QED BY <2>2, <2>3, <2>4, <2>5, <2>6, <2>7, <2>8, Zenon
<1>4. QED BY <1>1, <1>2, <1>3, Zenon

----------------------------------------------------------------------------
(* How far an Invoke has come: on the wire, in a handler, in a job, in the    *)
(* directory, in a task.                                                      *)
InvokePcs == {"invoke", "claim", "view", "decide", "close", "await"}
Reached ==
  \/ \E s \in Senders : rpc[s] = "invoke"
  \/ \E h \in Slots : hs[h].pc \in InvokePcs
  \/ "claim" \in orphans
  \/ Begun(row)
  \/ \E t \in Tasks : task[t] # "none" \/ job[t] # "none"
  \/ ran # {}

Owned ==
  /\ RowOk(row) /\ ran \subseteq Tasks
  /\ \A t \in Tasks : job[t] = "ok" \/ t \in ran => row.accepted = t

Shape ==
  /\ hs = [h \in Slots |-> hs[h]]
  /\ \A h \in Slots : hs[h] = [f \in DOMAIN Free |-> hs[h][f]]
  /\ rpc = [s \in Senders |-> rpc[s]]
  /\ task = [t \in Tasks |-> task[t]]
  /\ job = [t \in Tasks |-> job[t]]
  /\ live # None => live \in Tasks /\ task[live] # "none"

IInv == Shape /\ Owned /\ RecOk(rec) /\ (Reached => Marked)

(* A request other than an Invoke is sent, answered or dropped.               *)
Quiet ==
  \/ rpc' = rpc
  \/ \E s \in Senders, k \in {"prepare", "inspect", "cancel", "none", "served"} :
       rpc' = [rpc EXCEPT ![s] = k]

(* An Invoke is sent by the process that has marked it.                       *)
Sends == \E s \in Senders :
           proc[s].pc = "mark" /\ rpc' = [rpc EXCEPT ![s] = "invoke"] /\ UNCHANGED told

(* A step keeps the invariant, and only such a process lets an Invoke begin.  *)
Safe == IInv' /\ (Reached' => Reached \/ Sends)

(* The source's processes send Invokes only after a mark.                     *)
LEMMA SourceSide ==
  ASSUME IInv, Remembers, UNCHANGED <<row, live, hs, orphans, task, job, ran>>,
         Quiet \/ (Marked' /\ Sends)
  PROVE  Safe
<1>1. Shape' /\ Owned'
  BY Zenon DEF IInv, Shape, Owned, Quiet, Sends
<1>2. ASSUME Reached', Quiet PROVE Reached
  <2>1. \A s \in Senders : rpc'[s] = "invoke" => rpc[s] = "invoke"
    BY <1>2, Zenon DEF Quiet, IInv, Shape
  <2>2. QED BY <1>2, <2>1, Zenon DEF Reached
<1>3. Reached' => Marked'
  BY <1>2, Zenon DEF IInv, Remembers
<1>4. QED BY <1>1, <1>2, <1>3, Zenon DEF Safe, IInv, Remembers

(* Steps of the target alone.                                                 *)
LEMMA TargetSide ==
  ASSUME IInv, UNCHANGED <<rec, origin>>, Shape', Owned', Reached' => Reached
  PROVE  Safe
BY Zenon DEF Safe, IInv, Marked

(* What follows from an inspection or from a record sends no Invoke.          *)
LEMMA Unsent ==
  ASSUME NEW s \in Senders
  PROVE  /\ \A a : Ends(s, a) => Quiet
         /\ \A p : To(s, p) => Quiet
         /\ \A pc : Step(s, pc) => Quiet
         /\ \A p, k : k \in {"prepare", "inspect", "cancel"} /\ Send(s, k, p) => Quiet
         /\ \A i : Judge(s, i) => Quiet
<1>1. \A a : Ends(s, a) => Quiet
  BY Zenon DEF Ends, Quiet
<1>2. \A p : To(s, p) => Quiet
  BY Zenon DEF To, Quiet
<1>3. \A pc : Step(s, pc) => Quiet
  BY <1>2, Zenon DEF Step
<1>4. \A p, k : k \in {"prepare", "inspect", "cancel"} /\ Send(s, k, p) => Quiet
  BY Zenon DEF Send, Quiet
<1>5. \A i : Judge(s, i) => Quiet
  BY <1>1, <1>2, <1>3, Zenon DEF Judge
<1>6. QED BY <1>1, <1>2, <1>3, <1>4, <1>5, Zenon

(* Nor does a pass of the worker.                                             *)
LEMMA PursueUnsent == ASSUME NEW r, Pursue(r) PROVE Quiet
<1>1. "worker" \in Senders
  BY Zenon DEF Senders
<1>2. QED BY <1>1, Unsent, Zenon DEF Pursue

(* A process takes the result of its job: only a mark is followed by one.     *)
LEMMA JobSends ==
  ASSUME NEW s \in Senders, NEW ok, proc[s].pc \in SourceJobs, AfterJob(s, ok)
  PROVE  \/ Quiet
         \/ proc[s].pc = "mark" /\ ok /\ rpc' = [rpc EXCEPT ![s] = "invoke"] /\ UNCHANGED told
<1>1. CASE proc[s].pc \in {"release", "ack"} \/ ~ok
  BY <1>1, Unsent, Zenon DEF AfterJob
<1>2. CASE proc[s].pc \in {"origin", "stage", "settle"} /\ ok
  BY <1>2, Unsent, Zenon DEF AfterJob
<1>3. CASE proc[s].pc = "bind" /\ ok
  BY <1>3, Unsent, PursueUnsent, Zenon DEF AfterJob
<1>4. CASE proc[s].pc = "mark" /\ ok
  BY <1>4, Zenon DEF AfterJob, Send
<1>5. QED BY <1>1, <1>2, <1>3, <1>4, Zenon DEF SourceJobs

(* Steps of the endpoint and of the worker on the source.                     *)
LEMMA ProcessSteps ==
  ASSUME IInv,
         \/ Begin \/ Attempt \/ Scan
         \/ \E s \in Senders : Inspect(s) \/ Job(s) \/ Take(s) \/ Failed(s) \/ Inspected(s) \/ GiveUp(s)
         \/ \E j \in left : LeftJob(j)
         \/ CrashSource
  PROVE  Safe
<1> USE DEF targetVars, directoryVars, bridgeVars, taskVars, sourceVars
<1>e. "endpoint" \in Senders /\ "worker" \in Senders
  BY Zenon DEF Senders
<1>k. UNCHANGED <<rec, origin>> => Remembers
  BY Zenon DEF IInv, Remembers, Marked
<1>1. CASE Begin
  <2>1. Quiet BY <1>1, Zenon DEF Begin, Quiet
  <2>2. QED BY <1>1, <1>k, <2>1, SourceSide, Zenon DEF Begin
<1>2. CASE Attempt
  <2>1. UNCHANGED <<row, live, hs, orphans, task, job, ran, rec, origin>>
    BY <1>2, Zenon DEF Attempt, Validate, Existing, Connect, Read, Local
  <2>2. ASSUME NEW p, NEW invoke, Connected(p, invoke) PROVE Quiet
    BY <1>e, <2>2, Unsent, Zenon DEF Connected
  <2>3. Quiet
    <3>1. CASE Validate BY <1>e, <3>1, Unsent, Zenon DEF Validate
    <3>2. CASE Existing BY <1>e, <3>2, <2>2, Unsent, Zenon DEF Existing
    <3>3. CASE Connect BY <3>3, <2>2, Zenon DEF Connect
    <3>4. QED BY <1>2, <3>1, <3>2, <3>3, Zenon DEF Attempt
  <2>4. QED BY <2>1, <2>3, <1>k, SourceSide, Zenon
<1>3. CASE Scan
  <2>1. Quiet BY <1>e, <1>3, Unsent, PursueUnsent, Zenon DEF Scan
  <2>2. QED BY <1>3, <1>k, <2>1, SourceSide, Zenon DEF Scan, Read, Local
<1>4. ASSUME NEW s \in Senders, Inspect(s) \/ Failed(s) \/ Inspected(s) PROVE Safe
  <2>1. Quiet BY <1>4, Unsent, Zenon DEF Inspect, Failed, Inspected
  <2>2. QED BY <1>4, <1>k, <2>1, SourceSide, Zenon DEF Inspect, Failed, Inspected, Read, Local
<1>5. ASSUME NEW s \in Senders, Job(s) PROVE Safe
  <2>1. PICK at : /\ SourceTxn(proc[s].pc, proc[s].got, at)
                  /\ AfterJob(s, JobOk(proc[s].pc, proc[s].got, at))
    BY <1>5, Zenon DEF Job
  <2>2. /\ Remembers
        /\ proc[s].pc = "mark" /\ JobOk(proc[s].pc, proc[s].got, at) => Marked'
    BY <2>1, SourceRemembers, Zenon DEF IInv
  <2>3. Quiet \/ (Marked' /\ Sends)
    <3>1. proc[s].pc \in SourceJobs BY <1>5, Zenon DEF Job
    <3> DEFINE ok == JobOk(proc[s].pc, proc[s].got, at)
    <3>2. AfterJob(s, ok) /\ (proc[s].pc = "mark" /\ ok => Marked') BY <2>1, <2>2, Zenon
    <3> HIDE DEF ok
    <3>3. \/ Quiet
          \/ Marked' /\ proc[s].pc = "mark" /\ rpc' = [rpc EXCEPT ![s] = "invoke"] /\ UNCHANGED told
      BY <3>1, <3>2, JobSends
    <3>4. QED BY <3>3, Zenon DEF Sends
  <2>4. QED BY <1>5, <2>2, <2>3, SourceSide, Zenon DEF Job, Local
<1>6. ASSUME NEW s \in Senders, Take(s) PROVE Safe
  <2>1. Quiet BY <1>6, Zenon DEF Take, Quiet
  <2>2. QED BY <1>6, <1>k, <2>1, SourceSide, Zenon DEF Take
<1>7. ASSUME NEW s \in Senders, GiveUp(s) PROVE Safe
  <2>1. Quiet BY <1>7, Unsent, Zenon DEF GiveUp
  <2>2. QED BY <1>7, <1>k, <2>1, SourceSide, Zenon DEF GiveUp
<1>8. ASSUME NEW j \in left, LeftJob(j) PROVE Safe
  <2>1. PICK at : SourceTxn(j.pc, j.got, at)
    BY <1>8, Zenon DEF LeftJob
  <2>2. Remembers BY <2>1, SourceRemembers, Zenon DEF IInv
  <2>3. Quiet BY <1>8, Zenon DEF LeftJob, Quiet
  <2>4. QED BY <1>8, <2>2, <2>3, SourceSide, Zenon DEF LeftJob
<1>9. CASE CrashSource
  <2>1. Quiet BY <1>9, Zenon DEF CrashSource, Quiet
  <2>2. QED BY <1>9, <1>k, <2>1, SourceSide, Zenon DEF CrashSource
<1>10. QED BY <1>1, <1>2, <1>3, <1>4, <1>5, <1>6, <1>7, <1>8, <1>9, Zenon

(* Requests reach the target, and its sessions end.                           *)
LEMMA WireSteps ==
  ASSUME IInv, NEW s \in Senders, Wire(s)
  PROVE  Safe
<1> USE DEF directoryVars, taskVars, sourceVars
<1>s. s \in Slots /\ Late \in Slots
  BY SlotAssumption, Zenon
<1>1. CASE Serve(s)
  <2>1. Keeps(row, row')
    BY <1>1, RowsKept, Zenon DEF Serve, IInv, Owned, Keeps
  <2>2. Shape' /\ Owned'
    BY <1>1, <2>1, Zenon DEF Serve, IInv, Shape, Owned, Keeps
  <2>3. Reached' => Reached
    BY <1>1, <2>1, Zenon DEF Serve, IInv, Shape, Reached, Keeps
  <2>4. QED BY <1>1, <2>2, <2>3, TargetSide, Zenon DEF Serve
<1>2. CASE Arrive(s)
  <2>1. Shape' /\ Owned'
    BY <1>2, Zenon DEF Arrive, Entry, Free, IInv, Shape, Owned
  <2>2. /\ rpc'[s] # "invoke" /\ \A u \in Senders : rpc'[u] = "invoke" => rpc[u] = "invoke"
        /\ \A h \in Slots : hs'[h].pc \in InvokePcs => hs[h].pc \in InvokePcs \/ rpc[s] = "invoke"
    BY <1>2, Zenon DEF Arrive, Entry, Free, IInv, Shape, InvokePcs
  <2>3. Reached' => Reached
    BY <1>2, <2>2, Zenon DEF Arrive, Reached
  <2>4. QED BY <1>2, <2>1, <2>3, TargetSide, Zenon DEF Arrive
<1>3. CASE Vanish(s)
  <2>1. Shape' /\ Owned'
    BY <1>3, Zenon DEF Vanish, Dropped, Free, IInv, Shape, Owned
  <2>2. /\ \A u \in Senders : rpc'[u] = "invoke" => rpc[u] = "invoke"
        /\ \A h \in Slots : hs'[h].pc \in InvokePcs => hs[h].pc \in InvokePcs
        /\ "claim" \in orphans' => "claim" \in orphans \/ hs[s].pc \in InvokePcs
    BY <1>3, Zenon DEF Vanish, Dropped, Free, IInv, Shape, InvokePcs
  <2>3. Reached' => Reached
    BY <1>s, <1>3, <2>2, Zenon DEF Vanish, Reached
  <2>4. QED BY <1>3, <2>1, <2>3, TargetSide, Zenon DEF Vanish
<1>4. CASE Linger(s)
  <2>1. Shape' /\ Owned'
    BY <1>s, <1>4, Zenon DEF Linger, Entry, Free, IInv, Shape, Owned
  <2>2. /\ \A u \in Senders : rpc'[u] = "invoke" => rpc[u] = "invoke"
        /\ \A h \in Slots : hs'[h].pc \in InvokePcs
                 => hs[h].pc \in InvokePcs \/ hs[s].pc \in InvokePcs \/ rpc[s] = "invoke"
    BY <1>s, <1>4, Zenon DEF Linger, Entry, Free, IInv, Shape, InvokePcs
  <2>3. Reached' => Reached
    BY <1>s, <1>4, <2>2, Zenon DEF Linger, Reached
  <2>4. QED BY <1>4, <2>1, <2>3, TargetSide, Zenon DEF Linger
<1>5. QED BY <1>1, <1>2, <1>3, <1>4, Zenon DEF Wire

(* Handlers of Invoke and Cancel, and the jobs they left behind.              *)
LEMMA HandlerSteps ==
  ASSUME IInv, UNCHANGED <<rec, origin, rpc>>,
         \/ \E h \in Slots : HandlerStep(h) \/ HandlerTimeout(h)
         \/ \E pc \in Jobs : OrphanStep(pc)
  PROVE  Safe
<1> USE DEF directoryVars, taskVars
<1>1. ASSUME NEW h \in Slots, Answered(h) PROVE Safe
  <2>1. /\ RowOk(row') /\ row'.accepted = row.accepted
        /\ Begun(row') => Begun(row) \/ hs[h].pc = "claim"
    BY <1>1, JobRowKept, Zenon DEF Answered, IInv, Owned
  <2>2. Shape' /\ Owned'
    <3>1. Shape' BY <1>1 DEF Answered, Free, IInv, Shape
    <3>2. Owned' BY <1>1, <2>1, Zenon DEF Answered, IInv, Owned
    <3>3. QED BY <3>1, <3>2, Zenon
  <2>3. \A g \in Slots : hs'[g].pc \in InvokePcs => hs[g].pc \in InvokePcs
    BY <1>1 DEF Answered, Free, IInv, Shape, InvokePcs
  <2>4. Reached' => Reached
    BY <1>1, <2>1, <2>3, Zenon DEF Answered, Reached, InvokePcs
  <2>5. QED BY <2>2, <2>4, TargetSide, Zenon
<1>2. ASSUME NEW h \in Slots, NEW from, NEW to, NEW r, Goes(h, from, to, r),
             to = [f \in DOMAIN Free |-> to[f]], to.pc \in InvokePcs => from \in InvokePcs,
             RowOk(r), r.accepted = row.accepted, Begun(r) => Begun(row) \/ from \in InvokePcs,
             UNCHANGED <<live, task>>
      PROVE  Safe
  <2>1. Shape' /\ Owned'
    BY <1>2, Zenon DEF Goes, IInv, Shape, Owned
  <2>2. \A g \in Slots : hs'[g].pc \in InvokePcs => hs[g].pc \in InvokePcs
    BY <1>2, Zenon DEF Goes, IInv, Shape
  <2>3. Reached' => Reached
    BY <1>2, <2>2, Zenon DEF Goes, Reached
  <2>4. QED BY <2>1, <2>3, TargetSide, Zenon
<1>3. ASSUME NEW h \in Slots, NEW from, NEW to, Holds(h, from, to), to \in InvokePcs => from \in InvokePcs
      PROVE  Safe
  <2>1. LET p == [hs[h] EXCEPT !.pc = to]
        IN p = [f \in DOMAIN Free |-> p[f]] /\ p.pc = to
    BY Zenon DEF IInv, Shape, Free
  <2>2. LET q == JobRow(from)
        IN RowOk(q) /\ q.accepted = row.accepted /\ (Begun(q) => Begun(row) \/ from = "claim")
    BY JobRowKept, Zenon DEF IInv, Owned
  <2>3. QED BY <1>2, <1>3, <2>1, <2>2, Zenon DEF Holds, InvokePcs
<1>4. ASSUME NEW h \in Slots, Lock(h) \/ View(h) \/ Cancel(h) PROVE Safe
  <2>1. hs[h] = [f \in DOMAIN Free |-> hs[h][f]] /\ RowOk(row)
    BY Zenon DEF IInv, Shape, Owned
  <2>2. ASSUME NEW pc, NEW seen, NEW ans
        PROVE  /\ LET p == [hs[h] EXCEPT !.pc = pc] IN p = [f \in DOMAIN Free |-> p[f]] /\ p.pc = pc
               /\ LET p == [hs[h] EXCEPT !.pc = pc, !.seen = seen]
                  IN p = [f \in DOMAIN Free |-> p[f]] /\ p.pc = pc
               /\ LET p == [hs[h] EXCEPT !.pc = pc, !.ans = ans]
                  IN p = [f \in DOMAIN Free |-> p[f]] /\ p.pc = pc
    BY <2>1, Zenon DEF Free
  <2>3. CASE Lock(h)
    BY <2>1, <2>2, <2>3, <1>2, Zenon DEF Lock, InvokePcs
  <2>4. CASE View(h)
    <3> DEFINE p == [hs[h] EXCEPT !.pc = "decide", !.seen = SeenOf(row)]
    <3>1. p = [f \in DOMAIN Free |-> p[f]] /\ p.pc = "decide"
      BY <2>2, Zenon
    <3>2. Goes(h, "view", p, row) /\ UNCHANGED <<live, task>>
      BY <2>4, Zenon DEF View
    <3> HIDE DEF p
    <3>3. QED BY <2>1, <3>1, <3>2, <1>2, Zenon DEF InvokePcs
  <2>5. CASE Cancel(h)
    <3>1. Keeps(row, cancel_call(row))
      BY <2>1, RowsKept, Zenon
    <3> DEFINE p == [hs[h] EXCEPT !.pc = "select", !.ans = CancelAnswer(row)]
    <3>2. p = [f \in DOMAIN Free |-> p[f]] /\ p.pc \notin InvokePcs
      BY <2>1, Zenon DEF Free, InvokePcs
    <3>3. Goes(h, "cancel", p, cancel_call(row)) /\ UNCHANGED <<live, task>>
      BY <2>5, Zenon DEF Cancel
    <3> HIDE DEF p
    <3>4. QED BY <3>1, <3>2, <3>3, <1>2, Zenon DEF Keeps
  <2>6. QED BY <1>4, <2>3, <2>4, <2>5, Zenon
<1>5. ASSUME NEW h \in Slots, Select(h) \/ Signal(h) PROVE Safe
  <2>1. PICK p : /\ hs' = [hs EXCEPT ![h] = p]
                 /\ p = [f \in DOMAIN Free |-> p[f]] /\ p.pc \notin InvokePcs
    <3>1. hs[h] = [f \in DOMAIN Free |-> hs[h][f]]
      BY Zenon DEF IInv, Shape
    <3>2. CASE Select(h)
      <4>1. CASE live = None
        <5> DEFINE p == [hs[h] EXCEPT !.pc = "settle"]
        <5>1. hs' = [hs EXCEPT ![h] = p]
          BY <3>2, <4>1, Zenon DEF Select
        <5>2. p = [f \in DOMAIN Free |-> p[f]] /\ p.pc \notin InvokePcs
          BY <3>1, Zenon DEF Free, InvokePcs
        <5> HIDE DEF p
        <5>3. QED BY <5>1, <5>2, Zenon
      <4>2. CASE live # None
        <5> DEFINE p == [hs[h] EXCEPT !.pc = "signal", !.seen = live]
        <5>1. hs' = [hs EXCEPT ![h] = p]
          BY <3>2, <4>2, Zenon DEF Select
        <5>2. p = [f \in DOMAIN Free |-> p[f]] /\ p.pc \notin InvokePcs
          BY <3>1, Zenon DEF Free, InvokePcs
        <5> HIDE DEF p
        <5>3. QED BY <5>1, <5>2, Zenon
      <4>3. QED BY <4>1, <4>2, Zenon
    <3>3. CASE Signal(h)
      <4> DEFINE p == [hs[h] EXCEPT !.pc = "record"]
      <4>1. hs' = [hs EXCEPT ![h] = p]
        BY <3>3, Zenon DEF Signal
      <4>2. p = [f \in DOMAIN Free |-> p[f]] /\ p.pc \notin InvokePcs
        BY <3>1, Zenon DEF Free, InvokePcs
      <4> HIDE DEF p
      <4>3. QED BY <4>1, <4>2, Zenon
    <3>4. QED BY <1>5, <3>2, <3>3, Zenon
  <2>2. /\ Shape' /\ Owned'
        /\ \A g \in Slots : hs'[g].pc \in InvokePcs => hs[g].pc \in InvokePcs
    <3>1. UNCHANGED <<row, rpc, live, task, job, ran>> BY <1>5, Zenon DEF Select, Signal
    <3>2. Owned' BY <3>1, Zenon DEF IInv, Owned
    <3>3. /\ hs' = [g \in Slots |-> hs'[g]] /\ \A g \in Slots : hs'[g] = (IF g = h THEN p ELSE hs[g])
      BY <2>1, Zenon DEF IInv, Shape
    <3>4. \A g \in Slots : hs'[g] = [f \in DOMAIN Free |-> hs'[g][f]]
      BY <2>1, <3>3 DEF IInv, Shape
    <3>5. Shape' BY <3>1, <3>3, <3>4, Zenon DEF IInv, Shape
    <3>6. QED BY <2>1, <3>2, <3>3, <3>5, Zenon
  <2>3. Reached' => Reached
    BY <1>5, <2>2, Zenon DEF Select, Signal, Reached
  <2>4. QED BY <2>2, <2>3, TargetSide, Zenon
<1>6. ASSUME NEW h \in Slots, NEW t \in Tasks, Spawn(h, t) PROVE Safe
  <2>1. Shape' /\ Owned'
    BY <1>6, Zenon DEF Spawn, Free, IInv, Shape, Owned
  <2>2. Reached
    BY <1>6, Zenon DEF Spawn, Reached, InvokePcs
  <2>3. QED BY <2>1, <2>2, TargetSide, Zenon
<1>7. ASSUME NEW h \in Slots, HandlerTimeout(h) PROVE Safe
  <2>1. Shape' /\ Owned'
    BY <1>7, Zenon DEF HandlerTimeout, Dropped, Free, IInv, Shape, Owned
  <2>2. /\ \A g \in Slots : hs'[g].pc \in InvokePcs => hs[g].pc \in InvokePcs
        /\ "claim" \in orphans' => "claim" \in orphans \/ hs[h].pc \in InvokePcs
    BY <1>7, Zenon DEF HandlerTimeout, Dropped, Free, IInv, Shape, InvokePcs
  <2>3. Reached' => Reached
    BY <1>7, <2>2, Zenon DEF HandlerTimeout, Reached
  <2>4. QED BY <2>1, <2>3, TargetSide, Zenon
<1>8. ASSUME NEW pc \in Jobs, OrphanStep(pc) PROVE Safe
  <2>1. /\ RowOk(row') /\ row'.accepted = row.accepted
        /\ Begun(row') => Begun(row) \/ pc = "claim"
    BY <1>8, JobRowKept, Zenon DEF OrphanStep, IInv, Owned
  <2>2. "claim" \in orphans' => "claim" \in orphans
    BY <1>8, Zenon DEF OrphanStep, JobRest
  <2>3. Shape' /\ Owned'
    BY <1>8, <2>1, Zenon DEF OrphanStep, IInv, Shape, Owned
  <2>4. Reached' => Reached
    BY <1>8, <2>1, <2>2, Zenon DEF OrphanStep, Reached
  <2>5. QED BY <2>3, <2>4, TargetSide, Zenon
<1>9. ASSUME NEW h \in Slots, HandlerStep(h) PROVE Safe
  <2>1. CASE Holds(h, "claim", "view") \/ Holds(h, "decide", "close")
    BY <2>1, <1>3, Zenon DEF InvokePcs
  <2>2. ASSUME NEW pc \in {"settle", "record"}, NEW rest \in JobRest(pc), Holds(h, pc, rest)
        PROVE  Safe
    <3>1. rest \notin InvokePcs
      BY <2>2, Zenon DEF JobRest, InvokePcs
    <3>2. QED BY <2>2, <3>1, <1>3, Zenon
  <2>3. QED BY <1>1, <1>4, <1>5, <1>6, <1>9, <2>1, <2>2, Zenon DEF HandlerStep
<1>10. QED BY <1>7, <1>8, <1>9, Zenon

(* Tasks and their jobs: a task runs the program only if the row names it.    *)
LEMMA TaskSteps ==
  ASSUME IInv, UNCHANGED <<rec, origin, rpc>>, NEW t \in Tasks, NEW ends,
         TaskStep(t) \/ JobStep(t) \/ Finish(t, ends) \/ JobFails(t) \/ TaskTimeout(t)
  PROVE  Safe
<1> USE DEF directoryVars
<1>1. ASSUME Exit(t), task[t] # "none" PROVE Safe
  <2>1. Shape' /\ Owned'
    BY <1>1, Zenon DEF Exit, IInv, Shape, Owned
  <2>2. Reached
    BY <1>1, Zenon DEF Reached
  <2>3. QED BY <2>1, <2>2, TargetSide, Zenon
<1>2. ASSUME NEW pc, NEW j, Advance(t, pc, j), j # "ok", pc # "none", task[t] # "none",
             ran' = ran \/ (ran' = ran \cup {t} /\ job[t] = "ok")
      PROVE  Safe
  <2>1. Shape' /\ Owned'
    BY <1>2, Zenon DEF Advance, IInv, Shape, Owned
  <2>2. Reached
    BY <1>2, Zenon DEF Reached
  <2>3. QED BY <2>1, <2>2, TargetSide, Zenon
<1>3. ASSUME NEW from, NEW ok, NEW r, NEW next, JobTxn(t, from, ok, r, next),
             from # "none", next # "ok" \/ from = "accept", ok => Keeps(row, r) \/ from = "accept",
             ok /\ from = "accept" => RowOk(r) /\ r.accepted = t /\ row.accepted \in {None, t}
      PROVE  Safe
  <2>1. Reached
    BY <1>3, Zenon DEF JobTxn, Reached
  <2>2. /\ RowOk(row')
        /\ row.accepted # None => row'.accepted = row.accepted
        /\ job' = [job EXCEPT ![t] = job'[t]] /\ (job'[t] = "ok" => row'.accepted = t)
    BY <1>3, Zenon DEF JobTxn, Keeps, IInv, Shape, Owned
  <2>3. Shape' /\ Owned'
    <3>1. \A u \in Tasks : u # t => job'[u] = job[u]
      BY <1>3, Zenon DEF JobTxn, IInv, Shape
    <3>2. \A u \in Tasks : job'[u] = "ok" \/ u \in ran' => row'.accepted = u
      BY <1>3, <2>2, <3>1, TaskAssumption, Zenon DEF JobTxn, IInv, Owned
    <3>3. UNCHANGED <<hs, rpc, live, task, ran>> BY <1>3, Zenon DEF JobTxn
    <3>4. Shape' BY <2>2, <3>3, Zenon DEF IInv, Shape
    <3>5. Owned' BY <2>2, <3>2, <3>3, Zenon DEF IInv, Owned
    <3>6. QED BY <3>4, <3>5, Zenon
  <2>4. QED BY <2>1, <2>3, TargetSide, Zenon
<1>4. CASE TaskStep(t)
  BY <1>1, <1>2, <1>4, Zenon DEF TaskStep, Reserve, Admit, NotAdmitted, Published
<1>5. CASE Finish(t, ends)
  BY <1>2, <1>5, Zenon DEF Finish
<1>6. CASE JobStep(t)
  <2>0. RowOk(row) /\ Keeps(row, row)
    BY Zenon DEF IInv, Owned, Keeps
  <2>1. CASE Bind(t)
    BY <2>0, <2>1, <1>3, TaskRowsKept DEF Bind
  <2>2. CASE Authorize(t)
    BY <2>0, <2>2, <1>3, Zenon DEF Authorize
  <2>3. CASE Accept(t)
    BY <2>0, <2>3, <1>3, RowAccepted, Zenon DEF Accept
  <2>4. CASE Stop(t)
    BY <2>0, <2>4, <1>3, RowsKept, Zenon DEF Stop
  <2>5. CASE Publish(t)
    <3>1. Keeps(row, record_call_result(row, out[t].value, out[t].effects))
      BY <2>0, TaskRowsKept, Zenon
    <3>2. JobTxn(t, "result", ResultAllowed(row, out[t].value, out[t].effects),
                 record_call_result(row, out[t].value, out[t].effects), "done")
      BY <2>5, Zenon DEF Publish
    <3> DEFINE v == out[t].value
               e == out[t].effects
               ok == ResultAllowed(row, v, e)
               q == record_call_result(row, v, e)
    <3>3. JobTxn(t, "result", ok, q, "done") /\ Keeps(row, q) BY <3>1, <3>2, Zenon
    <3> HIDE DEF v, e, ok, q
    <3>4. QED BY <3>3, <1>3, Zenon
  <2>6. QED BY <1>6, <2>1, <2>2, <2>3, <2>4, <2>5, Zenon DEF JobStep
<1>7. CASE JobFails(t)
  <2>1. Shape' /\ Owned'
    BY <1>7, Zenon DEF JobFails, IInv, Shape, Owned
  <2>2. Reached
    BY <1>7, Zenon DEF JobFails, Reached
  <2>3. QED BY <2>1, <2>2, TargetSide, Zenon
<1>8. CASE TaskTimeout(t)
  BY <1>1, <1>8, Zenon DEF TaskTimeout
<1>9. QED BY <1>4, <1>5, <1>6, <1>7, <1>8, Zenon

(* The host of the target: it closes, dies and starts again.                  *)
LEMMA HostSteps ==
  ASSUME IInv, Close \/ Shutdown \/ TargetCrash, UNCHANGED <<rec, origin>>,
         rpc' = [s \in Senders |-> rpc'[s]],
         \A s \in Senders : rpc'[s] = "invoke" => rpc[s] = "invoke"
  PROVE  Safe
<1> USE DEF directoryVars, taskVars
<1>1. CASE Close
  <2>1. Shape' /\ Owned'
    BY <1>1, Zenon DEF Close, IInv, Shape, Owned
  <2>2. Reached' => Reached
    BY <1>1, Zenon DEF Close, Reached
  <2>3. QED BY <2>1, <2>2, TargetSide, Zenon
<1>2. CASE Shutdown
  <2>1. Shape' /\ Owned'
    BY <1>2, Zenon DEF Shutdown, Exit, IInv, Shape, Owned
  <2>2. Reached
    BY <1>2, Zenon DEF Shutdown, IInv, Shape, Reached
  <2>3. QED BY <2>1, <2>2, TargetSide, Zenon
<1>3. CASE TargetCrash
  <2>1. Shape' /\ Owned'
    BY <1>3, Zenon DEF TargetCrash, Free, IInv, Shape, Owned
  <2>2. Reached' => Reached
    BY <1>3, Zenon DEF TargetCrash, Free, InvokePcs, Reached
  <2>3. QED BY <2>1, <2>2, TargetSide, Zenon
<1>4. QED BY <1>1, <1>2, <1>3, Zenon

(* Operators, clocks and maintenance.                                         *)
LEMMA OperatorSteps ==
  ASSUME IInv, Operate \/ CancelOperation \/ Maintain \/ Time \/ LatePrepare
  PROVE  Safe
<1> USE DEF sourceVars, hostVars, targetVars, bridgeVars, directoryVars, taskVars
<1>u. UNCHANGED rpc => Quiet
  BY Zenon DEF Quiet
<1>k. UNCHANGED <<rec, origin>> => Remembers
  BY Zenon DEF IInv, Remembers, Marked
<1>r. ASSUME Keeps(row, row'), UNCHANGED <<bridgeVars, rec, origin, rpc>> PROVE Safe
  <2>1. Shape' /\ Owned'
    BY <1>r, Zenon DEF Keeps, IInv, Shape, Owned
  <2>2. Reached' => Reached
    BY <1>r, Zenon DEF Keeps, Reached
  <2>3. QED BY <1>r, <2>1, <2>2, TargetSide, Zenon
<1>1. CASE Operate
  <2>0. Keeps(row, row)
    BY Zenon DEF IInv, Owned, Keeps
  <2>1. CASE Directory(set_call_authority)
    BY <1>r, <2>0, <2>1, Zenon DEF Directory, Target, set_call_authority
  <2>2. CASE Directory(set_peer)
    BY <1>r, <2>0, <2>2, Zenon DEF Directory, Target, set_peer
  <2>3. CASE Source(set_link)
    BY <1>k, <1>u, <2>3, SourceSide, Zenon DEF Source, set_link
  <2>4. CASE Directory(DeadlineStop)
    <3>1. Keeps(row, row')
      BY <2>4, RowsKept, Zenon DEF Directory, Target, DeadlineStop, IInv, Owned
    <3>2. QED BY <1>r, <2>4, <3>1, Zenon DEF Directory, Target, DeadlineStop
  <2>5. CASE Target(Close \/ Shutdown)
    <3>1. rpc' = [s \in Senders |-> rpc'[s]]
      BY <2>5, Zenon DEF Target, IInv, Shape
    <3>2. QED BY <2>5, <3>1, HostSteps, Zenon DEF Target
  <2>6. QED BY <1>1, <2>1, <2>2, <2>3, <2>4, <2>5, Zenon DEF Operate
<1>2. CASE CancelOperation
  <2>1. Remembers
    BY <1>2, Zenon DEF CancelOperation, Source, stage_outbound_cancellation, request_cancellation,
                IInv, RecOk, NoRecord, Remembers, Marked
  <2>2. QED BY <1>2, <1>u, <2>1, SourceSide, Zenon DEF CancelOperation, Source, stage_outbound_cancellation
<1>3. CASE Maintain
  <2>1. Remembers
    BY <1>3, Zenon DEF Maintain, Source, retire_completed_outbound, RecOk, NoRecord, Remembers, Marked
  <2>2. QED BY <1>3, <1>u, <2>1, SourceSide, Zenon DEF Maintain, Source
<1>4. CASE Time
  <2>1. CASE Directory(Tick)
    BY <1>r, <2>1, Zenon DEF Directory, Target, Tick, IInv, Owned, Keeps
  <2>2. CASE Source(SourceTick)
    BY <1>k, <1>u, <2>2, SourceSide, Zenon DEF Source, SourceTick
  <2>3. QED BY <1>4, <2>1, <2>2, Zenon DEF Time
<1>5. CASE LatePrepare
  <2>1. Keeps(row, row')
    BY <1>5, RowsKept, Zenon DEF LatePrepare, IInv, Owned
  <2>2. Shape' /\ Owned'
    BY <1>5, <2>1, Zenon DEF LatePrepare, Free, Keeps, IInv, Shape, Owned
  <2>3. \A g \in Slots : hs'[g].pc \in InvokePcs => hs[g].pc \in InvokePcs
    BY <1>5, Zenon DEF LatePrepare, Free, IInv, Shape, InvokePcs
  <2>4. Reached' => Reached
    BY <1>5, <2>1, <2>3, Zenon DEF LatePrepare, Keeps, Reached
  <2>5. QED BY <1>5, <2>2, <2>4, TargetSide, Zenon DEF LatePrepare
<1>6. QED BY <1>1, <1>2, <1>3, <1>4, <1>5, Zenon

(* Whatever the step.                                                         *)
LEMMA StepsSafe == ASSUME IInv, [Next]_vars PROVE Safe
<1>1. CASE UNCHANGED vars
  <2>1. IInv' /\ (Reached' => Reached)
    BY <1>1, Zenon DEF vars, targetVars, directoryVars, bridgeVars, taskVars, sourceVars, hostVars,
           IInv, Shape, Owned, Reached, Marked
  <2>2. QED BY <2>1, Zenon DEF Safe
<1>2. CASE Next
  <2> USE DEF sourceVars, hostVars
  <2>1. CASE \E h \in Slots : Target(HandlerStep(h))
    BY <1>2, <2>1, HandlerSteps, Zenon DEF Target
  <2>2. CASE \E t \in Tasks : Target(Finish(t, setup.ends))
    BY <1>2, <2>2, TaskSteps, Zenon DEF Target
  <2>3. CASE Background
    <3>1. CASE \E t \in Tasks : Target(TaskStep(t) \/ JobStep(t))
      BY <1>2, <3>1, TaskSteps, Zenon DEF Target
    <3>2. CASE \E pc \in Jobs : Target(OrphanStep(pc))
      BY <1>2, <3>2, HandlerSteps, Zenon DEF Target
    <3>3. QED BY <1>2, <2>3, <3>1, <3>2, ProcessSteps, OperatorSteps, Zenon DEF Background
  <2>4. CASE CrashTarget
    <3>1. /\ rpc' = [s \in Senders |-> rpc'[s]]
          /\ \A s \in Senders : rpc'[s] = "invoke" => rpc[s] = "invoke"
      BY <2>4, Zenon DEF CrashTarget
    <3>2. QED BY <1>2, <2>4, <3>1, HostSteps, Zenon DEF CrashTarget
  <2>5. CASE StoreFault
    <3>1. UNCHANGED <<rec, origin, rpc>>
      BY <2>5, Zenon DEF StoreFault
    <3>2. CASE \E t \in Tasks : JobFails(t) \/ TaskTimeout(t)
      BY <1>2, <3>1, <3>2, TaskSteps, Zenon
    <3>3. CASE \E h \in Slots : HandlerTimeout(h)
      BY <1>2, <3>1, <3>3, HandlerSteps, Zenon
    <3>4. QED BY <2>5, <3>2, <3>3, Zenon DEF StoreFault
  <2>6. CASE \E s \in Senders : ProcStep(s) \/ Wire(s) \/ GiveUp(s)
    BY <1>2, <2>6, ProcessSteps, WireSteps, Zenon DEF ProcStep
  <2>7. CASE Begin \/ Attempt \/ Scan \/ CrashSource
    BY <1>2, <2>7, ProcessSteps, Zenon
  <2>8. QED BY <1>2, <2>1, <2>2, <2>3, <2>4, <2>5, <2>6, <2>7, OperatorSteps, Zenon DEF Next
<1>3. QED BY <1>1, <1>2, Zenon

(* The invariant holds at first, and every step keeps it.                     *)
LEMMA Inductive == (Init => IInv) /\ (IInv /\ [Next]_vars => IInv')
<1>1. ASSUME Init PROVE IInv
  <2>1. Shape
    BY <1>1, Zenon DEF Init, BridgeInit, Free, Shape
  <2>2. Owned
    BY <1>1, Zenon DEF Init, DirectoryInit, BridgeInit, NoCall, Owned, RowOk, IsRow
  <2>3. RecOk(rec)
    BY <1>1, Zenon DEF Init, SourceInit, NoRecord, RecOk
  <2>4. ~Reached
    BY <1>1, Zenon DEF Init, DirectoryInit, BridgeInit, NoCall, Free, InvokePcs, Reached, Begun
  <2>5. QED BY <2>1, <2>2, <2>3, <2>4, Zenon DEF IInv
<1>2. QED BY <1>1, StepsSafe, Zenon DEF Safe

(* invoke_call, bind_kernel_identity and record_kernel_acceptance let one     *)
(* task run the program, for any number of attempts, requests and restarts.   *)
THEOREM ProgramRunsOnce == Spec => []RunsOnce
<1>1. IInv => RunsOnce
  BY TaskAssumption, Zenon DEF IInv, Owned, RowOk, RunsOnce
<1>2. QED BY <1>1, Inductive, PTL DEF Spec

(* A program runs only for a call whose source has marked the Invoke, however *)
(* requests are delayed, jobs outlive their waiters and hosts restart.        *)
THEOREM InvokesAreMarked == Spec => []InvokeMarked
<1>1. IInv => InvokeMarked
  BY Zenon DEF IInv, Reached, Marked, InvokeMarked
<1>2. QED BY <1>1, Inductive, PTL DEF Spec

----------------------------------------------------------------------------
(* The stores.  A step transacts on the directory's row, or is one of a       *)
(* task's job, or leaves the row alone.                                       *)
Transacts(r, q) ==
  q \in {r, prepare_call(r), invoke_call(r), cancel_call(r), close_unaccepted_call(r),
         record_kernel_cancel_accepted(r), request_call_deadline_stop(r)}

(* Every step but a task job's is one of the directory's transactions.        *)
LEMMA RowMoves ==
  ASSUME [Next]_vars
  PROVE  Transacts(row, row') \/ \E t \in Tasks : Target(JobStep(t))
<1> USE DEF vars, targetVars, directoryVars, bridgeVars, taskVars, sourceVars, hostVars
<1>j. \A pc : Transacts(row, JobRow(pc))
  BY Zenon DEF JobRow, Transacts
<1>u. UNCHANGED row => Transacts(row, row')
  BY Zenon DEF Transacts
<1>1. CASE UNCHANGED vars BY <1>1, <1>u, Zenon
<1>2. CASE Begin \/ Attempt \/ Scan \/ CrashSource \/ CrashTarget
  BY <1>2, <1>u, Zenon DEF Begin, Attempt, Validate, Existing, Connect, Scan, Read, Local,
                    CrashSource, CrashTarget, TargetCrash
<1>3. ASSUME NEW s \in Senders, ProcStep(s) \/ GiveUp(s) PROVE UNCHANGED row
  BY <1>3, Zenon DEF ProcStep, Inspect, Job, Take, Failed, Inspected, Read, Local, GiveUp
<1>4. ASSUME NEW s \in Senders, Wire(s) PROVE Transacts(row, row')
  BY <1>4, Zenon DEF Wire, Serve, Arrive, Vanish, Linger, Transacts
<1>5. ASSUME NEW h \in Slots, HandlerStep(h) PROVE Transacts(row, row')
  <2>1. CASE Answered(h) BY <2>1, <1>j, Zenon DEF Answered
  <2>2. CASE Lock(h) \/ View(h) BY <2>2, <1>u, Zenon DEF Lock, View, Goes
  <2>3. CASE Cancel(h) BY <2>3, Zenon DEF Cancel, Goes, Transacts
  <2>4. CASE Select(h) \/ Signal(h) BY <2>4, <1>u, Zenon DEF Select, Signal
  <2>5. CASE \E t \in Tasks : Spawn(h, t) BY <2>5, <1>u, Zenon DEF Spawn
  <2>6. ASSUME NEW from, NEW to, Holds(h, from, to) PROVE Transacts(row, row')
    BY <2>6, <1>j, Zenon DEF Holds, Goes
  <2>7. QED BY <1>5, <2>1, <2>2, <2>3, <2>4, <2>5, <2>6, Zenon DEF HandlerStep
<1>6. ASSUME NEW t \in Tasks, Finish(t, setup.ends) \/ TaskStep(t) \/ JobFails(t) \/ TaskTimeout(t)
      PROVE  UNCHANGED row
  BY <1>6, Zenon DEF Finish, Advance, TaskStep, Reserve, Admit, NotAdmitted, Published, Exit, JobFails, TaskTimeout
<1>7. CASE Background
  <2>1. CASE \E t \in Tasks : Target(TaskStep(t) \/ JobStep(t))
    BY <2>1, <1>6, <1>u, Zenon DEF Target
  <2>2. CASE \E pc \in Jobs : Target(OrphanStep(pc))
    BY <2>2, <1>j, Zenon DEF Target, OrphanStep
  <2>3. CASE \E j \in left : LeftJob(j) BY <2>3, <1>u, Zenon DEF LeftJob
  <2>4. CASE LatePrepare BY <2>4, Zenon DEF LatePrepare, Transacts
  <2>5. QED BY <1>7, <2>1, <2>2, <2>3, <2>4, Zenon DEF Background
<1>8. CASE StoreFault
  BY <1>8, <1>6, <1>u, Zenon DEF StoreFault, HandlerTimeout
<1>9. CASE Operate \/ CancelOperation \/ Maintain \/ Time
  <2>1. CASE Operate
    BY <2>1, <1>u, Zenon DEF Operate, Directory, Source, Target, set_call_authority, set_peer, DeadlineStop,
                      Close, Shutdown, Exit, Transacts
  <2>2. QED BY <1>9, <2>1, <1>u, Zenon DEF CancelOperation, Maintain, Time, Directory, Source, Target, Tick
<1>10. QED BY <1>u, <1>1, <1>2, <1>3, <1>4, <1>5, <1>6, <1>7, <1>8, <1>9, Zenon DEF Next, Target

(* The pending index and the input of a stored call.                          *)
RowAgrees(r) ==
  /\ IsRow(r)
  /\ r.pending \in BOOLEAN /\ r.input \in BOOLEAN /\ r.stopped \in BOOLEAN
  /\ r.pending <=> r.status \in {"Preparing", "Accepted"} \/ (r.status = "Finished" /\ ~r.stopped)
  /\ r.input <=> r.status \in {"Preparing", "Accepted"}

(* Every transaction leaves the index and the input as its status says.       *)
LEMMA RowsAgree ==
  ASSUME NEW r, RowAgrees(r)
  PROVE  /\ \A q : Transacts(r, q) => RowAgrees(q)
         /\ \A t : RowAgrees(bind_kernel_identity(r, t)) /\ RowAgrees(record_kernel_acceptance(r, t))
         /\ RowAgrees(record_execution_stopped(r))
         /\ \A v, e : RowAgrees(record_call_result(r, v, e))
<1> USE DEF RowAgrees, IsRow, NoCall, Revised
<1>1. RowAgrees(prepare_call(r)) BY ZenonT(30) DEF prepare_call
<1>2. RowAgrees(invoke_call(r)) BY ZenonT(30) DEF invoke_call, ClosedRow
<1>3. RowAgrees(CancelledRow(r)) BY ZenonT(30) DEF CancelledRow, ClosedRow
<1>4. RowAgrees(cancel_call(r)) BY <1>3, ZenonT(30) DEF cancel_call
<1>5. RowAgrees(close_unaccepted_call(r)) BY ZenonT(30) DEF close_unaccepted_call, ClosedRow
<1>6. RowAgrees(record_kernel_cancel_accepted(r)) BY ZenonT(30) DEF record_kernel_cancel_accepted
<1>7. RowAgrees(request_call_deadline_stop(r)) BY ZenonT(30) DEF request_call_deadline_stop
<1>8. ASSUME NEW t PROVE RowAgrees(bind_kernel_identity(r, t)) BY ZenonT(30) DEF bind_kernel_identity
<1>9. ASSUME NEW t PROVE RowAgrees(record_kernel_acceptance(r, t))
  BY ZenonT(30) DEF record_kernel_acceptance, Accepting
<1>10. RowAgrees(record_execution_stopped(r)) BY ZenonT(30) DEF record_execution_stopped, StopAllowed
<1>11. ASSUME NEW v, NEW e PROVE RowAgrees(record_call_result(r, v, e)) BY ZenonT(30) DEF record_call_result
<1> HIDE DEF RowAgrees
<1>12. QED BY <1>1, <1>2, <1>4, <1>5, <1>6, <1>7, <1>8, <1>9, <1>10, <1>11, Zenon DEF Transacts

(* The record of the source changes in a job of its processes, when a         *)
(* cancellation is staged, and when the call is retired.                      *)
RecMoves ==
  \/ UNCHANGED <<rec, origin>>
  \/ \E s \in Senders : proc[s].pc \in SourceJobs /\ \E at : SourceTxn(proc[s].pc, proc[s].got, at)
  \/ \E j \in left : \E at : SourceTxn(j.pc, j.got, at)
  \/ stage_outbound_cancellation
  \/ retire_completed_outbound

(* No other step touches it.                                                  *)
LEMMA RecordMoves == ASSUME [Next]_vars PROVE RecMoves
<1> USE DEF vars, targetVars, directoryVars, bridgeVars, taskVars, sourceVars, hostVars
<1>u. UNCHANGED <<rec, origin>> => RecMoves
  BY Zenon DEF RecMoves
<1>1. CASE UNCHANGED vars BY <1>1, <1>u, Zenon
<1>2. CASE Begin \/ Attempt \/ Scan \/ CrashSource \/ CrashTarget \/ StoreFault
  BY <1>2, <1>u, Zenon DEF Begin, Attempt, Validate, Existing, Connect, Scan, Read, Local,
                    CrashSource, CrashTarget, StoreFault
<1>3. ASSUME NEW s \in Senders, Inspect(s) \/ Take(s) \/ Failed(s) \/ Inspected(s) \/ GiveUp(s) \/ Wire(s)
      PROVE  UNCHANGED <<rec, origin>>
  BY <1>3, Zenon DEF Inspect, Take, Failed, Inspected, Read, Local, GiveUp, Wire, Serve, Arrive, Vanish, Linger
<1>4. ASSUME NEW s \in Senders, Job(s) PROVE RecMoves
  BY <1>4, Zenon DEF Job, RecMoves
<1>5. CASE Background
  BY <1>5, <1>u, Zenon DEF Background, Target, LeftJob, LatePrepare, RecMoves
<1>6. CASE Operate \/ CancelOperation \/ Maintain \/ Time
  BY <1>6, Zenon DEF Operate, CancelOperation, Maintain, Time, Directory, Source, Target, set_link,
              SourceTick, RecMoves
<1>7. QED BY <1>u, <1>1, <1>2, <1>3, <1>4, <1>5, <1>6, Zenon DEF Next, Target, ProcStep

(* What is stored of a call on the source.                                    *)
RecAgrees(r) ==
  /\ r = [f \in DOMAIN NoRecord |-> r[f]]
  /\ r.staged \in BOOLEAN /\ r.invoke \in BOOLEAN /\ r.cancel \in BOOLEAN
  /\ r.unsettled \in BOOLEAN /\ r.cancelling \in BOOLEAN
  /\ r.staged => restore_record(r)
  /\ ~r.staged => r = NoRecord
  /\ r.unsettled <=> r.staged /\ r.terminal = None
  /\ r.cancelling <=> r.cancel /\ r.ack = None /\ r.terminal = None

(* restore_record, told by the fields of a row.                               *)
LEMMA Restored ==
  ASSUME NEW r
  PROVE  restore_record(r) <=>
           /\ r.invoke => r.prepared # None
           /\ r.ack # None => /\ r.cancel /\ r.prepared # None /\ r.prepared.status # "Closed"
                              /\ r.ack.rev > r.prepared.rev
           /\ r.terminal # None =>
                /\ r.prepared # None
                /\ r.terminal.status \in {"Finished", "Closed"} /\ r.terminal.rev >= r.prepared.rev
                /\ r.terminal.status = "Finished" => r.invoke /\ r.terminal.result # None
BY Zenon DEF restore_record, NoRecord, AckAllowed, SettleAllowed, cancel_request

(* A job of the source leaves a row that can be read back, and both indices   *)
(* right.                                                                     *)
LEMMA JobAgrees ==
  ASSUME RecAgrees(rec), NEW pc, NEW got, NEW at, SourceTxn(pc, got, at),
         pc \in {"settle", "ack"} => got # None
  PROVE  RecAgrees(rec')
<1>1. CASE pc \in {"origin", "release"} \/ ~JobOk(pc, got, at)
  BY <1>1, Zenon DEF SourceTxn, SourceRec, bind_outbound_origin, release_outbound_responsibility
<1>2. CASE JobOk(pc, got, at) /\ pc = "stage"
  <2>1. rec' = stage_outbound
    BY <1>2, Zenon DEF SourceTxn, SourceRec
  <2>2. CASE ~rec.staged
    <3>1. /\ rec' = [f \in DOMAIN NoRecord |-> rec'[f]]
          /\ rec'.staged /\ ~rec'.invoke /\ ~rec'.cancel /\ rec'.unsettled /\ ~rec'.cancelling
          /\ rec'.prepared = None /\ rec'.ack = None /\ rec'.terminal = None
          /\ rec'.staged \in BOOLEAN /\ rec'.invoke \in BOOLEAN /\ rec'.cancel \in BOOLEAN
          /\ rec'.unsettled \in BOOLEAN /\ rec'.cancelling \in BOOLEAN
      BY <2>1, <2>2, Zenon DEF stage_outbound, NoRecord
    <3>2. restore_record(rec')
      BY <3>1, Restored, Zenon
    <3>3. QED BY <3>1, <3>2, Zenon DEF RecAgrees
  <2>3. QED BY <2>1, <2>2, Zenon DEF stage_outbound
<1>3. CASE JobOk(pc, got, at) /\ pc = "bind"
  <2>1. rec' = bind(rec, got) /\ rec.staged /\ rec.prepared \in {None, got}
    BY <1>3, Zenon DEF SourceTxn, SourceRec, JobOk, BindPreparedAllowed
  <2>2. /\ rec' = [f \in DOMAIN NoRecord |-> rec'[f]] /\ rec'.prepared = got
        /\ \A f \in DOMAIN NoRecord : f # "prepared" => rec'[f] = rec[f]
    BY <2>1, Zenon DEF bind, RecAgrees, NoRecord
  <2>3. UNCHANGED <<rec.staged, rec.invoke, rec.cancel, rec.ack, rec.terminal, rec.unsettled, rec.cancelling>>
    BY <2>2, Zenon DEF NoRecord
  <2>4. restore_record(rec')
    BY <2>1, <2>2, <2>3, Restored, Zenon DEF RecAgrees
  <2>5. QED BY <2>1, <2>2, <2>3, <2>4, Zenon DEF RecAgrees
<1>4. CASE JobOk(pc, got, at) /\ pc = "mark"
  <2>1. rec' = mark_invoke_possible(rec) /\ rec.staged /\ rec.prepared # None
    BY <1>4, Zenon DEF SourceTxn, SourceRec, JobOk, MarkOutboundAllowed, MarkAllowed
  <2>2. /\ rec' = [f \in DOMAIN NoRecord |-> rec'[f]] /\ rec'.invoke = TRUE
        /\ \A f \in DOMAIN NoRecord : f # "invoke" => rec'[f] = rec[f]
    BY <2>1, Zenon DEF mark_invoke_possible, RecAgrees, NoRecord
  <2>3. UNCHANGED <<rec.staged, rec.prepared, rec.cancel, rec.ack, rec.terminal, rec.unsettled, rec.cancelling>>
    BY <2>2, Zenon DEF NoRecord
  <2>4. restore_record(rec')
    BY <2>1, <2>2, <2>3, Restored, Zenon DEF RecAgrees
  <2>5. QED BY <2>1, <2>2, <2>3, <2>4, Zenon DEF RecAgrees
<1>5. CASE JobOk(pc, got, at) /\ pc = "settle"
  <2>1. rec' = settle_outbound(got) /\ rec.staged /\ SettleAllowed(rec, got)
    BY <1>5, Zenon DEF SourceTxn, SourceRec, JobOk
  <2>2. /\ rec' = [f \in DOMAIN NoRecord |-> rec'[f]]
        /\ rec'.terminal = got /\ rec'.unsettled = FALSE /\ rec'.cancelling = FALSE
        /\ UNCHANGED <<rec.staged, rec.prepared, rec.invoke, rec.cancel, rec.ack>>
    BY <2>1, Zenon DEF settle_outbound, settle, RecAgrees, NoRecord
  <2>3. restore_record(rec')
    BY <2>1, <2>2, Restored, Zenon DEF RecAgrees, SettleAllowed
  <2>4. QED BY <1>5, <2>1, <2>2, <2>3, Zenon DEF RecAgrees
<1>6. CASE JobOk(pc, got, at) /\ pc = "ack"
  <2>1. rec' = record_outbound_cancellation(got) /\ rec.staged /\ AckAllowed(rec, got)
    BY <1>6, Zenon DEF SourceTxn, SourceRec, JobOk
  <2>2. /\ rec' = [f \in DOMAIN NoRecord |-> rec'[f]]
        /\ rec'.ack = got /\ rec'.cancelling = FALSE
        /\ UNCHANGED <<rec.staged, rec.prepared, rec.invoke, rec.cancel, rec.terminal, rec.unsettled>>
    BY <2>1, Zenon DEF record_outbound_cancellation, record_cancellation, RecAgrees, NoRecord
  <2>3. restore_record(rec')
    BY <2>1, <2>2, Restored, Zenon DEF RecAgrees, AckAllowed, cancel_request
  <2>4. QED BY <1>6, <2>1, <2>2, <2>3, Zenon DEF RecAgrees
<1>7. CASE JobOk(pc, got, at) /\ pc \notin {"origin", "release", "stage", "bind", "mark", "settle", "ack"}
  BY <1>7, Zenon DEF SourceTxn, SourceRec
<1>8. QED BY <1>1, <1>2, <1>3, <1>4, <1>5, <1>6, <1>7, Zenon

(* So do the two transactions that are not jobs.                              *)
LEMMA OperatorAgrees ==
  ASSUME RecAgrees(rec), stage_outbound_cancellation \/ retire_completed_outbound
  PROVE  RecAgrees(rec')
<1>1. CASE rec' = rec BY <1>1, Zenon
<1>2. CASE rec' = NoRecord
  BY <1>2, Zenon DEF RecAgrees, NoRecord
<1>3. CASE /\ rec' = [request_cancellation(rec) EXCEPT !.cancelling = rec.ack = None]
           /\ rec.staged /\ rec.terminal = None
  <2>1. /\ rec' = [f \in DOMAIN NoRecord |-> rec'[f]]
        /\ rec'.cancel = TRUE /\ rec'.cancelling = (rec.ack = None)
        /\ UNCHANGED <<rec.staged, rec.prepared, rec.invoke, rec.terminal, rec.ack, rec.unsettled>>
    BY <1>3, Zenon DEF request_cancellation, RecAgrees, NoRecord
  <2>2. restore_record(rec')
    BY <1>3, <2>1, Restored, Zenon DEF RecAgrees
  <2>3. QED BY <1>3, <2>1, <2>2, Zenon DEF RecAgrees
<1>4. QED BY <1>1, <1>2, <1>3, Zenon DEF stage_outbound_cancellation, retire_completed_outbound

----------------------------------------------------------------------------
(* Sessions.  A process has one request at a time, and nobody else answers    *)
(* it; what it carries from an answer to a job is an answer.                  *)
Carry == {"bind", "ack", "inspected", "settle"}
IsProc(p) == p = [f \in DOMAIN Idle |-> p[f]]
Bearing(p) == p.pc \in Carry => p.got # None

SessionOk(s) ==
  /\ proc[s].pc \notin Waits \cup {"idle"} => rpc[s] = "none"
  /\ rpc[s] # "served" => reply[s] = None /\ hs[s] = Free
  /\ reply[s] # None => hs[s] = Free
  /\ proc[s].pc = "inspecting" => rpc[s] \in {"inspect", "dead"} \/ (rpc[s] = "served" /\ hs[s] = Free)

Discipline ==
  /\ proc = [s \in Senders |-> proc[s]] /\ reply = [h \in Slots |-> reply[h]]
  /\ \A s \in Senders : IsProc(proc[s]) /\ Bearing(proc[s]) /\ SessionOk(s)
  /\ \A j \in left : Bearing(j)

(* Where a process of the source can go by itself: to rest, on with its work, *)
(* or to wait for a request it has just sent.                                 *)
Onward(s) ==
  \E p : /\ proc' = [proc EXCEPT ![s] = p] /\ IsProc(p)
         /\ \/ rpc' = rpc /\ p.pc = "idle"
            \/ /\ rpc' = rpc /\ rpc[s] = "none" /\ p.pc \notin Waits
               /\ p.pc \in Carry => p.pc = "settle" /\ proc[s].pc = "inspected" /\ p.got = proc[s].got
            \/ /\ rpc[s] = "none" /\ p.pc \in Waits
               /\ \E k \in {"prepare", "inspect", "invoke", "cancel"} :
                    rpc' = [rpc EXCEPT ![s] = k] /\ (p.pc = "inspecting" => k = "inspect")

(* The ways a process ends, goes on and sends.                                *)
LEMMA Onwards ==
  ASSUME NEW s \in Senders, IsProc(proc[s]), rpc[s] = "none"
  PROVE  /\ \A a : Ends(s, a) => Onward(s)
         /\ \A p : IsProc(p) /\ p.pc \notin Waits \cup Carry /\ To(s, p) => Onward(s)
         /\ \A pc : pc \notin Waits \cup Carry /\ Step(s, pc) => Onward(s)
         /\ \A i : Judge(s, i) => Onward(s)
         /\ \A k, p : IsProc(p) /\ p.pc \in Waits /\ k \in {"prepare", "inspect", "invoke", "cancel"}
                      /\ (p.pc = "inspecting" => k = "inspect") /\ Send(s, k, p) => Onward(s)
<1>1. \A a : Ends(s, a) => Onward(s)
  <2>1. IsProc(Idle) /\ Idle.pc = "idle"
    BY Zenon DEF IsProc, Idle
  <2>2. QED BY <2>1, Zenon DEF Ends, Onward
<1>2. ASSUME NEW p, IsProc(p), p.pc \notin Waits \cup Carry, To(s, p) PROVE Onward(s)
  BY <1>2, Zenon DEF To, Onward
<1>3. ASSUME NEW pc, pc \notin Waits \cup Carry, Step(s, pc) PROVE Onward(s)
  <2> DEFINE p == [proc[s] EXCEPT !.pc = pc]
  <2>1. IsProc(p) /\ p.pc = pc
    BY Zenon DEF IsProc, Idle
  <2>2. To(s, p) BY <1>3, Zenon DEF Step
  <2> HIDE DEF p
  <2>3. QED BY <1>2, <1>3, <2>1, <2>2, Zenon
<1>4. ASSUME NEW i, Judge(s, i) PROVE Onward(s)
  <2> DEFINE p == [proc[s] EXCEPT !.pc = "release", !.got = i.result]
  <2>1. IsProc(p) /\ p.pc \notin Waits \cup Carry
    BY Zenon DEF IsProc, Idle, Waits, Carry
  <2>2. To(s, p) => Onward(s)
    <3> HIDE DEF p
    <3>1. QED BY <1>2, <2>1, Zenon
  <2>3. {"inspect", "mark"} \cap (Waits \cup Carry) = {}
    BY Zenon DEF Waits, Carry
  <2>4. QED BY <1>1, <1>3, <1>4, <2>2, <2>3, Zenon DEF Judge
<1>5. ASSUME NEW k \in {"prepare", "inspect", "invoke", "cancel"}, NEW p, IsProc(p), p.pc \in Waits,
             p.pc = "inspecting" => k = "inspect", Send(s, k, p)
      PROVE  Onward(s)
  BY <1>5, Zenon DEF Send, Onward
<1>6. QED BY <1>1, <1>2, <1>3, <1>4, <1>5, Zenon

(* Every step of a process on the source, except taking an answer, is such a  *)
(* move; it may leave its job behind.                                         *)
Moved(s) ==
  /\ UNCHANGED <<row, hs, reply, taskVars>>
  /\ left' = left \/ (left' = left \cup {proc[s]} /\ proc[s].pc \in SourceJobs)
  /\ Onward(s)

(* A pass of the worker.                                                      *)
LEMMA PursueMoves ==
  ASSUME IsProc(proc["worker"]), rpc["worker"] = "none", NEW r, Pursue(r)
  PROVE  Onward("worker")
<1>1. "worker" \in Senders BY Zenon DEF Senders
<1>2. /\ IsProc([Idle EXCEPT !.pc = "cancelling"]) /\ [Idle EXCEPT !.pc = "cancelling"].pc = "cancelling"
      /\ IsProc([Idle EXCEPT !.pc = "inspect"]) /\ [Idle EXCEPT !.pc = "inspect"].pc = "inspect"
  BY Zenon DEF IsProc, Idle
<1>3. "cancelling" \in Waits /\ "inspect" \notin Waits \cup Carry
  BY Zenon DEF Waits, Carry
<1>4. QED BY <1>1, <1>2, <1>3, Onwards, Zenon DEF Pursue

(* The kernel's attempt, from its beginning to its session.                   *)
LEMMA AttemptMoves ==
  ASSUME Discipline, Begin \/ Attempt PROVE Onward("endpoint")
<1>e. "endpoint" \in Senders BY Zenon DEF Senders
<1>p. IsProc(proc["endpoint"]) /\ SessionOk("endpoint")
  BY <1>e, Zenon DEF Discipline
<1>q. ASSUME NEW p, NEW pc, IsProc(p), pc \notin Waits \cup Carry, rpc["endpoint"] = "none",
             To("endpoint", [p EXCEPT !.pc = pc])
      PROVE  Onward("endpoint")
  <2>1. IsProc([p EXCEPT !.pc = pc]) /\ [p EXCEPT !.pc = pc].pc = pc
    BY <1>q, Zenon DEF IsProc, Idle
  <2>2. QED BY <1>e, <1>p, <1>q, <2>1, Onwards, Zenon
<1>w. {"origin", "inspect", "mark", "stage", "validate"} \cap (Waits \cup Carry) = {}
  BY Zenon DEF Waits, Carry
<1>1. ASSUME NEW p, NEW invoke, IsProc(p), rpc["endpoint"] = "none", Connected(p, invoke)
      PROVE  Onward("endpoint")
  BY <1>e, <1>p, <1>q, <1>w, <1>1, Onwards, Zenon DEF Connected
<1>2. CASE Begin
  <2>1. PICK p : /\ p = IF Evidence = "Retired" THEN Idle
                        ELSE [Idle EXCEPT !.pc = "validate", !.replay = Evidence = "Recorded"]
                 /\ proc' = [proc EXCEPT !["endpoint"] = p]
                 /\ rpc' = rpc /\ rpc["endpoint"] = "none"
    BY <1>2, Zenon DEF Begin
  <2>2. IsProc(p) /\ p.pc \in {"idle", "validate"}
    BY <2>1, Zenon DEF IsProc, Idle
  <2>3. QED BY <2>1, <2>2, <1>w, Zenon DEF Onward
<1>3. CASE Attempt
  <2>1. rpc["endpoint"] = "none"
    BY <1>3, <1>p, Zenon DEF Attempt, Validate, Existing, Connect, At, SessionOk, Waits
  <2>2. CASE Validate
    BY <1>e, <1>p, <1>w, <2>1, <2>2, Onwards, Zenon DEF Validate
  <2>3. CASE Connect
    BY <1>p, <1>1, <2>1, <2>3, Zenon DEF Connect
  <2>4. CASE Existing
    <3> DEFINE p == [proc["endpoint"] EXCEPT !.now = clock]
    <3>1. IsProc(p) BY <1>p, Zenon DEF IsProc, Idle
    <3>2. \/ \E i : Judge("endpoint", i)
          \/ Connected(p, rec.invoke)
          \/ \E a : Ends("endpoint", a)
          \/ To("endpoint", [p EXCEPT !.pc = "stage"])
      BY <2>4, Zenon DEF Existing
    <3> HIDE DEF p
    <3>3. QED BY <1>e, <1>p, <1>q, <1>w, <1>1, <2>1, <3>1, <3>2, Onwards, Zenon
  <2>5. QED BY <1>3, <2>2, <2>3, <2>4, Zenon DEF Attempt
<1>4. QED BY <1>2, <1>3, Zenon

(* Taking the result of a job.                                                *)
LEMMA JobMoves ==
  ASSUME NEW s \in Senders, IsProc(proc[s]), rpc[s] = "none", proc[s].pc \in SourceJobs,
         NEW ok, AfterJob(s, ok)
  PROVE  Onward(s)
<1>1. ASSUME NEW pc \in Waits \ {"inspecting"}, NEW k \in {"prepare", "invoke"},
             Send(s, k, [proc[s] EXCEPT !.pc = pc])
      PROVE  Onward(s)
  <2>1. IsProc([proc[s] EXCEPT !.pc = pc]) /\ [proc[s] EXCEPT !.pc = pc].pc = pc
    BY Zenon DEF IsProc, Idle
  <2>2. QED BY <1>1, <2>1, Onwards, Zenon
<1>2. {"existing", "connect"} \cap (Waits \cup Carry) = {} /\ {"preparing", "invoking"} \subseteq Waits
  BY Zenon DEF Waits, Carry
<1>3. CASE proc[s].pc \in {"release", "ack"} \/ ~ok
  BY <1>3, Onwards, Zenon DEF AfterJob
<1>4. CASE proc[s].pc \in {"origin", "stage"} /\ ok
  <2> DEFINE p == [proc[s] EXCEPT !.pc = "preparing"]
  <2>1. CASE proc[s].pc = "origin"
    BY <1>2, <1>4, <2>1, Onwards, Zenon DEF AfterJob
  <2>2. CASE proc[s].pc = "stage"
    <3>1. Step(s, "connect") \/ Send(s, "prepare", p)
      BY <1>4, <2>2, Zenon DEF AfterJob
    <3>2. Send(s, "prepare", p) => Onward(s)
      BY <1>1, <1>2, Zenon
    <3> HIDE DEF p
    <3>3. QED BY <1>2, <3>1, <3>2, Onwards, Zenon
  <2>3. QED BY <1>4, <2>1, <2>2, Zenon
<1>5. CASE proc[s].pc = "bind" /\ ok
  <2>1. CASE s = "worker"
    BY <1>5, <2>1, PursueMoves, Zenon DEF AfterJob
  <2>2. CASE s # "worker"
    BY <1>2, <1>5, <2>2, Onwards, Zenon DEF AfterJob
  <2>3. QED BY <2>1, <2>2, Zenon
<1>6. CASE proc[s].pc = "mark" /\ ok
  BY <1>1, <1>2, <1>6, Zenon DEF AfterJob
<1>7. CASE proc[s].pc = "settle" /\ ok
  BY <1>7, Onwards, Zenon DEF AfterJob
<1>8. QED BY <1>3, <1>4, <1>5, <1>6, <1>7, Zenon DEF SourceJobs

(* The steps both processes take.                                             *)
LEMMA ProcMoves ==
  ASSUME Discipline, NEW s \in Senders,
         Inspect(s) \/ Job(s) \/ Failed(s) \/ Inspected(s) \/ GiveUp(s)
  PROVE  Onward(s)
<1>p. IsProc(proc[s]) /\ SessionOk(s)
  BY Zenon DEF Discipline
<1>n. proc[s].pc \notin Waits \cup {"idle"} => rpc[s] = "none"
  BY <1>p, Zenon DEF SessionOk
<1>1. CASE GiveUp(s)
  <2>1. PICK a : Ends(s, a) BY <1>1, Zenon DEF GiveUp
  <2>2. IsProc(Idle) /\ Idle.pc = "idle" BY Zenon DEF IsProc, Idle
  <2>3. QED BY <2>1, <2>2, Zenon DEF Ends, Onward
<1>2. CASE Job(s)
  <2>1. rpc[s] = "none" /\ proc[s].pc \in SourceJobs
    BY <1>2, <1>n, Zenon DEF Job, SourceJobs, Waits
  <2>2. PICK ok : AfterJob(s, ok)
    BY <1>2, Zenon DEF Job
  <2>3. QED BY <1>p, <2>1, <2>2, JobMoves, Zenon
<1>3. CASE Failed(s)
  <2>1. rpc[s] = "none" BY <1>3, <1>n, Zenon DEF Failed, At, Waits
  <2>2. QED BY <1>3, <1>p, <2>1, Onwards, Zenon DEF Failed
<1>4. CASE Inspect(s)
  <2>1. rpc[s] = "none" BY <1>4, <1>n, Zenon DEF Inspect, At, Waits
  <2> DEFINE p == [proc[s] EXCEPT !.pc = "inspecting"]
  <2>2. IsProc(p) /\ p.pc = "inspecting" /\ p.pc \in Waits
    BY <1>p, Zenon DEF IsProc, Idle, Waits
  <2>3. (\E i : Judge(s, i)) \/ (\E a : Ends(s, a)) \/ Send(s, "inspect", p)
    BY <1>4, Zenon DEF Inspect
  <2> HIDE DEF p
  <2>4. QED BY <1>p, <2>1, <2>2, <2>3, Onwards, Zenon
<1>5. CASE Inspected(s)
  <2>1. rpc[s] = "none" /\ proc[s].pc = "inspected" BY <1>5, <1>n, Zenon DEF Inspected, At, Waits
  <2>2. CASE Step(s, "settle")
    <3> DEFINE p == [proc[s] EXCEPT !.pc = "settle"]
    <3>1. IsProc(p) /\ p.pc = "settle" /\ p.got = proc[s].got /\ p.pc \notin Waits
      BY <1>p, Zenon DEF IsProc, Idle, Waits
    <3>2. proc' = [proc EXCEPT ![s] = p] /\ rpc' = rpc
      BY <2>2, Zenon DEF Step, To
    <3> HIDE DEF p
    <3>3. QED BY <2>1, <3>1, <3>2, Zenon DEF Onward
  <2>3. QED BY <1>5, <1>p, <2>1, <2>2, Onwards, Zenon DEF Inspected
<1>6. QED BY <1>1, <1>2, <1>3, <1>4, <1>5, Zenon

(* All of them.                                                               *)
SourceStep ==
  \/ Begin \/ Attempt \/ Scan
  \/ \E s \in Senders : Inspect(s) \/ Job(s) \/ Failed(s) \/ Inspected(s) \/ GiveUp(s)

(* Every one of them is a move of one process.                                *)
LEMMA SourceMoves == ASSUME Discipline, SourceStep PROVE \E s \in Senders : Moved(s)
<1> USE DEF targetVars, directoryVars, bridgeVars, taskVars
<1>e. "endpoint" \in Senders /\ "worker" \in Senders BY Zenon DEF Senders
<1>1. CASE Begin \/ Attempt
  <2>1. UNCHANGED <<row, hs, reply, taskVars, left>>
    BY <1>1, Zenon DEF Begin, Attempt, Validate, Existing, Connect, Read, Local
  <2>2. QED BY <1>e, <1>1, <2>1, AttemptMoves, Zenon DEF Moved
<1>2. CASE Scan
  <2>1. UNCHANGED <<row, hs, reply, taskVars, left>>
    BY <1>2, Zenon DEF Scan, Read, Local
  <2>2. IsProc(proc["worker"]) /\ rpc["worker"] = "none"
    BY <1>e, <1>2, Zenon DEF Scan, Discipline
  <2>3. IsProc([Idle EXCEPT !.pc = "preparing"]) /\ [Idle EXCEPT !.pc = "preparing"].pc = "preparing"
    BY Zenon DEF IsProc, Idle
  <2>4. Onward("worker")
    BY <1>e, <1>2, <2>2, <2>3, Onwards, PursueMoves, Zenon DEF Scan, Waits
  <2>5. QED BY <1>e, <2>1, <2>4, Zenon DEF Moved
<1>3. ASSUME NEW s \in Senders, Inspect(s) \/ Job(s) \/ Failed(s) \/ Inspected(s) \/ GiveUp(s)
      PROVE  Moved(s)
  <2>1. UNCHANGED <<row, hs, reply, taskVars>>
    BY <1>3, Zenon DEF Inspect, Job, Failed, Inspected, GiveUp, Read, Local
  <2>2. left' = left \/ (left' = left \cup {proc[s]} /\ proc[s].pc \in SourceJobs)
    BY <1>3, Zenon DEF Inspect, Job, Failed, Inspected, GiveUp, Read, Local
  <2>3. QED BY <1>3, <2>1, <2>2, ProcMoves, Zenon DEF Moved
<1>4. QED BY <1>1, <1>2, <1>3, Zenon DEF SourceStep

(* A handler at work in its slot, or its end; only its end answers.           *)
Handled(h) ==
  /\ hs[h] # Free
  /\ \E p : /\ hs' = [hs EXCEPT ![h] = p]
            /\ \/ reply' = reply
               \/ p = Free /\ \E a : reply' = [reply EXCEPT ![h] = a]

(* Every step of a handler, and the timeout of its job, is of that kind.      *)
LEMMA HandlerMoves ==
  ASSUME IInv, NEW h \in Slots, HandlerStep(h) \/ HandlerTimeout(h)
  PROVE  Handled(h)
<1>f. Free.pc = "free" BY Zenon DEF Free
<1>1. CASE Answered(h)
  <2>1. hs[h] # Free BY <1>1, <1>f, Zenon DEF Answered, Answers
  <2>2. QED BY <1>1, <2>1, Zenon DEF Answered, Handled
<1>2. ASSUME NEW from, NEW to, NEW r, Goes(h, from, to, r), from # "free" PROVE Handled(h)
  BY <1>2, <1>f, Zenon DEF Goes, Handled
<1>3. CASE Lock(h) BY <1>2, <1>3, Zenon DEF Lock
<1>4. CASE View(h) BY <1>2, <1>4, Zenon DEF View
<1>5. CASE Cancel(h) BY <1>2, <1>5, Zenon DEF Cancel
<1>6. CASE Select(h) BY <1>f, <1>6, Zenon DEF Select, Handled
<1>7. CASE Signal(h) BY <1>f, <1>7, Zenon DEF Signal, Handled
<1>8. CASE \E t \in Tasks : Spawn(h, t) BY <1>f, <1>8, Zenon DEF Spawn, Handled
<1>9. ASSUME NEW from, NEW to, Holds(h, from, to), from # "free" PROVE Handled(h)
  BY <1>2, <1>9, Zenon DEF Holds
<1>10. CASE HandlerTimeout(h)
  <2>1. hs[h] # Free BY <1>10, <1>f, Zenon DEF HandlerTimeout, Jobs
  <2>2. QED BY <1>10, <2>1, Zenon DEF HandlerTimeout, Dropped, Handled
<1>11. QED BY <1>1, <1>3, <1>4, <1>5, <1>6, <1>7, <1>8, <1>9, <1>10, Zenon DEF HandlerStep

(* Nothing of a session changes but what it is about.                         *)
LEMMA SessionKept ==
  ASSUME NEW u, SessionOk(u), UNCHANGED <<proc[u], rpc[u], reply[u], hs[u]>>
  PROVE  SessionOk(u)'
BY Zenon DEF SessionOk

(* A process that moves keeps to its sessions.                                *)
LEMMA MovedDiscipline ==
  ASSUME IInv, Discipline, NEW s \in Senders, Moved(s)
  PROVE  Discipline'
<1>1. PICK p :
         /\ proc' = [proc EXCEPT ![s] = p] /\ IsProc(p)
         /\ \/ rpc' = rpc /\ p.pc = "idle"
            \/ /\ rpc' = rpc /\ rpc[s] = "none" /\ p.pc \notin Waits
               /\ p.pc \in Carry => p.pc = "settle" /\ proc[s].pc = "inspected" /\ p.got = proc[s].got
            \/ /\ rpc[s] = "none" /\ p.pc \in Waits
               /\ \E k \in {"prepare", "inspect", "invoke", "cancel"} :
                    rpc' = [rpc EXCEPT ![s] = k] /\ (p.pc = "inspecting" => k = "inspect")
  BY Zenon DEF Moved, Onward
<1>2. /\ proc' = [u \in Senders |-> proc'[u]] /\ proc'[s] = p
      /\ \A u \in Senders : u # s => proc'[u] = proc[u] /\ rpc'[u] = rpc[u]
  BY <1>1, Zenon DEF Discipline, IInv, Shape
<1>3. UNCHANGED <<hs, reply>> BY Zenon DEF Moved
<1>4. SessionOk(s)'
  <2>1. CASE rpc' = rpc /\ p.pc = "idle"
    BY <1>2, <1>3, <2>1, Zenon DEF Discipline, SessionOk
  <2>2. CASE rpc' = rpc /\ rpc[s] = "none" /\ p.pc \notin Waits
    BY <1>2, <1>3, <2>2, Zenon DEF Discipline, SessionOk, Waits
  <2>3. ASSUME rpc[s] = "none", p.pc \in Waits, NEW k \in {"prepare", "inspect", "invoke", "cancel"},
               rpc' = [rpc EXCEPT ![s] = k], p.pc = "inspecting" => k = "inspect"
        PROVE  SessionOk(s)'
    <3>1. rpc'[s] = k BY <2>3, Zenon DEF IInv, Shape
    <3>2. QED BY <1>2, <1>3, <2>3, <3>1, Zenon DEF Discipline, SessionOk
  <2>4. QED BY <1>1, <2>1, <2>2, <2>3, Zenon
<1>5. \A u \in Senders : SessionOk(u)'
  <2>1. ASSUME NEW u \in Senders, u # s PROVE SessionOk(u)'
    <3>1. UNCHANGED <<proc[u], rpc[u], reply[u], hs[u]>> BY <1>2, <1>3, <2>1, Zenon
    <3>2. QED BY <3>1, SessionKept, Zenon DEF Discipline
  <2>2. QED BY <1>4, <2>1, Zenon
<1>6. Bearing(p)
  BY <1>1, Zenon DEF Discipline, Bearing, Carry, Waits
<1>7. \A u \in Senders : IsProc(proc'[u]) /\ Bearing(proc'[u])
  BY <1>1, <1>2, <1>6, Zenon DEF Discipline
<1>8. \A j \in left' : Bearing(j)
  BY Zenon DEF Moved, Discipline
<1>9. QED BY <1>2, <1>3, <1>5, <1>7, <1>8, Zenon DEF Discipline

(* Answers are taken, requests served, lost and handled late.                 *)
LEMMA WireDiscipline ==
  ASSUME IInv, Discipline, NEW s \in Senders, Take(s) \/ Wire(s)
  PROVE  Discipline'
<1>s. s \in Slots /\ Late \in Slots /\ Late # s /\ Senders \subseteq Slots /\ Late \notin Senders
  BY SlotAssumption, Zenon
<1>r. /\ hs = [h \in Slots |-> hs[h]] /\ rpc = [u \in Senders |-> rpc[u]]
      /\ proc = [u \in Senders |-> proc[u]] /\ reply = [h \in Slots |-> reply[h]]
  BY Zenon DEF Discipline, IInv, Shape
<1>o. SessionOk(s) /\ IsProc(proc[s])
  BY Zenon DEF Discipline
<1>k. ASSUME \A u \in Senders \ {s} : UNCHANGED <<proc[u], rpc[u], reply[u], hs[u]>>, SessionOk(s)'
      PROVE  \A u \in Senders : SessionOk(u)'
  BY <1>k, SessionKept, Zenon DEF Discipline
<1>1. CASE Take(s)
  <2> DEFINE p == AfterReply(s, reply[s])
  <2>1. /\ reply[s] # None /\ proc[s].pc \in Waits
        /\ reply' = [reply EXCEPT ![s] = None] /\ rpc' = [rpc EXCEPT ![s] = "none"]
        /\ proc' = [proc EXCEPT ![s] = p]
        /\ hs' = hs /\ left' = left
    <3> HIDE DEF p
    <3>1. proc' = [proc EXCEPT ![s] = p] BY <1>1, Zenon DEF Take, p
    <3>2. QED BY <1>1, <3>1, Zenon DEF Take
  <2>2. IsProc(p) /\ p.pc \notin Waits /\ (p.pc \in Carry => p.got = reply[s])
    <3>1. ASSUME NEW pc, NEW got
          PROVE  /\ IsProc([proc[s] EXCEPT !.pc = pc, !.got = got])
                 /\ [proc[s] EXCEPT !.pc = pc, !.got = got].pc = pc
                 /\ [proc[s] EXCEPT !.pc = pc, !.got = got].got = got
      BY <1>o, Zenon DEF IsProc, Idle
    <3>2. /\ IsProc([Idle EXCEPT !.pc = "failed"]) /\ [Idle EXCEPT !.pc = "failed"].pc = "failed"
          /\ IsProc([proc[s] EXCEPT !.pc = "inspect", !.polling = TRUE])
          /\ [proc[s] EXCEPT !.pc = "inspect", !.polling = TRUE].pc = "inspect"
      BY <1>o, Zenon DEF IsProc, Idle
    <3>3. CASE p = [Idle EXCEPT !.pc = "failed"] \/ p = [proc[s] EXCEPT !.pc = "inspect", !.polling = TRUE]
      <4>1. IsProc(p) /\ p.pc \in {"failed", "inspect"} BY <3>2, <3>3, Zenon
      <4> HIDE DEF p
      <4>2. QED BY <4>1, Zenon DEF Waits, Carry
    <3>4. ASSUME NEW pc \in {"bind", "ack", "inspected"}, p = [proc[s] EXCEPT !.pc = pc, !.got = reply[s]]
          PROVE  IsProc(p) /\ p.pc \notin Waits /\ (p.pc \in Carry => p.got = reply[s])
      <4> HIDE DEF p
      <4>1. IsProc(p) /\ p.pc = pc /\ p.got = reply[s] BY <3>1, <3>4, Zenon
      <4>2. QED BY <3>4, <4>1, Zenon DEF Waits
    <3>5. \/ p = [Idle EXCEPT !.pc = "failed"]
          \/ p = [proc[s] EXCEPT !.pc = "inspect", !.polling = TRUE]
          \/ \E pc \in {"bind", "ack", "inspected"} : p = [proc[s] EXCEPT !.pc = pc, !.got = reply[s]]
      BY Zenon DEF AfterReply
    <3> HIDE DEF p
    <3>6. QED BY <3>3, <3>4, <3>5, Zenon
  <2> HIDE DEF p
  <2>3. /\ proc'[s] = p /\ rpc'[s] = "none" /\ reply'[s] = None /\ hs'[s] = hs[s]
        /\ proc' = [u \in Senders |-> proc'[u]] /\ reply' = [h \in Slots |-> reply'[h]]
    BY <1>s, <1>r, <2>1, Zenon
  <2>4. \A u \in Senders \ {s} : UNCHANGED <<proc[u], rpc[u], reply[u], hs[u]>>
    <3>1. ASSUME NEW u \in Senders, u # s
          PROVE  proc'[u] = proc[u] /\ rpc'[u] = rpc[u] /\ reply'[u] = reply[u] /\ hs'[u] = hs[u]
      <4>1. u \in Slots /\ s \in Slots BY <1>s, Zenon
      <4>2. proc'[u] = proc[u] /\ rpc'[u] = rpc[u] BY <1>r, <2>1, <3>1, Zenon
      <4>3. reply'[u] = reply[u] BY <1>r, <2>1, <3>1, <4>1, ZenonT(30)
      <4>4. QED BY <2>1, <4>2, <4>3, Zenon
    <3>2. QED BY <3>1, Zenon
  <2>5. \A u \in Senders : SessionOk(u)'
    <3>1. hs[s] = Free BY <1>o, <2>1, Zenon DEF SessionOk
    <3>2. SessionOk(s)' BY <2>2, <2>3, <3>1, Zenon DEF SessionOk, Waits
    <3>3. QED BY <1>k, <2>4, <3>2, Zenon
  <2>6. Bearing(p) BY <2>1, <2>2, Zenon DEF Bearing
  <2>7. \A u \in Senders : IsProc(proc'[u]) /\ Bearing(proc'[u])
    BY <2>2, <2>3, <2>4, <2>6, Zenon DEF Discipline
  <2>8. QED BY <2>1, <2>3, <2>5, <2>7, Zenon DEF Discipline
<1>2. ASSUME UNCHANGED <<proc, left>>, reply' = [h \in Slots |-> reply'[h]], SessionOk(s)',
             \A u \in Senders \ {s} : UNCHANGED <<proc[u], rpc[u], reply[u], hs[u]>>
      PROVE  Discipline'
  BY <1>k, <1>2, Zenon DEF Discipline
<1>3. CASE Serve(s)
  <2>1. /\ \E a : reply' = [reply EXCEPT ![s] = a]
        /\ rpc[s] \in {"prepare", "inspect"} /\ rpc' = [rpc EXCEPT ![s] = "served"]
        /\ UNCHANGED <<proc, left, hs>>
    BY <1>3, Zenon DEF Serve
  <2>2. rpc'[s] = "served" /\ hs'[s] = Free
    BY <1>r, <1>o, <2>1, Zenon DEF SessionOk
  <2>3. /\ reply' = [h \in Slots |-> reply'[h]]
        /\ \A u \in Senders \ {s} : UNCHANGED <<proc[u], rpc[u], reply[u], hs[u]>>
    BY <1>s, <1>r, <2>1, Zenon
  <2>4. SessionOk(s)' BY <1>o, <2>1, <2>2, Zenon DEF SessionOk
  <2>5. QED BY <1>2, <2>1, <2>3, <2>4, Zenon
<1>4. CASE Arrive(s)
  <2>1. /\ rpc[s] \in {"invoke", "cancel"} /\ rpc' = [rpc EXCEPT ![s] = "served"]
        /\ \E p : hs' = [hs EXCEPT ![s] = p]
        /\ UNCHANGED <<proc, left, reply>>
    BY <1>4, Zenon DEF Arrive
  <2>2. rpc'[s] = "served" /\ reply'[s] = None /\ proc'[s].pc # "inspecting"
    BY <1>r, <1>o, <2>1, Zenon DEF SessionOk
  <2>3. \A u \in Senders \ {s} : UNCHANGED <<proc[u], rpc[u], reply[u], hs[u]>>
    BY <1>s, <1>r, <2>1, Zenon
  <2>4. SessionOk(s)' BY <1>o, <2>1, <2>2, Zenon DEF SessionOk
  <2>5. QED BY <1>r, <1>2, <2>1, <2>3, <2>4, Zenon
<1>5. CASE Vanish(s)
  <2>1. /\ proc[s].pc \notin Waits /\ rpc[s] # "none"
        /\ rpc' = [rpc EXCEPT ![s] = "none"] /\ reply' = [reply EXCEPT ![s] = None]
        /\ hs' = [hs EXCEPT ![s] = Free] /\ UNCHANGED <<proc, left>>
    BY <1>5, Zenon DEF Vanish, Abandoned, Dropped
  <2>2. rpc'[s] = "none" /\ reply'[s] = None /\ hs'[s] = Free /\ reply' = [h \in Slots |-> reply'[h]]
    BY <1>s, <1>r, <2>1, Zenon
  <2>3. \A u \in Senders \ {s} : UNCHANGED <<proc[u], rpc[u], reply[u], hs[u]>>
    BY <1>s, <1>r, <2>1, Zenon
  <2>4. SessionOk(s)' BY <2>1, <2>2, Zenon DEF SessionOk, Waits
  <2>5. QED BY <1>2, <2>1, <2>2, <2>3, <2>4, Zenon
<1>6. CASE Linger(s)
  <2>1. /\ proc[s].pc \notin Waits /\ rpc[s] # "none"
        /\ rpc[s] \in {"prepare", "invoke", "cancel"} \/ hs[s] # Free
        /\ rpc' = [rpc EXCEPT ![s] = "none"] /\ UNCHANGED <<proc, left, reply>>
        /\ \E p : hs' = [hs EXCEPT ![Late] = p, ![s] = Free]
    BY <1>6, Zenon DEF Linger, Abandoned
  <2>2. reply[s] = None BY <1>o, <2>1, Zenon DEF SessionOk
  <2>3. rpc'[s] = "none" /\ reply'[s] = None /\ hs'[s] = Free
    <3>1. PICK p : hs' = [hs EXCEPT ![Late] = p, ![s] = Free] BY <2>1, Zenon
    <3>2. hs'[s] = Free BY <1>s, <1>r, <3>1, Zenon
    <3>3. QED BY <1>r, <2>1, <2>2, <3>2, Zenon
  <2>4. \A u \in Senders \ {s} : UNCHANGED <<proc[u], rpc[u], reply[u], hs[u]>>
    BY <1>s, <1>r, <2>1, Zenon
  <2>5. SessionOk(s)' BY <2>1, <2>3, Zenon DEF SessionOk, Waits
  <2>6. QED BY <1>r, <1>2, <2>1, <2>4, <2>5, Zenon
<1>7. QED BY <1>1, <1>3, <1>4, <1>5, <1>6, Zenon DEF Wire

(* Steps of handlers keep out of the sessions of others.                      *)
LEMMA HandledDiscipline ==
  ASSUME IInv, Discipline, NEW h \in Slots, Handled(h), UNCHANGED <<proc, rpc, left>>
  PROVE  Discipline'
<1>1. PICK p : /\ hs' = [hs EXCEPT ![h] = p]
               /\ \/ reply' = reply
                  \/ p = Free /\ \E a : reply' = [reply EXCEPT ![h] = a]
  BY ZenonT(30) DEF Handled
<1>2. reply' = [g \in Slots |-> reply'[g]]
  BY <1>1, Zenon DEF Discipline
<1>3. ASSUME NEW u \in Senders PROVE SessionOk(u)'
  <2>1. u \in Slots /\ SessionOk(u) /\ hs[h] # Free
    BY SlotAssumption, Zenon DEF Discipline, Handled
  <2>2. CASE u # h
    <3>1. hs'[u] = hs[u] /\ reply'[u] = reply[u]
      BY <1>1, <2>1, <2>2, Zenon DEF IInv, Shape, Discipline
    <3>2. QED BY <2>1, <3>1, SessionKept, Zenon
  <2>3. CASE u = h
    <3>1. rpc[u] = "served" /\ reply[u] = None /\ proc[u].pc # "inspecting"
      BY <2>1, <2>3, Zenon DEF SessionOk
    <3>2. hs'[u] = p BY <1>1, <2>1, <2>3, Zenon DEF IInv, Shape
    <3>3. p = Free \/ reply'[u] = None BY <1>1, <3>1, Zenon
    <3>4. QED BY <2>1, <3>1, <3>2, <3>3, Zenon DEF SessionOk
  <2>4. QED BY <2>2, <2>3, Zenon
<1>4. QED BY <1>2, <1>3, Zenon DEF Discipline

(* All other steps but the crashes leave the sessions alone.                  *)
Elsewhere ==
  \/ UNCHANGED vars
  \/ \E t \in Tasks : Target(TaskStep(t) \/ JobStep(t) \/ Finish(t, setup.ends))
  \/ \E pc \in Jobs : Target(OrphanStep(pc))
  \/ StoreFault /\ \E t \in Tasks : JobFails(t) \/ TaskTimeout(t)
  \/ Operate \/ CancelOperation \/ Maintain \/ Time

(* The steps of the specification, by what they do to sessions.               *)
LEMMA StepKinds ==
  ASSUME [Next]_vars
  PROVE  \/ SourceStep \/ Elsewhere \/ CrashSource \/ CrashTarget
         \/ \E s \in Senders : Take(s) \/ Wire(s)
         \/ \E h \in Slots : Target(HandlerStep(h)) \/ (StoreFault /\ HandlerTimeout(h))
         \/ \E j \in left : LeftJob(j)
         \/ LatePrepare
<1>1. CASE Background
  <2>1. CASE \E t \in Tasks : Target(TaskStep(t) \/ JobStep(t))
    BY <2>1, Zenon DEF Elsewhere, Target
  <2>2. QED BY <1>1, <2>1, Zenon DEF Background, Elsewhere
<1>2. CASE StoreFault
  BY <1>2, Zenon DEF StoreFault, Elsewhere
<1>3. CASE \E t \in Tasks : Target(Finish(t, setup.ends))
  BY <1>3, Zenon DEF Elsewhere, Target
<1>4. QED BY <1>1, <1>2, <1>3, Zenon DEF Next, SourceStep, Elsewhere, ProcStep

(* Steps elsewhere change nothing of the sessions.                            *)
LEMMA ElsewhereKeeps == ASSUME Elsewhere PROVE UNCHANGED <<proc, rpc, left, hs, reply>>
<1> USE DEF vars, targetVars, directoryVars, bridgeVars, taskVars, sourceVars, hostVars
<1>1. CASE UNCHANGED vars BY <1>1, Zenon
<1>2. ASSUME NEW t \in Tasks, TaskStep(t) \/ Finish(t, setup.ends) \/ TaskTimeout(t)
      PROVE  UNCHANGED <<hs, reply>>
  BY <1>2, Zenon DEF TaskStep, Finish, Reserve, Admit, NotAdmitted, Published, TaskTimeout, Exit, Advance
<1>3. ASSUME NEW t \in Tasks, JobStep(t) \/ JobFails(t) PROVE UNCHANGED <<hs, reply>>
  BY <1>3, Zenon DEF JobStep, Bind, Authorize, Accept, Stop, Publish, JobTxn, JobFails
<1>4. CASE \E t \in Tasks : Target(TaskStep(t) \/ JobStep(t) \/ Finish(t, setup.ends))
  BY <1>2, <1>3, <1>4, Zenon DEF Target
<1>5. CASE \E pc \in Jobs : Target(OrphanStep(pc))
  BY <1>5, Zenon DEF Target, OrphanStep
<1>6. CASE StoreFault /\ \E t \in Tasks : JobFails(t) \/ TaskTimeout(t)
  BY <1>2, <1>3, <1>6, Zenon DEF StoreFault, Fault
<1>7. CASE Operate
  BY <1>7, Zenon DEF Operate, Directory, Source, Target, Close, Shutdown, Exit
<1>8. CASE CancelOperation \/ Maintain \/ Time
  BY <1>8, Zenon DEF CancelOperation, Maintain, Time, Directory, Source, Target
<1>9. QED BY <1>1, <1>4, <1>5, <1>6, <1>7, <1>8, Zenon DEF Elsewhere

(* Requests, answers and handlers keep to their sessions, whatever the step.  *)
LEMMA KeepsDiscipline == ASSUME IInv, Discipline, [Next]_vars PROVE Discipline'
<1> USE DEF sourceVars, hostVars
<1>1. CASE SourceStep
  BY <1>1, SourceMoves, MovedDiscipline, Zenon
<1>2. CASE Elsewhere
  <2>1. UNCHANGED <<proc, rpc, left, hs, reply>> BY <1>2, ElsewhereKeeps, Zenon
  <2>2. QED BY <2>1, Zenon DEF Discipline, SessionOk
<1>3. CASE CrashSource
  <2>1. /\ proc' = [s \in Senders |-> Idle] /\ left' = {} /\ UNCHANGED <<rpc, hs, reply>>
    BY <1>3, Zenon DEF CrashSource, targetVars, bridgeVars
  <2>2. IsProc(Idle) /\ Idle.pc = "idle" /\ Bearing(Idle)
    BY Zenon DEF IsProc, Idle, Bearing, Carry
  <2>3. \A s \in Senders : IsProc(proc'[s]) /\ Bearing(proc'[s]) /\ SessionOk(s)'
    BY <2>1, <2>2, Zenon DEF Discipline, SessionOk
  <2>4. QED BY <2>1, <2>3, Zenon DEF Discipline
<1>4. CASE CrashTarget
  <2>1. /\ rpc' = [s \in Senders |-> IF rpc[s] = "none" \/ reply[s] # None THEN rpc[s] ELSE "dead"]
        /\ hs' = [h \in Slots |-> Free] /\ UNCHANGED <<proc, left, reply>>
    BY <1>4, Zenon DEF CrashTarget, TargetCrash, Fault
  <2>2. \A s \in Senders : SessionOk(s)'
    BY <2>1, SlotAssumption, Zenon DEF Discipline, SessionOk
  <2>3. QED BY <2>1, <2>2, Zenon DEF Discipline
<1>5. ASSUME NEW h \in Slots, Target(HandlerStep(h)) \/ (StoreFault /\ HandlerTimeout(h)) PROVE Discipline'
  BY <1>5, HandlerMoves, HandledDiscipline, Zenon DEF Target, StoreFault, Fault
<1>6. ASSUME NEW j \in left, LeftJob(j) PROVE Discipline'
  BY <1>6, Zenon DEF LeftJob, targetVars, bridgeVars, Discipline, SessionOk
<1>7. CASE LatePrepare
  <2>1. Late \in Slots /\ UNCHANGED <<proc, rpc, left>>
    BY <1>7, SlotAssumption, Zenon DEF LatePrepare
  <2>2. hs[Late] # Free /\ hs' = [hs EXCEPT ![Late] = Free] /\ reply' = reply
    <3>1. hs[Late] # Free BY <1>7 DEF LatePrepare, Free
    <3>2. QED BY <1>7, <3>1, Zenon DEF LatePrepare
  <2>3. Handled(Late) BY <2>2, Zenon DEF Handled
  <2>4. QED BY <2>1, <2>3, HandledDiscipline, Zenon
<1>8. QED BY <1>1, <1>2, <1>3, <1>4, <1>5, <1>6, <1>7, WireDiscipline, StepKinds, Zenon

(* What makes the stores readable, and keeps them so: their rows agree with   *)
(* themselves, and what a process hands to a job is an answer.                *)
SInv == IInv /\ Discipline /\ RowAgrees(row) /\ RecAgrees(rec)

(* It holds at first, and every step keeps it.                                *)
LEMMA StoresInductive == (Init => SInv) /\ (SInv /\ [Next]_vars => SInv')
<1>1. ASSUME Init PROVE SInv
  <2>1. IInv BY <1>1, Inductive, Zenon
  <2>2. IsProc(Idle) /\ Idle.pc = "idle" /\ Bearing(Idle)
    BY Zenon DEF IsProc, Idle, Bearing, Carry
  <2>3. /\ proc = [s \in Senders |-> Idle] /\ rpc = [s \in Senders |-> "none"] /\ left = {}
        /\ hs = [h \in Slots |-> Free] /\ reply = [h \in Slots |-> None]
    BY <1>1, Zenon DEF Init, BridgeInit
  <2>4. \A s \in Senders : IsProc(proc[s]) /\ Bearing(proc[s]) /\ SessionOk(s)
    BY <2>2, <2>3, SlotAssumption, Zenon DEF SessionOk
  <2>5. Discipline BY <2>3, <2>4, Zenon DEF Discipline
  <2>6. row = NoCall /\ rec = NoRecord
    BY <1>1, Zenon DEF Init, DirectoryInit, SourceInit
  <2>7. RowAgrees(row) BY <2>6, Zenon DEF RowAgrees, IsRow, NoCall
  <2>8. RecAgrees(rec) BY <2>6, Zenon DEF RecAgrees, NoRecord
  <2>9. QED BY <2>1, <2>5, <2>7, <2>8, Zenon DEF SInv
<1>2. ASSUME SInv, [Next]_vars PROVE SInv'
  <2>1. IInv' BY <1>2, Inductive, Zenon DEF SInv
  <2>2. Discipline' BY <1>2, KeepsDiscipline, Zenon DEF SInv
  <2>3. RowAgrees(row')
    <3>1. RowAgrees(row) BY <1>2, Zenon DEF SInv
    <3>2. ASSUME NEW t \in Tasks, JobStep(t) PROVE RowAgrees(row')
      <4>1. CASE Bind(t) \/ Authorize(t) BY <3>1, <4>1, RowsAgree, Zenon DEF JobTxn, Bind, Authorize
      <4>2. CASE Accept(t) BY <3>1, <4>2, RowsAgree, Zenon DEF JobTxn, Accept
      <4>3. CASE Stop(t) BY <3>1, <4>3, RowsAgree, Zenon DEF JobTxn, Stop
      <4>4. CASE Publish(t) BY <3>1, <4>4, RowsAgree, Zenon DEF JobTxn, Publish
      <4>5. QED BY <3>2, <4>1, <4>2, <4>3, <4>4, Zenon DEF JobStep
    <3>3. QED BY <1>2, <3>1, <3>2, RowMoves, RowsAgree, Zenon DEF Target
  <2>4. RecAgrees(rec')
    <3>1. RecAgrees(rec) /\ Discipline /\ RecMoves BY <1>2, RecordMoves, Zenon DEF SInv
    <3>2. ASSUME NEW p, Bearing(p), NEW at, SourceTxn(p.pc, p.got, at) PROVE RecAgrees(rec')
      BY <3>1, <3>2, JobAgrees, Zenon DEF Bearing, Carry
    <3>3. QED BY <3>1, <3>2, OperatorAgrees, Zenon DEF RecMoves, Discipline
  <2>5. QED BY <2>1, <2>2, <2>3, <2>4, Zenon DEF SInv
<1>3. QED BY <1>1, <1>2, Zenon

(* restore_record never finds a corrupt row, and the indices of unsettled     *)
(* calls, of cancellations and of pending work list the calls they are for,   *)
(* whatever jobs outlive their waiters and whatever is lost.                  *)
THEOREM StoresStayReadable == Spec => []StoresAgree
<1>1. SInv => StoresAgree
  BY Zenon DEF SInv, RowAgrees, RecAgrees, StoresAgree
<1>2. QED BY <1>1, StoresInductive, PTL DEF Spec

----------------------------------------------------------------------------
(* Truth.  A task is over when its program no longer runs; what is recorded   *)
(* of a call is about a task that is.                                         *)
Over(t) == task[t] \in {"publish", "gone"}
AllOver == ran # {} /\ \A t \in ran : Over(t)
Halted == AllOver /\ \A t \in ran : out[t].stopped
Returned(v) == AllOver /\ \A t \in ran : out[t].value = v

TargetTruth ==
  /\ out = [t \in Tasks |-> out[t]]
  /\ \A t \in Tasks : task[t] \in {"eval", "publish"} => t \in ran
  /\ \A t \in ran : task[t] = "eval" \/ Over(t)
  /\ \A t \in Tasks : job[t] \in {"stop", "result"} => t \in ran /\ Over(t)
  /\ \A t \in Tasks : job[t] = "stop" => out[t].stopped
  /\ \A t \in Tasks : ~Over(t) => out[t].value = None
  /\ row.status = "Finished" => AllOver /\ \A t \in ran : out[t].effects = row.effects
  /\ row.result # None => Returned(row.result)
  /\ row.stopped => row.status = "Closed" \/ Halted

(* What stays true of a call: that it was closed, and how its program ended.  *)
Lasting ==
  /\ row.status = "Closed" => row'.status = "Closed"
  /\ AllOver => AllOver' /\ ran' = ran /\ \A t \in ran : out'[t] = out[t]

(* No transaction of the directory makes up an end.                           *)
MakesUpNothing(r, q) ==
  /\ r.status = "Closed" => q.status = "Closed"
  /\ q.status = "Finished" => r.status = "Finished" /\ q.effects = r.effects
  /\ q.stopped => q.status = "Closed" \/ r.stopped
  /\ q.result \in {r.result, None}

(* Only a job's report of a result, and of a stop, says that there was one.   *)
LEMMA NothingMadeUp ==
  ASSUME NEW r, IsRow(r)
  PROVE  /\ \A q : Transacts(r, q) => MakesUpNothing(r, q)
         /\ \A t : MakesUpNothing(r, bind_kernel_identity(r, t))
         /\ \A t : MakesUpNothing(r, record_kernel_acceptance(r, t))
<1> USE DEF MakesUpNothing, IsRow, NoCall, Revised
<1>1. MakesUpNothing(r, prepare_call(r)) BY ZenonT(30) DEF prepare_call
<1>2. MakesUpNothing(r, invoke_call(r)) BY ZenonT(30) DEF invoke_call, ClosedRow
<1>3. IsRow(CancelledRow(r)) /\ MakesUpNothing(r, CancelledRow(r))
  BY ZenonT(30) DEF CancelledRow, ClosedRow
<1>4. MakesUpNothing(r, cancel_call(r)) BY <1>3, ZenonT(30) DEF cancel_call
<1>5. MakesUpNothing(r, close_unaccepted_call(r)) BY ZenonT(30) DEF close_unaccepted_call, ClosedRow
<1>6. MakesUpNothing(r, record_kernel_cancel_accepted(r)) BY ZenonT(30) DEF record_kernel_cancel_accepted
<1>7. MakesUpNothing(r, request_call_deadline_stop(r)) BY ZenonT(30) DEF request_call_deadline_stop
<1>8. ASSUME NEW t PROVE MakesUpNothing(r, bind_kernel_identity(r, t)) BY ZenonT(30) DEF bind_kernel_identity
<1>9. ASSUME NEW t PROVE MakesUpNothing(r, record_kernel_acceptance(r, t))
  BY ZenonT(30) DEF record_kernel_acceptance, Accepting
<1>10. MakesUpNothing(r, r) BY Zenon
<1> HIDE DEF MakesUpNothing, IsRow
<1>11. QED BY <1>1, <1>2, <1>4, <1>5, <1>6, <1>7, <1>8, <1>9, <1>10, Zenon DEF Transacts

(* The reports of a task's job.                                               *)
LEMMA Reports ==
  ASSUME NEW r, IsRow(r), NEW v, NEW e
  PROVE  /\ LET q == record_execution_stopped(r)
            IN q.status = r.status /\ q.effects = r.effects /\ q.result = r.result
         /\ LET q == record_call_result(r, v, e)
            IN /\ q.stopped = r.stopped
               /\ \/ q = r
                  \/ /\ r.status = "Accepted" /\ q.status = "Finished"
                     /\ q.effects = e /\ q.result = v
<1> USE DEF IsRow, NoCall, Revised
<1>1. LET q == record_execution_stopped(r)
      IN q.status = r.status /\ q.effects = r.effects /\ q.result = r.result
  BY ZenonT(30) DEF record_execution_stopped
<1>2. LET q == record_call_result(r, v, e)
      IN /\ q.stopped = r.stopped
         /\ q = r \/ (r.status = "Accepted" /\ q.status = "Finished" /\ q.effects = e /\ q.result = v)
  BY ZenonT(30) DEF record_call_result
<1>3. QED BY <1>1, <1>2, Zenon

(* A task ends, wherever it is.                                               *)
Ending(t) ==
  /\ task[t] # "none" /\ task' = [task EXCEPT ![t] = "gone"] /\ UNCHANGED <<row, job, out, ran>>
Starting(t) ==
  /\ task[t] \in {"none", "ready"}
  /\ \/ task' = [task EXCEPT ![t] = "ready"] /\ job' = job
     \/ task' = [task EXCEPT ![t] = "admit"] /\ job' = [job EXCEPT ![t] = "bind"]
  /\ UNCHANGED <<row, out, ran>>

(* The steps of the specification, by what they do to tasks.                  *)
LEMMA TaskKinds ==
  ASSUME IInv, [Next]_vars
  PROVE  \/ Transacts(row, row') /\ UNCHANGED taskVars
         \/ \E t \in Tasks : \/ Ending(t) \/ Starting(t) \/ Admit(t) \/ Finish(t, setup.ends)
                             \/ JobStep(t) \/ JobFails(t)
         \/ TargetCrash
<1> USE DEF vars, targetVars, directoryVars, bridgeVars, taskVars
<1>r. Transacts(row, row') \/ \E t \in Tasks : JobStep(t)
  BY RowMoves, Zenon DEF Target
<1>1. CASE SourceStep
  BY <1>1, <1>r, Zenon DEF SourceStep, Begin, Attempt, Validate, Existing, Connect, Scan, Inspect, Job,
                    Failed, Inspected, GiveUp, Read, Local
<1>2. ASSUME NEW t \in Tasks, TaskStep(t) \/ TaskTimeout(t) PROVE Ending(t) \/ Starting(t) \/ Admit(t)
  <2>1. ASSUME Exit(t), task[t] # "none" PROVE Ending(t)
    BY <2>1, Zenon DEF Exit, Ending
  <2>2. CASE Reserve(t)
    <3>1. CASE Exit(t) BY <2>1, <2>2, <3>1, Zenon DEF Reserve
    <3>2. CASE Advance(t, "admit", "bind") /\ UNCHANGED <<out, ran>>
      <4>1. task[t] = "ready" BY <2>2, Zenon DEF Reserve
      <4>2. QED BY <3>2, <4>1, Zenon DEF Advance, Starting
    <3>3. QED BY <2>2, <3>1, <3>2, Zenon DEF Reserve
  <2>3. QED BY <1>2, <2>1, <2>2, Zenon DEF TaskStep, NotAdmitted, Published, TaskTimeout
<1>3. CASE Elsewhere
  <2>1. CASE UNCHANGED vars BY <2>1, <1>r, Zenon
  <2>2. CASE \E t \in Tasks : Target(TaskStep(t) \/ JobStep(t) \/ Finish(t, setup.ends))
    BY <2>2, <1>2, Zenon DEF Target
  <2>3. CASE \E pc \in Jobs : Target(OrphanStep(pc)) BY <2>3, <1>r, Zenon DEF Target, OrphanStep
  <2>4. CASE StoreFault /\ \E t \in Tasks : JobFails(t) \/ TaskTimeout(t) BY <2>4, <1>2, Zenon
  <2>5. CASE Operate
    <3>1. CASE Shutdown
      <4>1. live \in Tasks /\ task[live] # "none" BY <3>1, Zenon DEF Shutdown, IInv, Shape
      <4>2. Ending(live) BY <3>1, <4>1, Zenon DEF Shutdown, Exit, Ending
      <4>3. QED BY <4>1, <4>2, Zenon
    <3>2. CASE ~Shutdown
      BY <2>5, <3>2, <1>r, Zenon DEF Operate, Directory, Source, Target, Close
    <3>3. QED BY <3>1, <3>2, Zenon
  <2>6. CASE CancelOperation \/ Maintain \/ Time
    BY <2>6, <1>r, Zenon DEF CancelOperation, Maintain, Time, Directory, Source, Target
  <2>7. QED BY <1>3, <2>1, <2>2, <2>3, <2>4, <2>5, <2>6, Zenon DEF Elsewhere
<1>4. CASE CrashSource
  <2>1. UNCHANGED taskVars BY <1>4, Zenon DEF CrashSource
  <2>2. QED BY <2>1, <1>r, Zenon
<1>5. ASSUME NEW s \in Senders, Take(s) \/ Wire(s) PROVE UNCHANGED taskVars
  BY <1>5, Zenon DEF Take, Wire, Serve, Arrive, Vanish, Linger
<1>6. ASSUME NEW h \in Slots, HandlerStep(h) \/ HandlerTimeout(h)
      PROVE  UNCHANGED taskVars \/ \E t \in Tasks : Starting(t)
  <2>1. CASE \E t \in Tasks : Spawn(h, t)
    BY <2>1, Zenon DEF Spawn, Starting
  <2>2. CASE ~\E t \in Tasks : Spawn(h, t)
    BY <1>6, <2>2, Zenon DEF HandlerStep, Answered, Lock, View, Cancel, Select, Signal, Holds, Goes, HandlerTimeout
  <2>3. QED BY <2>1, <2>2, Zenon
<1>7. CASE \E h \in Slots : Target(HandlerStep(h)) \/ (StoreFault /\ HandlerTimeout(h))
  BY <1>6, <1>7, <1>r, Zenon DEF Target
<1>8. CASE (\E j \in left : LeftJob(j)) \/ LatePrepare
  BY <1>8, <1>r, Zenon DEF LeftJob, LatePrepare
<1>9. CASE CrashTarget BY <1>9, Zenon DEF CrashTarget
<1>10. QED BY <1>r, <1>1, <1>3, <1>4, <1>5, <1>7, <1>8, <1>9, StepKinds, Zenon

(* Only one task has run: the one the row names.                              *)
LEMMA OneRan ==
  ASSUME IInv, NEW t \in Tasks, job[t] = "ok" \/ t \in ran
  PROVE  (\A u \in ran : u = t) /\ row.accepted = t /\ row.status \in {"Accepted", "Finished"}
BY TaskAssumption, Zenon DEF IInv, Owned, RowOk

(* Transactions of the directory say nothing new of programs.                 *)
LEMMA TransactTruth ==
  ASSUME IInv, TargetTruth, MakesUpNothing(row, row'), UNCHANGED taskVars
  PROVE  TargetTruth' /\ Lasting
BY Zenon DEF taskVars, TargetTruth, Lasting, AllOver, Halted, Returned, Over, MakesUpNothing

(* Tasks begin, run and end; a report is about how one ended.                 *)
LEMMA TaskTruth ==
  ASSUME IInv, TargetTruth, NEW t \in Tasks,
         Ending(t) \/ Starting(t) \/ Admit(t) \/ Finish(t, setup.ends) \/ JobFails(t)
  PROVE  TargetTruth' /\ Lasting
<1> USE DEF directoryVars
<1>f. /\ task = [u \in Tasks |-> task[u]] /\ job = [u \in Tasks |-> job[u]]
      /\ out = [u \in Tasks |-> out[u]] /\ ran \subseteq Tasks
  BY Zenon DEF IInv, Shape, Owned, TargetTruth
<1>1. CASE Ending(t)
  <2>1. /\ UNCHANGED <<row, job, out, ran>> /\ task'[t] = "gone" /\ \A u \in Tasks \ {t} : task'[u] = task[u]
    BY <1>1, <1>f, Zenon DEF Ending
  <2>2. /\ \A u \in Tasks : Over(u) => Over(u)'
        /\ \A u \in Tasks : task'[u] \in {"eval", "publish"} => task[u] \in {"eval", "publish"}
    BY <2>1, Zenon DEF Over
  <2>3. \A u \in ran : task'[u] = "eval" \/ Over(u)'
    BY <1>f, <2>1, Zenon DEF TargetTruth, Over
  <2>4. AllOver => AllOver'
    BY <1>f, <2>1, <2>2, Zenon DEF AllOver
  <2>5. QED BY <2>1, <2>2, <2>3, <2>4, Zenon DEF TargetTruth, Lasting, Halted, Returned
<1>2. CASE Starting(t)
  <2>1. /\ task[t] \in {"none", "ready"} /\ UNCHANGED <<row, out, ran>>
        /\ task'[t] \in {"ready", "admit"} /\ \A u \in Tasks \ {t} : task'[u] = task[u] /\ job'[u] = job[u]
        /\ job'[t] = job[t] \/ job'[t] = "bind"
    BY <1>2, <1>f, Zenon DEF Starting
  <2>2. t \notin ran BY <2>1, Zenon DEF TargetTruth, Over
  <2>3. \A u \in ran : task'[u] = task[u] /\ (Over(u)' <=> Over(u))
    BY <1>f, <2>1, <2>2, Zenon DEF Over
  <2>4. AllOver' <=> AllOver
    BY <2>1, <2>3, Zenon DEF AllOver
  <2>5. \A u \in Tasks : job'[u] \in {"stop", "result"} => u # t /\ job'[u] = job[u]
    BY <2>1, <2>2, Zenon DEF TargetTruth
  <2>6. \A u \in Tasks : ~Over(u)' => out'[u].value = None
    BY <2>1, Zenon DEF TargetTruth, Over
  <2>7. QED BY <1>f, <2>1, <2>2, <2>3, <2>4, <2>5, <2>6, Zenon DEF TargetTruth, Lasting, Halted, Returned
<1>3. CASE Admit(t)
  <2>1. /\ task[t] = "admit" /\ job[t] = "ok" /\ ran' = ran \cup {t} /\ UNCHANGED <<row, out>>
        /\ task'[t] = "eval" /\ job'[t] = "none"
        /\ \A u \in Tasks \ {t} : task'[u] = task[u] /\ job'[u] = job[u]
    BY <1>3, <1>f, Zenon DEF Admit, Advance
  <2>2. t \notin ran BY <2>1, Zenon DEF TargetTruth, Over
  <2>3. ran = {} /\ row.status = "Accepted" /\ ~row.stopped /\ row.result = None
    <3>1. (\A u \in ran : u = t) /\ row.status \in {"Accepted", "Finished"}
      BY <2>1, OneRan, Zenon
    <3>2. ran = {} BY <2>2, <3>1, Zenon
    <3>3. QED BY <3>1, <3>2, Zenon DEF TargetTruth, Halted, Returned, AllOver
  <2>4. \A u \in Tasks : job'[u] \notin {"stop", "result"}
    BY <2>1, <2>3, Zenon DEF TargetTruth
  <2>5. \A u \in Tasks : ~Over(u)' => out'[u].value = None
    BY <2>1, Zenon DEF TargetTruth, Over
  <2>6. QED BY <1>f, <2>1, <2>3, <2>4, <2>5, Zenon DEF TargetTruth, Lasting, AllOver
<1>4. CASE Finish(t, setup.ends)
  <2>1. PICK o : /\ out' = [out EXCEPT ![t] = o]
                 /\ Advance(t, "publish", IF o.stopped THEN "stop" ELSE "result")
    BY <1>4, Zenon DEF Finish
  <2>2. /\ task[t] = "eval" /\ UNCHANGED <<row, ran>> /\ task'[t] = "publish" /\ out'[t] = o
        /\ job'[t] \in {"stop", "result"} /\ (job'[t] = "stop" => o.stopped)
        /\ out' = [u \in Tasks |-> out'[u]]
        /\ \A u \in Tasks \ {t} : task'[u] = task[u] /\ job'[u] = job[u] /\ out'[u] = out[u]
    BY <1>4, <2>1, <1>f, Zenon DEF Finish, Advance
  <2>3. t \in ran /\ \A u \in ran : u = t
    BY <2>2, OneRan, Zenon DEF TargetTruth
  <2>4. ~AllOver BY <2>2, <2>3, Zenon DEF AllOver, Over
  <2>5. row.status # "Finished" /\ row.result = None /\ (row.stopped => row.status = "Closed")
    BY <2>4, Zenon DEF TargetTruth, Halted, Returned
  <2>6. \A u \in Tasks : ~Over(u)' => out'[u].value = None
    BY <2>2, Zenon DEF TargetTruth, Over
  <2>7. QED BY <1>f, <2>2, <2>3, <2>4, <2>5, <2>6, Zenon DEF TargetTruth, Lasting, Over
<1>5. CASE JobFails(t)
  <2>1. /\ UNCHANGED <<row, task, out, ran>> /\ job'[t] = "failed" /\ \A u \in Tasks \ {t} : job'[u] = job[u]
    BY <1>5, <1>f, Zenon DEF JobFails
  <2>2. QED BY <2>1, Zenon DEF TargetTruth, Lasting, AllOver, Halted, Returned, Over
<1>6. QED BY <1>1, <1>2, <1>3, <1>4, <1>5, Zenon

(* A job binds, accepts and reports.                                          *)
LEMMA JobTruth ==
  ASSUME IInv, TargetTruth, NEW t \in Tasks, JobStep(t)
  PROVE  TargetTruth' /\ Lasting
<1>f. job = [u \in Tasks |-> job[u]] /\ ran \subseteq Tasks /\ IsRow(row)
  BY Zenon DEF IInv, Shape, Owned, RowOk
<1>1. UNCHANGED <<task, out, ran>> /\ \A u \in Tasks \ {t} : job'[u] = job[u]
  BY <1>f, Zenon DEF JobStep, Bind, Authorize, Accept, Stop, Publish, JobTxn
<1>2. /\ job'[t] \in {"stop", "result"} => t \in ran /\ Over(t)
      /\ job'[t] # "stop"
  <2>1. job'[t] # "stop" /\ (job'[t] = "result" => job[t] = "stop")
    BY <1>f, Zenon DEF JobStep, Bind, Authorize, Accept, Stop, Publish, JobTxn
  <2>2. QED BY <2>1, Zenon DEF TargetTruth
<1>3. /\ \A u \in Tasks : job'[u] \in {"stop", "result"} => u \in ran /\ Over(u)
      /\ \A u \in Tasks : job'[u] = "stop" => out[u].stopped
  BY <1>1, <1>2, Zenon DEF TargetTruth
<1>4. ASSUME row.status = "Closed" => row'.status = "Closed",
             row'.status = "Finished" => AllOver /\ \A u \in ran : out[u].effects = row'.effects,
             row'.result # None => Returned(row'.result),
             row'.stopped => row'.status = "Closed" \/ Halted
      PROVE  TargetTruth' /\ Lasting
  <2>1. (Halted' <=> Halted) /\ (AllOver' <=> AllOver) /\ \A u : Over(u)' <=> Over(u)
    BY <1>1, Zenon DEF Halted, AllOver, Over
  <2>2. row'.result # None => Returned(row.result)'
    BY <1>1, <1>4, <2>1, Zenon DEF Returned
  <2>3. QED BY <1>1, <1>3, <1>4, <2>1, <2>2, Zenon DEF TargetTruth, Lasting
<1>5. ASSUME MakesUpNothing(row, row') PROVE TargetTruth' /\ Lasting
  BY <1>4, <1>5, Zenon DEF MakesUpNothing, TargetTruth
<1>6. CASE Bind(t) \/ Authorize(t) \/ Accept(t)
  <2>1. MakesUpNothing(row, row) BY Zenon DEF MakesUpNothing
  <2>2. row' \in {row, bind_kernel_identity(row, t), record_kernel_acceptance(row, t)}
    BY <1>6, Zenon DEF Bind, Authorize, Accept, JobTxn
  <2>3. QED BY <1>f, <1>5, <2>1, <2>2, NothingMadeUp, Zenon
<1>7. CASE Stop(t)
  <2>1. job[t] = "stop" /\ row' \in {row, record_execution_stopped(row)}
    BY <1>7, Zenon DEF Stop, JobTxn
  <2>2. t \in ran /\ Over(t) /\ out[t].stopped /\ \A u \in ran : u = t
    BY <2>1, OneRan, Zenon DEF TargetTruth
  <2>3. Halted BY <2>2, Zenon DEF Halted, AllOver
  <2>4. row'.status = row.status /\ row'.effects = row.effects /\ row'.result = row.result
    <3>1. /\ record_execution_stopped(row).status = row.status
          /\ record_execution_stopped(row).effects = row.effects
          /\ record_execution_stopped(row).result = row.result
      BY <1>f, Reports, Zenon
    <3>2. QED BY <2>1, <3>1, Zenon
  <2>5. QED BY <1>4, <2>3, <2>4, Zenon DEF TargetTruth
<1>8. CASE Publish(t)
  <2>1. job[t] = "result" /\ row' \in {row, record_call_result(row, out[t].value, out[t].effects)}
    BY <1>8, Zenon DEF Publish, JobTxn
  <2>2. t \in ran /\ Over(t) /\ \A u \in ran : u = t
    BY <2>1, OneRan, Zenon DEF TargetTruth
  <2>3. AllOver BY <2>2, Zenon DEF AllOver
  <2>4. /\ row'.stopped = row.stopped
        /\ row' = row \/ (/\ row.status = "Accepted" /\ row'.status = "Finished"
                           /\ row'.effects = out[t].effects /\ row'.result = out[t].value)
    BY <1>f, <2>1, Reports
  <2>5. QED BY <1>4, <2>2, <2>3, <2>4, Zenon DEF TargetTruth, Returned
<1>9. QED BY <1>6, <1>7, <1>8, Zenon DEF JobStep

(* A crash ends every task, and reports nothing.                              *)
LEMMA CrashTruth ==
  ASSUME IInv, TargetTruth, TargetCrash
  PROVE  TargetTruth' /\ Lasting
<1>1. /\ UNCHANGED <<row, out, ran>> /\ ran \subseteq Tasks
      /\ \A t \in Tasks : task'[t] = (IF task[t] = "none" THEN "none" ELSE "gone")
      /\ \A t \in Tasks : job'[t] \notin {"stop", "result"}
  BY Zenon DEF TargetCrash, directoryVars, IInv, Owned
<1>2. \A t \in ran : Over(t)'
  BY <1>1, Zenon DEF TargetTruth, Over
<1>3. AllOver => AllOver' BY <1>1, <1>2, Zenon DEF AllOver
<1>4. \A t \in Tasks : ~Over(t)' => out'[t].value = None
  BY <1>1, Zenon DEF TargetTruth, Over
<1>5. QED BY <1>1, <1>2, <1>3, <1>4, Zenon DEF TargetTruth, Lasting, Halted, Returned

(* What the target records of a program is true of it, and stays so.          *)
LEMMA KeepsTruth == ASSUME IInv, TargetTruth, [Next]_vars PROVE TargetTruth' /\ Lasting
<1>1. IsRow(row) BY Zenon DEF IInv, Owned, RowOk
<1>2. QED BY <1>1, TaskKinds, NothingMadeUp, TransactTruth, TaskTruth, JobTruth, CrashTruth, Zenon

(* What an inspection says of a call is true: that it was closed, what its    *)
(* program returned, what effects it left, that its scope was finished.       *)
TrueOf(i) ==
  /\ i.status = "Closed" => row.status = "Closed"
  /\ i.status = "Finished" => AllOver /\ \A t \in ran : out[t].effects = i.effects
  /\ i.result # None => Returned(i.result)
  /\ i.stopped => row.status = "Closed" \/ Halted
Clean == row.status = "Closed" \/ (Halted /\ \A t \in ran : ~out[t].effects)

(* Every inspection and result on its way to the source's kernel, and what    *)
(* the source has kept.                                                       *)
Carried(p) ==
  /\ p.pc \in {"inspected", "settle"} => TrueOf(p.got)
  /\ p.pc = "release" => p.got # None /\ Returned(p.got)
OnTheWay ==
  /\ \A s \in Senders :
       /\ Carried(proc[s])
       /\ proc[s].pc = "inspecting" /\ reply[s] \notin {None, Refused} => TrueOf(reply[s])
  /\ \A j \in left : j.pc = "settle" => TrueOf(j.got)
Kept ==
  /\ rec.terminal # None => TrueOf(rec.terminal)
  /\ origin \in {"Released", "Retired"} => Clean

(* A true inspection does not become false.                                   *)
LEMMA StaysTrue ==
  ASSUME Lasting
  PROVE  /\ \A i : TrueOf(i) => TrueOf(i)'
         /\ \A v : Returned(v) => Returned(v)'
         /\ Clean => Clean'
<1>1. AllOver => AllOver' /\ ran' = ran /\ \A t \in ran : out'[t] = out[t]
  BY Zenon DEF Lasting
<1>2. Halted => Halted' BY <1>1, Zenon DEF Halted
<1>3. row.status = "Closed" => row'.status = "Closed" BY Zenon DEF Lasting
<1>r. \A v : Returned(v) => Returned(v)' BY <1>1, Zenon DEF Returned
<1>4. \A i : TrueOf(i) => TrueOf(i)' BY <1>r, <1>1, <1>2, <1>3, Zenon DEF TrueOf
<1>5. Clean => Clean'
  <2>1. Halted => AllOver BY Zenon DEF Halted
  <2>2. QED BY <1>1, <1>2, <1>3, <2>1, Zenon DEF Clean
<1>6. QED BY <1>r, <1>4, <1>5, Zenon

(* The target tells what it has recorded.                                     *)
LEMMA InspectionTrue == ASSUME TargetTruth PROVE TrueOf(inspection(row))
<1>1. /\ inspection(row).status = (IF row.status = "Absent" THEN "Unproven" ELSE row.status)
      /\ inspection(row).effects = row.effects /\ inspection(row).stopped = row.stopped
      /\ inspection(row).result \in {row.result, None}
  BY Zenon DEF inspection
<1>2. QED BY <1>1, Zenon DEF TrueOf, TargetTruth

----------------------------------------------------------------------------
(* Answers.  What a process of the source says when it moves: the worker      *)
(* says nothing and never marks; the endpoint refuses only what was not       *)
(* invoked, and hands on only a result that a receipt proves.                 *)
WorkerPcs == {"idle", "preparing", "bind", "cancelling", "ack", "inspect", "inspecting",
              "inspected", "settle", "failed"}

Unasked == ~rec.invoke \/ (proc["endpoint"].pc = "validate" /\ ~proc["endpoint"].replay)

Founded(s, i) ==
  /\ Proven(i)
  /\ \/ rec.terminal # None /\ i = rec.terminal
     \/ proc[s].pc \in {"inspected", "settle"} /\ i = proc[s].got

Answering(s, a) ==
  \/ a \in {None, Unknown}
  \/ a = Refused /\ Unasked
  \/ proc[s].pc = "release" /\ a = proc[s].got

Says(s) ==
  /\ \A u \in Senders \ {s} : proc'[u] = proc[u]
  /\ s = "worker" => told' = told /\ (proc[s].pc \in WorkerPcs => proc'[s].pc \in WorkerPcs)
  /\ s = "endpoint" => \/ told' \in {None, Unknown}
                       \/ told' = told /\ proc[s].pc # "idle"
                       \/ Answering(s, told') /\ proc'[s].pc = "idle"
  /\ proc'[s].pc = "release" => \E i : Founded(s, i) /\ proc'[s].got = i.result
  /\ proc'[s].pc = "validate" => proc[s].pc = "idle" /\ (proc'[s].replay \/ ~rec.invoke)

(* The ways a process ends, goes on and sends, again.                         *)
LEMMA Saying ==
  ASSUME Discipline, NEW s \in Senders, proc[s].pc # "idle" \/ s = "worker"
  PROVE  /\ \A a : (s = "worker" \/ Answering(s, a)) /\ Ends(s, a) => Says(s)
         /\ \A p, k : /\ To(s, p) \/ Send(s, k, p)
                      /\ p.pc \notin {"release", "validate"} /\ (s = "worker" /\ proc[s].pc \in WorkerPcs => p.pc \in WorkerPcs)
                      => Says(s)
         /\ \A pc : /\ Step(s, pc) /\ pc \notin {"release", "validate"}
                    /\ s = "worker" /\ proc[s].pc \in WorkerPcs => pc \in WorkerPcs
                    => Says(s)
         /\ \A i : /\ Judge(s, i)
                   /\ \/ rec.terminal # None /\ i = rec.terminal
                      \/ proc[s].pc \in {"inspected", "settle"} /\ i = proc[s].got
                   => Says(s)
<1>f. /\ proc = [u \in Senders |-> proc[u]] /\ IsProc(proc[s])
      /\ \A p : proc' = [proc EXCEPT ![s] = p]
                 => proc'[s] = p /\ \A u \in Senders \ {s} : proc'[u] = proc[u]
  BY Zenon DEF Discipline
<1>w. s = "worker" \/ s = "endpoint" BY Zenon DEF Senders
<1>1. ASSUME NEW a, s = "worker" \/ Answering(s, a), Ends(s, a) PROVE Says(s)
  <2>1. proc'[s] = Idle /\ \A u \in Senders \ {s} : proc'[u] = proc[u]
    BY <1>f, <1>1, Zenon DEF Ends
  <2>i. Idle.pc = "idle" BY Zenon DEF Idle
  <2>2. proc'[s].pc = "idle" BY <2>i, <2>1, Zenon
  <2>3. QED BY <1>1, <2>1, <2>2, Zenon DEF Ends, Says, WorkerPcs
<1>2. ASSUME NEW p, NEW k, To(s, p) \/ Send(s, k, p), p.pc \notin {"release", "validate"},
             s = "worker" /\ proc[s].pc \in WorkerPcs => p.pc \in WorkerPcs
      PROVE  Says(s)
  <2>1. /\ proc'[s] = p /\ told' = told
        /\ \A u \in Senders \ {s} : proc'[u] = proc[u]
    BY <1>f, <1>2, Zenon DEF To, Send
  <2>2. QED BY <1>2, <2>1, Zenon DEF Says
<1>3. ASSUME NEW pc, Step(s, pc), pc \notin {"release", "validate"},
             s = "worker" /\ proc[s].pc \in WorkerPcs => pc \in WorkerPcs
      PROVE  Says(s)
  <2> DEFINE p == [proc[s] EXCEPT !.pc = pc]
  <2>1. p.pc = pc BY <1>f, Zenon DEF IsProc, Idle
  <2>2. To(s, p) BY <1>3, Zenon DEF Step
  <2> HIDE DEF p
  <2>3. QED BY <1>2, <1>3, <2>1, <2>2, Zenon
<1>4. ASSUME NEW i, Judge(s, i),
             \/ rec.terminal # None /\ i = rec.terminal
             \/ proc[s].pc \in {"inspected", "settle"} /\ i = proc[s].got
      PROVE  Says(s)
  <2>1. CASE \E a \in {None, Unknown} : Ends(s, a)
    BY <1>1, <2>1, Zenon DEF Answering
  <2>2. CASE s = "endpoint" /\ (Step(s, "inspect") \/ Step(s, "mark"))
    BY <1>3, <2>2, Zenon
  <2>3. CASE s = "endpoint" /\ Proven(i) /\ To(s, [proc[s] EXCEPT !.pc = "release", !.got = i.result])
    <3> DEFINE p == [proc[s] EXCEPT !.pc = "release", !.got = i.result]
    <3>1. p.pc = "release" /\ p.got = i.result BY <1>f, Zenon DEF IsProc, Idle
    <3>2. To(s, p) BY <2>3, Zenon
    <3> HIDE DEF p
    <3>3. /\ proc'[s] = p /\ told' = told
          /\ \A u \in Senders \ {s} : proc'[u] = proc[u]
      BY <1>f, <3>2, Zenon DEF To
    <3>4. Founded(s, i) BY <1>4, <2>3, Zenon DEF Founded
    <3>5. QED BY <2>3, <3>1, <3>3, <3>4, Zenon DEF Says
  <2>4. QED BY <1>w, <1>4, <2>1, <2>2, <2>3, Zenon DEF Judge
<1>5. QED BY <1>1, <1>2, <1>3, <1>4, Zenon

(* A pass of the worker.                                                      *)
LEMMA PursueSays == ASSUME Discipline, NEW r, Pursue(r) PROVE Says("worker")
<1>1. "worker" \in Senders BY Zenon DEF Senders
<1>2. /\ [Idle EXCEPT !.pc = "cancelling"].pc = "cancelling"
      /\ [Idle EXCEPT !.pc = "inspect"].pc = "inspect"
  BY Zenon DEF Idle
<1>3. QED BY <1>1, <1>2, Saying, Zenon DEF Pursue, WorkerPcs

(* An attempt of the endpoint.                                                *)
LEMMA AttemptSays == ASSUME Discipline, RecAgrees(rec), Begin \/ Attempt PROVE Says("endpoint")
<1>e. "endpoint" \in Senders /\ "endpoint" # "worker" BY Zenon DEF Senders
<1>p. IsProc(proc["endpoint"]) BY <1>e, Zenon DEF Discipline
<1>r. ~NoRecord.invoke BY Zenon DEF NoRecord
<1>1. CASE Begin
  <2>1. proc' = [proc EXCEPT !["endpoint"] =
                   IF Evidence = "Retired" THEN Idle
                   ELSE [Idle EXCEPT !.pc = "validate", !.replay = Evidence = "Recorded"]]
    BY <1>1, Zenon DEF Begin
  <2>2. told' \in {None, Unknown} BY <1>1, Zenon DEF Begin
  <2>3. \A u \in Senders \ {"endpoint"} : proc'[u] = proc[u]
    BY <2>1, Zenon DEF Discipline
  <2>4. CASE Evidence = "Retired"
    <3>1. proc'["endpoint"].pc = "idle" BY <1>e, <2>1, <2>4, Zenon DEF Discipline, Idle
    <3>2. QED BY <1>e, <2>2, <2>3, <3>1, Zenon DEF Says
  <2>5. CASE Evidence # "Retired"
    <3>1. proc'["endpoint"].pc = "validate" /\ proc'["endpoint"].replay = (Evidence = "Recorded")
      BY <1>e, <2>1, <2>5, Zenon DEF Discipline, Idle
    <3>2. Evidence # "Recorded" => ~rec.invoke
      <4>1. Evidence # "Recorded" => ~rec.staged BY <2>5, Zenon DEF Evidence
      <4>2. QED BY <1>r, <4>1, Zenon DEF RecAgrees
    <3>3. proc["endpoint"].pc = "idle" BY <1>1, Zenon DEF Begin, At
    <3>4. QED BY <1>e, <2>2, <2>3, <3>1, <3>2, <3>3, Zenon DEF Says
  <2>6. QED BY <2>4, <2>5, Zenon
<1>2. ASSUME NEW p, NEW invoke, IsProc(p), invoke = rec.invoke, Connected(p, invoke), proc["endpoint"].pc # "idle"
      PROVE  Says("endpoint")
  <2>1. [p EXCEPT !.pc = "inspect"].pc = "inspect" /\ [p EXCEPT !.pc = "mark"].pc = "mark"
    BY <1>2, Zenon DEF IsProc, Idle
  <2>2. ASSUME Ends("endpoint", OfflineAnswer(invoke)) PROVE Says("endpoint")
    <3>1. Answering("endpoint", OfflineAnswer(invoke))
      BY <1>2, Zenon DEF Answering, OfflineAnswer, Unasked
    <3>2. QED BY <1>e, <1>2, <2>2, <3>1, Saying, Zenon
  <2>3. ASSUME Ends("endpoint", Unknown) PROVE Says("endpoint")
    BY <1>e, <1>2, <2>3, Saying, Zenon DEF Answering
  <2>4. QED BY <1>e, <1>2, <2>1, <2>2, <2>3, Saying, Zenon DEF Connected
<1>3. CASE Validate
  <2>1. proc["endpoint"].pc = "validate" BY <1>3, Zenon DEF Validate, At
  <2>2. Answering("endpoint", InvalidAnswer(proc["endpoint"]))
    BY <2>1, Zenon DEF Answering, InvalidAnswer, Unasked
  <2>3. CASE Step("endpoint", "origin") BY <1>e, <2>1, <2>3, Saying, Zenon
  <2>4. CASE Ends("endpoint", InvalidAnswer(proc["endpoint"])) BY <1>e, <2>1, <2>2, <2>4, Saying, Zenon
  <2>5. QED BY <1>3, <2>3, <2>4, Zenon DEF Validate
<1>4. CASE Connect
  <2>1. proc["endpoint"].pc # "idle" BY <1>4, Zenon DEF Connect, At
  <2>2. QED BY <1>p, <1>2, <1>4, <2>1, Zenon DEF Connect
<1>5. CASE Existing
  <2> DEFINE p == [proc["endpoint"] EXCEPT !.now = clock]
  <2>1. proc["endpoint"].pc # "idle" BY <1>5, Zenon DEF Existing, At
  <2>2. IsProc(p) /\ [p EXCEPT !.pc = "stage"].pc = "stage" BY <1>p, Zenon DEF IsProc, Idle
  <2>3. CASE rec.terminal # None
    <3>1. Judge("endpoint", rec.terminal) BY <1>5, <2>3, Zenon DEF Existing
    <3>2. QED BY <1>e, <2>1, <2>3, <3>1, Saying, Zenon
  <2>4. CASE rec.terminal = None /\ rec.prepared # None
    <3>1. Connected(p, rec.invoke) BY <1>5, <2>4, Zenon DEF Existing
    <3> HIDE DEF p
    <3>2. QED BY <1>2, <2>1, <2>2, <3>1, Zenon
  <2>5. CASE rec.terminal = None /\ rec.prepared = None
    <3>1. ~rec.invoke BY <1>r, <2>5, Restored, Zenon DEF RecAgrees
    <3>2. \/ \E a \in {Unknown, Refused} : Ends("endpoint", a)
          \/ To("endpoint", [p EXCEPT !.pc = "stage"])
      BY <1>5, <2>5, Zenon DEF Existing
    <3>3. \A a \in {Unknown, Refused} : Answering("endpoint", a) BY <3>1, Zenon DEF Answering, Unasked
    <3> HIDE DEF p
    <3>4. CASE To("endpoint", [p EXCEPT !.pc = "stage"])
      <4>1. PICK q : q = [p EXCEPT !.pc = "stage"] BY Zenon
      <4>2. To("endpoint", q) /\ q.pc = "stage" BY <2>2, <3>4, <4>1, Zenon
      <4>3. QED BY <1>e, <2>1, <4>2, Saying, Zenon
    <3>5. QED BY <1>e, <2>1, <3>2, <3>3, <3>4, Saying, Zenon
  <2>6. QED BY <2>3, <2>4, <2>5, Zenon
<1>6. QED BY <1>1, <1>3, <1>4, <1>5, Zenon DEF Attempt

(* A process goes on after its job.                                           *)
LEMMA JobSays ==
  ASSUME Discipline, NEW s \in Senders, NEW ok, proc[s].pc \in SourceJobs, AfterJob(s, ok)
  PROVE  Says(s)
<1>p. IsProc(proc[s]) /\ proc[s].pc # "idle" BY Zenon DEF Discipline, SourceJobs
<1>u. ASSUME NEW a, Ends(s, a), a \in {None, Unknown} \/ (proc[s].pc = "release" /\ a = proc[s].got)
      PROVE  Says(s)
  BY <1>p, <1>u, Saying, Zenon DEF Answering
<1>s. ASSUME NEW k, NEW pc \in {"preparing", "invoking"}, Send(s, k, [proc[s] EXCEPT !.pc = pc]),
             s = "worker" /\ proc[s].pc \in WorkerPcs => pc = "preparing"
      PROVE  Says(s)
  <2>1. PICK p : p = [proc[s] EXCEPT !.pc = pc] BY Zenon
  <2>2. p.pc = pc BY <1>p, <2>1, Zenon DEF IsProc, Idle
  <2>3. Send(s, k, p) BY <1>s, <2>1, Zenon
  <2>4. QED BY <1>p, <1>s, <2>2, <2>3, Saying, Zenon DEF WorkerPcs
<1>1. CASE proc[s].pc \in {"release", "ack"} \/ ~ok
  BY <1>1, <1>u, Zenon DEF AfterJob
<1>2. CASE proc[s].pc = "origin" /\ ok
  <2>1. Step(s, "existing") /\ proc[s].pc \notin WorkerPcs BY <1>2, Zenon DEF AfterJob, WorkerPcs
  <2>2. QED BY <1>p, <2>1, Saying, Zenon
<1>3. CASE proc[s].pc = "stage" /\ ok
  <2>1. proc[s].pc \notin WorkerPcs BY <1>3, Zenon DEF WorkerPcs
  <2>2. Step(s, "connect") \/ Send(s, "prepare", [proc[s] EXCEPT !.pc = "preparing"])
    BY <1>3, Zenon DEF AfterJob
  <2>3. QED BY <1>p, <1>s, <2>1, <2>2, Saying, Zenon
<1>4. CASE proc[s].pc = "bind" /\ ok
  <2>1. CASE s = "worker"
    <3>1. Pursue(bind(rec, proc[s].got)) BY <1>4, <2>1, Zenon DEF AfterJob
    <3>2. QED BY <2>1, <3>1, PursueSays, Zenon
  <2>2. CASE s # "worker"
    <3>1. Step(s, "connect") BY <1>4, <2>2, Zenon DEF AfterJob
    <3>2. QED BY <1>p, <2>2, <3>1, Saying, Zenon
  <2>3. QED BY <2>1, <2>2, Zenon
<1>5. CASE proc[s].pc = "mark" /\ ok
  <2>1. Send(s, "invoke", [proc[s] EXCEPT !.pc = "invoking"]) /\ proc[s].pc \notin WorkerPcs
    BY <1>5, Zenon DEF AfterJob, WorkerPcs
  <2>2. QED BY <1>s, <2>1, Zenon
<1>6. CASE proc[s].pc = "settle" /\ ok
  <2>1. Judge(s, proc[s].got) BY <1>6, Zenon DEF AfterJob
  <2>2. QED BY <1>p, <1>6, <2>1, Saying, Zenon
<1>7. QED BY <1>1, <1>2, <1>3, <1>4, <1>5, <1>6, Zenon DEF SourceJobs

(* Every step of the source says something of the kind.                       *)
LEMMA SourceSays == ASSUME Discipline, RecAgrees(rec), SourceStep PROVE \E s \in Senders : Says(s)
<1>e. "endpoint" \in Senders /\ "worker" \in Senders BY Zenon DEF Senders
<1>1. CASE Begin \/ Attempt BY <1>e, <1>1, AttemptSays, Zenon
<1>2. CASE Scan
  <2>1. Pursue(rec) \/ Send("worker", "prepare", [Idle EXCEPT !.pc = "preparing"])
    BY <1>2, Zenon DEF Scan
  <2>2. [Idle EXCEPT !.pc = "preparing"].pc = "preparing" BY Zenon DEF Idle
  <2>3. QED BY <1>e, <2>1, <2>2, PursueSays, Saying, Zenon DEF WorkerPcs
<1>3. ASSUME NEW s \in Senders, Inspect(s) PROVE Says(s)
  <2>1. proc[s].pc = "inspect" BY <1>3, Zenon DEF Inspect, At
  <2>2. \/ rec.terminal # None /\ Judge(s, rec.terminal)
        \/ Ends(s, Unknown)
        \/ Send(s, "inspect", [proc[s] EXCEPT !.pc = "inspecting"])
    BY <1>3, Zenon DEF Inspect
  <2>3. PICK p : p = [proc[s] EXCEPT !.pc = "inspecting"] BY Zenon
  <2>4. p.pc = "inspecting" BY <2>3, Zenon DEF Discipline, IsProc, Idle
  <2>5. CASE Send(s, "inspect", p) BY <2>1, <2>4, <2>5, Saying, Zenon DEF WorkerPcs
  <2>6. QED BY <2>1, <2>2, <2>3, <2>5, Saying, Zenon DEF Answering
<1>4. ASSUME NEW s \in Senders, Job(s) PROVE Says(s)
  <2>1. proc[s].pc \in SourceJobs /\ \E ok : AfterJob(s, ok) BY <1>4, Zenon DEF Job
  <2>2. QED BY <2>1, JobSays, Zenon
<1>5. ASSUME NEW s \in Senders, Failed(s) \/ GiveUp(s) PROVE Says(s)
  <2>1. proc[s].pc # "idle" /\ Ends(s, Unknown)
    BY <1>5, Zenon DEF Failed, GiveUp, At, Waits, SourceJobs
  <2>2. QED BY <2>1, Saying, Zenon DEF Answering
<1>6. ASSUME NEW s \in Senders, Inspected(s) PROVE Says(s)
  <2>1. proc[s].pc = "inspected" /\ (Step(s, "settle") \/ Judge(s, proc[s].got))
    BY <1>6, Zenon DEF Inspected, At
  <2>2. QED BY <2>1, Saying, Zenon DEF WorkerPcs
<1>7. QED BY <1>1, <1>2, <1>3, <1>4, <1>5, <1>6, Zenon DEF SourceStep

(* A result is handed on only for a receipt that proves it.                   *)
Grounded ==
  \A u \in Senders : proc'[u].pc = "release" =>
                       \/ proc'[u] = proc[u]
                       \/ \E i : Founded(u, i) /\ proc'[u].got = i.result

(* So it is with every process that says something.                           *)
LEMMA SaysGrounded == ASSUME NEW s \in Senders, Says(s) PROVE Grounded
BY Zenon DEF Says, Grounded

(* So it is enough that what is on the way next is true now.                  *)
LEMMA WayKept ==
  ASSUME Lasting,
         \A u \in Senders :
           /\ Carried(proc'[u])
           /\ proc'[u].pc = "inspecting" /\ reply'[u] \notin {None, Refused} => TrueOf(reply'[u]),
         \A j \in left' : j.pc = "settle" => TrueOf(j.got)
  PROVE  OnTheWay'
<1>1. (\A i : TrueOf(i) => TrueOf(i)') /\ (\A v : Returned(v) => Returned(v)') BY StaysTrue, Zenon
<1>2. \A u \in Senders : /\ Carried(proc[u])'
                         /\ proc'[u].pc = "inspecting" /\ reply'[u] \notin {None, Refused} => TrueOf(reply[u])'
  BY <1>1, Zenon DEF Carried, TrueOf, Returned
<1>3. \A j \in left' : j.pc = "settle" => TrueOf(j.got)'
  BY <1>1, Zenon
<1>4. QED BY <1>2, <1>3, Zenon DEF OnTheWay

(* A process takes what was told to it, and hands that on.                    *)
LEMMA TakenTrue ==
  ASSUME IInv, Discipline, OnTheWay, NEW s \in Senders, Take(s), Lasting
  PROVE  OnTheWay'
<1> DEFINE p == AfterReply(s, reply[s])
<1>s. s \in Slots /\ Senders \subseteq Slots BY SlotAssumption, Zenon
<1>1. /\ reply[s] # None /\ proc[s].pc \in Waits /\ left' = left
      /\ reply' = [reply EXCEPT ![s] = None] /\ proc' = [proc EXCEPT ![s] = p]
  BY Zenon DEF Take
<1>2. ASSUME p.pc \in {"inspected", "settle", "inspecting", "release"} PROVE p.pc = "inspected" /\ TrueOf(p.got)
  <2>i. proc[s] = [f \in DOMAIN Idle |-> proc[s][f]] BY Zenon DEF Discipline, IsProc
  <2>1. CASE reply[s] = Refused
    <3>1. p.pc = "failed" BY <2>1, Zenon DEF AfterReply, Idle
    <3>2. QED BY <1>2, <3>1, Zenon
  <2>2. CASE reply[s] # Refused /\ proc[s].pc # "inspecting"
    <3>1. p.pc \in {"bind", "ack", "inspect"}
      BY <1>1, <2>i, <2>2, ZenonT(30) DEF AfterReply, Idle, Waits
    <3>2. QED BY <1>2, <3>1, Zenon
  <2>3. CASE reply[s] # Refused /\ proc[s].pc = "inspecting"
    <3>1. p = [proc[s] EXCEPT !.pc = "inspected", !.got = reply[s]]
      BY <2>3, Zenon DEF AfterReply
    <3>2. p.pc = "inspected" /\ p.got = reply[s]
      BY <2>i, <3>1, Zenon DEF Idle
    <3>3. TrueOf(reply[s]) BY <1>1, <2>3, Zenon DEF OnTheWay
    <3>4. QED BY <3>2, <3>3, Zenon
  <2>4. QED BY <2>1, <2>2, <2>3, Zenon
<1> HIDE DEF p
<1>3. proc'[s] = p BY <1>1, Zenon DEF Discipline
<1>4. ASSUME NEW u \in Senders, u # s PROVE proc'[u] = proc[u] /\ reply'[u] = reply[u]
  BY <1>s, <1>1, <1>4, Zenon DEF Discipline
<1>5. ASSUME NEW u \in Senders
      PROVE  /\ Carried(proc'[u])
             /\ proc'[u].pc = "inspecting" /\ reply'[u] \notin {None, Refused} => TrueOf(reply'[u])
  <2>1. CASE u = s BY <1>2, <1>3, <2>1, Zenon DEF Carried
  <2>2. CASE u # s BY <1>4, <2>2, Zenon DEF OnTheWay
  <2>3. QED BY <2>1, <2>2, Zenon
<1>6. \A j \in left' : j.pc = "settle" => TrueOf(j.got)
  BY <1>1, Zenon DEF OnTheWay
<1>7. \A u \in Senders :
        /\ Carried(proc'[u])
        /\ proc'[u].pc = "inspecting" /\ reply'[u] \notin {None, Refused} => TrueOf(reply'[u])
  BY <1>5, Zenon
<1>8. QED BY <1>6, <1>7, WayKept, Zenon

(* A process that moves has no answer to an inspection it has just sent.      *)
LEMMA MovedTrue ==
  ASSUME IInv, Discipline, OnTheWay, Kept, NEW s \in Senders, Moved(s), Grounded, Lasting
  PROVE  OnTheWay'
<1>o. PICK p :
         /\ proc' = [proc EXCEPT ![s] = p] /\ IsProc(p)
         /\ \/ rpc' = rpc /\ p.pc = "idle"
            \/ /\ rpc' = rpc /\ rpc[s] = "none" /\ p.pc \notin Waits
               /\ p.pc \in Carry => p.pc = "settle" /\ proc[s].pc = "inspected" /\ p.got = proc[s].got
            \/ /\ rpc[s] = "none" /\ p.pc \in Waits
               /\ \E k \in {"prepare", "inspect", "invoke", "cancel"} :
                    rpc' = [rpc EXCEPT ![s] = k] /\ (p.pc = "inspecting" => k = "inspect")
  BY ZenonT(30) DEF Moved, Onward
<1>1. /\ proc' = [proc EXCEPT ![s] = p]
      /\ p.pc \in Carry => p.pc = "settle" /\ proc[s].pc = "inspected" /\ p.got = proc[s].got
      /\ p.pc = "inspecting" => rpc[s] = "none"
  BY <1>o, Zenon DEF Waits, Carry
<1>2. proc'[s] = p /\ \A u \in Senders \ {s} : proc'[u] = proc[u]
  BY <1>1, Zenon DEF Discipline
<1>3. reply' = reply BY Zenon DEF Moved
<1>4. p.pc = "inspecting" => reply[s] = None
  BY <1>1, Zenon DEF Discipline, SessionOk
<1>5. Carried(p)
  <2>1. p.pc \in {"inspected", "settle"} => TrueOf(p.got)
    BY <1>1, Zenon DEF Carry, OnTheWay, Carried
  <2>2. ASSUME p.pc = "release" PROVE p.got # None /\ Returned(p.got)
    <3>1. CASE proc'[s] = proc[s] BY <1>2, <2>2, <3>1, Zenon DEF OnTheWay, Carried
    <3>2. ASSUME NEW i, Founded(s, i), p.got = i.result PROVE p.got # None /\ Returned(p.got)
      <4>1. TrueOf(i) /\ i.result # None
        BY <3>2, Zenon DEF Founded, Proven, OnTheWay, Carried, Kept
      <4>2. QED BY <3>2, <4>1, Zenon DEF TrueOf
    <3>3. QED BY <1>2, <2>2, <3>1, <3>2, Zenon DEF Grounded
  <2>3. QED BY <2>1, <2>2, Zenon DEF Carried
<1>6. \A u \in Senders :
        /\ Carried(proc'[u])
        /\ proc'[u].pc = "inspecting" /\ reply'[u] \notin {None, Refused} => TrueOf(reply'[u])
  BY <1>2, <1>3, <1>4, <1>5, Zenon DEF OnTheWay
<1>7. \A j \in left' : j.pc = "settle" => TrueOf(j.got)
  BY Zenon DEF Moved, OnTheWay, Carried
<1>8. QED BY <1>6, <1>7, WayKept, Zenon

(* What an inspecting process is answered is an inspection.                   *)
LEMMA RepliesTrue ==
  ASSUME OnTheWay, Lasting, UNCHANGED proc, left' \subseteq left,
         \A u \in Senders : proc[u].pc = "inspecting" => reply'[u] \in {reply[u], None, Refused} \/ TrueOf(reply'[u])
  PROVE  OnTheWay'
<1>1. \A u \in Senders :
        /\ Carried(proc'[u])
        /\ proc'[u].pc = "inspecting" /\ reply'[u] \notin {None, Refused} => TrueOf(reply'[u])
  BY Zenon DEF OnTheWay
<1>2. \A j \in left' : j.pc = "settle" => TrueOf(j.got)
  BY Zenon DEF OnTheWay
<1>3. QED BY <1>1, <1>2, WayKept, Zenon

(* Every step keeps what is on the way true.                                  *)
LEMMA KeepsWay ==
  ASSUME IInv, Discipline, RecAgrees(rec), TargetTruth, OnTheWay, Kept, Lasting, [Next]_vars
  PROVE  OnTheWay'
<1> USE DEF sourceVars, hostVars
<1>1. CASE SourceStep
  BY <1>1, SourceMoves, MovedTrue, SourceSays, SaysGrounded, Zenon
<1>2. CASE Elsewhere
  BY <1>2, ElsewhereKeeps, RepliesTrue, Zenon
<1>3. CASE CrashSource
  <2>1. proc' = [s \in Senders |-> Idle] /\ left' = {} BY <1>3, Zenon DEF CrashSource
  <2>2. \A u \in Senders : proc'[u].pc = "idle" BY <2>1, Zenon DEF Idle
  <2>3. \A u \in Senders : Carried(proc'[u]) BY <2>2, Zenon DEF Carried
  <2>4. QED BY <2>1, <2>2, <2>3, WayKept, Zenon
<1>4. CASE CrashTarget
  BY <1>4, RepliesTrue, Zenon DEF CrashTarget, TargetCrash, Fault
<1>5. ASSUME NEW h \in Slots, Target(HandlerStep(h)) \/ (StoreFault /\ HandlerTimeout(h)) PROVE OnTheWay'
  <2>1. Handled(h) /\ UNCHANGED <<proc, left>>
    BY <1>5, HandlerMoves, Zenon DEF Target, StoreFault, Fault
  <2>2. ASSUME NEW u \in Senders, proc[u].pc = "inspecting" PROVE reply'[u] = reply[u]
    <3>1. u # h /\ u \in Slots
      BY <2>1, <2>2, SlotAssumption, Zenon DEF Handled, Discipline, SessionOk
    <3>2. reply' = reply \/ \E a : reply' = [reply EXCEPT ![h] = a] BY <2>1, Zenon DEF Handled
    <3>3. QED BY <3>1, <3>2, Zenon DEF Discipline
  <2>3. QED BY <2>1, <2>2, RepliesTrue, Zenon
<1>6. CASE (\E j \in left : LeftJob(j)) \/ LatePrepare
  BY <1>6, RepliesTrue, Zenon DEF LeftJob, LatePrepare, targetVars, bridgeVars
<1>7. ASSUME NEW s \in Senders, Wire(s) PROVE OnTheWay'
  <2>1. UNCHANGED <<proc, left>>
    BY <1>7, Zenon DEF Wire, Serve, Arrive, Vanish, Linger
  <2>2. reply' = reply \/ \E a : reply' = [reply EXCEPT ![s] = a]
    BY <1>7, Zenon DEF Wire, Serve, Arrive, Vanish, Linger
  <2>3. \A u \in Senders \ {s} : reply'[u] = reply[u]
    BY <2>2, SlotAssumption, Zenon DEF Discipline
  <2>4. ASSUME proc[s].pc = "inspecting"
        PROVE  reply'[s] \in {reply[s], None, Refused} \/ TrueOf(reply'[s])
    <3>1. s \in Slots BY SlotAssumption, Zenon
    <3>2. CASE Serve(s)
      <4>1. rpc[s] = "inspect" BY <2>4, <3>2, Zenon DEF Serve, Discipline, SessionOk
      <4>2. PICK a : a \in {inspection(row), Refused} /\ reply' = [reply EXCEPT ![s] = a]
        BY <3>2, <4>1, Zenon DEF Serve
      <4>3. reply'[s] = a BY <3>1, <4>2, Zenon DEF Discipline
      <4>4. QED BY <4>2, <4>3, InspectionTrue, Zenon
    <3>3. CASE Vanish(s)
      BY <2>4, <3>3, Zenon DEF Vanish, Abandoned, Waits
    <3>4. CASE Arrive(s) \/ Linger(s)
      BY <3>4, Zenon DEF Arrive, Linger
    <3>5. QED BY <1>7, <3>2, <3>3, <3>4, Zenon DEF Wire
  <2>5. QED BY <2>1, <2>3, <2>4, RepliesTrue, Zenon
<1>8. QED BY <1>1, <1>2, <1>3, <1>4, <1>5, <1>6, <1>7, TakenTrue, StepKinds, SMTT(20)

(* A job of the source settles a call with what it was given, and ends its    *)
(* responsibility only by a terminal receipt.                                 *)
LEMMA JobKept ==
  ASSUME RecAgrees(rec), Kept, NEW pc, NEW got, NEW at, SourceTxn(pc, got, at), pc = "settle" => TrueOf(got)
  PROVE  /\ rec'.terminal # None => TrueOf(rec'.terminal)
         /\ origin' \in {"Released", "Retired"} => Clean
<1>1. CASE pc = "origin"
  BY <1>1, Zenon DEF SourceTxn, bind_outbound_origin, Kept
<1>2. CASE pc = "release"
  <2>1. /\ rec' = rec
        /\ origin' = origin \/ (origin' = "Released" /\ rec.staged /\ responsibility_can_end(rec))
    BY <1>2, Zenon DEF SourceTxn, release_outbound_responsibility
  <2>2. ASSUME rec.staged, responsibility_can_end(rec) PROVE Clean
    <3>1. /\ rec.terminal # None /\ rec.terminal.stopped /\ ~rec.terminal.effects
          /\ rec.terminal.status \in {"Finished", "Closed"}
      BY <2>2, Restored, Zenon DEF responsibility_can_end, RecAgrees
    <3>2. TrueOf(rec.terminal) BY <3>1, Zenon DEF Kept
    <3>3. CASE rec.terminal.status = "Closed" BY <3>2, <3>3, Zenon DEF TrueOf, Clean
    <3>4. CASE rec.terminal.status = "Finished"
      <4>1. /\ \A t \in ran : out[t].effects = rec.terminal.effects
            /\ row.status = "Closed" \/ Halted
        BY <3>1, <3>2, <3>4, Zenon DEF TrueOf
      <4>2. \A t \in ran : ~out[t].effects BY <3>1, <4>1, Zenon
      <4>3. QED BY <4>1, <4>2, Zenon DEF Clean
    <3>5. QED BY <3>1, <3>3, <3>4, Zenon
  <2>3. QED BY <2>1, <2>2, Zenon DEF Kept
<1>3. CASE pc \notin {"origin", "release"}
  <2>1. rec' = SourceRec(pc, got, at) /\ origin' = origin BY <1>3, Zenon DEF SourceTxn
  <2>r. rec = [f \in DOMAIN NoRecord |-> rec[f]] BY Zenon DEF RecAgrees
  <2>2. CASE pc = "settle" /\ JobOk(pc, got, at)
    <3>1. rec' = settle_outbound(got) BY <2>1, <2>2, Zenon DEF SourceRec
    <3>2. rec'.terminal = got BY <2>r, <3>1, Zenon DEF settle_outbound, settle, NoRecord
    <3>3. QED BY <2>1, <2>2, <3>2, Zenon DEF Kept
  <2>3. CASE ~(pc = "settle" /\ JobOk(pc, got, at))
    <3>1. rec' \in {rec, stage_outbound, bind(rec, got), mark_invoke_possible(rec), record_outbound_cancellation(got)}
      BY <2>1, <2>3, Zenon DEF SourceRec
    <3>2. /\ stage_outbound.terminal \in {rec.terminal, None}
          /\ bind(rec, got).terminal = rec.terminal /\ mark_invoke_possible(rec).terminal = rec.terminal
          /\ record_outbound_cancellation(got).terminal = rec.terminal
      BY <2>r, Zenon DEF stage_outbound, bind, mark_invoke_possible, record_outbound_cancellation,
                  record_cancellation, NoRecord
    <3>3. rec'.terminal \in {rec.terminal, None} BY <3>1, <3>2, Zenon
    <3>4. QED BY <2>1, <3>3, Zenon DEF Kept
  <2>4. QED BY <2>2, <2>3, Zenon
<1>4. QED BY <1>1, <1>2, <1>3, Zenon

(* What the source has kept of a call is true and stays so.                   *)
LEMMA KeepsKept ==
  ASSUME SInv, OnTheWay, Kept, Lasting, [Next]_vars
  PROVE  Kept'
<1>r. RecAgrees(rec) BY Zenon DEF SInv
<1>1. /\ rec'.terminal # None => TrueOf(rec'.terminal)
      /\ origin' \in {"Released", "Retired"} => Clean
  <2>1. CASE UNCHANGED <<rec, origin>> BY <2>1, Zenon DEF Kept
  <2>2. ASSUME NEW s \in Senders, NEW at, SourceTxn(proc[s].pc, proc[s].got, at) PROVE <1>1
    BY <1>r, <2>2, JobKept, Zenon DEF OnTheWay, Carried
  <2>3. ASSUME NEW j \in left, NEW at, SourceTxn(j.pc, j.got, at) PROVE <1>1
    BY <1>r, <2>3, JobKept, Zenon DEF OnTheWay
  <2>4. CASE stage_outbound_cancellation
    <3>1. rec'.terminal = rec.terminal /\ origin' = origin
      BY <1>r, <2>4, Zenon DEF stage_outbound_cancellation, request_cancellation, RecAgrees, NoRecord
    <3>2. QED BY <3>1, Zenon DEF Kept
  <2>5. CASE retire_completed_outbound
    BY <2>5, Zenon DEF retire_completed_outbound, NoRecord, Kept
  <2>6. QED BY <2>1, <2>2, <2>3, <2>4, <2>5, RecordMoves, Zenon DEF RecMoves
<1>2. rec'.terminal # None => TrueOf(rec.terminal)'
  BY <1>1, StaysTrue, Zenon DEF TrueOf
<1>3. QED BY <1>1, <1>2, StaysTrue, Zenon DEF Kept

(* What the source keeps of a call, and what is on its way there, is true of  *)
(* what happened at the target.                                               *)
TInv == SInv /\ TargetTruth /\ OnTheWay /\ Kept

(* It holds at first, and every step keeps it.                                *)
LEMMA TruthInductive == (Init => TInv) /\ (TInv /\ [Next]_vars => TInv')
<1>1. ASSUME Init PROVE TInv
  <2>1. SInv BY <1>1, StoresInductive, Zenon
  <2>2. /\ out = [t \in Tasks |-> NoOutcome] /\ task = [t \in Tasks |-> "none"]
        /\ job = [t \in Tasks |-> "none"] /\ ran = {} /\ row = NoCall
    BY <1>1, Zenon DEF Init, BridgeInit, DirectoryInit
  <2>3. TargetTruth BY <2>2, Zenon DEF TargetTruth, NoCall, NoOutcome
  <2>4. proc = [s \in Senders |-> Idle] /\ left = {} /\ rec = NoRecord /\ origin = "Fresh"
    BY <1>1, Zenon DEF Init, SourceInit
  <2>5. OnTheWay BY <2>4, Zenon DEF OnTheWay, Carried, Idle
  <2>6. Kept BY <2>4, Zenon DEF Kept, NoRecord
  <2>7. QED BY <2>1, <2>3, <2>5, <2>6, Zenon DEF TInv
<1>2. ASSUME TInv, [Next]_vars PROVE TInv'
  <2>1. SInv' BY <1>2, StoresInductive, Zenon DEF TInv
  <2>2. TargetTruth' /\ Lasting BY <1>2, KeepsTruth, Zenon DEF TInv, SInv
  <2>3. OnTheWay' BY <1>2, <2>2, KeepsWay, Zenon DEF TInv, SInv
  <2>4. Kept' BY <1>2, <2>2, KeepsKept, Zenon DEF TInv
  <2>5. QED BY <2>1, <2>2, <2>3, <2>4, Zenon DEF TInv
<1>3. QED BY <1>1, <1>2, Zenon

(* settle_outbound and release_outbound_responsibility never record of a call *)
(* what is not so at the target, across crashes, lost answers and late jobs:  *)
(* a stop without a finished scope, or a release with effects unresolved.     *)
THEOREM LedgerIsTruthful == Spec => []LedgerTruthful
<1>1. TInv => LedgerTruthful
  <2>1. ASSUME TInv PROVE InvokeMarked
    BY <2>1, Zenon DEF TInv, SInv, IInv, Reached, Marked, InvokeMarked
  <2>2. ASSUME TInv PROVE row.status = "Closed" => ran = {}
    BY <2>2, TaskAssumption, Zenon DEF TInv, SInv, IInv, Owned, RowOk
  <2>3. QED BY <2>1, <2>2, Zenon DEF TInv, Kept, TrueOf, Clean, Halted, LedgerTruthful
<1>2. QED BY <1>1, TruthInductive, PTL DEF Spec

----------------------------------------------------------------------------
(* The promise.  A refusal is given while nothing of an Invoke has reached    *)
(* the target, and nothing can until the kernel asks again; a call that was   *)
(* retired is the exception, since its record is gone.                        *)
Unreached == ~Reached \/ origin = "Retired"
RefusalsHold ==
  /\ proc["worker"].pc \in WorkerPcs
  /\ proc["endpoint"].pc = "validate" => proc["endpoint"].replay \/ Unreached
  /\ told = Refused => proc["endpoint"].pc = "idle" /\ Unreached
OutcomesOk == setup \in Setups /\ \A t \in Tasks : out[t] \in Outcomes \cup {NoOutcome}

(* A retired call stays retired.                                              *)
LEMMA StaysRetired == ASSUME [Next]_vars, origin = "Retired" PROVE origin' = "Retired"
<1>1. ASSUME NEW pc, NEW got, NEW at, SourceTxn(pc, got, at) PROVE origin' = "Retired"
  BY <1>1, Zenon DEF SourceTxn, bind_outbound_origin, release_outbound_responsibility
<1>2. QED
  BY <1>1, RecordMoves, Zenon DEF RecMoves, stage_outbound_cancellation, retire_completed_outbound

(* An answer is given by a process of the source, or lost in its crash; no    *)
(* other step but the arrival of a reply moves a process.                     *)
LEMMA Utterances ==
  ASSUME Discipline, RecAgrees(rec), [Next]_vars
  PROVE  \/ UNCHANGED <<row, ran, out>> /\ \E s \in Senders : Says(s)
         \/ /\ UNCHANGED <<row, ran, out>> /\ told' \in {told, Unknown}
            /\ \A s \in Senders : proc'[s].pc = "idle"
         \/ /\ told' = told
            /\ \A s \in Senders : \/ proc'[s] = proc[s]
                                  \/ proc[s].pc # "idle" /\ proc'[s].pc \in WorkerPcs \ {"idle"}
<1> USE DEF vars, targetVars, directoryVars, bridgeVars, taskVars, sourceVars, hostVars
<1>1. CASE SourceStep
  <2>1. UNCHANGED <<row, ran, out>>
    BY <1>1, Zenon DEF SourceStep, Begin, Attempt, Validate, Existing, Connect, Scan, Inspect, Job,
                       Failed, Inspected, GiveUp, Read, Local
  <2>2. QED BY <1>1, <2>1, SourceSays, Zenon
<1>2. CASE CrashSource
  <2>1. UNCHANGED <<row, ran, out>> /\ told' \in {told, Unknown} /\ proc' = [s \in Senders |-> Idle]
    BY <1>2, Zenon DEF CrashSource
  <2>2. Idle.pc = "idle" BY Zenon DEF Idle
  <2>3. QED BY <2>1, <2>2, Zenon
<1>3. ASSUME NEW s \in Senders, Take(s)
      PROVE  /\ told' = told /\ \A u \in Senders \ {s} : proc'[u] = proc[u]
             /\ proc[s].pc # "idle" /\ proc'[s].pc \in WorkerPcs \ {"idle"}
  <2>1. /\ told' = told /\ proc[s].pc \in Waits
        /\ proc' = [proc EXCEPT ![s] = AfterReply(s, reply[s])]
    BY <1>3, Zenon DEF Take
  <2>2. /\ proc'[s] = AfterReply(s, reply[s])
        /\ \A u \in Senders \ {s} : proc'[u] = proc[u]
    BY <2>1, Zenon DEF Discipline
  <2>3. AfterReply(s, reply[s]).pc \in {"failed", "bind", "ack", "inspect", "inspected"}
    <3>1. proc[s] = [f \in DOMAIN Idle |-> proc[s][f]] BY Zenon DEF Discipline, IsProc
    <3>2. QED BY <3>1, ZenonT(30) DEF AfterReply, Idle
  <2>4. QED BY <2>1, <2>2, <2>3, Zenon DEF Waits, WorkerPcs
<1>4. CASE UNCHANGED <<proc, told>>
  BY <1>4, Zenon
<1>5. CASE Elsewhere
  <2>1. UNCHANGED proc BY <1>5, ElsewhereKeeps, Zenon
  <2>2. UNCHANGED told
    BY <1>5, Zenon DEF Elsewhere, Target, StoreFault, Operate, CancelOperation, Maintain, Time, Directory, Source
  <2>3. QED BY <1>4, <2>1, <2>2, Zenon
<1>6. CASE \/ CrashTarget
           \/ \E s \in Senders : Wire(s)
           \/ \E h \in Slots : Target(HandlerStep(h)) \/ (StoreFault /\ HandlerTimeout(h))
           \/ \E j \in left : LeftJob(j)
           \/ LatePrepare
  <2>1. UNCHANGED <<proc, told>>
    BY <1>6, Zenon DEF CrashTarget, Wire, Serve, Arrive, Vanish, Linger, Target, StoreFault, LeftJob, LatePrepare
  <2>2. QED BY <1>4, <2>1, Zenon
<1>7. QED BY <1>1, <1>2, <1>3, <1>5, <1>6, StepKinds, Zenon

(* A program ends with one of the outcomes of the setup.                      *)
LEMMA OutcomesKept == ASSUME IInv, TargetTruth, OutcomesOk, [Next]_vars PROVE OutcomesOk'
<1>1. setup' = setup
  <2> USE DEF vars, targetVars, directoryVars, bridgeVars, taskVars, sourceVars, hostVars
  <2>1. CASE SourceStep
    BY <2>1, Zenon DEF SourceStep, Begin, Attempt, Validate, Existing, Connect, Scan, Inspect, Job,
                       Failed, Inspected, GiveUp, Read, Local
  <2>2. CASE Elsewhere
    BY <2>2, Zenon DEF Elsewhere, Target, StoreFault, Fault, Operate, CancelOperation, Maintain, Time,
                       Directory, Source
  <2>3. CASE \/ CrashSource \/ CrashTarget
             \/ \E s \in Senders : Take(s) \/ Wire(s)
             \/ \E h \in Slots : Target(HandlerStep(h)) \/ (StoreFault /\ HandlerTimeout(h))
             \/ \E j \in left : LeftJob(j)
             \/ LatePrepare
    BY <2>3, Zenon DEF CrashSource, CrashTarget, Take, Wire, Serve, Arrive, Vanish, Linger, Target,
                       StoreFault, Fault, LeftJob, LatePrepare
  <2>4. QED BY <2>1, <2>2, <2>3, StepKinds, Zenon
<1>2. out' = out \/ \E t \in Tasks : \E o \in setup.ends : out' = [out EXCEPT ![t] = o]
  <2>1. ASSUME NEW t \in Tasks, Ending(t) \/ Starting(t) \/ Admit(t) \/ JobStep(t) \/ JobFails(t)
        PROVE  out' = out
    BY <2>1, Zenon DEF Ending, Starting, Admit, JobStep, Bind, Authorize, Accept, Stop, Publish, JobTxn, JobFails
  <2>2. ASSUME NEW t \in Tasks, Finish(t, setup.ends)
        PROVE  \E o \in setup.ends : out' = [out EXCEPT ![t] = o]
    BY <2>2, Zenon DEF Finish
  <2>3. QED BY <2>1, <2>2, TaskKinds, Zenon DEF taskVars, TargetCrash
<1>3. \A t \in Tasks : out'[t] \in Outcomes \cup {NoOutcome}
  <2>1. CASE out' = out BY <2>1, Zenon DEF OutcomesOk
  <2>2. ASSUME NEW t \in Tasks, NEW o \in setup.ends, out' = [out EXCEPT ![t] = o] PROVE <1>3
    <3>1. o \in Outcomes BY EndsAssumption, Zenon DEF OutcomesOk
    <3>2. QED BY <2>2, <3>1, Zenon DEF OutcomesOk, TargetTruth
  <2>3. QED BY <1>2, <2>1, <2>2, Zenon
<1>4. QED BY <1>1, <1>3, Zenon DEF OutcomesOk

(* Refusals hold through every step.                                          *)
LEMMA RefusalsKept ==
  ASSUME TInv, OutcomesOk, RefusalsHold, [Next]_vars
  PROVE  RefusalsHold'
<1>d. Discipline /\ RecAgrees(rec) /\ IInv /\ OnTheWay BY Zenon DEF TInv, SInv
<1>e. "endpoint" \in Senders /\ "worker" \in Senders /\ "endpoint" # "worker" BY Zenon DEF Senders
<1>1. Sends => proc["endpoint"].pc = "mark" /\ told' = told
  <2>1. proc["worker"].pc # "mark" BY Zenon DEF RefusalsHold, WorkerPcs
  <2>2. QED BY <2>1, Zenon DEF Sends, Senders
<1>2. ~Sends /\ Unreached => Unreached'
  BY <1>d, StepsSafe, StaysRetired, Zenon DEF Safe, Unreached
<1>3. ~rec.invoke => Unreached
  BY <1>d, Zenon DEF IInv, Marked, Unreached
<1>4. ASSUME NEW v, Returned(v) PROVE v # Refused
  <2>1. PICK t \in ran : out[t].value = v BY <1>4, Zenon DEF Returned, AllOver
  <2>2. out[t] \in Outcomes \cup {NoOutcome} BY <1>d, Zenon DEF OutcomesOk, IInv, Owned
  <2>3. NoOutcome.value = None BY Zenon DEF NoOutcome
  <2>4. QED BY <2>1, <2>2, <2>3, AnswerAssumption, Zenon
<1>5. ASSUME told' = told, proc'["endpoint"] = proc["endpoint"]
      PROVE  /\ proc'["endpoint"].pc = "validate" => proc'["endpoint"].replay \/ Unreached'
             /\ told' = Refused => proc'["endpoint"].pc = "idle" /\ Unreached'
  BY <1>1, <1>2, <1>5, Zenon DEF RefusalsHold
<1>6. ASSUME Says("worker") PROVE RefusalsHold'
  <2>1. told' = told /\ proc'["endpoint"] = proc["endpoint"] /\ proc'["worker"].pc \in WorkerPcs
    BY <1>e, <1>6, Zenon DEF Says, RefusalsHold
  <2>2. QED BY <1>5, <2>1, Zenon DEF RefusalsHold
<1>7. ASSUME Says("endpoint") PROVE RefusalsHold'
  <2>1. proc'["worker"].pc \in WorkerPcs BY <1>e, <1>7, Zenon DEF Says, RefusalsHold
  <2>2. ASSUME proc'["endpoint"].pc = "validate" PROVE proc'["endpoint"].replay \/ Unreached'
    <3>1. proc["endpoint"].pc = "idle" /\ (proc'["endpoint"].replay \/ ~rec.invoke)
      BY <1>7, <2>2, Zenon DEF Says
    <3>2. QED BY <1>1, <1>2, <1>3, <3>1, Zenon
  <2>3. ASSUME told' = Refused PROVE proc'["endpoint"].pc = "idle" /\ Unreached'
    <3>1. ~(told' \in {None, Unknown}) BY <2>3, AnswerAssumption, Zenon
    <3>2. told = Refused => proc["endpoint"].pc = "idle" BY Zenon DEF RefusalsHold
    <3>3. Answering("endpoint", Refused) /\ proc'["endpoint"].pc = "idle"
      BY <1>7, <2>3, <3>1, <3>2, Zenon DEF Says
    <3>4. ~Sends BY <1>1, <2>3, <3>2, Zenon
    <3>5. Unasked
      <4>1. proc["endpoint"].pc = "release" => Returned(proc["endpoint"].got)
        BY <1>d, <1>e, Zenon DEF OnTheWay, Carried
      <4>2. QED BY <1>4, <2>3, <3>1, <3>3, <4>1, Zenon DEF Answering
    <3>6. Unreached BY <1>3, <3>5, Zenon DEF Unasked, RefusalsHold
    <3>7. QED BY <1>2, <3>3, <3>4, <3>6, Zenon
  <2>4. QED BY <2>1, <2>2, <2>3, Zenon DEF RefusalsHold
<1>8. ASSUME told' \in {told, Unknown}, \A s \in Senders : proc'[s].pc = "idle" PROVE RefusalsHold'
  <2>1. proc'["endpoint"].pc = "idle" /\ proc'["worker"].pc = "idle" BY <1>e, <1>8, Zenon
  <2>2. told' = Refused => told = Refused BY <1>8, AnswerAssumption, Zenon
  <2>3. told' = Refused => Unreached' BY <1>1, <1>2, <2>2, Zenon DEF RefusalsHold
  <2>4. QED BY <2>1, <2>3, Zenon DEF RefusalsHold, WorkerPcs
<1>9. ASSUME told' = told,
             \A s \in Senders : \/ proc'[s] = proc[s]
                                \/ proc[s].pc # "idle" /\ proc'[s].pc \in WorkerPcs \ {"idle"}
      PROVE  RefusalsHold'
  <2>1. proc'["worker"].pc \in WorkerPcs BY <1>e, <1>9, Zenon DEF RefusalsHold
  <2>2. CASE proc'["endpoint"] = proc["endpoint"]
    BY <1>5, <1>9, <2>1, <2>2, Zenon DEF RefusalsHold
  <2>3. CASE proc["endpoint"].pc # "idle" /\ proc'["endpoint"].pc \in WorkerPcs
    <3>1. proc'["endpoint"].pc # "validate" BY <2>3, Zenon DEF WorkerPcs
    <3>2. told' # Refused BY <1>9, <2>3, Zenon DEF RefusalsHold
    <3>3. QED BY <2>1, <3>1, <3>2, Zenon DEF RefusalsHold
  <2>4. QED BY <1>e, <1>9, <2>2, <2>3, Zenon
<1>10. QED BY <1>d, <1>6, <1>7, <1>8, <1>9, Utterances, Zenon DEF Senders

(* With it, everything the caller is told is true.                            *)
CInv == TInv /\ OutcomesOk /\ RefusalsHold

(* It holds at first, and every step keeps it.                                *)
LEMMA PromiseInductive == (Init => CInv) /\ (CInv /\ [Next]_vars => CInv')
<1>1. ASSUME Init PROVE CInv
  <2>1. TInv BY <1>1, TruthInductive, Zenon
  <2>2. /\ out = [t \in Tasks |-> NoOutcome] /\ setup \in Setups /\ told = None
        /\ proc = [s \in Senders |-> Idle]
    BY <1>1, Zenon DEF Init, BridgeInit
  <2>3. OutcomesOk BY <2>2, Zenon DEF OutcomesOk
  <2>4. Idle.pc = "idle" BY Zenon DEF Idle
  <2>5. \A s \in Senders : proc[s].pc = "idle" BY <2>2, <2>4, Zenon
  <2>6. proc["endpoint"].pc = "idle" /\ proc["worker"].pc = "idle" BY <2>5, Zenon DEF Senders
  <2>7. RefusalsHold BY <2>2, <2>6, AnswerAssumption, Zenon DEF RefusalsHold, WorkerPcs
  <2>8. QED BY <2>1, <2>3, <2>7, Zenon DEF CInv
<1>2. ASSUME CInv, [Next]_vars PROVE CInv'
  <2>1. TInv' BY <1>2, TruthInductive, Zenon DEF CInv
  <2>2. OutcomesOk' BY <1>2, OutcomesKept, Zenon DEF CInv, TInv, SInv
  <2>3. RefusalsHold' BY <1>2, RefusalsKept, Zenon DEF CInv
  <2>4. QED BY <2>1, <2>2, <2>3, Zenon DEF CInv
<1>3. QED BY <1>1, <1>2, Zenon

(* A refusal is the truth, of a call that was not retired: InvalidAnswer and  *)
(* OfflineAnswer end no attempt at a program that has run, whatever Invoke of *)
(* an earlier attempt is on the wire, in a session or in a job.               *)
THEOREM RefusalIsTruthful == Spec => [](origin # "Retired" => RefusedNeverRan)
<1>1. CInv => (origin # "Retired" => RefusedNeverRan)
  BY Zenon DEF CInv, RefusalsHold, Unreached, Reached, RefusedNeverRan
<1>2. QED BY <1>1, PromiseInductive, PTL DEF Spec

(* What the program has returned, for the tasks that ran.                     *)
Value(r, o) == IF \E t \in r : o[t].value # None
               THEN (CHOOSE x \in {o[t] : t \in r} : x.value # None).value ELSE None

(* One task is one run.                                                       *)
LEMMA OneRun == ASSUME NEW c PROVE Cardinality({c}) = 1
<1> DEFINE step(f) == [T \in SUBSET {c} |-> IF T = {} THEN 0 ELSE 1 + f[T \ {CHOOSE x : x \in T}]]
           count == CHOOSE f : f = step(f)
           one == [T \in SUBSET {c} |-> IF T = {} THEN 0 ELSE 1]
<1>1. \A T \in SUBSET {c} : T # {} => T = {c} /\ T \ {CHOOSE x : x \in T} = {}
  BY Zenon
<1>2. one = step(one) BY <1>1
<1>3. count = step(count) BY <1>2, Zenon
<1>4. Cardinality({c}) = count[{c}] BY Zenon DEF Cardinality
<1> HIDE DEF count
<1>5. count[{}] = 0 BY <1>3, Zenon
<1>6. count[{c}] = 1 + count[{}] BY <1>1, <1>3
<1> QED BY <1>4, <1>5, <1>6

(* How often a program ran and what it returned, when it ran once at most.    *)
LEMMA Mapped ==
  ASSUME NEW r, NEW o, \A t, u \in r : t = u
  PROVE  /\ r = {} => Cardinality(r) = 0 /\ Value(r, o) = None
         /\ \A t \in r : Cardinality(r) = 1 /\ Value(r, o) = o[t].value
<1>1. Cardinality({}) = 0 BY Zenon DEF Cardinality
<1>2. r = {} => Value(r, o) = None BY Zenon DEF Value
<1>3. ASSUME NEW t \in r PROVE Cardinality(r) = 1 /\ Value(r, o) = o[t].value
  <2>1. r = {t} BY Zenon
  <2>2. Cardinality(r) = 1 BY <2>1, OneRun, Zenon
  <2>3. \A x \in {o[u] : u \in r} : x = o[t] BY Zenon
  <2>4. CASE o[t].value # None
    <3>1. o[t] \in {o[u] : u \in r} BY Zenon
    <3>2. (CHOOSE x \in {o[u] : u \in r} : x.value # None) = o[t] BY <2>3, <2>4, <3>1, Zenon
    <3>3. QED BY <2>2, <2>4, <3>2, Zenon DEF Value
  <2>5. CASE o[t].value = None
    <3>1. ~\E u \in r : o[u].value # None BY <2>1, <2>5, Zenon
    <3>2. QED BY <2>2, <2>5, <3>1, Zenon DEF Value
  <2>6. QED BY <2>4, <2>5, Zenon
<1>4. QED BY <1>1, <1>2, <1>3, Zenon

(* A step of the call as its caller sees it, or nothing to see.               *)
PromiseStep == Promise!CallNext \/ UNCHANGED Promise!callVars
Unretired == origin # "Retired"

(* How the five steps of a promise are recognised.                            *)
LEMMA PromiseSteps ==
  ASSUME NEW n, n = Cardinality(ran), NEW m, m = Cardinality(ran'),
         NEW v, v = Value(ran, out), NEW w, w = Value(ran', out')
  PROVE  /\ /\ m = n /\ w = v /\ (row'.status = "Closed" <=> row.status = "Closed")
            /\ \/ told' \in {told, None, Unknown} \/ (told' = Refused /\ n = 0)
               \/ v # None /\ told' = v
            => PromiseStep
         /\ /\ told' = told /\ row'.status = row.status /\ n = 0 /\ row.status # "Closed"
            /\ told # Refused /\ m = 1 /\ w = v
            => PromiseStep
         /\ /\ told' = told /\ row'.status = row.status /\ n = 1 /\ m = n /\ v = None
            /\ w \in {o.value : o \in Outcomes}
            => PromiseStep
         /\ /\ told' = told /\ n = 0 /\ m = n /\ w = v /\ row'.status = "Closed"
            => PromiseStep
<1> USE DEF Value
<1>1. ASSUME m = n, w = v, row'.status = "Closed" <=> row.status = "Closed"
      PROVE  /\ told' = told => UNCHANGED Promise!callVars
             /\ told' = None => Promise!Ask
             /\ told' = Unknown \/ (told' = Refused /\ n = 0) \/ (v # None /\ told' = v) => Promise!Tell
  BY <1>1, Zenon DEF Promise!callVars, Promise!Ask, Promise!Tell
<1>2. ASSUME told' = told, row'.status = row.status, n = 0, row.status # "Closed", told # Refused,
             m = 1, w = v
      PROVE  Promise!Run
  BY <1>2, Zenon DEF Promise!Run
<1>3. ASSUME told' = told, row'.status = row.status, n = 1, m = n, v = None,
             w \in {o.value : o \in Outcomes}
      PROVE  Promise!Return
  BY <1>3, Zenon DEF Promise!Return
<1>4. ASSUME told' = told, n = 0, m = n, w = v, row'.status = "Closed" PROVE Promise!CloseCall
  BY <1>4, Zenon DEF Promise!CloseCall
<1> HIDE DEF Value
<1>5. QED BY <1>1, <1>2, <1>3, <1>4, Zenon DEF PromiseStep, Promise!CallNext

(* Every step of the hosts is one of them.                                    *)
LEMMA Promised == ASSUME CInv, CInv', Unretired', [Next]_vars PROVE PromiseStep
<1>i. IInv /\ Discipline /\ RecAgrees(rec) /\ TargetTruth /\ OnTheWay /\ OutcomesOk
  BY Zenon DEF CInv, TInv, SInv
<1>l. Lasting BY <1>i, KeepsTruth, Zenon
<1>o. /\ \A t, u \in ran : t = u
      /\ \A t, u \in ran' : t = u
      /\ row'.status = "Closed" => ran' = {}
  <2>1. IInv => RunsOnce BY TaskAssumption, Zenon DEF IInv, Owned, RowOk, RunsOnce
  <2>2. IInv' => RunsOnce' BY TaskAssumption, Zenon DEF IInv, Owned, RowOk, RunsOnce
  <2>3. QED BY <1>i, <2>1, <2>2, Zenon DEF CInv, TInv, SInv, RunsOnce
<1>t. told' = Refused => ran' = {}
  BY Zenon DEF CInv, RefusalsHold, Unreached, Unretired, Reached
<1> DEFINE n == Cardinality(ran)
           m == Cardinality(ran')
           v == Value(ran, out)
           w == Value(ran', out')
<1>m. /\ ran = {} => n = 0 /\ v = None
      /\ \A t \in ran : n = 1 /\ v = out[t].value
      /\ ran' = {} => m = 0 /\ w = None
      /\ \A t \in ran' : m = 1 /\ w = out'[t].value
  BY <1>o, Mapped, Zenon
<1>e. UNCHANGED <<ran, out>> => m = n /\ w = v BY Zenon
<1>s. PICK a, b, c, d : a = n /\ b = m /\ c = v /\ d = w BY Zenon
<1>p. /\ /\ m = n /\ w = v /\ (row'.status = "Closed" <=> row.status = "Closed")
         /\ \/ told' \in {told, None, Unknown} \/ (told' = Refused /\ n = 0)
            \/ v # None /\ told' = v
         => PromiseStep
      /\ /\ told' = told /\ row'.status = row.status /\ n = 0 /\ row.status # "Closed"
         /\ told # Refused /\ m = 1 /\ w = v
         => PromiseStep
      /\ /\ told' = told /\ row'.status = row.status /\ n = 1 /\ m = n /\ v = None
         /\ w \in {o.value : o \in Outcomes}
         => PromiseStep
      /\ /\ told' = told /\ n = 0 /\ m = n /\ w = v /\ row'.status = "Closed"
         => PromiseStep
  BY <1>s, PromiseSteps, Zenon
<1> HIDE DEF n, m, v, w
<1>1. ASSUME UNCHANGED <<row, ran, out>>,
             (\E s \in Senders : Says(s)) \/ told' \in {told, Unknown}
      PROVE  PromiseStep
  <2>1. told' = Refused => n = 0 BY <1>1, <1>m, <1>t, Zenon
  <2>2. ASSUME proc["endpoint"].pc = "release" PROVE v # None /\ v = proc["endpoint"].got
    <3>1. proc["endpoint"].got # None /\ Returned(proc["endpoint"].got)
      BY <1>i, <2>2, Zenon DEF OnTheWay, Carried, Senders
    <3>2. QED BY <1>m, <3>1, Zenon DEF Returned, AllOver
  <2>3. \/ told' \in {told, None, Unknown, Refused}
        \/ v # None /\ told' = v
    BY <1>1, <2>2, Zenon DEF Says, Answering, Senders
  <2>4. m = n /\ w = v /\ row'.status = row.status BY <1>1, <1>e, Zenon
  <2>5. QED BY <1>p, <2>1, <2>3, <2>4, Zenon
<1>2. ASSUME told' = told PROVE PromiseStep
  <2>1. ASSUME UNCHANGED <<ran, out>> PROVE PromiseStep
    <3>1. m = n /\ w = v BY <1>e, <2>1, Zenon
    <3>2. CASE row'.status = "Closed"
      BY <1>2, <1>m, <1>o, <1>p, <2>1, <3>1, <3>2, Zenon
    <3>3. CASE row'.status # "Closed"
      <4>1. row.status # "Closed" BY <1>l, <3>3, Zenon DEF Lasting
      <4>2. QED BY <1>2, <1>p, <3>1, <3>3, <4>1, Zenon
    <3>4. QED BY <3>2, <3>3, Zenon
  <2>2. ASSUME NEW t \in Tasks, Admit(t) PROVE PromiseStep
    <3>1. /\ task[t] = "admit" /\ job[t] = "ok" /\ ran' = ran \cup {t} /\ UNCHANGED <<row, out>>
      BY <2>2, Zenon DEF Admit, Advance, directoryVars
    <3>2. t \notin ran /\ out[t].value = None BY <1>i, <3>1, Zenon DEF TargetTruth, Over
    <3>3. ran = {} BY <1>i, <3>1, <3>2, OneRan, Zenon
    <3>4. n = 0 /\ v = None /\ m = 1 /\ w = None BY <1>m, <3>1, <3>2, <3>3, Zenon
    <3>5. row.status # "Closed" /\ told # Refused BY <1>2, <1>o, <1>t, <3>1, Zenon
    <3>6. QED BY <1>2, <1>p, <3>1, <3>4, <3>5, Zenon
  <2>3. ASSUME NEW t \in Tasks, Finish(t, setup.ends) PROVE PromiseStep
    <3>1. PICK o \in setup.ends : out' = [out EXCEPT ![t] = o] BY <2>3, Zenon DEF Finish
    <3>2. task[t] = "eval" /\ UNCHANGED <<row, ran>> BY <2>3, Zenon DEF Finish, Advance, directoryVars
    <3>3. t \in ran /\ out[t].value = None BY <1>i, <3>2, Zenon DEF TargetTruth, Over
    <3>4. o \in Outcomes BY <1>i, EndsAssumption, Zenon DEF OutcomesOk
    <3>5. out'[t] = o BY <1>i, <3>1, Zenon DEF TargetTruth
    <3>6. n = 1 /\ v = None /\ m = 1 /\ w = o.value BY <1>m, <3>2, <3>3, <3>5, Zenon
    <3>7. w \in {x.value : x \in Outcomes} BY <3>4, <3>6, Zenon
    <3>8. QED BY <1>2, <1>p, <3>2, <3>6, <3>7, Zenon
  <2>4. ASSUME NEW t \in Tasks, Ending(t) \/ Starting(t) \/ JobStep(t) \/ JobFails(t)
        PROVE  UNCHANGED <<ran, out>>
    BY <2>4, Zenon DEF Ending, Starting, JobStep, Bind, Authorize, Accept, Stop, Publish, JobTxn, JobFails
  <2>5. QED BY <1>i, <2>1, <2>2, <2>3, <2>4, TaskKinds, Zenon DEF taskVars, TargetCrash
<1>3. QED BY <1>i, <1>1, <1>2, Utterances, Zenon

(* The hosts keep the promise of a remote call for as long as it is not       *)
(* retired: the program starts at most once, never after the call was closed  *)
(* and never while the last answer is a refusal, and each answer of           *)
(* FederationRemoteEndpoint::invoke is what the program returned, that it has *)
(* not run, or that its fate is unknown.                                      *)
THEOREM RemoteCallImplemented == Spec /\ []Unretired => ImplementsRemoteCall
<1>1. Init => Promise!CallInit
  <2> SUFFICES ASSUME Init PROVE Promise!CallInit
    BY Zenon
  <2>1. ran = {} /\ told = None /\ row = NoCall BY Zenon DEF Init, BridgeInit, DirectoryInit
  <2>2. row.status # "Closed" BY <2>1, Zenon DEF NoCall
  <2>3. Cardinality(ran) = 0 /\ Value(ran, out) = None BY <2>1, Mapped, Zenon
  <2>4. QED BY <2>1, <2>2, <2>3, Zenon DEF Promise!CallInit, Value
<1>2. CInv /\ CInv' /\ Unretired' /\ [Next]_vars => [Promise!CallNext]_(Promise!callVars)
  BY Promised, Zenon DEF PromiseStep
<1>3. QED BY <1>1, <1>2, PromiseInductive, PTL DEF Spec, ImplementsRemoteCall, Promise!CallSpec
==============================================================================
