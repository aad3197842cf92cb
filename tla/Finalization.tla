---------------------------- MODULE Finalization ----------------------------
(***************************************************************************)
(* How process trees end in the kernel: bodies that run, return or are     *)
(* aborted (process/task.rs), requests whose owner drops them              *)
(* (bootstrap/request.rs), actors that are spawned (bootstrap/actor.rs),   *)
(* and hosts that finish one process, close a tree or resume a cleanup     *)
(* (bootstrap/finalize.rs).  A step is what runs under one hold of the     *)
(* process table's lock, or between two awaits; a host's future can be     *)
(* dropped at every await.                                                 *)
(*                                                                         *)
(* A request's body runs in its caller's future; an actor's body is a      *)
(* managed task, which a finalization attempt aborts and joins.  Reaping,  *)
(* cleanup tickets and budgets are not part of this module.                *)
(***************************************************************************)
EXTENDS Scope, Naturals, FiniteSets

CONSTANTS
    Requests, Actors,   \* the processes, by how their bodies run
    Parent,             \* the parent of each process, or None
    Finalizers,         \* how many finalizers each actor installs
    Hosts,              \* concurrent callers outside any body
    Outcomes,           \* the terminal statuses bodies and hosts ask for
    Openers,            \* who opens handles: bodies, their cleanup, finalizers
    MaxFaults           \* bound on dropped futures and failed steps

Procs == Requests \cup Actors

(* None names no process and no terminal status, and is no cleanup range. *)
ASSUME NoneAssumption == None \notin Procs \cup TerminalStatus \cup {"Local", "Tree"}

ASSUME TreeAssumption == Parent \in [Procs -> Procs \cup {None}] /\ Finalizers \in [Procs -> Nat]

(* A process runs its body in one way, and a host is no process. *)
ASSUME CallerAssumption ==
    /\ Requests \cap Actors = {} /\ Hosts \cap Actors = {}
    /\ Outcomes \subseteq TerminalStatus /\ Openers \subseteq {"body", "cleanup", "finalizer"}

VARIABLES
    admitted,   \* the processes in the table
    scope,
    task,       \* inner.tasks: "none", "attached", "aborted", "unwinding", "revoked"
    body,       \* "none", "starting", "running", "cleaning", "retained", "returned", "completed"
    owned,      \* the RequestProcess that would abandon it still exists
    on_finalize,\* finalizers not yet started
    ran,        \* history: finalizers started
    handles,    \* the handles each process owns, by who opened them
    call,       \* what each host, and each actor's own task, is doing
    faults

vars == <<admitted, scope, task, body, owned, on_finalize, ran, handles, call, faults>>

(* Every caller of finalization: hosts, and an actor's task after its body. *)
Callers == Hosts \cup Actors

Idle == [pc |-> "idle", op |-> "none", root |-> None, todo |-> {}, cur |-> None,
         status |-> "Cancelled", own |-> FALSE, failed |-> FALSE, dropped |-> FALSE]

(* Each process with its ancestors: what the walk up the parents meets. *)
Lines ==
    [p \in Procs |-> {r \in Procs :
       \A S \in SUBSET Procs :
          p \in S /\ (\A q \in S : Parent[q] \in S \cup {None}) => r \in S}]

(* Fault: a process is taken for a tree of its own. *)
TreeOfOne(p) == {p}

Tree(p) == {q \in admitted : p \in Lines[q]}

(* Descendants come before their parents, siblings in any order. *)
Foremost(S) == {p \in S : \A q \in S \ {p} : p \notin Lines[q]}

Init ==
    /\ admitted = {p \in Requests : Parent[p] = None}
    /\ scope = [p \in Procs |-> IF p \in Requests THEN Started(NewScope) ELSE NewScope]
    /\ task = [p \in Procs |-> "none"]
    /\ body = [p \in Procs |-> IF p \in admitted THEN "running" ELSE "none"]
    /\ owned = [p \in Procs |-> p \in admitted]
    /\ on_finalize = [p \in Procs |-> 0] /\ ran = [p \in Procs |-> 0]
    /\ handles = [p \in Procs |-> {}]
    /\ call = [c \in Callers |-> Idle]
    /\ faults = 0

-----------------------------------------------------------------------------
(* Bodies *)

(* admit_request, admit_child: the parent is checked under the lock that   *)
(* links the child.  A request is running at once.                         *)
admit(p) ==
    /\ p \notin admitted /\ Parent[p] \in admitted /\ AcceptsChildren(scope[Parent[p]])
    /\ admitted' = admitted \cup {p}
    /\ owned' = [owned EXCEPT ![p] = TRUE]
    /\ body' = IF p \in Requests THEN [body EXCEPT ![p] = "running"] ELSE body
    /\ UNCHANGED <<scope, task, on_finalize, ran, handles, call, faults>>

(* spawn_task attaches the actor's body unless the scope was closed since  *)
(* its admission; then the spawner drops the scope it owns.                *)
spawn_task(p) ==
    /\ p \in Actors \cap admitted /\ body[p] = "none" /\ owned[p]
    /\ AcceptsChildren(scope[p]) /\ task[p] = "none"
    /\ task' = [task EXCEPT ![p] = "attached"]
    /\ body' = [body EXCEPT ![p] = "starting"]
    /\ UNCHANGED <<admitted, scope, owned, on_finalize, ran, handles, call, faults>>

(* activate_child starts the scope and installs the finalizers, unless the  *)
(* actor or its parent was closed; a refused body returns.                  *)
activate_child(p) ==
    /\ body[p] = "starting" /\ task[p] \in {"attached", "aborted"}
    /\ CanStart(scope[p]) /\ AcceptsChildren(scope[Parent[p]])
    /\ scope' = [scope EXCEPT ![p] = Started(@)]
    /\ on_finalize' = [on_finalize EXCEPT ![p] = Finalizers[p]]
    /\ body' = [body EXCEPT ![p] = "running"]
    /\ UNCHANGED <<admitted, task, owned, ran, handles, call, faults>>

(* The spawner has seen the actor start, and gives up its scope. *)
detach(p) ==
    /\ p \in Actors /\ owned[p] /\ body[p] \in {"running", "cleaning"}
    /\ owned' = [owned EXCEPT ![p] = FALSE]
    /\ UNCHANGED <<admitted, scope, task, body, on_finalize, ran, handles, call, faults>>

(* A body enters its lexical cleanup, on cancellation or at its end. *)
enter_cleanup(p) ==
    /\ body[p] = "running"
    /\ body' = [body EXCEPT ![p] = "cleaning"]
    /\ UNCHANGED <<admitted, scope, task, owned, on_finalize, ran, handles, call, faults>>

(* A request's body returns to its caller. *)
return_request(p) ==
    /\ p \in Requests /\ body[p] \in {"running", "cleaning"}
    /\ body' = [body EXCEPT ![p] = "returned"]
    /\ UNCHANGED <<admitted, scope, task, owned, on_finalize, ran, handles, call, faults>>

(* complete_body: the outcome of the returned body, before or while another *)
(* caller finishes the process.  Its owner reports it once.                 *)
complete_body(p, status) ==
    /\ p \in Requests /\ body[p] = "returned" /\ owned[p] /\ CanFinishBody(scope[p], status)
    /\ scope' = [scope EXCEPT ![p] = BodyFinished(@, status)]
    /\ body' = [body EXCEPT ![p] = "completed"]
    /\ UNCHANGED <<admitted, task, owned, on_finalize, ran, handles, call, faults>>

(* TaskOwner::finish retains the outcome, then releases the task; the same *)
(* task goes on to finish the process unless it was finalized before.  A   *)
(* body fails at its start when it is refused or its directory entry is.   *)
retain_outcome(p, status) ==
    /\ p \in Actors /\ task[p] \in {"attached", "aborted"}
    /\ \/ body[p] \in {"running", "cleaning"} /\ UNCHANGED faults
       \/ /\ body[p] = "starting" /\ status = "Failed"
          /\ \/ /\ ~(CanStart(scope[p]) /\ AcceptsChildren(scope[Parent[p]]))
                /\ UNCHANGED faults
             \/ faults < MaxFaults /\ faults' = faults + 1
    /\ body' = [body EXCEPT ![p] = "retained"]
    /\ scope' = IF CanFinishBody(scope[p], status)
                THEN [scope EXCEPT ![p] = BodyFinished(@, status)] ELSE scope
    /\ call' = IF CanFinishBody(scope[p], status)
               THEN [call EXCEPT ![p].status = status, ![p].op = "finish", ![p].root = p,
                                 ![p].todo = {p}]
               ELSE call
    /\ UNCHANGED <<admitted, task, owned, on_finalize, ran, handles>>

release_finished(p) ==
    /\ body[p] = "retained"
    /\ task' = [task EXCEPT ![p] = "none"]
    /\ body' = [body EXCEPT ![p] = "returned"]
    /\ call' = IF call[p].op = "finish" THEN [call EXCEPT ![p].pc = "acquire"] ELSE call
    /\ UNCHANGED <<admitted, scope, owned, on_finalize, ran, handles, faults>>

(* Every scope of a tree is closed under one hold of the lock. *)
TreeClosed(p) ==
    [q \in Procs |-> IF q \in Tree(p) THEN TreeCleanupRequested(scope[q]) ELSE scope[q]]

AbortTasks(S) == [q \in Procs |-> IF q \in S /\ task[q] = "attached" THEN "aborted" ELSE task[q]]

(* An aborted task drops its body: TaskOwner::drop closes the tree, aborts *)
(* and revokes what is below, and only then TaskExit releases the task.    *)
(* A runtime that shuts down drops tasks that nobody aborted.              *)
drop_body(p) ==
    /\ body[p] \in {"starting", "running", "cleaning"}
    /\ \/ task[p] = "aborted" /\ UNCHANGED faults
       \/ task[p] = "attached" /\ faults < MaxFaults /\ faults' = faults + 1
    /\ task' = [task EXCEPT ![p] = "unwinding"]
    /\ body' = [body EXCEPT ![p] = "returned"]
    /\ scope' = TreeClosed(p)
    /\ UNCHANGED <<admitted, owned, on_finalize, ran, handles, call>>

revoke_tree(p) ==
    /\ task[p] = "unwinding"
    /\ task' = [AbortTasks(Tree(p)) EXCEPT ![p] = "revoked"]
    /\ handles' = [q \in Procs |-> IF q \in Tree(p) THEN {} ELSE handles[q]]
    /\ UNCHANGED <<admitted, scope, body, owned, on_finalize, ran, call, faults>>

release_dropped(p) ==
    /\ task[p] = "revoked"
    /\ task' = [task EXCEPT ![p] = "none"]
    /\ UNCHANGED <<admitted, scope, body, owned, on_finalize, ran, handles, call, faults>>

(* cancel_process. *)
cancel(p) ==
    /\ p \in admitted /\ CanCancel(scope[p])
    /\ scope' = [scope EXCEPT ![p] = Cancelled(@)]
    /\ UNCHANGED <<admitted, task, body, owned, on_finalize, ran, handles, call, faults>>

(* Fault: only a terminal status refuses handles. *)
AdmitsUntilTerminal(p, by) == ~IsTerminal(scope[p]) /\ ~scope[p].finalized

(* admits_handles, by the context the open runs in. *)
AdmitsHandles(p, by) ==
    \/ AcceptsChildren(scope[p])
    \/ /\ by = "finalizer" /\ ~scope[p].finalized
       /\ scope[p].finalizer_active /\ scope[p].status = "Finalizing"
    \/ /\ by = "cleanup" /\ ~scope[p].finalized
       /\ scope[p].status \in {"Running", "Cancelled", "Finalizing"}

(* install_for: the check and the installation hold the handle lock. *)
open(p, by) ==
    /\ CASE by = "body"      -> body[p] = "running"
         [] by = "cleanup"   -> body[p] = "cleaning"
         [] by = "finalizer" -> \E c \in Callers : call[c].pc = "running" /\ call[c].cur = p
    /\ AdmitsHandles(p, by)
    /\ handles' = [handles EXCEPT ![p] = @ \cup {by}]
    /\ UNCHANGED <<admitted, scope, task, body, owned, on_finalize, ran, call, faults>>

-----------------------------------------------------------------------------
(* Hosts *)

(* finish_process_as, finish_request_process. *)
finish_process(h, p, status) ==
    /\ call[h].pc = "idle" /\ p \in admitted
    /\ call' = [call EXCEPT ![h] =
                  [Idle EXCEPT !.pc = "acquire", !.op = "finish", !.root = p,
                               !.todo = {p}, !.status = status]]
    /\ UNCHANGED <<admitted, scope, task, body, owned, on_finalize, ran, handles, faults>>

(* finalize_process: the tree is closed and selected in one step. *)
finalize_process(h, p) ==
    /\ call[h].pc = "idle" /\ p \in admitted
    /\ scope' = TreeClosed(p)
    /\ call' = [call EXCEPT ![h] =
                  [Idle EXCEPT !.pc = "own", !.op = "tree", !.root = p,
                               !.todo = Tree(p) \ {p}]]
    /\ UNCHANGED <<admitted, task, body, owned, on_finalize, ran, handles, faults>>

(* resume_cleanup, and every turn of its loop. *)
resume_cleanup(h, p) ==
    /\ call[h].pc = "idle" /\ p \in admitted
    /\ call' = [call EXCEPT ![h] =
                  [Idle EXCEPT !.pc = "select", !.op = "resume", !.root = p]]
    /\ UNCHANGED <<admitted, scope, task, body, owned, on_finalize, ran, handles, faults>>

(* RequestProcess::drop: abandon_scope decides what to close ... *)
abandon_scope(h, p) ==
    /\ call[h].pc = "idle" /\ p \in admitted /\ owned[p]
    /\ owned' = [owned EXCEPT ![p] = FALSE]
    /\ LET s == Abandoned(scope[p])
           ids == IF s.cleanup = "Tree" THEN Tree(p) ELSE {p} IN
       IF scope[p].finalized
       THEN UNCHANGED <<scope, call>>
       ELSE /\ scope' = IF s.cleanup = "Tree" THEN TreeClosed(p) ELSE [scope EXCEPT ![p] = s]
            /\ call' = [call EXCEPT ![h] =
                          [Idle EXCEPT !.pc = "abandon", !.op = "resume", !.root = p,
                                       !.todo = ids]]
    /\ UNCHANGED <<admitted, task, body, on_finalize, ran, handles, faults>>

(* ... then tasks are aborted and handles closed, and a cleanup task is    *)
(* spawned, which the runtime may refuse or never run.                     *)
abandon_request(h) ==
    /\ call[h].pc = "abandon"
    /\ task' = AbortTasks(call[h].todo)
    /\ handles' = [q \in Procs |-> IF q \in call[h].todo THEN {} ELSE handles[q]]
    /\ \/ call' = [call EXCEPT ![h].pc = "select"] /\ UNCHANGED faults
       \/ faults < MaxFaults /\ faults' = faults + 1 /\ call' = [call EXCEPT ![h] = Idle]
    /\ UNCHANGED <<admitted, scope, body, owned, on_finalize, ran>>

Members(p) == IF scope[p].cleanup = "Tree" THEN Tree(p) ELSE {p}

AllFinalized(p) == \A q \in Members(p) : scope[q].finalized

(* cleanup_is_complete. *)
CleanupComplete(p) ==
    \A q \in Members(p) : scope[q].finalized /\ ~scope[q].finalizer_active /\ task[q] = "none"

(* cleanup_action and cleanup_selection; AwaitOwners waits, so it is no step. *)
select_members(c) ==
    /\ call[c].pc = "select"
    /\ LET p == call[c].root IN
       \/ /\ CleanupComplete(p) \/ (~AllFinalized(p) /\ scope[p].cleanup = None)
          /\ call' = [call EXCEPT ![c] = Idle] /\ UNCHANGED scope
       \/ /\ ~AllFinalized(p) /\ scope[p].cleanup # None
          /\ scope' = IF scope[p].cleanup = "Tree" THEN TreeClosed(p) ELSE scope
          /\ call' = [call EXCEPT ![c].pc = "abort", ![c].todo = Members(p),
                                  ![c].failed = FALSE]
    /\ UNCHANGED <<admitted, task, body, owned, on_finalize, ran, handles, faults>>

-----------------------------------------------------------------------------
(* The steps of a call *)

(* The processes whose bodies a call stops. *)
Selected(c) == call[c].todo \cup {call[c].root}

(* finalize_process takes the root before its bodies are stopped. *)
own_root(c) ==
    /\ call[c].pc = "own"
    /\ LET p == call[c].root IN
       \/ /\ scope[p].finalized
          /\ call' = [call EXCEPT ![c].pc = "abort"] /\ UNCHANGED scope
       \/ /\ CanBeginFinalizing(scope[p])
          /\ scope' = [scope EXCEPT ![p] = FinalizingBegun(@, "Cancelled")]
          /\ call' = [call EXCEPT ![c].pc = "abort", ![c].own = TRUE]
    /\ UNCHANGED <<admitted, task, body, owned, on_finalize, ran, handles, faults>>

abort_task(c) ==
    /\ call[c].pc = "abort"
    /\ task' = AbortTasks(Selected(c))
    /\ call' = [call EXCEPT ![c].pc = "join"]
    /\ UNCHANGED <<admitted, scope, body, owned, on_finalize, ran, handles, faults>>

(* Fault: the body is aborted and not joined. *)
skip_join(c) ==
    /\ call[c].pc = "join"
    /\ call' = [call EXCEPT ![c].pc = IF call[c].op = "finish" THEN "finalize" ELSE "acquire"]
    /\ UNCHANGED <<admitted, scope, task, body, owned, on_finalize, ran, handles, faults>>

wait_for_task_exit(c) ==
    /\ call[c].pc = "join"
    /\ \A q \in Selected(c) : task[q] = "none"
    /\ call' = [call EXCEPT ![c].pc = IF call[c].op = "finish" THEN "finalize" ELSE "acquire"]
    /\ UNCHANGED <<admitted, scope, task, body, owned, on_finalize, ran, handles, faults>>

(* Where a call goes once it is done with member p: on to the next one, or *)
(* to its end; resume_cleanup then looks again.                            *)
Onward(c, p) ==
    LET k == call[c] IN
    [k EXCEPT !.todo = @ \ {p}, !.cur = None,
              !.pc = CASE k.op = "finish" \/ (k.op = "tree" /\ p = k.root) -> "end"
                       [] k.op = "resume" /\ k.todo = {p} -> "select"
                       [] OTHER -> "acquire"]

(* The terminal status a call asks for its next member. *)
Requested(c, p) ==
    CASE call[c].op = "finish" -> call[c].status
      [] call[c].op = "tree"   -> "Cancelled"
      [] call[c].op = "resume" -> scope[p].terminal

(* acquire_finalization waits while another attempt is active; a process   *)
(* that is finalized already only has its handles closed again.            *)
acquire_finalization(c) ==
    /\ call[c].pc = "acquire"
    /\ \E p \in Foremost(call[c].todo) :
       /\ ~(call[c].op = "resume" /\ call[c].failed /\ p = call[c].root)
       /\ \/ /\ scope[p].finalized
             /\ handles' = IF call[c].op = "finish" THEN handles ELSE [handles EXCEPT ![p] = {}]
             /\ call' = [call EXCEPT ![c] = Onward(c, p)] /\ UNCHANGED scope
          \/ /\ CanBeginFinalizing(scope[p])
             /\ scope' = [scope EXCEPT ![p] = FinalizingBegun(@, Requested(c, p))]
             /\ call' = [call EXCEPT ![c].cur = p,
                                     ![c].pc = IF call[c].op = "finish" THEN "abort" ELSE "finalize"]
             /\ UNCHANGED handles
    /\ UNCHANGED <<admitted, task, body, owned, on_finalize, ran, faults>>

(* finalize_process turns to its root once the rest of the tree is done. *)
finish_root(c) ==
    /\ call[c].pc = "acquire" /\ call[c].todo = {} /\ call[c].op = "tree" /\ ~call[c].failed
    /\ \/ /\ call[c].own
          /\ call' = [call EXCEPT ![c].cur = call[c].root, ![c].own = FALSE, ![c].pc = "finalize"]
          /\ UNCHANGED handles
       \/ /\ ~call[c].own
          /\ call' = [call EXCEPT ![c].pc = "end"]
          /\ handles' = [handles EXCEPT ![call[c].root] = {}]
    /\ UNCHANGED <<admitted, scope, task, body, owned, on_finalize, ran, faults>>

(* has_finalizers, next_finalizer: a finalizer is taken before it runs. *)
next_finalizer(c) ==
    /\ call[c].pc = "finalize" /\ on_finalize[call[c].cur] > 0
    /\ on_finalize' = [on_finalize EXCEPT ![call[c].cur] = @ - 1]
    /\ ran' = [ran EXCEPT ![call[c].cur] = @ + 1]
    /\ call' = [call EXCEPT ![c].pc = "running"]
    /\ UNCHANGED <<admitted, scope, task, body, owned, handles, faults>>

finish_finalizer(c) ==
    /\ call[c].pc = "running"
    /\ call' = [call EXCEPT ![c].pc = "finalize"]
    /\ UNCHANGED <<admitted, scope, task, body, owned, on_finalize, ran, handles, faults>>

(* Fault: a retry goes to the record without the finalizers that are left. *)
dispatch_at_once(c) ==
    /\ call[c].pc = "finalize"
    /\ call' = [call EXCEPT ![c].pc = "close"]
    /\ UNCHANGED <<admitted, scope, task, body, owned, on_finalize, ran, handles, faults>>

(* The terminal record is a blocking job, which owns the guard. *)
dispatch_record(c) ==
    /\ call[c].pc = "finalize" /\ on_finalize[call[c].cur] = 0
    /\ call' = [call EXCEPT ![c].pc = "close"]
    /\ UNCHANGED <<admitted, scope, task, body, owned, on_finalize, ran, handles, faults>>

close_process_handles(c) ==
    /\ call[c].pc = "close"
    /\ handles' = [handles EXCEPT ![call[c].cur] = {}]
    /\ call' = [call EXCEPT ![c].pc = "mark"]
    /\ UNCHANGED <<admitted, scope, task, body, owned, on_finalize, ran, faults>>

(* A waiter that was dropped leaves the job to drop the guard. *)
mark_terminal_status(c) ==
    /\ call[c].pc = "mark"
    /\ LET p == call[c].cur
           s == TerminalMarked(scope[p], scope[p].terminal) IN
       IF call[c].dropped
       THEN scope' = [scope EXCEPT ![p] = FinalizingReleased(s)] /\ call' = [call EXCEPT ![c] = Idle]
       ELSE scope' = [scope EXCEPT ![p] = s] /\ call' = [call EXCEPT ![c].pc = "publish"]
    /\ UNCHANGED <<admitted, task, body, owned, on_finalize, ran, handles, faults>>

(* The publication succeeds; what finalizers are left are discarded. *)
complete_finalization(c) ==
    /\ call[c].pc = "publish" /\ CanCompleteFinalization(scope[call[c].cur])
    /\ scope' = [scope EXCEPT ![call[c].cur] = FinalizationCompleted(@)]
    /\ on_finalize' = [on_finalize EXCEPT ![call[c].cur] = 0]
    /\ call' = [call EXCEPT ![c].pc = "release"]
    /\ UNCHANGED <<admitted, task, body, owned, ran, handles, faults>>

release_finalizing(c) ==
    /\ call[c].pc = "release"
    /\ scope' = [scope EXCEPT ![call[c].cur] = FinalizingReleased(@)]
    /\ call' = [call EXCEPT ![c] = Onward(c, call[c].cur)]
    /\ UNCHANGED <<admitted, task, body, owned, on_finalize, ran, handles, faults>>

(* An attempt fails: no identity or no thread for the next step, or the    *)
(* publication is refused.  A status that a late body result has set back  *)
(* fails the completion without a fault.  The call goes on to the siblings *)
(* of a failed member, and ends at its root.                               *)
attempt_fails(c) ==
    /\ \/ call[c].pc \in {"finalize", "publish"} /\ faults < MaxFaults /\ faults' = faults + 1
       \/ /\ call[c].pc = "publish" /\ ~CanCompleteFinalization(scope[call[c].cur])
          /\ UNCHANGED faults
    /\ scope' = [scope EXCEPT ![call[c].cur] = FinalizingReleased(@)]
    /\ call' = [call EXCEPT ![c] =
                  IF call[c].cur = call[c].root THEN Idle
                  ELSE [Onward(c, call[c].cur) EXCEPT !.failed = TRUE]]
    /\ UNCHANGED <<admitted, task, body, owned, on_finalize, ran, handles>>

(* The guards a call holds. *)
Guards(c) == ({call[c].cur} \cup (IF call[c].own THEN {call[c].root} ELSE {})) \ {None}

(* Fault: a dropped future leaves its guards behind. *)
KeptBy(S) == scope

ReleasedBy(S) == [q \in Procs |-> IF q \in S THEN FinalizingReleased(scope[q]) ELSE scope[q]]

(* A call is over; the tree's guard goes with it. *)
end_call(c) ==
    /\ \/ call[c].pc = "end"
       \/ /\ call[c].pc = "acquire" /\ call[c].failed
          /\ call[c].todo \in {{}, {call[c].root}}
    /\ scope' = ReleasedBy(Guards(c))
    /\ call' = [call EXCEPT ![c] = Idle]
    /\ UNCHANGED <<admitted, task, body, owned, on_finalize, ran, handles, faults>>

(* The caller's future is dropped while it awaits: its guards are dropped, *)
(* except the one that the blocking job has.                               *)
drop_call(c) ==
    /\ faults < MaxFaults /\ faults' = faults + 1
    /\ \/ /\ call[c].pc \in {"own", "select", "join", "acquire", "running", "publish"}
          /\ scope' = ReleasedBy(Guards(c))
          /\ call' = [call EXCEPT ![c] = Idle]
       \/ /\ call[c].pc \in {"close", "mark"} /\ ~call[c].dropped
          /\ scope' = ReleasedBy(Guards(c) \ {call[c].cur})
          /\ call' = [call EXCEPT ![c].dropped = TRUE, ![c].own = FALSE]
    /\ UNCHANGED <<admitted, task, body, owned, on_finalize, ran, handles>>

-----------------------------------------------------------------------------
Body(p) ==
    \/ activate_child(p) \/ enter_cleanup(p) \/ return_request(p)
    \/ \E status \in Outcomes : retain_outcome(p, status)
    \/ release_finished(p) \/ drop_body(p) \/ revoke_tree(p) \/ release_dropped(p)

Step(c) ==
    \/ select_members(c) \/ own_root(c) \/ abort_task(c) \/ wait_for_task_exit(c)
    \/ acquire_finalization(c) \/ finish_root(c) \/ next_finalizer(c) \/ finish_finalizer(c)
    \/ dispatch_record(c) \/ close_process_handles(c) \/ mark_terminal_status(c)
    \/ complete_finalization(c) \/ release_finalizing(c) \/ end_call(c)

Environment(p) ==
    \/ admit(p) \/ spawn_task(p) \/ detach(p) \/ cancel(p)
    \/ \E status \in Outcomes : complete_body(p, status)
    \/ \E by \in Openers : open(p, by)

Call(h) ==
    \/ abandon_request(h)
    \/ \E p \in Procs :
          \/ \E status \in Outcomes : finish_process(h, p, status)
          \/ finalize_process(h, p) \/ resume_cleanup(h, p) \/ abandon_scope(h, p)

Next ==
    \/ \E p \in Procs : Body(p) \/ Environment(p)
    \/ \E c \in Callers : Step(c) \/ attempt_fails(c) \/ drop_call(c)
    \/ \E h \in Hosts : Call(h)

Spec == Init /\ [][Next]_vars

(* pending_cleanup: what a host drains, unless an ancestor's cleanup has it. *)
PendingCleanup(p) ==
    /\ p \in admitted /\ scope[p].cleanup # None
    /\ \A q \in Lines[p] \ {p} : scope[q].cleanup # "Tree"
    /\ ~CleanupComplete(p)

(* Calls that are not dropped proceed, an aborted task is dropped and       *)
(* unwinds, a released one leaves, and a host keeps draining what is        *)
(* pending.  Bodies need not return, and nothing else need be called.       *)
Fairness ==
    /\ \A c \in Callers : WF_vars(Step(c) \/ (attempt_fails(c) /\ UNCHANGED faults))
    /\ \A p \in Procs :
          WF_vars(\/ task[p] = "aborted" /\ drop_body(p)
                  \/ release_finished(p) \/ revoke_tree(p) \/ release_dropped(p))
    /\ \A h \in Hosts :
          /\ WF_vars(abandon_request(h))
          /\ SF_vars(\E p \in Procs : PendingCleanup(p) /\ resume_cleanup(h, p))

FairSpec == Spec /\ Fairness

-----------------------------------------------------------------------------

(* A process is being finalized by exactly one caller, the one that holds   *)
(* its guard, through every wait, failure and dropped future.               *)
OneOwner ==
    \A p \in Procs :
       Cardinality({c \in Callers : p \in Guards(c)}) = IF scope[p].finalizer_active THEN 1 ELSE 0

(* An attempt that runs finalizers or closes handles has joined the managed *)
(* body of the process.                                                     *)
BodyJoinedFirst ==
    \A c \in Callers :
       call[c].pc \in {"finalize", "running", "close", "mark", "publish"} => task[call[c].cur] = "none"

(* Every installed finalizer is started exactly once, however many attempts *)
(* it takes: it leaves the list only as it starts, so that completing the   *)
(* lifecycle discards none, and none is installed once that is done.        *)
FinalizersOnce ==
    [][\A p \in Procs :
          \/ (on_finalize[p] + ran[p])' = on_finalize[p] + ran[p]
          \/ on_finalize[p] + ran[p] = 0 /\ ~scope[p].finalized]_vars

(* Once a tree is selected for cleanup, no process in it admits children or *)
(* bodies, whoever was being admitted at the time.                          *)
ClosedTree ==
    \A p \in admitted : scope[p].cleanup = "Tree" =>
       \A q \in admitted : p \in Lines[q] => ~AcceptsChildren(scope[q])

(* A finalized process owns no handle that its body or its finalizers opened. *)
HandlesReleased ==
    \A p \in Procs : scope[p].finalized => handles[p] \cap {"body", "finalizer"} = {}

(* What an attempt does after the body comes after it: the finalizers and    *)
(* the closing of handles wait for the join, and the process is marked       *)
(* finalized when nothing the body or a finalizer opened is left, whichever  *)
(* hosts shared the work.                                                    *)
FinalizedInOrder == BodyJoinedFirst /\ HandlesReleased

(* Handle installation is closed before the handles of a process are        *)
(* released, so that no late installation is missed (open/prepared.rs).     *)
NoLateInstallation == \A p \in Procs : scope[p].finalized => handles[p] = {}

(* A tree selected for cleanup is eventually finalized, with every task     *)
(* gone: after dropped futures and failed publications too, as long as a    *)
(* host drains pending cleanup.                                             *)
TreeCleanupEnds ==
    \A p \in Procs : p \in admitted /\ scope[p].cleanup = "Tree" ~> CleanupComplete(p)
=============================================================================
