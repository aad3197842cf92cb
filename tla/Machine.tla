------------------------------- MODULE Machine -------------------------------
(***************************************************************************)
(* The structured instruction machine of xolotl-core (machine.rs):         *)
(* cooperative tasks, each with a stack of frames, that evaluate a         *)
(* validated program image, fork and join, catch failures, run cleanup,    *)
(* and wait for a host to answer the requests they issue.                  *)
(*                                                                         *)
(* One step of the model is one iteration of the loop of `advance`, so a   *)
(* call of `advance` with any fuel is a sequence of steps, and the host's  *)
(* calls (complete, cancel) fall between them as they may in the code.     *)
(* Calls that the code rejects change nothing and are stuttering steps.    *)
(*                                                                         *)
(* Values are opaque; provenance (influence, retain_control) is left out.  *)
(* `input` is kept only where the program can read it: in Ready and        *)
(* Waiting tasks.  A stack is the sequence of a task's frames, top last;   *)
(* FramePool shows how the shared pool stores them.  The node a Waiting or *)
(* Joining task returns to is its `pc`.  Faults that a validated image     *)
(* cannot raise (InvalidNode, InvalidImport, InvalidBinding) are left out. *)
(***************************************************************************)
EXTENDS Integers, Sequences, FiniteSets, SequencesExt

CONSTANTS
    Executions,      \* what hosts run: a validated image and its limits
    BindingSlots,    \* lexical slots of a task
    Unit,            \* the program's input
    Replies,         \* the results a host may answer with
    Contexts,        \* the contexts a host may enter, RootContext included
    RootContext,
    Truth(_),        \* a value as a condition: Ok(TRUE), Ok(FALSE) or an error
    Pair(_, _),      \* the joined value of two branches
    ErrorValue(_),   \* a caught error as a value
    None

(* The limits are ExecutionLimits, the lengths of the buffers for tasks and *)
(* frames, and where tickets are exhausted (u64::MAX).                      *)
ASSUME LimitAssumption ==
    /\ RootContext \in Contexts
    /\ \A e \in Executions :
          /\ e.limits.tasks \in Nat \ {0}
          /\ {e.limits.frames_per_task, e.limits.frames, e.limits.cleanup_steps,
               e.limits.tickets} \subseteq Nat
          /\ e.limits.max_steps # None => e.limits.max_steps \in Nat

VARIABLES
    image, limits, \* the program being run, and within what
    tasks,         \* the task slots
    steps,         \* transitions so far, counted under a quota only
    cleanup_steps,
    ticket,        \* the last request number given out
    cursor,        \* where the next scan for a runnable task starts
    aborting,      \* cancellation has been requested
    answered,      \* history: the tickets whose answer was accepted
    winner         \* history: of each joining task, the branch that was Done first

vars == <<image, limits, tasks, steps, cleanup_steps, ticket, cursor, aborting, answered, winner>>

Tasks == 0 .. limits.tasks - 1

Ok(v) == [ok |-> TRUE, value |-> v]
Err(e) == [ok |-> FALSE, value |-> e]

NodeAt(pc) == image.nodes[pc]

FreeTask ==
    [state |-> "Free", pc |-> 0, input |-> None, result |-> None, ticket |-> 0,
     left |-> 0, right |-> 0, stack |-> <<>>, context |-> RootContext, parent |-> None,
     cleaning |-> 0, cancelled |-> FALSE, bindings |-> [s \in BindingSlots |-> None]]

Init ==
    /\ \E e \in Executions : image = e.image /\ limits = e.limits
    /\ tasks = [t \in Tasks |-> IF t = 0 THEN [FreeTask EXCEPT !.state = "Ready",
                                                 !.pc = image.entry, !.input = Unit]
                                ELSE FreeTask]
    /\ steps = 0 /\ cleanup_steps = 0 /\ ticket = 0 /\ cursor = 0
    /\ aborting = FALSE
    /\ answered = {}
    /\ winner = [t \in Tasks |-> None]

-----------------------------------------------------------------------------
(* How one task changes *)

Started(task, pc, v) ==
    [task EXCEPT !.state = "Ready", !.pc = pc, !.input = v, !.result = None, !.ticket = 0]

Returned(task, result) ==
    [task EXCEPT !.state = "Returning", !.result = result, !.input = None, !.ticket = 0]

(* The result of a node continues at its `next`, or unwinds. *)
Finished(task, pc, result) ==
    IF result.ok /\ NodeAt(pc).next # None
    THEN Started(task, NodeAt(pc).next, result.value)
    ELSE Returned(task, result)

FramesOf(ts) == FoldFunction(LAMBDA task, n : n + Len(task.stack), 0, ts)

(* How many frames slot t may still push, when it holds `task`. *)
Room(t, task) ==
    LET own == limits.frames_per_task - Len(task.stack)
        pool == limits.frames - FramesOf([tasks EXCEPT ![t] = task])
    IN IF own < pool THEN own ELSE pool

(* Push the frames one by one and start at pc; the first that does not fit *)
(* faults and leaves the earlier ones in place.                            *)
Descended(t, task, frames, pc, v) ==
    LET room == Room(t, task) IN
    IF Len(frames) <= room
    THEN Started([task EXCEPT !.stack = @ \o frames], pc, v)
    ELSE Returned([task EXCEPT !.stack = @ \o SubSeq(frames, 1, room)], Err("Frames"))

(* The walk up the parents of t: the task k joins above it, or None. *)
Ancestor(ts, t) ==
    LET up[k \in 0 .. limits.tasks] ==
            IF k = 0 THEN t
            ELSE IF up[k - 1] = None THEN None ELSE ts[up[k - 1]].parent
    IN up

CancelTree(ts, root) ==
    [t \in Tasks |->
        IF \E k \in 0 .. limits.tasks : Ancestor(ts, t)[k] = root
        THEN [ts[t] EXCEPT !.cancelled = TRUE] ELSE ts[t]]

-----------------------------------------------------------------------------
(* The scan: which task a step of `advance` runs, if any *)

RootTerminal == tasks[0].state \in {"Done", "Halted"}

(* Fault: waiting tasks are passed over. *)
CancelRunning ==
    [t \in Tasks |-> IF tasks[t].state \in {"Free", "Done", "Halted", "Waiting"} THEN tasks[t]
                     ELSE [tasks[t] EXCEPT !.cancelled = TRUE]]

CancelAll ==
    [t \in Tasks |-> IF tasks[t].state \in {"Free", "Done", "Halted"} THEN tasks[t]
                     ELSE [tasks[t] EXCEPT !.cancelled = TRUE]]

Expired == ~aborting /\ limits.max_steps # None /\ steps >= limits.max_steps

Aborting == aborting \/ Expired

(* The tasks as the scan finds them: an expired quota cancels them first. *)
Flagged == IF Expired THEN CancelAll ELSE tasks

Doomed(t) == Flagged[t].cancelled /\ Flagged[t].cleaning = 0

(* Fault: a successful return is not turned into the cancellation. *)
SeenUnlessReturning(t) ==
    IF Doomed(t) /\ Flagged[t].state = "Ready"
    THEN Returned(Flagged[t], Err("Cancelled")) ELSE Flagged[t]

(* A cancelled task outside cleanup unwinds with Cancelled instead. *)
Seen(t) ==
    LET task == Flagged[t] IN
    IF /\ Doomed(t)
       /\ \/ task.state = "Ready"
          \/ task.state = "Returning" /\ task.result.ok
    THEN Returned(task, Err("Cancelled"))
    ELSE task

IsDone(t) == tasks[t].state = "Done"

(* Fault: a join looks only for a race to decide. *)
JoinReadyToDecide(t) ==
    LET task == tasks[t] IN
    /\ NodeAt(task.pc).join = "Race"
    /\ \/ IsDone(task.left) /\ ~Flagged[task.right].cancelled
       \/ IsDone(task.right) /\ ~Flagged[task.left].cancelled

JoinReady(t) ==
    LET task == tasks[t] IN
    \/ IsDone(task.left) /\ IsDone(task.right)
    \/ /\ NodeAt(task.pc).join = "Race"
       /\ \/ IsDone(task.left) /\ ~Flagged[task.right].cancelled
          \/ IsDone(task.right) /\ ~Flagged[task.left].cancelled

Runnable(t) ==
    /\ tasks[t].state \notin {"Free", "Done", "Waiting"}
    /\ tasks[t].state = "Joining" => JoinReady(t)

(* The scan stops here to ask the host to cancel the task's request. *)
AsksCancel(t) == tasks[t].state = "Waiting" /\ Doomed(t)

Offset(t) == (t - cursor + limits.tasks) % limits.tasks

Selected(t) ==
    /\ ~RootTerminal
    /\ Runnable(t)
    /\ \A u \in Tasks : Runnable(u) \/ AsksCancel(u) => Offset(t) <= Offset(u)

CleanupSpent == Aborting /\ cleanup_steps >= limits.cleanup_steps

(* The selected task t has its turn: it is charged and the cursor moves past it. *)
Turn(t) ==
    /\ ~CleanupSpent
    /\ aborting' = Aborting
    /\ cleanup_steps' = IF Aborting THEN cleanup_steps + 1 ELSE cleanup_steps
    /\ steps' = IF Aborting \/ limits.max_steps = None THEN steps ELSE steps + 1
    /\ cursor' = (t + 1) % limits.tasks
    /\ UNCHANGED <<image, limits, answered>>

Become(t, task) ==
    /\ Turn(t)
    /\ tasks' = [Flagged EXCEPT ![t] = task]
    /\ UNCHANGED <<ticket, winner>>

-----------------------------------------------------------------------------
(* A Ready task evaluates the node at its pc *)

AtNode(t, kinds) == Seen(t).state = "Ready" /\ NodeAt(Seen(t).pc).kind \in kinds

Evaluate(t) ==
    /\ AtNode(t, {"Literal", "Input", "Load", "Fail"})
    /\ LET task == Seen(t)
           node == NodeAt(task.pc)
       IN Become(t,
            CASE node.kind = "Literal" -> Finished(task, task.pc, Ok(node.value))
              [] node.kind = "Input" -> Finished(task, task.pc, Ok(task.input))
              [] node.kind = "Fail" -> Finished(task, task.pc, Err(node.error))
              [] node.kind = "Load" ->
                    IF task.bindings[node.slot] = None
                    THEN Returned(task, Err("MissingBinding"))
                    ELSE Finished(task, task.pc, Ok(task.bindings[node.slot])))

(* A Request or Scope node hands a fresh ticket to the host and waits. *)
Issue(t) ==
    /\ AtNode(t, {"Request", "Scope"})
    /\ Turn(t)
    /\ IF ticket = limits.tickets
       THEN /\ tasks' = [Flagged EXCEPT ![t] = Returned(Seen(t), Err("SequenceExhausted"))]
            /\ UNCHANGED ticket
       ELSE /\ ticket' = ticket + 1
            /\ tasks' = [Flagged EXCEPT ![t].state = "Waiting", ![t].ticket = ticket + 1]
    /\ UNCHANGED winner

FinishFrame(pc) == [kind |-> "Finish", node |-> pc]

(* What a structured node pushes above its Finish frame, and where it goes. *)
DescentOf(node, v) ==
    CASE node.kind = "Then" ->
            [above |-> <<[kind |-> "Then", then |-> node.then]>>, to |-> node.first]
      [] node.kind = "Catch" ->
            [above |-> <<[kind |-> "Catch", recover |-> node.recover]>>, to |-> node.body]
      [] node.kind = "Finally" ->
            [above |-> <<[kind |-> "Finally", cleanup |-> node.cleanup, input |-> v]>>,
             to |-> node.body]
      [] node.kind = "If" ->
            [above |-> <<>>, to |-> IF Truth(v).value THEN node.yes ELSE node.no]
      [] node.kind = "Call" -> [above |-> <<>>, to |-> node.entry]
      [] node.kind = "Branch" ->
            [above |-> <<[kind |-> "Choose", yes |-> node.yes, no |-> node.no, input |-> v]>>,
             to |-> node.condition]
      [] node.kind = "Let" ->
            [above |-> <<[kind |-> "Bind", slot |-> node.slot, body |-> node.body]>>,
             to |-> node.value]
      [] node.kind = "While" ->
            [above |-> <<[kind |-> "Condition", condition |-> node.condition,
                          body |-> node.body, left |-> node.max, value |-> v]>>,
             to |-> node.condition]

Structured == {"Then", "Catch", "Finally", "If", "Call", "Branch", "Let", "While"}

Descend(t) ==
    /\ AtNode(t, Structured)
    /\ LET task == Seen(t)
           node == NodeAt(task.pc)
           descent == DescentOf(node, task.input)
       IN Become(t, IF node.kind = "If" /\ ~Truth(task.input).ok
                    THEN Finished(task, task.pc, Truth(task.input))
                    ELSE Descended(t, task, <<FinishFrame(task.pc)>> \o descent.above,
                                   descent.to, task.input))

(* Fault: a branch that is Done counts as free before its join. *)
FreeSlotsOrDone == {t \in Tasks : tasks[t].state \in {"Free", "Done"}}

FreeSlots == {t \in Tasks : tasks[t].state = "Free"}

(* Fault: slots are handed out from the top. *)
Greatest(S) == CHOOSE s \in S : \A u \in S : s >= u

Least(S) == CHOOSE s \in S : \A u \in S : s <= u

Fork(t) ==
    /\ AtNode(t, {"Fork"})
    /\ Turn(t)
    /\ LET task == Seen(t)
           node == NodeAt(task.pc)
           a == Least(FreeSlots)
           b == Least(FreeSlots \ {a})
           child == [FreeTask EXCEPT !.parent = t, !.context = task.context,
                                     !.cleaning = task.cleaning, !.bindings = task.bindings]
       IN IF Cardinality(FreeSlots) < 2
          THEN tasks' = [Flagged EXCEPT ![t] = Returned(task, Err("Tasks"))]
          ELSE tasks' = [Flagged EXCEPT
                   ![a] = Started(child, node.left, task.input),
                   ![b] = Started(child, node.right, task.input),
                   ![t] = [task EXCEPT !.state = "Joining", !.input = None,
                                       !.left = a, !.right = b]]
    /\ UNCHANGED <<ticket, winner>>

-----------------------------------------------------------------------------
(* A Joining task cancels the loser of a race, and resumes once both       *)
(* branches are Done                                                       *)

JoinResult(join, left, right) ==
    IF join = "Race"
    THEN IF left.cancelled THEN right.result ELSE left.result
    ELSE CASE left.result.ok /\ right.result.ok -> Pair(left.result.value, right.result.value)
           [] ~left.result.ok -> left.result
           [] OTHER -> right.result

Rejoin(t) ==
    /\ tasks[t].state = "Joining"
    /\ Turn(t)
    /\ LET l == tasks[t].left
           r == tasks[t].right
           pc == tasks[t].pc
           join == NodeAt(pc).join
           loser == IF IsDone(l) THEN r ELSE l
           marked == IF join = "Race" THEN CancelTree(Flagged, loser) ELSE Flagged
           resumed == [marked[t] EXCEPT !.left = 0, !.right = 0]
       IN IF IsDone(l) /\ IsDone(r)
          THEN /\ tasks' = [marked EXCEPT
                      ![l] = FreeTask, ![r] = FreeTask,
                      ![t] = Finished(resumed, pc, JoinResult(join, marked[l], marked[r]))]
               /\ winner' = [winner EXCEPT ![t] = None]
          ELSE tasks' = marked /\ UNCHANGED winner
    /\ UNCHANGED ticket

-----------------------------------------------------------------------------
(* A Returning task pops a frame.  A frame that pushes another takes the   *)
(* slot it has just released, so that push cannot fail.                    *)

Outcome(t) == Seen(t).result

Top(t) == Last(Seen(t).stack)

Popped(t) == [Seen(t) EXCEPT !.stack = Front(@)]

Unwinding(t, kinds) ==
    Seen(t).state = "Returning" /\ Seen(t).stack # <<>> /\ Top(t).kind \in kinds

Replaced(t, frame) == [Seen(t) EXCEPT !.stack = Append(Front(@), frame)]

Passed(t) == Returned(Popped(t), Outcome(t))

(* No frame is left: the task is Done, and may be the first of a join. *)
Conclude(t) ==
    /\ Seen(t).state = "Returning" /\ Seen(t).stack = <<>>
    /\ Turn(t)
    /\ tasks' = [Flagged EXCEPT ![t] = [Seen(t) EXCEPT !.state = "Done"]]
    /\ LET p == Seen(t).parent
       IN winner' = IF p # None /\ winner[p] = None THEN [winner EXCEPT ![p] = t] ELSE winner
    /\ UNCHANGED ticket

UnwindFinish(t) ==
    /\ Unwinding(t, {"Finish", "Continuation"})
    /\ Become(t, Finished(Popped(t), Top(t).node, Outcome(t)))

UnwindThen(t) ==
    /\ Unwinding(t, {"Then"})
    /\ Become(t, IF Outcome(t).ok THEN Started(Popped(t), Top(t).then, Outcome(t).value)
                 ELSE Passed(t))

UnwindCatch(t) ==
    /\ Unwinding(t, {"Catch"})
    /\ Become(t, IF ~Outcome(t).ok /\ (~Seen(t).cancelled \/ Seen(t).cleaning > 0)
                 THEN Started(Popped(t), Top(t).recover, ErrorValue(Outcome(t).value))
                 ELSE Passed(t))

(* Fault: a cancelled task does not clean up. *)
UnwindFinallyUnlessCancelled(t) ==
    /\ Unwinding(t, {"Finally"})
    /\ LET saved == Replaced(t, [kind |-> "Cleaned", outcome |-> Outcome(t)])
       IN Become(t, IF Seen(t).cancelled THEN Passed(t)
                    ELSE Started([saved EXCEPT !.cleaning = @ + 1], Top(t).cleanup, Top(t).input))

UnwindFinally(t) ==
    /\ Unwinding(t, {"Finally"})
    /\ LET saved == Replaced(t, [kind |-> "Cleaned", outcome |-> Outcome(t)])
       IN Become(t, Started([saved EXCEPT !.cleaning = @ + 1], Top(t).cleanup, Top(t).input))

UnwindCleaned(t) ==
    /\ Unwinding(t, {"Cleaned"})
    /\ LET original == Top(t).outcome
           task == [Popped(t) EXCEPT !.cleaning = IF @ > 0 THEN @ - 1 ELSE 0]
       IN Become(t, Returned(task, IF original.ok /\ ~Outcome(t).ok THEN Outcome(t)
                                   ELSE original))

UnwindContext(t) ==
    /\ Unwinding(t, {"Context"})
    /\ Become(t, [Passed(t) EXCEPT !.context = Top(t).context])

UnwindChoose(t) ==
    /\ Unwinding(t, {"Choose"})
    /\ LET test == IF Outcome(t).ok THEN Truth(Outcome(t).value) ELSE Outcome(t)
       IN Become(t, IF test.ok
                    THEN Started(Popped(t), IF test.value THEN Top(t).yes ELSE Top(t).no,
                                 Top(t).input)
                    ELSE Returned(Popped(t), test))

UnwindBind(t) ==
    /\ Unwinding(t, {"Bind"})
    /\ LET slot == Top(t).slot
           v == Outcome(t).value
           saved == Replaced(t, [kind |-> "Unbind", slot |-> slot,
                                 previous |-> Seen(t).bindings[slot]])
       IN Become(t, IF Outcome(t).ok
                    THEN Started([saved EXCEPT !.bindings[slot] = v], Top(t).body, v)
                    ELSE Passed(t))

UnwindUnbind(t) ==
    /\ Unwinding(t, {"Unbind"})
    /\ Become(t, [Passed(t) EXCEPT !.bindings[Top(t).slot] = Top(t).previous])

UnwindCondition(t) ==
    /\ Unwinding(t, {"Condition"})
    /\ LET top == Top(t)
           test == IF Outcome(t).ok THEN Truth(Outcome(t).value) ELSE Outcome(t)
           iteration == [kind |-> "Iteration", condition |-> top.condition,
                         body |-> top.body, left |-> top.left - 1]
       IN Become(t, CASE ~test.ok -> Returned(Popped(t), test)
                      [] test.ok /\ ~test.value -> Returned(Popped(t), Ok(top.value))
                      [] test.ok /\ test.value /\ top.left > 0 ->
                            Started(Replaced(t, iteration), top.body, top.value)
                      [] OTHER -> Returned(Popped(t), Err("Iterations")))

UnwindIteration(t) ==
    /\ Unwinding(t, {"Iteration"})
    /\ LET top == Top(t)
           v == Outcome(t).value
           test == [kind |-> "Condition", condition |-> top.condition,
                    body |-> top.body, left |-> top.left, value |-> v]
       IN Become(t, IF Outcome(t).ok THEN Started(Replaced(t, test), top.condition, v)
                    ELSE Passed(t))

-----------------------------------------------------------------------------
(* The other outcomes of a step, and the calls of the host *)

(* The cleanup budget is spent: the root halts, whatever the others do. *)
Halt(t) ==
    /\ CleanupSpent
    /\ aborting' = Aborting
    /\ tasks' = [[Flagged EXCEPT ![t] = Seen(t)] EXCEPT
                    ![0] = [Returned(@, Err("Fuel")) EXCEPT !.state = "Halted"]]
    /\ UNCHANGED <<image, limits, steps, cleanup_steps, ticket, cursor, answered, winner>>

(* Nothing can run when the quota expires: only the cancellation is left. *)
Expire ==
    /\ ~RootTerminal /\ Expired
    /\ \A t \in Tasks : ~Selected(t)
    /\ aborting' = TRUE
    /\ tasks' = CancelAll
    /\ UNCHANGED <<image, limits, steps, cleanup_steps, ticket, cursor, answered, winner>>

Cancel ==
    /\ ~RootTerminal
    /\ aborting' = TRUE
    /\ tasks' = CancelAll
    /\ UNCHANGED <<image, limits, steps, cleanup_steps, ticket, cursor, answered, winner>>

(* Fault: any answer will do. *)
LiveWhateverTicket(t, k) == ~RootTerminal /\ tasks[t].state = "Waiting"

(* The host's event for request k of task t is accepted. *)
Live(t, k) == ~RootTerminal /\ tasks[t].state = "Waiting" /\ tasks[t].ticket = k

Accept(t, k, task) ==
    /\ Live(t, k)
    /\ tasks' = [tasks EXCEPT ![t] = task]
    /\ answered' = answered \cup {k}
    /\ UNCHANGED <<image, limits, steps, cleanup_steps, ticket, cursor, aborting, winner>>

Complete(t, k, result) == Accept(t, k, Finished(tasks[t], tasks[t].pc, result))

(* Enter a Scope's body in the context the host opened for it. *)
Enter(t, k, context) ==
    LET task == tasks[t]
        frames == <<FinishFrame(task.pc), [kind |-> "Context", context |-> task.context]>>
    IN /\ Live(t, k)
       /\ NodeAt(task.pc).kind = "Scope"
       /\ Room(t, task) >= 2
       /\ Accept(t, k, Started([task EXCEPT !.context = context, !.stack = @ \o frames],
                               NodeAt(task.pc).body, task.input))

(* Continue a Request at another node of the image, and answer it with its result. *)
Continue(t, k, entry, v) ==
    LET task == tasks[t]
        frame == [kind |-> "Continuation", node |-> task.pc, entry |-> entry]
    IN /\ Live(t, k)
       /\ NodeAt(task.pc).kind = "Request"
       /\ Room(t, task) >= 1
       /\ Accept(t, k, Started([task EXCEPT !.stack = Append(@, frame)], entry, v))

Step(t) ==
    \/ Evaluate(t) \/ Issue(t) \/ Descend(t) \/ Fork(t) \/ Rejoin(t) \/ Conclude(t)
    \/ UnwindFinish(t) \/ UnwindThen(t) \/ UnwindCatch(t) \/ UnwindFinally(t)
    \/ UnwindCleaned(t) \/ UnwindContext(t) \/ UnwindChoose(t) \/ UnwindBind(t)
    \/ UnwindUnbind(t) \/ UnwindCondition(t) \/ UnwindIteration(t) \/ Halt(t)

Advance == Expire \/ \E t \in Tasks : Selected(t) /\ Step(t)

Answer(t) ==
    \E k \in 1 .. ticket :
        \/ \E result \in Replies : Complete(t, k, result)
        \/ \E context \in Contexts : Enter(t, k, context)
        \/ \E entry \in image.resumes : Continue(t, k, entry, Unit)

Next == Advance \/ Cancel \/ \E t \in Tasks : Answer(t)

Spec == Init /\ [][Next]_vars

(* Every slot any execution has. *)
Slots == UNION {0 .. e.limits.tasks - 1 : e \in Executions}

(* The embedding keeps calling advance.  Its host may leave requests       *)
(* unanswered, except those it is asked to cancel and, once cancellation   *)
(* was requested, those of cleanup.                                        *)
Fairness ==
    /\ WF_vars(Advance)
    /\ \A t \in Slots :
          WF_vars(/\ t \in Tasks /\ aborting
                  /\ AsksCancel(t) \/ tasks[t].cleaning > 0
                  /\ Answer(t))

FairSpec == Spec /\ Fairness

-----------------------------------------------------------------------------
(* Properties *)

(* Structured concurrency: every running branch belongs to a join that      *)
(* still waits for it, a Done root has left no branch and no frame, and a   *)
(* branch that is Done has restored the context and the lexical bindings it *)
(* was started with, whichever way it unwound.                              *)
StructuredTasks ==
    /\ \A t \in Tasks : tasks[t].state = "Joining" =>
          \A c \in {tasks[t].left, tasks[t].right} :
              tasks[c].state # "Free" /\ tasks[c].parent = t
    /\ \A t \in Tasks \ {0} : tasks[t].state # "Free" =>
          LET p == tasks[tasks[t].parent]
          IN p.state \in {"Joining", "Halted"} /\ t \in {p.left, p.right} /\ p.left # p.right
    /\ tasks[0].state = "Done" => FreeSlots = Tasks \ {0} /\ FramesOf(tasks) = 0
    /\ \A t \in Tasks : tasks[t].state = "Done" =>
          LET origin == IF tasks[t].parent = None THEN FreeTask ELSE tasks[tasks[t].parent]
          IN tasks[t].context = origin.context /\ tasks[t].bindings = origin.bindings

(* Once cancellation has been requested the program does not succeed: no    *)
(* handler, cleanup or race turns the cancellation into a value.            *)
CancelledNeverSucceeds ==
    aborting /\ RootTerminal => ~tasks[0].result.ok

Finallys(task) == SelectSeq(task.stack, LAMBDA frame : frame.kind = "Finally")

(* Cleanup is never skipped: a Finally frame leaves a stack only when its   *)
(* cleanup starts, shielded, with the input the Finally node had.           *)
CleanupAlwaysStarts ==
    [][\A t \in Tasks :
          LET before == Finallys(tasks[t])
              after == Finallys(tasks'[t])
          IN Len(after) < Len(before) =>
                /\ tasks'[t].state = "Ready"
                /\ tasks'[t].pc = Last(before).cleanup
                /\ tasks'[t].input = Last(before).input
                /\ tasks'[t].cleaning = tasks[t].cleaning + 1]_vars

(* A waiting task goes on only by an answer to the very request it waits    *)
(* for: stale and duplicate answers advance nobody.                         *)
OnlyItsAnswerResumes ==
    [][\A t \in Tasks :
          tasks[t].state = "Waiting" /\ tasks'[t].state \notin {"Waiting", "Halted"} =>
              answered' \ answered = {tasks[t].ticket}]_vars

(* The result with which task t goes on after a join. *)
Resumption(task) == IF task.state = "Ready" THEN Ok(task.input) ELSE task.result

RaceEnds(t) ==
    /\ tasks[t].state = "Joining" /\ tasks'[t].state \notin {"Joining", "Halted"}
    /\ NodeAt(tasks[t].pc).join = "Race"

(* A race whose branches were not both cancelled from outside ends with the *)
(* result of the branch that was Done first, though nothing records which   *)
(* one that was: slots are handed out in pairs and the scan is round-robin. *)
RaceKeepsFirst ==
    [][\A t \in Tasks :
          RaceEnds(t) /\ ~(tasks[tasks[t].left].cancelled /\ tasks[tasks[t].right].cancelled) =>
              Resumption(tasks'[t]) = tasks[winner[t]].result]_vars

(* "Preserve the first result after cancelling and cleaning up the loser":  *)
(* every race whose result is used, those inside cleanup included.          *)
RaceAlwaysKeepsFirst ==
    [][\A t \in Tasks :
          RaceEnds(t) /\ (~tasks[t].cancelled \/ tasks[t].cleaning > 0) =>
              Resumption(tasks'[t]) = tasks[winner[t]].result]_vars

(* Every program ends if the host answers each request. *)
Terminates == (\A t \in Slots : WF_vars(t \in Tasks /\ Answer(t))) => <>RootTerminal

(* After a cancellation the program ends although the host leaves all other *)
(* requests unanswered: those it must end are the ones it is told of.       *)
CancelCompletes == aborting ~> RootTerminal
============================================================================
