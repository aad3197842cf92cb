# Verification of the Xolotl runtime

TLA+ models of the Xolotl capability runtime, model-checked with TLC on small
instances and, for part of them, proved with TLAPS for every instance.  The
models are written from the Rust source; `PROJECT.json` maps every definition
to the lines it models and lists runs, mutants, hazards, findings and theorems.

1. [The system](#1-the-system)
2. [Modules and what they model](#2-modules-and-what-they-model)
3. [What the runs check](#3-what-the-runs-check)
4. [Bounds](#4-bounds)
5. [Fairness](#5-fairness)
6. [What is proved](#6-what-is-proved)
7. [Where code and comments disagree](#7-where-code-and-comments-disagree)
8. [Observations](#8-observations)
9. [What is not modelled](#9-what-is-not-modelled)

## 1. The system

Xolotl executes programs that call host-authorised resources.  It is layered:

| Part | Crates | State it owns |
| --- | --- | --- |
| Core | `xolotl-core` | `Execution` (task slots, frames, bindings, tickets, step and cleanup budgets), `FramePool`, `HandleTable`, `Channel`; all fixed-capacity, no allocator, no locks |
| Kernel | `xolotl-kernel` | the process table (scopes, parent links, managed tasks, finalizers, budgets, reap queue, pins), hosted handles, registry, facts, executor, data plane |
| State and storage | `xolotl-state`, `-storage-redb`, `-storage-fs` | paths and versions, watches, and the durable tables behind every service below |
| Services | `xolotl-gateway*`, `-federation*`, `-source`, `-console*` | request registry and request evidence, streams and their subscribers, call ledgers, Source events |
| Front ends, wire, providers | `xolotl-graph`, `-plan`, `-proto`, `-types`, `-value-*`, `-standard`, `-sdk`, `-sim` | mostly none: compilation, encodings, drivers |
| Daemon | `xolotl-daemon` | assembly, configuration, and the background workers of the services |

How they interact: a host admits a process (a *scope*: lifecycle, budget,
cleanup) into the process table and runs a program in it.  The core machine
advances the program and yields *requests*; the host answers them with
`complete`.  A request that calls a resource is authorised through a handle,
reserved on the budgets of the process and all its ancestors, performed by a
driver, and settled.  A process ends by *finalization*: its managed body is
aborted and joined, its finalizers run, its handles are closed, a terminal
record is published, and only then is its entry reapable.

Around the kernel, services accept work from outside and must not lose or
repeat it.  The *gateway* reserves a durable row per request before it runs
anything and commits the result to it.  *Federation* replicates a publisher's
stream into its subscribers' inboxes, and runs calls on another node with a
durable ledger on each side.  A *Source* turns external events into entries of a
sink list, deduplicated and rate limited.  All of them write redb
transactions on blocking workers, which go on when the future that waits for
them is dropped.

What is hard in it, and drives the choice of properties:

- **Structured concurrency in fixed slots.**  Tasks, frames and handle slots are
  reused at once; late or duplicate answers and stale keys name old occupants.
- **Cancellation against cleanup.**  Cancellation can arrive at every step and must
  neither skip nor interrupt lexical cleanup, and must still lead to an end.
- **Dropped futures.**  Any host future can vanish at any await, including while a
  blocking job commits on its behalf; retries must not repeat what was done.
- **Several finalizers of one process.**  Hosts, the actor's own task and detached
  cleanup compete; admission races the closing of a tree.
- **Accounts and retention.**  A reservation touches a whole line of ancestors and can
  be refused half-way; an entry is kept by children, tickets, tasks, captures and
  calls in flight, each released by somebody else.
- **Two durable stores, no common transaction.**  A crash, a lost answer or a late job
  leaves one side ahead of the other; what each believes of the other must stay true.
- **Retries under full quotas, replaced authority and a clock set back.**

The hazards, each with its line and the properties that cover it, are in
`PROJECT.json`.

## 2. Modules and what they model

| Module | Models | Abstract specification |
| --- | --- | --- |
| `HandleTable` | `xolotl-core/src/authority.rs`, `authority/slot.rs` | `Delegation` |
| `Machine` | `xolotl-core/src/machine.rs` with the nodes of `program.rs` | |
| `FramePool` | `xolotl-core/src/frame.rs` | `Stacks` |
| `Channel` | `xolotl-core/src/stream.rs` | `Fifo` |
| `Scope`, `ScopeLifecycle` | `xolotl-kernel/src/scope.rs`, `ProcessStatus` of `xolotl-types` | |
| `Finalization` | kernel `process.rs`, `process/task.rs`, `process/cleanup.rs`, `bootstrap/{finalize,request,actor}.rs` | |
| `Budget` | kernel `process/accounting.rs`, `BudgetState` of `xolotl-types` | |
| `Retention` | kernel `process/retention.rs`, tickets of `process/cleanup.rs`, admission | |
| `RequestRegistry`, `EvidenceStore`, `Submission` | the gateway's registry and `submit`, the redb request store | `OnceLedger` |
| `Publisher`, `Receiver`, `Replication` | federation streams in redb, the daemon's private follower | `ReplicatedLog` |
| `CallDirectory`, `CallBridge`, `CallSource`, `FederatedCall` | both call ledgers in redb, the gRPC endpoint, the bridge of `xolotl-federation-kernel`, the daemon's call workers | `RemoteCall` |
| `SourceStore` | `xolotl-storage-redb/src/state/source.rs` and its schema checks | `EventLog` |

`ChannelConstants`, `FederationConstants`, `CallConstants` and `SourceConstants`
declare what several modules share.  `MC*` modules give the constants of a
specification their values; `*Proofs` modules hold theorems.  Operators whose
comment begins with "Fault:" are plausible bugs; each is the mutated form of one
definition and is used by nothing else.

**HandleTable.**  Slots with generations and child counts.  `install`, `derive`,
`release`, `revoke` are whole calls, except that reclamation up the chain of
released ancestors proceeds one ancestor per step, as the loop does.
`Delegation` is the forest of keys without slots, generations or counts.

**Machine.**  `tasks` are the slots with state, frame stack, ticket, cancellation
flag and cleaning depth.  One `Advance` step is one call of `advance`: the scan
from the cursor (`Seen`, `Selected`), the charge against step and cleanup
budgets (`Turn`), and one arm of `transition`: `Evaluate`, `Issue`, `Descend`,
`Fork`, `Rejoin`, or an `Unwind...` action for the frame on top.  The host's side is
`Complete`, `Enter`, `Continue` (arms of `complete`) and `Cancel`.  Values are
small sets; taint (`influence`) is left out, as it changes no control flow.

**FramePool** has the free list threaded through `previous` and the high-water
mark; **Channel** the ring with `head` and `len`.

**Scope** is a record and one operator per method, used both by `ScopeLifecycle` (one
scope under arbitrary callers) and by `Finalization` (a tree of them), so both
speak of the same scope.

**Finalization.**  A step is what runs under one hold of the table's lock or
between two awaits.  `call` is the program counter of every host and of each
actor's task after its body.  Requests run inline in a caller's future; actors
are managed tasks, which are aborted and joined.  `drop_call` drops a future at any
await; the guard that a blocking job owns stays with the job.  `attempt_fails` is a
refused identity, thread or publication.  `CleanupComplete` leaves out
`managed_captures` and calls in flight, which are in `Retention`.

**Budget** keeps one spending dimension (the code treats money and tokens alike)
and the in-flight count.  A reservation walks the line of ancestors and is
rolled back when one refuses.

**Retention** has the children vectors with `swap_remove` and back references, the
reap queue with its flag, capacity, and what holds an entry.  Reclaiming and
admitting are separate steps, because the code lets go of the lock between them;
dropping a ticket is two steps, because the count of an `Arc` reaches zero before
its destructor takes the lock.  `Created` and `Running` are one state "open".

**Submission** composes `EvidenceStore` (one row per request identity and retry
epoch, with incremental accounting; one action per transaction) and
`RequestRegistry` (one mutex, so one step per operation).  `pc` is where an attempt
is between two awaits of `submit`, `job` the transaction it handed to a worker.  A
dropped attempt leaves its job behind; a crash empties the registry and the jobs
and keeps the rows.  A commit may fail with its effect unknown.

**Replication** composes the two stores (again one action per transaction) with the
session loop of the stock follower: establish every planned subscription, then
read, accept, confirm, and install an offered snapshot where history was
trimmed.  `link` is the loop's place per subscription.  A call whose session was
lost while it was under way is in `detached` and takes effect later or never.
Operators publish, trim, open, close, offer snapshots, change members and
authority and let time pass.

**FederatedCall** is one call.  `CallSource` is the source's record, origin and
cancellation barrier; `CallDirectory` the target's row; `CallBridge` the handlers
under the admission lock, the kernel tasks they start and the jobs both hand
out.  `proc` is where the endpoint's attempt and the cancellation worker are, `rpc`
the request each has on the wire.  A request without a sender is lost or handled
in the slot `Late`; `orphans` and `left` are the jobs nobody waits for.  Either host can crash.

**SourceStore.**  Every operation is one serializable transaction, and requests are
unconstrained: stale, repeated and unanswered ones are among them.  Rows are keyed
as in the metadata table, so that maintenance can walk them from its cursor with
a bounded batch.  A failed commit may have taken effect, and fences the store until it is
reopened, which checks the rows as the schema does (`Validated`).  `log` is a
history of appends, only read by the properties.

## 3. What the runs check

| Run | Question | Answer |
| --- | --- | --- |
| `core_structures` | Are a handle's child counts exact and keys never reissued?  Does the ancestry walk authorise exactly the keys that are held and have no revoked ancestor, whatever slots were reused?  Is the ring a FIFO queue with a sticky end, the frame pool a set of separate stacks? | holds; refines `Delegation`, `Fifo`, `Stacks` |
| `machine_and_source` (programs) | Under every host answer and a cancellation at any point, with ample limits and with every limit running out: are tasks structured, cleanups started, answers delivered to whom they are for, races won by the first?  Does every program end when it is advanced and answered, and a cancelled one when only what it cancels and its cleanup is answered? | holds |
| `machine_and_source` (Source) | Under retries, late jobs, failed commits, a clock set back, replaced declarations, full quotas and bounded maintenance: is an event appended once while it is remembered, in the order of its stream, no faster than declared; is a retry told so however full the quotas are; can the database be opened again; do expired rows leave? | holds; refines `EventLog` |
| `machine_race_in_cleanup` | A comment on `Race` | violated, see 7 |
| `finalization` | With a dropped future or a failed step anywhere: is every finalizer started exactly once, and a selected tree finalized in the end, so that no guard was left behind? | holds |
| `finalization_two_hosts` | Two hosts and the actor's task compete, while body and finalizer open handles: one owner, body joined first and handles released before the end (`FinalizedInOrder`), the tree closed at once? | holds |
| `finalization_late_handle` | A comment on handle installation | violated, see 7 |
| `process_records` | Is the first terminal decision the committed one, and no call started after completion?  Do tree links agree and is no reapable entry forgotten (`TableSound`)?  Are accounts exact after refusals half-way and settlements in any order? | holds |
| `submission` | Retried, dropped, cancelled, timed-out, crashed and unknown-commit submissions: does a request run at most once, are all callers told one result, does a confirmed cancellation hold, is every slot, charge and byte accounted for, does an attempt with a deadline end? | holds; refines `OnceLedger` |
| `replication` | Sessions and processes lost at every step, detached calls landing late: is what the publisher counts as confirmed durable at the receiver, can no store meet one of its "corrupt" branches, does nothing unprojected leave an inbox, and is everything delivered unless an operator has to act? | holds; refines `ReplicatedLog` |
| `replication_gap` | A sentence of the configuration guide | violated, see 7 |
| `federated_call` | Crashes of either host, lost and late requests, jobs that outlive their waiters, withdrawn authority, deadlines, shutdown, retirement: does the program run at most once, is what the source records true of the target, can both ledgers be read back, does every attempt answer and every cancellation arrive? | holds; refines `RemoteCall` |
| `call_replay_retired` | Two comments on replays | violated, see 7 |

Where a run is about several parts that share no state (`core_structures`,
`process_records`, `machine_and_source`), a behaviour picks one of them and the
others stand still; nothing is composed that the code does not compose.

Every property of a passing run is broken by a mutant: a definition replaced by
one of the "Fault:" operators, under the same configuration.

Deadlock checking is off where the modelled system may really stop: a finished
program, a capability table whose generations are used up, a process tree that
is finalized, a log at its bound with nothing left to do.

## 4. Bounds

- *HandleTable*: three slots give chains of length three and the reuse of an
  ancestor's slot below a live descendant; two generations give reuse and
  retirement; `MaxIssued` bounds the keys a run issues and not the table.
- *FramePool*: three stacks over four slots; *Channel*: capacity three, enough to wrap.
- *Machine*: an execution is a program with its limits, and `Init` chooses one.  The
  programs in `MCMachine` each combine constructs whose interplay is in question
  (cleanup inside catch, a race inside cleanup, a race inside a join inside a
  scope).  Each runs within `Ample` limits, under which nothing is refused, and
  within `Tight` ones, all of which are reached; `Reusing` has seven slots, for
  branches below their parent.  `limits.tickets` bounds a counter that is 64 bits
  wide; steps are counted only where there is a quota of them.
- *Finalization*: a request and its actor with one finalizer; one host and a fault
  at any point (`MaxFaults`), or two hosts without faults.  The liveness property
  is checked in the first, where handles are not opened.
- *Budget*: a parent with two children and three calls; the parent is the tighter.
- *Retention*: the root and three identifiers at capacities two and three, so that
  admission has to reclaim; `Batch` is 1 (32 in the code), so that reclaiming takes
  several rounds.  `MaxLoad` bounds identifiers and holds (tickets, captures, calls)
  together: two holds at a time on two processes, or one on three, with tasks and
  children on top.
- *Services*: each run starts in one of several *setups*, which say what operators do and
  which faults happen, and how often; a single setup with everything would be
  out of reach.  The setups are listed with their purpose in the `MC` module.
  *Submission*: three attempts at one or two identities over two retry epochs, one
  or two faults.  *Replication*: two nodes, up to three subscriptions and three
  records, pages of two, two losses, two delivery generations and two revisions
  of an authority.  *FederatedCall*: one call, two attempts, two kernel tasks, clocks
  that pass both deadlines, one fault besides the operators.  *SourceStore*: two
  events and payloads, two streams, six authority epochs, a sink, rate window and
  retention that fill up, one failed commit, `Batch` 1, so that a maintenance pass
  takes several calls.
- Symmetry is used for owners, tasks, frames and hosts, in the two runs without liveness
  that need it (`core_structures`, `finalization_two_hosts`).

## 5. Fairness

- `Machine!FairSpec`: the embedding goes on calling `advance`, and its host answers the
  requests it is asked to cancel and, after a cancellation, those of cleanup.
  Other requests need never be answered.  `Terminates` alone also needs them, and
  has it as its hypothesis: the contract of `Advance` and `HostEvent`.
- `Finalization!Fairness`: a call that is not dropped proceeds (Tokio polls woken
  tasks), an aborted task is dropped and unwinds, and a host keeps draining
  (`drain_cleanup`), with strong fairness because other work of the same host may
  come between.  Bodies need not return, and faults are never required or
  excluded beyond their bound.
- `Submission!Fairness`: the deadline sweeper and the clock go on, workers finish the
  transactions they accepted, attempts are polled.  A program may run for ever
  while its request is running; a request that is not is cancelled in the kernel.
- `Replication!Spec`: `supervise_peer` reconnects after every end of a session, for
  ever, so each node's session loop is weakly fair.  Operators, losses and detached
  calls are not: `Delivered` holds whether or not they come.
- `FederatedCall!Fairness`: what was begun goes on, programs excepted.  Endpoint, worker
  and late handlers have strong fairness, because each needs the admission lock,
  a fair (first come, first served) Tokio mutex that others hold in between; a
  request to a host that has died times out.
- `SourceStore!Fairness`: time passes, the daemon's maintenance interval ticks for
  ever, and a daemon whose database failed is restarted.

## 6. What is proved

| Module | Theorems | Inductive invariant |
| --- | --- | --- |
| `HandleTableProofs` | `TypeCorrect`, `ChildCountCorrect`, `AttenuationCorrect`, `NoParentCycleCorrect`, `ReleasedIsAnchorCorrect`, `KeysIssuedOnceCorrect` | `TypeOK`, the counts, attenuation, acyclicity, and `Bookkeeping`, which ties issued and dead keys to the generations of slots |
| `ChannelProofs` | `RingCorrect`, `FifoImplemented` | `RingWellFormed` |
| `ScopeLifecycle` | `TypeCorrect`, `SingleFinalizer`, `FirstDecision`, `ClosedForGood`, `CleanupKept`, `CallsEnd` | `TypeOK`, `OneFinalizer`, and `Consistent`, which ties the recorded decision to the scope's status |
| `FinalizationProofs` | `FinalizationInvariant`, `OneOwnerAlways`, `AlwaysFinalizedInOrder`, `TreesStayClosed`, `FinalizersStartOnce` | `TypeOK`, `Shape` (what a call is about at each place), `Owned`, `ClosedTree`, `Emptied`, `Drained` and `Worked`, what each place of a call has already done |
| `SubmissionProofs` | `ReservationsOwned`, `RunsOnce`; `ResultsHaveOneOrigin`, `AnswersAlwaysAgree`; `CancellationBinds`, `ConfirmedCancellationHolds` | `IInv`: the shape of the state, `JobsMatch` (an attempt waits for the job it handed out) and `Owned`; `AInv` adds `OneProducer` and `Sources`; `CInv` adds `Cancels` |
| `FederatedCallProofs` | `ProgramRunsOnce`, `InvokesAreMarked`; `StoresStayReadable`; `LedgerIsTruthful`; `RefusalIsTruthful`, `RemoteCallImplemented` | `IInv`: the shape of the state, `Owned` (whoever runs is the task the directory accepted), and `Reached => Marked`; `SInv` adds what the two stores' rows and indices agree on; `TInv` adds `TargetTruth`, `OnTheWay` and `Kept`; `CInv` adds `RefusalsHold` |
| `ReplicationProofs` | `Invariant`, `ConfirmedCorrect`, `StoresCorrect`, `ProjectionCorrect`, `LogImplemented` | `StoreOk` (publisher and receiver rows, `Good` for each subscription), and `LinkOk` and `CallsOk` for what sessions and late calls go by |
| `SourceStoreProofs` | `AppendedOnceCorrect`, `InOrderCorrect` | the shape of the state, `Keyed`, `Issued`, `Counted`, `Remembered` and the two properties |

Assumptions are on constants only.  Capacities, limits, deadlines and windows are
natural numbers; `None` and `Nil` are none of the values they stand beside; a setup
maps attempts to request identities and deadlines, and lists requests that are well
formed (`SubmissionSetups`, `SetupAssumption`).  In `Finalization` the parents of processes
are processes, an actor is neither a request nor a host, and a body ends with a
terminal status; in `FederatedCall` the slot of requests without a sender is no sender, a refusal is
neither silence nor doubt nor a result, and a setup's programs end with outcomes;
in `Replication` every subscription has a subscriber.  TLC evaluates all of them on
the runs.

*HandleTable.*  The child count is exact only together with the fact that the parent
being visited by reclamation has one child more on its count than in the table,
and that a reclaimed slot changes its generation, so that a key never names a
later occupant.  `Bookkeeping` supplies the latter.

*Channel.*  The refinement of `Fifo` rests on one lemma per operation, which relates
the sequence of occupied slots before and after.

*Scope.*  `FirstDecisionWins` is not inductive: the decision moves from the `terminal`
field to the status when it is committed, and `Consistent` says where it is at
each moment.

*Finalization*, for every tree, any number of hosts and any number of failed or dropped
attempts.  `OneOwner` counts the callers that hold a process's guard; `Owned` says the
same without counting: guards of two callers are disjoint, and together they are
the processes whose finalizer is active.  A join, an emptied handle table or a
drained list stays true only because others leave them alone, so the proof first
shows what no step can do (`Frame`: a closed scope does not admit again, a closed
process gets no new task, only an open process or a running finalizer opens a
handle, only a starting body installs finalizers), and then, per action, that the acting call has done what its next place
claims (`Worked`).

*Submission.*  That a request runs once is not inductive, because an attempt that
was dropped may still have a release or a commit queued.  `Owned` says that a
pending row belongs to exactly one attempt, wherever that attempt or its job is,
until it is released unused or replaced; and that an identity that ran is never
absent in an open retry range.  With it, each step is a step of `OnceLedger`.
For answers, `Sources` traces every result in a row, in a job's answer or told to
a caller to the attempt that produced it, with the same identity and submission
hash, and `OneProducer` says there is at most one such attempt per identity.  For
cancellation, `Cancels` follows a confirmed cancellation from the registry's entry
through the attempt's output and its transaction into the row.

*FederatedCall.*  A call's program runs when a task's acceptance is on the row, and the
row accepts one task for good.  For the mark, `Reached` follows an Invoke from
the wire through handlers, jobs, the directory and the tasks; no step puts it
there before the source's record has the mark, and no transaction of the source
removes the mark except retirement.  That the stores can be read back needs that
each index row is written in the transaction that changes the call it lists, and
that a transaction decided from what was read earlier still finds what it relies
on.  For the ledger, `TargetTruth` ties the directory row to the tasks, `OnTheWay` says that
an inspection on the wire, with a sender or in an abandoned job is true of the
target, and `Kept` that what the source keeps of one is; a true inspection stays
true (`StaysTrue`), so its delay or repetition does no harm.  For the refinement of
`RemoteCall`, `OnTheWay` also says that the result an attempt is about to return is the
one the program returned, and `RefusalsHold` that when an attempt has been refused
nothing of an Invoke has reached the target: only the endpoint sends one, after
its mark, so none leaves before the kernel asks again.  The hypothesis of
`RemoteCallImplemented`, that the call is not retired, cannot be dropped: section 7 has
the behaviour that breaks the promise without it.  The run `federated_call` checks the
refinement with retirement, but with targets that can be reached.

*Replication.*  `Good` relates the publisher's row, receipt and offer of one subscription to
the receiver's row, ledger and inbox and to the head of the stream.  Its lemmas are
about these values alone, and each transaction is one of them applied to one
subscription (`Sound`: the stores stay well formed, nothing durable is lost, the step
is one of `ReplicatedLog`, and only what was projected leaves an inbox).  Sessions
and calls that outlived them use values they read earlier.  `LinkIn` and `CallIn` say
that all of these are behind what is durable now or within the stream; because
stores only grow (`Grows`), a step elsewhere leaves that true, and a late call can
only repeat, be refused, or do what a session could do now.

*SourceStore.*  An event's decision may be swept as soon as it expires, so the rows alone
do not say that an event was appended.  `Remembered` says that it is either still
decided, or too old for any time at which the scope can decide again: maintenance
raises the scope's decision time floor before it removes a row, so a clock set
back does not bring the event back.

Only model-checked:

- all liveness, under fairness, which is out of the prover's reach;
- the accounts, `Accounted` of the submissions and `ExactAccounts` of the budgets: sums
  over rows, whose laws need induction over data;
- the refinements of `Delegation`, `Stacks` and `EventLog` (whose rate clause counts with
  `SelectSeq`, and whose mapping chooses rows), and that of `RemoteCall` for calls that are
  retired while their target can be reached;
- `RecordsAgree` and `RetryIsDuplicate` of `SourceStore`, and everything about `Machine`,
  `FramePool`, `Budget` and `Retention`, whose steps fold over stacks, lineages and
  trees of tasks.

## 7. Where code and comments disagree

- **Race inside cleanup.**  `program.rs:61`: "Preserve the first result after
  cancelling and cleaning up the loser."  The join picks the right branch if the
  left one is marked cancelled (`machine.rs:944`).  `cancel()` marks both branches of
  a race that runs inside cleanup, so the right one's result is taken even when
  the left was first.  `RaceKeepsFirst` is the statement that does hold.
- **Late handles.**  `open/prepared.rs:34`: "Finalization closes admission before
  taking that same lock to release handles, so it cannot miss a late
  installation."  `admits_handles` (`process.rs:696`) admits lexical cleanup while the
  process is finalizing.  A request's body is not joined, so its cleanup can
  install a handle after another host has released them.  `HandlesReleased`, a part
  of `FinalizedInOrder`, states what holds: handles of bodies and finalizers are released.
- **A gap with a snapshot.**  `docs/src/configuration.md:377` says that stock can archive
  an offered snapshot for a private history gap.  A follower that accepted a record,
  lost the answer to its acknowledgement and was then trimmed past its cursor
  replays that acknowledgement on every reconnect, is told to resynchronise, and
  ends the session before the branch that installs the snapshot
  (`private_follows.rs:149`).  `Delivered` names this state (`Unconfirmable`) among those
  that wait for an operator.
- **A replay of a retired call.**  `call_source.rs:41`: "absence of a call row is not fresh
  work", and `remote_endpoint.rs:472`: nothing "may turn that effect into a known
  pre-dispatch failure".  A replay whose origin check answered Active can lose its
  record to retirement before it reads it (`remote_endpoint.rs:400`); without a
  session, or past the deadline, it then reports a failure from before dispatch
  for a program that ran.  In the passing run targets are reachable when calls
  are retired, and the bridge answers the replay.

## 8. Observations

What the models showed of behaviour that no document of the repository contradicts:

- When the cleanup budget is spent (`machine.rs:711`) the root halts and `Done` is
  returned while branches are still waiting.
- A call that was settled while its cancellation was requested and not yet
  acknowledged can neither be released nor retired: the acknowledgement is no
  longer asked for.
- A cancelled call whose Prepare never reached the target before its deadline is
  tried again by the worker for ever.  `CancelArrives` has this as an exception.
- A directory row that was bound to a task and never accepted stays Preparing.
- `request_call_deadline_stop` has no caller in `src/` apart from the stores and tests; it
  is an action of its own here.
- The comment on `SourceCommit::rate_limit` says that changing only its maximum "applies
  to the existing period immediately".  The rate row is keyed by the scope's epoch,
  and every installation issues a new one, so through the installer a changed
  maximum also begins a new period; the model follows the code.

## 9. What is not modelled

- Of the modelled parts: taint and provenance, failure texts and reports,
  directory records, the self-wait checks of finalization, attached grants and
  request authorizers, omitted budget limits, the statuses `Waiting` and
  `Suspended` (no method of `Scope` assigns them), 64-bit wrap-around of tickets,
  revisions and budgets; byte sizes except those of request evidence; digests, which are
  taken to be injective; the table capacities of the call ledgers.
- Core: program analysis, linking and `advance_linked`, `suspend` and `resume`.
- Kernel: asynchronous process start, hosted handle index and open plans, the
  executor's driving loop, invocation and data plane, registry, policy, facts, the
  portable runtime.  These have state worth modelling and were not reached.
- Storage: the general state and fact adapters, the in-memory stores (a second
  implementation of the traits whose durable one is modelled), and object storage
  on a file system, which rests on what files and renames survive a crash.
- Gateway: profiles and sessions beyond one access flag, streams of input and
  output, objects, provider sessions, transports.
- Federation: wire codecs, key provisioning, object transfer, hosted and guest
  subjects, public follows.  Console and the assembly of the daemon.
- Front ends, encodings, generated messages and drivers of external services are
  pure data or change nothing inside the process; they stay out.
