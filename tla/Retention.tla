----------------------------- MODULE Retention ------------------------------
(***************************************************************************)
(* Which process entries the kernel's table retains (process/retention.rs, *)
(* process/cleanup.rs, admission in process.rs): children in a vector with *)
(* back references, cleanup tickets that pin an entry, and a queue of      *)
(* entries to reap that every release has to feed.  What makes a process   *)
(* finalize is in Finalization; here its lifecycle is three steps.         *)
(***************************************************************************)
EXTENDS Integers, FiniteSets, FiniteSetsExt, Sequences, SequencesExt, TLC

CONSTANTS
    Root,       \* the system root, never reaped
    MaxId,      \* identifiers run from Root to MaxId
    Capacities, \* the capacities hosts set
    Batch,      \* candidates one round of reclaiming examines, 32 in the code
    MaxLoad,    \* bound on the identifiers issued and the tickets, captures and calls, together
    MaxDrops    \* bound on the pins of an entry that are being dropped

Ids == Root..MaxId

Nobody == Root - 1

VARIABLES
    next,       \* the last identifier that was issued
    table,      \* procs, children, reap_ready and capacity
    admitting,  \* queued entries each admission in progress has still to examine
    dropping    \* pins of each entry whose count is zero but whose drop has not run

vars == <<next, table, admitting, dropping>>

(* An entry of procs; own and inflight count calls of the process itself   *)
(* and of its whole subtree.                                               *)
NewEntry(parent, slot, pins) ==
    [parent |-> parent, parent_slot |-> slot, phase |-> "open", active |-> FALSE,
     pins |-> pins, captures |-> 0, attached |-> FALSE, own |-> 0, inflight |-> 0,
     reap_queued |-> FALSE]

Init ==
    /\ next = Root
    /\ \E c \in Capacities :
          table = [procs |-> [p \in {Root} |-> NewEntry(Nobody, 0, 0)],
                   children |-> [p \in Ids |-> <<>>], reap_ready |-> <<>>, capacity |-> c]
    /\ admitting = <<>>
    /\ dropping = [p \in Ids |-> 0]

Retained(t) == DOMAIN t.procs

(* can_reap.  The publication, steps and finalizers of an entry are taken  *)
(* when its lifecycle completes.                                           *)
CanReap(t, p) ==
    /\ p \in Retained(t)
    /\ LET e == t.procs[p] IN
       /\ e.phase = "finalized" /\ ~e.active
       /\ e.pins = 0 /\ e.captures = 0 /\ ~e.attached /\ e.inflight = 0
       /\ e.parent # Nobody
    /\ t.children[p] = <<>>

(* queue_reap_if_eligible. *)
Queued(t, p) ==
    IF ~CanReap(t, p) \/ t.procs[p].reap_queued THEN t
    ELSE [t EXCEPT !.procs[p].reap_queued = TRUE, !.reap_ready = Append(t.reap_ready, p)]

(* link_entry. *)
Linked(t, p, parent, pins) ==
    [t EXCEPT !.procs = [q \in Retained(t) \cup {p} |->
                           IF q = p THEN NewEntry(parent, Len(t.children[parent]) + 1, pins)
                           ELSE t.procs[q]],
              !.children[parent] = Append(t.children[parent], p)]

(* Fault: the child that moves into the gap keeps its old slot. *)
SwapRemovedBlindly(t, e) ==
    LET line == t.children[e.parent]
        gap == e.parent_slot IN
    [t EXCEPT !.children[e.parent] = Front([line EXCEPT ![gap] = Last(line)])]

(* swap_remove: the last child moves into the gap and learns its new slot. *)
SwapRemoved(t, e) ==
    LET line == t.children[e.parent]
        gap == e.parent_slot
        moved == Last(line) IN
    [t EXCEPT !.children[e.parent] = Front([line EXCEPT ![gap] = moved]),
              !.procs = [q \in Retained(t) |->
                           IF q = moved THEN [t.procs[q] EXCEPT !.parent_slot = gap] ELSE t.procs[q]]]

(* The entry is removed, and unlink_from_parent looks at the parent. *)
Removed(t, p) ==
    LET e == t.procs[p]
        gone == [t EXCEPT !.procs = [q \in Retained(t) \ {p} |-> t.procs[q]]] IN
    Queued(SwapRemoved(gone, e), e.parent)

(* One candidate of reap_finalized. *)
ReapedOne(t) ==
    IF t.reap_ready = <<>> THEN t
    ELSE LET p == Head(t.reap_ready)
             rest == [t EXCEPT !.reap_ready = Tail(t.reap_ready)]
             seen == IF p \in Retained(t) THEN [rest EXCEPT !.procs[p].reap_queued = FALSE] ELSE rest
         IN IF CanReap(seen, p) THEN Removed(seen, p) ELSE seen

Reaped(t, limit) ==
    LET reaped[n \in 0..limit] == IF n = 0 THEN t ELSE ReapedOne(reaped[n - 1])
    IN reaped[limit]

(* A process followed by its ancestors. *)
Lineage(t, p) ==
    LET line[q \in Nobody..MaxId] ==
            IF q = Nobody THEN <<>> ELSE <<q>> \o line[t.procs[q].parent]
    IN line[p]

HasRoom(t) == Cardinality(Retained(t)) < t.capacity

(* What holds entries at the moment, other than tasks. *)
Holds ==
    MapThenSumSet(LAMBDA p : table.procs[p].pins + table.procs[p].captures + table.procs[p].own,
                  Retained(table))

-----------------------------------------------------------------------------
(* fresh_id, and the length of the queue reclaim_for_admission starts from. *)
(* An identifier is never issued again, whether admission succeeds or not.  *)
fresh_id ==
    /\ next < MaxId /\ next + Holds < MaxLoad /\ next' = next + 1
    /\ admitting' = admitting @@ ((next + 1) :> Len(table.reap_ready))
    /\ UNCHANGED <<table, dropping>>

(* One round of reclaim_for_admission; the table is unlocked between two. *)
reclaim_for_admission(p) ==
    /\ admitting[p] > 0
    /\ LET examined == Min({admitting[p], Batch}) IN
       /\ table' = Reaped(table, examined)
       /\ admitting' = [admitting EXCEPT ![p] = IF HasRoom(table') THEN 0 ELSE @ - examined]
    /\ UNCHANGED <<next, dropping>>

(* check_child_admission. *)
CanAdmit(t, parent) ==
    HasRoom(t) /\ parent \in Retained(t) /\ t.procs[parent].phase = "open"

(* admit_child, or with a ticket admit_request. *)
admit_child(p, parent, pins) ==
    /\ admitting[p] = 0 /\ next + Holds + pins <= MaxLoad
    /\ table' = IF CanAdmit(table, parent) THEN Linked(table, p, parent, pins) ELSE table
    /\ admitting' = [q \in DOMAIN admitting \ {p} |-> admitting[q]]
    /\ UNCHANGED <<next, dropping>>

(* A change of the table alone. *)
Become(t) == table' = t /\ UNCHANGED <<next, admitting, dropping>>

(* A change of one entry, after which the code looks whether to queue it. *)
Change(p, e) == Become(Queued([table EXCEPT !.procs[p] = e], p))

(* A change that can only make an entry harder to reap. *)
Hold(p, e) == Become([table EXCEPT !.procs[p] = e])

set_capacity(c) ==
    /\ Cardinality(Retained(table)) <= c
    /\ Become([table EXCEPT !.capacity = c])

reap_finalized(limit) == Become(Reaped(table, limit))

(* discard_unstarted_child: a child whose body the scheduler refused. *)
discard_unstarted_child(p) ==
    /\ table.procs[p].parent # Nobody
    /\ LET e == table.procs[p] IN
       e.phase = "open" /\ e.captures = 0 /\ e.inflight = 0 /\ ~e.attached
    /\ table.children[p] = <<>>
    /\ Become(Removed(table, p))

begin_finalizing(p) ==
    /\ table.procs[p].phase # "finalized" /\ ~table.procs[p].active
    /\ Hold(p, [table.procs[p] EXCEPT !.phase = "closing", !.active = TRUE])

complete_finalization(p) ==
    /\ table.procs[p].active /\ table.procs[p].phase = "closing"
    /\ Change(p, [table.procs[p] EXCEPT !.phase = "finalized"])

release_finalizing(p) ==
    /\ table.procs[p].active
    /\ Change(p, [table.procs[p] EXCEPT !.active = FALSE])

(* cleanup_ticket: the tickets of an entry share one pin. *)
cleanup_ticket(p) ==
    /\ next + Holds < MaxLoad
    /\ Hold(p, [table.procs[p] EXCEPT !.pins = @ + 1])

(* The strong count of a pin falls before CleanupPin::drop has the lock. *)
drop_ticket(p) ==
    /\ table.procs[p].pins > 0 /\ dropping[p] < MaxDrops
    /\ table' = [table EXCEPT !.procs[p].pins = @ - 1]
    /\ dropping' = [dropping EXCEPT ![p] = IF table.procs[p].pins = 1 THEN @ + 1 ELSE @]
    /\ UNCHANGED <<next, admitting>>

drop_pin(p) ==
    /\ dropping[p] > 0 /\ dropping' = [dropping EXCEPT ![p] = @ - 1]
    /\ table' = Queued(table, p)
    /\ UNCHANGED <<next, admitting>>

(* capture_task looks only whether the entry is there. *)
capture_task(p) ==
    /\ next + Holds < MaxLoad
    /\ Hold(p, [table.procs[p] EXCEPT !.captures = @ + 1])

attach_managed_task(p) ==
    /\ table.procs[p].captures > 0 /\ table.procs[p].phase = "open" /\ ~table.procs[p].attached
    /\ Hold(p, [table.procs[p] EXCEPT !.attached = TRUE])

release_task(p) ==
    /\ table.procs[p].attached
    /\ Change(p, [table.procs[p] EXCEPT !.attached = FALSE])

(* ManagedCaptures::drop, which follows the release of the same task. *)
drop_captures(p) ==
    /\ table.procs[p].captures > (IF table.procs[p].attached THEN 1 ELSE 0)
    /\ Change(p, [table.procs[p] EXCEPT !.captures = @ - 1])

(* reserve_budget on the line of an owner whose body, cleanup or finalizer  *)
(* may call; the limits are Budget's.                                       *)
reserve(p) ==
    /\ next + Holds < MaxLoad /\ table.procs[p].phase # "finalized"
    /\ Become([table EXCEPT !.procs = [q \in Retained(table) |->
                  IF q \in ToSet(Lineage(table, p))
                  THEN [table.procs[q] EXCEPT !.inflight = @ + 1, !.own = IF q = p THEN @ + 1 ELSE @]
                  ELSE table.procs[q]]])

(* Fault: settling looks only at the owner of the call. *)
SettledOwner(t, p) ==
    FoldLeft(LAMBDA s, q : [s EXCEPT !.procs[q].inflight = @ - 1], Queued(t, p), Lineage(t, p))

(* settle_budget credits each account on the line and looks at it. *)
Settled(t, p) ==
    FoldLeft(LAMBDA s, q : Queued([s EXCEPT !.procs[q].inflight = @ - 1], q), t, Lineage(t, p))

settle(p) ==
    /\ table.procs[p].own > 0
    /\ Become(Settled([table EXCEPT !.procs[p].own = @ - 1], p))

Entry(p) ==
    \/ discard_unstarted_child(p)
    \/ begin_finalizing(p) \/ complete_finalization(p) \/ release_finalizing(p)
    \/ cleanup_ticket(p) \/ drop_ticket(p)
    \/ capture_task(p) \/ attach_managed_task(p) \/ release_task(p) \/ drop_captures(p)
    \/ reserve(p) \/ settle(p)

Next ==
    \/ fresh_id
    \/ \E p \in DOMAIN admitting : reclaim_for_admission(p)
    \/ \E p \in DOMAIN admitting, parent \in Ids, pins \in 0..1 : admit_child(p, parent, pins)
    \/ \E c \in Capacities : set_capacity(c)
    \/ \E limit \in 1..2 : reap_finalized(limit)
    \/ \E p \in Ids : drop_pin(p)
    \/ \E p \in Retained(table) : Entry(p)

Spec == Init /\ [][Next]_vars

-----------------------------------------------------------------------------
(* The links of the tree agree in both directions: every child is retained *)
(* under a retained parent, at the slot it remembers, and nowhere else.    *)
(* unlink_from_parent moves another child into the gap it leaves.          *)
ChildrenIndexed ==
    /\ \A p \in Retained(table) \ {Root} :
          LET e == table.procs[p] IN
          /\ e.parent \in Retained(table)
          /\ e.parent_slot \in 1..Len(table.children[e.parent])
          /\ table.children[e.parent][e.parent_slot] = p
    /\ \A p \in Ids : /\ IsInjective(table.children[p])
                      /\ \A q \in ToSet(table.children[p]) :
                            q \in Retained(table) /\ table.procs[q].parent = p

(* No entry is leaked: one that can be reaped is in the queue, or the drop  *)
(* of its last pin is still to put it there.  Every release of a hold, in   *)
(* whatever order, has to look.                                             *)
ReapNotLost ==
    \A p \in Ids : CanReap(table, p) => p \in ToSet(table.reap_ready) \/ dropping[p] > 0

(* The table survives any order of admissions, releases and reapings: its   *)
(* links agree and nothing that can go is forgotten (process/retention.rs,  *)
(* process/cleanup.rs).                                                     *)
TableSound == ChildrenIndexed /\ ReapNotLost
=============================================================================
