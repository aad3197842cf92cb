----------------------------- MODULE SourceStore -----------------------------
(* The store that admits events of an external Source                         *)
(* (xolotl-storage-redb, state/source.rs), for one installation with one      *)
(* Source projection.                                                         *)
(*                                                                            *)
(* Every operation is one serializable transaction on a worker that outlives  *)
(* the caller, so a request is applied whenever its job runs, however stale   *)
(* it is by then.  A request may be sent again, and its answer may be lost:   *)
(* requests are unconstrained.  A rejected one changes nothing.               *)
(*                                                                            *)
(* A failed database commit may or may not have taken effect, and no          *)
(* transaction runs until the daemon reopens the database.                    *)
EXTENDS SourceConstants, Sequences, FiniteSets

VARIABLES
  plan,          \* the chosen setup
  installation,  \* epoch of the catalog record, or Nil
  scope,         \* the active Source incarnation, or Nil
  issued,        \* last authority epoch issued
  events,        \* event decisions \
  rates,         \* rate windows     > by key, the rows of SOURCE_META_TABLE
  streams,       \* open streams    /
  streamCount,   \* SOURCE_STREAM_COUNT
  cursor,        \* the last key maintenance examined, or Nil
  receipts,      \* claim receipts
  sink,          \* length of the sink list, or Nil when it is not a list
  clock,         \* the host clock
  window,        \* the dedupe window the daemon runs with
  fenced,        \* the database must be reopened
  failures,
  log            \* history: the events appended to the sink

table == <<events, rates, streams, streamCount, cursor, receipts>>
authority == <<installation, scope, issued>>
host == <<plan, clock, window, fenced, failures>>
vars == <<authority, table, sink, host, log>>

\* keys of the metadata table, ordered as its byte strings are
EventKey(r) == <<1, r.scope, Incarnation(r), r.id>>
RateKey(epoch) == <<2, epoch, 0, 0>>
StreamKey(epoch, name) == <<3, epoch, name, 0>>

Before(j, k) ==
  \E n \in 1 .. 4 : j[n] < k[n] /\ \A m \in 1 .. n - 1 : j[m] = k[m]

Rows == DOMAIN events \cup DOMAIN rates \cup DOMAIN streams

Without(f, S) == [k \in DOMAIN f \ S |-> f[k]]
With(f, k, v) == [j \in DOMAIN f \cup {k} |-> IF j = k THEN v ELSE f[j]]

Active(epoch) == scope # Nil /\ scope.epoch = epoch

Init ==
  /\ plan \in SourceSetups
  /\ installation = Nil /\ scope = Nil /\ issued = 0
  /\ events = <<>> /\ rates = <<>> /\ streams = <<>>
  /\ streamCount = 0 /\ cursor = Nil /\ receipts = {}
  /\ sink = 0
  /\ clock = 0 /\ window \in plan.windows /\ fenced = FALSE /\ failures = 0
  /\ log = <<>>

Fault == failures < plan.failures /\ failures' = failures + 1

\* the transaction commits, or its effect is kept though the commit failed
Committed ==
  /\ \/ UNCHANGED <<fenced, failures>>
     \/ "fail" \in plan.ops /\ Fault /\ fenced' = TRUE
  /\ UNCHANGED <<plan, clock, window>>
------------------------------------------------------------------------------
(* Installations *)

(* compare_install by a caller that holds the current revision: every Source  *)
(* projection gets a new scope epoch, and a new installation its own epoch.   *)
(* `decl` is Nil when the projection is no longer a Source.                  *)
CompareInstall(decl) ==
  LET first == IF installation = Nil THEN issued + 1 ELSE issued
  IN  /\ ~fenced /\ first + 1 <= plan.epochs
      /\ installation' = IF installation = Nil THEN first ELSE installation
      /\ scope' = IF decl = Nil THEN Nil
                  ELSE [epoch |-> first + 1, decl |-> decl, revision |-> 0, floor |-> 0]
      /\ issued' = IF decl = Nil THEN first ELSE first + 1
      /\ Committed /\ UNCHANGED <<table, sink, log>>

CompareRetire ==
  /\ "retire" \in plan.ops /\ ~fenced /\ installation # Nil
  /\ installation' = Nil /\ scope' = Nil
  /\ Committed /\ UNCHANGED <<issued, table, sink, log>>
------------------------------------------------------------------------------
(* Streams *)

(* An open stream answers the retry of its Open with the incarnation it has,  *)
(* and another Open with AlreadyOpen: neither changes anything.               *)
OpenStream(epoch, name, expected) ==
  LET key == StreamKey(epoch, name)
  IN  /\ ~fenced /\ issued < plan.epochs
      /\ Active(epoch) /\ key \notin DOMAIN streams
      /\ scope.revision = expected
      /\ streamCount < StreamLimit
      /\ issued' = issued + 1
      /\ scope' = [scope EXCEPT !.revision = @ + 1]
      /\ streams' = With(streams, key, [epoch |-> issued + 1, openedAt |-> expected,
                                         lastSeq |-> 0])
      /\ streamCount' = streamCount + 1
      /\ Committed /\ UNCHANGED <<installation, events, rates, cursor, receipts, sink, log>>

RetireStream(epoch, name, incarnation) ==
  LET key == StreamKey(epoch, name)
  IN  /\ ~fenced
      /\ Active(epoch) /\ key \in DOMAIN streams
      /\ streams[key].epoch = incarnation
      /\ scope' = [scope EXCEPT !.revision = @ + 1]
      /\ streams' = Without(streams, {key})
      /\ streamCount' = streamCount - 1
      /\ Committed
      /\ UNCHANGED <<installation, issued, events, rates, cursor, receipts, sink, log>>
------------------------------------------------------------------------------
(* Events *)

\* hits of the scope's rate window that still count at this clock
Recent(d, epoch) ==
  LET row == rates[RateKey(epoch)]
      counts(hit) == hit > clock - d.span
  IN  IF RateKey(epoch) \notin DOMAIN rates \/ row.span # d.span THEN <<>>
      ELSE SelectSeq(row.hits, counts)

RateFull(d, epoch) == d.rate # Nil /\ Len(Recent(d, epoch)) >= d.rate

\* the hits with the decision time inserted in order
Hit(hits) ==
  LET early(hit) == hit <= clock
      late(hit) == hit > clock
  IN  SelectSeq(hits, early) \o <<clock>> \o SelectSeq(hits, late)

\* rows that count against the retention limit: all but streams and the cursor
Retained == Cardinality(Rows) - streamCount

Added(r) ==
  (IF EventKey(r) \in DOMAIN events THEN 0 ELSE 1)
    + (IF r.decl.rate # Nil /\ RateKey(r.scope) \notin DOMAIN rates THEN 1 ELSE 0)

\* the outcome of the overflow policy on a sink of this length
Overflow(d) ==
  CASE d.policy = "DropOldest" -> "Room"
    [] d.policy = "Backpressure" ->
         IF sink >= d.pause \/ sink >= d.capacity THEN "Backpressured" ELSE "Room"
    [] d.policy = "DisconnectBridge" ->
         IF sink >= d.capacity THEN "CapacityExceeded" ELSE "Room"

Position(r) == IF r.position = Nil THEN Nil
               ELSE [stream |-> r.position.stream, seq |-> r.position.seq]

\* the checks that follow the retained decision, in the order they are made
Quotas(r) ==
  LET row == streams[StreamKey(r.scope, r.position.stream)]
  IN  IF r.position # Nil /\ r.position.seq < row.lastSeq + 1 THEN "SequenceReplay"
      ELSE IF r.position # Nil /\ r.position.seq > row.lastSeq + 1 THEN "SequenceGap"
      ELSE IF RateFull(r.decl, r.scope) THEN "RateLimited"
      ELSE IF sink = Nil THEN "SinkTypeMismatch"
      ELSE IF Overflow(r.decl) # "Room" THEN Overflow(r.decl)
      ELSE IF Added(r) # 0 /\ Retained + Added(r) > plan.retention
           THEN "RetentionCapacityExceeded"
      ELSE "Accepted"

\* a decision retained for the event id answers before any quota does
Decision(r) ==
  LET row == events[EventKey(r)]
  IN  IF EventKey(r) \in DOMAIN events /\ clock <= row.expires
      THEN IF row.payload = r.payload /\ row.position = Position(r) THEN "Duplicate"
           ELSE "EventIdConflict"
      ELSE Quotas(r)

(* Fault: the incarnation an ordered event names is not compared. *)
OutcomeAnyIncarnation(r) ==
  IF r.decl.capacity = 0 THEN "CapacityExceeded"
  ELSE IF ~Active(r.scope) THEN "ScopeInactive"
  ELSE IF scope.decl # r.decl THEN "DeclarationMismatch"
  ELSE IF clock < scope.floor THEN "Aborted"
  ELSE IF r.position # Nil /\ StreamKey(r.scope, r.position.stream) \notin DOMAIN streams
       THEN "StreamInactive"
  ELSE Decision(r)

\* commit_source up to its first write
Outcome(r) ==
  IF r.decl.capacity = 0 THEN "CapacityExceeded"
  ELSE IF ~Active(r.scope) THEN "ScopeInactive"
  ELSE IF scope.decl # r.decl THEN "DeclarationMismatch"
  ELSE IF clock < scope.floor THEN "Aborted"
  ELSE IF r.position = Nil THEN Decision(r)
  ELSE LET key == StreamKey(r.scope, r.position.stream)
       IN  IF key \notin DOMAIN streams THEN "StreamInactive"
           ELSE IF streams[key].epoch # r.position.epoch THEN "StreamEpochMismatch"
           ELSE Decision(r)

\* what the history records of an accepted request
Entry(r) ==
  [scope |-> r.scope, stream |-> Incarnation(r), id |-> r.id, payload |-> r.payload,
   seq |-> IF r.position = Nil THEN 0 ELSE r.position.seq,
   at |-> clock, expires |-> clock + window]

\* sink length after the append; DropOldest first drops down to capacity - 1
Appended(d) == (IF sink >= d.capacity THEN d.capacity - 1 ELSE sink) + 1

(* Fault: the receipt of an expired decision stays when it is replaced. *)
SupersededKept(key) == receipts

\* the receipts without the one of the decision a key still holds
Superseded(key) ==
  {p \in receipts : key \notin DOMAIN events \/ p # [key |-> key, claim |-> events[key].claim]}

CommitSource(r) ==
  LET claim == Len(log) + 1
      key == EventKey(r)
      name == StreamKey(r.scope, r.position.stream)
  IN  /\ ~fenced /\ Len(log) < plan.log
      /\ Outcome(r) = "Accepted"
      /\ scope' = [scope EXCEPT !.floor = clock]
      /\ sink' = Appended(r.decl)
      /\ events' = With(events, key, [claim |-> claim, expires |-> clock + window,
                                      payload |-> r.payload, position |-> Position(r)])
      /\ streams' = IF r.position = Nil THEN streams
                    ELSE [streams EXCEPT ![name].lastSeq = r.position.seq]
      /\ rates' = IF r.decl.rate = Nil THEN rates
                  ELSE With(rates, RateKey(r.scope),
                            [span |-> r.decl.span, hits |-> Hit(Recent(r.decl, r.scope))])
      /\ receipts' = Superseded(key) \cup {[key |-> key, claim |-> claim]}
      /\ log' = Append(log, Entry(r))
      /\ Committed /\ UNCHANGED <<installation, issued, streamCount, cursor>>
------------------------------------------------------------------------------
(* Maintenance *)

Expired(k) ==
  \/ k \in DOMAIN events /\ events[k].expires < clock
  \/ k \in DOMAIN rates
     /\ clock >= rates[k].hits[Len(rates[k].hits)] + rates[k].span
  \/ k \in DOMAIN streams /\ ~Active(k[2])

\* the rows one call examines, at most Batch of those after the cursor
Ahead == {k \in Rows : cursor = Nil \/ Before(cursor, k)}
Candidates == {k \in Ahead : Cardinality({j \in Ahead : Before(j, k)}) < Batch}

(* Fault: maintenance leaves the decision time floor where it was. *)
DecisionTimeNotRaised(S) ==
  /\ (\E k \in S : Active(k[2])) => clock >= scope.floor
  /\ UNCHANGED scope

\* a call that examines a row of the active scope is a decision at that time
DecisionTime(S) ==
  IF \E k \in S : Active(k[2])
  THEN clock >= scope.floor /\ scope' = [scope EXCEPT !.floor = clock]
  ELSE UNCHANGED scope

(* Fault: a call that reaches the end leaves the cursor on the last row. *)
NextCursorKept(S) == IF S = {} THEN cursor ELSE CHOOSE k \in S : \A j \in S : ~Before(k, j)

\* the last row examined, or Nil when there is nothing after it
NextCursor(S) ==
  IF S = Ahead THEN Nil ELSE CHOOSE k \in S : \A j \in S : ~Before(k, j)

MaintainSource ==
  LET gone == {k \in Candidates : Expired(k)}
  IN  /\ ~fenced
      /\ DecisionTime(Candidates)
      /\ events' = Without(events, gone)
      /\ rates' = Without(rates, gone)
      /\ streams' = Without(streams, gone)
      /\ streamCount' = streamCount - Cardinality(gone \cap DOMAIN streams)
      /\ cursor' = NextCursor(Candidates)
      /\ receipts' = {p \in receipts : p.key \notin gone \/ p.claim # events[p.key].claim}
      /\ Committed /\ UNCHANGED <<installation, issued, sink, log>>
------------------------------------------------------------------------------
(* The host *)

\* the program reads the sink, or writes something else there
WriteSink(v) ==
  /\ "sink" \in plan.ops /\ ~fenced /\ sink # v /\ sink' = v
  /\ UNCHANGED <<authority, table, host, log>>

Tick ==
  /\ clock < plan.clock /\ clock' = clock + 1
  /\ UNCHANGED <<authority, table, sink, plan, window, fenced, failures, log>>

\* the host clock is set back
Regress ==
  /\ "regress" \in plan.ops /\ Fault /\ \E t \in 0 .. clock - 1 : clock' = t
  /\ UNCHANGED <<authority, table, sink, plan, window, fenced, log>>

\* a commit fails and none of its effects are kept
FailCommit ==
  /\ "fail" \in plan.ops /\ Fault /\ ~fenced /\ fenced' = TRUE
  /\ UNCHANGED <<authority, table, sink, plan, clock, window, log>>

\* what the rows are checked for when the database is opened
Validated ==
  /\ installation # Nil => installation <= issued
  /\ scope # Nil => installation \notin {Nil, scope.epoch} /\ scope.epoch <= issued
  /\ streamCount = Cardinality(DOMAIN streams)
  /\ \A k \in DOMAIN streams :
       /\ k[2] < streams[k].epoch /\ streams[k].epoch <= issued
       /\ \A j \in DOMAIN streams : streams[j].epoch = streams[k].epoch => j = k
       /\ Active(k[2]) => streams[k].openedAt < scope.revision

\* the daemon restarts, with the dedupe window it is configured with by then
Reopen(w) ==
  /\ fenced /\ Validated
  /\ fenced' = FALSE /\ window' = w
  /\ UNCHANGED <<authority, table, sink, plan, clock, failures, log>>

Next ==
  \/ \E d \in plan.decls : CompareInstall(d)
  \/ CompareRetire
  \/ \E e \in Epochs, n \in plan.streams, v \in 0 .. LastEpoch : OpenStream(e, n, v)
  \/ \E e, i \in Epochs, n \in plan.streams : RetireStream(e, n, i)
  \/ \E r \in plan.commits : CommitSource(r)
  \/ MaintainSource
  \/ \E v \in {0, Nil} : WriteSink(v)
  \/ Tick \/ Regress \/ FailCommit
  \/ \E w \in plan.windows : Reopen(w)

Spec == Init /\ [][Next]_vars

(* Time passes, the maintenance task ticks forever and a daemon whose         *)
(* database failed is restarted.                                              *)
Fairness ==
  /\ WF_vars(Tick) /\ WF_vars(MaintainSource) /\ WF_vars(\E w \in plan.windows : Reopen(w))

FairSpec == Spec /\ Fairness
------------------------------------------------------------------------------
(* Properties *)

Open == {k \in DOMAIN streams : Active(k[2])}

E == INSTANCE EventLog WITH
  grant <- IF scope = Nil THEN Nil ELSE [epoch |-> scope.epoch, decl |-> scope.decl],
  open <- [e \in {streams[k].epoch : k \in Open} |->
             streams[CHOOSE k \in Open : streams[k].epoch = e].lastSeq],
  top <- issued

(* commit_source: whatever is sent again, arrives late, survives a failed     *)
(* commit or meets a clock that was set back, an event is appended at most    *)
(* once while its decision is retained, a stream's events are appended in     *)
(* sequence without a gap, the declared rate is never exceeded, and nothing   *)
(* is appended under a replaced declaration or a closed incarnation.          *)
ImplementsEventLog == E!ESpec

(* Through replaced declarations and decisions, failed commits and partial    *)
(* maintenance passes, a database the store wrote can be opened again         *)
(* (schema.rs, validate_source_stream_rows), the receipts are those of the    *)
(* retained decisions (inspect_source_event: "retained Source event has no    *)
(* claim receipt") and of no other claim, and neither limit is exceeded.      *)
RecordsAgree ==
  /\ receipts = {[key |-> k, claim |-> events[k].claim] : k \in DOMAIN events}
  /\ Validated
  /\ streamCount <= StreamLimit
  /\ Retained <= plan.retention

(* commit_source answers a retained decision before it consults a quota: the  *)
(* retry of an appended event, while its declaration and stream are current   *)
(* and its decision is retained, is a Duplicate however full the rate, sink   *)
(* or retention is; and an event with another payload is not.                 *)
RetryIsDuplicate ==
  \A n \in DOMAIN log, p \in Payloads :
    LET e == log[n]
        sent == IF e.stream = 0 THEN {Nil}
                ELSE {[stream |-> k[3], epoch |-> e.stream, seq |-> e.seq] :
                        k \in {k \in Open : streams[k].epoch = e.stream}}
    IN  Active(e.scope) /\ clock \in scope.floor .. e.expires =>
          \A position \in sent :
            Outcome([scope |-> e.scope, id |-> e.id, payload |-> p,
                     position |-> position, decl |-> scope.decl])
              = IF p = e.payload THEN "Duplicate" ELSE "EventIdConflict"

(* maintain_tick: the bounded passes of the maintenance task reach every row, *)
(* so that once no more events come no row stays expired, or obsolete with    *)
(* its scope, for ever.                                                       *)
ExpiredLeave == []<>(\A k \in Rows : ~Expired(k))
==============================================================================
