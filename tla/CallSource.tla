----------------------------- MODULE CallSource ------------------------------
(* The source's durable record of one outbound call: what it intends, which   *)
(* reservation it got, whether an Invoke may have left, how it ended; the     *)
(* origin that fences the kernel operation it belongs to; and the barrier of  *)
(* a cancellation.  Each operator is one transaction of the redb store.       *)
EXTENDS CallConstants

VARIABLES rec,       \* the outbound record and its two indices
          origin,    \* Fresh, Active, Released or Retired
          barrier,   \* the operation's cancellation was staged
          link,      \* the admission of the target node
          clock      \* the source's trusted clock

sourceVars == <<rec, origin, barrier, link, clock>>

NoRecord == [staged |-> FALSE, pinned |-> 0, prepared |-> None, invoke |-> FALSE,
             terminal |-> None, cancel |-> FALSE, ack |-> None,
             unsettled |-> FALSE, cancelling |-> FALSE]

SourceInit ==
  /\ rec = NoRecord
  /\ origin = "Fresh" /\ barrier = FALSE
  /\ link = [rev |-> 1, on |-> TRUE]
  /\ clock = 0

----------------------------------------------------------------------------
(* OutboundCallRecord.                                                        *)
request_cancellation(r) == [r EXCEPT !.cancel = @ \/ r.terminal = None]

cancel_request(r) ==
  /\ r.cancel /\ r.ack = None /\ r.terminal = None
  /\ r.prepared # None /\ r.prepared.status # "Closed"

AckAllowed(r, c) ==
  IF r.ack # None THEN r.ack = c
  ELSE cancel_request(r) /\ c.rev > r.prepared.rev
record_cancellation(r, c) == [r EXCEPT !.ack = c]

BindPreparedAllowed(r, p) == r.prepared \in {None, p}
bind(r, p) == [r EXCEPT !.prepared = p]

MarkAllowed(r, at) ==
  /\ ~r.cancel /\ r.prepared # None
  /\ r.terminal = None /\ r.prepared.status # "Closed"
  /\ r.invoke \/ (at < PrepareBy /\ at < ExecuteBy)
mark_invoke_possible(r) == [r EXCEPT !.invoke = TRUE]

SettleAllowed(r, i) ==
  /\ r.prepared # None
  /\ i.status \in {"Finished", "Closed"} /\ i.rev >= r.prepared.rev
  /\ i.status = "Finished" => r.invoke /\ i.result # None
  /\ r.terminal \in {None, i}
settle(r, i) == [r EXCEPT !.terminal = i]

responsibility_can_end(r) ==
  /\ r.terminal # None
  /\ r.terminal.stopped /\ ~r.terminal.effects
  /\ r.cancel => r.ack # None

(* restore_record reads a stored row by repeating the operations that made    *)
(* it; a row it cannot repeat is reported as corrupt.                         *)
restore_record(r) ==
  LET bound == [NoRecord EXCEPT !.prepared = r.prepared, !.invoke = r.invoke, !.cancel = r.cancel]
  IN /\ r.invoke => r.prepared # None
     /\ r.ack # None => AckAllowed(bound, r.ack)
     /\ r.terminal # None => SettleAllowed([bound EXCEPT !.ack = r.ack], r.terminal)

----------------------------------------------------------------------------
(* Transactions.  Two of them look at the time: at is the sample the caller   *)
(* took before, or a later one that the store has seen meanwhile.             *)
source_time(sampled) == sampled..clock

active_peer_revision(r) == link.on /\ (r.staged => link.rev = r.pinned)

Evidence == IF barrier \/ origin = "Retired" THEN "Retired"
            ELSE IF origin # "Fresh" \/ rec.staged THEN "Recorded" ELSE "Fresh"

bind_outbound_origin ==
  /\ origin' = IF origin = "Fresh" /\ ~barrier THEN "Active" ELSE origin
  /\ UNCHANGED <<rec, barrier, link, clock>>

StageAllowed(at) ==
  /\ at < PrepareBy /\ at < ExecuteBy
  /\ ~barrier /\ origin # "Retired" /\ active_peer_revision(rec)
stage_outbound ==
  IF rec.staged THEN rec
  ELSE [NoRecord EXCEPT !.staged = TRUE, !.pinned = link.rev, !.unsettled = TRUE]

MarkOutboundAllowed(at) == rec.staged /\ active_peer_revision(rec) /\ MarkAllowed(rec, at)

(* Fault: a settled call stays on the list of cancellations.                  *)
SettledStillListed(i) == [settle(rec, i) EXCEPT !.unsettled = FALSE]

settle_outbound(i) == [settle(rec, i) EXCEPT !.unsettled = FALSE, !.cancelling = FALSE]
record_outbound_cancellation(c) == [record_cancellation(rec, c) EXCEPT !.cancelling = FALSE]

(* The kernel hands a cancellation over: nothing of the operation may be      *)
(* staged after that, and a call that is under way is told to stop.           *)
stage_outbound_cancellation ==
  /\ origin # "Retired"
  /\ barrier' = TRUE
  /\ rec' = IF origin # "Fresh" /\ rec.staged /\ rec.terminal = None
            THEN [request_cancellation(rec) EXCEPT !.cancelling = rec.ack = None]
            ELSE rec
  /\ UNCHANGED <<origin, link, clock>>

release_outbound_responsibility ==
  /\ origin' = IF origin = "Active" /\ rec.staged /\ responsibility_can_end(rec)
               THEN "Released" ELSE origin
  /\ UNCHANGED <<rec, barrier, link, clock>>

retire_completed_outbound ==
  /\ origin = "Released" /\ rec.staged /\ responsibility_can_end(rec)
  /\ origin' = "Retired" /\ rec' = NoRecord
  /\ UNCHANGED <<barrier, link, clock>>

set_link ==
  /\ link.rev < MaxAuthority
  /\ \E on \in BOOLEAN : link' = [rev |-> link.rev + 1, on |-> on]
  /\ UNCHANGED <<rec, origin, barrier, clock>>

SourceTick == clock < MaxNow /\ clock' = clock + 1 /\ UNCHANGED <<rec, origin, barrier, link>>
==============================================================================
