---------------------------- MODULE CallDirectory ----------------------------
(* The target's durable directory of federated calls, for one call: calls     *)
(* share nothing but the capacity of their tables.  Each operator is one      *)
(* transaction of the redb store; it says what becomes of the row, and what   *)
(* the caller is told where that matters.                                     *)
EXTENDS CallConstants

CONSTANTS Tasks,         \* kernel tasks, each with its own process and lifecycle identity
          Retention      \* how long a result is told

ASSUME TaskAssumption == None \notin Tasks /\ Retention \in Nat

VARIABLES row,       \* the stored call, its input, result and pending index
          grant,     \* the method grant of the caller
          peer,      \* the admission of the calling node
          now        \* the target's trusted clock

directoryVars == <<row, grant, peer, now>>

Statuses == {"Absent", "Reserved", "Preparing", "Accepted", "Finished", "Closed"}

NoCall == [status |-> "Absent", auth |-> <<0, 0>>, rev |-> 0, input |-> FALSE,
           binding |-> None, accepted |-> None, result |-> None, until |-> 0,
           effects |-> FALSE, cancelled |-> FALSE, kernel_cancel |-> FALSE,
           stopped |-> FALSE, receipt |-> None, pending |-> FALSE]

DirectoryInit ==
  /\ row = NoCall
  /\ grant = [rev |-> 1, on |-> TRUE]
  /\ peer = [rev |-> 1, on |-> TRUE]
  /\ now = 0

----------------------------------------------------------------------------
Authorities == <<grant.rev, peer.rev>>
current_peer == peer.on
current_authority(r) == grant.on /\ peer.on /\ r.auth = Authorities

Revised(r) == [r EXCEPT !.rev = @ + 1]
ClosedRow(r) == [Revised(r) EXCEPT !.status = "Closed", !.stopped = TRUE]

(* A repeated request finds its row whatever has become of its authority.     *)
PrepareAllowed(r) ==
  r.status # "Absent" \/ (grant.on /\ peer.on /\ now < PrepareBy /\ now < ExecuteBy)
prepare_call(r) ==
  IF r.status # "Absent" \/ ~PrepareAllowed(r) THEN r
  ELSE [NoCall EXCEPT !.status = "Reserved", !.auth = Authorities, !.rev = 1]
Prepared(r) == [status |-> r.status, rev |-> r.rev]

InvokeAllowed(r) == r.status \notin {"Absent", "Closed"} /\ current_authority(r)
invoke_call(r) ==
  IF ~InvokeAllowed(r) \/ r.status # "Reserved" THEN r
  ELSE IF now >= PrepareBy THEN ClosedRow(r)
  ELSE [Revised(r) EXCEPT !.status = "Preparing", !.input = TRUE, !.pending = TRUE]
InvokeAnswer(r) ==
  IF InvokeAllowed(r) /\ invoke_call(r).status # "Closed" THEN invoke_call(r).status ELSE Refused

BindAllowed(r, t) ==
  /\ r.status # "Absent" /\ current_authority(r)
  /\ \/ r.binding = t
     \/ /\ r.binding = None /\ r.status = "Preparing" /\ r.input
        /\ ~r.cancelled /\ now < ExecuteBy
bind_kernel_identity(r, t) == [r EXCEPT !.binding = t]

authorize_kernel_execution(r) ==
  /\ r.status \in {"Preparing", "Accepted"} /\ r.binding # None
  /\ ~r.cancelled /\ now < ExecuteBy /\ current_authority(r)

(* The acceptance digest names the task's process and lifecycle.              *)
Accepting(r) == r.status = "Preparing" /\ r.binding # None
AcceptAllowed(r, t) == Accepting(r) \/ r.accepted = t
record_kernel_acceptance(r, t) ==
  IF Accepting(r) THEN [Revised(r) EXCEPT !.status = "Accepted", !.accepted = t] ELSE r

CloseAllowed(r) ==
  r.status = "Closed" \/ (r.status = "Preparing" /\ r.accepted = None)
close_unaccepted_call(r) ==
  IF r.status = "Preparing" /\ r.accepted = None
  THEN [ClosedRow(r) EXCEPT !.input = FALSE, !.pending = FALSE] ELSE r

request_call_deadline_stop(r) ==
  IF now >= ExecuteBy /\ r.status \in {"Preparing", "Accepted"} /\ ~r.cancelled
  THEN [Revised(r) EXCEPT !.cancelled = TRUE] ELSE r

record_kernel_cancel_accepted(r) ==
  IF r.cancelled /\ r.binding # None /\ ~r.kernel_cancel
  THEN [Revised(r) EXCEPT !.kernel_cancel = TRUE] ELSE r

StopAllowed(r) == r.binding # None /\ r.status \notin {"Absent", "Reserved", "Closed"}
record_execution_stopped(r) ==
  IF StopAllowed(r) /\ ~r.stopped
  THEN [Revised(r) EXCEPT !.stopped = TRUE, !.pending = @ /\ r.status # "Finished"] ELSE r

ResultAllowed(r, v, e) ==
  r.status = "Accepted" \/ (r.status = "Finished" /\ r.result = v /\ r.effects = e)
record_call_result(r, v, e) ==
  IF r.status = "Accepted"
  THEN [Revised(r) EXCEPT !.status = "Finished", !.result = v, !.effects = e,
                          !.until = now + Retention, !.input = FALSE,
                          !.pending = @ /\ ~r.stopped]
  ELSE r

inspection(r) ==
  [status |-> IF r.status = "Absent" THEN "Unproven" ELSE r.status, rev |-> r.rev,
   result |-> IF r.result # None /\ now < r.until THEN r.result ELSE None,
   effects |-> r.effects, stopped |-> r.stopped]
(* A cancelled or closed call is told to its caller although the method grant *)
(* was withdrawn.                                                             *)
InspectAllowed(r) ==
  \/ r.status = "Absent"
  \/ IF r.receipt = None /\ r.status # "Closed" THEN current_authority(r) ELSE current_peer

(* The source has one control identity per call, so a second Cancel replays   *)
(* the receipt of the first.                                                  *)
CancelAllowed(r) == r.status # "Absent" /\ current_peer
Receipt(r) == [status |-> r.status, rev |-> r.rev, cancelled |-> r.cancelled,
               kernel_cancel |-> r.kernel_cancel]

(* Fault: a call that is told to stop is taken for one that has.              *)
StoppedByCancel(r) ==
  CASE r.status = "Reserved" -> ClosedRow(r)
    [] r.status \in {"Preparing", "Accepted"}
         -> [Revised(r) EXCEPT !.cancelled = TRUE, !.stopped = TRUE]
    [] OTHER -> Revised(r)

CancelledRow(r) ==
  CASE r.status = "Reserved" -> ClosedRow(r)
    [] r.status \in {"Preparing", "Accepted"} -> [Revised(r) EXCEPT !.cancelled = TRUE]
    [] OTHER -> Revised(r)
cancel_call(r) ==
  IF ~CancelAllowed(r) \/ r.receipt # None THEN r
  ELSE [CancelledRow(r) EXCEPT !.receipt = Receipt(CancelledRow(r))]
CancelAnswer(r) == IF CancelAllowed(r) THEN cancel_call(r).receipt ELSE Refused

----------------------------------------------------------------------------
(* set_call_authority: only a grant for an admitted peer is enabled.          *)
set_call_authority ==
  /\ grant.rev < MaxAuthority
  /\ \E on \in BOOLEAN : /\ on => peer.on
                         /\ grant' = [rev |-> grant.rev + 1, on |-> on]
  /\ UNCHANGED <<row, peer, now>>

set_peer ==
  /\ peer.rev < MaxAuthority
  /\ \E on \in BOOLEAN : peer' = [rev |-> peer.rev + 1, on |-> on]
  /\ UNCHANGED <<row, grant, now>>

Tick == now < MaxNow /\ now' = now + 1 /\ UNCHANGED <<row, grant, peer>>

(* The trusted host's own request to stop overdue work.                       *)
DeadlineStop ==
  /\ row # request_call_deadline_stop(row)
  /\ row' = request_call_deadline_stop(row)
  /\ UNCHANGED <<grant, peer, now>>
==============================================================================
