-------------------------------- MODULE Scope --------------------------------
(***************************************************************************)
(* The lifecycle record of one execution owner (xolotl-kernel scope.rs),   *)
(* as functions from a scope to the scope a method leaves behind; a guard  *)
(* CanX says when the method reports success.  Spending is not part of it. *)
(***************************************************************************)

CONSTANT None

TerminalStatus == {"Completed", "Failed", "Cancelled"}

Status == {"Created", "Running", "Finalizing"} \cup TerminalStatus

ScopeRecord ==
    [status : Status, terminal : TerminalStatus \cup {None},
     cleanup : {"Local", "Tree", None}, finalizer_active : BOOLEAN, finalized : BOOLEAN]

NewScope ==
    [status |-> "Created", terminal |-> None, cleanup |-> None,
     finalizer_active |-> FALSE, finalized |-> FALSE]

IsTerminal(s) == s.status \in TerminalStatus

(* Fault: the latest decision wins. *)
LastTerminal(s, requested) == requested

(* The first terminal decision: an earlier intent, or a cancellation that  *)
(* has already shown in the status, wins over the request.                 *)
ChosenTerminal(s, requested) ==
    IF s.terminal # None THEN s.terminal ELSE IF IsTerminal(s) THEN s.status ELSE requested

(* A cleanup range is Local unless one was chosen before. *)
OrLocal(cleanup) == IF cleanup = None THEN "Local" ELSE cleanup

AcceptsChildren(s) ==
    /\ ~IsTerminal(s) /\ s.status # "Finalizing"
    /\ s.terminal = None /\ s.cleanup = None /\ ~s.finalized

CanStart(s) == s.status = "Created" /\ AcceptsChildren(s)

Started(s) == [s EXCEPT !.status = "Running"]

CanFinishBody(s, status) == ~s.finalized /\ status \in TerminalStatus

BodyFinished(s, status) ==
    [s EXCEPT !.terminal = ChosenTerminal(s, status), !.status = "Finalizing",
              !.cleanup = OrLocal(s.cleanup)]

(* Fault: a finalization attempt does not look for another. *)
CanFinalizeAnyway(s) == ~s.finalized

CanBeginFinalizing(s) == ~s.finalized /\ ~s.finalizer_active

FinalizingBegun(s, status) ==
    [s EXCEPT !.terminal = ChosenTerminal(s, status), !.status = "Finalizing",
              !.cleanup = OrLocal(s.cleanup), !.finalizer_active = TRUE]

FinalizingReleased(s) ==
    [s EXCEPT !.finalizer_active = FALSE,
              !.cleanup = IF s.terminal # None /\ ~s.finalized THEN OrLocal(s.cleanup) ELSE s.cleanup]

TerminalMarked(s, requested) ==
    IF IsTerminal(s) \/ requested \notin TerminalStatus THEN s
    ELSE [s EXCEPT !.status = IF s.terminal # None THEN s.terminal ELSE requested]

CanCompleteFinalization(s) == IsTerminal(s)

FinalizationCompleted(s) ==
    [s EXCEPT !.finalized = TRUE, !.terminal = None, !.cleanup = OrLocal(s.cleanup)]

CanCancel(s) == ~IsTerminal(s) /\ s.terminal = None

Cancelled(s) == [s EXCEPT !.status = "Cancelled"]

TreeCleanupRequested(s) ==
    LET decide == ~s.finalized /\ s.terminal = None IN
    [s EXCEPT !.cleanup = "Tree",
              !.terminal = IF decide THEN ChosenTerminal(s, "Cancelled") ELSE s.terminal,
              !.status = IF decide THEN ChosenTerminal(s, "Cancelled") ELSE s.status]

Abandoned(s) ==
    IF s.finalized THEN s
    ELSE IF s.terminal # None /\ s.cleanup # "Tree" THEN [s EXCEPT !.cleanup = "Local"]
    ELSE TreeCleanupRequested(s)

CanReserve(s) == s.status = "Running" /\ AcceptsChildren(s)

CanReserveFinalizer(s) ==
    s.finalizer_active /\ ~s.finalized /\ s.status = "Finalizing"

(* Fault: the status alone admits a cleanup call. *)
CanReserveByStatus(s) == s.status \in {"Running", "Cancelled", "Finalizing"}

CanReserveCleanup(s) ==
    ~s.finalized /\ s.status \in {"Running", "Cancelled", "Finalizing"}
=============================================================================
