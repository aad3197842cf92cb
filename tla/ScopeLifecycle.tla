--------------------------- MODULE ScopeLifecycle ---------------------------
(***************************************************************************)
(* One scope under the calls of several hosts: the body that runs in it,   *)
(* whoever cancels it, an owner that may drop it, and the attempts to      *)
(* finalize it, which may be given up and retried.  Calls come in any      *)
(* order; only the steps of a finalization attempt are ordered, by the     *)
(* guard that its caller holds (bootstrap/finalize.rs).                    *)
(***************************************************************************)
EXTENDS Scope, Integers, TLAPS

CONSTANTS
    Attempts,       \* concurrent callers of finalization
    MaxInflight     \* calls in flight at once, the limit of the budget

ASSUME LimitAssumption == MaxInflight \in Nat

ASSUME NoneAssumption == None \notin Status \cup {"Local", "Tree"}

VARIABLES
    scope,
    inflight,   \* calls reserved and not settled
    owns,       \* the attempts that hold the finalization guard
    decided,    \* history: the first terminal decision
    committed   \* history: the status finalization was completed with

vars == <<scope, inflight, owns, decided, committed>>

Init ==
    /\ scope = NewScope /\ inflight = 0 /\ owns = {}
    /\ decided = None /\ committed = None

(* The scope becomes s; a cancellation or an intent that shows in it for   *)
(* the first time is the decision.                                         *)
Become(s) ==
    /\ scope' = s
    /\ decided' = IF decided # None THEN decided
                  ELSE IF s.terminal # None THEN s.terminal
                  ELSE IF IsTerminal(s) THEN s.status ELSE None

start ==
    /\ CanStart(scope) /\ Become(Started(scope))
    /\ UNCHANGED <<inflight, owns, committed>>

finish_body(status) ==
    /\ CanFinishBody(scope, status) /\ Become(BodyFinished(scope, status))
    /\ UNCHANGED <<inflight, owns, committed>>

cancel ==
    /\ CanCancel(scope) /\ Become(Cancelled(scope))
    /\ UNCHANGED <<inflight, owns, committed>>

request_tree_cleanup ==
    /\ Become(TreeCleanupRequested(scope))
    /\ UNCHANGED <<inflight, owns, committed>>

abandon ==
    /\ Become(Abandoned(scope))
    /\ UNCHANGED <<inflight, owns, committed>>

begin_finalizing(a, status) ==
    /\ a \notin owns
    /\ CanBeginFinalizing(scope) /\ Become(FinalizingBegun(scope, status))
    /\ owns' = owns \cup {a}
    /\ UNCHANGED <<inflight, committed>>

(* The record is committed: the status is the intent the attempt reads. *)
mark_terminal_status(a) ==
    /\ a \in owns /\ ~scope.finalized /\ scope.terminal # None
    /\ Become(TerminalMarked(scope, scope.terminal))
    /\ UNCHANGED <<inflight, owns, committed>>

complete_finalization(a) ==
    /\ a \in owns /\ CanCompleteFinalization(scope)
    /\ Become(FinalizationCompleted(scope))
    /\ committed' = IF committed = None THEN scope.status ELSE committed
    /\ UNCHANGED <<inflight, owns>>

(* The guard is dropped, after completion or because the attempt failed. *)
release_finalizing(a) ==
    /\ a \in owns
    /\ Become(FinalizingReleased(scope))
    /\ owns' = owns \ {a}
    /\ UNCHANGED <<inflight, committed>>

(* A call of the body, of a finalizer, or of the body's lexical cleanup. *)
reserve(can) ==
    /\ can /\ inflight < MaxInflight
    /\ inflight' = inflight + 1
    /\ UNCHANGED <<scope, owns, decided, committed>>

settle ==
    /\ inflight > 0 /\ inflight' = inflight - 1
    /\ UNCHANGED <<scope, owns, decided, committed>>

Next ==
    \/ reserve(CanReserve(scope)) \/ reserve(CanReserveFinalizer(scope))
    \/ reserve(CanReserveCleanup(scope)) \/ settle
    \/ start \/ cancel \/ request_tree_cleanup \/ abandon
    \/ \E status \in TerminalStatus : finish_body(status)
    \/ \E a \in Attempts :
          \/ \E status \in TerminalStatus : begin_finalizing(a, status)
          \/ mark_terminal_status(a) \/ complete_finalization(a) \/ release_finalizing(a)

Spec == Init /\ [][Next]_vars

-----------------------------------------------------------------------------
(* The scope and its history have the expected types. *)
TypeOK ==
    /\ scope \in ScopeRecord /\ inflight \in 0..MaxInflight /\ owns \subseteq Attempts
    /\ decided \in TerminalStatus \cup {None} /\ committed \in TerminalStatus \cup {None}

(* At most one attempt owns finalization, and the scope says so. *)
OneFinalizer == \A a, b \in owns : a = b /\ scope.finalizer_active

(* The first terminal decision is the one that is kept, shown and            *)
(* committed, whatever is requested, cancelled or retried later.             *)
FirstDecisionWins ==
    /\ scope.terminal \in {None, decided}
    /\ IsTerminal(scope) => scope.status = decided
    /\ scope.finalized => committed = decided /\ scope.status = decided

(* A scope that has stopped admitting children and calls never admits again. *)
AdmissionNeverReopens == [][AcceptsChildren(scope)' => AcceptsChildren(scope)]_vars

(* A cleanup that covers the tree is never narrowed to the owner alone, and *)
(* a chosen cleanup is never forgotten.                                     *)
CleanupNeverNarrows ==
    [][/\ scope.cleanup = "Tree" => scope'.cleanup = "Tree"
       /\ scope.cleanup # None => scope'.cleanup # None]_vars

(* Once its lifecycle is complete, a scope admits no call of its own, in no *)
(* context, although its status may still be one that admits cleanup.       *)
NoCallAfterCompletion == [][scope.finalized => inflight' <= inflight]_vars
-----------------------------------------------------------------------------
(* Proofs of these properties, for any number of attempts and calls.       *)

(* What the properties rest on: a scope that is finalizing has a decision,  *)
(* a completed one has a terminal status, and the history agrees with it.   *)
Consistent ==
    /\ scope.status = "Finalizing" => scope.terminal # None
    /\ scope.finalized => IsTerminal(scope) /\ scope.terminal = None
    /\ scope.terminal # None => decided = scope.terminal
    /\ IsTerminal(scope) => scope.status = decided
    /\ decided # None => scope.terminal # None \/ IsTerminal(scope)
    /\ committed # None => scope.finalized /\ committed = decided
    /\ scope.finalized => committed # None

IInv == TypeOK /\ OneFinalizer /\ Consistent

(* The initial scope is open, undecided and unowned. *)
LEMMA InitInv == Init => IInv
  BY LimitAssumption, NoneAssumption
  DEF Init, IInv, TypeOK, OneFinalizer, Consistent, NewScope, ScopeRecord, Status, TerminalStatus, IsTerminal

(* Every call on a scope preserves the invariant. *)
LEMMA NextInv == IInv /\ [Next]_vars => IInv'
  <1> SUFFICES ASSUME IInv, [Next]_vars PROVE IInv'
    BY Zenon
  <1> USE LimitAssumption, NoneAssumption
      DEF IInv, TypeOK, OneFinalizer, Consistent, ScopeRecord, Status, TerminalStatus, IsTerminal
  <1>1. CASE start
    BY <1>1, Zenon DEF start, Become, CanStart, Started, AcceptsChildren
  <1>2. CASE cancel
    BY <1>2, Zenon DEF cancel, Become, CanCancel, Cancelled
  <1>3. CASE request_tree_cleanup
    <2>1. TypeOK'
      BY <1>3, Zenon DEF request_tree_cleanup, Become, TreeCleanupRequested, ChosenTerminal
    <2>2. OneFinalizer'
      BY <1>3, Zenon DEF request_tree_cleanup, Become, TreeCleanupRequested, ChosenTerminal
    <2>3. Consistent'
      BY <1>3, Zenon DEF request_tree_cleanup, Become, TreeCleanupRequested, ChosenTerminal
    <2> QED
      BY <2>1, <2>2, <2>3, Zenon
  <1>4. CASE abandon
    <2>1. TypeOK'
      BY <1>4, Zenon DEF abandon, Become, Abandoned, TreeCleanupRequested, ChosenTerminal
    <2>2. OneFinalizer'
      BY <1>4, Zenon DEF abandon, Become, Abandoned, TreeCleanupRequested, ChosenTerminal
    <2>3. Consistent'
      BY <1>4, Zenon DEF abandon, Become, Abandoned, TreeCleanupRequested, ChosenTerminal
    <2> QED
      BY <2>1, <2>2, <2>3, Zenon
  <1>5. ASSUME NEW status \in TerminalStatus, finish_body(status) PROVE IInv'
    <2>1. TypeOK'
      BY <1>5, Zenon DEF finish_body, Become, CanFinishBody, BodyFinished, ChosenTerminal, OrLocal
    <2>2. OneFinalizer'
      BY <1>5, Zenon DEF finish_body, Become, CanFinishBody, BodyFinished, ChosenTerminal, OrLocal
    <2>3. Consistent'
      BY <1>5, Zenon DEF finish_body, Become, CanFinishBody, BodyFinished, ChosenTerminal, OrLocal
    <2> QED
      BY <2>1, <2>2, <2>3, Zenon
  <1>6. ASSUME NEW a \in Attempts, NEW status \in TerminalStatus, begin_finalizing(a, status)
        PROVE  IInv'
    <2>1. TypeOK'
      BY <1>6, Zenon DEF begin_finalizing, Become, CanBeginFinalizing, FinalizingBegun, ChosenTerminal, OrLocal
    <2>2. OneFinalizer'
      BY <1>6, Zenon DEF begin_finalizing, Become, CanBeginFinalizing, FinalizingBegun, ChosenTerminal, OrLocal
    <2>3. Consistent'
      BY <1>6, Zenon DEF begin_finalizing, Become, CanBeginFinalizing, FinalizingBegun, ChosenTerminal, OrLocal
    <2> QED
      BY <2>1, <2>2, <2>3, Zenon
  <1>7. ASSUME NEW a \in Attempts, mark_terminal_status(a) PROVE IInv'
    BY <1>7, Zenon DEF mark_terminal_status, Become, TerminalMarked
  <1>8. ASSUME NEW a \in Attempts, complete_finalization(a) PROVE IInv'
    BY <1>8, Zenon DEF complete_finalization, Become, CanCompleteFinalization, FinalizationCompleted, OrLocal
  <1>9. ASSUME NEW a \in Attempts, release_finalizing(a) PROVE IInv'
    BY <1>9, Zenon DEF release_finalizing, Become, FinalizingReleased, OrLocal
  <1>10. ASSUME NEW can, reserve(can) PROVE IInv'
    BY <1>10 DEF reserve
  <1>11. CASE settle
    BY <1>11 DEF settle
  <1>12. CASE UNCHANGED vars
    BY <1>12 DEF vars
  <1> QED
    BY <1>1, <1>2, <1>3, <1>4, <1>5, <1>6, <1>7, <1>8, <1>9, <1>10, <1>11, <1>12, Zenon DEF Next

(* The types of the scope and its history hold in every behaviour. *)
THEOREM TypeCorrect == Spec => []TypeOK
  <1>1. IInv => TypeOK
    BY Zenon DEF IInv
  <1> QED
    BY InitInv, NextInv, <1>1, PTL DEF Spec

(* At most one attempt holds the guard of a scope (begin_finalizing). *)
THEOREM SingleFinalizer == Spec => []OneFinalizer
  <1>1. IInv => OneFinalizer
    BY Zenon DEF IInv
  <1> QED
    BY InitInv, NextInv, <1>1, PTL DEF Spec

(* The first terminal decision is the one shown and committed               *)
(* (choose_terminal, mark_terminal_status, complete_finalization).          *)
THEOREM FirstDecision == Spec => []FirstDecisionWins
  <1>1. IInv => FirstDecisionWins
    BY NoneAssumption, Zenon
    DEF IInv, TypeOK, Consistent, FirstDecisionWins, ScopeRecord, Status, TerminalStatus, IsTerminal
  <1> QED
    BY InitInv, NextInv, <1>1, PTL DEF Spec

(* A scope that has closed stays closed (accepts_children). *)
THEOREM ClosedForGood == Spec => AdmissionNeverReopens
  <1>1. IInv /\ [Next]_vars => [AcceptsChildren(scope)' => AcceptsChildren(scope)]_vars
    <2> SUFFICES ASSUME IInv, Next, AcceptsChildren(scope)' PROVE AcceptsChildren(scope)
      BY Zenon
    <2> USE NoneAssumption
        DEF IInv, TypeOK, Consistent, ScopeRecord, Status, TerminalStatus, IsTerminal, AcceptsChildren
    <2>1. CASE start
      BY <2>1, Zenon DEF start, Become, CanStart, Started
    <2>2. CASE cancel
      BY <2>2, Zenon DEF cancel, Become, CanCancel, Cancelled
    <2>3. CASE request_tree_cleanup
      BY <2>3, Zenon DEF request_tree_cleanup, Become, TreeCleanupRequested
    <2>4. CASE abandon
      BY <2>4, Zenon DEF abandon, Become, Abandoned, TreeCleanupRequested
    <2>5. ASSUME NEW status \in TerminalStatus, finish_body(status) PROVE AcceptsChildren(scope)
      BY <2>5, Zenon DEF finish_body, Become, BodyFinished
    <2>6. ASSUME NEW a \in Attempts, NEW status \in TerminalStatus, begin_finalizing(a, status)
          PROVE  AcceptsChildren(scope)
      BY <2>6, Zenon DEF begin_finalizing, Become, FinalizingBegun
    <2>7. ASSUME NEW a \in Attempts, mark_terminal_status(a) PROVE AcceptsChildren(scope)
      BY <2>7, Zenon DEF mark_terminal_status, Become, TerminalMarked
    <2>8. ASSUME NEW a \in Attempts, complete_finalization(a) PROVE AcceptsChildren(scope)
      BY <2>8, Zenon DEF complete_finalization, Become, FinalizationCompleted
    <2>9. ASSUME NEW a \in Attempts, release_finalizing(a) PROVE AcceptsChildren(scope)
      BY <2>9, Zenon DEF release_finalizing, Become, FinalizingReleased, OrLocal
    <2>10. ASSUME NEW can, reserve(can) PROVE AcceptsChildren(scope)
      BY <2>10, Zenon DEF reserve
    <2>11. CASE settle
      BY <2>11, Zenon DEF settle
    <2> QED
      BY <2>1, <2>2, <2>3, <2>4, <2>5, <2>6, <2>7, <2>8, <2>9, <2>10, <2>11, Zenon DEF Next
  <1> QED
    BY InitInv, NextInv, <1>1, PTL DEF Spec, AdmissionNeverReopens

(* Tree cleanup is never narrowed and no chosen cleanup is forgotten         *)
(* (abandon, release_finalizing).                                            *)
THEOREM CleanupKept == Spec => CleanupNeverNarrows
  <1> DEFINE Kept == /\ scope.cleanup = "Tree" => scope'.cleanup = "Tree"
                     /\ scope.cleanup # None => scope'.cleanup # None
  <1>1. IInv /\ [Next]_vars => [Kept]_vars
    <2> SUFFICES ASSUME IInv, Next PROVE Kept
      BY Zenon
    <2> USE NoneAssumption
        DEF IInv, TypeOK, ScopeRecord, OrLocal
    <2>1. CASE start
      BY <2>1, Zenon DEF start, Become, Started
    <2>2. CASE cancel
      BY <2>2, Zenon DEF cancel, Become, Cancelled
    <2>3. CASE request_tree_cleanup
      BY <2>3, Zenon DEF request_tree_cleanup, Become, TreeCleanupRequested
    <2>4. CASE abandon
      BY <2>4, Zenon DEF abandon, Become, Abandoned, TreeCleanupRequested
    <2>5. ASSUME NEW status \in TerminalStatus, finish_body(status) PROVE Kept
      BY <2>5, Zenon DEF finish_body, Become, BodyFinished
    <2>6. ASSUME NEW a \in Attempts, NEW status \in TerminalStatus, begin_finalizing(a, status)
          PROVE  Kept
      BY <2>6, Zenon DEF begin_finalizing, Become, FinalizingBegun
    <2>7. ASSUME NEW a \in Attempts, mark_terminal_status(a) PROVE Kept
      BY <2>7, Zenon DEF mark_terminal_status, Become, TerminalMarked
    <2>8. ASSUME NEW a \in Attempts, complete_finalization(a) PROVE Kept
      BY <2>8, Zenon DEF complete_finalization, Become, FinalizationCompleted
    <2>9. ASSUME NEW a \in Attempts, release_finalizing(a) PROVE Kept
      BY <2>9, Zenon DEF release_finalizing, Become, FinalizingReleased
    <2>10. ASSUME NEW can, reserve(can) PROVE Kept
      BY <2>10, Zenon DEF reserve
    <2>11. CASE settle
      BY <2>11, Zenon DEF settle
    <2> QED
      BY <2>1, <2>2, <2>3, <2>4, <2>5, <2>6, <2>7, <2>8, <2>9, <2>10, <2>11, Zenon DEF Next
  <1> QED
    BY InitInv, NextInv, <1>1, PTL DEF Spec, CleanupNeverNarrows

(* A finalized scope admits no call (reserve, reserve_finalizer,             *)
(* reserve_cleanup).                                                         *)
THEOREM CallsEnd == Spec => NoCallAfterCompletion
  <1>1. IInv /\ [Next]_vars => [scope.finalized => inflight' <= inflight]_vars
    <2> SUFFICES ASSUME IInv, Next, scope.finalized PROVE inflight' <= inflight
      BY Zenon
    <2>1. inflight \in Int /\ IsTerminal(scope) /\ scope.status # "Running"
      BY LimitAssumption DEF IInv, TypeOK, Consistent, IsTerminal, TerminalStatus
    <2>2. ~CanReserve(scope) /\ ~CanReserveFinalizer(scope) /\ ~CanReserveCleanup(scope)
      BY <2>1, Zenon DEF CanReserve, CanReserveFinalizer, CanReserveCleanup
    <2>3. CASE settle
      BY <2>1, <2>3 DEF settle
    <2>4. CASE inflight' = inflight
      BY <2>1, <2>4
    <2> QED
      BY <2>2, <2>3, <2>4, Zenon
      DEF Next, reserve, start, cancel, request_tree_cleanup, abandon, finish_body,
          begin_finalizing, mark_terminal_status, complete_finalization, release_finalizing
  <1> QED
    BY InitInv, NextInv, <1>1, PTL DEF Spec, NoCallAfterCompletion
=============================================================================
