--------------------------- MODULE MCFederatedCall ---------------------------
(* One call, tried twice at most, on two hosts whose kernels start at most    *)
(* two tasks for it.  Each setup lets some operators and faults interfere     *)
(* with each other; time passes on one or both hosts where it says so.        *)
EXTENDS FederatedCall

CONSTANTS t1, t2, v1, v2

MCTasks == {t1, t2}
MCSlots == Senders \cup {Late}

Ended(v, effects, stopped) == [value |-> v, effects |-> effects, stopped |-> stopped]
Clean == {Ended(v1, FALSE, TRUE)}
MCOutcomes == Clean \cup {Ended(v2, TRUE, TRUE), Ended(v2, FALSE, FALSE)}

Setup(ops, ends, n, f) == [ops |-> ops, ends |-> ends, tries |-> n, faults |-> f]

MCSetups ==
  { Setup({"cancel"}, MCOutcomes, 1, 0),
    Setup({"cancel", "clock"}, Clean, 1, 0),
    Setup({"cancel", "crash"}, Clean, 1, 1),
    Setup({"cancel", "restart"}, Clean, 1, 1),
    Setup({"crash", "restart", "timeout"}, MCOutcomes, 2, 1),
    Setup({"time", "clock", "overdue", "timeout"}, MCOutcomes, 1, 1),
    Setup({"store", "shutdown"}, MCOutcomes, 2, 1),
    Setup({"offline", "reconfigure", "grant"}, MCOutcomes, 2, 0),
    Setup({"peer"}, Clean, 1, 0),
    Setup({"retire"}, MCOutcomes, 2, 1) }

(* Calls are retired while attempts go on, and the target cannot be reached.  *)
RetiredOffline == {Setup({"retire", "offline"}, Clean, 2, 0)}
==============================================================================
