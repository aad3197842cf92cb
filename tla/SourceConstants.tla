--------------------------- MODULE SourceConstants ---------------------------
(* The parameters of the Source store: the requests it can be sent and the    *)
(* limits it enforces.                                                        *)
EXTENDS Integers

CONSTANTS Declarations,    \* Source declarations an installation may carry
          Windows,         \* dedupe windows the daemon may be configured with
          EventIds, Payloads,
          Streams,         \* stream names, as numbers
          MaxSeq,          \* bound on the sequence numbers sent
          LastEpoch,       \* bound on the authority epochs issued
          SourceSetups,    \* what is exercised: requests, host operations, bounds
          StreamLimit,     \* open streams the store may hold
          Batch,           \* rows one maintenance call examines
          Nil

Epochs == 1 .. LastEpoch

(* A position of an ordered event: the stream, its incarnation and a sequence *)
(* number.  An unordered event has none.                                      *)
Positions == [stream : Streams, epoch : Epochs, seq : 1 .. MaxSeq]

(* A commit request: the scope epoch of the session it came through, and the  *)
(* declaration the daemon had loaded.  A declaration gives a sink capacity    *)
(* with its overflow policy and, when `rate` is not Nil, at most `rate`       *)
(* events in any `span` of time.                                              *)
Commits == [scope : Epochs, id : EventIds, payload : Payloads,
            position : Positions \cup {Nil}, decl : Declarations]

ASSUME SourceAssumption ==
  /\ LastEpoch \in Nat /\ MaxSeq \in Nat /\ Nil \notin Positions
  /\ \A s \in SourceSetups : s.windows \subseteq Windows /\ s.commits \subseteq Commits
  /\ Windows \subseteq Nat

(* The incarnation an event belongs to, 0 when it is unordered.               *)
Incarnation(r) == IF r.position = Nil THEN 0 ELSE r.position.epoch
==============================================================================
