------------------------- MODULE MCMachineAndSource -------------------------
(* Two parts that share no state, one per behaviour: a machine that runs one  *)
(* of the small programs of MCMachine, or the store of an external Source.    *)
EXTENDS MCMachine, SourceConstants

VARIABLES plan, installation, scope, issued, events, rates, streams, streamCount,
          examined, receipts, sink, clock, window, fenced, failures, log

sourceVars == <<plan, installation, scope, issued, events, rates, streams, streamCount,
                examined, receipts, sink, clock, window, fenced, failures, log>>

Store == INSTANCE SourceStore WITH cursor <- examined
------------------------------------------------------------------------------
Latest == [capacity |-> 1, policy |-> "DropOldest", pause |-> 0, rate |-> Nil, span |-> 0]
Slow == [capacity |-> 2, policy |-> "Backpressure", pause |-> 1, rate |-> 1, span |-> 2]
Twice == [capacity |-> 3, policy |-> "DisconnectBridge", pause |-> 0, rate |-> 2, span |-> 2]
MCDeclarations == {Latest, Slow, Twice}

\* the first scope epoch issued is 2, the first incarnation 3
Unordered(ids, payloads, decls) ==
  [scope : 2 .. LastEpoch, id : ids, payload : payloads, position : {Nil}, decl : decls]
Ordered(ids, n) ==
  [scope : 2 .. LastEpoch, id : ids, payload : {1}, decl : {Latest},
   position : [stream : Streams, epoch : 3 .. 4, seq : 1 .. n]]

NoEvents == [ops |-> {}, decls |-> {}, streams |-> {}, commits |-> {}, windows |-> {1},
             epochs |-> 0, log |-> 0, clock |-> 0, failures |-> 0, retention |-> 3]
\* a rate limit and retained decisions under a clock that is set back
Clocked == [NoEvents EXCEPT !.ops = {"regress"}, !.decls = {Twice}, !.epochs = 2, !.log = 3,
              !.commits = Unordered({1, 2}, {1}, {Twice}), !.clock = 4, !.failures = 1]
\* two streams are opened, retired and opened again, through failed commits
Sequenced == [NoEvents EXCEPT !.ops = {"fail"}, !.decls = {Latest}, !.streams = {1, 2},
                !.commits = Ordered({1, 2}, 2), !.epochs = 4, !.log = 2, !.clock = 1,
                !.failures = 1]
\* a stream through a restart that may change the dedupe window
Restarted == [Sequenced EXCEPT !.streams = {1}, !.windows = {0, 1}]
\* the declaration is replaced or retired under its streams and events
Redeclared == [NoEvents EXCEPT !.ops = {"retire"}, !.decls = {Latest, Nil}, !.streams = {1, 2},
               !.commits = Unordered({1}, {1}, {Latest}) \cup Ordered({1}, 1),
               !.epochs = 6, !.log = 1, !.clock = 1]
\* the sink, the rate window and the retained rows are full
Crowded == [NoEvents EXCEPT !.ops = {"sink"}, !.decls = {Slow, Twice}, !.epochs = 3, !.log = 3,
              !.commits = Unordered({1, 2}, {1, 2}, {Slow, Twice}), !.clock = 2,
              !.retention = 2]

MCSourceSetups == {Clocked, Sequenced, Restarted, Redeclared, Crowded, NoEvents}
------------------------------------------------------------------------------
(* The program of the behaviours that are about the store: it ends at once.   *)
Trivial == [entry |-> 1, resumes |-> {}, nodes |-> << Literal("five") >>]

MCExecutions == AllExecutions \cup Run({Trivial}, Ample)

MCInit == /\ Init /\ Store!Init
          /\ (image = Trivial) = (plan # NoEvents)

MCNext == \/ Next /\ UNCHANGED sourceVars
          \/ RootTerminal /\ ~aborting /\ Store!Next /\ UNCHANGED vars

MCSpec == /\ MCInit /\ [][MCNext]_<<vars, sourceVars>>
          /\ Fairness /\ Store!Fairness

(* See SourceStore: appended once, in sequence, no faster than declared.      *)
ImplementsEventLog == Store!ImplementsEventLog
(* See SourceStore: receipts and counts agree with the rows.                  *)
RecordsAgree == Store!RecordsAgree
(* See SourceStore: a retry is answered by the decision that is retained.     *)
RetryIsDuplicate == Store!RetryIsDuplicate
(* See SourceStore: maintenance reaches every row.                            *)
ExpiredLeave == Store!ExpiredLeave
==============================================================================
