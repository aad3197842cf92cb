-------------------------- MODULE SourceStoreProofs --------------------------
(* For every value of the constants, any number of requests, faults and       *)
(* maintenance calls: an event is appended once while its decision is         *)
(* retained, and a stream's events in the order of their numbers.             *)
EXTENDS SourceStore, TLAPS

(* commit_source: two appends of one event are further apart than the window  *)
(* in force when the first was decided, whatever the clock, the maintenance   *)
(* task and the restarts did in between.                                      *)
AppendedOnce ==
  \A i, j \in DOMAIN log :
    i < j /\ log[i].scope = log[j].scope /\ log[i].stream = log[j].stream
      /\ log[i].id = log[j].id
    => log[i].expires < log[j].at

(* commit_source: within an incarnation a later append has a higher sequence  *)
(* number, also when the earlier decision is no longer retained.              *)
InOrder ==
  \A i, j \in DOMAIN log :
    i < j /\ log[i].stream = log[j].stream /\ log[i].stream # 0
    => log[i].seq < log[j].seq

Entries == [scope : Nat, stream : Nat, id : EventIds, payload : Payloads, seq : Nat,
            at : Nat, expires : Nat]
KeyOf(e) == <<1, e.scope, e.stream, e.id>>

Shape ==
  /\ plan \in SourceSetups /\ issued \in Nat /\ clock \in Nat /\ window \in Nat
  /\ log \in Seq(Entries)
  /\ scope # Nil =>
       /\ scope.epoch \in 1 .. issued /\ scope.floor \in Nat
       /\ scope = [epoch |-> scope.epoch, decl |-> scope.decl, revision |-> scope.revision,
                   floor |-> scope.floor]
  /\ \A k \in DOMAIN streams :
       streams[k] \in [epoch : 1 .. issued, openedAt : Nat, lastSeq : Nat]
  /\ \A k \in DOMAIN events : events[k].expires \in Nat

Keyed ==
  /\ \A k \in DOMAIN rates : k[1] = 2
  /\ \A k \in DOMAIN streams : k[1] = 3

(* Epochs are never issued twice: none of the log is of a later one, and no   *)
(* two streams are of the same incarnation.                                   *)
Issued ==
  /\ \A i \in DOMAIN log : log[i].scope <= issued /\ log[i].stream <= issued
  /\ \A j, k \in DOMAIN streams : streams[j].epoch = streams[k].epoch => j = k

Counted ==
  \A k \in DOMAIN streams, i \in DOMAIN log :
    log[i].stream = streams[k].epoch => log[i].seq <= streams[k].lastSeq

(* What was appended under the active scope is either still decided, or too   *)
(* old for any time at which the scope can decide again.                      *)
Remembered ==
  \A i \in DOMAIN log :
    Active(log[i].scope) =>
      \/ log[i].expires < scope.floor
      \/ /\ KeyOf(log[i]) \in DOMAIN events
         /\ log[i].expires <= events[KeyOf(log[i])].expires

IInv == Shape /\ Keyed /\ Issued /\ Counted /\ Remembered /\ AppendedOnce /\ InOrder
------------------------------------------------------------------------------
(* The fields of an appended event.                                           *)
LEMMA LogEntry ==
  ASSUME Shape, NEW i \in DOMAIN log
  PROVE  /\ log[i] \in Entries /\ i \in Nat
         /\ log[i].scope \in Nat /\ log[i].stream \in Nat /\ log[i].seq \in Nat
         /\ log[i].at \in Nat /\ log[i].expires \in Nat
<1>1. log[i] \in Entries /\ i \in Nat BY DEF Shape
<1> QED BY <1>1, Zenon DEF Entries

(* Initially nothing is appended, open or retained.                           *)
LEMMA InitIInv == Init => IInv
<1> SUFFICES ASSUME Init PROVE IInv BY Zenon
<1>1. DOMAIN log = {} /\ DOMAIN streams = {} /\ DOMAIN events = {} /\ DOMAIN rates = {}
  BY DEF Init
<1>2. log \in Seq(Entries) BY DEF Init
<1>3. window \in Nat BY SourceAssumption, Zenon DEF Init
<1>4. Shape BY <1>1, <1>2, <1>3, Zenon DEF Init, Shape
<1> QED
  BY <1>1, <1>4, Zenon DEF IInv, Keyed, Issued, Counted, Remembered, AppendedOnce, InOrder

(* A step that touches neither the rows nor the authority keeps everything.   *)
LEMMA HostSteps ==
  ASSUME IInv, UNCHANGED <<plan, scope, issued, events, rates, streams, log>>,
         clock' \in Nat, window' \in Nat
  PROVE  IInv'
  BY Zenon DEF IInv, Shape, Keyed, Issued, Counted, Remembered, AppendedOnce, InOrder, Active

(* A new scope has an epoch under which nothing was appended yet.             *)
LEMMA InstallStep ==
  ASSUME IInv, NEW d, CompareInstall(d) \/ CompareRetire
  PROVE  IInv'
<1>1. /\ issued' \in Nat /\ issued <= issued'
      /\ scope' # Nil =>
           /\ scope'.epoch \in 1 .. issued' /\ scope'.floor \in Nat
           /\ scope'.epoch > issued
           /\ scope' = [epoch |-> scope'.epoch, decl |-> scope'.decl,
                        revision |-> scope'.revision, floor |-> scope'.floor]
      /\ UNCHANGED <<plan, clock, window, log, events, rates, streams>>
  BY DEF IInv, Shape, CompareInstall, CompareRetire, Committed, table
<1>2. Shape' BY <1>1 DEF IInv, Shape
<1>3. ASSUME NEW i \in DOMAIN log
      PROVE  log[i].scope \in Nat /\ log[i].stream \in Nat
             /\ log[i].scope <= issued /\ log[i].stream <= issued
  BY LogEntry, <1>3, Zenon DEF IInv, Issued
<1>4. Issued' BY <1>1, <1>3 DEF IInv, Shape, Issued
<1>5. Keyed' /\ Counted' /\ AppendedOnce' /\ InOrder'
  BY <1>1, Zenon DEF IInv, Keyed, Counted, AppendedOnce, InOrder
<1>6. Remembered'
  <2>1. ASSUME NEW i \in DOMAIN log, scope' # Nil, scope'.epoch = log[i].scope PROVE FALSE
    BY <1>1, <1>3, <2>1 DEF IInv, Shape
  <2> QED BY <1>1, <2>1, Zenon DEF Remembered, Active
<1> QED BY <1>2, <1>4, <1>5, <1>6, Zenon DEF IInv

(* An incarnation is new when it is opened, and gone once it is retired.      *)
LEMMA StreamStep ==
  ASSUME IInv, NEW e, NEW n, NEW v \in Nat, OpenStream(e, n, v) \/ RetireStream(e, n, v)
  PROVE  IInv'
<1>1. /\ scope # Nil
      /\ scope' = [scope EXCEPT !.revision = @ + 1]
      /\ issued' \in Nat /\ issued <= issued'
      /\ UNCHANGED <<plan, clock, window, log, events, rates>>
  BY DEF IInv, Shape, OpenStream, RetireStream, Committed, Active
<1>s. /\ scope'.epoch = scope.epoch /\ scope'.floor = scope.floor
      /\ scope' = [epoch |-> scope'.epoch, decl |-> scope'.decl,
                   revision |-> scope'.revision, floor |-> scope'.floor]
  <2>1. PICK a, b, c, f : scope = [epoch |-> a, decl |-> b, revision |-> c, floor |-> f]
    BY <1>1, Zenon DEF IInv, Shape
  <2> QED BY <1>1, <2>1, Zenon
<1>2. \A k \in DOMAIN streams' :
         \/ k \in DOMAIN streams /\ streams'[k] = streams[k]
         \/ /\ k = StreamKey(e, n) /\ issued' = issued + 1 /\ k \notin DOMAIN streams
            /\ streams'[k] = [epoch |-> issued + 1, openedAt |-> v, lastSeq |-> 0]
  BY Zenon DEF OpenStream, RetireStream, With, Without
<1>3. Shape'
  <2>1. ASSUME NEW k \in DOMAIN streams'
        PROVE  streams'[k] \in [epoch : 1 .. issued', openedAt : Nat, lastSeq : Nat]
    <3>1. CASE k \in DOMAIN streams /\ streams'[k] = streams[k]
      BY <1>1, <3>1 DEF IInv, Shape
    <3>2. CASE streams'[k] = [epoch |-> issued + 1, openedAt |-> v, lastSeq |-> 0] /\ issued' = issued + 1
      BY <1>1, <3>2 DEF IInv, Shape
    <3> QED BY <1>2, <3>1, <3>2, Zenon
  <2> QED BY <1>1, <1>s, <2>1 DEF IInv, Shape
<1>e. ASSUME NEW i \in DOMAIN log
      PROVE  log[i].scope \in Nat /\ log[i].stream \in Nat
             /\ log[i].scope <= issued /\ log[i].stream <= issued
  BY LogEntry, <1>e, Zenon DEF IInv, Issued
<1>k. ASSUME NEW k \in DOMAIN streams
      PROVE  streams[k].epoch \in Nat /\ streams[k].epoch <= issued
  BY <1>k DEF IInv, Shape
<1>4. Issued'
  <2>1. ASSUME NEW i \in DOMAIN log PROVE log[i].scope <= issued' /\ log[i].stream <= issued'
    BY <1>1, <1>e, <2>1 DEF IInv, Shape
  <2>2. ASSUME NEW j \in DOMAIN streams', NEW k \in DOMAIN streams',
               streams'[j].epoch = streams'[k].epoch
        PROVE  j = k
    BY <1>1, <1>2, <1>k, <2>2 DEF IInv, Shape, Issued
  <2> QED BY <1>1, <2>1, <2>2, Zenon DEF Issued
<1>5. Counted'
  <2>1. ASSUME NEW k \in DOMAIN streams', NEW i \in DOMAIN log,
               log[i].stream = streams'[k].epoch
        PROVE  log[i].seq <= streams'[k].lastSeq
    <3>1. CASE k \in DOMAIN streams /\ streams'[k] = streams[k]
      BY <2>1, <3>1, Zenon DEF IInv, Counted
    <3>2. CASE streams'[k] = [epoch |-> issued + 1, openedAt |-> v, lastSeq |-> 0]
      <4>1. streams'[k].epoch = issued + 1 BY <3>2
      <4> QED BY <1>e, <2>1, <4>1 DEF IInv, Shape
    <3> QED BY <1>2, <3>1, <3>2, Zenon
  <2> QED BY <1>1, <2>1, Zenon DEF Counted
<1>6. Remembered' BY <1>1, <1>s, Zenon DEF IInv, Remembered, Active
<1>7. AppendedOnce' /\ InOrder' BY <1>1, Zenon DEF IInv, AppendedOnce, InOrder
<1>8. Keyed' BY <1>1, <1>2 DEF IInv, Keyed, StreamKey
<1> QED BY <1>3, <1>4, <1>5, <1>6, <1>7, <1>8, Zenon DEF IInv

(* A decision maintenance removes from the active scope is too old for the    *)
(* floor that the same call raises.                                           *)
LEMMA MaintainStep ==
  ASSUME IInv, MaintainSource
  PROVE  IInv'
<1> DEFINE gone == {k \in Candidates : Expired(k)}
<1>1. /\ UNCHANGED <<plan, issued, clock, window, log>>
      /\ events' = Without(events, gone) /\ rates' = Without(rates, gone)
      /\ streams' = Without(streams, gone)
  BY Zenon DEF MaintainSource, Committed
<1>2. \/ UNCHANGED scope /\ ~\E k \in Candidates : Active(k[2])
      \/ /\ scope # Nil /\ clock >= scope.floor
         /\ scope' = [scope EXCEPT !.floor = clock]
  BY Zenon DEF MaintainSource, DecisionTime, Active
<1>3. scope' # Nil =>
        /\ scope # Nil /\ scope'.epoch = scope.epoch
        /\ scope'.floor \in Nat /\ scope.floor <= scope'.floor
        /\ (\E k \in Candidates : Active(k[2])) => scope'.floor = clock
        /\ scope' = [epoch |-> scope'.epoch, decl |-> scope'.decl,
                     revision |-> scope'.revision, floor |-> scope'.floor]
  <2>1. CASE scope' = scope /\ ~\E k \in Candidates : Active(k[2])
    BY <2>1 DEF IInv, Shape
  <2>2. CASE scope # Nil /\ clock >= scope.floor /\ scope' = [scope EXCEPT !.floor = clock]
    <3>1. PICK a, b, c, f : scope = [epoch |-> a, decl |-> b, revision |-> c, floor |-> f]
      BY <2>2, Zenon DEF IInv, Shape
    <3> QED BY <2>2, <3>1, Zenon DEF IInv, Shape
  <2> QED BY <1>2, <2>1, <2>2, Zenon
<1>4. /\ \A k \in DOMAIN streams' : k \in DOMAIN streams /\ streams'[k] = streams[k]
      /\ \A k \in DOMAIN rates' : k \in DOMAIN rates
      /\ \A k \in DOMAIN events : k \notin gone => k \in DOMAIN events' /\ events'[k] = events[k]
      /\ \A k \in DOMAIN events' : k \in DOMAIN events /\ events'[k] = events[k]
  BY <1>1, Zenon DEF Without
<1> HIDE DEF gone
<1>5. Shape' BY <1>1, <1>3, <1>4, Zenon DEF IInv, Shape
<1>6. Keyed' BY <1>4, Zenon DEF IInv, Keyed
<1>7. Issued' BY <1>1, <1>4 DEF IInv, Issued
<1>8. Counted' BY <1>1, <1>4 DEF IInv, Counted
<1>9. AppendedOnce' /\ InOrder' BY <1>1, Zenon DEF IInv, AppendedOnce, InOrder
<1>10. Remembered'
  <2>1. SUFFICES ASSUME NEW i \in DOMAIN log, scope' # Nil, scope'.epoch = log[i].scope
                 PROVE  \/ log[i].expires < scope'.floor
                        \/ /\ KeyOf(log[i]) \in DOMAIN events'
                           /\ log[i].expires <= events'[KeyOf(log[i])].expires
    BY <1>1, Zenon DEF Remembered, Active
  <2>2. log[i].expires \in Nat /\ scope.floor \in Nat /\ clock \in Nat
    BY <1>3, <2>1, LogEntry, Zenon DEF IInv, Shape
  <2>3. CASE log[i].expires < scope.floor BY <1>3, <2>1, <2>2, <2>3
  <2>4. CASE /\ KeyOf(log[i]) \in DOMAIN events
             /\ log[i].expires <= events[KeyOf(log[i])].expires
    <3>1. CASE KeyOf(log[i]) \notin gone BY <1>4, <2>4, <3>1, Zenon
    <3>2. CASE KeyOf(log[i]) \in gone
      <4>1. KeyOf(log[i]) \in Candidates /\ Expired(KeyOf(log[i])) BY <3>2, Zenon DEF gone
      <4>2. KeyOf(log[i])[1] = 1 /\ KeyOf(log[i])[2] = log[i].scope BY Zenon DEF KeyOf
      <4>3. KeyOf(log[i]) \notin DOMAIN rates /\ KeyOf(log[i]) \notin DOMAIN streams
        BY <4>2 DEF IInv, Keyed
      <4>4. events[KeyOf(log[i])].expires < clock BY <4>1, <4>3, Zenon DEF Expired
      <4>5. scope'.floor = clock BY <1>3, <2>1, <4>1, <4>2, Zenon DEF Active
      <4>6. events[KeyOf(log[i])].expires \in Nat BY <2>4, Zenon DEF IInv, Shape
      <4> QED BY <2>2, <2>4, <4>4, <4>5, <4>6
    <3> QED BY <3>1, <3>2, Zenon
  <2> QED BY <1>3, <2>1, <2>3, <2>4, Zenon DEF IInv, Remembered, Active
<1> QED BY <1>5, <1>6, <1>7, <1>8, <1>9, <1>10, Zenon DEF IInv

(* What commit_source has established when it starts to write.                *)
LEMMA AcceptedFacts ==
  ASSUME NEW r, Outcome(r) = "Accepted"
  PROVE  /\ Active(r.scope) /\ ~(clock < scope.floor)
         /\ ~(EventKey(r) \in DOMAIN events /\ clock <= events[EventKey(r)].expires)
         /\ r.position # Nil =>
              LET name == StreamKey(r.scope, r.position.stream)
              IN  /\ name \in DOMAIN streams /\ streams[name].epoch = r.position.epoch
                  /\ ~(r.position.seq < streams[name].lastSeq + 1)
                  /\ ~(r.position.seq > streams[name].lastSeq + 1)
<1>1. Active(r.scope) /\ ~(clock < scope.floor) /\ Decision(r) = "Accepted"
  BY Zenon DEF Outcome
<1>2. r.position # Nil =>
        LET name == StreamKey(r.scope, r.position.stream)
        IN  name \in DOMAIN streams /\ streams[name].epoch = r.position.epoch
  BY Zenon DEF Outcome
<1>3. ~(EventKey(r) \in DOMAIN events /\ clock <= events[EventKey(r)].expires)
  BY <1>1, Zenon DEF Decision
<1>4. Quotas(r) = "Accepted" BY <1>1, <1>3, Zenon DEF Decision
<1> QED BY <1>1, <1>2, <1>3, <1>4, Zenon DEF Quotas

(* An appended event is not one that is remembered, and follows its stream.   *)
LEMMA CommitStep ==
  ASSUME IInv, NEW r \in plan.commits, CommitSource(r)
  PROVE  IInv'
<1> DEFINE key == EventKey(r)
           name == StreamKey(r.scope, r.position.stream)
           new == Len(log) + 1
<1>1. r \in Commits BY SourceAssumption, Zenon DEF IInv, Shape
<1>2. /\ r.scope \in Nat /\ r.id \in EventIds /\ r.payload \in Payloads
      /\ r.position # Nil => r.position.seq \in Nat /\ r.position.epoch \in Nat \ {0}
  BY <1>1, SourceAssumption DEF Commits, Positions, Epochs
<1>3. /\ scope # Nil /\ scope.epoch = r.scope /\ scope.floor <= clock
      /\ scope.floor \in Nat /\ clock \in Nat /\ window \in Nat /\ issued \in Nat
  BY AcceptedFacts DEF CommitSource, Active, IInv, Shape
<1>4. key \in DOMAIN events => events[key].expires \in Nat /\ events[key].expires < clock
  BY AcceptedFacts, <1>3 DEF CommitSource, IInv, Shape
<1>5. r.position # Nil =>
        /\ name \in DOMAIN streams /\ streams[name].epoch = r.position.epoch
        /\ streams[name].lastSeq \in Nat /\ r.position.seq = streams[name].lastSeq + 1
  BY AcceptedFacts, <1>2 DEF CommitSource, IInv, Shape
<1>6. /\ UNCHANGED <<plan, issued, clock, window>>
      /\ scope' = [scope EXCEPT !.floor = clock] /\ log' = Append(log, Entry(r))
  BY Zenon DEF CommitSource, Committed
<1>7. /\ scope'.epoch = scope.epoch /\ scope'.floor = clock
      /\ scope' = [epoch |-> scope'.epoch, decl |-> scope'.decl,
                   revision |-> scope'.revision, floor |-> scope'.floor]
  <2>1. PICK a, b, c, f : scope = [epoch |-> a, decl |-> b, revision |-> c, floor |-> f]
    BY <1>3, Zenon DEF IInv, Shape
  <2> QED BY <1>6, <2>1, Zenon
<1>8. /\ DOMAIN events' = DOMAIN events \cup {key} /\ events'[key].expires = clock + window
      /\ \A k \in DOMAIN events : k # key => events'[k] = events[k]
  BY Zenon DEF CommitSource, With
<1>9. /\ DOMAIN streams' = DOMAIN streams
      /\ \A k \in DOMAIN streams :
           \/ streams'[k] = streams[k] /\ (r.position # Nil => k # name)
           \/ /\ r.position # Nil /\ k = name
              /\ streams'[k] = [streams[k] EXCEPT !.lastSeq = r.position.seq]
  <2>1. CASE r.position = Nil BY <2>1, Zenon DEF CommitSource
  <2>2. CASE r.position # Nil
    <3>1. streams[name] \in [epoch : 1 .. issued, openedAt : Nat, lastSeq : Nat] BY <1>5, <2>2, Zenon DEF IInv, Shape
    <3> QED BY <2>2, <3>1, Zenon DEF CommitSource
  <2> QED BY <2>1, <2>2, Zenon
<1>10. \A k \in DOMAIN rates' : k \in DOMAIN rates \/ k = RateKey(r.scope)
  BY Zenon DEF CommitSource, With
<1>11. /\ Entry(r) \in Entries /\ Entry(r).scope = r.scope /\ Entry(r).id = r.id
       /\ Entry(r).at = clock /\ Entry(r).expires = clock + window
       /\ r.position = Nil => Entry(r).stream = 0
       /\ r.position # Nil => Entry(r).stream = r.position.epoch /\ Entry(r).seq = r.position.seq
       /\ KeyOf(Entry(r)) = key
  BY <1>2, <1>3 DEF Entry, Entries, Incarnation, KeyOf, EventKey
<1>12. /\ log' \in Seq(Entries) /\ DOMAIN log' = DOMAIN log \cup {new}
       /\ log'[new] = Entry(r) /\ \A i \in DOMAIN log : log'[i] = log[i] /\ i < new
       /\ new \notin DOMAIN log
  <2>1. log \in Seq(Entries) BY Zenon DEF IInv, Shape
  <2> QED BY <1>6, <1>11, <2>1
<1> HIDE DEF key, name, new
<1>13. ASSUME NEW i \in DOMAIN log
       PROVE  /\ log[i].scope \in Nat /\ log[i].stream \in Nat /\ log[i].seq \in Nat
              /\ log[i].at \in Nat /\ log[i].expires \in Nat
  BY LogEntry, <1>13, Zenon DEF IInv
<1>14. ASSUME NEW k \in DOMAIN streams
       PROVE  /\ streams[k].epoch \in 1 .. issued /\ streams[k].lastSeq \in Nat
              /\ streams'[k].epoch = streams[k].epoch /\ streams[k].lastSeq <= streams'[k].lastSeq
              /\ streams'[k] \in [epoch : 1 .. issued, openedAt : Nat, lastSeq : Nat]
              /\ r.position # Nil /\ k = name => streams'[k].lastSeq = r.position.seq
  <2>1. streams[k] \in [epoch : 1 .. issued, openedAt : Nat, lastSeq : Nat] BY <1>14, Zenon DEF IInv, Shape
  <2>2. CASE streams'[k] = streams[k] /\ (r.position # Nil => k # name) BY <1>3, <2>1, <2>2
  <2>3. CASE /\ r.position # Nil /\ k = name
             /\ streams'[k] = [streams[k] EXCEPT !.lastSeq = r.position.seq]
    BY <1>2, <1>5, <2>1, <2>3
  <2> QED BY <1>9, <2>2, <2>3, Zenon
<1>15. Shape'
  BY <1>3, <1>6, <1>7, <1>8, <1>9, <1>12, <1>14 DEF IInv, Shape
<1>16. Keyed' BY <1>9, <1>10 DEF IInv, Keyed, RateKey
<1>17. Issued'
  <2>1. ASSUME NEW i \in DOMAIN log' PROVE log'[i].scope <= issued /\ log'[i].stream <= issued
    <3>1. CASE i \in DOMAIN log BY <1>12, <3>1, Zenon DEF IInv, Issued
    <3>2. CASE i = new BY <1>3, <1>5, <1>11, <1>12, <1>14, <3>2 DEF IInv, Shape
    <3> QED BY <1>12, <3>1, <3>2, Zenon
  <2> QED BY <1>6, <1>9, <1>14, <2>1, Zenon DEF IInv, Issued
<1>18. Counted'
  <2>1. ASSUME NEW k \in DOMAIN streams, NEW i \in DOMAIN log',
               log'[i].stream = streams'[k].epoch
        PROVE  log'[i].seq <= streams'[k].lastSeq
    <3>1. CASE i \in DOMAIN log
      <4>1. log[i].seq <= streams[k].lastSeq BY <1>12, <1>14, <2>1, <3>1, Zenon DEF IInv, Counted
      <4> QED BY <1>12, <1>13, <1>14, <1>15, <3>1, <4>1 DEF Shape
    <3>2. CASE i = new
      <4>1. r.position # Nil BY <1>11, <1>12, <1>14, <2>1, <3>2
      <4>2. k = name BY <1>5, <1>11, <1>12, <1>14, <2>1, <3>2, <4>1 DEF IInv, Issued
      <4> QED BY <1>2, <1>11, <1>12, <1>14, <3>2, <4>1, <4>2
    <3> QED BY <1>12, <3>1, <3>2, Zenon
  <2> QED BY <1>9, <2>1, Zenon DEF Counted
<1>19. ASSUME NEW i \in DOMAIN log, log[i].scope = r.scope
       PROVE  \/ log[i].expires < clock
              \/ /\ KeyOf(log[i]) \in DOMAIN events /\ KeyOf(log[i]) # key
                 /\ log[i].expires <= events[KeyOf(log[i])].expires
  BY <1>3, <1>4, <1>13, <1>19 DEF IInv, Remembered, Active
<1>20. Remembered'
  <2>1. SUFFICES ASSUME NEW i \in DOMAIN log', log'[i].scope = r.scope
                 PROVE  \/ log'[i].expires < clock
                        \/ /\ KeyOf(log'[i]) \in DOMAIN events'
                           /\ log'[i].expires <= events'[KeyOf(log'[i])].expires
    BY <1>3, <1>7, Zenon DEF Remembered, Active, KeyOf
  <2>2. CASE i \in DOMAIN log BY <1>8, <1>12, <1>19, <2>1, <2>2, Zenon
  <2>3. CASE i = new BY <1>3, <1>8, <1>11, <1>12, <2>3
  <2> QED BY <1>12, <2>2, <2>3, Zenon
<1>21. AppendedOnce'
  <2>1. SUFFICES ASSUME NEW i \in DOMAIN log', NEW j \in DOMAIN log', i < j,
                        log'[i].scope = log'[j].scope, log'[i].stream = log'[j].stream,
                        log'[i].id = log'[j].id
                 PROVE  log'[i].expires < log'[j].at
    BY Zenon DEF AppendedOnce
  <2>2. CASE j \in DOMAIN log
    <3>1. i \in DOMAIN log
      BY <1>12, <2>1, <2>2 DEF IInv, Shape, new
    <3> QED BY <1>12, <2>1, <2>2, <3>1, Zenon DEF IInv, AppendedOnce
  <2>3. CASE j = new
    <3>1. i \in DOMAIN log BY <1>12, <2>1, <2>3 DEF IInv, Shape, new
    <3>2. KeyOf(log[i]) = key BY <1>11, <1>12, <2>1, <2>3, <3>1, Zenon DEF KeyOf
    <3> QED BY <1>11, <1>12, <1>19, <2>1, <2>3, <3>1, <3>2, Zenon
  <2> QED BY <1>12, <2>2, <2>3, Zenon
<1>22. InOrder'
  <2>1. SUFFICES ASSUME NEW i \in DOMAIN log', NEW j \in DOMAIN log', i < j,
                        log'[i].stream = log'[j].stream, log'[i].stream # 0
                 PROVE  log'[i].seq < log'[j].seq
    BY Zenon DEF InOrder
  <2>2. CASE j \in DOMAIN log
    <3>1. i \in DOMAIN log BY <1>12, <2>1, <2>2 DEF IInv, Shape, new
    <3> QED BY <1>12, <2>1, <2>2, <3>1, Zenon DEF IInv, InOrder
  <2>3. CASE j = new
    <3>1. i \in DOMAIN log BY <1>12, <2>1, <2>3 DEF IInv, Shape, new
    <3>2. r.position # Nil BY <1>11, <1>12, <2>1, <2>3, Zenon
    <3>3. log[i].seq <= streams[name].lastSeq
      BY <1>5, <1>11, <1>12, <2>1, <2>3, <3>1, <3>2, Zenon DEF IInv, Counted
    <3> QED BY <1>5, <1>11, <1>12, <1>13, <2>3, <3>1, <3>2, <3>3
  <2> QED BY <1>12, <2>2, <2>3, Zenon
<1> QED BY <1>15, <1>16, <1>17, <1>18, <1>20, <1>21, <1>22, Zenon DEF IInv
------------------------------------------------------------------------------
(* Every step preserves the invariant.                                        *)
LEMMA NextIInv == IInv /\ [Next]_vars => IInv'
<1> SUFFICES ASSUME IInv, [Next]_vars PROVE IInv' BY Zenon
<1>1. ASSUME NEW d, CompareInstall(d) PROVE IInv' BY <1>1, InstallStep, Zenon
<1>2. CASE CompareRetire BY <1>2, InstallStep, Zenon
<1>3. ASSUME NEW e, NEW n, NEW v \in Nat, OpenStream(e, n, v) \/ RetireStream(e, n, v)
      PROVE  IInv'
  BY <1>3, StreamStep, Zenon
<1>4. ASSUME NEW r \in plan.commits, CommitSource(r) PROVE IInv' BY <1>4, CommitStep, Zenon
<1>5. CASE MaintainSource BY <1>5, MaintainStep, Zenon
<1>6. ASSUME NEW v, WriteSink(v) PROVE IInv'
  BY <1>6, HostSteps, Zenon DEF WriteSink, authority, table, host, IInv, Shape
<1>7. CASE Tick \/ Regress \/ FailCommit
  BY <1>7, HostSteps DEF Tick, Regress, FailCommit, Fault, authority, table, IInv, Shape
<1>8. ASSUME NEW w \in plan.windows, Reopen(w) PROVE IInv'
  BY <1>8, HostSteps, SourceAssumption, Zenon DEF Reopen, authority, table, IInv, Shape
<1>9. CASE UNCHANGED vars
  BY <1>9, HostSteps, Zenon DEF vars, authority, table, host, IInv, Shape
<1>10. Epochs \subseteq Nat /\ 0 .. LastEpoch \subseteq Nat BY SourceAssumption DEF Epochs
<1> QED BY <1>1, <1>2, <1>3, <1>4, <1>5, <1>6, <1>7, <1>8, <1>9, <1>10, Zenon DEF Next

(* The store never appends an event twice within the window its decision is   *)
(* retained for, through retries, restarts, regressions of the clock and      *)
(* maintenance passes.                                                        *)
THEOREM AppendedOnceCorrect == Spec => []AppendedOnce
<1>1. IInv => AppendedOnce BY Zenon DEF IInv
<1> QED BY InitIInv, NextIInv, <1>1, PTL DEF Spec

(* The store appends the events of one stream incarnation in the order of     *)
(* their sequence numbers.                                                    *)
THEOREM InOrderCorrect == Spec => []InOrder
<1>1. IInv => InOrder BY Zenon DEF IInv
<1> QED BY InitIInv, NextIInv, <1>1, PTL DEF Spec
==============================================================================
