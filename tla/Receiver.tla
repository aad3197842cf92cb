------------------------------- MODULE Receiver -------------------------------
(* The receiver's side of a subscription as the durable store keeps it: the   *)
(* subscription row, the inbox table and the snapshot ledger.  As on the      *)
(* publisher's side each operation is one transaction, a position is its      *)
(* sequence and 0 is "no position".  The inbox is keyed by sequence alone;    *)
(* the value a key maps to here is the delivery generation that wrote it,     *)
(* which the store does not keep and only the properties read.                *)
EXTENDS FederationConstants

CONSTANT MaxGeneration    \* bound on delivery generations

VARIABLES receive,   \* authority rows: may this node receive, at which revision
          row,       \* receiver rows of the subscription table
          inbox,     \* inbox rows
          ledger     \* snapshot ledgers

recvVars == <<receive, row, inbox, ledger>>

(* The rows of the receiver's tables.  A manifest names a position and the    *)
(* publisher authority it was made under.                                     *)
ReceiverRow == [auth : Nat, opened : Nat, start : Nat,
                received : Nat, projected : Nat, retired : Nat]
Inbox == UNION {[qs -> Nat] : qs \in SUBSET Nat}
Manifest == [pos : Nat, auth : Nat]
StoredPending == [offer : Manifest, gen : Nat, auth : Nat, received : Nat, projected : Nat]
StoredLedger == [gen : Nat, active : Nat, archived : Nat,
                 pending : StoredPending \cup {None}, closed : BOOLEAN]
NoLedger == [gen |-> 0, active |-> 0, archived |-> 0, pending |-> None, closed |-> FALSE]

ASSUME ReceiverAssumption ==
  None \notin ReceiverRow /\ None \notin StoredPending /\ None \notin Manifest

ReceiverInit ==
  /\ receive = [n \in Nodes |-> [rev |-> 1, on |-> TRUE]]
  /\ row = [s \in Subs |-> None]
  /\ inbox = [s \in Subs |-> <<>>]
  /\ ledger = [s \in Subs |-> NoLedger]

----------------------------------------------------------------------------
(* A subscription keeps the receive authority it was installed under; opening *)
(* it again with the same result and authority changes nothing.               *)
InstallAllowed(s, auth, start) ==
  LET current == receive[Subscriber[s]] IN
  /\ current.on
  /\ row[s] # None => /\ row[s].auth = current.rev
                      /\ row[s].opened = auth /\ row[s].start = start

InstallSubscription(s, auth, start) ==
  /\ InstallAllowed(s, auth, start)
  /\ row' = IF row[s] # None THEN row
            ELSE [row EXCEPT ![s] = [auth |-> receive[Subscriber[s]].rev,
                                     opened |-> auth, start |-> start,
                                     received |-> 0, projected |-> 0, retired |-> 0]]
  /\ UNCHANGED <<receive, inbox, ledger>>

SetReceiveAuthority(n, on) ==
  /\ receive[n].rev < MaxAuthority
  /\ receive' = [receive EXCEPT ![n] = [rev |-> @.rev + 1, on |-> on]]
  /\ UNCHANGED <<row, inbox, ledger>>

ReceiveAuthority(s) ==
  /\ row[s] # None
  /\ receive[Subscriber[s]].on
  /\ row[s].auth = receive[Subscriber[s]].rev

----------------------------------------------------------------------------
(* A pending install and a closed receiver deny all delivery work; once a     *)
(* snapshot is the baseline the caller must name its delivery generation.     *)
Installed(s) == ledger[s].active # 0 \/ ledger[s].archived # 0
(* Fault: a call of an earlier delivery generation is let in                  *)
GateAnyGeneration(s, g) == ~ledger[s].closed /\ ledger[s].pending = None
Gate(s, g) ==
  /\ ~ledger[s].closed /\ ledger[s].pending = None
  /\ g = IF Installed(s) THEN ledger[s].gen ELSE 0
Baseline(s) == IF ledger[s].active # 0 THEN ledger[s].active ELSE ledger[s].archived
(* An archive alone is not an application projection.                         *)
GateProjected(s, g) == ~(ledger[s].archived # 0 /\ ledger[s].active = 0) /\ Gate(s, g)

Base(s) == IF Baseline(s) # 0 THEN Baseline(s) ELSE row[s].start
Cursor(s) == IF row[s].received # 0 THEN row[s].received ELSE Base(s)

(* The order of the tests is the code's.                                      *)
AcceptResult(s, g, q) ==
  IF ~Gate(s, g) \/ ~ReceiveAuthority(s) THEN "conflict"
  ELSE IF row[s].projected > row[s].received \/ row[s].retired > row[s].projected THEN "corrupt"
  ELSE IF q <= Base(s) THEN "conflict"
  ELSE IF q <= Cursor(s)
       THEN IF q < row[s].retired THEN "indeterminate"
            ELSE IF q = row[s].retired \/ q \in DOMAIN inbox[s] THEN "duplicate" ELSE "corrupt"
  ELSE IF q > Cursor(s) + 1 THEN "gap"
  ELSE IF q \in DOMAIN inbox[s] THEN "corrupt" ELSE "new"

(* A duplicate is answered with the received head.                            *)
Accept(s, g, q) ==
  /\ AcceptResult(s, g, q) \in {"new", "duplicate"}
  /\ IF AcceptResult(s, g, q) = "duplicate" THEN UNCHANGED <<inbox, row>>
     ELSE /\ inbox' = [inbox EXCEPT ![s] = With(@, q, g)]
          /\ row' = [row EXCEPT ![s].received = q]
  /\ UNCHANGED <<receive, ledger>>

----------------------------------------------------------------------------
(* The application projects in order and may drop what it projected.          *)
RecordProjectionProgress(s, g, p) ==
  /\ GateProjected(s, g) /\ ReceiveAuthority(s)
  /\ p > Base(s) /\ p > row[s].retired
  /\ p \in DOMAIN inbox[s] /\ p <= row[s].received
  /\ p = (IF row[s].projected # 0 THEN row[s].projected ELSE Base(s)) + 1
  /\ row' = [row EXCEPT ![s].projected = p]
  /\ UNCHANGED <<receive, inbox, ledger>>

RetireFirst(s) == (IF row[s].retired # 0 THEN row[s].retired ELSE Base(s)) + 1

(* A batch ends where its record or byte limit is met.  A row missing below   *)
(* the projection is reported as corruption.                                  *)
RetireProjectedInbox(s, g, last) ==
  /\ row[s] # None /\ GateProjected(s, g)
  /\ last \in RetireFirst(s) .. row[s].projected
  /\ RetireFirst(s) .. last \subseteq DOMAIN inbox[s]
  /\ inbox' = [inbox EXCEPT ![s] = [q \in DOMAIN @ \ (RetireFirst(s) .. last) |-> @[q]]]
  /\ row' = [row EXCEPT ![s].retired = last]
  /\ UNCHANGED <<receive, ledger>>

----------------------------------------------------------------------------
(* Snapshot installation in two transactions.  The pending row carries the    *)
(* delivery state it was admitted against.  `offer` is the manifest.          *)
BeginAllowed(s, offer, g) ==
  /\ ~ledger[s].closed
  /\ ledger[s].pending = None
  /\ ledger[s].archived = 0
  /\ g = ledger[s].gen
  /\ ReceiveAuthority(s)
  /\ row[s].opened = offer.auth /\ row[s].start = 0
  /\ offer.pos >= row[s].received
  /\ offer.pos > Baseline(s)
(* Retries: the same pending request, or the install it already became.       *)
BeginRepeats(s, offer, g) ==
  /\ ~ledger[s].closed
  /\ \/ /\ ledger[s].pending # None
        /\ ledger[s].pending.offer = offer /\ ledger[s].pending.gen = g
     \/ /\ ledger[s].pending = None
        /\ Installed(s) /\ Baseline(s) = offer.pos /\ ledger[s].gen = g + 1

BeginSnapshotInstall(s, offer, g) ==
  /\ BeginAllowed(s, offer, g)
  /\ ledger' = [ledger EXCEPT ![s].pending =
                  [offer |-> offer, gen |-> g, auth |-> row[s].auth,
                   received |-> row[s].received, projected |-> row[s].projected]]
  /\ UNCHANGED <<receive, row, inbox>>

CommitAllowed(s, offer, g) ==
  LET p == ledger[s].pending IN
  /\ ~ledger[s].closed
  /\ p # None
  /\ p.offer = offer /\ p.gen = g /\ g = ledger[s].gen
  /\ p.auth = row[s].auth
  /\ p.received = row[s].received /\ p.projected = row[s].projected
  /\ ReceiveAuthority(s)

(* The delivery state restarts at the baseline; old inbox rows stay behind it.*)
NewGeneration(s, active, archived) ==
  /\ ledger[s].gen < MaxGeneration
  /\ row' = [row EXCEPT ![s].received = 0, ![s].projected = 0, ![s].retired = 0]
  /\ ledger' = [ledger EXCEPT ![s].gen = @ + 1, ![s].active = active,
                              ![s].archived = archived, ![s].pending = None]
  /\ UNCHANGED <<receive, inbox>>

CommitSnapshotAnchor(s, offer, g) ==
  CommitAllowed(s, offer, g) /\ NewGeneration(s, offer.pos, 0)

CommitSnapshotArchive(s, offer, g) ==
  /\ CommitAllowed(s, offer, g)
  /\ ~Installed(s)
  /\ NewGeneration(s, 0, offer.pos)

(* The application projects the archived state.                               *)
BindArchivedProjection(s) ==
  /\ ~ledger[s].closed /\ ledger[s].pending = None
  /\ ledger[s].archived # 0 /\ ledger[s].active = 0
  /\ ReceiveAuthority(s)
  /\ ledger' = [ledger EXCEPT ![s].active = ledger[s].archived]
  /\ UNCHANGED <<receive, row, inbox>>

AbortSnapshotInstall(s) ==
  /\ ledger[s].pending # None
  /\ ledger' = [ledger EXCEPT ![s].pending = None]
  /\ UNCHANGED <<receive, row, inbox>>

CloseSnapshotReceiver(s) ==
  /\ row[s] # None /\ ~ledger[s].closed
  /\ ledger' = [ledger EXCEPT ![s].closed = TRUE]
  /\ UNCHANGED <<receive, row, inbox>>

(* Fault: an archive that nobody projected is enough                          *)
RetireArchivedInbox(s, last) ==
  /\ ledger[s].pending = None
  /\ Installed(s)
  /\ last \in DOMAIN inbox[s] /\ last <= Baseline(s)
  /\ inbox' = [inbox EXCEPT ![s] = [q \in {x \in DOMAIN @ : x > last} |-> @[q]]]
  /\ UNCHANGED <<receive, row, ledger>>

(* Rows at or below the baseline go in key order, a batch at a time.          *)
RetireSnapshottedInbox(s, last) ==
  /\ ledger[s].pending = None
  /\ ledger[s].active # 0
  /\ last \in DOMAIN inbox[s] /\ last <= ledger[s].active
  /\ inbox' = [inbox EXCEPT ![s] = [q \in {x \in DOMAIN @ : x > last} |-> @[q]]]
  /\ UNCHANGED <<receive, row, ledger>>
==============================================================================
