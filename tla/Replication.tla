----------------------------- MODULE Replication -----------------------------
(* One stream replicated by the stock follower: the publisher's store, the    *)
(* receiver's store and, per subscriber node, the session loop between them.  *)
(* The loop establishes the node's planned subscriptions in order, then reads *)
(* them in turn; whatever fails ends the session of all of them.              *)
(* A remote call and its answer are one step; a call whose answer is lost is  *)
(* that step followed by the loss of the session, and a call still under way  *)
(* when the session is lost is left in `detached`, to take effect later or    *)
(* never.  Local transactions run on blocking workers that outlive the        *)
(* session but not the process.                                               *)
EXTENDS Publisher, Receiver

CONSTANTS Setups,        \* what is exercised: plans, subscriptions, operator calls, faults
          PageSize,      \* most records of one page
          MaxDetached    \* calls that outlive their session, per subscription

ASSUME SetupAssumption ==
  \A x \in Setups : x.subs \subseteq Subs /\ x.ids \in Seq(SUBSET PublishIds)

VARIABLES setup,     \* the chosen setup
          sealed,    \* sealed archive files of a subscription
          link,      \* the session loop's state per subscription
          turn,      \* the plan a node's session loop is at
          detached,  \* calls that outlived their session
          losses     \* sessions and processes that may still be lost

vars == <<pubVars, recvVars, setup, sealed, link, turn, detached, losses>>

Able(op) == op \in setup.ops
Plans(n) == setup.plans[n]
Current(s) == LET n == Subscriber[s] IN
              turn[n] \in DOMAIN Plans(n) /\ Plans(n)[turn[n]] = s

(* The loop's state of one plan.                                              *)
LinkState == [pc : {"down", "opened", "installed", "inspected", "receipt", "confirm",
                    "reading", "gap", "accepting", "begin", "download", "commit"},
              after : Nat, gen : Nat, base : Nat, seen : Nat, auth : Nat, start : Nat,
              lo : Nat, hi : Nat, offer : Manifest \cup {None}, resume : BOOLEAN]
Down == [pc |-> "down", after |-> 0, gen |-> 0, base |-> 0, seen |-> 0,
         auth |-> 0, start |-> 0, lo |-> 0, hi |-> 0, offer |-> None, resume |-> FALSE]

Init ==
  /\ PublisherInit /\ ReceiverInit
  /\ setup \in Setups
  /\ sealed = [s \in Subs |-> {}]
  /\ link = [s \in Subs |-> Down]
  /\ turn = [n \in Nodes |-> 1]
  /\ detached = [s \in Subs |-> {}]
  /\ losses = setup.losses

At(s, pc) == Current(s) /\ link[s].pc = pc

(* The loop turns to the next plan when it is done with this one.             *)
Goto(s, l) ==
  LET n == Subscriber[s] IN
  /\ link' = [x \in Subs |-> IF x = s THEN l
                             ELSE IF l = Down /\ Subscriber[x] = n THEN Down ELSE link[x]]
  /\ turn' = [turn EXCEPT ![n] = CASE l = Down -> 1
                                   [] l.pc = "reading" -> (@ % Len(Plans(n))) + 1
                                   [] OTHER -> @]
  /\ UNCHANGED <<setup, sealed, detached, losses>>
Fail(s) == Goto(s, Down) /\ UNCHANGED <<pubVars, recvVars>>
Move(s, pc) == Goto(s, [link[s] EXCEPT !.pc = pc])

----------------------------------------------------------------------------
(* Connecting: run_subscriptions up to its read loop.                         *)

(* The open request is repeated under the same request id on every connect.   *)
OpenRemote(s) ==
  /\ At(s, "down")
  /\ IF opened[s] = None THEN Open(s, All)
     ELSE ServeAuthority(s) /\ UNCHANGED pubVars
  /\ Goto(s, [Down EXCEPT !.pc = "opened", !.auth = opened'[s].auth,
                          !.start = opened'[s].start])
  /\ UNCHANGED recvVars

InstallLocal(s) ==
  /\ At(s, "opened")
  /\ IF InstallAllowed(s, link[s].auth, link[s].start)
     THEN /\ InstallSubscription(s, link[s].auth, link[s].start)
          /\ Move(s, "installed")
          /\ UNCHANGED pubVars
     ELSE Fail(s)

InspectRemote(s) ==
  /\ At(s, "installed")
  /\ IF Serving(s) /\ opened[s].start = link[s].start
     THEN /\ Goto(s, [link[s] EXCEPT !.pc = "inspected", !.seen = opened[s].ack])
          /\ UNCHANGED <<pubVars, recvVars>>
     ELSE Fail(s)

(* Fault: an ACK equal to the local cursor counts as ahead                    *)
EstablishedIfBehind(l) == IF l.seen >= l.after THEN Down ELSE [l EXCEPT !.pc = "reading"]
(* The read loop is entered only if the publisher's ACK is not ahead.         *)
Established(l) == IF l.seen > l.after THEN Down ELSE [l EXCEPT !.pc = "reading"]

(* local_receiver_progress and what follows from it.                          *)
LocalProgress(s) ==
  LET led == ledger[s]
      l == [link[s] EXCEPT !.after = Cursor(s), !.gen = led.gen, !.base = led.archived]
  IN /\ At(s, "inspected")
     /\ led.pending = None
     /\ IF \/ led.closed
           \/ led.archived = 0 /\ led.gen # 0
           \/ ~ReceiveAuthority(s)
        THEN Fail(s)
        ELSE /\ CASE led.archived # 0 -> Goto(s, [l EXCEPT !.pc = "receipt"])
                  [] led.archived = 0 /\ l.seen <= l.after
                     /\ l.after \notin {0, l.seen, l.start} -> Goto(s, [l EXCEPT !.pc = "confirm"])
                  [] OTHER -> Goto(s, Established(l))
             /\ UNCHANGED <<pubVars, recvVars>>

(* A pending installation is finished first.                                  *)
ResumeInstall(s) ==
  /\ At(s, "inspected")
  /\ ledger[s].pending # None
  /\ Goto(s, [link[s] EXCEPT !.pc = "download", !.offer = ledger[s].pending.offer,
                             !.gen = ledger[s].pending.gen, !.resume = TRUE])
  /\ UNCHANGED <<pubVars, recvVars>>

Receipt(l, through) == [pos |-> l.base, gen |-> l.gen, through |-> through]

SendReceipt(s) ==
  /\ At(s, "receipt")
  /\ IF ReceiptAllowed(s, Receipt(link[s], link[s].base))
     THEN /\ ReceiveSnapshot(s, Receipt(link[s], link[s].base))
          /\ Goto(s, IF link[s].after # link[s].base
                     THEN [link[s] EXCEPT !.pc = "confirm"] ELSE Established(link[s]))
          /\ UNCHANGED recvVars
     ELSE Fail(s)

(* What is durable here is confirmed there: a suffix of the archive, or an    *)
(* acknowledgement.                                                           *)
ConfirmSuffix(s) ==
  /\ At(s, "confirm") /\ link[s].base # 0
  /\ IF ReceiptAllowed(s, Receipt(link[s], link[s].after))
     THEN /\ ReceiveSnapshot(s, Receipt(link[s], link[s].after))
          /\ Goto(s, Established(link[s]))
          /\ UNCHANGED recvVars
     ELSE Fail(s)

ConfirmEvents(s) ==
  /\ At(s, "confirm") /\ link[s].base = 0
  /\ IF AckAllowed(s, link[s].after)
     THEN /\ Acknowledge(s, link[s].after)
          /\ Goto(s, Established(link[s]))
          /\ UNCHANGED recvVars
     ELSE Fail(s)

----------------------------------------------------------------------------
(* The read loop.  With nothing to read it turns to the next plan, or sleeps. *)
Read(s) ==
  /\ At(s, "reading")
  /\ CASE ReadGap(s, link[s].after) -> Move(s, "gap") /\ UNCHANGED <<pubVars, recvVars>>
       [] ReadAllowed(s, link[s].after) /\ ~ReadGap(s, link[s].after) ->
            /\ \E n \in 1..PageSize :
                 LET page == ReadPage(s, link[s].after, n) IN
                 IF page = {} THEN Goto(s, link[s])
                 ELSE /\ Cardinality(page) = n
                      /\ \E lo, hi \in page :
                           /\ page \subseteq lo .. hi
                           /\ Goto(s, [link[s] EXCEPT !.pc = "accepting", !.lo = lo, !.hi = hi])
            /\ UNCHANGED <<pubVars, recvVars>>
       [] OTHER -> Fail(s)

(* Fault: the page is confirmed once its first record is accepted             *)
AcceptFirstOnly(s) ==
  LET l == link[s] IN
  /\ At(s, "accepting")
  /\ IF AcceptResult(s, l.gen, l.lo) \in {"new", "duplicate"}
     THEN /\ Accept(s, l.gen, l.lo)
          /\ Goto(s, [l EXCEPT !.pc = "confirm", !.after = l.hi,
                               !.lo = 0, !.hi = 0, !.seen = 0])
          /\ UNCHANGED pubVars
     ELSE Fail(s)

(* One transaction per record of the page, on one blocking worker.            *)
AcceptNext(s) ==
  LET l == link[s] IN
  /\ At(s, "accepting")
  /\ IF AcceptResult(s, l.gen, l.lo) \in {"new", "duplicate"}
     THEN /\ Accept(s, l.gen, l.lo)
          /\ Goto(s, IF l.lo < l.hi THEN [l EXCEPT !.lo = @ + 1]
                     ELSE [l EXCEPT !.pc = "confirm", !.after = row'[s].received,
                                    !.lo = 0, !.hi = 0, !.seen = 0])
          /\ UNCHANGED pubVars
     ELSE Fail(s)

(* begin_snapshot_install: an unfinished installation is taken up, another    *)
(* baseline cannot be replaced, else the offer is asked for.                  *)
InspectOffer(s) ==
  /\ At(s, "gap")
  /\ CASE ledger[s].pending # None ->
            /\ Goto(s, [link[s] EXCEPT !.pc = "download", !.gen = ledger[s].pending.gen,
                                       !.offer = ledger[s].pending.offer])
            /\ UNCHANGED <<pubVars, recvVars>>
       [] ledger[s].pending = None /\ ~Installed(s) /\ CurrentOffer(s) # 0 ->
            /\ Goto(s, [link[s] EXCEPT !.pc = "begin", !.gen = ledger[s].gen, !.offer =
                          [pos |-> CurrentOffer(s), auth |-> opened[s].auth]])
            /\ UNCHANGED <<pubVars, recvVars>>
       [] OTHER -> Fail(s)

Begin(s) ==
  LET l == link[s] IN
  /\ At(s, "begin")
  /\ CASE BeginAllowed(s, l.offer, l.gen) ->
            /\ BeginSnapshotInstall(s, l.offer, l.gen)
            /\ Move(s, "download") /\ UNCHANGED pubVars
       [] BeginRepeats(s, l.offer, l.gen) ->
            Move(s, "download") /\ UNCHANGED <<pubVars, recvVars>>
       [] OTHER -> Fail(s)

(* download_and_seal: every chunk is served only while the offer stands; a    *)
(* file sealed by an earlier session is used as it is.                        *)
File(l) == [gen |-> l.gen + 1, pos |-> l.offer.pos]
DownloadAndSeal(s) ==
  /\ At(s, "download")
  /\ IF \/ File(link[s]) \in sealed[s]
        \/ /\ CurrentOffer(s) = link[s].offer.pos
           /\ opened[s].auth = link[s].offer.auth
     THEN /\ sealed' = [sealed EXCEPT ![s] = @ \cup {File(link[s])}]
          /\ link' = [link EXCEPT ![s].pc = "commit"]
          /\ UNCHANGED <<pubVars, recvVars, setup, turn, detached, losses>>
     ELSE Fail(s)

(* The archive becomes the baseline; a repeated commit finds it there.        *)
CommitRepeats(s, offer, g) ==
  /\ ~ledger[s].closed
  /\ ledger[s].archived = offer.pos /\ ledger[s].gen = g + 1
AfterCommit(l) ==
  IF l.resume THEN [l EXCEPT !.pc = "inspected", !.offer = None, !.resume = FALSE]
  ELSE [l EXCEPT !.pc = "receipt", !.after = l.offer.pos, !.base = l.offer.pos,
                 !.gen = l.gen + 1, !.seen = 0, !.offer = None]
Commit(s) ==
  LET l == link[s] IN
  /\ At(s, "commit")
  /\ CASE CommitRepeats(s, l.offer, l.gen) ->
            Goto(s, AfterCommit(l)) /\ UNCHANGED <<pubVars, recvVars>>
       [] ~CommitRepeats(s, l.offer, l.gen) /\ CommitAllowed(s, l.offer, l.gen)
          /\ ~Installed(s) ->
            /\ CommitSnapshotArchive(s, l.offer, l.gen)
            /\ Goto(s, AfterCommit(l)) /\ UNCHANGED pubVars
       [] OTHER -> Fail(s)

----------------------------------------------------------------------------
(* Losing the session.  The call under way may have been sent, or runs on a   *)
(* worker that nobody waits for any more.                                     *)
RemoteCall(s) ==
  CASE link[s].pc = "down" -> {[op |-> "open"]}
    [] link[s].pc = "receipt" -> {[op |-> "cover", r |-> Receipt(link[s], link[s].base)]}
    [] link[s].pc = "confirm" /\ link[s].base # 0 ->
         {[op |-> "cover", r |-> Receipt(link[s], link[s].after)]}
    [] link[s].pc = "confirm" /\ link[s].base = 0 -> {[op |-> "ack", pos |-> link[s].after]}
    [] OTHER -> {}
LocalCall(s) ==
  CASE link[s].pc = "opened" ->
         {[op |-> "install", auth |-> link[s].auth, start |-> link[s].start]}
    [] link[s].pc = "accepting" ->
         {[op |-> "accept", gen |-> link[s].gen, lo |-> link[s].lo, hi |-> link[s].hi]}
    [] link[s].pc = "begin" -> {[op |-> "begin", offer |-> link[s].offer, gen |-> link[s].gen]}
    [] link[s].pc = "commit" -> {[op |-> "commit", offer |-> link[s].offer, gen |-> link[s].gen]}
    [] OTHER -> {}
LocalOps == {"install", "accept", "begin", "commit"}

NodeDown(n) == /\ link' = [s \in Subs |-> IF Subscriber[s] = n THEN Down ELSE link[s]]
               /\ turn' = [turn EXCEPT ![n] = 1]
               /\ losses' = losses - 1
               /\ UNCHANGED <<pubVars, recvVars, setup, sealed>>

LoseSession(s) ==
  /\ losses > 0 /\ Current(s)
  /\ \E sent \in SUBSET RemoteCall(s) :
       detached' = [detached EXCEPT ![s] = @ \cup sent \cup LocalCall(s)]
  /\ Cardinality(detached'[s]) <= MaxDetached
  /\ NodeDown(Subscriber[s])

(* The process ends: its workers end with it, what it sent does not.          *)
Crash(n) ==
  /\ losses > 0
  /\ detached' = [s \in Subs |-> IF Subscriber[s] # n THEN detached[s]
                                 ELSE {c \in detached[s] : c.op \notin LocalOps}]
  /\ NodeDown(n)

(* A detached call reaches its store.                                         *)
Effect(s, c) ==
  CASE c.op = "open" /\ OpenAllowed(s, All) -> Open(s, All) /\ UNCHANGED recvVars
    [] c.op = "ack" /\ AckAllowed(s, c.pos) -> Acknowledge(s, c.pos) /\ UNCHANGED recvVars
    [] c.op = "cover" /\ ReceiptAllowed(s, c.r) -> ReceiveSnapshot(s, c.r) /\ UNCHANGED recvVars
    [] c.op = "install" /\ InstallAllowed(s, c.auth, c.start) ->
         InstallSubscription(s, c.auth, c.start) /\ UNCHANGED pubVars
    [] c.op = "accept" /\ AcceptResult(s, c.gen, c.lo) \in {"new", "duplicate"} ->
         Accept(s, c.gen, c.lo) /\ UNCHANGED pubVars
    [] c.op = "begin" /\ BeginAllowed(s, c.offer, c.gen) ->
         BeginSnapshotInstall(s, c.offer, c.gen) /\ UNCHANGED pubVars
    [] c.op = "commit" /\ CommitAllowed(s, c.offer, c.gen) /\ ~Installed(s) ->
         CommitSnapshotArchive(s, c.offer, c.gen) /\ UNCHANGED pubVars
    [] OTHER -> UNCHANGED <<pubVars, recvVars>>

(* A page goes on with its next record unless one was refused.                *)
Rest(s, c) ==
  IF c.op = "accept" /\ c.lo < c.hi /\ AcceptResult(s, c.gen, c.lo) \in {"new", "duplicate"}
  THEN {[c EXCEPT !.lo = @ + 1]} ELSE {}

Detached(s, c) ==
  /\ Effect(s, c)
  /\ detached' = [detached EXCEPT ![s] = (@ \ {c}) \cup Rest(s, c)]
  /\ UNCHANGED <<setup, sealed, link, turn, losses>>

----------------------------------------------------------------------------
(* Operators, the publishing application, the projecting application and      *)
(* maintenance call the stores directly.                                      *)
AtPublisher == UNCHANGED <<recvVars, setup, sealed, link, turn, detached, losses>>
AtReceiver == UNCHANGED <<pubVars, setup, sealed, link, turn, detached, losses>>

(* setup.ids[n] are the identities tried for the n-th record.                 *)
Publish == /\ HeadSeq < Len(setup.ids)
           /\ \E e \in 1..stream.epoch, id \in setup.ids[HeadSeq + 1] : AppendPublished(e, id)
           /\ AtPublisher
Identities == /\ Able("identities")
              /\ CloseEpoch \/ \E keys \in SUBSET DOMAIN stream.ids : RetireIdentities(keys)
              /\ AtPublisher
Trim == /\ Able("trim")
        /\ \E last \in 1..HeadSeq : RetireHistory(last)
        /\ AtPublisher
Maintain == Able("members") /\ RetireSafeHistory /\ AtPublisher
Membership ==
  /\ Able("members")
  /\ \E s \in setup.subs, until \in IF Able("leases") THEN 0..MaxNow ELSE {0} :
       \/ JoinReplica(s, until)
       \/ ExtendReplica(Subscriber[s], until)
       \/ RetireReplica(Subscriber[s])
  /\ AtPublisher
Time == Able("leases") /\ Tick /\ AtPublisher
OpenOther == /\ Able("open")
             /\ \E s \in setup.subs, h \in {All, FromNow} \cup {After(p) : p \in 1..HeadSeq} : Open(s, h)
             /\ AtPublisher
Revoke == /\ Able("authority")
          /\ \E s \in setup.subs, on \in BOOLEAN :
               \/ SetServeAuthority(Subscriber[s], on) /\ AtPublisher
               \/ SetReceiveAuthority(Subscriber[s], on) /\ AtReceiver
Close == /\ Able("close")
         /\ \E s \in setup.subs : \/ CloseSubscription(s) /\ AtPublisher
                                  \/ CloseSnapshotReceiver(s) /\ AtReceiver
Offer == /\ Able("snapshot")
         /\ \/ \E s \in setup.subs, p \in 1..HeadSeq : PublishOffer(s, p)
            \/ \E s \in setup.subs : RetireOffer(s)
         /\ AtPublisher
Project ==
  /\ Able("project")
  /\ \E s \in setup.subs :
       \/ \E p \in 1..HeadSeq : RecordProjectionProgress(s, ledger[s].gen, p)
       \/ \E p \in 1..HeadSeq : RetireProjectedInbox(s, ledger[s].gen, p)
       \/ BindArchivedProjection(s)
       \/ \E p \in 1..HeadSeq : RetireSnapshottedInbox(s, p)
  /\ AtReceiver

(* A host that embeds the store drives its own subscription: it may install   *)
(* one projected snapshot after another, and aborts what it began.            *)
Embed ==
  /\ Able("embed")
  /\ \E s \in setup.subs :
       \/ /\ row[s] = None /\ opened[s] # None /\ InstallAllowed(s, opened[s].auth, opened[s].start)
          /\ InstallSubscription(s, opened[s].auth, opened[s].start)
          /\ AtReceiver
       \/ /\ row[s] # None /\ ReadAllowed(s, Cursor(s)) /\ ReadPage(s, Cursor(s), 1) # {}
          /\ Accept(s, ledger[s].gen, Cursor(s) + 1)
          /\ AtReceiver
       \/ row[s] # None /\ Cursor(s) > 0 /\ Acknowledge(s, Cursor(s)) /\ AtPublisher
       \/ /\ CurrentOffer(s) # 0
          /\ BeginSnapshotInstall(s, [pos |-> CurrentOffer(s), auth |-> opened[s].auth], ledger[s].gen)
          /\ AtReceiver
       \/ /\ ledger[s].pending # None
          /\ CommitSnapshotAnchor(s, ledger[s].pending.offer, ledger[s].gen)
          /\ AtReceiver
       \/ AbortSnapshotInstall(s) /\ AtReceiver

Operator == \/ Publish \/ Identities \/ Trim \/ Maintain \/ Membership \/ Time
            \/ OpenOther \/ Revoke \/ Close \/ Offer \/ Project \/ Embed

Follow(s) ==
  \/ OpenRemote(s) \/ InstallLocal(s) \/ InspectRemote(s) \/ LocalProgress(s)
  \/ ResumeInstall(s) \/ SendReceipt(s) \/ ConfirmSuffix(s) \/ ConfirmEvents(s)
  \/ Read(s) \/ AcceptNext(s) \/ InspectOffer(s) \/ Begin(s)
  \/ DownloadAndSeal(s) \/ Commit(s)
Session(n) == \E s \in Subs : Subscriber[s] = n /\ Follow(s)

Next == \/ Operator
        \/ \E n \in Nodes : Session(n)
        \/ \E s \in Subs : LoseSession(s) \/ \E c \in detached[s] : Detached(s, c)
        \/ \E n \in Nodes : Crash(n)

(* supervise_peer reconnects after every end of a session, for ever.          *)
Spec == Init /\ [][Next]_vars /\ \A n \in Nodes : WF_vars(Session(n))

----------------------------------------------------------------------------
(* Properties.                                                                *)

(* Where a subscription's receiver durably stands.                            *)
Durable(s) == IF row[s] # None THEN Cursor(s)
              ELSE IF opened[s] # None THEN opened[s].start ELSE 0

(* What the publisher counts as confirmed (acknowledged, or covered by an     *)
(* archive receipt) the receiver durably holds, whatever calls were lost,     *)
(* repeated or late; so a reconnecting follower never finds the publisher's   *)
(* ACK ahead of its inbox (private_follows.rs ensures it and would fail).     *)
ConfirmedIsDurable ==
  \A s \in Subs : opened[s] # None => Confirmed(s) <= Durable(s)

(* No operation of either store can meet one of its Corrupt branches: the     *)
(* publisher holds exactly the records after its retirement anchor; the inbox *)
(* of the current delivery generation is exactly the records after the        *)
(* baseline that were received and not retired; and whatever lies at or below *)
(* a snapshot baseline belongs to an older generation (the comment in         *)
(* retire_snapshotted_inbox).                                                 *)
StoresNeverCorrupt ==
  /\ stream.rows = stream.min .. HeadSeq
  /\ \A s \in Subs : row[s] # None =>
       LET g == IF Installed(s) THEN ledger[s].gen ELSE 0 IN
       /\ {q \in DOMAIN inbox[s] : q > Base(s)} = RetireFirst(s) .. Cursor(s)
       /\ \A q \in DOMAIN inbox[s] : inbox[s][q] = g <=> q > Base(s)
       /\ \A q \in 1..HeadSeq + 1 : AcceptResult(s, g, q) # "corrupt"

(* A record leaves the inbox only after the application projected it in its   *)
(* own generation, or once a projected snapshot of a later generation covers  *)
(* it.                                                                        *)
NothingUnprojectedLeaves ==
  [][\A s \in Subs : \A q \in DOMAIN inbox[s] \ DOMAIN inbox'[s] :
       \/ inbox[s][q] = ledger[s].gen /\ q <= row[s].projected
       \/ inbox[s][q] < ledger[s].gen /\ q <= ledger[s].active]_vars

(* The replicated log: identities are published once, the log is kept for the *)
(* members it is owed to, and cursors only move forward.                      *)
Log == INSTANCE ReplicatedLog
         WITH Identities <- PublishKeys,
              log <- stream.log, kept <- stream.min,
              cursor <- [s \in Subs |-> Durable(s)],
              owed <- {members[n].sub : n \in ActiveMembers}
ImplementsReplicatedLog == Log!LogSpec

(* What a follower cannot get past on its own: authority or a subscription    *)
(* was withdrawn, its receiver was closed or belongs to an embedding host, or *)
(* the publisher refuses what it must confirm first.                          *)
Withdrawn(s) ==
  \/ IF opened[s] = None THEN ~OpenAllowed(s, All) ELSE ~Serving(s)
  \/ IF row[s] = None THEN ~receive[Subscriber[s]].on ELSE ~ReceiveAuthority(s)
  \/ ledger[s].closed
  \/ ledger[s].gen # 0 /\ ledger[s].archived = 0
Unconfirmable(s) ==
  /\ opened[s] # None /\ row[s] # None
  /\ IF ledger[s].archived # 0
     THEN LET r == [base |-> ledger[s].archived, gen |-> ledger[s].gen] IN
          \/ ~ReceiptAllowed(s, Receipt(r, r.base))
          \/ Cursor(s) # r.base /\ ~ReceiptAllowed(s, Receipt(r, Cursor(s)))
     ELSE Cursor(s) \notin {0, opened[s].ack, row[s].start} /\ ~AckAllowed(s, Cursor(s))
(* Trimmed past its cursor without a snapshot to install.                     *)
Stranded(s) ==
  /\ opened[s] # None /\ row[s] # None
  /\ \/ /\ ledger[s].pending # None
        /\ CurrentOffer(s) # ledger[s].pending.offer.pos
        /\ [gen |-> ledger[s].gen + 1, pos |-> ledger[s].pending.offer.pos] \notin sealed[s]
     \/ /\ ReadGap(s, Cursor(s))
        /\ ledger[s].archived # 0 \/ CurrentOffer(s) = 0
Waits(n) == \E i \in DOMAIN Plans(n) :
              LET s == Plans(n)[i] IN Withdrawn(s) \/ Unconfirmable(s) \/ Stranded(s)

(* A node's session again and again has every published record of every       *)
(* planned subscription in the durable inbox, or waits for an operator:       *)
(* whatever sessions, processes, calls and answers were lost before.          *)
CaughtUp(n) == \A i \in DOMAIN Plans(n) : Durable(Plans(n)[i]) = HeadSeq
Delivered == \A n \in Nodes : []<>(CaughtUp(n) \/ Waits(n))

(* docs/src/configuration.md:377 says of a follower whose history was trimmed *)
(* that "stock can archive an application-sealed snapshot when [...] the      *)
(* publisher offers that exact subscription".  So a planned subscription that *)
(* has the gap, the offer and its authority does not keep all three for ever. *)
GapWithOffer(s) ==
  /\ \E i \in DOMAIN Plans(Subscriber[s]) : Plans(Subscriber[s])[i] = s
  /\ row[s] # None /\ ~Withdrawn(s) /\ ~Installed(s) /\ ledger[s].pending = None
  /\ ReadGap(s, Cursor(s)) /\ CurrentOffer(s) # 0
GapIsArchived == \A s \in Subs : []<>~GapWithOffer(s)
==============================================================================
