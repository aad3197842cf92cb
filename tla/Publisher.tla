------------------------------ MODULE Publisher ------------------------------
(* The publisher's side of one federation stream as the durable store keeps   *)
(* it.  Every operation is one write transaction, so it is one action here.   *)
(* A position is a sequence number with the digest of its record; the store   *)
(* never rewrites a row, so the sequence alone names the position and 0       *)
(* stands for "no position".  The peer row and the export row of a subscriber *)
(* are one authority row: each change of either moves a revision that is      *)
(* never used again.  An operation repeated with the same request id, or      *)
(* naming a stale revision, changes nothing and is not an action.             *)
EXTENDS FederationConstants, Sequences, FiniteSets

CONSTANTS PublishIds,      \* identities an application may publish under
          PublishIdLimit,  \* rows of the publish request table
          MaxRecords, MaxEpoch, MaxNow      \* bounds

VARIABLES stream,    \* StreamRow, its records table and publish request table
          serve,     \* authority rows: may a node be served, at which revision
          opened,    \* publisher rows of the subscription table
          members,   \* replica member rows of the stream
          offers,    \* offered snapshot position (and its pin), 0 for none
          receipts,  \* snapshot archive receipts
          now        \* trusted time

pubVars == <<stream, serve, opened, members, offers, receipts, now>>

(* The rows of the publisher's tables.                                        *)
PublishKeys == [epoch : 1..MaxEpoch, id : PublishIds]
StreamRow == [log : Seq(PublishKeys), rows : SUBSET Nat, epoch : 1..MaxEpoch,
              min : Nat \ {0}, ids : UNION {[ks -> Nat] : ks \in SUBSET PublishKeys}]
PublisherRow == [auth : Nat, ack : Nat, closed : BOOLEAN, start : Nat]
MemberRow == [sub : Subs, until : Nat, retired : BOOLEAN]
StoredReceived == [pos : Nat, gen : Nat, through : Nat]

ASSUME PublisherAssumption ==
  /\ MaxEpoch \in Nat \ {0} /\ MaxNow \in Nat
  /\ None \notin PublisherRow /\ None \notin MemberRow /\ None \notin StoredReceived

HeadSeq == Len(stream.log)

PublisherInit ==
  /\ stream = [log |-> <<>>, rows |-> {}, epoch |-> 1, min |-> 1, ids |-> <<>>]
  /\ serve = [n \in Nodes |-> [rev |-> 1, on |-> TRUE]]
  /\ opened = [s \in Subs |-> None]
  /\ members = [n \in Nodes |-> None]
  /\ offers = [s \in Subs |-> 0]
  /\ receipts = [s \in Subs |-> None]
  /\ now = 0

----------------------------------------------------------------------------
(* Publication.  The publish request table answers a retry with the position  *)
(* it already has; a new identity needs the open epoch and a free row.        *)
AppendPublished(e, id) ==
  LET key == [epoch |-> e, id |-> id] IN
  /\ e = stream.epoch
  /\ key \notin DOMAIN stream.ids
  /\ Cardinality(DOMAIN stream.ids) < PublishIdLimit
  /\ HeadSeq < MaxRecords
  /\ stream' = [stream EXCEPT !.log = Append(@, key),
                              !.rows = @ \cup {HeadSeq + 1},
                              !.ids = With(@, key, HeadSeq + 1)]
  /\ UNCHANGED <<serve, opened, members, offers, receipts, now>>

CloseEpoch ==
  /\ stream.epoch < MaxEpoch
  /\ stream' = [stream EXCEPT !.epoch = @ + 1]
  /\ UNCHANGED <<serve, opened, members, offers, receipts, now>>

(* Fault: receipts of the open epoch are dropped too                          *)
RetireAnyIdentities(keys) ==
  /\ keys # {} /\ keys \subseteq DOMAIN stream.ids
  /\ stream' = [stream EXCEPT !.ids = [k \in DOMAIN @ \ keys |-> @[k]]]
  /\ UNCHANGED <<serve, opened, members, offers, receipts, now>>

(* Only receipts of closed epochs are accepted; the batch is all or nothing.  *)
RetireIdentities(keys) ==
  /\ keys # {} /\ keys \subseteq DOMAIN stream.ids
  /\ \A k \in keys : k.epoch < stream.epoch
  /\ stream' = [stream EXCEPT !.ids = [k \in DOMAIN @ \ keys |-> @[k]]]
  /\ UNCHANGED <<serve, opened, members, offers, receipts, now>>

----------------------------------------------------------------------------
(* A cursor below the retained history is known only as its digest anchor.    *)
Verifies(p) == IF p < stream.min THEN p = stream.min - 1 ELSE p \in stream.rows

(* Where history starts: at the beginning, at the head, or after a position.  *)
All == [from |-> "all", pos |-> 0]
FromNow == [from |-> "now", pos |-> 0]
After(p) == [from |-> "after", pos |-> p]

(* "all" is refused once history was trimmed; a position must still verify.   *)
OpenAllowed(s, h) ==
  /\ serve[Subscriber[s]].on
  /\ opened[s] = None
  /\ h = All => stream.min = 1
  /\ h.from = "after" => Verifies(h.pos)

Open(s, h) ==
  /\ OpenAllowed(s, h)
  /\ opened' = [opened EXCEPT ![s] =
                  [auth |-> serve[Subscriber[s]].rev, ack |-> 0, closed |-> FALSE,
                   start |-> IF h = FromNow THEN HeadSeq ELSE h.pos]]
  /\ UNCHANGED <<stream, serve, members, offers, receipts, now>>

(* The authority a subscription was opened under is still the current one.    *)
ServeAuthority(s) ==
  /\ opened[s] # None
  /\ serve[Subscriber[s]].on
  /\ opened[s].auth = serve[Subscriber[s]].rev

Serving(s) == ServeAuthority(s) /\ ~opened[s].closed

CloseSubscription(s) ==
  /\ Serving(s)
  /\ opened' = [opened EXCEPT ![s].closed = TRUE]
  /\ UNCHANGED <<stream, serve, members, offers, receipts, now>>

SetServeAuthority(n, on) ==
  /\ serve[n].rev < MaxAuthority
  /\ serve' = [serve EXCEPT ![n] = [rev |-> @.rev + 1, on |-> on]]
  /\ UNCHANGED <<stream, opened, members, offers, receipts, now>>

(* What a read after p returns: nothing readable, a trimmed gap, or a page.   *)
ReadFirst(s, p) == (IF p = 0 THEN opened[s].start ELSE p) + 1
ReadAllowed(s, p) ==
  /\ Serving(s)
  /\ p # 0 => p >= opened[s].start
  /\ ReadFirst(s, p) - 1 >= stream.min => ReadFirst(s, p) - 1 \in stream.rows
ReadGap(s, p) == ReadAllowed(s, p) /\ ReadFirst(s, p) < stream.min
ReadPage(s, p, size) ==
  LET first == ReadFirst(s, p) IN
  {q \in stream.rows : first <= q /\ q < first + size}

----------------------------------------------------------------------------
(* Acknowledgement.  While a snapshot is offered, an event receipt at or past *)
(* the offer is refused until an archive receipt covers it.                   *)
Covered(s) == IF receipts[s] = None THEN 0 ELSE receipts[s].through

AckAllowed(s, p) ==
  /\ Serving(s)
  /\ p > opened[s].start
  /\ offers[s] # 0 /\ p >= offers[s] => Covered(s) >= offers[s]
  /\ Verifies(p)

Acknowledge(s, p) ==
  /\ AckAllowed(s, p)
  /\ opened' = [opened EXCEPT ![s].ack = IF @ >= p THEN @ ELSE p]
  /\ UNCHANGED <<stream, serve, members, offers, receipts, now>>

----------------------------------------------------------------------------
(* Snapshots.  An offer is made for a full-history subscription only.         *)
PublishOffer(s, p) ==
  /\ Serving(s)
  /\ opened[s].start = 0
  /\ offers[s] = 0
  /\ p >= opened[s].ack
  /\ p \in 1..HeadSeq /\ Verifies(p)
  /\ offers' = [offers EXCEPT ![s] = p]
  /\ UNCHANGED <<stream, serve, opened, members, receipts, now>>

RetireOffer(s) ==
  /\ offers[s] # 0
  /\ offers' = [offers EXCEPT ![s] = 0]
  /\ UNCHANGED <<stream, serve, opened, members, receipts, now>>

(* The offer a subscriber may see and download.                               *)
CurrentOffer(s) == IF Serving(s) /\ opened[s].start = 0 THEN offers[s] ELSE 0

(* A receipt names the archive and, once events follow it, how far they are   *)
(* durable (through = pos: no suffix).  A suffix extends only over records    *)
(* that are still held.                                                       *)
SameArchive(s, r) == /\ receipts[s] # None
                     /\ receipts[s].pos = r.pos /\ receipts[s].gen = r.gen
SuffixAllowed(s, r) ==
  r.through > r.pos => /\ r.through >= Covered(s)
                       /\ Covered(s) + 1 .. r.through \subseteq stream.rows
FirstReceiptAllowed(s, r) ==
  /\ receipts[s] # None => r.pos > Covered(s) /\ r.gen > receipts[s].gen
  /\ r.through = r.pos
  /\ offers[s] = r.pos
  /\ r.pos \in 1..HeadSeq /\ Verifies(r.pos)
ReceiptAllowed(s, r) ==
  /\ Serving(s) /\ opened[s].start = 0
  /\ IF SameArchive(s, r) THEN SuffixAllowed(s, r) ELSE FirstReceiptAllowed(s, r)

ReceiveSnapshot(s, r) ==
  /\ ReceiptAllowed(s, r)
  /\ receipts' = [receipts EXCEPT ![s] =
                    IF SameArchive(s, r) /\ r.through = r.pos THEN @ ELSE r]
  /\ UNCHANGED <<stream, serve, opened, members, offers, now>>

----------------------------------------------------------------------------
(* Replica members and the history kept for them.                             *)
Later(p, q) == IF p >= q THEN p ELSE q
Confirmed(s) == Later(opened[s].start, Later(opened[s].ack, Covered(s)))
ActiveMembers == {n \in Nodes : members[n] # None /\ ~members[n].retired}

(* A member row is new, or a retired one that moves to another subscription.  *)
JoinReplica(s, until) ==
  LET n == Subscriber[s] IN
  /\ until # 0 => until > now
  /\ members[n] # None => members[n].retired /\ members[n].sub # s
  /\ Serving(s)
  /\ Confirmed(s) >= stream.min - 1
  /\ members' = [members EXCEPT ![n] = [sub |-> s, until |-> until, retired |-> FALSE]]
  /\ UNCHANGED <<stream, serve, opened, offers, receipts, now>>

(* A permanent term stays permanent; a lease is extended before it runs out.  *)
ExtendReplica(n, until) ==
  /\ n \in ActiveMembers
  /\ until # 0 => until > now
  /\ members[n].until = 0 => until = 0
  /\ members[n].until # 0 => /\ now < members[n].until
                             /\ until = 0 \/ until > members[n].until
  /\ members' = [members EXCEPT ![n].until = until]
  /\ UNCHANGED <<stream, serve, opened, offers, receipts, now>>

RetireReplica(n) ==
  /\ n \in ActiveMembers
  /\ members' = [members EXCEPT ![n].retired = TRUE]
  /\ UNCHANGED <<stream, serve, opened, offers, receipts, now>>

Tick == /\ now < MaxNow
        /\ now' = now + 1
        /\ UNCHANGED <<stream, serve, opened, members, offers, receipts>>

(* Trimming goes no further than what every active member confirmed, nor past *)
(* the lowest offered snapshot.                                               *)
TrimAllowed(active, last) ==
  /\ stream.min <= last /\ last <= HeadSeq
  /\ \A n \in active : last <= Confirmed(members[n].sub)
  /\ \A s \in Subs : offers[s] # 0 => last <= offers[s]

Trimmed(last) == [stream EXCEPT !.rows = {q \in @ : q > last}, !.min = last + 1]

(* The operator names the position; leases are not looked at.                 *)
RetireHistory(last) ==
  /\ TrimAllowed(ActiveMembers, last)
  /\ stream' = Trimmed(last)
  /\ UNCHANGED <<serve, opened, members, offers, receipts, now>>

(* Maintenance: expired leases end in the transaction that trims.  How far a  *)
(* batch goes depends on record counts and bytes.                             *)
Expired == {n \in ActiveMembers : members[n].until # 0 /\ now >= members[n].until}
RetireSafeHistory ==
  LET active == ActiveMembers \ Expired IN
  /\ members' = [n \in Nodes |-> IF n \in Expired
                                 THEN [members[n] EXCEPT !.retired = TRUE] ELSE members[n]]
  /\ \/ /\ ~TrimAllowed(active, stream.min)
        /\ UNCHANGED stream
     \/ \E last \in 1..HeadSeq : TrimAllowed(active, last) /\ stream' = Trimmed(last)
  /\ UNCHANGED <<serve, opened, offers, receipts, now>>
==============================================================================
