-------------------------- MODULE ReplicationProofs --------------------------
(* For any number of records, subscriptions, nodes, losses and late calls:    *)
(* what the publisher counts as confirmed is durable at the receiver, neither *)
(* store can meet a Corrupt branch, nothing unprojected leaves an inbox, and  *)
(* the two stores together implement the replicated log.                      *)
(* The stores' rows of one subscription are reasoned about as plain values    *)
(* first; what a session or a late call goes by is then shown to stay behind  *)
(* what the stores hold.                                                      *)
EXTENDS Replication, TLAPS

----------------------------------------------------------------------------
(* The receiver's row r and ledger l of one subscription.                     *)
BaseOf(r, l) ==
  IF l.active # 0 THEN l.active ELSE IF l.archived # 0 THEN l.archived ELSE r.start
CursorOf(r, l) == IF r.received # 0 THEN r.received ELSE BaseOf(r, l)
FirstOf(r, l) == (IF r.retired # 0 THEN r.retired ELSE BaseOf(r, l)) + 1

(* The three positions of a row are in order above the baseline; generations  *)
(* start with the first baseline, which only a full history has; a pending    *)
(* installation is ahead of what it was admitted against.                     *)
RowOk(r, l) ==
  /\ r.received # 0 => BaseOf(r, l) < r.received
  /\ r.projected # 0 => BaseOf(r, l) < r.projected /\ r.projected <= r.received
  /\ r.retired # 0 => BaseOf(r, l) < r.retired /\ r.retired <= r.projected
  /\ l.gen = 0 <=> l.active = 0 /\ l.archived = 0
  /\ l.active # 0 /\ l.archived # 0 => l.active = l.archived
  /\ l.active # 0 \/ l.archived # 0 => r.start = 0
  /\ l.pending # None =>
       /\ l.archived = 0 /\ r.start = 0
       /\ l.pending.received <= l.pending.offer.pos /\ l.active < l.pending.offer.pos

(* Above the baseline the inbox b holds what was received and not retired, of *)
(* the current generation; what is left below it is of older ones.            *)
InboxOk(r, l, b) ==
  /\ \A q \in Nat : q \in DOMAIN b /\ BaseOf(r, l) < q
                      <=> FirstOf(r, l) <= q /\ q <= CursorOf(r, l)
  /\ \A q \in DOMAIN b : b[q] <= l.gen /\ (b[q] = l.gen <=> BaseOf(r, l) < q)

(* With the publisher's row o, receipt c and offer f, and the stream's head h. *)
DurableOf(o, r, l) ==
  IF r # None THEN CursorOf(r, l) ELSE IF o # None THEN o.start ELSE 0
Typed(o, c, f, r, l, b, h) ==
  /\ o \in PublisherRow \cup {None} /\ c \in StoredReceived \cup {None} /\ f \in Nat
  /\ r \in ReceiverRow \cup {None} /\ l \in StoredLedger /\ b \in Inbox /\ h \in Nat
Good(o, c, f, r, l, b, h) ==
  /\ o = None => r = None /\ c = None
  /\ o # None => /\ o.start <= DurableOf(o, r, l) /\ o.ack <= DurableOf(o, r, l)
                 /\ c # None => c.through <= DurableOf(o, r, l)
  /\ DurableOf(o, r, l) <= h /\ f <= h
  /\ l.pending # None => l.pending.offer.pos <= h
  /\ IF r = None THEN l = NoLedger /\ DOMAIN b = {}
     ELSE r.start = o.start /\ RowOk(r, l) /\ InboxOk(r, l, b)

(* Positions are numbers.                                                     *)
LEMMA Positions ==
  ASSUME NEW r \in ReceiverRow, NEW l \in StoredLedger
  PROVE  BaseOf(r, l) \in Nat /\ CursorOf(r, l) \in Nat /\ FirstOf(r, l) \in Nat
BY DEF ReceiverRow, StoredLedger, BaseOf, CursorOf, FirstOf

(* What is durable is a position, or 0.                                       *)
LEMMA DurableIsNat ==
  ASSUME NEW o \in PublisherRow \cup {None}, NEW r \in ReceiverRow \cup {None},
         NEW l \in StoredLedger
  PROVE  DurableOf(o, r, l) \in Nat
BY Positions, Zenon DEF DurableOf, PublisherRow

(* An inbox maps positions to generations.                                    *)
LEMMA InboxShape ==
  ASSUME NEW b \in Inbox
  PROVE  DOMAIN b \subseteq Nat /\ \A q \in DOMAIN b : b[q] \in Nat
<1>1. PICK qs \in SUBSET Nat : b \in [qs -> Nat]
  BY Zenon DEF Inbox
<1>2. QED BY <1>1, Zenon

(* A function from numbers to numbers is an inbox.                            *)
LEMMA InboxFrom ==
  ASSUME NEW D, D \subseteq Nat, NEW b \in [D -> Nat]
  PROVE  b \in Inbox
BY Zenon DEF Inbox

(* A record was received: the next after the cursor.                          *)
LEMMA AcceptGood ==
  ASSUME NEW r \in ReceiverRow, NEW l \in StoredLedger, NEW b \in Inbox,
         RowOk(r, l), InboxOk(r, l, b)
  PROVE  LET q == CursorOf(r, l) + 1
             r2 == [r EXCEPT !.received = q]
         IN /\ r2 \in ReceiverRow /\ With(b, q, l.gen) \in Inbox
            /\ RowOk(r2, l) /\ InboxOk(r2, l, With(b, q, l.gen)) /\ CursorOf(r2, l) = q
<1> DEFINE q == CursorOf(r, l) + 1
           r2 == [r EXCEPT !.received = q]
           b2 == With(b, q, l.gen)
<1>1. BaseOf(r, l) \in Nat /\ CursorOf(r, l) \in Nat /\ FirstOf(r, l) \in Nat /\ q \in Nat
  BY Positions
<1>2. r2 \in ReceiverRow
  BY <1>1, Zenon DEF ReceiverRow
<1>3. /\ r2.received = q /\ r2.projected = r.projected /\ r2.retired = r.retired
      /\ r2.start = r.start
  BY Zenon DEF ReceiverRow
<1> HIDE DEF q, r2
<1>4. BaseOf(r2, l) = BaseOf(r, l) /\ FirstOf(r2, l) = FirstOf(r, l)
  BY <1>3, Zenon DEF BaseOf, FirstOf
<1>5. BaseOf(r, l) < q /\ CursorOf(r2, l) = q
  BY <1>1, <1>3 DEF q, CursorOf, RowOk, ReceiverRow
<1>6. RowOk(r2, l)
  BY <1>1, <1>3, <1>4, <1>5 DEF RowOk, q, CursorOf, ReceiverRow, StoredLedger
<1>7. l.gen \in Nat /\ DOMAIN b \subseteq Nat /\ \A x \in DOMAIN b : b[x] \in Nat
  BY InboxShape, Zenon DEF StoredLedger
<1>8. DOMAIN b2 = DOMAIN b \cup {q} /\ \A x \in DOMAIN b2 : b2[x] = IF x = q THEN l.gen ELSE b[x]
  BY Zenon DEF With
<1>9. b2 \in Inbox
  <2>1. b2 \in [DOMAIN b \cup {q} -> Nat] /\ DOMAIN b \cup {q} \subseteq Nat
    BY <1>1, <1>7, Zenon DEF With
  <2>2. QED BY <2>1, InboxFrom, Zenon
<1> HIDE DEF b2
<1>10. q \notin DOMAIN b
  BY <1>1, <1>5 DEF InboxOk, q
<1>11. FirstOf(r, l) <= q
  BY <1>1 DEF FirstOf, q, CursorOf, RowOk, ReceiverRow
<1>12. InboxOk(r2, l, b2)
  <2>1. ASSUME NEW x \in Nat
        PROVE  x \in DOMAIN b2 /\ BaseOf(r, l) < x <=> FirstOf(r, l) <= x /\ x <= q
    BY <1>1, <1>5, <1>8, <1>11 DEF InboxOk, q
  <2>2. ASSUME NEW x \in DOMAIN b2
        PROVE  b2[x] <= l.gen /\ (b2[x] = l.gen <=> BaseOf(r, l) < x)
    BY <1>1, <1>5, <1>7, <1>8 DEF InboxOk
  <2>3. QED BY <1>4, <1>5, <2>1, <2>2, Zenon DEF InboxOk
<1>13. QED BY <1>2, <1>5, <1>6, <1>9, <1>12, Zenon DEF q, r2, b2

(* The application projected the next record it holds.                        *)
LEMMA ProjectGood ==
  ASSUME NEW r \in ReceiverRow, NEW l \in StoredLedger, NEW b, NEW p \in Nat,
         RowOk(r, l), InboxOk(r, l, b), p <= r.received, r.retired < p,
         p = (IF r.projected # 0 THEN r.projected ELSE BaseOf(r, l)) + 1
  PROVE  LET r2 == [r EXCEPT !.projected = p]
         IN r2 \in ReceiverRow /\ RowOk(r2, l) /\ InboxOk(r2, l, b) /\ CursorOf(r2, l) = CursorOf(r, l)
<1> DEFINE r2 == [r EXCEPT !.projected = p]
<1>1. BaseOf(r, l) \in Nat
  BY Positions, Zenon
<1>2. r2 \in ReceiverRow
  BY Zenon DEF ReceiverRow
<1>3. /\ r2.received = r.received /\ r2.projected = p /\ r2.retired = r.retired
      /\ r2.start = r.start
  BY Zenon DEF ReceiverRow
<1> HIDE DEF r2
<1>4. /\ BaseOf(r2, l) = BaseOf(r, l) /\ FirstOf(r2, l) = FirstOf(r, l)
      /\ CursorOf(r2, l) = CursorOf(r, l)
  BY <1>3, Zenon DEF BaseOf, FirstOf, CursorOf
<1>5. RowOk(r2, l)
  BY <1>1, <1>3, <1>4 DEF RowOk, ReceiverRow
<1>6. InboxOk(r2, l, b)
  BY <1>4, Zenon DEF InboxOk
<1>7. QED BY <1>2, <1>4, <1>5, <1>6, Zenon DEF r2

(* The application dropped what it projected, up to `last`.                   *)
LEMMA RetireGood ==
  ASSUME NEW r \in ReceiverRow, NEW l \in StoredLedger, NEW b \in Inbox, NEW last \in Nat,
         RowOk(r, l), InboxOk(r, l, b), FirstOf(r, l) <= last, last <= r.projected
  PROVE  LET r2 == [r EXCEPT !.retired = last]
             b2 == [q \in DOMAIN b \ (FirstOf(r, l) .. last) |-> b[q]]
         IN /\ r2 \in ReceiverRow /\ b2 \in Inbox /\ CursorOf(r2, l) = CursorOf(r, l)
            /\ RowOk(r2, l) /\ InboxOk(r2, l, b2)
<1> DEFINE r2 == [r EXCEPT !.retired = last]
           D == DOMAIN b \ (FirstOf(r, l) .. last)
           b2 == [q \in D |-> b[q]]
<1>1. BaseOf(r, l) \in Nat /\ CursorOf(r, l) \in Nat /\ FirstOf(r, l) \in Nat
  BY Positions, Zenon
<1>2. r2 \in ReceiverRow
  BY Zenon DEF ReceiverRow
<1>3. /\ r2.received = r.received /\ r2.projected = r.projected /\ r2.retired = last
      /\ r2.start = r.start
  BY Zenon DEF ReceiverRow
<1> HIDE DEF r2
<1>4. BaseOf(r2, l) = BaseOf(r, l) /\ CursorOf(r2, l) = CursorOf(r, l)
  BY <1>3, Zenon DEF BaseOf, CursorOf
<1>5. BaseOf(r, l) < FirstOf(r, l)
  BY <1>1 DEF FirstOf, RowOk, ReceiverRow
<1>6. FirstOf(r2, l) = last + 1 /\ BaseOf(r, l) < last
  BY <1>1, <1>3, <1>5 DEF FirstOf
<1>7. RowOk(r2, l)
  BY <1>1, <1>3, <1>4, <1>6, Zenon DEF RowOk, ReceiverRow
<1>8. DOMAIN b \subseteq Nat /\ \A q \in DOMAIN b : b[q] \in Nat
  BY InboxShape, Zenon
<1>9. D \subseteq Nat /\ b2 \in [D -> Nat]
  BY <1>8, Zenon
<1>10. b2 \in Inbox
  BY <1>9, InboxFrom, Zenon
<1>11. DOMAIN b2 = D /\ \A q \in D : b2[q] = b[q]
  BY Zenon
<1>12. \A x \in Nat : x \in D <=> x \in DOMAIN b /\ ~(FirstOf(r, l) <= x /\ x <= last)
  BY <1>1
<1> HIDE DEF b2, D
<1>13. ASSUME NEW x \in Nat
       PROVE  x \in DOMAIN b2 /\ BaseOf(r, l) < x <=> last + 1 <= x /\ x <= CursorOf(r, l)
  BY <1>1, <1>5, <1>11, <1>12 DEF InboxOk
<1>14. ASSUME NEW x \in DOMAIN b2
       PROVE  b2[x] <= l.gen /\ (b2[x] = l.gen <=> BaseOf(r, l) < x)
  <2>1. x \in DOMAIN b /\ b2[x] = b[x]
    BY <1>11, Zenon DEF D
  <2>2. QED BY <2>1, Zenon DEF InboxOk
<1>15. InboxOk(r2, l, b2)
  BY <1>4, <1>6, <1>13, <1>14, Zenon DEF InboxOk
<1>16. QED BY <1>2, <1>4, <1>7, <1>10, <1>15, Zenon DEF r2, b2, D

(* Rows at or below the baseline were dropped.                                *)
LEMMA RetireOldGood ==
  ASSUME NEW r \in ReceiverRow, NEW l \in StoredLedger, NEW b \in Inbox, NEW last \in Nat,
         InboxOk(r, l, b), last <= BaseOf(r, l)
  PROVE  LET b2 == [q \in {x \in DOMAIN b : x > last} |-> b[q]]
         IN b2 \in Inbox /\ InboxOk(r, l, b2)
<1> DEFINE D == {x \in DOMAIN b : x > last}
           b2 == [q \in D |-> b[q]]
<1>1. BaseOf(r, l) \in Nat
  BY Positions, Zenon
<1>2. DOMAIN b \subseteq Nat /\ \A q \in DOMAIN b : b[q] \in Nat
  BY InboxShape, Zenon
<1>3. D \subseteq Nat /\ b2 \in [D -> Nat]
  BY <1>2, Zenon
<1>4. b2 \in Inbox
  BY <1>3, InboxFrom, Zenon
<1>5. DOMAIN b2 = D /\ \A q \in D : b2[q] = b[q]
  BY Zenon
<1>6. \A x \in Nat : x \in D <=> x \in DOMAIN b /\ last < x
  BY Zenon
<1> HIDE DEF b2
<1>7. ASSUME NEW x \in Nat
      PROVE  x \in DOMAIN b2 /\ BaseOf(r, l) < x <=> x \in DOMAIN b /\ BaseOf(r, l) < x
  BY <1>1, <1>5, <1>6
<1>8. ASSUME NEW x \in DOMAIN b2
      PROVE  x \in DOMAIN b /\ b2[x] = b[x]
  BY <1>5, Zenon
<1>9. InboxOk(r, l, b2)
  BY <1>7, <1>8, Zenon DEF InboxOk
<1>10. QED BY <1>4, <1>9, Zenon DEF b2, D

(* A ledger with the same baseline and generation, and a sound installation   *)
(* if one is pending.                                                         *)
LEMMA LedgerGood ==
  ASSUME NEW r \in ReceiverRow, NEW l \in StoredLedger, NEW b, NEW l2 \in StoredLedger,
         RowOk(r, l), InboxOk(r, l, b),
         l2.gen = l.gen, l2.active = l.active, l2.archived = l.archived,
         l2.pending # None =>
           /\ l.archived = 0 /\ r.start = 0
           /\ l2.pending.received <= l2.pending.offer.pos /\ l.active < l2.pending.offer.pos
  PROVE  RowOk(r, l2) /\ InboxOk(r, l2, b) /\ CursorOf(r, l2) = CursorOf(r, l)
<1>1. /\ BaseOf(r, l2) = BaseOf(r, l) /\ FirstOf(r, l2) = FirstOf(r, l)
      /\ CursorOf(r, l2) = CursorOf(r, l)
  BY Zenon DEF BaseOf, FirstOf, CursorOf
<1>2. RowOk(r, l2)
  BY <1>1, Zenon DEF RowOk
<1>3. InboxOk(r, l2, b)
  BY <1>1, Zenon DEF InboxOk
<1>4. QED BY <1>1, <1>2, <1>3, Zenon

(* The archived state was projected.                                          *)
LEMMA BindGood ==
  ASSUME NEW r \in ReceiverRow, NEW l \in StoredLedger, NEW b,
         RowOk(r, l), InboxOk(r, l, b), l.archived # 0, l.active = 0, l.pending = None
  PROVE  LET l2 == [l EXCEPT !.active = l.archived]
         IN /\ l2 \in StoredLedger /\ RowOk(r, l2) /\ InboxOk(r, l2, b)
            /\ CursorOf(r, l2) = CursorOf(r, l) /\ l2.pending = None
<1> DEFINE l2 == [l EXCEPT !.active = l.archived]
<1>1. l2 \in StoredLedger
  BY Zenon DEF StoredLedger
<1>2. /\ l2.gen = l.gen /\ l2.active = l.archived /\ l2.archived = l.archived
      /\ l2.pending = None
  BY Zenon DEF StoredLedger
<1> HIDE DEF l2
<1>3. /\ BaseOf(r, l2) = BaseOf(r, l) /\ FirstOf(r, l2) = FirstOf(r, l)
      /\ CursorOf(r, l2) = CursorOf(r, l)
  BY <1>2, Zenon DEF BaseOf, FirstOf, CursorOf
<1>4. RowOk(r, l2)
  BY <1>2, <1>3, Zenon DEF RowOk
<1>5. InboxOk(r, l2, b)
  BY <1>2, <1>3, Zenon DEF InboxOk
<1>6. QED BY <1>1, <1>2, <1>3, <1>4, <1>5, Zenon DEF l2

(* A snapshot became the baseline: as a projected anchor, or as an archive.   *)
LEMMA CommitGood ==
  ASSUME NEW r \in ReceiverRow, NEW l \in StoredLedger, NEW b \in Inbox,
         RowOk(r, l), InboxOk(r, l, b), l.pending # None, l.pending.received = r.received,
         NEW r2 \in ReceiverRow, NEW l2 \in StoredLedger,
         r2.received = 0, r2.projected = 0, r2.retired = 0, r2.start = r.start,
         l2.gen = l.gen + 1, l2.pending = None,
         \/ l2.active = l.pending.offer.pos /\ l2.archived = 0
         \/ l2.active = 0 /\ l2.archived = l.pending.offer.pos
  PROVE  /\ RowOk(r2, l2) /\ InboxOk(r2, l2, b)
         /\ CursorOf(r2, l2) = l.pending.offer.pos /\ CursorOf(r, l) <= CursorOf(r2, l2)
<1> DEFINE pos == l.pending.offer.pos
<1>1. BaseOf(r, l) \in Nat /\ CursorOf(r, l) \in Nat /\ FirstOf(r, l) \in Nat /\ l.gen \in Nat
  BY Positions, Zenon DEF StoredLedger
<1>4. pos \in Nat
  <2>1. l.pending \in StoredPending
    BY Zenon DEF StoredLedger
  <2>2. l.pending.offer \in Manifest
    BY <2>1, Zenon DEF StoredPending
  <2>3. QED BY <2>2, Zenon DEF Manifest
<1>5. l.archived = 0 /\ r.start = 0 /\ r.received <= pos /\ l.active < pos /\ l.active \in Nat
  BY Zenon DEF RowOk, StoredLedger
<1> HIDE DEF pos
<1>6. pos # 0
  BY <1>4, <1>5
<1>7. BaseOf(r2, l2) = pos /\ FirstOf(r2, l2) = pos + 1 /\ CursorOf(r2, l2) = pos
  BY <1>6, Zenon DEF BaseOf, FirstOf, CursorOf, pos
<1>8. CursorOf(r, l) <= pos
  BY <1>4, <1>5, <1>6 DEF CursorOf, BaseOf
<1>9. RowOk(r2, l2)
  BY <1>1, <1>5, <1>6 DEF RowOk, pos
<1>10. \A q \in DOMAIN b : q \in Nat /\ b[q] \in Nat
  BY InboxShape, Zenon
<1>11. ASSUME NEW q \in DOMAIN b
       PROVE  q <= pos /\ b[q] <= l.gen + 1 /\ b[q] # l.gen + 1
  <2>1. b[q] <= l.gen /\ q \in Nat /\ b[q] \in Nat
    BY <1>10, Zenon DEF InboxOk
  <2>2. BaseOf(r, l) <= CursorOf(r, l)
    BY <1>1 DEF CursorOf, RowOk, ReceiverRow
  <2>3. q <= CursorOf(r, l)
    BY <1>1, <2>1, <2>2 DEF InboxOk
  <2>4. QED BY <1>1, <1>4, <1>8, <2>1, <2>3
<1>12. InboxOk(r2, l2, b)
  BY <1>4, <1>7, <1>10, <1>11 DEF InboxOk
<1>13. QED BY <1>7, <1>8, <1>9, <1>12, Zenon DEF pos

----------------------------------------------------------------------------
(* The rows of both stores.  More records leave them as good as they were.    *)
LEMMA HeadGood ==
  ASSUME NEW o, NEW c, NEW f, NEW r, NEW l, NEW b, NEW h, Typed(o, c, f, r, l, b, h),
         Good(o, c, f, r, l, b, h), NEW h2 \in Nat, h <= h2
  PROVE  Good(o, c, f, r, l, b, h2)
<1>1. DurableOf(o, r, l) \in Nat /\ f \in Nat /\ h \in Nat
  BY DurableIsNat, Zenon DEF Typed
<1>2. DurableOf(o, r, l) <= h2 /\ f <= h2
  BY <1>1 DEF Good
<1>3. ASSUME l.pending # None PROVE l.pending.offer.pos <= h2
  <2>1. l.pending \in StoredPending
    BY <1>3, Zenon DEF Typed, StoredLedger
  <2>2. l.pending.offer \in Manifest
    BY <2>1, Zenon DEF StoredPending
  <2>3. l.pending.offer.pos \in Nat /\ l.pending.offer.pos <= h
    BY <1>3, <2>2, Zenon DEF Manifest, Good
  <2>4. QED BY <1>1, <2>3
<1>4. QED BY <1>2, <1>3, Zenon DEF Good

(* A subscription was opened.                                                 *)
LEMMA OpenGood ==
  ASSUME NEW c, NEW f, NEW r, NEW l, NEW b, NEW h, Typed(None, c, f, r, l, b, h),
         Good(None, c, f, r, l, b, h), NEW o \in PublisherRow, o.ack = 0, o.start <= h
  PROVE  Good(o, c, f, r, l, b, h) /\ DurableOf(None, r, l) <= DurableOf(o, r, l)
<1>1. r = None /\ c = None /\ o # None
  BY PublisherAssumption, Zenon DEF Good
<1>2. DurableOf(o, r, l) = o.start /\ DurableOf(None, r, l) = 0 /\ o.start \in Nat
  BY <1>1, Zenon DEF DurableOf, PublisherRow
<1>3. 0 <= o.start /\ o.start <= o.start
  BY <1>2
<1>4. QED BY <1>1, <1>2, <1>3, Zenon DEF Good

(* The publisher's rows of a subscription changed.                            *)
LEMMA PublisherGood ==
  ASSUME NEW o \in PublisherRow, NEW c, NEW f, NEW r, NEW l, NEW b, NEW h,
         Good(o, c, f, r, l, b, h), NEW o2 \in PublisherRow, NEW c2, NEW f2,
         o2.start = o.start, o2.ack <= DurableOf(o, r, l),
         c2 # None => c2.through <= DurableOf(o, r, l), f2 <= h
  PROVE  Good(o2, c2, f2, r, l, b, h) /\ DurableOf(o2, r, l) = DurableOf(o, r, l)
<1>1. o # None /\ o2 # None
  BY PublisherAssumption, Zenon
<1>2. DurableOf(o2, r, l) = DurableOf(o, r, l)
  BY <1>1, Zenon DEF DurableOf
<1>3. QED BY <1>1, <1>2, Zenon DEF Good

(* An offer was made or withdrawn.                                            *)
LEMMA OfferGood ==
  ASSUME NEW o, NEW c, NEW f, NEW r, NEW l, NEW b, NEW h,
         Good(o, c, f, r, l, b, h), NEW f2, f2 <= h
  PROVE  Good(o, c, f2, r, l, b, h)
BY Zenon DEF Good

(* A subscription was installed.                                              *)
LEMMA InstallGood ==
  ASSUME NEW o, NEW c, NEW f, NEW r, NEW l, NEW b, NEW h,
         Typed(o, c, f, r, l, b, h), Good(o, c, f, r, l, b, h), o # None, r = None,
         NEW r2 \in ReceiverRow, r2.start = o.start,
         r2.received = 0, r2.projected = 0, r2.retired = 0
  PROVE  Good(o, c, f, r2, l, b, h) /\ DurableOf(o, r2, l) = DurableOf(o, r, l)
<1>0. l = NoLedger /\ DOMAIN b = {}
  BY Zenon DEF Good
<1>1. l.gen = 0 /\ l.active = 0 /\ l.archived = 0 /\ l.pending = None /\ DOMAIN b = {}
  BY <1>0, Zenon DEF NoLedger
<1>2. r2 # None /\ r2.start \in Nat
  BY ReceiverAssumption, Zenon DEF ReceiverRow
<1>3. BaseOf(r2, l) = r2.start /\ CursorOf(r2, l) = r2.start /\ FirstOf(r2, l) = r2.start + 1
  BY <1>1, Zenon DEF BaseOf, CursorOf, FirstOf
<1>4. DurableOf(o, r2, l) = DurableOf(o, r, l)
  BY <1>2, <1>3, Zenon DEF DurableOf
<1>5. RowOk(r2, l)
  BY <1>1, Zenon DEF RowOk
<1>6. InboxOk(r2, l, b)
  BY <1>1, <1>2, <1>3 DEF InboxOk
<1>7. QED BY <1>2, <1>4, <1>5, <1>6, Zenon DEF Good

(* The receiver's rows of a subscription changed.                             *)
LEMMA ReceiverGood ==
  ASSUME NEW o, NEW c, NEW f, NEW r \in ReceiverRow, NEW l, NEW b, NEW h,
         Typed(o, c, f, r, l, b, h), Good(o, c, f, r, l, b, h),
         NEW r2 \in ReceiverRow, NEW l2 \in StoredLedger, NEW b2,
         RowOk(r2, l2), InboxOk(r2, l2, b2), r2.start = r.start,
         CursorOf(r, l) <= CursorOf(r2, l2), CursorOf(r2, l2) <= h,
         l2.pending # None => l2.pending.offer.pos <= h
  PROVE  Good(o, c, f, r2, l2, b2, h) /\ DurableOf(o, r, l) <= DurableOf(o, r2, l2)
<1>1. r # None /\ r2 # None
  BY ReceiverAssumption, Zenon
<1>2. DurableOf(o, r, l) = CursorOf(r, l) /\ DurableOf(o, r2, l2) = CursorOf(r2, l2)
  BY <1>1, Zenon DEF DurableOf
<1>3. o \in PublisherRow /\ o # None /\ c \in StoredReceived \cup {None} /\ l \in StoredLedger
  BY <1>1, Zenon DEF Good, Typed
<1>4. /\ CursorOf(r, l) \in Nat /\ CursorOf(r2, l2) \in Nat
      /\ o.start \in Nat /\ o.ack \in Nat /\ (c # None => c.through \in Nat)
  BY <1>3, Positions, Zenon DEF PublisherRow, StoredReceived
<1>5. o.start <= CursorOf(r, l) /\ o.ack <= CursorOf(r, l) /\ (c # None => c.through <= CursorOf(r, l))
  BY <1>2, <1>3, Zenon DEF Good
<1>6. o.start <= CursorOf(r2, l2) /\ o.ack <= CursorOf(r2, l2)
  BY <1>4, <1>5
<1>7. ASSUME c # None PROVE c.through <= CursorOf(r2, l2)
  BY <1>4, <1>5, <1>7
<1>8. QED BY <1>1, <1>2, <1>3, <1>6, <1>7, Zenon DEF Good

----------------------------------------------------------------------------
(* What holds of the stores in every state.                                   *)
Held(s) == DurableOf(opened[s], row[s], ledger[s])

StoreTypes ==
  /\ stream \in StreamRow
  /\ serve \in [Nodes -> AuthorityRow]
  /\ opened \in [Subs -> PublisherRow \cup {None}]
  /\ members \in [Nodes -> MemberRow \cup {None}]
  /\ offers \in [Subs -> Nat]
  /\ receipts \in [Subs -> StoredReceived \cup {None}]
  /\ now \in Nat
  /\ receive \in [Nodes -> AuthorityRow]
  /\ row \in [Subs -> ReceiverRow \cup {None}]
  /\ inbox \in [Subs -> Inbox]
  /\ ledger \in [Subs -> StoredLedger]

(* The publisher holds exactly the records after its anchor, and the request  *)
(* rows of the open epoch.                                                    *)
StreamOk ==
  /\ stream.min <= HeadSeq + 1
  /\ \A q \in Nat : q \in stream.rows <=> stream.min <= q /\ q <= HeadSeq
  /\ \A n \in DOMAIN stream.log :
       /\ stream.log[n].epoch <= stream.epoch
       /\ stream.log[n].epoch = stream.epoch => stream.log[n] \in DOMAIN stream.ids

SubOk(s) ==
  Good(opened[s], receipts[s], offers[s], row[s], ledger[s], inbox[s], HeadSeq)

(* History is kept for what an active member has not durably received.        *)
MemberOk(n) ==
  members[n] # None =>
    /\ opened[members[n].sub] # None
    /\ ~members[n].retired => stream.min <= Held(members[n].sub) + 1

StoreOk ==
  /\ StoreTypes /\ StreamOk
  /\ \A s \in Subs : SubOk(s)
  /\ \A n \in Nodes : MemberOk(n)

(* What any step does to the stores: nothing that was durable is lost, a      *)
(* subscription keeps its start, the step is one of the replicated log, and   *)
(* only what was projected leaves an inbox.                                   *)
Keeps(s) ==
  /\ Held(s) <= Held(s)'
  /\ opened[s] # None => opened'[s] # None /\ opened'[s].start = opened[s].start
Grows == HeadSeq <= HeadSeq' /\ \A s \in Subs : Keeps(s)
LogStep == Log!LogNext \/ UNCHANGED Log!logVars
LeavesOk(s) ==
  \A q \in DOMAIN inbox[s] \ DOMAIN inbox'[s] :
    \/ inbox[s][q] = ledger[s].gen /\ q <= row[s].projected
    \/ inbox[s][q] < ledger[s].gen /\ q <= ledger[s].active
Sound == StoreOk' /\ Grows /\ LogStep /\ \A s \in Subs : LeavesOk(s)

(* The stream as a value.                                                     *)
LEMMA StreamShape ==
  ASSUME StoreTypes
  PROVE  /\ stream.log \in Seq(PublishKeys) /\ HeadSeq \in Nat /\ stream.min \in Nat
         /\ stream.epoch \in 1..MaxEpoch /\ stream.rows \subseteq Nat
         /\ stream.min # 0 /\ DOMAIN stream.log = 1..HeadSeq
<1>1. stream \in StreamRow
  BY Zenon DEF StoreTypes
<1>2. stream.log \in Seq(PublishKeys) /\ stream.min \in Nat \ {0} /\ stream.epoch \in 1..MaxEpoch
      /\ stream.rows \in SUBSET Nat
  BY <1>1, Zenon DEF StreamRow
<1>3. HeadSeq \in Nat /\ DOMAIN stream.log = 1..HeadSeq
  BY <1>2 DEF HeadSeq
<1>4. QED BY <1>2, <1>3, Zenon

(* The rows of a subscription are typed, and what is durable is a number.     *)
LEMMA SubTyped ==
  ASSUME StoreTypes, NEW s \in Subs
  PROVE  /\ Typed(opened[s], receipts[s], offers[s], row[s], ledger[s], inbox[s], HeadSeq)
         /\ Held(s) \in Nat
<1>1. HeadSeq \in Nat
  BY StreamShape, Zenon
<1>2. /\ opened[s] \in PublisherRow \cup {None} /\ receipts[s] \in StoredReceived \cup {None}
      /\ offers[s] \in Nat /\ row[s] \in ReceiverRow \cup {None} /\ ledger[s] \in StoredLedger
      /\ inbox[s] \in Inbox
  BY Zenon DEF StoreTypes
<1>3. QED BY <1>1, <1>2, DurableIsNat, Zenon DEF Typed, Held

(* Durable is Held, now and after a step.                                     *)
LEMMA DurableIs ==
  ASSUME NEW s
  PROVE  Durable(s) = Held(s) /\ Durable(s)' = Held(s)'
<1>1. Durable(s) = Held(s)
  BY Zenon DEF Durable, Held, DurableOf, Cursor, CursorOf, Base, Baseline, BaseOf
<1>2. Durable(s)' = Held(s)'
  BY Zenon DEF Durable, Held, DurableOf, Cursor, CursorOf, Base, Baseline, BaseOf
<1>3. QED BY <1>1, <1>2, Zenon

(* Comparing positions.                                                       *)
LEMMA Leq == ASSUME NEW i \in Nat PROVE i <= i /\ 0 <= i
OBVIOUS

(* A bound goes through to a larger one.                                      *)
LEMMA Through ==
  ASSUME NEW i \in Nat, NEW j \in Nat, NEW k \in Nat, j <= k
  PROVE  (i <= j => i <= k) /\ (i <= j + 1 => i <= k + 1)
OBVIOUS

(* The abstract log under a step that moves at most one cursor.               *)
LEMMA CursorStep ==
  ASSUME StoreOk, NEW s \in Subs, stream' = stream, members' = members,
         Held(s)' \in Nat, Held(s) <= Held(s)', Held(s)' <= HeadSeq,
         \A x \in Subs : x # s => Held(x)' = Held(x)
  PROVE  LogStep
<1> DEFINE cur == [x \in Subs |-> Durable(x)]
<1>1. HeadSeq \in Nat /\ Held(s) \in Nat
  BY StreamShape, SubTyped, Zenon DEF StoreOk
<1>2. \A x \in Subs : Durable(x) = Held(x) /\ Durable(x)' = Held(x)'
  BY DurableIs, Zenon
<1>3. UNCHANGED <<stream.log, stream.min, {members[n].sub : n \in ActiveMembers}>>
  BY Zenon DEF ActiveMembers
<1>4. CASE Held(s)' = Held(s)
  <2>1. cur' = cur
    BY <1>2, <1>4, Zenon
  <2>2. QED BY <1>3, <2>1, Zenon DEF LogStep, Log!logVars
<1>5. CASE Held(s)' # Held(s)
  <2>1. Held(s)' \in cur[s] + 1 .. Len(stream.log)
    BY <1>1, <1>2, <1>5 DEF HeadSeq
  <2>2. cur' = [cur EXCEPT ![s] = Held(s)']
    BY <1>2, Zenon
  <2>3. Log!Advance(s)
    BY <1>3, <2>1, <2>2, Zenon DEF Log!Advance
  <2>4. QED BY <2>3, Zenon DEF LogStep, Log!LogNext
<1>6. QED BY <1>4, <1>5, Zenon

(* A transaction on the rows of one subscription.                             *)
Same(x) ==
  /\ opened'[x] = opened[x] /\ receipts'[x] = receipts[x] /\ offers'[x] = offers[x]
  /\ row'[x] = row[x] /\ ledger'[x] = ledger[x] /\ inbox'[x] = inbox[x]
One(s) ==
  /\ stream' = stream /\ members' = members /\ StoreTypes'
  /\ \A x \in Subs : x # s => Same(x)
  /\ SubOk(s)' /\ Keeps(s) /\ LeavesOk(s)

(* A step on the rows of one subscription that keeps what was durable.        *)
LEMMA OneSub ==
  ASSUME StoreOk, NEW s \in Subs, One(s)
  PROVE  Sound
<1>1. HeadSeq' = HeadSeq /\ HeadSeq \in Nat
  BY StreamShape, Zenon DEF One, HeadSeq, StoreOk
<1>2. ASSUME NEW x \in Subs, x # s
      PROVE  SubOk(x)' /\ Held(x)' = Held(x) /\ Keeps(x) /\ LeavesOk(x)
  <2>1. Same(x) /\ SubOk(x) /\ Held(x) \in Nat
    BY <1>2, SubTyped, Zenon DEF One, StoreOk
  <2>2. SubOk(x)' /\ Held(x)' = Held(x)
    BY <1>1, <2>1, Zenon DEF Same, SubOk, Held
  <2>3. Keeps(x)
    BY <2>1, <2>2, Leq, Zenon DEF Keeps, Same
  <2>4. QED BY <2>1, <2>2, <2>3, Zenon DEF LeavesOk, Same
<1>3. \A x \in Subs : SubOk(x)' /\ Keeps(x) /\ LeavesOk(x)
  BY <1>2, Zenon DEF One
<1>4. StreamOk'
  BY <1>1, Zenon DEF StreamOk, StoreOk, One
<1>5. Grows
  BY <1>1, <1>3, Leq, Zenon DEF Grows
<1>6. ASSUME NEW n \in Nodes
      PROVE  MemberOk(n)'
  <2>1. CASE members[n] = None
    BY <2>1, Zenon DEF MemberOk, One
  <2>2. CASE members[n] # None
    <3>1. members[n] \in MemberRow
      BY <2>2, Zenon DEF StoreOk, StoreTypes
    <3>2. PICK t \in Subs : t = members[n].sub
      BY <3>1, Zenon DEF MemberRow
    <3>3. opened[t] # None /\ (~members[n].retired => stream.min <= Held(t) + 1)
      BY <2>2, <3>2, Zenon DEF StoreOk, MemberOk
    <3>4. opened'[t] # None /\ Held(t) <= Held(t)'
      BY <1>3, <3>2, <3>3, Zenon DEF Keeps
    <3>5. Held(t) \in Nat /\ Held(t)' \in Nat /\ stream.min \in Nat
      <4>1. Held(t) \in Nat /\ stream.min \in Nat
        BY <3>2, SubTyped, StreamShape, Zenon DEF StoreOk
      <4>2. opened'[t] \in PublisherRow \cup {None} /\ row'[t] \in ReceiverRow \cup {None}
            /\ ledger'[t] \in StoredLedger
        BY <3>2, Zenon DEF One, StoreTypes
      <4>3. QED BY <4>1, <4>2, DurableIsNat, Zenon DEF Held
    <3>6. ~members[n].retired => stream.min <= Held(t)' + 1
      BY <3>3, <3>4, <3>5, Through, Zenon
    <3>7. members'[n].sub = t /\ members'[n].retired = members[n].retired /\ stream'.min = stream.min
      BY <3>2, Zenon DEF One
    <3>8. QED BY <3>4, <3>6, <3>7, Zenon DEF MemberOk
  <2>3. QED BY <2>1, <2>2, Zenon
<1>7. LogStep
  <2>1. Held(s)' <= HeadSeq'
    BY Zenon DEF One, SubOk, Good, Held
  <2>2. opened'[s] \in PublisherRow \cup {None} /\ row'[s] \in ReceiverRow \cup {None}
        /\ ledger'[s] \in StoredLedger
    BY Zenon DEF One, StoreTypes
  <2>3. Held(s)' \in Nat
    BY <2>2, DurableIsNat, Zenon DEF Held
  <2>4. QED BY <1>1, <1>2, <2>1, <2>3, CursorStep, Zenon DEF One, Keeps
<1>8. QED BY <1>3, <1>4, <1>5, <1>6, <1>7, Zenon DEF Sound, StoreOk, One

(* A table whose row s is written as it was.                                  *)
LEMMA Untouched ==
  ASSUME NEW S, NEW T, NEW f \in [S -> T], NEW s \in S
  PROVE  f = [f EXCEPT ![s] = f[s]]
BY Zenon

(* A transaction on the publisher's rows of one subscription.                 *)
LEMMA PublisherRows ==
  ASSUME StoreOk, NEW s \in Subs, NEW o \in PublisherRow \cup {None},
         NEW c \in StoredReceived \cup {None}, NEW f \in Nat,
         opened' = [opened EXCEPT ![s] = o], receipts' = [receipts EXCEPT ![s] = c],
         offers' = [offers EXCEPT ![s] = f],
         UNCHANGED <<stream, serve, members, now, recvVars>>,
         Good(o, c, f, row[s], ledger[s], inbox[s], HeadSeq),
         Held(s) <= DurableOf(o, row[s], ledger[s]),
         opened[s] # None => o # None /\ o.start = opened[s].start
  PROVE  Sound
<1>1. /\ row' = row /\ ledger' = ledger /\ inbox' = inbox /\ receive' = receive
      /\ stream' = stream /\ serve' = serve /\ members' = members /\ now' = now
  BY Zenon DEF recvVars
<1>2. StoreTypes
  BY Zenon DEF StoreOk
<1>3. /\ opened' \in [Subs -> PublisherRow \cup {None}]
      /\ receipts' \in [Subs -> StoredReceived \cup {None}] /\ offers' \in [Subs -> Nat]
      /\ opened'[s] = o /\ receipts'[s] = c /\ offers'[s] = f
  BY <1>2, Zenon DEF StoreTypes
<1>4. StoreTypes'
  BY <1>1, <1>2, <1>3, Zenon DEF StoreTypes
<1>5. ASSUME NEW x \in Subs, x # s PROVE Same(x)
  <2>1. /\ opened \in [Subs -> PublisherRow \cup {None}]
        /\ receipts \in [Subs -> StoredReceived \cup {None}] /\ offers \in [Subs -> Nat]
    BY <1>2, Zenon DEF StoreTypes
  <2>2. QED BY <1>1, <1>5, <2>1, Zenon DEF Same
<1>6. HeadSeq' = HeadSeq
  BY <1>1, Zenon DEF HeadSeq
<1>7. SubOk(s)' /\ Keeps(s)
  BY <1>1, <1>3, <1>6, Zenon DEF SubOk, Keeps, Held
<1>8. LeavesOk(s)
  BY <1>1, Zenon DEF LeavesOk
<1>9. One(s)
  BY <1>1, <1>4, <1>5, <1>7, <1>8, Zenon DEF One
<1>10. QED BY <1>9, OneSub, Zenon

(* A transaction on the receiver's rows of one subscription.                  *)
LEMMA ReceiverRows ==
  ASSUME StoreOk, NEW s \in Subs, NEW r \in ReceiverRow, NEW l \in StoredLedger, NEW b \in Inbox,
         row' = [row EXCEPT ![s] = r], ledger' = [ledger EXCEPT ![s] = l],
         inbox' = [inbox EXCEPT ![s] = b],
         UNCHANGED <<receive, pubVars>>,
         Good(opened[s], receipts[s], offers[s], r, l, b, HeadSeq),
         Held(s) <= DurableOf(opened[s], r, l),
         \A q \in DOMAIN inbox[s] \ DOMAIN b :
            \/ inbox[s][q] = ledger[s].gen /\ q <= row[s].projected
            \/ inbox[s][q] < ledger[s].gen /\ q <= ledger[s].active
  PROVE  Sound
<1>1. /\ opened' = opened /\ receipts' = receipts /\ offers' = offers /\ receive' = receive
      /\ stream' = stream /\ serve' = serve /\ members' = members /\ now' = now
  BY Zenon DEF pubVars
<1>2. StoreTypes
  BY Zenon DEF StoreOk
<1>3. /\ row' \in [Subs -> ReceiverRow \cup {None}] /\ ledger' \in [Subs -> StoredLedger]
      /\ inbox' \in [Subs -> Inbox] /\ row'[s] = r /\ ledger'[s] = l /\ inbox'[s] = b
  BY <1>2, Zenon DEF StoreTypes
<1>4. StoreTypes'
  BY <1>1, <1>2, <1>3, Zenon DEF StoreTypes
<1>5. ASSUME NEW x \in Subs, x # s PROVE Same(x)
  <2>1. /\ row \in [Subs -> ReceiverRow \cup {None}]
        /\ ledger \in [Subs -> StoredLedger] /\ inbox \in [Subs -> Inbox]
    BY <1>2, Zenon DEF StoreTypes
  <2>2. QED BY <1>1, <1>5, <2>1, Zenon DEF Same
<1>6. HeadSeq' = HeadSeq
  BY <1>1, Zenon DEF HeadSeq
<1>7. SubOk(s)' /\ Keeps(s)
  BY <1>1, <1>3, <1>6, Zenon DEF SubOk, Keeps, Held
<1>8. LeavesOk(s)
  BY <1>3, Zenon DEF LeavesOk
<1>9. One(s)
  BY <1>1, <1>4, <1>5, <1>7, <1>8, Zenon DEF One
<1>10. QED BY <1>9, OneSub, Zenon

----------------------------------------------------------------------------
(* The publisher's transactions on a subscription.                            *)
LEMMA Facts ==
  ASSUME StoreOk, NEW s \in Subs
  PROVE  /\ Typed(opened[s], receipts[s], offers[s], row[s], ledger[s], inbox[s], HeadSeq)
         /\ Good(opened[s], receipts[s], offers[s], row[s], ledger[s], inbox[s], HeadSeq)
         /\ Held(s) \in Nat /\ HeadSeq \in Nat
         /\ opened = [opened EXCEPT ![s] = opened[s]]
         /\ receipts = [receipts EXCEPT ![s] = receipts[s]]
         /\ offers = [offers EXCEPT ![s] = offers[s]]
         /\ row = [row EXCEPT ![s] = row[s]]
         /\ ledger = [ledger EXCEPT ![s] = ledger[s]]
         /\ inbox = [inbox EXCEPT ![s] = inbox[s]]
<1>1. StoreTypes /\ SubOk(s)
  BY Zenon DEF StoreOk
<1>2. /\ opened \in [Subs -> PublisherRow \cup {None}] /\ offers \in [Subs -> Nat]
      /\ receipts \in [Subs -> StoredReceived \cup {None}]
      /\ row \in [Subs -> ReceiverRow \cup {None}] /\ inbox \in [Subs -> Inbox]
      /\ ledger \in [Subs -> StoredLedger]
  BY <1>1, Zenon DEF StoreTypes
<1>3. /\ opened = [opened EXCEPT ![s] = opened[s]] /\ receipts = [receipts EXCEPT ![s] = receipts[s]]
      /\ offers = [offers EXCEPT ![s] = offers[s]]
  BY <1>2, Untouched, Zenon
<1>4. /\ row = [row EXCEPT ![s] = row[s]] /\ ledger = [ledger EXCEPT ![s] = ledger[s]]
      /\ inbox = [inbox EXCEPT ![s] = inbox[s]]
  BY <1>2, Untouched, Zenon
<1>5. QED BY <1>1, <1>3, <1>4, SubTyped, StreamShape, Zenon DEF SubOk

Histories == {All, FromNow} \cup {After(p) : p \in 1..HeadSeq}

(* open_subscription.                                                         *)
LEMMA OpenSound ==
  ASSUME StoreOk, NEW s \in Subs, NEW h \in Histories, Open(s, h), UNCHANGED recvVars
  PROVE  Sound
<1> DEFINE st == IF h = FromNow THEN HeadSeq ELSE h.pos
           o == [auth |-> serve[Subscriber[s]].rev, ack |-> 0, closed |-> FALSE, start |-> st]
<1>1. HeadSeq \in Nat
  BY Facts, Zenon
<1>2. st \in Nat /\ st <= HeadSeq
  <2>1. CASE h = FromNow
    BY <1>1, <2>1
  <2>2. CASE h = All
    BY <1>1, <2>2 DEF All, FromNow
  <2>3. ASSUME NEW p \in 1..HeadSeq, h = After(p) PROVE st \in Nat /\ st <= HeadSeq
    BY <1>1, <2>3 DEF After, FromNow
  <2>4. QED BY <2>1, <2>2, <2>3, Zenon DEF Histories
<1>3. /\ opened[s] = None /\ opened' = [opened EXCEPT ![s] = o]
      /\ UNCHANGED <<stream, serve, members, now, recvVars, receipts, offers>>
  BY Zenon DEF Open, OpenAllowed
<1> HIDE DEF st
<1>4. o \in PublisherRow
  <2>1. Subscriber[s] \in Nodes /\ serve \in [Nodes -> AuthorityRow]
    BY SubscriberAssumption, Zenon DEF StoreOk, StoreTypes
  <2>2. serve[Subscriber[s]] \in AuthorityRow /\ 0 \in Nat
    BY <2>1, Zenon
  <2>3. serve[Subscriber[s]].rev \in Nat
    BY <2>2, Zenon DEF AuthorityRow
  <2>4. QED BY <1>2, <2>2, <2>3, Zenon DEF PublisherRow
<1>5. o.ack = 0 /\ o.start = st
  BY Zenon
<1> HIDE DEF o
<1>6. /\ Good(o, receipts[s], offers[s], row[s], ledger[s], inbox[s], HeadSeq)
      /\ Held(s) <= DurableOf(o, row[s], ledger[s])
  <2>1. /\ Typed(None, receipts[s], offers[s], row[s], ledger[s], inbox[s], HeadSeq)
        /\ Good(None, receipts[s], offers[s], row[s], ledger[s], inbox[s], HeadSeq)
    BY <1>3, Facts, Zenon
  <2>2. o.start <= HeadSeq /\ Held(s) = DurableOf(None, row[s], ledger[s])
    BY <1>2, <1>3, <1>5, Zenon DEF Held
  <2>3. QED BY <1>4, <1>5, <2>1, <2>2, OpenGood, Zenon
<1>7. receipts[s] \in StoredReceived \cup {None} /\ offers[s] \in Nat
  BY Facts, Zenon DEF Typed
<1>8. receipts' = [receipts EXCEPT ![s] = receipts[s]] /\ offers' = [offers EXCEPT ![s] = offers[s]]
  BY <1>3, Facts, Zenon
<1>9. QED BY <1>3, <1>4, <1>6, <1>7, <1>8, PublisherRows, Zenon

(* What the other transactions of the publisher have in common.               *)
LEMMA ServedSound ==
  ASSUME StoreOk, NEW s \in Subs, opened[s] # None,
         NEW o \in PublisherRow, o.start = opened[s].start, o.ack <= Held(s),
         NEW c \in StoredReceived \cup {None}, c # None => c.through <= Held(s),
         NEW f \in Nat, f <= HeadSeq,
         opened' = [opened EXCEPT ![s] = o], receipts' = [receipts EXCEPT ![s] = c],
         offers' = [offers EXCEPT ![s] = f],
         UNCHANGED <<stream, serve, members, now, recvVars>>
  PROVE  Sound
<1>1. opened[s] \in PublisherRow
  BY Facts, Zenon DEF Typed
<1>2. /\ Good(o, c, f, row[s], ledger[s], inbox[s], HeadSeq)
      /\ DurableOf(o, row[s], ledger[s]) = Held(s)
  <2>1. Good(opened[s], receipts[s], offers[s], row[s], ledger[s], inbox[s], HeadSeq)
    BY Facts, Zenon
  <2>2. Held(s) = DurableOf(opened[s], row[s], ledger[s])
    BY Zenon DEF Held
  <2>3. /\ o.ack <= DurableOf(opened[s], row[s], ledger[s])
        /\ c # None => c.through <= DurableOf(opened[s], row[s], ledger[s])
    BY <2>2, Zenon
  <2>4. QED BY <1>1, <2>1, <2>2, <2>3, PublisherGood
<1>3. Held(s) <= DurableOf(o, row[s], ledger[s]) /\ o # None
  BY <1>2, Facts, Leq, PublisherAssumption, Zenon
<1>4. QED BY <1>2, <1>3, PublisherRows, Zenon

(* The publisher's rows of an opened subscription.                            *)
LEMMA RowOfOpened ==
  ASSUME StoreOk, NEW s \in Subs, opened[s] # None
  PROVE  /\ opened[s] \in PublisherRow /\ opened[s].ack <= Held(s) /\ opened[s].start <= Held(s)
         /\ receipts[s] \in StoredReceived \cup {None}
         /\ receipts[s] # None => receipts[s].through <= Held(s)
         /\ offers[s] \in Nat /\ offers[s] <= HeadSeq
BY Facts, Zenon DEF Typed, Good, Held

(* The publisher closes a subscription.                                       *)
LEMMA CloseSound ==
  ASSUME StoreOk, NEW s \in Subs, CloseSubscription(s), UNCHANGED recvVars
  PROVE  Sound
<1> DEFINE o == [opened[s] EXCEPT !.closed = TRUE]
<1>1. /\ opened[s] # None /\ opened' = [opened EXCEPT ![s] = o]
      /\ UNCHANGED <<stream, serve, members, now, recvVars, receipts, offers>>
  BY Zenon DEF CloseSubscription, Serving, ServeAuthority
<1>2. /\ opened[s] \in PublisherRow /\ opened[s].ack <= Held(s)
      /\ receipts[s] \in StoredReceived \cup {None}
      /\ receipts[s] # None => receipts[s].through <= Held(s)
      /\ offers[s] \in Nat /\ offers[s] <= HeadSeq
  BY <1>1, RowOfOpened, Zenon
<1>3. o \in PublisherRow /\ o.start = opened[s].start /\ o.ack = opened[s].ack
  BY <1>2, Zenon DEF PublisherRow
<1> HIDE DEF o
<1>4. receipts' = [receipts EXCEPT ![s] = receipts[s]] /\ offers' = [offers EXCEPT ![s] = offers[s]]
  BY <1>1, Facts, Zenon
<1>5. QED BY <1>1, <1>2, <1>3, <1>4, ServedSound, Zenon

(* An acknowledgement of what the receiver holds.                             *)
LEMMA AcknowledgeSound ==
  ASSUME StoreOk, NEW s \in Subs, NEW p \in Nat, p <= Held(s), Acknowledge(s, p),
         UNCHANGED recvVars
  PROVE  Sound
<1> DEFINE a == IF opened[s].ack >= p THEN opened[s].ack ELSE p
           o == [opened[s] EXCEPT !.ack = a]
<1>1. /\ opened[s] # None /\ opened' = [opened EXCEPT ![s] = o]
      /\ UNCHANGED <<stream, serve, members, now, recvVars, receipts, offers>>
  BY Zenon DEF Acknowledge, AckAllowed, Serving, ServeAuthority
<1>2. /\ opened[s] \in PublisherRow /\ opened[s].ack <= Held(s)
      /\ receipts[s] \in StoredReceived \cup {None}
      /\ receipts[s] # None => receipts[s].through <= Held(s)
      /\ offers[s] \in Nat /\ offers[s] <= HeadSeq
  BY <1>1, RowOfOpened, Zenon
<1>3. a \in Nat /\ a <= Held(s)
  BY <1>2, Zenon DEF PublisherRow
<1> HIDE DEF a
<1>4. o \in PublisherRow /\ o.start = opened[s].start /\ o.ack = a
  BY <1>2, <1>3, Zenon DEF PublisherRow
<1> HIDE DEF o
<1>5. receipts' = [receipts EXCEPT ![s] = receipts[s]] /\ offers' = [offers EXCEPT ![s] = offers[s]]
  BY <1>1, Facts, Zenon
<1>6. QED BY <1>1, <1>2, <1>3, <1>4, <1>5, ServedSound, Zenon

(* A receipt of what the receiver holds.                                      *)
LEMMA ReceiveSnapshotSound ==
  ASSUME StoreOk, NEW s \in Subs, NEW r \in StoredReceived, r.through <= Held(s),
         ReceiveSnapshot(s, r), UNCHANGED recvVars
  PROVE  Sound
<1> DEFINE c == IF SameArchive(s, r) /\ r.through = r.pos THEN receipts[s] ELSE r
<1>1. /\ opened[s] # None /\ receipts' = [receipts EXCEPT ![s] = c]
      /\ UNCHANGED <<stream, serve, members, now, recvVars, opened, offers>>
  BY Zenon DEF ReceiveSnapshot, ReceiptAllowed, Serving, ServeAuthority
<1>2. /\ opened[s] \in PublisherRow /\ opened[s].ack <= Held(s)
      /\ receipts[s] \in StoredReceived \cup {None}
      /\ receipts[s] # None => receipts[s].through <= Held(s)
      /\ offers[s] \in Nat /\ offers[s] <= HeadSeq
  BY <1>1, RowOfOpened, Zenon
<1>3. c \in StoredReceived \cup {None} /\ (c # None => c.through <= Held(s))
  BY <1>2, Zenon
<1> HIDE DEF c
<1>4. opened' = [opened EXCEPT ![s] = opened[s]] /\ offers' = [offers EXCEPT ![s] = offers[s]]
  BY <1>1, Facts, Zenon
<1>5. QED BY <1>1, <1>2, <1>3, <1>4, ServedSound, Zenon

(* An offer is made or withdrawn.                                             *)
LEMMA OfferSound ==
  ASSUME StoreOk, NEW s \in Subs, RetireOffer(s) \/ \E p \in 1..HeadSeq : PublishOffer(s, p),
         UNCHANGED recvVars
  PROVE  Sound
<1>1. HeadSeq \in Nat
  BY Facts, Zenon
<1>2. PICK f \in Nat : /\ f <= HeadSeq /\ offers' = [offers EXCEPT ![s] = f]
                       /\ UNCHANGED <<stream, serve, members, now, recvVars, opened, receipts>>
  <2>1. CASE RetireOffer(s)
    <3>1. 0 \in Nat /\ 0 <= HeadSeq
      BY <1>1
    <3>2. QED BY <2>1, <3>1, Zenon DEF RetireOffer
  <2>2. ASSUME NEW p \in 1..HeadSeq, PublishOffer(s, p)
        PROVE  \E f \in Nat : /\ f <= HeadSeq /\ offers' = [offers EXCEPT ![s] = f]
                              /\ UNCHANGED <<stream, serve, members, now, recvVars, opened, receipts>>
    <3>1. p \in Nat /\ p <= HeadSeq
      BY <1>1
    <3>2. QED BY <2>2, <3>1, Zenon DEF PublishOffer
  <2>3. QED BY <2>1, <2>2, Zenon
<1>3. Good(opened[s], receipts[s], f, row[s], ledger[s], inbox[s], HeadSeq)
  BY <1>2, Facts, OfferGood, Zenon
<1>4. Held(s) <= DurableOf(opened[s], row[s], ledger[s])
  BY Facts, Leq, Zenon DEF Held
<1>5. /\ opened[s] \in PublisherRow \cup {None} /\ receipts[s] \in StoredReceived \cup {None}
      /\ opened' = [opened EXCEPT ![s] = opened[s]] /\ receipts' = [receipts EXCEPT ![s] = receipts[s]]
  BY <1>2, Facts, Zenon DEF Typed
<1>6. QED BY <1>2, <1>3, <1>4, <1>5, PublisherRows, Zenon

----------------------------------------------------------------------------
(* The receiver's transactions on a subscription.                             *)
LEMMA InstallSound ==
  ASSUME StoreOk, NEW s \in Subs, opened[s] # None, NEW a \in Nat,
         InstallSubscription(s, a, opened[s].start), UNCHANGED pubVars
  PROVE  Sound
<1> DEFINE r == IF row[s] # None THEN row[s]
                ELSE [auth |-> receive[Subscriber[s]].rev, opened |-> a,
                      start |-> opened[s].start, received |-> 0, projected |-> 0, retired |-> 0]
<1>1. /\ Typed(opened[s], receipts[s], offers[s], row[s], ledger[s], inbox[s], HeadSeq)
      /\ Good(opened[s], receipts[s], offers[s], row[s], ledger[s], inbox[s], HeadSeq)
      /\ Held(s) <= Held(s) /\ Held(s) = DurableOf(opened[s], row[s], ledger[s])
  BY Facts, Leq, Zenon DEF Held
<1>2. /\ row' = [row EXCEPT ![s] = r] /\ UNCHANGED <<receive, pubVars>>
      /\ ledger' = [ledger EXCEPT ![s] = ledger[s]] /\ inbox' = [inbox EXCEPT ![s] = inbox[s]]
  BY Facts, Zenon DEF InstallSubscription
<1>3. ledger[s] \in StoredLedger /\ inbox[s] \in Inbox
  BY <1>1, Zenon DEF Typed
<1>4. /\ r \in ReceiverRow
      /\ Good(opened[s], receipts[s], offers[s], r, ledger[s], inbox[s], HeadSeq)
      /\ DurableOf(opened[s], r, ledger[s]) = Held(s)
  <2>1. CASE row[s] # None
    BY <1>1, <2>1, Zenon DEF Typed
  <2>2. CASE row[s] = None
    <3>1. receive[Subscriber[s]].rev \in Nat /\ 0 \in Nat
      <4>1. Subscriber[s] \in Nodes /\ receive \in [Nodes -> AuthorityRow]
        BY SubscriberAssumption, Zenon DEF StoreOk, StoreTypes
      <4>2. receive[Subscriber[s]] \in AuthorityRow /\ 0 \in Nat
        BY <4>1, Zenon
      <4>3. QED BY <4>2, Zenon DEF AuthorityRow
    <3>2. opened[s].start \in Nat
      BY <1>1, Zenon DEF Typed, PublisherRow
    <3>3. r = [auth |-> receive[Subscriber[s]].rev, opened |-> a,
               start |-> opened[s].start, received |-> 0, projected |-> 0, retired |-> 0]
      BY <2>2, Zenon
    <3> HIDE DEF r
    <3>4. /\ r \in ReceiverRow /\ r.start = opened[s].start
          /\ r.received = 0 /\ r.projected = 0 /\ r.retired = 0
      BY <3>1, <3>2, <3>3, Zenon DEF ReceiverRow
    <3>5. QED BY <1>1, <2>2, <3>4, InstallGood
  <2>3. QED BY <2>1, <2>2, Zenon
<1> HIDE DEF r
<1>5. Held(s) <= DurableOf(opened[s], r, ledger[s])
  BY <1>1, <1>4, Zenon
<1>6. QED BY <1>2, <1>3, <1>4, <1>5, ReceiverRows, Zenon

(* What the other transactions of the receiver have in common.                *)
LEMMA ReceivedSound ==
  ASSUME StoreOk, NEW s \in Subs, row[s] # None,
         NEW r \in ReceiverRow, NEW l \in StoredLedger, NEW b \in Inbox,
         row' = [row EXCEPT ![s] = r], ledger' = [ledger EXCEPT ![s] = l],
         inbox' = [inbox EXCEPT ![s] = b], UNCHANGED <<receive, pubVars>>,
         RowOk(r, l), InboxOk(r, l, b), r.start = row[s].start,
         CursorOf(row[s], ledger[s]) <= CursorOf(r, l), CursorOf(r, l) <= HeadSeq,
         l.pending # None => l.pending.offer.pos <= HeadSeq,
         \A q \in DOMAIN inbox[s] \ DOMAIN b :
            \/ inbox[s][q] = ledger[s].gen /\ q <= row[s].projected
            \/ inbox[s][q] < ledger[s].gen /\ q <= ledger[s].active
  PROVE  Sound
<1>1. /\ Typed(opened[s], receipts[s], offers[s], row[s], ledger[s], inbox[s], HeadSeq)
      /\ Good(opened[s], receipts[s], offers[s], row[s], ledger[s], inbox[s], HeadSeq)
      /\ row[s] \in ReceiverRow
  BY Facts, Zenon DEF Typed
<1>2. /\ Good(opened[s], receipts[s], offers[s], r, l, b, HeadSeq)
      /\ DurableOf(opened[s], row[s], ledger[s]) <= DurableOf(opened[s], r, l)
  BY <1>1, ReceiverGood, Zenon
<1>3. Held(s) <= DurableOf(opened[s], r, l)
  BY <1>2, Zenon DEF Held
<1>4. QED BY <1>2, <1>3, ReceiverRows, Zenon

(* The receiver's rows of an installed subscription.                          *)
LEMMA RowOfInstalled ==
  ASSUME StoreOk, NEW s \in Subs, row[s] # None
  PROVE  /\ row[s] \in ReceiverRow /\ ledger[s] \in StoredLedger /\ inbox[s] \in Inbox
         /\ RowOk(row[s], ledger[s]) /\ InboxOk(row[s], ledger[s], inbox[s])
         /\ Base(s) = BaseOf(row[s], ledger[s]) /\ BaseOf(row[s], ledger[s]) \in Nat
         /\ Cursor(s) = CursorOf(row[s], ledger[s]) /\ CursorOf(row[s], ledger[s]) \in Nat
         /\ RetireFirst(s) = FirstOf(row[s], ledger[s]) /\ FirstOf(row[s], ledger[s]) \in Nat
         /\ Held(s) = Cursor(s) /\ Cursor(s) <= HeadSeq /\ HeadSeq \in Nat /\ Cursor(s) <= Cursor(s)
         /\ ledger[s].pending # None => ledger[s].pending.offer.pos <= HeadSeq
<1>1. /\ Typed(opened[s], receipts[s], offers[s], row[s], ledger[s], inbox[s], HeadSeq)
      /\ Good(opened[s], receipts[s], offers[s], row[s], ledger[s], inbox[s], HeadSeq)
      /\ HeadSeq \in Nat
  BY Facts, Zenon
<1>2. /\ row[s] \in ReceiverRow /\ ledger[s] \in StoredLedger /\ inbox[s] \in Inbox
      /\ RowOk(row[s], ledger[s]) /\ InboxOk(row[s], ledger[s], inbox[s])
      /\ ledger[s].pending # None => ledger[s].pending.offer.pos <= HeadSeq
  BY <1>1, Zenon DEF Typed, Good
<1>3. /\ BaseOf(row[s], ledger[s]) \in Nat /\ CursorOf(row[s], ledger[s]) \in Nat
      /\ FirstOf(row[s], ledger[s]) \in Nat
  BY <1>2, Positions, Zenon
<1>4. Base(s) = BaseOf(row[s], ledger[s])
  BY Zenon DEF Base, Baseline, BaseOf
<1>5. Cursor(s) = CursorOf(row[s], ledger[s]) /\ RetireFirst(s) = FirstOf(row[s], ledger[s])
  BY <1>4, Zenon DEF Cursor, CursorOf, RetireFirst, FirstOf
<1>6. Held(s) = Cursor(s) /\ Cursor(s) <= HeadSeq
  BY <1>1, <1>5, Zenon DEF Held, DurableOf, Good
<1>7. QED BY <1>1, <1>2, <1>3, <1>4, <1>5, <1>6, Leq, Zenon

(* Steps that leave the rows as they are.                                     *)
LEMMA QuietSound ==
  ASSUME StoreOk, StoreTypes', UNCHANGED <<stream, opened, members, offers, receipts, row, inbox, ledger>>
  PROVE  Sound
<1>1. StoreTypes /\ HeadSeq \in Nat /\ HeadSeq' = HeadSeq
  BY StreamShape, Zenon DEF StoreOk, HeadSeq
<1>2. ASSUME NEW s \in Subs PROVE SubOk(s)' /\ Keeps(s) /\ LeavesOk(s)
  <2>1. SubOk(s) /\ Held(s) \in Nat /\ Held(s)' = Held(s)
    BY <1>1, SubTyped, Zenon DEF StoreOk, Held
  <2>2. SubOk(s)'
    BY <1>1, <2>1, Zenon DEF SubOk
  <2>3. Keeps(s)
    BY <2>1, Leq, Zenon DEF Keeps
  <2>4. QED BY <2>2, <2>3, Zenon DEF LeavesOk
<1>3. StreamOk'
  BY <1>1, Zenon DEF StoreOk, StreamOk
<1>4. ASSUME NEW n \in Nodes PROVE MemberOk(n)'
  BY Zenon DEF StoreOk, MemberOk, Held
<1>5. StoreOk'
  BY <1>2, <1>3, <1>4, Zenon DEF StoreOk
<1>6. Grows
  BY <1>1, <1>2, Leq, Zenon DEF Grows
<1>7. LogStep
  <2>1. [x \in Subs |-> Durable(x)]' = [x \in Subs |-> Durable(x)]
    BY Zenon DEF Durable, Cursor, Base, Baseline
  <2>2. UNCHANGED <<stream.log, stream.min, {members[n].sub : n \in ActiveMembers}>>
    BY Zenon DEF ActiveMembers
  <2>3. QED BY <2>1, <2>2, Zenon DEF LogStep, Log!logVars
<1>8. QED BY <1>2, <1>5, <1>6, <1>7, Zenon DEF Sound

(* A step that touches neither store.                                         *)
LEMMA StillSound ==
  ASSUME StoreOk, UNCHANGED <<pubVars, recvVars>>
  PROVE  Sound
<1>1. StoreTypes'
  BY Zenon DEF StoreOk, StoreTypes, pubVars, recvVars
<1>2. QED BY <1>1, QuietSound, Zenon DEF pubVars, recvVars

(* A record of the stream is received, or was before.                         *)
LEMMA AcceptSound ==
  ASSUME StoreOk, NEW s \in Subs, NEW g, NEW q \in Nat, q <= HeadSeq, Accept(s, g, q),
         UNCHANGED pubVars
  PROVE  Sound
<1>1. CASE AcceptResult(s, g, q) = "duplicate"
  <2>1. UNCHANGED <<pubVars, recvVars>>
    BY <1>1, Zenon DEF Accept, recvVars
  <2>2. QED BY <2>1, StillSound, Zenon
<1>2. CASE AcceptResult(s, g, q) = "new"
  <2>1. Gate(s, g) /\ ReceiveAuthority(s) /\ ~(q <= Cursor(s)) /\ ~(q > Cursor(s) + 1)
    BY <1>2, Zenon DEF AcceptResult
  <2>2. row[s] # None
    BY <2>1, Zenon DEF ReceiveAuthority
  <2> DEFINE r == [row[s] EXCEPT !.received = q]
             b == With(inbox[s], q, g)
  <2>3. /\ row' = [row EXCEPT ![s] = r] /\ inbox' = [inbox EXCEPT ![s] = b]
        /\ ledger' = ledger /\ receive' = receive
    BY <1>2, Zenon DEF Accept
  <2>4. /\ row[s] \in ReceiverRow /\ ledger[s] \in StoredLedger /\ inbox[s] \in Inbox
        /\ RowOk(row[s], ledger[s]) /\ InboxOk(row[s], ledger[s], inbox[s])
        /\ Cursor(s) = CursorOf(row[s], ledger[s]) /\ CursorOf(row[s], ledger[s]) \in Nat
        /\ ledger[s].pending # None => ledger[s].pending.offer.pos <= HeadSeq
    BY <2>2, RowOfInstalled, Zenon
  <2>5. q = CursorOf(row[s], ledger[s]) + 1
    BY <2>1, <2>4
  <2>6. g = ledger[s].gen
    BY <2>1, <2>4, Zenon DEF Gate, Installed, RowOk
  <2>7. /\ r \in ReceiverRow /\ b \in Inbox /\ RowOk(r, ledger[s]) /\ InboxOk(r, ledger[s], b)
        /\ CursorOf(r, ledger[s]) = q
    BY <2>4, <2>5, <2>6, AcceptGood, Zenon
  <2>8. r.start = row[s].start /\ DOMAIN inbox[s] \ DOMAIN b = {}
    BY <2>4, Zenon DEF ReceiverRow, With
  <2> HIDE DEF r, b
  <2>9. CursorOf(row[s], ledger[s]) <= q
    BY <2>4, <2>5
  <2>10. ledger' = [ledger EXCEPT ![s] = ledger[s]]
    BY <2>3, Facts, Zenon
  <2>11. QED BY <2>2, <2>3, <2>4, <2>7, <2>8, <2>9, <2>10, ReceivedSound, Zenon
<1>3. QED BY <1>1, <1>2, Zenon DEF Accept

(* The application projects what it holds, and drops what it projected.       *)
LEMMA ProjectSound ==
  ASSUME StoreOk, NEW s \in Subs, NEW g, NEW p \in Nat, RecordProjectionProgress(s, g, p),
         UNCHANGED pubVars
  PROVE  Sound
<1> DEFINE r == [row[s] EXCEPT !.projected = p]
<1>1. /\ row[s] # None /\ row' = [row EXCEPT ![s] = r] /\ UNCHANGED <<receive, inbox, ledger>>
      /\ p > row[s].retired /\ p <= row[s].received
      /\ p = (IF row[s].projected # 0 THEN row[s].projected ELSE Base(s)) + 1
  BY Zenon DEF RecordProjectionProgress, ReceiveAuthority
<1>2. /\ row[s] \in ReceiverRow /\ ledger[s] \in StoredLedger /\ inbox[s] \in Inbox
      /\ RowOk(row[s], ledger[s]) /\ InboxOk(row[s], ledger[s], inbox[s])
      /\ Base(s) = BaseOf(row[s], ledger[s])
      /\ Cursor(s) = CursorOf(row[s], ledger[s]) /\ Cursor(s) <= HeadSeq /\ Cursor(s) <= Cursor(s)
      /\ ledger[s].pending # None => ledger[s].pending.offer.pos <= HeadSeq
  BY <1>1, RowOfInstalled, Zenon
<1>3. row[s].retired < p
  BY <1>1, <1>2, Zenon DEF ReceiverRow
<1>4. p = (IF row[s].projected # 0 THEN row[s].projected ELSE BaseOf(row[s], ledger[s])) + 1
  BY <1>1, <1>2, Zenon
<1>5. /\ r \in ReceiverRow /\ RowOk(r, ledger[s]) /\ InboxOk(r, ledger[s], inbox[s])
      /\ CursorOf(r, ledger[s]) = CursorOf(row[s], ledger[s])
  BY <1>1, <1>2, <1>3, <1>4, ProjectGood, Zenon
<1>6. r.start = row[s].start
  BY <1>2, Zenon DEF ReceiverRow
<1> HIDE DEF r
<1>7. ledger' = [ledger EXCEPT ![s] = ledger[s]] /\ inbox' = [inbox EXCEPT ![s] = inbox[s]]
  BY <1>1, Facts, Zenon
<1>8. CursorOf(row[s], ledger[s]) <= CursorOf(r, ledger[s]) /\ CursorOf(r, ledger[s]) <= HeadSeq
  BY <1>2, <1>5, Zenon
<1>9. DOMAIN inbox[s] \ DOMAIN inbox[s] = {}
  BY Zenon
<1>10. QED BY <1>1, <1>2, <1>5, <1>6, <1>7, <1>8, <1>9, ReceivedSound, Zenon

(* Projected records leave the inbox.                                         *)
LEMMA RetireInboxSound ==
  ASSUME StoreOk, NEW s \in Subs, NEW g, NEW last \in Nat, RetireProjectedInbox(s, g, last),
         UNCHANGED pubVars
  PROVE  Sound
<1> DEFINE r == [row[s] EXCEPT !.retired = last]
           b == [q \in DOMAIN inbox[s] \ (FirstOf(row[s], ledger[s]) .. last) |-> inbox[s][q]]
<1>1. row[s] # None
  BY Zenon DEF RetireProjectedInbox
<1>2. /\ row[s] \in ReceiverRow /\ ledger[s] \in StoredLedger /\ inbox[s] \in Inbox
      /\ RowOk(row[s], ledger[s]) /\ InboxOk(row[s], ledger[s], inbox[s])
      /\ RetireFirst(s) = FirstOf(row[s], ledger[s]) /\ FirstOf(row[s], ledger[s]) \in Nat
      /\ Cursor(s) = CursorOf(row[s], ledger[s]) /\ Cursor(s) <= HeadSeq /\ Cursor(s) <= Cursor(s)
      /\ ledger[s].pending # None => ledger[s].pending.offer.pos <= HeadSeq
  BY <1>1, RowOfInstalled, Zenon
<1>3. /\ row' = [row EXCEPT ![s] = r] /\ inbox' = [inbox EXCEPT ![s] = b]
      /\ UNCHANGED <<receive, ledger>> /\ last \in RetireFirst(s) .. row[s].projected
  BY <1>2, Zenon DEF RetireProjectedInbox
<1>4. row[s].projected \in Nat /\ BaseOf(row[s], ledger[s]) \in Nat
  BY <1>2, Positions, Zenon DEF ReceiverRow
<1>5. FirstOf(row[s], ledger[s]) <= last /\ last <= row[s].projected
  BY <1>2, <1>3, <1>4
<1>6. /\ r \in ReceiverRow /\ b \in Inbox /\ RowOk(r, ledger[s]) /\ InboxOk(r, ledger[s], b)
      /\ CursorOf(r, ledger[s]) = CursorOf(row[s], ledger[s])
  BY <1>2, <1>5, RetireGood, Zenon
<1>7. r.start = row[s].start
  BY <1>2, Zenon DEF ReceiverRow
<1>8. ASSUME NEW q \in DOMAIN inbox[s] \ DOMAIN b
      PROVE  inbox[s][q] = ledger[s].gen /\ q <= row[s].projected
  <2>1. q \in DOMAIN inbox[s] /\ q \in FirstOf(row[s], ledger[s]) .. last
    BY Zenon
  <2>2. BaseOf(row[s], ledger[s]) < FirstOf(row[s], ledger[s])
    BY <1>2, <1>4 DEF FirstOf, RowOk, ReceiverRow
  <2>3. BaseOf(row[s], ledger[s]) < q /\ q <= row[s].projected
    BY <1>2, <1>4, <1>5, <2>1, <2>2
  <2>4. QED BY <1>2, <2>1, <2>3, Zenon DEF InboxOk
<1> HIDE DEF r, b
<1>9. ledger' = [ledger EXCEPT ![s] = ledger[s]]
  BY <1>3, Facts, Zenon
<1>10. CursorOf(row[s], ledger[s]) <= CursorOf(r, ledger[s]) /\ CursorOf(r, ledger[s]) <= HeadSeq
  BY <1>2, <1>6, Zenon
<1>11. QED BY <1>1, <1>2, <1>3, <1>6, <1>7, <1>8, <1>9, <1>10, ReceivedSound, Zenon

(* What lies below a projected baseline is dropped.                           *)
LEMMA RetireSnapshottedSound ==
  ASSUME StoreOk, NEW s \in Subs, NEW last \in Nat, RetireSnapshottedInbox(s, last),
         UNCHANGED pubVars
  PROVE  Sound
<1> DEFINE b == [q \in {x \in DOMAIN inbox[s] : x > last} |-> inbox[s][q]]
<1>1. /\ ledger[s].active # 0 /\ last <= ledger[s].active
      /\ inbox' = [inbox EXCEPT ![s] = b] /\ UNCHANGED <<receive, row, ledger>>
  BY Zenon DEF RetireSnapshottedInbox
<1>2. row[s] # None
  <2>1. row[s] = None => ledger[s] = NoLedger
    BY Facts, Zenon DEF Good
  <2>2. NoLedger.active = 0
    BY Zenon DEF NoLedger
  <2>3. QED BY <1>1, <2>1, <2>2, Zenon
<1>3. /\ row[s] \in ReceiverRow /\ ledger[s] \in StoredLedger /\ inbox[s] \in Inbox
      /\ RowOk(row[s], ledger[s]) /\ InboxOk(row[s], ledger[s], inbox[s])
      /\ Cursor(s) = CursorOf(row[s], ledger[s]) /\ Cursor(s) <= HeadSeq /\ Cursor(s) <= Cursor(s)
      /\ ledger[s].pending # None => ledger[s].pending.offer.pos <= HeadSeq
  BY <1>2, RowOfInstalled, Zenon
<1>4. BaseOf(row[s], ledger[s]) = ledger[s].active /\ ledger[s].active \in Nat /\ ledger[s].gen \in Nat
  BY <1>1, <1>3, Zenon DEF BaseOf, StoredLedger
<1>5. b \in Inbox /\ InboxOk(row[s], ledger[s], b)
  BY <1>1, <1>3, <1>4, RetireOldGood, Zenon
<1>6. ASSUME NEW q \in DOMAIN inbox[s] \ DOMAIN b
      PROVE  inbox[s][q] < ledger[s].gen /\ q <= ledger[s].active
  <2>1. q \in DOMAIN inbox[s] /\ ~(q > last)
    BY Zenon
  <2>2. q \in Nat /\ inbox[s][q] \in Nat
    BY <1>3, <2>1, InboxShape, Zenon
  <2>3. q <= ledger[s].active
    BY <1>1, <1>4, <2>1, <2>2
  <2>4. ~(BaseOf(row[s], ledger[s]) < q)
    BY <1>4, <2>2, <2>3
  <2>5. inbox[s][q] <= ledger[s].gen /\ inbox[s][q] # ledger[s].gen
    BY <1>3, <2>1, <2>4, Zenon DEF InboxOk
  <2>6. QED BY <1>4, <2>2, <2>3, <2>5
<1> HIDE DEF b
<1>7. ledger' = [ledger EXCEPT ![s] = ledger[s]] /\ row' = [row EXCEPT ![s] = row[s]]
  BY <1>1, Facts, Zenon
<1>8. CursorOf(row[s], ledger[s]) <= CursorOf(row[s], ledger[s]) /\ CursorOf(row[s], ledger[s]) <= HeadSeq
  BY <1>3, Zenon
<1>9. QED BY <1>1, <1>2, <1>3, <1>5, <1>6, <1>7, <1>8, ReceivedSound, Zenon

(* Transactions that change the ledger but neither baseline nor generation.   *)
LEMMA LedgerSound ==
  ASSUME StoreOk, NEW s \in Subs, row[s] # None, NEW l \in StoredLedger,
         ledger' = [ledger EXCEPT ![s] = l], UNCHANGED <<receive, row, inbox, pubVars>>,
         l.gen = ledger[s].gen, l.active = ledger[s].active, l.archived = ledger[s].archived,
         l.pending # None =>
           /\ l.archived = 0 /\ row[s].start = 0 /\ l.pending.offer.pos <= HeadSeq
           /\ l.pending.received <= l.pending.offer.pos /\ l.active < l.pending.offer.pos
  PROVE  Sound
<1>1. /\ row[s] \in ReceiverRow /\ ledger[s] \in StoredLedger /\ inbox[s] \in Inbox
      /\ RowOk(row[s], ledger[s]) /\ InboxOk(row[s], ledger[s], inbox[s])
      /\ Cursor(s) = CursorOf(row[s], ledger[s]) /\ Cursor(s) <= HeadSeq /\ Cursor(s) <= Cursor(s)
  BY RowOfInstalled, Zenon
<1>2. /\ RowOk(row[s], l) /\ InboxOk(row[s], l, inbox[s])
      /\ CursorOf(row[s], l) = CursorOf(row[s], ledger[s])
  <2>1. l.pending # None =>
          /\ ledger[s].archived = 0 /\ row[s].start = 0
          /\ l.pending.received <= l.pending.offer.pos /\ ledger[s].active < l.pending.offer.pos
    BY Zenon
  <2>2. QED BY <1>1, <2>1, LedgerGood, Zenon
<1>3. inbox' = [inbox EXCEPT ![s] = inbox[s]] /\ row' = [row EXCEPT ![s] = row[s]]
  BY Facts, Zenon
<1>4. CursorOf(row[s], ledger[s]) <= CursorOf(row[s], l) /\ CursorOf(row[s], l) <= HeadSeq
  BY <1>1, <1>2, Zenon
<1>5. DOMAIN inbox[s] \ DOMAIN inbox[s] = {}
  BY Zenon
<1>6. QED BY <1>1, <1>2, <1>3, <1>4, <1>5, ReceivedSound, Zenon

(* An installation begins with an offer of the stream.                        *)
LEMMA BeginSound ==
  ASSUME StoreOk, NEW s \in Subs, NEW o \in Manifest, o.pos <= HeadSeq, NEW g \in Nat,
         BeginSnapshotInstall(s, o, g), UNCHANGED pubVars
  PROVE  Sound
<1> DEFINE p == [offer |-> o, gen |-> g, auth |-> row[s].auth,
                 received |-> row[s].received, projected |-> row[s].projected]
           l == [ledger[s] EXCEPT !.pending = p]
<1>1. /\ row[s] # None /\ ledger' = [ledger EXCEPT ![s] = l] /\ UNCHANGED <<receive, row, inbox, pubVars>>
      /\ ledger[s].archived = 0 /\ row[s].start = 0
      /\ o.pos >= row[s].received /\ o.pos > Baseline(s)
  BY Zenon DEF BeginSnapshotInstall, BeginAllowed, ReceiveAuthority
<1>2. row[s] \in ReceiverRow /\ ledger[s] \in StoredLedger
  BY <1>1, RowOfInstalled, Zenon
<1>3. /\ row[s].auth \in Nat /\ row[s].received \in Nat /\ row[s].projected \in Nat
      /\ o.pos \in Nat /\ ledger[s].active \in Nat
  BY <1>2, Zenon DEF ReceiverRow, Manifest, StoredLedger
<1>4. p \in StoredPending
  BY <1>3, Zenon DEF StoredPending
<1>5. p.offer = o /\ p.received = row[s].received
  BY Zenon
<1> HIDE DEF p
<1>6. /\ l \in StoredLedger /\ l.pending = p /\ l.gen = ledger[s].gen
      /\ l.active = ledger[s].active /\ l.archived = ledger[s].archived
  BY <1>2, <1>4, Zenon DEF StoredLedger
<1> HIDE DEF l
<1>7. Baseline(s) = ledger[s].active
  BY <1>1, Zenon DEF Baseline
<1>8. row[s].received <= o.pos /\ ledger[s].active < o.pos
  BY <1>1, <1>3, <1>7, Zenon
<1>9. /\ l.archived = 0 /\ row[s].start = 0 /\ l.pending.offer.pos <= HeadSeq
      /\ l.pending.received <= l.pending.offer.pos /\ l.active < l.pending.offer.pos
  BY <1>1, <1>5, <1>6, <1>8, Zenon
<1>10. QED BY <1>1, <1>6, <1>9, LedgerSound, Zenon

(* It is given up, or the receiver is closed.                                 *)
LEMMA AbortSound ==
  ASSUME StoreOk, NEW s \in Subs, AbortSnapshotInstall(s) \/ CloseSnapshotReceiver(s),
         UNCHANGED pubVars
  PROVE  Sound
<1>1. row[s] # None
  <2>1. row[s] = None => ledger[s] = NoLedger
    BY Facts, Zenon DEF Good
  <2>2. NoLedger.pending = None
    BY Zenon DEF NoLedger
  <2>3. QED BY <2>1, <2>2, Zenon DEF AbortSnapshotInstall, CloseSnapshotReceiver
<1>2. /\ ledger[s] \in StoredLedger /\ RowOk(row[s], ledger[s])
      /\ ledger[s].pending # None => ledger[s].pending.offer.pos <= HeadSeq
  BY <1>1, RowOfInstalled, Zenon
<1>3. CASE AbortSnapshotInstall(s)
  <2> DEFINE l == [ledger[s] EXCEPT !.pending = None]
  <2>1. ledger' = [ledger EXCEPT ![s] = l] /\ UNCHANGED <<receive, row, inbox, pubVars>>
    BY <1>3, Zenon DEF AbortSnapshotInstall
  <2>2. /\ l \in StoredLedger /\ l.pending = None /\ l.gen = ledger[s].gen
        /\ l.active = ledger[s].active /\ l.archived = ledger[s].archived
    BY <1>2, Zenon DEF StoredLedger
  <2> HIDE DEF l
  <2>3. QED BY <1>1, <2>1, <2>2, LedgerSound, Zenon
<1>4. CASE CloseSnapshotReceiver(s)
  <2> DEFINE l == [ledger[s] EXCEPT !.closed = TRUE]
  <2>1. ledger' = [ledger EXCEPT ![s] = l] /\ UNCHANGED <<receive, row, inbox, pubVars>>
    BY <1>4, Zenon DEF CloseSnapshotReceiver
  <2>2. /\ l \in StoredLedger /\ l.pending = ledger[s].pending /\ l.gen = ledger[s].gen
        /\ l.active = ledger[s].active /\ l.archived = ledger[s].archived
    BY <1>2, Zenon DEF StoredLedger
  <2> HIDE DEF l
  <2>3. l.pending # None =>
          /\ l.archived = 0 /\ row[s].start = 0 /\ l.pending.offer.pos <= HeadSeq
          /\ l.pending.received <= l.pending.offer.pos /\ l.active < l.pending.offer.pos
    BY <1>2, <2>2, Zenon DEF RowOk
  <2>4. QED BY <1>1, <2>1, <2>2, <2>3, LedgerSound, Zenon
<1>5. QED BY <1>3, <1>4, Zenon

(* An installation is finished, either way.                                   *)
LEMMA CommitSound ==
  ASSUME StoreOk, NEW s \in Subs, NEW o, NEW g,
         CommitSnapshotAnchor(s, o, g) \/ CommitSnapshotArchive(s, o, g), UNCHANGED pubVars
  PROVE  Sound /\ row'[s] # None /\ Held(s)' = o.pos
<1>1. CommitAllowed(s, o, g)
  BY Zenon DEF CommitSnapshotAnchor, CommitSnapshotArchive
<1>2. /\ row[s] # None /\ ledger[s].pending # None /\ ledger[s].pending.offer = o
      /\ ledger[s].pending.received = row[s].received
  BY <1>1, Zenon DEF CommitAllowed, ReceiveAuthority
<1>3. /\ row[s] \in ReceiverRow /\ ledger[s] \in StoredLedger /\ inbox[s] \in Inbox
      /\ RowOk(row[s], ledger[s]) /\ InboxOk(row[s], ledger[s], inbox[s])
      /\ ledger[s].pending # None => ledger[s].pending.offer.pos <= HeadSeq
  BY <1>2, RowOfInstalled, Zenon
<1>4. o.pos \in Nat /\ 0 \in Nat
  <2>1. ledger[s].pending \in StoredPending
    BY <1>2, <1>3, Zenon DEF StoredLedger
  <2>2. o \in Manifest /\ 0 \in Nat
    BY <1>2, <2>1, Zenon DEF StoredPending
  <2>3. QED BY <2>2, Zenon DEF Manifest
<1>5. PICK act \in Nat, arc \in Nat :
        /\ NewGeneration(s, act, arc)
        /\ \/ act = ledger[s].pending.offer.pos /\ arc = 0
           \/ act = 0 /\ arc = ledger[s].pending.offer.pos
  BY <1>2, <1>4, Zenon DEF CommitSnapshotAnchor, CommitSnapshotArchive
<1> DEFINE r == [row[s] EXCEPT !.received = 0, !.projected = 0, !.retired = 0]
           l == [ledger[s] EXCEPT !.gen = @ + 1, !.active = act, !.archived = arc, !.pending = None]
<1>6. /\ r \in ReceiverRow /\ l \in StoredLedger /\ l.pending = None
      /\ RowOk(r, l) /\ InboxOk(r, l, inbox[s])
      /\ CursorOf(r, l) = o.pos /\ CursorOf(row[s], ledger[s]) <= CursorOf(r, l)
      /\ r.start = row[s].start
  <2>1. /\ act \in Nat /\ arc \in Nat
        /\ \/ act = ledger[s].pending.offer.pos /\ arc = 0
           \/ act = 0 /\ arc = ledger[s].pending.offer.pos
    BY <1>5, Zenon
  <2>2. /\ r \in ReceiverRow /\ r.start = row[s].start
        /\ r.received = 0 /\ r.projected = 0 /\ r.retired = 0
    BY <1>3, <1>4, Zenon DEF ReceiverRow
  <2>3. ledger[s].gen + 1 \in Nat
    BY <1>3 DEF StoredLedger
  <2>4. /\ l \in StoredLedger /\ l.pending = None /\ l.gen = ledger[s].gen + 1
        /\ l.active = act /\ l.archived = arc
    BY <1>3, <2>1, <2>3, Zenon DEF StoredLedger
  <2> HIDE DEF r, l
  <2>5. /\ RowOk(r, l) /\ InboxOk(r, l, inbox[s]) /\ CursorOf(r, l) = ledger[s].pending.offer.pos
        /\ CursorOf(row[s], ledger[s]) <= CursorOf(r, l)
    <3>1. \/ l.active = ledger[s].pending.offer.pos /\ l.archived = 0
          \/ l.active = 0 /\ l.archived = ledger[s].pending.offer.pos
      BY <2>1, <2>4, Zenon
    <3>2. ledger[s].pending # None /\ ledger[s].pending.received = row[s].received
      BY <1>2, Zenon
    <3>3. QED BY <1>3, <2>2, <2>4, <3>1, <3>2, CommitGood
  <2>6. QED BY <1>2, <2>2, <2>4, <2>5, Zenon
<1>7. UNCHANGED <<receive, inbox>>
  BY <1>5, Zenon DEF NewGeneration
<1>8. row' = [row EXCEPT ![s] = r] /\ ledger' = [ledger EXCEPT ![s] = l]
  <2>1. row \in [Subs -> ReceiverRow \cup {None}] /\ ledger \in [Subs -> StoredLedger]
    BY Zenon DEF StoreOk, StoreTypes
  <2>2. /\ row' = [row EXCEPT ![s].received = 0, ![s].projected = 0, ![s].retired = 0]
        /\ ledger' = [ledger EXCEPT ![s].gen = @ + 1, ![s].active = act,
                                    ![s].archived = arc, ![s].pending = None]
    BY <1>5, Zenon DEF NewGeneration
  <2>3. QED BY <2>1, <2>2, Zenon
<1> HIDE DEF r, l
<1>9. inbox' = [inbox EXCEPT ![s] = inbox[s]] /\ DOMAIN inbox[s] \ DOMAIN inbox[s] = {}
  BY <1>7, Facts, Zenon
<1>10. CursorOf(r, l) <= HeadSeq
  BY <1>2, <1>3, <1>6, Zenon
<1>11. Sound
  BY <1>2, <1>3, <1>6, <1>7, <1>8, <1>9, <1>10, ReceivedSound, Zenon
<1>12. row'[s] = r /\ ledger'[s] = l /\ r # None
  BY <1>6, <1>8, ReceiverAssumption, Zenon DEF StoreOk, StoreTypes
<1>13. Held(s)' = o.pos
  BY <1>6, <1>12, Zenon DEF Held, DurableOf
<1>14. QED BY <1>11, <1>12, <1>13, Zenon

(* The application projects the archived state.                               *)
LEMMA BindSound ==
  ASSUME StoreOk, NEW s \in Subs, BindArchivedProjection(s), UNCHANGED pubVars
  PROVE  Sound
<1> DEFINE l == [ledger[s] EXCEPT !.active = ledger[s].archived]
<1>1. /\ row[s] # None /\ ledger[s].pending = None /\ ledger[s].archived # 0 /\ ledger[s].active = 0
      /\ ledger' = [ledger EXCEPT ![s] = l] /\ UNCHANGED <<receive, row, inbox>>
  BY Zenon DEF BindArchivedProjection, ReceiveAuthority
<1>2. /\ row[s] \in ReceiverRow /\ ledger[s] \in StoredLedger /\ inbox[s] \in Inbox
      /\ RowOk(row[s], ledger[s]) /\ InboxOk(row[s], ledger[s], inbox[s])
      /\ Cursor(s) = CursorOf(row[s], ledger[s]) /\ Cursor(s) <= HeadSeq /\ Cursor(s) <= Cursor(s)
  BY <1>1, RowOfInstalled, Zenon
<1>3. /\ l \in StoredLedger /\ RowOk(row[s], l) /\ InboxOk(row[s], l, inbox[s])
      /\ CursorOf(row[s], l) = CursorOf(row[s], ledger[s]) /\ l.pending = None
  BY <1>1, <1>2, BindGood, Zenon
<1> HIDE DEF l
<1>4. /\ inbox' = [inbox EXCEPT ![s] = inbox[s]] /\ DOMAIN inbox[s] \ DOMAIN inbox[s] = {}
      /\ row' = [row EXCEPT ![s] = row[s]]
  BY <1>1, Facts, Zenon
<1>5. CursorOf(row[s], ledger[s]) <= CursorOf(row[s], l) /\ CursorOf(row[s], l) <= HeadSeq
  BY <1>2, <1>3, Zenon
<1>6. QED BY <1>1, <1>2, <1>3, <1>4, <1>5, ReceivedSound, Zenon

----------------------------------------------------------------------------
(* The other transactions: authority, time, the stream and its members.       *)
LEMMA AuthoritySound ==
  ASSUME StoreOk, NEW n \in Nodes, NEW on \in BOOLEAN,
         \/ SetServeAuthority(n, on) /\ UNCHANGED recvVars
         \/ SetReceiveAuthority(n, on) /\ UNCHANGED pubVars
  PROVE  Sound
<1>1. serve[n].rev + 1 \in Nat /\ receive[n].rev + 1 \in Nat
  <2>1. serve[n] \in AuthorityRow /\ receive[n] \in AuthorityRow
    BY Zenon DEF StoreOk, StoreTypes
  <2>2. serve[n].rev \in Nat /\ receive[n].rev \in Nat
    BY <2>1, Zenon DEF AuthorityRow
  <2>3. QED BY <2>2
<1>2. /\ [rev |-> serve[n].rev + 1, on |-> on] \in AuthorityRow
      /\ [rev |-> receive[n].rev + 1, on |-> on] \in AuthorityRow
  BY <1>1, Zenon DEF AuthorityRow
<1>3. StoreTypes
  BY Zenon DEF StoreOk
<1>4. CASE SetServeAuthority(n, on) /\ UNCHANGED recvVars
  <2>1. serve' \in [Nodes -> AuthorityRow]
    BY <1>2, <1>3, <1>4, Zenon DEF SetServeAuthority, StoreTypes
  <2>2. UNCHANGED <<stream, opened, members, offers, receipts, now, receive, row, inbox, ledger>>
    BY <1>4, Zenon DEF SetServeAuthority, recvVars
  <2>3. StoreTypes'
    BY <1>3, <2>1, <2>2, Zenon DEF StoreTypes
  <2>4. QED BY <2>2, <2>3, QuietSound, Zenon
<1>5. CASE SetReceiveAuthority(n, on) /\ UNCHANGED pubVars
  <2>1. receive' \in [Nodes -> AuthorityRow]
    BY <1>2, <1>3, <1>5, Zenon DEF SetReceiveAuthority, StoreTypes
  <2>2. UNCHANGED <<stream, opened, members, offers, receipts, now, serve, row, inbox, ledger>>
    BY <1>5, Zenon DEF SetReceiveAuthority, pubVars
  <2>3. StoreTypes'
    BY <1>3, <2>1, <2>2, Zenon DEF StoreTypes
  <2>4. QED BY <2>2, <2>3, QuietSound, Zenon
<1>6. QED BY <1>4, <1>5, Zenon

(* Time passes.                                                               *)
LEMMA TickSound ==
  ASSUME StoreOk, Tick, UNCHANGED recvVars
  PROVE  Sound
<1>1. StoreTypes /\ now \in Nat
  BY Zenon DEF StoreOk, StoreTypes
<1>2. now + 1 \in Nat
  BY <1>1
<1>3. UNCHANGED <<stream, opened, members, offers, receipts, serve, receive, row, inbox, ledger>>
  BY Zenon DEF Tick, recvVars
<1>4. StoreTypes'
  BY <1>1, <1>2, <1>3, Zenon DEF StoreTypes, Tick
<1>5. QED BY <1>3, <1>4, QuietSound, Zenon

(* A transaction on the stream and its members.                               *)
LEMMA HistorySound ==
  ASSUME StoreOk, UNCHANGED <<serve, opened, offers, receipts, now, recvVars>>,
         stream' \in StreamRow, members' \in [Nodes -> MemberRow \cup {None}],
         StreamOk', HeadSeq <= HeadSeq', \A n \in Nodes : MemberOk(n)', LogStep
  PROVE  Sound
<1>1. /\ serve' = serve /\ opened' = opened /\ offers' = offers /\ receipts' = receipts
      /\ now' = now /\ receive' = receive /\ row' = row /\ inbox' = inbox /\ ledger' = ledger
  BY Zenon DEF recvVars
<1>2. StoreTypes /\ StoreTypes'
  BY <1>1, Zenon DEF StoreOk, StoreTypes
<1>3. HeadSeq' \in Nat
  <2>1. stream'.log \in Seq(PublishKeys)
    BY Zenon DEF StreamRow
  <2>2. QED BY <2>1 DEF HeadSeq
<1>4. ASSUME NEW s \in Subs PROVE SubOk(s)' /\ Keeps(s) /\ LeavesOk(s)
  <2>1. Held(s) \in Nat /\ Held(s)' = Held(s)
    BY <1>1, <1>2, SubTyped, Zenon DEF Held
  <2>2. /\ Typed(opened[s], receipts[s], offers[s], row[s], ledger[s], inbox[s], HeadSeq)
        /\ Good(opened[s], receipts[s], offers[s], row[s], ledger[s], inbox[s], HeadSeq)
    BY Facts, Zenon
  <2>3. Good(opened[s], receipts[s], offers[s], row[s], ledger[s], inbox[s], HeadSeq')
    BY <1>3, <2>2, HeadGood, Zenon
  <2>4. SubOk(s)'
    BY <1>1, <2>3, Zenon DEF SubOk
  <2>5. Keeps(s)
    BY <1>1, <2>1, Leq, Zenon DEF Keeps
  <2>6. QED BY <1>1, <2>4, <2>5, Zenon DEF LeavesOk
<1>5. StoreOk'
  BY <1>2, <1>4, Zenon DEF StoreOk
<1>6. Grows
  BY <1>4, Zenon DEF Grows
<1>7. QED BY <1>4, <1>5, <1>6, Zenon DEF Sound

(* Members stay covered while the anchor and the members stay.                *)
LEMMA MembersKept ==
  ASSUME StoreOk, UNCHANGED <<opened, recvVars>>, NEW n \in Nodes,
         stream'.min = stream.min, members'[n] = members[n]
  PROVE  MemberOk(n)'
<1>1. MemberOk(n) /\ opened' = opened /\ row' = row /\ ledger' = ledger
  BY Zenon DEF StoreOk, recvVars
<1>2. QED BY <1>1, Zenon DEF MemberOk, Held

(* A sequence with one element appended.                                      *)
LEMMA AppendShape ==
  ASSUME NEW S, NEW q \in Seq(S), NEW x \in S
  PROVE  /\ Append(q, x) \in Seq(S) /\ Len(q) \in Nat /\ Len(Append(q, x)) = Len(q) + 1
         /\ DOMAIN Append(q, x) = DOMAIN q \cup {Len(q) + 1}
         /\ \A n \in DOMAIN q : Append(q, x)[n] = q[n]
         /\ Append(q, x)[Len(q) + 1] = x
OBVIOUS

(* The publish request table with a row inserted, and with rows dropped.      *)
LEMMA RequestsShape ==
  ASSUME NEW f \in UNION {[ks -> Nat] : ks \in SUBSET PublishKeys}
  PROVE  /\ \A k \in PublishKeys, v \in Nat :
              With(f, k, v) \in UNION {[ks -> Nat] : ks \in SUBSET PublishKeys}
         /\ \A ks \in SUBSET DOMAIN f :
              [k \in DOMAIN f \ ks |-> f[k]] \in UNION {[js -> Nat] : js \in SUBSET PublishKeys}
<1>1. PICK S \in SUBSET PublishKeys : f \in [S -> Nat]
  BY Zenon
<1>2. ASSUME NEW k \in PublishKeys, NEW v \in Nat
      PROVE  With(f, k, v) \in UNION {[ks -> Nat] : ks \in SUBSET PublishKeys}
  <2>1. With(f, k, v) \in [S \cup {k} -> Nat]
    BY <1>1, Zenon DEF With
  <2>2. S \cup {k} \in SUBSET PublishKeys
    BY Zenon
  <2>3. QED BY <2>1, <2>2, Zenon
<1>3. ASSUME NEW ks \in SUBSET DOMAIN f
      PROVE  [k \in DOMAIN f \ ks |-> f[k]] \in UNION {[js -> Nat] : js \in SUBSET PublishKeys}
  <2>1. [k \in DOMAIN f \ ks |-> f[k]] \in [S \ ks -> Nat] /\ S \ ks \in SUBSET PublishKeys
    BY <1>1, Zenon
  <2>2. QED BY <2>1, Zenon
<1>4. QED BY <1>2, <1>3, Zenon

(* A record is appended under a new identity of the open epoch.               *)
LEMMA AppendSound ==
  ASSUME StoreOk, NEW e, NEW id \in PublishIds, AppendPublished(e, id), UNCHANGED recvVars
  PROVE  Sound
<1> DEFINE key == [epoch |-> e, id |-> id]
           seq == HeadSeq + 1
<1>1. /\ e = stream.epoch /\ key \notin DOMAIN stream.ids
      /\ stream' = [stream EXCEPT !.log = Append(@, key), !.rows = @ \cup {seq},
                                  !.ids = With(@, key, seq)]
      /\ UNCHANGED <<serve, opened, members, offers, receipts, now>>
  BY Zenon DEF AppendPublished
<1>2. /\ stream \in StreamRow /\ stream.log \in Seq(PublishKeys) /\ HeadSeq \in Nat
      /\ stream.min \in Nat /\ stream.epoch \in 1..MaxEpoch /\ stream.rows \subseteq Nat
      /\ stream.min <= HeadSeq + 1 /\ StreamOk
  BY StreamShape, Zenon DEF StoreOk, StoreTypes, StreamOk
<1>3. key \in PublishKeys /\ key.epoch = stream.epoch
  BY <1>1, <1>2, Zenon DEF PublishKeys
<1>4. seq \in Nat /\ HeadSeq <= seq /\ stream.min <= seq + 1
  BY <1>2
<1> HIDE DEF key, seq
<1>5. /\ stream'.log = Append(stream.log, key) /\ stream'.rows = stream.rows \cup {seq}
      /\ stream'.ids = With(stream.ids, key, seq) /\ stream'.min = stream.min
      /\ stream'.epoch = stream.epoch
  BY <1>1, <1>2, Zenon DEF StreamRow
<1>6. /\ Append(stream.log, key) \in Seq(PublishKeys) /\ HeadSeq' = seq
      /\ DOMAIN Append(stream.log, key) = DOMAIN stream.log \cup {seq}
      /\ \A n \in DOMAIN stream.log : Append(stream.log, key)[n] = stream.log[n]
      /\ Append(stream.log, key)[seq] = key
  <2>1. /\ Append(stream.log, key) \in Seq(PublishKeys)
        /\ Len(Append(stream.log, key)) = Len(stream.log) + 1
        /\ DOMAIN Append(stream.log, key) = DOMAIN stream.log \cup {Len(stream.log) + 1}
        /\ \A n \in DOMAIN stream.log : Append(stream.log, key)[n] = stream.log[n]
        /\ Append(stream.log, key)[Len(stream.log) + 1] = key
    BY <1>2, <1>3, AppendShape
  <2>2. seq = Len(stream.log) + 1
    BY Zenon DEF HeadSeq, seq
  <2>3. HeadSeq' = Len(Append(stream.log, key))
    BY <1>5, Zenon DEF HeadSeq
  <2>4. QED BY <2>1, <2>2, <2>3, Zenon
<1>7. stream' \in StreamRow
  <2>1. With(stream.ids, key, seq) \in UNION {[ks -> Nat] : ks \in SUBSET PublishKeys}
    BY <1>2, <1>3, <1>4, RequestsShape, Zenon DEF StreamRow
  <2>2. stream.rows \cup {seq} \in SUBSET Nat
    BY <1>2, <1>4, Zenon
  <2>3. QED BY <1>1, <1>2, <1>6, <2>1, <2>2, Zenon DEF StreamRow
<1>8. StreamOk'
  <2>1. ASSUME NEW q \in Nat
        PROVE  q \in stream'.rows <=> stream'.min <= q /\ q <= HeadSeq'
    <3>1. q \in stream.rows <=> stream.min <= q /\ q <= HeadSeq
      BY <1>2, Zenon DEF StreamOk
    <3>2. q \in stream'.rows <=> q \in stream.rows \/ q = seq
      BY <1>5, Zenon
    <3>3. QED BY <1>2, <1>5, <1>6, <3>1, <3>2 DEF seq
  <2>2. ASSUME NEW n \in DOMAIN stream'.log
        PROVE  /\ stream'.log[n].epoch <= stream'.epoch
               /\ stream'.log[n].epoch = stream'.epoch => stream'.log[n] \in DOMAIN stream'.ids
    <3>1. DOMAIN stream'.ids = DOMAIN stream.ids \cup {key}
      BY <1>5, Zenon DEF With
    <3>2. CASE n \in DOMAIN stream.log
      <4>1. stream'.log[n] = stream.log[n]
        BY <1>5, <1>6, <3>2, Zenon
      <4>2. /\ stream.log[n].epoch <= stream.epoch
            /\ stream.log[n].epoch = stream.epoch => stream.log[n] \in DOMAIN stream.ids
        BY <1>2, <3>2, Zenon DEF StreamOk
      <4>3. QED BY <1>5, <3>1, <4>1, <4>2, Zenon
    <3>3. CASE n = seq
      <4>1. stream'.log[n] = key
        BY <1>5, <1>6, <3>3, Zenon
      <4>2. stream.epoch <= stream.epoch
        BY <1>2, PublisherAssumption
      <4>3. QED BY <1>3, <1>5, <3>1, <4>1, <4>2, Zenon
    <3>4. QED BY <1>5, <1>6, <3>2, <3>3, Zenon
  <2>3. stream'.min <= HeadSeq' + 1
    BY <1>4, <1>5, <1>6, Zenon
  <2>4. QED BY <2>1, <2>2, <2>3, Zenon DEF StreamOk
<1>9. LogStep
  <2>1. \A n \in DOMAIN stream.log : stream.log[n] # key
    BY <1>1, <1>2, <1>3, Zenon DEF StreamOk, key
  <2>2. [x \in Subs |-> Durable(x)]' = [x \in Subs |-> Durable(x)]
    BY <1>1, Zenon DEF Durable, Cursor, Base, Baseline, recvVars
  <2>3. {members[n].sub : n \in ActiveMembers}' = {members[n].sub : n \in ActiveMembers}
    BY <1>1, Zenon DEF ActiveMembers
  <2>4. Log!Publish(key)
    BY <1>5, <2>1, <2>2, <2>3, Zenon DEF Log!Publish
  <2>5. QED BY <1>3, <2>4, Zenon DEF LogStep, Log!LogNext
<1>10. \A n \in Nodes : MemberOk(n)'
  BY <1>1, <1>5, MembersKept, Zenon
<1>11. members' \in [Nodes -> MemberRow \cup {None}]
  BY <1>1, Zenon DEF StoreOk, StoreTypes
<1>12. QED BY <1>1, <1>4, <1>6, <1>7, <1>8, <1>9, <1>10, <1>11, HistorySound, Zenon

(* Commitments are let go and history is trimmed, both at most as far as the  *)
(* active members durably are.                                                *)
LEMMA ReleaseSound ==
  ASSUME StoreOk, UNCHANGED <<serve, opened, offers, receipts, now, recvVars>>,
         stream' \in StreamRow, members' \in [Nodes -> MemberRow \cup {None}],
         StreamOk', stream'.log = stream.log, stream.min <= stream'.min,
         \A n \in Nodes : members'[n] # None =>
           /\ members[n] # None /\ members'[n].sub = members[n].sub
           /\ ~members'[n].retired => /\ ~members[n].retired
                                      /\ stream'.min <= Held(members[n].sub) + 1
  PROVE  Sound
<1>1. opened' = opened /\ row' = row /\ ledger' = ledger
  BY Zenon DEF recvVars
<1>2. HeadSeq' = HeadSeq /\ HeadSeq \in Nat /\ stream.min \in Nat /\ stream'.min \in Nat
  BY StreamShape, Zenon DEF StoreOk, HeadSeq, StreamRow
<1>3. ASSUME NEW n \in Nodes PROVE MemberOk(n)'
  <2>1. MemberOk(n)
    BY Zenon DEF StoreOk
  <2>2. QED BY <1>1, <2>1, Zenon DEF MemberOk, Held
<1>4. LogStep
  <2> DEFINE owed == {members[n].sub : n \in ActiveMembers}
             cursor == [x \in Subs |-> Durable(x)]
  <2>1. cursor' = cursor
    BY <1>1, Zenon DEF Durable, Cursor, Base, Baseline
  <2>2. ASSUME NEW s \in owed'
        PROVE  s \in owed /\ stream'.min <= cursor[s] + 1
    <3>1. PICK n \in Nodes : members'[n] # None /\ ~members'[n].retired /\ s = members'[n].sub
      BY <2>2, Zenon DEF ActiveMembers
    <3>2. /\ members[n] # None /\ ~members[n].retired /\ s = members[n].sub
          /\ stream'.min <= Held(members[n].sub) + 1
      BY <3>1, Zenon
    <3>3. members[n] \in MemberRow
      BY <3>2, Zenon DEF StoreOk, StoreTypes
    <3>4. s \in Subs
      BY <3>2, <3>3, Zenon DEF MemberRow
    <3>5. cursor[s] = Held(s)
      BY <3>4, DurableIs, Zenon
    <3>6. s \in owed
      BY <3>1, <3>2, Zenon DEF ActiveMembers
    <3>7. QED BY <3>2, <3>5, <3>6, Zenon
  <2>3. stream'.min \in stream.min .. Len(stream.log) + 1
    <3>1. stream'.min <= HeadSeq + 1
      BY <1>2, Zenon DEF StreamOk
    <3>2. QED BY <1>2, <3>1 DEF HeadSeq
  <2>4. Log!ReleaseAndTrim
    BY <2>1, <2>2, <2>3, Zenon DEF Log!ReleaseAndTrim
  <2>5. QED BY <2>4, Zenon DEF LogStep, Log!LogNext
<1>5. HeadSeq <= HeadSeq'
  BY <1>2, Leq, Zenon
<1>6. QED BY <1>3, <1>4, <1>5, HistorySound, Zenon

(* What active members have durably, when the anchor stays.                   *)
LEMMA MemberCovered ==
  ASSUME StoreOk, NEW n \in Nodes, members[n] # None, ~members[n].retired
  PROVE  stream.min <= Held(members[n].sub) + 1
BY Zenon DEF StoreOk, MemberOk

(* An epoch is closed, and request rows of closed epochs are dropped.         *)
LEMMA IdentitiesSound ==
  ASSUME StoreOk, CloseEpoch \/ \E keys \in SUBSET DOMAIN stream.ids : RetireIdentities(keys),
         UNCHANGED recvVars
  PROVE  Sound
<1>1. /\ stream \in StreamRow /\ StreamOk /\ stream.min \in Nat /\ stream.epoch \in 1..MaxEpoch
      /\ stream.log \in Seq(PublishKeys) /\ HeadSeq \in Nat /\ DOMAIN stream.log = 1..HeadSeq
      /\ members \in [Nodes -> MemberRow \cup {None}]
  BY StreamShape, Zenon DEF StoreOk, StoreTypes
<1> DEFINE Kept ==
        /\ stream' \in StreamRow /\ stream'.log = stream.log /\ stream'.min = stream.min
        /\ stream'.rows = stream.rows /\ UNCHANGED <<serve, opened, members, offers, receipts, now>>
        /\ \A n \in DOMAIN stream.log :
             /\ stream.log[n].epoch <= stream'.epoch
             /\ stream.log[n].epoch = stream'.epoch => stream.log[n] \in DOMAIN stream'.ids
<1>2. Kept
  <2>1. CASE CloseEpoch
    <3>1. /\ stream' = [stream EXCEPT !.epoch = stream.epoch + 1] /\ stream.epoch < MaxEpoch
          /\ UNCHANGED <<serve, opened, members, offers, receipts, now>>
      BY <2>1, Zenon DEF CloseEpoch
    <3>2. stream.epoch + 1 \in 1..MaxEpoch
      BY <1>1, <3>1, PublisherAssumption
    <3>3. /\ stream' \in StreamRow /\ stream'.log = stream.log /\ stream'.min = stream.min
          /\ stream'.rows = stream.rows /\ stream'.epoch = stream.epoch + 1
      BY <1>1, <3>1, <3>2, Zenon DEF StreamRow
    <3>4. ASSUME NEW n \in DOMAIN stream.log
          PROVE  stream.log[n].epoch <= stream.epoch + 1 /\ stream.log[n].epoch # stream.epoch + 1
      <4>1. stream.log[n] \in PublishKeys
        BY <1>1
      <4>2. stream.log[n].epoch \in 1..MaxEpoch
        BY <4>1, Zenon DEF PublishKeys
      <4>3. stream.log[n].epoch <= stream.epoch
        BY <1>1, Zenon DEF StreamOk
      <4>4. QED BY <1>1, <4>2, <4>3, PublisherAssumption
    <3>5. QED BY <3>1, <3>3, <3>4, Zenon
  <2>2. ASSUME NEW keys \in SUBSET DOMAIN stream.ids, RetireIdentities(keys)
        PROVE  Kept
    <3> DEFINE left == [k \in DOMAIN stream.ids \ keys |-> stream.ids[k]]
    <3>1. /\ stream' = [stream EXCEPT !.ids = left] /\ \A k \in keys : k.epoch < stream.epoch
          /\ UNCHANGED <<serve, opened, members, offers, receipts, now>>
      BY <2>2, Zenon DEF RetireIdentities
    <3>2. left \in UNION {[ks -> Nat] : ks \in SUBSET PublishKeys}
      BY <1>1, RequestsShape, Zenon DEF StreamRow
    <3>3. DOMAIN left = DOMAIN stream.ids \ keys
      BY Zenon
    <3> HIDE DEF left
    <3>4. /\ stream' \in StreamRow /\ stream'.log = stream.log /\ stream'.min = stream.min
          /\ stream'.rows = stream.rows /\ stream'.epoch = stream.epoch /\ stream'.ids = left
      BY <1>1, <3>1, <3>2, Zenon DEF StreamRow
    <3>5. ASSUME NEW n \in DOMAIN stream.log, stream.log[n].epoch = stream.epoch
          PROVE  stream.log[n] \notin keys
      <4>1. ~(stream.epoch < stream.epoch)
        BY <1>1, PublisherAssumption
      <4>2. QED BY <3>1, <3>5, <4>1, Zenon
    <3>6. QED BY <1>1, <3>1, <3>3, <3>4, <3>5, Zenon DEF StreamOk
  <2>3. QED BY <2>1, <2>2, Zenon
<1>3. StreamOk'
  BY <1>1, <1>2, Zenon DEF StreamOk, HeadSeq
<1>4. stream.min <= stream'.min
  BY <1>1, <1>2, Leq, Zenon
<1>5. \A n \in Nodes : members'[n] # None =>
        /\ members[n] # None /\ members'[n].sub = members[n].sub
        /\ ~members'[n].retired => /\ ~members[n].retired
                                   /\ stream'.min <= Held(members[n].sub) + 1
  BY <1>2, MemberCovered, Zenon
<1>6. members' \in [Nodes -> MemberRow \cup {None}]
  BY <1>1, <1>2, Zenon
<1>7. QED BY <1>2, <1>3, <1>4, <1>5, <1>6, ReleaseSound, Zenon

(* What the publisher counts as confirmed is durable.                         *)
LEMMA ConfirmedHeld ==
  ASSUME StoreOk, NEW s \in Subs, opened[s] # None
  PROVE  Confirmed(s) \in Nat /\ Confirmed(s) <= Held(s)
<1>1. /\ opened[s] \in PublisherRow /\ opened[s].ack <= Held(s) /\ opened[s].start <= Held(s)
      /\ receipts[s] \in StoredReceived \cup {None}
      /\ receipts[s] # None => receipts[s].through <= Held(s)
  BY RowOfOpened, Zenon
<1>2. Held(s) \in Nat
  BY Facts, Zenon
<1>3. opened[s].ack \in Nat /\ opened[s].start \in Nat
  BY <1>1, Zenon DEF PublisherRow
<1>4. Covered(s) \in Nat /\ Covered(s) <= Held(s)
  <2>1. CASE receipts[s] = None
    BY <1>2, <2>1, Leq, Zenon DEF Covered
  <2>2. CASE receipts[s] # None
    <3>1. receipts[s].through \in Nat
      BY <1>1, <2>2, Zenon DEF StoredReceived
    <3>2. QED BY <1>1, <2>2, <3>1, Zenon DEF Covered
  <2>3. QED BY <2>1, <2>2, Zenon
<1>5. QED BY <1>1, <1>3, <1>4, Zenon DEF Confirmed, Later

(* A replica joins where history still covers it.                             *)
LEMMA JoinSound ==
  ASSUME StoreOk, NEW s \in Subs, NEW until \in Nat, JoinReplica(s, until), UNCHANGED recvVars
  PROVE  Sound
<1> DEFINE n == Subscriber[s]
           m == [sub |-> s, until |-> until, retired |-> FALSE]
<1>1. /\ members[n] # None => members[n].retired
      /\ Confirmed(s) >= stream.min - 1 /\ opened[s] # None
      /\ members' = [members EXCEPT ![n] = m]
      /\ UNCHANGED <<stream, serve, opened, offers, receipts, now>>
  BY Zenon DEF JoinReplica, Serving, ServeAuthority
<1>2. m \in MemberRow /\ n \in Nodes
  BY SubscriberAssumption, Zenon DEF MemberRow
<1>3. m # None /\ m.sub = s /\ ~m.retired
  BY <1>2, PublisherAssumption, Zenon
<1> HIDE DEF n, m
<1>4. members \in [Nodes -> MemberRow \cup {None}] /\ stream \in StreamRow /\ StreamOk
  BY Zenon DEF StoreOk, StoreTypes
<1>5. members' \in [Nodes -> MemberRow \cup {None}]
  BY <1>1, <1>2, <1>4, Zenon
<1>6. members'[n] = m /\ \A x \in Nodes : x # n => members'[x] = members[x]
  BY <1>1, <1>2, <1>4, Zenon
<1>7. stream.min \in Nat /\ HeadSeq \in Nat /\ HeadSeq <= HeadSeq /\ Held(s) \in Nat
  BY StreamShape, Facts, Leq, Zenon DEF StoreOk
<1>8. stream.min <= Held(s) + 1
  <2>1. Confirmed(s) \in Nat /\ Confirmed(s) <= Held(s)
    BY <1>1, ConfirmedHeld, Zenon
  <2>2. QED BY <1>1, <1>7, <2>1
<1>9. opened' = opened /\ row' = row /\ ledger' = ledger /\ stream' = stream
  BY <1>1, Zenon DEF recvVars
<1>10. ASSUME NEW x \in Nodes PROVE MemberOk(x)'
  <2>1. CASE x = n
    BY <1>1, <1>3, <1>6, <1>8, <1>9, <2>1, Zenon DEF MemberOk, Held
  <2>2. CASE x # n
    <3>1. members'[x] = members[x] /\ stream'.min = stream.min
      BY <1>6, <1>9, <2>2, Zenon
    <3>2. QED BY <1>9, <3>1, MembersKept, Zenon
  <2>3. QED BY <2>1, <2>2, Zenon
<1>11. LogStep
  <2> DEFINE owed == {members[x].sub : x \in ActiveMembers}
             cursor == [x \in Subs |-> Durable(x)]
  <2>1. cursor' = cursor
    BY <1>9, Zenon DEF Durable, Cursor, Base, Baseline
  <2>2. cursor[s] = Held(s)
    BY DurableIs, Zenon
  <2>3. cursor[s] + 1 >= stream.min
    BY <1>7, <1>8, <2>2, Zenon
  <2>4. ActiveMembers' = ActiveMembers \cup {n}
    BY <1>2, <1>3, <1>6, Zenon DEF ActiveMembers
  <2>5. n \notin ActiveMembers
    BY <1>1, Zenon DEF ActiveMembers
  <2>6. \A x \in ActiveMembers : members'[x] = members[x]
    BY <1>6, <2>5, Zenon DEF ActiveMembers
  <2>7. owed' = owed \cup {s}
    <3>1. owed' = {members'[x].sub : x \in ActiveMembers'}
      BY Zenon
    <3>2. \A x \in ActiveMembers' : \/ x \in ActiveMembers /\ members'[x] = members[x]
                                    \/ members'[x].sub = s
      BY <1>3, <1>6, <2>4, <2>6, Zenon
    <3>3. owed' \subseteq owed \cup {s}
      BY <3>1, <3>2, Zenon
    <3>4. owed \cup {s} \subseteq owed'
      BY <1>3, <1>6, <2>4, <2>6, <3>1, Zenon
    <3>5. QED BY <3>3, <3>4, Zenon
  <2>8. stream'.log = stream.log /\ stream'.min = stream.min
    BY <1>9, Zenon
  <2>9. Log!Owe(s)
    BY <2>1, <2>3, <2>7, <2>8, Zenon DEF Log!Owe
  <2>10. QED BY <2>9, Zenon DEF LogStep, Log!LogNext
<1>12. stream' \in StreamRow /\ StreamOk' /\ HeadSeq <= HeadSeq'
  BY <1>4, <1>7, <1>9, Zenon DEF StreamOk, HeadSeq
<1>13. UNCHANGED <<serve, opened, offers, receipts, now, recvVars>>
  BY <1>1, Zenon
<1>14. QED BY <1>5, <1>10, <1>11, <1>12, <1>13, HistorySound, Zenon

(* A replica's term changes, or it leaves.                                    *)
LEMMA TermSound ==
  ASSUME StoreOk, NEW n \in Nodes, NEW until \in Nat, ExtendReplica(n, until) \/ RetireReplica(n),
         UNCHANGED recvVars
  PROVE  Sound
<1>1. /\ stream \in StreamRow /\ StreamOk /\ members \in [Nodes -> MemberRow \cup {None}]
      /\ stream.min \in Nat
  BY StreamShape, Zenon DEF StoreOk, StoreTypes
<1>2. members[n] # None /\ ~members[n].retired /\ members[n] \in MemberRow
  BY <1>1, Zenon DEF ExtendReplica, RetireReplica, ActiveMembers
<1>3. UNCHANGED <<stream, serve, opened, offers, receipts, now>>
  BY Zenon DEF ExtendReplica, RetireReplica
<1>4. PICK m \in MemberRow : members' = [members EXCEPT ![n] = m] /\ m.sub = members[n].sub
  <2>1. CASE ExtendReplica(n, until)
    <3>1. members' = [members EXCEPT ![n] = [members[n] EXCEPT !.until = until]]
      BY <2>1, Zenon DEF ExtendReplica
    <3>2. /\ [members[n] EXCEPT !.until = until] \in MemberRow
          /\ [members[n] EXCEPT !.until = until].sub = members[n].sub
      BY <1>2, Zenon DEF MemberRow
    <3>3. QED BY <3>1, <3>2, Zenon
  <2>2. CASE RetireReplica(n)
    <3>1. members' = [members EXCEPT ![n] = [members[n] EXCEPT !.retired = TRUE]]
      BY <2>2, Zenon DEF RetireReplica
    <3>2. /\ [members[n] EXCEPT !.retired = TRUE] \in MemberRow
          /\ [members[n] EXCEPT !.retired = TRUE].sub = members[n].sub
      BY <1>2, Zenon DEF MemberRow
    <3>3. QED BY <3>1, <3>2, Zenon
  <2>3. QED BY <2>1, <2>2, Zenon
<1>5. members'[n] = m /\ \A x \in Nodes : x # n => members'[x] = members[x]
  BY <1>1, <1>4, Zenon
<1>6. members' \in [Nodes -> MemberRow \cup {None}]
  BY <1>1, <1>4, Zenon
<1>7. stream' \in StreamRow /\ StreamOk' /\ stream'.log = stream.log /\ stream'.min = stream.min
  BY <1>1, <1>3, Zenon DEF StreamOk, HeadSeq
<1>8. ASSUME NEW x \in Nodes, members'[x] # None
      PROVE  /\ members[x] # None /\ members'[x].sub = members[x].sub
             /\ ~members'[x].retired => /\ ~members[x].retired
                                        /\ stream'.min <= Held(members[x].sub) + 1
  <2>1. CASE x = n
    BY <1>2, <1>4, <1>5, <1>7, <2>1, MemberCovered, Zenon
  <2>2. CASE x # n
    BY <1>5, <1>7, <1>8, <2>2, MemberCovered, Zenon
  <2>3. QED BY <2>1, <2>2, Zenon
<1>9. stream.min <= stream'.min
  BY <1>1, <1>7, Leq, Zenon
<1>10. UNCHANGED <<serve, opened, offers, receipts, now, recvVars>>
  BY <1>3, Zenon
<1>11. QED BY <1>6, <1>7, <1>8, <1>9, <1>10, ReleaseSound, Zenon

(* The stream after trimming through `last`.                                  *)
LEMMA TrimmedShape ==
  ASSUME StoreOk, NEW last \in Nat, stream.min <= last, last <= HeadSeq, stream' = Trimmed(last)
  PROVE  /\ stream' \in StreamRow /\ StreamOk' /\ stream'.log = stream.log
         /\ stream'.min = last + 1 /\ stream.min <= stream'.min
<1>1. /\ stream \in StreamRow /\ StreamOk /\ stream.min \in Nat /\ HeadSeq \in Nat
      /\ stream.rows \subseteq Nat
  BY StreamShape, Zenon DEF StoreOk, StoreTypes
<1> DEFINE rows == {q \in stream.rows : q > last}
           min == last + 1
<1>2. rows \in SUBSET Nat
  BY <1>1, Zenon
<1>3. min \in Nat \ {0} /\ stream.min <= min /\ min <= HeadSeq + 1
  BY <1>1
<1>4. stream' = [stream EXCEPT !.rows = rows, !.min = min]
  BY Zenon DEF Trimmed
<1>5. ASSUME NEW q \in Nat PROVE q \in rows <=> min <= q /\ q <= HeadSeq
  <2>1. q \in stream.rows <=> stream.min <= q /\ q <= HeadSeq
    BY <1>1, Zenon DEF StreamOk
  <2>2. q \in rows <=> q \in stream.rows /\ q > last
    BY Zenon
  <2>3. QED BY <1>1, <2>1, <2>2
<1> HIDE DEF rows, min
<1>6. /\ stream' \in StreamRow /\ stream'.log = stream.log /\ stream'.min = min
      /\ stream'.rows = rows /\ stream'.epoch = stream.epoch /\ stream'.ids = stream.ids
  BY <1>1, <1>2, <1>3, <1>4, Zenon DEF StreamRow
<1>7. HeadSeq' = HeadSeq
  BY <1>6, Zenon DEF HeadSeq
<1>8. StreamOk'
  BY <1>1, <1>3, <1>5, <1>6, <1>7, Zenon DEF StreamOk
<1>9. QED BY <1>3, <1>6, <1>8, Zenon DEF min

(* Trimming stays behind what the remaining members confirmed.                *)
LEMMA TrimCovered ==
  ASSUME StoreOk, NEW active, active \subseteq ActiveMembers, NEW last \in Nat,
         TrimAllowed(active, last), NEW n \in active
  PROVE  last + 1 <= Held(members[n].sub) + 1
<1>1. n \in Nodes /\ members[n] # None /\ last <= Confirmed(members[n].sub)
  BY Zenon DEF ActiveMembers, TrimAllowed
<1>2. members[n] \in MemberRow
  BY <1>1, Zenon DEF StoreOk, StoreTypes
<1>3. members[n].sub \in Subs /\ opened[members[n].sub] # None
  BY <1>1, <1>2, Zenon DEF StoreOk, MemberOk, MemberRow
<1>4. /\ Confirmed(members[n].sub) \in Nat /\ Confirmed(members[n].sub) <= Held(members[n].sub)
      /\ Held(members[n].sub) \in Nat
  BY <1>3, ConfirmedHeld, Facts, Zenon
<1>5. QED BY <1>1, <1>4

(* The operator trims history.                                                *)
LEMMA TrimSound ==
  ASSUME StoreOk, NEW last \in Nat, RetireHistory(last), UNCHANGED recvVars
  PROVE  Sound
<1>1. /\ TrimAllowed(ActiveMembers, last) /\ stream' = Trimmed(last)
      /\ stream.min <= last /\ last <= HeadSeq
      /\ UNCHANGED <<serve, opened, members, offers, receipts, now>>
  BY Zenon DEF RetireHistory, TrimAllowed
<1>2. /\ stream' \in StreamRow /\ StreamOk' /\ stream'.log = stream.log
      /\ stream'.min = last + 1 /\ stream.min <= stream'.min
  BY <1>1, TrimmedShape, Zenon
<1>3. ASSUME NEW n \in Nodes, members'[n] # None
      PROVE  /\ members[n] # None /\ members'[n].sub = members[n].sub
             /\ ~members'[n].retired => /\ ~members[n].retired
                                        /\ stream'.min <= Held(members[n].sub) + 1
  <2>1. members'[n] = members[n] /\ members[n] # None
    BY <1>1, <1>3, Zenon
  <2>2. ASSUME ~members[n].retired PROVE stream'.min <= Held(members[n].sub) + 1
    <3>1. n \in ActiveMembers /\ ActiveMembers \subseteq ActiveMembers
      BY <2>1, <2>2, Zenon DEF ActiveMembers
    <3>2. QED BY <1>1, <1>2, <3>1, TrimCovered, Zenon
  <2>3. QED BY <2>1, <2>2, Zenon
<1>4. members' \in [Nodes -> MemberRow \cup {None}]
  BY <1>1, Zenon DEF StoreOk, StoreTypes
<1>5. QED BY <1>1, <1>2, <1>3, <1>4, ReleaseSound, Zenon

(* Maintenance ends expired leases and trims in one transaction.              *)
LEMMA MaintainSound ==
  ASSUME StoreOk, RetireSafeHistory, UNCHANGED recvVars
  PROVE  Sound
<1> DEFINE active == ActiveMembers \ Expired
<1>1. /\ members' = [n \in Nodes |-> IF n \in Expired
                                     THEN [members[n] EXCEPT !.retired = TRUE] ELSE members[n]]
      /\ \/ UNCHANGED stream
         \/ \E last \in 1..HeadSeq : TrimAllowed(active, last) /\ stream' = Trimmed(last)
      /\ UNCHANGED <<serve, opened, offers, receipts, now>>
  BY Zenon DEF RetireSafeHistory
<1>2. /\ stream \in StreamRow /\ StreamOk /\ members \in [Nodes -> MemberRow \cup {None}]
      /\ stream.min \in Nat /\ HeadSeq \in Nat
  BY StreamShape, Zenon DEF StoreOk, StoreTypes
<1>3. ASSUME NEW n \in Expired
      PROVE  /\ n \in Nodes /\ members[n] # None /\ members'[n] \in MemberRow
             /\ members'[n].sub = members[n].sub /\ members'[n].retired
  <2>1. n \in Nodes /\ members[n] \in MemberRow /\ members[n] # None
    BY <1>2, Zenon DEF Expired, ActiveMembers
  <2>2. members'[n] = [members[n] EXCEPT !.retired = TRUE]
    BY <1>1, <2>1, Zenon
  <2>3. QED BY <2>1, <2>2, Zenon DEF MemberRow
<1>4. \A n \in Nodes : n \notin Expired => members'[n] = members[n]
  BY <1>1, Zenon
<1>5. members' \in [Nodes -> MemberRow \cup {None}]
  <2>1. \A n \in Nodes : members'[n] \in MemberRow \cup {None}
    BY <1>2, <1>3, <1>4, Zenon
  <2>2. members' = [n \in Nodes |-> members'[n]]
    BY <1>1, Zenon
  <2>3. QED BY <2>1, <2>2, Zenon
<1> DEFINE Moved ==
        /\ stream' \in StreamRow /\ StreamOk' /\ stream'.log = stream.log
        /\ stream.min <= stream'.min
        /\ \A n \in active : stream'.min <= Held(members[n].sub) + 1
<1>6. Moved
  <2>1. CASE UNCHANGED stream
    <3>1. \A n \in active : n \in Nodes /\ members[n] # None /\ ~members[n].retired
      BY Zenon DEF ActiveMembers
    <3>2. QED BY <1>2, <2>1, <3>1, Leq, MemberCovered, Zenon DEF StreamOk, HeadSeq
  <2>2. ASSUME NEW last \in 1..HeadSeq, TrimAllowed(active, last), stream' = Trimmed(last)
        PROVE  Moved
    <3>1. last \in Nat
      BY <1>2
    <3>2. stream.min <= last /\ last <= HeadSeq
      BY <2>2, Zenon DEF TrimAllowed
    <3>3. /\ stream' \in StreamRow /\ StreamOk' /\ stream'.log = stream.log
          /\ stream'.min = last + 1 /\ stream.min <= stream'.min
      BY <2>2, <3>1, <3>2, TrimmedShape, Zenon
    <3>4. active \subseteq ActiveMembers
      BY Zenon
    <3>5. QED BY <2>2, <3>1, <3>3, <3>4, TrimCovered, Zenon
  <2>3. QED BY <1>1, <2>1, <2>2, Zenon
<1>7. ASSUME NEW n \in Nodes, members'[n] # None
      PROVE  /\ members[n] # None /\ members'[n].sub = members[n].sub
             /\ ~members'[n].retired => /\ ~members[n].retired
                                        /\ stream'.min <= Held(members[n].sub) + 1
  <2>1. CASE n \in Expired
    BY <1>3, <2>1, Zenon
  <2>2. CASE n \notin Expired
    <3>1. members'[n] = members[n] /\ members[n] # None
      BY <1>4, <1>7, <2>2, Zenon
    <3>2. ~members[n].retired => n \in active
      BY <2>2, <3>1, Zenon DEF ActiveMembers
    <3>3. QED BY <1>6, <3>1, <3>2, Zenon
  <2>3. QED BY <2>1, <2>2, Zenon
<1>8. QED BY <1>1, <1>5, <1>6, <1>7, ReleaseSound, Zenon

----------------------------------------------------------------------------
(* What sessions and late calls go by.  The loop's copies of the cursor and   *)
(* of the baseline are behind what is durable, its page and its offer within  *)
(* the stream, and so is what a call that outlived its session names: a late  *)
(* call can only repeat, be refused, or do what a session could do now.       *)
(* o, d and h stand for the publisher's row, what is durable and the head.    *)
LinkIn(k, o, d, h) ==
  /\ k.after <= d /\ k.base <= d /\ k.lo <= h /\ k.hi <= h
  /\ k.offer # None => k.offer.pos <= h
  /\ k.pc \in {"begin", "download", "commit"} => k.offer # None
  /\ k.pc = "opened" => o # None /\ k.start = o.start
CallIn(c, o, d, h) ==
  \/ c = [op |-> "open"]
  \/ \E p \in Nat : p <= d /\ c = [op |-> "ack", pos |-> p]
  \/ \E r \in StoredReceived : r.through <= d /\ c = [op |-> "cover", r |-> r]
  \/ \E a \in Nat : o # None /\ c = [op |-> "install", auth |-> a, start |-> o.start]
  \/ \E g, lo, hi \in Nat :
       lo <= h /\ hi <= h /\ c = [op |-> "accept", gen |-> g, lo |-> lo, hi |-> hi]
  \/ \E f \in Manifest, g \in Nat :
       f.pos <= h /\ c \in {[op |-> "begin", offer |-> f, gen |-> g],
                            [op |-> "commit", offer |-> f, gen |-> g]}

LinkOk(s) == LinkIn(link[s], opened[s], Held(s), HeadSeq)
CallsOk(s) == \A c \in detached[s] : CallIn(c, opened[s], Held(s), HeadSeq)
SessionTypes == /\ setup \in Setups
                /\ link \in [Subs -> LinkState]
                /\ detached = [s \in Subs |-> detached[s]]
IInv == StoreOk /\ SessionTypes /\ \A s \in Subs : LinkOk(s) /\ CallsOk(s)
Kept == IInv' /\ Sound

(* A session that is down goes by nothing.                                    *)
LEMMA DownShape ==
  /\ Down \in LinkState
  /\ Down.after = 0 /\ Down.base = 0 /\ Down.lo = 0 /\ Down.hi = 0 /\ Down.offer = None
  /\ Down.pc = "down" /\ Down.start = 0 /\ Down.auth = 0
BY Zenon DEF Down, LinkState

(* Whatever the stores hold, a loop that is down is behind them.              *)
LEMMA DownIn ==
  ASSUME NEW o, NEW d \in Nat, NEW h \in Nat
  PROVE  LinkIn(Down, o, d, h)
<1>1. 0 <= d /\ 0 <= h
  BY Leq, Zenon
<1>2. Down.pc \notin {"begin", "download", "commit"} /\ Down.pc # "opened"
  BY DownShape, Zenon
<1>3. QED BY <1>1, <1>2, DownShape, Zenon DEF LinkIn

(* What is behind the stores stays behind them.                               *)
LEMMA LinkStays ==
  ASSUME NEW k \in LinkState, NEW o, NEW d \in Nat, NEW h \in Nat, LinkIn(k, o, d, h),
         NEW o2, NEW d2 \in Nat, NEW h2 \in Nat, d <= d2, h <= h2,
         o # None => o2 # None /\ o2.start = o.start
  PROVE  LinkIn(k, o2, d2, h2)
<1>1. /\ k.after \in Nat /\ k.base \in Nat /\ k.lo \in Nat /\ k.hi \in Nat
      /\ k.offer # None => k.offer \in Manifest
  BY Zenon DEF LinkState
<1>2. k.offer # None => k.offer.pos \in Nat
  BY <1>1, Zenon DEF Manifest
<1>3. k.after <= d2 /\ k.base <= d2 /\ k.lo <= h2 /\ k.hi <= h2
  BY <1>1, Through, Zenon DEF LinkIn
<1>4. k.offer # None => k.offer.pos <= h2
  BY <1>2, Through, Zenon DEF LinkIn
<1>5. QED BY <1>3, <1>4, Zenon DEF LinkIn

(* The same of a call that outlived its session.                              *)
LEMMA CallStays ==
  ASSUME NEW c, NEW o, NEW d \in Nat, NEW h \in Nat, CallIn(c, o, d, h),
         NEW o2, NEW d2 \in Nat, NEW h2 \in Nat, d <= d2, h <= h2,
         o # None => o2 # None /\ o2.start = o.start
  PROVE  CallIn(c, o2, d2, h2)
<1>1. CASE c = [op |-> "open"]
  BY <1>1, Zenon DEF CallIn
<1>2. ASSUME NEW p \in Nat, p <= d, c = [op |-> "ack", pos |-> p] PROVE CallIn(c, o2, d2, h2)
  <2>1. p <= d2
    BY <1>2, Through, Zenon
  <2>2. QED BY <1>2, <2>1, Zenon DEF CallIn
<1>3. ASSUME NEW r \in StoredReceived, r.through <= d, c = [op |-> "cover", r |-> r]
      PROVE  CallIn(c, o2, d2, h2)
  <2>1. r.through \in Nat
    BY Zenon DEF StoredReceived
  <2>2. r.through <= d2
    BY <1>3, <2>1, Through, Zenon
  <2>3. QED BY <1>3, <2>2, Zenon DEF CallIn
<1>4. ASSUME NEW a \in Nat, o # None, c = [op |-> "install", auth |-> a, start |-> o.start]
      PROVE  CallIn(c, o2, d2, h2)
  BY <1>4, Zenon DEF CallIn
<1>5. ASSUME NEW g \in Nat, NEW lo \in Nat, NEW hi \in Nat, lo <= h, hi <= h,
             c = [op |-> "accept", gen |-> g, lo |-> lo, hi |-> hi]
      PROVE  CallIn(c, o2, d2, h2)
  <2>1. lo <= h2 /\ hi <= h2
    BY <1>5, Through, Zenon
  <2>2. QED BY <1>5, <2>1, Zenon DEF CallIn
<1>6. ASSUME NEW f \in Manifest, NEW g \in Nat, f.pos <= h,
             c \in {[op |-> "begin", offer |-> f, gen |-> g], [op |-> "commit", offer |-> f, gen |-> g]}
      PROVE  CallIn(c, o2, d2, h2)
  <2>1. f.pos \in Nat
    BY Zenon DEF Manifest
  <2>2. f.pos <= h2
    BY <1>6, <2>1, Through, Zenon
  <2>3. QED BY <1>6, <2>2, Zenon DEF CallIn
<1>7. QED BY <1>1, <1>2, <1>3, <1>4, <1>5, <1>6, Zenon DEF CallIn

(* What the stores are after a sound step.                                    *)
LEMMA SoundStep ==
  ASSUME IInv, Sound, NEW s \in Subs
  PROVE  /\ Held(s) \in Nat /\ HeadSeq \in Nat /\ Held(s)' \in Nat /\ HeadSeq' \in Nat
         /\ Held(s) <= Held(s)' /\ HeadSeq <= HeadSeq'
         /\ opened[s] # None => opened'[s] # None /\ opened'[s].start = opened[s].start
         /\ StoreTypes'
<1>1. Held(s) \in Nat /\ HeadSeq \in Nat
  BY Facts, Zenon DEF IInv
<1>2. StoreTypes'
  BY Zenon DEF Sound, StoreOk
<1>3. Held(s)' \in Nat
  BY <1>2, DurableIsNat, Zenon DEF StoreTypes, Held
<1>4. HeadSeq' \in Nat
  <2>1. stream'.log \in Seq(PublishKeys)
    BY <1>2, Zenon DEF StoreTypes, StreamRow
  <2>2. QED BY <2>1 DEF HeadSeq
<1>5. QED BY <1>1, <1>2, <1>3, <1>4, Zenon DEF Sound, Grows, Keeps

(* A step that is sound for the stores, and adds only what they back.         *)
LEMMA Step ==
  ASSUME IInv, Sound, setup' = setup, link' \in [Subs -> LinkState],
         detached' = [x \in Subs |-> detached'[x]],
         \A x \in Subs : \/ link'[x] = link[x] \/ link'[x] = Down
                         \/ LinkIn(link'[x], opened'[x], Held(x)', HeadSeq'),
         \A x \in Subs : \A c \in detached'[x] :
           c \in detached[x] \/ CallIn(c, opened'[x], Held(x)', HeadSeq')
  PROVE  Kept
<1>1. StoreOk' /\ SessionTypes'
  BY Zenon DEF Sound, IInv, SessionTypes
<1>2. ASSUME NEW x \in Subs PROVE LinkOk(x)' /\ CallsOk(x)'
  <2>1. /\ Held(x) \in Nat /\ HeadSeq \in Nat /\ Held(x)' \in Nat /\ HeadSeq' \in Nat
        /\ Held(x) <= Held(x)' /\ HeadSeq <= HeadSeq'
        /\ opened[x] # None => opened'[x] # None /\ opened'[x].start = opened[x].start
    BY SoundStep, Zenon
  <2>2. LinkIn(link'[x], opened'[x], Held(x)', HeadSeq')
    <3>1. CASE link'[x] = link[x]
      <4>1. link[x] \in LinkState /\ LinkIn(link[x], opened[x], Held(x), HeadSeq)
        BY Zenon DEF IInv, SessionTypes, LinkOk
      <4>2. LinkIn(link[x], opened'[x], Held(x)', HeadSeq')
        BY <2>1, <4>1, LinkStays, Zenon
      <4>3. QED BY <3>1, <4>2, Zenon
    <3>2. CASE link'[x] = Down
      BY <2>1, <3>2, DownIn, Zenon
    <3>3. QED BY <3>1, <3>2, Zenon
  <2>3. ASSUME NEW c \in detached'[x]
        PROVE  CallIn(c, opened'[x], Held(x)', HeadSeq')
    <3>1. CASE c \in detached[x]
      <4>1. CallIn(c, opened[x], Held(x), HeadSeq)
        BY <3>1, Zenon DEF IInv, CallsOk
      <4>2. QED BY <2>1, <4>1, CallStays, Zenon
    <3>2. QED BY <3>1, Zenon
  <2>4. QED BY <2>2, <2>3, Zenon DEF LinkOk, CallsOk
<1>3. QED BY <1>1, <1>2, Zenon DEF Kept, IInv

(* An operator's step.                                                        *)
LEMMA Elsewhere ==
  ASSUME IInv, Sound, UNCHANGED <<setup, link, detached>>
  PROVE  Kept
<1>1. /\ link' \in [Subs -> LinkState] /\ detached' = [x \in Subs |-> detached'[x]]
      /\ link' = link /\ detached' = detached /\ setup' = setup
  BY Zenon DEF IInv, SessionTypes
<1>2. QED BY <1>1, Step, Zenon

(* The loop goes on with the state l.                                         *)
LEMMA Going ==
  ASSUME IInv, Sound, NEW s \in Subs, NEW l \in LinkState, Goto(s, l),
         \/ LinkIn(l, opened[s], Held(s), HeadSeq)
         \/ LinkIn(l, opened'[s], Held(s)', HeadSeq')
  PROVE  Kept
<1>1. /\ \A x \in Subs : link'[x] = IF x = s THEN l
                                    ELSE IF l = Down /\ Subscriber[x] = Subscriber[s] THEN Down
                                    ELSE link[x]
      /\ link' = [x \in Subs |-> link'[x]]
      /\ setup' = setup /\ detached' = detached
  BY Zenon DEF Goto
<1>2. link \in [Subs -> LinkState] /\ detached = [x \in Subs |-> detached[x]]
  BY Zenon DEF IInv, SessionTypes
<1>3. \A x \in Subs : link'[x] \in LinkState
  BY <1>1, <1>2, DownShape, Zenon
<1>4. link' \in [Subs -> LinkState]
  BY <1>1, <1>3, Zenon
<1>5. LinkIn(l, opened'[s], Held(s)', HeadSeq')
  <2>1. /\ Held(s) \in Nat /\ HeadSeq \in Nat /\ Held(s)' \in Nat /\ HeadSeq' \in Nat
        /\ Held(s) <= Held(s)' /\ HeadSeq <= HeadSeq'
        /\ opened[s] # None => opened'[s] # None /\ opened'[s].start = opened[s].start
    BY SoundStep, Zenon
  <2>2. QED BY <2>1, LinkStays, Zenon
<1>6. \A x \in Subs : \/ link'[x] = link[x] \/ link'[x] = Down
                      \/ LinkIn(link'[x], opened'[x], Held(x)', HeadSeq')
  BY <1>1, <1>5, Zenon
<1>7. detached' = [x \in Subs |-> detached'[x]]
  BY <1>1, <1>2, Zenon
<1>8. \A x \in Subs : \A c \in detached'[x] :
        c \in detached[x] \/ CallIn(c, opened'[x], Held(x)', HeadSeq')
  BY <1>1, Zenon
<1>9. QED BY <1>1, <1>4, <1>6, <1>7, <1>8, Step, Zenon

(* The session ends.                                                          *)
LEMMA FailKept ==
  ASSUME IInv, NEW s \in Subs, Fail(s)
  PROVE  Kept
<1>1. Sound /\ Goto(s, Down)
  BY StillSound, Zenon DEF IInv, Fail
<1>2. Held(s) \in Nat /\ HeadSeq \in Nat
  BY Facts, Zenon DEF IInv
<1>3. LinkIn(Down, opened[s], Held(s), HeadSeq)
  BY <1>2, DownIn, Zenon
<1>4. QED BY <1>1, <1>3, DownShape, Going, Zenon

----------------------------------------------------------------------------
(* The steps of the session loop.                                             *)
Working == {"begin", "download", "commit"}

(* The types of the loop's state, and what it goes by.                        *)
LEMMA LinkFields ==
  ASSUME IInv, NEW s \in Subs
  PROVE  /\ link[s] \in LinkState /\ LinkIn(link[s], opened[s], Held(s), HeadSeq)
         /\ link[s].after \in Nat /\ link[s].gen \in Nat /\ link[s].base \in Nat
         /\ link[s].auth \in Nat /\ link[s].start \in Nat /\ link[s].seen \in Nat
         /\ link[s].lo \in Nat /\ link[s].hi \in Nat
         /\ link[s].offer \in Manifest \cup {None}
         /\ StoreOk /\ Held(s) \in Nat /\ HeadSeq \in Nat
<1>1. link[s] \in LinkState /\ LinkIn(link[s], opened[s], Held(s), HeadSeq) /\ StoreOk
  BY Zenon DEF IInv, SessionTypes, LinkOk
<1>2. Held(s) \in Nat /\ HeadSeq \in Nat
  BY <1>1, Facts, Zenon
<1>3. QED BY <1>1, <1>2, Zenon DEF LinkState

(* The loop goes on and keeps what it goes by.                                *)
LEMMA Moving ==
  ASSUME IInv, Sound, NEW s \in Subs, NEW l \in LinkState, Goto(s, l),
         l.after = link[s].after, l.base = link[s].base, l.lo = link[s].lo, l.hi = link[s].hi,
         l.offer = link[s].offer, l.pc # "opened", l.pc \in Working => l.offer # None
  PROVE  Kept
<1>1. LinkIn(link[s], opened[s], Held(s), HeadSeq)
  BY LinkFields, Zenon
<1>2. LinkIn(l, opened[s], Held(s), HeadSeq)
  BY <1>1, Zenon DEF LinkIn, Working
<1>3. QED BY <1>2, Going, Zenon

(* The loop goes to its next step and keeps all else.                         *)
LEMMA MoveKept ==
  ASSUME IInv, Sound, NEW s \in Subs, NEW p \in {"installed", "gap", "download"}, Move(s, p),
         p = "download" => link[s].offer # None
  PROVE  Kept
<1>1. link[s] \in LinkState
  BY LinkFields, Zenon
<1>2. PICK l : l = [link[s] EXCEPT !.pc = p]
  BY Zenon
<1>3. p \in {"down", "opened", "installed", "inspected", "receipt", "confirm", "reading", "gap",
             "accepting", "begin", "download", "commit"} /\ p # "opened" /\ p # "begin" /\ p # "commit"
  BY Zenon
<1>4. /\ l \in LinkState /\ l.after = link[s].after /\ l.base = link[s].base /\ l.lo = link[s].lo
      /\ l.hi = link[s].hi /\ l.offer = link[s].offer /\ l.pc = p
  BY <1>1, <1>2, <1>3, Zenon DEF LinkState
<1>5. Goto(s, l)
  BY <1>2, Zenon DEF Move
<1>6. l.pc # "opened" /\ (l.pc \in Working => l.offer # None)
  BY <1>3, <1>4, Zenon DEF Working
<1>7. QED BY <1>4, <1>5, <1>6, Moving, Zenon

(* The subscription is opened, or found open.                                 *)
LEMMA OpenRemoteKept ==
  ASSUME IInv, NEW s \in Subs, OpenRemote(s)
  PROVE  Kept
<1>1. Sound /\ opened'[s] # None
  <2>1. CASE opened[s] = None
    <3>1. Open(s, All) /\ UNCHANGED recvVars /\ All \in Histories
      BY <2>1, Zenon DEF OpenRemote, Histories
    <3>2. Sound
      BY <3>1, OpenSound, Zenon DEF IInv
    <3>3. PICK o : opened' = [opened EXCEPT ![s] = o] /\ o = [auth |-> serve[Subscriber[s]].rev, ack |-> 0,
                     closed |-> FALSE, start |-> IF All = FromNow THEN HeadSeq ELSE All.pos]
      BY <3>1, Zenon DEF Open
    <3>4. opened'[s] = o
      BY <3>3, Zenon DEF IInv, StoreOk, StoreTypes
    <3>5. opened'[s] \in PublisherRow \cup {None}
      BY <3>2, Zenon DEF Sound, StoreOk, StoreTypes
    <3>6. o \in PublisherRow
      <4>1. serve[Subscriber[s]] \in AuthorityRow /\ HeadSeq \in Nat
        BY LinkFields, SubscriberAssumption, Zenon DEF StoreOk, StoreTypes
      <4>2. serve[Subscriber[s]].rev \in Nat
        BY <4>1, Zenon DEF AuthorityRow
      <4>3. (IF All = FromNow THEN HeadSeq ELSE All.pos) \in Nat
        BY <4>1, Zenon DEF All
      <4>4. QED BY <3>3, <4>2, <4>3, Zenon DEF PublisherRow
    <3>7. QED BY <3>2, <3>4, <3>6, PublisherAssumption, Zenon
  <2>2. CASE opened[s] # None
    <3>1. UNCHANGED <<pubVars, recvVars>>
      BY <2>2, Zenon DEF OpenRemote
    <3>2. QED BY <2>2, <3>1, StillSound, Zenon DEF IInv, pubVars
  <2>3. QED BY <2>1, <2>2, Zenon
<1>2. opened'[s] \in PublisherRow
  BY <1>1, Zenon DEF Sound, StoreOk, StoreTypes
<1>3. opened'[s].auth \in Nat /\ opened'[s].start \in Nat
  BY <1>2, Zenon DEF PublisherRow
<1>4. PICK l : l = [Down EXCEPT !.pc = "opened", !.auth = opened'[s].auth, !.start = opened'[s].start]
  BY Zenon
<1>5. /\ l \in LinkState /\ l.after = 0 /\ l.base = 0 /\ l.lo = 0 /\ l.hi = 0 /\ l.offer = None
      /\ l.pc = "opened" /\ l.start = opened'[s].start
  BY <1>3, <1>4, Zenon DEF Down, LinkState
<1>6. Goto(s, l)
  BY <1>4, Zenon DEF OpenRemote
<1>7. 0 <= Held(s)' /\ 0 <= HeadSeq'
  BY <1>1, SoundStep, Leq, Zenon
<1>8. LinkIn(l, opened'[s], Held(s)', HeadSeq')
  BY <1>1, <1>5, <1>7, Zenon DEF LinkIn
<1>9. QED BY <1>1, <1>5, <1>6, <1>8, Going, Zenon

(* What was opened is installed here.                                         *)
LEMMA InstallLocalKept ==
  ASSUME IInv, NEW s \in Subs, InstallLocal(s)
  PROVE  Kept
<1>1. CASE Fail(s)
  BY <1>1, FailKept, Zenon
<1>2. CASE InstallSubscription(s, link[s].auth, link[s].start) /\ Move(s, "installed") /\ UNCHANGED pubVars
  <2>1. opened[s] # None /\ link[s].start = opened[s].start /\ link[s].auth \in Nat
    BY LinkFields, Zenon DEF InstallLocal, At, LinkIn
  <2>2. Sound
    BY <1>2, <2>1, InstallSound, Zenon DEF IInv
  <2>3. "installed" \in {"installed", "gap", "download"} /\ "installed" # "download"
    BY Zenon
  <2>4. QED BY <1>2, <2>2, <2>3, MoveKept, Zenon
<1>3. QED BY <1>1, <1>2, Zenon DEF InstallLocal

(* The publisher's ACK is looked at.                                          *)
LEMMA InspectRemoteKept ==
  ASSUME IInv, NEW s \in Subs, InspectRemote(s)
  PROVE  Kept
<1>1. CASE Fail(s)
  BY <1>1, FailKept, Zenon
<1>2. CASE /\ opened[s] # None /\ UNCHANGED <<pubVars, recvVars>>
           /\ Goto(s, [link[s] EXCEPT !.pc = "inspected", !.seen = opened[s].ack])
  <2>1. Sound
    BY <1>2, StillSound, Zenon DEF IInv
  <2>2. opened[s].ack \in Nat
    BY <1>2, RowOfOpened, Zenon DEF IInv, PublisherRow
  <2>3. PICK l : l = [link[s] EXCEPT !.pc = "inspected", !.seen = opened[s].ack]
    BY Zenon
  <2>4. /\ l \in LinkState /\ l.after = link[s].after /\ l.base = link[s].base /\ l.lo = link[s].lo
        /\ l.hi = link[s].hi /\ l.offer = link[s].offer /\ l.pc = "inspected"
    BY <2>2, <2>3, LinkFields, Zenon DEF LinkState
  <2>5. l.pc # "opened" /\ l.pc \notin Working
    BY <2>4, Zenon DEF Working
  <2>6. QED BY <1>2, <2>1, <2>3, <2>4, <2>5, Moving, Zenon
<1>3. QED BY <1>1, <1>2, Zenon DEF InspectRemote, Serving, ServeAuthority

(* The baseline and what was received are behind the cursor.                  *)
LEMMA ArchivedIn ==
  ASSUME NEW o, NEW r \in ReceiverRow, NEW l \in StoredLedger, RowOk(r, l)
  PROVE  l.archived \in Nat /\ l.archived <= DurableOf(o, r, l) /\ r.received <= DurableOf(o, r, l)
<1>1. /\ r.received \in Nat /\ l.archived \in Nat /\ l.active \in Nat /\ r.start \in Nat
  BY Zenon DEF ReceiverRow, StoredLedger
<1>2. BaseOf(r, l) \in Nat /\ l.archived <= BaseOf(r, l)
  BY <1>1 DEF BaseOf, RowOk
<1>3. BaseOf(r, l) <= CursorOf(r, l) /\ r.received <= CursorOf(r, l) /\ CursorOf(r, l) \in Nat
  BY <1>1, <1>2 DEF CursorOf, RowOk
<1>4. r # None
  BY ReceiverAssumption, Zenon
<1>5. DurableOf(o, r, l) = CursorOf(r, l)
  BY <1>4, Zenon DEF DurableOf
<1>6. QED BY <1>1, <1>2, <1>3, <1>5

(* The read loop is entered, or the session ends.                             *)
LEMMA EstablishedShape ==
  ASSUME NEW l \in LinkState
  PROVE  /\ Established(l) \in LinkState
         /\ \A o, d, h : /\ d \in Nat /\ h \in Nat /\ l.after <= d /\ l.base <= d
                         /\ l.lo <= h /\ l.hi <= h /\ (l.offer # None => l.offer.pos <= h)
                         => LinkIn(Established(l), o, d, h)
<1>1. CASE Established(l) = Down
  BY <1>1, DownShape, DownIn, Zenon
<1>2. CASE Established(l) = [l EXCEPT !.pc = "reading"]
  <2>1. PICK k : k = [l EXCEPT !.pc = "reading"]
    BY Zenon
  <2>2. /\ k \in LinkState /\ k.after = l.after /\ k.base = l.base /\ k.lo = l.lo /\ k.hi = l.hi
        /\ k.offer = l.offer /\ k.pc = "reading"
    BY <2>1, Zenon DEF LinkState
  <2>3. k.pc \notin {"begin", "download", "commit"} /\ k.pc # "opened"
    BY <2>2, Zenon
  <2>4. QED BY <1>2, <2>1, <2>2, <2>3, Zenon DEF LinkIn
<1>3. QED BY <1>1, <1>2, Zenon DEF Established

(* The loop takes up where the local store stands.                            *)
LEMMA LocalProgressKept ==
  ASSUME IInv, NEW s \in Subs, LocalProgress(s)
  PROVE  Kept
<1> DEFINE led == ledger[s]
           k == [link[s] EXCEPT !.after = Cursor(s), !.gen = led.gen, !.base = led.archived]
<1>1. CASE Fail(s)
  BY <1>1, FailKept, Zenon
<1>2. ASSUME ReceiveAuthority(s), UNCHANGED <<pubVars, recvVars>>,
             \/ Goto(s, [k EXCEPT !.pc = "receipt"]) \/ Goto(s, [k EXCEPT !.pc = "confirm"])
             \/ Goto(s, Established(k))
      PROVE  Kept
  <2>1. Sound /\ StoreOk
    BY <1>2, StillSound, Zenon DEF IInv
  <2>2. /\ row[s] \in ReceiverRow /\ ledger[s] \in StoredLedger /\ RowOk(row[s], ledger[s])
        /\ Held(s) = Cursor(s) /\ Cursor(s) <= Cursor(s)
    BY <1>2, <2>1, RowOfInstalled, Zenon DEF ReceiveAuthority
  <2>3. led.archived \in Nat /\ led.archived <= Held(s) /\ led.gen \in Nat
    BY <2>2, ArchivedIn, Zenon DEF Held, StoredLedger
  <2>4. Cursor(s) \in Nat /\ Cursor(s) <= Held(s)
    BY <2>2, LinkFields, Zenon
  <2>5. /\ link[s] \in LinkState /\ LinkIn(link[s], opened[s], Held(s), HeadSeq)
        /\ Held(s) \in Nat /\ HeadSeq \in Nat
    BY LinkFields, Zenon
  <2>6. /\ k \in LinkState /\ k.after <= Held(s) /\ k.base <= Held(s)
        /\ k.lo = link[s].lo /\ k.hi = link[s].hi /\ k.offer = link[s].offer
    BY <2>3, <2>4, <2>5, Zenon DEF LinkState
  <2>7. k.lo <= HeadSeq /\ k.hi <= HeadSeq /\ (k.offer # None => k.offer.pos <= HeadSeq)
    BY <2>5, <2>6, Zenon DEF LinkIn
  <2> HIDE DEF k, led
  <2>8. ASSUME NEW p \in {"receipt", "confirm"}, Goto(s, [k EXCEPT !.pc = p])
        PROVE  Kept
    <3>1. PICK l : l = [k EXCEPT !.pc = p]
      BY Zenon
    <3>2. p \in {"down", "opened", "installed", "inspected", "receipt", "confirm", "reading", "gap",
                 "accepting", "begin", "download", "commit"}
          /\ p # "opened" /\ p \notin {"begin", "download", "commit"}
      BY Zenon
    <3>3. /\ l \in LinkState /\ l.after = k.after /\ l.base = k.base /\ l.lo = k.lo
          /\ l.hi = k.hi /\ l.offer = k.offer /\ l.pc = p
      BY <2>6, <3>1, <3>2, Zenon DEF LinkState
    <3>4. LinkIn(l, opened[s], Held(s), HeadSeq)
      BY <2>6, <2>7, <3>2, <3>3, Zenon DEF LinkIn
    <3>5. QED BY <2>1, <2>8, <3>1, <3>3, <3>4, Going, Zenon
  <2>9. CASE Goto(s, Established(k))
    <3>1. Established(k) \in LinkState /\ LinkIn(Established(k), opened[s], Held(s), HeadSeq)
      BY <2>5, <2>6, <2>7, EstablishedShape, Zenon
    <3>2. PICK l : l = Established(k)
      BY Zenon
    <3>3. QED BY <2>1, <2>9, <3>1, <3>2, Going, Zenon
  <2>10. QED BY <1>2, <2>8, <2>9, Zenon
<1>3. Fail(s) \/ /\ ReceiveAuthority(s) /\ UNCHANGED <<pubVars, recvVars>>
                 /\ \/ Goto(s, [k EXCEPT !.pc = "receipt"]) \/ Goto(s, [k EXCEPT !.pc = "confirm"])
                    \/ Goto(s, Established(k))
  BY Zenon DEF LocalProgress
<1>4. QED BY <1>1, <1>2, <1>3, Zenon

(* A pending installation is for a position of the stream.                    *)
LEMMA PendingShape ==
  ASSUME IInv, NEW s \in Subs, ledger[s].pending # None
  PROVE  /\ ledger[s].pending.offer \in Manifest /\ ledger[s].pending.offer # None
         /\ ledger[s].pending.gen \in Nat /\ ledger[s].pending.offer.pos <= HeadSeq
<1>1. ledger[s].pending \in StoredPending
  BY Zenon DEF IInv, StoreOk, StoreTypes, StoredLedger
<1>2. ledger[s].pending.offer.pos <= HeadSeq
  BY Facts, Zenon DEF IInv, Good
<1>3. QED BY <1>1, <1>2, ReceiverAssumption, Zenon DEF StoredPending

(* The loop goes to work on an offer.                                         *)
LEMMA OfferKept ==
  ASSUME IInv, Sound, NEW s \in Subs, NEW l \in LinkState, Goto(s, l),
         l.after = link[s].after, l.base = link[s].base, l.lo = link[s].lo, l.hi = link[s].hi,
         l.offer # None, l.offer.pos <= HeadSeq, l.pc # "opened"
  PROVE  Kept
<1>1. LinkIn(link[s], opened[s], Held(s), HeadSeq)
  BY LinkFields, Zenon
<1>2. LinkIn(l, opened[s], Held(s), HeadSeq)
  BY <1>1, Zenon DEF LinkIn
<1>3. QED BY <1>2, Going, Zenon

(* A pending installation is taken up.                                        *)
LEMMA ResumeInstallKept ==
  ASSUME IInv, NEW s \in Subs, ResumeInstall(s)
  PROVE  Kept
<1>1. Sound
  BY StillSound, Zenon DEF IInv, ResumeInstall
<1>2. /\ ledger[s].pending.offer \in Manifest /\ ledger[s].pending.offer # None
      /\ ledger[s].pending.gen \in Nat /\ ledger[s].pending.offer.pos <= HeadSeq
  BY PendingShape, Zenon DEF ResumeInstall
<1>3. PICK l : l = [link[s] EXCEPT !.pc = "download", !.offer = ledger[s].pending.offer,
                                   !.gen = ledger[s].pending.gen, !.resume = TRUE]
  BY Zenon
<1>4. /\ l \in LinkState /\ l.after = link[s].after /\ l.base = link[s].base /\ l.lo = link[s].lo
      /\ l.hi = link[s].hi /\ l.offer = ledger[s].pending.offer /\ l.pc = "download"
  BY <1>2, <1>3, LinkFields, Zenon DEF LinkState
<1>5. l.pc # "opened"
  BY <1>4, Zenon
<1>6. Goto(s, l)
  BY <1>3, Zenon DEF ResumeInstall
<1>7. QED BY <1>1, <1>2, <1>4, <1>5, <1>6, OfferKept, Zenon

(* The loop is done with confirming.                                          *)
LEMMA EstablishKept ==
  ASSUME IInv, Sound, NEW s \in Subs, Goto(s, Established(link[s]))
  PROVE  Kept
<1>1. PICK l : l = Established(link[s])
  BY Zenon
<1>2. l \in LinkState /\ LinkIn(l, opened[s], Held(s), HeadSeq)
  BY <1>1, LinkFields, EstablishedShape, Zenon DEF LinkIn
<1>3. QED BY <1>1, <1>2, Going, Zenon

(* A receipt covers what is durable.                                          *)
LEMMA ReceiptShape ==
  ASSUME IInv, NEW s \in Subs, NEW p \in {link[s].base, link[s].after}
  PROVE  Receipt(link[s], p) \in StoredReceived /\ Receipt(link[s], p).through <= Held(s)
<1>1. p \in Nat /\ link[s].base \in Nat /\ link[s].gen \in Nat /\ p <= Held(s)
  BY LinkFields, Zenon DEF LinkIn
<1>2. QED BY <1>1, Zenon DEF Receipt, StoredReceived

(* The archive receipt is sent.                                               *)
LEMMA SendReceiptKept ==
  ASSUME IInv, NEW s \in Subs, SendReceipt(s)
  PROVE  Kept
<1>1. CASE Fail(s)
  BY <1>1, FailKept, Zenon
<1>2. CASE /\ ReceiveSnapshot(s, Receipt(link[s], link[s].base)) /\ UNCHANGED recvVars
           /\ \/ Goto(s, [link[s] EXCEPT !.pc = "confirm"]) \/ Goto(s, Established(link[s]))
  <2>1. Sound
    BY <1>2, ReceiptShape, ReceiveSnapshotSound, Zenon DEF IInv
  <2>2. CASE Goto(s, [link[s] EXCEPT !.pc = "confirm"])
    <3>1. PICK l : l = [link[s] EXCEPT !.pc = "confirm"]
      BY Zenon
    <3>2. /\ l \in LinkState /\ l.after = link[s].after /\ l.base = link[s].base /\ l.lo = link[s].lo
          /\ l.hi = link[s].hi /\ l.offer = link[s].offer /\ l.pc = "confirm"
      BY <3>1, LinkFields, Zenon DEF LinkState
    <3>3. l.pc # "opened" /\ l.pc \notin Working
      BY <3>2, Zenon DEF Working
    <3>4. QED BY <2>1, <2>2, <3>1, <3>2, <3>3, Moving, Zenon
  <2>3. QED BY <1>2, <2>1, <2>2, EstablishKept, Zenon
<1>3. QED BY <1>1, <1>2, Zenon DEF SendReceipt

(* What is durable is confirmed.                                              *)
LEMMA ConfirmKept ==
  ASSUME IInv, NEW s \in Subs, ConfirmSuffix(s) \/ ConfirmEvents(s)
  PROVE  Kept
<1>1. CASE Fail(s)
  BY <1>1, FailKept, Zenon
<1>2. CASE /\ ReceiveSnapshot(s, Receipt(link[s], link[s].after)) /\ UNCHANGED recvVars
           /\ Goto(s, Established(link[s]))
  <2>1. Sound
    BY <1>2, ReceiptShape, ReceiveSnapshotSound, Zenon DEF IInv
  <2>2. QED BY <1>2, <2>1, EstablishKept, Zenon
<1>3. CASE /\ Acknowledge(s, link[s].after) /\ UNCHANGED recvVars /\ Goto(s, Established(link[s]))
  <2>1. link[s].after \in Nat /\ link[s].after <= Held(s)
    BY LinkFields, Zenon DEF LinkIn
  <2>2. Sound
    BY <1>3, <2>1, AcknowledgeSound, Zenon DEF IInv
  <2>3. QED BY <1>3, <2>2, EstablishKept, Zenon
<1>4. QED BY <1>1, <1>2, <1>3, Zenon DEF ConfirmSuffix, ConfirmEvents

(* A page is read, or nothing, or a gap is met.                               *)
LEMMA ReadKept ==
  ASSUME IInv, NEW s \in Subs, Read(s)
  PROVE  Kept
<1>1. CASE Fail(s)
  BY <1>1, FailKept, Zenon
<1>2. CASE Move(s, "gap") /\ UNCHANGED <<pubVars, recvVars>>
  <2>1. Sound
    BY <1>2, StillSound, Zenon DEF IInv
  <2>2. "gap" \in {"installed", "gap", "download"} /\ "gap" # "download"
    BY Zenon
  <2>3. QED BY <1>2, <2>1, <2>2, MoveKept, Zenon
<1>3. CASE Goto(s, link[s]) /\ UNCHANGED <<pubVars, recvVars>>
  <2>1. Sound
    BY <1>3, StillSound, Zenon DEF IInv
  <2>2. PICK l : l = link[s]
    BY Zenon
  <2>3. l \in LinkState /\ LinkIn(l, opened[s], Held(s), HeadSeq)
    BY <2>2, LinkFields, Zenon
  <2>4. QED BY <1>3, <2>1, <2>2, <2>3, Going, Zenon
<1>4. ASSUME NEW lo \in stream.rows, NEW hi \in stream.rows, UNCHANGED <<pubVars, recvVars>>,
             Goto(s, [link[s] EXCEPT !.pc = "accepting", !.lo = lo, !.hi = hi])
      PROVE  Kept
  <2>1. Sound
    BY <1>4, StillSound, Zenon DEF IInv
  <2>2. lo \in Nat /\ hi \in Nat
    BY LinkFields, StreamShape, Zenon DEF StoreOk
  <2>3. lo <= HeadSeq /\ hi <= HeadSeq
    BY <2>2, LinkFields, Zenon DEF StoreOk, StreamOk
  <2>4. PICK l : l = [link[s] EXCEPT !.pc = "accepting", !.lo = lo, !.hi = hi]
    BY Zenon
  <2>5. /\ l \in LinkState /\ l.after = link[s].after /\ l.base = link[s].base /\ l.lo = lo
        /\ l.hi = hi /\ l.offer = link[s].offer /\ l.pc = "accepting"
    BY <2>2, <2>4, LinkFields, Zenon DEF LinkState
  <2>6. l.pc # "opened" /\ l.pc \notin {"begin", "download", "commit"}
    BY <2>5, Zenon
  <2>7. LinkIn(l, opened[s], Held(s), HeadSeq)
    BY <2>3, <2>5, <2>6, LinkFields, Zenon DEF LinkIn
  <2>8. QED BY <1>4, <2>1, <2>4, <2>5, <2>7, Going, Zenon
<1>5. QED BY <1>1, <1>2, <1>3, <1>4, Zenon DEF Read, ReadPage

(* What was received is durable, also after the record was accepted.          *)
LEMMA AcceptedShape ==
  ASSUME IInv, NEW s \in Subs, NEW g, NEW q \in Nat, q <= HeadSeq, Accept(s, g, q), UNCHANGED pubVars
  PROVE  Sound /\ row'[s].received \in Nat /\ row'[s].received <= Held(s)'
<1>1. Sound /\ StoreOk
  BY AcceptSound, Zenon DEF IInv
<1>2. row[s] # None
  BY Zenon DEF Accept, AcceptResult, ReceiveAuthority
<1>3. row[s] \in ReceiverRow
  BY <1>1, <1>2, RowOfInstalled, Zenon
<1>4. row'[s] # None
  <2>1. CASE UNCHANGED row
    BY <1>2, <2>1, Zenon
  <2>2. CASE row' = [row EXCEPT ![s].received = q]
    <3>1. row'[s] = [row[s] EXCEPT !.received = q]
      BY <1>1, <2>2, Zenon DEF StoreOk, StoreTypes
    <3>2. [row[s] EXCEPT !.received = q] \in ReceiverRow
      BY <1>3, Zenon DEF ReceiverRow
    <3>3. QED BY <3>1, <3>2, ReceiverAssumption, Zenon
  <2>3. QED BY <2>1, <2>2, Zenon DEF Accept
<1>5. row'[s] \in ReceiverRow /\ ledger'[s] \in StoredLedger
  BY <1>1, <1>4, Zenon DEF Sound, StoreOk, StoreTypes
<1>6. RowOk(row'[s], ledger'[s])
  BY <1>1, <1>4, Zenon DEF Sound, StoreOk, SubOk, Good
<1>7. row'[s].received <= DurableOf(opened'[s], row'[s], ledger'[s])
  BY <1>5, <1>6, ArchivedIn, Zenon
<1>8. row'[s].received \in Nat
  BY <1>5, Zenon DEF ReceiverRow
<1>9. QED BY <1>1, <1>7, <1>8, Zenon DEF Held

(* The next record of the page is accepted.                                   *)
LEMMA AcceptNextKept ==
  ASSUME IInv, NEW s \in Subs, AcceptNext(s)
  PROVE  Kept
<1>1. CASE Fail(s)
  BY <1>1, FailKept, Zenon
<1>2. CASE /\ Accept(s, link[s].gen, link[s].lo) /\ UNCHANGED pubVars
           /\ \/ /\ link[s].lo < link[s].hi
                 /\ Goto(s, [link[s] EXCEPT !.lo = link[s].lo + 1])
              \/ Goto(s, [link[s] EXCEPT !.pc = "confirm", !.after = row'[s].received,
                                         !.lo = 0, !.hi = 0, !.seen = 0])
  <2>1. /\ link[s] \in LinkState /\ LinkIn(link[s], opened[s], Held(s), HeadSeq)
        /\ link[s].lo \in Nat /\ link[s].hi \in Nat /\ HeadSeq \in Nat /\ Held(s) \in Nat
        /\ link[s].base \in Nat
    BY LinkFields, Zenon
  <2>2. link[s].lo <= HeadSeq /\ link[s].hi <= HeadSeq
    BY <2>1, Zenon DEF LinkIn
  <2>3. Sound /\ row'[s].received \in Nat /\ row'[s].received <= Held(s)'
    BY <1>2, <2>1, <2>2, AcceptedShape, Zenon
  <2>4. CASE link[s].lo < link[s].hi /\ Goto(s, [link[s] EXCEPT !.lo = link[s].lo + 1])
    <3>1. link[s].lo + 1 \in Nat /\ link[s].lo + 1 <= HeadSeq
      BY <2>1, <2>2, <2>4
    <3>2. PICK l : l = [link[s] EXCEPT !.lo = link[s].lo + 1]
      BY Zenon
    <3>3. /\ l \in LinkState /\ l.after = link[s].after /\ l.base = link[s].base
          /\ l.lo = link[s].lo + 1 /\ l.hi = link[s].hi /\ l.offer = link[s].offer
          /\ l.pc = link[s].pc /\ l.start = link[s].start
      BY <2>1, <3>1, <3>2, Zenon DEF LinkState
    <3>4. LinkIn(l, opened[s], Held(s), HeadSeq)
      BY <2>1, <3>1, <3>3, Zenon DEF LinkIn
    <3>5. QED BY <2>3, <2>4, <3>2, <3>3, <3>4, Going, Zenon
  <2>5. CASE Goto(s, [link[s] EXCEPT !.pc = "confirm", !.after = row'[s].received,
                                     !.lo = 0, !.hi = 0, !.seen = 0])
    <3>1. PICK l : l = [link[s] EXCEPT !.pc = "confirm", !.after = row'[s].received,
                                       !.lo = 0, !.hi = 0, !.seen = 0]
      BY Zenon
    <3>2. /\ l \in LinkState /\ l.after = row'[s].received /\ l.base = link[s].base
          /\ l.lo = 0 /\ l.hi = 0 /\ l.offer = link[s].offer /\ l.pc = "confirm"
      BY <2>1, <2>3, <3>1, Zenon DEF LinkState
    <3>3. l.pc # "opened" /\ l.pc \notin {"begin", "download", "commit"}
      BY <3>2, Zenon
    <3>4. /\ Held(s)' \in Nat /\ HeadSeq' \in Nat /\ Held(s) <= Held(s)' /\ HeadSeq <= HeadSeq'
          /\ opened[s] # None => opened'[s] # None /\ opened'[s].start = opened[s].start
      BY <2>3, SoundStep, Zenon
    <3>5. LinkIn(link[s], opened'[s], Held(s)', HeadSeq')
      BY <2>1, <3>4, LinkStays, Zenon
    <3>6. 0 <= HeadSeq'
      BY <3>4, Leq, Zenon
    <3>7. LinkIn(l, opened'[s], Held(s)', HeadSeq')
      BY <2>3, <3>2, <3>3, <3>5, <3>6, Zenon DEF LinkIn
    <3>8. QED BY <2>3, <2>5, <3>1, <3>2, <3>7, Going, Zenon
  <2>6. QED BY <1>2, <2>4, <2>5, Zenon
<1>3. QED BY <1>1, <1>2, Zenon DEF AcceptNext

(* The offer a subscriber sees is for a position of the stream.               *)
LEMMA OfferShape ==
  ASSUME StoreOk, NEW s \in Subs, CurrentOffer(s) # 0
  PROVE  /\ opened[s] # None /\ CurrentOffer(s) <= HeadSeq
         /\ [pos |-> CurrentOffer(s), auth |-> opened[s].auth] \in Manifest
<1>1. opened[s] # None /\ CurrentOffer(s) = offers[s]
  BY Zenon DEF CurrentOffer, Serving, ServeAuthority
<1>2. opened[s].auth \in Nat /\ offers[s] \in Nat /\ offers[s] <= HeadSeq
  BY <1>1, RowOfOpened, Zenon DEF PublisherRow
<1>3. QED BY <1>1, <1>2, Zenon DEF Manifest

(* At a gap the loop takes up an installation or asks for the offer.          *)
LEMMA InspectOfferKept ==
  ASSUME IInv, NEW s \in Subs, InspectOffer(s)
  PROVE  Kept
<1>1. CASE Fail(s)
  BY <1>1, FailKept, Zenon
<1>2. ASSUME NEW p \in {"download", "begin"}, NEW f \in Manifest, NEW g \in Nat, f.pos <= HeadSeq,
             Goto(s, [link[s] EXCEPT !.pc = p, !.gen = g, !.offer = f]),
             UNCHANGED <<pubVars, recvVars>>
      PROVE  Kept
  <2>1. Sound
    BY <1>2, StillSound, Zenon DEF IInv
  <2>2. PICK l : l = [link[s] EXCEPT !.pc = p, !.gen = g, !.offer = f]
    BY Zenon
  <2>3. p \in {"down", "opened", "installed", "inspected", "receipt", "confirm", "reading", "gap",
               "accepting", "begin", "download", "commit"} /\ p # "opened"
    BY Zenon
  <2>4. /\ l \in LinkState /\ l.after = link[s].after /\ l.base = link[s].base /\ l.lo = link[s].lo
        /\ l.hi = link[s].hi /\ l.offer = f /\ l.pc = p
    BY <2>2, <2>3, LinkFields, Zenon DEF LinkState
  <2>5. l.offer # None /\ l.offer.pos <= HeadSeq /\ l.pc # "opened"
    BY <1>2, <2>3, <2>4, ReceiverAssumption, Zenon
  <2>6. QED BY <1>2, <2>1, <2>2, <2>4, <2>5, OfferKept, Zenon
<1>3. CASE /\ ledger[s].pending # None /\ UNCHANGED <<pubVars, recvVars>>
           /\ Goto(s, [link[s] EXCEPT !.pc = "download", !.gen = ledger[s].pending.gen,
                                      !.offer = ledger[s].pending.offer])
  BY <1>2, <1>3, PendingShape, Zenon
<1>4. CASE /\ CurrentOffer(s) # 0 /\ UNCHANGED <<pubVars, recvVars>>
           /\ Goto(s, [link[s] EXCEPT !.pc = "begin", !.gen = ledger[s].gen, !.offer =
                         [pos |-> CurrentOffer(s), auth |-> opened[s].auth]])
  <2>1. PICK f \in Manifest : f = [pos |-> CurrentOffer(s), auth |-> opened[s].auth]
    BY <1>4, OfferShape, Zenon DEF IInv
  <2>2. f.pos <= HeadSeq
    BY <1>4, <2>1, OfferShape, Zenon DEF IInv
  <2>3. ledger[s].gen \in Nat
    BY Zenon DEF IInv, StoreOk, StoreTypes, StoredLedger
  <2>4. QED BY <1>2, <1>4, <2>1, <2>2, <2>3, Zenon
<1>5. QED BY <1>1, <1>3, <1>4, Zenon DEF InspectOffer

(* The installation is begun.                                                 *)
LEMMA BeginKept ==
  ASSUME IInv, NEW s \in Subs, Begin(s)
  PROVE  Kept
<1>1. CASE Fail(s)
  BY <1>1, FailKept, Zenon
<1>2. /\ link[s].offer \in Manifest /\ link[s].offer # None /\ link[s].offer.pos <= HeadSeq
      /\ link[s].gen \in Nat
  <2>1. link[s].pc = "begin"
    BY Zenon DEF Begin, At
  <2>2. QED BY <2>1, LinkFields, Zenon DEF LinkIn
<1>3. ASSUME Sound, Move(s, "download") PROVE Kept
  <2>1. "download" \in {"installed", "gap", "download"}
    BY Zenon
  <2>2. QED BY <1>2, <1>3, <2>1, MoveKept, Zenon
<1>4. CASE /\ BeginSnapshotInstall(s, link[s].offer, link[s].gen)
           /\ Move(s, "download") /\ UNCHANGED pubVars
  BY <1>2, <1>3, <1>4, BeginSound, Zenon DEF IInv
<1>5. CASE Move(s, "download") /\ UNCHANGED <<pubVars, recvVars>>
  BY <1>3, <1>5, StillSound, Zenon DEF IInv
<1>6. QED BY <1>1, <1>4, <1>5, Zenon DEF Begin

(* The archive file is sealed.                                                *)
LEMMA DownloadKept ==
  ASSUME IInv, NEW s \in Subs, DownloadAndSeal(s)
  PROVE  Kept
<1>1. CASE Fail(s)
  BY <1>1, FailKept, Zenon
<1>2. CASE link' = [link EXCEPT ![s].pc = "commit"] /\ UNCHANGED <<pubVars, recvVars, setup, detached>>
  <2>1. Sound
    BY <1>2, StillSound, Zenon DEF IInv
  <2>2. link[s].offer # None
    <3>1. link[s].pc = "download"
      BY Zenon DEF DownloadAndSeal, At
    <3>2. QED BY <3>1, LinkFields, Zenon DEF LinkIn
  <2>3. PICK l : l = [link[s] EXCEPT !.pc = "commit"]
    BY Zenon
  <2>4. /\ l \in LinkState /\ l.after = link[s].after /\ l.base = link[s].base /\ l.lo = link[s].lo
        /\ l.hi = link[s].hi /\ l.offer = link[s].offer /\ l.pc = "commit"
    BY <2>3, LinkFields, Zenon DEF LinkState
  <2>5. l.pc # "opened"
    BY <2>4, Zenon
  <2>6. LinkIn(l, opened[s], Held(s), HeadSeq)
    BY <2>2, <2>4, <2>5, LinkFields, Zenon DEF LinkIn
  <2>7. /\ Held(s) \in Nat /\ HeadSeq \in Nat /\ Held(s)' \in Nat /\ HeadSeq' \in Nat
        /\ Held(s) <= Held(s)' /\ HeadSeq <= HeadSeq'
        /\ opened[s] # None => opened'[s] # None /\ opened'[s].start = opened[s].start
    BY <2>1, SoundStep, Zenon
  <2>8. LinkIn(l, opened'[s], Held(s)', HeadSeq')
    BY <2>4, <2>6, <2>7, LinkStays, Zenon
  <2>9. link \in [Subs -> LinkState] /\ link' = [link EXCEPT ![s] = l]
    BY <1>2, <2>3, Zenon DEF IInv, SessionTypes
  <2>10. /\ link' \in [Subs -> LinkState] /\ link'[s] = l
         /\ \A x \in Subs : x # s => link'[x] = link[x]
    BY <2>4, <2>9, Zenon
  <2>11. /\ detached' = [x \in Subs |-> detached'[x]] /\ detached' = detached /\ setup' = setup
    BY <1>2, Zenon DEF IInv, SessionTypes
  <2>12. \A x \in Subs : \/ link'[x] = link[x] \/ link'[x] = Down
                         \/ LinkIn(link'[x], opened'[x], Held(x)', HeadSeq')
    BY <2>8, <2>10, Zenon
  <2>13. QED BY <2>1, <2>10, <2>11, <2>12, Step, Zenon
<1>3. QED BY <1>1, <1>2, Zenon DEF DownloadAndSeal

(* After a commit the archive is what is durable.                             *)
LEMMA AfterCommitShape ==
  ASSUME NEW l \in LinkState, NEW o, NEW d \in Nat, NEW h \in Nat, LinkIn(l, o, d, h),
         l.offer # None, l.offer.pos <= d
  PROVE  AfterCommit(l) \in LinkState /\ LinkIn(AfterCommit(l), o, d, h)
<1>1. l.offer \in Manifest /\ l.gen \in Nat
  BY Zenon DEF LinkState
<1>2. l.offer.pos \in Nat
  BY <1>1, Zenon DEF Manifest
<1>3. l.gen + 1 \in Nat
  BY <1>1
<1>4. CASE l.resume
  <2>1. PICK k : k = [l EXCEPT !.pc = "inspected", !.offer = None, !.resume = FALSE]
    BY Zenon
  <2>2. /\ k \in LinkState /\ k.after = l.after /\ k.base = l.base /\ k.lo = l.lo
        /\ k.hi = l.hi /\ k.offer = None /\ k.pc = "inspected"
    BY <2>1, Zenon DEF LinkState
  <2>3. k.pc # "opened" /\ k.pc \notin {"begin", "download", "commit"}
    BY <2>2, Zenon
  <2>4. QED BY <1>4, <2>1, <2>2, <2>3, Zenon DEF AfterCommit, LinkIn
<1>5. CASE ~l.resume
  <2>1. PICK k : k = [l EXCEPT !.pc = "receipt", !.after = l.offer.pos, !.base = l.offer.pos,
                               !.gen = l.gen + 1, !.seen = 0, !.offer = None]
    BY Zenon
  <2>2. /\ k \in LinkState /\ k.after = l.offer.pos /\ k.base = l.offer.pos /\ k.lo = l.lo
        /\ k.hi = l.hi /\ k.offer = None /\ k.pc = "receipt"
    BY <1>2, <1>3, <2>1, Zenon DEF LinkState
  <2>3. k.pc # "opened" /\ k.pc \notin {"begin", "download", "commit"}
    BY <2>2, Zenon
  <2>4. QED BY <1>5, <2>1, <2>2, <2>3, Zenon DEF AfterCommit, LinkIn
<1>6. QED BY <1>4, <1>5, Zenon

(* The archive becomes the baseline, now or before.                           *)
LEMMA CommitKept ==
  ASSUME IInv, NEW s \in Subs, Commit(s)
  PROVE  Kept
<1>1. CASE Fail(s)
  BY <1>1, FailKept, Zenon
<1>2. /\ link[s] \in LinkState /\ LinkIn(link[s], opened[s], Held(s), HeadSeq) /\ StoreOk
      /\ link[s].offer # None /\ link[s].gen \in Nat /\ Held(s) \in Nat /\ HeadSeq \in Nat
      /\ link[s].offer \in Manifest
  <2>1. link[s].pc = "commit"
    BY Zenon DEF Commit, At
  <2>2. QED BY <2>1, LinkFields, Zenon DEF LinkIn
<1>3. CASE /\ CommitRepeats(s, link[s].offer, link[s].gen)
           /\ Goto(s, AfterCommit(link[s])) /\ UNCHANGED <<pubVars, recvVars>>
  <2>1. Sound
    BY <1>2, <1>3, StillSound, Zenon
  <2>2. row[s] # None
    <3>1. ledger[s].gen = link[s].gen + 1
      BY <1>3, Zenon DEF CommitRepeats
    <3>2. ledger[s].gen # 0
      BY <1>2, <3>1
    <3>3. ledger[s] # NoLedger
      <4>1. NoLedger.gen = 0
        BY Zenon DEF NoLedger
      <4>2. QED BY <3>2, <4>1, Zenon
    <3>4. QED BY <1>2, <3>3, Facts, Zenon DEF Good
  <2>3. row[s] \in ReceiverRow /\ ledger[s] \in StoredLedger /\ RowOk(row[s], ledger[s])
    BY <1>2, <2>2, RowOfInstalled, Zenon
  <2>4. link[s].offer.pos <= Held(s)
    BY <1>3, <2>3, ArchivedIn, Zenon DEF CommitRepeats, Held
  <2>5. PICK l : l = AfterCommit(link[s])
    BY Zenon
  <2>6. l \in LinkState /\ LinkIn(l, opened[s], Held(s), HeadSeq)
    BY <1>2, <2>4, <2>5, AfterCommitShape, Zenon
  <2>7. QED BY <1>3, <2>1, <2>5, <2>6, Going, Zenon
<1>4. CASE /\ CommitSnapshotArchive(s, link[s].offer, link[s].gen)
           /\ Goto(s, AfterCommit(link[s])) /\ UNCHANGED pubVars
  <2>1. Sound /\ Held(s)' = link[s].offer.pos
    BY <1>2, <1>4, CommitSound, Zenon
  <2>2. /\ Held(s)' \in Nat /\ HeadSeq' \in Nat /\ Held(s) <= Held(s)' /\ HeadSeq <= HeadSeq'
        /\ opened[s] # None => opened'[s] # None /\ opened'[s].start = opened[s].start
    BY <2>1, SoundStep, Zenon
  <2>3. LinkIn(link[s], opened'[s], Held(s)', HeadSeq')
    BY <1>2, <2>2, LinkStays, Zenon
  <2>4. link[s].offer.pos <= Held(s)'
    BY <2>1, <2>2, Leq, Zenon
  <2>5. PICK l : l = AfterCommit(link[s])
    BY Zenon
  <2>6. l \in LinkState /\ LinkIn(l, opened'[s], Held(s)', HeadSeq')
    BY <1>2, <2>2, <2>3, <2>4, <2>5, AfterCommitShape, Zenon
  <2>7. QED BY <1>4, <2>1, <2>5, <2>6, Going, Zenon
<1>5. QED BY <1>1, <1>3, <1>4, Zenon DEF Commit

----------------------------------------------------------------------------
(* Sessions and processes are lost, and late calls take effect.               *)

(* The call a session leaves behind names what the loop went by.              *)
LEMMA LeftBehind ==
  ASSUME IInv, NEW s \in Subs, NEW c \in RemoteCall(s) \cup LocalCall(s)
  PROVE  CallIn(c, opened[s], Held(s), HeadSeq)
<1>1. /\ LinkIn(link[s], opened[s], Held(s), HeadSeq)
      /\ link[s].after \in Nat /\ link[s].gen \in Nat /\ link[s].auth \in Nat
      /\ link[s].lo \in Nat /\ link[s].hi \in Nat /\ link[s].offer \in Manifest \cup {None}
  BY LinkFields, Zenon
<1>2. CASE c = [op |-> "open"]
  BY <1>2, Zenon DEF CallIn
<1>3. ASSUME NEW p \in {link[s].base, link[s].after}, c = [op |-> "cover", r |-> Receipt(link[s], p)]
      PROVE  CallIn(c, opened[s], Held(s), HeadSeq)
  BY <1>3, ReceiptShape, Zenon DEF CallIn
<1>4. CASE c = [op |-> "ack", pos |-> link[s].after]
  BY <1>1, <1>4, Zenon DEF CallIn, LinkIn
<1>5. CASE link[s].pc = "opened" /\ c = [op |-> "install", auth |-> link[s].auth, start |-> link[s].start]
  BY <1>1, <1>5, Zenon DEF CallIn, LinkIn
<1>6. CASE c = [op |-> "accept", gen |-> link[s].gen, lo |-> link[s].lo, hi |-> link[s].hi]
  BY <1>1, <1>6, Zenon DEF CallIn, LinkIn
<1>7. CASE /\ link[s].pc \in {"begin", "commit"}
           /\ c \in {[op |-> "begin", offer |-> link[s].offer, gen |-> link[s].gen],
                     [op |-> "commit", offer |-> link[s].offer, gen |-> link[s].gen]}
  <2>1. link[s].offer # None
    BY <1>1, <1>7, Zenon DEF LinkIn
  <2>2. link[s].offer \in Manifest /\ link[s].offer.pos <= HeadSeq
    BY <1>1, <2>1, Zenon DEF LinkIn
  <2>3. QED BY <1>1, <1>7, <2>2, Zenon DEF CallIn
<1>8. CASE c \in RemoteCall(s)
  BY <1>2, <1>3, <1>4, <1>8, Zenon DEF RemoteCall
<1>9. CASE c \in LocalCall(s)
  BY <1>5, <1>6, <1>7, <1>9, Zenon DEF LocalCall
<1>10. QED BY <1>8, <1>9, Zenon

(* A node's loop goes down, and leaves at most its calls behind.              *)
LEMMA NodeDownKept ==
  ASSUME IInv, NEW n, NodeDown(n), detached' = [x \in Subs |-> detached'[x]],
         \A x \in Subs : \A c \in detached'[x] : c \in detached[x] \cup RemoteCall(x) \cup LocalCall(x)
  PROVE  Kept
<1>1. Sound /\ UNCHANGED <<pubVars, recvVars>>
  BY StillSound, Zenon DEF IInv, NodeDown
<1>2. /\ link' = [x \in Subs |-> IF Subscriber[x] = n THEN Down ELSE link[x]] /\ setup' = setup
      /\ link \in [Subs -> LinkState]
  BY Zenon DEF NodeDown, IInv, SessionTypes
<1>3. link' \in [Subs -> LinkState] /\ \A x \in Subs : link'[x] = link[x] \/ link'[x] = Down
  BY <1>2, DownShape, Zenon
<1>4. ASSUME NEW x \in Subs, NEW c \in detached'[x]
      PROVE  c \in detached[x] \/ CallIn(c, opened'[x], Held(x)', HeadSeq')
  <2>1. ASSUME c \in RemoteCall(x) \cup LocalCall(x)
        PROVE  CallIn(c, opened'[x], Held(x)', HeadSeq')
    <3>1. CallIn(c, opened[x], Held(x), HeadSeq)
      BY <2>1, LeftBehind, Zenon
    <3>2. opened' = opened /\ Held(x)' = Held(x) /\ HeadSeq' = HeadSeq
      BY <1>1, Zenon DEF pubVars, recvVars, Held, HeadSeq
    <3>3. QED BY <3>1, <3>2, Zenon
  <2>2. QED BY <2>1, Zenon
<1>5. QED BY <1>1, <1>2, <1>3, <1>4, Step, Zenon

(* A session is lost, with the call under way.                                *)
LEMMA LoseSessionKept ==
  ASSUME IInv, NEW s \in Subs, LoseSession(s)
  PROVE  Kept
<1>1. detached = [x \in Subs |-> detached[x]]
  BY Zenon DEF IInv, SessionTypes
<1>2. PICK sent \in SUBSET RemoteCall(s) :
        detached' = [detached EXCEPT ![s] = @ \cup sent \cup LocalCall(s)]
  BY Zenon DEF LoseSession
<1>3. /\ detached' = [x \in Subs |-> detached'[x]]
      /\ detached'[s] = detached[s] \cup sent \cup LocalCall(s)
      /\ \A x \in Subs : x # s => detached'[x] = detached[x]
  BY <1>1, <1>2, Zenon
<1>4. \A x \in Subs : \A c \in detached'[x] : c \in detached[x] \cup RemoteCall(x) \cup LocalCall(x)
  BY <1>2, <1>3, Zenon
<1>5. NodeDown(Subscriber[s])
  BY Zenon DEF LoseSession
<1>6. QED BY <1>3, <1>4, <1>5, NodeDownKept, Zenon

(* A process ends, and its workers with it.                                   *)
LEMMA CrashKept ==
  ASSUME IInv, NEW n, Crash(n)
  PROVE  Kept
<1>1. /\ detached' = [x \in Subs |-> IF Subscriber[x] # n THEN detached[x]
                                     ELSE {c \in detached[x] : c.op \notin LocalOps}]
      /\ NodeDown(n)
  BY Zenon DEF Crash
<1>2. detached' = [x \in Subs |-> detached'[x]] /\ \A x \in Subs : detached'[x] \subseteq detached[x]
  BY <1>1, Zenon
<1>3. QED BY <1>1, <1>2, NodeDownKept, Zenon

(* A late call that meets its guard is a sound step; refused it does nothing. *)
LEMMA EffectSound ==
  ASSUME IInv, NEW s \in Subs, NEW c \in detached[s], Effect(s, c)
  PROVE  Sound
<1>1. StoreOk /\ CallIn(c, opened[s], Held(s), HeadSeq)
  BY Zenon DEF IInv, CallsOk
<1>2. CASE UNCHANGED <<pubVars, recvVars>>
  BY <1>1, <1>2, StillSound, Zenon
<1>3. CASE c = [op |-> "open"]
  <2>1. c.op = "open"
    BY <1>3, Zenon
  <2>2. UNCHANGED <<pubVars, recvVars>> \/ (Open(s, All) /\ UNCHANGED recvVars)
    BY <2>1, Zenon DEF Effect
  <2>3. All \in Histories
    BY Zenon DEF Histories
  <2>4. QED BY <1>1, <1>2, <2>2, <2>3, OpenSound, Zenon
<1>4. ASSUME NEW p \in Nat, p <= Held(s), c = [op |-> "ack", pos |-> p] PROVE Sound
  <2>1. c.op = "ack" /\ c.pos = p
    BY <1>4, Zenon
  <2>2. UNCHANGED <<pubVars, recvVars>> \/ (Acknowledge(s, p) /\ UNCHANGED recvVars)
    BY <2>1, Zenon DEF Effect
  <2>3. QED BY <1>1, <1>2, <1>4, <2>2, AcknowledgeSound, Zenon
<1>5. ASSUME NEW r \in StoredReceived, r.through <= Held(s), c = [op |-> "cover", r |-> r] PROVE Sound
  <2>1. c.op = "cover" /\ c.r = r
    BY <1>5, Zenon
  <2>2. UNCHANGED <<pubVars, recvVars>> \/ (ReceiveSnapshot(s, r) /\ UNCHANGED recvVars)
    BY <2>1, Zenon DEF Effect
  <2>3. QED BY <1>1, <1>2, <1>5, <2>2, ReceiveSnapshotSound, Zenon
<1>6. ASSUME NEW a \in Nat, opened[s] # None,
             c = [op |-> "install", auth |-> a, start |-> opened[s].start] PROVE Sound
  <2>1. c.op = "install" /\ c.auth = a /\ c.start = opened[s].start
    BY <1>6, Zenon
  <2>2. \/ UNCHANGED <<pubVars, recvVars>>
        \/ InstallSubscription(s, a, opened[s].start) /\ UNCHANGED pubVars
    BY <2>1, Zenon DEF Effect
  <2>3. QED BY <1>1, <1>2, <1>6, <2>2, InstallSound, Zenon
<1>7. ASSUME NEW g \in Nat, NEW lo \in Nat, NEW hi \in Nat, lo <= HeadSeq,
             c = [op |-> "accept", gen |-> g, lo |-> lo, hi |-> hi] PROVE Sound
  <2>1. c.op = "accept" /\ c.gen = g /\ c.lo = lo
    BY <1>7, Zenon
  <2>2. UNCHANGED <<pubVars, recvVars>> \/ (Accept(s, g, lo) /\ UNCHANGED pubVars)
    BY <2>1, Zenon DEF Effect
  <2>3. QED BY <1>1, <1>2, <1>7, <2>2, AcceptSound, Zenon
<1>8. ASSUME NEW f \in Manifest, NEW g \in Nat, f.pos <= HeadSeq,
             c = [op |-> "begin", offer |-> f, gen |-> g] PROVE Sound
  <2>1. c.op = "begin" /\ c.offer = f /\ c.gen = g
    BY <1>8, Zenon
  <2>2. UNCHANGED <<pubVars, recvVars>> \/ (BeginSnapshotInstall(s, f, g) /\ UNCHANGED pubVars)
    BY <2>1, Zenon DEF Effect
  <2>3. QED BY <1>1, <1>2, <1>8, <2>2, BeginSound, Zenon
<1>9. ASSUME NEW f \in Manifest, NEW g \in Nat, c = [op |-> "commit", offer |-> f, gen |-> g]
      PROVE  Sound
  <2>1. c.op = "commit" /\ c.offer = f /\ c.gen = g
    BY <1>9, Zenon
  <2>2. UNCHANGED <<pubVars, recvVars>> \/ (CommitSnapshotArchive(s, f, g) /\ UNCHANGED pubVars)
    BY <2>1, Zenon DEF Effect
  <2>3. QED BY <1>1, <1>2, <2>2, CommitSound, Zenon
<1>10. QED BY <1>1, <1>3, <1>4, <1>5, <1>6, <1>7, <1>8, <1>9, Zenon DEF CallIn

(* A late call reaches its store.                                             *)
LEMMA DetachedKept ==
  ASSUME IInv, NEW s \in Subs, NEW c \in detached[s], Detached(s, c)
  PROVE  Kept
<1>1. Sound
  BY EffectSound, Zenon DEF Detached
<1>2. detached = [x \in Subs |-> detached[x]] /\ link \in [Subs -> LinkState]
  BY Zenon DEF IInv, SessionTypes
<1>3. /\ detached' = [detached EXCEPT ![s] = (@ \ {c}) \cup Rest(s, c)]
      /\ setup' = setup /\ link' = link
  BY Zenon DEF Detached
<1>4. /\ detached' = [x \in Subs |-> detached'[x]]
      /\ detached'[s] = (detached[s] \ {c}) \cup Rest(s, c)
      /\ \A x \in Subs : x # s => detached'[x] = detached[x]
  BY <1>2, <1>3, Zenon
<1>5. Held(s) \in Nat /\ HeadSeq \in Nat /\ CallIn(c, opened[s], Held(s), HeadSeq)
  BY LinkFields, Zenon DEF IInv, CallsOk
<1>6. ASSUME NEW e \in Rest(s, c) PROVE CallIn(e, opened[s], Held(s), HeadSeq)
  <2>1. c.op = "accept" /\ c.lo < c.hi /\ e = [c EXCEPT !.lo = c.lo + 1]
    BY <1>6, Zenon DEF Rest
  <2>2. PICK g, lo, hi \in Nat : /\ lo <= HeadSeq /\ hi <= HeadSeq
                                 /\ c = [op |-> "accept", gen |-> g, lo |-> lo, hi |-> hi]
    BY <1>5, <2>1 DEF CallIn
  <2>3. c.lo = lo /\ c.hi = hi
    BY <2>2, Zenon
  <2>4. lo + 1 \in Nat /\ lo + 1 <= HeadSeq
    BY <1>5, <2>1, <2>2, <2>3
  <2>5. e = [op |-> "accept", gen |-> g, lo |-> lo + 1, hi |-> hi]
    BY <2>1, <2>2, Zenon
  <2>6. QED BY <2>2, <2>4, <2>5, Zenon DEF CallIn
<1>7. ASSUME NEW x \in Subs, NEW e \in detached'[x]
      PROVE  e \in detached[x] \/ CallIn(e, opened'[x], Held(x)', HeadSeq')
  <2>1. ASSUME x = s, e \in Rest(s, c) PROVE CallIn(e, opened'[x], Held(x)', HeadSeq')
    <3>1. /\ Held(s)' \in Nat /\ HeadSeq' \in Nat /\ Held(s) <= Held(s)' /\ HeadSeq <= HeadSeq'
          /\ opened[s] # None => opened'[s] # None /\ opened'[s].start = opened[s].start
      BY <1>1, SoundStep, Zenon
    <3>2. CallIn(e, opened[s], Held(s), HeadSeq)
      BY <1>6, <2>1, Zenon
    <3>3. CallIn(e, opened'[s], Held(s)', HeadSeq')
      BY <1>5, <3>1, <3>2, CallStays, Zenon
    <3>4. QED BY <2>1, <3>3, Zenon
  <2>2. QED BY <1>4, <2>1, Zenon
<1>8. QED BY <1>1, <1>2, <1>3, <1>4, <1>7, Step, Zenon

----------------------------------------------------------------------------
(* Operators, applications and embedding hosts.                               *)
LEMMA HistoryOperators ==
  ASSUME IInv, Publish \/ Identities \/ Trim \/ Maintain \/ Membership \/ Time
  PROVE  Sound
<1>1. StoreOk /\ setup \in Setups /\ HeadSeq \in Nat /\ stream.epoch \in 1..MaxEpoch
  BY StreamShape, Zenon DEF IInv, SessionTypes, StoreOk
<1>2. UNCHANGED recvVars
  BY Zenon DEF Publish, Identities, Trim, Maintain, Membership, Time, AtPublisher
<1>3. CASE Publish
  <2>1. setup.ids \in Seq(SUBSET PublishIds) /\ HeadSeq < Len(setup.ids)
    BY <1>1, <1>3, SetupAssumption, Zenon DEF Publish
  <2>2. setup.ids[HeadSeq + 1] \in SUBSET PublishIds
    BY <1>1, <2>1
  <2>3. PICK e \in 1..stream.epoch, id \in setup.ids[HeadSeq + 1] : AppendPublished(e, id)
    BY <1>3, Zenon DEF Publish
  <2>4. id \in PublishIds
    BY <2>2, Zenon
  <2>5. QED BY <1>1, <1>2, <2>3, <2>4, AppendSound, Zenon
<1>4. CASE Identities
  BY <1>1, <1>2, <1>4, IdentitiesSound, Zenon DEF Identities
<1>5. CASE Trim
  <2>1. PICK last \in 1..HeadSeq : RetireHistory(last)
    BY <1>5, Zenon DEF Trim
  <2>2. last \in Nat
    BY <1>1
  <2>3. QED BY <1>1, <1>2, <2>1, <2>2, TrimSound, Zenon
<1>6. CASE Maintain
  BY <1>1, <1>2, <1>6, MaintainSound, Zenon DEF Maintain
<1>7. CASE Membership
  <2>1. PICK s \in setup.subs, until \in (IF Able("leases") THEN 0..MaxNow ELSE {0}) :
          \/ JoinReplica(s, until)
          \/ ExtendReplica(Subscriber[s], until)
          \/ RetireReplica(Subscriber[s])
    BY <1>7, Zenon DEF Membership
  <2>2. until \in Nat
    BY <2>1, PublisherAssumption
  <2>3. s \in Subs /\ Subscriber[s] \in Nodes
    BY <1>1, SetupAssumption, SubscriberAssumption, Zenon
  <2>4. QED BY <1>1, <1>2, <2>1, <2>2, <2>3, JoinSound, TermSound, Zenon
<1>8. CASE Time
  BY <1>1, <1>2, <1>8, TickSound, Zenon DEF Time
<1>9. QED BY <1>3, <1>4, <1>5, <1>6, <1>7, <1>8, Zenon

(* Operators and the projecting application at one subscription.              *)
LEMMA SubscriptionOperators ==
  ASSUME IInv, OpenOther \/ Revoke \/ Close \/ Offer \/ Project
  PROVE  Sound
<1>1. StoreOk /\ setup.subs \subseteq Subs /\ HeadSeq \in Nat
  BY SetupAssumption, StreamShape, Zenon DEF IInv, SessionTypes, StoreOk
<1>2. CASE OpenOther
  <2>1. PICK s \in setup.subs, h \in Histories : Open(s, h)
    BY <1>2, Zenon DEF OpenOther, Histories
  <2>2. UNCHANGED recvVars
    BY <1>2, Zenon DEF OpenOther, AtPublisher
  <2>3. QED BY <1>1, <2>1, <2>2, OpenSound, Zenon
<1>3. CASE Revoke
  <2>1. PICK s \in setup.subs, on \in BOOLEAN :
          \/ SetServeAuthority(Subscriber[s], on) /\ UNCHANGED recvVars
          \/ SetReceiveAuthority(Subscriber[s], on) /\ UNCHANGED pubVars
    BY <1>3, Zenon DEF Revoke, AtPublisher, AtReceiver
  <2>2. Subscriber[s] \in Nodes
    BY <1>1, SubscriberAssumption, Zenon
  <2>3. QED BY <1>1, <2>1, <2>2, AuthoritySound, Zenon
<1>4. CASE Close
  <2>1. PICK s \in setup.subs : \/ CloseSubscription(s) /\ UNCHANGED recvVars
                                \/ CloseSnapshotReceiver(s) /\ UNCHANGED pubVars
    BY <1>4, Zenon DEF Close, AtPublisher, AtReceiver
  <2>2. QED BY <1>1, <2>1, CloseSound, AbortSound, Zenon
<1>5. CASE Offer
  <2>1. PICK s \in setup.subs : RetireOffer(s) \/ \E p \in 1..HeadSeq : PublishOffer(s, p)
    BY <1>5, Zenon DEF Offer
  <2>2. UNCHANGED recvVars
    BY <1>5, Zenon DEF Offer, AtPublisher
  <2>3. QED BY <1>1, <2>1, <2>2, OfferSound, Zenon
<1>6. CASE Project
  <2>1. UNCHANGED pubVars
    BY <1>6, Zenon DEF Project, AtReceiver
  <2>2. \A p \in 1..HeadSeq : p \in Nat
    BY <1>1
  <2>3. PICK s \in setup.subs :
          \/ \E p \in 1..HeadSeq : RecordProjectionProgress(s, ledger[s].gen, p)
          \/ \E p \in 1..HeadSeq : RetireProjectedInbox(s, ledger[s].gen, p)
          \/ BindArchivedProjection(s)
          \/ \E p \in 1..HeadSeq : RetireSnapshottedInbox(s, p)
    BY <1>6, Zenon DEF Project
  <2>4. s \in Subs
    BY <1>1, Zenon
  <2>5. CASE \E p \in 1..HeadSeq : RecordProjectionProgress(s, ledger[s].gen, p)
    BY <1>1, <2>1, <2>2, <2>4, <2>5, ProjectSound, Zenon
  <2>6. CASE \E p \in 1..HeadSeq : RetireProjectedInbox(s, ledger[s].gen, p)
    BY <1>1, <2>1, <2>2, <2>4, <2>6, RetireInboxSound, Zenon
  <2>7. CASE \E p \in 1..HeadSeq : RetireSnapshottedInbox(s, p)
    BY <1>1, <2>1, <2>2, <2>4, <2>7, RetireSnapshottedSound, Zenon
  <2>8. QED BY <1>1, <2>1, <2>3, <2>4, <2>5, <2>6, <2>7, BindSound, Zenon
<1>7. QED BY <1>2, <1>3, <1>4, <1>5, <1>6, Zenon

(* The page an embedding host takes its next record from reaches past it.     *)
LEMMA NextOfPage ==
  ASSUME StoreOk, NEW s \in Subs, row[s] # None,
         ReadAllowed(s, Cursor(s)), ReadPage(s, Cursor(s), 1) # {}
  PROVE  Cursor(s) + 1 \in Nat /\ Cursor(s) + 1 <= HeadSeq
<1>1. Cursor(s) \in Nat /\ HeadSeq \in Nat
  BY RowOfInstalled, Zenon
<1>2. opened[s] # None
  BY Zenon DEF ReadAllowed, Serving, ServeAuthority
<1>3. opened[s].start \in Nat
  BY <1>2, RowOfOpened, Zenon DEF PublisherRow
<1>4. PICK q \in stream.rows : ReadFirst(s, Cursor(s)) <= q
  BY Zenon DEF ReadPage
<1>5. q \in Nat
  BY StreamShape, Zenon DEF StoreOk
<1>6. q <= HeadSeq
  BY <1>4, <1>5, Zenon DEF StoreOk, StreamOk
<1>7. QED BY <1>1, <1>3, <1>4, <1>5, <1>6 DEF ReadFirst

(* An embedding host drives its own subscription.                             *)
LEMMA EmbedSound ==
  ASSUME IInv, Embed
  PROVE  Sound
<1>1. StoreOk /\ setup.subs \subseteq Subs
  BY SetupAssumption, Zenon DEF IInv, SessionTypes
<1>2. ASSUME NEW s \in Subs, opened[s] # None, UNCHANGED pubVars,
             InstallSubscription(s, opened[s].auth, opened[s].start)
      PROVE  Sound
  <2>1. opened[s].auth \in Nat
    BY <1>1, <1>2, RowOfOpened, Zenon DEF PublisherRow
  <2>2. QED BY <1>1, <1>2, <2>1, InstallSound, Zenon
<1>3. ASSUME NEW s \in Subs, row[s] # None, ReadAllowed(s, Cursor(s)), ReadPage(s, Cursor(s), 1) # {},
             Accept(s, ledger[s].gen, Cursor(s) + 1), UNCHANGED pubVars
      PROVE  Sound
  BY <1>1, <1>3, NextOfPage, AcceptSound, Zenon
<1>4. ASSUME NEW s \in Subs, row[s] # None, Acknowledge(s, Cursor(s)), UNCHANGED recvVars
      PROVE  Sound
  <2>1. Cursor(s) \in Nat /\ Cursor(s) <= Held(s)
    BY <1>1, <1>4, RowOfInstalled, Zenon
  <2>2. QED BY <1>1, <1>4, <2>1, AcknowledgeSound, Zenon
<1>5. ASSUME NEW s \in Subs, CurrentOffer(s) # 0, UNCHANGED pubVars,
             BeginSnapshotInstall(s, [pos |-> CurrentOffer(s), auth |-> opened[s].auth], ledger[s].gen)
      PROVE  Sound
  <2>1. PICK f \in Manifest : f = [pos |-> CurrentOffer(s), auth |-> opened[s].auth]
    BY <1>1, <1>5, OfferShape, Zenon
  <2>2. f.pos <= HeadSeq
    BY <1>1, <1>5, <2>1, OfferShape, Zenon
  <2>3. ledger[s].gen \in Nat
    BY <1>1, Zenon DEF StoreOk, StoreTypes, StoredLedger
  <2>4. BeginSnapshotInstall(s, f, ledger[s].gen)
    BY <1>5, <2>1, Zenon
  <2>5. QED BY <1>1, <1>5, <2>2, <2>3, <2>4, BeginSound, Zenon
<1>6. ASSUME NEW s \in Subs, UNCHANGED pubVars,
             \/ CommitSnapshotAnchor(s, ledger[s].pending.offer, ledger[s].gen)
             \/ AbortSnapshotInstall(s)
      PROVE  Sound
  BY <1>1, <1>6, CommitSound, AbortSound, Zenon
<1>7. QED BY <1>1, <1>2, <1>3, <1>4, <1>5, <1>6, Zenon DEF Embed, AtReceiver, AtPublisher

----------------------------------------------------------------------------
(* The invariant of the whole.                                                *)
LEMMA InitInv ==
  ASSUME Init
  PROVE  IInv
<1>1. /\ stream = [log |-> <<>>, rows |-> {}, epoch |-> 1, min |-> 1, ids |-> <<>>]
      /\ serve = [n \in Nodes |-> [rev |-> 1, on |-> TRUE]]
      /\ opened = [s \in Subs |-> None] /\ members = [n \in Nodes |-> None]
      /\ offers = [s \in Subs |-> 0] /\ receipts = [s \in Subs |-> None] /\ now = 0
      /\ receive = [n \in Nodes |-> [rev |-> 1, on |-> TRUE]]
      /\ row = [s \in Subs |-> None] /\ inbox = [s \in Subs |-> <<>>]
      /\ ledger = [s \in Subs |-> NoLedger]
      /\ setup \in Setups /\ link = [s \in Subs |-> Down] /\ detached = [s \in Subs |-> {}]
  BY Zenon DEF Init, PublisherInit, ReceiverInit
<1>2. NoLedger \in StoredLedger /\ NoLedger.pending = None
  BY Zenon DEF NoLedger, StoredLedger
<1>3. [rev |-> 1, on |-> TRUE] \in AuthorityRow
  BY Zenon DEF AuthorityRow
<1>4. DOMAIN <<>> = {} /\ <<>> \in [{} -> Nat] /\ <<>> \in Seq(PublishKeys) /\ Len(<<>>) = 0
  OBVIOUS
<1>5. stream \in StreamRow
  <2>1. <<>> \in UNION {[ks -> Nat] : ks \in SUBSET PublishKeys}
    BY <1>4, Zenon
  <2>2. 1 \in 1..MaxEpoch /\ 1 \in Nat \ {0} /\ {} \in SUBSET Nat
    BY PublisherAssumption
  <2>3. QED BY <1>1, <1>4, <2>1, <2>2, Zenon DEF StreamRow
<1>6. <<>> \in Inbox
  BY <1>4, Zenon DEF Inbox
<1>7. StoreTypes
  BY <1>1, <1>2, <1>3, <1>5, <1>6, Zenon DEF StoreTypes
<1>8. HeadSeq = 0 /\ stream.min = 1 /\ stream.rows = {} /\ DOMAIN stream.log = {}
  BY <1>1, <1>4, Zenon DEF HeadSeq
<1>9. StreamOk
  <2>1. stream.min <= HeadSeq + 1
    BY <1>8
  <2>2. \A q \in Nat : q \in stream.rows <=> stream.min <= q /\ q <= HeadSeq
    BY <1>8
  <2>3. QED BY <1>8, <2>1, <2>2, Zenon DEF StreamOk
<1>10. ASSUME NEW s \in Subs PROVE SubOk(s)
  <2>1. DurableOf(None, None, NoLedger) = 0 /\ 0 <= 0
    BY Leq, Zenon DEF DurableOf
  <2>2. QED BY <1>1, <1>2, <1>4, <1>8, <2>1, Zenon DEF SubOk, Good
<1>11. \A n \in Nodes : MemberOk(n)
  BY <1>1, Zenon DEF MemberOk
<1>12. StoreOk
  BY <1>7, <1>9, <1>10, <1>11, Zenon DEF StoreOk
<1>13. SessionTypes
  BY <1>1, DownShape, Zenon DEF SessionTypes
<1>14. ASSUME NEW s \in Subs PROVE LinkOk(s) /\ CallsOk(s)
  <2>1. Held(s) \in Nat /\ HeadSeq \in Nat
    BY <1>12, Facts, Zenon
  <2>2. QED BY <1>1, <2>1, DownIn, Zenon DEF LinkOk, CallsOk
<1>15. QED BY <1>12, <1>13, <1>14, Zenon DEF IInv

(* Every step keeps the invariant and is sound for the stores.                *)
LEMMA NextKept ==
  ASSUME IInv, [Next]_vars
  PROVE  Kept
<1>1. CASE UNCHANGED vars
  <2>1. UNCHANGED <<pubVars, recvVars>> /\ UNCHANGED <<setup, link, detached>>
    BY <1>1, Zenon DEF vars
  <2>2. QED BY <2>1, StillSound, Elsewhere, Zenon DEF IInv
<1>2. CASE Operator
  <2>1. Sound
    BY <1>2, HistoryOperators, SubscriptionOperators, EmbedSound, Zenon DEF Operator
  <2>2. UNCHANGED <<setup, link, detached>>
    BY <1>2, Zenon DEF Operator, Publish, Identities, Trim, Maintain, Membership, Time, OpenOther,
                       Revoke, Close, Offer, Project, Embed, AtPublisher, AtReceiver
  <2>3. QED BY <2>1, <2>2, Elsewhere, Zenon
<1>3. ASSUME NEW s \in Subs, Follow(s) PROVE Kept
  BY <1>3, OpenRemoteKept, InstallLocalKept, InspectRemoteKept, LocalProgressKept,
     ResumeInstallKept, SendReceiptKept, ConfirmKept, ReadKept, AcceptNextKept,
     InspectOfferKept, BeginKept, DownloadKept, CommitKept, Zenon DEF Follow
<1>4. CASE \E n \in Nodes : Session(n)
  BY <1>3, <1>4, Zenon DEF Session
<1>5. CASE \E s \in Subs : LoseSession(s) \/ \E c \in detached[s] : Detached(s, c)
  BY <1>5, LoseSessionKept, DetachedKept, Zenon
<1>6. CASE \E n \in Nodes : Crash(n)
  BY <1>6, CrashKept, Zenon
<1>7. QED BY <1>1, <1>2, <1>4, <1>5, <1>6, Zenon DEF Next

(* In every reachable state the stores are well formed and whatever a session *)
(* or a late call goes by is behind them.                                     *)
THEOREM Invariant == Spec => []IInv
<1>1. Init => IInv
  BY InitInv, Zenon
<1>2. IInv /\ [Next]_vars => IInv'
  BY NextKept, Zenon DEF Kept
<1>3. QED BY <1>1, <1>2, PTL DEF Spec

(* What the publisher counts as confirmed, by acknowledgement or by archive   *)
(* receipt, the receiver durably holds: a lost, repeated or late confirmation *)
(* (private_follows.rs) never runs ahead of the inbox.                        *)
THEOREM ConfirmedCorrect == Spec => []ConfirmedIsDurable
<1>1. IInv => ConfirmedIsDurable
  BY ConfirmedHeld, DurableIs, Zenon DEF IInv, ConfirmedIsDurable
<1>2. QED BY <1>1, Invariant, PTL

(* A received record is at its place: AcceptResult never reports corruption.  *)
LEMMA NeverCorrupt ==
  ASSUME StoreOk, NEW s \in Subs, row[s] # None, NEW q \in Nat
  PROVE  AcceptResult(s, ledger[s].gen, q) # "corrupt"
<1>1. /\ row[s] \in ReceiverRow /\ RowOk(row[s], ledger[s]) /\ InboxOk(row[s], ledger[s], inbox[s])
      /\ Base(s) = BaseOf(row[s], ledger[s]) /\ Base(s) \in Nat
      /\ Cursor(s) = CursorOf(row[s], ledger[s]) /\ Cursor(s) \in Nat
      /\ RetireFirst(s) = FirstOf(row[s], ledger[s])
  BY RowOfInstalled, Zenon
<1>2. row[s].received \in Nat /\ row[s].projected \in Nat /\ row[s].retired \in Nat
  BY <1>1, Zenon DEF ReceiverRow
<1>3. ~(row[s].projected > row[s].received \/ row[s].retired > row[s].projected)
  BY <1>1, <1>2 DEF RowOk
<1>4. q \in DOMAIN inbox[s] /\ Base(s) < q <=> RetireFirst(s) <= q /\ q <= Cursor(s)
  BY <1>1, Zenon DEF InboxOk
<1>5. ASSUME ~(q <= Base(s)), q <= Cursor(s), ~(q < row[s].retired)
      PROVE  q = row[s].retired \/ q \in DOMAIN inbox[s]
  <2>1. q = row[s].retired \/ RetireFirst(s) <= q
    BY <1>1, <1>2, <1>5 DEF RetireFirst
  <2>2. QED BY <1>4, <1>5, <2>1, Zenon
<1>6. ASSUME ~(q <= Base(s)), ~(q <= Cursor(s)) PROVE q \notin DOMAIN inbox[s]
  BY <1>1, <1>4, <1>6
<1>7. QED BY <1>3, <1>5, <1>6, Zenon DEF AcceptResult

(* Neither store can meet one of its Corrupt branches, through any sequence   *)
(* of deliveries, projections, retirements, trims and snapshot installations. *)
THEOREM StoresCorrect == Spec => []StoresNeverCorrupt
<1>1. ASSUME IInv PROVE StoresNeverCorrupt
  <2>1. StoreOk /\ StreamOk /\ stream.rows \subseteq Nat /\ stream.min \in Nat /\ HeadSeq \in Nat
    BY <1>1, StreamShape, Zenon DEF IInv, StoreOk
  <2>2. stream.rows = stream.min .. HeadSeq
    <3>1. \A q \in stream.min .. HeadSeq : q \in Nat /\ stream.min <= q /\ q <= HeadSeq
      BY <2>1
    <3>2. \A q \in Nat : stream.min <= q /\ q <= HeadSeq => q \in stream.min .. HeadSeq
      BY <2>1
    <3>3. \A q \in Nat : q \in stream.rows <=> stream.min <= q /\ q <= HeadSeq
      BY <2>1, Zenon DEF StreamOk
    <3>4. QED BY <2>1, <3>1, <3>2, <3>3, Zenon
  <2>3. ASSUME NEW s \in Subs, row[s] # None
        PROVE  LET g == IF Installed(s) THEN ledger[s].gen ELSE 0 IN
               /\ {q \in DOMAIN inbox[s] : q > Base(s)} = RetireFirst(s) .. Cursor(s)
               /\ \A q \in DOMAIN inbox[s] : inbox[s][q] = g <=> q > Base(s)
               /\ \A q \in 1..HeadSeq + 1 : AcceptResult(s, g, q) # "corrupt"
    <3>1. /\ row[s] \in ReceiverRow /\ ledger[s] \in StoredLedger /\ inbox[s] \in Inbox
          /\ RowOk(row[s], ledger[s]) /\ InboxOk(row[s], ledger[s], inbox[s])
          /\ Base(s) = BaseOf(row[s], ledger[s]) /\ Base(s) \in Nat
          /\ Cursor(s) = CursorOf(row[s], ledger[s]) /\ Cursor(s) \in Nat
          /\ RetireFirst(s) = FirstOf(row[s], ledger[s]) /\ RetireFirst(s) \in Nat
      BY <2>1, <2>3, RowOfInstalled, Zenon
    <3>2. ledger[s].gen = IF Installed(s) THEN ledger[s].gen ELSE 0
      BY <3>1, Zenon DEF RowOk, Installed
    <3>3. \A q \in Nat : q \in DOMAIN inbox[s] /\ Base(s) < q
                           <=> RetireFirst(s) <= q /\ q <= Cursor(s)
      BY <3>1, Zenon DEF InboxOk
    <3>4. DOMAIN inbox[s] \subseteq Nat
      BY <3>1, InboxShape, Zenon
    <3>5. {q \in DOMAIN inbox[s] : q > Base(s)} = RetireFirst(s) .. Cursor(s)
      <4>1. \A q \in RetireFirst(s) .. Cursor(s) : q \in Nat /\ RetireFirst(s) <= q /\ q <= Cursor(s)
        BY <3>1
      <4>2. \A q \in Nat : /\ RetireFirst(s) <= q /\ q <= Cursor(s) => q \in RetireFirst(s) .. Cursor(s)
                           /\ q > Base(s) <=> Base(s) < q
        BY <3>1
      <4>3. QED BY <3>3, <3>4, <4>1, <4>2, Zenon
    <3>6. \A q \in DOMAIN inbox[s] : inbox[s][q] = ledger[s].gen <=> q > Base(s)
      <4>1. \A q \in DOMAIN inbox[s] : inbox[s][q] = ledger[s].gen <=> Base(s) < q
        BY <3>1, Zenon DEF InboxOk
      <4>2. \A q \in Nat : q > Base(s) <=> Base(s) < q
        BY <3>1, Zenon
      <4>3. QED BY <3>4, <4>1, <4>2, Zenon
    <3>7. \A q \in 1..HeadSeq + 1 : AcceptResult(s, ledger[s].gen, q) # "corrupt"
      <4>1. \A q \in 1..HeadSeq + 1 : q \in Nat
        BY <2>1
      <4>2. QED BY <2>1, <2>3, <4>1, NeverCorrupt, Zenon
    <3>8. QED BY <3>2, <3>5, <3>6, <3>7, Zenon
  <2>4. QED BY <2>2, <2>3, Zenon DEF StoresNeverCorrupt
<1>2. QED BY <1>1, Invariant, PTL

(* A record leaves the inbox only once the application projected it, or a     *)
(* projected snapshot of a later generation covers it.                        *)
THEOREM ProjectionCorrect == Spec => NothingUnprojectedLeaves
<1>1. IInv /\ [Next]_vars =>
        [\A s \in Subs : \A q \in DOMAIN inbox[s] \ DOMAIN inbox'[s] :
           \/ inbox[s][q] = ledger[s].gen /\ q <= row[s].projected
           \/ inbox[s][q] < ledger[s].gen /\ q <= ledger[s].active]_vars
  BY NextKept, Zenon DEF Kept, Sound, LeavesOk
<1>2. QED BY <1>1, Invariant, PTL DEF Spec, NothingUnprojectedLeaves

(* The two stores, their sessions and their late calls implement the          *)
(* replicated log: identities are added once, cursors only move forward, and  *)
(* trimming never overtakes a subscription that history is owed to.           *)
THEOREM LogImplemented == Spec => ImplementsReplicatedLog
<1>1. Init => Log!LogInit
  <2> SUFFICES ASSUME Init PROVE Log!LogInit
    BY Zenon
  <2>2. stream.log = <<>> /\ stream.min = 1
    BY Zenon DEF Init, PublisherInit
  <2>3. [s \in Subs |-> Durable(s)] = [s \in Subs |-> 0]
    BY Zenon DEF Init, PublisherInit, ReceiverInit, Durable
  <2>4. {members[n].sub : n \in ActiveMembers} = {}
    BY Zenon DEF Init, PublisherInit, ActiveMembers
  <2>5. QED BY <2>2, <2>3, <2>4, Zenon DEF Log!LogInit
<1>2. IInv /\ [Next]_vars => [Log!LogNext]_(Log!logVars)
  BY NextKept, Zenon DEF Kept, Sound, LogStep
<1>3. QED BY <1>1, <1>2, Invariant, PTL DEF Spec, ImplementsReplicatedLog, Log!LogSpec

==============================================================================
