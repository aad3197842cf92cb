---------------------------- MODULE MCReplication ----------------------------
(* Small instances of Replication: two subscriber nodes, two subscriptions of *)
(* the first.  Each setup exercises one group of operations with the faults   *)
(* that matter to it.                                                         *)
EXTENDS Replication, TLC

CONSTANTS a, b, s1, s2, s3, p1, p2, p3

MCNodes == {a, b}
MCSubs == {s1, s2, s3}
MCSubscriber == s1 :> a @@ s2 :> a @@ s3 :> b
MCPublishIds == {p1, p2, p3}

Setup(ofA, ofB, subs, ops, lost, ids) ==
  [plans |-> (a :> ofA @@ b :> ofB), subs |-> subs, ops |-> ops,
   losses |-> lost, ids |-> ids]

Two == <<{p1}, {p2}>>
Three == <<{p1}, {p2}, {p3}>>

\* a lagging follower, lost sessions and crashes, trimmed history, snapshots
Lagging == Setup(<<s1>>, <<>>, {s1}, {"trim", "snapshot"}, 2, Three)
\* a receiver or subscription closed in the middle of an installation
Closed == Setup(<<s1>>, <<>>, {s1}, {"close", "trim", "snapshot"}, 0, Two)
\* two subscriptions that share one session
Shared == Setup(<<s1, s2>>, <<>>, {s1}, {"trim"}, 1, Two)
\* the history kept for two replica members
Leased == Setup(<<s1>>, <<s3>>, {s1, s3}, {"members"}, 0, Two)
\* a member whose lease runs out and that joins again
Rejoined == Setup(<<s1>>, <<>>, {s1, s2}, {"members", "leases", "open"}, 0, Two)
\* authority and subscriptions withdrawn at any moment
Revoked == Setup(<<s1>>, <<>>, {s1}, {"authority", "close"}, 1, Two)
\* the application projects what the follower archived
Projected == Setup(<<s1>>, <<>>, {s1}, {"trim", "snapshot", "project"}, 0, Three)
\* a host that installs projected snapshots itself
Embedded == Setup(<<>>, <<>>, {s1}, {"open", "trim", "snapshot", "project", "embed"}, 0, Three)
\* publication identities over two retry epochs
Epochs == Setup(<<>>, <<>>, {}, {"identities"}, 0, [n \in 1..3 |-> {p1, p2}])

MCSetups == {Lagging, Shared, Leased, Rejoined, Revoked, Closed, Projected, Embedded, Epochs}

\* a single loss is enough to strand a lagging follower
GapSetups == {[Lagging EXCEPT !.losses = 1]}
==============================================================================
