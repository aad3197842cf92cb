------------------------- MODULE FederationConstants -------------------------
(* What the publisher's and the receiver's store share.  A subscription       *)
(* identity names its subscriber node.                                        *)
EXTENDS Naturals

CONSTANTS Subs,          \* subscription identities
          Nodes,         \* subscriber nodes
          Subscriber,    \* the node each subscription identity belongs to
          MaxAuthority,  \* bound on the revisions of an authority row
          None

ASSUME SubscriberAssumption == Subscriber \in [Subs -> Nodes]

(* An authority row: may the node, under which revision of that answer.       *)
AuthorityRow == [rev : Nat, on : BOOLEAN]

(* Table::insert.                                                             *)
With(f, k, v) == [x \in DOMAIN f \cup {k} |-> IF x = k THEN v ELSE f[x]]
==============================================================================
