---------------------------- MODULE HandleTable ----------------------------
(***************************************************************************)
(* The fixed-capacity table of generational capability handles             *)
(* (xolotl-core, authority.rs and authority/slot.rs).                      *)
(*                                                                         *)
(* A slot holds one handle at a time.  A key names a slot and the          *)
(* generation installed in it, so that a key kept after its handle is gone *)
(* does not name the next occupant.  A handle may be derived from another: *)
(* it then records the parent's key and counts in the parent's `children`. *)
(* A released handle stays as an anchor while it has children.             *)
(*                                                                         *)
(* A rejected call changes nothing and is a stuttering step.  The loop of  *)
(* reclaim_ancestors is modelled one iteration per step: `detaching` holds *)
(* the parent the loop visits next, and while it is set no other operation *)
(* is enabled, because the loop runs under the caller's `&mut self`.       *)
(***************************************************************************)
EXTENDS Integers, FiniteSets

CONSTANTS
    Capacity,        \* number of slots the host supplies
    MaxGeneration,   \* u64::MAX in the code
    Owners, Resources,
    Methods,         \* the bits of a method mask
    None

ASSUME CapacityAssumption == Capacity \in Nat \ {0}
ASSUME GenerationAssumption == MaxGeneration \in Nat \ {0}

Slots == 0 .. Capacity - 1
Keys == [slot : Slots, generation : 1 .. MaxGeneration]

ASSUME NoneAssumption == None \notin Keys

VARIABLES
    slots,       \* the host's storage
    detaching,   \* the parent reclaim_ancestors visits next, or None
    lineage,     \* history: every key ever returned -> the parent it was given
    revoked      \* history: the keys revoked by name

vars == <<slots, detaching, lineage, revoked>>

HandleSlot ==
    [generation : 0 .. MaxGeneration, state : {"Vacant", "Active", "Released"},
     parent : Keys \cup {None}, children : Nat,
     owner : Owners, resource : Resources, methods : SUBSET Methods]

TypeOK ==
    /\ slots \in [Slots -> HandleSlot]
    /\ detaching \in Keys \cup {None}
    /\ DOMAIN lineage \subseteq Keys
    /\ lineage \in [DOMAIN lineage -> Keys \cup {None}]
    /\ revoked \subseteq Keys

-----------------------------------------------------------------------------
(* HandleSlot *)

KeyOf(s) == [slot |-> s, generation |-> slots[s].generation]

Reusable(s) == slots[s].state = "Vacant" /\ slots[s].generation < MaxGeneration

Matches(k) == slots[k.slot].state = "Active" /\ slots[k.slot].generation = k.generation

Retains(k) == slots[k.slot].state # "Vacant" /\ slots[k.slot].generation = k.generation

Retained == {k \in Keys : Retains(k)}

(* The keys of S from which following `parent` at most n times, in S,       *)
(* reaches a root.                                                          *)
Rooted(S, n) ==
    LET rooted[i \in 0 .. n] ==
            IF i = 0 THEN {j \in S : slots[j.slot].parent = None}
            ELSE LET near == rooted[i - 1]
                 IN near \cup {j \in S : slots[j.slot].parent \in near}
    IN rooted[n]

(* Fault: ancestors must be active, so a release cuts off descendants. *)
ValidateActiveAncestors(k) == Matches(k) /\ k \in Rooted({j \in Keys : Matches(j)}, Capacity)

(* The key still owns its slot, and following `parent` reaches a root      *)
(* through retained keys in at most Capacity steps.                        *)
Validate(k) == Matches(k) /\ k \in Rooted(Retained, Capacity)

(* Fault: the count of a revoked parent survives into the next occupant. *)
ReclaimedKeepingCount(handle) == [handle EXCEPT !.state = "Vacant", !.parent = None]

Reclaimed(handle) == [handle EXCEPT !.state = "Vacant", !.children = 0, !.parent = None]

-----------------------------------------------------------------------------
(* HandleTable *)

Init ==
    /\ \E o \in Owners, r \in Resources :
          slots = [s \in Slots |-> [generation |-> 0, state |-> "Vacant", parent |-> None,
                                    children |-> 0, owner |-> o, resource |-> r, methods |-> {}]]
    /\ detaching = None
    /\ lineage = <<>>
    /\ revoked = {}

Idle == detaching = None

(* Fault: only the first occupant of a slot gets a fresh generation. *)
InstallSameGeneration(owner, resource, methods, parent) ==
    \E s \in Slots :
       LET key == [slot |-> s, generation |-> IF slots[s].generation = 0 THEN 1
                                              ELSE slots[s].generation] IN
       /\ Reusable(s)
       /\ \A t \in Slots : t < s => ~Reusable(t)
       /\ slots' = [t \in Slots |->
             IF t = s
             THEN [generation |-> key.generation, state |-> "Active", parent |-> parent,
                   children |-> slots[s].children, owner |-> owner,
                   resource |-> resource, methods |-> methods]
             ELSE IF parent # None /\ t = parent.slot
             THEN [slots[t] EXCEPT !.children = @ + 1]
             ELSE slots[t]]
       /\ lineage' = [k \in DOMAIN lineage \cup {key} |-> IF k = key THEN parent ELSE lineage[k]]
       /\ UNCHANGED <<detaching, revoked>>

(* The first reusable slot takes the handle; the parent gains a child.     *)
(* `children` cannot reach usize::MAX: ChildCount bounds it by Capacity.   *)
InstallWithParent(owner, resource, methods, parent) ==
    \E s \in Slots :
       LET key == [slot |-> s, generation |-> slots[s].generation + 1] IN
       /\ Reusable(s)
       /\ \A t \in Slots : t < s => ~Reusable(t)
       /\ slots' = [t \in Slots |->
             IF t = s
             THEN [generation |-> key.generation, state |-> "Active", parent |-> parent,
                   children |-> slots[s].children, owner |-> owner,
                   resource |-> resource, methods |-> methods]
             ELSE IF parent # None /\ t = parent.slot
             THEN [slots[t] EXCEPT !.children = @ + 1]
             ELSE slots[t]]
       /\ lineage' = [k \in DOMAIN lineage \cup {key} |-> IF k = key THEN parent ELSE lineage[k]]
       /\ UNCHANGED <<detaching, revoked>>

Install(owner, resource, methods) ==
    /\ Idle
    /\ InstallWithParent(owner, resource, methods, None)

(* Fault: the requested methods are not compared with the parent's. *)
DeriveAnyMethods(parent, owner, child, methods) ==
    /\ Idle
    /\ Validate(parent)
    /\ slots[parent.slot].owner = owner
    /\ InstallWithParent(child, slots[parent.slot].resource, methods, parent)

Derive(parent, owner, child, methods) ==
    /\ Idle
    /\ Validate(parent)
    /\ slots[parent.slot].owner = owner
    /\ methods \subseteq slots[parent.slot].methods
    /\ InstallWithParent(child, slots[parent.slot].resource, methods, parent)

Release(k, owner) ==
    /\ Idle
    /\ slots[k.slot].owner = owner
    /\ Matches(k)
    /\ IF slots[k.slot].children = 0
       THEN /\ slots' = [slots EXCEPT ![k.slot] = Reclaimed(@)]
            /\ detaching' = slots[k.slot].parent
       ELSE /\ slots' = [slots EXCEPT ![k.slot].state = "Released"]
            /\ UNCHANGED detaching
    /\ UNCHANGED <<lineage, revoked>>

Revoke(k, owner) ==
    /\ Idle
    /\ slots[k.slot].owner = owner
    /\ Retains(k)
    /\ slots' = [slots EXCEPT ![k.slot] = Reclaimed(@)]
    /\ detaching' = slots[k.slot].parent
    /\ revoked' = revoked \cup {k}
    /\ UNCHANGED lineage

(* One iteration of reclaim_ancestors: detach_child on the parent. *)
DetachChild ==
    /\ detaching # None
    /\ LET s == detaching.slot
           last == slots[s].children = 1 /\ slots[s].state = "Released"
       IN IF Retains(detaching) /\ slots[s].children > 0
          THEN /\ slots' = IF last THEN [slots EXCEPT ![s] = Reclaimed(@)]
                           ELSE [slots EXCEPT ![s].children = @ - 1]
               /\ detaching' = IF last THEN slots[s].parent ELSE None
          ELSE detaching' = None /\ UNCHANGED slots
    /\ UNCHANGED <<lineage, revoked>>

Next ==
    \/ \E o \in Owners, r \in Resources, m \in SUBSET Methods : Install(o, r, m)
    \/ \E k \in Keys, o, c \in Owners, m \in SUBSET Methods : Derive(k, o, c, m)
    \/ \E k \in Keys, o \in Owners : Release(k, o)
    \/ \E k \in Keys, o \in Owners : Revoke(k, o)
    \/ DetachChild

Spec == Init /\ [][Next]_vars

-----------------------------------------------------------------------------
(* Properties *)

ChildrenOf(k) == {s \in Slots : slots[s].state # "Vacant" /\ slots[s].parent = k}

(* slot.rs detach_child, "The table calls this exactly once per reclaimed  *)
(* child generation": the count of a retained handle is the number of      *)
(* occupied slots that name it as their parent, plus the one child whose   *)
(* reclamation is still walking up to it.  An orphan, whose parent was     *)
(* revoked, is never counted by the slot's next occupant.                  *)
ChildCount ==
    \A k \in Retained :
       slots[k.slot].children = Cardinality(ChildrenOf(k)) + (IF detaching = k THEN 1 ELSE 0)

(* slot.rs release, "preserving only the anchor needed by descendants":    *)
(* once an operation has returned, a released slot still anchors at least  *)
(* one child, so no slot is lost to a released handle nobody derives from. *)
ReleasedIsAnchor ==
    Idle => \A s \in Slots : slots[s].state = "Released" => ChildrenOf(KeyOf(s)) # {}

(* authority.rs derive, "Delegate only a subset of the parent's method     *)
(* rights": however long the chain, and whatever was released or reused in *)
(* between, a retained handle whose parent is retained gives no method and *)
(* no resource that its parent does not.                                   *)
Attenuation ==
    \A k \in Retained :
       LET p == slots[k.slot].parent IN
       (p # None /\ p \in Retained) =>
          /\ slots[k.slot].methods \subseteq slots[p.slot].methods
          /\ slots[k.slot].resource = slots[p.slot].resource

(* slot.rs reusable, "without reusing a generation": a key that was issued *)
(* once is never issued again, and its recorded parent never changes.      *)
KeysIssuedOnce ==
    [][\A k \in DOMAIN lineage : k \in DOMAIN lineage' /\ lineage'[k] = lineage[k]
       /\ (k \notin Retained => k \notin Retained')]_vars

(* slot.rs validate, "`capacity` bounds traversal even if imported metadata *)
(* contains a cycle": in a table built by the operations the bound never    *)
(* bites, because no non-empty set of retained handles is closed under      *)
(* `parent`.                                                                *)
NoParentCycle ==
    \A S \in SUBSET Retained :
       S # {} => \E k \in S : slots[k.slot].parent \notin S

Rights(k) == [owner |-> slots[k.slot].owner, resource |-> slots[k.slot].resource,
              methods |-> slots[k.slot].methods]

D == INSTANCE Delegation WITH authority <- [k \in {j \in Keys : Validate(j)} |-> Rights(k)]

(* The table implements the delegation forest: the keys whose ancestry     *)
(* walk succeeds are exactly the ones still held and with no revoked       *)
(* ancestor, whatever slots were released, reclaimed and reused.           *)
ImplementsDelegation == D!DSpec
=============================================================================
