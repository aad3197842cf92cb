------------------------- MODULE HandleTableProofs -------------------------
(* Proofs that the capability table keeps its invariants, for every        *)
(* capacity, generation width and set of owners, resources and methods.    *)
EXTENDS HandleTable, FiniteSetTheorems, TLAPS

(* What makes ChildCount and Attenuation inductive: a vacant slot carries  *)
(* no children and no parent, a parent key never comes from the future of  *)
(* its slot, and exactly the keys up to each slot's generation were issued.*)
Bookkeeping ==
    /\ \A s \in Slots : slots[s].state = "Vacant" => slots[s].children = 0 /\ slots[s].parent = None
    /\ \A s \in Slots : slots[s].state = "Released" => slots[s].children > 0
    /\ \A s \in Slots : slots[s].state # "Vacant" => slots[s].generation > 0
    /\ \A s \in Slots : slots[s].parent # None =>
          slots[s].parent.generation <= slots[slots[s].parent.slot].generation
    /\ detaching # None => detaching.generation <= slots[detaching.slot].generation
    /\ \A k \in Keys : k \in DOMAIN lineage <=> k.generation <= slots[k.slot].generation

IInv == TypeOK /\ Bookkeeping /\ ChildCount /\ Attenuation /\ NoParentCycle

(* The children of a handle form a finite set of slots. *)
LEMMA ChildrenFinite ==
    ASSUME NEW k
    PROVE  IsFiniteSet(ChildrenOf(k)) /\ Cardinality(ChildrenOf(k)) \in Nat
<1>1. IsFiniteSet(Slots)
  BY FS_Interval, CapacityAssumption DEF Slots
<1>2. ChildrenOf(k) \in SUBSET Slots
  BY Zenon DEF ChildrenOf
<1> QED
  BY <1>1, <1>2, FS_Subset, FS_CardinalityType, Zenon

(* Generations of slots and of keys are natural numbers. *)
LEMMA GenerationNat ==
    /\ \A h \in HandleSlot : h.generation \in Nat
    /\ \A k \in Keys : k.generation \in Nat
BY GenerationAssumption DEF HandleSlot, Keys

(* An empty table satisfies the invariant. *)
LEMMA InitIInv == Init => IInv
<1> SUFFICES ASSUME Init PROVE IInv
  BY Zenon
<1>0. PICK o \in Owners, r \in Resources :
         slots = [s \in Slots |-> [generation |-> 0, state |-> "Vacant", parent |-> None,
                                   children |-> 0, owner |-> o, resource |-> r, methods |-> {}]]
  BY Zenon DEF Init
<1>1. TypeOK
  BY <1>0, GenerationAssumption DEF Init, TypeOK, HandleSlot, Keys
<1>2. Retained = {}
  BY <1>0, Zenon DEF Retained, Retains, Keys
<1>3. Bookkeeping
  BY <1>0 DEF Init, Bookkeeping, Keys
<1>4. ChildCount /\ Attenuation /\ NoParentCycle
  BY <1>2, Zenon DEF ChildCount, Attenuation, NoParentCycle
<1> QED
  BY <1>1, <1>3, <1>4, Zenon DEF IInv

(* Reclaiming slot s, whose count of children no longer matters, moves its *)
(* reference to the parent from `slots` to `detaching`.  This is what      *)
(* revoke does, what release does to a handle without children, and what   *)
(* detach_child does to a released handle that loses its last child.       *)
LEMMA ReclaimStep ==
    ASSUME IInv, NEW s \in Slots, slots[s].state # "Vacant",
           detaching \in {None, KeyOf(s)},
           slots' = [slots EXCEPT ![s] = Reclaimed(@)],
           detaching' = slots[s].parent,
           lineage' = lineage, revoked' \subseteq Keys
    PROVE  IInv'
<1> DEFINE p == slots[s].parent
<1>t. TypeOK /\ Bookkeeping /\ ChildCount /\ Attenuation /\ NoParentCycle
  BY Zenon DEF IInv
<1>s. slots[s] \in HandleSlot /\ p \in Keys \cup {None} /\ slots \in [Slots -> HandleSlot]
  BY <1>t, Zenon DEF TypeOK, HandleSlot
<1>r. Reclaimed(slots[s]) \in HandleSlot
  BY <1>s, Zenon DEF Reclaimed, HandleSlot
<1>1. TypeOK'
  BY <1>t, <1>s, <1>r, Zenon DEF TypeOK
<1>v. /\ slots'[s].state = "Vacant" /\ slots'[s].children = 0 /\ slots'[s].parent = None
      /\ slots'[s].generation = slots[s].generation
      /\ \A t \in Slots \ {s} : slots'[t] = slots[t]
  BY <1>s, Zenon DEF Reclaimed, HandleSlot
<1>g. \A t \in Slots : slots'[t].generation = slots[t].generation
  BY <1>v, Zenon
<1>2. Bookkeeping'
  <2>1. \A t \in Slots : slots'[t].parent # None =>
          slots'[t].parent.generation <= slots'[slots'[t].parent.slot].generation
    BY <1>t, <1>v, <1>g DEF Bookkeeping, TypeOK, HandleSlot, Keys
  <2>2. detaching' # None => detaching'.generation <= slots'[detaching'.slot].generation
    BY <1>t, <1>s, <1>g, Zenon DEF Bookkeeping, Keys
  <2>3. \A k \in Keys : k \in DOMAIN lineage' <=> k.generation <= slots'[k.slot].generation
    BY <1>t, <1>g, Zenon DEF Bookkeeping, Keys
  <2> QED
    BY <1>t, <1>v, <2>1, <2>2, <2>3 DEF Bookkeeping
<1>k. \A k \in Keys : Retains(k)' => Retains(k) /\ k # KeyOf(s) /\ k.slot # s
  BY <1>v DEF Retains, Keys, KeyOf
<1>3. ChildCount'
  <2> SUFFICES ASSUME NEW k \in Keys, Retains(k)'
               PROVE  slots'[k.slot].children
                        = Cardinality(ChildrenOf(k)') + (IF detaching' = k THEN 1 ELSE 0)
    BY Zenon DEF ChildCount, Retained, ChildrenOf
  <2>1. Retains(k) /\ k # KeyOf(s) /\ k.slot # s /\ k.slot \in Slots /\ detaching # k
    BY <1>k, NoneAssumption, Zenon DEF Keys
  <2>2. slots'[k.slot].children = Cardinality(ChildrenOf(k))
    BY <1>t, <1>v, <2>1, ChildrenFinite DEF ChildCount, Retained
  <2>3. ChildrenOf(k)' = ChildrenOf(k) \ {s}
    BY <1>v, NoneAssumption, Zenon DEF ChildrenOf
  <2>4. s \in ChildrenOf(k) <=> detaching' = k
    BY Zenon DEF ChildrenOf
  <2>5. Cardinality(ChildrenOf(k) \ {s})
          = IF s \in ChildrenOf(k) THEN Cardinality(ChildrenOf(k)) - 1 ELSE Cardinality(ChildrenOf(k))
    BY ChildrenFinite, FS_RemoveElement, Zenon
  <2>6. Cardinality(ChildrenOf(k)) \in Nat
    BY ChildrenFinite, Zenon
  <2> QED
    BY <2>2, <2>3, <2>4, <2>5, <2>6
<1>4. Attenuation'
  <2> SUFFICES ASSUME NEW k \in Keys, Retains(k)',
                      NEW q \in Keys, q = slots'[k.slot].parent, Retains(q)'
               PROVE  /\ slots'[k.slot].methods \subseteq slots'[q.slot].methods
                      /\ slots'[k.slot].resource = slots'[q.slot].resource
    BY Zenon DEF Attenuation, Retained
  <2>1. k.slot # s /\ slots'[k.slot] = slots[k.slot] /\ Retains(k)
    BY <1>k, <1>v, Zenon DEF Keys
  <2>2. Retains(q) /\ q.slot # s /\ slots'[q.slot] = slots[q.slot]
    BY <1>k, <1>v, <2>1, Zenon DEF Keys
  <2> QED
    BY <1>t, <2>1, <2>2, NoneAssumption, Zenon DEF Attenuation, Retained
<1>5. NoParentCycle'
  <2> SUFFICES ASSUME NEW S \in SUBSET Retained', S # {}
               PROVE  \E k \in S : slots'[k.slot].parent \notin S
    BY Zenon DEF NoParentCycle
  <2>1. S \in SUBSET Retained /\ \A k \in S : slots'[k.slot] = slots[k.slot]
    BY <1>k, <1>v, Zenon DEF Retained, Keys
  <2> QED
    BY <1>t, <2>1, Zenon DEF NoParentCycle
<1> QED
  BY <1>1, <1>2, <1>3, <1>4, <1>5, Zenon DEF IInv

(* Installing a handle in a reusable slot.  The new key was never issued,  *)
(* so no slot names it as parent yet, and the slot's old children stay     *)
(* uncounted orphans.                                                      *)
LEMMA InstallStep ==
    ASSUME IInv, Idle,
           NEW owner \in Owners, NEW resource \in Resources, NEW methods \in SUBSET Methods,
           NEW parent \in Keys \cup {None},
           parent # None => /\ Retains(parent)
                            /\ methods \subseteq slots[parent.slot].methods
                            /\ resource = slots[parent.slot].resource,
           InstallWithParent(owner, resource, methods, parent)
    PROVE  IInv'
<1>t. TypeOK /\ Bookkeeping /\ ChildCount /\ Attenuation /\ NoParentCycle /\ slots \in [Slots -> HandleSlot]
  BY Zenon DEF IInv, TypeOK
<1> DEFINE newKey(s) == [slot |-> s, generation |-> slots[s].generation + 1]
           handle(s) == [generation |-> newKey(s).generation, state |-> "Active", parent |-> parent,
                         children |-> slots[s].children, owner |-> owner,
                         resource |-> resource, methods |-> methods]
<1>0. PICK s \in Slots :
        /\ Reusable(s)
        /\ slots' = [t \in Slots |-> IF t = s THEN handle(s)
                       ELSE IF parent # None /\ t = parent.slot
                       THEN [slots[t] EXCEPT !.children = @ + 1] ELSE slots[t]]
        /\ lineage' = [k \in DOMAIN lineage \cup {newKey(s)} |->
                         IF k = newKey(s) THEN parent ELSE lineage[k]]
        /\ UNCHANGED <<detaching, revoked>>
  BY Zenon DEF InstallWithParent
<1> DEFINE key == newKey(s)
<1>s. /\ slots[s].state = "Vacant" /\ slots[s].children = 0 /\ slots[s].parent = None
      /\ slots[s].generation \in 0 .. MaxGeneration /\ slots[s].generation < MaxGeneration
      /\ slots[s] \in HandleSlot
  BY <1>0, <1>t, Zenon DEF Reusable, Bookkeeping, HandleSlot
<1>k. key \in Keys /\ key.slot = s /\ key.generation = slots[s].generation + 1
  BY <1>s, GenerationAssumption DEF Keys
<1>p. parent # None => parent \in Keys /\ parent.slot \in Slots /\ parent.slot # s /\ parent # key
  BY <1>s, <1>k, Zenon DEF Keys, Retains
<1>v. /\ slots'[s] = handle(s)
      /\ \A t \in Slots \ {s} :
           /\ slots'[t] \in HandleSlot
           /\ slots'[t].generation = slots[t].generation /\ slots'[t].state = slots[t].state
           /\ slots'[t].parent = slots[t].parent /\ slots'[t].methods = slots[t].methods
           /\ slots'[t].resource = slots[t].resource
           /\ slots'[t].children = slots[t].children + (IF parent # None /\ t = parent.slot THEN 1 ELSE 0)
  <2> SUFFICES ASSUME NEW t \in Slots \ {s}
               PROVE  /\ slots'[t] \in HandleSlot
                      /\ slots'[t].generation = slots[t].generation /\ slots'[t].state = slots[t].state
                      /\ slots'[t].parent = slots[t].parent /\ slots'[t].methods = slots[t].methods
                      /\ slots'[t].resource = slots[t].resource
                      /\ slots'[t].children = slots[t].children
                           + (IF parent # None /\ t = parent.slot THEN 1 ELSE 0)
    BY <1>0, Zenon
  <2>1. slots[t] \in HandleSlot
    BY <1>t, Zenon
  <2>2. slots'[t] = IF parent # None /\ t = parent.slot
                    THEN [slots[t] EXCEPT !.children = @ + 1] ELSE slots[t]
    BY <1>0, Zenon
  <2> QED
    BY <2>1, <2>2 DEF HandleSlot
<1>h. handle(s) \in HandleSlot
  BY <1>s, GenerationAssumption DEF HandleSlot
<1> HIDE DEF handle
<1>f. /\ handle(s).generation = slots[s].generation + 1 /\ handle(s).state = "Active"
      /\ handle(s).parent = parent /\ handle(s).children = 0
      /\ handle(s).methods = methods /\ handle(s).resource = resource
  BY <1>s, Zenon DEF handle
<1>1. TypeOK'
  <2>1. slots' \in [Slots -> HandleSlot]
    BY <1>0, <1>v, <1>h, Zenon
  <2>2. DOMAIN lineage' \subseteq Keys /\ lineage' \in [DOMAIN lineage' -> Keys \cup {None}]
    BY <1>0, <1>k, <1>t, Zenon DEF TypeOK
  <2> QED
    BY <1>0, <1>t, <2>1, <2>2, Zenon DEF TypeOK
<1>n. /\ \A t \in Slots : slots[t].parent # key
      /\ \A k \in Keys : Retains(k)' => k = key \/ (Retains(k) /\ k.slot # s)
      /\ key \notin DOMAIN lineage
  <2>1. \A t \in Slots : slots[t].parent # key
    BY <1>t, <1>k, <1>s, NoneAssumption DEF Bookkeeping
  <2>2. \A k \in Keys : Retains(k)' => k = key \/ (Retains(k) /\ k.slot # s)
    BY <1>v, <1>f, <1>k DEF Retains, Keys
  <2>3. key \notin DOMAIN lineage
    BY <1>t, <1>k, <1>s DEF Bookkeeping
  <2> QED
    BY <2>1, <2>2, <2>3, Zenon
<1>2. Bookkeeping'
  <2>1. \A t \in Slots : slots'[t].generation >= slots[t].generation
    BY <1>t, <1>v, <1>f, <1>s DEF HandleSlot
  <2>2. \A t \in Slots : slots'[t].parent # None =>
          slots'[t].parent.generation <= slots'[slots'[t].parent.slot].generation
    <3> SUFFICES ASSUME NEW t \in Slots, slots'[t].parent # None
                 PROVE  slots'[t].parent.generation <= slots'[slots'[t].parent.slot].generation
      BY Zenon
    <3>1. CASE t = s
      BY <3>1, <1>v, <1>f, <1>p, <1>t DEF Retains, Keys, HandleSlot
    <3>2. CASE t # s
      <4>1. slots[t] \in HandleSlot /\ slots'[t].parent = slots[t].parent
        BY <3>2, <1>v, <1>t, Zenon
      <4>2. slots[t].parent \in Keys /\ slots[slots[t].parent.slot] \in HandleSlot
        BY <4>1, <1>t, Zenon DEF HandleSlot, Keys
      <4>3. slots[t].parent.slot \in Slots /\ slots'[slots[t].parent.slot] \in HandleSlot
        BY <4>2, <1>1, Zenon DEF TypeOK, Keys
      <4>4. slots[t].parent.generation <= slots[slots[t].parent.slot].generation
        BY <4>1, <1>t, Zenon DEF Bookkeeping
      <4>5. slots[slots[t].parent.slot].generation <= slots'[slots[t].parent.slot].generation
        BY <4>3, <2>1, Zenon
      <4>6. /\ slots[t].parent.generation \in Nat
            /\ slots[slots[t].parent.slot].generation \in Nat
            /\ slots'[slots[t].parent.slot].generation \in Nat
        BY <4>2, <4>3, GenerationNat, Zenon
      <4> QED
        BY SMTT(20), <4>1, <4>4, <4>5, <4>6
    <3> QED
      BY <3>1, <3>2, Zenon
  <2>3. detaching' = None
    BY <1>0, Zenon DEF Idle
  <2>4. \A k \in Keys : k \in DOMAIN lineage' <=> k.generation <= slots'[k.slot].generation
    <3> SUFFICES ASSUME NEW k \in Keys
                 PROVE  k \in DOMAIN lineage' <=> k.generation <= slots'[k.slot].generation
      BY Zenon
    <3>1. k \in DOMAIN lineage' <=> k \in DOMAIN lineage \/ k = key
      BY <1>0, Zenon
    <3>2. CASE k.slot # s
      BY <3>1, <3>2, <1>k, <1>v, <1>t, Zenon DEF Bookkeeping, Keys
    <3>3. CASE k.slot = s
      <4>1. k = key <=> k.generation = slots[s].generation + 1
        BY <3>3 DEF Keys
      <4> QED
        BY SMTT(20), <3>1, <3>3, <4>1, <1>v, <1>f, <1>s, <1>t DEF Bookkeeping, Keys
    <3> QED
      BY <3>2, <3>3, Zenon
  <2>5. \A t \in Slots : /\ slots'[t].state = "Vacant" => slots'[t].children = 0 /\ slots'[t].parent = None
                         /\ slots'[t].state = "Released" => slots'[t].children > 0
                         /\ slots'[t].state # "Vacant" => slots'[t].generation > 0
    <3> SUFFICES ASSUME NEW t \in Slots
                 PROVE  /\ slots'[t].state = "Vacant" => slots'[t].children = 0 /\ slots'[t].parent = None
                        /\ slots'[t].state = "Released" => slots'[t].children > 0
                        /\ slots'[t].state # "Vacant" => slots'[t].generation > 0
      BY Zenon
    <3>1. CASE t = s
      BY <3>1, <1>v, <1>f, <1>s
    <3>2. CASE t # s
      BY SMTT(20), <3>2, <1>v, <1>t, <1>p DEF Bookkeeping, Retains, HandleSlot
    <3> QED
      BY <3>1, <3>2, Zenon
  <2> QED
    BY <2>2, <2>3, <2>4, <2>5, Zenon DEF Bookkeeping
<1>3. ChildCount'
  <2> SUFFICES ASSUME NEW k \in Keys, Retains(k)'
               PROVE  slots'[k.slot].children
                        = Cardinality(ChildrenOf(k)') + (IF detaching' = k THEN 1 ELSE 0)
    BY Zenon DEF ChildCount, Retained, ChildrenOf
  <2>0. detaching = None /\ detaching' # k
    BY <1>0, NoneAssumption, Zenon DEF Idle
  <2>1. CASE k = key
    <3>1. ChildrenOf(k)' = {}
      BY SMTT(20), <2>1, <1>n, <1>v, <1>f, <1>p, NoneAssumption, <1>k DEF ChildrenOf
    <3> QED
      BY <2>0, <2>1, <3>1, <1>k, <1>v, <1>f, FS_EmptySet
  <2>2. CASE k # key
    <3>1. Retains(k) /\ k.slot # s /\ k.slot \in Slots
      BY <2>2, <1>n, Zenon DEF Keys
    <3>2. slots[k.slot].children = Cardinality(ChildrenOf(k))
      BY <3>1, <2>0, <1>t, NoneAssumption, ChildrenFinite DEF ChildCount, Retained
    <3>3. parent = k <=> (parent # None /\ k.slot = parent.slot)
      BY <3>1, NoneAssumption DEF Keys, Retains
    <3>4. ChildrenOf(k)' = IF parent = k THEN ChildrenOf(k) \cup {s} ELSE ChildrenOf(k)
      <4>1. s \notin ChildrenOf(k)
        BY <1>s, Zenon DEF ChildrenOf
      <4>2. \A t \in Slots \ {s} : t \in ChildrenOf(k)' <=> t \in ChildrenOf(k)
        BY <1>v, Zenon DEF ChildrenOf
      <4>3. s \in ChildrenOf(k)' <=> parent = k
        BY <1>v, <1>f, Zenon DEF ChildrenOf
      <4>4. ChildrenOf(k)' \subseteq Slots /\ ChildrenOf(k) \subseteq Slots
        BY Zenon DEF ChildrenOf
      <4> QED
        BY <4>1, <4>2, <4>3, <4>4
    <3>5. s \notin ChildrenOf(k)
      BY <1>s, Zenon DEF ChildrenOf
    <3>6. slots'[k.slot].children = slots[k.slot].children + (IF parent = k THEN 1 ELSE 0)
      BY <3>1, <3>3, <1>v, Zenon
    <3>7. Cardinality(ChildrenOf(k) \cup {s}) = Cardinality(ChildrenOf(k)) + 1
      BY <3>5, ChildrenFinite, FS_AddElement, Zenon
    <3>8. Cardinality(ChildrenOf(k)) \in Nat
      BY ChildrenFinite, Zenon
    <3> QED
      BY <2>0, <3>2, <3>4, <3>6, <3>7, <3>8
  <2> QED
    BY <2>1, <2>2, Zenon
<1>4. Attenuation'
  <2> SUFFICES ASSUME NEW k \in Keys, Retains(k)',
                      NEW q \in Keys, q = slots'[k.slot].parent, Retains(q)'
               PROVE  /\ slots'[k.slot].methods \subseteq slots'[q.slot].methods
                      /\ slots'[k.slot].resource = slots'[q.slot].resource
    BY Zenon DEF Attenuation, Retained
  <2>1. CASE k = key
    <3>1. q = parent /\ slots'[k.slot].methods = methods
            /\ slots'[k.slot].resource = resource
      BY <2>1, <1>k, <1>v, <1>f, Zenon
    <3> QED
      BY <3>1, <1>p, <1>v, NoneAssumption, Zenon
  <2>2. CASE k # key
    <3>1. Retains(k) /\ k.slot \in Slots \ {s}
      BY <2>2, <1>n, Zenon DEF Keys
    <3>2. q = slots[k.slot].parent /\ q # key
      BY <3>1, <1>v, <1>n, Zenon
    <3>3. Retains(q) /\ q.slot \in Slots \ {s}
      BY <3>2, <1>n, Zenon DEF Keys
    <3>4. /\ slots[k.slot].methods \subseteq slots[q.slot].methods
          /\ slots[k.slot].resource = slots[q.slot].resource
      BY <3>1, <3>2, <3>3, <1>t, NoneAssumption, Zenon DEF Attenuation, Retained
    <3> QED
      BY <3>1, <3>3, <3>4, <1>v, Zenon
  <2> QED
    BY <2>1, <2>2, Zenon
<1>5. NoParentCycle'
  <2> SUFFICES ASSUME NEW S \in SUBSET Retained', S # {}
               PROVE  \E k \in S : slots'[k.slot].parent \notin S
    BY Zenon DEF NoParentCycle
  <2>1. \A k \in S : k # key => k \in Retained /\ slots'[k.slot].parent = slots[k.slot].parent
                                /\ slots[k.slot].parent # key
    BY <1>n, <1>v, Zenon DEF Retained, Keys
  <2>2. CASE S = {key}
    BY <2>2, <1>k, <1>v, <1>f, <1>p, NoneAssumption, Zenon
  <2>3. CASE S # {key}
    <3>1. S \ {key} \in SUBSET Retained /\ S \ {key} # {}
      BY <2>1, <2>3, Zenon
    <3>2. PICK k \in S \ {key} : slots[k.slot].parent \notin S \ {key}
      BY <3>1, <1>t, Zenon DEF NoParentCycle
    <3> QED
      BY <2>1, <3>2, Zenon
  <2> QED
    BY <2>2, <2>3, Zenon
<1> QED
  BY <1>1, <1>2, <1>3, <1>4, <1>5, Zenon DEF IInv

(* A slot that only changes state from Active to Released, or only loses   *)
(* the child that `detaching` stands for, keeps the invariant.             *)
LEMMA RelabelStep ==
    ASSUME IInv, NEW s \in Slots, NEW state \in {"Active", "Released"}, NEW children \in Nat,
           slots[s].state # "Vacant", state = "Released" => children > 0,
           slots' = [slots EXCEPT ![s] = [@ EXCEPT !.state = state, !.children = children]],
           \/ children = slots[s].children /\ detaching = None
           \/ children = slots[s].children - 1 /\ detaching = KeyOf(s),
           detaching' = None,
           lineage' = lineage, revoked' \subseteq Keys
    PROVE  IInv'
<1>t. TypeOK /\ Bookkeeping /\ ChildCount /\ Attenuation /\ NoParentCycle /\ slots \in [Slots -> HandleSlot]
  BY Zenon DEF IInv, TypeOK
<1>s. slots[s] \in HandleSlot
  BY <1>t, Zenon
<1>v. /\ slots'[s].state = state /\ slots'[s].children = children
      /\ \A t \in Slots : /\ slots'[t].generation = slots[t].generation
                          /\ slots'[t].parent = slots[t].parent
                          /\ slots'[t].methods = slots[t].methods
                          /\ slots'[t].resource = slots[t].resource
                          /\ slots'[t].state = "Vacant" <=> slots[t].state = "Vacant"
      /\ \A t \in Slots \ {s} : slots'[t] = slots[t]
  BY <1>s, <1>t, Zenon DEF HandleSlot
<1>r. \A k \in Keys : Retains(k)' <=> Retains(k)
  BY <1>v, Zenon DEF Retains, Keys
<1>1. TypeOK'
  <2>1. slots'[s] \in HandleSlot
    BY <1>s, <1>t, Zenon DEF HandleSlot
  <2> QED
    BY <1>t, <2>1, Zenon DEF TypeOK
<1>2. Bookkeeping'
  <2>1. \A t \in Slots : slots'[t].parent # None =>
          slots'[t].parent.generation <= slots'[slots'[t].parent.slot].generation
    BY <1>t, <1>v DEF Bookkeeping, HandleSlot, Keys
  <2>2. \A k \in Keys : k \in DOMAIN lineage' <=> k.generation <= slots'[k.slot].generation
    BY <1>t, <1>v, Zenon DEF Bookkeeping, Keys
  <2>3. \A t \in Slots : /\ slots'[t].state = "Vacant" => slots'[t].children = 0 /\ slots'[t].parent = None
                         /\ slots'[t].state = "Released" => slots'[t].children > 0
                         /\ slots'[t].state # "Vacant" => slots'[t].generation > 0
    BY <1>t, <1>v, Zenon DEF Bookkeeping
  <2> QED
    BY <2>1, <2>2, <2>3, Zenon DEF Bookkeeping
<1>3. ChildCount'
  <2> SUFFICES ASSUME NEW k \in Keys, Retains(k)'
               PROVE  slots'[k.slot].children
                        = Cardinality(ChildrenOf(k)') + (IF detaching' = k THEN 1 ELSE 0)
    BY Zenon DEF ChildCount, Retained, ChildrenOf
  <2>1. ChildrenOf(k)' = ChildrenOf(k) /\ detaching' # k
    BY <1>v, NoneAssumption DEF ChildrenOf
  <2>2. slots[k.slot].children = Cardinality(ChildrenOf(k)) + (IF detaching = k THEN 1 ELSE 0)
    BY <1>r, <1>t, Zenon DEF ChildCount, Retained
  <2>3. Cardinality(ChildrenOf(k)) \in Nat
    BY ChildrenFinite, Zenon
  <2>4. CASE k.slot = s
    <3>1. k = KeyOf(s)
      BY <2>4, <1>r, Zenon DEF Keys, KeyOf, Retains
    <3> QED
      BY <2>1, <2>2, <2>3, <2>4, <3>1, <1>v, NoneAssumption
  <2>5. CASE k.slot # s
    <3>1. detaching # k /\ k.slot \in Slots
      BY <2>5, NoneAssumption DEF KeyOf, Keys
    <3> QED
      BY <2>1, <2>2, <2>3, <2>5, <3>1, <1>v
  <2> QED
    BY <2>4, <2>5, Zenon
<1>4. Attenuation'
  <2> SUFFICES ASSUME NEW k \in Keys, Retains(k)',
                      NEW q \in Keys, q = slots'[k.slot].parent, Retains(q)'
               PROVE  /\ slots'[k.slot].methods \subseteq slots'[q.slot].methods
                      /\ slots'[k.slot].resource = slots'[q.slot].resource
    BY Zenon DEF Attenuation, Retained
  <2>1. k.slot \in Slots /\ q.slot \in Slots /\ q = slots[k.slot].parent
    BY <1>v, Zenon DEF Keys
  <2>2. /\ slots[k.slot].methods \subseteq slots[q.slot].methods
        /\ slots[k.slot].resource = slots[q.slot].resource
    BY <1>t, <1>r, <2>1, NoneAssumption, Zenon DEF Attenuation, Retained
  <2> QED
    BY <1>v, <2>1, <2>2, Zenon
<1>5. NoParentCycle'
  <2>1. Retained' = Retained
    BY <1>r, Zenon DEF Retained
  <2>2. \A k \in Retained : slots'[k.slot].parent = slots[k.slot].parent
    BY <1>v, Zenon DEF Retained, Keys
  <2> QED
    BY <1>t, <2>1, <2>2, Zenon DEF NoParentCycle
<1> QED
  BY <1>1, <1>2, <1>3, <1>4, <1>5, Zenon DEF IInv

(* Every step of the table keeps the invariant. *)
LEMMA NextIInv == IInv /\ [Next]_vars => IInv'
<1> SUFFICES ASSUME IInv, [Next]_vars PROVE IInv'
  BY Zenon
<1>t. slots \in [Slots -> HandleSlot] /\ revoked \subseteq Keys /\ Bookkeeping /\ ChildCount
  BY Zenon DEF IInv, TypeOK
<1>1. ASSUME NEW o \in Owners, NEW r \in Resources, NEW m \in SUBSET Methods, Install(o, r, m)
      PROVE  IInv'
  BY <1>1, InstallStep, Zenon DEF Install
<1>2. ASSUME NEW k \in Keys, NEW o \in Owners, NEW c \in Owners, NEW m \in SUBSET Methods,
             Derive(k, o, c, m)
      PROVE  IInv'
  <2>1. Retains(k) /\ slots[k.slot].resource \in Resources
    BY <1>2, <1>t, Zenon DEF Derive, Validate, Matches, Retains, Keys, HandleSlot
  <2> QED
    BY <1>2, <2>1, InstallStep, Zenon DEF Derive
<1>3. ASSUME NEW k \in Keys, NEW o \in Owners, Release(k, o)
      PROVE  IInv'
  <2>1. k.slot \in Slots /\ slots[k.slot].state = "Active" /\ slots[k.slot] \in HandleSlot
    BY <1>3, <1>t, Zenon DEF Release, Matches, Keys
  <2>2. CASE slots[k.slot].children = 0
    BY <1>t, <1>3, <2>1, <2>2, ReclaimStep, Zenon DEF Release, Idle
  <2>3. CASE slots[k.slot].children # 0
    <3>1. /\ slots' = [slots EXCEPT ![k.slot] = [@ EXCEPT !.state = "Released",
                                                          !.children = slots[k.slot].children]]
          /\ slots[k.slot].children \in Nat \ {0}
      BY <1>3, <2>1, <2>3, <1>t, Zenon DEF Release, HandleSlot
    <3>2. detaching = None /\ detaching' = None /\ lineage' = lineage /\ revoked' = revoked
      BY <1>3, <2>3, Zenon DEF Release, Idle
    <3> DEFINE c == slots[k.slot].children
    <3>3. c \in Nat /\ "Released" = "Released" => c > 0
      BY <3>1
    <3> HIDE DEF c
    <3> QED
      BY <1>t, <2>1, <3>1, <3>2, <3>3, RelabelStep, Zenon DEF c
  <2> QED
    BY <2>2, <2>3, Zenon
<1>4. ASSUME NEW k \in Keys, NEW o \in Owners, Revoke(k, o)
      PROVE  IInv'
  BY <1>t, <1>4, ReclaimStep, Zenon DEF Revoke, Idle, Retains, Keys
<1>5. ASSUME DetachChild
      PROVE  IInv'
  <2> DEFINE s == detaching.slot
  <2>1. detaching \in Keys /\ s \in Slots
    BY <1>5, Zenon DEF DetachChild, IInv, TypeOK, Keys
  <2>2. slots[s] \in HandleSlot
    BY <2>1, <1>t, Zenon
  <2>3. CASE Retains(detaching) /\ slots[s].children > 0
    <3>1. detaching = KeyOf(s) /\ slots[s].state # "Vacant"
      BY <2>1, <2>3, Zenon DEF KeyOf, Retains, Keys
    <3>2. CASE slots[s].children = 1 /\ slots[s].state = "Released"
      BY <1>t, <1>5, <2>1, <2>3, <3>1, <3>2, ReclaimStep, Zenon DEF DetachChild
    <3>3. CASE ~(slots[s].children = 1 /\ slots[s].state = "Released")
      <4>1. /\ slots' = [slots EXCEPT ![s].children = @ - 1]
            /\ detaching' = None /\ lineage' = lineage /\ revoked' = revoked
        BY <1>5, <2>3, <3>3, Zenon DEF DetachChild
      <4>2. /\ slots[s].children - 1 \in Nat
            /\ slots[s].state \in {"Active", "Released"}
            /\ slots[s].state = "Released" => slots[s].children - 1 > 0
        BY <2>2, <2>3, <3>1, <3>3 DEF HandleSlot
      <4>3. [slots[s] EXCEPT !.children = slots[s].children - 1]
              = [slots[s] EXCEPT !.state = slots[s].state, !.children = slots[s].children - 1]
        BY <2>2, Zenon DEF HandleSlot
      <4>4. slots' = [slots EXCEPT ![s] = [@ EXCEPT !.state = slots[s].state,
                                                    !.children = slots[s].children - 1]]
        BY <4>1, <4>3, <2>1, <1>t, Zenon
      <4> HIDE DEF s
      <4> QED
        BY <1>t, <2>1, <3>1, <4>1, <4>2, <4>4, RelabelStep, Zenon
    <3> QED
      BY <3>2, <3>3, Zenon
  <2>4. CASE ~(Retains(detaching) /\ slots[s].children > 0)
    <3>1. slots' = slots /\ lineage' = lineage /\ revoked' = revoked /\ detaching' = None
      BY <1>5, <2>4, Zenon DEF DetachChild
    <3>2. ~Retains(detaching)
      <4> SUFFICES ASSUME Retains(detaching) PROVE slots[s].children > 0
        BY <2>4, Zenon
      <4>1. slots[s].children = Cardinality(ChildrenOf(detaching)) + 1
        BY <2>1, <1>t, Zenon DEF ChildCount, Retained
      <4> QED
        BY <4>1, ChildrenFinite
    <3>3. TypeOK' /\ Bookkeeping' /\ Attenuation' /\ NoParentCycle'
      BY <3>1, Zenon DEF IInv, TypeOK, Bookkeeping, Attenuation, NoParentCycle, Retained, Retains
    <3>4. ChildCount'
      <4>1. \A k \in Retained : detaching # k /\ detaching' # k
        BY <3>1, <3>2, NoneAssumption, Zenon DEF Retained
      <4> QED
        BY <4>1, <3>1, <1>t, Zenon DEF ChildCount, Retained, Retains, ChildrenOf
    <3> QED
      BY <3>3, <3>4, Zenon DEF IInv
  <2> QED
    BY <2>3, <2>4, Zenon
<1>6. CASE UNCHANGED vars
  <2>1. slots' = slots /\ detaching' = detaching /\ lineage' = lineage /\ revoked' = revoked
    BY <1>6, Zenon DEF vars
  <2>2. TypeOK' /\ Bookkeeping'
    BY <2>1, Zenon DEF IInv, TypeOK, Bookkeeping
  <2>3. Retained' = Retained
    BY <2>1, Zenon DEF Retained, Retains
  <2>4. ChildCount'
    BY <2>1, <2>3, Zenon DEF IInv, ChildCount, ChildrenOf
  <2>5. Attenuation' /\ NoParentCycle'
    BY <2>1, <2>3, Zenon DEF IInv, Attenuation, NoParentCycle
  <2> QED
    BY <2>2, <2>4, <2>5, Zenon DEF IInv
<1> QED
  BY <1>1, <1>2, <1>3, <1>4, <1>5, <1>6, Zenon DEF Next

(* Every reachable state satisfies the invariant. *)
THEOREM InvariantHolds == Spec => []IInv
<1>1. Init => IInv
  BY InitIInv, Zenon
<1>2. IInv /\ [Next]_vars => IInv'
  BY NextIInv, Zenon
<1> QED
  BY <1>1, <1>2, PTL DEF Spec

(* Every reachable table is well typed: no operation takes a generation    *)
(* beyond its width or a count below zero.                                 *)
THEOREM TypeCorrect == Spec => []TypeOK
BY InvariantHolds, PTL DEF IInv

(* The reference counts of authority/slot.rs are exact: each child is      *)
(* attached once and detached once, whatever the order of releases,        *)
(* revocations and reuses of the slots.                                    *)
THEOREM ChildCountCorrect == Spec => []ChildCount
BY InvariantHolds, PTL DEF IInv

(* Delegation never widens methods and never changes the resource.         *)
THEOREM AttenuationCorrect == Spec => []Attenuation
BY InvariantHolds, PTL DEF IInv

(* The ancestry walk of HandleSlot::validate meets no cycle.               *)
THEOREM NoParentCycleCorrect == Spec => []NoParentCycle
BY InvariantHolds, PTL DEF IInv

(* A released slot is kept only for descendants: reclaim_ancestors leaves  *)
(* no released slot behind without a child.                                *)
THEOREM ReleasedIsAnchorCorrect == Spec => []ReleasedIsAnchor
<1>1. IInv => ReleasedIsAnchor
  <2> SUFFICES ASSUME IInv, Idle, NEW s \in Slots, slots[s].state = "Released"
               PROVE  ChildrenOf(KeyOf(s)) # {}
    BY Zenon DEF ReleasedIsAnchor
  <2>1. slots[s] \in HandleSlot /\ slots[s].children > 0 /\ slots[s].generation > 0
    BY Zenon DEF IInv, TypeOK, Bookkeeping
  <2>2. KeyOf(s) \in Retained /\ KeyOf(s).slot = s /\ KeyOf(s) \in Keys
    BY <2>1 DEF KeyOf, Retained, Retains, Keys, HandleSlot
  <2>3. slots[s].children = Cardinality(ChildrenOf(KeyOf(s)))
    BY <2>2, NoneAssumption, ChildrenFinite DEF IInv, ChildCount, Idle
  <2> QED
    BY <2>1, <2>3, FS_EmptySet
<1> QED
  BY <1>1, InvariantHolds, PTL

(* A key is issued once: a generation is never reused, and a key that no   *)
(* longer names its slot never does again.                                 *)
THEOREM KeysIssuedOnceCorrect == Spec => KeysIssuedOnce
<1> DEFINE Once == \A k \in DOMAIN lineage : k \in DOMAIN lineage' /\ lineage'[k] = lineage[k]
                      /\ (k \notin Retained => k \notin Retained')
<1>1. IInv /\ [Next]_vars => [Once]_vars
  <2> SUFFICES ASSUME IInv, Next PROVE Once
    BY Zenon DEF Once
  <2>t. slots \in [Slots -> HandleSlot] /\ Bookkeeping /\ TypeOK
    BY Zenon DEF IInv, TypeOK
  <2>1. ASSUME lineage' = lineage,
               \A k \in Keys : Retains(k)' => Retains(k)
        PROVE  Once
    BY <2>1, <2>t, Zenon DEF Retained, TypeOK
  <2>2. ASSUME NEW owner \in Owners, NEW resource \in Resources, NEW methods \in SUBSET Methods,
               NEW parent \in Keys \cup {None}, InstallWithParent(owner, resource, methods, parent)
        PROVE  Once
    <3> DEFINE key(s) == [slot |-> s, generation |-> slots[s].generation + 1]
    <3>1. PICK s \in Slots :
            /\ Reusable(s)
            /\ slots' = [t \in Slots |-> IF t = s
                  THEN [generation |-> key(s).generation, state |-> "Active", parent |-> parent,
                        children |-> slots[s].children, owner |-> owner,
                        resource |-> resource, methods |-> methods]
                  ELSE IF parent # None /\ t = parent.slot
                  THEN [slots[t] EXCEPT !.children = @ + 1] ELSE slots[t]]
            /\ lineage' = [k \in DOMAIN lineage \cup {key(s)} |->
                             IF k = key(s) THEN parent ELSE lineage[k]]
      BY <2>2, Zenon DEF InstallWithParent
    <3>2. slots[s] \in HandleSlot /\ key(s) \in Keys
      BY <3>1, <2>t, GenerationAssumption DEF Reusable, HandleSlot, Keys
    <3>3. key(s) \notin DOMAIN lineage
      BY <3>2, <2>t DEF Bookkeeping, HandleSlot
    <3>4. \A k \in Keys : Retains(k)' => Retains(k) \/ k = key(s)
      <4> SUFFICES ASSUME NEW k \in Keys, Retains(k)', k.slot # s PROVE Retains(k)
        BY SMTT(20), <3>1 DEF Retains, Keys
      <4>1. k.slot \in Slots /\ slots[k.slot] \in HandleSlot
        BY <2>t, Zenon DEF Keys
      <4> QED
        BY <3>1, <4>1, Zenon DEF Retains, HandleSlot
    <3> QED
      BY <3>1, <3>3, <3>4, <2>t, Zenon DEF Retained, TypeOK
  <2>3. ASSUME NEW o \in Owners, NEW r \in Resources, NEW m \in SUBSET Methods, Install(o, r, m)
        PROVE  Once
    BY <2>2, <2>3, Zenon DEF Install
  <2>4. ASSUME NEW k \in Keys, NEW o \in Owners, NEW c \in Owners, NEW m \in SUBSET Methods,
               Derive(k, o, c, m)
        PROVE  Once
    <3>1. slots[k.slot].resource \in Resources
      BY <2>t, Zenon DEF Keys, HandleSlot
    <3> QED
      BY <2>2, <2>4, <3>1, Zenon DEF Derive
  <2>r. ASSUME NEW s \in Slots, slots[s].state # "Vacant", lineage' = lineage,
               \/ slots' = [slots EXCEPT ![s] = Reclaimed(@)]
               \/ slots' = [slots EXCEPT ![s].state = "Released"]
               \/ slots' = [slots EXCEPT ![s].children = @ - 1]
        PROVE  Once
    <3>1. slots[s] \in HandleSlot
      BY <2>t, Zenon
    <3>2. \A t \in Slots \ {s} : slots'[t] = slots[t]
      BY <2>r, <2>t, Zenon
    <3>3. slots'[s].generation = slots[s].generation
      <4>1. CASE slots' = [slots EXCEPT ![s] = Reclaimed(@)]
        BY <4>1, <2>t, <3>1, Zenon DEF Reclaimed, HandleSlot
      <4>2. CASE slots' = [slots EXCEPT ![s].state = "Released"]
        BY <4>2, <2>t, <3>1, Zenon DEF HandleSlot
      <4>3. CASE slots' = [slots EXCEPT ![s].children = @ - 1]
        BY <4>3, <2>t, <3>1, Zenon DEF HandleSlot
      <4> QED
        BY <2>r, <4>1, <4>2, <4>3, Zenon
    <3>4. \A k \in Keys : Retains(k)' => Retains(k)
      BY <2>r, <3>2, <3>3, Zenon DEF Retains, Keys
    <3> QED
      BY <2>1, <2>r, <3>4, Zenon
  <2>5. ASSUME NEW k \in Keys, NEW o \in Owners, Release(k, o) \/ Revoke(k, o)
        PROVE  Once
    BY <2>r, <2>5, Zenon DEF Release, Revoke, Matches, Retains, Keys
  <2>6. ASSUME DetachChild PROVE Once
    <3>1. detaching.slot \in Slots
      BY <2>6, <2>t, Zenon DEF DetachChild, TypeOK, Keys
    <3>2. CASE slots' = slots
      BY <2>1, <2>6, <3>2, Zenon DEF DetachChild, Retains
    <3>3. CASE slots' # slots
      BY <2>r, <2>6, <3>1, <3>3, Zenon DEF DetachChild, Retains
    <3> QED
      BY <3>2, <3>3, Zenon
  <2> QED
    BY <2>3, <2>4, <2>5, <2>6, Zenon DEF Next
<1> QED
  BY <1>1, InvariantHolds, PTL DEF Spec, KeysIssuedOnce
=============================================================================
