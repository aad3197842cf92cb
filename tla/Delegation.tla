----------------------------- MODULE Delegation -----------------------------
(***************************************************************************)
(* What a capability table promises its callers, with no slots,            *)
(* generations or reference counts: a forest of handles, each delegated    *)
(* from at most one other, and the set of them that still authorise.       *)
(* Releasing a handle ends that handle only; revoking one ends it and      *)
(* everything delegated from it.  HandleTable implements this module.      *)
(***************************************************************************)
EXTENDS FiniteSets

CONSTANTS Keys, Owners, Resources, Methods, None

VARIABLES
    lineage,     \* every key ever issued -> the key it was delegated from
    revoked,     \* the keys that were revoked by name
    authority    \* the keys that authorise -> what they authorise

dvars == <<lineage, revoked, authority>>

Right == [owner : Owners, resource : Resources, methods : SUBSET Methods]

Issued == DOMAIN lineage

(* The keys k was delegated from, k itself included. *)
LineOf(k) ==
    LET line[j \in Issued] == {j} \cup (IF lineage[j] = None THEN {} ELSE line[lineage[j]])
    IN line[k]

DInit == lineage = <<>> /\ revoked = {} /\ authority = <<>>

Extend(f, k, v) == [j \in DOMAIN f \cup {k} |-> IF j = k THEN v ELSE f[j]]

Keep(S) == [k \in S |-> authority[k]]

(* A key is issued once.  A delegated key authorises no more than the key  *)
(* it comes from, which must authorise at that moment.                     *)
Issue(k, parent, right) ==
    /\ k \in Keys \ Issued
    /\ lineage' = Extend(lineage, k, parent)
    /\ parent # None => /\ parent \in DOMAIN authority
                        /\ right.methods \subseteq authority[parent].methods
                        /\ right.resource = authority[parent].resource
    /\ authority' = Extend(authority, k, right)
    /\ UNCHANGED revoked

Release(k) ==
    /\ k \in Issued
    /\ UNCHANGED <<lineage, revoked>>
    /\ authority' = Keep(DOMAIN authority \ {k})

Revoke(k) ==
    /\ k \in Issued
    /\ UNCHANGED lineage
    /\ revoked' = revoked \cup {k}
    /\ authority' = Keep({j \in DOMAIN authority : k \notin LineOf(j)})

DNext ==
    \/ \E k \in Keys, parent \in Keys \cup {None}, right \in Right : Issue(k, parent, right)
    \/ \E k \in Keys : Release(k) \/ Revoke(k)

DSpec == DInit /\ [][DNext]_dvars
=============================================================================
