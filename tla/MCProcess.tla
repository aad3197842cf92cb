------------------------------ MODULE MCProcess -------------------------------
(* What the kernel keeps of a process: its scope, for which two attempts      *)
(* compete; its entry in the table, with a root and three more identifiers;   *)
(* and its accounts, a parent P with two children.  Finalization composes the *)
(* scopes of a tree; here each behaviour is about one record on its own.      *)
EXTENDS ScopeLifecycle, Naturals, TLC

CONSTANTS
    Root, MaxId, Capacities, Batch, MaxLoad, MaxDrops,
    Accounts, Line, MaxInflightOps, MaxSpent, Ceilings, Costs, Calls

ASSUME RetentionAssumption ==
    Root \in Nat /\ MaxId \in Nat /\ Batch \in Nat \ {0} /\ MaxLoad \in Nat /\ MaxDrops \in Nat

VARIABLES
    subject,                            \* the record this behaviour is about
    next, table, admitting, dropping,   \* Retention
    limit, account, call                \* Budget

tableVars == <<next, table, admitting, dropping>>
spendingVars == <<limit, account, call>>

Table == INSTANCE Retention
Spending == INSTANCE Budget

ProcessInit ==
    /\ subject \in {"scope", "table", "accounts"}
    /\ Init /\ Spending!Init
    /\ IF subject = "table" THEN Table!Init ELSE Table!Init /\ table.capacity = 2

ProcessNext ==
    \/ subject = "scope" /\ Next /\ UNCHANGED <<subject, tableVars, spendingVars>>
    \/ subject = "table" /\ Table!Next /\ UNCHANGED <<subject, vars, spendingVars>>
    \/ subject = "accounts" /\ Spending!Next /\ UNCHANGED <<subject, vars, tableVars>>

ProcessSpec == ProcessInit /\ [][ProcessNext]_<<subject, vars, tableVars, spendingVars>>

-------------------------------------------------------------------------------
(* The links of the process tree agree in both directions, and no entry that  *)
(* can be reaped is forgotten (Retention).                                    *)
TableSound == Table!TableSound

(* Accounts are exactly what the calls on them cost (Budget).                 *)
ExactAccounts == subject = "accounts" => Spending!ExactAccounts

-------------------------------------------------------------------------------
(* Two capacities, so that lowering is refused in some states. *)
TwoCapacities == {2, 3}

Family == [a \in Accounts |-> IF a = "P" THEN <<"P">> ELSE <<a, "P">>]
TwoCalls == [a \in Accounts |-> IF a = "P" THEN 2 ELSE 3]
ParentTight == [a \in Accounts |-> IF a = "P" THEN 3 ELSE 4]
===============================================================================
