------------------------------- MODULE Budget -------------------------------
(***************************************************************************)
(* Spending over the process tree (process/accounting.rs and BudgetState   *)
(* of xolotl-types): a call is reserved against its owner and every        *)
(* ancestor, or against none, and settled once against the same accounts   *)
(* with what it really cost.  One dimension of spending stands for both    *)
(* money and tokens, which the code treats alike; sums stay below the      *)
(* 64-bit range, where additions would saturate.                           *)
(***************************************************************************)
EXTENDS Integers, FiniteSets, FiniteSetsExt, Sequences, SequencesExt

CONSTANTS
    Accounts,
    Line,               \* each account followed by its ancestors
    MaxInflightOps,     \* limits of each account
    MaxSpent,
    Ceilings,           \* the limits hosts restrict an account to later
    Costs,              \* what calls are estimated at and cost
    Calls               \* identities of calls, each made once

VARIABLES
    limit,      \* the spending limit in force for each account
    account,    \* inflight_ops and spending of each account
    call        \* per call: unmade, open with its estimate, or settled

vars == <<limit, account, call>>

Unmade == [at |-> "unmade", owner |-> {}, cost |-> 0]

Init ==
    /\ limit = MaxSpent
    /\ account = [a \in Accounts |-> [inflight |-> 0, spent |-> 0]]
    /\ call = [c \in Calls |-> Unmade]

(* try_reserve: every limit is checked before anything changes. *)
CanReserve(a, est) ==
    account[a].inflight + 1 <= MaxInflightOps[a] /\ account[a].spent + est <= limit[a]

(* The accounts on a line that are debited before the first refusal. *)
Debited(line, est) ==
    LET refusing == {i \in 1..Len(line) : ~CanReserve(line[i], est)} IN
    ToSet(IF refusing = {} THEN line ELSE SubSeq(line, 1, Min(refusing) - 1))

Charged(S, est) ==
    [a \in Accounts |-> IF a \in S THEN [inflight |-> account[a].inflight + 1,
                                         spent |-> account[a].spent + est]
                        ELSE account[a]]

SatSub(m, n) == IF m > n THEN m - n ELSE 0

(* Fault: only the slot is given back, and the cost is added. *)
CreditedSlot(accounts, S, reserved, actual) ==
    [a \in Accounts |-> IF a \in S THEN [inflight |-> SatSub(accounts[a].inflight, 1),
                                         spent |-> accounts[a].spent + actual]
                        ELSE accounts[a]]

(* settle, on a set of accounts. *)
Credited(accounts, S, reserved, actual) ==
    [a \in Accounts |-> IF a \in S THEN [inflight |-> SatSub(accounts[a].inflight, 1),
                                         spent |-> SatSub(accounts[a].spent, reserved) + actual]
                        ELSE accounts[a]]

(* reserve_budget debits the owner and its ancestors; when one refuses,    *)
(* those debited before it are credited back and the call is not made.     *)
reserve_budget(c, owner, est) ==
    /\ call[c] = Unmade
    /\ LET line == Line[owner]
           charged == Charged(Debited(line, est), est) IN
       IF Debited(line, est) = ToSet(line)
       THEN /\ account' = charged
            /\ call' = [call EXCEPT ![c] = [at |-> "open", owner |-> ToSet(line), cost |-> est]]
       ELSE /\ account' = Credited(charged, Debited(line, est), est, 0)
            /\ UNCHANGED call
    /\ UNCHANGED limit

(* settle_budget, once per call, on the same retained accounts. *)
settle_budget(c, actual) ==
    /\ call[c].at = "open"
    /\ account' = Credited(account, call[c].owner, call[c].cost, actual)
    /\ call' = [call EXCEPT ![c] = [@ EXCEPT !.at = "settled", !.cost = actual]]
    /\ UNCHANGED limit

(* restrict_budget: limits only tighten, and spending is not reset. *)
restrict_budget(a, ceiling) ==
    /\ limit' = [limit EXCEPT ![a] = Min({@, ceiling})]
    /\ UNCHANGED <<account, call>>

Next ==
    \/ \E c \in Calls, a \in Accounts, est \in Costs : reserve_budget(c, a, est)
    \/ \E c \in Calls, actual \in Costs : settle_budget(c, actual)
    \/ \E a \in Accounts, ceiling \in Ceilings : restrict_budget(a, ceiling)

Spec == Init /\ [][Next]_vars

-----------------------------------------------------------------------------
(* The calls that were made on an account, by itself or its descendants. *)
MadeOn(a) == {c \in Calls : a \in call[c].owner}

(* An account holds one slot for each open call below it, and has spent      *)
(* what the settled ones cost and the open ones are estimated at: a refused  *)
(* reservation leaves no trace on any account, and nothing is lost when      *)
(* calls settle out of order.                                                *)
ExactAccounts ==
    \A a \in Accounts :
       /\ account[a].inflight = Cardinality({c \in MadeOn(a) : call[c].at = "open"})
       /\ account[a].spent = MapThenSumSet(LAMBDA c : call[c].cost, MadeOn(a))

=============================================================================
