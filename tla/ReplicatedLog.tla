---------------------------- MODULE ReplicatedLog ----------------------------
(* What a federation stream promises, seen from outside: a log to which every *)
(* publication identity is added once, a cursor per subscription that only    *)
(* moves forward inside the log, and a set of subscriptions the publisher has *)
(* committed to keep history for.  Trimming never overtakes one of those.     *)
EXTENDS Naturals, Sequences

CONSTANTS Subs, Identities

VARIABLES log,      \* the publications, in order
          kept,     \* first sequence the publisher can still serve
          cursor,   \* last sequence each subscription holds durably
          owed      \* subscriptions the publisher keeps history for

logVars == <<log, kept, cursor, owed>>

LogInit == /\ log = <<>>
           /\ kept = 1
           /\ cursor = [s \in Subs |-> 0]
           /\ owed = {}

Publish(i) == /\ \A n \in DOMAIN log : log[n] # i
              /\ log' = Append(log, i)
              /\ UNCHANGED <<kept, cursor, owed>>

Advance(s) == /\ \E n \in cursor[s] + 1 .. Len(log) :
                   cursor' = [cursor EXCEPT ![s] = n]
              /\ UNCHANGED <<log, kept, owed>>

(* A commitment is given only to a subscription that history still covers.    *)
Owe(s) == /\ cursor[s] + 1 >= kept
          /\ owed' = owed \cup {s}
          /\ UNCHANGED <<log, kept, cursor>>

(* Letting commitments go and trimming may share one transaction.             *)
ReleaseAndTrim == /\ owed' \subseteq owed
                  /\ kept' \in kept .. Len(log) + 1
                  /\ \A s \in owed' : kept' <= cursor[s] + 1
                  /\ UNCHANGED <<log, cursor>>

LogNext == \/ \E i \in Identities : Publish(i)
           \/ \E s \in Subs : Advance(s) \/ Owe(s)
           \/ ReleaseAndTrim

LogSpec == LogInit /\ [][LogNext]_logVars
==============================================================================
