----------------------------- MODULE RemoteCall ------------------------------
(* What a remote call promises its caller.  The program runs at most once,    *)
(* however often the caller asks; a call closed before it ran never runs.     *)
(* An answer is either what the program returned, or that it has not run and  *)
(* will not on behalf of this question, or that its fate is unknown.          *)
EXTENDS Naturals

CONSTANTS Results, Refused, Unknown, None

VARIABLES runs,      \* how often the program was started
          closed,    \* it will not be started any more
          value,     \* what it returned
          told       \* the caller's last answer, None while a question is open

callVars == <<runs, closed, value, told>>

CallInit == runs = 0 /\ closed = FALSE /\ value = None /\ told = None

Ask == told' = None /\ UNCHANGED <<runs, closed, value>>

Run == /\ runs = 0 /\ ~closed /\ told # Refused
       /\ runs' = 1
       /\ UNCHANGED <<closed, value, told>>

Return == /\ runs = 1 /\ value = None
          /\ value' \in Results
          /\ UNCHANGED <<runs, closed, told>>

CloseCall == runs = 0 /\ closed' = TRUE /\ UNCHANGED <<runs, value, told>>

Tell == /\ \/ told' = Unknown
           \/ told' = Refused /\ runs = 0
           \/ value # None /\ told' = value
        /\ UNCHANGED <<runs, closed, value>>

CallNext == Ask \/ Run \/ Return \/ CloseCall \/ Tell
CallSpec == CallInit /\ [][CallNext]_callVars
==============================================================================
