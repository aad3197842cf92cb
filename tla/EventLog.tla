------------------------------ MODULE EventLog ------------------------------
(* What the Source store promises of the events it appends to a sink: each is *)
(* appended under the declaration in force, once while it is remembered, in   *)
(* the order its stream numbers them, and no faster than declared.            *)
EXTENDS SourceConstants, Sequences, FiniteSets

VARIABLES log,    \* the events appended
          grant,  \* the epoch and declaration in force, or Nil
          open,   \* open incarnation -> last sequence number
          top     \* every epoch up to this one has been used

evars == <<log, grant, open, top>>

EInit == log = <<>> /\ grant = Nil /\ open = <<>> /\ top = 0

(* A grant is new or withdrawn; whatever was open under the old one is not.   *)
Regrant ==
  /\ \/ grant' = Nil /\ top' >= top
     \/ grant'.epoch > top /\ top' = grant'.epoch
  /\ open' = <<>> /\ UNCHANGED log

Open ==
  /\ grant # Nil /\ top' = top + 1
  /\ open' = [e \in DOMAIN open \cup {top'} |-> IF e = top' THEN 0 ELSE open[e]]
  /\ UNCHANGED <<log, grant>>

Close(e) ==
  /\ e \in DOMAIN open
  /\ open' = [i \in DOMAIN open \ {e} |-> open[i]]
  /\ UNCHANGED <<log, grant, top>>

Under(epoch) == {n \in DOMAIN log : log[n].scope = epoch}

\* no earlier append of the same event is still remembered at its time
Fresh(e) ==
  \A n \in Under(e.scope) :
    log[n].stream = e.stream /\ log[n].id = e.id => log[n].expires < e.at

\* the declared rate holds in the span that ends with this event
Paced(e, d) ==
  d.rate = Nil \/ Cardinality({n \in Under(e.scope) : log[n].at > e.at - d.span}) < d.rate

AppendEvent(e) ==
  /\ grant # Nil /\ e.scope = grant.epoch
  /\ \A n \in Under(e.scope) : log[n].at <= e.at
  /\ Fresh(e) /\ Paced(e, grant.decl)
  /\ \/ e.stream = 0 /\ UNCHANGED open
     \/ /\ e.stream \in DOMAIN open /\ e.seq = open[e.stream] + 1
        /\ open' = [open EXCEPT ![e.stream] = e.seq]
  /\ log' = Append(log, e)
  /\ UNCHANGED <<grant, top>>

ENext ==
  \/ Regrant \/ Open
  \/ \E e \in DOMAIN open : Close(e)
  \/ Len(log') > Len(log) /\ AppendEvent(log'[Len(log')])

ESpec == EInit /\ [][ENext]_evars
==============================================================================
