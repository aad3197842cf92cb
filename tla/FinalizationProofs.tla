------------------------- MODULE FinalizationProofs -------------------------
(***************************************************************************)
(* The safety properties of Finalization, for every process tree, every    *)
(* number of hosts and every number of faults.                             *)
(***************************************************************************)
EXTENDS Finalization, TLAPS

(* The places of a call that has a member's guard and joined its body. *)
Past == {"finalize", "running", "close", "mark", "publish", "release"}

Places == Past \cup {"idle", "own", "select", "abandon", "abort", "join", "acquire", "end"}

CallRecord ==
    [pc : Places, op : {"none", "finish", "tree", "resume"}, root : Procs \cup {None},
     todo : SUBSET Procs, cur : Procs \cup {None}, status : TerminalStatus,
     own : BOOLEAN, failed : BOOLEAN, dropped : BOOLEAN]

TaskState == {"none", "attached", "aborted", "unwinding", "revoked"}

BodyState == {"none", "starting", "running", "cleaning", "retained", "returned", "completed"}

TypeOK ==
    /\ admitted \subseteq Procs
    /\ scope \in [Procs -> ScopeRecord]
    /\ task \in [Procs -> TaskState]
    /\ body \in [Procs -> BodyState]
    /\ owned \in [Procs -> BOOLEAN]
    /\ on_finalize \in [Procs -> Nat] /\ ran \in [Procs -> Nat]
    /\ handles \in [Procs -> SUBSET {"body", "cleanup", "finalizer"}]
    /\ call \in [Callers -> CallRecord]

(* Whether a call is at a place where it has the guard of a member. *)
Attempting(k) == k.pc \in Past \/ (k.pc \in {"abort", "join"} /\ k.op = "finish")

(* What a call is about at each of its places, among the processes in T. *)
CallShape(k, T) ==
    /\ k.pc = "idle" => ~k.own /\ ~k.dropped
    /\ k.pc # "idle" => k.op # "none"
    /\ k.op # "none" => k.root \in T
    /\ k.todo \subseteq T
    /\ k.cur \in T \cup {None}
    /\ k.cur # None <=> Attempting(k)
    /\ k.op = "finish" => k.todo \subseteq {k.root} /\ k.cur \in {k.root, None}
    /\ k.own => k.op = "tree" /\ ~k.dropped
    /\ k.pc \in {"select", "abandon"} => k.op = "resume"
    /\ k.pc = "own" => k.op = "tree" /\ ~k.own /\ ~k.dropped

(* A body belongs to an admitted process, its task to an actor, and the     *)
(* actor's task makes no call before its body has returned.                 *)
BodyShape(p) ==
    /\ body[p] # "none" => p \in admitted
    /\ task[p] # "none" => p \in admitted \cap Actors
    /\ body[p] \in {"starting", "retained"} => p \in Actors
    /\ p \in Actors /\ body[p] \notin {"returned", "completed"} => call[p].pc = "idle"

(* A scope that was never in the table is open; one with a guard is not. *)
ScopeShape(p) ==
    /\ p \notin admitted => scope[p].cleanup = None
    /\ scope[p].finalizer_active => scope[p].cleanup # None

Shape ==
    /\ \A c \in Callers : CallShape(call[c], admitted)
    /\ \A p \in Procs : BodyShape(p) /\ ScopeShape(p)

(* H tells the guards of each caller, A the processes being finalized: each *)
(* of these has one guard.                                                  *)
Owners(H, A) ==
    /\ \A c \in Callers : H[c] \subseteq A
    /\ \A c, d \in Callers : c # d => H[c] \cap H[d] = {}
    /\ \A p \in A : \E c \in Callers : p \in H[c]

Held == [c \in Callers |-> Guards(c)]

Active == {p \in Procs : scope[p].finalizer_active}

Owned ==
    /\ Owners(Held, Active)
    /\ \A c \in Callers : call[c].own => call[c].cur # call[c].root

(* The processes a call has closed, and those whose bodies it has joined. *)
Ended(k) == IF k.op \in {"tree", "resume"} THEN k.todo \cup {k.root} ELSE {}

JoinedAt(c) ==
    /\ call[c].pc \in Past \cup {"own", "abort", "join", "acquire"} =>
          \A q \in Ended(call[c]) : ~AcceptsChildren(scope[q])
    /\ call[c].pc \in Past \cup {"acquire"} => \A q \in Ended(call[c]) : task[q] = "none"
    /\ call[c].pc \in Past => task[call[c].cur] = "none"

(* The handles that an attempt closed stay closed. *)
Own == {"body", "finalizer"}

EmptiedAt(c) == call[c].pc \in {"mark", "publish"} => handles[call[c].cur] \cap Own = {}

Emptied == \A p \in Procs : scope[p].finalized => handles[p] \cap Own = {}

(* No finalizer is installed before the body runs, and none is left when    *)
(* the record is made.                                                      *)
DrainedAt(c) == call[c].pc \in {"close", "mark", "publish"} => on_finalize[call[c].cur] = 0

Drained == \A p \in Procs : body[p] \in {"none", "starting"} => on_finalize[p] = 0 /\ ran[p] = 0

Worked(c) == JoinedAt(c) /\ EmptiedAt(c) /\ DrainedAt(c)

IInv ==
    /\ TypeOK /\ Shape /\ Owned /\ ClosedTree
    /\ Emptied /\ Drained /\ \A c \in Callers : Worked(c)

-----------------------------------------------------------------------------
(* The cardinalities that OneOwner counts with. *)
LEMMA EmptyHasNone == Cardinality({}) = 0
  BY DEF Cardinality

(* One caller is one owner. *)
LEMMA SingletonHasOne == ASSUME NEW c PROVE Cardinality({c}) = 1
  <1> DEFINE step(f) == [T \in SUBSET {c} |-> IF T = {} THEN 0 ELSE 1 + f[T \ {CHOOSE x : x \in T}]]
             count == CHOOSE f : f = step(f)
             one == [T \in SUBSET {c} |-> IF T = {} THEN 0 ELSE 1]
  <1>1. \A T \in SUBSET {c} : T # {} => T = {c} /\ T \ {CHOOSE x : x \in T} = {}
    OBVIOUS
  <1>2. one = step(one)
    BY <1>1
  <1>3. count = step(count)
    BY <1>2
  <1>4. Cardinality({c}) = count[{c}]
    BY DEF Cardinality
  <1> HIDE DEF count
  <1>5. count[{}] = 0
    BY <1>3
  <1>6. count[{c}] = 1 + count[{}]
    BY <1>1, <1>3
  <1> QED
    BY <1>4, <1>5, <1>6

(* A process is an ancestor of itself. *)
LEMMA LinesSelf == \A p \in Procs : p \in Lines[p]
  BY Zenon DEF Lines

(* Every other ancestor is an ancestor of the parent. *)
LEMMA LinesUp ==
  ASSUME NEW p \in Procs, NEW r \in Lines[p], r # p
  PROVE  Parent[p] # None => r \in Lines[Parent[p]]
  <1> SUFFICES ASSUME Parent[p] # None PROVE r \in Lines[Parent[p]]
    BY Zenon
  <1>0. Parent[p] \in Procs /\ r \in Procs
    BY TreeAssumption, Zenon DEF Lines
  <1>1. ASSUME NEW S \in SUBSET Procs, Parent[p] \in S, \A q \in S : Parent[q] \in S \cup {None}
        PROVE  r \in S
    <2> DEFINE U == S \cup {p}
    <2>1. U \in SUBSET Procs /\ p \in U /\ \A q \in U : Parent[q] \in U \cup {None}
      BY <1>1, Zenon
    <2>2. r \in U
      BY <2>1, Zenon DEF Lines
    <2> QED
      BY <2>2, Zenon
  <1> QED
    BY <1>0, <1>1, Zenon DEF Lines

(* An ancestor of an ancestor is one. *)
LEMMA LinesTransitive ==
  ASSUME NEW p \in Procs, NEW q \in Lines[p], NEW r \in Lines[q]
  PROVE  r \in Lines[p]
  <1>0. q \in Procs
    BY Zenon DEF Lines
  <1>1. r \in Procs
    BY <1>0, Zenon DEF Lines
  <1>2. ASSUME NEW S \in SUBSET Procs, p \in S, \A x \in S : Parent[x] \in S \cup {None}
        PROVE  r \in S
    <2>1. q \in S
      BY <1>2, Zenon DEF Lines
    <2> QED
      BY <1>0, <1>2, <2>1, Zenon DEF Lines
  <1> QED
    BY <1>1, <1>2, Zenon DEF Lines

-----------------------------------------------------------------------------
(* What every method leaves of a scope: a closed one stays closed, and a    *)
(* cleanup range that was chosen is not forgotten.                          *)
Keeps(s, t) ==
    /\ t \in ScopeRecord
    /\ AcceptsChildren(t) => AcceptsChildren(s)
    /\ t.cleanup = None => s.cleanup = None

(* ... and a method that does not close trees, begin, release or complete.  *)
Stays(s, t) ==
    /\ Keeps(s, t)
    /\ t.cleanup = "Tree" => s.cleanup = "Tree"
    /\ t.finalizer_active = s.finalizer_active /\ t.finalized = s.finalized

(* A scope that nothing touches. *)
LEMMA SameStays == \A s \in ScopeRecord : Stays(s, s)
  BY Zenon DEF Stays, Keeps

(* start, cancel, finish_body and mark_terminal leave guards alone. *)
LEMMA MethodsStay ==
  ASSUME NEW s \in ScopeRecord, NEW x \in TerminalStatus
  PROVE  /\ CanStart(s) => Stays(s, Started(s))
         /\ Stays(s, Cancelled(s)) /\ Stays(s, BodyFinished(s, x))
         /\ Stays(s, TerminalMarked(s, s.terminal))
         /\ BodyFinished(s, x).cleanup # None
  <1> USE NoneAssumption DEF ScopeRecord, Status, TerminalStatus, Stays, Keeps, AcceptsChildren, IsTerminal
  <1>1. CanStart(s) => Stays(s, Started(s))
    BY Zenon DEF CanStart, Started
  <1>2. Stays(s, Cancelled(s))
    BY Zenon DEF Cancelled
  <1>3. Stays(s, BodyFinished(s, x)) /\ BodyFinished(s, x).cleanup # None
    BY Zenon DEF BodyFinished, ChosenTerminal, OrLocal
  <1>4. Stays(s, TerminalMarked(s, s.terminal))
    BY Zenon DEF TerminalMarked
  <1> QED
    BY <1>1, <1>2, <1>3, <1>4, Zenon

(* begin_finalizing takes the guard of a scope and closes it. *)
LEMMA BegunKeeps ==
  ASSUME NEW s \in ScopeRecord, NEW x \in TerminalStatus \cup {None}
  PROVE  LET t == FinalizingBegun(s, x) IN
         /\ Keeps(s, t) /\ (t.cleanup = "Tree" => s.cleanup = "Tree") /\ t.cleanup # None
         /\ t.finalizer_active /\ t.finalized = s.finalized
  BY NoneAssumption, Zenon
  DEF ScopeRecord, Status, TerminalStatus, Keeps, AcceptsChildren, IsTerminal, FinalizingBegun,
      ChosenTerminal, OrLocal

(* release_finalizing gives it back. *)
LEMMA ReleasedKeeps ==
  ASSUME NEW s \in ScopeRecord
  PROVE  LET t == FinalizingReleased(s) IN
         /\ Keeps(s, t) /\ (t.cleanup = "Tree" => s.cleanup = "Tree")
         /\ ~t.finalizer_active /\ t.finalized = s.finalized
  BY NoneAssumption, Zenon
  DEF ScopeRecord, Status, TerminalStatus, Keeps, AcceptsChildren, IsTerminal, FinalizingReleased, OrLocal

(* complete_finalization marks it finalized. *)
LEMMA CompletedKeeps ==
  ASSUME NEW s \in ScopeRecord
  PROVE  LET t == FinalizationCompleted(s) IN
         /\ Keeps(s, t) /\ (t.cleanup = "Tree" => s.cleanup = "Tree") /\ t.cleanup # None
         /\ t.finalizer_active = s.finalizer_active /\ t.finalized
  BY NoneAssumption, Zenon
  DEF ScopeRecord, Status, TerminalStatus, Keeps, AcceptsChildren, IsTerminal, FinalizationCompleted,
      OrLocal

(* request_tree_cleanup closes it. *)
LEMMA RequestedKeeps ==
  ASSUME NEW s \in ScopeRecord
  PROVE  LET t == TreeCleanupRequested(s) IN
         /\ Keeps(s, t) /\ t.cleanup = "Tree" /\ ~AcceptsChildren(t)
         /\ t.finalizer_active = s.finalizer_active /\ t.finalized = s.finalized
  BY NoneAssumption, Zenon
  DEF ScopeRecord, Status, TerminalStatus, Keeps, AcceptsChildren, IsTerminal, TreeCleanupRequested,
      ChosenTerminal

(* abandon either requests the tree or keeps the decision to its own scope. *)
LEMMA AbandonedKeeps ==
  ASSUME NEW s \in ScopeRecord, ~s.finalized, Abandoned(s).cleanup # "Tree"
  PROVE  Stays(s, Abandoned(s)) /\ Abandoned(s).cleanup # None
  <1>1. CASE s.terminal # None /\ s.cleanup # "Tree"
    BY <1>1, NoneAssumption, Zenon
    DEF ScopeRecord, Status, TerminalStatus, Stays, Keeps, AcceptsChildren, IsTerminal, Abandoned
  <1>2. CASE ~(s.terminal # None /\ s.cleanup # "Tree")
    BY <1>2, RequestedKeeps, Zenon DEF Abandoned
  <1> QED
    BY <1>1, <1>2, Zenon

-----------------------------------------------------------------------------
(* What a step does to the scopes: they keep what Keeps says, only those in *)
(* the table change, and one that gets a guard is closed.                   *)
ScopesFrame ==
    \A q \in Procs :
       /\ Keeps(scope[q], scope'[q])
       /\ scope'[q] = scope[q] \/ q \in admitted
       /\ scope'[q].finalizer_active => scope[q].finalizer_active \/ scope'[q].cleanup # None

(* ... to tasks: a closed process gets no new one. *)
TasksFrame ==
    \A q \in Procs : task[q] = "none" /\ ~AcceptsChildren(scope[q]) => task'[q] = "none"

(* ... to handles: an open process and a running finalizer open them, and   *)
(* a process becomes finalized at the end of an attempt.                    *)
HandlesFrame ==
    \A q \in Procs :
       /\ \/ handles'[q] \cap Own \subseteq handles[q]
          \/ AcceptsChildren(scope[q])
          \/ ~scope[q].finalized /\ \E e \in Callers : call[e].pc = "running" /\ call[e].cur = q
       /\ \/ scope'[q].finalized = scope[q].finalized
          \/ /\ handles'[q] = handles[q]
             /\ \E e \in Callers : call[e].pc = "publish" /\ call[e].cur = q

(* ... and to finalizers: they are installed as the body starts, taken one  *)
(* by one, and discarded at the end.                                        *)
FinalizersFrame ==
    \A q \in Procs :
       /\ body'[q] \in {"none", "starting"} => body[q] \in {"none", "starting"}
       /\ \/ on_finalize'[q] = on_finalize[q] /\ ran'[q] = ran[q]
          \/ /\ CanStart(scope[q]) /\ body[q] = "starting" /\ body'[q] = "running"
             /\ ran'[q] = ran[q]
          \/ /\ on_finalize[q] > 0 /\ on_finalize'[q] = on_finalize[q] - 1 /\ ran'[q] = ran[q] + 1
             /\ \E e \in Callers : call[e].pc = "finalize" /\ call'[e].pc = "running" /\ call[e].cur = q
          \/ /\ on_finalize'[q] = 0 /\ ran'[q] = ran[q]
             /\ \E e \in Callers : call[e].pc = "publish" /\ call'[e].pc = "release" /\ call[e].cur = q

Frame == ScopesFrame /\ TasksFrame /\ HandlesFrame /\ FinalizersFrame

(* A step that leaves the scopes alone. *)
LEMMA SameScopes ==
  ASSUME TypeOK, scope' = scope
  PROVE  ScopesFrame
  BY SameStays, Zenon DEF TypeOK, ScopesFrame, Stays

(* A step that moves one scope. *)
LEMMA OneScope ==
  ASSUME TypeOK, NEW p \in admitted, NEW t, Keeps(scope[p], t), scope' = [scope EXCEPT ![p] = t],
         t.finalizer_active => scope[p].finalizer_active \/ t.cleanup # None
  PROVE  ScopesFrame /\ scope'[p] = t /\ \A q \in Procs \ {p} : scope'[q] = scope[q]
  <1>1. p \in Procs /\ scope'[p] = t /\ \A q \in Procs \ {p} : scope'[q] = scope[q]
    BY Zenon DEF TypeOK
  <1>2. \A q \in Procs : Stays(scope[q], scope[q])
    BY SameStays, Zenon DEF TypeOK
  <1>3. ASSUME NEW q \in Procs
        PROVE  /\ Keeps(scope[q], scope'[q])
               /\ scope'[q] = scope[q] \/ q \in admitted
               /\ scope'[q].finalizer_active => scope[q].finalizer_active \/ scope'[q].cleanup # None
    <2>1. CASE q = p
      BY <1>1, <2>1, Zenon
    <2>2. CASE q # p
      BY <1>1, <1>2, <2>2, Zenon DEF Stays
    <2> QED
      BY <2>1, <2>2, Zenon
  <1> QED
    BY <1>1, <1>3, Zenon DEF ScopesFrame

(* A step that closes a tree. *)
LEMMA TreeScopes ==
  ASSUME TypeOK, ClosedTree, NEW p \in admitted, scope' = TreeClosed(p), admitted' = admitted
  PROVE  /\ ScopesFrame /\ ClosedTree'
         /\ \A q \in Tree(p) : ~AcceptsChildren(scope'[q])
         /\ \A q \in Procs : /\ scope'[q].finalizer_active = scope[q].finalizer_active
                             /\ scope'[q].finalized = scope[q].finalized
  <1>0. Tree(p) \subseteq admitted /\ admitted \subseteq Procs
    BY Zenon DEF Tree, TypeOK
  <1>1. ASSUME NEW q \in Tree(p)
        PROVE  /\ Keeps(scope[q], scope'[q]) /\ ~AcceptsChildren(scope'[q])
               /\ scope'[q].finalizer_active = scope[q].finalizer_active
               /\ scope'[q].finalized = scope[q].finalized
    <2>1. scope'[q] = TreeCleanupRequested(scope[q]) /\ scope[q] \in ScopeRecord
      BY <1>0, Zenon DEF TypeOK, TreeClosed
    <2> QED
      BY <2>1, RequestedKeeps, Zenon
  <1>2. \A q \in Procs : q \notin Tree(p) => scope'[q] = scope[q]
    BY Zenon DEF TreeClosed
  <1>3. \A q \in Procs : Stays(scope[q], scope[q])
    BY SameStays, Zenon DEF TypeOK
  <1>4. \A q \in Procs :
           /\ Keeps(scope[q], scope'[q])
           /\ scope'[q].finalizer_active = scope[q].finalizer_active
           /\ scope'[q].finalized = scope[q].finalized
    BY <1>1, <1>2, <1>3, Zenon DEF Stays
  <1>5. ScopesFrame
    BY <1>0, <1>2, <1>4, Zenon DEF ScopesFrame
  <1>6. ASSUME NEW r \in admitted, scope'[r].cleanup = "Tree", NEW q \in admitted, r \in Lines[q]
        PROVE  ~AcceptsChildren(scope'[q])
    <2>1. CASE r \in Tree(p)
      <3>1. p \in Lines[q]
        BY <1>0, <1>6, <2>1, LinesTransitive, Zenon DEF Tree
      <3> QED
        BY <1>1, <1>6, <3>1, Zenon DEF Tree
    <2>2. CASE r \notin Tree(p)
      <3>1. ~AcceptsChildren(scope[q])
        BY <1>0, <1>2, <1>6, <2>2, Zenon DEF ClosedTree
      <3> QED
        BY <1>0, <1>4, <3>1, Zenon DEF Keeps
    <2> QED
      BY <2>1, <2>2, Zenon
  <1>7. ClosedTree'
    BY <1>6, Zenon DEF ClosedTree
  <1> QED
    BY <1>1, <1>4, <1>5, <1>7, Zenon

(* Trees stay closed where no step selects another one. *)
LEMMA TreesKept ==
  ASSUME TypeOK, ClosedTree, ScopesFrame, admitted' = admitted,
         \A q \in Procs : scope'[q].cleanup = "Tree" => scope[q].cleanup = "Tree"
  PROVE  ClosedTree'
  <1>1. ASSUME NEW r \in admitted, scope'[r].cleanup = "Tree", NEW q \in admitted, r \in Lines[q]
        PROVE  ~AcceptsChildren(scope'[q])
    <2>1. r \in Procs /\ q \in Procs
      BY Zenon DEF TypeOK
    <2>2. ~AcceptsChildren(scope[q])
      BY <1>1, <2>1, Zenon DEF ClosedTree
    <2> QED
      BY <2>1, <2>2, Zenon DEF ScopesFrame, Keeps
  <1> QED
    BY <1>1, Zenon DEF ClosedTree

(* A step in which one scope stays what it was. *)
LEMMA OneStays ==
  ASSUME TypeOK, ClosedTree, NEW p \in admitted, NEW t, Stays(scope[p], t),
         scope' = [scope EXCEPT ![p] = t], admitted' = admitted
  PROVE  /\ ScopesFrame /\ ClosedTree' /\ scope' \in [Procs -> ScopeRecord]
         /\ \A q \in Procs : /\ scope'[q].finalizer_active <=> scope[q].finalizer_active
                             /\ scope'[q].finalized = scope[q].finalized
  <1>1. Keeps(scope[p], t) /\ (t.finalizer_active => scope[p].finalizer_active \/ t.cleanup # None)
    BY Zenon DEF Stays
  <1>2. ScopesFrame /\ scope'[p] = t /\ \A q \in Procs \ {p} : scope'[q] = scope[q]
    BY <1>1, OneScope, Zenon
  <1>3. \A q \in Procs : Stays(scope[q], scope'[q])
    BY <1>2, SameStays, Zenon DEF TypeOK
  <1>4. scope' \in [Procs -> ScopeRecord]
    BY <1>1, Zenon DEF TypeOK, Keeps
  <1>5. ClosedTree'
    BY <1>2, <1>3, TreesKept, Zenon DEF Stays
  <1> QED
    BY <1>2, <1>3, <1>4, <1>5, Zenon DEF Stays

-----------------------------------------------------------------------------
(* A caller gives back the guards in S and takes those in T, which nobody   *)
(* had.                                                                     *)
LEMMA OwnedMove ==
  ASSUME TypeOK, Owned, NEW c \in Callers, NEW S, NEW T \in SUBSET Procs, S \subseteq Guards(c),
         \A p \in T : ~scope[p].finalizer_active,
         \A d \in Callers : d # c => call'[d] = call[d],
         Guards(c)' = (Guards(c) \ S) \cup T,
         \A p \in Procs : scope'[p].finalizer_active <=> (p \in T \/ (scope[p].finalizer_active /\ p \notin S)),
         call'[c].own => call'[c].cur # call'[c].root
  PROVE  Owned'
  <1>0. \A d \in Callers : d # c => Guards(d)' = Guards(d)
    BY Zenon DEF Guards
  <1>1. \A d \in Callers : Guards(d) \subseteq Active
    BY Zenon DEF Owned, Owners, Held
  <1>2. \A d, e \in Callers : d # e => Guards(d) \cap Guards(e) = {}
    BY Zenon DEF Owned, Owners, Held
  <1>3. \A p \in Active : \E d \in Callers : p \in Guards(d)
    BY Zenon DEF Owned, Owners, Held
  <1>4. Active' = (Active \ S) \cup T
    BY Zenon DEF Active
  <1>5. ASSUME NEW d \in Callers PROVE Guards(d)' \subseteq Active'
    <2>1. CASE d = c
      BY <1>1, <1>4, <2>1, Zenon
    <2>2. CASE d # c
      BY <1>0, <1>1, <1>2, <1>4, <2>2, Zenon
    <2> QED
      BY <2>1, <2>2, Zenon
  <1>6. \A p \in T, d \in Callers : p \notin Guards(d)
    BY <1>1, Zenon DEF Active
  <1>7. ASSUME NEW d \in Callers, NEW e \in Callers, d # e PROVE Guards(d)' \cap Guards(e)' = {}
    <2>1. CASE d = c
      <3>1. Guards(e)' = Guards(e) /\ Guards(c) \cap Guards(e) = {} /\ T \cap Guards(e) = {}
        BY <1>0, <1>2, <1>6, <1>7, <2>1, Zenon
      <3> QED
        BY <2>1, <3>1, Zenon
    <2>2. CASE e = c
      <3>1. Guards(d)' = Guards(d) /\ Guards(c) \cap Guards(d) = {} /\ T \cap Guards(d) = {}
        BY <1>0, <1>2, <1>6, <1>7, <2>2, Zenon
      <3> QED
        BY <2>2, <3>1, Zenon
    <2>3. CASE d # c /\ e # c
      BY <1>0, <1>2, <1>7, <2>3, Zenon
    <2> QED
      BY <2>1, <2>2, <2>3, Zenon
  <1>8. ASSUME NEW p \in Active' PROVE \E d \in Callers : p \in Guards(d)'
    <2>1. CASE p \in T
      BY <2>1, Zenon
    <2>2. CASE p \notin T
      <3>1. p \in Active /\ p \notin S
        BY <1>4, <1>8, <2>2, Zenon
      <3>2. PICK d \in Callers : p \in Guards(d)
        BY <1>3, <3>1, Zenon
      <3>3. p \in Guards(d)'
        BY <1>0, <3>1, <3>2, Zenon
      <3> QED
        BY <3>3, Zenon
    <2> QED
      BY <2>1, <2>2, Zenon
  <1>9. Owners(Held, Active)'
    BY <1>5, <1>7, <1>8, Zenon DEF Owners, Held
  <1>10. \A d \in Callers : call'[d].own => call'[d].cur # call'[d].root
    BY Zenon DEF Owned
  <1> QED
    BY <1>9, <1>10, Zenon DEF Owned

(* No guard moves. *)
LEMMA OwnedSame ==
  ASSUME TypeOK, Owned, NEW c \in Callers,
         \A d \in Callers : d # c => call'[d] = call[d],
         Guards(c)' = Guards(c), call'[c].own => call'[c].cur # call'[c].root,
         \A p \in Procs : scope'[p].finalizer_active <=> scope[p].finalizer_active
  PROVE  Owned'
  <1> DEFINE S == {}
  <1>1. S \subseteq Guards(c) /\ Guards(c)' = (Guards(c) \ S) \cup S
    BY Zenon
  <1>2. \A p \in Procs : scope'[p].finalizer_active <=> (p \in S \/ (scope[p].finalizer_active /\ p \notin S))
    BY Zenon
  <1>3. S \in SUBSET Procs /\ \A p \in S : ~scope[p].finalizer_active
    BY Zenon
  <1> HIDE DEF S
  <1> QED
    BY <1>1, <1>2, <1>3, OwnedMove, Zenon

(* No call moves. *)
LEMMA OwnedStill ==
  ASSUME TypeOK, Owned, call' = call,
         \A p \in Procs : scope'[p].finalizer_active <=> scope[p].finalizer_active
  PROVE  Owned'
  <1>1. Active' = Active
    BY Zenon DEF Active
  <1>2. Held' = Held
    BY Zenon DEF Held, Guards
  <1>3. Owners(Held, Active)'
    BY <1>1, <1>2, Zenon DEF Owned, Owners
  <1> QED
    BY <1>3, Zenon DEF Owned

(* A caller that holds a guard is the only one, of a closed process. *)
LEMMA Holder ==
  ASSUME IInv, NEW c \in Callers, call[c].cur # None
  PROVE  /\ call[c].cur \in admitted /\ scope[call[c].cur].finalizer_active
         /\ ~AcceptsChildren(scope[call[c].cur])
         /\ \A d \in Callers : d # c => call[d].cur # call[c].cur
  <1>1. call[c].cur \in admitted /\ admitted \subseteq Procs
    BY Zenon DEF IInv, TypeOK, Shape, CallShape
  <1>2. call[c].cur \in Guards(c)
    BY Zenon DEF Guards
  <1>3. scope[call[c].cur].finalizer_active
    BY <1>2, Zenon DEF IInv, Owned, Owners, Held, Active
  <1>4. ~AcceptsChildren(scope[call[c].cur])
    BY <1>1, <1>3, Zenon DEF IInv, Shape, ScopeShape, AcceptsChildren
  <1>5. ASSUME NEW d \in Callers, d # c, call[d].cur = call[c].cur PROVE FALSE
    <2>1. call[c].cur \in Guards(d)
      BY <1>5, Zenon DEF Guards
    <2> QED
      BY <1>2, <1>5, <2>1, Zenon DEF IInv, Owned, Owners, Held
  <1> QED
    BY <1>1, <1>3, <1>4, <1>5, Zenon

-----------------------------------------------------------------------------
(* A call that does not move keeps what it did. *)
LEMMA OthersWork ==
  ASSUME IInv, Frame, NEW d \in Callers, call'[d] = call[d]
  PROVE  Worked(d)'
  <1>0. Worked(d) /\ CallShape(call[d], admitted) /\ admitted \subseteq Procs /\ call[d] \in CallRecord
    BY Zenon DEF IInv, Shape, TypeOK
  <1>1. Ended(call[d]) \subseteq Procs
    <2>1. call[d].todo \subseteq Procs
      BY <1>0, Zenon DEF CallShape
    <2>2. call[d].op \in {"tree", "resume"} => call[d].root \in Procs
      BY <1>0, Zenon DEF CallShape
    <2> QED
      BY <2>1, <2>2, Zenon DEF Ended
  <1>2. \A q \in Procs : ~AcceptsChildren(scope[q]) => ~AcceptsChildren(scope'[q])
    BY Zenon DEF Frame, ScopesFrame, Keeps
  <1>3. \A q \in Procs : task[q] = "none" /\ ~AcceptsChildren(scope[q]) => task'[q] = "none"
    BY Zenon DEF Frame, TasksFrame
  <1>4. call[d].pc \in Past => call[d].cur \in Procs /\ call[d].cur # None
    BY <1>0, Zenon DEF CallShape, Attempting
  <1>5. call[d].pc \in Past => ~AcceptsChildren(scope[call[d].cur])
    BY <1>4, Holder, Zenon
  <1>6. JoinedAt(d)'
    <2>1. call[d].pc \in Past \cup {"own", "abort", "join", "acquire"} =>
            \A q \in Ended(call[d]) : ~AcceptsChildren(scope'[q])
      BY <1>0, <1>1, <1>2, Zenon DEF Worked, JoinedAt
    <2>2. call[d].pc \in Past \cup {"acquire"} => \A q \in Ended(call[d]) : task'[q] = "none"
      BY <1>0, <1>1, <1>3, Zenon DEF Worked, JoinedAt
    <2>3. call[d].pc \in Past => task'[call[d].cur] = "none"
      BY <1>0, <1>3, <1>4, <1>5, Zenon DEF Worked, JoinedAt
    <2>4. Ended(call[d])' = Ended(call[d])
      BY Zenon DEF Ended
    <2> QED
      BY <2>1, <2>2, <2>3, <2>4, Zenon DEF JoinedAt
  <1>7. EmptiedAt(d)'
    <2> SUFFICES ASSUME call[d].pc \in {"mark", "publish"} PROVE handles'[call[d].cur] \cap Own = {}
      BY Zenon DEF EmptiedAt
    <2>1. call[d].pc \in Past /\ call[d].pc # "running"
      BY Zenon DEF Past
    <2>2. \A e \in Callers : ~(call[e].pc = "running" /\ call[e].cur = call[d].cur)
      BY <1>4, <2>1, Holder, Zenon
    <2>3. handles'[call[d].cur] \cap Own \subseteq handles[call[d].cur]
      <3>1. call[d].cur \in Procs /\ ~AcceptsChildren(scope[call[d].cur])
        BY <1>4, <1>5, <2>1, Zenon
      <3>2. HandlesFrame
        BY Zenon DEF Frame
      <3>3. \A q \in Procs :
               \/ handles'[q] \cap Own \subseteq handles[q] \/ AcceptsChildren(scope[q])
               \/ \E e \in Callers : call[e].pc = "running" /\ call[e].cur = q
        BY <3>2, Zenon DEF HandlesFrame
      <3> QED
        BY <2>2, <3>1, <3>3, Zenon
    <2>4. handles[call[d].cur] \cap Own = {}
      BY <1>0, Zenon DEF Worked, EmptiedAt
    <2> QED
      BY <2>3, <2>4, Zenon
  <1>8. DrainedAt(d)'
    <2> SUFFICES ASSUME call[d].pc \in {"close", "mark", "publish"} PROVE on_finalize'[call[d].cur] = 0
      BY Zenon DEF DrainedAt
    <2>1. call[d].pc \in Past /\ call[d].pc # "finalize" /\ call'[d].pc # "release"
      BY Zenon DEF Past
    <2>2. \A e \in Callers : /\ ~(call[e].pc = "finalize" /\ call[e].cur = call[d].cur)
                             /\ ~(call'[e].pc = "release" /\ call[e].cur = call[d].cur)
      BY <1>4, <2>1, Holder, Zenon
    <2>3. on_finalize[call[d].cur] = 0
      BY <1>0, Zenon DEF Worked, DrainedAt
    <2>4. ~CanStart(scope[call[d].cur])
      BY <1>5, <2>1, Zenon DEF CanStart
    <2> QED
      <3>1. call[d].cur \in Procs /\ ~(on_finalize[call[d].cur] > 0)
        BY <1>4, <2>1, <2>3
      <3>2. FinalizersFrame
        BY Zenon DEF Frame
      <3> QED
        BY <2>2, <2>3, <2>4, <3>1, <3>2, Zenon DEF FinalizersFrame
  <1> QED
    BY <1>6, <1>7, <1>8, Zenon DEF Worked

(* What holds of the processes themselves is kept. *)
LEMMA ProcessesKeep ==
  ASSUME IInv, Frame
  PROVE  Emptied' /\ Drained'
  <1>1. ASSUME NEW q \in Procs, scope'[q].finalized PROVE handles'[q] \cap Own = {}
    <2>1. CASE scope'[q].finalized = scope[q].finalized
      <3>1. handles[q] \cap Own = {} /\ ~AcceptsChildren(scope[q])
        BY <1>1, <2>1, Zenon DEF IInv, Emptied, AcceptsChildren
      <3> QED
        BY <1>1, <2>1, <3>1, Zenon DEF Frame, HandlesFrame
    <2>2. CASE scope'[q].finalized # scope[q].finalized
      <3>1. PICK e \in Callers : call[e].pc = "publish" /\ call[e].cur = q
        BY <2>2, Zenon DEF Frame, HandlesFrame
      <3>2. handles'[q] = handles[q]
        BY <2>2, Zenon DEF Frame, HandlesFrame
      <3> QED
        BY <3>1, <3>2, Zenon DEF IInv, Worked, EmptiedAt
    <2> QED
      BY <2>1, <2>2, Zenon
  <1>2. ASSUME NEW q \in Procs, body'[q] \in {"none", "starting"}
        PROVE  on_finalize'[q] = 0 /\ ran'[q] = 0
    <2>1. on_finalize[q] = 0 /\ ran[q] = 0 /\ body'[q] # "running"
      BY <1>2, Zenon DEF Frame, FinalizersFrame, IInv, Drained
    <2>2. ~(on_finalize[q] > 0)
      BY <2>1
    <2> QED
      BY <2>1, <2>2, Zenon DEF Frame, FinalizersFrame
  <1> QED
    BY <1>1, <1>2, Zenon DEF Emptied, Drained

(* The parts of a step put together. *)
LEMMA Together ==
  ASSUME IInv, Frame, TypeOK', Shape', Owned', ClosedTree',
         \A d \in Callers : call'[d] = call[d] \/ Worked(d)'
  PROVE  IInv'
  <1>1. \A d \in Callers : Worked(d)'
    BY OthersWork, Zenon
  <1> QED
    BY <1>1, ProcessesKeep, Zenon DEF IInv

-----------------------------------------------------------------------------
(* The frames of steps that leave a variable alone. *)
LEMMA SameHandles ==
  ASSUME handles' = handles, \A q \in Procs : scope'[q].finalized = scope[q].finalized
  PROVE  HandlesFrame
  BY Zenon DEF HandlesFrame

(* Finalizers that nobody touches. *)
LEMMA SameFinalizers ==
  ASSUME on_finalize' = on_finalize, ran' = ran,
         \A q \in Procs : body'[q] \in {"none", "starting"} => body[q] \in {"none", "starting"}
  PROVE  FinalizersFrame
  BY Zenon DEF FinalizersFrame

(* A step under which the table stays the same. *)
LEMMA ShapeKept ==
  ASSUME IInv, ScopesFrame, admitted' = admitted, \A d \in Callers : CallShape(call'[d], admitted),
         \A p \in Procs : BodyShape(p)'
  PROVE  Shape'
  <1>1. \A p \in Procs : ScopeShape(p)'
    <2>1. \A p \in Procs : ScopeShape(p)
      BY Zenon DEF IInv, Shape
    <2>2. ASSUME NEW p \in Procs PROVE ScopeShape(p)'
      <3>1. /\ p \notin admitted => scope'[p].cleanup = None
            /\ scope[p].finalizer_active => scope'[p].cleanup # None
        <4>1. /\ scope'[p] = scope[p] \/ p \in admitted
              /\ scope'[p].cleanup = None => scope[p].cleanup = None
          BY Zenon DEF ScopesFrame, Keeps
        <4>2. /\ p \notin admitted => scope[p].cleanup = None
              /\ scope[p].finalizer_active => scope[p].cleanup # None
          BY <2>1, Zenon DEF ScopeShape
        <4> QED
          BY <4>1, <4>2, Zenon
      <3>2. scope'[p].finalizer_active => scope'[p].cleanup # None
        BY <3>1, Zenon DEF ScopesFrame
      <3> QED
        BY <3>1, <3>2, Zenon DEF ScopeShape
    <2> QED
      BY <2>2, Zenon
  <1> QED
    BY <1>1, Zenon DEF Shape

(* The steps of bodies and of their environment leave the calls alone. *)
LEMMA StillStep ==
  ASSUME IInv, Frame, TypeOK', admitted' = admitted, call' = call, ClosedTree',
         \A p \in Procs : BodyShape(p)',
         \A p \in Procs : scope'[p].finalizer_active <=> scope[p].finalizer_active
  PROVE  IInv'
  <1>1. Owned'
    BY OwnedStill, Zenon DEF IInv
  <1>2. Shape'
    <2>1. \A d \in Callers : CallShape(call'[d], admitted)
      BY Zenon DEF IInv, Shape
    <2> QED
      BY <2>1, ShapeKept, Zenon DEF Frame
  <1> QED
    BY <1>1, <1>2, Together, Zenon

(* ... and most of them the scopes as well. *)
LEMMA QuietStep ==
  ASSUME IInv, TypeOK', admitted' = admitted, call' = call, scope' = scope,
         TasksFrame, HandlesFrame, FinalizersFrame, \A p \in Procs : BodyShape(p)'
  PROVE  IInv'
  <1>1. ScopesFrame
    BY SameScopes, Zenon DEF IInv
  <1>2. ClosedTree'
    BY <1>1, TreesKept, Zenon DEF IInv
  <1> QED
    BY <1>1, <1>2, StillStep, Zenon DEF Frame

-----------------------------------------------------------------------------
(* The requests at the roots are running, and no call has been made. *)
LEMMA InitInv == Init => IInv
  <1> SUFFICES ASSUME Init PROVE IInv
    BY Zenon
  <1>0. /\ admitted = {p \in Requests : Parent[p] = None}
        /\ scope = [p \in Procs |-> IF p \in Requests THEN Started(NewScope) ELSE NewScope]
        /\ task = [p \in Procs |-> "none"]
        /\ body = [p \in Procs |-> IF p \in admitted THEN "running" ELSE "none"]
        /\ owned = [p \in Procs |-> p \in admitted]
        /\ on_finalize = [p \in Procs |-> 0] /\ ran = [p \in Procs |-> 0]
        /\ handles = [p \in Procs |-> {}]
        /\ call = [c \in Callers |-> Idle]
    BY Zenon DEF Init
  <1>1. /\ Idle \in CallRecord /\ \A T : CallShape(Idle, T)
        /\ Idle.pc = "idle" /\ ~Idle.own /\ Idle.cur = None
    BY Zenon DEF Idle, CallRecord, CallShape, Attempting, Places, Past, TerminalStatus
  <1>2. \A p \in Procs :
           /\ scope[p] \in ScopeRecord /\ scope[p].cleanup = None
           /\ ~scope[p].finalizer_active /\ ~scope[p].finalized
    BY <1>0, NoneAssumption, Zenon DEF Started, NewScope, ScopeRecord, Status, TerminalStatus
  <1>3. TypeOK
    <2>1. scope \in [Procs -> ScopeRecord]
      BY <1>0, <1>2, Zenon
    <2>2. task \in [Procs -> TaskState] /\ body \in [Procs -> BodyState]
      BY <1>0, Zenon DEF TaskState, BodyState
    <2>3. owned \in [Procs -> BOOLEAN] /\ admitted \subseteq Procs
      BY <1>0 DEF Procs
    <2>4. on_finalize \in [Procs -> Nat] /\ ran \in [Procs -> Nat]
      BY <1>0, Zenon
    <2>5. handles \in [Procs -> SUBSET {"body", "cleanup", "finalizer"}]
      BY <1>0, Zenon
    <2>6. call \in [Callers -> CallRecord]
      BY <1>0, <1>1, Zenon
    <2> QED
      BY <2>1, <2>2, <2>3, <2>4, <2>5, <2>6, Zenon DEF TypeOK
  <1>4. \A c \in Callers : call[c] = Idle
    BY <1>0, Zenon
  <1>5. Shape
    <2>1. \A p \in Procs : BodyShape(p)
      BY <1>0, <1>1, <1>4, Zenon DEF BodyShape, Callers
    <2>2. \A p \in Procs : ScopeShape(p)
      BY <1>2, Zenon DEF ScopeShape
    <2> QED
      BY <1>1, <1>4, <2>1, <2>2, Zenon DEF Shape
  <1>6. Owned
    <2>1. \A c \in Callers : Guards(c) = {}
      BY <1>1, <1>4, Zenon DEF Guards
    <2>2. Active = {}
      BY <1>2, Zenon DEF Active
    <2> QED
      BY <1>1, <1>4, <2>1, <2>2, Zenon DEF Owned, Owners, Held
  <1>7. ClosedTree
    BY <1>2, <1>3, NoneAssumption, Zenon DEF ClosedTree, TypeOK
  <1>8. Emptied /\ Drained
    BY <1>0, Zenon DEF Emptied, Drained
  <1>9. \A c \in Callers : Worked(c)
    <2>1. \A c \in Callers : call[c].pc = "idle"
      BY <1>1, <1>4, Zenon
    <2> QED
      BY <2>1, Zenon DEF Worked, JoinedAt, EmptiedAt, DrainedAt, Past
  <1> QED
    BY <1>3, <1>5, <1>6, <1>7, <1>8, <1>9, Zenon DEF IInv

-----------------------------------------------------------------------------
(* A child enters under a parent that is open, so under no closed tree. *)
LEMMA AdmitInv == ASSUME IInv, NEW p \in Procs, admit(p) PROVE IInv'
  <1>0. /\ p \notin admitted /\ Parent[p] \in admitted /\ AcceptsChildren(scope[Parent[p]])
        /\ admitted' = admitted \cup {p}
        /\ owned' = [owned EXCEPT ![p] = TRUE]
        /\ body' = IF p \in Requests THEN [body EXCEPT ![p] = "running"] ELSE body
        /\ scope' = scope /\ task' = task /\ on_finalize' = on_finalize /\ ran' = ran
        /\ handles' = handles /\ call' = call
    BY Zenon DEF admit
  <1>1. TypeOK /\ Shape /\ ClosedTree
    BY Zenon DEF IInv
  <1>2. body' \in [Procs -> BodyState] /\ \A q \in Procs : q # p => body'[q] = body[q]
    BY <1>0, <1>1, Zenon DEF TypeOK, BodyState
  <1>3. body'[p] = "running" \/ body'[p] = body[p]
    BY <1>0, <1>1, Zenon DEF TypeOK
  <1>4. TypeOK'
    BY <1>0, <1>1, <1>2, Zenon DEF TypeOK
  <1>5. ScopesFrame
    BY <1>0, <1>1, SameScopes, Zenon
  <1>6. TasksFrame /\ HandlesFrame
    BY <1>0, SameHandles, Zenon DEF TasksFrame
  <1>7. FinalizersFrame
    <2>1. \A q \in Procs : body'[q] \in {"none", "starting"} => body[q] \in {"none", "starting"}
      BY <1>2, <1>3, Zenon
    <2> QED
      BY <1>0, <2>1, SameFinalizers, Zenon
  <1>8. Shape'
    <2>1. ASSUME NEW c \in Callers PROVE CallShape(call[c], admitted')
      <3>1. CallShape(call[c], admitted)
        BY <1>1, Zenon DEF Shape
      <3> QED
        BY <1>0, <3>1, Zenon DEF CallShape
    <2>2. ASSUME NEW q \in Procs PROVE BodyShape(q)'
      <3>1. BodyShape(q)
        BY <1>1, Zenon DEF Shape
      <3>2. CASE q # p
        <4>1. body'[q] = body[q] /\ (q \in admitted' <=> q \in admitted)
          BY <1>0, <1>2, <3>2, Zenon
        <4> QED
          BY <1>0, <3>1, <4>1, Zenon DEF BodyShape
      <3>3. CASE q = p
        <4>1. body[q] = "none" /\ task[q] = "none" /\ q \in admitted'
          BY <1>0, <3>1, <3>3, Zenon DEF BodyShape
        <4>2. body'[q] = "none" \/ (body'[q] = "running" /\ q \in Requests)
          BY <1>0, <1>1, <3>3, <4>1, Zenon DEF TypeOK
        <4>3. body'[q] = "running" => q \notin Actors
          BY <4>1, <4>2, CallerAssumption, Zenon
        <4>4. q \in Actors => call[q].pc = "idle"
          BY <3>1, <4>1, Zenon DEF BodyShape
        <4> QED
          BY <1>0, <4>1, <4>2, <4>3, <4>4, Zenon DEF BodyShape
      <3> QED
        BY <3>2, <3>3, Zenon
    <2>3. ASSUME NEW q \in Procs PROVE ScopeShape(q)'
      BY <1>0, <1>1, Zenon DEF Shape, ScopeShape
    <2> QED
      BY <1>0, <2>1, <2>2, <2>3, Zenon DEF Shape
  <1>9. ClosedTree'
    <2>1. ASSUME NEW r \in admitted', scope[r].cleanup = "Tree", NEW q \in admitted', r \in Lines[q]
          PROVE  ~AcceptsChildren(scope[q])
      <3>1. r \in admitted
        BY <1>0, <1>1, <2>1, NoneAssumption, Zenon DEF Shape, ScopeShape
      <3>2. CASE q \in admitted
        BY <1>1, <2>1, <3>1, <3>2, Zenon DEF ClosedTree
      <3>3. CASE q = p
        <4>1. Parent[p] # None
          BY <1>0, <1>1, NoneAssumption, Zenon DEF TypeOK
        <4>2. r \in Lines[Parent[p]]
          BY <1>0, <2>1, <3>1, <3>3, <4>1, LinesUp, Zenon
        <4>3. ~AcceptsChildren(scope[Parent[p]])
          BY <1>0, <1>1, <2>1, <3>1, <4>2, Zenon DEF ClosedTree
        <4> QED
          BY <1>0, <4>3, Zenon
      <3> QED
        BY <1>0, <2>1, <3>2, <3>3, Zenon
    <2> QED
      BY <1>0, <2>1, Zenon DEF ClosedTree
  <1>10. Owned'
    BY <1>0, OwnedStill, Zenon DEF IInv
  <1> QED
    BY <1>0, <1>4, <1>5, <1>6, <1>7, <1>8, <1>9, <1>10, Together, Zenon DEF Frame

(* A task is attached to an open process. *)
LEMMA SpawnInv == ASSUME IInv, NEW p \in Procs, spawn_task(p) PROVE IInv'
  <1>0. /\ p \in Actors \cap admitted /\ body[p] = "none" /\ AcceptsChildren(scope[p])
        /\ task' = [task EXCEPT ![p] = "attached"]
        /\ body' = [body EXCEPT ![p] = "starting"]
        /\ admitted' = admitted /\ scope' = scope /\ owned' = owned /\ on_finalize' = on_finalize
        /\ ran' = ran /\ handles' = handles /\ call' = call
    BY Zenon DEF spawn_task
  <1>1. TypeOK /\ Shape
    BY Zenon DEF IInv
  <1>2. TypeOK'
    <2>1. task' \in [Procs -> TaskState] /\ body' \in [Procs -> BodyState]
      BY <1>0, <1>1, Zenon DEF TypeOK, TaskState, BodyState
    <2> QED
      BY <1>0, <1>1, <2>1, Zenon DEF TypeOK
  <1>3. /\ \A q \in Procs : q # p => task'[q] = task[q] /\ body'[q] = body[q]
        /\ body'[p] = "starting" /\ task'[p] = "attached"
    BY <1>0, <1>1, Zenon DEF TypeOK
  <1>4. TasksFrame
    BY <1>0, <1>3, Zenon DEF TasksFrame
  <1>5. HandlesFrame
    BY <1>0, SameHandles, Zenon
  <1>6. FinalizersFrame
    <2>1. \A q \in Procs : body'[q] \in {"none", "starting"} => body[q] \in {"none", "starting"}
      BY <1>0, <1>3, Zenon
    <2> QED
      BY <1>0, <2>1, SameFinalizers, Zenon
  <1>7. ASSUME NEW q \in Procs PROVE BodyShape(q)'
    <2>1. BodyShape(q)
      BY <1>1, Zenon DEF Shape
    <2>2. CASE q # p
      BY <1>0, <1>3, <2>1, <2>2, Zenon DEF BodyShape
    <2>3. CASE q = p
      BY <1>0, <1>3, <2>1, <2>3, Zenon DEF BodyShape
    <2> QED
      BY <2>2, <2>3, Zenon
  <1> QED
    BY <1>0, <1>2, <1>4, <1>5, <1>6, <1>7, QuietStep, Zenon

(* The body starts; its finalizers are the first. *)
LEMMA ActivateInv == ASSUME IInv, NEW p \in Procs, activate_child(p) PROVE IInv'
  <1>0. /\ body[p] = "starting" /\ CanStart(scope[p])
        /\ scope' = [scope EXCEPT ![p] = Started(scope[p])]
        /\ on_finalize' = [on_finalize EXCEPT ![p] = Finalizers[p]]
        /\ body' = [body EXCEPT ![p] = "running"]
        /\ admitted' = admitted /\ task' = task /\ owned' = owned /\ ran' = ran
        /\ handles' = handles /\ call' = call
    BY Zenon DEF activate_child
  <1>1. TypeOK /\ Shape /\ ClosedTree
    BY Zenon DEF IInv
  <1>2. p \in admitted /\ p \in Actors
    BY <1>0, <1>1, Zenon DEF Shape, BodyShape
  <1>3. Stays(scope[p], Started(scope[p]))
    <2>1. scope[p] \in ScopeRecord
      BY <1>1, Zenon DEF TypeOK
    <2> QED
      BY <1>0, <2>1, MethodsStay, Zenon DEF TerminalStatus
  <1>4. /\ ScopesFrame /\ ClosedTree' /\ scope' \in [Procs -> ScopeRecord]
        /\ \A q \in Procs : /\ scope'[q].finalizer_active <=> scope[q].finalizer_active
                            /\ scope'[q].finalized = scope[q].finalized
    BY <1>0, <1>1, <1>2, <1>3, OneStays, Zenon
  <1>6. /\ body'[p] = "running" /\ on_finalize'[p] = Finalizers[p]
        /\ \A q \in Procs : q # p => body'[q] = body[q] /\ on_finalize'[q] = on_finalize[q]
    BY <1>0, <1>1, Zenon DEF TypeOK
  <1>7. TypeOK'
    <2>1. body' \in [Procs -> BodyState]
      BY <1>0, <1>1, Zenon DEF TypeOK, BodyState
    <2>2. on_finalize' \in [Procs -> Nat]
      BY <1>0, <1>1, TreeAssumption, Zenon DEF TypeOK
    <2> QED
      BY <1>0, <1>1, <1>4, <2>1, <2>2, Zenon DEF TypeOK
  <1>8. TasksFrame
    BY <1>0, Zenon DEF TasksFrame
  <1>9. HandlesFrame
    BY <1>0, <1>4, SameHandles, Zenon
  <1>10. FinalizersFrame
    BY <1>0, <1>6, Zenon DEF FinalizersFrame
  <1>11. ASSUME NEW q \in Procs PROVE BodyShape(q)'
    <2>1. BodyShape(q)
      BY <1>1, Zenon DEF Shape
    <2>2. CASE q # p
      BY <1>0, <1>6, <2>1, <2>2, Zenon DEF BodyShape
    <2>3. CASE q = p
      BY <1>0, <1>2, <1>6, <2>1, <2>3, Zenon DEF BodyShape
    <2> QED
      BY <2>2, <2>3, Zenon
  <1> QED
    BY <1>0, <1>4, <1>7, <1>8, <1>9, <1>10, <1>11, StillStep, Zenon DEF Frame

(* The body of an admitted process goes on. *)
LEMMA BodyGoesOn ==
  ASSUME IInv, NEW p \in Procs, NEW b \in {"cleaning", "returned", "completed"},
         body[p] \in {"running", "cleaning", "returned"}, b = "completed" => p \notin Actors,
         b = "cleaning" => body[p] = "running",
         body' = [body EXCEPT ![p] = b], admitted' = admitted, task' = task, call' = call
  PROVE  /\ body' \in [Procs -> BodyState]
         /\ \A q \in Procs : body'[q] \in {"none", "starting"} => body[q] \in {"none", "starting"}
         /\ \A q \in Procs : BodyShape(q)'
  <1>0. TypeOK /\ Shape
    BY Zenon DEF IInv
  <1>1. body' \in [Procs -> BodyState]
    BY <1>0, Zenon DEF TypeOK, BodyState
  <1>2. body'[p] = b /\ \A q \in Procs : q # p => body'[q] = body[q]
    BY <1>0, Zenon DEF TypeOK
  <1>3. ASSUME NEW q \in Procs PROVE BodyShape(q)'
    <2>1. BodyShape(q)
      BY <1>0, Zenon DEF Shape
    <2>2. CASE q # p
      BY <1>2, <2>1, <2>2, Zenon DEF BodyShape
    <2>3. CASE q = p
      <3>1. q \in admitted /\ b \notin {"starting", "retained"}
        BY <2>1, <2>3, Zenon DEF BodyShape
      <3>2. b = "cleaning" /\ q \in Actors => call[q].pc = "idle"
        BY <2>1, <2>3, Zenon DEF BodyShape
      <3>3. task[q] # "none" => q \in admitted \cap Actors
        BY <2>1, Zenon DEF BodyShape
      <3> QED
        BY <1>2, <2>3, <3>1, <3>2, <3>3, Zenon DEF BodyShape
    <2> QED
      BY <2>2, <2>3, Zenon
  <1>4. \A q \in Procs : body'[q] \in {"none", "starting"} => body[q] \in {"none", "starting"}
    BY <1>2, Zenon
  <1> QED
    BY <1>1, <1>3, <1>4, Zenon

(* Giving up a scope touches nothing the calls rely on. *)
LEMMA DetachInv == ASSUME IInv, NEW p \in Procs, detach(p) PROVE IInv'
  <1>0. /\ owned' = [owned EXCEPT ![p] = FALSE]
        /\ admitted' = admitted /\ scope' = scope /\ task' = task /\ body' = body
        /\ on_finalize' = on_finalize /\ ran' = ran /\ handles' = handles /\ call' = call
    BY Zenon DEF detach
  <1>1. TypeOK'
    BY <1>0, Zenon DEF IInv, TypeOK
  <1>2. TasksFrame /\ HandlesFrame /\ FinalizersFrame
    BY <1>0, SameHandles, SameFinalizers, Zenon DEF TasksFrame
  <1>3. \A q \in Procs : BodyShape(q)'
    BY <1>0, Zenon DEF IInv, Shape, BodyShape
  <1> QED
    BY <1>0, <1>1, <1>2, <1>3, QuietStep, Zenon

(* enter_cleanup and return_request move a body and nothing else. *)
LEMMA BodyMovesInv ==
  ASSUME IInv, NEW p \in Procs, enter_cleanup(p) \/ return_request(p)
  PROVE  IInv'
  <1>0. /\ admitted' = admitted /\ scope' = scope /\ task' = task /\ owned' = owned
        /\ on_finalize' = on_finalize /\ ran' = ran /\ handles' = handles /\ call' = call
    BY Zenon DEF enter_cleanup, return_request
  <1>1. PICK b \in {"cleaning", "returned"} :
          /\ body' = [body EXCEPT ![p] = b] /\ body[p] \in {"running", "cleaning"}
          /\ b = "cleaning" => body[p] = "running"
    <2>1. CASE enter_cleanup(p)
      BY <2>1, Zenon DEF enter_cleanup
    <2>2. CASE return_request(p)
      BY <2>2, Zenon DEF return_request
    <2> QED
      BY <2>1, <2>2, Zenon
  <1>2. /\ body' \in [Procs -> BodyState]
        /\ \A q \in Procs : body'[q] \in {"none", "starting"} => body[q] \in {"none", "starting"}
        /\ \A q \in Procs : BodyShape(q)'
    BY <1>0, <1>1, BodyGoesOn, Zenon
  <1>3. TypeOK'
    BY <1>0, <1>2, Zenon DEF IInv, TypeOK
  <1>4. TasksFrame /\ HandlesFrame /\ FinalizersFrame
    BY <1>0, <1>2, SameHandles, SameFinalizers, Zenon DEF TasksFrame
  <1> QED
    BY <1>0, <1>2, <1>3, <1>4, QuietStep, Zenon

(* A body that ends records its outcome in its own scope. *)
LEMMA CompleteBodyInv ==
  ASSUME IInv, NEW p \in Procs, NEW status \in Outcomes, complete_body(p, status)
  PROVE  IInv'
  <1>0. /\ p \in Requests /\ body[p] = "returned"
        /\ scope' = [scope EXCEPT ![p] = BodyFinished(scope[p], status)]
        /\ body' = [body EXCEPT ![p] = "completed"]
        /\ admitted' = admitted /\ task' = task /\ owned' = owned
        /\ on_finalize' = on_finalize /\ ran' = ran /\ handles' = handles /\ call' = call
    BY Zenon DEF complete_body
  <1>1. TypeOK /\ Shape /\ ClosedTree
    BY Zenon DEF IInv
  <1>2. p \in admitted /\ p \notin Actors
    BY <1>0, <1>1, CallerAssumption, Zenon DEF Shape, BodyShape
  <1>3. Stays(scope[p], BodyFinished(scope[p], status))
    BY <1>1, CallerAssumption, MethodsStay, Zenon DEF TypeOK
  <1>4. /\ ScopesFrame /\ ClosedTree' /\ scope' \in [Procs -> ScopeRecord]
        /\ \A q \in Procs : /\ scope'[q].finalizer_active <=> scope[q].finalizer_active
                            /\ scope'[q].finalized = scope[q].finalized
    BY <1>0, <1>1, <1>2, <1>3, OneStays, Zenon
  <1>5. /\ body' \in [Procs -> BodyState]
        /\ \A q \in Procs : body'[q] \in {"none", "starting"} => body[q] \in {"none", "starting"}
        /\ \A q \in Procs : BodyShape(q)'
    BY <1>0, <1>2, BodyGoesOn, Zenon
  <1>6. TypeOK'
    BY <1>0, <1>1, <1>4, <1>5, Zenon DEF TypeOK
  <1>7. TasksFrame /\ HandlesFrame /\ FinalizersFrame
    BY <1>0, <1>4, <1>5, SameHandles, SameFinalizers, Zenon DEF TasksFrame
  <1> QED
    BY <1>0, <1>4, <1>5, <1>6, <1>7, StillStep, Zenon DEF Frame

(* A cancellation shows in the status of one process. *)
LEMMA CancelInv == ASSUME IInv, NEW p \in Procs, cancel(p) PROVE IInv'
  <1>0. /\ p \in admitted /\ scope' = [scope EXCEPT ![p] = Cancelled(scope[p])]
        /\ admitted' = admitted /\ task' = task /\ body' = body /\ owned' = owned
        /\ on_finalize' = on_finalize /\ ran' = ran /\ handles' = handles /\ call' = call
    BY Zenon DEF cancel
  <1>1. TypeOK /\ Shape /\ ClosedTree
    BY Zenon DEF IInv
  <1>2. Stays(scope[p], Cancelled(scope[p]))
    <2>1. scope[p] \in ScopeRecord
      BY <1>1, Zenon DEF TypeOK
    <2> QED
      BY <2>1, MethodsStay, Zenon DEF TerminalStatus
  <1>3. /\ ScopesFrame /\ ClosedTree' /\ scope' \in [Procs -> ScopeRecord]
        /\ \A q \in Procs : /\ scope'[q].finalizer_active <=> scope[q].finalizer_active
                            /\ scope'[q].finalized = scope[q].finalized
    BY <1>0, <1>1, <1>2, OneStays, Zenon
  <1>4. TypeOK'
    BY <1>0, <1>1, <1>3, Zenon DEF TypeOK
  <1>5. TasksFrame /\ HandlesFrame /\ FinalizersFrame
    BY <1>0, <1>3, SameHandles, SameFinalizers, Zenon DEF TasksFrame
  <1>6. \A q \in Procs : BodyShape(q)'
    BY <1>0, <1>1, Zenon DEF Shape, BodyShape
  <1> QED
    BY <1>0, <1>3, <1>4, <1>5, <1>6, StillStep, Zenon DEF Frame

(* Tasks only go down their states, except as they are attached. *)
LEMMA TasksGoDown ==
  ASSUME IInv, task' \in [Procs -> TaskState], \A q \in Procs : task[q] = "none" => task'[q] = "none",
         admitted' = admitted, body' = body, call' = call
  PROVE  TasksFrame /\ \A q \in Procs : BodyShape(q)'
  <1>1. \A q \in Procs : BodyShape(q)
    BY Zenon DEF IInv, Shape
  <1>2. ASSUME NEW q \in Procs PROVE BodyShape(q)'
    BY <1>1, Zenon DEF BodyShape
  <1> QED
    BY <1>2, Zenon DEF TasksFrame

(* A dropped task that has revoked its tree is gone. *)
LEMMA ReleaseDroppedInv == ASSUME IInv, NEW p \in Procs, release_dropped(p) PROVE IInv'
  <1>0. /\ task' = [task EXCEPT ![p] = "none"]
        /\ admitted' = admitted /\ scope' = scope /\ body' = body /\ owned' = owned
        /\ on_finalize' = on_finalize /\ ran' = ran /\ handles' = handles /\ call' = call
    BY Zenon DEF release_dropped
  <1>1. task' \in [Procs -> TaskState] /\ \A q \in Procs : task[q] = "none" => task'[q] = "none"
    BY <1>0, Zenon DEF IInv, TypeOK, TaskState
  <1>2. TypeOK'
    BY <1>0, <1>1, Zenon DEF IInv, TypeOK
  <1>3. TasksFrame /\ \A q \in Procs : BodyShape(q)'
    BY <1>0, <1>1, TasksGoDown, Zenon
  <1>4. HandlesFrame /\ FinalizersFrame
    BY <1>0, SameHandles, SameFinalizers, Zenon
  <1> QED
    BY <1>0, <1>2, <1>3, <1>4, QuietStep, Zenon

(* abort_task changes attached tasks and no others. *)
LEMMA AbortsGoDown ==
  ASSUME TypeOK, NEW S
  PROVE  /\ AbortTasks(S) \in [Procs -> TaskState]
         /\ \A q \in Procs : task[q] = "none" => AbortTasks(S)[q] = "none"
  BY Zenon DEF TypeOK, TaskState, AbortTasks

(* Handles that are closed are gone, whoever opened them. *)
LEMMA ClosedHandles ==
  ASSUME TypeOK, NEW S, handles' = [q \in Procs |-> IF q \in S THEN {} ELSE handles[q]],
         \A q \in Procs : scope'[q].finalized = scope[q].finalized
  PROVE  HandlesFrame /\ handles' \in [Procs -> SUBSET {"body", "cleanup", "finalizer"}]
  <1>1. \A q \in Procs : handles'[q] \subseteq handles[q]
    BY Zenon
  <1>2. handles' \in [Procs -> SUBSET {"body", "cleanup", "finalizer"}]
    BY Zenon DEF TypeOK
  <1> QED
    BY <1>1, <1>2, Zenon DEF HandlesFrame

(* A task that unwinds aborts the tasks and closes the handles below it. *)
LEMMA RevokeInv == ASSUME IInv, NEW p \in Procs, revoke_tree(p) PROVE IInv'
  <1> DEFINE S == Tree(p)
  <1>0. /\ task[p] = "unwinding" /\ task' = [AbortTasks(S) EXCEPT ![p] = "revoked"]
        /\ handles' = [q \in Procs |-> IF q \in S THEN {} ELSE handles[q]]
        /\ admitted' = admitted /\ scope' = scope /\ body' = body /\ owned' = owned
        /\ on_finalize' = on_finalize /\ ran' = ran /\ call' = call
    BY Zenon DEF revoke_tree
  <1>1. TypeOK
    BY Zenon DEF IInv
  <1> HIDE DEF S
  <1>2. /\ AbortTasks(S) \in [Procs -> TaskState]
        /\ \A q \in Procs : task[q] = "none" => AbortTasks(S)[q] = "none"
    BY <1>1, AbortsGoDown, Zenon
  <1>3. task' \in [Procs -> TaskState] /\ \A q \in Procs : task[q] = "none" => task'[q] = "none"
    BY <1>0, <1>2, Zenon DEF TaskState
  <1>4. TasksFrame /\ \A q \in Procs : BodyShape(q)'
    BY <1>0, <1>3, TasksGoDown, Zenon
  <1>5. HandlesFrame /\ handles' \in [Procs -> SUBSET {"body", "cleanup", "finalizer"}]
    BY <1>0, <1>1, ClosedHandles, Zenon
  <1>6. FinalizersFrame
    BY <1>0, SameFinalizers, Zenon
  <1>7. TypeOK'
    BY <1>0, <1>1, <1>3, <1>5, Zenon DEF TypeOK
  <1> QED
    BY <1>0, <1>4, <1>5, <1>6, <1>7, QuietStep, Zenon

(* A dropped body closes its tree before its task unwinds. *)
LEMMA DropBodyInv == ASSUME IInv, NEW p \in Procs, drop_body(p) PROVE IInv'
  <1>0. /\ task[p] \in {"aborted", "attached"} /\ body[p] \in {"starting", "running", "cleaning"}
        /\ task' = [task EXCEPT ![p] = "unwinding"] /\ body' = [body EXCEPT ![p] = "returned"]
        /\ scope' = TreeClosed(p)
        /\ admitted' = admitted /\ owned' = owned /\ on_finalize' = on_finalize /\ ran' = ran
        /\ handles' = handles /\ call' = call
    BY Zenon DEF drop_body
  <1>1. TypeOK /\ Shape /\ ClosedTree
    BY Zenon DEF IInv
  <1>2. p \in admitted \cap Actors
    BY <1>0, <1>1, Zenon DEF Shape, BodyShape
  <1>3. /\ ScopesFrame /\ ClosedTree'
        /\ \A q \in Procs : /\ scope'[q].finalizer_active = scope[q].finalizer_active
                            /\ scope'[q].finalized = scope[q].finalized
    BY <1>0, <1>1, <1>2, TreeScopes, Zenon
  <1>4. /\ task'[p] = "unwinding" /\ body'[p] = "returned"
        /\ \A q \in Procs : q # p => task'[q] = task[q] /\ body'[q] = body[q]
    BY <1>0, <1>1, Zenon DEF TypeOK
  <1>5. TypeOK'
    <2>1. task' \in [Procs -> TaskState] /\ body' \in [Procs -> BodyState]
      BY <1>0, <1>1, Zenon DEF TypeOK, TaskState, BodyState
    <2>2. scope' \in [Procs -> ScopeRecord]
      <3>1. \A q \in Procs : scope'[q] \in ScopeRecord
        BY <1>3, Zenon DEF ScopesFrame, Keeps
      <3> QED
        BY <1>0, <3>1, Zenon DEF TreeClosed
    <2> QED
      BY <1>0, <1>1, <2>1, <2>2, Zenon DEF TypeOK
  <1>6. TasksFrame
    BY <1>0, <1>4, Zenon DEF TasksFrame
  <1>7. HandlesFrame
    BY <1>0, <1>3, SameHandles, Zenon
  <1>8. FinalizersFrame
    <2>1. \A q \in Procs : body'[q] \in {"none", "starting"} => body[q] \in {"none", "starting"}
      BY <1>4, Zenon
    <2> QED
      BY <1>0, <2>1, SameFinalizers, Zenon
  <1>9. ASSUME NEW q \in Procs PROVE BodyShape(q)'
    <2>1. BodyShape(q)
      BY <1>1, Zenon DEF Shape
    <2>2. CASE q # p
      BY <1>0, <1>4, <2>1, <2>2, Zenon DEF BodyShape
    <2>3. CASE q = p
      BY <1>0, <1>2, <1>4, <2>3, Zenon DEF BodyShape
    <2> QED
      BY <2>2, <2>3, Zenon
  <1> QED
    BY <1>0, <1>3, <1>5, <1>6, <1>7, <1>8, <1>9, StillStep, Zenon DEF Frame

(* A handle is opened by a body whose process is open, by cleanup, or by a  *)
(* finalizer that runs.                                                     *)
LEMMA OpenInv == ASSUME IInv, NEW p \in Procs, NEW by \in Openers, open(p, by) PROVE IInv'
  <1>0. /\ AdmitsHandles(p, by) /\ handles' = [handles EXCEPT ![p] = handles[p] \cup {by}]
        /\ admitted' = admitted /\ scope' = scope /\ task' = task /\ body' = body /\ owned' = owned
        /\ on_finalize' = on_finalize /\ ran' = ran /\ call' = call
    BY Zenon DEF open
  <1>1. by = "finalizer" => \E c \in Callers : call[c].pc = "running" /\ call[c].cur = p
    BY Zenon DEF open
  <1>2. TypeOK /\ by \in {"body", "cleanup", "finalizer"}
    BY CallerAssumption, Zenon DEF IInv
  <1>3. TypeOK'
    <2>1. handles' \in [Procs -> SUBSET {"body", "cleanup", "finalizer"}]
      BY <1>0, <1>2, Zenon DEF TypeOK
    <2> QED
      BY <1>0, <1>2, <2>1, Zenon DEF TypeOK
  <1>4. handles'[p] = handles[p] \cup {by} /\ \A q \in Procs : q # p => handles'[q] = handles[q]
    BY <1>0, <1>2, Zenon DEF TypeOK
  <1>5. ASSUME NEW q \in Procs
        PROVE  \/ handles'[q] \cap Own \subseteq handles[q]
               \/ AcceptsChildren(scope[q])
               \/ ~scope[q].finalized /\ \E e \in Callers : call[e].pc = "running" /\ call[e].cur = q
    <2>1. CASE q # p
      BY <1>4, <2>1, Zenon
    <2>2. CASE q = p /\ by = "body"
      BY <1>0, <2>2, Zenon DEF AdmitsHandles
    <2>3. CASE q = p /\ by = "cleanup"
      BY <1>4, <2>3, Zenon DEF Own
    <2>4. CASE q = p /\ by = "finalizer"
      BY <1>0, <1>1, <2>4, Zenon DEF AdmitsHandles
    <2> QED
      BY <1>2, <2>1, <2>2, <2>3, <2>4, Zenon
  <1>6. HandlesFrame
    BY <1>0, <1>5, Zenon DEF HandlesFrame
  <1>7. TasksFrame /\ FinalizersFrame
    BY <1>0, SameFinalizers, Zenon DEF TasksFrame
  <1>8. \A q \in Procs : BodyShape(q)'
    BY <1>0, Zenon DEF IInv, Shape, BodyShape
  <1> QED
    BY <1>0, <1>3, <1>6, <1>7, <1>8, QuietStep, Zenon

-----------------------------------------------------------------------------
(* A call that is nowhere near a member claims nothing. *)
LEMMA RestWorks ==
  ASSUME NEW c \in Callers, call'[c].pc \in {"idle", "select", "abandon", "end"}
  PROVE  Worked(c)'
  BY Zenon DEF Worked, JoinedAt, EmptiedAt, DrainedAt, Past

(* One call moves, and no body. *)
LEMMA CallStep ==
  ASSUME IInv, Frame, TypeOK', admitted' = admitted, body' = body,
         NEW c \in Callers, c \in Hosts \/ call[c].pc # "idle",
         \A q \in Procs : task[q] = "none" => task'[q] = "none",
         \A d \in Callers : d # c => call'[d] = call[d],
         CallShape(call'[c], admitted), Owned', ClosedTree', Worked(c)'
  PROVE  IInv'
  <1>1. Shape
    BY Zenon DEF IInv
  <1>2. \A d \in Callers : CallShape(call'[d], admitted)
    BY <1>1, Zenon DEF Shape
  <1>3. ASSUME NEW q \in Procs PROVE BodyShape(q)'
    <2>1. BodyShape(q)
      BY <1>1, Zenon DEF Shape
    <2>2. task'[q] # "none" => q \in admitted \cap Actors
      BY <2>1, Zenon DEF BodyShape
    <2>3. ASSUME q \in Actors, body[q] \notin {"returned", "completed"} PROVE call'[q].pc = "idle"
      <3>1. call[q].pc = "idle"
        BY <2>1, <2>3, Zenon DEF BodyShape
      <3>2. q # c /\ q \in Callers
        BY <2>3, <3>1, CallerAssumption, Zenon DEF Callers
      <3> QED
        BY <3>1, <3>2, Zenon
    <2> QED
      BY <2>1, <2>2, <2>3, Zenon DEF BodyShape
  <1>4. Shape'
    BY <1>2, <1>3, ShapeKept, Zenon DEF Frame
  <1> QED
    BY <1>4, Together, Zenon

(* The task keeps the outcome of its body, and will finish the process. *)
LEMMA RetainInv ==
  ASSUME IInv, NEW p \in Procs, NEW status \in Outcomes, retain_outcome(p, status)
  PROVE  IInv'
  <1> DEFINE finish == CanFinishBody(scope[p], status)
             k == [call[p] EXCEPT !.status = status, !.op = "finish", !.root = p, !.todo = {p}]
  <1>0. /\ p \in Actors /\ task[p] \in {"attached", "aborted"}
        /\ body[p] \in {"running", "cleaning", "starting"} /\ body' = [body EXCEPT ![p] = "retained"]
        /\ scope' = IF finish THEN [scope EXCEPT ![p] = BodyFinished(scope[p], status)] ELSE scope
        /\ admitted' = admitted /\ task' = task /\ owned' = owned /\ on_finalize' = on_finalize
        /\ ran' = ran /\ handles' = handles
    BY Zenon DEF retain_outcome
  <1>1. call' = IF finish THEN [call EXCEPT ![p].status = status, ![p].op = "finish", ![p].root = p,
                                            ![p].todo = {p}]
                ELSE call
    BY Zenon DEF retain_outcome
  <1>2. TypeOK /\ Shape /\ ClosedTree
    BY Zenon DEF IInv
  <1>3. p \in admitted /\ p \in Callers /\ call[p].pc = "idle" /\ CallShape(call[p], admitted)
    BY <1>0, <1>2, Zenon DEF Shape, BodyShape, Callers
  <1>4. status \in TerminalStatus
    BY CallerAssumption, Zenon
  <1>5. /\ call' \in [Callers -> CallRecord]
        /\ \A d \in Callers : d # p => call'[d] = call[d]
        /\ call'[p] = IF finish THEN k ELSE call[p]
    <2>0. call[p] \in CallRecord
      BY <1>2, <1>3, Zenon DEF TypeOK
    <2>1. k \in CallRecord
      BY <1>4, <2>0, Zenon DEF CallRecord
    <2>2. call \in [Callers -> CallRecord]
      BY <1>2, Zenon DEF TypeOK
    <2> HIDE DEF finish
    <2> QED
      BY <1>1, <1>3, <2>1, <2>2, Zenon
  <1>6. /\ CallShape(call'[p], admitted) /\ call'[p].pc = "idle"
        /\ call'[p].cur = call[p].cur /\ ~call'[p].own /\ ~call[p].own
    <2>1. CASE finish
      <3>1. /\ k.pc = "idle" /\ k.cur = call[p].cur /\ k.own = call[p].own /\ k.op = "finish"
            /\ k.dropped = call[p].dropped /\ k.root = p /\ k.todo = {p}
        <4>1. call[p] \in CallRecord
          BY <1>2, <1>3, Zenon DEF TypeOK
        <4> QED
          BY <1>3, <4>1, Zenon DEF CallRecord
      <3>2. call'[p] = k
        BY <1>5, <2>1, Zenon
      <3> HIDE DEF k
      <3>3. call[p].cur = None /\ ~call[p].own /\ ~call[p].dropped
        BY <1>3, Zenon DEF CallShape, Attempting, Past
      <3>4. CallShape(k, admitted)
        BY <1>3, <3>1, <3>3, Zenon DEF CallShape, Attempting, Past
      <3> QED
        BY <3>1, <3>2, <3>3, <3>4, Zenon
    <2>2. CASE ~finish
      BY <1>3, <1>5, <2>2, Zenon DEF CallShape
    <2> QED
      BY <2>1, <2>2, Zenon
  <1>7. /\ ScopesFrame /\ ClosedTree' /\ scope' \in [Procs -> ScopeRecord]
        /\ \A q \in Procs : /\ scope'[q].finalizer_active <=> scope[q].finalizer_active
                            /\ scope'[q].finalized = scope[q].finalized
    <2>1. CASE finish
      <3>1. Stays(scope[p], BodyFinished(scope[p], status))
        BY <1>2, <1>4, MethodsStay, Zenon DEF TypeOK
      <3>2. scope' = [scope EXCEPT ![p] = BodyFinished(scope[p], status)]
        BY <1>0, <2>1, Zenon
      <3> QED
        BY <1>0, <1>2, <1>3, <3>1, <3>2, OneStays, Zenon
    <2>2. CASE ~finish
      <3>1. scope' = scope
        BY <1>0, <2>2, Zenon
      <3>2. ScopesFrame
        BY <1>2, <3>1, SameScopes, Zenon
      <3> QED
        BY <1>0, <1>2, <3>1, <3>2, TreesKept, Zenon DEF TypeOK
    <2> QED
      BY <2>1, <2>2, Zenon
  <1> HIDE DEF finish, k
  <1>8. body'[p] = "retained" /\ \A q \in Procs : q # p => body'[q] = body[q]
    BY <1>0, <1>2, Zenon DEF TypeOK
  <1>9. TypeOK'
    <2>1. body' \in [Procs -> BodyState]
      BY <1>0, <1>2, Zenon DEF TypeOK, BodyState
    <2> QED
      BY <1>0, <1>2, <1>5, <1>7, <2>1, Zenon DEF TypeOK
  <1>10. Frame
    <2>1. \A q \in Procs : body'[q] \in {"none", "starting"} => body[q] \in {"none", "starting"}
      BY <1>8, Zenon
    <2> QED
      BY <1>0, <1>7, <2>1, SameHandles, SameFinalizers, Zenon DEF Frame, TasksFrame
  <1>11. Shape'
    <2>1. \A d \in Callers : CallShape(call'[d], admitted)
      BY <1>2, <1>5, <1>6, Zenon DEF Shape
    <2>2. ASSUME NEW q \in Procs PROVE BodyShape(q)'
      <3>1. BodyShape(q)
        BY <1>2, Zenon DEF Shape
      <3>2. CASE q # p
        <4>1. q \in Actors => call'[q] = call[q]
          BY <1>5, <3>2, Zenon DEF Callers
        <4> QED
          BY <1>0, <1>8, <3>1, <3>2, <4>1, Zenon DEF BodyShape
      <3>3. CASE q = p
        BY <1>0, <1>3, <1>6, <1>8, <3>3, Zenon DEF BodyShape
      <3> QED
        BY <3>2, <3>3, Zenon
    <2> QED
      BY <1>0, <1>7, <2>1, <2>2, ShapeKept, Zenon
  <1>12. Owned'
    <2>1. Guards(p)' = Guards(p)
      BY <1>6, Zenon DEF Guards
    <2> QED
      BY <1>2, <1>3, <1>5, <1>6, <1>7, <2>1, OwnedSame, Zenon DEF IInv
  <1>13. \A d \in Callers : call'[d] = call[d] \/ Worked(d)'
    BY <1>3, <1>5, <1>6, RestWorks, Zenon
  <1> QED
    BY <1>7, <1>9, <1>10, <1>11, <1>12, <1>13, Together, Zenon

(* The task is released, and goes on to finish the process. *)
LEMMA ReleaseFinishedInv == ASSUME IInv, NEW p \in Procs, release_finished(p) PROVE IInv'
  <1> DEFINE k == [call[p] EXCEPT !.pc = "acquire"]
  <1>0. /\ body[p] = "retained" /\ task' = [task EXCEPT ![p] = "none"]
        /\ body' = [body EXCEPT ![p] = "returned"]
        /\ call' = IF call[p].op = "finish" THEN [call EXCEPT ![p].pc = "acquire"] ELSE call
        /\ admitted' = admitted /\ scope' = scope /\ owned' = owned /\ on_finalize' = on_finalize
        /\ ran' = ran /\ handles' = handles
    BY Zenon DEF release_finished
  <1>1. TypeOK /\ Shape /\ ClosedTree
    BY Zenon DEF IInv
  <1>2. p \in admitted /\ p \in Callers /\ call[p].pc = "idle" /\ CallShape(call[p], admitted)
    BY <1>0, <1>1, Zenon DEF Shape, BodyShape, Callers
  <1>3. call[p].cur = None /\ ~call[p].own /\ ~call[p].dropped
    BY <1>2, Zenon DEF CallShape, Attempting, Past
  <1>4. /\ call' \in [Callers -> CallRecord]
        /\ \A d \in Callers : d # p => call'[d] = call[d]
        /\ call'[p] = IF call[p].op = "finish" THEN k ELSE call[p]
    <2>0. call[p] \in CallRecord
      BY <1>1, <1>2, Zenon DEF TypeOK
    <2>1. k \in CallRecord
      BY <2>0, Zenon DEF CallRecord, Places
    <2>2. call \in [Callers -> CallRecord]
      BY <1>1, Zenon DEF TypeOK
    <2> QED
      BY <1>0, <1>2, <2>1, <2>2, Zenon
  <1>5. /\ k.pc = "acquire" /\ k.cur = call[p].cur /\ k.own = call[p].own /\ k.op = call[p].op
        /\ k.dropped = call[p].dropped /\ k.root = call[p].root /\ k.todo = call[p].todo
    <2>1. call[p] \in CallRecord
      BY <1>1, <1>2, Zenon DEF TypeOK
    <2> QED
      BY <2>1, Zenon DEF CallRecord
  <1> HIDE DEF k
  <1>6. CallShape(call'[p], admitted)
    <2>1. CASE call[p].op = "finish"
      <3>1. CallShape(k, admitted)
        BY <1>2, <1>3, <1>5, <2>1, Zenon DEF CallShape, Attempting, Past
      <3> QED
        BY <1>4, <2>1, <3>1, Zenon
    <2>2. CASE call[p].op # "finish"
      BY <1>2, <1>4, <2>2, Zenon
    <2> QED
      BY <2>1, <2>2, Zenon
  <1>7. call'[p].cur = call[p].cur /\ ~call'[p].own
    BY <1>3, <1>4, <1>5, Zenon
  <1>8. /\ body'[p] = "returned" /\ task'[p] = "none"
        /\ \A q \in Procs : q # p => body'[q] = body[q] /\ task'[q] = task[q]
    BY <1>0, <1>1, Zenon DEF TypeOK
  <1>9. TypeOK'
    <2>1. body' \in [Procs -> BodyState] /\ task' \in [Procs -> TaskState]
      BY <1>0, <1>1, Zenon DEF TypeOK, BodyState, TaskState
    <2> QED
      BY <1>0, <1>1, <1>4, <2>1, Zenon DEF TypeOK
  <1>10. ScopesFrame /\ ClosedTree'
    <2>1. ScopesFrame
      BY <1>0, <1>1, SameScopes, Zenon
    <2> QED
      BY <1>0, <1>1, <2>1, TreesKept, Zenon
  <1>11. Frame
    <2>1. \A q \in Procs : body'[q] \in {"none", "starting"} => body[q] \in {"none", "starting"}
      BY <1>8, Zenon
    <2>2. TasksFrame
      BY <1>8, Zenon DEF TasksFrame
    <2> QED
      BY <1>0, <1>10, <2>1, <2>2, SameHandles, SameFinalizers, Zenon DEF Frame
  <1>12. Shape'
    <2>1. \A d \in Callers : CallShape(call'[d], admitted)
      BY <1>1, <1>4, <1>6, Zenon DEF Shape
    <2>2. ASSUME NEW q \in Procs PROVE BodyShape(q)'
      <3>1. BodyShape(q)
        BY <1>1, Zenon DEF Shape
      <3>2. CASE q # p
        <4>1. q \in Actors => call'[q] = call[q]
          BY <1>4, <3>2, Zenon DEF Callers
        <4> QED
          BY <1>0, <1>8, <3>1, <3>2, <4>1, Zenon DEF BodyShape
      <3>3. CASE q = p
        BY <1>0, <1>2, <1>8, <3>3, Zenon DEF BodyShape
      <3> QED
        BY <3>2, <3>3, Zenon
    <2> QED
      BY <1>0, <1>10, <2>1, <2>2, ShapeKept, Zenon
  <1>13. Owned'
    <2>1. Guards(p)' = Guards(p)
      BY <1>3, <1>7, Zenon DEF Guards
    <2> QED
      BY <1>0, <1>1, <1>2, <1>4, <1>7, <2>1, OwnedSame, Zenon DEF IInv
  <1>14. call'[p] = call[p] \/ Worked(p)'
    <2> SUFFICES ASSUME call[p].op = "finish" PROVE Worked(p)'
      BY <1>4, Zenon
    <2>1. call'[p].pc = "acquire" /\ call'[p].op = "finish"
      BY <1>4, <1>5, Zenon
    <2>2. Ended(call'[p]) = {}
      BY <2>1, Zenon DEF Ended
    <2> QED
      BY <2>1, <2>2, Zenon DEF Worked, JoinedAt, EmptiedAt, DrainedAt, Past
  <1> QED
    BY <1>4, <1>9, <1>10, <1>11, <1>12, <1>13, <1>14, Together, Zenon

-----------------------------------------------------------------------------
(* A host that does nothing takes up a call. *)
LEMMA NewCall ==
  ASSUME IInv, NEW h \in Hosts, call[h].pc = "idle", NEW k \in CallRecord, k.cur = None, ~k.own,
         call' = [call EXCEPT ![h] = k],
         \A q \in Procs : scope'[q].finalizer_active <=> scope[q].finalizer_active
  PROVE  /\ call' \in [Callers -> CallRecord] /\ h \in Callers /\ call'[h] = k
         /\ \A d \in Callers : d # h => call'[d] = call[d]
         /\ Owned'
  <1>1. h \in Callers /\ TypeOK /\ CallShape(call[h], admitted)
    BY Zenon DEF Callers, IInv, Shape
  <1>2. /\ call' \in [Callers -> CallRecord] /\ call'[h] = k
        /\ \A d \in Callers : d # h => call'[d] = call[d]
    BY <1>1, Zenon DEF TypeOK
  <1>3. call[h].cur = None /\ ~call[h].own
    BY <1>1, Zenon DEF CallShape, Attempting, Past
  <1>4. Guards(h)' = Guards(h)
    BY <1>2, <1>3, Zenon DEF Guards
  <1> QED
    BY <1>1, <1>2, <1>4, OwnedSame, Zenon DEF IInv

(* A host finishes a request: a new call about one process. *)
LEMMA FinishProcessInv ==
  ASSUME IInv, NEW h \in Hosts, NEW p \in Procs, NEW status \in Outcomes, finish_process(h, p, status)
  PROVE  IInv'
  <1> DEFINE k == [Idle EXCEPT !.pc = "acquire", !.op = "finish", !.root = p, !.todo = {p},
                               !.status = status]
  <1>0. /\ call[h].pc = "idle" /\ p \in admitted /\ call' = [call EXCEPT ![h] = k]
        /\ admitted' = admitted /\ scope' = scope /\ task' = task /\ body' = body /\ owned' = owned
        /\ on_finalize' = on_finalize /\ ran' = ran /\ handles' = handles
    BY Zenon DEF finish_process
  <1>1. /\ k \in CallRecord /\ k.cur = None /\ ~k.own /\ k.pc = "acquire" /\ k.op = "finish"
        /\ k.root = p /\ k.todo = {p}
    BY CallerAssumption, Zenon DEF Idle, CallRecord, Places
  <1> HIDE DEF k
  <1>2. TypeOK /\ ClosedTree
    BY Zenon DEF IInv
  <1>3. /\ call' \in [Callers -> CallRecord] /\ h \in Callers /\ call'[h] = k
        /\ \A d \in Callers : d # h => call'[d] = call[d]
        /\ Owned'
    BY <1>0, <1>1, NewCall, Zenon
  <1>4. CallShape(k, admitted)
    BY <1>0, <1>1, Zenon DEF CallShape, Attempting, Past
  <1>5. ScopesFrame
    BY <1>0, <1>2, SameScopes, Zenon
  <1>6. ClosedTree'
    BY <1>0, <1>2, <1>5, TreesKept, Zenon
  <1>7. Frame
    BY <1>0, <1>5, SameHandles, SameFinalizers, Zenon DEF Frame, TasksFrame
  <1>8. Worked(h)'
    <2>1. Ended(call'[h]) = {}
      BY <1>1, <1>3, Zenon DEF Ended
    <2> QED
      BY <1>1, <1>3, <2>1, Zenon DEF Worked, JoinedAt, EmptiedAt, DrainedAt, Past
  <1>9. TypeOK'
    BY <1>0, <1>2, <1>3, Zenon DEF TypeOK
  <1> QED
    BY <1>0, <1>3, <1>4, <1>6, <1>7, <1>8, <1>9, CallStep, Zenon

(* A host resumes a cleanup: a new call that has selected nothing yet. *)
LEMMA ResumeInv ==
  ASSUME IInv, NEW h \in Hosts, NEW p \in Procs, resume_cleanup(h, p)
  PROVE  IInv'
  <1> DEFINE k == [Idle EXCEPT !.pc = "select", !.op = "resume", !.root = p]
  <1>0. /\ call[h].pc = "idle" /\ p \in admitted /\ call' = [call EXCEPT ![h] = k]
        /\ admitted' = admitted /\ scope' = scope /\ task' = task /\ body' = body /\ owned' = owned
        /\ on_finalize' = on_finalize /\ ran' = ran /\ handles' = handles
    BY Zenon DEF resume_cleanup
  <1>1. /\ k \in CallRecord /\ k.cur = None /\ ~k.own /\ k.pc = "select" /\ k.op = "resume"
        /\ k.root = p /\ k.todo = {}
    BY Zenon DEF Idle, CallRecord, Places, TerminalStatus
  <1> HIDE DEF k
  <1>2. TypeOK /\ ClosedTree
    BY Zenon DEF IInv
  <1>3. /\ call' \in [Callers -> CallRecord] /\ h \in Callers /\ call'[h] = k
        /\ \A d \in Callers : d # h => call'[d] = call[d]
        /\ Owned'
    BY <1>0, <1>1, NewCall, Zenon
  <1>4. CallShape(k, admitted)
    BY <1>0, <1>1, Zenon DEF CallShape, Attempting, Past
  <1>5. ScopesFrame
    BY <1>0, <1>2, SameScopes, Zenon
  <1>6. ClosedTree'
    BY <1>0, <1>2, <1>5, TreesKept, Zenon
  <1>7. Frame
    BY <1>0, <1>5, SameHandles, SameFinalizers, Zenon DEF Frame, TasksFrame
  <1>8. Worked(h)'
    BY <1>1, <1>3, RestWorks, Zenon
  <1>9. TypeOK'
    BY <1>0, <1>2, <1>3, Zenon DEF TypeOK
  <1> QED
    BY <1>0, <1>3, <1>4, <1>6, <1>7, <1>8, <1>9, CallStep, Zenon

(* The scopes of a closed tree are scopes. *)
LEMMA TreeTyped == ASSUME TypeOK, NEW p \in admitted PROVE TreeClosed(p) \in [Procs -> ScopeRecord]
  <1>1. ASSUME NEW q \in Procs
        PROVE  (IF q \in Tree(p) THEN TreeCleanupRequested(scope[q]) ELSE scope[q]) \in ScopeRecord
    BY RequestedKeeps, Zenon DEF TypeOK, Keeps
  <1> QED
    BY <1>1, Zenon DEF TreeClosed

(* A host finalizes a tree, which is closed as the call starts. *)
LEMMA FinalizeProcessInv ==
  ASSUME IInv, NEW h \in Hosts, NEW p \in Procs, finalize_process(h, p)
  PROVE  IInv'
  <1> DEFINE k == [Idle EXCEPT !.pc = "own", !.op = "tree", !.root = p, !.todo = Tree(p) \ {p}]
  <1>0. /\ call[h].pc = "idle" /\ p \in admitted /\ call' = [call EXCEPT ![h] = k]
        /\ scope' = TreeClosed(p)
        /\ admitted' = admitted /\ task' = task /\ body' = body /\ owned' = owned
        /\ on_finalize' = on_finalize /\ ran' = ran /\ handles' = handles
    BY Zenon DEF finalize_process
  <1>1. TypeOK /\ ClosedTree /\ Tree(p) \subseteq admitted /\ admitted \subseteq Procs
    BY Zenon DEF IInv, Tree, TypeOK
  <1>2. /\ k \in CallRecord /\ k.cur = None /\ ~k.own /\ k.pc = "own" /\ k.op = "tree"
        /\ k.root = p /\ k.todo = Tree(p) \ {p} /\ ~k.dropped
    BY <1>1, Zenon DEF Idle, CallRecord, Places, TerminalStatus
  <1> HIDE DEF k
  <1>3. /\ ScopesFrame /\ ClosedTree'
        /\ \A q \in Tree(p) : ~AcceptsChildren(scope'[q])
        /\ \A q \in Procs : /\ scope'[q].finalizer_active = scope[q].finalizer_active
                            /\ scope'[q].finalized = scope[q].finalized
    BY <1>0, <1>1, TreeScopes, Zenon
  <1>4. /\ call' \in [Callers -> CallRecord] /\ h \in Callers /\ call'[h] = k
        /\ \A d \in Callers : d # h => call'[d] = call[d]
        /\ Owned'
    BY <1>0, <1>2, <1>3, NewCall, Zenon
  <1>5. CallShape(k, admitted)
    BY <1>0, <1>1, <1>2, Zenon DEF CallShape, Attempting, Past
  <1>6. Frame
    BY <1>0, <1>3, SameHandles, SameFinalizers, Zenon DEF Frame, TasksFrame
  <1>7. Worked(h)'
    <2>1. p \in Tree(p)
      BY <1>0, LinesSelf, Zenon DEF Tree
    <2>2. Ended(call'[h]) \subseteq Tree(p)
      BY <1>2, <1>4, <2>1, Zenon DEF Ended
    <2>3. \A q \in Ended(call'[h]) : ~AcceptsChildren(scope'[q])
      BY <1>3, <2>2, Zenon
    <2> QED
      BY <1>2, <1>4, <2>3, Zenon DEF Worked, JoinedAt, EmptiedAt, DrainedAt, Past
  <1>8. TypeOK'
    <2>1. scope' \in [Procs -> ScopeRecord]
      BY <1>0, <1>1, TreeTyped, Zenon
    <2> QED
      BY <1>0, <1>1, <1>4, <2>1, Zenon DEF TypeOK
  <1> QED
    BY <1>0, <1>3, <1>4, <1>5, <1>6, <1>7, <1>8, CallStep, Zenon

(* A scope is dropped unfinished: its tree is closed at once. *)
LEMMA AbandonScopeInv ==
  ASSUME IInv, NEW h \in Hosts, NEW p \in Procs, abandon_scope(h, p)
  PROVE  IInv'
  <1> DEFINE s == Abandoned(scope[p])
             ids == IF s.cleanup = "Tree" THEN Tree(p) ELSE {p}
             k == [Idle EXCEPT !.pc = "abandon", !.op = "resume", !.root = p, !.todo = ids]
  <1>0. /\ call[h].pc = "idle" /\ p \in admitted /\ owned' = [owned EXCEPT ![p] = FALSE]
        /\ admitted' = admitted /\ task' = task /\ body' = body
        /\ on_finalize' = on_finalize /\ ran' = ran /\ handles' = handles
    BY Zenon DEF abandon_scope
  <1>1. IF scope[p].finalized THEN scope' = scope /\ call' = call
        ELSE /\ scope' = IF s.cleanup = "Tree" THEN TreeClosed(p) ELSE [scope EXCEPT ![p] = s]
             /\ call' = [call EXCEPT ![h] = k]
    BY Zenon DEF abandon_scope
  <1>2. TypeOK /\ Shape /\ ClosedTree /\ Tree(p) \subseteq admitted /\ admitted \subseteq Procs
    BY Zenon DEF IInv, Tree, TypeOK
  <1>3. owned' \in [Procs -> BOOLEAN]
    BY <1>0, <1>2, Zenon DEF TypeOK
  <1>4. CASE scope[p].finalized
    <2>1. scope' = scope /\ call' = call
      BY <1>1, <1>4, Zenon
    <2>2. TypeOK'
      BY <1>0, <1>2, <1>3, <2>1, Zenon DEF TypeOK
    <2>3. TasksFrame /\ HandlesFrame /\ FinalizersFrame
      BY <1>0, <2>1, SameHandles, SameFinalizers, Zenon DEF TasksFrame
    <2>4. \A q \in Procs : BodyShape(q)'
      BY <1>0, <1>2, <2>1, Zenon DEF Shape, BodyShape
    <2> QED
      BY <1>0, <2>1, <2>2, <2>3, <2>4, QuietStep, Zenon
  <1>5. CASE ~scope[p].finalized
    <2>1. ids \subseteq admitted
      BY <1>0, <1>2, Zenon
    <2>2. /\ k \in CallRecord /\ k.cur = None /\ ~k.own /\ k.pc = "abandon" /\ k.op = "resume"
          /\ k.root = p /\ k.todo = ids
      <3> HIDE DEF ids
      <3> QED
        BY <1>2, <2>1, Zenon DEF Idle, CallRecord, Places, TerminalStatus
    <2>3. /\ ScopesFrame /\ ClosedTree' /\ scope' \in [Procs -> ScopeRecord]
          /\ \A q \in Procs : /\ scope'[q].finalizer_active <=> scope[q].finalizer_active
                              /\ scope'[q].finalized = scope[q].finalized
      <3>1. CASE s.cleanup = "Tree"
        <4>1. scope' = TreeClosed(p)
          BY <1>1, <1>5, <3>1, Zenon
        <4> QED
          BY <1>0, <1>2, <4>1, TreeScopes, TreeTyped, Zenon
      <3>2. CASE s.cleanup # "Tree"
        <4>1. scope' = [scope EXCEPT ![p] = s]
          BY <1>1, <1>5, <3>2, Zenon
        <4>2. Stays(scope[p], s)
          BY <1>2, <1>5, <3>2, AbandonedKeeps, Zenon DEF TypeOK
        <4> HIDE DEF s
        <4> QED
          BY <1>0, <1>2, <4>1, <4>2, OneStays, Zenon
      <3> QED
        BY <3>1, <3>2, Zenon
    <2>4. call' = [call EXCEPT ![h] = k]
      BY <1>1, <1>5, Zenon
    <2> HIDE DEF k, ids, s
    <2>5. /\ call' \in [Callers -> CallRecord] /\ h \in Callers /\ call'[h] = k
          /\ \A d \in Callers : d # h => call'[d] = call[d]
          /\ Owned'
      BY <1>0, <2>2, <2>3, <2>4, NewCall, Zenon
    <2>6. CallShape(k, admitted)
      BY <1>0, <2>1, <2>2, Zenon DEF CallShape, Attempting, Past
    <2>7. Frame
      BY <1>0, <2>3, SameHandles, SameFinalizers, Zenon DEF Frame, TasksFrame
    <2>8. Worked(h)'
      BY <2>2, <2>5, RestWorks, Zenon
    <2>9. TypeOK'
      BY <1>0, <1>2, <1>3, <2>3, <2>5, Zenon DEF TypeOK
    <2> QED
      BY <1>0, <2>3, <2>5, <2>6, <2>7, <2>8, <2>9, CallStep, Zenon
  <1> QED
    BY <1>4, <1>5, Zenon

-----------------------------------------------------------------------------
(* A call goes to another place and changes nothing else of itself. *)
LEMMA PlaceMoves ==
  ASSUME TypeOK, NEW c \in Callers, NEW x \in Places, call' = [call EXCEPT ![c].pc = x]
  PROVE  /\ call' \in [Callers -> CallRecord] /\ call'[c].pc = x
         /\ \A d \in Callers : d # c => call'[d] = call[d]
         /\ call'[c].op = call[c].op /\ call'[c].root = call[c].root
         /\ call'[c].todo = call[c].todo /\ call'[c].cur = call[c].cur
         /\ call'[c].own = call[c].own /\ call'[c].dropped = call[c].dropped
         /\ Guards(c)' = Guards(c)
  <1> DEFINE k == [call[c] EXCEPT !.pc = x]
  <1>1. call \in [Callers -> CallRecord] /\ call[c] \in CallRecord
    BY Zenon DEF TypeOK
  <1>2. /\ k \in CallRecord /\ k.pc = x /\ k.op = call[c].op /\ k.root = call[c].root
        /\ k.todo = call[c].todo /\ k.cur = call[c].cur /\ k.own = call[c].own
        /\ k.dropped = call[c].dropped
    BY <1>1, Zenon DEF CallRecord
  <1>3. call' = [call EXCEPT ![c] = k]
    BY Zenon
  <1> HIDE DEF k
  <1>4. /\ call' \in [Callers -> CallRecord] /\ call'[c] = k
        /\ \A d \in Callers : d # c => call'[d] = call[d]
    BY <1>1, <1>2, <1>3, Zenon
  <1>5. Guards(c)' = Guards(c)
    BY <1>2, <1>4, Zenon DEF Guards
  <1> QED
    BY <1>2, <1>4, <1>5, Zenon

(* ... and its guards stay where they are. *)
LEMMA PlaceStep ==
  ASSUME IInv, Frame, TypeOK', admitted' = admitted, body' = body,
         NEW c \in Callers, call[c].pc # "idle", NEW x \in Places, call' = [call EXCEPT ![c].pc = x],
         \A q \in Procs : task[q] = "none" => task'[q] = "none",
         \A q \in Procs : scope'[q].finalizer_active <=> scope[q].finalizer_active,
         CallShape(call'[c], admitted), ClosedTree', Worked(c)'
  PROVE  IInv'
  <1>1. /\ \A d \in Callers : d # c => call'[d] = call[d]
        /\ Guards(c)' = Guards(c) /\ call'[c].own = call[c].own
        /\ call'[c].cur = call[c].cur /\ call'[c].root = call[c].root
    BY PlaceMoves, Zenon DEF IInv
  <1>2. call'[c].own => call'[c].cur # call'[c].root
    BY <1>1, Zenon DEF IInv, Owned
  <1>3. Owned'
    BY <1>1, <1>2, OwnedSame, Zenon DEF IInv
  <1> QED
    BY <1>1, <1>3, CallStep, Zenon

(* What a call closed and joined stays so while it goes on. *)
LEMMA JoinedMoves ==
  ASSUME IInv, Frame, NEW c \in Callers, call'[c].op = call[c].op, call'[c].root = call[c].root,
         call'[c].todo \subseteq call[c].todo
  PROVE  /\ call[c].pc \in Past \cup {"own", "abort", "join", "acquire"} =>
               \A q \in Ended(call'[c]) : ~AcceptsChildren(scope'[q])
         /\ call[c].pc \in Past \cup {"acquire"} => \A q \in Ended(call'[c]) : task'[q] = "none"
         /\ call[c].pc \in Past => task'[call[c].cur] = "none"
  <1>0. JoinedAt(c) /\ CallShape(call[c], admitted) /\ admitted \subseteq Procs
    BY Zenon DEF IInv, Worked, Shape, TypeOK
  <1>1. Ended(call'[c]) \subseteq Ended(call[c])
    BY Zenon DEF Ended
  <1>2. Ended(call[c]) \subseteq Procs
    <2>1. call[c].todo \subseteq Procs
      BY <1>0, Zenon DEF CallShape
    <2>2. call[c].op \in {"tree", "resume"} => call[c].root \in Procs
      BY <1>0, Zenon DEF CallShape
    <2> QED
      BY <2>1, <2>2, Zenon DEF Ended
  <1>3. \A q \in Procs : ~AcceptsChildren(scope[q]) => ~AcceptsChildren(scope'[q])
    BY Zenon DEF Frame, ScopesFrame, Keeps
  <1>4. \A q \in Procs : task[q] = "none" /\ ~AcceptsChildren(scope[q]) => task'[q] = "none"
    BY Zenon DEF Frame, TasksFrame
  <1>5. call[c].pc \in Past => call[c].cur \in Procs /\ call[c].cur # None
    BY <1>0, Zenon DEF CallShape, Attempting
  <1>6. call[c].pc \in Past => ~AcceptsChildren(scope[call[c].cur])
    BY <1>5, Holder, Zenon
  <1>7. call[c].pc \in Past \cup {"own", "abort", "join", "acquire"} =>
          \A q \in Ended(call'[c]) : ~AcceptsChildren(scope'[q])
    BY <1>0, <1>1, <1>2, <1>3, Zenon DEF JoinedAt
  <1>8. call[c].pc \in Past \cup {"acquire"} => \A q \in Ended(call'[c]) : task'[q] = "none"
    BY <1>0, <1>1, <1>2, <1>4, Zenon DEF JoinedAt
  <1>9. call[c].pc \in Past => task'[call[c].cur] = "none"
    BY <1>0, <1>4, <1>5, <1>6, Zenon DEF JoinedAt
  <1> QED
    BY <1>7, <1>8, <1>9, Zenon

(* Between two places of an attempt, the join still holds. *)
LEMMA PastMoves ==
  ASSUME IInv, Frame, NEW c \in Callers, call[c].pc \in Past, call'[c].pc \in Past,
         call'[c].op = call[c].op, call'[c].root = call[c].root,
         call'[c].todo = call[c].todo, call'[c].cur = call[c].cur
  PROVE  JoinedAt(c)'
  <1>1. /\ \A q \in Ended(call'[c]) : ~AcceptsChildren(scope'[q])
        /\ \A q \in Ended(call'[c]) : task'[q] = "none"
        /\ task'[call[c].cur] = "none"
    BY JoinedMoves, Zenon
  <1> QED
    BY <1>1, Zenon DEF JoinedAt

(* The tasks of the selected bodies are aborted. *)
LEMMA AbortInv == ASSUME IInv, NEW c \in Callers, abort_task(c) PROVE IInv'
  <1> DEFINE S == Selected(c)
  <1>0. /\ call[c].pc = "abort" /\ task' = AbortTasks(S) /\ call' = [call EXCEPT ![c].pc = "join"]
        /\ admitted' = admitted /\ scope' = scope /\ body' = body /\ owned' = owned
        /\ on_finalize' = on_finalize /\ ran' = ran /\ handles' = handles
    BY Zenon DEF abort_task
  <1> HIDE DEF S
  <1>1. TypeOK /\ ClosedTree /\ CallShape(call[c], admitted) /\ "join" \in Places
    BY Zenon DEF IInv, Shape, Places
  <1>2. /\ call' \in [Callers -> CallRecord] /\ call'[c].pc = "join"
        /\ call'[c].op = call[c].op /\ call'[c].root = call[c].root
        /\ call'[c].todo = call[c].todo /\ call'[c].cur = call[c].cur
        /\ call'[c].own = call[c].own /\ call'[c].dropped = call[c].dropped
    BY <1>0, <1>1, PlaceMoves, Zenon
  <1>3. task' \in [Procs -> TaskState] /\ \A q \in Procs : task[q] = "none" => task'[q] = "none"
    BY <1>0, <1>1, AbortsGoDown, Zenon
  <1>4. TypeOK'
    BY <1>0, <1>1, <1>2, <1>3, Zenon DEF TypeOK
  <1>5. ScopesFrame
    BY <1>0, <1>1, SameScopes, Zenon
  <1>6. ClosedTree'
    BY <1>0, <1>1, <1>5, TreesKept, Zenon
  <1>7. Frame
    <2>1. TasksFrame
      BY <1>3, Zenon DEF TasksFrame
    <2> QED
      BY <1>0, <1>5, <2>1, SameHandles, SameFinalizers, Zenon DEF Frame
  <1>8. CallShape(call'[c], admitted)
    BY <1>0, <1>1, <1>2, Zenon DEF CallShape, Attempting, Past
  <1>9. Worked(c)'
    <2>1. \A q \in Ended(call'[c]) : ~AcceptsChildren(scope'[q])
      BY <1>0, <1>2, <1>7, JoinedMoves, Zenon
    <2> QED
      BY <1>2, <2>1, Zenon DEF Worked, JoinedAt, EmptiedAt, DrainedAt, Past
  <1> QED
    BY <1>0, <1>1, <1>3, <1>4, <1>6, <1>7, <1>8, <1>9, PlaceStep, Zenon

(* The join is what lets the attempt go on. *)
LEMMA WaitInv == ASSUME IInv, NEW c \in Callers, wait_for_task_exit(c) PROVE IInv'
  <1> DEFINE x == IF call[c].op = "finish" THEN "finalize" ELSE "acquire"
  <1>0. /\ call[c].pc = "join" /\ \A q \in Selected(c) : task[q] = "none"
        /\ call' = [call EXCEPT ![c].pc = x]
        /\ admitted' = admitted /\ scope' = scope /\ task' = task /\ body' = body /\ owned' = owned
        /\ on_finalize' = on_finalize /\ ran' = ran /\ handles' = handles
    BY Zenon DEF wait_for_task_exit
  <1>1. TypeOK /\ ClosedTree /\ CallShape(call[c], admitted) /\ x \in Places
    BY Zenon DEF IInv, Shape, Places, Past
  <1>2. x \in {"finalize", "acquire"} /\ (x = "finalize" <=> call[c].op = "finish")
    BY Zenon
  <1> HIDE DEF x
  <1>3. /\ call' \in [Callers -> CallRecord] /\ call'[c].pc = x
        /\ call'[c].op = call[c].op /\ call'[c].root = call[c].root
        /\ call'[c].todo = call[c].todo /\ call'[c].cur = call[c].cur
        /\ call'[c].own = call[c].own /\ call'[c].dropped = call[c].dropped
    BY <1>0, <1>1, PlaceMoves, Zenon
  <1>4. TypeOK'
    BY <1>0, <1>1, <1>3, Zenon DEF TypeOK
  <1>5. ScopesFrame
    BY <1>0, <1>1, SameScopes, Zenon
  <1>6. ClosedTree'
    BY <1>0, <1>1, <1>5, TreesKept, Zenon
  <1>7. Frame
    BY <1>0, <1>5, SameHandles, SameFinalizers, Zenon DEF Frame, TasksFrame
  <1>8. CallShape(call'[c], admitted)
    <2>1. Attempting(call'[c]) <=> Attempting(call[c])
      BY <1>0, <1>2, <1>3, Zenon DEF Attempting, Past
    <2>2. call'[c].pc \notin {"idle", "select", "abandon", "own"} /\ call[c].pc # "idle"
      BY <1>0, <1>2, <1>3, Zenon
    <2> QED
      BY <1>1, <1>3, <2>1, <2>2, Zenon DEF CallShape
  <1>9. Worked(c)'
    <2>1. \A q \in Ended(call'[c]) : ~AcceptsChildren(scope'[q])
      BY <1>0, <1>3, <1>7, JoinedMoves, Zenon
    <2>2. \A q \in Ended(call'[c]) : task'[q] = "none"
      BY <1>0, <1>3, Zenon DEF Ended, Selected
    <2>3. x = "finalize" => task'[call[c].cur] = "none"
      <3>1. x = "finalize" => call[c].cur = call[c].root
        BY <1>0, <1>1, <1>2, Zenon DEF CallShape, Attempting
      <3> QED
        BY <1>0, <3>1, Zenon DEF Selected
    <2> QED
      BY <1>2, <1>3, <2>1, <2>2, <2>3, Zenon DEF Worked, JoinedAt, EmptiedAt, DrainedAt, Past
  <1> QED
    BY <1>0, <1>1, <1>4, <1>6, <1>7, <1>8, <1>9, PlaceStep, Zenon

-----------------------------------------------------------------------------
(* One step of an attempt to the next. *)
LEMMA PastStep ==
  ASSUME IInv, Frame, TypeOK', admitted' = admitted, body' = body, task' = task,
         NEW c \in Callers, call[c].pc \in Past, NEW x \in Past, call' = [call EXCEPT ![c].pc = x],
         \A q \in Procs : scope'[q].finalizer_active <=> scope[q].finalizer_active,
         ClosedTree', EmptiedAt(c)', DrainedAt(c)'
  PROVE  IInv'
  <1>1. TypeOK /\ CallShape(call[c], admitted) /\ x \in Places
    BY Zenon DEF IInv, Shape, Places
  <1>2. /\ call'[c].pc = x /\ call'[c].op = call[c].op /\ call'[c].root = call[c].root
        /\ call'[c].todo = call[c].todo /\ call'[c].cur = call[c].cur
        /\ call'[c].own = call[c].own /\ call'[c].dropped = call[c].dropped
    BY <1>1, PlaceMoves, Zenon
  <1>3. x \notin {"idle", "select", "abandon", "own"} /\ call[c].pc # "idle"
    BY Zenon DEF Past
  <1>4. CallShape(call'[c], admitted)
    <2>1. Attempting(call'[c]) <=> Attempting(call[c])
      BY <1>2, Zenon DEF Attempting
    <2> QED
      BY <1>1, <1>2, <1>3, <2>1, Zenon DEF CallShape
  <1>5. Worked(c)'
    <2>1. JoinedAt(c)'
      BY <1>2, PastMoves, Zenon
    <2> QED
      BY <2>1, Zenon DEF Worked
  <1> QED
    BY <1>1, <1>3, <1>4, <1>5, PlaceStep, Zenon

(* The steps of an attempt that leave the scopes alone. *)
LEMMA ScopelessPast ==
  ASSUME IInv, TasksFrame, HandlesFrame, FinalizersFrame, TypeOK', admitted' = admitted, body' = body,
         task' = task, scope' = scope, NEW c \in Callers, call[c].pc \in Past, NEW x \in Past,
         call' = [call EXCEPT ![c].pc = x], EmptiedAt(c)', DrainedAt(c)'
  PROVE  IInv'
  <1>1. ScopesFrame
    BY SameScopes, Zenon DEF IInv
  <1>2. ClosedTree'
    BY <1>1, TreesKept, Zenon DEF IInv
  <1> QED
    BY <1>1, <1>2, PastStep, Zenon DEF Frame

(* What a step of an attempt knows. *)
LEMMA PastKnows ==
  ASSUME IInv, NEW c \in Callers, call[c].pc \in Past
  PROVE  /\ call[c].cur \in admitted /\ call[c].cur \in Procs /\ call[c].cur # None
         /\ scope[call[c].cur] \in ScopeRecord /\ scope[call[c].cur].finalizer_active
         /\ EmptiedAt(c) /\ DrainedAt(c) /\ CallShape(call[c], admitted)
  <1>1. CallShape(call[c], admitted) /\ TypeOK /\ Worked(c)
    BY Zenon DEF IInv, Shape
  <1>2. call[c].cur # None
    BY <1>1, Zenon DEF CallShape, Attempting
  <1>3. call[c].cur \in admitted /\ scope[call[c].cur].finalizer_active
    BY <1>2, Holder, Zenon
  <1> QED
    BY <1>1, <1>2, <1>3, Zenon DEF TypeOK, Worked

(* A finalizer leaves the list as it starts. *)
LEMMA NextFinalizerInv == ASSUME IInv, NEW c \in Callers, next_finalizer(c) PROVE IInv'
  <1> DEFINE p == call[c].cur
  <1>0. /\ call[c].pc = "finalize" /\ on_finalize[p] > 0
        /\ on_finalize' = [on_finalize EXCEPT ![p] = on_finalize[p] - 1]
        /\ ran' = [ran EXCEPT ![p] = ran[p] + 1]
        /\ call' = [call EXCEPT ![c].pc = "running"]
        /\ admitted' = admitted /\ scope' = scope /\ task' = task /\ body' = body /\ owned' = owned
        /\ handles' = handles
    BY Zenon DEF next_finalizer
  <1>1. TypeOK /\ call[c].pc \in Past /\ "running" \in Past /\ "running" \in Places
    BY <1>0, Zenon DEF IInv, Past, Places
  <1>2. p \in Procs
    BY <1>1, PastKnows, Zenon
  <1>3. call' \in [Callers -> CallRecord] /\ call'[c].pc = "running" /\ call'[c].cur = p
    BY <1>0, <1>1, PlaceMoves, Zenon
  <1> HIDE DEF p
  <1>4. on_finalize[p] \in Nat /\ ran[p] \in Nat
    BY <1>1, <1>2, Zenon DEF TypeOK
  <1>5. on_finalize[p] - 1 \in Nat /\ ran[p] + 1 \in Nat
    BY <1>0, <1>4
  <1>6. TypeOK'
    <2>1. on_finalize' \in [Procs -> Nat] /\ ran' \in [Procs -> Nat]
      BY <1>0, <1>1, <1>5, Zenon DEF TypeOK
    <2> QED
      BY <1>0, <1>1, <1>3, <2>1, Zenon DEF TypeOK
  <1>7. TasksFrame /\ HandlesFrame
    BY <1>0, SameHandles, Zenon DEF TasksFrame
  <1>8. FinalizersFrame
    <2>1. /\ on_finalize'[p] = on_finalize[p] - 1 /\ ran'[p] = ran[p] + 1
          /\ \A q \in Procs : q # p => on_finalize'[q] = on_finalize[q] /\ ran'[q] = ran[q]
      BY <1>0, <1>1, <1>2, Zenon DEF TypeOK
    <2>2. \E e \in Callers : call[e].pc = "finalize" /\ call'[e].pc = "running" /\ call[e].cur = p
      BY <1>0, <1>3, Zenon DEF p
    <2> QED
      BY <1>0, <2>1, <2>2, Zenon DEF FinalizersFrame
  <1>9. EmptiedAt(c)' /\ DrainedAt(c)'
    BY <1>3, Zenon DEF EmptiedAt, DrainedAt
  <1> QED
    BY <1>0, <1>1, <1>6, <1>7, <1>8, <1>9, ScopelessPast, Zenon

(* finish_finalizer and dispatch_record move the call alone. *)
LEMMA AttemptMovesInv ==
  ASSUME IInv, NEW c \in Callers, finish_finalizer(c) \/ dispatch_record(c)
  PROVE  IInv'
  <1>0. /\ admitted' = admitted /\ scope' = scope /\ task' = task /\ body' = body /\ owned' = owned
        /\ on_finalize' = on_finalize /\ ran' = ran /\ handles' = handles
    BY Zenon DEF finish_finalizer, dispatch_record
  <1>1. PICK x \in {"finalize", "close"} :
          /\ call[c].pc \in {"running", "finalize"} /\ call' = [call EXCEPT ![c].pc = x]
          /\ x = "close" => on_finalize[call[c].cur] = 0
    <2>1. CASE finish_finalizer(c)
      BY <2>1, Zenon DEF finish_finalizer
    <2>2. CASE dispatch_record(c)
      BY <2>2, Zenon DEF dispatch_record
    <2> QED
      BY <2>1, <2>2, Zenon
  <1>2. TypeOK /\ call[c].pc \in Past /\ x \in Past /\ x \in Places
    BY <1>1, Zenon DEF IInv, Past, Places
  <1>3. call' \in [Callers -> CallRecord] /\ call'[c].pc = x /\ call'[c].cur = call[c].cur
    BY <1>1, <1>2, PlaceMoves, Zenon
  <1>4. TypeOK'
    BY <1>0, <1>2, <1>3, Zenon DEF TypeOK
  <1>5. TasksFrame /\ HandlesFrame /\ FinalizersFrame
    BY <1>0, SameHandles, SameFinalizers, Zenon DEF TasksFrame
  <1>6. EmptiedAt(c)' /\ DrainedAt(c)'
    BY <1>0, <1>1, <1>3, Zenon DEF EmptiedAt, DrainedAt
  <1> QED
    BY <1>0, <1>1, <1>2, <1>4, <1>5, <1>6, ScopelessPast, Zenon

(* One process loses its handles. *)
LEMMA OneClosed ==
  ASSUME TypeOK, NEW p \in Procs, handles' = [handles EXCEPT ![p] = {}],
         \A q \in Procs : scope'[q].finalized = scope[q].finalized
  PROVE  /\ HandlesFrame /\ handles' \in [Procs -> SUBSET {"body", "cleanup", "finalizer"}]
         /\ handles'[p] = {}
  <1>1. handles'[p] = {} /\ \A q \in Procs : q # p => handles'[q] = handles[q]
    BY Zenon DEF TypeOK
  <1>2. handles' \in [Procs -> SUBSET {"body", "cleanup", "finalizer"}]
    BY Zenon DEF TypeOK
  <1>3. \A q \in Procs : handles'[q] \subseteq handles[q]
    BY <1>1, Zenon
  <1> QED
    BY <1>1, <1>2, <1>3, Zenon DEF HandlesFrame

(* The handles of the attempted process are closed. *)
LEMMA CloseHandlesInv == ASSUME IInv, NEW c \in Callers, close_process_handles(c) PROVE IInv'
  <1>0. /\ call[c].pc = "close" /\ handles' = [handles EXCEPT ![call[c].cur] = {}]
        /\ call' = [call EXCEPT ![c].pc = "mark"]
        /\ admitted' = admitted /\ scope' = scope /\ task' = task /\ body' = body /\ owned' = owned
        /\ on_finalize' = on_finalize /\ ran' = ran
    BY Zenon DEF close_process_handles
  <1>1. TypeOK /\ call[c].pc \in Past /\ "mark" \in Past /\ "mark" \in Places
    BY <1>0, Zenon DEF IInv, Past, Places
  <1>2. call[c].cur \in Procs /\ DrainedAt(c)
    BY <1>1, PastKnows, Zenon
  <1>3. call' \in [Callers -> CallRecord] /\ call'[c].pc = "mark" /\ call'[c].cur = call[c].cur
    BY <1>0, <1>1, PlaceMoves, Zenon
  <1>4. /\ HandlesFrame /\ handles' \in [Procs -> SUBSET {"body", "cleanup", "finalizer"}]
        /\ handles'[call[c].cur] = {}
    BY <1>0, <1>1, <1>2, OneClosed, Zenon
  <1>5. TypeOK'
    BY <1>0, <1>1, <1>3, <1>4, Zenon DEF TypeOK
  <1>6. TasksFrame /\ FinalizersFrame
    BY <1>0, SameFinalizers, Zenon DEF TasksFrame
  <1>7. EmptiedAt(c)' /\ DrainedAt(c)'
    BY <1>0, <1>2, <1>3, <1>4, Zenon DEF EmptiedAt, DrainedAt
  <1> QED
    BY <1>0, <1>1, <1>4, <1>5, <1>6, <1>7, ScopelessPast, Zenon

(* The lifecycle is completed with the handles gone and no finalizer left. *)
LEMMA CompleteInv == ASSUME IInv, NEW c \in Callers, complete_finalization(c) PROVE IInv'
  <1> DEFINE p == call[c].cur
             t == FinalizationCompleted(scope[p])
  <1>0. /\ call[c].pc = "publish" /\ scope' = [scope EXCEPT ![p] = t]
        /\ on_finalize' = [on_finalize EXCEPT ![p] = 0]
        /\ call' = [call EXCEPT ![c].pc = "release"]
        /\ admitted' = admitted /\ task' = task /\ body' = body /\ owned' = owned
        /\ ran' = ran /\ handles' = handles
    BY Zenon DEF complete_finalization
  <1>1. TypeOK /\ ClosedTree /\ call[c].pc \in Past /\ "release" \in Past /\ "release" \in Places
    BY <1>0, Zenon DEF IInv, Past, Places
  <1>2. p \in admitted /\ p \in Procs /\ scope[p] \in ScopeRecord /\ scope[p].finalizer_active
    BY <1>1, PastKnows, Zenon
  <1>3. call' \in [Callers -> CallRecord] /\ call'[c].pc = "release" /\ call'[c].cur = p
    BY <1>0, <1>1, PlaceMoves, Zenon
  <1>4. /\ Keeps(scope[p], t) /\ (t.cleanup = "Tree" => scope[p].cleanup = "Tree")
        /\ t.finalizer_active = scope[p].finalizer_active
    BY <1>2, CompletedKeeps, Zenon
  <1>5. \E e \in Callers : call[e].pc = "publish" /\ call'[e].pc = "release" /\ call[e].cur = p
    BY <1>0, <1>3, Zenon
  <1> HIDE DEF p, t
  <1>6. ScopesFrame /\ scope'[p] = t /\ \A q \in Procs \ {p} : scope'[q] = scope[q]
    BY <1>0, <1>1, <1>2, <1>4, OneScope, Zenon
  <1>7. ClosedTree'
    BY <1>0, <1>1, <1>4, <1>6, TreesKept, Zenon
  <1>8. TasksFrame /\ HandlesFrame
    BY <1>0, <1>5, <1>6, Zenon DEF TasksFrame, HandlesFrame
  <1>9. FinalizersFrame
    <2>1. on_finalize'[p] = 0 /\ \A q \in Procs : q # p => on_finalize'[q] = on_finalize[q]
      BY <1>0, <1>1, <1>2, Zenon DEF TypeOK
    <2> QED
      BY <1>0, <1>5, <2>1, Zenon DEF FinalizersFrame
  <1>10. TypeOK'
    <2>1. on_finalize' \in [Procs -> Nat]
      <3>1. 0 \in Nat
        BY Zenon
      <3> QED
        BY <1>0, <1>1, <3>1, Zenon DEF TypeOK
    <2>2. scope' \in [Procs -> ScopeRecord]
      BY <1>0, <1>1, <1>4, Zenon DEF TypeOK, Keeps
    <2> QED
      BY <1>0, <1>1, <1>3, <2>1, <2>2, Zenon DEF TypeOK
  <1>11. EmptiedAt(c)' /\ DrainedAt(c)'
    BY <1>3, Zenon DEF EmptiedAt, DrainedAt
  <1>12. \A q \in Procs : scope'[q].finalizer_active <=> scope[q].finalizer_active
    BY <1>4, <1>6, Zenon
  <1> QED
    BY <1>0, <1>1, <1>6, <1>7, <1>8, <1>9, <1>10, <1>11, <1>12, PastStep, Zenon DEF Frame

-----------------------------------------------------------------------------
(* A scope whose guard is given back. *)
GivenBack(s, t) ==
    /\ Keeps(s, t) /\ (t.cleanup = "Tree" => s.cleanup = "Tree")
    /\ ~t.finalizer_active /\ t.finalized = s.finalized

(* Caller c gives back the guards of S and changes nothing beside its call. *)
Releases(c, S) ==
    /\ S \subseteq Guards(c)
    /\ scope' \in [Procs -> ScopeRecord]
    /\ \A q \in S : GivenBack(scope[q], scope'[q])
    /\ \A q \in Procs : q \notin S => scope'[q] = scope[q]
    /\ admitted' = admitted /\ task' = task /\ body' = body /\ owned' = owned
    /\ on_finalize' = on_finalize /\ ran' = ran /\ handles' = handles

(* Guards are of processes in the table. *)
LEMMA GuardsAdmitted == ASSUME IInv, NEW c \in Callers PROVE Guards(c) \subseteq admitted
  <1>1. CallShape(call[c], admitted)
    BY Zenon DEF IInv, Shape
  <1>2. call[c].cur \in admitted \cup {None} /\ (call[c].own => call[c].root \in admitted)
    BY <1>1, Zenon DEF CallShape
  <1> QED
    BY <1>2, Zenon DEF Guards

(* Guards that are given back change no more than the activity of their processes. *)
LEMMA ReleaseFrame ==
  ASSUME IInv, NEW c \in Callers, NEW S, Releases(c, S)
  PROVE  /\ Frame /\ ClosedTree'
         /\ \A q \in Procs : scope'[q].finalizer_active <=> (scope[q].finalizer_active /\ q \notin S)
  <1>0. TypeOK /\ ClosedTree /\ S \subseteq admitted /\ admitted \subseteq Procs
    BY GuardsAdmitted, Zenon DEF IInv, TypeOK, Releases
  <1>1. /\ \A q \in S : GivenBack(scope[q], scope'[q])
        /\ \A q \in Procs : q \notin S => scope'[q] = scope[q]
        /\ admitted' = admitted /\ task' = task /\ body' = body
        /\ on_finalize' = on_finalize /\ ran' = ran /\ handles' = handles
    BY Zenon DEF Releases
  <1>2. \A q \in Procs : Stays(scope[q], scope[q])
    BY <1>0, SameStays, Zenon DEF TypeOK
  <1>3. ASSUME NEW q \in Procs
        PROVE  /\ Keeps(scope[q], scope'[q])
               /\ scope'[q] = scope[q] \/ q \in admitted
               /\ scope'[q].finalizer_active <=> (scope[q].finalizer_active /\ q \notin S)
               /\ scope'[q].cleanup = "Tree" => scope[q].cleanup = "Tree"
               /\ scope'[q].finalized = scope[q].finalized
    <2>1. CASE q \in S
      BY <1>0, <1>1, <2>1, Zenon DEF GivenBack
    <2>2. CASE q \notin S
      BY <1>1, <1>2, <2>2, Zenon DEF Stays
    <2> QED
      BY <2>1, <2>2, Zenon
  <1>4. ScopesFrame
    BY <1>3, Zenon DEF ScopesFrame
  <1>5. ClosedTree'
    BY <1>0, <1>1, <1>3, <1>4, TreesKept, Zenon
  <1>6. Frame
    BY <1>1, <1>3, <1>4, SameHandles, SameFinalizers, Zenon DEF Frame, TasksFrame
  <1> QED
    BY <1>3, <1>5, <1>6, Zenon

(* A call that gives back some of its guards. *)
LEMMA ReleaseStep ==
  ASSUME IInv, NEW c \in Callers, NEW S, Releases(c, S), call[c].pc # "idle",
         call' \in [Callers -> CallRecord], \A d \in Callers : d # c => call'[d] = call[d],
         CallShape(call'[c], admitted), Guards(c)' = Guards(c) \ S,
         call'[c].own => call'[c].cur # call'[c].root, Worked(c)'
  PROVE  IInv'
  <1>1. /\ Frame /\ ClosedTree'
        /\ \A q \in Procs : scope'[q].finalizer_active <=> (scope[q].finalizer_active /\ q \notin S)
    BY ReleaseFrame, Zenon
  <1>2. TypeOK /\ Owned
    BY Zenon DEF IInv
  <1>3. S \subseteq Guards(c) /\ admitted' = admitted /\ body' = body /\ task' = task
    BY Zenon DEF Releases
  <1>4. TypeOK'
    BY <1>2, Zenon DEF TypeOK, Releases
  <1>5. Owned'
    <2> DEFINE T == {}
    <2>1. /\ T \in SUBSET Procs /\ \A p \in T : ~scope[p].finalizer_active
          /\ Guards(c)' = (Guards(c) \ S) \cup T
          /\ \A p \in Procs :
                scope'[p].finalizer_active <=> (p \in T \/ (scope[p].finalizer_active /\ p \notin S))
      BY <1>1, Zenon
    <2> HIDE DEF T
    <2> QED
      BY <1>2, <1>3, <2>1, OwnedMove, Zenon
  <1> QED
    BY <1>1, <1>3, <1>4, <1>5, CallStep, Zenon

(* A call that ends has no guard. *)
LEMMA IdleEnds ==
  ASSUME TypeOK, NEW c \in Callers, call' = [call EXCEPT ![c] = Idle]
  PROVE  /\ call' \in [Callers -> CallRecord] /\ \A d \in Callers : d # c => call'[d] = call[d]
         /\ CallShape(call'[c], admitted) /\ Guards(c)' = {} /\ ~call'[c].own /\ Worked(c)'
  <1>1. /\ Idle \in CallRecord /\ CallShape(Idle, admitted)
        /\ Idle.pc = "idle" /\ Idle.cur = None /\ ~Idle.own
    BY Zenon DEF Idle, CallRecord, CallShape, Attempting, Places, Past, TerminalStatus
  <1>2. /\ call' \in [Callers -> CallRecord] /\ call'[c] = Idle
        /\ \A d \in Callers : d # c => call'[d] = call[d]
    BY <1>1, Zenon DEF TypeOK
  <1>3. Guards(c)' = {}
    BY <1>1, <1>2, Zenon DEF Guards
  <1> QED
    BY <1>1, <1>2, <1>3, RestWorks, Zenon

(* ReleasedBy gives back what it is told to. *)
LEMMA ReleasedByGives ==
  ASSUME IInv, NEW c \in Callers, NEW S, S \subseteq Guards(c), scope' = ReleasedBy(S)
  PROVE  /\ scope' \in [Procs -> ScopeRecord]
         /\ \A q \in S : GivenBack(scope[q], scope'[q])
         /\ \A q \in Procs : q \notin S => scope'[q] = scope[q]
  <1>1. TypeOK /\ S \subseteq Procs
    BY GuardsAdmitted, Zenon DEF IInv, TypeOK
  <1>2. \A q \in Procs : GivenBack(scope[q], FinalizingReleased(scope[q]))
    BY <1>1, ReleasedKeeps, Zenon DEF TypeOK, GivenBack
  <1>3. \A q \in Procs : scope'[q] = IF q \in S THEN FinalizingReleased(scope[q]) ELSE scope[q]
    BY Zenon DEF ReleasedBy
  <1>4. \A q \in Procs : scope'[q] \in ScopeRecord
    BY <1>1, <1>2, <1>3, Zenon DEF GivenBack, Keeps, TypeOK
  <1>5. scope' \in [Procs -> ScopeRecord]
    BY <1>4, Zenon DEF ReleasedBy
  <1> QED
    BY <1>1, <1>2, <1>3, <1>5, Zenon

(* A call that ends gives back every guard it has. *)
LEMMA EndCallInv == ASSUME IInv, NEW c \in Callers, end_call(c) PROVE IInv'
  <1> DEFINE S == Guards(c)
  <1>0. /\ call[c].pc \in {"end", "acquire"} /\ scope' = ReleasedBy(S)
        /\ call' = [call EXCEPT ![c] = Idle]
        /\ admitted' = admitted /\ task' = task /\ body' = body /\ owned' = owned
        /\ on_finalize' = on_finalize /\ ran' = ran /\ handles' = handles
    BY Zenon DEF end_call
  <1>1. S \subseteq Guards(c) /\ Guards(c) \ S = {}
    BY Zenon
  <1> HIDE DEF S
  <1>2. Releases(c, S)
    BY <1>0, <1>1, ReleasedByGives, Zenon DEF Releases
  <1>3. /\ call' \in [Callers -> CallRecord] /\ \A d \in Callers : d # c => call'[d] = call[d]
        /\ CallShape(call'[c], admitted) /\ Guards(c)' = {} /\ ~call'[c].own /\ Worked(c)'
    BY <1>0, IdleEnds, Zenon DEF IInv
  <1>4. Guards(c)' = Guards(c) \ S /\ call[c].pc # "idle"
    BY <1>0, <1>1, <1>3, Zenon
  <1> QED
    BY <1>2, <1>3, <1>4, ReleaseStep, Zenon

(* The guard in S is that of the current member alone. *)
LEMMA CurReleased ==
  ASSUME IInv, NEW c \in Callers, call[c].cur # None, NEW t, GivenBack(scope[call[c].cur], t),
         scope' = [scope EXCEPT ![call[c].cur] = t],
         admitted' = admitted, task' = task, body' = body, owned' = owned,
         on_finalize' = on_finalize, ran' = ran, handles' = handles
  PROVE  Releases(c, {call[c].cur})
  <1>1. call[c].cur \in Procs /\ TypeOK
    BY Holder, Zenon DEF IInv, TypeOK
  <1>2. call[c].cur \in Guards(c)
    BY Zenon DEF Guards
  <1>3. scope' \in [Procs -> ScopeRecord]
    BY <1>1, Zenon DEF TypeOK, GivenBack, Keeps
  <1>4. scope'[call[c].cur] = t /\ \A q \in Procs : q # call[c].cur => scope'[q] = scope[q]
    BY <1>1, Zenon DEF TypeOK
  <1> QED
    BY <1>2, <1>3, <1>4, Zenon DEF Releases

(* A call that goes on to its next member. *)
GoneOn(k, j, p) ==
    /\ j \in CallRecord /\ j.pc \in {"end", "select", "acquire"} /\ j.cur = None
    /\ j.op = k.op /\ j.root = k.root /\ j.own = k.own /\ j.dropped = k.dropped
    /\ j.todo = k.todo \ {p} /\ (j.pc = "select" => k.op = "resume")

(* Going on leaves the member out and holds no attempt. *)
LEMMA OnwardGoesOn ==
  ASSUME TypeOK, NEW c \in Callers, NEW p
  PROVE  GoneOn(call[c], Onward(c, p), p) /\ GoneOn(call[c], [Onward(c, p) EXCEPT !.failed = TRUE], p)
  <1> DEFINE k == call[c]
             x == CASE k.op = "finish" \/ (k.op = "tree" /\ p = k.root) -> "end"
                    [] k.op = "resume" /\ k.todo = {p} -> "select"
                    [] OTHER -> "acquire"
             j == [k EXCEPT !.todo = k.todo \ {p}, !.cur = None, !.pc = x]
  <1>1. k \in CallRecord /\ Onward(c, p) = j
    BY Zenon DEF TypeOK, Onward
  <1>2. x \in {"end", "select", "acquire"} /\ (x = "select" => k.op = "resume")
    <2>1. CASE k.op = "finish" \/ (k.op = "tree" /\ p = k.root)
      <3>1. ~(k.op = "resume" /\ k.todo = {p})
        BY <2>1, Zenon
      <3> QED
        BY <2>1, <3>1, Zenon
    <2>2. CASE k.op = "resume" /\ k.todo = {p}
      BY <2>2, Zenon
    <2>3. CASE ~(k.op = "finish" \/ (k.op = "tree" /\ p = k.root)) /\ ~(k.op = "resume" /\ k.todo = {p})
      BY <2>3, Zenon
    <2> QED
      BY <2>1, <2>2, <2>3, Zenon
  <1> HIDE DEF k, x
  <1>3. /\ j \in CallRecord /\ [j EXCEPT !.failed = TRUE] \in CallRecord
        /\ j.pc = x /\ j.cur = None /\ j.op = k.op /\ j.root = k.root /\ j.own = k.own
        /\ j.dropped = k.dropped /\ j.todo = k.todo \ {p}
    BY <1>1, <1>2, Zenon DEF CallRecord, Places
  <1>4. GoneOn(k, j, p)
    BY <1>2, <1>3, Zenon DEF GoneOn
  <1>5. GoneOn(k, [j EXCEPT !.failed = TRUE], p)
    <2> DEFINE i == [j EXCEPT !.failed = TRUE]
    <2>1. /\ i.pc = j.pc /\ i.cur = j.cur /\ i.op = j.op /\ i.root = j.root /\ i.own = j.own
          /\ i.dropped = j.dropped /\ i.todo = j.todo
      BY <1>3, Zenon DEF CallRecord
    <2> HIDE DEF i
    <2>2. i \in CallRecord
      BY <1>3, Zenon DEF i
    <2>3. GoneOn(k, i, p)
      BY <1>4, <2>1, <2>2, Zenon DEF GoneOn
    <2> QED
      BY <2>3, Zenon DEF i
  <1> QED
    BY <1>1, <1>4, <1>5, Zenon DEF k

(* ... keeps its shape, the root's guard and what it joined. *)
LEMMA GoneOnKeeps ==
  ASSUME IInv, Frame, NEW c \in Callers, call[c].pc \in Past \cup {"acquire"}, NEW p, NEW j,
         GoneOn(call[c], j, p), call' = [call EXCEPT ![c] = j]
  PROVE  /\ call' \in [Callers -> CallRecord] /\ \A d \in Callers : d # c => call'[d] = call[d]
         /\ CallShape(call'[c], admitted) /\ Worked(c)'
         /\ Guards(c)' = (IF call[c].own THEN {call[c].root} ELSE {}) \ {None}
         /\ call'[c].own => call'[c].cur # call'[c].root
  <1>1. TypeOK /\ CallShape(call[c], admitted)
    BY Zenon DEF IInv, Shape
  <1>2. /\ call' \in [Callers -> CallRecord] /\ \A d \in Callers : d # c => call'[d] = call[d]
        /\ call'[c] = j
    BY <1>1, Zenon DEF TypeOK, GoneOn
  <1>3. /\ j.pc \in {"end", "select", "acquire"} /\ j.cur = None
        /\ j.op = call[c].op /\ j.root = call[c].root /\ j.own = call[c].own
        /\ j.dropped = call[c].dropped /\ j.todo \subseteq call[c].todo
        /\ (j.pc = "select" => call[c].op = "resume")
    BY Zenon DEF GoneOn
  <1>4. call[c].pc # "idle"
    BY Zenon DEF Past
  <1>5. CallShape(j, admitted)
    <2>1. ~Attempting(j)
      BY <1>3, Zenon DEF Attempting, Past
    <2>2. j.todo \subseteq admitted /\ (j.op = "finish" => j.todo \subseteq {j.root})
      BY <1>1, <1>3, Zenon DEF CallShape
    <2> QED
      BY <1>1, <1>3, <1>4, <2>1, <2>2, Zenon DEF CallShape
  <1>6. Worked(c)'
    <2>1. CASE j.pc = "acquire"
      <3>1. /\ \A q \in Ended(call'[c]) : ~AcceptsChildren(scope'[q])
            /\ \A q \in Ended(call'[c]) : task'[q] = "none"
        BY <1>2, <1>3, JoinedMoves, Zenon
      <3> QED
        BY <1>2, <2>1, <3>1, Zenon DEF Worked, JoinedAt, EmptiedAt, DrainedAt, Past
    <2>2. CASE j.pc # "acquire"
      BY <1>2, <1>3, <2>2, RestWorks, Zenon
    <2> QED
      BY <2>1, <2>2, Zenon
  <1>7. Guards(c)' = (IF call[c].own THEN {call[c].root} ELSE {}) \ {None}
    BY <1>2, <1>3, Zenon DEF Guards
  <1>8. call'[c].own => call'[c].cur # call'[c].root
    <2>1. call[c].own => call[c].root # None
      BY <1>1, NoneAssumption, Zenon DEF CallShape, TypeOK
    <2> QED
      BY <1>2, <1>3, <2>1, Zenon
  <1> QED
    BY <1>2, <1>5, <1>6, <1>7, <1>8, Zenon

(* A recorded attempt gives its guard back. *)
LEMMA ReleaseInv == ASSUME IInv, NEW c \in Callers, release_finalizing(c) PROVE IInv'
  <1> DEFINE t == FinalizingReleased(scope[call[c].cur])
             j == Onward(c, call[c].cur)
             S == {call[c].cur}
  <1>0. /\ call[c].pc = "release" /\ scope' = [scope EXCEPT ![call[c].cur] = t]
        /\ call' = [call EXCEPT ![c] = j]
        /\ admitted' = admitted /\ task' = task /\ body' = body /\ owned' = owned
        /\ on_finalize' = on_finalize /\ ran' = ran /\ handles' = handles
    BY Zenon DEF release_finalizing
  <1>1. TypeOK /\ Owned /\ call[c].pc \in Past /\ call[c].pc # "idle"
    BY <1>0, Zenon DEF IInv, Past
  <1>2. call[c].cur # None /\ scope[call[c].cur] \in ScopeRecord
    BY <1>1, PastKnows, Zenon
  <1>3. GivenBack(scope[call[c].cur], t)
    BY <1>2, ReleasedKeeps, Zenon DEF GivenBack
  <1>4. GoneOn(call[c], j, call[c].cur)
    BY <1>1, OnwardGoesOn, Zenon
  <1> HIDE DEF t, j
  <1>5. Releases(c, S)
    BY <1>0, <1>2, <1>3, CurReleased, Zenon
  <1>6. Frame
    BY <1>5, ReleaseFrame, Zenon
  <1>7. /\ call' \in [Callers -> CallRecord] /\ \A d \in Callers : d # c => call'[d] = call[d]
        /\ CallShape(call'[c], admitted) /\ Worked(c)'
        /\ Guards(c)' = (IF call[c].own THEN {call[c].root} ELSE {}) \ {None}
        /\ call'[c].own => call'[c].cur # call'[c].root
    BY <1>0, <1>1, <1>4, <1>6, GoneOnKeeps, Zenon
  <1>8. Guards(c)' = Guards(c) \ S
    <2>1. call[c].own => call[c].cur # call[c].root
      BY <1>1, Zenon DEF Owned
    <2> QED
      BY <1>7, <2>1, Zenon DEF Guards
  <1> HIDE DEF S
  <1> QED
    BY <1>1, <1>5, <1>7, <1>8, ReleaseStep, Zenon

(* An attempt that fails gives its member's guard back, and the call goes   *)
(* on or, at its root, ends.                                                *)
LEMMA AttemptFailsInv == ASSUME IInv, NEW c \in Callers, attempt_fails(c) PROVE IInv'
  <1> DEFINE t == FinalizingReleased(scope[call[c].cur])
             j == [Onward(c, call[c].cur) EXCEPT !.failed = TRUE]
             S == {call[c].cur}
  <1>0. /\ call[c].pc \in {"finalize", "publish"} /\ scope' = [scope EXCEPT ![call[c].cur] = t]
        /\ call' = [call EXCEPT ![c] = IF call[c].cur = call[c].root THEN Idle ELSE j]
        /\ admitted' = admitted /\ task' = task /\ body' = body /\ owned' = owned
        /\ on_finalize' = on_finalize /\ ran' = ran /\ handles' = handles
    BY Zenon DEF attempt_fails
  <1>1. TypeOK /\ Owned /\ call[c].pc \in Past /\ call[c].pc # "idle"
    BY <1>0, Zenon DEF IInv, Past
  <1>2. call[c].cur # None /\ scope[call[c].cur] \in ScopeRecord
    BY <1>1, PastKnows, Zenon
  <1>3. GivenBack(scope[call[c].cur], t)
    BY <1>2, ReleasedKeeps, Zenon DEF GivenBack
  <1>4. GoneOn(call[c], j, call[c].cur)
    BY <1>1, OnwardGoesOn, Zenon
  <1> HIDE DEF t, j
  <1>5. Releases(c, S)
    BY <1>0, <1>2, <1>3, CurReleased, Zenon
  <1>6. Frame
    BY <1>5, ReleaseFrame, Zenon
  <1>7. call[c].own => call[c].cur # call[c].root
    BY <1>1, Zenon DEF Owned
  <1>8. CASE call[c].cur = call[c].root
    <2>1. call' = [call EXCEPT ![c] = Idle]
      BY <1>0, <1>8, Zenon
    <2>2. /\ call' \in [Callers -> CallRecord] /\ \A d \in Callers : d # c => call'[d] = call[d]
          /\ CallShape(call'[c], admitted) /\ Guards(c)' = {} /\ ~call'[c].own /\ Worked(c)'
      BY <1>1, <2>1, IdleEnds, Zenon
    <2>3. Guards(c)' = Guards(c) \ S
      BY <1>7, <1>8, <2>2, Zenon DEF Guards
    <2> HIDE DEF S
    <2> QED
      BY <1>1, <1>5, <2>2, <2>3, ReleaseStep, Zenon
  <1>9. CASE call[c].cur # call[c].root
    <2>1. call' = [call EXCEPT ![c] = j]
      BY <1>0, <1>9, Zenon
    <2>2. /\ call' \in [Callers -> CallRecord] /\ \A d \in Callers : d # c => call'[d] = call[d]
          /\ CallShape(call'[c], admitted) /\ Worked(c)'
          /\ Guards(c)' = (IF call[c].own THEN {call[c].root} ELSE {}) \ {None}
          /\ call'[c].own => call'[c].cur # call'[c].root
      BY <1>1, <1>4, <1>6, <2>1, GoneOnKeeps, Zenon
    <2>3. Guards(c)' = Guards(c) \ S
      BY <1>7, <2>2, Zenon DEF Guards
    <2> HIDE DEF S
    <2> QED
      BY <1>1, <1>5, <2>2, <2>3, ReleaseStep, Zenon
  <1> QED
    BY <1>8, <1>9, Zenon

(* The status is marked; a job whose waiter is gone gives the guard back. *)
LEMMA MarkInv == ASSUME IInv, NEW c \in Callers, mark_terminal_status(c) PROVE IInv'
  <1> DEFINE p == call[c].cur
             s == TerminalMarked(scope[p], scope[p].terminal)
             t == FinalizingReleased(s)
             S == {call[c].cur}
  <1>0. /\ call[c].pc = "mark"
        /\ admitted' = admitted /\ task' = task /\ body' = body /\ owned' = owned
        /\ on_finalize' = on_finalize /\ ran' = ran /\ handles' = handles
    BY Zenon DEF mark_terminal_status
  <1>1. IF call[c].dropped
        THEN scope' = [scope EXCEPT ![p] = t] /\ call' = [call EXCEPT ![c] = Idle]
        ELSE scope' = [scope EXCEPT ![p] = s] /\ call' = [call EXCEPT ![c].pc = "publish"]
    BY Zenon DEF mark_terminal_status
  <1>2. TypeOK /\ Owned /\ ClosedTree /\ call[c].pc \in Past /\ call[c].pc # "idle"
    BY <1>0, Zenon DEF IInv, Past
  <1>3. /\ p # None /\ p \in admitted /\ scope[p] \in ScopeRecord
        /\ EmptiedAt(c) /\ DrainedAt(c) /\ CallShape(call[c], admitted)
    BY <1>2, PastKnows, Zenon
  <1>4. Stays(scope[p], s)
    BY <1>3, MethodsStay, Zenon DEF TerminalStatus
  <1>5. CASE call[c].dropped
    <2>1. GivenBack(scope[p], t)
      <3>1. s \in ScopeRecord
        BY <1>4, Zenon DEF Stays, Keeps
      <3>2. GivenBack(s, t)
        BY <3>1, ReleasedKeeps, Zenon DEF GivenBack
      <3> HIDE DEF s, t
      <3> QED
        BY <1>4, <3>2, Zenon DEF GivenBack, Stays, Keeps
    <2>2. scope' = [scope EXCEPT ![call[c].cur] = t] /\ call' = [call EXCEPT ![c] = Idle]
      BY <1>1, <1>5, Zenon
    <2> HIDE DEF s, t
    <2>3. Releases(c, S)
      BY <1>0, <1>3, <2>1, <2>2, CurReleased, Zenon
    <2>4. /\ call' \in [Callers -> CallRecord] /\ \A d \in Callers : d # c => call'[d] = call[d]
          /\ CallShape(call'[c], admitted) /\ Guards(c)' = {} /\ ~call'[c].own /\ Worked(c)'
      BY <1>2, <2>2, IdleEnds, Zenon
    <2>5. Guards(c)' = Guards(c) \ S
      <3>1. ~call[c].own
        BY <1>3, <1>5, Zenon DEF CallShape
      <3> QED
        BY <2>4, <3>1, Zenon DEF Guards
    <2> HIDE DEF S
    <2> QED
      BY <1>2, <2>3, <2>4, <2>5, ReleaseStep, Zenon
  <1>6. CASE ~call[c].dropped
    <2>1. scope' = [scope EXCEPT ![p] = s] /\ call' = [call EXCEPT ![c].pc = "publish"]
      BY <1>1, <1>6, Zenon
    <2>2. "publish" \in Past /\ "publish" \in Places
      BY Zenon DEF Past, Places
    <2> HIDE DEF s, t, S, p
    <2>3. /\ ScopesFrame /\ ClosedTree' /\ scope' \in [Procs -> ScopeRecord]
          /\ \A q \in Procs : /\ scope'[q].finalizer_active <=> scope[q].finalizer_active
                              /\ scope'[q].finalized = scope[q].finalized
      BY <1>0, <1>2, <1>3, <1>4, <2>1, OneStays, Zenon
    <2>4. /\ call' \in [Callers -> CallRecord] /\ call'[c].pc = "publish"
          /\ call'[c].cur = call[c].cur
      BY <1>2, <2>1, <2>2, PlaceMoves, Zenon
    <2>5. TypeOK'
      BY <1>0, <1>2, <2>3, <2>4, Zenon DEF TypeOK
    <2>6. Frame
      BY <1>0, <2>3, SameHandles, SameFinalizers, Zenon DEF Frame, TasksFrame
    <2>7. EmptiedAt(c)' /\ DrainedAt(c)'
      BY <1>0, <1>3, <2>4, Zenon DEF EmptiedAt, DrainedAt
    <2> QED
      BY <1>0, <1>2, <2>1, <2>2, <2>3, <2>5, <2>6, <2>7, PastStep, Zenon
  <1> QED
    BY <1>5, <1>6, Zenon

(* A dropped future gives its guards back, but for the one the job has. *)
LEMMA DropCallInv == ASSUME IInv, NEW c \in Callers, drop_call(c) PROVE IInv'
  <1>0. /\ admitted' = admitted /\ task' = task /\ body' = body /\ owned' = owned
        /\ on_finalize' = on_finalize /\ ran' = ran /\ handles' = handles
    BY Zenon DEF drop_call
  <1>1. TypeOK /\ Owned /\ CallShape(call[c], admitted)
    BY Zenon DEF IInv, Shape
  <1>2. CASE /\ call[c].pc \in {"own", "select", "join", "acquire", "running", "publish"}
             /\ scope' = ReleasedBy(Guards(c)) /\ call' = [call EXCEPT ![c] = Idle]
    <2> DEFINE S == Guards(c)
    <2>1. S \subseteq Guards(c) /\ Guards(c) \ S = {} /\ scope' = ReleasedBy(S)
      BY <1>2, Zenon
    <2> HIDE DEF S
    <2>2. Releases(c, S)
      BY <1>0, <2>1, ReleasedByGives, Zenon DEF Releases
    <2>3. /\ call' \in [Callers -> CallRecord] /\ \A d \in Callers : d # c => call'[d] = call[d]
          /\ CallShape(call'[c], admitted) /\ Guards(c)' = {} /\ ~call'[c].own /\ Worked(c)'
      BY <1>1, <1>2, IdleEnds, Zenon
    <2>4. Guards(c)' = Guards(c) \ S /\ call[c].pc # "idle"
      BY <1>2, <2>1, <2>3, Zenon
    <2> QED
      BY <2>2, <2>3, <2>4, ReleaseStep, Zenon
  <1>3. CASE /\ call[c].pc \in {"close", "mark"} /\ ~call[c].dropped
             /\ scope' = ReleasedBy(Guards(c) \ {call[c].cur})
             /\ call' = [call EXCEPT ![c].dropped = TRUE, ![c].own = FALSE]
    <2> DEFINE S == Guards(c) \ {call[c].cur}
               k == [call[c] EXCEPT !.dropped = TRUE, !.own = FALSE]
    <2>1. S \subseteq Guards(c) /\ scope' = ReleasedBy(S)
      BY <1>3, Zenon
    <2>2. call[c].pc \in Past /\ call[c].pc # "idle"
      BY <1>3, Zenon DEF Past
    <2>3. call[c].cur # None /\ EmptiedAt(c) /\ DrainedAt(c)
      BY <2>2, PastKnows, Zenon
    <2>4. /\ k \in CallRecord /\ k.pc = call[c].pc /\ k.op = call[c].op /\ k.root = call[c].root
          /\ k.todo = call[c].todo /\ k.cur = call[c].cur /\ k.own = FALSE /\ k.dropped = TRUE
      <3>1. call[c] \in CallRecord
        BY <1>1, Zenon DEF TypeOK
      <3> QED
        BY <3>1, Zenon DEF CallRecord
    <2>5. /\ call' \in [Callers -> CallRecord] /\ \A d \in Callers : d # c => call'[d] = call[d]
          /\ call'[c] = k
      <3>1. call \in [Callers -> CallRecord]
        BY <1>1, Zenon DEF TypeOK
      <3> QED
        BY <1>3, <2>4, <3>1, Zenon
    <2> HIDE DEF k
    <2>6. Guards(c)' = Guards(c) \ S
      BY <2>4, <2>5, Zenon DEF Guards
    <2> HIDE DEF S
    <2>7. Releases(c, S)
      BY <1>0, <2>1, ReleasedByGives, Zenon DEF Releases
    <2>8. Frame
      BY <2>7, ReleaseFrame, Zenon
    <2>9. CallShape(call'[c], admitted)
      <3>1. Attempting(k) <=> Attempting(call[c])
        BY <2>4, Zenon DEF Attempting
      <3> QED
        BY <1>1, <1>3, <2>2, <2>4, <2>5, <3>1, Zenon DEF CallShape
    <2>10. Worked(c)'
      <3>1. JoinedAt(c)'
        BY <2>2, <2>4, <2>5, <2>8, PastMoves, Zenon
      <3>2. EmptiedAt(c)' /\ DrainedAt(c)'
        BY <1>0, <2>3, <2>4, <2>5, Zenon DEF EmptiedAt, DrainedAt
      <3> QED
        BY <3>1, <3>2, Zenon DEF Worked
    <2> QED
      BY <2>2, <2>4, <2>5, <2>6, <2>7, <2>9, <2>10, ReleaseStep, Zenon
  <1> QED
    BY <1>2, <1>3, Zenon DEF drop_call

-----------------------------------------------------------------------------
(* The scopes as one of them begins to be finalized. *)
LEMMA BeginFrame ==
  ASSUME IInv, NEW p \in admitted, NEW x \in TerminalStatus \cup {None},
         scope' = [scope EXCEPT ![p] = FinalizingBegun(scope[p], x)],
         admitted' = admitted, task' = task, body' = body,
         on_finalize' = on_finalize, ran' = ran, handles' = handles
  PROVE  /\ Frame /\ ClosedTree' /\ scope' \in [Procs -> ScopeRecord]
         /\ \A q \in Procs : scope'[q].finalizer_active <=> (q = p \/ scope[q].finalizer_active)
  <1> DEFINE t == FinalizingBegun(scope[p], x)
  <1>0. TypeOK /\ ClosedTree /\ p \in Procs /\ scope[p] \in ScopeRecord
    BY Zenon DEF IInv, TypeOK
  <1>1. /\ Keeps(scope[p], t) /\ (t.cleanup = "Tree" => scope[p].cleanup = "Tree") /\ t.cleanup # None
        /\ t.finalizer_active /\ t.finalized = scope[p].finalized
    BY <1>0, BegunKeeps, Zenon
  <1>2. scope' = [scope EXCEPT ![p] = t]
    BY Zenon
  <1> HIDE DEF t
  <1>3. ScopesFrame /\ scope'[p] = t /\ \A q \in Procs \ {p} : scope'[q] = scope[q]
    BY <1>0, <1>1, <1>2, OneScope, Zenon
  <1>4. ClosedTree'
    BY <1>0, <1>1, <1>3, TreesKept, Zenon
  <1>5. \A q \in Procs : scope'[q].finalized = scope[q].finalized
    BY <1>1, <1>3, Zenon
  <1>6. Frame
    BY <1>3, <1>5, SameHandles, SameFinalizers, Zenon DEF Frame, TasksFrame
  <1>7. scope' \in [Procs -> ScopeRecord]
    BY <1>0, <1>1, <1>2, Zenon DEF TypeOK, Keeps
  <1>8. \A q \in Procs : scope'[q].finalizer_active <=> (q = p \/ scope[q].finalizer_active)
    BY <1>1, <1>3, Zenon
  <1> QED
    BY <1>4, <1>6, <1>7, <1>8, Zenon

(* One guard more, of a process that had none. *)
LEMMA TakeGuard ==
  ASSUME IInv, NEW c \in Callers, NEW p \in Procs, ~scope[p].finalizer_active,
         \A d \in Callers : d # c => call'[d] = call[d], Guards(c)' = Guards(c) \cup {p},
         \A q \in Procs : scope'[q].finalizer_active <=> (q = p \/ scope[q].finalizer_active),
         call'[c].own => call'[c].cur # call'[c].root
  PROVE  Owned'
  <1> DEFINE S == {}
             T == {p}
  <1>1. /\ S \subseteq Guards(c) /\ T \in SUBSET Procs /\ \A q \in T : ~scope[q].finalizer_active
        /\ Guards(c)' = (Guards(c) \ S) \cup T
        /\ \A q \in Procs :
              scope'[q].finalizer_active <=> (q \in T \/ (scope[q].finalizer_active /\ q \notin S))
    BY Zenon
  <1> HIDE DEF S, T
  <1> QED
    BY <1>1, OwnedMove, Zenon DEF IInv

(* The guard of the root is taken before the bodies are stopped. *)
LEMMA OwnRootInv == ASSUME IInv, NEW c \in Callers, own_root(c) PROVE IInv'
  <1> DEFINE p == call[c].root
  <1>0. /\ call[c].pc = "own"
        /\ admitted' = admitted /\ task' = task /\ body' = body /\ owned' = owned
        /\ on_finalize' = on_finalize /\ ran' = ran /\ handles' = handles
    BY Zenon DEF own_root
  <1>1. TypeOK /\ Owned /\ ClosedTree /\ CallShape(call[c], admitted) /\ call[c] \in CallRecord
    BY Zenon DEF IInv, Shape, TypeOK
  <1>2. /\ p \in admitted /\ p \in Procs /\ call[c].op = "tree" /\ ~call[c].own /\ ~call[c].dropped
        /\ call[c].cur = None
    BY <1>0, <1>1, Zenon DEF CallShape, Attempting, Past, TypeOK
  <1>3. CASE call' = [call EXCEPT ![c].pc = "abort"] /\ scope' = scope
    <2>1. "abort" \in Places
      BY Zenon DEF Places
    <2>2. /\ call' \in [Callers -> CallRecord] /\ call'[c].pc = "abort"
          /\ call'[c].op = call[c].op /\ call'[c].root = call[c].root
          /\ call'[c].todo = call[c].todo /\ call'[c].cur = call[c].cur
          /\ call'[c].own = call[c].own /\ call'[c].dropped = call[c].dropped
      BY <1>1, <1>3, <2>1, PlaceMoves, Zenon
    <2>3. TypeOK'
      BY <1>0, <1>1, <1>3, <2>2, Zenon DEF TypeOK
    <2>4. ScopesFrame
      BY <1>1, <1>3, SameScopes, Zenon
    <2>5. ClosedTree'
      BY <1>0, <1>1, <1>3, <2>4, TreesKept, Zenon
    <2>6. Frame
      BY <1>0, <1>3, <2>4, SameHandles, SameFinalizers, Zenon DEF Frame, TasksFrame
    <2>7. CallShape(call'[c], admitted)
      BY <1>1, <1>2, <2>2, Zenon DEF CallShape, Attempting, Past
    <2>8. Worked(c)'
      <3>1. \A q \in Ended(call'[c]) : ~AcceptsChildren(scope'[q])
        BY <1>0, <2>2, <2>6, JoinedMoves, Zenon
      <3> QED
        BY <2>2, <3>1, Zenon DEF Worked, JoinedAt, EmptiedAt, DrainedAt, Past
    <2> QED
      BY <1>0, <1>3, <2>1, <2>3, <2>5, <2>6, <2>7, <2>8, PlaceStep, Zenon
  <1>4. CASE /\ CanBeginFinalizing(scope[p])
             /\ scope' = [scope EXCEPT ![p] = FinalizingBegun(scope[p], "Cancelled")]
             /\ call' = [call EXCEPT ![c].pc = "abort", ![c].own = TRUE]
    <2> DEFINE k == [call[c] EXCEPT !.pc = "abort", !.own = TRUE]
    <2>1. /\ k \in CallRecord /\ k.pc = "abort" /\ k.op = call[c].op /\ k.root = p
          /\ k.todo = call[c].todo /\ k.cur = call[c].cur /\ k.own = TRUE
          /\ k.dropped = call[c].dropped
      BY <1>1, Zenon DEF CallRecord, Places
    <2>2. /\ call' \in [Callers -> CallRecord] /\ \A d \in Callers : d # c => call'[d] = call[d]
          /\ call'[c] = k
      <3>1. call \in [Callers -> CallRecord]
        BY <1>1, Zenon DEF TypeOK
      <3> QED
        BY <1>4, <2>1, <3>1, Zenon
    <2> HIDE DEF k
    <2>3. "Cancelled" \in TerminalStatus
      BY Zenon DEF TerminalStatus
    <2>4. /\ Frame /\ ClosedTree' /\ scope' \in [Procs -> ScopeRecord]
          /\ \A q \in Procs : scope'[q].finalizer_active <=> (q = p \/ scope[q].finalizer_active)
      BY <1>0, <1>2, <1>4, <2>3, BeginFrame, Zenon
    <2>5. Guards(c)' = Guards(c) \cup {p} /\ (call'[c].own => call'[c].cur # call'[c].root)
      BY <1>2, <2>1, <2>2, NoneAssumption, Zenon DEF Guards
    <2>6. Owned'
      <3>1. ~scope[p].finalizer_active
        BY <1>4, Zenon DEF CanBeginFinalizing
      <3> QED
        BY <1>2, <2>2, <2>4, <2>5, <3>1, TakeGuard, Zenon
    <2>7. CallShape(call'[c], admitted)
      BY <1>1, <1>2, <2>1, <2>2, Zenon DEF CallShape, Attempting, Past
    <2>8. Worked(c)'
      <3>1. \A q \in Ended(call'[c]) : ~AcceptsChildren(scope'[q])
        BY <1>0, <2>1, <2>2, <2>4, JoinedMoves, Zenon
      <3> QED
        BY <2>1, <2>2, <3>1, Zenon DEF Worked, JoinedAt, EmptiedAt, DrainedAt, Past
    <2>9. TypeOK'
      BY <1>0, <1>1, <2>2, <2>4, Zenon DEF TypeOK
    <2> QED
      BY <1>0, <2>2, <2>4, <2>6, <2>7, <2>8, <2>9, CallStep, Zenon
  <1> QED
    BY <1>3, <1>4, Zenon DEF own_root

(* The guard of the next member, or on if it is finalized already. *)
LEMMA AcquireInv == ASSUME IInv, NEW c \in Callers, acquire_finalization(c) PROVE IInv'
  <1>0. /\ call[c].pc = "acquire"
        /\ admitted' = admitted /\ task' = task /\ body' = body /\ owned' = owned
        /\ on_finalize' = on_finalize /\ ran' = ran
    BY Zenon DEF acquire_finalization
  <1>1. PICK p \in call[c].todo :
          \/ /\ handles' = (IF call[c].op = "finish" THEN handles ELSE [handles EXCEPT ![p] = {}])
             /\ call' = [call EXCEPT ![c] = Onward(c, p)] /\ scope' = scope
          \/ /\ CanBeginFinalizing(scope[p])
             /\ scope' = [scope EXCEPT ![p] = FinalizingBegun(scope[p], Requested(c, p))]
             /\ call' = [call EXCEPT ![c].cur = p,
                                     ![c].pc = IF call[c].op = "finish" THEN "abort" ELSE "finalize"]
             /\ handles' = handles
    BY Zenon DEF acquire_finalization, Foremost
  <1>2. TypeOK /\ Owned /\ ClosedTree /\ CallShape(call[c], admitted) /\ call[c] \in CallRecord
    BY Zenon DEF IInv, Shape, TypeOK
  <1>3. /\ p \in admitted /\ p \in Procs /\ p # None /\ scope[p] \in ScopeRecord
        /\ call[c].cur = None /\ call[c].op \in {"finish", "tree", "resume"}
    <2>1. call[c].op # "none" /\ call[c].cur = None /\ p \in admitted
      BY <1>0, <1>1, <1>2, Zenon DEF CallShape, Attempting, Past
    <2>2. call[c].op \in {"none", "finish", "tree", "resume"}
      BY <1>2, Zenon DEF CallRecord
    <2> QED
      BY <1>2, <2>1, <2>2, NoneAssumption, Zenon DEF TypeOK
  <1>4. CASE /\ handles' = (IF call[c].op = "finish" THEN handles ELSE [handles EXCEPT ![p] = {}])
             /\ call' = [call EXCEPT ![c] = Onward(c, p)] /\ scope' = scope
    <2>1. HandlesFrame /\ handles' \in [Procs -> SUBSET {"body", "cleanup", "finalizer"}]
      <3>1. CASE handles' = handles
        BY <1>2, <1>4, <3>1, SameHandles, Zenon DEF TypeOK
      <3>2. CASE handles' = [handles EXCEPT ![p] = {}]
        BY <1>2, <1>3, <1>4, <3>2, OneClosed, Zenon
      <3> QED
        BY <1>4, <3>1, <3>2, Zenon
    <2>2. ScopesFrame
      BY <1>2, <1>4, SameScopes, Zenon
    <2>3. ClosedTree'
      BY <1>0, <1>2, <1>4, <2>2, TreesKept, Zenon
    <2>4. Frame
      BY <1>0, <2>1, <2>2, SameFinalizers, Zenon DEF Frame, TasksFrame
    <2> DEFINE j == Onward(c, p)
    <2>5. GoneOn(call[c], j, p)
      BY <1>2, OnwardGoesOn, Zenon
    <2> HIDE DEF j
    <2>6. /\ call' \in [Callers -> CallRecord] /\ \A d \in Callers : d # c => call'[d] = call[d]
          /\ CallShape(call'[c], admitted) /\ Worked(c)'
          /\ Guards(c)' = (IF call[c].own THEN {call[c].root} ELSE {}) \ {None}
          /\ call'[c].own => call'[c].cur # call'[c].root
      <3>1. call' = [call EXCEPT ![c] = j]
        BY <1>4, Zenon DEF j
      <3> QED
        BY <1>0, <2>4, <2>5, <3>1, GoneOnKeeps, Zenon
    <2>7. Guards(c)' = Guards(c)
      BY <1>3, <2>6, Zenon DEF Guards
    <2>8. Owned'
      BY <1>2, <1>4, <2>6, <2>7, OwnedSame, Zenon
    <2>9. TypeOK'
      BY <1>0, <1>2, <1>4, <2>1, <2>6, Zenon DEF TypeOK
    <2> QED
      BY <1>0, <2>3, <2>4, <2>6, <2>8, <2>9, CallStep, Zenon
  <1>5. CASE /\ CanBeginFinalizing(scope[p])
             /\ scope' = [scope EXCEPT ![p] = FinalizingBegun(scope[p], Requested(c, p))]
             /\ call' = [call EXCEPT ![c].cur = p,
                                     ![c].pc = IF call[c].op = "finish" THEN "abort" ELSE "finalize"]
             /\ handles' = handles
    <2> DEFINE x == IF call[c].op = "finish" THEN "abort" ELSE "finalize"
               y == Requested(c, p)
               k == [call[c] EXCEPT !.cur = p, !.pc = x]
    <2>1. y \in TerminalStatus \cup {None}
      <3>1. call[c].status \in TerminalStatus /\ scope[p].terminal \in TerminalStatus \cup {None}
        BY <1>2, <1>3, Zenon DEF CallRecord, ScopeRecord
      <3>2. "Cancelled" \in TerminalStatus
        BY Zenon DEF TerminalStatus
      <3>3. CASE call[c].op = "finish"
        BY <3>1, <3>3, Zenon DEF Requested
      <3>4. CASE call[c].op = "tree"
        BY <3>2, <3>4, Zenon DEF Requested
      <3>5. CASE call[c].op = "resume"
        BY <3>1, <3>5, Zenon DEF Requested
      <3> QED
        BY <1>3, <3>3, <3>4, <3>5, Zenon
    <2>2. x \in {"abort", "finalize"} /\ (x = "abort" <=> call[c].op = "finish")
      BY Zenon
    <2>3. call' = [call EXCEPT ![c].cur = p, ![c].pc = x]
      BY <1>5, Zenon
    <2> HIDE DEF x, y
    <2>4. /\ k \in CallRecord /\ k.pc = x /\ k.op = call[c].op /\ k.root = call[c].root
          /\ k.todo = call[c].todo /\ k.cur = p /\ k.own = call[c].own
          /\ k.dropped = call[c].dropped
      BY <1>2, <1>3, <2>2, Zenon DEF CallRecord, Places, Past
    <2>5. /\ call' \in [Callers -> CallRecord] /\ \A d \in Callers : d # c => call'[d] = call[d]
          /\ call'[c] = k
      <3>1. call \in [Callers -> CallRecord]
        BY <1>2, Zenon DEF TypeOK
      <3> QED
        BY <2>3, <2>4, <3>1, Zenon
    <2> HIDE DEF k
    <2>6. /\ Frame /\ ClosedTree' /\ scope' \in [Procs -> ScopeRecord]
          /\ \A q \in Procs : scope'[q].finalizer_active <=> (q = p \/ scope[q].finalizer_active)
      <3>1. scope' = [scope EXCEPT ![p] = FinalizingBegun(scope[p], y)]
        BY <1>5, Zenon DEF y
      <3> QED
        BY <1>0, <1>3, <1>5, <2>1, <3>1, BeginFrame, Zenon
    <2>7. ~scope[p].finalizer_active
      BY <1>5, Zenon DEF CanBeginFinalizing
    <2>8. call[c].own => p # call[c].root
      <3>1. call[c].own /\ p = call[c].root => p \in Guards(c)
        BY <1>3, Zenon DEF Guards
      <3> QED
        BY <1>2, <2>7, <3>1, Zenon DEF Owned, Owners, Held, Active
    <2>9. Guards(c)' = Guards(c) \cup {p} /\ (call'[c].own => call'[c].cur # call'[c].root)
      BY <1>3, <2>4, <2>5, <2>8, Zenon DEF Guards
    <2>10. Owned'
      BY <1>3, <2>5, <2>6, <2>7, <2>9, TakeGuard, Zenon
    <2>11. CallShape(call'[c], admitted)
      <3>1. Attempting(k)
        BY <2>2, <2>4, Zenon DEF Attempting, Past
      <3>2. call[c].op = "finish" => p = call[c].root
        BY <1>1, <1>2, Zenon DEF CallShape
      <3> QED
        BY <1>0, <1>2, <1>3, <2>2, <2>4, <2>5, <3>1, <3>2, Zenon DEF CallShape
    <2>12. Worked(c)'
      <3>1. CASE x = "abort"
        <4>1. Ended(call'[c]) = {}
          BY <2>2, <2>4, <2>5, <3>1, Zenon DEF Ended
        <4> QED
          BY <2>4, <2>5, <3>1, <4>1, Zenon DEF Worked, JoinedAt, EmptiedAt, DrainedAt, Past
      <3>2. CASE x = "finalize"
        <4>1. /\ \A q \in Ended(call'[c]) : ~AcceptsChildren(scope'[q])
              /\ \A q \in Ended(call'[c]) : task'[q] = "none"
          BY <1>0, <2>4, <2>5, <2>6, JoinedMoves, Zenon
        <4>2. p \in Ended(call'[c])
          BY <1>1, <1>3, <2>2, <2>4, <2>5, <3>2, Zenon DEF Ended
        <4> QED
          BY <2>4, <2>5, <3>2, <4>1, <4>2, Zenon DEF Worked, JoinedAt, EmptiedAt, DrainedAt
      <3> QED
        BY <2>2, <3>1, <3>2, Zenon
    <2>13. TypeOK'
      BY <1>0, <1>2, <1>5, <2>5, <2>6, Zenon DEF TypeOK
    <2> QED
      BY <1>0, <2>5, <2>6, <2>10, <2>11, <2>12, <2>13, CallStep, Zenon
  <1> QED
    BY <1>1, <1>4, <1>5, Zenon

(* finalize_process goes on with the root whose guard it has held. *)
LEMMA FinishRootInv == ASSUME IInv, NEW c \in Callers, finish_root(c) PROVE IInv'
  <1> DEFINE p == call[c].root
  <1>0. /\ call[c].pc = "acquire" /\ call[c].todo = {} /\ call[c].op = "tree"
        /\ admitted' = admitted /\ scope' = scope /\ task' = task /\ body' = body /\ owned' = owned
        /\ on_finalize' = on_finalize /\ ran' = ran
    BY Zenon DEF finish_root
  <1>1. TypeOK /\ Owned /\ ClosedTree /\ CallShape(call[c], admitted) /\ call[c] \in CallRecord
    BY Zenon DEF IInv, Shape, TypeOK
  <1>2. p \in admitted /\ p \in Procs /\ p # None /\ call[c].cur = None
    <2>1. p \in admitted /\ call[c].cur = None
      BY <1>0, <1>1, Zenon DEF CallShape, Attempting, Past
    <2> QED
      BY <1>1, <2>1, NoneAssumption, Zenon DEF TypeOK
  <1>3. ScopesFrame
    BY <1>0, <1>1, SameScopes, Zenon
  <1>4. ClosedTree'
    BY <1>0, <1>1, <1>3, TreesKept, Zenon
  <1>5. CASE /\ call[c].own /\ handles' = handles
             /\ call' = [call EXCEPT ![c].cur = p, ![c].own = FALSE, ![c].pc = "finalize"]
    <2> DEFINE k == [call[c] EXCEPT !.cur = p, !.own = FALSE, !.pc = "finalize"]
    <2>1. /\ k \in CallRecord /\ k.pc = "finalize" /\ k.op = call[c].op /\ k.root = call[c].root
          /\ k.todo = call[c].todo /\ k.cur = p /\ ~k.own /\ k.dropped = call[c].dropped
      BY <1>1, <1>2, Zenon DEF CallRecord, Places, Past
    <2>2. /\ call' \in [Callers -> CallRecord] /\ \A d \in Callers : d # c => call'[d] = call[d]
          /\ call'[c] = k
      <3>1. call \in [Callers -> CallRecord]
        BY <1>1, Zenon DEF TypeOK
      <3> QED
        BY <1>5, <2>1, <3>1, Zenon
    <2> HIDE DEF k
    <2>3. Frame
      BY <1>0, <1>3, <1>5, SameHandles, SameFinalizers, Zenon DEF Frame, TasksFrame
    <2>4. Guards(c)' = Guards(c)
      BY <1>2, <1>5, <2>1, <2>2, Zenon DEF Guards
    <2>5. Owned'
      BY <1>0, <1>1, <2>1, <2>2, <2>4, OwnedSame, Zenon
    <2>6. CallShape(call'[c], admitted)
      BY <1>0, <1>1, <1>2, <2>1, <2>2, Zenon DEF CallShape, Attempting, Past
    <2>7. Worked(c)'
      <3>1. /\ \A q \in Ended(call'[c]) : ~AcceptsChildren(scope'[q])
            /\ \A q \in Ended(call'[c]) : task'[q] = "none"
        BY <1>0, <2>1, <2>2, <2>3, JoinedMoves, Zenon
      <3>2. p \in Ended(call'[c])
        BY <1>0, <2>1, <2>2, Zenon DEF Ended
      <3> QED
        BY <2>1, <2>2, <3>1, <3>2, Zenon DEF Worked, JoinedAt, EmptiedAt, DrainedAt
    <2>8. TypeOK'
      BY <1>0, <1>1, <1>5, <2>2, Zenon DEF TypeOK
    <2> QED
      BY <1>0, <1>4, <2>2, <2>3, <2>5, <2>6, <2>7, <2>8, CallStep, Zenon
  <1>6. CASE /\ call' = [call EXCEPT ![c].pc = "end"] /\ handles' = [handles EXCEPT ![p] = {}]
    <2>1. "end" \in Places
      BY Zenon DEF Places
    <2>2. /\ call' \in [Callers -> CallRecord] /\ call'[c].pc = "end"
          /\ call'[c].op = call[c].op /\ call'[c].root = call[c].root
          /\ call'[c].todo = call[c].todo /\ call'[c].cur = call[c].cur
          /\ call'[c].own = call[c].own /\ call'[c].dropped = call[c].dropped
      BY <1>1, <1>6, <2>1, PlaceMoves, Zenon
    <2>3. HandlesFrame /\ handles' \in [Procs -> SUBSET {"body", "cleanup", "finalizer"}]
      BY <1>0, <1>1, <1>2, <1>6, OneClosed, Zenon
    <2>4. Frame
      BY <1>0, <1>3, <2>3, SameFinalizers, Zenon DEF Frame, TasksFrame
    <2>5. TypeOK'
      BY <1>0, <1>1, <2>2, <2>3, Zenon DEF TypeOK
    <2>6. CallShape(call'[c], admitted)
      BY <1>0, <1>1, <1>2, <2>2, Zenon DEF CallShape, Attempting, Past
    <2>7. Worked(c)'
      BY <2>2, RestWorks, Zenon
    <2> QED
      BY <1>0, <1>4, <1>6, <2>1, <2>4, <2>5, <2>6, <2>7, PlaceStep, Zenon
  <1> QED
    BY <1>5, <1>6, Zenon DEF finish_root

(* A resumed cleanup holds no guard between two selections. *)
LEMMA NoGuardBetween ==
  ASSUME IInv, NEW c \in Callers, call[c].pc \in {"select", "abandon"}
  PROVE  /\ Guards(c) = {} /\ call[c].op = "resume" /\ ~call[c].own /\ call[c].cur = None
         /\ call[c].root \in admitted /\ call[c].root \in Procs
  <1>1. CallShape(call[c], admitted) /\ admitted \subseteq Procs
    BY Zenon DEF IInv, Shape, TypeOK
  <1>2. /\ call[c].op = "resume" /\ ~call[c].own /\ call[c].cur = None
        /\ call[c].root \in admitted
    BY <1>1, Zenon DEF CallShape, Attempting, Past
  <1> QED
    BY <1>1, <1>2, Zenon DEF Guards

(* Members selected for cleanup admit nothing more. *)
LEMMA MembersClosed ==
  ASSUME TypeOK, ClosedTree, NEW p \in admitted, scope[p].cleanup # None, admitted' = admitted,
         scope' = IF scope[p].cleanup = "Tree" THEN TreeClosed(p) ELSE scope
  PROVE  /\ ScopesFrame /\ ClosedTree' /\ scope' \in [Procs -> ScopeRecord]
         /\ Members(p) \subseteq admitted /\ p \in Members(p)
         /\ \A q \in Members(p) : ~AcceptsChildren(scope'[q])
         /\ \A q \in Procs : /\ scope'[q].finalizer_active = scope[q].finalizer_active
                             /\ scope'[q].finalized = scope[q].finalized
  <1>0. p \in Procs /\ p \in Tree(p) /\ Tree(p) \subseteq admitted
    BY LinesSelf, Zenon DEF TypeOK, Tree
  <1>1. CASE scope[p].cleanup = "Tree"
    <2>1. scope' = TreeClosed(p) /\ Members(p) = Tree(p)
      BY <1>1, Zenon DEF Members
    <2> QED
      BY <1>0, <2>1, TreeScopes, TreeTyped, Zenon
  <1>2. CASE scope[p].cleanup # "Tree"
    <2>1. scope' = scope /\ Members(p) = {p}
      BY <1>2, Zenon DEF Members
    <2>2. ScopesFrame
      BY <2>1, SameScopes, Zenon
    <2>3. ClosedTree'
      BY <2>1, <2>2, TreesKept, Zenon
    <2>4. ~AcceptsChildren(scope[p])
      BY Zenon DEF AcceptsChildren
    <2> QED
      BY <1>0, <2>1, <2>2, <2>3, <2>4, Zenon DEF TypeOK
  <1> QED
    BY <1>1, <1>2, Zenon

(* A selection closes what it selects, or the call is done. *)
LEMMA SelectInv == ASSUME IInv, NEW c \in Callers, select_members(c) PROVE IInv'
  <1> DEFINE p == call[c].root
  <1>0. /\ call[c].pc = "select"
        /\ admitted' = admitted /\ task' = task /\ body' = body /\ owned' = owned
        /\ on_finalize' = on_finalize /\ ran' = ran /\ handles' = handles
    BY Zenon DEF select_members
  <1>1. TypeOK /\ Owned /\ ClosedTree /\ CallShape(call[c], admitted) /\ call[c] \in CallRecord
    BY Zenon DEF IInv, Shape, TypeOK
  <1>2. /\ Guards(c) = {} /\ call[c].op = "resume" /\ ~call[c].own /\ call[c].cur = None
        /\ p \in admitted /\ p \in Procs
    BY <1>0, NoGuardBetween, Zenon
  <1>3. CASE call' = [call EXCEPT ![c] = Idle] /\ scope' = scope
    <2>1. /\ call' \in [Callers -> CallRecord] /\ \A d \in Callers : d # c => call'[d] = call[d]
          /\ CallShape(call'[c], admitted) /\ Guards(c)' = {} /\ ~call'[c].own /\ Worked(c)'
      BY <1>1, <1>3, IdleEnds, Zenon
    <2>2. ScopesFrame
      BY <1>1, <1>3, SameScopes, Zenon
    <2>3. ClosedTree'
      BY <1>0, <1>1, <1>3, <2>2, TreesKept, Zenon
    <2>4. Frame
      BY <1>0, <1>3, <2>2, SameHandles, SameFinalizers, Zenon DEF Frame, TasksFrame
    <2>5. Owned'
      BY <1>1, <1>2, <1>3, <2>1, OwnedSame, Zenon
    <2>6. TypeOK'
      BY <1>0, <1>1, <1>3, <2>1, Zenon DEF TypeOK
    <2> QED
      BY <1>0, <2>1, <2>3, <2>4, <2>5, <2>6, CallStep, Zenon
  <1>4. CASE /\ scope[p].cleanup # None
             /\ scope' = IF scope[p].cleanup = "Tree" THEN TreeClosed(p) ELSE scope
             /\ call' = [call EXCEPT ![c].pc = "abort", ![c].todo = Members(p), ![c].failed = FALSE]
    <2>1. /\ ScopesFrame /\ ClosedTree' /\ scope' \in [Procs -> ScopeRecord]
          /\ Members(p) \subseteq admitted /\ p \in Members(p)
          /\ \A q \in Members(p) : ~AcceptsChildren(scope'[q])
          /\ \A q \in Procs : /\ scope'[q].finalizer_active = scope[q].finalizer_active
                              /\ scope'[q].finalized = scope[q].finalized
      BY <1>0, <1>1, <1>2, <1>4, MembersClosed, Zenon
    <2> DEFINE M == Members(p)
               k == [call[c] EXCEPT !.pc = "abort", !.todo = M, !.failed = FALSE]
    <2>2. M \subseteq Procs /\ M \subseteq admitted /\ p \in M
      BY <1>1, <2>1, Zenon DEF TypeOK
    <2>3. call' = [call EXCEPT ![c].pc = "abort", ![c].todo = M, ![c].failed = FALSE]
      BY <1>4, Zenon
    <2>4. \A q \in M : ~AcceptsChildren(scope'[q])
      BY <2>1, Zenon
    <2> HIDE DEF M
    <2>5. /\ k \in CallRecord /\ k.pc = "abort" /\ k.op = call[c].op /\ k.root = p
          /\ k.todo = M /\ k.cur = call[c].cur /\ k.own = call[c].own
          /\ k.dropped = call[c].dropped
      BY <1>1, <2>2, Zenon DEF CallRecord, Places
    <2>6. /\ call' \in [Callers -> CallRecord] /\ \A d \in Callers : d # c => call'[d] = call[d]
          /\ call'[c] = k
      <3>1. call \in [Callers -> CallRecord]
        BY <1>1, Zenon DEF TypeOK
      <3> QED
        BY <2>3, <2>5, <3>1, Zenon
    <2> HIDE DEF k
    <2>7. Frame
      BY <1>0, <2>1, SameHandles, SameFinalizers, Zenon DEF Frame, TasksFrame
    <2>8. Owned'
      <3>1. Guards(c)' = Guards(c)
        BY <2>5, <2>6, Zenon DEF Guards
      <3> QED
        BY <1>1, <1>2, <2>1, <2>5, <2>6, <3>1, OwnedSame, Zenon
    <2>9. CallShape(call'[c], admitted)
      BY <1>0, <1>1, <1>2, <2>2, <2>5, <2>6, Zenon DEF CallShape, Attempting, Past
    <2>10. Worked(c)'
      <3>1. Ended(call'[c]) \subseteq M
        BY <2>2, <2>5, <2>6, Zenon DEF Ended
      <3> QED
        BY <2>4, <2>5, <2>6, <3>1, Zenon DEF Worked, JoinedAt, EmptiedAt, DrainedAt, Past
    <2>11. TypeOK'
      BY <1>0, <1>1, <2>1, <2>6, Zenon DEF TypeOK
    <2> QED
      BY <1>0, <2>1, <2>6, <2>7, <2>8, <2>9, <2>10, <2>11, CallStep, Zenon
  <1> QED
    BY <1>3, <1>4, Zenon DEF select_members

(* A request that is given up aborts and revokes its members. *)
LEMMA AbandonRequestInv == ASSUME IInv, NEW c \in Hosts, abandon_request(c) PROVE IInv'
  <1>0. /\ call[c].pc = "abandon" /\ task' = AbortTasks(call[c].todo)
        /\ handles' = [q \in Procs |-> IF q \in call[c].todo THEN {} ELSE handles[q]]
        /\ admitted' = admitted /\ scope' = scope /\ body' = body /\ owned' = owned
        /\ on_finalize' = on_finalize /\ ran' = ran
    BY Zenon DEF abandon_request
  <1>1. TypeOK /\ Owned /\ ClosedTree
    BY Zenon DEF IInv
  <1>2. c \in Callers /\ CallShape(call[c], admitted)
    BY Zenon DEF Callers, IInv, Shape
  <1>3. Guards(c) = {} /\ call[c].op = "resume" /\ ~call[c].own /\ call[c].cur = None
    BY <1>0, <1>2, NoGuardBetween, Zenon
  <1>4. ScopesFrame
    BY <1>0, <1>1, SameScopes, Zenon
  <1>5. ClosedTree'
    BY <1>0, <1>1, <1>4, TreesKept, Zenon
  <1>6. HandlesFrame /\ handles' \in [Procs -> SUBSET {"body", "cleanup", "finalizer"}]
    BY <1>0, <1>1, ClosedHandles, Zenon
  <1>7. task' \in [Procs -> TaskState] /\ \A q \in Procs : task[q] = "none" => task'[q] = "none"
    BY <1>0, <1>1, AbortsGoDown, Zenon
  <1>8. Frame
    BY <1>0, <1>4, <1>6, <1>7, SameFinalizers, Zenon DEF Frame, TasksFrame
  <1>9. /\ call' \in [Callers -> CallRecord] /\ \A d \in Callers : d # c => call'[d] = call[d]
        /\ CallShape(call'[c], admitted) /\ Guards(c)' = {} /\ ~call'[c].own /\ Worked(c)'
    <2>1. CASE call' = [call EXCEPT ![c] = Idle]
      BY <1>1, <1>2, <2>1, IdleEnds, Zenon
    <2>2. CASE call' = [call EXCEPT ![c].pc = "select"]
      <3>1. "select" \in Places
        BY Zenon DEF Places
      <3>2. /\ call' \in [Callers -> CallRecord] /\ call'[c].pc = "select"
            /\ \A d \in Callers : d # c => call'[d] = call[d]
            /\ call'[c].op = call[c].op /\ call'[c].root = call[c].root
            /\ call'[c].todo = call[c].todo /\ call'[c].cur = call[c].cur
            /\ call'[c].own = call[c].own /\ call'[c].dropped = call[c].dropped
            /\ Guards(c)' = Guards(c)
        BY <1>1, <1>2, <2>2, <3>1, PlaceMoves, Zenon
      <3>3. CallShape(call'[c], admitted)
        BY <1>0, <1>2, <1>3, <3>2, Zenon DEF CallShape, Attempting, Past
      <3>4. Worked(c)'
        BY <1>2, <3>2, RestWorks, Zenon
      <3> QED
        BY <1>3, <3>2, <3>3, <3>4, Zenon
    <2> QED
      BY <2>1, <2>2, Zenon DEF abandon_request
  <1>10. Owned'
    BY <1>0, <1>1, <1>2, <1>3, <1>9, OwnedSame, Zenon
  <1>11. TypeOK'
    BY <1>0, <1>1, <1>6, <1>7, <1>9, Zenon DEF TypeOK
  <1> QED
    BY <1>0, <1>2, <1>5, <1>7, <1>8, <1>9, <1>10, <1>11, CallStep, Zenon

-----------------------------------------------------------------------------
(* Nothing is lost while nothing happens. *)
LEMMA StutterInv == ASSUME IInv, UNCHANGED vars PROVE IInv'
  <1>0. /\ admitted' = admitted /\ scope' = scope /\ task' = task /\ body' = body /\ owned' = owned
        /\ on_finalize' = on_finalize /\ ran' = ran /\ handles' = handles /\ call' = call
    BY Zenon DEF vars
  <1>1. TypeOK'
    BY <1>0, Zenon DEF IInv, TypeOK
  <1>2. Shape'
    BY <1>0, Zenon DEF IInv, Shape, BodyShape, ScopeShape
  <1>3. Owned' /\ ClosedTree'
    BY <1>0, Zenon DEF IInv, Owned, Owners, Held, Active, Guards, ClosedTree
  <1>4. Emptied' /\ Drained'
    BY <1>0, Zenon DEF IInv, Emptied, Drained
  <1>5. \A c \in Callers : Worked(c)'
    BY <1>0, Zenon DEF IInv, Worked, JoinedAt, EmptiedAt, DrainedAt
  <1> QED
    BY <1>1, <1>2, <1>3, <1>4, <1>5, Zenon DEF IInv

(* Every step of a body, of a call, of the host and of the environment      *)
(* preserves the invariant.                                                 *)
LEMMA NextInv == IInv /\ [Next]_vars => IInv'
  <1> SUFFICES ASSUME IInv, [Next]_vars PROVE IInv'
    BY Zenon
  <1>1. ASSUME NEW p \in Procs, Body(p) PROVE IInv'
    <2>1. CASE activate_child(p)
      BY <2>1, ActivateInv, Zenon
    <2>2. CASE enter_cleanup(p) \/ return_request(p)
      BY <2>2, BodyMovesInv, Zenon
    <2>3. ASSUME NEW status \in Outcomes, retain_outcome(p, status) PROVE IInv'
      BY <2>3, RetainInv, Zenon
    <2>4. CASE release_finished(p)
      BY <2>4, ReleaseFinishedInv, Zenon
    <2>5. CASE drop_body(p)
      BY <2>5, DropBodyInv, Zenon
    <2>6. CASE revoke_tree(p)
      BY <2>6, RevokeInv, Zenon
    <2>7. CASE release_dropped(p)
      BY <2>7, ReleaseDroppedInv, Zenon
    <2> QED
      BY <1>1, <2>1, <2>2, <2>3, <2>4, <2>5, <2>6, <2>7, Zenon DEF Body
  <1>2. ASSUME NEW p \in Procs, Environment(p) PROVE IInv'
    <2>1. CASE admit(p)
      BY <2>1, AdmitInv, Zenon
    <2>2. CASE spawn_task(p)
      BY <2>2, SpawnInv, Zenon
    <2>3. CASE detach(p)
      BY <2>3, DetachInv, Zenon
    <2>4. CASE cancel(p)
      BY <2>4, CancelInv, Zenon
    <2>5. ASSUME NEW status \in Outcomes, complete_body(p, status) PROVE IInv'
      BY <2>5, CompleteBodyInv, Zenon
    <2>6. ASSUME NEW by \in Openers, open(p, by) PROVE IInv'
      BY <2>6, OpenInv, Zenon
    <2> QED
      BY <1>2, <2>1, <2>2, <2>3, <2>4, <2>5, <2>6, Zenon DEF Environment
  <1>3. ASSUME NEW c \in Callers, Step(c) PROVE IInv'
    <2>1. CASE select_members(c)
      BY <2>1, SelectInv, Zenon
    <2>2. CASE own_root(c)
      BY <2>2, OwnRootInv, Zenon
    <2>3. CASE abort_task(c)
      BY <2>3, AbortInv, Zenon
    <2>4. CASE wait_for_task_exit(c)
      BY <2>4, WaitInv, Zenon
    <2>5. CASE acquire_finalization(c)
      BY <2>5, AcquireInv, Zenon
    <2>6. CASE finish_root(c)
      BY <2>6, FinishRootInv, Zenon
    <2>7. CASE next_finalizer(c)
      BY <2>7, NextFinalizerInv, Zenon
    <2>8. CASE finish_finalizer(c) \/ dispatch_record(c)
      BY <2>8, AttemptMovesInv, Zenon
    <2>9. CASE close_process_handles(c)
      BY <2>9, CloseHandlesInv, Zenon
    <2>10. CASE mark_terminal_status(c)
      BY <2>10, MarkInv, Zenon
    <2>11. CASE complete_finalization(c)
      BY <2>11, CompleteInv, Zenon
    <2>12. CASE release_finalizing(c)
      BY <2>12, ReleaseInv, Zenon
    <2>13. CASE end_call(c)
      BY <2>13, EndCallInv, Zenon
    <2> QED
      BY <1>3, <2>1, <2>2, <2>3, <2>4, <2>5, <2>6, <2>7, <2>8, <2>9, <2>10, <2>11, <2>12, <2>13,
         Zenon DEF Step
  <1>4. ASSUME NEW c \in Callers, attempt_fails(c) PROVE IInv'
    BY <1>4, AttemptFailsInv, Zenon
  <1>5. ASSUME NEW c \in Callers, drop_call(c) PROVE IInv'
    BY <1>5, DropCallInv, Zenon
  <1>6. ASSUME NEW h \in Hosts, Call(h) PROVE IInv'
    <2>1. CASE abandon_request(h)
      BY <2>1, AbandonRequestInv, Zenon
    <2>2. ASSUME NEW p \in Procs, NEW status \in Outcomes, finish_process(h, p, status) PROVE IInv'
      BY <2>2, FinishProcessInv, Zenon
    <2>3. ASSUME NEW p \in Procs, finalize_process(h, p) PROVE IInv'
      BY <2>3, FinalizeProcessInv, Zenon
    <2>4. ASSUME NEW p \in Procs, resume_cleanup(h, p) PROVE IInv'
      BY <2>4, ResumeInv, Zenon
    <2>5. ASSUME NEW p \in Procs, abandon_scope(h, p) PROVE IInv'
      BY <2>5, AbandonScopeInv, Zenon
    <2> QED
      BY <1>6, <2>1, <2>2, <2>3, <2>4, <2>5, Zenon DEF Call
  <1>7. CASE UNCHANGED vars
    BY <1>7, StutterInv, Zenon
  <1> QED
    BY <1>1, <1>2, <1>3, <1>4, <1>5, <1>6, <1>7, Zenon DEF Next

(* The invariant holds in every reachable state, for any set of processes,  *)
(* any tree they form and any number of concurrent calls and faults.        *)
THEOREM FinalizationInvariant == Spec => []IInv
  BY InitInv, NextInv, PTL DEF Spec

(* A finalizer attempt has exactly one owner (try_begin_finalizing and      *)
(* FinalizationGuard): one caller holds the guard of a process while its    *)
(* finalizer is active, and none otherwise.                                 *)
THEOREM OneOwnerAlways == Spec => []OneOwner
  <1>1. IInv => OneOwner
    <2> SUFFICES ASSUME IInv, NEW p \in Procs
                 PROVE  Cardinality({c \in Callers : p \in Guards(c)})
                          = IF scope[p].finalizer_active THEN 1 ELSE 0
      BY Zenon DEF OneOwner
    <2> DEFINE S == {c \in Callers : p \in Guards(c)}
    <2>0. Owned
      BY Zenon DEF IInv
    <2>1. CASE scope[p].finalizer_active
      <3>1. PICK c \in Callers : p \in Guards(c)
        BY <2>0, <2>1, Zenon DEF Owned, Owners, Held, Active
      <3>2. \A d \in Callers : p \in Guards(d) => d = c
        BY <2>0, <3>1, Zenon DEF Owned, Owners, Held, Active
      <3>3. S = {c}
        BY <3>1, <3>2, Zenon
      <3>4. Cardinality({c}) = 1
        BY SingletonHasOne, Zenon
      <3> QED
        BY <2>1, <3>3, <3>4, Zenon
    <2>2. CASE ~scope[p].finalizer_active
      <3>1. S = {}
        BY <2>0, <2>2, Zenon DEF Owned, Owners, Held, Active
      <3>2. Cardinality({}) = 0
        BY EmptyHasNone, Zenon
      <3> QED
        BY <2>2, <3>1, <3>2, Zenon
    <2> QED
      BY <2>1, <2>2, Zenon
  <1> QED
    BY <1>1, FinalizationInvariant, PTL

(* Finalizers run and handles close after the managed body is joined, and a *)
(* finalized process has no handle of its body or of its finalizers left    *)
(* (ProcessTask::abort_and_join, close_process_handles, mark_finalized).    *)
THEOREM AlwaysFinalizedInOrder == Spec => []FinalizedInOrder
  <1>1. IInv => FinalizedInOrder
    <2> SUFFICES ASSUME IInv PROVE FinalizedInOrder
      BY Zenon
    <2>1. BodyJoinedFirst
      BY Zenon DEF IInv, Worked, JoinedAt, BodyJoinedFirst, Past
    <2>2. HandlesReleased
      BY Zenon DEF IInv, Emptied, Own, HandlesReleased
    <2> QED
      BY <2>1, <2>2, Zenon DEF FinalizedInOrder
  <1> QED
    BY <1>1, FinalizationInvariant, PTL

(* A tree that is selected for cleanup admits no process and no body        *)
(* (request_tree_cleanup marks every member under the table's lock).        *)
THEOREM TreesStayClosed == Spec => []ClosedTree
  <1>1. IInv => ClosedTree
    BY Zenon DEF IInv
  <1> QED
    BY <1>1, FinalizationInvariant, PTL

(* What one step may do to the finalizers of a process. *)
StartedOnce(p) ==
    \/ (on_finalize[p] + ran[p])' = on_finalize[p] + ran[p]
    \/ on_finalize[p] + ran[p] = 0 /\ ~scope[p].finalized

(* Only the activation of a body, the start of a finalizer and the record   *)
(* touch the list of finalizers or what has run.                            *)
LEMMA OtherStepsKeepFinalizers ==
  ASSUME [Next]_vars,
         \A p \in Procs : ~activate_child(p),
         \A c \in Callers : ~next_finalizer(c) /\ ~complete_finalization(c)
  PROVE  on_finalize' = on_finalize /\ ran' = ran
  <1>1. ASSUME NEW p \in Procs, Body(p) \/ Environment(p) PROVE on_finalize' = on_finalize /\ ran' = ran
    BY <1>1, Zenon DEF Body, Environment, enter_cleanup, return_request, retain_outcome,
       release_finished, drop_body, revoke_tree, release_dropped, admit, spawn_task, detach, cancel,
       complete_body, open
  <1>2. ASSUME NEW c \in Callers, Step(c) PROVE on_finalize' = on_finalize /\ ran' = ran
    BY <1>2, Zenon DEF Step, select_members, own_root, abort_task, wait_for_task_exit,
       acquire_finalization, finish_root, finish_finalizer, dispatch_record, close_process_handles,
       mark_terminal_status, release_finalizing, end_call
  <1>3. ASSUME NEW c \in Callers, attempt_fails(c) \/ drop_call(c)
        PROVE  on_finalize' = on_finalize /\ ran' = ran
    BY <1>3, Zenon DEF attempt_fails, drop_call
  <1>4. ASSUME NEW h \in Hosts, Call(h) PROVE on_finalize' = on_finalize /\ ran' = ran
    BY <1>4, Zenon DEF Call, abandon_request, finish_process, finalize_process, resume_cleanup,
       abandon_scope
  <1>5. CASE UNCHANGED vars
    BY <1>5, Zenon DEF vars
  <1> QED
    BY <1>1, <1>2, <1>3, <1>4, <1>5, Zenon DEF Next

(* A finalizer is installed before any has run, moves from the list to what *)
(* has run, and is not discarded by the record, which finds the list empty. *)
LEMMA FinalizersStep ==
  ASSUME IInv, [Next]_vars, NEW p \in Procs
  PROVE  StartedOnce(p)
  <1>0. TypeOK /\ Drained /\ on_finalize \in [Procs -> Nat] /\ ran \in [Procs -> Nat]
    BY Zenon DEF IInv, TypeOK
  <1>1. ASSUME NEW q \in Procs, activate_child(q) PROVE StartedOnce(p)
    <2>1. /\ body[q] = "starting" /\ CanStart(scope[q]) /\ ran' = ran
          /\ on_finalize' = [on_finalize EXCEPT ![q] = Finalizers[q]]
      BY <1>1, Zenon DEF activate_child
    <2>2. CASE p # q
      <3>1. on_finalize'[p] = on_finalize[p] /\ ran'[p] = ran[p]
        BY <1>0, <2>1, <2>2, Zenon
      <3> QED
        BY <3>1, Zenon DEF StartedOnce
    <2>3. CASE p = q
      <3>1. on_finalize[p] = 0 /\ ran[p] = 0
        BY <1>0, <2>1, <2>3, Zenon DEF Drained
      <3>2. ~scope[p].finalized
        BY <2>1, <2>3, Zenon DEF CanStart, AcceptsChildren
      <3> QED
        BY <3>1, <3>2 DEF StartedOnce
    <2> QED
      BY <2>2, <2>3, Zenon
  <1>2. ASSUME NEW c \in Callers, next_finalizer(c) PROVE StartedOnce(p)
    <2> DEFINE q == call[c].cur
    <2>1. /\ on_finalize[q] > 0
          /\ on_finalize' = [on_finalize EXCEPT ![q] = on_finalize[q] - 1]
          /\ ran' = [ran EXCEPT ![q] = ran[q] + 1]
      BY <1>2, Zenon DEF next_finalizer
    <2> HIDE DEF q
    <2> QED
      BY <1>0, <2>1 DEF StartedOnce
  <1>3. ASSUME NEW c \in Callers, complete_finalization(c) PROVE StartedOnce(p)
    <2> DEFINE q == call[c].cur
    <2>1. on_finalize' = [on_finalize EXCEPT ![q] = 0] /\ ran' = ran /\ call[c].pc = "publish"
      BY <1>3, Zenon DEF complete_finalization
    <2>2. on_finalize[q] = 0
      BY <2>1, Zenon DEF IInv, Worked, DrainedAt
    <2>3. on_finalize'[p] = on_finalize[p] /\ ran'[p] = ran[p]
      BY <1>0, <2>1, <2>2, Zenon
    <2> QED
      BY <2>3, Zenon DEF StartedOnce
  <1>4. CASE on_finalize' = on_finalize /\ ran' = ran
    BY <1>4, Zenon DEF StartedOnce
  <1> QED
    BY <1>1, <1>2, <1>3, <1>4, OtherStepsKeepFinalizers, Zenon

(* Every installed finalizer is started exactly once (next_finalizer takes  *)
(* it off the list before it runs, complete_finalization discards none).    *)
THEOREM FinalizersStartOnce == Spec => FinalizersOnce
  <1>1. IInv /\ [Next]_vars =>
          [\A p \in Procs :
             \/ (on_finalize[p] + ran[p])' = on_finalize[p] + ran[p]
             \/ on_finalize[p] + ran[p] = 0 /\ ~scope[p].finalized]_vars
    BY FinalizersStep, Zenon DEF StartedOnce
  <1> QED
    BY <1>1, FinalizationInvariant, PTL DEF Spec, FinalizersOnce
==============================================================================
