------------------------ MODULE SyncSchedulerProofs -------------------------
(***************************************************************************)
(* Theorems about SyncScheduler: types, and what messageSyncInFlight and   *)
(* the global lock guarantee, for any number of peers, tasks and           *)
(* connections.                                                            *)
(***************************************************************************)
EXTENDS SyncScheduler, TLAPS

\* Replacing answers in a queue by Late keeps it a queue of messages.
LEMMA ReplacedIsQueue ==
    ASSUME NEW q \in Seq(Message), NEW ts
    PROVE  [i \in DOMAIN q |-> IF q[i].task \in ts THEN Late ELSE q[i]] \in Seq(Message)
<1>1. Late \in Message
  BY DEF Message
<1> DEFINE r == [i \in DOMAIN q |-> IF q[i].task \in ts THEN Late ELSE q[i]]
<1>2. DOMAIN q = 1..Len(q) /\ Len(q) \in Nat
  OBVIOUS
<1>3. r \in [1..Len(q) -> Message]
  BY <1>1, <1>2
<1> HIDE DEF r
<1>4. r \in Seq(Message)
  BY <1>2, <1>3
<1> QED
  BY <1>4 DEF r

\* The head of a queue is a message, and an answer in it is for a task.
LEMMA HeadIsMessage ==
    ASSUME NEW q \in Seq(Message), q # <<>>
    PROVE  /\ Tail(q) \in Seq(Message)
           /\ Head(q).kind \in {"answer", "rejection"} => Head(q).task \in Task
<1>1. Head(q) \in Message /\ Tail(q) \in Seq(Message)
  OBVIOUS
<1> DEFINE m == Head(q)
<1>2. m \in Message
  BY <1>1
<1> HIDE DEF m
<1>3. m.kind \in {"answer", "rejection"} => m.task \in Task
  BY <1>2 DEF Message, Diff, State, Late, Answer, Rejection
<1> QED
  BY <1>1, <1>3 DEF m

\* requestMessageSync keeps the types of what it changes.
LEMMA RequestType ==
    ASSUME TypeOK, NEW p \in Peer, NEW n, requestMessageSync(p, n)
    PROVE  task' \in [Task -> TaskRecord] /\ inFlight' \in [Peer -> Task \cup {None}]
<1>1. CASE UNCHANGED <<task, inFlight>>
  BY <1>1 DEF TypeOK
<1>2. ASSUME NEW t \in Task, Begin(p, t)
      PROVE  task' \in [Task -> TaskRecord] /\ inFlight' \in [Peer -> Task \cup {None}]
  <2> DEFINE new == [phase |-> "waiting", peer |-> p, conn |-> conn[p],
                     waits |-> lock, left |-> 0, query |-> "none"]
  <2>1. new \in TaskRecord
    BY SchedulerAssumption DEF TypeOK, TaskRecord
  <2>2. task' = [task EXCEPT ![t] = new] /\ inFlight' = [inFlight EXCEPT ![p] = t]
    BY <1>2 DEF Begin
  <2> QED
    BY <2>1, <2>2 DEF TypeOK
<1> QED
  BY <1>1, <1>2 DEF requestMessageSync

\* What the steps of a task do to it gives a task again.
LEMMA StepIsTask ==
    ASSUME NEW r \in TaskRecord
    PROVE  /\ Ending(r) \in TaskRecord /\ Answered(r) \in TaskRecord /\ Rejected(r) \in TaskRecord
           /\ [r EXCEPT !.phase = "grace"] \in TaskRecord
           /\ [r EXCEPT !.query = "sent"] \in TaskRecord /\ [r EXCEPT !.query = "answered"] \in TaskRecord
           /\ \A n \in 0..MaxQueries, ph \in Running : Asking(r, ph, n) \in TaskRecord
<1>1. Ending(r) \in TaskRecord
  <2>1. 0 \in 0..MaxQueries
    BY SchedulerAssumption
  <2> QED
    BY <2>1 DEF Ending, TaskRecord, Running
<1>2. Answered(r) \in TaskRecord
  <2>1. CASE r.left > 1
    <3>1. r.left - 1 \in 0..MaxQueries
      BY <2>1, SchedulerAssumption DEF TaskRecord
    <3>2. [r EXCEPT !.left = r.left - 1, !.query = "none"] \in TaskRecord
      BY <3>1 DEF TaskRecord
    <3> QED
      BY <2>1, <3>2 DEF Answered
  <2> QED
    BY <1>1, <2>1 DEF Answered
<1>3. Rejected(r) \in TaskRecord
  BY <1>1 DEF Rejected, TaskRecord, Running
<1>4. /\ [r EXCEPT !.phase = "grace"] \in TaskRecord
      /\ [r EXCEPT !.query = "sent"] \in TaskRecord /\ [r EXCEPT !.query = "answered"] \in TaskRecord
  BY DEF TaskRecord, Running
<1>5. ASSUME NEW n \in 0..MaxQueries, NEW ph \in Running PROVE Asking(r, ph, n) \in TaskRecord
  BY <1>1 DEF Asking, TaskRecord
<1> QED
  BY <1>1, <1>2, <1>3, <1>4, <1>5

\* Withdrawing the pending queries of some tasks keeps the type of the queues.
LEMMA WithdrawnType ==
    ASSUME TypeOK, NEW ts
    PROVE  Withdrawn(ts) \in [Peer -> [Conn -> Seq(Message)]]
<1> DEFINE late(p, c) == [i \in DOMAIN queue[p][c] |->
                            IF queue[p][c][i].task \in ts THEN Late ELSE queue[p][c][i]]
<1>1. ASSUME NEW p \in Peer, NEW c \in Conn PROVE late(p, c) \in Seq(Message)
  <2>1. queue[p][c] \in Seq(Message)
    BY DEF TypeOK
  <2> QED
    BY <2>1, ReplacedIsQueue
<1>2. Withdrawn(ts) = [p \in Peer |-> [c \in Conn |-> late(p, c)]]
  BY DEF Withdrawn
<1> HIDE DEF late
<1> QED
  BY <1>1, <1>2

\* Every reachable state is well typed.
THEOREM TypeCorrect == Spec => []TypeOK
<1>1. Init => TypeOK
  <2> SUFFICES ASSUME Init PROVE TypeOK
    OBVIOUS
  <2>1. Free \in TaskRecord
    BY SchedulerAssumption DEF Free, TaskRecord, Running, Conn
  <2>2. 0 \in Conn /\ <<>> \in Seq(Message)
    BY SchedulerAssumption DEF Conn
  <2> QED
    BY <2>1, <2>2, SchedulerAssumption DEF Init, TypeOK
<1>2. TypeOK /\ [Next]_vars => TypeOK'
  <2> SUFFICES ASSUME TypeOK, [Next]_vars PROVE TypeOK'
    OBVIOUS
  <2> USE SchedulerAssumption
  <2>1. ASSUME NEW t \in Task, Acquire(t) PROVE TypeOK'
    <3>1. task' \in [Task -> TaskRecord]
      <4>1. CASE task' = [task EXCEPT ![t] = [@ EXCEPT !.phase = "grace"]]
        BY <4>1, StepIsTask DEF TypeOK
      <4>2. ASSUME NEW n \in 0..MaxQueries, task' = [task EXCEPT ![t] = Asking(@, "asking", n)]
            PROVE  task' \in [Task -> TaskRecord]
        BY <4>2, StepIsTask DEF TypeOK, Running
      <4> QED
        BY <2>1, <4>1, <4>2 DEF Acquire
    <3>2. age' = [age EXCEPT ![task[t].peer] = 0]
      BY <2>1 DEF Acquire
    <3>3. age' \in [Peer -> 0..PeriodicInterval]
      <4>1. 0 \in 0..PeriodicInterval
        OBVIOUS
      <4> QED
        BY <3>2, <4>1 DEF TypeOK
    <3>4. lock' \in Task \cup {None}
      BY <2>1 DEF Acquire, TypeOK
    <3>5. UNCHANGED <<ready, conn, postAge, post, inFlight, queue, awaits>>
      BY <2>1 DEF Acquire
    <3> QED
      BY <3>1, <3>3, <3>4, <3>5 DEF TypeOK
  <2>0. ASSUME NEW t \in Task, Ask(t) PROVE TypeOK'
    <3>1. task' \in [Task -> TaskRecord]
      BY <2>0, StepIsTask DEF Ask, TypeOK
    <3> QED
      BY <2>0, <3>1 DEF Ask, TypeOK
  <2>2. ASSUME NEW t \in Task, QueryTimeout(t) PROVE TypeOK'
    <3>1. task' \in [Task -> TaskRecord]
      BY <2>2, StepIsTask DEF QueryTimeout, TypeOK
    <3>2. queue' \in [Peer -> [Conn -> Seq(Message)]]
      BY <2>2, WithdrawnType DEF QueryTimeout
    <3> QED
      BY <2>2, <3>1, <3>2 DEF QueryTimeout, TypeOK
  <2>3. ASSUME NEW t \in Task, RetryOnce(t) PROVE TypeOK'
    <3>1. task' \in [Task -> TaskRecord]
      <4>1. PICK n \in 0..MaxQueries : task' = [task EXCEPT ![t] = Asking(@, "again", n)]
        BY <2>3 DEF RetryOnce
      <4> QED
        BY <4>1, StepIsTask DEF TypeOK, Running
    <3> QED
      BY <2>3, <3>1 DEF RetryOnce, TypeOK
  <2>4. ASSUME NEW t \in Task, GraceOver(t) PROVE TypeOK'
    <3>1. task' \in [Task -> TaskRecord]
      BY <2>4, StepIsTask DEF GraceOver, TypeOK
    <3> QED
      BY <2>4, <3>1 DEF GraceOver, TypeOK
  <2>5. ASSUME NEW t \in Task, End(t) PROVE TypeOK'
    <3>1. task' \in [Task -> TaskRecord]
      <4>1. Free \in TaskRecord
        BY DEF Free, TaskRecord, Running, Conn
      <4>2. \A u \in Task : [task[u] EXCEPT !.waits = None] \in TaskRecord
        <5>1. ASSUME NEW x \in TaskRecord PROVE [x EXCEPT !.waits = None] \in TaskRecord
          BY DEF TaskRecord
        <5> QED
          BY <5>1 DEF TypeOK
      <4> QED
        BY <2>5, <4>1, <4>2 DEF End, Settled, TypeOK
    <3>2. inFlight' \in [Peer -> Task \cup {None}] /\ lock' \in Task \cup {None}
      BY <2>5 DEF End, TypeOK
    <3>3. awaits' \in [Peer -> [Conn -> Task \cup {None}]]
      BY <2>5 DEF End, Returned, TypeOK
    <3> QED
      BY <2>5, <3>1, <3>2, <3>3 DEF End, TypeOK
  <2>6. ASSUME NEW t \in Task, NEW m \in Message, PeerAnswers(t, m) PROVE TypeOK'
    <3> DEFINE p == task[t].peer
    <3>1. p \in Peer /\ conn[p] \in Conn
      BY <2>6 DEF PeerAnswers, TypeOK
    <3>2. Append(queue[p][conn[p]], m) \in Seq(Message)
      BY <3>1 DEF TypeOK
    <3>3. queue' \in [Peer -> [Conn -> Seq(Message)]]
      BY <2>6, <3>1, <3>2 DEF PeerAnswers, TypeOK
    <3>4. task' \in [Task -> TaskRecord]
      BY <2>6, StepIsTask DEF PeerAnswers, TypeOK
    <3> QED
      BY <2>6, <3>3, <3>4 DEF PeerAnswers, TypeOK
  <2>7. ASSUME NEW p \in Peer, HeavySync(p) PROVE TypeOK'
    <3>1. task' \in [Task -> TaskRecord] /\ inFlight' \in [Peer -> Task \cup {None}]
      BY <2>7, RequestType DEF HeavySync, TypeOK
    <3>2. post' \in [Peer -> Nat] /\ postAge' \in 0..PostConnectMin
      BY <2>7 DEF HeavySync, TypeOK
    <3>3. UNCHANGED <<ready, conn, age, lock, queue, awaits>>
      BY <2>7 DEF HeavySync
    <3> QED
      BY <3>1, <3>2, <3>3 DEF TypeOK
  <2>8. ASSUME NEW p \in Peer, Maintenance(p) PROVE TypeOK'
    <3>1. task' \in [Task -> TaskRecord] /\ inFlight' \in [Peer -> Task \cup {None}]
      BY <2>8, RequestType DEF Maintenance
    <3>2. age' \in [Peer -> 0..PeriodicInterval]
      BY <2>8 DEF Maintenance, TypeOK
    <3>3. UNCHANGED <<ready, conn, postAge, post, lock, queue, awaits>>
      BY <2>8 DEF Maintenance
    <3> QED
      BY <3>1, <3>2, <3>3 DEF TypeOK
  <2>9. ASSUME NEW p \in Peer, DeliveryWatch(p) PROVE TypeOK'
    <3>1. task' \in [Task -> TaskRecord] /\ inFlight' \in [Peer -> Task \cup {None}]
      BY <2>9, RequestType DEF DeliveryWatch
    <3> QED
      BY <2>9, <3>1 DEF DeliveryWatch, TypeOK
  <2>10. ASSUME NEW p \in Peer, NEW m \in Message, Arrives(p, m) PROVE TypeOK'
    <3>1. Append(queue[p][conn[p]], m) \in Seq(Message) /\ conn[p] \in Conn
      BY DEF TypeOK
    <3>2. queue' \in [Peer -> [Conn -> Seq(Message)]]
      BY <2>10, <3>1 DEF Arrives, TypeOK
    <3> QED
      BY <2>10, <3>2 DEF Arrives, TypeOK
  <2>11. ASSUME NEW p \in Peer, NEW c \in Conn, NEW kinds, Handles(p, c, kinds)
         PROVE  /\ queue' \in [Peer -> [Conn -> Seq(Message)]]
                /\ Head(queue[p][c]).kind \in {"answer", "rejection"} => Head(queue[p][c]).task \in Task
    <3>1. queue[p][c] \in Seq(Message) /\ queue[p][c] # <<>>
      BY <2>11 DEF Handles, TypeOK
    <3>2. /\ Tail(queue[p][c]) \in Seq(Message)
          /\ Head(queue[p][c]).kind \in {"answer", "rejection"} => Head(queue[p][c]).task \in Task
      BY <3>1, HeadIsMessage
    <3> QED
      BY <2>11, <3>2 DEF Handles, TypeOK
  <2>12. ASSUME NEW p \in Peer, NEW c \in Conn, HandleDiff(p, c) PROVE TypeOK'
    <3>1. task' \in [Task -> TaskRecord] /\ inFlight' \in [Peer -> Task \cup {None}]
      BY <2>12, RequestType DEF HandleDiff
    <3>2. awaits' \in [Peer -> [Conn -> Task \cup {None}]]
      BY <2>12, <3>1 DEF HandleDiff, TypeOK
    <3> QED
      BY <2>11, <2>12, <3>1, <3>2 DEF HandleDiff, TypeOK
  <2>13. ASSUME NEW p \in Peer, NEW c \in Conn, HandleState(p, c) PROVE TypeOK'
    <3>1. task' \in [Task -> TaskRecord] /\ inFlight' \in [Peer -> Task \cup {None}]
      BY <2>13, RequestType DEF HandleState
    <3> QED
      BY <2>11, <2>13, <3>1 DEF HandleState, TypeOK
  <2>14. ASSUME NEW p \in Peer, NEW c \in Conn, HandleAnswer(p, c) PROVE TypeOK'
    <3>1. queue' \in [Peer -> [Conn -> Seq(Message)]] /\ Head(queue[p][c]).task \in Task
      BY <2>11, <2>14 DEF HandleAnswer, Handles
    <3>2. task' \in [Task -> TaskRecord]
      BY <2>14, <3>1, StepIsTask DEF HandleAnswer, TypeOK
    <3> QED
      BY <2>14, <3>1, <3>2 DEF HandleAnswer, TypeOK
  <2>15. ASSUME NEW p \in Peer, NEW c \in Conn, HandleRejection(p, c) PROVE TypeOK'
    <3>1. queue' \in [Peer -> [Conn -> Seq(Message)]] /\ Head(queue[p][c]).task \in Task
      BY <2>11, <2>15 DEF HandleRejection, Handles
    <3>2. task' \in [Task -> TaskRecord]
      BY <2>15, <3>1, StepIsTask DEF HandleRejection, TypeOK
    <3> QED
      BY <2>15, <3>1, <3>2 DEF HandleRejection, TypeOK
  <2>16. ASSUME NEW p \in Peer, NEW c \in Conn, HandleLate(p, c) PROVE TypeOK'
    BY <2>11, <2>16 DEF HandleLate, TypeOK
  <2>17. ASSUME NEW p \in Peer, Connect(p) PROVE TypeOK'
    BY <2>17 DEF Connect, TypeOK
  <2>18. ASSUME NEW p \in Peer, Disconnect(p) PROVE TypeOK'
    <3> DEFINE rejected == {t \in Task : task[t].peer = p /\ task[t].query # "none"}
    <3>1. queue' = Withdrawn(rejected)
      BY <2>18 DEF Disconnect
    <3>2. queue' \in [Peer -> [Conn -> Seq(Message)]]
      BY <3>1, WithdrawnType
    <3>3. task' \in [Task -> TaskRecord]
      BY <2>18, StepIsTask DEF Disconnect, TypeOK
    <3>4. conn' \in [Peer -> Conn]
      BY <2>18 DEF Disconnect, TypeOK, Conn
    <3>5. age' \in [Peer -> 0..PeriodicInterval] /\ inFlight' \in [Peer -> Task \cup {None}]
      BY <2>18 DEF Disconnect, TypeOK
    <3> QED
      BY <2>18, <3>2, <3>3, <3>4, <3>5 DEF Disconnect, TypeOK
  <2>19. CASE Tick
    BY <2>19 DEF Tick, Later, TypeOK
  <2>20. CASE UNCHANGED vars
    BY <2>20 DEF vars, TypeOK
  <2>21. /\ Diff \in Message /\ State \in Message
         /\ \A t \in Task : Answer(t) \in Message /\ Rejection(t) \in Message
    BY DEF Message
  <2> QED
    BY <2>0, <2>1, <2>2, <2>3, <2>4, <2>5, <2>6, <2>7, <2>8, <2>9, <2>10, <2>12, <2>13, <2>14, <2>15,
       <2>16, <2>17, <2>18, <2>19, <2>20, <2>21
    DEF Next, TaskStep, Handle
<1> QED
  BY <1>1, <1>2, PTL DEF Spec

-----------------------------------------------------------------------------
(* The inductive invariant, in three parts: which task messageSyncInFlight *)
(* names, who holds the lock, and which queries the queued answers are for.*)

Busy(t) == task[t].phase # "free"

FlightPart ==
    /\ \A t \in Task : Busy(t) => task[t].peer \in Peer /\ task[t].conn <= conn[task[t].peer]
    /\ \A t \in Task : Busy(t) /\ task[t].conn = conn[task[t].peer] => inFlight[task[t].peer] = t
    /\ InFlightIsRunning
    /\ SingleFlight

LockPart ==
    /\ lock # None => task[lock].phase \in Running
    /\ WaitsForHolder

Pending(t) == task[t].phase \in {"asking", "again"}

\* No two queued answers are for the same query.
AnswerOnce ==
    \A p, q \in Peer : \A c, d \in Conn : \A i \in DOMAIN queue[p][c], j \in DOMAIN queue[q][d] :
        queue[p][c][i].task # None /\ queue[p][c][i].task = queue[q][d][j].task
        => p = q /\ c = d /\ i = j

QueuePart ==
    /\ \A t \in Task : task[t].query # "none" => Pending(t)
    /\ AnswerIsPending
    /\ AnswerOnce

SyncInv == TypeOK /\ FlightPart /\ LockPart /\ QueuePart

\* Steps that leave the tasks' peers and connections alone keep the first part.
LEMMA FlightKept ==
    ASSUME TypeOK, FlightPart, UNCHANGED <<conn, inFlight>>,
           \A u \in Task : /\ task'[u].phase = "free" <=> task[u].phase = "free"
                           /\ task'[u].peer = task[u].peer /\ task'[u].conn = task[u].conn
    PROVE  FlightPart'
<1>1. ASSUME NEW u \in Task, Busy(u)'
      PROVE  /\ task'[u].peer \in Peer /\ task'[u].conn <= conn'[task'[u].peer]
             /\ task'[u].conn = conn'[task'[u].peer] => inFlight'[task'[u].peer] = u
  BY <1>1 DEF FlightPart, Busy
<1>2. ASSUME NEW q \in Peer, inFlight'[q] # None
      PROVE  /\ task'[inFlight'[q]].phase # "free"
             /\ task'[inFlight'[q]].peer = q /\ task'[inFlight'[q]].conn = conn'[q]
  <2>1. inFlight[q] \in Task /\ inFlight'[q] = inFlight[q] /\ inFlight[q] # None
    BY <1>2 DEF TypeOK
  <2> QED
    BY <2>1 DEF FlightPart, InFlightIsRunning
<1>3. ASSUME NEW t \in Task, NEW u \in Task, t # u, task'[t].phase # "free",
             task'[u].phase # "free", task'[t].peer = task'[u].peer
      PROVE  task'[t].conn # task'[u].conn
  BY <1>3 DEF FlightPart, SingleFlight
<1> QED
  BY <1>1, <1>2, <1>3 DEF FlightPart, InFlightIsRunning, SingleFlight

\* A request starts a task only when none of the connection is tracked.
LEMMA FlightRequest ==
    ASSUME TypeOK, FlightPart, NEW p \in Peer, NEW n, requestMessageSync(p, n), UNCHANGED conn
    PROVE  FlightPart'
<1>1. CASE UNCHANGED <<task, inFlight>>
  BY <1>1, FlightKept
<1>2. ASSUME NEW t \in Task, inFlight[p] = None, Begin(p, t) PROVE FlightPart'
  <2> DEFINE new == [phase |-> "waiting", peer |-> p, conn |-> conn[p],
                     waits |-> lock, left |-> 0, query |-> "none"]
  <2>1. /\ task[t].phase = "free" /\ task'[t] = new
        /\ \A u \in Task \ {t} : task'[u] = task[u]
        /\ inFlight'[p] = t /\ \A q \in Peer \ {p} : inFlight'[q] = inFlight[q]
    BY <1>2 DEF Begin, TypeOK
  <2>2. task'[t].phase = "waiting" /\ task'[t].peer = p /\ task'[t].conn = conn[p] /\ conn[p] \in Conn
    BY <2>1 DEF TypeOK
  <2>3. \A u \in Task : task[u].phase # "free" /\ task[u].peer = p => task[u].conn # conn[p]
    BY <1>2, SchedulerAssumption DEF FlightPart, Busy
  <2> HIDE DEF new
  <2>4. \A u \in Task : Busy(u)' => task'[u].peer \in Peer /\ task'[u].conn <= conn'[task'[u].peer]
    <3> SUFFICES ASSUME NEW u \in Task, task'[u].phase # "free"
                 PROVE  task'[u].peer \in Peer /\ task'[u].conn <= conn'[task'[u].peer]
      BY DEF Busy
    <3>1. CASE u = t
      BY <2>2, <3>1 DEF Conn
    <3>2. CASE u # t
      BY <2>1, <3>2 DEF FlightPart, Busy
    <3> QED
      BY <3>1, <3>2
  <2>5. \A u \in Task : Busy(u)' /\ task'[u].conn = conn'[task'[u].peer] => inFlight'[task'[u].peer] = u
    BY <2>1, <2>2, <2>3 DEF FlightPart, Busy
  <2>6. InFlightIsRunning'
    <3> SUFFICES ASSUME NEW q \in Peer, inFlight'[q] # None
                 PROVE  /\ task'[inFlight'[q]].phase # "free"
                        /\ task'[inFlight'[q]].peer = q /\ task'[inFlight'[q]].conn = conn'[q]
      BY DEF InFlightIsRunning
    <3>1. CASE q = p
      BY <2>1, <2>2, <3>1
    <3>2. CASE q # p
      <4>1. inFlight'[q] = inFlight[q] /\ inFlight[q] \in Task
        BY <2>1, <3>2 DEF TypeOK
      <4>2. /\ task[inFlight[q]].phase # "free"
            /\ task[inFlight[q]].peer = q /\ task[inFlight[q]].conn = conn[q]
        BY <4>1 DEF FlightPart, InFlightIsRunning
      <4>3. inFlight[q] # t
        BY <2>1, <4>2
      <4> QED
        BY <2>1, <4>1, <4>2, <4>3
    <3> QED
      BY <3>1, <3>2
  <2>7. SingleFlight'
    <3> SUFFICES ASSUME NEW u \in Task, NEW v \in Task, u # v, task'[u].phase # "free",
                        task'[v].phase # "free", task'[u].peer = task'[v].peer
                 PROVE  task'[u].conn # task'[v].conn
      BY DEF SingleFlight
    <3>1. CASE u = t
      BY <2>1, <2>2, <2>3, <3>1
    <3>2. CASE v = t
      BY <2>1, <2>2, <2>3, <3>2
    <3>3. CASE u # t /\ v # t
      BY <2>1, <3>3 DEF FlightPart, SingleFlight
    <3> QED
      BY <3>1, <3>2, <3>3
  <2> QED
    BY <2>4, <2>5, <2>6, <2>7 DEF FlightPart
<1> QED
  BY <1>1, <1>2 DEF requestMessageSync

\* The task that ends takes only its own entry with it.
LEMMA FlightEnd ==
    ASSUME TypeOK, FlightPart, NEW t \in Task, End(t)
    PROVE  FlightPart'
<1>1. /\ task'[t].phase = "free"
      /\ \A u \in Task \ {t} : /\ task'[u].phase = task[u].phase
                               /\ task'[u].peer = task[u].peer /\ task'[u].conn = task[u].conn
  BY DEF End, Settled, Free, TypeOK, TaskRecord
<1>2. /\ task[t].phase # "free" /\ conn' = conn
      /\ \A p \in Peer : inFlight'[p] = IF p = task[t].peer /\ inFlight[p] = t THEN None ELSE inFlight[p]
  BY DEF End
<1>3. \A u \in Task : Busy(u)' => u # t /\ Busy(u)
  BY <1>1 DEF Busy
<1>4. InFlightIsRunning'
  <2> SUFFICES ASSUME NEW q \in Peer, inFlight'[q] # None
               PROVE  /\ task'[inFlight'[q]].phase # "free"
                      /\ task'[inFlight'[q]].peer = q /\ task'[inFlight'[q]].conn = conn'[q]
    BY DEF InFlightIsRunning
  <2>1. inFlight'[q] = inFlight[q] /\ inFlight[q] \in Task
    BY <1>2 DEF TypeOK
  <2>2. /\ task[inFlight[q]].phase # "free"
        /\ task[inFlight[q]].peer = q /\ task[inFlight[q]].conn = conn[q]
    BY <2>1 DEF FlightPart, InFlightIsRunning
  <2>3. inFlight[q] # t
    BY <1>2, <2>1, <2>2
  <2> QED
    BY <1>1, <1>2, <2>1, <2>2, <2>3
<1>5. SingleFlight'
  <2> SUFFICES ASSUME NEW u \in Task, NEW v \in Task, u # v, task'[u].phase # "free",
                      task'[v].phase # "free", task'[u].peer = task'[v].peer
               PROVE  task'[u].conn # task'[v].conn
    BY DEF SingleFlight
  <2>1. u # t /\ v # t
    BY <1>1
  <2> QED
    BY <1>1, <2>1 DEF FlightPart, SingleFlight
<1>6. \A u \in Task : Busy(u)' /\ task'[u].conn = conn'[task'[u].peer] => inFlight'[task'[u].peer] = u
  BY <1>1, <1>2, <1>3 DEF FlightPart
<1>7. \A u \in Task : Busy(u)' => task'[u].peer \in Peer /\ task'[u].conn <= conn'[task'[u].peer]
  BY <1>1, <1>2, <1>3 DEF FlightPart
<1> QED
  BY <1>4, <1>5, <1>6, <1>7 DEF FlightPart

\* After a disconnect the tasks of the connection are of an earlier one.
LEMMA FlightDisconnect ==
    ASSUME TypeOK, FlightPart, NEW p \in Peer, Disconnect(p),
           \A u \in Task : /\ task'[u].phase = "free" <=> task[u].phase = "free"
                           /\ task'[u].peer = task[u].peer /\ task'[u].conn = task[u].conn
    PROVE  FlightPart'
<1>1. /\ conn'[p] = conn[p] + 1 /\ inFlight'[p] = None /\ conn[p] \in Nat
      /\ \A q \in Peer \ {p} : conn'[q] = conn[q] /\ inFlight'[q] = inFlight[q]
  BY SchedulerAssumption DEF Disconnect, TypeOK, Conn
<1>2. \A u \in Task : task[u].conn \in Nat
  BY SchedulerAssumption DEF TypeOK, TaskRecord, Conn
<1>3. \A q \in Peer : conn[q] \in Nat
  BY SchedulerAssumption DEF TypeOK, Conn
<1>4. SingleFlight'
  BY DEF FlightPart, SingleFlight
<1>5. InFlightIsRunning'
  <2> SUFFICES ASSUME NEW q \in Peer, inFlight'[q] # None
               PROVE  /\ task'[inFlight'[q]].phase # "free"
                      /\ task'[inFlight'[q]].peer = q /\ task'[inFlight'[q]].conn = conn'[q]
    BY DEF InFlightIsRunning
  <2>1. q # p /\ inFlight'[q] = inFlight[q] /\ inFlight[q] \in Task /\ conn'[q] = conn[q]
    BY <1>1 DEF TypeOK
  <2>2. /\ task[inFlight[q]].phase # "free"
        /\ task[inFlight[q]].peer = q /\ task[inFlight[q]].conn = conn[q]
    BY <2>1 DEF FlightPart, InFlightIsRunning
  <2> QED
    BY <2>1, <2>2
<1>6. ASSUME NEW u \in Task, task[u].phase # "free"
      PROVE  /\ task[u].peer \in Peer /\ task[u].conn <= conn'[task[u].peer]
             /\ task[u].conn = conn'[task[u].peer] => inFlight'[task[u].peer] = u
  <2>1. task[u].peer \in Peer /\ task[u].conn <= conn[task[u].peer]
    BY <1>6 DEF FlightPart, Busy
  <2>2. CASE task[u].peer = p
    BY <1>1, <1>2, <2>1, <2>2
  <2>3. CASE task[u].peer # p
    BY <1>1, <1>6, <2>1, <2>3 DEF FlightPart, Busy
  <2> QED
    BY <2>2, <2>3
<1>7. \A u \in Task : Busy(u)' => task'[u].peer \in Peer /\ task'[u].conn <= conn'[task'[u].peer]
  BY <1>6 DEF Busy
<1>8. \A u \in Task : Busy(u)' /\ task'[u].conn = conn'[task'[u].peer] => inFlight'[task'[u].peer] = u
  BY <1>6 DEF Busy
<1> QED
  BY <1>4, <1>5, <1>7, <1>8 DEF FlightPart

-----------------------------------------------------------------------------
(* The lock.                                                               *)

\* Steps of a running task keep the second part.
LEMMA LockKept ==
    ASSUME TypeOK, LockPart, lock' = lock,
           \A u \in Task : /\ task'[u].waits = task[u].waits
                           /\ task[u].phase \in Running => task'[u].phase \in Running
    PROVE  LockPart'
<1>1. ASSUME NEW u \in Task, task'[u].waits # None PROVE task'[task'[u].waits].phase \in Running
  <2>1. task[u].waits \in Task /\ task'[u].waits = task[u].waits
    BY <1>1 DEF TypeOK, TaskRecord
  <2> QED
    BY <1>1, <2>1 DEF LockPart, WaitsForHolder
<1>2. lock' # None => task'[lock'].phase \in Running
  BY DEF LockPart, TypeOK
<1> QED
  BY <1>1, <1>2 DEF LockPart, WaitsForHolder

\* A new task waits for the holder of the lock.
LEMMA LockRequest ==
    ASSUME TypeOK, LockPart, NEW p \in Peer, NEW n, requestMessageSync(p, n), lock' = lock
    PROVE  LockPart'
<1>1. CASE UNCHANGED task
  BY <1>1, LockKept
<1>2. ASSUME NEW t \in Task, Begin(p, t) PROVE LockPart'
  <2>1. /\ task[t].phase = "free" /\ task'[t].waits = lock
        /\ \A u \in Task \ {t} : task'[u] = task[u]
    BY <1>2 DEF Begin, TypeOK
  <2>2. ASSUME NEW u \in Task, task[u].phase \in Running PROVE task'[u].phase \in Running
    BY <2>1, <2>2 DEF Running
  <2>3. lock' # None => task'[lock'].phase \in Running
    BY <2>2 DEF LockPart, TypeOK
  <2>4. ASSUME NEW u \in Task, task'[u].waits # None PROVE task'[task'[u].waits].phase \in Running
    <3>1. CASE u = t
      BY <2>1, <2>3, <2>4, <3>1
    <3>2. CASE u # t
      <4>1. task'[u].waits = task[u].waits /\ task[u].waits \in Task
        BY <2>1, <2>4, <3>2 DEF TypeOK, TaskRecord
      <4> QED
        BY <2>2, <2>4, <4>1 DEF LockPart, WaitsForHolder
    <3> QED
      BY <3>1, <3>2
  <2> QED
    BY <2>3, <2>4 DEF LockPart, WaitsForHolder
<1> QED
  BY <1>1, <1>2 DEF requestMessageSync

\* The task that ends releases the lock, if it is still its own, and its waiters.
LEMMA LockEnd ==
    ASSUME TypeOK, LockPart, NEW t \in Task, End(t)
    PROVE  LockPart'
<1>1. /\ task'[t].waits = None
      /\ \A u \in Task \ {t} : /\ task'[u].phase = task[u].phase
                               /\ task'[u].waits = IF task[u].waits = t THEN None ELSE task[u].waits
  BY DEF End, Settled, Free, TypeOK, TaskRecord
<1>2. lock' # None => task'[lock'].phase \in Running
  BY <1>1 DEF End, LockPart, TypeOK
<1>3. ASSUME NEW u \in Task, task'[u].waits # None PROVE task'[task'[u].waits].phase \in Running
  <2>1. u # t /\ task'[u].waits = task[u].waits /\ task[u].waits # t /\ task[u].waits \in Task
    BY <1>1, <1>3 DEF TypeOK, TaskRecord
  <2> QED
    BY <1>1, <1>3, <2>1 DEF LockPart, WaitsForHolder
<1> QED
  BY <1>2, <1>3 DEF LockPart, WaitsForHolder

-----------------------------------------------------------------------------
(* The queued answers.                                                     *)

\* What Head and Tail are in terms of the entries of a queue.
LEMMA TailEntries ==
    ASSUME NEW q \in Seq(Message), q # <<>>
    PROVE  /\ 1 \in DOMAIN q /\ Head(q) = q[1]
           /\ \A i \in DOMAIN Tail(q) : i + 1 \in DOMAIN q /\ i + 1 # 1 /\ Tail(q)[i] = q[i + 1]
           /\ \A i, j \in DOMAIN Tail(q) : i + 1 = j + 1 => i = j
OBVIOUS

\* What Append does to the entries of a queue.
LEMMA AppendEntries ==
    ASSUME NEW q \in Seq(Message), NEW m \in Message
    PROVE  \A i \in DOMAIN Append(q, m) :
             \/ i \in DOMAIN q /\ Append(q, m)[i] = q[i]
             \/ i = Len(q) + 1 /\ Append(q, m)[i] = m
OBVIOUS

\* An entry names a task or nothing.
LEMMA EntryIsTask ==
    ASSUME TypeOK, NEW p \in Peer, NEW c \in Conn, NEW i \in DOMAIN queue[p][c]
    PROVE  queue[p][c][i].task \in Task \cup {None}
<1>1. queue[p][c] \in Seq(Message)
  BY DEF TypeOK
<1>2. queue[p][c][i] \in Message
  BY <1>1
<1> DEFINE m == queue[p][c][i]
<1> HIDE DEF m
<1>3. m \in Message => m.task \in Task \cup {None}
  BY DEF Message, Diff, State, Late, Answer, Rejection
<1> QED
  BY <1>2, <1>3 DEF m

\* A task may change as it likes when no answer for it is queued.
LEMMA QueueSame ==
    ASSUME TypeOK, QueuePart, queue' = queue,
           \A u \in Task :
             \/ task'[u].phase = task[u].phase /\ task'[u].query = task[u].query
             \/ task[u].query # "answered" /\ (task'[u].query # "none" => task'[u].phase \in {"asking", "again"})
    PROVE  QueuePart'
<1>1. \A u \in Task : task'[u].query # "none" => task'[u].phase \in {"asking", "again"}
  BY DEF QueuePart, Pending
<1>2. ASSUME NEW p \in Peer, NEW c \in Conn, NEW i \in DOMAIN queue[p][c], queue[p][c][i].task # None
      PROVE  task'[queue[p][c][i].task].phase \in {"asking", "again"} /\ task'[queue[p][c][i].task].query = "answered"
  <2>1. queue[p][c][i].task \in Task
    BY <1>2, EntryIsTask
  <2>2. Pending(queue[p][c][i].task) /\ task[queue[p][c][i].task].query = "answered"
    BY <1>2 DEF QueuePart, AnswerIsPending, Pending
  <2> QED
    BY <2>1, <2>2 DEF Pending
<1> QED
  BY <1>1, <1>2 DEF QueuePart, AnswerIsPending, AnswerOnce, Pending

\* The task whose answer leaves the queue may change too.
LEMMA QueueTail ==
    ASSUME TypeOK, QueuePart, NEW p \in Peer, NEW c \in Conn, queue[p][c] # <<>>,
           queue' = [queue EXCEPT ![p][c] = Tail(@)],
           \A u \in Task :
             \/ task'[u].phase = task[u].phase /\ task'[u].query = task[u].query
             \/ /\ task[u].query # "answered" \/ u = Head(queue[p][c]).task
                /\ task'[u].query # "none" => task'[u].phase \in {"asking", "again"}
    PROVE  QueuePart'
<1> DEFINE src(q, d, i) == IF q = p /\ d = c THEN i + 1 ELSE i
<1>1. queue[p][c] \in Seq(Message)
  BY DEF TypeOK
<1>2. ASSUME NEW q \in Peer, NEW d \in Conn, NEW i \in DOMAIN queue'[q][d]
      PROVE  /\ src(q, d, i) \in DOMAIN queue[q][d]
             /\ queue'[q][d][i] = queue[q][d][src(q, d, i)]
             /\ ~ (q = p /\ d = c /\ src(q, d, i) = 1)
  <2>1. CASE q = p /\ d = c
    <3>1. queue'[q][d] = Tail(queue[p][c])
      BY <2>1 DEF TypeOK
    <3>2. i \in DOMAIN Tail(queue[p][c])
      BY <1>2, <3>1
    <3>3. i + 1 \in DOMAIN queue[p][c] /\ i + 1 # 1 /\ Tail(queue[p][c])[i] = queue[p][c][i + 1]
      BY <1>1, <3>2, TailEntries
    <3>4. src(q, d, i) = i + 1
      BY <2>1
    <3> QED
      BY <2>1, <3>1, <3>3, <3>4
  <2>2. CASE ~ (q = p /\ d = c)
    <3>1. queue'[q][d] = queue[q][d]
      BY <2>2 DEF TypeOK
    <3> QED
      BY <1>2, <2>2, <3>1
  <2> QED
    BY <2>1, <2>2
<1>3. ASSUME NEW q \in Peer, NEW d \in Conn, NEW i \in DOMAIN queue'[q][d], NEW j \in DOMAIN queue'[q][d],
             src(q, d, i) = src(q, d, j)
      PROVE  i = j
  <2>1. CASE q = p /\ d = c
    <3>1. queue'[q][d] = Tail(queue[p][c])
      BY <2>1 DEF TypeOK
    <3> QED
      BY <1>1, <1>3, <2>1, <3>1, TailEntries
  <2> QED
    BY <1>3, <2>1
<1>4. 1 \in DOMAIN queue[p][c] /\ Head(queue[p][c]) = queue[p][c][1]
  BY <1>1, TailEntries
<1> HIDE DEF src
<1>5. \A u \in Task : task'[u].query # "none" => task'[u].phase \in {"asking", "again"}
  BY DEF QueuePart, Pending
<1>6. ASSUME NEW q \in Peer, NEW d \in Conn, NEW i \in DOMAIN queue'[q][d], queue'[q][d][i].task # None
      PROVE  task'[queue'[q][d][i].task].phase \in {"asking", "again"} /\ task'[queue'[q][d][i].task].query = "answered"
  <2> DEFINE k == src(q, d, i)
             u == queue[q][d][k].task
  <2>1. k \in DOMAIN queue[q][d] /\ queue'[q][d][i].task = u /\ ~ (q = p /\ d = c /\ k = 1) /\ u # None
    BY <1>2, <1>6
  <2>2. u \in Task
    BY <2>1, EntryIsTask
  <2>3. Pending(u) /\ task[u].query = "answered"
    BY <2>1 DEF QueuePart, AnswerIsPending, Pending
  <2>4. u # Head(queue[p][c]).task
    BY <1>4, <2>1 DEF QueuePart, AnswerOnce
  <2> HIDE DEF k, u
  <2>5. task'[u].phase \in {"asking", "again"} /\ task'[u].query = "answered"
    BY <2>2, <2>3, <2>4 DEF Pending
  <2> QED
    BY <2>1, <2>5
<1>7. ASSUME NEW q \in Peer, NEW r \in Peer, NEW d \in Conn, NEW e \in Conn,
             NEW i \in DOMAIN queue'[q][d], NEW j \in DOMAIN queue'[r][e],
             queue'[q][d][i].task # None, queue'[q][d][i].task = queue'[r][e][j].task
      PROVE  q = r /\ d = e /\ i = j
  <2>1. /\ src(q, d, i) \in DOMAIN queue[q][d] /\ src(r, e, j) \in DOMAIN queue[r][e]
        /\ queue'[q][d][i].task = queue[q][d][src(q, d, i)].task
        /\ queue'[r][e][j].task = queue[r][e][src(r, e, j)].task
    BY <1>2
  <2>2. q = r /\ d = e /\ src(q, d, i) = src(r, e, j)
    BY <1>7, <2>1 DEF QueuePart, AnswerOnce
  <2> QED
    BY <1>3, <2>2
<1> QED
  BY <1>5, <1>6, <1>7 DEF QueuePart, AnswerIsPending, AnswerOnce, Pending

\* A message that arrives is an answer only to a query that is still unanswered.
LEMMA QueueAppend ==
    ASSUME TypeOK, QueuePart, NEW p \in Peer, NEW c \in Conn, NEW m \in Message,
           queue' = [queue EXCEPT ![p][c] = Append(@, m)],
           m.task # None => m.task \in Task /\ task[m.task].query = "sent",
           \A u \in Task : /\ task'[u].phase = task[u].phase
                           /\ task'[u].query = (IF u = m.task THEN "answered" ELSE task[u].query)
    PROVE  QueuePart'
<1> DEFINE new(q, d, i) == q = p /\ d = c /\ i = Len(queue[p][c]) + 1
<1>1. queue[p][c] \in Seq(Message)
  BY DEF TypeOK
<1>2. ASSUME NEW q \in Peer, NEW d \in Conn, NEW i \in DOMAIN queue'[q][d]
      PROVE  \/ i \in DOMAIN queue[q][d] /\ queue'[q][d][i] = queue[q][d][i]
             \/ new(q, d, i) /\ queue'[q][d][i] = m
  <2>1. CASE q = p /\ d = c
    <3>1. queue'[q][d] = Append(queue[p][c], m)
      BY <2>1 DEF TypeOK
    <3> QED
      BY <1>1, <1>2, <2>1, <3>1, AppendEntries
  <2>2. CASE ~ (q = p /\ d = c)
    <3>1. queue'[q][d] = queue[q][d]
      BY <2>2 DEF TypeOK
    <3> QED
      BY <1>2, <3>1
  <2> QED
    BY <2>1, <2>2
<1>3. ASSUME NEW q \in Peer, NEW d \in Conn, NEW i \in DOMAIN queue[q][d], queue[q][d][i].task # None
      PROVE  /\ queue[q][d][i].task \in Task /\ queue[q][d][i].task # m.task
             /\ Pending(queue[q][d][i].task) /\ task[queue[q][d][i].task].query = "answered"
  <2>1. queue[q][d][i].task \in Task
    BY <1>3, EntryIsTask
  <2>2. Pending(queue[q][d][i].task) /\ task[queue[q][d][i].task].query = "answered"
    BY <1>3 DEF QueuePart, AnswerIsPending, Pending
  <2> QED
    BY <1>3, <2>1, <2>2
<1> HIDE DEF new
<1>4. \A u \in Task : task'[u].query # "none" => task'[u].phase \in {"asking", "again"}
  <2> SUFFICES ASSUME NEW u \in Task, task'[u].query # "none"
               PROVE  task[u].phase \in {"asking", "again"}
    OBVIOUS
  <2>1. task[u].query # "none"
    <3>1. CASE u = m.task
      <4>1. m.task # None
        BY <3>1, SchedulerAssumption
      <4> QED
        BY <3>1, <4>1
    <3>2. CASE u # m.task
      BY <3>2
    <3> QED
      BY <3>1, <3>2
  <2> QED
    BY <2>1 DEF QueuePart, Pending
<1>5. m.task # None => task'[m.task].phase \in {"asking", "again"} /\ task'[m.task].query = "answered"
  BY DEF QueuePart, Pending
<1>6. ASSUME NEW q \in Peer, NEW d \in Conn, NEW i \in DOMAIN queue'[q][d], queue'[q][d][i].task # None
      PROVE  task'[queue'[q][d][i].task].phase \in {"asking", "again"} /\ task'[queue'[q][d][i].task].query = "answered"
  <2>1. CASE i \in DOMAIN queue[q][d] /\ queue'[q][d][i] = queue[q][d][i]
    <3> DEFINE u == queue[q][d][i].task
    <3>1. u \in Task /\ u # m.task /\ Pending(u) /\ task[u].query = "answered"
      BY <1>3, <1>6, <2>1
    <3>2. queue'[q][d][i].task = u
      BY <2>1
    <3> HIDE DEF u
    <3> QED
      BY <3>1, <3>2 DEF Pending
  <2>2. CASE queue'[q][d][i] = m
    BY <1>5, <1>6, <2>2
  <2> QED
    BY <1>2, <2>1, <2>2
<1>7. ASSUME NEW q \in Peer, NEW r \in Peer, NEW d \in Conn, NEW e \in Conn,
             NEW i \in DOMAIN queue'[q][d], NEW j \in DOMAIN queue'[r][e],
             queue'[q][d][i].task # None, queue'[q][d][i].task = queue'[r][e][j].task
      PROVE  q = r /\ d = e /\ i = j
  <2>1. CASE /\ i \in DOMAIN queue[q][d] /\ queue'[q][d][i] = queue[q][d][i]
             /\ j \in DOMAIN queue[r][e] /\ queue'[r][e][j] = queue[r][e][j]
    BY <1>7, <2>1 DEF QueuePart, AnswerOnce
  <2>2. CASE new(q, d, i) /\ new(r, e, j)
    BY <2>2 DEF new
  <2>3. CASE i \in DOMAIN queue[q][d] /\ queue'[q][d][i] = queue[q][d][i] /\ queue'[r][e][j] = m
    BY <1>3, <1>7, <2>3
  <2>4. CASE queue'[q][d][i] = m /\ j \in DOMAIN queue[r][e] /\ queue'[r][e][j] = queue[r][e][j]
    BY <1>3, <1>7, <2>4
  <2> QED
    BY <1>2, <2>1, <2>2, <2>3, <2>4
<1>8. AnswerIsPending'
  BY <1>6 DEF AnswerIsPending
<1>9. AnswerOnce'
  BY <1>7 DEF AnswerOnce
<1> QED
  BY <1>4, <1>8, <1>9 DEF QueuePart, Pending

\* No answer stays queued for a task whose query is no longer pending.
LEMMA QueueWithdrawn ==
    ASSUME TypeOK, QueuePart, NEW ts, queue' = Withdrawn(ts),
           \A u \in Task : IF u \in ts THEN task'[u].query = "none" ELSE task'[u] = task[u]
    PROVE  QueuePart'
<1>1. ASSUME NEW q \in Peer, NEW d \in Conn, NEW i \in DOMAIN queue'[q][d], queue'[q][d][i].task # None
      PROVE  /\ i \in DOMAIN queue[q][d] /\ queue'[q][d][i] = queue[q][d][i]
             /\ queue[q][d][i].task \in Task \ ts
  <2>1. queue'[q][d] = [k \in DOMAIN queue[q][d] |->
                          IF queue[q][d][k].task \in ts THEN Late ELSE queue[q][d][k]]
    BY DEF Withdrawn
  <2>2. i \in DOMAIN queue[q][d]
    BY <2>1
  <2>3. queue'[q][d][i] = IF queue[q][d][i].task \in ts THEN Late ELSE queue[q][d][i]
    BY <2>1, <2>2
  <2>4. queue[q][d][i].task \notin ts /\ queue'[q][d][i] = queue[q][d][i]
    BY <1>1, <2>3 DEF Late
  <2> QED
    BY <1>1, <2>2, <2>4, EntryIsTask
<1>2. \A u \in Task : task'[u].query # "none" => task'[u].phase \in {"asking", "again"}
  BY DEF QueuePart, Pending
<1>3. AnswerIsPending'
  <2> SUFFICES ASSUME NEW q \in Peer, NEW d \in Conn, NEW i \in DOMAIN queue'[q][d], queue'[q][d][i].task # None
               PROVE  /\ task'[queue'[q][d][i].task].phase \in {"asking", "again"}
                      /\ task'[queue'[q][d][i].task].query = "answered"
    BY DEF AnswerIsPending
  <2>1. /\ i \in DOMAIN queue[q][d] /\ queue'[q][d][i] = queue[q][d][i]
        /\ queue[q][d][i].task \in Task \ ts /\ queue[q][d][i].task # None
    BY <1>1
  <2>2. /\ task[queue[q][d][i].task].phase \in {"asking", "again"}
        /\ task[queue[q][d][i].task].query = "answered"
    BY <2>1 DEF QueuePart, AnswerIsPending
  <2> QED
    BY <2>1, <2>2
<1>4. AnswerOnce'
  <2> SUFFICES ASSUME NEW q \in Peer, NEW r \in Peer, NEW d \in Conn, NEW e \in Conn,
                      NEW i \in DOMAIN queue'[q][d], NEW j \in DOMAIN queue'[r][e],
                      queue'[q][d][i].task # None, queue'[q][d][i].task = queue'[r][e][j].task
               PROVE  q = r /\ d = e /\ i = j
    BY DEF AnswerOnce
  <2>1. /\ i \in DOMAIN queue[q][d] /\ queue'[q][d][i] = queue[q][d][i]
        /\ j \in DOMAIN queue[r][e] /\ queue'[r][e][j] = queue[r][e][j]
    BY <1>1
  <2> QED
    BY <2>1 DEF QueuePart, AnswerOnce
<1> QED
  BY <1>2, <1>3, <1>4 DEF QueuePart, Pending

-----------------------------------------------------------------------------
(* The induction.                                                          *)

\* The fields that the steps of a running task leave alone, and the ones they set.
StillRuns(new, r) ==
    /\ new.peer = r.peer /\ new.conn = r.conn /\ new.waits = r.waits
    /\ new.phase \in Running
    /\ new.query # "none" => new.phase \in {"asking", "again"}

\* The steps of a running task, and the first query, give a running task.
LEMMA StepStillRuns ==
    ASSUME NEW r \in TaskRecord
    PROVE  /\ StillRuns(Ending(r), r)
           /\ r.phase \in {"asking", "again"} => StillRuns(Answered(r), r) /\ StillRuns(Rejected(r), r)
           /\ r.phase \in {"asking", "again"} => StillRuns([r EXCEPT !.query = "sent"], r)
           /\ \A n \in 0..MaxQueries, ph \in {"asking", "again"} : StillRuns(Asking(r, ph, n), r)
<1>1. StillRuns(Ending(r), r)
  BY DEF StillRuns, Ending, TaskRecord, Running
<1>2. r.phase \in {"asking", "again"} => StillRuns(Answered(r), r)
  BY <1>1 DEF StillRuns, Answered, TaskRecord, Running
<1>3. r.phase \in {"asking", "again"} => StillRuns(Rejected(r), r)
  BY <1>1 DEF StillRuns, Rejected, Ending, TaskRecord, Running
<1>4. ASSUME NEW n \in 0..MaxQueries, NEW ph \in {"asking", "again"} PROVE StillRuns(Asking(r, ph, n), r)
  BY <1>1 DEF StillRuns, Asking, TaskRecord, Running
<1>5. r.phase \in {"asking", "again"} => StillRuns([r EXCEPT !.query = "sent"], r)
  BY DEF StillRuns, TaskRecord, Running
<1> QED
  BY <1>1, <1>2, <1>3, <1>4, <1>5

\* A task that still runs keeps the first two parts.
LEMMA RunsOn ==
    ASSUME TypeOK, FlightPart, LockPart, NEW t \in Task, NEW new, StillRuns(new, task[t]), task[t].phase # "free",
           task' = [task EXCEPT ![t] = new], UNCHANGED <<conn, inFlight, lock>>
    PROVE  FlightPart' /\ LockPart'
<1>1. task'[t] = new /\ \A u \in Task \ {t} : task'[u] = task[u]
  BY DEF TypeOK
<1>2. ASSUME NEW u \in Task
      PROVE  /\ task'[u].phase = "free" <=> task[u].phase = "free"
             /\ task'[u].peer = task[u].peer /\ task'[u].conn = task[u].conn /\ task'[u].waits = task[u].waits
             /\ task[u].phase \in Running => task'[u].phase \in Running
  <2>1. CASE u = t
    BY <1>1, <2>1 DEF StillRuns, Running
  <2>2. CASE u # t
    BY <1>1, <2>2
  <2> QED
    BY <2>1, <2>2
<1>3. FlightPart'
  BY <1>2, FlightKept
<1>4. LockPart'
  BY <1>2, LockKept
<1> QED
  BY <1>3, <1>4

\* A request does not touch a task that awaits an answer.
LEMMA RequestAsksNothing ==
    ASSUME TypeOK, QueuePart, NEW p \in Peer, NEW n, requestMessageSync(p, n)
    PROVE  \A u \in Task :
             \/ task'[u].phase = task[u].phase /\ task'[u].query = task[u].query
             \/ task[u].query # "answered" /\ task'[u].query = "none"
<1>1. ASSUME NEW t \in Task, Begin(p, t), NEW u \in Task
      PROVE  \/ task'[u].phase = task[u].phase /\ task'[u].query = task[u].query
             \/ task[u].query # "answered" /\ task'[u].query = "none"
  <2>1. CASE u = t
    BY <1>1, <2>1 DEF Begin, QueuePart, Pending, TypeOK
  <2>2. CASE u # t
    BY <1>1, <2>2 DEF Begin, TypeOK
  <2> QED
    BY <2>1, <2>2
<1> QED
  BY <1>1 DEF requestMessageSync

\* A task for which no answer is queued may send a query or end.
LEMMA WakesUp ==
    ASSUME SyncInv, NEW t \in Task, NEW new, StillRuns(new, task[t]),
           task[t].phase # "free", task[t].query # "answered",
           task' = [task EXCEPT ![t] = new], UNCHANGED <<conn, inFlight, lock>>, queue' = queue
    PROVE  FlightPart' /\ LockPart' /\ QueuePart'
<1>0. TypeOK /\ FlightPart /\ LockPart /\ QueuePart
  BY DEF SyncInv
<1>1. FlightPart' /\ LockPart'
  BY <1>0, RunsOn
<1>2. task'[t] = new /\ \A u \in Task \ {t} : task'[u] = task[u]
  BY <1>0 DEF TypeOK
<1>3. ASSUME NEW u \in Task
      PROVE  \/ task'[u].phase = task[u].phase /\ task'[u].query = task[u].query
             \/ task[u].query # "answered" /\ (task'[u].query # "none" => task'[u].phase \in {"asking", "again"})
  BY <1>2 DEF StillRuns, Pending
<1> QED
  BY <1>0, <1>1, <1>3, QueueSame

\* The three parts are inductive, given the types.
LEMMA SyncStep ==
    ASSUME SyncInv, [Next]_vars
    PROVE  FlightPart' /\ LockPart' /\ QueuePart'
<1> USE SchedulerAssumption
<1>0. TypeOK /\ FlightPart /\ LockPart /\ QueuePart
  BY DEF SyncInv
<1>a. ASSUME UNCHANGED <<conn, task, inFlight, lock>> PROVE FlightPart' /\ LockPart'
  BY <1>0, <1>a, FlightKept, LockKept
<1>b. ASSUME UNCHANGED <<task, queue>> PROVE QueuePart'
  BY <1>0, <1>b, QueueSame
<1>c. ASSUME NEW p \in Peer, NEW n, requestMessageSync(p, n), UNCHANGED <<conn, lock>>
      PROVE  FlightPart' /\ LockPart'
  BY <1>0, <1>c, FlightRequest, LockRequest
<1>d. ASSUME NEW p \in Peer, NEW n, requestMessageSync(p, n), queue' = queue PROVE QueuePart'
  BY <1>0, <1>d, RequestAsksNothing, QueueSame
<1>1. ASSUME NEW t \in Task, Acquire(t) PROVE FlightPart' /\ LockPart' /\ QueuePart'
  <2>1. PICK new : task' = [task EXCEPT ![t] = new] /\ StillRuns(new, task[t])
    <3>1. task[t] \in TaskRecord
      BY <1>0 DEF TypeOK
    <3>2. CASE task[t].peer \in Negentropic \cap ready
      BY <1>1, <3>1, <3>2, StepStillRuns DEF Acquire
    <3>3. CASE task[t].peer \notin Negentropic \cap ready
      <4>1. task' = [task EXCEPT ![t] = [task[t] EXCEPT !.phase = "grace"]]
        BY <1>1, <3>3 DEF Acquire
      <4>2. task[t].query = "none"
        BY <1>0, <1>1, <3>1 DEF Acquire, QueuePart, Pending, TaskRecord
      <4>3. StillRuns([task[t] EXCEPT !.phase = "grace"], task[t])
        BY <3>1, <4>2 DEF StillRuns, TaskRecord, Running
      <4> QED
        BY <4>1, <4>3
    <3> QED
      BY <3>2, <3>3
  <2>2. task'[t] = new /\ \A u \in Task \ {t} : task'[u] = task[u]
    BY <1>0, <2>1 DEF TypeOK
  <2>3. task[t].phase = "waiting" /\ task[t].waits = None /\ lock' = t /\ UNCHANGED <<conn, inFlight, queue>>
    BY <1>1 DEF Acquire
  <2>4. FlightPart'
    <3>1. ASSUME NEW u \in Task
          PROVE  /\ task'[u].phase = "free" <=> task[u].phase = "free"
                 /\ task'[u].peer = task[u].peer /\ task'[u].conn = task[u].conn
      BY <2>1, <2>2, <2>3 DEF StillRuns, Running
    <3>2. UNCHANGED <<conn, inFlight>>
      BY <2>3
    <3> QED
      BY <1>0, <3>1, <3>2, FlightKept
  <2>5. LockPart'
    <3>1. ASSUME NEW u \in Task, task'[u].waits # None PROVE task'[task'[u].waits].phase \in Running
      <4>1. u # t /\ task'[u].waits = task[u].waits /\ task[u].waits \in Task
        BY <1>0, <2>1, <2>2, <2>3, <3>1 DEF StillRuns, TypeOK, TaskRecord
      <4>2. task[task[u].waits].phase \in Running
        BY <1>0, <3>1, <4>1 DEF LockPart, WaitsForHolder
      <4>3. task[u].waits # t
        BY <2>3, <4>2 DEF Running
      <4> QED
        BY <2>2, <4>1, <4>2, <4>3
    <3> QED
      BY <2>1, <2>2, <2>3, <3>1 DEF LockPart, WaitsForHolder, StillRuns
  <2>6. QueuePart'
    <3>1. ASSUME NEW u \in Task
          PROVE  \/ task'[u].phase = task[u].phase /\ task'[u].query = task[u].query
                 \/ task[u].query # "answered" /\ (task'[u].query # "none" => task'[u].phase \in {"asking", "again"})
      BY <1>0, <2>1, <2>2, <2>3 DEF StillRuns, QueuePart, Pending
    <3> QED
      BY <1>0, <2>3, <3>1, QueueSame
  <2> QED
    BY <2>4, <2>5, <2>6
<1>e. ASSUME NEW t \in Task, Ask(t) PROVE FlightPart' /\ LockPart' /\ QueuePart'
  <2>1. StillRuns([task[t] EXCEPT !.query = "sent"], task[t])
    BY <1>0, <1>e, StepStillRuns DEF Ask, TypeOK
  <2>2. /\ task[t].phase # "free" /\ task[t].query # "answered"
        /\ UNCHANGED <<conn, inFlight, lock>> /\ queue' = queue
    BY <1>e DEF Ask
  <2>3. task' = [task EXCEPT ![t] = [task[t] EXCEPT !.query = "sent"]]
    BY <1>e DEF Ask
  <2> QED
    BY <2>1, <2>2, <2>3, WakesUp
<1>2. ASSUME NEW t \in Task, QueryTimeout(t) PROVE FlightPart' /\ LockPart' /\ QueuePart'
  <2>1. StillRuns(Ending(task[t]), task[t])
    BY <1>0, StepStillRuns DEF TypeOK
  <2>2. /\ task' = [task EXCEPT ![t] = Ending(task[t])] /\ queue' = Withdrawn({t})
        /\ UNCHANGED <<conn, inFlight, lock>>
    BY <1>2 DEF QueryTimeout
  <2>3. task[t].phase # "free"
    BY <1>0, <1>2 DEF QueryTimeout, QueuePart, Pending
  <2>4. ASSUME NEW u \in Task
        PROVE  IF u \in {t} THEN task'[u].query = "none" ELSE task'[u] = task[u]
    BY <1>0, <2>2 DEF Ending, TypeOK, TaskRecord
  <2> QED
    BY <1>0, <2>1, <2>2, <2>3, <2>4, RunsOn, QueueWithdrawn
<1>3. ASSUME NEW t \in Task, RetryOnce(t) PROVE FlightPart' /\ LockPart' /\ QueuePart'
  <2>1. PICK n \in 0..MaxQueries : task' = [task EXCEPT ![t] = Asking(task[t], "again", n)]
    BY <1>3 DEF RetryOnce
  <2>2. StillRuns(Asking(task[t], "again", n), task[t])
    BY <1>0, StepStillRuns DEF TypeOK
  <2>3. /\ task[t].phase # "free" /\ task[t].query # "answered"
        /\ UNCHANGED <<conn, inFlight, lock>> /\ queue' = queue
    BY <1>0, <1>3 DEF RetryOnce, QueuePart, Pending
  <2> QED
    BY <2>1, <2>2, <2>3, WakesUp
<1>4. ASSUME NEW t \in Task, GraceOver(t) PROVE FlightPart' /\ LockPart' /\ QueuePart'
  <2>1. StillRuns(Ending(task[t]), task[t])
    BY <1>0, StepStillRuns DEF TypeOK
  <2>2. /\ task[t].phase # "free" /\ task[t].query # "answered"
        /\ UNCHANGED <<conn, inFlight, lock>> /\ queue' = queue
    BY <1>0, <1>4 DEF GraceOver, QueuePart, Pending
  <2>3. task' = [task EXCEPT ![t] = Ending(task[t])]
    BY <1>4 DEF GraceOver
  <2> QED
    BY <2>1, <2>2, <2>3, WakesUp
<1>5. ASSUME NEW t \in Task, End(t) PROVE FlightPart' /\ LockPart' /\ QueuePart'
  <2>1. ASSUME NEW u \in Task
        PROVE  \/ task'[u].phase = task[u].phase /\ task'[u].query = task[u].query
               \/ task[u].query # "answered" /\ (task'[u].query # "none" => task'[u].phase \in {"asking", "again"})
    <3>1. task[u] \in TaskRecord
      BY <1>0 DEF TypeOK
    <3>2. CASE u = t
      <4>1. task[t].query = "none"
        BY <1>0, <1>5 DEF End, QueuePart, Pending
      <4> QED
        BY <1>5, <3>2, <4>1 DEF End, Settled, Free
    <3>3. CASE u # t
      BY <1>5, <3>1, <3>3 DEF End, Settled, TaskRecord
    <3> QED
      BY <3>2, <3>3
  <2>2. queue' = queue
    BY <1>5 DEF End
  <2> QED
    BY <1>0, <1>5, <2>1, <2>2, FlightEnd, LockEnd, QueueSame
<1>6. ASSUME NEW t \in Task, NEW m \in {Answer(t), Rejection(t)}, PeerAnswers(t, m)
      PROVE  FlightPart' /\ LockPart' /\ QueuePart'
  <2>1. task[t].peer \in Peer /\ conn[task[t].peer] \in Conn /\ m \in Message /\ m.task = t
    BY <1>0, <1>6 DEF PeerAnswers, TypeOK, Message, Answer, Rejection
  <2>2. ASSUME NEW u \in Task
        PROVE  /\ task'[u].phase = task[u].phase /\ task'[u].query = (IF u = t THEN "answered" ELSE task[u].query)
               /\ task'[u].peer = task[u].peer /\ task'[u].conn = task[u].conn /\ task'[u].waits = task[u].waits
    <3>1. task[u] \in TaskRecord
      BY <1>0 DEF TypeOK
    <3>2. CASE u = t
      BY <1>0, <1>6, <3>1, <3>2 DEF PeerAnswers, TypeOK, TaskRecord
    <3>3. CASE u # t
      <4>1. task'[u] = task[u]
        BY <1>0, <1>6, <3>3 DEF PeerAnswers, TypeOK
      <4> QED
        BY <3>1, <3>3, <4>1 DEF TaskRecord
    <3> QED
      BY <3>2, <3>3
  <2>3. UNCHANGED <<conn, inFlight, lock>>
    BY <1>6 DEF PeerAnswers
  <2>4. FlightPart' /\ LockPart'
    BY <1>0, <2>2, <2>3, FlightKept, LockKept
  <2>5. queue' = [queue EXCEPT ![task[t].peer][conn[task[t].peer]] = Append(@, m)] /\ task[t].query = "sent"
    BY <1>6 DEF PeerAnswers
  <2>6. QueuePart'
    <3>1. \A u \in Task : /\ task'[u].phase = task[u].phase
                           /\ task'[u].query = (IF u = m.task THEN "answered" ELSE task[u].query)
      BY <2>1, <2>2
    <3>2. m.task # None => m.task \in Task /\ task[m.task].query = "sent"
      BY <2>1, <2>5
    <3> QED
      BY <1>0, <2>1, <2>5, <3>1, <3>2, QueueAppend
  <2> QED
    BY <2>4, <2>6
<1>7. ASSUME NEW p \in Peer, HeavySync(p) PROVE FlightPart' /\ LockPart' /\ QueuePart'
  BY <1>7, <1>a, <1>b, <1>c, <1>d DEF HeavySync
<1>8. ASSUME NEW p \in Peer, Maintenance(p) PROVE FlightPart' /\ LockPart' /\ QueuePart'
  BY <1>8, <1>c, <1>d DEF Maintenance
<1>9. ASSUME NEW p \in Peer, DeliveryWatch(p) PROVE FlightPart' /\ LockPart' /\ QueuePart'
  BY <1>9, <1>c, <1>d DEF DeliveryWatch
<1>10. ASSUME NEW p \in Peer, NEW m \in {Diff, State}, Arrives(p, m)
       PROVE  FlightPart' /\ LockPart' /\ QueuePart'
  <2>1. conn[p] \in Conn /\ m \in Message /\ m.task = None
    BY <1>0, <1>10 DEF TypeOK, Message, Diff, State
  <2>2. queue' = [queue EXCEPT ![p][conn[p]] = Append(@, m)] /\ UNCHANGED <<conn, task, inFlight, lock>>
    BY <1>10 DEF Arrives
  <2>3. \A u \in Task : task'[u].phase = task[u].phase /\ task'[u].query = (IF u = m.task THEN "answered" ELSE task[u].query)
    BY <1>0, <2>1, <2>2 DEF TypeOK, TaskRecord
  <2>4. QueuePart'
    BY <1>0, <2>1, <2>2, <2>3, QueueAppend
  <2> QED
    BY <1>a, <2>2, <2>4
<1>f. ASSUME NEW p \in Peer, NEW c \in Conn, NEW kinds, Handles(p, c, kinds),
             UNCHANGED task \/ \E n : requestMessageSync(p, n)
      PROVE  QueuePart'
  <2>1. queue[p][c] # <<>> /\ queue' = [queue EXCEPT ![p][c] = Tail(@)]
    BY <1>f DEF Handles
  <2>2. ASSUME NEW u \in Task
        PROVE  \/ task'[u].phase = task[u].phase /\ task'[u].query = task[u].query
               \/ task[u].query # "answered" /\ task'[u].query = "none"
    BY <1>0, <1>f, RequestAsksNothing
  <2> QED
    BY <1>0, <2>1, <2>2, QueueTail
<1>11. ASSUME NEW p \in Peer, NEW c \in Conn, HandleDiff(p, c) PROVE FlightPart' /\ LockPart' /\ QueuePart'
  BY <1>11, <1>c, <1>f DEF HandleDiff
<1>12. ASSUME NEW p \in Peer, NEW c \in Conn, HandleState(p, c) PROVE FlightPart' /\ LockPart' /\ QueuePart'
  BY <1>12, <1>c, <1>f DEF HandleState
<1>g. ASSUME NEW p \in Peer, NEW c \in Conn, NEW new, Handles(p, c, {"answer", "rejection"}),
             task' = [task EXCEPT ![Head(queue[p][c]).task] = new],
             new \in {Answered(task[Head(queue[p][c]).task]), Rejected(task[Head(queue[p][c]).task])},
             UNCHANGED <<conn, inFlight, lock>>
      PROVE  FlightPart' /\ LockPart' /\ QueuePart'
  <2> DEFINE t == Head(queue[p][c]).task
  <2>1. /\ queue[p][c] # <<>> /\ queue' = [queue EXCEPT ![p][c] = Tail(@)]
        /\ Head(queue[p][c]).kind \in {"answer", "rejection"} /\ queue[p][c] \in Seq(Message)
    BY <1>0, <1>g DEF Handles, TypeOK
  <2>2. t \in Task
    BY <2>1, HeadIsMessage
  <2>3. 1 \in DOMAIN queue[p][c] /\ Head(queue[p][c]) = queue[p][c][1]
    BY <2>1, TailEntries
  <2>4. task[t].phase \in {"asking", "again"}
    BY <1>0, <2>2, <2>3 DEF QueuePart, AnswerIsPending
  <2>5. StillRuns(new, task[t])
    BY <1>0, <1>g, <2>2, <2>4, StepStillRuns DEF TypeOK
  <2>6. FlightPart' /\ LockPart'
    BY <1>0, <1>g, <2>2, <2>4, <2>5, RunsOn
  <2>7. task'[t] = new /\ \A u \in Task \ {t} : task'[u] = task[u]
    BY <1>0, <1>g, <2>2 DEF TypeOK
  <2>8. ASSUME NEW u \in Task
        PROVE  \/ task'[u].phase = task[u].phase /\ task'[u].query = task[u].query
               \/ /\ task[u].query # "answered" \/ u = Head(queue[p][c]).task
                  /\ task'[u].query # "none" => task'[u].phase \in {"asking", "again"}
    BY <2>5, <2>7 DEF StillRuns
  <2> QED
    BY <1>0, <2>1, <2>6, <2>8, QueueTail
<1>13. ASSUME NEW p \in Peer, NEW c \in Conn, HandleAnswer(p, c) \/ HandleRejection(p, c)
       PROVE  FlightPart' /\ LockPart' /\ QueuePart'
  BY <1>13, <1>g DEF HandleAnswer, HandleRejection, Handles
<1>14. ASSUME NEW p \in Peer, NEW c \in Conn, HandleLate(p, c) PROVE FlightPart' /\ LockPart' /\ QueuePart'
  BY <1>14, <1>a, <1>f DEF HandleLate
<1>15. ASSUME NEW p \in Peer, Connect(p) PROVE FlightPart' /\ LockPart' /\ QueuePart'
  BY <1>15, <1>a, <1>b DEF Connect
<1>16. ASSUME NEW p \in Peer, Disconnect(p) PROVE FlightPart' /\ LockPart' /\ QueuePart'
  <2> DEFINE ts == {t \in Task : task[t].peer = p /\ task[t].query # "none"}
  <2>1. /\ task' = [t \in Task |-> IF t \in ts THEN Ending(task[t]) ELSE task[t]]
        /\ queue' = Withdrawn(ts) /\ lock' = lock
    BY <1>16 DEF Disconnect
  <2>2. \A u \in Task : u \in ts => task[u].phase \in {"asking", "again"}
    BY <1>0 DEF QueuePart, Pending
  <2> HIDE DEF ts
  <2>3. ASSUME NEW u \in Task
        PROVE  /\ IF u \in ts THEN task'[u].query = "none" ELSE task'[u] = task[u]
               /\ task'[u].phase = "free" <=> task[u].phase = "free"
               /\ task'[u].peer = task[u].peer /\ task'[u].conn = task[u].conn /\ task'[u].waits = task[u].waits
               /\ task[u].phase \in Running => task'[u].phase \in Running
    <3>1. task[u] \in TaskRecord
      BY <1>0 DEF TypeOK
    <3>2. CASE u \in ts
      BY <2>1, <2>2, <3>1, <3>2 DEF Ending, TaskRecord, Running
    <3>3. CASE u \notin ts
      BY <2>1, <3>3
    <3> QED
      BY <3>2, <3>3
  <2>4. FlightPart'
    BY <1>0, <1>16, <2>3, FlightDisconnect
  <2>5. LockPart'
    BY <1>0, <2>1, <2>3, LockKept
  <2>6. QueuePart'
    BY <1>0, <2>1, <2>3, QueueWithdrawn
  <2> QED
    BY <2>4, <2>5, <2>6
<1>17. CASE Tick
  BY <1>17, <1>a, <1>b DEF Tick
<1>18. CASE UNCHANGED vars
  BY <1>18, <1>a, <1>b DEF vars
<1> QED
  BY <1>1, <1>e, <1>2, <1>3, <1>4, <1>5, <1>6, <1>7, <1>8, <1>9, <1>10, <1>11, <1>12, <1>13, <1>14, <1>15,
     <1>16, <1>17, <1>18
  DEF Next, TaskStep, Handle

\* The invariant holds in every reachable state.
LEMMA SyncInvariant == Spec => []SyncInv
<1>1. Init => FlightPart /\ LockPart /\ QueuePart
  <2> SUFFICES ASSUME Init PROVE FlightPart /\ LockPart /\ QueuePart
    OBVIOUS
  <2>1. \A t \in Task : task[t].phase = "free" /\ task[t].waits = None /\ task[t].query = "none"
    BY DEF Init, Free
  <2>2. FlightPart
    BY <2>1 DEF Init, FlightPart, Busy, InFlightIsRunning, SingleFlight
  <2>3. LockPart
    BY <2>1 DEF Init, LockPart, WaitsForHolder
  <2>4. \A p \in Peer, c \in Conn : queue[p][c] = <<>>
    BY DEF Init
  <2>5. AnswerIsPending /\ AnswerOnce
    BY <2>4 DEF AnswerIsPending, AnswerOnce
  <2> QED
    BY <2>1, <2>2, <2>3, <2>5 DEF QueuePart
<1>2. TypeOK /\ FlightPart /\ LockPart /\ QueuePart /\ [Next]_vars => FlightPart' /\ LockPart' /\ QueuePart'
  BY SyncStep DEF SyncInv
<1> QED
  BY <1>1, <1>2, TypeCorrect, PTL DEF Spec, SyncInv

\* messageSyncInFlight names only a running sync of the current connection, also when a
\* sync outlives its connection and ends after the next one has begun.
THEOREM InFlightCorrect == Spec => []InFlightIsRunning
<1>1. SyncInv => InFlightIsRunning
  BY DEF SyncInv, FlightPart
<1> QED
  BY <1>1, SyncInvariant, PTL

\* Two syncs of a peer overlap only across a disconnect: a sync that a timeout, a stale
\* lock or a late finally block has overtaken belongs to an earlier connection.
THEOREM FlightCorrect == Spec => []SingleFlight
<1>1. SyncInv => SingleFlight
  BY DEF SyncInv, FlightPart
<1> QED
  BY <1>1, SyncInvariant, PTL

\* A task never waits for a lock whose holder is over: the release in the finally block
\* reaches every waiter, also the waiters of a task that is no longer the lock.
THEOREM LockCorrect == Spec => []WaitsForHolder
<1>1. SyncInv => WaitsForHolder
  BY DEF SyncInv, LockPart
<1> QED
  BY <1>1, SyncInvariant, PTL

\* A queued answer is taken only by the query it answers, also when timeouts, retries
\* and disconnects leave answers behind.
THEOREM AnswersCorrect == Spec => []AnswerIsPending
<1>1. SyncInv => AnswerIsPending
  BY DEF SyncInv, QueuePart
<1> QED
  BY <1>1, SyncInvariant, PTL
=============================================================================
