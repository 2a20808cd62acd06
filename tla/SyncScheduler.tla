--------------------------- MODULE SyncScheduler ----------------------------
(***************************************************************************)
(* When a client asks its peers for the messages it missed                 *)
(* (requestMessageSync of ChatController.ts, the places that call it, and  *)
(* the inbound queue per peer of PeerTransport.ts, which carries the       *)
(* answers).  What a sync does to the stores is not part of this module:   *)
(* here it is a number of queries, each answered, rejected or timed out.   *)
(*                                                                         *)
(* A task is one run of requestMessageSync's runOnce.  A promise is        *)
(* represented by the task that will settle it, None once it is settled.   *)
(***************************************************************************)
EXTENDS Integers, Sequences, FiniteSets

CONSTANTS
    Peer,
    Task,             \* bound: tasks that exist at the same time
    None,
    Negentropic,      \* peers that advertise negentropy-sync-v1
    MinInterval,      \* MESSAGE_SYNC_MIN_INTERVAL_MS, in ticks
    PeriodicInterval, \* PERIODIC_MESSAGE_SYNC_INTERVAL_MS
    PostConnectMin,   \* POST_CONNECT_MESSAGE_SYNC_MIN_MS
    MaxQueries,       \* bound: queries of a reconciliation
    MaxConn,          \* bound: the number of the last connection to a peer
    MaxLane           \* bound: messages waiting in an inbound queue

ASSUME SchedulerAssumption ==
    /\ None \notin Peer \cup Task
    /\ Negentropic \subseteq Peer
    /\ MinInterval \in Nat \ {0} /\ PeriodicInterval \in Nat /\ MinInterval < PeriodicInterval
    /\ PostConnectMin \in Nat /\ MaxQueries \in Nat /\ MaxConn \in Nat /\ MaxLane \in Nat

VARIABLES
    ready,    \* peers that completed the handshake
    conn,     \* number of the peer's current or next connection
    age,      \* time since lastMessageSyncRequestAt; PeriodicInterval if longer, or never
    postAge,  \* time since lastPostConnectMessageSyncAt; at most PostConnectMin
    post,     \* timers of runHeavySyncWork
    task,
    inFlight, \* messageSyncInFlight
    lock,     \* _globalSyncLock
    queue,    \* inbound messages of each connection that wait to be handled
    awaits    \* the task that the handler of the connection's current message awaits

vars == <<ready, conn, age, postAge, post, task, inFlight, lock, queue, awaits>>

Conn == 0..MaxConn

Free == [phase |-> "free", peer |-> None, conn |-> 0, waits |-> None, left |-> 0, query |-> "none"]

Running == {"asking", "backoff", "again", "grace", "ending"}

\* Inbound messages: a manifest delta, a workspace state, an answer to a query, an
\* answer whose query is no longer pending.
Diff == [kind |-> "diff", task |-> None]
State == [kind |-> "state", task |-> None]
Late == [kind |-> "late", task |-> None]
Answer(t) == [kind |-> "answer", task |-> t]
Rejection(t) == [kind |-> "rejection", task |-> t]

Message == {Diff, State, Late} \cup {Answer(t) : t \in Task} \cup {Rejection(t) : t \in Task}

Init ==
    /\ ready = {}
    /\ conn = [p \in Peer |-> 0]
    /\ age = [p \in Peer |-> PeriodicInterval]
    /\ postAge = PostConnectMin
    /\ post = [p \in Peer |-> 0]
    /\ task = [t \in Task |-> Free]
    /\ inFlight = [p \in Peer |-> None]
    /\ lock = None
    /\ queue = [p \in Peer |-> [c \in Conn |-> <<>>]]
    /\ awaits = [p \in Peer |-> [c \in Conn |-> None]]

-----------------------------------------------------------------------------
(* requestMessageSync                                                      *)

\* A new task waits for the promise that is the global lock now.
Begin(p, t) ==
    /\ task[t].phase = "free"
    /\ task' = [task EXCEPT ![t] = [phase |-> "waiting", peer |-> p, conn |-> conn[p],
                                    waits |-> lock, left |-> 0, query |-> "none"]]
    /\ inFlight' = [inFlight EXCEPT ![p] = t]

\* A task whose await is settled goes on before the next timer or message is handled.
Resuming == \E t \in Task : task[t].phase = "waiting" /\ task[t].waits = None

\* The request joins the task in flight, is skipped when the last one is less than
\* MinInterval old (sinceLast), or starts a task.
requestMessageSync(p, sinceLast) ==
    /\ ~ Resuming
    /\ IF inFlight[p] = None /\ sinceLast >= MinInterval
       THEN \E t \in Task : Begin(p, t)
       ELSE UNCHANGED <<task, inFlight>>

\* What is left of a task once its last request is sent or answered.
Ending(r) == [r EXCEPT !.phase = "ending", !.left = 0, !.query = "none"]

\* Mutant: one query too many.
AskingOneMore(r, phase, n) ==
    IF n = 0 THEN Ending(r)
    ELSE [r EXCEPT !.phase = phase, !.left = n + 1]

\* A reconciliation of n queries; with no channel there is none.
Asking(r, phase, n) ==
    IF n = 0 THEN Ending(r)
    ELSE [r EXCEPT !.phase = phase, !.left = n]

\* The answer to a query: reconcile prepares the next one or ends.
Answered(r) == IF r.left > 1 THEN [r EXCEPT !.left = r.left - 1, !.query = "none"] ELSE Ending(r)

\* A rejected reconciliation is tried once more; after that the timestamp request is sent.
Rejected(r) == IF r.phase = "asking" THEN [Ending(r) EXCEPT !.phase = "backoff"] ELSE Ending(r)

\* The lock's promise is settled: the task makes its own the lock, notes the time
\* and prepares its first query, or sends the timestamp request to a peer that does not
\* advertise Negentropy, as none does that is not connected.
Acquire(t) ==
    LET p == task[t].peer
    IN  /\ task[t].phase = "waiting" /\ task[t].waits = None
        /\ lock' = t
        /\ age' = [age EXCEPT ![p] = 0]
        /\ IF p \in Negentropic \cap ready
           THEN \E n \in 0..MaxQueries : task' = [task EXCEPT ![t] = Asking(@, "asking", n)]
           ELSE task' = [task EXCEPT ![t] = [@ EXCEPT !.phase = "grace"]]
        /\ UNCHANGED <<ready, conn, postAge, post, inFlight, queue, awaits>>

\* sendNegentropyQuery, once the hashes of the channel are computed.
Ask(t) ==
    /\ task[t].phase \in {"asking", "again"} /\ task[t].query = "none"
    /\ task' = [task EXCEPT ![t] = [@ EXCEPT !.query = "sent"]]
    /\ UNCHANGED <<ready, conn, age, postAge, post, inFlight, lock, queue, awaits>>

\* The peer answers a query, or rejects it, over the connection there is now.
PeerAnswers(t, m) ==
    LET p == task[t].peer
    IN  /\ task[t].query = "sent" /\ p \in ready /\ Len(queue[p][conn[p]]) < MaxLane
        /\ queue' = [queue EXCEPT ![p][conn[p]] = Append(@, m)]
        /\ task' = [task EXCEPT ![t] = [@ EXCEPT !.query = "answered"]]
        /\ UNCHANGED <<ready, conn, age, postAge, post, inFlight, lock, awaits>>

\* The inbound queues when the queries of the tasks ts are no longer pending.
Withdrawn(ts) ==
    [p \in Peer |-> [c \in Conn |-> [i \in DOMAIN queue[p][c] |->
        IF queue[p][c][i].task \in ts THEN Late ELSE queue[p][c][i]]]]

\* Mutant: the query stays pending.
QueryTimeoutKeepsPending(t) ==
    /\ task[t].query # "none"
    /\ task' = [task EXCEPT ![t] = Ending(@)]
    /\ UNCHANGED <<ready, conn, age, postAge, post, inFlight, lock, queue, awaits>>

\* No answer within NEGENTROPY_QUERY_TIMEOUT_MS: the pending query is deleted and the
\* timestamp request sent instead.
QueryTimeout(t) ==
    /\ task[t].query # "none"
    /\ task' = [task EXCEPT ![t] = Ending(@)]
    /\ queue' = Withdrawn({t})
    /\ UNCHANGED <<ready, conn, age, postAge, post, inFlight, lock, awaits>>

\* The wait before the second reconciliation is over.
RetryOnce(t) ==
    /\ task[t].phase = "backoff"
    /\ \E n \in 0..MaxQueries : task' = [task EXCEPT ![t] = Asking(@, "again", n)]
    /\ UNCHANGED <<ready, conn, age, postAge, post, inFlight, lock, queue, awaits>>

\* The time left to the peer's response chunks is over.
GraceOver(t) ==
    /\ task[t].phase = "grace"
    /\ task' = [task EXCEPT ![t] = Ending(@)]
    /\ UNCHANGED <<ready, conn, age, postAge, post, inFlight, lock, queue, awaits>>

\* Mutant: the lock's promise is never resolved.
SettledAlone(t) == [task EXCEPT ![t] = Free]

\* What the end of a task settles: its slot, and the waits of others for it.
Settled(t) ==
    [u \in Task |-> IF u = t THEN Free
                    ELSE IF task[u].waits = t THEN [task[u] EXCEPT !.waits = None] ELSE task[u]]

Returned(t) == [p \in Peer |-> [c \in Conn |-> IF awaits[p][c] = t THEN None ELSE awaits[p][c]]]

\* Mutant: the entry is deleted whosever it is.
EndForAll(t) ==
    /\ task[t].phase = "ending"
    /\ lock' = IF lock = t THEN None ELSE lock
    /\ inFlight' = [inFlight EXCEPT ![task[t].peer] = None]
    /\ task' = Settled(t)
    /\ awaits' = Returned(t)
    /\ UNCHANGED <<ready, conn, age, postAge, post, queue>>

\* Mutant: the entry stays.
EndKeepsEntry(t) ==
    /\ task[t].phase = "ending"
    /\ lock' = IF lock = t THEN None ELSE lock
    /\ inFlight' = inFlight
    /\ task' = Settled(t)
    /\ awaits' = Returned(t)
    /\ UNCHANGED <<ready, conn, age, postAge, post, queue>>

\* Both finally blocks: the lock is released, and the entry deleted if it is the task's.
End(t) ==
    /\ task[t].phase = "ending"
    /\ lock' = IF lock = t THEN None ELSE lock
    /\ inFlight' = [p \in Peer |-> IF p = task[t].peer /\ inFlight[p] = t THEN None ELSE inFlight[p]]
    /\ task' = Settled(t)
    /\ awaits' = Returned(t)
    /\ UNCHANGED <<ready, conn, age, postAge, post, queue>>

-----------------------------------------------------------------------------
(* The callers                                                             *)

\* runHeavySyncWork, some time after the handshake.
HeavySync(p) ==
    /\ post[p] > 0
    /\ post' = [post EXCEPT ![p] = @ - 1]
    /\ IF p \in ready /\ postAge >= PostConnectMin
       THEN postAge' = 0 /\ requestMessageSync(p, age[p])
       ELSE UNCHANGED <<postAge, task, inFlight>>
    /\ UNCHANGED <<ready, conn, age, lock, queue, awaits>>

\* The sweep notes the time of the periodic sync and then requests it.
Maintenance(p) ==
    /\ p \in ready /\ age[p] >= PeriodicInterval
    /\ age' = [age EXCEPT ![p] = 0]
    /\ requestMessageSync(p, age'[p])
    /\ UNCHANGED <<ready, conn, postAge, post, lock, queue, awaits>>

\* A message of ours has waited too long for its acknowledgment.
DeliveryWatch(p) ==
    /\ p \in ready /\ inFlight[p] = None
    /\ requestMessageSync(p, age[p])
    /\ UNCHANGED <<ready, conn, age, postAge, post, lock, queue, awaits>>

-----------------------------------------------------------------------------
(* Inbound messages of a connection, one after the other                   *)

Arrives(p, m) ==
    /\ p \in ready /\ Len(queue[p][conn[p]]) < MaxLane
    /\ queue' = [queue EXCEPT ![p][conn[p]] = Append(@, m)]
    /\ UNCHANGED <<ready, conn, age, postAge, post, task, inFlight, lock, awaits>>

\* The next message of the connection, when the handler of the one before returned.
Handles(p, c, kinds) ==
    /\ queue[p][c] # <<>> /\ awaits[p][c] = None
    /\ Head(queue[p][c]).kind \in kinds
    /\ queue' = [queue EXCEPT ![p][c] = Tail(@)]

\* handleManifestDiffResponse awaits the sync it requests or joins.
HandleDiff(p, c) ==
    /\ Handles(p, c, {"diff"})
    /\ requestMessageSync(p, age[p])
    /\ awaits' = [awaits EXCEPT ![p][c] = inFlight'[p]]
    /\ UNCHANGED <<ready, conn, age, postAge, post, lock>>

\* handleWorkspaceStateSync requests a sync without awaiting it.
HandleState(p, c) ==
    /\ Handles(p, c, {"state"})
    /\ requestMessageSync(p, age[p])
    /\ UNCHANGED <<ready, conn, age, postAge, post, lock, awaits>>

\* handleNegentropySyncResponse resolves the pending query,
HandleAnswer(p, c) ==
    /\ Handles(p, c, {"answer"})
    /\ task' = [task EXCEPT ![Head(queue[p][c]).task] = Answered(@)]
    /\ UNCHANGED <<ready, conn, age, postAge, post, inFlight, lock, awaits>>

\* or rejects it.
HandleRejection(p, c) ==
    /\ Handles(p, c, {"rejection"})
    /\ task' = [task EXCEPT ![Head(queue[p][c]).task] = Rejected(@)]
    /\ UNCHANGED <<ready, conn, age, postAge, post, inFlight, lock, awaits>>

\* An answer whose query timed out or was rejected finds nothing pending.
HandleLate(p, c) ==
    /\ Handles(p, c, {"late"})
    /\ UNCHANGED <<ready, conn, age, postAge, post, task, inFlight, lock, awaits>>

-----------------------------------------------------------------------------
(* Connections and time                                                    *)

Connect(p) ==
    /\ p \notin ready
    /\ ready' = ready \cup {p}
    /\ post' = [post EXCEPT ![p] = @ + 1]
    /\ UNCHANGED <<conn, age, postAge, task, inFlight, lock, queue, awaits>>

\* The peer's pending queries are rejected, with an error that is not tried again; its
\* other tasks and the queued messages live on.  The next connection has its own queue.
Disconnect(p) ==
    LET rejected == {t \in Task : task[t].peer = p /\ task[t].query # "none"}
    IN  /\ p \in ready /\ conn[p] < MaxConn
        /\ ready' = ready \ {p}
        /\ conn' = [conn EXCEPT ![p] = @ + 1]
        /\ task' = [t \in Task |-> IF t \in rejected THEN Ending(task[t]) ELSE task[t]]
        /\ queue' = Withdrawn(rejected)
        /\ inFlight' = [inFlight EXCEPT ![p] = None]
        /\ age' = [age EXCEPT ![p] = PeriodicInterval]
        /\ UNCHANGED <<postAge, post, lock, awaits>>

Later(n, max) == IF n < max THEN n + 1 ELSE n

Tick ==
    /\ age' = [p \in Peer |-> Later(age[p], PeriodicInterval)]
    /\ postAge' = Later(postAge, PostConnectMin)
    /\ UNCHANGED <<ready, conn, post, task, inFlight, lock, queue, awaits>>

-----------------------------------------------------------------------------
TaskStep(t) ==
    \/ Acquire(t) \/ Ask(t) \/ QueryTimeout(t) \/ RetryOnce(t) \/ GraceOver(t) \/ End(t)

Handle(p, c) ==
    \/ HandleDiff(p, c) \/ HandleState(p, c) \/ HandleAnswer(p, c)
    \/ HandleRejection(p, c) \/ HandleLate(p, c)

Next ==
    \/ \E t \in Task : TaskStep(t) \/ PeerAnswers(t, Answer(t)) \/ PeerAnswers(t, Rejection(t))
    \/ \E p \in Peer : HeavySync(p) \/ Maintenance(p) \/ DeliveryWatch(p) \/ Connect(p) \/ Disconnect(p)
    \/ \E p \in Peer : Arrives(p, Diff) \/ Arrives(p, State)
    \/ \E p \in Peer, c \in Conn : Handle(p, c)
    \/ Tick

Spec == Init /\ [][Next]_vars

\* Timers fire and settled promises run their callbacks; nothing is asked of the peers
\* or of the user.
Fairness ==
    /\ WF_vars(Tick)
    /\ \A t \in Task : WF_vars(TaskStep(t))
    /\ \A p \in Peer, c \in Conn : WF_vars(Handle(p, c))
    /\ \A p \in Peer : WF_vars(HeavySync(p)) /\ WF_vars(Maintenance(p))

FairSpec == Spec /\ Fairness

-----------------------------------------------------------------------------
(* Properties.                                                             *)

TaskRecord == [phase : {"free", "waiting"} \cup Running, peer : Peer \cup {None}, conn : Conn,
               waits : Task \cup {None}, left : 0..MaxQueries, query : {"none", "sent", "answered"}]

\* Type invariant.
TypeOK ==
    /\ ready \subseteq Peer
    /\ conn \in [Peer -> Conn]
    /\ age \in [Peer -> 0..PeriodicInterval] /\ postAge \in 0..PostConnectMin
    /\ post \in [Peer -> Nat]
    /\ task \in [Task -> TaskRecord]
    /\ inFlight \in [Peer -> Task \cup {None}] /\ lock \in Task \cup {None}
    /\ queue \in [Peer -> [Conn -> Seq(Message)]]
    /\ awaits \in [Peer -> [Conn -> Task \cup {None}]]

\* messageSyncInFlight names a sync of the current connection that still runs: a request
\* never joins one that is over or that belongs to a lost connection.
InFlightIsRunning ==
    \A p \in Peer : inFlight[p] # None =>
        /\ task[inFlight[p]].phase # "free"
        /\ task[inFlight[p]].peer = p /\ task[inFlight[p]].conn = conn[p]

\* Two syncs of one peer that run at the same time belong to different connections.
SingleFlight ==
    \A t, u \in Task :
        /\ t # u /\ task[t].phase # "free" /\ task[u].phase # "free"
        /\ task[t].peer = task[u].peer
        => task[t].conn # task[u].conn

\* A task waits for the lock only while the task it waits for runs.
WaitsForHolder == \A t \in Task : task[t].waits # None => task[task[t].waits].phase \in Running

\* An answer in a queue is for a query that is still pending: none is taken for the
\* answer to another query.
AnswerIsPending ==
    \A p \in Peer, c \in Conn : \A i \in DOMAIN queue[p][c] :
        LET t == queue[p][c][i].task
        IN  t # None => task[t].phase \in {"asking", "again"} /\ task[t].query = "answered"

\* Every sync ends, whatever the peers do, and so does every handler that awaits one.
SyncEnds ==
    /\ \A t \in Task : task[t].phase # "free" ~> task[t].phase = "free"
    /\ \A p \in Peer, c \in Conn : awaits[p][c] # None ~> awaits[p][c] = None

\* "only one full message sync runs at a time across all peers".
OneSyncAtATime ==
    \A t, u \in Task : task[t].phase \in Running /\ task[u].phase \in Running => t = u

\* "Periodic sync closes those gaps": a peer that stays ready is synced again and again.
PeriodicSync ==
    \A p \in Peer : <>[](p \in ready) => []<>(\E t \in Task : task[t].peer = p)
=============================================================================
