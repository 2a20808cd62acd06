--------------------------- MODULE PeerTransport ---------------------------
(***************************************************************************)
(* How two peers keep a connection to each other (PeerTransport.ts): the   *)
(* attempts of connect(), what becomes of two connections that cross, the  *)
(* reconnect timer, the quarantine, and what the app is told of it all.    *)
(* What a transport keeps, it keeps per remote peer; only the signalling   *)
(* server is shared, and the client configures one.                        *)
(*                                                                         *)
(* A slot is a DataConnection of PeerJS with its two ends.  PeerJS and     *)
(* WebRTC are external: an end that is closed before it is open makes no   *)
(* event; ICE fails with an error event; an offer that is refused gets no  *)
(* answer, and the caller's end never fails by itself.                     *)
(***************************************************************************)
EXTENDS Integers, FiniteSets

CONSTANTS
    Low, High,  \* the two peers, in the order of their ids
    Slot,       \* bound: connections that exist at a time
    MaxRetries, \* config.maxRetries
    None,
    MaxTrouble  \* bound: faults of the network, of the pages and of the users

Peer == {Low, High}

ASSUME TransportAssumption ==
    /\ Low # High /\ None \notin Slot
    /\ MaxRetries \in Nat /\ MaxTrouble \in Nat

VARIABLES
    entry,       \* connections: what a peer has registered for the other
    conn,        \* the connections of PeerJS
    app,         \* connectedPeers, which onConnect and onDisconnect keep
    beat,        \* the heartbeat timer runs
    loop,        \* the connect() in progress: connectingTo
    timer,       \* _reconnectTimers
    manual,      \* _manuallyDisconnected
    failures,    \* _peerConnectFailures
    quarantined, \* _peerConnectQuarantineUntil has not passed
    online,      \* the signalling server is connected
    trouble

marks == <<failures, quarantined>>
vars == <<entry, conn, app, beat, loop, timer, manual, marks, online, trouble>>

Other(p) == IF p = Low THEN High ELSE Low

NoEntry == [conn |-> None, status |-> "none"]
Entry(c, status) == [conn |-> c, status |-> status]
Connected(p) == entry[p].status = "connected"

\* No end, and no offer on its way.
FreeConn == [from |-> Low, phase |-> "free", end |-> [p \in Peer |-> "none"]]

IdleLoop == [pc |-> "idle", n |-> 0, conn |-> None, timer |-> FALSE]

Init ==
    /\ entry = [p \in Peer |-> NoEntry] /\ conn = [c \in Slot |-> FreeConn]
    /\ app = [p \in Peer |-> FALSE] /\ beat = [p \in Peer |-> FALSE]
    /\ loop = [p \in Peer |-> IdleLoop]
    /\ timer = [p \in Peer |-> FALSE] /\ manual = [p \in Peer |-> FALSE]
    /\ failures = [p \in Peer |-> 0] /\ quarantined = [p \in Peer |-> FALSE]
    /\ online = [p \in Peer |-> TRUE]
    /\ trouble = 0

Trouble == trouble < MaxTrouble /\ trouble' = trouble + 1

-----------------------------------------------------------------------------
(* Connections of PeerJS                                                   *)

Shut(k, c, p) == [k EXCEPT ![c].end[p] = "shut"]
Alive(k, c, p) == k[c].end[p] \in {"new", "open"}

\* A slot is free again when its ends are closed and nothing refers to it.
Forgotten(k, c) ==
    /\ \A p \in Peer : ~ Alive(k, c, p) /\ entry'[p].conn # c /\ loop'[p].conn # c
    /\ k[c].phase # "offered"

Becomes(k) == conn' = [c \in Slot |-> IF Forgotten(k, c) THEN FreeConn ELSE k[c]]

\* Connection c, which peer p waits for, cannot open any more.
Hopeless(p, c) ==
    conn[c].phase = "refused" \/ \E q \in Peer : conn[c].end[q] = "shut"

-----------------------------------------------------------------------------
(* The reconnect timer                                                     *)

\* _scheduleReconnect, for peer p if b.
Schedule(p, b) == timer' = [timer EXCEPT ![p] = @ \/ (b /\ ~ manual[p])]

\* An open connection that was the registered one is gone.
DroppedKept(p) ==
    UNCHANGED entry /\ app' = [app EXCEPT ![p] = FALSE] /\ beat' = [beat EXCEPT ![p] = FALSE]
Dropped(p) ==
    /\ entry' = [entry EXCEPT ![p] = NoEntry]
    /\ app' = [app EXCEPT ![p] = FALSE]
    /\ beat' = [beat EXCEPT ![p] = FALSE]

-----------------------------------------------------------------------------
(* _setupConnection                                                        *)

Inbound(p, c) == conn[c].from # p

\* A new connection is closed if there is a connected one, one in the same direction,
\* or one that crosses it and wins: the outbound one of the lower peer id.
Rejects(p, e, inbound) ==
    \/ e.status = "connected"
    \/ e.status = "connecting" /\ (Inbound(p, e.conn) = inbound \/ (p = Low) = inbound)

\* Peer p, with entry e so far, registers connection c of k; the displaced one is closed.
Registers(p, e, c, k) ==
    /\ entry' = [entry EXCEPT ![p] = Entry(c, "connecting")]
    /\ Becomes(IF e = NoEntry THEN k ELSE Shut(k, e.conn, p))

Setup(p, e, c, k, inbound) ==
    IF Rejects(p, e, inbound)
    THEN entry' = [entry EXCEPT ![p] = e] /\ Becomes(Shut(k, c, p))
    ELSE Registers(p, e, c, k)

\* The offer reaches the other peer, whose end may close at once; the caller's may be
\* closed already.
OfferArrives(c) ==
    LET p == Other(conn[c].from)
        answered == ~ Rejects(p, entry[p], TRUE) /\ Alive(conn, c, conn[c].from)
        k == [conn EXCEPT ![c].phase = IF answered THEN "talking" ELSE "refused",
                          ![c].end[p] = "new"]
    IN  /\ conn[c].phase = "offered" /\ online[p]
        /\ UNCHANGED <<app, beat, loop, timer, manual, marks, online, trouble>>
        /\ Setup(p, entry[p], c, k, TRUE)

\* The signalling server does not know the peer.
OfferLost(c) ==
    /\ conn[c].phase = "offered" /\ ~ online[Other(conn[c].from)]
    /\ UNCHANGED <<entry, app, beat, loop, timer, manual, marks, online, trouble>>
    /\ Becomes([conn EXCEPT ![c].phase = "refused"])

\* The attempt of peer p in progress waits for connection c.
Awaits(p, c) == loop[p].pc = "attempt" /\ loop[p].conn = c

\* Another connection has opened first.
RaceWon(p, c) == FALSE
RaceLost(p, c) == Connected(p) /\ entry[p].conn # c

\* conn.on('open'): markConnected, and the connect() that waits for it returns.  An end
\* may open when the other one, which it has not heard of, is closed again.
Opens(c, p) ==
    /\ conn[c].phase = "talking" /\ conn[c].end[p] = "new"
    /\ UNCHANGED <<timer, manual, online, trouble>>
    /\ IF Awaits(p, c)
       THEN /\ loop' = [loop EXCEPT ![p] = IdleLoop]
            /\ failures' = [failures EXCEPT ![p] = 0]
            /\ quarantined' = [quarantined EXCEPT ![p] = FALSE]
       ELSE UNCHANGED <<loop, marks>>
    /\ IF RaceLost(p, c)
       THEN UNCHANGED <<entry, app, beat>> /\ Becomes(Shut(conn, c, p))
       ELSE /\ entry' = [entry EXCEPT ![p] = Entry(c, "connected")]
            /\ app' = [app EXCEPT ![p] = TRUE]
            /\ beat' = [beat EXCEPT ![p] = TRUE]
            /\ Becomes([conn EXCEPT ![c].end[p] = "open"])

\* conn.on('close'), of a connection that is open.
Closes(c, p) ==
    /\ conn[c].end[p] = "open"
    /\ IF entry[p].conn = c
       THEN Dropped(p) /\ Schedule(p, TRUE)
       ELSE UNCHANGED <<entry, app, beat, timer>>
    /\ UNCHANGED loop
    /\ Becomes(Shut(conn, c, p))

\* The other end has closed it.
RemoteCloses(c, p) ==
    /\ conn[c].end[Other(p)] = "shut"
    /\ UNCHANGED <<manual, marks, online, trouble>>
    /\ Closes(c, p)

\* _onPingTimeout, where ICE cannot be restarted.
HeartbeatGivesUp(c, p) ==
    /\ Trouble /\ beat[p] /\ entry[p].conn = c
    /\ UNCHANGED <<manual, marks, online>>
    /\ Closes(c, p)

-----------------------------------------------------------------------------
(* connect                                                                 *)

\* _notePeerConnectFailure
NoteFailure(p) ==
    /\ failures' = [failures EXCEPT ![p] = 1 - @]
    /\ quarantined' = [quarantined EXCEPT ![p] = @ \/ failures[p] = 1]

\* The connect() in progress throws, to the reconnect timer if that has called it.
\* The connection of the last attempt stays registered.
Throws(p, scheduled) ==
    /\ loop' = [loop EXCEPT ![p] = IdleLoop]
    /\ Schedule(p, scheduled \/ loop[p].timer)

\* An attempt has failed; the next one comes after a delay, if there is one.
Exhausted(p) == loop[p].n > MaxRetries
LastAttempt(p) == loop[p].n >= MaxRetries
AttemptFails(p, unavailable, scheduled) ==
    IF ~ LastAttempt(p)
    THEN /\ loop' = [loop EXCEPT ![p].pc = "delay", ![p].conn = None]
         /\ Schedule(p, scheduled) /\ UNCHANGED marks
    ELSE /\ Throws(p, scheduled)
         /\ IF unavailable THEN NoteFailure(p) ELSE UNCHANGED marks

\* The registered connection has made an error event.
ErroredUnheard(p) ==
    entry' = [entry EXCEPT ![p] = NoEntry] /\ beat' = [beat EXCEPT ![p] = FALSE] /\ UNCHANGED app
Errored(p) ==
    /\ entry' = [entry EXCEPT ![p] = NoEntry]
    /\ beat' = [beat EXCEPT ![p] = FALSE]
    /\ app' = [app EXCEPT ![p] = @ /\ ~ Connected(p)]

\* conn.on('error'): negotiation or ICE has failed, and PeerJS closes the connection.
\* An end whose offer was not answered has nothing that can fail.
IceFails(c, p) ==
    /\ Alive(conn, c, p) /\ (conn[c].phase = "talking" \/ Inbound(p, c))
    /\ UNCHANGED <<manual, online>>
    /\ IF entry[p].conn = c
       THEN Errored(p)
       ELSE UNCHANGED <<entry, app, beat>>
    /\ IF Awaits(p, c)
       THEN AttemptFails(p, FALSE, entry[p].conn = c)
       ELSE Schedule(p, entry[p].conn = c) /\ UNCHANGED <<loop, marks>>
    /\ Becomes(Shut(conn, c, p))

\* ... because the other end is closed
IceFailsDead(c, p) ==
    conn[c].end[Other(p)] = "shut" /\ UNCHANGED trouble /\ IceFails(c, p)
\* ... because the network is.
IceFailsAlive(c, p) == Trouble /\ conn[c].end[Other(p)] # "shut" /\ IceFails(c, p)

\* _attemptConnect times out, and closes the connection without an event.
AttemptTimesOut(p) ==
    /\ loop[p].pc = "attempt"
    /\ UNCHANGED <<entry, app, beat, manual, online>>
    /\ AttemptFails(p, TRUE, FALSE)
    /\ Becomes(Shut(conn, loop[p].conn, p))

AttemptTimesOutHopeless(p) ==
    /\ loop[p].pc = "attempt" /\ Hopeless(p, loop[p].conn)
    /\ UNCHANGED trouble /\ AttemptTimesOut(p)
AttemptTimesOutAlive(p) ==
    /\ loop[p].pc = "attempt" /\ ~ Hopeless(p, loop[p].conn)
    /\ Trouble /\ AttemptTimesOut(p)

\* Peer p, with entry e, makes attempt n on a new connection.
Attempt(p, e, n, byTimer) ==
    LET c == CHOOSE f \in Slot : conn[f] = FreeConn
    IN  /\ \E f \in Slot : conn[f] = FreeConn
        /\ loop' = [loop EXCEPT ![p] = [pc |-> "attempt", n |-> n, conn |-> c, timer |-> byTimer]]
        /\ Setup(p, e, c, [conn EXCEPT ![c] = [from |-> p, phase |-> "offered",
                                               end |-> [FreeConn.end EXCEPT ![p] = "new"]]], FALSE)

\* _waitForAnySignalingReconnect
SignalLoop(byTimer) == [pc |-> "signal", n |-> 0, conn |-> None, timer |-> byTimer]

\* From its guards to its first await; it throws during a quarantine.
connect(p, byTimer) ==
    /\ ~ quarantined[p]
    /\ manual' = [manual EXCEPT ![p] = FALSE]
    /\ IF entry[p] # NoEntry \/ loop[p].pc # "idle"
       THEN UNCHANGED <<entry, conn, loop>>
       ELSE IF online[p]
       THEN Attempt(p, entry[p], 0, byTimer)
       ELSE /\ loop' = [loop EXCEPT ![p] = SignalLoop(byTimer)]
            /\ UNCHANGED <<entry, conn>>

\* Periodic maintenance, a message to deliver, a workspace to join.
AppConnect(p) ==
    /\ UNCHANGED <<app, beat, timer, marks, online, trouble>>
    /\ connect(p, FALSE)

\* The timer of _scheduleReconnect; during a quarantine it is set again.
TimerFires(p) ==
    /\ timer[p] /\ timer' = [timer EXCEPT ![p] = FALSE]
    /\ IF manual[p] \/ entry[p] # NoEntry
       THEN UNCHANGED <<entry, conn, loop, manual>>
       ELSE connect(p, TRUE)
    /\ UNCHANGED <<app, beat, marks, online, trouble>>

SignalWaitEnds(p) ==
    /\ loop[p].pc = "signal" /\ online[p]
    /\ UNCHANGED <<app, beat, timer, manual, marks, online, trouble>>
    /\ Attempt(p, entry[p], 0, loop[p].timer)

\* _waitForAnySignalingReconnect has waited for 8 seconds.
SignalWaitTimesOut(p) ==
    /\ loop[p].pc = "signal" /\ ~ online[p]
    /\ Throws(p, FALSE)
    /\ UNCHANGED <<entry, conn, app, beat, manual, marks, online, trouble>>

\* A connection has opened while connect() waited.
NotAsked(p) == FALSE
OpenedMeanwhile(p) == Connected(p)

\* The delay before the next attempt ends: what is registered and not connected is
\* deleted.  PeerJS makes no connection without the signalling server.
DelayOver(p) ==
    /\ loop[p].pc = "delay"
    /\ UNCHANGED <<app, beat, manual, online, trouble>>
    /\ IF OpenedMeanwhile(p)
       THEN /\ loop' = [loop EXCEPT ![p] = IdleLoop]
            /\ UNCHANGED <<entry, conn, timer, marks>>
       ELSE IF online[p]
       THEN /\ Attempt(p, NoEntry, loop[p].n + 1, loop[p].timer)
            /\ UNCHANGED <<timer, marks>>
       ELSE /\ entry' = [entry EXCEPT ![p] = NoEntry]
            /\ IF loop[p].n + 1 < MaxRetries
               THEN loop' = [loop EXCEPT ![p].n = @ + 1] /\ UNCHANGED <<timer, marks>>
               ELSE Throws(p, FALSE) /\ NoteFailure(p)
            /\ Becomes(conn)

-----------------------------------------------------------------------------
(* The app, the page, the signalling server, time                          *)

\* disconnect; the close event of an open connection finds it registered.
AppDisconnect(p) ==
    /\ Trouble
    /\ manual' = [manual EXCEPT ![p] = TRUE]
    /\ timer' = [timer EXCEPT ![p] = FALSE]
    /\ failures' = [failures EXCEPT ![p] = 0]
    /\ quarantined' = [quarantined EXCEPT ![p] = FALSE]
    /\ Dropped(p)
    /\ UNCHANGED <<loop, online>>
    /\ IF entry[p] = NoEntry THEN UNCHANGED conn ELSE Becomes(Shut(conn, entry[p].conn, p))

\* A new transport; the connections of the old one are closed.
Cleared(p) ==
    /\ Dropped(p)
    /\ loop' = [loop EXCEPT ![p] = IdleLoop]
    /\ timer' = [timer EXCEPT ![p] = FALSE] /\ manual' = [manual EXCEPT ![p] = FALSE]
    /\ failures' = [failures EXCEPT ![p] = 0]
    /\ quarantined' = [quarantined EXCEPT ![p] = FALSE]
    /\ online' = [online EXCEPT ![p] = TRUE]
    /\ Becomes([c \in Slot |-> IF Alive(conn, c, p) THEN Shut(conn, c, p)[c] ELSE conn[c]])

\* The page is closed and opened again.
Restart(p) == Trouble /\ Cleared(p)

\* reinitializeTransportIfStuck: no peer connected, and no signalling server.
Reinitialize(p) == ~ online[p] /\ ~ Connected(p) /\ UNCHANGED trouble /\ Cleared(p)

SignallingLost(p) ==
    /\ Trouble /\ online[p] /\ online' = [online EXCEPT ![p] = FALSE]
    /\ UNCHANGED <<entry, conn, app, beat, loop, timer, manual, marks>>

\* The retries and the periodic probe bring it back.
SignallingBack(p) ==
    /\ ~ online[p] /\ online' = [online EXCEPT ![p] = TRUE]
    /\ UNCHANGED <<entry, conn, app, beat, loop, timer, manual, marks, trouble>>

QuarantineEnds(p) ==
    /\ quarantined[p] /\ quarantined' = [quarantined EXCEPT ![p] = FALSE]
    /\ UNCHANGED <<entry, conn, app, beat, loop, timer, manual, failures, online, trouble>>

-----------------------------------------------------------------------------
\* What WebRTC and the signalling server do with connection c in the end.
ConnStep(c) ==
    \/ OfferArrives(c) \/ OfferLost(c)
    \/ \E p \in Peer : Opens(c, p) \/ RemoteCloses(c, p) \/ IceFailsDead(c, p)

LoopStep(p) ==
    AttemptTimesOutHopeless(p) \/ SignalWaitEnds(p) \/ SignalWaitTimesOut(p) \/ DelayOver(p)

Next ==
    \/ \E c \in Slot : ConnStep(c)
    \/ \E c \in Slot, p \in Peer : HeartbeatGivesUp(c, p) \/ IceFailsAlive(c, p)
    \/ \E p \in Peer :
        \/ LoopStep(p) \/ AttemptTimesOutAlive(p)
        \/ AppConnect(p) \/ TimerFires(p) \/ AppDisconnect(p)
        \/ Restart(p) \/ Reinitialize(p) \/ SignallingLost(p) \/ SignallingBack(p) \/ QuarantineEnds(p)

Spec == Init /\ [][Next]_vars

\* Periodic maintenance, which leaves a peer alone whose reconnect timer is set.
Maintenance(p) == TimerFires(p) \/ (~ timer[p] /\ AppConnect(p))

\* Connections open or fail, delays and quarantines end, the signalling server comes back,
\* and timers and maintenance go on.
FairSpec ==
    /\ Spec
    /\ WF_vars(\E c \in Slot : ConnStep(c)) /\ WF_vars(\E p \in Peer : LoopStep(p))
    /\ WF_vars(\E p \in Peer : Maintenance(p))
    /\ WF_vars(\E p \in Peer : SignallingBack(p) \/ QuarantineEnds(p))

-----------------------------------------------------------------------------
(* Properties                                                              *)

EntryType == [conn : Slot, status : {"connecting", "connected"}] \cup {NoEntry}
ConnType ==
    [from : Peer, phase : {"free", "offered", "refused", "talking"},
     end : [Peer -> {"none", "new", "open", "shut"}]]
LoopType ==
    [pc : {"idle", "signal", "attempt", "delay"}, n : 0..MaxRetries, conn : Slot \cup {None},
     timer : BOOLEAN]

\* Types; a connect() has a connection exactly while it waits for it.
TypeOK ==
    /\ entry \in [Peer -> EntryType] /\ conn \in [Slot -> ConnType]
    /\ app \in [Peer -> BOOLEAN] /\ beat \in [Peer -> BOOLEAN]
    /\ loop \in [Peer -> LoopType]
    /\ \A p \in Peer : loop[p].conn # None <=> loop[p].pc = "attempt"
    /\ timer \in [Peer -> BOOLEAN] /\ manual \in [Peer -> BOOLEAN]
    /\ failures \in [Peer -> 0..1] /\ quarantined \in [Peer -> BOOLEAN]
    /\ online \in [Peer -> BOOLEAN] /\ trouble \in 0..MaxTrouble

\* The app counts a peer as connected, and the heartbeat runs, exactly while a
\* connection to it is registered as connected, whatever of attempts, crossing
\* connections, errors and late events has come in between.
AppAgrees ==
    \A p \in Peer : (app[p] <=> Connected(p)) /\ (beat[p] <=> Connected(p))

\* An open end is the one registered as connected, and the other way round: no second
\* connection stays open whose data the data handler drops and whose close nobody hears.
OpenIsRegistered ==
    \A p \in Peer, c \in Slot : conn[c].end[p] = "open" <=> entry[p] = Entry(c, "connected")

\* The connection the app works with is not replaced under it: onConnect does not come a
\* second time without an onDisconnect ("cause a duplicate onConnect when the next
\* outbound attempt succeeds").
KeepsConnection ==
    [][\A p \in Peer : app[p] /\ app'[p] => entry'[p] = entry[p]]_vars

\* Peers that want each other connect again ("keep retrying at the longest delay (120 s)
\* indefinitely - connectivity can return at any time").
Reconnects ==
    \A p \in Peer : ~ app[p] ~> (app[p] \/ \E q \in Peer : manual[q])

\* A connection that will not open any more is registered, no attempt is going on that
\* would delete it, and it is kept when the other peer makes one.
Blocked(p) ==
    /\ entry[p].status = "connecting" /\ loop[p].pc = "idle"
    /\ conn[entry[p].conn].end[p] = "shut"
    /\ p = Low \/ Inbound(p, entry[p].conn)

\* Nothing else keeps the peers apart: crossing and refused offers, timeouts,
\* quarantines, reloads and the loss of the signalling server are overcome.
ReconnectsUnlessBlocked ==
    \A p \in Peer : ~ app[p] ~> (app[p] \/ \E q \in Peer : manual[q] \/ Blocked(q))
=============================================================================
