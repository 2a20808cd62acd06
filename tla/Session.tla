------------------------------ MODULE Session ------------------------------
(***************************************************************************)
(* How two peers come to share a Double Ratchet session, and how they lose *)
(* it: the handshakes a connection starts with (ChatController.ts), what   *)
(* they make of the sessions in memory and on disk (MessageProtocol.ts),   *)
(* and the messages that are encrypted before, during and after.  What a   *)
(* session does between two handshakes is in DoubleRatchet; here it is     *)
(* known by the two DH keys its first root comes from.                     *)
(*                                                                         *)
(* An end <<p, q>> is what peer p keeps for peer q.  The transport hands   *)
(* an end its messages one after the other; when the connection is lost,   *)
(* the handler that runs and the messages already queued behind it go on,  *)
(* beside the handlers of the next connection (PeerTransport.ts 1383).     *)
(* They are the lost worker of the end.  A send the transport refused is   *)
(* not tried again here.                                                   *)
(***************************************************************************)
EXTENDS Integers, Sequences, FiniteSets

CONSTANTS
    Link,       \* the pairs of peers that connect, the lower peer id first
    None,
    MaxConns,   \* bound: connections ever made, of which the last one stays
    MaxSends,   \* bound: messages ever encrypted
    MaxLost     \* bound: ends that go on with a connection they have lost

ASSUME SessionAssumption ==
    /\ Link \subseteq {l \in Nat \X Nat : l[1] < l[2]}
    /\ None \notin Nat \X Nat
    /\ MaxConns \in Nat /\ MaxSends \in Nat /\ MaxLost \in Nat

VARIABLES
    opening,  \* a connection is made, and this end has not heard of it yet
    open,     \* the connection is connected, as this end sees it
    wire,     \* what has been sent to this end in the connection and not been taken
    late,     \* what a connection that was lost has left in the inbound queue
    worker,   \* the message being handled: one of the connection, one of a lost one
    key,      \* ratchetDHKeyPair
    keys,     \* peer -> key pairs it has generated so far
    session,  \* ratchetStates
    disk,     \* the session in the store
    legacy,   \* sharedSecrets
    ready,    \* readyPeers
    inFlight, \* handshakeInFlight
    cool,     \* a handshake was replied to less than HANDSHAKE_REPLY_COOLDOWN_MS ago
    outbox,   \* messages encrypted while the peer was away
    spent,    \* connections and messages so far
    clean,    \* history: connected, and nothing of an earlier connection is left or has come
    failed    \* history: the kinds of messages that could not be decrypted

connection == <<opening, open, wire>>
memory == <<session, disk, legacy>>
marks == <<ready, inFlight, cool>>
history == <<clean, failed>>
vars == <<connection, late, worker, key, keys, memory, marks, outbox, spent, history>>

Back(e) == <<e[2], e[1]>>
Ends == Link \cup {Back(l) : l \in Link}
Peer == {e[1] : e \in Ends}
EndsOf(p) == {e \in Ends : e[1] = p}

\* The lower peer id is Alice.
IsAlice(e) == e[1] < e[2]

Worker == {"live", "lost"}

NoSession == [there |-> FALSE, mine |-> None, theirs |-> None, sound |-> FALSE]
Made(mine, theirs) == [there |-> TRUE, mine |-> mine, theirs |-> theirs, sound |-> TRUE]
Idle == [pc |-> "idle", key |-> None, new |-> NoSession]

Hello(k) == [kind |-> "hello", a |-> k, b |-> None, queued |-> FALSE]

\* Mutant: the envelope of the static secret has none of the fields of the others.
LegacyBare == [kind |-> "legacy"]

Legacy == [kind |-> "legacy", a |-> None, b |-> None, queued |-> FALSE]
\* A message under the root of Alice's key a and Bob's key b; no keys, if the
\* sender's session has been spoiled.
Ratchet(a, b) == [kind |-> "ratchet", a |-> a, b |-> b, queued |-> FALSE]

Init ==
    /\ opening = [e \in Ends |-> FALSE] /\ open = [e \in Ends |-> FALSE]
    /\ wire = [e \in Ends |-> <<>>] /\ late = [e \in Ends |-> <<>>]
    /\ worker = [e \in Ends |-> [w \in Worker |-> Idle]]
    /\ key = [p \in Peer |-> None] /\ keys = [p \in Peer |-> 0]
    /\ session = [e \in Ends |-> NoSession] /\ disk = [e \in Ends |-> NoSession]
    /\ legacy = [e \in Ends |-> FALSE]
    /\ ready = [e \in Ends |-> FALSE] /\ inFlight = [e \in Ends |-> FALSE]
    /\ cool = [e \in Ends |-> FALSE]
    /\ outbox = [e \in Ends |-> <<>>]
    /\ spent = [conns |-> 0, sends |-> 0]
    /\ clean = [e \in Ends |-> FALSE] /\ failed = {}

-----------------------------------------------------------------------------
(* Connections                                                             *)

MayBreak == spent.conns < MaxConns

Gone(e) == ~ opening[e] /\ ~ open[e]

\* What end e sends; it is lost if the other end is gone.
Put(e, q) == wire' = IF Gone(Back(e)) THEN wire ELSE [wire EXCEPT ![Back(e)] = @ \o q]

NewKey(p) == <<p, keys[p] + 1>>

\* createHandshake, sent to the other end: the key pair it names is kept until a
\* session consumes it.
SendHello(e) ==
    LET p == e[1]
        k == IF key[p] = None THEN NewKey(p) ELSE key[p]
    IN  /\ key' = [key EXCEPT ![p] = k]
        /\ keys' = IF key[p] = None THEN [keys EXCEPT ![p] = @ + 1] ELSE keys
        /\ Put(e, <<Hello(k)>>)

\* A new connection is rejected while one is connected.
Connect(l) ==
    /\ Gone(l) /\ Gone(Back(l))
    /\ spent.conns < MaxConns /\ spent' = [spent EXCEPT !.conns = @ + 1]
    /\ opening' = [opening EXCEPT ![l] = TRUE, ![Back(l)] = TRUE]
    /\ UNCHANGED <<open, wire, late, worker, key, keys, memory, marks, outbox, history>>

HasLost(e) == worker[e]["lost"] # Idle \/ late[e] # <<>>

\* Nothing of an earlier connection is still being handled, or has marked the peer ready.
Quiet(e) == ~ HasLost(e) /\ ~ ready[e]

\* Mutant: only Alice sends her handshake, and Bob replies.
OpenAliceFirst(e) ==
    /\ opening[e]
    /\ opening' = [opening EXCEPT ![e] = FALSE]
    /\ open' = [open EXCEPT ![e] = TRUE]
    /\ IF IsAlice(e) THEN SendHello(e) ELSE UNCHANGED <<key, keys, wire>>
    /\ clean' = [clean EXCEPT ![e] = Quiet(e)]
    /\ UNCHANGED <<late, worker, memory, marks, outbox, spent, failed>>

\* onConnect
Open(e) ==
    /\ opening[e]
    /\ opening' = [opening EXCEPT ![e] = FALSE]
    /\ open' = [open EXCEPT ![e] = TRUE]
    /\ SendHello(e)
    /\ clean' = [clean EXCEPT ![e] = Quiet(e)]
    /\ UNCHANGED <<late, worker, memory, marks, outbox, spent, failed>>

\* A connection that fails before this end has heard of it.
OpenFails(e) ==
    /\ MayBreak /\ opening[e] /\ ~ opening[Back(e)]
    /\ opening' = [opening EXCEPT ![e] = FALSE]
    /\ wire' = [wire EXCEPT ![e] = <<>>]
    /\ UNCHANGED <<open, late, worker, key, keys, memory, marks, outbox, spent, history>>

\* The handler in progress goes on, and so does what was queued behind it.
\* Bound: only MaxLost ends at a time, and each of them once.
Abandon(e) ==
    \E n \in 0..Len(wire[e]) :
        /\ worker[e]["live"] # Idle \/ n > 0 =>
                ~ HasLost(e) /\ Cardinality({f \in Ends : HasLost(f)}) < MaxLost
        /\ late' = [late EXCEPT ![e] = @ \o SubSeq(wire[e], 1, n)]
        /\ worker' = [worker EXCEPT ![e] =
                        IF @["live"] = Idle THEN @
                        ELSE [w \in Worker |-> IF w = "lost" THEN worker[e]["live"] ELSE Idle]]

\* onDisconnect
Close(e) ==
    /\ MayBreak /\ open[e]
    /\ Abandon(e)
    /\ open' = [open EXCEPT ![e] = FALSE]
    /\ wire' = [wire EXCEPT ![e] = <<>>]
    /\ ready' = [ready EXCEPT ![e] = FALSE]
    /\ inFlight' = [inFlight EXCEPT ![e] = FALSE]
    /\ legacy' = [legacy EXCEPT ![e] = FALSE]
    /\ clean' = [clean EXCEPT ![e] = FALSE]
    /\ UNCHANGED <<opening, key, keys, session, disk, cool, outbox, spent, failed>>

\* What the ends of peer p hold becomes v.
Wiped(f, p, v) == [e \in Ends |-> IF e[1] = p THEN v ELSE f[e]]

\* The page is closed and opened again: the store and the outbox are what is left.
Restart(p) ==
    /\ MayBreak
    /\ opening' = Wiped(opening, p, FALSE) /\ open' = Wiped(open, p, FALSE)
    /\ wire' = Wiped(wire, p, <<>>) /\ late' = Wiped(late, p, <<>>)
    /\ worker' = Wiped(worker, p, [w \in Worker |-> Idle])
    /\ key' = [key EXCEPT ![p] = None]
    /\ session' = Wiped(session, p, NoSession) /\ legacy' = Wiped(legacy, p, FALSE)
    /\ ready' = Wiped(ready, p, FALSE) /\ inFlight' = Wiped(inFlight, p, FALSE)
    /\ cool' = Wiped(cool, p, FALSE)
    /\ clean' = Wiped(clean, p, FALSE)
    /\ UNCHANGED <<keys, disk, outbox, spent, failed>>

-----------------------------------------------------------------------------
(* The handler of a handshake                                              *)

Queue(e, w) == IF w = "live" THEN wire[e] ELSE late[e]

Takes(e, w) ==
    /\ worker[e][w] = Idle /\ Queue(e, w) # <<>>
    /\ IF w = "live" THEN open[e] /\ wire' = [wire EXCEPT ![e] = Tail(@)] /\ UNCHANGED late
                     ELSE late' = [late EXCEPT ![e] = Tail(@)] /\ UNCHANGED wire

Goes(e, w, pc) == worker' = [worker EXCEPT ![e][w] = [Idle EXCEPT !.pc = pc]]

TakesHello(e, w) == Takes(e, w) /\ Head(Queue(e, w)).kind = "hello"

AlreadyReady(e) == ready[e] /\ session[e].there

\* Mutant: the session is cleared for a peer that is ready, too.
HelloTakenClears(e, w) ==
    /\ TakesHello(e, w) /\ ~ inFlight[e]
    /\ inFlight' = [inFlight EXCEPT ![e] = TRUE]
    /\ worker' = [worker EXCEPT ![e][w] =
                    [Idle EXCEPT !.pc = "look", !.key = Head(Queue(e, w)).a]]
    /\ session' = [session EXCEPT ![e] = NoSession]
    /\ disk' = [disk EXCEPT ![e] = NoSession]
    /\ legacy' = [legacy EXCEPT ![e] = FALSE]
    /\ UNCHANGED <<opening, open, key, keys, ready, cool, outbox, spent, history>>

\* A handshake of a peer that is not ready clears what there is of a session.
HelloTaken(e, w) ==
    /\ TakesHello(e, w) /\ ~ inFlight[e]
    /\ inFlight' = [inFlight EXCEPT ![e] = TRUE]
    /\ worker' = [worker EXCEPT ![e][w] =
                    [Idle EXCEPT !.pc = "look", !.key = Head(Queue(e, w)).a]]
    /\ IF AlreadyReady(e) THEN UNCHANGED memory
       ELSE /\ session' = [session EXCEPT ![e] = NoSession]
            /\ disk' = [disk EXCEPT ![e] = NoSession]
            /\ legacy' = [legacy EXCEPT ![e] = FALSE]
    /\ UNCHANGED <<opening, open, key, keys, ready, cool, outbox, spent, history>>

HelloDropped(e, w) ==
    /\ TakesHello(e, w) /\ inFlight[e]
    /\ UNCHANGED <<opening, open, worker, key, keys, memory, marks, outbox, spent, history>>

\* processHandshake: a session in memory or on disk is kept.
Look(e, w) ==
    /\ worker[e][w].pc = "look"
    /\ session' = [session EXCEPT ![e] = IF @.there THEN @ ELSE disk[e]]
    /\ IF session[e].there \/ disk[e].there
       THEN Goes(e, w, "finish")
       ELSE worker' = [worker EXCEPT ![e][w].pc = "derive"]
    /\ UNCHANGED <<connection, late, key, keys, disk, legacy, marks, outbox, spent, history>>

\* initAlice takes a new key pair, initBob the one the last handshake named.
Derive(e, w) ==
    /\ worker[e][w].pc = "derive"
    /\ legacy' = [legacy EXCEPT ![e] = TRUE]
    /\ keys' = IF IsAlice(e) THEN [keys EXCEPT ![e[1]] = @ + 1] ELSE keys
    /\ worker' = [worker EXCEPT ![e][w].pc = "store",
                                ![e][w].new = IF IsAlice(e)
                                              THEN Made(NewKey(e[1]), worker[e][w].key)
                                              ELSE Made(key[e[1]], None)]
    /\ UNCHANGED <<connection, late, key, session, disk, marks, outbox, spent, history>>

\* A session without a key pair of its own cannot be written to the store.
Store(e, w) ==
    LET s == worker[e][w].new
    IN  /\ worker[e][w].pc = "store"
        /\ session' = [session EXCEPT ![e] = s]
        /\ disk' = IF s.mine = None THEN disk ELSE [disk EXCEPT ![e] = s]
        /\ key' = IF IsAlice(e) THEN key ELSE [key EXCEPT ![e[1]] = None]
        /\ Goes(e, w, "finish")
        /\ UNCHANGED <<connection, late, keys, legacy, marks, outbox, spent, history>>

\* The peer is ready; the reply, unless the last one is recent; the finally clause.
Finish(e, w) ==
    /\ worker[e][w].pc = "finish"
    /\ ready' = [ready EXCEPT ![e] = TRUE]
    /\ IF cool[e] THEN UNCHANGED <<key, keys, wire, cool>>
       ELSE /\ cool' = [cool EXCEPT ![e] = TRUE]
            /\ IF open[e] THEN SendHello(e) ELSE UNCHANGED <<key, keys, wire>>
    /\ inFlight' = [inFlight EXCEPT ![e] = FALSE]
    /\ worker' = [worker EXCEPT ![e][w] = Idle]
    /\ UNCHANGED <<opening, open, late, memory, outbox, spent, history>>

\* Bound: the handshakes of a connection take less time than the cooldown.
CooldownEnds(e) ==
    /\ cool[e] /\ Gone(e)
    /\ cool' = [cool EXCEPT ![e] = FALSE]
    /\ UNCHANGED <<connection, late, worker, key, keys, memory, ready, inFlight, outbox, spent,
                   history>>

-----------------------------------------------------------------------------
(* Messages                                                                *)

\* Bob can send under the root when he has received a first message; a spoiled
\* session has a chain as well, if there was a key pair to make it from.
HasSendChain(e, s) ==
    s.there /\ (IsAlice(e) \/ (s.mine # None /\ (s.theirs # None \/ ~ s.sound)))

Sealed(e, s) == IF ~ s.sound THEN Ratchet(None, None)
                ELSE IF IsAlice(e) THEN Ratchet(s.mine, s.theirs) ELSE Ratchet(s.theirs, s.mine)

\* encryptMessage with session s: the ratchet, or the static secret, or nothing.
Encrypt(e, s, m) ==
    /\ spent.sends < MaxSends /\ spent' = [spent EXCEPT !.sends = @ + 1]
    /\ \/ HasSendChain(e, s) /\ m = Sealed(e, s) /\ disk' = [disk EXCEPT ![e] = s]
       \/ ~ HasSendChain(e, s) /\ legacy[e] /\ m = Legacy /\ UNCHANGED disk

\* The send loop; a send that the transport refuses goes to the outbox.
Send(e) ==
    \E m \in {Sealed(e, session[e]), Legacy} :
        /\ ready[e]
        /\ Encrypt(e, session[e], m)
        /\ IF open[e]
           THEN Put(e, <<m>>) /\ UNCHANGED outbox
           ELSE outbox' = [outbox EXCEPT ![e] = Append(@, m)] /\ UNCHANGED wire
        /\ UNCHANGED <<opening, open, late, worker, key, keys, session, legacy, marks, history>>

\* To a peer that is not ready: the session is restored from the store if need be.
SendOffline(e) ==
    LET s == IF session[e].there THEN session[e] ELSE disk[e]
    IN  \E m \in {Sealed(e, s), Legacy} :
            /\ ~ ready[e]
            /\ Encrypt(e, s, m)
            /\ session' = [session EXCEPT ![e] = s]
            /\ outbox' = [outbox EXCEPT ![e] = Append(@, m)]
            /\ UNCHANGED <<connection, late, worker, key, keys, legacy, marks, history>>

\* flushOfflineQueue sends what was encrypted then (OfflineQueue is about when).
Flush(e) ==
    /\ ready[e] /\ open[e] /\ outbox[e] # <<>>
    /\ Put(e, [i \in DOMAIN outbox[e] |-> [outbox[e][i] EXCEPT !.queued = TRUE]])
    /\ outbox' = [outbox EXCEPT ![e] = <<>>]
    /\ UNCHANGED <<opening, open, late, worker, key, keys, memory, marks, spent, history>>

TakesMessage(e, w) == Takes(e, w) /\ Head(Queue(e, w)).kind # "hello"

\* The session a message is decrypted with: from the store if there is none in memory.
Used(e) == IF session[e].there THEN session[e] ELSE disk[e]

\* Bob learns Alice's key from the first message that names his.
Opens(e, m) ==
    LET s == Used(e)
    IN  IF m.kind = "legacy" THEN legacy[e]
        ELSE /\ s.there /\ s.sound
             /\ IF IsAlice(e) THEN m.a = s.mine /\ m.b = s.theirs
                              ELSE m.b = s.mine /\ s.mine # None /\ s.theirs \in {None, m.a}

Unless(queued, e) == IF queued THEN [clean EXCEPT ![e] = FALSE] ELSE clean

\* Mutant: Bob does not keep the key of Alice that the message names.
DecryptForgets(e, w) ==
    LET m == Head(Queue(e, w))
    IN  /\ TakesMessage(e, w)
        /\ Opens(e, m)
        /\ IF m.kind = "legacy" THEN UNCHANGED <<session, disk>>
           ELSE /\ session' = [session EXCEPT ![e] = [Used(e) EXCEPT !.theirs = m.b]]
                /\ disk' = [disk EXCEPT ![e] = [Used(e) EXCEPT !.theirs = m.b]]
        /\ clean' = Unless(m.queued, e)
        /\ UNCHANGED <<opening, open, worker, key, keys, legacy, marks, outbox, spent, failed>>

Decrypt(e, w) ==
    LET m == Head(Queue(e, w))
        s == [Used(e) EXCEPT !.theirs = IF IsAlice(e) THEN @ ELSE m.a]
    IN  /\ TakesMessage(e, w)
        /\ Opens(e, m)
        /\ IF m.kind = "legacy" THEN UNCHANGED <<session, disk>>
           ELSE session' = [session EXCEPT ![e] = s] /\ disk' = [disk EXCEPT ![e] = s]
        /\ clean' = Unless(m.queued, e)
        /\ UNCHANGED <<opening, open, worker, key, keys, legacy, marks, outbox, spent, failed>>

\* decrypt has made the step to the message's key before it finds that the message
\* does not open: the session in memory is spoiled, the one in the store is not.
DecryptFails(e, w) ==
    LET m == Head(Queue(e, w))
    IN  /\ TakesMessage(e, w)
        /\ ~ Opens(e, m)
        /\ session' = IF m.kind = "legacy" THEN session
                      ELSE [session EXCEPT ![e] = [Used(e) EXCEPT !.sound = FALSE]]
        /\ legacy' = [legacy EXCEPT ![e] = FALSE]
        /\ clean' = Unless(m.queued, e)
        /\ failed' = failed \cup {IF m.queued THEN "queued"
                                  ELSE IF w = "live" /\ clean[e] /\ clean[Back(e)]
                                       THEN "fresh" ELSE "stale"}
        /\ UNCHANGED <<opening, open, worker, key, keys, disk, marks, outbox, spent>>

-----------------------------------------------------------------------------
Handshake(e, w) ==
    \/ HelloTaken(e, w) \/ HelloDropped(e, w)
    \/ Look(e, w) \/ Derive(e, w) \/ Store(e, w) \/ Finish(e, w)

Handle(e, w) == Handshake(e, w) \/ Decrypt(e, w) \/ DecryptFails(e, w)

Next ==
    \/ \E l \in Link : Connect(l)
    \/ \E p \in Peer : Restart(p)
    \/ \E e \in Ends :
        \/ Open(e) \/ OpenFails(e) \/ Close(e) \/ CooldownEnds(e)
        \/ Send(e) \/ SendOffline(e) \/ Flush(e)
        \/ \E w \in Worker : Handle(e, w)

Spec == Init /\ [][Next]_vars

\* Promises settle: a handler goes on, and the transport hands over what has arrived.
FairSpec == Spec /\ WF_vars(\E e \in Ends, w \in Worker : Handle(e, w))

-----------------------------------------------------------------------------
(* Properties                                                              *)

Keys == (Nat \X Nat) \cup {None}
SessionType == [there : BOOLEAN, mine : Keys, theirs : Keys, sound : BOOLEAN]
WorkerType == [pc : {"idle", "look", "derive", "store", "finish"}, key : Keys, new : SessionType]
Message == [kind : {"hello", "legacy", "ratchet"}, a : Keys, b : Keys, queued : BOOLEAN]

\* Type invariant of the ends, their workers and their messages.
TypeOK ==
    /\ opening \in [Ends -> BOOLEAN] /\ open \in [Ends -> BOOLEAN]
    /\ wire \in [Ends -> Seq(Message)] /\ late \in [Ends -> Seq(Message)]
    /\ worker \in [Ends -> [Worker -> WorkerType]]
    /\ key \in [Peer -> Keys] /\ keys \in [Peer -> Nat]
    /\ session \in [Ends -> SessionType] /\ disk \in [Ends -> SessionType]
    /\ legacy \in [Ends -> BOOLEAN]
    /\ ready \in [Ends -> BOOLEAN] /\ inFlight \in [Ends -> BOOLEAN] /\ cool \in [Ends -> BOOLEAN]
    /\ outbox \in [Ends -> Seq(Message)]
    /\ spent \in [conns : Nat, sends : Nat]
    /\ clean \in [Ends -> BOOLEAN] /\ failed \subseteq {"queued", "fresh", "stale"}

Settled(e) == open[e] /\ ready[e]

\* Alice's session and Bob's come from the same two keys, or will when Bob receives.
Agree(a, b) ==
    /\ a.there /\ b.there /\ a.sound /\ b.sound
    /\ a.theirs = b.mine /\ b.mine # None
    /\ b.theirs \in {None, a.mine}

\* Two peers that are connected and ready have sessions that match, however the
\* handshakes and replies of the connection crossed and whatever the peers had before
\* (alreadyReady and clearRatchetState in the handshake handler), as long as no handler
\* of an earlier connection was left when it opened and no message of the outbox came.
SessionsAgree ==
    \A l \in Link : Settled(l) /\ Settled(Back(l)) /\ clean[l] /\ clean[Back(l)] =>
                        Agree(session[l], session[Back(l)])

\* In such a connection every message that is sent when it is encrypted opens
\* (encryptMessage, decryptMessage): by the static secret until Bob has received, by
\* the ratchet from then on.
FreshOpens == "fresh" \notin failed

\* So does one that was encrypted while the peer was away ("Keep ratchet state - it
\* survives reconnections").
QueuedOpens == "queued" \notin failed

\* After a reconnect "the next handshake WILL go through the full clear + init path":
\* peers without messages have sessions that match.
ReconnectAgrees ==
    \A l \in Link : /\ Settled(l) /\ Settled(Back(l)) /\ failed = {}
                    /\ ~ HasLost(l) /\ ~ HasLost(Back(l))
                    => Agree(session[l], session[Back(l)])

\* A connection that stays makes both ends ready: no handshake is dropped for good
\* because of one whose connection was lost (handshakeInFlight, onDisconnect).
EventuallyReady ==
    \A l \in Link : [](open[l] /\ open[Back(l)] =>
        <>(\/ ready[l] /\ ready[Back(l)]
           \/ ~ open[l] \/ ~ open[Back(l)]))
=============================================================================
