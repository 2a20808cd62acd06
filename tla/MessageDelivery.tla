-------------------------- MODULE MessageDelivery --------------------------
(***************************************************************************)
(* How a message gets from the client that wrote it to the others of its   *)
(* conversation: the send loop, the outbox and its replay, the unacked-    *)
(* message retry, the receive path with its duplicate checks, gossip       *)
(* relay, and delivery and read receipts (ChatController.ts, with          *)
(* OfflineQueue.ts, CustodyStore.ts, ReceiptProtocol.ts, and               *)
(* DeviceManager.MessageDedup).                                            *)
(*                                                                         *)
(* One Sender writes the messages of one conversation: a workspace channel *)
(* with any number of recipients, or, if Direct, a conversation with one.  *)
(* Inbound messages are handled one at a time per sending peer and         *)
(* concurrently between peers (PeerTransport.ts 1379-1391): a lane of a    *)
(* recipient is the handler of what one peer sends it.                     *)
(*                                                                         *)
(* Encryption, message sync and custodians that are not members of the     *)
(* conversation are left out.  What is left out only adds ways to receive  *)
(* a message.                                                              *)
(***************************************************************************)
EXTENDS Integers, Sequences, FiniteSets, SequencesExt

CONSTANTS
    Msg,            \* messages
    Sender,         \* the peer that writes them
    Recipient,      \* the other members of the conversation
    Direct,         \* TRUE: a direct conversation; FALSE: a workspace channel
    Busy,           \* TRUE: others write to the conversation at the same time
    MaxNet,         \* bound: messages in flight on one connection
    MaxReplays,     \* bound: outbox replays and unacked retries
    MaxFaults       \* bound: lost connections, restarts, expired items and sweeps

ASSUME DeliveryAssumption ==
    /\ IsFiniteSet(Msg)
    /\ Recipient # {} /\ Sender \notin Recipient
    /\ Direct \in BOOLEAN /\ Busy \in BOOLEAN
    /\ MaxNet \in Nat /\ MaxReplays \in Nat
    /\ MaxFaults \in Nat

VARIABLES
    log,        \* message -> the sender's copy in memory
    saved,      \* message -> the sender's copy in IndexedDB
    todo,       \* message -> recipients its send loop has still to serve
    sending,    \* messages whose send loop has not ended
    queue,      \* recipient -> messages in the sender's outbox for it
    flush,      \* recipient -> the outbox replay in progress
    retry,      \* recipient -> candidates of the unacked retry in progress
    ready,      \* recipients the sender has a connection to
    net,        \* <<from, recipient>> -> messages in flight
    receipts,   \* receipts in flight to the sender
    mem,        \* recipient -> the channel in its MessageStore
    disk,       \* recipient -> the messages in its IndexedDB
    seen,       \* recipient -> multiDeviceDedup
    gossiped,   \* recipient -> _gossipSeen
    viewed,     \* recipient -> messages with a localReadAt
    lane,       \* <<from, recipient>> -> the inbound handler
    replays,    \* replays and retries begun
    faults      \* faults so far

senderVars == <<log, saved, todo, sending, queue, flush, retry>>
recipientVars == <<mem, disk, seen, gossiped, viewed, lane>>
counters == <<replays, faults>>
vars == <<senderVars, ready, net, receipts, recipientVars, counters>>

Lane == {l \in (Recipient \cup {Sender}) \X Recipient : l[1] # l[2]}

Idle == [pc |-> "idle"]
NotFlushing == [left |-> {}, done |-> {}, again |-> {}, on |-> FALSE]
Unwritten == [status |-> "new", acked |-> {}, read |-> {}, shown |-> {}]

Init ==
    /\ log = [m \in Msg |-> Unwritten]
    /\ saved = [m \in Msg |-> Unwritten]
    /\ todo = [m \in Msg |-> {}]
    /\ sending = {}
    /\ queue = [r \in Recipient |-> {}]
    /\ flush = [r \in Recipient |-> NotFlushing]
    /\ retry = [r \in Recipient |-> {}]
    /\ ready = {}
    /\ net = [l \in Lane |-> <<>>]
    /\ receipts = {}
    /\ mem = [r \in Recipient |-> <<>>]
    /\ disk = [r \in Recipient |-> {}]
    /\ seen = [r \in Recipient |-> {}]
    /\ gossiped = [r \in Recipient |-> {}]
    /\ viewed = [r \in Recipient |-> {}]
    /\ lane = [l \in Lane |-> Idle]
    /\ replays = 0
    /\ faults = 0

-----------------------------------------------------------------------------
(* Receipts on the sender's side.                                          *)

Rank == [new |-> 0, pending |-> 0, sent |-> 1, delivered |-> 2, read |-> 3]

\* The recipients the status speaks of: those online when it was sent, if any.
StatusRecipients(e) == IF e.shown = {} THEN Recipient ELSE e.shown

\* Mutant: one receipt is enough for a group.
RaisedByAny(e) ==
    LET any(S) == StatusRecipients(e) \cap S # {}
        computed == IF any(e.read) THEN "read" ELSE IF any(e.acked) THEN "delivered" ELSE "sent"
    IN  [e EXCEPT !.status = IF Rank[@] > Rank[computed] THEN @ ELSE computed]

\* The status the receipts of e amount to; a higher one is kept.
Raised(e) ==
    LET all(S) == StatusRecipients(e) \subseteq S
        computed == IF all(e.read) THEN "read" ELSE IF all(e.acked) THEN "delivered" ELSE "sent"
    IN  [e EXCEPT !.status = IF Rank[@] > Rank[computed] THEN @ ELSE computed]

applyMessageReceipt(e, r, kind) ==
    Raised([e EXCEPT !.acked = @ \cup {r},
                     !.read = IF kind = "read" THEN @ \cup {r} ELSE @])

\* reconcileReplayedOutgoingMessage: after a replay the message is at least sent.
Reconcile(m) ==
    /\ log' = [log EXCEPT ![m] = Raised(@)]
    /\ saved' = IF Raised(log[m]) = log[m] THEN saved ELSE [saved EXCEPT ![m] = Raised(log[m])]

Transmit(m, r) ==
    /\ Len(net[<<Sender, r>>]) < MaxNet
    /\ net' = [net EXCEPT ![<<Sender, r>>] = Append(@, m)]

\* queueCustodyEnvelope: a new outbox item, which a replay in progress, working
\* on a snapshot, leaves alone.
Enqueue(m, r) ==
    /\ queue' = [queue EXCEPT ![r] = @ \cup {m}]
    /\ flush' = IF flush[r].on THEN [flush EXCEPT ![r].again = @ \cup {m}] ELSE flush

-----------------------------------------------------------------------------
(* sendMessage and sendDirectMessage: store the message, then serve the    *)
(* recipients one by one, awaiting encryption and the outbox in between.   *)

Compose(m) ==
    /\ log[m].status = "new"
    /\ log' = [log EXCEPT ![m] = [status |-> "pending", acked |-> {}, read |-> {},
                                   shown |-> IF Direct THEN {} ELSE ready]]
    /\ saved' = [saved EXCEPT ![m] = [Unwritten EXCEPT !.status = "pending"]]
    /\ todo' = [todo EXCEPT ![m] = Recipient]
    /\ sending' = sending \cup {m}
    /\ UNCHANGED <<queue, flush, retry, ready, net, receipts, recipientVars, counters>>

\* Mutant: a status that messages do not have.
EndLoopQueued(m) ==
    /\ sending' = sending \ {m}
    /\ IF log[m].status \in {"sent", "delivered"}
       THEN UNCHANGED <<log, saved>>
       ELSE /\ log' = [log EXCEPT ![m].status = "queued"]
            /\ UNCHANGED saved

\* The end of the loop: the status becomes sent, and the message is saved with
\* the receipt lists it started with.
EndLoop(m) ==
    /\ sending' = sending \ {m}
    /\ IF log[m].status \in {"sent", "delivered"}
       THEN UNCHANGED <<log, saved>>
       ELSE /\ log' = [log EXCEPT ![m].status = "sent"]
            /\ saved' = [saved EXCEPT ![m] = [status |-> "sent", acked |-> {}, read |-> {},
                                              shown |-> log[m].shown]]

\* A recipient that is connected is sent the message; nothing is awaited between
\* the last such send and the end of the loop.
Dispatch(m, r) ==
    /\ m \in sending /\ r \in todo[m] /\ r \in ready
    /\ todo' = [todo EXCEPT ![m] = @ \ {r}]
    /\ Transmit(m, r)
    /\ IF todo[m] = {r} THEN EndLoop(m) ELSE UNCHANGED <<log, saved, sending>>
    /\ UNCHANGED <<queue, flush, retry, ready, receipts, recipientVars, counters>>

\* Not connected, rejected by the transport or not encryptable: into the outbox.
DispatchLater(m, r) ==
    /\ m \in sending /\ r \in todo[m]
    /\ todo' = [todo EXCEPT ![m] = @ \ {r}]
    /\ Enqueue(m, r)
    /\ UNCHANGED <<log, saved, sending, retry, ready, net, receipts, recipientVars, counters>>

\* A direct message that cannot be encrypted is not queued: it stays pending.
DispatchFailed(m) ==
    /\ Direct /\ m \in sending /\ todo[m] # {}
    /\ todo' = [todo EXCEPT ![m] = {}]
    /\ sending' = sending \ {m}
    /\ UNCHANGED <<log, saved, queue, flush, retry, ready, net, receipts, recipientVars, counters>>

FinishSend(m) ==
    /\ m \in sending /\ todo[m] = {}
    /\ EndLoop(m)
    /\ UNCHANGED <<todo, queue, flush, retry, ready, net, receipts, recipientVars, counters>>

-----------------------------------------------------------------------------
(* flushOfflineQueue: replay a snapshot of the outbox and remove what was  *)
(* sent at the end.                                                        *)

FlushBegin(r) ==
    /\ replays < MaxReplays /\ replays' = replays + 1
    /\ r \in ready /\ ~ flush[r].on /\ queue[r] # {}
    /\ flush' = [flush EXCEPT ![r] = [NotFlushing EXCEPT !.left = queue[r], !.on = TRUE]]
    /\ UNCHANGED <<log, saved, todo, sending, queue, retry, ready, net, receipts, recipientVars, faults>>

FlushSend(r, m) ==
    /\ flush[r].on /\ m \in flush[r].left /\ r \in ready
    /\ Transmit(m, r)
    /\ flush' = [flush EXCEPT ![r].left = @ \ {m}, ![r].done = @ \cup {m}]
    /\ Reconcile(m)
    /\ UNCHANGED <<todo, sending, queue, retry, ready, receipts, recipientVars, counters>>

\* Not due yet, or not encryptable now: the item stays for a later replay.
FlushSkip(r, m) ==
    /\ flush[r].on /\ m \in flush[r].left
    /\ flush' = [flush EXCEPT ![r].left = @ \ {m}]
    /\ UNCHANGED <<log, saved, todo, sending, queue, retry, ready, net, receipts, recipientVars, counters>>

\* All served, or the transport rejected one: what was sent is removed.
FlushEnd(r) ==
    /\ flush[r].on
    /\ queue' = [queue EXCEPT ![r] = @ \ (flush[r].done \ flush[r].again)]
    /\ flush' = [flush EXCEPT ![r] = NotFlushing]
    /\ UNCHANGED <<log, saved, todo, sending, retry, ready, net, receipts, recipientVars, counters>>

\* getQueued drops what is expired or out of attempts.
Expire(r, m) ==
    /\ faults < MaxFaults
    /\ m \in queue[r]
    /\ queue' = [queue EXCEPT ![r] = @ \ {m}]
    /\ faults' = faults + 1
    /\ UNCHANGED <<log, saved, todo, sending, flush, retry, ready, net, receipts, recipientVars, replays>>

-----------------------------------------------------------------------------
(* retryUnackedOutgoingForPeer: collect the candidates, replay each; one   *)
(* peer at a time (the global gate).                                       *)

\* Mutant: only what was reported as sent is retried.
RetrySentOnly(r, m) ==
    /\ log[m].status = "sent"
    /\ m \notin queue[r]
    /\ r \notin log[m].acked \cup log[m].read

RetryCandidate(r, m) ==
    /\ log[m].status \in {"pending", "sent"}
    /\ m \notin queue[r]
    /\ r \notin log[m].acked \cup log[m].read

RetryBegin(r) ==
    /\ replays < MaxReplays /\ replays' = replays + 1
    /\ r \in ready /\ \A q \in Recipient : retry[q] = {}
    /\ retry' = [retry EXCEPT ![r] = {m \in Msg : RetryCandidate(r, m)}]
    /\ retry'[r] # {}
    /\ UNCHANGED <<log, saved, todo, sending, queue, flush, ready, net, receipts, recipientVars, faults>>

RetrySend(r, m) ==
    /\ m \in retry[r] /\ r \in ready
    /\ Transmit(m, r)
    /\ retry' = [retry EXCEPT ![r] = @ \ {m}]
    /\ Reconcile(m)
    /\ UNCHANGED <<todo, sending, queue, flush, ready, receipts, recipientVars, counters>>

\* Rejected by the transport, and queued; or it could not be encrypted.
RetryFailed(r, m) ==
    /\ m \in retry[r] /\ r \in ready
    /\ retry' = [retry EXCEPT ![r] = @ \ {m}]
    /\ Enqueue(m, r) \/ UNCHANGED <<queue, flush>>
    /\ UNCHANGED <<log, saved, todo, sending, ready, net, receipts, recipientVars, counters>>

\* The connection went away: the rest waits for the next retry.
RetryEnd(r) ==
    /\ retry[r] # {} /\ r \notin ready
    /\ retry' = [retry EXCEPT ![r] = {}]
    /\ UNCHANGED <<log, saved, todo, sending, queue, flush, ready, net, receipts, recipientVars, counters>>

-----------------------------------------------------------------------------
(* A receipt reaches the sender: the outbox item goes, the message's       *)
(* receipt lists and status are updated and saved.                         *)

Receipt(kind, r, m, via) == [kind |-> kind, from |-> r, msg |-> m, via |-> via]

\* sendInboundReceipt: back along the connection l, if there still is one.
Acknowledge(l, m) ==
    receipts' = IF l[1] = Sender /\ l[2] \notin ready THEN receipts
                ELSE receipts \cup {Receipt("ack", l[2], m, l[1])}

ReceiveReceipt(a) ==
    /\ a \in receipts
    /\ receipts' = receipts \ {a}
    /\ IF log[a.msg].status = "new"
       THEN UNCHANGED <<queue, log, saved>>
       ELSE LET e == applyMessageReceipt(log[a.msg], a.from, a.kind) IN
            /\ queue' = [queue EXCEPT ![a.from] = @ \ {a.msg}]
            /\ log' = [log EXCEPT ![a.msg] = e]
            /\ saved' = [saved EXCEPT ![a.msg] = e]
    /\ UNCHANGED <<todo, sending, flush, retry, ready, net, recipientVars, counters>>

-----------------------------------------------------------------------------
(* The receive path, in lane l of recipient r: take a message, await       *)
(* createMessage, check for duplicates and mark the id as seen, await      *)
(* addMessage, await persistence, acknowledge.                             *)

Newest(r) == IF mem[r] = <<>> THEN {} ELSE {Last(mem[r])}

Holds(r, m) == m \in Range(mem[r])

\* A relayed copy of a message already processed is dropped at once.  A direct
\* message is checked against the seen-cache, and marked, before anything else.
Take(l) ==
    LET r == l[2]
        m == Head(net[l])
        dropped == IF Direct THEN m \in seen[r] ELSE l[1] # Sender /\ m \in gossiped[r]
    IN  /\ lane[l] = Idle /\ net[l] # <<>>
        /\ net' = [net EXCEPT ![l] = Tail(@)]
        /\ seen' = IF Direct THEN [seen EXCEPT ![r] = @ \cup {m}] ELSE seen
        /\ lane' = IF dropped THEN lane
                   ELSE [lane EXCEPT ![l] = [pc |-> "creating", msg |-> m, prev |-> Newest(r)]]
        /\ UNCHANGED <<senderVars, ready, receipts, mem, disk, gossiped, viewed, counters>>

\* The message is held already: a channel saves it again before it acknowledges.
TakeHeld(l) ==
    LET r == l[2]
        m == lane[l].msg
    IN  /\ lane[l].pc = "creating" /\ Holds(r, m)
        /\ IF Direct
           THEN /\ lane' = [lane EXCEPT ![l] = Idle]
                /\ Acknowledge(l, m)
           ELSE /\ lane' = [lane EXCEPT ![l] = [pc |-> "resaving", msg |-> m]]
                /\ UNCHANGED receipts
        /\ UNCHANGED <<senderVars, ready, net, mem, disk, seen, gossiped, viewed, counters>>

\* Mutant: a message held already is saved again without an acknowledgment.
ResavedSilently(l) ==
    /\ lane[l].pc = "resaving"
    /\ disk' = [disk EXCEPT ![l[2]] = @ \cup {lane[l].msg}]
    /\ lane' = [lane EXCEPT ![l] = Idle]
    /\ UNCHANGED <<senderVars, ready, net, receipts, mem, seen, gossiped, viewed, counters>>

Resaved(l) ==
    /\ lane[l].pc = "resaving"
    /\ disk' = [disk EXCEPT ![l[2]] = @ \cup {lane[l].msg}]
    /\ Acknowledge(l, lane[l].msg)
    /\ lane' = [lane EXCEPT ![l] = Idle]
    /\ UNCHANGED <<senderVars, ready, net, mem, seen, gossiped, viewed, counters>>

\* The id was seen, here or in another lane: acknowledge and return.
TakeSeen(l) ==
    LET r == l[2]
        m == lane[l].msg
    IN  /\ lane[l].pc = "creating" /\ ~ Direct
        /\ ~ Holds(r, m) /\ m \in gossiped[r] \cup seen[r]
        /\ lane' = [lane EXCEPT ![l] = Idle]
        /\ Acknowledge(l, m)
        /\ UNCHANGED <<senderVars, ready, net, mem, disk, seen, gossiped, viewed, counters>>

\* Mutant: the id is not marked as seen.
TakeNewUnmarked(l) ==
    LET r == l[2]
        m == lane[l].msg
    IN  /\ lane[l].pc = "creating" /\ ~ Holds(r, m)
        /\ Direct \/ m \notin gossiped[r] \cup seen[r]
        /\ lane' = [lane EXCEPT ![l] = [pc |-> "adding", msg |-> m, ok |-> lane[l].prev = Newest(r)]]
        /\ UNCHANGED <<senderVars, ready, net, receipts, mem, disk, seen, gossiped, viewed, counters>>

\* A new message: addMessage compares its prevHash with the newest message now,
\* which may be one that somebody else wrote meanwhile.
TakeNew(l) ==
    LET r == l[2]
        m == lane[l].msg
    IN  /\ lane[l].pc = "creating" /\ ~ Holds(r, m)
        /\ Direct \/ m \notin gossiped[r] \cup seen[r]
        /\ seen' = [seen EXCEPT ![r] = @ \cup {m}]
        /\ \E ok \in {lane[l].prev = Newest(r)} \cup (IF Busy THEN {FALSE} ELSE {}) :
             lane' = [lane EXCEPT ![l] = [pc |-> "adding", msg |-> m, ok |-> ok]]
        /\ UNCHANGED <<senderVars, ready, net, receipts, mem, disk, gossiped, viewed, counters>>

\* Mutant: acknowledged as soon as it is in memory.
AddedAcksEarly(l) ==
    /\ lane[l].pc = "adding"
    /\ IF lane[l].ok
       THEN /\ mem' = [mem EXCEPT ![l[2]] = Append(@, lane[l].msg)]
            /\ lane' = [lane EXCEPT ![l] = [pc |-> "saving", msg |-> lane[l].msg]]
            /\ Acknowledge(l, lane[l].msg)
       ELSE /\ lane' = [lane EXCEPT ![l] = Idle]
            /\ UNCHANGED <<mem, receipts>>
    /\ UNCHANGED <<senderVars, ready, net, disk, seen, gossiped, viewed, counters>>

\* addMessage ends.  A message it rejects is forgotten, and not acknowledged.
Added(l) ==
    /\ lane[l].pc = "adding"
    /\ IF lane[l].ok
       THEN /\ mem' = [mem EXCEPT ![l[2]] = Append(@, lane[l].msg)]
            /\ lane' = [lane EXCEPT ![l] = [pc |-> "saving", msg |-> lane[l].msg]]
       ELSE /\ lane' = [lane EXCEPT ![l] = Idle]
            /\ UNCHANGED mem
    /\ UNCHANGED <<senderVars, ready, net, receipts, disk, seen, gossiped, viewed, counters>>

\* Persisted: acknowledge, and relay to the members R that are connected.
Saved(l, R) ==
    LET r == l[2]
        m == lane[l].msg
        onward == {<<r, q>> : q \in R}
    IN  /\ lane[l].pc = "saving"
        /\ R \subseteq Recipient \ {r, l[1]}
        /\ Direct => R = {}
        /\ \A k \in onward : Len(net[k]) < MaxNet
        /\ disk' = [disk EXCEPT ![r] = @ \cup {m}]
        /\ Acknowledge(l, m)
        /\ gossiped' = IF Direct THEN gossiped ELSE [gossiped EXCEPT ![r] = @ \cup {m}]
        /\ net' = [k \in Lane |-> IF k \in onward THEN Append(net[k], m) ELSE net[k]]
        /\ lane' = [lane EXCEPT ![l] = Idle]
        /\ UNCHANGED <<senderVars, ready, mem, seen, viewed, counters>>

\* The sweep that forgets relayed ids after five minutes.
GossipCleanup(r, m) ==
    /\ faults < MaxFaults
    /\ m \in gossiped[r]
    /\ gossiped' = [gossiped EXCEPT ![r] = @ \ {m}]
    /\ faults' = faults + 1
    /\ UNCHANGED <<senderVars, ready, net, receipts, mem, disk, seen, viewed, lane, replays>>

\* onChannelViewed, or the end of the handler of a message of the channel on
\* screen: a read receipt for each message in the store, persisted or not.
Show(r, m) ==
    /\ Holds(r, m) /\ m \notin viewed[r] /\ r \in ready
    /\ viewed' = [viewed EXCEPT ![r] = @ \cup {m}]
    /\ receipts' = receipts \cup {Receipt("read", r, m, Sender)}
    /\ UNCHANGED <<senderVars, ready, net, mem, disk, seen, gossiped, lane, counters>>

-----------------------------------------------------------------------------
(* Connections and restarts.  A lost connection loses what the other side  *)
(* has not yet received: a suffix, and any receipts.                       *)

Connect(r) ==
    /\ r \notin ready
    /\ ready' = ready \cup {r}
    /\ UNCHANGED <<senderVars, net, receipts, recipientVars, counters>>

Cut(L, lost) ==
    \E keep \in [L -> 0..MaxNet] :
      /\ \A l \in L : keep[l] <= Len(net[l])
      /\ net' = [l \in Lane |-> IF l \in L THEN SubSeq(net[l], 1, keep[l]) ELSE net[l]]
      /\ receipts' \in {receipts, receipts \ lost}

Disconnect(r) ==
    /\ faults < MaxFaults /\ r \in ready
    /\ ready' = ready \ {r}
    /\ Cut({<<Sender, r>>}, {a \in receipts : a.from = r /\ a.via = Sender})
    /\ faults' = faults + 1
    /\ UNCHANGED <<senderVars, recipientVars, replays>>

\* The sender's client is closed and opened again: memory is what was saved.
RestartSender ==
    /\ faults < MaxFaults
    /\ log' = saved
    /\ todo' = [m \in Msg |-> {}]
    /\ sending' = {}
    /\ flush' = [r \in Recipient |-> NotFlushing]
    /\ retry' = [r \in Recipient |-> {}]
    /\ ready' = {}
    /\ receipts' = {}
    /\ net' = [l \in Lane |-> IF l[1] = Sender THEN <<>> ELSE net[l]]
    /\ faults' = faults + 1
    /\ UNCHANGED <<saved, queue, recipientVars, replays>>

\* A recipient's is: it loads what it persisted, and has seen nothing.
RestartRecipient(r) ==
    LET own == {l \in Lane : l[2] = r}
    IN  /\ faults < MaxFaults
        /\ mem' \in {[mem EXCEPT ![r] = s] : s \in SetToSeqs(disk[r])}
        /\ seen' = [seen EXCEPT ![r] = {}]
        /\ gossiped' = [gossiped EXCEPT ![r] = {}]
        /\ viewed' = [viewed EXCEPT ![r] = @ \cap disk[r]]
        /\ lane' = [l \in Lane |-> IF l \in own THEN Idle ELSE lane[l]]
        /\ ready' = ready \ {r}
        /\ net' = [l \in Lane |-> IF l \in own THEN <<>> ELSE net[l]]
        /\ receipts' = {a \in receipts : a.from # r /\ a.via # r}
        /\ faults' = faults + 1
        /\ UNCHANGED <<senderVars, disk, replays>>

-----------------------------------------------------------------------------
SenderStep ==
    \/ \E m \in Msg : Compose(m) \/ DispatchFailed(m) \/ FinishSend(m)
    \/ \E m \in Msg, r \in Recipient :
         \/ Dispatch(m, r) \/ DispatchLater(m, r)
         \/ FlushSend(r, m) \/ FlushSkip(r, m) \/ RetrySend(r, m) \/ RetryFailed(r, m)
    \/ \E r \in Recipient : FlushBegin(r) \/ FlushEnd(r) \/ RetryBegin(r) \/ RetryEnd(r)
    \/ \E a \in receipts : ReceiveReceipt(a)

RecipientStep ==
    \/ \E l \in Lane : Take(l) \/ TakeHeld(l) \/ Resaved(l) \/ TakeSeen(l) \/ TakeNew(l) \/ Added(l)
    \/ \E l \in Lane, R \in SUBSET Recipient : Saved(l, R)
    \/ \E r \in Recipient, m \in Msg : Show(r, m)

FaultStep ==
    \/ RestartSender
    \/ \E r \in Recipient : Connect(r) \/ Disconnect(r) \/ RestartRecipient(r)
    \/ \E r \in Recipient, m \in Msg : Expire(r, m) \/ GossipCleanup(r, m)

Next == SenderStep \/ RecipientStep \/ FaultStep

Spec == Init /\ [][Next]_vars

-----------------------------------------------------------------------------
(* Properties.                                                             *)

Entry == [status : {"new", "pending", "sent", "delivered", "read"},
          acked : SUBSET Recipient, read : SUBSET Recipient, shown : SUBSET Recipient]

Replay == [left : SUBSET Msg, done : SUBSET Msg, again : SUBSET Msg, on : BOOLEAN]

LaneType ==
    {Idle}
      \cup [pc : {"creating"}, msg : Msg, prev : SUBSET Msg]
      \cup [pc : {"resaving", "saving"}, msg : Msg]
      \cup [pc : {"adding"}, msg : Msg, ok : BOOLEAN]

\* Type invariant of both sides and the network.
TypeOK ==
    /\ log \in [Msg -> Entry] /\ saved \in [Msg -> Entry]
    /\ todo \in [Msg -> SUBSET Recipient] /\ sending \subseteq Msg
    /\ queue \in [Recipient -> SUBSET Msg]
    /\ flush \in [Recipient -> Replay]
    /\ retry \in [Recipient -> SUBSET Msg] /\ ready \subseteq Recipient
    /\ net \in [Lane -> Seq(Msg)]
    /\ receipts \subseteq [kind : {"ack", "read"}, from : Recipient, msg : Msg,
                           via : Recipient \cup {Sender}]
    /\ mem \in [Recipient -> Seq(Msg)] /\ disk \in [Recipient -> SUBSET Msg]
    /\ seen \in [Recipient -> SUBSET Msg] /\ gossiped \in [Recipient -> SUBSET Msg]
    /\ viewed \in [Recipient -> SUBSET Msg]
    /\ lane \in [Lane -> LaneType]
    /\ replays \in 0..MaxReplays /\ faults \in 0..MaxFaults

\* A message whose acknowledgment is on its way is on its recipient's disk: an
\* ack is sent "after successfully receiving, decrypting, and persisting"
\* (DEP-005), whatever was lost, replayed or restarted before.
AckedIsPersisted == \A a \in receipts : a.kind = "ack" => a.msg \in disk[a.from]

\* The status shown for a message is no better than the receipts behind it, in
\* memory and in what a restart will load.
StatusJustified ==
    \A m \in Msg : \A e \in {log[m], saved[m]} :
      /\ e.status = "delivered" => StatusRecipients(e) \subseteq e.acked
      /\ e.status = "read" => StatusRecipients(e) \subseteq e.read
      /\ e.read \subseteq e.acked

\* However often a message is replayed, retried or relayed, a recipient stores
\* it once.
StoredOnce == \A r \in Recipient : IsInjective(mem[r])

Copies(r, m) ==
    \/ Holds(r, m) \/ m \in disk[r]
    \/ \E l \in Lane : l[2] = r /\ (m \in Range(net[l]) \/ (lane[l] # Idle /\ lane[l].msg = m))

\* A message that the sender's loop is done with and a recipient has no copy of,
\* arrived or in flight, and never displayed, is in the outbox for it or will be
\* retried: a copy lost with its connection is sent again ("prevents message loss
\* during reconnect/refresh races").
LostCopyIsResent ==
    \A m \in Msg, r \in Recipient :
      log[m].status # "new" /\ m \notin sending /\ ~ Copies(r, m) /\ r \notin log[m].read
        => m \in queue[r] \/ RetryCandidate(r, m)

\* The status of a message only goes up, until the client is restarted.
StatusNeverRegresses ==
    [][faults' = faults => \A m \in Msg : Rank[log'[m].status] >= Rank[log[m].status]]_vars

\* The handler of l is done with a copy of m in this step, in the same session.
Handled(l, m) ==
    /\ faults' = faults /\ lane'[l] = Idle
    /\ \/ lane[l] # Idle /\ lane[l].msg = m
       \/ lane[l] = Idle /\ net[l] # <<>> /\ Head(net[l]) = m /\ net'[l] = Tail(net[l])

\* When the sender sends a message its recipient already has, the recipient
\* acknowledges it again ("ack it so the sender stops retrying").
HeldIsAckedAgain ==
    [][\A r \in Recipient, m \in Msg :
         Handled(<<Sender, r>>, m) /\ Holds(r, m)' /\ r \in ready
           => Receipt("ack", r, m, Sender) \in receipts']_vars
=============================================================================
