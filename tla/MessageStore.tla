---------------------------- MODULE MessageStore ----------------------------
(***************************************************************************)
(* decent-protocol/src/messages/MessageStore.ts: the in-memory message log *)
(* of one client, per channel an array of messages linked by prevHash and  *)
(* a set of the ids in it, together with the hash chain it is built on     *)
(* (crypto/HashChain.ts).                                                  *)
(*                                                                         *)
(* createMessage, addMessage and importMessages are asynchronous: they     *)
(* read the channel, await a SHA-256 digest, and go on with what they      *)
(* read.  A Caller is one such call in progress; everything else may run   *)
(* between its steps.  The callers are the send, receive and scroll-back   *)
(* paths of the clients (ChatController.ts 2439-2497, 7779-7793 and        *)
(* 9537-9557).                                                             *)
(*                                                                         *)
(* Message content is not modelled: every message is one whose content     *)
(* passes validateMessageContentLength.                                    *)
(***************************************************************************)
EXTENDS Integers, Sequences, FiniteSets, Functions

CONSTANTS
    Id,           \* message ids
    Channel,      \* channel ids
    Caller,       \* asynchronous calls that may be in progress at once
    Start,        \* hashes the first of a batch of messages may carry
    MaxTime,      \* bound: Date.now() and every timestamp are in 1..MaxTime
    MaxLen,       \* bound: messages in a channel
    MaxBatch,     \* bound: messages in one batch
    Overlap       \* TRUE: calls overlap; FALSE: each call waits for the one before

Time == 1..MaxTime

\* SHA-256 is taken to be injective: the digest of a message is the list of the
\* (id, timestamp) pairs it commits to, its own last.
Hash == Seq(Id \X Time)

ASSUME ConstantsAssumption ==
    /\ Start \subseteq Hash
    /\ MaxTime \in Nat
    /\ MaxLen \in Nat
    /\ MaxBatch \in Nat
    /\ Overlap \in BOOLEAN

VARIABLES
    channels,       \* channel -> its messages; a channel not in the Map is <<>>
    channelIdSets,  \* channel -> the ids the duplicate check looks at
    call            \* caller -> the asynchronous call it is in

vars == <<channels, channelIdSets, call>>

\* Date.now() is not assumed to advance between two reads, nor to be in step
\* with the clocks of other peers: any time may be read.

-----------------------------------------------------------------------------
(* Messages and the hash chain; channelId is not hashed.                   *)

GENESIS_HASH == <<>>

Message == [id : Id, channelId : Channel, timestamp : Time, prevHash : Hash]

hashMessage(m) == Append(m.prevHash, <<m.id, m.timestamp>>)

\* HashChain.verifyFullChain: a genesis start, every message linked to the one before.
verifyFullChain(s) ==
    /\ s # <<>> => s[1].prevHash = GENESIS_HASH
    /\ \A i \in 2..Len(s) : s[i].prevHash = hashMessage(s[i - 1])

IdsOf(s) == {s[i].id : i \in DOMAIN s}

TimeOrdered(s) == \A i, j \in DOMAIN s : i < j => s[i].timestamp <= s[j].timestamp

\* Distinct ids, and the channel's own.
DistinctIds(s) == \A i, j \in DOMAIN s : i # j => s[i].id # s[j].id

InChannel(s, c) == \A i \in DOMAIN s : s[i].channelId = c

\* What other code hands over, a peer's or the disk's messages of channel c: in
\* timestamp order, with distinct ids, linked to one another.  The first one
\* carries a hash of Start: not the genesis hash if older ones were trimmed.
Entries ==
    UNION {{e \in [1..n -> Id \X Time] :
               \A i, j \in 1..n : i < j => e[i][1] # e[j][1] /\ e[i][2] <= e[j][2]}
           : n \in 1..MaxBatch}

Linked(c, h, e) ==
    [i \in DOMAIN e |-> [id |-> e[i][1], channelId |-> c, timestamp |-> e[i][2],
                         prevHash |-> h \o SubSeq(e, 1, i - 1)]]

Supplied(c) == {Linked(c, h, e) : h \in Start, e \in Entries}

-----------------------------------------------------------------------------
(* What Array.filter and the stable Array.sort leave of an array w: the    *)
(* elements at the positions `keep', in the order a bijection p gives.     *)

Selections(keep) == Bijection(1..Cardinality(keep), keep)

Pick(w, p) == [k \in DOMAIN p |-> w[p[k]]]

SortedByTime(w, keep) ==
    {Pick(w, p) : p \in {q \in Selections(keep) : \A i, j \in DOMAIN q : i < j =>
        \/ w[q[i]].timestamp < w[q[j]].timestamp
        \/ w[q[i]].timestamp = w[q[j]].timestamp /\ q[i] < q[j]}}

Filtered(w, keep) ==
    {Pick(w, p) : p \in {q \in Selections(keep) : \A i, j \in DOMAIN q : i < j => q[i] < q[j]}}

\* Positions of s \o b that survive deduplication of b against `ids'.
Undup(s, b, ids) == {i \in 1..(Len(s) + Len(b)) :
                        i > Len(s) => b[i - Len(s)].id \notin ids}

\* The results upperBoundTimestamp can return: the binary search ends between
\* a timestamp <= t and one > t.  There is exactly one such place when s is in
\* timestamp order.
upperBoundTimestamp(s, t) ==
    {k \in 0..Len(s) : /\ k > 0 => s[k].timestamp <= t
                       /\ k < Len(s) => s[k + 1].timestamp > t}

-----------------------------------------------------------------------------
(* Calls in progress.                                                      *)

Idle == [pc |-> "idle"]
Settled == {"idle", "added"}

\* May a new operation start?  Under ~Overlap only when none is in progress.
MayStart == Overlap \/ \A d \in Caller : call[d].pc \in Settled

\* The channels in C got new arrays: an addMessage that awaits its digest still
\* holds the array it read, which is no longer in the Map.
Detached(f, C) ==
    [d \in Caller |->
        IF f[d].pc = "verifying" /\ f[d].msg.channelId \in C
        THEN [f[d] EXCEPT !.attached = FALSE]
        ELSE f[d]]

\* Mutant: the message instead of its id goes into the id set.
PushWholeMessage(m) ==
    /\ channels' = [channels EXCEPT ![m.channelId] = Append(@, m)]
    /\ channelIdSets' = [channelIdSets EXCEPT ![m.channelId] = @ \cup {m}]

Push(m) ==
    /\ channels' = [channels EXCEPT ![m.channelId] = Append(@, m)]
    /\ channelIdSets' = [channelIdSets EXCEPT ![m.channelId] = @ \cup {m.id}]

Init ==
    /\ channels = [c \in Channel |-> <<>>]
    /\ channelIdSets = [c \in Channel |-> {}]
    /\ call = [d \in Caller |-> Idle]

-----------------------------------------------------------------------------
(* createMessage: read the last message, await its digest, build the       *)
(* message with a fresh id and the current time.                           *)

CreateMessage(d, c) ==
    /\ MayStart
    /\ call[d].pc \in Settled
    /\ LET s == channels[c] IN
       call' = [call EXCEPT ![d] =
                  [pc |-> "creating", channelId |-> c,
                   prevHash |-> IF s = <<>> THEN GENESIS_HASH ELSE hashMessage(s[Len(s)])]]
    /\ UNCHANGED <<channels, channelIdSets>>

CreateFinish(d) ==
    /\ call[d].pc = "creating"
    /\ \E i \in Id, t \in Time :
         /\ \A c \in Channel : i \notin IdsOf(channels[c])
         /\ \A e \in Caller : call[e].pc \in {"created", "verifying"} => call[e].msg.id # i
         /\ call' = [call EXCEPT ![d] =
                       [pc |-> "created",
                        msg |-> [id |-> i, channelId |-> call[d].channelId,
                                 timestamp |-> t, prevHash |-> call[d].prevHash]]]
    /\ UNCHANGED <<channels, channelIdSets>>

-----------------------------------------------------------------------------
(* addMessage, up to its await: the duplicate check, the genesis check of  *)
(* an empty channel (which needs no digest), or reading the last message.  *)

BeginAdd(d, m) ==
    LET s == channels[m.channelId]
        settle(r) == call' = [call EXCEPT ![d] = [pc |-> r]]
    IN  \/ /\ \/ m.id \in channelIdSets[m.channelId]
              \/ s = <<>> /\ m.prevHash # GENESIS_HASH
           /\ settle("idle")
           /\ UNCHANGED <<channels, channelIdSets>>
        \/ /\ m.id \notin channelIdSets[m.channelId]
           /\ s = <<>> /\ m.prevHash = GENESIS_HASH
           /\ settle("added")
           /\ Push(m)
        \/ /\ m.id \notin channelIdSets[m.channelId]
           /\ s # <<>> /\ Len(s) < MaxLen
           /\ call' = [call EXCEPT ![d] = [pc |-> "verifying", msg |-> m,
                                           last |-> s[Len(s)], attached |-> TRUE]]
           /\ UNCHANGED <<channels, channelIdSets>>

\* The send path adds what it created (ChatController.ts 7779-7793).
AddCreated(d) ==
    /\ call[d].pc = "created"
    /\ BeginAdd(d, call[d].msg)

\* The receive path takes the sender's id, and the sender's timestamp raised
\* above the last local one.  It returns early for an id that is stored in some
\* channel, or that it marked as seen in a call still in progress; an older mark
\* may have left the bounded seen-cache (ChatController.ts 2439-2497).
AddReceived(d, i, t) ==
    /\ call[d].pc = "created"
    /\ \A c \in Channel : i \notin IdsOf(channels[c])
    /\ \A e \in Caller : call[e].pc = "verifying" => call[e].msg.id # i
    /\ LET s == channels[call[d].msg.channelId]
           floor == IF s = <<>> THEN 1 ELSE s[Len(s)].timestamp + 1
           stamp == IF t > floor THEN t ELSE floor
       IN  /\ stamp \in Time
           /\ BeginAdd(d, [call[d].msg EXCEPT !.id = i, !.timestamp = stamp])

\* SyncProtocol.handleChannelMessage adds the message as it came over the wire.
AddWire(d, c, b) ==
    /\ MayStart
    /\ call[d].pc \in Settled
    /\ b \in Supplied(c) /\ Len(b) = 1
    /\ BeginAdd(d, b[1])

\* Mutant: the message is recorded as known but never stored.
AddFinishNoPush(d) ==
    /\ call[d].pc = "verifying"
    /\ call' = [call EXCEPT ![d] = [pc |-> "added"]]
    /\ channelIdSets' = [channelIdSets EXCEPT ![call[d].msg.channelId] = @ \cup {call[d].msg.id}]
    /\ UNCHANGED channels

\* Mutant: the digest is awaited and not compared.
AddFinishUnchecked(d) ==
    /\ call[d].pc = "verifying"
    /\ call' = [call EXCEPT ![d] = [pc |-> "added"]]
    /\ IF call[d].attached THEN Push(call[d].msg) ELSE UNCHANGED <<channels, channelIdSets>>

\* addMessage after its await, with the array, the id set and the last message
\* it read before.
AddFinish(d) ==
    /\ call[d].pc = "verifying"
    /\ LET m == call[d].msg
           ok == /\ m.prevHash = hashMessage(call[d].last)
                 /\ m.timestamp > call[d].last.timestamp
       IN  /\ call' = [call EXCEPT ![d] = [pc |-> IF ok THEN "added" ELSE "idle"]]
           /\ IF ok /\ call[d].attached
              THEN Push(m)
              ELSE UNCHANGED <<channels, channelIdSets>>

-----------------------------------------------------------------------------
(* importMessages replaces the channel by a peer's history: at once when   *)
(* content was left out of it, after verifyFullChain otherwise.            *)

Replace(c, s, callAfter) ==
    /\ channels' = [channels EXCEPT ![c] = s]
    /\ channelIdSets' = [channelIdSets EXCEPT ![c] = IdsOf(s)]
    /\ call' = Detached(callAfter, {c})

ImportMetadata(c, b) ==
    /\ MayStart
    /\ b \in Supplied(c)
    /\ Replace(c, b, call)

ImportMessages(d, c, b) ==
    /\ MayStart
    /\ call[d].pc \in Settled
    /\ b \in Supplied(c)
    /\ call' = [call EXCEPT ![d] = [pc |-> "importing", channelId |-> c, batch |-> b]]
    /\ UNCHANGED <<channels, channelIdSets>>

ImportFinish(d) ==
    /\ call[d].pc = "importing"
    /\ LET settled == [call EXCEPT ![d] = Idle] IN
       IF verifyFullChain(call[d].batch)
       THEN Replace(call[d].channelId, call[d].batch, settled)
       ELSE /\ call' = settled
            /\ UNCHANGED <<channels, channelIdSets>>

-----------------------------------------------------------------------------
(* The synchronous operations.                                             *)

ForceAdd(c, b) ==
    /\ MayStart
    /\ b \in Supplied(c) /\ Len(b) = 1
    /\ b[1].id \notin channelIdSets[c]
    /\ Len(channels[c]) < MaxLen
    /\ \E k \in upperBoundTimestamp(channels[c], b[1].timestamp) :
         channels' = [channels EXCEPT ![c] =
                        SubSeq(@, 1, k) \o b \o SubSeq(@, k + 1, Len(@))]
    /\ channelIdSets' = [channelIdSets EXCEPT ![c] = @ \cup {b[1].id}]
    /\ UNCHANGED call

BulkAdd(c, b) ==
    /\ MayStart
    /\ b \in Supplied(c)
    /\ ~ (IdsOf(b) \subseteq channelIdSets[c])
    /\ Len(channels[c]) + Len(b) <= MaxLen
    /\ \E s \in SortedByTime(channels[c] \o b, Undup(channels[c], b, channelIdSets[c])) :
         channels' = [channels EXCEPT ![c] = s]
    /\ channelIdSets' = [channelIdSets EXCEPT ![c] = @ \cup IdsOf(b)]
    /\ UNCHANGED call

\* Messages move to newId with their channelId rewritten, merged and sorted.
\* Both arrays are gone afterwards.
RemapChannel(oldId, newId) ==
    /\ MayStart
    /\ oldId # newId
    /\ channels[oldId] # <<>>
    /\ Len(channels[oldId]) + Len(channels[newId]) <= MaxLen
    /\ LET s == channels[newId]
           b == [i \in DOMAIN channels[oldId] |->
                    [channels[oldId][i] EXCEPT !.channelId = newId]]
       IN  \E merged \in SortedByTime(s \o b, Undup(s, b, channelIdSets[newId])) :
             /\ channels' = [channels EXCEPT ![newId] = merged, ![oldId] = <<>>]
             /\ channelIdSets' = [channelIdSets EXCEPT ![newId] = IdsOf(merged),
                                                       ![oldId] = {}]
    /\ call' = Detached(call, {oldId, newId})

\* Mutant: the ids of evicted messages stay in the id set.
TrimChannelKeepsIds(c, maxSize) ==
    /\ MayStart
    /\ Len(channels[c]) > maxSize
    /\ channels' = [channels EXCEPT ![c] = SubSeq(@, Len(@) - maxSize + 1, Len(@))]
    /\ UNCHANGED <<channelIdSets, call>>

TrimChannel(c, maxSize) ==
    /\ MayStart
    /\ Len(channels[c]) > maxSize
    /\ LET s == channels[c]
           evictCount == Len(s) - maxSize
       IN  /\ channels' = [channels EXCEPT ![c] = SubSeq(s, evictCount + 1, Len(s))]
           /\ channelIdSets' = [channelIdSets EXCEPT ![c] = @ \ IdsOf(SubSeq(s, 1, evictCount))]
    /\ UNCHANGED call

ClearChannel(c) ==
    /\ MayStart
    /\ channels' = [channels EXCEPT ![c] = <<>>]
    /\ channelIdSets' = [channelIdSets EXCEPT ![c] = {}]
    /\ call' = Detached(call, {c})

-----------------------------------------------------------------------------
(* Scrolling back: read the oldest timestamp, await the messages stored    *)
(* before it, prepend those whose ids are new (ChatController.ts           *)
(* 9537-9557, prependMessages).                                            *)

LoadOlder(d, c) ==
    /\ MayStart
    /\ call[d].pc \in Settled
    /\ \A e \in Caller : call[e].pc = "loading" => call[e].channelId # c
    /\ \E t \in IF channels[c] = <<>> THEN Time ELSE {channels[c][1].timestamp} :
         call' = [call EXCEPT ![d] = [pc |-> "loading", channelId |-> c, before |-> t]]
    /\ UNCHANGED <<channels, channelIdSets>>

PrependMessages(d, older) ==
    /\ call[d].pc = "loading"
    /\ LET c == call[d].channelId IN
       /\ older \in Supplied(c)
       /\ \A i \in DOMAIN older : older[i].timestamp < call[d].before
       /\ Len(older) + Len(channels[c]) <= MaxLen
       /\ \E fresh \in Filtered(older, {i \in DOMAIN older : older[i].id \notin channelIdSets[c]}) :
            channels' = [channels EXCEPT ![c] = fresh \o @]
       /\ channelIdSets' = [channelIdSets EXCEPT ![c] = @ \cup IdsOf(older)]
    /\ call' = [call EXCEPT ![d] = Idle]

\* Nothing older is stored.
LoadedNothing(d) ==
    /\ call[d].pc = "loading"
    /\ call' = [call EXCEPT ![d] = Idle]
    /\ UNCHANGED <<channels, channelIdSets>>

-----------------------------------------------------------------------------
CallStep(d) ==
    \/ CreateFinish(d)
    \/ AddCreated(d)
    \/ \E i \in Id, t \in Time : AddReceived(d, i, t)
    \/ AddFinish(d)
    \/ ImportFinish(d)
    \/ LoadedNothing(d)
    \/ \E c \in Channel :
         \/ CreateMessage(d, c)
         \/ LoadOlder(d, c)
         \/ \E b \in Supplied(c) : \/ AddWire(d, c, b)
                                \/ ImportMessages(d, c, b)
                                \/ PrependMessages(d, b)

SyncStep ==
    \E c \in Channel :
      \/ \E b \in Supplied(c) : ImportMetadata(c, b) \/ ForceAdd(c, b) \/ BulkAdd(c, b)
      \/ \E newId \in Channel : RemapChannel(c, newId)
      \/ \E maxSize \in 0..MaxLen : TrimChannel(c, maxSize)
      \/ ClearChannel(c)

Next == (\E d \in Caller : CallStep(d)) \/ SyncStep

Spec == Init /\ [][Next]_vars

-----------------------------------------------------------------------------
(* Properties.                                                             *)

\* Calls carry what their program counter says.
CallType ==
    [pc : Settled]
      \cup [pc : {"creating"}, channelId : Channel, prevHash : Hash]
      \cup [pc : {"created"}, msg : Message]
      \cup [pc : {"verifying"}, msg : Message, last : Message, attached : BOOLEAN]
      \cup [pc : {"importing"}, channelId : Channel, batch : Seq(Message)]
      \cup [pc : {"loading"}, channelId : Channel, before : Time]

\* Type invariant: arrays of messages, sets of ids, one call per caller.
TypeOK ==
    /\ channels \in [Channel -> Seq(Message)]
    /\ channelIdSets \in [Channel -> SUBSET Id]
    /\ call \in [Caller -> CallType]

\* The duplicate check looks at exactly the ids that are in the channel
\* (validateInvariants: size parity, array to set and set to array).
IdSetsExact == \A c \in Channel : channelIdSets[c] = IdsOf(channels[c])

\* No id is twice in a channel (validateInvariants; "Reject duplicate IDs early
\* to keep insertions replay-safe").
NoDuplicateIds == \A c \in Channel : DistinctIds(channels[c])

\* Channels are in timestamp order (validateInvariants); forceAdd's binary
\* search and trimChannel's choice of the oldest rest on it.
TimestampOrder == \A c \in Channel : TimeOrdered(channels[c])

\* A message names the channel it is stored in, also after a remap.
ChannelIdMatch == \A c \in Channel : InChannel(channels[c], c)

\* What validateInvariants asserts of the store, as one invariant: it must
\* survive every sequence of adds, imports, bulk loads, remaps and trims.
validateInvariants ==
    IdSetsExact /\ NoDuplicateIds /\ TimestampOrder /\ ChannelIdMatch

\* The addMessage of d, back from its await, reports success in this step.
Accepts(d) == call[d].pc = "verifying" /\ call'[d].pc = "added"

\* A message that addMessage reports as added is in the channel.
AcceptedIsStored ==
    [][\A d \in Caller : Accepts(d) =>
          LET m == call[d].msg IN
          \E i \in DOMAIN channels'[m.channelId] : channels'[m.channelId][i] = m]_vars

\* A message that addMessage reports as added is linked to the message before it
\* in the channel and is later than it ("Verifies hash chain integrity before
\* adding").
AcceptedExtendsChain ==
    [][\A d \in Caller : Accepts(d) =>
          LET m == call[d].msg
              s == channels'[m.channelId]
              n == Len(s)
          IN  n > 0 /\ s[n] = m =>
                IF n = 1 THEN m.prevHash = GENESIS_HASH
                ELSE m.prevHash = hashMessage(s[n - 1]) /\ m.timestamp > s[n - 1].timestamp]_vars
=============================================================================
