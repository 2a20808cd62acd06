--------------------------- MODULE DoubleRatchet ---------------------------
(***************************************************************************)
(* decent-protocol/src/crypto/DoubleRatchet.ts: one session of two peers,  *)
(* as MessageProtocol.encryptMessage and decryptMessage drive it.  Alice   *)
(* is the peer with the lower id: she can send at once; Bob can send when  *)
(* he has received.                                                        *)
(*                                                                         *)
(* Keys are symbolic.  A key pair of a peer is its number, 0 for none.  A  *)
(* DH output is the two key pairs it comes from.  A root key is the list   *)
(* of the DH outputs mixed into it, and the chain derived together with it *)
(* has the same name; a chain key or a message key is the chain and how    *)
(* often the chain was advanced.  Decryption succeeds exactly with the key *)
(* the message was encrypted with.                                         *)
(*                                                                         *)
(* encrypt and decrypt are asynchronous and work on one object: what they  *)
(* do between two awaits is one step.  The inbound queue of a peer         *)
(* decrypts one message at a time; nothing keeps the send loop, a retry, a *)
(* flush and a relay from encrypting at once, or while a message is being  *)
(* decrypted (ChatController.ts 6521, 11145, 11217, 5537).                 *)
(***************************************************************************)
EXTENDS Integers, Sequences, FiniteSets

CONSTANTS
    Alice, Bob,   \* the two peers
    Caller,       \* encryptions a peer may have in progress at once
    MAX_SKIP,     \* message keys that one message may skip
    MaxSend,      \* bound: peer -> messages it sends
    MaxCopies,    \* bound: messages that arrive once more
    Overlap       \* TRUE: a peer's calls overlap; FALSE: each waits for the one before

ASSUME ConstantsAssumption ==
    /\ Alice # Bob
    /\ MAX_SKIP \in Nat
    /\ MaxSend \in [{Alice, Bob} -> Nat]
    /\ MaxCopies \in Nat
    /\ Overlap \in BOOLEAN

VARIABLES
    state,        \* peer -> its RatchetState
    encrypting,   \* peer -> caller -> the encryption it is in
    decrypting,   \* peer -> the decryption in progress
    net,          \* messages that may still arrive, in any order or never
    sent,         \* history: every message sent
    opened,       \* history: messages that were decrypted
    copies,       \* how often a message was left in net to arrive once more
    overrun       \* history: MAX_SKIP was exceeded, or a message came twice

vars == <<state, encrypting, decrypting, net, sent, opened, copies, overrun>>

Peer == {Alice, Bob}

other(p) == IF p = Alice THEN Bob ELSE Alice

-----------------------------------------------------------------------------
(* Keys and messages.                                                      *)

Root == Seq(Nat \X Nat)

Key == [chain : Root, n : Nat]

\* The root keys of a session begin with the secret of the handshake, from
\* which no chain is derived.
SharedSecret == <<>>

NoKey == [chain |-> SharedSecret, n |-> 0]

\* deriveSharedSecret of p's key pair `own' and the other's `peer'; rootKDF.
rootKDF(p, root, own, peer) ==
    Append(root, IF p = Alice THEN <<own, peer>> ELSE <<peer, own>>)

FirstKey(root) == [chain |-> root, n |-> 0]

\* chainKDF: the message key of a chain key has its name.
nextChainKey(k) == [k EXCEPT !.n = @ + 1]

RatchetState ==
    [dhKeyPair : Nat, peerDHPublicKey : Nat, rootKey : Root,
     sendChainKey : Key, recvChainKey : Key,
     sendCount : Nat, recvCount : Nat, previousSendCount : Nat,
     skippedKeys : Seq([dh : Nat, n : Nat, key : Key])]

\* The header, who sent it, its key, and its number among all the sender's messages.
Message ==
    [from : Peer, dhPublicKey : Nat, previousCount : Nat, messageNumber : Nat,
     key : Key, no : Nat]

-----------------------------------------------------------------------------
(* Skipped message keys, in the order of the Map.  An id is stored at most *)
(* once while the counters of the peers agree, so that storing appends.    *)

SkipsTooMany(s, until) == s.recvCount + MAX_SKIP < until

\* Mutant: the skipped keys are numbered one too low.
NumberedLow(s, until) ==
    [i \in 1..(until - s.recvCount) |->
        [dh |-> s.peerDHPublicKey, n |-> s.recvCount + i - 2,
         key |-> [s.recvChainKey EXCEPT !.n = @ + i - 1]]]

\* The keys from recvCount on up to `until', and the Map with them.  Storing one
\* by one prunes when 2 * MAX_SKIP is exceeded, to the newest MAX_SKIP; at most
\* MAX_SKIP are stored, so that this happens at most once.
Skipped(s, until) ==
    [i \in 1..(until - s.recvCount) |->
        [dh |-> s.peerDHPublicKey, n |-> s.recvCount + i - 1,
         key |-> [s.recvChainKey EXCEPT !.n = @ + i - 1]]]

Stored(s, until) == s.skippedKeys \o Skipped(s, until)

Prunes(s, until) == Len(Stored(s, until)) > 2 * MAX_SKIP

skipMessageKeys(s, until) ==
    IF until <= s.recvCount THEN s
    ELSE [s EXCEPT !.recvChainKey.n = @ + (until - s.recvCount),
                   !.recvCount = until,
                   !.skippedKeys = IF Prunes(s, until)
                                   THEN SubSeq(Stored(s, until), MAX_SKIP + 2, Len(Stored(s, until)))
                                   ELSE Stored(s, until)]

\* Where the key of message m is in the Map of s, if it is.
Slots(s, m) ==
    {i \in DOMAIN s.skippedKeys : /\ s.skippedKeys[i].dh = m.dhPublicKey
                                  /\ s.skippedKeys[i].n = m.messageNumber}

\* Mutant: the key stays in the Map after it was used.
KeepSlot(q, i) == q

Without(q, i) == SubSeq(q, 1, i - 1) \o SubSeq(q, i + 1, Len(q))

-----------------------------------------------------------------------------
(* The two halves of dhRatchetStep: the receiving chain from the key pair  *)
(* there is, the sending chain from a new one.                             *)

NewReceivingChain(p, s) ==
    LET root == rootKDF(p, s.rootKey, s.dhKeyPair, s.peerDHPublicKey)
    IN  [s EXCEPT !.rootKey = root, !.recvChainKey = FirstKey(root),
                  !.dhKeyPair = @ + 1]

\* Mutant: the sending chain is derived from the receiving chain's root again.
SameSendingChain(p, s) ==
    [s EXCEPT !.sendChainKey = FirstKey(s.rootKey)]

NewSendingChain(p, s) ==
    LET root == rootKDF(p, s.rootKey, s.dhKeyPair, s.peerDHPublicKey)
    IN  [s EXCEPT !.rootKey = root, !.sendChainKey = FirstKey(root)]

\* Mutant: the header of the next chain does not say how long this one was.
ForgetLength(s, dh) ==
    [s EXCEPT !.peerDHPublicKey = dh, !.sendCount = 0, !.recvCount = 0]

NewPeerKey(s, dh) ==
    [s EXCEPT !.peerDHPublicKey = dh, !.previousSendCount = s.sendCount,
              !.sendCount = 0, !.recvCount = 0]

-----------------------------------------------------------------------------
initAlice ==
    LET root == rootKDF(Alice, SharedSecret, 1, 1)
    IN  [dhKeyPair |-> 1, peerDHPublicKey |-> 1, rootKey |-> root,
         sendChainKey |-> FirstKey(root), recvChainKey |-> NoKey,
         sendCount |-> 0, recvCount |-> 0, previousSendCount |-> 0, skippedKeys |-> <<>>]

initBob ==
    [dhKeyPair |-> 1, peerDHPublicKey |-> 0, rootKey |-> SharedSecret,
     sendChainKey |-> NoKey, recvChainKey |-> NoKey,
     sendCount |-> 0, recvCount |-> 0, previousSendCount |-> 0, skippedKeys |-> <<>>]

Idle == [pc |-> "idle"]

Init ==
    /\ state = [p \in Peer |-> IF p = Alice THEN initAlice ELSE initBob]
    /\ encrypting = [p \in Peer |-> [c \in Caller |-> Idle]]
    /\ decrypting = [p \in Peer |-> Idle]
    /\ net = {} /\ sent = {} /\ opened = {}
    /\ copies = 0
    /\ overrun = FALSE

Encrypts(p) == \E c \in Caller : encrypting[p][c] # Idle

MayStart(p) == Overlap \/ (~ Encrypts(p) /\ decrypting[p] = Idle)

SentBy(p) == {m \in sent : m.from = p}

-----------------------------------------------------------------------------
(* encrypt: read the chain key, await its successor, take the own public   *)
(* key, await its export, take the counters.  Bob's first messages go by   *)
(* the legacy secret until he has a sending chain.                         *)

Encrypt(p, c) ==
    /\ MayStart(p)
    /\ encrypting[p][c] = Idle
    /\ state[p].sendChainKey # NoKey
    /\ Cardinality(SentBy(p))
         + Cardinality({d \in Caller : encrypting[p][d] # Idle}) < MaxSend[p]
    /\ encrypting' = [encrypting EXCEPT ![p][c] =
                        [pc |-> "deriving", key |-> state[p].sendChainKey]]
    /\ UNCHANGED <<state, decrypting, net, sent, opened, copies, overrun>>

EncryptAdvance(p, c) ==
    /\ encrypting[p][c].pc = "deriving"
    /\ state' = [state EXCEPT ![p].sendChainKey = nextChainKey(encrypting[p][c].key)]
    /\ encrypting' = [encrypting EXCEPT ![p][c] =
                        [pc |-> "exporting", key |-> encrypting[p][c].key,
                         dh |-> state[p].dhKeyPair]]
    /\ UNCHANGED <<decrypting, net, sent, opened, copies, overrun>>

EncryptFinish(p, c) ==
    /\ encrypting[p][c].pc = "exporting"
    /\ LET m == [from |-> p, dhPublicKey |-> encrypting[p][c].dh,
                 previousCount |-> state[p].previousSendCount,
                 messageNumber |-> state[p].sendCount,
                 key |-> encrypting[p][c].key, no |-> Cardinality(SentBy(p))]
       IN  net' = net \cup {m} /\ sent' = sent \cup {m}
    /\ state' = [state EXCEPT ![p].sendCount = @ + 1]
    /\ encrypting' = [encrypting EXCEPT ![p][c] = Idle]
    /\ UNCHANGED <<decrypting, opened, copies, overrun>>

-----------------------------------------------------------------------------
(* decrypt.  Receiving a message takes it from net, or leaves it there to  *)
(* come once more: an outbox row is sent as it was encrypted, and its row  *)
(* is removed only after the loop that sends (ChatController.ts 11292,     *)
(* 11325).                                                                 *)

Receives(p, m) ==
    /\ MayStart(p)
    /\ decrypting[p] = Idle
    /\ m \in net /\ m.from = other(p)
    /\ \/ net' = net \ {m} /\ UNCHANGED copies
       \/ net' = net /\ copies < MaxCopies /\ copies' = copies + 1

\* aesDecrypt with `key'.
Opened(m, key) == IF key = m.key THEN opened \cup {m} ELSE opened

Twice(m) == m \in opened

DecryptSkipped(p, m) ==
    /\ Receives(p, m)
    /\ \E i \in Slots(state[p], m) :
         /\ state' = [state EXCEPT ![p].skippedKeys = Without(@, i)]
         /\ opened' = Opened(m, state[p].skippedKeys[i].key)
    /\ overrun' = (overrun \/ Twice(m))
    /\ UNCHANGED <<encrypting, decrypting, sent>>

AdvanceReceiving(s) == [s EXCEPT !.recvChainKey = nextChainKey(@), !.recvCount = @ + 1]

\* Skip ahead to m, advance the receiving chain and decrypt; s is the state of
\* p, and the receiving chain is the one that m names.
DecryptInChain(p, s, m) ==
    IF SkipsTooMany(s, m.messageNumber)
    THEN /\ state' = [state EXCEPT ![p] = s]
         /\ overrun' = TRUE
         /\ UNCHANGED opened
    ELSE LET t == skipMessageKeys(s, m.messageNumber)
         IN  /\ state' = [state EXCEPT ![p] = AdvanceReceiving(t)]
             /\ opened' = Opened(m, t.recvChainKey)
             /\ overrun' = (overrun \/ Twice(m) \/ Prunes(s, m.messageNumber))

DecryptSameKey(p, m) ==
    /\ Receives(p, m)
    /\ Slots(state[p], m) = {}
    /\ m.dhPublicKey = state[p].peerDHPublicKey
    /\ DecryptInChain(p, state[p], m)
    /\ UNCHANGED <<encrypting, decrypting, sent>>

\* A new key of the peer: skip what is missing of the old chain and reset the
\* counters, up to dhRatchetStep's first await.
DecryptNewKey(p, m) ==
    LET s == state[p]
        skips == s.recvChainKey # NoKey
    IN  /\ Receives(p, m)
        /\ Slots(s, m) = {}
        /\ m.dhPublicKey # s.peerDHPublicKey
        /\ IF skips /\ SkipsTooMany(s, m.previousCount)
           THEN /\ overrun' = TRUE
                /\ UNCHANGED <<state, decrypting>>
           ELSE LET t == IF skips THEN skipMessageKeys(s, m.previousCount) ELSE s
                IN  /\ state' = [state EXCEPT ![p] = NewPeerKey(t, m.dhPublicKey)]
                    /\ decrypting' = [decrypting EXCEPT ![p] = [pc |-> "receiving", msg |-> m]]
                    /\ overrun' = (overrun \/ Twice(m) \/ (skips /\ Prunes(s, m.previousCount)))
        /\ UNCHANGED <<encrypting, sent, opened>>

DecryptReceiving(p) ==
    /\ decrypting[p].pc = "receiving"
    /\ state' = [state EXCEPT ![p] = NewReceivingChain(p, @)]
    /\ decrypting' = [decrypting EXCEPT ![p].pc = "sending"]
    /\ UNCHANGED <<encrypting, net, sent, opened, copies, overrun>>

DecryptSending(p) ==
    /\ decrypting[p].pc = "sending"
    /\ DecryptInChain(p, NewSendingChain(p, state[p]), decrypting[p].msg)
    /\ decrypting' = [decrypting EXCEPT ![p] = Idle]
    /\ UNCHANGED <<encrypting, net, sent, copies>>

-----------------------------------------------------------------------------
EncryptStep(p) ==
    \E c \in Caller : Encrypt(p, c) \/ EncryptAdvance(p, c) \/ EncryptFinish(p, c)

DecryptStep(p) ==
    \/ \E m \in net : DecryptSkipped(p, m) \/ DecryptSameKey(p, m) \/ DecryptNewKey(p, m)
    \/ DecryptReceiving(p)
    \/ DecryptSending(p)

Next == \E p \in Peer : EncryptStep(p) \/ DecryptStep(p)

Spec == Init /\ [][Next]_vars

-----------------------------------------------------------------------------
(* Properties.                                                             *)

EncryptType ==
    [pc : {"idle"}] \cup [pc : {"deriving"}, key : Key]
                    \cup [pc : {"exporting"}, key : Key, dh : Nat]

DecryptType == [pc : {"idle"}] \cup [pc : {"receiving", "sending"}, msg : Message]

\* Type invariant of the session, its calls and its messages.
TypeOK ==
    /\ state \in [Peer -> RatchetState]
    /\ encrypting \in [Peer -> [Caller -> EncryptType]]
    /\ decrypting \in [Peer -> DecryptType]
    /\ sent \in SUBSET Message
    /\ net \in SUBSET sent
    /\ opened \in SUBSET sent
    /\ copies \in Nat
    /\ overrun \in BOOLEAN

\* No two messages are encrypted with the same key ("Each message uses a unique
\* message key derived from chain"): neither two of one peer, in one chain or
\* across DH ratchet steps, nor one of each peer.
UniqueKeys == \A m1, m2 \in sent : m1.key = m2.key => m1 = m2

\* What a peer's state gives away: the keys it stores, and those that follow a
\* chain key.
Reveals(s, key) ==
    \/ \E i \in DOMAIN s.skippedKeys : s.skippedKeys[i].key = key
    \/ \E k \in {s.sendChainKey, s.recvChainKey} : k.chain = key.chain /\ k.n <= key.n

\* A message that was decrypted can no longer be decrypted with what its
\* recipient still holds, nor a message that was sent with what its sender holds
\* ("compromise of current key doesn't reveal past messages"), through skipped
\* keys, late messages and copies.
ForwardSecrecy ==
    /\ \A m \in opened : ~ Reveals(state[other(m.from)], m.key)
    /\ \A m \in sent : ~ Reveals(state[m.from], m.key)

\* The key with which a peer in state s would decrypt m if m came now.
KeyFor(p, s, m) ==
    IF Slots(s, m) # {}
    THEN s.skippedKeys[CHOOSE i \in Slots(s, m) : TRUE].key
    ELSE LET t == IF m.dhPublicKey = s.peerDHPublicKey THEN s
                  ELSE NewReceivingChain(p, NewPeerKey(s, m.dhPublicKey))
             ahead == IF m.messageNumber > t.recvCount THEN m.messageNumber - t.recvCount ELSE 0
         IN  [t.recvChainKey EXCEPT !.n = @ + ahead]

\* Messages sent before m that have not been decrypted.
Missing(m) == {x \in SentBy(m.from) : x.no < m.no /\ x \notin opened}

Throws(s, m) ==
    /\ Slots(s, m) = {}
    /\ IF m.dhPublicKey = s.peerDHPublicKey
       THEN SkipsTooMany(s, m.messageNumber)
       ELSE \/ s.recvChainKey # NoKey /\ SkipsTooMany(s, m.previousCount)
            \/ m.messageNumber > MAX_SKIP

\* Whatever is lost, late or out of order, within a chain or across DH ratchet
\* steps: a message can be decrypted when it comes, unless more than MAX_SKIP of
\* the messages before it are missing ("Out-of-order message handling via skipped
\* message keys").
LateMessagesOpen ==
    ~ overrun =>
        \A p \in Peer : decrypting[p] = Idle =>
            \A m \in net \ opened : m.from = other(p) =>
                \/ Cardinality(Missing(m)) > MAX_SKIP
                \/ ~ Throws(state[p], m) /\ KeyFor(p, state[p], m) = m.key
=============================================================================
