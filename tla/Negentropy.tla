----------------------------- MODULE Negentropy -----------------------------
(***************************************************************************)
(* One reconciliation of two peers' copies of a channel (Negentropy.ts, as *)
(* requestNegentropyMessageSync and handleNegentropySyncQuery of           *)
(* ChatController.ts use it).  The initiator works on the items it had     *)
(* when it started; the responder answers every query from what its store  *)
(* holds at that moment, which changes between the rounds.                 *)
(*                                                                         *)
(* An item is a message id and the key built from its timestamp and id.    *)
(* Two peers may hold one id under different keys: a receiver moves the    *)
(* timestamp of a message behind that of its newest one.  The fingerprint  *)
(* of a range, the XOR of the SHA-256 of its items, is taken to be         *)
(* collision-free: it is the set of these items.                           *)
(***************************************************************************)
EXTENDS Integers, FiniteSets

CONSTANTS
    Id,                 \* message ids
    KeysOf,             \* id -> keys a peer may hold it under
    End,                \* above every key: the open upper bound
    EnumerateThreshold, \* ranges this small are enumerated
    SplitBuckets,       \* parts a larger range is split into
    MaxRounds,          \* rounds the initiator is willing to take
    MaxChanges          \* bound: changes of the responder's store

ASSUME NegentropyAssumption ==
    /\ End \in Nat /\ KeysOf \in [Id -> SUBSET (0..(End - 1))]
    /\ \A i, j \in Id : i # j => KeysOf[i] \cap KeysOf[j] = {}
    /\ EnumerateThreshold \in Nat /\ SplitBuckets \in Nat /\ MaxRounds \in Nat /\ MaxChanges \in Nat

VARIABLES
    local,      \* the initiator's items
    remote,     \* the responder's items
    query,      \* the ranges of the next query
    need,       \* ids to fetch from the responder
    remoteHave, \* ids the responder enumerated
    excess,     \* ids to push to the responder
    round,      \* rounds so far
    phase,      \* "running", "done", "cut" (out of rounds) or "failed"
    changes,    \* changes of the responder's store so far
    steady,     \* history: items the responder has held throughout
    ever        \* history: items the responder has held at some time

vars == <<local, remote, query, need, remoteHave, excess, round, phase, changes, steady, ever>>

Item == {i \in [id : Id, key : 0..(End - 1)] : i.key \in KeysOf[i.id]}

Ids(S) == {i.id : i \in S}

\* What a store holds: one item for an id.
Store == {S \in SUBSET Item : \A i, j \in S : i.id = j.id => i = j}

-----------------------------------------------------------------------------
\* getEntriesInRange: the items with lo <= key < hi.
InRange(S, q) == {i \in S : q.lo <= i.key /\ i.key < q.hi}

Everything == [lo |-> 0, hi |-> End]

\* A range with the fingerprint of the items of S in it.
Fingerprinted(S, q) == [lo |-> q.lo, hi |-> q.hi, items |-> InRange(S, q)]

createQuery(S) == IF S = {} THEN {} ELSE {Fingerprinted(S, Everything)}

Least(m, n) == IF m < n THEN m ELSE n

\* The keys at which partitionRange cuts: those of the items with the positions
\* i * n / segments in the sorted range.
Cuts(S) ==
    LET n == Cardinality(S)
        segments == Least(SplitBuckets, n)
        position(e) == Cardinality({f \in S : f.key < e.key})
    IN  {e.key : e \in {f \in S : \E i \in 1..(segments - 1) : position(f) = (i * n) \div segments}}

\* Mutant: the part above the last cut is forgotten.
partitionRangeOpen(S, q) ==
    LET bounds == {q.lo} \cup Cuts(InRange(S, q))
    IN  {p \in [lo : bounds, hi : bounds] :
           p.lo < p.hi /\ \A c \in bounds : ~ (p.lo < c /\ c < p.hi)}

\* The parts between neighbouring cuts.
partitionRange(S, q) ==
    LET bounds == {q.lo, q.hi} \cup Cuts(InRange(S, q))
    IN  {p \in [lo : bounds, hi : bounds] :
           p.lo < p.hi /\ \A c \in bounds : ~ (p.lo < c /\ c < p.hi)}

Divergent(S, ranges) == {q \in ranges : q.items # InRange(S, q)}

\* Mutant: a range is enumerated only when both sides have few items in it.
IsSmallOnBothSides(S, q) ==
    Cardinality(q.items) <= EnumerateThreshold /\ Cardinality(InRange(S, q)) <= EnumerateThreshold

\* A range is enumerated when either side has few items in it.
IsSmall(S, q) ==
    LET theirs == Cardinality(q.items)
        ours == Cardinality(InRange(S, q))
    IN  Least(theirs, ours) <= EnumerateThreshold \/ ours <= 1 \/ theirs <= 1

Enumerated(S, ranges) ==
    IF ranges = {} THEN {Everything} ELSE {q \in Divergent(S, ranges) : IsSmall(S, q)}

\* The responder's answer: the ids it has in the enumerated ranges, these ranges,
\* and the parts to compare next.
processQuery(S, ranges) ==
    [have |-> UNION {Ids(InRange(S, q)) : q \in Enumerated(S, ranges)},
     enumeratedRanges |-> Enumerated(S, ranges),
     continueWith |-> UNION {partitionRange(S, q) : q \in Divergent(S, ranges) \ Enumerated(S, ranges)}]

-----------------------------------------------------------------------------
Init ==
    /\ local \in Store
    /\ remote \in Store
    /\ query = createQuery(local)
    /\ need = {} /\ remoteHave = {} /\ excess = {}
    /\ round = 0 /\ phase = "running" /\ changes = 0
    /\ steady = remote /\ ever = remote

\* Mutant: what the responder enumerates is not compared with the local ids.
RoundUnfiltered ==
    LET response == processQuery(remote, query)
    IN  /\ phase = "running" /\ round < MaxRounds
        /\ need' = need \cup response.have
        /\ remoteHave' = remoteHave \cup response.have
        /\ excess' = excess \cup (Ids(UNION {InRange(local, q) : q \in response.enumeratedRanges}) \ remoteHave')
        /\ round' = round + 1
        /\ phase' = IF response.continueWith = {} THEN "done"
                    ELSE IF round + 1 = MaxRounds THEN "cut" ELSE "running"
        /\ query' = {Fingerprinted(local, q) : q \in response.continueWith}
        /\ UNCHANGED <<local, remote, changes, steady, ever>>

\* Mutant: only the excess of the last round is kept.
RoundForgetful ==
    LET response == processQuery(remote, query)
    IN  /\ phase = "running" /\ round < MaxRounds
        /\ need' = need \cup (response.have \ Ids(local))
        /\ remoteHave' = remoteHave \cup response.have
        /\ excess' = Ids(UNION {InRange(local, q) : q \in response.enumeratedRanges}) \ remoteHave'
        /\ round' = round + 1
        /\ phase' = IF response.continueWith = {} THEN "done"
                    ELSE IF round + 1 = MaxRounds THEN "cut" ELSE "running"
        /\ query' = {Fingerprinted(local, q) : q \in response.continueWith}
        /\ UNCHANGED <<local, remote, changes, steady, ever>>

\* Mutant: all local items of the enumerated ranges are pushed.
RoundPushesAll ==
    LET response == processQuery(remote, query)
    IN  /\ phase = "running" /\ round < MaxRounds
        /\ need' = need \cup (response.have \ Ids(local))
        /\ remoteHave' = remoteHave \cup response.have
        /\ excess' = excess \cup Ids(UNION {InRange(local, q) : q \in response.enumeratedRanges})
        /\ round' = round + 1
        /\ phase' = IF response.continueWith = {} THEN "done"
                    ELSE IF round + 1 = MaxRounds THEN "cut" ELSE "running"
        /\ query' = {Fingerprinted(local, q) : q \in response.continueWith}
        /\ UNCHANGED <<local, remote, changes, steady, ever>>

\* One round of reconcile: the answer to a query arrives.
Round ==
    LET response == processQuery(remote, query)
    IN  /\ phase = "running" /\ round < MaxRounds
        /\ need' = need \cup (response.have \ Ids(local))
        /\ remoteHave' = remoteHave \cup response.have
        /\ excess' = excess \cup (Ids(UNION {InRange(local, q) : q \in response.enumeratedRanges}) \ remoteHave')
        /\ round' = round + 1
        /\ phase' = IF response.continueWith = {} THEN "done"
                    ELSE IF round + 1 = MaxRounds THEN "cut" ELSE "running"
        /\ query' = {Fingerprinted(local, q) : q \in response.continueWith}
        /\ UNCHANGED <<local, remote, changes, steady, ever>>

\* sendNegentropyQuery times out or is rejected: the result is thrown away.
QueryFails ==
    /\ phase = "running"
    /\ phase' = "failed"
    /\ UNCHANGED <<local, remote, query, need, remoteHave, excess, round, changes, steady, ever>>

\* Mutant: the store does not look the id up.
StoreGrowsUnchecked(i) ==
    /\ changes < MaxChanges
    /\ remote' = remote \cup {i}
    /\ ever' = ever \cup {i}
    /\ changes' = changes + 1
    /\ UNCHANGED <<local, query, need, remoteHave, excess, round, phase, steady>>

\* A message reaches the responder's store.
StoreGrows(i) ==
    /\ changes < MaxChanges /\ i.id \notin Ids(remote)
    /\ remote' = remote \cup {i}
    /\ ever' = ever \cup {i}
    /\ changes' = changes + 1
    /\ UNCHANGED <<local, query, need, remoteHave, excess, round, phase, steady>>

\* trimChannelMemory takes the oldest message out of it.
StoreTrims(i) ==
    /\ changes < MaxChanges /\ i \in remote /\ \A j \in remote : i.key <= j.key
    /\ remote' = remote \ {i}
    /\ steady' = steady \ {i}
    /\ changes' = changes + 1
    /\ UNCHANGED <<local, query, need, remoteHave, excess, round, phase, ever>>

Next ==
    \/ Round
    \/ QueryFails
    \/ \E i \in Item : StoreGrows(i) \/ StoreTrims(i)

Spec == Init /\ [][Next]_vars

-----------------------------------------------------------------------------
(* Properties.                                                             *)

QueryRange == [lo : 0..End, hi : 0..End, items : SUBSET Item]

\* Type invariant.
TypeOK ==
    /\ local \in Store /\ remote \in Store
    /\ query \subseteq QueryRange
    /\ need \subseteq Id /\ remoteHave \subseteq Id /\ excess \subseteq Id
    /\ round \in 0..MaxRounds /\ changes \in 0..MaxChanges
    /\ phase \in {"running", "done", "cut", "failed"}
    /\ steady \subseteq remote /\ remote \subseteq ever /\ ever \subseteq Item

\* The initiator asks only for messages that it lacks and the responder had.
NeedIsMissing == need \subseteq Ids(ever) \ Ids(local)

\* When reconcile ends, every message the responder held all along is local or
\* asked for, whatever else came or went between the rounds.
NeedIsComplete == phase = "done" => Ids(steady) \subseteq Ids(local) \cup need

\* When it ends, every local message that the responder never had is pushed.
ExcessIsComplete == phase = "done" => Ids(local) \subseteq Ids(ever) \cup excess

\* The initiator does not push a message that the responder holds all along under
\* the same key ("local IDs in enumerated ranges that remote doesn't have").
ExcessIsMissing == excess \cap Ids(local \cap steady) = {}

\* Splitting reaches enumeration before the rounds run out, so that no result is
\* silently incomplete.
NeverCut == phase # "cut"
=============================================================================
