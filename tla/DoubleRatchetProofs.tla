------------------------ MODULE DoubleRatchetProofs ------------------------
(***************************************************************************)
(* Proofs about DoubleRatchet: when the calls of a peer wait for one       *)
(* another, no two messages share a key, and neither peer keeps what would *)
(* decrypt a message that was sent or decrypted, and a late message opens; *)
(* for any numbers of messages and copies and any MAX_SKIP.                *)
(*                                                                         *)
(* All rest on the length of the chains: a chain is as long as the root    *)
(* key it was derived with, root keys only grow, and the chains of Alice   *)
(* have odd lengths, those of Bob even ones. That late messages open needs *)
(* more: the root keys of a session are the beginnings of one list, so     *)
(* that a header tells the key of its message (see Late messages).         *)
(***************************************************************************)
EXTENDS DoubleRatchet, FiniteSetTheorems, SequenceTheorems, TLAPS

-----------------------------------------------------------------------------
(* Types.                                                                  *)

\* A message being decrypted is one that the other peer sent.
MessageInHand ==
    \A p \in Peer : decrypting[p] # Idle =>
        decrypting[p].msg \in sent /\ decrypting[p].msg.from = other(p)

TypeInv == TypeOK /\ IsFiniteSet(sent) /\ MessageInHand

LEMMA PeerFacts ==
  ASSUME NEW p \in Peer
  PROVE  other(p) \in Peer /\ other(p) # p /\ other(other(p)) = p
         /\ \A q \in Peer : q # p => q = other(p)
BY ConstantsAssumption DEF Peer, other

LEMMA RootType ==
  ASSUME NEW p \in Peer, NEW root \in Root, NEW own \in Nat, NEW peer \in Nat
  PROVE  rootKDF(p, root, own, peer) \in Root
         /\ Len(rootKDF(p, root, own, peer)) = Len(root) + 1
         /\ Len(root) \in Nat
BY AppendProperties DEF rootKDF, Root

LEMMA KeyTypes ==
  /\ SharedSecret \in Root /\ NoKey \in Key
  /\ \A root \in Root : FirstKey(root) \in Key
  /\ \A k \in Key : nextChainKey(k) \in Key
<1>1. SharedSecret \in Root
  BY EmptySeq DEF SharedSecret, Root
<1> QED BY <1>1 DEF NoKey, Key, FirstKey, nextChainKey

LEMMA FunctionIsSeq ==
  ASSUME NEW T, NEW k \in Nat, NEW f \in [1..k -> T]
  PROVE  f \in Seq(T) /\ Len(f) = k
BY SeqDef, LenProperties

\* The state after skipping, in terms of the state before.
LEMMA SkippedType ==
  ASSUME NEW s \in RatchetState, NEW until \in Nat, until > s.recvCount
  PROVE  /\ Skipped(s, until) \in Seq([dh : Nat, n : Nat, key : Key])
         /\ Len(Skipped(s, until)) = until - s.recvCount
         /\ \A i \in 1..(until - s.recvCount) :
              Skipped(s, until)[i].key = [chain |-> s.recvChainKey.chain,
                                          n |-> s.recvChainKey.n + i - 1]
<1> DEFINE k == until - s.recvCount
           e(i) == [dh |-> s.peerDHPublicKey, n |-> s.recvCount + i - 1,
                    key |-> [s.recvChainKey EXCEPT !.n = @ + i - 1]]
<1>1. /\ k \in Nat /\ s.recvCount \in Nat /\ s.peerDHPublicKey \in Nat
      /\ s.recvChainKey \in [chain : Root, n : Nat]
  BY DEF RatchetState, Key
<1>2. ASSUME NEW i \in 1..k
      PROVE  /\ e(i) \in [dh : Nat, n : Nat, key : Key]
             /\ e(i).key = [chain |-> s.recvChainKey.chain, n |-> s.recvChainKey.n + i - 1]
  <2>1. s.recvChainKey.n + i - 1 \in Nat /\ s.recvCount + i - 1 \in Nat
    BY <1>1
  <2>2. e(i).key = [chain |-> s.recvChainKey.chain, n |-> s.recvChainKey.n + i - 1]
    BY <1>1
  <2> QED BY <1>1, <2>1, <2>2 DEF Key
<1>3. Skipped(s, until) = [i \in 1..k |-> e(i)]
  BY DEF Skipped
<1>4. Skipped(s, until) \in [1..k -> [dh : Nat, n : Nat, key : Key]]
  BY <1>2, <1>3
<1>5. k \in Nat
  BY <1>1
<1>6. Skipped(s, until) \in Seq([dh : Nat, n : Nat, key : Key]) /\ Len(Skipped(s, until)) = k
  BY ONLY <1>4, <1>5, FunctionIsSeq
<1> QED BY <1>2, <1>3, <1>6


Slot == [dh : Nat, n : Nat, key : Key]

\* skipMessageKeys changes the receiving side only, and its Map holds entries it
\* held before or the keys just skipped, in some order of increasing numbers.
LEMMA SkipResult ==
  ASSUME NEW s \in RatchetState, NEW until \in Nat
  PROVE  LET t == skipMessageKeys(s, until) IN
         /\ t \in RatchetState
         /\ t.rootKey = s.rootKey /\ t.sendChainKey = s.sendChainKey
         /\ t.recvChainKey.chain = s.recvChainKey.chain
         /\ t.recvChainKey.n >= s.recvChainKey.n
<1> DEFINE t == skipMessageKeys(s, until)
<1>1. CASE until <= s.recvCount
  BY <1>1 DEF skipMessageKeys, RatchetState, Key
<1>2. CASE until > s.recvCount
  <2> DEFINE all == Stored(s, until)
             kept == IF Prunes(s, until) THEN SubSeq(all, MAX_SKIP + 2, Len(all)) ELSE all
  <2>1. s.skippedKeys \in Seq(Slot) /\ s.recvCount \in Nat /\ s.recvChainKey \in [chain : Root, n : Nat]
    BY DEF RatchetState, Slot, Key
  <2>2. all \in Seq(Slot)
    BY <1>2, <2>1, SkippedType, ConcatProperties DEF Stored, Slot
  <2>3. kept \in Seq(Slot)
    BY <2>2, SubSeqProperties, ConstantsAssumption, LenProperties DEF Prunes
  <2>4. t = [s EXCEPT !.recvChainKey.n = @ + (until - s.recvCount), !.recvCount = until,
                      !.skippedKeys = kept]
    BY <1>2, <2>1 DEF skipMessageKeys
  <2>5. s.recvChainKey.n + (until - s.recvCount) \in Nat
        /\ s.recvChainKey.n + (until - s.recvCount) >= s.recvChainKey.n
    BY <1>2, <2>1
  <2> QED BY <2>1, <2>3, <2>4, <2>5 DEF RatchetState, Slot, Key
<1>3. until <= s.recvCount \/ until > s.recvCount
  BY DEF RatchetState
<1> QED BY <1>1, <1>2, <1>3

-----------------------------------------------------------------------------
(* The receiving side.                                                     *)

Parity(p) == IF p = Alice THEN 1 ELSE 0

\* A chain p may have for sending, and one it may have for receiving.
OwnChain(p, ch) == ch # <<>> /\ Len(ch) % 2 = Parity(p)

PeerChain(p, ch) == ch = <<>> \/ Len(ch) % 2 # Parity(p)

SlotKey(s, i) == s.skippedKeys[i].key

\* Key k belongs to a chain that p may receive in and lies behind its chain key.
Passed(s, k) ==
    /\ Len(k.chain) <= Len(s.rootKey)
    /\ k.chain = s.recvChainKey.chain => k.n < s.recvChainKey.n

\* In state s of p the keys in O, already used to decrypt, cannot be had again.
ReceivingSafe(p, s, O) ==
    /\ PeerChain(p, s.recvChainKey.chain)
    /\ Len(s.recvChainKey.chain) <= Len(s.rootKey)
    /\ \A i \in DOMAIN s.skippedKeys : PeerChain(p, SlotKey(s, i).chain) /\ Passed(s, SlotKey(s, i))
    /\ \A i, j \in DOMAIN s.skippedKeys : SlotKey(s, i) = SlotKey(s, j) => i = j
    /\ \A k \in O : Passed(s, k) /\ \A i \in DOMAIN s.skippedKeys : SlotKey(s, i) # k

\* What is kept of a sequence by SubSeq.
LEMMA SubSeqParts ==
  ASSUME NEW S, NEW q \in Seq(S), NEW a \in Nat, a <= Len(q)
  PROVE  /\ SubSeq(q, a + 1, Len(q)) \in Seq(S)
         /\ Len(SubSeq(q, a + 1, Len(q))) = Len(q) - a
         /\ \A i \in 1..(Len(q) - a) : a + i \in 1..Len(q) /\ SubSeq(q, a + 1, Len(q))[i] = q[a + i]
<1>1. Len(q) \in Nat /\ \A i \in 1..Len(q) : q[i] \in S
  BY LenProperties, ElementOfSeq
<1>2. \A i \in (a + 1)..Len(q) : q[i] \in S
  BY <1>1
<1>3. /\ SubSeq(q, a + 1, Len(q)) \in Seq(S)
      /\ Len(SubSeq(q, a + 1, Len(q))) = IF a + 1 <= Len(q) THEN Len(q) - (a + 1) + 1 ELSE 0
      /\ \A i \in 1..(Len(q) - (a + 1) + 1) : SubSeq(q, a + 1, Len(q))[i] = q[(a + 1) + i - 1]
  BY <1>1, <1>2, SubSeqProperties
<1>4. Len(q) - (a + 1) + 1 = Len(q) - a /\ \A i \in 1..(Len(q) - a) : (a + 1) + i - 1 = a + i
  BY <1>1
<1>5. Len(SubSeq(q, a + 1, Len(q))) = Len(q) - a
  BY <1>1, <1>3
<1>6. ASSUME NEW i \in 1..(Len(q) - a)
      PROVE  a + i \in 1..Len(q) /\ SubSeq(q, a + 1, Len(q))[i] = q[a + i]
  <2>1. a + i \in 1..Len(q)
    BY <1>1
  <2>2. SubSeq(q, a + 1, Len(q))[i] = q[(a + 1) + i - 1]
    BY <1>3, <1>4
  <2> QED BY <1>4, <2>1, <2>2
<1> QED BY <1>3, <1>5, <1>6

\* What \o joins.
LEMMA Joined ==
  ASSUME NEW S, NEW q \in Seq(S), NEW r \in Seq(S)
  PROVE  /\ Len(q) \in Nat /\ DOMAIN q = 1..Len(q) /\ Len(r) \in Nat /\ DOMAIN r = 1..Len(r)
         /\ q \o r \in Seq(S) /\ Len(q \o r) = Len(q) + Len(r)
         /\ DOMAIN (q \o r) = 1..(Len(q) + Len(r))
         /\ \A i \in 1..(Len(q) + Len(r)) :
              (q \o r)[i] = IF i <= Len(q) THEN q[i] ELSE r[i - Len(q)]
<1>1. PICK w : w = q \o r
  OBVIOUS
<1>2. q \o r \in Seq(S) /\ Len(q \o r) = Len(q) + Len(r)
  BY ONLY q \in Seq(S), r \in Seq(S), ConcatProperties
<1>3. w \in Seq(S) /\ Len(w) = Len(q) + Len(r)
  BY ONLY <1>1, <1>2
<1>4. DOMAIN w = 1..(Len(q) + Len(r))
  BY ONLY <1>3, LenProperties
<1>5. \A i \in 1..(Len(q) + Len(r)) : (q \o r)[i] = IF i <= Len(q) THEN q[i] ELSE r[i - Len(q)]
  BY ONLY q \in Seq(S), r \in Seq(S), ConcatProperties
<1>6. DOMAIN (q \o r) = 1..(Len(q) + Len(r))
  BY ONLY <1>1, <1>4
<1>7. /\ Len(q) \in Nat /\ DOMAIN q = 1..Len(q) /\ Len(r) \in Nat /\ DOMAIN r = 1..Len(r)
  BY ONLY q \in Seq(S), r \in Seq(S), LenProperties
<1> QED BY ONLY <1>2, <1>5, <1>6, <1>7

\* The entries of a Map have keys.
LEMMA SlotTypes ==
  ASSUME NEW q \in Seq(Slot), NEW i \in DOMAIN q
  PROVE  q[i].key \in Key /\ q[i].key.n \in Nat
<1>1. q[i] \in Slot
  BY LenProperties, ElementOfSeq
<1> QED BY <1>1 DEF Slot, Key

\* Entries for the keys n0, n0 + 1, ... of chain ch, after entries that are distinct
\* and, where they are of the same chain, older.
NewerSlots(old, new, ch, n0) ==
    /\ old \in Seq(Slot) /\ new \in Seq(Slot) /\ n0 \in Nat
    /\ \A i \in 1..Len(new) : new[i].key = [chain |-> ch, n |-> n0 + i - 1]
    /\ \A i, j \in DOMAIN old : old[i].key = old[j].key => i = j
    /\ \A i \in DOMAIN old : old[i].key.chain = ch => old[i].key.n < n0

JoinedSlots(all, old, new, ch, n0) ==
    /\ all \in Seq(Slot)
    /\ \A i, j \in DOMAIN all : all[i].key = all[j].key => i = j
    /\ \A i \in DOMAIN all :
         \/ \E j \in DOMAIN old : all[i].key = old[j].key
         \/ /\ all[i].key.chain = ch
            /\ all[i].key.n \in n0..(n0 + Len(new) - 1)

LEMMA SlotsJoined ==
  ASSUME NEW old, NEW new, NEW ch, NEW n0, NewerSlots(old, new, ch, n0)
  PROVE  JoinedSlots(old \o new, old, new, ch, n0)
<1> USE DEF NewerSlots
<1>0. PICK all : all = old \o new
  OBVIOUS
<1>1. /\ Len(old) \in Nat /\ DOMAIN old = 1..Len(old)
      /\ Len(new) \in Nat /\ DOMAIN new = 1..Len(new)
  BY LenProperties
<1>2. /\ all \in Seq(Slot) /\ Len(all) = Len(old) + Len(new) /\ DOMAIN all = 1..(Len(old) + Len(new))
      /\ \A i \in 1..(Len(old) + Len(new)) : all[i] = IF i <= Len(old) THEN old[i] ELSE new[i - Len(old)]
  BY <1>0, ConcatProperties, LenProperties
<1>3. ASSUME NEW i \in DOMAIN all, i > Len(old)
      PROVE  /\ all[i].key.chain = ch
             /\ all[i].key.n = n0 + (i - Len(old)) - 1
             /\ all[i].key.n \in n0..(n0 + Len(new) - 1)
  <2>1. i - Len(old) \in 1..Len(new) /\ all[i] = new[i - Len(old)]
    BY <1>1, <1>2, <1>3
  <2>2. all[i].key = [chain |-> ch, n |-> n0 + (i - Len(old)) - 1]
    BY <2>1
  <2>3. n0 + (i - Len(old)) - 1 \in n0..(n0 + Len(new) - 1)
    BY <1>1, <2>1
  <2> QED BY <2>2, <2>3
<1>4. ASSUME NEW i \in DOMAIN all, i <= Len(old)
      PROVE  i \in DOMAIN old /\ all[i] = old[i]
  BY <1>1, <1>2, <1>4
<1>5. ASSUME NEW i \in DOMAIN all, NEW j \in DOMAIN all, all[i].key = all[j].key
      PROVE  i = j
  <2>1. i \in Nat /\ j \in Nat
    BY <1>1, <1>2
  <2>2. CASE i <= Len(old) /\ j <= Len(old)
    BY <1>4, <1>5, <2>2
  <2>3. CASE i > Len(old) /\ j > Len(old)
    <3>1. n0 + (i - Len(old)) - 1 = n0 + (j - Len(old)) - 1
      BY <1>3, <1>5, <2>3
    <3> QED BY <1>1, <2>1, <3>1
  <2>4. ASSUME NEW x \in DOMAIN all, NEW y \in DOMAIN all, x <= Len(old), y > Len(old)
        PROVE  all[x].key # all[y].key
    <3>1. all[y].key.chain = ch /\ all[y].key.n \in n0..(n0 + Len(new) - 1)
      BY <1>3, <2>4
    <3>2. x \in DOMAIN old /\ all[x] = old[x]
      BY <1>4, <2>4
    <3>3. old[x].key.chain = ch => old[x].key.n < n0
      BY <3>2
    <3>4. old[x].key.chain = ch => old[x].key.n # all[y].key.n
      <4>1. \A m, n \in Int : m \in n0..(n0 + Len(new) - 1) /\ n < n0 => n # m
        BY <1>1
      <4>2. old[x].key.n \in Int
        BY <3>2, SlotTypes
      <4>3. all[y].key.n \in Int
        BY <1>1, <3>1
      <4> QED BY <3>1, <3>3, <4>1, <4>2, <4>3
    <3> QED BY <3>1, <3>2, <3>4
  <2> QED BY <1>1, <1>5, <2>1, <2>2, <2>3, <2>4
<1>6. \A i \in DOMAIN all : i <= Len(old) \/ i > Len(old)
  BY <1>1, <1>2
<1> QED BY <1>0, <1>2, <1>3, <1>4, <1>5, <1>6 DEF JoinedSlots

\* What a successful skip leaves in the Map.
LEMMA SlotsAfterSkip ==
  ASSUME NEW s \in RatchetState, NEW until \in Nat, until > s.recvCount,
         \A i, j \in DOMAIN s.skippedKeys : SlotKey(s, i) = SlotKey(s, j) => i = j,
         \A i \in DOMAIN s.skippedKeys :
            SlotKey(s, i).chain = s.recvChainKey.chain => SlotKey(s, i).n < s.recvChainKey.n,
         NEW t, t = skipMessageKeys(s, until)
  PROVE  /\ t.recvChainKey.n = s.recvChainKey.n + (until - s.recvCount)
         /\ \A i, j \in DOMAIN t.skippedKeys : SlotKey(t, i) = SlotKey(t, j) => i = j
         /\ \A i \in DOMAIN t.skippedKeys :
              \/ \E j \in DOMAIN s.skippedKeys : SlotKey(t, i) = SlotKey(s, j)
              \/ /\ SlotKey(t, i).chain = s.recvChainKey.chain
                 /\ SlotKey(t, i).n \in s.recvChainKey.n..(t.recvChainKey.n - 1)
<1>1. /\ s.skippedKeys \in Seq(Slot) /\ s.recvCount \in Nat
      /\ s.recvChainKey.n \in Nat /\ s.recvChainKey \in [chain : Root, n : Nat]
  BY DEF RatchetState, Slot, Key
<1>2. /\ Skipped(s, until) \in Seq(Slot) /\ Len(Skipped(s, until)) = until - s.recvCount
      /\ \A i \in 1..Len(Skipped(s, until)) :
            Skipped(s, until)[i].key = [chain |-> s.recvChainKey.chain, n |-> s.recvChainKey.n + i - 1]
  BY SkippedType DEF Slot
<1>3. PICK all : all = s.skippedKeys \o Skipped(s, until)
  OBVIOUS
<1>4. /\ all \in Seq(Slot)
      /\ \A i, j \in DOMAIN all : all[i].key = all[j].key => i = j
      /\ \A i \in DOMAIN all :
           \/ \E j \in DOMAIN s.skippedKeys : all[i].key = s.skippedKeys[j].key
           \/ /\ all[i].key.chain = s.recvChainKey.chain
              /\ all[i].key.n \in
                   s.recvChainKey.n..(s.recvChainKey.n + Len(Skipped(s, until)) - 1)
  <2>1. NewerSlots(s.skippedKeys, Skipped(s, until), s.recvChainKey.chain, s.recvChainKey.n)
    BY <1>1, <1>2 DEF SlotKey, NewerSlots
  <2>2. JoinedSlots(all, s.skippedKeys, Skipped(s, until), s.recvChainKey.chain, s.recvChainKey.n)
    BY <1>3, <2>1, SlotsJoined
  <2> QED BY <2>2 DEF JoinedSlots
<1>5. /\ t.skippedKeys = IF Len(all) > 2 * MAX_SKIP THEN SubSeq(all, MAX_SKIP + 2, Len(all)) ELSE all
      /\ t.recvChainKey.n = s.recvChainKey.n + (until - s.recvCount)
  BY <1>1, <1>3 DEF skipMessageKeys, Prunes, Stored, RatchetState, Key
<1>6. Len(all) \in Nat /\ DOMAIN all = 1..Len(all)
  BY <1>4, LenProperties
<1>7. \E a \in Nat : /\ DOMAIN t.skippedKeys = 1..(Len(all) - a)
                     /\ \A i \in 1..(Len(all) - a) :
                          a + i \in 1..Len(all) /\ t.skippedKeys[i] = all[a + i]
  <2>1. CASE ~ (Len(all) > 2 * MAX_SKIP)
    <3>1. /\ DOMAIN t.skippedKeys = 1..(Len(all) - 0)
          /\ \A i \in 1..(Len(all) - 0) : 0 + i \in 1..Len(all) /\ t.skippedKeys[i] = all[0 + i]
      BY <1>5, <1>6, <2>1
    <3> QED BY <3>1
  <2>2. CASE Len(all) > 2 * MAX_SKIP
    <3>1. /\ MAX_SKIP + 1 \in Nat /\ (MAX_SKIP + 1) + 1 = MAX_SKIP + 2
          /\ MAX_SKIP + 1 <= Len(all)
      BY <1>6, <2>2, ConstantsAssumption
    <3>2. t.skippedKeys = SubSeq(all, (MAX_SKIP + 1) + 1, Len(all))
      BY <1>5, <2>2, <3>1
    <3>3. /\ t.skippedKeys \in Seq(Slot)
          /\ Len(t.skippedKeys) = Len(all) - (MAX_SKIP + 1)
          /\ \A i \in 1..(Len(all) - (MAX_SKIP + 1)) :
               (MAX_SKIP + 1) + i \in 1..Len(all) /\ t.skippedKeys[i] = all[(MAX_SKIP + 1) + i]
      BY <1>4, <3>1, <3>2, SubSeqParts
    <3>4. DOMAIN t.skippedKeys = 1..(Len(all) - (MAX_SKIP + 1))
      BY <3>3, LenProperties
    <3> QED BY <3>1, <3>3, <3>4
  <2> QED BY <2>1, <2>2
<1>8. PICK a \in Nat : /\ DOMAIN t.skippedKeys = 1..(Len(all) - a)
                       /\ \A i \in 1..(Len(all) - a) :
                            a + i \in 1..Len(all) /\ t.skippedKeys[i] = all[a + i]
  BY <1>7
<1>9. \A i, j \in DOMAIN t.skippedKeys : SlotKey(t, i) = SlotKey(t, j) => i = j
  <2> SUFFICES ASSUME NEW i \in DOMAIN t.skippedKeys, NEW j \in DOMAIN t.skippedKeys,
                      SlotKey(t, i) = SlotKey(t, j)
               PROVE  i = j
    OBVIOUS
  <2>1. /\ a + i \in DOMAIN all /\ SlotKey(t, i) = all[a + i].key
        /\ a + j \in DOMAIN all /\ SlotKey(t, j) = all[a + j].key
    BY <1>6, <1>8 DEF SlotKey
  <2>2. a + i = a + j
    BY <1>4, <2>1
  <2> QED BY <1>6, <1>8, <2>2
<1>10. s.recvChainKey.n + Len(Skipped(s, until)) - 1 = t.recvChainKey.n - 1
  BY <1>1, <1>2, <1>5
<1>11. ASSUME NEW i \in DOMAIN t.skippedKeys
       PROVE  \/ \E j \in DOMAIN s.skippedKeys : SlotKey(t, i) = SlotKey(s, j)
              \/ /\ SlotKey(t, i).chain = s.recvChainKey.chain
                 /\ SlotKey(t, i).n \in s.recvChainKey.n..(t.recvChainKey.n - 1)
  <2>1. a + i \in DOMAIN all /\ SlotKey(t, i) = all[a + i].key
    BY <1>6, <1>8 DEF SlotKey
  <2>2. \/ \E j \in DOMAIN s.skippedKeys : all[a + i].key = s.skippedKeys[j].key
        \/ /\ all[a + i].key.chain = s.recvChainKey.chain
           /\ all[a + i].key.n \in s.recvChainKey.n..(t.recvChainKey.n - 1)
    BY <1>4, <1>10, <2>1
  <2> QED BY <2>1, <2>2 DEF SlotKey
<1> QED BY <1>5, <1>9, <1>11

LEMMA SkipKeepsSafe ==
  ASSUME NEW p \in Peer, NEW s \in RatchetState, NEW until \in Nat, NEW O \in SUBSET Key,
         ReceivingSafe(p, s, O)
  PROVE  ReceivingSafe(p, skipMessageKeys(s, until), O)
<1>0. s.recvCount \in Nat
  BY DEF RatchetState
<1>1. CASE until <= s.recvCount
  BY <1>1 DEF skipMessageKeys
<1>2. CASE until > s.recvCount
  <2>1. PICK t : t = skipMessageKeys(s, until)
    OBVIOUS
  <2>2. /\ t \in RatchetState /\ t.rootKey = s.rootKey
        /\ t.recvChainKey.chain = s.recvChainKey.chain
        /\ t.recvChainKey.n >= s.recvChainKey.n
        /\ t.recvChainKey.n \in Nat /\ s.recvChainKey.n \in Nat
    BY <2>1, SkipResult DEF RatchetState, Key
  <2>3. /\ \A i, j \in DOMAIN t.skippedKeys : SlotKey(t, i) = SlotKey(t, j) => i = j
        /\ \A i \in DOMAIN t.skippedKeys :
             \/ \E j \in DOMAIN s.skippedKeys : SlotKey(t, i) = SlotKey(s, j)
             \/ /\ SlotKey(t, i).chain = s.recvChainKey.chain
                /\ SlotKey(t, i).n \in s.recvChainKey.n..(t.recvChainKey.n - 1)
    BY <1>2, <2>1, SlotsAfterSkip DEF ReceivingSafe, Passed
  <2>4. ASSUME NEW k \in Key, Passed(s, k) PROVE Passed(t, k)
    <3>1. k.n \in Nat
      BY DEF Key
    <3> QED BY <2>2, <2>4, <3>1 DEF Passed
  <2>5. \A j \in DOMAIN s.skippedKeys : SlotKey(s, j) \in Key
    <3>1. s.skippedKeys \in Seq(Slot)
      BY DEF RatchetState, Slot
    <3> QED BY <3>1, SlotTypes DEF SlotKey
  <2>6. ASSUME NEW i \in DOMAIN t.skippedKeys
        PROVE  /\ PeerChain(p, SlotKey(t, i).chain) /\ Passed(t, SlotKey(t, i))
               /\ \A x \in O : SlotKey(t, i) # x
    <3>1. CASE \E j \in DOMAIN s.skippedKeys : SlotKey(t, i) = SlotKey(s, j)
      BY <2>4, <2>5, <3>1 DEF ReceivingSafe
    <3>2. CASE /\ SlotKey(t, i).chain = s.recvChainKey.chain
               /\ SlotKey(t, i).n \in s.recvChainKey.n..(t.recvChainKey.n - 1)
      <4>1. SlotKey(t, i).n >= s.recvChainKey.n /\ SlotKey(t, i).n < t.recvChainKey.n
        BY <2>2, <3>2
      <4>2. \A x \in O : x.chain = s.recvChainKey.chain => x.n < s.recvChainKey.n /\ x.n \in Nat
        BY DEF ReceivingSafe, Passed, Key
      <4>3. SlotKey(t, i).n \in Int
        BY <2>2, <3>2
      <4>4. \A x \in O : SlotKey(t, i) # x
        BY <2>2, <3>2, <4>1, <4>2, <4>3
      <4> QED BY <2>2, <3>2, <4>1, <4>4 DEF ReceivingSafe, Passed
    <3> QED BY <2>3, <3>1, <3>2
  <2>7. \A x \in O : Passed(t, x)
    BY <2>4 DEF ReceivingSafe
  <2>8. PeerChain(p, t.recvChainKey.chain) /\ Len(t.recvChainKey.chain) <= Len(t.rootKey)
    BY <2>2 DEF ReceivingSafe
  <2> QED BY <2>1, <2>3, <2>6, <2>7, <2>8 DEF ReceivingSafe
<1> QED BY <1>0, <1>1, <1>2

-----------------------------------------------------------------------------
(* The parts of the state that each half-step changes.                     *)

LEMMA NewChainTypes ==
  ASSUME NEW p \in Peer, NEW s \in RatchetState
  PROVE  /\ NewReceivingChain(p, s) \in RatchetState
         /\ NewReceivingChain(p, s).sendChainKey = s.sendChainKey
         /\ NewReceivingChain(p, s).skippedKeys = s.skippedKeys
         /\ Len(NewReceivingChain(p, s).rootKey) = Len(s.rootKey) + 1
         /\ NewReceivingChain(p, s).recvChainKey = FirstKey(NewReceivingChain(p, s).rootKey)
         /\ NewSendingChain(p, s) \in RatchetState
         /\ NewSendingChain(p, s).recvChainKey = s.recvChainKey
         /\ NewSendingChain(p, s).skippedKeys = s.skippedKeys
         /\ Len(NewSendingChain(p, s).rootKey) = Len(s.rootKey) + 1
         /\ NewSendingChain(p, s).sendChainKey = FirstKey(NewSendingChain(p, s).rootKey)
         /\ Len(s.rootKey) \in Nat
<1> DEFINE root == rootKDF(p, s.rootKey, s.dhKeyPair, s.peerDHPublicKey)
<1>1. /\ s.rootKey \in Root /\ s.dhKeyPair \in Nat /\ s.peerDHPublicKey \in Nat
  BY DEF RatchetState
<1>2. root \in Root /\ Len(root) = Len(s.rootKey) + 1 /\ Len(s.rootKey) \in Nat
  BY <1>1, RootType
<1>3. FirstKey(root) \in Key
  BY <1>2, KeyTypes
<1> HIDE DEF root
<1>4. /\ NewReceivingChain(p, s) = [s EXCEPT !.rootKey = root, !.recvChainKey = FirstKey(root),
                                            !.dhKeyPair = s.dhKeyPair + 1]
      /\ NewSendingChain(p, s) = [s EXCEPT !.rootKey = root, !.sendChainKey = FirstKey(root)]
  BY DEF root, NewReceivingChain, NewSendingChain
<1>5. [s EXCEPT !.rootKey = root, !.recvChainKey = FirstKey(root), !.dhKeyPair = s.dhKeyPair + 1]
        \in RatchetState
  <2>1. s.dhKeyPair + 1 \in Nat
    BY <1>1
  <2> QED BY <1>2, <1>3, <2>1 DEF RatchetState
<1>6. [s EXCEPT !.rootKey = root, !.sendChainKey = FirstKey(root)] \in RatchetState
  BY <1>2, <1>3 DEF RatchetState
<1>7. /\ NewReceivingChain(p, s).rootKey = root
      /\ NewReceivingChain(p, s).recvChainKey = FirstKey(root)
      /\ NewReceivingChain(p, s).sendChainKey = s.sendChainKey
      /\ NewReceivingChain(p, s).skippedKeys = s.skippedKeys
      /\ NewSendingChain(p, s).rootKey = root
      /\ NewSendingChain(p, s).sendChainKey = FirstKey(root)
      /\ NewSendingChain(p, s).recvChainKey = s.recvChainKey
      /\ NewSendingChain(p, s).skippedKeys = s.skippedKeys
  BY <1>4 DEF RatchetState
<1> QED BY <1>2, <1>4, <1>5, <1>6, <1>7

LEMMA FieldTypes ==
  ASSUME NEW s \in RatchetState
  PROVE  /\ \A dh \in Nat : /\ NewPeerKey(s, dh) \in RatchetState
                            /\ NewPeerKey(s, dh).rootKey = s.rootKey
                            /\ NewPeerKey(s, dh).sendChainKey = s.sendChainKey
                            /\ NewPeerKey(s, dh).recvChainKey = s.recvChainKey
                            /\ NewPeerKey(s, dh).skippedKeys = s.skippedKeys
         /\ AdvanceReceiving(s) \in RatchetState
         /\ AdvanceReceiving(s).rootKey = s.rootKey
         /\ AdvanceReceiving(s).sendChainKey = s.sendChainKey
         /\ AdvanceReceiving(s).recvChainKey = nextChainKey(s.recvChainKey)
         /\ AdvanceReceiving(s).skippedKeys = s.skippedKeys
         /\ \A k \in Key : [s EXCEPT !.sendChainKey = k] \in RatchetState
         /\ [s EXCEPT !.sendCount = @ + 1] \in RatchetState
         /\ \A q \in Seq(Slot) : [s EXCEPT !.skippedKeys = q] \in RatchetState
<1>1. nextChainKey(s.recvChainKey) \in Key
  BY KeyTypes DEF RatchetState
<1>2. ASSUME NEW dh \in Nat
      PROVE  /\ NewPeerKey(s, dh) \in RatchetState
             /\ NewPeerKey(s, dh).rootKey = s.rootKey
             /\ NewPeerKey(s, dh).sendChainKey = s.sendChainKey
             /\ NewPeerKey(s, dh).recvChainKey = s.recvChainKey
             /\ NewPeerKey(s, dh).skippedKeys = s.skippedKeys
  BY DEF NewPeerKey, RatchetState
<1>3. /\ AdvanceReceiving(s) \in RatchetState
      /\ AdvanceReceiving(s).rootKey = s.rootKey
      /\ AdvanceReceiving(s).sendChainKey = s.sendChainKey
      /\ AdvanceReceiving(s).recvChainKey = nextChainKey(s.recvChainKey)
      /\ AdvanceReceiving(s).skippedKeys = s.skippedKeys
  <2>1. s.recvCount + 1 \in Nat
    BY DEF RatchetState
  <2>2. AdvanceReceiving(s) = [s EXCEPT !.recvChainKey = nextChainKey(s.recvChainKey),
                                        !.recvCount = s.recvCount + 1]
    BY DEF AdvanceReceiving
  <2> QED BY <1>1, <2>1, <2>2 DEF RatchetState
<1>4. \A k \in Key : [s EXCEPT !.sendChainKey = k] \in RatchetState
  BY DEF RatchetState
<1>5. [s EXCEPT !.sendCount = @ + 1] \in RatchetState
  <2>1. s.sendCount + 1 \in Nat
    BY DEF RatchetState
  <2> QED BY <2>1 DEF RatchetState
<1>6. \A q \in Seq(Slot) : [s EXCEPT !.skippedKeys = q] \in RatchetState
  BY DEF RatchetState, Slot
<1> QED BY <1>2, <1>3, <1>4, <1>5, <1>6

\* What removing an entry leaves.
LEMMA WithoutParts ==
  ASSUME NEW q \in Seq(Slot), NEW i \in DOMAIN q
  PROVE  /\ Without(q, i) \in Seq(Slot)
         /\ \A x \in DOMAIN Without(q, i) :
              \/ x < i /\ x \in DOMAIN q /\ Without(q, i)[x] = q[x]
              \/ x >= i /\ x + 1 \in DOMAIN q /\ Without(q, i)[x] = q[x + 1]
         /\ DOMAIN Without(q, i) \subseteq Nat /\ DOMAIN q \subseteq Nat
<1>1. /\ Len(q) \in Nat /\ DOMAIN q = 1..Len(q) /\ \A x \in 1..Len(q) : q[x] \in Slot
      /\ i \in Nat /\ i >= 1 /\ i <= Len(q)
  BY LenProperties, ElementOfSeq
<1>2. PICK a, b : a = SubSeq(q, 1, i - 1) /\ b = SubSeq(q, i + 1, Len(q))
  OBVIOUS
<1>3. /\ a \in Seq(Slot) /\ Len(a) = i - 1
      /\ \A x \in 1..(i - 1) : a[x] = q[x]
  <2>1. /\ SubSeq(q, 1, i - 1) \in Seq(Slot)
        /\ Len(SubSeq(q, 1, i - 1)) = IF 1 <= i - 1 THEN (i - 1) - 1 + 1 ELSE 0
        /\ \A x \in 1..((i - 1) - 1 + 1) : SubSeq(q, 1, i - 1)[x] = q[1 + x - 1]
    BY <1>1, SubSeqProperties
  <2>2. /\ (IF 1 <= i - 1 THEN (i - 1) - 1 + 1 ELSE 0) = i - 1
        /\ (i - 1) - 1 + 1 = i - 1 /\ \A x \in 1..(i - 1) : 1 + x - 1 = x
    BY <1>1
  <2> QED BY <1>2, <2>1, <2>2
<1>4. /\ b \in Seq(Slot) /\ Len(b) = Len(q) - i
      /\ \A x \in 1..(Len(q) - i) : b[x] = q[i + x]
  BY <1>1, <1>2, SubSeqParts
<1>5. PICK w : w = a \o b
  OBVIOUS
<1>6. /\ w \in Seq(Slot) /\ Len(w) = Len(a) + Len(b)
      /\ \A x \in 1..(Len(a) + Len(b)) : w[x] = IF x <= Len(a) THEN a[x] ELSE b[x - Len(a)]
  BY <1>3, <1>4, <1>5, ConcatProperties
<1>7. DOMAIN w = 1..(Len(q) - 1)
  BY <1>1, <1>3, <1>4, <1>6, LenProperties
<1>8. ASSUME NEW x \in DOMAIN w
      PROVE  \/ x < i /\ x \in DOMAIN q /\ w[x] = q[x]
             \/ x >= i /\ x + 1 \in DOMAIN q /\ w[x] = q[x + 1]
  <2>1. CASE x < i
    <3>1. x \in 1..(i - 1) /\ x <= Len(a) /\ x \in 1..(Len(a) + Len(b)) /\ x \in DOMAIN q
      BY <1>1, <1>3, <1>4, <1>7, <2>1
    <3> QED BY <1>3, <1>6, <2>1, <3>1
  <2>2. CASE ~ (x < i)
    <3>1. /\ x - Len(a) \in 1..(Len(q) - i) /\ ~ (x <= Len(a)) /\ x \in 1..(Len(a) + Len(b))
          /\ x + 1 \in DOMAIN q /\ x >= i /\ i + (x - Len(a)) = x + 1
      BY <1>1, <1>3, <1>4, <1>7, <2>2
    <3> QED BY <1>4, <1>6, <3>1
  <2> QED BY <2>1, <2>2
<1>9. DOMAIN w \subseteq Nat /\ DOMAIN q \subseteq Nat
  BY <1>1, <1>7
<1> QED BY <1>2, <1>5, <1>6, <1>8, <1>9 DEF Without

LEMMA WithoutKeepsSafe ==
  ASSUME NEW p \in Peer, NEW s \in RatchetState, NEW O \in SUBSET Key,
         ReceivingSafe(p, s, O), NEW i \in DOMAIN s.skippedKeys,
         NEW t, t = [s EXCEPT !.skippedKeys = Without(@, i)]
  PROVE  ReceivingSafe(p, t, O) /\ ReceivingSafe(p, t, O \cup {s.skippedKeys[i].key})
<1>1. s.skippedKeys \in Seq(Slot)
  BY DEF RatchetState, Slot
<1>2. PICK q : q = s.skippedKeys
  OBVIOUS
<1>3. t.skippedKeys = Without(q, i) /\ t.rootKey = s.rootKey /\ t.recvChainKey = s.recvChainKey
  BY <1>2 DEF RatchetState
<1>4. /\ \A x \in DOMAIN t.skippedKeys :
              \/ x < i /\ x \in DOMAIN q /\ t.skippedKeys[x] = q[x]
              \/ x >= i /\ x + 1 \in DOMAIN q /\ t.skippedKeys[x] = q[x + 1]
      /\ DOMAIN t.skippedKeys \subseteq Nat /\ DOMAIN q \subseteq Nat
  BY <1>1, <1>2, <1>3, WithoutParts
<1>5. \A x \in DOMAIN t.skippedKeys :
        \E y \in DOMAIN q : /\ y # i /\ SlotKey(t, x) = SlotKey(s, y)
                            /\ y = IF x < i THEN x ELSE x + 1
  BY <1>2, <1>4 DEF SlotKey
<1>6. \A x, y \in DOMAIN t.skippedKeys : SlotKey(t, x) = SlotKey(t, y) => x = y
  <2> SUFFICES ASSUME NEW x \in DOMAIN t.skippedKeys, NEW y \in DOMAIN t.skippedKeys,
                      SlotKey(t, x) = SlotKey(t, y)
               PROVE  x = y
    OBVIOUS
  <2>1. PICK a \in DOMAIN q : a # i /\ SlotKey(t, x) = SlotKey(s, a) /\ a = IF x < i THEN x ELSE x + 1
    BY <1>5
  <2>2. PICK b \in DOMAIN q : b # i /\ SlotKey(t, y) = SlotKey(s, b) /\ b = IF y < i THEN y ELSE y + 1
    BY <1>5
  <2>3. a = b
    BY <1>2, <2>1, <2>2 DEF ReceivingSafe
  <2>4. x \in Nat /\ y \in Nat /\ i \in Nat
    BY <1>2, <1>4
  <2> QED BY <2>1, <2>2, <2>3, <2>4
<1>7. \A x \in DOMAIN t.skippedKeys :
        /\ PeerChain(p, SlotKey(t, x).chain) /\ Passed(t, SlotKey(t, x))
        /\ SlotKey(t, x) # s.skippedKeys[i].key
        /\ \A k \in O : SlotKey(t, x) # k
  BY <1>2, <1>3, <1>5 DEF ReceivingSafe, Passed, SlotKey
<1>8. \A k \in O \cup {s.skippedKeys[i].key} : Passed(t, k)
  BY <1>3 DEF ReceivingSafe, Passed, SlotKey
<1>9. PeerChain(p, t.recvChainKey.chain) /\ Len(t.recvChainKey.chain) <= Len(t.rootKey)
  BY <1>3 DEF ReceivingSafe
<1> QED BY <1>6, <1>7, <1>8, <1>9 DEF ReceivingSafe

LEMMA AdvanceKeepsSafe ==
  ASSUME NEW p \in Peer, NEW s \in RatchetState, NEW O \in SUBSET Key,
         ReceivingSafe(p, s, O)
  PROVE  /\ ReceivingSafe(p, AdvanceReceiving(s), O)
         /\ ReceivingSafe(p, AdvanceReceiving(s), O \cup {s.recvChainKey})
<1>1. PICK t : t = AdvanceReceiving(s)
  OBVIOUS
<1>2. /\ t.rootKey = s.rootKey /\ t.skippedKeys = s.skippedKeys
      /\ t.recvChainKey.chain = s.recvChainKey.chain
      /\ t.recvChainKey.n = s.recvChainKey.n + 1
      /\ s.recvChainKey.n \in Nat /\ s.recvChainKey \in Key
  <2>1. s.recvChainKey \in Key /\ s.recvChainKey \in [chain : Root, n : Nat]
    BY DEF RatchetState, Key
  <2>2. /\ nextChainKey(s.recvChainKey).chain = s.recvChainKey.chain
        /\ nextChainKey(s.recvChainKey).n = s.recvChainKey.n + 1
    BY <2>1 DEF nextChainKey
  <2> QED BY <1>1, <2>1, <2>2, FieldTypes
<1>3. \A j \in DOMAIN s.skippedKeys : SlotKey(s, j) \in Key
  <2>1. s.skippedKeys \in Seq(Slot)
    BY DEF RatchetState, Slot
  <2> QED BY <2>1, SlotTypes DEF SlotKey
<1>4. \A k \in Key : Passed(s, k) => Passed(t, k)
  <2>1. \A k \in Key : k.n \in Nat
    BY DEF Key
  <2> QED BY <1>2, <2>1 DEF Passed
<1>5. \A i \in DOMAIN t.skippedKeys : SlotKey(t, i) = SlotKey(s, i) /\ SlotKey(t, i) # s.recvChainKey
  BY <1>2, <1>3 DEF ReceivingSafe, Passed, SlotKey
<1>6. Passed(t, s.recvChainKey)
  BY <1>2 DEF ReceivingSafe, Passed
<1> QED BY <1>1, <1>2, <1>3, <1>4, <1>5, <1>6 DEF ReceivingSafe

\* A chain derived from a root key longer than any before is a new one.
LEMMA NewChainsKeepSafe ==
  ASSUME NEW p \in Peer, NEW s \in RatchetState, NEW O \in SUBSET Key,
         ReceivingSafe(p, s, O)
  PROVE  /\ Len(s.rootKey) % 2 = Parity(p) => ReceivingSafe(p, NewReceivingChain(p, s), O)
         /\ ReceivingSafe(p, NewSendingChain(p, s), O)
<1>1. PICK t : t = NewReceivingChain(p, s)
  OBVIOUS
<1>2. /\ t.skippedKeys = s.skippedKeys /\ Len(t.rootKey) = Len(s.rootKey) + 1
      /\ t.recvChainKey.chain = t.rootKey /\ Len(s.rootKey) \in Nat
  <2>1. FirstKey(t.rootKey).chain = t.rootKey
    BY DEF FirstKey
  <2> QED BY <1>1, <2>1, NewChainTypes
<1>3. \A k : Len(k.chain) \in Nat /\ Passed(s, k) => Passed(t, k)
  BY <1>2 DEF Passed
<1>4. /\ \A j \in DOMAIN s.skippedKeys : Len(SlotKey(s, j).chain) \in Nat
      /\ \A k \in O : Len(k.chain) \in Nat
  <2>1. s.skippedKeys \in Seq(Slot)
    BY DEF RatchetState, Slot
  <2>2. \A k \in Key : Len(k.chain) \in Nat
    BY LenProperties DEF Key, Root
  <2> QED BY <2>1, <2>2, SlotTypes DEF SlotKey
<1>5. ASSUME Len(s.rootKey) % 2 = Parity(p)
      PROVE  ReceivingSafe(p, t, O)
  <2>1. Len(t.rootKey) % 2 # Parity(p)
    <3>1. \A n \in Nat : (n + 1) % 2 # n % 2
      OBVIOUS
    <3> QED BY <1>2, <1>5, <3>1
  <2>2. PeerChain(p, t.recvChainKey.chain) /\ Len(t.recvChainKey.chain) <= Len(t.rootKey)
    <3>1. Len(t.recvChainKey.chain) = Len(t.rootKey) /\ Len(t.rootKey) \in Nat
      BY <1>2
    <3>2. PeerChain(p, t.recvChainKey.chain)
      BY <1>2, <2>1, Zenon DEF PeerChain
    <3> QED BY <3>1, <3>2
  <2>3. \A k : Len(k.chain) <= Len(s.rootKey) => k.chain # t.recvChainKey.chain
    BY <1>2
  <2>4. \A i \in DOMAIN t.skippedKeys : SlotKey(t, i) = SlotKey(s, i)
    BY <1>2 DEF SlotKey
  <2> QED BY <1>2, <1>3, <1>4, <2>2, <2>3, <2>4 DEF ReceivingSafe
<1>6. PICK u : u = NewSendingChain(p, s)
  OBVIOUS
<1>7. /\ u.skippedKeys = s.skippedKeys /\ Len(u.rootKey) = Len(s.rootKey) + 1
      /\ u.recvChainKey = s.recvChainKey
  BY <1>6, NewChainTypes
<1>8. Len(s.recvChainKey.chain) \in Nat
  BY LenProperties DEF RatchetState, Key, Root
<1>9. \A k : Len(k.chain) \in Nat /\ Passed(s, k) => Passed(u, k)
  BY <1>2, <1>7 DEF Passed
<1>10. ReceivingSafe(p, u, O)
  BY <1>2, <1>4, <1>7, <1>8, <1>9 DEF ReceivingSafe, SlotKey
<1> QED BY <1>1, <1>5, <1>6, <1>10

-----------------------------------------------------------------------------
(* Type correctness.                                                       *)

LEMMA InChainTypes ==
  ASSUME TypeInv, NEW p \in Peer, NEW s \in RatchetState, NEW m \in sent,
         DecryptInChain(p, s, m)
  PROVE  /\ \E t \in RatchetState : state' = [state EXCEPT ![p] = t]
         /\ opened' \in SUBSET sent /\ overrun' \in BOOLEAN
<1>1. m.messageNumber \in Nat /\ opened \in SUBSET sent
  BY DEF TypeInv, TypeOK, Message
<1>2. CASE SkipsTooMany(s, m.messageNumber)
  BY <1>1, <1>2 DEF DecryptInChain
<1>3. CASE ~ SkipsTooMany(s, m.messageNumber)
  <2> DEFINE t == skipMessageKeys(s, m.messageNumber)
  <2>1. t \in RatchetState
    BY <1>1, SkipResult
  <2>2. AdvanceReceiving(t) \in RatchetState
    BY <2>1, FieldTypes
  <2>3. /\ state' = [state EXCEPT ![p] = AdvanceReceiving(t)]
        /\ opened' = Opened(m, t.recvChainKey)
        /\ overrun' \in BOOLEAN
    BY <1>3 DEF DecryptInChain
  <2> QED BY <1>1, <2>2, <2>3 DEF Opened
<1> QED BY <1>2, <1>3

LEMMA NewStateType ==
  ASSUME state \in [Peer -> RatchetState], NEW p \in Peer, NEW t \in RatchetState,
         state' = [state EXCEPT ![p] = t]
  PROVE  state' \in [Peer -> RatchetState]
OBVIOUS

LEMMA EncryptTypes ==
  ASSUME TypeInv, NEW p \in Peer, EncryptStep(p)
  PROVE  TypeInv'
<1>1. /\ state \in [Peer -> RatchetState] /\ state[p] \in RatchetState
      /\ encrypting \in [Peer -> [Caller -> EncryptType]]
      /\ Idle \in EncryptType
  BY DEF TypeInv, TypeOK, EncryptType, Idle
<1>2. PICK c \in Caller : Encrypt(p, c) \/ EncryptAdvance(p, c) \/ EncryptFinish(p, c)
  BY DEF EncryptStep
<1>3. encrypting[p][c] \in EncryptType
  BY <1>1
<1>4. ASSUME NEW e \in EncryptType, encrypting' = [encrypting EXCEPT ![p][c] = e]
      PROVE  encrypting' \in [Peer -> [Caller -> EncryptType]]
  BY <1>1, <1>4
<1>5. CASE Encrypt(p, c)
  <2>1. [pc |-> "deriving", key |-> state[p].sendChainKey] \in EncryptType
    BY <1>1 DEF RatchetState, EncryptType
  <2>2. encrypting' \in [Peer -> [Caller -> EncryptType]]
    BY <1>4, <1>5, <2>1 DEF Encrypt
  <2> QED BY <1>5, <2>2 DEF Encrypt, TypeInv, TypeOK, MessageInHand
<1>6. CASE EncryptAdvance(p, c)
  <2>1. encrypting[p][c].key \in Key
    BY <1>3, <1>6 DEF EncryptAdvance, EncryptType
  <2>2. nextChainKey(encrypting[p][c].key) \in Key
    BY <2>1, KeyTypes
  <2>3. [pc |-> "exporting", key |-> encrypting[p][c].key, dh |-> state[p].dhKeyPair] \in EncryptType
    BY <1>1, <2>1 DEF RatchetState, EncryptType
  <2>4. encrypting' \in [Peer -> [Caller -> EncryptType]]
    BY <1>4, <1>6, <2>3 DEF EncryptAdvance
  <2>5. state' = [state EXCEPT ![p] = [state[p] EXCEPT !.sendChainKey = nextChainKey(encrypting[p][c].key)]]
    BY <1>6 DEF EncryptAdvance
  <2>6. state' \in [Peer -> RatchetState]
    BY <1>1, <2>2, <2>5, FieldTypes, NewStateType
  <2> QED BY <1>6, <2>4, <2>6 DEF EncryptAdvance, TypeInv, TypeOK, MessageInHand
<1>7. CASE EncryptFinish(p, c)
  <2>1. encrypting[p][c].key \in Key /\ encrypting[p][c].dh \in Nat
    BY <1>3, <1>7 DEF EncryptFinish, EncryptType
  <2>2. Cardinality(SentBy(p)) \in Nat
    <3>1. SentBy(p) \subseteq sent /\ IsFiniteSet(sent)
      BY DEF SentBy, TypeInv
    <3> QED BY <3>1, FS_Subset, FS_CardinalityType
  <2>3. PICK m : /\ m = [from |-> p, dhPublicKey |-> encrypting[p][c].dh,
                         previousCount |-> state[p].previousSendCount,
                         messageNumber |-> state[p].sendCount,
                         key |-> encrypting[p][c].key, no |-> Cardinality(SentBy(p))]
                 /\ net' = net \cup {m} /\ sent' = sent \cup {m}
    BY <1>7 DEF EncryptFinish
  <2>4. m \in Message
    <3>1. state[p].previousSendCount \in Nat /\ state[p].sendCount \in Nat
      BY <1>1 DEF RatchetState
    <3> QED BY <2>1, <2>2, <2>3, <3>1 DEF Message
  <2>5. encrypting' \in [Peer -> [Caller -> EncryptType]]
    BY <1>1, <1>4, <1>7 DEF EncryptFinish
  <2>6. state' = [state EXCEPT ![p] = [state[p] EXCEPT !.sendCount = @ + 1]]
    BY <1>7 DEF EncryptFinish
  <2>7. state' \in [Peer -> RatchetState]
    BY <1>1, <2>6, FieldTypes, NewStateType
  <2>8. IsFiniteSet(sent')
    BY <2>3, FS_AddElement DEF TypeInv
  <2> QED BY <1>7, <2>3, <2>4, <2>5, <2>7, <2>8 DEF EncryptFinish, TypeInv, TypeOK, MessageInHand
<1> QED BY <1>2, <1>5, <1>6, <1>7

LEMMA DecryptTypes ==
  ASSUME TypeInv, NEW p \in Peer, DecryptStep(p)
  PROVE  TypeInv'
<1>1. /\ state \in [Peer -> RatchetState] /\ state[p] \in RatchetState
      /\ decrypting \in [Peer -> DecryptType] /\ decrypting[p] \in DecryptType
      /\ Idle \in DecryptType
      /\ net \subseteq sent /\ sent \subseteq Message /\ opened \subseteq sent
  BY DEF TypeInv, TypeOK, DecryptType, Idle
<1>2. ASSUME NEW m \in net, Receives(p, m)
      PROVE  net' \in SUBSET sent /\ copies' \in Nat
  BY <1>1, <1>2 DEF Receives, TypeInv, TypeOK
<1>3. ASSUME NEW m \in net, DecryptSkipped(p, m) PROVE TypeInv'
  <2>1. PICK i \in Slots(state[p], m) :
          /\ state' = [state EXCEPT ![p].skippedKeys = Without(@, i)]
          /\ opened' = Opened(m, state[p].skippedKeys[i].key)
    BY <1>3 DEF DecryptSkipped
  <2>2. state[p].skippedKeys \in Seq(Slot) /\ i \in DOMAIN state[p].skippedKeys
    BY <1>1 DEF RatchetState, Slot, Slots
  <2>3. Without(state[p].skippedKeys, i) \in Seq(Slot)
    BY <2>2, WithoutParts
  <2>4. state' = [state EXCEPT ![p] = [state[p] EXCEPT !.skippedKeys = Without(state[p].skippedKeys, i)]]
    BY <2>1
  <2>5. state' \in [Peer -> RatchetState]
    BY <1>1, <2>3, <2>4, FieldTypes, NewStateType
  <2>6. opened' \in SUBSET sent
    BY <1>1, <2>1 DEF Opened
  <2>7. overrun' \in BOOLEAN
    BY <1>3 DEF DecryptSkipped
  <2>8. net' \in SUBSET sent /\ copies' \in Nat
    BY <1>2, <1>3 DEF DecryptSkipped
  <2> QED BY <1>3, <2>5, <2>6, <2>7, <2>8 DEF DecryptSkipped, TypeInv, TypeOK, MessageInHand
<1>4. ASSUME NEW m \in net, DecryptSameKey(p, m) PROVE TypeInv'
  <2>1. DecryptInChain(p, state[p], m)
    BY <1>4 DEF DecryptSameKey
  <2>2. /\ \E t \in RatchetState : state' = [state EXCEPT ![p] = t]
        /\ opened' \in SUBSET sent /\ overrun' \in BOOLEAN
    BY <1>1, <2>1, InChainTypes
  <2>3. state' \in [Peer -> RatchetState]
    BY <1>1, <2>2, NewStateType
  <2>4. net' \in SUBSET sent /\ copies' \in Nat
    BY <1>2, <1>4 DEF DecryptSameKey
  <2> QED BY <1>4, <2>2, <2>3, <2>4 DEF DecryptSameKey, TypeInv, TypeOK, MessageInHand
<1>5. ASSUME NEW m \in net, DecryptNewKey(p, m) PROVE TypeInv'
  <2>1. net' \in SUBSET sent /\ copies' \in Nat
    BY <1>2, <1>5 DEF DecryptNewKey
  <2>2. overrun' \in BOOLEAN
    BY <1>5 DEF DecryptNewKey
  <2>3. m \in Message /\ m.dhPublicKey \in Nat /\ m.previousCount \in Nat
    BY <1>1 DEF Message
  <2>4. \/ state' = state /\ decrypting' = decrypting
        \/ \E t \in {state[p], skipMessageKeys(state[p], m.previousCount)} :
             /\ state' = [state EXCEPT ![p] = NewPeerKey(t, m.dhPublicKey)]
             /\ decrypting' = [decrypting EXCEPT ![p] = [pc |-> "receiving", msg |-> m]]
    BY <1>5 DEF DecryptNewKey
  <2>5. skipMessageKeys(state[p], m.previousCount) \in RatchetState
    BY <1>1, <2>3, SkipResult
  <2>6. [pc |-> "receiving", msg |-> m] \in DecryptType
    BY <2>3 DEF DecryptType
  <2>7. ASSUME NEW t \in {state[p], skipMessageKeys(state[p], m.previousCount)},
               state' = [state EXCEPT ![p] = NewPeerKey(t, m.dhPublicKey)]
        PROVE  state' \in [Peer -> RatchetState]
    <3>1. t \in RatchetState
      BY <1>1, <2>5
    <3>2. NewPeerKey(t, m.dhPublicKey) \in RatchetState
      BY <2>3, <3>1, FieldTypes
    <3> QED BY <1>1, <2>7, <3>2, NewStateType
  <2>8. state' \in [Peer -> RatchetState] /\ decrypting' \in [Peer -> DecryptType]
    BY <1>1, <2>4, <2>6, <2>7
  <2>9. m \in sent /\ m.from = other(p)
    BY <1>1, <1>5 DEF DecryptNewKey, Receives
  <2>10. sent' = sent
    BY <1>5 DEF DecryptNewKey
  <2>11. ASSUME NEW q \in Peer, decrypting'[q] # Idle
         PROVE  decrypting'[q].msg \in sent' /\ decrypting'[q].msg.from = other(q)
    <3>1. CASE decrypting'[q] = decrypting[q]
      BY <2>10, <2>11, <3>1 DEF TypeInv, MessageInHand
    <3>2. CASE q = p /\ decrypting'[q] = [pc |-> "receiving", msg |-> m]
      BY <2>9, <2>10, <3>2
    <3> QED BY <1>1, <2>4, <3>1, <3>2
  <2>12. MessageInHand'
    BY <2>11 DEF MessageInHand
  <2> QED BY <1>5, <2>1, <2>2, <2>8, <2>12 DEF DecryptNewKey, TypeInv, TypeOK
<1>6. CASE DecryptReceiving(p)
  <2>1. decrypting[p] \in [pc : {"receiving", "sending"}, msg : Message] /\ decrypting[p] # Idle
    BY <1>1, <1>6 DEF DecryptReceiving, DecryptType, Idle
  <2>2. [decrypting[p] EXCEPT !.pc = "sending"] \in [pc : {"receiving", "sending"}, msg : Message]
        /\ [decrypting[p] EXCEPT !.pc = "sending"].msg = decrypting[p].msg
    BY <2>1
  <2>3. decrypting' = [decrypting EXCEPT ![p] = [decrypting[p] EXCEPT !.pc = "sending"]]
    BY <1>6 DEF DecryptReceiving
  <2>4. decrypting' \in [Peer -> DecryptType]
    BY <1>1, <2>2, <2>3 DEF DecryptType
  <2>5. NewReceivingChain(p, state[p]) \in RatchetState
    BY <1>1, NewChainTypes
  <2>6. state' \in [Peer -> RatchetState]
    BY <1>1, <1>6, <2>5, NewStateType DEF DecryptReceiving
  <2>7. MessageInHand'
    BY <1>1, <1>6, <2>1, <2>2, <2>3 DEF DecryptReceiving, TypeInv, MessageInHand
  <2> QED BY <1>6, <2>4, <2>6, <2>7 DEF DecryptReceiving, TypeInv, TypeOK
<1>7. CASE DecryptSending(p)
  <2>1. NewSendingChain(p, state[p]) \in RatchetState
    BY <1>1, NewChainTypes
  <2>2. decrypting[p].msg \in sent
    BY <1>7 DEF DecryptSending, Idle, TypeInv, MessageInHand
  <2>3. DecryptInChain(p, NewSendingChain(p, state[p]), decrypting[p].msg)
    BY <1>7 DEF DecryptSending
  <2>4. /\ \E t \in RatchetState : state' = [state EXCEPT ![p] = t]
        /\ opened' \in SUBSET sent /\ overrun' \in BOOLEAN
    BY <2>1, <2>2, <2>3, InChainTypes
  <2>5. state' \in [Peer -> RatchetState]
    BY <1>1, <2>4, NewStateType
  <2>6. decrypting' \in [Peer -> DecryptType] /\ MessageInHand'
    BY <1>1, <1>7 DEF DecryptSending, TypeInv, MessageInHand
  <2> QED BY <1>7, <2>4, <2>5, <2>6 DEF DecryptSending, TypeInv, TypeOK
<1> QED BY <1>3, <1>4, <1>5, <1>6, <1>7 DEF DecryptStep

LEMMA TypeInit == ASSUME Init PROVE TypeInv
<1>1. rootKDF(Alice, SharedSecret, 1, 1) \in Root
  BY KeyTypes, RootType DEF Peer
<1>2. <<>> \in Seq([dh : Nat, n : Nat, key : Key])
  BY EmptySeq
<1>3. initAlice \in RatchetState
  BY <1>1, <1>2, KeyTypes DEF initAlice, RatchetState
<1>4. initBob \in RatchetState
  BY <1>2, KeyTypes DEF initBob, RatchetState
<1>5. state \in [Peer -> RatchetState]
  BY <1>3, <1>4 DEF Init
<1>6. Idle \in EncryptType /\ Idle \in DecryptType
  BY DEF Idle, EncryptType, DecryptType
<1>7. IsFiniteSet(sent)
  BY FS_EmptySet DEF Init
<1> QED BY <1>5, <1>6, <1>7 DEF Init, TypeInv, TypeOK, MessageInHand

\* Every state has the types TypeOK gives it, and a peer only ever decrypts what
\* the other sent: encrypt and decrypt, in any interleaving.
THEOREM TypeCorrect == Spec => []TypeOK
<1>1. Init => TypeInv
  BY TypeInit
<1>2. TypeInv /\ [Next]_vars => TypeInv'
  <2> SUFFICES ASSUME TypeInv, [Next]_vars PROVE TypeInv'
    OBVIOUS
  <2>1. CASE Next
    BY <2>1, EncryptTypes, DecryptTypes DEF Next
  <2>2. CASE UNCHANGED vars
    BY <2>2 DEF vars, TypeInv, TypeOK, MessageInHand
  <2> QED BY <2>1, <2>2
<1>3. TypeInv => TypeOK
  BY DEF TypeInv
<1> QED BY <1>1, <1>2, <1>3, PTL DEF Spec

-----------------------------------------------------------------------------
(* The invariant, for calls that wait for one another.                     *)

\* At most one call of p is in progress.
OneCall(p) ==
    /\ \A c, d \in Caller : encrypting[p][c] # Idle /\ encrypting[p][d] # Idle => c = d
    /\ decrypting[p] # Idle => \A c \in Caller : encrypting[p][c] = Idle

\* The root key of p has the parity of p's chains, except between the two halves
\* of a DH ratchet step.
RootParity(p) ==
    IF decrypting[p].pc = "sending" THEN Len(state[p].rootKey) % 2 # Parity(p)
                                    ELSE Len(state[p].rootKey) % 2 = Parity(p)

\* Key k is of a chain of p's that lies behind its chain key.
Used(p, k) ==
    /\ OwnChain(p, k.chain)
    /\ Len(k.chain) <= Len(state[p].rootKey)
    /\ k.chain = state[p].sendChainKey.chain => k.n < state[p].sendChainKey.n

SendingSafe(p) ==
    /\ \/ state[p].sendChainKey = NoKey
       \/ /\ OwnChain(p, state[p].sendChainKey.chain)
          /\ Len(state[p].sendChainKey.chain) <= Len(state[p].rootKey)
    /\ \A m \in sent : m.from = p => Used(p, m.key)
    /\ \A c \in Caller :
         /\ encrypting[p][c].pc = "deriving" =>
              encrypting[p][c].key = state[p].sendChainKey /\ state[p].sendChainKey # NoKey
         /\ encrypting[p][c].pc = "exporting" =>
              /\ Used(p, encrypting[p][c].key)
              /\ \A m \in sent : m.from = p => m.key # encrypting[p][c].key

OpenedKeys(p) == {m.key : m \in {x \in opened : x.from = other(p)}}

PeerSafe(p) ==
    /\ OneCall(p)
    /\ RootParity(p)
    /\ SendingSafe(p)
    /\ ReceivingSafe(p, state[p], OpenedKeys(p))

Safe ==
    /\ TypeInv
    /\ \A p \in Peer : PeerSafe(p)
    /\ UniqueKeys

\* A step of one peer leaves the other's part as it is.
LEMMA OthersStaySafe ==
  ASSUME Safe, NEW q \in Peer,
         state'[q] = state[q], encrypting'[q] = encrypting[q], decrypting'[q] = decrypting[q],
         \A m \in sent' : m.from = q => m \in sent,
         opened \subseteq opened',
         \A m \in opened' : m.from = other(q) => m \in opened
  PROVE  PeerSafe(q)'
<1>1. OpenedKeys(q)' = OpenedKeys(q)
  BY DEF OpenedKeys
<1>2. OneCall(q)' /\ RootParity(q)'
  BY DEF Safe, PeerSafe, OneCall, RootParity
<1>3. SendingSafe(q)'
  BY DEF Safe, PeerSafe, SendingSafe, Used
<1>4. ReceivingSafe(q, state[q], OpenedKeys(q))'
  BY <1>1 DEF Safe, PeerSafe
<1> QED BY <1>2, <1>3, <1>4 DEF PeerSafe

\* The keys of the two peers' messages are of different chains.
LEMMA ChainsDiffer ==
  ASSUME NEW p \in Peer, NEW ch, OwnChain(p, ch)
  PROVE  ~ OwnChain(other(p), ch) /\ ~ PeerChain(p, ch) /\ PeerChain(other(p), ch)
<1>1. Parity(other(p)) # Parity(p)
  BY ConstantsAssumption DEF Parity, other, Peer
<1> QED BY <1>1 DEF OwnChain, PeerChain

LEMMA EncryptKeepsSafe ==
  ASSUME Safe, ~ Overlap, NEW p \in Peer, EncryptStep(p)
  PROVE  Safe'
<1>1. TypeInv'
  BY EncryptTypes DEF Safe
<1>2. /\ state \in [Peer -> RatchetState] /\ state[p] \in RatchetState
      /\ encrypting \in [Peer -> [Caller -> EncryptType]]
      /\ state[p].sendChainKey \in [chain : Root, n : Nat]
  BY DEF Safe, TypeInv, TypeOK, RatchetState, Key
<1>3. PICK c \in Caller : Encrypt(p, c) \/ EncryptAdvance(p, c) \/ EncryptFinish(p, c)
  BY DEF EncryptStep
<1>4. \A d \in Caller : d # c => encrypting[p][d] = Idle
  <2>1. CASE Encrypt(p, c)
    BY <2>1 DEF Encrypt, MayStart, Encrypts
  <2>2. CASE encrypting[p][c] # Idle
    BY <2>2 DEF Safe, PeerSafe, OneCall
  <2>3. EncryptAdvance(p, c) \/ EncryptFinish(p, c) => encrypting[p][c] # Idle
    BY DEF EncryptAdvance, EncryptFinish, Idle
  <2> QED BY <1>3, <2>1, <2>2, <2>3
<1>5. decrypting[p] = Idle /\ decrypting' = decrypting /\ opened' = opened
  <2>1. CASE Encrypt(p, c)
    BY <2>1 DEF Encrypt, MayStart
  <2>2. CASE EncryptAdvance(p, c) \/ EncryptFinish(p, c)
    <3>1. encrypting[p][c] # Idle
      BY <2>2 DEF EncryptAdvance, EncryptFinish, Idle
    <3> QED BY <2>2, <3>1 DEF Safe, PeerSafe, OneCall, EncryptAdvance, EncryptFinish
  <2> QED BY <1>3, <2>1, <2>2
<1>6. PICK e : encrypting' = [encrypting EXCEPT ![p][c] = e]
  BY <1>3 DEF Encrypt, EncryptAdvance, EncryptFinish
<1>7. /\ encrypting'[p][c] = e
      /\ \A d \in Caller : d # c => encrypting'[p][d] = Idle
      /\ \A q \in Peer : q # p => encrypting'[q] = encrypting[q]
  BY <1>2, <1>4, <1>6
<1>8. OneCall(p)'
  BY <1>5, <1>7 DEF OneCall
<1>9. \/ state' = state
      \/ \E t : state' = [state EXCEPT ![p] = t]
  <2>1. Encrypt(p, c) => state' = state
    BY DEF Encrypt
  <2>2. EncryptAdvance(p, c) => \E t : state' = [state EXCEPT ![p] = t]
    BY DEF EncryptAdvance
  <2>3. EncryptFinish(p, c) => \E t : state' = [state EXCEPT ![p] = t]
    BY DEF EncryptFinish
  <2> QED BY <1>3, <2>1, <2>2, <2>3
<1>10. \A q \in Peer : q # p => state'[q] = state[q]
  BY <1>2, <1>9
<1>11. /\ state'[p].rootKey = state[p].rootKey
       /\ state'[p].recvChainKey = state[p].recvChainKey
       /\ state'[p].skippedKeys = state[p].skippedKeys
  BY <1>2, <1>3 DEF Encrypt, EncryptAdvance, EncryptFinish, RatchetState
<1>12. RootParity(p)'
  BY <1>5, <1>11 DEF Safe, PeerSafe, RootParity
<1>13. ReceivingSafe(p, state[p], OpenedKeys(p))'
  <2>1. OpenedKeys(p)' = OpenedKeys(p)
    BY <1>5 DEF OpenedKeys
  <2> QED BY <1>11, <2>1 DEF Safe, PeerSafe, ReceivingSafe, Passed, SlotKey
<1>14. CASE Encrypt(p, c)
  <2>1. e = [pc |-> "deriving", key |-> state[p].sendChainKey]
    BY <1>2, <1>7, <1>14 DEF Encrypt
  <2>2. SendingSafe(p)'
    BY <1>7, <1>14, <2>1 DEF Encrypt, Safe, PeerSafe, SendingSafe, Used, Idle
  <2>3. \A q \in Peer : q # p => PeerSafe(q)'
    BY <1>5, <1>7, <1>10, <1>14, OthersStaySafe DEF Encrypt
  <2>4. UniqueKeys'
    BY <1>14 DEF Encrypt, Safe, UniqueKeys
  <2> QED BY <1>1, <1>8, <1>12, <1>13, <2>2, <2>3, <2>4 DEF Safe, PeerSafe
<1>15. CASE EncryptAdvance(p, c)
  <2>1. PICK k : k = state[p].sendChainKey
    OBVIOUS
  <2>2. encrypting[p][c].key = k /\ k # NoKey /\ k \in Key /\ k.n \in Nat /\ OwnChain(p, k.chain)
        /\ Len(k.chain) <= Len(state[p].rootKey)
    BY <1>2, <1>15, <2>1 DEF EncryptAdvance, Safe, PeerSafe, SendingSafe, Key
  <2>3. e.pc = "exporting" /\ e.key = k
    BY <1>2, <1>7, <1>15, <2>2 DEF EncryptAdvance
  <2>4. state'[p].sendChainKey.chain = k.chain /\ state'[p].sendChainKey.n = k.n + 1
    BY <1>2, <1>15, <2>2 DEF EncryptAdvance, nextChainKey, RatchetState, Key
  <2>5. sent' = sent
    BY <1>15 DEF EncryptAdvance
  <2>6. \A m \in sent : m.key.n \in Nat
    BY DEF Safe, TypeInv, TypeOK, Message, Key
  <2>7. \A m \in sent : m.from = p => Used(p, m.key)' /\ m.key # k
    BY <1>11, <2>1, <2>2, <2>4, <2>6 DEF Safe, PeerSafe, SendingSafe, Used
  <2>8. Used(p, k)'
    BY <1>11, <2>2, <2>4 DEF Used
  <2>9. SendingSafe(p)'
    BY <1>7, <1>11, <2>2, <2>3, <2>4, <2>5, <2>7, <2>8 DEF SendingSafe, Used, Idle
  <2>10. \A q \in Peer : q # p => PeerSafe(q)'
    BY <1>5, <1>7, <1>10, <2>5, OthersStaySafe
  <2>11. UniqueKeys'
    BY <2>5 DEF Safe, UniqueKeys
  <2> QED BY <1>1, <1>8, <1>12, <1>13, <2>9, <2>10, <2>11 DEF Safe, PeerSafe
<1>16. CASE EncryptFinish(p, c)
  <2>1. PICK m : /\ m.from = p /\ m.key = encrypting[p][c].key
                 /\ sent' = sent \cup {m}
    BY <1>16 DEF EncryptFinish
  <2>2. /\ Used(p, m.key) /\ \A x \in sent : x.from = p => x.key # m.key
    BY <1>16, <2>1 DEF EncryptFinish, Safe, PeerSafe, SendingSafe
  <2>3. e = Idle
    BY <1>2, <1>7, <1>16 DEF EncryptFinish
  <2>4. state'[p].sendChainKey = state[p].sendChainKey
    BY <1>2, <1>16 DEF EncryptFinish, RatchetState
  <2>5. SendingSafe(p)'
    BY <1>7, <1>11, <2>1, <2>2, <2>3, <2>4 DEF Safe, PeerSafe, SendingSafe, Used, Idle
  <2>6. \A q \in Peer : q # p => PeerSafe(q)'
    BY <1>5, <1>7, <1>10, <2>1, OthersStaySafe
  <2>7. \A x \in sent : x.key # m.key
    <3> SUFFICES ASSUME NEW x \in sent PROVE x.key # m.key
      OBVIOUS
    <3>1. x.from \in Peer
      BY DEF Safe, TypeInv, TypeOK, Message
    <3>2. CASE x.from = p
      BY <2>2, <3>2
    <3>3. CASE x.from # p
      <4>1. x.from = other(p) /\ Used(other(p), x.key) /\ other(p) \in Peer
        BY <3>1, <3>3, PeerFacts DEF Safe, PeerSafe, SendingSafe
      <4> QED BY <2>2, <4>1, ChainsDiffer DEF Used
    <3> QED BY <3>2, <3>3
  <2>8. UniqueKeys'
    BY <2>1, <2>7 DEF Safe, UniqueKeys
  <2> QED BY <1>1, <1>8, <1>12, <1>13, <2>5, <2>6, <2>8 DEF Safe, PeerSafe
<1> QED BY <1>3, <1>14, <1>15, <1>16

\* Decrypting in the receiving chain: s is the state of p, or p's state after the
\* DH ratchet step.
LEMMA InChainSafe ==
  ASSUME Safe, NEW p \in Peer, NEW s \in RatchetState, NEW m \in sent, m.from = other(p),
         ReceivingSafe(p, s, OpenedKeys(p)),
         DecryptInChain(p, s, m)
  PROVE  /\ \E t \in RatchetState :
              /\ state' = [state EXCEPT ![p] = t]
              /\ t.rootKey = s.rootKey /\ t.sendChainKey = s.sendChainKey
              /\ ReceivingSafe(p, t, OpenedKeys(p)')
         /\ opened \subseteq opened' /\ opened' \subseteq opened \cup {m}
<1>1. m.messageNumber \in Nat /\ m.key \in Key /\ OpenedKeys(p) \in SUBSET Key
  BY DEF Safe, TypeInv, TypeOK, Message, OpenedKeys
<1>2. CASE SkipsTooMany(s, m.messageNumber)
  <2>1. state' = [state EXCEPT ![p] = s] /\ opened' = opened
    BY <1>2 DEF DecryptInChain
  <2>2. OpenedKeys(p)' = OpenedKeys(p)
    BY <2>1 DEF OpenedKeys
  <2> QED BY <2>1, <2>2
<1>3. CASE ~ SkipsTooMany(s, m.messageNumber)
  <2>1. PICK t : t = skipMessageKeys(s, m.messageNumber)
    OBVIOUS
  <2>2. /\ t \in RatchetState /\ t.rootKey = s.rootKey /\ t.sendChainKey = s.sendChainKey
        /\ ReceivingSafe(p, t, OpenedKeys(p))
    BY <1>1, <2>1, SkipResult, SkipKeepsSafe
  <2>3. /\ AdvanceReceiving(t) \in RatchetState
        /\ AdvanceReceiving(t).rootKey = s.rootKey
        /\ AdvanceReceiving(t).sendChainKey = s.sendChainKey
    BY <2>2, FieldTypes
  <2>4. /\ ReceivingSafe(p, AdvanceReceiving(t), OpenedKeys(p))
        /\ ReceivingSafe(p, AdvanceReceiving(t), OpenedKeys(p) \cup {t.recvChainKey})
    BY <1>1, <2>2, AdvanceKeepsSafe
  <2>5. state' = [state EXCEPT ![p] = AdvanceReceiving(t)] /\ opened' = Opened(m, t.recvChainKey)
    BY <1>3, <2>1 DEF DecryptInChain
  <2>6. OpenedKeys(p)' = OpenedKeys(p) \/ OpenedKeys(p)' = OpenedKeys(p) \cup {t.recvChainKey}
    BY <2>5 DEF Opened, OpenedKeys
  <2>7. opened \subseteq opened' /\ opened' \subseteq opened \cup {m}
    BY <2>5 DEF Opened
  <2>8. ReceivingSafe(p, AdvanceReceiving(t), OpenedKeys(p)')
    BY <2>4, <2>6
  <2> QED BY <2>3, <2>5, <2>7, <2>8
<1> QED BY <1>2, <1>3

\* What a decryption leaves of the sending side, when the root key only grew and
\* the chain key is the old one or begins the chain of a longer root key.
LEMMA DecryptKeepsSending ==
  ASSUME Safe, NEW p \in Peer, NEW t \in RatchetState,
         state' = [state EXCEPT ![p] = t],
         \A c \in Caller : encrypting[p][c] = Idle,
         encrypting' = encrypting, sent' = sent,
         Len(t.rootKey) >= Len(state[p].rootKey),
         \/ t.sendChainKey = state[p].sendChainKey
         \/ /\ Len(t.sendChainKey.chain) > Len(state[p].rootKey)
            /\ Len(t.sendChainKey.chain) <= Len(t.rootKey)
            /\ OwnChain(p, t.sendChainKey.chain)
  PROVE  SendingSafe(p)'
<1>1. state \in [Peer -> RatchetState] /\ state'[p] = t
  BY DEF Safe, TypeInv, TypeOK
<1>2. /\ Len(t.rootKey) \in Nat /\ Len(state[p].rootKey) \in Nat
      /\ Len(state[p].sendChainKey.chain) \in Nat
  BY <1>1, LenProperties DEF RatchetState, Key, Root
<1>3. \A m \in sent : Len(m.key.chain) \in Nat
  BY LenProperties DEF Safe, TypeInv, TypeOK, Message, Key, Root
<1>4. SendingSafe(p)
  BY DEF Safe, PeerSafe
<1>5. \A m \in sent : m.from = p => Used(p, m.key)'
  <2>1. CASE t.sendChainKey = state[p].sendChainKey
    BY <1>1, <1>2, <1>3, <1>4, <2>1 DEF SendingSafe, Used
  <2>2. CASE Len(t.sendChainKey.chain) > Len(state[p].rootKey)
    BY <1>1, <1>2, <1>3, <1>4, <2>2 DEF SendingSafe, Used
  <2> QED BY <2>1, <2>2
<1>6. \/ t.sendChainKey = NoKey
      \/ /\ OwnChain(p, t.sendChainKey.chain)
         /\ Len(t.sendChainKey.chain) <= Len(t.rootKey)
  BY <1>2, <1>4 DEF SendingSafe
<1> QED BY <1>1, <1>5, <1>6 DEF SendingSafe, Idle

LEMMA DecryptKeepsSafe ==
  ASSUME Safe, ~ Overlap, NEW p \in Peer, DecryptStep(p)
  PROVE  Safe'
<1>1. TypeInv'
  BY DecryptTypes DEF Safe
<1>2. /\ state \in [Peer -> RatchetState] /\ state[p] \in RatchetState
      /\ decrypting \in [Peer -> DecryptType]
      /\ net \subseteq sent /\ sent \subseteq Message /\ opened \subseteq sent
      /\ OpenedKeys(p) \in SUBSET Key
  BY DEF Safe, TypeInv, TypeOK, Message, OpenedKeys
<1>3. encrypting' = encrypting /\ sent' = sent
  BY DEF DecryptStep, DecryptSkipped, DecryptSameKey, DecryptNewKey, DecryptReceiving, DecryptSending
<1>4. UniqueKeys'
  BY <1>3 DEF Safe, UniqueKeys
<1>5. ASSUME NEW t \in RatchetState, state' = [state EXCEPT ![p] = t],
             ReceivingSafe(p, t, OpenedKeys(p)'),
             \A c \in Caller : encrypting[p][c] = Idle,
             Len(t.rootKey) >= Len(state[p].rootKey),
             \/ t.sendChainKey = state[p].sendChainKey
             \/ /\ Len(t.sendChainKey.chain) > Len(state[p].rootKey)
                /\ Len(t.sendChainKey.chain) <= Len(t.rootKey)
                /\ OwnChain(p, t.sendChainKey.chain),
             RootParity(p)',
             \A q \in Peer : q # p => decrypting'[q] = decrypting[q],
             NEW m \in sent, m.from = other(p),
             opened \subseteq opened', opened' \subseteq opened \cup {m}
      PROVE  Safe'
  <2>1. SendingSafe(p)'
    BY <1>3, <1>5, DecryptKeepsSending
  <2>2. OneCall(p)'
    BY <1>3, <1>5 DEF OneCall
  <2>3. ReceivingSafe(p, state[p], OpenedKeys(p))'
    BY <1>2, <1>5
  <2>4. ASSUME NEW q \in Peer, q # p PROVE PeerSafe(q)'
    <3>1. q = other(p) /\ other(q) = p /\ other(p) # p
      BY <2>4, PeerFacts
    <3>2. /\ state'[q] = state[q] /\ encrypting'[q] = encrypting[q]
          /\ decrypting'[q] = decrypting[q]
      BY <1>2, <1>3, <1>5, <2>4
    <3>3. \A x \in opened' : x.from = other(q) => x \in opened
      BY <1>5, <3>1
    <3> QED BY <1>3, <1>5, <3>2, <3>3, OthersStaySafe
  <2> QED BY <1>1, <1>4, <1>5, <2>1, <2>2, <2>3, <2>4 DEF Safe, PeerSafe
<1>6. ASSUME NEW m \in net, Receives(p, m)
      PROVE  /\ m \in sent /\ m \in Message /\ m.from = other(p)
             /\ \A c \in Caller : encrypting[p][c] = Idle
             /\ decrypting[p] = Idle /\ decrypting[p].pc # "sending"
             /\ Len(state[p].rootKey) % 2 = Parity(p)
  <2>1. m \in sent /\ m \in Message /\ m.from = other(p)
    BY <1>2, <1>6 DEF Receives
  <2>2. (\A c \in Caller : encrypting[p][c] = Idle) /\ decrypting[p] = Idle
    BY <1>6 DEF Receives, MayStart, Encrypts
  <2>3. decrypting[p].pc # "sending"
    BY <2>2 DEF Idle
  <2>4. Len(state[p].rootKey) % 2 = Parity(p)
    BY <2>3 DEF Safe, PeerSafe, RootParity
  <2> QED BY <2>1, <2>2, <2>3, <2>4
<1>7. Len(state[p].rootKey) \in Nat
  BY <1>2, NewChainTypes
<1>8. ASSUME NEW m \in net, DecryptSkipped(p, m) PROVE Safe'
  <2>1. PICK i \in Slots(state[p], m) :
          /\ state' = [state EXCEPT ![p].skippedKeys = Without(@, i)]
          /\ opened' = Opened(m, state[p].skippedKeys[i].key)
    BY <1>8 DEF DecryptSkipped
  <2>2. state[p].skippedKeys \in Seq(Slot) /\ i \in DOMAIN state[p].skippedKeys
    BY <1>2 DEF RatchetState, Slot, Slots
  <2>3. PICK t : t = [state[p] EXCEPT !.skippedKeys = Without(@, i)]
    OBVIOUS
  <2>4. t \in RatchetState /\ t.rootKey = state[p].rootKey /\ t.sendChainKey = state[p].sendChainKey
    <3>1. Without(state[p].skippedKeys, i) \in Seq(Slot)
      BY <2>2, WithoutParts
    <3>2. t \in RatchetState
      BY <1>2, <2>3, <3>1, FieldTypes
    <3> QED BY <1>2, <2>3, <3>2 DEF RatchetState
  <2>5. state' = [state EXCEPT ![p] = t]
    BY <2>1, <2>3
  <2>6. /\ ReceivingSafe(p, t, OpenedKeys(p))
        /\ ReceivingSafe(p, t, OpenedKeys(p) \cup {state[p].skippedKeys[i].key})
    BY <1>2, <2>2, <2>3, WithoutKeepsSafe DEF Safe, PeerSafe
  <2>7. \/ OpenedKeys(p)' = OpenedKeys(p)
        \/ OpenedKeys(p)' = OpenedKeys(p) \cup {state[p].skippedKeys[i].key}
    BY <2>1 DEF Opened, OpenedKeys
  <2>8. ReceivingSafe(p, t, OpenedKeys(p)')
    BY <2>6, <2>7
  <2>9. Receives(p, m) /\ decrypting' = decrypting
    BY <1>8 DEF DecryptSkipped
  <2>10. RootParity(p)'
    BY <1>2, <1>6, <2>4, <2>5, <2>9 DEF RootParity
  <2>11. opened \subseteq opened' /\ opened' \subseteq opened \cup {m}
    BY <2>1 DEF Opened
  <2>12. Len(t.rootKey) >= Len(state[p].rootKey)
    BY <1>7, <2>4
  <2> QED BY <1>5, <1>6, <2>4, <2>5, <2>8, <2>9, <2>10, <2>11, <2>12
<1>9. ASSUME NEW m \in net, DecryptSameKey(p, m) PROVE Safe'
  <2>1. Receives(p, m) /\ decrypting' = decrypting /\ DecryptInChain(p, state[p], m)
    BY <1>9 DEF DecryptSameKey
  <2>2. PICK t \in RatchetState :
              /\ state' = [state EXCEPT ![p] = t]
              /\ t.rootKey = state[p].rootKey /\ t.sendChainKey = state[p].sendChainKey
              /\ ReceivingSafe(p, t, OpenedKeys(p)')
    BY <1>2, <1>6, <2>1, InChainSafe DEF Safe, PeerSafe
  <2>3. opened \subseteq opened' /\ opened' \subseteq opened \cup {m}
    BY <1>2, <1>6, <2>1, InChainSafe DEF Safe, PeerSafe
  <2>4. RootParity(p)'
    BY <1>2, <1>6, <2>1, <2>2 DEF RootParity
  <2>5. Len(t.rootKey) >= Len(state[p].rootKey)
    BY <1>7, <2>2
  <2> QED BY <1>5, <1>6, <2>1, <2>2, <2>3, <2>4, <2>5
<1>10. ASSUME NEW m \in net, DecryptNewKey(p, m) PROVE Safe'
  <2>1. Receives(p, m) /\ opened' = opened
    BY <1>10 DEF DecryptNewKey
  <2>2. OpenedKeys(p)' = OpenedKeys(p)
    BY <2>1 DEF OpenedKeys
  <2>3. m.dhPublicKey \in Nat /\ m.previousCount \in Nat
    BY <1>6, <2>1 DEF Message
  <2>4. \/ state' = state /\ decrypting' = decrypting
        \/ \E t \in {state[p], skipMessageKeys(state[p], m.previousCount)} :
             /\ state' = [state EXCEPT ![p] = NewPeerKey(t, m.dhPublicKey)]
             /\ decrypting' = [decrypting EXCEPT ![p] = [pc |-> "receiving", msg |-> m]]
    BY <1>10 DEF DecryptNewKey
  <2>5. CASE state' = state /\ decrypting' = decrypting
    <3>1. state' = [state EXCEPT ![p] = state[p]]
      BY <1>2, <2>5
    <3>2. ReceivingSafe(p, state[p], OpenedKeys(p)')
      BY <2>2 DEF Safe, PeerSafe
    <3>3. RootParity(p)'
      BY <1>6, <2>1, <2>5 DEF RootParity
    <3>4. Len(state[p].rootKey) >= Len(state[p].rootKey)
      BY <1>7
    <3>5. opened \subseteq opened' /\ opened' \subseteq opened \cup {m}
      BY <2>1
    <3> QED BY <1>2, <1>5, <1>6, <2>1, <2>5, <3>1, <3>2, <3>3, <3>4, <3>5
  <2>6. ASSUME NEW t \in {state[p], skipMessageKeys(state[p], m.previousCount)},
               state' = [state EXCEPT ![p] = NewPeerKey(t, m.dhPublicKey)],
               decrypting' = [decrypting EXCEPT ![p] = [pc |-> "receiving", msg |-> m]]
        PROVE  Safe'
    <3>1. /\ t \in RatchetState /\ t.rootKey = state[p].rootKey
          /\ t.sendChainKey = state[p].sendChainKey
          /\ ReceivingSafe(p, t, OpenedKeys(p))
      BY <1>2, <2>3, <2>6, SkipResult, SkipKeepsSafe DEF Safe, PeerSafe
    <3>2. PICK u : u = NewPeerKey(t, m.dhPublicKey)
      OBVIOUS
    <3>3. /\ u \in RatchetState /\ u.rootKey = state[p].rootKey
          /\ u.sendChainKey = state[p].sendChainKey
          /\ u.recvChainKey = t.recvChainKey /\ u.skippedKeys = t.skippedKeys
          /\ u.rootKey = t.rootKey
      BY <2>3, <3>1, <3>2, FieldTypes
    <3>4. ReceivingSafe(p, u, OpenedKeys(p)')
      BY <2>2, <3>1, <3>3 DEF ReceivingSafe, Passed, SlotKey
    <3>5. decrypting'[p].pc = "receiving" /\ \A q \in Peer : q # p => decrypting'[q] = decrypting[q]
      BY <1>2, <2>6
    <3>6. RootParity(p)'
      BY <1>2, <1>6, <2>1, <2>6, <3>2, <3>3, <3>5 DEF RootParity
    <3>7. Len(u.rootKey) >= Len(state[p].rootKey)
      BY <1>7, <3>3
    <3>8. opened \subseteq opened' /\ opened' \subseteq opened \cup {m}
      BY <2>1
    <3> QED BY <1>5, <1>6, <2>1, <2>6, <3>2, <3>3, <3>4, <3>5, <3>6, <3>7, <3>8
  <2> QED BY <2>4, <2>5, <2>6
<1>11. ASSUME decrypting[p] # Idle
       PROVE  /\ decrypting[p].msg \in sent /\ decrypting[p].msg.from = other(p)
              /\ \A c \in Caller : encrypting[p][c] = Idle
  BY <1>11 DEF Safe, TypeInv, MessageInHand, PeerSafe, OneCall
<1>12. CASE DecryptReceiving(p)
  <2>1. decrypting[p] # Idle /\ decrypting[p].pc = "receiving" /\ opened' = opened
    BY <1>12 DEF DecryptReceiving, Idle
  <2>2. OpenedKeys(p)' = OpenedKeys(p)
    BY <2>1 DEF OpenedKeys
  <2>3. Len(state[p].rootKey) % 2 = Parity(p)
    BY <2>1 DEF Safe, PeerSafe, RootParity
  <2>4. PICK t : t = NewReceivingChain(p, state[p])
    OBVIOUS
  <2>5. /\ t \in RatchetState /\ Len(t.rootKey) = Len(state[p].rootKey) + 1
        /\ t.sendChainKey = state[p].sendChainKey
    BY <1>2, <2>4, NewChainTypes
  <2>6. ReceivingSafe(p, t, OpenedKeys(p)')
    BY <1>2, <2>2, <2>3, <2>4, NewChainsKeepSafe DEF Safe, PeerSafe
  <2>7. state' = [state EXCEPT ![p] = t]
    BY <1>12, <2>4 DEF DecryptReceiving
  <2>8. decrypting'[p].pc = "sending" /\ \A q \in Peer : q # p => decrypting'[q] = decrypting[q]
    <3>1. decrypting[p] \in [pc : {"receiving", "sending"}, msg : Message]
      BY <1>2, <2>1 DEF DecryptType, Idle
    <3> QED BY <1>2, <1>12, <3>1 DEF DecryptReceiving
  <2>9. Len(t.rootKey) % 2 # Parity(p)
    <3>1. \A n \in Nat : (n + 1) % 2 # n % 2
      OBVIOUS
    <3> QED BY <1>7, <2>3, <2>5, <3>1
  <2>10. RootParity(p)'
    BY <1>2, <2>7, <2>8, <2>9 DEF RootParity
  <2>11. Len(t.rootKey) >= Len(state[p].rootKey)
    BY <1>7, <2>5
  <2> QED BY <1>5, <1>11, <2>1, <2>5, <2>6, <2>7, <2>8, <2>10, <2>11
<1>13. CASE DecryptSending(p)
  <2>1. decrypting[p] # Idle /\ decrypting[p].pc = "sending"
    BY <1>13 DEF DecryptSending, Idle
  <2>2. Len(state[p].rootKey) % 2 # Parity(p)
    BY <2>1 DEF Safe, PeerSafe, RootParity
  <2>3. PICK s : s = NewSendingChain(p, state[p])
    OBVIOUS
  <2>4. /\ s \in RatchetState /\ Len(s.rootKey) = Len(state[p].rootKey) + 1
        /\ s.sendChainKey = FirstKey(s.rootKey)
        /\ ReceivingSafe(p, s, OpenedKeys(p))
    BY <1>2, <2>3, NewChainTypes, NewChainsKeepSafe DEF Safe, PeerSafe
  <2>5. DecryptInChain(p, s, decrypting[p].msg)
    BY <1>13, <2>3 DEF DecryptSending
  <2>6. PICK t \in RatchetState :
              /\ state' = [state EXCEPT ![p] = t]
              /\ t.rootKey = s.rootKey /\ t.sendChainKey = s.sendChainKey
              /\ ReceivingSafe(p, t, OpenedKeys(p)')
    BY <1>11, <2>1, <2>4, <2>5, InChainSafe
  <2>7. opened \subseteq opened' /\ opened' \subseteq opened \cup {decrypting[p].msg}
    BY <1>11, <2>1, <2>4, <2>5, InChainSafe
  <2>8. decrypting'[p].pc # "sending" /\ \A q \in Peer : q # p => decrypting'[q] = decrypting[q]
    BY <1>2, <1>13 DEF DecryptSending, Idle
  <2>9. Len(t.rootKey) % 2 = Parity(p)
    <3>1. \A n \in Nat : n % 2 # Parity(p) => (n + 1) % 2 = Parity(p)
      BY DEF Parity
    <3> QED BY <1>7, <2>2, <2>4, <2>6, <3>1
  <2>10. RootParity(p)'
    BY <1>2, <2>6, <2>8, <2>9 DEF RootParity
  <2>11. t.sendChainKey.chain = t.rootKey
    BY <2>4, <2>6 DEF FirstKey
  <2>12. OwnChain(p, t.sendChainKey.chain)
    <3>1. Len(t.rootKey) # 0
      BY <1>7, <2>4, <2>6
    <3>2. t.rootKey # <<>>
      BY <3>1
    <3> QED BY <2>9, <2>11, <3>2 DEF OwnChain
  <2>13. /\ Len(t.rootKey) >= Len(state[p].rootKey)
         /\ Len(t.sendChainKey.chain) > Len(state[p].rootKey)
         /\ Len(t.sendChainKey.chain) <= Len(t.rootKey)
    BY <1>7, <2>4, <2>6, <2>11
  <2> QED BY <1>5, <1>11, <2>1, <2>6, <2>7, <2>8, <2>10, <2>12, <2>13
<1> QED BY <1>8, <1>9, <1>10, <1>12, <1>13 DEF DecryptStep

LEMMA SafeIsInvariant == ~ Overlap => (Spec => []Safe)
<1> SUFFICES ASSUME ~ Overlap PROVE Spec => []Safe
  OBVIOUS
<1>1. Init => Safe
  <2> SUFFICES ASSUME Init PROVE Safe
    OBVIOUS
  <2>1. TypeInv
    BY TypeInit
  <2>2. UniqueKeys
    BY DEF Init, UniqueKeys
  <2>3. ASSUME NEW p \in Peer PROVE PeerSafe(p)
    <3>1. /\ encrypting[p] = [c \in Caller |-> Idle] /\ decrypting[p] = Idle
          /\ sent = {} /\ opened = {} /\ state[p] = IF p = Alice THEN initAlice ELSE initBob
      BY <2>3 DEF Init
    <3>2. OneCall(p) /\ decrypting[p].pc # "sending"
      BY <3>1 DEF OneCall, Idle
    <3>3. /\ Len(SharedSecret) = 0 /\ SharedSecret = <<>>
          /\ Len(rootKDF(Alice, SharedSecret, 1, 1)) = 1 /\ NoKey.chain = <<>>
      <4>1. Len(SharedSecret) = 0 /\ SharedSecret = <<>> /\ SharedSecret \in Root
        BY EmptySeq, KeyTypes DEF SharedSecret
      <4>2. Len(rootKDF(Alice, SharedSecret, 1, 1)) = Len(SharedSecret) + 1
        <5>1. SharedSecret \in Root /\ Alice \in Peer /\ 1 \in Nat
          BY KeyTypes DEF Peer
        <5> QED BY ONLY <5>1, RootType
      <4> QED BY <4>1, <4>2 DEF NoKey
    <3>4. Len(state[p].rootKey) = Parity(p) /\ Len(state[p].rootKey) % 2 = Parity(p)
      <4>1. initAlice.rootKey = rootKDF(Alice, SharedSecret, 1, 1) /\ initBob.rootKey = SharedSecret
        BY DEF initAlice, initBob
      <4>2. Len(state[p].rootKey) = Parity(p)
        BY <3>1, <3>3, <4>1 DEF Parity
      <4>3. 0 % 2 = 0 /\ 1 % 2 = 1
        OBVIOUS
      <4> QED BY <4>2, <4>3 DEF Parity
    <3>5. RootParity(p)
      BY <3>2, <3>4 DEF RootParity
    <3>5a. \A c \in Caller : encrypting[p][c].pc = "idle"
      BY <3>1 DEF Idle
    <3>6. ASSUME p = Alice PROVE SendingSafe(p)
      <4>1. /\ state[p].sendChainKey.chain = state[p].rootKey
            /\ Len(state[p].rootKey) = 1
        BY <3>1, <3>3, <3>6 DEF initAlice, FirstKey
      <4>2. state[p].rootKey # <<>>
        BY <3>3, <4>1
      <4>3. Len(state[p].rootKey) % 2 = Parity(p)
        BY <3>4
      <4>4. OwnChain(p, state[p].sendChainKey.chain)
        BY <4>1, <4>2, <4>3, Zenon DEF OwnChain
      <4>5. Len(state[p].sendChainKey.chain) <= Len(state[p].rootKey)
        BY <4>1
      <4> QED BY <3>1, <3>5a, <4>4, <4>5 DEF SendingSafe
    <3>7. ASSUME p # Alice PROVE SendingSafe(p)
      <4>1. state[p].sendChainKey = NoKey
        BY <3>1, <3>7 DEF initBob
      <4> QED BY <3>1, <3>5a, <4>1 DEF SendingSafe
    <3>8. /\ OpenedKeys(p) = {} /\ state[p].recvChainKey.chain = <<>>
          /\ state[p].skippedKeys = <<>> /\ Len(<<>>) <= Len(state[p].rootKey)
      BY <3>1, <3>3, <3>4 DEF OpenedKeys, initAlice, initBob, Parity
    <3>9. ReceivingSafe(p, state[p], OpenedKeys(p))
      BY <3>8 DEF ReceivingSafe, PeerChain
    <3>10. SendingSafe(p)
      BY <3>6, <3>7
    <3> QED BY <3>2, <3>5, <3>9, <3>10 DEF PeerSafe
  <2> QED BY <2>1, <2>2, <2>3 DEF Safe
<1>2. Safe /\ [Next]_vars => Safe'
  <2> SUFFICES ASSUME Safe, [Next]_vars PROVE Safe'
    OBVIOUS
  <2>1. CASE Next
    BY <2>1, EncryptKeepsSafe, DecryptKeepsSafe DEF Next
  <2>2. CASE UNCHANGED vars
    <3>1. TypeInv' /\ UniqueKeys'
      BY <2>2 DEF vars, Safe, TypeInv, TypeOK, MessageInHand, UniqueKeys
    <3>2. \A p \in Peer : PeerSafe(p)'
      BY <2>2, OthersStaySafe DEF vars
    <3> QED BY <3>1, <3>2 DEF Safe
  <2> QED BY <2>1, <2>2
<1> QED BY <1>1, <1>2, PTL DEF Spec

\* No two messages are encrypted with the same key when encrypt is never called
\* again before it returned: each chain is advanced once a message, and a DH ratchet
\* step begins a chain that never was.
THEOREM KeysAreUnique == ~ Overlap => (Spec => []UniqueKeys)
<1> SUFFICES ASSUME ~ Overlap PROVE Spec => []UniqueKeys
  OBVIOUS
<1>1. Spec => []Safe
  BY SafeIsInvariant
<1>2. Safe => UniqueKeys
  BY DEF Safe
<1> QED BY <1>1, <1>2, PTL

\* Nothing a peer holds decrypts a message it has sent or decrypted, when the calls
\* of a peer wait for one another: skipMessageKeys stores a key once, and chains
\* only go forward.
THEOREM PastIsSecret == ~ Overlap => (Spec => []ForwardSecrecy)
<1> SUFFICES ASSUME ~ Overlap PROVE Spec => []ForwardSecrecy
  OBVIOUS
<1>1. Spec => []Safe
  BY SafeIsInvariant
<1>2. Safe => ForwardSecrecy
  <2> SUFFICES ASSUME Safe PROVE ForwardSecrecy
    OBVIOUS
  <2>1. \A m \in sent : m \in Message /\ m.from \in Peer /\ m.key.n \in Nat
    BY DEF Safe, TypeInv, TypeOK, Message, Key
  <2>2. \A p \in Peer : state[p].sendChainKey.n \in Nat /\ state[p].recvChainKey.n \in Nat
    BY DEF Safe, TypeInv, TypeOK, RatchetState, Key
  <2>3. \A m \in sent : Used(m.from, m.key)
    BY <2>1 DEF Safe, PeerSafe, SendingSafe
  <2>4. ASSUME NEW m \in sent PROVE ~ Reveals(state[m.from], m.key)
    <3>1. /\ OwnChain(m.from, m.key.chain) /\ m.key.chain # <<>>
          /\ ~ PeerChain(m.from, m.key.chain)
      BY <2>1, <2>3, ChainsDiffer DEF Used, OwnChain
    <3>2. ReceivingSafe(m.from, state[m.from], OpenedKeys(m.from))
      BY <2>1 DEF Safe, PeerSafe
    <3>3. \A i \in DOMAIN state[m.from].skippedKeys : state[m.from].skippedKeys[i].key # m.key
      BY <3>1, <3>2 DEF ReceivingSafe, SlotKey
    <3>4. state[m.from].recvChainKey.chain # m.key.chain
      BY <3>1, <3>2 DEF ReceivingSafe
    <3>5. ~ (/\ state[m.from].sendChainKey.chain = m.key.chain
             /\ state[m.from].sendChainKey.n <= m.key.n)
      BY <2>1, <2>2, <2>3 DEF Used
    <3> QED BY <3>3, <3>4, <3>5 DEF Reveals
  <2>5. ASSUME NEW m \in opened PROVE ~ Reveals(state[other(m.from)], m.key)
    <3>1. m \in sent
      BY DEF Safe, TypeInv, TypeOK
    <3>2. PICK p \in Peer : p = other(m.from) /\ other(p) = m.from
      BY <2>1, <3>1, PeerFacts
    <3>3. m.key \in OpenedKeys(p)
      BY <3>2 DEF OpenedKeys
    <3>4. OwnChain(other(p), m.key.chain) /\ ~ OwnChain(p, m.key.chain) /\ m.key.chain # <<>>
      BY <2>1, <2>3, <3>1, <3>2, ChainsDiffer DEF Used, OwnChain
    <3>5. ReceivingSafe(p, state[p], OpenedKeys(p))
      BY DEF Safe, PeerSafe
    <3>6. \A i \in DOMAIN state[p].skippedKeys : state[p].skippedKeys[i].key # m.key
      BY <3>3, <3>5 DEF ReceivingSafe, SlotKey
    <3>7. ~ (/\ state[p].recvChainKey.chain = m.key.chain
             /\ state[p].recvChainKey.n <= m.key.n)
      BY <2>1, <2>2, <3>1, <3>3, <3>5 DEF ReceivingSafe, Passed
    <3>8. state[p].sendChainKey.chain # m.key.chain
      BY <3>4 DEF Safe, PeerSafe, SendingSafe, NoKey, SharedSecret
    <3> QED BY <3>2, <3>6, <3>7, <3>8 DEF Reveals
  <2> QED BY <2>4, <2>5 DEF ForwardSecrecy
<1> QED BY <1>1, <1>2, PTL

-----------------------------------------------------------------------------
(* Late messages.  The peers take turns: the root keys of a session are    *)
(* the beginnings of one list, in which a DH output of Alice's n-th key    *)
(* pair with Bob's n-th precedes one with Bob's next; the chain of a       *)
(* message is told by its sender and DH key, and its key by the header.    *)

Lead(p) == IF p = Alice THEN 0 ELSE 1

\* The DH output mixed in i-th.
DHOutput(i) ==
    IF i % 2 = 1 THEN <<(i + 1) \div 2, (i + 1) \div 2>>
                 ELSE <<i \div 2, (i \div 2) + 1>>

RootOf(len) == [i \in 1..len |-> DHOutput(i)]

\* How long the root of the chain is that p sends in with its d-th key pair.
ChainLen(p, d) == 2 * d - 1 - Lead(p)

ChainKey(p, d, n) == [chain |-> RootOf(ChainLen(p, d)), n |-> n]

\* The key pair with which p sends, or will after the DH ratchet step it is in.
Turn(p) == state[p].peerDHPublicKey + Lead(p)

\* What p has numbered up to n in its d-th chain, and nothing else there.
Has(p, d, n) ==
    \A i \in 0..(n - 1) : \E m \in SentBy(p) : m.dhPublicKey = d /\ m.messageNumber = i

Below(p, d, n) == \A m \in SentBy(p) : m.dhPublicKey = d => m.messageNumber < n

\* The same with messages sent before m.
HadBefore(m, d, n) ==
    \A i \in 0..(n - 1) :
        \E x \in SentBy(m.from) : x.dhPublicKey = d /\ x.messageNumber = i /\ x.no < m.no

MessageRight(m) ==
    /\ m.key = ChainKey(m.from, m.dhPublicKey, m.messageNumber)
    /\ HadBefore(m, m.dhPublicKey, m.messageNumber)
    /\ HadBefore(m, m.dhPublicKey - 1, m.previousCount)
    /\ Below(m.from, m.dhPublicKey - 1, m.previousCount)

\* The root key of p and the key pairs it has and knows; the other has not been told
\* of a pair p does not have.
PairsRight(p) ==
    LET pc == decrypting[p].pc IN
    /\ state[p].dhKeyPair = Turn(p) - (IF pc = "receiving" THEN 1 ELSE 0)
    /\ state[p].dhKeyPair >= 1
    /\ state[p].rootKey = RootOf(ChainLen(p, Turn(p)) - (IF pc = "receiving" THEN 2
                                                         ELSE IF pc = "sending" THEN 1 ELSE 0))
    /\ state[other(p)].peerDHPublicKey <= state[p].dhKeyPair

SendingRight(p) ==
    /\ Has(p, Turn(p), state[p].sendCount) /\ Below(p, Turn(p), state[p].sendCount)
    /\ Has(p, Turn(p) - 1, state[p].previousSendCount)
    /\ Below(p, Turn(p) - 1, state[p].previousSendCount)
    /\ \A m \in SentBy(p) : m.dhPublicKey <= state[p].dhKeyPair /\ m.no < Cardinality(SentBy(p))
    /\ decrypting[p] = Idle /\ (\A c \in Caller : encrypting[p][c].pc # "exporting") =>
         state[p].sendChainKey = ChainKey(p, Turn(p), state[p].sendCount)
    /\ \A c \in Caller : encrypting[p][c].pc = "exporting" =>
         /\ state[p].sendChainKey = ChainKey(p, Turn(p), state[p].sendCount + 1)
         /\ encrypting[p][c].key = ChainKey(p, Turn(p), state[p].sendCount)
         /\ encrypting[p][c].dh = state[p].dhKeyPair

\* Number n of chain d: s has left the chain, or its receiving chain key is past it.
Before(s, d, n) ==
    \/ d < s.peerDHPublicKey
    \/ d = s.peerDHPublicKey /\ n < s.recvCount

Behind(s, m) == Before(s, m.dhPublicKey, m.messageNumber)

SlotsRight(p, s) ==
    \A i \in DOMAIN s.skippedKeys :
        LET e == s.skippedKeys[i] IN e.key = ChainKey(other(p), e.dh, e.n) /\ Before(s, e.dh, e.n)

\* The messages behind s are those in O and those with a key in the Map.
ReceivingRight(p, s, O) ==
    /\ SlotsRight(p, s)
    /\ Has(other(p), s.peerDHPublicKey, s.recvCount)
    /\ \A m \in SentBy(other(p)) : m \notin O /\ Behind(s, m) => Slots(s, m) # {}
    /\ \A m \in SentBy(other(p)) : m \in O => Behind(s, m)

RecvKeyRight(p, s) == s.recvChainKey = ChainKey(other(p), s.peerDHPublicKey, s.recvCount)

RatchetRight(p) ==
    /\ decrypting[p].pc # "receiving" => RecvKeyRight(p, state[p])
    /\ decrypting[p] # Idle =>
         /\ state[p].recvCount = 0 /\ state[p].sendCount = 0
         /\ decrypting[p].msg.dhPublicKey = state[p].peerDHPublicKey

Right(p) ==
    /\ PairsRight(p) /\ SendingRight(p) /\ RatchetRight(p)
    /\ ReceivingRight(p, state[p], opened)

Aligned == (\A m \in sent : MessageRight(m)) /\ \A p \in Peer : Right(p)

LateInv == Safe /\ (overrun \/ Aligned)

LEMMA Leads ==
  ASSUME NEW p \in Peer
  PROVE  Lead(p) \in {0, 1} /\ Lead(p) + Lead(other(p)) = 1
BY ConstantsAssumption DEF Peer, other, Lead

LEMMA EmptyRoot == \A len \in Int : len <= 0 => RootOf(len) = <<>>
<1> SUFFICES ASSUME NEW len \in Int, len <= 0 PROVE RootOf(len) = <<>>
  OBVIOUS
<1>1. 1..len = {}
  OBVIOUS
<1>2. RootOf(len) = [i \in {} |-> DHOutput(i)]
  BY <1>1 DEF RootOf
<1>3. 1..0 = {} /\ RootOf(0) = [i \in {} |-> DHOutput(i)]
  BY DEF RootOf
<1>4. RootOf(0) \in [1..0 -> Nat \X Nat]
  BY <1>3
<1>5. RootOf(0) \in Seq(Nat \X Nat) /\ Len(RootOf(0)) = 0
  BY ONLY <1>4, FunctionIsSeq
<1>6. RootOf(0) = <<>>
  BY <1>5, EmptySeq
<1> QED BY <1>2, <1>3, <1>6

LEMMA RootGrows ==
  ASSUME NEW len \in Nat
  PROVE  RootOf(len) \in Root /\ Append(RootOf(len), DHOutput(len + 1)) = RootOf(len + 1)
<1>1. \A i \in Nat : DHOutput(i) \in Nat \X Nat
  <2>1. \A i \in Nat : (i + 1) \div 2 \in Nat /\ i \div 2 \in Nat /\ (i \div 2) + 1 \in Nat
    OBVIOUS
  <2> QED BY <2>1 DEF DHOutput
<1>2. ASSUME NEW n \in Nat
      PROVE  RootOf(n) \in Seq(Nat \X Nat) /\ Len(RootOf(n)) = n
  <2>1. RootOf(n) \in [1..n -> Nat \X Nat]
    BY <1>1 DEF RootOf
  <2> QED BY ONLY <2>1, n \in Nat, FunctionIsSeq
<1>3. PICK s : s = RootOf(len)
  OBVIOUS
<1>4. PICK e : e = DHOutput(len + 1)
  OBVIOUS
<1>5. s \in Seq(Nat \X Nat) /\ Len(s) = len /\ e \in Nat \X Nat
  BY <1>1, <1>2, <1>3, <1>4
<1>6. /\ Append(s, e) \in Seq(Nat \X Nat) /\ Len(Append(s, e)) = len + 1
      /\ \A i \in 1..len : Append(s, e)[i] = s[i]
      /\ Append(s, e)[len + 1] = e
  BY <1>5, AppendProperties
<1>7. RootOf(len + 1) \in Seq(Nat \X Nat) /\ Len(RootOf(len + 1)) = len + 1
  BY <1>2
<1>8. \A i \in 1..(len + 1) : Append(s, e)[i] = RootOf(len + 1)[i]
  <2> SUFFICES ASSUME NEW i \in 1..(len + 1) PROVE Append(s, e)[i] = RootOf(len + 1)[i]
    OBVIOUS
  <2>1. i \in 1..len \/ i = len + 1
    OBVIOUS
  <2>2. RootOf(len + 1)[i] = DHOutput(i)
    BY DEF RootOf
  <2>3. i \in 1..len => s[i] = DHOutput(i)
    BY <1>3 DEF RootOf
  <2> QED BY <1>4, <1>6, <2>1, <2>2, <2>3
<1>9. Append(s, e) = RootOf(len + 1)
  BY <1>6, <1>7, <1>8, SeqEqual
<1> QED BY <1>2, <1>3, <1>4, <1>9 DEF Root

\* The two halves of p's DH ratchet step to key pair d.
LEMMA RatchetRoots ==
  ASSUME NEW p \in Peer, NEW d \in Nat, d >= 1
  PROVE  /\ d >= 2 => rootKDF(p, RootOf(ChainLen(p, d) - 2), d - 1, d - Lead(p))
                        = RootOf(ChainLen(p, d) - 1)
         /\ ChainLen(p, d) >= 1 =>
              rootKDF(p, RootOf(ChainLen(p, d) - 1), d, d - Lead(p)) = RootOf(ChainLen(p, d))
<1>1. ASSUME NEW j \in Nat, j >= 1
      PROVE  /\ DHOutput(2 * j) = <<j, j + 1>>
             /\ DHOutput(2 * j - 1) = <<j, j>>
  <2>1. (2 * j) % 2 = 0 /\ (2 * j) \div 2 = j /\ (2 * j - 1) % 2 = 1 /\ (2 * j - 1) + 1 = 2 * j
    BY <1>1
  <2> QED BY <2>1 DEF DHOutput
<1>2. ASSUME d >= 2
      PROVE  rootKDF(p, RootOf(ChainLen(p, d) - 2), d - 1, d - Lead(p)) = RootOf(ChainLen(p, d) - 1)
  <2>1. CASE p = Alice
    <3>1. /\ ChainLen(p, d) - 2 = 2 * d - 3 /\ ChainLen(p, d) - 1 = (2 * d - 3) + 1
          /\ 2 * d - 3 \in Nat /\ d - Lead(p) = d
          /\ (2 * d - 3) + 1 = 2 * (d - 1) /\ d - 1 \in Nat /\ d - 1 >= 1 /\ (d - 1) + 1 = d
      BY <1>2, <2>1 DEF ChainLen, Lead
    <3>2. DHOutput((2 * d - 3) + 1) = <<d - 1, d>>
      BY <1>1, <3>1
    <3> QED BY <2>1, <3>1, <3>2, RootGrows DEF rootKDF
  <2>2. CASE p # Alice
    <3>1. /\ ChainLen(p, d) - 2 = 2 * d - 4 /\ ChainLen(p, d) - 1 = (2 * d - 4) + 1
          /\ 2 * d - 4 \in Nat /\ d - Lead(p) = d - 1
          /\ (2 * d - 4) + 1 = 2 * (d - 1) - 1 /\ d - 1 \in Nat /\ d - 1 >= 1
      BY <1>2, <2>2 DEF ChainLen, Lead
    <3>2. DHOutput((2 * d - 4) + 1) = <<d - 1, d - 1>>
      BY <1>1, <3>1
    <3> QED BY <2>2, <3>1, <3>2, RootGrows DEF rootKDF
  <2> QED BY <2>1, <2>2
<1>3. ASSUME ChainLen(p, d) >= 1
      PROVE  rootKDF(p, RootOf(ChainLen(p, d) - 1), d, d - Lead(p)) = RootOf(ChainLen(p, d))
  <2>1. CASE p = Alice
    <3>1. /\ ChainLen(p, d) - 1 = 2 * d - 2 /\ ChainLen(p, d) = (2 * d - 2) + 1
          /\ 2 * d - 2 \in Nat /\ d - Lead(p) = d /\ (2 * d - 2) + 1 = 2 * d - 1
      BY <2>1 DEF ChainLen, Lead
    <3>2. DHOutput((2 * d - 2) + 1) = <<d, d>>
      BY <1>1, <3>1
    <3> QED BY <2>1, <3>1, <3>2, RootGrows DEF rootKDF
  <2>2. CASE p # Alice
    <3>1. /\ ChainLen(p, d) - 1 = 2 * d - 3 /\ ChainLen(p, d) = (2 * d - 3) + 1
          /\ 2 * d - 3 \in Nat /\ d - Lead(p) = d - 1
          /\ (2 * d - 3) + 1 = 2 * (d - 1) /\ d - 1 \in Nat /\ d - 1 >= 1 /\ (d - 1) + 1 = d
      BY <1>3, <2>2 DEF ChainLen, Lead
    <3>2. DHOutput((2 * d - 3) + 1) = <<d - 1, d>>
      BY <1>1, <3>1
    <3> QED BY <2>2, <3>1, <3>2, RootGrows DEF rootKDF
  <2> QED BY <2>1, <2>2
<1> QED BY <1>2, <1>3

-----------------------------------------------------------------------------
(* The Map of skipped keys, by header.                                     *)

SameExceptReceiving(s, t) ==
    /\ t.dhKeyPair = s.dhKeyPair /\ t.peerDHPublicKey = s.peerDHPublicKey
    /\ t.rootKey = s.rootKey /\ t.sendChainKey = s.sendChainKey
    /\ t.sendCount = s.sendCount /\ t.previousSendCount = s.previousSendCount

\* The entry that skipping number n makes.
SlotFor(s, n) ==
    [dh |-> s.peerDHPublicKey, n |-> n,
     key |-> [chain |-> s.recvChainKey.chain, n |-> s.recvChainKey.n + (n - s.recvCount)]]

\* A skip that throws nothing away keeps the entries there were and makes one for
\* each number passed over.
LEMMA SkipEntries ==
  ASSUME NEW s \in RatchetState, NEW until \in Nat, until > s.recvCount, ~ Prunes(s, until)
  PROVE  LET t == skipMessageKeys(s, until) IN
         /\ SameExceptReceiving(s, t)
         /\ t.recvCount = until
         /\ t.recvChainKey = [chain |-> s.recvChainKey.chain,
                              n |-> s.recvChainKey.n + (until - s.recvCount)]
         /\ \A i \in DOMAIN s.skippedKeys :
              \E j \in DOMAIN t.skippedKeys : t.skippedKeys[j] = s.skippedKeys[i]
         /\ \A n \in s.recvCount..(until - 1) :
              \E j \in DOMAIN t.skippedKeys : t.skippedKeys[j] = SlotFor(s, n)
         /\ \A j \in DOMAIN t.skippedKeys :
              \/ \E i \in DOMAIN s.skippedKeys : t.skippedKeys[j] = s.skippedKeys[i]
              \/ \E n \in s.recvCount..(until - 1) : t.skippedKeys[j] = SlotFor(s, n)
<1>1. PICK t : t = skipMessageKeys(s, until)
  OBVIOUS
<1>2. /\ s.skippedKeys \in Seq(Slot) /\ s.recvCount \in Nat
      /\ s.recvChainKey \in [chain : Root, n : Nat]
  BY DEF RatchetState, Slot, Key
<1>3. t = [s EXCEPT !.recvChainKey.n = @ + (until - s.recvCount), !.recvCount = until,
                    !.skippedKeys = Stored(s, until)]
  BY <1>1, <1>2 DEF skipMessageKeys
<1>4. /\ SameExceptReceiving(s, t) /\ t.recvCount = until /\ t.skippedKeys = Stored(s, until)
      /\ t.recvChainKey = [chain |-> s.recvChainKey.chain,
                           n |-> s.recvChainKey.n + (until - s.recvCount)]
  BY <1>2, <1>3 DEF SameExceptReceiving, RatchetState
<1>5. PICK a, b : a = s.skippedKeys /\ b = Skipped(s, until)
  OBVIOUS
<1>6. a \in Seq(Slot) /\ b \in Seq(Slot) /\ Len(b) = until - s.recvCount
  BY <1>2, <1>5, SkippedType DEF Slot
<1>7. ASSUME NEW i \in 1..(until - s.recvCount)
      PROVE  b[i] = SlotFor(s, s.recvCount + i - 1)
  <2>1. s.recvChainKey.n + i - 1 = s.recvChainKey.n + ((s.recvCount + i - 1) - s.recvCount)
    BY <1>2
  <2>2. b[i] = [dh |-> s.peerDHPublicKey, n |-> s.recvCount + i - 1,
                key |-> [s.recvChainKey EXCEPT !.n = @ + i - 1]]
    BY <1>5 DEF Skipped
  <2>3. [s.recvChainKey EXCEPT !.n = @ + i - 1]
          = [chain |-> s.recvChainKey.chain, n |-> s.recvChainKey.n + i - 1]
    BY <1>2
  <2> QED BY <2>1, <2>2, <2>3 DEF SlotFor
<1>8. /\ Len(a) \in Nat /\ DOMAIN a = 1..Len(a) /\ Len(b) \in Nat
      /\ DOMAIN (a \o b) = 1..(Len(a) + Len(b))
      /\ \A i \in 1..(Len(a) + Len(b)) : (a \o b)[i] = IF i <= Len(a) THEN a[i] ELSE b[i - Len(a)]
  BY <1>6, Joined
<1>9. t.skippedKeys = a \o b
  BY <1>4, <1>5 DEF Stored
<1>10. \A i \in DOMAIN a : \E j \in DOMAIN (a \o b) : (a \o b)[j] = a[i]
  BY <1>8
<1>11. ASSUME NEW n \in s.recvCount..(until - 1)
       PROVE  \E j \in DOMAIN (a \o b) : (a \o b)[j] = SlotFor(s, n)
  <2>1. PICK i \in 1..(until - s.recvCount) : s.recvCount + i - 1 = n
    <3>1. n - s.recvCount + 1 \in 1..(until - s.recvCount) /\ s.recvCount + (n - s.recvCount + 1) - 1 = n
      BY <1>2
    <3> QED BY <3>1
  <2>2. Len(a) + i \in 1..(Len(a) + Len(b)) /\ ~ (Len(a) + i <= Len(a)) /\ (Len(a) + i) - Len(a) = i
    BY <1>6, <1>8
  <2>3. (a \o b)[Len(a) + i] = b[i]
    BY <1>8, <2>2
  <2> QED BY <1>7, <1>8, <2>1, <2>2, <2>3
<1>12. ASSUME NEW j \in DOMAIN (a \o b)
       PROVE  \/ \E i \in DOMAIN a : (a \o b)[j] = a[i]
              \/ \E n \in s.recvCount..(until - 1) : (a \o b)[j] = SlotFor(s, n)
  <2>1. CASE j <= Len(a)
    <3>1. j \in DOMAIN a
      BY <1>8, <2>1
    <3> QED BY <1>8, <2>1, <3>1
  <2>2. CASE ~ (j <= Len(a))
    <3>1. j - Len(a) \in 1..(until - s.recvCount) /\ (a \o b)[j] = b[j - Len(a)]
      BY <1>6, <1>8, <2>2
    <3>2. s.recvCount + (j - Len(a)) - 1 \in s.recvCount..(until - 1)
      BY <1>2, <3>1
    <3> QED BY <1>7, <3>1, <3>2
  <2> QED BY <2>1, <2>2
<1>13. /\ \A i \in DOMAIN s.skippedKeys :
             \E j \in DOMAIN t.skippedKeys : t.skippedKeys[j] = s.skippedKeys[i]
       /\ \A n \in s.recvCount..(until - 1) :
             \E j \in DOMAIN t.skippedKeys : t.skippedKeys[j] = SlotFor(s, n)
       /\ \A j \in DOMAIN t.skippedKeys :
             \/ \E i \in DOMAIN s.skippedKeys : t.skippedKeys[j] = s.skippedKeys[i]
             \/ \E n \in s.recvCount..(until - 1) : t.skippedKeys[j] = SlotFor(s, n)
  <2>1. PICK w : w = a \o b
    OBVIOUS
  <2>2. t.skippedKeys = w /\ s.skippedKeys = a
    BY <1>5, <1>9, <2>1
  <2>3. /\ \A x \in DOMAIN a : \E j \in DOMAIN w : w[j] = a[x]
        /\ \A n \in s.recvCount..(until - 1) : \E j \in DOMAIN w : w[j] = SlotFor(s, n)
        /\ \A j \in DOMAIN w :
             \/ \E x \in DOMAIN a : w[j] = a[x]
             \/ \E n \in s.recvCount..(until - 1) : w[j] = SlotFor(s, n)
    BY <1>10, <1>11, <1>12, <2>1
  <2> QED BY ONLY <2>2, <2>3
<1> QED BY <1>1, <1>4, <1>13, Zenon

\* Taking entry i out of a Map leaves the others.
LEMMA WithoutKeeps ==
  ASSUME NEW q \in Seq(Slot), NEW i \in DOMAIN q
  PROVE  /\ \A x \in DOMAIN q : x # i =>
              \E y \in DOMAIN Without(q, i) : Without(q, i)[y] = q[x]
         /\ \A y \in DOMAIN Without(q, i) : \E x \in DOMAIN q : Without(q, i)[y] = q[x]
<1>1. /\ Len(q) \in Nat /\ DOMAIN q = 1..Len(q) /\ \A x \in 1..Len(q) : q[x] \in Slot
      /\ i \in Nat /\ i >= 1 /\ i <= Len(q)
  BY LenProperties, ElementOfSeq
<1>2. PICK a, b : a = SubSeq(q, 1, i - 1) /\ b = SubSeq(q, i + 1, Len(q))
  OBVIOUS
<1>3. /\ a \in Seq(Slot) /\ Len(a) = i - 1
      /\ \A x \in 1..(i - 1) : a[x] = q[x]
  <2>1. /\ SubSeq(q, 1, i - 1) \in Seq(Slot)
        /\ Len(SubSeq(q, 1, i - 1)) = IF 1 <= i - 1 THEN (i - 1) - 1 + 1 ELSE 0
        /\ \A x \in 1..((i - 1) - 1 + 1) : SubSeq(q, 1, i - 1)[x] = q[1 + x - 1]
    BY <1>1, SubSeqProperties
  <2> QED BY <1>1, <1>2, <2>1
<1>4. /\ b \in Seq(Slot) /\ Len(b) = Len(q) - i
      /\ \A x \in 1..(Len(q) - i) : b[x] = q[i + x]
  BY <1>1, <1>2, SubSeqParts
<1>5. /\ DOMAIN (a \o b) = 1..(Len(a) + Len(b))
      /\ \A x \in 1..(Len(a) + Len(b)) : (a \o b)[x] = IF x <= Len(a) THEN a[x] ELSE b[x - Len(a)]
  BY <1>3, <1>4, Joined
<1>6. Without(q, i) = a \o b
  BY <1>2 DEF Without
<1>7. ASSUME NEW x \in DOMAIN q, x # i
      PROVE  \E y \in DOMAIN (a \o b) : (a \o b)[y] = q[x]
  <2>1. CASE x < i
    <3>1. x \in 1..(i - 1) /\ x \in 1..(Len(a) + Len(b)) /\ x <= Len(a)
      BY <1>1, <1>3, <1>4, <2>1
    <3>2. (a \o b)[x] = a[x]
      BY <1>5, <3>1
    <3> QED BY <1>3, <1>5, <3>1, <3>2
  <2>2. CASE x > i
    <3>0. x \in Nat /\ i \in Nat /\ Len(q) \in Nat /\ x <= Len(q)
      BY <1>1
    <3>1. /\ x - 1 \in 1..(Len(a) + Len(b)) /\ ~ (x - 1 <= Len(a))
          /\ (x - 1) - Len(a) = x - i /\ x - i \in 1..(Len(q) - i) /\ i + (x - i) = x
      <4>1. Len(a) = i - 1 /\ Len(b) = Len(q) - i
        BY <1>3, <1>4
      <4>2. /\ x - 1 \in 1..((i - 1) + (Len(q) - i)) /\ ~ (x - 1 <= i - 1)
            /\ (x - 1) - (i - 1) = x - i /\ x - i \in 1..(Len(q) - i) /\ i + (x - i) = x
        <5>1. \A k \in Nat : \A y, h \in Nat : y > h /\ y <= k /\ h >= 1 =>
                /\ y - 1 \in 1..((h - 1) + (k - h)) /\ ~ (y - 1 <= h - 1)
                /\ (y - 1) - (h - 1) = y - h /\ y - h \in 1..(k - h) /\ h + (y - h) = y
          OBVIOUS
        <5> QED BY <1>1, <2>2, <3>0, <5>1
      <4> QED BY <4>1, <4>2
    <3>2. (a \o b)[x - 1] = b[x - i]
      BY <1>5, <3>1
    <3> QED BY <1>4, <1>5, <3>1, <3>2
  <2> QED BY <1>1, <1>7, <2>1, <2>2
<1>8. \A y \in DOMAIN Without(q, i) : \E x \in DOMAIN q : Without(q, i)[y] = q[x]
  BY WithoutParts
<1> QED BY <1>6, <1>7, <1>8

-----------------------------------------------------------------------------
(* Receiving, by header.                                                   *)

LEMMA MessageTypes ==
  ASSUME TypeInv, NEW m \in sent
  PROVE  /\ m.from \in Peer /\ m.dhPublicKey \in Nat /\ m.previousCount \in Nat
         /\ m.messageNumber \in Nat /\ m.key \in Key /\ m.no \in Nat
BY DEF TypeInv, TypeOK, Message

LEMMA StateTypes ==
  ASSUME NEW s \in RatchetState
  PROVE  /\ s.dhKeyPair \in Nat /\ s.peerDHPublicKey \in Nat /\ s.rootKey \in Root
         /\ s.sendChainKey \in Key /\ s.recvChainKey \in Key
         /\ s.sendCount \in Nat /\ s.recvCount \in Nat /\ s.previousSendCount \in Nat
         /\ s.skippedKeys \in Seq(Slot)
         /\ \A i \in DOMAIN s.skippedKeys : s.skippedKeys[i] \in Slot
<1>1. s.skippedKeys \in Seq(Slot)
  BY DEF RatchetState, Slot
<1> QED BY <1>1, LenProperties, ElementOfSeq DEF RatchetState

\* A header names one message.
LEMMA SameMessage ==
  ASSUME UniqueKeys, \A m \in sent : MessageRight(m),
         NEW m \in sent, NEW x \in sent, x.from = m.from,
         x.dhPublicKey = m.dhPublicKey, x.messageNumber = m.messageNumber
  PROVE  x = m
BY DEF UniqueKeys, MessageRight

LEMMA SlotFound ==
  ASSUME NEW s, NEW m, NEW i \in DOMAIN s.skippedKeys,
         s.skippedKeys[i].dh = m.dhPublicKey, s.skippedKeys[i].n = m.messageNumber
  PROVE  Slots(s, m) # {}
BY DEF Slots

LEMMA SkipRight ==
  ASSUME TypeInv, NEW p \in Peer, NEW s \in RatchetState, NEW O, NEW until \in Nat,
         ~ Prunes(s, until), RecvKeyRight(p, s), ReceivingRight(p, s, O),
         Has(other(p), s.peerDHPublicKey, until),
         NEW t, t = skipMessageKeys(s, until)
  PROVE  /\ t \in RatchetState /\ SameExceptReceiving(s, t)
         /\ t.recvCount = IF until <= s.recvCount THEN s.recvCount ELSE until
         /\ RecvKeyRight(p, t) /\ ReceivingRight(p, t, O)
<1>1. t \in RatchetState
  BY SkipResult
<1>2. /\ s.recvCount \in Nat /\ s.peerDHPublicKey \in Nat
  BY StateTypes
<1>3. CASE until <= s.recvCount
  BY <1>1, <1>3 DEF skipMessageKeys, SameExceptReceiving
<1>4. CASE until > s.recvCount
  <2>1. /\ SameExceptReceiving(s, t)
        /\ t.recvCount = until
        /\ t.recvChainKey = [chain |-> s.recvChainKey.chain,
                             n |-> s.recvChainKey.n + (until - s.recvCount)]
        /\ \A i \in DOMAIN s.skippedKeys :
             \E j \in DOMAIN t.skippedKeys : t.skippedKeys[j] = s.skippedKeys[i]
        /\ \A n \in s.recvCount..(until - 1) :
             \E j \in DOMAIN t.skippedKeys : t.skippedKeys[j] = SlotFor(s, n)
        /\ \A j \in DOMAIN t.skippedKeys :
             \/ \E i \in DOMAIN s.skippedKeys : t.skippedKeys[j] = s.skippedKeys[i]
             \/ \E n \in s.recvCount..(until - 1) : t.skippedKeys[j] = SlotFor(s, n)
    BY <1>4, SkipEntries
  <2>2. t.peerDHPublicKey = s.peerDHPublicKey
    BY <2>1 DEF SameExceptReceiving
  <2>3. /\ s.recvChainKey.chain = RootOf(ChainLen(other(p), s.peerDHPublicKey))
        /\ s.recvChainKey.n = s.recvCount
    BY DEF RecvKeyRight, ChainKey
  <2>4. RecvKeyRight(p, t)
    <3>1. s.recvCount + (until - s.recvCount) = until
      BY <1>2
    <3> QED BY <2>1, <2>2, <2>3, <3>1 DEF RecvKeyRight, ChainKey
  <2>5. \A d, n : Before(s, d, n) /\ n \in Nat => Before(t, d, n)
    BY <1>2, <1>4, <2>1, <2>2 DEF Before
  <2>6. ASSUME NEW n \in s.recvCount..(until - 1)
        PROVE  /\ SlotFor(s, n).dh = s.peerDHPublicKey /\ SlotFor(s, n).n = n
               /\ SlotFor(s, n).key = ChainKey(other(p), s.peerDHPublicKey, n)
               /\ Before(t, s.peerDHPublicKey, n)
    <3>1. s.recvCount + (n - s.recvCount) = n /\ n < until
      BY <1>2
    <3> QED BY <2>1, <2>2, <2>3, <3>1 DEF SlotFor, ChainKey, Before
  <2>7. SlotsRight(p, t)
    <3> SUFFICES ASSUME NEW j \in DOMAIN t.skippedKeys, NEW e, e = t.skippedKeys[j]
                 PROVE  e.key = ChainKey(other(p), e.dh, e.n) /\ Before(t, e.dh, e.n)
      BY DEF SlotsRight
    <3>1. ASSUME NEW i \in DOMAIN s.skippedKeys, e = s.skippedKeys[i]
          PROVE  e.key = ChainKey(other(p), e.dh, e.n) /\ Before(t, e.dh, e.n)
      <4>1. e \in Slot
        BY <3>1, StateTypes
      <4>2. e.n \in Nat
        BY <4>1 DEF Slot
      <4>3. e.key = ChainKey(other(p), e.dh, e.n) /\ Before(s, e.dh, e.n)
        BY <3>1 DEF ReceivingRight, SlotsRight
      <4> QED BY <2>5, <4>2, <4>3
    <3>2. ASSUME NEW n \in s.recvCount..(until - 1), e = SlotFor(s, n)
          PROVE  e.key = ChainKey(other(p), e.dh, e.n) /\ Before(t, e.dh, e.n)
      BY <2>6, <3>2
    <3> QED BY <2>1, <3>1, <3>2
  <2>8. \A m \in SentBy(other(p)) : m \in O => Behind(t, m)
    <3>1. \A m \in SentBy(other(p)) : m.messageNumber \in Nat
      BY MessageTypes DEF SentBy
    <3> QED BY <2>5, <3>1 DEF ReceivingRight, Behind
  <2>9. ASSUME NEW m \in SentBy(other(p)), m \notin O, Behind(t, m)
        PROVE  Slots(t, m) # {}
    <3>1. CASE Behind(s, m)
      <4>1. PICK i \in Slots(s, m) : TRUE
        BY <2>9, <3>1 DEF ReceivingRight
      <4>2. /\ i \in DOMAIN s.skippedKeys /\ s.skippedKeys[i].dh = m.dhPublicKey
            /\ s.skippedKeys[i].n = m.messageNumber
        BY <4>1 DEF Slots
      <4>3. PICK j \in DOMAIN t.skippedKeys : t.skippedKeys[j] = s.skippedKeys[i]
        BY <2>1, <4>2
      <4> QED BY <4>2, <4>3, SlotFound
    <3>2. CASE ~ Behind(s, m)
      <4>1. m.messageNumber \in Nat /\ m.dhPublicKey \in Nat
        BY MessageTypes DEF SentBy
      <4>2. m.dhPublicKey = s.peerDHPublicKey /\ m.messageNumber \in s.recvCount..(until - 1)
        BY <1>2, <2>1, <2>2, <2>9, <3>2, <4>1 DEF Behind, Before
      <4>3. PICK j \in DOMAIN t.skippedKeys : t.skippedKeys[j] = SlotFor(s, m.messageNumber)
        BY <2>1, <4>2
      <4> QED BY <2>6, <4>2, <4>3, SlotFound
    <3> QED BY <3>1, <3>2
  <2>10. Has(other(p), t.peerDHPublicKey, t.recvCount)
    BY <2>1, <2>2
  <2>11. ReceivingRight(p, t, O)
    BY <2>7, <2>8, <2>9, <2>10 DEF ReceivingRight
  <2> QED BY <1>1, <1>2, <1>4, <2>1, <2>4, <2>11
<1> QED BY <1>2, <1>3, <1>4

LEMMA AdvanceRight ==
  ASSUME TypeInv, UniqueKeys, \A x \in sent : MessageRight(x),
         NEW p \in Peer, NEW s \in RatchetState, NEW O,
         NEW m \in sent, m.from = other(p),
         m.dhPublicKey = s.peerDHPublicKey, m.messageNumber = s.recvCount,
         RecvKeyRight(p, s), ReceivingRight(p, s, O),
         NEW t, t = AdvanceReceiving(s)
  PROVE  /\ m.key = s.recvChainKey
         /\ t \in RatchetState /\ SameExceptReceiving(s, t)
         /\ RecvKeyRight(p, t) /\ ReceivingRight(p, t, O \cup {m})
<1>1. t \in RatchetState
  BY FieldTypes
<1>2. s.recvCount \in Nat /\ s.peerDHPublicKey \in Nat
  BY StateTypes
<1>3. m.key = s.recvChainKey
  BY DEF MessageRight, RecvKeyRight
<1>4. /\ SameExceptReceiving(s, t) /\ t.recvCount = s.recvCount + 1
      /\ t.skippedKeys = s.skippedKeys /\ t.recvChainKey = nextChainKey(s.recvChainKey)
  BY DEF AdvanceReceiving, SameExceptReceiving, RatchetState
<1>5. t.peerDHPublicKey = s.peerDHPublicKey
  BY <1>4 DEF SameExceptReceiving
<1>6. RecvKeyRight(p, t)
  BY <1>4, <1>5 DEF RecvKeyRight, ChainKey, nextChainKey
<1>7. \A d, n : Before(s, d, n) /\ n \in Nat => Before(t, d, n)
  BY <1>2, <1>4, <1>5 DEF Before
<1>8. SlotsRight(p, t)
  <2>1. \A i \in DOMAIN s.skippedKeys : s.skippedKeys[i].n \in Nat
    BY StateTypes DEF Slot
  <2> QED BY <1>4, <1>7, <2>1 DEF ReceivingRight, SlotsRight
<1>9. Has(other(p), t.peerDHPublicKey, t.recvCount)
  <2> SUFFICES ASSUME NEW i \in 0..(t.recvCount - 1)
               PROVE  \E x \in SentBy(other(p)) : x.dhPublicKey = t.peerDHPublicKey /\ x.messageNumber = i
    BY DEF Has
  <2>1. i \in 0..(s.recvCount - 1) \/ i = s.recvCount
    BY <1>2, <1>4
  <2>2. m \in SentBy(other(p))
    BY DEF SentBy
  <2> QED BY <1>5, <2>1, <2>2 DEF ReceivingRight, Has
<1>10. \A x \in SentBy(other(p)) : x.messageNumber \in Nat /\ x.dhPublicKey \in Nat /\ x \in sent /\ x.from = other(p)
  BY MessageTypes DEF SentBy
<1>11. \A x \in SentBy(other(p)) : x \in O \cup {m} => Behind(t, x)
  <2>1. Behind(t, m)
    BY <1>2, <1>4, <1>5 DEF Behind, Before
  <2> QED BY <1>7, <1>10, <2>1 DEF ReceivingRight, Behind
<1>12. ASSUME NEW x \in SentBy(other(p)), x \notin O \cup {m}, Behind(t, x)
       PROVE  Slots(t, x) # {}
  <2>1. ~ (x.dhPublicKey = m.dhPublicKey /\ x.messageNumber = m.messageNumber)
    BY <1>10, <1>12, SameMessage
  <2>2. Behind(s, x)
    BY <1>2, <1>4, <1>5, <1>10, <1>12, <2>1 DEF Behind, Before
  <2> QED BY <1>4, <1>12, <2>2 DEF ReceivingRight, Slots
<1> QED BY <1>1, <1>3, <1>4, <1>6, <1>8, <1>9, <1>11, <1>12 DEF ReceivingRight

\* Decrypting in the chain that m names opens m, and what is passed over gets a slot.
LEMMA InChainRight ==
  ASSUME TypeInv, UniqueKeys, \A x \in sent : MessageRight(x),
         NEW p \in Peer, NEW s \in RatchetState, NEW m \in sent, m.from = other(p),
         m.dhPublicKey = s.peerDHPublicKey, Slots(s, m) = {},
         RecvKeyRight(p, s), ReceivingRight(p, s, opened),
         DecryptInChain(p, s, m), ~ overrun'
  PROVE  /\ \E t \in RatchetState :
              /\ state' = [state EXCEPT ![p] = t]
              /\ SameExceptReceiving(s, t)
              /\ RecvKeyRight(p, t) /\ ReceivingRight(p, t, opened')
         /\ opened' = opened \cup {m}
<1>1. PICK t : t = skipMessageKeys(s, m.messageNumber)
  OBVIOUS
<1>2. /\ state' = [state EXCEPT ![p] = AdvanceReceiving(t)]
      /\ opened' = Opened(m, t.recvChainKey)
      /\ m \notin opened /\ ~ Prunes(s, m.messageNumber)
  <2>1. ~ SkipsTooMany(s, m.messageNumber)
    BY DEF DecryptInChain
  <2> QED BY <1>1, <2>1 DEF DecryptInChain, Twice
<1>3. m.messageNumber \in Nat /\ s.recvCount \in Nat /\ s.peerDHPublicKey \in Nat
  BY MessageTypes, StateTypes
<1>4. m.messageNumber >= s.recvCount
  <2>1. m \in SentBy(other(p))
    BY DEF SentBy
  <2>2. ~ Behind(s, m)
    BY <1>2, <2>1 DEF ReceivingRight
  <2> QED BY <1>3, <2>2 DEF Behind, Before
<1>5. Has(other(p), s.peerDHPublicKey, m.messageNumber)
  <2>1. HadBefore(m, m.dhPublicKey, m.messageNumber)
    BY DEF MessageRight
  <2> QED BY <2>1 DEF HadBefore, Has
<1>6. /\ t \in RatchetState /\ SameExceptReceiving(s, t)
      /\ t.recvCount = IF m.messageNumber <= s.recvCount THEN s.recvCount ELSE m.messageNumber
      /\ RecvKeyRight(p, t) /\ ReceivingRight(p, t, opened)
  BY <1>1, <1>2, <1>3, <1>5, SkipRight
<1>7. t.recvCount = m.messageNumber /\ t.peerDHPublicKey = m.dhPublicKey
  BY <1>3, <1>4, <1>6 DEF SameExceptReceiving
<1>8. PICK u : u = AdvanceReceiving(t)
  OBVIOUS
<1>9. /\ m.key = t.recvChainKey
      /\ u \in RatchetState /\ SameExceptReceiving(t, u)
      /\ RecvKeyRight(p, u) /\ ReceivingRight(p, u, opened \cup {m})
  BY <1>6, <1>7, <1>8, AdvanceRight
<1>10. opened' = opened \cup {m}
  BY <1>2, <1>9 DEF Opened
<1>11. SameExceptReceiving(s, u)
  BY <1>6, <1>9 DEF SameExceptReceiving
<1> QED BY <1>2, <1>8, <1>9, <1>10, <1>11

\* Decrypting with a skipped key opens the message it was kept for.
LEMMA WithoutRight ==
  ASSUME TypeInv, UniqueKeys, \A x \in sent : MessageRight(x),
         NEW p \in Peer, NEW s \in RatchetState, NEW O,
         NEW m \in sent, m.from = other(p), NEW i \in Slots(s, m),
         ReceivingRight(p, s, O),
         NEW t, t = [s EXCEPT !.skippedKeys = Without(@, i)]
  PROVE  /\ s.skippedKeys[i].key = m.key
         /\ t \in RatchetState /\ SameExceptReceiving(s, t)
         /\ t.recvCount = s.recvCount /\ t.recvChainKey = s.recvChainKey
         /\ ReceivingRight(p, t, O \cup {m})
<1>1. /\ i \in DOMAIN s.skippedKeys /\ s.skippedKeys \in Seq(Slot)
      /\ s.skippedKeys[i].dh = m.dhPublicKey /\ s.skippedKeys[i].n = m.messageNumber
  BY StateTypes DEF Slots
<1>2. s.skippedKeys[i].key = m.key /\ Behind(s, m)
  BY <1>1 DEF ReceivingRight, SlotsRight, MessageRight, Behind
<1>3. t \in RatchetState
  BY <1>1, WithoutParts, FieldTypes
<1>4. /\ SameExceptReceiving(s, t) /\ t.recvCount = s.recvCount /\ t.recvChainKey = s.recvChainKey
      /\ t.skippedKeys = Without(s.skippedKeys, i) /\ t.peerDHPublicKey = s.peerDHPublicKey
  BY DEF SameExceptReceiving, RatchetState
<1>5. /\ \A x \in DOMAIN s.skippedKeys : x # i =>
            \E y \in DOMAIN t.skippedKeys : t.skippedKeys[y] = s.skippedKeys[x]
      /\ \A y \in DOMAIN t.skippedKeys :
            \E x \in DOMAIN s.skippedKeys : t.skippedKeys[y] = s.skippedKeys[x]
  <2>1. PICK q : q = s.skippedKeys
    OBVIOUS
  <2>2. q \in Seq(Slot) /\ i \in DOMAIN q /\ t.skippedKeys = Without(q, i)
    BY <1>1, <1>4, <2>1
  <2>3. /\ \A x \in DOMAIN q : x # i =>
            \E y \in DOMAIN Without(q, i) : Without(q, i)[y] = q[x]
        /\ \A y \in DOMAIN Without(q, i) : \E x \in DOMAIN q : Without(q, i)[y] = q[x]
    BY ONLY <2>2, WithoutKeeps
  <2> QED BY ONLY <2>1, <2>2, <2>3
<1>6. \A d, n : Before(t, d, n) <=> Before(s, d, n)
  BY <1>4 DEF Before
<1>7. SlotsRight(p, t)
  BY <1>5, <1>6 DEF ReceivingRight, SlotsRight
<1>8. \A x \in SentBy(other(p)) : x \in O \cup {m} => Behind(t, x)
  BY <1>2, <1>6 DEF ReceivingRight, Behind
<1>9. ASSUME NEW x \in SentBy(other(p)), x \notin O \cup {m}, Behind(t, x)
      PROVE  Slots(t, x) # {}
  <2>1. x \in sent /\ x.from = m.from
    BY DEF SentBy
  <2>2. ~ (x.dhPublicKey = m.dhPublicKey /\ x.messageNumber = m.messageNumber)
    BY <1>9, <2>1, SameMessage
  <2>3. PICK j \in Slots(s, x) : TRUE
    BY <1>6, <1>9 DEF ReceivingRight, Behind
  <2>4. /\ j \in DOMAIN s.skippedKeys /\ s.skippedKeys[j].dh = x.dhPublicKey
        /\ s.skippedKeys[j].n = x.messageNumber
    BY <2>3 DEF Slots
  <2>5. j # i
    BY <1>1, <2>2, <2>4
  <2>6. PICK y \in DOMAIN t.skippedKeys : t.skippedKeys[y] = s.skippedKeys[j]
    BY <1>5, <2>4, <2>5
  <2> QED BY <2>4, <2>6, SlotFound
<1> QED BY <1>2, <1>3, <1>4, <1>7, <1>8, <1>9 DEF ReceivingRight

-----------------------------------------------------------------------------
(* Every step keeps the peers aligned.                                     *)

LEMMA HasMore ==
  ASSUME sent \subseteq sent', NEW q, NEW d, NEW n, Has(q, d, n)
  PROVE  Has(q, d, n)'
BY DEF Has, SentBy

\* A peer is not disturbed by a step that leaves its calls, its messages and what it
\* opened alone, and by which the other learns of no key pair it does not have.
LEMMA StaysRight ==
  ASSUME NEW q \in Peer, Right(q),
         state'[q] = state[q], encrypting'[q] = encrypting[q], decrypting'[q] = decrypting[q],
         sent' = sent, \A m \in sent : m.from = other(q) => (m \in opened' <=> m \in opened),
         state'[other(q)].peerDHPublicKey <= state[q].dhKeyPair
  PROVE  Right(q)'
<1>1. SentBy(q)' = SentBy(q) /\ SentBy(other(q))' = SentBy(other(q)) /\ Turn(q)' = Turn(q)
  BY DEF SentBy, Turn
<1>2. PairsRight(q)'
  BY <1>1 DEF Right, PairsRight
<1>3. SendingRight(q)'
  BY <1>1 DEF Right, SendingRight, Has, Below
<1>4. RatchetRight(q)'
  BY DEF Right, RatchetRight, RecvKeyRight
<1>5. \A m \in SentBy(other(q)) : m \in opened' <=> m \in opened
  BY DEF SentBy
<1>6. ReceivingRight(q, state[q], opened)'
  BY <1>1, <1>5 DEF Right, ReceivingRight, SlotsRight, Has
<1> QED BY <1>2, <1>3, <1>4, <1>6 DEF Right

\* Messages stay as they are while none is sent.
LEMMA MessagesStayRight ==
  ASSUME sent' = sent, \A m \in sent : MessageRight(m)
  PROVE  (\A m \in sent : MessageRight(m))'
<1>1. \A q : SentBy(q)' = SentBy(q)
  BY DEF SentBy
<1> QED BY <1>1 DEF MessageRight, HadBefore, Below

\* The message that encrypt returns is the next of its chain.
LEMMA FinishKeepsRight ==
  ASSUME Safe, Aligned, NEW p \in Peer, NEW c \in Caller, EncryptFinish(p, c),
         decrypting[p] = Idle, \A d \in Caller : d # c => encrypting[p][d] = Idle
  PROVE  Aligned'
<1>1. /\ state \in [Peer -> RatchetState] /\ state[p] \in RatchetState
      /\ encrypting \in [Peer -> [Caller -> EncryptType]] /\ TypeInv /\ UniqueKeys
      /\ IsFiniteSet(sent) /\ opened \subseteq sent
  BY DEF Safe, TypeInv, TypeOK
<1>2. PICK m : /\ m = [from |-> p, dhPublicKey |-> encrypting[p][c].dh,
                       previousCount |-> state[p].previousSendCount,
                       messageNumber |-> state[p].sendCount,
                       key |-> encrypting[p][c].key, no |-> Cardinality(SentBy(p))]
               /\ sent' = sent \cup {m}
  BY DEF EncryptFinish
<1>3. PICK turn, k, prev : turn = Turn(p) /\ k = state[p].sendCount /\ prev = state[p].previousSendCount
  OBVIOUS
<1>4. Right(p) /\ Right(other(p)) /\ \A x \in sent : MessageRight(x)
  BY PeerFacts DEF Aligned
<1>5. /\ encrypting[p][c].pc = "exporting" /\ decrypting[p].pc = "idle"
      /\ encrypting[p][c].dh = state[p].dhKeyPair /\ state[p].dhKeyPair = turn
      /\ encrypting[p][c].key = ChainKey(p, turn, k)
      /\ state[p].sendChainKey = ChainKey(p, turn, k + 1)
  <2>1. encrypting[p][c].pc = "exporting" /\ decrypting[p].pc = "idle"
    BY DEF EncryptFinish, Idle
  <2>2. Turn(p) \in Int
    BY <1>1, StateTypes, Leads DEF Turn
  <2>3. state[p].dhKeyPair = turn
    BY <1>3, <1>4, <2>1, <2>2 DEF Right, PairsRight
  <2> QED BY <1>3, <1>4, <2>1, <2>3 DEF Right, SendingRight
<1>6. /\ turn \in Nat /\ k \in Nat /\ prev \in Nat
  BY <1>1, <1>3, <1>5, StateTypes
<1>7. /\ m.from = p /\ m.dhPublicKey = turn /\ m.messageNumber = k /\ m.previousCount = prev
      /\ m.key = ChainKey(p, turn, k) /\ m.no = Cardinality(SentBy(p))
  BY <1>2, <1>3, <1>5
<1>8. /\ state'[p] = [state[p] EXCEPT !.sendCount = @ + 1]
      /\ \A q \in Peer : q # p => state'[q] = state[q]
      /\ decrypting' = decrypting /\ opened' = opened
      /\ encrypting'[p] = [encrypting[p] EXCEPT ![c] = Idle]
      /\ \A q \in Peer : q # p => encrypting'[q] = encrypting[q]
  BY <1>1 DEF EncryptFinish
<1>9. /\ state'[p].sendCount = k + 1 /\ state'[p].previousSendCount = prev
      /\ state'[p].dhKeyPair = turn /\ state'[p].peerDHPublicKey = state[p].peerDHPublicKey
      /\ state'[p].rootKey = state[p].rootKey /\ state'[p].sendChainKey = state[p].sendChainKey
      /\ state'[p].recvChainKey = state[p].recvChainKey /\ state'[p].recvCount = state[p].recvCount
      /\ state'[p].skippedKeys = state[p].skippedKeys
  BY <1>1, <1>3, <1>5, <1>8 DEF RatchetState
<1>10. Turn(p)' = turn
  BY <1>3, <1>9 DEF Turn
<1>11. m \notin sent
  BY <1>2, <1>5 DEF Safe, PeerSafe, SendingSafe
<1>12. /\ SentBy(p)' = SentBy(p) \cup {m} /\ SentBy(other(p))' = SentBy(other(p))
       /\ sent \subseteq sent' /\ m \in sent'
  BY <1>2, <1>7, PeerFacts DEF SentBy
<1>13. /\ Cardinality(SentBy(p)) \in Nat
       /\ Cardinality(SentBy(p))' = Cardinality(SentBy(p)) + 1
  <2>1. IsFiniteSet(SentBy(p)) /\ m \notin SentBy(p)
    <3>1. SentBy(p) \subseteq sent
      BY DEF SentBy
    <3> QED BY <1>1, <1>11, <3>1, FS_Subset
  <2> QED BY <1>12, <2>1, FS_AddElement, FS_CardinalityType
<1>14. \A x \in SentBy(p) : /\ x \in sent /\ x.from = p /\ x.dhPublicKey \in Nat /\ x.messageNumber \in Nat
                            /\ x.no \in Nat /\ x.dhPublicKey <= turn /\ x.no < Cardinality(SentBy(p))
  <2>1. \A x \in SentBy(p) : x.dhPublicKey <= turn /\ x.no < Cardinality(SentBy(p))
    BY <1>4, <1>5 DEF Right, SendingRight
  <2> QED BY <1>1, <2>1, MessageTypes DEF SentBy
<1>15. /\ Has(p, turn, k) /\ Below(p, turn, k) /\ Has(p, turn - 1, prev) /\ Below(p, turn - 1, prev)
  BY <1>3, <1>4 DEF Right, SendingRight
<1>16. /\ Has(p, turn, k + 1)' /\ Below(p, turn, k + 1)'
       /\ Has(p, turn - 1, prev)' /\ Below(p, turn - 1, prev)'
  <2>1. Has(p, turn, k + 1)'
    <3> SUFFICES ASSUME NEW i \in 0..((k + 1) - 1)
                 PROVE  \E x \in SentBy(p)' : x.dhPublicKey = turn /\ x.messageNumber = i
      BY DEF Has
    <3>1. i \in 0..(k - 1) \/ i = k
      BY <1>6
    <3> QED BY <1>7, <1>12, <1>15, <3>1 DEF Has
  <2>2. Below(p, turn, k + 1)'
    BY <1>6, <1>7, <1>12, <1>14, <1>15 DEF Below
  <2>3. Has(p, turn - 1, prev)'
    BY <1>12, <1>15, HasMore
  <2>4. Below(p, turn - 1, prev)'
    <3>1. turn # turn - 1
      BY <1>6
    <3> QED BY <1>7, <1>12, <1>15, <3>1 DEF Below
  <2> QED BY <2>1, <2>2, <2>3, <2>4
<1>17. SendingRight(p)'
  <2>1. \A x \in SentBy(p)' : x.dhPublicKey <= turn /\ x.no < Cardinality(SentBy(p))'
    BY <1>6, <1>7, <1>12, <1>13, <1>14
  <2>2. \A d \in Caller : encrypting'[p][d].pc # "exporting"
    BY <1>1, <1>8 DEF Idle
  <2> QED BY <1>5, <1>9, <1>10, <1>16, <2>1, <2>2 DEF SendingRight
<1>18. PairsRight(p)'
  <2>1. state'[other(p)] = state[other(p)]
    BY <1>8, PeerFacts
  <2> QED BY <1>3, <1>4, <1>5, <1>8, <1>9, <1>10, <2>1 DEF Right, PairsRight
<1>19. RatchetRight(p)'
  BY <1>4, <1>8, <1>9 DEF Right, RatchetRight, RecvKeyRight, Idle
<1>20. ReceivingRight(p, state[p], opened)'
  BY <1>4, <1>8, <1>9, <1>12 DEF Right, ReceivingRight, SlotsRight, Has, Behind, Before, Slots
<1>21. ASSUME NEW x \in sent' PROVE MessageRight(x)'
  <2>1. CASE x = m
    <3>1. HadBefore(m, turn, k)' /\ HadBefore(m, turn - 1, prev)'
      BY <1>7, <1>12, <1>14, <1>15 DEF HadBefore, Has
    <3> QED BY <1>7, <1>16, <2>1, <3>1 DEF MessageRight
  <2>2. CASE x # m
    <3>1. x \in sent /\ MessageRight(x) /\ x.dhPublicKey \in Nat
      BY <1>1, <1>2, <1>4, <2>2, MessageTypes
    <3>2. /\ HadBefore(x, x.dhPublicKey, x.messageNumber)'
          /\ HadBefore(x, x.dhPublicKey - 1, x.previousCount)'
      BY <1>2, <3>1 DEF MessageRight, HadBefore, SentBy
    <3>3. Below(x.from, x.dhPublicKey - 1, x.previousCount)'
      <4> SUFFICES ASSUME NEW y \in SentBy(x.from)', y.dhPublicKey = x.dhPublicKey - 1
                   PROVE  y.messageNumber < x.previousCount
        BY DEF Below
      <4>1. CASE y \in sent
        BY <3>1, <4>1 DEF MessageRight, Below, SentBy
      <4>2. CASE y = m
        <5>1. x \in SentBy(p)
          BY <1>7, <3>1, <4>2 DEF SentBy
        <5> QED BY <1>6, <1>7, <1>14, <4>2, <5>1
      <4> QED BY <1>2, <4>1, <4>2 DEF SentBy
    <3> QED BY <3>1, <3>2, <3>3 DEF MessageRight
  <2> QED BY <2>1, <2>2
<1>22. ASSUME NEW q \in Peer, q # p PROVE Right(q)'
  <2>1. q = other(p) /\ other(q) = p
    BY <1>22, PeerFacts
  <2>2. /\ state'[q] = state[q] /\ encrypting'[q] = encrypting[q] /\ decrypting'[q] = decrypting[q]
        /\ Turn(q)' = Turn(q) /\ state[q] \in RatchetState
    BY <1>1, <1>8, <1>22 DEF Turn
  <2>3. PairsRight(q)'
    BY <1>4, <1>9, <2>1, <2>2 DEF Right, PairsRight
  <2>4. SendingRight(q)'
    BY <1>4, <1>12, <2>1, <2>2 DEF Right, SendingRight, Has, Below
  <2>5. RatchetRight(q)'
    BY <1>4, <2>1, <2>2 DEF Right, RatchetRight, RecvKeyRight
  <2>6. m \notin opened /\ ~ Behind(state[q], m)
    <3>1. state[q].peerDHPublicKey <= turn
      BY <1>4, <1>5, <2>1 DEF Right, PairsRight
    <3>2. Has(p, state[q].peerDHPublicKey, state[q].recvCount)
      BY <1>4, <2>1 DEF Right, ReceivingRight
    <3>3. state[q].peerDHPublicKey \in Nat /\ state[q].recvCount \in Nat
      BY <2>2, StateTypes
    <3>4. ASSUME state[q].peerDHPublicKey = turn, k < state[q].recvCount PROVE FALSE
      <4>1. k \in 0..(state[q].recvCount - 1)
        BY <1>6, <3>3, <3>4
      <4>2. PICK x \in SentBy(p) : x.dhPublicKey = turn /\ x.messageNumber = k
        BY <3>2, <3>4, <4>1 DEF Has
      <4> QED BY <1>6, <1>15, <4>2 DEF Below
    <3> QED BY <1>1, <1>6, <1>7, <1>11, <3>1, <3>3, <3>4 DEF Behind, Before
  <2>7. Has(p, state[q].peerDHPublicKey, state[q].recvCount)'
    BY <1>4, <1>12, <2>1, <2>2 DEF Right, ReceivingRight, Has
  <2>8. ReceivingRight(q, state[q], opened)'
    BY <1>4, <1>8, <1>12, <2>1, <2>2, <2>6, <2>7
    DEF Right, ReceivingRight, SlotsRight, Behind, Before, Slots
  <2> QED BY <2>3, <2>4, <2>5, <2>8 DEF Right
<1> QED BY <1>17, <1>18, <1>19, <1>20, <1>21, <1>22 DEF Aligned, Right

LEMMA EncryptKeepsRight ==
  ASSUME Safe, Aligned, ~ Overlap, NEW p \in Peer, EncryptStep(p)
  PROVE  Aligned'
<1>1. /\ state \in [Peer -> RatchetState] /\ state[p] \in RatchetState
      /\ encrypting \in [Peer -> [Caller -> EncryptType]] /\ TypeInv
  BY DEF Safe, TypeInv, TypeOK
<1>2. PICK c \in Caller : Encrypt(p, c) \/ EncryptAdvance(p, c) \/ EncryptFinish(p, c)
  BY DEF EncryptStep
<1>3. \A d \in Caller : d # c => encrypting[p][d] = Idle
  <2>1. CASE Encrypt(p, c)
    BY <2>1 DEF Encrypt, MayStart, Encrypts
  <2>2. CASE encrypting[p][c] # Idle
    BY <2>2 DEF Safe, PeerSafe, OneCall
  <2>3. EncryptAdvance(p, c) \/ EncryptFinish(p, c) => encrypting[p][c] # Idle
    BY DEF EncryptAdvance, EncryptFinish, Idle
  <2> QED BY <1>2, <2>1, <2>2, <2>3
<1>4. decrypting[p] = Idle
  <2>1. CASE Encrypt(p, c)
    BY <2>1 DEF Encrypt, MayStart
  <2>2. CASE EncryptAdvance(p, c) \/ EncryptFinish(p, c)
    <3>1. encrypting[p][c] # Idle
      BY <2>2 DEF EncryptAdvance, EncryptFinish, Idle
    <3> QED BY <2>2, <3>1 DEF Safe, PeerSafe, OneCall
  <2> QED BY <1>2, <2>1, <2>2
<1>5. Right(p) /\ \A x \in sent : MessageRight(x)
  BY DEF Aligned
<1>6. ASSUME sent' = sent, opened' = opened, decrypting' = decrypting,
             \A q \in Peer : q # p => state'[q] = state[q] /\ encrypting'[q] = encrypting[q],
             SameExceptReceiving([state[p] EXCEPT !.sendChainKey = state'[p].sendChainKey], state'[p]),
             state'[p].recvChainKey = state[p].recvChainKey, state'[p].recvCount = state[p].recvCount,
             state'[p].skippedKeys = state[p].skippedKeys,
             (\A d \in Caller : encrypting'[p][d].pc # "exporting") =>
                state'[p].sendChainKey = ChainKey(p, Turn(p), state[p].sendCount),
             \A d \in Caller : encrypting'[p][d].pc = "exporting" =>
               /\ state'[p].sendChainKey = ChainKey(p, Turn(p), state[p].sendCount + 1)
               /\ encrypting'[p][d].key = ChainKey(p, Turn(p), state[p].sendCount)
               /\ encrypting'[p][d].dh = state[p].dhKeyPair
      PROVE  Aligned'
  <2>1. /\ state'[p].peerDHPublicKey = state[p].peerDHPublicKey
        /\ state'[p].dhKeyPair = state[p].dhKeyPair /\ state'[p].rootKey = state[p].rootKey
        /\ state'[p].sendCount = state[p].sendCount
        /\ state'[p].previousSendCount = state[p].previousSendCount
    BY <1>1, <1>6 DEF SameExceptReceiving, RatchetState
  <2>2. Turn(p)' = Turn(p) /\ \A q : SentBy(q)' = SentBy(q)
    BY <1>6, <2>1 DEF Turn, SentBy
  <2>3. PairsRight(p)'
    <3>1. state'[other(p)] = state[other(p)]
      BY <1>6, PeerFacts
    <3> QED BY <1>5, <1>6, <2>1, <2>2, <3>1 DEF Right, PairsRight
  <2>4. SendingRight(p)'
    <3>1. /\ Has(p, Turn(p), state[p].sendCount)' /\ Below(p, Turn(p), state[p].sendCount)'
          /\ Has(p, Turn(p) - 1, state[p].previousSendCount)'
          /\ Below(p, Turn(p) - 1, state[p].previousSendCount)'
      BY <1>5, <2>1, <2>2 DEF Right, SendingRight, Has, Below
    <3>2. (\A m \in SentBy(p) : m.dhPublicKey <= state[p].dhKeyPair /\ m.no < Cardinality(SentBy(p)))'
      BY <1>5, <2>1, <2>2 DEF Right, SendingRight
    <3> QED BY <1>6, <2>1, <2>2, <3>1, <3>2 DEF SendingRight
  <2>5. RatchetRight(p)'
    BY <1>4, <1>5, <1>6, <2>1 DEF Right, RatchetRight, RecvKeyRight
  <2>6. ReceivingRight(p, state[p], opened)'
    BY <1>5, <1>6, <2>1, <2>2 DEF Right, ReceivingRight, SlotsRight, Has, Behind, Before, Slots
  <2>7. ASSUME NEW q \in Peer, q # p PROVE Right(q)'
    <3>1. Right(q) /\ other(q) = p
      BY <2>7, PeerFacts DEF Aligned
    <3>2. state[p].peerDHPublicKey <= state[q].dhKeyPair
      BY <3>1 DEF Right, PairsRight
    <3> QED BY <1>6, <2>1, <2>7, <3>1, <3>2, StaysRight
  <2>8. (\A m \in sent : MessageRight(m))'
    BY <1>5, <1>6, MessagesStayRight
  <2> QED BY <2>3, <2>4, <2>5, <2>6, <2>7, <2>8 DEF Aligned, Right
<1>7. ASSUME \A d \in Caller : encrypting[p][d].pc # "exporting"
      PROVE  state[p].sendChainKey = ChainKey(p, Turn(p), state[p].sendCount)
  BY <1>4, <1>5, <1>7 DEF Right, SendingRight
<1>8. CASE Encrypt(p, c)
  <2>1. \A d \in Caller : encrypting[p][d].pc # "exporting" /\ encrypting'[p][d].pc # "exporting"
    BY <1>1, <1>3, <1>8 DEF Encrypt, Idle
  <2>2. SameExceptReceiving([state[p] EXCEPT !.sendChainKey = state'[p].sendChainKey], state'[p])
    BY <1>1, <1>8 DEF Encrypt, SameExceptReceiving, RatchetState
  <2>3. /\ sent' = sent /\ opened' = opened /\ decrypting' = decrypting /\ state' = state
        /\ \A q \in Peer : q # p => encrypting'[q] = encrypting[q]
    BY <1>1, <1>8 DEF Encrypt
  <2> QED BY <1>6, <1>7, <2>1, <2>2, <2>3
<1>9. CASE EncryptAdvance(p, c)
  <2>1. encrypting[p][c].pc = "deriving"
    BY <1>9 DEF EncryptAdvance
  <2>2. \A d \in Caller : encrypting[p][d].pc # "exporting"
    BY <1>3, <2>1 DEF Idle
  <2>3. encrypting[p][c].key = ChainKey(p, Turn(p), state[p].sendCount)
    BY <1>7, <2>1, <2>2 DEF Safe, PeerSafe, SendingSafe
  <2>4. state' = [state EXCEPT ![p] = [state[p] EXCEPT !.sendChainKey = nextChainKey(encrypting[p][c].key)]]
    BY <1>9 DEF EncryptAdvance
  <2>5. state'[p] = [state[p] EXCEPT !.sendChainKey = ChainKey(p, Turn(p), state[p].sendCount + 1)]
    BY <1>1, <2>3, <2>4 DEF ChainKey, nextChainKey
  <2>6. /\ SameExceptReceiving([state[p] EXCEPT !.sendChainKey = state'[p].sendChainKey], state'[p])
        /\ state'[p].recvChainKey = state[p].recvChainKey /\ state'[p].recvCount = state[p].recvCount
        /\ state'[p].skippedKeys = state[p].skippedKeys
        /\ state'[p].sendChainKey = ChainKey(p, Turn(p), state[p].sendCount + 1)
    BY <1>1, <2>5 DEF SameExceptReceiving, RatchetState
  <2>7. encrypting'[p] = [encrypting[p] EXCEPT ![c] =
                            [pc |-> "exporting", key |-> encrypting[p][c].key, dh |-> state[p].dhKeyPair]]
    BY <1>1, <1>9 DEF EncryptAdvance
  <2>8. /\ encrypting'[p][c].pc = "exporting" /\ encrypting'[p][c].key = encrypting[p][c].key
        /\ encrypting'[p][c].dh = state[p].dhKeyPair
        /\ \A d \in Caller : d # c => encrypting'[p][d].pc # "exporting"
    BY <1>1, <2>2, <2>7
  <2>9. /\ sent' = sent /\ opened' = opened /\ decrypting' = decrypting
        /\ \A q \in Peer : q # p => state'[q] = state[q] /\ encrypting'[q] = encrypting[q]
    BY <1>1, <1>9 DEF EncryptAdvance
  <2> QED BY <1>6, <2>3, <2>6, <2>8, <2>9
<1>10. CASE EncryptFinish(p, c)
  BY <1>3, <1>4, <1>10, FinishKeepsRight
<1> QED BY <1>2, <1>8, <1>9, <1>10

\* A decryption of p that leaves p right leaves everything right.
LEMMA DecryptFrame ==
  ASSUME Safe, Aligned, NEW p \in Peer, NEW t, state' = [state EXCEPT ![p] = t],
         encrypting' = encrypting, sent' = sent,
         \A q \in Peer : q # p => decrypting'[q] = decrypting[q],
         NEW m, m.from = other(p), opened' = opened \/ opened' = opened \cup {m},
         t.peerDHPublicKey <= state[other(p)].dhKeyPair,
         Right(p)'
  PROVE  Aligned'
<1>1. state \in [Peer -> RatchetState]
  BY DEF Safe, TypeInv, TypeOK
<1>2. ASSUME NEW q \in Peer, q # p PROVE Right(q)'
  <2>1. q = other(p) /\ other(q) = p /\ Right(q)
    BY <1>2, PeerFacts DEF Aligned
  <2>2. state'[p] = t /\ state'[q] = state[q]
    BY <1>1, <1>2
  <2>3. \A x \in sent : x.from = other(q) => (x \in opened' <=> x \in opened)
    BY <1>2, <2>1
  <2> QED BY <1>2, <2>1, <2>2, <2>3, StaysRight
<1>3. (\A x \in sent : MessageRight(x))'
  BY MessagesStayRight DEF Aligned
<1> QED BY <1>2, <1>3 DEF Aligned

\* What p sends is right after a step of its decryption that begins no new turn.
LEMMA SendingStays ==
  ASSUME Safe, Aligned, NEW p \in Peer, NEW t, state' = [state EXCEPT ![p] = t],
         encrypting' = encrypting, sent' = sent,
         \A c \in Caller : encrypting[p][c] = Idle,
         t.peerDHPublicKey = state[p].peerDHPublicKey, t.sendCount = state[p].sendCount,
         t.previousSendCount = state[p].previousSendCount,
         t.dhKeyPair \in Nat, t.dhKeyPair >= state[p].dhKeyPair,
         decrypting'[p] = Idle => t.sendChainKey = ChainKey(p, Turn(p), state[p].sendCount)
  PROVE  SendingRight(p)' /\ Turn(p)' = Turn(p)
<1>1. state \in [Peer -> RatchetState] /\ state'[p] = t /\ state[p].dhKeyPair \in Nat
  BY StateTypes DEF Safe, TypeInv, TypeOK
<1>2. /\ Turn(p)' = Turn(p) /\ \A q : SentBy(q)' = SentBy(q)
  BY <1>1 DEF Turn, SentBy
<1>3. Right(p)
  BY DEF Aligned
<1>4. /\ Has(p, Turn(p), state[p].sendCount)' /\ Below(p, Turn(p), state[p].sendCount)'
      /\ Has(p, Turn(p) - 1, state[p].previousSendCount)'
      /\ Below(p, Turn(p) - 1, state[p].previousSendCount)'
  BY <1>1, <1>2, <1>3 DEF Right, SendingRight, Has, Below
<1>5. (\A m \in SentBy(p) : m.dhPublicKey <= state[p].dhKeyPair /\ m.no < Cardinality(SentBy(p)))'
  <2>1. \A m \in SentBy(p) : m.dhPublicKey \in Nat
    BY MessageTypes DEF Safe, SentBy
  <2> QED BY <1>1, <1>2, <1>3, <2>1 DEF Right, SendingRight
<1>6. \A c \in Caller : encrypting'[p][c].pc # "exporting"
  BY DEF Idle
<1> QED BY <1>1, <1>2, <1>4, <1>5, <1>6 DEF SendingRight

\* What holds when p takes m from the net.
LEMMA OnReceipt ==
  ASSUME Safe, Aligned, ~ Overlap, NEW p \in Peer, NEW m \in net, Receives(p, m)
  PROVE  /\ m \in sent /\ m.from = other(p) /\ m \in SentBy(other(p)) /\ MessageRight(m)
         /\ decrypting[p] = Idle /\ decrypting[p].pc = "idle"
         /\ \A c \in Caller : encrypting[p][c] = Idle
         /\ RecvKeyRight(p, state[p]) /\ ReceivingRight(p, state[p], opened)
         /\ state[p].dhKeyPair = Turn(p)
         /\ state[p].sendChainKey = ChainKey(p, Turn(p), state[p].sendCount)
<1>1. m \in sent /\ m.from = other(p)
  BY DEF Receives, Safe, TypeInv, TypeOK
<1>2. /\ decrypting[p] = Idle /\ decrypting[p].pc = "idle"
      /\ \A c \in Caller : encrypting[p][c] = Idle
  BY DEF Receives, MayStart, Encrypts, Idle
<1>3. Right(p) /\ MessageRight(m)
  BY <1>1 DEF Aligned
<1>4. state[p].dhKeyPair = Turn(p)
  <2>1. Turn(p) \in Int
    BY StateTypes, Leads DEF Turn, Safe, TypeInv, TypeOK
  <2> QED BY <1>2, <1>3, <2>1 DEF Right, PairsRight
<1>5. state[p].sendChainKey = ChainKey(p, Turn(p), state[p].sendCount)
  BY <1>2, <1>3 DEF Right, SendingRight, Idle
<1>6. RecvKeyRight(p, state[p]) /\ ReceivingRight(p, state[p], opened)
  BY <1>2, <1>3 DEF Right, RatchetRight
<1> QED BY <1>1, <1>2, <1>3, <1>4, <1>5, <1>6 DEF SentBy

\* Decrypting in the chain there is changes the receiving side only.
LEMMA SameChainKeepsRight ==
  ASSUME Safe, Aligned, ~ Overlap, NEW p \in Peer, NEW m \in net, Receives(p, m),
         NEW t, t \in RatchetState, state' = [state EXCEPT ![p] = t],
         encrypting' = encrypting, sent' = sent, decrypting' = decrypting,
         SameExceptReceiving(state[p], t), RecvKeyRight(p, t), ReceivingRight(p, t, opened'),
         opened' = opened \cup {m}
  PROVE  Aligned'
<1>1. /\ m.from = other(p) /\ decrypting[p] = Idle /\ decrypting[p].pc = "idle"
      /\ \A c \in Caller : encrypting[p][c] = Idle
      /\ state[p].sendChainKey = ChainKey(p, Turn(p), state[p].sendCount)
  BY OnReceipt
<1>2. /\ state \in [Peer -> RatchetState] /\ state'[p] = t /\ state[p].dhKeyPair \in Nat
      /\ state'[other(p)] = state[other(p)]
  BY StateTypes, PeerFacts DEF Safe, TypeInv, TypeOK
<1>3. /\ t.peerDHPublicKey = state[p].peerDHPublicKey /\ t.sendCount = state[p].sendCount
      /\ t.previousSendCount = state[p].previousSendCount /\ t.dhKeyPair = state[p].dhKeyPair
      /\ t.rootKey = state[p].rootKey /\ t.sendChainKey = state[p].sendChainKey
  BY DEF SameExceptReceiving
<1>4. SendingRight(p)' /\ Turn(p)' = Turn(p)
  <2>1. t.dhKeyPair \in Nat /\ t.dhKeyPair >= state[p].dhKeyPair
    BY <1>2, <1>3
  <2> QED BY <1>1, <1>3, <2>1, SendingStays
<1>5. Right(p)
  BY DEF Aligned
<1>6. PairsRight(p)'
  BY <1>2, <1>3, <1>4, <1>5 DEF Right, PairsRight
<1>7. RatchetRight(p)'
  BY <1>1, <1>2 DEF RatchetRight, RecvKeyRight
<1>8. ReceivingRight(p, state[p], opened)'
  BY <1>2 DEF ReceivingRight, SlotsRight, Has, SentBy
<1>9. t.peerDHPublicKey <= state[other(p)].dhKeyPair
  <2>1. other(p) \in Peer /\ other(other(p)) = p
    BY PeerFacts
  <2> QED BY <1>3, <2>1 DEF Aligned, Right, PairsRight
<1>10. Right(p)'
  BY <1>4, <1>6, <1>7, <1>8 DEF Right
<1> QED BY <1>1, <1>9, <1>10, DecryptFrame

\* A message of an unknown key, for which there is no slot, is of the next chain.
LEMMA NextChain ==
  ASSUME Safe, Aligned, NEW p \in Peer, NEW m \in SentBy(other(p)), m \notin opened,
         Slots(state[p], m) = {}, m.dhPublicKey # state[p].peerDHPublicKey,
         decrypting[p] = Idle
  PROVE  /\ m.dhPublicKey = state[p].peerDHPublicKey + 1
         /\ m.dhPublicKey <= state[other(p)].dhKeyPair
<1>1. PICK q \in Peer : q = other(p) /\ other(q) = p
  BY PeerFacts
<1>2. Right(p) /\ Right(q) /\ state[p] \in RatchetState /\ state[q] \in RatchetState
  BY DEF Aligned, Safe, TypeInv, TypeOK
<1>3. /\ m.dhPublicKey \in Nat /\ m.messageNumber \in Nat
      /\ state[p].peerDHPublicKey \in Nat /\ state[q].peerDHPublicKey \in Nat
      /\ state[p].dhKeyPair \in Nat /\ state[q].dhKeyPair \in Nat
  BY <1>2, MessageTypes, StateTypes DEF SentBy, Safe
<1>4. m.dhPublicKey > state[p].peerDHPublicKey
  <2>1. ~ Behind(state[p], m)
    BY <1>2 DEF Right, ReceivingRight
  <2> QED BY <1>3, <2>1 DEF Behind, Before
<1>5. m.dhPublicKey <= state[q].dhKeyPair
  BY <1>1, <1>2 DEF Right, SendingRight
<1>6. state[q].dhKeyPair <= state[q].peerDHPublicKey + Lead(q)
  <2>1. Lead(q) \in {0, 1}
    BY Leads
  <2>2. state[q].dhKeyPair = (state[q].peerDHPublicKey + Lead(q))
                               - (IF decrypting[q].pc = "receiving" THEN 1 ELSE 0)
    BY <1>2 DEF Right, PairsRight, Turn
  <2> QED BY <1>3, <2>1, <2>2
<1>7. state[q].peerDHPublicKey <= state[p].dhKeyPair
  BY <1>1, <1>2 DEF Right, PairsRight
<1>8. state[p].dhKeyPair = state[p].peerDHPublicKey + Lead(p)
  <2>1. Lead(p) \in {0, 1} /\ decrypting[p].pc # "receiving"
    BY Leads DEF Idle
  <2> QED BY <1>2, <1>3, <2>1 DEF Right, PairsRight, Turn
<1>9. Lead(p) \in {0, 1} /\ Lead(p) + Lead(q) = 1 /\ Lead(q) \in {0, 1}
  BY <1>1, <1>3, Leads
<1> QED BY <1>1, <1>3, <1>4, <1>5, <1>6, <1>7, <1>8, <1>9

\* No key of an empty chain was ever used.
LEMMA NothingBeforeFirst ==
  ASSUME Safe, Aligned, NEW p \in Peer, NEW s, s.recvChainKey = NoKey, RecvKeyRight(p, s),
         NEW m \in SentBy(other(p))
  PROVE  m.dhPublicKey # s.peerDHPublicKey
<1> SUFFICES ASSUME m.dhPublicKey = s.peerDHPublicKey PROVE FALSE
  OBVIOUS
<1>1. m \in sent /\ m.from = other(p) /\ other(p) \in Peer
  BY PeerFacts DEF SentBy
<1>2. m.key.chain = RootOf(ChainLen(other(p), s.peerDHPublicKey))
  <2>1. m.key = ChainKey(other(p), s.peerDHPublicKey, m.messageNumber)
    BY <1>1 DEF Aligned, MessageRight
  <2> QED BY <2>1 DEF ChainKey
<1>3. RootOf(ChainLen(other(p), s.peerDHPublicKey)) = <<>>
  BY DEF RecvKeyRight, ChainKey, NoKey, SharedSecret
<1>4. m.key.chain # <<>>
  BY <1>1 DEF Safe, PeerSafe, SendingSafe, Used, OwnChain
<1> QED BY <1>2, <1>3, <1>4

\* Up to the first await of dhRatchetStep: what is missing of the old chain has slots,
\* and the new turn has sent and received nothing.
LEMMA NewKeyKeepsRight ==
  ASSUME Safe, Aligned, ~ Overlap, NEW p \in Peer, NEW m \in net, DecryptNewKey(p, m), ~ overrun'
  PROVE  Aligned'
<1>1. PICK q, s, dh : q = other(p) /\ s = state[p] /\ dh = s.peerDHPublicKey
  OBVIOUS
<1>2. /\ q \in Peer /\ state \in [Peer -> RatchetState] /\ s \in RatchetState
      /\ decrypting \in [Peer -> DecryptType] /\ TypeInv
      /\ dh \in Nat /\ s.dhKeyPair \in Nat /\ s.sendCount \in Nat /\ s.recvCount \in Nat
  BY <1>1, PeerFacts, StateTypes DEF Safe, TypeInv, TypeOK
<1>3. /\ m \in sent /\ m.from = q /\ m \in SentBy(q) /\ MessageRight(m)
      /\ decrypting[p] = Idle /\ decrypting[p].pc = "idle"
      /\ \A c \in Caller : encrypting[p][c] = Idle
      /\ RecvKeyRight(p, s) /\ ReceivingRight(p, s, opened)
      /\ s.dhKeyPair = Turn(p)
  BY <1>1, OnReceipt DEF DecryptNewKey
<1>4. m.dhPublicKey \in Nat /\ m.previousCount \in Nat
  BY <1>2, <1>3, MessageTypes
<1>5. PICK t : t = IF s.recvChainKey # NoKey THEN skipMessageKeys(s, m.previousCount) ELSE s
  OBVIOUS
<1>6. ~ (s.recvChainKey # NoKey /\ SkipsTooMany(s, m.previousCount))
  BY <1>1 DEF DecryptNewKey
<1>7. /\ state' = [state EXCEPT ![p] = NewPeerKey(t, m.dhPublicKey)]
      /\ decrypting' = [decrypting EXCEPT ![p] = [pc |-> "receiving", msg |-> m]]
      /\ m \notin opened
      /\ s.recvChainKey # NoKey => ~ Prunes(s, m.previousCount)
  BY <1>1, <1>5, <1>6 DEF DecryptNewKey, Twice
<1>8. m.dhPublicKey = dh + 1 /\ m.dhPublicKey <= state[q].dhKeyPair
  <2>1. Slots(s, m) = {} /\ m.dhPublicKey # s.peerDHPublicKey
    BY <1>1 DEF DecryptNewKey
  <2> QED BY <1>1, <1>3, <1>7, <2>1, NextChain
<1>9. Has(q, dh, m.previousCount) /\ Below(q, dh, m.previousCount)
  <2>1. m.dhPublicKey - 1 = dh
    BY <1>2, <1>8
  <2>2. HadBefore(m, dh, m.previousCount) /\ Below(q, dh, m.previousCount)
    BY <1>3, <2>1 DEF MessageRight
  <2> QED BY <1>3, <2>2 DEF HadBefore, Has
<1>10. /\ t \in RatchetState /\ SameExceptReceiving(s, t) /\ ReceivingRight(p, t, opened)
       /\ Below(q, dh, t.recvCount)
  <2>1. CASE s.recvChainKey # NoKey
    <3>1. /\ t \in RatchetState /\ SameExceptReceiving(s, t) /\ ReceivingRight(p, t, opened)
          /\ t.recvCount = IF m.previousCount <= s.recvCount THEN s.recvCount ELSE m.previousCount
      <4>1. ~ Prunes(s, m.previousCount) /\ t = skipMessageKeys(s, m.previousCount)
        BY <1>5, <1>7, <2>1
      <4>2. Has(other(p), s.peerDHPublicKey, m.previousCount)
        BY <1>1, <1>9
      <4> QED BY <1>2, <1>3, <1>4, <4>1, <4>2, SkipRight
    <3>2. \A x \in SentBy(q) : x.messageNumber \in Nat
      BY <1>2, MessageTypes DEF SentBy
    <3> QED BY <1>2, <1>4, <1>9, <3>1, <3>2 DEF Below
  <2>2. CASE s.recvChainKey = NoKey
    <3>1. t = s /\ SameExceptReceiving(s, t)
      BY <1>5, <2>2 DEF SameExceptReceiving
    <3>2. \A x \in SentBy(q) : x.dhPublicKey # dh
      BY <1>1, <1>3, <2>2, NothingBeforeFirst
    <3> QED BY <1>2, <1>3, <3>1, <3>2 DEF Below
  <2> QED BY <2>1, <2>2
<1>11. PICK u : u = NewPeerKey(t, m.dhPublicKey)
  OBVIOUS
<1>12. /\ u \in RatchetState /\ u.peerDHPublicKey = dh + 1
       /\ u.dhKeyPair = s.dhKeyPair /\ u.rootKey = s.rootKey
       /\ u.previousSendCount = s.sendCount /\ u.sendCount = 0 /\ u.recvCount = 0
       /\ u.skippedKeys = t.skippedKeys
  <2>1. u \in RatchetState
    BY <1>4, <1>10, <1>11, FieldTypes
  <2> QED BY <1>8, <1>10, <1>11, <2>1 DEF NewPeerKey, SameExceptReceiving, RatchetState
<1>13. \A x \in SentBy(q) : x.dhPublicKey \in Nat /\ x.messageNumber \in Nat
  BY <1>2, MessageTypes DEF SentBy
<1>14. t.peerDHPublicKey = dh /\ t.recvCount \in Nat
  BY <1>1, <1>10, StateTypes DEF SameExceptReceiving
<1>15. \A d \in Nat : \A n : Before(t, d, n) => Before(u, d, n)
  BY <1>2, <1>12, <1>14 DEF Before
<1>16. ReceivingRight(p, u, opened)
  <2>1. SlotsRight(p, u)
    <3>1. \A i \in DOMAIN t.skippedKeys : t.skippedKeys[i].dh \in Nat
      BY <1>10, StateTypes DEF Slot
    <3> QED BY <1>10, <1>12, <1>15, <3>1 DEF ReceivingRight, SlotsRight
  <2>2. Has(q, u.peerDHPublicKey, u.recvCount)
    BY <1>12 DEF Has
  <2>3. ASSUME NEW x \in SentBy(q), x \notin opened, Behind(u, x)
        PROVE  Slots(u, x) # {}
    <3>1. x.dhPublicKey <= dh
      BY <1>2, <1>12, <1>13, <2>3 DEF Behind, Before
    <3>2. Behind(t, x)
      BY <1>2, <1>10, <1>13, <1>14, <3>1 DEF Behind, Before, Below
    <3>3. Slots(t, x) # {}
      BY <1>1, <1>10, <2>3, <3>2 DEF ReceivingRight
    <3> QED BY <1>12, <3>3 DEF Slots
  <2>4. \A x \in SentBy(q) : x \in opened => Behind(u, x)
    BY <1>1, <1>10, <1>13, <1>15 DEF ReceivingRight, Behind
  <2> QED BY <1>1, <2>1, <2>2, <2>3, <2>4 DEF ReceivingRight
<1>17. /\ sent' = sent /\ opened' = opened /\ encrypting' = encrypting
       /\ state'[p] = u /\ state'[q] = state[q]
       /\ decrypting'[p] = [pc |-> "receiving", msg |-> m]
       /\ \A r \in Peer : r # p => decrypting'[r] = decrypting[r]
  BY <1>1, <1>2, <1>7, <1>11, PeerFacts DEF DecryptNewKey
<1>18. PICK turn : turn = Turn(p)
  OBVIOUS
<1>19. turn \in Nat /\ Turn(p)' = turn + 1 /\ s.dhKeyPair = turn
  <2>1. Lead(p) \in {0, 1}
    BY Leads
  <2> QED BY <1>1, <1>2, <1>3, <1>12, <1>17, <1>18, <2>1 DEF Turn
<1>20. Right(p)
  BY DEF Aligned
<1>21. PairsRight(p)'
  <2>1. /\ s.rootKey = RootOf(ChainLen(p, turn) - 0) /\ s.dhKeyPair >= 1
        /\ state[q].peerDHPublicKey <= s.dhKeyPair
    BY <1>1, <1>3, <1>18, <1>20 DEF Right, PairsRight
  <2>2. ChainLen(p, turn + 1) - 2 = ChainLen(p, turn) - 0 /\ (turn + 1) - 1 = turn
    <3>1. Lead(p) \in {0, 1}
      BY Leads
    <3> QED BY <1>19, <3>1 DEF ChainLen
  <2> QED BY <1>1, <1>12, <1>17, <1>19, <2>1, <2>2 DEF PairsRight
<1>22. SendingRight(p)'
  <2>1. \A x \in SentBy(p) : x.dhPublicKey \in Nat /\ x.dhPublicKey <= turn /\ x.no < Cardinality(SentBy(p))
    <3>1. \A x \in SentBy(p) : x.dhPublicKey \in Nat
      BY <1>2, MessageTypes DEF SentBy
    <3> QED BY <1>1, <1>19, <1>20, <3>1 DEF Right, SendingRight
  <2>2. Has(p, turn + 1, 0) /\ Below(p, turn + 1, 0)
    BY <1>19, <2>1 DEF Has, Below
  <2>3. Has(p, turn, s.sendCount) /\ Below(p, turn, s.sendCount) /\ (turn + 1) - 1 = turn
    BY <1>1, <1>18, <1>19, <1>20 DEF Right, SendingRight
  <2>4. \A r : SentBy(r)' = SentBy(r)
    BY <1>17 DEF SentBy
  <2>5. /\ Has(p, turn + 1, 0)' /\ Below(p, turn + 1, 0)'
        /\ Has(p, turn, s.sendCount)' /\ Below(p, turn, s.sendCount)'
    BY <2>2, <2>3, <2>4 DEF Has, Below
  <2>6. decrypting'[p] # Idle /\ \A c \in Caller : encrypting'[p][c].pc # "exporting"
    BY <1>3, <1>17 DEF Idle
  <2> QED BY <1>12, <1>17, <1>19, <2>1, <2>3, <2>4, <2>5, <2>6 DEF SendingRight
<1>23. RatchetRight(p)'
  BY <1>8, <1>12, <1>17 DEF RatchetRight
<1>24. ReceivingRight(p, state[p], opened)'
  BY <1>16, <1>17 DEF ReceivingRight, SlotsRight, Has, SentBy
<1>25. Right(p)'
  BY <1>21, <1>22, <1>23, <1>24 DEF Right
<1>26. u.peerDHPublicKey <= state[other(p)].dhKeyPair
  BY <1>1, <1>8, <1>12
<1> QED BY <1>1, <1>3, <1>7, <1>11, <1>17, <1>25, <1>26, DecryptFrame

LEMMA ReceivingKeepsRight ==
  ASSUME Safe, Aligned, ~ Overlap, NEW p \in Peer, DecryptReceiving(p)
  PROVE  Aligned'
<1>1. PICK q, s, t : q = other(p) /\ s = state[p] /\ t = NewReceivingChain(p, s)
  OBVIOUS
<1>2. PICK d : d = Turn(p)
  OBVIOUS
<1>3. /\ state \in [Peer -> RatchetState] /\ s \in RatchetState /\ decrypting[p] \in DecryptType
      /\ q \in Peer /\ other(q) = p /\ Right(p) /\ Right(q) /\ decrypting \in [Peer -> DecryptType]
      /\ s.peerDHPublicKey \in Nat /\ s.dhKeyPair \in Nat
  BY <1>1, PeerFacts, StateTypes DEF Aligned, Safe, TypeInv, TypeOK
<1>4. /\ decrypting[p].pc = "receiving" /\ decrypting[p] # Idle
      /\ decrypting[p] \in [pc : {"receiving", "sending"}, msg : Message]
  BY <1>3 DEF DecryptReceiving, DecryptType, Idle
<1>5. /\ decrypting[p].msg.from = q /\ \A c \in Caller : encrypting[p][c] = Idle
  BY <1>1, <1>4 DEF Safe, TypeInv, MessageInHand, PeerSafe, OneCall
<1>6. /\ s.dhKeyPair = d - 1 /\ s.dhKeyPair >= 1 /\ d = s.peerDHPublicKey + Lead(p)
      /\ s.rootKey = RootOf(ChainLen(p, d) - 2)
  BY <1>1, <1>2, <1>3, <1>4 DEF Right, PairsRight, Turn
<1>7. Lead(p) \in {0, 1} /\ Lead(p) + Lead(q) = 1 /\ Lead(q) \in {0, 1}
  BY <1>1, <1>3, Leads
<1>8. d \in Nat /\ d >= 2 /\ s.peerDHPublicKey = d - Lead(p)
  BY <1>3, <1>6, <1>7
<1>9. rootKDF(p, s.rootKey, s.dhKeyPair, s.peerDHPublicKey) = RootOf(ChainLen(p, d) - 1)
  BY <1>6, <1>8, RatchetRoots
<1>10. ChainLen(q, s.peerDHPublicKey) = ChainLen(p, d) - 1
  BY <1>3, <1>6, <1>7 DEF ChainLen
<1>11. /\ s.recvCount = 0 /\ s.sendCount = 0 /\ decrypting[p].msg.dhPublicKey = s.peerDHPublicKey
  BY <1>1, <1>3, <1>4 DEF Right, RatchetRight
<1>12. t \in RatchetState
  BY <1>1, <1>3, NewChainTypes
<1>13. /\ t.dhKeyPair = d /\ t.peerDHPublicKey = s.peerDHPublicKey
       /\ t.rootKey = RootOf(ChainLen(p, d) - 1)
       /\ t.recvChainKey = FirstKey(RootOf(ChainLen(p, d) - 1))
       /\ t.sendCount = s.sendCount /\ t.recvCount = s.recvCount
       /\ t.previousSendCount = s.previousSendCount /\ t.skippedKeys = s.skippedKeys
  <2>1. (d - 1) + 1 = d
    BY <1>8
  <2>2. t = [s EXCEPT !.rootKey = RootOf(ChainLen(p, d) - 1),
                      !.recvChainKey = FirstKey(RootOf(ChainLen(p, d) - 1)), !.dhKeyPair = @ + 1]
    BY <1>1, <1>9 DEF NewReceivingChain
  <2> QED BY <1>3, <1>6, <2>1, <2>2 DEF RatchetState
<1>14. RecvKeyRight(p, t)
  BY <1>1, <1>10, <1>11, <1>13 DEF RecvKeyRight, ChainKey, FirstKey
<1>15. /\ state' = [state EXCEPT ![p] = t] /\ sent' = sent /\ opened' = opened /\ encrypting' = encrypting
       /\ state'[p] = t /\ state'[q] = state[q]
       /\ decrypting' = [decrypting EXCEPT ![p] = [decrypting[p] EXCEPT !.pc = "sending"]]
  BY <1>1, <1>3, PeerFacts DEF DecryptReceiving
<1>16. /\ decrypting'[p].pc = "sending" /\ decrypting'[p].msg = decrypting[p].msg /\ decrypting'[p] # Idle
       /\ \A r \in Peer : r # p => decrypting'[r] = decrypting[r]
  BY <1>3, <1>4, <1>15 DEF Idle
<1>17. SendingRight(p)' /\ Turn(p)' = d
  <2>1. t.dhKeyPair \in Nat /\ t.dhKeyPair >= state[p].dhKeyPair
    <3>1. t.dhKeyPair = d /\ state[p].dhKeyPair = d - 1
      BY <1>1, <1>6, <1>13
    <3> QED BY ONLY <1>8, <3>1
  <2> QED BY <1>1, <1>2, <1>5, <1>13, <1>15, <1>16, <2>1, SendingStays
<1>18. PairsRight(p)'
  <2>1. state[q].peerDHPublicKey <= s.dhKeyPair /\ state[q].peerDHPublicKey \in Nat
    BY <1>1, <1>3, StateTypes DEF Right, PairsRight
  <2>2. state[q].peerDHPublicKey <= d /\ d >= 1 /\ d - 0 = d
    BY <1>6, <1>8, <2>1
  <2> QED BY <1>1, <1>13, <1>15, <1>16, <1>17, <2>2 DEF PairsRight
<1>19. RatchetRight(p)'
  BY <1>11, <1>13, <1>14, <1>15, <1>16 DEF RatchetRight, RecvKeyRight
<1>20. ReceivingRight(p, state[p], opened)'
  BY <1>1, <1>3, <1>13, <1>15
  DEF Right, ReceivingRight, SlotsRight, Has, SentBy, Behind, Before, Slots
<1>21. Right(p)'
  BY <1>17, <1>18, <1>19, <1>20 DEF Right
<1>22. t.peerDHPublicKey <= state[other(p)].dhKeyPair
  BY <1>1, <1>3, <1>13 DEF Right, PairsRight
<1> QED BY <1>1, <1>5, <1>15, <1>16, <1>21, <1>22, DecryptFrame

LEMMA SendingKeepsRight ==
  ASSUME Safe, Aligned, ~ Overlap, NEW p \in Peer, DecryptSending(p), ~ overrun'
  PROVE  Aligned'
<1>1. PICK q, s, n, m : q = other(p) /\ s = state[p] /\ n = NewSendingChain(p, s)
                        /\ m = decrypting[p].msg
  OBVIOUS
<1>2. PICK d : d = Turn(p)
  OBVIOUS
<1>3. /\ state \in [Peer -> RatchetState] /\ s \in RatchetState /\ TypeInv /\ UniqueKeys
      /\ q \in Peer /\ other(q) = p /\ Right(p) /\ Right(q) /\ decrypting \in [Peer -> DecryptType]
      /\ s.peerDHPublicKey \in Nat /\ s.dhKeyPair \in Nat
      /\ \A x \in sent : MessageRight(x)
  BY <1>1, PeerFacts, StateTypes DEF Aligned, Safe, TypeInv, TypeOK
<1>4. decrypting[p].pc = "sending" /\ decrypting[p] # Idle
  BY DEF DecryptSending, Idle
<1>5. m \in sent /\ m.from = q /\ \A c \in Caller : encrypting[p][c] = Idle
  BY <1>1, <1>4 DEF Safe, TypeInv, MessageInHand, PeerSafe, OneCall
<1>6. /\ s.dhKeyPair >= 1 /\ d = s.peerDHPublicKey + Lead(p)
      /\ s.dhKeyPair = d - 0 /\ s.rootKey = RootOf(ChainLen(p, d) - 1)
  BY <1>1, <1>2, <1>3, <1>4 DEF Right, PairsRight, Turn
<1>7. Lead(p) \in {0, 1} /\ Lead(p) + Lead(q) = 1 /\ Lead(q) \in {0, 1}
  BY <1>1, <1>3, Leads
<1>8. d \in Nat /\ d >= 1 /\ s.dhKeyPair = d /\ s.peerDHPublicKey = d - Lead(p)
  BY <1>3, <1>6, <1>7
<1>9. /\ s.recvCount = 0 /\ s.sendCount = 0 /\ m.dhPublicKey = s.peerDHPublicKey
      /\ RecvKeyRight(p, s) /\ ReceivingRight(p, s, opened)
  BY <1>1, <1>3, <1>4 DEF Right, RatchetRight
<1>10. s.peerDHPublicKey >= 1
  <2>1. m.key.chain = RootOf(ChainLen(q, m.dhPublicKey)) /\ m.key.chain # <<>>
    <3>1. m.key = ChainKey(q, m.dhPublicKey, m.messageNumber)
      BY <1>3, <1>5 DEF MessageRight
    <3>2. m.key.chain # <<>>
      BY <1>3, <1>5 DEF Safe, PeerSafe, SendingSafe, Used, OwnChain
    <3> QED BY <3>1, <3>2 DEF ChainKey
  <2>2. ChainLen(q, m.dhPublicKey) \in Int
    BY <1>3, <1>7, <1>9 DEF ChainLen
  <2>3. ChainLen(q, m.dhPublicKey) > 0
    BY <2>1, <2>2, EmptyRoot
  <2> QED BY <1>3, <1>7, <1>9, <2>3 DEF ChainLen
<1>11. rootKDF(p, s.rootKey, s.dhKeyPair, s.peerDHPublicKey) = RootOf(ChainLen(p, d))
  <2>1. ChainLen(p, d) >= 1
    BY <1>6, <1>7, <1>8, <1>10 DEF ChainLen
  <2> QED BY <1>6, <1>8, <2>1, RatchetRoots
<1>12. n \in RatchetState
  BY <1>1, <1>3, NewChainTypes
<1>13. /\ n.dhKeyPair = d /\ n.peerDHPublicKey = s.peerDHPublicKey
       /\ n.rootKey = RootOf(ChainLen(p, d)) /\ n.sendChainKey = ChainKey(p, d, 0)
       /\ n.recvChainKey = s.recvChainKey /\ n.sendCount = 0 /\ n.recvCount = s.recvCount
       /\ n.previousSendCount = s.previousSendCount /\ n.skippedKeys = s.skippedKeys
  <2>1. n = [s EXCEPT !.rootKey = RootOf(ChainLen(p, d)), !.sendChainKey = ChainKey(p, d, 0)]
    BY <1>1, <1>11 DEF NewSendingChain, FirstKey, ChainKey
  <2> QED BY <1>3, <1>8, <1>9, <2>1 DEF RatchetState
<1>14. RecvKeyRight(p, n) /\ ReceivingRight(p, n, opened)
  BY <1>9, <1>13 DEF RecvKeyRight, ReceivingRight, SlotsRight, Behind, Before, Slots
<1>15. DecryptInChain(p, n, m) /\ sent' = sent /\ encrypting' = encrypting
       /\ decrypting' = [decrypting EXCEPT ![p] = Idle]
  BY <1>1 DEF DecryptSending
<1>16. m \notin opened
  <2>1. ~ SkipsTooMany(n, m.messageNumber)
    BY <1>15 DEF DecryptInChain
  <2> QED BY <1>15, <2>1 DEF DecryptInChain, Twice
<1>17. Slots(n, m) = {}
  <2> SUFFICES ASSUME NEW i \in Slots(n, m) PROVE FALSE
    OBVIOUS
  <2>1. Before(n, m.dhPublicKey, m.messageNumber)
    BY <1>14 DEF Slots, ReceivingRight, SlotsRight
  <2>2. m.messageNumber \in Nat /\ m.dhPublicKey \in Nat
    BY <1>3, <1>5, MessageTypes
  <2> QED BY <1>9, <1>13, <2>1, <2>2 DEF Before
<1>18. PICK t \in RatchetState :
          /\ state' = [state EXCEPT ![p] = t] /\ SameExceptReceiving(n, t)
          /\ RecvKeyRight(p, t) /\ ReceivingRight(p, t, opened')
  BY <1>1, <1>3, <1>5, <1>9, <1>12, <1>13, <1>14, <1>15, <1>17, InChainRight
<1>19. opened' = opened \cup {m}
  BY <1>1, <1>3, <1>5, <1>9, <1>12, <1>13, <1>14, <1>15, <1>17, InChainRight
<1>20. /\ t.dhKeyPair = d /\ t.peerDHPublicKey = s.peerDHPublicKey
       /\ t.rootKey = RootOf(ChainLen(p, d)) /\ t.sendChainKey = ChainKey(p, d, 0)
       /\ t.sendCount = 0 /\ t.previousSendCount = s.previousSendCount
  BY <1>13, <1>18 DEF SameExceptReceiving
<1>21. /\ state'[p] = t /\ state'[q] = state[q] /\ decrypting'[p] = Idle /\ decrypting'[p].pc = "idle"
       /\ \A r \in Peer : r # p => decrypting'[r] = decrypting[r]
  BY <1>1, <1>3, <1>15, <1>18, PeerFacts DEF Idle
<1>22. SendingRight(p)' /\ Turn(p)' = d
  <2>1. t.dhKeyPair \in Nat /\ t.dhKeyPair >= state[p].dhKeyPair
    BY <1>1, <1>8, <1>20
  <2> QED BY <1>1, <1>2, <1>5, <1>9, <1>15, <1>18, <1>20, <2>1, SendingStays
<1>23. PairsRight(p)'
  <2>1. state[q].peerDHPublicKey <= d /\ d >= 1 /\ d - 0 = d
    BY <1>1, <1>3, <1>8 DEF Right, PairsRight
  <2>2. ChainLen(p, d) - 0 = ChainLen(p, d)
    BY <1>7, <1>8 DEF ChainLen
  <2> QED BY <1>1, <1>20, <1>21, <1>22, <2>1, <2>2 DEF PairsRight
<1>24. RatchetRight(p)'
  BY <1>18, <1>21 DEF RatchetRight, RecvKeyRight
<1>25. ReceivingRight(p, state[p], opened)'
  BY <1>15, <1>18, <1>21 DEF ReceivingRight, SlotsRight, Has, SentBy
<1>26. Right(p)'
  BY <1>22, <1>23, <1>24, <1>25 DEF Right
<1>27. t.peerDHPublicKey <= state[other(p)].dhKeyPair
  BY <1>1, <1>3, <1>20 DEF Right, PairsRight
<1> QED BY <1>1, <1>5, <1>15, <1>18, <1>19, <1>21, <1>26, <1>27, DecryptFrame

LEMMA DecryptKeepsRight ==
  ASSUME Safe, Aligned, ~ Overlap, NEW p \in Peer, DecryptStep(p), ~ overrun'
  PROVE  Aligned'
<1>1. /\ state \in [Peer -> RatchetState] /\ state[p] \in RatchetState
      /\ TypeInv /\ UniqueKeys /\ \A x \in sent : MessageRight(x)
  BY DEF Aligned, Safe, TypeInv, TypeOK
<1>2. ASSUME NEW m \in net, DecryptSkipped(p, m) PROVE Aligned'
  <2>1. Receives(p, m) /\ encrypting' = encrypting /\ decrypting' = decrypting /\ sent' = sent
    BY <1>2 DEF DecryptSkipped
  <2>2. m \in sent /\ m.from = other(p) /\ RecvKeyRight(p, state[p])
        /\ ReceivingRight(p, state[p], opened)
    BY <2>1, OnReceipt
  <2>3. PICK i \in Slots(state[p], m) :
          /\ state' = [state EXCEPT ![p].skippedKeys = Without(@, i)]
          /\ opened' = Opened(m, state[p].skippedKeys[i].key)
    BY <1>2 DEF DecryptSkipped
  <2>4. PICK t : t = [state[p] EXCEPT !.skippedKeys = Without(@, i)]
    OBVIOUS
  <2>5. /\ state[p].skippedKeys[i].key = m.key
        /\ t \in RatchetState /\ SameExceptReceiving(state[p], t)
        /\ t.recvCount = state[p].recvCount /\ t.recvChainKey = state[p].recvChainKey
        /\ ReceivingRight(p, t, opened \cup {m})
    BY <1>1, <2>2, <2>4, WithoutRight
  <2>6. opened' = opened \cup {m}
    BY <2>3, <2>5 DEF Opened
  <2>7. RecvKeyRight(p, t) /\ state' = [state EXCEPT ![p] = t]
    BY <2>2, <2>3, <2>4, <2>5 DEF RecvKeyRight, SameExceptReceiving
  <2> QED BY <2>1, <2>5, <2>6, <2>7, SameChainKeepsRight
<1>3. ASSUME NEW m \in net, DecryptSameKey(p, m) PROVE Aligned'
  <2>1. /\ Receives(p, m) /\ encrypting' = encrypting /\ decrypting' = decrypting /\ sent' = sent
        /\ DecryptInChain(p, state[p], m) /\ Slots(state[p], m) = {}
        /\ m.dhPublicKey = state[p].peerDHPublicKey
    BY <1>3 DEF DecryptSameKey
  <2>2. m \in sent /\ m.from = other(p) /\ RecvKeyRight(p, state[p])
        /\ ReceivingRight(p, state[p], opened)
    BY <2>1, OnReceipt
  <2>3. PICK t \in RatchetState :
          /\ state' = [state EXCEPT ![p] = t] /\ SameExceptReceiving(state[p], t)
          /\ RecvKeyRight(p, t) /\ ReceivingRight(p, t, opened')
    BY <1>1, <2>1, <2>2, InChainRight
  <2>4. opened' = opened \cup {m}
    BY <1>1, <2>1, <2>2, InChainRight
  <2> QED BY <2>1, <2>3, <2>4, SameChainKeepsRight
<1> QED BY <1>2, <1>3, NewKeyKeepsRight, ReceivingKeepsRight, SendingKeepsRight DEF DecryptStep

LEMMA AlignedAtFirst == ASSUME Init PROVE Aligned
<1>1. RootOf(0) = <<>> /\ RootOf(0 - 1) = <<>>
  BY EmptyRoot
<1>2. rootKDF(Alice, <<>>, 1, 1) = RootOf(1)
  <2>1. Lead(Alice) = 0 /\ ChainLen(Alice, 1) = 1 /\ Alice \in Peer
    BY DEF Lead, ChainLen, Peer
  <2>2. rootKDF(Alice, RootOf(1 - 1), 1, 1 - 0) = RootOf(1)
    BY <2>1, RatchetRoots
  <2> QED BY <1>1, <2>2
<1>3. ASSUME NEW p \in Peer PROVE Right(p)
  <2>1. /\ encrypting[p] = [c \in Caller |-> Idle] /\ decrypting[p] = Idle
        /\ sent = {} /\ opened = {} /\ state[p] = IF p = Alice THEN initAlice ELSE initBob
        /\ state[other(p)] = IF p = Alice THEN initBob ELSE initAlice
    BY <1>3, ConstantsAssumption DEF Init, Peer, other
  <2>2. /\ decrypting[p].pc = "idle" /\ SentBy(p) = {} /\ SentBy(other(p)) = {}
        /\ \A c \in Caller : encrypting[p][c].pc = "idle"
    BY <2>1 DEF Idle, SentBy
  <2>3. /\ state[p].dhKeyPair = 1 /\ state[p].peerDHPublicKey = 1 - Lead(p)
        /\ state[p].sendCount = 0 /\ state[p].recvCount = 0 /\ state[p].previousSendCount = 0
        /\ state[p].skippedKeys = <<>> /\ state[p].recvChainKey = NoKey
        /\ state[other(p)].peerDHPublicKey <= 1
    BY <2>1 DEF initAlice, initBob, Lead
  <2>4. Turn(p) = 1
    BY <2>3 DEF Turn, Lead
  <2>5. /\ ChainLen(p, 1) = 1 - Lead(p)
        /\ ChainLen(other(p), state[p].peerDHPublicKey) \in {0, 0 - 1}
    <3>1. Lead(p) \in {0, 1} /\ Lead(p) + Lead(other(p)) = 1 /\ Lead(other(p)) \in {0, 1}
      BY PeerFacts, Leads
    <3> QED BY <2>3, <3>1 DEF ChainLen
  <2>6. state[p].rootKey = RootOf(ChainLen(p, 1)) /\ state[p].sendChainKey = ChainKey(p, 1, 0)
    <3>1. CASE p = Alice
      <4>1. ChainLen(p, 1) = 1
        BY <2>5, <3>1 DEF Lead
      <4> QED BY <1>2, <2>1, <3>1, <4>1 DEF initAlice, SharedSecret, FirstKey, ChainKey
    <3>2. CASE p # Alice
      <4>1. ChainLen(p, 1) = 0
        BY <2>5, <3>2 DEF Lead
      <4> QED BY <1>1, <2>1, <3>2, <4>1 DEF initBob, SharedSecret, NoKey, ChainKey
    <3> QED BY <3>1, <3>2
  <2>7. PairsRight(p)
    <3>1. ChainLen(p, 1) - 0 = ChainLen(p, 1) /\ 1 - 0 = 1
      BY <2>5 DEF Lead
    <3> QED BY <2>2, <2>3, <2>4, <2>6, <3>1 DEF PairsRight
  <2>8. SendingRight(p)
    BY <2>2, <2>3, <2>4, <2>6 DEF SendingRight, Has, Below
  <2>9. RatchetRight(p)
    <3>1. RecvKeyRight(p, state[p])
      BY <1>1, <2>3, <2>5 DEF RecvKeyRight, ChainKey, NoKey, SharedSecret
    <3> QED BY <2>1, <3>1 DEF RatchetRight
  <2>10. ReceivingRight(p, state[p], opened)
    BY <2>2, <2>3 DEF ReceivingRight, SlotsRight, Has
  <2> QED BY <2>7, <2>8, <2>9, <2>10 DEF Right
<1> QED BY <1>3 DEF Aligned, Init

LEMMA LateInvariant == ~ Overlap => (Spec => []LateInv)
<1> SUFFICES ASSUME ~ Overlap PROVE Spec => []LateInv
  OBVIOUS
<1>1. Spec => []Safe
  BY SafeIsInvariant
<1>2. Init => overrun \/ Aligned
  BY AlignedAtFirst
<1>3. Safe /\ (overrun \/ Aligned) /\ [Next]_vars => (overrun \/ Aligned)'
  <2> SUFFICES ASSUME Safe, overrun \/ Aligned, [Next]_vars, ~ overrun' PROVE Aligned'
    OBVIOUS
  <2>1. ASSUME NEW p \in Peer, EncryptStep(p) PROVE Aligned'
    <3>1. overrun' = overrun
      BY <2>1 DEF EncryptStep, Encrypt, EncryptAdvance, EncryptFinish
    <3> QED BY <2>1, <3>1, EncryptKeepsRight
  <2>2. ASSUME NEW p \in Peer, DecryptStep(p) PROVE Aligned'
    <3>1. ~ overrun
      BY <2>2 DEF DecryptStep, DecryptSkipped, DecryptSameKey, DecryptNewKey,
                  DecryptReceiving, DecryptSending, DecryptInChain
    <3> QED BY <2>2, <3>1, DecryptKeepsRight
  <2>3. CASE UNCHANGED vars
    <3>1. /\ sent' = sent /\ opened' = opened /\ state' = state /\ encrypting' = encrypting
          /\ decrypting' = decrypting /\ overrun' = overrun
      BY <2>3 DEF vars
    <3>2. Aligned
      BY <3>1
    <3>3. ASSUME NEW q \in Peer PROVE Right(q)'
      <4>1. Right(q) /\ Right(other(q)) /\ other(other(q)) = q
        BY <3>2, PeerFacts DEF Aligned
      <4>2. state'[other(q)].peerDHPublicKey <= state[q].dhKeyPair
        BY <3>1, <4>1 DEF Right, PairsRight
      <4> QED BY <3>1, <4>1, <4>2, StaysRight
    <3> QED BY <3>1, <3>2, <3>3, MessagesStayRight DEF Aligned
  <2> QED BY <2>1, <2>2, <2>3 DEF Next
<1>4. LateInv <=> Safe /\ (overrun \/ Aligned)
  BY DEF LateInv
<1> QED BY <1>1, <1>2, <1>3, <1>4, PTL DEF Spec

\* The messages of a chain that skipping from a to b would pass over are missing.
LEMMA ManyMissing ==
  ASSUME TypeInv, NEW m \in sent, NEW d, NEW a \in Nat, NEW b \in Nat, a + MAX_SKIP < b,
         HadBefore(m, d, b),
         \A x \in SentBy(m.from) : x \in opened /\ x.dhPublicKey = d => x.messageNumber < a
  PROVE  Cardinality(Missing(m)) > MAX_SKIP
<1>1. IsFiniteSet(Missing(m))
  <2>1. Missing(m) \subseteq sent
    BY DEF Missing, SentBy
  <2> QED BY <2>1, FS_Subset DEF TypeInv
<1>2. PICK numbers : numbers = {x.messageNumber : x \in Missing(m)}
  OBVIOUS
<1>3. IsFiniteSet(numbers) /\ Cardinality(numbers) <= Cardinality(Missing(m))
  <2>1. PICK f : f = [x \in Missing(m) |-> x.messageNumber]
    OBVIOUS
  <2>2. f \in Surjection(Missing(m), numbers)
    BY <1>2, <2>1 DEF Surjection
  <2> QED BY <1>1, <2>2, FS_Surjection
<1>4. a..(b - 1) \subseteq numbers
  <2> SUFFICES ASSUME NEW i \in a..(b - 1) PROVE i \in numbers
    OBVIOUS
  <2>1. PICK x \in SentBy(m.from) : x.dhPublicKey = d /\ x.messageNumber = i /\ x.no < m.no
    BY DEF HadBefore
  <2>2. x \notin opened
    BY <2>1
  <2> QED BY <1>2, <2>1, <2>2 DEF Missing
<1>5. Cardinality(a..(b - 1)) = b - a
  BY ConstantsAssumption, FS_Interval
<1>6. Cardinality(a..(b - 1)) <= Cardinality(numbers)
  BY <1>3, <1>4, FS_Subset
<1>7. Cardinality(numbers) \in Nat /\ Cardinality(Missing(m)) \in Nat
  BY <1>1, <1>3, FS_CardinalityType
<1> QED BY <1>3, <1>5, <1>6, <1>7, ConstantsAssumption

\* A message that no slot is kept for and that skipping reaches is opened with the key
\* its header tells.
LEMMA OpensInChain ==
  ASSUME Safe, Aligned, NEW p \in Peer, NEW m \in SentBy(other(p)), m \notin opened,
         decrypting[p] = Idle, Slots(state[p], m) = {},
         m.dhPublicKey = state[p].peerDHPublicKey
  PROVE  /\ KeyFor(p, state[p], m) = m.key
         /\ Throws(state[p], m) => Cardinality(Missing(m)) > MAX_SKIP
<1>1. PICK s : s = state[p]
  OBVIOUS
<1>2. /\ m \in sent /\ m.from = other(p) /\ MessageRight(m) /\ Right(p) /\ s \in RatchetState
      /\ TypeInv
  BY <1>1 DEF SentBy, Aligned, Safe, TypeInv, TypeOK
<1>3. /\ m.messageNumber \in Nat /\ s.recvCount \in Nat /\ m.dhPublicKey \in Nat
  BY <1>2, MessageTypes, StateTypes
<1>4. RecvKeyRight(p, s) /\ ReceivingRight(p, s, opened)
  BY <1>1, <1>2 DEF Right, RatchetRight, Idle
<1>5. m.messageNumber >= s.recvCount
  <2>1. ~ Behind(s, m)
    BY <1>1, <1>4 DEF ReceivingRight
  <2> QED BY <1>1, <1>3, <2>1 DEF Behind, Before
<1>6. KeyFor(p, s, m) = m.key
  <2>1. PICK ahead : ahead = IF m.messageNumber > s.recvCount THEN m.messageNumber - s.recvCount ELSE 0
    OBVIOUS
  <2>2. s.recvCount + ahead = m.messageNumber
    BY <1>3, <1>5, <2>1
  <2>3. KeyFor(p, s, m) = [s.recvChainKey EXCEPT !.n = @ + ahead]
    BY <1>1, <2>1 DEF KeyFor
  <2>4. s.recvChainKey = ChainKey(other(p), m.dhPublicKey, s.recvCount)
    BY <1>1, <1>4 DEF RecvKeyRight
  <2>5. m.key = ChainKey(other(p), m.dhPublicKey, m.messageNumber)
    BY <1>2 DEF MessageRight
  <2> QED BY <2>2, <2>3, <2>4, <2>5 DEF ChainKey
<1>7. ASSUME Throws(s, m) PROVE Cardinality(Missing(m)) > MAX_SKIP
  <2>1. s.recvCount + MAX_SKIP < m.messageNumber
    BY <1>1, <1>7 DEF Throws, SkipsTooMany
  <2>2. HadBefore(m, m.dhPublicKey, m.messageNumber)
    BY <1>2 DEF MessageRight
  <2>3. \A x \in SentBy(m.from) : x \in opened /\ x.dhPublicKey = m.dhPublicKey => x.messageNumber < s.recvCount
    BY <1>1, <1>2, <1>3, <1>4 DEF ReceivingRight, Behind, Before
  <2> QED BY <1>2, <1>3, <2>1, <2>2, <2>3, ManyMissing
<1> QED BY <1>1, <1>6, <1>7

\* The same for a message of the next chain.
LEMMA OpensInNextChain ==
  ASSUME Safe, Aligned, NEW p \in Peer, NEW m \in SentBy(other(p)), m \notin opened,
         decrypting[p] = Idle, Slots(state[p], m) = {},
         m.dhPublicKey # state[p].peerDHPublicKey
  PROVE  /\ KeyFor(p, state[p], m) = m.key
         /\ Throws(state[p], m) => Cardinality(Missing(m)) > MAX_SKIP
<1>1. PICK s : s = state[p]
  OBVIOUS
<1>2. /\ m \in sent /\ m.from = other(p) /\ MessageRight(m) /\ Right(p) /\ s \in RatchetState
      /\ TypeInv
  BY <1>1 DEF SentBy, Aligned, Safe, TypeInv, TypeOK
<1>3. /\ m.messageNumber \in Nat /\ s.recvCount \in Nat /\ m.dhPublicKey \in Nat
      /\ m.previousCount \in Nat /\ s.peerDHPublicKey \in Nat /\ s.dhKeyPair \in Nat
  BY <1>2, MessageTypes, StateTypes
<1>4. m.dhPublicKey = s.peerDHPublicKey + 1
  BY <1>1, NextChain
<1>5. PICK d : d = Turn(p) + 1
  OBVIOUS
<1>6. /\ d \in Nat /\ d >= 2 /\ s.dhKeyPair = d - 1 /\ m.dhPublicKey = d - Lead(p)
      /\ s.rootKey = RootOf(ChainLen(p, d) - 2)
      /\ ChainLen(other(p), m.dhPublicKey) = ChainLen(p, d) - 1
  <2>1. Lead(p) \in {0, 1} /\ Lead(p) + Lead(other(p)) = 1 /\ Lead(other(p)) \in {0, 1}
    BY Leads, PeerFacts
  <2>2. Turn(p) = s.peerDHPublicKey + Lead(p) /\ Turn(p) \in Nat
    BY <1>1, <1>3, <2>1 DEF Turn
  <2>3. s.dhKeyPair = Turn(p) - 0 /\ s.dhKeyPair >= 1 /\ s.rootKey = RootOf(ChainLen(p, Turn(p)) - 0)
    BY <1>1, <1>2 DEF Right, PairsRight, Idle
  <2>4. ChainLen(p, d) - 2 = ChainLen(p, Turn(p)) - 0
    BY <1>5, <2>1, <2>2 DEF ChainLen
  <2>5. d \in Nat /\ d >= 2 /\ s.dhKeyPair = d - 1 /\ m.dhPublicKey = d - Lead(p)
    BY <1>3, <1>4, <1>5, <2>1, <2>2, <2>3
  <2>6. ChainLen(other(p), m.dhPublicKey) = ChainLen(p, d) - 1
    BY <1>3, <2>1, <2>5 DEF ChainLen
  <2> QED BY <2>3, <2>4, <2>5, <2>6
<1>7. rootKDF(p, s.rootKey, s.dhKeyPair, m.dhPublicKey) = RootOf(ChainLen(p, d) - 1)
  BY <1>6, RatchetRoots
<1>8. KeyFor(p, s, m) = m.key
  <2>1. PICK u, t : u = NewPeerKey(s, m.dhPublicKey) /\ t = NewReceivingChain(p, u)
    OBVIOUS
  <2>2. /\ u.rootKey = s.rootKey /\ u.dhKeyPair = s.dhKeyPair
        /\ u.peerDHPublicKey = m.dhPublicKey /\ u.recvCount = 0 /\ u \in RatchetState
    <3>1. u \in RatchetState
      BY <1>2, <1>3, <2>1, FieldTypes
    <3> QED BY <1>2, <2>1, <3>1 DEF NewPeerKey, RatchetState
  <2>3. t.recvChainKey = FirstKey(RootOf(ChainLen(p, d) - 1)) /\ t.recvCount = 0
    <3>1. t = [u EXCEPT !.rootKey = RootOf(ChainLen(p, d) - 1),
                        !.recvChainKey = FirstKey(RootOf(ChainLen(p, d) - 1)), !.dhKeyPair = @ + 1]
      BY <1>7, <2>1, <2>2 DEF NewReceivingChain
    <3> QED BY <2>2, <3>1 DEF RatchetState
  <2>4. PICK ahead : ahead = IF m.messageNumber > t.recvCount THEN m.messageNumber - t.recvCount ELSE 0
    OBVIOUS
  <2>5. 0 + ahead = m.messageNumber
    BY <1>3, <2>3, <2>4
  <2>6. KeyFor(p, s, m) = [t.recvChainKey EXCEPT !.n = @ + ahead]
    BY <1>1, <2>1, <2>4 DEF KeyFor
  <2>7. m.key = ChainKey(other(p), m.dhPublicKey, m.messageNumber)
    BY <1>2 DEF MessageRight
  <2> QED BY <1>6, <2>3, <2>5, <2>6, <2>7 DEF ChainKey, FirstKey
<1>9. ReceivingRight(p, s, opened)
  BY <1>1, <1>2 DEF Right
<1>10. ASSUME Throws(s, m) PROVE Cardinality(Missing(m)) > MAX_SKIP
  <2>1. CASE SkipsTooMany(s, m.previousCount)
    <3>1. s.recvCount + MAX_SKIP < m.previousCount
      BY <2>1 DEF SkipsTooMany
    <3>2. HadBefore(m, s.peerDHPublicKey, m.previousCount)
      <4>1. m.dhPublicKey - 1 = s.peerDHPublicKey
        BY <1>3, <1>4
      <4> QED BY <1>2, <4>1 DEF MessageRight
    <3>3. \A x \in SentBy(m.from) : x \in opened /\ x.dhPublicKey = s.peerDHPublicKey => x.messageNumber < s.recvCount
      BY <1>2, <1>3, <1>9 DEF ReceivingRight, Behind, Before
    <3> QED BY <1>2, <1>3, <3>1, <3>2, <3>3, ManyMissing
  <2>2. CASE m.messageNumber > MAX_SKIP
    <3>1. 0 + MAX_SKIP < m.messageNumber
      BY <1>3, <2>2, ConstantsAssumption
    <3>2. HadBefore(m, m.dhPublicKey, m.messageNumber)
      BY <1>2 DEF MessageRight
    <3>3. \A x \in SentBy(m.from) : x \in opened => x.dhPublicKey # m.dhPublicKey
      <4>1. \A x \in SentBy(m.from) : x \in opened => x.dhPublicKey <= s.peerDHPublicKey
        <5>1. \A x \in SentBy(m.from) : x.dhPublicKey \in Nat
          BY <1>2, MessageTypes DEF SentBy
        <5> QED BY <1>2, <1>3, <1>9, <5>1 DEF ReceivingRight, Behind, Before
      <4> QED BY <1>3, <1>4, <4>1
    <3> QED BY <1>2, <1>3, <3>1, <3>2, <3>3, ManyMissing
  <2> QED BY <1>1, <1>10, <2>1, <2>2 DEF Throws
<1> QED BY <1>1, <1>8, <1>10

\* A message opens whenever it comes, whatever was lost, late or out of order before
\* it, unless more than MAX_SKIP of the messages before it are missing: the calls of a
\* peer wait for one another, nothing came twice, and no skipped key was pruned.
THEOREM LateAreOpened == ~ Overlap => (Spec => []LateMessagesOpen)
<1> SUFFICES ASSUME ~ Overlap PROVE Spec => []LateMessagesOpen
  OBVIOUS
<1>1. Spec => []LateInv
  BY LateInvariant
<1>2. LateInv => LateMessagesOpen
  <2> SUFFICES ASSUME LateInv, ~ overrun, NEW p \in Peer, decrypting[p] = Idle,
                      NEW m \in net \ opened, m.from = other(p)
               PROVE  \/ Cardinality(Missing(m)) > MAX_SKIP
                      \/ ~ Throws(state[p], m) /\ KeyFor(p, state[p], m) = m.key
    BY DEF LateMessagesOpen
  <2>1. Safe /\ Aligned /\ m \in sent /\ m \in SentBy(other(p)) /\ MessageRight(m)
    BY DEF LateInv, Aligned, Safe, TypeInv, TypeOK, SentBy
  <2>2. CASE Slots(state[p], m) # {}
    <3>1. ~ Throws(state[p], m)
      BY <2>2 DEF Throws
    <3>2. PICK i \in Slots(state[p], m) : KeyFor(p, state[p], m) = state[p].skippedKeys[i].key
      BY <2>2 DEF KeyFor
    <3>3. SlotsRight(p, state[p])
      BY <2>1 DEF Aligned, Right, ReceivingRight
    <3>4. /\ i \in DOMAIN state[p].skippedKeys
          /\ state[p].skippedKeys[i].dh = m.dhPublicKey
          /\ state[p].skippedKeys[i].n = m.messageNumber
      BY DEF Slots
    <3>5. state[p].skippedKeys[i].key = m.key
      BY <2>1, <3>3, <3>4 DEF SlotsRight, MessageRight
    <3> QED BY <3>1, <3>2, <3>5
  <2>3. CASE Slots(state[p], m) = {} /\ m.dhPublicKey = state[p].peerDHPublicKey
    BY <2>1, <2>3, OpensInChain
  <2>4. CASE Slots(state[p], m) = {} /\ m.dhPublicKey # state[p].peerDHPublicKey
    BY <2>1, <2>4, OpensInNextChain
  <2> QED BY <2>2, <2>3, <2>4
<1> QED BY <1>1, <1>2, PTL
=============================================================================
