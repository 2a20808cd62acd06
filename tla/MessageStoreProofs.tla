------------------------- MODULE MessageStoreProofs -------------------------
(***************************************************************************)
(* Proofs about MessageStore.  When calls do not overlap, the store keeps  *)
(* everything validateInvariants asserts, for any number of channels,      *)
(* messages and callers and for arrays of any length.                      *)
(***************************************************************************)
EXTENDS MessageStore, FiniteSetTheorems, SequenceTheorems, TLAPS

-----------------------------------------------------------------------------
(* Arrays.                                                                 *)

WellFormed(s, c) == TimeOrdered(s) /\ DistinctIds(s) /\ InChannel(s, c)

Joined(s, b) == s \o b

Front(s, k) == SubSeq(s, 1, k)

Back(s, k) == SubSeq(s, k + 1, Len(s))

IdsAt(w, keep) == {w[i].id : i \in keep}

\* A selection of positions of an array numbers them 1..n, each once.
LEMMA SelectionNumbers ==
  ASSUME NEW n \in Nat, NEW keep \in SUBSET (1..n), NEW p \in Selections(keep)
  PROVE  /\ Cardinality(keep) \in Nat
         /\ p \in [1..Cardinality(keep) -> keep]
         /\ \A i, j \in DOMAIN p : p[i] = p[j] => i = j
         /\ \A k \in keep : \E i \in DOMAIN p : p[i] = k
<1>1. IsFiniteSet(1..n)
  BY FS_Interval
<1>1a. IsFiniteSet(keep)
  BY <1>1, FS_Subset
<1>2. Cardinality(keep) \in Nat
  BY <1>1a, FS_CardinalityType
<1> QED
  BY <1>2 DEF Selections, Bijection, Injection, Surjection, IsInjective

\* Sorting or filtering keeps exactly the elements at the chosen positions.
LEMMA PickProperties ==
  ASSUME NEW S, NEW w \in Seq(S), NEW keep \in SUBSET (1..Len(w)), NEW p \in Selections(keep)
  PROVE  /\ Pick(w, p) \in Seq(S)
         /\ DOMAIN Pick(w, p) = DOMAIN p
         /\ \A i \in DOMAIN p : p[i] \in keep /\ Pick(w, p)[i] = w[p[i]]
         /\ \A k \in keep : \E i \in DOMAIN p : Pick(w, p)[i] = w[k]
<1>1. Len(w) \in Nat /\ DOMAIN w = 1..Len(w) /\ \A i \in 1..Len(w) : w[i] \in S
  BY ElementOfSeq
<1>2. /\ Cardinality(keep) \in Nat
      /\ p \in [1..Cardinality(keep) -> keep]
      /\ \A k \in keep : \E i \in DOMAIN p : p[i] = k
  <2>1. Len(w) \in Nat
    BY <1>1
  <2> QED BY ONLY <2>1, keep \in SUBSET (1..Len(w)), p \in Selections(keep), SelectionNumbers
<1>3. Pick(w, p) \in [1..Cardinality(keep) -> S]
  BY <1>1, <1>2 DEF Pick
<1>4. Pick(w, p) \in Seq(S)
  BY <1>2, <1>3, SeqDef
<1> QED
  BY <1>1, <1>2, <1>4 DEF Pick

\* Appending a batch after it was deduplicated: the kept positions hold distinct
\* ids, and the ids of the two arrays together.
LEMMA UndupProperties ==
  ASSUME NEW s \in Seq(Message), NEW b \in Seq(Message), DistinctIds(s), DistinctIds(b),
         NEW w, w = Joined(s, b), NEW keep, keep = Undup(s, b, IdsOf(s))
  PROVE  /\ w \in Seq(Message)
         /\ keep \in SUBSET (1..Len(w))
         /\ \A i, j \in keep : w[i].id = w[j].id => i = j
         /\ IdsAt(w, keep) = IdsOf(s) \cup IdsOf(b)
         /\ \A i \in keep : \/ \E j \in DOMAIN s : w[i] = s[j]
                            \/ \E j \in DOMAIN b : w[i] = b[j]
<1>1. /\ Len(s) \in Nat /\ DOMAIN s = 1..Len(s)
      /\ Len(b) \in Nat /\ DOMAIN b = 1..Len(b)
  BY LenProperties
<1>2. /\ w \in Seq(Message)
      /\ Len(w) = Len(s) + Len(b)
      /\ \A i \in 1..Len(w) : w[i] = IF i <= Len(s) THEN s[i] ELSE b[i - Len(s)]
  BY ConcatProperties DEF Joined
<1>3. keep \in SUBSET (1..Len(w))
  BY <1>1, <1>2 DEF Undup
<1>4. \A i, j \in keep : w[i].id = w[j].id => i = j
  <2> SUFFICES ASSUME NEW i \in keep, NEW j \in keep, w[i].id = w[j].id PROVE i = j
    OBVIOUS
  <2>1. CASE i <= Len(s) /\ j <= Len(s)
    <3>1. i \in DOMAIN s /\ w[i] = s[i] /\ j \in DOMAIN s /\ w[j] = s[j]
      BY <1>1, <1>2, <1>3, <2>1
    <3> QED BY ONLY <3>1, DistinctIds(s), w[i].id = w[j].id DEF DistinctIds
  <2>2. CASE i > Len(s) /\ j > Len(s)
    <3>1. /\ i - Len(s) \in DOMAIN b /\ w[i] = b[i - Len(s)]
          /\ j - Len(s) \in DOMAIN b /\ w[j] = b[j - Len(s)]
      BY <1>1, <1>2, <1>3, <2>2
    <3>2. i - Len(s) = j - Len(s)
      BY <3>1 DEF DistinctIds
    <3> QED BY <1>1, <1>3, <3>2
  <2>3. ASSUME NEW x \in keep, NEW y \in keep, x <= Len(s), y > Len(s)
        PROVE  w[x].id # w[y].id
    <3>1. x \in DOMAIN s /\ w[x] = s[x] /\ w[y] = b[y - Len(s)]
      BY <1>1, <1>2, <1>3, <2>3
    <3>2. b[y - Len(s)].id \notin IdsOf(s)
      BY <2>3 DEF Undup
    <3>3. s[x].id \in IdsOf(s)
      BY <3>1 DEF IdsOf
    <3> QED BY ONLY <3>1, <3>2, <3>3
  <2>4. (i <= Len(s) \/ i > Len(s)) /\ (j <= Len(s) \/ j > Len(s))
    BY <1>1, <1>2, <1>3
  <2> QED
    BY ONLY <2>1, <2>2, <2>3, <2>4, i \in keep, j \in keep, w[i].id = w[j].id
<1>5. \A i \in keep : \/ \E j \in DOMAIN s : w[i] = s[j]
                      \/ \E j \in DOMAIN b : w[i] = b[j]
  BY <1>1, <1>2, <1>3 DEF Undup
<1>6. IdsAt(w, keep) \subseteq IdsOf(s) \cup IdsOf(b)
  BY <1>5 DEF IdsOf, IdsAt
<1>7. ASSUME NEW x \in IdsOf(s) PROVE x \in IdsAt(w, keep)
  <2>1. PICK i \in 1..Len(s) : x = s[i].id
    BY <1>1 DEF IdsOf
  <2>2. i \in keep /\ w[i] = s[i]
    BY <1>1, <1>2, <2>1 DEF Undup
  <2> QED BY <2>1, <2>2 DEF IdsAt
<1>8. ASSUME NEW x \in IdsOf(b), x \notin IdsOf(s) PROVE x \in IdsAt(w, keep)
  <2>1. PICK i \in 1..Len(b) : x = b[i].id
    BY <1>1 DEF IdsOf
  <2>2. Len(s) + i \in keep /\ w[Len(s) + i] = b[i]
    <3>1. Len(s) + i \in 1..Len(w) /\ (Len(s) + i) - Len(s) = i /\ ~ (Len(s) + i <= Len(s))
      BY <1>1, <1>2, <2>1
    <3> QED BY <1>1, <1>2, <1>8, <2>1, <3>1 DEF Undup
  <2> QED BY <2>1, <2>2 DEF IdsAt
<1>9. IdsAt(w, keep) = IdsOf(s) \cup IdsOf(b)
  BY <1>6, <1>7, <1>8
<1>10. w \in Seq(Message)
  BY <1>2
<1> QED
  BY ONLY <1>3, <1>4, <1>5, <1>9, <1>10

\* The stable sort of a deduplicated concatenation is well formed.
LEMMA SortWellFormed ==
  ASSUME NEW c \in Channel, NEW s \in Seq(Message), NEW b \in Seq(Message),
         DistinctIds(s), DistinctIds(b), InChannel(s, c), InChannel(b, c),
         NEW w, w = Joined(s, b), NEW keep, keep = Undup(s, b, IdsOf(s)),
         NEW t \in SortedByTime(w, keep)
  PROVE  t \in Seq(Message) /\ WellFormed(t, c) /\ IdsOf(t) = IdsOf(s) \cup IdsOf(b)
<1>1. w \in Seq(Message) /\ keep \in SUBSET (1..Len(w))
  BY UndupProperties
<1>2. \A i, j \in keep : w[i].id = w[j].id => i = j
  BY UndupProperties
<1>3. IdsAt(w, keep) = IdsOf(s) \cup IdsOf(b)
  BY UndupProperties
<1>4. \A i \in keep : w[i].channelId = c
  BY UndupProperties DEF InChannel
<1>5. Len(w) \in Nat /\ \A i \in keep : w[i].timestamp \in Int
  <2>1. Len(w) \in Nat /\ \A i \in 1..Len(w) : w[i] \in Message
    BY <1>1, ElementOfSeq
  <2>2. \A m \in Message : m.timestamp \in Int
    BY DEF Message, Time
  <2> QED BY <1>1, <2>1, <2>2
<1>6. PICK p \in Selections(keep) :
         /\ t = Pick(w, p)
         /\ \A i, j \in DOMAIN p : i < j =>
               \/ w[p[i]].timestamp < w[p[j]].timestamp
               \/ w[p[i]].timestamp = w[p[j]].timestamp /\ p[i] < p[j]
  BY DEF SortedByTime
<1>7. \A i, j \in DOMAIN p : p[i] = p[j] => i = j
  BY <1>1, <1>5, SelectionNumbers
<1>8. t \in Seq(Message)
  BY <1>1, <1>6, PickProperties
<1>9. DOMAIN t = DOMAIN p /\ \A i \in DOMAIN p : p[i] \in keep /\ t[i] = w[p[i]]
  BY <1>1, <1>6, PickProperties
<1>10. \A k \in keep : \E i \in DOMAIN t : t[i] = w[k]
  <2>1. \A k \in keep : \E i \in DOMAIN p : Pick(w, p)[i] = w[k]
    BY ONLY <1>1, p \in Selections(keep), PickProperties
  <2>2. t = Pick(w, p) /\ DOMAIN t = DOMAIN p
    BY <1>6, <1>9
  <2> QED BY ONLY <2>1, <2>2
<1>11. TimeOrdered(t)
  BY <1>5, <1>6, <1>9 DEF TimeOrdered
<1>12. DistinctIds(t)
  BY <1>2, <1>7, <1>9 DEF DistinctIds
<1>13. InChannel(t, c)
  BY <1>4, <1>9 DEF InChannel
<1>14. IdsOf(t) = IdsAt(w, keep)
  <2>1. ASSUME NEW i \in DOMAIN t PROVE t[i].id \in IdsAt(w, keep)
    BY <1>9 DEF IdsAt
  <2>2. ASSUME NEW k \in keep PROVE w[k].id \in IdsOf(t)
    BY <1>10 DEF IdsOf
  <2> QED BY ONLY <2>1, <2>2 DEF IdsOf, IdsAt
<1> QED
  BY <1>3, <1>8, <1>11, <1>12, <1>13, <1>14 DEF WellFormed

\* Filtering keeps the order: positions that were in order stay so.
LEMMA FilterWellFormed ==
  ASSUME NEW c \in Channel, NEW b \in Seq(Message), WellFormed(b, c),
         NEW keep \in SUBSET (1..Len(b)), NEW t \in Filtered(b, keep)
  PROVE  /\ t \in Seq(Message) /\ WellFormed(t, c)
         /\ IdsOf(t) = IdsAt(b, keep)
         /\ \A i \in DOMAIN t : \E k \in keep : t[i] = b[k]
<1>1. PICK p \in Selections(keep) :
         t = Pick(b, p) /\ \A i, j \in DOMAIN p : i < j => p[i] < p[j]
  BY DEF Filtered
<1>2. Len(b) \in Nat /\ DOMAIN b = 1..Len(b)
  BY LenProperties
<1>3. \A i, j \in DOMAIN p : p[i] = p[j] => i = j
  BY <1>2, SelectionNumbers
<1>4. t \in Seq(Message)
  BY <1>1, PickProperties
<1>5. DOMAIN t = DOMAIN p /\ \A i \in DOMAIN p : p[i] \in keep /\ t[i] = b[p[i]]
  BY <1>1, PickProperties
<1>6. \A k \in keep : \E i \in DOMAIN t : t[i] = b[k]
  <2>1. \A k \in keep : \E i \in DOMAIN p : Pick(b, p)[i] = b[k]
    BY ONLY b \in Seq(Message), keep \in SUBSET (1..Len(b)), p \in Selections(keep), PickProperties
  <2>2. t = Pick(b, p) /\ DOMAIN t = DOMAIN p
    BY <1>1, <1>5
  <2> QED BY ONLY <2>1, <2>2
<1>6a. \A i \in DOMAIN p : p[i] \in DOMAIN b
  BY <1>2, <1>5
<1>7. TimeOrdered(t)
  <2>1. TimeOrdered(b)
    BY DEF WellFormed
  <2> QED BY ONLY <1>1, <1>5, <1>6a, <2>1 DEF TimeOrdered
<1>8. DistinctIds(t)
  <2>1. DistinctIds(b)
    BY DEF WellFormed
  <2> QED BY ONLY <1>3, <1>5, <1>6a, <2>1 DEF DistinctIds
<1>9. InChannel(t, c)
  <2>1. InChannel(b, c)
    BY DEF WellFormed
  <2> QED BY ONLY <1>5, <1>6a, <2>1 DEF InChannel
<1>10. IdsOf(t) = IdsAt(b, keep)
  <2>1. ASSUME NEW i \in DOMAIN t PROVE t[i].id \in IdsAt(b, keep)
    BY <1>5 DEF IdsAt
  <2>2. ASSUME NEW k \in keep PROVE b[k].id \in IdsOf(t)
    BY <1>6 DEF IdsOf
  <2> QED BY ONLY <2>1, <2>2 DEF IdsOf, IdsAt
<1> QED
  BY <1>4, <1>5, <1>7, <1>8, <1>9, <1>10 DEF WellFormed

\* Concatenating well-formed arrays without a common id, the first one older.
LEMMA JoinWellFormed ==
  ASSUME NEW c \in Channel, NEW s \in Seq(Message), NEW t \in Seq(Message),
         WellFormed(s, c), WellFormed(t, c), IdsOf(s) \cap IdsOf(t) = {},
         \A i \in DOMAIN s, j \in DOMAIN t : s[i].timestamp <= t[j].timestamp
  PROVE  /\ Joined(s, t) \in Seq(Message) /\ WellFormed(Joined(s, t), c)
         /\ IdsOf(Joined(s, t)) = IdsOf(s) \cup IdsOf(t)
<1> DEFINE w == Joined(s, t)
<1>1. /\ Len(s) \in Nat /\ DOMAIN s = 1..Len(s)
      /\ Len(t) \in Nat /\ DOMAIN t = 1..Len(t)
  BY LenProperties
<1>2. w \in Seq(Message) /\ Len(w) = Len(s) + Len(t) /\ DOMAIN w = 1..(Len(s) + Len(t))
  BY ConcatProperties, LenProperties DEF Joined
<1>3. \A i \in DOMAIN w : \/ i \in DOMAIN s /\ w[i] = s[i]
                          \/ i > Len(s) /\ i - Len(s) \in DOMAIN t /\ w[i] = t[i - Len(s)]
  <2>1. \A i \in DOMAIN w : w[i] = IF i <= Len(s) THEN s[i] ELSE t[i - Len(s)]
    BY <1>2, ConcatProperties DEF Joined
  <2> HIDE DEF w
  <2> SUFFICES ASSUME NEW i \in DOMAIN w
               PROVE  \/ i \in DOMAIN s /\ w[i] = s[i]
                      \/ i > Len(s) /\ i - Len(s) \in DOMAIN t /\ w[i] = t[i - Len(s)]
    OBVIOUS
  <2>2. CASE i <= Len(s)
    BY ONLY i \in DOMAIN w, <1>1, <1>2, <2>1, <2>2
  <2>3. CASE i > Len(s)
    <3>1. i - Len(s) \in DOMAIN t /\ ~ (i <= Len(s))
      BY ONLY i \in DOMAIN w, <1>1, <1>2, <2>3
    <3> QED BY <2>1, <2>3, <3>1
  <2> QED BY ONLY i \in DOMAIN w, <1>1, <1>2, <2>2, <2>3
<1>4. \A i \in DOMAIN s : i \in DOMAIN w /\ w[i] = s[i]
  BY <1>1, <1>2, ConcatProperties DEF Joined
<1>5. \A i \in DOMAIN t : Len(s) + i \in DOMAIN w /\ w[Len(s) + i] = t[i]
  <2> SUFFICES ASSUME NEW i \in DOMAIN t PROVE Len(s) + i \in DOMAIN w /\ w[Len(s) + i] = t[i]
    OBVIOUS
  <2>1. /\ Len(s) + i \in 1..(Len(s) + Len(t))
        /\ (Len(s) + i) - Len(s) = i /\ ~ (Len(s) + i <= Len(s))
    BY <1>1
  <2> QED BY <1>2, <2>1, ConcatProperties DEF Joined
<1> HIDE DEF w
<1>6. TimeOrdered(w)
  <2> SUFFICES ASSUME NEW i \in DOMAIN w, NEW j \in DOMAIN w, i < j
               PROVE  w[i].timestamp <= w[j].timestamp
    BY DEF TimeOrdered
  <2>1. CASE i \in DOMAIN s /\ w[i] = s[i] /\ j \in DOMAIN s /\ w[j] = s[j]
    BY <2>1 DEF TimeOrdered, WellFormed
  <2>2. CASE i \in DOMAIN s /\ w[i] = s[i] /\ j - Len(s) \in DOMAIN t /\ w[j] = t[j - Len(s)]
    BY <2>2
  <2>3. CASE /\ i > Len(s) /\ i - Len(s) \in DOMAIN t /\ w[i] = t[i - Len(s)]
             /\ j - Len(s) \in DOMAIN t /\ w[j] = t[j - Len(s)]
    <3>1. i - Len(s) < j - Len(s)
      BY <1>1, <1>2
    <3> QED BY <2>3, <3>1 DEF TimeOrdered, WellFormed
  <2> QED BY <1>1, <1>2, <1>3, <2>1, <2>2, <2>3
<1>7. DistinctIds(w)
  <2> SUFFICES ASSUME NEW i \in DOMAIN w, NEW j \in DOMAIN w, i # j
               PROVE  w[i].id # w[j].id
    BY DEF DistinctIds
  <2>1. CASE i \in DOMAIN s /\ w[i] = s[i] /\ j \in DOMAIN s /\ w[j] = s[j]
    BY <2>1 DEF DistinctIds, WellFormed
  <2>2. CASE i \in DOMAIN s /\ w[i] = s[i] /\ j - Len(s) \in DOMAIN t /\ w[j] = t[j - Len(s)]
    BY <2>2 DEF IdsOf
  <2>3. CASE i - Len(s) \in DOMAIN t /\ w[i] = t[i - Len(s)] /\ j \in DOMAIN s /\ w[j] = s[j]
    BY <2>3 DEF IdsOf
  <2>4. CASE /\ i - Len(s) \in DOMAIN t /\ w[i] = t[i - Len(s)]
             /\ j - Len(s) \in DOMAIN t /\ w[j] = t[j - Len(s)]
    <3>1. i - Len(s) # j - Len(s)
      BY <1>1, <1>2
    <3> QED BY <2>4, <3>1 DEF DistinctIds, WellFormed
  <2> QED BY <1>3, <2>1, <2>2, <2>3, <2>4
<1>8. InChannel(w, c)
  BY <1>3 DEF InChannel, WellFormed
<1>9. IdsOf(w) = IdsOf(s) \cup IdsOf(t)
  <2>1. ASSUME NEW i \in DOMAIN w PROVE w[i].id \in IdsOf(s) \cup IdsOf(t)
    BY <1>3 DEF IdsOf
  <2>2. ASSUME NEW i \in DOMAIN s PROVE s[i].id \in IdsOf(w)
    BY <1>4 DEF IdsOf
  <2>3. ASSUME NEW i \in DOMAIN t PROVE t[i].id \in IdsOf(w)
    BY <1>5 DEF IdsOf
  <2> QED BY ONLY <2>1, <2>2, <2>3 DEF IdsOf
<1> QED
  BY ONLY <1>2, <1>6, <1>7, <1>8, <1>9 DEF WellFormed, w

\* Cutting a well-formed array in two: both parts are well formed and share its
\* ids between them.
LEMMA SplitWellFormed ==
  ASSUME NEW c \in Channel, NEW s \in Seq(Message), WellFormed(s, c), NEW k \in 0..Len(s),
         NEW lo, lo = Front(s, k), NEW hi, hi = Back(s, k)
  PROVE  /\ lo \in Seq(Message) /\ WellFormed(lo, c)
         /\ hi \in Seq(Message) /\ WellFormed(hi, c)
         /\ IdsOf(lo) \cap IdsOf(hi) = {}
         /\ IdsOf(lo) \cup IdsOf(hi) = IdsOf(s)
         /\ DOMAIN lo = 1..k /\ \A i \in 1..k : lo[i] = s[i]
         /\ DOMAIN hi = 1..(Len(s) - k) /\ \A i \in 1..(Len(s) - k) : hi[i] = s[k + i]
<1>1. Len(s) \in Nat /\ DOMAIN s = 1..Len(s) /\ k \in Nat /\ k <= Len(s)
  BY LenProperties
<1>2. /\ lo \in Seq(Message) /\ DOMAIN lo = 1..k
      /\ \A i \in 1..k : lo[i] = s[i] /\ i \in DOMAIN s
  BY <1>1, SubSeqProperties, LenProperties DEF Front
<1>3. /\ hi \in Seq(Message) /\ DOMAIN hi = 1..(Len(s) - k)
      /\ \A i \in 1..(Len(s) - k) : hi[i] = s[k + i] /\ k + i \in DOMAIN s
  BY <1>1, SubSeqProperties, LenProperties DEF Back
<1>4. WellFormed(lo, c)
  BY <1>1, <1>2 DEF WellFormed, TimeOrdered, DistinctIds, InChannel
<1>5. WellFormed(hi, c)
  <2>1. \A i, j \in 1..(Len(s) - k) : i < j => k + i < k + j
    BY <1>1
  <2>2. \A i, j \in 1..(Len(s) - k) : i # j => k + i # k + j
    BY <1>1
  <2>3. TimeOrdered(hi)
    <3> SUFFICES ASSUME NEW i \in DOMAIN hi, NEW j \in DOMAIN hi, i < j
                 PROVE  hi[i].timestamp <= hi[j].timestamp
      BY DEF TimeOrdered
    <3>1. /\ k + i \in DOMAIN s /\ k + j \in DOMAIN s /\ k + i < k + j
          /\ hi[i] = s[k + i] /\ hi[j] = s[k + j]
      BY ONLY i \in DOMAIN hi, j \in DOMAIN hi, i < j, <1>3, <2>1
    <3>2. TimeOrdered(s)
      BY DEF WellFormed
    <3> QED BY ONLY <3>1, <3>2 DEF TimeOrdered
  <2>4. DistinctIds(hi)
    <3> SUFFICES ASSUME NEW i \in DOMAIN hi, NEW j \in DOMAIN hi, i # j
                 PROVE  hi[i].id # hi[j].id
      BY DEF DistinctIds
    <3>1. /\ k + i \in DOMAIN s /\ k + j \in DOMAIN s /\ k + i # k + j
          /\ hi[i] = s[k + i] /\ hi[j] = s[k + j]
      BY ONLY i \in DOMAIN hi, j \in DOMAIN hi, i # j, <1>3, <2>2
    <3>2. DistinctIds(s)
      BY DEF WellFormed
    <3> QED BY ONLY <3>1, <3>2 DEF DistinctIds
  <2> QED BY <1>3, <2>3, <2>4 DEF WellFormed, InChannel
<1>6. IdsOf(lo) \cap IdsOf(hi) = {}
  <2>1. \A i \in 1..k, j \in 1..(Len(s) - k) : i # k + j
    BY <1>1
  <2>2. \A i \in DOMAIN lo, j \in DOMAIN hi : lo[i].id # hi[j].id
    <3> SUFFICES ASSUME NEW i \in DOMAIN lo, NEW j \in DOMAIN hi PROVE lo[i].id # hi[j].id
      OBVIOUS
    <3>1. /\ i \in DOMAIN s /\ k + j \in DOMAIN s /\ i # k + j
          /\ lo[i] = s[i] /\ hi[j] = s[k + j]
      BY ONLY i \in DOMAIN lo, j \in DOMAIN hi, <1>2, <1>3, <2>1
    <3>2. DistinctIds(s)
      BY DEF WellFormed
    <3> QED BY ONLY <3>1, <3>2 DEF DistinctIds
  <2> QED BY ONLY <2>2 DEF IdsOf
<1>7. IdsOf(lo) \cup IdsOf(hi) = IdsOf(s)
  <2>1. ASSUME NEW i \in DOMAIN lo PROVE lo[i].id \in IdsOf(s)
    BY <1>2 DEF IdsOf
  <2>2. ASSUME NEW i \in DOMAIN hi PROVE hi[i].id \in IdsOf(s)
    BY <1>3 DEF IdsOf
  <2>3. ASSUME NEW i \in DOMAIN s PROVE s[i].id \in IdsOf(lo) \cup IdsOf(hi)
    <3>1. CASE i <= k
      BY <1>1, <1>2, <3>1 DEF IdsOf
    <3>2. CASE i > k
      <4>1. i - k \in 1..(Len(s) - k) /\ k + (i - k) = i
        BY <1>1, <3>2
      <4> QED BY <1>3, <4>1 DEF IdsOf
    <3> QED BY <1>1, <3>1, <3>2
  <2> QED BY ONLY <2>1, <2>2, <2>3 DEF IdsOf
<1> QED
  BY <1>2, <1>3, <1>4, <1>5, <1>6, <1>7

\* A batch from other code is a well-formed array of its channel.
LEMMA SuppliedWellFormed ==
  ASSUME NEW c \in Channel, NEW b \in Supplied(c)
  PROVE  b \in Seq(Message) /\ WellFormed(b, c)
<1>1. PICK h \in Start, e \in Entries : b = Linked(c, h, e)
  BY DEF Supplied
<1>2. PICK n \in 1..MaxBatch :
         /\ e \in [1..n -> Id \X Time]
         /\ \A i, j \in 1..n : i < j => e[i][1] # e[j][1] /\ e[i][2] <= e[j][2]
  BY DEF Entries
<1>3. n \in Nat /\ e \in Seq(Id \X Time) /\ Len(e) = n /\ h \in Seq(Id \X Time)
  BY <1>2, ConstantsAssumption, SeqDef, LenProperties DEF Hash
<1>4. \A i \in 1..n : e[i][1] \in Id /\ e[i][2] \in Time
  BY <1>2
<1>5. ASSUME NEW i \in 1..n PROVE h \o SubSeq(e, 1, i - 1) \in Hash
  <2>1. SubSeq(e, 1, i - 1) \in Seq(Id \X Time)
    BY <1>3, SubSeqProperties
  <2> QED BY <1>3, <2>1, ConcatProperties DEF Hash
<1>6. DOMAIN b = 1..n
  BY <1>1, <1>2 DEF Linked
<1>7. \A i \in 1..n : /\ b[i].id = e[i][1] /\ b[i].timestamp = e[i][2]
                      /\ b[i].channelId = c /\ b[i] \in Message
  BY <1>1, <1>2, <1>4, <1>5 DEF Linked, Message
<1>8. b \in [1..n -> Message]
  BY <1>1, <1>2, <1>6, <1>7 DEF Linked
<1>9. b \in Seq(Message)
  BY <1>3, <1>8, SeqDef
<1>10. TimeOrdered(b)
  BY <1>2, <1>6, <1>7 DEF TimeOrdered
<1>11. DistinctIds(b)
  <2> SUFFICES ASSUME NEW i \in 1..n, NEW j \in 1..n, i # j PROVE e[i][1] # e[j][1]
    BY <1>6, <1>7 DEF DistinctIds
  <2>1. i < j \/ j < i
    BY <1>3
  <2> QED BY <1>2, <2>1
<1> QED
  BY <1>6, <1>7, <1>9, <1>10, <1>11 DEF WellFormed, InChannel

-----------------------------------------------------------------------------
(* Type correctness, whether calls overlap or not.                         *)

\* What the program counter says about the other fields of a call.
LEMMA CallFields ==
  ASSUME NEW r \in CallType
  PROVE  /\ r.pc = "creating" => r.channelId \in Channel /\ r.prevHash \in Hash
         /\ r.pc = "created" => r.msg \in Message
         /\ r.pc = "verifying" => r.msg \in Message /\ r.last \in Message /\ r.attached \in BOOLEAN
         /\ r.pc = "importing" => r.channelId \in Channel /\ r.batch \in Seq(Message)
         /\ r.pc = "loading" => r.channelId \in Channel /\ r.before \in Time
  BY DEF CallType, Settled

LEMMA MessageFields ==
  ASSUME NEW m \in Message
  PROVE  /\ m.id \in Id /\ m.channelId \in Channel /\ m.timestamp \in Time /\ m.timestamp \in Int
         /\ m.prevHash \in Hash /\ hashMessage(m) \in Hash
<1>1. m.id \in Id /\ m.channelId \in Channel /\ m.timestamp \in Time /\ m.prevHash \in Hash
  BY DEF Message
<1>2. <<m.id, m.timestamp>> \in Id \X Time
  BY <1>1
<1>3. hashMessage(m) \in Hash
  BY <1>1, <1>2, AppendProperties DEF hashMessage, Hash
<1> QED BY <1>1, <1>3 DEF Time

\* A non-empty array has a last message.
LEMMA LastMessage ==
  ASSUME NEW s \in Seq(Message), s # <<>>
  PROVE  Len(s) \in Nat /\ Len(s) >= 1 /\ Len(s) \in DOMAIN s /\ s[Len(s)] \in Message
  BY ElementOfSeq, LenProperties, EmptySeq

LEMMA IdsOfType ==
  ASSUME NEW s \in Seq(Message) PROVE IdsOf(s) \in SUBSET Id
<1>1. \A i \in DOMAIN s : s[i] \in Message
  BY ElementOfSeq, LenProperties
<1> QED BY <1>1 DEF IdsOf, Message

\* Replacing an array keeps the calls well typed.
LEMMA DetachedType ==
  ASSUME NEW f \in [Caller -> CallType], NEW C
  PROVE  Detached(f, C) \in [Caller -> CallType]
<1> SUFFICES ASSUME NEW d \in Caller, f[d].pc = "verifying"
             PROVE  [f[d] EXCEPT !.attached = FALSE] \in CallType
  BY DEF Detached
<1>1. f[d] \in [pc : {"verifying"}, msg : Message, last : Message, attached : BOOLEAN]
  BY DEF CallType, Settled
<1>2. [f[d] EXCEPT !.attached = FALSE] \in [pc : {"verifying"}, msg : Message, last : Message, attached : BOOLEAN]
  BY <1>1
<1> QED BY <1>2 DEF CallType

LEMMA PushType ==
  ASSUME TypeOK, NEW m \in Message, Push(m)
  PROVE  channels' \in [Channel -> Seq(Message)] /\ channelIdSets' \in [Channel -> SUBSET Id]
<1>1. m.id \in Id /\ m.channelId \in Channel
  BY MessageFields
<1>2. Append(channels[m.channelId], m) \in Seq(Message)
  BY <1>1, AppendProperties DEF TypeOK
<1> QED BY <1>1, <1>2 DEF TypeOK, Push

LEMMA BeginAddType ==
  ASSUME TypeOK, NEW d \in Caller, NEW m \in Message, BeginAdd(d, m)
  PROVE  TypeOK'
<1> DEFINE s == channels[m.channelId]
<1>1. m.channelId \in Channel /\ s \in Seq(Message)
  BY MessageFields DEF TypeOK
<1>2. [pc |-> "idle"] \in CallType /\ [pc |-> "added"] \in CallType
  BY DEF CallType, Settled
<1>3. CASE UNCHANGED <<channels, channelIdSets>> /\ call' = [call EXCEPT ![d] = [pc |-> "idle"]]
  BY <1>2, <1>3 DEF TypeOK
<1>4. CASE Push(m) /\ call' = [call EXCEPT ![d] = [pc |-> "added"]]
  BY <1>2, <1>4, PushType DEF TypeOK
<1>5. CASE /\ s # <<>> /\ UNCHANGED <<channels, channelIdSets>>
           /\ call' = [call EXCEPT ![d] = [pc |-> "verifying", msg |-> m,
                                           last |-> s[Len(s)], attached |-> TRUE]]
  <2>1. s[Len(s)] \in Message
    BY <1>1, <1>5, LastMessage
  <2>2. [pc |-> "verifying", msg |-> m, last |-> s[Len(s)], attached |-> TRUE] \in CallType
    BY <2>1 DEF CallType
  <2> QED BY <1>5, <2>2 DEF TypeOK
<1> QED BY <1>3, <1>4, <1>5 DEF BeginAdd

\* Joining arrays of messages gives one, in whatever order they are arranged.
LEMMA SortedType ==
  ASSUME NEW s \in Seq(Message), NEW b \in Seq(Message), NEW ids,
         NEW t \in SortedByTime(s \o b, Undup(s, b, ids))
  PROVE  t \in Seq(Message)
<1>1. s \o b \in Seq(Message) /\ Len(s \o b) = Len(s) + Len(b)
  BY ConcatProperties
<1>2. Undup(s, b, ids) \in SUBSET (1..Len(s \o b))
  BY <1>1 DEF Undup
<1>3. PICK p \in Selections(Undup(s, b, ids)) : t = Pick(s \o b, p)
  BY DEF SortedByTime
<1> QED BY <1>1, <1>2, <1>3, PickProperties

\* The array of oldId with its messages renamed to newId.
Renamed(s, c) == [i \in DOMAIN s |-> [s[i] EXCEPT !.channelId = c]]

LEMMA RenamedProperties ==
  ASSUME NEW s \in Seq(Message), NEW c \in Channel
  PROVE  /\ Renamed(s, c) \in Seq(Message)
         /\ InChannel(Renamed(s, c), c)
         /\ DistinctIds(s) => DistinctIds(Renamed(s, c))
<1>1. Len(s) \in Nat /\ DOMAIN s = 1..Len(s) /\ \A i \in DOMAIN s : s[i] \in Message
  BY ElementOfSeq, LenProperties
<1>2. \A m \in Message : /\ [m EXCEPT !.channelId = c] \in Message
                         /\ [m EXCEPT !.channelId = c].channelId = c
                         /\ [m EXCEPT !.channelId = c].id = m.id
  BY DEF Message
<1>3. Renamed(s, c) \in [1..Len(s) -> Message]
  BY <1>1, <1>2 DEF Renamed
<1>4. Renamed(s, c) \in Seq(Message)
  BY <1>1, <1>3, SeqDef
<1>5. /\ DOMAIN Renamed(s, c) = DOMAIN s
      /\ \A i \in DOMAIN s : Renamed(s, c)[i].id = s[i].id /\ Renamed(s, c)[i].channelId = c
  BY <1>1, <1>2 DEF Renamed
<1> QED BY <1>4, <1>5 DEF InChannel, DistinctIds

\* Every array holds messages, every id set ids, and every call what its program
\* counter says, under any interleaving of calls.
THEOREM TypeCorrect == Spec => []TypeOK
<1>1. Init => TypeOK
  BY EmptySeq DEF Init, TypeOK, Idle, CallType, Settled
<1>2. TypeOK /\ [Next]_vars => TypeOK'
  <2> SUFFICES ASSUME TypeOK, [Next]_vars PROVE TypeOK'
    OBVIOUS
  <2>0. /\ \A c \in Channel : channels[c] \in Seq(Message) /\ channelIdSets[c] \in SUBSET Id
        /\ \A d \in Caller : call[d] \in CallType
    BY DEF TypeOK
  <2>id. Idle \in CallType
    BY DEF Idle, CallType, Settled
  <2>1. ASSUME NEW d \in Caller, CreateFinish(d) PROVE TypeOK'
    <3>1. PICK i \in Id, t \in Time :
            call' = [call EXCEPT ![d] =
                       [pc |-> "created",
                        msg |-> [id |-> i, channelId |-> call[d].channelId,
                                 timestamp |-> t, prevHash |-> call[d].prevHash]]]
      BY <2>1 DEF CreateFinish
    <3>2. call[d].channelId \in Channel /\ call[d].prevHash \in Hash
      BY <2>0, <2>1, CallFields DEF CreateFinish
    <3>3. [pc |-> "created", msg |-> [id |-> i, channelId |-> call[d].channelId,
              timestamp |-> t, prevHash |-> call[d].prevHash]] \in CallType
      BY <3>2 DEF CallType, Message
    <3> QED BY <2>1, <3>1, <3>3 DEF CreateFinish, TypeOK
  <2>2. ASSUME NEW d \in Caller, AddCreated(d) PROVE TypeOK'
    BY <2>0, <2>2, CallFields, BeginAddType DEF AddCreated
  <2>3. ASSUME NEW d \in Caller, NEW i \in Id, NEW t \in Time, AddReceived(d, i, t) PROVE TypeOK'
    <3>1. PICK u \in Time : BeginAdd(d, [call[d].msg EXCEPT !.id = i, !.timestamp = u])
      BY <2>3 DEF AddReceived
    <3>2. call[d].msg \in Message
      BY <2>0, <2>3, CallFields DEF AddReceived
    <3>3. [call[d].msg EXCEPT !.id = i, !.timestamp = u] \in Message
      BY <3>2 DEF Message
    <3> QED BY <3>1, <3>3, BeginAddType
  <2>4. ASSUME NEW d \in Caller, AddFinish(d) PROVE TypeOK'
    <3>1. call[d].msg \in Message
      BY <2>0, <2>4, CallFields DEF AddFinish
    <3>2. /\ channels' \in [Channel -> Seq(Message)]
          /\ channelIdSets' \in [Channel -> SUBSET Id]
      BY <2>4, <3>1, PushType DEF AddFinish, TypeOK
    <3>3. PICK r \in {"added", "idle"} : call' = [call EXCEPT ![d] = [pc |-> r]]
      BY <2>4 DEF AddFinish
    <3>4. [pc |-> r] \in CallType
      BY DEF CallType, Settled
    <3> QED BY <3>2, <3>3, <3>4 DEF TypeOK
  <2>5. ASSUME NEW d \in Caller, ImportFinish(d) PROVE TypeOK'
    <3>1. call[d].channelId \in Channel /\ call[d].batch \in Seq(Message)
      BY <2>0, <2>5, CallFields DEF ImportFinish
    <3>2. [call EXCEPT ![d] = Idle] \in [Caller -> CallType]
      BY <2>id DEF TypeOK
    <3>3. CASE Replace(call[d].channelId, call[d].batch, [call EXCEPT ![d] = Idle])
      BY <3>1, <3>2, <3>3, DetachedType, IdsOfType DEF Replace, TypeOK
    <3>4. CASE UNCHANGED <<channels, channelIdSets>> /\ call' = [call EXCEPT ![d] = Idle]
      BY <3>2, <3>4 DEF TypeOK
    <3> QED BY <2>5, <3>3, <3>4 DEF ImportFinish
  <2>6. ASSUME NEW d \in Caller, LoadedNothing(d) PROVE TypeOK'
    BY <2>6, <2>id DEF LoadedNothing, TypeOK
  <2>7. ASSUME NEW d \in Caller, NEW c \in Channel, CreateMessage(d, c) PROVE TypeOK'
    <3>1. GENESIS_HASH \in Hash
      BY EmptySeq DEF GENESIS_HASH, Hash
    <3>2. channels[c] # <<>> => hashMessage(channels[c][Len(channels[c])]) \in Hash
      BY <2>0, LastMessage, MessageFields
    <3>3. PICK h \in Hash : call' = [call EXCEPT ![d] = [pc |-> "creating", channelId |-> c, prevHash |-> h]]
      BY <2>7, <3>1, <3>2 DEF CreateMessage
    <3>4. [pc |-> "creating", channelId |-> c, prevHash |-> h] \in CallType
      BY DEF CallType
    <3> QED BY <2>7, <3>3, <3>4 DEF CreateMessage, TypeOK
  <2>8. ASSUME NEW d \in Caller, NEW c \in Channel, LoadOlder(d, c) PROVE TypeOK'
    <3>1. channels[c] # <<>> => channels[c][1].timestamp \in Time
      <4>1. channels[c] # <<>> => channels[c][1] \in Message
        BY <2>0, ElementOfSeq, EmptySeq
      <4> QED BY <4>1, MessageFields
    <3>2. PICK t \in Time : call' = [call EXCEPT ![d] = [pc |-> "loading", channelId |-> c, before |-> t]]
      BY <2>8, <3>1 DEF LoadOlder
    <3>3. [pc |-> "loading", channelId |-> c, before |-> t] \in CallType
      BY DEF CallType
    <3> QED BY <2>8, <3>2, <3>3 DEF LoadOlder, TypeOK
  <2>9. ASSUME NEW d \in Caller, NEW c \in Channel, NEW b \in Supplied(c), AddWire(d, c, b) PROVE TypeOK'
    <3>1. b \in Seq(Message) /\ Len(b) = 1
      BY <2>9, SuppliedWellFormed DEF AddWire
    <3>2. b[1] \in Message
      BY <3>1, ElementOfSeq
    <3> QED BY <2>9, <3>2, BeginAddType DEF AddWire
  <2>10. ASSUME NEW d \in Caller, NEW c \in Channel, NEW b \in Supplied(c), ImportMessages(d, c, b) PROVE TypeOK'
    <3>1. [pc |-> "importing", channelId |-> c, batch |-> b] \in CallType
      BY SuppliedWellFormed DEF CallType
    <3> QED BY <2>10, <3>1 DEF ImportMessages, TypeOK
  <2>11. ASSUME NEW d \in Caller, NEW b, PrependMessages(d, b) PROVE TypeOK'
    <3> DEFINE c == call[d].channelId
               keep == {i \in DOMAIN b : b[i].id \notin channelIdSets[c]}
    <3>1. c \in Channel /\ b \in Supplied(c)
      BY <2>0, <2>11, CallFields DEF PrependMessages
    <3>2. b \in Seq(Message) /\ DOMAIN b = 1..Len(b)
      BY <3>1, SuppliedWellFormed, LenProperties
    <3>3. PICK fresh \in Filtered(b, keep) : channels' = [channels EXCEPT ![c] = fresh \o channels[c]]
      BY <2>11 DEF PrependMessages
    <3>4. fresh \in Seq(Message)
      BY <3>1, <3>2, SuppliedWellFormed, FilterWellFormed
    <3>5. fresh \o channels[c] \in Seq(Message)
      BY <2>0, <3>1, <3>4, ConcatProperties
    <3>6. channelIdSets' \in [Channel -> SUBSET Id]
      BY <2>11, <3>1, <3>2, IdsOfType DEF PrependMessages, TypeOK
    <3>7. call' \in [Caller -> CallType]
      BY <2>11, <2>id DEF PrependMessages, TypeOK
    <3> QED BY <3>1, <3>3, <3>5, <3>6, <3>7 DEF TypeOK
  <2>12. ASSUME NEW c \in Channel, NEW b \in Supplied(c), ImportMetadata(c, b) PROVE TypeOK'
    BY <2>12, SuppliedWellFormed, DetachedType, IdsOfType DEF ImportMetadata, Replace, TypeOK
  <2>13. ASSUME NEW c \in Channel, NEW b \in Supplied(c), ForceAdd(c, b) PROVE TypeOK'
    <3>1. b \in Seq(Message) /\ Len(b) = 1
      BY <2>13, SuppliedWellFormed DEF ForceAdd
    <3>2. b[1] \in Message /\ b[1].id \in Id
      BY <3>1, ElementOfSeq, MessageFields
    <3>3. PICK k \in 0..Len(channels[c]) :
            channels' = [channels EXCEPT ![c] =
               SubSeq(channels[c], 1, k) \o b \o SubSeq(channels[c], k + 1, Len(channels[c]))]
      BY <2>13 DEF ForceAdd, upperBoundTimestamp
    <3>4. Len(channels[c]) \in Nat
      BY <2>0, LenProperties
    <3>5. SubSeq(channels[c], 1, k) \in Seq(Message) /\ SubSeq(channels[c], k + 1, Len(channels[c])) \in Seq(Message)
      BY <2>0, <3>4, SubSeqProperties
    <3>6. SubSeq(channels[c], 1, k) \o b \o SubSeq(channels[c], k + 1, Len(channels[c])) \in Seq(Message)
      BY <3>1, <3>5, ConcatProperties
    <3> QED BY <2>13, <3>2, <3>3, <3>6 DEF ForceAdd, TypeOK
  <2>14. ASSUME NEW c \in Channel, NEW b \in Supplied(c), BulkAdd(c, b) PROVE TypeOK'
    <3>1. b \in Seq(Message)
      BY SuppliedWellFormed
    <3>2. PICK s \in SortedByTime(channels[c] \o b, Undup(channels[c], b, channelIdSets[c])) :
            channels' = [channels EXCEPT ![c] = s]
      BY <2>14 DEF BulkAdd
    <3>3. s \in Seq(Message)
      BY <2>0, <3>1, SortedType
    <3> QED BY <2>14, <3>1, <3>2, <3>3, IdsOfType DEF BulkAdd, TypeOK
  <2>15. ASSUME NEW c \in Channel, NEW newId \in Channel, RemapChannel(c, newId) PROVE TypeOK'
    <3> DEFINE b == Renamed(channels[c], newId)
    <3>1. b \in Seq(Message)
      BY <2>0, RenamedProperties
    <3>2. PICK t \in SortedByTime(channels[newId] \o b, Undup(channels[newId], b, channelIdSets[newId])) :
            /\ channels' = [channels EXCEPT ![newId] = t, ![c] = <<>>]
            /\ channelIdSets' = [channelIdSets EXCEPT ![newId] = IdsOf(t), ![c] = {}]
      BY <2>15 DEF RemapChannel, Renamed
    <3>3. t \in Seq(Message) /\ <<>> \in Seq(Message)
      BY <2>0, <3>1, SortedType, EmptySeq
    <3>4. channels' \in [Channel -> Seq(Message)] /\ channelIdSets' \in [Channel -> SUBSET Id]
      BY <3>2, <3>3, IdsOfType DEF TypeOK
    <3>5. call' \in [Caller -> CallType]
      BY <2>15, DetachedType DEF RemapChannel, TypeOK
    <3> QED BY <3>4, <3>5 DEF TypeOK
  <2>16. ASSUME NEW c \in Channel, NEW maxSize \in 0..MaxLen, TrimChannel(c, maxSize) PROVE TypeOK'
    <3>1. Len(channels[c]) \in Nat /\ maxSize \in Nat /\ Len(channels[c]) > maxSize
      BY <2>0, <2>16, LenProperties, ConstantsAssumption DEF TrimChannel
    <3>2. SubSeq(channels[c], Len(channels[c]) - maxSize + 1, Len(channels[c])) \in Seq(Message)
      BY <2>0, <3>1, SubSeqProperties
    <3> QED BY <2>16, <3>2 DEF TrimChannel, TypeOK
  <2>17. ASSUME NEW c \in Channel, ClearChannel(c) PROVE TypeOK'
    BY <2>17, DetachedType, EmptySeq DEF ClearChannel, TypeOK
  <2>18. CASE UNCHANGED vars
    BY <2>18 DEF vars, TypeOK
  <2> QED
    BY <2>1, <2>2, <2>3, <2>4, <2>5, <2>6, <2>7, <2>8, <2>9, <2>10, <2>11, <2>12, <2>13,
       <2>14, <2>15, <2>16, <2>17, <2>18 DEF Next, CallStep, SyncStep
<1> QED
  BY <1>1, <1>2, PTL DEF Spec

-----------------------------------------------------------------------------
(* The store's own invariants, when calls do not overlap.  They are not    *)
(* inductive by themselves: what an addMessage or a scroll-back read before *)
(* its await must still be true of the channel after it, and that follows  *)
(* from no second call being in progress.                                  *)

StoreOK(c) == WellFormed(channels[c], c) /\ channelIdSets[c] = IdsOf(channels[c])

CallOK(d) ==
    /\ call[d].pc = "verifying" =>
         LET m == call[d].msg
             s == channels[m.channelId]
         IN  /\ call[d].attached
             /\ s # <<>> /\ call[d].last = s[Len(s)]
             /\ m.id \notin IdsOf(s)
    /\ call[d].pc = "importing" => WellFormed(call[d].batch, call[d].channelId)
    /\ call[d].pc = "loading" =>
         \A i \in DOMAIN channels[call[d].channelId] :
            call[d].before <= channels[call[d].channelId][i].timestamp

Exclusive == \A d, e \in Caller : d # e => call[d].pc \in Settled \/ call[e].pc \in Settled

SerialInv ==
    /\ TypeOK
    /\ \A c \in Channel : StoreOK(c)
    /\ \A d \in Caller : CallOK(d)
    /\ Exclusive

\* After a step with one call in progress and the others settled, nothing is
\* asked of the others.
LEMMA OneInProgress ==
  ASSUME NEW d \in Caller, \A e \in Caller : e # d => call'[e].pc \in Settled, CallOK(d)'
  PROVE  Exclusive' /\ \A e \in Caller : CallOK(e)'
<1>1. ASSUME NEW e \in Caller, e # d PROVE CallOK(e)'
  BY <1>1 DEF CallOK, Settled
<1> QED BY <1>1 DEF Exclusive

\* A step that gives one channel a well-formed array with its ids.
LEMMA OneChannel ==
  ASSUME TypeOK, \A c \in Channel : StoreOK(c), NEW c0 \in Channel, NEW s, NEW ids,
         WellFormed(s, c0), ids = IdsOf(s),
         channels' = [channels EXCEPT ![c0] = s],
         channelIdSets' = [channelIdSets EXCEPT ![c0] = ids]
  PROVE  \A c \in Channel : StoreOK(c)'
  BY DEF StoreOK, TypeOK

\* Nothing awaits while a synchronous operation replaces arrays.
LEMMA NothingToDetach ==
  ASSUME NEW f \in [Caller -> CallType], NEW C, \A d \in Caller : f[d].pc \in Settled
  PROVE  Detached(f, C) = f
<1>1. \A d \in Caller : f[d].pc # "verifying"
  BY DEF Settled
<1> QED BY <1>1 DEF Detached

LEMMA EmptyWellFormed ==
  ASSUME NEW c PROVE WellFormed(<<>>, c) /\ IdsOf(<<>>) = {}
  BY DEF WellFormed, TimeOrdered, DistinctIds, InChannel, IdsOf

\* One message, as an array.
LEMMA SingletonWellFormed ==
  ASSUME NEW m \in Message
  PROVE  /\ <<m>> \in Seq(Message) /\ WellFormed(<<m>>, m.channelId) /\ IdsOf(<<m>>) = {m.id}
         /\ DOMAIN <<m>> = {1} /\ <<m>>[1] = m
  BY DEF WellFormed, TimeOrdered, DistinctIds, InChannel, IdsOf

\* Appending a message that is new and not older than the last one.
LEMMA PushWellFormed ==
  ASSUME TypeOK, \A c \in Channel : StoreOK(c), NEW m \in Message, Push(m),
         m.id \notin IdsOf(channels[m.channelId]),
         LET s == channels[m.channelId] IN s # <<>> => s[Len(s)].timestamp <= m.timestamp
  PROVE  \A c \in Channel : StoreOK(c)'
<1> DEFINE c == m.channelId
           s == channels[c]
           one == <<m>>
<1>1. c \in Channel /\ s \in Seq(Message) /\ WellFormed(s, c) /\ channelIdSets[c] = IdsOf(s)
  BY MessageFields DEF TypeOK, StoreOK
<1>2. /\ one \in Seq(Message) /\ WellFormed(one, c) /\ IdsOf(one) = {m.id}
      /\ DOMAIN one = {1} /\ one[1] = m
  BY SingletonWellFormed
<1>2a. Joined(s, one) = Append(s, m)
  BY <1>1, AppendIsConcat DEF Joined
<1> HIDE DEF one
<1>3. \A i \in DOMAIN s, j \in DOMAIN one : s[i].timestamp <= one[j].timestamp
  <2> SUFFICES ASSUME NEW i \in DOMAIN s PROVE s[i].timestamp <= m.timestamp
    BY <1>2
  <2>1. s # <<>> /\ Len(s) \in Nat /\ DOMAIN s = 1..Len(s) /\ \A k \in DOMAIN s : s[k] \in Message
    BY <1>1, ElementOfSeq, LenProperties
  <2>2. \A k \in DOMAIN s : s[k].timestamp \in Int
    BY <2>1, MessageFields
  <2>3. Len(s) \in DOMAIN s /\ (i = Len(s) \/ i < Len(s))
    BY <2>1
  <2>4. s[i].timestamp <= s[Len(s)].timestamp
    BY <1>1, <2>2, <2>3 DEF WellFormed, TimeOrdered
  <2>5. s[Len(s)].timestamp <= m.timestamp
    BY <2>1
  <2>6. m.timestamp \in Int
    BY MessageFields
  <2> QED BY <2>2, <2>3, <2>4, <2>5, <2>6
<1>4. IdsOf(s) \cap IdsOf(one) = {}
  BY <1>2
<1>5. WellFormed(Joined(s, one), c) /\ IdsOf(Joined(s, one)) = IdsOf(s) \cup {m.id}
  BY <1>1, <1>2, <1>3, <1>4, JoinWellFormed
<1>7. WellFormed(Append(s, m), c) /\ IdsOf(s) \cup {m.id} = IdsOf(Append(s, m))
  BY <1>2a, <1>5
<1>8. /\ channels' = [channels EXCEPT ![c] = Append(s, m)]
      /\ channelIdSets' = [channelIdSets EXCEPT ![c] = IdsOf(s) \cup {m.id}]
  BY <1>1 DEF Push
<1> HIDE DEF s, c
<1> QED BY ONLY TypeOK, \A x \in Channel : StoreOK(x), <1>1, <1>7, <1>8, OneChannel

\* The first half of addMessage: either it settles, or it leaves the call with
\* what it read from the channel.
LEMMA BeginAddSafe ==
  ASSUME SerialInv, NEW d \in Caller, \A e \in Caller : e # d => call[e].pc \in Settled,
         NEW m \in Message, BeginAdd(d, m), TypeOK'
  PROVE  SerialInv'
<1> DEFINE s == channels[m.channelId]
<1>1. m.channelId \in Channel /\ s \in Seq(Message) /\ channelIdSets[m.channelId] = IdsOf(s)
  BY MessageFields DEF SerialInv, TypeOK, StoreOK
<1>2. call \in [Caller -> CallType]
  BY DEF SerialInv, TypeOK
<1>3. CASE UNCHANGED <<channels, channelIdSets>> /\ call' = [call EXCEPT ![d] = [pc |-> "idle"]]
  <2>1. call'[d].pc = "idle" /\ \A e \in Caller : e # d => call'[e].pc \in Settled
    BY <1>2, <1>3
  <2>2. CallOK(d)'
    BY <2>1 DEF CallOK
  <2>3. \A c \in Channel : StoreOK(c)'
    BY <1>3 DEF SerialInv, StoreOK
  <2> QED BY <2>1, <2>2, <2>3, OneInProgress DEF SerialInv
<1>4. CASE /\ m.id \notin channelIdSets[m.channelId] /\ s = <<>>
           /\ Push(m) /\ call' = [call EXCEPT ![d] = [pc |-> "added"]]
  <2>1. call'[d].pc = "added" /\ \A e \in Caller : e # d => call'[e].pc \in Settled
    BY <1>2, <1>4
  <2>2. CallOK(d)'
    BY <2>1 DEF CallOK
  <2>3. \A c \in Channel : StoreOK(c)'
    BY <1>1, <1>4, PushWellFormed DEF SerialInv
  <2> QED BY <2>1, <2>2, <2>3, OneInProgress DEF SerialInv
<1>5. CASE /\ m.id \notin channelIdSets[m.channelId]
           /\ s # <<>> /\ UNCHANGED <<channels, channelIdSets>>
           /\ call' = [call EXCEPT ![d] = [pc |-> "verifying", msg |-> m,
                                           last |-> s[Len(s)], attached |-> TRUE]]
  <2>1. /\ call'[d] = [pc |-> "verifying", msg |-> m, last |-> s[Len(s)], attached |-> TRUE]
        /\ \A e \in Caller : e # d => call'[e].pc \in Settled
    BY <1>2, <1>5
  <2>2. CallOK(d)'
    BY <1>1, <1>5, <2>1 DEF CallOK
  <2>3. \A c \in Channel : StoreOK(c)'
    BY <1>5 DEF SerialInv, StoreOK
  <2> QED BY <2>1, <2>2, <2>3, OneInProgress DEF SerialInv
<1> QED BY <1>3, <1>4, <1>5 DEF BeginAdd

\* forceAdd: inserting one message where the binary search ends keeps the order.
LEMMA InsertWellFormed ==
  ASSUME NEW c \in Channel, NEW s \in Seq(Message), NEW b \in Seq(Message),
         WellFormed(s, c), WellFormed(b, c), Len(b) = 1, b[1].id \notin IdsOf(s),
         NEW k \in upperBoundTimestamp(s, b[1].timestamp),
         NEW w, w = Joined(Joined(Front(s, k), b), Back(s, k))
  PROVE  WellFormed(w, c) /\ IdsOf(s) \cup {b[1].id} = IdsOf(w)
<1>1. PICK t : t = b[1].timestamp
  OBVIOUS
<1>2. DOMAIN b = {1} /\ b[1] \in Message
  <2>1. DOMAIN b = 1..1 /\ b[1] \in Message
    BY ONLY b \in Seq(Message), Len(b) = 1, ElementOfSeq, LenProperties
  <2>2. 1..1 = {1}
    OBVIOUS
  <2> QED BY ONLY <2>1, <2>2
<1>3. t \in Int /\ IdsOf(b) = {b[1].id}
  BY <1>1, <1>2, MessageFields DEF IdsOf
<1>4. PICK lo : lo = Front(s, k)
  OBVIOUS
<1>5. PICK hi : hi = Back(s, k)
  OBVIOUS
<1>6. PICK v : v = Joined(lo, b)
  OBVIOUS
<1>7. w = Joined(v, hi)
  BY <1>4, <1>5, <1>6
<1>8. /\ k \in 0..Len(s) /\ Len(s) \in Nat /\ DOMAIN s = 1..Len(s)
      /\ k > 0 => s[k].timestamp <= t
      /\ k < Len(s) => s[k + 1].timestamp > t
  BY <1>1, LenProperties DEF upperBoundTimestamp
<1>9. k \in 0..Len(s)
  BY <1>8
<1>10. /\ lo \in Seq(Message) /\ WellFormed(lo, c)
       /\ hi \in Seq(Message) /\ WellFormed(hi, c)
       /\ IdsOf(lo) \cap IdsOf(hi) = {}
       /\ IdsOf(lo) \cup IdsOf(hi) = IdsOf(s)
       /\ DOMAIN lo = 1..k /\ (\A i \in 1..k : lo[i] = s[i])
       /\ DOMAIN hi = 1..(Len(s) - k) /\ (\A i \in 1..(Len(s) - k) : hi[i] = s[k + i])
  BY ONLY c \in Channel, s \in Seq(Message), WellFormed(s, c), <1>4, <1>5, <1>9, SplitWellFormed
<1>12. \A i \in DOMAIN s : s[i].timestamp \in Int
  BY <1>8, ElementOfSeq, MessageFields
<1>13. TimeOrdered(s)
  BY DEF WellFormed
<1>14. ASSUME NEW i \in DOMAIN lo PROVE lo[i].timestamp <= t
  <2>1. i \in DOMAIN s /\ k \in DOMAIN s /\ (i = k \/ i < k) /\ k > 0 /\ lo[i] = s[i]
    BY ONLY i \in DOMAIN lo, <1>8, <1>10
  <2>2. i = k \/ s[i].timestamp <= s[k].timestamp
    BY ONLY <1>13, <2>1 DEF TimeOrdered
  <2> QED BY ONLY <1>3, <1>8, <1>12, <2>1, <2>2
<1>15. ASSUME NEW i \in DOMAIN hi PROVE t <= hi[i].timestamp
  <2>1. /\ k + i \in DOMAIN s /\ k + 1 \in DOMAIN s /\ k < Len(s)
        /\ (k + i = k + 1 \/ k + 1 < k + i) /\ hi[i] = s[k + i]
    <3>1. /\ k \in Nat /\ Len(s) \in Nat /\ DOMAIN s = 1..Len(s) /\ i \in 1..(Len(s) - k)
          /\ \A j \in 1..(Len(s) - k) : hi[j] = s[k + j]
      BY ONLY i \in DOMAIN hi, <1>8, <1>10
    <3> QED BY ONLY <3>1
  <2>2. k + i = k + 1 \/ s[k + 1].timestamp <= s[k + i].timestamp
    BY ONLY <1>13, <2>1 DEF TimeOrdered
  <2> QED BY ONLY <1>3, <1>8, <1>12, <2>1, <2>2
<1>16. v \in Seq(Message) /\ WellFormed(v, c) /\ IdsOf(v) = IdsOf(lo) \cup {b[1].id}
  <2>1. \A i \in DOMAIN lo, j \in DOMAIN b : lo[i].timestamp <= b[j].timestamp
    BY <1>1, <1>2, <1>14
  <2>2. IdsOf(lo) \cap IdsOf(b) = {}
    BY <1>3, <1>10
  <2>3. lo \in Seq(Message) /\ WellFormed(lo, c)
    BY ONLY <1>10
  <2> QED BY ONLY c \in Channel, b \in Seq(Message), WellFormed(b, c), <1>3, <1>6, <2>1, <2>2, <2>3,
                  JoinWellFormed
<1>17. \A i \in DOMAIN v : v[i].timestamp <= t
  <2>1. \A i \in DOMAIN v : v[i] = b[1] \/ \E j \in DOMAIN lo : v[i] = lo[j]
    <3>1. PICK n \in Nat : n = Len(lo)
      BY ONLY <1>10, LenProperties
    <3>2. DOMAIN lo = 1..n
      BY ONLY <1>10, <3>1, LenProperties
    <3>3. lo \in Seq(Message)
      BY ONLY <1>10
    <3>4. /\ v \in Seq(Message) /\ Len(v) = n + 1
          /\ \A i \in 1..(n + 1) : v[i] = IF i <= n THEN lo[i] ELSE b[i - n]
      <4>1. v = lo \o b
        BY ONLY <1>6 DEF Joined
      <4>2. /\ lo \o b \in Seq(Message) /\ Len(lo \o b) = Len(lo) + Len(b)
            /\ \A i \in 1..(Len(lo) + Len(b)) : (lo \o b)[i] = IF i <= Len(lo) THEN lo[i] ELSE b[i - Len(lo)]
        BY ONLY b \in Seq(Message), <3>3, ConcatProperties
      <4> QED BY ONLY <3>1, <4>1, <4>2, Len(b) = 1
    <3>5. DOMAIN v = 1..(n + 1)
      BY ONLY <3>4, LenProperties
    <3>7. \A i \in 1..(n + 1) : (i \in 1..n /\ i <= n) \/ (i - n = 1 /\ ~ (i <= n))
      BY ONLY n \in Nat
    <3> QED BY ONLY <3>2, <3>4, <3>5, <3>7
  <2> QED BY ONLY <1>1, <1>3, <1>14, <2>1
<1>18. \A i \in DOMAIN v : v[i].timestamp \in Int
  BY <1>16, ElementOfSeq, LenProperties, MessageFields
<1>19. \A i \in DOMAIN hi : hi[i].timestamp \in Int
  <2>1. hi \in Seq(Message)
    BY ONLY <1>10
  <2> QED BY ONLY <2>1, ElementOfSeq, LenProperties, MessageFields
<1>20. \A i \in DOMAIN v, j \in DOMAIN hi : v[i].timestamp <= hi[j].timestamp
  BY ONLY <1>3, <1>15, <1>17, <1>18, <1>19
<1>21. IdsOf(v) \cap IdsOf(hi) = {}
  BY <1>10, <1>16
<1>22. WellFormed(w, c) /\ IdsOf(w) = IdsOf(v) \cup IdsOf(hi)
  <2>1. hi \in Seq(Message) /\ WellFormed(hi, c) /\ v \in Seq(Message) /\ WellFormed(v, c)
    BY ONLY <1>10, <1>16
  <2> QED BY ONLY c \in Channel, <1>7, <2>1, <1>20, <1>21, JoinWellFormed
<1> QED
  BY <1>10, <1>16, <1>22

\* Every step keeps the invariant when calls wait for one another.
LEMMA SerialStep ==
  ASSUME ~Overlap, SerialInv, TypeOK', [Next]_vars
  PROVE  SerialInv'
<1>0. /\ TypeOK /\ call \in [Caller -> CallType]
      /\ \A c \in Channel : /\ channels[c] \in Seq(Message) /\ WellFormed(channels[c], c)
                            /\ channelIdSets[c] = IdsOf(channels[c])
      /\ \A c \in Channel : StoreOK(c)
  BY DEF SerialInv, TypeOK, StoreOK
<1>a. ASSUME NEW d \in Caller, call[d].pc \notin Settled
      PROVE  \A e \in Caller : e # d => call[e].pc \in Settled
  BY <1>a DEF SerialInv, Exclusive
<1>b. MayStart => \A d \in Caller : call[d].pc \in Settled
  BY DEF MayStart
<1>c. ASSUME \A d \in Caller : call[d].pc \in Settled, call' = call,
             \A c \in Channel : StoreOK(c)'
      PROVE  SerialInv'
  BY <1>c DEF SerialInv, CallOK, Exclusive, Settled
<1>d. ASSUME NEW d \in Caller, \A e \in Caller : e # d => call[e].pc \in Settled, NEW r,
             call' = [call EXCEPT ![d] = r], CallOK(d)', \A c \in Channel : StoreOK(c)'
      PROVE  SerialInv'
  <2>1. \A e \in Caller : e # d => call'[e].pc \in Settled
    BY <1>0, <1>d
  <2> QED BY <1>d, <2>1, OneInProgress DEF SerialInv
<1>e. UNCHANGED <<channels, channelIdSets>> => \A c \in Channel : StoreOK(c)'
  BY <1>0 DEF StoreOK
<1>1. ASSUME NEW d \in Caller, CreateFinish(d) PROVE SerialInv'
  <2>0. PICK i \in Id, t \in Time :
          call' = [call EXCEPT ![d] =
                     [pc |-> "created",
                      msg |-> [id |-> i, channelId |-> call[d].channelId,
                               timestamp |-> t, prevHash |-> call[d].prevHash]]]
    BY <1>1 DEF CreateFinish
  <2>1. call'[d].pc = "created"
    BY <1>0, <2>0
  <2>2. CallOK(d)'
    BY <1>0, <2>1 DEF CallOK
  <2>3. \A e \in Caller : e # d => call[e].pc \in Settled
    BY <1>1, <1>a DEF CreateFinish, Settled
  <2> QED BY <1>1, <1>d, <1>e, <2>0, <2>2, <2>3 DEF CreateFinish
<1>2. ASSUME NEW d \in Caller, AddCreated(d) PROVE SerialInv'
  <2>1. \A e \in Caller : e # d => call[e].pc \in Settled
    BY <1>2, <1>a DEF AddCreated, Settled
  <2>2. call[d].msg \in Message
    BY <1>0, <1>2, CallFields DEF AddCreated
  <2> QED BY <1>2, <2>1, <2>2, BeginAddSafe DEF AddCreated
<1>3. ASSUME NEW d \in Caller, NEW i \in Id, NEW t \in Time, AddReceived(d, i, t) PROVE SerialInv'
  <2>1. \A e \in Caller : e # d => call[e].pc \in Settled
    BY <1>3, <1>a DEF AddReceived, Settled
  <2>2. PICK u \in Time : BeginAdd(d, [call[d].msg EXCEPT !.id = i, !.timestamp = u])
    BY <1>3 DEF AddReceived
  <2>3. call[d].msg \in Message
    BY <1>0, <1>3, CallFields DEF AddReceived
  <2>4. [call[d].msg EXCEPT !.id = i, !.timestamp = u] \in Message
    BY <2>3 DEF Message
  <2> QED BY <2>1, <2>2, <2>4, BeginAddSafe
<1>4. ASSUME NEW d \in Caller, AddFinish(d) PROVE SerialInv'
  <2> DEFINE m == call[d].msg
             s == channels[m.channelId]
  <2>1. m \in Message /\ m.channelId \in Channel /\ call[d].last \in Message
    BY <1>0, <1>4, CallFields, MessageFields DEF AddFinish
  <2>2. s # <<>> /\ call[d].last = s[Len(s)] /\ m.id \notin IdsOf(s)
    BY <1>4 DEF AddFinish, SerialInv, CallOK
  <2>3. PICK r \in {"added", "idle"} : call' = [call EXCEPT ![d] = [pc |-> r]]
    BY <1>4 DEF AddFinish
  <2>4. CallOK(d)'
    BY <1>0, <2>3 DEF CallOK
  <2>5. \A e \in Caller : e # d => call[e].pc \in Settled
    BY <1>4, <1>a DEF AddFinish, Settled
  <2>6. CASE Push(m) /\ m.timestamp > call[d].last.timestamp
    <3>1. s[Len(s)].timestamp <= m.timestamp
      BY <2>1, <2>2, <2>6, MessageFields
    <3>2. \A c \in Channel : StoreOK(c)'
      BY <1>0, <2>1, <2>2, <2>6, <3>1, PushWellFormed
    <3> QED BY <1>d, <2>3, <2>4, <2>5, <3>2
  <2>7. CASE UNCHANGED <<channels, channelIdSets>>
    BY <1>d, <1>e, <2>3, <2>4, <2>5, <2>7
  <2> QED BY <1>4, <2>6, <2>7 DEF AddFinish
<1>5. ASSUME NEW d \in Caller, ImportFinish(d) PROVE SerialInv'
  <2> DEFINE c == call[d].channelId
             after == [call EXCEPT ![d] = Idle]
  <2>1. c \in Channel /\ WellFormed(call[d].batch, c)
    BY <1>0, <1>5, CallFields DEF ImportFinish, SerialInv, CallOK
  <2>2. \A e \in Caller : e # d => call[e].pc \in Settled
    BY <1>5, <1>a DEF ImportFinish, Settled
  <2>3. after \in [Caller -> CallType] /\ \A e \in Caller : after[e].pc \in Settled
    BY <1>0, <2>2 DEF Idle, CallType, Settled
  <2>4. call' = after
    BY <1>5, <2>3, NothingToDetach DEF ImportFinish, Replace
  <2>5. CallOK(d)'
    BY <1>0, <2>4 DEF CallOK, Idle
  <2>6. CASE Replace(c, call[d].batch, after)
    <3>1. \A x \in Channel : StoreOK(x)'
      BY <1>0, <2>1, <2>6, OneChannel DEF Replace
    <3> QED BY <1>d, <2>2, <2>4, <2>5, <3>1
  <2>7. CASE UNCHANGED <<channels, channelIdSets>>
    BY <1>d, <1>e, <2>2, <2>4, <2>5, <2>7
  <2> QED BY <1>5, <2>6, <2>7 DEF ImportFinish
<1>6. ASSUME NEW d \in Caller, LoadedNothing(d) PROVE SerialInv'
  <2>1. CallOK(d)'
    BY <1>0, <1>6 DEF LoadedNothing, CallOK, Idle
  <2>2. \A e \in Caller : e # d => call[e].pc \in Settled
    BY <1>6, <1>a DEF LoadedNothing, Settled
  <2> QED BY <1>6, <1>d, <1>e, <2>1, <2>2 DEF LoadedNothing
<1>7. ASSUME NEW d \in Caller, NEW c \in Channel, CreateMessage(d, c) PROVE SerialInv'
  <2>0. PICK h : call' = [call EXCEPT ![d] = [pc |-> "creating", channelId |-> c, prevHash |-> h]]
    BY <1>7 DEF CreateMessage
  <2>1. call'[d].pc = "creating"
    BY <1>0, <2>0
  <2>2. CallOK(d)'
    BY <1>0, <2>1 DEF CallOK
  <2> QED BY <1>7, <1>b, <1>d, <1>e, <2>0, <2>2 DEF CreateMessage
<1>8. ASSUME NEW d \in Caller, NEW c \in Channel, LoadOlder(d, c) PROVE SerialInv'
  <2> DEFINE s == channels[c]
  <2>1. PICK t : /\ call' = [call EXCEPT ![d] = [pc |-> "loading", channelId |-> c, before |-> t]]
                 /\ s # <<>> => t = s[1].timestamp
    BY <1>8 DEF LoadOlder
  <2>2. call'[d] = [pc |-> "loading", channelId |-> c, before |-> t] /\ channels' = channels
    BY <1>0, <1>8, <2>1 DEF LoadOlder
  <2>3. ASSUME NEW i \in DOMAIN s PROVE t <= s[i].timestamp
    <3>1. Len(s) \in Nat /\ DOMAIN s = 1..Len(s) /\ s # <<>> /\ \A k \in DOMAIN s : s[k] \in Message
      BY <1>0, ElementOfSeq, LenProperties
    <3>2. 1 \in DOMAIN s /\ (i = 1 \/ 1 < i)
      BY <3>1
    <3>3. s[1].timestamp \in Int /\ s[i].timestamp \in Int
      BY <3>1, <3>2, MessageFields
    <3>4. TimeOrdered(s)
      BY <1>0 DEF WellFormed
    <3>5. i = 1 \/ s[1].timestamp <= s[i].timestamp
      BY <3>2, <3>4 DEF TimeOrdered
    <3> QED BY <2>1, <3>1, <3>3, <3>5
  <2>4. CallOK(d)'
    BY <2>2, <2>3 DEF CallOK
  <2> QED BY <1>8, <1>b, <1>d, <1>e, <2>1, <2>4 DEF LoadOlder
<1>9. ASSUME NEW d \in Caller, NEW c \in Channel, NEW b \in Supplied(c), AddWire(d, c, b) PROVE SerialInv'
  <2>1. b \in Seq(Message) /\ Len(b) = 1
    BY <1>9, SuppliedWellFormed DEF AddWire
  <2>2. b[1] \in Message
    BY <2>1, ElementOfSeq
  <2>3. \A e \in Caller : e # d => call[e].pc \in Settled
    BY <1>9, <1>b DEF AddWire
  <2> QED BY <1>9, <2>2, <2>3, BeginAddSafe DEF AddWire
<1>10. ASSUME NEW d \in Caller, NEW c \in Channel, NEW b \in Supplied(c), ImportMessages(d, c, b) PROVE SerialInv'
  <2>1. call'[d] = [pc |-> "importing", channelId |-> c, batch |-> b]
    BY <1>0, <1>10 DEF ImportMessages
  <2>2. CallOK(d)'
    BY <2>1, SuppliedWellFormed DEF CallOK
  <2> QED BY <1>10, <1>b, <1>d, <1>e, <2>2 DEF ImportMessages
<1>11. ASSUME NEW d \in Caller, NEW b, PrependMessages(d, b) PROVE SerialInv'
  <2> DEFINE c == call[d].channelId
             s == channels[c]
             keep == {i \in DOMAIN b : b[i].id \notin channelIdSets[c]}
  <2>1. c \in Channel /\ b \in Supplied(c) /\ call[d].before \in Int
    BY <1>0, <1>11, CallFields DEF PrependMessages, Time
  <2>2. b \in Seq(Message) /\ WellFormed(b, c) /\ DOMAIN b = 1..Len(b)
    BY <2>1, SuppliedWellFormed, LenProperties
  <2>3. PICK fresh \in Filtered(b, keep) : channels' = [channels EXCEPT ![c] = fresh \o s]
    BY <1>11 DEF PrependMessages
  <2>4. keep \in SUBSET (1..Len(b))
    BY <2>2
  <2>5. /\ fresh \in Seq(Message) /\ WellFormed(fresh, c) /\ IdsOf(fresh) = IdsAt(b, keep)
        /\ \A i \in DOMAIN fresh : \E k \in keep : fresh[i] = b[k]
    BY <2>1, <2>2, <2>4, FilterWellFormed
  <2>6. s \in Seq(Message) /\ WellFormed(s, c) /\ channelIdSets[c] = IdsOf(s)
    BY <1>0, <2>1
  <2>7. IdsAt(b, keep) = IdsOf(b) \ IdsOf(s)
    BY <2>6 DEF IdsAt, IdsOf
  <2>8. ASSUME NEW i \in DOMAIN fresh, NEW j \in DOMAIN s PROVE fresh[i].timestamp <= s[j].timestamp
    <3>1. PICK k \in DOMAIN b : fresh[i] = b[k]
      BY <2>5
    <3>2. b[k].timestamp < call[d].before /\ call[d].before <= s[j].timestamp
      BY <1>11 DEF PrependMessages, SerialInv, CallOK
    <3>3. b[k] \in Message /\ s[j] \in Message
      BY <2>2, <2>6, ElementOfSeq, LenProperties
    <3>4. b[k].timestamp \in Int /\ s[j].timestamp \in Int
      BY <3>3, MessageFields
    <3> QED BY <2>1, <3>1, <3>2, <3>4
  <2>9. IdsOf(fresh) \cap IdsOf(s) = {}
    BY <2>5, <2>7
  <2>10. WellFormed(Joined(fresh, s), c) /\ IdsOf(Joined(fresh, s)) = IdsOf(fresh) \cup IdsOf(s)
    <3> HIDE DEF c, s, keep
    <3> QED BY ONLY <2>1, <2>5, <2>6, <2>8, <2>9, JoinWellFormed
  <2>11. /\ channels' = [channels EXCEPT ![c] = Joined(fresh, s)]
         /\ channelIdSets' = [channelIdSets EXCEPT ![c] = IdsOf(s) \cup IdsOf(b)]
    BY <1>11, <2>3, <2>6 DEF PrependMessages, Joined
  <2> HIDE DEF c, s, keep
  <2>12. IdsOf(s) \cup IdsOf(b) = IdsOf(Joined(fresh, s))
    BY <2>5, <2>7, <2>10
  <2>13. \A x \in Channel : StoreOK(x)'
    BY ONLY <1>0, <2>1, <2>10, <2>11, <2>12, OneChannel
  <2>14. call' = [call EXCEPT ![d] = Idle]
    BY <1>11 DEF PrependMessages
  <2>15. CallOK(d)'
    BY <1>0, <2>14 DEF CallOK, Idle
  <2>16. \A e \in Caller : e # d => call[e].pc \in Settled
    BY <1>11, <1>a DEF PrependMessages, Settled
  <2> QED BY <1>d, <2>13, <2>14, <2>15, <2>16
<1>12. ASSUME NEW c \in Channel, NEW b \in Supplied(c), ImportMetadata(c, b) PROVE SerialInv'
  <2>1. call' = call
    BY <1>0, <1>12, <1>b, NothingToDetach DEF ImportMetadata, Replace
  <2>2. \A x \in Channel : StoreOK(x)'
    BY <1>0, <1>12, SuppliedWellFormed, OneChannel DEF ImportMetadata, Replace
  <2> QED BY <1>12, <1>b, <1>c, <2>1, <2>2 DEF ImportMetadata
<1>13. ASSUME NEW c \in Channel, NEW b \in Supplied(c), ForceAdd(c, b) PROVE SerialInv'
  <2>1. PICK s : s = channels[c]
    OBVIOUS
  <2>2. b \in Seq(Message) /\ WellFormed(b, c) /\ Len(b) = 1
    BY <1>13, SuppliedWellFormed DEF ForceAdd
  <2>3. s \in Seq(Message) /\ WellFormed(s, c) /\ channelIdSets[c] = IdsOf(s)
    BY <1>0, <2>1
  <2>4. b[1].id \notin IdsOf(s)
    BY <1>13, <2>3 DEF ForceAdd
  <2>5. PICK k \in upperBoundTimestamp(s, b[1].timestamp) :
          channels' = [channels EXCEPT ![c] = Joined(Joined(Front(s, k), b), Back(s, k))]
    BY <1>13, <2>1 DEF ForceAdd, Joined, Front, Back
  <2>6. PICK w : w = Joined(Joined(Front(s, k), b), Back(s, k))
    OBVIOUS
  <2>7. WellFormed(w, c) /\ IdsOf(s) \cup {b[1].id} = IdsOf(w)
    BY ONLY c \in Channel, <2>2, <2>3, <2>4, k \in upperBoundTimestamp(s, b[1].timestamp), <2>6,
            InsertWellFormed
  <2>8. /\ channels' = [channels EXCEPT ![c] = w]
        /\ channelIdSets' = [channelIdSets EXCEPT ![c] = IdsOf(s) \cup {b[1].id}]
    BY <1>13, <2>3, <2>5, <2>6 DEF ForceAdd
  <2>9. \A x \in Channel : StoreOK(x)'
    BY ONLY <1>0, c \in Channel, <2>7, <2>8, OneChannel
  <2> QED BY <1>13, <1>b, <1>c, <2>9 DEF ForceAdd
<1>14. ASSUME NEW c \in Channel, NEW b \in Supplied(c), BulkAdd(c, b) PROVE SerialInv'
  <2>1. b \in Seq(Message) /\ DistinctIds(b) /\ InChannel(b, c)
    BY SuppliedWellFormed DEF WellFormed
  <2>2. PICK s : s = channels[c]
    OBVIOUS
  <2>3. s \in Seq(Message) /\ DistinctIds(s) /\ InChannel(s, c) /\ channelIdSets[c] = IdsOf(s)
    BY <1>0, <2>2 DEF WellFormed
  <2>4. PICK t \in SortedByTime(Joined(s, b), Undup(s, b, IdsOf(s))) :
          channels' = [channels EXCEPT ![c] = t]
    BY <1>14, <2>2, <2>3 DEF BulkAdd, Joined
  <2>5. WellFormed(t, c) /\ IdsOf(t) = IdsOf(s) \cup IdsOf(b)
    BY <2>1, <2>3, <2>4, SortWellFormed
  <2>6. channelIdSets' = [channelIdSets EXCEPT ![c] = IdsOf(s) \cup IdsOf(b)]
    BY <1>14, <2>3 DEF BulkAdd
  <2>7. \A x \in Channel : StoreOK(x)'
    BY <1>0, <2>4, <2>5, <2>6, OneChannel
  <2> QED BY <1>14, <1>b, <1>c, <2>7 DEF BulkAdd
<1>15. ASSUME NEW c \in Channel, NEW newId \in Channel, RemapChannel(c, newId) PROVE SerialInv'
  <2>1. PICK s : s = channels[newId]
    OBVIOUS
  <2>2. PICK b : b = Renamed(channels[c], newId)
    OBVIOUS
  <2>3. s \in Seq(Message) /\ DistinctIds(s) /\ InChannel(s, newId) /\ channelIdSets[newId] = IdsOf(s)
    BY <1>0, <2>1 DEF WellFormed
  <2>4. b \in Seq(Message) /\ DistinctIds(b) /\ InChannel(b, newId)
    BY <1>0, <2>2, RenamedProperties DEF WellFormed
  <2>5. PICK t \in SortedByTime(Joined(s, b), Undup(s, b, IdsOf(s))) :
            /\ channels' = [channels EXCEPT ![newId] = t, ![c] = <<>>]
            /\ channelIdSets' = [channelIdSets EXCEPT ![newId] = IdsOf(t), ![c] = {}]
    BY <1>15, <2>1, <2>2, <2>3 DEF RemapChannel, Renamed, Joined
  <2>6. WellFormed(t, newId)
    BY <2>3, <2>4, <2>5, SortWellFormed
  <2>7. WellFormed(<<>>, c) /\ IdsOf(<<>>) = {}
    BY EmptyWellFormed
  <2>8. c # newId
    BY <1>15 DEF RemapChannel
  <2>9. \A x \in Channel : /\ channels'[x] = IF x = c THEN <<>> ELSE IF x = newId THEN t ELSE channels[x]
                           /\ channelIdSets'[x] = IF x = c THEN {} ELSE IF x = newId THEN IdsOf(t)
                                                  ELSE channelIdSets[x]
    BY <1>0, <2>5, <2>8 DEF TypeOK
  <2>10. \A x \in Channel : StoreOK(x)'
    BY <1>0, <2>6, <2>7, <2>9 DEF StoreOK
  <2>11. call' = call
    BY <1>0, <1>15, <1>b, NothingToDetach DEF RemapChannel
  <2> QED BY <1>15, <1>b, <1>c, <2>10, <2>11 DEF RemapChannel
<1>16. ASSUME NEW c \in Channel, NEW maxSize \in 0..MaxLen, TrimChannel(c, maxSize) PROVE SerialInv'
  <2>1. PICK s : s = channels[c]
    OBVIOUS
  <2>2. PICK k : k = Len(s) - maxSize
    OBVIOUS
  <2>3. s \in Seq(Message) /\ WellFormed(s, c) /\ channelIdSets[c] = IdsOf(s) /\ k \in 0..Len(s)
    BY <1>0, <1>16, <2>1, <2>2, LenProperties, ConstantsAssumption DEF TrimChannel
  <2>4. PICK lo : lo = Front(s, k)
    OBVIOUS
  <2>5. PICK hi : hi = Back(s, k)
    OBVIOUS
  <2>6. WellFormed(hi, c) /\ IdsOf(lo) \cap IdsOf(hi) = {} /\ IdsOf(lo) \cup IdsOf(hi) = IdsOf(s)
    BY ONLY c \in Channel, <2>3, <2>4, <2>5, SplitWellFormed
  <2>7. /\ channels' = [channels EXCEPT ![c] = hi]
        /\ channelIdSets' = [channelIdSets EXCEPT ![c] = IdsOf(s) \ IdsOf(lo)]
    BY <1>16, <2>1, <2>2, <2>3, <2>4, <2>5 DEF TrimChannel, Front, Back
  <2>8. IdsOf(s) \ IdsOf(lo) = IdsOf(hi)
    BY <2>6
  <2>9. \A x \in Channel : StoreOK(x)'
    BY ONLY <1>0, c \in Channel, <2>6, <2>7, <2>8, OneChannel
  <2> QED BY <1>16, <1>b, <1>c, <2>9 DEF TrimChannel
<1>17. ASSUME NEW c \in Channel, ClearChannel(c) PROVE SerialInv'
  <2>1. call' = call
    BY <1>0, <1>17, <1>b, NothingToDetach DEF ClearChannel
  <2>2. \A x \in Channel : StoreOK(x)'
    BY <1>0, <1>17, EmptyWellFormed, OneChannel DEF ClearChannel
  <2> QED BY <1>17, <1>b, <1>c, <2>1, <2>2 DEF ClearChannel
<1>18. CASE UNCHANGED vars
  BY <1>18 DEF vars, SerialInv, TypeOK, StoreOK, CallOK, Exclusive
<1> QED
  BY <1>1, <1>2, <1>3, <1>4, <1>5, <1>6, <1>7, <1>8, <1>9, <1>10, <1>11, <1>12, <1>13,
     <1>14, <1>15, <1>16, <1>17, <1>18 DEF Next, CallStep, SyncStep

\* The invariant holds of every run in which calls wait for one another.
LEMMA SerialInvariant ==
  ASSUME ~Overlap
  PROVE  Spec => []SerialInv
<1>1. Init => SerialInv
  <2> SUFFICES ASSUME Init PROVE SerialInv
    OBVIOUS
  <2>1. TypeOK
    BY EmptySeq DEF Init, TypeOK, Idle, CallType, Settled
  <2>2. \A c \in Channel : StoreOK(c)
    BY EmptyWellFormed DEF Init, StoreOK
  <2>3. (\A d \in Caller : CallOK(d)) /\ Exclusive
    BY DEF Init, Idle, CallOK, Exclusive, Settled
  <2> QED BY <2>1, <2>2, <2>3 DEF SerialInv
<1>2. SerialInv /\ TypeOK' /\ [Next]_vars => SerialInv'
  BY SerialStep
<1> QED
  BY <1>1, <1>2, TypeCorrect, PTL DEF Spec

\* When every call waits for the one before it, the store keeps all that
\* validateInvariants asserts, whatever the sequence of adds, bulk loads, imports,
\* remaps, trims and scroll-backs: ids and arrays agree, no id is stored twice,
\* arrays stay in timestamp order and under their own channel id.
THEOREM SerialStoreValid ==
  ASSUME ~Overlap
  PROVE  Spec => []validateInvariants
<1>1. SerialInv => validateInvariants
  BY DEF SerialInv, StoreOK, WellFormed, validateInvariants, IdSetsExact, NoDuplicateIds,
         TimestampOrder, ChannelIdMatch
<1> QED
  BY <1>1, SerialInvariant, PTL

-----------------------------------------------------------------------------
(* What addMessage reports, when calls wait for one another.               *)

\* Only an addMessage that comes back from its await reports what it verified; nothing
\* else goes on while one waits.
LEMMA AcceptsFinishes ==
  ASSUME ~Overlap, SerialInv, [Next]_vars, NEW d \in Caller, Accepts(d)
  PROVE  AddFinish(d)
<1>0. /\ call \in [Caller -> CallType] /\ call[d].pc = "verifying" /\ call'[d].pc = "added"
      /\ call[d].pc \notin Settled
  BY DEF SerialInv, TypeOK, Accepts, Settled
<1>1. ~ MayStart
  BY <1>0 DEF MayStart
<1>2. ASSUME NEW e \in Caller, call[e].pc \notin Settled PROVE e = d
  BY <1>0, <1>2 DEF SerialInv, Exclusive
<1>3. call' # call
  BY <1>0
<1>4. ASSUME NEW e \in Caller, CallStep(e) PROVE AddFinish(d)
  <2>1. ~ CreateFinish(e) /\ ~ AddCreated(e) /\ ~ ImportFinish(e) /\ ~ LoadedNothing(e)
    BY <1>0, <1>2 DEF CreateFinish, AddCreated, ImportFinish, LoadedNothing, Settled
  <2>2. \A i \in Id, t \in Time : ~ AddReceived(e, i, t)
    BY <1>0, <1>2 DEF AddReceived, Settled
  <2>3. \A c \in Channel : ~ CreateMessage(e, c) /\ ~ LoadOlder(e, c)
    BY <1>1 DEF CreateMessage, LoadOlder
  <2>4. \A c \in Channel : \A b : ~ AddWire(e, c, b) /\ ~ ImportMessages(e, c, b) /\ ~ PrependMessages(e, b)
    BY <1>0, <1>1, <1>2 DEF AddWire, ImportMessages, PrependMessages, Settled
  <2>5. AddFinish(e)
    BY <1>4, <2>1, <2>2, <2>3, <2>4 DEF CallStep
  <2> QED
    BY <1>2, <2>5 DEF AddFinish, Settled
<1>5. ~ SyncStep
  BY <1>1 DEF SyncStep, ImportMetadata, ForceAdd, BulkAdd, RemapChannel, TrimChannel, ClearChannel
<1> QED
  BY <1>3, <1>4, <1>5 DEF Next, vars

\* It appends the message to the array it read, which is not empty and still the channel's.
LEMMA AcceptsAppends ==
  ASSUME ~Overlap, SerialInv, [Next]_vars, NEW d \in Caller, Accepts(d)
  PROVE  LET m == call[d].msg
             s == channels[m.channelId]
         IN  /\ m \in Message /\ s \in Seq(Message) /\ s # <<>>
             /\ channels'[m.channelId] = Append(s, m)
             /\ m.prevHash = hashMessage(s[Len(s)])
             /\ m.timestamp > s[Len(s)].timestamp
<1> DEFINE m == call[d].msg
           s == channels[m.channelId]
<1>1. /\ call \in [Caller -> CallType] /\ channels \in [Channel -> Seq(Message)]
      /\ call[d].pc = "verifying" /\ call'[d].pc = "added"
  BY DEF SerialInv, TypeOK, Accepts
<1>2. m \in Message /\ m.channelId \in Channel
  BY <1>1, CallFields, MessageFields
<1>3. call[d].attached /\ s # <<>> /\ call[d].last = s[Len(s)]
  BY <1>1 DEF SerialInv, CallOK
<1>4. AddFinish(d)
  BY AcceptsFinishes
<1>5. m.prevHash = hashMessage(call[d].last) /\ m.timestamp > call[d].last.timestamp
  BY <1>1, <1>4 DEF AddFinish
<1>6. channels' = [channels EXCEPT ![m.channelId] = Append(@, m)]
  BY <1>3, <1>4, <1>5 DEF AddFinish, Push
<1> QED
  BY <1>1, <1>2, <1>3, <1>5, <1>6

\* The last message of an array to which one is appended.
LEMMA AppendedLast ==
  ASSUME NEW s \in Seq(Message), NEW m \in Message
  PROVE  Len(s) \in Nat /\ Len(s) + 1 \in DOMAIN Append(s, m) /\ Append(s, m)[Len(s) + 1] = m
<1>1. Len(s) \in Nat
  BY LenProperties
<1>2. Append(s, m) \in Seq(Message) /\ Len(Append(s, m)) = Len(s) + 1 /\ Append(s, m)[Len(s) + 1] = m
  BY AppendProperties
<1>3. DOMAIN Append(s, m) = 1..(Len(s) + 1)
  BY ONLY <1>2, LenProperties
<1> QED
  BY <1>1, <1>2, <1>3

\* addMessage's answer true means that the message is in the channel: the array it read
\* before its await is still the one in the Map.
THEOREM SerialAcceptedIsStored ==
  ASSUME ~Overlap
  PROVE  Spec => AcceptedIsStored
<1>1. SerialInv /\ [Next]_vars =>
        [\A d \in Caller : Accepts(d) =>
            LET m == call[d].msg IN
            \E i \in DOMAIN channels'[m.channelId] : channels'[m.channelId][i] = m]_vars
  <2> SUFFICES ASSUME SerialInv, [Next]_vars, NEW d \in Caller, Accepts(d)
               PROVE  LET m == call[d].msg IN
                      \E i \in DOMAIN channels'[m.channelId] : channels'[m.channelId][i] = m
    OBVIOUS
  <2> DEFINE m == call[d].msg
             s == channels[m.channelId]
  <2>1. m \in Message /\ s \in Seq(Message) /\ channels'[m.channelId] = Append(s, m)
    BY AcceptsAppends
  <2>2. Len(s) + 1 \in DOMAIN Append(s, m) /\ Append(s, m)[Len(s) + 1] = m
    BY <2>1, AppendedLast
  <2> QED
    BY <2>1, <2>2
<1> QED
  BY <1>1, SerialInvariant, PTL DEF Spec, AcceptedIsStored

\* It also means that the message is linked to the one before it in the channel and later
\* than it: what it was compared with is still the last message.
THEOREM SerialAcceptedExtendsChain ==
  ASSUME ~Overlap
  PROVE  Spec => AcceptedExtendsChain
<1>1. SerialInv /\ [Next]_vars =>
        [\A d \in Caller : Accepts(d) =>
            LET m == call[d].msg
                s == channels'[m.channelId]
                n == Len(s)
            IN  n > 0 /\ s[n] = m =>
                  IF n = 1 THEN m.prevHash = GENESIS_HASH
                  ELSE m.prevHash = hashMessage(s[n - 1]) /\ m.timestamp > s[n - 1].timestamp]_vars
  <2> SUFFICES ASSUME SerialInv, [Next]_vars, NEW d \in Caller, Accepts(d)
               PROVE  LET m == call[d].msg
                          s == channels'[m.channelId]
                          n == Len(s)
                      IN  n > 0 /\ s[n] = m =>
                            IF n = 1 THEN m.prevHash = GENESIS_HASH
                            ELSE m.prevHash = hashMessage(s[n - 1]) /\ m.timestamp > s[n - 1].timestamp
    OBVIOUS
  <2> DEFINE m == call[d].msg
             s == channels[m.channelId]
             t == channels'[m.channelId]
  <2>1. /\ m \in Message /\ s \in Seq(Message) /\ s # <<>> /\ t = Append(s, m)
        /\ m.prevHash = hashMessage(s[Len(s)]) /\ m.timestamp > s[Len(s)].timestamp
    BY AcceptsAppends
  <2>2. Len(s) \in Nat /\ Len(s) >= 1 /\ Len(t) = Len(s) + 1 /\ t[Len(s)] = s[Len(s)]
    BY <2>1, LastMessage, AppendProperties
  <2>3. Len(t) # 1 /\ Len(t) - 1 = Len(s)
    BY <2>2
  <2> QED
    BY <2>1, <2>2, <2>3
<1> QED
  BY <1>1, SerialInvariant, PTL DEF Spec, AcceptedExtendsChain
=============================================================================
