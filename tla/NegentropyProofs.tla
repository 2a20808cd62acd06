-------------------------- MODULE NegentropyProofs --------------------------
(***************************************************************************)
(* What reconcile returns, for stores of any size, any threshold and any   *)
(* number of parts, while the responder's store changes between rounds.    *)
(*                                                                         *)
(* The argument: an item that only one side holds is already accounted for *)
(* or lies in a range of the next query (NeedCovered, ExcessCovered).  A   *)
(* round keeps this because the parts of a split range cover it, which is  *)
(* PartitionCovers.                                                        *)
(***************************************************************************)
EXTENDS Negentropy, WellFoundedInduction, FiniteSetTheorems, FunctionTheorems, TLAPS

\* A set of naturals that is not empty has a least element.
LEMMA LeastNat ==
    ASSUME NEW T, T \subseteq Nat, T # {}
    PROVE  \E x \in T : \A y \in T : x <= y
<1>1. \E x \in T : \A y \in T : ~ (<<y, x>> \in OpToRel(<, Nat))
    BY NatLessThanWellFounded, WFMin
<1>2. PICK x \in T : \A y \in T : ~ (<<y, x>> \in OpToRel(<, Nat))
    BY <1>1
<1>3. ASSUME NEW y \in T PROVE x <= y
    <2>1. ~ (<<y, x>> \in OpToRel(<, Nat))
        BY <1>2
    <2>2. x \in Nat /\ y \in Nat
        OBVIOUS
    <2>3. ~ (y < x)
        BY <2>1, <2>2 DEF OpToRel
    <2> QED BY <2>2, <2>3
<1> QED BY <1>3

\* A bounded set of naturals that is not empty has a greatest element.
LEMMA GreatestNat ==
    ASSUME NEW T, T \subseteq Nat, T # {}, NEW k \in Nat, \A x \in T : x <= k
    PROVE  \E x \in T : \A y \in T : y <= x
<1> DEFINE U == {n \in Nat : \E x \in T : n = k - x}
<1>1. U \subseteq Nat
    OBVIOUS
<1>2. U # {}
    <2>1. PICK x \in T : TRUE
        OBVIOUS
    <2>2. x \in Nat /\ x <= k
        OBVIOUS
    <2>3. k - x \in Nat
        BY <2>2
    <2>4. k - x \in U
        BY <2>1, <2>3
    <2> QED BY <2>4
<1> HIDE DEF U
<1>3. PICK n \in U : \A m \in U : n <= m
    BY <1>1, <1>2, LeastNat
<1>4. PICK x \in T : n = k - x
    BY <1>3 DEF U
<1>5. ASSUME NEW y \in T PROVE y <= x
    <2>1. y \in Nat /\ y <= k /\ x \in Nat /\ x <= k
        OBVIOUS
    <2>2. k - y \in U
        BY <2>1 DEF U
    <2>3. k - x <= k - y
        BY <2>2, <1>3, <1>4
    <2> QED BY <2>1, <2>3
<1> QED BY <1>5

Bounds(S, q) == {q.lo, q.hi} \cup Cuts(InRange(S, q))

\* The cuts of a range are keys of its items.
LEMMA CutsAreKeys ==
    ASSUME NEW S \in SUBSET Item, NEW c \in Cuts(S)
    PROVE  c \in 0..(End - 1)
BY DEF Cuts, Item

\* The parts of a range are ranges.
LEMMA PartitionIsRanges ==
    ASSUME NEW S \in SUBSET Item, NEW q, q.lo \in 0..End, q.hi \in 0..End,
           NEW p \in partitionRange(S, q)
    PROVE  p.lo \in 0..End /\ p.hi \in 0..End
<1>1. p.lo \in Bounds(S, q) /\ p.hi \in Bounds(S, q)
    BY DEF partitionRange, Bounds
<1>2. ASSUME NEW c \in Bounds(S, q) PROVE c \in 0..End
    <2>1. CASE c \in Cuts(InRange(S, q))
        <3>1. InRange(S, q) \in SUBSET Item
            BY DEF InRange
        <3>2. c \in 0..(End - 1)
            BY <2>1, <3>1, CutsAreKeys
        <3> QED BY <3>2, NegentropyAssumption
    <2>2. CASE c \in {q.lo, q.hi}
        BY <2>2
    <2> QED BY <2>1, <2>2 DEF Bounds
<1> QED BY <1>1, <1>2

\* Every key of a range is in one of its parts.
LEMMA PartitionCovers ==
    ASSUME NEW S \in SUBSET Item, NEW q, q.lo \in 0..End, q.hi \in 0..End,
           NEW k \in Nat, q.lo <= k, k < q.hi
    PROVE  \E p \in partitionRange(S, q) : p.lo <= k /\ k < p.hi
<1> DEFINE B == Bounds(S, q)
           Below == {c \in B : c <= k}
           Above == {c \in B : k < c}
<1>1. B \subseteq Nat
    <2>1. InRange(S, q) \in SUBSET Item
        BY DEF InRange
    <2>2. \A c \in Cuts(InRange(S, q)) : c \in 0..(End - 1)
        BY <2>1, CutsAreKeys
    <2> QED BY <2>2, NegentropyAssumption DEF Bounds
<1>2. q.lo \in B /\ q.hi \in B
    BY DEF Bounds
<1> HIDE DEF B
<1>3. PICK a \in Below : \A y \in Below : y <= a
    <2>1. Below \subseteq Nat /\ Below # {}
        BY <1>1, <1>2
    <2>2. \A x \in Below : x <= k
        OBVIOUS
    <2> HIDE DEF Below
    <2> QED BY <2>1, <2>2, GreatestNat
<1>4. PICK b \in Above : \A y \in Above : b <= y
    <2>1. Above \subseteq Nat /\ Above # {}
        BY <1>1, <1>2
    <2> HIDE DEF Above
    <2> QED BY <2>1, LeastNat
<1> DEFINE p == [lo |-> a, hi |-> b]
<1>5. a \in B /\ b \in B /\ a \in Nat /\ b \in Nat /\ a <= k /\ k < b
    BY <1>1, <1>3, <1>4
<1>6. \A c \in B : ~ (a < c /\ c < b)
    <2>1. SUFFICES ASSUME NEW c \in B, a < c, c < b PROVE FALSE
        OBVIOUS
    <2>2. c \in Nat
        BY <1>1
    <2>3. CASE c <= k
        BY <2>1, <2>2, <2>3, <1>3, <1>5
    <2>4. CASE k < c
        BY <2>1, <2>2, <2>4, <1>4, <1>5
    <2> QED BY <2>2, <2>3, <2>4
<1>7. p \in partitionRange(S, q)
    <2>1. p \in [lo : B, hi : B] /\ p.lo < p.hi
        BY <1>5
    <2>2. \A c \in B : ~ (p.lo < c /\ c < p.hi)
        BY <1>6
    <2> QED BY <2>1, <2>2 DEF partitionRange, B, Bounds
<1>8. p.lo <= k /\ k < p.hi
    BY <1>5
<1> QED BY <1>7, <1>8

-----------------------------------------------------------------------------
(* Type correctness.                                                       *)

\* What a query answers is typed.
LEMMA AnswerType ==
    ASSUME TypeOK
    PROVE  /\ processQuery(remote, query).have \subseteq Ids(remote)
           /\ \A q \in processQuery(remote, query).enumeratedRanges : q = Everything \/ q \in query
           /\ \A p \in processQuery(remote, query).continueWith : p.lo \in 0..End /\ p.hi \in 0..End
<1>1. \A q \in Enumerated(remote, query) : q = Everything \/ q \in query
    BY DEF Enumerated, Divergent
<1>2. UNION {Ids(InRange(remote, q)) : q \in Enumerated(remote, query)} \subseteq Ids(remote)
    BY DEF Ids, InRange
<1>3. ASSUME NEW q \in Divergent(remote, query), NEW p \in partitionRange(remote, q)
      PROVE  p.lo \in 0..End /\ p.hi \in 0..End
    <2>1. q.lo \in 0..End /\ q.hi \in 0..End
        BY DEF TypeOK, QueryRange, Divergent
    <2>2. remote \in SUBSET Item
        BY DEF TypeOK, Store
    <2> QED BY <2>1, <2>2, PartitionIsRanges
<1> QED BY <1>1, <1>2, <1>3 DEF processQuery

\* Stores and ids.
LEMMA IdsType == ASSUME NEW S \in SUBSET Item PROVE Ids(S) \subseteq Id
BY DEF Ids, Item

\* A query is made of ranges with local fingerprints.
LEMMA FingerprintedType ==
    ASSUME NEW S \in SUBSET Item, NEW q, q.lo \in 0..End, q.hi \in 0..End
    PROVE  Fingerprinted(S, q) \in QueryRange
BY DEF Fingerprinted, QueryRange, InRange

\* Reconciliation keeps its state well typed (Negentropy.ts).
THEOREM TypeCorrect == Spec => []TypeOK
<1>1. Init => TypeOK
    <2> SUFFICES ASSUME Init PROVE TypeOK
        OBVIOUS
    <2>1. local \in SUBSET Item /\ remote \in SUBSET Item
        BY DEF Init, Store
    <2>2. Everything.lo \in 0..End /\ Everything.hi \in 0..End
        BY NegentropyAssumption DEF Everything
    <2>3. query \subseteq QueryRange
        BY <2>1, <2>2, FingerprintedType DEF Init, createQuery
    <2> QED BY <2>1, <2>3, NegentropyAssumption DEF Init, TypeOK
<1>2. TypeOK /\ [Next]_vars => TypeOK'
    <2> SUFFICES ASSUME TypeOK, [Next]_vars PROVE TypeOK'
        OBVIOUS
    <2>1. CASE Round
        <3> DEFINE response == processQuery(remote, query)
        <3>0. local \in SUBSET Item /\ remote \in SUBSET Item
            BY DEF TypeOK, Store
        <3>1. response.have \subseteq Id
            BY <3>0, AnswerType, IdsType
        <3>2. Ids(UNION {InRange(local, q) : q \in response.enumeratedRanges}) \subseteq Id
            BY <3>0 DEF Ids, InRange, Item
        <3>3. {Fingerprinted(local, q) : q \in response.continueWith} \subseteq QueryRange
            BY <3>0, AnswerType, FingerprintedType
        <3> HIDE DEF response
        <3>4. /\ need' = need \cup (response.have \ Ids(local))
              /\ remoteHave' = remoteHave \cup response.have
              /\ excess' = excess \cup (Ids(UNION {InRange(local, q) : q \in response.enumeratedRanges}) \ remoteHave')
              /\ query' = {Fingerprinted(local, q) : q \in response.continueWith}
              /\ phase' \in {"running", "done", "cut", "failed"}
              /\ round < MaxRounds /\ round' = round + 1
              /\ UNCHANGED <<local, remote, changes, steady, ever>>
            BY <2>1 DEF Round, response
        <3>5. round' \in 0..MaxRounds
            BY <3>4, NegentropyAssumption DEF TypeOK
        <3>6. need' \subseteq Id /\ remoteHave' \subseteq Id /\ excess' \subseteq Id /\ query' \subseteq QueryRange
            BY <3>1, <3>2, <3>3, <3>4 DEF TypeOK
        <3> QED BY <3>4, <3>5, <3>6 DEF TypeOK
    <2>2. CASE QueryFails
        BY <2>2 DEF QueryFails, TypeOK
    <2>3. ASSUME NEW i \in Item, StoreGrows(i) PROVE TypeOK'
        <3>1. remote' \in Store
            BY <2>3 DEF StoreGrows, TypeOK, Store, Ids
        <3>2. changes' \in 0..MaxChanges
            BY <2>3, NegentropyAssumption DEF StoreGrows, TypeOK
        <3> QED BY <2>3, <3>1, <3>2 DEF StoreGrows, TypeOK
    <2>4. ASSUME NEW i \in Item, StoreTrims(i) PROVE TypeOK'
        <3>1. remote' \in Store
            BY <2>4 DEF StoreTrims, TypeOK, Store
        <3>2. changes' \in 0..MaxChanges
            BY <2>4, NegentropyAssumption DEF StoreTrims, TypeOK
        <3> QED BY <2>4, <3>1, <3>2 DEF StoreTrims, TypeOK
    <2>5. CASE UNCHANGED vars
        BY <2>5 DEF vars, TypeOK
    <2> QED BY <2>1, <2>2, <2>3, <2>4, <2>5 DEF Next
<1> QED BY <1>1, <1>2, PTL DEF Spec

-----------------------------------------------------------------------------
(* The result of reconcile.                                                *)

\* A key that the next query asks about.
InQuery(k) == query = {} \/ \E q \in query : q.lo <= k /\ k < q.hi

\* The fingerprints of a query are those of the initiator's items.
QueryIsLocal == \A q \in query : q.items = InRange(local, q)

\* What the responder holds is accounted for or asked about.
NeedCovered ==
    phase = "running" => \A i \in steady : i.id \in Ids(local) \cup need \/ InQuery(i.key)

\* What only the initiator holds is accounted for or asked about.
ExcessCovered ==
    phase = "running" => \A i \in local : i.id \in Ids(ever) \cup excess \/ InQuery(i.key)

ResultInv ==
    /\ QueryIsLocal /\ NeedCovered /\ ExcessCovered
    /\ remoteHave \subseteq Ids(ever)
    /\ NeedIsMissing /\ NeedIsComplete /\ ExcessIsComplete

\* An item of either side whose key is asked about is in a matching range, in an
\* enumerated one, or in a part of the next query.
LEMMA RoundSplits ==
    ASSUME TypeOK, NEW i \in Item, InQuery(i.key)
    PROVE  \/ \E q \in query : q.items = InRange(remote, q) /\ q.lo <= i.key /\ i.key < q.hi
           \/ \E q \in Enumerated(remote, query) : q.lo <= i.key /\ i.key < q.hi
           \/ \E p \in processQuery(remote, query).continueWith : p.lo <= i.key /\ i.key < p.hi
<1>0. i.key \in 0..(End - 1) /\ i.key \in Nat
    BY DEF Item
<1>1. CASE query = {}
    <2>1. Enumerated(remote, query) = {Everything}
        BY <1>1 DEF Enumerated
    <2>2. Everything.lo <= i.key /\ i.key < Everything.hi
        BY <1>0, NegentropyAssumption DEF Everything
    <2> QED BY <2>1, <2>2
<1>2. CASE query # {}
    <2>1. PICK q \in query : q.lo <= i.key /\ i.key < q.hi
        BY <1>2 DEF InQuery
    <2>2. CASE q.items = InRange(remote, q)
        BY <2>1, <2>2
    <2>3. CASE q \in Enumerated(remote, query)
        BY <2>1, <2>3
    <2>4. CASE q.items # InRange(remote, q) /\ q \notin Enumerated(remote, query)
        <3>1. q \in Divergent(remote, query) \ Enumerated(remote, query)
            BY <2>4 DEF Divergent
        <3>2. q.lo \in 0..End /\ q.hi \in 0..End /\ remote \in SUBSET Item
            BY DEF TypeOK, QueryRange, Store
        <3>3. PICK p \in partitionRange(remote, q) : p.lo <= i.key /\ i.key < p.hi
            BY <2>1, <3>2, <1>0, PartitionCovers
        <3>4. p \in processQuery(remote, query).continueWith
            BY <3>1, <3>3 DEF processQuery
        <3> QED BY <3>3, <3>4
    <2> QED BY <2>2, <2>3, <2>4
<1> QED BY <1>1, <1>2

\* A round keeps both kinds of cover.
LEMMA RoundKeepsCover ==
    ASSUME TypeOK, ResultInv, Round
    PROVE  ResultInv'
<1> DEFINE response == processQuery(remote, query)
<1>1. /\ need' = need \cup (response.have \ Ids(local))
      /\ remoteHave' = remoteHave \cup response.have
      /\ excess' = excess \cup (Ids(UNION {InRange(local, q) : q \in response.enumeratedRanges}) \ remoteHave')
      /\ query' = {Fingerprinted(local, q) : q \in response.continueWith}
      /\ phase = "running"
      /\ response.continueWith = {} <=> phase' = "done"
      /\ phase' \in {"running", "done", "cut"}
      /\ local' = local /\ remote' = remote /\ steady' = steady /\ ever' = ever
    BY DEF Round, response
<1>2. response.enumeratedRanges = Enumerated(remote, query)
    BY DEF processQuery
<1>3. response.have = UNION {Ids(InRange(remote, q)) : q \in Enumerated(remote, query)}
    BY DEF processQuery
<1>4. response.have \subseteq Ids(ever)
    <2>1. response.have \subseteq Ids(remote)
        BY AnswerType
    <2> HIDE DEF response
    <2> QED BY <2>1 DEF TypeOK, Ids
<1> HIDE DEF response
<1>5. remoteHave' \subseteq Ids(ever)
    BY <1>1, <1>4 DEF ResultInv
<1>6. NeedIsMissing'
    BY <1>1, <1>4 DEF ResultInv, NeedIsMissing
<1>7. QueryIsLocal'
    BY <1>1 DEF QueryIsLocal, Fingerprinted, InRange
<1>8. ASSUME NEW i \in Item,
             \E p \in response.continueWith : p.lo <= i.key /\ i.key < p.hi
      PROVE  phase' # "done" /\ InQuery(i.key)'
    <2>1. PICK p \in response.continueWith : p.lo <= i.key /\ i.key < p.hi
        BY <1>8
    <2>2. Fingerprinted(local, p) \in query'
        BY <2>1, <1>1
    <2>3. Fingerprinted(local, p).lo = p.lo /\ Fingerprinted(local, p).hi = p.hi
        BY DEF Fingerprinted
    <2>4. InQuery(i.key)'
        BY <2>1, <2>2, <2>3 DEF InQuery
    <2> QED BY <2>1, <2>4, <1>1
<1>9. ASSUME NEW i \in steady
      PROVE  i.id \in Ids(local) \cup need' \/ (phase' # "done" /\ InQuery(i.key)')
    <2>1. i \in remote /\ i \in Item
        BY DEF TypeOK, Store
    <2>2. CASE i.id \in Ids(local) \cup need
        BY <2>2, <1>1
    <2>3. CASE \E q \in query : q.items = InRange(remote, q) /\ q.lo <= i.key /\ i.key < q.hi
        <3>1. PICK q \in query : q.items = InRange(remote, q) /\ q.lo <= i.key /\ i.key < q.hi
            BY <2>3
        <3>2. i \in InRange(local, q)
            BY <2>1, <3>1 DEF InRange, ResultInv, QueryIsLocal
        <3> QED BY <3>2 DEF InRange, Ids
    <2>4. CASE \E q \in Enumerated(remote, query) : q.lo <= i.key /\ i.key < q.hi
        <3>1. PICK q \in Enumerated(remote, query) : q.lo <= i.key /\ i.key < q.hi
            BY <2>4
        <3>2. i.id \in Ids(InRange(remote, q))
            BY <2>1, <3>1 DEF InRange, Ids
        <3>3. i.id \in response.have
            BY <3>1, <3>2, <1>3
        <3> QED BY <3>3, <1>1
    <2>5. CASE \E p \in response.continueWith : p.lo <= i.key /\ i.key < p.hi
        BY <2>1, <2>5, <1>8
    <2>6. i.id \in Ids(local) \cup need \/ InQuery(i.key)
        BY <1>1 DEF ResultInv, NeedCovered
    <2> QED BY <2>1, <2>2, <2>3, <2>4, <2>5, <2>6, RoundSplits DEF response
<1>10. ASSUME NEW i \in local
       PROVE  i.id \in Ids(ever) \cup excess' \/ (phase' # "done" /\ InQuery(i.key)')
    <2>1. i \in Item
        BY DEF TypeOK, Store
    <2>2. CASE i.id \in Ids(ever) \cup excess
        BY <2>2, <1>1
    <2>3. CASE \E q \in query : q.items = InRange(remote, q) /\ q.lo <= i.key /\ i.key < q.hi
        <3>1. PICK q \in query : q.items = InRange(remote, q) /\ q.lo <= i.key /\ i.key < q.hi
            BY <2>3
        <3>2. i \in InRange(remote, q)
            BY <3>1 DEF InRange, ResultInv, QueryIsLocal
        <3>3. i \in ever
            BY <3>2 DEF InRange, TypeOK
        <3> QED BY <3>3 DEF Ids
    <2>4. CASE \E q \in Enumerated(remote, query) : q.lo <= i.key /\ i.key < q.hi
        <3>1. PICK q \in response.enumeratedRanges : q.lo <= i.key /\ i.key < q.hi
            BY <2>4, <1>2
        <3>2. i \in UNION {InRange(local, r) : r \in response.enumeratedRanges}
            BY <3>1 DEF InRange
        <3>3. i.id \in Ids(UNION {InRange(local, r) : r \in response.enumeratedRanges})
            BY <3>2 DEF Ids
        <3> QED BY <3>3, <1>1, <1>5
    <2>5. CASE \E p \in response.continueWith : p.lo <= i.key /\ i.key < p.hi
        BY <2>1, <2>5, <1>8
    <2>6. i.id \in Ids(ever) \cup excess \/ InQuery(i.key)
        BY <1>1 DEF ResultInv, ExcessCovered
    <2> QED BY <2>1, <2>2, <2>3, <2>4, <2>5, <2>6, RoundSplits DEF response
<1>11. NeedCovered' /\ NeedIsComplete'
    BY <1>9, <1>1 DEF NeedCovered, NeedIsComplete, Ids
<1>12. ExcessCovered' /\ ExcessIsComplete'
    BY <1>10, <1>1 DEF ExcessCovered, ExcessIsComplete, Ids
<1> QED BY <1>1, <1>5, <1>6, <1>7, <1>11, <1>12 DEF ResultInv

\* The invariant behind the result of reconcile (Negentropy.ts 142-193).
THEOREM ResultInvariant == Spec => []ResultInv
<1>1. Init => ResultInv
    <2> SUFFICES ASSUME Init PROVE ResultInv
        OBVIOUS
    <2>1. QueryIsLocal
        BY DEF Init, createQuery, QueryIsLocal, Fingerprinted, InRange
    <2>2. \A i \in Item : InQuery(i.key)
        <3>1. CASE local = {}
            BY <3>1 DEF Init, createQuery, InQuery
        <3>2. CASE local # {}
            <4>1. Fingerprinted(local, Everything) \in query
                BY <3>2 DEF Init, createQuery
            <4>2. \A i \in Item : 0 <= i.key /\ i.key < End
                BY NegentropyAssumption DEF Item
            <4>3. Fingerprinted(local, Everything).lo = 0 /\ Fingerprinted(local, Everything).hi = End
                BY DEF Fingerprinted, Everything
            <4> QED BY <4>1, <4>2, <4>3 DEF InQuery
        <3> QED BY <3>1, <3>2
    <2>3. local \in SUBSET Item /\ steady \in SUBSET Item
        BY DEF Init, Store
    <2> QED BY <2>1, <2>2, <2>3 DEF Init, ResultInv, NeedCovered, ExcessCovered,
               NeedIsMissing, NeedIsComplete, ExcessIsComplete
<1>2. TypeOK /\ ResultInv /\ [Next]_vars => ResultInv'
    <2> SUFFICES ASSUME TypeOK, ResultInv, [Next]_vars PROVE ResultInv'
        OBVIOUS
    <2>1. CASE Round
        BY <2>1, RoundKeepsCover
    <2>2. CASE QueryFails
        BY <2>2 DEF QueryFails, ResultInv, QueryIsLocal, NeedCovered, ExcessCovered,
                    NeedIsMissing, NeedIsComplete, ExcessIsComplete, InQuery
    <2>3. ASSUME NEW i \in Item, StoreGrows(i) PROVE ResultInv'
        <3>1. Ids(ever) \subseteq Ids(ever')
            BY <2>3 DEF StoreGrows, Ids
        <3>2. UNCHANGED <<local, query, need, remoteHave, excess, phase, steady>>
            BY <2>3 DEF StoreGrows
        <3>3. QueryIsLocal' /\ NeedCovered' /\ NeedIsComplete'
            BY <3>2 DEF ResultInv, QueryIsLocal, NeedCovered, NeedIsComplete, InQuery
        <3>4. ExcessCovered' /\ ExcessIsComplete' /\ NeedIsMissing' /\ remoteHave' \subseteq Ids(ever')
            BY <3>1, <3>2 DEF ResultInv, ExcessCovered, ExcessIsComplete, NeedIsMissing, InQuery
        <3> QED BY <3>3, <3>4 DEF ResultInv
    <2>4. ASSUME NEW i \in Item, StoreTrims(i) PROVE ResultInv'
        <3>1. steady' \subseteq steady
            BY <2>4 DEF StoreTrims
        <3>2. UNCHANGED <<local, query, need, remoteHave, excess, phase, ever>>
            BY <2>4 DEF StoreTrims
        <3>3. QueryIsLocal' /\ ExcessCovered' /\ ExcessIsComplete' /\ NeedIsMissing' /\ remoteHave' \subseteq Ids(ever')
            BY <3>2 DEF ResultInv, QueryIsLocal, ExcessCovered, ExcessIsComplete, NeedIsMissing, InQuery
        <3>4. Ids(steady') \subseteq Ids(steady)
            BY <3>1 DEF Ids
        <3>5. NeedCovered' /\ NeedIsComplete'
            BY <3>1, <3>2, <3>4 DEF ResultInv, NeedCovered, NeedIsComplete, InQuery
        <3> QED BY <3>3, <3>5 DEF ResultInv
    <2>5. CASE UNCHANGED vars
        BY <2>5 DEF vars, ResultInv, QueryIsLocal, NeedCovered, ExcessCovered,
                    NeedIsMissing, NeedIsComplete, ExcessIsComplete, InQuery
    <2> QED BY <2>1, <2>2, <2>3, <2>4, <2>5 DEF Next
<1> QED BY <1>1, <1>2, TypeCorrect, PTL DEF Spec

\* Whatever reaches or leaves the responder's store between rounds, reconcile
\* asks for what the responder held all along and the initiator lacks.
THEOREM NothingIsMissed == Spec => []NeedIsComplete
<1>1. ResultInv => NeedIsComplete
    BY DEF ResultInv
<1> QED BY <1>1, ResultInvariant, PTL

\* It asks for nothing that the initiator has or the responder never had.
THEOREM NothingIsAskedInVain == Spec => []NeedIsMissing
<1>1. ResultInv => NeedIsMissing
    BY DEF ResultInv
<1> QED BY <1>1, ResultInvariant, PTL

\* It pushes every message that the responder never had.
THEOREM NothingIsKeptBack == Spec => []ExcessIsComplete
<1>1. ResultInv => ExcessIsComplete
    BY DEF ResultInv
<1> QED BY <1>1, ResultInvariant, PTL

\* One round of reconcile pushes no message that the responder held all along under the
\* local key: it lies in every range its local copy lies in, so that an enumerated range
\* with the local copy lists it.
LEMMA RoundKeepsExcess ==
    ASSUME TypeOK, ExcessIsMissing, Round
    PROVE  ExcessIsMissing'
<1> DEFINE response == processQuery(remote, query)
           listed == UNION {InRange(local, q) : q \in response.enumeratedRanges}
<1>1. /\ remoteHave' = remoteHave \cup response.have
      /\ excess' = excess \cup (Ids(listed) \ remoteHave')
      /\ local' = local /\ steady' = steady
    BY DEF Round
<1>2. SUFFICES ASSUME NEW i \in local \cap steady, i.id \in Ids(listed)
               PROVE  i.id \in response.have
    BY <1>1 DEF ExcessIsMissing, Ids
<1>3. PICK j \in listed : j.id = i.id
    BY <1>2 DEF Ids
<1>4. PICK q \in response.enumeratedRanges : j \in InRange(local, q)
    BY <1>3
<1>5. i = j
    BY <1>2, <1>3, <1>4 DEF TypeOK, Store, InRange
<1>6. i \in InRange(remote, q)
    BY <1>4, <1>5 DEF TypeOK, InRange
<1>7. q \in Enumerated(remote, query)
    BY <1>4 DEF processQuery
<1> QED BY <1>6, <1>7 DEF processQuery, Ids

\* A reconciliation pushes no message that the responder holds all along under the same
\* key, whatever the ranges it was split into and whatever changed between the rounds.
THEOREM NothingIsPushedBack == Spec => []ExcessIsMissing
<1>1. Init => ExcessIsMissing
    BY DEF Init, ExcessIsMissing
<1>2. TypeOK /\ ExcessIsMissing /\ [Next]_vars => ExcessIsMissing'
    <2> SUFFICES ASSUME TypeOK, ExcessIsMissing, [Next]_vars PROVE ExcessIsMissing'
        OBVIOUS
    <2>1. CASE Round
        BY <2>1, RoundKeepsExcess
    <2>2. CASE QueryFails
        BY <2>2 DEF QueryFails, ExcessIsMissing
    <2>3. CASE \E i \in Item : StoreGrows(i) \/ StoreTrims(i)
        <3>1. excess' = excess /\ local' = local /\ steady' \subseteq steady
            BY <2>3 DEF StoreGrows, StoreTrims
        <3> QED BY <3>1 DEF ExcessIsMissing, Ids
    <2>4. CASE UNCHANGED vars
        BY <2>4 DEF vars, ExcessIsMissing
    <2> QED BY <2>1, <2>2, <2>3, <2>4 DEF Next
<1> QED BY <1>1, <1>2, TypeCorrect, PTL DEF Spec

-----------------------------------------------------------------------------
(* Splitting reaches enumeration before the rounds run out.  A split range *)
(* has at most a SplitBuckets-th of the items, rounded up, in any part; an *)
(* item that arrives meanwhile costs at most one more round.               *)

\* The items below a key: as many as the position of the item with that key.
Before(T, k) == {f \in T : f.key < k}

\* Division of naturals.
LEMMA Quotient ==
    ASSUME NEW x \in Nat, NEW n \in Nat, n > 0
    PROVE  x \div n \in Nat /\ n * (x \div n) <= x /\ x < n * (x \div n) + n
OBVIOUS

\* Neighbouring cuts are at most k positions apart, so one of them lies in any longer
\* stretch of positions.
LEMMA CutBetween ==
    ASSUME NEW m \in Nat, m > 0, NEW n \in Nat, n > 0, NEW k \in Nat, n <= m * k,
           NEW a \in Nat, NEW b \in Nat, b <= n, b - a > k
    PROVE  \E i \in 1..(m - 1) : a < (i * n) \div m /\ (i * n) \div m < b
<1> DEFINE x == (a + 1) * m - 1
           i == x \div n
           u == (i * n) \div m
           v == ((i + 1) * n) \div m
<1>1. x \in Nat /\ x + 1 = (a + 1) * m
    <2>1. (a + 1) * m = a * m + m /\ a * m \in Nat
        OBVIOUS
    <2> QED BY <2>1
<1>2. i \in Nat /\ i * n <= x /\ x < i * n + n
    BY <1>1, Quotient
<1> HIDE DEF i, x
<1>3. i * n \in Nat /\ (i + 1) * n \in Nat /\ (i + 1) * n = i * n + n
    BY <1>2
<1>4. u \in Nat /\ m * u <= i * n /\ i * n < m * u + m
    BY <1>3, Quotient
<1>5. v \in Nat /\ m * v <= (i + 1) * n /\ (i + 1) * n < m * v + m
    BY <1>3, Quotient
<1> HIDE DEF u, v
<1>6. u <= a
    <2>1. m * u < m * (a + 1)
        BY <1>1, <1>2, <1>3, <1>4
    <2> QED BY <1>4, <2>1
<1>7. a < v
    <2>1. m * (a + 1) < m * (v + 1)
        BY <1>1, <1>2, <1>3, <1>5
    <2> QED BY <1>5, <2>1
<1>8. v - u <= k
    <2>1. m * (v - u) < n + m
        BY <1>3, <1>4, <1>5
    <2>2. m * (v - u) < m * (k + 1)
        <3>1. m * (v - u) \in Int /\ m * k \in Int /\ m * (k + 1) = m * k + m
            BY <1>4, <1>5
        <3> QED BY <2>1, <3>1
    <2> QED BY <1>4, <1>5, <2>2
<1>9. v < b
    BY <1>4, <1>5, <1>6, <1>8
<1>10. i + 1 <= m - 1
    <2>1. (i + 1) * n < m * n
        <3>1. v + 1 <= n
            BY <1>5, <1>9
        <3>2. m * (v + 1) <= m * n
            BY <1>5, <3>1
        <3> QED BY <1>3, <1>5, <3>2
    <2> QED BY <1>2, <2>1
<1>11. i + 1 \in 1..(m - 1) /\ a < ((i + 1) * n) \div m /\ ((i + 1) * n) \div m < b
    BY <1>2, <1>7, <1>9, <1>10 DEF v
<1> QED BY <1>11, Zenon

\* In a store different items have different keys.
LEMMA KeysDiffer ==
    ASSUME NEW S \in Store, NEW x \in S, NEW y \in S, x.key = y.key
    PROVE  x = y
<1>1. x \in Item /\ y \in Item
    BY DEF Store
<1>2. x.id = y.id
    BY <1>1, NegentropyAssumption DEF Item
<1> QED BY <1>2 DEF Store

\* There is an item at every position.
LEMMA EveryPosition ==
    ASSUME NEW T, T \subseteq Item, IsFiniteSet(T), \A x, y \in T : x.key = y.key => x = y,
           NEW j \in 0..(Cardinality(T) - 1)
    PROVE  \E z \in T : Cardinality(Before(T, z.key)) = j
<1> DEFINE n == Cardinality(T)
           f == [x \in T |-> Cardinality(Before(T, x.key))]
<1>0. n \in Nat
    BY FS_CardinalityType
<1>a. \A x \in T : x.key \in Nat
    BY NegentropyAssumption DEF Item
<1>1. ASSUME NEW x \in T PROVE f[x] \in 0..(n - 1)
    <2>1. Before(T, x.key) \in SUBSET (T \ {x})
        BY <1>a DEF Before
    <2>2. IsFiniteSet(T \ {x}) /\ Cardinality(T \ {x}) = n - 1
        BY FS_RemoveElement
    <2>3. IsFiniteSet(Before(T, x.key)) /\ Cardinality(Before(T, x.key)) <= n - 1
        BY <2>1, <2>2, FS_Subset
    <2>4. Cardinality(Before(T, x.key)) \in Nat
        BY <2>3, FS_CardinalityType
    <2> QED BY <1>0, <2>3, <2>4
<1>2. ASSUME NEW x \in T, NEW y \in T, x.key < y.key PROVE f[x] # f[y]
    <2>1. Before(T, x.key) \in SUBSET Before(T, y.key) /\ Before(T, x.key) # Before(T, y.key)
        BY <1>a, <1>2 DEF Before
    <2>2. Before(T, y.key) \in SUBSET T
        BY DEF Before
    <2>3. IsFiniteSet(Before(T, y.key))
        BY <2>2, FS_Subset
    <2>4. Cardinality(Before(T, y.key)) # Cardinality(Before(T, x.key))
        BY <2>1, <2>3, FS_Subset
    <2> QED BY <2>4
<1>3. \A x, y \in T : f[x] = f[y] => x = y
    BY <1>a, <1>2
<1>4. f \in Injection(T, 0..(n - 1))
    <2>1. f \in [T -> 0..(n - 1)]
        BY <1>1
    <2> QED BY <1>3, <2>1 DEF Injection, IsInjective
<1>5. IsFiniteSet(0..(n - 1)) /\ Cardinality(0..(n - 1)) = n
    BY <1>0, FS_Interval
<1>6. f \in Surjection(T, 0..(n - 1))
    BY <1>4, <1>5, FS_Injection
<1>7. \E z \in T : f[z] = j
    BY <1>6 DEF Surjection
<1> QED BY <1>7

\* A part of a split range holds at most a SplitBuckets-th of its items, rounded up.
LEMMA PartIsSmaller ==
    ASSUME NEW S \in Store, IsFiniteSet(S), SplitBuckets >= 2,
           NEW lo \in 0..End, NEW hi \in 0..End, NEW q, q.lo = lo, q.hi = hi,
           NEW k \in Nat, Cardinality(InRange(S, q)) >= 2,
           Cardinality(InRange(S, q)) <= SplitBuckets * k,
           NEW p \in partitionRange(S, q)
    PROVE  Cardinality(InRange(S, p)) <= k
<1> DEFINE T == InRange(S, q)
           n == Cardinality(T)
           m == Least(SplitBuckets, n)
           low == Before(T, p.lo)
           high == Before(T, p.hi)
<1>0. T \in SUBSET S /\ T \subseteq Item /\ SplitBuckets \in Nat /\ End \in Nat
    BY NegentropyAssumption DEF InRange, Store
<1>a. /\ \A x \in S : x.key \in Nat
      /\ \A x \in T : x.key \in Nat /\ lo <= x.key /\ x.key < hi
    BY <1>0 DEF InRange, Item, Store
<1>b. \A x, y \in T : x.key = y.key => x = y
    BY <1>0, KeysDiffer
<1>c. IsFiniteSet(T) /\ n \in Nat /\ n >= 2
    BY <1>0, FS_Subset, FS_CardinalityType
<1>1. /\ m \in Nat /\ m >= 2 /\ n <= m * k
    <2>1. k >= 1
        BY <1>0, <1>c
    <2>2. n <= n * k
        BY <1>c, <2>1
    <2> QED BY <1>0, <1>c, <2>1, <2>2 DEF Least
<1>2. \A x \in T : (\E i \in 1..(m - 1) : Cardinality(Before(T, x.key)) = (i * n) \div m)
                     => x.key \in Cuts(T)
    BY DEF Cuts, Before
<1>3. /\ p.lo \in Nat /\ p.hi \in Nat /\ p.lo < p.hi /\ lo <= p.lo /\ p.hi <= hi
      /\ \A c \in Cuts(T) : ~ (p.lo < c /\ c < p.hi)
    <2>1. \A c \in Cuts(T) : c \in Nat /\ lo <= c /\ c < hi
        BY <1>a DEF Cuts
    <2>2. lo <= hi
        <3>1. T # {}
            BY <1>c, FS_EmptySet
        <3> QED BY <1>a, <3>1
    <2> QED BY <2>1, <2>2 DEF partitionRange
<1> HIDE DEF m, n
<1>4. InRange(S, p) = high \ low /\ low \in SUBSET high /\ high \in SUBSET T
    <2>1. lo \in Nat /\ hi \in Nat
        BY <1>0
    <2>2. \A x \in S : p.lo <= x.key /\ x.key < p.hi => x \in T
        BY <1>a, <1>3, <2>1 DEF InRange
    <2> QED BY <1>a, <1>3, <2>2 DEF InRange, Before
<1>5. /\ IsFiniteSet(high) /\ IsFiniteSet(low)
      /\ Cardinality(high) \in Nat /\ Cardinality(low) \in Nat /\ Cardinality(high) <= n
    BY <1>4, <1>c, FS_Subset, FS_CardinalityType DEF n
<1>6. Cardinality(InRange(S, p)) = Cardinality(high) - Cardinality(low)
    <2>1. high \cap low = low
        BY <1>4
    <2> QED BY <1>4, <1>5, <2>1, FS_Difference
<1>7. SUFFICES ASSUME Cardinality(high) - Cardinality(low) > k PROVE FALSE
    BY <1>5, <1>6
<1>8. PICK i \in 1..(m - 1) : /\ Cardinality(low) < (i * n) \div m
                              /\ (i * n) \div m < Cardinality(high)
    <2>1. m > 0 /\ n > 0
        BY <1>1, <1>c
    <2> QED BY <1>1, <1>5, <1>7, <1>c, <2>1, CutBetween, Zenon
<1>9. (i * n) \div m \in 0..(n - 1)
    <2>1. i * n \in Nat
        BY <1>c
    <2>2. (i * n) \div m \in Nat
        BY <1>1, <2>1, Quotient
    <2> QED BY <1>5, <1>8, <1>c, <2>2
<1>10. PICK z \in T : Cardinality(Before(T, z.key)) = (i * n) \div m
    BY <1>0, <1>9, <1>b, <1>c, EveryPosition DEF n
<1>11. z.key \in Cuts(T)
    BY <1>2, <1>10
<1>12. p.lo < z.key
    <2>1. SUFFICES ASSUME z.key <= p.lo PROVE FALSE
        BY <1>3, <1>a
    <2>2. Before(T, z.key) \in SUBSET low
        BY <1>3, <1>a, <2>1 DEF Before
    <2>3. Cardinality(Before(T, z.key)) <= Cardinality(low)
        BY <1>5, <2>2, FS_Subset
    <2> QED BY <1>5, <1>8, <1>9, <1>10, <2>3
<1>13. z.key < p.hi
    <2>1. SUFFICES ASSUME p.hi <= z.key PROVE FALSE
        BY <1>3, <1>a
    <2>2. high \in SUBSET Before(T, z.key) /\ Before(T, z.key) \in SUBSET T
        BY <1>3, <1>a, <2>1 DEF Before
    <2>3. Cardinality(high) <= Cardinality(Before(T, z.key))
        BY <1>c, <2>2, FS_Subset
    <2> QED BY <1>5, <1>8, <1>9, <1>10, <2>3
<1> QED BY <1>3, <1>11, <1>12, <1>13

\* The rounds left over when every change still to come costs one.
Spare == MaxRounds - 1 - round - (MaxChanges - changes)

\* The ranges of the next query are small enough for the rounds left, where power[e] is
\* SplitBuckets to the e.
Shrinking(power) ==
    /\ phase # "cut"
    /\ phase = "running" =>
         /\ Spare >= 0
         /\ \A q \in query : Cardinality(InRange(remote, q)) <= power[Spare]

\* A store has at most as many items as there are ids.
LEMMA StoreIsSmall ==
    ASSUME IsFiniteSet(Id), NEW S \in Store
    PROVE  IsFiniteSet(S) /\ Cardinality(S) <= Cardinality(Id)
<1> DEFINE f == [x \in S |-> x.id]
<1>1. \A x, y \in S : x.id = y.id => x = y
    BY DEF Store
<1>2. \A x \in S : x.id \in Id
    BY DEF Store, Item
<1>3. f \in Injection(S, Id)
    BY <1>1, <1>2 DEF Injection, IsInjective
<1> QED BY <1>3, FS_Injection

\* So does any range of it.
LEMMA RangeIsSmall ==
    ASSUME NEW S, IsFiniteSet(S), NEW q
    PROVE  /\ IsFiniteSet(InRange(S, q)) /\ Cardinality(InRange(S, q)) \in Nat
           /\ Cardinality(InRange(S, q)) <= Cardinality(S)
<1>1. InRange(S, q) \in SUBSET S
    BY DEF InRange
<1> QED BY <1>1, FS_Subset, FS_CardinalityType

\* A round divides the ranges that go on by SplitBuckets.
LEMMA RoundShrinks ==
    ASSUME IsFiniteSet(Id), SplitBuckets >= 2,
           NEW power \in [Nat -> Nat], power[0] = 1,
           \A e \in Nat : power[e + 1] = SplitBuckets * power[e],
           TypeOK, Shrinking(power), Round
    PROVE  Shrinking(power)'
<1> DEFINE next == processQuery(remote, query).continueWith
<1>0. /\ remote \in Store /\ IsFiniteSet(remote) /\ query \subseteq QueryRange
      /\ SplitBuckets \in Nat /\ MaxRounds \in Nat /\ round \in Nat
      /\ MaxChanges \in Nat /\ changes \in 0..MaxChanges
    BY StoreIsSmall, NegentropyAssumption DEF TypeOK
<1>1. /\ phase = "running" /\ round' = round + 1 /\ UNCHANGED <<remote, changes>>
      /\ phase' = IF next = {} THEN "done"
                  ELSE IF round + 1 = MaxRounds THEN "cut" ELSE "running"
      /\ query' = {Fingerprinted(local, p) : p \in next}
    BY DEF Round
<1>2. /\ Spare \in Nat /\ Spare' = Spare - 1
      /\ \A q \in query : Cardinality(InRange(remote, q)) <= power[Spare]
    BY <1>0, <1>1 DEF Shrinking, Spare
<1>3. ASSUME NEW p \in next
      PROVE  Spare >= 1 /\ Cardinality(InRange(remote, p)) <= power[Spare - 1]
    <2>1. PICK q \in query : p \in partitionRange(remote, q) /\ ~ IsSmall(remote, q)
        BY <1>3 DEF processQuery, Enumerated, Divergent
    <2>2. q.lo \in 0..End /\ q.hi \in 0..End
        BY <1>0 DEF QueryRange
    <2>3. Cardinality(InRange(remote, q)) \in Nat /\ Cardinality(InRange(remote, q)) >= 2
        BY <1>0, <2>1, RangeIsSmall DEF IsSmall
    <2>4. Spare >= 1
        BY <1>2, <2>3
    <2>5. /\ Spare - 1 \in Nat /\ power[Spare - 1] \in Nat
          /\ power[Spare] = SplitBuckets * power[Spare - 1]
        <3>1. Spare - 1 \in Nat /\ (Spare - 1) + 1 = Spare
            BY <1>2, <2>4
        <3> QED BY <3>1
    <2>6. Cardinality(InRange(remote, q)) <= SplitBuckets * power[Spare - 1]
        BY <1>2, <2>5
    <2>7. Cardinality(InRange(remote, p)) <= power[Spare - 1]
        BY <1>0, <2>1, <2>2, <2>3, <2>5, <2>6, PartIsSmaller
    <2> QED BY <2>4, <2>7
<1>4. phase' # "cut"
    <2>1. ASSUME next # {} PROVE round + 1 # MaxRounds
        <3>1. Spare >= 1
            BY <1>3, <2>1
        <3> QED BY <1>0, <3>1 DEF Spare
    <2> HIDE DEF next
    <2> QED BY <1>1, <2>1
<1>5. ASSUME phase' = "running"
      PROVE  Spare' >= 0 /\ \A q \in query' : Cardinality(InRange(remote', q)) <= power[Spare']
    <2>1. next # {}
        BY <1>1, <1>5
    <2>2. \A p \in next : InRange(remote, Fingerprinted(local, p)) = InRange(remote, p)
        BY DEF Fingerprinted, InRange
    <2> HIDE DEF next
    <2> QED BY <1>1, <1>2, <1>3, <2>1, <2>2
<1> QED BY <1>4, <1>5 DEF Shrinking

\* A change of the responder's store costs at most one round.
LEMMA ChangeShrinks ==
    ASSUME IsFiniteSet(Id), SplitBuckets >= 2,
           NEW power \in [Nat -> Nat \ {0}], \A e \in Nat : power[e + 1] = SplitBuckets * power[e],
           TypeOK, Shrinking(power), NEW i \in Item, StoreGrows(i) \/ StoreTrims(i)
    PROVE  Shrinking(power)'
<1>0. /\ IsFiniteSet(remote) /\ SplitBuckets \in Nat /\ MaxRounds \in Nat /\ round \in Nat
      /\ MaxChanges \in Nat /\ changes \in 0..MaxChanges
    BY StoreIsSmall, NegentropyAssumption DEF TypeOK
<1>1. /\ changes' = changes + 1 /\ UNCHANGED <<phase, query, round>>
      /\ remote' \subseteq remote \cup {i}
    BY DEF StoreGrows, StoreTrims
<1>2. SUFFICES ASSUME phase = "running"
               PROVE  Spare' >= 0 /\ \A q \in query : Cardinality(InRange(remote', q)) <= power[Spare']
    BY <1>1 DEF Shrinking
<1>3. /\ Spare \in Nat /\ Spare' = Spare + 1
      /\ \A q \in query : Cardinality(InRange(remote, q)) <= power[Spare]
    BY <1>0, <1>1, <1>2 DEF Shrinking, Spare
<1>4. power[Spare'] >= power[Spare] + 1
    <2>1. power[Spare'] = SplitBuckets * power[Spare] /\ power[Spare] \in Nat \ {0}
        BY <1>3
    <2> QED BY <1>0, <2>1
<1>5. ASSUME NEW q \in query
      PROVE  Cardinality(InRange(remote', q)) <= power[Spare']
    <2>1. InRange(remote', q) \in SUBSET (InRange(remote, q) \cup {i})
        BY <1>1 DEF InRange
    <2>2. IsFiniteSet(InRange(remote, q)) /\ Cardinality(InRange(remote, q)) \in Nat
        BY <1>0, RangeIsSmall
    <2>3. /\ IsFiniteSet(InRange(remote, q) \cup {i})
          /\ Cardinality(InRange(remote, q) \cup {i}) <= Cardinality(InRange(remote, q)) + 1
        <3>1. /\ IsFiniteSet(InRange(remote, q) \cup {i})
              /\ \/ Cardinality(InRange(remote, q) \cup {i}) = Cardinality(InRange(remote, q))
                 \/ Cardinality(InRange(remote, q) \cup {i}) = Cardinality(InRange(remote, q)) + 1
            BY <2>2, FS_AddElement, Zenon
        <3> QED BY <2>2, <3>1
    <2>4. /\ Cardinality(InRange(remote', q)) <= Cardinality(InRange(remote, q) \cup {i})
          /\ Cardinality(InRange(remote', q)) \in Nat
          /\ Cardinality(InRange(remote, q) \cup {i}) \in Nat
        BY <2>1, <2>3, FS_Subset, FS_CardinalityType
    <2>5. power[Spare] \in Nat /\ power[Spare'] \in Nat
        BY <1>3
    <2> QED BY <1>3, <1>4, <2>2, <2>3, <2>4, <2>5
<1> QED BY <1>3, <1>5

\* reconcile never runs out of rounds with ranges still to compare: if there are at most
\* SplitBuckets to the e messages, and at most that many rounds less than allowed are spent
\* on changes, every range is enumerated in time.  The function power is given by its
\* recursion: power[e] is SplitBuckets to the e.
THEOREM SplittingEnds ==
    ASSUME IsFiniteSet(Id), SplitBuckets >= 2, MaxChanges < MaxRounds,
           NEW power \in [Nat -> Nat \ {0}], power[0] = 1,
           \A e \in Nat : power[e + 1] = SplitBuckets * power[e],
           Cardinality(Id) <= power[MaxRounds - 1 - MaxChanges]
    PROVE  Spec => []NeverCut
<1>0. MaxRounds - 1 - MaxChanges \in Nat /\ Cardinality(Id) \in Nat
    BY NegentropyAssumption, FS_CardinalityType
<1>1. Init => Shrinking(power)
    <2> SUFFICES ASSUME Init PROVE Shrinking(power)
        OBVIOUS
    <2>1. Spare = MaxRounds - 1 - MaxChanges /\ phase = "running"
        BY NegentropyAssumption DEF Init, Spare
    <2>2. ASSUME NEW q \in query PROVE Cardinality(InRange(remote, q)) <= power[Spare]
        <3>1. IsFiniteSet(remote) /\ Cardinality(remote) <= Cardinality(Id)
            BY StoreIsSmall DEF Init
        <3>2. /\ Cardinality(InRange(remote, q)) \in Nat /\ Cardinality(remote) \in Nat
              /\ Cardinality(InRange(remote, q)) <= Cardinality(remote)
            BY <3>1, RangeIsSmall, FS_CardinalityType
        <3>3. power[Spare] \in Nat
            BY <1>0, <2>1
        <3> QED BY <1>0, <2>1, <3>1, <3>2, <3>3
    <2> QED BY <1>0, <2>1, <2>2 DEF Shrinking
<1>2. TypeOK /\ Shrinking(power) /\ [Next]_vars => Shrinking(power)'
    <2> SUFFICES ASSUME TypeOK, Shrinking(power), [Next]_vars PROVE Shrinking(power)'
        OBVIOUS
    <2>1. CASE Round
        <3>1. power \in [Nat -> Nat]
            OBVIOUS
        <3> QED BY <2>1, <3>1, RoundShrinks
    <2>2. CASE QueryFails
        BY <2>2 DEF QueryFails, Shrinking
    <2>3. CASE \E i \in Item : StoreGrows(i) \/ StoreTrims(i)
        BY <2>3, ChangeShrinks
    <2>4. CASE UNCHANGED vars
        BY <2>4 DEF vars, Shrinking, Spare
    <2> QED BY <2>1, <2>2, <2>3, <2>4 DEF Next
<1>3. Shrinking(power) => NeverCut
    BY DEF Shrinking, NeverCut
<1> QED BY <1>1, <1>2, <1>3, TypeCorrect, PTL DEF Spec
=============================================================================
