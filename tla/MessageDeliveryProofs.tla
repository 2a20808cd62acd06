----------------------- MODULE MessageDeliveryProofs -----------------------
(***************************************************************************)
(* Proofs about MessageDelivery, for any number of messages, recipients,   *)
(* replays and faults, in channels and direct conversations, busy or not.  *)
(***************************************************************************)
EXTENDS MessageDelivery, FiniteSetTheorems, SequenceTheorems, TLAPS

-----------------------------------------------------------------------------
(* Types.                                                                  *)

\* A receipt raises the status to one that exists and keeps the lists.
LEMMA RaisedType ==
  ASSUME NEW e \in Entry
  PROVE  /\ Raised(e) \in Entry
         /\ Raised(e).acked = e.acked /\ Raised(e).read = e.read /\ Raised(e).shown = e.shown
BY DEF Raised, Entry

\* A receipt leaves a well-typed message.
LEMMA ReceiptType ==
  ASSUME NEW e \in Entry, NEW r \in Recipient, NEW kind
  PROVE  applyMessageReceipt(e, r, kind) \in Entry
<1> DEFINE f == [e EXCEPT !.acked = @ \cup {r}, !.read = IF kind = "read" THEN @ \cup {r} ELSE @]
<1>1. f \in Entry
  BY DEF Entry
<1> QED
  BY <1>1, RaisedType DEF applyMessageReceipt

\* A lane leads from a peer to a recipient.
LEMMA LaneParts ==
  ASSUME NEW l \in Lane
  PROVE  l[2] \in Recipient /\ l[1] \in Recipient \cup {Sender}
BY DEF Lane

\* The sender has a lane to every recipient.
LEMMA SenderLane ==
  ASSUME NEW r \in Recipient
  PROVE  <<Sender, r>> \in Lane
BY DeliveryAssumption DEF Lane

\* The rows of a finite table, in some order, are an array without repetition.
LEMMA RestoredArray ==
  ASSUME NEW S \in SUBSET Msg, NEW s \in SetToSeqs(S)
  PROVE  s \in Seq(Msg) /\ IsInjective(s)
<1>1. IsFiniteSet(S)
  BY DeliveryAssumption, FS_Subset
<1>2. Cardinality(S) \in Nat
  BY <1>1, FS_CardinalityType
<1>3. s \in [1..Cardinality(S) -> S] /\ \A i, j \in 1..Cardinality(S) : i # j => s[i] # s[j]
  BY DEF SetToSeqs
<1> QED
  BY <1>2, <1>3 DEF IsInjective

\* The initial state is well typed.
LEMMA TypeInit == Init => TypeOK
BY DeliveryAssumption DEF Init, TypeOK, Entry, Replay, LaneType, Unwritten, NotFlushing, Idle

-----------------------------------------------------------------------------
SenderTypes ==
    /\ log \in [Msg -> Entry] /\ saved \in [Msg -> Entry]
    /\ todo \in [Msg -> SUBSET Recipient] /\ sending \subseteq Msg
    /\ queue \in [Recipient -> SUBSET Msg]
    /\ flush \in [Recipient -> Replay]
    /\ retry \in [Recipient -> SUBSET Msg]

NetTypes ==
    /\ ready \subseteq Recipient
    /\ net \in [Lane -> Seq(Msg)]
    /\ receipts \subseteq [kind : {"ack", "read"}, from : Recipient, msg : Msg,
                           via : Recipient \cup {Sender}]

StoreTypes ==
    /\ mem \in [Recipient -> Seq(Msg)] /\ disk \in [Recipient -> SUBSET Msg]
    /\ seen \in [Recipient -> SUBSET Msg] /\ gossiped \in [Recipient -> SUBSET Msg]
    /\ viewed \in [Recipient -> SUBSET Msg]

CounterTypes == replays \in 0..MaxReplays /\ faults \in 0..MaxFaults

\* The type invariant, by owner.
LEMMA TypeParts ==
  TypeOK <=> SenderTypes /\ NetTypes /\ StoreTypes /\ CounterTypes /\ lane \in [Lane -> LaneType]
BY DEF TypeOK, SenderTypes, NetTypes, StoreTypes, CounterTypes

\* Every step of the sender keeps its types.
LEMMA SenderTypeStep ==
  ASSUME TypeOK, SenderStep
  PROVE  SenderTypes' /\ NetTypes' /\ CounterTypes' /\ UNCHANGED recipientVars
<1> USE DeliveryAssumption
<1>0. SenderTypes /\ NetTypes /\ CounterTypes
  BY TypeParts
<1>1. ASSUME NEW m \in Msg, Compose(m)
      PROVE  SenderTypes' /\ NetTypes' /\ CounterTypes' /\ UNCHANGED recipientVars
  BY <1>0, <1>1 DEF Compose, SenderTypes, NetTypes, CounterTypes, Entry, Unwritten, counters, recipientVars
<1>2. ASSUME NEW m \in Msg, DispatchFailed(m)
      PROVE  SenderTypes' /\ NetTypes' /\ CounterTypes' /\ UNCHANGED recipientVars
  BY <1>0, <1>2 DEF DispatchFailed, SenderTypes, NetTypes, CounterTypes, counters, recipientVars
<1>3. ASSUME NEW m \in Msg, EndLoop(m)
      PROVE  log' \in [Msg -> Entry] /\ saved' \in [Msg -> Entry] /\ sending' \subseteq Msg
  <2>1. log[m] \in Entry
    BY <1>0 DEF SenderTypes
  <2>2. [log[m] EXCEPT !.status = "sent"] \in Entry
    BY <2>1 DEF Entry
  <2>3. [log EXCEPT ![m].status = "sent"] \in [Msg -> Entry]
    BY <1>0, <2>2 DEF SenderTypes
  <2>4. [status |-> "sent", acked |-> {}, read |-> {}, shown |-> log[m].shown] \in Entry
    BY <2>1 DEF Entry
  <2>5. sending' \subseteq Msg
    BY <1>0, <1>3 DEF EndLoop, SenderTypes
  <2>6. log' = log \/ log' = [log EXCEPT ![m].status = "sent"]
    BY <1>3 DEF EndLoop
  <2>7. log' \in [Msg -> Entry]
    BY <1>0, <2>3, <2>6 DEF SenderTypes
  <2>8. saved' = saved \/ saved' = [saved EXCEPT ![m] = [status |-> "sent", acked |-> {}, read |-> {},
                                                      shown |-> log[m].shown]]
    BY <1>3 DEF EndLoop
  <2>9. saved' \in [Msg -> Entry]
    BY <1>0, <2>4, <2>8 DEF SenderTypes
  <2> QED
    BY <2>5, <2>7, <2>9
<1>4. ASSUME NEW m \in Msg, FinishSend(m)
      PROVE  SenderTypes' /\ NetTypes' /\ CounterTypes' /\ UNCHANGED recipientVars
  BY <1>0, <1>3, <1>4 DEF FinishSend, SenderTypes, NetTypes, CounterTypes, counters, recipientVars
<1>5. ASSUME NEW m \in Msg, NEW r \in Recipient, Transmit(m, r)
      PROVE  net' \in [Lane -> Seq(Msg)]
  BY <1>0, <1>5, SenderLane DEF Transmit, NetTypes
<1>6. ASSUME NEW m \in Msg, NEW r \in Recipient, Dispatch(m, r)
      PROVE  SenderTypes' /\ NetTypes' /\ CounterTypes' /\ UNCHANGED recipientVars
  <2>1. net' \in [Lane -> Seq(Msg)]
    BY <1>5, <1>6 DEF Dispatch
  <2>2. log' \in [Msg -> Entry] /\ saved' \in [Msg -> Entry] /\ sending' \subseteq Msg
    BY <1>0, <1>3, <1>6 DEF Dispatch, SenderTypes
  <2> QED
    BY <1>0, <1>6, <2>1, <2>2 DEF Dispatch, SenderTypes, NetTypes, CounterTypes, counters, recipientVars
<1>7. ASSUME NEW m \in Msg, NEW r \in Recipient, Enqueue(m, r)
      PROVE  /\ queue' \in [Recipient -> SUBSET Msg]
             /\ flush' \in [Recipient -> Replay]
  <2>1. flush[r] \in Replay
    BY <1>0 DEF SenderTypes
  <2>2. [flush[r] EXCEPT !.again = @ \cup {m}] \in Replay
    BY <2>1 DEF Replay
  <2>3. [flush EXCEPT ![r].again = @ \cup {m}] \in [Recipient -> Replay]
    BY <1>0, <2>2 DEF SenderTypes
  <2>4. queue' \in [Recipient -> SUBSET Msg]
    BY <1>0, <1>7 DEF Enqueue, SenderTypes
  <2> QED
    BY <1>0, <1>7, <2>3, <2>4 DEF Enqueue, SenderTypes
<1>8. ASSUME NEW m \in Msg, NEW r \in Recipient, DispatchLater(m, r)
      PROVE  SenderTypes' /\ NetTypes' /\ CounterTypes' /\ UNCHANGED recipientVars
  BY <1>0, <1>7, <1>8 DEF DispatchLater, SenderTypes, NetTypes, CounterTypes, counters, recipientVars
<1>9. ASSUME NEW m \in Msg, Reconcile(m)
      PROVE  log' \in [Msg -> Entry] /\ saved' \in [Msg -> Entry]
  <2>1. log[m] \in Entry /\ Raised(log[m]) \in Entry
    BY <1>0, RaisedType DEF SenderTypes
  <2> QED
    BY <1>0, <1>9, <2>1 DEF Reconcile, SenderTypes
<1>10. ASSUME NEW m \in Msg, NEW r \in Recipient, FlushSend(r, m)
       PROVE  SenderTypes' /\ NetTypes' /\ CounterTypes' /\ UNCHANGED recipientVars
  <2>1. net' \in [Lane -> Seq(Msg)]
    BY <1>5, <1>10 DEF FlushSend
  <2>2. log' \in [Msg -> Entry] /\ saved' \in [Msg -> Entry]
    BY <1>9, <1>10 DEF FlushSend
  <2>3. flush[r] \in Replay
    BY <1>0 DEF SenderTypes
  <2>4. [flush[r] EXCEPT !.left = @ \ {m}, !.done = @ \cup {m}] \in Replay
    BY <2>3 DEF Replay
  <2>5. flush' \in [Recipient -> Replay]
    BY <1>0, <1>10, <2>4 DEF FlushSend, SenderTypes
  <2> QED
    BY <1>0, <1>10, <2>1, <2>2, <2>5 DEF FlushSend, SenderTypes, NetTypes, CounterTypes, counters, recipientVars
<1>11. ASSUME NEW m \in Msg, NEW r \in Recipient, FlushSkip(r, m)
       PROVE  SenderTypes' /\ NetTypes' /\ CounterTypes' /\ UNCHANGED recipientVars
  <2>1. flush[r] \in Replay
    BY <1>0 DEF SenderTypes
  <2>2. [flush[r] EXCEPT !.left = @ \ {m}] \in Replay
    BY <2>1 DEF Replay
  <2>3. flush' \in [Recipient -> Replay]
    BY <1>0, <1>11, <2>2 DEF FlushSkip, SenderTypes
  <2> QED
    BY <1>0, <1>11, <2>3 DEF FlushSkip, SenderTypes, NetTypes, CounterTypes, counters, recipientVars
<1>12. ASSUME NEW m \in Msg, NEW r \in Recipient, RetrySend(r, m)
       PROVE  SenderTypes' /\ NetTypes' /\ CounterTypes' /\ UNCHANGED recipientVars
  <2>1. net' \in [Lane -> Seq(Msg)]
    BY <1>5, <1>12 DEF RetrySend
  <2>2. log' \in [Msg -> Entry] /\ saved' \in [Msg -> Entry]
    BY <1>9, <1>12 DEF RetrySend
  <2> QED
    BY <1>0, <1>12, <2>1, <2>2 DEF RetrySend, SenderTypes, NetTypes, CounterTypes, counters, recipientVars
<1>13. ASSUME NEW m \in Msg, NEW r \in Recipient, RetryFailed(r, m)
       PROVE  SenderTypes' /\ NetTypes' /\ CounterTypes' /\ UNCHANGED recipientVars
  BY <1>0, <1>7, <1>13 DEF RetryFailed, SenderTypes, NetTypes, CounterTypes, counters, recipientVars
<1>14. ASSUME NEW r \in Recipient, FlushBegin(r)
       PROVE  SenderTypes' /\ NetTypes' /\ CounterTypes' /\ UNCHANGED recipientVars
  <2>1. [NotFlushing EXCEPT !.left = queue[r], !.on = TRUE] \in Replay
    BY <1>0 DEF NotFlushing, Replay, SenderTypes
  <2>2. flush' \in [Recipient -> Replay]
    BY <1>0, <1>14, <2>1 DEF FlushBegin, SenderTypes
  <2> QED
    BY <1>0, <1>14, <2>2 DEF FlushBegin, SenderTypes, NetTypes, CounterTypes, recipientVars
<1>15. ASSUME NEW r \in Recipient, FlushEnd(r)
       PROVE  SenderTypes' /\ NetTypes' /\ CounterTypes' /\ UNCHANGED recipientVars
  BY <1>0, <1>15 DEF FlushEnd, NotFlushing, Replay, SenderTypes, NetTypes, CounterTypes, counters, recipientVars
<1>16. ASSUME NEW r \in Recipient, RetryBegin(r)
       PROVE  SenderTypes' /\ NetTypes' /\ CounterTypes' /\ UNCHANGED recipientVars
  BY <1>0, <1>16 DEF RetryBegin, SenderTypes, NetTypes, CounterTypes, recipientVars
<1>17. ASSUME NEW r \in Recipient, RetryEnd(r)
       PROVE  SenderTypes' /\ NetTypes' /\ CounterTypes' /\ UNCHANGED recipientVars
  BY <1>0, <1>17 DEF RetryEnd, SenderTypes, NetTypes, CounterTypes, counters, recipientVars
<1>18. ASSUME NEW a \in receipts, ReceiveReceipt(a)
       PROVE  SenderTypes' /\ NetTypes' /\ CounterTypes' /\ UNCHANGED recipientVars
  <2>1. a.msg \in Msg /\ a.from \in Recipient
    BY <1>0 DEF NetTypes
  <2>2. applyMessageReceipt(log[a.msg], a.from, a.kind) \in Entry
    BY <1>0, <2>1, ReceiptType DEF SenderTypes
  <2>3. /\ log' \in [Msg -> Entry] /\ saved' \in [Msg -> Entry]
        /\ queue' \in [Recipient -> SUBSET Msg]
    <3>1. CASE log[a.msg].status = "new"
      BY <1>0, <1>18, <3>1 DEF ReceiveReceipt, SenderTypes
    <3>2. CASE log[a.msg].status # "new"
      <4> DEFINE e == applyMessageReceipt(log[a.msg], a.from, a.kind)
      <4>1. log' = [log EXCEPT ![a.msg] = e] /\ saved' = [saved EXCEPT ![a.msg] = e]
        BY <1>18, <3>2 DEF ReceiveReceipt
      <4>2. queue' = [queue EXCEPT ![a.from] = @ \ {a.msg}]
        BY <1>18, <3>2 DEF ReceiveReceipt
      <4> HIDE DEF e
      <4> QED
        BY <1>0, <2>1, <2>2, <4>1, <4>2 DEF SenderTypes, e
    <3> QED
      BY <3>1, <3>2
  <2> QED
    BY <1>0, <1>18, <2>3 DEF ReceiveReceipt, SenderTypes, NetTypes, CounterTypes, counters, recipientVars
<1> QED
  BY <1>1, <1>2, <1>4, <1>6, <1>8, <1>10, <1>11, <1>12, <1>13, <1>14, <1>15, <1>16, <1>17, <1>18
     DEF SenderStep

-----------------------------------------------------------------------------
\* A handler is idle or works on a message.
LEMMA LaneMessage ==
  ASSUME TypeOK, NEW l \in Lane
  PROVE  /\ lane[l] \in LaneType
         /\ lane[l].pc \in {"creating", "resaving", "adding", "saving"} => lane[l].msg \in Msg
         /\ l[2] \in Recipient
BY LaneParts DEF TypeOK, LaneType, Idle

\* Acknowledging adds a receipt of the right type.
LEMMA AckType ==
  ASSUME TypeOK, NEW l \in Lane, NEW m \in Msg, Acknowledge(l, m)
  PROVE  receipts' \subseteq [kind : {"ack", "read"}, from : Recipient, msg : Msg,
                              via : Recipient \cup {Sender}]
BY LaneParts DEF TypeOK, Acknowledge, Receipt

\* Every step of a recipient keeps the types.
LEMMA RecipientTypeStep ==
  ASSUME TypeOK, RecipientStep
  PROVE  NetTypes' /\ StoreTypes' /\ lane' \in [Lane -> LaneType] /\ UNCHANGED <<senderVars, counters>>
<1> DEFINE Good == NetTypes' /\ StoreTypes' /\ lane' \in [Lane -> LaneType]
                   /\ UNCHANGED <<senderVars, counters>>
<1>0. NetTypes /\ StoreTypes /\ lane \in [Lane -> LaneType]
  BY TypeParts
<1>1. ASSUME NEW r \in Recipient PROVE Newest(r) \in SUBSET Msg
  <2>1. mem[r] \in Seq(Msg)
    BY <1>0 DEF StoreTypes
  <2> QED
    BY <2>1 DEF Newest, Last
<1>2. ASSUME NEW l \in Lane, Take(l) PROVE Good
  <2>1. l[2] \in Recipient /\ net[l] \in Seq(Msg) /\ net[l] # <<>>
    BY <1>0, <1>2, LaneParts DEF Take, NetTypes
  <2>2. Head(net[l]) \in Msg /\ Tail(net[l]) \in Seq(Msg)
    BY <2>1
  <2>3. [pc |-> "creating", msg |-> Head(net[l]), prev |-> Newest(l[2])] \in LaneType
    BY <1>1, <2>1, <2>2 DEF LaneType
  <2>4. lane' \in [Lane -> LaneType]
    BY <1>0, <1>2, <2>3 DEF Take
  <2>5. net' \in [Lane -> Seq(Msg)]
    BY <1>0, <1>2, <2>2 DEF Take, NetTypes
  <2>6. seen' \in [Recipient -> SUBSET Msg]
    BY <1>0, <1>2, <2>1, <2>2 DEF Take, StoreTypes
  <2> QED
    BY <1>0, <1>2, <2>4, <2>5, <2>6 DEF Take, NetTypes, StoreTypes
<1>3. ASSUME NEW l \in Lane, TakeHeld(l) PROVE Good
  <2>1. lane[l].msg \in Msg /\ l[2] \in Recipient
    BY <1>3, LaneMessage DEF TakeHeld
  <2>2. NetTypes'
    BY <1>0, <1>3, <2>1, AckType DEF TakeHeld, NetTypes
  <2>3. lane' \in [Lane -> LaneType]
    BY <1>0, <1>3, <2>1 DEF TakeHeld, LaneType
  <2> QED
    BY <1>0, <1>3, <2>2, <2>3 DEF TakeHeld, StoreTypes
<1>4. ASSUME NEW l \in Lane, Resaved(l) PROVE Good
  <2>1. lane[l].msg \in Msg /\ l[2] \in Recipient
    BY <1>4, LaneMessage DEF Resaved
  <2>2. NetTypes'
    BY <1>0, <1>4, <2>1, AckType DEF Resaved, NetTypes
  <2>3. lane' \in [Lane -> LaneType]
    BY <1>0, <1>4 DEF Resaved, LaneType
  <2> QED
    BY <1>0, <1>4, <2>1, <2>2, <2>3 DEF Resaved, StoreTypes
<1>5. ASSUME NEW l \in Lane, TakeSeen(l) PROVE Good
  <2>1. lane[l].msg \in Msg /\ l[2] \in Recipient
    BY <1>5, LaneMessage DEF TakeSeen
  <2>2. NetTypes'
    BY <1>0, <1>5, <2>1, AckType DEF TakeSeen, NetTypes
  <2>3. lane' \in [Lane -> LaneType]
    BY <1>0, <1>5 DEF TakeSeen, LaneType
  <2> QED
    BY <1>0, <1>5, <2>2, <2>3 DEF TakeSeen, StoreTypes
<1>6. ASSUME NEW l \in Lane, TakeNew(l) PROVE Good
  <2>1. lane[l].msg \in Msg /\ l[2] \in Recipient
    BY <1>6, LaneMessage DEF TakeNew
  <2>2. PICK ok \in BOOLEAN :
          lane' = [lane EXCEPT ![l] = [pc |-> "adding", msg |-> lane[l].msg, ok |-> ok]]
    BY <1>6 DEF TakeNew
  <2>3. lane' \in [Lane -> LaneType]
    BY <1>0, <2>1, <2>2 DEF LaneType
  <2>4. seen' \in [Recipient -> SUBSET Msg]
    BY <1>0, <1>6, <2>1 DEF TakeNew, StoreTypes
  <2> QED
    BY <1>0, <1>6, <2>3, <2>4 DEF TakeNew, NetTypes, StoreTypes
<1>7. ASSUME NEW l \in Lane, Added(l) PROVE Good
  <2>1. lane[l].msg \in Msg /\ l[2] \in Recipient
    BY <1>7, LaneMessage DEF Added
  <2>2. lane' \in [Lane -> LaneType]
    BY <1>0, <1>7, <2>1 DEF Added, LaneType
  <2>3. mem[l[2]] \in Seq(Msg)
    BY <1>0, <2>1 DEF StoreTypes
  <2>4. Append(mem[l[2]], lane[l].msg) \in Seq(Msg)
    BY <2>1, <2>3
  <2>5. mem' \in [Recipient -> Seq(Msg)]
    BY <1>0, <1>7, <2>1, <2>4 DEF Added, StoreTypes
  <2> QED
    BY <1>0, <1>7, <2>2, <2>5 DEF Added, NetTypes, StoreTypes
<1>8. ASSUME NEW l \in Lane, NEW R \in SUBSET Recipient, Saved(l, R) PROVE Good
  <2>1. lane[l].msg \in Msg /\ l[2] \in Recipient
    BY <1>8, LaneMessage DEF Saved
  <2>2. receipts' \subseteq [kind : {"ack", "read"}, from : Recipient, msg : Msg,
                             via : Recipient \cup {Sender}]
    BY <1>8, <2>1, AckType DEF Saved
  <2>3. \A k \in Lane : net[k] \in Seq(Msg) /\ Append(net[k], lane[l].msg) \in Seq(Msg)
    BY <1>0, <2>1 DEF NetTypes
  <2>4. net' \in [Lane -> Seq(Msg)]
    BY <1>8, <2>3 DEF Saved
  <2>5. lane' \in [Lane -> LaneType]
    BY <1>0, <1>8 DEF Saved, LaneType
  <2>6. StoreTypes'
    BY <1>0, <1>8, <2>1 DEF Saved, StoreTypes
  <2> QED
    BY <1>0, <1>8, <2>2, <2>4, <2>5, <2>6 DEF Saved, NetTypes
<1>9. ASSUME NEW r \in Recipient, NEW m \in Msg, Show(r, m) PROVE Good
  BY <1>0, <1>9 DEF Show, Receipt, NetTypes, StoreTypes
<1> QED
  BY <1>2, <1>3, <1>4, <1>5, <1>6, <1>7, <1>8, <1>9 DEF RecipientStep

\* Faults keep the types: a connection that breaks leaves a prefix of what was
\* in flight, a restart reloads arrays.
LEMMA FaultTypeStep ==
  ASSUME TypeOK, FaultStep
  PROVE  TypeOK'
<1> USE DeliveryAssumption
<1>0. SenderTypes /\ NetTypes /\ StoreTypes /\ CounterTypes /\ lane \in [Lane -> LaneType]
  BY TypeParts
<1>1. CASE RestartSender
  <2>1. SenderTypes'
    BY <1>0, <1>1 DEF RestartSender, SenderTypes, NotFlushing, Replay
  <2>2. NetTypes'
    BY <1>0, <1>1 DEF RestartSender, NetTypes
  <2>3. StoreTypes' /\ CounterTypes' /\ lane' = lane
    BY <1>0, <1>1 DEF RestartSender, StoreTypes, CounterTypes, recipientVars
  <2> QED
    BY <1>0, <2>1, <2>2, <2>3 DEF TypeOK, SenderTypes, NetTypes, StoreTypes, CounterTypes
<1>2. ASSUME NEW r \in Recipient, Connect(r) PROVE TypeOK'
  BY <1>2 DEF Connect, TypeOK, senderVars, recipientVars, counters
<1>3. ASSUME NEW r \in Recipient, Disconnect(r) PROVE TypeOK'
  <2>1. \A l \in Lane, k \in Nat : k <= Len(net[l]) => SubSeq(net[l], 1, k) \in Seq(Msg)
    BY <1>0, SubSeqProperties DEF NetTypes
  <2>2. net' \in [Lane -> Seq(Msg)] /\ receipts' \subseteq receipts
    <3>1. PICK keep \in [{<<Sender, r>>} -> 0..MaxNet] :
            /\ \A l \in {<<Sender, r>>} : keep[l] <= Len(net[l])
            /\ net' = [l \in Lane |-> IF l \in {<<Sender, r>>} THEN SubSeq(net[l], 1, keep[l]) ELSE net[l]]
            /\ receipts' \in {receipts, receipts \ {a \in receipts : a.from = r /\ a.via = Sender}}
      BY <1>3 DEF Disconnect, Cut
    <3>2. ASSUME NEW l \in Lane PROVE net'[l] \in Seq(Msg)
      <4>1. net[l] \in Seq(Msg)
        BY <1>0 DEF NetTypes
      <4>2. CASE l = <<Sender, r>>
        <5>1. keep[l] \in Nat /\ keep[l] <= Len(net[l]) /\ net'[l] = SubSeq(net[l], 1, keep[l])
          <6>1. l \in {<<Sender, r>>}
            BY <4>2
          <6>2. keep[l] \in 0..MaxNet /\ keep[l] <= Len(net[l])
            BY <3>1, <6>1
          <6>3. net'[l] = SubSeq(net[l], 1, keep[l])
            BY <3>1, <6>1
          <6> QED
            BY <6>2, <6>3
        <5> QED
          BY <2>1, <5>1
      <4>3. CASE l # <<Sender, r>>
        BY <3>1, <4>1, <4>3
      <4> QED
        BY <4>2, <4>3
    <3> QED
      BY <3>1, <3>2
  <2>3. NetTypes'
    BY <1>0, <1>3, <2>2 DEF Disconnect, NetTypes
  <2>4. SenderTypes' /\ StoreTypes' /\ CounterTypes' /\ lane' = lane
    BY <1>0, <1>3 DEF Disconnect, SenderTypes, StoreTypes, CounterTypes, senderVars, recipientVars
  <2> QED
    BY <1>0, <2>3, <2>4 DEF TypeOK, SenderTypes, NetTypes, StoreTypes, CounterTypes
<1>4. ASSUME NEW r \in Recipient, RestartRecipient(r) PROVE TypeOK'
  <2>1. PICK s \in SetToSeqs(disk[r]) : mem' = [mem EXCEPT ![r] = s]
    BY <1>4 DEF RestartRecipient
  <2>2. s \in Seq(Msg)
    BY <1>0, RestoredArray DEF StoreTypes
  <2>3. mem' \in [Recipient -> Seq(Msg)]
    BY <1>0, <2>1, <2>2 DEF StoreTypes
  <2>4. StoreTypes'
    BY <1>0, <1>4, <2>3 DEF RestartRecipient, StoreTypes
  <2>5. NetTypes'
    BY <1>0, <1>4 DEF RestartRecipient, NetTypes
  <2>6. lane' \in [Lane -> LaneType]
    BY <1>0, <1>4 DEF RestartRecipient, LaneType
  <2>7. SenderTypes' /\ CounterTypes'
    BY <1>0, <1>4 DEF RestartRecipient, SenderTypes, CounterTypes, senderVars
  <2> QED
    BY <2>4, <2>5, <2>6, <2>7 DEF TypeOK, SenderTypes, NetTypes, StoreTypes, CounterTypes
<1>5. ASSUME NEW r \in Recipient, NEW m \in Msg, Expire(r, m) PROVE TypeOK'
  BY <1>5 DEF Expire, TypeOK, recipientVars
<1>6. ASSUME NEW r \in Recipient, NEW m \in Msg, GossipCleanup(r, m) PROVE TypeOK'
  BY <1>6 DEF GossipCleanup, TypeOK, senderVars
<1> QED
  BY <1>1, <1>2, <1>3, <1>4, <1>5, <1>6 DEF FaultStep

\* Every step keeps the types.
LEMMA TypeStep ==
  ASSUME TypeOK, [Next]_vars
  PROVE  TypeOK'
<1>0. SenderTypes /\ NetTypes /\ StoreTypes /\ CounterTypes /\ lane \in [Lane -> LaneType]
  BY TypeParts
<1>1. CASE SenderStep
  BY <1>0, <1>1, SenderTypeStep
     DEF TypeOK, SenderTypes, NetTypes, StoreTypes, CounterTypes, recipientVars
<1>2. CASE RecipientStep
  BY <1>0, <1>2, RecipientTypeStep
     DEF TypeOK, SenderTypes, NetTypes, StoreTypes, CounterTypes, senderVars, counters
<1>3. CASE FaultStep
  BY <1>3, FaultTypeStep
<1>4. CASE UNCHANGED vars
  BY <1>4 DEF TypeOK, vars, senderVars, recipientVars, counters
<1> QED
  BY <1>1, <1>2, <1>3, <1>4 DEF Next

\* Every reachable state of both sides and of the network is well typed: no
\* replay, receipt or restart makes a status, a queue or an array of another kind.
THEOREM TypeCorrect == Spec => []TypeOK
<1>1. Init => TypeOK
  BY TypeInit
<1>2. TypeOK /\ [Next]_vars => TypeOK'
  BY TypeStep
<1> QED
  BY <1>1, <1>2, PTL DEF Spec

-----------------------------------------------------------------------------
(* A message is stored once.  Between the duplicate check and the push the *)
(* id is in the seen-cache, which is what keeps a second handler of the    *)
(* same recipient from adding the same message.                            *)

\* A direct conversation has no relays, so each recipient has one busy handler.
NoRelayWhenDirect ==
    Direct => \A l \in Lane : l[1] # Sender => lane[l] = Idle /\ net[l] = <<>>

Adding(l) == lane[l].pc = "adding"

\* What is being added is marked as seen and not yet in the array.
AddingIsMarked ==
    \A l \in Lane : Adding(l) => lane[l].msg \in seen[l[2]] /\ ~ Holds(l[2], lane[l].msg)

\* No two handlers of one recipient add the same message.
OneAdder ==
    \A l, k \in Lane : Adding(l) /\ Adding(k) /\ l[2] = k[2] /\ lane[l].msg = lane[k].msg => l = k

StoreInv == StoredOnce /\ NoRelayWhenDirect /\ AddingIsMarked /\ OneAdder

\* Nothing is stored at the start.
LEMMA StoreInit == Init => StoreInv
BY DEF Init, StoreInv, StoredOnce, NoRelayWhenDirect, AddingIsMarked, OneAdder, Adding, Idle,
       IsInjective

\* Steps that touch neither the stores nor what relays carry.
LEMMA StoreFrame ==
  ASSUME TypeOK, StoreInv, UNCHANGED <<mem, seen, lane>>,
         \A l \in Lane : l[1] # Sender => net'[l] = net[l]
  PROVE  StoreInv'
BY DEF StoreInv, StoredOnce, NoRelayWhenDirect, AddingIsMarked, OneAdder, Adding, Holds

\* The sender puts nothing on the lanes between recipients.
LEMMA SenderUsesItsLanes ==
  ASSUME TypeOK, SenderStep
  PROVE  \A l \in Lane : l[1] # Sender => net'[l] = net[l]
<1>1. ASSUME NEW m \in Msg, NEW r \in Recipient, Transmit(m, r)
      PROVE  \A l \in Lane : l[1] # Sender => net'[l] = net[l]
  BY <1>1 DEF Transmit, TypeOK
<1>2. ASSUME NEW m \in Msg, NEW r \in Recipient,
             Dispatch(m, r) \/ FlushSend(r, m) \/ RetrySend(r, m)
      PROVE  \A l \in Lane : l[1] # Sender => net'[l] = net[l]
  BY <1>1, <1>2 DEF Dispatch, FlushSend, RetrySend
<1>3. CASE UNCHANGED net
  BY <1>3
<1> QED
  BY <1>2, <1>3 DEF SenderStep, Compose, DispatchFailed, FinishSend, DispatchLater, FlushSkip,
     RetryFailed, FlushBegin, FlushEnd, RetryBegin, RetryEnd, ReceiveReceipt

\* What is in an array to which a message is appended.
LEMMA AppendRange ==
  ASSUME NEW s \in Seq(Msg), NEW m \in Msg
  PROVE  Range(Append(s, m)) = Range(s) \cup {m}
<1>1. /\ Len(s) \in Nat /\ DOMAIN s = 1..Len(s)
      /\ DOMAIN Append(s, m) = 1..(Len(s) + 1)
      /\ Append(s, m)[Len(s) + 1] = m
      /\ \A i \in 1..Len(s) : Append(s, m)[i] = s[i]
  BY AppendProperties, LenProperties
<1> QED
  BY <1>1 DEF Range

\* Appending a message that is not there keeps an array free of repetition.
LEMMA AppendDistinct ==
  ASSUME NEW s \in Seq(Msg), IsInjective(s), NEW m \in Msg, m \notin Range(s)
  PROVE  IsInjective(Append(s, m)) /\ Range(Append(s, m)) = Range(s) \cup {m}
<1>1. /\ Len(s) \in Nat /\ DOMAIN s = 1..Len(s)
      /\ DOMAIN Append(s, m) = 1..(Len(s) + 1)
      /\ Append(s, m)[Len(s) + 1] = m
      /\ \A i \in 1..Len(s) : Append(s, m)[i] = s[i]
  BY AppendProperties, LenProperties
<1>2. IsInjective(Append(s, m))
  BY <1>1 DEF IsInjective, Range
<1>3. Range(Append(s, m)) = Range(s) \cup {m}
  BY <1>1 DEF Range
<1> QED
  BY <1>2, <1>3

\* Steps in which handler l adds nothing, and the seen-cache forgets nothing.
LEMMA StoreIdleStep ==
  ASSUME TypeOK, StoreInv, NEW l \in Lane, NEW x, x.pc # "adding",
         lane' = [lane EXCEPT ![l] = x], UNCHANGED mem,
         \A r \in Recipient : seen[r] \subseteq seen'[r]
  PROVE  StoredOnce' /\ AddingIsMarked' /\ OneAdder'
BY LaneParts DEF StoreInv, StoredOnce, AddingIsMarked, OneAdder, Adding, Holds, TypeOK

\* In a direct conversation only the sender's handlers move, one per recipient.
LEMMA DirectStep ==
  ASSUME TypeOK, NoRelayWhenDirect, NEW l \in Lane, Direct => l[1] = Sender, NEW x,
         lane' = [lane EXCEPT ![l] = x],
         Direct => \A k \in Lane : k # l => net'[k] = net[k]
  PROVE  NoRelayWhenDirect'
BY DEF NoRelayWhenDirect, TypeOK

\* A handler at work in a direct conversation serves the sender.
LEMMA BusyLaneIsSenders ==
  ASSUME NoRelayWhenDirect, Direct, NEW l \in Lane, lane[l] # Idle \/ net[l] # <<>>
  PROVE  l[1] = Sender
BY DEF NoRelayWhenDirect

\* A lane is determined by its ends.
LEMMA SameLane ==
  ASSUME NEW l \in Lane, NEW k \in Lane, l[1] = k[1], l[2] = k[2]
  PROVE  l = k
BY DEF Lane

\* The receive path keeps the store invariant: one step per handler step.
LEMMA StoreRecipientStep ==
  ASSUME TypeOK, StoreInv, RecipientStep
  PROVE  StoreInv'
<1>0. StoredOnce /\ NoRelayWhenDirect /\ AddingIsMarked /\ OneAdder
  BY DEF StoreInv
<1>1. ASSUME NEW l \in Lane, Take(l) PROVE StoreInv'
  <2> DEFINE x == [pc |-> "creating", msg |-> Head(net[l]), prev |-> Newest(l[2])]
  <2>1. lane' = lane \/ lane' = [lane EXCEPT ![l] = x]
    BY <1>1 DEF Take
  <2>2. lane = [lane EXCEPT ![l] = Idle]
    BY <1>1 DEF Take, TypeOK
  <2>3. x.pc # "adding" /\ Idle.pc # "adding"
    BY DEF Idle
  <2>4. UNCHANGED mem /\ \A r \in Recipient : seen[r] \subseteq seen'[r]
    BY <1>1, LaneParts DEF Take, TypeOK
  <2>5. PICK y : y.pc # "adding" /\ lane' = [lane EXCEPT ![l] = y]
    <3> HIDE DEF x
    <3> QED BY <2>1, <2>2, <2>3
  <2>6. StoredOnce' /\ AddingIsMarked' /\ OneAdder'
    BY <2>4, <2>5, StoreIdleStep
  <2>7. Direct => l[1] = Sender
    BY <1>0, <1>1, BusyLaneIsSenders DEF Take
  <2>8. \A k \in Lane : k # l => net'[k] = net[k]
    BY <1>1 DEF Take, TypeOK
  <2>9. NoRelayWhenDirect'
    BY <1>0, <2>5, <2>7, <2>8, DirectStep
  <2> QED
    BY <2>6, <2>9 DEF StoreInv
<1>2. ASSUME NEW l \in Lane, TakeHeld(l) \/ Resaved(l) \/ TakeSeen(l) PROVE StoreInv'
  <2>1. PICK y : y.pc # "adding" /\ lane' = [lane EXCEPT ![l] = y]
    BY <1>2 DEF TakeHeld, Resaved, TakeSeen, Idle
  <2>2. UNCHANGED <<mem, seen, net>> /\ lane[l] # Idle
    BY <1>2 DEF TakeHeld, Resaved, TakeSeen, Idle
  <2>3. StoredOnce' /\ AddingIsMarked' /\ OneAdder'
    BY <2>1, <2>2, StoreIdleStep
  <2>4. NoRelayWhenDirect'
    BY <1>0, <2>1, <2>2, DirectStep, BusyLaneIsSenders
  <2> QED
    BY <2>3, <2>4 DEF StoreInv
<1>3. ASSUME NEW l \in Lane, NEW R \in SUBSET Recipient, Saved(l, R) PROVE StoreInv'
  <2>1. lane' = [lane EXCEPT ![l] = Idle] /\ Idle.pc # "adding"
    BY <1>3 DEF Saved, Idle
  <2>2. UNCHANGED <<mem, seen>> /\ lane[l] # Idle
    BY <1>3 DEF Saved, Idle
  <2>3. StoredOnce' /\ AddingIsMarked' /\ OneAdder'
    BY <2>1, <2>2, StoreIdleStep
  <2>4. Direct => \A k \in Lane : net'[k] = net[k]
    BY <1>3 DEF Saved
  <2>5. NoRelayWhenDirect'
    BY <1>0, <2>1, <2>2, <2>4, DirectStep, BusyLaneIsSenders
  <2> QED
    BY <2>3, <2>5 DEF StoreInv
<1>4. ASSUME NEW l \in Lane, TakeNew(l) PROVE StoreInv'
  <2> DEFINE r == l[2]
             m == lane[l].msg
  <2>1. m \in Msg /\ r \in Recipient /\ lane[l] # Idle
    BY <1>4, LaneMessage DEF TakeNew, Idle
  <2>2. PICK ok \in BOOLEAN :
          lane' = [lane EXCEPT ![l] = [pc |-> "adding", msg |-> m, ok |-> ok]]
    BY <1>4 DEF TakeNew
  <2>3. UNCHANGED <<mem, net>> /\ seen' = [seen EXCEPT ![r] = @ \cup {m}] /\ ~ Holds(r, m)
    BY <1>4 DEF TakeNew
  <2>4. StoredOnce'
    BY <1>0, <2>3 DEF StoredOnce
  <2>5. NoRelayWhenDirect'
    BY <1>0, <2>1, <2>2, <2>3, DirectStep, BusyLaneIsSenders
  <2>6. AddingIsMarked'
    BY <1>0, <2>1, <2>2, <2>3, LaneParts DEF AddingIsMarked, Adding, Holds, TypeOK
  <2>7. ASSUME NEW k \in Lane, k # l, Adding(k), k[2] = r, lane[k].msg = m
        PROVE  FALSE
    <3>1. m \in seen[r] /\ lane[k] # Idle
      BY <1>0, <2>7 DEF AddingIsMarked, Adding, Idle
    <3>2. CASE Direct
      BY <1>0, <2>1, <2>7, <3>1, <3>2, BusyLaneIsSenders, SameLane
    <3>3. CASE ~ Direct
      BY <1>4, <3>1, <3>3 DEF TakeNew
    <3> QED
      BY <3>2, <3>3
  <2>8. OneAdder'
    <3> SUFFICES ASSUME NEW j \in Lane, NEW k \in Lane,
                        Adding(j)', Adding(k)', j[2] = k[2], lane'[j].msg = lane'[k].msg, j # k
                 PROVE  FALSE
      BY DEF OneAdder
    <3>1. lane'[l].msg = m /\ \A i \in Lane : i # l => lane'[i] = lane[i]
      BY <2>2 DEF TypeOK
    <3>2. CASE j = l
      BY <2>7, <3>1, <3>2 DEF Adding
    <3>3. CASE k = l
      BY <2>7, <3>1, <3>3 DEF Adding
    <3>4. CASE j # l /\ k # l
      BY <1>0, <3>1, <3>4 DEF OneAdder, Adding
    <3> QED
      BY <3>2, <3>3, <3>4
  <2> QED
    BY <2>4, <2>5, <2>6, <2>8 DEF StoreInv
<1>5. ASSUME NEW l \in Lane, Added(l) PROVE StoreInv'
  <2> DEFINE r == l[2]
             m == lane[l].msg
  <2>1. m \in Msg /\ r \in Recipient /\ lane[l] # Idle /\ Adding(l)
    BY <1>5, LaneMessage DEF Added, Adding, Idle
  <2>2. PICK y : y.pc # "adding" /\ lane' = [lane EXCEPT ![l] = y]
    BY <1>5 DEF Added, Idle
  <2>3. UNCHANGED <<seen, net>>
    BY <1>5 DEF Added
  <2>4. NoRelayWhenDirect'
    BY <1>0, <2>1, <2>2, <2>3, DirectStep, BusyLaneIsSenders
  <2>5. CASE UNCHANGED mem
    BY <2>2, <2>3, <2>4, <2>5, StoreIdleStep DEF StoreInv
  <2>6. CASE mem' = [mem EXCEPT ![r] = Append(@, m)]
    <3>1. mem[r] \in Seq(Msg) /\ IsInjective(mem[r]) /\ m \notin Range(mem[r])
      BY <1>0, <2>1 DEF StoredOnce, AddingIsMarked, Holds, TypeOK
    <3>2. IsInjective(mem'[r]) /\ Range(mem'[r]) = Range(mem[r]) \cup {m}
      BY <2>1, <2>6, <3>1, AppendDistinct DEF TypeOK
    <3>3. \A q \in Recipient : q # r => mem'[q] = mem[q]
      BY <2>6 DEF TypeOK
    <3>4. StoredOnce'
      BY <1>0, <3>2, <3>3 DEF StoredOnce
    <3>5. lane'[l] = y /\ \A k \in Lane : k # l => lane'[k] = lane[k]
      BY <2>2 DEF TypeOK
    <3>6. OneAdder'
      BY <1>0, <2>2, <3>5 DEF OneAdder, Adding
    <3>7. AddingIsMarked'
      <4> SUFFICES ASSUME NEW k \in Lane, Adding(k)'
                   PROVE  lane'[k].msg \in seen'[k[2]] /\ ~ (lane'[k].msg \in Range(mem'[k[2]]))
        BY DEF AddingIsMarked, Holds
      <4>1. k # l /\ lane'[k] = lane[k] /\ Adding(k)
        BY <2>2, <3>5 DEF Adding
      <4>2. lane[k].msg \in seen[k[2]] /\ lane[k].msg \notin Range(mem[k[2]])
        BY <1>0, <4>1 DEF AddingIsMarked, Holds
      <4>3. k[2] = r => lane[k].msg # m
        BY <1>0, <2>1, <4>1 DEF OneAdder
      <4> QED
        BY <2>3, <3>2, <3>3, <4>1, <4>2, <4>3, LaneParts
    <3> QED
      BY <2>4, <3>4, <3>6, <3>7 DEF StoreInv
  <2> QED
    BY <1>5, <2>5, <2>6 DEF Added
<1>6. ASSUME NEW r \in Recipient, NEW m \in Msg, Show(r, m) PROVE StoreInv'
  BY <1>6, StoreFrame DEF Show
<1> QED
  BY <1>1, <1>2, <1>3, <1>4, <1>5, <1>6 DEF RecipientStep

\* So do lost connections and restarts.
LEMMA StoreFaultStep ==
  ASSUME TypeOK, StoreInv, FaultStep
  PROVE  StoreInv'
<1>0. StoredOnce /\ NoRelayWhenDirect /\ AddingIsMarked /\ OneAdder
  BY DEF StoreInv
<1>1. CASE RestartSender
  BY <1>1, StoreFrame DEF RestartSender, TypeOK, recipientVars
<1>2. ASSUME NEW r \in Recipient, Connect(r) PROVE StoreInv'
  BY <1>2, StoreFrame DEF Connect, recipientVars
<1>3. ASSUME NEW r \in Recipient, Disconnect(r) PROVE StoreInv'
  <2>1. \A l \in Lane : l \notin {<<Sender, r>>} => net'[l] = net[l]
    BY <1>3 DEF Disconnect, Cut
  <2>2. \A l \in Lane : l[1] # Sender => net'[l] = net[l]
    BY <2>1
  <2>3. UNCHANGED <<mem, seen, lane>>
    BY <1>3 DEF Disconnect, recipientVars
  <2> QED
    BY <2>2, <2>3, StoreFrame
<1>4. ASSUME NEW r \in Recipient, RestartRecipient(r) PROVE StoreInv'
  <2>1. PICK s \in SetToSeqs(disk[r]) : mem' = [mem EXCEPT ![r] = s]
    BY <1>4 DEF RestartRecipient
  <2>2. IsInjective(s)
    BY RestoredArray DEF TypeOK
  <2>3. /\ \A l \in Lane : l[2] = r => lane'[l] = Idle /\ net'[l] = <<>>
        /\ \A l \in Lane : l[2] # r => lane'[l] = lane[l] /\ net'[l] = net[l]
    BY <1>4 DEF RestartRecipient
  <2>4. \A q \in Recipient : q # r => mem'[q] = mem[q] /\ seen'[q] = seen[q]
    BY <1>4, <2>1 DEF RestartRecipient, TypeOK
  <2>5. StoredOnce'
    BY <1>0, <2>1, <2>2, <2>4 DEF StoredOnce, TypeOK
  <2>6. NoRelayWhenDirect'
    BY <1>0, <2>3 DEF NoRelayWhenDirect
  <2>7. ASSUME NEW l \in Lane, Adding(l)' PROVE l[2] # r /\ lane'[l] = lane[l] /\ Adding(l)
    BY <2>3, <2>7 DEF Adding, Idle
  <2>8. AddingIsMarked'
    BY <1>0, <2>4, <2>7, LaneParts DEF AddingIsMarked, Holds
  <2>9. OneAdder'
    BY <1>0, <2>7 DEF OneAdder
  <2> QED
    BY <2>5, <2>6, <2>8, <2>9 DEF StoreInv
<1>5. ASSUME NEW r \in Recipient, NEW m \in Msg, Expire(r, m) PROVE StoreInv'
  BY <1>5, StoreFrame DEF Expire, recipientVars
<1>6. ASSUME NEW r \in Recipient, NEW m \in Msg, GossipCleanup(r, m) PROVE StoreInv'
  BY <1>6, StoreFrame DEF GossipCleanup
<1> QED
  BY <1>1, <1>2, <1>3, <1>4, <1>5, <1>6 DEF FaultStep

\* So does every step.
LEMMA StoreNext ==
  ASSUME TypeOK, StoreInv, [Next]_vars
  PROVE  StoreInv'
<1>1. CASE SenderStep
  <2>1. UNCHANGED <<mem, seen, lane>>
    BY <1>1, SenderTypeStep DEF recipientVars
  <2> QED
    BY <1>1, <2>1, SenderUsesItsLanes, StoreFrame
<1>2. CASE RecipientStep
  BY <1>2, StoreRecipientStep
<1>3. CASE FaultStep
  BY <1>3, StoreFaultStep
<1>4. CASE UNCHANGED vars
  BY <1>4, StoreFrame DEF vars, recipientVars
<1> QED
  BY <1>1, <1>2, <1>3, <1>4 DEF Next

\* However often a message is sent again, replayed or relayed, over however many
\* connections at once and across restarts, a recipient's array holds it once.
THEOREM MessageStoredOnce == Spec => []StoredOnce
<1>1. Init => StoreInv
  BY StoreInit
<1>2. TypeOK /\ StoreInv /\ [Next]_vars => StoreInv'
  BY StoreNext
<1>3. StoreInv => StoredOnce
  BY DEF StoreInv
<1> QED
  BY <1>1, <1>2, <1>3, TypeCorrect, PTL DEF Spec

-----------------------------------------------------------------------------
(* The status of a message is no better than its receipts.                 *)

Justified(e) ==
    /\ e.status = "delivered" => StatusRecipients(e) \subseteq e.acked
    /\ e.status = "read" => StatusRecipients(e) \subseteq e.read
    /\ e.read \subseteq e.acked

\* Raising the status to what the receipts amount to leaves it justified.
LEMMA RaisedJustified ==
  ASSUME NEW e \in Entry, Justified(e)
  PROVE  Justified(Raised(e))
<1>1. /\ Raised(e).acked = e.acked /\ Raised(e).read = e.read
      /\ StatusRecipients(Raised(e)) = StatusRecipients(e)
  BY RaisedType DEF StatusRecipients
<1>2. \/ Raised(e).status = e.status
      \/ Raised(e).status = "read" /\ StatusRecipients(e) \subseteq e.read
      \/ Raised(e).status = "delivered" /\ StatusRecipients(e) \subseteq e.acked
      \/ Raised(e).status = "sent"
  BY DEF Raised, Entry
<1> QED
  BY <1>1, <1>2 DEF Justified

\* Applying a receipt leaves the status justified.
LEMMA ReceiptJustified ==
  ASSUME NEW e \in Entry, Justified(e), NEW r \in Recipient, NEW kind
  PROVE  Justified(applyMessageReceipt(e, r, kind))
<1> DEFINE f == [e EXCEPT !.acked = @ \cup {r}, !.read = IF kind = "read" THEN @ \cup {r} ELSE @]
<1>1. f \in Entry
  BY DEF Entry
<1>2. /\ f.status = e.status /\ f.shown = e.shown
      /\ f.acked = e.acked \cup {r}
      /\ f.read = (IF kind = "read" THEN e.read \cup {r} ELSE e.read)
  BY DEF Entry
<1>3. StatusRecipients(f) = StatusRecipients(e)
  BY <1>2 DEF StatusRecipients
<1>4. Justified(f)
  <2> HIDE DEF f
  <2> QED BY <1>2, <1>3 DEF Justified
<1> QED
  BY <1>1, <1>4, RaisedJustified DEF applyMessageReceipt

\* The property, message by message.
LEMMA StatusParts ==
  StatusJustified <=> \A m \in Msg : Justified(log[m]) /\ Justified(saved[m])
BY DEF StatusJustified, Justified

\* The send loop, replays and receipts keep every status justified.
LEMMA StatusSenderStep ==
  ASSUME TypeOK, StatusJustified, SenderStep
  PROVE  StatusJustified'
<1>0. /\ log \in [Msg -> Entry] /\ saved \in [Msg -> Entry]
      /\ \A m \in Msg : Justified(log[m]) /\ Justified(saved[m])
  BY StatusParts DEF TypeOK
<1>a. ASSUME NEW m \in Msg, NEW e, NEW f, Justified(e), Justified(f),
             log' = [log EXCEPT ![m] = e], saved' = [saved EXCEPT ![m] = f]
      PROVE  \A k \in Msg : Justified(log'[k]) /\ Justified(saved'[k])
  BY <1>0, <1>a
<1>1. ASSUME NEW m \in Msg, Compose(m)
      PROVE  \A k \in Msg : Justified(log'[k]) /\ Justified(saved'[k])
  <2>1. Justified([status |-> "pending", acked |-> {}, read |-> {},
                   shown |-> IF Direct THEN {} ELSE ready])
    BY DEF Justified
  <2>2. Justified([Unwritten EXCEPT !.status = "pending"])
    BY DEF Justified, Unwritten
  <2> QED
    BY <1>a, <1>1, <2>1, <2>2 DEF Compose
<1>2. ASSUME NEW m \in Msg, EndLoop(m)
      PROVE  \A k \in Msg : Justified(log'[k]) /\ Justified(saved'[k])
  <2>1. CASE UNCHANGED <<log, saved>>
    BY <1>0, <2>1
  <2>2. CASE ~ (log[m].status \in {"sent", "delivered"})
    <3>1. Justified([log[m] EXCEPT !.status = "sent"])
      BY <1>0 DEF Justified, Entry
    <3>2. Justified([status |-> "sent", acked |-> {}, read |-> {}, shown |-> log[m].shown])
      BY DEF Justified
    <3>3. log' = [log EXCEPT ![m] = [log[m] EXCEPT !.status = "sent"]]
      BY <1>2, <2>2 DEF EndLoop
    <3> QED
      BY <1>a, <1>2, <2>2, <3>1, <3>2, <3>3 DEF EndLoop
  <2> QED
    BY <1>2, <2>1, <2>2 DEF EndLoop
<1>3. ASSUME NEW m \in Msg, Reconcile(m)
      PROVE  \A k \in Msg : Justified(log'[k]) /\ Justified(saved'[k])
  <2>1. Justified(Raised(log[m]))
    BY <1>0, RaisedJustified
  <2>2. log' = [log EXCEPT ![m] = Raised(log[m])]
    BY <1>3 DEF Reconcile
  <2>3. saved' = saved \/ saved' = [saved EXCEPT ![m] = Raised(log[m])]
    BY <1>3 DEF Reconcile
  <2> QED
    BY <1>0, <2>1, <2>2, <2>3
<1>4. ASSUME NEW a \in receipts, ReceiveReceipt(a)
      PROVE  \A k \in Msg : Justified(log'[k]) /\ Justified(saved'[k])
  <2> DEFINE e == applyMessageReceipt(log[a.msg], a.from, a.kind)
  <2>1. a.msg \in Msg /\ a.from \in Recipient
    BY DEF TypeOK
  <2>2. Justified(e)
    BY <1>0, <2>1, ReceiptJustified
  <2>3. \/ UNCHANGED <<log, saved>>
        \/ log' = [log EXCEPT ![a.msg] = e] /\ saved' = [saved EXCEPT ![a.msg] = e]
    BY <1>4 DEF ReceiveReceipt
  <2> HIDE DEF e
  <2> QED
    BY <1>0, <1>a, <2>1, <2>2, <2>3
<1>5. CASE UNCHANGED <<log, saved>>
  BY <1>0, <1>5, StatusParts DEF StatusJustified
<1>6. (\A k \in Msg : Justified(log'[k]) /\ Justified(saved'[k])) => StatusJustified'
  BY DEF StatusJustified, Justified
<1>7. ASSUME NEW m \in Msg, Compose(m) \/ FinishSend(m) PROVE StatusJustified'
  BY <1>1, <1>2, <1>6, <1>7 DEF FinishSend
<1>8. ASSUME NEW m \in Msg, NEW r \in Recipient,
             Dispatch(m, r) \/ FlushSend(r, m) \/ RetrySend(r, m)
      PROVE  StatusJustified'
  BY <1>2, <1>3, <1>5, <1>6, <1>8 DEF Dispatch, FlushSend, RetrySend
<1> QED
  BY <1>4, <1>5, <1>6, <1>7, <1>8 DEF SenderStep, DispatchFailed, DispatchLater, FlushSkip,
     RetryFailed, FlushBegin, FlushEnd, RetryBegin, RetryEnd

\* A message shown as delivered, or as read, has been acknowledged, or read, by
\* every recipient the status speaks of, in memory and on disk, for any number of
\* recipients and whatever order receipts, replays and the send loop come in.
THEOREM StatusIsJustified == Spec => []StatusJustified
<1>1. Init => StatusJustified
  BY DEF Init, StatusJustified, Unwritten
<1>2. TypeOK /\ StatusJustified /\ [Next]_vars => StatusJustified'
  <2> SUFFICES ASSUME TypeOK, StatusJustified, [Next]_vars PROVE StatusJustified'
    OBVIOUS
  <2>1. CASE SenderStep
    BY <2>1, StatusSenderStep
  <2>2. CASE UNCHANGED <<log, saved>>
    BY <2>2 DEF StatusJustified
  <2>3. CASE RestartSender
    BY <2>3 DEF RestartSender, StatusJustified
  <2>4. CASE RecipientStep
    BY <2>2, <2>4, RecipientTypeStep DEF senderVars
  <2>5. CASE UNCHANGED vars
    BY <2>2, <2>5 DEF vars, senderVars
  <2> QED
    BY <2>1, <2>2, <2>3, <2>4, <2>5
       DEF Next, FaultStep, Connect, Disconnect, RestartRecipient, Expire, GossipCleanup, senderVars
<1> QED
  BY <1>1, <1>2, TypeCorrect, PTL DEF Spec

-----------------------------------------------------------------------------
(* In a direct conversation an acknowledgment means persistence.           *)

SavingHere(r, m) == \E l \in Lane : l[2] = r /\ lane[l].pc = "saving" /\ lane[l].msg = m

\* What is in the array is on disk or is being saved.
HeldIsSaved == \A r \in Recipient : \A m \in Msg : Holds(r, m) => m \in disk[r] \/ SavingHere(r, m)

AckInv == AckedIsPersisted /\ HeldIsSaved

\* Nothing is acknowledged at the start.
LEMMA AckInit == Init => AckInv
BY DEF Init, AckInv, AckedIsPersisted, HeldIsSaved, Holds, Range

\* Steps that keep the arrays, the disks and the handlers and send no ack.
LEMMA AckFrame ==
  ASSUME TypeOK, AckInv, UNCHANGED <<mem, disk, lane>>,
         \A a \in receipts' : a.kind = "ack" => a \in receipts
  PROVE  AckInv'
BY DEF AckInv, AckedIsPersisted, HeldIsSaved, Holds, SavingHere

\* Steps of one handler that was not saving, and leaves array and disk alone.
LEMMA HeldFrame ==
  ASSUME TypeOK, HeldIsSaved, NEW l \in Lane, NEW x, lane[l].pc # "saving",
         lane' = [lane EXCEPT ![l] = x], UNCHANGED mem,
         \A r \in Recipient : disk[r] \subseteq disk'[r]
  PROVE  HeldIsSaved'
<1> SUFFICES ASSUME NEW r \in Recipient, NEW m \in Msg, Holds(r, m), m \notin disk[r]
             PROVE  SavingHere(r, m)'
  BY DEF HeldIsSaved, Holds
<1>1. PICK k \in Lane : k[2] = r /\ lane[k].pc = "saving" /\ lane[k].msg = m
  BY DEF HeldIsSaved, SavingHere
<1>2. k # l /\ lane'[k] = lane[k]
  BY <1>1 DEF TypeOK
<1> QED
  BY <1>1, <1>2 DEF SavingHere

\* One acknowledgment more, for a message on disk.
LEMMA AckAdded ==
  ASSUME TypeOK, AckedIsPersisted, NEW l \in Lane, NEW m \in Msg, Acknowledge(l, m),
         m \in disk'[l[2]], \A r \in Recipient : disk[r] \subseteq disk'[r]
  PROVE  AckedIsPersisted'
<1> SUFFICES ASSUME NEW a \in receipts', a.kind = "ack"
             PROVE  a.msg \in disk'[a.from]
  BY DEF AckedIsPersisted
<1>1. CASE a \in receipts
  <2>1. a.from \in Recipient
    BY <1>1 DEF TypeOK
  <2> QED
    BY <1>1, <2>1 DEF AckedIsPersisted
<1>2. CASE a = Receipt("ack", l[2], m, l[1])
  BY <1>2 DEF Receipt
<1> QED
  BY <1>1, <1>2 DEF Acknowledge

\* A message that handler l may acknowledge without saving it.
AcksUnsaved(l) ==
    /\ lane[l].pc = "creating"
    /\ IF Direct THEN Holds(l[2], lane[l].msg)
       ELSE ~ Holds(l[2], lane[l].msg) /\ lane[l].msg \in gossiped[l[2]] \cup seen[l[2]]

UnsavedIsOnDisk == \A l \in Lane : AcksUnsaved(l) => lane[l].msg \in disk[l[2]]

\* In a direct conversation a handler finds nothing held that is still being saved: it is
\* the only handler of its recipient.
LEMMA DirectUnsaved ==
  ASSUME Direct, TypeOK, StoreInv, AckInv
  PROVE  UnsavedIsOnDisk
<1> SUFFICES ASSUME NEW l \in Lane, lane[l].pc = "creating", Holds(l[2], lane[l].msg)
             PROVE  lane[l].msg \in disk[l[2]]
  BY DEF UnsavedIsOnDisk, AcksUnsaved
<1>0. HeldIsSaved /\ NoRelayWhenDirect
  BY DEF AckInv, StoreInv
<1>1. lane[l].msg \in Msg /\ l[2] \in Recipient /\ lane[l] # Idle
  BY LaneMessage DEF Idle
<1>2. SUFFICES ASSUME NEW k \in Lane, k[2] = l[2], lane[k].pc = "saving" PROVE FALSE
  BY <1>0, <1>1 DEF HeldIsSaved, SavingHere
<1>3. k[1] = Sender /\ l[1] = Sender
  <2>1. lane[k] # Idle
    BY <1>2 DEF Idle
  <2> QED
    BY <1>0, <1>1, <2>1, BusyLaneIsSenders
<1>4. k = l
  BY <1>2, <1>3, SameLane
<1> QED
  BY <1>2, <1>4

\* The receive path acknowledges only what is on disk.
LEMMA AckRecipientStep ==
  ASSUME TypeOK, UnsavedIsOnDisk, AckInv, RecipientStep
  PROVE  AckInv'
<1>0. AckedIsPersisted /\ HeldIsSaved
  BY DEF AckInv
<1>1. ASSUME NEW l \in Lane, Take(l) PROVE AckInv'
  <2>1. lane[l].pc # "saving" /\ lane = [lane EXCEPT ![l] = Idle]
    BY <1>1 DEF Take, Idle, TypeOK
  <2>2. PICK x : lane' = [lane EXCEPT ![l] = x]
    BY <1>1, <2>1 DEF Take
  <2>3. UNCHANGED <<mem, disk, receipts>>
    BY <1>1 DEF Take
  <2> QED
    BY <1>0, <2>1, <2>2, <2>3, HeldFrame DEF AckInv, AckedIsPersisted
<1>2. ASSUME NEW l \in Lane, TakeHeld(l) PROVE AckInv'
  <2>1. lane[l].pc = "creating" /\ lane[l].msg \in Msg /\ lane[l].pc # "saving"
    BY <1>2, LaneMessage DEF TakeHeld
  <2>2. PICK x : lane' = [lane EXCEPT ![l] = x]
    BY <1>2 DEF TakeHeld
  <2>3. UNCHANGED <<mem, disk>>
    BY <1>2 DEF TakeHeld
  <2>4. HeldIsSaved'
    BY <1>0, <2>1, <2>2, <2>3, HeldFrame
  <2>5. CASE Direct
    <3>1. Acknowledge(l, lane[l].msg) /\ lane[l].msg \in disk'[l[2]]
      BY <1>2, <2>1, <2>3, <2>5 DEF TakeHeld, UnsavedIsOnDisk, AcksUnsaved
    <3>2. AckedIsPersisted'
      BY <1>0, <2>1, <2>3, <3>1, AckAdded
    <3> QED
      BY <2>4, <3>2 DEF AckInv
  <2>6. CASE ~ Direct
    BY <1>0, <1>2, <2>3, <2>4, <2>6 DEF TakeHeld, AckInv, AckedIsPersisted
  <2> QED
    BY <2>5, <2>6
<1>3. ASSUME NEW l \in Lane, Resaved(l) PROVE AckInv'
  <2>1. lane[l].pc = "resaving" /\ lane[l].msg \in Msg /\ l[2] \in Recipient
    BY <1>3, LaneMessage DEF Resaved
  <2>2. lane' = [lane EXCEPT ![l] = Idle] /\ Acknowledge(l, lane[l].msg) /\ UNCHANGED mem
    BY <1>3 DEF Resaved
  <2>3. lane[l].msg \in disk'[l[2]] /\ \A r \in Recipient : disk[r] \subseteq disk'[r]
    BY <1>3, <2>1 DEF Resaved, TypeOK
  <2>4. HeldIsSaved'
    BY <1>0, <2>1, <2>2, <2>3, HeldFrame
  <2>5. AckedIsPersisted'
    BY <1>0, <2>1, <2>2, <2>3, AckAdded
  <2> QED
    BY <2>4, <2>5 DEF AckInv
<1>4. ASSUME NEW l \in Lane, TakeNew(l) PROVE AckInv'
  <2>1. lane[l].pc # "saving"
    BY <1>4 DEF TakeNew
  <2>2. PICK x : lane' = [lane EXCEPT ![l] = x]
    BY <1>4 DEF TakeNew
  <2>3. UNCHANGED <<mem, disk, receipts>>
    BY <1>4 DEF TakeNew
  <2> QED
    BY <1>0, <2>1, <2>2, <2>3, HeldFrame DEF AckInv, AckedIsPersisted
<1>5. ASSUME NEW l \in Lane, Added(l) PROVE AckInv'
  <2>1. lane[l].pc = "adding" /\ lane[l].msg \in Msg /\ l[2] \in Recipient
    BY <1>5, LaneMessage DEF Added
  <2>2. UNCHANGED <<disk, receipts>>
    BY <1>5 DEF Added
  <2>3. AckedIsPersisted'
    BY <1>0, <2>2 DEF AckedIsPersisted
  <2>4. CASE ~ lane[l].ok
    BY <1>0, <1>5, <2>1, <2>2, <2>3, <2>4, HeldFrame DEF Added, AckInv
  <2>5. CASE lane[l].ok
    <3>1. /\ mem' = [mem EXCEPT ![l[2]] = Append(@, lane[l].msg)]
          /\ lane' = [lane EXCEPT ![l] = [pc |-> "saving", msg |-> lane[l].msg]]
      BY <1>5, <2>5 DEF Added
    <3>2. SUFFICES ASSUME NEW r \in Recipient, NEW m \in Msg, m \in Range(mem'[r]), m \notin disk[r]
                   PROVE  SavingHere(r, m)'
      BY <2>2, <2>3 DEF AckInv, HeldIsSaved, Holds
    <3>3. CASE r = l[2] /\ m = lane[l].msg
      BY <3>1, <3>3 DEF SavingHere, TypeOK
    <3>4. CASE Holds(r, m)
      <4>1. PICK k \in Lane : k[2] = r /\ lane[k].pc = "saving" /\ lane[k].msg = m
        BY <1>0, <3>2, <3>4 DEF HeldIsSaved, SavingHere
      <4>2. k # l /\ lane'[k] = lane[k]
        BY <2>1, <3>1, <4>1 DEF TypeOK
      <4> QED
        BY <4>1, <4>2 DEF SavingHere
    <3>5. Holds(r, m) \/ (r = l[2] /\ m = lane[l].msg)
      <4>1. mem[r] \in Seq(Msg)
        BY DEF TypeOK
      <4>2. CASE r = l[2]
        <5>1. mem'[r] = Append(mem[r], lane[l].msg)
          BY <3>1, <4>2 DEF TypeOK
        <5>2. PICK i \in DOMAIN mem'[r] : mem'[r][i] = m
          BY <3>2 DEF Range
        <5>3. (i \in 1..Len(mem[r]) /\ mem'[r][i] = mem[r][i]) \/ mem'[r][i] = lane[l].msg
          BY <2>1, <4>1, <5>1, <5>2
        <5>4. DOMAIN mem[r] = 1..Len(mem[r])
          BY <4>1
        <5> QED
          BY <4>2, <5>2, <5>3, <5>4 DEF Holds, Range
      <4>3. CASE r # l[2]
        BY <3>1, <3>2, <4>3 DEF Holds, TypeOK
      <4> QED
        BY <4>2, <4>3
    <3> QED
      BY <3>3, <3>4, <3>5
  <2> QED
    BY <2>4, <2>5
<1>6. ASSUME NEW l \in Lane, NEW R \in SUBSET Recipient, Saved(l, R) PROVE AckInv'
  <2>1. lane[l].pc = "saving" /\ lane[l].msg \in Msg /\ l[2] \in Recipient
    BY <1>6, LaneMessage DEF Saved
  <2>2. /\ lane' = [lane EXCEPT ![l] = Idle] /\ Acknowledge(l, lane[l].msg) /\ UNCHANGED mem
        /\ disk' = [disk EXCEPT ![l[2]] = @ \cup {lane[l].msg}]
    BY <1>6 DEF Saved
  <2>3. lane[l].msg \in disk'[l[2]] /\ \A r \in Recipient : disk[r] \subseteq disk'[r]
    BY <2>1, <2>2 DEF TypeOK
  <2>4. AckedIsPersisted'
    BY <1>0, <2>1, <2>2, <2>3, AckAdded
  <2>5. HeldIsSaved'
    <3> SUFFICES ASSUME NEW r \in Recipient, NEW m \in Msg, Holds(r, m), m \notin disk'[r]
                 PROVE  SavingHere(r, m)'
      BY <2>2 DEF HeldIsSaved, Holds
    <3>1. PICK k \in Lane : k[2] = r /\ lane[k].pc = "saving" /\ lane[k].msg = m
      BY <1>0, <2>3 DEF HeldIsSaved, SavingHere
    <3>2. k # l /\ lane'[k] = lane[k]
      BY <2>2, <2>3, <3>1 DEF TypeOK
    <3> QED
      BY <3>1, <3>2 DEF SavingHere
  <2> QED
    BY <2>4, <2>5 DEF AckInv
<1>7. ASSUME NEW r \in Recipient, NEW m \in Msg, Show(r, m) PROVE AckInv'
  BY <1>7, AckFrame DEF Show, Receipt
<1>8. ASSUME NEW l \in Lane, TakeSeen(l) PROVE AckInv'
  <2>1. lane[l].pc = "creating" /\ lane[l].msg \in Msg /\ lane[l].pc # "saving"
    BY <1>8, LaneMessage DEF TakeSeen
  <2>2. lane' = [lane EXCEPT ![l] = Idle] /\ Acknowledge(l, lane[l].msg) /\ UNCHANGED <<mem, disk>>
    BY <1>8 DEF TakeSeen
  <2>3. lane[l].msg \in disk'[l[2]]
    BY <1>8, <2>2 DEF TakeSeen, UnsavedIsOnDisk, AcksUnsaved
  <2>4. HeldIsSaved'
    BY <1>0, <2>1, <2>2, HeldFrame
  <2>5. AckedIsPersisted'
    BY <1>0, <2>1, <2>2, <2>3, AckAdded
  <2> QED
    BY <2>4, <2>5 DEF AckInv
<1> QED
  BY <1>1, <1>2, <1>3, <1>4, <1>5, <1>6, <1>7, <1>8 DEF RecipientStep

\* Lost connections and restarts keep that.
LEMMA AckFaultStep ==
  ASSUME TypeOK, AckInv, FaultStep
  PROVE  AckInv'
<1>0. AckedIsPersisted /\ HeldIsSaved
  BY DEF AckInv
<1>1. CASE RestartSender
  BY <1>1, AckFrame DEF RestartSender, recipientVars
<1>2. ASSUME NEW r \in Recipient, Connect(r) PROVE AckInv'
  BY <1>2, AckFrame DEF Connect, recipientVars
<1>3. ASSUME NEW r \in Recipient, Disconnect(r) PROVE AckInv'
  BY <1>3, AckFrame DEF Disconnect, Cut, recipientVars
<1>4. ASSUME NEW r \in Recipient, RestartRecipient(r) PROVE AckInv'
  <2>1. PICK s \in SetToSeqs(disk[r]) : mem' = [mem EXCEPT ![r] = s]
    BY <1>4 DEF RestartRecipient
  <2>2. Range(s) \subseteq disk[r]
    BY DEF SetToSeqs, Range
  <2>3. mem'[r] = s /\ \A q \in Recipient : q # r => mem'[q] = mem[q]
    BY <2>1 DEF TypeOK
  <2>4. /\ disk' = disk /\ receipts' \subseteq receipts
        /\ \A l \in Lane : l[2] # r => lane'[l] = lane[l]
    BY <1>4 DEF RestartRecipient
  <2>5. AckedIsPersisted'
    BY <1>0, <2>4 DEF AckedIsPersisted
  <2>6. HeldIsSaved'
    <3> SUFFICES ASSUME NEW q \in Recipient, NEW m \in Msg, m \in Range(mem'[q]), m \notin disk[q]
                 PROVE  SavingHere(q, m)'
      BY <2>4 DEF HeldIsSaved, Holds
    <3>1. q # r
      BY <2>2, <2>3
    <3>2. PICK k \in Lane : k[2] = q /\ lane[k].pc = "saving" /\ lane[k].msg = m
      BY <1>0, <2>3, <3>1 DEF HeldIsSaved, Holds, SavingHere
    <3> QED
      BY <2>4, <3>1, <3>2 DEF SavingHere
  <2> QED
    BY <2>5, <2>6 DEF AckInv
<1>5. ASSUME NEW r \in Recipient, NEW m \in Msg, Expire(r, m) PROVE AckInv'
  BY <1>5, AckFrame DEF Expire, recipientVars
<1>6. ASSUME NEW r \in Recipient, NEW m \in Msg, GossipCleanup(r, m) PROVE AckInv'
  BY <1>6, AckFrame DEF GossipCleanup
<1> QED
  BY <1>1, <1>2, <1>3, <1>4, <1>5, <1>6 DEF FaultStep

\* So does every step.
LEMMA AckNext ==
  ASSUME TypeOK, UnsavedIsOnDisk, AckInv, [Next]_vars
  PROVE  AckInv'
<1>1. CASE SenderStep
  <2>1. UNCHANGED <<mem, disk, lane>>
    BY <1>1, SenderTypeStep DEF recipientVars
  <2>2. receipts' \subseteq receipts
    <3>1. ASSUME NEW a \in receipts, ReceiveReceipt(a) PROVE receipts' \subseteq receipts
      BY <3>1 DEF ReceiveReceipt
    <3>2. ASSUME NEW m \in Msg, Compose(m) \/ DispatchFailed(m) \/ FinishSend(m)
          PROVE  receipts' = receipts
      BY <3>2 DEF Compose, DispatchFailed, FinishSend
    <3>3. ASSUME NEW m \in Msg, NEW r \in Recipient, Dispatch(m, r) \/ DispatchLater(m, r)
          PROVE  receipts' = receipts
      BY <3>3 DEF Dispatch, DispatchLater
    <3>4. ASSUME NEW m \in Msg, NEW r \in Recipient,
                 FlushSend(r, m) \/ FlushSkip(r, m) \/ RetrySend(r, m) \/ RetryFailed(r, m)
          PROVE  receipts' = receipts
      BY <3>4 DEF FlushSend, FlushSkip, RetrySend, RetryFailed
    <3>5. ASSUME NEW r \in Recipient,
                 FlushBegin(r) \/ FlushEnd(r) \/ RetryBegin(r) \/ RetryEnd(r)
          PROVE  receipts' = receipts
      BY <3>5 DEF FlushBegin, FlushEnd, RetryBegin, RetryEnd
    <3> QED
      BY <1>1, <3>1, <3>2, <3>3, <3>4, <3>5 DEF SenderStep
  <2> QED
    BY <2>1, <2>2, AckFrame
<1>2. CASE RecipientStep
  BY <1>2, AckRecipientStep
<1>3. CASE FaultStep
  BY <1>3, AckFaultStep
<1>4. CASE UNCHANGED vars
  BY <1>4, AckFrame DEF vars, recipientVars
<1> QED
  BY <1>1, <1>2, <1>3, <1>4 DEF Next

\* In a direct conversation the acknowledgment of a message is sent only when the
\* message is on the recipient's disk, however busy the conversation is.
THEOREM DirectAckIsPersisted ==
  ASSUME Direct
  PROVE  Spec => []AckedIsPersisted
<1>1. Init => StoreInv /\ AckInv
  BY StoreInit, AckInit
<1>2. TypeOK /\ StoreInv /\ AckInv /\ [Next]_vars => AckInv'
  BY DirectUnsaved, AckNext
<1>3. TypeOK /\ StoreInv /\ [Next]_vars => StoreInv'
  BY StoreNext
<1>4. AckInv => AckedIsPersisted
  BY DEF AckInv
<1> QED
  BY <1>1, <1>2, <1>3, <1>4, TypeCorrect, PTL DEF Spec

-----------------------------------------------------------------------------
(* In a direct conversation no lost copy is given up.                      *)

\* What the receipts of e say of m is true of the disks; in a direct conversation the
\* status of e speaks of every recipient.
Arrived(m, e) ==
    (Direct => e.shown = {}) /\ \A r \in Recipient : r \in e.acked \ e.read => m \in disk[r]

ArrivedInv == \A m \in Msg : Arrived(m, log[m]) /\ Arrived(m, saved[m])

\* A message without receipts claims nothing.
LEMMA ArrivedFresh ==
  ASSUME NEW m, NEW e, Direct => e.shown = {}, e.acked = {}
  PROVE  Arrived(m, e)
BY DEF Arrived

\* The disks only grow.
LEMMA DiskGrows ==
  ASSUME TypeOK, [Next]_vars
  PROVE  \A r \in Recipient : disk[r] \subseteq disk'[r]
<1>1. CASE SenderStep
  BY <1>1, SenderTypeStep DEF recipientVars
<1>2. CASE RecipientStep
  <2>1. ASSUME NEW l \in Lane, Resaved(l) PROVE \A r \in Recipient : disk[r] \subseteq disk'[r]
    BY <2>1 DEF Resaved, TypeOK
  <2>2. ASSUME NEW l \in Lane, NEW R \in SUBSET Recipient, Saved(l, R)
        PROVE  \A r \in Recipient : disk[r] \subseteq disk'[r]
    BY <2>2 DEF Saved, TypeOK
  <2> QED
    BY <1>2, <2>1, <2>2 DEF RecipientStep, Take, TakeHeld, TakeSeen, TakeNew, Added, Show
<1>3. CASE FaultStep
  BY <1>3 DEF FaultStep, RestartSender, Connect, Disconnect, RestartRecipient, Expire,
     GossipCleanup, recipientVars
<1>4. CASE UNCHANGED vars
  BY <1>4 DEF vars, recipientVars
<1> QED
  BY <1>1, <1>2, <1>3, <1>4 DEF Next

\* The send loop, replays and receipts keep what the receipts say true.
LEMMA ArrivedSenderStep ==
  ASSUME TypeOK, AckedIsPersisted, ArrivedInv, SenderStep
  PROVE  ArrivedInv'
<1>0. /\ log \in [Msg -> Entry] /\ saved \in [Msg -> Entry] /\ disk' = disk
      /\ \A m \in Msg : Arrived(m, log[m]) /\ Arrived(m, saved[m])
  BY SenderTypeStep DEF TypeOK, ArrivedInv, recipientVars
<1>6. (\A k \in Msg : Arrived(k, log'[k]) /\ Arrived(k, saved'[k])) => ArrivedInv'
  BY <1>0 DEF ArrivedInv, Arrived
<1>a. ASSUME NEW m \in Msg, NEW e, NEW f, Arrived(m, e), Arrived(m, f),
             log' = [log EXCEPT ![m] = e], saved' = [saved EXCEPT ![m] = f]
      PROVE  ArrivedInv'
  BY <1>0, <1>6, <1>a
<1>5. CASE UNCHANGED <<log, saved>>
  BY <1>0, <1>5, <1>6
<1>1. ASSUME NEW m \in Msg, Compose(m) PROVE ArrivedInv'
  <2>1. Arrived(m, [status |-> "pending", acked |-> {}, read |-> {},
                    shown |-> IF Direct THEN {} ELSE ready])
    BY ArrivedFresh
  <2>2. Arrived(m, [Unwritten EXCEPT !.status = "pending"])
    BY ArrivedFresh DEF Unwritten
  <2> QED
    BY <1>a, <1>1, <2>1, <2>2 DEF Compose
<1>2. ASSUME NEW m \in Msg, EndLoop(m) PROVE ArrivedInv'
  <2>1. CASE ~ (log[m].status \in {"sent", "delivered"})
    <3>1. Arrived(m, [log[m] EXCEPT !.status = "sent"])
      BY <1>0 DEF Arrived, Entry
    <3>2. Arrived(m, [status |-> "sent", acked |-> {}, read |-> {}, shown |-> log[m].shown])
      BY <1>0, ArrivedFresh DEF Arrived
    <3>3. log' = [log EXCEPT ![m] = [log[m] EXCEPT !.status = "sent"]]
      BY <1>2, <2>1 DEF EndLoop
    <3> QED
      BY <1>a, <1>2, <2>1, <3>1, <3>2, <3>3 DEF EndLoop
  <2> QED
    BY <1>2, <1>5, <2>1 DEF EndLoop
<1>3. ASSUME NEW m \in Msg, Reconcile(m) PROVE ArrivedInv'
  <2>1. Arrived(m, Raised(log[m])) /\ Arrived(m, log[m]) /\ Arrived(m, saved[m])
    BY <1>0, RaisedType DEF Arrived
  <2>2. log' = [log EXCEPT ![m] = Raised(log[m])]
    BY <1>3 DEF Reconcile
  <2>3. saved' = saved \/ saved' = [saved EXCEPT ![m] = Raised(log[m])]
    BY <1>3 DEF Reconcile
  <2> QED
    BY <1>0, <1>6, <2>1, <2>2, <2>3
<1>4. ASSUME NEW a \in receipts, ReceiveReceipt(a) PROVE ArrivedInv'
  <2> DEFINE e == log[a.msg]
             f == [e EXCEPT !.acked = @ \cup {a.from},
                            !.read = IF a.kind = "read" THEN @ \cup {a.from} ELSE @]
  <2>1. /\ a.msg \in Msg /\ a.from \in Recipient /\ a.kind \in {"ack", "read"}
        /\ e \in Entry /\ Arrived(a.msg, e)
    BY <1>0 DEF TypeOK
  <2>2. a.kind = "ack" => a.msg \in disk[a.from]
    BY DEF AckedIsPersisted
  <2>3. /\ f \in Entry /\ f.shown = e.shown /\ f.acked = e.acked \cup {a.from}
        /\ f.read = (IF a.kind = "read" THEN e.read \cup {a.from} ELSE e.read)
    BY <2>1 DEF Entry
  <2>4. /\ Raised(f).acked = f.acked /\ Raised(f).read = f.read /\ Raised(f).shown = f.shown
    BY <2>3, RaisedType
  <2>5. applyMessageReceipt(e, a.from, a.kind) = Raised(f)
    BY DEF applyMessageReceipt
  <2>6. Arrived(a.msg, Raised(f))
    <3> HIDE DEF e, f
    <3> QED BY <2>1, <2>2, <2>3, <2>4 DEF Arrived
  <2>7. \/ UNCHANGED <<log, saved>>
        \/ log' = [log EXCEPT ![a.msg] = Raised(f)] /\ saved' = [saved EXCEPT ![a.msg] = Raised(f)]
    BY <1>4, <2>5 DEF ReceiveReceipt
  <2> HIDE DEF f
  <2> QED
    BY <1>a, <1>5, <2>1, <2>6, <2>7
<1>7. ASSUME NEW m \in Msg, Compose(m) \/ FinishSend(m) PROVE ArrivedInv'
  BY <1>1, <1>2, <1>7 DEF FinishSend
<1>8. ASSUME NEW m \in Msg, NEW r \in Recipient,
             Dispatch(m, r) \/ FlushSend(r, m) \/ RetrySend(r, m)
      PROVE  ArrivedInv'
  BY <1>2, <1>3, <1>5, <1>8 DEF Dispatch, FlushSend, RetrySend
<1>9. ASSUME NEW m \in Msg, NEW r \in Recipient,
             DispatchLater(m, r) \/ FlushSkip(r, m) \/ RetryFailed(r, m)
      PROVE  ArrivedInv'
  BY <1>5, <1>9 DEF DispatchLater, FlushSkip, RetryFailed
<1>b. ASSUME NEW m \in Msg, DispatchFailed(m) PROVE ArrivedInv'
  BY <1>5, <1>b DEF DispatchFailed
<1>c. ASSUME NEW r \in Recipient, FlushBegin(r) \/ FlushEnd(r) \/ RetryBegin(r) \/ RetryEnd(r)
      PROVE  ArrivedInv'
  BY <1>5, <1>c DEF FlushBegin, FlushEnd, RetryBegin, RetryEnd
<1> QED
  BY <1>4, <1>7, <1>8, <1>9, <1>b, <1>c DEF SenderStep

\* Every step does.
LEMMA ArrivedNext ==
  ASSUME TypeOK, AckedIsPersisted, ArrivedInv, [Next]_vars
  PROVE  ArrivedInv'
<1>1. CASE SenderStep
  BY <1>1, ArrivedSenderStep
<1>2. CASE UNCHANGED <<log, saved>>
  BY <1>2, DiskGrows DEF ArrivedInv, Arrived
<1>3. CASE RestartSender
  BY <1>3, DiskGrows DEF ArrivedInv, Arrived, RestartSender
<1>4. CASE RecipientStep
  BY <1>2, <1>4, RecipientTypeStep DEF senderVars
<1>5. CASE UNCHANGED vars
  BY <1>2, <1>5 DEF vars, senderVars
<1> QED
  BY <1>1, <1>2, <1>3, <1>4, <1>5
     DEF Next, FaultStep, Connect, Disconnect, RestartRecipient, Expire, GossipCleanup, senderVars

\* A conversation of two.
OneRecipient == \E r : Recipient = {r}

\* A message that a recipient lost is not one its receipts call delivered, so the retry
\* still takes it up.
LEMMA LostIsRetried ==
  ASSUME Direct \/ OneRecipient, TypeOK, StatusJustified, ArrivedInv, NEW m \in Msg, NEW r \in Recipient,
         log[m].status # "new", m \notin disk[r], r \notin log[m].read
  PROVE  m \in queue[r] \/ RetryCandidate(r, m)
<1>1. log[m] \in Entry /\ Arrived(m, log[m]) /\ Justified(log[m])
  BY StatusParts DEF TypeOK, ArrivedInv
<1>2. StatusRecipients(log[m]) = Recipient /\ r \notin log[m].acked
  <2>1. CASE Direct
    BY <1>1, <2>1 DEF Arrived, StatusRecipients
  <2>2. CASE Recipient = {r}
    BY <1>1, <2>2 DEF Arrived, StatusRecipients, Entry
  <2> QED
    BY <2>1, <2>2 DEF OneRecipient
<1>3. log[m].status \notin {"delivered", "read"}
  BY <1>1, <1>2 DEF Justified
<1> QED
  BY <1>1, <1>2, <1>3 DEF RetryCandidate, Entry

\* In a direct conversation a copy lost with its connection, with a restart of either side
\* or with the addMessage that rejected it is in the outbox or will be retried: an ack
\* means that the message is on disk, so the sender never takes a lost copy for delivered.
THEOREM DirectLostCopyIsResent ==
  ASSUME Direct
  PROVE  Spec => []LostCopyIsResent
<1>1. Init => ArrivedInv
  BY DEF Init, ArrivedInv, Arrived, Unwritten
<1>2. TypeOK /\ AckedIsPersisted /\ ArrivedInv /\ [Next]_vars => ArrivedInv'
  BY ArrivedNext
<1>3. TypeOK /\ StatusJustified /\ ArrivedInv => LostCopyIsResent
  BY LostIsRetried DEF LostCopyIsResent, Copies
<1>4. Spec => []AckedIsPersisted
  BY DirectAckIsPersisted
<1> QED
  BY <1>1, <1>2, <1>3, <1>4, TypeCorrect, StatusIsJustified, PTL DEF Spec

-----------------------------------------------------------------------------
(* So it is in a channel of two to which nobody else writes.               *)

Creating(l) == lane[l].pc = "creating"

\* What was relayed is on disk; what was seen is in the array or about to be: nothing is
\* rejected, since nothing comes between a message and the one it was compared with.
QuietInv ==
    /\ \A r \in Recipient : gossiped[r] \subseteq disk[r]
    /\ \A l \in Lane : Creating(l) => lane[l].prev = Newest(l[2])
    /\ \A l \in Lane : Adding(l) => lane[l].ok
    /\ \A l \in Lane : \A m \in seen[l[2]] : Holds(l[2], m) \/ (Adding(l) /\ lane[l].msg = m)

\* With one recipient there is one lane.
LEMMA OneLane ==
  ASSUME OneRecipient, NEW l \in Lane, NEW k \in Lane
  PROVE  l = k
<1>1. l[2] = k[2] /\ l[1] = Sender /\ k[1] = Sender
  BY DEF OneRecipient, Lane
<1> QED
  BY <1>1, SameLane

\* A handler that finds a message seen but not held finds it on disk.
LEMMA QuietUnsaved ==
  ASSUME ~ Direct, TypeOK, QuietInv
  PROVE  UnsavedIsOnDisk
<1> SUFFICES ASSUME NEW l \in Lane, Creating(l), ~ Holds(l[2], lane[l].msg),
                    lane[l].msg \in gossiped[l[2]] \cup seen[l[2]]
             PROVE  lane[l].msg \in disk[l[2]]
  BY DEF UnsavedIsOnDisk, AcksUnsaved, Creating
<1>1. lane[l].msg \notin seen[l[2]]
  BY DEF QuietInv, Adding, Creating
<1> QED
  BY <1>1, LaneParts DEF QuietInv

\* Steps that leave the arrays, the caches and the handlers alone.
LEMMA QuietFrame ==
  ASSUME QuietInv, UNCHANGED <<mem, seen, gossiped, lane>>,
         \A r \in Recipient : disk[r] \subseteq disk'[r]
  PROVE  QuietInv'
BY DEF QuietInv, Creating, Adding, Newest, Holds

\* Steps in which a handler that adds nothing turns to something that is no adding.
LEMMA QuietIdleStep ==
  ASSUME OneRecipient, TypeOK, QuietInv, NEW l \in Lane, NEW x, ~ Adding(l),
         x.pc # "adding", x.pc = "creating" => x.prev = Newest(l[2]),
         lane' = [lane EXCEPT ![l] = x], UNCHANGED <<mem, seen>>,
         \A r \in Recipient : disk[r] \subseteq disk'[r] /\ gossiped'[r] \subseteq disk'[r]
  PROVE  QuietInv'
<1>1. \A k \in Lane : k = l
  BY OneLane
<1>2. lane'[l] = x
  BY DEF TypeOK
<1> QED
  BY <1>1, <1>2 DEF QuietInv, Creating, Adding, Newest, Holds

\* The receive path keeps what was seen in the array.
LEMMA QuietRecipientStep ==
  ASSUME OneRecipient, ~ Direct, ~ Busy, TypeOK, QuietInv, RecipientStep,
         \A r \in Recipient : disk[r] \subseteq disk'[r]
  PROVE  QuietInv'
<1>0. \A r \in Recipient : gossiped[r] \subseteq disk'[r]
  BY DEF QuietInv
<1>1. ASSUME NEW l \in Lane, Take(l) PROVE QuietInv'
  <2>1. CASE lane' = lane
    BY <1>1, <2>1, QuietFrame DEF Take
  <2>2. CASE lane' # lane
    <3> DEFINE x == [pc |-> "creating", msg |-> Head(net[l]), prev |-> Newest(l[2])]
    <3>1. lane' = [lane EXCEPT ![l] = x] /\ ~ Adding(l) /\ UNCHANGED <<mem, seen, gossiped>>
      BY <1>1, <2>2 DEF Take, Adding, Idle
    <3>2. x.pc # "adding" /\ x.prev = Newest(l[2])
      OBVIOUS
    <3> HIDE DEF x
    <3> QED
      BY <1>0, <3>1, <3>2, QuietIdleStep
  <2> QED
    BY <2>1, <2>2
<1>2. ASSUME NEW l \in Lane, TakeHeld(l) PROVE QuietInv'
  <2> DEFINE x == [pc |-> "resaving", msg |-> lane[l].msg]
  <2>1. lane' = [lane EXCEPT ![l] = x] /\ ~ Adding(l) /\ UNCHANGED <<mem, seen, gossiped>>
    BY <1>2 DEF TakeHeld, Adding
  <2>2. x.pc = "resaving"
    OBVIOUS
  <2> HIDE DEF x
  <2> QED
    BY <1>0, <2>1, <2>2, QuietIdleStep
<1>3. ASSUME NEW l \in Lane, Resaved(l) \/ TakeSeen(l) PROVE QuietInv'
  <2>1. lane' = [lane EXCEPT ![l] = Idle] /\ ~ Adding(l) /\ UNCHANGED <<mem, seen, gossiped>>
    BY <1>3 DEF Resaved, TakeSeen, Adding
  <2> QED
    BY <1>0, <2>1, QuietIdleStep DEF Idle
<1>4. ASSUME NEW l \in Lane, TakeNew(l) PROVE QuietInv'
  <2>1. /\ lane' = [lane EXCEPT ![l] = [pc |-> "adding", msg |-> lane[l].msg,
                                        ok |-> lane[l].prev = Newest(l[2])]]
        /\ seen' = [seen EXCEPT ![l[2]] = @ \cup {lane[l].msg}]
        /\ UNCHANGED <<mem, gossiped>> /\ Creating(l)
    BY <1>4 DEF TakeNew, Creating
  <2>2. lane[l].prev = Newest(l[2]) /\ l[2] \in Recipient /\ \A k \in Lane : k = l
    BY <2>1, LaneParts, OneLane DEF QuietInv
  <2>3. /\ lane'[l].pc = "adding" /\ lane'[l].msg = lane[l].msg /\ lane'[l].ok
        /\ seen'[l[2]] = seen[l[2]] \cup {lane[l].msg}
    BY <2>1, <2>2 DEF TypeOK
  <2>4. \A m \in seen[l[2]] : Holds(l[2], m)
    BY <2>1 DEF QuietInv, Creating, Adding
  <2> QED
    BY <1>0, <2>1, <2>2, <2>3, <2>4 DEF QuietInv, Creating, Adding, Holds
<1>5. ASSUME NEW l \in Lane, Added(l) PROVE QuietInv'
  <2>1. Adding(l) /\ lane[l].ok /\ lane[l].msg \in Msg /\ l[2] \in Recipient
    BY <1>5, LaneMessage, LaneParts DEF Added, Adding, QuietInv
  <2>2. /\ mem' = [mem EXCEPT ![l[2]] = Append(@, lane[l].msg)]
        /\ lane' = [lane EXCEPT ![l] = [pc |-> "saving", msg |-> lane[l].msg]]
        /\ UNCHANGED <<seen, gossiped>>
    BY <1>5, <2>1 DEF Added
  <2>3. /\ lane'[l].pc = "saving" /\ mem'[l[2]] = Append(mem[l[2]], lane[l].msg)
        /\ mem[l[2]] \in Seq(Msg) /\ \A k \in Lane : k = l
    BY <2>1, <2>2, OneLane DEF TypeOK
  <2>4. Range(mem'[l[2]]) = Range(mem[l[2]]) \cup {lane[l].msg}
    BY <2>1, <2>3, AppendRange
  <2>5. \A m \in seen[l[2]] : m \in Range(mem'[l[2]])
    BY <2>1, <2>4 DEF QuietInv, Holds
  <2> QED
    BY <1>0, <2>2, <2>3, <2>5 DEF QuietInv, Creating, Adding, Holds
<1>6. ASSUME NEW l \in Lane, NEW R \in SUBSET Recipient, Saved(l, R) PROVE QuietInv'
  <2>1. /\ lane' = [lane EXCEPT ![l] = Idle] /\ ~ Adding(l) /\ UNCHANGED <<mem, seen>>
        /\ gossiped' = [gossiped EXCEPT ![l[2]] = @ \cup {lane[l].msg}]
        /\ disk' = [disk EXCEPT ![l[2]] = @ \cup {lane[l].msg}]
    BY <1>6 DEF Saved, Adding
  <2>2. \A r \in Recipient : gossiped'[r] \subseteq disk'[r]
    BY <1>0, <2>1, LaneParts DEF TypeOK
  <2> QED
    BY <2>1, <2>2, QuietIdleStep DEF Idle
<1>7. ASSUME NEW r \in Recipient, NEW m \in Msg, Show(r, m) PROVE QuietInv'
  BY <1>7, QuietFrame DEF Show
<1> QED
  BY <1>1, <1>2, <1>3, <1>4, <1>5, <1>6, <1>7 DEF RecipientStep

\* So does every step; a restart forgets what was seen.
LEMMA QuietNext ==
  ASSUME OneRecipient, ~ Direct, ~ Busy, TypeOK, QuietInv, [Next]_vars
  PROVE  QuietInv'
<1>0. \A r \in Recipient : disk[r] \subseteq disk'[r]
  BY DiskGrows
<1>1. CASE UNCHANGED recipientVars
  BY <1>0, <1>1, QuietFrame DEF recipientVars
<1>2. CASE SenderStep
  BY <1>1, <1>2, SenderTypeStep
<1>3. CASE RecipientStep
  BY <1>0, <1>3, QuietRecipientStep
<1>4. ASSUME NEW r \in Recipient, RestartRecipient(r) PROVE QuietInv'
  <2>1. \A q \in Recipient : q = r
    BY DEF OneRecipient
  <2>2. seen'[r] = {} /\ gossiped'[r] = {} /\ \A l \in Lane : lane'[l] = Idle
    BY <1>4, <2>1, LaneParts DEF RestartRecipient, TypeOK
  <2> QED
    BY <2>1, <2>2, LaneParts DEF QuietInv, Creating, Adding, Idle
<1>5. ASSUME NEW r \in Recipient, NEW m \in Msg, GossipCleanup(r, m) PROVE QuietInv'
  <2>1. \A q \in Recipient : gossiped'[q] \subseteq gossiped[q]
    BY <1>5 DEF GossipCleanup, TypeOK
  <2>2. UNCHANGED <<mem, seen, lane, disk>>
    BY <1>5 DEF GossipCleanup
  <2> QED
    BY <2>1, <2>2 DEF QuietInv, Creating, Adding, Newest, Holds
<1>6. CASE RestartSender \/ UNCHANGED vars
  BY <1>1, <1>6 DEF RestartSender, vars
<1>7. ASSUME NEW r \in Recipient, Connect(r) \/ Disconnect(r) PROVE QuietInv'
  BY <1>1, <1>7 DEF Connect, Disconnect
<1>8. ASSUME NEW r \in Recipient, NEW m \in Msg, Expire(r, m) PROVE QuietInv'
  BY <1>1, <1>8 DEF Expire
<1> QED
  BY <1>2, <1>3, <1>4, <1>5, <1>6, <1>7, <1>8 DEF Next, FaultStep

\* In a channel of two to which nobody else writes an acknowledgment is sent only for a
\* message on disk, also for a copy that its handler found seen but not held.
THEOREM QuietAckIsPersisted ==
  ASSUME OneRecipient, ~ Direct, ~ Busy
  PROVE  Spec => []AckedIsPersisted
<1>1. Init => QuietInv /\ AckInv
  <2>1. Init => QuietInv
    BY LaneParts DEF Init, QuietInv, Creating, Adding, Idle
  <2> QED
    BY <2>1, AckInit
<1>2. TypeOK /\ QuietInv /\ [Next]_vars => QuietInv'
  BY QuietNext
<1>3. TypeOK /\ QuietInv /\ AckInv /\ [Next]_vars => AckInv'
  BY QuietUnsaved, AckNext
<1>4. AckInv => AckedIsPersisted
  BY DEF AckInv
<1> QED
  BY <1>1, <1>2, <1>3, <1>4, TypeCorrect, PTL DEF Spec

\* There, too, a lost copy is in the outbox or will be retried.
THEOREM QuietLostCopyIsResent ==
  ASSUME OneRecipient, ~ Direct, ~ Busy
  PROVE  Spec => []LostCopyIsResent
<1>1. Init => ArrivedInv
  BY DEF Init, ArrivedInv, Arrived, Unwritten
<1>2. TypeOK /\ AckedIsPersisted /\ ArrivedInv /\ [Next]_vars => ArrivedInv'
  BY ArrivedNext
<1>3. TypeOK /\ StatusJustified /\ ArrivedInv => LostCopyIsResent
  BY LostIsRetried DEF LostCopyIsResent, Copies
<1>4. Spec => []AckedIsPersisted
  BY QuietAckIsPersisted
<1> QED
  BY <1>1, <1>2, <1>3, <1>4, TypeCorrect, StatusIsJustified, PTL DEF Spec

-----------------------------------------------------------------------------
(* In a channel a message that is sent again is acknowledged again.        *)

\* Taking a message off a connection is not doing nothing, and not sending one.
LEMMA TailIsShorter ==
  ASSUME NEW s \in Seq(Msg), s # <<>>, NEW m \in Msg
  PROVE  Tail(s) # s /\ Tail(s) # Append(s, m)
<1>1. Len(s) \in Nat /\ Len(Tail(s)) = Len(s) - 1
  BY HeadTailProperties, LenProperties
<1>2. Len(Append(s, m)) = Len(s) + 1
  BY AppendProperties
<1> DEFINE t == Tail(s)
           u == Append(s, m)
<1>3. Len(t) = Len(s) - 1 /\ Len(u) = Len(s) + 1
  BY <1>1, <1>2
<1> HIDE DEF t, u
<1>4. ASSUME NEW n \in Nat, NEW a, NEW b, a = n - 1, b = n + 1
      PROVE  a # n /\ a # b
  BY ONLY <1>4
<1>5. t # s /\ t # u
  BY <1>1, <1>3, <1>4, Zenon
<1> QED
  BY <1>5 DEF t, u

\* A handler that a step leaves alone is not done with anything in it.
LEMMA NotHandled ==
  ASSUME TypeOK, NEW l \in Lane, NEW m \in Msg, lane'[l] = lane[l],
         net'[l] = net[l] \/ \E k \in Msg : net'[l] = Append(net[l], k)
  PROVE  ~ Handled(l, m)
<1>1. net[l] \in Seq(Msg)
  BY DEF TypeOK
<1>2. net[l] # <<>> => net'[l] # Tail(net[l])
  BY <1>1, TailIsShorter
<1> QED
  BY <1>2 DEF Handled

\* The sender's steps handle nothing.
LEMMA SenderHandlesNothing ==
  ASSUME TypeOK, SenderStep, NEW l \in Lane, NEW m \in Msg
  PROVE  ~ Handled(l, m)
<1>1. lane' = lane
  BY SenderTypeStep DEF recipientVars
<1>2. CASE UNCHANGED net
  BY <1>1, <1>2, NotHandled
<1>3. ASSUME NEW k \in Msg, NEW r \in Recipient, Transmit(k, r)
      PROVE  ~ Handled(l, m)
  <2>1. net'[l] = net[l] \/ net'[l] = Append(net[l], k)
    BY <1>3 DEF Transmit, TypeOK
  <2> QED
    BY <1>1, <2>1, NotHandled
<1>4. ASSUME NEW k \in Msg, NEW r \in Recipient,
             Dispatch(k, r) \/ FlushSend(r, k) \/ RetrySend(r, k)
      PROVE  ~ Handled(l, m)
  BY <1>3, <1>4 DEF Dispatch, FlushSend, RetrySend
<1>5. ASSUME NEW k \in Msg, NEW r \in Recipient,
             DispatchLater(k, r) \/ FlushSkip(r, k) \/ RetryFailed(r, k)
      PROVE  ~ Handled(l, m)
  BY <1>2, <1>5 DEF DispatchLater, FlushSkip, RetryFailed
<1>6. ASSUME NEW k \in Msg, Compose(k) \/ DispatchFailed(k) \/ FinishSend(k)
      PROVE  ~ Handled(l, m)
  BY <1>2, <1>6 DEF Compose, DispatchFailed, FinishSend
<1>7. ASSUME NEW r \in Recipient, FlushBegin(r) \/ FlushEnd(r) \/ RetryBegin(r) \/ RetryEnd(r)
      PROVE  ~ Handled(l, m)
  BY <1>2, <1>7 DEF FlushBegin, FlushEnd, RetryBegin, RetryEnd
<1>8. ASSUME NEW a \in receipts, ReceiveReceipt(a) PROVE ~ Handled(l, m)
  BY <1>2, <1>8 DEF ReceiveReceipt
<1> QED
  BY <1>4, <1>5, <1>6, <1>7, <1>8 DEF SenderStep

\* Nor do connections; a restart or a loss is another session.
LEMMA FaultHandlesNothing ==
  ASSUME TypeOK, FaultStep, NEW l \in Lane, NEW m \in Msg
  PROVE  ~ Handled(l, m)
<1>0. faults \in Nat
  BY DEF TypeOK
<1>1. CASE RestartSender
  BY <1>0, <1>1 DEF RestartSender, Handled
<1>2. ASSUME NEW r \in Recipient, Connect(r) PROVE ~ Handled(l, m)
  BY <1>2, NotHandled DEF Connect, recipientVars
<1>3. ASSUME NEW r \in Recipient, Disconnect(r) \/ RestartRecipient(r) PROVE ~ Handled(l, m)
  BY <1>0, <1>3 DEF Disconnect, RestartRecipient, Handled
<1>4. ASSUME NEW r \in Recipient, NEW k \in Msg, Expire(r, k) \/ GossipCleanup(r, k)
      PROVE  ~ Handled(l, m)
  BY <1>0, <1>4 DEF Expire, GossipCleanup, Handled
<1> QED
  BY <1>1, <1>2, <1>3, <1>4 DEF FaultStep

\* A handler that ends with a message in the array has acknowledged it: the one ending
\* that does not is a rejected addMessage, whose message is not in the array.
LEMMA HandledIsAcked ==
  ASSUME ~ Direct, TypeOK, AddingIsMarked, RecipientStep, NEW r \in Recipient, NEW m \in Msg,
         Handled(<<Sender, r>>, m), Holds(r, m)', r \in ready
  PROVE  Receipt("ack", r, m, Sender) \in receipts'
<1> DEFINE l == <<Sender, r>>
<1>0. l \in Lane /\ l[1] = Sender /\ l[2] = r /\ Sender \notin Recipient
  BY SenderLane, DeliveryAssumption
<1> HIDE DEF l
<1>a. Handled(l, m)
  BY DEF l
<1>b. ASSUME lane[l] # Idle, Acknowledge(l, lane[l].msg)
      PROVE  Receipt("ack", r, m, Sender) \in receipts'
  BY <1>0, <1>a, <1>b DEF Handled, Acknowledge, Receipt
<1>c. ASSUME NEW k \in Lane, k # l, lane'[l] = lane[l], net'[l] = net[l] PROVE FALSE
  BY <1>0, <1>a, <1>c, NotHandled
<1>d. lane'[l] = Idle
  BY <1>a DEF Handled
<1>1. ASSUME NEW k \in Lane, Take(k) PROVE FALSE
  <2>1. CASE k # l
    BY <1>0, <1>1, <1>c, <2>1 DEF Take, TypeOK
  <2>2. CASE k = l
    BY <1>0, <1>1, <1>d, <2>2 DEF Take, TypeOK, Idle
  <2> QED
    BY <2>1, <2>2
<1>2. ASSUME NEW k \in Lane, TakeHeld(k) PROVE FALSE
  <2>1. CASE k # l
    BY <1>0, <1>2, <1>c, <2>1 DEF TakeHeld, TypeOK
  <2>2. CASE k = l
    BY <1>0, <1>2, <1>d, <2>2 DEF TakeHeld, TypeOK, Idle
  <2> QED
    BY <2>1, <2>2
<1>3. ASSUME NEW k \in Lane, Resaved(k) PROVE Receipt("ack", r, m, Sender) \in receipts'
  <2>1. CASE k # l
    BY <1>0, <1>3, <1>c, <2>1 DEF Resaved, TypeOK
  <2>2. CASE k = l
    BY <1>3, <1>b, <2>2 DEF Resaved, Idle
  <2> QED
    BY <2>1, <2>2
<1>4. ASSUME NEW k \in Lane, TakeSeen(k) PROVE Receipt("ack", r, m, Sender) \in receipts'
  <2>1. CASE k # l
    BY <1>0, <1>4, <1>c, <2>1 DEF TakeSeen, TypeOK
  <2>2. CASE k = l
    BY <1>4, <1>b, <2>2 DEF TakeSeen, Idle
  <2> QED
    BY <2>1, <2>2
<1>5. ASSUME NEW k \in Lane, TakeNew(k) PROVE FALSE
  <2>1. PICK ok : lane' = [lane EXCEPT ![k] = [pc |-> "adding", msg |-> lane[k].msg, ok |-> ok]]
    BY <1>5 DEF TakeNew
  <2>2. CASE k # l
    BY <1>0, <1>5, <1>c, <2>1, <2>2 DEF TakeNew, TypeOK
  <2>3. CASE k = l
    BY <1>0, <1>d, <2>1, <2>3 DEF TypeOK, Idle
  <2> QED
    BY <2>2, <2>3
<1>6. ASSUME NEW k \in Lane, Added(k) PROVE FALSE
  <2>1. CASE k # l
    BY <1>0, <1>6, <1>c, <2>1 DEF Added, TypeOK
  <2>2. CASE k = l /\ lane[l].ok
    BY <1>0, <1>6, <1>d, <2>2 DEF Added, TypeOK, Idle
  <2>3. CASE k = l /\ ~ lane[l].ok
    <3>1. lane[l].pc = "adding" /\ lane[l] # Idle /\ mem' = mem
      BY <1>6, <2>3 DEF Added, Idle
    <3>2. lane[l].msg = m
      BY <1>a, <3>1 DEF Handled
    <3>3. ~ Holds(r, m)
      BY <1>0, <3>1, <3>2 DEF AddingIsMarked, Adding
    <3> QED
      BY <3>1, <3>3 DEF Holds
  <2> QED
    BY <2>1, <2>2, <2>3
<1>7. ASSUME NEW k \in Lane, NEW R \in SUBSET Recipient, Saved(k, R)
      PROVE  Receipt("ack", r, m, Sender) \in receipts'
  <2>1. CASE k # l
    <3>1. l \notin {<<k[2], q>> : q \in R}
      BY <1>0, LaneParts
    <3> QED
      BY <1>0, <1>7, <1>c, <2>1, <3>1 DEF Saved, TypeOK
  <2>2. CASE k = l
    BY <1>7, <1>b, <2>2 DEF Saved, Idle
  <2> QED
    BY <2>1, <2>2
<1>8. ASSUME NEW q \in Recipient, NEW k \in Msg, Show(q, k) PROVE FALSE
  BY <1>0, <1>8, <1>a, NotHandled DEF Show
<1> QED
  BY <1>1, <1>2, <1>3, <1>4, <1>5, <1>6, <1>7, <1>8 DEF RecipientStep

\* In a channel, for any number of recipients and however busy it is, a message that its
\* sender sends again to a recipient who has it is acknowledged again, so the sender stops
\* retrying: the handler is done with a held message only by acknowledging it.
THEOREM ChannelHeldIsAckedAgain ==
  ASSUME ~ Direct
  PROVE  Spec => HeldIsAckedAgain
<1>1. TypeOK /\ StoreInv /\ [Next]_vars =>
        [\A r \in Recipient, m \in Msg :
           Handled(<<Sender, r>>, m) /\ Holds(r, m)' /\ r \in ready
             => Receipt("ack", r, m, Sender) \in receipts']_vars
  <2> SUFFICES ASSUME TypeOK, StoreInv, Next, NEW r \in Recipient, NEW m \in Msg,
                      Handled(<<Sender, r>>, m), Holds(r, m)', r \in ready
               PROVE  Receipt("ack", r, m, Sender) \in receipts'
    OBVIOUS
  <2>1. AddingIsMarked /\ <<Sender, r>> \in Lane
    BY SenderLane DEF StoreInv
  <2> QED
    BY <2>1, SenderHandlesNothing, FaultHandlesNothing, HandledIsAcked DEF Next
<1>2. Init => StoreInv
  BY StoreInit
<1>3. TypeOK /\ StoreInv /\ [Next]_vars => StoreInv'
  BY StoreNext
<1> QED
  BY <1>1, <1>2, <1>3, TypeCorrect, PTL DEF Spec, HeldIsAckedAgain
=============================================================================
