------------------------- MODULE OfflineQueueProofs -------------------------
(***************************************************************************)
(* OfflineQueue implements Outbox, and a connection has one flush at a     *)
(* time, for any number of rows, runs of the flush, receipts and troubles. *)
(*                                                                         *)
(* A row may leave the store in five places, each of which acts on what    *)
(* was read some steps before.  The invariant says of every value read     *)
(* that it is still good when it is used: the history only grows, so that  *)
(* what was true of it then (Grows) is true now.                           *)
(***************************************************************************)
EXTENDS OfflineQueue, WellFoundedInduction, TLAPS

Written == DOMAIN written

WrittenOK ==
    /\ written \in Seq([op : Op, deferred : BOOLEAN]) /\ Len(written) <= MaxRows

ScalarsOK ==
    /\ expired \subseteq Written
    /\ ready \in BOOLEAN /\ post \in BOOLEAN /\ scheduled \in BOOLEAN /\ cool \in BOOLEAN
    /\ retries \subseteq {"fast", "slow"}
    /\ inFlight \in Flusher \cup {None}
    /\ sent \subseteq Written /\ acked \subseteq Op /\ failures \in [Id -> Nat]
    /\ trouble \in 0..MaxTrouble

\* The attempts of a row are at most the failures there were.
RowsOK ==
    /\ DOMAIN rows \subseteq Written
    /\ \A i \in DOMAIN rows : rows[i] \in Row /\ rows[i].attempts <= failures[i]

\* What a run of the flush still holds to do is justified.
FlushOK(r) ==
    /\ r \in FlushState
    /\ r.todo \subseteq Written
    /\ r.sent \subseteq sent
    /\ r.pc \in {"count", "get", "put", "drop"} => r.id \in Written
    /\ r.pc \in {"get", "put", "drop"} => r.n <= failures[r.id]
    /\ r.pc = "drop" => r.n >= MaxRetries

ReceiptOK(r) ==
    /\ r \in ReceiptState
    /\ r.pc # "idle" => r.op \in acked
    /\ r.pc \in {"again", "get", "put", "drop"} => r.id \in Written /\ written[r.id].op = r.op
    /\ r.pc = "put" => r.copy.attempts <= failures[r.id]

FlushesOK == (flush \in [Flusher -> FlushState]) /\ \A f \in Flusher : FlushOK(flush[f])
ReceiptsOK == (receipt \in [Receiver -> ReceiptState]) /\ \A r \in Receiver : ReceiptOK(receipt[r])

Inv == WrittenOK /\ ScalarsOK /\ RowsOK /\ FlushesOK /\ ReceiptsOK

\* The history after a step.
Grows ==
    /\ Written \subseteq Written'
    /\ \A i \in Written : written'[i] = written[i]
    /\ sent \subseteq sent' /\ acked \subseteq acked'
    /\ \A i \in Id : failures[i] <= failures'[i]

LEMMA WrittenIds == ASSUME WrittenOK PROVE Written = 1..Len(written) /\ Written \subseteq Id
BY OfflineQueueAssumption DEF WrittenOK, Written, Id

-----------------------------------------------------------------------------
(* What was read stays good                                                *)

LEMMA FlushStays ==
    ASSUME NEW r, FlushOK(r), WrittenOK, ScalarsOK, ScalarsOK', Grows
    PROVE  FlushOK(r)'
<1>1. r.id \in Written => r.id \in Id
  BY WrittenIds
<1>2. ASSUME NEW i \in Id PROVE failures[i] \in Nat /\ failures'[i] \in Nat /\ failures[i] <= failures'[i]
  BY DEF ScalarsOK, Grows
<1>3. r.n \in Nat
  BY DEF FlushOK, FlushState
<1> QED
  BY <1>1, <1>2, <1>3 DEF FlushOK, Grows

LEMMA ReceiptStays ==
    ASSUME NEW r, ReceiptOK(r), WrittenOK, ScalarsOK, ScalarsOK', Grows
    PROVE  ReceiptOK(r)'
<1>1. r.id \in Written => r.id \in Id
  BY WrittenIds
<1>2. ASSUME NEW i \in Id PROVE failures[i] \in Nat /\ failures'[i] \in Nat /\ failures[i] <= failures'[i]
  BY DEF ScalarsOK, Grows
<1>3. r.copy.attempts \in Nat
  BY DEF ReceiptOK, ReceiptState, Row
<1> QED
  BY <1>1, <1>2, <1>3 DEF ReceiptOK, Grows

LEMMA RowsStay ==
    ASSUME RowsOK, WrittenOK, ScalarsOK, ScalarsOK', Grows, NEW ids, rows' = Without(rows, ids)
    PROVE  RowsOK'
<1>1. DOMAIN rows' = DOMAIN rows \ ids /\ \A i \in DOMAIN rows' : rows'[i] = rows[i]
  BY DEF Without
<1>2. ASSUME NEW i \in Id PROVE failures[i] \in Nat /\ failures'[i] \in Nat /\ failures[i] <= failures'[i]
  BY DEF ScalarsOK, Grows
<1>3. ASSUME NEW i \in DOMAIN rows' PROVE rows'[i] \in Row /\ rows'[i].attempts <= failures'[i]
  <2>1. i \in DOMAIN rows /\ i \in Id /\ rows'[i] = rows[i]
    BY <1>1, WrittenIds DEF RowsOK
  <2>2. rows[i].attempts \in Nat
    BY <2>1 DEF RowsOK, Row
  <2> QED
    BY <2>1, <2>2, <1>2 DEF RowsOK
<1> QED
  BY <1>1, <1>3 DEF RowsOK, Grows

LEMMA RowsUntouched ==
    ASSUME RowsOK, WrittenOK, ScalarsOK, ScalarsOK', Grows, rows' = rows
    PROVE  RowsOK'
<1>2. ASSUME NEW i \in Id PROVE failures[i] \in Nat /\ failures'[i] \in Nat /\ failures[i] <= failures'[i]
  BY DEF ScalarsOK, Grows
<1>3. ASSUME NEW i \in DOMAIN rows' PROVE rows'[i] \in Row /\ rows'[i].attempts <= failures'[i]
  <2>1. i \in DOMAIN rows /\ i \in Id /\ rows'[i] = rows[i]
    BY WrittenIds DEF RowsOK
  <2>2. rows[i].attempts \in Nat
    BY <2>1 DEF RowsOK, Row
  <2> QED
    BY <2>1, <2>2, <1>2 DEF RowsOK
<1> QED
  BY <1>3 DEF RowsOK, Grows

LEMMA RowWritten ==
    ASSUME RowsOK, WrittenOK, ScalarsOK, ScalarsOK', Grows,
           NEW i \in Written', NEW x \in Row, x.attempts <= failures'[i],
           rows' = With(rows, i, x)
    PROVE  RowsOK'
<1>1. /\ DOMAIN rows' = DOMAIN rows \cup {i}
      /\ \A j \in DOMAIN rows' : rows'[j] = IF j = i THEN x ELSE rows[j]
  BY DEF With
<1>2. ASSUME NEW j \in Id PROVE failures[j] \in Nat /\ failures'[j] \in Nat /\ failures[j] <= failures'[j]
  BY DEF ScalarsOK, Grows
<1>3. ASSUME NEW j \in DOMAIN rows' PROVE rows'[j] \in Row /\ rows'[j].attempts <= failures'[j]
  <2>1. CASE j = i
    BY <2>1, <1>1
  <2>2. CASE j # i
    <3>1. j \in DOMAIN rows /\ j \in Id /\ rows'[j] = rows[j]
      BY <1>1, <2>2, WrittenIds DEF RowsOK
    <3>2. rows[j].attempts \in Nat
      BY <3>1 DEF RowsOK, Row
    <3> QED
      BY <3>1, <3>2, <1>2 DEF RowsOK
  <2> QED
    BY <2>1, <2>2
<1> QED
  BY <1>1, <1>3 DEF RowsOK, Grows

\* A step that leaves the runs, or changes one of them to one that is justified.
LEMMA FlushesStay ==
    ASSUME FlushesOK, WrittenOK, ScalarsOK, ScalarsOK', Grows, UNCHANGED flush
    PROVE  FlushesOK'
<1>1. ASSUME NEW f \in Flusher PROVE FlushOK(flush[f])'
  <2>1. PICK r : r = flush[f]
    OBVIOUS
  <2>2. FlushOK(r)'
    BY <2>1, FlushStays DEF FlushesOK
  <2>3. flush'[f] = r
    BY <2>1
  <2> QED
    BY <2>2, <2>3
<1> QED
  BY <1>1 DEF FlushesOK

LEMMA FlushSet ==
    ASSUME FlushesOK, WrittenOK, ScalarsOK, ScalarsOK', Grows,
           NEW f \in Flusher, NEW x, FlushOK(x)', flush' = [flush EXCEPT ![f] = x]
    PROVE  FlushesOK'
<1>0. x \in FlushState
  BY DEF FlushOK
<1>1. flush' \in [Flusher -> FlushState]
  BY <1>0 DEF FlushesOK
<1>2. ASSUME NEW g \in Flusher PROVE FlushOK(flush[g])'
  <2>1. CASE g = f
    <3>1. flush'[g] = x
      BY <2>1 DEF FlushesOK
    <3> QED
      BY <3>1
  <2>2. CASE g # f
    <3>1. PICK r : r = flush[g]
      OBVIOUS
    <3>2. FlushOK(r)'
      BY <3>1, FlushStays DEF FlushesOK
    <3>3. flush'[g] = r
      BY <3>1, <2>2 DEF FlushesOK
    <3> QED
      BY <3>2, <3>3
  <2> QED
    BY <2>1, <2>2
<1> QED
  BY <1>1, <1>2 DEF FlushesOK

LEMMA ReceiptsStay ==
    ASSUME ReceiptsOK, WrittenOK, ScalarsOK, ScalarsOK', Grows, UNCHANGED receipt
    PROVE  ReceiptsOK'
<1>1. ASSUME NEW f \in Receiver PROVE ReceiptOK(receipt[f])'
  <2>1. PICK r : r = receipt[f]
    OBVIOUS
  <2>2. ReceiptOK(r)'
    BY <2>1, ReceiptStays DEF ReceiptsOK
  <2>3. receipt'[f] = r
    BY <2>1
  <2> QED
    BY <2>2, <2>3
<1> QED
  BY <1>1 DEF ReceiptsOK

LEMMA ReceiptSet ==
    ASSUME ReceiptsOK, WrittenOK, ScalarsOK, ScalarsOK', Grows,
           NEW f \in Receiver, NEW x, ReceiptOK(x)', receipt' = [receipt EXCEPT ![f] = x]
    PROVE  ReceiptsOK'
<1>0. x \in ReceiptState
  BY DEF ReceiptOK
<1>1. receipt' \in [Receiver -> ReceiptState]
  BY <1>0 DEF ReceiptsOK
<1>2. ASSUME NEW g \in Receiver PROVE ReceiptOK(receipt[g])'
  <2>1. CASE g = f
    <3>1. receipt'[g] = x
      BY <2>1 DEF ReceiptsOK
    <3> QED
      BY <3>1
  <2>2. CASE g # f
    <3>1. PICK r : r = receipt[g]
      OBVIOUS
    <3>2. ReceiptOK(r)'
      BY <3>1, ReceiptStays DEF ReceiptsOK
    <3>3. receipt'[g] = r
      BY <3>1, <2>2 DEF ReceiptsOK
    <3> QED
      BY <3>2, <3>3
  <2> QED
    BY <2>1, <2>2
<1> QED
  BY <1>1, <1>2 DEF ReceiptsOK

\* With the history, the runs or the receipts as they were, the rest stays.
LEMMA HistoryKept ==
    ASSUME ScalarsOK, UNCHANGED <<written, sent, acked, failures>>
    PROVE  Grows
BY DEF Grows, ScalarsOK, Written

LEMMA IdleOK == FlushOK(IdleFlush) /\ ReceiptOK(IdleReceipt)
BY DEF FlushOK, ReceiptOK, IdleFlush, IdleReceipt, FlushState, ReceiptState, Row, Fresh

-----------------------------------------------------------------------------
(* The steps                                                               *)

\* enqueue gives the row a new key.
LEMMA EnqueueKeeps ==
    ASSUME Inv, NEW op \in Op, NEW deferred \in BOOLEAN, enqueue(op, deferred),
           UNCHANGED <<expired, sent, acked, failures>>
    PROVE  WrittenOK' /\ Grows /\ Written' = Written \cup {Len(written) + 1}
<1> DEFINE w == [op |-> op, deferred |-> deferred]
<1>0. w \in [op : Op, deferred : BOOLEAN]
  OBVIOUS
<1> HIDE DEF w
<1>1. /\ written' = Append(written, w) /\ Len(written) < MaxRows
      /\ written \in Seq([op : Op, deferred : BOOLEAN])
  BY DEF w, enqueue, Inv, WrittenOK
<1>2. /\ written' \in Seq([op : Op, deferred : BOOLEAN])
      /\ Len(written') = Len(written) + 1
      /\ \A i \in 1..Len(written) : written'[i] = written[i]
  BY <1>0, <1>1
<1>3. Len(written) \in Nat /\ MaxRows \in Nat
  BY <1>1, OfflineQueueAssumption
<1>4. Written = 1..Len(written) /\ Written' = 1..(Len(written) + 1)
  BY <1>1, <1>2 DEF Written
<1>5. WrittenOK'
  BY <1>1, <1>2, <1>3 DEF WrittenOK
<1>6. Grows
  BY <1>2, <1>3, <1>4 DEF Grows, Inv, ScalarsOK
<1> QED
  BY <1>3, <1>4, <1>5, <1>6

LEMMA NewRowOK ==
    ASSUME Inv, NEW op \in Op, NEW deferred \in BOOLEAN, enqueue(op, deferred),
           WrittenOK', ScalarsOK', Grows, Written' = Written \cup {Len(written) + 1}
    PROVE  RowsOK'
<1> DEFINE i == Len(written) + 1
<1>1. i \in Written' /\ i \in Id
  BY WrittenIds DEF i, Inv, WrittenOK, enqueue, Id
<1>2. Fresh \in Row /\ Fresh.attempts <= failures'[i]
  BY <1>1 DEF Fresh, Row, ScalarsOK
<1>3. rows' = With(rows, i, Fresh)
  BY DEF enqueue, i
<1> HIDE DEF i
<1> QED
  BY <1>1, <1>2, <1>3, RowWritten DEF Inv

\* The counters and flags of a step.
LEMMA TroubleType == ASSUME ScalarsOK, Trouble PROVE trouble' \in 0..MaxTrouble
BY OfflineQueueAssumption DEF ScalarsOK, Trouble

LEMMA FlushCallType ==
    ASSUME ScalarsOK, NEW bypass \in BOOLEAN, flushOfflineQueue(bypass)
    PROVE  cool' \in BOOLEAN /\ inFlight' \in Flusher \cup {None}
BY DEF flushOfflineQueue, ScalarsOK

\* A call of the flush changes no run but the one it starts.
LEMMA FlushCallKeeps ==
    ASSUME FlushesOK, WrittenOK, ScalarsOK, ScalarsOK', Grows,
           NEW bypass \in BOOLEAN, flushOfflineQueue(bypass)
    PROVE  FlushesOK'
<1>1. CASE UNCHANGED flush
  BY <1>1, FlushesStay
<1>2. CASE \E f \in Flusher : flush' = [flush EXCEPT ![f] = [IdleFlush EXCEPT !.pc = "load"]]
  <2>1. PICK f \in Flusher : flush' = [flush EXCEPT ![f] = [IdleFlush EXCEPT !.pc = "load"]]
    BY <1>2
  <2>2. PICK x : x = [IdleFlush EXCEPT !.pc = "load"]
    OBVIOUS
  <2>3. FlushOK(x)
    BY <2>2 DEF FlushOK, IdleFlush, FlushState, Row, Fresh
  <2>4. FlushOK(x)'
    BY <2>3, FlushStays
  <2> QED
    BY <2>1, <2>2, <2>4, FlushSet
<1> QED
  BY <1>1, <1>2 DEF flushOfflineQueue

LEMMA QueueKeeps ==
    ASSUME Inv, NEW op \in Op, NEW deferred \in BOOLEAN,
           Queue(op, deferred) \/ (~ deferred /\ QueueRefused(op))
    PROVE  Inv'
<1>1. enqueue(op, deferred) /\ UNCHANGED <<expired, ready, post, retries, cool, inFlight, flush,
                                           receipt, sent, acked, failures>>
  BY DEF Queue, QueueRefused, timers, history
<1>2. WrittenOK' /\ Grows /\ Written' = Written \cup {Len(written) + 1}
  BY <1>1, EnqueueKeeps
<1>3. trouble' \in 0..MaxTrouble /\ scheduled' \in BOOLEAN
  BY TroubleType DEF Queue, QueueRefused, timers, Inv, ScalarsOK
<1>4. ScalarsOK'
  <2>1. expired' \subseteq Written' /\ sent' \subseteq Written'
    BY <1>1, <1>2 DEF Inv, ScalarsOK
  <2> QED
    BY <1>1, <1>3, <2>1 DEF Inv, ScalarsOK
<1>5. RowsOK'
  BY <1>1, <1>2, <1>4, NewRowOK
<1>6. FlushesOK' /\ ReceiptsOK'
  BY <1>1, <1>2, <1>4, FlushesStay, ReceiptsStay DEF Inv
<1> QED
  BY <1>2, <1>4, <1>5, <1>6 DEF Inv

\* The steps that only call the flush.
LEMMA CallKeeps ==
    ASSUME Inv, \/ PostConnectFlush \/ ScheduledFlush \/ \E speed \in {"fast", "slow"} : RetryFlush(speed)
    PROVE  Inv'
<1>1. UNCHANGED <<written, rows, expired, ready, receipt, sent, acked, failures, trouble>>
  BY DEF PostConnectFlush, ScheduledFlush, RetryFlush, durable, history
<1>2. post' \in BOOLEAN /\ scheduled' \in BOOLEAN /\ retries' \subseteq {"fast", "slow"}
  BY DEF PostConnectFlush, ScheduledFlush, RetryFlush, Inv, ScalarsOK
<1>3. \/ \E bypass \in BOOLEAN : flushOfflineQueue(bypass)
      \/ UNCHANGED <<cool, inFlight, flush>>
  <2>1. CASE PostConnectFlush
    BY <2>1 DEF PostConnectFlush
  <2>2. CASE ScheduledFlush
    BY <2>2 DEF ScheduledFlush
  <2>3. ASSUME NEW speed \in {"fast", "slow"}, RetryFlush(speed)
        PROVE  \/ \E bypass \in BOOLEAN : flushOfflineQueue(bypass)
               \/ UNCHANGED <<cool, inFlight, flush>>
    <3>1. PICK b \in BOOLEAN : b = (speed = "fast")
      OBVIOUS
    <3>2. flushOfflineQueue(b) \/ UNCHANGED <<cool, inFlight, flush>>
      <4>1. CASE ready
        <5>1. flushOfflineQueue(speed = "fast")
          BY <2>3, <4>1 DEF RetryFlush
        <5>2. CASE speed = "fast"
          BY <3>1, <5>1, <5>2 DEF flushOfflineQueue
        <5>3. CASE speed # "fast"
          BY <3>1, <5>1, <5>3 DEF flushOfflineQueue
        <5> QED
          BY <5>2, <5>3
      <4>2. CASE ~ ready
        BY <2>3, <4>2 DEF RetryFlush
      <4> QED
        BY <4>1, <4>2
    <3> QED
      BY <3>2
  <2> QED
    BY <2>1, <2>2, <2>3
<1>4. ScalarsOK'
  BY <1>1, <1>2, <1>3, FlushCallType DEF Inv, ScalarsOK, Written
<1>5. Grows /\ WrittenOK'
  BY <1>1, HistoryKept DEF Inv, WrittenOK
<1>6. RowsOK' /\ ReceiptsOK'
  BY <1>1, <1>4, <1>5, RowsUntouched, ReceiptsStay DEF Inv
<1>7. FlushesOK'
  BY <1>3, <1>4, <1>5, FlushCallKeeps, FlushesStay DEF Inv
<1> QED
  BY <1>4, <1>5, <1>6, <1>7 DEF Inv

\* Steps that change flags only.
LEMMA FlagKeeps ==
    ASSUME Inv, DeliveryWatch \/ Ready \/ CooldownEnds
    PROVE  Inv'
<1>1. UNCHANGED <<written, rows, expired, retries, inFlight, flush, receipt, sent, acked, failures, trouble>>
  BY DEF DeliveryWatch, Ready, CooldownEnds, durable, timers, history
<1>2. ready' \in BOOLEAN /\ post' \in BOOLEAN /\ scheduled' \in BOOLEAN /\ cool' \in BOOLEAN
  BY DEF DeliveryWatch, Ready, CooldownEnds, Inv, ScalarsOK
<1>4. ScalarsOK'
  BY <1>1, <1>2 DEF Inv, ScalarsOK, Written
<1>5. Grows /\ WrittenOK'
  BY <1>1, HistoryKept DEF Inv, WrittenOK
<1> QED
  BY <1>1, <1>4, <1>5, RowsUntouched, ReceiptsStay, FlushesStay DEF Inv

LEMMA DisconnectKeeps == ASSUME Inv, Disconnect PROVE Inv'
<1>1. /\ UNCHANGED <<written, rows, expired, post, retries, receipt, sent, acked, failures>>
      /\ ready' = FALSE /\ cool' = FALSE /\ scheduled' = FALSE /\ inFlight' = None
      /\ flush' = Orphaned
  BY DEF Disconnect, durable, history
<1>4. ScalarsOK'
  BY <1>1, TroubleType DEF Inv, ScalarsOK, Written, Disconnect
<1>5. Grows /\ WrittenOK'
  BY <1>1, HistoryKept DEF Inv, WrittenOK
<1>6. ASSUME NEW f \in Flusher
      PROVE  [flush[f] EXCEPT !.orphan = (@ \/ flush[f].pc # "idle")] \in FlushState
             /\ FlushOK([flush[f] EXCEPT !.orphan = (@ \/ flush[f].pc # "idle")])
  <2>1. PICK b \in BOOLEAN : b = (flush[f].orphan \/ flush[f].pc # "idle")
    OBVIOUS
  <2>2. PICK x : x = [flush[f] EXCEPT !.orphan = b]
    OBVIOUS
  <2>3. FlushOK(flush[f]) /\ flush[f] \in FlushState
    BY DEF Inv, FlushesOK
  <2>4. /\ x \in FlushState
        /\ x.todo = flush[f].todo /\ x.sent = flush[f].sent /\ x.pc = flush[f].pc
        /\ x.id = flush[f].id /\ x.n = flush[f].n
    BY <2>2, <2>3 DEF FlushState
  <2>5. FlushOK(x)
    BY <2>3, <2>4 DEF FlushOK
  <2>6. x = [flush[f] EXCEPT !.orphan = (@ \/ flush[f].pc # "idle")]
    BY <2>1, <2>2
  <2> QED
    BY <2>4, <2>5, <2>6
<1>7. FlushesOK'
  <2>1. flush' \in [Flusher -> FlushState]
    BY <1>1, <1>6 DEF Orphaned
  <2>2. ASSUME NEW f \in Flusher PROVE FlushOK(flush[f])'
    <3>1. PICK x : x = flush'[f]
      OBVIOUS
    <3>2. FlushOK(x)
      BY <1>1, <1>6, <3>1 DEF Orphaned
    <3>3. FlushOK(x)'
      BY <1>4, <1>5, <3>2, FlushStays DEF Inv
    <3> QED
      BY <3>1, <3>3
  <2> QED
    BY <2>1, <2>2 DEF FlushesOK
<1> QED
  BY <1>1, <1>4, <1>5, <1>7, RowsUntouched, ReceiptsStay DEF Inv

LEMMA RestartKeeps == ASSUME Inv, Restart PROVE Inv'
<1>1. /\ UNCHANGED <<written, rows, expired, sent, acked, failures>>
      /\ ready' = FALSE /\ post' = FALSE /\ cool' = FALSE /\ scheduled' = FALSE
      /\ inFlight' = None /\ retries' = {}
      /\ flush' = [f \in Flusher |-> IdleFlush] /\ receipt' = [r \in Receiver |-> IdleReceipt]
  BY DEF Restart, durable, history
<1>4. ScalarsOK'
  BY <1>1, TroubleType DEF Inv, ScalarsOK, Written, Restart
<1>5. Grows /\ WrittenOK'
  BY <1>1, HistoryKept DEF Inv, WrittenOK
<1>6. FlushesOK'
  <2>1. IdleFlush \in FlushState /\ FlushOK(IdleFlush)'
    <3>1. PICK x : x = IdleFlush
      OBVIOUS
    <3>2. FlushOK(x)'
      BY <1>4, <1>5, <3>1, IdleOK, FlushStays DEF Inv
    <3> QED
      BY <3>1, <3>2, IdleOK DEF FlushOK, IdleFlush
  <2> QED
    BY <1>1, <2>1 DEF FlushesOK
<1>7. ReceiptsOK'
  <2>1. IdleReceipt \in ReceiptState /\ ReceiptOK(IdleReceipt)'
    <3>1. PICK x : x = IdleReceipt
      OBVIOUS
    <3>2. ReceiptOK(x)'
      BY <1>4, <1>5, <3>1, IdleOK, ReceiptStays DEF Inv
    <3> QED
      BY <3>1, <3>2, IdleOK DEF ReceiptOK, IdleReceipt
  <2> QED
    BY <1>1, <2>1 DEF ReceiptsOK
<1> QED
  BY <1>1, <1>4, <1>5, <1>6, <1>7, RowsUntouched DEF Inv

LEMMA TimeKeeps == ASSUME Inv, NEW i \in Id, BackoffEnds(i) \/ Expire(i) PROVE Inv'
<1>1. /\ UNCHANGED <<written, ready, post, scheduled, cool, retries, inFlight, flush, receipt, sent, acked, failures>>
      /\ expired' = expired \/ expired' = expired \cup {i}
      /\ i \in DOMAIN rows
  BY DEF BackoffEnds, Expire, timers, history, Ids
<1>2. trouble' \in 0..MaxTrouble
  BY TroubleType DEF BackoffEnds, Expire, Inv, ScalarsOK
<1>4. ScalarsOK'
  BY <1>1, <1>2 DEF Inv, ScalarsOK, Written, RowsOK
<1>5. Grows /\ WrittenOK'
  BY <1>1, HistoryKept DEF Inv, WrittenOK
<1>6. RowsOK'
  <2>1. CASE BackoffEnds(i)
    <3>1. i \in DOMAIN rows /\ rows' = [rows EXCEPT ![i].resting = FALSE]
      BY <2>1 DEF BackoffEnds, Ids
    <3>2. ASSUME NEW j \in DOMAIN rows PROVE rows[j] \in Row /\ rows[j].attempts <= failures[j]
      BY DEF Inv, RowsOK
    <3>3. ASSUME NEW j \in DOMAIN rows
          PROVE  rows'[j] \in Row /\ rows'[j].attempts = rows[j].attempts
      BY <3>1, <3>2 DEF Row
    <3>4. DOMAIN rows' = DOMAIN rows
      BY <3>1
    <3> QED
      BY <1>1, <3>2, <3>3, <3>4 DEF Inv, RowsOK, Written
  <2>2. CASE Expire(i)
    BY <2>2, <1>4, <1>5, RowsUntouched DEF Expire, Inv
  <2> QED
    BY <2>1, <2>2
<1> QED
  BY <1>1, <1>4, <1>5, <1>6, FlushesStay, ReceiptsStay DEF Inv

-----------------------------------------------------------------------------
(* The steps of a run of the flush                                         *)

\* First is well defined on sets of row ids.
LEMMA LeastExists ==
    ASSUME NEW S \in SUBSET Nat, S # {}
    PROVE  \E i \in S : \A j \in S : i <= j
<1>1. PICK less : less = OpToRel(<, Nat)
  OBVIOUS
<1>2. IsWellFoundedOn(less, Nat)
  BY <1>1, NatLessThanWellFounded
<1>3. \A j, k \in Nat : j < k => <<j, k>> \in less
  BY <1>1 DEF OpToRel
<1>4. PICK i \in S : \A j \in S : ~ (<<j, i>> \in less)
  <2>1. S \subseteq Nat
    OBVIOUS
  <2> QED
    BY ONLY <1>2, <2>1, S # {}, WFMin
<1>5. i \in Nat /\ \A j \in S : j \in Nat /\ ~ (j < i)
  BY <1>3, <1>4
<1> QED
  BY <1>5

LEMMA FirstIsMember ==
    ASSUME WrittenOK, NEW S \in SUBSET Written, S # {}
    PROVE  First(S) \in S
<1>1. S \in SUBSET Nat
  BY WrittenIds DEF Id
<1>2. \E i \in S : \A j \in S : i <= j
  BY <1>1, LeastExists
<1> QED
  BY <1>2 DEF First

\* The item at hand is one of the rows that were written.
LEMMA ItemWritten ==
    ASSUME Inv, NEW f \in Flusher, AtItem(f)
    PROVE  Item(f) \in flush[f].todo /\ Item(f) \in Written
<1>1. flush[f].todo # {} /\ flush[f].todo \subseteq Written
  BY DEF AtItem, Inv, FlushesOK, FlushOK
<1> QED
  BY <1>1, FirstIsMember DEF Item, Inv

\* The steps that leave the history and the flags as they are: it remains to show that
\* the rows and the run are justified.
LEMMA RunStep ==
    ASSUME Inv, NEW f \in Flusher, NEW x, FlushOK(x), flush' = [flush EXCEPT ![f] = x],
           RowsOK', UNCHANGED <<written, expired, ready, post, scheduled, cool, receipt, sent, acked, failures>>,
           inFlight' \in Flusher \cup {None}, retries' \subseteq {"fast", "slow"},
           trouble' \in 0..MaxTrouble
    PROVE  Inv'
<1>1. ScalarsOK'
  BY DEF Inv, ScalarsOK, Written
<1>2. Grows /\ WrittenOK'
  BY HistoryKept DEF Inv, WrittenOK
<1>3. FlushOK(x)'
  BY <1>1, <1>2, FlushStays DEF Inv
<1> QED
  BY <1>1, <1>2, <1>3, FlushSet, ReceiptsStay DEF Inv

\* Rows are removed, or stay.
LEMMA RowsRemoved ==
    ASSUME Inv, NEW ids, rows' = Without(rows, ids) \/ rows' = rows,
           UNCHANGED <<written, expired, ready, post, scheduled, cool, sent, acked, failures>>,
           inFlight' \in Flusher \cup {None}, retries' \subseteq {"fast", "slow"},
           trouble' \in 0..MaxTrouble
    PROVE  RowsOK'
<1>1. ScalarsOK'
  BY DEF Inv, ScalarsOK, Written
<1>2. Grows
  BY HistoryKept DEF Inv
<1> QED
  BY <1>1, <1>2, RowsStay, RowsUntouched DEF Inv

LEMMA LoadKeeps == ASSUME Inv, NEW f \in Flusher, getQueued(f) PROVE Inv'
<1>1. PICK x : x = [flush[f] EXCEPT !.pc = "item", !.todo = Due]
  OBVIOUS
<1>2. Due \subseteq Written /\ Due \subseteq Id
  BY WrittenIds DEF Inv, RowsOK, Due, Ids
<1>3. FlushOK(x)
  BY <1>1, <1>2 DEF Inv, FlushesOK, FlushOK, FlushState
<1>4. /\ flush' = [flush EXCEPT ![f] = x] /\ rows' = Without(rows, Spent)
      /\ UNCHANGED <<written, expired, ready, post, scheduled, retries, cool, inFlight, receipt,
                     sent, acked, failures, trouble>>
  BY <1>1 DEF getQueued, timers, history
<1>5. inFlight' \in Flusher \cup {None} /\ retries' \subseteq {"fast", "slow"} /\ trouble' \in 0..MaxTrouble
  BY <1>4 DEF Inv, ScalarsOK
<1> QED
  BY <1>3, <1>4, <1>5, RunStep, RowsRemoved

LEMMA RefusedKeeps ==
    ASSUME Inv, NEW f \in Flusher, SendRefused(f) \/ EncryptFailed(f)
    PROVE  Inv'
<1>1. /\ UNCHANGED <<written, rows, expired, ready, post, scheduled, retries, cool, inFlight, receipt,
                     sent, acked, failures>>
      /\ trouble' \in 0..MaxTrouble
  <2>1. trouble' = trouble \/ Trouble
    BY DEF SendRefused, EncryptFailed
  <2> QED
    BY <2>1, TroubleType DEF SendRefused, EncryptFailed, durable, timers, history, Inv, ScalarsOK
<1>2. \E x : FlushOK(x) /\ flush' = [flush EXCEPT ![f] = x]
  <2>0. flush[f] \in FlushState /\ FlushOK(flush[f]) /\ flush[f].pc = "item"
    BY DEF Inv, FlushesOK, SendRefused, EncryptFailed, AtItem
  <2>1. CASE SendRefused(f)
    <3>1. PICK x : x = [flush[f] EXCEPT !.hit = TRUE]
      OBVIOUS
    <3>2. FlushOK(x)
      BY <2>0, <3>1 DEF FlushOK, FlushState
    <3> QED
      BY <2>1, <3>1, <3>2 DEF SendRefused
  <2>2. CASE EncryptFailed(f)
    <3>1. PICK x : x = Failed(flush[f], Item(f))
      OBVIOUS
    <3>2. Item(f) \in Written /\ Item(f) \in Id
      BY <2>2, ItemWritten, WrittenIds DEF EncryptFailed, Inv
    <3>3. FlushOK(x)
      BY <2>0, <3>1, <3>2 DEF FlushOK, FlushState, Failed
    <3> QED
      BY <2>2, <3>1, <3>3 DEF EncryptFailed
  <2> QED
    BY <2>1, <2>2
<1>5. inFlight' \in Flusher \cup {None} /\ retries' \subseteq {"fast", "slow"}
  BY <1>1 DEF Inv, ScalarsOK
<1>6. RowsOK'
  BY <1>1, <1>5, RowsRemoved
<1> QED
  BY <1>1, <1>2, <1>5, <1>6, RunStep

LEMMA SentKeeps ==
    ASSUME Inv, NEW f \in Flusher, SendAccepted(f) \/ SentNotSaved(f)
    PROVE  Inv'
<1> DEFINE i == Item(f)
<1>0. /\ flush[f] \in FlushState /\ FlushOK(flush[f]) /\ flush[f].pc = "item"
      /\ i \in Written /\ i \in Id
  BY ItemWritten, WrittenIds DEF Inv, FlushesOK, SendAccepted, SentNotSaved, AtItem
<1>1. /\ sent' = sent \cup {i}
      /\ UNCHANGED <<written, rows, expired, ready, post, scheduled, retries, cool, inFlight, receipt,
                     acked, failures>>
  BY DEF SendAccepted, SentNotSaved, durable, timers
<1>2. trouble' \in 0..MaxTrouble
  <2>1. trouble' = trouble \/ Trouble
    BY DEF SendAccepted, SentNotSaved
  <2> QED
    BY <2>1, TroubleType DEF Inv, ScalarsOK
<1>3. \E x : FlushOK(x)' /\ flush' = [flush EXCEPT ![f] = x]
  <2>1. CASE SendAccepted(f)
    <3>1. PICK x : x = Passed(flush[f], i)
      OBVIOUS
    <3>2. FlushOK(x)'
      BY <1>0, <1>1, <3>1 DEF FlushOK, FlushState, Passed, Written
    <3>3. flush' = [flush EXCEPT ![f] = x]
      BY <2>1, <3>1 DEF SendAccepted
    <3> QED
      BY <3>2, <3>3
  <2>2. CASE SentNotSaved(f)
    <3>1. PICK x : x = Failed(Passed(flush[f], i), i)
      OBVIOUS
    <3>2. FlushOK(x)'
      BY <1>0, <1>1, <3>1 DEF FlushOK, FlushState, Failed, Passed, Written
    <3>3. flush' = [flush EXCEPT ![f] = x]
      BY <2>2, <3>1 DEF SentNotSaved
    <3> QED
      BY <3>2, <3>3
  <2> QED
    BY <2>1, <2>2
<1>4. ScalarsOK'
  BY <1>0, <1>1, <1>2 DEF Inv, ScalarsOK, Written
<1>5. Grows /\ WrittenOK'
  BY <1>1 DEF Inv, WrittenOK, Grows, Written, ScalarsOK
<1> QED
  BY <1>1, <1>3, <1>4, <1>5, FlushSet, RowsUntouched, ReceiptsStay DEF Inv

LEMMA FinishKeeps == ASSUME Inv, NEW f \in Flusher, Finish(f) PROVE Inv'
<1>1. /\ rows' = Without(rows, flush[f].sent)
      /\ flush' = [flush EXCEPT ![f] = IdleFlush]
      /\ UNCHANGED <<written, expired, ready, post, scheduled, cool, receipt, sent, acked, failures, trouble>>
  BY DEF Finish, history
<1>2. inFlight' \in Flusher \cup {None} /\ retries' \subseteq {"fast", "slow"} /\ trouble' \in 0..MaxTrouble
  BY DEF Finish, Retry, Inv, ScalarsOK
<1>3. RowsOK'
  BY <1>1, <1>2, RowsRemoved
<1> QED
  BY <1>1, <1>2, <1>3, IdleOK, RunStep

LEMMA CountKeeps == ASSUME Inv, NEW f \in Flusher, MarkCount(f) PROVE Inv'
<1> DEFINE i == flush[f].id
<1>0. /\ flush[f] \in FlushState /\ FlushOK(flush[f]) /\ flush[f].pc = "count"
      /\ i \in Written /\ i \in Id
  BY WrittenIds DEF Inv, FlushesOK, FlushOK, MarkCount
<1>1. /\ failures' = [failures EXCEPT ![i] = @ + 1]
      /\ flush' = [flush EXCEPT ![f] = [@ EXCEPT !.pc = "get", !.n = Attempts(i)]]
      /\ UNCHANGED <<written, rows, expired, ready, post, scheduled, retries, cool, inFlight, receipt,
                     sent, acked, trouble>>
  BY DEF MarkCount, durable, timers
<1>2. failures[i] \in Nat /\ failures'[i] = failures[i] + 1 /\ failures' \in [Id -> Nat]
  BY <1>0, <1>1 DEF Inv, ScalarsOK
<1>3. Attempts(i) \in Nat /\ Attempts(i) <= failures'[i]
  <2>1. CASE i \in Ids
    <3>1. rows[i].attempts \in Nat /\ rows[i].attempts <= failures[i]
      BY <2>1 DEF Inv, RowsOK, Ids, Row
    <3> QED
      BY <1>2, <2>1, <3>1 DEF Attempts
  <2>2. CASE i \notin Ids
    BY <1>2, <2>2 DEF Attempts
  <2> QED
    BY <2>1, <2>2
<1>4. ScalarsOK'
  BY <1>1, <1>2 DEF Inv, ScalarsOK, Written
<1>5. Grows /\ WrittenOK'
  <2>1. ASSUME NEW j \in Id PROVE failures[j] <= failures'[j]
    <3>1. failures[j] \in Nat
      BY DEF Inv, ScalarsOK
    <3>2. CASE j = i
      BY <1>2, <3>2
    <3>3. CASE j # i
      BY <1>1, <3>1, <3>3 DEF Inv, ScalarsOK
    <3> QED
      BY <3>2, <3>3
  <2> QED
    BY <1>1, <2>1 DEF Inv, WrittenOK, Grows, Written, ScalarsOK
<1>6. PICK x : x = [flush[f] EXCEPT !.pc = "get", !.n = Attempts(i)]
  OBVIOUS
<1>7. FlushOK(x)'
  <2>1. /\ x \in FlushState /\ x.todo = flush[f].todo /\ x.sent = flush[f].sent
        /\ x.pc = "get" /\ x.id = i /\ x.n = Attempts(i)
    BY <1>0, <1>3, <1>6 DEF FlushState
  <2> QED
    BY <1>0, <1>1, <1>3, <2>1 DEF FlushOK, Written
<1>8. flush' = [flush EXCEPT ![f] = x]
  BY <1>1, <1>6
<1> QED
  BY <1>1, <1>4, <1>5, <1>7, <1>8, FlushSet, RowsUntouched, ReceiptsStay DEF Inv

\* What is left of a run once the row is updated.
LEMMA UpdatedOK ==
    ASSUME NEW r, FlushOK(r), r.pc \in {"get", "put", "drop"}
    PROVE  FlushOK(Updated(r)) /\ FlushOK(NextItem(r))
<1>1. FlushOK(NextItem(r))
  BY DEF FlushOK, FlushState, NextItem, Row, Fresh
<1>2. CASE r.n >= MaxRetries
  BY <1>1, <1>2 DEF FlushOK, FlushState, Updated, Row, Fresh
<1> QED
  BY <1>1, <1>2 DEF Updated

LEMMA MarkKeeps ==
    ASSUME Inv, NEW f \in Flusher, MarkGet(f) \/ MarkPut(f) \/ MarkDrop(f)
    PROVE  Inv'
<1> DEFINE i == flush[f].id
<1>0. /\ flush[f] \in FlushState /\ FlushOK(flush[f]) /\ flush[f].pc \in {"get", "put", "drop"}
      /\ i \in Written /\ i \in Id /\ flush[f].n \in Nat /\ flush[f].n <= failures[i]
      /\ flush[f].copy \in Row
  BY WrittenIds DEF Inv, FlushesOK, FlushOK, FlushState, MarkGet, MarkPut, MarkDrop
<1>1. UNCHANGED <<written, expired, ready, post, scheduled, retries, cool, inFlight, receipt,
                  sent, acked, failures, trouble>>
  BY DEF MarkGet, MarkPut, MarkDrop, durable, timers, history
<1>2. inFlight' \in Flusher \cup {None} /\ retries' \subseteq {"fast", "slow"} /\ trouble' \in 0..MaxTrouble
  BY <1>1 DEF Inv, ScalarsOK
<1>3. CASE MarkGet(f)
  <2>1. RowsOK'
    BY <1>1, <1>2, <1>3, RowsRemoved DEF MarkGet, durable
  <2>2. CASE i \in Ids
    <3>1. PICK x : x = [flush[f] EXCEPT !.pc = "put", !.copy = rows[i]]
      OBVIOUS
    <3>2. rows[i] \in Row
      BY <2>2 DEF Inv, RowsOK, Ids
    <3>3. FlushOK(x)
      BY <1>0, <1>3, <3>1, <3>2 DEF FlushOK, FlushState, MarkGet
    <3>4. flush' = [flush EXCEPT ![f] = x]
      BY <1>3, <2>2, <3>1 DEF MarkGet
    <3> QED
      BY <1>1, <1>2, <2>1, <3>3, <3>4, RunStep
  <2>3. CASE i \notin Ids
    <3>1. PICK x : x = Updated(flush[f])
      OBVIOUS
    <3>2. FlushOK(x)
      BY <1>0, <3>1, UpdatedOK
    <3>4. flush' = [flush EXCEPT ![f] = x]
      BY <1>3, <2>3, <3>1 DEF MarkGet
    <3> QED
      BY <1>1, <1>2, <2>1, <3>2, <3>4, RunStep
  <2> QED
    BY <2>2, <2>3
<1>4. CASE MarkPut(f)
  <2>1. PICK x : x = Updated(flush[f])
    OBVIOUS
  <2>2. FlushOK(x)
    BY <1>0, <2>1, UpdatedOK
  <2>3. flush' = [flush EXCEPT ![f] = x]
    BY <1>4, <2>1 DEF MarkPut
  <2>4. PICK y : y = [flush[f].copy EXCEPT !.attempts = flush[f].n, !.resting = TRUE]
    OBVIOUS
  <2>5. y \in Row /\ y.attempts <= failures[i] /\ rows' = With(rows, i, y)
    BY <1>0, <1>4, <2>4 DEF Row, MarkPut
  <2>6. ScalarsOK' /\ Grows
    BY <1>1, <1>2, HistoryKept DEF Inv, ScalarsOK, Written
  <2>7. i \in Written' /\ y.attempts <= failures'[i]
    BY <1>0, <1>1, <2>5 DEF Written
  <2>8. RowsOK'
    <3> HIDE DEF i
    <3> QED
      BY <2>5, <2>6, <2>7, RowWritten DEF Inv
  <2> QED
    BY <1>1, <1>2, <2>2, <2>3, <2>8, RunStep
<1>5. CASE MarkDrop(f)
  <2>1. PICK x : x = NextItem(flush[f])
    OBVIOUS
  <2>2. FlushOK(x)
    BY <1>0, <2>1, UpdatedOK
  <2>3. flush' = [flush EXCEPT ![f] = x] /\ rows' = Without(rows, {i})
    BY <1>5, <2>1 DEF MarkDrop
  <2>4. RowsOK'
    BY <1>1, <1>2, <2>3, RowsRemoved
  <2> QED
    BY <1>1, <1>2, <2>2, <2>3, <2>4, RunStep
<1> QED
  BY <1>3, <1>4, <1>5

-----------------------------------------------------------------------------
(* The steps of a receipt                                                  *)

LEMMA ReceiptRun ==
    ASSUME Inv, NEW r \in Receiver, NEW x, ReceiptOK(x), receipt' = [receipt EXCEPT ![r] = x],
           RowsOK', UNCHANGED <<written, expired, ready, post, scheduled, retries, cool, inFlight,
                                flush, sent, acked, failures, trouble>>
    PROVE  Inv'
<1>1. ScalarsOK'
  BY DEF Inv, ScalarsOK, Written
<1>2. Grows /\ WrittenOK'
  BY HistoryKept DEF Inv, WrittenOK
<1>3. ReceiptOK(x)'
  BY <1>1, <1>2, ReceiptStays DEF Inv
<1> QED
  BY <1>1, <1>2, <1>3, ReceiptSet, FlushesStay DEF Inv

LEMMA ArrivesKeeps ==
    ASSUME Inv, NEW r \in Receiver, NEW op \in Op, ReceiptArrives(r, op)
    PROVE  Inv'
<1>1. /\ acked' = acked \cup {op}
      /\ receipt' = [receipt EXCEPT ![r] = [IdleReceipt EXCEPT !.pc = "load", !.op = op]]
      /\ UNCHANGED <<written, rows, expired, ready, post, scheduled, retries, cool, inFlight, flush,
                     sent, failures>>
  BY DEF ReceiptArrives, durable, timers
<1>2. ScalarsOK'
  BY <1>1, TroubleType DEF Inv, ScalarsOK, Written, ReceiptArrives
<1>3. Grows /\ WrittenOK'
  BY <1>1 DEF Inv, WrittenOK, Grows, Written, ScalarsOK
<1>4. PICK x : x = [IdleReceipt EXCEPT !.pc = "load", !.op = op]
  OBVIOUS
<1>5. ReceiptOK(x)'
  BY <1>1, <1>4 DEF ReceiptOK, IdleReceipt, ReceiptState, Row, Fresh
<1>6. receipt' = [receipt EXCEPT ![r] = x]
  BY <1>1, <1>4
<1> QED
  BY <1>1, <1>2, <1>3, <1>5, <1>6, ReceiptSet, RowsUntouched, FlushesStay DEF Inv

LEMMA ReceiptKeeps ==
    ASSUME Inv, NEW r \in Receiver, ReceiptStep(r)
    PROVE  Inv'
<1> DEFINE c == receipt[r]
<1>0. /\ c \in ReceiptState /\ ReceiptOK(c) /\ ReceiptOK(IdleReceipt)
  BY IdleOK DEF Inv, ReceiptsOK
<1>1. UNCHANGED <<written, expired, ready, post, scheduled, retries, cool, inFlight, flush,
                  sent, acked, failures, trouble>>
  BY DEF ReceiptStep, ReceiptFind, ReceiptFindEnvelope, ReceiptGet, ReceiptPut, ReceiptDrop,
         durable, timers, history
<1>2. inFlight' \in Flusher \cup {None} /\ retries' \subseteq {"fast", "slow"} /\ trouble' \in 0..MaxTrouble
  BY <1>1 DEF Inv, ScalarsOK
<1>3. CASE ReceiptFind(r)
  <2>1. RowsOK'
    BY <1>1, <1>2, <1>3, RowsRemoved DEF ReceiptFind, durable
  <2>2. CASE RowsOf(c.op) = {}
    BY <1>0, <1>1, <1>3, <2>1, <2>2, ReceiptRun DEF ReceiptFind
  <2>3. CASE RowsOf(c.op) # {}
    <3>1. PICK i : i = First(RowsOf(c.op))
      OBVIOUS
    <3>2. i \in RowsOf(c.op) /\ i \in Written
      <4>1. RowsOf(c.op) \subseteq Written
        BY DEF RowsOf, Inv, RowsOK, Ids
      <4> QED
        BY <2>3, <3>1, <4>1, FirstIsMember DEF Inv
    <3>3. i \in Id /\ written[i].op = c.op
      BY <3>2, WrittenIds DEF RowsOf, Inv
    <3>4. PICK x : x = [c EXCEPT !.id = i, !.pc = IF written[i].deferred THEN "get" ELSE "again"]
      OBVIOUS
    <3>5. ReceiptOK(x)
      BY <1>0, <1>3, <3>2, <3>3, <3>4 DEF ReceiptOK, ReceiptState, ReceiptFind
    <3>6. receipt' = [receipt EXCEPT ![r] = x]
      BY <1>3, <2>3, <3>1, <3>4 DEF ReceiptFind
    <3> QED
      BY <1>1, <2>1, <3>5, <3>6, ReceiptRun
  <2> QED
    BY <2>2, <2>3
<1>4. CASE ReceiptFindEnvelope(r)
  <2>1. RowsOK'
    BY <1>1, <1>2, <1>4, RowsRemoved DEF ReceiptFindEnvelope, durable
  <2>2. PICK x : x = [c EXCEPT !.pc = "get"]
    OBVIOUS
  <2>3. ReceiptOK(x)
    BY <1>0, <1>4, <2>2 DEF ReceiptOK, ReceiptState, ReceiptFindEnvelope
  <2>4. receipt' = [receipt EXCEPT ![r] = x] \/ receipt' = [receipt EXCEPT ![r] = IdleReceipt]
    BY <1>4, <2>2 DEF ReceiptFindEnvelope
  <2> QED
    BY <1>0, <1>1, <2>1, <2>3, <2>4, ReceiptRun
<1>5. CASE ReceiptGet(r)
  <2>1. RowsOK'
    BY <1>1, <1>2, <1>5, RowsRemoved DEF ReceiptGet, durable
  <2>2. CASE c.id \in Ids
    <3>1. PICK x : x = [c EXCEPT !.pc = "put", !.copy = rows[c.id]]
      OBVIOUS
    <3>2. rows[c.id] \in Row /\ rows[c.id].attempts <= failures[c.id]
      BY <2>2 DEF Inv, RowsOK, Ids
    <3>3. ReceiptOK(x)
      BY <1>0, <1>5, <3>1, <3>2 DEF ReceiptOK, ReceiptState, ReceiptGet
    <3>4. receipt' = [receipt EXCEPT ![r] = x]
      BY <1>5, <2>2, <3>1 DEF ReceiptGet
    <3> QED
      BY <1>1, <2>1, <3>3, <3>4, ReceiptRun
  <2>3. CASE c.id \notin Ids
    <3>1. PICK x : x = [c EXCEPT !.pc = "drop"]
      OBVIOUS
    <3>3. ReceiptOK(x)
      BY <1>0, <1>5, <3>1 DEF ReceiptOK, ReceiptState, ReceiptGet
    <3>4. receipt' = [receipt EXCEPT ![r] = x]
      BY <1>5, <2>3, <3>1 DEF ReceiptGet
    <3> QED
      BY <1>1, <2>1, <3>3, <3>4, ReceiptRun
  <2> QED
    BY <2>2, <2>3
<1>6. CASE ReceiptPut(r)
  <2>1. PICK x : x = [c EXCEPT !.pc = "drop", !.copy = Fresh]
    OBVIOUS
  <2>2. ReceiptOK(x)
    BY <1>0, <1>6, <2>1 DEF ReceiptOK, ReceiptState, ReceiptPut, Row, Fresh
  <2>3. receipt' = [receipt EXCEPT ![r] = x]
    BY <1>6, <2>1 DEF ReceiptPut
  <2>4. PICK y : y = c.copy
    OBVIOUS
  <2>5. PICK i : i = c.id
    OBVIOUS
  <2>6. y \in Row /\ i \in Written' /\ y.attempts <= failures'[i] /\ rows' = With(rows, i, y)
    BY <1>0, <1>1, <1>6, <2>4, <2>5 DEF ReceiptOK, ReceiptState, ReceiptPut, Written
  <2>7. ScalarsOK' /\ Grows
    BY <1>1, <1>2, HistoryKept DEF Inv, ScalarsOK, Written
  <2>8. RowsOK'
    BY <2>6, <2>7, RowWritten DEF Inv
  <2> QED
    BY <1>1, <2>2, <2>3, <2>8, ReceiptRun
<1>7. CASE ReceiptDrop(r)
  <2>1. rows' = Without(rows, {c.id}) /\ receipt' = [receipt EXCEPT ![r] = IdleReceipt]
    BY <1>7 DEF ReceiptDrop
  <2>2. RowsOK'
    BY <1>1, <1>2, <2>1, RowsRemoved
  <2> QED
    BY <1>0, <1>1, <2>1, <2>2, ReceiptRun
<1> QED
  BY <1>3, <1>4, <1>5, <1>6, <1>7 DEF ReceiptStep

-----------------------------------------------------------------------------
(* The invariant                                                           *)

LEMMA InvInit == ASSUME Init PROVE Inv
<1>1. Written = {} /\ DOMAIN rows = {} /\ Len(written) = 0
  BY DEF Init, Written
<1>2. WrittenOK /\ ScalarsOK /\ RowsOK
  <2>1. <<>> \in Seq([op : Op, deferred : BOOLEAN])
    OBVIOUS
  <2>2. WrittenOK
    BY <1>1, <2>1, OfflineQueueAssumption DEF Init, WrittenOK
  <2>3. failures \in [Id -> Nat] /\ trouble \in 0..MaxTrouble
    BY OfflineQueueAssumption DEF Init
  <2>4. ScalarsOK
    BY <1>1, <2>3 DEF Init, ScalarsOK
  <2>5. RowsOK
    BY <1>1 DEF RowsOK
  <2> QED
    BY <2>2, <2>4, <2>5
<1>3. IdleFlush \in FlushState /\ IdleReceipt \in ReceiptState
  BY IdleOK DEF FlushOK, ReceiptOK
<1> QED
  BY <1>2, <1>3, IdleOK DEF Init, Inv, FlushesOK, ReceiptsOK

LEMMA InvStep == ASSUME Inv, [Next]_vars PROVE Inv'
<1>1. CASE UNCHANGED vars
  <2>1. Grows /\ ScalarsOK' /\ WrittenOK'
    BY <1>1, HistoryKept DEF vars, Inv, ScalarsOK, WrittenOK, Written
  <2> QED
    BY <1>1, <2>1, RowsUntouched, FlushesStay, ReceiptsStay DEF vars, Inv
<1>2. CASE Next
  <2>1. ASSUME NEW f \in Flusher, FlushStep(f) PROVE Inv'
    BY <2>1, LoadKeeps, SentKeeps, RefusedKeeps, CountKeeps, MarkKeeps, FinishKeeps DEF FlushStep
  <2>2. ASSUME NEW op \in Op, QueueRefused(op) PROVE Inv'
    <3>1. FALSE \in BOOLEAN
      OBVIOUS
    <3> QED
      BY <2>2, <3>1, QueueKeeps
  <2>3. ASSUME NEW i \in Id, BackoffEnds(i) \/ Expire(i) PROVE Inv'
    BY <2>3, TimeKeeps
  <2>4. ASSUME NEW op \in Op, NEW deferred \in BOOLEAN, Queue(op, deferred) PROVE Inv'
    BY <2>4, QueueKeeps
  <2> QED
    BY <1>2, <2>1, <2>2, <2>3, <2>4, CallKeeps, FlagKeeps, ArrivesKeeps, ReceiptKeeps,
       DisconnectKeeps, RestartKeeps DEF Next
<1> QED
  BY <1>1, <1>2

LEMMA InvHolds == Spec => []Inv
<1>1. Init => Inv
  BY InvInit
<1>2. Inv /\ [Next]_vars => Inv'
  BY InvStep
<1> QED
  BY <1>1, <1>2, PTL DEF Spec

\* Every reachable state of the outbox is well typed.
THEOREM TypeCorrect == Spec => []TypeOK
<1>1. Inv => TypeOK
  BY DEF Inv, WrittenOK, ScalarsOK, RowsOK, FlushesOK, ReceiptsOK, TypeOK, Written
<1> QED
  BY <1>1, InvHolds, PTL

-----------------------------------------------------------------------------
(* One flush at a time                                                     *)

\* A run that goes on stays what it is: of this connection or of an earlier one.
LEMMA RunGoesOn ==
    ASSUME FlushesOK, ScalarsOK, OneFlushPerConnection, NEW f \in Flusher, NEW x,
           flush' = [flush EXCEPT ![f] = x], flush[f].pc # "idle", x.pc # "idle",
           x.orphan = flush[f].orphan, UNCHANGED inFlight
    PROVE  OneFlushPerConnection'
<1>1. ASSUME NEW g \in Flusher
      PROVE  /\ flush'[g].orphan = flush[g].orphan
             /\ (flush'[g].pc # "idle") <=> (flush[g].pc # "idle")
  BY DEF FlushesOK
<1>2. inFlight # None => inFlight \in Flusher
  BY DEF ScalarsOK
<1> QED
  BY <1>1, <1>2 DEF OneFlushPerConnection

LEMMA RunEnds ==
    ASSUME FlushesOK, ScalarsOK, OneFlushPerConnection, NEW f \in Flusher,
           flush' = [flush EXCEPT ![f] = IdleFlush], inFlight' = IF inFlight = f THEN None ELSE inFlight
    PROVE  OneFlushPerConnection'
<1>1. /\ flush'[f] = IdleFlush
      /\ \A g \in Flusher \ {f} : flush'[g] = flush[g]
  BY DEF FlushesOK
<1>2. inFlight # None => inFlight \in Flusher
  BY DEF ScalarsOK
<1> QED
  BY <1>1, <1>2, OfflineQueueAssumption DEF OneFlushPerConnection, IdleFlush

LEMMA CallStaysOne ==
    ASSUME FlushesOK, ScalarsOK, OneFlushPerConnection, NEW bypass, flushOfflineQueue(bypass)
    PROVE  OneFlushPerConnection'
<1>1. CASE UNCHANGED <<inFlight, flush>>
  BY <1>1 DEF OneFlushPerConnection
<1>2. CASE ~ UNCHANGED <<inFlight, flush>>
  <2>1. inFlight = None
    BY <1>2 DEF flushOfflineQueue
  <2>2. PICK f \in Flusher : /\ inFlight' = f
                             /\ flush' = [flush EXCEPT ![f] = [IdleFlush EXCEPT !.pc = "load"]]
    BY <1>2 DEF flushOfflineQueue
  <2>3. /\ flush'[f].pc = "load" /\ flush'[f].orphan = FALSE
        /\ \A g \in Flusher \ {f} : flush'[g] = flush[g]
    BY <2>2 DEF FlushesOK, IdleFlush
  <2> QED
    BY <2>1, <2>2, <2>3, OfflineQueueAssumption DEF OneFlushPerConnection
<1> QED
  BY <1>1, <1>2

LEMMA FlushStepStaysOne ==
    ASSUME Inv, OneFlushPerConnection, NEW f \in Flusher, FlushStep(f)
    PROVE  OneFlushPerConnection'
<1>0. flush[f] \in FlushState /\ FlushesOK /\ ScalarsOK
  BY DEF Inv, FlushesOK
<1>1. CASE Finish(f)
  BY <1>0, <1>1, RunEnds DEF Finish
<1>2. CASE ~ Finish(f)
  <2>1. UNCHANGED inFlight /\ flush[f].pc # "idle"
    BY <1>2 DEF FlushStep, getQueued, SendAccepted, SentNotSaved, EncryptFailed, SendRefused,
                MarkCount, MarkGet, MarkPut, MarkDrop, AtItem
  <2>2. \E x : x.pc # "idle" /\ x.orphan = flush[f].orphan /\ flush' = [flush EXCEPT ![f] = x]
    <3>1. ASSUME NEW pc, pc # "idle", NEW x, x = [flush[f] EXCEPT !.pc = pc, !.todo = Due]
                 \/ x = [flush[f] EXCEPT !.hit = TRUE] \/ x = Passed(flush[f], Item(f))
          PROVE  x.orphan = flush[f].orphan /\ x.pc # "idle"
      BY <1>0, <2>1, <3>1 DEF FlushState, Passed
    <3>2. CASE getQueued(f)
      <4>1. PICK x : x = [flush[f] EXCEPT !.pc = "item", !.todo = Due]
        OBVIOUS
      <4>2. flush' = [flush EXCEPT ![f] = x]
        BY <3>2, <4>1 DEF getQueued
      <4> QED
        BY <3>1, <4>1, <4>2
    <3>3. CASE SendAccepted(f)
      <4>1. PICK x : x = Passed(flush[f], Item(f))
        OBVIOUS
      <4>2. flush' = [flush EXCEPT ![f] = x]
        BY <3>3, <4>1 DEF SendAccepted
      <4>3. x.orphan = flush[f].orphan /\ x.pc # "idle"
        BY <1>0, <2>1, <4>1 DEF FlushState, Passed
      <4> QED
        BY <4>2, <4>3
    <3>4. CASE SentNotSaved(f)
      <4>1. PICK x : x = Failed(Passed(flush[f], Item(f)), Item(f))
        OBVIOUS
      <4>2. flush' = [flush EXCEPT ![f] = x]
        BY <3>4, <4>1 DEF SentNotSaved
      <4>3. x.orphan = flush[f].orphan /\ x.pc # "idle"
        BY <1>0, <4>1 DEF FlushState, Passed, Failed
      <4> QED
        BY <4>2, <4>3
    <3>5. CASE EncryptFailed(f)
      <4>1. PICK x : x = Failed(flush[f], Item(f))
        OBVIOUS
      <4>2. flush' = [flush EXCEPT ![f] = x]
        BY <3>5, <4>1 DEF EncryptFailed
      <4>3. x.orphan = flush[f].orphan /\ x.pc # "idle"
        BY <1>0, <4>1 DEF FlushState, Failed
      <4> QED
        BY <4>2, <4>3
    <3>6. CASE SendRefused(f)
      <4>1. PICK x : x = [flush[f] EXCEPT !.hit = TRUE]
        OBVIOUS
      <4>2. flush' = [flush EXCEPT ![f] = x]
        BY <3>6, <4>1 DEF SendRefused
      <4>3. x.orphan = flush[f].orphan /\ x.pc # "idle"
        BY <1>0, <2>1, <4>1 DEF FlushState
      <4> QED
        BY <4>2, <4>3
    <3>7. CASE MarkCount(f)
      <4>1. PICK x : x = [flush[f] EXCEPT !.pc = "get", !.n = Attempts(flush[f].id)]
        OBVIOUS
      <4>2. flush' = [flush EXCEPT ![f] = x]
        BY <3>7, <4>1 DEF MarkCount
      <4>3. x.orphan = flush[f].orphan /\ x.pc # "idle"
        BY <1>0, <4>1 DEF FlushState
      <4> QED
        BY <4>2, <4>3
    <3>8. /\ Updated(flush[f]).orphan = flush[f].orphan /\ Updated(flush[f]).pc # "idle"
          /\ NextItem(flush[f]).orphan = flush[f].orphan /\ NextItem(flush[f]).pc # "idle"
      BY <1>0 DEF FlushState, Updated, NextItem
    <3>9. CASE MarkGet(f)
      <4>1. PICK x : x = [flush[f] EXCEPT !.pc = "put", !.copy = rows[flush[f].id]]
        OBVIOUS
      <4>2. flush' = [flush EXCEPT ![f] = x] \/ flush' = [flush EXCEPT ![f] = Updated(flush[f])]
        BY <3>9, <4>1 DEF MarkGet
      <4>3. x.orphan = flush[f].orphan /\ x.pc # "idle"
        BY <1>0, <4>1 DEF FlushState
      <4> QED
        BY <3>8, <4>2, <4>3
    <3>10. CASE MarkPut(f) \/ MarkDrop(f)
      BY <3>8, <3>10 DEF MarkPut, MarkDrop
    <3> QED
      BY <1>2, <3>2, <3>3, <3>4, <3>5, <3>6, <3>7, <3>9, <3>10 DEF FlushStep
  <2> QED
    BY <1>0, <2>1, <2>2, RunGoesOn
<1> QED
  BY <1>1, <1>2

\* The marker of the flush in flight is neither left behind nor cleared by an earlier run.
THEOREM OneFlush == Spec => []OneFlushPerConnection
<1>1. Init => OneFlushPerConnection
  BY DEF Init, OneFlushPerConnection, IdleFlush
<1>2. Inv /\ OneFlushPerConnection /\ [Next]_vars => OneFlushPerConnection'
  <2> SUFFICES ASSUME Inv, OneFlushPerConnection, [Next]_vars PROVE OneFlushPerConnection'
    OBVIOUS
  <2>0. FlushesOK /\ ScalarsOK
    BY DEF Inv
  <2>1. CASE UNCHANGED <<inFlight, flush>>
    BY <2>1 DEF OneFlushPerConnection
  <2>2. ASSUME NEW f \in Flusher, FlushStep(f) PROVE OneFlushPerConnection'
    BY <2>2, FlushStepStaysOne
  <2>3. CASE Disconnect
    BY <2>0, <2>3 DEF Disconnect, Orphaned, OneFlushPerConnection, FlushesOK, FlushState
  <2>4. CASE Restart
    BY <2>4 DEF Restart, OneFlushPerConnection, IdleFlush
  <2>5. CASE PostConnectFlush \/ ScheduledFlush \/ \E speed \in {"fast", "slow"} : RetryFlush(speed)
    <3>1. (\E bypass : flushOfflineQueue(bypass)) \/ UNCHANGED <<inFlight, flush>>
      <4>1. CASE PostConnectFlush
        BY <4>1 DEF PostConnectFlush
      <4>2. CASE ScheduledFlush
        BY <4>2 DEF ScheduledFlush
      <4>3. ASSUME NEW speed \in {"fast", "slow"}, RetryFlush(speed)
            PROVE  (\E bypass : flushOfflineQueue(bypass)) \/ UNCHANGED <<inFlight, flush>>
        <5>1. PICK b : b = (speed = "fast")
          OBVIOUS
        <5>2. flushOfflineQueue(b) \/ UNCHANGED <<inFlight, flush>>
          BY <4>3, <5>1 DEF RetryFlush, flushOfflineQueue
        <5> QED
          BY <5>2
      <4> QED
        BY <2>5, <4>1, <4>2, <4>3
    <3> QED
      BY <2>0, <2>1, <3>1, CallStaysOne
  <2>6. CASE \/ \E op \in Op, deferred \in BOOLEAN : Queue(op, deferred)
             \/ \E op \in Op : QueueRefused(op)
             \/ DeliveryWatch \/ Ready \/ CooldownEnds
             \/ \E r \in Receiver, op \in Op : ReceiptArrives(r, op)
             \/ \E r \in Receiver : ReceiptStep(r)
             \/ \E i \in Id : BackoffEnds(i) \/ Expire(i)
    BY <2>1, <2>6 DEF Queue, QueueRefused, DeliveryWatch, Ready, CooldownEnds, ReceiptArrives,
        ReceiptStep, ReceiptFind, ReceiptFindEnvelope, ReceiptGet, ReceiptPut, ReceiptDrop,
        BackoffEnds, Expire
  <2>7. UNCHANGED vars => UNCHANGED <<inFlight, flush>>
    BY DEF vars
  <2> QED
    BY <2>1, <2>2, <2>3, <2>4, <2>5, <2>6, <2>7 DEF Next
<1> QED
  BY <1>1, <1>2, InvHolds, PTL DEF Spec

-----------------------------------------------------------------------------
(* The refinement: what each kind of step is in the Outbox                 *)

LEMMA BoxStutters ==
    ASSUME UNCHANGED <<written, expired, sent, acked, failures>>, DOMAIN rows' = DOMAIN rows
    PROVE  UNCHANGED Box!vars
BY DEF Box!vars, Closed

LEMMA BoxTakes ==
    ASSUME Inv, NEW op \in Op, NEW deferred \in BOOLEAN, enqueue(op, deferred),
           UNCHANGED <<expired, sent, acked, failures>>
    PROVE  Box!Next
<1> DEFINE e == Len(written) + 1
<1>1. WrittenOK' /\ Grows /\ Written' = Written \cup {e}
  BY EnqueueKeeps
<1>2. e \notin Written /\ e \in Id
  <2>1. Len(written) \in Nat /\ Len(written) < MaxRows /\ Written = 1..Len(written)
    BY WrittenIds DEF Inv, WrittenOK, enqueue
  <2> QED
    BY <2>1, OfflineQueueAssumption DEF Id
<1>3. DOMAIN rows' = DOMAIN rows \cup {e}
  BY DEF enqueue, With
<1> HIDE DEF e
<1>4. \A i \in Written : i \in Closed <=> i \in Closed'
  BY <1>1 DEF Closed, Grows, Written
<1>5. Closed' = Closed \/ Closed' = Closed \cup {e}
  <2>1. Closed \subseteq Written /\ Closed' \subseteq Written \cup {e}
    BY <1>1 DEF Closed, Written
  <2> QED
    BY <1>2, <1>4, <2>1
<1>6. Box!Take(e)
  BY <1>1, <1>2, <1>3, <1>5 DEF Box!Take, Written
<1> QED
  BY <1>2, <1>6 DEF Box!Next

LEMMA BoxHands ==
    ASSUME Inv, NEW i \in Written, sent' = sent \cup {i},
           UNCHANGED <<written, rows, expired, acked, failures>>
    PROVE  Box!Next
<1>1. Box!Hand(i)
  BY DEF Box!Hand, Closed, Written
<1>2. i \in Id
  BY WrittenIds DEF Inv
<1> QED
  BY <1>1, <1>2 DEF Box!Next

LEMMA BoxCloses ==
    ASSUME Inv, Closed \subseteq Closed', UNCHANGED <<written, rows, sent>>
    PROVE  Box!Next
<1>1. PICK es : es = Closed'
  OBVIOUS
<1>2. es \subseteq Written
  BY <1>1 DEF Closed, Written
<1>3. Box!Close(es)
  BY <1>1, <1>2 DEF Box!Close, Written
<1>4. es \in SUBSET Id
  BY <1>2, WrittenIds DEF Inv
<1> QED
  BY <1>3, <1>4 DEF Box!Next

\* The five removals come down to this.
LEMMA BoxDrops ==
    ASSUME Inv, NEW ids, ids \cap DOMAIN rows \subseteq sent \cup Closed,
           rows' = Without(rows, ids), UNCHANGED <<written, expired, sent, acked, failures>>
    PROVE  Box!Next
<1>1. PICK es : es = ids \cap DOMAIN rows
  OBVIOUS
<1>2. DOMAIN rows' = DOMAIN rows \ es
  BY <1>1 DEF Without
<1>3. Box!Drop(es)
  BY <1>1, <1>2 DEF Box!Drop, Closed
<1>4. es \in SUBSET Id
  BY <1>1, WrittenIds DEF Inv, RowsOK
<1> QED
  BY <1>3, <1>4 DEF Box!Next

LEMMA BoxPutsBack ==
    ASSUME Inv, NEW i \in Written, NEW x, rows' = With(rows, i, x),
           UNCHANGED <<written, expired, sent, acked, failures>>
    PROVE  Box!Next
<1>1. DOMAIN rows' = DOMAIN rows \cup {i}
  BY DEF With
<1>2. Box!PutBack(i)
  BY <1>1 DEF Box!PutBack, Closed, Written
<1>3. i \in Id
  BY WrittenIds DEF Inv
<1> QED
  BY <1>2, <1>3 DEF Box!Next

\* Failures are counted upwards, and what is closed stays closed.
LEMMA CountCloses ==
    ASSUME Inv, NEW f \in Flusher, MarkCount(f)
    PROVE  Box!Next
<1>1. \A i \in Id : failures[i] \in Nat
  BY DEF Inv, ScalarsOK
<1>2. \A i \in Id : failures[i] <= failures'[i] /\ failures'[i] \in Nat
  BY <1>1 DEF MarkCount, Inv, ScalarsOK
<1>3. Written \subseteq Id
  BY WrittenIds DEF Inv
<1>4. UNCHANGED <<written, rows, expired, sent, acked>>
  BY DEF MarkCount, durable
<1>5. Closed \subseteq Closed'
  <2>1. ASSUME NEW i \in Closed PROVE i \in Closed'
    <3>1. i \in Written
      BY DEF Closed, Written
    <3>2. failures[i] >= MaxRetries => failures'[i] >= MaxRetries
      BY <1>1, <1>2, <1>3, <3>1, OfflineQueueAssumption
    <3> QED
      BY <1>4, <3>1, <3>2 DEF Closed, Written
  <2> QED
    BY <2>1
<1> QED
  BY <1>4, <1>5, BoxCloses

LEMMA FlushRefines ==
    ASSUME Inv, NEW f \in Flusher, FlushStep(f)
    PROVE  Box!Next \/ UNCHANGED Box!vars
<1>0. FlushOK(flush[f])
  BY DEF Inv, FlushesOK
<1>1. CASE getQueued(f)
  <2>1. ASSUME NEW i \in Exhausted(Ids) PROVE i \in Closed
    <3>1. i \in Written /\ i \in Id /\ rows[i].attempts <= failures[i] /\ rows[i].attempts \in Nat
      BY <2>1, WrittenIds DEF Exhausted, Ids, Inv, RowsOK, Row
    <3>2. rows[i].attempts >= MaxRetries /\ failures[i] \in Nat
      BY <2>1, <3>1 DEF Exhausted, Inv, ScalarsOK
    <3>3. failures[i] >= MaxRetries
      BY <3>1, <3>2, OfflineQueueAssumption
    <3> QED
      BY <3>1, <3>3 DEF Closed, Written
  <2>2. Spent \cap DOMAIN rows \subseteq sent \cup Closed
    BY <2>1 DEF Spent, Ids, Closed, Inv, ScalarsOK, Written
  <2>3. rows' = Without(rows, Spent) /\ UNCHANGED <<written, expired, sent, acked, failures>>
    BY <1>1 DEF getQueued, history
  <2> QED
    BY <2>2, <2>3, BoxDrops
<1>2. CASE SendAccepted(f) \/ SentNotSaved(f)
  <2>1. AtItem(f) /\ sent' = sent \cup {Item(f)} /\ UNCHANGED <<written, rows, expired, acked, failures>>
    BY <1>2 DEF SendAccepted, SentNotSaved, durable
  <2> QED
    BY <2>1, ItemWritten, BoxHands
<1>3. CASE EncryptFailed(f) \/ SendRefused(f) \/ MarkGet(f)
  <2>1. UNCHANGED <<written, rows, expired, sent, acked, failures>>
    BY <1>3 DEF EncryptFailed, SendRefused, MarkGet, durable, history
  <2> QED
    BY <2>1, BoxStutters
<1>4. CASE MarkCount(f)
  BY <1>4, CountCloses
<1>5. CASE MarkPut(f)
  <2>1. flush[f].id \in Written
    BY <1>0, <1>5 DEF MarkPut, FlushOK
  <2>2. \E x : rows' = With(rows, flush[f].id, x)
    BY <1>5 DEF MarkPut
  <2>3. UNCHANGED <<written, expired, sent, acked, failures>>
    BY <1>5 DEF MarkPut, history
  <2> QED
    BY <2>1, <2>2, <2>3, BoxPutsBack
<1>6. CASE MarkDrop(f)
  <2>1. PICK i : i = flush[f].id
    OBVIOUS
  <2>2. i \in Written /\ flush[f].n >= MaxRetries /\ flush[f].n <= failures[i] /\ flush[f].n \in Nat
    BY <1>0, <1>6, <2>1 DEF MarkDrop, FlushOK, FlushState
  <2>3. failures[i] \in Nat
    BY <2>2, WrittenIds DEF Inv, ScalarsOK
  <2>4. failures[i] >= MaxRetries
    BY <2>2, <2>3, OfflineQueueAssumption
  <2>5. i \in Closed
    BY <2>2, <2>4 DEF Closed, Written
  <2>6. rows' = Without(rows, {i}) /\ UNCHANGED <<written, expired, sent, acked, failures>>
    BY <1>6, <2>1 DEF MarkDrop, history
  <2> QED
    BY <2>5, <2>6, BoxDrops
<1>7. CASE Finish(f)
  <2>1. flush[f].sent \subseteq sent
    BY <1>0 DEF FlushOK
  <2>2. rows' = Without(rows, flush[f].sent) /\ UNCHANGED <<written, expired, sent, acked, failures>>
    BY <1>7 DEF Finish, history
  <2> QED
    BY <2>1, <2>2, BoxDrops
<1> QED
  BY <1>1, <1>2, <1>3, <1>4, <1>5, <1>6, <1>7 DEF FlushStep

LEMMA ReceiptRefines ==
    ASSUME Inv, NEW r \in Receiver, ReceiptStep(r)
    PROVE  Box!Next \/ UNCHANGED Box!vars
<1>0. ReceiptOK(receipt[r])
  BY DEF Inv, ReceiptsOK
<1>1. CASE ReceiptFind(r) \/ ReceiptFindEnvelope(r) \/ ReceiptGet(r)
  <2>1. UNCHANGED <<written, rows, expired, sent, acked, failures>>
    BY <1>1 DEF ReceiptFind, ReceiptFindEnvelope, ReceiptGet, durable, history
  <2> QED
    BY <2>1, BoxStutters
<1>2. CASE ReceiptPut(r)
  <2>1. receipt[r].id \in Written
    BY <1>0, <1>2 DEF ReceiptPut, ReceiptOK
  <2>2. \E x : rows' = With(rows, receipt[r].id, x)
    BY <1>2 DEF ReceiptPut
  <2>3. UNCHANGED <<written, expired, sent, acked, failures>>
    BY <1>2 DEF ReceiptPut, history
  <2> QED
    BY <2>1, <2>2, <2>3, BoxPutsBack
<1>3. CASE ReceiptDrop(r)
  <2>1. PICK i : i = receipt[r].id
    OBVIOUS
  <2>2. i \in Written /\ written[i].op \in acked
    BY <1>0, <1>3, <2>1 DEF ReceiptDrop, ReceiptOK
  <2>3. i \in Closed
    BY <2>2 DEF Closed, Written
  <2>4. rows' = Without(rows, {i}) /\ UNCHANGED <<written, expired, sent, acked, failures>>
    BY <1>3, <2>1 DEF ReceiptDrop, history
  <2> QED
    BY <2>3, <2>4, BoxDrops
<1> QED
  BY <1>1, <1>2, <1>3 DEF ReceiptStep

LEMMA NextRefines ==
    ASSUME Inv, [Next]_vars
    PROVE  [Box!Next]_Box!vars
<1>1. ASSUME NEW op \in Op, NEW deferred \in BOOLEAN, Queue(op, deferred) PROVE Box!Next
  BY <1>1, BoxTakes DEF Queue, history
<1>2. ASSUME NEW op \in Op, QueueRefused(op) PROVE Box!Next
  <2>1. enqueue(op, FALSE) /\ FALSE \in BOOLEAN /\ UNCHANGED <<expired, sent, acked, failures>>
    BY <1>2 DEF QueueRefused, history
  <2> QED
    BY <2>1, BoxTakes
<1>3. ASSUME \/ PostConnectFlush \/ ScheduledFlush \/ DeliveryWatch \/ Ready \/ Disconnect
             \/ CooldownEnds \/ Restart \/ \E speed \in {"fast", "slow"} : RetryFlush(speed)
      PROVE  UNCHANGED Box!vars
  <2>1. UNCHANGED <<written, rows, expired, sent, acked, failures>>
    BY <1>3 DEF PostConnectFlush, ScheduledFlush, DeliveryWatch, Ready, Disconnect, CooldownEnds,
                Restart, RetryFlush, durable, history
  <2> QED
    BY <2>1, BoxStutters
<1>4. ASSUME NEW r \in Receiver, NEW op \in Op, ReceiptArrives(r, op) PROVE Box!Next
  <2>1. acked' = acked \cup {op} /\ UNCHANGED <<written, rows, expired, sent, failures>>
    BY <1>4 DEF ReceiptArrives, durable
  <2>2. Closed \subseteq Closed'
    BY <2>1 DEF Closed
  <2> QED
    BY <2>1, <2>2, BoxCloses
<1>5. ASSUME NEW i \in Id, BackoffEnds(i) PROVE UNCHANGED Box!vars
  <2>1. DOMAIN rows' = DOMAIN rows /\ UNCHANGED <<written, expired, sent, acked, failures>>
    BY <1>5 DEF BackoffEnds, history
  <2> QED
    BY <2>1, BoxStutters
<1>6. ASSUME NEW i \in Id, Expire(i) PROVE Box!Next
  <2>1. expired' = expired \cup {i} /\ UNCHANGED <<written, rows, sent, acked, failures>>
    BY <1>6 DEF Expire, history
  <2>2. Closed \subseteq Closed'
    BY <2>1 DEF Closed
  <2> QED
    BY <2>1, <2>2, BoxCloses
<1>7. ASSUME UNCHANGED vars PROVE UNCHANGED Box!vars
  <2>1. UNCHANGED <<written, rows, expired, sent, acked, failures>>
    BY <1>7 DEF vars
  <2> QED
    BY <2>1, BoxStutters
<1> QED
  BY <1>1, <1>2, <1>3, <1>4, <1>5, <1>6, <1>7, FlushRefines, ReceiptRefines DEF Next

\* The outbox keeps what Outbox promises: rows leave it only when they were handed to the
\* transport or need not be delivered any more.
THEOREM Refinement == Spec => Implements
<1>1. Init => Box!Init
  <2> SUFFICES ASSUME Init PROVE Box!Init
    OBVIOUS
  <2>1. DOMAIN written = {} /\ DOMAIN rows = {} /\ sent = {}
    BY DEF Init
  <2> QED
    BY <2>1 DEF Box!Init, Closed
<1>2. Inv /\ [Next]_vars => [Box!Next]_Box!vars
  BY NextRefines
<1> QED
  BY <1>1, <1>2, InvHolds, PTL DEF Spec, Implements, Box!Spec
=============================================================================
