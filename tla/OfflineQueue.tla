---------------------------- MODULE OfflineQueue ----------------------------
(***************************************************************************)
(* The outbox for one recipient: its rows in IndexedDB (OfflineQueue.ts    *)
(* over PersistentStore.ts), and the code of ChatController.ts that fills, *)
(* flushes and acknowledges it.  Every IndexedDB transaction is a step of  *)
(* its own, so that the flush, the flush of an earlier connection that is  *)
(* still running and the handlers of receipts interleave at their awaits.  *)
(***************************************************************************)
EXTENDS Integers, Sequences, FiniteSets

CONSTANTS
    Op,          \* messages addressed to the recipient
    Flusher,     \* bound: runs of flushOfflineQueue that exist at the same time
    Receiver,    \* bound: receipts handled at the same time
    None,
    MaxRetries,  \* maxRetries
    MaxRows,     \* bound: rows ever written
    MaxTrouble   \* bound: encryptions and saves that fail, sends refused while ready,
                 \* disconnects, restarts, receipts and rows that grow too old, in all

ASSUME OfflineQueueAssumption ==
    /\ None \notin Flusher
    /\ MaxRetries \in Nat \ {0}
    /\ MaxRows \in Nat /\ MaxTrouble \in Nat

VARIABLES
    written,   \* what enqueue wrote, by row id (the autoincremented key)
    rows,      \* the rows in the store
    expired,   \* rows that are too old
    ready,     \* readyPeers has the recipient
    post,      \* _runPostConnectWork has not called the flush yet
    scheduled, \* scheduledOfflineQueueFlushes has a timer
    retries,   \* timers set at the end of a flush: "fast" (backpressure) or "slow"
    cool,      \* lastOfflineQueueFlushAt is less than OFFLINE_QUEUE_FLUSH_MIN_MS ago
    inFlight,  \* offlineQueueFlushInFlight
    flush,     \* the runs of flushOfflineQueue
    receipt,   \* the receipts being applied
    sent,      \* history: rows handed to the transport
    acked,     \* history: messages acknowledged or read
    failures,  \* history: failed attempts of each row
    trouble    \* what has gone wrong so far, see MaxTrouble

durable == <<written, rows, expired>>
timers == <<post, scheduled, retries, cool>>
history == <<sent, acked, failures>>
vars == <<written, rows, expired, ready, post, scheduled, retries, cool, inFlight, flush,
          receipt, sent, acked, failures, trouble>>

Id == 1..MaxRows
Row == [attempts : Nat, resting : BOOLEAN]
Fresh == [attempts |-> 0, resting |-> FALSE]
Ids == DOMAIN rows

IdleFlush == [pc |-> "idle", todo |-> {}, sent |-> {}, failed |-> FALSE, hit |-> FALSE,
              orphan |-> FALSE, id |-> 0, n |-> 0, copy |-> Fresh]
IdleReceipt == [pc |-> "idle", op |-> None, id |-> 0, copy |-> Fresh]

First(ids) == CHOOSE i \in ids : \A j \in ids : i <= j
Without(f, ids) == [i \in DOMAIN f \ ids |-> f[i]]
With(f, i, x) == [j \in DOMAIN f \cup {i} |-> IF j = i THEN x ELSE f[j]]

RowsOf(op) == {i \in Ids : written[i].op = op}
Exhausted(ids) == {i \in ids : rows[i].attempts >= MaxRetries}

Init ==
    /\ written = <<>> /\ rows = <<>> /\ expired = {}
    /\ ready = FALSE /\ post = FALSE /\ scheduled = FALSE /\ retries = {} /\ cool = FALSE
    /\ inFlight = None
    /\ flush = [f \in Flusher |-> IdleFlush]
    /\ receipt = [r \in Receiver |-> IdleReceipt]
    /\ sent = {} /\ acked = {} /\ failures = [i \in Id |-> 0]
    /\ trouble = 0

Trouble == trouble < MaxTrouble /\ trouble' = trouble + 1

-----------------------------------------------------------------------------
(* Filling the outbox                                                      *)

\* Mutant: the key generator is advanced before the key is used.
enqueueAhead(op, deferred) ==
    /\ Len(written) < MaxRows
    /\ written' = Append(written, [op |-> op, deferred |-> deferred])
    /\ rows' = With(rows, Len(written) + 2, Fresh)

\* enqueue: put without a key, so that the store numbers the row.
enqueue(op, deferred) ==
    /\ Len(written) < MaxRows
    /\ written' = Append(written, [op |-> op, deferred |-> deferred])
    /\ rows' = With(rows, Len(written) + 1, Fresh)

\* The message could not be encrypted, or the recipient is offline.
Queue(op, deferred) ==
    /\ enqueue(op, deferred)
    /\ deferred \/ ~ ready
    /\ UNCHANGED <<expired, ready, timers, inFlight, flush, receipt, history, trouble>>

\* A send to a recipient thought ready was refused; a flush is scheduled (delay 250 ms).
QueueRefused(op) ==
    /\ enqueue(op, FALSE)
    /\ ready /\ Trouble
    /\ scheduled' = TRUE
    /\ UNCHANGED <<expired, ready, post, retries, cool, inFlight, flush, receipt, history>>

-----------------------------------------------------------------------------
(* flushOfflineQueue                                                       *)

\* Which of the runs that do not exist the next one is makes no difference.
Unused == CHOOSE f \in Flusher : flush[f].pc = "idle"

\* A call joins the run in flight, is skipped when the last one is recent, or starts one.
flushOfflineQueue(bypassCooldown) ==
    IF inFlight # None \/ (cool /\ ~ bypassCooldown)
    THEN UNCHANGED <<cool, inFlight, flush>>
    ELSE /\ cool' = TRUE
         /\ \E f \in Flusher :
                /\ flush[f].pc = "idle" /\ f = Unused
                /\ inFlight' = f
                /\ flush' = [flush EXCEPT ![f] = [IdleFlush EXCEPT !.pc = "load"]]

\* _runPostConnectWork, after the retry of unacknowledged messages.
PostConnectFlush ==
    /\ post /\ post' = FALSE
    /\ flushOfflineQueue(FALSE)
    /\ UNCHANGED <<durable, ready, scheduled, retries, receipt, history, trouble>>

ScheduledFlush ==
    /\ scheduled /\ scheduled' = FALSE
    /\ IF ready THEN flushOfflineQueue(FALSE) ELSE UNCHANGED <<cool, inFlight, flush>>
    /\ UNCHANGED <<durable, ready, post, retries, receipt, history, trouble>>

RetryFlush(speed) ==
    /\ speed \in retries /\ retries' = retries \ {speed}
    /\ IF ready THEN flushOfflineQueue(speed = "fast") ELSE UNCHANGED <<cool, inFlight, flush>>
    /\ UNCHANGED <<durable, ready, post, scheduled, receipt, history, trouble>>

\* The watch of a message sent and not acknowledged calls scheduleOfflineQueueFlush.
DeliveryWatch ==
    /\ ready /\ \E i \in sent : written[i].op \notin acked
    /\ ~ scheduled /\ scheduled' = TRUE
    /\ UNCHANGED <<durable, ready, post, retries, cool, inFlight, flush, receipt, history, trouble>>

\* filterDeliverable: rows too old or out of attempts are removed, rows that back off wait.
Spent == (expired \cap Ids) \cup Exhausted(Ids)
Due == {i \in Ids \ Spent : ~ rows[i].resting}

\* Mutant: rows that back off are removed with the spent ones.
getQueuedDropsResting(f) ==
    /\ flush[f].pc = "load"
    /\ flush' = [flush EXCEPT ![f] = [@ EXCEPT !.pc = "item", !.todo = Due]]
    /\ rows' = Without(rows, Ids \ Due)
    /\ UNCHANGED <<written, expired, ready, timers, inFlight, receipt, history, trouble>>

getQueued(f) ==
    /\ flush[f].pc = "load"
    /\ flush' = [flush EXCEPT ![f] = [@ EXCEPT !.pc = "item", !.todo = Due]]
    /\ rows' = Without(rows, Spent)
    /\ UNCHANGED <<written, expired, ready, timers, inFlight, receipt, history, trouble>>

\* The next row of the snapshot that getQueued took.
Item(f) == First(flush[f].todo)
AtItem(f) == flush[f].pc = "item" /\ flush[f].todo # {} /\ ~ flush[f].hit

Passed(r, i) == [r EXCEPT !.todo = @ \ {i}, !.sent = @ \cup {i}]

\* transport.send returned true.
SendAccepted(f) ==
    /\ AtItem(f) /\ ready
    /\ sent' = sent \cup {Item(f)}
    /\ flush' = [flush EXCEPT ![f] = Passed(@, Item(f))]
    /\ UNCHANGED <<durable, ready, timers, inFlight, receipt, acked, failures, trouble>>

\* What a failed item leaves: the row's attempts are about to be counted.
Failed(r, i) == [r EXCEPT !.todo = @ \ {i}, !.failed = TRUE, !.pc = "count", !.id = i]

\* ... and reconcileReplayedOutgoingMessage then failed to save the message.
SentNotSaved(f) ==
    /\ AtItem(f) /\ ready /\ Trouble
    /\ sent' = sent \cup {Item(f)}
    /\ flush' = [flush EXCEPT ![f] = Failed(Passed(@, Item(f)), Item(f))]
    /\ UNCHANGED <<durable, ready, timers, inFlight, receipt, acked, failures>>

\* A deferred row cannot be encrypted.
EncryptFailed(f) ==
    /\ AtItem(f) /\ written[Item(f)].deferred /\ Trouble
    /\ flush' = [flush EXCEPT ![f] = Failed(@, Item(f))]
    /\ UNCHANGED <<durable, ready, timers, inFlight, receipt, history>>

\* transport.send returned false: the rest of the snapshot waits for the next flush.
SendRefused(f) ==
    /\ AtItem(f)
    /\ IF ready THEN Trouble ELSE UNCHANGED trouble
    /\ flush' = [flush EXCEPT ![f] = [@ EXCEPT !.hit = TRUE]]
    /\ UNCHANGED <<durable, ready, timers, inFlight, receipt, history>>

\* The retry timer of a run that ends.
Retry(r) == IF r.hit THEN {"fast"} ELSE IF r.failed THEN {"slow"} ELSE {}

\* Mutant: the run in flight is cleared by whichever run ends.
FinishClearsAny(f) ==
    /\ flush[f].pc = "item" /\ (flush[f].todo = {} \/ flush[f].hit)
    /\ rows' = Without(rows, flush[f].sent)
    /\ retries' = retries \cup Retry(flush[f])
    /\ inFlight' = None
    /\ flush' = [flush EXCEPT ![f] = IdleFlush]
    /\ UNCHANGED <<written, expired, ready, post, scheduled, cool, receipt, history, trouble>>

\* Mutant: only failures set the timer.
FinishForgetsHit(f) ==
    /\ flush[f].pc = "item" /\ (flush[f].todo = {} \/ flush[f].hit)
    /\ rows' = Without(rows, flush[f].sent)
    /\ retries' = retries \cup Retry([flush[f] EXCEPT !.hit = FALSE])
    /\ inFlight' = IF inFlight = f THEN None ELSE inFlight
    /\ flush' = [flush EXCEPT ![f] = IdleFlush]
    /\ UNCHANGED <<written, expired, ready, post, scheduled, cool, receipt, history, trouble>>

\* removeBatch, the retry timer, and the finally clause.
Finish(f) ==
    /\ flush[f].pc = "item" /\ (flush[f].todo = {} \/ flush[f].hit)
    /\ rows' = Without(rows, flush[f].sent)
    /\ retries' = retries \cup Retry(flush[f])
    /\ inFlight' = IF inFlight = f THEN None ELSE inFlight
    /\ flush' = [flush EXCEPT ![f] = IdleFlush]
    /\ UNCHANGED <<written, expired, ready, post, scheduled, cool, receipt, history, trouble>>

-----------------------------------------------------------------------------
(* markAttempt; updateQueuedMessage reads the row and puts it back changed *)

Attempts(i) == IF i \in Ids THEN rows[i].attempts + 1 ELSE 1

MarkCount(f) ==
    LET i == flush[f].id
    IN  /\ flush[f].pc = "count"
        /\ failures' = [failures EXCEPT ![i] = @ + 1]
        /\ flush' = [flush EXCEPT ![f] = [@ EXCEPT !.pc = "get", !.n = Attempts(i)]]
        /\ UNCHANGED <<durable, ready, timers, inFlight, receipt, sent, acked, trouble>>

\* The flush goes on with its next item.
NextItem(r) == [r EXCEPT !.pc = "item", !.id = 0, !.n = 0, !.copy = Fresh]

\* After the update, a row out of attempts is removed.
Updated(r) == IF r.n >= MaxRetries THEN [r EXCEPT !.pc = "drop", !.copy = Fresh] ELSE NextItem(r)

MarkGet(f) ==
    /\ flush[f].pc = "get"
    /\ LET r == flush[f]
       IN flush' = [flush EXCEPT ![f] = IF r.id \in Ids
                                         THEN [r EXCEPT !.pc = "put", !.copy = rows[r.id]]
                                         ELSE Updated(r)]
    /\ UNCHANGED <<durable, ready, timers, inFlight, receipt, history, trouble>>

MarkPut(f) ==
    LET r == flush[f]
    IN  /\ r.pc = "put"
        /\ rows' = With(rows, r.id, [r.copy EXCEPT !.attempts = r.n, !.resting = TRUE])
        /\ flush' = [flush EXCEPT ![f] = Updated(r)]
        /\ UNCHANGED <<written, expired, ready, timers, inFlight, receipt, history, trouble>>

MarkDrop(f) ==
    /\ flush[f].pc = "drop"
    /\ rows' = Without(rows, {flush[f].id})
    /\ flush' = [flush EXCEPT ![f] = NextItem(@)]
    /\ UNCHANGED <<written, expired, ready, timers, inFlight, receipt, history, trouble>>

FlushStep(f) ==
    \/ getQueued(f) \/ SendAccepted(f) \/ SentNotSaved(f) \/ EncryptFailed(f) \/ SendRefused(f)
    \/ MarkCount(f) \/ MarkGet(f) \/ MarkPut(f) \/ MarkDrop(f) \/ Finish(f)

-----------------------------------------------------------------------------
(* A receipt of kind acknowledged or read: acknowledgeByMessageId           *)

ReceiptArrives(r, op) ==
    /\ receipt[r].pc = "idle" /\ Trouble
    /\ \E i \in DOMAIN written : written[i].op = op
    /\ acked' = acked \cup {op}
    /\ receipt' = [receipt EXCEPT ![r] = [IdleReceipt EXCEPT !.pc = "load", !.op = op]]
    /\ UNCHANGED <<durable, ready, timers, inFlight, flush, sent, failures>>

\* The first row of the message; one with an envelope is looked up once more by its id.
ReceiptFind(r) ==
    /\ receipt[r].pc = "load"
    /\ receipt' = [receipt EXCEPT ![r] =
                      IF RowsOf(@.op) = {} THEN IdleReceipt
                      ELSE LET i == First(RowsOf(@.op))
                           IN [@ EXCEPT !.id = i,
                                        !.pc = IF written[i].deferred THEN "get" ELSE "again"]]
    /\ UNCHANGED <<durable, ready, timers, inFlight, flush, history, trouble>>

\* acknowledgeEnvelope
ReceiptFindEnvelope(r) ==
    /\ receipt[r].pc = "again"
    /\ receipt' = [receipt EXCEPT ![r] =
                      IF @.id \in Ids THEN [@ EXCEPT !.pc = "get"] ELSE IdleReceipt]
    /\ UNCHANGED <<durable, ready, timers, inFlight, flush, history, trouble>>

ReceiptGet(r) ==
    /\ receipt[r].pc = "get"
    /\ LET i == receipt[r].id
       IN receipt' = [receipt EXCEPT ![r] = IF i \in Ids
                                             THEN [@ EXCEPT !.pc = "put", !.copy = rows[i]]
                                             ELSE [@ EXCEPT !.pc = "drop"]]
    /\ UNCHANGED <<durable, ready, timers, inFlight, flush, history, trouble>>

\* The patch sets deliveryState and acknowledgedAt, which no guard looks at.
ReceiptPut(r) ==
    /\ receipt[r].pc = "put"
    /\ rows' = With(rows, receipt[r].id, receipt[r].copy)
    /\ receipt' = [receipt EXCEPT ![r] = [@ EXCEPT !.pc = "drop", !.copy = Fresh]]
    /\ UNCHANGED <<written, expired, ready, timers, inFlight, flush, history, trouble>>

ReceiptDrop(r) ==
    /\ receipt[r].pc = "drop"
    /\ rows' = Without(rows, {receipt[r].id})
    /\ receipt' = [receipt EXCEPT ![r] = IdleReceipt]
    /\ UNCHANGED <<written, expired, ready, timers, inFlight, flush, history, trouble>>

ReceiptStep(r) ==
    ReceiptFind(r) \/ ReceiptFindEnvelope(r) \/ ReceiptGet(r) \/ ReceiptPut(r) \/ ReceiptDrop(r)

-----------------------------------------------------------------------------
(* Connections, time, restarts                                             *)

\* The handshake is complete.
Ready ==
    /\ ~ ready
    /\ ready' = TRUE /\ post' = TRUE
    /\ UNCHANGED <<durable, scheduled, retries, cool, inFlight, flush, receipt, history, trouble>>

\* Runs of the connection that is gone go on, but are no longer the one in flight.
Orphaned == [f \in Flusher |-> [flush[f] EXCEPT !.orphan = (@ \/ flush[f].pc # "idle")]]

\* onDisconnect
Disconnect ==
    /\ ready /\ ready' = FALSE /\ Trouble
    /\ inFlight' = None /\ cool' = FALSE /\ scheduled' = FALSE
    /\ flush' = Orphaned
    /\ UNCHANGED <<durable, post, retries, receipt, history>>

CooldownEnds ==
    /\ cool /\ cool' = FALSE
    /\ UNCHANGED <<durable, ready, post, scheduled, retries, inFlight, flush, receipt, history, trouble>>

\* getDueAt has passed.
BackoffEnds(i) ==
    /\ i \in Ids /\ rows[i].resting
    /\ rows' = [rows EXCEPT ![i].resting = FALSE]
    /\ UNCHANGED <<written, expired, ready, timers, inFlight, flush, receipt, history, trouble>>

\* isExpired becomes true.
Expire(i) ==
    /\ i \in Ids \ expired /\ Trouble
    /\ expired' = expired \cup {i}
    /\ UNCHANGED <<written, rows, ready, timers, inFlight, flush, receipt, history>>

\* The page is closed and opened again: only the store remains.
Restart ==
    /\ Trouble
    /\ ready' = FALSE /\ post' = FALSE /\ scheduled' = FALSE /\ retries' = {} /\ cool' = FALSE
    /\ inFlight' = None
    /\ flush' = [f \in Flusher |-> IdleFlush]
    /\ receipt' = [r \in Receiver |-> IdleReceipt]
    /\ UNCHANGED <<durable, history>>

-----------------------------------------------------------------------------
Next ==
    \/ \E op \in Op, deferred \in BOOLEAN : Queue(op, deferred)
    \/ \E op \in Op : QueueRefused(op)
    \/ PostConnectFlush \/ ScheduledFlush \/ DeliveryWatch
    \/ \E speed \in {"fast", "slow"} : RetryFlush(speed)
    \/ \E f \in Flusher : FlushStep(f)
    \/ \E r \in Receiver, op \in Op : ReceiptArrives(r, op)
    \/ \E r \in Receiver : ReceiptStep(r)
    \/ Ready \/ Disconnect \/ CooldownEnds \/ Restart
    \/ \E i \in Id : BackoffEnds(i) \/ Expire(i)

Spec == Init /\ [][Next]_vars

\* Transactions complete, timers fire and time passes; sends, receipts and connections
\* promise nothing.
FairSpec ==
    /\ Spec
    /\ \A f \in Flusher : WF_vars(FlushStep(f))
    /\ \A r \in Receiver : WF_vars(ReceiptStep(r))
    /\ WF_vars(PostConnectFlush) /\ WF_vars(ScheduledFlush)
    /\ \A speed \in {"fast", "slow"} : WF_vars(RetryFlush(speed))
    /\ WF_vars(CooldownEnds) /\ \A i \in Id : WF_vars(BackoffEnds(i))

-----------------------------------------------------------------------------
(* Properties                                                              *)

FlushState ==
    [pc : {"idle", "load", "item", "count", "get", "put", "drop"}, todo : SUBSET Id,
     sent : SUBSET Id, failed : BOOLEAN, hit : BOOLEAN, orphan : BOOLEAN,
     id : Id \cup {0}, n : Nat, copy : Row]
ReceiptState ==
    [pc : {"idle", "load", "again", "get", "put", "drop"}, op : Op \cup {None},
     id : Id \cup {0}, copy : Row]

\* Types, for the rows, the runs of the flush and the receipts.
TypeOK ==
    /\ written \in Seq([op : Op, deferred : BOOLEAN]) /\ Len(written) <= MaxRows
    /\ DOMAIN rows \subseteq DOMAIN written /\ \A i \in DOMAIN rows : rows[i] \in Row
    /\ expired \subseteq DOMAIN written
    /\ ready \in BOOLEAN /\ post \in BOOLEAN /\ scheduled \in BOOLEAN /\ cool \in BOOLEAN
    /\ retries \subseteq {"fast", "slow"}
    /\ inFlight \in Flusher \cup {None}
    /\ flush \in [Flusher -> FlushState] /\ receipt \in [Receiver -> ReceiptState]
    /\ sent \subseteq DOMAIN written /\ acked \subseteq Op /\ failures \in [Id -> Nat]
    /\ trouble \in 0..MaxTrouble

\* Rows that need not be delivered any more.
Closed ==
    {i \in DOMAIN written :
        written[i].op \in acked \/ i \in expired \/ failures[i] >= MaxRetries}

Box == INSTANCE Outbox WITH Entry <- Id, taken <- DOMAIN written, held <- DOMAIN rows,
                            handed <- sent, closed <- Closed

\* The outbox keeps what it promises: a row leaves the store only after transport.send
\* took it, its message was acknowledged, it grew too old, or its attempts failed
\* MaxRetries times; through restarts, reconnects and overlapping updates ("never
\* dequeue before successful transport.send()").
Implements == Box!Spec

\* Of the runs of flushOfflineQueue, those of the present connection are never two, and
\* the one there is is the one that later calls join: offlineQueueFlushInFlight is
\* neither left behind by a run that ended nor cleared by the run of an earlier connection.
OneFlushPerConnection ==
    /\ inFlight # None => flush[inFlight].pc # "idle" /\ ~ flush[inFlight].orphan
    /\ \A f \in Flusher : flush[f].pc # "idle" /\ ~ flush[f].orphan => inFlight = f

\* A row whose send is refused to the flush of a connection that lasts is sent in the
\* end, by the timer of 250 ms, unless it leaves the store or backs off after a failure
\* ("Keep item queued and retry shortly").
RefusedIsRetried ==
    \A i \in Id :
        (\E f \in Flusher : flush[f].hit /\ ~ flush[f].orphan /\ i \in flush[f].todo \cap Ids)
            ~> (i \in sent \/ i \notin Ids \/ rows[i].resting \/ i \in expired \/ ~ ready)

\* A row whose attempt failed while the recipient is ready is tried again as long as it
\* stays ready ("Retry pending queue shortly while peer remains ready").
FailedIsRetried ==
    \A i \in Id :
        (i \in Ids /\ rows[i].attempts = 1 /\ ready)
            ~> (i \in sent \/ i \notin Ids \/ rows[i].attempts # 1 \/ i \in expired \/ ~ ready)
=============================================================================
