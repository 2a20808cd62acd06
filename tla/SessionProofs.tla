--------------------------- MODULE SessionProofs ---------------------------
(***************************************************************************)
(* Theorems about Session, for every set of links.                         *)
(***************************************************************************)
EXTENDS Session, TLAPS

-----------------------------------------------------------------------------
(* Ends                                                                    *)

LEMMA EndsFacts ==
    ASSUME NEW e \in Ends
    PROVE  /\ Back(e) \in Ends /\ Back(Back(e)) = e /\ Back(e) # e
           /\ e[1] \in Peer /\ e[2] \in Peer /\ e[1] \in Nat /\ e[2] \in Nat
           /\ Back(e)[1] = e[2] /\ Back(e)[2] = e[1]
           /\ IsAlice(e) <=> ~ IsAlice(Back(e))
  <1>1. \A l \in Link : l = <<l[1], l[2]>> /\ l[1] \in Nat /\ l[2] \in Nat /\ l[1] < l[2]
    BY SessionAssumption
  <1>2. CASE e \in Link
    <2>1. Back(e) = <<e[2], e[1]>> /\ e = <<e[1], e[2]>>
      BY <1>1, <1>2 DEF Back
    <2>2. Back(e) \in Ends
      BY <1>2 DEF Ends
    <2> QED
      BY <1>1, <1>2, <2>1, <2>2 DEF Back, Peer, IsAlice
  <1>3. CASE e \notin Link
    <2>1. PICK l \in Link : e = <<l[2], l[1]>>
      BY <1>3 DEF Ends, Back
    <2>2. Back(e) = l
      BY <1>1, <2>1 DEF Back
    <2>3. l \in Ends
      BY DEF Ends
    <2> QED
      BY <1>1, <2>1, <2>2, <2>3 DEF Back, Peer, IsAlice
  <1> QED
    BY <1>2, <1>3

LEMMA LinkFacts ==
    ASSUME NEW l \in Link
    PROVE  l \in Ends /\ IsAlice(l) /\ Back(l) \in Ends /\ ~ IsAlice(Back(l))
  <1>1. l \in Ends
    BY DEF Ends
  <1>2. IsAlice(l)
    BY SessionAssumption DEF IsAlice
  <1> QED
    BY <1>1, <1>2, EndsFacts

-----------------------------------------------------------------------------
(* Types                                                                   *)

LEMMA ValueTypes ==
    /\ None \in Keys
    /\ NoSession \in SessionType
    /\ \A a, b \in Keys : Made(a, b) \in SessionType /\ Ratchet(a, b) \in Message
    /\ \A k \in Keys : Hello(k) \in Message
    /\ Legacy \in Message
  BY DEF Keys, NoSession, SessionType, Made, Ratchet, Hello, Legacy, Message

LEMMA WorkerTypes ==
    /\ Idle \in WorkerType
    /\ \A pc \in {"idle", "look", "derive", "store", "finish"} : [Idle EXCEPT !.pc = pc] \in WorkerType
    /\ \A k \in Keys : [Idle EXCEPT !.pc = "look", !.key = k] \in WorkerType
  BY ValueTypes DEF Idle, WorkerType

LEMMA PutType ==
    ASSUME TypeOK, NEW e \in Ends, NEW q \in Seq(Message), Put(e, q)
    PROVE  wire' \in [Ends -> Seq(Message)]
  <1>1. Back(e) \in Ends
    BY EndsFacts
  <1> QED
    BY <1>1 DEF Put, TypeOK

LEMMA HelloType ==
    ASSUME TypeOK, NEW e \in Ends, SendHello(e)
    PROVE  /\ key' \in [Peer -> Keys] /\ keys' \in [Peer -> Nat]
           /\ wire' \in [Ends -> Seq(Message)]
  <1> DEFINE p == e[1]
             k == IF key[p] = None THEN NewKey(p) ELSE key[p]
  <1>1. p \in Peer /\ p \in Nat
    BY EndsFacts
  <1>2. k \in Keys
    BY <1>1 DEF TypeOK, NewKey, Keys
  <1>3. <<Hello(k)>> \in Seq(Message)
    BY <1>2, ValueTypes
  <1>4. key' \in [Peer -> Keys] /\ keys' \in [Peer -> Nat]
    BY <1>1, <1>2 DEF SendHello, TypeOK
  <1>5. Put(e, <<Hello(k)>>)
    BY DEF SendHello
  <1> QED
    BY <1>3, <1>4, <1>5, PutType

LEMMA TakesType ==
    ASSUME TypeOK, NEW e \in Ends, NEW w \in Worker, Takes(e, w)
    PROVE  /\ wire' \in [Ends -> Seq(Message)] /\ late' \in [Ends -> Seq(Message)]
           /\ Head(Queue(e, w)) \in Message
  <1>1. Queue(e, w) \in Seq(Message) /\ Queue(e, w) # <<>>
    BY DEF Takes, Queue, TypeOK
  <1>2. Tail(Queue(e, w)) \in Seq(Message) /\ Head(Queue(e, w)) \in Message
    BY <1>1
  <1>3. wire \in [Ends -> Seq(Message)] /\ late \in [Ends -> Seq(Message)]
    BY DEF TypeOK
  <1>4. CASE w = "live"
    <2>1. wire' = [wire EXCEPT ![e] = Tail(wire[e])] /\ late' = late
      BY <1>4 DEF Takes
    <2>2. Tail(wire[e]) \in Seq(Message)
      BY <1>2, <1>4 DEF Queue
    <2> QED
      BY <1>2, <1>3, <2>1, <2>2
  <1>5. CASE w = "lost"
    <2>1. late' = [late EXCEPT ![e] = Tail(late[e])] /\ wire' = wire
      BY <1>5 DEF Takes
    <2>2. Tail(late[e]) \in Seq(Message)
      BY <1>2, <1>5 DEF Queue
    <2> QED
      BY <1>2, <1>3, <2>1, <2>2
  <1> QED
    BY <1>4, <1>5 DEF Worker

LEMMA EncryptType ==
    ASSUME TypeOK, NEW e \in Ends, NEW s \in SessionType, NEW m, Encrypt(e, s, m)
    PROVE  m \in Message /\ disk' \in [Ends -> SessionType] /\ spent' \in [conns : Nat, sends : Nat]
  <1>1. Sealed(e, s) \in Message
    BY ValueTypes DEF Sealed, SessionType
  <1>2. spent \in [conns : Nat, sends : Nat] /\ disk \in [Ends -> SessionType]
    BY DEF TypeOK
  <1>3. spent' = [spent EXCEPT !.sends = spent.sends + 1]
    BY DEF Encrypt
  <1>4. spent' \in [conns : Nat, sends : Nat]
    BY ONLY <1>2, <1>3
  <1>5. m \in {Sealed(e, s), Legacy} /\ disk' \in {[disk EXCEPT ![e] = s], disk}
    BY DEF Encrypt
  <1> QED
    BY <1>1, <1>2, <1>4, <1>5, ValueTypes

\* The parts of the state that an action leaves alone keep their types.
LEMMA SameTypes ==
    /\ TypeOK /\ UNCHANGED connection =>
            /\ opening' \in [Ends -> BOOLEAN] /\ open' \in [Ends -> BOOLEAN]
            /\ wire' \in [Ends -> Seq(Message)]
    /\ TypeOK /\ UNCHANGED memory =>
            /\ session' \in [Ends -> SessionType] /\ disk' \in [Ends -> SessionType]
            /\ legacy' \in [Ends -> BOOLEAN]
    /\ TypeOK /\ UNCHANGED marks =>
            /\ ready' \in [Ends -> BOOLEAN] /\ inFlight' \in [Ends -> BOOLEAN]
            /\ cool' \in [Ends -> BOOLEAN]
  BY DEF TypeOK, connection, memory, marks

LEMMA GoesType ==
    ASSUME TypeOK, NEW e \in Ends, NEW w \in Worker,
           NEW x \in WorkerType, worker' = [worker EXCEPT ![e][w] = x]
    PROVE  worker' \in [Ends -> [Worker -> WorkerType]]
  BY DEF TypeOK

LEMMA TypeConnections ==
    ASSUME TypeOK,
           NEW e \in Ends, Connect(e) \/ Open(e) \/ OpenFails(e) \/ CooldownEnds(e)
    PROVE  TypeOK'
  <1>0. Back(e) \in Ends
    BY EndsFacts
  <1>1. CASE Connect(e)
    <2>1. spent \in [conns : Nat, sends : Nat] /\ spent' = [spent EXCEPT !.conns = spent.conns + 1]
      BY <1>1 DEF Connect, TypeOK
    <2>2. spent' \in [conns : Nat, sends : Nat]
      BY ONLY <2>1
    <2>3. opening' \in [Ends -> BOOLEAN]
      BY <1>0, <1>1 DEF Connect, TypeOK
    <2> QED
      BY <1>1, <2>2, <2>3, SameTypes DEF Connect, TypeOK, history
  <1>2. CASE Open(e)
    <2>1. SendHello(e)
      BY <1>2 DEF Open
    <2>2. /\ key' \in [Peer -> Keys] /\ keys' \in [Peer -> Nat]
          /\ wire' \in [Ends -> Seq(Message)]
      BY <2>1, HelloType
    <2>3. Quiet(e) \in BOOLEAN
      BY DEF Quiet, HasLost, TypeOK
    <2>4. opening' \in [Ends -> BOOLEAN] /\ open' \in [Ends -> BOOLEAN] /\ clean' \in [Ends -> BOOLEAN]
      BY <1>2, <2>3 DEF Open, TypeOK
    <2> QED
      BY <1>2, <2>2, <2>4, SameTypes DEF Open, TypeOK
  <1>3. CASE OpenFails(e)
    <2>1. opening' \in [Ends -> BOOLEAN] /\ wire' \in [Ends -> Seq(Message)]
      BY <1>3 DEF OpenFails, TypeOK
    <2> QED
      BY <1>3, <2>1, SameTypes DEF OpenFails, TypeOK, history
  <1>4. CASE CooldownEnds(e)
    <2>1. cool' \in [Ends -> BOOLEAN]
      BY <1>4 DEF CooldownEnds, TypeOK
    <2> QED
      BY <1>4, <2>1, SameTypes DEF CooldownEnds, TypeOK, history
  <1> QED
    BY <1>1, <1>2, <1>3, <1>4

\* The workers of an end whose handler goes on after the connection.
Moved(e) == [w \in Worker |-> IF w = "lost" THEN worker[e]["live"] ELSE Idle]

LEMMA TypeClose ==
    ASSUME TypeOK, NEW e \in Ends, Close(e)
    PROVE  TypeOK'
  <1>1. Abandon(e)
    BY DEF Close
  <1>2. PICK n \in 0..Len(wire[e]) :
            /\ late' = [late EXCEPT ![e] = late[e] \o SubSeq(wire[e], 1, n)]
            /\ worker' = [worker EXCEPT ![e] = IF worker[e]["live"] = Idle THEN worker[e]
                                               ELSE Moved(e)]
    BY <1>1 DEF Abandon, Moved
  <1>3. wire[e] \in Seq(Message) /\ late \in [Ends -> Seq(Message)]
        /\ worker \in [Ends -> [Worker -> WorkerType]]
    BY DEF TypeOK
  <1>4. SubSeq(wire[e], 1, n) \in Seq(Message)
    BY <1>2, <1>3
  <1>5. late[e] \o SubSeq(wire[e], 1, n) \in Seq(Message)
    BY <1>3, <1>4
  <1>6. late' \in [Ends -> Seq(Message)]
    BY ONLY <1>2, <1>3, <1>5
  <1>7. worker[e]["live"] \in WorkerType
    BY <1>3 DEF Worker
  <1>8. Moved(e) \in [Worker -> WorkerType]
    BY <1>7, WorkerTypes DEF Moved
  <1>9. worker' \in [Ends -> [Worker -> WorkerType]]
    BY ONLY <1>2, <1>3, <1>8
  <1>10. /\ open' \in [Ends -> BOOLEAN] /\ wire' \in [Ends -> Seq(Message)]
         /\ ready' \in [Ends -> BOOLEAN] /\ inFlight' \in [Ends -> BOOLEAN]
         /\ legacy' \in [Ends -> BOOLEAN] /\ clean' \in [Ends -> BOOLEAN]
    BY DEF Close, TypeOK
  <1> QED
    BY <1>6, <1>9, <1>10 DEF Close, TypeOK

LEMMA TypeRestart ==
    ASSUME TypeOK, NEW p \in Peer, Restart(p)
    PROVE  TypeOK'
  <1>1. [w \in Worker |-> Idle] \in [Worker -> WorkerType]
    BY WorkerTypes
  <1>2. \A T, f : \A v \in T : f \in [Ends -> T] => Wiped(f, p, v) \in [Ends -> T]
    BY DEF Wiped
  <1>3. worker' \in [Ends -> [Worker -> WorkerType]]
    BY <1>1, <1>2 DEF Restart, TypeOK
  <1>4. /\ opening' \in [Ends -> BOOLEAN] /\ open' \in [Ends -> BOOLEAN]
        /\ legacy' \in [Ends -> BOOLEAN] /\ clean' \in [Ends -> BOOLEAN]
        /\ ready' \in [Ends -> BOOLEAN] /\ inFlight' \in [Ends -> BOOLEAN]
        /\ cool' \in [Ends -> BOOLEAN]
    BY <1>2 DEF Restart, TypeOK
  <1>5. /\ wire' \in [Ends -> Seq(Message)] /\ late' \in [Ends -> Seq(Message)]
    <2>1. <<>> \in Seq(Message)
      OBVIOUS
    <2> QED
      BY <1>2, <2>1 DEF Restart, TypeOK
  <1>6. session' \in [Ends -> SessionType] /\ key' \in [Peer -> Keys]
    BY <1>2, ValueTypes DEF Restart, TypeOK
  <1> QED
    BY <1>3, <1>4, <1>5, <1>6 DEF Restart, TypeOK

LEMMA TypeHandshake ==
    ASSUME TypeOK, NEW e \in Ends, NEW w \in Worker, Handshake(e, w)
    PROVE  TypeOK'
  <1>0. /\ worker \in [Ends -> [Worker -> WorkerType]]
        /\ session \in [Ends -> SessionType] /\ disk \in [Ends -> SessionType]
        /\ legacy \in [Ends -> BOOLEAN] /\ key \in [Peer -> Keys] /\ keys \in [Peer -> Nat]
        /\ inFlight \in [Ends -> BOOLEAN] /\ ready \in [Ends -> BOOLEAN] /\ cool \in [Ends -> BOOLEAN]
    BY DEF TypeOK
  <1>e. e[1] \in Peer /\ e[1] \in Nat
    BY EndsFacts
  <1>g. \A pc \in {"look", "derive", "store", "finish"} :
            Goes(e, w, pc) => worker' \in [Ends -> [Worker -> WorkerType]]
    BY WorkerTypes, GoesType DEF Goes
  <1>1. CASE HelloTaken(e, w)
    <2>1. /\ wire' \in [Ends -> Seq(Message)] /\ late' \in [Ends -> Seq(Message)]
          /\ Head(Queue(e, w)) \in Message
      BY <1>1, TakesType DEF HelloTaken, TakesHello
    <2>2. Head(Queue(e, w)).a \in Keys
      BY <2>1 DEF Message
    <2>3. worker' \in [Ends -> [Worker -> WorkerType]]
      BY <1>1, <2>2, WorkerTypes, GoesType DEF HelloTaken
    <2>4. /\ session' \in [Ends -> SessionType] /\ disk' \in [Ends -> SessionType]
          /\ legacy' \in [Ends -> BOOLEAN] /\ inFlight' \in [Ends -> BOOLEAN]
      BY <1>0, <1>1, ValueTypes DEF HelloTaken, memory
    <2> QED
      BY <1>1, <2>1, <2>3, <2>4 DEF HelloTaken, TypeOK, history
  <1>2. CASE HelloDropped(e, w)
    <2>1. wire' \in [Ends -> Seq(Message)] /\ late' \in [Ends -> Seq(Message)]
      BY <1>2, TakesType DEF HelloDropped, TakesHello
    <2> QED
      BY <1>2, <2>1, SameTypes DEF HelloDropped, TypeOK, history
  <1>3. CASE Look(e, w)
    <2>1. worker[e][w] \in WorkerType
      BY <1>0
    <2>2. [worker[e][w] EXCEPT !.pc = "derive"] \in WorkerType
      BY <2>1 DEF WorkerType
    <2>3. worker' \in [Ends -> [Worker -> WorkerType]]
      <3>1. \/ Goes(e, w, "finish")
            \/ worker' = [worker EXCEPT ![e][w] = [worker[e][w] EXCEPT !.pc = "derive"]]
        BY <1>0, <1>3 DEF Look
      <3> QED
        BY <1>g, <2>2, <3>1, GoesType
    <2>4. session' \in [Ends -> SessionType]
      BY <1>0, <1>3 DEF Look
    <2> QED
      BY <1>3, <2>3, <2>4, SameTypes DEF Look, TypeOK, history, marks
  <1>4. CASE Derive(e, w)
    <2>1. worker[e][w] \in WorkerType /\ worker[e][w].key \in Keys
      BY <1>0 DEF WorkerType
    <2>2. NewKey(e[1]) \in Keys
      BY <1>0, <1>e DEF NewKey, Keys
    <2> DEFINE new == IF IsAlice(e) THEN Made(NewKey(e[1]), worker[e][w].key) ELSE Made(key[e[1]], None)
    <2>3. new \in SessionType
      BY <1>0, <1>e, <2>1, <2>2, ValueTypes
    <2>4. worker' \in [Ends -> [Worker -> WorkerType]]
      <3>1. [worker[e][w] EXCEPT !.pc = "store", !.new = new] \in WorkerType
        BY <2>1, <2>3 DEF WorkerType
      <3>2. worker' = [worker EXCEPT ![e][w] = [worker[e][w] EXCEPT !.pc = "store", !.new = new]]
        BY <1>4 DEF Derive
      <3> QED
        BY <3>1, <3>2, GoesType
    <2>5. legacy' \in [Ends -> BOOLEAN] /\ keys' \in [Peer -> Nat]
      BY <1>0, <1>4, <1>e DEF Derive
    <2> QED
      BY <1>4, <2>4, <2>5, SameTypes DEF Derive, TypeOK, history
  <1>5. CASE Store(e, w)
    <2>1. worker[e][w].new \in SessionType
      BY <1>0 DEF WorkerType
    <2>2. session' \in [Ends -> SessionType] /\ disk' \in [Ends -> SessionType] /\ key' \in [Peer -> Keys]
      BY <1>0, <1>5, <2>1, ValueTypes DEF Store
    <2>3. worker' \in [Ends -> [Worker -> WorkerType]]
      BY <1>5, <1>g DEF Store
    <2> QED
      BY <1>5, <2>2, <2>3, SameTypes DEF Store, TypeOK, history
  <1>6. CASE Finish(e, w)
    <2>1. worker' \in [Ends -> [Worker -> WorkerType]]
      BY <1>6, WorkerTypes, GoesType DEF Finish
    <2>2. /\ key' \in [Peer -> Keys] /\ keys' \in [Peer -> Nat]
          /\ wire' \in [Ends -> Seq(Message)]
      <3>1. CASE SendHello(e)
        BY <3>1, HelloType
      <3>2. CASE UNCHANGED <<key, keys, wire>>
        BY <3>2 DEF TypeOK
      <3> QED
        BY <1>6, <3>1, <3>2 DEF Finish
    <2>3. /\ ready' \in [Ends -> BOOLEAN] /\ inFlight' \in [Ends -> BOOLEAN] /\ cool' \in [Ends -> BOOLEAN]
      BY <1>0, <1>6 DEF Finish
    <2> QED
      BY <1>6, <2>1, <2>2, <2>3, SameTypes DEF Finish, TypeOK, history
  <1> QED
    BY <1>1, <1>2, <1>3, <1>4, <1>5, <1>6 DEF Handshake

LEMMA TypeSends ==
    ASSUME TypeOK, NEW e \in Ends, Send(e) \/ SendOffline(e) \/ Flush(e)
    PROVE  TypeOK'
  <1>0. /\ session \in [Ends -> SessionType] /\ disk \in [Ends -> SessionType]
        /\ outbox \in [Ends -> Seq(Message)] /\ outbox[e] \in Seq(Message)
    BY DEF TypeOK
  <1>1. CASE Send(e)
    <2>1. PICK m : /\ Encrypt(e, session[e], m)
                   /\ IF open[e]
                      THEN Put(e, <<m>>) /\ UNCHANGED outbox
                      ELSE outbox' = [outbox EXCEPT ![e] = Append(outbox[e], m)] /\ UNCHANGED wire
      BY <1>1 DEF Send
    <2>2. m \in Message /\ disk' \in [Ends -> SessionType] /\ spent' \in [conns : Nat, sends : Nat]
      BY <1>0, <2>1, EncryptType
    <2>3. wire' \in [Ends -> Seq(Message)]
      <3>1. <<m>> \in Seq(Message)
        BY <2>2
      <3> QED
        BY <2>1, <3>1, PutType DEF TypeOK
    <2>4. outbox' \in [Ends -> Seq(Message)]
      <3>1. Append(outbox[e], m) \in Seq(Message)
        BY <1>0, <2>2
      <3> QED
        BY <1>0, <2>1, <3>1
    <2> QED
      BY <1>1, <2>2, <2>3, <2>4, SameTypes DEF Send, TypeOK, history
  <1>2. CASE SendOffline(e)
    <2> DEFINE s == IF session[e].there THEN session[e] ELSE disk[e]
    <2>1. PICK m : /\ Encrypt(e, s, m)
                   /\ session' = [session EXCEPT ![e] = s]
                   /\ outbox' = [outbox EXCEPT ![e] = Append(outbox[e], m)]
      BY <1>2 DEF SendOffline
    <2>2. s \in SessionType
      BY <1>0
    <2>3. m \in Message /\ disk' \in [Ends -> SessionType] /\ spent' \in [conns : Nat, sends : Nat]
      BY <2>1, <2>2, EncryptType
    <2>4. outbox' \in [Ends -> Seq(Message)]
      <3>1. Append(outbox[e], m) \in Seq(Message)
        BY <1>0, <2>3
      <3> QED
        BY <1>0, <2>1, <3>1
    <2>5. session' \in [Ends -> SessionType]
      BY <1>0, <2>1, <2>2
    <2> QED
      BY <1>2, <2>3, <2>4, <2>5, SameTypes DEF SendOffline, TypeOK, history
  <1>3. CASE Flush(e)
    <2> DEFINE q == [i \in DOMAIN outbox[e] |-> [outbox[e][i] EXCEPT !.queued = TRUE]]
    <2>1. q \in Seq(Message)
      <3>1. \A m \in Message : [m EXCEPT !.queued = TRUE] \in Message
        BY DEF Message
      <3> QED
        BY <1>0, <3>1
    <2>2. Put(e, q)
      BY <1>3 DEF Flush
    <2>3. wire' \in [Ends -> Seq(Message)]
      BY <2>1, <2>2, PutType
    <2>4. outbox' \in [Ends -> Seq(Message)]
      <3>1. <<>> \in Seq(Message)
        OBVIOUS
      <3> QED
        BY <1>0, <1>3, <3>1 DEF Flush
    <2> QED
      BY <1>3, <2>3, <2>4, SameTypes DEF Flush, TypeOK, history
  <1> QED
    BY <1>1, <1>2, <1>3

LEMMA TypeDecrypts ==
    ASSUME TypeOK, NEW e \in Ends, NEW w \in Worker, Decrypt(e, w) \/ DecryptFails(e, w)
    PROVE  TypeOK'
  <1> DEFINE m == Head(Queue(e, w))
  <1>0. /\ session \in [Ends -> SessionType] /\ disk \in [Ends -> SessionType]
        /\ legacy \in [Ends -> BOOLEAN] /\ clean \in [Ends -> BOOLEAN]
        /\ failed \subseteq {"queued", "fresh", "stale"}
    BY DEF TypeOK
  <1>1. /\ wire' \in [Ends -> Seq(Message)] /\ late' \in [Ends -> Seq(Message)]
        /\ m \in Message
    BY TakesType DEF Decrypt, DecryptFails, TakesMessage
  <1>2. Used(e) \in SessionType
    BY <1>0 DEF Used
  <1>3. clean' \in [Ends -> BOOLEAN]
    BY <1>0 DEF Decrypt, DecryptFails, Unless
  <1>4. CASE Decrypt(e, w)
    <2> DEFINE s == [Used(e) EXCEPT !.theirs = IF IsAlice(e) THEN Used(e).theirs ELSE m.a]
    <2>1. s \in SessionType
      BY <1>1, <1>2 DEF SessionType, Message
    <2>2. session' \in {session, [session EXCEPT ![e] = s]} /\ disk' \in {disk, [disk EXCEPT ![e] = s]}
      BY <1>4 DEF Decrypt
    <2>3. session' \in [Ends -> SessionType] /\ disk' \in [Ends -> SessionType]
      BY <1>0, <2>1, <2>2
    <2> QED
      BY <1>1, <1>3, <1>4, <2>3, SameTypes DEF Decrypt, TypeOK
  <1>5. CASE DecryptFails(e, w)
    <2> DEFINE s == [Used(e) EXCEPT !.sound = FALSE]
    <2>1. s \in SessionType
      BY <1>2 DEF SessionType
    <2>2. session' \in {session, [session EXCEPT ![e] = s]} /\ legacy' = [legacy EXCEPT ![e] = FALSE]
      BY <1>5 DEF DecryptFails
    <2>3. session' \in [Ends -> SessionType] /\ legacy' \in [Ends -> BOOLEAN]
      BY <1>0, <2>1, <2>2
    <2>4. failed' \subseteq {"queued", "fresh", "stale"}
      BY <1>0, <1>5 DEF DecryptFails
    <2> QED
      BY <1>1, <1>3, <1>5, <2>3, <2>4, SameTypes DEF DecryptFails, TypeOK
  <1> QED
    BY <1>4, <1>5

LEMMA TypeInit == Init => TypeOK
  <1>1. <<>> \in Seq(Message)
    OBVIOUS
  <1>2. [conns |-> 0, sends |-> 0] \in [conns : Nat, sends : Nat]
    OBVIOUS
  <1> SUFFICES ASSUME Init PROVE TypeOK
    OBVIOUS
  <1>3. /\ opening \in [Ends -> BOOLEAN] /\ open \in [Ends -> BOOLEAN]
        /\ legacy \in [Ends -> BOOLEAN] /\ clean \in [Ends -> BOOLEAN]
        /\ ready \in [Ends -> BOOLEAN] /\ inFlight \in [Ends -> BOOLEAN] /\ cool \in [Ends -> BOOLEAN]
    BY DEF Init
  <1>4. /\ wire \in [Ends -> Seq(Message)] /\ late \in [Ends -> Seq(Message)]
        /\ outbox \in [Ends -> Seq(Message)]
    BY <1>1 DEF Init
  <1>5. worker \in [Ends -> [Worker -> WorkerType]]
    BY WorkerTypes DEF Init
  <1>6. /\ session \in [Ends -> SessionType] /\ disk \in [Ends -> SessionType]
        /\ key \in [Peer -> Keys] /\ keys \in [Peer -> Nat]
    BY ValueTypes DEF Init
  <1>7. spent \in [conns : Nat, sends : Nat] /\ failed \subseteq {"queued", "fresh", "stale"}
    BY <1>2 DEF Init
  <1> QED
    BY <1>3, <1>4, <1>5, <1>6, <1>7 DEF TypeOK

LEMMA TypeStep == TypeOK /\ [Next]_vars => TypeOK'
  <1> SUFFICES ASSUME TypeOK, [Next]_vars PROVE TypeOK'
    OBVIOUS
  <1>1. ASSUME NEW l \in Link, Connect(l) PROVE TypeOK'
    BY <1>1, LinkFacts, TypeConnections
  <1>2. ASSUME NEW p \in Peer, Restart(p) PROVE TypeOK'
    BY <1>2, TypeRestart
  <1>3. ASSUME NEW e \in Ends, Open(e) \/ OpenFails(e) \/ Close(e) \/ CooldownEnds(e) PROVE TypeOK'
    BY <1>3, TypeConnections, TypeClose
  <1>4. ASSUME NEW e \in Ends, Send(e) \/ SendOffline(e) \/ Flush(e) PROVE TypeOK'
    BY <1>4, TypeSends
  <1>5. ASSUME NEW e \in Ends, NEW w \in Worker, Handle(e, w) PROVE TypeOK'
    BY <1>5, TypeHandshake, TypeDecrypts DEF Handle
  <1>6. CASE UNCHANGED vars
    BY <1>6 DEF vars, connection, memory, marks, history, TypeOK
  <1> QED
    BY <1>1, <1>2, <1>3, <1>4, <1>5, <1>6 DEF Next

\* Every variable keeps its type (ChatController's and MessageProtocol's maps of peers).
THEOREM TypeCorrect == Spec => []TypeOK
  <1> QED
    BY TypeInit, TypeStep, PTL DEF Spec

-----------------------------------------------------------------------------
(* What an action of an end leaves alone                                   *)

\* Nothing but the wire of the other end, and whether it may open, is changed beyond e;
\* and nothing of the other ends, nor the key pairs of the other peers.
Elsewhere(e) ==
    /\ \A f \in Ends : f # e =>
            /\ open'[f] = open[f] /\ late'[f] = late[f] /\ worker'[f] = worker[f]
            /\ session'[f] = session[f] /\ disk'[f] = disk[f] /\ legacy'[f] = legacy[f]
            /\ ready'[f] = ready[f] /\ inFlight'[f] = inFlight[f] /\ clean'[f] = clean[f]
    /\ \A f \in Ends : f # e /\ f # Back(e) => wire'[f] = wire[f] /\ opening'[f] = opening[f]
    /\ \A p \in Peer : p # e[1] => key'[p] = key[p]

KeepsKey(e) == key[e[1]] # None => key'[e[1]] = key[e[1]]

LEMMA PutEffect ==
    ASSUME TypeOK, NEW e \in Ends, NEW q, Put(e, q)
    PROVE  /\ \A f \in Ends : f # Back(e) => wire'[f] = wire[f]
           /\ wire'[Back(e)] = IF Gone(Back(e)) THEN wire[Back(e)] ELSE wire[Back(e)] \o q
  BY EndsFacts DEF Put, TypeOK

LEMMA HelloEffect ==
    ASSUME TypeOK, NEW e \in Ends, SendHello(e)
    PROVE  /\ KeepsKey(e)
           /\ \A p \in Peer : p # e[1] => key'[p] = key[p]
           /\ key'[e[1]] \in Keys \ {None}
           /\ Put(e, <<Hello(key'[e[1]])>>)
  <1>1. e[1] \in Peer /\ e[1] \in Nat /\ key \in [Peer -> Keys] /\ keys \in [Peer -> Nat]
    BY EndsFacts DEF TypeOK
  <1>2. key' = [key EXCEPT ![e[1]] = IF key[e[1]] = None THEN NewKey(e[1]) ELSE key[e[1]]]
    BY DEF SendHello
  <1>3. NewKey(e[1]) \in Keys \ {None}
    BY <1>1, SessionAssumption DEF NewKey, Keys
  <1>4. key'[e[1]] = IF key[e[1]] = None THEN NewKey(e[1]) ELSE key[e[1]]
    BY <1>1, <1>2
  <1> QED
    BY <1>1, <1>2, <1>3, <1>4 DEF SendHello, KeepsKey

LEMMA TakesEffect ==
    ASSUME TypeOK, NEW e \in Ends, NEW w \in Worker, Takes(e, w)
    PROVE  /\ \A f \in Ends : f # e => wire'[f] = wire[f] /\ late'[f] = late[f]
           /\ w = "live" => /\ open[e] /\ wire[e] # <<>> /\ wire'[e] = Tail(wire[e])
                            /\ late'[e] = late[e]
           /\ w = "lost" => late[e] # <<>> /\ wire'[e] = wire[e]
           /\ worker[e][w] = Idle
  <1>1. wire \in [Ends -> Seq(Message)] /\ late \in [Ends -> Seq(Message)]
    BY DEF TypeOK
  <1>2. CASE w = "live"
    <2>1. wire' = [wire EXCEPT ![e] = Tail(wire[e])] /\ late' = late /\ open[e] /\ wire[e] # <<>>
      BY <1>2 DEF Takes, Queue
    <2> QED
      BY <1>1, <1>2, <2>1 DEF Takes
  <1>3. CASE w = "lost"
    <2>1. late' = [late EXCEPT ![e] = Tail(late[e])] /\ wire' = wire /\ late[e] # <<>>
      BY <1>3 DEF Takes, Queue
    <2> QED
      BY <1>1, <1>3, <2>1 DEF Takes
  <1> QED
    BY <1>2, <1>3 DEF Worker

LEMMA ConnectionFrame ==
    ASSUME TypeOK, NEW e \in Ends,
           Connect(e) \/ Open(e) \/ OpenFails(e) \/ Close(e) \/ CooldownEnds(e)
    PROVE  Elsewhere(e) /\ KeepsKey(e)
  <1>0. Back(e) \in Ends /\ Back(e) # e
    BY EndsFacts
  <1>1. CASE Connect(e)
    BY <1>0, <1>1 DEF Connect, Elsewhere, KeepsKey, TypeOK, memory, marks, history
  <1>2. CASE Open(e)
    <2>1. SendHello(e)
      BY <1>2 DEF Open
    <2>2. /\ KeepsKey(e) /\ \A p \in Peer : p # e[1] => key'[p] = key[p]
          /\ \A f \in Ends : f # Back(e) => wire'[f] = wire[f]
      BY <2>1, HelloEffect, PutEffect
    <2>3. \A f \in Ends : f # e => opening'[f] = opening[f] /\ open'[f] = open[f] /\ clean'[f] = clean[f]
      BY <1>2 DEF Open, TypeOK
    <2>4. UNCHANGED <<late, worker, session, disk, legacy, ready, inFlight>>
      BY <1>2 DEF Open, memory, marks
    <2> QED
      BY <2>2, <2>3, <2>4 DEF Elsewhere
  <1>3. CASE OpenFails(e)
    BY <1>3 DEF OpenFails, Elsewhere, KeepsKey, TypeOK, memory, marks, history
  <1>4. CASE Close(e)
    <2>1. \A f \in Ends : f # e => late'[f] = late[f] /\ worker'[f] = worker[f]
      BY <1>4 DEF Close, Abandon, TypeOK
    <2>2. \A f \in Ends : f # e =>
            /\ open'[f] = open[f] /\ wire'[f] = wire[f] /\ legacy'[f] = legacy[f]
            /\ ready'[f] = ready[f] /\ inFlight'[f] = inFlight[f] /\ clean'[f] = clean[f]
      BY <1>4 DEF Close, TypeOK
    <2>3. UNCHANGED <<opening, key, session, disk>>
      BY <1>4 DEF Close
    <2> QED
      BY <2>1, <2>2, <2>3 DEF Elsewhere, KeepsKey
  <1>5. CASE CooldownEnds(e)
    BY <1>5 DEF CooldownEnds, Elsewhere, KeepsKey, connection, memory, history
  <1> QED
    BY <1>1, <1>2, <1>3, <1>4, <1>5

LEMMA HandshakeFrame ==
    ASSUME TypeOK, NEW e \in Ends, NEW w \in Worker, Handshake(e, w)
    PROVE  Elsewhere(e) /\ (~ Store(e, w) \/ IsAlice(e) => KeepsKey(e))
  <1>0. Back(e) \in Ends /\ Back(e) # e /\ e[1] \in Peer
    BY EndsFacts
  <1>1. CASE HelloTaken(e, w) \/ HelloDropped(e, w)
    <2>1. \A f \in Ends : f # e => wire'[f] = wire[f] /\ late'[f] = late[f]
      BY <1>1, TakesEffect DEF HelloTaken, HelloDropped, TakesHello
    <2>2. UNCHANGED <<opening, open, key, ready, clean>>
      BY <1>1 DEF HelloTaken, HelloDropped, marks, history
    <2>3. \A f \in Ends : f # e =>
            /\ worker'[f] = worker[f] /\ session'[f] = session[f] /\ disk'[f] = disk[f]
            /\ legacy'[f] = legacy[f] /\ inFlight'[f] = inFlight[f]
      <3>1. CASE HelloTaken(e, w)
        BY <3>1 DEF HelloTaken, TypeOK, memory
      <3>2. CASE HelloDropped(e, w)
        BY <3>2 DEF HelloDropped, memory, marks
      <3> QED
        BY <1>1, <3>1, <3>2
    <2> QED
      BY <2>1, <2>2, <2>3 DEF Elsewhere, KeepsKey
  <1>2. CASE Look(e, w)
    BY <1>2 DEF Look, Goes, Elsewhere, KeepsKey, TypeOK, connection, marks, history
  <1>3. CASE Derive(e, w)
    BY <1>3 DEF Derive, Elsewhere, KeepsKey, TypeOK, connection, marks, history
  <1>4. CASE Store(e, w)
    <2>1. \A f \in Ends : f # e =>
            worker'[f] = worker[f] /\ session'[f] = session[f] /\ disk'[f] = disk[f]
      BY <1>4 DEF Store, Goes, TypeOK
    <2>2. UNCHANGED <<opening, open, wire, late, legacy, ready, inFlight, clean>>
      BY <1>4 DEF Store, connection, marks, history
    <2>3. /\ \A p \in Peer : p # e[1] => key'[p] = key[p]
          /\ IsAlice(e) => key' = key
      BY <1>4 DEF Store, TypeOK
    <2> QED
      BY <1>4, <2>1, <2>2, <2>3 DEF Elsewhere, KeepsKey
  <1>5. CASE Finish(e, w)
    <2>1. /\ KeepsKey(e) /\ \A p \in Peer : p # e[1] => key'[p] = key[p]
          /\ \A f \in Ends : f # Back(e) => wire'[f] = wire[f]
      <3>1. CASE SendHello(e)
        BY <3>1, HelloEffect, PutEffect
      <3>2. CASE UNCHANGED <<key, keys, wire>>
        BY <3>2 DEF KeepsKey
      <3> QED
        BY <1>5, <3>1, <3>2 DEF Finish
    <2>2. UNCHANGED <<opening, open, late, session, disk, legacy, clean>>
      BY <1>5 DEF Finish, memory, history
    <2>3. \A f \in Ends : f # e =>
            worker'[f] = worker[f] /\ ready'[f] = ready[f] /\ inFlight'[f] = inFlight[f]
      BY <1>5 DEF Finish, TypeOK
    <2> QED
      BY <2>1, <2>2, <2>3 DEF Elsewhere
  <1> QED
    BY <1>1, <1>2, <1>3, <1>4, <1>5 DEF Handshake

LEMMA MessageFrame ==
    ASSUME TypeOK, NEW e \in Ends,
           \/ Send(e) \/ SendOffline(e) \/ Flush(e)
           \/ \E w \in Worker : Decrypt(e, w) \/ DecryptFails(e, w)
    PROVE  Elsewhere(e) /\ KeepsKey(e)
  <1>0. Back(e) \in Ends /\ Back(e) # e
    BY EndsFacts
  <1>1. CASE Send(e)
    <2>1. PICK m : /\ Encrypt(e, session[e], m)
                   /\ Put(e, <<m>>) \/ UNCHANGED wire
      BY <1>1 DEF Send
    <2>2. \A f \in Ends : f # Back(e) => wire'[f] = wire[f]
      BY <2>1, PutEffect
    <2>3. \A f \in Ends : f # e => disk'[f] = disk[f]
      BY <2>1 DEF Encrypt, TypeOK
    <2>4. UNCHANGED <<opening, open, late, worker, key, session, legacy, ready, inFlight, clean>>
      BY <1>1 DEF Send, marks, history
    <2> QED
      BY <2>2, <2>3, <2>4 DEF Elsewhere, KeepsKey
  <1>2. CASE SendOffline(e)
    <2> DEFINE s == IF session[e].there THEN session[e] ELSE disk[e]
    <2>1. PICK m : Encrypt(e, s, m) /\ session' = [session EXCEPT ![e] = s]
      BY <1>2 DEF SendOffline
    <2> HIDE DEF s
    <2>3. \A f \in Ends : f # e => disk'[f] = disk[f] /\ session'[f] = session[f]
      BY <2>1 DEF Encrypt, TypeOK
    <2>4. UNCHANGED <<opening, open, wire, late, worker, key, legacy, ready, inFlight, clean>>
      BY <1>2 DEF SendOffline, connection, marks, history
    <2> QED
      BY <2>3, <2>4 DEF Elsewhere, KeepsKey
  <1>3. CASE Flush(e)
    <2>1. \A f \in Ends : f # Back(e) => wire'[f] = wire[f]
      BY <1>3, PutEffect DEF Flush
    <2>2. UNCHANGED <<opening, open, late, worker, key, session, disk, legacy, ready, inFlight, clean>>
      BY <1>3 DEF Flush, memory, marks, history
    <2> QED
      BY <2>1, <2>2 DEF Elsewhere, KeepsKey
  <1>4. ASSUME NEW w \in Worker, Decrypt(e, w) \/ DecryptFails(e, w)
        PROVE  Elsewhere(e) /\ KeepsKey(e)
    <2>1. \A f \in Ends : f # e => wire'[f] = wire[f] /\ late'[f] = late[f]
      BY <1>4, TakesEffect DEF Decrypt, DecryptFails, TakesMessage
    <2>2. UNCHANGED <<opening, open, worker, key, ready, inFlight>>
      BY <1>4 DEF Decrypt, DecryptFails, marks
    <2>3. \A f \in Ends : f # e =>
            /\ session'[f] = session[f] /\ disk'[f] = disk[f] /\ legacy'[f] = legacy[f]
            /\ clean'[f] = clean[f]
      <3>1. CASE Decrypt(e, w)
        BY <3>1 DEF Decrypt, Unless, TypeOK
      <3>2. CASE DecryptFails(e, w)
        BY <3>2 DEF DecryptFails, Unless, TypeOK
      <3> QED
        BY <1>4, <3>1, <3>2
    <2> QED
      BY <2>1, <2>2, <2>3 DEF Elsewhere, KeepsKey
  <1> QED
    BY <1>1, <1>2, <1>3, <1>4

-----------------------------------------------------------------------------
(* What an action does at its end                                          *)

LEMMA ConnectEffect ==
    ASSUME TypeOK, NEW e \in Ends, Connect(e)
    PROVE  /\ Gone(e) /\ Gone(Back(e))
           /\ opening'[e] /\ opening'[Back(e)]
           /\ UNCHANGED <<open, wire, late, worker, key, session, disk, legacy, ready, inFlight,
                          clean, failed>>
  <1>1. Back(e) \in Ends
    BY EndsFacts
  <1> QED
    BY <1>1 DEF Connect, TypeOK, memory, marks, history

LEMMA OpenEffect ==
    ASSUME TypeOK, NEW e \in Ends, Open(e)
    PROVE  /\ opening[e] /\ ~ opening'[e] /\ opening'[Back(e)] = opening[Back(e)] /\ open'[e]
           /\ wire'[e] = wire[e]
           /\ wire'[Back(e)] = IF Gone(Back(e)) THEN wire[Back(e)]
                               ELSE wire[Back(e)] \o <<Hello(key'[e[1]])>>
           /\ key'[e[1]] \in Keys \ {None}
           /\ clean'[e] = Quiet(e)
           /\ UNCHANGED <<late, worker, session, disk, legacy, ready, inFlight, failed>>
  <1>1. SendHello(e)
    BY DEF Open
  <1>2. Back(e) \in Ends /\ Back(e) # e
    BY EndsFacts
  <1>3. /\ opening[e] /\ ~ opening'[e] /\ opening'[Back(e)] = opening[Back(e)] /\ open'[e]
        /\ clean'[e] = Quiet(e)
    BY <1>2 DEF Open, TypeOK
  <1> QED
    BY <1>1, <1>2, <1>3, HelloEffect, PutEffect DEF Open, memory, marks

LEMMA OpenFailsEffect ==
    ASSUME TypeOK, NEW e \in Ends, OpenFails(e)
    PROVE  /\ opening[e] /\ ~ opening'[e] /\ ~ opening[Back(e)]
           /\ opening'[Back(e)] = opening[Back(e)]
           /\ wire'[e] = <<>> /\ wire'[Back(e)] = wire[Back(e)]
           /\ UNCHANGED <<open, late, worker, key, session, disk, legacy, ready, inFlight, clean, failed>>
  <1>2. Back(e) \in Ends /\ Back(e) # e
    BY EndsFacts
  <1> QED
    BY <1>2 DEF OpenFails, TypeOK, memory, marks, history

LEMMA CloseEffect ==
    ASSUME TypeOK, NEW e \in Ends, Close(e)
    PROVE  /\ open[e] /\ ~ open'[e] /\ wire'[e] = <<>> /\ wire'[Back(e)] = wire[Back(e)]
           /\ ~ inFlight'[e] /\ ~ clean'[e]
           /\ worker'[e] = IF worker[e]["live"] = Idle THEN worker[e] ELSE Moved(e)
           /\ UNCHANGED <<opening, key, session, disk, failed>>
  <1>1. Abandon(e)
    BY DEF Close
  <1>2. worker' = [worker EXCEPT ![e] = IF worker[e]["live"] = Idle THEN worker[e] ELSE Moved(e)]
    BY <1>1 DEF Abandon, Moved
  <1>3. Back(e) \in Ends /\ Back(e) # e
    BY EndsFacts
  <1>4. worker'[e] = IF worker[e]["live"] = Idle THEN worker[e] ELSE Moved(e)
    BY <1>2 DEF TypeOK
  <1> QED
    BY <1>3, <1>4 DEF Close, TypeOK

LEMMA RestartEffect ==
    ASSUME TypeOK, NEW p \in Peer, Restart(p)
    PROVE  /\ \A f \in Ends : f[1] = p =>
                /\ ~ opening'[f] /\ ~ open'[f] /\ wire'[f] = <<>> /\ ~ inFlight'[f] /\ ~ clean'[f]
                /\ worker'[f] = [w \in Worker |-> Idle]
           /\ \A f \in Ends : f[1] # p =>
                /\ opening'[f] = opening[f] /\ open'[f] = open[f] /\ wire'[f] = wire[f]
                /\ late'[f] = late[f] /\ worker'[f] = worker[f]
                /\ session'[f] = session[f] /\ disk'[f] = disk[f] /\ legacy'[f] = legacy[f]
                /\ ready'[f] = ready[f] /\ inFlight'[f] = inFlight[f] /\ clean'[f] = clean[f]
           /\ \A q \in Peer : q # p => key'[q] = key[q]
           /\ failed' = failed
  BY DEF Restart, Wiped, TypeOK

-----------------------------------------------------------------------------
(* What holds of every end by itself                                       *)

\* The stage of an end in its connection.
Pc(e) == worker[e]["live"].pc
NotStarted(e) == Pc(e) = "idle" /\ ~ ready[e]
Takes1(e) == ~ ready[e] /\ Pc(e) \in {"look", "derive"}
Stores(e) == ~ ready[e] /\ Pc(e) = "store"
Post(e) == ready[e] \/ Pc(e) = "finish"

\* What holds of every end by itself.
Alone(e) ==
    /\ open[e] => ~ opening[e]
    /\ ~ open[e] => worker[e]["live"] = Idle /\ ~ clean[e]
    /\ Gone(e) => wire[e] = <<>>
    /\ opening[e] => wire[Back(e)] = <<>>
    /\ inFlight[e] => \E w \in Worker : worker[e][w] # Idle
    /\ \A w \in Worker : worker[e][w].pc = "idle" => worker[e][w] = Idle

LEMMA AloneElsewhere ==
    ASSUME NEW e \in Ends, NEW f \in Ends, f # e, f # Back(e), Alone(f), Elsewhere(e)
    PROVE  Alone(f)'
  <1>1. Back(f) \in Ends /\ Back(f) # e /\ Back(f) # Back(e)
    BY EndsFacts
  <1> QED
    BY <1>1 DEF Elsewhere, Alone, Gone

LEMMA AloneConnections ==
    ASSUME TypeOK, NEW e \in Ends, Alone(e), Alone(Back(e)),
           Connect(e) \/ Open(e) \/ OpenFails(e) \/ Close(e) \/ CooldownEnds(e)
    PROVE  Alone(e)' /\ Alone(Back(e))'
  <1> DEFINE o == Back(e)
  <1>0. o \in Ends /\ o # e /\ Back(o) = e
    BY EndsFacts
  <1>f. Elsewhere(e)
    BY ConnectionFrame
  <1>g. /\ open'[o] = open[o] /\ worker'[o] = worker[o] /\ inFlight'[o] = inFlight[o]
        /\ clean'[o] = clean[o]
    BY <1>0, <1>f DEF Elsewhere
  <1>1. CASE Connect(e)
    BY <1>0, <1>1, ConnectEffect DEF Alone, Gone
  <1>2. CASE Open(e)
    <2>1. /\ opening[e] /\ ~ opening'[e] /\ opening'[o] = opening[o] /\ open'[e]
          /\ wire'[e] = wire[e]
          /\ Gone(o) => wire'[o] = wire[o]
          /\ UNCHANGED <<worker, inFlight>>
      BY <1>2, OpenEffect
    <2>2. ~ opening[o] \/ wire[e] = <<>>
      BY <1>0 DEF Alone
    <2>3. Alone(e)'
      BY <1>0, <2>1, <2>2 DEF Alone, Gone
    <2>4. Alone(o)'
      BY <1>0, <1>g, <2>1, <2>2 DEF Alone, Gone
    <2> QED
      BY <2>3, <2>4
  <1>3. CASE OpenFails(e)
    BY <1>0, <1>f, <1>3, OpenFailsEffect DEF Alone, Gone, Elsewhere
  <1>4. CASE Close(e)
    <2>1. \A w \in Worker : worker[e][w].pc = "idle" => worker[e][w] = Idle
      BY DEF Alone
    <2>2. /\ worker'[e]["live"] = Idle
          /\ \A w \in Worker : worker'[e][w].pc = "idle" => worker'[e][w] = Idle
      <3>1. CASE worker[e]["live"] = Idle
        BY <1>4, <2>1, <3>1, CloseEffect
      <3>2. CASE worker[e]["live"] # Idle
        <4>1. worker'[e] = [w \in Worker |-> IF w = "lost" THEN worker[e]["live"] ELSE Idle]
          BY <1>4, <3>2, CloseEffect DEF Moved
        <4>2. "live" \in Worker
          BY DEF Worker
        <4> QED
          BY <2>1, <4>1, <4>2
      <3> QED
        BY <3>1, <3>2
    <2>3. /\ open[e] /\ ~ open'[e] /\ wire'[e] = <<>> /\ wire'[o] = wire[o]
          /\ ~ inFlight'[e] /\ ~ clean'[e] /\ opening' = opening
      BY <1>4, CloseEffect
    <2>4. Alone(e)'
      BY <1>0, <2>2, <2>3 DEF Alone, Gone
    <2>5. Alone(o)'
      BY <1>0, <1>g, <2>3 DEF Alone, Gone
    <2> QED
      BY <2>4, <2>5
  <1>5. CASE CooldownEnds(e)
    BY <1>0, <1>5 DEF Alone, Gone, CooldownEnds, connection, history
  <1> QED
    BY <1>1, <1>2, <1>3, <1>4, <1>5

LEMMA AloneRestart ==
    ASSUME TypeOK, NEW p \in Peer, Restart(p), NEW f \in Ends, Alone(f)
    PROVE  Alone(f)'
  <1>0. Back(f) \in Ends /\ Back(f)[1] = f[2]
    BY EndsFacts
  <1>1. CASE f[1] = p
    BY <1>1, RestartEffect DEF Alone, Gone, Worker
  <1>2. CASE f[1] # p
    <2>1. opening[f] => wire'[Back(f)] = <<>>
      BY <1>0, <1>2, RestartEffect DEF Alone
    <2> QED
      BY <1>2, <2>1, RestartEffect DEF Alone, Gone
  <1> QED
    BY <1>1, <1>2

-----------------------------------------------------------------------------
(* What a handler does at its end                                          *)

LEMMA HelloTakenEffect ==
    ASSUME TypeOK, NEW e \in Ends, NEW w \in Worker, HelloTaken(e, w)
    PROVE  /\ Takes(e, w) /\ Head(Queue(e, w)).kind = "hello"
           /\ worker'[e][w] = [Idle EXCEPT !.pc = "look", !.key = Head(Queue(e, w)).a]
           /\ \A v \in Worker : v # w => worker'[e][v] = worker[e][v]
           /\ IF AlreadyReady(e)
              THEN session'[e] = session[e] /\ disk'[e] = disk[e] /\ legacy'[e] = legacy[e]
              ELSE session'[e] = NoSession /\ disk'[e] = NoSession
           /\ UNCHANGED <<opening, open, key, ready, clean, failed>>
  <1>0. PICK x : /\ x = [Idle EXCEPT !.pc = "look", !.key = Head(Queue(e, w)).a]
                 /\ worker' = [worker EXCEPT ![e][w] = x]
    BY DEF HelloTaken
  <1>1. worker'[e][w] = x /\ \A v \in Worker : v # w => worker'[e][v] = worker[e][v]
    BY <1>0 DEF TypeOK
  <1>2. CASE AlreadyReady(e)
    BY <1>0, <1>1, <1>2 DEF HelloTaken, TakesHello, memory, history
  <1>3. CASE ~ AlreadyReady(e)
    <2>1. session'[e] = NoSession /\ disk'[e] = NoSession
      BY <1>3 DEF HelloTaken, TypeOK
    <2> QED
      BY <1>0, <1>1, <1>3, <2>1 DEF HelloTaken, TakesHello, history
  <1> QED
    BY <1>2, <1>3

LEMMA HelloDroppedEffect ==
    ASSUME TypeOK, NEW e \in Ends, NEW w \in Worker, HelloDropped(e, w)
    PROVE  /\ Takes(e, w) /\ inFlight[e]
           /\ UNCHANGED <<opening, open, worker, key, session, disk, legacy, ready, inFlight, clean,
                          failed>>
  BY DEF HelloDropped, TakesHello, memory, marks, history

LEMMA LookEffect ==
    ASSUME TypeOK, NEW e \in Ends, NEW w \in Worker, Look(e, w)
    PROVE  /\ worker[e][w].pc = "look"
           /\ session'[e] = IF session[e].there THEN session[e] ELSE disk[e]
           /\ session[e].there \/ disk[e].there => worker'[e][w] = [Idle EXCEPT !.pc = "finish"]
           /\ ~ session[e].there /\ ~ disk[e].there =>
                /\ worker'[e][w].pc = "derive" /\ worker'[e][w].key = worker[e][w].key
           /\ \A v \in Worker : v # w => worker'[e][v] = worker[e][v]
           /\ UNCHANGED <<opening, open, wire, late, key, disk, legacy, ready, inFlight, clean, failed>>
  <1>1. session'[e] = IF session[e].there THEN session[e] ELSE disk[e]
    BY DEF Look, TypeOK
  <1>2. CASE session[e].there \/ disk[e].there
    <2>1. PICK x : x = [Idle EXCEPT !.pc = "finish"] /\ worker' = [worker EXCEPT ![e][w] = x]
      BY <1>2 DEF Look, Goes
    <2>2. worker'[e][w] = x /\ \A v \in Worker : v # w => worker'[e][v] = worker[e][v]
      BY <2>1 DEF TypeOK
    <2> QED
      BY <1>1, <1>2, <2>1, <2>2 DEF Look, connection, marks, history
  <1>3. CASE ~ session[e].there /\ ~ disk[e].there
    <2>1. PICK x : x = [worker[e][w] EXCEPT !.pc = "derive"] /\ worker' = [worker EXCEPT ![e][w] = x]
      BY <1>3 DEF Look
    <2>2. worker[e][w] \in WorkerType
      BY DEF TypeOK
    <2>3. [worker[e][w] EXCEPT !.pc = "derive"].pc = "derive"
      BY <2>2 DEF WorkerType
    <2>4. [worker[e][w] EXCEPT !.pc = "derive"].key = worker[e][w].key
      BY <2>2 DEF WorkerType
    <2>5. worker'[e][w] = x /\ \A v \in Worker : v # w => worker'[e][v] = worker[e][v]
      BY <2>1 DEF TypeOK
    <2> QED
      BY <1>1, <1>3, <2>1, <2>3, <2>4, <2>5 DEF Look, connection, marks, history
  <1> QED
    BY <1>2, <1>3

LEMMA DeriveEffect ==
    ASSUME TypeOK, NEW e \in Ends, NEW w \in Worker, Derive(e, w)
    PROVE  /\ worker[e][w].pc = "derive" /\ worker'[e][w].pc = "store"
           /\ worker'[e][w].new.there /\ worker'[e][w].new.sound
           /\ IsAlice(e) => worker'[e][w].new.theirs = worker[e][w].key
           /\ ~ IsAlice(e) => worker'[e][w].new = Made(key[e[1]], None)
           /\ legacy'[e]
           /\ \A v \in Worker : v # w => worker'[e][v] = worker[e][v]
           /\ UNCHANGED <<opening, open, wire, late, key, session, disk, ready, inFlight, clean, failed>>
  <1> DEFINE new == IF IsAlice(e) THEN Made(NewKey(e[1]), worker[e][w].key)
                                  ELSE Made(key[e[1]], None)
  <1>1. PICK x : /\ x = [worker[e][w] EXCEPT !.pc = "store", !.new = new]
                 /\ worker' = [worker EXCEPT ![e][w] = x]
    BY DEF Derive
  <1>2. worker[e][w] \in WorkerType
    BY DEF TypeOK
  <1>3. new.there /\ new.sound /\ (IsAlice(e) => new.theirs = worker[e][w].key)
    BY DEF Made
  <1>4. ~ IsAlice(e) => new = Made(key[e[1]], None)
    OBVIOUS
  <1> HIDE DEF new
  <1>5. /\ [worker[e][w] EXCEPT !.pc = "store", !.new = new].pc = "store"
        /\ [worker[e][w] EXCEPT !.pc = "store", !.new = new].new = new
    BY ONLY <1>2 DEF WorkerType
  <1>6. worker'[e][w] = x /\ \A v \in Worker : v # w => worker'[e][v] = worker[e][v]
    BY <1>1 DEF TypeOK
  <1>7. worker'[e][w].pc = "store" /\ worker'[e][w].new = new
    BY <1>1, <1>5, <1>6
  <1>8. legacy'[e]
    BY DEF Derive, TypeOK
  <1> QED
    BY <1>3, <1>4, <1>6, <1>7, <1>8 DEF Derive, connection, marks, history

LEMMA StoreEffect ==
    ASSUME TypeOK, NEW e \in Ends, NEW w \in Worker, Store(e, w)
    PROVE  /\ worker[e][w].pc = "store" /\ worker'[e][w] = [Idle EXCEPT !.pc = "finish"]
           /\ session'[e] = worker[e][w].new
           /\ \A v \in Worker : v # w => worker'[e][v] = worker[e][v]
           /\ UNCHANGED <<opening, open, wire, late, legacy, ready, inFlight, clean, failed>>
  <1>0. PICK x : x = [Idle EXCEPT !.pc = "finish"] /\ worker' = [worker EXCEPT ![e][w] = x]
    BY DEF Store, Goes
  <1>1. worker'[e][w] = x /\ \A v \in Worker : v # w => worker'[e][v] = worker[e][v]
    BY <1>0 DEF TypeOK
  <1>2. session'[e] = worker[e][w].new
    BY DEF Store, TypeOK
  <1> QED
    BY <1>0, <1>1, <1>2 DEF Store, connection, marks, history

LEMMA FinishEffect ==
    ASSUME TypeOK, NEW e \in Ends, NEW w \in Worker, Finish(e, w)
    PROVE  /\ worker[e][w].pc = "finish" /\ worker'[e][w] = Idle /\ ready'[e] /\ ~ inFlight'[e]
           /\ \A v \in Worker : v # w => worker'[e][v] = worker[e][v]
           /\ wire'[e] = wire[e]
           /\ \/ wire'[Back(e)] = wire[Back(e)]
              \/ open[e] /\ ~ Gone(Back(e)) /\ wire'[Back(e)] = wire[Back(e)] \o <<Hello(key'[e[1]])>>
           /\ key'[e[1]] \in Keys
           /\ UNCHANGED <<opening, open, late, session, disk, legacy, clean, failed>>
  <1>0. Back(e) \in Ends /\ Back(e) # e /\ e[1] \in Peer
    BY EndsFacts
  <1>1. worker' = [worker EXCEPT ![e][w] = Idle]
    BY DEF Finish
  <1>2. /\ wire'[e] = wire[e] /\ key'[e[1]] \in Keys
        /\ \/ wire'[Back(e)] = wire[Back(e)]
           \/ open[e] /\ ~ Gone(Back(e)) /\ wire'[Back(e)] = wire[Back(e)] \o <<Hello(key'[e[1]])>>
    <2>1. CASE open[e] /\ SendHello(e)
      BY <1>0, <2>1, HelloEffect, PutEffect
    <2>2. CASE UNCHANGED <<key, keys, wire>>
      BY <1>0, <2>2 DEF TypeOK
    <2> QED
      BY <2>1, <2>2 DEF Finish
  <1>3. ready'[e] /\ ~ inFlight'[e]
    BY DEF Finish, TypeOK
  <1>4. UNCHANGED <<opening, open, late, session, disk, legacy, clean, failed>>
    BY DEF Finish, memory, history
  <1>5. worker[e][w].pc = "finish"
    BY DEF Finish
  <1>6. worker'[e][w] = Idle /\ \A v \in Worker : v # w => worker'[e][v] = worker[e][v]
    BY <1>1 DEF TypeOK
  <1> QED
    BY <1>2, <1>3, <1>4, <1>5, <1>6

-----------------------------------------------------------------------------
(* What a message does at its end                                          *)

LEMMA SendEffect ==
    ASSUME TypeOK, NEW e \in Ends, Send(e)
    PROVE  /\ ready[e] /\ wire'[e] = wire[e]
           /\ \E m \in {Sealed(e, session[e]), Legacy} :
                /\ HasSendChain(e, session[e]) \/ m = Legacy
                /\ \/ wire'[Back(e)] = wire[Back(e)]
                   \/ open[e] /\ ~ Gone(Back(e)) /\ wire'[Back(e)] = wire[Back(e)] \o <<m>>
           /\ UNCHANGED <<opening, open, late, worker, key, session, legacy, ready, inFlight, clean,
                          failed>>
  <1>0. Back(e) \in Ends /\ Back(e) # e
    BY EndsFacts
  <1>1. PICK m \in {Sealed(e, session[e]), Legacy} :
            /\ Encrypt(e, session[e], m)
            /\ (open[e] /\ Put(e, <<m>>)) \/ UNCHANGED wire
    BY DEF Send
  <1>2. HasSendChain(e, session[e]) \/ m = Legacy
    BY <1>1 DEF Encrypt
  <1>3. /\ wire'[e] = wire[e]
        /\ \/ wire'[Back(e)] = wire[Back(e)]
           \/ open[e] /\ ~ Gone(Back(e)) /\ wire'[Back(e)] = wire[Back(e)] \o <<m>>
    BY <1>0, <1>1, PutEffect
  <1>4. /\ ready[e]
        /\ UNCHANGED <<opening, open, late, worker, key, session, legacy, ready, inFlight, clean,
                       failed>>
    BY DEF Send, marks, history
  <1> QED
    BY <1>2, <1>3, <1>4

LEMMA SendOfflineEffect ==
    ASSUME TypeOK, NEW e \in Ends, SendOffline(e)
    PROVE  /\ ~ ready[e]
           /\ session'[e] = Used(e)
           /\ disk'[e] = disk[e] \/ (session[e].there \/ disk[e].there)
           /\ UNCHANGED <<opening, open, wire, late, worker, key, legacy, ready, inFlight, clean,
                          failed>>
  <1>1. PICK m : Encrypt(e, Used(e), m) /\ session' = [session EXCEPT ![e] = Used(e)]
    BY DEF SendOffline, Used
  <1>2. session'[e] = Used(e)
    BY <1>1 DEF TypeOK
  <1>3. disk' = disk \/ HasSendChain(e, Used(e))
    BY <1>1 DEF Encrypt
  <1>4. disk'[e] = disk[e] \/ session[e].there \/ disk[e].there
    BY <1>3 DEF HasSendChain, Used
  <1> QED
    BY <1>2, <1>4 DEF SendOffline, connection, marks, history

LEMMA FlushEffect ==
    ASSUME TypeOK, NEW e \in Ends, Flush(e)
    PROVE  /\ ready[e] /\ open[e] /\ wire'[e] = wire[e]
           /\ \/ wire'[Back(e)] = wire[Back(e)]
              \/ \E q \in Seq(Message) : /\ ~ Gone(Back(e)) /\ wire'[Back(e)] = wire[Back(e)] \o q
                                         /\ \A i \in DOMAIN q : q[i].queued
           /\ UNCHANGED <<opening, open, late, worker, key, session, disk, legacy, ready, inFlight,
                          clean, failed>>
  <1> DEFINE q == [i \in DOMAIN outbox[e] |-> [outbox[e][i] EXCEPT !.queued = TRUE]]
  <1>0. Back(e) \in Ends /\ Back(e) # e
    BY EndsFacts
  <1>1. outbox[e] \in Seq(Message)
    BY DEF TypeOK
  <1>2. \A m \in Message : [m EXCEPT !.queued = TRUE] \in Message /\ [m EXCEPT !.queued = TRUE].queued
    BY DEF Message
  <1>3. \A i \in DOMAIN outbox[e] : outbox[e][i] \in Message
    BY <1>1
  <1>4. DOMAIN outbox[e] = 1..Len(outbox[e]) /\ Len(outbox[e]) \in Nat
    BY <1>1
  <1>5. q \in Seq(Message)
    BY <1>2, <1>3, <1>4
  <1>6. \A i \in DOMAIN q : q[i].queued
    BY <1>2, <1>3
  <1>7. Put(e, q)
    BY DEF Flush
  <1> HIDE DEF q
  <1>8. /\ wire'[e] = wire[e]
        /\ wire'[Back(e)] = IF Gone(Back(e)) THEN wire[Back(e)] ELSE wire[Back(e)] \o q
    BY <1>0, <1>7, PutEffect
  <1>9. /\ ready[e] /\ open[e]
        /\ UNCHANGED <<opening, open, late, worker, key, session, disk, legacy, ready, inFlight,
                       clean, failed>>
    BY DEF Flush, memory, marks, history
  <1> QED
    BY <1>5, <1>6, <1>8, <1>9

LEMMA DecryptEffect ==
    ASSUME TypeOK, NEW e \in Ends, NEW w \in Worker, Decrypt(e, w)
    PROVE  /\ Takes(e, w) /\ Head(Queue(e, w)).kind # "hello" /\ Opens(e, Head(Queue(e, w)))
           /\ \/ Head(Queue(e, w)).kind = "legacy" /\ session'[e] = session[e] /\ disk'[e] = disk[e]
              \/ /\ Head(Queue(e, w)).kind # "legacy"
                 /\ Used(e).there
                 /\ session'[e] = [Used(e) EXCEPT !.theirs = IF IsAlice(e) THEN @
                                                             ELSE Head(Queue(e, w)).a]
           /\ clean'[e] = (clean[e] /\ ~ Head(Queue(e, w)).queued)
           /\ UNCHANGED <<opening, open, worker, key, legacy, ready, inFlight, failed>>
  <1> DEFINE m == Head(Queue(e, w))
             s == [Used(e) EXCEPT !.theirs = IF IsAlice(e) THEN @ ELSE m.a]
  <1>1. Takes(e, w) /\ m.kind # "hello" /\ Opens(e, m)
    BY DEF Decrypt, TakesMessage
  <1>2. m \in Message
    BY <1>1, TakesType
  <1>3. m.queued \in BOOLEAN
    BY <1>2 DEF Message
  <1>4. clean' = Unless(m.queued, e)
    BY DEF Decrypt
  <1>5. clean'[e] = (clean[e] /\ ~ m.queued)
    BY <1>3, <1>4 DEF Unless, TypeOK
  <1>6. CASE m.kind = "legacy"
    <2>1. session'[e] = session[e] /\ disk'[e] = disk[e]
      BY <1>6 DEF Decrypt
    <2> QED
      BY <1>1, <1>5, <1>6, <2>1 DEF Decrypt, marks
  <1>7. CASE m.kind # "legacy"
    <2>1. session' = [session EXCEPT ![e] = s]
      BY <1>7 DEF Decrypt
    <2>2. session'[e] = s
      BY <2>1 DEF TypeOK
    <2>3. Used(e).there
      BY <1>1, <1>7 DEF Opens
    <2> QED
      BY <1>1, <1>5, <1>7, <2>2, <2>3 DEF Decrypt, marks
  <1> QED
    BY <1>6, <1>7

LEMMA DecryptFailsEffect ==
    ASSUME TypeOK, NEW e \in Ends, NEW w \in Worker, DecryptFails(e, w)
    PROVE  /\ Takes(e, w) /\ Head(Queue(e, w)).kind # "hello" /\ ~ Opens(e, Head(Queue(e, w)))
           /\ \/ Head(Queue(e, w)).kind = "legacy" /\ session'[e] = session[e]
              \/ session'[e] = [Used(e) EXCEPT !.sound = FALSE]
           /\ clean'[e] = (clean[e] /\ ~ Head(Queue(e, w)).queued)
           /\ failed' \subseteq failed \cup {"queued", "stale"} \cup
                (IF ~ Head(Queue(e, w)).queued /\ w = "live" /\ clean[e] /\ clean[Back(e)]
                 THEN {"fresh"} ELSE {})
           /\ UNCHANGED <<opening, open, worker, key, disk, ready, inFlight>>
  <1> DEFINE m == Head(Queue(e, w))
  <1>1. Takes(e, w) /\ m.kind # "hello" /\ ~ Opens(e, m)
    BY DEF DecryptFails, TakesMessage
  <1>2. m \in Message
    BY <1>1, TakesType
  <1>3. m.queued \in BOOLEAN
    BY <1>2 DEF Message
  <1>4. clean' = Unless(m.queued, e)
    BY DEF DecryptFails
  <1>5. clean'[e] = (clean[e] /\ ~ m.queued)
    BY <1>3, <1>4 DEF Unless, TypeOK
  <1>6. \/ m.kind = "legacy" /\ session'[e] = session[e]
        \/ session'[e] = [Used(e) EXCEPT !.sound = FALSE]
    BY DEF DecryptFails, TypeOK
  <1>7. failed' \subseteq failed \cup {"queued", "stale"} \cup
                (IF ~ m.queued /\ w = "live" /\ clean[e] /\ clean[Back(e)] THEN {"fresh"} ELSE {})
    BY DEF DecryptFails
  <1>8. UNCHANGED <<opening, open, worker, key, disk, ready, inFlight>>
    BY DEF DecryptFails, marks
  <1> QED
    BY <1>1, <1>5, <1>6, <1>7, <1>8

-----------------------------------------------------------------------------
(* Every end by itself, through the steps of a handler and of a message    *)

\* A step of a handler of e keeps what holds of the two ends, if it moves a worker to
\* what is idle or not, and the messages as handlers do.
LEMMA AloneHandler ==
    ASSUME NEW e \in Ends, NEW w \in Worker, Alone(e), Alone(Back(e)), Elsewhere(e),
           opening' = opening, open' = open,
           w = "live" /\ worker'[e][w] # worker[e][w] => open[e],
           ~ open[e] => ~ clean'[e],
           worker'[e][w].pc = "idle" => worker'[e][w] = Idle,
           \A v \in Worker : v # w => worker'[e][v] = worker[e][v],
           inFlight'[e] => worker'[e][w] # Idle \/ (inFlight[e] /\ worker'[e] = worker[e]),
           wire[e] = <<>> => wire'[e] = <<>>,
           wire'[Back(e)] = wire[Back(e)] \/ (open[e] /\ ~ Gone(Back(e)))
    PROVE  Alone(e)' /\ Alone(Back(e))'
  <1> DEFINE o == Back(e)
  <1>0. o \in Ends /\ o # e /\ Back(o) = e
    BY EndsFacts
  <1>1. /\ open'[o] = open[o] /\ worker'[o] = worker[o] /\ inFlight'[o] = inFlight[o]
        /\ clean'[o] = clean[o]
    BY <1>0 DEF Elsewhere
  <1>2. Alone(o)'
    BY <1>0, <1>1 DEF Alone, Gone
  <1>3. \A v \in Worker : worker'[e][v].pc = "idle" => worker'[e][v] = Idle
    BY DEF Alone
  <1>4. ~ open'[e] => worker'[e]["live"] = Idle /\ ~ clean'[e]
    BY DEF Alone, Worker
  <1>5. Gone(e)' => wire'[e] = <<>>
    BY DEF Alone, Gone
  <1>6. opening'[e] => wire'[o] = <<>>
    BY DEF Alone
  <1>7. inFlight'[e] => \E v \in Worker : worker'[e][v] # Idle
    BY DEF Alone
  <1>8. open'[e] => ~ opening'[e]
    BY DEF Alone
  <1> QED
    BY <1>2, <1>3, <1>4, <1>5, <1>6, <1>7, <1>8 DEF Alone

LEMMA AloneHandshake ==
    ASSUME TypeOK, NEW e \in Ends, NEW w \in Worker, Alone(e), Alone(Back(e)), Handshake(e, w)
    PROVE  Alone(e)' /\ Alone(Back(e))'
  <1>0. Elsewhere(e)
    BY HandshakeFrame
  <1>i. Idle.pc = "idle" /\ \A pc : [Idle EXCEPT !.pc = pc].pc = pc
    BY DEF Idle
  <1>j. ~ open[e] => ~ clean[e] /\ worker[e]["live"] = Idle
    BY DEF Alone
  <1>1. CASE HelloTaken(e, w)
    <2>1. [Idle EXCEPT !.pc = "look", !.key = Head(Queue(e, w)).a].pc = "look"
      BY DEF Idle
    <2>2. worker'[e][w].pc = "look" /\ worker'[e][w] # Idle
      BY <1>1, <1>i, <2>1, HelloTakenEffect
    <2>3. /\ Takes(e, w) /\ opening' = opening /\ open' = open /\ clean' = clean
          /\ \A v \in Worker : v # w => worker'[e][v] = worker[e][v]
      BY <1>1, HelloTakenEffect
    <2>4. /\ w = "live" => open[e] /\ wire[e] # <<>>
          /\ w = "lost" => wire'[e] = wire[e]
          /\ wire'[Back(e)] = wire[Back(e)]
      BY <2>3, TakesEffect, EndsFacts
    <2> QED
      BY <1>0, <1>j, <2>2, <2>3, <2>4, AloneHandler DEF Worker
  <1>2. CASE HelloDropped(e, w)
    <2>1. /\ Takes(e, w) /\ opening' = opening /\ open' = open /\ worker' = worker
          /\ inFlight' = inFlight /\ clean' = clean
      BY <1>2, HelloDroppedEffect
    <2>2. /\ w = "live" => open[e] /\ wire[e] # <<>>
          /\ w = "lost" => wire'[e] = wire[e]
          /\ wire'[Back(e)] = wire[Back(e)]
          /\ worker[e][w] = Idle
      BY <2>1, TakesEffect, EndsFacts
    <2> QED
      BY <1>0, <1>j, <2>1, <2>2, AloneHandler DEF Worker
  <1>3. CASE Look(e, w)
    <2>1. worker'[e][w].pc # "idle"
      BY <1>3, <1>i, LookEffect
    <2>2. /\ opening' = opening /\ open' = open /\ clean' = clean /\ wire' = wire
          /\ \A v \in Worker : v # w => worker'[e][v] = worker[e][v]
          /\ worker[e][w] # Idle
      BY <1>3, <1>i, LookEffect
    <2> QED
      BY <1>0, <1>i, <1>j, <2>1, <2>2, AloneHandler
  <1>4. CASE Derive(e, w)
    <2>2. /\ opening' = opening /\ open' = open /\ clean' = clean /\ wire' = wire
          /\ \A v \in Worker : v # w => worker'[e][v] = worker[e][v]
          /\ worker'[e][w].pc # "idle" /\ worker[e][w] # Idle
      BY <1>4, <1>i, DeriveEffect
    <2> QED
      BY <1>0, <1>i, <1>j, <2>2, AloneHandler
  <1>5. CASE Store(e, w)
    <2>2. /\ opening' = opening /\ open' = open /\ clean' = clean /\ wire' = wire
          /\ \A v \in Worker : v # w => worker'[e][v] = worker[e][v]
          /\ worker[e][w].pc = "store" /\ worker'[e][w] = [Idle EXCEPT !.pc = "finish"]
      BY <1>5, StoreEffect
    <2>3. worker'[e][w].pc # "idle" /\ worker[e][w] # Idle
      BY <1>i, <2>2
    <2> QED
      BY <1>0, <1>i, <1>j, <2>2, <2>3, AloneHandler
  <1>6. CASE Finish(e, w)
    <2>2. /\ opening' = opening /\ open' = open /\ clean' = clean /\ wire'[e] = wire[e]
          /\ \A v \in Worker : v # w => worker'[e][v] = worker[e][v]
          /\ worker'[e][w] = Idle /\ worker[e][w].pc = "finish" /\ ~ inFlight'[e]
      BY <1>6, FinishEffect
    <2>3. wire'[Back(e)] = wire[Back(e)] \/ (open[e] /\ ~ Gone(Back(e)))
      BY <1>6, FinishEffect
    <2>4. worker[e][w] # Idle
      BY <1>i, <2>2
    <2> QED
      BY <1>0, <1>j, <2>2, <2>3, <2>4, AloneHandler
  <1> QED
    BY <1>1, <1>2, <1>3, <1>4, <1>5, <1>6 DEF Handshake

LEMMA AloneMessage ==
    ASSUME TypeOK, NEW e \in Ends, Alone(e), Alone(Back(e)),
           \/ Send(e) \/ SendOffline(e) \/ Flush(e)
           \/ \E w \in Worker : Decrypt(e, w) \/ DecryptFails(e, w)
    PROVE  Alone(e)' /\ Alone(Back(e))'
  <1>0. Elsewhere(e) /\ "live" \in Worker
    BY MessageFrame DEF Worker
  <1>j. ~ open[e] => ~ clean[e]
    BY DEF Alone
  <1>k. \A v \in Worker : worker[e][v].pc = "idle" => worker[e][v] = Idle
    BY DEF Alone
  <1>1. CASE Send(e)
    <2>1. /\ opening' = opening /\ open' = open /\ clean' = clean /\ wire'[e] = wire[e]
          /\ worker' = worker /\ inFlight' = inFlight
          /\ wire'[Back(e)] = wire[Back(e)] \/ (open[e] /\ ~ Gone(Back(e)))
      BY <1>1, SendEffect
    <2> QED
      BY <1>0, <1>j, <1>k, <2>1, AloneHandler
  <1>2. CASE SendOffline(e)
    <2>1. /\ opening' = opening /\ open' = open /\ clean' = clean /\ wire' = wire
          /\ worker' = worker /\ inFlight' = inFlight
      BY <1>2, SendOfflineEffect
    <2> QED
      BY <1>0, <1>j, <1>k, <2>1, AloneHandler
  <1>3. CASE Flush(e)
    <2>1. /\ opening' = opening /\ open' = open /\ clean' = clean /\ wire'[e] = wire[e]
          /\ worker' = worker /\ inFlight' = inFlight
          /\ wire'[Back(e)] = wire[Back(e)] \/ (open[e] /\ ~ Gone(Back(e)))
      BY <1>3, FlushEffect
    <2> QED
      BY <1>0, <1>j, <1>k, <2>1, AloneHandler
  <1>4. ASSUME NEW w \in Worker, Decrypt(e, w) \/ DecryptFails(e, w)
        PROVE  Alone(e)' /\ Alone(Back(e))'
    <2>1. /\ Takes(e, w) /\ opening' = opening /\ open' = open /\ worker' = worker
          /\ inFlight' = inFlight /\ (clean'[e] => clean[e])
      BY <1>4, DecryptEffect, DecryptFailsEffect
    <2>2. /\ w = "live" => open[e] /\ wire[e] # <<>>
          /\ w = "lost" => wire'[e] = wire[e]
          /\ wire'[Back(e)] = wire[Back(e)]
      BY <2>1, TakesEffect, EndsFacts
    <2> QED
      BY <1>0, <1>j, <1>k, <2>1, <2>2, AloneHandler DEF Worker
  <1> QED
    BY <1>1, <1>2, <1>3, <1>4

-----------------------------------------------------------------------------
(* An end whose connection opened cleanly                                  *)

\* What holds of such an end, whatever the other end is.
Local(e) ==
    /\ ~ HasLost(e)
    /\ ready[e] => session[e].there /\ Pc(e) \in {"idle", "look", "finish"}
    /\ Takes1(e) \/ Stores(e) => ~ session[e].there /\ ~ disk[e].there
    /\ Stores(e) => worker[e]["live"].new.there
    /\ Post(e) => session[e].there

LEMMA LocalElsewhere ==
    ASSUME NEW e \in Ends, NEW f \in Ends, f # e, Elsewhere(e), Local(f)
    PROVE  Local(f)'
  <1>1. /\ late'[f] = late[f] /\ worker'[f] = worker[f] /\ session'[f] = session[f]
        /\ disk'[f] = disk[f] /\ ready'[f] = ready[f]
    BY DEF Elsewhere
  <1> QED
    BY <1>1 DEF Local, HasLost, Pc, Takes1, Stores, Post

LEMMA LocalConnections ==
    ASSUME TypeOK, NEW e \in Ends, Alone(e), clean'[e],
           Connect(e) \/ Open(e) \/ OpenFails(e) \/ Close(e) \/ CooldownEnds(e)
    PROVE  /\ Open(e) /\ Quiet(e) /\ worker[e]["live"] = Idle
           /\ Local(e)' /\ NotStarted(e)'
  <1>1. ~ Connect(e)
    BY ConnectEffect DEF Alone, Gone
  <1>2. ~ OpenFails(e)
    BY OpenFailsEffect DEF Alone
  <1>3. ~ Close(e)
    BY CloseEffect
  <1>4. ~ CooldownEnds(e)
    BY DEF Alone, Gone, CooldownEnds, history
  <1>5. Open(e)
    BY <1>1, <1>2, <1>3, <1>4
  <1>6. /\ opening[e] /\ Quiet(e)
        /\ UNCHANGED <<late, worker, session, disk, ready>>
    BY <1>5, OpenEffect
  <1>7. worker[e]["live"] = Idle
    BY <1>6 DEF Alone
  <1>8. Pc(e)' = "idle" /\ ~ ready'[e] /\ ~ HasLost(e)'
    BY <1>6, <1>7 DEF Pc, Idle, Quiet, HasLost
  <1>9. Local(e)' /\ NotStarted(e)'
    BY <1>8 DEF Local, NotStarted, Takes1, Stores, Post
  <1> QED
    BY <1>5, <1>6, <1>7, <1>9

\* Only the live worker of such an end does anything.
LEMMA OnlyLive ==
    ASSUME TypeOK, NEW e \in Ends, Local(e), NEW w \in Worker, Handle(e, w)
    PROVE  w = "live" /\ worker[e]["lost"] = Idle /\ late[e] = <<>>
  <1>1. worker[e]["lost"] = Idle /\ late[e] = <<>> /\ Idle.pc = "idle"
    BY DEF Local, HasLost, Idle
  <1>2. Takes(e, w) => w = "live"
    BY <1>1, TakesEffect DEF Worker
  <1>3. CASE Handshake(e, w)
    BY <1>1, <1>2, <1>3 DEF Handshake, HelloTaken, HelloDropped, TakesHello, Look, Derive, Store,
                            Finish, Worker
  <1>4. CASE Decrypt(e, w) \/ DecryptFails(e, w)
    BY <1>1, <1>2, <1>4 DEF Decrypt, DecryptFails, TakesMessage
  <1> QED
    BY <1>1, <1>3, <1>4 DEF Handle

LEMMA LostStays ==
    ASSUME NEW e \in Ends, Local(e),
           late'[e] = late[e], worker'[e]["lost"] = worker[e]["lost"]
    PROVE  ~ HasLost(e)'
  BY DEF Local, HasLost

LEMMA LocalHandshake ==
    ASSUME TypeOK, NEW e \in Ends, Alone(e), Local(e), NEW w \in Worker, Handshake(e, w)
    PROVE  Local(e)'
  <1>0. w = "live" /\ "lost" \in Worker /\ "lost" # "live"
    BY OnlyLive DEF Handle, Worker
  <1>i. Idle.pc = "idle" /\ \A pc : [Idle EXCEPT !.pc = pc].pc = pc
    BY DEF Idle
  <1>1. CASE HelloTaken(e, w)
    <2>1. [Idle EXCEPT !.pc = "look", !.key = Head(Queue(e, w)).a].pc = "look"
      BY DEF Idle
    <2>2. Takes(e, w) /\ Pc(e)' = "look" /\ ready' = ready
      BY <1>0, <1>1, <2>1, HelloTakenEffect DEF Pc
    <2>6. late'[e] = late[e] /\ worker'[e]["lost"] = worker[e]["lost"]
      BY <1>0, <1>1, <2>2, HelloTakenEffect, TakesEffect
    <2>3. ~ HasLost(e)'
      BY <2>6, LostStays
    <2>4. CASE ready[e]
      <3>1. session[e].there
        BY <2>4 DEF Local
      <3>2. session'[e] = session[e]
        BY <1>1, <2>4, <3>1, HelloTakenEffect DEF AlreadyReady
      <3> QED
        BY <2>2, <2>3, <2>4, <3>1, <3>2 DEF Local, Takes1, Stores, Post
    <2>5. CASE ~ ready[e]
      <3>1. session'[e] = NoSession /\ disk'[e] = NoSession
        BY <1>1, <2>5, HelloTakenEffect DEF AlreadyReady
      <3> QED
        BY <2>2, <2>3, <2>5, <3>1 DEF Local, Takes1, Stores, Post, NoSession
    <2> QED
      BY <2>4, <2>5
  <1>2. CASE HelloDropped(e, w)
    <2>1. \A v \in Worker : worker[e][v] = Idle
      BY <1>0, <1>2, HelloDroppedEffect, TakesEffect DEF Local, HasLost, Worker
    <2> QED
      BY <1>2, <2>1, HelloDroppedEffect DEF Alone
  <1>3. CASE Look(e, w)
    <2>1. ~ HasLost(e)'
      BY <1>0, <1>3, LookEffect, LostStays
    <2>2. Pc(e) = "look" /\ ready' = ready /\ disk' = disk
      BY <1>0, <1>3, LookEffect DEF Pc
    <2>3. CASE ready[e]
      <3>1. session[e].there
        BY <2>3 DEF Local
      <3>2. worker'[e][w] = [Idle EXCEPT !.pc = "finish"] /\ session'[e] = session[e]
        BY <1>3, <3>1, LookEffect
      <3>3. Pc(e)' = "finish"
        BY <1>0, <1>i, <3>2 DEF Pc
      <3> QED
        BY <2>1, <2>2, <2>3, <3>1, <3>2, <3>3 DEF Local, Takes1, Stores, Post
    <2>4. CASE ~ ready[e]
      <3>1. ~ session[e].there /\ ~ disk[e].there
        BY <2>2, <2>4 DEF Local, Takes1
      <3>2. Pc(e)' = "derive" /\ session'[e] = disk[e]
        BY <1>0, <1>3, <3>1, LookEffect DEF Pc
      <3> QED
        BY <2>1, <2>2, <2>4, <3>1, <3>2 DEF Local, Takes1, Stores, Post
    <2> QED
      BY <2>3, <2>4
  <1>4. CASE Derive(e, w)
    <2>1. ~ HasLost(e)'
      BY <1>0, <1>4, DeriveEffect, LostStays
    <2>2. /\ Pc(e) = "derive" /\ Pc(e)' = "store" /\ worker'[e]["live"].new.there
          /\ ready' = ready /\ disk' = disk /\ session' = session
      BY <1>0, <1>4, DeriveEffect DEF Pc
    <2>3. ~ ready[e] /\ ~ session[e].there /\ ~ disk[e].there
      BY <2>2 DEF Local, Takes1
    <2> QED
      BY <2>1, <2>2, <2>3 DEF Local, Takes1, Stores, Post
  <1>5. CASE Store(e, w)
    <2>1. ~ HasLost(e)'
      BY <1>0, <1>5, StoreEffect, LostStays
    <2>2. /\ Pc(e) = "store" /\ Pc(e)' = "finish" /\ ready' = ready
          /\ session'[e] = worker[e]["live"].new
      BY <1>0, <1>5, <1>i, StoreEffect DEF Pc
    <2>3. ~ ready[e] /\ worker[e]["live"].new.there
      BY <2>2 DEF Local, Stores
    <2> QED
      BY <2>1, <2>2, <2>3 DEF Local, Takes1, Stores, Post
  <1>6. CASE Finish(e, w)
    <2>4. late'[e] = late[e] /\ worker'[e]["lost"] = worker[e]["lost"]
      BY <1>0, <1>6, FinishEffect
    <2>1. ~ HasLost(e)'
      BY <2>4, LostStays
    <2>2. /\ Pc(e) = "finish" /\ Pc(e)' = "idle" /\ ready'[e] /\ session' = session
      BY <1>0, <1>6, <1>i, FinishEffect DEF Pc
    <2>3. session[e].there
      BY <2>2 DEF Local, Post
    <2> QED
      BY <2>1, <2>2, <2>3 DEF Local, Takes1, Stores, Post
  <1> QED
    BY <1>1, <1>2, <1>3, <1>4, <1>5, <1>6 DEF Handshake

LEMMA UsedType ==
    ASSUME TypeOK, NEW e \in Ends
    PROVE  /\ Used(e) \in SessionType
           /\ \A x \in Keys : [Used(e) EXCEPT !.theirs = x].there = Used(e).there
           /\ [Used(e) EXCEPT !.sound = FALSE].there = Used(e).there
           /\ session[e].there => Used(e) = session[e]
  <1>1. Used(e) \in SessionType
    BY DEF Used, TypeOK
  <1> QED
    BY <1>1 DEF SessionType, Used

LEMMA LocalMessage ==
    ASSUME TypeOK, NEW e \in Ends, Local(e),
           \/ Send(e) \/ SendOffline(e) \/ Flush(e)
           \/ \E w \in Worker : Decrypt(e, w) \/ DecryptFails(e, w)
    PROVE  Local(e)'
  <1>1. CASE Send(e)
    <2>1. /\ ready[e] /\ UNCHANGED <<late, worker, session, ready>>
      BY <1>1, SendEffect
    <2> QED
      BY <2>1 DEF Local, HasLost, Pc, Takes1, Stores, Post
  <1>2. CASE SendOffline(e)
    <2>1. /\ ~ ready[e] /\ session'[e] = Used(e)
          /\ disk'[e] = disk[e] \/ session[e].there \/ disk[e].there
          /\ UNCHANGED <<late, worker, ready>>
      BY <1>2, SendOfflineEffect
    <2> QED
      BY <2>1, UsedType DEF Local, HasLost, Pc, Takes1, Stores, Post, Used
  <1>3. CASE Flush(e)
    <2>1. UNCHANGED <<late, worker, session, disk, ready>>
      BY <1>3, FlushEffect
    <2> QED
      BY <2>1 DEF Local, HasLost, Pc, Takes1, Stores, Post
  <1>4. ASSUME NEW w \in Worker, Decrypt(e, w) \/ DecryptFails(e, w)
        PROVE  Local(e)'
    <2>0. w = "live"
      BY <1>4, OnlyLive DEF Handle
    <2>1. Takes(e, w) /\ worker' = worker /\ ready' = ready
      BY <1>4, DecryptEffect, DecryptFailsEffect
    <2>2. late'[e] = late[e] /\ Pc(e) = "idle"
      BY <2>0, <2>1, TakesEffect DEF Pc, Idle
    <2>3. session[e].there => session'[e].there
      <3>1. CASE Decrypt(e, w)
        <4>1. Head(Queue(e, w)).a \in Keys /\ Used(e).theirs \in Keys
          BY <2>1, TakesType, UsedType DEF Message, SessionType
        <4>2. PICK x \in Keys : session'[e] = session[e] \/ ( /\ Used(e).there
                                                           /\ session'[e] = [Used(e) EXCEPT !.theirs = x])
          BY <3>1, <4>1, DecryptEffect
        <4> QED
          BY <4>2, UsedType
      <3>2. CASE DecryptFails(e, w)
        <4>1. session'[e] = session[e] \/ session'[e] = [Used(e) EXCEPT !.sound = FALSE]
          BY <3>2, DecryptFailsEffect
        <4> QED
          BY <4>1, UsedType
      <3> QED
        BY <1>4, <3>1, <3>2
    <2> QED
      BY <2>1, <2>2, <2>3 DEF Local, HasLost, Pc, Takes1, Stores, Post
  <1> QED
    BY <1>1, <1>2, <1>3, <1>4

-----------------------------------------------------------------------------
(* An end that has opened cleanly, while the other has not opened yet      *)

HalfOpen(e) ==
    /\ NotStarted(e)
    /\ \E k \in Keys \ {None} : /\ wire[Back(e)] = <<Hello(k)>>
                                /\ ~ IsAlice(e) => key[e[1]] = k

Half(e) == clean[e] /\ opening[Back(e)] => HalfOpen(e)

KeptKey(e) == ~ IsAlice(e) /\ key[e[1]] # None => key'[e[1]] = key[e[1]]

LEMMA HalfFrame ==
    ASSUME NEW e \in Ends, HalfOpen(e), KeptKey(e),
           worker'[e] = worker[e], ready'[e] = ready[e], wire'[Back(e)] = wire[Back(e)]
    PROVE  HalfOpen(e)'
  <1>1. NotStarted(e)'
    BY DEF HalfOpen, NotStarted, Pc
  <1>2. PICK k \in Keys \ {None} : wire[Back(e)] = <<Hello(k)>> /\ (~ IsAlice(e) => key[e[1]] = k)
    BY DEF HalfOpen
  <1>3. wire'[Back(e)] = <<Hello(k)>> /\ (~ IsAlice(e) => key'[e[1]] = k)
    BY <1>2 DEF KeptKey
  <1> QED
    BY <1>1, <1>3 DEF HalfOpen

LEMMA HalfOther ==
    ASSUME NEW e \in Ends, Half(Back(e)), Elsewhere(e), KeptKey(Back(e)),
           clean[Back(e)] /\ opening'[e] => opening[e] /\ wire'[e] = wire[e]
    PROVE  Half(Back(e))'
  <1> DEFINE o == Back(e)
  <1>1. o \in Ends /\ o # e /\ Back(o) = e
    BY EndsFacts
  <1>2. clean'[o] = clean[o] /\ worker'[o] = worker[o] /\ ready'[o] = ready[o]
    BY <1>1 DEF Elsewhere
  <1>3. CASE clean[o] /\ opening'[e]
    <2>1. HalfOpen(o)
      BY <1>1, <1>3 DEF Half
    <2>2. wire'[Back(o)] = wire[Back(o)]
      BY <1>1, <1>3
    <2>3. HalfOpen(o)'
      BY <1>1, <1>2, <2>1, <2>2, HalfFrame
    <2> QED
      BY <2>3 DEF Half
  <1>4. CASE ~ (clean[o] /\ opening'[e])
    BY <1>1, <1>2, <1>4 DEF Half
  <1> QED
    BY <1>3, <1>4

LEMMA OtherKey ==
    ASSUME NEW e \in Ends, Elsewhere(e)
    PROVE  KeptKey(Back(e)) /\ key'[e[2]] = key[e[2]]
  <1>1. e[2] \in Peer /\ e[2] # e[1] /\ Back(e)[1] = e[2]
    <2>1. IsAlice(e) <=> ~ IsAlice(Back(e))
      BY EndsFacts
    <2> QED
      BY <2>1, EndsFacts DEF IsAlice
  <1> QED
    BY <1>1 DEF Elsewhere, KeptKey

LEMMA HalfConnections ==
    ASSUME TypeOK, NEW e \in Ends, Alone(e), Alone(Back(e)), Half(Back(e)),
           Connect(e) \/ Open(e) \/ OpenFails(e) \/ Close(e) \/ CooldownEnds(e)
    PROVE  Half(e)' /\ Half(Back(e))'
  <1> DEFINE o == Back(e)
  <1>0. Elsewhere(e) /\ KeptKey(o) /\ o \in Ends /\ o # e /\ Back(o) = e
    BY ConnectionFrame, OtherKey, EndsFacts
  <1>1. clean[o] /\ opening'[e] => opening[e] /\ wire'[e] = wire[e]
    <2>1. CASE Connect(e)
      BY <2>1, ConnectEffect DEF Alone, Gone
    <2>2. CASE Open(e) \/ OpenFails(e)
      BY <2>2, OpenEffect, OpenFailsEffect
    <2>3. CASE Close(e)
      BY <2>3, CloseEffect DEF Alone
    <2>4. CASE CooldownEnds(e)
      BY <2>4 DEF CooldownEnds, connection
    <2> QED
      BY <2>1, <2>2, <2>3, <2>4
  <1>2. Half(o)'
    BY <1>0, <1>1, HalfOther
  <1>3. ASSUME clean'[e], opening'[o] PROVE HalfOpen(e)'
    <2>1. Open(e) /\ NotStarted(e)'
      BY <1>3, LocalConnections
    <2>2. wire[o] = <<>> /\ opening[o]
      BY <1>3, <2>1, OpenEffect DEF Alone
    <2>4. wire'[o] = <<>> \o <<Hello(key'[e[1]])>> /\ key'[e[1]] \in Keys \ {None}
      BY <2>1, <2>2, OpenEffect DEF Gone
    <2>3. wire'[o] = <<Hello(key'[e[1]])>> /\ key'[e[1]] \in Keys \ {None}
      BY <2>4
    <2> QED
      BY <2>1, <2>3 DEF HalfOpen
  <1> QED
    BY <1>2, <1>3 DEF Half

\* While the other end has not opened, such an end may only write to its outbox.
LEMMA HalfWaits ==
    ASSUME TypeOK, NEW e \in Ends, Alone(Back(e)), Local(e), opening[Back(e)], HalfOpen(e)
    PROVE  /\ \A w \in Worker : ~ Handle(e, w)
           /\ ~ Send(e) /\ ~ Flush(e)
  <1>1. wire[e] = <<>> /\ Pc(e) = "idle" /\ ~ ready[e]
    BY EndsFacts DEF Alone, HalfOpen, NotStarted
  <1>2. ASSUME NEW w \in Worker, Handle(e, w) PROVE FALSE
    <2>1. w = "live"
      BY <1>2, OnlyLive
    <2>2. ~ Takes(e, w)
      BY <1>1, <2>1, TakesEffect
    <2> QED
      BY <1>1, <1>2, <2>1, <2>2 DEF Handle, Handshake, HelloTaken, HelloDropped, TakesHello, Look,
                                    Derive, Store, Finish, Decrypt, DecryptFails, TakesMessage, Pc
  <1> QED
    BY <1>1, <1>2, SendEffect, FlushEffect

LEMMA HalfWork ==
    ASSUME TypeOK, NEW e \in Ends, Alone(e), Alone(Back(e)), clean[e] => Local(e),
           Half(e), Half(Back(e)),
           \/ Send(e) \/ SendOffline(e) \/ Flush(e)
           \/ \E w \in Worker : Handle(e, w)
    PROVE  Half(e)' /\ Half(Back(e))'
  <1> DEFINE o == Back(e)
  <1>0. /\ Elsewhere(e) /\ KeptKey(o) /\ o \in Ends /\ o # e /\ Back(o) = e
    BY HandshakeFrame, MessageFrame, OtherKey, EndsFacts DEF Handle
  <1>1. /\ opening' = opening /\ (clean'[e] => clean[e])
        /\ opening[e] => wire'[e] = wire[e]
    <2>1. CASE Send(e) \/ SendOffline(e) \/ Flush(e)
      BY <2>1, SendEffect, SendOfflineEffect, FlushEffect
    <2>2. ASSUME NEW w \in Worker, Handle(e, w)
          PROVE  /\ opening' = opening /\ (clean'[e] => clean[e])
                 /\ Takes(e, w) \/ wire'[e] = wire[e]
      <3>1. CASE HelloTaken(e, w) \/ HelloDropped(e, w)
        BY <3>1, HelloTakenEffect, HelloDroppedEffect
      <3>2. CASE Look(e, w) \/ Derive(e, w) \/ Store(e, w)
        BY <3>2, LookEffect, DeriveEffect, StoreEffect
      <3>3. CASE Finish(e, w)
        BY <3>3, FinishEffect
      <3>4. CASE Decrypt(e, w) \/ DecryptFails(e, w)
        BY <3>4, DecryptEffect, DecryptFailsEffect
      <3> QED
        BY <2>2, <3>1, <3>2, <3>3, <3>4 DEF Handle, Handshake
    <2>3. ASSUME NEW w \in Worker, Takes(e, w), opening[e] PROVE wire'[e] = wire[e]
      BY <2>3, TakesEffect DEF Alone, Worker
    <2> QED
      BY <2>1, <2>2, <2>3
  <1>2. Half(o)'
    BY <1>0, <1>1, HalfOther
  <1>3. ASSUME clean'[e], opening'[o] PROVE HalfOpen(e)'
    <2>1. clean[e] /\ opening[o] /\ HalfOpen(e)
      BY <1>1, <1>3 DEF Half
    <2>2. SendOffline(e)
      BY <2>1, HalfWaits
    <2>3. UNCHANGED <<wire, worker, key, ready>>
      BY <2>2, SendOfflineEffect
    <2> QED
      BY <2>1, <2>3, HalfFrame DEF KeptKey
  <1> QED
    BY <1>2, <1>3 DEF Half

-----------------------------------------------------------------------------
(* Messages on the way                                                     *)

\* Those sent when they were encrypted are under the root of the keys x and k.
Carries(q, x, k) ==
    \A i \in DOMAIN q : q[i].kind = "ratchet" /\ ~ q[i].queued => q[i].a = x /\ q[i].b = k

\* There are none of those.
OnlyQueued(q) == \A i \in DOMAIN q : q[i].kind = "ratchet" => q[i].queued

LEMMA CarriesMore ==
    ASSUME NEW q \in Seq(Message), NEW r \in Seq(Message), NEW x, NEW k
    PROVE  /\ Carries(q, x, k) /\ Carries(r, x, k) => Carries(q \o r, x, k)
           /\ OnlyQueued(q) /\ OnlyQueued(r) => OnlyQueued(q \o r)
           /\ OnlyQueued(q) => Carries(q, x, k)
           /\ q # <<>> => Head(q \o r) = Head(q) /\ q \o r # <<>>
  <1>1. /\ Len(q \o r) = Len(q) + Len(r) /\ Len(q) \in Nat /\ Len(r) \in Nat
        /\ DOMAIN q = 1..Len(q) /\ DOMAIN r = 1..Len(r) /\ DOMAIN (q \o r) = 1..Len(q \o r)
    OBVIOUS
  <1>2. \A i \in DOMAIN (q \o r) : \/ i \in DOMAIN q /\ (q \o r)[i] = q[i]
                                   \/ i - Len(q) \in DOMAIN r /\ (q \o r)[i] = r[i - Len(q)]
    BY <1>1
  <1>3. q # <<>> => Head(q \o r) = Head(q) /\ q \o r # <<>>
    OBVIOUS
  <1> QED
    BY <1>2, <1>3 DEF Carries, OnlyQueued

LEMMA CarriesTail ==
    ASSUME NEW q \in Seq(Message), q # <<>>, NEW x, NEW k
    PROVE  /\ Carries(q, x, k) => Carries(Tail(q), x, k)
           /\ OnlyQueued(q) => OnlyQueued(Tail(q))
           /\ Carries(q, x, k) /\ Head(q).kind = "ratchet" /\ ~ Head(q).queued =>
                Head(q).a = x /\ Head(q).b = k
           /\ OnlyQueued(q) /\ Head(q).kind = "ratchet" => Head(q).queued
  <1>1. \A i \in DOMAIN Tail(q) : i + 1 \in DOMAIN q /\ Tail(q)[i] = q[i + 1]
    OBVIOUS
  <1>2. 1 \in DOMAIN q /\ Head(q) = q[1]
    OBVIOUS
  <1> QED
    BY <1>1, <1>2 DEF Carries, OnlyQueued

LEMMA CarriesOne ==
    ASSUME NEW m, NEW x, NEW k
    PROVE  /\ m.kind # "ratchet" => Carries(<<m>>, x, k) /\ OnlyQueued(<<m>>)
           /\ m.a = x /\ m.b = k => Carries(<<m>>, x, k)
  <1>1. \A i \in DOMAIN <<m>> : <<m>>[i] = m
    OBVIOUS
  <1> QED
    BY <1>1 DEF Carries, OnlyQueued

-----------------------------------------------------------------------------
(* Two ends in step                                                        *)

\* Both ends have opened cleanly, and k is Bob's key pair of the connection.
BobHas(e, k) ==
    /\ NotStarted(e) \/ Takes1(e) => key[e[1]] = k
    /\ Stores(e) => key[e[1]] = k /\ worker[e]["live"].new = Made(k, None)
    /\ Post(e) => session[e].mine = k

AliceHas(e, k) ==
    /\ NotStarted(e) => Head(wire[e]) = Hello(k)
    /\ Takes1(e) => worker[e]["live"].key = k
    /\ Stores(e) => /\ worker[e]["live"].new.there /\ worker[e]["live"].new.sound
                    /\ worker[e]["live"].new.theirs = k
    /\ Post(e) => session[e].theirs = k

\* A handshake comes before the messages, and there are the secrets to open them.
Prepared(e) ==
    /\ NotStarted(e) => wire[e] # <<>> /\ Head(wire[e]).kind = "hello"
    /\ Stores(e) \/ Post(e) => legacy[e]
    /\ Post(e) => session[e].sound

Has(e, k) == (IF IsAlice(e) THEN AliceHas(e, k) ELSE BobHas(e, k)) /\ Prepared(e)

\* What Bob knows of Alice, and what is on the way between them.
Learnt(a, b) == Post(b) => session[b].theirs = None \/ (ready[a] /\ session[b].theirs = session[a].mine)

OnTheWay(a, q, k) == IF ready[a] THEN Carries(q, session[a].mine, k) ELSE OnlyQueued(q)

InStep(a, k) ==
    /\ Has(a, k) /\ Has(Back(a), k)
    /\ Learnt(a, Back(a))
    /\ OnTheWay(a, wire[a], k) /\ OnTheWay(a, wire[Back(a)], k)

Matched(a) == clean[a] /\ clean[Back(a)] => \E k \in Keys \ {None} : InStep(a, k)

\* The end that does nothing.
LEMMA HasElsewhere ==
    ASSUME NEW e \in Ends, Elsewhere(e), NEW k \in Keys \ {None}, Has(Back(e), k),
           wire[Back(e)] \in Seq(Message), NEW q \in Seq(Message),
           wire'[Back(e)] = wire[Back(e)] \/ wire'[Back(e)] = wire[Back(e)] \o q
    PROVE  Has(Back(e), k)'
  <1> DEFINE o == Back(e)
  <1>1. o \in Ends /\ o # e /\ o[1] = e[2] /\ key'[e[2]] = key[e[2]]
    BY EndsFacts, OtherKey
  <1>2. /\ worker'[o] = worker[o] /\ session'[o] = session[o] /\ legacy'[o] = legacy[o]
        /\ ready'[o] = ready[o]
    BY <1>1 DEF Elsewhere
  <1>3. wire[o] # <<>> => Head(wire'[o]) = Head(wire[o]) /\ wire'[o] # <<>>
    BY CarriesMore
  <1>4. Prepared(o)
    BY DEF Has
  <1>5. Prepared(o)'
    BY <1>2, <1>3, <1>4 DEF Prepared, NotStarted, Stores, Post, Pc
  <1>6. CASE IsAlice(o)
    BY <1>2, <1>3, <1>4, <1>5, <1>6 DEF Has, AliceHas, Prepared, NotStarted, Takes1, Stores, Post, Pc
  <1>7. CASE ~ IsAlice(o)
    BY <1>1, <1>2, <1>5, <1>7 DEF Has, BobHas, NotStarted, Takes1, Stores, Post, Pc
  <1> QED
    BY <1>6, <1>7

\* A handler moves its end one stage on, and leaves a session that there is.
OneStage(e) ==
    /\ ready[e] => ready'[e]
    /\ Post(e) => Post(e)' /\ session'[e] = session[e]
    /\ Post(e)' => Post(e) \/ IsAlice(e) \/ session'[e].theirs = None

LEMMA HasHello ==
    ASSUME TypeOK, NEW e \in Ends, Local(e), NEW k \in Keys \ {None}, Has(e, k),
           HelloTaken(e, "live")
    PROVE  Has(e, k)' /\ OneStage(e)
  <1>0. "live" \in Worker
    BY DEF Worker
  <1>1. Takes(e, "live") /\ UNCHANGED <<key, ready>>
    BY <1>0, HelloTakenEffect
  <1>2. Pc(e) = "idle"
    BY <1>0, <1>1, TakesEffect DEF Pc, Idle
  <1>3. [Idle EXCEPT !.pc = "look", !.key = Head(wire[e]).a].pc = "look"
        /\ [Idle EXCEPT !.pc = "look", !.key = Head(wire[e]).a].key = Head(wire[e]).a
    BY DEF Idle
  <1>4. Pc(e)' = "look" /\ worker'[e]["live"].key = Head(wire[e]).a
    BY <1>0, <1>3, HelloTakenEffect DEF Pc, Queue
  <1>5. CASE ready[e]
    <2>1. session[e].there
      BY <1>5 DEF Local
    <2>2. session'[e] = session[e] /\ legacy'[e] = legacy[e]
      BY <1>0, <1>5, <2>1, HelloTakenEffect DEF AlreadyReady
    <2> QED
      BY <1>1, <1>2, <1>4, <1>5, <2>2 DEF Has, AliceHas, BobHas, Prepared, NotStarted, Takes1, Stores,
                                          Post, OneStage
  <1>6. CASE ~ ready[e]
    <2>1. NotStarted(e)
      BY <1>2, <1>6 DEF NotStarted
    <2>2. IsAlice(e) => Head(wire[e]).a = k
      BY <2>1 DEF Has, AliceHas, Hello
    <2>3. ~ NotStarted(e)' /\ ~ Stores(e)' /\ ~ Post(e)' /\ ~ Post(e)
      BY <1>1, <1>2, <1>4, <1>6 DEF NotStarted, Stores, Post
    <2>4. ~ IsAlice(e) => key'[e[1]] = k
      BY <1>1, <2>1 DEF Has, BobHas
    <2> QED
      BY <1>4, <1>6, <2>2, <2>3, <2>4 DEF Has, AliceHas, BobHas, Prepared, OneStage
  <1> QED
    BY <1>5, <1>6

LEMMA HasLook ==
    ASSUME TypeOK, NEW e \in Ends, Local(e), NEW k \in Keys \ {None}, Has(e, k), Look(e, "live")
    PROVE  Has(e, k)' /\ OneStage(e)
  <1>0. "live" \in Worker /\ \A pc : [Idle EXCEPT !.pc = pc].pc = pc
    BY DEF Worker, Idle
  <1>1. Pc(e) = "look" /\ UNCHANGED <<wire, key, legacy, ready>>
    BY <1>0, LookEffect DEF Pc
  <1>2. CASE ready[e]
    <2>1. session[e].there
      BY <1>2 DEF Local
    <2>f. worker'[e]["live"] = [Idle EXCEPT !.pc = "finish"] /\ session'[e] = session[e]
      BY <1>0, <2>1, LookEffect
    <2>2. Pc(e)' = "finish" /\ session'[e] = session[e]
      BY <1>0, <2>f DEF Pc
    <2> QED
      BY <1>1, <1>2, <2>2 DEF Has, AliceHas, BobHas, Prepared, NotStarted, Takes1, Stores, Post, OneStage
  <1>3. CASE ~ ready[e]
    <2>1. ~ session[e].there /\ ~ disk[e].there
      BY <1>1, <1>3 DEF Local, Takes1
    <2>2. Pc(e)' = "derive" /\ worker'[e]["live"].key = worker[e]["live"].key
      BY <1>0, <1>1, <2>1, LookEffect DEF Pc
    <2> QED
      BY <1>1, <1>3, <2>2 DEF Has, AliceHas, BobHas, Prepared, NotStarted, Takes1, Stores, Post, OneStage
  <1> QED
    BY <1>2, <1>3

LEMMA HasDerive ==
    ASSUME TypeOK, NEW e \in Ends, Local(e), NEW k \in Keys \ {None}, Has(e, k), Derive(e, "live")
    PROVE  Has(e, k)' /\ OneStage(e)
  <1>0. "live" \in Worker
    BY DEF Worker
  <1>1. Pc(e) = "derive" /\ Pc(e)' = "store" /\ legacy'[e] /\ UNCHANGED <<key, ready>>
    BY <1>0, DeriveEffect DEF Pc
  <1>2. ~ ready[e] /\ Takes1(e)
    BY <1>1 DEF Local, Takes1
  <1>3. CASE IsAlice(e)
    <2>1. /\ worker'[e]["live"].new.there /\ worker'[e]["live"].new.sound
          /\ worker'[e]["live"].new.theirs = k
      BY <1>0, <1>2, <1>3, DeriveEffect DEF Has, AliceHas
    <2> QED
      BY <1>1, <1>2, <1>3, <2>1 DEF Has, AliceHas, Prepared, NotStarted, Takes1, Stores, Post, OneStage
  <1>4. CASE ~ IsAlice(e)
    <2>1. key[e[1]] = k /\ worker'[e]["live"].new = Made(k, None)
      BY <1>0, <1>2, <1>4, DeriveEffect DEF Has, BobHas
    <2> QED
      BY <1>1, <1>2, <1>4, <2>1 DEF Has, BobHas, Prepared, NotStarted, Takes1, Stores, Post, OneStage
  <1> QED
    BY <1>3, <1>4

LEMMA HasStore ==
    ASSUME TypeOK, NEW e \in Ends, Local(e), NEW k \in Keys \ {None}, Has(e, k), Store(e, "live")
    PROVE  Has(e, k)' /\ OneStage(e)
  <1>0. "live" \in Worker /\ \A pc : [Idle EXCEPT !.pc = pc].pc = pc
    BY DEF Worker, Idle
  <1>s. /\ worker[e]["live"].pc = "store" /\ worker'[e]["live"] = [Idle EXCEPT !.pc = "finish"]
        /\ UNCHANGED <<legacy, ready>> /\ session'[e] = worker[e]["live"].new
    BY <1>0, StoreEffect
  <1>1. /\ Pc(e) = "store" /\ Pc(e)' = "finish" /\ UNCHANGED <<legacy, ready>>
        /\ session'[e] = worker[e]["live"].new
    BY <1>0, <1>s DEF Pc
  <1>2. ~ ready[e] /\ Stores(e)
    BY <1>1 DEF Local, Stores
  <1>3. legacy[e]
    BY <1>2 DEF Has, Prepared
  <1>4. CASE IsAlice(e)
    BY <1>1, <1>2, <1>3, <1>4 DEF Has, AliceHas, Prepared, NotStarted, Takes1, Stores, Post, OneStage
  <1>5. CASE ~ IsAlice(e)
    <2>1. session'[e] = Made(k, None)
      BY <1>1, <1>2, <1>5 DEF Has, BobHas
    <2>2. session'[e].mine = k /\ session'[e].theirs = None /\ session'[e].sound
      BY <2>1 DEF Made
    <2> QED
      BY <1>1, <1>2, <1>3, <1>5, <2>2 DEF Has, BobHas, Prepared, NotStarted, Takes1, Stores, Post, OneStage
  <1> QED
    BY <1>4, <1>5

LEMMA HasFinish ==
    ASSUME TypeOK, NEW e \in Ends, Local(e), NEW k \in Keys \ {None}, Has(e, k), Finish(e, "live")
    PROVE  Has(e, k)' /\ OneStage(e)
  <1>0. "live" \in Worker /\ Idle.pc = "idle"
    BY DEF Worker, Idle
  <1>1. /\ Pc(e) = "finish" /\ Pc(e)' = "idle" /\ ready'[e]
        /\ UNCHANGED <<session, legacy>>
    BY <1>0, FinishEffect DEF Pc
  <1>2. Post(e)
    BY <1>1 DEF Post
  <1> QED
    BY <1>1, <1>2 DEF Has, AliceHas, BobHas, Prepared, NotStarted, Takes1, Stores, Post, OneStage

LEMMA HasSends ==
    ASSUME TypeOK, NEW e \in Ends, Local(e), NEW k \in Keys \ {None}, Has(e, k),
           Send(e) \/ SendOffline(e) \/ Flush(e)
    PROVE  Has(e, k)' /\ OneStage(e)
  <1>1. UNCHANGED <<worker, key, legacy, ready>> /\ wire'[e] = wire[e]
    BY SendEffect, SendOfflineEffect, FlushEffect
  <1>2. session[e].there => session'[e] = session[e]
    BY SendEffect, SendOfflineEffect, FlushEffect, UsedType
  <1>3. Post(e) => session'[e] = session[e]
    BY <1>2 DEF Local
  <1>4. Prepared(e) => Prepared(e)'
    BY <1>1, <1>3 DEF Prepared, NotStarted, Stores, Post, Pc
  <1>5. CASE IsAlice(e)
    BY <1>1, <1>3, <1>4, <1>5 DEF Has, AliceHas, NotStarted, Takes1, Stores, Post, Pc, OneStage
  <1>6. CASE ~ IsAlice(e)
    BY <1>1, <1>3, <1>4, <1>6 DEF Has, BobHas, NotStarted, Takes1, Stores, Post, Pc, OneStage
  <1> QED
    BY <1>5, <1>6

\* A message is taken only when its end is ready.
LEMMA MessageWaits ==
    ASSUME TypeOK, NEW e \in Ends, Local(e), NEW k \in Keys \ {None}, Has(e, k),
           Decrypt(e, "live") \/ DecryptFails(e, "live")
    PROVE  /\ ready[e] /\ Pc(e) = "idle" /\ session[e].there /\ session[e].sound /\ legacy[e]
           /\ wire[e] # <<>> /\ wire'[e] = Tail(wire[e]) /\ Queue(e, "live") = wire[e]
           /\ Head(wire[e]) \in Message /\ Head(wire[e]).kind # "hello"
  <1>0. "live" \in Worker
    BY DEF Worker
  <1>1. Takes(e, "live") /\ Queue(e, "live") = wire[e] /\ Head(wire[e]).kind # "hello"
    BY <1>0, DecryptEffect, DecryptFailsEffect DEF Queue
  <1>2. /\ Pc(e) = "idle" /\ wire[e] # <<>> /\ wire'[e] = Tail(wire[e])
        /\ Head(wire[e]) \in Message
    BY <1>0, <1>1, TakesEffect, TakesType DEF Pc, Idle
  <1>3. ready[e]
    BY <1>1, <1>2 DEF Has, Prepared, NotStarted
  <1> QED
    BY <1>1, <1>2, <1>3 DEF Has, Prepared, Post, Local

LEMMA HasDecrypt ==
    ASSUME TypeOK, NEW e \in Ends, Local(e), NEW k \in Keys \ {None}, Has(e, k), Decrypt(e, "live")
    PROVE  /\ Has(e, k)' /\ ready'[e] /\ Post(e)
           /\ session'[e].mine = session[e].mine
           /\ IsAlice(e) => session'[e] = session[e]
           /\ \/ session'[e].theirs = session[e].theirs
              \/ Head(wire[e]).kind # "legacy" /\ session'[e].theirs = Head(wire[e]).a
  <1>1. /\ ready[e] /\ Pc(e) = "idle" /\ session[e].there /\ session[e].sound /\ legacy[e]
        /\ Queue(e, "live") = wire[e] /\ Head(wire[e]) \in Message
    BY MessageWaits
  <1>2. UNCHANGED <<worker, key, legacy, ready>> /\ Used(e) = session[e]
    BY <1>1, DecryptEffect, UsedType DEF Worker
  <1>3. session[e] \in SessionType /\ Head(wire[e]).a \in Keys
    BY <1>1 DEF TypeOK, Message
  <1>4. \/ Head(wire[e]).kind = "legacy" /\ session'[e] = session[e]
        \/ /\ Head(wire[e]).kind # "legacy"
           /\ session'[e] = [session[e] EXCEPT !.theirs = IF IsAlice(e) THEN session[e].theirs
                                                          ELSE Head(wire[e]).a]
    BY <1>1, <1>2, DecryptEffect DEF Worker
  <1>5. /\ session'[e].mine = session[e].mine /\ session'[e].sound = session[e].sound
        /\ IsAlice(e) => session'[e] = session[e]
        /\ \/ session'[e].theirs = session[e].theirs
           \/ Head(wire[e]).kind # "legacy" /\ session'[e].theirs = Head(wire[e]).a
    BY <1>3, <1>4 DEF SessionType
  <1>6. Post(e) /\ Post(e)' /\ ~ NotStarted(e)' /\ ~ Takes1(e)' /\ ~ Stores(e)'
    BY <1>1, <1>2 DEF Post, NotStarted, Takes1, Stores
  <1> QED
    BY <1>1, <1>2, <1>5, <1>6 DEF Has, AliceHas, BobHas, Prepared

-----------------------------------------------------------------------------
(* A step of one of two ends in step                                       *)

\* What a step of e does to the messages on the way.
OnlyAdds(e) ==
    /\ wire'[e] = wire[e] \/ (wire[e] # <<>> /\ wire'[e] = Tail(wire[e]))
    /\ \/ wire'[Back(e)] = wire[Back(e)]
       \/ \E q \in Seq(Message) : OnlyQueued(q) /\ wire'[Back(e)] = wire[Back(e)] \o q

LEMMA OnTheWayStays ==
    ASSUME TypeOK, NEW e \in Ends, NEW a \in Ends, NEW k,
           OnlyAdds(e), OnTheWay(a, wire[e], k), OnTheWay(a, wire[Back(e)], k),
           ready[a] => ready'[a] /\ session'[a].mine = session[a].mine
    PROVE  OnTheWay(a, wire[e], k)' /\ OnTheWay(a, wire[Back(e)], k)'
  <1> DEFINE o == Back(e)
             x == session'[a].mine
  <1>0. o \in Ends /\ wire[e] \in Seq(Message) /\ wire[o] \in Seq(Message)
    BY EndsFacts DEF TypeOK
  <1>1. /\ OnlyQueued(wire[e]) => OnlyQueued(wire'[e])
        /\ Carries(wire[e], x, k) => Carries(wire'[e], x, k)
    BY <1>0, CarriesTail DEF OnlyAdds
  <1>2. /\ OnlyQueued(wire[o]) => OnlyQueued(wire'[o])
        /\ Carries(wire[o], x, k) => Carries(wire'[o], x, k)
    BY <1>0, CarriesMore DEF OnlyAdds
  <1>3. /\ OnlyQueued(wire'[e]) => Carries(wire'[e], x, k)
        /\ OnlyQueued(wire'[o]) => Carries(wire'[o], x, k)
    BY DEF OnlyQueued, Carries
  <1> QED
    BY <1>1, <1>2, <1>3 DEF OnTheWay

AliceOf(e) == IF IsAlice(e) THEN e ELSE Back(e)

LEMMA PairFacts ==
    ASSUME NEW e \in Ends
    PROVE  /\ AliceOf(e) \in Ends /\ Back(AliceOf(e)) \in Ends
           /\ {AliceOf(e), Back(AliceOf(e))} = {e, Back(e)}
           /\ IsAlice(e) => AliceOf(e) = e /\ Back(AliceOf(e)) = Back(e)
           /\ ~ IsAlice(e) => AliceOf(e) = Back(e) /\ Back(AliceOf(e)) = e
  BY EndsFacts DEF AliceOf

LEMMA InStepHas ==
    ASSUME NEW e \in Ends, NEW k
    PROVE  InStep(AliceOf(e), k) <=> /\ Has(e, k) /\ Has(Back(e), k)
                                     /\ Learnt(AliceOf(e), Back(AliceOf(e)))
                                     /\ OnTheWay(AliceOf(e), wire[e], k)
                                     /\ OnTheWay(AliceOf(e), wire[Back(e)], k)
  BY PairFacts DEF InStep

LEMMA InStepStage ==
    ASSUME TypeOK, NEW e \in Ends, NEW k \in Keys \ {None}, InStep(AliceOf(e), k),
           Elsewhere(e), OneStage(e), OnlyAdds(e), Has(e, k)'
    PROVE  InStep(AliceOf(e), k)'
  <1> DEFINE o == Back(e)
             a == AliceOf(e)
  <1>0. o \in Ends /\ o # e /\ wire[o] \in Seq(Message) /\ <<>> \in Seq(Message)
    BY EndsFacts DEF TypeOK
  <1>1. ready'[o] = ready[o] /\ session'[o] = session[o] /\ worker'[o] = worker[o]
    BY <1>0 DEF Elsewhere
  <1>2. Has(o, k)'
    BY <1>0, InStepHas, HasElsewhere DEF OnlyAdds
  <1>3. ready[a] => ready'[a] /\ session'[a].mine = session[a].mine
    BY <1>1, PairFacts DEF OneStage, Post
  <1>4. OnTheWay(a, wire[e], k)' /\ OnTheWay(a, wire[o], k)'
    BY <1>3, PairFacts, InStepHas, OnTheWayStays
  <1>5. Learnt(a, Back(a))
    BY InStepHas
  <1>6. CASE IsAlice(e)
    <2>1. a = e /\ Back(a) = o
      BY <1>6, PairFacts
    <2>2. Post(o)' <=> Post(o)
      BY <1>1 DEF Post, Pc
    <2> QED
      BY <1>1, <1>2, <1>3, <1>4, <1>5, <2>1, <2>2 DEF Learnt, InStep
  <1>7. CASE ~ IsAlice(e)
    <2>1. a = o /\ Back(a) = e
      BY <1>7, PairFacts
    <2>2. Learnt(a, e)'
      BY <1>1, <1>5, <1>7, <2>1 DEF Learnt, OneStage
    <2> QED
      BY <1>2, <1>4, <2>1, <2>2 DEF InStep
  <1> QED
    BY <1>6, <1>7

LEMMA InStepHandshake ==
    ASSUME TypeOK, NEW e \in Ends, NEW k \in Keys \ {None}, InStep(AliceOf(e), k),
           Alone(e), Local(e), NEW w \in Worker, Handshake(e, w)
    PROVE  InStep(AliceOf(e), k)'
  <1>0. w = "live" /\ Elsewhere(e) /\ Has(e, k) /\ "live" \in Worker
    BY OnlyLive, HandshakeFrame, InStepHas DEF Handle
  <1>1. CASE HelloTaken(e, w)
    <2>t. Takes(e, w)
      BY <1>1, HelloTakenEffect
    <2>w. wire'[e] = Tail(wire[e]) /\ wire[e] # <<>> /\ wire'[Back(e)] = wire[Back(e)]
      BY <1>0, <2>t, TakesEffect, EndsFacts
    <2>1. OnlyAdds(e)
      BY <2>w DEF OnlyAdds
    <2> QED
      BY <1>0, <1>1, <2>1, HasHello, InStepStage
  <1>2. CASE HelloDropped(e, w)
    <2>1. \A v \in Worker : worker[e][v] = Idle
      BY <1>0, <1>2, HelloDroppedEffect, TakesEffect DEF Local, HasLost, Worker
    <2> QED
      BY <1>2, <2>1, HelloDroppedEffect DEF Alone
  <1>3. CASE Look(e, w)
    <2>1. OnlyAdds(e)
      BY <1>3, LookEffect DEF OnlyAdds
    <2> QED
      BY <1>0, <1>3, <2>1, HasLook, InStepStage
  <1>4. CASE Derive(e, w)
    <2>1. OnlyAdds(e)
      BY <1>4, DeriveEffect DEF OnlyAdds
    <2> QED
      BY <1>0, <1>4, <2>1, HasDerive, InStepStage
  <1>5. CASE Store(e, w)
    <2>1. OnlyAdds(e)
      BY <1>5, StoreEffect DEF OnlyAdds
    <2> QED
      BY <1>0, <1>5, <2>1, HasStore, InStepStage
  <1>6. CASE Finish(e, w)
    <2>1. key'[e[1]] \in Keys
      BY <1>6, FinishEffect
    <2>2. /\ <<Hello(key'[e[1]])>> \in Seq(Message)
          /\ OnlyQueued(<<Hello(key'[e[1]])>>)
      BY <2>1, ValueTypes, CarriesOne DEF Hello
    <2>3. OnlyAdds(e)
      BY <1>6, <2>2, FinishEffect DEF OnlyAdds
    <2> QED
      BY <1>0, <1>6, <2>3, HasFinish, InStepStage
  <1> QED
    BY <1>1, <1>2, <1>3, <1>4, <1>5, <1>6 DEF Handshake

\* What an end that is ready seals is under the root of the two keys.
LEMMA SealedCarries ==
    ASSUME TypeOK, NEW e \in Ends, NEW k \in Keys \ {None}, InStep(AliceOf(e), k),
           ready[e], HasSendChain(e, session[e])
    PROVE  /\ ready[AliceOf(e)]
           /\ Sealed(e, session[e]) \in Message
           /\ Carries(<<Sealed(e, session[e])>>, session[AliceOf(e)].mine, k)
  <1> DEFINE s == session[e]
  <1>1. Has(e, k) /\ Post(e) /\ s \in SessionType
    BY InStepHas DEF Post, TypeOK
  <1>2. s.sound
    BY <1>1 DEF Has, Prepared
  <1>3. Sealed(e, s) \in Message
    BY <1>1, ValueTypes DEF Sealed, SessionType
  <1>4. CASE IsAlice(e)
    <2>1. s.theirs = k /\ AliceOf(e) = e
      BY <1>1, <1>4, PairFacts DEF Has, AliceHas
    <2>2. Sealed(e, s).a = s.mine /\ Sealed(e, s).b = k
      BY <1>2, <1>4, <2>1 DEF Sealed, Ratchet
    <2> QED
      BY <1>3, <2>1, <2>2, CarriesOne
  <1>5. CASE ~ IsAlice(e)
    <2>1. s.mine = k /\ s.theirs # None
      BY <1>1, <1>2, <1>5 DEF Has, BobHas, HasSendChain
    <2>2. ready[AliceOf(e)] /\ s.theirs = session[AliceOf(e)].mine
      BY <1>1, <1>5, <2>1, InStepHas, PairFacts DEF Learnt
    <2>3. Sealed(e, s).a = session[AliceOf(e)].mine /\ Sealed(e, s).b = k
      BY <1>2, <1>5, <2>1, <2>2 DEF Sealed, Ratchet
    <2> QED
      BY <1>3, <2>2, <2>3, CarriesOne
  <1> QED
    BY <1>4, <1>5

LEMMA InStepSends ==
    ASSUME TypeOK, NEW e \in Ends, NEW k \in Keys \ {None}, InStep(AliceOf(e), k),
           Local(e), Send(e) \/ SendOffline(e) \/ Flush(e)
    PROVE  InStep(AliceOf(e), k)'
  <1> DEFINE o == Back(e)
             a == AliceOf(e)
  <1>0. /\ o \in Ends /\ o # e /\ Elsewhere(e) /\ Has(e, k)
        /\ wire[e] \in Seq(Message) /\ wire[o] \in Seq(Message)
    BY EndsFacts, MessageFrame, InStepHas DEF TypeOK
  <1>1. Has(e, k)' /\ OneStage(e)
    BY <1>0, HasSends
  <1>2. CASE OnlyAdds(e)
    BY <1>0, <1>1, <1>2, InStepStage
  <1>3. CASE ~ OnlyAdds(e)
    <2>1. ~ SendOffline(e)
      BY <1>3, SendOfflineEffect DEF OnlyAdds
    <2>2. ~ Flush(e)
      <3>1. ASSUME NEW q \in Seq(Message), \A i \in DOMAIN q : q[i].queued PROVE OnlyQueued(q)
        BY <3>1 DEF OnlyQueued
      <3> QED
        BY <1>3, <3>1, FlushEffect DEF OnlyAdds
    <2>3. Send(e)
      BY <2>1, <2>2
    <2>4. /\ ready[e] /\ wire'[e] = wire[e]
          /\ UNCHANGED <<worker, session, ready>>
      BY <2>3, SendEffect
    <2>5. PICK m \in {Sealed(e, session[e]), Legacy} :
            /\ HasSendChain(e, session[e]) \/ m = Legacy
            /\ wire'[o] = wire[o] \/ wire'[o] = wire[o] \o <<m>>
      BY <2>3, SendEffect
    <2>6. m # Legacy
      <3>1. <<Legacy>> \in Seq(Message) /\ OnlyQueued(<<Legacy>>)
        BY ValueTypes, CarriesOne DEF Legacy
      <3> QED
        BY <1>3, <2>4, <2>5, <3>1 DEF OnlyAdds
    <2>7. ready[a] /\ m \in Message /\ Carries(<<m>>, session[a].mine, k)
      BY <2>4, <2>5, <2>6, SealedCarries
    <2>8. Has(o, k)'
      <3>1. <<m>> \in Seq(Message)
        BY <2>7
      <3> QED
        BY <1>0, <2>5, <3>1, InStepHas, HasElsewhere
    <2>9. OnTheWay(a, wire[e], k)' /\ OnTheWay(a, wire[o], k)'
      <3>1. <<m>> \in Seq(Message) /\ Carries(wire[o], session[a].mine, k)
        BY <2>7, InStepHas DEF OnTheWay
      <3>2. Carries(wire'[o], session[a].mine, k)
        BY <1>0, <2>5, <2>7, <3>1, CarriesMore
      <3> QED
        BY <2>4, <2>7, <3>2, InStepHas DEF OnTheWay
    <2>10. Learnt(a, Back(a))'
      BY <2>4, InStepHas DEF Learnt, Post, Pc
    <2> QED
      BY <1>1, <2>8, <2>9, <2>10, PairFacts DEF InStep
  <1> QED
    BY <1>2, <1>3

\* A message that is taken and was sent when it was encrypted.
LEMMA TakenCarries ==
    ASSUME TypeOK, NEW e \in Ends, NEW k \in Keys \ {None}, InStep(AliceOf(e), k),
           wire[e] # <<>>, Head(wire[e]).kind = "ratchet", ~ Head(wire[e]).queued
    PROVE  /\ ready[AliceOf(e)] /\ Head(wire[e]).a = session[AliceOf(e)].mine
           /\ Head(wire[e]).b = k
  <1>1. wire[e] \in Seq(Message) /\ OnTheWay(AliceOf(e), wire[e], k)
    BY InStepHas DEF TypeOK
  <1> QED
    BY <1>1, CarriesTail DEF OnTheWay

LEMMA InStepDecrypt ==
    ASSUME TypeOK, NEW e \in Ends, NEW k \in Keys \ {None}, InStep(AliceOf(e), k),
           Local(e), Decrypt(e, "live"), clean'[e]
    PROVE  InStep(AliceOf(e), k)'
  <1> DEFINE o == Back(e)
             a == AliceOf(e)
             m == Head(wire[e])
  <1>0. /\ o \in Ends /\ o # e /\ Elsewhere(e) /\ Has(e, k) /\ "live" \in Worker
        /\ wire[o] \in Seq(Message) /\ <<>> \in Seq(Message)
    BY EndsFacts, MessageFrame, InStepHas DEF TypeOK, Worker
  <1>1. /\ Has(e, k)' /\ ready'[e] /\ Post(e)
        /\ session'[e].mine = session[e].mine
        /\ IsAlice(e) => session'[e] = session[e]
        /\ session'[e].theirs = session[e].theirs \/ (m.kind # "legacy" /\ session'[e].theirs = m.a)
    BY <1>0, HasDecrypt
  <1>2. /\ ready[e] /\ wire[e] # <<>> /\ wire'[e] = Tail(wire[e]) /\ Queue(e, "live") = wire[e]
        /\ m \in Message /\ m.kind # "hello"
    BY <1>0, MessageWaits
  <1>3. ~ m.queued /\ ready' = ready
    BY <1>0, <1>2, DecryptEffect
  <1>t. Takes(e, "live")
    BY <1>0, DecryptEffect
  <1>4. wire'[o] = wire[o]
    BY <1>0, <1>t, TakesEffect
  <1>5. OnlyAdds(e)
    BY <1>2, <1>4 DEF OnlyAdds
  <1>6. ready'[o] = ready[o] /\ session'[o] = session[o] /\ worker'[o] = worker[o]
    BY <1>0 DEF Elsewhere
  <1>7. Has(o, k)'
    BY <1>0, <1>4, InStepHas, HasElsewhere
  <1>8. session'[a].mine = session[a].mine
    BY <1>1, <1>6, PairFacts
  <1>9. OnTheWay(a, wire[e], k)' /\ OnTheWay(a, wire[o], k)'
    BY <1>3, <1>5, <1>8, PairFacts, InStepHas, OnTheWayStays
  <1>10. Learnt(a, Back(a))'
    <2>1. CASE IsAlice(e)
      BY <1>1, <1>3, <1>6, <2>1, PairFacts, InStepHas DEF Learnt, Post, Pc
    <2>2. CASE ~ IsAlice(e)
      <3>1. m.kind # "legacy" => m.kind = "ratchet"
        BY <1>2 DEF Message
      <3>2. m.kind # "legacy" => ready[a] /\ m.a = session[a].mine
        BY <1>2, <1>3, <3>1, TakenCarries
      <3>3. Learnt(a, e)
        BY <2>2, PairFacts, InStepHas
      <3> QED
        BY <1>1, <1>3, <1>6, <2>2, <3>2, <3>3, PairFacts DEF Learnt
    <2> QED
      BY <2>1, <2>2
  <1> QED
    BY <1>1, <1>7, <1>9, <1>10, PairFacts DEF InStep

\* No such message fails to open.
LEMMA InStepOpens ==
    ASSUME TypeOK, NEW e \in Ends, NEW k \in Keys \ {None}, InStep(AliceOf(e), k),
           Local(e), DecryptFails(e, "live")
    PROVE  Head(wire[e]).queued
  <1> DEFINE m == Head(wire[e])
             a == AliceOf(e)
  <1>0. Has(e, k) /\ "live" \in Worker
    BY InStepHas DEF Worker
  <1>1. /\ ready[e] /\ session[e].there /\ session[e].sound /\ legacy[e]
        /\ wire[e] # <<>> /\ Queue(e, "live") = wire[e]
        /\ m \in Message /\ m.kind # "hello"
    BY <1>0, MessageWaits
  <1>2. ~ Opens(e, m) /\ Used(e) = session[e]
    BY <1>0, <1>1, DecryptFailsEffect, UsedType
  <1>3. m.kind = "ratchet"
    BY <1>1, <1>2 DEF Message, Opens
  <1>4. SUFFICES ASSUME ~ m.queued PROVE FALSE
    BY <1>1 DEF Message
  <1>5. ready[a] /\ m.a = session[a].mine /\ m.b = k
    BY <1>1, <1>3, <1>4, TakenCarries
  <1>6. Post(e)
    BY <1>1 DEF Post
  <1>7. CASE IsAlice(e)
    <2>1. a = e /\ session[e].theirs = k
      BY <1>0, <1>6, <1>7, PairFacts DEF Has, AliceHas
    <2> QED
      BY <1>1, <1>2, <1>3, <1>5, <1>7, <2>1 DEF Opens
  <1>8. CASE ~ IsAlice(e)
    <2>1. session[e].mine = k
      BY <1>0, <1>6, <1>8 DEF Has, BobHas
    <2>2. session[e].theirs \in {None, session[a].mine}
      BY <1>6, <1>8, PairFacts, InStepHas DEF Learnt
    <2> QED
      BY <1>1, <1>2, <1>3, <1>5, <1>8, <2>1, <2>2 DEF Opens
  <1> QED
    BY <1>7, <1>8

\* The end that opens last finds the handshake of the other, and sends its own.
LEMMA InStepOpen ==
    ASSUME TypeOK, NEW e \in Ends, Alone(e), Alone(Back(e)), Half(Back(e)),
           Open(e), clean'[e], clean[Back(e)]
    PROVE  \E k \in Keys \ {None} : InStep(AliceOf(e), k)'
  <1> DEFINE o == Back(e)
             a == AliceOf(e)
             n == key'[e[1]]
  <1>0. /\ o \in Ends /\ o # e /\ Back(o) = e /\ o[1] = e[2]
        /\ Elsewhere(e) /\ key'[e[2]] = key[e[2]]
        /\ IsAlice(e) <=> ~ IsAlice(o)
    BY ConnectionFrame, OtherKey, EndsFacts
  <1>1. /\ opening[e] /\ wire'[e] = wire[e] /\ n \in Keys \ {None}
        /\ wire'[o] = IF Gone(o) THEN wire[o] ELSE wire[o] \o <<Hello(n)>>
    BY OpenEffect
  <1>2. HalfOpen(o)
    BY <1>0, <1>1 DEF Half
  <1>3. PICK h \in Keys \ {None} : wire[e] = <<Hello(h)>> /\ (~ IsAlice(o) => key[o[1]] = h)
    BY <1>0, <1>2 DEF HalfOpen
  <1>4. open[o] /\ wire[o] = <<>>
    BY <1>1 DEF Alone
  <1>5. wire'[e] = <<Hello(h)>> /\ wire'[o] = <<Hello(n)>>
    BY <1>1, <1>3, <1>4 DEF Gone
  <1>6. NotStarted(e)' /\ NotStarted(o)'
    <2>1. NotStarted(e)'
      BY LocalConnections
    <2>2. NotStarted(o)'
      BY <1>0, <1>2 DEF HalfOpen, NotStarted, Pc, Elsewhere
    <2> QED
      BY <2>1, <2>2
  <1>7. \A f \in {e, o} : ~ Takes1(f)' /\ ~ Stores(f)' /\ ~ Post(f)'
    BY <1>6 DEF NotStarted, Takes1, Stores, Post
  <1>8. \A f \in {e, o} : Prepared(f)'
    BY <1>5, <1>7 DEF Prepared, Hello
  <1>9. OnlyQueued(wire'[e]) /\ OnlyQueued(wire'[o]) /\ ~ ready'[a]
    BY <1>5, <1>6, PairFacts, CarriesOne DEF Hello, NotStarted
  <1>11. \A k : OnTheWay(a, wire[e], k)' /\ OnTheWay(a, wire[o], k)'
    BY <1>9 DEF OnTheWay
  <1>12. Learnt(a, Back(a))'
    BY <1>7, PairFacts DEF Learnt
  <1>13. CASE IsAlice(e)
    <2>1. Has(e, h)'
      BY <1>5, <1>7, <1>8, <1>13 DEF Has, AliceHas
    <2>2. Has(o, h)'
      BY <1>0, <1>3, <1>7, <1>8, <1>13 DEF Has, BobHas
    <2>3. InStep(a, h)'
      BY <1>11, <1>12, <1>13, <2>1, <2>2, PairFacts DEF InStep
    <2> QED
      BY <2>3
  <1>14. CASE ~ IsAlice(e)
    <2>0. PICK k \in Keys \ {None} : k = n
      BY <1>1
    <2>1. Has(e, k)'
      BY <1>7, <1>8, <1>14, <2>0 DEF Has, BobHas
    <2>2. Head(wire'[o]) = Hello(k)
      BY <1>5, <2>0
    <2>3. Has(o, k)'
      BY <1>0, <1>7, <1>8, <1>14, <2>2 DEF Has, AliceHas
    <2>4. InStep(a, k)'
      BY <1>11, <1>12, <1>14, <2>1, <2>3, PairFacts DEF InStep
    <2> QED
      BY <2>4
  <1> QED
    BY <1>13, <1>14

-----------------------------------------------------------------------------
(* The ends and links that a step does not touch                           *)

Untouched(f) ==
    /\ open'[f] = open[f] /\ opening'[f] = opening[f] /\ wire'[f] = wire[f] /\ late'[f] = late[f]
    /\ worker'[f] = worker[f] /\ session'[f] = session[f] /\ disk'[f] = disk[f]
    /\ legacy'[f] = legacy[f] /\ ready'[f] = ready[f] /\ inFlight'[f] = inFlight[f]
    /\ clean'[f] = clean[f]
    /\ KeptKey(f)

LEMMA LocalUntouched ==
    ASSUME NEW f \in Ends, Untouched(f), clean[f] => Local(f)
    PROVE  clean'[f] => Local(f)'
  BY DEF Untouched, Local, HasLost, Pc, Takes1, Stores, Post

LEMMA HalfUntouched ==
    ASSUME NEW f \in Ends, Untouched(f), Untouched(Back(f)), Half(f)
    PROVE  Half(f)'
  <1>1. CASE clean[f] /\ opening[Back(f)]
    <2>1. HalfOpen(f)'
      BY <1>1, HalfFrame DEF Half, Untouched
    <2> QED
      BY <2>1 DEF Half
  <1>2. CASE ~ (clean[f] /\ opening[Back(f)])
    BY <1>2 DEF Half, Untouched
  <1> QED
    BY <1>1, <1>2

LEMMA HasUntouched ==
    ASSUME NEW f \in Ends, Untouched(f), NEW k \in Keys \ {None}, Has(f, k)
    PROVE  Has(f, k)'
  <1>1. /\ wire'[f] = wire[f] /\ worker'[f] = worker[f] /\ session'[f] = session[f]
        /\ legacy'[f] = legacy[f] /\ ready'[f] = ready[f]
    BY DEF Untouched
  <1>2. Prepared(f)'
    BY <1>1 DEF Has, Prepared, NotStarted, Stores, Post, Pc
  <1>3. CASE IsAlice(f)
    BY <1>1, <1>2, <1>3 DEF Has, AliceHas, NotStarted, Takes1, Stores, Post, Pc
  <1>4. CASE ~ IsAlice(f)
    <2>1. key[f[1]] = k => key'[f[1]] = k
      BY <1>4 DEF Untouched, KeptKey
    <2> QED
      BY <1>1, <1>2, <1>4, <2>1 DEF Has, BobHas, NotStarted, Takes1, Stores, Post, Pc
  <1> QED
    BY <1>3, <1>4

LEMMA MatchedUntouched ==
    ASSUME NEW a \in Link, Untouched(a), Untouched(Back(a)), Matched(a)
    PROVE  Matched(a)'
  <1> DEFINE b == Back(a)
  <1>0. a \in Ends /\ b \in Ends
    BY LinkFacts
  <1>1. /\ clean'[a] = clean[a] /\ clean'[b] = clean[b]
        /\ wire'[a] = wire[a] /\ wire'[b] = wire[b] /\ ready'[a] = ready[a] /\ ready'[b] = ready[b]
        /\ session'[a] = session[a] /\ session'[b] = session[b] /\ worker'[b] = worker[b]
    BY DEF Untouched
  <1>2. CASE clean[a] /\ clean[b]
    <2>1. PICK k \in Keys \ {None} : InStep(a, k)
      BY <1>2 DEF Matched
    <2>2. Has(a, k)' /\ Has(b, k)'
      BY <1>0, <2>1, HasUntouched DEF InStep
    <2>3. Learnt(a, b)'
      BY <1>1, <2>1 DEF InStep, Learnt, Post, Pc
    <2>4. OnTheWay(a, wire[a], k)' /\ OnTheWay(a, wire[b], k)'
      BY <1>1, <2>1 DEF InStep, OnTheWay
    <2>5. InStep(a, k)'
      BY <2>2, <2>3, <2>4 DEF InStep
    <2> QED
      BY <2>5 DEF Matched
  <1>3. CASE ~ (clean[a] /\ clean[b])
    BY <1>1, <1>3 DEF Matched
  <1> QED
    BY <1>2, <1>3

\* No peer is Bob to two others: the key pair of its handshakes is then for one session.
OneLower == \A l, m \in Link : l[2] = m[2] => l = m

LEMMA OneBob ==
    ASSUME OneLower, NEW e \in Ends, NEW f \in Ends, ~ IsAlice(e), ~ IsAlice(f), e[1] = f[1]
    PROVE  e = f
  <1>1. e \notin Link /\ f \notin Link
    BY LinkFacts
  <1>2. PICK l \in Link : e = Back(l)
    BY <1>1 DEF Ends
  <1>3. PICK m \in Link : f = Back(m)
    BY <1>1 DEF Ends
  <1>4. l[2] = m[2]
    BY <1>2, <1>3 DEF Back
  <1> QED
    BY <1>2, <1>3, <1>4 DEF OneLower

LEMMA OthersUntouched ==
    ASSUME OneLower, NEW e \in Ends, Elsewhere(e), ~ IsAlice(e) \/ KeepsKey(e),
           NEW f \in Ends, f # e, f # Back(e)
    PROVE  Untouched(f)
  <1>1. KeptKey(f)
    <2>1. CASE f[1] # e[1]
      BY <2>1, EndsFacts DEF Elsewhere, KeptKey
    <2>2. CASE f[1] = e[1]
      BY <2>2, OneBob DEF KeepsKey, KeptKey
    <2> QED
      BY <2>1, <2>2
  <1> QED
    BY <1>1 DEF Elsewhere, Untouched

\* The inductive invariant: what holds of each end, and, where both ends opened cleanly, the
\* two in step.
EndOK(e) == Alone(e) /\ (clean[e] => Local(e)) /\ Half(e)

Inv ==
    /\ TypeOK
    /\ \A e \in Ends : EndOK(e)
    /\ \A l \in Link : Matched(l)
    /\ FreshOpens

LEMMA InvElsewhere ==
    ASSUME Inv, OneLower, NEW e \in Ends, Elsewhere(e), ~ IsAlice(e) \/ KeepsKey(e),
           TypeOK', EndOK(e)', EndOK(Back(e))', Matched(AliceOf(e))', FreshOpens'
    PROVE  Inv'
  <1> DEFINE o == Back(e)
  <1>1. ASSUME NEW f \in Ends, f # e, f # o PROVE EndOK(f)'
    <2>1. Back(f) \in Ends /\ Back(f) # e /\ Back(f) # o
      BY <1>1, EndsFacts
    <2>2. Untouched(f) /\ Untouched(Back(f))
      BY <1>1, <2>1, OthersUntouched
    <2>3. EndOK(f)
      BY DEF Inv
    <2>4. Alone(f)'
      BY <1>1, <2>3, AloneElsewhere DEF EndOK
    <2>5. clean'[f] => Local(f)'
      BY <2>2, <2>3, LocalUntouched DEF EndOK
    <2>6. Half(f)'
      BY <2>2, <2>3, HalfUntouched DEF EndOK
    <2> QED
      BY <2>4, <2>5, <2>6 DEF EndOK
  <1>2. ASSUME NEW l \in Link, l # AliceOf(e) PROVE Matched(l)'
    <2>1. l \in Ends /\ Back(l) \in Ends /\ IsAlice(l) /\ Back(Back(l)) = l /\ ~ IsAlice(Back(l))
      BY LinkFacts, EndsFacts
    <2>2. l # e /\ l # o
      BY <1>2, <2>1, EndsFacts DEF AliceOf
    <2>3. Back(l) # e /\ Back(l) # o
      BY <2>1, <2>2, EndsFacts
    <2>4. Untouched(l) /\ Untouched(Back(l)) /\ Matched(l)
      BY <2>1, <2>2, <2>3, OthersUntouched DEF Inv
    <2> QED
      BY <2>4, MatchedUntouched
  <1>3. \A f \in Ends : EndOK(f)'
    BY <1>1
  <1>4. \A l \in Link : Matched(l)'
    BY <1>2
  <1> QED
    BY <1>3, <1>4 DEF Inv

LEMMA InvFacts ==
    ASSUME Inv, NEW e \in Ends
    PROVE  /\ TypeOK /\ FreshOpens
           /\ Alone(e) /\ Alone(Back(e)) /\ Half(e) /\ Half(Back(e))
           /\ clean[e] => Local(e)
           /\ clean[Back(e)] => Local(Back(e))
           /\ clean[e] /\ clean[Back(e)] => \E k \in Keys \ {None} : InStep(AliceOf(e), k)
  <1>1. Back(e) \in Ends
    BY EndsFacts
  <1>2. AliceOf(e) \in Link
    <2>1. IsAlice(e) => e \in Link
      BY LinkFacts DEF Ends
    <2>2. ~ IsAlice(e) => Back(e) \in Link
      BY LinkFacts, EndsFacts DEF Ends
    <2> QED
      BY <2>1, <2>2 DEF AliceOf
  <1>3. clean[e] /\ clean[Back(e)] => clean[AliceOf(e)] /\ clean[Back(AliceOf(e))]
    BY PairFacts
  <1> QED
    BY <1>1, <1>2, <1>3 DEF Inv, EndOK, Matched

LEMMA MatchedOf ==
    ASSUME NEW e \in Ends,
           clean'[e] /\ clean'[Back(e)] => \E k \in Keys \ {None} : InStep(AliceOf(e), k)'
    PROVE  Matched(AliceOf(e))'
  BY PairFacts DEF Matched

LEMMA InvConnections ==
    ASSUME Inv, OneLower, NEW e \in Ends, TypeOK',
           Connect(e) \/ Open(e) \/ OpenFails(e) \/ Close(e) \/ CooldownEnds(e)
    PROVE  Inv'
  <1> DEFINE o == Back(e)
  <1>1. Elsewhere(e) /\ KeepsKey(e) /\ o \in Ends /\ o # e
    BY ConnectionFrame, EndsFacts DEF Inv
  <1>2. /\ TypeOK /\ Alone(e) /\ Alone(o) /\ Half(o) /\ FreshOpens
        /\ clean[o] => Local(o)
    BY InvFacts
  <1>3. Alone(e)' /\ Alone(o)'
    BY <1>2, AloneConnections
  <1>4. Half(e)' /\ Half(o)'
    BY <1>2, HalfConnections
  <1>5. clean'[o] = clean[o]
    BY <1>1 DEF Elsewhere
  <1>6. clean'[o] => Local(o)'
    BY <1>1, <1>2, <1>5, LocalElsewhere
  <1>7. clean'[e] => Open(e) /\ Local(e)'
    BY <1>2, LocalConnections
  <1>8. Matched(AliceOf(e))'
    BY <1>2, <1>5, <1>7, InStepOpen, MatchedOf
  <1>9. failed' = failed
    BY <1>2, ConnectEffect, OpenEffect, OpenFailsEffect, CloseEffect DEF CooldownEnds, history
  <1> QED
    BY <1>1, <1>2, <1>3, <1>4, <1>6, <1>7, <1>8, <1>9, InvElsewhere DEF EndOK, FreshOpens

LEMMA InvWork ==
    ASSUME Inv, OneLower, NEW e \in Ends, TypeOK',
           \/ Send(e) \/ SendOffline(e) \/ Flush(e)
           \/ \E w \in Worker : Handle(e, w)
    PROVE  Inv'
  <1> DEFINE o == Back(e)
  <1>1. Elsewhere(e) /\ (~ IsAlice(e) \/ KeepsKey(e)) /\ o \in Ends /\ o # e
    BY HandshakeFrame, MessageFrame, EndsFacts DEF Inv, Handle
  <1>2. /\ TypeOK /\ Alone(e) /\ Alone(o) /\ Half(e) /\ Half(o) /\ FreshOpens
        /\ clean[e] => Local(e)
        /\ clean[o] => Local(o)
    BY InvFacts
  <1>3. Alone(e)' /\ Alone(o)'
    BY <1>2, AloneHandshake, AloneMessage DEF Handle
  <1>4. Half(e)' /\ Half(o)'
    BY <1>2, HalfWork
  <1>5. clean'[o] = clean[o] /\ (clean'[e] => clean[e])
    <2>1. clean'[o] = clean[o]
      BY <1>1 DEF Elsewhere
    <2>2. CASE Send(e) \/ SendOffline(e) \/ Flush(e)
      BY <1>2, <2>1, <2>2, SendEffect, SendOfflineEffect, FlushEffect
    <2>3. ASSUME NEW w \in Worker, Handle(e, w) PROVE clean'[e] => clean[e]
      BY <1>2, <2>3, HelloTakenEffect, HelloDroppedEffect, LookEffect, DeriveEffect, StoreEffect,
         FinishEffect, DecryptEffect, DecryptFailsEffect DEF Handle, Handshake
    <2> QED
      BY <2>1, <2>2, <2>3
  <1>6. clean'[o] => Local(o)'
    BY <1>1, <1>2, <1>5, LocalElsewhere
  <1>7. clean'[e] => Local(e)'
    BY <1>2, <1>5, LocalHandshake, LocalMessage DEF Handle
  <1>8. Matched(AliceOf(e))'
    <2>1. ASSUME clean'[e], clean'[o] PROVE \E k \in Keys \ {None} : InStep(AliceOf(e), k)'
      <3>1. clean[e] /\ clean[o] /\ Local(e)
        BY <1>2, <1>5, <2>1
      <3>2. PICK k \in Keys \ {None} : InStep(AliceOf(e), k)
        BY <3>1, InvFacts
      <3>3. CASE Send(e) \/ SendOffline(e) \/ Flush(e)
        BY <1>2, <3>1, <3>2, <3>3, InStepSends
      <3>4. ASSUME NEW w \in Worker, Handshake(e, w) PROVE InStep(AliceOf(e), k)'
        BY <1>2, <3>1, <3>2, <3>4, InStepHandshake
      <3>5. ASSUME NEW w \in Worker, Decrypt(e, w) PROVE InStep(AliceOf(e), k)'
        BY <1>2, <2>1, <3>1, <3>2, <3>5, OnlyLive, InStepDecrypt DEF Handle
      <3>6. ASSUME NEW w \in Worker, DecryptFails(e, w) PROVE FALSE
        <4>1. w = "live" /\ DecryptFails(e, "live")
          BY <1>2, <3>1, <3>6, OnlyLive DEF Handle
        <4>2. Head(wire[e]).queued
          BY <1>2, <3>1, <3>2, <4>1, InStepOpens
        <4>3. Queue(e, "live") = wire[e] /\ "live" \in Worker
          BY DEF Queue, Worker
        <4> QED
          BY <1>2, <2>1, <4>1, <4>2, <4>3, DecryptFailsEffect
      <3> QED
        BY <3>2, <3>3, <3>4, <3>5, <3>6 DEF Handle
    <2> QED
      BY <2>1, MatchedOf
  <1>9. FreshOpens'
    <2>1. CASE Send(e) \/ SendOffline(e) \/ Flush(e)
      BY <1>2, <2>1, SendEffect, SendOfflineEffect, FlushEffect DEF FreshOpens
    <2>2. ASSUME NEW w \in Worker, Handshake(e, w) \/ Decrypt(e, w) PROVE FreshOpens'
      BY <1>2, <2>2, HelloTakenEffect, HelloDroppedEffect, LookEffect, DeriveEffect, StoreEffect,
         FinishEffect, DecryptEffect DEF Handshake, FreshOpens
    <2>3. ASSUME NEW w \in Worker, DecryptFails(e, w) PROVE FreshOpens'
      <3>1. CASE w = "live" /\ clean[e] /\ clean[o]
        <4>1. PICK k \in Keys \ {None} : InStep(AliceOf(e), k)
          BY <3>1, InvFacts
        <4>2. Head(wire[e]).queued
          BY <1>2, <2>3, <3>1, <4>1, InStepOpens
        <4>3. Queue(e, w) = wire[e]
          BY <3>1 DEF Queue
        <4> QED
          BY <1>2, <2>3, <4>2, <4>3, DecryptFailsEffect DEF FreshOpens
      <3>2. CASE ~ (w = "live" /\ clean[e] /\ clean[o])
        BY <1>2, <2>3, <3>2, DecryptFailsEffect DEF FreshOpens
      <3> QED
        BY <3>1, <3>2
    <2> QED
      BY <2>1, <2>2, <2>3 DEF Handle
  <1> QED
    BY <1>1, <1>2, <1>3, <1>4, <1>6, <1>7, <1>8, <1>9, InvElsewhere DEF EndOK

LEMMA InvRestart ==
    ASSUME Inv, NEW p \in Peer, Restart(p), TypeOK'
    PROVE  Inv'
  <1>0. TypeOK
    BY DEF Inv
  <1>1. \A f \in Ends : f[1] = p => ~ opening'[f] /\ ~ clean'[f]
    BY <1>0, RestartEffect
  <1>2. \A f \in Ends : f[1] # p => Untouched(f)
    BY <1>0, EndsFacts, RestartEffect DEF Untouched, KeptKey
  <1>3. ASSUME NEW f \in Ends PROVE EndOK(f)'
    <2>1. EndOK(f) /\ Back(f) \in Ends
      BY EndsFacts DEF Inv
    <2>2. Alone(f)'
      BY <1>0, <2>1, AloneRestart DEF EndOK
    <2>3. clean'[f] => Local(f)'
      BY <1>1, <1>2, <2>1, LocalUntouched DEF EndOK
    <2>4. Half(f)'
      <3>1. CASE f[1] = p \/ Back(f)[1] = p
        BY <1>1, <2>1, <3>1 DEF Half
      <3>2. CASE f[1] # p /\ Back(f)[1] # p
        BY <1>2, <2>1, <3>2, HalfUntouched DEF EndOK
      <3> QED
        BY <3>1, <3>2
    <2> QED
      BY <2>2, <2>3, <2>4 DEF EndOK
  <1>4. ASSUME NEW l \in Link PROVE Matched(l)'
    <2>1. l \in Ends /\ Back(l) \in Ends /\ Matched(l)
      BY LinkFacts DEF Inv
    <2>2. CASE l[1] = p \/ Back(l)[1] = p
      BY <1>1, <2>1, <2>2 DEF Matched
    <2>3. CASE l[1] # p /\ Back(l)[1] # p
      BY <1>2, <2>1, <2>3, MatchedUntouched
    <2> QED
      BY <2>2, <2>3
  <1>5. FreshOpens'
    BY <1>0, RestartEffect DEF Inv, FreshOpens
  <1> QED
    BY <1>3, <1>4, <1>5 DEF Inv

LEMMA InvInit == Init => Inv
  <1> SUFFICES ASSUME Init PROVE Inv
    OBVIOUS
  <1>1. TypeOK
    BY TypeInit
  <1>2. ASSUME NEW e \in Ends PROVE EndOK(e)
    <2>1. /\ ~ opening[e] /\ ~ open[e] /\ wire[e] = <<>> /\ ~ inFlight[e] /\ ~ clean[e]
          /\ \A w \in Worker : worker[e][w] = Idle
      BY DEF Init
    <2> QED
      BY <2>1 DEF EndOK, Alone, Half, Worker
  <1>3. \A l \in Link : Matched(l)
    BY LinkFacts DEF Init, Matched
  <1>4. FreshOpens
    BY DEF Init, FreshOpens
  <1> QED
    BY <1>1, <1>2, <1>3, <1>4 DEF Inv

LEMMA InvStep == OneLower /\ Inv /\ [Next]_vars => Inv'
  <1> SUFFICES ASSUME OneLower, Inv, [Next]_vars PROVE Inv'
    OBVIOUS
  <1>0. TypeOK'
    BY TypeStep DEF Inv
  <1>1. ASSUME NEW l \in Link, Connect(l) PROVE Inv'
    BY <1>0, <1>1, LinkFacts, InvConnections
  <1>2. ASSUME NEW p \in Peer, Restart(p) PROVE Inv'
    BY <1>0, <1>2, InvRestart
  <1>3. ASSUME NEW e \in Ends, Open(e) \/ OpenFails(e) \/ Close(e) \/ CooldownEnds(e) PROVE Inv'
    BY <1>0, <1>3, InvConnections
  <1>4. ASSUME NEW e \in Ends, Send(e) \/ SendOffline(e) \/ Flush(e) PROVE Inv'
    BY <1>0, <1>4, InvWork
  <1>5. ASSUME NEW e \in Ends, NEW w \in Worker, Handle(e, w) PROVE Inv'
    BY <1>0, <1>5, InvWork
  <1>6. CASE UNCHANGED vars
    <2>1. \A f \in Ends : Untouched(f)
      BY <1>6 DEF vars, connection, memory, marks, history, Untouched, KeptKey
    <2>2. ASSUME NEW f \in Ends PROVE EndOK(f)'
      <3>1. EndOK(f) /\ Back(f) \in Ends
        BY EndsFacts DEF Inv
      <3>2. Alone(f)'
        BY <2>1, <3>1 DEF EndOK, Alone, Gone, Untouched
      <3>3. clean'[f] => Local(f)'
        BY <2>1, <3>1, LocalUntouched DEF EndOK
      <3>4. Half(f)'
        BY <2>1, <3>1, HalfUntouched DEF EndOK
      <3> QED
        BY <3>2, <3>3, <3>4 DEF EndOK
    <2>3. ASSUME NEW l \in Link PROVE Matched(l)'
      BY <2>1, LinkFacts, MatchedUntouched DEF Inv
    <2>4. FreshOpens'
      BY <1>6 DEF vars, history, Inv, FreshOpens
    <2> QED
      BY <1>0, <2>2, <2>3, <2>4 DEF Inv
  <1> QED
    BY <1>1, <1>2, <1>3, <1>4, <1>5, <1>6 DEF Next

LEMMA InvAgrees == Inv => SessionsAgree
  <1> SUFFICES ASSUME Inv, NEW l \in Link, Settled(l), Settled(Back(l)), clean[l], clean[Back(l)]
               PROVE  Agree(session[l], session[Back(l)])
    BY DEF SessionsAgree
  <1>1. l \in Ends /\ Back(l) \in Ends /\ IsAlice(l) /\ ~ IsAlice(Back(l))
    BY LinkFacts
  <1>2. PICK k \in Keys \ {None} : InStep(l, k)
    BY DEF Inv, Matched
  <1>3. Post(l) /\ Post(Back(l))
    BY DEF Settled, Post
  <1>4. session[l].there /\ session[Back(l)].there
    BY <1>1, <1>3 DEF Inv, EndOK, Local
  <1>5. session[l].theirs = k /\ session[l].sound
    BY <1>1, <1>2, <1>3 DEF InStep, Has, AliceHas, Prepared
  <1>6. session[Back(l)].mine = k /\ session[Back(l)].sound
    BY <1>1, <1>2, <1>3 DEF InStep, Has, BobHas, Prepared
  <1>7. session[Back(l)].theirs \in {None, session[l].mine}
    BY <1>2, <1>3 DEF InStep, Learnt
  <1> QED
    BY <1>4, <1>5, <1>6, <1>7 DEF Agree

LEMMA Inductive == OneLower /\ Spec => []Inv
  <1>1. OneLower /\ Init => OneLower /\ Inv
    BY InvInit
  <1>2. (OneLower /\ Inv) /\ [Next]_vars => (OneLower /\ Inv)'
    BY InvStep DEF OneLower
  <1> QED
    BY <1>1, <1>2, PTL DEF Spec

\* In a connection that both ends have opened cleanly, peers that are both ready have
\* sessions that match (the handshake handler, processHandshake), if no peer is Bob to
\* two others.
THEOREM SettledAgree == OneLower /\ Spec => []SessionsAgree
  <1> QED
    BY Inductive, InvAgrees, PTL

\* In such a connection every message sent when it is encrypted opens (encryptMessage,
\* decryptMessage).
THEOREM MessagesOpen == OneLower /\ Spec => []FreshOpens
  <1>1. Inv => FreshOpens
    BY DEF Inv
  <1> QED
    BY <1>1, Inductive, PTL
=============================================================================
