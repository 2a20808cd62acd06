------------------------ MODULE PeerTransportProofs ------------------------
(***************************************************************************)
(* Theorems about PeerTransport, for any number of connections, retries    *)
(* and faults.                                                             *)
(***************************************************************************)
EXTENDS PeerTransport, TLAPS

-----------------------------------------------------------------------------
(* Connections                                                             *)

IsOpen(k, c, p) == k[c].end[p] = "open"

\* An end is not open before its offer has arrived.
ConnOK == {k \in ConnType : k.phase = "offered" => k.end[Other(k.from)] # "open"}

Conns == [Slot -> ConnOK]
Entries == [Peer -> EntryType]

\* No end of k is open that is not open in conn, and the other way round.
SameOpen(k) == \A c \in Slot, p \in Peer : IsOpen(k, c, p) <=> IsOpen(conn, c, p)

LEMMA OtherPeer ==
    ASSUME NEW p \in Peer
    PROVE  Other(p) \in Peer /\ Other(p) # p /\ \A q \in Peer : q = p \/ q = Other(p)
  BY TransportAssumption DEF Peer, Other

LEMMA ValueTypes ==
    /\ NoEntry \in EntryType /\ FreeConn \in ConnOK /\ IdleLoop \in LoopType
    /\ \A c \in Slot : Entry(c, "connecting") \in EntryType /\ Entry(c, "connected") \in EntryType
    /\ \A c \in Slot, p \in Peer : FreeConn.end[p] = "none"
    /\ \A e \in EntryType : e # NoEntry => e.conn \in Slot
    /\ \A e \in EntryType : e = Entry(e.conn, e.status)
  BY TransportAssumption DEF NoEntry, EntryType, FreeConn, ConnOK, ConnType, Peer, IdleLoop, LoopType, Entry

LEMMA BecomesEffect ==
    ASSUME NEW k \in Conns, Becomes(k)
    PROVE  /\ conn' \in Conns
           /\ \A c \in Slot, p \in Peer : IsOpen(conn', c, p) <=> IsOpen(k, c, p)
  <1>1. \A c \in Slot : conn'[c] = IF Forgotten(k, c) THEN FreeConn ELSE k[c]
    BY DEF Becomes
  <1>2. \A c \in Slot : Forgotten(k, c) => \A p \in Peer : k[c].end[p] # "open"
    BY DEF Forgotten, Alive
  <1>3. \A c \in Slot : conn'[c] \in ConnOK
    BY <1>1, ValueTypes DEF Conns
  <1>4. conn' \in Conns
    BY <1>1, <1>3 DEF Becomes, Conns
  <1> QED
    BY <1>1, <1>2, <1>4, ValueTypes DEF IsOpen

LEMMA ShutEffect ==
    ASSUME NEW k \in Conns, NEW c \in Slot, NEW p \in Peer
    PROVE  /\ Shut(k, c, p) \in Conns
           /\ \A d \in Slot, q \in Peer :
                IsOpen(Shut(k, c, p), d, q) <=> IsOpen(k, d, q) /\ ~ (d = c /\ q = p)
  <1>1. Shut(k, c, p) = [k EXCEPT ![c] = [k[c] EXCEPT !.end = [k[c].end EXCEPT ![p] = "shut"]]]
    BY DEF Shut
  <1>2. k[c] \in ConnOK
    BY DEF Conns
  <1>3. [k[c] EXCEPT !.end = [k[c].end EXCEPT ![p] = "shut"]] \in ConnOK
    BY <1>2, OtherPeer DEF ConnOK, ConnType
  <1>4. Shut(k, c, p) \in Conns
    BY <1>1, <1>3 DEF Conns
  <1>5. \A d \in Slot, q \in Peer :
            Shut(k, c, p)[d].end[q] = IF d = c /\ q = p THEN "shut" ELSE k[d].end[q]
    BY <1>1, <1>2 DEF Conns, ConnOK, ConnType
  <1> QED
    BY <1>4, <1>5 DEF IsOpen

\* What registering a new connection, or refusing it, leaves alone.
LEMMA SetupEffect ==
    ASSUME NEW p \in Peer, NEW e \in EntryType, NEW c \in Slot, NEW inbound \in BOOLEAN,
           NEW k \in Conns, entry \in Entries, Setup(p, e, c, k, inbound),
           ~ IsOpen(k, c, p),
           e.status = "connecting" => ~ IsOpen(k, e.conn, p)
    PROVE  /\ conn' \in Conns /\ entry' \in Entries
           /\ \A d \in Slot, q \in Peer : IsOpen(conn', d, q) <=> IsOpen(k, d, q)
           /\ \A q \in Peer : q # p => entry'[q] = entry[q]
           /\ \/ entry'[p] = e
              \/ e.status # "connected" /\ entry'[p] = Entry(c, "connecting")
  <1>1. CASE Rejects(p, e, inbound)
    <2>1. entry' = [entry EXCEPT ![p] = e] /\ Becomes(Shut(k, c, p))
      BY <1>1 DEF Setup
    <2>2. Shut(k, c, p) \in Conns
      BY ShutEffect
    <2>3. conn' \in Conns /\ \A d \in Slot, q \in Peer : IsOpen(conn', d, q) <=> IsOpen(Shut(k, c, p), d, q)
      BY <2>1, <2>2, BecomesEffect
    <2>4. \A d \in Slot, q \in Peer : IsOpen(conn', d, q) <=> IsOpen(k, d, q)
      BY <2>3, ShutEffect
    <2> QED
      BY <2>1, <2>3, <2>4 DEF Entries
  <1>2. CASE ~ Rejects(p, e, inbound)
    <2>1. entry' = [entry EXCEPT ![p] = Entry(c, "connecting")]
      BY <1>2 DEF Setup, Registers
    <2>2. e.status # "connected"
      BY <1>2 DEF Rejects
    <2>3. entry' \in Entries
      BY <2>1, ValueTypes DEF Entries
    <2>4. CASE e = NoEntry
      <3>1. Becomes(k)
        BY <1>2, <2>4 DEF Setup, Registers
      <3> QED
        BY <2>1, <2>2, <2>3, <3>1, BecomesEffect DEF Entries
    <2>5. CASE e # NoEntry
      <3>1. Becomes(Shut(k, e.conn, p))
        BY <1>2, <2>5 DEF Setup, Registers
      <3>2. e.conn \in Slot /\ e.status = "connecting"
        BY <2>2, <2>5, ValueTypes DEF EntryType
      <3>3. Shut(k, e.conn, p) \in Conns
        BY <3>2, ShutEffect
      <3>4. conn' \in Conns /\ \A d \in Slot, q \in Peer : IsOpen(conn', d, q) <=> IsOpen(Shut(k, e.conn, p), d, q)
        BY <3>1, <3>3, BecomesEffect
      <3>5. \A d \in Slot, q \in Peer : IsOpen(conn', d, q) <=> IsOpen(k, d, q)
        BY <3>2, <3>4, ShutEffect
      <3> QED
        BY <2>1, <2>2, <2>3, <3>4, <3>5 DEF Entries
    <2> QED
      BY <2>4, <2>5
  <1> QED
    BY <1>1, <1>2

-----------------------------------------------------------------------------
(* What a step may do to the open connection of a peer                     *)

Core ==
    /\ conn \in Conns /\ entry \in Entries
    /\ app \in [Peer -> BOOLEAN] /\ beat \in [Peer -> BOOLEAN]
    /\ AppAgrees /\ OpenIsRegistered

\* It stays, or there is none,
Keep(p) ==
    /\ app'[p] = app[p] /\ beat'[p] = beat[p]
    /\ \A c \in Slot : IsOpen(conn', c, p) <=> IsOpen(conn, c, p)
    /\ IF Connected(p) THEN entry'[p] = entry[p] ELSE entry'[p].status # "connected"

\* it is lost,
Lose(p) ==
    /\ ~ app'[p] /\ ~ beat'[p] /\ entry'[p].status # "connected"
    /\ \A c \in Slot : ~ IsOpen(conn', c, p)

Frame ==
    /\ conn' \in Conns /\ entry' \in Entries
    /\ app' \in [Peer -> BOOLEAN] /\ beat' \in [Peer -> BOOLEAN]

Moves == Frame /\ \A p \in Peer : Keep(p) \/ Lose(p)

\* or it is the first one, when its end c opens.
Gains(c, p) ==
    /\ Frame
    /\ ~ Connected(p) /\ app'[p] /\ beat'[p] /\ entry'[p] = Entry(c, "connected")
    /\ \A d \in Slot : IsOpen(conn', d, p) <=> d = c
    /\ \A q \in Peer : q # p => Keep(q)

LEMMA CoreFacts ==
    ASSUME Core, NEW p \in Peer
    PROVE  /\ entry[p] \in EntryType
           /\ app[p] = Connected(p) /\ beat[p] = Connected(p)
           /\ \A c \in Slot : IsOpen(conn, c, p) <=> entry[p] = Entry(c, "connected")
           /\ \A c \in Slot : IsOpen(conn, c, p) => entry[p].conn = c
           /\ Connected(p) => entry[p].conn \in Slot /\ IsOpen(conn, entry[p].conn, p)
           /\ ~ Connected(p) => \A c \in Slot : ~ IsOpen(conn, c, p)
  <1>1. entry[p] \in EntryType /\ app[p] \in BOOLEAN /\ beat[p] \in BOOLEAN
    BY DEF Core, Entries
  <1>2. app[p] = Connected(p) /\ beat[p] = Connected(p)
    BY <1>1 DEF Core, AppAgrees, Connected
  <1>3. \A c \in Slot : IsOpen(conn, c, p) <=> entry[p] = Entry(c, "connected")
    BY DEF Core, OpenIsRegistered, IsOpen
  <1>4. Connected(p) => entry[p].conn \in Slot /\ entry[p] = Entry(entry[p].conn, "connected")
    BY <1>1 DEF Connected, EntryType, NoEntry, Entry
  <1>5. \A c : entry[p] = Entry(c, "connected") => Connected(p) /\ entry[p].conn = c
    BY DEF Entry, Connected
  <1> QED
    BY <1>1, <1>2, <1>3, <1>4, <1>5

LEMMA KeepAll ==
    ASSUME Core, UNCHANGED <<app, beat>>, conn' \in Conns, entry' \in Entries, SameOpen(conn'),
           \A p \in Peer : \/ entry'[p] = entry[p]
                           \/ ~ Connected(p) /\ entry'[p].status # "connected"
    PROVE  Moves
  <1>1. \A p \in Peer : Keep(p)
    BY DEF Keep, SameOpen, Connected
  <1> QED
    BY <1>1 DEF Moves, Frame, Core

LEMMA LoseOne ==
    ASSUME Core, NEW p \in Peer, Dropped(p), conn' \in Conns,
           \A c \in Slot : ~ IsOpen(conn', c, p),
           \A c \in Slot, q \in Peer : q # p => (IsOpen(conn', c, q) <=> IsOpen(conn, c, q))
    PROVE  Moves
  <1>1. entry' \in Entries /\ app' \in [Peer -> BOOLEAN] /\ beat' \in [Peer -> BOOLEAN]
    BY ValueTypes DEF Dropped, Core, Entries
  <1>2. entry'[p] = NoEntry /\ app'[p] = FALSE /\ beat'[p] = FALSE
    BY DEF Dropped, Core, Entries
  <1>3. Lose(p)
    BY <1>2 DEF Lose, NoEntry
  <1>4. \A q \in Peer : q # p => entry'[q] = entry[q] /\ app'[q] = app[q] /\ beat'[q] = beat[q]
    BY DEF Dropped, Core, Entries
  <1>5. \A q \in Peer : q # p => Keep(q)
    BY <1>4 DEF Keep, Connected
  <1> QED
    BY <1>1, <1>3, <1>5 DEF Moves, Frame

\* A new connection of which no end is open is set up.
LEMMA SetupMoves ==
    ASSUME Core, NEW p \in Peer, NEW e \in EntryType, NEW c \in Slot, NEW inbound \in BOOLEAN,
           NEW k \in Conns, Setup(p, e, c, k, inbound), SameOpen(k), ~ IsOpen(k, c, p),
           e = entry[p] \/ (e = NoEntry /\ ~ Connected(p)),
           UNCHANGED <<app, beat>>
    PROVE  Moves
  <1>1. e.status = "connecting" => e.conn \in Slot /\ ~ IsOpen(k, e.conn, p)
    <2> SUFFICES ASSUME e.status = "connecting"
                 PROVE  e.conn \in Slot /\ ~ IsOpen(k, e.conn, p)
      OBVIOUS
    <2>1. e = entry[p] /\ ~ Connected(p)
      BY DEF NoEntry, Connected
    <2>2. e.conn \in Slot
      BY DEF EntryType, NoEntry
    <2> QED
      BY <2>1, <2>2, CoreFacts DEF SameOpen
  <1>2. entry \in Entries
    BY DEF Core
  <1>3. /\ conn' \in Conns /\ entry' \in Entries
        /\ \A d \in Slot, q \in Peer : IsOpen(conn', d, q) <=> IsOpen(k, d, q)
        /\ \A q \in Peer : q # p => entry'[q] = entry[q]
        /\ \/ entry'[p] = e
           \/ e.status # "connected" /\ entry'[p] = Entry(c, "connecting")
    BY <1>1, <1>2, SetupEffect
  <1>4. SameOpen(conn')
    BY <1>3 DEF SameOpen
  <1>5. \A q \in Peer : entry'[q] = entry[q] \/ (~ Connected(q) /\ entry'[q].status # "connected")
    <2>1. CASE entry'[p] = e
      BY <1>3, <2>1 DEF NoEntry, Connected
    <2>2. CASE e.status # "connected" /\ entry'[p] = Entry(c, "connecting")
      <3>1. ~ Connected(p)
        BY <2>2 DEF Connected
      <3>2. entry'[p].status # "connected"
        BY <2>2 DEF Entry
      <3> QED
        BY <1>3, <3>1, <3>2
    <2> QED
      BY <1>3, <2>1, <2>2
  <1> QED
    BY <1>3, <1>4, <1>5, KeepAll

LEMMA AttemptMoves ==
    ASSUME Core, NEW p \in Peer, NEW e \in EntryType, NEW n, NEW byTimer,
           Attempt(p, e, n, byTimer),
           e = entry[p] \/ (e = NoEntry /\ ~ Connected(p)),
           UNCHANGED <<app, beat>>
    PROVE  Moves
  <1> DEFINE c == CHOOSE f \in Slot : conn[f] = FreeConn
             new == [from |-> p, phase |-> "offered", end |-> [FreeConn.end EXCEPT ![p] = "new"]]
             k == [conn EXCEPT ![c] = new]
  <1>1. c \in Slot /\ conn[c] = FreeConn
    BY DEF Attempt
  <1>2. new \in ConnOK /\ \A q \in Peer : new.end[q] # "open"
    BY OtherPeer DEF ConnOK, ConnType, FreeConn
  <1>3. k \in Conns
    BY <1>1, <1>2 DEF Conns, Core
  <1>4. SameOpen(k)
    BY <1>1, <1>2, ValueTypes DEF SameOpen, IsOpen, Conns, Core
  <1>5. ~ IsOpen(k, c, p)
    BY <1>1, <1>2 DEF IsOpen, Conns, Core
  <1>6. Setup(p, e, c, k, FALSE)
    BY DEF Attempt
  <1> HIDE DEF c, k
  <1> QED
    BY <1>1, <1>3, <1>4, <1>5, <1>6, SetupMoves

-----------------------------------------------------------------------------
(* The steps of connections                                                *)

LEMMA OfferArrivesMoves ==
    ASSUME Core, NEW c \in Slot, OfferArrives(c)
    PROVE  Moves
  <1> DEFINE p == Other(conn[c].from)
             answered == ~ Rejects(p, entry[p], TRUE) /\ Alive(conn, c, conn[c].from)
             new == [conn[c] EXCEPT !.phase = IF answered THEN "talking" ELSE "refused",
                                    !.end = [conn[c].end EXCEPT ![p] = "new"]]
             k == [conn EXCEPT ![c] = new]
  <1>1. conn[c] \in ConnOK /\ conn[c].phase = "offered"
    BY DEF OfferArrives, Core, Conns
  <1>2. p \in Peer /\ conn[c].end[p] # "open"
    BY <1>1, OtherPeer DEF ConnOK, ConnType
  <1>3. new \in ConnOK
    BY <1>1, <1>2 DEF ConnOK, ConnType
  <1>4. \A q \in Peer : new.end[q] = "open" <=> conn[c].end[q] = "open"
    BY <1>1, <1>2 DEF ConnOK, ConnType
  <1>5. k \in Conns
    BY <1>3 DEF Core, Conns
  <1>6. SameOpen(k)
    BY <1>4 DEF SameOpen, IsOpen, Core, Conns
  <1>7. ~ IsOpen(k, c, p)
    BY <1>2, <1>6 DEF SameOpen, IsOpen
  <1>8. Setup(p, entry[p], c, k, TRUE) /\ UNCHANGED <<app, beat>>
    BY DEF OfferArrives
  <1>9. entry[p] \in EntryType
    BY <1>2 DEF Core, Entries
  <1> HIDE DEF p, k
  <1> QED
    BY <1>2, <1>5, <1>6, <1>7, <1>8, <1>9, SetupMoves

LEMMA OfferLostMoves ==
    ASSUME Core, NEW c \in Slot, OfferLost(c)
    PROVE  Moves
  <1> DEFINE k == [conn EXCEPT ![c] = [conn[c] EXCEPT !.phase = "refused"]]
  <1>1. conn[c] \in ConnOK
    BY DEF Core, Conns
  <1>2. [conn[c] EXCEPT !.phase = "refused"] \in ConnOK
    BY <1>1 DEF ConnOK, ConnType
  <1>3. k \in Conns
    BY <1>2 DEF Core, Conns
  <1>4. SameOpen(k)
    BY <1>1 DEF SameOpen, IsOpen, Core, Conns, ConnOK, ConnType
  <1>5. Becomes(k) /\ UNCHANGED <<entry, app, beat>>
    BY DEF OfferLost
  <1>6. conn' \in Conns /\ SameOpen(conn')
    BY <1>3, <1>4, <1>5, BecomesEffect DEF SameOpen
  <1> QED
    BY <1>5, <1>6, KeepAll DEF Core

\* Closing an end that is not open changes nothing,
LEMMA ShutMoves ==
    ASSUME Core, NEW c \in Slot, NEW p \in Peer, ~ IsOpen(conn, c, p),
           Becomes(Shut(conn, c, p)), UNCHANGED <<entry, app, beat>>
    PROVE  Moves
  <1>1. conn \in Conns
    BY DEF Core
  <1>2. Shut(conn, c, p) \in Conns /\ SameOpen(Shut(conn, c, p))
    BY <1>1, ShutEffect DEF SameOpen
  <1>3. conn' \in Conns /\ SameOpen(conn')
    BY <1>2, BecomesEffect DEF SameOpen
  <1> QED
    BY <1>3, KeepAll DEF Core

\* and the registered one can be closed.
LEMMA DropMoves ==
    ASSUME Core, NEW p \in Peer, entry[p].conn \in Slot, Dropped(p),
           Becomes(Shut(conn, entry[p].conn, p))
    PROVE  Moves
  <1> DEFINE c == entry[p].conn
  <1>1. conn \in Conns
    BY DEF Core
  <1>2. Shut(conn, c, p) \in Conns
    BY <1>1, ShutEffect
  <1>3. conn' \in Conns /\ \A d \in Slot, q \in Peer :
            IsOpen(conn', d, q) <=> IsOpen(conn, d, q) /\ ~ (d = c /\ q = p)
    BY <1>1, <1>2, BecomesEffect, ShutEffect
  <1>4. \A d \in Slot : IsOpen(conn, d, p) => d = c
    BY CoreFacts
  <1> QED
    BY <1>3, <1>4, LoseOne

LEMMA OpensMoves ==
    ASSUME Core, NEW c \in Slot, NEW p \in Peer, Opens(c, p)
    PROVE  Moves \/ Gains(c, p)
  <1>1. conn[c] \in ConnOK /\ conn[c].phase = "talking" /\ conn[c].end[p] = "new"
    BY DEF Opens, Core, Conns
  <1>2. ~ IsOpen(conn, c, p)
    BY <1>1 DEF IsOpen
  <1>3. CASE RaceLost(p, c)
    BY <1>2, <1>3, ShutMoves DEF Opens
  <1>4. CASE ~ RaceLost(p, c)
    <2> DEFINE new == [conn[c] EXCEPT !.end = [conn[c].end EXCEPT ![p] = "open"]]
               k == [conn EXCEPT ![c] = new]
    <2>1. ~ Connected(p)
      BY <1>2, <1>4, CoreFacts DEF RaceLost
    <2>2. /\ entry' = [entry EXCEPT ![p] = Entry(c, "connected")]
          /\ app' = [app EXCEPT ![p] = TRUE] /\ beat' = [beat EXCEPT ![p] = TRUE]
          /\ Becomes(k)
      BY <1>4 DEF Opens
    <2>3. new \in ConnOK
      BY <1>1 DEF ConnOK, ConnType
    <2>4. k \in Conns
      BY <2>3 DEF Core, Conns
    <2>5. \A d \in Slot, q \in Peer : IsOpen(k, d, q) <=> IsOpen(conn, d, q) \/ (d = c /\ q = p)
      BY <1>1 DEF IsOpen, Core, Conns, ConnOK, ConnType
    <2> HIDE DEF k
    <2>6. conn' \in Conns
          /\ \A d \in Slot, q \in Peer : IsOpen(conn', d, q) <=> IsOpen(conn, d, q) \/ (d = c /\ q = p)
      BY <2>2, <2>4, <2>5, BecomesEffect
    <2>7. entry' \in Entries /\ app' \in [Peer -> BOOLEAN] /\ beat' \in [Peer -> BOOLEAN]
      BY <2>2, ValueTypes DEF Core, Entries
    <2>8. entry'[p] = Entry(c, "connected") /\ app'[p] = TRUE /\ beat'[p] = TRUE
      BY <2>2 DEF Core, Entries
    <2>9. \A q \in Peer : q # p => entry'[q] = entry[q] /\ app'[q] = app[q] /\ beat'[q] = beat[q]
      BY <2>2 DEF Core, Entries
    <2>10. \A d \in Slot : IsOpen(conn', d, p) <=> d = c
      BY <2>1, <2>6, CoreFacts
    <2>11. \A q \in Peer : q # p => Keep(q)
      BY <2>6, <2>9 DEF Keep, Connected
    <2> QED
      BY <2>1, <2>6, <2>7, <2>8, <2>10, <2>11 DEF Gains, Frame
  <1> QED
    BY <1>3, <1>4

LEMMA ClosesMoves ==
    ASSUME Core, NEW c \in Slot, NEW p \in Peer, Closes(c, p)
    PROVE  Moves
  <1>1. entry[p] = Entry(c, "connected")
    BY CoreFacts DEF Closes, IsOpen
  <1>2. entry[p].conn = c
    BY <1>1 DEF Entry
  <1> QED
    BY <1>2, DropMoves DEF Closes

LEMMA IceFailsMoves ==
    ASSUME Core, NEW c \in Slot, NEW p \in Peer, IceFails(c, p)
    PROVE  Moves
  <1>1. Becomes(Shut(conn, c, p))
    BY DEF IceFails
  <1>2. CASE entry[p].conn = c
    <2>1. Errored(p)
      BY <1>2 DEF IceFails
    <2>2. (app[p] /\ ~ Connected(p)) = FALSE
      BY CoreFacts
    <2>3. Dropped(p)
      BY <2>1, <2>2 DEF Errored, Dropped, Core
    <2> QED
      BY <1>1, <1>2, <2>3, DropMoves
  <1>3. CASE entry[p].conn # c
    <2>1. ~ IsOpen(conn, c, p)
      BY <1>3, CoreFacts
    <2>2. UNCHANGED <<entry, app, beat>>
      BY <1>3 DEF IceFails
    <2> QED
      BY <1>1, <2>1, <2>2, ShutMoves
  <1> QED
    BY <1>2, <1>3

-----------------------------------------------------------------------------
(* The steps of connect and of the app                                     *)

\* A connect() has a connection exactly while it waits for it, and that is not open.
LoopOK ==
    /\ loop \in [Peer -> LoopType]
    /\ \A p \in Peer : loop[p].conn # None <=> loop[p].pc = "attempt"
    /\ \A p \in Peer : loop[p].pc = "delay" => loop[p].n < MaxRetries
    /\ \A p \in Peer : loop[p].pc = "attempt" => ~ IsOpen(conn, loop[p].conn, p)

LEMMA AttemptTimesOutMoves ==
    ASSUME Core, LoopOK, NEW p \in Peer, AttemptTimesOut(p)
    PROVE  Moves
  <1>1. loop[p].pc = "attempt" /\ loop[p] \in LoopType
    BY DEF AttemptTimesOut, LoopOK
  <1>2. loop[p].conn \in Slot /\ ~ IsOpen(conn, loop[p].conn, p)
    BY <1>1 DEF LoopOK, LoopType
  <1> QED
    BY <1>2, ShutMoves DEF AttemptTimesOut

LEMMA ConnectMoves ==
    ASSUME Core, NEW p \in Peer, NEW byTimer, connect(p, byTimer), UNCHANGED <<app, beat>>
    PROVE  Moves
  <1>1. CASE UNCHANGED <<entry, conn>>
    BY <1>1, KeepAll DEF Core, SameOpen
  <1>2. CASE Attempt(p, entry[p], 0, byTimer)
    <2>1. entry[p] \in EntryType
      BY DEF Core, Entries
    <2> QED
      BY <1>2, <2>1, AttemptMoves
  <1> QED
    BY <1>1, <1>2 DEF connect

LEMMA DelayOverMoves ==
    ASSUME Core, NEW p \in Peer, DelayOver(p)
    PROVE  Moves
  <1>0. UNCHANGED <<app, beat>>
    BY DEF DelayOver
  <1>1. CASE OpenedMeanwhile(p)
    <2>1. UNCHANGED <<entry, conn>>
      BY <1>1 DEF DelayOver
    <2> QED
      BY <1>0, <2>1, KeepAll DEF Core, SameOpen
  <1>2. CASE ~ OpenedMeanwhile(p) /\ online[p]
    <2>1. Attempt(p, NoEntry, loop[p].n + 1, loop[p].timer) /\ ~ Connected(p)
      BY <1>2 DEF DelayOver, OpenedMeanwhile
    <2> QED
      BY <1>0, <2>1, ValueTypes, AttemptMoves
  <1>3. CASE ~ OpenedMeanwhile(p) /\ ~ online[p]
    <2>1. entry' = [entry EXCEPT ![p] = NoEntry] /\ Becomes(conn) /\ ~ Connected(p)
      BY <1>3 DEF DelayOver, OpenedMeanwhile
    <2>2. conn \in Conns
      BY DEF Core
    <2>3. conn' \in Conns /\ SameOpen(conn')
      BY <2>1, <2>2, BecomesEffect DEF SameOpen
    <2>4. entry' \in Entries
      BY <2>1, ValueTypes DEF Core, Entries
    <2>5. entry'[p] = NoEntry /\ \A q \in Peer : q # p => entry'[q] = entry[q]
      BY <2>1 DEF Core, Entries
    <2>6. \A q \in Peer : entry'[q] = entry[q] \/ (~ Connected(q) /\ entry'[q].status # "connected")
      BY <2>1, <2>5 DEF NoEntry
    <2> QED
      BY <1>0, <2>3, <2>4, <2>6, KeepAll
  <1> QED
    BY <1>1, <1>2, <1>3

LEMMA DisconnectMoves ==
    ASSUME Core, NEW p \in Peer, AppDisconnect(p)
    PROVE  Moves
  <1>1. Dropped(p)
    BY DEF AppDisconnect
  <1>2. CASE entry[p] = NoEntry
    <2>1. conn' = conn
      BY <1>2 DEF AppDisconnect
    <2>2. \A c \in Slot : ~ IsOpen(conn, c, p)
      BY <1>2, CoreFacts DEF NoEntry, Connected
    <2> QED
      BY <1>1, <2>1, <2>2, LoseOne DEF Core
  <1>3. CASE entry[p] # NoEntry
    <2>1. entry[p].conn \in Slot
      BY <1>3, CoreFacts, ValueTypes
    <2>2. Becomes(Shut(conn, entry[p].conn, p))
      BY <1>3 DEF AppDisconnect
    <2> QED
      BY <1>1, <2>1, <2>2, DropMoves
  <1> QED
    BY <1>2, <1>3

LEMMA ClearedMoves ==
    ASSUME Core, NEW p \in Peer, Cleared(p)
    PROVE  Moves
  <1> DEFINE k == [c \in Slot |-> IF Alive(conn, c, p) THEN Shut(conn, c, p)[c] ELSE conn[c]]
  <1>1. Dropped(p) /\ Becomes(k)
    BY DEF Cleared
  <1>2. conn \in Conns
    BY DEF Core
  <1>3. k \in Conns
    BY <1>2, ShutEffect DEF Conns
  <1>4. \A c \in Slot, q \in Peer : IsOpen(k, c, q) <=> IsOpen(conn, c, q) /\ q # p
    BY <1>2, ShutEffect DEF IsOpen, Alive
  <1> HIDE DEF k
  <1>5. conn' \in Conns /\ \A c \in Slot, q \in Peer : IsOpen(conn', c, q) <=> IsOpen(conn, c, q) /\ q # p
    BY <1>1, <1>3, <1>4, BecomesEffect
  <1> QED
    BY <1>1, <1>5, LoseOne

-----------------------------------------------------------------------------
(* What a step does to the connect() in progress and to the timers         *)

RestOK ==
    /\ timer \in [Peer -> BOOLEAN] /\ manual \in [Peer -> BOOLEAN]
    /\ failures \in [Peer -> 0..1] /\ quarantined \in [Peer -> BOOLEAN]
    /\ online \in [Peer -> BOOLEAN] /\ trouble \in 0..MaxTrouble

Resting(l) == l \in LoopType /\ l.pc # "attempt" /\ l.conn = None /\ (l.pc = "delay" => l.n < MaxRetries)

LEMMA LoopKept ==
    ASSUME LoopOK, Moves, NEW p \in Peer, NEW l, loop' = [loop EXCEPT ![p] = l],
           \/ l = loop[p] \/ Resting(l)
           \/ l \in LoopType /\ l.pc = "attempt" /\ l.conn \in Slot /\ ~ IsOpen(conn, l.conn, p)
    PROVE  LoopOK'
  <1>1. \A q \in Peer, c \in Slot : IsOpen(conn', c, q) => IsOpen(conn, c, q)
    BY DEF Moves, Keep, Lose
  <1>2. None \notin Slot
    BY TransportAssumption
  <1>3. loop' \in [Peer -> LoopType]
    BY DEF LoopOK, Resting
  <1>4. loop'[p] = l /\ \A q \in Peer : q # p => loop'[q] = loop[q]
    BY DEF LoopOK
  <1>5. \A q \in Peer : loop[q].pc = "attempt" => loop[q].conn \in Slot
    BY DEF LoopOK, LoopType
  <1>6. \A q \in Peer : loop'[q].conn # None <=> loop'[q].pc = "attempt"
    BY <1>2, <1>4 DEF LoopOK, Resting
  <1>7. \A q \in Peer : loop'[q].pc = "delay" => loop'[q].n < MaxRetries
    BY <1>4 DEF LoopOK, Resting
  <1>8. \A q \in Peer : loop'[q].pc = "attempt" => loop'[q].conn \in Slot /\ ~ IsOpen(conn, loop'[q].conn, q)
    BY <1>4, <1>5 DEF LoopOK, Resting
  <1>9. \A q \in Peer : loop'[q].pc = "attempt" => ~ IsOpen(conn', loop'[q].conn, q)
    BY <1>1, <1>8
  <1> QED
    BY <1>3, <1>6, <1>7, <1>9 DEF LoopOK

LEMMA LoopUnchanged ==
    ASSUME LoopOK, Moves, UNCHANGED loop
    PROVE  LoopOK'
  <1>1. loop' = [loop EXCEPT ![Low] = loop[Low]] /\ Low \in Peer
    BY DEF LoopOK, Peer
  <1> QED
    BY <1>1, LoopKept

LEMMA IdleRests == Resting(IdleLoop)
  BY ValueTypes DEF Resting, IdleLoop

LEMMA ScheduleType ==
    ASSUME RestOK, NEW p, NEW b, Schedule(p, b)
    PROVE  timer' \in [Peer -> BOOLEAN]
  <1>1. (timer[p] \/ (b /\ ~ manual[p])) \in BOOLEAN
    OBVIOUS
  <1> QED
    BY <1>1 DEF Schedule, RestOK

LEMMA NoteFailureType ==
    ASSUME RestOK, NEW p \in Peer, NoteFailure(p)
    PROVE  failures' \in [Peer -> 0..1] /\ quarantined' \in [Peer -> BOOLEAN]
  <1>1. failures[p] \in 0..1
    BY DEF RestOK
  <1>2. 1 - failures[p] \in 0..1
    BY <1>1
  <1>3. (quarantined[p] \/ failures[p] = 1) \in BOOLEAN
    OBVIOUS
  <1> QED
    BY <1>2, <1>3 DEF NoteFailure, RestOK

LEMMA AttemptFailsEffect ==
    ASSUME LoopOK, RestOK, Moves, NEW p \in Peer, loop[p].pc = "attempt",
           NEW unavailable \in BOOLEAN, NEW scheduled \in BOOLEAN, AttemptFails(p, unavailable, scheduled)
    PROVE  /\ LoopOK'
           /\ timer' \in [Peer -> BOOLEAN]
           /\ failures' \in [Peer -> 0..1] /\ quarantined' \in [Peer -> BOOLEAN]
  <1>1. CASE ~ LastAttempt(p)
    <2> DEFINE l == [loop[p] EXCEPT !.pc = "delay", !.conn = None]
    <2>1. loop' = [loop EXCEPT ![p] = l] /\ Schedule(p, scheduled) /\ UNCHANGED marks
      BY <1>1 DEF AttemptFails, LoopOK
    <2>2. loop[p] \in LoopType /\ loop[p].n \in 0..MaxRetries /\ loop[p].n < MaxRetries
      BY <1>1, TransportAssumption DEF LastAttempt, LoopOK, LoopType
    <2>3. Resting(l)
      BY <2>2 DEF Resting, LoopType
    <2> HIDE DEF l
    <2>4. LoopOK'
      BY <2>1, <2>3, LoopKept
    <2> QED
      BY <2>1, <2>4, ScheduleType DEF RestOK, marks
  <1>2. CASE LastAttempt(p)
    <2>1. Throws(p, scheduled) /\ (NoteFailure(p) \/ UNCHANGED marks)
      BY <1>2 DEF AttemptFails
    <2>2. loop' = [loop EXCEPT ![p] = IdleLoop] /\ Schedule(p, scheduled \/ loop[p].timer)
      BY <2>1 DEF Throws
    <2>3. LoopOK'
      BY <2>2, IdleRests, LoopKept
    <2>4. timer' \in [Peer -> BOOLEAN]
      BY <2>2, ScheduleType
    <2> QED
      BY <2>1, <2>3, <2>4, NoteFailureType DEF RestOK, marks
  <1> QED
    BY <1>1, <1>2

LEMMA AttemptEffect ==
    ASSUME Core, LoopOK, Moves, NEW p \in Peer, NEW e, NEW n \in 0..MaxRetries, NEW byTimer \in BOOLEAN,
           Attempt(p, e, n, byTimer)
    PROVE  LoopOK'
  <1> DEFINE c == CHOOSE f \in Slot : conn[f] = FreeConn
             l == [pc |-> "attempt", n |-> n, conn |-> c, timer |-> byTimer]
  <1>1. c \in Slot /\ conn[c] = FreeConn
    BY DEF Attempt
  <1>2. ~ IsOpen(conn, c, p)
    BY <1>1, ValueTypes DEF IsOpen
  <1>3. loop' = [loop EXCEPT ![p] = l]
    BY DEF Attempt
  <1>4. l \in LoopType /\ l.pc = "attempt" /\ l.conn = c
    BY <1>1 DEF LoopType
  <1> HIDE DEF c, l
  <1> QED
    BY <1>1, <1>2, <1>3, <1>4, LoopKept

-----------------------------------------------------------------------------
(* The invariant, action by action                                         *)

Inv == Core /\ LoopOK /\ RestOK

Links == Moves \/ \E c \in Slot, p \in Peer : Gains(c, p)

Good == Links /\ LoopOK' /\ RestOK'

LEMMA TroubleType ==
    ASSUME RestOK, Trouble \/ UNCHANGED trouble
    PROVE  trouble' \in 0..MaxTrouble
  BY TransportAssumption DEF RestOK, Trouble

LEMMA OffersStep ==
    ASSUME Inv, NEW c \in Slot, OfferArrives(c) \/ OfferLost(c)
    PROVE  Good
  <1>1. UNCHANGED <<loop, timer, manual, marks, online, trouble>>
    BY DEF OfferArrives, OfferLost
  <1>2. Moves
    BY OfferArrivesMoves, OfferLostMoves DEF Inv
  <1> QED
    BY <1>1, <1>2, LoopUnchanged DEF Good, Links, Inv, RestOK, marks

LEMMA OpensStep ==
    ASSUME Inv, NEW c \in Slot, NEW p \in Peer, Opens(c, p)
    PROVE  Good
  <1>1. Moves \/ Gains(c, p)
    BY OpensMoves DEF Inv
  <1>2. UNCHANGED <<timer, manual, online, trouble>>
    BY DEF Opens
  <1>3. \/ Awaits(p, c) /\ loop' = [loop EXCEPT ![p] = IdleLoop]
        \/ ~ Awaits(p, c) /\ loop' = loop
    BY DEF Opens
  <1>4. \/ /\ failures' = [failures EXCEPT ![p] = 0]
           /\ quarantined' = [quarantined EXCEPT ![p] = FALSE]
        \/ UNCHANGED <<failures, quarantined>>
    BY DEF Opens, marks
  <1>5. RestOK'
    <2>1. failures' \in [Peer -> 0..1]
      BY <1>4 DEF Inv, RestOK
    <2>2. quarantined' \in [Peer -> BOOLEAN]
      BY <1>4 DEF Inv, RestOK
    <2> QED
      BY <1>2, <2>1, <2>2 DEF Inv, RestOK
  <1>6. ASSUME Moves
        PROVE  LoopOK'
    <2>1. CASE loop' = [loop EXCEPT ![p] = IdleLoop]
      BY <1>6, <2>1, IdleRests, LoopKept DEF Inv
    <2>2. CASE loop' = loop
      BY <1>6, <2>2, LoopUnchanged DEF Inv
    <2> QED
      BY <1>3, <2>1, <2>2
  <1>7. ASSUME Gains(c, p)
        PROVE  LoopOK'
    <2>0. loop \in [Peer -> LoopType]
      BY DEF Inv, LoopOK
    <2>1. loop' \in [Peer -> LoopType]
      BY <1>3, <2>0, ValueTypes
    <2>2. \A q \in Peer : loop'[q] = loop[q] \/ loop'[q] = IdleLoop
      BY <1>3 DEF Inv, LoopOK
    <2>3. \A q \in Peer : loop'[q].conn # None <=> loop'[q].pc = "attempt"
      BY <2>2 DEF Inv, LoopOK, IdleLoop
    <2>4. \A q \in Peer : loop'[q].pc = "delay" => loop'[q].n < MaxRetries
      BY <2>2 DEF Inv, LoopOK, IdleLoop
    <2>5. \A q \in Peer : loop'[q].pc = "attempt" => ~ IsOpen(conn', loop'[q].conn, q)
      <3> SUFFICES ASSUME NEW q \in Peer, loop'[q].pc = "attempt"
                   PROVE  ~ IsOpen(conn', loop'[q].conn, q)
        OBVIOUS
      <3>1. loop'[q] = loop[q]
        BY <2>2 DEF IdleLoop
      <3>2. loop[q].conn \in Slot /\ ~ IsOpen(conn, loop[q].conn, q)
        BY <3>1 DEF Inv, LoopOK, LoopType
      <3>3. CASE q # p
        BY <1>7, <3>1, <3>2, <3>3 DEF Gains, Keep
      <3>4. CASE q = p
        <4>1. loop[p].conn # c
          BY <1>3, <3>1, <3>4 DEF Awaits, IdleLoop, Inv, LoopOK
        <4> QED
          BY <1>7, <3>1, <3>2, <3>4, <4>1 DEF Gains
      <3> QED
        BY <3>3, <3>4
    <2> QED
      BY <2>1, <2>3, <2>4, <2>5 DEF LoopOK
  <1> QED
    BY <1>1, <1>5, <1>6, <1>7 DEF Good, Links

LEMMA ClosesStep ==
    ASSUME Inv, NEW c \in Slot, NEW p \in Peer, RemoteCloses(c, p) \/ HeartbeatGivesUp(c, p)
    PROVE  Good
  <1>1. Closes(c, p) /\ UNCHANGED <<manual, marks, online>> /\ (Trouble \/ UNCHANGED trouble)
    BY DEF RemoteCloses, HeartbeatGivesUp
  <1>2. Moves
    BY <1>1, ClosesMoves DEF Inv
  <1>3. UNCHANGED loop /\ (Schedule(p, TRUE) \/ UNCHANGED timer)
    BY <1>1 DEF Closes
  <1>4. timer' \in [Peer -> BOOLEAN]
    BY <1>3, ScheduleType DEF Inv, RestOK
  <1>5. trouble' \in 0..MaxTrouble
    BY <1>1, TroubleType DEF Inv
  <1>6. RestOK'
    BY <1>1, <1>4, <1>5 DEF Inv, RestOK, marks
  <1> QED
    BY <1>2, <1>3, <1>6, LoopUnchanged DEF Good, Links, Inv

LEMMA IceFailsStep ==
    ASSUME Inv, NEW c \in Slot, NEW p \in Peer, IceFails(c, p), Trouble \/ UNCHANGED trouble
    PROVE  Good
  <1>1. Moves
    BY IceFailsMoves DEF Inv
  <1>2. UNCHANGED <<manual, online>>
    BY DEF IceFails
  <1>3. trouble' \in 0..MaxTrouble
    BY TroubleType DEF Inv
  <1>4. CASE Awaits(p, c)
    <2>1. AttemptFails(p, FALSE, entry[p].conn = c) /\ loop[p].pc = "attempt"
      BY <1>4 DEF IceFails, Awaits
    <2>2. /\ LoopOK' /\ timer' \in [Peer -> BOOLEAN]
          /\ failures' \in [Peer -> 0..1] /\ quarantined' \in [Peer -> BOOLEAN]
      BY <1>1, <2>1, AttemptFailsEffect DEF Inv
    <2> QED
      BY <1>1, <1>2, <1>3, <2>2 DEF Good, Links, Inv, RestOK
  <1>5. CASE ~ Awaits(p, c)
    <2>1. Schedule(p, entry[p].conn = c) /\ UNCHANGED <<loop, marks>>
      BY <1>5 DEF IceFails
    <2>2. timer' \in [Peer -> BOOLEAN]
      BY <2>1, ScheduleType DEF Inv
    <2> QED
      BY <1>1, <1>2, <1>3, <2>1, <2>2, LoopUnchanged DEF Good, Links, Inv, RestOK, marks
  <1> QED
    BY <1>4, <1>5

LEMMA AttemptTimesOutStep ==
    ASSUME Inv, NEW p \in Peer, AttemptTimesOut(p), Trouble \/ UNCHANGED trouble
    PROVE  Good
  <1>1. Moves
    BY AttemptTimesOutMoves DEF Inv
  <1>2. UNCHANGED <<manual, online>> /\ AttemptFails(p, TRUE, FALSE) /\ loop[p].pc = "attempt"
    BY DEF AttemptTimesOut
  <1>3. trouble' \in 0..MaxTrouble
    BY TroubleType DEF Inv
  <1>4. /\ LoopOK' /\ timer' \in [Peer -> BOOLEAN]
        /\ failures' \in [Peer -> 0..1] /\ quarantined' \in [Peer -> BOOLEAN]
    BY <1>1, <1>2, AttemptFailsEffect DEF Inv
  <1> QED
    BY <1>1, <1>2, <1>3, <1>4 DEF Good, Links, Inv, RestOK

LEMMA ConnectStep ==
    ASSUME Inv, NEW p \in Peer, AppConnect(p) \/ TimerFires(p)
    PROVE  Good
  <1>1. UNCHANGED <<app, beat, marks, online, trouble>>
    BY DEF AppConnect, TimerFires
  <1>2. timer' \in [Peer -> BOOLEAN]
    BY DEF AppConnect, TimerFires, Inv, RestOK
  <1>3. CASE UNCHANGED <<entry, conn, loop, manual>>
    <2>1. Moves
      BY <1>1, <1>3, KeepAll DEF Inv, Core, SameOpen
    <2> QED
      BY <1>1, <1>2, <1>3, <2>1, LoopUnchanged DEF Good, Links, Inv, RestOK, marks
  <1>4. ASSUME NEW byTimer \in BOOLEAN, connect(p, byTimer)
        PROVE  Good
    <2>1. Moves
      BY <1>1, <1>4, ConnectMoves DEF Inv
    <2>2. manual' \in [Peer -> BOOLEAN]
      BY <1>4 DEF connect, Inv, RestOK
    <2>3. LoopOK'
      <3>1. CASE UNCHANGED loop
        BY <2>1, <3>1, LoopUnchanged DEF Inv
      <3>2. CASE Attempt(p, entry[p], 0, byTimer)
        <4>1. 0 \in 0..MaxRetries
          BY TransportAssumption
        <4> QED
          BY <2>1, <3>2, <4>1, AttemptEffect DEF Inv
      <3>3. CASE loop' = [loop EXCEPT ![p] = SignalLoop(byTimer)]
        <4>1. Resting(SignalLoop(byTimer))
          <5>1. SignalLoop(byTimer) \in LoopType
            BY <1>4, TransportAssumption DEF LoopType, SignalLoop
          <5>2. SignalLoop(byTimer).pc = "signal" /\ SignalLoop(byTimer).conn = None
            BY DEF SignalLoop
          <5> QED
            BY <5>1, <5>2 DEF Resting
        <4> QED
          BY <2>1, <3>3, <4>1, LoopKept DEF Inv
      <3> QED
        BY <1>4, <3>1, <3>2, <3>3 DEF connect
    <2> QED
      BY <1>1, <1>2, <2>1, <2>2, <2>3 DEF Good, Links, Inv, RestOK, marks
  <1> QED
    BY <1>3, <1>4 DEF AppConnect, TimerFires

LEMMA SignalWaitStep ==
    ASSUME Inv, NEW p \in Peer, SignalWaitEnds(p) \/ SignalWaitTimesOut(p)
    PROVE  Good
  <1>1. UNCHANGED <<app, beat, manual, marks, online, trouble>>
    BY DEF SignalWaitEnds, SignalWaitTimesOut
  <1>2. CASE SignalWaitEnds(p)
    <2>1. Attempt(p, entry[p], 0, loop[p].timer) /\ timer' = timer
      BY <1>2 DEF SignalWaitEnds
    <2>2. entry[p] \in EntryType /\ loop[p].timer \in BOOLEAN /\ 0 \in 0..MaxRetries
      BY TransportAssumption DEF Inv, Core, Entries, LoopOK, LoopType
    <2>3. Moves
      BY <1>1, <2>1, <2>2, AttemptMoves DEF Inv
    <2>4. LoopOK'
      BY <2>1, <2>2, <2>3, AttemptEffect DEF Inv
    <2> QED
      BY <1>1, <2>1, <2>3, <2>4 DEF Good, Links, Inv, RestOK, marks
  <1>3. CASE SignalWaitTimesOut(p)
    <2>1. Throws(p, FALSE) /\ UNCHANGED <<entry, conn>>
      BY <1>3 DEF SignalWaitTimesOut
    <2>2. loop' = [loop EXCEPT ![p] = IdleLoop] /\ Schedule(p, FALSE \/ loop[p].timer)
      BY <2>1 DEF Throws
    <2>3. Moves
      BY <1>1, <2>1, KeepAll DEF Inv, Core, SameOpen
    <2>4. LoopOK'
      BY <2>2, <2>3, IdleRests, LoopKept DEF Inv
    <2>5. timer' \in [Peer -> BOOLEAN]
      BY <2>2, ScheduleType DEF Inv
    <2> QED
      BY <1>1, <2>3, <2>4, <2>5 DEF Good, Links, Inv, RestOK, marks
  <1> QED
    BY <1>2, <1>3

LEMMA DelayOverStep ==
    ASSUME Inv, NEW p \in Peer, DelayOver(p)
    PROVE  Good
  <1>1. UNCHANGED <<manual, online, trouble>> /\ loop[p].pc = "delay"
    BY DEF DelayOver
  <1>2. Moves
    BY DelayOverMoves DEF Inv
  <1>3. loop[p] \in LoopType /\ loop[p].n + 1 \in 0..MaxRetries /\ loop[p].timer \in BOOLEAN
    BY <1>1, TransportAssumption DEF Inv, LoopOK, LoopType
  <1>4. ASSUME UNCHANGED <<timer, marks>>, LoopOK'
        PROVE  Good
    BY <1>1, <1>2, <1>4 DEF Good, Links, Inv, RestOK, marks
  <1>5. CASE OpenedMeanwhile(p)
    <2>1. loop' = [loop EXCEPT ![p] = IdleLoop] /\ UNCHANGED <<timer, marks>>
      BY <1>5 DEF DelayOver
    <2>2. LoopOK'
      BY <1>2, <2>1, IdleRests, LoopKept DEF Inv
    <2> QED
      BY <1>4, <2>1, <2>2
  <1>6. CASE ~ OpenedMeanwhile(p) /\ online[p]
    <2>1. Attempt(p, NoEntry, loop[p].n + 1, loop[p].timer) /\ UNCHANGED <<timer, marks>>
      BY <1>6 DEF DelayOver
    <2>2. LoopOK'
      BY <1>2, <1>3, <2>1, AttemptEffect DEF Inv
    <2> QED
      BY <1>4, <2>1, <2>2
  <1>7. CASE ~ OpenedMeanwhile(p) /\ ~ online[p] /\ loop[p].n + 1 < MaxRetries
    <2> DEFINE l == [loop[p] EXCEPT !.n = @ + 1]
    <2>1. loop' = [loop EXCEPT ![p] = l] /\ UNCHANGED <<timer, marks>>
      BY <1>7 DEF DelayOver
    <2>2. l \in LoopType /\ l.pc = "delay" /\ l.n < MaxRetries /\ l.conn = None
      BY <1>1, <1>3, <1>7 DEF LoopType, Inv, LoopOK
    <2>3. Resting(l)
      BY <2>2 DEF Resting
    <2> HIDE DEF l
    <2>4. LoopOK'
      BY <1>2, <2>1, <2>3, LoopKept DEF Inv
    <2> QED
      BY <1>4, <2>1, <2>4
  <1>8. CASE ~ OpenedMeanwhile(p) /\ ~ online[p] /\ ~ (loop[p].n + 1 < MaxRetries)
    <2>1. Throws(p, FALSE) /\ NoteFailure(p)
      BY <1>8 DEF DelayOver
    <2>2. loop' = [loop EXCEPT ![p] = IdleLoop] /\ Schedule(p, FALSE \/ loop[p].timer)
      BY <2>1 DEF Throws
    <2>3. LoopOK'
      BY <1>2, <2>2, IdleRests, LoopKept DEF Inv
    <2>4. timer' \in [Peer -> BOOLEAN]
      BY <2>2, ScheduleType DEF Inv
    <2>5. failures' \in [Peer -> 0..1] /\ quarantined' \in [Peer -> BOOLEAN]
      BY <2>1, NoteFailureType DEF Inv
    <2> QED
      BY <1>1, <1>2, <2>3, <2>4, <2>5 DEF Good, Links, Inv, RestOK
  <1> QED
    BY <1>5, <1>6, <1>7, <1>8

LEMMA DisconnectStep ==
    ASSUME Inv, NEW p \in Peer, AppDisconnect(p)
    PROVE  Good
  <1>1. Moves
    BY DisconnectMoves DEF Inv
  <1>2. /\ manual' = [manual EXCEPT ![p] = TRUE] /\ timer' = [timer EXCEPT ![p] = FALSE]
        /\ failures' = [failures EXCEPT ![p] = 0] /\ quarantined' = [quarantined EXCEPT ![p] = FALSE]
        /\ UNCHANGED <<loop, online>> /\ Trouble
    BY DEF AppDisconnect
  <1>3. trouble' \in 0..MaxTrouble
    BY <1>2, TroubleType DEF Inv
  <1>4. manual' \in [Peer -> BOOLEAN] /\ timer' \in [Peer -> BOOLEAN]
    BY <1>2 DEF Inv, RestOK
  <1>5. failures' \in [Peer -> 0..1] /\ quarantined' \in [Peer -> BOOLEAN]
    BY <1>2 DEF Inv, RestOK
  <1>6. RestOK'
    BY <1>2, <1>3, <1>4, <1>5 DEF Inv, RestOK
  <1> QED
    BY <1>1, <1>2, <1>6, LoopUnchanged DEF Good, Links, Inv

LEMMA ClearedStep ==
    ASSUME Inv, NEW p \in Peer, Restart(p) \/ Reinitialize(p)
    PROVE  Good
  <1>0. Cleared(p) /\ (Trouble \/ UNCHANGED trouble)
    BY DEF Restart, Reinitialize
  <1>1. Moves
    BY <1>0, ClearedMoves DEF Inv
  <1>2. /\ manual' = [manual EXCEPT ![p] = FALSE] /\ timer' = [timer EXCEPT ![p] = FALSE]
        /\ failures' = [failures EXCEPT ![p] = 0] /\ quarantined' = [quarantined EXCEPT ![p] = FALSE]
        /\ online' = [online EXCEPT ![p] = TRUE]
        /\ loop' = [loop EXCEPT ![p] = IdleLoop]
    BY <1>0 DEF Cleared
  <1>3. trouble' \in 0..MaxTrouble
    BY <1>0, TroubleType DEF Inv
  <1>4. manual' \in [Peer -> BOOLEAN] /\ timer' \in [Peer -> BOOLEAN] /\ online' \in [Peer -> BOOLEAN]
    BY <1>2 DEF Inv, RestOK
  <1>5. failures' \in [Peer -> 0..1] /\ quarantined' \in [Peer -> BOOLEAN]
    BY <1>2 DEF Inv, RestOK
  <1>6. LoopOK'
    BY <1>1, <1>2, IdleRests, LoopKept DEF Inv
  <1> QED
    BY <1>1, <1>3, <1>4, <1>5, <1>6 DEF Good, Links, RestOK

LEMMA OthersStep ==
    ASSUME Inv, NEW p \in Peer, SignallingLost(p) \/ SignallingBack(p) \/ QuarantineEnds(p)
    PROVE  Good
  <1>1. UNCHANGED <<entry, conn, app, beat, loop, timer, manual, failures>>
    BY DEF SignallingLost, SignallingBack, QuarantineEnds, marks
  <1>2. Moves
    BY <1>1, KeepAll DEF Inv, Core, SameOpen
  <1>3. Trouble \/ UNCHANGED trouble
    BY DEF SignallingLost, SignallingBack, QuarantineEnds
  <1>4. trouble' \in 0..MaxTrouble
    BY <1>3, TroubleType DEF Inv
  <1>5. online' \in [Peer -> BOOLEAN] /\ quarantined' \in [Peer -> BOOLEAN]
    BY DEF SignallingLost, SignallingBack, QuarantineEnds, marks, Inv, RestOK
  <1> QED
    BY <1>1, <1>2, <1>4, <1>5, LoopUnchanged DEF Good, Links, Inv, RestOK

LEMMA InvGood ==
    ASSUME Inv, [Next]_vars
    PROVE  Good
  <1>1. ASSUME NEW c \in Slot, ConnStep(c)
        PROVE  Good
    <2>1. ASSUME NEW p \in Peer, IceFailsDead(c, p)
          PROVE  Good
      BY <2>1, IceFailsStep DEF IceFailsDead
    <2> QED
      BY <1>1, <2>1, OffersStep, OpensStep, ClosesStep DEF ConnStep
  <1>2. ASSUME NEW c \in Slot, NEW p \in Peer, HeartbeatGivesUp(c, p) \/ IceFailsAlive(c, p)
        PROVE  Good
    BY <1>2, ClosesStep, IceFailsStep DEF IceFailsAlive
  <1>3. ASSUME NEW p \in Peer, LoopStep(p) \/ AttemptTimesOutAlive(p)
        PROVE  Good
    <2>1. ASSUME AttemptTimesOutHopeless(p) \/ AttemptTimesOutAlive(p)
          PROVE  Good
      BY <2>1, AttemptTimesOutStep DEF AttemptTimesOutHopeless, AttemptTimesOutAlive
    <2> QED
      BY <1>3, <2>1, SignalWaitStep, DelayOverStep DEF LoopStep
  <1>4. ASSUME UNCHANGED vars
        PROVE  Good
    <2>1. Moves
      BY <1>4, KeepAll DEF vars, Inv, Core, SameOpen
    <2> QED
      BY <1>4, <2>1, LoopUnchanged DEF vars, marks, Good, Links, Inv, RestOK
  <1> QED
    BY <1>1, <1>2, <1>3, <1>4, ConnectStep, DisconnectStep, ClearedStep, OthersStep DEF Next

-----------------------------------------------------------------------------
(* Theorems                                                                *)

LEMMA InvInit == Init => Inv
  <1> SUFFICES ASSUME Init
               PROVE  Inv
    OBVIOUS
  <1>1. conn \in Conns /\ entry \in Entries
    BY ValueTypes DEF Init, Conns, Entries
  <1>2. app \in [Peer -> BOOLEAN] /\ beat \in [Peer -> BOOLEAN]
    BY DEF Init
  <1>3. AppAgrees
    BY DEF Init, AppAgrees, Connected, NoEntry
  <1>4. OpenIsRegistered
    BY ValueTypes DEF Init, OpenIsRegistered, NoEntry, Entry
  <1>5. LoopOK
    BY ValueTypes DEF Init, LoopOK, IdleLoop
  <1>6. RestOK
    BY TransportAssumption DEF Init, RestOK
  <1> QED
    BY <1>1, <1>2, <1>3, <1>4, <1>5, <1>6 DEF Inv, Core

LEMMA LinksKeep ==
    ASSUME Core, Links
    PROVE  Core' /\ \A p \in Peer : app[p] /\ app'[p] => entry'[p] = entry[p]
  <1>0. \A p \in Peer : /\ app[p] = Connected(p) /\ beat[p] = Connected(p)
                        /\ \A c \in Slot : IsOpen(conn, c, p) <=> entry[p] = Entry(c, "connected")
                        /\ ~ Connected(p) => \A c \in Slot : ~ IsOpen(conn, c, p)
    BY CoreFacts
  <1>1. Frame
    BY DEF Links, Moves, Gains
  <1>2. ASSUME NEW p \in Peer
        PROVE  /\ app'[p] <=> entry'[p].status = "connected"
               /\ beat'[p] <=> entry'[p].status = "connected"
               /\ \A c \in Slot : IsOpen(conn', c, p) <=> entry'[p] = Entry(c, "connected")
               /\ app[p] /\ app'[p] => entry'[p] = entry[p]
    <2>1. CASE Keep(p)
      <3>1. CASE Connected(p)
        BY <1>0, <2>1, <3>1 DEF Keep, Connected
      <3>2. CASE ~ Connected(p)
        BY <1>0, <2>1, <3>2 DEF Keep, Entry
      <3> QED
        BY <3>1, <3>2
    <2>2. CASE Lose(p)
      BY <2>2 DEF Lose, Entry
    <2>3. ASSUME NEW c \in Slot, Gains(c, p)
          PROVE  /\ app'[p] <=> entry'[p].status = "connected"
                 /\ beat'[p] <=> entry'[p].status = "connected"
                 /\ \A d \in Slot : IsOpen(conn', d, p) <=> entry'[p] = Entry(d, "connected")
                 /\ app[p] /\ app'[p] => entry'[p] = entry[p]
      BY <1>0, <2>3 DEF Gains, Entry
    <2> QED
      BY <2>1, <2>2, <2>3 DEF Links, Moves, Gains
  <1>3. AppAgrees'
    BY <1>2 DEF AppAgrees, Connected
  <1>4. OpenIsRegistered'
    BY <1>2 DEF OpenIsRegistered, IsOpen
  <1> QED
    BY <1>1, <1>2, <1>3, <1>4 DEF Core, Frame

LEMMA InvStep == Inv /\ [Next]_vars => Inv'
  BY InvGood, LinksKeep DEF Good, Inv

LEMMA Inductive == Spec => []Inv
  BY InvInit, InvStep, PTL DEF Spec

\* Types; a connect() has a connection exactly while it waits for it (PeerTransport).
THEOREM TypeCorrect == Spec => []TypeOK
  <1>1. Inv => TypeOK
    BY DEF Inv, Core, Conns, ConnOK, Entries, LoopOK, RestOK, TypeOK
  <1> QED
    BY <1>1, Inductive, PTL

\* The app counts a peer as connected, and the heartbeat runs, exactly while a connection
\* to it is registered as connected (markConnected, the close and error handlers).
THEOREM AppKnows == Spec => []AppAgrees
  <1>1. Inv => AppAgrees
    BY DEF Inv, Core
  <1> QED
    BY <1>1, Inductive, PTL

\* An open end is the registered one (_setupConnection, connect).
THEOREM NoOrphans == Spec => []OpenIsRegistered
  <1>1. Inv => OpenIsRegistered
    BY DEF Inv, Core
  <1> QED
    BY <1>1, Inductive, PTL

\* The connection the app works with is not replaced under it (markConnected).
THEOREM NotReplaced == Spec => KeepsConnection
  <1>1. Inv /\ [Next]_vars => [\A p \in Peer : app[p] /\ app'[p] => entry'[p] = entry[p]]_vars
    BY InvGood, LinksKeep DEF Good, Inv
  <1> QED
    BY <1>1, Inductive, PTL DEF Spec, KeepsConnection
=============================================================================
