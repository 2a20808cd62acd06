------------------------------- MODULE Outbox -------------------------------
(***************************************************************************)
(* What an outbox for one recipient promises, whatever its rows, timers,   *)
(* retries and restarts: an entry it has taken is held until it has been   *)
(* handed to the transport or is closed (acknowledged, given up after the  *)
(* allowed number of attempts, or out of date).  It does not promise that  *)
(* an entry is handed over once: an entry that was dropped may come back.  *)
(***************************************************************************)
CONSTANT Entry

VARIABLES
    taken,  \* entries accepted so far
    held,   \* entries in the outbox
    handed, \* entries handed to the transport at least once
    closed  \* entries that need not be delivered any more

vars == <<taken, held, handed, closed>>

Init == taken = {} /\ held = {} /\ handed = {} /\ closed = {}

\* A new entry is written; its message may already have been acknowledged.
Take(e) ==
    /\ e \notin taken
    /\ taken' = taken \cup {e}
    /\ held' = held \cup {e}
    /\ closed' \in {closed, closed \cup {e}}
    /\ UNCHANGED handed

Hand(e) ==
    /\ e \in taken
    /\ handed' = handed \cup {e}
    /\ UNCHANGED <<taken, held, closed>>

Close(es) ==
    /\ es \subseteq taken
    /\ closed' = closed \cup es
    /\ UNCHANGED <<taken, held, handed>>

\* Entries leave only when they were handed over or are closed.
Drop(es) ==
    /\ es \subseteq handed \cup closed
    /\ held' = held \ es
    /\ UNCHANGED <<taken, handed, closed>>

PutBack(e) ==
    /\ e \in taken
    /\ held' = held \cup {e}
    /\ UNCHANGED <<taken, handed, closed>>

Next ==
    \/ \E e \in Entry : Take(e) \/ Hand(e) \/ PutBack(e)
    \/ \E es \in SUBSET Entry : Close(es) \/ Drop(es)

Spec == Init /\ [][Next]_vars
=============================================================================
