---------------------------- MODULE SharedClient -----------------------------
(***************************************************************************)
(* What the table of shared fectun clients promises, without counters,     *)
(* timers or locks: dialers hold streams on clients; at most one client    *)
(* per key is offered to new dials; a client is closed once, when it has   *)
(* no stream and is not offered, and is not used again.                    *)
(***************************************************************************)
EXTENDS Naturals

CONSTANTS Dialers, Clients, Keys, None

VARIABLES
    offered,   \* offered[k]: the client new dials with key k get, or None
    holds,     \* holds[d]: the client on which d has a stream, or None
    closed     \* the clients that have been closed

vars == <<offered, holds, closed>>

Init ==
    /\ offered = [k \in Keys |-> None]
    /\ holds = [d \in Dialers |-> None]
    /\ closed = {}

InUse(c) == \E d \in Dialers : holds[d] = c

\* A stream on the offered client, or on a new one that is offered from now.
Acquire(d, k) ==
    /\ holds[d] = None
    /\ \E c \in Clients \ closed :
         /\ \/ c = offered[k]
            \/ /\ offered[k] = None /\ ~InUse(c)
               /\ \A j \in Keys : offered[j] # c
         /\ offered' = [offered EXCEPT ![k] = c]
         /\ holds' = [holds EXCEPT ![d] = c]
    /\ closed' = closed

\* The stream is closed.  If its client is offered no longer and this was
\* the last stream, the client is closed with it.
Release(d) ==
    /\ holds[d] # None
    /\ holds' = [holds EXCEPT ![d] = None]
    /\ LET c == holds[d]
           last == \A e \in Dialers \ {d} : holds[e] # c
           out == \A k \in Keys : offered[k] # c
       IN  closed' = IF last /\ out THEN closed \cup {c} ELSE closed
    /\ offered' = offered

\* A client is not offered any longer; it is closed at once if nobody uses it.
Withdraw(k) ==
    /\ offered[k] # None
    /\ offered' = [offered EXCEPT ![k] = None]
    /\ closed' = IF InUse(offered[k]) THEN closed ELSE closed \cup {offered[k]}
    /\ holds' = holds

Next == \/ \E d \in Dialers, k \in Keys : Acquire(d, k)
        \/ \E d \in Dialers : Release(d)
        \/ \E k \in Keys : Withdraw(k)

Spec == Init /\ [][Next]_vars
=============================================================================
