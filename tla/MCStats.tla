------------------------------- MODULE MCStats -------------------------------
(***************************************************************************)
(* Stats for TLC.  Three kinds of behaviour, chosen at the start, because  *)
(* clients only read the tables and do not touch each other's state:       *)
(*   - a subscriber: what it learns of a connection does not depend on the *)
(*     messages about another, except that those take room, so it has      *)
(*     StreamConns connections and small channels;                         *)
(*   - requests, with RequestConns connections to one destination;         *)
(*   - neither, with MaxConns connections to all destinations, for the     *)
(*     eviction and the ring.                                              *)
(* Only requests tell errors apart, and only subscribers read the events.  *)
(***************************************************************************)
EXTENDS Stats

CONSTANTS Requests, Nobody, StreamConns, RequestConns

VARIABLE client

Streaming == client \in Subscribers

MCInit == /\ Init
          /\ client \in Subscribers \cup {Requests, Nobody}
          /\ client # Requests => ~persisted

NoErrors == \A k \in DOMAIN logged' : ~logged'[k].err

MCNext == /\ Next
          /\ client' = client
          /\ \A s \in Subscribers \ {client} : sub'[s] = Off
          /\ client # Requests => query' = query /\ NoErrors
          /\ client # Nobody => Cardinality(DOMAIN dests') <= 1
          /\ Streaming => nextConnID' <= StreamConns
          /\ client = Requests => nextConnID' <= RequestConns
          /\ ~Streaming =>
                /\ bcast' = bcast /\ closed' = closed
                /\ Len(events') >= Len(events)

MCSpec == MCInit /\ [][MCNext]_<<vars, client>> /\ Fairness
=============================================================================
