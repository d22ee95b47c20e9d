------------------------------ MODULE MCProxy --------------------------------
(***************************************************************************)
(* The proxies for TLC: a behaviour is either the life of one TCP          *)
(* connection or the work of one of the datagram proxies.                  *)
(***************************************************************************)
EXTENDS Relay, Datagrams

MCInit == Init /\ DInit

MCNext ==
    \/ mode = "tcp" /\ RelayNext /\ UNCHANGED dvars
    \/ DNext /\ UNCHANGED vars

MCSpec == MCInit /\ [][MCNext]_<<vars, dvars>> /\ Fairness /\ DFairness
=============================================================================
