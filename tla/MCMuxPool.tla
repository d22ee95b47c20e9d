----------------------------- MODULE MCMuxPool -----------------------------
(* Instances of MuxPool for TLC; the cfg files give every bound.           *)
EXTENDS MuxPool
=============================================================================
