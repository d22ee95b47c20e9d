-------------------------- MODULE MCTunnelSession --------------------------
(* Instances of TunnelSession for TLC; the cfg files give every bound.     *)
EXTENDS TunnelSession
=============================================================================
