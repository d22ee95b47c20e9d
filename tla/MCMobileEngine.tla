--------------------------- MODULE MCMobileEngine ---------------------------
(***************************************************************************)
(* MobileEngine and TunForwarder for TLC.  A behaviour is about an engine  *)
(* or about its forwarders.  The native side of an engine calls Start once *)
(* and Stop at any time, also while Start runs ("overlap"), or Start and   *)
(* Stop again and again, one after the other ("sequence").                 *)
(***************************************************************************)
EXTENDS MobileEngine, TunForwarder

VARIABLE part   \* what this behaviour is about

MCInit == Init /\ UInit /\ part \in {"overlap", "sequence", "forwarders"}

EngineStep ==
    /\ Next /\ UNCHANGED uvars
    /\ \A e \in Engines :
          /\ part = "overlap" => starts'[e] <= 1
          /\ part = "sequence" => (stops'[e] # stops[e] => pc[e].start = "idle")

MCNext ==
    /\ UNCHANGED part
    /\ \/ part # "forwarders" /\ EngineStep
       \/ part = "forwarders" /\ UNext /\ UNCHANGED vars

\* Where a behaviour is about one of the two, the other has no step to take.
MCFairSpec == MCInit /\ [][MCNext]_<<vars, uvars, part>> /\ Fairness /\ UFairness
=============================================================================
