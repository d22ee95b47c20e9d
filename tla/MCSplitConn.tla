---------------------------- MODULE MCSplitConn ----------------------------
(***************************************************************************)
(* SplitConn for TLC: a behaviour uses one of several mixes of streams.    *)
(***************************************************************************)
EXTENDS SplitConn

CONSTANT Mixes   \* sets of streams, each used together

VARIABLE mix

MCInit == Init /\ mix \in Mixes
MCNext == Next /\ UNCHANGED mix /\ \A e \in Ends : table'[e] \subseteq mix
MCSpec == MCInit /\ [][MCNext]_<<vars, mix>>
MCFairSpec == MCSpec /\ Fairness
=============================================================================
