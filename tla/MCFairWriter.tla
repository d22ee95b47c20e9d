---------------------------- MODULE MCFairWriter ----------------------------
(***************************************************************************)
(* FairWriter with two streams, an input channel shorter than a stream's   *)
(* traffic and frames that leave a deficit over, or fill the quantum.      *)
(***************************************************************************)
EXTENDS FairWriter, TLC

StreamSymmetry == Permutations(Streams)
=============================================================================
