---------------------------- MODULE MCChainSurvey ----------------------------
(* Small instances of ChainSurvey for TLC.                                   *)
EXTENDS ChainSurvey, TLC

\* Peers that are not stray are alike.
PeerSymmetry == Permutations(Peer \ Stray)
=============================================================================
