----------------------------- MODULE MCNodeStore -----------------------------
(* Small instances of NodeStore for TLC.                                     *)
EXTENDS NodeStore

CONSTANTS p, self

\* The edge our own node contributes.
OwnLink == {<<self, p>>}
=============================================================================
