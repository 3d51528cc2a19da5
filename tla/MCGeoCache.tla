----------------------------- MODULE MCGeoCache -----------------------------
(* Small instances of GeoCache for TLC.                                      *)
EXTENDS GeoCache, TLC

CONSTANTS i, j, c1, c2

\* One crawler reaches both addresses and does not know its own; the other has
\* one of them as its own and reaches nobody.
Peers == (c1 :> {i, j}) @@ (c2 :> {})
Selves == (c1 :> {}) @@ (c2 :> {j})
=============================================================================
