------------------------------ MODULE MCCrawler ------------------------------
(* Small instances of Crawler for TLC.                                       *)
EXTENDS Crawler, TLC

CONSTANTS a, b, c, o

\* The children of a are c and the onion peer o, and both of them know b: workers
\* of the two pools learn it at the same time.
GossipChain == (a :> {c, o}) @@ (c :> {b}) @@ (o :> {b}) @@ (b :> {})

OneSeed == <<[peer |-> a, depth |-> 0, pre |-> FALSE]>>

\* A seed RPC knows, repeated as a command-line seed.
RepeatedSeed == <<[peer |-> a, depth |-> 1, pre |-> TRUE],
                  [peer |-> a, depth |-> 0, pre |-> FALSE]>>
=============================================================================
