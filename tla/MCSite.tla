------------------------------- MODULE MCSite -------------------------------
(* A small instance of Site for TLC.                                         *)
EXTENDS Site, TLC

CONSTANTS n1, n2, n3

\* Overlapping polls, and crawlers, differ only in their names.
Names == Permutations(Poll) \cup Permutations(ReportPoll) \cup Permutations(Crawler)

\* Two of the nodes tie in the column sorted by; one latency is on an edge, and
\* one has not been measured.
Order == (n1 :> 1) @@ (n2 :> 2) @@ (n3 :> 3)
Depths == (n1 :> 2) @@ (n2 :> 1) @@ (n3 :> 2)
Latencies == (n1 :> 50) @@ (n2 :> 120) @@ (n3 :> -1)
Bands == <<50, 100>>
=============================================================================
