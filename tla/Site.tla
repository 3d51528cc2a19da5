--------------------------------- MODULE Site ---------------------------------
(***************************************************************************)
(* The pages of the site on the two tables they read.  A browser tab has   *)
(* one view open: the explorer's strip, its period figures, the dashboard, *)
(* or a page of counters; the crawlers go on committing in each.           *)
(***************************************************************************)
EXTENDS BlockReads, NodeReads

VARIABLE view

siteVars == <<view, blockVars, nodeVars>>

\* The counters start from any nodes table and the strip from any blocks table
\* the crawler leaves; the others from a new one.
Init ==
  /\ view \in {"strip", "period", "dashboard", "counters"}
  /\ BlocksInit /\ NodesInit
  /\ stamp = IF view = "counters" THEN Min(Stamp) ELSE 0
  /\ view # "strip" => stored = NewestWindow(FirstTip)

Next ==
  \/ view = "strip" /\ StripNext /\ UNCHANGED <<view, nodeVars>>
  \/ view = "period" /\ PeriodNext /\ UNCHANGED <<view, nodeVars>>
  \/ view = "dashboard" /\ DashboardNext /\ UNCHANGED <<view, blockVars>>
  \/ view = "counters" /\ CountersNext /\ UNCHANGED <<view, blockVars>>

Spec == Init /\ [][Next]_siteVars
=============================================================================
