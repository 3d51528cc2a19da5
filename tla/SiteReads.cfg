\* The strip: a window and polls of two blocks, pages of three, up to four blocks
\* between refreshes.  The period view: periods of three blocks, two crawlers, one
\* block replaced at a time, one failure or restart.  The dashboard: three nodes,
\* two snapshots.
CONSTANTS
  Window = 2  TipLimit = 2  PageLimit = 3  Poll = {a, b}  Crawler = {c1, c2}
  Period = 3  SigLimit = 3  Signalling = {1, 3, 4, 5, 6}
  FirstTip = 4  MaxHeight = 8  PeriodTip = 6  MaxDepth = 1  MaxFaults = 1
  n1 = n1  n2 = n2  n3 = n3
  Node = {n1, n2, n3}  Onion = {n1}
  RowOrder <- Order  Depth <- Depths  Latency <- Latencies  Edges <- Bands
  PageSize = 2  ReportPoll = {r1, r2}  Stamp = {1, 2}  MaxFailures = 1
SPECIFICATION Spec
SYMMETRY Names
INVARIANTS StripExact PeriodFigures TallyKeepsUp FiguresDrift DashboardExact PagesExact
           HistogramExact
CHECK_DEADLOCK FALSE
