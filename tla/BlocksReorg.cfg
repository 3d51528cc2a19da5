\* Four blocks at first, up to seven ever, reorganisations of depth one, one
\* restart; windows small enough that the backfill has work to do.
CONSTANTS
  Window = 2
  Analyze = 1
  Backfill = 1
  Period = 4
  Signalling = {1, 2, 5, 6}
  FirstBlocks = 4
  MaxBlocks = 7
  MaxDepth = 1
  MaxRestarts = 1
SPECIFICATION Spec
INVARIANTS TypeOK WindowMirrorsChain BacklogShrinks AnalysisBelongs
PROPERTY AnalysisKept
