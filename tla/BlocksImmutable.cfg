\* The same instance, asked what the schema comment says of blocks.
CONSTANTS
  Window = 2
  Analyze = 1
  Backfill = 1
  Period = 4
  Signalling = {1, 2, 5, 6}
  FirstBlocks = 4
  MaxBlocks = 7
  MaxDepth = 1
  MaxRestarts = 1
SPECIFICATION Spec
INVARIANT SettledPayloadMatches
