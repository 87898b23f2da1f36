SPECIFICATION FairSpec
CONSTANTS
  None = None
  NoChunk = NoChunk
  MaxTokens = 4
  Overlap = 2
  Separator = 1
  Decoded = 2
  Replicas = {r1, r2}
  Count = 2
  Names = {n, m}
  Texts <- SomeTexts
  Limit = 1
  MaxTime = 1
INVARIANTS TypeOK OnlyNamesakesMix ChunksCoverText
PROPERTY ReportsAreTrue
\* A call that has returned and whose jobs are done leaves nothing to do.
CHECK_DEADLOCK FALSE
