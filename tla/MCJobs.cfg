CONSTANTS
    None = None
    j1 = j1
    j2 = j2
    Jobs = {j1, j2}
    Waits <- SecondWaits
    Exclusive = {j1, j2}
    Listers = {user}
    Cancellers = {user}
    Taggers = {tagger}
    MaxTags = 1
    Killable = {j1}
    Impatient = TRUE
SPECIFICATION FairSpec
INVARIANTS GpuExclusive TerminalMeansOver
PROPERTIES JobsEnd RecordsSettle
CHECK_DEADLOCK FALSE
