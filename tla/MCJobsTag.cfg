CONSTANTS
    None = None
    j1 = j1
    j2 = j2
    Jobs = {j1}
    Waits <- NoWaits
    Exclusive = {j1}
    Listers = {}
    Cancellers = {}
    Taggers = {tagger}
    MaxTags = 1
    Killable = {}
    Impatient = FALSE
SPECIFICATION Spec
INVARIANT TagsAreHarmless
CHECK_DEADLOCK FALSE
