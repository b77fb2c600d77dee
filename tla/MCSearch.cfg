CONSTANTS
    Objects = {1, 2, 3}
    Regions = {1, 2, 3}
    Outside = 4
    Fits <- OneIsTooBig
    Depth = 3
    Expansions = 40
    Width = 40
    Refusals = 1
SPECIFICATION Spec
INVARIANTS PlanIsExecutable MissesNothing
CHECK_DEADLOCK FALSE
