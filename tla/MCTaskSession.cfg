CONSTANTS
    Objects = {1, 2}
    Regions = {1, 2, 3}
    Outside = 4
    Fits <- SpareForOne
    Depth = 3
    ToolRounds = 1
    MaxPlans = 2
    MaxMishaps = 1
SPECIFICATION Spec
INVARIANTS StepsInOrder AnswersAreTruthful
PROPERTIES GoalIsMeasured OnlyCurrentStepsAreSent
CHECK_DEADLOCK FALSE
