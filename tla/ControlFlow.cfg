SPECIFICATION Spec
CONSTANTS
    STACK_SIZ = 2
    SLABELS = 2
    MaxStmt = 4
    MaxFunction = 2
    MaxGlobal = 1
CHECK_DEADLOCK FALSE
INVARIANTS
    TypeOK
    StackMirrorsNesting
    LabelsUnique
    LabelsResolved
    OverrunOnlyByOneFunction
PROPERTIES
    FollowsStructure
    KeepsExecuting
