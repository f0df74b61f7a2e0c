\* Both commands, with failing calls, a clear by another program, the analyst,
\* the agent and the watching script.
SPECIFICATION Spec
CONSTANTS
    dropfiles = dropfiles
    crm = crm
    invented = invented
    Pool = {dropfiles}
    Routine = {crm}
    MadeUp = invented
    Window = 1
    Top = 1
    Left = {dropfiles}
    MaxRows = 1
    MaxCycles = 2
    MaxUploads <- Once
    MaxPasses <- Once
    MaxTroubles <- Troubles
INVARIANTS
    TypeOK
    OneProposal
    RecommendationsExplained
    
    
CHECK_DEADLOCK FALSE
