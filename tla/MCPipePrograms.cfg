SPECIFICATION FairSpec
CONSTANTS
    ValMod = 8
    LinkReg = 3
    PcInit = 0
    MemImage <- Data
    Breaks <- NoBreaks
    Irqs = FALSE
    EBaseSet = TRUE
    Vector = 6
    StepOver <- NoCauses
    Programs <- MixedPrograms
    AllowRestart = FALSE
INVARIANT NothingYounger
PROPERTIES ExecutesInOrder Progress
