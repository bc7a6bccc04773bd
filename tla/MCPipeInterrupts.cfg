SPECIFICATION Spec
CONSTANTS
    ValMod = 8
    LinkReg = 3
    PcInit = 0
    MemImage <- Data
    Breaks <- SomeBreaks
    Irqs = TRUE
    EBaseSet = TRUE
    Vector = 6
    StepOver <- AllButInt
    Programs <- FewPrograms
    AllowRestart = TRUE
PROPERTY ExecutesInOrder
