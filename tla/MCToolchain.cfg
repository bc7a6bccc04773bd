SPECIFICATION Spec
CONSTANTS
    Addrs <- MCAddrs
    Constants <- MCConstants
    W = 4
    MaxLine = 6
    ExprWords = {"2", "x", "y"}
    ExprOps = {"+", "-", "*", "~", "(", ")"}
    Symbols <- MCSymbols
    MaxExpr = 6
    Sources <- MCSources
    Main = "a"
    MaxAddr = 40
    MaxNesting = 4
    FieldMax = 7
INVARIANTS InstructionsAgree AluMatchesReference AssemblerFaithful
PROPERTIES AssemblyEnds
CHECK_DEADLOCK FALSE
