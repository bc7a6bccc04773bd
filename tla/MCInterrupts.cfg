CONSTANTS
    CountMod = 10
    Chars = {1, 2}
    DelaySlots = {FALSE, TRUE}
    Uses <- MCUses
    TimerValues = {0, 3}
    StatusValues <- MCStatusValues
    MaxInput = 2
    AllowRestart = TRUE
SPECIFICATION Spec
INVARIANTS RxLineLevel RxConsumed FetchedInterruptUnmasked
PROPERTIES CharsInOrder RequestServed TimerFires
