SPECIFICATION Spec

CONSTANTS
    Inputs = {i1}
    Triggers = {m1}
    Notes = {}
    Extras = {x1}
    Loop = Loop
    Guard = Guard
    Voice = Voice
    NoTurn = NoTurn
    MaxTurns = 5
    MaxStops = 0
    StopAtRace = FALSE

INVARIANT
    SlotFree

CHECK_DEADLOCK FALSE
