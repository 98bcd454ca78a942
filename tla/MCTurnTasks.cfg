SPECIFICATION Spec

CONSTANTS
    Inputs = {i1}
    Triggers = {m1}
    Notes = {}
    Extras = {x1}
    Loop = Loop
    Guard = Guard
    Voice = Voice
    NoTurn = NoTurn
    MaxTurns = 5
    MaxStops = 1
    StopAtRace = TRUE

INVARIANTS
    TerminalOnce
    SlotLive
    NoLimbo
    RestIsClean

PROPERTY
    ComesToRest


CHECK_DEADLOCK FALSE
