SPECIFICATION Spec
CONSTANTS
    u1 = u1
    u2 = u2
    u3 = u3
    User <- MCUser
    Owner = u1
    Seats = 2
    Rounds = 2
    PerRound = 1
    MaxOps = 5
    MaxVotes = 1
    MaxWrites = 2
CHECK_DEADLOCK FALSE
INVARIANTS
    SeatsFit
    FeeOnce
