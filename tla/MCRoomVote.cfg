SPECIFICATION Spec
CONSTANTS
    u1 = u1
    u2 = u2
    u3 = u3
    User <- MCUser
    Owner = u1
    Seats = 3
    Rounds = 1
    PerRound = 1
    MaxOps = 6
    MaxVotes = 1
    MaxWrites = 1
CHECK_DEADLOCK FALSE
PROPERTY AllAgreed
