CONSTANTS
    Passwords = {p}
    NoPassword = NoPassword
    Corrupt = Corrupt
    Second = 2
    MaxExponent = 0
    U32Max = 3
    U64Max = 66
    Frequency = 32
    Horizon = 36
    CounterBound = 64
    WrongBound = 3
SPECIFICATION FairSpec
PROPERTY LockoutEnds
