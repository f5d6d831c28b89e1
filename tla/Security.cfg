CONSTANTS
    Passwords = {p}
    NoPassword = NoPassword
    Corrupt = Corrupt
    Second = 1
    MaxExponent = 1
    U32Max = 5
    U64Max = 1000
    Frequency = 2
    Horizon = 15
    CounterBound = 20
    WrongBound = 6
    OutputLength = 3
    Hardware <- MCHardware
SPECIFICATION SaltedSpec
INVARIANTS
    GuessBudget
    SaltsAreRandom
    IInv
PROPERTIES
    ChangeNeedsCurrent
    LockoutEnds
