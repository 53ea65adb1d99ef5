CONSTANTS
    MaxInt = 3
    Narrow = 4
    MaxLen = 4
    MaxSum = 20
    Inputs <- Plain
    Words = {"a", "b"}
    Amounts <- Steps
    Keyings <- WideKeyings
    KeyValues <- SomeValues
SPECIFICATION RowSpec
INVARIANT EveryKeyAccepted
