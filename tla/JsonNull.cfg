CONSTANTS
    MaxInt = 3
    Narrow = 4
    MaxLen = 4
    MaxSum = 20
    Inputs <- JsonOnly
    Words = {"a", "b"}
    Amounts <- Steps
    Keyings <- NoKeyings
    KeyValues <- SomeValues
SPECIFICATION RowSpec
PROPERTY ImplementsRegister
