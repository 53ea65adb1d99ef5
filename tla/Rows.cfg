CONSTANTS
    MaxInt = 3
    Narrow = 4
    MaxLen = 4
    MaxSum = 20
    Inputs <- Plain
    Words = {"a", "b"}
    Amounts <- Steps
    Keyings <- SomeKeyings
    KeyValues <- SomeValues
SPECIFICATION RowSpec
INVARIANTS
    ReadsExact
    NullMeansNone
    KeysReadBack
PROPERTIES
    ImplementsRegister
    FoundWhenThere
