SPECIFICATION Spec
CONSTANTS
    a = a
    plus = plus
    Comma = Comma
    Backslash = Backslash
    CN = CN
    Serial = Serial
    O = O
    d1 = d1
    d2 = d2
    ip1 = ip1
    None = None
    MaxKeys = 3
    Char <- MCChar
    Special <- MCSpecial
    San <- MCSan
    Foreign <- MCForeign
    Options <- MCPlainOptions
INVARIANT
    NameExactWherePromised
\* The bound MaxKeys ends every behaviour.
CHECK_DEADLOCK FALSE
