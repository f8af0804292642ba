SPECIFICATION Spec
CONSTANTS
    k1 = k1
    p1 = p1
    NoPass = NoPass
    Noise = Noise
    Nil = Nil
    Pending = Pending
    Omitted = Omitted
    BlockSize = 3
    Alias = {}
    Cert = {}
    CA = {}
    Key <- MCKey
    Pass <- MCPass
    Quirk <- MCQuirk
    Files <- MCFiles
INVARIANTS
    TypeOK
    OwnKeysRead
    NoForgedPadding
PROPERTIES
    ImplementsParseCall
\* The call returns: a returned call has no step left.
CHECK_DEADLOCK FALSE
