SPECIFICATION Spec
CONSTANTS
    e1 = e1
    e2 = e2
    e3 = e3
    a1 = a1
    k1 = k1
    p1 = p1
    p2 = p2
    NoPass = NoPass
    Noise = Noise
    Nil = Nil
    Pending = Pending
    Alias <- MCAlias
    Cert <- MCCert
    CA <- MCCA
    Key <- MCKey
    Pass <- MCPass
    Quirk <- MCQuirk
    Inputs <- MCInputs
INVARIANT
    ErrorsReported
\* The call returns: a returned call has no step left.
CHECK_DEADLOCK FALSE
