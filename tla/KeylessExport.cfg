SPECIFICATION Spec
CONSTANTS
    e1 = e1
    e2 = e2
    q1 = q1
    a1 = a1
    a2 = a2
    k1 = k1
    p1 = p1
    p2 = p2
    NoPass = NoPass
    Noise = Noise
    Nil = Nil
    Pending = Pending
    Foreign = Foreign
    Unopened = Unopened
    Alias <- MCAlias
    Cert <- MCCert
    CA <- MCCA
    Key <- MCKey
    Pass <- MCPass
    Quirk <- MCQuirk
    ForeignFiles <- MCForeignFiles
INVARIANT
    KeylessExportRefused
