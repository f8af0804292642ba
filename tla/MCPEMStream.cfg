SPECIFICATION Spec
CONSTANTS
    e1 = e1
    e2 = e2
    a1 = a1
    a2 = a2
    k1 = k1
    k2 = k2
    p1 = p1
    p2 = p2
    NoPass = NoPass
    Noise = Noise
    Nil = Nil
    Pending = Pending
    Alias = {}
    Cert <- MCCert
    CA <- MCCA
    Key <- MCKey
    Pass <- MCPass
    Quirk <- MCQuirk
    Streams <- MCStreams
INVARIANTS
    TypeOK
    ScanInv
    LeafLeads
    CertificatesConserved
    IgnoredBlocksInert
    DetectionCoversContent
    RightPassphraseNotBlamed
PROPERTIES
    ImplementsParseCall
    Returns
\* The call returns: a returned call has no step left.
CHECK_DEADLOCK FALSE
