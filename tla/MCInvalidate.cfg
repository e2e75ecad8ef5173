SPECIFICATION Spec
CONSTANTS
    L = L
    K = K
    M = M
    N = N
    I = I
    J = J
    T = T
    R = R
    S = S
    U = U
    X = X
    P = P
    Q = Q
    NoPin = NoPin
    Cert <- MCCert
    Name <- MCName
    Key = {"l", "i", "j", "r", "o", "q", "s", "n", "t", "u"}
    Unparsable <- MCUnparsable
    Subject <- MCSubject
    Issuer <- MCIssuer
    Authority <- MCAuthority
    SubjectKey <- MCSubjectKey
    SignerKey <- MCSignerKey
    Reissued <- MCReissued
    Mangled <- MCMangled
    CommonName <- MCCommonName
    NotGiven = NotGiven
    Runs <- MCRuns
    Chains <- MCChains
    KeyRings = {{"l", "i"}}
    Selections <- MCSelections
    Places <- MCPlaces
INVARIANTS
    KeysRemoved
    DeliveredSoFar
    CountIsTrue
    TypoFailsEarly
PROPERTY KeysGoAway
CHECK_DEADLOCK FALSE
