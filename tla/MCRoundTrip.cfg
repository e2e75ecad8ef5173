SPECIFICATION RTSpec
CONSTANTS
    L = L
    K = K
    M = M
    N = N
    I = I
    J = J
    T = T
    R = R
    S = S
    U = U
    X = X
    P = P
    Q = Q
    NoPin = NoPin
    Unreadable = Unreadable
    Cert <- MCCert
    Name <- MCName
    Key = {"l", "i", "j", "r", "o", "q", "s", "n", "t", "u"}
    Unparsable <- MCUnparsable
    Subject <- MCSubject
    Issuer <- MCIssuer
    Authority <- MCAuthority
    SubjectKey <- MCSubjectKey
    SignerKey <- MCSignerKey
    Identified <- MCParsable
    Unfit = {}
    System = {R, P}
    SelfSignedText = "self-signed certificate"
    Bundles = {}
    Pins = {NoPin, R, Q}
    Mortal <- MCShortLived
    Reissued <- MCReissued
    Mangled <- MCMangled
    CommonName <- MCCommonName
    Random = Q
    Chains <- MCEveryChain
    KeyRings = {{"l", "i", "j", "r", "s", "n", "t", "u"}, {"l", "i"}}
INVARIANTS
    ClassifiedAsIntended
    NothingElseFound
    NeverAccepted
CHECK_DEADLOCK FALSE
