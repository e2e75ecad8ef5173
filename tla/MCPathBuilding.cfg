SPECIFICATION Spec
CONSTANTS
    L = L
    M = M
    I = I
    N = N
    R = R
    R2 = R2
    X = X
    U = U
    MaxBundle = 3
    Cert <- MCCert
    Name = {"leaf", "other leaf", "int", "root"}
    Key = {"k"}
    Unparsable = {U}
    Subject <- MCSubject
    Issuer <- MCIssuer
    Authority = {I, R, R2, X}
    SubjectKey <- MCAnyKey
    SignerKey <- MCAnyKey
    Bundles <- MCBundles
INVARIANTS
    TypeOK
    CollectedPathsAreReal
    NothingLost
    ResultInReadingOrder
    RecursionBounded
PROPERTIES
    Terminates
    KeepsPromise
CHECK_DEADLOCK FALSE
