SPECIFICATION Spec
CONSTANTS
    L = L
    K = K
    F = F
    M = M
    I = I
    J = J
    N = N
    V = V
    R = R
    R2 = R2
    O = O
    X = X
    P = P
    E = E
    U = U
    NoPin = NoPin
    Unreadable = Unreadable
    Cert <- MCCert
    Name = {"leaf", "int", "sub", "root", "other", "device"}
    Key = {"l", "i", "j", "r", "r2", "o", "e"}
    Unparsable = {U}
    Subject <- MCSubject
    Issuer <- MCIssuer
    Authority = {I, J, V, R, R2, O, X, P}
    SubjectKey <- MCSubjectKey
    SignerKey <- MCSignerKey
    Identified = {L, K, M, I, J, N, V, R, R2, O, X, P, E}
    Unfit = {V}
    System = {R, X}
    SelfSignedText = "self-signed certificate"
    Bundles <- MCBundles
    Pins = {NoPin, Unreadable, I, R, R2, O}
    Mortal = {L, K, I, J, R, X}
INVARIANTS
    ValidMeansTrusted
    SoundPathAccepted
    ExpiryIsNamed
    GapIsExplained
    CorruptionNeverSilent
CHECK_DEADLOCK FALSE
