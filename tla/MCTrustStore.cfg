SPECIFICATION Spec
CONSTANTS
    L = L
    K = K
    F = F
    M = M
    I = I
    J = J
    N = N
    V = V
    R = R
    R2 = R2
    O = O
    X = X
    P = P
    E = E
    U = U
    NoPin = NoPin
    Unreadable = Unreadable
    Cert <- MCCert
    Name = {"leaf", "int", "sub", "root", "other", "device"}
    Key = {"l", "i", "j", "r", "r2", "o", "e"}
    Unparsable = {U}
    Subject <- MCSubject
    Issuer <- MCIssuer
    Authority = {I, J, V, R, R2, O, X, P}
    SubjectKey <- MCSubjectKey
    SignerKey <- MCSignerKey
    Identified = {L, K, M, I, J, N, V, R, R2, O, X, P, E}
    Unfit = {V}
    System = {R}
    SelfSignedText = "self-signed certificate"
    Bundles <- MCBundles
    Pins = {NoPin, O, R}
    Mortal = {L, K, I, J, R, X}
INVARIANT SuppliedMaterialOnly
CHECK_DEADLOCK FALSE
