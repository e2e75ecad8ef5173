SPECIFICATION Spec
CONSTANTS
    Runs = {1, 2}
    Stamps = {"valid_chain_a", "valid_chain_b"}
    Counts <- MCCounts
    Intermediate <- MCIntermediate
    Cert <- MCCert
    Name <- MCName
    Key <- MCKey
    Unparsable = {}
    Subject <- MCSubject
    Issuer <- MCIssuer
    Authority <- MCAuthority
    SubjectKey <- MCSubjectKey
    SignerKey <- MCSignerKey
    Identified <- MCCert
    Unfit = {}
    System <- MCSystem
    SelfSignedText = "self-signed certificate"
INVARIANTS RunsStayApart PinnedIsWhole TempRemoved
CHECK_DEADLOCK FALSE
