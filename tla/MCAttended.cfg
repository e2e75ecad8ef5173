SPECIFICATION Spec
CONSTANTS
    Dirs <- MCDirs
    Files <- MCFiles
    Containers <- MCContainers
    Labelled <- MCLabelled
    Format <- MCFormat
    Certified <- MCCertified
    Keyed <- MCKeyed
    Old <- MCOld
    Passphrase <- MCPassphrase
    Password = {"none", "secret", "old"}
    Empty = "none"
    NotGiven = "not given"
    Pinnable <- MCPinnable
    Given <- MCGiven
INVARIANT StaysUnattended
CHECK_DEADLOCK FALSE
