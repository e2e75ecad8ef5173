SPECIFICATION Spec
CONSTANTS
    Dirs <- MCDirs
    MULTIPEM_SUBDIRS = {"leaf", "intermediates", "root"}
INVARIANTS
    TypeOK
    NeverOutside
    NearestPin
    SplitChainsStayWhole
    NothingOverlooked
PROPERTY Terminates
CHECK_DEADLOCK FALSE
