SPECIFICATION MainSpec
CONSTANTS
    Target = "target"
    Found <- MCFound
    IntLabel <- MCIntLabel
    Class = {"VALID", "EXPIRED_ROOT"}
    Destination = "out.json"
    NoFile = "no file"
INVARIANTS EveryFindingOnce SummariesAgree PayloadAlone DeliveredOrFailed
CHECK_DEADLOCK FALSE
