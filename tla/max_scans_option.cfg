CONSTANTS
    Items = {a}
    MaxPuts = 2
    max_scans = 2
    Options = {"default", "given"}
SPECIFICATION Spec
INVARIANT MaxScansUsable
CHECK_DEADLOCK FALSE
