SPECIFICATION Spec
CONSTANTS
    PropNames = {"p", "q"}
    Values = {1, 2}
    Absent = Absent
    Defs <- MCDefs
    Lead <- MCLead
    NameLike = {2}
    UniqueProp = "p"
    NumShards = 2
    Admins = {a1}
    None = None
    Payloads <- MCPayloads
    Preloaded = 2
    MaxNodes = 3
    MaxDdl = 2
    MaxWrites = 2
    MaxFaults = 1
INVARIANTS  LookupSound UniqueHeld
CHECK_DEADLOCK FALSE
