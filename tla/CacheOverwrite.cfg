SPECIFICATION KmSpec
CONSTANTS
    ModuleCalls = {s1, s2}
    TTL = 1
    MaxTime = 3
PROPERTIES
    NewerLooksStay
CHECK_DEADLOCK FALSE
