SPECIFICATION Spec
CONSTANTS
    Users = {u1, u2, u3}
    Nobody = Nobody
    MaxMatches = 1
    MaxOps = 2
    MaxCalls = 6
    MaxFaults = 0
INVARIANT OneGameAtATime
CHECK_DEADLOCK FALSE
