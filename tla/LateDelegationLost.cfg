\* One delegation and one fault.
SPECIFICATION Spec
CONSTANTS
    d1 = d1  None = None
    Delegations = {d1}
    MaxFaults = 1
INVARIANTS
    ResolvedMeansWoken
CHECK_DEADLOCK FALSE
