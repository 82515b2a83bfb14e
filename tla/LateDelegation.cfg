\* One delegation and two faults.
SPECIFICATION Spec
CONSTANTS
    d1 = d1  None = None
    Delegations = {d1}
    MaxFaults = 2
INVARIANTS
    TypeOK OneWake OneOutcome 
PROPERTIES
    EveryHandleCloses
CHECK_DEADLOCK FALSE
