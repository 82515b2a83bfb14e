\* Three sends into a queue of two, a transport that comes up twice, one fault.
SPECIFICATION Spec
CONSTANTS
    s1 = s1  s2 = s2  s3 = s3  None = None
    Sends = {s1, s2, s3}
    Cap = 2
    MaxConnects = 2
    MaxExpired = 1
    MaxFaults = 1
INVARIANTS
    TypeOK CapHolds SentOnce AnswersAreKept
PROPERTIES
    FlushInOrder
CHECK_DEADLOCK FALSE
SYMMETRY Symmetry
