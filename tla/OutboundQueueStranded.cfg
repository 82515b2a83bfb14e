\* No fault at all: the transport comes back while a send is on its way into the table.
SPECIFICATION Spec
CONSTANTS
    s1 = s1  s2 = s2  s3 = s3  None = None
    Sends = {s1, s2, s3}
    Cap = 2
    MaxConnects = 1
    MaxExpired = 1
    MaxFaults = 0
INVARIANTS
    NoStrandedRow
CHECK_DEADLOCK FALSE
