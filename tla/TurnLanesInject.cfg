\* Three messages of one contact and a wake of another contact on one conversation, and two
\* failures.
SPECIFICATION Spec
CONSTANTS
    c1 = c1  m1 = m1  m2 = m2  m3 = m3  w1 = w1  r1 = r1
    None = None
    Convs = {c1}
    Inbounds = {m1, m2, m3}
    Wakes = {w1}
    Rewrites = {}
    Conv <- OneConv
    Contact <- WakeOfB
    Resolved = {m1, m2, m3, w1}
    Clean = {m1, m2, m3}
    MaxInjections = 1
    MaxFaults = 2
    Hung = {}
SYMMETRY MessageSymmetry
INVARIANTS
    TypeOK OpenTicketOwned FollowUpStored LaneRecordExact
\* The system is quiet once every message and wake has been handled.
CHECK_DEADLOCK FALSE
