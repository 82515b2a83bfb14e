\* One approval, decided by a turn, a reaction, the sweep and a restart or another fault.
SPECIFICATION Spec
CONSTANTS
    request = request  d1 = d1  d2 = d2  None = None
    Rows = {request}
    Turns = {d1}
    Reactions = {d2}
    Channels <- OneChannel
    Bindable = {"signal"}
    Queueing = {"signal"}
    Wants = {"approved", "denied", "dismissed"}
    MaxMessages = 2
    MaxFaults = 1
INVARIANTS
    TypeOK AtMostOnce AnswerFollowsClaim
PROPERTIES
    EveryApprovalIsSent ExpiredCardSettles
CHECK_DEADLOCK FALSE
