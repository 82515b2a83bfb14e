\* A recurring job: overlapping polls, a failure, two commands, a restart.
SPECIFICATION Spec
CONSTANTS
    cron = cron  wake = wake  orphan = orphan  p1 = p1  p2 = p2  None = None
    Jobs = {cron}
    Cron = {cron}
    Wakes = {}
    Anchored = {cron}
    Unrunnable = {}
    Polls = {p1, p2}
    MaxInFlight = 2
    SuspendThreshold = 2
    MaxRuns = 3
    MaxTicks = 1
    FaultKinds = {"claim", "publish", "response", "complete"}
    MaxFaults = 1
    MaxCrashes = 1
    Commands = {"cancel", "pause", "resume", "edit"}
    MaxCommands = 2
SYMMETRY PollSymmetry
INVARIANTS
    TypeOK
    OncePerOccurrence
    SlotsAccounted
\* The scheduler is quiet once nothing is due.
CHECK_DEADLOCK FALSE
