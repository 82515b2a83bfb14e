\* Progress over failures, a hung turn and a restart; beside the wake a job nobody can run.
SPECIFICATION Spec
CONSTANTS
    cron = cron  wake = wake  orphan = orphan  p1 = p1  p2 = p2  None = None
    Jobs = {wake, orphan}
    Cron = {orphan}
    Wakes = {wake}
    Anchored = {}
    Unrunnable = {orphan}
    Polls = {p1}
    MaxInFlight = 2
    SuspendThreshold = 2
    MaxRuns = 2
    MaxTicks = 1
    FaultKinds = {"publish", "response", "complete"}
    MaxFaults = 1
    MaxCrashes = 1
    Commands = {"reschedule", "finish", "heartbeat"}
    MaxCommands = 1
PROPERTIES
    DeferralArmed
    RunningEnds
    FinishedWakeRetires
\* The scheduler is quiet once nothing is due.
CHECK_DEADLOCK FALSE
