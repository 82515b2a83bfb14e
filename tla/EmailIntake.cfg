\* A message skipped on purpose and two threads over retries, failures, a stop and a restart.
SPECIFICATION Spec
CONSTANTS
    a1 = a1  a2 = a2  a3 = a3  b1 = b1  ta = ta  tb = tb  None = None
    Mail = {a1, a2, a3, b1}
    Threads = {ta, tb}
    Date <- MCDate
    Thread <- MCThread
    Skipped = {a3}
    PageSize = 4
    MaxTurns = 1
    RetryLimit = 2
    FaultKinds = {"outage", "poison", "persist", "ack", "mark", "replay"}
    MaxFaults = 2
    MaxCrashes = 1
    InOrder = TRUE
    SlowPost = FALSE
INVARIANTS
    TypeOK MarkCoversNothingNew SlotsWellUsed
PROPERTIES
    OncePerProcess MailIsDelivered OldestFirst
\* The adapter is quiet once all mail is handled.
CHECK_DEADLOCK FALSE
