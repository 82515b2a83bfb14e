\* Two messages and a rewrite published inside an agent.response, with two failures; every
\* call returns.
SPECIFICATION Spec
CONSTANTS
    c1 = c1  m1 = m1  m2 = m2  m3 = m3  w1 = w1  r1 = r1
    None = None
    Convs = {c1}
    Inbounds = {m1, m2}
    Wakes = {}
    Rewrites = {r1}
    Conv <- OneConv
    Contact <- OneContact
    Resolved = {m1, m2, r1}
    Clean = {m1, m2}
    MaxInjections = 1
    MaxFaults = 2
    Hung = {}
INVARIANTS
    NoWaitOnParent NoBlindTurns OneTurnPerConversation
PROPERTIES
    TurnsAreSerial EveryInboundHandled
\* The system is quiet once every message has been handled.
CHECK_DEADLOCK FALSE
