\* Two mentions and a reply, one turn of the reader at a time and one fault.
SPECIFICATION Spec
CONSTANTS
    m1 = m1  m2 = m2  r1 = r1  u1 = u1  None = None
    Messages = {m1, m2, r1}
    First = m1
    Mine = {r1}
    Mention = {m1, m2}
    Closing = {}
    Cap = 3
    Turns = {u1}
    MaxFaults = 1
INVARIANTS
    TypeOK SeenWasShown SecondLook
PROPERTIES
    MentionIsShownAgain
CHECK_DEADLOCK FALSE
