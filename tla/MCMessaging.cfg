SPECIFICATION MSpec
CONSTANTS
    Senders = {s1, s2}
    TrySenders = {y1}
    Takers = {t1, t2}
    Drainers = {d1}
    Cap = 2
    BatchMax = 2
    MaxSends = 2
    Contexts = {x1}
    Posters = {p1, p2}
    ChanNames = {c1, c2}
    MaxMsgs = 1
INVARIANTS
    WaitersAreWoken
PROPERTIES
    ChannelKeepsMoving
    EveryMessageHandled
CHECK_DEADLOCK FALSE
