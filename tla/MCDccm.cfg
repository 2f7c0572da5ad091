SPECIFICATION LiveSpec
CONSTANTS
    Conns = {c1, c2, stranger}
    Peer = {c1, c2}
    HasPassword = {c1}
    EchoEarly = FALSE
    MaxMissedPings = 2
    MaxPacket = 512
    MinPacket = 36
    Info = 64
    Runt = 8
    Challenge = 1515870810
    MaxKills = 1
    None = None
INVARIANTS FileIsCurrent AnnouncedIfAccepted
PROPERTIES DroppedForSilence GoneIsNoticed
CHECK_DEADLOCK FALSE
