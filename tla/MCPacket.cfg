SPECIFICATION FairSpec
CONSTANTS
    c1 = c1
    c2 = c2
    Clients = {c1, c2}
    Confs <- MCConfs
    MaxNow = 4
    MaxDup = 1
INVARIANTS PacketInv ScheduleKept EchoedOnce
PROPERTIES ClientsEnd
