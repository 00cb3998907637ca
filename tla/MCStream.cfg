SPECIFICATION FairSpec
CONSTANTS
    c1 = c1
    c2 = c2
    Clients = {c1, c2}
    Transfers <- MCTransfers
    BufLen = 2
    SockBuf = 2
    MaxLen = 3
INVARIANTS StreamInv TransferComplete ServesWhileAccepting
PROPERTIES StreamEnds
