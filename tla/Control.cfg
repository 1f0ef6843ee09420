CONSTANTS
    va = va
    vb = vb
    n1 = n1
    n2 = n2
    Network = {va}
    Node = {n1, n2}
    NodeNet <- MCNodeNet
    MaxConn = 2
    MaxPipe = 1
    MaxFault = 1
SPECIFICATION FairSpec
INVARIANTS NoOrphanNode SinfoLive NoSwitchNoStatus SwitchComplete SwitchExact
PROPERTY EventuallyStarted
CHECK_DEADLOCK FALSE
