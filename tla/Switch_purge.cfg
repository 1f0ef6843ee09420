SPECIFICATION Spec
CONSTANTS
    s1 = s1 s2 = s2 s3 = s3 va = va vb = vb n1 = n1 n2 = n2 n3 = n3 m1 = m1 m2 = m2
    Session = {s1, s2}
    Network = {va}
    Node = {n2}
    Mac = {m1}
    Broadcast = Broadcast
    NodeNet <- MCNodeNet
    V1Node = {}
    EmptyUuid = EmptyUuid
    MaxNode = 2
    Word = 8
    Null = Null
PROPERTY DelNodePurges
CHECK_DEADLOCK FALSE
