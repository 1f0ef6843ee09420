CONSTANTS
    n1 = n1
    n2 = n2
    n3 = n3
    n4 = n4
    Node = {n1, n2, n3, n4}
    NoRow = NoRow
    Hosts = 1
    MaxFault = 2
SPECIFICATION Spec
INVARIANTS SerialUnique PoolExact
PROPERTY ImplementsPool
CHECK_DEADLOCK FALSE
