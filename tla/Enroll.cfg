CONSTANTS
    s1 = s1 s2 = s2 s3 = s3 n1 = n1 n2 = n2
    Session = {s1, s2, s3}
    Node = {n1, n2}
    NodeOf <- MCNodeOf
    Known = {n1}
    None = None
    MaxOther = 2
SPECIFICATION FairSpec
INVARIANTS OneAnswer OwnPassport
PROPERTY EventuallyAnswered
CHECK_DEADLOCK FALSE
