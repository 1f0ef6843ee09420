CONSTANTS
    t1 = t1
    t2 = t2
    Thread = {t1, t2}
    MaxConn = 3
SPECIFICATION FairSpec
INVARIANTS OneConnection NetcLive NeverStranded AuthedBySwitch
PROPERTY EventuallyAuthed
CHECK_DEADLOCK FALSE
