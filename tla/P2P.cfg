CONSTANTS
    ma = ma
    mb = mb
    p1 = p1
    p2 = p2
    p3 = p3
    None = None
    Mac = {ma, mb}
    Attempt = {p1, p2, p3}
    Ports = 2
SPECIFICATION Spec
INVARIANTS TableLive NothingLeaks
PROPERTY AddressKept
SYMMETRY Symmetry
CHECK_DEADLOCK FALSE
