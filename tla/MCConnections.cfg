SPECIFICATION Spec
CONSTANTS
    Sessions = {s1, s2}
    Types = {t1, t2}
    Kinds = {"client", "TCP", "SSL", "KCP"}
    MaxConnectionCount = 1
    None = None
SYMMETRY Symmetry
INVARIANTS ConnectionsBounded SessionsExact
CHECK_DEADLOCK FALSE
