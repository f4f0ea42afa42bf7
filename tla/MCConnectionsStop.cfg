SPECIFICATION Spec
CONSTANTS
    Sessions = {s1, s2}
    Types = {t1}
    Kinds = {"client", "TCP", "SSL", "KCP"}
    MaxConnectionCount = 1
    None = None
PROPERTY StopReturnsUnlessRestart
CHECK_DEADLOCK FALSE
