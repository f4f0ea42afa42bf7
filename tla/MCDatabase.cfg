SPECIFICATION PartsSpec
CONSTANTS
    Clients = {a, b, c}
    Conns = {x1, x2, x3}
    NoConn = NoConn
    MinSize = 1
    MaxSize = 2
    SizeMod = 16
    PgConns = {1, 2}
    Ops = {1, 2, 3}
    Patterns <- MCPatterns
    Subjects <- MCSubjects
    RedisTexts <- MCRedisTexts
    RedisInts <- MCRedisInts
    LuaValues <- MCLuaValues
    NativeArgs <- MCNativeArgs
    LuaArgs <- MCLuaArgs
    Payloads <- MCPayloads
    BlockBaseSize = 3
    Overhead = 1
    MaxFactor = 1
    BaseFactor = 0
    BLOCKSIZE = 2
    kDefaultBufferSize = 2
    HeaderSize = 3
    MetaSize = 3
INVARIANTS
    PoolExact
    ResultsExact
    SubjectMatchExact RepliesExact SqlComesBack ArgsComeBack MessageComesBack
PROPERTIES
    WaiterServed
    PostedEnds
CHECK_DEADLOCK FALSE
