CONSTANTS
    Wrap = 4
    NumWorkers = 1
    Indices = {1, 4}
    MaxBinds = 2
    IoThreads = {p1}
    NoRoute = NoRoute
SPECIFICATION Spec
INVARIANTS
    BindingsExact
    RouteExact
    HandlerFound
