CONSTANTS
    p1 = p1  p2 = p2
    Ports = {p1, p2}
    NoPort = NoPort
    Chunk = 4
    FrameLen = 3
    MinLen = 2
    PortOrder <- MCPortOrder
    Script <- MCScript
    Useful = {1, 2, 4}
    Raised = {1}
    MaxPulls = 1
    MaxWorkers = 2
    Planned = 2
    RawLen = 2
    Pairs = 2
    MaxRetries = 1
    FirstRows = 1
    a = a  b = b
    Peers = {a, b}
    MaxConns = 2
    MaxSamples = 1
    EventCap = 4
SPECIFICATION LinesSpec
INVARIANTS EveryFrameOnce DemoAlarmTrue StopWorks WholeFrames CountTrue ServedWhileOpen StateSettles
CHECK_DEADLOCK FALSE
