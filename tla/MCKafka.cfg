\* Two mocked topics, one forwarding to the other.
CONSTANTS
    in = in  out = out
    None = None
    Topics = {in, out}
    Forward <- Pipe
    Open = {in}
    MaxLog = 2
    MaxFaults = 2
SPECIFICATION FairSpec
INVARIANTS TypeOK HandledInOrder
PROPERTY EveryMessageHandled
CHECK_DEADLOCK FALSE
