\* Two connections that call the same gRPC method.
CONSTANTS
    h1 = h1  h2 = h2  g1 = g1  g2 = g2
    p1 = p1  p2 = p2  red = red  green = green
    Nil = Nil  None = None  Garbage = Garbage
    Slots = {g1, g2}
    Grpc = {g1, g2}
    Behaviors <- Mixed
    Payloads = {p1, p2}
    Values = {red, green}
    Start = red
    MaxRequests = 2
    MaxFaults = 1
SPECIFICATION Spec
INVARIANT OwnAnswer
CHECK_DEADLOCK FALSE
