\* Two HTTP connections and one gRPC connection.
CONSTANTS
    h1 = h1  h2 = h2  g1 = g1  g2 = g2
    p1 = p1  p2 = p2  red = red  green = green
    Nil = Nil  None = None  Garbage = Garbage
    Slots = {h1, h2, g1}
    Grpc = {g1}
    Behaviors <- Mixed
    Payloads = {p1, p2}
    Values = {red, green}
    Start = red
    MaxRequests = 4
    MaxFaults = 1
SPECIFICATION Spec
INVARIANTS TypeOK AnsweredByAMatch OwnAnswer EvaluatorAgrees
CHECK_DEADLOCK FALSE
