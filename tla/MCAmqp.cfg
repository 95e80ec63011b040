\* A worker whose mock publishes to the route of another.
CONSTANTS
    first = first  second = second
    inRoute = inRoute  outRoute = outRoute
    inQueue = inQueue  ownQueue = ownQueue  keyQueue = keyQueue
    None = None
    Workers = {first, second}
    Routes = {inRoute, outRoute}
    Queues = {inQueue, ownQueue, keyQueue}
    Route <- PipeRoute
    Queue <- PipeQueue
    KeyQueue <- PipeKeyQueue
    Publishes <- PipePublishes
    MaxMessages = 3
    MaxFaults = 3
SPECIFICATION FairSpec
INVARIANTS TypeOK ActedInOrder ConnectionsAreClosed PublishedIsRouted
PROPERTY QueuesAreDrained
CHECK_DEADLOCK FALSE
