SPECIFICATION Spec
CONSTANTS
    text = text
    other = other
    path = path
    elsewhere = elsewhere
    topic = topic
    Bad = Bad
    Null = Null
    Paths <- SomePaths
    Topics <- SomeTopics
    Texts <- SomeTexts
    Contexts <- SomeContexts
    Mocks <- SomeMocks
INVARIANTS
    TypeOK
    RoutedPasses
    ListedInOrder
CHECK_DEADLOCK FALSE
