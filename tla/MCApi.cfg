\* A batch of at most two mocks at a time, in the base set or in another.
CONSTANTS
    base = base  extra = extra
    parent = parent  child = child  plain = plain  solo = solo  page = page  root = root
    Keys = {parent, child, plain, solo, page, root}
    Null = Null  Absent = Absent  Garbage = Garbage  Listed = Listed
    Sets = {base, extra}
    Base = base
    Disk <- SomeDisk
    Files = TRUE
    Requests <- SomeRequests
    Locals <- SomeLocals
    MaxArrivals = 3
    MaxFailures = 1
SPECIFICATION ApiSpec
INVARIANTS ApiTypeOK RefusedChangesNothing PostingBackKeeps
CHECK_DEADLOCK FALSE
