\* A call whose future is dropped while it waits.
SPECIFICATION Spec
\* A closed source that nobody calls stops.
CHECK_DEADLOCK FALSE
CONSTANTS
    NoTask = NoTask
    Callers = {c1}
    Tasks = {t1, t2}
    Closers = {k1}
    MaxDrops = 1
PROPERTIES
    TearsDownWithoutCalls
