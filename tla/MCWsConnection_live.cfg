\* Two overlapping calls, close(), a dropped future.
SPECIFICATION Spec
\* A closed source that nobody calls stops.
CHECK_DEADLOCK FALSE
CONSTANTS
    NoTask = NoTask
    Callers = {c1, c2}
    Tasks = {t1, t2}
    Closers = {k1}
    MaxDrops = 1
INVARIANTS
    AtMostOneLoop
    NoLostWakeup
    FramesAreCurrent
PROPERTIES
    IdleTearsDown
