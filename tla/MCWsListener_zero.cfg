\* idle_timeout=0, as in the documentation's example.
SPECIFICATION Spec
CONSTANTS
    Callers = {c1, c2}
    Tasks = {t1, t2}
    NoTask = NoTask
    FIRST_FRAME_TIMEOUT = 2
    IDLE_TIMEOUT = 0
PROPERTIES
    ClosesAfterCalls
