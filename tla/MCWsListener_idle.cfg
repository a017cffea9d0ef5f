\* Two callers; a call that waits gives up before an idle source lets go.
SPECIFICATION Spec
CONSTANTS
    Callers = {c1, c2}
    Tasks = {t1, t2}
    NoTask = NoTask
    FIRST_FRAME_TIMEOUT = 2
    IDLE_TIMEOUT = 3
INVARIANTS
    OneListener
PROPERTIES
    KeepsPromise
    CallsAnswered
    IdleTearsDown
