\* Three callers, with up to two sockets that linger beside the one in use.
SPECIFICATION Spec
CONSTANTS
    Callers = {c1, c2, c3}
    Sockets = {s1, s2, s3}
    NoSocket = NoSocket
INVARIANTS
    SocketsOwned
    Tended
PROPERTIES
    KeepsPromise
    IdleTearsDown
