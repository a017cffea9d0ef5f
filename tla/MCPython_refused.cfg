\* The same instance, against what bindings.py says of errors.
SPECIFICATION Spec
CONSTANTS
    bebop = bebop
    m1 = m1
    m2 = m2
    bebopCell = bebopCell
    c1 = c1
    c2 = c2
    v1 = v1
    v2 = v2
    w = w
    u = u
    x = x
    q1 = q1
    q2 = q2
    q3 = q3
    venue = venue
    Makers = {bebop, m1, m2}
    Addresses = {bebop, m1, m2}
    Names <- OwnNames
    Cells = {bebopCell, c1, c2}
    Writes <- SharedCells
    Bebop = bebop
    BebopCell = bebopCell
    Payloads <- Frames
    MaxBlock = 2
    Callers = {caller}
    Venues = {v1, v2}
    Orders <- Asked
    MaxAmount = 1
    Senders = {s1, s2}
    Wishes <- Wanting
    MaxSends = 3
    MAX_FEE_BPS = 2
    Tokens = {w, u, x}
    QuoteAddresses = {q1, q2, q3}
    QUOTE_ADDRESS_VENUES <- Metric
    TOKEN_DECIMALS <- BuiltIn
    Extras <- Added
    Books <- Published
    MaxBooks = 2
    RADIX = 2
    FRACTION = 1
    MAX_DECIMALS = 2
    MAX_UINT256 = 20
    Malformed = Malformed
    t1 = t1
    t2 = t2
    tx1 = tx1
    tx2 = tx2
    tx3 = tx3
    WHITELIST_VENUES <- Whitelist
    ByAddress <- Sorted
    Trades <- Ladder
    MaxVenues = 2
    RigBlocks = {1, 2}
    WS_ATTEMPTS = 2
    ATTEMPTS = 2
    MaxSnapshots = 2
    None = None
    LATEST = 4
    Clocks <- Minutes
    Txs <- Hashes
    Legs <- Logged
    Wrapped = {tx3}
    PROPAMMS = {v1, v2}
    Days = {0, 2, 9}
    WINDOW = 2
    MAX_TXS = 2
    MaxGas = 3
    MaxDepth = 3
    INTRINSIC_GAS = 1
    Venue0 = Venue0
    Elsewhere = Elsewhere
INVARIANTS
    OnlyRevertsAreDropped
CHECK_DEADLOCK FALSE
