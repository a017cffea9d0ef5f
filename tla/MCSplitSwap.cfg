\* Every plan over three venues, whatever they quote, and every way two propAMM
\* legs and the fallback may run.
SPECIFICATION Spec
CONSTANTS
    A = A
    B = B
    C = C
    WETH = WETH
    ETH = ETH
    u1 = u1
    u2 = u2
    m1 = m1
    m2 = m2
    m3 = m3
    f1 = f1
    f2 = f2
    Router = Router
    None = None
    ERC20s = {A, B, C}
    Users = {u1, u2}
    Makers = {m1, m2, m3}
    Fallbacks = {f1}
    TransferTax <- Taxed
    Openings <- Stocks
    MaxCalls = 1
    MAX_UINT = 15
    MAX_FEE_BPS = 2
    BPS_DENOMINATOR = 4
    SATURATION_TOLERANCE_BPS = 1
    BPS = 4
    MAX_SATURATION_STEPS = 1
    MAX_UINT128 = 4
    MAX_LEGS = 2
    MAX_SPLIT_VENUES = 3
    REF_DIVISOR = 2
    Calls <- AllCalls
    VenueLists <- Lists
    Market <- Outside
INVARIANTS
    PlanCoversInput
    PlanHonoursQuotes
    CustodyKept
PROPERTIES
    Promised
