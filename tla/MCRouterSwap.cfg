\* Every named-venue call once against every behaviour of one maker, and two calls in
\* a row that leave the choice to the router, with administration between them.
SPECIFICATION AgendaSpec
CONSTANTS
    A = A
    B = B
    WETH = WETH
    ETH = ETH
    u1 = u1
    u2 = u2
    m1 = m1
    m2 = m2
    f1 = f1
    f2 = f2
    Router = Router
    None = None
    ERC20s = {A, B}
    Users = {u1, u2}
    Makers = {m1, m2}
    Fallbacks = {f1, f2}
    TransferTax <- TaxedB
    Openings <- Stocks
    Calls <- EveryCall
    MaxQuote = 2
    MaxCalls = 2
    MaxPay = 2
    MaxRescue = 1
    Payees = {u1, Router}
    MAX_UINT = 15
    MAX_FEE_BPS = 2
    BPS_DENOMINATOR = 4
INVARIANTS
    MinimumDelivered
    OnlyInputIsSpent
    RouterKeepsItsOwn
    FallbackStartsClean
    NoStandingApproval
PROPERTIES
    Promised
