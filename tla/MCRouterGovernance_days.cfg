\* Administration, the handoff, resets of the admin delay and amendments of the
\* policy over seventeen days, and every setting before the policy is wired.
SPECIFICATION AgendaSpec
CONSTANTS
    Agendas <- DailyAgendas
    A = A
    WETH = WETH
    ETH = ETH
    u1 = u1
    m1 = m1
    m2 = m2
    f1 = f1
    f2 = f2
    q1 = q1
    q2 = q2
    v1 = v1
    v2 = v2
    boot = boot
    gov = gov
    upg = upg
    guard = guard
    Router = Router
    None = None
    ERC20s = {A}
    Users = {u1}
    Makers = {m1, m2}
    Fallbacks = {f1, f2}
    TransferTax <- NoTax
    Officers = {boot, gov, upg, guard}
    Bootstrap = boot
    Governance = gov
    Upgrader = upg
    Guardian = guard
    Resumer = upg
    Lister = upg
    UPGRADE_DELAY = 7
    RESUME_DELAY = 1
    LISTING_DELAY = 1
    ADMIN_DELAY = 7
    ADMIN_EXEC_DELAY = 7
    EXPIRATION = 7
    MIN_SETBACK = 5
    FEE_LIMIT = 3
    DefaultFee = 2
    SeededFees <- Seeded
    Deployment = v1
    Upgrades = {v2}
    Quoters = {q1, q2}
    Opening <- Stock
    Requests <- EveryRequest
    Renounceable <- Leaving
    Slack = {0}
    Advances = {1, 3, 5, 6, 7}
    MaxTime = 17
CHECK_DEADLOCK FALSE
INVARIANTS
    FallbackAlwaysPriced
PROPERTIES
    NoticeGiven
    RegatingAnnounced
    PowerAnnounced
