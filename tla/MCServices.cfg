SPECIFICATION ServicesSpec
CONSTANTS
    None = None
    one = one
    two = two
    \* LocalAgent
    Folders = {f1}
    Contents = {c1}
    Stamps = {one, two}
    Months = 2
    MaxDrops = 2
    MaxCrashes = 1
    \* Backups
    Objects = {o1}
    Bytes = {one, two}
    MaxPuts = 3
    MaxBackups = 2
    \* Accounting
    x = x
    y = y
    Instruments = {x, y}
    Entries <- MCEntries
    Prices = {3, 4}
    MaxEntries = 4
    MaxDays = 2
    \* Balances
    Requests = {r1, r2, r3}
    Accounts = {a1}
    MaxDay = 2
    Amounts <- MCAmounts
    \* RiskLimits
    Limits = {l1}
    Callers = {one, two}
    Readings = {1, 2}
    Bounds <- MCBounds
    MaxCalls = 4
    MaxMarks = 2
    \* BrokerFeed
    Readers = {one, two}
    Codes = {k1}
    Executions = {e1}
    Validity = 1
    Window = 1
    Fresh = 1
    MaxClock = 2
    MaxSnapshots = 2
    MaxApprovals = 2
    \* Providers
    Sessions = {one, two}
    Administrators = {one, two}
    Jobs = {j1}
    Responses = {p1}
    MaxBegun = 2
    \* ValuationCache
    Viewers = {one, two}
    Rules = {q1, q2}
    MaxTime = 2
    MaxMinutes = 1
    MaxViews = 2
    \* PriceSources
    demo = demo  bank = bank  vendor = vendor  broker = broker
    Sources = {demo, bank, vendor, broker}
    Orders <- MCOrders
    PriceFeeds <- MCPriceFeeds
    RateFeeds <- MCRateFeeds
    Seeds <- MCSeeds
    MaxRows = 2
    MaxDate = 1
    \* Workspaces
    MaxSpaces = 2
    MaxEdits = 1
    MaxSaves = 1
INVARIANTS
    ServicesTypeOK
    FilesKept
    ArchivedIsSettled
    BackupsAreTrue
    BooksAgree
    NeverOverdrawn
    AlertsFollowBreaches
    FeedIsSound
    ProvidersAreSound
    ServedIsCurrent
    PricesAreSound
    LayoutsStayHome
PROPERTIES
    JournalHolds
    MissingNeverClears
SYMMETRY MCSymmetry
CONSTRAINT MCOneDay
CHECK_DEADLOCK FALSE
