CONSTANTS
    k1 = k1  k2 = k2  t1 = t1  t2 = t2  t3 = t3  d1 = d1  d2 = d2
    None = None
    Kits = {k1, k2}
    Tasks = {t1, t2, t3}
    KitOf <- MCTwoKits
    Databases = {d1, d2}
    DbOf <- MCTwoDbs
    HasEngine = TRUE
    MaxClock = 2
SPECIFICATION KitSpec
INVARIANTS KitTypeOK VersionOfHeldSchema OwnDatabaseOnly RowsAndStampAgree HeldVersionWasSaved
PROPERTIES EveryCallReturns
