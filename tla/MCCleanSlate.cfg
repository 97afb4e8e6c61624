\* One export of a property with a unit.
SPECIFICATION MCSpec
CONSTANTS
    Values = {w1, w2, w3, w4}
    MaxDepth = 3
    CallersCatch = TRUE
    Companies = {op1}
    System = op1
    Retention = 1
    MaxRecords = 3
    MaxDays = 3
    email = email
    other = other
    east = east
    west = west
    Mailboxes = {email, other}
    PortfolioIds = {east, west}
    MaxIds = 4
    MaxPlaces = 2
    MaxExports = 1
    Modules = 3
    Manifests <- AllReleases
    MaxUpgrades = 2
    Parts = {"slate"}
INVARIANTS
    CleanSlateSucceeds
CHECK_DEADLOCK FALSE
