\* Requests, bodies, images, emails and webhooks, one part at a time.
SPECIFICATION MCSpec
CONSTANTS
    m1 = m1
    m2 = m2
    o1 = o1
    o2 = o2
    order = order
    message = message
    other = other
    Parts = {"limits", "amenities", "leases", "bodies", "images", "bytes", "mails", "webhooks"}
    Ips = {ip}
    Paths = {login}
    OperatorIds = {manager}
    AuthMax = 2
    OperatorMax = 3
    PublicMax = 1
    AuthWindow = 3
    OperatorWindow = 2
    PublicWindow = 1
    MaxHistory = 2
    Batches <- MCBatches
    UniqueNames = TRUE
    MaxItems = 3
    MaxTries = 3
    Operators = {o1, o2}
    Events = {order, message, other}
    OperatorOf <- MCOperatorOf
    Feeds = {order, other}
    Urls = {https, loopback, http}
    Trusted = {https, loopback}
    NoOperator = NoOperator
    NoUrl = NoUrl
INVARIANTS
    TrafficAgrees
    RowsTellTheTruth
PROPERTIES
    LimitsWindows
    BatchesAreWhole
    TrafficProceeds
CHECK_DEADLOCK FALSE
