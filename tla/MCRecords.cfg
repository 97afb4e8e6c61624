\* Users, units, fields, files, archives and threads, one part at a time.
SPECIFICATION MCSpec
CONSTANTS
    ann = ann
    bob = bob
    p1 = p1
    u1 = u1
    u2 = u2
    l1 = l1
    l2 = l2
    s1 = s1
    s2 = s2
    d1 = d1
    d2 = d2
    d3 = d3
    e1 = e1
    none = none
    Parts = {"sessions", "operators", "hierarchy", "status", "definitions", "values", "edits", "files", "archives", "threads"}
    Emails = {ann}
    Passwords = {"old", "new"}
    Slugs = {}
    SetupMode = "single"
    TeamRoles = {"owner"}
    MaxOperators = 1
    MaxUsers = 2
    MaxWaiting = 3
    MaxVersion = 3
    Portfolios = {portfolio}
    Properties = {p1, p2}
    Buildings = {b1, b2}
    Units = {u1, u2}
    Leases = {}
    None = None
    UnitStates = {}
    MaxQueue = 1
    MaxUploads = 2
    Sizes = {1, 2}
    Quotas = {2, 3}
    MaxBackups = 1
    Threads = {t1, t2}
    Staff = {manager}
    Contacts = {tenant, vendor}
    NoOne = NoOne
    MaxMessages = 3
INVARIANTS
    SessionsKnowPassword
    BuildingsAgree
    SettledStatus
    RecordsHaveFiles
    ThreadsAgree
PROPERTIES
    WritesAddUp
    RestoredWhole
CHECK_DEADLOCK FALSE
