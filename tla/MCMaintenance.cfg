\* The event bus, work orders, schedules and recurring bills, one part at a time.
SPECIFICATION MCSpec
CONSTANTS
    bank = bank
    trust = trust
    deposits_held = deposits_held
    receivable = receivable
    payable = payable
    rent_income = rent_income
    repairs = repairs
    house = house
    cabin = cabin
    plumber = plumber
    painter = painter
    NoRef = NoRef
    NoAccount = NoAccount
    NoVendor = NoVendor
    NoCapital = NoCapital
    NoWorkOrder = NoWorkOrder
    Parts = {"bus", "expenses", "policy", "assignments", "schedules", "templates"}
    Accounts = {bank, trust, deposits_held, receivable, payable, rent_income, repairs}
    ForeignAccounts = {}
    TrustBank = {trust}
    DepositLiability = {deposits_held}
    Operating = {bank, rent_income, repairs}
    Income = {rent_income}
    Expense = {repairs}
    ManualLines = {}
    ManualSources = {}
    Mapped <- MCMapped
    Refs = {house}
    Leases = {house}
    Inputs = {}
    Properties = {house}
    Portfolio = {house}
    Threshold = 0
    Capital = NoCapital
    Vendors = {}
    Specialty <- MCSpecialty
    Contains <- MCContains
    Categories = {"make_ready"}
    Statuses = {"open"}
    Costs = {0, 1, 2}
    Events <- MCEvents
    MaxEntries = 3
    MaxTransactions = 3
    MaxOrders = 1
    MaxSchedules = 2
    ScheduleInputs <- MCScheduleInputs
    Today <- MCToday
    MaxPublished = 3
    MaxDeadLetters = 2
INVARIANTS
    BusAgrees
    ExpensesMatchCompletions
    PrimaryIsAssigned
PROPERTIES
    DatesGenerateOnce
    DeliversInOrder
    OrdersKeepPolicy
    MaintenanceProceeds
CHECK_DEADLOCK FALSE
