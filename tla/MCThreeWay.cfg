\* A deposit is collected and damages are deducted.
SPECIFICATION MCSpec
CONSTANTS
    p1 = p1
    p2 = p2
    u1 = u1
    l1 = l1
    l2 = l2
    a1 = a1
    a2 = a2
    a3 = a3
    r1 = r1
    r2 = r2
    bank = bank
    trust = trust
    deposits_held = deposits_held
    receivable = receivable
    rent_income = rent_income
    fee_income = fee_income
    pet_income = pet_income
    repairs = repairs
    tenant = tenant
    other_tenant = other_tenant
    north = north
    south = south
    NoRef = NoRef
    NoAccount = NoAccount
    None = None
    Parts = {"trust"}
    Accounts = {bank, trust, deposits_held, receivable, rent_income, fee_income, pet_income, repairs}
    ForeignAccounts = {}
    TrustBank = {trust}
    DepositLiability = {deposits_held}
    Operating = {bank, rent_income, fee_income, pet_income, repairs}
    Income = {rent_income, fee_income, pet_income}
    Expense = {repairs}
    ManualLines = {}
    ManualSources = {"manual_journal"}
    Mapped <- MCMapped
    Refs = {l1, l2, tenant, other_tenant, u1}
    PropertyIds = {p1}
    UnitIds = {u1}
    PropertyOf <- MCPropertyOf
    AmenityIds = {a1, a2, a3}
    Shared = {a1, a2}
    Records = {r1, r2}
    Leases = {l1, l2}
    Tenant <- MCTenant
    Terms <- MCTerms
    Inputs = {}
    RecurringInputs = {}
    PolicyInputs = {}
    CreditAmounts = {}
    CreditAccounts = {}
    OwnPolicy <- MCOwnPolicy
    UnitOf <- MCUnitOf
    AssessmentDays = {}
    Months = {1, 2}
    DaysInMonth = 4
    MaxEntries = 4
    MaxTransactions = 3
    MaxRecorded = 5
    TrustTerms <- OneTerm
    TrustInputs <- Inflow
    RefundAmounts = {}
    DeductionLists <- OneDeduction
INVARIANTS
    TrustCashIsOwed
CHECK_DEADLOCK FALSE
