\* The books of an operator, one part at a time.
SPECIFICATION MCSpec
CONSTANTS
    operating_cash = operating_cash
    trust_cash = trust_cash
    deposits_held = deposits_held
    payable = payable
    expense = expense
    undeposited = undeposited
    rent = rent
    receivable = receivable
    foreign = foreign
    prop = prop
    other_prop = other_prop
    lease = lease
    vendor = vendor
    other_vendor = other_vendor
    work = work
    NoRef = NoRef
    NoWorkOrder = NoWorkOrder
    NoAccount = NoAccount
    Parts = {"journal", "payables", "voids", "bank", "chart", "transactions", "rows", "legacy", "templates"}
    Accounts <- MCAccounts
    ForeignAccounts <- MCForeign
    TrustBank <- MCTrustBank
    DepositLiability <- MCDepositLiability
    Operating <- MCOperating
    Refs <- MCRefs
    ManualSources <- MCManualSources
    ManualLines <- MCManualLines
    Vendors <- MCVendors
    PayableAccount = payable
    BankAccounts <- MCBanks
    WorkOrders <- MCWorkOrders
    BillInputs <- MCBillInputs
    Edits <- MCEdits
    CreditInputs <- MCCreditInputs
    CompletionCosts = {5}
    MaxBills = 2
    MaxChecks = 2
    MaxCredits = 1
    MaxAmount = 2
    TemplateInputs <- MCTemplateInputs
    RunDates <- MCRunDates
    MaxTemplates = 2
    BankReceipts <- MCReceipts
    LegacyTables <- OldRows
    InitialCharts <- SetUp
    MaxEntries = 4
INVARIANTS
    TypeOK
    EntriesBalanced
    ReversalsCancel
    AlwaysReversible
    PayablesAgree
    SubledgersAgree
PROPERTIES
    IsAppendOnlyLedger
    DocumentsFrozen
    TemplatesKeepTerm
CHECK_DEADLOCK FALSE
