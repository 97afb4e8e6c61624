------------------------------ MODULE MCLeasing ------------------------------
(***************************************************************************)
(* What is billed and paid out for leases, on small instances.  The first  *)
(* parts keep to the books of one operator, so that what LeaseCharges and  *)
(* LeaseTrust promise is checked of all of them.  A behaviour keeps to one *)
(* part:                                                                   *)
(*                                                                         *)
(*   billing     monthly runs over two leases, cut off by crashes          *)
(*   recurring   monthly and quarterly charges attached to one lease       *)
(*   fees        late fees, concessions and payments of one lease          *)
(*   trust       the deposit of one lease                                  *)
(*   amenities   tags of a property and its unit, and marketing records    *)
(*   draws       cash and draws of two owners, lines naming properties     *)
(*   portfolio   draws where lines may name the portfolio alone            *)
(*   checks      vendor checks, whose lines name no property               *)
(*   management  management fees, and a property that changes owner        *)
(***************************************************************************)
EXTENDS LeaseCharges, LeaseTrust, Amenities, TLC

CONSTANTS
    Parts,              \* the parts that the run looks at
    TrustTerms,         \* the contracts and the requests of the part trust
    TrustInputs,
    p1, p2, u1, l1, l2, a1, a2, a3, r1, r2,
    bank, trust, deposits_held, receivable, rent_income, fee_income, pet_income, repairs,
    tenant, other_tenant, north, south, None

VARIABLES
    part,
    today, portfolioOf, cashEntries, contributions, distributions, agreements

(***************************************************************************)
(* Charges and deposits.  LeaseCharges on its own is about monthly runs.   *)
(***************************************************************************)
MCMapped ==
    [accounts_receivable |-> receivable, operating_bank |-> bank, trust_bank |-> trust,
     security_deposit |-> deposits_held, rent |-> rent_income, late_fee |-> fee_income,
     repairs |-> repairs]

Contract(status, first, days, rent, held) ==
    [status |-> status, first |-> first, last |-> 9, days |-> days, rent |-> rent, held |-> held]
Input(type, category, amount) ==
    [type |-> type, category |-> category, amount |-> amount, lease |-> l1]
MCTenant == (l1 :> tenant) @@ (l2 :> other_tenant)
MCUnitOf == (l1 :> u1) @@ (l2 :> u1)
MCTerms == {Contract("active", 1, 2, 2, 0), Contract("draft", 1, 2, 2, 0)}

Policy(scope, due, grace, kind, flat, bps, cap) ==
    [scope |-> scope, due |-> due, grace |-> grace, kind |-> kind, flat |-> flat,
     bps |-> bps, threshold |-> 2, cap |-> cap]
MCOwnPolicy == Policy("lease", 1, 1, "flat_fee", 2, 0, 0)

Recurring == INSTANCE LeaseCharges WITH
    Leases <- {l1}, Refs <- {l1, tenant, u1},
    RecurringInputs <-
        {[category |-> "pet_fee", gl |-> pet_income, amount |-> 1, frequency |-> "monthly"],
         [category |-> "other_income", gl |-> NoAccount, amount |-> 1,
          frequency |-> "quarterly"]}

Fees == INSTANCE LeaseCharges WITH
    Leases <- {l1}, Refs <- {l1, tenant, u1},
    Inputs <- {Input("payment", "rent", 2), Input("refund", "rent", 1)},
    PolicyInputs <- {Policy("property", 1, 2, "daily_accrual", 1, 5000, 3),
                     Policy("default", 1, 1, "percentage_of_delinquency", 0, 5000, 0)},
    CreditAmounts <- {1}, CreditAccounts <- {NoAccount, repairs},
    AssessmentDays <- {3, 4},
    Terms <- {Contract("expiring", 1, 2, 3, 0)}, Months <- {2}

\* A deposit of three cents, which an edit of the contract may set to one.
SomeTerms == {Contract("active", 1, 2, 2, 3), Contract("active", 1, 2, 2, 1)}
SomeInputs == {Input("charge", "rent", 1), Input("payment", "rent", 2),
               Input("deposit_inflow", "security_deposit", 3)}
SomeDeductions == {<<>>, <<1>>, <<-1, 2>>}
\* A deposit of two cents is collected and damages are deducted.
OneTerm == {Contract("active", 1, 2, 2, 2)}
Inflow == {Input("charge", "rent", 1), Input("deposit_inflow", "security_deposit", 2)}
OneDeduction == {<<>>, <<1>>}

Trust == INSTANCE LeaseTrust WITH
    Leases <- {l1}, Refs <- {l1, tenant}, Terms <- TrustTerms, Inputs <- TrustInputs

(***************************************************************************)
(* Amenities, and the accounting of owners.                                *)
(***************************************************************************)
MCPropertyOf == u1 :> p1

Draws == INSTANCE ClientAccounting WITH
    entries <- cashEntries, Portfolios <- {north, south},
    Properties <- {p1, p2}, InitialPortfolio <- (p1 :> north) @@ (p2 :> south),
    UnitsOf <- (p1 :> 1) @@ (p2 :> 2), Amounts <- {1},
    Uses <- {"pay", "reverse", "contribute", "draw"}, Rate <- 1, FlatFee <- 2,
    MaxEntries <- 4, MaxDay <- 2, MaxAgreements <- 2, DaysPerMonth <- 2

Portfolio == INSTANCE ClientAccounting WITH
    entries <- cashEntries, Portfolios <- {north, south},
    Properties <- {p1}, InitialPortfolio <- p1 :> north,
    UnitsOf <- p1 :> 1, Amounts <- {1},
    Uses <- {"whole", "pay", "contribute", "draw"}, Rate <- 1, FlatFee <- 2,
    MaxEntries <- 4, MaxDay <- 2, MaxAgreements <- 2, DaysPerMonth <- 2

Checks == INSTANCE ClientAccounting WITH
    entries <- cashEntries, Portfolios <- {north, south},
    Properties <- {p1}, InitialPortfolio <- p1 :> north,
    UnitsOf <- p1 :> 1, Amounts <- {1},
    Uses <- {"pay", "check", "move", "reverse"}, Rate <- 1, FlatFee <- 2,
    MaxEntries <- 3, MaxDay <- 2, MaxAgreements <- 0, DaysPerMonth <- 2

Management == INSTANCE ClientAccounting WITH
    entries <- cashEntries, Portfolios <- {north, south},
    Properties <- {p1}, InitialPortfolio <- p1 :> north,
    UnitsOf <- p1 :> 1, Amounts <- {5},
    Uses <- {"fees", "move"}, Rate <- 1, FlatFee <- 2,
    MaxEntries <- 4, MaxDay <- 3, MaxAgreements <- 1, DaysPerMonth <- 2

ASSUME /\ AmenitiesAssumption /\ TransactionsAssumption
       /\ LeasesAssumption /\ LeaseChargesAssumption
       /\ Recurring!TransactionsAssumption /\ Recurring!LeasesAssumption
       /\ Recurring!LeaseChargesAssumption
       /\ Fees!TransactionsAssumption /\ Fees!LeasesAssumption
       /\ Fees!LeaseChargesAssumption
       /\ Trust!TransactionsAssumption /\ Trust!LeasesAssumption
       /\ Trust!LeaseTrustAssumption
       /\ Draws!ClientAccountingAssumption /\ Portfolio!ClientAccountingAssumption
       /\ Checks!ClientAccountingAssumption /\ Management!ClientAccountingAssumption

(***************************************************************************)
(* Behaviours.                                                             *)
(***************************************************************************)
leaseVars == <<ChargeVars, recorded>>
ownerVars == <<today, portfolioOf, cashEntries, contributions, distributions, agreements>>

MCInit ==
    /\ part \in Parts
    /\ IF part = "billing" THEN ChargesInit ELSE Fees!ChargesInit
    /\ recorded = [l \in Leases |-> 0]
    /\ AMInit
    /\ IF part = "draws" THEN Draws!CAInit ELSE Portfolio!CAInit

MCNext ==
    /\ UNCHANGED part
    /\ \/ /\ \/ part = "billing" /\ ChargesNext
             \/ part = "recurring" /\ Recurring!ChargesNext
             \/ part = "fees" /\ Fees!ChargesNext
          /\ UNCHANGED <<recorded, amVars, ownerVars>>
       \/ /\ part = "trust" /\ Trust!TrustNext
          /\ UNCHANGED <<recurring, policies, closed, run, amVars, ownerVars>>
       \/ /\ part = "amenities" /\ AMNext
          /\ UNCHANGED <<leaseVars, ownerVars>>
       \/ /\ \/ part = "draws" /\ Draws!CANext
             \/ part = "portfolio" /\ Portfolio!CANext
             \/ part = "checks" /\ Checks!CANext
             \/ part = "management" /\ Management!CANext
          /\ UNCHANGED <<leaseVars, amVars>>

\* The loop of a billing run goes on.
MCSpec ==
    /\ MCInit /\ [][MCNext]_<<part, leaseVars, amVars, ownerVars>>
    /\ WF_ChargeVars(run # Idle /\ RunStep)

(***************************************************************************)
(* Properties: those of the parts, put together.                           *)
(***************************************************************************)
\* What an owner may draw is the cash of the portfolio on that day, and a draw
\* leaves no less than nothing, where every line names its property.  A fee that
\* is posted when its month is over is the share of the rent that was collected
\* in it, by whoever owns the property then.
OwnersGetTheirs ==
    /\ [](part = "draws" => Draws!AvailableIsCash)
    /\ [](part = "checks" => Checks!AvailableIsCash)
    /\ Draws!DrawsAreCovered /\ Portfolio!DrawsAreCovered
    /\ Management!FeesFollowRent
=============================================================================
