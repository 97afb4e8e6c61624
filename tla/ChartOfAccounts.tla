-------------------------- MODULE ChartOfAccounts ---------------------------
(***************************************************************************)
(* The chart of accounts of one operator (modules/accounting/backend/      *)
(* chart_of_accounts.ts).  The default accounts are seeded lazily: every   *)
(* lookup first inserts those whose number no account has.  What the chart *)
(* holds before the first lookup depends on how api/server.ts created the  *)
(* operator.  Components find the account to post to by its number, by its *)
(* role (category_mapping), or by either.                                  *)
(*                                                                         *)
(* An account's position in the chart stands for its id.                   *)
(***************************************************************************)
EXTENDS Naturals, FiniteSets, SequencesExt

CONSTANTS
    Numbers, Roles, Kinds,
    None,               \* no account number, or no category mapping
    Defaults,           \* DEFAULT_PROPERTY_MANAGEMENT_COA, in its order
    InitialCharts,      \* what setting up or provisioning an operator inserts
    UserAccounts,       \* the accounts that users create
    Edits,              \* what users change: functions from columns to values
    MaxAccounts         \* bound on the chart

VARIABLE chart

Columns == {"number", "role", "kind", "active"}
AccountRows == [number : Numbers \cup {None}, role : Roles \cup {None}, kind : Kinds,
             active : BOOLEAN, system : BOOLEAN]

ChartAssumption ==
    /\ None \notin Numbers \cup Roles
    /\ Defaults \in Seq([number : Numbers, role : Roles, kind : Kinds])
    /\ InitialCharts \subseteq Seq(AccountRows)
    /\ UserAccounts \subseteq [number : Numbers \cup {None}, role : Roles \cup {None}, kind : Kinds]
    /\ \A edit \in Edits : DOMAIN edit \subseteq Columns
    /\ MaxAccounts \in Nat

Account(def, system) ==
    [number |-> def.number, role |-> def.role, kind |-> def.kind,
     active |-> TRUE, system |-> system]

\* Wrong: an account that was deactivated counts as missing.
MissingInactive ==
    SelectSeq(Defaults, LAMBDA def :
        \A i \in DOMAIN chart : chart[i].active => chart[i].number # def.number)

\* The defaults whose number no account has.
Missing ==
    SelectSeq(Defaults, LAMBDA def : \A i \in DOMAIN chart : chart[i].number # def.number)

(***************************************************************************)
(* Operations.                                                             *)
(***************************************************************************)
\* ensureDefaultAccounts, which listing the chart, getAccountByMapping,
\* getAccountByAccountNumber and createTransaction begin with.
EnsureDefaultAccounts ==
    /\ Missing # <<>>
    /\ chart' = chart \o [k \in DOMAIN Missing |-> Account(Missing[k], TRUE)]

CreateAccount(def) ==
    /\ Len(chart) + Len(Missing) < MaxAccounts
    /\ chart' = Append(chart, Account(def, FALSE))

\* Any column can be set to anything; nothing else is looked at.  The bound
\* leaves room for the default that a new number may leave missing.
UpdateAccount(i, edit) ==
    /\ Len(chart) + Len(Missing) < MaxAccounts
    /\ chart' = [chart EXCEPT ![i] =
                   [c \in DOMAIN @ |-> IF c \in DOMAIN edit THEN edit[c] ELSE @[c]]]

Init == chart \in InitialCharts

Next ==
    \/ EnsureDefaultAccounts
    \/ \E def \in UserAccounts : CreateAccount(def)
    \/ \E i \in DOMAIN chart, edit \in Edits : UpdateAccount(i, edit)

Spec == Init /\ [][Next]_chart

\* The account that approveBill, issueCheck and createCredit post to: any that
\* has the number or the role, the inactive ones included.
ControlAccounts(number, role) ==
    {i \in DOMAIN chart : chart[i].number = number \/ chart[i].role = role}

(***************************************************************************)
(* Properties.                                                             *)
(***************************************************************************)
\* The chart is a list of accounts, and lookups stop adding to it.
TypeOK == chart \in Seq(AccountRows) /\ Len(chart) <= MaxAccounts

\* However often the lookups seed the chart, and whatever users deactivate,
\* re-map or renumber in between, no number is seeded a second time; as long as
\* users do not give a default number to another account themselves.
DefaultsSeededOnce ==
    \A k \in DOMAIN Defaults :
        Cardinality({i \in DOMAIN chart : chart[i].number = Defaults[k].number}) <= 1
=============================================================================
