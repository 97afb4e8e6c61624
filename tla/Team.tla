-------------------------------- MODULE Team ---------------------------------
(***************************************************************************)
(* Setup, operators, users and sessions: the handlers of api/server.ts     *)
(* with the ranks of core/rbac.ts and the tokens of core/crypto.ts.        *)
(*                                                                         *)
(* A handler runs without interruption except where it waits for a hash    *)
(* of a password: `waiting` holds what such a handler has read and checked *)
(* before, and its second half runs when any other requests may have been  *)
(* served.                                                                 *)
(***************************************************************************)
EXTENDS Naturals, Sequences, FiniteSets

CONSTANTS
    Emails, Passwords, Slugs,
    TeamRoles,          \* the roles that users are given
    SetupMode,          \* "single" or "multi"
    MaxOperators, MaxUsers, MaxWaiting, MaxVersion      \* bounds

VARIABLES
    operators,          \* operators: [subdomain, founded, live]; ids are positions
    users,              \* users, deleted ones included; ids are positions
    waiting,            \* requests that wait for a hash
    tokens              \* the tokens handed out: what they claim, and for which password

teamVars == <<operators, users, waiting, tokens>>

Rank == [system_owner |-> 100, system_manager |-> 90, owner |-> 80, manager |-> 70,
         viewer |-> 30]
Unchanged == "unchanged"

TeamAssumption ==
    /\ TeamRoles \subseteq {"owner", "manager", "viewer"}
    /\ SetupMode \in {"single", "multi"} /\ Unchanged \notin Passwords
    /\ {MaxOperators, MaxUsers, MaxWaiting, MaxVersion} \subseteq Nat

LiveUsers == {u \in DOMAIN users : users[u].live}
Owners(o) == {u \in LiveUsers : users[u].operator = o /\ users[u].role = "owner"}
Primary == 1

CanAssignRole(caller, target) ==
    CASE caller = "system_owner" -> TRUE
      [] target \in {"system_owner", "system_manager"} -> FALSE
      [] caller = "owner" -> Rank[target] <= Rank["owner"]
      [] OTHER -> Rank[caller] > Rank[target]

(***************************************************************************)
(* Tokens.                                                                 *)
(***************************************************************************)
Token(u, user) == [user |-> u, version |-> user.version, role |-> user.role,
                   password |-> user.password]

\* verifyTokenWithDatabase: signed, not expired, of a user's present version.
Accepted(t) == users[t.user].live /\ users[t.user].version = t.version
SignedIn(u) == \E t \in tokens : t.user = u /\ Accepted(t)

Expire(t) == tokens' = tokens \ {t} /\ UNCHANGED <<operators, users, waiting>>

(***************************************************************************)
(* Waiting for a hash, and what comes after.                               *)
(***************************************************************************)
Wait(request) ==
    /\ Cardinality(waiting) < MaxWaiting
    /\ waiting' = waiting \cup {request}

UserOf(o, email, password, role, system) ==
    [operator |-> o, email |-> email, password |-> password, role |-> role,
     system |-> system, version |-> 1, live |-> TRUE]

\* The unique index of users.
EmailFree(o, email) ==
    \A u \in LiveUsers : ~(users[u].operator = o /\ users[u].email = email)

\* A statement that fails leaves everything as it was.
InsertUser(user) ==
    users' = IF EmailFree(user.operator, user.email) THEN Append(users, user) ELSE users

\* The unique column of operators, which deleted ones occupy too.
SubdomainFree(subdomain) == \A o \in DOMAIN operators : operators[o].subdomain # subdomain
OperatorRow(subdomain, founded) == [subdomain |-> subdomain, founded |-> founded, live |-> TRUE]

(***************************************************************************)
(* Login.                                                                  *)
(***************************************************************************)
Login(u, password) ==
    /\ u \in LiveUsers
    /\ users[u].password = password
    /\ Wait([kind |-> "login", user |-> u, row |-> users[u]])
    /\ UNCHANGED <<operators, users, tokens>>

\* The token tells of the row that was read before.
LoginDone(r) ==
    /\ tokens' = tokens \cup {Token(r.user, r.row)}
    /\ UNCHANGED <<operators, users>>

(***************************************************************************)
(* First setup and the provisioning of operators.                          *)
(***************************************************************************)
Setup(email, password) ==
    /\ LiveUsers = {}
    /\ Wait([kind |-> "setup", email |-> email, password |-> password])
    /\ UNCHANGED <<operators, users, tokens>>

\* Users are not counted again; the address "primary" is taken once.
SetupDone(r) ==
    LET founder == UserOf(Len(operators) + 1, r.email, r.password,
                          IF SetupMode = "multi" THEN "system_owner" ELSE "owner", TRUE)
    IN  IF SubdomainFree(<<"primary", 0>>)
        THEN /\ operators' = Append(operators, OperatorRow(<<"primary", 0>>, TRUE))
             /\ users' = Append(users, founder)
             /\ tokens' = tokens \cup {Token(Len(users) + 1, founder)}
        ELSE UNCHANGED <<operators, users, tokens>>

Provision(slug, explicit, email, password) ==
    /\ Wait([kind |-> "provision", slug |-> slug, explicit |-> explicit, email |-> email,
             password |-> password])
    /\ UNCHANGED <<operators, users, tokens>>

ProvisionDone(r) ==
    LET taken == \E o \in DOMAIN operators :
                    operators[o].live /\ operators[o].subdomain = <<r.slug, 0>>
        subdomain == IF taken THEN <<r.slug, Len(operators) + 1>> ELSE <<r.slug, 0>>
        conflict == (\E u \in LiveUsers : users[u].email = r.email) \/ (taken /\ r.explicit)
    IN  /\ IF conflict \/ ~SubdomainFree(subdomain) THEN UNCHANGED <<operators, users>>
           ELSE /\ operators' = Append(operators, OperatorRow(subdomain, FALSE))
                /\ users' = Append(users, UserOf(Len(operators) + 1, r.email, r.password,
                                                 "owner", FALSE))
        /\ UNCHANGED tokens

\* Only the owner of the platform; the users of the operator go with it.
PlatformOwner(c) ==
    SignedIn(c) /\ users[c].system /\ users[c].role \in {"system_owner", "owner"}

DeleteOperator(c, o) ==
    /\ PlatformOwner(c)
    /\ operators[o].live
    /\ operators' = [operators EXCEPT ![o].live = FALSE]
    /\ users' = [u \in DOMAIN users |-> IF users[u].operator = o
                                        THEN [users[u] EXCEPT !.live = FALSE] ELSE users[u]]
    /\ UNCHANGED <<waiting, tokens>>

(***************************************************************************)
(* The team of an operator.                                                *)
(***************************************************************************)
Manages(c) ==
    SignedIn(c) /\ (users[c].system \/ users[c].role \in DOMAIN Rank \ {"viewer"})

CreateUser(c, email, password, role) ==
    /\ Manages(c)
    /\ CanAssignRole(users[c].role, role)
    /\ EmailFree(users[c].operator, email)
    /\ Wait([kind |-> "create",
             user |-> UserOf(users[c].operator, email, password, role, FALSE)])
    /\ UNCHANGED <<operators, users, tokens>>

CreateDone(r) == InsertUser(r.user) /\ UNCHANGED <<operators, tokens>>

\* Owners and system users edit everybody, others those below them.
UpdateUser(c, u, role, password) ==
    /\ Manages(c)
    /\ u \in LiveUsers /\ users[u].operator = users[c].operator
    /\ users[c].role \notin {"owner", "system_owner"} /\ ~users[c].system
          => CanAssignRole(users[c].role, users[u].role)
    /\ role # Unchanged => CanAssignRole(users[c].role, role)
    /\ users' = IF role = Unchanged THEN users ELSE [users EXCEPT ![u].role = role]
    /\ IF password = Unchanged THEN UNCHANGED waiting
       ELSE Wait([kind |-> "password", user |-> u, password |-> password])
    /\ UNCHANGED <<operators, tokens>>

\* Wrong: tokens of the old password stay good.
PasswordKeepsVersion(r) ==
    /\ users' = [users EXCEPT ![r.user].password = r.password]
    /\ UNCHANGED <<operators, tokens>>

PasswordDone(r) ==
    /\ users[r.user].version < MaxVersion
    /\ users' = [users EXCEPT ![r.user].password = r.password, ![r.user].version = @ + 1]
    /\ UNCHANGED <<operators, tokens>>

DeleteUser(c, u) ==
    /\ SignedIn(c) /\ c # u
    /\ users[c].system \/ users[c].role \in {"system_owner", "owner"}
    /\ u \in LiveUsers /\ users[u].operator = users[c].operator
    /\ users[u].role = "owner" => Owners(users[u].operator) # {u}
    /\ users' = [users EXCEPT ![u].live = FALSE]
    /\ UNCHANGED <<operators, waiting, tokens>>

(***************************************************************************)
(* The managers of the platform, who are users of its first operator.      *)
(***************************************************************************)
Appoint(c, email, password) ==
    /\ PlatformOwner(c)
    /\ \A u \in LiveUsers : users[u].email # email
    /\ Wait([kind |-> "appoint", email |-> email, password |-> password])
    /\ UNCHANGED <<operators, users, tokens>>

AppointDone(r) ==
    /\ InsertUser(UserOf(Primary, r.email, r.password, "system_manager", TRUE))
    /\ UNCHANGED <<operators, tokens>>

DeleteManager(c, u) ==
    /\ PlatformOwner(c) /\ c # u
    /\ u \in LiveUsers /\ users[u].system
    /\ users' = [users EXCEPT ![u].live = FALSE]
    /\ UNCHANGED <<operators, waiting, tokens>>

(***************************************************************************)
(* The specification.                                                      *)
(***************************************************************************)
TeamInit == operators = <<>> /\ users = <<>> /\ waiting = {} /\ tokens = {}

\* The bounds count the rows that the second halves may add.
Hashed(r) ==
    /\ waiting' = waiting \ {r}
    /\ CASE r.kind = "login"     -> LoginDone(r)
         [] r.kind = "setup"     -> Len(users) < MaxUsers /\ SetupDone(r)
         [] r.kind = "provision" -> /\ Len(users) < MaxUsers /\ Len(operators) < MaxOperators
                                    /\ ProvisionDone(r)
         [] r.kind = "create"    -> Len(users) < MaxUsers /\ CreateDone(r)
         [] r.kind = "password"  -> PasswordDone(r)
         [] r.kind = "appoint"   -> Len(users) < MaxUsers /\ AppointDone(r)

Unauthenticated ==
    \E email \in Emails, password \in Passwords :
        \/ Setup(email, password)
        \/ \E u \in LiveUsers : users[u].email = email /\ Login(u, password)
        \/ \E slug \in Slugs, explicit \in BOOLEAN : Provision(slug, explicit, email, password)

ByUser(c) ==
    \/ \E email \in Emails, password \in Passwords :
          \/ \E role \in TeamRoles : CreateUser(c, email, password, role)
          \/ Appoint(c, email, password)
    \/ \E u \in DOMAIN users :
          \/ \E role \in TeamRoles \cup {Unchanged}, password \in Passwords \cup {Unchanged} :
                UpdateUser(c, u, role, password)
          \/ DeleteUser(c, u) \/ DeleteManager(c, u)
    \/ \E o \in DOMAIN operators : DeleteOperator(c, o)

TeamNext ==
    \/ Unauthenticated
    \/ \E c \in LiveUsers : ByUser(c)
    \/ \E r \in waiting : Hashed(r)
    \/ \E t \in tokens : Expire(t)
TeamSpec == TeamInit /\ [][TeamNext]_teamVars

(***************************************************************************)
(* Properties.                                                             *)
(***************************************************************************)
\* Users belong to an operator and are told apart by their address there,
\* whichever requests waited at the same time; no token is ahead of its user.
TeamTypeOK ==
    /\ \A u \in DOMAIN users :
          users[u].operator \in DOMAIN operators /\ users[u].role \in DOMAIN Rank
    /\ \A u, v \in LiveUsers :
          users[u].operator = users[v].operator /\ users[u].email = users[v].email => u = v
    /\ \A t \in tokens : t.user \in DOMAIN users /\ t.version <= users[t.user].version

\* A token that is accepted was given for the password the user has now,
\* even if the password was changed while the login waited.
SessionsKnowPassword == \A t \in tokens : Accepted(t) => t.password = users[t.user].password

\* However many setups are sent at once, one founds the platform.
OneFounding ==
    \A o, p \in DOMAIN operators : operators[o].founded /\ operators[p].founded => o = p

\* core/crypto.ts: "when a user's password or role changes, their
\* token_version is incremented, invalidating all existing tokens".
\* Refuted: see the README.
RoleChangeRevokes == \A t \in tokens : Accepted(t) => t.role = users[t.user].role

\* docs/api/rest-api.md: deleting an operator is "Soft delete operator and
\* associated operator users": a deleted operator has no users.
\* Refuted: see the README.
NobodyOfDeletedOperator == \A u \in LiveUsers : operators[users[u].operator].live

\* CHANGELOG.md: "fail-closed checks preventing deletion of an organization's
\* sole owner".
\* Refuted: see the README.
SoleOwnerStays ==
    [][\A o \in DOMAIN operators :
          /\ operators'[o].live
          /\ \E u \in LiveUsers : users[u].operator = o /\ ~users'[u].live
          => (Owners(o) # {} => Owners(o)' # {})]_teamVars
=============================================================================
