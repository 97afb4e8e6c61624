----------------------------- MODULE RateLimiter -------------------------------
(***************************************************************************)
(* rateLimitMiddleware of api/middleware.ts: a map of buckets, a timer     *)
(* that takes the old ones away, and the log of what was refused.          *)
(***************************************************************************)
EXTENDS Naturals, Sequences, FiniteSets, Functions

CONSTANTS
    Ips, Paths, OperatorIds,    \* where requests come from, the paths of auth, operators
    AuthMax, OperatorMax, PublicMax,            \* getRateLimitConfig
    AuthWindow, OperatorWindow, PublicWindow,
    MaxHistory          \* MAX_RATE_LIMIT_EVENT_HISTORY

VARIABLES
    rateLimitMap,       \* key -> [attempts, left]
    recentRateLimitEvents

rlVars == <<rateLimitMap, recentRateLimitEvents>>

Nobody == "none"
Requests == [ip : Ips, path : Paths \cup {Nobody}, operator : OperatorIds \cup {Nobody}]

\* Auth and setup by address and path, then operators, then addresses.
KeyOf(r) ==
    IF r.path # Nobody THEN <<"auth", r.ip, r.path>>
    ELSE IF r.operator # Nobody THEN <<"operator", r.operator>> ELSE <<"public", r.ip>>
RequestKeys == {KeyOf(r) : r \in Requests}
MaxAttempts(k) ==
    CASE k[1] = "auth" -> AuthMax [] k[1] = "operator" -> OperatorMax [] OTHER -> PublicMax
WindowMs(k) ==
    CASE k[1] = "auth" -> AuthWindow [] k[1] = "operator" -> OperatorWindow
      [] OTHER -> PublicWindow

RateAssumption ==
    /\ {AuthMax, OperatorMax, PublicMax, AuthWindow, OperatorWindow, PublicWindow} \subseteq Nat \ {0}
    /\ MaxHistory \in Nat /\ Nobody \notin Paths \cup OperatorIds

Open(k) == k \in DOMAIN rateLimitMap /\ rateLimitMap[k].left > 0
Blocked(k) == Open(k) /\ rateLimitMap[k].attempts >= MaxAttempts(k)

Admit(r) ==
    LET k == KeyOf(r)
    IN  /\ ~Blocked(k)
        /\ rateLimitMap' =
              [j \in DOMAIN rateLimitMap \cup {k} |->
                  IF j # k THEN rateLimitMap[j]
                  ELSE IF Open(k) THEN [rateLimitMap[k] EXCEPT !.attempts = @ + 1]
                  ELSE [attempts |-> 1, left |-> WindowMs(k)]]
        /\ UNCHANGED recentRateLimitEvents

Logged(k) ==
    recentRateLimitEvents' =
        LET log == <<k>> \o recentRateLimitEvents
        IN  IF Len(log) > MaxHistory THEN SubSeq(log, 1, Len(log) - 1) ELSE log

Refuse(r) ==
    /\ Blocked(KeyOf(r))
    /\ Logged(KeyOf(r))
    /\ UNCHANGED rateLimitMap

\* Wrong: buckets are taken away before their time.
EvictFull ==
    /\ rateLimitMap' = Restrict(rateLimitMap,
                                {k \in DOMAIN rateLimitMap : Open(k) /\ ~Blocked(k)})
    /\ UNCHANGED recentRateLimitEvents

EvictExpiredRateLimits ==
    /\ rateLimitMap' = Restrict(rateLimitMap, {k \in DOMAIN rateLimitMap : Open(k)})
    /\ UNCHANGED recentRateLimitEvents

TimePasses ==
    /\ rateLimitMap' = [k \in DOMAIN rateLimitMap |->
                           [rateLimitMap[k] EXCEPT !.left = IF @ = 0 THEN 0 ELSE @ - 1]]
    /\ UNCHANGED recentRateLimitEvents

RLInit == rateLimitMap = <<>> /\ recentRateLimitEvents = <<>>
RLNext ==
    \/ \E r \in Requests : Admit(r) \/ Refuse(r)
    \/ EvictExpiredRateLimits \/ TimePasses
RLSpec == RLInit /\ [][RLNext]_rlVars

\* Time passes.
FairRLSpec == RLSpec /\ WF_rlVars(TimePasses)

(***************************************************************************)
(* Properties.                                                             *)
(***************************************************************************)
\* No bucket counts above its limit, and the log is as long as it may be.
RLTypeOK ==
    /\ DOMAIN rateLimitMap \subseteq RequestKeys
    /\ \A k \in DOMAIN rateLimitMap :
          rateLimitMap[k].attempts \in 1 .. MaxAttempts(k)
          /\ rateLimitMap[k].left \in 0 .. WindowMs(k)
    /\ Len(recentRateLimitEvents) <= MaxHistory

Windows == INSTANCE FixedWindows WITH
    Keys <- RequestKeys,
    Limit <- [k \in RequestKeys |-> MaxAttempts(k)],
    Window <- [k \in RequestKeys |-> WindowMs(k)],
    passed <- [k \in RequestKeys |-> IF Open(k) THEN rateLimitMap[k].attempts ELSE 0],
    left <- [k \in RequestKeys |-> IF Open(k) THEN rateLimitMap[k].left ELSE 0]

\* Every key has its fixed windows; the timer that takes old buckets away,
\* whenever it runs, cannot be noticed.
LimitsWindows == Windows!FWSpec

\* However often a key asks while it is refused, it is not refused for ever.
RefusalEnds == \A k \in RequestKeys : Blocked(k) ~> ~Blocked(k)
=============================================================================
