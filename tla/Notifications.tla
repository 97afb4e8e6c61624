---------------------------- MODULE Notifications ----------------------------
(***************************************************************************)
(* Notifications about events: core/notification-listener.ts writes an     *)
(* in-app row and calls the webhook of the operator through the dispatcher *)
(* of core/notifications.ts, which waits up to five seconds for an answer  *)
(* and then writes a row of notification_logs.  Meanwhile the operator may *)
(* edit the settings, and other subscribers wait for their own answers.    *)
(***************************************************************************)
EXTENDS Naturals, FiniteSets

CONSTANTS
    Operators,
    Events,             \* deliveries of an event to its subscriber
    OperatorOf,         \* the operatorId of the payload, or NoOperator
    Feeds,              \* events that also go to the in-app feed
    Urls,               \* webhook addresses
    Trusted,            \* those with https, or of the loopback
    NoOperator, NoUrl

VARIABLES
    url,                \* operator_notification_settings.webhook_url
    post,               \* the request of every event
    received,           \* the endpoints that took the event
    rows,               \* notification_logs
    up

noteVars == <<url, post, received, rows, up>>

NotificationsAssumption ==
    /\ OperatorOf \in [Events -> Operators \cup {NoOperator}]
    /\ Feeds \subseteq Events /\ Trusted \subseteq Urls
    /\ NoUrl \notin Urls /\ NoOperator \notin Operators

NoteInit ==
    /\ url = [o \in Operators |-> NoUrl]
    /\ post = [e \in Events |-> [state |-> "none", url |-> NoUrl]]
    /\ received = [e \in Events |-> {}]
    /\ rows = {} /\ up = TRUE

Row(e, channel, recipient, status) ==
    [operator |-> OperatorOf[e], event |-> e, channel |-> channel,
     recipient |-> recipient, status |-> status]

\* updateSettings: a field that is not given keeps its value, an empty one is
\* cleared, and the merged address must use https or be of the loopback.
UpdateSettings(o, given) ==
    /\ up
    /\ LET merged == IF given = "same" THEN url[o] ELSE given IN
       /\ merged \in Trusted \cup {NoUrl}
       /\ url' = [url EXCEPT ![o] = merged]
    /\ UNCHANGED <<post, received, rows, up>>

Written(e, status) == [post EXCEPT ![e].state = status]

\* The row of the in-app feed comes first.
Feed(e) == IF e \in Feeds THEN {Row(e, "in_app", NoUrl, "sent")} ELSE {}

\* A subscriber runs: without an operator it does nothing; the in-app row is
\* written at once, and so is the row of a webhook that is not configured.
Notify(e) ==
    /\ up /\ post[e].state = "none"
    /\ IF OperatorOf[e] = NoOperator
       THEN post' = Written(e, "ignored") /\ UNCHANGED rows
       ELSE IF url[OperatorOf[e]] = NoUrl
       THEN /\ rows' = rows \cup Feed(e) \cup {Row(e, "webhook", NoUrl, "logged")}
            /\ post' = Written(e, "done")
       ELSE /\ rows' = rows \cup Feed(e)
            /\ post' = [post EXCEPT ![e] = [state |-> "waiting", url |-> url[OperatorOf[e]]]]
    /\ UNCHANGED <<url, received, up>>

\* Wrong: the row names the address of the settings as they are now.
FinishWithSettings(e, status) ==
    /\ rows' = rows \cup {Row(e, "webhook", url[OperatorOf[e]], status)}
    /\ post' = Written(e, "done")
    /\ UNCHANGED <<url, up>>

\* The answer, an error or the timeout settles the promise; the row is written.
Finish(e, status) ==
    /\ rows' = rows \cup {Row(e, "webhook", post[e].url, status)}
    /\ post' = Written(e, "done")
    /\ UNCHANGED <<url, up>>

\* The endpoint takes the event: its answer is under way.
EndpointTakes(e) ==
    /\ post[e].state = "waiting" /\ post[e].url \notin received[e]
    /\ received' = [received EXCEPT ![e] = @ \cup {post[e].url}]
    /\ UNCHANGED <<url, post, rows, up>>

\* A 2xx comes from an endpoint that took the event.
Answered(e) ==
    /\ up /\ post[e].state = "waiting" /\ post[e].url \in received[e]
    /\ Finish(e, "sent") /\ UNCHANGED received

\* Another status, an error of the connection, or five seconds of silence:
\* the request is not made again.
FailedOrLate(e) ==
    /\ up /\ post[e].state = "waiting"
    /\ Finish(e, "failed") /\ UNCHANGED received

\* The process stops: no row tells of the requests that were waiting.
Stop ==
    /\ up /\ up' = FALSE
    /\ post' = [e \in Events |-> IF post[e].state = "waiting"
                                 THEN [post[e] EXCEPT !.state = "lost"] ELSE post[e]]
    /\ UNCHANGED <<url, received, rows>>

NoteNext ==
    \/ \E o \in Operators, given \in Urls \cup {NoUrl, "same"} : UpdateSettings(o, given)
    \/ \E e \in Events : \/ Notify(e) \/ EndpointTakes(e)
                         \/ Answered(e) \/ FailedOrLate(e)
    \/ Stop

NoteSpec == NoteInit /\ [][NoteNext]_noteVars
FairNTSpec == NoteSpec /\ \A e \in Events : WF_noteVars(Answered(e) \/ FailedOrLate(e))

(***************************************************************************)
(* Properties.                                                             *)
(***************************************************************************)
WebhookRows(e) == {r \in rows : r.event = e /\ r.channel = "webhook"}

\* Rows have an operator, a channel and a status of the schema.
NoteTypeOK ==
    /\ url \in [Operators -> Urls \cup {NoUrl}]
    /\ \A e \in Events : post[e].state \in {"none", "ignored", "waiting", "done", "lost"}
    /\ rows \subseteq [operator : Operators, event : Events, channel : {"in_app", "webhook"},
                       recipient : Urls \cup {NoUrl}, status : {"logged", "sent", "failed"}]

\* The rows tell where an event went: 'sent' to the address that has it,
\* though the settings were edited while the request was waiting, and each
\* event at most once.
RowsTellTheTruth ==
    /\ \A r \in rows : r.channel = "webhook" /\ r.status = "sent" => r.recipient \in received[r.event]
    /\ \A e \in Events : Cardinality(WebhookRows(e)) <= 1 /\ Cardinality(received[e]) <= 1
    /\ \A e \in Events : \A u \in received[e], r \in WebhookRows(e) : r.recipient = u

\* An event leaves the process only for an address with https or of the
\* loopback, whatever sequence of edits led to it.
OnlyTrustedEndpoints == \A e \in Events : received[e] \subseteq Trusted

\* Whatever becomes of the webhook, the feed has the event: it is there before
\* any endpoint has.
FeedComesFirst ==
    \A e \in Feeds :
       (received[e] # {} \/ WebhookRows(e) # {}) =>
          \E r \in rows : r.event = e /\ r.channel = "in_app"

\* A webhook that was called leaves a row, unless the process stops.
WebhooksAreLogged ==
    \A e \in Events : post[e].state = "waiting" ~> (WebhookRows(e) # {} \/ ~up)

=============================================================================
