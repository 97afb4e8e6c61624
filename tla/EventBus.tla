------------------------------ MODULE EventBus ------------------------------
(***************************************************************************)
(* The in-process event bus of core/events.ts.  publish schedules the      *)
(* emission for a later turn of the event loop; the subscriber runs then   *)
(* and is done at once, or awaits something (a webhook) and ends in        *)
(* another turn.  The bus runs every subscriber of an event; the program   *)
(* gives each of its events one, and so does this module.  A subscriber    *)
(* that throws leaves a dead letter, of which the last few are kept.       *)
(* Nothing is written down: a stop of the process loses what is waiting or *)
(* running, and the dead letters.                                          *)
(***************************************************************************)
EXTENDS Naturals, Sequences, FiniteSetsExt

CONSTANTS
    Events,             \* what is published: a topic and its payload
    MaxDeadLetters,     \* MAX_DEAD_LETTERS
    MaxPublished        \* bound on the number of events

VARIABLES
    published,          \* history: every event published; its position is its id
    queue,              \* events whose emission is scheduled
    running,            \* events whose subscriber awaits something
    deadLetters,        \* most recent first
    fates,              \* history: what became of every event
    failures            \* history: the failures since the process started

busVars == <<published, queue, running, deadLetters, fates, failures>>

ASSUME EventBusAssumption ==
    /\ MaxDeadLetters \in Nat \ {0}
    /\ MaxPublished \in Nat

BusInit ==
    /\ published = <<>> /\ queue = <<>> /\ running = {}
    /\ deadLetters = <<>> /\ fates = <<>> /\ failures = <<>>

\* Wrong: the newest event is emitted first.
PublishFirst(event) ==
    /\ Len(published) < MaxPublished
    /\ published' = Append(published, event)
    /\ queue' = <<Len(published) + 1>> \o queue
    /\ fates' = Append(fates, "waiting")
    /\ UNCHANGED <<running, deadLetters, failures>>

Publish(event) ==
    /\ Len(published) < MaxPublished
    /\ published' = Append(published, event)
    /\ queue' = Append(queue, Len(published) + 1)
    /\ fates' = Append(fates, "waiting")
    /\ UNCHANGED <<running, deadLetters, failures>>

\* Wrong: the list is not cut.
FailedUncut(n) ==
    /\ deadLetters' = <<n>> \o deadLetters
    /\ failures' = Append(failures, n)
    /\ fates' = [fates EXCEPT ![n] = "failed"]

\* The newest failure comes first; pop drops the oldest when there are too many.
Failed(n) ==
    /\ LET letters == <<n>> \o deadLetters
       IN  deadLetters' = SubSeq(letters, 1, Min({MaxDeadLetters, Len(letters)}))
    /\ failures' = Append(failures, n)
    /\ fates' = [fates EXCEPT ![n] = "failed"]

Handled(n) ==
    /\ fates' = [fates EXCEPT ![n] = "handled"]
    /\ UNCHANGED <<deadLetters, failures>>

\* The emission of the event that has waited longest.
Emit ==
    /\ queue # <<>>
    /\ queue' = Tail(queue)
    /\ UNCHANGED published

\* The subscriber is done in the turn of the emission, or awaits something.
EmitHandled == Emit /\ Handled(Head(queue)) /\ UNCHANGED running
EmitFailed  == Emit /\ Failed(Head(queue)) /\ UNCHANGED running
EmitAwaiting ==
    /\ Emit
    /\ running' = running \cup {Head(queue)}
    /\ fates' = [fates EXCEPT ![Head(queue)] = "running"]
    /\ UNCHANGED <<deadLetters, failures>>

Resume(n) ==
    /\ running' = running \ {n}
    /\ Handled(n) \/ Failed(n)
    /\ UNCHANGED <<published, queue>>

StopBus ==
    /\ queue' = <<>> /\ running' = {} /\ deadLetters' = <<>> /\ failures' = <<>>
    /\ fates' = [n \in DOMAIN fates |->
                   IF fates[n] \in {"waiting", "running"} THEN "lost" ELSE fates[n]]
    /\ UNCHANGED published

BusNext ==
    \/ \E event \in Events : Publish(event)
    \/ EmitHandled \/ EmitFailed \/ EmitAwaiting
    \/ \E n \in running : Resume(n)
    \/ StopBus

BusSpec == BusInit /\ [][BusNext]_busVars

\* The event loop gets to every scheduled emission, and what a subscriber
\* awaits (a request with a timeout) ends.
FairBusSpec ==
    /\ BusSpec
    /\ WF_busVars(EmitHandled \/ EmitFailed \/ EmitAwaiting)
    /\ \A n \in 1 .. MaxPublished : WF_busVars(n \in running /\ Resume(n))

(***************************************************************************)
(* Properties.                                                             *)
(***************************************************************************)
\* Events have one fate each, and lists hold events.
BusTypeOK ==
    /\ published \in Seq(Events)
    /\ queue \in Seq(1 .. Len(published))
    /\ running \subseteq 1 .. Len(published)
    /\ deadLetters \in Seq(1 .. Len(published))
    /\ fates \in [1 .. Len(published) -> {"waiting", "running", "handled", "failed", "lost"}]
    /\ failures \in Seq(1 .. Len(published))

\* Events wait in the order of publication, without a gap: what is scheduled
\* is the end of what was published.
QueueInOrder ==
    /\ Len(queue) <= Len(published)
    /\ \A i \in 1 .. Len(queue) : queue[i] = Len(published) - Len(queue) + i
    /\ \A n \in 1 .. Len(published) :
          fates[n] = "waiting" <=> n > Len(published) - Len(queue)
    /\ \A n \in 1 .. Len(published) : fates[n] = "running" <=> n \in running

\* The dead letters that the admin page lists are the latest failures since
\* the process started, newest first, whatever order subscribers end in.
LatestFailures ==
    /\ Len(deadLetters) = Min({MaxDeadLetters, Len(failures)})
    /\ \A i \in 1 .. Len(deadLetters) : deadLetters[i] = failures[Len(failures) + 1 - i]

\* Through awaits, failures and restarts, what waits is in order and was not
\* started, and the admin page shows what failed last.
BusAgrees == QueueInOrder /\ LatestFailures

\* The bus keeps the promises of OrderedDelivery.
Delivery == INSTANCE OrderedDelivery
DeliversInOrder == Delivery!Spec

\* An event that is published is handled, becomes a dead letter or is lost
\* with the process: none waits for ever behind another's subscriber.
EventsSettle ==
    \A n \in 1 .. MaxPublished :
        (n \in DOMAIN fates) ~> (n \in DOMAIN fates /\ fates[n] \in Delivery!Settled)
=============================================================================
