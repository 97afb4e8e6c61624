---------------------------- MODULE AtomicCalls -------------------------------
(***************************************************************************)
(* What withTransaction promises its callers: what a call wrote, with      *)
(* what the calls inside it that returned wrote, is stored as a whole when *)
(* the outermost call returns, and never in part.                          *)
(***************************************************************************)
EXTENDS Sequences, SequencesExt

CONSTANT Values         \* what may be written
VARIABLES
    stored,             \* what is in the database for good
    calls               \* what the calls in progress wrote, outermost first

acVars == <<stored, calls>>

Call == calls' = Append(calls, {}) /\ UNCHANGED stored

Write(v) ==
    /\ calls # <<>>
    /\ calls' = [calls EXCEPT ![Len(calls)] = @ \cup {v}]
    /\ UNCHANGED stored

Return ==
    /\ calls # <<>>
    /\ IF Len(calls) = 1
       THEN stored' = stored \cup calls[1] /\ calls' = <<>>
       ELSE /\ calls' = [Front(calls) EXCEPT ![Len(calls) - 1] = @ \cup Last(calls)]
            /\ UNCHANGED stored

Throw == calls # <<>> /\ calls' = Front(calls) /\ UNCHANGED stored

\* The process dies.
Die == calls' = <<>> /\ UNCHANGED stored

CallsInit == stored = {} /\ calls = <<>>
CallsNext == Call \/ (\E v \in Values : Write(v)) \/ Return \/ Throw \/ Die
CallsSpec == CallsInit /\ [][CallsNext]_acVars
=============================================================================
