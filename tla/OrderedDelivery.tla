-------------------------- MODULE OrderedDelivery ---------------------------
(***************************************************************************)
(* What publishers may rely on: an event reaches its subscriber at most    *)
(* once, subscribers are started in the order of publication, and an event *)
(* that is settled stays settled.  A stop of the process loses whatever is *)
(* not settled.                                                            *)
(***************************************************************************)
EXTENDS Naturals, Sequences

VARIABLE fates      \* the fate of every published event, in order

Unsettled == {"waiting", "running"}
Settled   == {"handled", "failed", "lost"}

IsNextUp(n) == fates[n] = "waiting" /\ \A k \in 1 .. (n - 1) : fates[k] # "waiting"

Init == fates = <<>>
Send == fates' = Append(fates, "waiting")
Start(n) ==
    /\ IsNextUp(n)
    /\ \E fate \in {"running", "handled", "failed"} : fates' = [fates EXCEPT ![n] = fate]
Settle(n) ==
    /\ fates[n] = "running"
    /\ \E fate \in {"handled", "failed"} : fates' = [fates EXCEPT ![n] = fate]
Stop ==
    fates' = [n \in DOMAIN fates |-> IF fates[n] \in Unsettled THEN "lost" ELSE fates[n]]

Next ==
    \/ Send
    \/ \E n \in DOMAIN fates : Start(n) \/ Settle(n)
    \/ Stop
Spec == Init /\ [][Next]_fates
=============================================================================
