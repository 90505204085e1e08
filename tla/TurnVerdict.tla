----------------------------- MODULE TurnVerdict -----------------------------
(***************************************************************************)
(* What a turn promises the person who is watching it: it gets one outcome *)
(* and whatever is announced about it is that outcome, except that a run   *)
(* the database left without an answer may announce a failure or a cancel  *)
(* it could not confirm; never a success.  lib/tasks/queue.ts              *)
(* (commitTurnOutcome, reconcileZombies) and runAgentTask implement this;  *)
(* see TurnOutcome.                                                        *)
(***************************************************************************)
CONSTANT Lossy   \* may the store fail to answer?

VARIABLES
    outcome,    \* "open", or the terminal status of the turn
    said        \* the statuses announced by task:finish events

Verdicts == {"completed", "failed", "cancelled"}

Init == outcome = "open" /\ said = {}

Decide(v) ==
    /\ outcome = "open"
    /\ outcome' = v
    /\ UNCHANGED said

Say ==
    /\ outcome # "open"
    /\ said' = said \cup {outcome}
    /\ UNCHANGED outcome

\* Bad news the store did not confirm.
Guess(v) ==
    /\ Lossy
    /\ v # "completed"
    /\ said' = said \cup {v}
    /\ UNCHANGED outcome

Next == Say \/ \E v \in Verdicts : Decide(v) \/ Guess(v)

Spec == Init /\ [][Next]_<<outcome, said>>
=============================================================================
