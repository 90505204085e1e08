----------------------------- MODULE BudgetHolds -----------------------------
(***************************************************************************)
(* The budget hold of a turn on the shared key, from its reservation to its*)
(* settlement: lib/billing/limits.ts, lib/usage.ts, the admissions that    *)
(* reserve (chat, Telegram, automations, approvals, answers), the runner's *)
(* two accounting paths, and the sweeps of reconcileZombies.  One user, one*)
(* window; the turns may belong to different chats.                        *)
(***************************************************************************)
EXTENDS Naturals, FiniteSets, Functions

CONSTANTS
    Turns,          \* turns ever admitted
    Estimate,       \* what a hold carries
    Costs,          \* what a turn may really cost
    Cap,            \* the tier's cap
    LeaseLoss,      \* may a turn be reaped while its runner is alive?
    SweepBeforeBill,\* may a sweep fall between a failure's commit and its billing?
    QuietDiscard,   \* may a turn end quietly when only discarded attempts were charged?
    LedgerOutage    \* may reconcileUsage meet a database error, which it swallows?

ASSUME BudgetAssumption ==
    /\ IsFiniteSet(Turns)
    /\ Estimate \in Nat /\ Cap \in Nat /\ Costs \subseteq Nat \ {0}
    /\ {LeaseLoss, SweepBeforeBill, QuietDiscard, LedgerOutage} \subseteq BOOLEAN

VARIABLES
    pending,    \* the usage row of the turn, while it is a hold
    aged,       \* the hold is past ORPHAN_HOLD_AGE_MS
    billed,     \* how many settled usage rows the turn has
    cost,       \* what the turn's tokens cost, all attempts together; 0 is none yet
    live,       \* liveUsage: the attempt under way has been charged for tokens
    task,       \* its task row
    adm,        \* the admission that reserved
    drop,       \* a cancel or an absorbing turn that still owes the release
    run,        \* where the runner is
    settled     \* the runner's spendSettled

vars == <<pending, aged, billed, cost, live, task, adm, drop, run, settled>>

TypeOK ==
    /\ pending \in [Turns -> BOOLEAN]
    /\ aged \in [Turns -> BOOLEAN]
    /\ billed \in [Turns -> Nat]
    /\ cost \in [Turns -> Costs \cup {0}]
    /\ live \in [Turns -> BOOLEAN]
    /\ task \in [Turns -> {"absent", "queued", "running", "ended", "deleted"}]
    /\ adm \in [Turns -> {"new", "reserved", "releasing", "out"}]
    /\ drop \in [Turns -> {"none", "owed"}]
    /\ run \in [Turns -> {"none", "streaming", "settling", "commit", "tail",
                          "failing", "billing", "finally", "done", "dead"}]
    /\ settled \in [Turns -> BOOLEAN]

Init ==
    /\ pending = [t \in Turns |-> FALSE]
    /\ aged = [t \in Turns |-> FALSE]
    /\ billed = [t \in Turns |-> 0]
    /\ cost = [t \in Turns |-> 0]
    /\ live = [t \in Turns |-> FALSE]
    /\ task = [t \in Turns |-> "absent"]
    /\ adm = [t \in Turns |-> "new"]
    /\ drop = [t \in Turns |-> "none"]
    /\ run = [t \in Turns |-> "none"]
    /\ settled = [t \in Turns |-> FALSE]

-----------------------------------------------------------------------------
(* The ledger.                                                             *)

\* spendWindows: settled rows, and outstanding holds.
Committed == SumFunction([t \in Turns |-> billed[t] * cost[t]])
Reserved == SumFunction([t \in Turns |-> IF pending[t] THEN Estimate ELSE 0])

\* Mutant: outstanding holds are not counted.
FitsSettledOnly == Committed + Estimate < Cap

Fits == Committed + Reserved + Estimate < Cap

\* releaseHold: the delete, or the error it swallows.
ReleaseHold(t) == pending' \in {pending, [pending EXCEPT ![t] = FALSE]}

\* reconcileUsage: the hold becomes the real figure, or a fresh row is written; an
\* error is logged and swallowed, and the caller goes on.
ReconcileUsage(t) ==
    \E ok \in IF LedgerOutage THEN BOOLEAN ELSE {TRUE} :
        IF ok
          THEN /\ pending' = [pending EXCEPT ![t] = FALSE]
               /\ billed' = [billed EXCEPT ![t] = @ + 1]
          ELSE UNCHANGED <<pending, billed>>

-----------------------------------------------------------------------------
(* Admission.                                                              *)

\* reserveBudget, under the user's advisory lock.
Reserve(t) ==
    /\ adm[t] = "new" /\ Fits
    /\ pending' = [pending EXCEPT ![t] = TRUE]
    /\ adm' = [adm EXCEPT ![t] = "reserved"]
    /\ UNCHANGED <<aged, billed, cost, live, task, drop, run, settled>>

\* enqueueTask created the row: it owns the hold.
HandOff(t) ==
    /\ adm[t] = "reserved"
    /\ task' = [task EXCEPT ![t] = "queued"]
    /\ adm' = [adm EXCEPT ![t] = "out"]
    /\ UNCHANGED <<pending, aged, billed, cost, live, drop, run, settled>>

\* The message folded into another turn, was refused, or something threw.
NotHanded(t) ==
    /\ adm[t] = "reserved"
    /\ adm' = [adm EXCEPT ![t] = "releasing"]
    /\ UNCHANGED <<pending, aged, billed, cost, live, task, drop, run, settled>>

AdmissionReleases(t) ==
    /\ adm[t] = "releasing"
    /\ ReleaseHold(t)
    /\ adm' = [adm EXCEPT ![t] = "out"]
    /\ UNCHANGED <<aged, billed, cost, live, task, drop, run, settled>>

AdmissionDies(t) ==
    /\ adm[t] \in {"reserved", "releasing"}
    /\ adm' = [adm EXCEPT ![t] = "out"]
    /\ UNCHANGED <<pending, aged, billed, cost, live, task, drop, run, settled>>

\* cancelQueuedTurn or absorbQueuedTasks deletes the row, and owes the release.
Remove(t) ==
    /\ task[t] = "queued"
    /\ task' = [task EXCEPT ![t] = "deleted"]
    /\ drop' = [drop EXCEPT ![t] = "owed"]
    /\ UNCHANGED <<pending, aged, billed, cost, live, adm, run, settled>>

\* The release, or the process dying before it.
RemoverReleases(t) ==
    /\ drop[t] = "owed"
    /\ ReleaseHold(t)
    /\ drop' = [drop EXCEPT ![t] = "none"]
    /\ UNCHANGED <<aged, billed, cost, live, task, adm, run, settled>>

-----------------------------------------------------------------------------
(* The runner.                                                             *)

Goes(t, from, to) == run[t] = from /\ run' = [run EXCEPT ![t] = to]

Claim(t) ==
    /\ task[t] = "queued"
    /\ Goes(t, "none", "streaming")
    /\ task' = [task EXCEPT ![t] = "running"]
    /\ UNCHANGED <<pending, aged, billed, cost, live, adm, drop, settled>>

\* A step of the attempt ends: the provider has charged for tokens.
Spend(t, c) ==
    /\ run[t] = "streaming" /\ ~live[t]
    /\ cost' = [cost EXCEPT ![t] = IF @ = 0 THEN c ELSE @]
    /\ live' = [live EXCEPT ![t] = TRUE]
    /\ UNCHANGED <<pending, aged, billed, task, adm, drop, run, settled>>

\* A capability, context or stall retry starts over: foldDiscarded banks the charged
\* tokens and clears liveUsage.
Discard(t) ==
    /\ run[t] = "streaming" /\ live[t]
    /\ live' = [live EXCEPT ![t] = FALSE]
    /\ UNCHANGED <<pending, aged, billed, cost, task, adm, drop, run, settled>>

\* The stream is over.  usageMeta is the last attempt's: without it nothing is settled.
StreamEnds(t) ==
    /\ live[t] \/ cost[t] = 0 \/ QuietDiscard
    /\ IF live[t] THEN Goes(t, "streaming", "settling") ELSE Goes(t, "streaming", "commit")
    /\ UNCHANGED <<pending, aged, billed, cost, live, task, adm, drop, settled>>

SettleSpend(t) ==
    /\ Goes(t, "settling", "commit")
    /\ ReconcileUsage(t)
    /\ settled' = [settled EXCEPT ![t] = TRUE]
    /\ UNCHANGED <<aged, cost, live, task, adm, drop>>

\* The stream, or anything in the set-up before it, throws.
StreamThrows(t) ==
    /\ Goes(t, "streaming", "failing")
    /\ UNCHANGED <<pending, aged, billed, cost, live, task, adm, drop, settled>>

\* Mutant: a status no other part knows.
EndedOtherwise(t) == task' = [task EXCEPT ![t] = "settled"]

Ended(t) == task' = [task EXCEPT ![t] = "ended"]

\* commitTurnOutcome on the success path: ours, not ours, or a throw that may
\* have committed all the same.
Commit(t) ==
    /\ \/ Goes(t, "commit", "tail") /\ task[t] = "running" /\ Ended(t)
       \/ Goes(t, "commit", "finally") /\ task[t] # "running" /\ UNCHANGED task
       \/ Goes(t, "commit", "failing") /\ (UNCHANGED task \/ (task[t] = "running" /\ Ended(t)))
    /\ UNCHANGED <<pending, aged, billed, cost, live, adm, drop, settled>>

\* What follows an owned outcome: publishing it may throw into the catch block.
Tail(t) ==
    /\ Goes(t, "tail", "finally") \/ Goes(t, "tail", "failing")
    /\ UNCHANGED <<pending, aged, billed, cost, live, task, adm, drop, settled>>

\* The catch block's commit.  A throw is taken as ours; not ours returns at once.
FailCommit(t) ==
    /\ \/ Goes(t, "failing", "billing") /\ task[t] = "running" /\ (Ended(t) \/ UNCHANGED task)
       \/ Goes(t, "failing", "billing") /\ task[t] # "running" /\ UNCHANGED task
       \/ Goes(t, "failing", "finally") /\ task[t] # "running" /\ UNCHANGED task
    /\ UNCHANGED <<pending, aged, billed, cost, live, adm, drop, settled>>

\* Mutants: a failed turn is never billed; an already settled one is billed again.
UnbilledNever(t) == FALSE
UnbilledAgain(t) == cost[t] > 0

\* Bill what was spent, by any attempt, unless the success path already has.
Unbilled(t) == ~settled[t] /\ cost[t] > 0

FailBill(t) ==
    /\ Goes(t, "billing", "finally")
    /\ IF Unbilled(t) THEN ReconcileUsage(t) ELSE UNCHANGED <<pending, billed>>
    /\ UNCHANGED <<aged, cost, live, task, adm, drop, settled>>

Finally(t) ==
    /\ Goes(t, "finally", "done")
    /\ ReleaseHold(t)
    /\ UNCHANGED <<aged, billed, cost, live, task, adm, drop, settled>>

Crash(t) ==
    /\ run[t] \notin {"none", "done", "dead"}
    /\ run' = [run EXCEPT ![t] = "dead"]
    /\ UNCHANGED <<pending, aged, billed, cost, live, task, adm, drop, settled>>

-----------------------------------------------------------------------------
(* reconcileZombies.                                                       *)

\* A turn whose lease ran out is failed and its hold deleted, in one statement.
Dead(t) == task[t] = "running" /\ (run[t] \in {"dead", "done"} \/ LeaseLoss)

\* swept_holds: the hold of a turn that is over.
Stale(t) == task[t] = "ended" /\ (run[t] = "billing" => SweepBeforeBill)

\* Mutants: no age bound; no sweep of holds without a task.
OrphanYoung(t) == task[t] \in {"absent", "deleted"}
OrphanNever(t) == FALSE

\* orphan_holds: an old hold with no task row.
Orphan(t) == task[t] \in {"absent", "deleted"} /\ aged[t]

Swept(t) == Dead(t) \/ Stale(t) \/ Orphan(t)

Sweep ==
    /\ \E t \in Turns : Dead(t) \/ (pending[t] /\ Swept(t))
    /\ task' = [t \in Turns |-> IF Dead(t) THEN "ended" ELSE task[t]]
    /\ pending' = [t \in Turns |-> pending[t] /\ ~Swept(t)]
    /\ UNCHANGED <<aged, billed, cost, live, adm, drop, run, settled>>

\* An hour passes.  Every admission ends well inside it.
Age(t) ==
    /\ pending[t] /\ ~aged[t]
    /\ adm[t] = "out"
    /\ aged' = [aged EXCEPT ![t] = TRUE]
    /\ UNCHANGED <<pending, billed, cost, live, task, adm, drop, run, settled>>

-----------------------------------------------------------------------------
RunStep(t) ==
    \/ StreamEnds(t) \/ SettleSpend(t) \/ StreamThrows(t)
    \/ Commit(t) \/ Tail(t) \/ FailCommit(t) \/ FailBill(t) \/ Finally(t)

AdmissionStep(t) == HandOff(t) \/ NotHanded(t) \/ AdmissionReleases(t) \/ AdmissionDies(t)

Next ==
    \/ Sweep
    \/ \E t \in Turns :
         \/ Reserve(t) \/ AdmissionStep(t) \/ Remove(t) \/ RemoverReleases(t)
         \/ Claim(t) \/ RunStep(t) \/ Discard(t) \/ Crash(t) \/ Age(t)
         \/ \E c \in Costs : Spend(t, c)

Spec == Init /\ [][Next]_vars

\* Requests and runs end (completed or dead), queued turns are claimed or removed
\* (TaskQueue!QueuedServed), time passes and sweeps are periodic.
FairSpec ==
    /\ Spec
    /\ WF_vars(Sweep)
    /\ \A t \in Turns :
         /\ WF_vars(AdmissionStep(t)) /\ WF_vars(Claim(t) \/ Remove(t))
         /\ WF_vars(RunStep(t) \/ Crash(t)) /\ WF_vars(Age(t))

-----------------------------------------------------------------------------
(* Properties.                                                             *)

\* No turn's spend is recorded twice, although two paths of the runner settle it,
\* either may follow the other, and the hold may be gone by then.
BilledOnce == \A t \in Turns : billed[t] <= 1

\* A turn whose run came to its end has its real spend in the ledger, whoever owned
\* the outcome: only a killed process loses it.
SpendBilled == \A t \in Turns : run[t] = "done" /\ cost[t] > 0 => billed[t] = 1

\* A live turn keeps its hold until it settles: no admission's release, remover or
\* sweep takes the reservation of a turn that is still to spend it.
HoldCoversTurn ==
    \A t \in Turns :
        task[t] \in {"queued", "running"} /\ run[t] \in {"none", "streaming", "settling"}
            => pending[t]

\* Concurrent turns reserve against each other: as long as none costs more than its
\* estimate, spend and holds together stay below the cap.
WithinCap == Committed + Reserved < Cap

\* No hold is leaked for good, wherever a process died or a release failed.
HoldReleased == \A t \in Turns : pending[t] ~> ~pending[t]
=============================================================================
