----------------------------- MODULE TurnOutcome -----------------------------
(***************************************************************************)
(* How one turn ends.  Four writers share its task row and its reply row:  *)
(* the runner's snapshots (keyed by message id, not guarded by the task),  *)
(* the runner's final transaction (compare-and-set on the task), the zombie*)
(* reaper, and the person who deletes the reply.  Two of them announce the *)
(* outcome.  lib/tasks/runner.ts and lib/tasks/queue.ts.  Names that       *)
(* TaskQueue also has are told apart, so that proofs can use both modules. *)
(***************************************************************************)
CONSTANT DbOutage   \* may the database fail a commit, or lose its answer?

ASSUME OutcomeAssumption == DbOutage \in BOOLEAN

VARIABLES
    task,       \* tasks.status
    turnLease,  \* "live", "lapsed", or "reapable" once the margin has passed too
    cancelReq,  \* tasks.cancel_requested
    row,        \* the reply row: its metadata.status, or that there is none
    pc,         \* where runAgentTask is
    leaseLost,  \* the run's own flag
    cut,        \* why its AbortController fired, if not for the lease
    saving,     \* a snapshot UPDATE between its leaseLost check and its effect
    verdict,    \* what the run is about to commit: a status for the task, one for the row
    owes,       \* the reaper failed this turn and has not told anyone yet
    said        \* statuses announced by task:finish

turnVars == <<task, turnLease, cancelReq, row, pc, leaseLost, cut, saving, verdict, owes, said>>

Outcomes == {"completed", "failed", "cancelled"}
RowEnd == Outcomes \cup {"suspended"}
NoRow == {"none", "gone"}

\* A turn that ends on a card leaves its row suspended, whatever its own status.
Verdicts == {v \in [task: Outcomes, row: RowEnd] : v.row \in {v.task, "suspended"}}
Plain(s) == [task |-> s, row |-> s]

TurnTypeOK ==
    /\ task \in {"running"} \cup Outcomes
    /\ turnLease \in {"live", "lapsed", "reapable"}
    /\ cancelReq \in BOOLEAN
    /\ row \in NoRow \cup {"waiting", "running"} \cup RowEnd
    /\ pc \in {"prep", "streaming", "decided", "owned", "failing", "reporting", "done"}
    /\ leaseLost \in BOOLEAN
    /\ cut \in {"none", "cancel", "deadline"}
    /\ saving \in BOOLEAN
    /\ verdict \in Verdicts
    /\ owes \in BOOLEAN
    /\ said \in SUBSET Outcomes

\* A fresh turn has no row yet; a continuation finishes one that waited on an
\* approval or an answer.
TurnInit ==
    /\ task = "running" /\ turnLease = "live" /\ cancelReq = FALSE
    /\ row \in {"none", "waiting"}
    /\ pc = "prep" /\ leaseLost = FALSE /\ cut = "none" /\ saving = FALSE
    /\ verdict = Plain("failed") /\ owes = FALSE /\ said = {}

-----------------------------------------------------------------------------
(* The environment.                                                        *)

LeaseElapses ==
    /\ turnLease # "reapable"
    /\ turnLease' = IF turnLease = "live" THEN "lapsed" ELSE "reapable"
    /\ UNCHANGED <<task, cancelReq, row, pc, leaseLost, cut, saving, verdict, owes, said>>

RequestCancel ==
    /\ ~cancelReq
    /\ cancelReq' = TRUE
    /\ UNCHANGED <<task, turnLease, row, pc, leaseLost, cut, saving, verdict, owes, said>>

\* The reply, or the branch that holds it, is deleted while the turn runs.
DeleteReply ==
    /\ row \notin NoRow
    /\ row' = "gone"
    /\ UNCHANGED <<task, turnLease, cancelReq, pc, leaseLost, cut, saving, verdict, owes, said>>

\* A snapshot already sent may still land.
Crash ==
    /\ pc # "done"
    /\ pc' = "done"
    /\ UNCHANGED saving \/ saving' = FALSE
    /\ UNCHANGED <<task, turnLease, cancelReq, row, leaseLost, cut, verdict, owes, said>>

-----------------------------------------------------------------------------
(* The run, up to the end of its stream.                                   *)

\* The cancelled-while-queued path: the task and a waiting row settle together.
CancelledEarly ==
    /\ pc = "prep" /\ cancelReq
    /\ IF task = "running"
         THEN /\ task' = "cancelled"
              /\ row' = IF row = "waiting" THEN "cancelled" ELSE row
              /\ verdict' = Plain("cancelled")
              /\ pc' = "owned"
         ELSE /\ pc' = "done"
              /\ UNCHANGED <<task, row, verdict>>
    /\ UNCHANGED <<turnLease, cancelReq, leaseLost, cut, saving, owes, said>>

\* A fresh turn inserts its reply as running; a continuation finds its own.
OpenReply ==
    /\ pc = "prep"
    /\ row' = IF row = "none" THEN "running" ELSE row
    /\ pc' = "streaming"
    /\ UNCHANGED <<task, turnLease, cancelReq, leaseLost, cut, saving, verdict, owes, said>>

\* The monitor's tick, and the check at each step's end.
MonitorTick ==
    /\ pc # "done"
    /\ IF task = "running" /\ turnLease = "live"
         THEN /\ cut' = IF cancelReq /\ cut = "none" THEN "cancel" ELSE cut
              /\ UNCHANGED leaseLost
         ELSE /\ leaseLost' = TRUE
              /\ UNCHANGED cut
    /\ UNCHANGED <<task, turnLease, cancelReq, row, pc, saving, verdict, owes, said>>

Deadline ==
    /\ pc \in {"prep", "streaming"}
    /\ cut' = "deadline"
    /\ UNCHANGED <<task, turnLease, cancelReq, row, pc, leaseLost, saving, verdict, owes, said>>

SaveBegin ==
    /\ pc = "streaming" /\ ~leaseLost /\ ~saving
    /\ saving' = TRUE
    /\ UNCHANGED <<task, turnLease, cancelReq, row, pc, leaseLost, cut, verdict, owes, said>>

\* UPDATE messages SET metadata = {status: running, ...} WHERE id: no guard.
SaveEnd ==
    /\ saving
    /\ saving' = FALSE
    /\ row' = IF row \in NoRow THEN row ELSE "running"
    /\ UNCHANGED <<task, turnLease, cancelReq, pc, leaseLost, cut, verdict, owes, said>>

\* Mutant: the snapshot in flight is not awaited.
FlushNotAwaited == TRUE

\* consume()'s finally drops what is still owed and awaits the flush in flight.
FlushDrained == ~saving

\* The stream is over: the status is computed from the flags as they are now.
StreamStatuses ==
    IF cut = "deadline" \/ leaseLost THEN {"failed"}
    ELSE IF cut = "cancel" THEN {"cancelled"}
    ELSE {"completed", "failed"}

StreamEnd ==
    /\ pc = "streaming" /\ FlushDrained
    /\ verdict' \in {v \in Verdicts : v.task \in StreamStatuses}
    /\ pc' = "decided"
    /\ UNCHANGED <<task, turnLease, cancelReq, row, leaseLost, cut, saving, owes, said>>

\* An exception before or during the stream; an AbortError reads as a cancel unless
\* the deadline or the lease caused it.
Throw ==
    /\ pc \in {"prep", "streaming"} /\ FlushDrained
    /\ \/ verdict' = Plain("failed")
       \/ verdict' = Plain("cancelled") /\ cut # "deadline" /\ ~leaseLost
    /\ pc' = "failing"
    /\ UNCHANGED <<task, turnLease, cancelReq, row, leaseLost, cut, saving, owes, said>>

-----------------------------------------------------------------------------
(* commitTurnOutcome: the task and the row in one transaction.             *)

\* Mutant: the commit has no compare-and-set.
OwnsAlways == TRUE

Owns == task = "running"

\* The reply row is there to update, or is inserted because it never was.
Lands == Owns /\ row # "gone"

\* Mutant: the task takes the row's status.
WriteRowStatus ==
    /\ task' = verdict.row
    /\ row' = verdict.row

WriteOutcome ==
    /\ task' = verdict.task
    /\ row' = verdict.row

CommitOwned(from, to) ==
    /\ pc = from /\ Lands
    /\ WriteOutcome
    /\ pc' = to
    /\ UNCHANGED <<turnLease, cancelReq, leaseLost, cut, saving, verdict, owes, said>>

\* Mutant: the answer is ignored and the success path goes on.
CommitRefusalIgnored(from) ==
    /\ pc = from /\ ~Lands
    /\ pc' = IF from = "decided" THEN "owned" ELSE "done"
    /\ UNCHANGED <<task, turnLease, cancelReq, row, leaseLost, cut, saving, verdict, owes, said>>

\* Someone else settled the turn, or its reply is gone: rolled back.
CommitRefused(from) ==
    /\ pc = from /\ ~Lands
    /\ pc' = "done"
    /\ UNCHANGED <<task, turnLease, cancelReq, row, leaseLost, cut, saving, verdict, owes, said>>

\* The call throws.  The transaction may have rolled back, or committed with
\* only its answer lost.
CommitThrows(from, to) ==
    /\ DbOutage
    /\ pc = from
    /\ \/ UNCHANGED <<task, row>>
       \/ Lands /\ WriteOutcome
    /\ pc' = to
    /\ verdict' = IF from = "decided" THEN Plain("failed") ELSE verdict
    /\ UNCHANGED <<turnLease, cancelReq, leaseLost, cut, saving, owes, said>>

Finish ==
    \/ CommitOwned("decided", "owned")
    \/ CommitRefused("decided")
    \/ CommitThrows("decided", "failing")

\* The catch block; a throw here is reported as if the outcome were ours.
FinishFailed ==
    \/ CommitOwned("failing", "reporting")
    \/ CommitRefused("failing")
    \/ CommitThrows("failing", "reporting")

\* task:finish from the success path.  A NOTIFY that fails throws into the catch
\* block of a turn that is already settled.
Publish ==
    /\ pc = "owned"
    /\ \/ said' = said \cup {verdict.task} /\ pc' = "done" /\ UNCHANGED verdict
       \/ UNCHANGED said /\ pc' = "failing" /\ verdict' = Plain("failed")
    /\ UNCHANGED <<task, turnLease, cancelReq, row, leaseLost, cut, saving, owes>>

\* task:finish from the catch block, errors swallowed; delivery follows.
Report ==
    /\ pc = "reporting"
    /\ said' = said \cup {verdict.task}
    /\ pc' = "done"
    /\ UNCHANGED <<task, turnLease, cancelReq, row, leaseLost, cut, saving, verdict, owes>>

-----------------------------------------------------------------------------
(* reconcileZombies, and worker.ts telling the user about what it reaped.  *)

\* Mutant: only turns with a running reply are reaped.
DeadWithReply == task = "running" /\ turnLease = "reapable" /\ row = "running"

Dead == task = "running" /\ turnLease = "reapable"
\* Mutant: no repair of rows whose task is already terminal.
StrandedIgnored == FALSE

Stranded == task \in {"failed", "cancelled"} /\ row = "running"

\* Mutant: continuations that died before their first snapshot are not reached.
SweepFreshOnly ==
    /\ Dead \/ Stranded
    /\ task' = IF Dead THEN "failed" ELSE task
    /\ row' = IF row = "running" THEN "failed" ELSE row
    /\ owes' = (owes \/ Dead)
    /\ UNCHANGED <<turnLease, cancelReq, pc, leaseLost, cut, saving, verdict, said>>

Sweep ==
    /\ Dead \/ Stranded
    /\ task' = IF Dead THEN "failed" ELSE task
    /\ row' = IF row = "running" \/ (Dead /\ row = "waiting") THEN "failed" ELSE row
    /\ owes' = (owes \/ Dead)
    /\ UNCHANGED <<turnLease, cancelReq, pc, leaseLost, cut, saving, verdict, said>>

\* The event, or the sweeping process dying before it is sent.
SweepPublish ==
    /\ owes
    /\ owes' = FALSE
    /\ said' \in {said, said \cup {"failed"}}
    /\ UNCHANGED <<task, turnLease, cancelReq, row, pc, leaseLost, cut, saving, verdict>>

-----------------------------------------------------------------------------
Begin == CancelledEarly \/ OpenReply
SettleTurn == Finish \/ FinishFailed \/ Publish \/ Report

TurnNext ==
    \/ LeaseElapses \/ RequestCancel \/ DeleteReply \/ Crash
    \/ MonitorTick \/ Deadline \/ SaveBegin \/ Throw
    \/ Begin \/ SaveEnd \/ StreamEnd \/ SettleTurn
    \/ Sweep \/ SweepPublish

TurnSpec == TurnInit /\ [][TurnNext]_turnVars

\* A process that has not crashed goes on, time passes and sweeps are periodic.
\* StreamEnd needs strong fairness only because snapshots disable it for as long
\* as one is in flight: the deadline ends every stream, and its end starts no
\* further snapshot.
FairTurnSpec ==
    /\ TurnSpec
    /\ WF_turnVars(Begin) /\ WF_turnVars(SaveEnd) /\ SF_turnVars(StreamEnd)
    /\ WF_turnVars(SettleTurn) /\ WF_turnVars(LeaseElapses)
    /\ WF_turnVars(Sweep) /\ WF_turnVars(SweepPublish)

-----------------------------------------------------------------------------
(* Properties.                                                             *)

\* A completed task has its finished reply: no snapshot, sweep or retry ever
\* leaves the row of a completed turn running or failed.
CompletedKeepsReply ==
    task = "completed" => row \in {"completed", "suspended", "gone"}

\* A turn announced as completed is completed, and stays so.
SuccessIsReal == "completed" \in said => task = "completed"

\* A turn announced as failed or cancelled never turns out to be completed:
\* "interrupted" does not flip to an answer.
NoFlipToAnswer == said \cap {"failed", "cancelled"} # {} => task # "completed"

\* The implementation of the promise in TurnVerdict: one outcome, and only that
\* outcome announced; when the database does not answer, at worst an unconfirmed
\* failure or cancel besides it.
outcomeBar == IF task = "running" THEN "open" ELSE task
Verdict == INSTANCE TurnVerdict WITH outcome <- outcomeBar, Lossy <- DbOutage
OneVerdict == Verdict!Spec

\* Every turn ends, by its run or by the reaper.
TurnEnds == task = "running" ~> task \in Outcomes

\* No reply spins for ever: a stale snapshot that reopened a reaped row is closed
\* by a later sweep, and a continuation that died before its first snapshot does
\* not leave its card waiting.
SpinnerCleared == <>[](row \notin {"running", "waiting"})
=============================================================================
