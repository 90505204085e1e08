------------------------------ MODULE TaskQueue ------------------------------
(***************************************************************************)
(* The durable turn queue of Capka (lib/tasks/queue.ts) and the worker     *)
(* processes that serve it (lib/tasks/worker.ts).  A task row is one turn  *)
(* of one chat; the rows live in Postgres, and every operation here is one *)
(* SQL statement or transaction.                                           *)
(*                                                                         *)
(* Time is relative: lease[t] is how many ticks remain until               *)
(* lease_expires_at, zero or less once it has passed, so that              *)
(* `lease_expires_at > now()` is lease[t] > 0 and the reaper's             *)
(* `lease_expires_at < now() - margin` is lease[t] < -ReapMargin.          *)
(*                                                                         *)
(* claimNextTask is a single statement, but it does not act on a single    *)
(* instant: under READ COMMITTED it reads every row as of the snapshot     *)
(* taken when it starts, then takes the workspace's advisory lock, then    *)
(* rechecks only the row it locks for update.  ClaimBegin is the snapshot, *)
(* ClaimCommit the lock, the recheck and the update.                       *)
(***************************************************************************)
EXTENDS Integers, FiniteSets

CONSTANTS
    Chats,          \* chat rows
    Projects,       \* the workspaces: a project, or a chat outside any project
    Workspace,      \* [Chats -> Projects]: COALESCE(project_id, chat id)
    Workers,        \* worker processes; a restart is a new one (fresh nanoid)
    MaxTasks,       \* bound: how many task rows are ever inserted
    MaxConcurrency, \* turns one process runs at a time
    LeaseTicks,     \* LEASE_SECONDS in ticks
    ReapMargin,     \* the reaper's margin past expiry, in ticks
    Overlap,        \* may a process start while another still serves the queue?
    NoWorker        \* worker_id of a row nobody claimed

ASSUME QueueAssumption ==
    /\ Workspace \in [Chats -> Projects]
    /\ MaxTasks \in Nat
    /\ MaxConcurrency \in Nat \ {0}
    /\ LeaseTicks \in Nat \ {0}
    /\ ReapMargin \in Nat
    /\ Overlap \in BOOLEAN
    /\ NoWorker \notin Workers

Tasks == 1..MaxTasks          \* ids in created_at order
Terminal == {"completed", "failed", "cancelled"}
\* "absent" is a row not inserted yet, "deleted" one that was removed.
Statuses == {"absent", "queued", "running", "deleted"} \cup Terminal
Remaining == (-(ReapMargin + 1))..LeaseTicks

VARIABLES
    status,     \* tasks.status
    chat,       \* tasks.chat_id
    owner,      \* tasks.worker_id
    lease,      \* ticks until tasks.lease_expires_at
    attempts,   \* tasks.attempts
    proc,       \* per process: not started, serving, draining or gone
    claim,      \* per process: the claim statement in flight
    runs        \* per process: the tasks whose runAgentTask is executing

rows == <<status, chat, owner, lease, attempts>>
vars == <<rows, proc, claim, runs>>

\* The statement's snapshot: the rows running under a live lease, the rows
\* queued, and what is left of the lease it will grant.
ClaimState == [open: BOOLEAN, live: SUBSET Tasks, queued: SUBSET Tasks, lease: Remaining]
NoClaim == [open |-> FALSE, live |-> {}, queued |-> {}, lease |-> 0]

Live(t) == status[t] = "running" /\ lease[t] > 0
SameWorkspace(t, u) == Workspace[chat[t]] = Workspace[chat[u]]
Serving(w) == proc[w] \in {"up", "draining"}
Executing(w, t) == Serving(w) /\ t \in runs[w]

TypeOK ==
    /\ status \in [Tasks -> Statuses]
    /\ chat \in [Tasks -> Chats]
    /\ owner \in [Tasks -> Workers \cup {NoWorker}]
    /\ lease \in [Tasks -> Remaining]
    /\ attempts \in [Tasks -> Nat]
    /\ proc \in [Workers -> {"off", "up", "draining", "down"}]
    /\ claim \in [Workers -> ClaimState]
    /\ runs \in [Workers -> SUBSET Tasks]

Init ==
    /\ status = [t \in Tasks |-> "absent"]
    /\ chat \in [Tasks -> Chats]       \* fixed by the insert; free until then
    /\ owner = [t \in Tasks |-> NoWorker]
    /\ lease = [t \in Tasks |-> 0]
    /\ attempts = [t \in Tasks |-> 0]
    /\ proc = [w \in Workers |-> "off"]
    /\ claim = [w \in Workers |-> NoClaim]
    /\ runs = [w \in Workers |-> {}]

-----------------------------------------------------------------------------
(* Admission and cancellation: any web, Telegram or automation request.    *)

\* The slot uq_tasks_one_queued_per_chat guards.
SlotFree(c) == \A u \in Tasks : status[u] = "queued" => chat[u] # c

\* enqueueTask inserting its row.  When the slot is taken the call folds into
\* the incumbent, and when it keeps losing the race for the slot it throws:
\* neither changes a row, so neither is a step here.
Enqueue(t) ==
    /\ status[t] = "absent"
    /\ \A u \in Tasks : u < t => status[u] # "absent"
    /\ SlotFree(chat[t])
    /\ status' = [status EXCEPT ![t] = "queued"]
    /\ UNCHANGED <<chat, owner, lease, attempts, proc, claim, runs>>

\* cancelQueuedTurn on a row still queued: removed outright.
CancelQueued(t) ==
    /\ status[t] = "queued"
    /\ status' = [status EXCEPT ![t] = "deleted"]
    /\ UNCHANGED <<chat, owner, lease, attempts, proc, claim, runs>>

-----------------------------------------------------------------------------
(* tick(): claim while a slot is free.  `ticking` keeps one claim in flight *)
(* per process.                                                            *)

ClaimBegin(w) ==
    /\ proc[w] = "up"
    /\ ~claim[w].open
    /\ Cardinality(runs[w]) < MaxConcurrency
    /\ \E t \in Tasks : status[t] = "queued"
    /\ claim' = [claim EXCEPT ![w] =
          [open |-> TRUE, live |-> {t \in Tasks : Live(t)},
           queued |-> {t \in Tasks : status[t] = "queued"}, lease |-> LeaseTicks]]
    /\ UNCHANGED <<rows, proc, runs>>

\* Mutants of Candidate: the row is not rechecked; only the chat is serialised.
CandidateUnchecked(w, t) ==
    /\ t \in claim[w].queued
    /\ \A r \in claim[w].live : ~SameWorkspace(r, t)
CandidateByChat(w, t) ==
    /\ t \in claim[w].queued
    /\ status[t] = "queued"
    /\ \A r \in claim[w].live : chat[r] # chat[t]

\* A candidate is queued in the snapshot and in its current version (the row
\* FOR UPDATE rechecks), and the snapshot shows no live turn in its workspace.
Candidate(w, t) ==
    /\ t \in claim[w].queued
    /\ status[t] = "queued"
    /\ \A r \in claim[w].live : ~SameWorkspace(r, t)

\* Another claim in flight may hold a workspace's advisory lock or a row lock,
\* and pg_try_advisory_xact_lock and SKIP LOCKED then pass that row over.
Contended(w) == \E v \in Workers \ {w} : claim[v].open

ClaimCommit(w, t) ==
    /\ Serving(w)
    /\ claim[w].open
    /\ Candidate(w, t)
    /\ \A u \in Tasks : u < t /\ Candidate(w, u) => Contended(w)
    /\ status' = [status EXCEPT ![t] = "running"]
    /\ owner' = [owner EXCEPT ![t] = w]
    /\ lease' = [lease EXCEPT ![t] = claim[w].lease]
    /\ attempts' = [attempts EXCEPT ![t] = @ + 1]
    /\ claim' = [claim EXCEPT ![w] = NoClaim]
    /\ runs' = [runs EXCEPT ![w] = @ \cup {t}]
    /\ UNCHANGED <<chat, proc>>

\* The statement returns no row, or the query fails: tick() stops looping.
ClaimNothing(w) ==
    /\ Serving(w)
    /\ claim[w].open
    /\ Contended(w) \/ \A t \in Tasks : ~Candidate(w, t)
    /\ claim' = [claim EXCEPT ![w] = NoClaim]
    /\ UNCHANGED <<rows, proc, runs>>

-----------------------------------------------------------------------------
(* The parts of runAgentTask that touch the queue.                         *)

\* absorbQueuedTasks: a turn about to answer removes the chat's queued rows.
Absorb(w, t) ==
    /\ Executing(w, t)
    /\ status' = [u \in Tasks |->
          IF status[u] = "queued" /\ chat[u] = chat[t] THEN "deleted" ELSE status[u]]
    /\ status' # status
    /\ UNCHANGED <<chat, owner, lease, attempts, proc, claim, runs>>

\* Mutant: a lapsed lease can be renewed.
RenewableLapsed(w, t) == status[t] = "running" /\ owner[t] = w

\* What the heartbeat statement requires of the row before it renews it.
Renewable(w, t) ==
    /\ status[t] = "running"
    /\ owner[t] = w
    /\ lease[t] > 0

\* The monitor's 5 s tick.  A refused renewal only tells the run to stop, which
\* may come too late; what the flags make of a run is TurnOutcome's subject.
Heartbeat(w, t) ==
    /\ Executing(w, t)
    /\ Renewable(w, t)
    /\ lease' = [lease EXCEPT ![t] = LeaseTicks]
    /\ UNCHANGED <<status, chat, owner, attempts, proc, claim, runs>>

\* Mutant: ownership without the status check.
OwnableSettled(w, t) == owner[t] = w

\* The compare-and-set of finalizeTask and commitTurnOutcome.
Ownable(w, t) == status[t] \notin Terminal /\ status[t] # "deleted" /\ owner[t] = w

\* Mutant: inFlight is not decremented.
EndRunKeepsSlot(w, t) == UNCHANGED runs

\* The finally blocks of runAgentTask and tick: inFlight-- frees the slot.
EndRun(w, t) == runs' = [runs EXCEPT ![w] = @ \ {t}]

\* The run ends and settles its row if it still owns it; otherwise it stands
\* down.
Settle(w, t, s) ==
    /\ Executing(w, t)
    /\ status' = [status EXCEPT ![t] = IF Ownable(w, t) THEN s ELSE @]
    /\ EndRun(w, t)
    /\ UNCHANGED <<chat, owner, lease, attempts, proc, claim>>

\* The run ends with its row unsettled: the transaction rolled back (its reply
\* row is gone) or the database refused it.  The row waits for the reaper.
Abandon(w, t) ==
    /\ Executing(w, t)
    /\ EndRun(w, t)
    /\ UNCHANGED <<rows, proc, claim>>

\* Mutant: only the rows of processes that still serve are looked at.
ReapableServed(t) ==
    status[t] = "running" /\ lease[t] < -ReapMargin /\ \E w \in Workers : owner[t] = w /\ Serving(w)

\* reconcileZombies, as far as the task rows go; its timer stops on SIGTERM.
Reapable(t) == status[t] = "running" /\ lease[t] < -ReapMargin

Reap(w) ==
    /\ proc[w] = "up"
    /\ \E t \in Tasks : Reapable(t)
    /\ status' = [t \in Tasks |-> IF Reapable(t) THEN "failed" ELSE status[t]]
    /\ UNCHANGED <<chat, owner, lease, attempts, proc, claim, runs>>

-----------------------------------------------------------------------------
(* Process lifecycle.  Bound: some process is always left to serve.        *)

OthersLeft(w) == \E v \in Workers \ {w} : proc[v] \in {"off", "up"}

Start(w) ==
    /\ proc[w] = "off"
    /\ Overlap \/ \A v \in Workers : ~Serving(v)
    /\ proc' = [proc EXCEPT ![w] = "up"]
    /\ UNCHANGED <<rows, claim, runs>>

\* SIGTERM: `draining` stops new claims; a claim already sent still lands.
Drain(w) ==
    /\ proc[w] = "up"
    /\ OthersLeft(w)
    /\ proc' = [proc EXCEPT ![w] = "draining"]
    /\ UNCHANGED <<rows, claim, runs>>

\* The process ends, drained, past its shutdown budget, or killed.  What it was
\* running stays `running` in the database.
Stop(w) ==
    /\ Serving(w)
    /\ OthersLeft(w)
    /\ proc' = [proc EXCEPT ![w] = "down"]
    /\ claim' = [claim EXCEPT ![w] = NoClaim]
    /\ runs' = [runs EXCEPT ![w] = {}]
    /\ UNCHANGED rows

\* Mutant: expiry is not bounded by the reaper's margin.
ElapseUnbounded(n) == n - 1

Elapse(n) == IF n > -(ReapMargin + 1) THEN n - 1 ELSE n

\* now() is fixed when the claim starts, so the lease it will write ages with it.
Aged(cl) == [open |-> cl.open, live |-> cl.live, queued |-> cl.queued, lease |-> Elapse(cl.lease)]

Tick ==
    /\ lease' = [t \in Tasks |-> IF status[t] = "running" THEN Elapse(lease[t]) ELSE lease[t]]
    /\ claim' = [w \in Workers |-> IF claim[w].open THEN Aged(claim[w]) ELSE claim[w]]
    /\ <<lease, claim>>' # <<lease, claim>>
    /\ UNCHANGED <<status, chat, owner, attempts, proc, runs>>

-----------------------------------------------------------------------------
WorkerStep(w) ==
    \/ ClaimBegin(w)
    \/ ClaimNothing(w)
    \/ Reap(w)
    \/ Start(w)
    \/ Drain(w)
    \/ Stop(w)
    \/ \E t \in Tasks :
         \/ ClaimCommit(w, t)
         \/ Absorb(w, t)
         \/ Heartbeat(w, t)
         \/ Abandon(w, t)
         \/ \E s \in Terminal : Settle(w, t, s)

RequestStep(t) == Enqueue(t) \/ CancelQueued(t)

Next ==
    \/ Tick
    \/ \E t \in Tasks : RequestStep(t)
    \/ \E w \in Workers : WorkerStep(w)

\* What the timers and the platform guarantee: time passes, a stopped process is
\* replaced, a process that serves keeps polling and reaping, a claim statement
\* returns, and a run ends (its deadline aborts it, and an aborted run settles).
\* Claimants may pass one row over because another holds its locks, but not all of
\* them for ever: whoever holds the locks takes the row (the strong fairness).
\* Nothing is assumed of users, of heartbeats, or of a draining process.
Fairness ==
    /\ WF_vars(Tick)
    /\ SF_vars(\E w \in Workers, t \in Tasks : ClaimCommit(w, t))
    /\ \A w \in Workers :
         /\ WF_vars(Start(w))
         /\ WF_vars(ClaimBegin(w))
         /\ WF_vars(ClaimNothing(w) \/ \E t \in Tasks : ClaimCommit(w, t))
         /\ WF_vars(Reap(w))
         /\ WF_vars(proc[w] = "draining" /\ Stop(w))
         /\ \A t \in Tasks :
              WF_vars(Abandon(w, t) \/ \E s \in Terminal : Settle(w, t, s))

Spec == Init /\ [][Next]_vars
FairSpec == Spec /\ Fairness

-----------------------------------------------------------------------------
(* Properties.                                                             *)

\* One chat never has two turns running under live leases, however the claims
\* of several processes, their stale snapshots, lapsed leases and reaping
\* interleave.  claimNextTask never looks at the chat; the guarantee comes from
\* the one-queued-row index together with heartbeat's refusal of a lapsed lease.
ChatExclusion ==
    \A t, u \in Tasks : t # u /\ Live(t) /\ Live(u) => chat[t] # chat[u]

\* No two turns run under live leases in one workspace: what claimNextTask says
\* its advisory lock and NOT EXISTS clause ensure.
WorkspaceExclusion ==
    \A t, u \in Tasks : t # u /\ Live(t) /\ Live(u) => ~SameWorkspace(t, u)

\* A turn is handed to a worker at most once: two claims that both saw the row
\* queued, a reaped row and a restarted process never lead to a second run.
ClaimedOnce == \A t \in Tasks : attempts[t] <= 1

\* The first terminal status wins, and a removed row stays removed: the reaper,
\* the runner's settlement, a cancel, an absorb and a late claim race for a row,
\* and whoever is second changes nothing.
FirstOutcomeWins ==
    [][\A t \in Tasks : status[t] \in Terminal \cup {"deleted"} => status'[t] = status[t]]_vars

\* Every executing run belongs to the process its row names, and no run outlives
\* the claim that created it: a row is executed by one process only.
OneExecutor ==
    \A w \in Workers : \A t \in runs[w] :
        owner[t] = w /\ status[t] \in {"running"} \cup Terminal

\* A queued turn does not wait for ever: it is claimed, cancelled or absorbed,
\* although the workspace ahead of it may be held by a process that died.
QueuedServed == \A t \in Tasks : status[t] = "queued" ~> status[t] # "queued"

\* A running turn is settled by its runner or failed by the reaper, whatever
\* crashes, lost leases or unsettled ends it meets.
RunningSettles == \A t \in Tasks : status[t] = "running" ~> status[t] \in Terminal

=============================================================================
