----------------------------- MODULE Automations -----------------------------
(***************************************************************************)
(* One automation: its row, the scheduler ticks of several replicas, the   *)
(* webhook and manual entry points, the firings they start, and the runs   *)
(* those buy.  lib/automations/scheduler.ts, lib/automations/runs.ts,      *)
(* app/api/hooks/automations, app/api/automations and the runner's outcome *)
(* accounting.                                                             *)
(*                                                                         *)
(* A firing reads, calls a model, and only then opens the transaction that *)
(* locks the row; several may be under way at once.  updated_at matters    *)
(* only for the scheduler's compare-and-set, so it is represented by       *)
(* `stamp`: the firing whose tick wrote the row last, if nothing has       *)
(* written it since.                                                       *)
(***************************************************************************)
EXTENDS Integers, FiniteSets

CONSTANTS
    Firings,        \* calls of fireAutomation that may be under way at once
    Keys,           \* webhook Idempotency-Keys
    MaxRuns,        \* bound: task rows ever created
    Horizon,        \* bound: the last instant
    PerDay,         \* instants in a day
    Cap,            \* the day's ceiling on unattended runs
    MaxFailures,    \* MAX_CONSECUTIVE_FAILURES
    Midnight,       \* may midnight fall while a firing is under way?
    LostAnswers,    \* entry points whose transaction may commit and lose its answer
    NoFiring,
    NoKey

ASSUME AutomationAssumption ==
    /\ MaxRuns \in Nat /\ Horizon \in Nat
    /\ PerDay \in Nat \ {0} /\ Cap \in Nat \ {0} /\ MaxFailures \in Nat \ {0}
    /\ Midnight \in BOOLEAN
    /\ LostAnswers \subseteq {"tick", "hook", "manual"}
    /\ NoFiring \notin Firings
    /\ (Keys \cup {NoKey}) \cap (0..(Horizon + 2)) = {} /\ NoKey \notin Keys

Runs == 1..MaxRuns
Instants == 0..Horizon
Null == Horizon + 2             \* a next_run_at that is NULL: later than any instant
Day(n) == n \div PerDay
Days == 0..Day(Horizon)

VARIABLES
    now,
    kind,       \* the trigger's kind
    single,     \* thread_mode
    row,        \* the automations row
    stamp,      \* the firing whose tickTs is still the row's updated_at
    fire,       \* the firings under way
    task,       \* the runs bought, by their task's status
    claimed,    \* automation_webhook_deliveries
    tripped,    \* the failure streak's disable is decided and not yet written
    off,        \* history: a person or the platform switched it off, nobody on again
    bought,     \* history: runs per occurrence and per key
    dayRuns     \* history: unattended runs per day

vars == <<now, kind, single, row, stamp, fire, task, claimed, tripped, off, bought, dayRuns>>
history == <<off, bought, dayRuns>>

Row == [exists: BOOLEAN, enabled: BOOLEAN, due: 0..Null, last: 0..MaxRuns,
        day: Days, runs: 0..MaxRuns, fails: 0..MaxFailures]
Gone == [exists |-> FALSE, enabled |-> FALSE, due |-> Null, last |-> 0, day |-> 0, runs |-> 0, fails |-> 0]
Idle == [pc |-> "idle", by |-> "tick", occ |-> 0, today |-> 0, last |-> 0, key |-> NoKey]
Firing == [pc: {"idle", "start", "commit", "threw"}, by: {"tick", "hook", "manual"},
           occ: 0..Null, today: Days, last: 0..MaxRuns, key: Keys \cup {NoKey}]

TypeOK ==
    /\ now \in Instants
    /\ kind \in {"schedule", "once", "webhook"}
    /\ single \in BOOLEAN /\ tripped \in BOOLEAN /\ off \in BOOLEAN
    /\ row \in Row
    /\ stamp \in Firings \cup {NoFiring}
    /\ fire \in [Firings -> Firing]
    /\ task \in [Runs -> {"none", "queued", "running", "completed", "awaiting", "resumed", "over"}]
    /\ claimed \subseteq Keys
    /\ bought \in [(1..Null) \cup Keys -> Nat]
    /\ dayRuns \in [Days -> Nat]

-----------------------------------------------------------------------------
(* schedule.ts                                                             *)

OnceAt == 1

\* nextOccurrenceAfter: strictly after, or none.
NextOccurrence(n) ==
    CASE kind = "schedule" -> n + 1
      [] kind = "once"     -> IF OnceAt > n THEN OnceAt ELSE Null
      [] kind = "webhook"  -> Null

Init ==
    /\ now = 0
    /\ kind \in {"schedule", "once", "webhook"}
    /\ single \in BOOLEAN
    /\ row = [exists |-> TRUE, enabled |-> TRUE, due |-> NextOccurrence(0),
              last |-> 0, day |-> 0, runs |-> 0, fails |-> 0]
    /\ stamp = NoFiring
    /\ fire = [f \in Firings |-> Idle]
    /\ task = [t \in Runs |-> "none"]
    /\ claimed = {}
    /\ tripped = FALSE /\ off = FALSE
    /\ bought = [x \in (1..Null) \cup Keys |-> 0]
    /\ dayRuns = [d \in Days |-> 0]

\* An UPDATE of the row, if it is there.  Each but the tick's claim moves updated_at
\* past the tick's.
Write(r) == row' = (IF row.exists THEN r ELSE row) /\ stamp' = NoFiring

Steps(f, to) == fire' = [fire EXCEPT ![f].pc = to]
Ends(f) == fire' = [fire EXCEPT ![f] = Idle]
Starts(f, by, occ, key) ==
    /\ fire[f].pc = "idle"
    /\ fire' = [fire EXCEPT ![f] =
          [pc |-> "start", by |-> by, occ |-> occ, today |-> Day(now), last |-> row.last, key |-> key]]

-----------------------------------------------------------------------------
(* Time, and the people around the automation.                             *)

TimePasses ==
    /\ now < Horizon
    /\ Day(now + 1) # Day(now) /\ ~Midnight => \A f \in Firings : fire[f].pc = "idle"
    /\ now' = now + 1
    /\ UNCHANGED <<kind, single, row, stamp, fire, task, claimed, tripped, history>>

\* PATCH with enabled = false.
Pause ==
    /\ row.exists /\ row.enabled
    /\ Write([row EXCEPT !.enabled = FALSE])
    /\ off' = TRUE
    /\ UNCHANGED <<now, kind, single, fire, task, claimed, tripped, bought, dayRuns>>

\* PATCH with enabled = true: the horizon is recomputed, the streak cleared.
Resume ==
    /\ row.exists
    /\ Write([row EXCEPT !.enabled = TRUE, !.due = NextOccurrence(now), !.fails = 0])
    /\ off' = FALSE
    /\ UNCHANGED <<now, kind, single, fire, task, claimed, tripped, bought, dayRuns>>

Delete ==
    /\ row.exists
    /\ row' = Gone /\ stamp' = NoFiring
    /\ UNCHANGED <<now, kind, single, fire, task, claimed, tripped, history>>

-----------------------------------------------------------------------------
(* The three entry points.                                                 *)

Due == row.exists /\ row.enabled /\ row.due <= now

\* schedulerTick's claim: the due time moves forward in the same transaction.
Tick(f) ==
    /\ Due
    /\ Starts(f, "tick", row.due, NoKey)
    /\ row' = [row EXCEPT !.due = NextOccurrence(now), !.enabled = NextOccurrence(now) # Null]
    /\ stamp' = f
    /\ UNCHANGED <<now, kind, single, task, claimed, tripped, history>>

\* The tick, or the webhook route, finds the owner suspended or the project gone.
Refuse ==
    /\ Due \/ (kind = "webhook" /\ row.exists /\ row.enabled)
    /\ Write([row EXCEPT !.enabled = FALSE])
    /\ off' = TRUE
    /\ UNCHANGED <<now, kind, single, fire, task, claimed, tripped, bought, dayRuns>>

\* POST to the hook: insert-first on the delivery key; a key already there is a
\* duplicate and starts nothing.
Hook(f, k) ==
    /\ kind = "webhook" /\ row.exists /\ row.enabled
    /\ k \notin claimed
    /\ Starts(f, "hook", 0, k)
    /\ claimed' = claimed \cup ({k} \ {NoKey})
    /\ UNCHANGED <<now, kind, single, row, stamp, task, tripped, history>>

\* "Run now", also on a paused automation.
Manual(f) ==
    /\ row.exists
    /\ Starts(f, "manual", 0, NoKey)
    /\ UNCHANGED <<now, kind, single, row, stamp, task, claimed, tripped, history>>

-----------------------------------------------------------------------------
(* fireAutomation.                                                         *)

Attended(f) == fire[f].by = "manual"

\* Mutant: the ceiling counts a run too late.
CappedLate(f) == ~Attended(f) /\ row.day = fire[f].today /\ row.runs > Cap

\* The ceiling, against the day a firing believes it is.
Capped(f) == ~Attended(f) /\ row.day = fire[f].today /\ row.runs >= Cap

\* previousRunBlocks: a live previous run (not in single mode), or one that waits.
Blocks(t) ==
    /\ t # 0
    /\ \/ task[t] \in {"queued", "running"} /\ ~single
       \/ task[t] \in {"completed", "awaiting", "resumed"} /\
            IF single THEN \E u \in Runs : task[u] = "awaiting" ELSE task[t] = "awaiting"

\* The advisory passes: the ceiling read afresh, the overlap from the snapshot.
CheapSkip(f) ==
    /\ fire[f].pc = "start"
    /\ (row.exists /\ Capped(f)) \/ Blocks(fire[f].last)
    /\ Ends(f)
    /\ Write(row)       \* stampSkip
    /\ UNCHANGED <<now, kind, single, task, claimed, tripped, history>>

CheapPass(f) ==
    /\ fire[f].pc = "start"
    /\ ~(row.exists /\ Capped(f)) /\ ~Blocks(fire[f].last)
    /\ fire' = [fire EXCEPT ![f].pc = "commit", ![f].last = 0]
    /\ UNCHANGED <<now, kind, single, row, stamp, task, claimed, tripped, history>>

\* One more failure in a row.
Failed(r) == [r EXCEPT !.fails = IF @ < MaxFailures THEN @ + 1 ELSE @]
Trips(r) == r.exists /\ r.enabled /\ r.fails >= MaxFailures

\* recordAutomationOutcome(failed): count, and disable in a second statement.
CountFailure ==
    /\ Write(Failed(row))
    /\ tripped' = (tripped \/ Trips(Failed(row)))

\* Over the spending limit: an unattended refusal counts as a failed run.
BudgetRefused(f) ==
    /\ fire[f].pc = "commit" /\ ~Attended(f)
    /\ Ends(f)
    /\ CountFailure
    /\ UNCHANGED <<now, kind, single, task, claimed, history>>

\* stampSkip with a day: a rollover starts the day at zero runs.
Tallied(today, n) == [row EXCEPT !.day = today, !.runs = (IF row.day = today THEN @ ELSE 0) + n]

\* The run_when condition does not hold.
ConditionUnmet(f) ==
    /\ fire[f].pc = "commit" /\ ~Attended(f)
    /\ Ends(f)
    /\ Write(Tallied(fire[f].today, 0))
    /\ UNCHANGED <<now, kind, single, task, claimed, tripped, history>>

\* Mutant: the overlap guard is not taken again under the lock.
LockedBlocksNever(f) == FALSE

LockedBlocks(f) == Blocks(row.last)

\* Under the row's lock: gone, over the ceiling, or the previous run in the way.
LockedSkip(f) ==
    /\ fire[f].pc = "commit"
    /\ ~row.exists \/ Capped(f) \/ LockedBlocks(f)
    /\ Ends(f)
    /\ Write(row)
    /\ UNCHANGED <<now, kind, single, task, claimed, tripped, history>>

\* The chat, the message, the turn and the tallies, in the one transaction.  In a
\* single thread the message folds into a turn still queued there, and settles a
\* card it goes past.
PastCards(tk) == [t \in Runs |-> IF single /\ tk[t] = "awaiting" THEN "completed" ELSE tk[t]]

\* The queued turn of the thread, or a new one.
TurnFor(t) ==
    IF single /\ \E u \in Runs : task[u] = "queued" THEN task[t] = "queued"
    ELSE task[t] = "none" /\ \A u \in Runs : u < t => task[u] # "none"

Bought(f) ==
    /\ bought' = [x \in DOMAIN bought |-> IF x \in {fire[f].occ, fire[f].key} THEN bought[x] + 1 ELSE bought[x]]
    /\ dayRuns' = [dayRuns EXCEPT ![fire[f].today] = IF Attended(f) THEN @ ELSE @ + 1]

Materialize(f, t) ==
    /\ fire[f].pc = "commit"
    /\ row.exists /\ ~Capped(f) /\ ~LockedBlocks(f)
    /\ row.runs < MaxRuns \/ row.day # fire[f].today        \* bound
    /\ TurnFor(t)
    /\ task' = [PastCards(task) EXCEPT ![t] = "queued"]
    /\ Write([Tallied(fire[f].today, 1) EXCEPT !.last = t])
    /\ Bought(f)
    /\ \/ Ends(f)
       \/ fire[f].by \in LostAnswers /\ Steps(f, "threw")
    /\ UNCHANGED <<now, kind, single, claimed, tripped, off>>

\* Mutant: re-arm without looking at updated_at.
UntouchedAssumed(f) == row.exists

\* The compare-and-set on updated_at.
Untouched(f) == row.exists /\ stamp = f

\* The tick's handler of a failed fire: re-arm the occurrence and count a failure.
Rearm(f) ==
    /\ fire[f].pc # "idle" /\ fire[f].by = "tick"
    /\ Ends(f)
    /\ IF Untouched(f)
         THEN /\ Write([Failed(row) EXCEPT !.due = fire[f].occ, !.enabled = TRUE])
              /\ tripped' = (tripped \/ Failed(row).fails >= MaxFailures)
         ELSE UNCHANGED <<row, stamp, tripped>>
    /\ UNCHANGED <<now, kind, single, task, claimed, history>>

\* The hook releases its key so that the sender's retry is a first attempt.
ReleaseKey(f) ==
    /\ fire[f].pc # "idle" /\ fire[f].by # "tick"
    /\ Ends(f)
    /\ claimed' = claimed \ {fire[f].key}
    /\ UNCHANGED <<now, kind, single, row, stamp, task, tripped, history>>

\* The process dies with the firing.
Crash(f) ==
    /\ fire[f].pc # "idle"
    /\ Ends(f)
    /\ UNCHANGED <<now, kind, single, row, stamp, task, claimed, tripped, history>>

\* The second statement of a streak that ran out, unguarded.
Disable ==
    /\ tripped
    /\ tripped' = FALSE
    /\ Write([row EXCEPT !.enabled = FALSE])
    /\ off' = TRUE
    /\ UNCHANGED <<now, kind, single, fire, task, claimed, bought, dayRuns>>

-----------------------------------------------------------------------------
(* The runs.                                                               *)

\* A worker takes the turn; in a single thread it goes past a waiting card.
RunStarts(t) ==
    /\ task[t] = "queued"
    /\ single => \A u \in Runs : task[u] # "running"
    /\ task' = [PastCards(task) EXCEPT ![t] = "running"]
    /\ UNCHANGED <<now, kind, single, row, stamp, fire, claimed, tripped, history>>

\* The runner settles the turn and records its outcome: a failure counts, a suspended
\* run leaves the streak alone.
RunEnds(t, s) ==
    /\ task[t] = "running"
    /\ task' = [task EXCEPT ![t] = s]
    /\ CASE s = "completed" -> /\ \E quiet \in BOOLEAN :
                                    Write([(IF quiet THEN Tallied(Day(now), 0) ELSE row) EXCEPT !.fails = 0])
                               /\ UNCHANGED tripped
         [] s = "over"      -> CountFailure
         [] OTHER           -> UNCHANGED <<row, stamp, tripped>>
    /\ UNCHANGED <<now, kind, single, fire, claimed, history>>

\* The run throws, is reaped or is cancelled: nothing is recorded.
RunLost(t) ==
    /\ task[t] \in {"queued", "running"}
    /\ task' = [task EXCEPT ![t] = "over"]
    /\ UNCHANGED <<now, kind, single, row, stamp, fire, claimed, tripped, history>>

\* The person answers the card.  The continuation is a task of its own, which
\* last_task_id does not name and whose outcome nobody records; it may ask again.
Answer(t) ==
    /\ task[t] = "awaiting"
    /\ task' = [task EXCEPT ![t] = "resumed"]
    /\ UNCHANGED <<now, kind, single, row, stamp, fire, claimed, tripped, history>>

ContinuationEnds(t, s) ==
    /\ task[t] = "resumed"
    /\ task' = [task EXCEPT ![t] = s]
    /\ UNCHANGED <<now, kind, single, row, stamp, fire, claimed, tripped, history>>

-----------------------------------------------------------------------------
FiringStep(f) ==
    \/ Tick(f) \/ Manual(f) \/ CheapSkip(f) \/ CheapPass(f)
    \/ BudgetRefused(f) \/ ConditionUnmet(f)
    \/ LockedSkip(f) \/ Rearm(f) \/ ReleaseKey(f) \/ Crash(f)
    \/ \E k \in Keys \cup {NoKey} : Hook(f, k)
    \/ \E t \in Runs : Materialize(f, t)

RunStep(t) ==
    \/ RunStarts(t) \/ RunLost(t) \/ Answer(t)
    \/ \E s \in {"completed", "awaiting", "over"} : RunEnds(t, s)
    \/ \E s \in {"completed", "awaiting"} : ContinuationEnds(t, s)

Next ==
    \/ TimePasses \/ Pause \/ Resume \/ Delete \/ Refuse \/ Disable
    \/ \E f \in Firings : FiringStep(f)
    \/ \E t \in Runs : RunStep(t)

Spec == Init /\ [][Next]_vars

-----------------------------------------------------------------------------
(* Properties.                                                             *)

\* An occurrence is fired once, and so is a keyed webhook event, although ticks run
\* on several replicas, failed fires are re-armed and retried, and a commit's answer
\* may be lost.
PaidOnce == \A x \in (1..Null) \cup Keys : bought[x] <= 1

\* What a person or the platform switched off stays off: the re-arming of a failed
\* fire never resurrects it.
OffStaysOff == off /\ row.exists => ~row.enabled

\* The day's ceiling holds for unattended runs however many firings are under way.
WithinDay == \A d \in Days : dayRuns[d] <= Cap

\* Outside single-thread mode one run is live at a time, whatever started the others.
OneLiveRun ==
    single \/ Cardinality({t \in Runs : task[t] \in {"queued", "running"}}) <= 1
=============================================================================
