----------------------------- MODULE TurnProofs -----------------------------
(***************************************************************************)
(* Proofs about the turn queue, TaskQueue, for every number of chats,      *)
(* projects, processes, tasks and every lease and margin; and about the    *)
(* outcome of one of its turns, TurnOutcome.                               *)
(***************************************************************************)
EXTENDS TaskQueue, TurnOutcome, TLAPS

-----------------------------------------------------------------------------
(* The queue.                                                              *)

\* The partial unique index: a chat has one queued row.
OneQueued ==
    \A t, u \in Tasks :
        t # u /\ status[t] = "queued" /\ status[u] = "queued" => chat[t] # chat[u]

\* A row not claimed yet has no attempts, and none has two.
Attempts ==
    \A t \in Tasks :
        /\ attempts[t] <= 1
        /\ status[t] \in {"absent", "queued"} => attempts[t] = 0

\* What a claim in flight still knows although time has passed: a row it saw
\* queued and that is still queued has had the chat's slot all along, so a turn
\* of that chat that is live now was already live in the snapshot.
SnapshotCoversChat ==
    \A w \in Workers : claim[w].open =>
        \A t \in claim[w].queued :
            /\ status[t] # "absent"
            /\ status[t] = "queued" =>
                 \A r \in Tasks : Live(r) /\ chat[r] = chat[t] => r \in claim[w].live

QueueInv ==
    /\ TypeOK
    /\ OneQueued
    /\ Attempts
    /\ OneExecutor
    /\ SnapshotCoversChat
    /\ ChatExclusion

-----------------------------------------------------------------------------
\* A tick, a renewal and a claim all leave a lease in range.
LEMMA ElapseInRange ==
    ASSUME NEW n \in Remaining
    PROVE  /\ Elapse(n) \in Remaining
           /\ Elapse(n) > 0 => n > 0
  BY QueueAssumption DEF Elapse, Remaining

\* The initial states satisfy the invariant.
LEMMA InitQueueInv == Init => QueueInv
<1> SUFFICES ASSUME Init PROVE QueueInv OBVIOUS
<1>1. TypeOK
  BY QueueAssumption DEF Init, TypeOK, Statuses, Terminal, Remaining, NoClaim, ClaimState
<1>2. OneQueued /\ Attempts /\ OneExecutor /\ SnapshotCoversChat /\ ChatExclusion
  BY DEF Init, OneQueued, Attempts, OneExecutor, SnapshotCoversChat, ChatExclusion, Live, NoClaim
<1> QED BY <1>1, <1>2 DEF QueueInv

\* Every step keeps the state well typed.
LEMMA StepTypeOK == TypeOK /\ [Next]_vars => TypeOK'
<1> SUFFICES ASSUME TypeOK, [Next]_vars PROVE TypeOK' OBVIOUS
<1> USE QueueAssumption DEF TypeOK, Statuses, Terminal, rows
<1>1. CASE Tick
  <2>1. lease' \in [Tasks -> Remaining]
    BY <1>1, ElapseInRange DEF Tick
  <2>2. ASSUME NEW w \in Workers PROVE Aged(claim[w]) \in ClaimState
    BY ElapseInRange DEF Aged, ClaimState
  <2>3. claim' \in [Workers -> ClaimState]
    BY <1>1, <2>2 DEF Tick, ClaimState
  <2> QED BY <1>1, <2>1, <2>3 DEF Tick, ClaimState
<1>2. ASSUME NEW t \in Tasks, RequestStep(t) PROVE TypeOK'
  BY <1>2 DEF RequestStep, Enqueue, CancelQueued
<1>3. ASSUME NEW w \in Workers, WorkerStep(w) PROVE TypeOK'
  <2>1. CASE ClaimBegin(w)
    BY <2>1 DEF ClaimBegin, ClaimState, Remaining, Live
  <2>2. CASE ClaimNothing(w)
    BY <2>2 DEF ClaimNothing, NoClaim, ClaimState, Remaining
  <2>3. CASE Reap(w)
    BY <2>3 DEF Reap
  <2>4. CASE Start(w)
    BY <2>4 DEF Start
  <2>5. CASE Drain(w)
    BY <2>5 DEF Drain
  <2>6. CASE Stop(w)
    BY <2>6 DEF Stop, NoClaim, ClaimState, Remaining
  <2>7. ASSUME NEW t \in Tasks, ClaimCommit(w, t) PROVE TypeOK'
    BY <2>7 DEF ClaimCommit, NoClaim, ClaimState, Remaining
  <2>8. ASSUME NEW t \in Tasks, Absorb(w, t) PROVE TypeOK'
    BY <2>8 DEF Absorb
  <2>9. ASSUME NEW t \in Tasks, Heartbeat(w, t) PROVE TypeOK'
    BY <2>9 DEF Heartbeat, Remaining
  <2>11. ASSUME NEW t \in Tasks, Abandon(w, t) PROVE TypeOK'
    BY <2>11 DEF Abandon, EndRun
  <2>12. ASSUME NEW t \in Tasks, NEW s \in Terminal, Settle(w, t, s) PROVE TypeOK'
    BY <2>12 DEF Settle, EndRun
  <2> QED
    BY <1>3, <2>1, <2>2, <2>3, <2>4, <2>5, <2>6, <2>7, <2>8, <2>9, <2>11, <2>12
    DEF WorkerStep
<1>4. CASE UNCHANGED vars
  BY <1>4 DEF vars
<1> QED BY <1>1, <1>2, <1>3, <1>4 DEF Next

\* THEOREM: the state of the queue and its workers is always well typed.
THEOREM TypeCorrect == Spec => []TypeOK
<1>1. Init => TypeOK
  BY InitQueueInv DEF QueueInv
<1> QED BY <1>1, StepTypeOK, PTL DEF Spec

-----------------------------------------------------------------------------
\* Every step keeps the invariant.  chat never changes; a row becomes queued
\* only through Enqueue and live only through ClaimCommit, so those two carry
\* the argument and Heartbeat keeps alive only what was alive.
LEMMA StepQueueInv == QueueInv /\ [Next]_vars => QueueInv'
<1> SUFFICES ASSUME QueueInv, [Next]_vars PROVE QueueInv' OBVIOUS
<1>0. TypeOK /\ TypeOK'
  BY StepTypeOK DEF QueueInv
<1> DEFINE Parts == OneQueued /\ Attempts /\ OneExecutor /\ SnapshotCoversChat /\ ChatExclusion
<1>a. Parts
  BY DEF QueueInv
<1> SUFFICES Parts'
  BY <1>0 DEF QueueInv
<1> USE <1>0, <1>a DEF Parts, Live
<1>1. CASE Tick
  <2>1. \A t \in Tasks : Live(t)' => Live(t)
    BY <1>1, ElapseInRange DEF Tick, TypeOK
  <2>2. \A w \in Workers : /\ claim'[w].open = claim[w].open
                            /\ claim'[w].live = claim[w].live
                            /\ claim'[w].queued = claim[w].queued
    BY <1>1 DEF Tick, Aged, TypeOK
  <2> QED
    BY <1>1, <2>1, <2>2
    DEF Tick, OneQueued, Attempts, OneExecutor, SnapshotCoversChat, ChatExclusion
<1>2. ASSUME NEW t \in Tasks, Enqueue(t) PROVE Parts'
  BY <1>2
    DEF Enqueue, SlotFree, TypeOK, OneQueued, Attempts, OneExecutor, SnapshotCoversChat,
       ChatExclusion, Terminal, ClaimState
<1>3. ASSUME NEW t \in Tasks, CancelQueued(t) PROVE Parts'
  BY <1>3
    DEF CancelQueued, TypeOK, OneQueued, Attempts, OneExecutor, SnapshotCoversChat,
       ChatExclusion, Terminal, ClaimState
<1>5. ASSUME NEW w \in Workers, ClaimBegin(w) PROVE Parts'
  BY <1>5
    DEF ClaimBegin, rows, TypeOK, OneQueued, Attempts, OneExecutor, SnapshotCoversChat,
       ChatExclusion
<1>6. ASSUME NEW w \in Workers, ClaimNothing(w) PROVE Parts'
  BY <1>6
    DEF ClaimNothing, NoClaim, rows, TypeOK, OneQueued, Attempts, OneExecutor,
       SnapshotCoversChat, ChatExclusion
<1>7. ASSUME NEW w \in Workers, NEW t \in Tasks, ClaimCommit(w, t) PROVE Parts'
  <2> USE <1>7 DEF ClaimCommit
  <2>1. \A u \in Tasks : Live(u)' => u = t \/ Live(u)
    BY DEF TypeOK
  <2>2. \A u \in Tasks : u # t /\ Live(u) => chat[u] # chat[t]
    BY DEF Candidate, SnapshotCoversChat, SameWorkspace
  <2>3. ChatExclusion'
    BY <2>1, <2>2 DEF ChatExclusion
  <2>4. OneQueued' /\ Attempts' /\ OneExecutor'
    BY DEF TypeOK, Candidate, OneQueued, Attempts, OneExecutor, Terminal
  <2>5. SnapshotCoversChat'
    <3> SUFFICES ASSUME NEW v \in Workers, claim'[v].open, NEW q \in claim'[v].queued
                 PROVE  /\ status'[q] # "absent"
                        /\ status'[q] = "queued" =>
                             \A r \in Tasks : Live(r)' /\ chat'[r] = chat'[q]
                                                 => r \in claim'[v].live
      BY DEF SnapshotCoversChat
    <3>1. v # w /\ claim'[v] = claim[v]
      BY DEF TypeOK, NoClaim
    <3>2. q \in Tasks /\ status[q] # "absent"
      BY <3>1 DEF TypeOK, ClaimState, SnapshotCoversChat
    <3>3. status'[q] # "absent"
      BY <3>2 DEF TypeOK
    <3>4. ASSUME status'[q] = "queued", NEW r \in Tasks, Live(r)', chat'[r] = chat'[q]
          PROVE  r \in claim'[v].live
      <4>1. q # t /\ status[q] = "queued"
        BY <3>2, <3>4 DEF TypeOK
      <4>2. r # t
        BY <3>2, <3>4, <4>1 DEF OneQueued, Candidate
      <4> QED BY <2>1, <3>1, <3>4, <4>1, <4>2 DEF SnapshotCoversChat
    <3> QED BY <3>3, <3>4
  <2> QED BY <2>3, <2>4, <2>5
<1>8. ASSUME NEW w \in Workers, NEW t \in Tasks, Absorb(w, t) PROVE Parts'
  BY <1>8
    DEF Absorb, TypeOK, OneQueued, Attempts, OneExecutor, SnapshotCoversChat, ChatExclusion,
       Terminal, ClaimState
<1>9. ASSUME NEW w \in Workers, NEW t \in Tasks, Heartbeat(w, t) PROVE Parts'
  <2>1. \A u \in Tasks : Live(u)' => Live(u)
    BY <1>9 DEF Heartbeat, Renewable, TypeOK
  <2> QED
    BY <1>9, <2>1
    DEF Heartbeat, OneQueued, Attempts, OneExecutor, SnapshotCoversChat, ChatExclusion
<1>11. ASSUME NEW w \in Workers, NEW t \in Tasks, Abandon(w, t) PROVE Parts'
  BY <1>11
    DEF Abandon, EndRun, rows, TypeOK, OneQueued, Attempts, OneExecutor, SnapshotCoversChat,
       ChatExclusion
<1>12. ASSUME NEW w \in Workers, NEW t \in Tasks, NEW s \in Terminal, Settle(w, t, s) PROVE Parts'
  BY <1>12
    DEF Settle, EndRun, Executing, Ownable, TypeOK, OneQueued, Attempts, OneExecutor,
       SnapshotCoversChat, ChatExclusion, Terminal, ClaimState
<1>13. ASSUME NEW w \in Workers, Reap(w) PROVE Parts'
  BY <1>13
    DEF Reap, Reapable, TypeOK, OneQueued, Attempts, OneExecutor, SnapshotCoversChat,
       ChatExclusion, Terminal, ClaimState
<1>14. ASSUME NEW w \in Workers, Start(w) \/ Drain(w) PROVE Parts'
  BY <1>14
    DEF Start, Drain, rows, OneQueued, Attempts, OneExecutor, SnapshotCoversChat, ChatExclusion
<1>15. ASSUME NEW w \in Workers, Stop(w) PROVE Parts'
  BY <1>15
    DEF Stop, NoClaim, rows, TypeOK, OneQueued, Attempts, OneExecutor, SnapshotCoversChat,
       ChatExclusion
<1>16. CASE UNCHANGED vars
  BY <1>16 DEF vars, rows, OneQueued, Attempts, OneExecutor, SnapshotCoversChat, ChatExclusion
<1> QED
  BY <1>1, <1>2, <1>3, <1>5, <1>6, <1>7, <1>8, <1>9, <1>11, <1>12, <1>13, <1>14, <1>15, <1>16
  DEF Next, RequestStep, WorkerStep

\* The invariant holds in every state, for any number of processes.
LEMMA QueueInvariant == Spec => []QueueInv
  BY InitQueueInv, StepQueueInv, PTL DEF Spec

\* THEOREM: one transaction each of claiming, reaping and settling is enough to
\* keep a chat from having two live turns.
THEOREM OneTurnPerChat == Spec => []ChatExclusion
<1>1. QueueInv => ChatExclusion
  BY DEF QueueInv
<1> QED BY <1>1, QueueInvariant, PTL

\* THEOREM: FOR UPDATE SKIP LOCKED and the recheck of the row give a turn to one
\* claim, on however old a snapshot the others chose it.
THEOREM ClaimedAtMostOnce == Spec => []ClaimedOnce
<1>1. QueueInv => ClaimedOnce
  BY DEF QueueInv, Attempts, ClaimedOnce
<1> QED BY <1>1, QueueInvariant, PTL

\* THEOREM: a turn is executed by the process that claimed it and by no other,
\* also after its lease ran out and the reaper failed it.
THEOREM ExecutedByOne == Spec => []OneExecutor
<1>1. QueueInv => OneExecutor
  BY DEF QueueInv
<1> QED BY <1>1, QueueInvariant, PTL

-----------------------------------------------------------------------------
\* THEOREM: the first terminal status of a turn is its last, and a removed row
\* is never revived, although the reaper, the runner, a cancel, an absorb and a
\* claim that read the row earlier all write it.
THEOREM OutcomeStable == Spec => FirstOutcomeWins
<1> DEFINE Stable == \A t \in Tasks : status[t] \in Terminal \cup {"deleted"}
                                         => status'[t] = status[t]
<1>1. TypeOK /\ [Next]_vars => [Stable]_vars
  <2> SUFFICES ASSUME TypeOK, [Next]_vars PROVE Stable OBVIOUS
  <2> USE DEF TypeOK, Terminal, rows
  <2>1. ASSUME NEW t \in Tasks, RequestStep(t) PROVE Stable
    BY <2>1 DEF RequestStep, Enqueue, CancelQueued
  <2>2. ASSUME NEW w \in Workers, NEW t \in Tasks, ClaimCommit(w, t) PROVE Stable
    BY <2>2 DEF ClaimCommit, Candidate
  <2>3. ASSUME NEW w \in Workers, NEW t \in Tasks, Absorb(w, t) PROVE Stable
    BY <2>3 DEF Absorb
  <2>4. ASSUME NEW w \in Workers, NEW t \in Tasks, NEW s \in Terminal, Settle(w, t, s) PROVE Stable
    BY <2>4 DEF Settle, Ownable
  <2>5. ASSUME NEW w \in Workers, Reap(w) PROVE Stable
    BY <2>5 DEF Reap, Reapable
  <2>6. ASSUME NEW w \in Workers,
               ClaimBegin(w) \/ ClaimNothing(w) \/ Start(w) \/ Drain(w) \/ Stop(w)
        PROVE  Stable
    BY <2>6 DEF ClaimBegin, ClaimNothing, Start, Drain, Stop
  <2>7. ASSUME NEW w \in Workers, NEW t \in Tasks,
               Heartbeat(w, t) \/ Abandon(w, t)
        PROVE  Stable
    BY <2>7 DEF Heartbeat, Abandon
  <2>8. CASE Tick \/ UNCHANGED vars
    BY <2>8 DEF Tick, vars
  <2> QED BY <2>1, <2>2, <2>3, <2>4, <2>5, <2>6, <2>7, <2>8 DEF Next, WorkerStep
<1> QED BY <1>1, TypeCorrect, PTL DEF Spec, FirstOutcomeWins

-----------------------------------------------------------------------------
(* Workspace exclusion when processes do not overlap.                      *)

\* One process serves at a time, a claim in flight is that process's, and its
\* snapshot still covers every live turn because nobody else can start one.
SerialInv ==
    /\ QueueInv
    /\ \A v, w \in Workers : Serving(v) /\ Serving(w) => v = w
    /\ \A w \in Workers : claim[w].open => Serving(w)
    /\ \A w \in Workers : claim[w].open => {t \in Tasks : Live(t)} \subseteq claim[w].live
    /\ WorkspaceExclusion

\* Without overlap every step keeps the serial invariant.
LEMMA StepSerialInv == ~Overlap /\ SerialInv /\ [Next]_vars => SerialInv'
<1> SUFFICES ASSUME ~Overlap, SerialInv, [Next]_vars PROVE SerialInv' OBVIOUS
<1>0. TypeOK /\ QueueInv'
  BY StepQueueInv DEF SerialInv, QueueInv
<1> DEFINE Sole == \A v, w \in Workers : Serving(v) /\ Serving(w) => v = w
           Mine == \A w \in Workers : claim[w].open => Serving(w)
           Fresh == \A w \in Workers : claim[w].open =>
                       \A t \in Tasks : Live(t) => t \in claim[w].live
<1>a. Sole /\ Mine /\ Fresh /\ WorkspaceExclusion
  BY DEF SerialInv
<1> SUFFICES (Sole /\ Mine /\ Fresh /\ WorkspaceExclusion)'
  BY <1>0 DEF SerialInv
<1> HIDE DEF Sole, Mine, Fresh
<1>1. ASSUME UNCHANGED <<chat, proc>>,
             \A w \in Workers : claim'[w].open => claim[w].open /\ claim'[w].live = claim[w].live,
             \A t \in Tasks : Live(t)' => Live(t)
      PROVE  (Sole /\ Mine /\ Fresh /\ WorkspaceExclusion)'
  BY <1>a, <1>1 DEF Sole, Mine, Fresh, WorkspaceExclusion, SameWorkspace, Serving
<1>2. CASE Tick
  <2>1. \A t \in Tasks : Live(t)' => Live(t)
    BY <1>0, <1>2, ElapseInRange DEF Tick, Live, TypeOK
  <2>2. \A w \in Workers : claim'[w].open = claim[w].open /\ claim'[w].live = claim[w].live
    BY <1>0, <1>2 DEF Tick, Aged, TypeOK
  <2> QED BY <1>1, <1>2, <2>1, <2>2 DEF Tick
<1>3. ASSUME NEW t \in Tasks, RequestStep(t) PROVE (Sole /\ Mine /\ Fresh /\ WorkspaceExclusion)'
  BY <1>0, <1>1, <1>3 DEF RequestStep, Enqueue, CancelQueued, Live, TypeOK
<1>4. ASSUME NEW w \in Workers, NEW t \in Tasks, ClaimCommit(w, t)
      PROVE  (Sole /\ Mine /\ Fresh /\ WorkspaceExclusion)'
  <2> USE <1>0, <1>4 DEF ClaimCommit
  <2>1. \A u \in Tasks : Live(u)' => u = t \/ Live(u)
    BY DEF TypeOK, Live
  <2>2. \A u \in Tasks : Live(u) => ~SameWorkspace(u, t)
    BY <1>a DEF Fresh, Candidate
  <2>3. WorkspaceExclusion'
    BY <1>a, <2>1, <2>2 DEF WorkspaceExclusion, SameWorkspace
  <2>4. \A v \in Workers : ~claim'[v].open
    BY <1>a DEF Sole, Mine, Serving, TypeOK, NoClaim
  <2> QED BY <1>a, <2>3, <2>4 DEF Sole, Mine, Fresh, Serving
<1>5. ASSUME NEW w \in Workers, ClaimBegin(w) PROVE (Sole /\ Mine /\ Fresh /\ WorkspaceExclusion)'
  BY <1>0, <1>a, <1>5
  DEF ClaimBegin, rows, Live, TypeOK, Sole, Mine, Fresh, WorkspaceExclusion, SameWorkspace, Serving
<1>6. ASSUME NEW w \in Workers, ClaimNothing(w) PROVE (Sole /\ Mine /\ Fresh /\ WorkspaceExclusion)'
  BY <1>0, <1>1, <1>6 DEF ClaimNothing, NoClaim, rows, Live, TypeOK
<1>7. ASSUME NEW w \in Workers, NEW t \in Tasks,
             Absorb(w, t) \/ Abandon(w, t) \/ \E s \in Terminal : Settle(w, t, s)
      PROVE  (Sole /\ Mine /\ Fresh /\ WorkspaceExclusion)'
  <2>1. \A u \in Tasks : Live(u)' => Live(u)
    BY <1>0, <1>7 DEF Absorb, Abandon, Settle, Ownable, rows, Live, TypeOK, Terminal
  <2> QED BY <1>1, <1>7, <2>1 DEF Absorb, Abandon, Settle, rows
<1>8. ASSUME NEW w \in Workers, NEW t \in Tasks, Heartbeat(w, t)
      PROVE  (Sole /\ Mine /\ Fresh /\ WorkspaceExclusion)'
  BY <1>0, <1>1, <1>8 DEF Heartbeat, Renewable, Live, TypeOK
<1>9. ASSUME NEW w \in Workers, Reap(w) PROVE (Sole /\ Mine /\ Fresh /\ WorkspaceExclusion)'
  BY <1>0, <1>1, <1>9 DEF Reap, Reapable, Live, TypeOK
<1>10. ASSUME NEW w \in Workers, Start(w) PROVE (Sole /\ Mine /\ Fresh /\ WorkspaceExclusion)'
  BY <1>0, <1>a, <1>10
  DEF Start, rows, Live, TypeOK, Sole, Mine, Fresh, WorkspaceExclusion, SameWorkspace, Serving
<1>11. ASSUME NEW w \in Workers, Drain(w) PROVE (Sole /\ Mine /\ Fresh /\ WorkspaceExclusion)'
  BY <1>0, <1>a, <1>11
  DEF Drain, rows, Live, TypeOK, Sole, Mine, Fresh, WorkspaceExclusion, SameWorkspace, Serving
<1>12. ASSUME NEW w \in Workers, Stop(w) PROVE (Sole /\ Mine /\ Fresh /\ WorkspaceExclusion)'
  BY <1>0, <1>a, <1>12
  DEF Stop, NoClaim, rows, Live, TypeOK, Sole, Mine, Fresh, WorkspaceExclusion, SameWorkspace,
       Serving
<1>13. CASE UNCHANGED vars
  BY <1>1, <1>13 DEF vars, rows, Live
<1> QED
  BY <1>2, <1>3, <1>4, <1>5, <1>6, <1>7, <1>8, <1>9, <1>10, <1>11, <1>12, <1>13 DEF Next, WorkerStep

\* THEOREM: when one process serves at a time, whatever its crashes, drains and
\* restarts, no two turns hold live leases in one workspace.
THEOREM SerialExclusion == ~Overlap => (Spec => []WorkspaceExclusion)
<1> SUFFICES ASSUME ~Overlap PROVE Spec => []WorkspaceExclusion OBVIOUS
<1>1. Init => SerialInv
  <2> SUFFICES ASSUME Init PROVE SerialInv OBVIOUS
  <2> QED BY InitQueueInv DEF Init, SerialInv, Serving, WorkspaceExclusion, Live, NoClaim
<1>2. SerialInv /\ [Next]_vars => SerialInv'
  BY StepSerialInv
<1>3. SerialInv => WorkspaceExclusion
  BY DEF SerialInv
<1> QED BY <1>1, <1>2, <1>3, PTL DEF Spec

-----------------------------------------------------------------------------
(* The outcome of a turn.                                                  *)

\* A snapshot is in flight only while the stream runs or after a crash, and only the
\* run's own commit completes a task: so no snapshot can reopen a completed turn.
RunInv ==
    /\ saving => pc \in {"streaming", "done"} /\ task # "completed"
    /\ pc \in {"prep", "streaming", "decided"} => task # "completed"
    /\ pc = "owned" => task = verdict.task
    /\ pc \in {"failing", "reporting"} => verdict \in {Plain("failed"), Plain("cancelled")}

OutcomeInv == TurnTypeOK /\ RunInv /\ CompletedKeepsReply /\ SuccessIsReal

\* What a run or a sweep is about to announce is what the task says, unless the
\* database left the run without an answer.
AnnounceInv ==
    /\ owes => task = "failed"
    /\ ~DbOutage /\ pc = "reporting" => task = verdict.task

\* Every step keeps the types.
LEMMA StepTypes == TurnTypeOK /\ RunInv /\ [TurnNext]_turnVars => TurnTypeOK'
<1> SUFFICES ASSUME TurnTypeOK, RunInv, [TurnNext]_turnVars PROVE TurnTypeOK' OBVIOUS
<1> USE DEF TurnTypeOK, Outcomes, RowEnd, NoRow, Verdicts, Plain
<1>1. CASE LeaseElapses
  BY <1>1 DEF LeaseElapses
<1>2. CASE RequestCancel
  BY <1>2 DEF RequestCancel
<1>3. CASE DeleteReply
  BY <1>3 DEF DeleteReply
<1>4. CASE Crash
  <2>1. saving' \in BOOLEAN
    BY <1>4, Zenon DEF Crash
  <2> QED BY <1>4, <2>1 DEF Crash
<1>5. CASE MonitorTick
  <2>1. leaseLost' \in BOOLEAN
    BY <1>5, Zenon DEF MonitorTick
  <2> QED BY <1>5, <2>1 DEF MonitorTick
<1>6. CASE Deadline
  BY <1>6 DEF Deadline
<1>7. CASE SaveBegin
  BY <1>7 DEF SaveBegin
<1>8. CASE Throw
  BY <1>8 DEF Throw, FlushDrained
<1>9. CASE CancelledEarly
  BY <1>9 DEF CancelledEarly
<1>10. CASE OpenReply
  BY <1>10 DEF OpenReply
<1>11. CASE SaveEnd
  <2>1. saving' \in BOOLEAN
    BY <1>11, Zenon DEF SaveEnd
  <2> QED BY <1>11, <2>1 DEF SaveEnd
<1>12. CASE StreamEnd
  BY <1>12 DEF StreamEnd, FlushDrained, StreamStatuses
<1>13. CASE Publish
  <2>1. said' \subseteq Outcomes
    BY <1>13 DEF Publish
  <2> QED BY <1>13, <2>1 DEF Publish
<1>14. CASE Report
  <2>1. said' \subseteq Outcomes
    BY <1>14 DEF Report, RunInv
  <2> QED BY <1>14, <2>1 DEF Report
<1>15. CASE Sweep
  BY <1>15 DEF Sweep, Dead, Stranded
<1>16. CASE SweepPublish
  <2>1. owes' \in BOOLEAN
    BY <1>16, Zenon DEF SweepPublish
  <2> QED BY <1>16, <2>1 DEF SweepPublish
<1>17. CASE CommitOwned("decided", "owned")
  BY <1>17 DEF CommitOwned, WriteOutcome, Lands, Owns
<1>18. CASE CommitRefused("decided")
  BY <1>18 DEF CommitRefused
<1>19. CASE CommitThrows("decided", "failing")
  BY <1>19 DEF CommitThrows, WriteOutcome, Lands, Owns
<1>20. CASE CommitOwned("failing", "reporting")
  BY <1>20 DEF CommitOwned, WriteOutcome, Lands, Owns
<1>21. CASE CommitRefused("failing")
  BY <1>21 DEF CommitRefused
<1>22. CASE CommitThrows("failing", "reporting")
  BY <1>22 DEF CommitThrows, WriteOutcome, Lands, Owns
<1>23. CASE UNCHANGED turnVars
  BY <1>23 DEF turnVars
<1> QED
  BY <1>1, <1>2, <1>3, <1>4, <1>5, <1>6, <1>7, <1>8, <1>9, <1>10, <1>11, <1>12,
     <1>13, <1>14, <1>15, <1>16, <1>17, <1>18, <1>19, <1>20, <1>21, <1>22, <1>23
  DEF TurnNext, Begin, SettleTurn, Finish, FinishFailed

\* Every step keeps the invariant, whatever the database does.
LEMMA StepOutcomeInv == OutcomeInv /\ [TurnNext]_turnVars => OutcomeInv'
<1> SUFFICES ASSUME OutcomeInv, [TurnNext]_turnVars PROVE OutcomeInv' OBVIOUS
<1>0. TurnTypeOK'
  BY StepTypes DEF OutcomeInv
<1> SUFFICES (RunInv /\ CompletedKeepsReply /\ SuccessIsReal)'
  BY <1>0 DEF OutcomeInv
<1> USE
     DEF OutcomeInv, RunInv, CompletedKeepsReply, SuccessIsReal, TurnTypeOK, Outcomes, RowEnd,
     NoRow, Verdicts, Plain
<1>1. CASE LeaseElapses
  BY <1>1 DEF LeaseElapses
<1>2. CASE RequestCancel
  BY <1>2 DEF RequestCancel
<1>3. CASE DeleteReply
  BY <1>3 DEF DeleteReply
<1>4. CASE Crash
  BY <1>4 DEF Crash
<1>5. CASE MonitorTick
  BY <1>5 DEF MonitorTick
<1>6. CASE Deadline
  BY <1>6 DEF Deadline
<1>7. CASE SaveBegin
  BY <1>7 DEF SaveBegin
<1>8. CASE Throw
  BY <1>8 DEF Throw, FlushDrained
<1>9. CASE CancelledEarly
  BY <1>9 DEF CancelledEarly
<1>10. CASE OpenReply
  BY <1>10 DEF OpenReply
<1>11. CASE SaveEnd
  BY <1>11 DEF SaveEnd
<1>12. CASE StreamEnd
  BY <1>12 DEF StreamEnd, FlushDrained, StreamStatuses
<1>13. CASE Publish
  BY <1>13 DEF Publish
<1>14. CASE Report
  BY <1>14 DEF Report
<1>15. CASE Sweep
  BY <1>15 DEF Sweep, Dead, Stranded
<1>16. CASE SweepPublish
  BY <1>16 DEF SweepPublish
<1>17. CASE CommitOwned("decided", "owned")
  BY <1>17 DEF CommitOwned, WriteOutcome, Lands, Owns
<1>18. CASE CommitRefused("decided")
  BY <1>18 DEF CommitRefused
<1>19. CASE CommitThrows("decided", "failing")
  BY <1>19 DEF CommitThrows, WriteOutcome, Lands, Owns
<1>20. CASE CommitOwned("failing", "reporting")
  BY <1>20 DEF CommitOwned, WriteOutcome, Lands, Owns
<1>21. CASE CommitRefused("failing")
  BY <1>21 DEF CommitRefused
<1>22. CASE CommitThrows("failing", "reporting")
  BY <1>22 DEF CommitThrows, WriteOutcome, Lands, Owns
<1>23. CASE UNCHANGED turnVars
  BY <1>23 DEF turnVars
<1> QED
  BY <1>1, <1>2, <1>3, <1>4, <1>5, <1>6, <1>7, <1>8, <1>9, <1>10, <1>11, <1>12,
     <1>13, <1>14, <1>15, <1>16, <1>17, <1>18, <1>19, <1>20, <1>21, <1>22, <1>23
  DEF TurnNext, Begin, SettleTurn, Finish, FinishFailed

\* The initial states satisfy both invariants.
LEMMA InitOutcomeInv == TurnInit => OutcomeInv /\ AnnounceInv
<1> SUFFICES ASSUME TurnInit PROVE OutcomeInv /\ AnnounceInv OBVIOUS
<1>1. Plain("failed") \in Verdicts
  BY DEF Verdicts, Plain, Outcomes, RowEnd
<1>2. TurnTypeOK
  BY <1>1 DEF TurnInit, TurnTypeOK, Outcomes, RowEnd, NoRow
<1> QED
  BY <1>2 DEF TurnInit, OutcomeInv, RunInv, CompletedKeepsReply, SuccessIsReal, AnnounceInv

\* The invariant holds in every state, whatever commits are lost.
LEMMA OutcomeInvariant == TurnSpec => []OutcomeInv
  BY InitOutcomeInv, StepOutcomeInv, PTL DEF TurnSpec

\* THEOREM: the rows, the verdict being written and what was announced stay in the
\* sets of values the runner, the sweep and the routes know.
THEOREM TurnTyped == TurnSpec => []TurnTypeOK
<1>1. OutcomeInv => TurnTypeOK
  BY DEF OutcomeInv
<1> QED BY <1>1, OutcomeInvariant, PTL

\* No interleaving of snapshots, sweeps, deletions, lost commits and
\* crashes leaves a completed turn without its finished reply, and a turn
\* announced as completed is completed.
THEOREM SettledTogether == TurnSpec => [](CompletedKeepsReply /\ SuccessIsReal)
<1>1. OutcomeInv => CompletedKeepsReply /\ SuccessIsReal
  BY DEF OutcomeInv
<1> QED BY <1>1, OutcomeInvariant, PTL

-----------------------------------------------------------------------------
\* Every step keeps what is owed or about to be reported true.
LEMMA StepAnnounceInv ==
    OutcomeInv /\ AnnounceInv /\ [TurnNext]_turnVars => AnnounceInv'
<1> SUFFICES ASSUME OutcomeInv, AnnounceInv, [TurnNext]_turnVars PROVE AnnounceInv' OBVIOUS
<1> USE DEF OutcomeInv, RunInv, AnnounceInv, TurnTypeOK, Outcomes, RowEnd, NoRow,
            Verdicts, Plain
<1>1. CASE LeaseElapses
  BY <1>1 DEF LeaseElapses
<1>2. CASE RequestCancel
  BY <1>2 DEF RequestCancel
<1>3. CASE DeleteReply
  BY <1>3 DEF DeleteReply
<1>4. CASE Crash
  BY <1>4 DEF Crash
<1>5. CASE MonitorTick
  BY <1>5 DEF MonitorTick
<1>6. CASE Deadline
  BY <1>6 DEF Deadline
<1>7. CASE SaveBegin
  BY <1>7 DEF SaveBegin
<1>8. CASE Throw
  BY <1>8 DEF Throw, FlushDrained
<1>9. CASE CancelledEarly
  BY <1>9 DEF CancelledEarly
<1>10. CASE OpenReply
  BY <1>10 DEF OpenReply
<1>11. CASE SaveEnd
  BY <1>11 DEF SaveEnd
<1>12. CASE StreamEnd
  BY <1>12 DEF StreamEnd, FlushDrained, StreamStatuses
<1>13. CASE Publish
  BY <1>13 DEF Publish
<1>14. CASE Report
  BY <1>14 DEF Report
<1>15. CASE Sweep
  BY <1>15 DEF Sweep, Dead, Stranded
<1>16. CASE SweepPublish
  BY <1>16 DEF SweepPublish
<1>17. CASE CommitOwned("decided", "owned")
  BY <1>17 DEF CommitOwned, WriteOutcome, Lands, Owns
<1>18. CASE CommitRefused("decided")
  BY <1>18 DEF CommitRefused
<1>19. CASE CommitThrows("decided", "failing")
  BY <1>19 DEF CommitThrows, WriteOutcome, Lands, Owns
<1>20. CASE CommitOwned("failing", "reporting")
  BY <1>20 DEF CommitOwned, WriteOutcome, Lands, Owns
<1>21. CASE CommitRefused("failing")
  BY <1>21 DEF CommitRefused
<1>22. CASE CommitThrows("failing", "reporting")
  BY <1>22 DEF CommitThrows, WriteOutcome, Lands, Owns
<1>23. CASE UNCHANGED turnVars
  BY <1>23 DEF turnVars
<1> QED
  BY <1>1, <1>2, <1>3, <1>4, <1>5, <1>6, <1>7, <1>8, <1>9, <1>10, <1>11, <1>12,
     <1>13, <1>14, <1>15, <1>16, <1>17, <1>18, <1>19, <1>20, <1>21, <1>22, <1>23
  DEF TurnNext, Begin, SettleTurn, Finish, FinishFailed

\* Each step of the turn is a step of TurnVerdict, or changes nothing it sees.
LEMMA StepVerdict ==
    OutcomeInv /\ AnnounceInv /\ [TurnNext]_turnVars
        => [Verdict!Next]_<<outcomeBar, said>>
<1> SUFFICES ASSUME OutcomeInv, AnnounceInv, [TurnNext]_turnVars
             PROVE  [Verdict!Next]_<<outcomeBar, said>>
  OBVIOUS
<1> USE DEF OutcomeInv, RunInv, AnnounceInv, TurnTypeOK, Outcomes, RowEnd, NoRow,
            Verdicts, Plain, outcomeBar, Verdict!Next, Verdict!Decide,
            Verdict!Say, Verdict!Guess, Verdict!Verdicts
<1>1. CASE LeaseElapses
  BY <1>1 DEF LeaseElapses
<1>2. CASE RequestCancel
  BY <1>2 DEF RequestCancel
<1>3. CASE DeleteReply
  BY <1>3 DEF DeleteReply
<1>4. CASE Crash
  BY <1>4 DEF Crash
<1>5. CASE MonitorTick
  BY <1>5 DEF MonitorTick
<1>6. CASE Deadline
  BY <1>6 DEF Deadline
<1>7. CASE SaveBegin
  BY <1>7 DEF SaveBegin
<1>8. CASE Throw
  BY <1>8 DEF Throw, FlushDrained
<1>9. CASE CancelledEarly
  BY <1>9 DEF CancelledEarly
<1>10. CASE OpenReply
  BY <1>10 DEF OpenReply
<1>11. CASE SaveEnd
  BY <1>11 DEF SaveEnd
<1>12. CASE StreamEnd
  BY <1>12 DEF StreamEnd, FlushDrained, StreamStatuses
<1>13. CASE Publish
  BY <1>13 DEF Publish
<1>14. CASE Report
  BY <1>14 DEF Report
<1>15. CASE Sweep
  BY <1>15 DEF Sweep, Dead, Stranded
<1>16. CASE SweepPublish
  BY <1>16 DEF SweepPublish
<1>17. CASE CommitOwned("decided", "owned")
  BY <1>17 DEF CommitOwned, WriteOutcome, Lands, Owns
<1>18. CASE CommitRefused("decided")
  BY <1>18 DEF CommitRefused
<1>19. CASE CommitThrows("decided", "failing")
  BY <1>19 DEF CommitThrows, WriteOutcome, Lands, Owns
<1>20. CASE CommitOwned("failing", "reporting")
  BY <1>20 DEF CommitOwned, WriteOutcome, Lands, Owns
<1>21. CASE CommitRefused("failing")
  BY <1>21 DEF CommitRefused
<1>22. CASE CommitThrows("failing", "reporting")
  BY <1>22 DEF CommitThrows, WriteOutcome, Lands, Owns
<1>23. CASE UNCHANGED turnVars
  BY <1>23 DEF turnVars
<1> QED
  BY <1>1, <1>2, <1>3, <1>4, <1>5, <1>6, <1>7, <1>8, <1>9, <1>10, <1>11, <1>12,
     <1>13, <1>14, <1>15, <1>16, <1>17, <1>18, <1>19, <1>20, <1>21, <1>22, <1>23
  DEF TurnNext, Begin, SettleTurn, Finish, FinishFailed

\* THEOREM: a turn gets one outcome and everything announced about it is that
\* outcome, but for a failure or cancel announced while the database did not answer.
THEOREM ImplementsVerdict == TurnSpec => OneVerdict
<1> DEFINE Inv == OutcomeInv /\ AnnounceInv
<1>1. TurnInit => Inv /\ Verdict!Init
  BY InitOutcomeInv DEF TurnInit, Verdict!Init, outcomeBar
<1>2. Inv /\ [TurnNext]_turnVars => Inv'
  BY StepOutcomeInv, StepAnnounceInv
<1>3. Inv /\ [TurnNext]_turnVars => [Verdict!Next]_<<outcomeBar, said>>
  BY StepVerdict
<1> QED BY <1>1, <1>2, <1>3, PTL DEF TurnSpec, OneVerdict, Verdict!Spec
=============================================================================
