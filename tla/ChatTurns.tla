------------------------------ MODULE ChatTurns ------------------------------
(***************************************************************************)
(* One chat: its message tree, its active leaf, its single queued turn, and*)
(* the steps of sending, regenerating, deciding a card, cancelling and     *)
(* answering that touch them.  api/chat/route.ts, lib/telegram/bot.ts,     *)
(* lib/manage/authed.ts, lib/ask/authed.ts, lib/tasks/queue.ts and         *)
(* lib/tasks/runner.ts.                                                    *)
(*                                                                         *)
(* A send and the set-up of a reply are several statements each, without a *)
(* transaction around them, so they interleave.  Turns of one chat do not  *)
(* overlap (TaskQueue!ChatExclusion), so there is one runner.              *)
(***************************************************************************)
EXTENDS Naturals

CONSTANTS
    MaxMsgs,          \* bound: how many message rows are ever inserted
    SendInSetup,      \* may a send run while a reply is being set up?
    SendOverDecision, \* may a send run while a decision awaits its continuation?
    FailOverFold      \* may a turn whose branch has moved on fail before its reply row exists?

ASSUME ChatAssumption ==
    /\ MaxMsgs \in Nat
    /\ {SendInSetup, SendOverDecision, FailOverFold} \subseteq BOOLEAN

Msgs == 1..MaxMsgs      \* ids in insertion order
Ids == 0..MaxMsgs       \* 0 is no message

VARIABLES
    role,       \* messages.role; "none" is a row not inserted yet
    parent,     \* messages.parent_id
    card,       \* where a reply stands: writing, its card undecided or decided,
                \* ended by its turn, or broken off before or by the reaper
    leaf,       \* chats.active_leaf_id
    queued,     \* the chat's queued task row, if any
    run,        \* the turn a worker is executing, if any
    send,       \* the send being admitted, if any
    excused     \* user messages on the branch when its turn ended unanswered, and said so

vars == <<role, parent, card, leaf, queued, run, send, excused>>

\* A task names the message it answers, or the reply it finishes.
NoTask == [kind |-> "none", at |-> 0]
Task == [kind: {"none", "fresh", "resume"}, at: Ids]
NoRun == [pc |-> "idle", kind |-> "none", at |-> 0, reply |-> 0]
NoSend == [pc |-> "idle", at |-> 0, waits |-> FALSE, msg |-> 0]

TypeOK ==
    /\ role \in [Msgs -> {"none", "user", "assistant"}]
    /\ parent \in [Msgs -> Ids]
    /\ card \in [Msgs -> {"none", "running", "waiting", "decided", "done", "broken"}]
    /\ leaf \in Ids
    /\ queued \in Task
    /\ run \in [pc: {"idle", "claimed", "absorb", "insert", "point", "context", "streaming"},
                kind: {"none", "fresh", "resume"}, at: Ids, reply: Ids]
    /\ send \in [pc: {"idle", "read", "inserted", "saved"}, at: Ids, waits: BOOLEAN, msg: Ids]
    /\ excused \in SUBSET Msgs

Init ==
    /\ role = [m \in Msgs |-> "none"]
    /\ parent = [m \in Msgs |-> 0]
    /\ card = [m \in Msgs |-> "none"]
    /\ leaf = 0
    /\ queued = NoTask
    /\ run = NoRun
    /\ send = NoSend
    /\ excused = {}

-----------------------------------------------------------------------------
(* The tree.                                                               *)

\* The branch that ends at a message: a row's parent is always an older row.
Path[m \in Ids] == IF m = 0 THEN {} ELSE {m} \cup Path[parent[m]]

\* The id the next insert gets.
IsNew(m) == role[m] = "none" /\ \A n \in Msgs : n < m => role[n] # "none"

Insert(m, r, p, c) ==
    /\ IsNew(m)
    /\ role' = [role EXCEPT ![m] = r]
    /\ parent' = [parent EXCEPT ![m] = p]
    /\ card' = [card EXCEPT ![m] = c]

\* enqueueTask: the row takes the queued slot, or folds into the one there.
SlotFree == queued = NoTask
Admit(kind, m) == queued' = IF SlotFree THEN [kind |-> kind, at |-> m] ELSE queued

InSetup == run.pc \in {"absorb", "insert", "point"}
Sending == send.pc # "idle"

\* When the environment lets a send take its next step.
SendMay ==
    /\ InSetup => SendInSetup
    /\ queued.kind = "resume" => SendOverDecision

-----------------------------------------------------------------------------
(* A send, on the web or from Telegram.                                    *)

\* The chat row and the parent's status are read.
SendBegin ==
    /\ ~Sending /\ SendMay
    /\ send' = [pc |-> "read", at |-> leaf, msg |-> 0,
                waits |-> leaf # 0 /\ card[leaf] \in {"waiting", "decided"}]
    /\ UNCHANGED <<role, parent, card, leaf, queued, run, excused>>

\* An ordinary send inserts, then moves the leaf.
SendInsert(m) ==
    /\ send.pc = "read" /\ ~send.waits /\ SendMay
    /\ Insert(m, "user", send.at, "none")
    /\ send' = [pc |-> "inserted", at |-> send.at, waits |-> FALSE, msg |-> m]
    /\ UNCHANGED <<leaf, queued, run, excused>>

\* Mutant: the leaf stays where it was.
SendPointsNowhere ==
    /\ send.pc = "inserted" /\ SendMay
    /\ send' = [send EXCEPT !.pc = "saved"]
    /\ UNCHANGED <<role, parent, card, leaf, queued, run, excused>>

SendPoint ==
    /\ send.pc = "inserted" /\ SendMay
    /\ leaf' = send.msg
    /\ send' = [send EXCEPT !.pc = "saved"]
    /\ UNCHANGED <<role, parent, card, queued, run, excused>>

\* settleMovedPast: an undecided card is settled, a decided one left to its turn.
Settled(s) == IF s = "waiting" THEN "done" ELSE s

\* A send past a reply that waits does all of it in one transaction.
SendPast(m) ==
    /\ send.pc = "read" /\ send.waits /\ SendMay
    /\ IsNew(m)
    /\ role' = [role EXCEPT ![m] = "user"]
    /\ parent' = [parent EXCEPT ![m] = send.at]
    /\ card' = [card EXCEPT ![send.at] = Settled(@)]
    /\ leaf' = m
    /\ send' = [pc |-> "saved", at |-> send.at, waits |-> TRUE, msg |-> m]
    /\ UNCHANGED <<queued, run, excused>>

SendEnqueue ==
    /\ send.pc = "saved" /\ SendMay
    /\ Admit("fresh", send.msg)
    /\ send' = NoSend
    /\ UNCHANGED <<role, parent, card, leaf, run, excused>>

\* A send with no text: answer an existing user message again.
Regenerate(u) ==
    /\ ~Sending /\ SendMay
    /\ role[u] = "user"
    /\ Admit("fresh", u)
    /\ UNCHANGED <<role, parent, card, leaf, run, send, excused>>

-----------------------------------------------------------------------------
(* The card: approveManageForUser and answerAskForUser.                    *)

Decidable(m) == leaf = m /\ card[m] = "waiting"

\* Mutant: with the slot taken the decision is recorded all the same.
DecideBusy(m) ==
    /\ Decidable(m)
    /\ Sending => SendOverDecision
    /\ card' = [card EXCEPT ![m] = "decided"]
    /\ Admit("resume", m)
    /\ UNCHANGED <<role, parent, leaf, run, send, excused>>

\* The decision and its continuation are one transaction; with the queued slot
\* taken it rolls back ("busy").
Decide(m) ==
    /\ Decidable(m) /\ SlotFree
    /\ Sending => SendOverDecision
    /\ card' = [card EXCEPT ![m] = "decided"]
    /\ queued' = [kind |-> "resume", at |-> m]
    /\ UNCHANGED <<role, parent, leaf, run, send, excused>>

\* No model is left to run the continuation: settled on the spot.
DecideFailed(m) ==
    /\ Decidable(m)
    /\ card' = [card EXCEPT ![m] = "done"]
    /\ UNCHANGED <<role, parent, leaf, queued, run, send, excused>>

-----------------------------------------------------------------------------
(* Cancelling.  What the person is told about is the branch the chat shows *)
(* and the message the turn was for.                                       *)

Excuse(task) == excused' = excused \cup Path[leaf] \cup Path[task.at]

\* Mutants: the row is left waiting; it gets a status nothing else knows.
UnwaitNothing(task) == UNCHANGED card
UnwaitUnknown(task) ==
    card' = IF task.kind = "resume" THEN [card EXCEPT ![task.at] = "cancelled"] ELSE card

\* settleCancelledContinuation, for a continuation; nothing, for a fresh turn.
Unwait(task) ==
    card' = IF task.kind = "resume" /\ card[task.at] \in {"waiting", "decided"}
              THEN [card EXCEPT ![task.at] = "done"] ELSE card

\* cancelQueuedTurn.
CancelQueued ==
    /\ ~SlotFree
    /\ queued' = NoTask
    /\ Unwait(queued)
    /\ Excuse(queued)
    /\ UNCHANGED <<role, parent, leaf, run, send>>

\* The runner finds the flag before it starts.
CancelledEarly ==
    /\ run.pc = "claimed"
    /\ run' = NoRun
    /\ Unwait(run)
    /\ Excuse(run)
    /\ UNCHANGED <<role, parent, leaf, queued, send>>

-----------------------------------------------------------------------------
(* The runner.                                                             *)

Claim ==
    /\ run.pc = "idle" /\ ~SlotFree
    /\ run' = [pc |-> "claimed", kind |-> queued.kind, at |-> queued.at,
               reply |-> IF queued.kind = "resume" THEN queued.at ELSE 0]
    /\ queued' = NoTask
    /\ UNCHANGED <<role, parent, card, leaf, send, excused>>

\* Mutant: a turn always answers the message it was queued for.
UserLeafIgnored == FALSE

\* A fresh turn reads the leaf: a user message there is what it answers, and
\* then it absorbs; otherwise it answers its payload's message.
UserLeaf == leaf # 0 /\ role[leaf] = "user"

ReadLeaf ==
    /\ run.pc = "claimed" /\ run.kind = "fresh"
    /\ run' = IF UserLeaf THEN [run EXCEPT !.pc = "absorb", !.at = leaf]
                          ELSE [run EXCEPT !.pc = "insert"]
    /\ UNCHANGED <<role, parent, card, leaf, queued, send, excused>>

\* absorbQueuedTasks deletes whatever the chat has queued.
Absorb ==
    /\ run.pc = "absorb"
    /\ queued' = NoTask
    /\ run' = [run EXCEPT !.pc = "insert"]
    /\ UNCHANGED <<role, parent, card, leaf, send, excused>>

InsertReply(m) ==
    /\ run.pc = "insert"
    /\ Insert(m, "assistant", run.at, "running")
    /\ run' = [pc |-> "point", kind |-> run.kind, at |-> run.at, reply |-> m]
    /\ UNCHANGED <<leaf, queued, send, excused>>

PointLeaf ==
    /\ run.pc = "point"
    /\ leaf' = run.reply
    /\ run' = [run EXCEPT !.pc = "context"]
    /\ UNCHANGED <<role, parent, card, queued, send, excused>>

\* Mutant: the runner settles no card on its path.
GoesPastNone(m) == FALSE

\* The path is loaded, and the cards on it that still wait are settled.
GoesPast(m) == m # run.reply /\ m \in Path[run.reply]

LoadContext ==
    /\ run.pc = "context" \/ (run.pc = "claimed" /\ run.kind = "resume")
    /\ card' = [m \in Msgs |-> IF GoesPast(m) THEN Settled(card[m]) ELSE card[m]]
    /\ run' = [run EXCEPT !.pc = "streaming"]
    /\ UNCHANGED <<role, parent, leaf, queued, send, excused>>

\* The reply settles, whatever its status, or suspends on a card.
EndTurn(c) ==
    /\ run.pc = "streaming"
    /\ c \in {"done", "waiting"}
    /\ card' = [card EXCEPT ![run.reply] = c]
    /\ run' = NoRun
    /\ UNCHANGED <<role, parent, leaf, queued, send, excused>>

\* Set-up throws before the reply exists: commitTurnOutcome inserts a failed
\* reply under the payload's message and points the chat at it.
FailEarly(m) ==
    /\ run.pc = "claimed" /\ run.kind = "fresh"
    /\ run.at = leaf \/ FailOverFold
    /\ Insert(m, "assistant", run.at, "broken")
    /\ leaf' = m
    /\ run' = NoRun
    /\ UNCHANGED <<queued, send, excused>>

\* Mutant: the reaper does not reach a row that still waits.
ReapedRunning ==
    /\ run.pc # "idle"
    /\ card' = [m \in Msgs |->
          IF m = run.reply /\ card[m] = "running" THEN "broken" ELSE card[m]]
    /\ run' = NoRun
    /\ Excuse(run)
    /\ UNCHANGED <<role, parent, leaf, queued, send>>

\* The worker dies; the reaper fails the task and whatever row it left open.
Reaped ==
    /\ run.pc # "idle"
    /\ card' = [m \in Msgs |->
          IF m = run.reply /\ card[m] \in {"running", "waiting", "decided"}
            THEN "broken" ELSE card[m]]
    /\ run' = NoRun
    /\ Excuse(run)
    /\ UNCHANGED <<role, parent, leaf, queued, send>>

-----------------------------------------------------------------------------
RunStep ==
    \/ Claim \/ ReadLeaf \/ Absorb \/ PointLeaf \/ LoadContext
    \/ \E m \in Msgs : InsertReply(m)
    \/ \E c \in {"done", "waiting"} : EndTurn(c)

SendStep ==
    \/ SendBegin \/ SendPoint \/ SendEnqueue
    \/ \E m \in Msgs : SendInsert(m) \/ SendPast(m) \/ Regenerate(m)

Next ==
    \/ RunStep \/ SendStep
    \/ CancelQueued \/ CancelledEarly \/ Reaped
    \/ \E m \in Msgs : Decide(m) \/ DecideFailed(m) \/ FailEarly(m)

Spec == Init /\ [][Next]_vars

\* A queued turn is claimed, and a claimed one is carried on or reaped.
FairSpec == Spec /\ WF_vars(RunStep \/ Reaped)

-----------------------------------------------------------------------------
(* Properties.                                                             *)

Idle == SlotFree /\ run.pc = "idle" /\ ~Sending
Users == {m \in Msgs : role[m] = "user"}
Answered(u) == \E m \in Msgs : role[m] = "assistant" /\ u \in Path[m]

\* Once a chat is idle every message the person sent has a reply below it, unless
\* they were told that the turn over it was cancelled or interrupted: what folding
\* into a pending turn and absorbing queued ones both promise.
IdleMeansAnswered == Idle => \A u \in Users : Answered(u) \/ u \in excused

\* No message is lost from sight: an idle chat's unanswered messages are on the
\* branch it shows, where the next turn reads them.
WordsKept == Idle => \A u \in Users : Answered(u) \/ u \in Path[leaf]

\* A decision always has the turn that acts on it, queued or running: approving,
\* cancelling, absorbing and reaping leave no decided card behind.
NoOrphanDecision ==
    \A m \in Msgs : card[m] = "decided" =>
        \/ queued = [kind |-> "resume", at |-> m]
        \/ run.kind = "resume" /\ run.at = m

\* No live card is left behind a reply that ran: whichever of the send and the turn
\* goes past a waiting card settles it, also when the card appeared in between.
NoCardBehindReply ==
    \A n \in Msgs : card[n] \in {"waiting", "decided", "done"} =>
        \A m \in Path[parent[n]] : card[m] # "waiting"

\* A decision is acted on or closed: its card does not spin for ever.
DecidedSettles == \A m \in Msgs : card[m] = "decided" ~> card[m] # "decided"
=============================================================================
