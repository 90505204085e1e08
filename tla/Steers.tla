------------------------------- MODULE Steers -------------------------------
(***************************************************************************)
(* Words sent to a turn that is already running.  appendSteer adds them to *)
(* the task row; prepareStep folds what it has not read into the prompt of *)
(* the next step and records it on the reply; what arrives after the last  *)
(* step becomes a message when the turn ends, unless the turn suspended    *)
(* for a person, when the continuation, another task row, takes it over.   *)
(*                                                                         *)
(* One reply and the tasks that write it, its halves, one after another.   *)
(* Steers are numbered in the order they were accepted.                    *)
(***************************************************************************)
EXTENDS Integers, Sequences, FiniteSets, SequencesExt

CONSTANTS
    MaxSteers,     \* bound: steers ever accepted
    PerTurn,       \* STEER_MAX_PER_TURN
    MaxHalves,     \* bound: tasks that write the reply, continuations included
    Mishaps        \* BOOLEAN: crashes, reaping and failing epilogues happen

ASSUME SteerAssumption ==
    /\ MaxSteers \in Nat /\ {PerTurn, MaxHalves} \subseteq Nat \ {0}
    /\ Mishaps \in BOOLEAN

VARIABLES
    accepted,   \* history: steers the endpoint answered ok for
    half,       \* the current task of the reply
    steers,     \* steers[h]: column tasks.steers of half h
    status,     \* status of the current half's task row
    pc,         \* its runner: "off", "setup", "ready" (no step yet),
                \* "streaming", "publish", "keep", "point", "answer"
    outcome,    \* what the runner is ending the turn with
    read,       \* steersRead, the cursor into the column
    carried,    \* carriedSteers, from the half that suspended
    consumed,   \* consumedSteers, folded into the prompt
    meta,       \* the reply row: whose snapshot, which steers, its status
    kept,       \* steers written as messages, in order
    leaf,       \* the chat's active leaf: "reply", "steer" or "send"
    send,       \* the person's own message: "none", "inserted", "pointed"
    followUp,   \* a turn was queued to answer the kept steers
    excused     \* history: steers whose turn was given up on

vars == <<accepted, half, steers, status, pc, outcome, read, carried, consumed,
          meta, kept, leaf, send, followUp, excused>>

Halves == 1..MaxHalves
Ends == {"completed", "failed", "cancelled"}

Init ==
    /\ accepted = 0 /\ half = 1 /\ steers = [h \in Halves |-> <<>>]
    /\ status = "running" /\ pc = "setup" /\ outcome = "none"
    /\ read = 0 /\ carried = <<>> /\ consumed = <<>>
    /\ meta = [task |-> 1, steers |-> <<>>, status |-> "running"]
    /\ kept = <<>> /\ leaf = "reply" /\ send = "none" /\ followUp = FALSE
    /\ excused = {}

\* What the current half has not folded in, as far as its runner knows.
Unread == carried \o SubSeq(steers[half], read + 1, Len(steers[half]))

\* appendSteer: one statement, on a running turn that is not full.
AppendSteer ==
    /\ status = "running" /\ Len(steers[half]) < PerTurn /\ accepted < MaxSteers
    /\ accepted' = accepted + 1
    /\ steers' = [steers EXCEPT ![half] = Append(@, accepted + 1)]
    /\ UNCHANGED <<half, status, pc, outcome, read, carried, consumed, meta,
                   kept, leaf, send, followUp, excused>>

\* Mutant: a continuation takes over what is on record only.
CarriedNone(m) == <<>>

\* What a continuation takes over from the row: the steers recorded on it,
\* and those the half that wrote it never folded in.
CarriedFrom(m) ==
    SubSeq(steers[m.task], Len(m.steers) + 1, Len(steers[m.task]))

SetUp ==
    /\ pc = "setup"
    /\ pc' = "ready"
    /\ IF half = 1
       THEN UNCHANGED <<carried, consumed>>
       ELSE /\ consumed' = meta.steers
            /\ carried' = CarriedFrom(meta)
    /\ UNCHANGED <<accepted, half, steers, status, outcome, read, meta, kept,
                   leaf, send, followUp, excused>>

\* prepareStep: everything unread goes into the prompt and on the record.
PrepareStep ==
    /\ pc \in {"ready", "streaming"}
    /\ pc' = "streaming"
    /\ consumed' = consumed \o Unread
    /\ carried' = <<>>
    /\ read' = Len(steers[half])
    /\ UNCHANGED <<accepted, half, steers, status, outcome, meta, kept, leaf,
                   send, followUp, excused>>

\* saveSnapshot replaces the row's metadata, steers included.
SaveSnapshot ==
    /\ pc = "streaming"
    /\ meta' = [task |-> half, steers |-> consumed, status |-> "running"]
    /\ UNCHANGED <<accepted, half, steers, status, pc, outcome, read, carried,
                   consumed, kept, leaf, send, followUp, excused>>

\* commitTurnOutcome, of the stream's end or of the catch block: the task and
\* the reply are settled together.  A suspended turn's task is completed.  A
\* turn fails or is stopped at any point, the other ends follow a step.
Commit(o) ==
    /\ pc = "streaming" \/ (pc = "ready" /\ o \in {"failed", "cancelled"})
    /\ IF status = "running"
       THEN /\ status' = IF o = "awaiting" THEN "completed" ELSE o
            /\ meta' = [task |-> half, steers |-> consumed, status |-> o]
            /\ outcome' = o
            /\ pc' = "publish"
            /\ UNCHANGED excused
       ELSE /\ pc' = "off"             \* reaped meanwhile: stand down
            /\ UNCHANGED <<status, meta, outcome, excused>>
    /\ UNCHANGED <<accepted, half, steers, read, carried, consumed, kept, leaf,
                   send, followUp>>

\* Mutant: a suspended turn's steers are written as a message as well.
LateSteerPlanAlways(o) == [persist |-> TRUE, answer |-> o = "completed"]

LateSteerPlan(o) ==
    [persist |-> o # "awaiting", answer |-> o = "completed"]

\* task:finish goes out; the epilogue follows if the plan has one.
PublishFinish ==
    /\ pc = "publish"
    /\ pc' = IF LateSteerPlan(outcome).persist THEN "keep" ELSE "off"
    /\ UNCHANGED <<accepted, half, steers, status, outcome, read, carried,
                   consumed, meta, kept, leaf, send, followUp, excused>>

\* persistUnreadSteers: the words become one user message under the reply.
Keep ==
    /\ pc = "keep"
    /\ kept' = kept \o Unread
    /\ pc' = IF Unread = <<>> THEN "off" ELSE "point"
    /\ UNCHANGED <<accepted, half, steers, status, outcome, read, carried,
                   consumed, meta, leaf, send, followUp, excused>>

\* Mutant: the leaf is moved whoever holds it.
LeafFreeAlways == TRUE

\* The message takes the leaf only from the reply it hangs off.
LeafFree == leaf = "reply"

Point ==
    /\ pc = "point"
    /\ leaf' = IF LeafFree THEN "steer" ELSE leaf
    /\ pc' = IF LeafFree /\ LateSteerPlan(outcome).answer THEN "answer" ELSE "off"
    /\ UNCHANGED <<accepted, half, steers, status, outcome, read, carried,
                   consumed, meta, kept, send, followUp, excused>>

\* The follow-up turn, if the flood bucket and the budget let it through.
QueueFollowUp(admitted) ==
    /\ pc = "answer"
    /\ followUp' = admitted
    /\ pc' = "off"
    /\ UNCHANGED <<accepted, half, steers, status, outcome, read, carried,
                   consumed, meta, kept, leaf, send, excused>>

----------------------------------------------------------------------------
(* The person.                                                             *)

\* Approve or answer: a continuation is queued and claimed, a new task.
Continue ==
    /\ pc = "off" /\ meta.status = "awaiting" /\ half < MaxHalves /\ leaf = "reply"
    /\ half' = half + 1
    /\ status' = "running" /\ pc' = "setup" /\ outcome' = "none"
    /\ read' = 0 /\ carried' = <<>> /\ consumed' = <<>>
    /\ UNCHANGED <<accepted, steers, meta, kept, leaf, send, followUp, excused>>

\* Steers accepted so far that neither the reply row nor a message holds.
Unsaved == (1..accepted) \ (ToSet(meta.steers) \cup ToSet(kept))

\* The person sends past a reply that waits, or cancels its continuation
\* while it is queued: no half will follow.
GivenUp ==
    /\ pc = "off" /\ meta.status = "awaiting"
    /\ meta' = [meta EXCEPT !.status = "completed"]
    /\ excused' = excused \cup Unsaved
    /\ UNCHANGED <<accepted, half, steers, status, pc, outcome, read, carried,
                   consumed, kept, leaf, send, followUp>>

\* The person's own message, once the reply has ended: written, then pointed at.
SendInsert ==
    /\ send = "none" /\ meta.status \in Ends /\ leaf = "reply"
    /\ send' = "inserted"
    /\ UNCHANGED <<accepted, half, steers, status, pc, outcome, read, carried,
                   consumed, meta, kept, leaf, followUp, excused>>

SendPoint ==
    /\ send = "inserted"
    /\ send' = "pointed"
    /\ leaf' = "send"
    /\ UNCHANGED <<accepted, half, steers, status, pc, outcome, read, carried,
                   consumed, meta, kept, followUp, excused>>

----------------------------------------------------------------------------
(* What goes wrong.                                                        *)

\* The process dies, or an await of its epilogue throws: what its memory and
\* the task row held is not looked at again.
Crash ==
    /\ Mishaps /\ pc # "off"
    /\ pc' = "off"
    /\ excused' = excused \cup Unsaved
    /\ UNCHANGED <<accepted, half, steers, status, outcome, read, carried,
                   consumed, meta, kept, leaf, send, followUp>>

\* reconcileZombies settles a turn whose lease lapsed, dead or alive.
Reap ==
    /\ Mishaps /\ status = "running"
    /\ status' = "failed"
    /\ meta' = [meta EXCEPT !.status = "failed"]
    /\ excused' = excused \cup Unsaved
    /\ UNCHANGED <<accepted, half, steers, pc, outcome, read, carried, consumed,
                   kept, leaf, send, followUp>>

Next ==
    \/ AppendSteer \/ SetUp \/ PrepareStep \/ SaveSnapshot
    \/ \E o \in Ends \cup {"awaiting"} : Commit(o)
    \/ PublishFinish \/ Keep \/ Point
    \/ \E admitted \in BOOLEAN : QueueFollowUp(admitted)
    \/ Continue \/ GivenUp \/ SendInsert \/ SendPoint
    \/ Crash \/ Reap

Spec == Init /\ [][Next]_vars

----------------------------------------------------------------------------
TypeOK ==
    /\ accepted \in 0..MaxSteers /\ half \in Halves
    /\ steers \in [Halves -> Seq(1..MaxSteers)]
    /\ status \in {"running"} \cup Ends
    /\ pc \in {"off", "setup", "ready", "streaming", "publish", "keep", "point",
               "answer"}
    /\ outcome \in {"none"} \cup Ends \cup {"awaiting"}
    /\ read \in 0..PerTurn /\ carried \in Seq(1..MaxSteers)
    /\ consumed \in Seq(1..MaxSteers) /\ kept \in Seq(1..MaxSteers)
    /\ meta \in [task : Halves, steers : Seq(1..MaxSteers),
                 status : {"running"} \cup Ends \cup {"awaiting"}]
    /\ leaf \in {"reply", "steer", "send"}
    /\ send \in {"none", "inserted", "pointed"} /\ followUp \in BOOLEAN
    /\ excused \subseteq 1..MaxSteers

(***************************************************************************)
(* Words the endpoint took are not lost ("losing those words is the one    *)
(* outcome this feature cannot have", runner.ts:184-185): when the reply   *)
(* has ended they are on its record or in a message of their own, unless   *)
(* the turn was given up on under them: reaped, crashed, moved past.       *)
(***************************************************************************)
SteersKept ==
    pc = "off" /\ status # "running" /\ meta.status \in Ends
        => Unsaved \subseteq excused

(***************************************************************************)
(* Nor are they said twice: no steer is folded in by two halves, written   *)
(* to two messages, or folded in and written as well.                      *)
(***************************************************************************)
SaidOnce ==
    /\ \A s \in {consumed, meta.steers, kept} : IsInjective(s)
    /\ ToSet(kept) \cap (ToSet(consumed) \cup ToSet(meta.steers)) = {}

(***************************************************************************)
(* A message of late steers never takes the leaf from the person's own     *)
(* send, which unblocked when the turn ended.                              *)
(***************************************************************************)
SendStands == [][leaf = "send" => leaf' = "send"]_vars
=============================================================================
