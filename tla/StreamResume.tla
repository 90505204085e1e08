---------------------------- MODULE StreamResume ----------------------------
(***************************************************************************)
(* One reply as it streams to one browser tab.  The runner appends tokens  *)
(* to the reply, publishes them in numbered batches (task:text-delta) and  *)
(* now and then saves a snapshot of the reply, with the number it covers,  *)
(* to the message row.  NOTIFY and SSE have no replay, so a tab that opens *)
(* late, or misses an event, loads the row and fits the events it gets     *)
(* onto it: classifyStreamEvent, planGapDrain, createStreamRecovery, the   *)
(* delta pacer and the handlers of useBackgroundChat.                      *)
(*                                                                         *)
(* Tokens are numbers in the order the model produced them, over all       *)
(* attempts, so text repeated, skipped or out of order shows in the        *)
(* numbers.  Tool events travel like deltas and are not told apart.        *)
(***************************************************************************)
EXTENDS Integers, Sequences, FiniteSets, SequencesExt

CONSTANTS
    MaxTokens,    \* bound: tokens the model ever produces
    MaxMishaps,   \* bound: attempts thrown away, other events that make the
                  \* tab reload and requests that fail, together
    MaxTransit,   \* bound: events on their way to the tab
    MaxLoads,     \* bound: requests for the history in flight at once
    GapBuffer,    \* MAX_GAP_BUFFER
    Paced,        \* BOOLEAN: text goes through the delta pacer
    SaveAhead,    \* BOOLEAN: a snapshot may hold text not yet published
    SlowLoads,    \* BOOLEAN: an answer from before the reply existed may
                  \* still be on its way when its turn ends
    LostFinish    \* BOOLEAN: task:finish may be lost like any event

ASSUME StreamAssumption ==
    /\ {MaxTokens, MaxMishaps} \subseteq Nat
    /\ {MaxTransit, MaxLoads, GapBuffer} \subseteq Nat \ {0}
    /\ Paced \in BOOLEAN /\ SaveAhead \in BOOLEAN /\ {SlowLoads, LostFinish} \subseteq BOOLEAN

VARIABLES
    stage,     \* the turn: "setup", "opened", "streaming", "ended", "told"
    produced,  \* how many tokens the model has produced
    parts,     \* the runner's copy of the reply
    buf,       \* how many tokens at its end are not published yet (textBuf)
    seq,       \* number of the last event published
    log,       \* history: log[n] is the reply as of event n
    row,       \* the message row
    chan,      \* events on their way to the tab
    mishaps,   \* how many mishaps there were (see MaxMishaps)
    mounted,   \* the tab has the chat open
    status,    \* what the tab says of the turn: "idle" or "running"
    shown,     \* the reply in the tab's copy, or Absent
    cursor,    \* appliedSeqRef of the reply, -1 when it has none
    held,      \* recovery's buffer of events past a gap
    recon,     \* recovery: "rest", "timer" (a retry is armed), "going"
    owed,      \* recovery was asked for a reload with nothing held
    backlog,   \* the pacer's queue: one event of all the text not shown yet
    loads,     \* requests for the history, as they were answered
    error,     \* the tab's "could not load" banner
    clean      \* history: the copy owes nothing to a case Exact sets aside

runner == <<stage, produced, parts, buf, seq, log, row>>
tab == <<mounted, status, shown, cursor, held, recon, owed, backlog, loads,
         error, clean>>
vars == <<runner, chan, mishaps, tab>>

Absent == <<0>>
NoBacklog == [seq |-> 0, toks |-> <<>>]
NoRow == [st |-> "none", parts |-> <<>>, seq |-> 0]
Asked == [st |-> "asked", parts |-> <<>>, seq |-> 0]
Free == [kind |-> "free", got |-> NoRow]
LoadIds == 1..MaxLoads

Present == shown # Absent

Event(kind, n, toks) == [kind |-> kind, seq |-> n, toks |-> toks, paced |-> FALSE]

Init ==
    /\ stage = "setup" /\ produced = 0 /\ parts = <<>> /\ buf = 0
    /\ seq = 0 /\ log = [n \in {0} |-> <<>>] /\ row = NoRow
    /\ chan = <<>> /\ mishaps = 0
    /\ mounted = FALSE /\ status = "idle" /\ shown = Absent /\ cursor = -1
    /\ held = <<>> /\ recon = "rest" /\ owed = FALSE /\ backlog = NoBacklog
    /\ loads = [i \in LoadIds |-> Free]
    /\ error = FALSE /\ clean = TRUE

----------------------------------------------------------------------------
(* The runner.                                                             *)

Publish(e) == Len(chan) < MaxTransit /\ chan' = Append(chan, e)

\* runAgentTask inserts the reply row, running and empty.
OpenRow ==
    /\ stage = "setup"
    /\ stage' = "opened"
    /\ row' = [NoRow EXCEPT !.st = "running"]
    /\ UNCHANGED <<produced, parts, buf, seq, log, chan, mishaps, tab>>

\* task:start carries number 0.
PublishStart ==
    /\ stage = "opened"
    /\ stage' = "streaming"
    /\ Publish(Event("start", 0, <<>>))
    /\ UNCHANGED <<produced, parts, buf, seq, log, row, mishaps, tab>>

\* A text-delta of the model: into parts at once, into textBuf for later.
Token ==
    /\ stage = "streaming" /\ produced < MaxTokens
    /\ produced' = produced + 1
    /\ parts' = Append(parts, produced + 1)
    /\ buf' = buf + 1
    /\ UNCHANGED <<stage, seq, log, row, chan, mishaps, tab>>

Unpublished == SubSeq(parts, Len(parts) - buf + 1, Len(parts))

\* flushText: what is buffered is published under the next number.
Flush ==
    /\ stage = "streaming" /\ buf > 0
    /\ buf' = 0
    /\ seq' = seq + 1
    /\ log' = [n \in 0..(seq + 1) |-> IF n > seq THEN parts ELSE log[n]]
    /\ Publish(Event("delta", seq + 1, Unpublished))
    /\ UNCHANGED <<stage, produced, parts, row, mishaps, tab>>

\* The number a snapshot records: text that is buffered counts as the one
\* event that will publish it.
SnapSeq == seq + (IF buf > 0 THEN 1 ELSE 0)
\* saveSnapshot, at the end of a flush or, one still owed, instead of it;
\* tokens may have arrived in between.
Save ==
    /\ stage = "streaming"
    /\ SaveAhead \/ buf = 0
    /\ row' = [st |-> "running", parts |-> parts, seq |-> SnapSeq]
    /\ UNCHANGED <<stage, produced, parts, buf, seq, log, chan, mishaps, tab>>

\* discardPartial: the attempt and what it has buffered are dropped.
Discard ==
    /\ stage = "streaming" /\ mishaps < MaxMishaps
    /\ mishaps' = mishaps + 1
    /\ parts' = <<>> /\ buf' = 0
    /\ seq' = seq + 1
    /\ log' = [n \in 0..(seq + 1) |-> IF n > seq THEN <<>> ELSE log[n]]
    /\ Publish(Event("reset", seq + 1, <<>>))
    /\ UNCHANGED <<stage, produced, row, tab>>

\* commitTurnOutcome writes the final reply.
EndTurn ==
    /\ stage = "streaming"
    /\ SlowLoads \/ \A i \in LoadIds : loads[i].got = NoRow => loads[i] = Free
    /\ stage' = "ended"
    /\ row' = [st |-> "done", parts |-> parts, seq |-> seq]
    /\ UNCHANGED <<produced, parts, buf, seq, log, chan, mishaps, tab>>

PublishFinish ==
    /\ stage = "ended"
    /\ stage' = "told"
    /\ Publish(Event("finish", seq, <<>>))
    /\ UNCHANGED <<produced, parts, buf, seq, log, row, mishaps, tab>>

----------------------------------------------------------------------------
(* The way to the tab: NOTIFY, the SSE route and its reconnects (external).*)

\* Another event of the chat that makes the tab reload.
Ping ==
    /\ mishaps < MaxMishaps /\ stage \in {"streaming", "ended"}
    /\ mishaps' = mishaps + 1
    /\ Publish(Event("ping", 0, <<>>))
    /\ UNCHANGED <<runner, tab>>

\* An event is lost, or nobody has the chat open.
Lose ==
    /\ chan # <<>>
    /\ LostFinish \/ ~mounted \/ Head(chan).kind # "finish"
    /\ chan' = Tail(chan)
    /\ UNCHANGED <<runner, mishaps, tab>>

\* A payload over the limit arrives as a marker.
Truncate ==
    /\ chan # <<>> /\ Head(chan).kind = "delta"
    /\ chan' = <<Event("marker", 0, <<>>)>> \o Tail(chan)
    /\ UNCHANGED <<runner, mishaps, tab>>

----------------------------------------------------------------------------
(* The tab: requests.                                                      *)

\* A request of the given kind leaves the tab.
Ask(kind, i) ==
    /\ loads[i] = Free /\ \A j \in 1..(i - 1) : loads[j] # Free
    /\ loads' = [loads EXCEPT ![i] = [kind |-> kind, got |-> Asked]]

\* The chat is opened: its history is loaded, its turn asked for.
Mount(i) ==
    /\ ~mounted
    /\ mounted' = TRUE
    /\ status' = IF stage \in {"ended", "told"} THEN "idle" ELSE "running"
    /\ Ask("history", i)
    /\ UNCHANGED <<runner, chan, mishaps, shown, cursor, held, recon, owed,
                   backlog, error, clean>>

\* The server answers a request with the row as it is.
Answer(i) ==
    /\ loads[i].got = Asked
    /\ loads' = [loads EXCEPT ![i].got = row]
    /\ UNCHANGED <<runner, chan, mishaps, mounted, status, shown, cursor, held,
                   recon, owed, backlog, error, clean>>

Answered(i, kinds) == loads[i].kind \in kinds /\ loads[i].got # Asked

\* Mutant: the last event applied is applied again.
ClassifyAgain(c, n) ==
    CASE n < c -> "ignore"
      [] n \in {c, c + 1} -> "apply"
      [] OTHER -> "reconcile"

Classify(c, n) ==
    CASE n <= c -> "ignore"
      [] n = c + 1 -> "apply"
      [] OTHER -> "reconcile"

\* Mutant: replay goes on past a hole.
PlanOverHole(h, c) ==
    [cur |-> IF h = <<>> THEN c ELSE Last(h).seq, keep |-> <<>>,
     replay |-> SelectSeq(h, LAMBDA e : e.seq > c)]

\* planGapDrain: what the held events h amount to over cursor c.
PlanEvent(acc, e) ==
    IF acc.keep # <<>> THEN [acc EXCEPT !.keep = Append(@, e)]
    ELSE CASE Classify(acc.cur, e.seq) = "ignore" -> acc
           [] Classify(acc.cur, e.seq) = "reconcile" -> [acc EXCEPT !.keep = <<e>>]
           [] OTHER -> [acc EXCEPT !.cur = e.seq, !.replay = Append(@, e)]

Plan(h, c) == FoldLeft(PlanEvent, [cur |-> c, replay |-> <<>>, keep |-> <<>>], h)

TextOf(events) == FoldLeft(LAMBDA acc, e : acc \o e.toks, <<>>, events)

\* reconcile(): a reload is under way or armed, or one is armed now.
Reconciling == IF recon = "rest" THEN "timer" ELSE recon

\* drain() over the copy the load left: s, c.
Drain(s, c) ==
    LET p == Plan(held, c)
    IN  IF s = Absent
        THEN /\ held' = p.replay \o p.keep
             /\ shown' = s /\ cursor' = c
        ELSE /\ held' = p.keep
             /\ shown' = s \o TextOf(p.replay) /\ cursor' = p.cur

\* What loadHistory makes of the copy and its cursor.
Loaded(r) == IF r.st = "none" THEN Absent ELSE r.parts

\* Mutant: the cursor never goes back to what was loaded.
CursorOfNewest(r) ==
    IF r.st = "running" /\ r.seq > cursor THEN r.seq ELSE cursor

CursorOf(r) == IF r.st = "running" THEN r.seq ELSE cursor

StatusOf(r) == IF r.st = "running" THEN "running" ELSE status

CleanCopy(r) ==
    /\ r.st = "running"
    /\ backlog = NoBacklog
    /\ \A k \in DOMAIN held : ~held[k].paced

\* A history load that was not asked for by the recovery lands.
LandHistory(i) ==
    /\ Answered(i, {"history"})
    /\ loads' = [loads EXCEPT ![i] = Free]
    /\ shown' = Loaded(loads[i].got)
    /\ cursor' = CursorOf(loads[i].got)
    /\ status' = StatusOf(loads[i].got)
    /\ error' = FALSE
    /\ clean' = CleanCopy(loads[i].got)
    /\ UNCHANGED <<runner, chan, mishaps, mounted, held, recon, owed, backlog>>

\* The recovery's reload lands and what it left uncovered is replayed.
LandRecovery(i) ==
    /\ Answered(i, {"recovery"})
    /\ loads' = [loads EXCEPT ![i] = Free]
    /\ Drain(Loaded(loads[i].got), CursorOf(loads[i].got))
    /\ recon' = IF held' # <<>> \/ owed THEN "timer" ELSE "rest"
    /\ status' = StatusOf(loads[i].got)
    /\ error' = FALSE
    /\ clean' = CleanCopy(loads[i].got)
    /\ UNCHANGED <<runner, chan, mishaps, mounted, owed, backlog>>

\* refreshTurn's read lands: a row that is still running, or that the copy
\* does not have, makes it load the history instead.
LandTurn(i) ==
    /\ Answered(i, {"turn", "poll"})
    /\ IF loads[i].got.st = "done" /\ (Present \/ loads[i].kind = "poll")
       THEN /\ loads' = [loads EXCEPT ![i] = Free]
            /\ shown' = Loaded(loads[i].got)
            /\ error' = FALSE
            /\ clean' = FALSE
       ELSE /\ loads' = [loads EXCEPT ![i] = [kind |-> "history", got |-> Asked]]
            /\ UNCHANGED <<shown, error, clean>>
    /\ UNCHANGED <<runner, chan, mishaps, mounted, status, cursor, held, recon,
                   owed, backlog>>

\* A request fails: refreshTurn falls back to the history, the recovery
\* drains what it can with the cursor it has.
FailLoad(i) ==
    /\ loads[i] # Free /\ mishaps < MaxMishaps
    /\ mishaps' = mishaps + 1
    /\ CASE loads[i].kind \in {"turn", "poll"} ->
              /\ loads' = [loads EXCEPT ![i] = [kind |-> "history", got |-> Asked]]
              /\ UNCHANGED <<shown, cursor, held, recon, error>>
         [] loads[i].kind = "history" ->
              /\ loads' = [loads EXCEPT ![i] = Free]
              /\ error' = TRUE
              /\ UNCHANGED <<shown, cursor, held, recon>>
         [] OTHER ->
              /\ loads' = [loads EXCEPT ![i] = Free]
              /\ error' = TRUE
              /\ Drain(shown, cursor)
              /\ recon' = IF held' # <<>> \/ owed THEN "timer" ELSE "rest"
    /\ UNCHANGED <<runner, chan, mounted, status, owed, backlog, clean>>

\* The retry timer fires, or a reload asked for starts at once.
Reload(i) ==
    /\ recon = "timer"
    /\ recon' = "going"
    /\ owed' = FALSE
    /\ Ask("recovery", i)
    /\ UNCHANGED <<runner, chan, mishaps, mounted, status, shown, cursor, held,
                   backlog, error, clean>>

\* Mutant: it only says so.
PollIdles(i) ==
    /\ mounted /\ status = "running" /\ stage \in {"ended", "told"}
    /\ loads[i] = Free
    /\ status' = "idle"
    /\ UNCHANGED <<runner, chan, mishaps, mounted, shown, cursor, held, recon,
                   owed, backlog, loads, error, clean>>

\* The polling fallback: the task is not running any more.
Poll(i) ==
    /\ mounted /\ status = "running" /\ stage \in {"ended", "told"}
    /\ status' = "idle"
    /\ Ask("poll", i)
    /\ UNCHANGED <<runner, chan, mishaps, mounted, shown, cursor, held, recon,
                   owed, backlog, error, clean>>

----------------------------------------------------------------------------
(* The tab: events.                                                        *)

Holding(h, e) == Append(IF Len(h) >= GapBuffer THEN <<>> ELSE h, e)

Hold(e) ==
    /\ held' = Holding(held, e)
    /\ recon' = Reconciling

Incoming(kind) == mounted /\ chan # <<>> /\ Head(chan).kind = kind

\* A delta the copy already has.
Ignore ==
    /\ Incoming("delta") /\ Classify(cursor, Head(chan).seq) = "ignore"
    /\ chan' = Tail(chan)
    /\ UNCHANGED <<runner, mishaps, tab>>

\* A delta past a gap is held and a reload set going.
Gap ==
    /\ Incoming("delta") /\ Classify(cursor, Head(chan).seq) = "reconcile"
    /\ chan' = Tail(chan)
    /\ Hold(Head(chan))
    /\ UNCHANGED <<runner, mishaps, mounted, status, shown, cursor, owed, backlog,
                   loads, error, clean>>

\* The next delta moves the cursor; its text waits in the pacer, where it
\* joins the event that waits there already and takes that event's number.
NextDelta ==
    /\ Incoming("delta") /\ Classify(cursor, Head(chan).seq) = "apply"
    /\ chan' = Tail(chan)
    /\ cursor' = Head(chan).seq
    /\ IF Paced
       THEN /\ backlog' = [seq |-> IF backlog = NoBacklog THEN Head(chan).seq ELSE backlog.seq,
                           toks |-> backlog.toks \o Head(chan).toks]
            /\ UNCHANGED <<shown, held, recon>>
       ELSE IF Present
       THEN /\ shown' = shown \o Head(chan).toks
            /\ UNCHANGED <<held, recon, backlog>>
       ELSE /\ Hold(Head(chan))
            /\ UNCHANGED <<shown, backlog>>
    /\ UNCHANGED <<runner, mishaps, mounted, status, owed, loads, error, clean>>

\* The pacer lets text go: a word on its tick, or everything ahead of an
\* event that is not a delta.
Release(k) ==
    /\ backlog # NoBacklog /\ k \in 1..Len(backlog.toks)
    /\ backlog' = IF k = Len(backlog.toks) THEN NoBacklog
                  ELSE [backlog EXCEPT !.toks = SubSeq(@, k + 1, Len(@))]
    /\ IF Present
       THEN /\ shown' = shown \o SubSeq(backlog.toks, 1, k)
            /\ UNCHANGED <<held, recon, clean>>
       ELSE /\ Hold([kind |-> "delta", seq |-> backlog.seq,
                     toks |-> SubSeq(backlog.toks, 1, k), paced |-> TRUE])
            /\ clean' = FALSE
            /\ UNCHANGED shown
    /\ UNCHANGED <<runner, chan, mishaps, mounted, status, cursor, owed, loads,
                   error>>

\* Mutant: it does.
BaselineZero(c) == 0

\* task:start never lowers a cursor.
Baseline(c) == IF c < 0 THEN 0 ELSE c

OnStart ==
    /\ Incoming("start") /\ backlog = NoBacklog
    /\ chan' = Tail(chan)
    /\ status' = "running"
    /\ cursor' = Baseline(cursor)
    /\ shown' = IF Present THEN shown ELSE <<>>
    /\ clean' = (clean /\ (Present \/ cursor < 0))
    /\ UNCHANGED <<runner, mishaps, mounted, held, recon, owed, backlog, loads,
                   error>>

\* task:reset empties the reply and moves the cursor, forwards or back.
OnReset ==
    /\ Incoming("reset") /\ backlog = NoBacklog
    /\ chan' = Tail(chan)
    /\ cursor' = Head(chan).seq
    /\ shown' = IF Present THEN <<>> ELSE shown
    /\ clean' = (clean \/ Present)
    /\ UNCHANGED <<runner, mishaps, mounted, status, held, recon, owed, backlog,
                   loads, error>>


\* task:finish: the turn is read once more.
OnFinish(i) ==
    /\ Incoming("finish") /\ backlog = NoBacklog
    /\ chan' = Tail(chan)
    /\ status' = "idle"
    /\ cursor' = -1
    /\ held' = <<>> /\ owed' = FALSE   \* recovery.drop
    /\ recon' = IF recon = "timer" THEN "rest" ELSE recon
    /\ Ask("turn", i)
    /\ UNCHANGED <<runner, mishaps, mounted, shown, backlog, error, clean>>

\* The marker of an oversized event asks for a reload and moves no cursor.
OnMarker ==
    /\ Incoming("marker")
    /\ chan' = Tail(chan)
    /\ owed' = TRUE
    /\ recon' = Reconciling
    /\ UNCHANGED <<runner, mishaps, mounted, status, shown, cursor, held, backlog,
                   loads, error, clean>>

OnPing(i) ==
    /\ Incoming("ping") /\ backlog = NoBacklog
    /\ chan' = Tail(chan)
    /\ Ask("history", i)
    /\ UNCHANGED <<runner, mishaps, mounted, status, shown, cursor, held, recon,
                   owed, backlog, error, clean>>

Receive ==
    \/ Ignore \/ Gap \/ NextDelta \/ OnStart \/ OnReset \/ OnMarker
    \/ \E i \in LoadIds : OnFinish(i) \/ OnPing(i)

Runner ==
    \/ OpenRow \/ PublishStart \/ Token \/ Flush \/ Save \/ Discard
    \/ EndTurn \/ PublishFinish

Next ==
    \/ Runner
    \/ Ping \/ Lose \/ Truncate
    \/ Receive
    \/ \E k \in 1..MaxTokens : Release(k)
    \/ \E i \in LoadIds : \/ Mount(i) \/ Answer(i) \/ Reload(i) \/ Poll(i)
                          \/ LandHistory(i) \/ LandRecovery(i) \/ LandTurn(i)
                          \/ FailLoad(i)

Spec == Init /\ [][Next]_vars

(***************************************************************************)
(* A turn is set up and ends (TurnOutcome's TurnEnds), an event is         *)
(* delivered or lost, timers fire and requests are answered.  Nothing is   *)
(* assumed of tokens, saves or the person.                                 *)
(***************************************************************************)
Fairness ==
    /\ WF_vars(OpenRow \/ PublishStart \/ EndTurn \/ PublishFinish)
    /\ SF_vars(Receive \/ Lose \/ \E k \in 1..MaxTokens : Release(k))
    /\ \A i \in LoadIds :
           WF_vars(Answer(i) \/ LandHistory(i) \/ LandRecovery(i) \/ LandTurn(i))
    /\ SF_vars(\E i \in LoadIds : Reload(i))
    /\ SF_vars(\E i \in LoadIds : Poll(i))

FairSpec == Spec /\ Fairness

----------------------------------------------------------------------------
Tokens == Seq(1..MaxTokens)
Rows == [st : {"none", "asked", "running", "done"}, parts : Tokens, seq : Nat]

TypeOK ==
    /\ stage \in {"setup", "opened", "streaming", "ended", "told"}
    /\ produced \in 0..MaxTokens /\ parts \in Tokens /\ buf \in 0..Len(parts)
    /\ seq \in Nat /\ DOMAIN log = 0..seq /\ row \in Rows
    /\ status \in {"idle", "running"} /\ recon \in {"rest", "timer", "going"}
    /\ cursor \in -1..(seq + 1) /\ Len(held) <= GapBuffer
    /\ \A i \in LoadIds : loads[i].got \in Rows

(***************************************************************************)
(* What the tab shows, with what its pacer still holds, is exactly the     *)
(* reply as of the event its cursor names: nothing repeated, skipped or    *)
(* left over from a discarded attempt.  clean sets aside a copy loaded     *)
(* over a pacer that holds text or after the turn had ended, and one that  *)
(* task:start opened for a reply the tab had lost.                         *)
(***************************************************************************)
Exact ==
    clean /\ Present /\ cursor >= 0 => shown \o backlog.toks = log[cursor]

(***************************************************************************)
(* Whatever was lost, late or repeated: a tab ends up idle with the final  *)
(* reply, or with its banner that it could not load it.                    *)
(***************************************************************************)
Settles ==
    <>[](mounted => error \/ (status = "idle" /\ shown = row.parts))

(***************************************************************************)
(* Text never skips a passage ("applying later text over a hole would show *)
(* a reply that silently skips a passage", stream-reconcile.ts:46-47).     *)
(***************************************************************************)
NoHole ==
    Present => \A k \in 1..(Len(shown) - 1) : shown[k + 1] <= shown[k] + 1

(***************************************************************************)
(* Once the turn has ended the recovery comes to rest ("retries back off   *)
(* while the gap stays open, and start over from the floor once it         *)
(* closes", stream-recovery.ts:24-25).                                     *)
(***************************************************************************)
RecoveryRests == <>[](recon = "rest")
=============================================================================
