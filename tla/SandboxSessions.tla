--------------------------- MODULE SandboxSessions ---------------------------
(***************************************************************************)
(* One sandbox session of the controller: its row in sandbox_sessions, its *)
(* container, its workspace on disk, the requests that create or use it,   *)
(* and the maintenance jobs that stop, reap and collect it.                *)
(* sandbox-controller/server.js, session-store.js, gc.js, reconcile.js,    *)
(* shutdown.js and backends/docker-backend.js.                             *)
(*                                                                         *)
(* Only create and revive take the session's advisory lock.  Every await   *)
(* between two reads or writes of shared state is a step boundary.  A      *)
(* container has the session's fixed name, so there is at most one.        *)
(***************************************************************************)
EXTENDS Integers

CONSTANTS
    Requests,       \* POST /sessions calls under way at once
    Specs,          \* mounts and network a container is built with
    MaxBoxes,       \* bound: containers ever created
    Horizon,        \* bound: the last instant
    IdleTTL,        \* SANDBOX_IDLE_TTL_MS, in instants
    Grace,          \* GC_GRACE_MS
    TTL,            \* WORKSPACE_TTL_MS
    LateRevive,     \* may the collector look while a dropped row has not been recreated?
    Nobody,
    NoSpec

ASSUME SandboxAssumption ==
    /\ MaxBoxes \in Nat \ {0} /\ Horizon \in Nat
    /\ IdleTTL \in Nat \ {0} /\ Grace \in Nat \ {0} /\ TTL \in Nat /\ TTL > IdleTTL
    /\ LateRevive \in BOOLEAN
    /\ Nobody \notin Requests /\ NoSpec \notin Specs

Handles == 0..MaxBoxes      \* 0: none
Instants == 0..Horizon
None == Horizon + 1         \* no cached activity

VARIABLES
    now,
    row,        \* the sandbox_sessions row
    cache,      \* the store's unflushed activity of the session
    box,        \* the container of the session's name
    made,       \* containers created so far
    lock,       \* the request that holds the advisory lock
    req,        \* the POST /sessions calls
    exec,       \* one POST /sessions/:id/exec
    idle,       \* the idle sweep, or the eviction by another session's create
    gc,         \* flushAndGc
    disk,       \* the workspace: is it there, and its directory's mtime
    used,       \* history: the last real use of the files that are on disk
    dropped     \* history: an exec dropped the row and nobody has recreated it

vars == <<now, row, cache, box, made, lock, req, exec, idle, gc, disk, used, dropped>>
history == <<used, dropped>>

Row == [there: BOOLEAN, handle: Handles, spec: Specs \cup {NoSpec}, last: Instants]
TypeOK ==
    /\ now \in Instants /\ used \in Instants /\ dropped \in BOOLEAN
    /\ made \in Handles
    /\ row \in Row
    /\ cache \in Instants \cup {None}
    /\ box \in [id: Handles, spec: Specs \cup {NoSpec}, up: BOOLEAN]
    /\ lock \in Requests \cup {Nobody}
    /\ req \in [Requests -> [pc: {"idle", "wait", "clear", "stop", "create", "record"}, spec: Specs \cup {NoSpec}, h: Handles]]
    /\ exec \in [pc: {"idle", "start", "gone"}, h: Handles]
    /\ idle \in [pc: {"idle", "read", "destroy", "stop"}, h: Handles]
    /\ gc \in [pc: {"idle", "read", "destroy", "delete", "orphan", "recheck", "remove"},
               h: Handles,
               seen: Instants]      \* history: used, as the pass began
    /\ disk \in [there: BOOLEAN, mtime: Instants]

Quiet == [pc |-> "idle", h |-> 0]
Resting == [pc |-> "idle", h |-> 0, seen |-> 0]
NoRequest == [pc |-> "idle", spec |-> NoSpec, h |-> 0]

Init ==
    /\ now = 0 /\ used = 0 /\ dropped = FALSE /\ made = 1
    /\ \E s \in Specs : /\ row = [there |-> TRUE, handle |-> 1, spec |-> s, last |-> 0]
                        /\ box = [id |-> 1, spec |-> s, up |-> TRUE]
    /\ cache = None
    /\ lock = Nobody
    /\ req = [r \in Requests |-> NoRequest]
    /\ exec = [pc |-> "idle", h |-> 0]
    /\ idle = Quiet /\ gc = Resting
    /\ disk = [there |-> TRUE, mtime |-> 0]

-----------------------------------------------------------------------------
(* Time, and the store's helpers.                                          *)

\* The flush interval is a minute, the TTLs are days: activity is flushed, or lost,
\* before an instant passes.
TimePasses ==
    /\ now < Horizon /\ cache = None
    /\ now' = now + 1
    /\ UNCHANGED <<row, cache, box, made, lock, req, exec, idle, gc, disk, history>>

\* Mutant: cached activity is discarded.
FlushedNot == row

\* flush, the first thing both jobs do: against the TTLs its queries take no time.
Flushed == IF row.there /\ cache # None THEN [row EXCEPT !.last = cache] ELSE row

\* touch, by somebody who uses the files.
Touch == cache' = now /\ used' = now /\ UNCHANGED dropped

\* workspace.ensure: the directory, made now unless it is there.
Ensured == IF disk.there THEN disk ELSE [there |-> TRUE, mtime |-> now]

Removed(h) == IF h # 0 /\ box.id = h THEN [id |-> 0, spec |-> NoSpec, up |-> FALSE] ELSE box
Stopped == [row EXCEPT !.handle = 0]
Dropped == [there |-> FALSE, handle |-> 0, spec |-> NoSpec, last |-> 0]

-----------------------------------------------------------------------------
(* POST /sessions.                                                         *)

Answer(r) == req' = [req EXCEPT ![r] = NoRequest]

SameSpec(s) == row.spec = s

\* The hot path: the row names a container of the asked spec.
Reuse(r, s) ==
    /\ req[r].pc = "idle"
    /\ row.there /\ row.handle # 0 /\ SameSpec(s)
    /\ Touch
    /\ disk' = Ensured
    /\ UNCHANGED <<now, row, box, made, lock, req, exec, idle, gc>>

Arrive(r, s) ==
    /\ req[r].pc = "idle"
    /\ ~(row.there /\ row.handle # 0 /\ SameSpec(s))
    /\ req' = [req EXCEPT ![r] = [pc |-> "wait", spec |-> s, h |-> 0]]
    /\ UNCHANGED <<now, row, cache, box, made, lock, exec, idle, gc, disk, history>>

\* Mutant: create does not wait for the advisory lock.
FreeAlways(r) == TRUE

Free(r) == lock = Nobody

\* Under the lock the row is read again: reuse, tear down another spec's, or create.
LockAndRead(r) ==
    /\ req[r].pc = "wait" /\ Free(r)
    /\ IF row.there /\ row.handle # 0 /\ SameSpec(req[r].spec)
         THEN /\ Touch /\ Answer(r)
              /\ disk' = Ensured
              /\ UNCHANGED lock
         ELSE /\ lock' = r
              /\ req' = [req EXCEPT ![r].pc = IF row.there /\ row.handle # 0 THEN "clear" ELSE "create",
                                    ![r].h = row.handle]
              /\ UNCHANGED <<cache, disk, history>>
    /\ UNCHANGED <<now, row, box, made, exec, idle, gc>>

Clear(r) ==
    /\ req[r].pc = "clear"
    /\ box' = Removed(req[r].h)
    /\ req' = [req EXCEPT ![r].pc = "stop", ![r].h = 0]
    /\ UNCHANGED <<now, row, cache, made, lock, exec, idle, gc, disk, history>>

ClearRow(r) ==
    /\ req[r].pc = "stop"
    /\ row' = Stopped
    /\ req' = [req EXCEPT ![r].pc = "create"]
    /\ UNCHANGED <<now, cache, box, made, lock, exec, idle, gc, disk, history>>

\* Mutant: a container found under the name is adopted.
CreateAdopts(r) ==
    /\ req[r].pc = "create" /\ made < MaxBoxes
    /\ made' = made + 1
    /\ box' = [id |-> made + 1, spec |-> IF box.id # 0 THEN box.spec ELSE req[r].spec, up |-> TRUE]
    /\ disk' = Ensured
    /\ req' = [req EXCEPT ![r].pc = "record", ![r].h = made + 1]
    /\ UNCHANGED <<now, row, cache, lock, exec, idle, gc, history>>

\* backend.create: the name's husk, if any, is removed by force.
Create(r) ==
    /\ req[r].pc = "create" /\ made < MaxBoxes
    /\ made' = made + 1
    /\ box' = [id |-> made + 1, spec |-> req[r].spec, up |-> TRUE]
    /\ disk' = Ensured
    /\ req' = [req EXCEPT ![r].pc = "record", ![r].h = made + 1]
    /\ UNCHANGED <<now, row, cache, lock, exec, idle, gc, history>>

\* The create fails (no image, the entrypoint refused): the request answers an error.
CreateFails(r) ==
    /\ req[r].pc = "create"
    /\ Answer(r) /\ lock' = Nobody
    /\ UNCHANGED <<now, row, cache, box, made, exec, idle, gc, disk, history>>

Record(r) ==
    /\ req[r].pc = "record"
    /\ row' = [there |-> TRUE, handle |-> req[r].h, spec |-> req[r].spec, last |-> now]
    /\ Answer(r) /\ lock' = Nobody
    /\ used' = now /\ dropped' = FALSE
    /\ UNCHANGED <<now, cache, box, made, exec, idle, gc, disk>>

-----------------------------------------------------------------------------
(* POST /sessions/:id/exec, and files through the controller.              *)

ExecReads ==
    /\ exec.pc = "idle" /\ row.there /\ row.handle # 0
    /\ exec' = [pc |-> "start", h |-> row.handle]
    /\ UNCHANGED <<now, row, cache, box, made, lock, req, idle, gc, disk, history>>

\* The command runs in the container read, or finds it gone.  In a container whose
\* directory was removed under it, it uses no files that are still there.
ExecRuns ==
    /\ exec.pc = "start"
    /\ cache' = now /\ UNCHANGED dropped
    /\ IF box.id = exec.h /\ box.up
         THEN /\ used' = IF disk.there THEN now ELSE used
              /\ exec' = [pc |-> "idle", h |-> 0]
         ELSE /\ exec' = [exec EXCEPT !.pc = "gone"]
              /\ UNCHANGED used
    /\ UNCHANGED <<now, row, box, made, lock, req, idle, gc, disk>>

\* Mid-op invalidation drops the row.
Invalidate ==
    /\ exec.pc = "gone"
    /\ row' = Dropped /\ cache' = None
    /\ exec' = [pc |-> "idle", h |-> 0]
    /\ dropped' = TRUE
    /\ UNCHANGED <<now, box, made, lock, req, idle, gc, disk, used>>

\* A file is listed, read, written or deleted without a container.
FileOp ==
    /\ row.there /\ disk.there
    /\ Touch
    /\ \E m \in {disk.mtime, now} : disk' = [disk EXCEPT !.mtime = m]
    /\ UNCHANGED <<now, row, box, made, lock, req, exec, idle, gc>>

BoxDies ==
    /\ box.up
    /\ box' = [box EXCEPT !.up = FALSE]
    /\ UNCHANGED <<now, row, cache, made, lock, req, exec, idle, gc, disk, history>>

-----------------------------------------------------------------------------
(* idleSweep.                                                              *)

SweepBegin ==
    /\ idle.pc = "idle"
    /\ row' = Flushed /\ cache' = None
    /\ idle' = [Quiet EXCEPT !.pc = "read"]
    /\ UNCHANGED <<now, box, made, lock, req, exec, gc, disk, history>>

\* The snapshot of the rows, and the decision on it.
SweepRead ==
    /\ idle.pc = "read"
    /\ idle' = IF row.there /\ row.handle # 0 /\ now - row.last > IdleTTL
                 THEN [Quiet EXCEPT !.pc = "destroy", !.h = row.handle] ELSE Quiet
    /\ UNCHANGED <<now, row, cache, box, made, lock, req, exec, gc, disk, history>>

\* pickLruVictim: another session of the user needs a container.  It reads and stops
\* this one under its own lock, not under ours.
Evict ==
    /\ idle.pc = "idle" /\ row.there /\ row.handle # 0
    /\ idle' = [Quiet EXCEPT !.pc = "destroy", !.h = row.handle]
    /\ UNCHANGED <<now, row, cache, box, made, lock, req, exec, gc, disk, history>>

SweepDestroy ==
    /\ idle.pc = "destroy"
    /\ box' = Removed(idle.h)
    /\ idle' = [idle EXCEPT !.pc = "stop"]
    /\ UNCHANGED <<now, row, cache, made, lock, req, exec, gc, disk, history>>

SweepStop ==
    /\ idle.pc = "stop"
    /\ row' = Stopped
    /\ idle' = Quiet
    /\ UNCHANGED <<now, cache, box, made, lock, req, exec, gc, disk, history>>

-----------------------------------------------------------------------------
(* flushAndGc: the workspace reaper, then the orphan collector.            *)

GcBegin ==
    /\ gc.pc = "idle"
    /\ row' = Flushed /\ cache' = None
    /\ gc' = [Resting EXCEPT !.pc = "read", !.seen = used]
    /\ UNCHANGED <<now, box, made, lock, req, exec, idle, disk, history>>

\* Mutant: the reaper's boundary is off by one.
StaleSoon == now - row.last >= TTL

Stale == now - row.last > TTL

GcRead ==
    /\ gc.pc = "read"
    /\ gc' = IF row.there /\ Stale THEN [gc EXCEPT !.pc = "destroy", !.h = row.handle]
             ELSE [gc EXCEPT !.pc = "orphan"]
    /\ UNCHANGED <<now, row, cache, box, made, lock, req, exec, idle, disk, history>>

GcDestroy ==
    /\ gc.pc = "destroy"
    /\ box' = Removed(gc.h)
    /\ gc' = [gc EXCEPT !.pc = "delete"]
    /\ UNCHANGED <<now, row, cache, made, lock, req, exec, idle, disk, history>>

GcDelete ==
    /\ gc.pc = "delete"
    /\ row' = Dropped /\ cache' = None
    /\ gc' = [gc EXCEPT !.pc = "remove"]
    /\ dropped' = FALSE
    /\ UNCHANGED <<now, box, made, lock, req, exec, idle, disk, used>>

\* gcOrphanWorkspaces: no row in its snapshot, an old directory...
GcOrphan ==
    /\ gc.pc = "orphan" /\ (LateRevive \/ ~dropped)
    /\ gc' = IF ~row.there /\ disk.there /\ now - disk.mtime > Grace
               THEN [gc EXCEPT !.pc = "recheck"] ELSE Resting
    /\ UNCHANGED <<now, row, cache, box, made, lock, req, exec, idle, disk, history>>

\* ...and still none right before the removal.
GcRecheck ==
    /\ gc.pc = "recheck"
    /\ gc' = IF row.there THEN Resting ELSE [gc EXCEPT !.pc = "remove"]
    /\ UNCHANGED <<now, row, cache, box, made, lock, req, exec, idle, disk, history>>

\* The uses inside the pass go with the files: what comes after has not seen them.
GcRemove ==
    /\ gc.pc = "remove"
    /\ disk' = [disk EXCEPT !.there = FALSE]
    /\ gc' = Resting
    /\ used' = gc.seen
    /\ UNCHANGED <<now, row, cache, box, made, lock, req, exec, idle, dropped>>

-----------------------------------------------------------------------------
(* Shutdown, crash and boot.                                               *)

\* reconcile: keep a running container that has a row, destroy any other, and clear
\* the handle of a row whose container is not running.
Reconciled(r) ==
    /\ box' = IF r.there /\ box.up THEN box ELSE Removed(box.id)
    /\ row' = IF r.there /\ ~box.up THEN [r EXCEPT !.handle = 0] ELSE r

Restart(r) ==
    /\ Reconciled(r)
    /\ cache' = None /\ lock' = Nobody
    /\ req' = [x \in Requests |-> NoRequest]
    /\ exec' = [pc |-> "idle", h |-> 0]
    /\ idle' = Quiet /\ gc' = Resting
    /\ UNCHANGED <<now, made, disk, dropped>>

\* A restart after the reaper deleted the row: the uses of its pass went with it.
Condemned == gc.pc = "remove" /\ ~row.there /\ ~dropped

\* A crash forgets the activity that was not flushed; it counts as no use.
Crash == Restart(row) /\ used' = CASE row.there -> row.last [] Condemned -> gc.seen [] OTHER -> used

\* Graceful: the listener closes, the cached activity is flushed, the process exits.
Shutdown ==
    /\ Restart(Flushed)
    /\ used' = IF Condemned THEN gc.seen ELSE used

-----------------------------------------------------------------------------
RequestStep(r) ==
    \/ LockAndRead(r) \/ Clear(r) \/ ClearRow(r) \/ Create(r) \/ CreateFails(r) \/ Record(r)
    \/ \E s \in Specs : Reuse(r, s) \/ Arrive(r, s)

Job ==
    \/ SweepBegin \/ SweepRead \/ Evict \/ SweepDestroy \/ SweepStop
    \/ GcBegin \/ GcRead \/ GcDestroy \/ GcDelete \/ GcOrphan \/ GcRecheck \/ GcRemove

Next ==
    \/ TimePasses \/ Job \/ ExecReads \/ ExecRuns \/ Invalidate \/ FileOp \/ BoxDies
    \/ Crash \/ Shutdown
    \/ \E r \in Requests : RequestStep(r)

Spec == Init /\ [][Next]_vars

-----------------------------------------------------------------------------
(* Properties.                                                             *)

\* While a request has a container made and not yet recorded, that container is the
\* session's: nobody else's create or sweep has taken it away.
NotStolen == \A r \in Requests : req[r].pc = "record" => box.id = req[r].h

\* A workspace is removed only when nobody had used it for the TTL as the collector's
\* pass began, the activity a crash forgot apart.
FilesKept == [][disk.there /\ ~disk'.there => now - gc.seen > TTL]_vars

\* The same as of the removal itself: no use falls inside the collector's pass.
FilesUnused == [][disk.there /\ ~disk'.there => now - used > TTL]_vars

\* Whoever the row sends to the container finds one built to the row's spec.
SpecHonoured == row.there /\ row.handle # 0 /\ box.id = row.handle => box.spec = row.spec
=============================================================================
