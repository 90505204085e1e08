----------------------------- MODULE FolderSync -----------------------------
(***************************************************************************)
(* A folder of the person's computer kept in step with its copy in the     *)
(* workspace.  Each browser tab syncs around its turns: it takes the       *)
(* folder's lease, lists both sides, plans a three-way merge against the   *)
(* stored ancestor, moves files, and stores the computer's listing as the  *)
(* next ancestor.  A sync may lose its lease, fail, or die with its tab at *)
(* any step, with requests still on the wire.                              *)
(*                                                                         *)
(* A file's content is the number of the edit that made it, 0 is no file.  *)
(* The folder has one subdirectory, which holds the paths Inside.          *)
(***************************************************************************)
EXTENDS Integers, FiniteSets, Functions

CONSTANTS
    Tabs,          \* browser tabs syncing the folder, on one computer
    Files,         \* paths people and agents edit
    Spares,        \* bound: names for conflict copies, NAME_TRIES in the code
    Inside,        \* paths in the subdirectory
    MaxEdits,      \* bound: edits ever made
    Big,           \* edits that leave a file over the size cap
    BigInside,     \* BOOLEAN: such a file may be in the subdirectory
    Shrinks,       \* BOOLEAN: the agent may make such a file small again
    MaxMishaps,    \* bound: lapses, closed tabs, failures, reaped workspaces
    AgentFirst,    \* BOOLEAN: the agent writes into a copy that was reaped,
                   \* before a sync put it back
    EditPhases,    \* steps of a sync during which the person edits files
    LateRequests   \* BOOLEAN: requests of a sync may be carried out after
                   \* another sync came and went

Edits == 1..MaxEdits
Paths == Files \cup Spares

NoTab == "none"

ASSUME FolderAssumption ==
    /\ Files \cap Spares = {} /\ Inside \subseteq Paths
    /\ NoTab \notin Tabs /\ "dir" \notin Paths
    /\ MaxEdits \in Nat /\ MaxMishaps \in Nat /\ Big \subseteq Edits
    /\ {BigInside, Shrinks, AgentFirst, LateRequests} \subseteq BOOLEAN

VARIABLES
    local,      \* the computer's folder
    remote,     \* the workspace copy
    base,       \* the stored ancestor
    present,    \* the workspace copy's own directory exists
    rev,        \* the ancestor's revision
    lease,      \* column sync_lease: whose it is, and whether it is live
    tab,        \* each tab's sync
    wire,       \* each tab's requests that the server is carrying out
    edits,      \* history: edits made so far
    retired,    \* history: edits overwritten or deleted by who saw them
    mishaps     \* mishaps so far

server == <<base, rev, lease>>
history == <<edits, retired>>
vars == <<local, remote, present, server, tab, wire, history, mishaps>>

\* A manifest: the files, and whether the subdirectory is there.
Nothing == [file |-> [p \in Paths |-> 0], dir |-> FALSE]
Names(m) == {p \in Paths : m.file[p] # 0}
Put(m, p, v) ==
    [file |-> [m.file EXCEPT ![p] = v], dir |-> m.dir \/ (p \in Inside /\ v # 0)]
DropDir(m) ==
    [file |-> [p \in Paths |-> IF p \in Inside THEN 0 ELSE m.file[p]],
     dir |-> FALSE]

\* What walkLocal and serverTree leave out: files over the size cap.
Oversized(m) == {p \in Paths : m.file[p] \in Big}
Listed(m) ==
    [m EXCEPT !.file = [p \in Paths |-> IF p \in Oversized(m) THEN 0 ELSE @[p]]]

Idle == [pc |-> "idle", l |-> Nothing, r |-> Nothing, skip |-> {},
         missing |-> FALSE, rev |-> 0, claimed |-> {}, copy |-> {}, up |-> {},
         down |-> {}, del |-> {}, dirOp |-> "nothing",
         batch |-> {}, merged |-> Nothing]

Init ==
    /\ local = Nothing /\ remote = Nothing /\ base = Nothing
    /\ present = FALSE /\ rev = 0
    /\ lease = [of |-> NoTab, live |-> FALSE]
    /\ tab = [s \in Tabs |-> Idle] /\ wire = [s \in Tabs |-> {}]
    /\ edits = 0 /\ retired = {} /\ mishaps = 0

-----------------------------------------------------------------------------
(* The person and the agent.                                               *)

Landed == LateRequests \/ \A s \in Tabs : wire[s] = {}
Quiet == Landed /\ \A s \in Tabs : tab[s].pc = "idle"
Editable == Landed /\ \A s \in Tabs : tab[s].pc \in {"idle"} \cup EditPhases

\* A deletion on the other side that the ancestor does not know of yet: an
\* edit of the file goes with it, see Plan.
PendingDelete(other, p) == other.file[p] = 0 /\ base.file[p] # 0

Written(mine, other, p) ==
    /\ edits < MaxEdits
    /\ edits + 1 \in Big => BigInside \/ p \notin Inside
    /\ edits' = edits + 1
    /\ retired' = retired \cup {mine.file[p]}
                    \cup (IF PendingDelete(other, p) THEN {edits + 1} ELSE {})

\* A file, or the subdirectory, is deleted: for good, on both sides.  The
\* files of a directory that the other side never listed stay.
Deleted(mine, other, ps) ==
    /\ retired' = retired \cup {mine.file[p] : p \in ps}
                    \cup {other.file[p] : p \in ps \ Oversized(other)}
    /\ UNCHANGED edits

PersonEdits(p) ==
    /\ Editable
    /\ \/ Written(local, remote, p) /\ local' = Put(local, p, edits + 1)
       \/ /\ local.file[p] # 0
          /\ Deleted(local, remote, {p}) /\ local' = Put(local, p, 0)
       \/ /\ p \in Inside /\ local.dir
          /\ Deleted(local, remote, Inside) /\ local' = DropDir(local)
    /\ UNCHANGED <<remote, present, server, tab, wire, mishaps>>

\* Turns run between syncs.
AgentEdits(p) ==
    /\ Quiet /\ (present \/ base = Nothing \/ AgentFirst)
    /\ \/ /\ Shrinks \/ remote.file[p] \notin Big
          /\ Written(remote, local, p) /\ remote' = Put(remote, p, edits + 1)
          /\ present' = TRUE
       \/ /\ remote.file[p] # 0 /\ UNCHANGED present
          /\ Deleted(remote, local, {p}) /\ remote' = Put(remote, p, 0)
       \/ /\ p \in Inside /\ remote.dir /\ UNCHANGED present
          /\ Deleted(remote, local, Inside) /\ remote' = DropDir(remote)
    /\ UNCHANGED <<local, server, tab, wire, mishaps>>

Mishap == mishaps < MaxMishaps /\ mishaps' = mishaps + 1

\* The idle workspace is reaped, with what only it had.
Reap ==
    /\ Quiet /\ present /\ Mishap
    /\ remote' = Nothing /\ present' = FALSE
    /\ retired' = retired \cup (Range(remote.file) \ Range(local.file))
    /\ UNCHANGED <<local, server, tab, wire, edits>>

-----------------------------------------------------------------------------
(* The lease.                                                              *)

Holds(s) == lease.of = s /\ lease.live

\* Mutant: a live lease is taken over.
FreeAlways == TRUE

Free == ~lease.live

Acquire(s) ==
    /\ tab[s].pc = "idle" /\ Landed /\ Free
    /\ lease' = [of |-> s, live |-> TRUE]
    /\ tab' = [tab EXCEPT ![s].pc = "scan"]
    /\ UNCHANGED <<local, remote, present, base, rev, wire, history, mishaps>>

\* Mutant: the lease of a closed tab is kept.
LapseOfOpen ==
    /\ lease.live /\ tab[lease.of].pc # "idle" /\ Mishap
    /\ lease' = [lease EXCEPT !.live = FALSE]
    /\ UNCHANGED <<local, remote, present, base, rev, tab, wire, history>>

\* The expiry passes: the tab is gone, or its renewals failed.
Lapse ==
    /\ lease.live
    /\ IF tab[lease.of].pc = "idle" THEN UNCHANGED mishaps ELSE Mishap
    /\ lease' = [lease EXCEPT !.live = FALSE]
    /\ UNCHANGED <<local, remote, present, base, rev, tab, wire, history>>

\* A renewal asks for the token only, so it revives a lease nobody took.
Renew(s) ==
    /\ tab[s].pc # "idle" /\ lease.of = s /\ ~lease.live
    /\ lease' = [lease EXCEPT !.live = TRUE]
    /\ UNCHANGED <<local, remote, present, base, rev, tab, wire, history, mishaps>>

\* DELETE by token.  Without LateRequests no batch of another tab is still
\* on its way to the server by then.
Release(s) ==
    /\ tab[s].pc = "release"
    /\ LateRequests \/ \A t \in Tabs \ {s} : tab[t].pc # "sent"
    /\ tab' = [tab EXCEPT ![s] = Idle]
    /\ lease' = IF lease.of = s THEN [of |-> NoTab, live |-> FALSE] ELSE lease
    /\ UNCHANGED <<local, remote, present, base, rev, wire, history, mishaps>>

-----------------------------------------------------------------------------
(* Listing and planning.                                                   *)

Goto(s, pc) == tab' = [tab EXCEPT ![s].pc = pc]
Throw(s) == tab' = [tab EXCEPT ![s] = [Idle EXCEPT !.pc = "release"]]

ScanLocal(s) ==
    /\ tab[s].pc = "scan"
    /\ tab' = [tab EXCEPT ![s].pc = "list", ![s].l = Listed(local),
                          ![s].skip = Oversized(local)]
    /\ UNCHANGED <<local, remote, present, server, wire, history, mishaps>>

ServerTree(s) ==
    /\ tab[s].pc = "list"
    /\ tab' = [tab EXCEPT ![s].pc = "load", ![s].r = Listed(remote),
                          ![s].skip = @ \cup Oversized(remote),
                          ![s].missing = ~present]
    /\ UNCHANGED <<local, remote, present, server, wire, history, mishaps>>

\* planSync for one path: content is compared with the ancestor's only when
\* both sides have the file.  localNewer: what the two sides' clocks say.
Plan(l, r, b, localNewer) ==
    IF l = r THEN "nothing" ELSE
    CASE l # 0 /\ r # 0 /\ l # b /\ r # b ->
            IF localNewer THEN "local wins" ELSE "remote wins"
      [] l # 0 /\ r # 0 /\ l # b /\ r = b -> "upload"
      [] l # 0 /\ r # 0 /\ l = b -> "download"
      [] l # 0 /\ r = 0 -> IF b # 0 THEN "delete local" ELSE "upload"
      [] l = 0 /\ r # 0 -> IF b # 0 THEN "delete remote" ELSE "download"

\* planDirs for the subdirectory; keep: this sync writes a file into it.
PlanDir(l, r, b, keep) ==
    CASE r /\ ~l /\ b /\ ~keep -> "delete remote"
      [] r /\ ~l /\ ~b -> "make local"
      [] l /\ ~r /\ b /\ ~keep -> "delete local"
      [] OTHER -> "nothing"

Planned(t, b, newer) ==
    LET choice(p) == Plan(t.l.file[p], t.r.file[p], b.file[p], p \in newer)
        of(a) == {p \in Paths \ t.skip : choice(p) = a}
    IN
    [t EXCEPT !.pc = "copy",
        !.l = Nothing, !.r = Nothing, !.skip = {}, !.missing = FALSE,
        !.claimed = Names(t.l) \cup Names(t.r) \cup Names(b),
        !.copy = {<<p, "remote">> : p \in of("local wins")}
                   \cup {<<p, "local">> : p \in of("remote wins")},
        !.up = of("upload") \cup of("local wins"),
        !.down = of("download") \cup of("remote wins"),
        !.del = {<<p, "remote">> : p \in of("delete remote")}
                  \cup {<<p, "local">> : p \in of("delete local")},
        !.dirOp = PlanDir(t.l.dir, t.r.dir, b.dir,
                          \E p \in Inside \ t.skip :
                             choice(p) \in {"upload", "download", "local wins",
                                            "remote wins"})]

\* Revisions above 0 alternate: a sync that planned two of them ago has lost
\* the lease.
NextRev(r) == IF r = 1 THEN 2 ELSE 1

\* putState: the lease is live and the token's, and the revision is the one
\* the sync planned against.
Accepts(s, r) == Holds(s) /\ rev = r

\* Mutant: an absent workspace copy reads as every file deleted.
ResetsNever(s, b) == FALSE

\* A missing workspace copy is no evidence of deletions.
Resets(s, b) == tab[s].missing /\ b # Nothing

\* loadAncestor and the plan.  A row that cannot be read counts as empty, at
\* revision 0, and is reset like a full one.
LoadAncestor(s, readable) ==
    LET b == IF readable THEN base ELSE Nothing
        r == IF readable THEN rev ELSE 0
        resets == Resets(s, b) \/ (tab[s].missing /\ ~readable)
        known == IF resets THEN Nothing ELSE b
        at == IF resets THEN NextRev(r) ELSE r
    IN  /\ tab[s].pc = "load"
        /\ IF readable THEN UNCHANGED mishaps ELSE Mishap
        /\ IF resets /\ ~Accepts(s, r)
           THEN Throw(s) /\ UNCHANGED <<base, rev>>
           ELSE /\ \E newer \in SUBSET (Names(tab[s].l) \cap Names(tab[s].r)) :
                     tab' = [tab EXCEPT ![s] =
                               [Planned(@, known, newer) EXCEPT !.rev = at]]
                /\ base' = IF resets THEN Nothing ELSE base
                /\ rev' = IF resets THEN at ELSE rev
        /\ UNCHANGED <<local, remote, present, lease, wire, history>>

-----------------------------------------------------------------------------
(* Moving files.                                                           *)

\* Mutant: the lease is not looked at.
GuardOff(s) == TRUE

\* guard(), asked before every mutation.
Guard(s) == Holds(s)

\* resolveConflictName: a name in the file's directory that neither side has.
\* It is dated now, so it is none that the ancestor knows, read or not.
FreeNames(s, p) ==
    {n \in Spares \ (tab[s].claimed \cup Names(local) \cup Names(base)) :
        n \in Inside <=> p \in Inside}

\* The losing version of a conflict is written beside the winner.
KeepCopy(s, c) ==
    LET v == (IF c[2] = "local" THEN local ELSE remote).file[c[1]]
        name == CHOOSE n \in FreeNames(s, c[1]) : TRUE
    IN  /\ tab[s].pc = "copy" /\ c \in tab[s].copy /\ Guard(s)
        /\ v # 0 /\ FreeNames(s, c[1]) # {}
        /\ local' = Put(local, name, v)
        /\ tab' = [tab EXCEPT ![s].copy = @ \ {c}, ![s].claimed = @ \cup {name},
                              ![s].up = @ \cup {name}]
        /\ UNCHANGED <<remote, present, server, wire, history, mishaps>>

\* The batch is read from the computer, and leaves for the server.
ReadBatch(s) ==
    /\ tab[s].pc = "copy" /\ tab[s].copy = {} /\ Guard(s)
    /\ \A p \in tab[s].up : local.file[p] # 0
    /\ tab' = [tab EXCEPT ![s].claimed = {}, ![s].up = {},
                          ![s].batch = {[path |-> p, v |-> local.file[p]] :
                                          p \in tab[s].up},
                          ![s].pc = IF tab[s].up = {} THEN "download" ELSE "sent"]
    /\ UNCHANGED <<local, remote, present, server, wire, history, mishaps>>

\* Mutant: the server takes a batch whoever holds the folder.
HeldByOtherNever(s) == FALSE

HeldByOther(s) == lease.live /\ lease.of # s

\* The upload route: one look at the lease, then every file of the batch.
\* Without LateRequests a batch of a sync that was overtaken gets there while
\* the other one has the lease.
AcceptBatch(s) ==
    /\ tab[s].pc = "sent" /\ (LateRequests \/ lease.of = s \/ lease.live)
    /\ IF HeldByOther(s)
       THEN Throw(s) /\ UNCHANGED wire
       ELSE /\ wire' = [wire EXCEPT ![s] = tab[s].batch]
            /\ tab' = [tab EXCEPT ![s].pc = "landing", ![s].batch = {}]
    /\ UNCHANGED <<local, remote, present, server, history, mishaps>>

\* One write or delete reaches the workspace.
Land(s, w) ==
    /\ w \in wire[s]
    /\ wire' = [wire EXCEPT ![s] = @ \ {w}]
    /\ remote' = IF w.path = "dir" THEN DropDir(remote)
                 ELSE Put(remote, w.path, w.v)
    /\ present' = (present \/ w.v # 0)
    /\ UNCHANGED <<local, server, tab, history, mishaps>>

Uploaded(s) ==
    /\ tab[s].pc = "landing" /\ wire[s] = {}
    /\ Goto(s, "download")
    /\ UNCHANGED <<local, remote, present, server, wire, history, mishaps>>

Download(s, p) ==
    /\ tab[s].pc = "download" /\ p \in tab[s].down /\ Guard(s)
    /\ remote.file[p] # 0
    /\ local' = Put(local, p, remote.file[p])
    /\ tab' = [tab EXCEPT ![s].down = @ \ {p}]
    /\ UNCHANGED <<remote, present, server, wire, history, mishaps>>

\* runPool(plan.deleteRemote): several requests at once.
DeleteRemote(s, p) ==
    /\ tab[s].pc = "download" /\ tab[s].down = {} /\ <<p, "remote">> \in tab[s].del
    /\ Guard(s)
    /\ wire' = [wire EXCEPT ![s] = @ \cup {[path |-> p, v |-> 0]}]
    /\ tab' = [tab EXCEPT ![s].del = @ \ {<<p, "remote">>}]
    /\ UNCHANGED <<local, remote, present, server, history, mishaps>>

RemoteDone(s) ==
    /\ tab[s].pc = "download" /\ tab[s].down = {} /\ wire[s] = {}
    /\ \A d \in tab[s].del : d[2] = "local"

DeleteLocal(s, p) ==
    /\ RemoteDone(s) /\ <<p, "local">> \in tab[s].del /\ Guard(s)
    /\ local' = Put(local, p, 0)
    /\ tab' = [tab EXCEPT ![s].del = @ \ {<<p, "local">>}]
    /\ UNCHANGED <<remote, present, server, wire, history, mishaps>>

\* Directories are removed with everything in them.
SyncDir(s) ==
    /\ RemoteDone(s) /\ tab[s].del = {} /\ tab[s].dirOp # "nothing"
    /\ tab[s].dirOp # "make local" => Guard(s)
    /\ wire' = IF tab[s].dirOp = "delete remote"
               THEN [wire EXCEPT ![s] = {[path |-> "dir", v |-> 0]}] ELSE wire
    /\ local' = CASE tab[s].dirOp = "delete local" -> DropDir(local)
                  [] tab[s].dirOp = "make local" -> [local EXCEPT !.dir = TRUE]
                  [] OTHER -> local
    /\ tab' = [tab EXCEPT ![s].dirOp = "nothing"]
    /\ UNCHANGED <<remote, present, server, history, mishaps>>

\* The computer is listed again: that is the next ancestor.
Rewalk(s) ==
    /\ RemoteDone(s) /\ tab[s].del = {} /\ tab[s].dirOp = "nothing"
    /\ tab' = [tab EXCEPT ![s].pc = "put", ![s].merged = Listed(local)]
    /\ UNCHANGED <<local, remote, present, server, wire, history, mishaps>>

\* The ancestor is stored, or the sync fails; its answer may be lost.
PutState(s) ==
    /\ tab[s].pc = "put" /\ Guard(s)
    /\ IF Accepts(s, tab[s].rev)
       THEN base' = tab[s].merged /\ rev' = NextRev(rev)
       ELSE UNCHANGED <<base, rev>>
    /\ Throw(s)
    /\ UNCHANGED <<local, remote, present, lease, wire, history, mishaps>>

-----------------------------------------------------------------------------
(* Ends of a sync.                                                         *)

Guarded == {"copy", "download", "put"}

\* A file the plan names is gone, or no name is free for a copy.
Vanished(s) ==
    \/ /\ tab[s].pc = "copy"
       /\ \/ \E c \in tab[s].copy :
               \/ (IF c[2] = "local" THEN local ELSE remote).file[c[1]] = 0
               \/ FreeNames(s, c[1]) = {}
          \/ tab[s].copy = {} /\ \E p \in tab[s].up : local.file[p] = 0
    \/ tab[s].pc = "download" /\ \E p \in tab[s].down : remote.file[p] = 0

\* The guard or a missing file makes the sync throw.
Stop(s) ==
    /\ tab[s].pc \in Guarded
    /\ ~Guard(s) \/ Vanished(s)
    /\ Throw(s)
    /\ UNCHANGED <<local, remote, present, server, wire, history, mishaps>>

\* A request or a file operation fails.  A failed batch is abandoned; the
\* other deletes of a pool stay on the wire.
Fail(s) ==
    /\ tab[s].pc \notin {"idle", "release"} /\ Mishap
    /\ Throw(s)
    /\ wire' = IF tab[s].pc = "landing" THEN [wire EXCEPT ![s] = {}] ELSE wire
    /\ UNCHANGED <<local, remote, present, server, history>>

\* The tab is closed; what the server is doing for it goes on.
Close(s) ==
    /\ tab[s].pc # "idle" /\ Mishap
    /\ tab' = [tab EXCEPT ![s] = Idle]
    /\ UNCHANGED <<local, remote, present, server, wire, history>>

SyncStep(s) ==
    \/ ScanLocal(s) \/ ServerTree(s) \/ LoadAncestor(s, TRUE)
    \/ \E c \in tab[s].copy : KeepCopy(s, c)
    \/ ReadBatch(s) \/ AcceptBatch(s) \/ Uploaded(s)
    \/ \E p \in Paths : Download(s, p) \/ DeleteRemote(s, p) \/ DeleteLocal(s, p)
    \/ SyncDir(s) \/ Rewalk(s) \/ PutState(s) \/ Stop(s) \/ Release(s)

Next ==
    \/ \E p \in Files : PersonEdits(p) \/ AgentEdits(p)
    \/ Reap \/ Lapse
    \/ \E s \in Tabs :
         \/ Acquire(s) \/ Renew(s) \/ SyncStep(s) \/ LoadAncestor(s, FALSE)
         \/ \E w \in wire[s] : Land(s, w)
         \/ Fail(s) \/ Close(s)

Spec == Init /\ [][Next]_vars

\* Requests are carried out, a lease nobody renews lapses, a running sync
\* goes on, and the person keeps sending messages, which syncs.
Fairness ==
    /\ WF_vars(Lapse /\ UNCHANGED mishaps)
    /\ \A s \in Tabs :
         /\ WF_vars(SyncStep(s))
         /\ WF_vars(\E w \in wire[s] : Land(s, w))
    /\ WF_vars(\E s \in Tabs : Acquire(s))

FairSpec == Spec /\ Fairness

-----------------------------------------------------------------------------
Manifests == [file : [Paths -> 0..MaxEdits], dir : BOOLEAN]
Sides == {"local", "remote"}
Requests == [path : Paths \cup {"dir"}, v : 0..MaxEdits]
Syncs ==
    [pc : {"idle", "scan", "list", "load", "copy", "sent", "landing",
           "download", "put", "release"},
     l : Manifests, r : Manifests, skip : SUBSET Paths, missing : BOOLEAN,
     rev : 0..2, claimed : SUBSET Paths, copy : SUBSET (Paths \X Sides),
     up : SUBSET Paths, down : SUBSET Paths, del : SUBSET (Paths \X Sides),
     dirOp : {"nothing", "make local", "delete local", "delete remote"},
     batch : SUBSET Requests, merged : Manifests]

TypeOK ==
    /\ local \in Manifests /\ remote \in Manifests /\ base \in Manifests
    /\ present \in BOOLEAN /\ rev \in 0..2
    /\ lease \in [of : Tabs \cup {NoTab}, live : BOOLEAN]
    /\ tab \in [Tabs -> Syncs] /\ wire \in [Tabs -> SUBSET Requests]
    /\ edits \in 0..MaxEdits /\ mishaps \in 0..MaxMishaps
    /\ retired \subseteq 0..MaxEdits

\* What a person or the agent wrote is still on one of the two sides, unless
\* someone who had it before them replaced or deleted it, however many syncs
\* raced, were cut short or overtaken since.
NothingLost ==
    1..edits \subseteq
        retired \cup Range(local.file) \cup Range(remote.file)

\* A sync that stores its ancestor has merged: the two sides are equal, and
\* the ancestor is what they hold, sizes over the cap aside.
Shared(p) ==
    \/ local.file[p] = remote.file[p]
    \/ {local.file[p], remote.file[p]} \cap Big # {}
MergeIsReal ==
    [][\A s \in Tabs : PutState(s) /\ rev' # rev =>
          \A p \in Paths : Shared(p) /\ base'.file[p] \in
             {0, local.file[p], remote.file[p]}]_vars

\* Once edits and mishaps end, the two sides become equal and stay equal.
Converges ==
    <>[](\A p \in Paths : Shared(p))
=============================================================================
