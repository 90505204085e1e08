-------------------------- MODULE FolderSyncProofs --------------------------
(***************************************************************************)
(* Proofs about FolderSync, for any number of tabs, files, edits and       *)
(* mishaps.                                                                *)
(*                                                                         *)
(* The argument: the ancestor says of a file only what nobody needs any    *)
(* more or what both sides still hold (Past); the requests on the wire and *)
(* the plan of a sync are true of the trees as long as that sync is the    *)
(* last that took the lease (Channel, Owner), and there is no more than    *)
(* one such sync (Lone).  Every file that a step overwrites or removes was *)
(* therefore given up by who saw it, or is also somewhere else.            *)
(***************************************************************************)
EXTENDS FolderSync, TLAPS

Versions == 0..MaxEdits

-----------------------------------------------------------------------------
(* The invariant.                                                          *)

\* The windows that the theorems keep closed: with any one of them open, TLC
\* finds a file lost or an ancestor that is no merge.
Closed ==
    ~AgentFirst /\ ~LateRequests /\ ~BigInside /\ ~Shrinks /\ EditPhases = {}

\* A version that may disappear: none, or one that was replaced by who saw it.
Gone == retired \cup {0}
InLocal(v) == \E p \in Paths : local.file[p] = v

Nested(m) == \A p \in Inside : m.file[p] # 0 => m.dir
Trees ==
    /\ Nested(local) /\ Nested(remote)
    /\ \A p \in Inside \cup Spares : local.file[p] \notin Big /\ remote.file[p] \notin Big
    /\ \A p \in Paths : base.file[p] \notin Big
    /\ ~present => \A p \in Paths : remote.file[p] = 0

\* The ancestor's version of a file: nobody needs it any more, or nothing was
\* done to the file since, unless the workspace went or the file outgrew the cap.
Ancestor(p) ==
    \/ base.file[p] \in Gone
    \/ /\ local.file[p] = base.file[p]
       /\ present => remote.file[p] \in Big \cup {base.file[p]}

\* A file the ancestor has and one side deleted: the other's version went with it.
Forgotten(p) ==
    base.file[p] # 0 /\ present =>
        /\ remote.file[p] = 0 => local.file[p] \in Gone \cup Big
        /\ local.file[p] = 0 => remote.file[p] \in Gone \cup Big

Past == \A p \in Paths : Ancestor(p) /\ Forgotten(p)

Fresh == present \/ base = Nothing

\* What a request on the wire may do to the workspace.
Request(w) ==
    /\ w.path = "dir" => w.v = 0 /\ \A p \in Inside : remote.file[p] = 0
    /\ w.path # "dir" =>
         /\ base.file[w.path] \in Gone
         /\ w.v = 0 => local.file[w.path] = 0 /\ remote.file[w.path] \in Gone
         /\ w.v # 0 => /\ w.v = local.file[w.path] /\ w.v \notin Big /\ Fresh
                       /\ remote.file[w.path] \in Gone \/ InLocal(remote.file[w.path])

\* The requests of one tab.
Channel(s) ==
    /\ \A w \in wire[s] : Request(w)
    /\ \/ \A w \in wire[s] : w.v = 0
       \/ (\A w \in wire[s] : w.v # 0) /\ tab[s].pc \in {"landing", "idle"}
    /\ tab[s].pc = "landing" => \A w \in wire[s] : w.v # 0
    /\ wire[s] # {} => tab[s].pc \in {"landing", "download", "release", "idle"}
    /\ wire[s] # {} /\ tab[s].pc = "download" => tab[s].down = {}
    /\ tab[s].pc # "sent" => tab[s].batch = {}

\* Only the last tab that took the lease has any.
Lone ==
    \A s \in Tabs : wire[s] # {} =>
        lease.of \in {s, NoTab} /\ \A t \in Tabs \ {s} : wire[t] = {}

\* The listings of that tab are still true.
Seen(m, n) ==
    /\ Nested(m)
    /\ \A p \in Paths : m.file[p] = IF n.file[p] \in Big THEN 0 ELSE n.file[p]
Listing(t) ==
    /\ t.pc \in {"list", "load"} => Seen(t.l, local)
    /\ t.pc = "list" => \A p \in Paths : p \in t.skip <=> local.file[p] \in Big
    /\ t.pc = "load" =>
         /\ Seen(t.r, remote) /\ (t.missing <=> ~present)
         /\ \A p \in Paths :
              p \in t.skip <=> local.file[p] \in Big \/ remote.file[p] \in Big

\* What its plan has left to do.
Sent(t, p) == \E w \in t.batch : w.path = p
Rising(t, p) == p \in t.up \/ Sent(t, p)
Leaving(t, p) == \E x \in Sides : <<p, x>> \in t.del
Pending(t, p) == Rising(t, p) \/ p \in t.down \/ Leaving(t, p)

Apart(t) ==
    /\ t.pc # "copy" => t.up = {} /\ t.copy = {}
    /\ \A p \in Paths :
         /\ Rising(t, p) => p \notin t.down /\ ~Leaving(t, p)
         /\ p \in t.down => ~Leaving(t, p)
         /\ <<p, "remote">> \in t.copy => p \in t.up
         /\ <<p, "local">> \in t.copy => p \in t.down
         /\ Pending(t, p) => /\ base.file[p] \in Gone
                             /\ local.file[p] \notin Big /\ remote.file[p] \notin Big

\* Conflict copies get names the plan knows nothing of.
Claims(t) ==
    t.pc = "copy" =>
        \A p \in Paths :
            /\ Pending(t, p) => p \in t.claimed
            /\ p \in Spares /\ remote.file[p] # 0 => p \in t.claimed

Uploads(t) ==
    /\ \A p \in t.up : \/ remote.file[p] \in Gone \/ InLocal(remote.file[p])
                       \/ <<p, "remote">> \in t.copy
    /\ \A w \in t.batch :
         /\ w.path \in Paths /\ w.v # 0 /\ w.v = local.file[w.path]
         /\ remote.file[w.path] \in Gone \/ InLocal(remote.file[w.path])

\* The version of a file is also where this sync no longer writes.
Elsewhere(t, p) ==
    \E q \in Paths : /\ local.file[q] = local.file[p]
                     /\ q \notin t.down /\ ~Leaving(t, q)
                     /\ q \in Inside => t.dirOp # "delete local"
Downloads(t) ==
    \A p \in t.down : \/ local.file[p] \in Gone \/ Elsewhere(t, p)
                      \/ <<p, "local">> \in t.copy

Deletions(t) ==
    \A p \in Paths :
        /\ <<p, "remote">> \in t.del =>
             local.file[p] = 0 /\ remote.file[p] \in Gone
        /\ <<p, "local">> \in t.del =>
             remote.file[p] = 0 /\ local.file[p] \in Gone

\* A directory is removed once it is empty.
Dirs(s) ==
    LET t == tab[s] IN
    /\ t.dirOp \in {"delete local", "delete remote"} =>
         \A p \in Inside : ~Rising(t, p) /\ p \notin t.down
    /\ t.dirOp = "delete local" =>
         \A p \in Inside : local.file[p] = 0 \/ <<p, "local">> \in t.del
    /\ t.dirOp = "delete remote" =>
         \A p \in Inside : \/ remote.file[p] = 0 \/ <<p, "remote">> \in t.del
                           \/ [path |-> p, v |-> 0] \in wire[s]

\* A file on its way up is written nowhere else by this sync.
Bound(s) ==
    \A w \in wire[s] : w.v # 0 =>
        /\ w.path \notin tab[s].down /\ ~Leaving(tab[s], w.path)
        /\ w.path \in Inside => tab[s].dirOp \notin {"delete local", "delete remote"}

\* Whatever is not left to do is done.
Open(s, p) == \E w \in wire[s] : w.path = p
Merging(s) == \A p \in Paths : Shared(p) \/ Pending(tab[s], p) \/ Open(s, p)

Owner(s) ==
    /\ Listing(tab[s])
    /\ tab[s].pc \in {"copy", "sent", "landing", "download"} =>
         /\ Fresh /\ Apart(tab[s]) /\ Claims(tab[s]) /\ Uploads(tab[s])
         /\ Downloads(tab[s]) /\ Deletions(tab[s]) /\ Dirs(s) /\ Bound(s) /\ Merging(s)
    /\ tab[s].pc = "put" =>
         \A p \in Paths :
            /\ Shared(p)
            /\ tab[s].merged.file[p] =
                 IF local.file[p] \in Big THEN 0 ELSE local.file[p]

FolderInv ==
    /\ TypeOK /\ Trees /\ Past /\ NothingLost /\ Lone
    /\ \A s \in Tabs : Channel(s) /\ (lease.of = s => Owner(s))

-----------------------------------------------------------------------------
(* The operators on manifests.                                             *)

LEMMA NothingTyped == Nothing \in Manifests /\ \A p \in Paths : Nothing.file[p] = 0
BY FolderAssumption DEF FolderAssumption, Nothing, Manifests

\* A write changes one file.
LEMMA PutWrites ==
    ASSUME NEW m \in Manifests, NEW p \in Paths, NEW v \in Versions
    PROVE  /\ Put(m, p, v) \in Manifests
           /\ Put(m, p, v).file[p] = v
           /\ \A q \in Paths \ {p} : Put(m, p, v).file[q] = m.file[q]
           /\ Put(m, p, v).dir <=> m.dir \/ (p \in Inside /\ v # 0)
BY DEF Put, Manifests, Versions

\* A file that is added brings its directory.
LEMMA PutAdds ==
    ASSUME NEW m \in Manifests, NEW p \in Paths, NEW v \in Versions, v # 0
    PROVE  /\ Put(m, p, v).file[p] = v
           /\ \A q \in Paths \ {p} : Put(m, p, v).file[q] = m.file[q]
           /\ m.dir \/ p \in Inside => Put(m, p, v).dir
BY DEF Put, Manifests, Versions

\* A file that is removed leaves its directory.
LEMMA PutClears ==
    ASSUME NEW m \in Manifests, NEW p \in Paths
    PROVE  /\ Put(m, p, 0).file[p] = 0
           /\ \A q \in Paths \ {p} : Put(m, p, 0).file[q] = m.file[q]
           /\ m.dir => Put(m, p, 0).dir
BY DEF Put, Manifests

\* Removing the subdirectory removes what is in it.
LEMMA DropDirClears ==
    ASSUME NEW m \in Manifests
    PROVE  /\ DropDir(m) \in Manifests
           /\ \A p \in Inside \cap Paths : DropDir(m).file[p] = 0
           /\ \A p \in Paths \ Inside : DropDir(m).file[p] = m.file[p]
BY FolderAssumption DEF FolderAssumption, DropDir, Manifests

\* A listing leaves the oversized files out.
LEMMA ListedFiles ==
    ASSUME NEW m \in Manifests
    PROVE  /\ Listed(m) \in Manifests
           /\ Oversized(m) \subseteq Paths
           /\ \A p \in Paths : p \in Oversized(m) <=> m.file[p] \in Big
           /\ \A p \in Paths : Listed(m).file[p] = IF m.file[p] \in Big THEN 0 ELSE m.file[p]
           /\ Listed(m).dir = m.dir
BY FolderAssumption DEF FolderAssumption, Listed, Oversized, Manifests

\* What is assumed of the constants, in the form the proofs use it.
LEMMA Constants ==
    /\ Inside \subseteq Paths /\ Files \subseteq Paths /\ Spares \subseteq Paths
    /\ Files \cap Spares = {} /\ 0 \notin Big /\ 0 \in Versions
    /\ Big \subseteq Versions /\ NoTab \notin Tabs /\ "dir" \notin Paths
BY FolderAssumption DEF FolderAssumption, Paths, Edits, Versions

LEMMA IdleTyped == Idle \in Syncs
BY NothingTyped DEF Idle, Syncs

-----------------------------------------------------------------------------
(* Types.                                                                  *)

LEMMA InitTypeOK == Init => TypeOK
<1> SUFFICES ASSUME Init PROVE TypeOK OBVIOUS
<1>1. 0 \in 0..2 /\ 0 \in 0..MaxEdits /\ 0 \in 0..MaxMishaps
  BY FolderAssumption DEF FolderAssumption
<1>2. tab \in [Tabs -> Syncs] /\ wire \in [Tabs -> SUBSET Requests]
  BY IdleTyped DEF Init
<1>3. lease \in [of : Tabs \cup {NoTab}, live : BOOLEAN] /\ present \in BOOLEAN
  BY DEF Init
<1>4. local \in Manifests /\ remote \in Manifests /\ base \in Manifests
  BY NothingTyped DEF Init
<1> QED BY <1>1, <1>2, <1>3, <1>4 DEF Init, TypeOK

\* What a person or the agent writes or deletes is typed.
LEMMA EditTyped ==
    ASSUME TypeOK, NEW mine \in Manifests, NEW other \in Manifests
    PROVE  /\ \A p \in Paths : Written(mine, other, p) =>
                edits' \in 0..MaxEdits /\ edits' # 0 /\ edits' = edits + 1
                /\ retired' \subseteq 0..MaxEdits
           /\ \A ps \in SUBSET Paths : Deleted(mine, other, ps) =>
                edits' = edits /\ retired' \subseteq 0..MaxEdits
<1>1. /\ \A p \in Paths : mine.file[p] \in 0..MaxEdits /\ other.file[p] \in 0..MaxEdits
      /\ edits \in 0..MaxEdits /\ retired \subseteq 0..MaxEdits /\ MaxEdits \in Nat
  BY FolderAssumption DEF FolderAssumption, TypeOK, Manifests
<1>2. ASSUME NEW p \in Paths, Written(mine, other, p)
      PROVE  /\ edits' \in 0..MaxEdits /\ edits' # 0 /\ edits' = edits + 1
             /\ retired' \subseteq 0..MaxEdits
  <2>1. edits' \in 0..MaxEdits /\ edits' # 0 /\ edits' = edits + 1 /\ edits + 1 \in 0..MaxEdits
    BY <1>1, <1>2 DEF Written
  <2> QED BY <1>1, <1>2, <2>1 DEF Written
<1>3. ASSUME NEW ps \in SUBSET Paths, Deleted(mine, other, ps)
      PROVE  edits' = edits /\ retired' \subseteq 0..MaxEdits
  BY <1>1, <1>3 DEF Deleted
<1> QED BY <1>2, <1>3

LEMMA Pairs ==
    ASSUME NEW A \in SUBSET Paths, NEW B \in SUBSET Paths
    PROVE  {<<p, "remote">> : p \in A} \cup {<<p, "local">> : p \in B} \in SUBSET (Paths \X Sides)
<1> DEFINE P == Paths \X Sides
<1>1. \A p \in Paths : <<p, "remote">> \in P /\ <<p, "local">> \in P
  BY DEF Sides
<1> HIDE DEF P
<1> SUFFICES {<<p, "remote">> : p \in A} \cup {<<p, "local">> : p \in B} \subseteq P
  BY DEF P
<1> QED BY <1>1

LEMMA PlannedTyped ==
    ASSUME NEW t \in Syncs, NEW b \in Manifests, NEW newer, NEW r \in 0..2
    PROVE  [Planned(t, b, newer) EXCEPT !.rev = r] \in Syncs
<1> DEFINE choice(p) == Plan(t.l.file[p], t.r.file[p], b.file[p], p \in newer)
           of(a) == {p \in Paths \ t.skip : choice(p) = a}
           cp == {<<p, "remote">> : p \in of("local wins")}
                   \cup {<<p, "local">> : p \in of("remote wins")}
           dl == {<<p, "remote">> : p \in of("delete remote")}
                   \cup {<<p, "local">> : p \in of("delete local")}
           dir == PlanDir(t.l.dir, t.r.dir, b.dir,
                          \E p \in Inside \ t.skip :
                             choice(p) \in {"upload", "download", "local wins",
                                            "remote wins"})
           up == of("upload") \cup of("local wins")
           down == of("download") \cup of("remote wins")
           claimed == Names(t.l) \cup Names(t.r) \cup Names(b)
           pairs == SUBSET (Paths \X Sides)
           dirOps == {"nothing", "make local", "delete local", "delete remote"}
<1>1. \A a : of(a) \in SUBSET Paths
  OBVIOUS
<1> HIDE DEF of
<1>2. cp \in pairs /\ dl \in pairs
  BY <1>1, Pairs
<1>3. dir \in dirOps
  BY DEF PlanDir
<1>4. claimed \in SUBSET Paths /\ up \in SUBSET Paths /\ down \in SUBSET Paths
  BY <1>1 DEF Names
<1>5. [Planned(t, b, newer) EXCEPT !.rev = r] =
        [t EXCEPT !.pc = "copy", !.l = Nothing, !.r = Nothing, !.skip = {},
                  !.missing = FALSE, !.claimed = claimed, !.copy = cp, !.up = up,
                  !.down = down, !.del = dl, !.dirOp = dir, !.rev = r]
  BY DEF Planned, of, Syncs
<1> HIDE DEF choice, cp, dl, dir, up, down, claimed, pairs, dirOps
<1> DEFINE u == [t EXCEPT !.pc = "copy", !.l = Nothing, !.r = Nothing, !.skip = {},
                          !.missing = FALSE, !.claimed = claimed, !.rev = r]
<1>6. u \in Syncs
  BY <1>4, NothingTyped DEF Syncs
<1>7. [u EXCEPT !.copy = cp, !.del = dl] \in Syncs
  BY <1>2, <1>6 DEF Syncs, pairs
<1>8. [[u EXCEPT !.copy = cp, !.del = dl] EXCEPT !.up = up, !.down = down, !.dirOp = dir] \in Syncs
  BY <1>3, <1>4, <1>7 DEF Syncs, dirOps
<1>9. [Planned(t, b, newer) EXCEPT !.rev = r] =
      [[u EXCEPT !.copy = cp, !.del = dl] EXCEPT !.up = up, !.down = down, !.dirOp = dir]
  BY <1>5 DEF Syncs
<1> QED BY <1>8, <1>9

LEMMA SyncFields ==
    ASSUME NEW t \in Syncs
    PROVE  /\ t.l \in Manifests /\ t.r \in Manifests /\ t.merged \in Manifests
           /\ t.skip \subseteq Paths /\ t.up \subseteq Paths /\ t.down \subseteq Paths
           /\ t.claimed \subseteq Paths /\ t.batch \subseteq Requests
           /\ \A c \in t.copy : c \in Paths \X Sides /\ c[1] \in Paths /\ c[2] \in Sides
           /\ \A d \in t.del : d \in Paths \X Sides /\ d[1] \in Paths /\ d[2] \in Sides
           /\ t.missing \in BOOLEAN
BY DEF Syncs

\* The updates that the steps of a sync make to its record.
LEMMA SyncUpdates ==
    ASSUME NEW t \in Syncs
    PROVE  /\ \A pc \in {"scan", "download"} : [t EXCEPT !.pc = pc] \in Syncs
           /\ \A m \in Manifests, ps \in SUBSET Paths :
                [t EXCEPT !.pc = "list", !.l = m, !.skip = ps] \in Syncs
           /\ \A m \in Manifests, ps \in SUBSET Paths, b \in BOOLEAN :
                [t EXCEPT !.pc = "load", !.r = m, !.skip = @ \cup ps, !.missing = b] \in Syncs
           /\ \A c \in Paths \X Sides, n \in Paths :
                [t EXCEPT !.copy = @ \ {c}, !.claimed = @ \cup {n}, !.up = @ \cup {n}] \in Syncs
           /\ \A B \in SUBSET Requests, pc \in {"download", "sent"} :
                [t EXCEPT !.claimed = {}, !.up = {}, !.batch = B, !.pc = pc] \in Syncs
           /\ [t EXCEPT !.pc = "landing", !.batch = {}] \in Syncs
           /\ \A p : [t EXCEPT !.down = @ \ {p}] \in Syncs
           /\ \A d : [t EXCEPT !.del = @ \ {d}] \in Syncs
           /\ [t EXCEPT !.dirOp = "nothing"] \in Syncs
           /\ \A m \in Manifests : [t EXCEPT !.pc = "put", !.merged = m] \in Syncs
<1>1. \A pc \in {"scan", "download"} : [t EXCEPT !.pc = pc] \in Syncs
  BY DEF Syncs
<1>2. \A m \in Manifests, ps \in SUBSET Paths :
        [t EXCEPT !.pc = "list", !.l = m, !.skip = ps] \in Syncs
  BY DEF Syncs
<1>3. \A m \in Manifests, ps \in SUBSET Paths, b \in BOOLEAN :
        [t EXCEPT !.pc = "load", !.r = m, !.skip = @ \cup ps, !.missing = b] \in Syncs
  BY DEF Syncs
<1>4. \A c \in Paths \X Sides, n \in Paths :
        [t EXCEPT !.copy = @ \ {c}, !.claimed = @ \cup {n}, !.up = @ \cup {n}] \in Syncs
  BY DEF Syncs
<1>5. \A B \in SUBSET Requests, pc \in {"download", "sent"} :
        [t EXCEPT !.claimed = {}, !.up = {}, !.batch = B, !.pc = pc] \in Syncs
  BY DEF Syncs
<1>6. /\ [t EXCEPT !.pc = "landing", !.batch = {}] \in Syncs
      /\ [t EXCEPT !.dirOp = "nothing"] \in Syncs
  BY DEF Syncs
<1>7. \A p : [t EXCEPT !.down = @ \ {p}] \in Syncs
  BY DEF Syncs
<1>8. \A d : [t EXCEPT !.del = @ \ {d}] \in Syncs
  BY DEF Syncs
<1>9. \A m \in Manifests : [t EXCEPT !.pc = "put", !.merged = m] \in Syncs
  BY DEF Syncs
<1> QED BY <1>1, <1>2, <1>3, <1>4, <1>5, <1>6, <1>7, <1>8, <1>9

\* What a sync knows after it listed a side.
LEMMA SyncLists ==
    ASSUME NEW t \in Syncs, NEW m, NEW ps, NEW gone
    PROVE  /\ LET u == [t EXCEPT !.pc = "list", !.l = m, !.skip = ps]
              IN  u.pc = "list" /\ u.l = m /\ u.skip = ps /\ u.batch = t.batch
           /\ LET u == [t EXCEPT !.pc = "load", !.r = m, !.skip = @ \cup ps, !.missing = gone]
              IN  /\ u.pc = "load" /\ u.r = m /\ u.skip = t.skip \cup ps /\ u.missing = gone
                  /\ u.l = t.l /\ u.batch = t.batch
BY DEF Syncs

\* Every step keeps the types.
LEMMA StepTypeOK == TypeOK /\ [Next]_vars => TypeOK'
<1> SUFFICES ASSUME TypeOK, [Next]_vars PROVE TypeOK' OBVIOUS
<1>0. /\ local \in Manifests /\ remote \in Manifests /\ base \in Manifests
      /\ present \in BOOLEAN /\ rev \in 0..2
      /\ lease \in [of : Tabs \cup {NoTab}, live : BOOLEAN]
      /\ tab \in [Tabs -> Syncs] /\ wire \in [Tabs -> SUBSET Requests]
      /\ edits \in 0..MaxEdits /\ mishaps \in 0..MaxMishaps
      /\ retired \subseteq 0..MaxEdits
  BY DEF TypeOK
<1>t. \A s \in Tabs : tab[s] \in Syncs /\ wire[s] \in SUBSET Requests
  BY <1>0
<1>f. \A m \in Manifests, p \in Paths : m.file[p] \in Versions /\ m.file[p] \in 0..MaxEdits
  BY DEF Manifests, Versions
<1>m. Mishap => mishaps' \in 0..MaxMishaps
  BY <1>0, FolderAssumption DEF FolderAssumption, Mishap
<1>n. NextRev(rev) \in 0..2 /\ NextRev(0) \in 0..2
  BY DEF NextRev
<1>r. 0 \in Versions /\ 0 \in 0..2
  BY Constants
<1>i. \A s \in Tabs : Throw(s) => tab' \in [Tabs -> Syncs]
  <2>1. [Idle EXCEPT !.pc = "release"] \in Syncs
    BY IdleTyped DEF Syncs
  <2> QED BY <1>0, <2>1 DEF Throw
<1>g. \A s \in Tabs, pc \in {"scan", "download"} : Goto(s, pc) => tab' \in [Tabs -> Syncs]
  <2> SUFFICES ASSUME NEW s \in Tabs, NEW pc \in {"scan", "download"}, Goto(s, pc)
               PROVE  tab' \in [Tabs -> Syncs]
    OBVIOUS
  <2>1. [tab[s] EXCEPT !.pc = pc] \in Syncs
    BY <1>t, SyncUpdates
  <2> QED BY <2>1, <1>0 DEF Goto
<1> DEFINE Rest == /\ local' \in Manifests /\ remote' \in Manifests /\ base' \in Manifests
                   /\ present' \in BOOLEAN /\ rev' \in 0..2
                   /\ lease' \in [of : Tabs \cup {NoTab}, live : BOOLEAN]
                   /\ edits' \in 0..MaxEdits /\ mishaps' \in 0..MaxMishaps
                   /\ retired' \subseteq 0..MaxEdits
<1>q. Rest /\ tab' \in [Tabs -> Syncs] /\ wire' \in [Tabs -> SUBSET Requests] => TypeOK'
  BY DEF TypeOK
<1>1. ASSUME NEW p \in Files, PersonEdits(p) PROVE TypeOK'
  <2>1. p \in Paths /\ {p} \in SUBSET Paths /\ Inside \in SUBSET Paths
    BY Constants
  <2>2. edits' \in 0..MaxEdits /\ retired' \subseteq 0..MaxEdits
    BY <1>0, <1>1, <2>1, EditTyped DEF PersonEdits
  <2>3. local' \in Manifests
    <3>1. CASE Written(local, remote, p) /\ local' = Put(local, p, edits + 1)
      BY <1>0, <2>1, <3>1, EditTyped, PutWrites DEF Versions
    <3>2. CASE local' = Put(local, p, 0) \/ local' = DropDir(local)
      BY <1>0, <1>r, <2>1, <3>2, PutWrites, DropDirClears
    <3> QED BY <1>1, <3>1, <3>2 DEF PersonEdits
  <2> QED BY <1>0, <1>1, <2>2, <2>3 DEF PersonEdits, server, TypeOK
<1>2. ASSUME NEW p \in Files, AgentEdits(p) PROVE TypeOK'
  <2>1. p \in Paths /\ {p} \in SUBSET Paths /\ Inside \in SUBSET Paths
    BY Constants
  <2>2. edits' \in 0..MaxEdits /\ retired' \subseteq 0..MaxEdits
    BY <1>0, <1>2, <2>1, EditTyped DEF AgentEdits
  <2>3. remote' \in Manifests /\ present' \in BOOLEAN
    <3>1. CASE Written(remote, local, p) /\ remote' = Put(remote, p, edits + 1) /\ present' = TRUE
      BY <1>0, <2>1, <3>1, EditTyped, PutWrites DEF Versions
    <3>2. CASE (remote' = Put(remote, p, 0) \/ remote' = DropDir(remote)) /\ present' = present
      BY <1>0, <1>r, <2>1, <3>2, PutWrites, DropDirClears
    <3> QED BY <1>2, <3>1, <3>2 DEF AgentEdits
  <2> QED BY <1>0, <1>2, <2>2, <2>3 DEF AgentEdits, server, TypeOK
<1>3. CASE Reap
  <2>1. Range(remote.file) \subseteq 0..MaxEdits
    BY <1>0, <1>f DEF Range, Manifests
  <2> QED BY <1>0, <1>3, <1>m, <2>1, NothingTyped DEF Reap, server, TypeOK
<1>4. CASE Lapse
  BY <1>0, <1>4, <1>m DEF Lapse, history, TypeOK
<1>5. ASSUME NEW s \in Tabs, Acquire(s) PROVE TypeOK'
  <2>1. [tab[s] EXCEPT !.pc = "scan"] \in Syncs
    BY <1>t, SyncUpdates
  <2> QED BY <1>0, <1>5, <2>1 DEF Acquire, history, TypeOK
<1>6. ASSUME NEW s \in Tabs, Renew(s) PROVE TypeOK'
  BY <1>0, <1>6 DEF Renew, history, TypeOK
<1>7. ASSUME NEW s \in Tabs, Release(s) PROVE TypeOK'
  BY <1>0, <1>7, IdleTyped DEF Release, history, TypeOK
<1>8. ASSUME NEW s \in Tabs, ScanLocal(s) PROVE TypeOK'
  <2>1. [tab[s] EXCEPT !.pc = "list", !.l = Listed(local), !.skip = Oversized(local)] \in Syncs
    BY <1>0, <1>t, ListedFiles, SyncUpdates
  <2> QED BY <1>0, <1>8, <2>1 DEF ScanLocal, server, history, TypeOK
<1>9. ASSUME NEW s \in Tabs, ServerTree(s) PROVE TypeOK'
  <2>1. [tab[s] EXCEPT !.pc = "load", !.r = Listed(remote),
                       !.skip = @ \cup Oversized(remote), !.missing = ~present] \in Syncs
    BY <1>0, <1>t, ListedFiles, SyncUpdates
  <2> QED BY <1>0, <1>9, <2>1 DEF ServerTree, server, history, TypeOK
<1>10. ASSUME NEW s \in Tabs, NEW readable \in BOOLEAN, LoadAncestor(s, readable) PROVE TypeOK'
  <2> DEFINE b == IF readable THEN base ELSE Nothing
             r == IF readable THEN rev ELSE 0
             resets == Resets(s, b) \/ (tab[s].missing /\ ~readable)
             known == IF resets THEN Nothing ELSE b
             at == IF resets THEN NextRev(r) ELSE r
  <2>1. b \in Manifests /\ known \in Manifests /\ at \in 0..2
    BY <1>0, <1>n, <1>r, NothingTyped
  <2>2. mishaps' \in 0..MaxMishaps
    BY <1>0, <1>m, <1>10 DEF LoadAncestor
  <2>3. base' \in Manifests /\ rev' \in 0..2
    BY <1>0, <1>10, <2>1, NothingTyped DEF LoadAncestor
  <2>4. CASE Throw(s)
    BY <1>0, <1>10, <1>i, <2>2, <2>3, <2>4 DEF LoadAncestor, history, TypeOK
  <2>5. CASE ~Throw(s)
    <3>1. PICK newer : tab' = [tab EXCEPT ![s] = [Planned(@, known, newer) EXCEPT !.rev = at]]
      BY <1>10, <2>5 DEF LoadAncestor
    <3>2. [Planned(tab[s], known, newer) EXCEPT !.rev = at] \in Syncs
      BY <1>t, <2>1, PlannedTyped
    <3>3. tab' \in [Tabs -> Syncs]
      BY <1>0, <3>1, <3>2
    <3> QED BY <1>0, <1>10, <2>2, <2>3, <3>3 DEF LoadAncestor, history, TypeOK
  <2> QED BY <2>4, <2>5
<1>11. ASSUME NEW s \in Tabs, NEW c \in tab[s].copy, KeepCopy(s, c) PROVE TypeOK'
  <2>1. c[1] \in Paths
    BY <1>t, SyncFields
  <2> DEFINE v == (IF c[2] = "local" THEN local ELSE remote).file[c[1]]
             name == CHOOSE n \in FreeNames(s, c[1]) : TRUE
  <2>2. name \in Paths
    BY <1>11, Constants DEF KeepCopy, FreeNames
  <2>3. v \in Versions
    BY <1>0, <1>f, <2>1
  <2>4. local' = Put(local, name, v)
    BY <1>11 DEF KeepCopy
  <2> HIDE DEF v, name
  <2>5. local' \in Manifests
    BY <1>0, <2>2, <2>3, <2>4, PutWrites
  <2>6. tab' = [tab EXCEPT ![s].copy = @ \ {c}, ![s].claimed = @ \cup {name},
                           ![s].up = @ \cup {name}]
    BY <1>11 DEF KeepCopy, name
  <2>7. [tab[s] EXCEPT !.copy = @ \ {c}, !.claimed = @ \cup {name}, !.up = @ \cup {name}] \in Syncs
    BY <1>t, <2>2, SyncFields, SyncUpdates
  <2>8. tab' \in [Tabs -> Syncs]
    BY <1>0, <2>6, <2>7
  <2> QED BY <1>0, <1>11, <2>5, <2>8 DEF KeepCopy, server, history, TypeOK
<1>12. ASSUME NEW s \in Tabs, ReadBatch(s) PROVE TypeOK'
  <2>1. {[path |-> p, v |-> local.file[p]] : p \in tab[s].up} \in SUBSET Requests
    <3>1. \A p \in tab[s].up : [path |-> p, v |-> local.file[p]] \in Requests
      BY <1>0, <1>f, <1>t, SyncFields DEF Requests
    <3> QED BY <3>1
  <2>2. \A B \in SUBSET Requests, pc \in {"download", "sent"} :
          [tab[s] EXCEPT !.claimed = {}, !.up = {}, !.batch = B, !.pc = pc] \in Syncs
    BY <1>t, SyncUpdates
  <2>3. PICK B \in SUBSET Requests, pc \in {"download", "sent"} :
          tab' = [tab EXCEPT ![s].claimed = {}, ![s].up = {}, ![s].batch = B, ![s].pc = pc]
    BY <1>12, <2>1 DEF ReadBatch
  <2>4. tab' \in [Tabs -> Syncs]
    BY <1>0, <2>2, <2>3
  <2> QED BY <1>0, <1>12, <2>4 DEF ReadBatch, server, history, TypeOK
<1>13. ASSUME NEW s \in Tabs, AcceptBatch(s) PROVE TypeOK'
  <2>1. CASE Throw(s) /\ UNCHANGED wire
    BY <1>0, <1>13, <1>i, <2>1 DEF AcceptBatch, server, history, TypeOK
  <2>2. CASE /\ wire' = [wire EXCEPT ![s] = tab[s].batch]
             /\ tab' = [tab EXCEPT ![s].pc = "landing", ![s].batch = {}]
    <3>1. /\ [tab[s] EXCEPT !.pc = "landing", !.batch = {}] \in Syncs
          /\ tab[s].batch \in SUBSET Requests
      BY <1>t, SyncFields, SyncUpdates
    <3> QED BY <1>0, <1>13, <2>2, <3>1 DEF AcceptBatch, server, history, TypeOK
  <2> QED BY <1>13, <2>1, <2>2 DEF AcceptBatch
<1>14. ASSUME NEW s \in Tabs, NEW w \in wire[s], Land(s, w) PROVE TypeOK'
  <2>1. w.path \in Paths \cup {"dir"} /\ w.v \in Versions
    BY <1>t DEF Requests, Versions
  <2>2. remote' \in Manifests
    BY <1>0, <1>14, <2>1, PutWrites, DropDirClears DEF Land
  <2>3. wire' \in [Tabs -> SUBSET Requests]
    BY <1>0, <1>t, <1>14 DEF Land
  <2> QED BY <1>0, <1>14, <2>2, <2>3 DEF Land, server, history, TypeOK
<1>15. ASSUME NEW s \in Tabs, Uploaded(s) PROVE TypeOK'
  BY <1>0, <1>15, <1>g DEF Uploaded, server, history, TypeOK
<1>16. ASSUME NEW s \in Tabs, NEW p \in Paths, Download(s, p) PROVE TypeOK'
  <2>1. [tab[s] EXCEPT !.down = @ \ {p}] \in Syncs
    BY <1>t, SyncUpdates
  <2>2. local' \in Manifests
    BY <1>0, <1>f, <1>16, PutWrites DEF Download
  <2> QED BY <1>0, <1>16, <2>1, <2>2 DEF Download, server, history, TypeOK
<1>17. ASSUME NEW s \in Tabs, NEW p \in Paths, DeleteRemote(s, p) PROVE TypeOK'
  <2>1. [tab[s] EXCEPT !.del = @ \ {<<p, "remote">>}] \in Syncs
    BY <1>t, SyncUpdates
  <2>2. [path |-> p, v |-> 0] \in Requests
    BY <1>r DEF Requests, Versions
  <2> QED BY <1>0, <1>t, <1>17, <2>1, <2>2 DEF DeleteRemote, server, history, TypeOK
<1>18. ASSUME NEW s \in Tabs, NEW p \in Paths, DeleteLocal(s, p) PROVE TypeOK'
  <2>1. [tab[s] EXCEPT !.del = @ \ {<<p, "local">>}] \in Syncs
    BY <1>t, SyncUpdates
  <2>2. local' \in Manifests
    BY <1>0, <1>r, <1>18, PutWrites DEF DeleteLocal
  <2> QED BY <1>0, <1>18, <2>1, <2>2 DEF DeleteLocal, server, history, TypeOK
<1>19. ASSUME NEW s \in Tabs, SyncDir(s) PROVE TypeOK'
  <2>1. [tab[s] EXCEPT !.dirOp = "nothing"] \in Syncs
    BY <1>t, SyncUpdates
  <2>2. [path |-> "dir", v |-> 0] \in Requests
    BY <1>r DEF Requests, Versions
  <2>3. [local EXCEPT !.dir = TRUE] \in Manifests
    BY <1>0 DEF Manifests
  <2>4. local' \in Manifests
    BY <1>0, <1>19, <2>3, DropDirClears DEF SyncDir
  <2>5. wire' \in [Tabs -> SUBSET Requests]
    BY <1>0, <1>19, <2>2 DEF SyncDir
  <2> QED BY <1>0, <1>19, <2>1, <2>4, <2>5 DEF SyncDir, server, history, TypeOK
<1>20. ASSUME NEW s \in Tabs, Rewalk(s) PROVE TypeOK'
  <2>1. [tab[s] EXCEPT !.pc = "put", !.merged = Listed(local)] \in Syncs
    BY <1>0, <1>t, ListedFiles, SyncUpdates
  <2> QED BY <1>0, <1>20, <2>1 DEF Rewalk, server, history, TypeOK
<1>21. ASSUME NEW s \in Tabs, PutState(s) PROVE TypeOK'
  <2>1. tab[s].merged \in Manifests
    BY <1>t, SyncFields
  <2>2. base' \in Manifests /\ rev' \in 0..2
    BY <1>0, <1>n, <1>21, <2>1 DEF PutState
  <2> QED BY <1>0, <1>i, <1>21, <2>2 DEF PutState, history, TypeOK
<1>22. ASSUME NEW s \in Tabs, Stop(s) PROVE TypeOK'
  BY <1>0, <1>i, <1>22 DEF Stop, server, history, TypeOK
<1>23. ASSUME NEW s \in Tabs, Fail(s) PROVE TypeOK'
  <2>1. wire' \in [Tabs -> SUBSET Requests]
    BY <1>0, <1>23 DEF Fail
  <2> QED BY <1>0, <1>i, <1>m, <1>23, <2>1 DEF Fail, server, history, TypeOK
<1>24. ASSUME NEW s \in Tabs, Close(s) PROVE TypeOK'
  BY <1>0, <1>m, <1>24, IdleTyped DEF Close, server, history, TypeOK
<1>25. CASE UNCHANGED vars
  BY <1>0, <1>25 DEF vars, server, history, TypeOK
<1> QED
  BY <1>1, <1>2, <1>3, <1>4, <1>5, <1>6, <1>7, <1>8, <1>9, <1>10, <1>11, <1>12,
     <1>13, <1>14, <1>15, <1>16, <1>17, <1>18, <1>19, <1>20, <1>21, <1>22, <1>23,
     <1>24, <1>25
  DEF Next, SyncStep

\* THEOREM: the two trees, the ancestor, every sync and every request stay typed.
THEOREM FolderTyped == Spec => []TypeOK
BY InitTypeOK, StepTypeOK, PTL DEF Spec

-----------------------------------------------------------------------------
(* What a step leaves alone.                                               *)

SameFiles ==
    /\ local'.file = local.file /\ remote'.file = remote.file
    /\ base' = base /\ present' = present /\ retired' = retired

LEMMA ChannelFrame ==
    ASSUME SameFiles, NEW s \in Tabs, tab'[s] = tab[s], wire'[s] = wire[s], Channel(s)
    PROVE  Channel(s)'
BY DEF SameFiles, Channel, Request, Gone, Fresh, InLocal

LEMMA OwnerFrame ==
    ASSUME TypeOK, SameFiles, NEW s \in Tabs, tab'[s] = tab[s], wire'[s] = wire[s], Owner(s)
    PROVE  Owner(s)'
<1>1. Listing(tab[s])'
  BY DEF Owner, SameFiles, Listing, Seen, Nested
<1>2. ASSUME tab[s].pc \in {"copy", "sent", "landing", "download"}
      PROVE  (/\ Fresh /\ Apart(tab[s]) /\ Claims(tab[s]) /\ Uploads(tab[s])
              /\ Downloads(tab[s]) /\ Deletions(tab[s]) /\ Dirs(s) /\ Bound(s) /\ Merging(s))'
  <2>1. (Fresh /\ Apart(tab[s]) /\ Claims(tab[s]))'
    BY <1>2 DEF Owner, SameFiles, Fresh, Apart, Claims, Gone, Pending, Rising, Sent, Leaving
  <2>2. Uploads(tab[s])'
    BY <1>2 DEF Owner, SameFiles, Uploads, Gone, InLocal
  <2>3. Downloads(tab[s])'
    <3>1. \A p \in Paths : Elsewhere(tab[s], p)' <=> Elsewhere(tab[s], p)
      BY DEF SameFiles, Elsewhere, Leaving
    <3>2. tab[s].down \subseteq Paths
      BY SyncFields DEF TypeOK
    <3> QED BY <1>2, <3>1, <3>2 DEF Owner, SameFiles, Downloads, Gone
  <2>4. Deletions(tab[s])'
    BY <1>2 DEF Owner, SameFiles, Deletions, Gone
  <2>5. (Dirs(s) /\ Bound(s) /\ Merging(s))'
    BY <1>2
    DEF Owner, SameFiles, Dirs, Bound, Merging, Shared, Open, Pending, Rising, Sent, Leaving
  <2> QED BY <2>1, <2>2, <2>3, <2>4, <2>5
<1>3. tab[s].pc = "put" => 
        (\A p \in Paths : /\ Shared(p)
                          /\ tab[s].merged.file[p] =
                               IF local.file[p] \in Big THEN 0 ELSE local.file[p])'
  BY DEF Owner, SameFiles, Shared
<1> QED BY <1>1, <1>2, <1>3 DEF Owner

LEMMA TreesFrame ==
    ASSUME SameFiles, local.dir => local'.dir, remote.dir => remote'.dir, edits' = edits,
           Trees, Past, NothingLost
    PROVE  Trees' /\ Past' /\ NothingLost'
<1>1. Trees'
  BY DEF SameFiles, Trees, Nested
<1>2. Past'
  BY DEF SameFiles, Past, Ancestor, Forgotten, Gone
<1>3. NothingLost'
  BY DEF SameFiles, NothingLost
<1> QED BY <1>1, <1>2, <1>3

\* What the tabs have to show after a step, when one of them took it.
LEMMA TabStep ==
    ASSUME FolderInv, TypeOK', Trees', Past', NothingLost', Lone', NEW s \in Tabs,
           \A t \in Tabs \ {s} : tab'[t] = tab[t] /\ wire'[t] = wire[t],
           \/ SameFiles /\ (lease'.of = lease.of \/ lease'.of \notin Tabs \ {s})
           \/ lease.of = s /\ lease'.of = s,
           Channel(s)', lease'.of = s => Owner(s)'
    PROVE  FolderInv'
<1>1. ASSUME NEW t \in Tabs \ {s} PROVE (Channel(t) /\ (lease.of = t => Owner(t)))'
  <2>1. CASE SameFiles
    BY <2>1, ChannelFrame, OwnerFrame DEF FolderInv
  <2>2. CASE lease.of = s /\ lease'.of = s
    <3>1. wire[t] = {}
      BY <2>2, Constants DEF FolderInv, Lone
    <3> QED BY <2>2, <3>1 DEF FolderInv, Channel
  <2> QED BY <2>1, <2>2
<1> QED BY <1>1 DEF FolderInv

\* A step of a tab that changes no file.
LEMMA QuietStep ==
    ASSUME FolderInv, TypeOK', SameFiles, local.dir => local'.dir, remote' = remote,
           edits' = edits, NEW s \in Tabs,
           \A t \in Tabs \ {s} : tab'[t] = tab[t] /\ wire'[t] = wire[t],
           lease'.of = lease.of, Lone', Channel(s)', lease.of = s => Owner(s)'
    PROVE  FolderInv'
<1>1. Trees' /\ Past' /\ NothingLost'
  BY TreesFrame DEF FolderInv
<1> QED BY <1>1, TabStep

\* A step that changes neither files nor tabs.
LEMMA StillStep ==
    ASSUME FolderInv, TypeOK', SameFiles, local.dir => local'.dir, remote.dir => remote'.dir,
           edits' = edits, tab' = tab, wire' = wire, lease'.of = lease.of
    PROVE  FolderInv'
<1>1. Trees' /\ Past' /\ NothingLost'
  BY TreesFrame DEF FolderInv
<1>2. Lone'
  BY DEF FolderInv, Lone
<1>3. ASSUME NEW t \in Tabs PROVE (Channel(t) /\ (lease.of = t => Owner(t)))'
  BY ChannelFrame, OwnerFrame DEF FolderInv
<1> QED BY <1>1, <1>2, <1>3 DEF FolderInv

\* A sync that ends, whatever its tab still has on the wire.
LEMMA Ended ==
    ASSUME FolderInv, TypeOK', SameFiles, UNCHANGED <<local, remote, edits>>,
           NEW s \in Tabs, tab[s].pc # "idle",
           \/ tab' = [tab EXCEPT ![s] = Idle]
           \/ tab' = [tab EXCEPT ![s] = [Idle EXCEPT !.pc = "release"]],
           wire' = wire \/ wire' = [wire EXCEPT ![s] = {}],
           tab[s].pc = "landing" => wire'[s] = {} \/ tab'[s].pc = "idle",
           lease'.of = lease.of \/ (lease.of = s /\ lease'.of = NoTab)
    PROVE  FolderInv'
<1>1. /\ tab \in [Tabs -> Syncs] /\ wire \in [Tabs -> SUBSET Requests]
      /\ Channel(s) /\ Lone
  BY DEF FolderInv, TypeOK
<1>2. tab'[s].pc \in {"idle", "release"} /\ tab'[s].batch = {}
  BY <1>1 DEF Idle
<1>3. \A t \in Tabs \ {s} : tab'[t] = tab[t] /\ wire'[t] = wire[t]
  BY <1>1
<1>4. wire'[s] \subseteq wire[s]
  BY <1>1
<1>5. Lone'
  BY <1>1, <1>3, <1>4 DEF Lone
<1>6. \A w : Request(w) => Request(w)'
  BY DEF Request, SameFiles, Gone, InLocal, Fresh
<1>7. Channel(s)'
  BY <1>1, <1>2, <1>4, <1>6 DEF Channel
<1>8. Owner(s)'
  BY <1>2 DEF Owner, Listing
<1>9. Trees' /\ Past' /\ NothingLost'
  BY TreesFrame DEF FolderInv
<1> QED BY <1>3, <1>5, <1>7, <1>8, <1>9, TabStep, Constants

-----------------------------------------------------------------------------
(* The lease, the listings, and the ends of a sync.                        *)

\* What the invariant says of the types, in the form the steps use it.
LEMMA Typed ==
    ASSUME FolderInv
    PROVE  /\ local \in Manifests /\ remote \in Manifests /\ base \in Manifests
           /\ present \in BOOLEAN /\ edits \in Versions /\ retired \subseteq Versions
           /\ tab \in [Tabs -> Syncs] /\ wire \in [Tabs -> SUBSET Requests]
           /\ lease \in [of : Tabs \cup {NoTab}, live : BOOLEAN]
           /\ \A s \in Tabs : tab[s] \in Syncs /\ wire[s] \subseteq Requests
           /\ \A p \in Paths : /\ local.file[p] \in Versions /\ remote.file[p] \in Versions
                               /\ base.file[p] \in Versions
BY DEF FolderInv, TypeOK, Manifests, Versions

LEMMA StepAcquire ==
    ASSUME Closed, FolderInv, TypeOK', NEW s \in Tabs, Acquire(s)
    PROVE  FolderInv'
<1>1. \A t \in Tabs : wire[t] = {}
  BY DEF Closed, Acquire, Landed
<1>2. tab'[s].pc = "scan" /\ tab'[s].batch = tab[s].batch
  <2>1. tab'[s] = [tab[s] EXCEPT !.pc = "scan"]
    BY Typed DEF Acquire
  <2> QED BY <2>1, Typed DEF Syncs
<1>3. \A t \in Tabs \ {s} : tab'[t] = tab[t] /\ wire'[t] = wire[t]
  BY Typed DEF Acquire
<1>4. SameFiles /\ lease'.of = s
  BY DEF Acquire, SameFiles, history
<1>5. Trees' /\ Past' /\ NothingLost'
  BY <1>4, TreesFrame DEF FolderInv, Acquire, history
<1>6. Lone'
  BY <1>1 DEF Acquire, Lone
<1>7. Channel(s)'
  BY <1>1, <1>2 DEF Acquire, FolderInv, Channel
<1>8. Owner(s)'
  BY <1>2 DEF Owner, Listing
<1> QED BY <1>3, <1>4, <1>5, <1>6, <1>7, <1>8, TabStep

LEMMA StepLease ==
    ASSUME FolderInv, TypeOK', Lapse \/ \E s \in Tabs : Renew(s)
    PROVE  FolderInv'
<1>1. SameFiles /\ UNCHANGED <<local, remote, edits, tab, wire>> /\ lease'.of = lease.of
  BY Typed DEF Lapse, Renew, SameFiles, history
<1> QED BY <1>1, StillStep

LEMMA StepEnd ==
    ASSUME FolderInv, TypeOK', NEW s \in Tabs, Stop(s) \/ Fail(s) \/ Close(s) \/ Release(s)
    PROVE  FolderInv'
<1>1. SameFiles /\ UNCHANGED <<local, remote, edits>> /\ tab[s].pc # "idle"
  BY DEF Stop, Fail, Close, Release, SameFiles, history, server, Guarded
<1>2. \/ tab' = [tab EXCEPT ![s] = Idle]
      \/ tab' = [tab EXCEPT ![s] = [Idle EXCEPT !.pc = "release"]]
  BY DEF Stop, Fail, Close, Release, Throw
<1>3. wire' = wire \/ wire' = [wire EXCEPT ![s] = {}]
  BY DEF Stop, Fail, Close, Release
<1>4. tab[s].pc = "landing" => wire'[s] = {} \/ tab'[s].pc = "idle"
  BY Typed DEF Stop, Fail, Close, Release, Guarded, Idle
<1>5. lease'.of = lease.of \/ (lease.of = s /\ lease'.of = NoTab)
  BY DEF Stop, Fail, Close, Release, server
<1> QED BY <1>1, <1>2, <1>3, <1>4, <1>5, Ended

LEMMA StepScan ==
    ASSUME FolderInv, TypeOK', NEW s \in Tabs, ScanLocal(s)
    PROVE  FolderInv'
<1>1. /\ tab'[s].pc = "list" /\ tab'[s].batch = tab[s].batch
      /\ tab'[s].l = Listed(local) /\ tab'[s].skip = Oversized(local)
  <2>1. tab'[s] = [tab[s] EXCEPT !.pc = "list", !.l = Listed(local), !.skip = Oversized(local)]
    BY Typed DEF ScanLocal
  <2> QED BY <2>1, Typed, SyncLists
<1>2. \A t \in Tabs \ {s} : tab'[t] = tab[t] /\ wire'[t] = wire[t]
  BY Typed DEF ScanLocal
<1>3. SameFiles /\ lease' = lease /\ UNCHANGED <<local, remote, edits, wire>>
  BY DEF ScanLocal, SameFiles, history, server
<1>4. Lone' /\ Channel(s)'
  BY <1>1, <1>3 DEF ScanLocal, FolderInv, Lone, Channel
<1>5. Seen(Listed(local), local)
  BY Typed, ListedFiles, Constants DEF FolderInv, Trees, Seen, Nested
<1>6. Owner(s)'
  BY <1>1, <1>3, <1>5, Typed, ListedFiles DEF Owner, Listing, Seen, Nested
<1> QED BY <1>2, <1>3, <1>4, <1>6, QuietStep

LEMMA StepList ==
    ASSUME FolderInv, TypeOK', NEW s \in Tabs, ServerTree(s)
    PROVE  FolderInv'
<1>1. /\ tab'[s].pc = "load" /\ tab'[s].batch = tab[s].batch /\ tab'[s].l = tab[s].l
      /\ tab'[s].r = Listed(remote) /\ tab'[s].skip = tab[s].skip \cup Oversized(remote)
      /\ tab'[s].missing <=> ~present
  <2>0. PICK gone : gone = ~present
    OBVIOUS
  <2>1. tab'[s] = [tab[s] EXCEPT !.pc = "load", !.r = Listed(remote),
                                 !.skip = @ \cup Oversized(remote), !.missing = gone]
    BY <2>0, Typed DEF ServerTree
  <2>2. /\ tab'[s].pc = "load" /\ tab'[s].batch = tab[s].batch /\ tab'[s].l = tab[s].l
        /\ tab'[s].r = Listed(remote) /\ tab'[s].skip = tab[s].skip \cup Oversized(remote)
    BY <2>1, Typed, SyncLists
  <2>3. tab'[s].missing = gone
    BY <2>1, Typed, SyncLists
  <2> QED BY <2>0, <2>2, <2>3
<1>2. \A t \in Tabs \ {s} : tab'[t] = tab[t] /\ wire'[t] = wire[t]
  BY Typed DEF ServerTree
<1>3. SameFiles /\ lease' = lease /\ UNCHANGED <<local, remote, edits, wire, present>>
  BY DEF ServerTree, SameFiles, history, server
<1>4. Lone' /\ Channel(s)'
  BY <1>1, <1>3 DEF ServerTree, FolderInv, Lone, Channel
<1>5. Seen(Listed(remote), remote)
  BY Typed, ListedFiles, Constants DEF FolderInv, Trees, Seen, Nested
<1>6. ASSUME lease.of = s PROVE Owner(s)'
  <2>1. Seen(tab[s].l, local) /\ \A p \in Paths : p \in tab[s].skip <=> local.file[p] \in Big
    BY <1>6 DEF FolderInv, Owner, Listing, ServerTree
  <2>2. \A p \in Paths :
          p \in tab'[s].skip <=> local.file[p] \in Big \/ remote.file[p] \in Big
    BY <1>1, <2>1, Typed, ListedFiles
  <2>3. Seen(tab[s].l, local)' /\ Seen(tab[s].r, remote)'
    BY <1>1, <1>3, <1>5, <2>1 DEF Seen, Nested
  <2> QED BY <1>1, <1>3, <2>2, <2>3 DEF Owner, Listing
<1> QED BY <1>2, <1>3, <1>4, <1>6, QuietStep

-----------------------------------------------------------------------------
(* Requests leave for the server.                                          *)

\* The records of a sync that a step does not touch.
SamePlan(t, u) ==
    /\ t.down = u.down /\ t.del = u.del /\ t.dirOp = u.dirOp

LEMMA StepUploaded ==
    ASSUME FolderInv, TypeOK', NEW s \in Tabs, Uploaded(s)
    PROVE  FolderInv'
<1>1. /\ tab'[s].pc = "download" /\ SamePlan(tab[s], tab'[s]) /\ tab'[s].up = tab[s].up
      /\ tab'[s].batch = tab[s].batch /\ tab'[s].copy = tab[s].copy /\ tab[s].pc = "landing"
  <2>1. tab'[s] = [tab[s] EXCEPT !.pc = "download"] /\ tab[s].pc = "landing"
    BY Typed DEF Uploaded, Goto
  <2> QED BY <2>1, Typed DEF Syncs, SamePlan
<1>2. \A t \in Tabs \ {s} : tab'[t] = tab[t] /\ wire'[t] = wire[t]
  BY Typed DEF Uploaded, Goto
<1>3. /\ SameFiles /\ lease' = lease
      /\ UNCHANGED <<local, remote, base, present, retired, edits, wire>>
  BY DEF Uploaded, SameFiles, history, server
<1>4. Lone' /\ Channel(s)'
  BY <1>1, <1>3 DEF Uploaded, FolderInv, Lone, Channel
<1>5. ASSUME lease.of = s PROVE Owner(s)'
  <2>1. /\ Fresh /\ Apart(tab[s]) /\ Uploads(tab[s]) /\ Downloads(tab[s])
        /\ Deletions(tab[s]) /\ Dirs(s) /\ Merging(s)
    BY <1>1, <1>5 DEF FolderInv, Owner
  <2>2. Fresh' /\ Listing(tab[s])' /\ Claims(tab[s])'
    BY <1>1, <1>3, <2>1 DEF Fresh, Listing, Claims
  <2>3. Apart(tab[s])'
    BY <1>1, <1>3, <2>1 DEF Apart, Pending, Rising, Sent, Leaving, SamePlan, Gone
  <2>4. Uploads(tab[s])' /\ Deletions(tab[s])'
    BY <1>1, <1>3, <2>1 DEF Uploads, Deletions, SamePlan, Gone, InLocal
  <2>5. Downloads(tab[s])'
    BY <1>1, <1>3, <2>1 DEF Downloads, Elsewhere, Leaving, SamePlan, Gone
  <2>6. wire[s] = {}
    BY DEF Uploaded
  <2>7. Dirs(s)' /\ Bound(s)' /\ Merging(s)'
    BY <1>1, <1>3, <2>1, <2>6
    DEF Dirs, Bound, Merging, Shared, Open, Pending, Rising, Sent, Leaving, SamePlan
  <2> QED BY <1>1, <2>2, <2>3, <2>4, <2>5, <2>7 DEF Owner
<1> QED BY <1>2, <1>3, <1>4, <1>5, QuietStep

LEMMA StepRewalk ==
    ASSUME FolderInv, TypeOK', NEW s \in Tabs, Rewalk(s)
    PROVE  FolderInv'
<1>1. /\ tab'[s].pc = "put" /\ tab'[s].merged = Listed(local) /\ tab'[s].batch = tab[s].batch
      /\ tab[s].pc = "download" /\ tab[s].down = {} /\ tab[s].del = {} /\ wire[s] = {}
  <2>1. tab'[s] = [tab[s] EXCEPT !.pc = "put", !.merged = Listed(local)]
    BY Typed DEF Rewalk
  <2>2. /\ tab'[s].pc = "put" /\ tab'[s].merged = Listed(local) /\ tab'[s].batch = tab[s].batch
    BY <2>1, Typed DEF Syncs
  <2> QED BY <2>2 DEF Rewalk, RemoteDone
<1>2. \A t \in Tabs \ {s} : tab'[t] = tab[t] /\ wire'[t] = wire[t]
  BY Typed DEF Rewalk
<1>3. SameFiles /\ lease' = lease /\ UNCHANGED <<local, remote, edits, wire>>
  BY DEF Rewalk, SameFiles, history, server
<1>4. Channel(s)' /\ Lone'
  BY <1>1, <1>3 DEF FolderInv, Lone, Channel
<1>5. ASSUME lease.of = s PROVE Owner(s)'
  <2>1. tab[s].batch = {} /\ Apart(tab[s]) /\ Merging(s)
    BY <1>1, <1>5 DEF FolderInv, Owner, Channel
  <2>2. \A p \in Paths : Shared(p)
    BY <1>1, <2>1 DEF Apart, Merging, Pending, Rising, Sent, Leaving, Open
  <2> QED BY <1>1, <1>3, <2>2, Typed, ListedFiles DEF Owner, Listing, Shared
<1> QED BY <1>2, <1>3, <1>4, <1>5, QuietStep

\* Only a tab that has the lease has requests, and only its own.
LEMMA OwnWire ==
    ASSUME FolderInv, NEW s \in Tabs, lease.of = s, lease' = lease,
           \A t \in Tabs \ {s} : wire'[t] = wire[t]
    PROVE  Lone'
BY Constants DEF FolderInv, Lone

\* The batch of a plan becomes requests.
LEMMA StepAccept ==
    ASSUME Closed, FolderInv, TypeOK', NEW s \in Tabs, AcceptBatch(s)
    PROVE  FolderInv'
<1>0. SameFiles /\ lease' = lease /\ UNCHANGED <<local, remote, base, present, retired, edits>>
  BY DEF AcceptBatch, SameFiles, history, server
<1>1. CASE Throw(s) /\ wire' = wire
  BY <1>0, <1>1, Ended DEF AcceptBatch, Throw
<1>2. CASE /\ lease.of = s /\ wire' = [wire EXCEPT ![s] = tab[s].batch]
           /\ tab' = [tab EXCEPT ![s].pc = "landing", ![s].batch = {}]
  <2>1. /\ tab'[s].pc = "landing" /\ tab'[s].batch = {} /\ wire'[s] = tab[s].batch
        /\ SamePlan(tab[s], tab'[s]) /\ tab'[s].up = tab[s].up /\ tab'[s].copy = tab[s].copy
        /\ tab[s].pc = "sent"
    <3>1. tab'[s] = [tab[s] EXCEPT !.pc = "landing", !.batch = {}] /\ wire'[s] = tab[s].batch
      BY <1>2, Typed
    <3>2. tab[s].pc = "sent"
      BY DEF AcceptBatch
    <3> QED BY <3>1, <3>2, Typed DEF Syncs, SamePlan
  <2>2. \A t \in Tabs \ {s} : tab'[t] = tab[t] /\ wire'[t] = wire[t]
    BY <1>2, Typed
  <2>3. Lone'
    BY <1>0, <1>2, <2>2, OwnWire
  <2>4. /\ Fresh /\ Apart(tab[s]) /\ Uploads(tab[s]) /\ Downloads(tab[s])
        /\ Deletions(tab[s]) /\ Dirs(s) /\ Merging(s) /\ wire[s] = {}
    BY <1>2, <2>1 DEF FolderInv, Owner, Channel
  <2>5. \A w \in tab[s].batch : Request(w) /\ w.v # 0
    <3> SUFFICES ASSUME NEW w \in tab[s].batch PROVE Request(w) /\ w.v # 0
      OBVIOUS
    <3>1. /\ w.path \in Paths /\ w.v # 0 /\ w.v = local.file[w.path]
          /\ remote.file[w.path] \in Gone \/ InLocal(remote.file[w.path])
      BY <2>4 DEF Uploads
    <3>2. Pending(tab[s], w.path)
      BY <3>1 DEF Pending, Rising, Sent
    <3>3. base.file[w.path] \in Gone /\ local.file[w.path] \notin Big
      BY <2>4, <3>1, <3>2 DEF Apart
    <3> QED BY <2>4, <3>1, <3>3, Constants DEF Request
  <2>6. \A w : Request(w) => Request(w)'
    BY <1>0 DEF Request, Gone, InLocal, Fresh
  <2>7. Channel(s)'
    BY <2>1, <2>5, <2>6 DEF Channel
  <2>8. /\ \A p \in Paths : (Rising(tab[s], p)' => Rising(tab[s], p))
                            /\ (Leaving(tab[s], p)' <=> Leaving(tab[s], p))
                            /\ (Pending(tab[s], p)' => Pending(tab[s], p))
    BY <2>1 DEF Pending, Rising, Sent, Leaving, SamePlan
  <2>9. Owner(s)'
    <3>1. Fresh' /\ Listing(tab[s])' /\ Claims(tab[s])'
      BY <1>0, <2>1, <2>4 DEF Fresh, Listing, Claims
    <3>2. Apart(tab[s])'
      BY <1>0, <2>1, <2>4, <2>8 DEF Apart, SamePlan, Gone
    <3>3. Uploads(tab[s])' /\ Deletions(tab[s])'
      BY <1>0, <2>1, <2>4 DEF Uploads, Deletions, SamePlan, Gone, InLocal
    <3>4. Downloads(tab[s])'
      BY <1>0, <2>1, <2>4 DEF Downloads, Elsewhere, Leaving, SamePlan, Gone
    <3>5. Dirs(s)' /\ Bound(s)'
      <4>1. \A w \in tab[s].batch : w.path \in Paths /\ Rising(tab[s], w.path)
        BY <2>4 DEF Uploads, Rising, Sent
      <4>2. Bound(s)'
        BY <2>1, <2>4, <2>8, <4>1 DEF Bound, Apart, Dirs, SamePlan
      <4> QED BY <1>0, <2>1, <2>4, <2>8, <4>2, Constants DEF Dirs, SamePlan
    <3>6. Merging(s)'
      BY <1>0, <2>1, <2>4 DEF Merging, Shared, Open, Pending, Rising, Sent, Leaving, SamePlan
    <3> QED BY <2>1, <3>1, <3>2, <3>3, <3>4, <3>5, <3>6 DEF Owner
  <2> QED BY <1>0, <2>2, <2>3, <2>7, <2>9, QuietStep
<1>3. lease.of = s \/ HeldByOther(s)
  BY DEF Closed, AcceptBatch, HeldByOther
<1> QED BY <1>1, <1>2, <1>3 DEF AcceptBatch, HeldByOther

LEMMA StepReadBatch ==
    ASSUME FolderInv, TypeOK', NEW s \in Tabs, ReadBatch(s)
    PROVE  FolderInv'
<1>0. /\ SameFiles /\ lease' = lease /\ lease.of = s
      /\ UNCHANGED <<local, remote, base, present, retired, edits, wire>>
  BY DEF ReadBatch, Guard, Holds, SameFiles, history, server
<1>1. /\ tab'[s].up = {} /\ tab'[s].pc \in {"download", "sent"} /\ tab[s].pc = "copy"
      /\ tab'[s].batch = {[path |-> p, v |-> local.file[p]] : p \in tab[s].up}
      /\ (tab'[s].pc = "download" => tab[s].up = {})
      /\ SamePlan(tab[s], tab'[s]) /\ tab'[s].copy = {} /\ tab[s].copy = {}
  <2> DEFINE B == {[path |-> p, v |-> local.file[p]] : p \in tab[s].up}
             pc == IF tab[s].up = {} THEN "download" ELSE "sent"
  <2>1. tab'[s] = [tab[s] EXCEPT !.claimed = {}, !.up = {}, !.batch = B, !.pc = pc]
    BY Typed DEF ReadBatch
  <2> HIDE DEF B
  <2>2. /\ tab'[s].up = {} /\ tab'[s].pc = pc /\ tab'[s].batch = B
        /\ SamePlan(tab[s], tab'[s]) /\ tab'[s].copy = tab[s].copy
    BY <2>1, Typed DEF Syncs, SamePlan
  <2>3. tab[s].pc = "copy" /\ tab[s].copy = {}
    BY DEF ReadBatch
  <2> QED BY <2>2, <2>3 DEF B
<1>2. \A t \in Tabs \ {s} : tab'[t] = tab[t] /\ wire'[t] = wire[t]
  BY <1>0, Typed DEF ReadBatch
<1>3. Lone'
  BY <1>0, <1>2, OwnWire
<1>4. /\ Fresh /\ Apart(tab[s]) /\ Uploads(tab[s]) /\ Downloads(tab[s])
      /\ Deletions(tab[s]) /\ Dirs(s) /\ Merging(s) /\ wire[s] = {} /\ tab[s].batch = {}
  BY <1>0, <1>1 DEF FolderInv, Owner, Channel
<1>5. Channel(s)'
  BY <1>0, <1>1, <1>4 DEF Channel
<1>6. \A p \in Paths : /\ Rising(tab[s], p)' <=> Rising(tab[s], p)
                       /\ Leaving(tab[s], p)' <=> Leaving(tab[s], p)
                       /\ Pending(tab[s], p)' <=> Pending(tab[s], p)
  <2> SUFFICES ASSUME NEW p \in Paths
               PROVE  /\ Rising(tab[s], p)' <=> Rising(tab[s], p)
                      /\ Leaving(tab[s], p)' <=> Leaving(tab[s], p)
                      /\ Pending(tab[s], p)' <=> Pending(tab[s], p)
    OBVIOUS
  <2>1. Sent(tab[s], p)' <=> p \in tab[s].up
    <3>1. Sent(tab[s], p)' => p \in tab[s].up
      BY <1>1 DEF Sent
    <3>2. ASSUME p \in tab[s].up PROVE Sent(tab[s], p)'
      <4>1. [path |-> p, v |-> local.file[p]] \in tab'[s].batch
        BY <1>1, <3>2
      <4>2. [path |-> p, v |-> local.file[p]].path = p
        OBVIOUS
      <4> QED BY <4>1, <4>2 DEF Sent
    <3> QED BY <3>1, <3>2
  <2>2. ~Sent(tab[s], p)
    BY <1>4 DEF Sent
  <2>3. Leaving(tab[s], p)' <=> Leaving(tab[s], p)
    BY <1>1 DEF Leaving, SamePlan
  <2>4. Rising(tab[s], p)' <=> Rising(tab[s], p)
    BY <1>1, <2>1, <2>2 DEF Rising
  <2> QED BY <1>1, <2>3, <2>4 DEF Pending, SamePlan
<1>7. Owner(s)'
  <2>1. Fresh' /\ Listing(tab[s])' /\ Claims(tab[s])'
    BY <1>0, <1>1, <1>4 DEF Fresh, Listing, Claims
  <2>2. Apart(tab[s])'
    BY <1>0, <1>1, <1>4, <1>6 DEF Apart, SamePlan, Gone
  <2>3. Uploads(tab[s])'
    <3>1. \A w \in tab'[s].batch : w.path \in tab[s].up /\ w.v = local.file[w.path]
      BY <1>1
    <3>2. tab[s].up \subseteq Paths /\ \A p \in tab[s].up : local.file[p] # 0
      BY Typed, SyncFields DEF ReadBatch
    <3>3. \A p \in tab[s].up : remote.file[p] \in Gone \/ InLocal(remote.file[p])
      BY <1>1, <1>4 DEF Uploads
    <3> QED BY <1>0, <1>1, <3>1, <3>2, <3>3 DEF Uploads, Gone, InLocal
  <2>4. Deletions(tab[s])'
    BY <1>0, <1>1, <1>4 DEF Deletions, SamePlan, Gone
  <2>5. Downloads(tab[s])'
    BY <1>0, <1>1, <1>4 DEF Downloads, Elsewhere, Leaving, SamePlan, Gone
  <2>6. Dirs(s)' /\ Bound(s)'
    BY <1>0, <1>1, <1>4, <1>6, Constants DEF Dirs, Bound, SamePlan
  <2>7. Merging(s)'
    BY <1>0, <1>4, <1>6 DEF Merging, Shared, Open
  <2> QED BY <1>1, <2>1, <2>2, <2>3, <2>4, <2>5, <2>6, <2>7 DEF Owner
<1> QED BY <1>0, <1>2, <1>3, <1>5, <1>7, QuietStep

\* Two entries of a plan differ in the path or in the side.
LEMMA PairsDiffer ==
    ASSUME NEW p, NEW q, NEW x, NEW y
    PROVE  <<p, x>> = <<q, y>> <=> p = q /\ x = y
OBVIOUS

\* Before the requests of a sync are on the wire, nothing of it is read or copied.
LEMMA Downloading ==
    ASSUME FolderInv, NEW s \in Tabs, lease.of = s, tab[s].pc = "download"
    PROVE  /\ tab[s].up = {} /\ tab[s].copy = {} /\ tab[s].batch = {}
           /\ \A w \in wire[s] : w.v = 0
           /\ wire[s] # {} => tab[s].down = {}
           /\ \A p \in Paths : ~Rising(tab[s], p)
           /\ Fresh /\ Apart(tab[s]) /\ Downloads(tab[s]) /\ Deletions(tab[s])
           /\ Dirs(s) /\ Merging(s)
<1>1. Channel(s) /\ Owner(s)
  BY DEF FolderInv
<1>2. /\ Fresh /\ Apart(tab[s]) /\ Downloads(tab[s]) /\ Deletions(tab[s])
      /\ Dirs(s) /\ Merging(s)
  BY <1>1 DEF Owner
<1>3. /\ tab[s].batch = {} /\ (wire[s] # {} => tab[s].down = {})
      /\ \A w \in wire[s] : w.v = 0
  BY <1>1 DEF Channel
<1>4. tab[s].up = {} /\ tab[s].copy = {}
  BY <1>2 DEF Apart
<1>5. \A p \in Paths : ~Rising(tab[s], p)
  BY <1>3, <1>4 DEF Rising, Sent
<1> QED BY <1>2, <1>3, <1>4, <1>5

LEMMA StepDeleteRemote ==
    ASSUME FolderInv, TypeOK', NEW s \in Tabs, NEW p \in Paths, DeleteRemote(s, p)
    PROVE  FolderInv'
<1> DEFINE d == <<p, "remote">>
           w0 == [path |-> p, v |-> 0]
<1>0. /\ SameFiles /\ lease' = lease /\ lease.of = s
      /\ UNCHANGED <<local, remote, base, present, retired, edits>>
  BY DEF DeleteRemote, Guard, Holds, SameFiles, history, server
<1>1. /\ tab'[s].del = tab[s].del \ {d} /\ wire'[s] = wire[s] \cup {w0}
      /\ tab[s].pc = "download" /\ tab[s].down = {} /\ d \in tab[s].del
  <2>1. tab'[s] = [tab[s] EXCEPT !.del = @ \ {d}] /\ wire'[s] = wire[s] \cup {w0}
    BY Typed DEF DeleteRemote
  <2>2. tab'[s].del = tab[s].del \ {d}
    BY <2>1, Typed DEF Syncs
  <2> QED BY <2>1, <2>2 DEF DeleteRemote
<1>2. /\ tab'[s].pc = tab[s].pc /\ tab'[s].batch = tab[s].batch /\ tab'[s].up = tab[s].up
      /\ tab'[s].copy = tab[s].copy /\ tab'[s].down = tab[s].down
      /\ tab'[s].dirOp = tab[s].dirOp
  <2>1. tab'[s] = [tab[s] EXCEPT !.del = @ \ {d}]
    BY Typed DEF DeleteRemote
  <2> QED BY <2>1, Typed DEF Syncs
<1>3. \A t \in Tabs \ {s} : tab'[t] = tab[t] /\ wire'[t] = wire[t]
  BY Typed DEF DeleteRemote
<1>4. Lone'
  BY <1>0, <1>3, OwnWire
<1>5. /\ tab[s].up = {} /\ tab[s].copy = {} /\ tab[s].batch = {}
      /\ \A w \in wire[s] : w.v = 0
      /\ \A q \in Paths : ~Rising(tab[s], q)
      /\ Fresh /\ Apart(tab[s]) /\ Deletions(tab[s]) /\ Dirs(s) /\ Merging(s)
  BY <1>0, <1>1, Downloading
<1> HIDE DEF d, w0
<1>6. w0.path = p /\ w0.v = 0
  BY DEF w0
<1>7. Leaving(tab[s], p)
  BY <1>1 DEF Leaving, d, Sides
<1>8. Request(w0)
  BY <1>1, <1>5, <1>6, <1>7, Constants DEF Request, Deletions, Apart, Pending, d
<1>9. \A w : Request(w) => Request(w)'
  BY <1>0 DEF Request, Gone, InLocal, Fresh
<1>10. Channel(s)'
  BY <1>1, <1>2, <1>5, <1>6, <1>8, <1>9 DEF FolderInv, Channel
<1>11. \A q \in Paths : /\ Leaving(tab[s], q)' => Leaving(tab[s], q)
                        /\ Leaving(tab[s], q) => Leaving(tab[s], q)' \/ q = p
                        /\ ~Rising(tab[s], q)'
  <2>1. \A q \in Paths : Leaving(tab[s], q)' => Leaving(tab[s], q)
    BY <1>1 DEF Leaving
  <2>2. \A q \in Paths : Leaving(tab[s], q) => Leaving(tab[s], q)' \/ q = p
    BY <1>1, PairsDiffer DEF Leaving, d
  <2>3. \A q \in Paths : ~Rising(tab[s], q)'
    BY <1>2, <1>5 DEF Rising, Sent
  <2> QED BY <2>1, <2>2, <2>3
<1>12. Owner(s)'
  <2>1. Fresh' /\ Listing(tab[s])' /\ Claims(tab[s])'
    BY <1>0, <1>1, <1>2, <1>5 DEF Fresh, Listing, Claims
  <2>2. Apart(tab[s])'
    BY <1>0, <1>1, <1>2, <1>5, <1>11 DEF Apart, Pending, Gone
  <2>3. Uploads(tab[s])' /\ Downloads(tab[s])'
    BY <1>1, <1>2, <1>5 DEF Uploads, Downloads
  <2>4. Deletions(tab[s])'
    BY <1>0, <1>1, <1>5 DEF Deletions, Gone
  <2>5. Dirs(s)'
    <3>1. \A q \in Paths : <<q, "local">> \in tab[s].del => <<q, "local">> \in tab'[s].del
      BY <1>1, PairsDiffer DEF d
    <3>2. \A q \in Paths : <<q, "remote">> \in tab[s].del =>
            <<q, "remote">> \in tab'[s].del \/ [path |-> q, v |-> 0] \in wire'[s]
      BY <1>1, PairsDiffer DEF d, w0
    <3> QED BY <1>0, <1>1, <1>2, <1>5, <1>11, <3>1, <3>2, Constants DEF Dirs
  <2>6. Merging(s)' /\ Bound(s)'
    <3>1. \A q \in Paths : Open(s, q) \/ q = p => Open(s, q)'
      BY <1>1, <1>6 DEF Open
    <3>2. Merging(s)'
      BY <1>0, <1>1, <1>2, <1>5, <1>11, <3>1 DEF Merging, Shared, Pending
    <3> QED BY <1>1, <1>5, <1>6, <3>2 DEF Bound
  <2> QED BY <1>1, <1>2, <2>1, <2>2, <2>3, <2>4, <2>5, <2>6 DEF Owner
<1> QED BY <1>0, <1>3, <1>4, <1>10, <1>12, QuietStep

-----------------------------------------------------------------------------
(* Files change.                                                           *)

\* Nothing is lost by a step after which every version that was on a side, or
\* was just made, is on a side or replaced.
Kept(v) ==
    v \in Gone' \/ \E p \in Paths : v \in {local'.file[p], remote'.file[p]}

LEMMA Survives ==
    ASSUME TypeOK, TypeOK', NothingLost, retired \subseteq retired',
           edits' = edits \/ (edits' = edits + 1 /\ Kept(edits + 1)),
           \A p \in Paths : Kept(local.file[p]) /\ Kept(remote.file[p])
    PROVE  NothingLost'
<1>1. /\ DOMAIN local.file = Paths /\ DOMAIN remote.file = Paths
      /\ DOMAIN local'.file = Paths /\ DOMAIN remote'.file = Paths /\ edits \in Nat
  BY FolderAssumption DEF FolderAssumption, TypeOK, Manifests
<1>2. \A v : v \in Range(local.file) <=> \E p \in Paths : local.file[p] = v
  BY <1>1 DEF Range
<1>3. \A v : v \in Range(remote.file) <=> \E p \in Paths : remote.file[p] = v
  BY <1>1 DEF Range
<1>4. \A v : Kept(v) /\ v # 0 => v \in retired' \cup Range(local'.file) \cup Range(remote'.file)
  BY <1>1 DEF Range, Kept, Gone
<1>6. ASSUME NEW v \in 1..edits'
      PROVE  v \in retired' \cup Range(local'.file) \cup Range(remote'.file)
  <2>1. CASE v \in 1..edits
    <3>1. v \in retired \cup Range(local.file) \cup Range(remote.file) /\ v # 0
      BY <1>1, <2>1 DEF NothingLost
    <3> QED BY <1>2, <1>3, <1>4, <3>1
  <2>2. CASE v \notin 1..edits
    <3>1. v = edits + 1 /\ Kept(v) /\ v # 0
      BY <1>1, <1>6, <2>2
    <3> QED BY <1>4, <3>1
  <2> QED BY <2>1, <2>2
<1> QED BY <1>6 DEF NothingLost

\* A step of the tab that has the lease.
LEMMA OwnerStep ==
    ASSUME FolderInv, TypeOK', Trees', Past', NothingLost', NEW s \in Tabs,
           \A t \in Tabs \ {s} : tab'[t] = tab[t] /\ wire'[t] = wire[t],
           lease.of = s, lease' = lease, Channel(s)', Owner(s)'
    PROVE  FolderInv'
BY TabStep, OwnWire

\* The subdirectory is removed only when it is empty, or made.
LEMMA StepSyncDir ==
    ASSUME FolderInv, TypeOK', NEW s \in Tabs, SyncDir(s)
    PROVE  FolderInv'
<1>0. /\ lease' = lease /\ UNCHANGED <<remote, base, present, retired, edits>>
      /\ tab[s].pc = "download" /\ tab[s].down = {} /\ tab[s].del = {} /\ wire[s] = {}
  BY DEF SyncDir, RemoteDone, history, server
<1>1. /\ tab'[s].dirOp = "nothing" /\ tab'[s].pc = tab[s].pc /\ tab'[s].batch = tab[s].batch
      /\ tab'[s].up = tab[s].up /\ tab'[s].copy = tab[s].copy
      /\ tab'[s].down = tab[s].down /\ tab'[s].del = tab[s].del
  <2>1. tab'[s] = [tab[s] EXCEPT !.dirOp = "nothing"]
    BY Typed DEF SyncDir
  <2> QED BY <2>1, Typed DEF Syncs
<1>2. \A t \in Tabs \ {s} : tab'[t] = tab[t] /\ wire'[t] = wire[t]
  BY Typed DEF SyncDir
<1>3. tab[s].dirOp # "make local" => lease.of = s
  BY DEF SyncDir, Guard, Holds
<1>4. \A p \in Paths : local'.file[p] = local.file[p]
  <2>1. CASE tab[s].dirOp = "delete local"
    <3>1. \A p \in Inside : local.file[p] = 0
      BY <1>0, <1>3, <2>1, Downloading DEF Dirs
    <3>2. local' = DropDir(local)
      BY <2>1 DEF SyncDir
    <3> QED BY <3>1, <3>2, Typed, DropDirClears
  <2>2. CASE tab[s].dirOp = "make local"
    BY <2>2, Typed DEF SyncDir, Manifests
  <2>3. CASE tab[s].dirOp \notin {"make local", "delete local"}
    BY <2>3 DEF SyncDir
  <2> QED BY <2>1, <2>2, <2>3
<1>5. SameFiles
  <2>1. local.file \in [Paths -> 0..MaxEdits] /\ local'.file \in [Paths -> 0..MaxEdits]
    BY DEF TypeOK, FolderInv, Manifests
  <2> QED BY <1>0, <1>4, <2>1 DEF SameFiles
<1>6. Nested(local)'
  <2>1. CASE tab[s].dirOp = "delete local"
    <3>1. \A p \in Inside : local.file[p] = 0
      BY <1>0, <1>3, <2>1, Downloading DEF Dirs
    <3> QED BY <1>4, <3>1, Constants DEF Nested
  <2>2. CASE tab[s].dirOp # "delete local"
    <3>1. local.dir => local'.dir
      BY <2>2, Typed DEF SyncDir, Manifests
    <3> QED BY <1>4, <3>1, Constants DEF FolderInv, Trees, Nested
  <2> QED BY <2>1, <2>2
<1>7. Trees' /\ Past' /\ NothingLost'
  <2>1. Trees'
    BY <1>0, <1>5, <1>6 DEF FolderInv, Trees, Nested, SameFiles
  <2>2. Past'
    BY <1>5 DEF FolderInv, SameFiles, Past, Ancestor, Forgotten, Gone
  <2>3. NothingLost'
    BY <1>0, <1>5 DEF FolderInv, SameFiles, NothingLost
  <2> QED BY <2>1, <2>2, <2>3
<1>8. \A w \in wire'[s] : tab[s].dirOp = "delete remote" /\ w.path = "dir" /\ w.v = 0
  <2> DEFINE d0 == [path |-> "dir", v |-> 0]
  <2>1. d0.path = "dir" /\ d0.v = 0
    OBVIOUS
  <2>2. wire' = IF tab[s].dirOp = "delete remote" THEN [wire EXCEPT ![s] = {d0}] ELSE wire
    BY DEF SyncDir
  <2> HIDE DEF d0
  <2> QED BY <1>0, <2>1, <2>2, Typed
<1>9. Lone'
  <2>1. CASE wire' = wire
    BY <1>0, <2>1 DEF FolderInv, Lone
  <2>2. CASE lease.of = s
    BY <1>0, <1>2, <2>2, OwnWire
  <2> QED BY <1>3, <2>1, <2>2 DEF SyncDir
<1>10. Channel(s)'
  <2>1. tab[s].batch = {}
    BY <1>0 DEF FolderInv, Channel
  <2>2. CASE wire'[s] = {}
    BY <1>0, <1>1, <2>1, <2>2 DEF Channel
  <2>3. CASE tab[s].dirOp = "delete remote"
    <3>1. lease.of = s /\ \A p \in Inside : remote.file[p] = 0
      BY <1>0, <1>3, <2>3, Downloading DEF Dirs
    <3>2. \A w \in wire'[s] : Request(w)'
      BY <1>0, <1>8, <3>1 DEF Request
    <3> QED BY <1>0, <1>1, <1>8, <2>1, <3>2 DEF Channel
  <2> QED BY <1>8, <2>2, <2>3
<1>11. ASSUME lease.of = s PROVE Owner(s)'
  <2>1. /\ tab[s].up = {} /\ tab[s].copy = {} /\ tab[s].batch = {} /\ Fresh /\ Merging(s)
    BY <1>0, <1>11, Downloading
  <2>2. \A p \in Paths : ~Pending(tab[s], p)' /\ ~Pending(tab[s], p) /\ ~Rising(tab[s], p)'
    BY <1>0, <1>1, <2>1 DEF Pending, Rising, Sent, Leaving
  <2>3. Fresh' /\ Listing(tab[s])' /\ Claims(tab[s])' /\ Apart(tab[s])'
    BY <1>0, <1>1, <2>1, <2>2 DEF Fresh, Listing, Claims, Apart
  <2>4. Uploads(tab[s])' /\ Downloads(tab[s])' /\ Deletions(tab[s])' /\ Dirs(s)'
    BY <1>0, <1>1, <2>1, <2>2, Constants DEF Uploads, Downloads, Deletions, Dirs
  <2>5. Merging(s)' /\ Bound(s)'
    <3>1. Merging(s)'
      BY <1>0, <1>4, <2>1, <2>2 DEF Merging, Shared, Open
    <3> QED BY <1>8, <3>1 DEF Bound
  <2> QED BY <1>0, <1>1, <2>3, <2>4, <2>5 DEF Owner
<1> QED BY <1>0, <1>2, <1>5, <1>7, <1>9, <1>10, <1>11, TabStep

LEMMA StepDeleteLocal ==
    ASSUME FolderInv, TypeOK', NEW s \in Tabs, NEW p \in Paths, DeleteLocal(s, p)
    PROVE  FolderInv'
<1> DEFINE d == <<p, "local">>
<1>0. /\ lease' = lease /\ lease.of = s /\ local' = Put(local, p, 0)
      /\ UNCHANGED <<remote, base, present, retired, edits, wire>>
      /\ tab[s].pc = "download" /\ tab[s].down = {} /\ d \in tab[s].del /\ wire[s] = {}
  BY DEF DeleteLocal, RemoteDone, Guard, Holds, history, server
<1>1. /\ tab'[s].del = tab[s].del \ {d}
      /\ tab'[s].pc = tab[s].pc /\ tab'[s].batch = tab[s].batch /\ tab'[s].up = tab[s].up
      /\ tab'[s].copy = tab[s].copy /\ tab'[s].down = tab[s].down
      /\ tab'[s].dirOp = tab[s].dirOp
  <2>1. tab'[s] = [tab[s] EXCEPT !.del = @ \ {d}]
    BY Typed DEF DeleteLocal
  <2> QED BY <2>1, Typed DEF Syncs
<1>2. \A t \in Tabs \ {s} : tab'[t] = tab[t] /\ wire'[t] = wire[t]
  BY <1>0, Typed DEF DeleteLocal
<1>3. /\ local'.file[p] = 0 /\ (local.dir => local'.dir)
      /\ \A q \in Paths \ {p} : local'.file[q] = local.file[q]
  <2>1. local' = Put(local, p, 0)
    BY DEF DeleteLocal
  <2> QED BY <2>1, Typed, PutClears
<1>4. /\ tab[s].up = {} /\ tab[s].copy = {} /\ tab[s].batch = {}
      /\ \A q \in Paths : ~Rising(tab[s], q)
      /\ Fresh /\ Apart(tab[s]) /\ Deletions(tab[s]) /\ Dirs(s) /\ Merging(s)
  BY <1>0, Downloading
<1>5. /\ remote.file[p] = 0 /\ local.file[p] \in Gone /\ base.file[p] \in Gone
  <2>1. Leaving(tab[s], p)
    BY <1>0 DEF Leaving, Sides
  <2> QED BY <1>0, <1>4, <2>1 DEF Deletions, Apart, Pending
<1>6. Trees' /\ Past'
  <2>1. Trees'
    BY <1>0, <1>3, Constants DEF FolderInv, Trees, Nested
  <2>2. Past'
    BY <1>0, <1>3, <1>5 DEF FolderInv, Past, Ancestor, Forgotten, Gone
  <2> QED BY <2>1, <2>2
<1>7. NothingLost'
  <2>1. \A q \in Paths : Kept(local.file[q]) /\ Kept(remote.file[q])
    BY <1>0, <1>3, <1>5 DEF Kept, Gone
  <2> QED BY <1>0, <2>1, Survives DEF FolderInv
<1> HIDE DEF d
<1>8. Channel(s)'
  BY <1>0, <1>1, <1>4 DEF Channel
<1>9. \A q \in Paths : /\ Leaving(tab[s], q)' => Leaving(tab[s], q)
                       /\ Leaving(tab[s], q) => Leaving(tab[s], q)' \/ q = p
                       /\ ~Rising(tab[s], q)'
                       /\ <<q, "remote">> \notin tab'[s].del
                       /\ <<q, "local">> \in tab'[s].del <=> <<q, "local">> \in tab[s].del /\ q # p
  <2>1. \A q \in Paths : Leaving(tab[s], q)' => Leaving(tab[s], q)
    BY <1>1 DEF Leaving
  <2>2. \A q \in Paths : Leaving(tab[s], q) => Leaving(tab[s], q)' \/ q = p
    BY <1>1, PairsDiffer DEF Leaving, d
  <2>3. \A q \in Paths : ~Rising(tab[s], q)'
    BY <1>1, <1>4 DEF Rising, Sent
  <2>4. \A q \in Paths : <<q, "remote">> \notin tab'[s].del
    <3> SUFFICES ASSUME NEW q \in Paths, <<q, "remote">> \in tab'[s].del PROVE FALSE
      OBVIOUS
    <3>1. <<q, "remote">>[2] = "local"
      BY <1>1 DEF DeleteLocal, RemoteDone
    <3> QED BY <3>1
  <2>5. \A q \in Paths :
          <<q, "local">> \in tab'[s].del <=> <<q, "local">> \in tab[s].del /\ q # p
    BY <1>1, PairsDiffer DEF d
  <2> QED BY <2>1, <2>2, <2>3, <2>4, <2>5
<1>10. Owner(s)'
  <2>1. Fresh' /\ Listing(tab[s])' /\ Claims(tab[s])'
    BY <1>0, <1>1, <1>4 DEF Fresh, Listing, Claims
  <2>2. Apart(tab[s])'
    <3>1. \A q \in Paths : Pending(tab[s], q)' =>
            Pending(tab[s], q) /\ (local'.file[q] = 0 \/ local'.file[q] = local.file[q])
      BY <1>1, <1>3, <1>9 DEF Pending
    <3> QED BY <1>0, <1>1, <1>4, <1>9, <3>1, Constants DEF Apart, Gone
  <2>3. Uploads(tab[s])' /\ Downloads(tab[s])'
    BY <1>0, <1>1, <1>4 DEF Uploads, Downloads
  <2>4. Deletions(tab[s])'
    BY <1>0, <1>3, <1>4, <1>9 DEF Deletions, Gone
  <2>5. Dirs(s)'
    <3>1. tab[s].dirOp = "delete local" =>
            \A q \in Inside : local'.file[q] = 0 \/ <<q, "local">> \in tab'[s].del
      BY <1>3, <1>4, <1>9, Constants DEF Dirs
    <3>2. tab[s].dirOp = "delete remote" => \A q \in Inside : remote.file[q] = 0
      <4>1. \A q \in Paths : <<q, "remote">> \notin tab[s].del
        BY <1>9, <1>1, PairsDiffer DEF d
      <4> QED BY <1>0, <1>4, <4>1, Constants DEF Dirs
    <3> QED BY <1>0, <1>1, <1>9, <3>1, <3>2, Constants DEF Dirs
  <2>6. Merging(s)' /\ Bound(s)'
    <3>1. ASSUME NEW q \in Paths \ {p} PROVE Shared(q)' \/ Pending(tab[s], q)'
      <4>1. Shared(q) \/ Leaving(tab[s], q)
        BY <1>0, <1>4 DEF Merging, Pending, Open
      <4>2. Shared(q) => Shared(q)'
        BY <1>0, <1>3 DEF Shared
      <4> QED BY <1>9, <4>1, <4>2 DEF Pending
    <3>2. Shared(p)'
      BY <1>0, <1>3, <1>5 DEF Shared
    <3>3. Merging(s)'
      BY <3>1, <3>2 DEF Merging
    <3> QED BY <1>0, <3>3 DEF Bound
  <2> QED BY <1>0, <1>1, <2>1, <2>2, <2>3, <2>4, <2>5, <2>6 DEF Owner
<1> QED BY <1>0, <1>2, <1>6, <1>7, <1>8, <1>10, OwnerStep

LEMMA StepDownload ==
    ASSUME FolderInv, TypeOK', NEW s \in Tabs, NEW p \in Paths, Download(s, p)
    PROVE  FolderInv'
<1>0. /\ lease' = lease /\ lease.of = s /\ local' = Put(local, p, remote.file[p])
      /\ UNCHANGED <<remote, base, present, retired, edits, wire>>
      /\ tab[s].pc = "download" /\ p \in tab[s].down /\ remote.file[p] # 0
  BY DEF Download, Guard, Holds, history, server
<1>1. /\ tab'[s].down = tab[s].down \ {p}
      /\ tab'[s].pc = tab[s].pc /\ tab'[s].batch = tab[s].batch /\ tab'[s].up = tab[s].up
      /\ tab'[s].copy = tab[s].copy /\ tab'[s].del = tab[s].del
      /\ tab'[s].dirOp = tab[s].dirOp
  <2>1. tab'[s] = [tab[s] EXCEPT !.down = @ \ {p}]
    BY Typed DEF Download
  <2> QED BY <2>1, Typed DEF Syncs
<1>2. \A t \in Tabs \ {s} : tab'[t] = tab[t] /\ wire'[t] = wire[t]
  BY <1>0, Typed DEF Download
<1>3. /\ local'.file[p] = remote.file[p] /\ (local.dir \/ p \in Inside => local'.dir)
      /\ \A q \in Paths \ {p} : local'.file[q] = local.file[q]
  BY <1>0, Typed, PutWrites
<1>4. /\ tab[s].up = {} /\ tab[s].copy = {} /\ tab[s].batch = {} /\ wire[s] = {}
      /\ \A q \in Paths : ~Rising(tab[s], q)
      /\ Fresh /\ Apart(tab[s]) /\ Downloads(tab[s]) /\ Deletions(tab[s])
      /\ Dirs(s) /\ Merging(s)
  BY <1>0, Downloading
<1>5. /\ base.file[p] \in Gone /\ remote.file[p] \notin Big /\ ~Leaving(tab[s], p)
      /\ local.file[p] \in Gone \/ Elsewhere(tab[s], p)
  BY <1>0, <1>4 DEF Apart, Pending, Downloads
<1>6. Trees' /\ Past'
  <2>1. Trees'
    BY <1>0, <1>3, <1>5, Constants DEF FolderInv, Trees, Nested
  <2>2. Past'
    BY <1>0, <1>3, <1>5 DEF FolderInv, Past, Ancestor, Forgotten, Gone
  <2> QED BY <2>1, <2>2
<1>7. NothingLost'
  <2>1. Kept(local.file[p])
    BY <1>0, <1>3, <1>5 DEF Kept, Gone, Elsewhere
  <2>2. \A q \in Paths : Kept(local.file[q]) /\ Kept(remote.file[q])
    BY <1>0, <1>3, <2>1 DEF Kept
  <2> QED BY <1>0, <2>2, Survives DEF FolderInv
<1>8. Channel(s)'
  BY <1>0, <1>1, <1>4 DEF Channel
<1>9. \A q \in Paths : /\ Leaving(tab[s], q)' <=> Leaving(tab[s], q)
                       /\ ~Rising(tab[s], q)'
  BY <1>1, <1>4 DEF Leaving, Rising, Sent
<1>10. Owner(s)'
  <2>1. Fresh' /\ Listing(tab[s])' /\ Claims(tab[s])'
    BY <1>0, <1>1, <1>4 DEF Fresh, Listing, Claims
  <2>2. Apart(tab[s])'
    BY <1>0, <1>1, <1>3, <1>4, <1>5, <1>9 DEF Apart, Pending, Gone
  <2>3. Uploads(tab[s])'
    BY <1>1, <1>4 DEF Uploads
  <2>4. Downloads(tab[s])'
    <3> SUFFICES ASSUME NEW q \in tab'[s].down
                 PROVE  (local.file[q])' \in Gone' \/ Elsewhere(tab[s], q)'
      BY DEF Downloads
    <3>1. q \in Paths /\ q # p /\ q \in tab[s].down /\ local'.file[q] = local.file[q]
      BY <1>1, <1>3, Typed, SyncFields
    <3>2. CASE local.file[q] \in Gone
      BY <1>0, <3>1, <3>2 DEF Gone
    <3>3. CASE Elsewhere(tab[s], q)
      <4>1. PICK r \in Paths : /\ local.file[r] = local.file[q]
                               /\ r \notin tab[s].down /\ ~Leaving(tab[s], r)
                               /\ r \in Inside => tab[s].dirOp # "delete local"
        BY <3>3 DEF Elsewhere
      <4>2. r # p /\ local'.file[r] = local'.file[q] /\ r \notin tab'[s].down
        BY <1>0, <1>1, <1>3, <3>1, <4>1
      <4> QED BY <1>1, <1>9, <4>1, <4>2 DEF Elsewhere
    <3> QED BY <1>4, <3>1, <3>2, <3>3 DEF Downloads
  <2>5. Deletions(tab[s])'
    <3>1. \A q \in Paths : <<q, "local">> \in tab[s].del => q # p
      BY <1>5 DEF Leaving, Sides
    <3>2. \A q \in Paths : <<q, "remote">> \in tab[s].del => q # p
      BY <1>5 DEF Leaving, Sides
    <3>3. ASSUME NEW q \in Paths, <<q, "local">> \in tab'[s].del
          PROVE  remote'.file[q] = 0 /\ local'.file[q] \in Gone'
      BY <1>0, <1>1, <1>3, <1>4, <3>1, <3>3 DEF Deletions, Gone
    <3>4. ASSUME NEW q \in Paths, <<q, "remote">> \in tab'[s].del
          PROVE  local'.file[q] = 0 /\ remote'.file[q] \in Gone'
      <4>1. <<q, "remote">> \in tab[s].del /\ q # p
        BY <1>1, <3>2, <3>4
      <4>2. local.file[q] = 0 /\ remote.file[q] \in Gone
        BY <1>4, <4>1 DEF Deletions
      <4> QED BY <1>0, <1>3, <4>1, <4>2 DEF Gone
    <3> QED BY <3>3, <3>4 DEF Deletions
  <2>6. Dirs(s)'
    <3>1. tab[s].dirOp \in {"delete local", "delete remote"} => p \notin Inside
      BY <1>0, <1>4 DEF Dirs
    <3> QED BY <1>0, <1>1, <1>3, <1>4, <1>9, <3>1, Constants DEF Dirs
  <2>7. Merging(s)' /\ Bound(s)'
    <3>1. Merging(s)'
      BY <1>0, <1>1, <1>3, <1>4, <1>9 DEF Merging, Shared, Pending, Open
    <3> QED BY <1>0, <1>4, <3>1 DEF Bound
  <2> QED BY <1>0, <1>1, <2>1, <2>2, <2>3, <2>4, <2>5, <2>6, <2>7 DEF Owner
<1> QED BY <1>0, <1>2, <1>6, <1>7, <1>8, <1>10, OwnerStep

\* The copy of a conflict goes under a name that the plan does not know.
LEMMA StepKeepCopy ==
    ASSUME FolderInv, TypeOK', NEW s \in Tabs, NEW c \in tab[s].copy, KeepCopy(s, c)
    PROVE  FolderInv'
<1>0. /\ lease' = lease /\ lease.of = s /\ tab[s].pc = "copy"
      /\ UNCHANGED <<remote, base, present, retired, edits, wire>>
  BY DEF KeepCopy, Guard, Holds, history, server
<1>1. PICK p \in Paths, x \in Sides : c = <<p, x>>
  BY Typed, SyncFields
<1>2. PICK n \in FreeNames(s, p), v \in Versions :
        /\ v # 0 /\ (x = "local" => v = local.file[p]) /\ (x = "remote" => v = remote.file[p])
        /\ local' = Put(local, n, v)
        /\ tab' = [tab EXCEPT ![s].copy = @ \ {c}, ![s].claimed = @ \cup {n},
                              ![s].up = @ \cup {n}]
  <2> DEFINE u == (IF c[2] = "local" THEN local ELSE remote).file[c[1]]
             name == CHOOSE n \in FreeNames(s, c[1]) : TRUE
  <2>1. c[1] = p /\ c[2] = x
    BY <1>1
  <2>2. name \in FreeNames(s, p)
    BY <2>1 DEF KeepCopy
  <2>3. /\ u \in Versions /\ (x = "local" => u = local.file[p])
        /\ x = "remote" => u = remote.file[p]
    BY <2>1, Typed DEF Sides
  <2>4. /\ u # 0 /\ local' = Put(local, name, u)
        /\ tab' = [tab EXCEPT ![s].copy = @ \ {c}, ![s].claimed = @ \cup {name},
                              ![s].up = @ \cup {name}]
    BY DEF KeepCopy
  <2> QED BY <2>2, <2>3, <2>4
<1>3. /\ n \in Spares /\ n \in Paths /\ n \notin tab[s].claimed /\ local.file[n] = 0
      /\ base.file[n] = 0 /\ (n \in Inside <=> p \in Inside)
  BY Constants DEF FreeNames, Names
<1>4. /\ tab'[s].copy = tab[s].copy \ {c} /\ tab'[s].claimed = tab[s].claimed \cup {n}
      /\ tab'[s].up = tab[s].up \cup {n}
      /\ tab'[s].pc = tab[s].pc /\ tab'[s].batch = tab[s].batch
      /\ tab'[s].down = tab[s].down /\ tab'[s].del = tab[s].del /\ tab'[s].dirOp = tab[s].dirOp
  <2>1. tab'[s] = [tab[s] EXCEPT !.copy = @ \ {c}, !.claimed = @ \cup {n}, !.up = @ \cup {n}]
    BY <1>2, Typed
  <2> QED BY <2>1, Typed DEF Syncs
<1>5. \A t \in Tabs \ {s} : tab'[t] = tab[t] /\ wire'[t] = wire[t]
  BY <1>0, <1>2, Typed
<1>6. /\ local'.file[n] = v /\ (local.dir \/ n \in Inside => local'.dir)
      /\ \A q \in Paths \ {n} : local'.file[q] = local.file[q]
  <2>1. n \in Paths /\ v \in Versions /\ v # 0 /\ local' = Put(local, n, v)
    BY <1>2, <1>3
  <2> QED BY <2>1, Typed, PutAdds
<1>7. /\ Fresh /\ Apart(tab[s]) /\ Claims(tab[s]) /\ Uploads(tab[s]) /\ Downloads(tab[s])
      /\ Deletions(tab[s]) /\ Dirs(s) /\ Merging(s) /\ wire[s] = {} /\ tab[s].batch = {}
  BY <1>0 DEF FolderInv, Owner, Channel
<1>8. ~Pending(tab[s], n) /\ remote.file[n] = 0
  BY <1>0, <1>3, <1>7 DEF Claims
<1>9. /\ x = "remote" => p \in tab[s].up
      /\ x = "local" => p \in tab[s].down
      /\ Pending(tab[s], p) /\ n # p /\ v \notin Big
  <2>1. /\ x = "remote" => p \in tab[s].up
        /\ x = "local" => p \in tab[s].down
    BY <1>1, <1>7 DEF Apart
  <2>2. Pending(tab[s], p)
    BY <2>1 DEF Pending, Rising, Sides
  <2> QED BY <1>2, <1>7, <1>8, <2>1, <2>2 DEF Apart, Sides
<1>10. Trees' /\ Past'
  <2>1. Trees'
    BY <1>0, <1>2, <1>6, <1>9, Constants DEF FolderInv, Trees, Nested
  <2>2. Past'
    BY <1>0, <1>3, <1>6 DEF FolderInv, Past, Ancestor, Forgotten, Gone
  <2> QED BY <2>1, <2>2
<1>11. NothingLost'
  <2>1. \A q \in Paths : Kept(local.file[q]) /\ Kept(remote.file[q])
    BY <1>0, <1>3, <1>6 DEF Kept, Gone
  <2> QED BY <1>0, <2>1, Survives DEF FolderInv
<1>12. Channel(s)'
  BY <1>0, <1>4, <1>7 DEF Channel
<1>13. \A q \in Paths : /\ Leaving(tab[s], q)' <=> Leaving(tab[s], q)
                        /\ Rising(tab[s], q)' <=> Rising(tab[s], q) \/ q = n
                        /\ Pending(tab[s], q)' <=> Pending(tab[s], q) \/ q = n
  BY <1>4 DEF Leaving, Rising, Sent, Pending
<1>14. Owner(s)'
  <2>1. Fresh' /\ Listing(tab[s])'
    BY <1>0, <1>4, <1>7 DEF Fresh, Listing
  <2>2. Apart(tab[s])'
    <3>1. \A q \in Paths \ {n} : Pending(tab[s], q)' =>
             base.file[q] \in Gone /\ local'.file[q] \notin Big /\ remote.file[q] \notin Big
      BY <1>6, <1>7, <1>13 DEF Apart
    <3>2. base.file[n] \in Gone /\ local'.file[n] \notin Big /\ remote.file[n] \notin Big
      BY <1>3, <1>6, <1>8, <1>9, Constants DEF Gone
    <3>3. n \notin tab[s].down /\ ~Leaving(tab[s], n)
      BY <1>8 DEF Pending
    <3> QED BY <1>0, <1>4, <1>7, <1>13, <3>1, <3>2, <3>3 DEF Apart, Gone
  <2>3. Claims(tab[s])'
    BY <1>0, <1>4, <1>7, <1>13 DEF Claims
  <2>4. Uploads(tab[s])'
    <3>1. ASSUME NEW q \in tab'[s].up
          PROVE  \/ remote'.file[q] \in Gone' \/ \E r \in Paths : local'.file[r] = remote'.file[q]
                 \/ <<q, "remote">> \in tab'[s].copy
      <4>1. CASE q = n
        BY <1>0, <1>8, <4>1 DEF Gone
      <4>2. CASE q # n /\ <<q, "remote">> = c
        <5>1. q = p /\ x = "remote"
          BY <1>1, <4>2, PairsDiffer
        <5> QED BY <1>0, <1>2, <1>3, <1>6, <5>1
      <4>3. CASE q # n /\ <<q, "remote">> # c
        <5>1. \/ remote.file[q] \in Gone \/ InLocal(remote.file[q])
              \/ <<q, "remote">> \in tab[s].copy
          BY <1>4, <1>7, <4>3 DEF Uploads
        <5>2. InLocal(remote.file[q]) =>
                remote.file[q] = 0 \/ \E r \in Paths : local'.file[r] = remote.file[q]
          BY <1>3, <1>6 DEF InLocal
        <5> QED BY <1>0, <1>4, <4>3, <5>1, <5>2 DEF Gone
      <4> QED BY <4>1, <4>2, <4>3
    <3> QED BY <1>4, <1>7, <3>1 DEF Uploads, InLocal
  <2>5. Downloads(tab[s])'
    <3> SUFFICES ASSUME NEW q \in tab'[s].down
                 PROVE  \/ local'.file[q] \in Gone' \/ Elsewhere(tab[s], q)'
                        \/ <<q, "local">> \in tab'[s].copy
      BY DEF Downloads
    <3>1. q \in Paths /\ q \in tab[s].down /\ q # n /\ local'.file[q] = local.file[q]
      BY <1>4, <1>6, <1>8, Typed, SyncFields DEF Pending
    <3>2. CASE <<q, "local">> = c
      <4>1. q = p /\ x = "local"
        BY <1>1, <3>2, PairsDiffer
      <4>2. n \in Inside => tab[s].dirOp # "delete local"
        BY <1>3, <1>7, <3>1, <4>1 DEF Dirs
      <4>3. n \notin tab[s].down /\ ~Leaving(tab[s], n)
        BY <1>8 DEF Pending
      <4> QED BY <1>2, <1>3, <1>4, <1>6, <1>13, <3>1, <4>1, <4>2, <4>3 DEF Elsewhere
    <3>3. CASE <<q, "local">> # c
      <4>1. \/ local.file[q] \in Gone \/ Elsewhere(tab[s], q)
            \/ <<q, "local">> \in tab[s].copy
        BY <1>7, <3>1 DEF Downloads
      <4>2. ASSUME Elsewhere(tab[s], q), local.file[q] # 0 PROVE Elsewhere(tab[s], q)'
        <5>1. PICK r \in Paths : /\ local.file[r] = local.file[q]
                                 /\ r \notin tab[s].down /\ ~Leaving(tab[s], r)
                                 /\ r \in Inside => tab[s].dirOp # "delete local"
          BY <4>2 DEF Elsewhere
        <5>2. local'.file[r] = local'.file[q]
          BY <1>3, <1>6, <3>1, <4>2, <5>1
        <5> QED BY <1>4, <1>13, <5>1, <5>2 DEF Elsewhere
      <4> QED BY <1>0, <1>4, <3>1, <3>3, <4>1, <4>2 DEF Gone
    <3> QED BY <3>2, <3>3
  <2>6. Deletions(tab[s])'
    <3>1. \A q \in Paths : <<q, "local">> \in tab[s].del => q # n
      BY <1>8 DEF Pending, Leaving, Sides
    <3>2. \A q \in Paths : <<q, "remote">> \in tab[s].del => q # n
      BY <1>8 DEF Pending, Leaving, Sides
    <3>3. ASSUME NEW q \in Paths, <<q, "local">> \in tab'[s].del
          PROVE  remote'.file[q] = 0 /\ local'.file[q] \in Gone'
      BY <1>0, <1>4, <1>6, <1>7, <3>1, <3>3 DEF Deletions, Gone
    <3>4. ASSUME NEW q \in Paths, <<q, "remote">> \in tab'[s].del
          PROVE  local'.file[q] = 0 /\ remote'.file[q] \in Gone'
      <4>1. <<q, "remote">> \in tab[s].del /\ q # n
        BY <1>4, <3>2, <3>4
      <4>2. local.file[q] = 0 /\ remote.file[q] \in Gone
        BY <1>7, <4>1 DEF Deletions
      <4> QED BY <1>0, <1>6, <4>1, <4>2 DEF Gone
    <3> QED BY <3>3, <3>4 DEF Deletions
  <2>7. Dirs(s)'
    <3>1. tab[s].dirOp \in {"delete local", "delete remote"} => n \notin Inside
      BY <1>3, <1>7, <1>9 DEF Dirs, Rising, Sides
    <3> QED BY <1>0, <1>4, <1>6, <1>7, <1>13, <3>1, Constants DEF Dirs
  <2>8. Merging(s)' /\ Bound(s)'
    <3>1. ASSUME NEW q \in Paths PROVE Shared(q)' \/ Pending(tab[s], q)'
      BY <1>0, <1>6, <1>7, <1>13 DEF Merging, Shared, Open
    <3>2. Merging(s)'
      BY <3>1 DEF Merging
    <3> QED BY <1>0, <1>7, <3>2 DEF Bound
  <2> QED BY <1>0, <1>4, <2>1, <2>2, <2>3, <2>4, <2>5, <2>6, <2>7, <2>8 DEF Owner
<1> QED BY <1>0, <1>5, <1>10, <1>11, <1>12, <1>14, OwnerStep

-----------------------------------------------------------------------------
(* Requests reach the workspace.                                           *)

\* A request is carried out while its tab has the lease, or nobody.
LEMMA LandStep ==
    ASSUME FolderInv, TypeOK', Trees', Past', NothingLost', NEW s \in Tabs, wire[s] # {},
           \A t \in Tabs \ {s} : wire'[t] = wire[t], tab' = tab, lease' = lease,
           Channel(s)', lease.of = s => Owner(s)'
    PROVE  FolderInv'
<1>1. lease.of \in {s, NoTab} /\ \A t \in Tabs \ {s} : wire[t] = {}
  BY DEF FolderInv, Lone
<1>2. Lone'
  BY <1>1 DEF Lone
<1>3. ASSUME NEW t \in Tabs \ {s} PROVE Channel(t)' /\ lease'.of # t
  BY <1>1, Constants DEF FolderInv, Channel
<1> QED BY <1>2, <1>3 DEF FolderInv

LEMMA LandUpload ==
    ASSUME FolderInv, TypeOK', NEW s \in Tabs, NEW w \in wire[s], Land(s, w), w.v # 0
    PROVE  FolderInv'
<1>1. Channel(s) /\ Request(w)
  BY DEF FolderInv, Channel
<1>2. /\ w.path \in Paths /\ w.v \in Versions /\ w.v = local.file[w.path] /\ w.v \notin Big
      /\ base.file[w.path] \in Gone /\ Fresh
      /\ remote.file[w.path] \in Gone \/ InLocal(remote.file[w.path])
  <2>1. w.path # "dir"
    BY <1>1 DEF Request
  <2>2. w.path \in Paths /\ w.v \in Versions
    BY <2>1, Typed DEF Requests, Versions
  <2> QED BY <1>1, <2>1, <2>2 DEF Request
<1>3. PICK p \in Paths : p = w.path
  BY <1>2
<1>4. /\ remote'.file[p] = w.v /\ (remote.dir \/ p \in Inside => remote'.dir)
      /\ \A q \in Paths \ {p} : remote'.file[q] = remote.file[q]
  <2>1. remote' = Put(remote, p, w.v)
    BY <1>2, <1>3, Constants DEF Land
  <2> QED BY <1>2, <2>1, Typed, PutAdds
<1>5. /\ present' /\ UNCHANGED <<local, base, lease, tab, edits, retired>>
      /\ wire'[s] = wire[s] \ {w} /\ \A t \in Tabs \ {s} : wire'[t] = wire[t]
  BY Typed DEF Land, history, server
<1>6. Trees'
  BY <1>2, <1>3, <1>4, <1>5, Constants DEF FolderInv, Trees, Nested
<1>7. Past'
  <2>1. ASSUME NEW q \in Paths \ {p} PROVE Ancestor(q)' /\ Forgotten(q)'
    <3>1. CASE present
      BY <1>4, <1>5, <2>1, <3>1 DEF FolderInv, Past, Ancestor, Forgotten, Gone
    <3>2. CASE ~present
      <4>1. base.file[q] = 0
        BY <1>2, <3>2, NothingTyped DEF Fresh
      <4> QED BY <1>5, <4>1 DEF Ancestor, Forgotten, Gone
    <3> QED BY <3>1, <3>2
  <2>2. Ancestor(p)' /\ Forgotten(p)'
    BY <1>2, <1>3, <1>4, <1>5 DEF Ancestor, Forgotten, Gone
  <2> QED BY <2>1, <2>2 DEF Past
<1>8. NothingLost'
  <2>1. Kept(remote.file[p])
    BY <1>2, <1>3, <1>5 DEF Kept, Gone, InLocal
  <2>2. \A q \in Paths : Kept(local.file[q]) /\ Kept(remote.file[q])
    BY <1>4, <1>5, <2>1 DEF Kept
  <2> QED BY <1>5, <2>2, Survives DEF FolderInv
<1>9. \A z \in wire[s] : z.v # 0
  BY <1>1 DEF Channel
<1>10. tab[s].pc \in {"landing", "idle"}
  BY <1>1 DEF Channel
<1>11. Channel(s)'
  <2>1. ASSUME NEW z \in wire'[s] PROVE Request(z)'
    <3>1. z \in wire[s] /\ z.v # 0 /\ Request(z)
      BY <1>1, <1>5, <1>9 DEF Channel
    <3>2. z.path # "dir" /\ z.path \in Paths
      BY <3>1, Typed DEF Request, Requests
    <3>3. remote'.file[z.path] \in Gone' \/ InLocal(remote.file[z.path])'
      <4>1. CASE z.path = p
        BY <1>2, <1>3, <1>4, <1>5, <4>1 DEF InLocal
      <4>2. CASE z.path # p
        BY <1>4, <1>5, <3>1, <3>2, <4>2 DEF Request, Gone, InLocal
      <4> QED BY <4>1, <4>2
    <3> QED BY <1>5, <3>1, <3>2, <3>3 DEF Request, Gone, Fresh
  <2> QED BY <1>1, <1>5, <1>9, <1>10, <2>1 DEF Channel
<1>12. ASSUME lease.of = s PROVE Owner(s)'
  <2>1. CASE tab[s].pc = "idle"
    BY <1>5, <2>1 DEF Owner, Listing
  <2>2. CASE tab[s].pc = "landing"
    <3>1. /\ Apart(tab[s]) /\ Downloads(tab[s]) /\ Deletions(tab[s]) /\ Dirs(s)
          /\ Bound(s) /\ Merging(s) /\ tab[s].batch = {}
      BY <1>1, <1>12, <2>2 DEF FolderInv, Owner, Channel
    <3>2. /\ p \notin tab[s].down /\ ~Leaving(tab[s], p)
          /\ p \in Inside => tab[s].dirOp \notin {"delete local", "delete remote"}
      BY <1>3, <3>1 DEF Bound
    <3>3. Fresh' /\ Listing(tab[s])' /\ Claims(tab[s])'
      BY <1>5, <2>2 DEF Fresh, Listing, Claims
    <3>4. Apart(tab[s])'
      BY <1>2, <1>4, <1>5, <3>1 DEF Apart, Pending, Rising, Sent, Leaving, Gone
    <3>5. Uploads(tab[s])'
      BY <1>5, <2>2, <3>1 DEF Uploads, Apart
    <3>6. Downloads(tab[s])'
      BY <1>5, <3>1 DEF Downloads, Elsewhere, Leaving, Gone
    <3>7. Deletions(tab[s])'
      <4>1. \A q \in Paths : <<q, "local">> \in tab[s].del => q # p
        BY <3>2 DEF Leaving, Sides
      <4>2. \A q \in Paths : <<q, "remote">> \in tab[s].del => q # p
        BY <3>2 DEF Leaving, Sides
      <4> QED BY <1>4, <1>5, <3>1, <4>1, <4>2 DEF Deletions, Gone
    <3>8. Dirs(s)'
      <4>1. ASSUME tab[s].dirOp = "delete remote", NEW q \in Inside
            PROVE  \/ remote'.file[q] = 0 \/ <<q, "remote">> \in tab[s].del
                   \/ [path |-> q, v |-> 0] \in wire'[s]
        <5>1. [path |-> q, v |-> 0] \notin wire[s]
          BY <1>9
        <5> QED BY <1>4, <3>1, <3>2, <4>1, <5>1, Constants DEF Dirs
      <4> QED BY <1>5, <3>1, <4>1 DEF Dirs, Rising, Sent
    <3>9. Bound(s)' /\ Merging(s)'
      <4>1. \A q \in Paths : Open(s, q) /\ q # p => Open(s, q)'
        BY <1>3, <1>5 DEF Open
      <4>2. Shared(p)'
        BY <1>2, <1>3, <1>4, <1>5 DEF Shared
      <4>3. ASSUME NEW q \in Paths \ {p} PROVE (Shared(q) \/ Pending(tab[s], q) \/ Open(s, q))'
        BY <1>4, <1>5, <3>1, <4>1 DEF Merging, Shared, Pending, Rising, Sent, Leaving
      <4> QED BY <1>5, <3>1, <4>2, <4>3 DEF Merging, Bound, Leaving
    <3> QED BY <1>5, <2>2, <3>3, <3>4, <3>5, <3>6, <3>7, <3>8, <3>9 DEF Owner
  <2> QED BY <1>10, <2>1, <2>2
<1> QED BY <1>5, <1>6, <1>7, <1>8, <1>11, <1>12, LandStep

LEMMA LandDelete ==
    ASSUME FolderInv, TypeOK', NEW s \in Tabs, NEW w \in wire[s], Land(s, w), w.v = 0
    PROVE  FolderInv'
<1>1. Channel(s) /\ Request(w)
  BY DEF FolderInv, Channel
<1>2. w.path \in Paths =>
        local.file[w.path] = 0 /\ remote.file[w.path] \in Gone /\ base.file[w.path] \in Gone
  BY <1>1, Constants DEF Request
<1>3. w.path = "dir" => \A q \in Inside : remote.file[q] = 0
  BY <1>1 DEF Request
<1>4. /\ \A q \in Paths : remote'.file[q] = IF q = w.path THEN 0 ELSE remote.file[q]
      /\ Nested(remote)'
  <2>1. CASE w.path = "dir"
    <3>1. remote' = DropDir(remote)
      BY <2>1 DEF Land
    <3>2. \A q \in Paths : remote'.file[q] = IF q \in Inside THEN 0 ELSE remote.file[q]
      BY <3>1, Typed, DropDirClears
    <3> QED BY <1>3, <2>1, <3>2, Constants DEF Nested
  <2>2. CASE w.path # "dir"
    <3>1. w.path \in Paths
      BY <2>2, Typed DEF Requests
    <3>2. remote' = Put(remote, w.path, 0)
      BY <2>2 DEF Land
    <3>3. /\ remote'.file[w.path] = 0 /\ (remote.dir => remote'.dir)
          /\ \A q \in Paths \ {w.path} : remote'.file[q] = remote.file[q]
      BY <3>1, <3>2, Typed, PutClears
    <3>4. Nested(remote)'
      BY <3>3, Constants DEF FolderInv, Trees, Nested
    <3> QED BY <3>3, <3>4
  <2> QED BY <2>1, <2>2
<1>5. /\ UNCHANGED <<local, base, lease, tab, edits, retired, present>>
      /\ wire'[s] = wire[s] \ {w} /\ \A t \in Tabs \ {s} : wire'[t] = wire[t]
  BY Typed DEF Land, history, server
<1>6. Trees'
  BY <1>4, <1>5, Constants DEF FolderInv, Trees, Nested
<1>7. Past'
  BY <1>2, <1>4, <1>5 DEF FolderInv, Past, Ancestor, Forgotten, Gone
<1>8. NothingLost'
  <2>1. \A q \in Paths : Kept(local.file[q]) /\ Kept(remote.file[q])
    BY <1>2, <1>4, <1>5 DEF Kept, Gone
  <2> QED BY <1>5, <2>1, Survives DEF FolderInv
<1>9. tab[s].pc \in {"download", "release", "idle"} /\ \A z \in wire[s] : z.v = 0
  BY <1>1 DEF Channel
<1>10. Channel(s)'
  <2>1. ASSUME NEW z \in wire'[s] PROVE Request(z)'
    <3>1. z \in wire[s] /\ z.v = 0 /\ Request(z) /\ z.path \in Paths \cup {"dir"}
      BY <1>1, <1>5, <1>9, Typed DEF Channel, Requests
    <3> QED BY <1>4, <1>5, <3>1, Constants DEF Request, Gone
  <2> QED BY <1>1, <1>5, <1>9, <2>1 DEF Channel
<1>11. ASSUME lease.of = s PROVE Owner(s)'
  <2>1. CASE tab[s].pc # "download"
    BY <1>5, <1>9, <2>1 DEF Owner, Listing
  <2>2. CASE tab[s].pc = "download"
    <3>1. /\ tab[s].up = {} /\ tab[s].copy = {} /\ tab[s].batch = {} /\ tab[s].down = {}
          /\ Fresh /\ Apart(tab[s]) /\ Deletions(tab[s]) /\ Dirs(s) /\ Merging(s)
      BY <1>11, <2>2, Downloading
    <3>2. Fresh' /\ Listing(tab[s])' /\ Claims(tab[s])'
      BY <1>5, <2>2, <3>1 DEF Fresh, Listing, Claims
    <3>3. Apart(tab[s])'
      BY <1>4, <1>5, <3>1, Constants DEF Apart, Pending, Rising, Sent, Leaving, Gone
    <3>4. Uploads(tab[s])' /\ Downloads(tab[s])'
      BY <1>5, <3>1 DEF Uploads, Downloads
    <3>5. Deletions(tab[s])'
      BY <1>4, <1>5, <3>1 DEF Deletions, Gone
    <3>6. Dirs(s)'
      <4>1. ASSUME tab[s].dirOp = "delete remote", NEW q \in Inside
            PROVE  \/ remote'.file[q] = 0 \/ <<q, "remote">> \in tab[s].del
                   \/ [path |-> q, v |-> 0] \in wire'[s]
        <5>1. CASE q = w.path
          BY <1>4, <5>1, Constants
        <5>2. CASE q # w.path
          <6>1. [path |-> q, v |-> 0] # w
            BY <5>2
          <6> QED BY <1>4, <1>5, <3>1, <4>1, <5>2, <6>1, Constants DEF Dirs
        <5> QED BY <5>1, <5>2
      <4> QED BY <1>5, <3>1, <4>1 DEF Dirs, Rising, Sent
    <3>7. Bound(s)' /\ Merging(s)'
      <4>1. \A q \in Paths : Open(s, q) /\ q # w.path => Open(s, q)'
        BY <1>5 DEF Open
      <4>2. \A q \in Paths : q = w.path => Shared(q)'
        BY <1>2, <1>4, <1>5 DEF Shared
      <4>3. ASSUME NEW q \in Paths, q # w.path
            PROVE  (Shared(q) \/ Pending(tab[s], q) \/ Open(s, q))'
        BY <1>4, <1>5, <3>1, <4>1, <4>3 DEF Merging, Shared, Pending, Rising, Sent, Leaving
      <4> QED BY <1>5, <1>9, <4>2, <4>3 DEF Merging, Bound
    <3> QED BY <1>5, <2>2, <3>2, <3>3, <3>4, <3>5, <3>6, <3>7 DEF Owner
  <2> QED BY <2>1, <2>2
<1> QED BY <1>5, <1>6, <1>7, <1>8, <1>10, <1>11, LandStep

-----------------------------------------------------------------------------
(* The ancestor.                                                           *)

\* The two sides agree when a sync stores what they hold.
LEMMA StepPut ==
    ASSUME FolderInv, TypeOK', NEW s \in Tabs, PutState(s)
    PROVE  FolderInv'
<1>0. /\ lease' = lease /\ lease.of = s /\ tab[s].pc = "put"
      /\ UNCHANGED <<local, remote, present, edits, retired, wire>>
      /\ tab' = [tab EXCEPT ![s] = [Idle EXCEPT !.pc = "release"]]
  BY DEF PutState, Guard, Holds, Throw, history
<1>1. CASE base' = base
  <2>1. SameFiles
    BY <1>0, <1>1 DEF SameFiles
  <2> QED BY <1>0, <2>1, Ended
<1>2. CASE base' = tab[s].merged
  <2>1. \A p \in Paths : /\ Shared(p)
                         /\ base'.file[p] = IF local.file[p] \in Big THEN 0 ELSE local.file[p]
    BY <1>0, <1>2 DEF FolderInv, Owner
  <2>2. Trees'
    BY <1>0, <2>1, Constants DEF FolderInv, Trees, Nested
  <2>3. Past'
    <3> SUFFICES ASSUME NEW p \in Paths PROVE Ancestor(p)' /\ Forgotten(p)'
      BY DEF Past
    <3>1. CASE base'.file[p] = 0
      BY <3>1 DEF Ancestor, Forgotten, Gone
    <3>2. CASE base'.file[p] # 0
      <4>1. /\ base'.file[p] = local.file[p] /\ local.file[p] \notin Big
            /\ remote.file[p] = local.file[p] \/ remote.file[p] \in Big
        BY <2>1, <3>2 DEF Shared
      <4> QED BY <1>0, <3>2, <4>1, Constants DEF Ancestor, Forgotten, Gone
    <3> QED BY <3>1, <3>2
  <2>4. NothingLost'
    BY <1>0 DEF FolderInv, NothingLost
  <2>5. tab'[s].pc = "release" /\ tab'[s].batch = {} /\ \A t \in Tabs \ {s} : tab'[t] = tab[t]
    BY <1>0, Typed DEF Idle
  <2>6. wire[s] = {}
    BY <1>0 DEF FolderInv, Channel
  <2>7. Channel(s)'
    BY <1>0, <2>5, <2>6 DEF Channel
  <2>8. Owner(s)'
    BY <2>5 DEF Owner, Listing
  <2> QED BY <1>0, <2>2, <2>3, <2>4, <2>5, <2>7, <2>8, OwnerStep
<1> QED BY <1>1, <1>2 DEF PutState

\* What planSync decides for a path.
Decided(l, r, b, c) ==
    /\ l # r => c \in {"upload", "download", "local wins", "remote wins",
                       "delete local", "delete remote"}
    /\ c # "nothing" => l # r
    /\ c = "upload" => r = b
    /\ c = "download" => l = b
    /\ c = "delete remote" => l = 0 /\ r # 0 /\ b # 0
    /\ c = "delete local" => l # 0 /\ r = 0 /\ b # 0

LEMMA PlanDecides ==
    ASSUME NEW l \in Versions, NEW r \in Versions, NEW b \in Versions, NEW p, NEW newer
    PROVE  Decided(l, r, b, Plan(l, r, b, p \in newer))
<1>1. CASE l = r
  BY <1>1 DEF Plan, Decided
<1>2. CASE l # r /\ l # 0 /\ r # 0
  BY <1>2 DEF Plan, Decided
<1>3. CASE l # r /\ (l = 0 \/ r = 0)
  BY <1>3 DEF Plan, Decided
<1> QED BY <1>1, <1>2, <1>3

\* The plan of a sync, one path at a time.
Moves == {"upload", "download", "local wins", "remote wins"}
Follows(t, u, known, choice) ==
    /\ u.pc = "copy" /\ u.batch = t.batch
    /\ \A p \in Paths :
         /\ p \in u.claimed <=> t.l.file[p] # 0 \/ t.r.file[p] # 0 \/ known.file[p] # 0
         /\ <<p, "remote">> \in u.copy <=> p \notin t.skip /\ choice[p] = "local wins"
         /\ <<p, "local">> \in u.copy <=> p \notin t.skip /\ choice[p] = "remote wins"
         /\ p \in u.up <=> p \notin t.skip /\ choice[p] \in {"upload", "local wins"}
         /\ p \in u.down <=> p \notin t.skip /\ choice[p] \in {"download", "remote wins"}
         /\ <<p, "remote">> \in u.del <=> p \notin t.skip /\ choice[p] = "delete remote"
         /\ <<p, "local">> \in u.del <=> p \notin t.skip /\ choice[p] = "delete local"
    /\ u.dirOp = "delete remote" =>
         ~t.l.dir /\ \A p \in Inside \ t.skip : choice[p] \notin Moves
    /\ u.dirOp = "delete local" =>
         ~t.r.dir /\ \A p \in Inside \ t.skip : choice[p] \notin Moves

LEMMA PlannedFollows ==
    ASSUME NEW t \in Syncs, NEW known \in Manifests, NEW newer, NEW at
    PROVE  \E choice :
             /\ \A p \in Paths : Decided(t.l.file[p], t.r.file[p], known.file[p], choice[p])
             /\ Follows(t, [Planned(t, known, newer) EXCEPT !.rev = at], known, choice)
<1> DEFINE choice == [p \in Paths |->
                       Plan(t.l.file[p], t.r.file[p], known.file[p], p \in newer)]
           of(a) == {p \in Paths \ t.skip :
                       Plan(t.l.file[p], t.r.file[p], known.file[p], p \in newer) = a}
           cp == {<<p, "remote">> : p \in of("local wins")}
                   \cup {<<p, "local">> : p \in of("remote wins")}
           dl == {<<p, "remote">> : p \in of("delete remote")}
                   \cup {<<p, "local">> : p \in of("delete local")}
           dir == PlanDir(t.l.dir, t.r.dir, known.dir,
                          \E p \in Inside \ t.skip :
                             Plan(t.l.file[p], t.r.file[p], known.file[p], p \in newer)
                               \in {"upload", "download", "local wins", "remote wins"})
           up == of("upload") \cup of("local wins")
           down == of("download") \cup of("remote wins")
           claimed == Names(t.l) \cup Names(t.r) \cup Names(known)
           u == [Planned(t, known, newer) EXCEPT !.rev = at]
<1>0. \A p \in Paths : Decided(t.l.file[p], t.r.file[p], known.file[p], choice[p])
  <2> SUFFICES ASSUME NEW p \in Paths
               PROVE  Decided(t.l.file[p], t.r.file[p], known.file[p], choice[p])
    OBVIOUS
  <2>1. t.l.file[p] \in Versions /\ t.r.file[p] \in Versions /\ known.file[p] \in Versions
    BY SyncFields DEF Manifests, Versions
  <2>2. choice[p] = Plan(t.l.file[p], t.r.file[p], known.file[p], p \in newer)
    OBVIOUS
  <2>3. Decided(t.l.file[p], t.r.file[p], known.file[p],
                Plan(t.l.file[p], t.r.file[p], known.file[p], p \in newer))
    BY <2>1, PlanDecides, Zenon
  <2> HIDE DEF choice
  <2> QED BY <2>2, <2>3
<1>1. u = [t EXCEPT !.pc = "copy", !.l = Nothing, !.r = Nothing, !.skip = {},
                    !.missing = FALSE, !.claimed = claimed, !.copy = cp, !.up = up,
                    !.down = down, !.del = dl, !.dirOp = dir, !.rev = at]
  BY DEF Planned, Syncs
<1>2. \A p \in Paths : p \in claimed <=> t.l.file[p] # 0 \/ t.r.file[p] # 0 \/ known.file[p] # 0
  BY DEF Names
<1>3. \A a : \A p \in Paths : p \in of(a) <=> p \notin t.skip /\ choice[p] = a
  OBVIOUS
<1>4. /\ dir = "delete remote" =>
           ~t.l.dir /\ \A p \in Inside \ t.skip : choice[p] \notin Moves
      /\ dir = "delete local" =>
           ~t.r.dir /\ \A p \in Inside \ t.skip : choice[p] \notin Moves
  <2>1. dir \in {"delete remote", "delete local"} =>
          ~\E p \in Inside \ t.skip :
             Plan(t.l.file[p], t.r.file[p], known.file[p], p \in newer)
               \in {"upload", "download", "local wins", "remote wins"}
    BY DEF PlanDir
  <2>2. (dir = "delete remote" => ~t.l.dir) /\ (dir = "delete local" => ~t.r.dir)
    BY DEF PlanDir
  <2> HIDE DEF dir
  <2> QED BY <2>1, <2>2, Constants DEF Moves
<1> HIDE DEF of, choice
<1>5. \A p \in Paths : /\ <<p, "remote">> \in cp <=> p \in of("local wins")
                       /\ <<p, "local">> \in cp <=> p \in of("remote wins")
  BY PairsDiffer
<1>6. \A p \in Paths : /\ <<p, "remote">> \in dl <=> p \in of("delete remote")
                       /\ <<p, "local">> \in dl <=> p \in of("delete local")
  BY PairsDiffer
<1>7. \A p \in Paths : /\ p \in up <=> p \in of("upload") \/ p \in of("local wins")
                       /\ p \in down <=> p \in of("download") \/ p \in of("remote wins")
  OBVIOUS
<1> HIDE DEF cp, dl, dir, up, down, claimed, u
<1>8. /\ u.pc = "copy" /\ u.batch = t.batch /\ u.claimed = claimed /\ u.copy = cp /\ u.up = up
      /\ u.down = down /\ u.del = dl /\ u.dirOp = dir
  BY <1>1 DEF Syncs
<1>9. Follows(t, u, known, choice)
  BY <1>2, <1>3, <1>4, <1>5, <1>6, <1>7, <1>8 DEF Follows
<1> QED BY <1>0, <1>9 DEF u

\* A plan made from true listings loses nothing, whatever ancestor was read.
LEMMA PlanIsSafe ==
    ASSUME FolderInv, TypeOK', NEW s \in Tabs, tab[s].pc = "load", lease.of = s, wire[s] = {},
           tab[s].batch = {}, UNCHANGED <<local, remote, present, lease, wire, edits, retired>>,
           \A t \in Tabs \ {s} : tab'[t] = tab[t],
           NEW known \in Manifests, NEW choice,
           \A p \in Paths :
              Decided(tab[s].l.file[p], tab[s].r.file[p], known.file[p], choice[p]),
           Follows(tab[s], tab'[s], known, choice),
           \A p \in Paths : \/ known.file[p] = 0
                            \/ base' = base /\ known.file[p] = base.file[p] /\ present,
           present \/ base' = Nothing, base' = base \/ base' = Nothing
    PROVE  FolderInv'
<1>1. /\ Seen(tab[s].l, local) /\ Seen(tab[s].r, remote)
      /\ \A p \in Paths : p \in tab[s].skip <=> local.file[p] \in Big \/ remote.file[p] \in Big
  BY DEF FolderInv, Owner, Listing
<1>2. PICK skip : skip = tab[s].skip
  OBVIOUS
<1>3. \A p \in Paths \ skip :
        /\ tab[s].l.file[p] = local.file[p] /\ tab[s].r.file[p] = remote.file[p]
        /\ local.file[p] \notin Big /\ remote.file[p] \notin Big
  BY <1>1, <1>2 DEF Seen
<1>4. \A p \in Paths \ skip : Decided(local.file[p], remote.file[p], known.file[p], choice[p])
  BY <1>3
<1>5. PICK u \in Syncs : u = tab'[s]
  BY DEF TypeOK
<1>6. Follows(tab[s], u, known, choice) /\ u.pc = "copy" /\ u.batch = {} /\ u.up \subseteq Paths
      /\ u.down \subseteq Paths
  BY <1>5, SyncFields DEF Follows
<1>7. \A p \in Paths \ skip : local.file[p] # remote.file[p] => base'.file[p] \in Gone
  <2> SUFFICES ASSUME NEW p \in Paths \ skip, local.file[p] # remote.file[p]
               PROVE  base'.file[p] \in Gone
    OBVIOUS
  <2>1. CASE base' = Nothing
    BY <2>1, NothingTyped DEF Gone
  <2>2. CASE base' = base /\ present
    BY <1>3, <2>2 DEF FolderInv, Past, Ancestor
  <2> QED BY <2>1, <2>2
<1>8. Trees' /\ Past' /\ NothingLost'
  <2>1. Trees'
    BY NothingTyped, Constants DEF FolderInv, Trees, Nested
  <2>2. Past'
    BY NothingTyped DEF FolderInv, Past, Ancestor, Forgotten, Gone
  <2>3. NothingLost'
    BY DEF FolderInv, NothingLost
  <2> QED BY <2>1, <2>2, <2>3
<1>9. Channel(s)'
  BY <1>5, <1>6 DEF Channel
<1>10. \A p \in Paths :
         /\ Rising(u, p) <=> p \notin skip /\ choice[p] \in {"upload", "local wins"}
         /\ Leaving(u, p) <=> p \notin skip /\ choice[p] \in {"delete local", "delete remote"}
         /\ Pending(u, p) <=> p \notin skip /\ local.file[p] # remote.file[p]
  <2>1. \A p \in Paths :
          Rising(u, p) <=> p \notin skip /\ choice[p] \in {"upload", "local wins"}
    BY <1>2, <1>6 DEF Rising, Sent, Follows
  <2>2. \A p \in Paths : Leaving(u, p) <=>
          <<p, "local">> \in u.del \/ <<p, "remote">> \in u.del
    BY DEF Leaving, Sides
  <2>3. \A p \in Paths :
          Leaving(u, p) <=> p \notin skip /\ choice[p] \in {"delete local", "delete remote"}
    BY <1>2, <1>6, <2>2 DEF Follows
  <2>4. \A p \in Paths : p \in u.down <=> p \notin skip /\ choice[p] \in {"download", "remote wins"}
    BY <1>2, <1>6 DEF Follows
  <2>5. ASSUME NEW p \in Paths
        PROVE  Pending(u, p) <=> p \notin skip /\ local.file[p] # remote.file[p]
    BY <1>4, <2>1, <2>3, <2>4 DEF Pending, Decided
  <2> QED BY <2>1, <2>3, <2>5
<1>11. \A p \in Paths \ skip : known.file[p] \in Gone \/ local.file[p] = remote.file[p]
  BY <1>7 DEF Gone
<1>12. Owner(s)'
  <2>1. Fresh' /\ Listing(tab[s])'
    BY <1>5, <1>6 DEF Fresh, Listing
  <2>2. Apart(u)'
    <3>1. \A p \in Paths : Pending(u, p) => base'.file[p] \in Gone
                              /\ local.file[p] \notin Big /\ remote.file[p] \notin Big
      BY <1>3, <1>7, <1>10
    <3>2. \A p \in Paths :
            /\ p \in u.down => p \notin skip /\ choice[p] \in {"download", "remote wins"}
            /\ <<p, "remote">> \in u.copy => p \in u.up
            /\ <<p, "local">> \in u.copy => p \in u.down
      BY <1>2, <1>6 DEF Follows
    <3> QED BY <1>6, <1>10, <3>1, <3>2 DEF Apart, Gone
  <2>3. Claims(u)'
    <3>1. \A p \in Paths : tab[s].l.file[p] # 0 \/ tab[s].r.file[p] # 0 => p \in u.claimed
      BY <1>6 DEF Follows
    <3>2. ASSUME NEW p \in Paths, Pending(u, p) PROVE p \in u.claimed
      <4>1. p \in Paths \ skip /\ local.file[p] # remote.file[p]
        BY <1>10, <3>2
      <4>2. tab[s].l.file[p] # tab[s].r.file[p]
        BY <1>3, <4>1
      <4> QED BY <3>1, <4>2
    <3>3. \A p \in Paths : p \in Spares /\ remote.file[p] # 0 => p \in u.claimed
      BY <1>1, <3>1 DEF FolderInv, Trees, Seen
    <3> QED BY <3>2, <3>3 DEF Claims
  <2>4. Uploads(u)'
    <3>1. ASSUME NEW p \in u.up PROVE remote.file[p] \in Gone \/ <<p, "remote">> \in u.copy
      <4>1. p \in Paths \ skip /\ choice[p] \in {"upload", "local wins"}
        BY <1>2, <1>6 DEF Follows
      <4>2. CASE choice[p] = "upload"
        BY <1>4, <1>11, <4>1, <4>2 DEF Decided
      <4>3. CASE choice[p] = "local wins"
        BY <1>2, <1>6, <4>1, <4>3 DEF Follows
      <4> QED BY <4>1, <4>2, <4>3
    <3> QED BY <1>6, <3>1 DEF Uploads, Gone
  <2>5. Downloads(u)'
    <3>1. ASSUME NEW p \in u.down PROVE local.file[p] \in Gone \/ <<p, "local">> \in u.copy
      <4>1. p \in Paths \ skip /\ choice[p] \in {"download", "remote wins"}
        BY <1>2, <1>6 DEF Follows
      <4>2. CASE choice[p] = "download"
        BY <1>4, <1>11, <4>1, <4>2 DEF Decided
      <4>3. CASE choice[p] = "remote wins"
        BY <1>2, <1>6, <4>1, <4>3 DEF Follows
      <4> QED BY <4>1, <4>2, <4>3
    <3> QED BY <3>1 DEF Downloads, Gone
  <2>6. Deletions(u)'
    <3>1. ASSUME NEW p \in Paths, <<p, "remote">> \in u.del
          PROVE  local.file[p] = 0 /\ remote.file[p] \in Gone
      <4>1. p \in Paths \ skip /\ choice[p] = "delete remote"
        BY <1>2, <1>6, <3>1 DEF Follows
      <4>2. local.file[p] = 0 /\ known.file[p] # 0
        BY <1>4, <4>1 DEF Decided
      <4>3. base.file[p] # 0 /\ present /\ remote.file[p] \notin Big
        BY <1>3, <4>1, <4>2
      <4> QED BY <4>2, <4>3 DEF FolderInv, Past, Forgotten
    <3>2. ASSUME NEW p \in Paths, <<p, "local">> \in u.del
          PROVE  remote.file[p] = 0 /\ local.file[p] \in Gone
      <4>1. p \in Paths \ skip /\ choice[p] = "delete local"
        BY <1>2, <1>6, <3>2 DEF Follows
      <4>2. remote.file[p] = 0 /\ known.file[p] # 0
        BY <1>4, <4>1 DEF Decided
      <4>3. base.file[p] # 0 /\ present /\ local.file[p] \notin Big
        BY <1>3, <4>1, <4>2
      <4> QED BY <4>2, <4>3 DEF FolderInv, Past, Forgotten
    <3> QED BY <3>1, <3>2 DEF Deletions, Gone
  <2>7. Dirs(s)'
    <3>1. \A p \in Inside : p \in Paths \ skip
      BY <1>1, <1>2, Constants DEF FolderInv, Trees
    <3>2. ASSUME u.dirOp \in {"delete local", "delete remote"}
          PROVE  \A p \in Inside : choice[p] \notin Moves /\ ~Rising(u, p) /\ p \notin u.down
      <4>1. \A p \in Inside : choice[p] \notin Moves
        BY <1>2, <1>6, <3>1, <3>2 DEF Follows
      <4>2. \A p \in Paths : p \in u.down => choice[p] \in {"download", "remote wins"}
        BY <1>6 DEF Follows
      <4> QED BY <1>10, <3>1, <4>1, <4>2 DEF Moves
    <3>3. ASSUME u.dirOp = "delete local", NEW p \in Inside
          PROVE  local.file[p] = 0 \/ <<p, "local">> \in u.del
      <4>0. ~tab[s].r.dir
        BY <1>6, <3>3 DEF Follows
      <4>1. remote.file[p] = 0
        BY <1>1, <1>3, <3>1, <4>0 DEF Seen, Nested
      <4>2. local.file[p] # 0 => choice[p] = "delete local"
        BY <1>4, <3>1, <3>2, <3>3, <4>1 DEF Moves, Decided
      <4> QED BY <1>2, <1>6, <3>1, <4>2 DEF Follows
    <3>4. ASSUME u.dirOp = "delete remote", NEW p \in Inside
          PROVE  remote.file[p] = 0 \/ <<p, "remote">> \in u.del
      <4>0. ~tab[s].l.dir
        BY <1>6, <3>4 DEF Follows
      <4>1. local.file[p] = 0
        BY <1>1, <1>3, <3>1, <4>0 DEF Seen, Nested
      <4>2. remote.file[p] # 0 => choice[p] = "delete remote"
        BY <1>4, <3>1, <3>2, <3>4, <4>1 DEF Moves, Decided
      <4> QED BY <1>2, <1>6, <3>1, <4>2 DEF Follows
    <3>5. \A p : Rising(u, p)' <=> Rising(u, p)
      BY DEF Rising, Sent
    <3> QED BY <1>5, <3>2, <3>3, <3>4, <3>5 DEF Dirs
  <2>8. Merging(s)' /\ Bound(s)'
    <3>1. ASSUME NEW p \in Paths PROVE Shared(p) \/ Pending(u, p)
      BY <1>1, <1>2, <1>10 DEF Shared
    <3> QED BY <1>5, <3>1 DEF Merging, Shared, Bound, Pending, Rising, Sent, Leaving
  <2> QED BY <1>5, <1>6, <2>1, <2>2, <2>3, <2>4, <2>5, <2>6, <2>7, <2>8 DEF Owner
<1> QED BY <1>8, <1>9, <1>12, OwnerStep

LEMMA StepLoad ==
    ASSUME FolderInv, TypeOK', NEW s \in Tabs, NEW readable \in BOOLEAN,
           LoadAncestor(s, readable)
    PROVE  FolderInv'
<1> DEFINE b == IF readable THEN base ELSE Nothing
           r == IF readable THEN rev ELSE 0
           resets == Resets(s, b) \/ (tab[s].missing /\ ~readable)
           known == IF resets THEN Nothing ELSE b
           at == IF resets THEN NextRev(r) ELSE r
           Plans(newer) ==
             /\ tab' = [tab EXCEPT ![s] = [Planned(@, known, newer) EXCEPT !.rev = at]]
             /\ base' = (IF resets THEN Nothing ELSE base) /\ (resets => Accepts(s, r))
<1>0. /\ tab[s].pc = "load" /\ wire[s] = {} /\ tab[s].batch = {}
      /\ UNCHANGED <<local, remote, present, lease, wire, edits, retired>>
  BY DEF LoadAncestor, history, FolderInv, Channel
<1>1. CASE Throw(s) /\ base' = base
  <2>1. SameFiles
    BY <1>0, <1>1 DEF SameFiles
  <2> QED BY <1>0, <1>1, <2>1, Ended DEF Throw
<1>2. ASSUME NEW newer, Plans(newer) PROVE FolderInv'
  <2>1. known \in Manifests
    BY Typed, NothingTyped
  <2>3. /\ tab'[s] = [Planned(tab[s], known, newer) EXCEPT !.rev = at]
        /\ \A t \in Tabs \ {s} : tab'[t] = tab[t]
    BY <1>2, Typed
  <2>4. (\A p \in Paths : known.file[p] = 0 \/ (known = base /\ ~resets /\ ~tab[s].missing))
        /\ (resets => Accepts(s, r)) /\ base' = (IF resets THEN Nothing ELSE base)
        /\ (tab[s].missing => base' = Nothing)
    BY <1>2, NothingTyped DEF Resets
  <2> HIDE DEF known, at, resets, r
  <2>5. PICK choice :
          /\ \A p \in Paths :
               Decided(tab[s].l.file[p], tab[s].r.file[p], known.file[p], choice[p])
          /\ Follows(tab[s], tab'[s], known, choice)
    <3>1. tab[s] \in Syncs
      BY Typed
    <3>2. \E choice :
            /\ \A p \in Paths :
                 Decided(tab[s].l.file[p], tab[s].r.file[p], known.file[p], choice[p])
            /\ Follows(tab[s], [Planned(tab[s], known, newer) EXCEPT !.rev = at], known, choice)
      BY <2>1, <3>1, PlannedFollows, Zenon
    <3> QED BY <2>3, <3>2, Zenon
  <2>6. CASE lease.of # s
    <3>1. SameFiles
      BY <1>0, <2>4, <2>6 DEF SameFiles, Accepts, Holds
    <3>2. Channel(s)'
      BY <1>0, <2>5 DEF Channel, Follows
    <3>3. Lone'
      BY <1>0 DEF FolderInv, Lone
    <3> QED BY <1>0, <2>3, <2>6, <3>1, <3>2, <3>3, QuietStep
  <2>7. CASE lease.of = s
    <3>1. tab[s].missing <=> ~present
      BY <1>0, <2>7 DEF FolderInv, Owner, Listing
    <3>2. \A p \in Paths : \/ known.file[p] = 0
                           \/ base' = base /\ known.file[p] = base.file[p] /\ present
      BY <2>4, <3>1
    <3> QED BY <1>0, <2>1, <2>3, <2>4, <2>5, <2>7, <3>1, <3>2, PlanIsSafe
  <2> QED BY <2>6, <2>7
<1> QED BY <1>1, <1>2 DEF LoadAncestor

-----------------------------------------------------------------------------
(* The person and the agent, between syncs.                                *)

\* With no sync running there is only what the trees and the ancestor hold.
LEMMA BetweenSyncs ==
    ASSUME FolderInv, TypeOK', Trees', Past', NothingLost',
           \A s \in Tabs : tab[s].pc = "idle" /\ wire[s] = {},
           UNCHANGED <<tab, wire, lease>>
    PROVE  FolderInv'
<1>1. Lone'
  BY DEF Lone
<1>2. ASSUME NEW s \in Tabs PROVE Channel(s)' /\ Owner(s)'
  BY DEF FolderInv, Channel, Owner, Listing
<1> QED BY <1>1, <1>2 DEF FolderInv

\* What an edit retires, and the number it gets.
LEMMA EditRetires ==
    ASSUME FolderInv, NEW mine \in Manifests, NEW other \in Manifests
    PROVE  /\ \A p \in Paths : Written(mine, other, p) =>
                /\ edits' = edits + 1 /\ edits + 1 \in Versions /\ edits + 1 # 0
                /\ retired \subseteq retired' /\ mine.file[p] \in retired'
                /\ other.file[p] = 0 /\ base.file[p] # 0 => edits + 1 \in retired'
                /\ ~BigInside /\ p \in Inside => edits + 1 \notin Big
           /\ \A ps \in SUBSET Paths : Deleted(mine, other, ps) =>
                /\ edits' = edits /\ retired \subseteq retired'
                /\ \A p \in ps : /\ mine.file[p] \in retired'
                                 /\ other.file[p] \in retired' \cup Big
<1>1. edits \in 0..MaxEdits /\ MaxEdits \in Nat
  BY FolderAssumption DEF FolderAssumption, FolderInv, TypeOK
<1>2. ASSUME NEW p \in Paths, Written(mine, other, p)
      PROVE  /\ edits' = edits + 1 /\ edits + 1 \in Versions /\ edits + 1 # 0
             /\ retired \subseteq retired' /\ mine.file[p] \in retired'
             /\ other.file[p] = 0 /\ base.file[p] # 0 => edits + 1 \in retired'
             /\ ~BigInside /\ p \in Inside => edits + 1 \notin Big
  <2>1. edits' = edits + 1 /\ edits + 1 \in Versions /\ edits + 1 # 0
    BY <1>1, <1>2 DEF Written, Versions
  <2>2. /\ retired \subseteq retired' /\ mine.file[p] \in retired'
        /\ other.file[p] = 0 /\ base.file[p] # 0 => edits + 1 \in retired'
    BY <1>2 DEF Written, PendingDelete
  <2>3. ~BigInside /\ p \in Inside => edits + 1 \notin Big
    BY <1>2 DEF Written
  <2> QED BY <2>1, <2>2, <2>3
<1>3. ASSUME NEW ps \in SUBSET Paths, Deleted(mine, other, ps)
      PROVE  /\ edits' = edits /\ retired \subseteq retired'
             /\ \A p \in ps : /\ mine.file[p] \in retired'
                              /\ other.file[p] \in retired' \cup Big
  BY <1>3, ListedFiles DEF Deleted
<1> QED BY <1>2, <1>3

LEMMA StepPerson ==
    ASSUME Closed, FolderInv, TypeOK', NEW p \in Files, PersonEdits(p)
    PROVE  FolderInv'
<1>0. /\ \A s \in Tabs : tab[s].pc = "idle" /\ wire[s] = {}
      /\ UNCHANGED <<remote, present, base, tab, wire, lease>>
  BY DEF Closed, PersonEdits, Editable, Landed, server
<1>1. p \in Paths /\ p \notin Spares /\ {p} \in SUBSET Paths /\ Inside \in SUBSET Paths
  BY Constants
<1>2. CASE Written(local, remote, p) /\ local' = Put(local, p, edits + 1)
  <2>1. /\ edits' = edits + 1 /\ edits + 1 \in Versions /\ edits + 1 # 0
        /\ retired \subseteq retired' /\ local.file[p] \in retired'
        /\ remote.file[p] = 0 /\ base.file[p] # 0 => edits + 1 \in retired'
        /\ p \in Inside => edits + 1 \notin Big
    BY <1>1, <1>2, Typed, EditRetires DEF Closed
  <2>2. PICK e \in Versions : e = edits + 1 /\ e # 0
    BY <2>1
  <2>3. /\ local'.file[p] = e /\ (local.dir \/ p \in Inside => local'.dir)
        /\ \A q \in Paths \ {p} : local'.file[q] = local.file[q]
    <3>1. local' = Put(local, p, e)
      BY <1>2, <2>2
    <3> QED BY <1>1, <2>2, <3>1, Typed, PutAdds
  <2>4. Trees'
    BY <1>0, <1>1, <2>1, <2>2, <2>3, Constants DEF FolderInv, Trees, Nested
  <2>5. Past'
    <3>1. ASSUME NEW q \in Paths \ {p} PROVE Ancestor(q)' /\ Forgotten(q)'
      BY <1>0, <2>1, <2>3 DEF FolderInv, Past, Ancestor, Forgotten, Gone
    <3>2. Ancestor(p)' /\ Forgotten(p)'
      BY <1>0, <1>1, <2>1, <2>2, <2>3 DEF FolderInv, Past, Ancestor, Forgotten, Gone
    <3> QED BY <3>1, <3>2 DEF Past
  <2>6. NothingLost'
    <3>1. \A q \in Paths : Kept(local.file[q]) /\ Kept(remote.file[q])
      BY <1>0, <2>1, <2>3 DEF Kept, Gone
    <3>2. Kept(edits + 1)
      BY <1>1, <2>2, <2>3 DEF Kept
    <3> QED BY <2>1, <3>1, <3>2, Survives DEF FolderInv
  <2> QED BY <1>0, <2>4, <2>5, <2>6, BetweenSyncs
<1>3. ASSUME NEW ps \in SUBSET Paths, Deleted(local, remote, ps), Nested(local)',
             \A q \in Paths : local'.file[q] = IF q \in ps THEN 0 ELSE local.file[q]
      PROVE  FolderInv'
  <2>1. /\ edits' = edits /\ retired \subseteq retired'
        /\ \A q \in ps : local.file[q] \in retired' /\ remote.file[q] \in retired' \cup Big
    BY <1>3, Typed, EditRetires
  <2>2. Trees'
    BY <1>0, <1>3, Constants DEF FolderInv, Trees, Nested
  <2>3. Past'
    <3>1. ASSUME NEW q \in Paths, q \notin ps PROVE Ancestor(q)' /\ Forgotten(q)'
      BY <1>0, <1>3, <2>1, <3>1 DEF FolderInv, Past, Ancestor, Forgotten, Gone
    <3>2. ASSUME NEW q \in Paths, q \in ps PROVE Ancestor(q)' /\ Forgotten(q)'
      BY <1>0, <1>3, <2>1, <3>2 DEF FolderInv, Past, Ancestor, Forgotten, Gone
    <3> QED BY <3>1, <3>2 DEF Past
  <2>4. NothingLost'
    <3>1. \A q \in Paths : Kept(local.file[q]) /\ Kept(remote.file[q])
      BY <1>0, <1>3, <2>1 DEF Kept, Gone
    <3> QED BY <2>1, <3>1, Survives DEF FolderInv
  <2> QED BY <1>0, <2>2, <2>3, <2>4, BetweenSyncs
<1>4. CASE Deleted(local, remote, {p}) /\ local' = Put(local, p, 0)
  <2>1. /\ local'.file[p] = 0 /\ (local.dir => local'.dir)
        /\ \A q \in Paths \ {p} : local'.file[q] = local.file[q]
    BY <1>1, <1>4, Typed, PutClears
  <2>2. Nested(local)'
    BY <2>1, Constants DEF FolderInv, Trees, Nested
  <2> QED BY <1>1, <1>3, <1>4, <2>1, <2>2
<1>5. CASE Deleted(local, remote, Inside) /\ local' = DropDir(local)
  <2>1. \A q \in Paths : local'.file[q] = IF q \in Inside THEN 0 ELSE local.file[q]
    BY <1>5, Typed, DropDirClears
  <2>2. Nested(local)'
    BY <2>1, Constants DEF Nested
  <2> QED BY <1>1, <1>3, <1>5, <2>1, <2>2
<1> QED BY <1>2, <1>4, <1>5 DEF PersonEdits

LEMMA StepAgent ==
    ASSUME Closed, FolderInv, TypeOK', NEW p \in Files, AgentEdits(p)
    PROVE  FolderInv'
<1>0. /\ \A s \in Tabs : tab[s].pc = "idle" /\ wire[s] = {}
      /\ UNCHANGED <<local, base, tab, wire, lease>>
      /\ present \/ base = Nothing
  BY DEF Closed, AgentEdits, Quiet, Landed, server
<1>1. p \in Paths /\ p \notin Spares /\ {p} \in SUBSET Paths /\ Inside \in SUBSET Paths
  BY Constants
<1>2. CASE /\ Written(remote, local, p) /\ remote' = Put(remote, p, edits + 1)
           /\ present' = TRUE /\ remote.file[p] \notin Big
  <2>1. /\ edits' = edits + 1 /\ edits + 1 \in Versions /\ edits + 1 # 0
        /\ retired \subseteq retired' /\ remote.file[p] \in retired'
        /\ local.file[p] = 0 /\ base.file[p] # 0 => edits + 1 \in retired'
        /\ p \in Inside => edits + 1 \notin Big
    BY <1>1, <1>2, Typed, EditRetires DEF Closed
  <2>2. PICK e \in Versions : e = edits + 1 /\ e # 0
    BY <2>1
  <2>3. /\ remote'.file[p] = e /\ (remote.dir \/ p \in Inside => remote'.dir)
        /\ \A q \in Paths \ {p} : remote'.file[q] = remote.file[q]
    <3>1. remote' = Put(remote, p, e)
      BY <1>2, <2>2
    <3> QED BY <1>1, <2>2, <3>1, Typed, PutAdds
  <2>4. Trees'
    BY <1>0, <1>1, <1>2, <2>1, <2>2, <2>3, Constants DEF FolderInv, Trees, Nested
  <2>5. Past'
    <3> SUFFICES ASSUME NEW q \in Paths PROVE Ancestor(q)' /\ Forgotten(q)'
      BY DEF Past
    <3>1. CASE ~present
      <4>1. base'.file[q] = 0
        BY <1>0, <3>1, NothingTyped
      <4> QED BY <4>1 DEF Ancestor, Forgotten, Gone
    <3>2. CASE present /\ q # p
      BY <1>0, <1>2, <2>1, <2>3, <3>2 DEF FolderInv, Past, Ancestor, Forgotten, Gone
    <3>3. CASE present /\ q = p
      BY <1>0, <1>2, <2>1, <2>2, <2>3, <3>3 DEF FolderInv, Past, Ancestor, Forgotten, Gone
    <3> QED BY <3>1, <3>2, <3>3
  <2>6. NothingLost'
    <3>1. \A q \in Paths : Kept(local.file[q]) /\ Kept(remote.file[q])
      BY <1>0, <2>1, <2>3 DEF Kept, Gone
    <3>2. Kept(edits + 1)
      BY <1>1, <2>2, <2>3 DEF Kept
    <3> QED BY <2>1, <3>1, <3>2, Survives DEF FolderInv
  <2> QED BY <1>0, <2>4, <2>5, <2>6, BetweenSyncs
<1>3. ASSUME NEW ps \in SUBSET Paths, Deleted(remote, local, ps), Nested(remote)',
             present' = present,
             \A q \in Paths : remote'.file[q] = IF q \in ps THEN 0 ELSE remote.file[q]
      PROVE  FolderInv'
  <2>1. /\ edits' = edits /\ retired \subseteq retired'
        /\ \A q \in ps : remote.file[q] \in retired' /\ local.file[q] \in retired' \cup Big
    BY <1>3, Typed, EditRetires
  <2>2. Trees'
    BY <1>0, <1>3, Constants DEF FolderInv, Trees, Nested
  <2>3. Past'
    <3>1. ASSUME NEW q \in Paths, q \notin ps PROVE Ancestor(q)' /\ Forgotten(q)'
      BY <1>0, <1>3, <2>1, <3>1 DEF FolderInv, Past, Ancestor, Forgotten, Gone
    <3>2. ASSUME NEW q \in Paths, q \in ps PROVE Ancestor(q)' /\ Forgotten(q)'
      <4>1. base.file[q] \notin Big
        BY DEF FolderInv, Trees
      <4> QED BY <1>0, <1>3, <2>1, <3>2, <4>1 DEF FolderInv, Past, Ancestor, Forgotten, Gone
    <3> QED BY <3>1, <3>2 DEF Past
  <2>4. NothingLost'
    <3>1. \A q \in Paths : Kept(local.file[q]) /\ Kept(remote.file[q])
      BY <1>0, <1>3, <2>1 DEF Kept, Gone
    <3> QED BY <2>1, <3>1, Survives DEF FolderInv
  <2> QED BY <1>0, <2>2, <2>3, <2>4, BetweenSyncs
<1>4. CASE Deleted(remote, local, {p}) /\ remote' = Put(remote, p, 0) /\ present' = present
  <2>1. /\ remote'.file[p] = 0 /\ (remote.dir => remote'.dir)
        /\ \A q \in Paths \ {p} : remote'.file[q] = remote.file[q]
    BY <1>1, <1>4, Typed, PutClears
  <2>2. Nested(remote)'
    BY <2>1, Constants DEF FolderInv, Trees, Nested
  <2> QED BY <1>1, <1>3, <1>4, <2>1, <2>2
<1>5. CASE Deleted(remote, local, Inside) /\ remote' = DropDir(remote) /\ present' = present
  <2>1. \A q \in Paths : remote'.file[q] = IF q \in Inside THEN 0 ELSE remote.file[q]
    BY <1>5, Typed, DropDirClears
  <2>2. Nested(remote)'
    BY <2>1, Constants DEF Nested
  <2> QED BY <1>1, <1>3, <1>5, <2>1, <2>2
<1> QED BY <1>2, <1>4, <1>5 DEF AgentEdits, Closed

\* The reaped copy takes along only what the computer does not have.
LEMMA StepReap ==
    ASSUME Closed, FolderInv, TypeOK', Reap
    PROVE  FolderInv'
<1>0. /\ \A s \in Tabs : tab[s].pc = "idle" /\ wire[s] = {}
      /\ UNCHANGED <<local, base, tab, wire, lease, edits>>
      /\ remote' = Nothing /\ present' = FALSE /\ retired \subseteq retired'
  BY DEF Closed, Reap, Quiet, Landed, server
<1>1. \A q \in Paths : remote'.file[q] = 0
  BY <1>0, NothingTyped
<1>2. \A q \in Paths : \/ remote.file[q] \in retired'
                       \/ \E r \in Paths : local.file[r] = remote.file[q]
  <2>1. DOMAIN local.file = Paths /\ DOMAIN remote.file = Paths
    BY Typed DEF Manifests
  <2>2. \A q \in Paths : remote.file[q] \in Range(remote.file)
    BY <2>1 DEF Range
  <2>3. \A v \in Range(local.file) : \E r \in Paths : local.file[r] = v
    BY <2>1 DEF Range
  <2>4. retired' = retired \cup (Range(remote.file) \ Range(local.file))
    BY DEF Reap
  <2> QED BY <2>2, <2>3, <2>4
<1>3. Trees'
  BY <1>0, <1>1, Constants DEF FolderInv, Trees, Nested
<1>4. Past'
  BY <1>0 DEF FolderInv, Past, Ancestor, Forgotten, Gone
<1>5. NothingLost'
  <2>1. \A q \in Paths : Kept(local.file[q]) /\ Kept(remote.file[q])
    BY <1>0, <1>2 DEF Kept, Gone
  <2> QED BY <1>0, <2>1, Survives DEF FolderInv
<1> QED BY <1>0, <1>3, <1>4, <1>5, BetweenSyncs

-----------------------------------------------------------------------------
(* The theorems.                                                           *)

LEMMA InitInv == Init => FolderInv
<1> SUFFICES ASSUME Init PROVE FolderInv
  OBVIOUS
<1>1. TypeOK
  BY InitTypeOK
<1>2. /\ \A p \in Paths : local.file[p] = 0 /\ remote.file[p] = 0 /\ base.file[p] = 0
      /\ edits = 0 /\ lease.of = NoTab
  BY NothingTyped DEF Init
<1>3. \A s \in Tabs : tab[s].pc = "idle" /\ tab[s].batch = {} /\ wire[s] = {}
  BY DEF Init, Idle
<1>4. Trees
  BY <1>2, Constants DEF Trees, Nested
<1>5. Past
  BY <1>2 DEF Past, Ancestor, Forgotten, Gone
<1>6. NothingLost
  BY <1>2 DEF NothingLost
<1>7. Lone
  BY <1>3 DEF Lone
<1>8. ASSUME NEW s \in Tabs PROVE Channel(s) /\ (lease.of = s => Owner(s))
  BY <1>2, <1>3, Constants DEF Channel
<1> QED BY <1>1, <1>4, <1>5, <1>6, <1>7, <1>8 DEF FolderInv

LEMMA StepInv == Closed /\ FolderInv /\ [Next]_vars => FolderInv'
<1> SUFFICES ASSUME Closed, FolderInv, [Next]_vars PROVE FolderInv'
  OBVIOUS
<1>1. TypeOK'
  BY StepTypeOK DEF FolderInv
<1>2. CASE \E p \in Files : PersonEdits(p) \/ AgentEdits(p)
  BY <1>1, <1>2, StepPerson, StepAgent
<1>3. CASE Reap \/ Lapse \/ \E s \in Tabs : Renew(s)
  BY <1>1, <1>3, StepReap, StepLease
<1>4. ASSUME NEW s \in Tabs, \/ Acquire(s) \/ LoadAncestor(s, FALSE) \/ Fail(s) \/ Close(s)
                             \/ \E w \in wire[s] : Land(s, w)
      PROVE  FolderInv'
  <2>1. CASE Acquire(s) \/ Fail(s) \/ Close(s)
    BY <1>1, <2>1, StepAcquire, StepEnd
  <2>2. CASE LoadAncestor(s, FALSE)
    BY <1>1, <2>2, StepLoad
  <2>3. CASE \E w \in wire[s] : Land(s, w)
    <3>1. PICK w \in wire[s] : Land(s, w)
      BY <2>3
    <3> QED BY <1>1, <3>1, LandUpload, LandDelete
  <2> QED BY <1>4, <2>1, <2>2, <2>3
<1>5. ASSUME NEW s \in Tabs, SyncStep(s) PROVE FolderInv'
  <2>1. CASE ScanLocal(s) \/ ServerTree(s) \/ LoadAncestor(s, TRUE)
    BY <1>1, <2>1, StepScan, StepList, StepLoad
  <2>2. CASE \E c \in tab[s].copy : KeepCopy(s, c)
    BY <1>1, <2>2, StepKeepCopy
  <2>3. CASE ReadBatch(s) \/ AcceptBatch(s) \/ Uploaded(s)
    BY <1>1, <2>3, StepReadBatch, StepAccept, StepUploaded
  <2>4. CASE \E p \in Paths : Download(s, p) \/ DeleteRemote(s, p) \/ DeleteLocal(s, p)
    BY <1>1, <2>4, StepDownload, StepDeleteRemote, StepDeleteLocal
  <2>5. CASE SyncDir(s) \/ Rewalk(s) \/ PutState(s) \/ Stop(s) \/ Release(s)
    BY <1>1, <2>5, StepSyncDir, StepRewalk, StepPut, StepEnd
  <2> QED BY <1>5, <2>1, <2>2, <2>3, <2>4, <2>5 DEF SyncStep
<1>6. CASE UNCHANGED vars
  BY <1>1, <1>6, StillStep DEF vars, server, history, SameFiles
<1> QED BY <1>2, <1>3, <1>4, <1>5, <1>6 DEF Next

\* THEOREM: with the windows of Closed shut, no version that a person or the
\* agent wrote disappears from both sides before someone who saw it replaced
\* or deleted it, whatever tabs race, are closed, lose their lease or fail.
THEOREM NothingIsLost ==
    ASSUME Closed
    PROVE  Spec => []NothingLost
<1>1. Init => FolderInv
  BY InitInv
<1>2. FolderInv /\ [Next]_vars => FolderInv'
  BY StepInv
<1>3. FolderInv => NothingLost
  BY DEF FolderInv
<1> QED BY <1>1, <1>2, <1>3, PTL DEF Spec

\* THEOREM: with those windows shut, an ancestor is stored only when the two
\* sides hold the same files, and it is what they hold.
THEOREM MergesAreReal ==
    ASSUME Closed
    PROVE  Spec => MergeIsReal
<1>1. Init => FolderInv
  BY InitInv
<1>2. FolderInv /\ [Next]_vars => FolderInv'
  BY StepInv
<1>3. FolderInv =>
        \A s \in Tabs : PutState(s) /\ rev' # rev =>
          \A p \in Paths : Shared(p) /\ base'.file[p] \in
             {0, local.file[p], remote.file[p]}
  <2> SUFFICES ASSUME FolderInv, NEW s \in Tabs, PutState(s), rev' # rev, NEW p \in Paths
               PROVE  Shared(p) /\ base'.file[p] \in {0, local.file[p], remote.file[p]}
    OBVIOUS
  <2>1. lease.of = s /\ tab[s].pc = "put" /\ base' = tab[s].merged
    BY DEF PutState, Guard, Holds
  <2> QED BY <2>1 DEF FolderInv, Owner
<1> QED BY <1>1, <1>2, <1>3, PTL DEF Spec, MergeIsReal

=============================================================================
