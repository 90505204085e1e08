------------------------ MODULE SandboxSessionsProofs ------------------------
(***************************************************************************)
(* What is proved of SandboxSessions, for any number of requests, specs    *)
(* and containers, any horizon and any TTLs.                               *)
(***************************************************************************)
EXTENDS SandboxSessions, TLAPS

Pending(r) == req[r].pc \in {"clear", "stop", "create", "record"}

\* No handle is from the future, and requests inside the lock are the one that holds it.
Counted == /\ exec.pc = "start" => exec.h # 0
           /\ box.id <= made /\ row.handle <= made /\ exec.h <= made
           /\ idle.h <= made /\ gc.h <= made
           /\ \A r \in Requests : req[r].h <= made

Locked == \A r \in Requests : Pending(r) <=> lock = r

\* A container made and not yet recorded is under the name, and only its request knows
\* its handle: no sweep, collector, exec or row can name it.
Unshared == \A r \in Requests : req[r].pc = "record" =>
                /\ req[r].h # 0 /\ box.id = req[r].h /\ box.spec = req[r].spec
                /\ req[r].h \notin {row.handle, idle.h, gc.h}

BoxInv == TypeOK /\ Counted /\ Locked /\ Unshared /\ SpecHonoured

-----------------------------------------------------------------------------
\* Cached activity is of this instant; what the row says is never of a later one.
Timely == /\ cache # None => cache = now
          /\ row.last <= now /\ used <= now /\ gc.seen <= now

\* A use of the files is in the row, or in the cache on its way there.
Accounted == row.there => used <= row.last \/ cache = now

\* The collector's pass begins with a flush: the row knows every use before it.
PassKnown == row.there => gc.seen <= row.last

\* Without a row and without an exec that dropped it, the files are out of their TTL
\* and no command is on its way to them.
Abandoned == ~row.there /\ ~dropped =>
                /\ gc.pc \in {"read", "orphan"} => now - gc.seen > TTL
                /\ gc.pc # "remove" => /\ now - used > TTL
                                       /\ disk.there /\ exec.pc = "start" => exec.h # box.id

\* From its decision on, the collector is right about what it saw as its pass began.
Judged == gc.pc \in {"destroy", "delete", "recheck", "remove"} => now - gc.seen > TTL

ReapInv == Timely /\ Accounted /\ PassKnown /\ Abandoned /\ Judged

-----------------------------------------------------------------------------
(* Types.                                                                  *)

LEMMA Bounds == /\ 0 \in Handles /\ 1 \in Handles /\ 0 \in Instants
                /\ Handles \subseteq Nat /\ Instants \subseteq Nat
                /\ None \in Nat /\ None \notin Instants
                /\ \A t \in Instants : t < Horizon => t + 1 \in Instants
                /\ \A h \in Handles : h < MaxBoxes => h + 1 \in Handles
BY SandboxAssumption DEF Handles, Instants, None

LEMMA InitTypeOK == Init => TypeOK
<1> SUFFICES ASSUME Init PROVE TypeOK
  OBVIOUS
<1>1. PICK s \in Specs : /\ row = [there |-> TRUE, handle |-> 1, spec |-> s, last |-> 0]
                         /\ box = [id |-> 1, spec |-> s, up |-> TRUE]
  BY DEF Init
<1>2. row \in Row
  BY <1>1, Bounds DEF Row
<1>3. box \in [id: Handles, spec: Specs \cup {NoSpec}, up: BOOLEAN]
  BY <1>1, Bounds
<1> QED BY <1>2, <1>3, Bounds DEF Init, TypeOK, Quiet, Resting, NoRequest

LEMMA StepTypeOK == TypeOK /\ [Next]_vars => TypeOK'
<1> SUFFICES ASSUME TypeOK, [Next]_vars PROVE TypeOK'
  OBVIOUS
<1> USE DEF TypeOK, Row, history
<1>1. CASE TimePasses
  BY <1>1, Bounds DEF TimePasses
<1>2. CASE SweepBegin
  BY <1>2, Bounds DEF SweepBegin, Flushed, Quiet
<1>3. CASE SweepRead
  <2>1. Quiet \in [pc: {"idle", "read", "destroy", "stop"}, h: Handles]
    BY Bounds DEF Quiet
  <2>2. [Quiet EXCEPT !.pc = "destroy", !.h = row.handle] \in [pc: {"idle", "read", "destroy", "stop"}, h: Handles]
    BY DEF Quiet
  <2> QED BY <1>3, <2>1, <2>2 DEF SweepRead
<1>4. CASE Evict
  <2>1. [Quiet EXCEPT !.pc = "destroy", !.h = row.handle] \in [pc: {"idle", "read", "destroy", "stop"}, h: Handles]
    BY DEF Quiet
  <2> QED BY <1>4, <2>1 DEF Evict
<1>5. CASE SweepDestroy
  BY <1>5, Bounds DEF SweepDestroy, Removed
<1>6. CASE SweepStop
  BY <1>6, Bounds DEF SweepStop, Stopped, Quiet
<1>7. CASE GcBegin
  BY <1>7, Bounds DEF GcBegin, Flushed, Resting
<1>8. CASE GcRead
  <2> DEFINE Gc == [pc: {"idle", "read", "destroy", "delete", "orphan", "recheck", "remove"},
                    h: Handles, seen: Instants]
  <2>1. [gc EXCEPT !.pc = "destroy", !.h = row.handle] \in Gc
    OBVIOUS
  <2>2. [gc EXCEPT !.pc = "orphan"] \in Gc
    OBVIOUS
  <2> QED BY <1>8, <2>1, <2>2 DEF GcRead
<1>9. CASE GcDestroy
  BY <1>9, Bounds DEF GcDestroy, Removed
<1>10. CASE GcDelete
  BY <1>10, Bounds DEF GcDelete, Dropped
<1>11. CASE GcOrphan
  BY <1>11, Bounds DEF GcOrphan, Resting
<1>12. CASE GcRecheck
  BY <1>12, Bounds DEF GcRecheck, Resting
<1>13. CASE GcRemove
  BY <1>13, Bounds DEF GcRemove, Resting
<1>14. CASE ExecReads
  BY <1>14, Bounds DEF ExecReads
<1>15. CASE ExecRuns
  BY <1>15, Bounds DEF ExecRuns
<1>16. CASE Invalidate
  BY <1>16, Bounds DEF Invalidate, Dropped
<1>17. CASE FileOp
  BY <1>17, Bounds DEF FileOp, Touch
<1>18. CASE BoxDies
  <2>1. [box EXCEPT !.up = FALSE] \in [id: Handles, spec: Specs \cup {NoSpec}, up: BOOLEAN]
    OBVIOUS
  <2> QED BY <1>18, <2>1 DEF BoxDies
<1>19. CASE Crash
  BY <1>19, Bounds DEF Crash, Restart, Reconciled, Removed, NoRequest, Quiet, Resting, Condemned
<1>20. CASE Shutdown
  BY <1>20, Bounds
    DEF Shutdown, Restart, Reconciled, Removed, Flushed, NoRequest, Quiet, Resting, Condemned
<1>21. ASSUME NEW r \in Requests, RequestStep(r) PROVE TypeOK'
  <2> DEFINE Calls == [pc: {"idle", "wait", "clear", "stop", "create", "record"},
                       spec: Specs \cup {NoSpec}, h: Handles]
  <2>a. req \in [Requests -> Calls] /\ req[r] \in Calls /\ NoRequest \in Calls
    BY Bounds DEF NoRequest
  <2>b. Ensured \in [there: BOOLEAN, mtime: Instants]
    BY DEF Ensured
  <2>1. CASE LockAndRead(r)
    <3> DEFINE c == [req[r] EXCEPT !.pc = IF row.there /\ row.handle # 0 THEN "clear" ELSE "create",
                                   !.h = row.handle]
    <3>1. c \in Calls
      BY <2>a
    <3>2. CASE row.there /\ row.handle # 0 /\ SameSpec(req[r].spec)
      BY <2>1, <2>a, <2>b, <3>2 DEF LockAndRead, Touch, Answer
    <3>3. CASE ~(row.there /\ row.handle # 0 /\ SameSpec(req[r].spec))
      <4>1. req' = [req EXCEPT ![r] = c]
        BY <2>1, <2>a, <3>3 DEF LockAndRead
      <4>2. req' \in [Requests -> Calls]
        BY <4>1, <3>1, <2>a
      <4> QED BY <2>1, <3>3, <4>2 DEF LockAndRead
    <3> QED BY <3>2, <3>3
  <2>2. CASE Clear(r)
    <3>1. [req[r] EXCEPT !.pc = "stop", !.h = 0] \in Calls
      BY <2>a, Bounds
    <3>2. req' \in [Requests -> Calls]
      BY <2>2, <2>a, <3>1 DEF Clear
    <3>3. box' \in [id: Handles, spec: Specs \cup {NoSpec}, up: BOOLEAN]
      BY <2>2, Bounds DEF Clear, Removed
    <3> QED BY <2>2, <3>2, <3>3 DEF Clear
  <2>3. CASE ClearRow(r)
    BY <2>3, Bounds DEF ClearRow, Stopped
  <2>4. CASE Create(r)
    <3>1. made + 1 \in Handles
      BY <2>4, Bounds DEF Create
    <3>2. [req[r] EXCEPT !.pc = "record", !.h = made + 1] \in Calls
      BY <2>a, <3>1
    <3>3. req' \in [Requests -> Calls]
      BY <2>4, <2>a, <3>2 DEF Create
    <3>4. box' \in [id: Handles, spec: Specs \cup {NoSpec}, up: BOOLEAN]
      BY <2>4, <2>a, <3>1 DEF Create
    <3> QED BY <2>4, <2>b, <3>1, <3>3, <3>4 DEF Create
  <2>5. CASE CreateFails(r)
    BY <2>5, Bounds DEF CreateFails, Answer, NoRequest
  <2>6. CASE Record(r)
    BY <2>6, Bounds DEF Record, Answer, NoRequest
  <2>7. CASE \E s \in Specs : Reuse(r, s)
    BY <2>7, Bounds DEF Reuse, Touch, Ensured
  <2>8. CASE \E s \in Specs : Arrive(r, s)
    BY <2>8, Bounds DEF Arrive
  <2> QED BY <1>21, <2>1, <2>2, <2>3, <2>4, <2>5, <2>6, <2>7, <2>8 DEF RequestStep
<1>22. CASE UNCHANGED vars
  BY <1>22 DEF vars
<1> QED BY <1>1, <1>2, <1>3, <1>4, <1>5, <1>6, <1>7, <1>8, <1>9, <1>10, <1>11, <1>12, <1>13,
     <1>14, <1>15, <1>16, <1>17, <1>18, <1>19, <1>20, <1>21, <1>22 DEF Next, Job

\* The controller's tables, jobs and requests stay within their types.
THEOREM SandboxTypes == Spec => []TypeOK
<1> QED BY InitTypeOK, StepTypeOK, PTL DEF Spec

-----------------------------------------------------------------------------
(* The container of the name.                                              *)

LEMMA InitBoxInv == Init => BoxInv
<1> SUFFICES ASSUME Init PROVE BoxInv
  OBVIOUS
<1>1. TypeOK
  BY InitTypeOK
<1> QED BY <1>1, SandboxAssumption
     DEF Init, BoxInv, Counted, Locked, Unshared, SpecHonoured, Pending, Quiet, Resting, NoRequest

LEMMA StepBoxInv == BoxInv /\ [Next]_vars => BoxInv'
<1> SUFFICES ASSUME BoxInv, [Next]_vars PROVE BoxInv'
  OBVIOUS
<1> USE DEF history
<1>a. TypeOK /\ TypeOK'
  BY StepTypeOK DEF BoxInv
<1>b. /\ made \in Nat /\ box.id \in Nat /\ row.handle \in Nat /\ exec.h \in Nat
      /\ idle.h \in Nat /\ gc.h \in Nat /\ \A r \in Requests : req[r].h \in Nat
  BY <1>a, Bounds DEF TypeOK, Row
<1>c. /\ row \in Row /\ box \in [id: Handles, spec: Specs \cup {NoSpec}, up: BOOLEAN]
      /\ exec \in [pc: {"idle", "start", "gone"}, h: Handles]
      /\ idle \in [pc: {"idle", "read", "destroy", "stop"}, h: Handles]
      /\ gc \in [pc: {"idle", "read", "destroy", "delete", "orphan", "recheck", "remove"},
                 h: Handles, seen: Instants]
  BY <1>a DEF TypeOK
<1>d. Counted /\ Locked /\ Unshared /\ SpecHonoured
  BY DEF BoxInv
<1> SUFFICES Counted' /\ Locked' /\ Unshared' /\ SpecHonoured'
  BY <1>a DEF BoxInv
<1>1. CASE TimePasses
  BY <1>1, <1>b, <1>c, <1>d, SandboxAssumption
    DEF TimePasses, Counted, Locked, Unshared, SpecHonoured, Pending, Row
<1>2. CASE SweepBegin
  BY <1>2, <1>b, <1>c, <1>d, SandboxAssumption
    DEF SweepBegin, Flushed, Quiet, Counted, Locked, Unshared, SpecHonoured, Pending, Row
<1>3. CASE SweepRead
  BY <1>3, <1>b, <1>c, <1>d, SandboxAssumption
    DEF SweepRead, Quiet, Counted, Locked, Unshared, SpecHonoured, Pending, Row
<1>4. CASE Evict
  BY <1>4, <1>b, <1>c, <1>d, SandboxAssumption
    DEF Evict, Quiet, Counted, Locked, Unshared, SpecHonoured, Pending, Row
<1>5. CASE SweepDestroy
  BY <1>5, <1>b, <1>c, <1>d, SandboxAssumption
    DEF SweepDestroy, Removed, Counted, Locked, Unshared, SpecHonoured, Pending, Row
<1>6. CASE SweepStop
  BY <1>6, <1>b, <1>c, <1>d, SandboxAssumption
    DEF SweepStop, Stopped, Quiet, Counted, Locked, Unshared, SpecHonoured, Pending, Row
<1>7. CASE GcBegin
  BY <1>7, <1>b, <1>c, <1>d, SandboxAssumption
    DEF GcBegin, Flushed, Resting, Counted, Locked, Unshared, SpecHonoured, Pending, Row
<1>8. CASE GcRead
  BY <1>8, <1>b, <1>c, <1>d, SandboxAssumption
    DEF GcRead, Counted, Locked, Unshared, SpecHonoured, Pending, Row
<1>9. CASE GcDestroy
  BY <1>9, <1>b, <1>c, <1>d, SandboxAssumption
    DEF GcDestroy, Removed, Counted, Locked, Unshared, SpecHonoured, Pending, Row
<1>10. CASE GcDelete
  BY <1>10, <1>b, <1>c, <1>d, SandboxAssumption
    DEF GcDelete, Dropped, Counted, Locked, Unshared, SpecHonoured, Pending, Row
<1>11. CASE GcOrphan
  BY <1>11, <1>b, <1>c, <1>d, SandboxAssumption
    DEF GcOrphan, Resting, Counted, Locked, Unshared, SpecHonoured, Pending, Row
<1>12. CASE GcRecheck
  BY <1>12, <1>b, <1>c, <1>d, SandboxAssumption
    DEF GcRecheck, Resting, Counted, Locked, Unshared, SpecHonoured, Pending, Row
<1>13. CASE GcRemove
  BY <1>13, <1>b, <1>c, <1>d, SandboxAssumption
    DEF GcRemove, Resting, Counted, Locked, Unshared, SpecHonoured, Pending, Row
<1>14. CASE ExecReads
  BY <1>14, <1>b, <1>c, <1>d, SandboxAssumption
    DEF ExecReads, Counted, Locked, Unshared, SpecHonoured, Pending, Row
<1>15. CASE ExecRuns
  BY <1>15, <1>b, <1>c, <1>d, SandboxAssumption
    DEF ExecRuns, Counted, Locked, Unshared, SpecHonoured, Pending, Row
<1>16. CASE Invalidate
  BY <1>16, <1>b, <1>c, <1>d, SandboxAssumption
    DEF Invalidate, Dropped, Counted, Locked, Unshared, SpecHonoured, Pending, Row
<1>17. CASE FileOp
  BY <1>17, <1>b, <1>c, <1>d, SandboxAssumption
    DEF FileOp, Touch, Counted, Locked, Unshared, SpecHonoured, Pending, Row
<1>18. CASE BoxDies
  BY <1>18, <1>b, <1>c, <1>d, SandboxAssumption
    DEF BoxDies, Counted, Locked, Unshared, SpecHonoured, Pending, Row
<1>19. CASE Crash
  BY <1>19, <1>b, <1>c, <1>d, SandboxAssumption
    DEF Crash, Restart, Reconciled, Removed, NoRequest, Quiet, Resting, Counted, Locked,
       Unshared, SpecHonoured, Pending, Row
<1>20. CASE Shutdown
  BY <1>20, <1>b, <1>c, <1>d, SandboxAssumption
    DEF Shutdown, Restart, Reconciled, Removed, Flushed, NoRequest, Quiet, Resting, Counted,
       Locked, Unshared, SpecHonoured, Pending, Row
<1>21. ASSUME NEW r \in Requests, RequestStep(r) PROVE Counted' /\ Locked' /\ Unshared' /\ SpecHonoured'
  <2>a. req \in [Requests -> [pc: {"idle", "wait", "clear", "stop", "create", "record"},
                              spec: Specs \cup {NoSpec}, h: Handles]]
    BY <1>a DEF TypeOK
  <2>1. CASE LockAndRead(r)
    BY <2>1, <2>a, <1>b, <1>c, <1>d, SandboxAssumption
      DEF LockAndRead, Touch, Answer, NoRequest, Counted, Locked, Unshared, SpecHonoured,
         Pending, Row, Free
  <2>2. CASE Clear(r)
    BY <2>2, <2>a, <1>b, <1>c, <1>d, SandboxAssumption
      DEF Clear, Removed, Counted, Locked, Unshared, SpecHonoured, Pending, Row
  <2>3. CASE ClearRow(r)
    BY <2>3, <2>a, <1>b, <1>c, <1>d, SandboxAssumption
      DEF ClearRow, Stopped, Counted, Locked, Unshared, SpecHonoured, Pending, Row
  <2>4. CASE Create(r)
    BY <2>4, <2>a, <1>b, <1>c, <1>d, SandboxAssumption
      DEF Create, Counted, Locked, Unshared, SpecHonoured, Pending, Row
  <2>5. CASE CreateFails(r)
    BY <2>5, <2>a, <1>b, <1>c, <1>d, SandboxAssumption
      DEF CreateFails, Answer, NoRequest, Counted, Locked, Unshared, SpecHonoured, Pending, Row
  <2>6. CASE Record(r)
    BY <2>6, <2>a, <1>b, <1>c, <1>d, SandboxAssumption
      DEF Record, Answer, NoRequest, Counted, Locked, Unshared, SpecHonoured, Pending, Row
  <2>7. CASE \E s \in Specs : Reuse(r, s)
    BY <2>7, <2>a, <1>b, <1>c, <1>d, SandboxAssumption
      DEF Reuse, Touch, Counted, Locked, Unshared, SpecHonoured, Pending, Row
  <2>8. CASE \E s \in Specs : Arrive(r, s)
    BY <2>8, <2>a, <1>b, <1>c, <1>d, SandboxAssumption
      DEF Arrive, Counted, Locked, Unshared, SpecHonoured, Pending, Row
  <2> QED BY <1>21, <2>1, <2>2, <2>3, <2>4, <2>5, <2>6, <2>7, <2>8 DEF RequestStep
<1>22. CASE UNCHANGED vars
  BY <1>22, <1>d DEF vars, Counted, Locked, Unshared, SpecHonoured, Pending
<1> QED BY <1>1, <1>2, <1>3, <1>4, <1>5, <1>6, <1>7, <1>8, <1>9, <1>10, <1>11, <1>12, <1>13,
     <1>14, <1>15, <1>16, <1>17, <1>18, <1>19, <1>20, <1>21, <1>22 DEF Next, Job

\* A container made and not yet recorded is never taken away: neither another create nor
\* the sweep, the collector or an eviction removes what a request is about to record.
THEOREM NothingStolen == Spec => []NotStolen
<1>1. BoxInv => NotStolen
  BY DEF BoxInv, Unshared, NotStolen
<1> QED BY <1>1, InitBoxInv, StepBoxInv, PTL DEF Spec

\* The container a row names was built with the mounts and the network the row states,
\* whatever creates, sweeps, crashes and reconciles come between.
THEOREM SpecKept == Spec => []SpecHonoured
<1>1. BoxInv => SpecHonoured
  BY DEF BoxInv
<1> QED BY <1>1, InitBoxInv, StepBoxInv, PTL DEF Spec

-----------------------------------------------------------------------------
(* The files.                                                              *)

LEMMA InitReapInv == Init => ReapInv
BY SandboxAssumption, Bounds
  DEF Init, ReapInv, Timely, Accounted, PassKnown, Abandoned, Judged, Resting

\* The collector looks at a dropped session only once it is back: without that, the
\* orphan branch judges files whose last use no row remembers.
LEMMA StepReapInv ==
  ASSUME ~LateRevive
  PROVE  BoxInv /\ ReapInv /\ [Next]_vars => ReapInv'
<1> SUFFICES ASSUME BoxInv, ReapInv, [Next]_vars PROVE ReapInv'
  OBVIOUS
<1> USE DEF history
<1>a. TypeOK /\ TypeOK'
  BY StepTypeOK DEF BoxInv
<1>b. /\ made \in Nat /\ box.id \in Nat /\ exec.h \in Nat /\ row.last \in Nat /\ gc.seen \in Nat
      /\ now \in Nat /\ used \in Nat /\ TTL \in Nat /\ now # None
  BY <1>a, Bounds, SandboxAssumption DEF TypeOK, Row
<1>c. /\ row \in Row /\ box \in [id: Handles, spec: Specs \cup {NoSpec}, up: BOOLEAN]
      /\ exec \in [pc: {"idle", "start", "gone"}, h: Handles]
      /\ gc \in [pc: {"idle", "read", "destroy", "delete", "orphan", "recheck", "remove"},
                 h: Handles, seen: Instants]
      /\ disk \in [there: BOOLEAN, mtime: Instants]
  BY <1>a DEF TypeOK
<1>d. Timely /\ Accounted /\ PassKnown /\ Abandoned /\ Judged
  BY DEF ReapInv
<1>e. box.id <= made /\ exec.h <= made /\ (exec.pc = "start" => exec.h # 0)
  BY DEF BoxInv, Counted
<1> SUFFICES Timely' /\ Accounted' /\ PassKnown' /\ Abandoned' /\ Judged'
  BY DEF ReapInv
<1>1. CASE TimePasses
  BY <1>1, <1>b, <1>c, <1>d, <1>e
    DEF TimePasses, Timely, Accounted, PassKnown, Abandoned, Judged, Row
<1>2. CASE SweepBegin
  BY <1>2, <1>b, <1>c, <1>d, <1>e
    DEF SweepBegin, Flushed, Quiet, Timely, Accounted, PassKnown, Abandoned, Judged, Row
<1>3. CASE SweepRead
  BY <1>3, <1>b, <1>c, <1>d, <1>e
    DEF SweepRead, Quiet, Timely, Accounted, PassKnown, Abandoned, Judged, Row
<1>4. CASE Evict
  BY <1>4, <1>b, <1>c, <1>d, <1>e
    DEF Evict, Quiet, Timely, Accounted, PassKnown, Abandoned, Judged, Row
<1>5. CASE SweepDestroy
  BY <1>5, <1>b, <1>c, <1>d, <1>e
    DEF SweepDestroy, Removed, Timely, Accounted, PassKnown, Abandoned, Judged, Row
<1>6. CASE SweepStop
  BY <1>6, <1>b, <1>c, <1>d, <1>e
    DEF SweepStop, Stopped, Quiet, Timely, Accounted, PassKnown, Abandoned, Judged, Row
<1>7. CASE GcBegin
  BY <1>7, <1>b, <1>c, <1>d, <1>e
    DEF GcBegin, Flushed, Resting, Timely, Accounted, PassKnown, Abandoned, Judged, Row
<1>8. CASE GcRead
  BY <1>8, <1>b, <1>c, <1>d, <1>e
    DEF GcRead, Stale, Timely, Accounted, PassKnown, Abandoned, Judged, Row
<1>9. CASE GcDestroy
  BY <1>9, <1>b, <1>c, <1>d, <1>e
    DEF GcDestroy, Removed, Timely, Accounted, PassKnown, Abandoned, Judged, Row
<1>10. CASE GcDelete
  BY <1>10, <1>b, <1>c, <1>d, <1>e
    DEF GcDelete, Dropped, Timely, Accounted, PassKnown, Abandoned, Judged, Row
<1>11. CASE GcOrphan
  BY <1>11, <1>b, <1>c, <1>d, <1>e
    DEF GcOrphan, Resting, Timely, Accounted, PassKnown, Abandoned, Judged, Row
<1>12. CASE GcRecheck
  BY <1>12, <1>b, <1>c, <1>d, <1>e
    DEF GcRecheck, Resting, Timely, Accounted, PassKnown, Abandoned, Judged, Row
<1>13. CASE GcRemove
  BY <1>13, <1>b, <1>c, <1>d, <1>e
    DEF GcRemove, Resting, Timely, Accounted, PassKnown, Abandoned, Judged, Row
<1>14. CASE ExecReads
  BY <1>14, <1>b, <1>c, <1>d, <1>e
    DEF ExecReads, Timely, Accounted, PassKnown, Abandoned, Judged, Row
<1>15. CASE ExecRuns
  BY <1>15, <1>b, <1>c, <1>d, <1>e
    DEF ExecRuns, Timely, Accounted, PassKnown, Abandoned, Judged, Row
<1>16. CASE Invalidate
  BY <1>16, <1>b, <1>c, <1>d, <1>e
    DEF Invalidate, Dropped, Timely, Accounted, PassKnown, Abandoned, Judged, Row
<1>17. CASE FileOp
  BY <1>17, <1>b, <1>c, <1>d, <1>e
    DEF FileOp, Touch, Timely, Accounted, PassKnown, Abandoned, Judged, Row
<1>18. CASE BoxDies
  BY <1>18, <1>b, <1>c, <1>d, <1>e DEF BoxDies, Timely, Accounted, PassKnown, Abandoned, Judged, Row
<1>19. CASE Crash
  BY <1>19, <1>b, <1>c, <1>d, <1>e
    DEF Crash, Restart, Reconciled, Removed, NoRequest, Quiet, Resting, Condemned, Timely,
       Accounted, PassKnown, Abandoned, Judged, Row
<1>20. CASE Shutdown
  BY <1>20, <1>b, <1>c, <1>d, <1>e
    DEF Shutdown, Restart, Reconciled, Removed, Flushed, NoRequest, Quiet, Resting, Condemned,
       Timely, Accounted, PassKnown, Abandoned, Judged, Row
<1>21. ASSUME NEW r \in Requests, RequestStep(r) PROVE Timely' /\ Accounted' /\ PassKnown' /\ Abandoned' /\ Judged'
  <2>1. CASE LockAndRead(r)
    BY <2>1, <1>b, <1>c, <1>d, <1>e
      DEF LockAndRead, Touch, Answer, NoRequest, Ensured, Timely, Accounted, PassKnown,
         Abandoned, Judged, Row
  <2>2. CASE Clear(r)
    BY <2>2, <1>b, <1>c, <1>d, <1>e
      DEF Clear, Removed, Timely, Accounted, PassKnown, Abandoned, Judged, Row
  <2>3. CASE ClearRow(r)
    BY <2>3, <1>b, <1>c, <1>d, <1>e
      DEF ClearRow, Stopped, Timely, Accounted, PassKnown, Abandoned, Judged, Row
  <2>4. CASE Create(r)
    BY <2>4, <1>b, <1>c, <1>d, <1>e
      DEF Create, Ensured, Timely, Accounted, PassKnown, Abandoned, Judged, Row
  <2>5. CASE CreateFails(r)
    BY <2>5, <1>b, <1>c, <1>d, <1>e
      DEF CreateFails, Answer, NoRequest, Timely, Accounted, PassKnown, Abandoned, Judged, Row
  <2>6. CASE Record(r)
    BY <2>6, <1>b, <1>c, <1>d, <1>e
      DEF Record, Answer, NoRequest, Timely, Accounted, PassKnown, Abandoned, Judged, Row
  <2>7. CASE \E s \in Specs : Reuse(r, s)
    BY <2>7, <1>b, <1>c, <1>d, <1>e
      DEF Reuse, Touch, Ensured, Timely, Accounted, PassKnown, Abandoned, Judged, Row
  <2>8. CASE \E s \in Specs : Arrive(r, s)
    BY <2>8, <1>b, <1>c, <1>d, <1>e DEF Arrive, Timely, Accounted, PassKnown, Abandoned, Judged, Row
  <2> QED BY <1>21, <2>1, <2>2, <2>3, <2>4, <2>5, <2>6, <2>7, <2>8 DEF RequestStep
<1>22. CASE UNCHANGED vars
  BY <1>22, <1>d DEF vars, Timely, Accounted, PassKnown, Abandoned, Judged
<1> QED BY <1>1, <1>2, <1>3, <1>4, <1>5, <1>6, <1>7, <1>8, <1>9, <1>10, <1>11, <1>12, <1>13,
     <1>14, <1>15, <1>16, <1>17, <1>18, <1>19, <1>20, <1>21, <1>22 DEF Next, Job

\* Whatever jobs, requests, crashes and restarts interleave, a workspace is removed only
\* if nobody had used it for the TTL as the collector's pass began, provided that the
\* collector does not look while a row an exec dropped is still to be recreated.
THEOREM FilesSafe ==
  ASSUME ~LateRevive
  PROVE  Spec => FilesKept
<1> DEFINE Inv == BoxInv /\ ReapInv
           Kept == disk.there /\ ~disk'.there => now - gc.seen > TTL
<1>1. Init => Inv
  BY InitBoxInv, InitReapInv
<1>2. Inv /\ [Next]_vars => Inv'
  BY StepBoxInv, StepReapInv
<1>3. Inv /\ [Next]_vars => [Kept]_vars
  <2> SUFFICES ASSUME Inv, [Next]_vars, disk.there, ~disk'.there PROVE now - gc.seen > TTL
    OBVIOUS
  <2>1. disk \in [there: BOOLEAN, mtime: Instants]
    BY DEF BoxInv, TypeOK
  <2>2. gc.pc = "remove"
    BY <2>1 DEF Next, Job, vars, TimePasses, SweepBegin, SweepRead, Evict, SweepDestroy, SweepStop,
         GcBegin, GcRead, GcDestroy, GcDelete, GcOrphan, GcRecheck, GcRemove, ExecReads, ExecRuns,
         Invalidate, FileOp, BoxDies, Crash, Shutdown, Restart, RequestStep, LockAndRead, Clear,
         ClearRow, Create, CreateFails, Record, Reuse, Arrive, Ensured
  <2> QED BY <2>2 DEF ReapInv, Judged
<1> QED BY <1>1, <1>2, <1>3, PTL DEF Spec, FilesKept
=============================================================================
