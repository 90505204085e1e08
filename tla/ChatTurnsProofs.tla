--------------------------- MODULE ChatTurnsProofs ---------------------------
(***************************************************************************)
(* Proofs about ChatTurns for any number of messages.                      *)
(*                                                                         *)
(* ShapeInv is what every step keeps of the message tree and of the names  *)
(* the leaf, the queue, the run and the send hold; it does not look at     *)
(* branches.  The three invariants on top of it do not depend on one       *)
(* another but for the last: DecisionInv (no decision is orphaned), CardInv*)
(* (no card is left behind a reply) and WordsInv with Owed (no words are   *)
(* lost or left unanswered).  The last three speak of branches; the lemmas *)
(* on Path show first that the recursion has a solution and then, by least *)
(* counterexample, how an insert changes it.                               *)
(***************************************************************************)
EXTENDS ChatTurns, WellFoundedInduction, TLAPS

-----------------------------------------------------------------------------
(* The invariants.                                                         *)

\* The types of the rows; excused, a history variable, needs Path.
RowTypes ==
    /\ role \in [Msgs -> {"none", "user", "assistant"}]
    /\ parent \in [Msgs -> Ids]
    /\ card \in [Msgs -> {"none", "running", "waiting", "decided", "done", "broken"}]
    /\ leaf \in Ids
    /\ queued \in Task
    /\ run \in [pc: {"idle", "claimed", "absorb", "insert", "point", "context", "streaming"},
                kind: {"none", "fresh", "resume"}, at: Ids, reply: Ids]
    /\ send \in [pc: {"idle", "read", "inserted", "saved"}, at: Ids, waits: BOOLEAN, msg: Ids]

\* Rows are inserted in order, each under an older one.
Tree ==
    \A m \in Msgs :
        /\ parent[m] < m
        /\ role[m] = "none" => parent[m] = 0 /\ card[m] = "none"
        /\ parent[m] # 0 => role[parent[m]] # "none"
        /\ \A n \in Msgs : m < n /\ role[m] = "none" => role[n] = "none"

Exists(m) == m = 0 \/ role[m] # "none"
IsReply(m) == m \in Msgs /\ role[m] = "assistant"
IsUser(m) == m \in Msgs /\ role[m] = "user"

\* A queued fresh turn answers a user message, a continuation finishes a reply.
Named ==
    /\ Exists(leaf) /\ Exists(send.at)
    /\ queued.kind = "none" => queued.at = 0
    /\ queued.kind = "fresh" => IsUser(queued.at)
    /\ queued.kind = "resume" => IsReply(queued.at)

\* So does the run; its reply exists from the insert on, under the message it answers.
RunNamed ==
    /\ run.pc = "idle" => run = NoRun
    /\ run.pc # "idle" => run.kind # "none"
    /\ run.kind = "fresh" =>
         /\ IsUser(run.at)
         /\ run.pc \in {"claimed", "absorb", "insert"} => run.reply = 0
         /\ run.pc \in {"point", "context", "streaming"} =>
              IsReply(run.reply) /\ parent[run.reply] = run.at
    /\ run.kind = "resume" =>
         IsReply(run.at) /\ run.reply = run.at /\ run.pc \in {"claimed", "streaming"}

\* What a send has done so far.
SendNamed ==
    /\ send.pc = "idle" => send = NoSend
    /\ send.waits => send.at \in Msgs
    /\ send.pc \in {"inserted", "saved"} => IsUser(send.msg)
    /\ send.pc = "inserted" => parent[send.msg] = send.at

\* Only replies carry a card, and a reply stands under a user message.
Replies ==
    \A m \in Msgs :
        /\ card[m] # "none" => role[m] = "assistant"
        /\ role[m] = "assistant" => IsUser(parent[m])

\* Nothing is below a message that was inserted and not yet made the leaf, nor below a
\* reply that is the leaf, but for such a message.
Loose ==
    send.pc = "inserted" =>
        /\ \A n \in Msgs : parent[n] # send.msg
        /\ send.msg \notin {leaf, queued.at, run.at}
Unpointed ==
    run.pc = "point" =>
        /\ \A n \in Msgs : parent[n] # run.reply
        /\ run.reply \notin {leaf, send.at}
LeafFree ==
    IsReply(leaf) => \A n \in Msgs : parent[n] = leaf => send.pc = "inserted" /\ n = send.msg

ShapeInv ==
    /\ RowTypes /\ Tree /\ Named /\ RunNamed /\ SendNamed
    /\ Replies /\ Loose /\ Unpointed /\ LeafFree

\* The two sides of NoOrphanDecision: Absorb, which deletes whatever is queued, runs
\* only while the leaf is a user message, and a continuation is queued only while it is
\* a reply.
AbsorbAtUser == run.pc = "absorb" => IsUser(leaf)
ResumeAtReply == queued.kind = "resume" => send.pc = "idle" /\ IsReply(leaf)
DecisionInv == AbsorbAtUser /\ ResumeAtReply /\ NoOrphanDecision

\* The reply that streams has no waiting card behind it, and no reply that ran stands
\* below one that runs or is about to be resumed.
Ran(n) == card[n] \in {"waiting", "decided", "done"}
CleanBehind == run.pc = "streaming" => \A m \in Path[parent[run.reply]] : card[m] # "waiting"
NoneBelowRun == run.reply # 0 => \A n \in Msgs : Ran(n) => run.reply \notin Path[parent[n]]
NoneBelowQueued ==
    queued.kind = "resume" => \A n \in Msgs : Ran(n) => queued.at \notin Path[parent[n]]
Apart ==
    queued.kind = "resume" =>
        /\ run.reply # 0 => queued.at \notin Path[parent[run.reply]]
        /\ run.kind = "fresh" /\ run.pc \in {"claimed", "insert"} => queued.at \notin Path[run.at]

CardInv == NoCardBehindReply /\ CleanBehind /\ NoneBelowRun /\ NoneBelowQueued /\ Apart

\* The leaf leaves the branch a send read, or a reply being set up answers, only for a
\* reply; so what is on its path and not answered stays there.
SendOnBranch == send.pc \in {"read", "inserted"} => leaf = send.at \/ IsReply(leaf)
SetupOnBranch ==
    run.pc \in {"absorb", "insert", "point"} => leaf = 0 \/ leaf = run.at \/ IsReply(leaf)
Shown ==
    \A u \in Users :
        Answered(u) \/ u \in Path[leaf] \/ (send.pc = "inserted" /\ u = send.msg)
WordsInv == SendOnBranch /\ SetupOnBranch /\ Shown

\* Who is going to answer a message, or to see that somebody does.
Due(u) ==
    \/ /\ u \in Path[leaf]
       /\ queued.kind = "fresh" \/ (run.kind = "fresh" /\ run.pc = "claimed") \/ send.pc = "saved"
    \/ send.pc = "inserted" /\ u = send.msg
    \/ run.pc \in {"absorb", "insert"} /\ u \in Path[run.at]
Owed == \A u \in Users : Answered(u) \/ u \in excused \/ Due(u)

-----------------------------------------------------------------------------
(* The shape.                                                              *)

LEMMA MsgFacts ==
  /\ 0 \in Ids /\ 0 \notin Msgs /\ Msgs \subseteq Ids
  /\ \A m \in Ids : m \in Nat /\ (m # 0 => m \in Msgs)
  /\ \A m \in Msgs : m > 0 /\ m \in Nat
  BY ChatAssumption DEF Msgs, Ids, ChatAssumption

USE DEF Task, NoTask, NoRun, NoSend, SlotFree, Sending, Exists, IsReply, IsUser

\* No message, no turn and no decision at the start.
LEMMA InitShape == Init => ShapeInv
<1> SUFFICES ASSUME Init PROVE ShapeInv OBVIOUS
<1> USE MsgFacts DEF Init
<1>1. RowTypes
  BY DEF RowTypes
<1>2. Tree /\ Named /\ RunNamed /\ SendNamed /\ Replies /\ Loose /\ Unpointed /\ LeafFree
  BY DEF Tree, Named, RunNamed, SendNamed, Replies, Loose, Unpointed, LeafFree
<1> QED BY <1>1, <1>2 DEF ShapeInv

\* Every action keeps the shape, whatever sends are allowed to do.
LEMMA StepShape == ShapeInv /\ [Next]_vars => ShapeInv'
<1> SUFFICES ASSUME ShapeInv, [Next]_vars PROVE ShapeInv' OBVIOUS
<1>0. /\ RowTypes /\ Tree /\ Named /\ RunNamed /\ SendNamed
      /\ Replies /\ Loose /\ Unpointed /\ LeafFree
  BY DEF ShapeInv
<1> USE <1>0, MsgFacts
<1> USE DEF Tree, Named, RunNamed, SendNamed, Replies, Loose, Unpointed, LeafFree
<1>1. CASE SendBegin
  <2>1. RowTypes'
    BY <1>1 DEF SendBegin, SendMay, RowTypes
  <2>2. (Tree /\ Named /\ RunNamed /\ SendNamed)'
    BY <1>1, <2>1 DEF SendBegin, SendMay, RowTypes
  <2>3. (Replies /\ Loose /\ Unpointed /\ LeafFree)'
    BY <1>1, <2>1 DEF SendBegin, SendMay, RowTypes
  <2> QED BY <2>1, <2>2, <2>3 DEF ShapeInv
<1>2. ASSUME NEW m \in Msgs, SendInsert(m) PROVE ShapeInv'
  <2>1. RowTypes'
    BY <1>2 DEF SendInsert, Insert, IsNew, RowTypes
  <2>2. (Tree /\ Named /\ RunNamed /\ SendNamed)'
    BY <1>2, <2>1 DEF SendInsert, Insert, IsNew, RowTypes
  <2>3. (Replies /\ Loose /\ Unpointed /\ LeafFree)'
    BY <1>2, <2>1 DEF SendInsert, Insert, IsNew, RowTypes
  <2> QED BY <2>1, <2>2, <2>3 DEF ShapeInv
<1>3. CASE SendPoint
  <2>1. RowTypes'
    BY <1>3 DEF SendPoint, SendMay, RowTypes
  <2>2. (Tree /\ Named /\ RunNamed /\ SendNamed)'
    BY <1>3, <2>1 DEF SendPoint, SendMay, RowTypes
  <2>3. (Replies /\ Loose /\ Unpointed /\ LeafFree)'
    BY <1>3, <2>1 DEF SendPoint, SendMay, RowTypes
  <2> QED BY <2>1, <2>2, <2>3 DEF ShapeInv
<1>4. ASSUME NEW m \in Msgs, SendPast(m) PROVE ShapeInv'
  <2>1. RowTypes'
    BY <1>4 DEF SendPast, IsNew, Settled, RowTypes
  <2>2. (Tree /\ Named /\ RunNamed /\ SendNamed)'
    BY <1>4, <2>1 DEF SendPast, IsNew, Settled, RowTypes
  <2>3. (Replies /\ Loose /\ Unpointed /\ LeafFree)'
    BY <1>4, <2>1 DEF SendPast, IsNew, Settled, RowTypes
  <2> QED BY <2>1, <2>2, <2>3 DEF ShapeInv
<1>5. CASE SendEnqueue
  <2>1. RowTypes'
    BY <1>5 DEF SendEnqueue, Admit, SendMay, RowTypes
  <2>2. (Tree /\ Named /\ RunNamed /\ SendNamed)'
    BY <1>5, <2>1 DEF SendEnqueue, Admit, SendMay, RowTypes
  <2>3. (Replies /\ Loose /\ Unpointed /\ LeafFree)'
    BY <1>5, <2>1 DEF SendEnqueue, Admit, SendMay, RowTypes
  <2> QED BY <2>1, <2>2, <2>3 DEF ShapeInv
<1>6. ASSUME NEW m \in Msgs, Regenerate(m) PROVE ShapeInv'
  <2>1. RowTypes'
    BY <1>6 DEF Regenerate, Admit, RowTypes
  <2>2. (Tree /\ Named /\ RunNamed /\ SendNamed)'
    BY <1>6, <2>1 DEF Regenerate, Admit, RowTypes
  <2>3. (Replies /\ Loose /\ Unpointed /\ LeafFree)'
    BY <1>6, <2>1 DEF Regenerate, Admit, RowTypes
  <2> QED BY <2>1, <2>2, <2>3 DEF ShapeInv
<1>7. ASSUME NEW m \in Msgs, Decide(m) PROVE ShapeInv'
  <2>1. RowTypes'
    BY <1>7 DEF Decide, Decidable, RowTypes
  <2>2. (Tree /\ Named /\ RunNamed /\ SendNamed)'
    BY <1>7, <2>1 DEF Decide, Decidable, RowTypes
  <2>3. (Replies /\ Loose /\ Unpointed /\ LeafFree)'
    BY <1>7, <2>1 DEF Decide, Decidable, RowTypes
  <2> QED BY <2>1, <2>2, <2>3 DEF ShapeInv
<1>8. ASSUME NEW m \in Msgs, DecideFailed(m) PROVE ShapeInv'
  <2>1. RowTypes'
    BY <1>8 DEF DecideFailed, Decidable, RowTypes
  <2>2. (Tree /\ Named /\ RunNamed /\ SendNamed)'
    BY <1>8, <2>1 DEF DecideFailed, Decidable, RowTypes
  <2>3. (Replies /\ Loose /\ Unpointed /\ LeafFree)'
    BY <1>8, <2>1 DEF DecideFailed, Decidable, RowTypes
  <2> QED BY <2>1, <2>2, <2>3 DEF ShapeInv
<1>9. CASE CancelQueued
  <2>1. RowTypes'
    BY <1>9 DEF CancelQueued, Unwait, RowTypes
  <2>2. (Tree /\ Named /\ RunNamed /\ SendNamed)'
    BY <1>9, <2>1 DEF CancelQueued, Unwait, RowTypes
  <2>3. (Replies /\ Loose /\ Unpointed /\ LeafFree)'
    BY <1>9, <2>1 DEF CancelQueued, Unwait, RowTypes
  <2> QED BY <2>1, <2>2, <2>3 DEF ShapeInv
<1>10. CASE CancelledEarly
  <2>1. RowTypes'
    BY <1>10 DEF CancelledEarly, Unwait, RowTypes
  <2>2. (Tree /\ Named /\ RunNamed /\ SendNamed)'
    BY <1>10, <2>1 DEF CancelledEarly, Unwait, RowTypes
  <2>3. (Replies /\ Loose /\ Unpointed /\ LeafFree)'
    BY <1>10, <2>1 DEF CancelledEarly, Unwait, RowTypes
  <2> QED BY <2>1, <2>2, <2>3 DEF ShapeInv
<1>11. CASE Claim
  <2>1. RowTypes'
    BY <1>11 DEF Claim, RowTypes
  <2>2. (Tree /\ Named /\ RunNamed /\ SendNamed)'
    BY <1>11, <2>1 DEF Claim, RowTypes
  <2>3. (Replies /\ Loose /\ Unpointed /\ LeafFree)'
    BY <1>11, <2>1 DEF Claim, RowTypes
  <2> QED BY <2>1, <2>2, <2>3 DEF ShapeInv
<1>12. CASE ReadLeaf
  <2>1. RowTypes'
    BY <1>12 DEF ReadLeaf, UserLeaf, RowTypes
  <2>2. (Tree /\ Named /\ RunNamed /\ SendNamed)'
    BY <1>12, <2>1 DEF ReadLeaf, UserLeaf, RowTypes
  <2>3. (Replies /\ Loose /\ Unpointed /\ LeafFree)'
    BY <1>12, <2>1 DEF ReadLeaf, UserLeaf, RowTypes
  <2> QED BY <2>1, <2>2, <2>3 DEF ShapeInv
<1>13. CASE Absorb
  <2>1. RowTypes'
    BY <1>13 DEF Absorb, RowTypes
  <2>2. (Tree /\ Named /\ RunNamed /\ SendNamed)'
    BY <1>13, <2>1 DEF Absorb, RowTypes
  <2>3. (Replies /\ Loose /\ Unpointed /\ LeafFree)'
    BY <1>13, <2>1 DEF Absorb, RowTypes
  <2> QED BY <2>1, <2>2, <2>3 DEF ShapeInv
<1>14. ASSUME NEW m \in Msgs, InsertReply(m) PROVE ShapeInv'
  <2>1. RowTypes'
    BY <1>14 DEF InsertReply, Insert, IsNew, RowTypes
  <2>2. (Tree /\ Named /\ RunNamed /\ SendNamed)'
    BY <1>14, <2>1 DEF InsertReply, Insert, IsNew, RowTypes
  <2>3. (Replies /\ Loose /\ Unpointed /\ LeafFree)'
    BY <1>14, <2>1 DEF InsertReply, Insert, IsNew, RowTypes
  <2> QED BY <2>1, <2>2, <2>3 DEF ShapeInv
<1>15. CASE PointLeaf
  <2>1. RowTypes'
    BY <1>15 DEF PointLeaf, RowTypes
  <2>2. (Tree /\ Named /\ RunNamed /\ SendNamed)'
    BY <1>15, <2>1 DEF PointLeaf, RowTypes
  <2>3. (Replies /\ Loose /\ Unpointed /\ LeafFree)'
    BY <1>15, <2>1 DEF PointLeaf, RowTypes
  <2> QED BY <2>1, <2>2, <2>3 DEF ShapeInv
<1>16. CASE LoadContext
  <2>1. RowTypes'
    BY <1>16 DEF LoadContext, Settled, RowTypes
  <2>2. (Tree /\ Named /\ RunNamed /\ SendNamed)'
    BY <1>16, <2>1 DEF LoadContext, Settled, RowTypes
  <2>3. (Replies /\ Loose /\ Unpointed /\ LeafFree)'
    BY <1>16, <2>1 DEF LoadContext, Settled, RowTypes
  <2> QED BY <2>1, <2>2, <2>3 DEF ShapeInv
<1>17. ASSUME NEW c \in {"done", "waiting"}, EndTurn(c) PROVE ShapeInv'
  <2>1. RowTypes'
    BY <1>17 DEF EndTurn, RowTypes
  <2>2. (Tree /\ Named /\ RunNamed /\ SendNamed)'
    BY <1>17, <2>1 DEF EndTurn, RowTypes
  <2>3. (Replies /\ Loose /\ Unpointed /\ LeafFree)'
    BY <1>17, <2>1 DEF EndTurn, RowTypes
  <2> QED BY <2>1, <2>2, <2>3 DEF ShapeInv
<1>18. ASSUME NEW m \in Msgs, FailEarly(m) PROVE ShapeInv'
  <2>1. RowTypes'
    BY <1>18 DEF FailEarly, Insert, IsNew, RowTypes
  <2>2. (Tree /\ Named /\ RunNamed /\ SendNamed)'
    BY <1>18, <2>1 DEF FailEarly, Insert, IsNew, RowTypes
  <2>3. (Replies /\ Loose /\ Unpointed /\ LeafFree)'
    BY <1>18, <2>1 DEF FailEarly, Insert, IsNew, RowTypes
  <2> QED BY <2>1, <2>2, <2>3 DEF ShapeInv
<1>19. CASE Reaped
  <2>1. RowTypes'
    BY <1>19 DEF Reaped, RowTypes
  <2>2. (Tree /\ Named /\ RunNamed /\ SendNamed)'
    BY <1>19, <2>1 DEF Reaped, RowTypes
  <2>3. (Replies /\ Loose /\ Unpointed /\ LeafFree)'
    BY <1>19, <2>1 DEF Reaped, RowTypes
  <2> QED BY <2>1, <2>2, <2>3 DEF ShapeInv
<1>20. CASE UNCHANGED vars
  BY <1>20 DEF vars, ShapeInv, RowTypes
<1> QED
  BY <1>1, <1>2, <1>3, <1>4, <1>5, <1>6, <1>7, <1>8, <1>9, <1>10, <1>11, <1>12, <1>13,
     <1>14, <1>15, <1>16, <1>17, <1>18, <1>19, <1>20
  DEF Next, RunStep, SendStep

\* The shape holds in every state.
LEMMA ShapeHolds == Spec => []ShapeInv
  BY InitShape, StepShape, PTL DEF Spec

-----------------------------------------------------------------------------
(* No decision is orphaned.                                                *)

\* Every action keeps a decision and its turn together while sends leave decisions alone.
LEMMA StepDecision ==
  ASSUME ~SendOverDecision, ShapeInv, ShapeInv', DecisionInv, [Next]_vars
  PROVE  DecisionInv'
<1>0. RowTypes /\ RowTypes' /\ Named /\ RunNamed /\ SendNamed /\ Replies
  BY DEF ShapeInv
<1> USE <1>0, MsgFacts DEF RowTypes, Named, RunNamed, SendNamed, Replies,
                             DecisionInv, AbsorbAtUser, ResumeAtReply, NoOrphanDecision
<1>1. CASE SendBegin
  BY <1>1 DEF SendBegin, SendMay, InSetup
<1>2. ASSUME NEW m \in Msgs, SendInsert(m) PROVE DecisionInv'
  BY <1>2 DEF SendInsert, Insert, IsNew, SendMay, InSetup
<1>3. CASE SendPoint
  BY <1>3 DEF SendPoint, SendMay, InSetup
<1>4. ASSUME NEW m \in Msgs, SendPast(m) PROVE DecisionInv'
  BY <1>4 DEF SendPast, IsNew, Settled, SendMay, InSetup
<1>5. CASE SendEnqueue
  BY <1>5 DEF SendEnqueue, Admit, SendMay, InSetup
<1>6. ASSUME NEW m \in Msgs, Regenerate(m) PROVE DecisionInv'
  BY <1>6 DEF Regenerate, Admit, InSetup
<1>7. ASSUME NEW m \in Msgs, Decide(m) PROVE DecisionInv'
  BY <1>7 DEF Decide, Decidable, InSetup
<1>8. ASSUME NEW m \in Msgs, DecideFailed(m) PROVE DecisionInv'
  BY <1>8 DEF DecideFailed, Decidable, InSetup
<1>9. CASE CancelQueued
  BY <1>9 DEF CancelQueued, Unwait, InSetup
<1>10. CASE CancelledEarly
  BY <1>10 DEF CancelledEarly, Unwait, InSetup
<1>11. CASE Claim
  BY <1>11 DEF Claim, InSetup
<1>12. CASE ReadLeaf
  BY <1>12 DEF ReadLeaf, UserLeaf, InSetup
<1>13. CASE Absorb
  BY <1>13 DEF Absorb, InSetup
<1>14. ASSUME NEW m \in Msgs, InsertReply(m) PROVE DecisionInv'
  BY <1>14 DEF InsertReply, Insert, IsNew, InSetup
<1>15. CASE PointLeaf
  BY <1>15 DEF PointLeaf, InSetup
<1>16. CASE LoadContext
  BY <1>16 DEF LoadContext, Settled, InSetup
<1>17. ASSUME NEW c \in {"done", "waiting"}, EndTurn(c) PROVE DecisionInv'
  BY <1>17 DEF EndTurn, InSetup
<1>18. ASSUME NEW m \in Msgs, FailEarly(m) PROVE DecisionInv'
  BY <1>18 DEF FailEarly, Insert, IsNew, InSetup
<1>19. CASE Reaped
  BY <1>19 DEF Reaped, InSetup
<1>20. CASE UNCHANGED vars
  BY <1>20 DEF vars
<1> QED
  BY <1>1, <1>2, <1>3, <1>4, <1>5, <1>6, <1>7, <1>8, <1>9, <1>10, <1>11, <1>12, <1>13,
     <1>14, <1>15, <1>16, <1>17, <1>18, <1>19, <1>20
  DEF Next, RunStep, SendStep

\* With decisions left to their continuations, approving, answering, cancelling,
\* absorbing, regenerating and reaping never leave a decided card without the turn
\* that acts on it, in a chat of any size.
THEOREM DecisionKept == ~SendOverDecision => (Spec => []NoOrphanDecision)
<1> SUFFICES ASSUME ~SendOverDecision PROVE Spec => []NoOrphanDecision
  OBVIOUS
<1>1. Init => DecisionInv
  BY DEF Init, DecisionInv, AbsorbAtUser, ResumeAtReply, NoOrphanDecision
<1>2. ShapeInv /\ ShapeInv' /\ DecisionInv /\ [Next]_vars => DecisionInv'
  BY StepDecision
<1>3. DecisionInv => NoOrphanDecision
  BY DEF DecisionInv
<1> QED
  BY <1>1, <1>2, <1>3, ShapeHolds, PTL DEF Spec

-----------------------------------------------------------------------------
(* Branches.                                                               *)

\* A non-empty set of numbers has a least element: induction over the messages.
LEMMA LeastOfAny ==
  ASSUME NEW T \in SUBSET Nat, T # {}
  PROVE  \E n \in T : \A k \in T : n <= k
<1> DEFINE R == {ss \in Nat \X Nat : ss[1] < ss[2]}
<1>0. IsWellFoundedOn(R, Nat)
  <2>1. R = OpToRel(<, Nat)
    BY ZenonT(20) DEF OpToRel
  <2> QED
    BY <2>1, NatLessThanWellFounded, Zenon
<1> HIDE DEF R
<1>1. \E x \in T : \A y \in T : <<y, x>> \notin R
  BY <1>0, WFMin
<1>2. PICK x \in T : \A y \in T : <<y, x>> \notin R
  BY <1>1
<1>3. ASSUME NEW y \in T PROVE x <= y
  <2>1. <<y, x>> \notin R
    BY <1>2
  <2>2. x \in Nat /\ y \in Nat
    OBVIOUS
  <2>3. ~(y < x)
    BY <2>1, <2>2 DEF R
  <2> QED BY <2>2, <2>3
<1> QED
  BY <1>3

\* The recursive definition of Path has a solution: the ancestors of a message are
\* what every set closed under p that holds it holds.
LEMMA AncestorEquation ==
  ASSUME NEW p \in [Msgs -> Ids]
  PROVE  \E f : f = [m \in Ids |-> IF m = 0 THEN {} ELSE {m} \cup f[p[m]]]
<1> DEFINE Closed(S) == \A x \in S : p[x] # 0 => p[x] \in S
           Up(m) == {k \in Msgs : \A S \in SUBSET Msgs : m \in S /\ Closed(S) => k \in S}
           f == [m \in Ids |-> IF m = 0 THEN {} ELSE Up(m)]
<1>1. ASSUME NEW m \in Msgs PROVE Up(m) = {m} \cup f[p[m]]
  <2>1. m \in Up(m)
    OBVIOUS
  <2>2. ASSUME NEW k \in f[p[m]] PROVE k \in Up(m)
    BY <2>2, MsgFacts
  <2>3. ASSUME NEW k \in Up(m), k # m PROVE k \in f[p[m]]
    <3>1. CASE p[m] = 0
      <4>1. {m} \in SUBSET Msgs /\ Closed({m})
        BY <3>1
      <4> QED BY <4>1, <2>3
    <3>2. CASE p[m] # 0
      <4>1. ASSUME NEW S \in SUBSET Msgs, p[m] \in S, Closed(S) PROVE k \in S
        <5>1. S \cup {m} \in SUBSET Msgs /\ Closed(S \cup {m})
          BY <4>1
        <5> QED BY <5>1, <2>3
      <4> QED BY <3>2, <4>1, <2>3, MsgFacts
    <3> QED BY <3>1, <3>2
  <2> QED BY <2>1, <2>2, <2>3
<1>2. ASSUME NEW m \in Ids PROVE f[m] = IF m = 0 THEN {} ELSE {m} \cup f[p[m]]
  <2> HIDE DEF Up
  <2>1. CASE m = 0
    BY <2>1
  <2>2. CASE m # 0
    <3>1. m \in Msgs /\ f[m] = Up(m)
      BY <2>2, MsgFacts
    <3>2. f[m] = {m} \cup f[p[m]]
      BY <3>1, <1>1
    <3> QED BY <3>2, <2>2
  <2> QED BY <2>1, <2>2
<1>3. f = [m \in Ids |-> f[m]]
  OBVIOUS
<1> HIDE DEF f
<1>4. f = [m \in Ids |-> IF m = 0 THEN {} ELSE {m} \cup f[p[m]]]
  BY <1>2, <1>3
<1> QED BY <1>4

\* So Path satisfies its equation, before and after a step.
LEMMA PathAt ==
  /\ parent \in [Msgs -> Ids] =>
       Path[0] = {} /\ \A m \in Msgs : Path[m] = {m} \cup Path[parent[m]]
  /\ parent' \in [Msgs -> Ids] =>
       Path'[0] = {} /\ \A m \in Msgs : Path'[m] = {m} \cup Path'[parent'[m]]
<1>1. ASSUME parent \in [Msgs -> Ids]
      PROVE  Path = [m \in Ids |-> IF m = 0 THEN {} ELSE {m} \cup Path[parent[m]]]
  BY <1>1, AncestorEquation DEF Path
<1>2. ASSUME parent' \in [Msgs -> Ids]
      PROVE  Path' = [m \in Ids |-> IF m = 0 THEN {} ELSE {m} \cup Path'[parent'[m]]]
  BY <1>2, AncestorEquation DEF Path
<1>3. ASSUME parent \in [Msgs -> Ids], NEW m \in Ids
      PROVE Path[m] = IF m = 0 THEN {} ELSE {m} \cup Path[parent[m]]
  BY <1>1, <1>3
<1>4. ASSUME parent' \in [Msgs -> Ids], NEW m \in Ids
      PROVE Path'[m] = IF m = 0 THEN {} ELSE {m} \cup Path'[parent'[m]]
  BY <1>2, <1>4
<1> QED BY <1>3, <1>4, MsgFacts

\* A branch holds the message itself and older ones.
LEMMA PathOfOlder ==
  ASSUME ShapeInv, NEW m \in Ids
  PROVE  Path[m] \subseteq {k \in Msgs : k <= m}
<1> DEFINE Bad == {x \in Ids : ~(Path[x] \subseteq {k \in Msgs : k <= x})}
<1>1. ASSUME Bad # {} PROVE FALSE
  <2>1. PICK x \in Bad : \A y \in Bad : x <= y
    BY <1>1, LeastOfAny, MsgFacts
  <2>2. x \in Msgs
    BY PathAt, MsgFacts DEF ShapeInv, RowTypes
  <2>3. parent[x] \in Ids /\ parent[x] < x /\ Path[x] = {x} \cup Path[parent[x]]
    BY <2>2, PathAt DEF ShapeInv, RowTypes, Tree
  <2>4. parent[x] \notin Bad
    BY <2>1, <2>3, MsgFacts
  <2>5. Path[parent[x]] \subseteq {k \in Msgs : k <= x}
    BY <2>2, <2>3, <2>4, MsgFacts
  <2> QED BY <2>2, <2>3, <2>5, MsgFacts
<1> QED BY <1>1

\* Only its children have a message whose children have none on their branch.
LEMMA FewBelow ==
  ASSUME ShapeInv, NEW m \in Msgs, NEW x \in Ids, m \in Path[x],
         \A n \in Msgs : parent[n] = m => \A k \in Msgs : parent[k] # n
  PROVE  x = m \/ (x \in Msgs /\ parent[x] = m)
<1> DEFINE Bad == {y \in Msgs : m \in Path[y] /\ y # m /\ parent[y] # m}
<1>1. ASSUME Bad # {} PROVE FALSE
  <2>1. PICK y \in Bad : \A z \in Bad : y <= z
    BY <1>1, LeastOfAny, MsgFacts
  <2>2. y \in Msgs /\ parent[y] \in Ids /\ parent[y] < y /\ Path[y] = {y} \cup Path[parent[y]]
    BY PathAt DEF ShapeInv, RowTypes, Tree
  <2>3. m \in Path[parent[y]] /\ parent[y] # m
    BY <2>2
  <2>4. parent[y] \in Msgs
    BY <2>2, <2>3, PathAt, MsgFacts DEF ShapeInv, RowTypes
  <2>5. parent[y] \notin Bad
    BY <2>1, <2>2, MsgFacts
  <2> QED BY <2>2, <2>3, <2>4, <2>5
<1>2. x \in Msgs
  BY PathAt, MsgFacts DEF ShapeInv, RowTypes
<1> QED BY <1>1, <1>2

\* What an insert of m under p does to the branches: m gets p's, the others keep theirs.
Grown(m, p) ==
    /\ role[m] = "none" /\ card[m] = "none" /\ p # m
    /\ parent'[m] = p
    /\ Path'[m] = {m} \cup Path[p]
    /\ \A x \in Ids \ {m} : Path'[x] = Path[x] /\ m \notin Path[x]
    /\ \A x \in Msgs \ {m} : parent'[x] = parent[x] /\ parent[x] # m

LEMMA InsertGrows ==
  ASSUME ShapeInv, NEW m \in Msgs, NEW p \in Ids, IsNew(m), Exists(p),
         parent' = [parent EXCEPT ![m] = p]
  PROVE  Grown(m, p)
<1>1. role[m] = "none" /\ p # m
  BY MsgFacts DEF IsNew, Exists
<1>2. parent \in [Msgs -> Ids] /\ parent' \in [Msgs -> Ids]
  BY DEF ShapeInv, RowTypes
<1>3. /\ Path'[0] = {}
      /\ \A x \in Msgs : Path'[x] = {x} \cup Path'[parent'[x]]
  BY <1>2, PathAt
<1>4. \A n \in Msgs : parent[n] # m
  BY <1>1, MsgFacts DEF ShapeInv, Tree
<1>5. ASSUME NEW x \in Ids \ {m} PROVE m \notin Path[x]
  BY <1>4, FewBelow, MsgFacts
<1> DEFINE Bad == {x \in Ids : x # m /\ Path'[x] # Path[x]}
<1>6. ASSUME Bad # {} PROVE FALSE
  <2>1. PICK x \in Bad : \A y \in Bad : x <= y
    BY <1>6, LeastOfAny, MsgFacts
  <2>2. x \in Msgs /\ x # m
    BY <1>2, <1>3, PathAt, MsgFacts
  <2>3. parent'[x] = parent[x] /\ parent[x] \in Ids /\ parent[x] < x /\ parent[x] # m
    BY <2>2, <1>2, <1>4 DEF ShapeInv, Tree
  <2>4. parent[x] \notin Bad
    BY <2>1, <2>3, MsgFacts
  <2>5. Path'[parent[x]] = Path[parent[x]]
    BY <2>3, <2>4
  <2> QED BY <1>2, <1>3, <2>2, <2>3, <2>5, PathAt
<1>7. Path'[m] = {m} \cup Path[p]
  <2>1. parent'[m] = p /\ Path'[p] = Path[p]
    BY <1>1, <1>2, <1>6
  <2> QED BY <2>1, <1>3
<1> QED BY <1>1, <1>2, <1>4, <1>5, <1>6, <1>7 DEF Grown, ShapeInv, Tree

\* The four actions that insert a row, and under what.
LEMMA InsertsGrow ==
  ASSUME ShapeInv, NEW m \in Msgs
  PROVE  /\ SendInsert(m) \/ SendPast(m) => Grown(m, send.at)
         /\ InsertReply(m) \/ FailEarly(m) => Grown(m, run.at)
<1>0. /\ RowTypes /\ Exists(send.at) /\ send.at \in Ids /\ run.at \in Ids
      /\ run.kind = "fresh" => Exists(run.at)
      /\ run.pc = "insert" => run.kind = "fresh"
  BY DEF ShapeInv, RowTypes, Named, RunNamed
<1>1. ASSUME SendInsert(m) \/ SendPast(m) PROVE Grown(m, send.at)
  <2>1. IsNew(m) /\ parent' = [parent EXCEPT ![m] = send.at]
    BY <1>1 DEF SendInsert, SendPast, Insert
  <2> QED BY <1>0, <2>1, InsertGrows
<1>2. ASSUME InsertReply(m) \/ FailEarly(m) PROVE Grown(m, run.at)
  <2>1. IsNew(m) /\ run.kind = "fresh" /\ parent' = [parent EXCEPT ![m] = run.at]
    BY <1>0, <1>2 DEF InsertReply, FailEarly, Insert
  <2> QED BY <1>0, <2>1, InsertGrows
<1> QED BY <1>1, <1>2

\* Messages, replies, queue, run and send have the types the code gives them, and only
\* messages that exist are excused.
THEOREM ChatTyped == Spec => []TypeOK
<1> DEFINE Inv == excused \in SUBSET Msgs
<1>1. Init => Inv
  BY DEF Init
<1>2. ShapeInv /\ Inv /\ [Next]_vars => Inv'
  <2> SUFFICES ASSUME ShapeInv, Inv, [Next]_vars PROVE Inv'
    OBVIOUS
  <2>1. \A m \in Ids : Path[m] \subseteq Msgs
    BY PathOfOlder
  <2>2. leaf \in Ids /\ queued.at \in Ids /\ run.at \in Ids
    BY DEF ShapeInv, RowTypes
  <2>3. \/ UNCHANGED excused
        \/ excused' = excused \cup Path[leaf] \cup Path[queued.at]
        \/ excused' = excused \cup Path[leaf] \cup Path[run.at]
    BY DEF Next, RunStep, SendStep, vars, Excuse, SendBegin, SendInsert, SendPoint, SendPast,
           SendEnqueue, Regenerate, Decide, DecideFailed, CancelQueued, CancelledEarly, Claim,
           ReadLeaf, Absorb, InsertReply, PointLeaf, LoadContext, EndTurn, FailEarly, Reaped
  <2> QED BY <2>1, <2>2, <2>3
<1>3. ShapeInv /\ Inv => TypeOK
  BY DEF ShapeInv, RowTypes, TypeOK
<1> QED BY <1>1, <1>2, <1>3, ShapeHolds, PTL DEF Spec

-----------------------------------------------------------------------------
(* No card is left behind.                                                 *)

\* Every action keeps cards clean, whatever sends are allowed to do.
LEMMA StepCard == ShapeInv /\ ShapeInv' /\ CardInv /\ [Next]_vars => CardInv'
<1> SUFFICES ASSUME ShapeInv, ShapeInv', CardInv, [Next]_vars PROVE CardInv' OBVIOUS
<1>0. RowTypes /\ RowTypes' /\ Named /\ RunNamed /\ SendNamed /\ Replies /\ Loose /\ LeafFree
  BY DEF ShapeInv
<1>p. \A n \in Msgs : /\ Path[n] = {n} \cup Path[parent[n]]
                      /\ Path[parent[n]] \subseteq {k \in Msgs : k < n}
  BY PathAt, PathOfOlder, MsgFacts DEF ShapeInv, RowTypes, Tree
<1> USE <1>0, MsgFacts
<1> USE DEF CardInv, NoCardBehindReply, CleanBehind, NoneBelowRun, NoneBelowQueued, Apart, Ran
<1>1. CASE SendBegin
  <2>1. Path' = Path
    BY <1>1 DEF SendBegin, Path
  <2> QED BY <1>1, <1>p, <2>1 DEF SendBegin, RowTypes, RunNamed, Named
<1>2. ASSUME NEW m \in Msgs, SendInsert(m) PROVE CardInv'
  <2>1. Grown(m, send.at)
    BY <1>2, InsertsGrow
  <2>2. \A x \in Msgs : /\ card'[x] = "waiting" => card[x] = "waiting" /\ x # m
                        /\ Ran(x)' => Ran(x) /\ x # m
    BY <1>2, <2>1 DEF Grown, SendInsert, Insert, Settled, RowTypes
  <2>3. NoCardBehindReply'
    BY <1>p, <2>1, <2>2 DEF Grown, RowTypes
  <2>4. CleanBehind'
    BY <1>2, <1>p, <2>1, <2>2 DEF Grown, SendInsert, Insert, RowTypes, RunNamed, Named
  <2>5. NoneBelowRun'
    BY <1>2, <1>p, <2>1, <2>2 DEF Grown, SendInsert, Insert, RowTypes, RunNamed, Named
  <2>6. NoneBelowQueued'
    BY <1>2, <1>p, <2>1, <2>2 DEF Grown, SendInsert, Insert, RowTypes, RunNamed, Named
  <2>7. Apart'
    BY <1>2, <1>p, <2>1, <2>2 DEF Grown, SendInsert, Insert, RowTypes, RunNamed, Named
  <2> QED BY <2>3, <2>4, <2>5, <2>6, <2>7
<1>3. CASE SendPoint
  <2>1. Path' = Path
    BY <1>3 DEF SendPoint, Path
  <2> QED BY <1>3, <1>p, <2>1 DEF SendPoint, RowTypes, RunNamed, Named
<1>4. ASSUME NEW m \in Msgs, SendPast(m) PROVE CardInv'
  <2>1. Grown(m, send.at)
    BY <1>4, InsertsGrow
  <2>2. \A x \in Msgs : /\ card'[x] = "waiting" => card[x] = "waiting" /\ x # m
                        /\ Ran(x)' => Ran(x) /\ x # m
    BY <1>4, <2>1 DEF Grown, SendPast, Settled, RowTypes
  <2>3. NoCardBehindReply'
    BY <1>p, <2>1, <2>2 DEF Grown, RowTypes
  <2>4. CleanBehind'
    BY <1>4, <1>p, <2>1, <2>2 DEF Grown, SendPast, Settled, RowTypes, RunNamed, Named
  <2>5. NoneBelowRun'
    BY <1>4, <1>p, <2>1, <2>2 DEF Grown, SendPast, Settled, RowTypes, RunNamed, Named
  <2>6. NoneBelowQueued'
    BY <1>4, <1>p, <2>1, <2>2 DEF Grown, SendPast, Settled, RowTypes, RunNamed, Named
  <2>7. Apart'
    BY <1>4, <1>p, <2>1, <2>2 DEF Grown, SendPast, Settled, RowTypes, RunNamed, Named
  <2> QED BY <2>3, <2>4, <2>5, <2>6, <2>7
<1>5. CASE SendEnqueue
  <2>1. Path' = Path
    BY <1>5 DEF SendEnqueue, Admit, Path
  <2> QED BY <1>5, <1>p, <2>1 DEF SendEnqueue, Admit, RowTypes, RunNamed, Named
<1>6. ASSUME NEW m \in Msgs, Regenerate(m) PROVE CardInv'
  <2>1. Path' = Path
    BY <1>6 DEF Regenerate, Admit, Path
  <2> QED BY <1>6, <1>p, <2>1 DEF Regenerate, Admit, RowTypes, RunNamed, Named
<1>7. ASSUME NEW m \in Msgs, Decide(m) PROVE CardInv'
  <2>1. Path' = Path
    BY <1>7 DEF Decide, Decidable, Path
  <2>2. ASSUME NEW x \in Msgs, m \in Path[x], x # m PROVE x = send.msg /\ send.pc = "inserted"
    <3>1. \A j \in Msgs : parent[j] = m => \A k \in Msgs : parent[k] # j
      BY <1>7 DEF Decide, Decidable, LeafFree, Loose, Replies
    <3>2. parent[x] = m
      BY <2>2, <3>1, FewBelow
    <3> QED BY <3>2, <1>7 DEF Decide, Decidable, LeafFree, Replies
  <2> QED BY <1>7, <1>p, <2>1, <2>2 DEF Decide, Decidable, RowTypes, RunNamed, Named, Replies, Loose
<1>8. ASSUME NEW m \in Msgs, DecideFailed(m) PROVE CardInv'
  <2>1. Path' = Path
    BY <1>8 DEF DecideFailed, Decidable, Path
  <2> QED BY <1>8, <1>p, <2>1 DEF DecideFailed, Decidable, RowTypes, RunNamed, Named
<1>9. CASE CancelQueued
  <2>1. Path' = Path
    BY <1>9 DEF CancelQueued, Unwait, Path
  <2> QED BY <1>9, <1>p, <2>1 DEF CancelQueued, Unwait, RowTypes, RunNamed, Named
<1>10. CASE CancelledEarly
  <2>1. Path' = Path
    BY <1>10 DEF CancelledEarly, Unwait, Path
  <2> QED BY <1>10, <1>p, <2>1 DEF CancelledEarly, Unwait, RowTypes, RunNamed, Named
<1>11. CASE Claim
  <2>1. Path' = Path
    BY <1>11 DEF Claim, Path
  <2> QED BY <1>11, <1>p, <2>1 DEF Claim, RowTypes, RunNamed, Named
<1>12. CASE ReadLeaf
  <2>1. Path' = Path
    BY <1>12 DEF ReadLeaf, UserLeaf, Path
  <2> QED BY <1>12, <1>p, <2>1 DEF ReadLeaf, UserLeaf, RowTypes, RunNamed, Named
<1>13. CASE Absorb
  <2>1. Path' = Path
    BY <1>13 DEF Absorb, Path
  <2> QED BY <1>13, <1>p, <2>1 DEF Absorb, RowTypes, RunNamed, Named
<1>14. ASSUME NEW m \in Msgs, InsertReply(m) PROVE CardInv'
  <2>1. Grown(m, run.at)
    BY <1>14, InsertsGrow
  <2>2. \A x \in Msgs : /\ card'[x] = "waiting" => card[x] = "waiting" /\ x # m
                        /\ Ran(x)' => Ran(x) /\ x # m
    BY <1>14, <2>1 DEF Grown, InsertReply, Insert, RowTypes
  <2>3. NoCardBehindReply'
    BY <1>p, <2>1, <2>2 DEF Grown, RowTypes
  <2>4. CleanBehind'
    BY <1>14, <1>p, <2>1, <2>2 DEF Grown, InsertReply, Insert, RowTypes, RunNamed, Named
  <2>5. NoneBelowRun'
    BY <1>14, <1>p, <2>1, <2>2 DEF Grown, InsertReply, Insert, RowTypes, RunNamed, Named
  <2>6. NoneBelowQueued'
    BY <1>14, <1>p, <2>1, <2>2 DEF Grown, InsertReply, Insert, RowTypes, RunNamed, Named
  <2>7. Apart'
    BY <1>14, <1>p, <2>1, <2>2 DEF Grown, InsertReply, Insert, RowTypes, RunNamed, Named
  <2> QED BY <2>3, <2>4, <2>5, <2>6, <2>7
<1>15. CASE PointLeaf
  <2>1. Path' = Path
    BY <1>15 DEF PointLeaf, Path
  <2> QED BY <1>15, <1>p, <2>1 DEF PointLeaf, RowTypes, RunNamed, Named
<1>16. CASE LoadContext
  <2>1. Path' = Path
    BY <1>16 DEF LoadContext, Settled, Path
  <2>2. \A x \in Msgs : (card'[x] = "waiting" => card[x] = "waiting") /\ (Ran(x)' => Ran(x))
    BY <1>16 DEF LoadContext, Settled, RowTypes
  <2>3. /\ run'.pc = "streaming" /\ run'.reply = run.reply /\ run'.kind = run.kind
        /\ UNCHANGED <<queued, parent>>
    BY <1>16 DEF LoadContext, RowTypes
  <2>4. NoCardBehindReply' /\ NoneBelowRun' /\ NoneBelowQueued' /\ Apart'
    BY <1>p, <2>1, <2>2, <2>3 DEF RowTypes
  <2>5. CleanBehind'
    <3>1. run.reply \in Msgs
      BY <1>16 DEF LoadContext, RunNamed, RowTypes
    <3>2. ASSUME NEW x \in Path[parent[run.reply]] PROVE card'[x] # "waiting"
      <4>1. x \in Msgs /\ x # run.reply /\ x \in Path[run.reply]
        BY <1>p, <3>1
      <4> QED BY <1>16, <4>1 DEF LoadContext, GoesPast, Settled, RowTypes
    <3> QED BY <2>1, <2>3, <3>1, <3>2
  <2> QED BY <2>4, <2>5
<1>17. ASSUME NEW c \in {"done", "waiting"}, EndTurn(c) PROVE CardInv'
  <2>1. Path' = Path
    BY <1>17 DEF EndTurn, Path
  <2> QED BY <1>17, <1>p, <2>1 DEF EndTurn, RowTypes, RunNamed, Named
<1>18. ASSUME NEW m \in Msgs, FailEarly(m) PROVE CardInv'
  <2>1. Grown(m, run.at)
    BY <1>18, InsertsGrow
  <2>2. \A x \in Msgs : /\ card'[x] = "waiting" => card[x] = "waiting" /\ x # m
                        /\ Ran(x)' => Ran(x) /\ x # m
    BY <1>18, <2>1 DEF Grown, FailEarly, Insert, RowTypes
  <2>3. NoCardBehindReply'
    BY <1>p, <2>1, <2>2 DEF Grown, RowTypes
  <2>4. CleanBehind'
    BY <1>18, <1>p, <2>1, <2>2 DEF Grown, FailEarly, Insert, RowTypes, RunNamed, Named
  <2>5. NoneBelowRun'
    BY <1>18, <1>p, <2>1, <2>2 DEF Grown, FailEarly, Insert, RowTypes, RunNamed, Named
  <2>6. NoneBelowQueued'
    BY <1>18, <1>p, <2>1, <2>2 DEF Grown, FailEarly, Insert, RowTypes, RunNamed, Named
  <2>7. Apart'
    BY <1>18, <1>p, <2>1, <2>2 DEF Grown, FailEarly, Insert, RowTypes, RunNamed, Named
  <2> QED BY <2>3, <2>4, <2>5, <2>6, <2>7
<1>19. CASE Reaped
  <2>1. Path' = Path
    BY <1>19 DEF Reaped, Path
  <2> QED BY <1>19, <1>p, <2>1 DEF Reaped, RowTypes, RunNamed, Named
<1>20. CASE UNCHANGED vars
  <2>1. Path' = Path
    BY <1>20 DEF vars, Path
  <2> QED BY <1>20, <2>1 DEF vars
<1> QED
  BY <1>1, <1>2, <1>3, <1>4, <1>5, <1>6, <1>7, <1>8, <1>9, <1>10, <1>11, <1>12, <1>13,
     <1>14, <1>15, <1>16, <1>17, <1>18, <1>19, <1>20
  DEF Next, RunStep, SendStep

\* Wherever a send, a decision, a regeneration and a turn interleave, also while a reply
\* is being set up or a decision awaits its turn, no reply that ran has a waiting card
\* behind it.
THEOREM CardsSettled == Spec => []NoCardBehindReply
<1>1. Init => CardInv
  <2> SUFFICES ASSUME Init PROVE CardInv OBVIOUS
  <2> QED BY DEF Init, CardInv, NoCardBehindReply, CleanBehind, NoneBelowRun, NoneBelowQueued,
                 Apart, Ran
<1>2. ShapeInv /\ ShapeInv' /\ CardInv /\ [Next]_vars => CardInv'
  BY StepCard
<1>3. CardInv => NoCardBehindReply
  BY DEF CardInv
<1> QED BY <1>1, <1>2, <1>3, ShapeHolds, PTL DEF Spec

-----------------------------------------------------------------------------
(* Words are shown and answered.                                           *)

\* A message and its branch stay, so what is answered stays answered; everything on a
\* reply's branch is.
LEMMA RowsStay ==
  ASSUME ShapeInv, [Next]_vars
  PROVE  \A m \in Ids : Exists(m) => Path'[m] = Path[m] /\ (m \in Msgs => role'[m] = role[m])
<1>0. RowTypes
  BY DEF ShapeInv
<1>1. CASE UNCHANGED <<role, parent>>
  BY <1>1, MsgFacts DEF Path
<1>2. ASSUME NEW m \in Msgs, SendInsert(m) \/ SendPast(m) PROVE role' = [role EXCEPT ![m] = "user"]
  BY <1>2 DEF SendInsert, SendPast, Insert
<1>3. ASSUME NEW m \in Msgs, InsertReply(m) \/ FailEarly(m)
      PROVE  role' = [role EXCEPT ![m] = "assistant"]
  BY <1>3 DEF InsertReply, FailEarly, Insert
<1>4. ASSUME NEW m \in Msgs, SendInsert(m) \/ SendPast(m) \/ InsertReply(m) \/ FailEarly(m)
      PROVE  \A x \in Ids : Exists(x) => Path'[x] = Path[x] /\ (x \in Msgs => role'[x] = role[x])
  BY <1>0, <1>2, <1>3, <1>4, InsertsGrow, MsgFacts DEF Grown, RowTypes
<1>5. \/ UNCHANGED <<role, parent>>
      \/ \E m \in Msgs : SendInsert(m) \/ SendPast(m) \/ InsertReply(m) \/ FailEarly(m)
  BY DEF Next, RunStep, SendStep, vars, SendBegin, SendPoint, SendEnqueue, Regenerate, Decide,
         DecideFailed, CancelQueued, CancelledEarly, Claim, ReadLeaf, Absorb, PointLeaf,
         LoadContext, EndTurn, Reaped
<1> QED BY <1>1, <1>4, <1>5

LEMMA AnsweredStays ==
  ASSUME ShapeInv, [Next]_vars
  PROVE  /\ \A u \in Msgs : Answered(u) => Answered(u)'
         /\ \A m \in Msgs : IsReply(m) => \A u \in Path[m] : Answered(u)
  BY RowsStay, MsgFacts DEF Answered

\* Every action keeps words on the branch the chat shows, if a reply's set-up and the
\* message an early failure answers are left alone.
LEMMA StepWords ==
  ASSUME ~SendInSetup, ~FailOverFold, ShapeInv, ShapeInv', WordsInv, [Next]_vars
  PROVE  WordsInv'
<1>0. RowTypes /\ RowTypes' /\ Named /\ RunNamed /\ SendNamed /\ Replies
  BY DEF ShapeInv
<1>s. /\ \A m \in Ids : Exists(m) => Path'[m] = Path[m] /\ (m \in Msgs => role'[m] = role[m])
      /\ \A u \in Msgs : Answered(u) => Answered(u)'
      /\ \A m \in Msgs : IsReply(m) => \A u \in Path[m] : Answered(u)
      /\ \A m \in Msgs : IsReply(m)' => \A u \in Path'[m] : Answered(u)'
  BY RowsStay, AnsweredStays DEF Answered
<1>p. Path[0] = {} /\ \A m \in Msgs : Path[m] = {m} \cup Path[parent[m]]
  BY <1>0, PathAt DEF RowTypes
<1> USE <1>0, <1>s, <1>p, MsgFacts
<1> USE DEF WordsInv, SendOnBranch, SetupOnBranch, Shown, Users
<1>1. CASE SendBegin
  <2>1. SendOnBranch' /\ SetupOnBranch'
    BY <1>1 DEF SendBegin, SendMay, InSetup, RowTypes, RunNamed, Named
  <2>2. Shown'
    BY <1>1 DEF SendBegin, SendMay, InSetup, RowTypes, RunNamed, SendNamed, Named
  <2> QED BY <2>1, <2>2
<1>2. ASSUME NEW m \in Msgs, SendInsert(m) PROVE WordsInv'
  <2>1. Grown(m, send.at)
    BY <1>2, InsertsGrow
  <2>2. SendOnBranch' /\ SetupOnBranch'
    BY <1>2, <2>1 DEF Grown, SendInsert, Insert, SendMay, InSetup, RowTypes, RunNamed, Named
  <2>3. Shown'
    BY <1>2, <2>1 DEF Grown, SendInsert, Insert, SendMay, InSetup, RowTypes, RunNamed, Named
  <2> QED BY <2>2, <2>3
<1>3. CASE SendPoint
  <2>1. SendOnBranch' /\ SetupOnBranch'
    BY <1>3 DEF SendPoint, SendMay, InSetup, RowTypes, RunNamed, Named
  <2>2. Shown'
    BY <1>3 DEF SendPoint, SendMay, InSetup, RowTypes, RunNamed, SendNamed, Named
  <2> QED BY <2>1, <2>2
<1>4. ASSUME NEW m \in Msgs, SendPast(m) PROVE WordsInv'
  <2>1. Grown(m, send.at)
    BY <1>4, InsertsGrow
  <2>2. SendOnBranch' /\ SetupOnBranch'
    BY <1>4, <2>1 DEF Grown, SendPast, Settled, SendMay, InSetup, RowTypes, RunNamed, Named
  <2>3. Shown'
    BY <1>4, <2>1 DEF Grown, SendPast, Settled, SendMay, InSetup, RowTypes, RunNamed, Named
  <2> QED BY <2>2, <2>3
<1>5. CASE SendEnqueue
  <2>1. SendOnBranch' /\ SetupOnBranch'
    BY <1>5 DEF SendEnqueue, Admit, SendMay, InSetup, RowTypes, RunNamed, Named
  <2>2. Shown'
    BY <1>5 DEF SendEnqueue, Admit, SendMay, InSetup, RowTypes, RunNamed, SendNamed, Named
  <2> QED BY <2>1, <2>2
<1>6. ASSUME NEW m \in Msgs, Regenerate(m) PROVE WordsInv'
  <2>1. SendOnBranch' /\ SetupOnBranch'
    BY <1>6 DEF Regenerate, Admit, RowTypes, RunNamed, Named
  <2>2. Shown'
    BY <1>6 DEF Regenerate, Admit, RowTypes, RunNamed, SendNamed, Named
  <2> QED BY <2>1, <2>2
<1>7. ASSUME NEW m \in Msgs, Decide(m) PROVE WordsInv'
  <2>1. SendOnBranch' /\ SetupOnBranch'
    BY <1>7 DEF Decide, Decidable, RowTypes, RunNamed, Named
  <2>2. Shown'
    BY <1>7 DEF Decide, Decidable, RowTypes, RunNamed, SendNamed, Named
  <2> QED BY <2>1, <2>2
<1>8. ASSUME NEW m \in Msgs, DecideFailed(m) PROVE WordsInv'
  <2>1. SendOnBranch' /\ SetupOnBranch'
    BY <1>8 DEF DecideFailed, Decidable, RowTypes, RunNamed, Named
  <2>2. Shown'
    BY <1>8 DEF DecideFailed, Decidable, RowTypes, RunNamed, SendNamed, Named
  <2> QED BY <2>1, <2>2
<1>9. CASE CancelQueued
  <2>1. SendOnBranch' /\ SetupOnBranch'
    BY <1>9 DEF CancelQueued, Unwait, RowTypes, RunNamed, Named
  <2>2. Shown'
    BY <1>9 DEF CancelQueued, Unwait, RowTypes, RunNamed, SendNamed, Named
  <2> QED BY <2>1, <2>2
<1>10. CASE CancelledEarly
  <2>1. SendOnBranch' /\ SetupOnBranch'
    BY <1>10 DEF CancelledEarly, Unwait, RowTypes, RunNamed, Named
  <2>2. Shown'
    BY <1>10 DEF CancelledEarly, Unwait, RowTypes, RunNamed, SendNamed, Named
  <2> QED BY <2>1, <2>2
<1>11. CASE Claim
  <2>1. SendOnBranch' /\ SetupOnBranch'
    BY <1>11 DEF Claim, RowTypes, RunNamed, Named
  <2>2. Shown'
    BY <1>11 DEF Claim, RowTypes, RunNamed, SendNamed, Named
  <2> QED BY <2>1, <2>2
<1>12. CASE ReadLeaf
  <2>1. SendOnBranch' /\ SetupOnBranch'
    BY <1>12 DEF ReadLeaf, UserLeaf, RowTypes, RunNamed, Named
  <2>2. Shown'
    BY <1>12 DEF ReadLeaf, UserLeaf, RowTypes, RunNamed, SendNamed, Named
  <2> QED BY <2>1, <2>2
<1>13. CASE Absorb
  <2>1. SendOnBranch' /\ SetupOnBranch'
    BY <1>13 DEF Absorb, RowTypes, RunNamed, Named
  <2>2. Shown'
    BY <1>13 DEF Absorb, RowTypes, RunNamed, SendNamed, Named
  <2> QED BY <2>1, <2>2
<1>14. ASSUME NEW m \in Msgs, InsertReply(m) PROVE WordsInv'
  <2>1. Grown(m, run.at)
    BY <1>14, InsertsGrow
  <2>2. SendOnBranch' /\ SetupOnBranch'
    BY <1>14, <2>1 DEF Grown, InsertReply, Insert, RowTypes, RunNamed, Named
  <2>3. Shown'
    BY <1>14, <2>1 DEF Grown, InsertReply, Insert, RowTypes, RunNamed, Named
  <2> QED BY <2>2, <2>3
<1>15. CASE PointLeaf
  <2>1. SendOnBranch' /\ SetupOnBranch'
    BY <1>15 DEF PointLeaf, RowTypes, RunNamed, Named
  <2>2. Shown'
    BY <1>15 DEF PointLeaf, RowTypes, RunNamed, SendNamed, Named
  <2> QED BY <2>1, <2>2
<1>16. CASE LoadContext
  <2>1. SendOnBranch' /\ SetupOnBranch'
    BY <1>16 DEF LoadContext, Settled, RowTypes, RunNamed, Named
  <2>2. Shown'
    BY <1>16 DEF LoadContext, Settled, RowTypes, RunNamed, SendNamed, Named
  <2> QED BY <2>1, <2>2
<1>17. ASSUME NEW c \in {"done", "waiting"}, EndTurn(c) PROVE WordsInv'
  <2>1. SendOnBranch' /\ SetupOnBranch'
    BY <1>17 DEF EndTurn, RowTypes, RunNamed, Named
  <2>2. Shown'
    BY <1>17 DEF EndTurn, RowTypes, RunNamed, SendNamed, Named
  <2> QED BY <2>1, <2>2
<1>18. ASSUME NEW m \in Msgs, FailEarly(m) PROVE WordsInv'
  <2>1. Grown(m, run.at)
    BY <1>18, InsertsGrow
  <2>2. SendOnBranch' /\ SetupOnBranch'
    BY <1>18, <2>1 DEF Grown, FailEarly, Insert, RowTypes, RunNamed, Named
  <2>3. Shown'
    BY <1>18, <2>1 DEF Grown, FailEarly, Insert, RowTypes, RunNamed, Named
  <2> QED BY <2>2, <2>3
<1>19. CASE Reaped
  <2>1. SendOnBranch' /\ SetupOnBranch'
    BY <1>19 DEF Reaped, RowTypes, RunNamed, Named
  <2>2. Shown'
    BY <1>19 DEF Reaped, RowTypes, RunNamed, SendNamed, Named
  <2> QED BY <2>1, <2>2
<1>20. CASE UNCHANGED vars
  BY <1>20 DEF vars, RowTypes, Named
<1> QED
  BY <1>1, <1>2, <1>3, <1>4, <1>5, <1>6, <1>7, <1>8, <1>9, <1>10, <1>11, <1>12, <1>13,
     <1>14, <1>15, <1>16, <1>17, <1>18, <1>19, <1>20
  DEF Next, RunStep, SendStep

\* If no send runs while a reply is being set up and no turn fails early over a branch
\* that moved on, an idle chat shows every message that has no reply.
THEOREM WordsShown == ~SendInSetup /\ ~FailOverFold => (Spec => []WordsKept)
<1> SUFFICES ASSUME ~SendInSetup, ~FailOverFold PROVE Spec => []WordsKept
  OBVIOUS
<1>1. Init => WordsInv
  BY DEF Init, WordsInv, SendOnBranch, SetupOnBranch, Shown, Users
<1>2. ShapeInv /\ ShapeInv' /\ WordsInv /\ [Next]_vars => WordsInv'
  BY StepWords
<1>3. WordsInv => WordsKept
  BY DEF WordsInv, Shown, WordsKept, Idle
<1> QED BY <1>1, <1>2, <1>3, ShapeHolds, PTL DEF Spec

\* Every action answers a message that is due, leaves it due, or says it was not answered.
LEMMA StepOwed ==
  ASSUME ~SendInSetup, ~SendOverDecision, ~FailOverFold,
         ShapeInv, ShapeInv', WordsInv, DecisionInv, Owed, [Next]_vars
  PROVE  Owed'
<1>0. RowTypes /\ RowTypes' /\ Named /\ RunNamed /\ SendNamed /\ Replies
  BY DEF ShapeInv
<1>s. /\ \A m \in Ids : Exists(m) => Path'[m] = Path[m] /\ (m \in Msgs => role'[m] = role[m])
      /\ \A u \in Msgs : Answered(u) => Answered(u)'
      /\ \A m \in Msgs : IsReply(m) => \A u \in Path[m] : Answered(u)
      /\ \A m \in Msgs : IsReply(m)' => \A u \in Path'[m] : Answered(u)'
  BY RowsStay, AnsweredStays DEF Answered
<1>p. Path[0] = {} /\ \A m \in Msgs : Path[m] = {m} \cup Path[parent[m]]
  BY <1>0, PathAt DEF RowTypes
<1> USE <1>0, <1>s, <1>p, MsgFacts
<1> USE DEF WordsInv, SendOnBranch, SetupOnBranch, DecisionInv, AbsorbAtUser, ResumeAtReply,
            Owed, Due, Users
<1>1. CASE SendBegin
  BY <1>1 DEF SendBegin, SendMay, InSetup, RowTypes, RunNamed, SendNamed, Named
<1>2. ASSUME NEW m \in Msgs, SendInsert(m) PROVE Owed'
  <2>1. Grown(m, send.at)
    BY <1>2, InsertsGrow
  <2> QED BY <1>2, <2>1
       DEF Grown, SendInsert, Insert, SendMay, InSetup, RowTypes, RunNamed, SendNamed, Named
<1>3. CASE SendPoint
  BY <1>3 DEF SendPoint, SendMay, InSetup, RowTypes, RunNamed, SendNamed, Named
<1>4. ASSUME NEW m \in Msgs, SendPast(m) PROVE Owed'
  <2>1. Grown(m, send.at)
    BY <1>4, InsertsGrow
  <2> QED BY <1>4, <2>1
       DEF Grown, SendPast, Settled, SendMay, InSetup, RowTypes, RunNamed, SendNamed, Named
<1>5. CASE SendEnqueue
  BY <1>5 DEF SendEnqueue, Admit, SendMay, InSetup, RowTypes, RunNamed, SendNamed, Named
<1>6. ASSUME NEW m \in Msgs, Regenerate(m) PROVE Owed'
  BY <1>6 DEF Regenerate, Admit, RowTypes, RunNamed, SendNamed, Named
<1>7. ASSUME NEW m \in Msgs, Decide(m) PROVE Owed'
  BY <1>7 DEF Decide, Decidable, RowTypes, RunNamed, SendNamed, Named
<1>8. ASSUME NEW m \in Msgs, DecideFailed(m) PROVE Owed'
  BY <1>8 DEF DecideFailed, Decidable, RowTypes, RunNamed, SendNamed, Named
<1>9. CASE CancelQueued
  BY <1>9 DEF CancelQueued, Unwait, Excuse, RowTypes, RunNamed, SendNamed, Named
<1>10. CASE CancelledEarly
  BY <1>10 DEF CancelledEarly, Unwait, Excuse, RowTypes, RunNamed, SendNamed, Named
<1>11. CASE Claim
  BY <1>11 DEF Claim, RowTypes, RunNamed, SendNamed, Named
<1>12. CASE ReadLeaf
  BY <1>12 DEF ReadLeaf, UserLeaf, RowTypes, RunNamed, SendNamed, Named
<1>13. CASE Absorb
  BY <1>13 DEF Absorb, RowTypes, RunNamed, SendNamed, Named
<1>14. ASSUME NEW m \in Msgs, InsertReply(m) PROVE Owed'
  <2>1. Grown(m, run.at)
    BY <1>14, InsertsGrow
  <2> QED BY <1>14, <2>1 DEF Grown, InsertReply, Insert, RowTypes, RunNamed, SendNamed, Named
<1>15. CASE PointLeaf
  BY <1>15 DEF PointLeaf, RowTypes, RunNamed, SendNamed, Named
<1>16. CASE LoadContext
  BY <1>16 DEF LoadContext, Settled, RowTypes, RunNamed, SendNamed, Named
<1>17. ASSUME NEW c \in {"done", "waiting"}, EndTurn(c) PROVE Owed'
  BY <1>17 DEF EndTurn, RowTypes, RunNamed, SendNamed, Named
<1>18. ASSUME NEW m \in Msgs, FailEarly(m) PROVE Owed'
  <2>1. Grown(m, run.at)
    BY <1>18, InsertsGrow
  <2> QED BY <1>18, <2>1 DEF Grown, FailEarly, Insert, RowTypes, RunNamed, SendNamed, Named
<1>19. CASE Reaped
  BY <1>19 DEF Reaped, Excuse, RowTypes, RunNamed, SendNamed, Named
<1>20. CASE UNCHANGED vars
  BY <1>20 DEF vars, RowTypes, Named, RunNamed
<1> QED
  BY <1>1, <1>2, <1>3, <1>4, <1>5, <1>6, <1>7, <1>8, <1>9, <1>10, <1>11, <1>12, <1>13,
     <1>14, <1>15, <1>16, <1>17, <1>18, <1>19, <1>20
  DEF Next, RunStep, SendStep

\* With sends kept out of a reply's set-up and of a decision under way, folding into a
\* pending turn, absorbing queued ones, cancelling and reaping leave no message of an
\* idle chat without a reply that nobody was told about.
THEOREM AllAnswered ==
  ~SendInSetup /\ ~SendOverDecision /\ ~FailOverFold => (Spec => []IdleMeansAnswered)
<1> SUFFICES ASSUME ~SendInSetup, ~SendOverDecision, ~FailOverFold
             PROVE  Spec => []IdleMeansAnswered
  OBVIOUS
<1> DEFINE Inv == WordsInv /\ DecisionInv /\ Owed
<1>1. Init => Inv
  BY DEF Init, WordsInv, SendOnBranch, SetupOnBranch, Shown, Users, Owed, DecisionInv, AbsorbAtUser,
         ResumeAtReply, NoOrphanDecision
<1>2. ShapeInv /\ ShapeInv' /\ Inv /\ [Next]_vars => Inv'
  BY StepWords, StepDecision, StepOwed
<1>3. ShapeInv /\ Inv => IdleMeansAnswered
  BY DEF Owed, Due, IdleMeansAnswered, Idle, ShapeInv, RunNamed
<1> QED BY <1>1, <1>2, <1>3, ShapeHolds, PTL DEF Spec
=============================================================================
