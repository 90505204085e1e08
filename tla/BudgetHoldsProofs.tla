-------------------------- MODULE BudgetHoldsProofs --------------------------
(***************************************************************************)
(* Proofs about BudgetHolds for any finite set of turns, any cap and any   *)
(* costs.  The cap is a bound on sums over all turns, so its proof needs   *)
(* what SumFunction does: the section on sums shows that the recursion     *)
(* behind it has a solution and how one changed value moves the total.     *)
(***************************************************************************)
EXTENDS BudgetHolds, FiniteSetTheorems, TLAPS

\* Where the task row stands while the admission, the remover or the runner acts.
Stages ==
    \A t \in Turns :
        /\ adm[t] # "out" => task[t] = "absent" /\ ~aged[t]
        /\ adm[t] = "reserved" => pending[t]
        /\ drop[t] = "owed" => task[t] = "deleted"
        /\ run[t] = "none" <=> task[t] \in {"absent", "queued", "deleted"}

\* A second settlement is impossible: what was billed is settled or past billing.
BilledStage ==
    \A t \in Turns :
        /\ settled[t] => run[t] \notin {"none", "streaming", "settling"}
        /\ billed[t] # 0 =>
             billed[t] = 1 /\ (settled[t] \/ run[t] \in {"finally", "done", "dead"})

HoldInv == TypeOK /\ Stages /\ BilledStage /\ HoldCoversTurn

\* With leases kept, no quiet end after a discard and a ledger that answers, spend is billed by
\* the time the runner can no longer do it.
SpendStage ==
    \A t \in Turns :
        /\ live[t] => cost[t] # 0
        /\ run[t] \in {"streaming", "settling"} => task[t] = "running"
        /\ run[t] \in {"commit", "tail"} => cost[t] = 0 \/ billed[t] = 1
        /\ run[t] = "failing" => task[t] = "running" \/ cost[t] = 0 \/ billed[t] = 1
        /\ settled[t] => billed[t] = 1
        /\ run[t] \in {"finally", "done"} => cost[t] = 0 \/ billed[t] = 1

SpendInv == HoldInv /\ SpendStage

\* The sums are never looked into: a reservation's guard is not part of the argument.
LEMMA InitHoldInv == Init => HoldInv
  BY BudgetAssumption
  DEF Init, HoldInv, TypeOK, Stages, BilledStage, HoldCoversTurn, BudgetAssumption

\* A reconciliation records the spend, or is lost with the database's answer.
LEMMA Reconciled ==
  ASSUME NEW t \in Turns, ReconcileUsage(t)
  PROVE  \/ LedgerOutage /\ UNCHANGED <<pending, billed>>
         \/ /\ pending' = [pending EXCEPT ![t] = FALSE]
            /\ billed' = [billed EXCEPT ![t] = @ + 1]
  BY DEF ReconcileUsage

\* Every action keeps the invariant, also when live runs are reaped.
LEMMA StepHoldInv ==
  ASSUME HoldInv, [Next]_vars
  PROVE  HoldInv'
<1> USE BudgetAssumption DEF HoldInv, TypeOK, Stages, BilledStage, HoldCoversTurn, BudgetAssumption
<1>1. ASSUME NEW t \in Turns, Reserve(t) PROVE HoldInv'
  BY <1>1 DEF Reserve
<1>2. ASSUME NEW t \in Turns, HandOff(t) PROVE HoldInv'
  BY <1>2 DEF HandOff
<1>3. ASSUME NEW t \in Turns, NotHanded(t) PROVE HoldInv'
  BY <1>3 DEF NotHanded
<1>4. ASSUME NEW t \in Turns, AdmissionReleases(t) PROVE HoldInv'
  <2>1. CASE pending' = pending
    BY <1>4, <2>1 DEF AdmissionReleases
  <2>2. CASE pending' = [pending EXCEPT ![t] = FALSE]
    BY <1>4, <2>2 DEF AdmissionReleases
  <2> QED
    BY <1>4, <2>1, <2>2 DEF AdmissionReleases, ReleaseHold
<1>5. ASSUME NEW t \in Turns, AdmissionDies(t) PROVE HoldInv'
  BY <1>5 DEF AdmissionDies
<1>6. ASSUME NEW t \in Turns, Remove(t) PROVE HoldInv'
  BY <1>6 DEF Remove
<1>7. ASSUME NEW t \in Turns, RemoverReleases(t) PROVE HoldInv'
  BY <1>7 DEF RemoverReleases, ReleaseHold
<1>8. ASSUME NEW t \in Turns, Claim(t) PROVE HoldInv'
  BY <1>8 DEF Claim, Goes
<1>9. ASSUME NEW t \in Turns, StreamEnds(t) PROVE HoldInv'
  BY <1>9 DEF StreamEnds, Goes
<1>10. ASSUME NEW t \in Turns, SettleSpend(t) PROVE HoldInv'
  <2>1. CASE UNCHANGED <<pending, billed>>
    BY <1>10, <2>1 DEF SettleSpend, Goes
  <2>2. CASE /\ pending' = [pending EXCEPT ![t] = FALSE]
             /\ billed' = [billed EXCEPT ![t] = @ + 1]
    BY <1>10, <2>2 DEF SettleSpend, Goes
  <2> QED
    BY <1>10, <2>1, <2>2, Reconciled DEF SettleSpend
<1>11. ASSUME NEW t \in Turns, StreamThrows(t) PROVE HoldInv'
  BY <1>11 DEF StreamThrows, Goes
<1>12. ASSUME NEW t \in Turns, Commit(t) PROVE HoldInv'
  BY <1>12 DEF Commit, Goes, Ended
<1>13. ASSUME NEW t \in Turns, Tail(t) PROVE HoldInv'
  BY <1>13 DEF Tail, Goes
<1>14. ASSUME NEW t \in Turns, FailCommit(t) PROVE HoldInv'
  BY <1>14 DEF FailCommit, Goes, Ended
<1>15. ASSUME NEW t \in Turns, FailBill(t) PROVE HoldInv'
  <2>1. CASE UNCHANGED <<pending, billed>>
    BY <1>15, <2>1 DEF FailBill, Goes
  <2>2. CASE ~UNCHANGED <<pending, billed>>
    <3>1. billed[t] = 0 /\ run[t] = "billing" /\ ~settled[t]
      BY <1>15, <2>2 DEF FailBill, Goes, Unbilled
    <3>2. /\ run' = [run EXCEPT ![t] = "finally"]
          /\ pending' = [pending EXCEPT ![t] = FALSE]
          /\ billed' = [billed EXCEPT ![t] = 1]
          /\ UNCHANGED <<aged, cost, live, task, adm, drop, settled>>
      <4>1. /\ pending' = [pending EXCEPT ![t] = FALSE]
            /\ billed' = [billed EXCEPT ![t] = @ + 1]
        BY <1>15, <2>2, Reconciled DEF FailBill
      <4> QED
        BY <1>15, <2>2, <3>1, <4>1 DEF FailBill, Goes
    <3>3. TypeOK'
      BY <3>2
    <3>4. Stages' /\ BilledStage'
      BY <3>1, <3>2
    <3>5. HoldCoversTurn'
      BY <3>1, <3>2
    <3> QED
      BY <3>3, <3>4, <3>5
  <2> QED
    BY <2>1, <2>2
<1>16. ASSUME NEW t \in Turns, Finally(t) PROVE HoldInv'
  <2>1. CASE pending' = pending
    BY <1>16, <2>1 DEF Finally, Goes
  <2>2. CASE pending' = [pending EXCEPT ![t] = FALSE]
    BY <1>16, <2>2 DEF Finally, Goes
  <2> QED
    BY <1>16, <2>1, <2>2 DEF Finally, Goes, ReleaseHold
<1>17. ASSUME NEW t \in Turns, Crash(t) PROVE HoldInv'
  BY <1>17 DEF Crash
<1>18. ASSUME NEW t \in Turns, Age(t) PROVE HoldInv'
  BY <1>18 DEF Age
<1>19. ASSUME NEW t \in Turns, NEW c \in Costs, Spend(t, c) PROVE HoldInv'
  BY <1>19 DEF Spend
<1>20. CASE Sweep
  BY <1>20 DEF Sweep, Swept, Dead, Stale, Orphan
<1>21. CASE UNCHANGED vars
  BY <1>21 DEF vars
<1>22. ASSUME NEW t \in Turns, Discard(t) PROVE HoldInv'
  BY <1>22 DEF Discard
<1> QED
  BY <1>1, <1>2, <1>3, <1>4, <1>5, <1>6, <1>7, <1>8, <1>9, <1>10, <1>11, <1>12, <1>13,
     <1>14, <1>15, <1>16, <1>17, <1>18, <1>19, <1>20, <1>21, <1>22
     DEF Next, AdmissionStep, RunStep

\* A cost is positive or nothing was spent.
LEMMA CostSign ==
  ASSUME TypeOK, NEW t \in Turns, ~(cost[t] > 0)
  PROVE  cost[t] = 0
<1>1. cost[t] \in Costs \cup {0} /\ Costs \subseteq Nat \ {0}
  BY BudgetAssumption DEF TypeOK, BudgetAssumption
<1>2. CASE cost[t] = 0
  BY <1>2
<1>3. CASE cost[t] \in Nat \ {0}
  BY <1>3
<1> QED
  BY <1>1, <1>2, <1>3, Zenon

\* Under the assumptions of SpendStage its stages are kept too.
LEMMA StepSpendStage ==
  ASSUME ~LeaseLoss, ~QuietDiscard, ~LedgerOutage, SpendInv, [Next]_vars
  PROVE  SpendStage'
<1> USE BudgetAssumption
    DEF SpendInv, HoldInv, TypeOK, Stages, BilledStage, SpendStage, BudgetAssumption
<1>1. ASSUME NEW t \in Turns, Reserve(t) PROVE SpendStage'
  BY <1>1 DEF Reserve
<1>2. ASSUME NEW t \in Turns, HandOff(t) PROVE SpendStage'
  BY <1>2 DEF HandOff
<1>3. ASSUME NEW t \in Turns, NotHanded(t) PROVE SpendStage'
  BY <1>3 DEF NotHanded
<1>4. ASSUME NEW t \in Turns, AdmissionReleases(t) PROVE SpendStage'
  BY <1>4 DEF AdmissionReleases, ReleaseHold
<1>5. ASSUME NEW t \in Turns, AdmissionDies(t) PROVE SpendStage'
  BY <1>5 DEF AdmissionDies
<1>6. ASSUME NEW t \in Turns, Remove(t) PROVE SpendStage'
  BY <1>6 DEF Remove
<1>7. ASSUME NEW t \in Turns, RemoverReleases(t) PROVE SpendStage'
  BY <1>7 DEF RemoverReleases, ReleaseHold
<1>8. ASSUME NEW t \in Turns, Claim(t) PROVE SpendStage'
  BY <1>8 DEF Claim, Goes
<1>9. ASSUME NEW t \in Turns, StreamEnds(t) PROVE SpendStage'
  BY <1>9 DEF StreamEnds, Goes
<1>10. ASSUME NEW t \in Turns, SettleSpend(t) PROVE SpendStage'
  BY <1>10 DEF SettleSpend, Goes, ReconcileUsage
<1>11. ASSUME NEW t \in Turns, StreamThrows(t) PROVE SpendStage'
  BY <1>11 DEF StreamThrows, Goes
<1>12. ASSUME NEW t \in Turns, Commit(t) PROVE SpendStage'
  BY <1>12 DEF Commit, Goes, Ended
<1>13. ASSUME NEW t \in Turns, Tail(t) PROVE SpendStage'
  BY <1>13 DEF Tail, Goes
<1>14. ASSUME NEW t \in Turns, FailCommit(t) PROVE SpendStage'
  BY <1>14 DEF FailCommit, Goes, Ended
<1>15. ASSUME NEW t \in Turns, FailBill(t) PROVE SpendStage'
  <2>1. CASE Unbilled(t)
    <3>1. billed' = [billed EXCEPT ![t] = @ + 1]
      BY <1>15, <2>1, Reconciled DEF FailBill
    <3>2. run[t] = "billing" /\ run' = [run EXCEPT ![t] = "finally"] /\ ~settled[t]
      BY <1>15, <2>1 DEF FailBill, Goes, Unbilled
    <3>3. billed[t] = 0
      BY <3>2
    <3> QED
      BY <1>15, <3>1, <3>2, <3>3 DEF FailBill
  <2>2. CASE ~Unbilled(t)
    <3>1. cost[t] = 0 \/ billed[t] = 1
      BY <2>2, CostSign DEF Unbilled
    <3> QED
      BY <1>15, <2>2, <3>1 DEF FailBill, Goes, Unbilled
  <2> QED
    BY <2>1, <2>2
<1>16. ASSUME NEW t \in Turns, Finally(t) PROVE SpendStage'
  BY <1>16 DEF Finally, Goes, ReleaseHold
<1>17. ASSUME NEW t \in Turns, Crash(t) PROVE SpendStage'
  BY <1>17 DEF Crash
<1>18. ASSUME NEW t \in Turns, Age(t) PROVE SpendStage'
  BY <1>18 DEF Age
<1>19. ASSUME NEW t \in Turns, NEW c \in Costs, Spend(t, c) PROVE SpendStage'
  BY <1>19 DEF Spend
<1>20. CASE Sweep
  BY <1>20 DEF Sweep, Swept, Dead, Stale, Orphan
<1>21. CASE UNCHANGED vars
  BY <1>21 DEF vars
<1>22. ASSUME NEW t \in Turns, Discard(t) PROVE SpendStage'
  BY <1>22 DEF Discard
<1> QED
  BY <1>1, <1>2, <1>3, <1>4, <1>5, <1>6, <1>7, <1>8, <1>9, <1>10, <1>11, <1>12, <1>13,
     <1>14, <1>15, <1>16, <1>17, <1>18, <1>19, <1>20, <1>21, <1>22
     DEF Next, AdmissionStep, RunStep

\* The invariant holds in every state, whatever crashes, failed releases, reaped runs
\* and sweeps occur.
LEMMA HoldInvariant == Spec => []HoldInv
  BY InitHoldInv, StepHoldInv, PTL DEF Spec

\* Holds, ledger rows, tasks and runners keep their types, for any costs.
THEOREM HoldsTyped == Spec => []TypeOK
<1>1. HoldInv => TypeOK
  BY DEF HoldInv
<1> QED BY <1>1, HoldInvariant, PTL

\* No turn's spend is recorded twice: the catch block bills only what the success
\* path has not settled, and neither runs again.
THEOREM BilledAtMostOnce == Spec => []BilledOnce
<1>1. HoldInv => BilledOnce
  BY DEF HoldInv, BilledStage, BilledOnce
<1> QED BY <1>1, HoldInvariant, PTL

\* No live turn loses its reservation to an admission's release, a remover or a sweep.
THEOREM HoldsSafe == Spec => []HoldCoversTurn
<1>1. HoldInv => HoldCoversTurn
  BY DEF HoldInv
<1> QED BY <1>1, HoldInvariant, PTL

\* As long as no live run is reaped, no turn ends quietly on discarded attempts alone and the ledger
\* answers, every run that comes to its end has its real spend in the ledger.
THEOREM SpendKept == ~LeaseLoss /\ ~QuietDiscard /\ ~LedgerOutage => (Spec => []SpendBilled)
<1> SUFFICES ASSUME ~LeaseLoss, ~QuietDiscard, ~LedgerOutage PROVE Spec => []SpendBilled
  OBVIOUS
<1>1. Init => SpendInv
  <2>1. Init => SpendStage
    BY DEF Init, SpendStage
  <2> QED
    BY <2>1, InitHoldInv DEF SpendInv
<1>2. SpendInv /\ [Next]_vars => SpendInv'
  BY StepHoldInv, StepSpendStage DEF SpendInv
<1>3. SpendInv => SpendBilled
  <2> SUFFICES ASSUME SpendInv, NEW t \in Turns, run[t] = "done", cost[t] > 0
               PROVE billed[t] = 1
    BY DEF SpendBilled
  <2> QED
    BY BudgetAssumption DEF SpendInv, HoldInv, TypeOK, SpendStage, BudgetAssumption
<1> QED
  BY <1>1, <1>2, <1>3, PTL DEF Spec

-----------------------------------------------------------------------------
(* Sums over a finite set.                                                 *)

\* What the community modules' sums are, element by element.
Pick(s) == CHOOSE x \in s : TRUE
SumStep(f, g, s) == IF s = {} THEN 0 ELSE f[Pick(s)] + g[s \ {Pick(s)}]
Sums(f, S) == CHOOSE g : g = [s \in SUBSET S |-> SumStep(f, g, s)]

\* A non-empty set of numbers has a least element: induction, without an operator.
LEMMA LeastOfAny ==
  ASSUME NEW T \in SUBSET Nat, T # {}
  PROVE  \E n \in T : \A k \in T : n <= k
<1> DEFINE R == {ss \in Nat \X Nat : ss[1] < ss[2]}
<1>0. IsWellFoundedOn(R, Nat)
  <2>1. R = OpToRel(<, Nat)
    BY ZenonT(20) DEF OpToRel
  <2> QED
    BY <2>1, NatLessThanWellFounded, Zenon
<1> HIDE DEF R
<1>1. \E x \in T : \A y \in T : <<y, x>> \notin R
  BY <1>0, WFMin
<1>2. PICK x \in T : \A y \in T : <<y, x>> \notin R
  BY <1>1
<1>3. ASSUME NEW y \in T PROVE x <= y
  <2>1. <<y, x>> \notin R
    BY <1>2
  <2>2. x \in Nat /\ y \in Nat
    OBVIOUS
  <2>3. ~(y < x)
    BY <2>1, <2>2 DEF R
  <2> QED BY <2>2, <2>3
<1> QED
  BY <1>3

\* A subset of a finite set has a size, and one element fewer makes it smaller.
LEMMA Sizes ==
  ASSUME NEW S, IsFiniteSet(S), NEW s \in SUBSET S
  PROVE  /\ Cardinality(s) \in Nat /\ Cardinality(s) <= Cardinality(S)
         /\ s # {} => /\ Pick(s) \in s
                      /\ Cardinality(s) # 0
                      /\ Cardinality(s \ {Pick(s)}) = Cardinality(s) - 1
<1>1. IsFiniteSet(s) /\ Cardinality(s) <= Cardinality(S)
  BY FS_Subset
<1>2. Cardinality(s) \in Nat
  BY <1>1, FS_CardinalityType
<1>3. ASSUME s # {} PROVE Pick(s) \in s /\ Cardinality(s) # 0
  BY <1>1, <1>3, FS_EmptySet DEF Pick
<1>4. ASSUME s # {} PROVE Cardinality(s \ {Pick(s)}) = Cardinality(s) - 1
  BY <1>1, <1>3, <1>4, FS_RemoveElement
<1> QED BY <1>1, <1>2, <1>3, <1>4

\* Induction over the subsets of a finite set: some counterexample is minimal.
LEMMA SmallestOf ==
  ASSUME NEW S, IsFiniteSet(S), NEW B \in SUBSET (SUBSET S), B # {}
  PROVE  \E s \in B : s = {} \/ s \ {Pick(s)} \notin B
<1> DEFINE T == {Cardinality(s) : s \in B}
<1>1. T \in SUBSET Nat /\ T # {}
  BY Sizes
<1>2. PICK n \in T : \A k \in T : n <= k
  BY <1>1, LeastOfAny
<1>3. PICK s \in B : Cardinality(s) = n
  OBVIOUS
<1>4. CASE s = {}
  BY <1>4
<1>5. CASE s # {}
  <2>1. Cardinality(s \ {Pick(s)}) = n - 1 /\ n \in Nat
    BY <1>3, <1>5, Sizes
  <2>2. n - 1 \notin T
    BY <2>1, <1>2
  <2> QED BY <2>1, <2>2, <1>3
<1> QED BY <1>4, <1>5

\* The recursion of a sum has a solution: one for the subsets of size n extends to n + 1.
LEMMA SumExists ==
  ASSUME NEW S, IsFiniteSet(S), NEW f \in [S -> Nat]
  PROVE  \E g : g = [s \in SUBSET S |-> SumStep(f, g, s)]
<1> DEFINE Upto(n) == {s \in SUBSET S : Cardinality(s) <= n}
           Solves(g, n) == g \in [Upto(n) -> Nat] /\ \A s \in Upto(n) : g[s] = SumStep(f, g, s)
           Bad == {n \in Nat : ~ \E g : Solves(g, n)}
<1>1. \E g : Solves(g, 0)
  <2> DEFINE g == [s \in Upto(0) |-> 0]
  <2>1. ASSUME NEW s \in Upto(0) PROVE s = {}
    <3>1. Cardinality(s) \in Nat /\ (s # {} => Cardinality(s) # 0)
      BY Sizes
    <3>2. Cardinality(s) <= 0
      OBVIOUS
    <3> QED BY <3>1, <3>2
  <2>2. Solves(g, 0)
    BY <2>1 DEF SumStep
  <2> QED BY <2>2
<1>2. ASSUME NEW n \in Nat, NEW g, Solves(g, n) PROVE \E h : Solves(h, n + 1)
  <2> DEFINE h == [s \in Upto(n + 1) |-> SumStep(f, g, s)]
  <2>1. ASSUME NEW s \in Upto(n + 1), s # {}
        PROVE  /\ Pick(s) \in S /\ s \ {Pick(s)} \in Upto(n) /\ s \ {Pick(s)} \in Upto(n + 1)
    BY <2>1, Sizes
  <2>2. ASSUME NEW s \in Upto(n) PROVE s \in Upto(n + 1) /\ h[s] = g[s]
    <3>1. Cardinality(s) <= n + 1
      <4>1. Cardinality(s) \in Nat
        BY Sizes
      <4>2. Cardinality(s) <= n
        OBVIOUS
      <4> QED BY <4>1, <4>2
    <3>2. s \in Upto(n + 1)
      BY <3>1
    <3> QED BY <3>2, <1>2
  <2>3. ASSUME NEW s \in Upto(n + 1) PROVE h[s] \in Nat /\ h[s] = SumStep(f, h, s)
    <3>1. CASE s = {}
      BY <3>1 DEF SumStep
    <3>2. CASE s # {}
      <4>1. s \ {Pick(s)} \in Upto(n) /\ Pick(s) \in S
        BY <3>2, <2>1
      <4>2. h[s \ {Pick(s)}] = g[s \ {Pick(s)}] /\ g[s \ {Pick(s)}] \in Nat
        BY <4>1, <2>2, <1>2
      <4>3. h[s] = f[Pick(s)] + g[s \ {Pick(s)}]
        BY <3>2 DEF SumStep
      <4> HIDE DEF h, Upto
      <4> QED BY <3>2, <4>1, <4>2, <4>3 DEF SumStep
    <3> QED BY <3>1, <3>2
  <2>4. h \in [Upto(n + 1) -> Nat]
    BY <2>3
  <2>5. Solves(h, n + 1)
    <3> HIDE DEF h, Upto
    <3> QED BY <2>3, <2>4
  <2> QED BY <2>5
<1>3. ASSUME Bad # {} PROVE FALSE
  <2> HIDE DEF Solves
  <2>1. PICK n \in Bad : \A k \in Bad : n <= k
    BY <1>3, LeastOfAny
  <2>2. n \in Nat /\ n # 0
    BY <1>1
  <2>3. n - 1 \in Nat /\ n - 1 \notin Bad
    BY <2>1, <2>2
  <2>4. PICK g : Solves(g, n - 1)
    BY <2>3
  <2>5. \E h : Solves(h, (n - 1) + 1)
    BY <2>3, <2>4, <1>2
  <2> QED BY <2>2, <2>5
<1>4. Cardinality(S) \in Nat
  BY Sizes
<1>5. PICK g : Solves(g, Cardinality(S))
  BY <1>3, <1>4
<1>6. Upto(Cardinality(S)) = SUBSET S
  BY Sizes
<1>7. g = [s \in SUBSET S |-> SumStep(f, g, s)]
  BY <1>5, <1>6
<1> QED BY <1>7

\* So a sum satisfies its recursion, and is a number.
LEMMA SumAt ==
  ASSUME NEW S, IsFiniteSet(S), NEW f \in [S -> Nat]
  PROVE  \A s \in SUBSET S : Sums(f, S)[s] \in Nat /\ Sums(f, S)[s] = SumStep(f, Sums(f, S), s)
<1> DEFINE g == Sums(f, S)
<1>1. g = [s \in SUBSET S |-> SumStep(f, g, s)]
  BY SumExists DEF Sums
<1> HIDE DEF g
<1>2. \A s \in SUBSET S : g[s] = SumStep(f, g, s)
  BY <1>1
<1> DEFINE Bad == {s \in SUBSET S : g[s] \notin Nat}
<1>3. ASSUME Bad # {} PROVE FALSE
  <2>1. PICK s \in Bad : s = {} \/ s \ {Pick(s)} \notin Bad
    BY <1>3, SmallestOf
  <2>2. CASE s = {}
    BY <2>2, <1>2 DEF SumStep
  <2>3. CASE s # {}
    <3>1. Pick(s) \in S /\ f[Pick(s)] \in Nat
      BY <2>3, Sizes
    <3>2. g[s \ {Pick(s)}] \in Nat
      BY <2>1, <2>3
    <3> QED BY <2>3, <3>1, <3>2, <1>2 DEF SumStep
  <2> QED BY <2>2, <2>3
<1>4. \A s \in SUBSET S : g[s] \in Nat /\ g[s] = SumStep(f, g, s)
  BY <1>2, <1>3
<1> QED BY <1>4 DEF g

\* The sum of a function, as the ledger's statement takes it.
LEMMA TotalIs ==
  ASSUME NEW S, NEW f \in [S -> Nat]
  PROVE  SumFunction(f) = Sums(f, S)[S]
<1>1. SumFunction(f) = Sums(f, DOMAIN f)[DOMAIN f]
  BY DEF SumFunction, SumFunctionOnSet, FoldFunctionOnSet, MapThenFoldSet, Sums, SumStep, Pick
<1> QED BY <1>1

\* If no term grows, but for one that grows by at most d, neither does the sum.
LEMMA TotalGrows ==
  ASSUME NEW S, IsFiniteSet(S), NEW f \in [S -> Nat], NEW h \in [S -> Nat], NEW t, NEW d \in Int,
         \A x \in S : h[x] <= f[x] + (IF x = t THEN d ELSE 0)
  PROVE  /\ SumFunction(f) \in Nat /\ SumFunction(h) \in Nat
         /\ SumFunction(h) <= SumFunction(f) + (IF t \in S THEN d ELSE 0)
<1> DEFINE F == Sums(f, S)
           H == Sums(h, S)
           Bad == {s \in SUBSET S : ~(H[s] <= F[s] + (IF t \in s THEN d ELSE 0))}
<1>0. \A s \in SUBSET S : /\ F[s] \in Nat /\ F[s] = SumStep(f, F, s)
                          /\ H[s] \in Nat /\ H[s] = SumStep(h, H, s)
  BY SumAt
<1> HIDE DEF F, H
<1>1. ASSUME Bad # {} PROVE FALSE
  <2>1. PICK s \in Bad : s = {} \/ s \ {Pick(s)} \notin Bad
    BY <1>1, SmallestOf
  <2>2. CASE s = {}
    <3>1. H[s] = 0 /\ F[s] = 0 /\ t \notin s
      BY <2>2, <1>0 DEF SumStep
    <3> QED BY <2>1, <3>1
  <2>3. CASE s # {}
    <3> DEFINE x == Pick(s)
               r == s \ {x}
    <3>1. x \in s /\ x \in S /\ r \in SUBSET S
      BY <2>3, Sizes
    <3> HIDE DEF x
    <3>2. H[r] <= F[r] + (IF t \in r THEN d ELSE 0)
      BY <2>1, <2>3, <3>1 DEF x
    <3>3. /\ H[s] = h[x] + H[r] /\ F[s] = f[x] + F[r]
          /\ h[x] \in Nat /\ f[x] \in Nat /\ H[r] \in Nat /\ F[r] \in Nat
      BY <2>3, <3>1, <1>0 DEF SumStep, x
    <3>4. h[x] <= f[x] + (IF x = t THEN d ELSE 0)
      BY <3>1
    <3>5. H[s] <= F[s] + (IF t \in s THEN d ELSE 0)
      <4>1. CASE x = t
        BY <4>1, <3>1, <3>2, <3>3, <3>4
      <4>2. CASE x # t
        BY <4>2, <3>1, <3>2, <3>3, <3>4
      <4> QED BY <4>1, <4>2
    <3> QED BY <3>5, <2>1
  <2> QED BY <2>2, <2>3
<1>2. \A s \in SUBSET S : H[s] <= F[s] + (IF t \in s THEN d ELSE 0)
  BY <1>1
<1>3. SumFunction(f) = F[S] /\ SumFunction(h) = H[S]
  BY TotalIs DEF F, H
<1>4. S \in SUBSET S
  OBVIOUS
<1> QED BY <1>0, <1>2, <1>3, <1>4

-----------------------------------------------------------------------------
(* The cap.                                                                *)

\* With leases kept, no sweep before a failure's billing and no quiet end after a discard, the
\* hold is there whenever the real figure takes its place.
CapStage ==
    \A t \in Turns :
        /\ live[t] => cost[t] # 0
        /\ run[t] \in {"streaming", "settling"} => task[t] = "running"
        /\ run[t] \in {"commit", "tail"} => settled[t] \/ cost[t] = 0
        /\ run[t] = "failing" /\ ~settled[t] /\ cost[t] # 0 => task[t] = "running" /\ pending[t]
        /\ run[t] = "billing" /\ ~settled[t] /\ cost[t] # 0 =>
             task[t] \in {"running", "ended"} /\ pending[t]

CapInv == HoldInv /\ CapStage

\* Under these assumptions the stages are kept.
LEMMA StepCapStage ==
  ASSUME ~LeaseLoss, ~SweepBeforeBill, ~QuietDiscard, CapInv, [Next]_vars
  PROVE  CapStage'
<1> USE BudgetAssumption
    DEF CapInv, HoldInv, TypeOK, Stages, BilledStage, HoldCoversTurn, CapStage, BudgetAssumption
<1>1. ASSUME NEW t \in Turns, Reserve(t) PROVE CapStage'
  BY <1>1 DEF Reserve
<1>2. ASSUME NEW t \in Turns, HandOff(t) PROVE CapStage'
  BY <1>2 DEF HandOff
<1>3. ASSUME NEW t \in Turns, NotHanded(t) PROVE CapStage'
  BY <1>3 DEF NotHanded
<1>4. ASSUME NEW t \in Turns, AdmissionReleases(t) PROVE CapStage'
  BY <1>4 DEF AdmissionReleases, ReleaseHold
<1>5. ASSUME NEW t \in Turns, AdmissionDies(t) PROVE CapStage'
  BY <1>5 DEF AdmissionDies
<1>6. ASSUME NEW t \in Turns, Remove(t) PROVE CapStage'
  BY <1>6 DEF Remove
<1>7. ASSUME NEW t \in Turns, RemoverReleases(t) PROVE CapStage'
  BY <1>7 DEF RemoverReleases, ReleaseHold
<1>8. ASSUME NEW t \in Turns, Claim(t) PROVE CapStage'
  BY <1>8 DEF Claim, Goes
<1>9. ASSUME NEW t \in Turns, StreamEnds(t) PROVE CapStage'
  BY <1>9 DEF StreamEnds, Goes
<1>10. ASSUME NEW t \in Turns, SettleSpend(t) PROVE CapStage'
  BY <1>10 DEF SettleSpend, Goes, ReconcileUsage
<1>11. ASSUME NEW t \in Turns, StreamThrows(t) PROVE CapStage'
  BY <1>11 DEF StreamThrows, Goes
<1>12. ASSUME NEW t \in Turns, Commit(t) PROVE CapStage'
  BY <1>12 DEF Commit, Goes, Ended
<1>13. ASSUME NEW t \in Turns, Tail(t) PROVE CapStage'
  BY <1>13 DEF Tail, Goes
<1>14. ASSUME NEW t \in Turns, FailCommit(t) PROVE CapStage'
  BY <1>14 DEF FailCommit, Goes, Ended
<1>15. ASSUME NEW t \in Turns, FailBill(t) PROVE CapStage'
  <2>1. pending' = pending \/ pending' = [pending EXCEPT ![t] = FALSE]
    BY <1>15, Reconciled DEF FailBill
  <2>2. run' = [run EXCEPT ![t] = "finally"] /\ UNCHANGED <<cost, live, task, settled>>
    BY <1>15 DEF FailBill, Goes
  <2> QED BY <2>1, <2>2
<1>16. ASSUME NEW t \in Turns, Finally(t) PROVE CapStage'
  BY <1>16 DEF Finally, Goes, ReleaseHold
<1>17. ASSUME NEW t \in Turns, Crash(t) PROVE CapStage'
  BY <1>17 DEF Crash
<1>18. ASSUME NEW t \in Turns, Age(t) PROVE CapStage'
  BY <1>18 DEF Age
<1>19. ASSUME NEW t \in Turns, NEW c \in Costs, Spend(t, c) PROVE CapStage'
  BY <1>19 DEF Spend
<1>20. CASE Sweep
  BY <1>20 DEF Sweep, Swept, Dead, Stale, Orphan
<1>21. CASE UNCHANGED vars
  BY <1>21 DEF vars
<1>22. ASSUME NEW t \in Turns, Discard(t) PROVE CapStage'
  BY <1>22 DEF Discard
<1> QED
  BY <1>1, <1>2, <1>3, <1>4, <1>5, <1>6, <1>7, <1>8, <1>9, <1>10, <1>11, <1>12, <1>13,
     <1>14, <1>15, <1>16, <1>17, <1>18, <1>19, <1>20, <1>21, <1>22
     DEF Next, AdmissionStep, RunStep

LEMMA CostsAreNat == \A c \in Costs \cup {0} : c \in Nat
<1>1. Costs \subseteq Nat \ {0}
  BY BudgetAssumption DEF BudgetAssumption
<1> QED BY <1>1

\* The sum of zeros, at the start.
LEMMA InitSums == Init => Committed = 0 /\ Reserved = 0
<1> SUFFICES ASSUME Init PROVE Committed = 0 /\ Reserved = 0
  OBVIOUS
<1> DEFINE z == [x \in Turns |-> 0]
<1>1. Committed = SumFunction(z) /\ Reserved = SumFunction(z)
  <2>1. [x \in Turns |-> billed[x] * cost[x]] = z
    BY DEF Init
  <2>2. [x \in Turns |-> IF pending[x] THEN Estimate ELSE 0] = z
    BY DEF Init
  <2> QED BY <2>1, <2>2 DEF Committed, Reserved
<1>2. IsFiniteSet(Turns) /\ Turns \in SUBSET Turns /\ z \in [Turns -> Nat]
  BY BudgetAssumption DEF BudgetAssumption
<1>z. \A x \in Turns : z[x] = 0
  OBVIOUS
<1> HIDE DEF z
<1> DEFINE F == Sums(z, Turns)
           Bad == {s \in SUBSET Turns : F[s] # 0}
<1>3. \A s \in SUBSET Turns : F[s] = SumStep(z, F, s)
  BY <1>2, SumAt
<1> HIDE DEF F
<1>4. ASSUME Bad # {} PROVE FALSE
  <2>1. PICK s \in Bad : s = {} \/ s \ {Pick(s)} \notin Bad
    BY <1>2, <1>4, SmallestOf
  <2>2. s # {} /\ F[s \ {Pick(s)}] = 0
    BY <1>3, <2>1 DEF SumStep
  <2>3. s \in SUBSET Turns /\ F[s] # 0
    BY <2>1
  <2>4. z[Pick(s)] = 0
    BY <1>2, <1>z, <2>2, <2>3, Sizes
  <2>5. F[s] = z[Pick(s)] + F[s \ {Pick(s)}]
    BY <1>3, <2>2, <2>3 DEF SumStep
  <2>6. F[s] = 0 + 0
    BY <2>2, <2>4, <2>5, Zenon
  <2> QED BY <2>3, <2>6
<1>5. SumFunction(z) = F[Turns]
  BY <1>2, TotalIs DEF F
<1>6. SumFunction(z) = 0
  BY <1>2, <1>4, <1>5
<1> QED BY <1>1, <1>6

\* What a turn's step does to the two sums.
LEMMA CommittedGrows ==
  ASSUME TypeOK, TypeOK', NEW t, NEW d \in Int,
         \A x \in Turns : billed'[x] * cost'[x] <= billed[x] * cost[x] + (IF x = t THEN d ELSE 0)
  PROVE  /\ Committed \in Nat /\ Committed' \in Nat
         /\ Committed' <= Committed + (IF t \in Turns THEN d ELSE 0)
<1> DEFINE f == [x \in Turns |-> billed[x] * cost[x]]
           h == [x \in Turns |-> billed'[x] * cost'[x]]
<1>1. Committed = SumFunction(f) /\ Committed' = SumFunction(h)
  BY DEF Committed
<1>2. ASSUME NEW x \in Turns PROVE billed[x] * cost[x] \in Nat /\ billed'[x] * cost'[x] \in Nat
  <2>1. billed[x] \in Nat /\ billed'[x] \in Nat
    BY DEF TypeOK
  <2>2. cost[x] \in Nat /\ cost'[x] \in Nat
    BY CostsAreNat DEF TypeOK
  <2> QED BY <2>1, <2>2
<1>3. f \in [Turns -> Nat] /\ h \in [Turns -> Nat]
  BY <1>2
<1>4. IsFiniteSet(Turns)
  BY BudgetAssumption DEF BudgetAssumption
<1>5. \A x \in Turns : h[x] <= f[x] + (IF x = t THEN d ELSE 0)
  OBVIOUS
<1> HIDE DEF f, h
<1>6. /\ SumFunction(f) \in Nat /\ SumFunction(h) \in Nat
      /\ SumFunction(h) <= SumFunction(f) + (IF t \in Turns THEN d ELSE 0)
  BY <1>3, <1>4, <1>5, TotalGrows, Zenon
<1> QED BY <1>1, <1>6

Held(t) == IF pending[t] THEN Estimate ELSE 0

LEMMA ReservedGrows ==
  ASSUME NEW t, NEW d \in Int,
         \A x \in Turns : Held(x)' <= Held(x) + (IF x = t THEN d ELSE 0)
  PROVE  /\ Reserved \in Nat /\ Reserved' \in Nat
         /\ Reserved' <= Reserved + (IF t \in Turns THEN d ELSE 0)
<1> DEFINE f == [x \in Turns |-> IF pending[x] THEN Estimate ELSE 0]
           h == [x \in Turns |-> IF pending'[x] THEN Estimate ELSE 0]
<1>1. Reserved = SumFunction(f) /\ Reserved' = SumFunction(h)
  BY DEF Reserved
<1>2. IsFiniteSet(Turns)
  BY BudgetAssumption DEF BudgetAssumption
<1>3. f \in [Turns -> Nat] /\ h \in [Turns -> Nat]
  BY BudgetAssumption DEF BudgetAssumption
<1>4. \A x \in Turns : h[x] <= f[x] + (IF x = t THEN d ELSE 0)
  BY DEF Held
<1> HIDE DEF f, h
<1>5. /\ SumFunction(f) \in Nat /\ SumFunction(h) \in Nat
      /\ SumFunction(h) <= SumFunction(f) + (IF t \in Turns THEN d ELSE 0)
  BY <1>2, <1>3, <1>4, TotalGrows, Zenon
<1> QED BY <1>1, <1>5

\* What billing a turn that holds its estimate does to the cap.
LEMMA SettledFits ==
  ASSUME TypeOK, TypeOK', \A c \in Costs : c <= Estimate, WithinCap,
         NEW t \in Turns, pending[t], billed[t] = 0,
         pending' = [pending EXCEPT ![t] = FALSE],
         billed' = [billed EXCEPT ![t] = @ + 1], cost' = cost
  PROVE  WithinCap'
<1>0. Estimate \in Nat /\ Cap \in Nat
  BY BudgetAssumption DEF BudgetAssumption
<1>1. cost[t] \in Nat /\ cost[t] <= Estimate
  <2>1. Costs \subseteq Nat \ {0} /\ cost[t] \in Costs \cup {0}
    BY BudgetAssumption DEF BudgetAssumption, TypeOK
  <2>2. CASE cost[t] \in Costs
    BY <2>1, <2>2
  <2>3. CASE cost[t] = 0
    BY <1>0, <2>3
  <2> QED BY <2>1, <2>2, <2>3
<1>2. Committed \in Nat /\ Committed' \in Nat /\ Committed' <= Committed + cost[t]
  <2>1. ASSUME NEW x \in Turns
        PROVE  billed'[x] * cost'[x] <= billed[x] * cost[x] + (IF x = t THEN cost[t] ELSE 0)
    <3>1. CASE x = t
      <4>1. billed'[x] = 1 /\ billed[x] = 0 /\ cost'[x] = cost[t]
        BY <3>1 DEF TypeOK
      <4> QED BY <1>1, <3>1, <4>1
    <3>2. CASE x # t
      <4>1. billed'[x] * cost'[x] = billed[x] * cost[x]
        BY <3>2 DEF TypeOK
      <4>2. billed[x] * cost[x] \in Int
        BY CostsAreNat DEF TypeOK
      <4> QED BY <3>2, <4>1, <4>2
    <3> QED BY <3>1, <3>2
  <2>2. cost[t] \in Int
    BY <1>1
  <2>3. /\ Committed \in Nat /\ Committed' \in Nat
        /\ Committed' <= Committed + (IF t \in Turns THEN cost[t] ELSE 0)
    BY <2>1, <2>2, CommittedGrows
  <2> QED BY <2>3
<1>3. Reserved \in Nat /\ Reserved' \in Nat /\ Reserved' <= Reserved - Estimate
  <2>1. ASSUME NEW x \in Turns PROVE Held(x)' <= Held(x) + (IF x = t THEN -Estimate ELSE 0)
    BY <1>0 DEF Held, TypeOK
  <2>2. -Estimate \in Int
    BY <1>0
  <2>3. /\ Reserved \in Nat /\ Reserved' \in Nat
        /\ Reserved' <= Reserved + (IF t \in Turns THEN -Estimate ELSE 0)
    BY <2>1, <2>2, ReservedGrows
  <2> QED BY <1>0, <2>3
<1>4. Committed + Reserved < Cap
  BY DEF WithinCap
<1>5. Committed' + Reserved' < Cap
  <2> DEFINE c == Committed
             r == Reserved
             cn == Committed'
             rn == Reserved'
             e == cost[t]
  <2>1. /\ c \in Nat /\ cn \in Nat /\ r \in Nat /\ rn \in Nat /\ e \in Nat
        /\ cn <= c + e /\ e <= Estimate /\ rn <= r - Estimate /\ c + r < Cap
    BY <1>1, <1>2, <1>3, <1>4
  <2> HIDE DEF c, r, cn, rn, e
  <2>2. cn + rn < Cap
    BY <1>0, <2>1
  <2> QED BY <2>2 DEF cn, rn
<1> QED BY <1>5 DEF WithinCap

\* A step that settles nothing and takes no hold leaves the sums or lowers them.
LEMMA QuietFits ==
  ASSUME TypeOK, TypeOK', WithinCap,
         \A x \in Turns : pending'[x] => pending[x],
         \A x \in Turns : billed'[x] = billed[x] /\ (cost'[x] = cost[x] \/ billed[x] = 0)
  PROVE  WithinCap'
<1>0. Estimate \in Nat /\ Cap \in Nat
  BY BudgetAssumption DEF BudgetAssumption
<1> DEFINE t == CHOOSE x : x \notin Turns
           d == 0
<1>d. d \in Int /\ d = 0
  OBVIOUS
<1> HIDE DEF t, d
<1>1. Committed \in Nat /\ Committed' \in Nat /\ Committed' <= Committed
  <2>1. ASSUME NEW x \in Turns
        PROVE  billed'[x] * cost'[x] <= billed[x] * cost[x] + (IF x = t THEN d ELSE 0)
    <3>1. /\ cost[x] \in Nat /\ cost'[x] \in Nat
          /\ billed[x] \in Nat /\ billed'[x] \in Nat
      BY CostsAreNat DEF TypeOK
    <3>2. billed'[x] * cost'[x] = billed[x] * cost[x]
      BY <3>1
    <3>3. billed[x] * cost[x] \in Int
      BY <3>1
    <3> QED BY <1>d, <3>2, <3>3
  <2>2. /\ Committed \in Nat /\ Committed' \in Nat
        /\ Committed' <= Committed + (IF t \in Turns THEN d ELSE 0)
    BY <1>d, <2>1, CommittedGrows
  <2> QED BY <1>d, <2>2
<1>2. Reserved \in Nat /\ Reserved' \in Nat /\ Reserved' <= Reserved
  <2>1. ASSUME NEW x \in Turns PROVE Held(x)' <= Held(x) + (IF x = t THEN d ELSE 0)
    BY <1>0, <1>d DEF Held, TypeOK
  <2>2. /\ Reserved \in Nat /\ Reserved' \in Nat
        /\ Reserved' <= Reserved + (IF t \in Turns THEN d ELSE 0)
    BY <1>d, <2>1, ReservedGrows
  <2> QED BY <1>d, <2>2
<1>3. Committed + Reserved < Cap
  BY DEF WithinCap
<1>4. Committed' + Reserved' < Cap
  <2> DEFINE c == Committed
             r == Reserved
             cn == Committed'
             rn == Reserved'
  <2>1. /\ c \in Nat /\ cn \in Nat /\ r \in Nat /\ rn \in Nat
        /\ cn <= c /\ rn <= r /\ c + r < Cap
    BY <1>1, <1>2, <1>3
  <2> HIDE DEF c, r, cn, rn
  <2>2. cn + rn < Cap
    BY <1>0, <2>1
  <2> QED BY <2>2 DEF cn, rn
<1> QED BY <1>4 DEF WithinCap

\* A reservation is made only where it fits.
LEMMA ReserveFits ==
  ASSUME TypeOK, TypeOK', NEW t \in Turns, Reserve(t)
  PROVE  WithinCap'
<1>0. Estimate \in Nat /\ Cap \in Nat
  BY BudgetAssumption DEF BudgetAssumption
<1>1. Committed' = Committed
  BY DEF Reserve, Committed
<1>2. Reserved \in Nat /\ Reserved' \in Nat /\ Reserved' <= Reserved + Estimate
  <2>1. ASSUME NEW x \in Turns PROVE Held(x)' <= Held(x) + (IF x = t THEN Estimate ELSE 0)
    BY <1>0 DEF Held, TypeOK, Reserve
  <2>2. Estimate \in Int
    BY <1>0
  <2>3. /\ Reserved \in Nat /\ Reserved' \in Nat
        /\ Reserved' <= Reserved + (IF t \in Turns THEN Estimate ELSE 0)
    BY <2>1, <2>2, ReservedGrows
  <2> QED BY <2>3
<1>3. Committed \in Nat
  <2>1. ASSUME NEW x \in Turns
        PROVE  billed'[x] * cost'[x] <= billed[x] * cost[x] + (IF x = 0 THEN 0 ELSE 0)
    <3>1. cost[x] \in Nat /\ billed[x] \in Nat
      BY CostsAreNat DEF TypeOK
    <3>2. billed'[x] * cost'[x] = billed[x] * cost[x] /\ billed[x] * cost[x] \in Int
      BY <3>1 DEF Reserve
    <3> QED BY <3>2
  <2> QED BY <2>1, CommittedGrows
<1>4. Committed + Reserved + Estimate < Cap
  BY DEF Reserve, Fits
<1>5. Committed' + Reserved' < Cap
  <2> DEFINE c == Committed
             r == Reserved
             cn == Committed'
             rn == Reserved'
  <2>1. /\ c \in Nat /\ r \in Nat /\ rn \in Nat
        /\ cn = c /\ rn <= r + Estimate /\ c + r + Estimate < Cap
    BY <1>1, <1>2, <1>3, <1>4
  <2> HIDE DEF c, r, cn, rn
  <2>2. cn + rn < Cap
    BY <1>0, <2>1
  <2> QED BY <2>2 DEF cn, rn
<1> QED BY <1>5 DEF WithinCap

\* Every step keeps spend and holds under the cap while no cost exceeds its estimate.
LEMMA StepWithinCap ==
  ASSUME ~LeaseLoss, ~SweepBeforeBill, ~QuietDiscard, \A c \in Costs : c <= Estimate,
         CapInv, CapInv', WithinCap, [Next]_vars
  PROVE  WithinCap'
<1>0. TypeOK /\ TypeOK' /\ Stages /\ BilledStage /\ HoldCoversTurn
  BY DEF CapInv, HoldInv
<1> DEFINE Quiet == /\ \A x \in Turns : pending'[x] => pending[x]
                    /\ \A x \in Turns :
                         billed'[x] = billed[x] /\ (cost'[x] = cost[x] \/ billed[x] = 0)
<1>q. Quiet => WithinCap'
  BY <1>0, QuietFits
<1>1. ASSUME NEW t \in Turns, Reserve(t) PROVE WithinCap'
  BY <1>0, <1>1, ReserveFits
<1>2. ASSUME NEW t \in Turns, HandOff(t) PROVE WithinCap'
  <2>1. Quiet
    BY <1>0, <1>2 DEF HandOff, TypeOK
  <2> QED BY <2>1, <1>q
<1>3. ASSUME NEW t \in Turns, NotHanded(t) PROVE WithinCap'
  <2>1. Quiet
    BY <1>0, <1>3 DEF NotHanded, TypeOK
  <2> QED BY <2>1, <1>q
<1>4. ASSUME NEW t \in Turns, AdmissionReleases(t) PROVE WithinCap'
  <2>1. Quiet
    BY <1>0, <1>4 DEF AdmissionReleases, ReleaseHold, TypeOK
  <2> QED BY <2>1, <1>q
<1>5. ASSUME NEW t \in Turns, AdmissionDies(t) PROVE WithinCap'
  <2>1. Quiet
    BY <1>0, <1>5 DEF AdmissionDies, TypeOK
  <2> QED BY <2>1, <1>q
<1>6. ASSUME NEW t \in Turns, Remove(t) PROVE WithinCap'
  <2>1. Quiet
    BY <1>0, <1>6 DEF Remove, TypeOK
  <2> QED BY <2>1, <1>q
<1>7. ASSUME NEW t \in Turns, RemoverReleases(t) PROVE WithinCap'
  <2>1. Quiet
    BY <1>0, <1>7 DEF RemoverReleases, ReleaseHold, TypeOK
  <2> QED BY <2>1, <1>q
<1>8. ASSUME NEW t \in Turns, Claim(t) PROVE WithinCap'
  <2>1. Quiet
    BY <1>0, <1>8 DEF Claim, Goes, TypeOK
  <2> QED BY <2>1, <1>q
<1>9. ASSUME NEW t \in Turns, StreamEnds(t) PROVE WithinCap'
  <2>1. Quiet
    BY <1>0, <1>9 DEF StreamEnds, Goes, TypeOK
  <2> QED BY <2>1, <1>q
<1>10. ASSUME NEW t \in Turns, SettleSpend(t) PROVE WithinCap'
  <2>1. CASE UNCHANGED <<pending, billed>>
    <3>1. cost' = cost
      BY <1>10 DEF SettleSpend
    <3>2. Quiet
      BY <2>1, <3>1
    <3> QED BY <3>2, <1>q
  <2>2. CASE ~UNCHANGED <<pending, billed>>
    <3>1. /\ pending' = [pending EXCEPT ![t] = FALSE]
          /\ billed' = [billed EXCEPT ![t] = @ + 1]
          /\ cost' = cost
      BY <1>10, <2>2, Reconciled DEF SettleSpend
    <3>2. pending[t] /\ billed[t] = 0
      BY <1>0, <1>10, <2>2, CostSign
      DEF SettleSpend, Goes, Stages, BilledStage, HoldCoversTurn, CapInv, CapStage
    <3> QED BY <1>0, <3>1, <3>2, SettledFits
  <2> QED BY <2>1, <2>2
<1>11. ASSUME NEW t \in Turns, StreamThrows(t) PROVE WithinCap'
  <2>1. Quiet
    BY <1>0, <1>11 DEF StreamThrows, Goes, TypeOK
  <2> QED BY <2>1, <1>q
<1>12. ASSUME NEW t \in Turns, Commit(t) PROVE WithinCap'
  <2>1. Quiet
    BY <1>0, <1>12 DEF Commit, Goes, Ended, TypeOK
  <2> QED BY <2>1, <1>q
<1>13. ASSUME NEW t \in Turns, Tail(t) PROVE WithinCap'
  <2>1. Quiet
    BY <1>0, <1>13 DEF Tail, Goes, TypeOK
  <2> QED BY <2>1, <1>q
<1>14. ASSUME NEW t \in Turns, FailCommit(t) PROVE WithinCap'
  <2>1. Quiet
    BY <1>0, <1>14 DEF FailCommit, Goes, Ended, TypeOK
  <2> QED BY <2>1, <1>q
<1>15. ASSUME NEW t \in Turns, FailBill(t) PROVE WithinCap'
  <2>1. CASE UNCHANGED <<pending, billed>>
    <3>1. cost' = cost
      BY <1>15 DEF FailBill
    <3>2. Quiet
      BY <2>1, <3>1
    <3> QED BY <3>2, <1>q
  <2>2. CASE ~UNCHANGED <<pending, billed>>
    <3>1. /\ pending' = [pending EXCEPT ![t] = FALSE]
          /\ billed' = [billed EXCEPT ![t] = @ + 1]
          /\ cost' = cost
      BY <1>15, <2>2, Reconciled DEF FailBill
    <3>2. pending[t] /\ billed[t] = 0
      BY <1>0, <1>15, <2>2, CostSign
      DEF FailBill, Goes, Stages, BilledStage, HoldCoversTurn, CapInv, CapStage, Unbilled
    <3> QED BY <1>0, <3>1, <3>2, SettledFits
  <2> QED BY <2>1, <2>2
<1>16. ASSUME NEW t \in Turns, Finally(t) PROVE WithinCap'
  <2>1. Quiet
    BY <1>0, <1>16 DEF Finally, Goes, ReleaseHold, TypeOK
  <2> QED BY <2>1, <1>q
<1>17. ASSUME NEW t \in Turns, Crash(t) PROVE WithinCap'
  <2>1. Quiet
    BY <1>0, <1>17 DEF Crash, TypeOK
  <2> QED BY <2>1, <1>q
<1>18. ASSUME NEW t \in Turns, Age(t) PROVE WithinCap'
  <2>1. Quiet
    BY <1>0, <1>18 DEF Age, TypeOK
  <2> QED BY <2>1, <1>q
<1>19. ASSUME NEW t \in Turns, NEW c \in Costs, Spend(t, c) PROVE WithinCap'
  <2>1. Quiet
    BY <1>0, <1>19 DEF Spend, TypeOK, BilledStage
  <2> QED BY <2>1, <1>q
<1>20. CASE Sweep
  <2>1. Quiet
    BY <1>0, <1>20 DEF Sweep, TypeOK
  <2> QED BY <2>1, <1>q
<1>21. CASE UNCHANGED vars
  <2>1. Quiet
    BY <1>0, <1>21 DEF vars, TypeOK
  <2> QED BY <2>1, <1>q
<1>22. ASSUME NEW t \in Turns, Discard(t) PROVE WithinCap'
  <2>1. Quiet
    BY <1>0, <1>22 DEF Discard, TypeOK
  <2> QED BY <2>1, <1>q
<1> QED
  BY <1>1, <1>2, <1>3, <1>4, <1>5, <1>6, <1>7, <1>8, <1>9, <1>10, <1>11, <1>12, <1>13,
     <1>14, <1>15, <1>16, <1>17, <1>18, <1>19, <1>20, <1>21, <1>22
     DEF Next, AdmissionStep, RunStep

\* Whatever turns run at once, if none costs more than its estimate, no live run is reaped or
\* swept before it is billed and no turn ends quietly after a discard, spend and holds
\* together stay under a positive cap.
THEOREM CapHolds ==
  /\ ~LeaseLoss /\ ~SweepBeforeBill /\ ~QuietDiscard
  /\ Cap > 0 /\ \A c \in Costs : c <= Estimate
  => (Spec => []WithinCap)
<1> SUFFICES ASSUME ~LeaseLoss, ~SweepBeforeBill, ~QuietDiscard,
                    Cap > 0, \A c \in Costs : c <= Estimate
             PROVE  Spec => []WithinCap
  OBVIOUS
<1>1. Init => CapInv /\ WithinCap
  <2> SUFFICES ASSUME Init PROVE CapInv /\ WithinCap OBVIOUS
  <2>1. CapInv
    BY InitHoldInv DEF Init, CapInv, CapStage
  <2>2. Committed = 0 /\ Reserved = 0
    BY InitSums
  <2> QED BY <2>1, <2>2, BudgetAssumption DEF WithinCap, BudgetAssumption
<1>2. CapInv /\ [Next]_vars => CapInv'
  BY StepHoldInv, StepCapStage DEF CapInv
<1>3. CapInv /\ CapInv' /\ WithinCap /\ [Next]_vars => WithinCap'
  BY StepWithinCap
<1> QED BY <1>1, <1>2, <1>3, PTL DEF Spec
====
