-------------------------- MODULE AutomationsProofs --------------------------
(***************************************************************************)
(* Proofs about Automations for any number of firings, keys and runs, any  *)
(* ceiling and any horizon.                                                *)
(***************************************************************************)
EXTENDS Automations, FiniteSetTheorems, TLAPS

-----------------------------------------------------------------------------
(* Types.                                                                  *)

LEMMA DayMonotone ==
  ASSUME NEW n \in Nat, NEW m \in Nat, n <= m
  PROVE  Day(n) \in Nat /\ Day(m) \in Nat /\ Day(n) <= Day(m)
<1> DEFINE q == n \div PerDay
           h == m \div PerDay
<1>1. PerDay \in Nat /\ PerDay > 0
  BY AutomationAssumption DEF AutomationAssumption
<1>2. /\ q \in Nat /\ h \in Nat
      /\ PerDay * q <= n
      /\ m < PerDay * (h + 1)
  BY <1>1
<1>3. q <= h
  <2> HIDE DEF q, h
  <2>1. SUFFICES ASSUME q >= h + 1 PROVE FALSE
    BY <1>2
  <2>2. PerDay * q >= PerDay * (h + 1)
    BY <2>1, <1>1, <1>2
  <2>3. QED
    BY <2>2, <1>1, <1>2
<1>4. QED
  BY <1>2, <1>3 DEF Day

LEMMA DayInDays ==
  ASSUME NEW n \in Instants
  PROVE  Day(n) \in Days
<1>1. n \in Nat /\ Horizon \in Nat /\ n <= Horizon
  BY AutomationAssumption DEF AutomationAssumption, Instants
<1>2. Day(n) \in Nat /\ Day(Horizon) \in Nat /\ Day(n) <= Day(Horizon)
  BY <1>1, DayMonotone
<1>3. QED
  BY <1>2 DEF Days

LEMMA ZeroDay == 0 \in Instants /\ 0 \in Days /\ 0 \in 0..Null
<1>1. 0 \in Instants /\ 0 \in 0..Null
  BY AutomationAssumption DEF AutomationAssumption, Instants, Null
<1>2. QED
  BY <1>1, AutomationAssumption, DayInDays DEF AutomationAssumption, Instants, Day, Days

LEMMA NextOccurrenceLater ==
  ASSUME kind \in {"schedule", "once", "webhook"}, NEW n \in Instants
  PROVE  NextOccurrence(n) \in (n + 1)..Null
  BY AutomationAssumption DEF AutomationAssumption, NextOccurrence, OnceAt, Null, Instants

LEMMA RowTypes ==
  ASSUME TypeOK
  PROVE  /\ Failed(row) \in Row
         /\ \A d \in Days : Tallied(d, 0) \in Row
         /\ \A d \in Days : row.runs < MaxRuns \/ row.day # d => (0 < MaxRuns => Tallied(d, 1) \in Row)
         /\ Gone \in Row
<1>1. 0 \in Days
  BY ZeroDay
<1>2. Failed(row) \in Row
  BY AutomationAssumption DEF TypeOK, AutomationAssumption, Row, Failed
<1>3. ASSUME NEW d \in Days, NEW k \in {0, 1}, k = 1 => 0 < MaxRuns /\ (row.runs < MaxRuns \/ row.day # d)
      PROVE  Tallied(d, k) \in Row
  <2> DEFINE m == (IF row.day = d THEN row.runs ELSE 0) + k
  <2>1. m \in 0..MaxRuns
    BY <1>3, AutomationAssumption DEF TypeOK, AutomationAssumption, Row
  <2>2. Tallied(d, k) = [row EXCEPT !.day = d, !.runs = m]
    BY DEF Tallied, TypeOK, Row
  <2> HIDE DEF m
  <2>3. [row EXCEPT !.day = d, !.runs = m] \in Row
    BY <2>1 DEF TypeOK, Row
  <2>4. QED
    BY <2>2, <2>3
<1>4. Gone \in Row
  BY <1>1, AutomationAssumption DEF AutomationAssumption, Row, Gone, Null
<1>5. QED
  BY <1>2, <1>3, <1>4

LEMMA InitTypeOK == Init => TypeOK
<1> SUFFICES ASSUME Init PROVE TypeOK
  OBVIOUS
<1>1. 0 \in Instants /\ 0 \in Days
  BY ZeroDay
<1>2. row.due \in 0..Null /\ row \in Row
  BY <1>1, NextOccurrenceLater, AutomationAssumption DEF Init, Row, AutomationAssumption, Null
<1>3. fire \in [Firings -> Firing]
  BY <1>1, AutomationAssumption DEF Init, Idle, Firing, Null, AutomationAssumption
<1>4. QED
  BY <1>1, <1>2, <1>3 DEF Init, TypeOK

\* An UPDATE writes a row of the row's type.
LEMMA WriteType ==
  ASSUME TypeOK, NEW r \in Row, Write(r)
  PROVE  row' \in Row /\ stamp' \in Firings \cup {NoFiring}
  BY DEF Write, TypeOK

LEMMA FiringTypes ==
  ASSUME TypeOK, NEW f \in Firings
  PROVE  /\ Ends(f) => fire' \in [Firings -> Firing]
         /\ Steps(f, "threw") => fire' \in [Firings -> Firing]
         /\ \A by \in {"tick", "hook", "manual"}, occ \in 0..Null, key \in Keys \cup {NoKey} :
               Starts(f, by, occ, key) => fire' \in [Firings -> Firing]
<1>1. 0 \in Days /\ Day(now) \in Days /\ 0 \in 0..Null
  BY ZeroDay, DayInDays DEF TypeOK
<1>2. Idle \in Firing
  BY <1>1, AutomationAssumption DEF Idle, Firing, AutomationAssumption
<1>3. ASSUME Steps(f, "threw") PROVE fire' \in [Firings -> Firing]
  <2>1. [fire[f] EXCEPT !.pc = "threw"] \in Firing
    BY DEF TypeOK, Firing
  <2>2. QED
    BY <1>3, <2>1 DEF Steps, TypeOK
<1>4. ASSUME NEW by \in {"tick", "hook", "manual"}, NEW occ \in 0..Null,
             NEW key \in Keys \cup {NoKey}, Starts(f, by, occ, key)
      PROVE  fire' \in [Firings -> Firing]
  <2> DEFINE s == [pc |-> "start", by |-> by, occ |-> occ, today |-> Day(now), last |-> row.last, key |-> key]
  <2>1. s \in Firing
    BY <1>1 DEF TypeOK, Row, Firing
  <2>2. fire' = [fire EXCEPT ![f] = s]
    BY <1>4 DEF Starts
  <2> HIDE DEF s
  <2>3. QED
    BY <2>1, <2>2 DEF TypeOK
<1>5. QED
  BY <1>2, <1>3, <1>4 DEF Ends, TypeOK

LEMMA StepTypeOK ==
  ASSUME TypeOK, [Next]_vars
  PROVE  TypeOK'
<1> USE AutomationAssumption DEF history
<1>1. CASE TimePasses
  BY <1>1 DEF TimePasses, TypeOK, Instants, AutomationAssumption
<1>2. CASE Pause
  <2>1. [row EXCEPT !.enabled = FALSE] \in Row
    BY DEF TypeOK, Row
  <2>2. QED
    BY <1>2, <2>1, WriteType DEF Pause, TypeOK
<1>3. CASE Resume
  <2>1. [row EXCEPT !.enabled = TRUE, !.due = NextOccurrence(now), !.fails = 0] \in Row
    <3>1. NextOccurrence(now) \in 0..Null /\ 0 \in 0..MaxFailures
      BY NextOccurrenceLater DEF TypeOK, Instants, AutomationAssumption, Null
    <3>2. QED
      BY <3>1 DEF TypeOK, Row
  <2>2. QED
    BY <1>3, <2>1, WriteType DEF Resume, TypeOK
<1>4. CASE Delete
  BY <1>4, RowTypes DEF Delete, TypeOK
<1>5. CASE Refuse
  <2>1. [row EXCEPT !.enabled = FALSE] \in Row
    BY DEF TypeOK, Row
  <2>2. QED
    BY <1>5, <2>1, WriteType DEF Refuse, TypeOK
<1>6. CASE Disable
  <2>1. [row EXCEPT !.enabled = FALSE] \in Row
    BY DEF TypeOK, Row
  <2>2. QED
    BY <1>6, <2>1, WriteType DEF Disable, TypeOK
<1>7. ASSUME NEW f \in Firings, FiringStep(f) PROVE TypeOK'
  <2>1. CASE Tick(f)
    <3>1. NextOccurrence(now) \in 0..Null
      BY NextOccurrenceLater DEF TypeOK, Instants, AutomationAssumption, Null
    <3>2. row' \in Row
      BY <2>1, <3>1 DEF Tick, TypeOK, Row
    <3>3. row.due \in 0..Null
      BY DEF TypeOK, Row
    <3>4. QED
      BY <2>1, <3>2, <3>3, FiringTypes DEF Tick, TypeOK
  <2>2. CASE Manual(f)
    <3>1. 0 \in 0..Null
      BY DEF AutomationAssumption, Null
    <3>2. QED
      BY <2>2, <3>1, FiringTypes DEF Manual, TypeOK
  <2>3. CASE CheapSkip(f)
    BY <2>3, FiringTypes, WriteType DEF CheapSkip, TypeOK
  <2>4. CASE CheapPass(f)
    <3>1. [fire[f] EXCEPT !.pc = "commit", !.last = 0] \in Firing
      <4>1. fire[f] \in Firing /\ 0 \in 0..MaxRuns
        BY DEF TypeOK, AutomationAssumption
      <4>2. QED
        BY <4>1 DEF Firing
    <3>2. QED
      BY <2>4, <3>1 DEF CheapPass, TypeOK
  <2>5. CASE BudgetRefused(f)
    BY <2>5, FiringTypes, WriteType, RowTypes DEF BudgetRefused, CountFailure, TypeOK, Trips
  <2>6. CASE ConditionUnmet(f)
    <3>1. fire[f].today \in Days
      BY DEF TypeOK, Firing
    <3>2. QED
      BY <2>6, <3>1, FiringTypes, WriteType, RowTypes DEF ConditionUnmet, TypeOK
  <2>7. CASE LockedSkip(f)
    BY <2>7, FiringTypes, WriteType DEF LockedSkip, TypeOK
  <2>8. CASE Rearm(f)
    <3>1. [Failed(row) EXCEPT !.due = fire[f].occ, !.enabled = TRUE] \in Row
      <4>1. fire[f].occ \in 0..Null
        BY DEF TypeOK, Firing
      <4>2. QED
        BY <4>1, RowTypes DEF Row
    <3>2. QED
      BY <2>8, <3>1, FiringTypes, WriteType DEF Rearm, TypeOK
  <2>9. CASE ReleaseKey(f)
    BY <2>9, FiringTypes DEF ReleaseKey, TypeOK
  <2>10. CASE Crash(f)
    BY <2>10, FiringTypes DEF Crash, TypeOK
  <2>11. ASSUME NEW k \in Keys \cup {NoKey}, Hook(f, k) PROVE TypeOK'
    <3>1. 0 \in 0..Null
      BY DEF AutomationAssumption, Null
    <3>2. QED
      BY <2>11, <3>1, FiringTypes DEF Hook, TypeOK
  <2>12. ASSUME NEW t \in Runs, Materialize(f, t) PROVE TypeOK'
    <3>1. fire[f].today \in Days /\ 0 < MaxRuns /\ t \in 0..MaxRuns
      BY DEF TypeOK, Firing, Runs, AutomationAssumption
    <3>2. Tallied(fire[f].today, 1) \in Row
      BY <2>12, <3>1, RowTypes DEF Materialize
    <3>3. [Tallied(fire[f].today, 1) EXCEPT !.last = t] \in Row
      BY <3>1, <3>2 DEF Row
    <3>4. task' \in [Runs -> {"none", "queued", "running", "completed", "awaiting", "resumed", "over"}]
      BY <2>12 DEF Materialize, PastCards, TypeOK
    <3>5. /\ bought' \in [(1..Null) \cup Keys -> Nat]
          /\ dayRuns' \in [Days -> Nat]
      BY <2>12, <3>1 DEF Materialize, Bought, TypeOK
    <3>6. QED
      BY <2>12, <3>3, <3>4, <3>5, FiringTypes, WriteType DEF Materialize, TypeOK
  <2>13. QED
    BY <1>7, <2>1, <2>2, <2>3, <2>4, <2>5, <2>6, <2>7, <2>8, <2>9, <2>10, <2>11, <2>12
      DEF FiringStep
<1>8. ASSUME NEW t \in Runs, RunStep(t) PROVE TypeOK'
  <2>1. CASE RunStarts(t) \/ RunLost(t) \/ Answer(t)
    BY <2>1 DEF RunStarts, RunLost, Answer, PastCards, TypeOK
  <2>2. ASSUME NEW s \in {"completed", "awaiting", "over"}, RunEnds(t, s) PROVE TypeOK'
    <3>1. task' \in [Runs -> {"none", "queued", "running", "completed", "awaiting", "resumed", "over"}]
      BY <2>2 DEF RunEnds, TypeOK
    <3>2. \A r \in Row : [r EXCEPT !.fails = 0] \in Row
      BY DEF Row, AutomationAssumption
    <3>3. Tallied(Day(now), 0) \in Row
      BY RowTypes, DayInDays DEF TypeOK
    <3>4. row' \in Row /\ stamp' \in Firings \cup {NoFiring} /\ tripped' \in BOOLEAN
      <4>1. CASE s = "completed"
        BY <2>2, <4>1, <3>2, <3>3, WriteType DEF RunEnds, TypeOK
      <4>2. CASE s = "over"
        BY <2>2, <4>2, RowTypes, WriteType DEF RunEnds, CountFailure, Trips, TypeOK
      <4>3. CASE s = "awaiting"
        BY <2>2, <4>3 DEF RunEnds, TypeOK
      <4>4. QED
        BY <4>1, <4>2, <4>3
    <3>5. QED
      BY <2>2, <3>1, <3>4 DEF RunEnds, TypeOK
  <2>3. ASSUME NEW s \in {"completed", "awaiting"}, ContinuationEnds(t, s) PROVE TypeOK'
    BY <2>3 DEF ContinuationEnds, TypeOK
  <2>4. QED
    BY <1>8, <2>1, <2>2, <2>3 DEF RunStep
<1>9. CASE UNCHANGED vars
  BY <1>9 DEF vars, TypeOK
<1>10. QED
  BY <1>1, <1>2, <1>3, <1>4, <1>5, <1>6, <1>7, <1>8, <1>9 DEF Next

\* The automation's state keeps its type: schedules, tallies, streaks and firings stay in
\* their ranges whatever ticks, posts, pauses and runs do.
THEOREM AutomationTypes == Spec => []TypeOK
<1>1. QED
  BY InitTypeOK, StepTypeOK, PTL DEF Spec

-----------------------------------------------------------------------------
(* Off stays off.  A firing may re-arm only while the row carries its      *)
(* tick's stamp, and whatever switches the automation off takes it away.   *)

OffInv ==
    /\ OffStaysOff
    /\ stamp # NoFiring => ~off

LEMMA TalliedKeeps ==
  ASSUME TypeOK, NEW d, NEW n
  PROVE  /\ Tallied(d, n).exists = row.exists
         /\ Tallied(d, n).enabled = row.enabled
         /\ Tallied(d, n).due = row.due
         /\ Tallied(d, n).last = row.last
         /\ [Tallied(d, n) EXCEPT !.fails = 0].exists = row.exists
         /\ [Tallied(d, n) EXCEPT !.fails = 0].enabled = row.enabled
         /\ [Tallied(d, n) EXCEPT !.fails = 0].due = row.due
<1> DEFINE m == (IF row.day = d THEN row.runs ELSE 0) + n
<1>1. Tallied(d, n) = [row EXCEPT !.day = d, !.runs = m]
  BY DEF Tallied, TypeOK, Row
<1> HIDE DEF m
<1>2. QED
  BY <1>1 DEF TypeOK, Row

LEMMA CompletedKeeps ==
  ASSUME TypeOK, NEW t \in Runs, RunEnds(t, "completed")
  PROVE  row'.exists = row.exists /\ row'.enabled = row.enabled /\ row'.due = row.due
<1>1. PICK quiet \in BOOLEAN :
         row' = IF row.exists THEN [(IF quiet THEN Tallied(Day(now), 0) ELSE row) EXCEPT !.fails = 0]
                              ELSE row
  BY DEF RunEnds, Write
<1>2. CASE quiet
  BY <1>1, <1>2, TalliedKeeps
<1>3. CASE ~quiet
  BY <1>1, <1>3 DEF TypeOK, Row
<1>4. QED
  BY <1>2, <1>3

LEMMA StepOffInv ==
  ASSUME TypeOK, OffInv, [Next]_vars
  PROVE  OffInv'
<1> USE AutomationAssumption DEF AutomationAssumption, OffInv, OffStaysOff, history, TypeOK, Row
<1>1. CASE TimePasses \/ Pause \/ Resume \/ Delete \/ Refuse \/ Disable
  BY <1>1 DEF TimePasses, Pause, Resume, Delete, Refuse, Disable, Write, Gone
<1>2. ASSUME NEW f \in Firings, FiringStep(f) PROVE OffInv'
  <2>1. CASE Tick(f) \/ Manual(f) \/ CheapSkip(f) \/ CheapPass(f) \/ LockedSkip(f)
    BY <2>1 DEF Tick, Due, Manual, CheapSkip, CheapPass, LockedSkip, Write
  <2>2. CASE BudgetRefused(f) \/ ConditionUnmet(f)
    BY <2>2, TalliedKeeps DEF BudgetRefused, ConditionUnmet, CountFailure, Write, Failed
  <2>3. CASE Rearm(f)
    <3>1. CASE Untouched(f)
      BY <2>3, <3>1 DEF Rearm, Untouched, Write, Failed
    <3>2. CASE ~Untouched(f)
      BY <2>3, <3>2 DEF Rearm
    <3>3. QED
      BY <3>1, <3>2
  <2>4. CASE ReleaseKey(f) \/ Crash(f) \/ \E k \in Keys \cup {NoKey} : Hook(f, k)
    BY <2>4 DEF ReleaseKey, Crash, Hook
  <2>5. ASSUME NEW t \in Runs, Materialize(f, t) PROVE OffInv'
    BY <2>5 DEF Materialize, Write, Tallied
  <2>6. QED
    BY <1>2, <2>1, <2>2, <2>3, <2>4, <2>5 DEF FiringStep
<1>3. ASSUME NEW t \in Runs, RunStep(t) PROVE OffInv'
  <2>1. ASSUME NEW s \in {"completed", "awaiting", "over"}, RunEnds(t, s) PROVE OffInv'
    <3>1. CASE s = "completed"
      <4>1. UNCHANGED off /\ stamp' = NoFiring
        BY <2>1, <3>1 DEF RunEnds, Write
      <4>2. row'.exists = row.exists /\ row'.enabled = row.enabled
        BY <2>1, <3>1, CompletedKeeps
      <4>3. QED
        BY <4>1, <4>2
    <3>2. CASE s = "over"
      BY <2>1, <3>2 DEF RunEnds, CountFailure, Write, Failed
    <3>3. CASE s = "awaiting"
      BY <2>1, <3>3 DEF RunEnds
    <3>4. QED
      BY <3>1, <3>2, <3>3
  <2>2. QED
    BY <1>3, <2>1 DEF RunStep, RunStarts, RunLost, Answer, ContinuationEnds
<1>4. CASE UNCHANGED vars
  BY <1>4 DEF vars
<1>5. QED
  BY <1>1, <1>2, <1>3, <1>4 DEF Next

\* Nothing the scheduler does to a failed fire resurrects an automation that a person
\* paused or the platform switched off.
THEOREM OffKept == Spec => []OffStaysOff
<1>1. Init => OffInv
  BY DEF Init, OffInv, OffStaysOff
<1>2. OffInv => OffStaysOff
  BY DEF OffInv
<1>3. QED
  BY <1>1, <1>2, InitTypeOK, StepTypeOK, StepOffInv, PTL DEF Spec

-----------------------------------------------------------------------------
(* An occurrence is paid for once.  Whatever can still be bought is in one *)
(* place: ahead of now, in the row, in an unclaimed key, or in the hands   *)
(* of one firing; and it has not been bought.                              *)

Goods == (1..Null) \cup Keys

\* What a firing may yet buy.
Wants(f) == IF fire[f].pc \in {"start", "commit"} THEN {fire[f].occ, fire[f].key} \cap Goods ELSE {}

Held ==
    \A f \in Firings :
        /\ \A x \in Wants(f) : bought[x] = 0
        /\ \A g \in Firings : f # g => Wants(f) \cap Wants(g) = {}

Unsold(x) == bought[x] = 0 /\ \A f \in Firings : x \notin Wants(f)

Ahead == \A x \in 1..Null : x > now => Unsold(x)
InRow == row.due \in 1..Null /\ (row.due <= now => Unsold(row.due))
Unclaimed == \A k \in Keys : k \notin claimed => Unsold(k)

\* What a firing carries depends on where it came from, and one that has bought
\* has lost the stamp.
Carries ==
    \A f \in Firings :
        /\ fire[f].pc # "idle" =>
              /\ fire[f].by = "tick" => fire[f].occ \in 1..Null
              /\ fire[f].by # "hook" => fire[f].key = NoKey
        /\ fire[f].pc = "threw" => stamp # f /\ fire[f].by # "hook"

PaidInv == Held /\ Ahead /\ InRow /\ Unclaimed /\ Carries /\ PaidOnce

LEMMA GoodsApart ==
  /\ 0 \notin Goods /\ NoKey \notin Goods
  /\ \A x \in 1..Null : x \notin Keys
  BY AutomationAssumption DEF AutomationAssumption, Goods, Null

LEMMA InitPaidInv == Init => PaidInv
<1> SUFFICES ASSUME Init PROVE PaidInv
  OBVIOUS
<1>1. \A f \in Firings : Wants(f) = {} /\ fire[f].pc = "idle"
  BY DEF Init, Idle, Wants
<1>2. row.due \in 1..Null
  BY NextOccurrenceLater, ZeroDay DEF Init, Instants
<1>3. \A x \in Goods : bought[x] = 0
  BY DEF Init, Goods
<1>4. \A x \in Goods : Unsold(x)
  BY <1>1, <1>3 DEF Unsold
<1>5. Held /\ Carries
  BY <1>1 DEF Held, Carries
<1>6. Ahead /\ InRow /\ Unclaimed
  BY <1>2, <1>4 DEF Ahead, InRow, Unclaimed, Goods
<1>7. PaidOnce
  BY <1>3 DEF PaidOnce, Goods
<1>8. QED
  BY <1>5, <1>6, <1>7 DEF PaidInv

\* A firing that ends gives up what it wanted and leaves the others alone.
LEMMA EndsWants ==
  ASSUME TypeOK, NEW f \in Firings, Ends(f)
  PROVE  /\ fire'[f].pc = "idle" /\ Wants(f)' = {}
         /\ \A g \in Firings : g # f => fire'[g] = fire[g] /\ Wants(g)' = Wants(g)
  BY DEF Ends, Idle, Wants, TypeOK

LEMMA StartsWants ==
  ASSUME TypeOK, NEW f \in Firings, NEW by, NEW occ, NEW key, Starts(f, by, occ, key)
  PROVE  /\ fire'[f].pc = "start" /\ fire'[f].by = by /\ fire'[f].occ = occ /\ fire'[f].key = key
         /\ Wants(f)' = {occ, key} \cap Goods
         /\ \A g \in Firings : g # f => fire'[g] = fire[g] /\ Wants(g)' = Wants(g)
<1> DEFINE s == [pc |-> "start", by |-> by, occ |-> occ, today |-> Day(now), last |-> row.last, key |-> key]
<1>1. fire'[f] = s /\ \A g \in Firings : g # f => fire'[g] = fire[g]
  BY DEF Starts, TypeOK
<1>2. QED
  BY <1>1 DEF Wants, Goods

\* A step that gives up wants, buys nothing and leaves the due time keeps all but Carries.
LEMMA FewerWants ==
  ASSUME TypeOK, PaidInv,
         \A f \in Firings : Wants(f)' \subseteq Wants(f),
         bought' = bought, now' = now, claimed \subseteq claimed', row'.due = row.due
  PROVE  Held' /\ Ahead' /\ InRow' /\ Unclaimed' /\ PaidOnce'
<1>1. \A x \in Goods : Unsold(x) => Unsold(x)'
  BY DEF Unsold
<1>2. Held'
  BY DEF PaidInv, Held, Wants
<1>3. Ahead' /\ InRow' /\ Unclaimed'
  BY <1>1 DEF PaidInv, Ahead, InRow, Unclaimed, Goods
<1>4. QED
  BY <1>2, <1>3 DEF PaidInv, PaidOnce

\* Carries, when one firing ends and no stamp is set.
LEMMA EndsCarries ==
  ASSUME TypeOK, Carries, NEW f \in Firings, Ends(f), stamp' \in {stamp, NoFiring}
  PROVE  Carries'
<1>1. NoFiring \notin Firings
  BY AutomationAssumption DEF AutomationAssumption
<1>2. QED
  BY <1>1, EndsWants DEF Carries

\* A firing that ends without buying, its row's due time and keys left alone.
LEMMA EndsPaid ==
  ASSUME TypeOK, PaidInv, NEW f \in Firings, Ends(f), stamp' \in {stamp, NoFiring},
         bought' = bought, now' = now, claimed' = claimed, row'.due = row.due
  PROVE  PaidInv'
<1>1. \A g \in Firings : Wants(g)' \subseteq Wants(g)
  BY EndsWants
<1>2. Held' /\ Ahead' /\ InRow' /\ Unclaimed' /\ PaidOnce'
  BY <1>1, FewerWants
<1>3. Carries'
  BY EndsCarries DEF PaidInv
<1>4. QED
  BY <1>2, <1>3 DEF PaidInv

\* A step that touches no firing.
LEMMA NoFiringPaid ==
  ASSUME TypeOK, PaidInv, UNCHANGED <<fire, bought, now, claimed>>,
         stamp' \in {stamp, NoFiring}, row'.due = row.due
  PROVE  PaidInv'
<1>1. \A g \in Firings : Wants(g)' = Wants(g)
  BY DEF Wants, Goods
<1>2. Held' /\ Ahead' /\ InRow' /\ Unclaimed' /\ PaidOnce'
  BY <1>1, FewerWants
<1>3. Carries'
  BY AutomationAssumption DEF PaidInv, Carries, AutomationAssumption
<1>4. QED
  BY <1>2, <1>3 DEF PaidInv

\* A step that only moves the due time, past now.
LEMMA DueMoves ==
  ASSUME TypeOK, PaidInv, UNCHANGED <<fire, bought, now, claimed>>,
         stamp' = NoFiring, row'.due \in (now + 1)..Null
  PROVE  PaidInv'
<1>1. \A g \in Firings : Wants(g)' = Wants(g)
  BY DEF Wants, Goods
<1>2. \A x \in Goods : Unsold(x)' = Unsold(x)
  BY <1>1 DEF Unsold
<1>3. Held' /\ Ahead' /\ Unclaimed' /\ PaidOnce'
  BY <1>1, <1>2 DEF PaidInv, Held, Ahead, Unclaimed, PaidOnce, Goods
<1>4. InRow'
  BY AutomationAssumption DEF InRow, TypeOK, Instants, AutomationAssumption, Null
<1>5. Carries'
  BY AutomationAssumption DEF PaidInv, Carries, AutomationAssumption
<1>6. QED
  BY <1>3, <1>4, <1>5 DEF PaidInv

LEMMA TickPaid ==
  ASSUME TypeOK, PaidInv, NEW f \in Firings, Tick(f)
  PROVE  PaidInv'
<1>1. /\ row.due \in 1..Null /\ row.due <= now /\ Unsold(row.due)
      /\ now \in Nat /\ Null \in Nat
  BY AutomationAssumption
     DEF Tick, Due, PaidInv, InRow, TypeOK, Instants, Null, AutomationAssumption
<1>2. /\ fire'[f].pc = "start" /\ fire'[f].by = "tick"
      /\ fire'[f].occ = row.due /\ fire'[f].key = NoKey
      /\ Wants(f)' = {row.due}
      /\ \A g \in Firings : g # f => fire'[g] = fire[g] /\ Wants(g)' = Wants(g)
  BY <1>1, StartsWants, GoodsApart DEF Tick, Goods
<1>3. bought' = bought /\ now' = now /\ claimed' = claimed /\ stamp' = f
  BY DEF Tick, history
<1>4. Held'
  BY <1>1, <1>2, <1>3 DEF PaidInv, Held, Unsold
<1>5. \A x \in Goods : x # row.due /\ Unsold(x) => Unsold(x)'
  BY <1>2, <1>3 DEF Unsold
<1>6. Ahead' /\ Unclaimed'
  <2>1. \A x \in 1..Null : x > now => x # row.due /\ x \in Goods /\ Unsold(x)
    BY <1>1 DEF PaidInv, Ahead, Goods
  <2>2. Ahead'
    BY <1>3, <1>5, <2>1 DEF Ahead
  <2>3. \A k \in Keys : k # row.due /\ k \in Goods
    BY <1>1, GoodsApart DEF Goods
  <2>4. Unclaimed'
    BY <1>3, <1>5, <2>3 DEF PaidInv, Unclaimed
  <2>5. QED
    BY <2>2, <2>4
<1>7. InRow'
  <2>1. row'.due = NextOccurrence(now)
    BY DEF Tick, TypeOK, Row
  <2>2. row'.due \in (now + 1)..Null
    BY <2>1, NextOccurrenceLater DEF TypeOK
  <2>3. QED
    BY <1>1, <1>3, <2>2 DEF InRow
<1>8. Carries'
  BY <1>1, <1>2, <1>3 DEF PaidInv, Carries
<1>9. QED
  BY <1>3, <1>4, <1>6, <1>7, <1>8 DEF PaidInv, PaidOnce

LEMMA HookPaid ==
  ASSUME TypeOK, PaidInv, NEW f \in Firings, NEW k \in Keys \cup {NoKey}, Hook(f, k)
  PROVE  PaidInv'
<1>1. /\ fire'[f].pc = "start" /\ fire'[f].by = "hook" /\ fire'[f].key = k
      /\ Wants(f)' = {k} \cap Keys
      /\ \A g \in Firings : g # f => fire'[g] = fire[g] /\ Wants(g)' = Wants(g)
  BY StartsWants, GoodsApart DEF Hook, Goods
<1>2. bought' = bought /\ now' = now /\ row' = row /\ stamp' = stamp /\ claimed' = claimed \cup ({k} \ {NoKey})
  BY DEF Hook, history
<1>3. k \in Keys => Unsold(k)
  BY DEF Hook, PaidInv, Unclaimed
<1>4. Held'
  BY <1>1, <1>2, <1>3 DEF PaidInv, Held, Unsold
<1>5. \A x \in Goods : x # k /\ Unsold(x) => Unsold(x)'
  BY <1>1, <1>2 DEF Unsold
<1>6. Ahead'
  BY <1>2, <1>5, GoodsApart DEF PaidInv, Ahead, Goods
<1>7. Unclaimed'
  BY <1>2, <1>5, GoodsApart DEF PaidInv, Unclaimed, Goods
<1>8. InRow'
  BY <1>2, <1>5, GoodsApart DEF PaidInv, InRow, Goods
<1>9. Carries'
  BY <1>1, <1>2 DEF PaidInv, Carries
<1>10. QED
  BY <1>2, <1>4, <1>6, <1>7, <1>8, <1>9 DEF PaidInv, PaidOnce

LEMMA ManualPaid ==
  ASSUME TypeOK, PaidInv, NEW f \in Firings, Manual(f)
  PROVE  PaidInv'
<1>1. /\ fire'[f].pc = "start" /\ fire'[f].by = "manual" /\ fire'[f].key = NoKey
      /\ Wants(f)' = {}
      /\ \A g \in Firings : g # f => fire'[g] = fire[g] /\ Wants(g)' = Wants(g)
  BY StartsWants, GoodsApart DEF Manual
<1>2. bought' = bought /\ now' = now /\ row' = row /\ stamp' = stamp /\ claimed' = claimed
  BY DEF Manual, history
<1>3. Held' /\ Ahead' /\ InRow' /\ Unclaimed' /\ PaidOnce'
  BY <1>1, <1>2, FewerWants
<1>4. Carries'
  BY <1>1, <1>2 DEF PaidInv, Carries
<1>5. QED
  BY <1>3, <1>4 DEF PaidInv

LEMMA CheapPassPaid ==
  ASSUME TypeOK, PaidInv, NEW f \in Firings, CheapPass(f)
  PROVE  PaidInv'
<1>1. /\ fire'[f].pc = "commit" /\ fire'[f].by = fire[f].by
      /\ fire'[f].occ = fire[f].occ /\ fire'[f].key = fire[f].key
      /\ \A g \in Firings : g # f => fire'[g] = fire[g]
  BY DEF CheapPass, TypeOK, Firing
<1>2. bought' = bought /\ now' = now /\ row' = row /\ stamp' = stamp /\ claimed' = claimed
  BY DEF CheapPass, history
<1>3. \A g \in Firings : Wants(g)' = Wants(g)
  BY <1>1 DEF CheapPass, Wants, Goods
<1>4. Held' /\ Ahead' /\ InRow' /\ Unclaimed' /\ PaidOnce'
  BY <1>2, <1>3, FewerWants
<1>5. Carries'
  BY <1>1, <1>2 DEF PaidInv, Carries, CheapPass
<1>6. QED
  BY <1>4, <1>5 DEF PaidInv

\* Re-arming puts the occurrence back in the row; nobody else has it.
LEMMA RearmPaid ==
  ASSUME TypeOK, PaidInv, NEW f \in Firings, Rearm(f)
  PROVE  PaidInv'
<1>1. Ends(f) /\ bought' = bought /\ now' = now /\ claimed' = claimed
  BY DEF Rearm, history
<1>2. CASE ~Untouched(f)
  BY <1>1, <1>2, EndsPaid DEF Rearm
<1>3. CASE Untouched(f)
  <2>1. row'.due = fire[f].occ /\ stamp' = NoFiring
    BY <1>3 DEF Rearm, Untouched, Write, Failed, TypeOK, Row
  <2>2. fire[f].occ \in 1..Null /\ fire[f].occ \in Wants(f)
    BY <1>3 DEF Rearm, Untouched, PaidInv, Carries, TypeOK, Firing, Wants, Goods
  <2>3. \A g \in Firings : Wants(g)' \subseteq Wants(g)
    BY <1>1, EndsWants
  <2>4. \A x \in Goods : Unsold(x) => Unsold(x)'
    BY <1>1, <2>3 DEF Unsold
  <2>5. Held' /\ Ahead' /\ Unclaimed' /\ PaidOnce'
    BY <1>1, <2>3, <2>4 DEF PaidInv, Held, Ahead, Unclaimed, PaidOnce, Goods
  <2>6. Unsold(row.due)'
    <3>1. bought[fire[f].occ] = 0
      BY <2>2 DEF PaidInv, Held
    <3>2. \A g \in Firings : fire[f].occ \notin Wants(g)'
      BY <1>1, <2>2, EndsWants DEF PaidInv, Held
    <3>3. QED
      BY <1>1, <2>1, <3>1, <3>2 DEF Unsold
  <2>7. InRow'
    BY <2>1, <2>2, <2>6 DEF InRow
  <2>8. Carries'
    BY <1>1, <2>1, EndsCarries DEF PaidInv
  <2>9. QED
    BY <2>5, <2>7, <2>8 DEF PaidInv
<1>4. QED
  BY <1>2, <1>3

\* A key is released only by the post that claimed it, before anything was bought.
LEMMA ReleaseKeyPaid ==
  ASSUME "hook" \notin LostAnswers,
         TypeOK, PaidInv, NEW f \in Firings, ReleaseKey(f)
  PROVE  PaidInv'
<1>1. /\ Ends(f) /\ bought' = bought /\ now' = now /\ row' = row /\ stamp' = stamp
      /\ claimed' = claimed \ {fire[f].key}
  BY DEF ReleaseKey, history
<1>2. \A g \in Firings : Wants(g)' \subseteq Wants(g)
  BY <1>1, EndsWants
<1>3. \A x \in Goods : Unsold(x) => Unsold(x)'
  BY <1>1, <1>2 DEF Unsold
<1>4. Held' /\ Ahead' /\ InRow' /\ PaidOnce'
  BY <1>1, <1>2, <1>3 DEF PaidInv, Held, Ahead, InRow, PaidOnce, Goods
<1>5. ASSUME NEW k \in Keys, k = fire[f].key PROVE Unsold(k)'
  <2>1. fire[f].pc \in {"start", "commit"}
    BY <1>5, GoodsApart DEF ReleaseKey, PaidInv, Carries, TypeOK, Firing, Goods
  <2>2. k \in Wants(f)
    BY <1>5, <2>1 DEF Wants, Goods
  <2>3. bought[k] = 0 /\ \A g \in Firings : k \notin Wants(g)'
    BY <1>1, <2>2, EndsWants DEF PaidInv, Held
  <2>4. QED
    BY <1>1, <2>3 DEF Unsold
<1>6. Unclaimed'
  BY <1>1, <1>3, <1>5 DEF PaidInv, Unclaimed, Goods
<1>7. Carries'
  BY <1>1, EndsCarries DEF PaidInv
<1>8. QED
  BY <1>4, <1>6, <1>7 DEF PaidInv

\* The transaction buys what the firing wanted, which it then wants no more.
LEMMA MaterializePaid ==
  ASSUME "hook" \notin LostAnswers,
         TypeOK, PaidInv, NEW f \in Firings, NEW t \in Runs, Materialize(f, t)
  PROVE  PaidInv'
<1>1. /\ now' = now /\ claimed' = claimed /\ stamp' = NoFiring
      /\ fire[f].pc = "commit"
  BY DEF Materialize, Write
<1>2. row'.due = row.due
  <2>1. [Tallied(fire[f].today, 1) EXCEPT !.last = t].due = row.due
    BY TalliedKeeps
  <2>2. QED
    BY <2>1 DEF Materialize, Write
<1>3. /\ fire'[f].pc \in {"idle", "threw"}
      /\ fire'[f].pc = "threw" => fire'[f].by # "hook" /\ fire'[f].occ = fire[f].occ
                                  /\ fire'[f].by = fire[f].by /\ fire'[f].key = fire[f].key
      /\ \A g \in Firings : g # f => fire'[g] = fire[g]
  BY EndsWants DEF Materialize, Steps, TypeOK, Firing
<1>4. /\ Wants(f)' = {}
      /\ \A g \in Firings : g # f => Wants(g)' = Wants(g)
  BY <1>3 DEF Wants, Goods
<1>5. \A x \in Goods : bought'[x] = IF x \in Wants(f) THEN bought[x] + 1 ELSE bought[x]
  BY <1>1 DEF Materialize, Bought, TypeOK, Wants, Goods
<1>6. Held'
  BY <1>4, <1>5 DEF PaidInv, Held, Wants
<1>7. \A x \in Goods : Unsold(x) => Unsold(x)'
  BY <1>4, <1>5 DEF Unsold
<1>8. Ahead' /\ InRow' /\ Unclaimed'
  BY <1>1, <1>2, <1>7 DEF PaidInv, Ahead, InRow, Unclaimed, Goods
<1>9. PaidOnce'
  BY <1>5 DEF PaidInv, PaidOnce, Held, Goods
<1>10. Carries'
  BY <1>1, <1>3, AutomationAssumption DEF PaidInv, Carries, AutomationAssumption
<1>11. QED
  BY <1>6, <1>8, <1>9, <1>10 DEF PaidInv

LEMMA StepPaidInv ==
  ASSUME "hook" \notin LostAnswers, TypeOK, PaidInv, [Next]_vars
  PROVE  PaidInv'
<1> USE DEF history
<1>1. CASE TimePasses
  <2>1. \A g \in Firings : Wants(g)' = Wants(g)
    BY <1>1 DEF TimePasses, Wants, Goods
  <2>2. \A x \in Goods : Unsold(x)' = Unsold(x)
    BY <1>1, <2>1 DEF TimePasses, Unsold
  <2>3. now \in Nat /\ now' = now + 1
    BY <1>1, AutomationAssumption DEF TimePasses, TypeOK, Instants, AutomationAssumption
  <2>4. Held' /\ Unclaimed' /\ PaidOnce' /\ Carries'
    BY <1>1, <2>1, <2>2 DEF TimePasses, PaidInv, Held, Unclaimed, PaidOnce, Carries, Goods
  <2>5. Ahead' /\ InRow'
    <3>1. row' = row
      BY <1>1 DEF TimePasses
    <3>2. \A x \in 1..Null : x > now + 1 => x > now
      BY <2>3
    <3>3. row.due <= now + 1 => row.due <= now \/ row.due > now
      BY <2>3 DEF PaidInv, InRow
    <3>4. row.due \in 1..Null
      BY DEF PaidInv, InRow
    <3>5. row.due <= now + 1 => Unsold(row.due)
      BY <3>3, <3>4 DEF PaidInv, InRow, Ahead
    <3>6. QED
      BY <2>2, <2>3, <3>1, <3>2, <3>4, <3>5 DEF PaidInv, Ahead, InRow, Goods
  <2>6. QED
    BY <2>4, <2>5 DEF PaidInv
<1>2. CASE Pause \/ Refuse \/ Disable
  BY <1>2, NoFiringPaid DEF Pause, Refuse, Disable, Write, TypeOK, Row
<1>3. CASE Resume
  <2>1. NextOccurrence(now) \in (now + 1)..Null
    BY NextOccurrenceLater DEF TypeOK
  <2>2. row'.due = NextOccurrence(now)
    BY <1>3 DEF Resume, Write, TypeOK, Row
  <2>3. QED
    BY <1>3, <2>1, <2>2, DueMoves DEF Resume, Write
<1>4. CASE Delete
  <2>1. Null \in (now + 1)..Null
    BY AutomationAssumption DEF TypeOK, Instants, Null, AutomationAssumption
  <2>2. QED
    BY <1>4, <2>1, DueMoves DEF Delete, Gone
<1>5. ASSUME NEW f \in Firings, FiringStep(f) PROVE PaidInv'
  <2>1. CASE CheapSkip(f) \/ LockedSkip(f)
    BY <2>1, EndsPaid DEF CheapSkip, LockedSkip, Write
  <2>2. CASE BudgetRefused(f)
    <3>1. Failed(row).due = row.due
      BY DEF Failed, TypeOK, Row
    <3>2. QED
      BY <2>2, <3>1, EndsPaid DEF BudgetRefused, CountFailure, Write
  <2>3. CASE ConditionUnmet(f)
    BY <2>3, TalliedKeeps, EndsPaid DEF ConditionUnmet, Write
  <2>4. CASE Crash(f)
    BY <2>4, EndsPaid DEF Crash
  <2>5. QED
    BY <1>5, <2>1, <2>2, <2>3, <2>4, TickPaid, ManualPaid, HookPaid, CheapPassPaid,
       RearmPaid, ReleaseKeyPaid, MaterializePaid DEF FiringStep
<1>6. ASSUME NEW t \in Runs, RunStep(t) PROVE PaidInv'
  <2>1. CASE RunEnds(t, "completed")
    <3>1. stamp' = NoFiring
      BY <2>1 DEF RunEnds, Write
    <3>2. UNCHANGED <<fire, bought, now, claimed>>
      BY <2>1 DEF RunEnds
    <3>3. QED
      BY <2>1, <3>1, <3>2, CompletedKeeps, NoFiringPaid
  <2>2. CASE RunEnds(t, "over")
    <3>1. Failed(row).due = row.due
      BY DEF Failed, TypeOK, Row
    <3>2. QED
      BY <2>2, <3>1, NoFiringPaid DEF RunEnds, CountFailure, Write
  <2>3. CASE RunEnds(t, "awaiting")
    BY <2>3, NoFiringPaid DEF RunEnds
  <2>4. CASE RunStarts(t) \/ RunLost(t) \/ Answer(t) \/ \E s \in {"completed", "awaiting"} : ContinuationEnds(t, s)
    BY <2>4, NoFiringPaid DEF RunStarts, RunLost, Answer, ContinuationEnds
  <2>5. QED
    BY <1>6, <2>1, <2>2, <2>3, <2>4 DEF RunStep
<1>7. CASE UNCHANGED vars
  BY <1>7, NoFiringPaid DEF vars
<1>8. QED
  BY <1>1, <1>2, <1>3, <1>4, <1>5, <1>6, <1>7 DEF Next

\* However many ticks and posts overlap, fail, are re-armed or lose their answers, an
\* occurrence or a webhook event buys one run, if the webhook hears of its commits.
THEOREM BoughtOnce ==
  ASSUME "hook" \notin LostAnswers
  PROVE  Spec => []PaidOnce
<1>1. PaidInv => PaidOnce
  BY DEF PaidInv
<1>2. TypeOK /\ PaidInv /\ [Next]_vars => PaidInv'
  BY StepPaidInv
<1>3. QED
  BY <1>1, <1>2, InitTypeOK, InitPaidInv, StepTypeOK, PTL DEF Spec

-----------------------------------------------------------------------------
(* The day's ceiling.  The row's tally is of the last day anything ran on, *)
(* and it is not less than the unattended runs of that day.                *)

Tally ==
    row.exists =>
        /\ row.day <= Day(now)
        /\ dayRuns[row.day] <= row.runs
        /\ \A d \in Days : d > row.day => dayRuns[d] = 0

DayInv ==
    /\ \A f \in Firings : fire[f].pc # "idle" => fire[f].today = Day(now)
    /\ Tally
    /\ WithinDay

\* A step that writes neither the tally nor what it counts, nor starts a firing.
LEMMA SameDay ==
  ASSUME TypeOK, DayInv, dayRuns' = dayRuns, now' = now,
         \A f \in Firings : fire'[f].pc # "idle" => fire[f].pc # "idle" /\ fire'[f].today = fire[f].today,
         row'.exists => row.exists /\ row'.day = row.day /\ row'.runs = row.runs
  PROVE  DayInv'
  BY DEF DayInv, Tally, WithinDay, Day

\* Tallying on the present day keeps the tally, counting no run.
LEMMA TallyZero ==
  ASSUME TypeOK, DayInv, dayRuns' = dayRuns, now' = now,
         \A f \in Firings : fire'[f].pc # "idle" => fire[f].pc # "idle" /\ fire'[f].today = fire[f].today,
         row'.exists => row.exists /\ row'.day = Day(now)
                        /\ row'.runs = (IF row.day = Day(now) THEN row.runs ELSE 0)
  PROVE  DayInv'
<1>1. now \in Nat /\ Day(now) \in Nat /\ Day(now) \in Days
  BY DayInDays, AutomationAssumption, DayMonotone DEF TypeOK, Instants, AutomationAssumption
<1>2. Tally'
  <2> SUFFICES ASSUME row'.exists PROVE /\ row'.day <= Day(now)
                                        /\ dayRuns[row'.day] <= row'.runs
                                        /\ \A d \in Days : d > row'.day => dayRuns[d] = 0
    BY DEF Tally, Day
  <2>1. row.exists /\ row.day \in Days /\ row.runs \in Nat /\ Days \subseteq Nat
    <3>1. Day(Horizon) \in Nat
      BY AutomationAssumption, DayMonotone, Horizon <= Horizon DEF AutomationAssumption
    <3>2. QED
      BY <3>1, AutomationAssumption DEF TypeOK, Row, Days, AutomationAssumption
  <2>2. row.day <= Day(now) /\ dayRuns[row.day] <= row.runs /\ \A d \in Days : d > row.day => dayRuns[d] = 0
    BY <2>1 DEF DayInv, Tally
  <2>3. row'.day = Day(now) /\ row'.runs = (IF row.day = Day(now) THEN row.runs ELSE 0)
    OBVIOUS
  <2>4. CASE row.day = Day(now)
    BY <1>1, <2>1, <2>2, <2>3, <2>4
  <2>5. CASE row.day # Day(now)
    <3>1. row.day \in Nat
      BY <2>1
    <3>2. Day(now) > row.day
      BY <1>1, <2>2, <2>5, <3>1
    <3>3. dayRuns[Day(now)] = 0
      BY <1>1, <2>2, <3>2
    <3>4. ASSUME NEW d \in Days, d > Day(now) PROVE dayRuns[d] = 0
      <4>1. d \in Nat
        BY <2>1
      <4>2. d > row.day
        BY <1>1, <3>1, <3>2, <3>4, <4>1
      <4>3. QED
        BY <2>2, <4>2
    <3>5. QED
      BY <1>1, <2>3, <2>5, <3>3, <3>4
  <2>6. QED
    BY <2>4, <2>5
<1>3. QED
  BY <1>2 DEF DayInv, WithinDay, Day

\* What Ends and Starts do to the day a firing believes it is.
LEMMA EndsToday ==
  ASSUME TypeOK, NEW f \in Firings, Ends(f)
  PROVE  \A g \in Firings : fire'[g].pc # "idle" => fire[g].pc # "idle" /\ fire'[g].today = fire[g].today
  BY EndsWants

LEMMA StartsDay ==
  ASSUME TypeOK, DayInv, NEW f \in Firings, NEW by, NEW occ, NEW key, Starts(f, by, occ, key),
         dayRuns' = dayRuns, now' = now,
         row'.exists = row.exists, row'.day = row.day, row'.runs = row.runs
  PROVE  DayInv'
<1>1. fire'[f].today = Day(now) /\ \A g \in Firings : g # f => fire'[g] = fire[g]
  BY DEF Starts, TypeOK
<1>2. QED
  BY <1>1 DEF DayInv, Tally, WithinDay, Day

LEMMA TalliedDay ==
  ASSUME TypeOK, NEW d, NEW n
  PROVE  /\ Tallied(d, n).day = d
         /\ Tallied(d, n).runs = (IF row.day = d THEN row.runs ELSE 0) + n
<1> DEFINE m == (IF row.day = d THEN row.runs ELSE 0) + n
<1>1. Tallied(d, n) = [row EXCEPT !.day = d, !.runs = m]
  BY DEF Tallied, TypeOK, Row
<1> HIDE DEF m
<1>2. Tallied(d, n).day = d /\ Tallied(d, n).runs = m
  BY <1>1 DEF TypeOK, Row
<1>3. QED
  BY <1>2 DEF m

\* The transaction counts the run it buys, below the ceiling.
LEMMA MaterializeDay ==
  ASSUME TypeOK, DayInv, NEW f \in Firings, NEW t \in Runs, Materialize(f, t)
  PROVE  DayInv'
<1> DEFINE D == Day(now)
<1>1. /\ fire[f].today = D /\ now' = now /\ row.exists
      /\ dayRuns' = [dayRuns EXCEPT ![D] = IF Attended(f) THEN @ ELSE @ + 1]
      /\ row' = [Tallied(D, 1) EXCEPT !.last = t]
  BY DEF Materialize, DayInv, Bought, Write
<1>2. /\ D \in Nat /\ D \in Days /\ row.day \in Days /\ row.runs \in Nat /\ Days \subseteq Nat
      /\ dayRuns \in [Days -> Nat] /\ Cap \in Nat /\ Cap > 0
  <2>1. Day(Horizon) \in Nat
    BY AutomationAssumption, DayMonotone, Horizon <= Horizon DEF AutomationAssumption
  <2>2. D \in Days
    BY DayInDays DEF TypeOK
  <2>3. QED
    BY <2>1, <2>2, AutomationAssumption DEF TypeOK, Row, Days, AutomationAssumption
<1>3. row'.day = D /\ row'.runs = (IF row.day = D THEN row.runs ELSE 0) + 1
  <2>1. Tallied(D, 1) \in Row
    <3>1. 0 < MaxRuns /\ (row.runs < MaxRuns \/ row.day # D)
      BY <1>1, AutomationAssumption DEF Materialize, Runs, AutomationAssumption
    <3>2. QED
      BY <1>2, <3>1, RowTypes
  <2>2. row'.day = Tallied(D, 1).day /\ row'.runs = Tallied(D, 1).runs
    BY <1>1, <2>1 DEF Row
  <2>3. QED
    BY <2>2, TalliedDay
<1>4. row.day <= D /\ dayRuns[row.day] <= row.runs /\ \A d \in Days : d > row.day => dayRuns[d] = 0
  BY <1>1 DEF DayInv, Tally
<1>5. ~Attended(f) /\ row.day = D => row.runs < Cap
  <2>1. ~Capped(f)
    BY DEF Materialize
  <2>2. QED
    BY <1>1, <1>2, <2>1 DEF Capped
<1> HIDE DEF D
<1>6. dayRuns[D] <= (IF row.day = D THEN row.runs ELSE 0)
  <2>1. CASE row.day = D
    BY <1>4, <2>1
  <2>2. CASE row.day # D
    <3>1. row.day \in Nat
      BY <1>2
    <3>2. D > row.day
      BY <1>2, <1>4, <2>2, <3>1
    <3>3. dayRuns[D] = 0
      BY <1>2, <1>4, <3>2
    <3>4. QED
      BY <2>2, <3>3
  <2>3. QED
    BY <2>1, <2>2
<1>7. \A d \in Days : dayRuns'[d] = IF d = D /\ ~Attended(f) THEN dayRuns[d] + 1 ELSE dayRuns[d]
  BY <1>1, <1>2
<1>8. dayRuns'[D] <= row'.runs
  <2>1. dayRuns[D] \in Nat /\ (IF row.day = D THEN row.runs ELSE 0) \in Nat
    BY <1>2
  <2>2. dayRuns'[D] = dayRuns[D] + 1 \/ dayRuns'[D] = dayRuns[D]
    BY <1>2, <1>7
  <2>3. QED
    BY <1>3, <1>6, <2>1, <2>2
<1>9. ASSUME NEW d \in Days, d > D PROVE dayRuns'[d] = 0
  <2>1. d \in Nat /\ row.day \in Nat
    BY <1>2
  <2>2. d > row.day /\ d # D
    BY <1>2, <1>4, <1>9, <2>1
  <2>3. QED
    BY <1>4, <1>7, <2>2
<1>10. WithinDay'
  <2> SUFFICES ASSUME NEW d \in Days PROVE dayRuns'[d] <= Cap
    BY DEF WithinDay
  <2>1. dayRuns[d] <= Cap
    BY DEF DayInv, WithinDay
  <2>2. CASE d = D /\ ~Attended(f)
    <3>1. (IF row.day = D THEN row.runs ELSE 0) < Cap
      BY <1>2, <1>5, <2>2
    <3>2. dayRuns[D] \in Nat /\ (IF row.day = D THEN row.runs ELSE 0) \in Nat
      BY <1>2
    <3>3. dayRuns[D] < Cap
      BY <1>2, <1>6, <3>1, <3>2
    <3>4. dayRuns'[d] = dayRuns[D] + 1
      BY <1>7, <2>2
    <3>5. QED
      BY <1>2, <3>2, <3>3, <3>4
  <2>3. CASE ~(d = D /\ ~Attended(f))
    BY <1>7, <2>1, <2>3
  <2>4. QED
    BY <2>2, <2>3
<1>11. Tally'
  <2>1. Day(now') = D
    BY <1>1 DEF D
  <2>2. D <= D
    BY <1>2
  <2>3. QED
    BY <1>3, <1>8, <1>9, <2>1, <2>2 DEF Tally, Day
<1>12. \A g \in Firings : fire'[g].pc # "idle" => fire'[g].today = Day(now)
  BY EndsWants DEF Materialize, Steps, TypeOK, Firing, DayInv
<1>13. QED
  BY <1>1, <1>10, <1>11, <1>12 DEF DayInv, Day

LEMMA StepDayInv ==
  ASSUME ~Midnight, TypeOK, DayInv, [Next]_vars
  PROVE  DayInv'
<1> USE DEF history
<1>1. CASE TimePasses
  <2>1. now \in Nat /\ now' = now + 1 /\ UNCHANGED <<row, fire, dayRuns>>
    BY <1>1, AutomationAssumption DEF TimePasses, TypeOK, Instants, AutomationAssumption
  <2>2. Day(now) \in Nat /\ Day(now + 1) \in Nat /\ Day(now) <= Day(now + 1)
    BY <2>1, DayMonotone, now + 1 \in Nat, now <= now + 1
  <2>3. \A f \in Firings : fire[f].pc # "idle" => Day(now + 1) = Day(now)
    BY <1>1 DEF TimePasses
  <2>4. row.day \in Nat
    <3>1. Day(Horizon) \in Nat
      BY AutomationAssumption, DayMonotone, Horizon <= Horizon DEF AutomationAssumption
    <3>2. QED
      BY <3>1 DEF TypeOK, Row, Days
  <2>5. Tally'
    <3>1. row.day <= Day(now) => row.day <= Day(now + 1)
      BY <2>2, <2>4
    <3>2. QED
      BY <2>1, <3>1 DEF DayInv, Tally, Day
  <2>6. QED
    BY <2>1, <2>3, <2>5 DEF DayInv, WithinDay, Day
<1>2. CASE Pause \/ Refuse \/ Disable \/ Resume \/ Delete
  <2>1. row'.exists => row.exists /\ row'.day = row.day /\ row'.runs = row.runs
    <3>1. CASE Pause \/ Refuse \/ Disable
      BY <3>1 DEF Pause, Refuse, Disable, Write, TypeOK, Row
    <3>2. CASE Resume
      BY <3>2 DEF Resume, Write, TypeOK, Row
    <3>3. CASE Delete
      BY <3>3 DEF Delete, Gone
    <3>4. QED
      BY <1>2, <3>1, <3>2, <3>3
  <2>2. QED
    BY <1>2, <2>1, SameDay DEF Pause, Refuse, Disable, Resume, Delete
<1>3. ASSUME NEW f \in Firings, FiringStep(f) PROVE DayInv'
  <2>1. CASE Tick(f)
    <3>1. row'.exists = row.exists /\ row'.day = row.day /\ row'.runs = row.runs
      BY <2>1 DEF Tick, TypeOK, Row
    <3>2. QED
      BY <2>1, <3>1, StartsDay DEF Tick
  <2>2. CASE Manual(f)
    BY <2>2, StartsDay DEF Manual
  <2>3. ASSUME NEW k \in Keys \cup {NoKey}, Hook(f, k) PROVE DayInv'
    BY <2>3, StartsDay DEF Hook
  <2>4. CASE CheapSkip(f) \/ LockedSkip(f) \/ Crash(f) \/ ReleaseKey(f)
    BY <2>4, EndsToday, SameDay DEF CheapSkip, LockedSkip, Crash, ReleaseKey, Write
  <2>5. CASE CheapPass(f)
    <3>1. \A g \in Firings : fire'[g].pc # "idle" => fire[g].pc # "idle" /\ fire'[g].today = fire[g].today
      BY <2>5 DEF CheapPass, TypeOK, Firing
    <3>2. QED
      BY <2>5, <3>1, SameDay DEF CheapPass
  <2>6. CASE BudgetRefused(f)
    <3>1. row'.exists => row.exists /\ row'.day = row.day /\ row'.runs = row.runs
      BY <2>6 DEF BudgetRefused, CountFailure, Write, Failed, TypeOK, Row
    <3>2. QED
      BY <2>6, <3>1, EndsToday, SameDay DEF BudgetRefused
  <2>7. CASE Rearm(f)
    <3>1. row'.exists => row.exists /\ row'.day = row.day /\ row'.runs = row.runs
      BY <2>7 DEF Rearm, Write, Failed, TypeOK, Row
    <3>2. QED
      BY <2>7, <3>1, EndsToday, SameDay DEF Rearm
  <2>8. CASE ConditionUnmet(f)
    <3>1. fire[f].today = Day(now)
      BY <2>8 DEF ConditionUnmet, DayInv
    <3>2. row' = IF row.exists THEN Tallied(Day(now), 0) ELSE row
      BY <2>8, <3>1 DEF ConditionUnmet, Write
    <3>3. row.runs \in Nat
      BY AutomationAssumption DEF TypeOK, Row, AutomationAssumption
    <3>4. row'.exists => row.exists /\ row'.day = Day(now)
                         /\ row'.runs = (IF row.day = Day(now) THEN row.runs ELSE 0)
      BY <3>2, <3>3, TalliedDay
    <3>5. QED
      BY <2>8, <3>4, EndsToday, TallyZero DEF ConditionUnmet
  <2>9. ASSUME NEW t \in Runs, Materialize(f, t) PROVE DayInv'
    BY <2>9, MaterializeDay
  <2>10. QED
    BY <1>3, <2>1, <2>2, <2>3, <2>4, <2>5, <2>6, <2>7, <2>8, <2>9 DEF FiringStep
<1>4. ASSUME NEW t \in Runs, RunStep(t) PROVE DayInv'
  <2>1. CASE RunEnds(t, "completed")
    <3>1. UNCHANGED <<fire, dayRuns, now>>
      BY <2>1 DEF RunEnds
    <3>2. PICK quiet \in BOOLEAN :
             row' = IF row.exists THEN [(IF quiet THEN Tallied(Day(now), 0) ELSE row) EXCEPT !.fails = 0]
                                  ELSE row
      BY <2>1 DEF RunEnds, Write
    <3>3. CASE quiet
      <4>1. Tallied(Day(now), 0) \in Row /\ row.runs \in Nat
        BY RowTypes, DayInDays, AutomationAssumption DEF TypeOK, Row, AutomationAssumption
      <4>2. row'.exists => row.exists /\ row'.day = Tallied(Day(now), 0).day /\ row'.runs = Tallied(Day(now), 0).runs
        BY <3>2, <3>3, <4>1 DEF Row
      <4>3. row'.exists => row.exists /\ row'.day = Day(now)
                           /\ row'.runs = (IF row.day = Day(now) THEN row.runs ELSE 0)
        BY <4>1, <4>2, TalliedDay
      <4>4. QED
        BY <3>1, <4>3, TallyZero
    <3>4. CASE ~quiet
      <4>1. row'.exists => row.exists /\ row'.day = row.day /\ row'.runs = row.runs
        BY <3>2, <3>4 DEF TypeOK, Row
      <4>2. QED
        BY <3>1, <4>1, SameDay
    <3>5. QED
      BY <3>3, <3>4
  <2>2. CASE RunEnds(t, "over")
    <3>1. row'.exists => row.exists /\ row'.day = row.day /\ row'.runs = row.runs
      BY <2>2 DEF RunEnds, CountFailure, Write, Failed, TypeOK, Row
    <3>2. QED
      BY <2>2, <3>1, SameDay DEF RunEnds
  <2>3. CASE RunEnds(t, "awaiting")
    BY <2>3, SameDay DEF RunEnds
  <2>4. CASE RunStarts(t) \/ RunLost(t) \/ Answer(t) \/ \E s \in {"completed", "awaiting"} : ContinuationEnds(t, s)
    BY <2>4, SameDay DEF RunStarts, RunLost, Answer, ContinuationEnds
  <2>5. QED
    BY <1>4, <2>1, <2>2, <2>3, <2>4 DEF RunStep
<1>5. CASE UNCHANGED vars
  BY <1>5, SameDay DEF vars
<1>6. QED
  BY <1>1, <1>2, <1>3, <1>4, <1>5 DEF Next

\* The day's ceiling on unattended runs holds for any number of firings that read it
\* before they lock the row, if none is under way at midnight.
THEOREM CeilingHolds ==
  ASSUME ~Midnight
  PROVE  Spec => []WithinDay
<1>1. Init => DayInv
  <2> SUFFICES ASSUME Init PROVE DayInv
    OBVIOUS
  <2>1. Day(0) \in Nat /\ Cap \in Nat /\ 0 \in Days
    BY ZeroDay, DayMonotone, 0 \in Nat, 0 <= 0, AutomationAssumption DEF AutomationAssumption
  <2>2. row.day = 0 /\ row.runs = 0 /\ now = 0 /\ \A d \in Days : dayRuns[d] = 0
    BY DEF Init
  <2>3. Tally /\ WithinDay
    BY <2>1, <2>2 DEF Tally, WithinDay
  <2>4. QED
    BY <2>3 DEF Init, DayInv, Idle
<1>2. DayInv => WithinDay
  BY DEF DayInv
<1>3. TypeOK /\ DayInv /\ [Next]_vars => DayInv'
  BY StepDayInv
<1>4. QED
  BY <1>1, <1>2, <1>3, InitTypeOK, StepTypeOK, PTL DEF Spec

-----------------------------------------------------------------------------
(* One live run.  It is the one the row names as its last.                 *)

Alive(t) == task[t] \in {"queued", "running"}

LiveInv ==
    ~single =>
        /\ \A t, u \in Runs : Alive(t) /\ Alive(u) => t = u
        /\ row.exists => \A t \in Runs : Alive(t) => t = row.last

\* A step that starts no run and leaves the row's last one.
LEMMA NoneStarts ==
  ASSUME TypeOK, LiveInv, single' = single, \A t \in Runs : Alive(t)' => Alive(t),
         row'.exists => row.exists /\ row'.last = row.last
  PROVE  LiveInv'
  BY DEF LiveInv

LEMMA MaterializeLive ==
  ASSUME TypeOK, LiveInv, NEW f \in Firings, NEW t \in Runs, Materialize(f, t)
  PROVE  LiveInv'
<1> SUFFICES ASSUME ~single PROVE LiveInv'
  BY DEF Materialize, LiveInv
<1>1. ~Blocks(row.last) /\ row.exists
  BY DEF Materialize, LockedBlocks
<1>2. \A u \in Runs : ~Alive(u)
  <2> SUFFICES ASSUME NEW u \in Runs, Alive(u) PROVE FALSE
    OBVIOUS
  <2>1. u = row.last /\ u # 0
    BY <1>1, AutomationAssumption DEF LiveInv, Runs, AutomationAssumption
  <2>2. QED
    BY <1>1, <2>1 DEF Blocks, Alive
<1>3. \A u \in Runs : Alive(u)' => u = t
  BY <1>2 DEF Materialize, PastCards, Alive, TypeOK
<1>4. row'.last = t
  <2>1. Tallied(fire[f].today, 1) \in Row
    <3>1. fire[f].today \in Days /\ 0 < MaxRuns /\ (row.runs < MaxRuns \/ row.day # fire[f].today)
      BY AutomationAssumption DEF Materialize, TypeOK, Firing, Runs, AutomationAssumption
    <3>2. QED
      BY <3>1, RowTypes
  <2>2. QED
    BY <1>1, <2>1 DEF Materialize, Write, Row
<1>5. QED
  BY <1>3, <1>4 DEF LiveInv

LEMMA StepLiveInv ==
  ASSUME TypeOK, LiveInv, [Next]_vars
  PROVE  LiveInv'
<1> USE DEF history
<1>1. CASE TimePasses \/ Pause \/ Refuse \/ Disable \/ Resume \/ Delete
  <2>1. row'.exists => row.exists /\ row'.last = row.last
    <3>1. CASE Pause \/ Refuse \/ Disable
      BY <3>1 DEF Pause, Refuse, Disable, Write, TypeOK, Row
    <3>2. CASE Resume
      BY <3>2 DEF Resume, Write, TypeOK, Row
    <3>3. CASE Delete \/ TimePasses
      BY <3>3 DEF Delete, Gone, TimePasses
    <3>4. QED
      BY <1>1, <3>1, <3>2, <3>3
  <2>2. single' = single /\ task' = task
    BY <1>1 DEF TimePasses, Pause, Refuse, Disable, Resume, Delete
  <2>3. QED
    BY <2>1, <2>2, NoneStarts DEF Alive
<1>2. ASSUME NEW f \in Firings, FiringStep(f) PROVE LiveInv'
  <2>1. CASE Tick(f) \/ Manual(f) \/ CheapSkip(f) \/ CheapPass(f) \/ LockedSkip(f) \/ ReleaseKey(f)
             \/ Crash(f) \/ \E k \in Keys \cup {NoKey} : Hook(f, k)
    <3>1. row'.exists => row.exists /\ row'.last = row.last
      BY <2>1
        DEF Tick, Manual, CheapSkip, CheapPass, LockedSkip, ReleaseKey, Crash, Hook, Write,
           TypeOK, Row
    <3>2. single' = single /\ task' = task
      BY <2>1 DEF Tick, Manual, CheapSkip, CheapPass, LockedSkip, ReleaseKey, Crash, Hook
    <3>3. QED
      BY <3>1, <3>2, NoneStarts DEF Alive
  <2>2. CASE BudgetRefused(f) \/ Rearm(f) \/ ConditionUnmet(f)
    <3>1. row'.exists => row.exists /\ row'.last = row.last
      <4>1. CASE BudgetRefused(f) \/ Rearm(f)
        BY <4>1 DEF BudgetRefused, CountFailure, Rearm, Write, Failed, TypeOK, Row
      <4>2. CASE ConditionUnmet(f)
        BY <4>2, TalliedKeeps DEF ConditionUnmet, Write
      <4>3. QED
        BY <2>2, <4>1, <4>2
    <3>2. single' = single /\ task' = task
      BY <2>2 DEF BudgetRefused, Rearm, ConditionUnmet
    <3>3. QED
      BY <3>1, <3>2, NoneStarts DEF Alive
  <2>3. QED
    BY <1>2, <2>1, <2>2, MaterializeLive DEF FiringStep
<1>3. ASSUME NEW t \in Runs, RunStep(t) PROVE LiveInv'
  <2>1. single' = single /\ \A u \in Runs : Alive(u)' => Alive(u)
    BY <1>3
      DEF RunStep, RunStarts, RunLost, Answer, RunEnds, ContinuationEnds, PastCards, Alive, TypeOK
  <2>2. row'.exists => row.exists /\ row'.last = row.last
    <3>1. CASE RunEnds(t, "completed")
      <4>1. PICK quiet \in BOOLEAN :
               row' = IF row.exists THEN [(IF quiet THEN Tallied(Day(now), 0) ELSE row) EXCEPT !.fails = 0]
                                    ELSE row
        BY <3>1 DEF RunEnds, Write
      <4>2. Tallied(Day(now), 0) \in Row
        BY RowTypes, DayInDays DEF TypeOK
      <4>3. CASE quiet
        BY <4>1, <4>2, <4>3, TalliedKeeps DEF Row
      <4>4. CASE ~quiet
        BY <4>1, <4>4 DEF TypeOK, Row
      <4>5. QED
        BY <4>3, <4>4
    <3>2. CASE RunEnds(t, "over") \/ RunEnds(t, "awaiting")
      BY <3>2 DEF RunEnds, CountFailure, Write, Failed, TypeOK, Row
    <3>3. CASE RunStarts(t) \/ RunLost(t) \/ Answer(t) \/ \E s \in {"completed", "awaiting"} : ContinuationEnds(t, s)
      BY <3>3 DEF RunStarts, RunLost, Answer, ContinuationEnds
    <3>4. QED
      BY <1>3, <3>1, <3>2, <3>3 DEF RunStep
  <2>3. QED
    BY <2>1, <2>2, NoneStarts
<1>4. CASE UNCHANGED vars
  BY <1>4, NoneStarts DEF vars, Alive
<1>5. QED
  BY <1>1, <1>2, <1>3, <1>4 DEF Next

\* Outside single-thread mode the overlap guard, taken again under the row's lock, keeps
\* an automation to one queued or running turn, whoever started the others.
THEOREM OneRunAtATime == Spec => []OneLiveRun
<1>1. Init => LiveInv
  BY DEF Init, LiveInv, Alive
<1>2. LiveInv => OneLiveRun
  <2> SUFFICES ASSUME LiveInv, ~single
               PROVE  Cardinality({t \in Runs : task[t] \in {"queued", "running"}}) <= 1
    BY DEF OneLiveRun
  <2> DEFINE L == {t \in Runs : task[t] \in {"queued", "running"}}
  <2>1. CASE L = {}
    BY <2>1, FS_EmptySet
  <2>2. CASE L # {}
    <3>1. PICK u \in L : TRUE
      BY <2>2
    <3>2. L = {u}
      BY <3>1 DEF LiveInv, Alive
    <3>3. QED
      BY <3>2, FS_Singleton
  <2>3. QED
    BY <2>1, <2>2
<1>3. QED
  BY <1>1, <1>2, InitTypeOK, StepTypeOK, StepLiveInv, PTL DEF Spec
=============================================================================
