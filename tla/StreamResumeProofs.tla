------------------------- MODULE StreamResumeProofs -------------------------
(***************************************************************************)
(* A tab's clean copy of a streaming reply is exact (Exact of              *)
(* StreamResume), for every bound, with and without the pacer, with slow   *)
(* answers and lost finishes, as long as a snapshot holds only what is     *)
(* published.                                                              *)
(*                                                                         *)
(* The inductive invariant says what the history of the reply makes true   *)
(* of everything that carries text: running rows (Source), events on their *)
(* way (Wire), events held and text in the pacer, all older than what is   *)
(* still to arrive (Kept), and the copy itself (Fits).  A drain is a fold; *)
(* what it replays is followed event by event, and a claim about all of    *)
(* them proved by its least counterexample.                                *)
(***************************************************************************)
EXTENDS StreamResume, SequenceTheorems, WellFoundedInduction, TLAPS

Kinds == {"start", "delta", "reset", "marker", "ping", "finish"}
Events == [kind: Kinds, seq: Nat, toks: Tokens, paced: BOOLEAN]
Accs == [cur: Int, replay: Seq(Events), keep: Seq(Events)]

-----------------------------------------------------------------------------
(* Folds over a sequence.                                                  *)

\* A non-empty set of numbers has a least element: induction, without an operator.
LEMMA LeastOfAny ==
  ASSUME NEW T \in SUBSET Nat, T # {}
  PROVE  \E n \in T : \A k \in T : n <= k
<1> DEFINE R == {ss \in Nat \X Nat : ss[1] < ss[2]}
<1>0. IsWellFoundedOn(R, Nat)
  <2>1. R = OpToRel(<, Nat)
    BY ZenonT(20) DEF OpToRel
  <2> QED
    BY <2>1, NatLessThanWellFounded, Zenon
<1> HIDE DEF R
<1>1. \E x \in T : \A y \in T : <<y, x>> \notin R
  BY <1>0, WFMin
<1>2. PICK x \in T : \A y \in T : <<y, x>> \notin R
  BY <1>1
<1>3. ASSUME NEW y \in T PROVE x <= y
  <2>1. <<y, x>> \notin R
    BY <1>2
  <2>2. x \in Nat /\ y \in Nat
    OBVIOUS
  <2>3. ~(y < x)
    BY <2>1, <2>2 DEF R
  <2> QED BY <2>2, <2>3
<1> QED
  BY <1>3

LEMMA MaxOf ==
  ASSUME NEW n \in Nat, NEW s \in SUBSET (1..n), s # {}
  PROVE  Max(s) \in s /\ \A y \in s : y <= Max(s)
<1> DEFINE T == {n - x : x \in s}
<1>1. T \in SUBSET Nat /\ T # {}
  <2>1. ASSUME NEW x \in s PROVE n - x \in Nat
    <3>1. x \in 1..n
      OBVIOUS
    <3> QED BY <3>1
  <2> QED BY <2>1
<1>2. PICK m \in T : \A k \in T : m <= k
  BY <1>1, LeastOfAny
<1>3. PICK x \in s : m = n - x
  OBVIOUS
<1>4. ASSUME NEW y \in s PROVE x >= y
  <2>1. n - y \in T
    OBVIOUS
  <2>2. n - x <= n - y
    BY <1>2, <1>3, <2>1
  <2>3. x \in Nat /\ y \in Nat
    OBVIOUS
  <2> QED BY <2>2, <2>3
<1>5. \E z \in s : \A y \in s : z >= y
  BY <1>4
<1>6. Max(s) \in s /\ \A y \in s : Max(s) >= y
  BY <1>5 DEF Max
<1>7. \A y \in s : y \in Nat
  OBVIOUS
<1> QED BY <1>6, <1>7

LEMMA MaxUpTo == ASSUME NEW k \in Nat, k # 0 PROVE Max(1..k) = k
<1>1. 1..k # {} /\ k \in 1..k
  OBVIOUS
<1>2. Max(1..k) \in 1..k /\ k <= Max(1..k)
  BY <1>1, MaxOf
<1> QED BY <1>2

\* The last element chosen, what is left of a set is below it.
LEMMA RestBelow ==
  ASSUME NEW k \in Nat, NEW s \in SUBSET (1..(k + 1)), s # {}
  PROVE  Max(s) \in 1..(k + 1) /\ s \ {Max(s)} \in SUBSET (1..k)
<1>1. Max(s) \in s /\ \A y \in s : y <= Max(s)
  <2>1. k + 1 \in Nat
    OBVIOUS
  <2> QED BY <2>1, MaxOf
<1>2. ASSUME NEW y \in s \ {Max(s)} PROVE y \in 1..k
  <2>1. y <= Max(s) /\ y # Max(s) /\ y \in 1..(k + 1) /\ Max(s) \in 1..(k + 1)
    BY <1>1
  <2> QED BY <2>1
<1> QED BY <1>1, <1>2

FoldStep(H, b, g, s) == IF s = {} THEN b ELSE H[<<g[s \ {Max(s)}], Max(s)>>]

FoldSolved(H, b, V, n) ==
  \E g \in [SUBSET (1..n) -> V] : \A s \in SUBSET (1..n) : g[s] = FoldStep(H, b, g, s)

\* The recursion of a fold over 1..n has a solution.
LEMMA FoldExists ==
  ASSUME NEW n \in Nat, NEW V, NEW b \in V, NEW H \in [V \X (1..n) -> V]
  PROVE  FoldSolved(H, b, V, n)
<1> DEFINE Solves(g, k) == /\ g \in [SUBSET (1..k) -> V]
                           /\ \A s \in SUBSET (1..k) : g[s] = FoldStep(H, b, g, s)
           Bad == {k \in 0..n : ~ \E g : Solves(g, k)}
<1>1. \E g : Solves(g, 0)
  <2> DEFINE g == [s \in SUBSET (1..0) |-> b]
  <2>1. \A s \in SUBSET (1..0) : s = {}
    OBVIOUS
  <2>2. Solves(g, 0)
    BY <2>1 DEF FoldStep
  <2> QED BY <2>2
<1>2. ASSUME NEW k \in Nat, k < n, NEW g, Solves(g, k) PROVE \E h : Solves(h, k + 1)
  <2> DEFINE h == [s \in SUBSET (1..(k + 1)) |-> FoldStep(H, b, g, s)]
  <2>1. ASSUME NEW s \in SUBSET (1..k) PROVE s \in SUBSET (1..(k + 1)) /\ h[s] = g[s]
    <3>1. s \in SUBSET (1..(k + 1))
      OBVIOUS
    <3> QED BY <3>1, <1>2
  <2>2. ASSUME NEW s \in SUBSET (1..(k + 1)) PROVE h[s] \in V /\ h[s] = FoldStep(H, b, h, s)
    <3>1. CASE s = {}
      BY <3>1 DEF FoldStep
    <3>2. CASE s # {}
      <4>1. Max(s) \in 1..n /\ s \ {Max(s)} \in SUBSET (1..k)
        <5>1. Max(s) \in 1..(k + 1) /\ s \ {Max(s)} \in SUBSET (1..k)
          BY <3>2, RestBelow
        <5> QED BY <5>1, <1>2
      <4>2. h[s \ {Max(s)}] = g[s \ {Max(s)}] /\ g[s \ {Max(s)}] \in V
        BY <4>1, <2>1, <1>2
      <4>3. h[s] = H[<<g[s \ {Max(s)}], Max(s)>>]
        BY <3>2 DEF FoldStep
      <4>4. h[s] \in V
        BY <4>1, <4>2, <4>3
      <4> HIDE DEF h
      <4> QED BY <3>2, <4>2, <4>3, <4>4 DEF FoldStep
    <3> QED BY <3>1, <3>2
  <2>3. h \in [SUBSET (1..(k + 1)) -> V]
    BY <2>2
  <2>4. Solves(h, k + 1)
    <3> HIDE DEF h
    <3> QED BY <2>2, <2>3
  <2> QED BY <2>4
<1>3. ASSUME Bad # {} PROVE FALSE
  <2> HIDE DEF Solves
  <2>0. Bad \in SUBSET Nat
    OBVIOUS
  <2>1. PICK k \in Bad : \A j \in Bad : k <= j
    BY <1>3, <2>0, LeastOfAny
  <2>2. k \in Nat /\ k # 0 /\ k <= n
    BY <1>1
  <2>3. k - 1 \in Nat /\ k - 1 < n /\ k - 1 \notin Bad
    BY <2>1, <2>2
  <2>4. PICK g : Solves(g, k - 1)
    BY <2>2, <2>3
  <2>5. \E h : Solves(h, (k - 1) + 1)
    BY <2>3, <2>4, <1>2
  <2> QED BY <2>2, <2>5
<1>4. PICK g : Solves(g, n)
  <2>1. n \in 0..n
    OBVIOUS
  <2> HIDE DEF Solves
  <2> QED BY <2>1, <1>3
<1> QED BY <1>4 DEF FoldSolved

-----------------------------------------------------------------------------
(* What planGapDrain and the text of the events amount to.                 *)

LEMMA Texts ==
  /\ <<>> \in Tokens /\ Len(<<>>) = 0 /\ Absent \notin Tokens
  /\ \A s, t \in Tokens : s \o t \in Tokens
  /\ \A s, t, u \in Tokens : (s \o t) \o u = s \o (t \o u)
<1>1. <<>> \in Tokens /\ Len(<<>>) = 0
  BY EmptySeq DEF Tokens
<1>2. Absent \notin Tokens
  <2>1. Len(Absent) = 1 /\ Absent[1] = 0
    BY DEF Absent
  <2>2. ASSUME Absent \in Tokens PROVE FALSE
    <3>1. Absent \in Seq(1..MaxTokens) /\ 1 \in 1..Len(Absent)
      BY <2>1, <2>2 DEF Tokens
    <3>2. Absent[1] \in 1..MaxTokens
      BY <3>1, ElementOfSeq
    <3> QED BY <2>1, <3>2
  <2> QED BY <2>2
<1>3. \A s, t \in Tokens : s \o t \in Tokens
  BY ConcatProperties DEF Tokens
<1>4. \A s, t, u \in Tokens : (s \o t) \o u = s \o (t \o u)
  BY ConcatAssociative DEF Tokens
<1> QED BY <1>1, <1>2, <1>3, <1>4

LEMMA PlanEventType ==
  ASSUME NEW acc \in Accs, NEW e \in Events
  PROVE  PlanEvent(acc, e) \in Accs
<1>1. /\ acc.cur \in Int /\ acc.replay \in Seq(Events) /\ acc.keep \in Seq(Events)
      /\ e.seq \in Nat
  BY DEF Accs, Events
<1>2. Append(acc.keep, e) \in Seq(Events) /\ Append(acc.replay, e) \in Seq(Events)
  BY <1>1, AppendProperties
<1>3. <<e>> \in Seq(Events)
  OBVIOUS
<1>4. CASE acc.keep # <<>>
  BY <1>1, <1>2, <1>4 DEF PlanEvent, Accs
<1>5. CASE acc.keep = <<>>
  <2>1. \/ PlanEvent(acc, e) = acc
        \/ PlanEvent(acc, e) = [acc EXCEPT !.keep = <<e>>]
        \/ PlanEvent(acc, e) = [acc EXCEPT !.cur = e.seq, !.replay = Append(@, e)]
    BY <1>5 DEF PlanEvent, Classify
  <2>2. [acc EXCEPT !.keep = <<e>>] \in Accs
    BY <1>3 DEF Accs
  <2>3. [acc EXCEPT !.cur = e.seq, !.replay = Append(@, e)] \in Accs
    <3>1. e.seq \in Int
      BY <1>1
    <3> DEFINE u == [acc EXCEPT !.cur = e.seq]
               a == Append(acc.replay, e)
    <3>2. u \in Accs
      BY <3>1 DEF Accs
    <3>3. [acc EXCEPT !.cur = e.seq, !.replay = Append(@, e)] = [u EXCEPT !.replay = a]
      OBVIOUS
    <3>4. a \in Seq(Events)
      BY <1>2
    <3> HIDE DEF u, a
    <3> QED BY <3>2, <3>3, <3>4 DEF Accs
  <2> QED BY <2>1, <2>2, <2>3
<1> QED BY <1>4, <1>5

PlanStart(c) == [cur |-> c, replay |-> <<>>, keep |-> <<>>]
PlanRec(h, c) ==
  CHOOSE g : g = [s \in SUBSET DOMAIN h |->
                    IF s = {} THEN PlanStart(c) ELSE PlanEvent(g[s \ {Max(s)}], h[Max(s)])]

\* A drain goes through the events one by one.
LEMMA PlanSteps ==
  ASSUME NEW h \in Seq(Events), NEW c \in Int
  PROVE  \E F \in [0..Len(h) -> Accs] :
           /\ F[0] = PlanStart(c) /\ F[Len(h)] = Plan(h, c)
           /\ \A k \in 1..Len(h) : F[k] = PlanEvent(F[k - 1], h[k])
<1> DEFINE n == Len(h)
           H == [p \in Accs \X (1..n) |-> PlanEvent(p[1], h[p[2]])]
<1>0. n \in Nat /\ DOMAIN h = 1..n /\ \A k \in 1..n : h[k] \in Events
  BY LenProperties, ElementOfSeq
<1>1. PlanStart(c) \in Accs
  BY EmptySeq DEF PlanStart, Accs
<1>2. H \in [Accs \X (1..n) -> Accs]
  BY <1>0, PlanEventType
<1> HIDE DEF n
<1>3. PICK g \in [SUBSET (1..n) -> Accs] :
        \A s \in SUBSET (1..n) : g[s] = FoldStep(H, PlanStart(c), g, s)
  <2> HIDE DEF H
  <2>1. n \in Nat
    BY <1>0
  <2>2. FoldSolved(H, PlanStart(c), Accs, n)
    BY <1>1, <1>2, <2>1, FoldExists
  <2> QED BY <2>2 DEF FoldSolved
<1>4. \A s \in SUBSET (1..n) :
        g[s] = IF s = {} THEN PlanStart(c) ELSE PlanEvent(g[s \ {Max(s)}], h[Max(s)])
  <2> SUFFICES ASSUME NEW s \in SUBSET (1..n), s # {}
               PROVE  g[s] = PlanEvent(g[s \ {Max(s)}], h[Max(s)])
    BY <1>3 DEF FoldStep
  <2>1. Max(s) \in 1..n /\ g[s \ {Max(s)}] \in Accs
    BY <1>0, <1>3, MaxOf
  <2>2. g[s] = H[<<g[s \ {Max(s)}], Max(s)>>]
    BY <1>3 DEF FoldStep
  <2> QED BY <2>1, <2>2
<1>5. g = [s \in SUBSET DOMAIN h |->
             IF s = {} THEN PlanStart(c) ELSE PlanEvent(g[s \ {Max(s)}], h[Max(s)])]
  BY <1>0, <1>3, <1>4
<1> DEFINE r == PlanRec(h, c)
<1>6. r = [s \in SUBSET DOMAIN h |->
             IF s = {} THEN PlanStart(c) ELSE PlanEvent(r[s \ {Max(s)}], h[Max(s)])]
  BY <1>5 DEF PlanRec
<1>7. Plan(h, c) = r[1..n]
  BY <1>0 DEF Plan, FoldLeft, MapThenFoldSet, PlanRec, PlanStart
<1> HIDE DEF r
<1> DEFINE F == [k \in 0..n |-> r[1..k]]
<1>8. F[0] = PlanStart(c)
  <2>1. 1..0 = {}
    OBVIOUS
  <2> QED BY <1>0, <1>6, <2>1
<1>9. ASSUME NEW k \in 1..n PROVE F[k] = PlanEvent(F[k - 1], h[k])
  <2>1. 1..k # {} /\ 1..k \in SUBSET DOMAIN h /\ k - 1 \in 0..n /\ k \in 0..n
    <3>1. k \in Nat /\ k <= n /\ k # 0
      BY <1>0
    <3>2. k - 1 \in 0..n /\ k \in 0..n
      BY <1>0, <3>1
    <3>4. k \in 1..k
      BY <3>1
    <3>3. \A i \in 1..k : i \in 1..n
      BY <1>0, <3>1
    <3> QED BY <1>0, <3>2, <3>3, <3>4
  <2>2. Max(1..k) = k
    BY <1>0, MaxUpTo
  <2>3. (1..k) \ {k} = 1..(k - 1)
    BY <1>0
  <2>4. r[1..k] = PlanEvent(r[(1..k) \ {Max(1..k)}], h[Max(1..k)])
    BY <1>6, <2>1
  <2> QED BY <2>1, <2>2, <2>3, <2>4
<1>10. F \in [0..n -> Accs]
  <2> DEFINE Bad == {k \in 0..n : F[k] \notin Accs}
  <2>1. ASSUME Bad # {} PROVE FALSE
    <3>0. Bad \in SUBSET Nat
      BY <1>0
    <3>1. PICK k \in Bad : \A j \in Bad : k <= j
      BY <2>1, <3>0, LeastOfAny
    <3> HIDE DEF F
    <3>2. k \in 1..n
      BY <1>0, <1>1, <1>8
    <3>3. k - 1 \in 0..n /\ F[k - 1] \in Accs
      BY <1>0, <3>1, <3>2
    <3> QED BY <1>0, <1>9, <3>2, <3>3, PlanEventType
  <2> QED BY <2>1
<1>11. F[n] = Plan(h, c)
  BY <1>0, <1>7
<1> HIDE DEF F
<1> QED BY <1>8, <1>9, <1>10, <1>11 DEF n

\* What a drain has gone through: the replay is consecutive from the cursor, and nothing is
\* replayed or kept that was not held.
Sound(acc, c, S) ==
  /\ acc.cur = c + Len(acc.replay)
  /\ \A j \in 1..Len(acc.replay) : acc.replay[j] \in S /\ acc.replay[j].seq = c + j
  /\ \A j \in 1..Len(acc.keep) : acc.keep[j] \in S

LEMMA PlanEventSound ==
  ASSUME NEW acc \in Accs, NEW e \in Events, NEW c \in Int, NEW S, e \in S, Sound(acc, c, S)
  PROVE  Sound(PlanEvent(acc, e), c, S)
<1>1. /\ acc.cur \in Int /\ acc.replay \in Seq(Events) /\ acc.keep \in Seq(Events)
      /\ e.seq \in Nat /\ Len(acc.replay) \in Nat /\ Len(acc.keep) \in Nat
  BY LenProperties DEF Accs, Events
<1>2. ASSUME NEW q \in Seq(Events), Len(q) \in Nat
      PROVE  /\ Len(Append(q, e)) = Len(q) + 1 /\ Append(q, e)[Len(q) + 1] = e
             /\ \A j \in 1..Len(q) : Append(q, e)[j] = q[j]
             /\ \A j \in 1..Len(Append(q, e)) : j \in 1..Len(q) \/ j = Len(q) + 1
  BY <1>2, AppendProperties
<1>3. \/ PlanEvent(acc, e) = acc
      \/ PlanEvent(acc, e) = [acc EXCEPT !.keep = Append(@, e)]
      \/ PlanEvent(acc, e) = [acc EXCEPT !.keep = <<e>>]
      \/ /\ e.seq = acc.cur + 1
         /\ PlanEvent(acc, e) = [acc EXCEPT !.cur = e.seq, !.replay = Append(@, e)]
  BY <1>1 DEF PlanEvent, Classify
<1>4. CASE PlanEvent(acc, e) = acc
  BY <1>4
<1>5. CASE PlanEvent(acc, e) = [acc EXCEPT !.keep = Append(@, e)]
  <2> DEFINE n == PlanEvent(acc, e)
  <2>1. n.cur = acc.cur /\ n.replay = acc.replay /\ n.keep = Append(acc.keep, e)
    BY <1>5 DEF Accs
  <2>2. \A j \in 1..Len(n.keep) : n.keep[j] \in S
    BY <1>1, <1>2, <2>1 DEF Sound
  <2> HIDE DEF n
  <2>3. Sound(n, c, S)
    BY <2>1, <2>2 DEF Sound
  <2> QED BY <2>3 DEF n
<1>6. CASE PlanEvent(acc, e) = [acc EXCEPT !.keep = <<e>>]
  <2> DEFINE n == PlanEvent(acc, e)
  <2>1. n.cur = acc.cur /\ n.replay = acc.replay /\ n.keep = <<e>>
    BY <1>6 DEF Accs
  <2>2. \A j \in 1..Len(n.keep) : n.keep[j] \in S
    BY <2>1
  <2> HIDE DEF n
  <2>3. Sound(n, c, S)
    BY <2>1, <2>2 DEF Sound
  <2> QED BY <2>3 DEF n
<1>7. CASE /\ e.seq = acc.cur + 1
           /\ PlanEvent(acc, e) = [acc EXCEPT !.cur = e.seq, !.replay = Append(@, e)]
  <2> DEFINE n == PlanEvent(acc, e)
  <2>1. n.cur = acc.cur + 1 /\ n.replay = Append(acc.replay, e) /\ n.keep = acc.keep
    BY <1>7 DEF Accs
  <2>2. n.cur = c + Len(n.replay)
    BY <1>1, <1>2, <2>1 DEF Sound
  <2>3. ASSUME NEW j \in 1..Len(n.replay) PROVE n.replay[j] \in S /\ n.replay[j].seq = c + j
    <3>1. CASE j \in 1..Len(acc.replay)
      BY <1>1, <1>2, <2>1, <3>1 DEF Sound
    <3>2. CASE j = Len(acc.replay) + 1
      <4>1. n.replay[j] = e
        BY <1>1, <1>2, <2>1, <3>2
      <4>2. acc.cur = c + Len(acc.replay)
        BY DEF Sound
      <4>3. e.seq = c + j
        BY <1>1, <1>7, <3>2, <4>2
      <4> QED BY <4>1, <4>3
    <3> QED BY <1>1, <1>2, <2>1, <3>1, <3>2
  <2> HIDE DEF n
  <2>4. Sound(n, c, S)
    BY <2>1, <2>2, <2>3 DEF Sound
  <2> QED BY <2>4 DEF n
<1> QED BY <1>3, <1>4, <1>5, <1>6, <1>7

Items(q) == {q[i] : i \in 1..Len(q)}

LEMMA PlanSound ==
  ASSUME NEW h \in Seq(Events), NEW c \in Int
  PROVE  Plan(h, c) \in Accs /\ Sound(Plan(h, c), c, Items(h))
<1>0. Len(h) \in Nat /\ \A k \in 1..Len(h) : h[k] \in Events /\ h[k] \in Items(h)
  BY LenProperties, ElementOfSeq DEF Items
<1>1. PICK F \in [0..Len(h) -> Accs] :
        /\ F[0] = PlanStart(c) /\ F[Len(h)] = Plan(h, c)
        /\ \A k \in 1..Len(h) : F[k] = PlanEvent(F[k - 1], h[k])
  BY PlanSteps
<1> DEFINE Bad == {k \in 0..Len(h) : ~Sound(F[k], c, Items(h))}
<1>2. Sound(F[0], c, Items(h))
  BY <1>1 DEF Sound, PlanStart
<1>3. ASSUME Bad # {} PROVE FALSE
  <2>1. PICK k \in Bad : \A j \in Bad : k <= j
    <3>1. Bad \in SUBSET Nat
      BY <1>0
    <3> QED BY <1>3, <3>1, LeastOfAny
  <2>2. k \in 1..Len(h)
    BY <1>0, <1>2
  <2>3. k - 1 \in 0..Len(h) /\ k - 1 < k
    BY <1>0, <2>2
  <2>4. Sound(F[k - 1], c, Items(h)) /\ F[k - 1] \in Accs
    BY <1>0, <1>1, <2>1, <2>2, <2>3
  <2>5. Sound(F[k], c, Items(h))
    BY <1>0, <1>1, <2>2, <2>4, PlanEventSound
  <2> QED BY <2>5
<1>4. Len(h) \in 0..Len(h)
  BY <1>0
<1> QED BY <1>1, <1>3, <1>4

TextRec(q) ==
  CHOOSE g : g = [s \in SUBSET DOMAIN q |->
                    IF s = {} THEN <<>> ELSE g[s \ {Max(s)}] \o q[Max(s)].toks]

\* The text of events is joined one by one.
LEMMA TextSteps ==
  ASSUME NEW q \in Seq(Events)
  PROVE  \E F \in [0..Len(q) -> Tokens] :
           /\ F[0] = <<>> /\ F[Len(q)] = TextOf(q)
           /\ \A k \in 1..Len(q) : F[k] = F[k - 1] \o q[k].toks
<1> DEFINE n == Len(q)
           H == [p \in Tokens \X (1..n) |-> p[1] \o q[p[2]].toks]
<1>0. n \in Nat /\ DOMAIN q = 1..n /\ \A k \in 1..n : q[k].toks \in Tokens
  <2>1. n \in Nat /\ DOMAIN q = 1..n /\ \A k \in 1..n : q[k] \in Events
    BY LenProperties, ElementOfSeq
  <2> QED BY <2>1 DEF Events
<1>2. H \in [Tokens \X (1..n) -> Tokens]
  BY <1>0, Texts
<1> HIDE DEF n
<1>3. PICK g \in [SUBSET (1..n) -> Tokens] :
        \A s \in SUBSET (1..n) : g[s] = FoldStep(H, <<>>, g, s)
  <2> HIDE DEF H
  <2>1. n \in Nat
    BY <1>0
  <2>2. FoldSolved(H, <<>>, Tokens, n)
    BY <1>2, <2>1, FoldExists, Texts
  <2> QED BY <2>2 DEF FoldSolved
<1>4. \A s \in SUBSET (1..n) :
        g[s] = IF s = {} THEN <<>> ELSE g[s \ {Max(s)}] \o q[Max(s)].toks
  <2> SUFFICES ASSUME NEW s \in SUBSET (1..n), s # {}
               PROVE  g[s] = g[s \ {Max(s)}] \o q[Max(s)].toks
    BY <1>3 DEF FoldStep
  <2>1. Max(s) \in 1..n /\ g[s \ {Max(s)}] \in Tokens
    BY <1>0, <1>3, MaxOf
  <2>2. g[s] = H[<<g[s \ {Max(s)}], Max(s)>>]
    BY <1>3 DEF FoldStep
  <2> QED BY <2>1, <2>2
<1>5. g = [s \in SUBSET DOMAIN q |->
             IF s = {} THEN <<>> ELSE g[s \ {Max(s)}] \o q[Max(s)].toks]
  BY <1>0, <1>3, <1>4
<1> DEFINE r == TextRec(q)
<1>6. r = [s \in SUBSET DOMAIN q |->
             IF s = {} THEN <<>> ELSE r[s \ {Max(s)}] \o q[Max(s)].toks]
  BY <1>5 DEF TextRec
<1>7. TextOf(q) = r[1..n]
  BY <1>0 DEF TextOf, FoldLeft, MapThenFoldSet, TextRec
<1> HIDE DEF r
<1> DEFINE F == [k \in 0..n |-> r[1..k]]
<1>8. F[0] = <<>>
  <2>1. 1..0 = {}
    OBVIOUS
  <2> QED BY <1>0, <1>6, <2>1
<1>9. ASSUME NEW k \in 1..n PROVE F[k] = F[k - 1] \o q[k].toks
  <2>1. 1..k # {} /\ 1..k \in SUBSET DOMAIN q /\ k - 1 \in 0..n /\ k \in 0..n
    <3>1. k \in Nat /\ k <= n /\ k # 0
      BY <1>0
    <3>2. k - 1 \in 0..n /\ k \in 0..n
      BY <1>0, <3>1
    <3>4. k \in 1..k
      BY <3>1
    <3>3. \A i \in 1..k : i \in 1..n
      BY <1>0, <3>1
    <3> QED BY <1>0, <3>2, <3>3, <3>4
  <2>2. Max(1..k) = k
    BY <1>0, MaxUpTo
  <2>3. (1..k) \ {k} = 1..(k - 1)
    BY <1>0
  <2>4. r[1..k] = r[(1..k) \ {Max(1..k)}] \o q[Max(1..k)].toks
    BY <1>6, <2>1
  <2> QED BY <2>1, <2>2, <2>3, <2>4
<1>10. F \in [0..n -> Tokens]
  <2> DEFINE Bad == {k \in 0..n : F[k] \notin Tokens}
  <2>1. ASSUME Bad # {} PROVE FALSE
    <3>0. Bad \in SUBSET Nat
      BY <1>0
    <3>1. PICK k \in Bad : \A j \in Bad : k <= j
      BY <2>1, <3>0, LeastOfAny
    <3> HIDE DEF F
    <3>2. k \in 1..n
      BY <1>0, <1>8, Texts
    <3>3. k - 1 \in 0..n /\ F[k - 1] \in Tokens
      BY <1>0, <3>1, <3>2
    <3> QED BY <1>0, <1>9, <3>2, <3>3, Texts
  <2> QED BY <2>1
<1>11. F[n] = TextOf(q)
  BY <1>0, <1>7
<1> HIDE DEF F
<1> QED BY <1>8, <1>9, <1>10, <1>11 DEF n

\* Consecutive events turn the reply as of the one before them into the reply as of the last.
LEMMA TextJoins ==
  ASSUME NEW m \in Nat, NEW L \in [0..m -> Tokens], NEW c \in 0..m, NEW q \in Seq(Events),
         \A j \in 1..Len(q) : c + j \in 1..m /\ L[c + j] = L[c + j - 1] \o q[j].toks
  PROVE  c + Len(q) \in 0..m /\ L[c] \o TextOf(q) = L[c + Len(q)] /\ TextOf(q) \in Tokens
<1> DEFINE n == Len(q)
<1>0. n \in Nat /\ \A k \in 1..n : q[k].toks \in Tokens
  <2>1. n \in Nat /\ \A k \in 1..n : q[k] \in Events
    BY LenProperties, ElementOfSeq
  <2> QED BY <2>1 DEF Events
<1>1. PICK F \in [0..n -> Tokens] :
        /\ F[0] = <<>> /\ F[n] = TextOf(q)
        /\ \A k \in 1..n : F[k] = F[k - 1] \o q[k].toks
  BY TextSteps
<1>2. \A k \in 0..n : c + k \in 0..m
  <2> SUFFICES ASSUME NEW k \in 1..n PROVE c + k \in 0..m
    BY <1>0
  <2> QED BY <1>0
<1> HIDE DEF n
<1> DEFINE Bad == {k \in 0..n : L[c] \o F[k] # L[c + k]}
<1>3. L[c] \o F[0] = L[c + 0]
  <2>1. L[c] \in Seq(1..MaxTokens)
    BY DEF Tokens
  <2>2. L[c] \o <<>> = L[c]
    BY <2>1, ConcatEmptySeq
  <2> QED BY <1>1, <2>2
<1>4. ASSUME Bad # {} PROVE FALSE
  <2>1. PICK k \in Bad : \A j \in Bad : k <= j
    <3>1. Bad \in SUBSET Nat
      BY <1>0
    <3> QED BY <1>4, <3>1, LeastOfAny
  <2>2. k \in 1..n
    <3>1. k \in 0..n /\ k # 0
      BY <1>3
    <3> QED BY <1>0, <3>1
  <2>3. k - 1 \in 0..n /\ c + k - 1 = c + (k - 1) /\ ~(k <= k - 1)
    BY <1>0, <2>2
  <2>4. L[c] \o F[k - 1] = L[c + (k - 1)]
    <3>1. k - 1 \notin Bad
      BY <2>1, <2>3
    <3> QED BY <2>3, <3>1
  <2>5. F[k] = F[k - 1] \o q[k].toks
    BY <1>1, <2>2
  <2>6. L[c + k] = L[c + (k - 1)] \o q[k].toks
    BY <2>2, <2>3 DEF n
  <2>7. (L[c] \o F[k - 1]) \o q[k].toks = L[c] \o (F[k - 1] \o q[k].toks)
    <3>1. L[c] \in Tokens /\ F[k - 1] \in Tokens /\ q[k].toks \in Tokens
      BY <1>0, <1>1, <2>2, <2>3
    <3> QED BY <3>1, Texts
  <2>8. L[c] \o F[k] = L[c + k]
    BY <2>4, <2>5, <2>6, <2>7
  <2> QED BY <2>8
<1>5. n \in 0..n
  BY <1>0
<1> QED BY <1>0, <1>1, <1>2, <1>4, <1>5 DEF n

-----------------------------------------------------------------------------
(* Sequences of events and of tokens as the steps change them.             *)

LEMMA Cuts ==
  ASSUME NEW s \in Tokens
  PROVE  /\ Len(s) \in Nat /\ SubSeq(s, 1, Len(s)) = s
         /\ s \o <<>> = s /\ <<>> \o s = s
         /\ \A k \in 0..Len(s) :
              /\ SubSeq(s, 1, k) \in Tokens /\ SubSeq(s, k + 1, Len(s)) \in Tokens
              /\ SubSeq(s, 1, k) \o SubSeq(s, k + 1, Len(s)) = s
         /\ \A x \in 1..MaxTokens : Append(s, x) \in Tokens /\ Len(Append(s, x)) = Len(s) + 1
         /\ \A x \in 1..MaxTokens, k \in 0..Len(s) :
              SubSeq(Append(s, x), 1, k) = SubSeq(s, 1, k)
<1> DEFINE S == 1..MaxTokens
<1>1. s \in Seq(S)
  BY DEF Tokens
<1> HIDE DEF S
<1>2. Len(s) \in Nat /\ SubSeq(s, 1, Len(s)) = s /\ \A i \in 1..Len(s) : s[i] \in S
  BY <1>1, LenProperties, SubSeqFull, ElementOfSeq
<1>3. s \o <<>> = s /\ <<>> \o s = s
  BY <1>1, ConcatEmptySeq
<1>4. ASSUME NEW k \in 0..Len(s)
      PROVE  /\ SubSeq(s, 1, k) \in Seq(S) /\ SubSeq(s, k + 1, Len(s)) \in Seq(S)
             /\ SubSeq(s, 1, k) \o SubSeq(s, k + 1, Len(s)) = s
  <2>1. /\ k \in Int /\ k + 1 \in Int /\ Len(s) \in Int /\ 1 \in Int
        /\ (\A i \in 1..k : i \in 1..Len(s)) /\ (\A i \in (k + 1)..Len(s) : i \in 1..Len(s))
    BY <1>2
  <2>2. SubSeq(s, 1, k) \in Seq(S) /\ SubSeq(s, k + 1, Len(s)) \in Seq(S)
    BY <1>2, <2>1, SubSeqProperties
  <2>3. /\ 1 \in 1..(Len(s) + 1) /\ k \in (1 - 1)..Len(s) /\ Len(s) \in k..Len(s)
    BY <1>2
  <2>4. SubSeq(s, 1, k) \o SubSeq(s, k + 1, Len(s)) = SubSeq(s, 1, Len(s))
    BY <1>1, <2>3, ConcatAdjacentSubSeq
  <2> QED BY <1>2, <2>2, <2>4
<1>5. ASSUME NEW x \in S PROVE Append(s, x) \in Seq(S) /\ Len(Append(s, x)) = Len(s) + 1
  BY <1>1, AppendProperties
<1>6. ASSUME NEW x \in S, NEW k \in 0..Len(s)
      PROVE  SubSeq(Append(s, x), 1, k) = SubSeq(s, 1, k)
  <2> DEFINE a == Append(s, x)
  <2>1. a \in Seq(S) /\ \A i \in 1..Len(s) : a[i] = s[i]
    BY <1>1, AppendProperties
  <2>2. \A i \in 1..k : i \in 1..Len(s)
    BY <1>2
  <2>3. /\ \A i \in 1..k : a[i] = s[i] /\ a[i] \in S /\ s[i] \in S
    BY <1>2, <2>1, <2>2
  <2> HIDE DEF a
  <2>4. k \in Int /\ k - 1 + 1 = k /\ 1 \in Int /\ (1 <= k => k - 1 + 1 = k)
    BY <1>2
  <2>5. /\ SubSeq(a, 1, k) \in Seq(S) /\ Len(SubSeq(a, 1, k)) = (IF 1 <= k THEN k - 1 + 1 ELSE 0)
        /\ \A i \in 1..(k - 1 + 1) : SubSeq(a, 1, k)[i] = a[1 + i - 1]
    BY <2>3, <2>4, SubSeqProperties
  <2>6. /\ SubSeq(s, 1, k) \in Seq(S) /\ Len(SubSeq(s, 1, k)) = (IF 1 <= k THEN k - 1 + 1 ELSE 0)
        /\ \A i \in 1..(k - 1 + 1) : SubSeq(s, 1, k)[i] = s[1 + i - 1]
    BY <2>3, <2>4, SubSeqProperties
  <2>7. Len(SubSeq(s, 1, k)) = k /\ Len(SubSeq(a, 1, k)) = k
    BY <1>2, <2>5, <2>6
  <2>8. ASSUME NEW i \in 1..k PROVE SubSeq(a, 1, k)[i] = SubSeq(s, 1, k)[i]
    <3>1. i \in 1..(k - 1 + 1) /\ 1 + i - 1 = i
      BY <2>4
    <3> QED BY <2>3, <2>5, <2>6, <3>1
  <2>9. SubSeq(a, 1, k) = SubSeq(s, 1, k)
    BY <2>5, <2>6, <2>7, <2>8, SeqEqual
  <2> QED BY <2>9 DEF a
<1> QED BY <1>2, <1>3, <1>4, <1>5, <1>6 DEF S, Tokens

LEMMA ItemsOf ==
  ASSUME NEW q \in Seq(Events)
  PROVE  /\ Len(q) \in Nat
         /\ \A i \in 1..Len(q) : q[i] \in Items(q) /\ q[i] \in Events
         /\ \A x \in Items(q) : x \in Events /\ \E i \in 1..Len(q) : x = q[i]
BY LenProperties, ElementOfSeq DEF Items

LEMMA TailItems ==
  ASSUME NEW q \in Seq(Events), q # <<>>
  PROVE  /\ Tail(q) \in Seq(Events) /\ Len(Tail(q)) = Len(q) - 1
         /\ 1 \in 1..Len(q) /\ Head(q) = q[1] /\ Head(q) \in Events /\ Head(q) \in Items(q)
         /\ \A i \in 1..Len(Tail(q)) : Tail(q)[i] = q[i + 1] /\ i + 1 \in 1..Len(q)
         /\ Items(Tail(q)) \subseteq Items(q)
<1>1. Len(q) \in Nat \ {0}
  BY EmptySeq
<1>2. Tail(q) \in Seq(Events) /\ Len(Tail(q)) = Len(q) - 1
  BY HeadTailProperties
<1>3. \A i \in 1..Len(Tail(q)) : Tail(q)[i] = q[i + 1]
  BY HeadTailProperties
<1>4. Head(q) \in Events /\ Head(q) = q[1]
  BY HeadTailProperties
<1>5. 1 \in 1..Len(q) /\ \A i \in 1..Len(Tail(q)) : i + 1 \in 1..Len(q)
  BY <1>1, <1>2
<1>6. Items(Tail(q)) \subseteq Items(q) /\ q[1] \in Items(q)
  BY <1>3, <1>5 DEF Items
<1> QED BY <1>2, <1>3, <1>4, <1>5, <1>6

LEMMA AppendItems ==
  ASSUME NEW q \in Seq(Events), NEW e \in Events
  PROVE  /\ Append(q, e) \in Seq(Events) /\ Len(Append(q, e)) = Len(q) + 1
         /\ \A i \in 1..Len(q) : Append(q, e)[i] = q[i]
         /\ Append(q, e)[Len(q) + 1] = e
         /\ Items(Append(q, e)) \subseteq Items(q) \cup {e}
<1>1. /\ Append(q, e) \in Seq(Events) /\ Len(Append(q, e)) = Len(q) + 1 /\ Len(q) \in Nat
      /\ \A i \in 1..Len(q) : Append(q, e)[i] = q[i]
      /\ Append(q, e)[Len(q) + 1] = e
  BY AppendProperties, LenProperties
<1>2. \A i \in 1..Len(Append(q, e)) : i \in 1..Len(q) \/ i = Len(q) + 1
  BY <1>1
<1>3. Items(Append(q, e)) \subseteq Items(q) \cup {e}
  BY <1>1, <1>2 DEF Items
<1> QED BY <1>1, <1>3

LEMMA MarkItems ==
  ASSUME NEW q \in Seq(Events), q # <<>>, NEW e \in Events
  PROVE  /\ <<e>> \o Tail(q) \in Seq(Events) /\ Len(<<e>> \o Tail(q)) = Len(q)
         /\ (<<e>> \o Tail(q))[1] = e
         /\ \A i \in 1..Len(q) : i # 1 => (<<e>> \o Tail(q))[i] = q[i]
         /\ Items(<<e>> \o Tail(q)) \subseteq Items(q) \cup {e}
<1> DEFINE m == <<e>> \o Tail(q)
           t == Tail(q)
<1>1. /\ t \in Seq(Events) /\ Len(t) = Len(q) - 1 /\ 1 \in 1..Len(q) /\ Len(q) \in Nat
      /\ \A i \in 1..Len(t) : t[i] = q[i + 1]
  BY TailItems, ItemsOf
<1>2. <<e>> \in Seq(Events) /\ Len(<<e>>) = 1 /\ <<e>>[1] = e
  OBVIOUS
<1>3. /\ m \in Seq(Events) /\ Len(m) = 1 + Len(t)
      /\ \A i \in 1..(1 + Len(t)) : m[i] = IF i <= 1 THEN <<e>>[i] ELSE t[i - 1]
  <2> HIDE DEF t
  <2>1. /\ <<e>> \o t \in Seq(Events) /\ Len(<<e>> \o t) = Len(<<e>>) + Len(t)
        /\ \A i \in 1..(Len(<<e>>) + Len(t)) :
             (<<e>> \o t)[i] = IF i <= Len(<<e>>) THEN <<e>>[i] ELSE t[i - Len(<<e>>)]
    BY <1>1, <1>2, ConcatProperties
  <2>2. m = <<e>> \o t
    BY DEF t
  <2> QED BY <1>2, <2>1, <2>2
<1> HIDE DEF m, t
<1>4. Len(m) = Len(q) /\ m[1] = e
  BY <1>1, <1>2, <1>3
<1>5. ASSUME NEW i \in 1..Len(q), i # 1 PROVE m[i] = q[i]
  <2>1. i \in 1..(1 + Len(t)) /\ ~(i <= 1) /\ i - 1 \in 1..Len(t) /\ (i - 1) + 1 = i
    BY <1>1, <1>5
  <2> QED BY <1>1, <1>3, <2>1
<1>6. Items(m) \subseteq Items(q) \cup {e}
  BY <1>4, <1>5 DEF Items
<1> QED BY <1>3, <1>4, <1>5, <1>6 DEF m, t

LEMMA HoldingItems ==
  ASSUME NEW h \in Seq(Events), NEW e \in Events
  PROVE  Holding(h, e) \in Seq(Events) /\ Items(Holding(h, e)) \subseteq Items(h) \cup {e}
<1>1. <<>> \in Seq(Events) /\ Items(<<>>) = {}
  <2>1. <<>> \in Seq(Events) /\ Len(<<>>) = 0
    BY EmptySeq
  <2> QED BY <2>1 DEF Items
<1>2. Append(<<>>, e) \in Seq(Events) /\ Items(Append(<<>>, e)) \subseteq {} \cup {e}
  BY <1>1, AppendItems
<1>3. Append(h, e) \in Seq(Events) /\ Items(Append(h, e)) \subseteq Items(h) \cup {e}
  BY AppendItems
<1>4. Holding(h, e) = Append(<<>>, e) \/ Holding(h, e) = Append(h, e)
  BY DEF Holding
<1> QED BY <1>2, <1>3, <1>4

-----------------------------------------------------------------------------
(* The inductive invariant, part by part.  L is the history of the reply,  *)
(* n the number of the last event, q the events on their way, h the held   *)
(* ones, b the pacer's backlog, s the copy and c its cursor.               *)

History(L, n) == n \in Nat /\ L \in [0..n -> Tokens]

\* The history only grows.
Grows(L, n, M, k) ==
  /\ History(L, n) /\ History(M, k) /\ n <= k
  /\ \A i \in 0..n : M[i] = L[i]

Numbered(e) == e.kind \in {"delta", "reset"}

\* A delta adds its text to the reply as of the event before, a reset empties it.
TrueTo(e, L, n) ==
  /\ e.kind = "delta" => e.seq \in 1..n /\ L[e.seq] = L[e.seq - 1] \o e.toks
  /\ e.kind = "reset" => e.seq \in 1..n /\ L[e.seq] = <<>>

\* A running row is the reply as of the event it names.
RowTrue(r, L, n) == r.st = "running" => r.seq \in 0..n /\ L[r.seq] = r.parts

Sourced(st, p, u, L, n) ==
  /\ st \in {"setup", "opened"} => n = 0 /\ p = <<>> /\ u = 0
  /\ L[0] = <<>>
  /\ L[n] = SubSeq(p, 1, Len(p) - u)

Sent(e, L, n, st) ==
  TrueTo(e, L, n) /\ ~e.paced /\ (e.kind = "finish" => st = "told")

Before(x, y) ==
  /\ Numbered(x) /\ Numbered(y) => x.seq < y.seq
  /\ x.kind = "finish" => y.kind # "start"

\* Events travel in order, and each of them is true.
Wired(q, L, n, st) ==
  /\ \A e \in Items(q) : Sent(e, L, n, st)
  /\ \A i, j \in 1..Len(q) : i < j => Before(q[i], q[j])

HeldTo(e, L, n) == e.kind = "delta" /\ e.seq \in 1..n /\ (~e.paced => TrueTo(e, L, n))

\* Whatever the tab keeps is older than whatever is still on its way.
Keeping(h, b, c, q, L, n) ==
  /\ c \in -1..n
  /\ \A e \in Items(h) : HeldTo(e, L, n)
  /\ b # NoBacklog => b.seq \in 1..n
  /\ \A x \in Items(q) : Numbered(x) =>
       /\ \A e \in Items(h) : e.seq < x.seq
       /\ b # NoBacklog => b.seq < x.seq

\* A clean copy is exact, and nothing that waits can spoil it.
Fitting(s, c, h, b, L, q, st) ==
  /\ s = Absent => \A e \in Items(h) : ~e.paced
  /\ s # Absent =>
       /\ \A e \in Items(h) : e.paced => e.seq <= c
       /\ b # NoBacklog => \A e \in Items(h) : e.seq # c + 1
       /\ c < 0 => st = "told" /\ \A x \in Items(q) : x.kind # "start"
       /\ c >= 0 => s \o b.toks = L[c]

Requests == [kind : {"free", "history", "recovery", "turn", "poll"}, got : Rows]

Types ==
  /\ stage \in {"setup", "opened", "streaming", "ended", "told"}
  /\ produced \in 0..MaxTokens /\ parts \in Tokens /\ buf \in 0..Len(parts)
  /\ History(log, seq) /\ row \in Rows
  /\ chan \in Seq(Events) /\ held \in Seq(Events)
  /\ shown \in Tokens \cup {Absent} /\ cursor \in Int
  /\ backlog \in [seq : Nat, toks : Tokens]
  /\ loads \in [LoadIds -> Requests]

Source ==
  /\ Sourced(stage, parts, buf, log, seq)
  /\ RowTrue(row, log, seq)
  /\ \A i \in LoadIds : RowTrue(loads[i].got, log, seq)
Wire == Wired(chan, log, seq, stage)
Kept == Keeping(held, backlog, cursor, chan, log, seq) /\ (~Paced => backlog = NoBacklog)
Fits == clean => Fitting(shown, cursor, held, backlog, log, chan, stage)

Inv == Types /\ Source /\ Wire /\ Kept /\ Fits

-----------------------------------------------------------------------------
(* How the parts fare as the state changes.                                *)

LogWith(L, n, x) == [i \in 0..(n + 1) |-> IF i > n THEN x ELSE L[i]]

LEMMA Extended ==
  ASSUME NEW L, NEW n, History(L, n), NEW x \in Tokens
  PROVE  /\ Grows(L, n, LogWith(L, n, x), n + 1) /\ History(LogWith(L, n, x), n + 1)
         /\ LogWith(L, n, x)[n + 1] = x
         /\ LogWith(L, n, x)[n] = L[n] /\ LogWith(L, n, x)[0] = L[0]
<1> DEFINE M == [i \in 0..(n + 1) |-> IF i > n THEN x ELSE L[i]]
<1>1. n \in Nat /\ L \in [0..n -> Tokens]
  BY DEF History
<1>2. ASSUME NEW i \in 0..n PROVE M[i] = L[i] /\ L[i] \in Tokens
  <2>1. i \in 0..(n + 1) /\ ~(i > n)
    BY <1>1
  <2> QED BY <1>1, <2>1
<1>3. n + 1 \in 0..(n + 1) /\ n + 1 > n /\ M[n + 1] = x
  BY <1>1
<1>4. ASSUME NEW i \in 0..(n + 1) PROVE M[i] \in Tokens
  BY <1>1
<1>5. M \in [0..(n + 1) -> Tokens]
  BY <1>4
<1>6. n \in 0..n /\ 0 \in 0..n /\ n + 1 \in Nat /\ n <= n + 1
  BY <1>1
<1> HIDE DEF M
<1>7. /\ Grows(L, n, M, n + 1) /\ History(M, n + 1)
      /\ M[n + 1] = x /\ M[n] = L[n] /\ M[0] = L[0]
  BY <1>1, <1>2, <1>3, <1>5, <1>6 DEF Grows, History
<1>8. M = LogWith(L, n, x)
  BY DEF M, LogWith
<1> QED BY <1>7, <1>8

LEMMA Steady == ASSUME NEW L, NEW n, History(L, n) PROVE Grows(L, n, L, n)
BY DEF Grows, History

LEMMA StaysTrue ==
  ASSUME NEW L, NEW n, NEW M, NEW k, Grows(L, n, M, k)
  PROVE  /\ \A e \in Events : TrueTo(e, L, n) => TrueTo(e, M, k)
         /\ \A e \in Events : HeldTo(e, L, n) => HeldTo(e, M, k)
         /\ \A r \in Rows : RowTrue(r, L, n) => RowTrue(r, M, k)
<1>1. n \in Nat /\ k \in Nat /\ n <= k /\ \A i \in 0..n : M[i] = L[i]
  BY DEF Grows, History
<1>2. ASSUME NEW i \in 1..n PROVE i \in 1..k /\ M[i] = L[i] /\ M[i - 1] = L[i - 1]
  <2>1. i \in 1..k /\ i \in 0..n /\ i - 1 \in 0..n
    BY <1>1
  <2> QED BY <1>1, <2>1
<1>3. ASSUME NEW e \in Events, TrueTo(e, L, n) PROVE TrueTo(e, M, k)
  BY <1>2, <1>3 DEF TrueTo
<1>4. ASSUME NEW e \in Events, HeldTo(e, L, n) PROVE HeldTo(e, M, k)
  BY <1>2, <1>3, <1>4 DEF HeldTo
<1>5. ASSUME NEW r \in Rows, RowTrue(r, L, n) PROVE RowTrue(r, M, k)
  <2>1. \A i \in 0..n : i \in 0..k
    BY <1>1
  <2> QED BY <1>1, <1>5, <2>1 DEF RowTrue
<1> QED BY <1>3, <1>4, <1>5

LEMMA WiredGrows ==
  ASSUME NEW q \in Seq(Events), NEW L, NEW n, NEW M, NEW k, Grows(L, n, M, k), NEW st, NEW t,
         Wired(q, L, n, st), st = "told" => t = "told"
  PROVE  Wired(q, M, k, t)
BY StaysTrue, ItemsOf DEF Wired, Sent

LEMMA WiredTail ==
  ASSUME NEW q \in Seq(Events), q # <<>>, NEW L, NEW n, NEW st, Wired(q, L, n, st)
  PROVE  /\ Wired(Tail(q), L, n, st) /\ Sent(Head(q), L, n, st)
         /\ \A e \in Items(Tail(q)) : Before(Head(q), e)
<1>1. /\ Len(Tail(q)) = Len(q) - 1 /\ Len(q) \in Nat
      /\ 1 \in 1..Len(q) /\ Head(q) = q[1] /\ Head(q) \in Items(q)
      /\ \A i \in 1..Len(Tail(q)) : Tail(q)[i] = q[i + 1] /\ i + 1 \in 1..Len(q)
      /\ Items(Tail(q)) \subseteq Items(q)
      /\ Tail(q) \in Seq(Events)
  BY TailItems, ItemsOf
<1>2. ASSUME NEW i \in 1..Len(Tail(q)), NEW j \in 1..Len(Tail(q)), i < j
      PROVE  Before(Tail(q)[i], Tail(q)[j])
  <2>1. i + 1 < j + 1
    BY <1>1, <1>2
  <2>2. Before(q[i + 1], q[j + 1])
    BY <1>1, <2>1 DEF Wired
  <2> QED BY <1>1, <2>2
<1>3. ASSUME NEW e \in Items(Tail(q)) PROVE Before(Head(q), e)
  <2>1. PICK i \in 1..Len(Tail(q)) : e = Tail(q)[i]
    BY <1>1, ItemsOf
  <2>2. 1 < i + 1
    BY <1>1
  <2>3. Before(q[1], q[i + 1])
    BY <1>1, <2>2 DEF Wired
  <2> QED BY <1>1, <2>1, <2>3
<1> QED BY <1>1, <1>2, <1>3 DEF Wired

LEMMA WiredAppend ==
  ASSUME NEW q \in Seq(Events), NEW L, NEW n, NEW M, NEW k, Grows(L, n, M, k), NEW st, NEW t,
         Wired(q, L, n, st), st = "told" => t = "told",
         NEW e \in Events, Sent(e, M, k, t),
         Numbered(e) => e.seq > n, e.kind = "start" => st # "told"
  PROVE  Wired(Append(q, e), M, k, t)
<1> DEFINE a == Append(q, e)
<1>1. /\ Len(a) = Len(q) + 1 /\ Len(q) \in Nat /\ Items(a) \subseteq Items(q) \cup {e}
      /\ (\A i \in 1..Len(q) : a[i] = q[i]) /\ a[Len(q) + 1] = e
  BY AppendItems, ItemsOf
<1>2. Wired(q, M, k, t)
  BY WiredGrows
<1>3. ASSUME NEW i \in 1..Len(q) PROVE Before(q[i], e)
  <2>1. q[i] \in Items(q) /\ q[i] \in Events
    BY ItemsOf
  <2>2. Numbered(q[i]) => q[i].seq \in 1..n
    BY <2>1 DEF Wired, Sent, TrueTo, Numbered
  <2>3. q[i].kind = "finish" => st = "told"
    BY <2>1 DEF Wired, Sent
  <2>4. n \in Nat /\ e.seq \in Nat
    BY DEF Grows, History, Events
  <2> QED BY <2>2, <2>3, <2>4 DEF Before
<1> HIDE DEF a
<1>4. ASSUME NEW i \in 1..Len(a), NEW j \in 1..Len(a), i < j PROVE Before(a[i], a[j])
  <2>1. i \in 1..Len(q) /\ (j \in 1..Len(q) \/ j = Len(q) + 1)
    BY <1>1, <1>4
  <2>2. CASE j \in 1..Len(q)
    BY <1>1, <1>2, <1>4, <2>1, <2>2 DEF Wired
  <2>3. CASE j = Len(q) + 1
    BY <1>1, <1>3, <2>1, <2>3
  <2> QED BY <2>1, <2>2, <2>3
<1>5. \A x \in Items(a) : Sent(x, M, k, t)
  BY <1>1, <1>2 DEF Wired
<1>6. Wired(a, M, k, t)
  BY <1>4, <1>5 DEF Wired
<1> QED BY <1>6 DEF a

LEMMA WiredMark ==
  ASSUME NEW q \in Seq(Events), q # <<>>, NEW L, NEW n, NEW st, Wired(q, L, n, st),
         NEW e \in Events, e.kind = "marker", ~e.paced
  PROVE  Wired(<<e>> \o Tail(q), L, n, st)
<1> DEFINE m == <<e>> \o Tail(q)
<1>1. /\ Len(m) = Len(q) /\ m[1] = e /\ Len(q) \in Nat
      /\ (\A i \in 1..Len(q) : i # 1 => m[i] = q[i])
      /\ Items(m) \subseteq Items(q) \cup {e}
  BY MarkItems, ItemsOf
<1> HIDE DEF m
<1>2. \A y : Before(e, y)
  BY DEF Before, Numbered
<1>3. ASSUME NEW i \in 1..Len(m), NEW j \in 1..Len(m), i < j PROVE Before(m[i], m[j])
  <2>1. CASE i = 1
    BY <1>1, <1>2, <2>1
  <2>2. CASE i # 1
    <3>1. j # 1 /\ i \in 1..Len(q) /\ j \in 1..Len(q)
      BY <1>1, <1>3, <2>2
    <3>2. m[i] = q[i] /\ m[j] = q[j]
      BY <1>1, <2>2, <3>1
    <3> QED BY <1>3, <3>1, <3>2 DEF Wired
  <2> QED BY <2>1, <2>2
<1>4. Sent(e, L, n, st)
  BY DEF Sent, TrueTo
<1>5. \A x \in Items(m) : Sent(x, L, n, st)
  BY <1>1, <1>4 DEF Wired
<1>6. Wired(m, L, n, st)
  BY <1>3, <1>5 DEF Wired
<1> QED BY <1>6 DEF m

\* What is kept may shrink or grow by an event older than all that travels; what travels may
\* shrink or grow by an event newer than the history.
LEMMA KeepingStep ==
  ASSUME NEW h \in Seq(Events), NEW b, NEW c, NEW q \in Seq(Events),
         NEW L, NEW n, NEW M, NEW k, Grows(L, n, M, k),
         Keeping(h, b, c, q, L, n),
         NEW g \in Seq(Events), NEW a, NEW d \in -1..k, NEW p \in Seq(Events),
         \A e \in Items(g) : \/ e \in Items(h)
                             \/ /\ HeldTo(e, M, k)
                                /\ \A x \in Items(p) : Numbered(x) => e.seq < x.seq,
         \A x \in Items(p) : Numbered(x) => x \in Items(q) \/ x.seq > n,
         a # NoBacklog => \/ b # NoBacklog /\ a.seq = b.seq
                          \/ /\ a.seq \in 1..k
                             /\ \A x \in Items(p) : Numbered(x) => a.seq < x.seq
  PROVE  Keeping(g, a, d, p, M, k)
<1>0. n \in Nat /\ k \in Nat /\ n <= k
  BY DEF Grows, History
<1>1. ASSUME NEW e \in Items(h)
      PROVE  HeldTo(e, M, k) /\ \A x \in Items(p) : Numbered(x) => e.seq < x.seq
  <2>1. HeldTo(e, L, n) /\ e \in Events
    BY ItemsOf DEF Keeping
  <2>2. HeldTo(e, M, k)
    BY <2>1, StaysTrue
  <2>3. ASSUME NEW x \in Items(p), Numbered(x) PROVE e.seq < x.seq
    <3>1. CASE x \in Items(q)
      BY <2>3, <3>1 DEF Keeping
    <3>2. CASE x.seq > n
      <4>1. e.seq \in 1..n /\ x.seq \in Nat
        <5>1. x \in Events
          BY ItemsOf
        <5> QED BY <2>1, <5>1 DEF HeldTo, Events
      <4> QED BY <1>0, <3>2, <4>1
    <3> QED BY <2>3, <3>1, <3>2
  <2> QED BY <2>2, <2>3
<1>2. ASSUME a # NoBacklog
      PROVE  a.seq \in 1..k /\ \A x \in Items(p) : Numbered(x) => a.seq < x.seq
  <2>1. CASE b # NoBacklog /\ a.seq = b.seq
    <3>1. b.seq \in 1..n
      BY <2>1 DEF Keeping
    <3>2. ASSUME NEW x \in Items(p), Numbered(x) PROVE b.seq < x.seq
      <4>1. CASE x \in Items(q)
        BY <2>1, <3>2, <4>1 DEF Keeping
      <4>2. CASE x.seq > n
        <5>1. x \in Events
          BY ItemsOf
        <5>2. x.seq \in Nat
          BY <5>1 DEF Events
        <5> QED BY <1>0, <3>1, <4>2, <5>2
      <4> QED BY <3>2, <4>1, <4>2
    <3> QED BY <1>0, <2>1, <3>1, <3>2
  <2> QED BY <1>2, <2>1
<1> QED BY <1>1, <1>2 DEF Keeping

\* A copy that does not move still fits.
LEMMA FittingStep ==
  ASSUME NEW s, NEW c, NEW h, NEW b, NEW q, NEW L, NEW n, NEW st, NEW M, NEW k, NEW g, NEW p,
         NEW t, Grows(L, n, M, k), c \in -1..n, Fitting(s, c, h, b, L, q, st),
         \A e \in Items(g) : e \in Items(h) \/ (~e.paced /\ e.seq # c + 1),
         st = "told" => t = "told" /\ \A x \in Items(p) : x.kind = "start" => x \in Items(q)
  PROVE  Fitting(s, c, g, b, M, p, t)
<1>1. c >= 0 => M[c] = L[c]
  <2>1. c >= 0 => c \in 0..n
    BY DEF Grows, History
  <2> QED BY <2>1 DEF Grows
<1> QED BY <1>1 DEF Fitting

\* A copy whose text is exact, with nothing in the pacer and nothing paced held past it.
LEMMA FittingCopy ==
  ASSUME NEW s, NEW c \in Nat, NEW h, NEW L, NEW q, NEW st,
         s \o <<>> = L[c] \/ s = Absent,
         s # Absent => \A e \in Items(h) : e.paced => e.seq <= c,
         s = Absent => \A e \in Items(h) : ~e.paced
  PROVE  Fitting(s, c, h, NoBacklog, L, q, st)
<1>1. NoBacklog.toks = <<>> /\ ~(c < 0)
  BY DEF NoBacklog
<1> QED BY <1>1 DEF Fitting

\* A drain over an exact copy leaves an exact copy.
LEMMA DrainFits ==
  ASSUME NEW h \in Seq(Events), NEW c \in Nat, NEW L, NEW n, History(L, n), c <= n,
         NEW s \in Tokens, s = L[c],
         \A e \in Items(h) : HeldTo(e, L, n) /\ (e.paced => e.seq <= c)
  PROVE  /\ Plan(h, c).cur \in c..n
         /\ s \o TextOf(Plan(h, c).replay) = L[Plan(h, c).cur]
         /\ s \o TextOf(Plan(h, c).replay) \in Tokens
<1> DEFINE r == Plan(h, c).replay
           d == Plan(h, c).cur
<1>0. n \in Nat /\ L \in [0..n -> Tokens]
  BY DEF History
<1>1. /\ r \in Seq(Events) /\ d \in Int /\ d = c + Len(r) /\ Len(r) \in Nat
      /\ \A j \in 1..Len(r) : r[j] \in Items(h) /\ r[j].seq = c + j /\ r[j] \in Events
  <2>1. Plan(h, c) \in Accs /\ Sound(Plan(h, c), c, Items(h))
    BY PlanSound
  <2>2. r \in Seq(Events) /\ d \in Int
    BY <2>1 DEF Accs
  <2>3. Len(r) \in Nat /\ \A j \in 1..Len(r) : r[j] \in Events
    BY <2>2, ItemsOf
  <2> QED BY <2>1, <2>2, <2>3 DEF Sound
<1> HIDE DEF r, d
<1>2. ASSUME NEW j \in 1..Len(r) PROVE c + j \in 1..n /\ L[c + j] = L[c + j - 1] \o r[j].toks
  <2>1. r[j] \in Items(h) /\ r[j].seq = c + j /\ r[j] \in Events
    BY <1>1
  <2>2. ~(r[j].seq <= c)
    BY <1>1, <2>1
  <2>3. TrueTo(r[j], L, n) /\ r[j].kind = "delta"
    BY <2>1, <2>2 DEF HeldTo
  <2>4. r[j].seq \in 1..n /\ L[r[j].seq] = L[r[j].seq - 1] \o r[j].toks
    BY <2>3 DEF TrueTo
  <2>5. r[j].seq = c + j /\ r[j].seq - 1 = c + j - 1
    BY <2>1
  <2> QED BY <2>4, <2>5, Zenon
<1>3. c \in 0..n
  BY <1>0
<1>4. c + Len(r) \in 0..n /\ L[c] \o TextOf(r) = L[c + Len(r)] /\ TextOf(r) \in Tokens
  BY <1>0, <1>1, <1>2, <1>3, TextJoins
<1>5. s \o TextOf(r) \in Tokens
  BY <1>4, Texts
<1>6. d \in c..n
  BY <1>0, <1>1, <1>4
<1> QED BY <1>1, <1>4, <1>5, <1>6 DEF r, d

\* Nothing is held after a drain that was not held before.
LEMMA DrainItems ==
  ASSUME NEW h \in Seq(Events), NEW c \in Int
  PROVE  /\ Plan(h, c).keep \in Seq(Events) /\ Items(Plan(h, c).keep) \subseteq Items(h)
         /\ Plan(h, c).replay \o Plan(h, c).keep \in Seq(Events)
         /\ Items(Plan(h, c).replay \o Plan(h, c).keep) \subseteq Items(h)
         /\ Plan(h, c).replay \in Seq(Events) /\ TextOf(Plan(h, c).replay) \in Tokens
<1> DEFINE r == Plan(h, c).replay
           p == Plan(h, c).keep
<1>1. /\ r \in Seq(Events) /\ p \in Seq(Events)
      /\ (\A j \in 1..Len(r) : r[j] \in Items(h)) /\ (\A j \in 1..Len(p) : p[j] \in Items(h))
  <2>1. Plan(h, c) \in Accs /\ Sound(Plan(h, c), c, Items(h))
    BY PlanSound
  <2> QED BY <2>1 DEF Accs, Sound
<1> HIDE DEF r, p
<1>2. /\ r \o p \in Seq(Events) /\ Len(r \o p) = Len(r) + Len(p) /\ Len(r) \in Nat /\ Len(p) \in Nat
      /\ \A i \in 1..(Len(r) + Len(p)) : (r \o p)[i] = IF i <= Len(r) THEN r[i] ELSE p[i - Len(r)]
  BY <1>1, ConcatProperties, LenProperties
<1>3. ASSUME NEW i \in 1..Len(r \o p) PROVE (r \o p)[i] \in Items(h)
  <2>1. CASE i <= Len(r)
    <3>1. i \in 1..Len(r) /\ i \in 1..(Len(r) + Len(p))
      BY <1>2, <2>1
    <3> QED BY <1>1, <1>2, <2>1, <3>1
  <2>2. CASE ~(i <= Len(r))
    <3>1. i - Len(r) \in 1..Len(p) /\ i \in 1..(Len(r) + Len(p))
      BY <1>2, <2>2
    <3> QED BY <1>1, <1>2, <2>2, <3>1
  <2> QED BY <2>1, <2>2
<1>4. Items(r \o p) \subseteq Items(h)
  BY <1>3 DEF Items
<1>5. Items(p) \subseteq Items(h)
  BY <1>1 DEF Items
<1>6. TextOf(r) \in Tokens
  <2>1. PICK F \in [0..Len(r) -> Tokens] : F[Len(r)] = TextOf(r)
    BY <1>1, TextSteps
  <2>2. Len(r) \in 0..Len(r)
    BY <1>2
  <2> QED BY <2>1, <2>2
<1> QED BY <1>1, <1>2, <1>4, <1>5, <1>6 DEF r, p

\* Where no held event comes next, a drain replays nothing.
LEMMA DrainIdle ==
  ASSUME NEW h \in Seq(Events), NEW c \in Int, \A e \in Items(h) : e.seq # c + 1
  PROVE  Plan(h, c).cur = c /\ TextOf(Plan(h, c).replay) = <<>>
<1> DEFINE r == Plan(h, c).replay
<1>1. r \in Seq(Events) /\ Len(r) \in Nat /\ Sound(Plan(h, c), c, Items(h))
  <2>1. Plan(h, c) \in Accs /\ Sound(Plan(h, c), c, Items(h))
    BY PlanSound
  <2>2. r \in Seq(Events)
    BY <2>1 DEF Accs
  <2> QED BY <2>1, <2>2, LenProperties
<1>2. Len(r) = 0
  <2>1. ASSUME Len(r) # 0 PROVE FALSE
    <3>1. 1 \in 1..Len(r)
      BY <1>1, <2>1
    <3> QED BY <1>1, <3>1 DEF Sound
  <2> QED BY <2>1
<1>3. Plan(h, c).cur = c
  BY <1>1, <1>2 DEF Sound
<1>4. TextOf(r) = <<>>
  <2> HIDE DEF r
  <2> QED BY <1>1, <1>2, TextSteps
<1> QED BY <1>3, <1>4 DEF r

-----------------------------------------------------------------------------
(* Every step keeps the types.                                             *)

LEMMA RowTypes ==
  /\ NoRow \in Rows /\ Asked \in Rows /\ NoRow.st = "none" /\ Asked.st = "asked"
  /\ [NoRow EXCEPT !.st = "running"] \in Rows
  /\ [NoRow EXCEPT !.st = "running"].parts = <<>> /\ [NoRow EXCEPT !.st = "running"].seq = 0
BY Texts DEF NoRow, Asked, Rows

LEMMA Requested ==
  ASSUME NEW l \in [LoadIds -> Requests], NEW i \in LoadIds
  PROVE  /\ Free \in Requests /\ Free.got.st # "running"
         /\ \A x \in Requests : /\ [l EXCEPT ![i] = x] \in [LoadIds -> Requests]
                                /\ \A j \in LoadIds : [l EXCEPT ![i] = x][j] \in {x, l[j]}
         /\ \A kind \in {"history", "recovery", "turn", "poll"} :
              /\ [kind |-> kind, got |-> Asked] \in Requests
              /\ [kind |-> kind, got |-> Asked].got.st # "running"
         /\ \A r \in Rows : /\ [l EXCEPT ![i].got = r] \in [LoadIds -> Requests]
                            /\ \A j \in LoadIds : [l EXCEPT ![i].got = r][j].got \in {r, l[j].got}
         /\ l[i].got \in Rows
<1>1. Free \in Requests /\ Free.got.st # "running"
  BY RowTypes DEF Free, Requests
<1>2. \A kind \in {"history", "recovery", "turn", "poll"} :
        /\ [kind |-> kind, got |-> Asked] \in Requests
        /\ [kind |-> kind, got |-> Asked].got.st # "running"
  BY RowTypes DEF Requests
<1>3. ASSUME NEW x \in Requests
      PROVE  /\ [l EXCEPT ![i] = x] \in [LoadIds -> Requests]
             /\ \A j \in LoadIds : [l EXCEPT ![i] = x][j] \in {x, l[j]}
  OBVIOUS
<1>4. ASSUME NEW r \in Rows
      PROVE  /\ [l EXCEPT ![i].got = r] \in [LoadIds -> Requests]
             /\ \A j \in LoadIds : [l EXCEPT ![i].got = r][j].got \in {r, l[j].got}
  <2> DEFINE x == [l[i] EXCEPT !.got = r]
  <2>1. l[i] \in Requests
    OBVIOUS
  <2>2. x \in Requests /\ x.got = r
    BY <2>1 DEF Requests
  <2>3. [l EXCEPT ![i].got = r] = [l EXCEPT ![i] = x]
    OBVIOUS
  <2> HIDE DEF x
  <2>4. /\ [l EXCEPT ![i] = x] \in [LoadIds -> Requests]
        /\ \A j \in LoadIds : [l EXCEPT ![i] = x][j] \in {x, l[j]}
    BY <1>3, <2>2
  <2> QED BY <2>2, <2>3, <2>4
<1>5. l[i].got \in Rows
  BY DEF Requests
<1> QED BY <1>1, <1>2, <1>3, <1>4, <1>5

LEMMA EventTypes ==
  /\ \A m \in Nat : Event("start", m, <<>>) \in Events
  /\ \A m \in Nat : Event("reset", m, <<>>) \in Events
  /\ \A m \in Nat : Event("finish", m, <<>>) \in Events
  /\ \A m \in Nat : Event("ping", m, <<>>) \in Events
  /\ \A m \in Nat : Event("marker", m, <<>>) \in Events
  /\ \A m \in Nat, t \in Tokens : Event("delta", m, t) \in Events
  /\ \A kind, m, t : LET e == Event(kind, m, t)
                     IN  e.kind = kind /\ e.seq = m /\ e.toks = t /\ ~e.paced
BY Texts DEF Event, Events, Kinds

\* The snapshot number, and what a flush publishes.
LEMMA Unflushed ==
  ASSUME Types
  PROVE  /\ Unpublished \in Tokens /\ SnapSeq \in Nat /\ seq + 1 \in Nat
         /\ SubSeq(parts, 1, Len(parts) - buf) \o Unpublished = parts
<1>1. /\ parts \in Tokens /\ Len(parts) \in Nat /\ buf \in 0..Len(parts) /\ seq \in Nat
      /\ buf \in Nat
  BY Cuts DEF Types, History
<1> DEFINE k == Len(parts) - buf
<1>2. k \in 0..Len(parts)
  BY <1>1
<1>3. /\ SubSeq(parts, k + 1, Len(parts)) \in Tokens
      /\ SubSeq(parts, 1, k) \o SubSeq(parts, k + 1, Len(parts)) = parts
  <2> HIDE DEF k
  <2> QED BY <1>1, <1>2, Cuts
<1>4. SnapSeq \in Nat /\ seq + 1 \in Nat
  BY <1>1 DEF SnapSeq
<1> QED BY <1>3, <1>4 DEF Unpublished

LEMMA Drained ==
  ASSUME NEW s \in Tokens \cup {Absent}, NEW c \in Int, held \in Seq(Events), Drain(s, c)
  PROVE  /\ held' \in Seq(Events) /\ Items(held') \subseteq Items(held)
         /\ shown' \in Tokens \cup {Absent} /\ cursor' \in Int
         /\ s = Absent => shown' = Absent /\ cursor' = c
         /\ s # Absent => /\ shown' = s \o TextOf(Plan(held, c).replay)
                          /\ cursor' = Plan(held, c).cur
<1>1. Plan(held, c).cur \in Int
  BY PlanSound DEF Accs
<1>2. s # Absent => s \o TextOf(Plan(held, c).replay) \in Tokens
  BY DrainItems, Texts
<1>3. CASE s = Absent
  BY <1>3, DrainItems DEF Drain
<1>4. CASE s # Absent
  BY <1>1, <1>2, <1>4, DrainItems DEF Drain
<1> QED BY <1>3, <1>4

\* What a load leaves in the tab.
LEMMA LoadedTypes ==
  ASSUME NEW r \in Rows, cursor \in Int
  PROVE  /\ Loaded(r) \in Tokens \cup {Absent} /\ CursorOf(r) \in Int
         /\ r.st = "running" => /\ Loaded(r) = r.parts /\ CursorOf(r) = r.seq
                                /\ Loaded(r) # Absent /\ Loaded(r) \in Tokens /\ r.seq \in Nat
         /\ r.st # "running" => CursorOf(r) = cursor
<1>1. r.parts \in Tokens /\ r.seq \in Nat
  BY DEF Rows
<1> QED BY <1>1, Texts DEF Loaded, CursorOf

LEMMA InitTypes == ASSUME StreamAssumption, Init PROVE Types
<1>1. parts \in Tokens /\ Len(parts) = 0 /\ chan \in Seq(Events) /\ held \in Seq(Events)
  BY Texts, EmptySeq DEF Init
<1>2. History(log, seq)
  BY Texts DEF Init, History
<1>3. row \in Rows /\ shown \in Tokens \cup {Absent} /\ cursor \in Int
  BY RowTypes DEF Init
<1>4. backlog \in [seq : Nat, toks : Tokens]
  BY Texts DEF Init, NoBacklog
<1>5. loads \in [LoadIds -> Requests]
  BY RowTypes DEF Init, Free, Requests
<1>6. /\ stage \in {"setup", "opened", "streaming", "ended", "told"}
      /\ produced \in 0..MaxTokens /\ buf \in 0..Len(parts)
  BY <1>1 DEF Init, StreamAssumption
<1> QED BY <1>1, <1>2, <1>3, <1>4, <1>5, <1>6 DEF Types

LEMMA TypesRunner == ASSUME StreamAssumption, Types, Runner PROVE Types'
<1>0. seq + 1 \in Nat /\ seq \in Nat /\ chan \in Seq(Events) /\ History(log, seq) /\ <<>> \in Tokens
      /\ Len(<<>>) = 0 /\ SnapSeq \in Nat /\ Unpublished \in Tokens /\ parts \in Tokens
      /\ Len(parts) \in Nat
  BY Unflushed, Texts, Cuts DEF Types, History
<1>1. CASE OpenRow
  <2>1. row' \in Rows /\ stage' \in {"setup", "opened", "streaming", "ended", "told"}
    BY <1>1, RowTypes DEF OpenRow
  <2> QED BY <1>1, <2>1 DEF OpenRow, Types, tab
<1>2. CASE PublishStart
  <2>1. chan' \in Seq(Events)
    BY <1>0, <1>2, EventTypes, AppendItems DEF PublishStart, Publish
  <2> QED BY <1>2, <2>1 DEF PublishStart, Types, tab
<1>3. CASE Token
  <2>1. produced' \in 0..MaxTokens /\ produced + 1 \in 1..MaxTokens
    BY <1>3 DEF Token, Types, StreamAssumption
  <2>2. parts' \in Tokens /\ Len(parts') = Len(parts) + 1
    BY <1>0, <1>3, <2>1, Cuts DEF Token
  <2>3. buf' \in 0..Len(parts')
    BY <1>0, <1>3, <2>2 DEF Token, Types
  <2> QED BY <1>3, <2>1, <2>2, <2>3 DEF Token, Types, tab
<1>4. CASE Flush
  <2>1. chan' \in Seq(Events)
    BY <1>0, <1>4, EventTypes, AppendItems DEF Flush, Publish
  <2>2. History(log', seq')
    BY <1>0, <1>4, Extended DEF Flush, LogWith
  <2>3. buf' \in 0..Len(parts)
    BY <1>0, <1>4 DEF Flush
  <2> QED BY <1>4, <2>1, <2>2, <2>3 DEF Flush, Types, tab
<1>5. CASE Save
  <2>1. row' \in Rows
    BY <1>0, <1>5 DEF Save, Rows
  <2> QED BY <1>5, <2>1 DEF Save, Types, tab
<1>6. CASE Discard
  <2>1. chan' \in Seq(Events)
    BY <1>0, <1>6, EventTypes, AppendItems DEF Discard, Publish
  <2>2. History(log', seq')
    <3>1. log' = LogWith(log, seq, <<>>) /\ seq' = seq + 1
      BY <1>6 DEF Discard, LogWith
    <3> QED BY <1>0, <3>1, Extended
  <2>3. parts' \in Tokens /\ buf' \in 0..Len(parts')
    BY <1>0, <1>6 DEF Discard
  <2> QED BY <1>6, <2>1, <2>2, <2>3 DEF Discard, Types, tab
<1>7. CASE EndTurn
  <2>1. row' \in Rows
    BY <1>0, <1>7 DEF EndTurn, Rows
  <2> QED BY <1>7, <2>1 DEF EndTurn, Types, tab
<1>8. CASE PublishFinish
  <2>1. chan' \in Seq(Events)
    BY <1>0, <1>8, EventTypes, AppendItems DEF PublishFinish, Publish
  <2> QED BY <1>8, <2>1 DEF PublishFinish, Types, tab
<1> QED BY <1>1, <1>2, <1>3, <1>4, <1>5, <1>6, <1>7, <1>8 DEF Runner

LEMMA TypesWire ==
  ASSUME StreamAssumption, Types, Ping \/ Lose \/ Truncate \/ Receive
  PROVE  Types'
<1>0. /\ seq \in Nat /\ chan \in Seq(Events) /\ held \in Seq(Events) /\ 0 \in Nat
      /\ loads \in [LoadIds -> Requests] /\ History(log, seq) /\ cursor \in Int
      /\ shown \in Tokens \cup {Absent} /\ backlog.toks \in Tokens /\ backlog.seq \in Nat
  BY DEF Types, History
<1>1. CASE Ping
  <2>1. chan' \in Seq(Events)
    BY <1>0, <1>1, EventTypes, AppendItems DEF Ping, Publish
  <2> QED BY <1>1, <2>1 DEF Ping, Types, runner, tab
<1>t. ASSUME chan # <<>>
      PROVE  /\ Tail(chan) \in Seq(Events) /\ Head(chan) \in Events
             /\ Head(chan).seq \in Nat /\ Head(chan).toks \in Tokens
  <2>1. Tail(chan) \in Seq(Events) /\ Head(chan) \in Events
    BY <1>0, <1>t, TailItems
  <2> QED BY <2>1 DEF Events
<1>2. CASE Lose
  BY <1>2, <1>t DEF Lose, Types, runner, tab
<1>3. CASE Truncate
  <2>1. chan' \in Seq(Events)
    BY <1>0, <1>3, EventTypes, MarkItems DEF Truncate
  <2> QED BY <1>3, <2>1 DEF Truncate, Types, runner, tab
<1>4. CASE Ignore
  BY <1>4, <1>t DEF Ignore, Incoming, Types, runner, tab
<1>h. ASSUME chan # <<>> PROVE Holding(held, Head(chan)) \in Seq(Events)
  BY <1>0, <1>h, <1>t, HoldingItems
<1>5. CASE Gap
  <2>1. held' \in Seq(Events) /\ chan' \in Seq(Events)
    BY <1>5, <1>t, <1>h DEF Gap, Incoming, Hold
  <2> QED BY <1>5, <2>1 DEF Gap, Types, runner
<1>6. CASE NextDelta
  <2>0. chan # <<>>
    BY <1>6 DEF NextDelta, Incoming
  <2>1. chan' \in Seq(Events) /\ cursor' \in Int
    BY <1>6, <1>t, <2>0 DEF NextDelta
  <2>2. held' \in Seq(Events)
    BY <1>0, <1>6, <1>h, <2>0 DEF NextDelta, Hold
  <2>3. shown' \in Tokens \cup {Absent}
    <3>1. shown' = shown \/ (shown # Absent /\ shown' = shown \o Head(chan).toks)
      BY <1>6 DEF NextDelta, Present
    <3>2. shown # Absent => shown \o Head(chan).toks \in Tokens
      BY <1>0, <1>t, <2>0, Texts
    <3> QED BY <1>0, <3>1, <3>2
  <2>4. backlog' \in [seq : Nat, toks : Tokens]
    <3>1. CASE Paced
      <4>1. backlog.toks \o Head(chan).toks \in Tokens
        BY <1>0, <1>t, <2>0, Texts
      <4>2. (IF backlog = NoBacklog THEN Head(chan).seq ELSE backlog.seq) \in Nat
        BY <1>0, <1>t, <2>0
      <4> DEFINE m == IF backlog = NoBacklog THEN Head(chan).seq ELSE backlog.seq
                 t == backlog.toks \o Head(chan).toks
      <4>3. backlog' = [seq |-> m, toks |-> t]
        BY <1>6, <3>1 DEF NextDelta
      <4> HIDE DEF m, t
      <4>4. m \in Nat /\ t \in Tokens
        BY <4>1, <4>2 DEF m, t
      <4> QED BY <4>3, <4>4
    <3>2. CASE ~Paced
      BY <1>6, <3>2 DEF NextDelta, Types
    <3> QED BY <3>1, <3>2
  <2> QED BY <1>6, <2>1, <2>2, <2>3, <2>4 DEF NextDelta, Types, runner
<1>7. CASE OnStart
  <2>1. chan' \in Seq(Events) /\ cursor' \in Int
    BY <1>0, <1>7, <1>t DEF OnStart, Incoming, Baseline
  <2>2. shown' \in Tokens \cup {Absent}
    BY <1>0, <1>7, Texts DEF OnStart
  <2> QED BY <1>7, <2>1, <2>2 DEF OnStart, Types, runner
<1>8. CASE OnReset
  <2>1. chan' \in Seq(Events) /\ cursor' \in Int
    BY <1>8, <1>t DEF OnReset, Incoming
  <2>2. shown' \in Tokens \cup {Absent}
    BY <1>0, <1>8, Texts DEF OnReset
  <2> QED BY <1>8, <2>1, <2>2 DEF OnReset, Types, runner
<1>9. CASE OnMarker
  BY <1>9, <1>t DEF OnMarker, Incoming, Types, runner
<1>10. ASSUME NEW i \in LoadIds, OnFinish(i) PROVE Types'
  <2>1. chan' \in Seq(Events) /\ cursor' \in Int /\ held' \in Seq(Events)
    BY <1>10, <1>t, EmptySeq DEF OnFinish, Incoming
  <2>2. loads' \in [LoadIds -> Requests]
    BY <1>0, <1>10, Requested DEF OnFinish, Ask
  <2> QED BY <1>10, <2>1, <2>2 DEF OnFinish, Types, runner
<1>11. ASSUME NEW i \in LoadIds, OnPing(i) PROVE Types'
  <2>1. chan' \in Seq(Events)
    BY <1>11, <1>t DEF OnPing, Incoming
  <2>2. loads' \in [LoadIds -> Requests]
    BY <1>0, <1>11, Requested DEF OnPing, Ask
  <2> QED BY <1>11, <2>1, <2>2 DEF OnPing, Types, runner
<1> QED BY <1>1, <1>2, <1>3, <1>4, <1>5, <1>6, <1>7, <1>8, <1>9, <1>10, <1>11 DEF Receive

Requesting(i) ==
  \/ Mount(i) \/ Answer(i) \/ Reload(i) \/ Poll(i)
  \/ LandHistory(i) \/ LandRecovery(i) \/ LandTurn(i) \/ FailLoad(i)

LEMMA TypesTab ==
  ASSUME StreamAssumption, Types,
         \/ \E k \in 1..MaxTokens : Release(k)
         \/ \E i \in LoadIds : Requesting(i)
  PROVE  Types'
<1>0. /\ held \in Seq(Events) /\ loads \in [LoadIds -> Requests] /\ cursor \in Int /\ row \in Rows
      /\ shown \in Tokens \cup {Absent} /\ backlog.toks \in Tokens /\ backlog.seq \in Nat
  BY DEF Types
<1>1. ASSUME NEW k \in 1..MaxTokens, Release(k) PROVE Types'
  <2>0. k \in 0..Len(backlog.toks)
    BY <1>1 DEF Release
  <2>1. /\ SubSeq(backlog.toks, 1, k) \in Tokens
        /\ SubSeq(backlog.toks, k + 1, Len(backlog.toks)) \in Tokens
    BY <1>0, <2>0, Cuts
  <2>2. backlog' \in [seq : Nat, toks : Tokens]
    <3>1. NoBacklog \in [seq : Nat, toks : Tokens]
      BY Texts DEF NoBacklog
    <3>2. backlog \in [seq : Nat, toks : Tokens]
      BY DEF Types
    <3>3. [backlog EXCEPT !.toks = SubSeq(@, k + 1, Len(@))] \in [seq : Nat, toks : Tokens]
      BY <2>1, <3>2
    <3> QED BY <1>1, <3>1, <3>3 DEF Release
  <2>3. shown' \in Tokens \cup {Absent}
    <3>1. shown' = shown \/ (shown # Absent /\ shown' = shown \o SubSeq(backlog.toks, 1, k))
      BY <1>1 DEF Release, Present
    <3>2. shown # Absent => shown \o SubSeq(backlog.toks, 1, k) \in Tokens
      BY <1>0, <2>1, Texts
    <3> QED BY <1>0, <3>1, <3>2
  <2>4. held' \in Seq(Events)
    <3>1. [kind |-> "delta", seq |-> backlog.seq, toks |-> SubSeq(backlog.toks, 1, k),
           paced |-> TRUE] \in Events
      BY <1>0, <2>1 DEF Events, Kinds
    <3> QED BY <1>0, <1>1, <3>1, HoldingItems DEF Release, Hold
  <2> QED BY <1>1, <2>2, <2>3, <2>4 DEF Release, Types, runner
<1>2. ASSUME NEW i \in LoadIds, Requesting(i) PROVE Types'
  <2>0. /\ loads[i].got \in Rows /\ Free \in Requests
        /\ \A kind \in {"history", "recovery", "turn", "poll"} :
             [kind |-> kind, got |-> Asked] \in Requests
        /\ \A x \in Requests : [loads EXCEPT ![i] = x] \in [LoadIds -> Requests]
        /\ \A r \in Rows : [loads EXCEPT ![i].got = r] \in [LoadIds -> Requests]
    BY <1>0, Requested
  <2>l. Loaded(loads[i].got) \in Tokens \cup {Absent} /\ CursorOf(loads[i].got) \in Int
    BY <1>0, <2>0, LoadedTypes
  <2>1. CASE Mount(i)
    BY <2>0, <2>1 DEF Mount, Ask, Types, runner
  <2>2. CASE Answer(i)
    BY <1>0, <2>0, <2>2 DEF Answer, Types, runner
  <2>3. CASE Reload(i)
    BY <2>0, <2>3 DEF Reload, Ask, Types, runner
  <2>4. CASE Poll(i)
    BY <2>0, <2>4 DEF Poll, Ask, Types, runner
  <2>5. CASE LandHistory(i)
    BY <2>0, <2>l, <2>5 DEF LandHistory, Types, runner
  <2>6. CASE LandRecovery(i)
    <3>1. Drain(Loaded(loads[i].got), CursorOf(loads[i].got))
      BY <2>6 DEF LandRecovery
    <3>2. held' \in Seq(Events) /\ shown' \in Tokens \cup {Absent} /\ cursor' \in Int
      BY <1>0, <2>l, <3>1, Drained
    <3> QED BY <2>0, <2>6, <3>2 DEF LandRecovery, Types, runner
  <2>7. CASE LandTurn(i)
    <3>1. loads' \in [LoadIds -> Requests] /\ shown' \in Tokens \cup {Absent}
      BY <1>0, <2>0, <2>l, <2>7 DEF LandTurn
    <3> QED BY <2>7, <3>1 DEF LandTurn, Types, runner
  <2>8. CASE FailLoad(i)
    <3>1. loads' \in [LoadIds -> Requests]
      BY <2>0, <2>8 DEF FailLoad
    <3>2. UNCHANGED <<shown, cursor, held>> \/ Drain(shown, cursor)
      BY <2>8 DEF FailLoad
    <3>3. held' \in Seq(Events) /\ shown' \in Tokens \cup {Absent} /\ cursor' \in Int
      BY <1>0, <3>2, Drained
    <3> QED BY <2>8, <3>1, <3>3 DEF FailLoad, Types, runner
  <2> QED BY <1>2, <2>1, <2>2, <2>3, <2>4, <2>5, <2>6, <2>7, <2>8 DEF Requesting
<1> QED BY <1>1, <1>2

-----------------------------------------------------------------------------
(* Every step lets the history grow, and keeps the rows and events true.   *)

LEMMA Quiet == ASSUME Next, ~Runner PROVE UNCHANGED runner
BY DEF Next, Ping, Lose, Truncate, Receive, Ignore, Gap, NextDelta, OnStart, OnReset, OnMarker,
       OnFinish, OnPing, Release, Mount, Answer, Reload, Poll, LandHistory, LandRecovery,
       LandTurn, FailLoad

LEMMA Growing == ASSUME Types, Next PROVE Grows(log, seq, log', seq')
<1>0. History(log, seq) /\ parts \in Tokens /\ <<>> \in Tokens
  BY Texts DEF Types
<1>1. CASE Flush
  <2>1. log' = LogWith(log, seq, parts) /\ seq' = seq + 1
    BY <1>1 DEF Flush, LogWith
  <2> QED BY <1>0, <2>1, Extended
<1>2. CASE Discard
  <2>1. log' = LogWith(log, seq, <<>>) /\ seq' = seq + 1
    BY <1>2 DEF Discard, LogWith
  <2> QED BY <1>0, <2>1, Extended
<1>3. CASE ~Flush /\ ~Discard
  <2>1. UNCHANGED <<log, seq>>
    <3>1. CASE Runner
      BY <1>3, <3>1 DEF Runner, OpenRow, PublishStart, Token, Save, EndTurn, PublishFinish
    <3>2. CASE ~Runner
      BY <3>2, Quiet DEF runner
    <3> QED BY <3>1, <3>2
  <2> QED BY <1>0, <2>1, Steady
<1> QED BY <1>1, <1>2, <1>3

LEMMA Ended == ASSUME Next, stage = "told" PROVE UNCHANGED runner
<1>1. ~Runner
  BY DEF Runner, OpenRow, PublishStart, Token, Flush, Save, Discard, EndTurn, PublishFinish
<1> QED BY <1>1, Quiet

\* The rows the tab's requests were answered with.
LEMMA Answers ==
  ASSUME Types, Next
  PROVE  \A j \in LoadIds :
           \/ loads'[j].got.st # "running" \/ loads'[j].got = row
           \/ loads'[j].got = loads[j].got
<1>0. loads \in [LoadIds -> Requests] /\ row \in Rows
  BY DEF Types
<1>1. CASE UNCHANGED loads
  BY <1>1
<1>2. ASSUME NEW i \in LoadIds,
             \/ \E kind \in {"history", "recovery", "turn", "poll"} :
                  loads' = [loads EXCEPT ![i] = [kind |-> kind, got |-> Asked]]
             \/ loads' = [loads EXCEPT ![i] = Free]
             \/ loads' = [loads EXCEPT ![i].got = row]
      PROVE  \A j \in LoadIds :
               \/ loads'[j].got.st # "running" \/ loads'[j].got = row
               \/ loads'[j].got = loads[j].got
  <2>1. CASE \E kind \in {"history", "recovery", "turn", "poll"} :
               loads' = [loads EXCEPT ![i] = [kind |-> kind, got |-> Asked]]
    <3>1. PICK kind \in {"history", "recovery", "turn", "poll"} :
                 loads' = [loads EXCEPT ![i] = [kind |-> kind, got |-> Asked]]
      BY <2>1
    <3> DEFINE x == [kind |-> kind, got |-> Asked]
    <3>2. x \in Requests /\ x.got.st # "running"
      BY <1>0, Requested
    <3>3. loads' = [loads EXCEPT ![i] = x]
      BY <3>1
    <3> HIDE DEF x
    <3>4. \A j \in LoadIds : loads'[j] \in {x, loads[j]}
      BY <1>0, <3>2, <3>3, Requested
    <3> QED BY <3>2, <3>4
  <2>2. CASE loads' = [loads EXCEPT ![i] = Free]
    <3>1. \A j \in LoadIds : loads'[j] \in {Free, loads[j]}
      BY <1>0, <2>2, Requested
    <3> QED BY <1>0, <3>1, Requested
  <2>3. CASE loads' = [loads EXCEPT ![i].got = row]
    <3>1. \A j \in LoadIds : loads'[j].got \in {row, loads[j].got}
      BY <1>0, <2>3, Requested
    <3> QED BY <3>1
  <2> QED BY <1>2, <2>1, <2>2, <2>3
<1>3. \/ UNCHANGED loads
      \/ \E i \in LoadIds :
           \/ \E kind \in {"history", "recovery", "turn", "poll"} :
                loads' = [loads EXCEPT ![i] = [kind |-> kind, got |-> Asked]]
           \/ loads' = [loads EXCEPT ![i] = Free]
           \/ loads' = [loads EXCEPT ![i].got = row]
  <2>1. CASE Runner \/ Ping \/ Lose \/ Truncate
    BY <2>1 DEF Runner, OpenRow, PublishStart, Token, Flush, Save, Discard, EndTurn,
                PublishFinish, Ping, Lose, Truncate, tab
  <2>2. CASE Ignore \/ Gap \/ NextDelta \/ OnStart \/ OnReset \/ OnMarker
    BY <2>2 DEF Ignore, Gap, NextDelta, OnStart, OnReset, OnMarker, tab
  <2>3. CASE \E i \in LoadIds : OnFinish(i) \/ OnPing(i)
    BY <2>3 DEF OnFinish, OnPing, Ask
  <2>4. CASE \E k \in 1..MaxTokens : Release(k)
    BY <2>4 DEF Release
  <2>5. CASE \E i \in LoadIds : Mount(i) \/ Answer(i) \/ Reload(i) \/ Poll(i)
    BY <2>5 DEF Mount, Answer, Reload, Poll, Ask
  <2>6. CASE \E i \in LoadIds : LandHistory(i) \/ LandRecovery(i) \/ LandTurn(i)
    BY <2>6 DEF LandHistory, LandRecovery, LandTurn
  <2>7. CASE \E i \in LoadIds : FailLoad(i)
    BY <2>7 DEF FailLoad
  <2> QED BY <2>1, <2>2, <2>3, <2>4, <2>5, <2>6, <2>7 DEF Next, Receive
<1> QED BY <1>1, <1>2, <1>3

LEMMA SourceStep ==
  ASSUME StreamAssumption, ~SaveAhead, Types, Types', Source, Next
  PROVE  Source'
<1>0. /\ History(log, seq) /\ parts \in Tokens /\ row \in Rows /\ seq \in Nat /\ <<>> \in Tokens
      /\ Len(parts) \in Nat /\ buf \in 0..Len(parts) /\ buf \in Nat /\ Len(<<>>) = 0
      /\ loads \in [LoadIds -> Requests] /\ Grows(log, seq, log', seq')
  <2>1. Grows(log, seq, log', seq')
    BY Growing
  <2>2. parts \in Tokens /\ Len(parts) \in Nat
    BY Cuts DEF Types
  <2>3. buf \in Nat /\ seq \in Nat
    BY <2>2 DEF Types, History
  <2> QED BY <2>1, <2>2, <2>3, Texts DEF Types
<1>1. Sourced(stage', parts', buf', log', seq')
  <2>1. CASE OpenRow
    BY <2>1 DEF OpenRow, Source, Sourced
  <2>2. CASE Token
    <3>1. produced + 1 \in 1..MaxTokens
      BY <2>2 DEF Token, Types, StreamAssumption
    <3> DEFINE k == Len(parts) - buf
               x == produced + 1
    <3>2. k \in 0..Len(parts)
      BY <1>0
    <3>3. Len(Append(parts, x)) = Len(parts) + 1
      BY <1>0, <3>1, Cuts
    <3>4. Len(parts') - buf' = k
      BY <1>0, <2>2, <3>3 DEF Token
    <3>5. SubSeq(Append(parts, x), 1, k) = SubSeq(parts, 1, k)
      <4> HIDE DEF k, x
      <4>1. x \in 1..MaxTokens
        BY <3>1 DEF x
      <4> QED BY <1>0, <3>2, <4>1, Cuts
    <3>6. SubSeq(parts', 1, Len(parts') - buf') = SubSeq(parts, 1, k)
      BY <2>2, <3>4, <3>5 DEF Token
    <3> QED BY <2>2, <3>6 DEF Token, Source, Sourced
  <2>3. CASE Flush
    <3>1. log' = LogWith(log, seq, parts) /\ seq' = seq + 1 /\ parts' = parts /\ buf' = 0
          /\ stage' = "streaming"
      BY <2>3 DEF Flush, LogWith
    <3>2. log'[seq'] = parts /\ log'[0] = log[0]
      BY <1>0, <3>1, Extended
    <3>3. SubSeq(parts', 1, Len(parts') - buf') = parts
      <4>1. Len(parts) - 0 = Len(parts)
        BY <1>0
      <4> QED BY <1>0, <3>1, <4>1, Cuts
    <3> QED BY <3>1, <3>2, <3>3 DEF Source, Sourced
  <2>4. CASE Discard
    <3>1. log' = LogWith(log, seq, <<>>) /\ seq' = seq + 1 /\ parts' = <<>> /\ buf' = 0
          /\ stage' = "streaming"
      BY <2>4 DEF Discard, LogWith
    <3>2. log'[seq'] = <<>> /\ log'[0] = log[0]
      BY <1>0, <3>1, Extended
    <3>3. SubSeq(parts', 1, Len(parts') - buf') = <<>>
      <4>1. Len(<<>>) - 0 = Len(<<>>)
        BY <1>0
      <4>2. SubSeq(<<>>, 1, Len(<<>>)) = <<>>
        BY <1>0, Cuts
      <4> QED BY <3>1, <4>1, <4>2
    <3> QED BY <3>1, <3>2, <3>3 DEF Source, Sourced
  <2>5. CASE PublishStart \/ Save \/ EndTurn \/ PublishFinish
    BY <2>5 DEF PublishStart, Save, EndTurn, PublishFinish, Source, Sourced
  <2>6. CASE ~Runner
    BY <2>6, Quiet DEF Source, Sourced, runner
  <2> QED BY <2>1, <2>2, <2>3, <2>4, <2>5, <2>6 DEF Runner
<1>2. \A r \in Rows : RowTrue(r, log, seq) => RowTrue(r, log', seq')
  BY <1>0, StaysTrue
<1>3. RowTrue(row', log', seq')
  <2>1. CASE OpenRow
    <3>1. row'.seq = 0 /\ row'.parts = <<>>
      BY <2>1, RowTypes DEF OpenRow
    <3>2. log'[0] = <<>> /\ seq' \in Nat
      BY <1>0, <2>1 DEF OpenRow, Source, Sourced
    <3> QED BY <3>1, <3>2 DEF RowTrue
  <2>2. CASE Save
    <3>1. buf = 0 /\ SnapSeq = seq
      BY <1>0, <2>2 DEF Save, SnapSeq
    <3>2. log[seq] = parts
      <4>1. Len(parts) - buf = Len(parts)
        BY <1>0, <3>1
      <4> QED BY <1>0, <4>1, Cuts DEF Source, Sourced
    <3>3. row'.seq = seq /\ row'.parts = parts /\ log' = log /\ seq' = seq
      BY <2>2, <3>1 DEF Save
    <3> QED BY <1>0, <3>2, <3>3 DEF RowTrue
  <2>3. CASE EndTurn
    BY <2>3 DEF EndTurn, RowTrue
  <2>4. CASE ~OpenRow /\ ~Save /\ ~EndTurn
    <3>1. row' = row
      <4>1. CASE Runner
        BY <2>4, <4>1 DEF Runner, PublishStart, Token, Flush, Discard, PublishFinish
      <4>2. CASE ~Runner
        BY <4>2, Quiet DEF runner
      <4> QED BY <4>1, <4>2
    <3> QED BY <1>0, <1>2, <3>1 DEF Source
  <2> QED BY <2>1, <2>2, <2>3, <2>4
<1>4. ASSUME NEW j \in LoadIds PROVE RowTrue(loads'[j].got, log', seq')
  <2>1. \/ loads'[j].got.st # "running" \/ loads'[j].got = row
        \/ loads'[j].got = loads[j].got
    BY Answers
  <2>2. row \in Rows /\ loads[j].got \in Rows
    BY <1>0, Requested
  <2>3. RowTrue(row, log', seq') /\ RowTrue(loads[j].got, log', seq')
    BY <1>2, <2>2 DEF Source
  <2> QED BY <2>1, <2>3 DEF RowTrue
<1>5. Source' = (/\ Sourced(stage', parts', buf', log', seq')
                 /\ RowTrue(row', log', seq')
                 /\ \A j \in LoadIds : RowTrue(loads'[j].got, log', seq'))
  BY DEF Source
<1> QED BY <1>1, <1>3, <1>4, <1>5

\* What becomes of the events on their way.
LEMMA Moves ==
  ASSUME Next
  PROVE  \/ UNCHANGED chan
         \/ chan # <<>> /\ chan' = Tail(chan) /\ UNCHANGED runner
         \/ chan # <<>> /\ chan' = <<Event("marker", 0, <<>>)>> \o Tail(chan) /\ UNCHANGED runner
         \/ PublishStart \/ Flush \/ Discard \/ PublishFinish \/ Ping
<1>1. CASE Runner \/ Ping \/ Lose \/ Truncate
  BY <1>1 DEF Runner, OpenRow, Token, Save, EndTurn, Lose, Truncate, runner
<1>2. CASE Receive
  BY <1>2 DEF Receive, Ignore, Gap, NextDelta, OnStart, OnReset, OnMarker, OnFinish, OnPing,
              Incoming, runner
<1>3. CASE \E k \in 1..MaxTokens : Release(k)
  BY <1>3 DEF Release
<1>4. CASE \E i \in LoadIds : Mount(i) \/ Answer(i) \/ Reload(i) \/ Poll(i)
  BY <1>4 DEF Mount, Answer, Reload, Poll
<1>5. CASE \E i \in LoadIds : LandHistory(i) \/ LandRecovery(i) \/ LandTurn(i) \/ FailLoad(i)
  BY <1>5 DEF LandHistory, LandRecovery, LandTurn, FailLoad
<1> QED BY <1>1, <1>2, <1>3, <1>4, <1>5 DEF Next

\* What is published is true, and new.
Fresh(e) ==
  /\ e \in Events /\ chan' = Append(chan, e) /\ Sent(e, log', seq', stage')
  /\ Numbered(e) => e.seq > seq
  /\ e.kind = "start" => stage # "told" /\ stage' # "told"

LEMMA Published ==
  ASSUME Types, Source, PublishStart \/ Flush \/ Discard \/ PublishFinish \/ Ping
  PROVE  \E e : Fresh(e)
<1>0. /\ seq \in Nat /\ seq + 1 \in Nat /\ Unpublished \in Tokens /\ History(log, seq)
      /\ parts \in Tokens /\ <<>> \in Tokens
      /\ SubSeq(parts, 1, Len(parts) - buf) \o Unpublished = parts
  BY Unflushed, Texts DEF Types, History
<1>1. CASE PublishStart
  <2> DEFINE e == Event("start", 0, <<>>)
  <2>1. e \in Events /\ e.kind = "start" /\ ~e.paced
    BY EventTypes
  <2>2. chan' = Append(chan, e) /\ stage = "opened" /\ stage' = "streaming"
    BY <1>1 DEF PublishStart, Publish
  <2> HIDE DEF e
  <2>3. Fresh(e)
    BY <2>1, <2>2 DEF Fresh, Sent, TrueTo, Numbered
  <2> QED BY <2>3
<1>2. CASE Flush
  <2> DEFINE e == Event("delta", seq + 1, Unpublished)
  <2>1. e \in Events /\ e.kind = "delta" /\ ~e.paced /\ e.seq = seq + 1 /\ e.toks = Unpublished
    BY <1>0, EventTypes
  <2>2. chan' = Append(chan, e) /\ seq' = seq + 1 /\ log' = LogWith(log, seq, parts)
    BY <1>2 DEF Flush, Publish, LogWith
  <2>3. log'[seq + 1] = parts /\ log'[seq] = log[seq]
    BY <1>0, <2>2, Extended
  <2>4. log[seq] \o Unpublished = parts
    BY <1>0 DEF Source, Sourced
  <2> HIDE DEF e
  <2>5. e.seq \in 1..seq' /\ e.seq - 1 = seq /\ e.seq > seq
    <3>1. seq + 1 \in 1..(seq + 1) /\ (seq + 1) - 1 = seq /\ seq + 1 > seq
      BY <1>0
    <3>2. e.seq = seq + 1
      BY <2>1
    <3>3. seq' = seq + 1
      BY <2>2
    <3> QED BY <3>1, <3>2, <3>3
  <2>6. log'[e.seq] = log'[e.seq - 1] \o e.toks
    BY <2>1, <2>3, <2>4, <2>5
  <2>7. Fresh(e)
    BY <2>1, <2>2, <2>5, <2>6 DEF Fresh, Sent, TrueTo, Numbered
  <2> QED BY <2>7
<1>3. CASE Discard
  <2> DEFINE e == Event("reset", seq + 1, <<>>)
  <2>1. e \in Events /\ e.kind = "reset" /\ ~e.paced /\ e.seq = seq + 1
    BY <1>0, EventTypes
  <2>2. chan' = Append(chan, e) /\ seq' = seq + 1 /\ log' = LogWith(log, seq, <<>>)
    BY <1>3 DEF Discard, Publish, LogWith
  <2>3. log'[seq + 1] = <<>>
    BY <1>0, <2>2, Extended
  <2> HIDE DEF e
  <2>5. e.seq \in 1..seq' /\ e.seq > seq
    BY <1>0, <2>1, <2>2
  <2>7. Fresh(e)
    BY <2>1, <2>2, <2>3, <2>5 DEF Fresh, Sent, TrueTo, Numbered
  <2> QED BY <2>7
<1>4. CASE PublishFinish
  <2> DEFINE e == Event("finish", seq, <<>>)
  <2>1. e \in Events /\ e.kind = "finish" /\ ~e.paced
    BY <1>0, EventTypes
  <2>2. chan' = Append(chan, e) /\ stage' = "told"
    BY <1>4 DEF PublishFinish, Publish
  <2> HIDE DEF e
  <2>3. Fresh(e)
    BY <2>1, <2>2 DEF Fresh, Sent, TrueTo, Numbered
  <2> QED BY <2>3
<1>5. CASE Ping
  <2> DEFINE e == Event("ping", 0, <<>>)
  <2>1. e \in Events /\ e.kind = "ping" /\ ~e.paced
    BY EventTypes
  <2>2. chan' = Append(chan, e)
    BY <1>5 DEF Ping, Publish
  <2> HIDE DEF e
  <2>3. Fresh(e)
    BY <2>1, <2>2 DEF Fresh, Sent, TrueTo, Numbered
  <2> QED BY <2>3
<1> QED BY <1>1, <1>2, <1>3, <1>4, <1>5

LEMMA WireStep ==
  ASSUME Types, Source, Wire, Next
  PROVE  Wire'
<1>0. /\ chan \in Seq(Events) /\ Grows(log, seq, log', seq') /\ Wired(chan, log, seq, stage)
      /\ stage = "told" => stage' = "told"
  BY Growing, Ended DEF Types, Wire, runner
<1>1. CASE UNCHANGED chan
  <2>1. Wired(chan, log', seq', stage')
    BY <1>0, WiredGrows
  <2> QED BY <1>1, <2>1 DEF Wire
<1>2. CASE chan # <<>> /\ chan' = Tail(chan) /\ UNCHANGED runner
  <2>1. Wired(Tail(chan), log, seq, stage)
    BY <1>0, <1>2, WiredTail
  <2> QED BY <1>2, <2>1 DEF Wire, runner
<1>3. CASE chan # <<>> /\ chan' = <<Event("marker", 0, <<>>)>> \o Tail(chan) /\ UNCHANGED runner
  <2> DEFINE e == Event("marker", 0, <<>>)
  <2>1. e \in Events /\ e.kind = "marker" /\ ~e.paced
    BY EventTypes
  <2> HIDE DEF e
  <2>2. Wired(<<e>> \o Tail(chan), log, seq, stage)
    BY <1>0, <1>3, <2>1, WiredMark
  <2>3. chan' = <<e>> \o Tail(chan)
    BY <1>3 DEF e
  <2> QED BY <1>3, <2>2, <2>3 DEF Wire, runner
<1>4. CASE PublishStart \/ Flush \/ Discard \/ PublishFinish \/ Ping
  <2>1. PICK e : Fresh(e)
    BY <1>4, Published
  <2>2. Wired(Append(chan, e), log', seq', stage')
    BY <1>0, <2>1, WiredAppend DEF Fresh
  <2> QED BY <2>1, <2>2 DEF Wire, Fresh
<1> QED BY <1>1, <1>2, <1>3, <1>4, Moves

-----------------------------------------------------------------------------
(* What the tab keeps stays older than what travels.                       *)

\* A numbered event on its way is an old one, or newer than the history was.
LEMMA Newer ==
  ASSUME Types, Source, Next
  PROVE  \A x \in Items(chan') : /\ Numbered(x) => x \in Items(chan) \/ x.seq > seq
                                 /\ stage = "told" /\ x.kind = "start" => x \in Items(chan)
<1>0. chan \in Seq(Events)
  BY DEF Types
<1>1. CASE UNCHANGED chan
  BY <1>1
<1>2. CASE chan # <<>> /\ chan' = Tail(chan)
  BY <1>0, <1>2, TailItems
<1>3. CASE chan # <<>> /\ chan' = <<Event("marker", 0, <<>>)>> \o Tail(chan)
  <2> DEFINE e == Event("marker", 0, <<>>)
  <2>1. e \in Events /\ e.kind = "marker"
    BY EventTypes
  <2> HIDE DEF e
  <2>2. chan' = <<e>> \o Tail(chan)
    BY <1>3 DEF e
  <2>3. Items(chan') \subseteq Items(chan) \cup {e}
    BY <1>0, <1>3, <2>1, <2>2, MarkItems
  <2> QED BY <2>1, <2>3 DEF Numbered
<1>4. CASE PublishStart \/ Flush \/ Discard \/ PublishFinish \/ Ping
  <2>1. PICK e : Fresh(e)
    BY <1>4, Published
  <2>2. Items(chan') \subseteq Items(chan) \cup {e}
    BY <1>0, <2>1, AppendItems DEF Fresh
  <2> QED BY <2>1, <2>2 DEF Fresh
<1> QED BY <1>1, <1>2, <1>3, <1>4, Moves

\* The event at the head, and what follows it.
LEMMA HeadFacts ==
  ASSUME Types, Wire, Kept, chan # <<>>
  PROVE  /\ Head(chan) \in Events /\ Head(chan) \in Items(chan)
         /\ Head(chan).seq \in Nat /\ Head(chan).toks \in Tokens
         /\ Tail(chan) \in Seq(Events) /\ Items(Tail(chan)) \subseteq Items(chan)
         /\ Sent(Head(chan), log, seq, stage)
         /\ \A x \in Items(Tail(chan)) : Before(Head(chan), x)
         /\ Numbered(Head(chan)) =>
              /\ Head(chan).seq \in 1..seq
              /\ \A x \in Items(Tail(chan)) : Numbered(x) => Head(chan).seq < x.seq
              /\ \A y \in Items(held) : y.seq < Head(chan).seq
              /\ backlog # NoBacklog => backlog.seq < Head(chan).seq
<1>1. /\ Head(chan) \in Events /\ Head(chan) \in Items(chan)
      /\ Tail(chan) \in Seq(Events) /\ Items(Tail(chan)) \subseteq Items(chan)
  BY TailItems DEF Types
<1>2. /\ Sent(Head(chan), log, seq, stage)
      /\ \A x \in Items(Tail(chan)) : Before(Head(chan), x)
  BY WiredTail DEF Types, Wire
<1>3. ASSUME Numbered(Head(chan))
      PROVE  /\ Head(chan).seq \in 1..seq
             /\ \A x \in Items(Tail(chan)) : Numbered(x) => Head(chan).seq < x.seq
             /\ \A y \in Items(held) : y.seq < Head(chan).seq
             /\ backlog # NoBacklog => backlog.seq < Head(chan).seq
  <2>1. Head(chan).seq \in 1..seq
    BY <1>2, <1>3 DEF Sent, TrueTo, Numbered
  <2>2. \A x \in Items(Tail(chan)) : Numbered(x) => Head(chan).seq < x.seq
    BY <1>2, <1>3 DEF Before
  <2>3. Keeping(held, backlog, cursor, chan, log, seq)
    BY DEF Kept
  <2>4. /\ \A y \in Items(held) : y.seq < Head(chan).seq
        /\ backlog # NoBacklog => backlog.seq < Head(chan).seq
    BY <1>1, <1>3, <2>3 DEF Keeping
  <2> QED BY <2>1, <2>2, <2>4
<1>4. Head(chan).seq \in Nat /\ Head(chan).toks \in Tokens
  BY <1>1 DEF Events
<1> QED BY <1>1, <1>2, <1>3, <1>4

\* A step that leaves the tab's events, backlog and cursor alone, or moves the cursor within
\* the history.
LEMMA KeptQuiet ==
  ASSUME Types, Types', Source, Kept, Next, cursor' \in -1..seq', UNCHANGED backlog,
         Items(held') \subseteq Items(held)
  PROVE  Kept'
<1>1. Grows(log, seq, log', seq') /\ Keeping(held, backlog, cursor, chan, log, seq)
  BY Growing DEF Kept
<1>2. /\ held \in Seq(Events) /\ chan \in Seq(Events) /\ held' \in Seq(Events)
      /\ chan' \in Seq(Events)
  BY DEF Types
<1>3. Keeping(held', backlog, cursor', chan', log', seq')
  BY <1>1, <1>2, Newer, KeepingStep
<1> QED BY <1>3 DEF Kept

LEMMA KeptStep ==
  ASSUME Types, Types', Source, Wire, Kept, Next
  PROVE  Kept'
<1>0. /\ Grows(log, seq, log', seq') /\ Keeping(held, backlog, cursor, chan, log, seq)
      /\ held \in Seq(Events) /\ chan \in Seq(Events) /\ held' \in Seq(Events)
      /\ chan' \in Seq(Events) /\ backlog \in [seq : Nat, toks : Tokens]
      /\ loads \in [LoadIds -> Requests]
  BY Growing DEF Kept, Types
<1>1. seq \in Nat /\ seq' \in Nat /\ seq <= seq' /\ cursor \in -1..seq
  BY <1>0 DEF Grows, History, Keeping
<1>2. \A c \in -1..seq : c \in -1..seq'
  BY <1>1
<1>3. CASE UNCHANGED <<held, backlog, cursor>>
  <2>1. cursor' \in -1..seq'
    BY <1>1, <1>2, <1>3
  <2> QED BY <1>3, <2>1, KeptQuiet
<1>r. ASSUME NEW i \in LoadIds PROVE CursorOf(loads[i].got) \in -1..seq
  <2>1. RowTrue(loads[i].got, log, seq)
    BY DEF Source
  <2>2. loads[i].got.st = "running" => loads[i].got.seq \in -1..seq
    BY <1>1, <2>1 DEF RowTrue
  <2> QED BY <1>1, <2>2 DEF CursorOf
<1>d. ASSUME NEW s \in Tokens \cup {Absent}, NEW c \in -1..seq, Drain(s, c), UNCHANGED backlog,
             UNCHANGED runner
      PROVE  Kept'
  <2>1. c \in Int
    BY <1>1
  <2>2. Items(held') \subseteq Items(held) /\ (s = Absent => cursor' = c)
        /\ (s # Absent => cursor' = Plan(held, c).cur)
    BY <1>0, <1>d, <2>1, Drained
  <2>3. Plan(held, c).cur \in -1..seq
    <3> DEFINE r == Plan(held, c).replay
    <3>1. Plan(held, c) \in Accs /\ Sound(Plan(held, c), c, Items(held))
      BY <1>0, <2>1, PlanSound
    <3>2. r \in Seq(Events)
      BY <3>1 DEF Accs
    <3>3. Len(r) \in Nat
      BY <3>2, LenProperties
    <3>4. /\ Plan(held, c).cur = c + Len(r)
          /\ \A j \in 1..Len(r) : r[j] \in Items(held) /\ r[j].seq = c + j
      BY <3>1 DEF Sound
    <3> HIDE DEF r
    <3>5. CASE Len(r) = 0
      BY <2>1, <3>4, <3>5
    <3>6. CASE Len(r) # 0
      <4>1. Len(r) \in 1..Len(r)
        BY <3>3, <3>6
      <4>2. r[Len(r)] \in Items(held) /\ r[Len(r)].seq = c + Len(r)
        BY <3>4, <4>1
      <4>3. r[Len(r)].seq \in 1..seq
        BY <1>0, <4>2 DEF Keeping, HeldTo
      <4> QED BY <1>1, <3>4, <4>2, <4>3
    <3> QED BY <3>5, <3>6
  <2>4. cursor' \in -1..seq'
    BY <1>2, <2>2, <2>3
  <2> QED BY <1>d, <2>2, <2>4, KeptQuiet
<1>4. ASSUME NEW i \in LoadIds, LandHistory(i) PROVE Kept'
  <2>1. cursor' \in -1..seq' /\ UNCHANGED <<held, backlog>>
    BY <1>2, <1>4, <1>r DEF LandHistory
  <2> QED BY <2>1, KeptQuiet
<1>5. ASSUME NEW i \in LoadIds, LandRecovery(i) PROVE Kept'
  <2>1. Loaded(loads[i].got) \in Tokens \cup {Absent}
    BY <1>0, LoadedTypes, Requested DEF Types
  <2>2. /\ Drain(Loaded(loads[i].got), CursorOf(loads[i].got)) /\ UNCHANGED backlog
        /\ UNCHANGED runner
    BY <1>5 DEF LandRecovery
  <2> QED BY <1>d, <1>r, <2>1, <2>2
<1>6. ASSUME NEW i \in LoadIds, FailLoad(i) PROVE Kept'
  <2>1. /\ UNCHANGED <<shown, cursor, held>> \/ Drain(shown, cursor)
        /\ UNCHANGED backlog /\ UNCHANGED runner
    BY <1>6 DEF FailLoad
  <2>2. shown \in Tokens \cup {Absent}
    BY DEF Types
  <2> QED BY <1>1, <1>3, <1>d, <2>1, <2>2
<1>7. CASE Gap
  <2>1. /\ chan # <<>> /\ chan' = Tail(chan) /\ held' = Holding(held, Head(chan))
        /\ Head(chan).kind = "delta" /\ UNCHANGED <<backlog, cursor, runner>>
    BY <1>7 DEF Gap, Incoming, Hold
  <2> DEFINE e == Head(chan)
  <2>2. /\ e \in Events /\ Sent(e, log, seq, stage) /\ e.seq \in 1..seq
        /\ \A x \in Items(Tail(chan)) : Numbered(x) => e.seq < x.seq
    BY <2>1, HeadFacts DEF Numbered
  <2>3. Items(held') \subseteq Items(held) \cup {e}
    BY <1>0, <2>1, <2>2, HoldingItems
  <2>4. HeldTo(e, log, seq)
    BY <2>1, <2>2 DEF HeldTo, Sent
  <2>5. HeldTo(e, log', seq')
    BY <2>1, <2>4 DEF runner
  <2> HIDE DEF e
  <2>6. /\ \A x \in Items(chan') : Numbered(x) => e.seq < x.seq
        /\ \A x \in Items(chan') : Numbered(x) => x \in Items(chan) \/ x.seq > seq
        /\ cursor \in -1..seq'
    <3>1. chan' = Tail(chan)
      BY <2>1
    <3> QED BY <1>1, <1>2, <2>2, <3>1, Newer
  <2>7. \A y \in Items(held') :
          \/ y \in Items(held)
          \/ HeldTo(y, log', seq') /\ \A x \in Items(chan') : Numbered(x) => y.seq < x.seq
    BY <2>3, <2>5, <2>6
  <2>8. Keeping(held', backlog, cursor, chan', log', seq')
    BY <1>0, <2>6, <2>7, KeepingStep
  <2> QED BY <2>1, <2>8 DEF Kept
<1>8. CASE NextDelta
  <2>1. /\ chan # <<>> /\ chan' = Tail(chan) /\ cursor' = Head(chan).seq
        /\ Head(chan).kind = "delta" /\ UNCHANGED runner
        /\ held' = held \/ held' = Holding(held, Head(chan))
        /\ \/ UNCHANGED backlog
           \/ /\ Paced
              /\ backlog'.seq = IF backlog = NoBacklog THEN Head(chan).seq ELSE backlog.seq
    <3>1. CASE Paced
      <4> DEFINE m == IF backlog = NoBacklog THEN Head(chan).seq ELSE backlog.seq
                 t == backlog.toks \o Head(chan).toks
      <4>1. backlog' = [seq |-> m, toks |-> t]
        BY <1>8, <3>1 DEF NextDelta
      <4>2. backlog'.seq = m
        <5> HIDE DEF m, t
        <5> QED BY <4>1
      <4> QED BY <1>8, <3>1, <4>2 DEF NextDelta, Incoming
    <3>2. CASE ~Paced
      BY <1>8, <3>2 DEF NextDelta, Incoming, Hold
    <3> QED BY <3>1, <3>2
  <2> DEFINE e == Head(chan)
  <2>2. /\ e \in Events /\ Sent(e, log, seq, stage) /\ e.seq \in 1..seq
        /\ \A x \in Items(Tail(chan)) : Numbered(x) => e.seq < x.seq
    BY <2>1, HeadFacts DEF Numbered
  <2>3. Items(held') \subseteq Items(held) \cup {e}
    BY <1>0, <2>1, <2>2, HoldingItems
  <2>4. HeldTo(e, log, seq)
    BY <2>1, <2>2 DEF HeldTo, Sent
  <2>5. HeldTo(e, log', seq') /\ e.seq \in 1..seq' /\ cursor' \in -1..seq'
    BY <1>1, <1>2, <2>1, <2>2, <2>4 DEF runner
  <2>6. backlog' # NoBacklog => \/ backlog # NoBacklog /\ backlog'.seq = backlog.seq
                                \/ backlog'.seq = e.seq
    BY <2>1
  <2>7. chan' = Tail(chan)
    BY <2>1
  <2> HIDE DEF e
  <2>p. /\ \A x \in Items(chan') : Numbered(x) => e.seq < x.seq
        /\ \A x \in Items(chan') : Numbered(x) => x \in Items(chan) \/ x.seq > seq
    BY <2>2, <2>7, Newer
  <2>q. \A y \in Items(held') :
          \/ y \in Items(held)
          \/ HeldTo(y, log', seq') /\ \A x \in Items(chan') : Numbered(x) => y.seq < x.seq
    BY <2>3, <2>5, <2>p
  <2>r. backlog' # NoBacklog =>
          \/ backlog # NoBacklog /\ backlog'.seq = backlog.seq
          \/ /\ backlog'.seq \in 1..seq'
             /\ \A x \in Items(chan') : Numbered(x) => backlog'.seq < x.seq
    BY <2>5, <2>6, <2>p
  <2>8. Keeping(held', backlog', cursor', chan', log', seq')
    BY <1>0, <2>5, <2>p, <2>q, <2>r, KeepingStep
  <2>9. ~Paced => backlog' = NoBacklog
    BY <2>1 DEF Kept
  <2> QED BY <2>8, <2>9 DEF Kept
<1>9. ASSUME NEW k \in 1..MaxTokens, Release(k) PROVE Kept'
  <2> DEFINE e == [kind |-> "delta", seq |-> backlog.seq,
                   toks |-> SubSeq(backlog.toks, 1, k), paced |-> TRUE]
  <2>1. /\ backlog # NoBacklog /\ UNCHANGED <<runner, chan, cursor>>
        /\ held' = held \/ held' = Holding(held, e)
        /\ backlog' = NoBacklog \/ backlog'.seq = backlog.seq
    BY <1>0, <1>9 DEF Release, Hold
  <2>2. backlog.seq \in 1..seq /\ \A x \in Items(chan) : Numbered(x) => backlog.seq < x.seq
    BY <1>0, <2>1 DEF Keeping
  <2>3. e \in Events
    <3>1. k \in 0..Len(backlog.toks)
      BY <1>9 DEF Release
    <3>2. SubSeq(backlog.toks, 1, k) \in Tokens
      BY <1>0, <3>1, Cuts
    <3> QED BY <1>0, <3>2 DEF Events, Kinds
  <2>4. HeldTo(e, log', seq') /\ e.seq = backlog.seq
    BY <2>1, <2>2 DEF HeldTo, runner
  <2> HIDE DEF e
  <2>5. Items(held') \subseteq Items(held) \cup {e}
    BY <1>0, <2>1, <2>3, HoldingItems
  <2>6. cursor' \in -1..seq' /\ chan' = chan
    BY <1>1, <1>2, <2>1
  <2>7. Keeping(held', backlog', cursor', chan', log', seq')
    BY <1>0, <2>1, <2>2, <2>4, <2>5, <2>6, KeepingStep
  <2>8. ~Paced => backlog' = NoBacklog
    BY <2>1 DEF Kept
  <2> QED BY <2>7, <2>8 DEF Kept
<1>10. CASE OnStart
  <2>1. UNCHANGED <<held, backlog>> /\ cursor' \in -1..seq'
    BY <1>1, <1>2, <1>10 DEF OnStart, Baseline
  <2> QED BY <2>1, KeptQuiet
<1>11. CASE OnReset
  <2>1. /\ UNCHANGED <<held, backlog>> /\ cursor' = Head(chan).seq /\ chan # <<>>
        /\ Head(chan).kind = "reset"
    BY <1>11 DEF OnReset, Incoming
  <2>2. Head(chan).seq \in 1..seq
    BY <2>1, HeadFacts DEF Numbered
  <2>3. cursor' \in -1..seq'
    BY <1>1, <2>1, <2>2
  <2> QED BY <2>1, <2>3, KeptQuiet
<1>12. ASSUME NEW i \in LoadIds, OnFinish(i) PROVE Kept'
  <2>1. UNCHANGED backlog /\ cursor' \in -1..seq' /\ held' = <<>>
    BY <1>1, <1>12 DEF OnFinish
  <2>2. Items(<<>>) = {}
    BY DEF Items
  <2> QED BY <2>1, <2>2, KeptQuiet
<1>13. CASE \/ Runner \/ Ping \/ Lose \/ Truncate \/ Ignore \/ OnMarker
            \/ \E i \in LoadIds : \/ OnPing(i) \/ Mount(i) \/ Answer(i) \/ Reload(i) \/ Poll(i)
                                  \/ LandTurn(i)
  <2>1. UNCHANGED <<held, backlog, cursor>>
    <3>1. CASE Runner
      BY <3>1 DEF Runner, OpenRow, PublishStart, Token, Flush, Save, Discard, EndTurn,
                  PublishFinish, tab
    <3>2. CASE Ping \/ Lose \/ Truncate \/ Ignore \/ OnMarker
      BY <3>2 DEF Ping, Lose, Truncate, Ignore, OnMarker, tab
    <3>3. CASE \E i \in LoadIds : OnPing(i) \/ Mount(i) \/ Answer(i)
      BY <3>3 DEF OnPing, Mount, Answer
    <3>4. CASE \E i \in LoadIds : Reload(i) \/ Poll(i) \/ LandTurn(i)
      BY <3>4 DEF Reload, Poll, LandTurn
    <3> QED BY <1>13, <3>1, <3>2, <3>3, <3>4
  <2> QED BY <1>3, <2>1
<1> QED BY <1>4, <1>5, <1>6, <1>7, <1>8, <1>9, <1>10, <1>11, <1>12, <1>13 DEF Next, Receive

-----------------------------------------------------------------------------
(* A clean copy stays exact.                                               *)

\* A step that leaves the copy alone.
LEMMA FitsQuiet ==
  ASSUME Types, Source, Kept, Fits, Next, UNCHANGED <<shown, cursor, backlog>>, clean' => clean,
         \A e \in Items(held') : e \in Items(held) \/ (~e.paced /\ e.seq # cursor + 1)
  PROVE  Fits'
<1>1. Grows(log, seq, log', seq') /\ cursor \in -1..seq
  BY Growing DEF Kept, Keeping
<1>2. stage = "told" => /\ stage' = "told"
                       /\ \A x \in Items(chan') : x.kind = "start" => x \in Items(chan)
  BY Ended, Newer DEF runner
<1>3. ASSUME clean' PROVE Fitting(shown, cursor, held', backlog, log', chan', stage')
  <2>1. Fitting(shown, cursor, held, backlog, log, chan, stage)
    BY <1>3 DEF Fits
  <2> QED BY <1>1, <1>2, <2>1, FittingStep
<1> QED BY <1>3 DEF Fits

\* A load over an empty pacer, with nothing paced held, leaves a copy that fits.
LEMMA CleanLoad ==
  ASSUME Types, Source, NEW i \in LoadIds, CleanCopy(loads[i].got)
  PROVE  /\ loads[i].got.st = "running" /\ backlog = NoBacklog
         /\ \A e \in Items(held) : ~e.paced
         /\ loads[i].got.seq \in 0..seq /\ seq \in Nat
         /\ loads[i].got.parts \in Tokens /\ log[loads[i].got.seq] = loads[i].got.parts
         /\ Loaded(loads[i].got) = loads[i].got.parts
         /\ CursorOf(loads[i].got) = loads[i].got.seq
<1>1. loads[i].got \in Rows /\ cursor \in Int /\ held \in Seq(Events) /\ seq \in Nat
  BY Requested DEF Types, History
<1>2. loads[i].got.st = "running" /\ backlog = NoBacklog /\ \A k \in DOMAIN held : ~held[k].paced
  BY DEF CleanCopy
<1>3. \A e \in Items(held) : ~e.paced
  <2>1. DOMAIN held = 1..Len(held)
    BY <1>1, LenProperties
  <2> QED BY <1>2, <2>1 DEF Items
<1>4. loads[i].got.seq \in 0..seq /\ log[loads[i].got.seq] = loads[i].got.parts
  BY <1>2 DEF Source, RowTrue
<1>5. Loaded(loads[i].got) = loads[i].got.parts /\ CursorOf(loads[i].got) = loads[i].got.seq
  BY <1>1, <1>2, LoadedTypes
<1>6. loads[i].got.parts \in Tokens
  BY <1>1 DEF Rows
<1> QED BY <1>1, <1>2, <1>3, <1>4, <1>5, <1>6

LEMMA FitsLoads ==
  ASSUME Types, Types', Source, Kept, Fits, Next,
         NEW i \in LoadIds, LandHistory(i) \/ LandRecovery(i) \/ LandTurn(i) \/ FailLoad(i)
  PROVE  Fits'
<1>0. /\ held \in Seq(Events) /\ seq \in Nat /\ History(log, seq)
      /\ shown \in Tokens \cup {Absent} /\ cursor \in Int /\ cursor \in -1..seq
      /\ \A e \in Items(held) : HeldTo(e, log, seq)
  BY DEF Types, History, Kept, Keeping
<1>1. CASE LandHistory(i)
  <2>1. ASSUME clean' PROVE Fitting(shown', cursor', held', backlog', log', chan', stage')
    <3> DEFINE r == loads[i].got
    <3>1. /\ CleanCopy(r) /\ shown' = Loaded(r) /\ cursor' = CursorOf(r)
          /\ UNCHANGED <<held, backlog, log, chan, stage>>
      BY <1>1, <2>1 DEF LandHistory, runner
    <3>2. /\ backlog = NoBacklog /\ (\A e \in Items(held) : ~e.paced) /\ r.parts \in Tokens
          /\ log[r.seq] = r.parts /\ Loaded(r) = r.parts /\ CursorOf(r) = r.seq /\ r.seq \in Nat
      BY <1>0, <3>1, CleanLoad
    <3> HIDE DEF r
    <3>3. r.parts \o <<>> = log[r.seq]
      BY <3>2, Cuts
    <3>4. Fitting(r.parts, r.seq, held, NoBacklog, log, chan, stage)
      BY <3>2, <3>3, Texts, FittingCopy
    <3> QED BY <3>1, <3>2, <3>4
  <2> QED BY <2>1 DEF Fits
<1>2. CASE LandRecovery(i)
  <2>1. ASSUME clean' PROVE Fitting(shown', cursor', held', backlog', log', chan', stage')
    <3> DEFINE r == loads[i].got
    <3>1. /\ CleanCopy(r) /\ Drain(Loaded(r), CursorOf(r))
          /\ UNCHANGED <<backlog, log, chan, stage>>
      BY <1>2, <2>1 DEF LandRecovery, runner
    <3>2. /\ backlog = NoBacklog /\ (\A e \in Items(held) : ~e.paced) /\ r.parts \in Tokens
          /\ log[r.seq] = r.parts /\ Loaded(r) = r.parts /\ CursorOf(r) = r.seq
          /\ r.seq \in Nat /\ r.seq <= seq
      BY <1>0, <3>1, CleanLoad
    <3> HIDE DEF r
    <3>3. Drain(r.parts, r.seq) /\ r.seq \in Int /\ r.parts # Absent
      BY <3>1, <3>2, Texts
    <3>4. /\ Items(held') \subseteq Items(held)
          /\ shown' = r.parts \o TextOf(Plan(held, r.seq).replay)
          /\ cursor' = Plan(held, r.seq).cur
      BY <1>0, <3>2, <3>3, Drained
    <3>5. /\ cursor' \in r.seq..seq /\ shown' = log[cursor'] /\ shown' \in Tokens
      BY <1>0, <3>2, <3>4, DrainFits
    <3>6. shown' \o <<>> = log[cursor'] /\ cursor' \in Nat /\ shown' # Absent
      BY <1>0, <3>2, <3>5, Cuts, Texts
    <3>7. Fitting(shown', cursor', held', NoBacklog, log, chan, stage)
      BY <3>2, <3>4, <3>6, FittingCopy
    <3> QED BY <3>1, <3>2, <3>7
  <2> QED BY <2>1 DEF Fits
<1>3. CASE LandTurn(i)
  <2>1. CASE clean' = FALSE
    BY <2>1 DEF Fits
  <2>2. CASE UNCHANGED <<shown, cursor, held, backlog, clean>>
    BY <2>2, FitsQuiet
  <2> QED BY <1>3, <2>1, <2>2 DEF LandTurn
<1>4. CASE FailLoad(i)
  <2>0. UNCHANGED <<backlog, clean, log, chan, stage>>
    BY <1>4 DEF FailLoad, runner
  <2>1. CASE UNCHANGED <<shown, cursor, held>>
    BY <2>0, <2>1, FitsQuiet
  <2>2. CASE Drain(shown, cursor)
    <3>1. /\ Items(held') \subseteq Items(held)
          /\ shown = Absent => shown' = Absent /\ cursor' = cursor
          /\ shown # Absent => /\ shown' = shown \o TextOf(Plan(held, cursor).replay)
                               /\ cursor' = Plan(held, cursor).cur
      BY <1>0, <2>2, Drained
    <3>2. CASE UNCHANGED <<shown, cursor>>
      BY <2>0, <3>1, <3>2, FitsQuiet
    <3>3. ASSUME shown # Absent, \A e \in Items(held) : e.seq # cursor + 1
          PROVE  UNCHANGED <<shown, cursor>>
      <4>1. Plan(held, cursor).cur = cursor /\ TextOf(Plan(held, cursor).replay) = <<>>
        BY <1>0, <3>3, DrainIdle
      <4>2. shown \o <<>> = shown
        BY <1>0, <3>3, Cuts
      <4> QED BY <3>1, <3>3, <4>1, <4>2
    <3>4. ASSUME clean, shown # Absent, \E e \in Items(held) : e.seq = cursor + 1
          PROVE  Fitting(shown', cursor', held', backlog', log', chan', stage')
      <4>1. Fitting(shown, cursor, held, backlog, log, chan, stage)
        BY <3>4 DEF Fits
      <4>2. backlog = NoBacklog /\ \A e \in Items(held) : e.paced => e.seq <= cursor
        BY <3>4, <4>1 DEF Fitting
      <4>3. cursor \in Nat /\ cursor <= seq
        <5>1. PICK e \in Items(held) : e.seq = cursor + 1
          BY <3>4
        <5>2. e.seq \in 1..seq
          BY <1>0 DEF HeldTo
        <5> QED BY <1>0, <5>1, <5>2
      <4>4. shown = log[cursor] /\ shown \in Tokens
        <5>1. shown \o backlog.toks = log[cursor]
          BY <3>4, <4>1, <4>3 DEF Fitting
        <5>2. shown \in Tokens
          BY <1>0, <3>4
        <5>3. shown \o <<>> = shown
          BY <5>2, Cuts
        <5> QED BY <4>2, <5>1, <5>2, <5>3 DEF NoBacklog
      <4>5. cursor' \in cursor..seq /\ shown' = log[cursor'] /\ shown' \in Tokens
        <5>1. \A e \in Items(held) : HeldTo(e, log, seq) /\ (e.paced => e.seq <= cursor)
          BY <1>0, <4>2
        <5>2. /\ Plan(held, cursor).cur \in cursor..seq
              /\ shown \o TextOf(Plan(held, cursor).replay) = log[Plan(held, cursor).cur]
              /\ shown \o TextOf(Plan(held, cursor).replay) \in Tokens
          BY <1>0, <4>3, <4>4, <5>1, DrainFits
        <5> QED BY <3>1, <3>4, <5>2
      <4>6. shown' \o <<>> = log[cursor'] /\ cursor' \in Nat /\ shown' # Absent /\ cursor <= cursor'
        BY <1>0, <4>3, <4>5, Cuts, Texts
      <4>7. \A e \in Items(held') : e.paced => e.seq <= cursor'
        <5> SUFFICES ASSUME NEW e \in Items(held'), e.paced PROVE e.seq <= cursor'
          OBVIOUS
        <5>1. e \in Items(held) /\ e.seq <= cursor /\ e.seq \in 1..seq
          BY <1>0, <3>1, <4>2 DEF HeldTo
        <5> QED BY <1>0, <4>3, <4>6, <5>1
      <4>8. Fitting(shown', cursor', held', NoBacklog, log, chan, stage)
        BY <4>6, <4>7, FittingCopy
      <4> QED BY <2>0, <4>2, <4>8
    <3>5. CASE shown = Absent
      BY <3>1, <3>2, <3>5
    <3>6. CASE shown # Absent /\ \A e \in Items(held) : e.seq # cursor + 1
      BY <3>2, <3>3, <3>6
    <3>7. CASE shown # Absent /\ \E e \in Items(held) : e.seq = cursor + 1
      BY <2>0, <3>4, <3>7 DEF Fits
    <3> QED BY <3>5, <3>6, <3>7
  <2>3. UNCHANGED <<shown, cursor, held>> \/ Drain(shown, cursor)
    BY <1>4 DEF FailLoad
  <2> QED BY <2>1, <2>2, <2>3
<1> QED BY <1>1, <1>2, <1>3, <1>4

LEMMA FitsNextDelta ==
  ASSUME Types, Types', Source, Wire, Kept, Fits, Next, NextDelta
  PROVE  Fits'
<1> DEFINE e == Head(chan)
<1>0. /\ held \in Seq(Events) /\ seq \in Nat /\ cursor \in -1..seq
      /\ shown \in Tokens \cup {Absent} /\ backlog.toks \in Tokens
      /\ \A y \in Items(held) : HeldTo(y, log, seq)
  BY DEF Types, History, Kept, Keeping
<1>1. /\ chan # <<>> /\ cursor' = e.seq /\ e.kind = "delta" /\ UNCHANGED <<runner, clean>>
      /\ Classify(cursor, e.seq) = "apply" /\ chan' = Tail(chan)
  BY DEF NextDelta, Incoming
<1>2. /\ e \in Events /\ Sent(e, log, seq, stage) /\ e.seq \in 1..seq /\ e.toks \in Tokens
      /\ \A y \in Items(held) : y.seq < e.seq
  BY <1>1, HeadFacts DEF Numbered
<1>3. e.seq = cursor + 1 /\ cursor \in Nat /\ e.seq - 1 = cursor /\ cursor' \in Nat
  <2>1. e.seq = cursor + 1
    BY <1>0, <1>1, <1>2 DEF Classify
  <2> QED BY <1>0, <1>1, <1>2, <2>1
<1>4. log[e.seq] = log[cursor] \o e.toks
  BY <1>1, <1>2, <1>3 DEF Sent, TrueTo
<1>5. ASSUME clean PROVE Fitting(shown', cursor', held', backlog', log', chan', stage')
  <2>1. Fitting(shown, cursor, held, backlog, log, chan, stage)
    BY <1>5 DEF Fits
  <2>2. \A y \in Items(held) : y.seq <= cursor' /\ y.seq # cursor' + 1
    <3> SUFFICES ASSUME NEW y \in Items(held) PROVE y.seq <= cursor' /\ y.seq # cursor' + 1
      OBVIOUS
    <3>1. y.seq \in 1..seq /\ y.seq < e.seq
      BY <1>0, <1>2 DEF HeldTo
    <3> QED BY <1>0, <1>1, <1>2, <3>1
  <2>3. ASSUME shown # Absent
        PROVE  (shown \o backlog.toks) \o e.toks = log[cursor'] /\ shown \in Tokens
    <3>1. shown \in Tokens
      BY <1>0, <2>3
    <3>2. shown \o backlog.toks = log[cursor]
      BY <1>3, <2>1, <2>3 DEF Fitting
    <3> HIDE DEF e
    <3>3. log[cursor'] = log[cursor] \o e.toks
      BY <1>1, <1>4
    <3> QED BY <3>1, <3>2, <3>3
  <2>4. CASE Paced
    <3>1. UNCHANGED <<shown, held>>
      BY <2>4 DEF NextDelta
    <3>2. backlog'.toks = backlog.toks \o e.toks
      <4> DEFINE m == IF backlog = NoBacklog THEN Head(chan).seq ELSE backlog.seq
                 t == backlog.toks \o Head(chan).toks
      <4>1. backlog' = [seq |-> m, toks |-> t]
        BY <2>4 DEF NextDelta
      <4>2. backlog'.toks = t
        <5> HIDE DEF m, t
        <5> QED BY <4>1
      <4> QED BY <4>2
    <3> HIDE DEF e
    <3>3. shown # Absent => shown \o backlog'.toks = log[cursor']
      <4> SUFFICES ASSUME shown # Absent PROVE shown \o backlog'.toks = log[cursor']
        OBVIOUS
      <4>1. (shown \o backlog.toks) \o e.toks = shown \o (backlog.toks \o e.toks)
        <5>1. shown \in Tokens /\ backlog.toks \in Tokens /\ e.toks \in Tokens
          BY <1>0, <1>2, <2>3
        <5> QED BY <5>1, Texts
      <4> QED BY <2>3, <3>2, <4>1
    <3>4. ~(cursor' < 0) /\ log' = log
      BY <1>1, <1>3 DEF runner
    <3> QED BY <2>1, <2>2, <3>1, <3>3, <3>4 DEF Fitting
  <2>5. CASE ~Paced /\ shown # Absent
    <3>1. UNCHANGED <<held, backlog>> /\ shown' = shown \o e.toks
      BY <2>5 DEF NextDelta, Present
    <3>2. backlog = NoBacklog
      BY <2>5 DEF Kept
    <3> HIDE DEF e
    <3>3. shown \o <<>> = shown /\ shown' \in Tokens
      BY <1>2, <2>3, <2>5, <3>1, Cuts, Texts
    <3>4. shown' \o <<>> = log[cursor'] /\ shown' # Absent
      <4>1. shown \o e.toks = log[cursor']
        BY <2>3, <2>5, <3>2, <3>3 DEF NoBacklog
      <4> QED BY <3>1, <3>3, <4>1, Cuts, Texts
    <3>5. Fitting(shown', cursor', held, NoBacklog, log, chan', stage)
      BY <1>3, <2>2, <3>4, FittingCopy
    <3> QED BY <1>1, <3>1, <3>2, <3>5 DEF runner
  <2>6. CASE ~Paced /\ shown = Absent
    <3>1. /\ shown' = Absent /\ UNCHANGED backlog /\ held' = Holding(held, e)
      BY <2>6 DEF NextDelta, Present, Hold
    <3>2. Items(held') \subseteq Items(held) \cup {e} /\ ~e.paced
      BY <1>0, <1>2, <3>1, HoldingItems DEF Sent
    <3>3. \A y \in Items(held') : ~y.paced
      BY <2>1, <2>6, <3>2 DEF Fitting
    <3> QED BY <3>1, <3>3 DEF Fitting
  <2> QED BY <2>4, <2>5, <2>6
<1> QED BY <1>1, <1>5 DEF Fits

LEMMA FitsRelease ==
  ASSUME Types, Types', Source, Wire, Kept, Fits, Next, NEW k \in 1..MaxTokens, Release(k)
  PROVE  Fits'
<1> DEFINE u == SubSeq(backlog.toks, 1, k)
           v == SubSeq(backlog.toks, k + 1, Len(backlog.toks))
<1>0. /\ shown \in Tokens \cup {Absent} /\ backlog \in [seq : Nat, toks : Tokens]
      /\ backlog.toks \in Tokens /\ UNCHANGED <<runner, chan, cursor>> /\ backlog # NoBacklog
      /\ k \in 0..Len(backlog.toks)
  BY DEF Types, Release
<1>1. u \in Tokens /\ v \in Tokens /\ u \o v = backlog.toks
  BY <1>0, Cuts
<1>2. CASE shown = Absent
  <2>1. clean' = FALSE
    BY <1>2 DEF Release, Present
  <2> QED BY <2>1 DEF Fits
<1>3. ASSUME shown # Absent, clean
      PROVE  Fitting(shown', cursor', held', backlog', log', chan', stage')
  <2>1. Fitting(shown, cursor, held, backlog, log, chan, stage)
    BY <1>3 DEF Fits
  <2>2. shown' = shown \o u /\ held' = held /\ shown \in Tokens
    BY <1>0, <1>3 DEF Release, Present
  <2>3. backlog'.toks = v
    <3>1. CASE k = Len(backlog.toks)
      <4>1. backlog'.toks = <<>>
        BY <3>1 DEF Release, NoBacklog
      <4>2. v = <<>>
        <5>1. k + 1 \in Int /\ k \in Int /\ k < k + 1
          BY <1>0
        <5> QED BY <3>1, <5>1, SubSeqEmpty
      <4> QED BY <4>1, <4>2
    <3>2. CASE k # Len(backlog.toks)
      <4>1. backlog' = [backlog EXCEPT !.toks = v]
        BY <3>2 DEF Release
      <4> HIDE DEF v
      <4> QED BY <1>0, <4>1
    <3> QED BY <3>1, <3>2
  <2> HIDE DEF u, v
  <2>4. shown' \o backlog'.toks = shown \o backlog.toks
    <3>1. (shown \o u) \o v = shown \o (u \o v)
      BY <1>1, <2>2, Texts
    <3> QED BY <1>1, <2>2, <2>3, <3>1
  <2>5. UNCHANGED <<cursor, held, log, chan, stage>>
    BY <1>0, <2>2 DEF runner
  <2>6. shown' # Absent
    <3>1. shown \o u \in Tokens
      BY <1>1, <2>2, Texts
    <3> QED BY <2>2, <3>1, Texts
  <2> QED BY <1>0, <1>3, <2>1, <2>4, <2>5, <2>6 DEF Fitting
<1>4. clean' => clean
  BY DEF Release
<1> QED BY <1>2, <1>3, <1>4 DEF Fits

LEMMA FitsStart ==
  ASSUME Types, Types', Source, Wire, Kept, Fits, Next, OnStart
  PROVE  Fits'
<1>1. /\ chan # <<>> /\ Head(chan).kind = "start" /\ backlog = NoBacklog /\ chan' = Tail(chan)
      /\ cursor' = Baseline(cursor) /\ UNCHANGED <<runner, held, backlog>>
      /\ shown' = (IF Present THEN shown ELSE <<>>)
      /\ clean' = (clean /\ (Present \/ cursor < 0))
  BY DEF OnStart, Incoming
<1>2. ASSUME clean' PROVE Fitting(shown', cursor', held', backlog', log', chan', stage')
  <2>0. clean /\ (Present \/ cursor < 0)
    BY <1>1, <1>2
  <2>1. Fitting(shown, cursor, held, backlog, log, chan, stage)
    BY <2>0 DEF Fits
  <2>2. CASE Present
    <3>1. Head(chan) \in Items(chan)
      BY <1>1, HeadFacts
    <3>2. ~(cursor < 0)
      BY <1>1, <2>1, <2>2, <3>1 DEF Fitting, Present
    <3>3. UNCHANGED <<shown, cursor>>
      BY <1>1, <2>2, <3>2 DEF Baseline
    <3>4. clean' => clean
      BY <1>1
    <3>5. Fits'
      BY <1>1, <3>3, <3>4, FitsQuiet
    <3> QED BY <1>2, <3>5 DEF Fits
  <2>3. CASE ~Present
    <3>1. cursor' = 0 /\ shown' = <<>> /\ shown = Absent
      BY <1>1, <2>0, <2>3 DEF Baseline, Present
    <3>2. \A e \in Items(held) : ~e.paced
      BY <2>1, <3>1 DEF Fitting
    <3>3. <<>> \o <<>> = log[0]
      BY Texts, Cuts DEF Source, Sourced
    <3>4. Fitting(<<>>, 0, held, NoBacklog, log, chan', stage)
      BY <3>2, <3>3, FittingCopy
    <3> QED BY <1>1, <3>1, <3>4 DEF runner
  <2> QED BY <2>2, <2>3
<1> QED BY <1>2 DEF Fits

LEMMA FitsReset ==
  ASSUME Types, Types', Source, Wire, Kept, Fits, Next, OnReset
  PROVE  Fits'
<1>1. /\ chan # <<>> /\ Head(chan).kind = "reset" /\ backlog = NoBacklog
      /\ cursor' = Head(chan).seq /\ UNCHANGED <<runner, held, backlog>>
      /\ shown' = (IF Present THEN <<>> ELSE shown) /\ clean' = (clean \/ Present)
  BY DEF OnReset, Incoming
<1>2. /\ Head(chan).seq \in Nat /\ log[Head(chan).seq] = <<>>
      /\ \A y \in Items(held) : y.seq < Head(chan).seq
  BY <1>1, HeadFacts DEF Numbered, Sent, TrueTo
<1>3. CASE Present
  <2>1. <<>> \o <<>> = log[Head(chan).seq]
    BY <1>2, Texts, Cuts
  <2>2. \A y \in Items(held) : y.paced => y.seq <= Head(chan).seq
    <3> SUFFICES ASSUME NEW y \in Items(held) PROVE y.seq <= Head(chan).seq
      OBVIOUS
    <3>1. y.seq \in 1..seq /\ y.seq < Head(chan).seq
      BY <1>2 DEF Kept, Keeping, HeldTo
    <3>2. seq \in Nat
      BY DEF Types, History
    <3> QED BY <1>2, <3>1, <3>2
  <2>3. <<>> # Absent
    BY Texts
  <2>4. Fitting(<<>>, Head(chan).seq, held, NoBacklog, log, chan', stage)
    BY <1>2, <2>1, <2>2, <2>3, FittingCopy
  <2> QED BY <1>1, <1>3, <2>4 DEF Fits, runner
<1>4. CASE ~Present
  <2>1. shown' = Absent /\ held' = held /\ (clean' => clean)
    BY <1>1, <1>4 DEF Present
  <2>2. clean => \A e \in Items(held) : ~e.paced
    BY <1>4 DEF Fits, Fitting, Present
  <2> QED BY <2>1, <2>2 DEF Fits, Fitting
<1> QED BY <1>3, <1>4

LEMMA FitsFinish ==
  ASSUME Types, Types', Source, Wire, Kept, Fits, Next, NEW i \in LoadIds, OnFinish(i)
  PROVE  Fits'
<1>1. /\ chan # <<>> /\ Head(chan).kind = "finish" /\ backlog = NoBacklog /\ chan' = Tail(chan)
      /\ cursor' = -1 /\ held' = <<>> /\ UNCHANGED <<runner, shown, backlog, clean>>
  BY DEF OnFinish, Incoming
<1>2. stage = "told" /\ \A x \in Items(Tail(chan)) : x.kind # "start"
  BY <1>1, HeadFacts DEF Sent, Before
<1>3. Items(held') = {}
  BY <1>1 DEF Items
<1>4. ~(cursor' >= 0)
  BY <1>1
<1>5. Fitting(shown', cursor', held', backlog', log', chan', stage')
  BY <1>1, <1>2, <1>3, <1>4 DEF Fitting, runner
<1> QED BY <1>5 DEF Fits

LEMMA FitsStep ==
  ASSUME Types, Types', Source, Wire, Kept, Fits, Next
  PROVE  Fits'
<1>1. CASE Gap
  <2> DEFINE e == Head(chan)
  <2>1. /\ chan # <<>> /\ held' = Holding(held, e) /\ e.kind = "delta"
        /\ Classify(cursor, e.seq) = "reconcile" /\ UNCHANGED <<shown, cursor, backlog, clean>>
    BY <1>1 DEF Gap, Incoming, Hold
  <2>2. e \in Events /\ ~e.paced /\ e.seq \in Nat /\ held \in Seq(Events) /\ cursor \in Int
    BY <2>1, HeadFacts DEF Sent, Types
  <2>3. Items(held') \subseteq Items(held) \cup {e}
    BY <2>1, <2>2, HoldingItems
  <2>4. e.seq # cursor + 1
    BY <2>1, <2>2 DEF Classify
  <2> HIDE DEF e
  <2> QED BY <2>1, <2>2, <2>3, <2>4, FitsQuiet
<1>2. CASE UNCHANGED <<shown, cursor, held, backlog, clean>>
  BY <1>2, FitsQuiet
<1>3. CASE NextDelta \/ OnStart \/ OnReset
  BY <1>3, FitsNextDelta, FitsStart, FitsReset
<1>4. CASE \E i \in LoadIds : OnFinish(i)
  BY <1>4, FitsFinish
<1>5. CASE \E k \in 1..MaxTokens : Release(k)
  BY <1>5, FitsRelease
<1>6. CASE \E i \in LoadIds : LandHistory(i) \/ LandRecovery(i) \/ LandTurn(i) \/ FailLoad(i)
  BY <1>6, FitsLoads
<1>7. CASE \/ Runner \/ Ping \/ Lose \/ Truncate \/ Ignore \/ OnMarker
           \/ \E i \in LoadIds : OnPing(i) \/ Mount(i) \/ Answer(i) \/ Reload(i) \/ Poll(i)
  <2>1. UNCHANGED <<shown, cursor, held, backlog, clean>>
    <3>1. CASE Runner
      BY <3>1 DEF Runner, OpenRow, PublishStart, Token, Flush, Save, Discard, EndTurn,
                  PublishFinish, tab
    <3>2. CASE Ping \/ Lose \/ Truncate \/ Ignore \/ OnMarker
      BY <3>2 DEF Ping, Lose, Truncate, Ignore, OnMarker, tab
    <3>3. CASE \E i \in LoadIds : OnPing(i) \/ Mount(i) \/ Answer(i) \/ Reload(i) \/ Poll(i)
      BY <3>3 DEF OnPing, Mount, Answer, Reload, Poll
    <3> QED BY <1>7, <3>1, <3>2, <3>3
  <2> QED BY <1>2, <2>1
<1> QED BY <1>1, <1>3, <1>4, <1>5, <1>6, <1>7 DEF Next, Receive

-----------------------------------------------------------------------------
(* The theorem.                                                            *)

LEMMA InitInv == Init => Inv
<1> SUFFICES ASSUME Init PROVE Inv
  OBVIOUS
<1>1. Types
  BY StreamAssumption, InitTypes
<1>2. /\ Items(<<>>) = {} /\ Len(<<>>) = 0 /\ 0 \in Nat
  BY DEF Items
<1>3. Source
  <2>1. log[0] = <<>> /\ log[seq] = <<>>
    BY DEF Init
  <2>2. SubSeq(parts, 1, Len(parts) - buf) = <<>>
    <3>1. SubSeq(<<>>, 1, 0 - 0) = <<>>
      BY SubSeqEmpty
    <3> QED BY <1>2, <3>1 DEF Init
  <2>3. row.st # "running" /\ \A i \in LoadIds : loads[i].got.st # "running"
    BY RowTypes DEF Init, Free
  <2> QED BY <2>1, <2>2, <2>3 DEF Source, Sourced, RowTrue, Init
<1>4. Wire
  BY <1>2 DEF Wire, Wired, Init
<1>5. Kept
  BY <1>2 DEF Kept, Keeping, Init
<1>6. Fits
  BY <1>2 DEF Fits, Fitting, Init
<1> QED BY <1>1, <1>3, <1>4, <1>5, <1>6 DEF Inv

LEMMA StepInv ==
  ASSUME ~SaveAhead
  PROVE  Inv /\ [Next]_vars => Inv'
<1> SUFFICES ASSUME Inv, [Next]_vars PROVE Inv'
  OBVIOUS
<1>1. CASE Next
  <2>1. Types /\ Source /\ Wire /\ Kept /\ Fits
    BY DEF Inv
  <2>2. Types'
    <3>1. CASE Runner
      BY <2>1, <3>1, StreamAssumption, TypesRunner
    <3>2. CASE Ping \/ Lose \/ Truncate \/ Receive
      BY <2>1, <3>2, StreamAssumption, TypesWire
    <3>3. CASE \/ \E k \in 1..MaxTokens : Release(k)
               \/ \E i \in LoadIds : Requesting(i)
      BY <2>1, <3>3, StreamAssumption, TypesTab
    <3> QED BY <1>1, <3>1, <3>2, <3>3 DEF Next, Requesting
  <2>3. Source'
    BY <1>1, <2>1, <2>2, StreamAssumption, SourceStep
  <2>4. Wire'
    BY <1>1, <2>1, WireStep
  <2>5. Kept'
    BY <1>1, <2>1, <2>2, KeptStep
  <2>6. Fits'
    BY <1>1, <2>1, <2>2, FitsStep
  <2> QED BY <2>2, <2>3, <2>4, <2>5, <2>6 DEF Inv
<1>2. CASE UNCHANGED vars
  BY <1>2 DEF vars, runner, tab, Inv, Types, Source, Wire, Kept, Fits
<1> QED BY <1>1, <1>2

\* A snapshot saved in step with what is published, the tab shows exactly the reply as of the
\* event its cursor names, whatever is lost, cut, late, reset or fails on the way.
THEOREM ReplyExact ==
  ASSUME ~SaveAhead
  PROVE  Spec => []Exact
<1>1. Inv => Exact
  BY DEF Inv, Fits, Fitting, Exact, Present
<1>2. Inv /\ [Next]_vars => Inv'
  BY StepInv
<1> QED BY <1>1, <1>2, InitInv, PTL DEF Spec
=============================================================================
