----------------------------- MODULE SteersProofs -----------------------------
(***************************************************************************)
(* What is proved of Steers: that no words are said twice, for any number  *)
(* of steers and halves, and that none are lost, for any number of steers  *)
(* and up to two halves.                                                   *)
(***************************************************************************)
EXTENDS Steers, SequenceTheorems, TLAPS

Words == Seq(1..MaxSteers)

\* Steers are numbered as they are accepted: in order, and each once.
Rising(s) == \A i, j \in 1..Len(s) : i < j => s[i] < s[j]

\* All of s was accepted before what follows the first n of t.
Before(s, t, n) == \A i \in 1..Len(s), j \in 1..Len(t) : n < j => s[i] < t[j]

UpTo(s, n) == \A i \in 1..Len(s) : s[i] <= n

-----------------------------------------------------------------------------
(* Sequences of steers.                                                    *)

\* What a cursor has not reached: read by Unread and by CarriedFrom.
LEMMA RestOf ==
  ASSUME NEW s \in Words, NEW n \in Nat
  PROVE  LET t == SubSeq(s, n + 1, Len(s)) IN
         /\ t \in Words
         /\ Len(t) = IF n <= Len(s) THEN Len(s) - n ELSE 0
         /\ \A i \in 1..Len(t) : t[i] = s[n + i] /\ n + i \in 1..Len(s)
<1>1. Len(s) \in Nat
  BY DEF Words
<1>2. \A i \in n + 1..Len(s) : s[i] \in 1..MaxSteers
  <2> SUFFICES ASSUME NEW i \in n + 1..Len(s) PROVE s[i] \in 1..MaxSteers
    OBVIOUS
  <2>1. i \in 1..Len(s)
    BY <1>1
  <2> QED BY <2>1, ElementOfSeq DEF Words
<1> QED BY <1>1, <1>2, SubSeqProperties DEF Words

LEMMA ConcatWords ==
  ASSUME NEW s \in Words, NEW t \in Words
  PROVE  /\ s \o t \in Words
         /\ Len(s \o t) = Len(s) + Len(t)
         /\ Len(s) \in Nat /\ Len(t) \in Nat
         /\ \A i \in 1..Len(s) : (s \o t)[i] = s[i]
         /\ \A i \in 1..Len(t) : (s \o t)[Len(s) + i] = t[i]
         /\ \A i \in 1..Len(s \o t) : \/ i \in 1..Len(s) /\ (s \o t)[i] = s[i]
                                      \/ i - Len(s) \in 1..Len(t) /\ (s \o t)[i] = t[i - Len(s)]
<1>1. Len(s) \in Nat /\ Len(t) \in Nat
  BY DEF Words
<1>2. /\ s \o t \in Words /\ Len(s \o t) = Len(s) + Len(t)
      /\ \A i \in 1..Len(s) + Len(t) : (s \o t)[i] = IF i <= Len(s) THEN s[i] ELSE t[i - Len(s)]
  BY ConcatProperties DEF Words
<1>3. \A i \in 1..Len(s) : (s \o t)[i] = s[i]
  BY <1>1, <1>2
<1>4. \A i \in 1..Len(t) : (s \o t)[Len(s) + i] = t[i]
  BY <1>1, <1>2
<1>5. \A i \in 1..Len(s \o t) : \/ i \in 1..Len(s) /\ (s \o t)[i] = s[i]
                                \/ i - Len(s) \in 1..Len(t) /\ (s \o t)[i] = t[i - Len(s)]
  <2> SUFFICES ASSUME NEW i \in 1..Len(s \o t)
               PROVE  \/ i \in 1..Len(s) /\ (s \o t)[i] = s[i]
                      \/ i - Len(s) \in 1..Len(t) /\ (s \o t)[i] = t[i - Len(s)]
    OBVIOUS
  <2>1. i \in 1..Len(s) + Len(t)
    BY <1>2
  <2>2. CASE i <= Len(s)
    BY <1>1, <1>2, <2>1, <2>2
  <2>3. CASE ~(i <= Len(s))
    BY <1>1, <1>2, <2>1, <2>3
  <2> QED BY <2>2, <2>3
<1> QED BY <1>1, <1>2, <1>3, <1>4, <1>5, Zenon

LEMMA AppendWords ==
  ASSUME NEW s \in Words, NEW e \in 1..MaxSteers
  PROVE  /\ Append(s, e) \in Words
         /\ Len(s) \in Nat /\ Len(Append(s, e)) = Len(s) + 1
         /\ \A i \in 1..Len(s) : Append(s, e)[i] = s[i]
         /\ Append(s, e)[Len(s) + 1] = e
BY AppendProperties, LenProperties DEF Words

LEMMA EmptyWords == <<>> \in Words /\ Len(<<>>) = 0
BY EmptySeq DEF Words

LEMMA WordsValues ==
  ASSUME NEW s \in Words
  PROVE  /\ Len(s) \in Nat /\ DOMAIN s = 1..Len(s)
         /\ \A i \in 1..Len(s) : s[i] \in Nat /\ s[i] \in 1..MaxSteers
BY LenProperties, ElementOfSeq, SteerAssumption DEF Words

LEMMA RisingConcat ==
  ASSUME NEW s \in Words, NEW t \in Words, Rising(s), Rising(t), Before(s, t, 0)
  PROVE  Rising(s \o t)
<1> DEFINE c == s \o t
<1>1. /\ Len(s) \in Nat /\ Len(t) \in Nat /\ Len(c) = Len(s) + Len(t)
      /\ \A i \in 1..Len(c) : \/ i \in 1..Len(s) /\ c[i] = s[i]
                              \/ i - Len(s) \in 1..Len(t) /\ c[i] = t[i - Len(s)]
  BY ConcatWords
<1> HIDE DEF c
<1>2. \A i \in 1..Len(s), j \in 1..Len(t) : s[i] < t[j]
  BY <1>1 DEF Before
<1>3. Rising(c)
  BY <1>1, <1>2 DEF Rising
<1> QED BY <1>3 DEF c

\* s and t were accepted before the rest of u: so was one after the other.
LEMMA BeforeConcat ==
  ASSUME NEW s \in Words, NEW t \in Words, NEW u \in Words, NEW n \in Nat,
         Before(s, u, n), Before(t, u, n)
  PROVE  Before(s \o t, u, n)
<1> DEFINE c == s \o t
<1>1. /\ Len(s) \in Nat /\ Len(t) \in Nat /\ Len(c) = Len(s) + Len(t)
      /\ \A i \in 1..Len(c) : \/ i \in 1..Len(s) /\ c[i] = s[i]
                              \/ i - Len(s) \in 1..Len(t) /\ c[i] = t[i - Len(s)]
  BY ConcatWords
<1> HIDE DEF c
<1>2. Before(c, u, n)
  BY <1>1 DEF Before
<1> QED BY <1>2 DEF c

LEMMA BeforeBoth ==
  ASSUME NEW s \in Words, NEW t \in Words, NEW u \in Words,
         Before(u, s, 0), Before(u, t, 0)
  PROVE  Before(u, s \o t, 0)
<1> DEFINE c == s \o t
<1>1. /\ Len(s) \in Nat /\ Len(t) \in Nat /\ Len(c) = Len(s) + Len(t)
      /\ \A i \in 1..Len(c) : \/ i \in 1..Len(s) /\ c[i] = s[i]
                              \/ i - Len(s) \in 1..Len(t) /\ c[i] = t[i - Len(s)]
  BY ConcatWords
<1> HIDE DEF c
<1>2. Len(u) \in Nat
  BY DEF Words
<1>3. ASSUME NEW i \in 1..Len(u), NEW j \in 1..Len(c) PROVE u[i] < c[j]
  <2>1. CASE j \in 1..Len(s) /\ c[j] = s[j]
    BY <2>1, <1>1 DEF Before
  <2>2. CASE j - Len(s) \in 1..Len(t) /\ c[j] = t[j - Len(s)]
    <3>1. PICK k \in 1..Len(t) : c[j] = t[k]
      BY <2>2
    <3> QED BY <3>1, <1>1 DEF Before
  <2> QED BY <1>1, <2>1, <2>2
<1> QED BY <1>3 DEF c, Before

LEMMA UpToConcat ==
  ASSUME NEW s \in Words, NEW t \in Words, NEW n \in Nat, UpTo(s, n), UpTo(t, n)
  PROVE  UpTo(s \o t, n)
<1> DEFINE c == s \o t
<1>1. /\ Len(s) \in Nat /\ Len(t) \in Nat /\ Len(c) = Len(s) + Len(t)
      /\ \A i \in 1..Len(c) : \/ i \in 1..Len(s) /\ c[i] = s[i]
                              \/ i - Len(s) \in 1..Len(t) /\ c[i] = t[i - Len(s)]
  BY ConcatWords
<1> HIDE DEF c
<1>2. UpTo(c, n)
  BY <1>1 DEF UpTo
<1> QED BY <1>2 DEF c

\* The rest of a rising sequence rises, and comes after all that came before it.
LEMMA RestRises ==
  ASSUME NEW s \in Words, NEW u \in Words, NEW n \in Nat, NEW m \in Nat,
         Rising(s), UpTo(s, m)
  PROVE  LET t == SubSeq(s, n + 1, Len(s)) IN
         /\ Rising(t) /\ UpTo(t, m)
         /\ Before(u, s, n) => Before(u, t, 0)
         /\ Before(s, u, 0) => Before(t, u, 0)
<1> DEFINE t == SubSeq(s, n + 1, Len(s))
<1>1. /\ t \in Words /\ Len(t) = (IF n <= Len(s) THEN Len(s) - n ELSE 0)
      /\ \A i \in 1..Len(t) : t[i] = s[n + i] /\ n + i \in 1..Len(s)
  BY RestOf
<1> HIDE DEF t
<1>2. Len(t) \in Nat /\ Len(s) \in Nat /\ Len(u) \in Nat
  BY <1>1, WordsValues
<1>3. Rising(t) /\ UpTo(t, m)
  BY <1>1, <1>2 DEF Rising, UpTo
<1>4. Before(u, s, n) => Before(u, t, 0)
  BY <1>1, <1>2 DEF Before
<1>5. Before(s, u, 0) => Before(t, u, 0)
  BY <1>1, <1>2 DEF Before
<1> QED BY <1>3, <1>4, <1>5 DEF t

\* A steer newly accepted comes after all the earlier ones.
LEMMA AppendKeeps ==
  ASSUME NEW s \in Words, NEW u \in Words, NEW n \in Nat, NEW e \in 1..MaxSteers,
         UpTo(s, e - 1), UpTo(u, e - 1)
  PROVE  /\ Rising(s) => Rising(Append(s, e))
         /\ UpTo(Append(s, e), e)
         /\ Before(u, s, n) => Before(u, Append(s, e), n)
<1>1. \A i \in 1..Len(Append(s, e)) : i \in 1..Len(s) \/ i = Len(s) + 1
  BY AppendWords
<1>2. \A i \in 1..Len(s) : s[i] \in Nat /\ s[i] < e
  BY WordsValues DEF UpTo
<1>3. \A i \in 1..Len(u) : u[i] \in Nat /\ u[i] < e
  BY WordsValues DEF UpTo
<1>4. Rising(s) => Rising(Append(s, e))
  BY <1>1, <1>2, AppendWords DEF Rising
<1>5. UpTo(Append(s, e), e)
  BY <1>1, <1>2, AppendWords DEF UpTo
<1>6. Before(u, s, n) => Before(u, Append(s, e), n)
  BY <1>1, <1>3, AppendWords DEF Before
<1> QED BY <1>4, <1>5, <1>6
-----------------------------------------------------------------------------
(* Said once.                                                              *)

Fits == /\ \A h \in Halves : Len(steers[h]) <= PerTurn
        /\ read <= Len(steers[half])

\* Every column rises, and comes after the columns of the earlier halves.
Columns == \A h \in Halves :
              /\ Rising(steers[h]) /\ UpTo(steers[h], accepted)
              /\ h > half => steers[h] = <<>>
              /\ \A g \in 1..h - 1 : Before(steers[g], steers[h], 0)

\* What the runner told the model, what it carries and what it has not read follow one
\* another; the cursor never runs ahead of what was told.
Told == /\ Rising(consumed) /\ UpTo(consumed, accepted)
        /\ Rising(carried) /\ UpTo(carried, accepted)
        /\ Before(consumed, carried, 0)
        /\ Before(consumed, steers[half], read) /\ Before(carried, steers[half], read)
        /\ read <= Len(consumed)
        /\ pc = "setup" => consumed = <<>> /\ carried = <<>> /\ read = 0

\* The record of the reply comes before all that a continuation would take over.
Recorded == /\ Rising(meta.steers) /\ UpTo(meta.steers, accepted)
            /\ meta.task <= half
            /\ pc = "setup" /\ half # 1 => meta.task < half
            /\ Before(meta.steers, steers[meta.task], Len(meta.steers))
            /\ \A h \in Halves : h > meta.task => Before(meta.steers, steers[h], 0)

\* Between the commit and the late message the record is what was told.
Settled == /\ pc \in {"publish", "keep", "point", "answer"} =>
                 status # "running" /\ meta.status = outcome /\ outcome \in Ends \cup {"awaiting"}
           /\ pc \in {"publish", "keep"} => meta.steers = consumed
           /\ pc \in {"keep", "point", "answer"} => outcome # "awaiting"

\* The late message is written once, after everything told and recorded.
Written == kept # <<>> =>
              /\ pc \in {"point", "answer", "off"} /\ status # "running" /\ meta.status \in Ends
              /\ Rising(kept)
              /\ Before(consumed, kept, 0) /\ Before(meta.steers, kept, 0)

OnceInv == TypeOK /\ Fits /\ Columns /\ Told /\ Recorded /\ Settled /\ Written
LEMMA Sizes ==
  /\ MaxSteers \in Nat /\ PerTurn \in Nat /\ PerTurn >= 1 /\ MaxHalves \in Nat
  /\ Halves \subseteq Nat /\ 1 \in Halves
  /\ \A h \in Halves : h < MaxHalves => h + 1 \in Halves
<1>1. PerTurn \in Nat \ {0} /\ MaxHalves \in Nat \ {0} /\ MaxSteers \in Nat
  BY SteerAssumption, Zenon
<1>2. PerTurn >= 1 /\ MaxHalves >= 1 /\ PerTurn \in Nat /\ MaxHalves \in Nat
  BY <1>1
<1>3. Halves \subseteq Nat /\ 1 \in Halves
  BY <1>2 DEF Halves
<1>4. \A h \in Halves : h < MaxHalves => h + 1 \in Halves
  BY <1>2 DEF Halves
<1> QED BY <1>1, <1>2, <1>3, <1>4

LEMMA Values ==
  ASSUME TypeOK
  PROVE  /\ consumed \in Words /\ carried \in Words /\ kept \in Words /\ meta.steers \in Words
         /\ \A h \in Halves : steers[h] \in Words
         /\ read \in Nat /\ accepted \in Nat /\ accepted <= MaxSteers
         /\ half \in Nat /\ half \in Halves /\ meta.task \in Halves /\ meta.task \in Nat
         /\ Halves \subseteq Nat /\ 1 \in Halves
         /\ Unread \in Words /\ steers[half] \in Words
<1>1. /\ consumed \in Words /\ carried \in Words /\ kept \in Words
      /\ \A h \in Halves : steers[h] \in Words
  BY DEF TypeOK, Words
<1>2. meta.steers \in Words /\ meta.task \in Halves
  BY DEF TypeOK, Words
<1>3. /\ read \in Nat /\ accepted \in Nat /\ accepted <= MaxSteers
      /\ half \in Halves /\ half \in Nat
  <2>1. read \in 0..PerTurn /\ accepted \in 0..MaxSteers /\ half \in Halves
    BY DEF TypeOK
  <2> QED BY <2>1, Sizes
<1>4. SubSeq(steers[half], read + 1, Len(steers[half])) \in Words
  BY <1>1, <1>3, RestOf
<1>5. Unread \in Words
  BY <1>1, <1>4, ConcatWords DEF Unread
<1>6. meta.task \in Nat
  BY <1>2, Sizes
<1> QED BY <1>1, <1>2, <1>3, <1>5, <1>6, Sizes

LEMMA InitOnceInv == Init => OnceInv
<1> SUFFICES ASSUME Init PROVE OnceInv
  OBVIOUS
<1>1. <<>> \in Seq(1..MaxSteers) /\ Len(<<>>) = 0
  BY EmptyWords DEF Words
<1>2. /\ 1 \in Halves /\ Halves \subseteq Nat
      /\ \A h \in Halves : steers[h] = <<>>
  BY Sizes DEF Init
<1>3. TypeOK
  <2>1. meta \in [task : Halves, steers : Seq(1..MaxSteers),
                status : {"running"} \cup Ends \cup {"awaiting"}]
    BY <1>1, <1>2 DEF Init
  <2>2. steers \in [Halves -> Seq(1..MaxSteers)]
    BY <1>1 DEF Init
  <2>3. accepted \in 0..MaxSteers /\ read \in 0..PerTurn /\ half \in Halves
    <3>1. 0 \in 0..MaxSteers /\ 0 \in 0..PerTurn
      BY Sizes
    <3> QED BY <3>1, Sizes, Zenon DEF Init
  <2>4. carried \in Seq(1..MaxSteers) /\ consumed \in Seq(1..MaxSteers) /\ kept \in Seq(1..MaxSteers)
    BY <1>1 DEF Init
  <2> QED BY <2>1, <2>2, <2>3, <2>4 DEF Init, TypeOK
<1>4. Fits /\ Columns
  <2>1. \A h \in Halves : Rising(steers[h]) /\ UpTo(steers[h], accepted)
    BY <1>1, <1>2 DEF Rising, UpTo
  <2>2. \A g, h \in Halves : Before(steers[g], steers[h], 0)
    BY <1>1, <1>2 DEF Before
  <2>3. \A h \in Halves : \A g \in 1..h - 1 : g \in Halves
    BY Sizes DEF Halves
  <2>4. half = 1 /\ read = 0
    BY DEF Init
  <2>5. Fits
    BY <1>1, <1>2, <2>4, Sizes DEF Fits
  <2>6. Columns
    BY <1>2, <2>1, <2>2, <2>3 DEF Columns
  <2> QED BY <2>5, <2>6
<1>5. Told /\ Recorded
  <2>1. \A n : Rising(<<>>) /\ UpTo(<<>>, n)
    BY <1>1 DEF Rising, UpTo
  <2>2. \A t, n : Before(<<>>, t, n)
    BY <1>1 DEF Before
  <2>3. meta.task = 1 /\ meta.steers = <<>>
    BY DEF Init
  <2>4. consumed = <<>> /\ carried = <<>> /\ read = 0 /\ half = 1
    BY DEF Init
  <2>5. Told
    BY <1>1, <2>1, <2>2, <2>4 DEF Told
  <2>6. Recorded
    BY <2>1, <2>2, <2>3, <2>4 DEF Recorded
  <2> QED BY <2>5, <2>6
<1>6. Settled /\ Written
  BY DEF Init, Settled, Written
<1> QED BY <1>3, <1>4, <1>5, <1>6 DEF OnceInv

LEMMA StepTypeOK == TypeOK /\ Fits /\ [Next]_vars => TypeOK' /\ Fits'
<1> SUFFICES ASSUME TypeOK, Fits, [Next]_vars PROVE TypeOK' /\ Fits'
  OBVIOUS
<1>a. /\ consumed \in Words /\ carried \in Words /\ kept \in Words /\ meta.steers \in Words
      /\ \A h \in Halves : steers[h] \in Words
      /\ read \in Nat /\ accepted \in Nat /\ accepted <= MaxSteers
      /\ half \in Nat /\ half \in Halves /\ meta.task \in Halves
      /\ Unread \in Words /\ <<>> \in Words
  BY Values, EmptyWords
<1> DEFINE Metas == [task : Halves, steers : Seq(1..MaxSteers), status : {"running"} \cup Ends \cup {"awaiting"}]
<1>b. \A h \in Halves : Len(steers[h]) \in Nat /\ Len(steers[h]) <= PerTurn
  BY <1>a, WordsValues DEF Fits
<1>c. Unsaved \subseteq 1..MaxSteers
  BY <1>a, Sizes DEF Unsaved
<1> USE DEF Words
<1>1. CASE AppendSteer
  <2>1. accepted + 1 \in 1..MaxSteers
    BY <1>1, <1>a, Sizes DEF AppendSteer
  <2> DEFINE s == Append(steers[half], accepted + 1)
  <2>2. s \in Words /\ Len(s) = Len(steers[half]) + 1
    BY <1>a, <2>1, AppendWords
  <2> HIDE DEF s
  <2>3. steers' = [steers EXCEPT ![half] = s]
    BY <1>1 DEF AppendSteer, s
  <2>4. steers' \in [Halves -> Seq(1..MaxSteers)]
    BY <2>2, <2>3 DEF TypeOK
  <2>5. TypeOK'
    <3>1. accepted' \in 0..MaxSteers
      BY <1>1, <2>1, Sizes DEF AppendSteer
    <3> QED BY <1>1, <2>4, <3>1 DEF AppendSteer, TypeOK
  <2>6. Len(steers[half]) < PerTurn /\ PerTurn \in Nat
    BY <1>1, Sizes DEF AppendSteer
  <2>7. \A h \in Halves : steers'[h] = IF h = half THEN s ELSE steers[h]
    BY <2>3 DEF TypeOK
  <2>8. Fits'
    BY <1>1, <1>a, <1>b, <2>2, <2>6, <2>7 DEF AppendSteer, Fits
  <2> QED BY <2>5, <2>8
<1>2. CASE SetUp
  <2>1. CarriedFrom(meta) \in Words
    BY <1>a, RestOf, WordsValues DEF CarriedFrom
  <2> QED BY <1>2, <1>a, <2>1 DEF SetUp, TypeOK, Fits
<1>3. CASE PrepareStep
  <2>1. consumed \o Unread \in Words
    BY <1>a, ConcatWords
  <2>2. Len(steers[half]) \in 0..PerTurn
    BY <1>a, <1>b, Sizes
  <2>3. TypeOK'
    BY <1>3, <1>a, <2>1, <2>2 DEF PrepareStep, TypeOK
  <2>4. read' <= Len(steers'[half']) /\ steers' = steers
    BY <1>3, <2>2 DEF PrepareStep
  <2> QED BY <2>3, <2>4 DEF Fits
<1>4. CASE SaveSnapshot
  <2>1. meta' \in Metas
    BY <1>4, <1>a DEF SaveSnapshot
  <2> QED BY <1>4, <2>1 DEF SaveSnapshot, TypeOK, Fits
<1>5. ASSUME NEW o \in Ends \cup {"awaiting"}, Commit(o) PROVE TypeOK' /\ Fits'
  <2>1. meta' \in Metas
    <3>1. meta \in Metas
      BY DEF TypeOK
    <3>2. [task |-> half, steers |-> consumed, status |-> o] \in Metas
      BY <1>a
    <3> QED BY <1>5, <3>1, <3>2 DEF Commit
  <2>2. status' \in {"running"} \cup Ends
    BY <1>5 DEF Commit, TypeOK, Ends
  <2> QED BY <1>5, <2>1, <2>2 DEF Commit, TypeOK, Fits
<1>6. CASE PublishFinish
  BY <1>6 DEF PublishFinish, TypeOK, Fits
<1>7. CASE Keep
  <2>1. kept \o Unread \in Words
    BY <1>a, ConcatWords
  <2> QED BY <1>7, <2>1 DEF Keep, TypeOK, Fits
<1>8. CASE Point
  BY <1>8 DEF Point, TypeOK, Fits
<1>9. ASSUME NEW admitted \in BOOLEAN, QueueFollowUp(admitted) PROVE TypeOK' /\ Fits'
  BY <1>9 DEF QueueFollowUp, TypeOK, Fits
<1>10. CASE Continue
  <2>1. half + 1 \in Halves
    BY <1>10, <1>a, Sizes DEF Continue
  <2>2. 0 \in 0..PerTurn
    BY Sizes
  <2>3. TypeOK'
    BY <1>10, <1>a, <2>1, <2>2 DEF Continue, TypeOK
  <2>4. read' = 0 /\ steers' = steers /\ half' \in Halves
    BY <1>10, <2>1 DEF Continue
  <2>5. 0 <= Len(steers[half'])
    BY <1>b, <2>4
  <2> QED BY <2>3, <2>4, <2>5 DEF Fits
<1>11. CASE GivenUp
  <2>1. meta' \in Metas
    BY <1>11, <1>a DEF GivenUp, TypeOK, Ends
  <2> QED BY <1>11, <1>c, <2>1 DEF GivenUp, TypeOK, Fits
<1>12. CASE SendInsert
  BY <1>12 DEF SendInsert, TypeOK, Fits
<1>13. CASE SendPoint
  BY <1>13 DEF SendPoint, TypeOK, Fits
<1>14. CASE Crash
  BY <1>14, <1>c DEF Crash, TypeOK, Fits
<1>15. CASE Reap
  <2>1. meta' \in Metas
    BY <1>15, <1>a DEF Reap, TypeOK, Ends
  <2> QED BY <1>15, <1>c, <2>1 DEF Reap, TypeOK, Fits, Ends
<1>16. CASE UNCHANGED vars
  <2>1. TypeOK'
    BY <1>16 DEF vars, TypeOK
  <2>2. Fits'
    BY <1>16 DEF vars, Fits
  <2> QED BY <2>1, <2>2
<1> QED BY <1>1, <1>2, <1>3, <1>4, <1>5, <1>6, <1>7, <1>8, <1>9, <1>10, <1>11, <1>12, <1>13,
           <1>14, <1>15, <1>16 DEF Next
\* What a step would fold in now: all later than what was told, and past the cursor.
LEMMA UnreadRises ==
  ASSUME TypeOK, Columns, Told
  PROVE  /\ Rising(Unread) /\ UpTo(Unread, accepted)
         /\ Before(consumed, Unread, 0)
         /\ Len(Unread) \in Nat /\ Len(Unread) >= Len(steers[half]) - read
<1>a. /\ consumed \in Words /\ carried \in Words /\ steers[half] \in Words
      /\ read \in Nat /\ accepted \in Nat /\ half \in Halves
  BY Values
<1> DEFINE t == SubSeq(steers[half], read + 1, Len(steers[half]))
<1>1. /\ t \in Words
      /\ Len(t) = IF read <= Len(steers[half]) THEN Len(steers[half]) - read ELSE 0
  BY <1>a, RestOf
<1>2. Rising(t) /\ UpTo(t, accepted) /\ Before(consumed, t, 0) /\ Before(carried, t, 0)
  BY <1>a, RestRises DEF Columns, Told
<1>3. Unread = carried \o t
  BY DEF Unread
<1> HIDE DEF t
<1>4. Rising(Unread) /\ UpTo(Unread, accepted)
  BY <1>a, <1>1, <1>2, <1>3, RisingConcat, UpToConcat DEF Told
<1>5. Before(consumed, Unread, 0)
  BY <1>a, <1>1, <1>2, <1>3, BeforeBoth DEF Told
<1>6. Len(Unread) = Len(carried) + Len(t) /\ Len(carried) \in Nat /\ Len(t) \in Nat
  BY <1>a, <1>1, <1>3, ConcatWords
<1>7. Len(steers[half]) \in Nat
  BY <1>a, WordsValues
<1> QED BY <1>1, <1>4, <1>5, <1>6, <1>7, <1>a

LEMMA Nothing ==
  /\ \A n : Rising(<<>>) /\ UpTo(<<>>, n)
  /\ \A t, n : Before(<<>>, t, n) /\ Before(t, <<>>, n)
BY EmptyWords DEF Rising, UpTo, Before

LEMMA UpToLater ==
  ASSUME NEW s \in Words, NEW n \in Nat, UpTo(s, n)
  PROVE  UpTo(s, n + 1)
BY WordsValues DEF UpTo

LEMMA AppendOnce ==
  ASSUME OnceInv, AppendSteer
  PROVE  Columns' /\ Told' /\ Recorded' /\ Settled' /\ Written'
<1>a. /\ consumed \in Words /\ carried \in Words /\ meta.steers \in Words
      /\ \A h \in Halves : steers[h] \in Words
      /\ read \in Nat /\ accepted \in Nat /\ half \in Nat /\ half \in Halves /\ meta.task \in Halves
      /\ Halves \subseteq Nat
  BY Values DEF OnceInv
<1>b. Columns /\ Told /\ Recorded /\ Settled /\ Written
  BY DEF OnceInv
<1>c. /\ accepted' = accepted + 1
      /\ UNCHANGED <<half, status, pc, outcome, read, carried, consumed, meta, kept>>
  BY DEF AppendSteer
<1>d. accepted + 1 \in 1..MaxSteers /\ (accepted + 1) - 1 = accepted
  BY <1>a, Sizes DEF AppendSteer
<1> DEFINE s == Append(steers[half], accepted + 1)
<1>e. \A h \in Halves : steers'[h] = IF h = half THEN s ELSE steers[h]
  BY DEF AppendSteer, OnceInv, TypeOK
<1>1. Rising(s) /\ UpTo(s, accepted + 1)
  BY <1>a, <1>b, <1>d, AppendKeeps DEF Columns
<1>2. ASSUME NEW u \in Words, NEW n \in Nat, UpTo(u, accepted), Before(u, steers[half], n)
      PROVE  Before(u, s, n)
  BY <1>2, <1>a, <1>b, <1>d, AppendKeeps DEF Columns
<1> HIDE DEF s
<1>3. \A g \in Halves : g < half => Before(steers[g], s, 0)
  <2> SUFFICES ASSUME NEW g \in Halves, g < half PROVE Before(steers[g], s, 0)
    OBVIOUS
  <2>1. g \in 1..half - 1
    BY <1>a DEF Halves
  <2> QED BY <2>1, <1>2, <1>a, <1>b DEF Columns
<1>4. Columns'
  <2> SUFFICES ASSUME NEW h \in Halves
               PROVE  /\ Rising(steers'[h]) /\ UpTo(steers'[h], accepted + 1)
                      /\ h > half => steers'[h] = <<>>
                      /\ \A g \in 1..h - 1 : Before(steers'[g], steers'[h], 0)
    BY <1>c DEF Columns
  <2>1. h \in Nat /\ \A g \in 1..h - 1 : g \in Halves /\ g < h /\ g # h
    <3>1. h \in 1..MaxHalves
      BY DEF Halves
    <3> QED BY <3>1, Sizes DEF Halves
  <2>2. CASE h = half
    BY <2>1, <2>2, <1>1, <1>3, <1>a, <1>e
  <2>3. CASE h # half
    <3>1. steers'[h] = steers[h] /\ Rising(steers[h]) /\ UpTo(steers[h], accepted + 1)
      BY <2>3, <1>a, <1>b, <1>e, UpToLater DEF Columns
    <3>2. h > half => steers[h] = <<>>
      BY <1>b DEF Columns
    <3>3. ASSUME NEW g \in 1..h - 1 PROVE Before(steers'[g], steers[h], 0)
      <4>1. CASE g = half
        BY <4>1, <3>2, <2>1, <1>a, Nothing
      <4>2. CASE g # half
        BY <4>2, <2>1, <1>b, <1>e DEF Columns
      <4> QED BY <4>1, <4>2
    <3> QED BY <3>1, <3>2, <3>3
  <2> QED BY <2>2, <2>3
<1>5. Told'
  <2>1. UpTo(consumed, accepted + 1) /\ UpTo(carried, accepted + 1)
    BY <1>a, <1>b, UpToLater DEF Told
  <2>2. Before(consumed, s, read) /\ Before(carried, s, read)
    BY <1>2, <1>a, <1>b DEF Told
  <2> QED BY <2>1, <2>2, <1>a, <1>b, <1>c, <1>e DEF Told
<1>6. Recorded'
  <2>1. UpTo(meta.steers, accepted + 1)
    BY <1>a, <1>b, UpToLater DEF Recorded
  <2>2. Len(meta.steers) \in Nat
    BY <1>a, WordsValues
  <2>3. Before(meta.steers, steers'[meta.task], Len(meta.steers))
    BY <1>2, <1>a, <1>b, <1>e, <2>2 DEF Recorded
  <2>4. \A h \in Halves : h > meta.task => Before(meta.steers, steers'[h], 0)
    BY <1>2, <1>a, <1>b, <1>e DEF Recorded
  <2> QED BY <2>1, <2>3, <2>4, <1>b, <1>c DEF Recorded
<1>7. Settled' /\ Written'
  BY <1>b, <1>c DEF Settled, Written
<1> QED BY <1>4, <1>5, <1>6, <1>7

LEMMA SetUpOnce ==
  ASSUME OnceInv, SetUp
  PROVE  Columns' /\ Told' /\ Recorded' /\ Settled' /\ Written'
<1>a. /\ consumed \in Words /\ carried \in Words /\ meta.steers \in Words
      /\ \A h \in Halves : steers[h] \in Words
      /\ accepted \in Nat /\ half \in Nat /\ half \in Halves
      /\ meta.task \in Halves /\ meta.task \in Nat
  BY Values DEF OnceInv
<1>b. Columns /\ Told /\ Recorded /\ Settled /\ Written
  BY DEF OnceInv
<1>c. /\ pc = "setup" /\ pc' = "ready" /\ read = 0
      /\ UNCHANGED <<accepted, half, steers, status, outcome, read, meta, kept>>
  BY <1>b DEF SetUp, Told
<1>1. Told'
  <2>1. CASE half = 1
    BY <2>1, <1>b, <1>c DEF SetUp, Told
  <2>2. CASE half # 1
    <3> DEFINE t == CarriedFrom(meta)
               n == Len(meta.steers)
    <3>1. consumed' = meta.steers /\ carried' = t
      BY <2>2 DEF SetUp
    <3>2. n \in Nat
      BY <1>a, WordsValues
    <3>3. meta.task < half
      BY <2>2, <1>b, <1>c DEF Recorded
    <3>4. meta.task \in 1..half - 1
      BY <3>3, <1>a DEF Halves
    <3>5. /\ Rising(steers[meta.task]) /\ UpTo(steers[meta.task], accepted)
          /\ Before(steers[meta.task], steers[half], 0)
      BY <3>4, <1>a, <1>b DEF Columns
    <3>6. /\ Rising(meta.steers) /\ UpTo(meta.steers, accepted)
          /\ Before(meta.steers, steers[meta.task], n) /\ Before(meta.steers, steers[half], 0)
      BY <3>3, <1>a, <1>b DEF Recorded
    <3>7. Rising(t) /\ UpTo(t, accepted)
      BY <3>2, <3>5, <1>a, RestRises DEF CarriedFrom
    <3>8. Before(meta.steers, t, 0)
      BY <3>2, <3>5, <3>6, <1>a, RestRises DEF CarriedFrom
    <3>9. Before(t, steers[half], 0)
      BY <3>2, <3>5, <1>a, RestRises DEF CarriedFrom
    <3> HIDE DEF t
    <3>10. 0 <= n
      BY <3>2
    <3> QED BY <3>1, <3>6, <3>7, <3>8, <3>9, <3>10, <1>c DEF Told
  <2> QED BY <2>1, <2>2
<1>2. Columns' /\ Recorded'
  BY <1>b, <1>c DEF Columns, Recorded
<1>3. Settled' /\ Written'
  BY <1>b, <1>c DEF Settled, Written
<1> QED BY <1>1, <1>2, <1>3

LEMMA PrepareOnce ==
  ASSUME OnceInv, PrepareStep
  PROVE  Columns' /\ Told' /\ Recorded' /\ Settled' /\ Written'
<1>a. /\ consumed \in Words /\ Unread \in Words /\ steers[half] \in Words
      /\ read \in Nat /\ accepted \in Nat
  BY Values DEF OnceInv
<1>b. TypeOK /\ Columns /\ Told /\ Recorded /\ Settled /\ Written
  BY DEF OnceInv
<1>c. /\ pc' = "streaming" /\ consumed' = consumed \o Unread /\ carried' = <<>>
      /\ read' = Len(steers[half])
      /\ UNCHANGED <<accepted, half, steers, status, outcome, meta, kept>>
  BY DEF PrepareStep
<1>1. /\ Rising(Unread) /\ UpTo(Unread, accepted) /\ Before(consumed, Unread, 0)
      /\ Len(Unread) \in Nat /\ Len(Unread) >= Len(steers[half]) - read
  BY <1>b, UnreadRises
<1>2. Rising(consumed \o Unread) /\ UpTo(consumed \o Unread, accepted)
  BY <1>a, <1>b, <1>1, RisingConcat, UpToConcat DEF Told
<1>3. Len(steers[half]) <= Len(consumed \o Unread)
  <2>1. Len(consumed \o Unread) = Len(consumed) + Len(Unread) /\ Len(consumed) \in Nat
    BY <1>a, ConcatWords
  <2>2. read <= Len(consumed) /\ Len(steers[half]) \in Nat
    BY <1>a, <1>b, WordsValues DEF Told
  <2> QED BY <2>1, <2>2, <1>1, <1>a
<1>4. Before(consumed \o Unread, steers[half], Len(steers[half]))
  BY <1>a, WordsValues DEF Before
<1>5. Told'
  BY <1>2, <1>3, <1>4, <1>c, Nothing DEF Told
<1>6. Columns' /\ Recorded'
  BY <1>b, <1>c DEF Columns, Recorded
<1>7. Settled' /\ Written'
  BY <1>b, <1>c DEF Settled, Written, PrepareStep
<1> QED BY <1>5, <1>6, <1>7

\* A snapshot or a commit puts what was told on the record.
LEMMA RecordOnce ==
  ASSUME OnceInv, meta'.steers = consumed, meta'.task = half, pc' # "setup",
         accepted' = accepted, half' = half, steers' = steers
  PROVE  Recorded'
<1>a. /\ consumed \in Words /\ \A h \in Halves : steers[h] \in Words
      /\ read \in Nat /\ half \in Nat /\ half \in Halves
  BY Values DEF OnceInv
<1>b. Columns /\ Told
  BY DEF OnceInv
<1>1. Before(consumed, steers[half], Len(consumed))
  <2>1. Len(consumed) \in Nat /\ read <= Len(consumed) /\ Len(steers[half]) \in Nat
    BY <1>a, <1>b, WordsValues DEF Told
  <2>2. Before(consumed, steers[half], read)
    BY <1>b DEF Told
  <2>3. ASSUME NEW i \in 1..Len(consumed), NEW j \in 1..Len(steers[half]), Len(consumed) < j
        PROVE  consumed[i] < steers[half][j]
    <3>1. read < j
      BY <2>1, <2>3, <1>a
    <3> QED BY <3>1, <2>2 DEF Before
  <2> QED BY <2>3 DEF Before
<1>2. \A h \in Halves : h > half => Before(consumed, steers[h], 0)
  BY <1>b, Nothing DEF Columns
<1>3. /\ accepted' = accepted /\ half' = half /\ steers' = steers
      /\ meta'.steers = consumed /\ meta'.task = half /\ pc' # "setup" /\ half <= half
  BY <1>a
<1>4. Rising(consumed) /\ UpTo(consumed, accepted)
  BY <1>b DEF Told
<1> QED BY <1>1, <1>2, <1>3, <1>4 DEF Recorded

LEMMA KeepOnce ==
  ASSUME OnceInv, Keep
  PROVE  Columns' /\ Told' /\ Recorded' /\ Settled' /\ Written'
<1>a. Unread \in Words
  BY Values DEF OnceInv
<1>b. TypeOK /\ Columns /\ Told /\ Recorded /\ Settled /\ Written
  BY DEF OnceInv
<1>c. /\ pc = "keep" /\ pc' \in {"off", "point"} /\ kept' = kept \o Unread
      /\ UNCHANGED <<accepted, half, steers, status, outcome, read, carried, consumed, meta>>
  BY DEF Keep
<1>1. kept = <<>>
  BY <1>b, <1>c DEF Written
<1>2. kept' = Unread
  BY <1>a, <1>c, <1>1, ConcatEmptySeq DEF Words
<1>3. Rising(Unread) /\ Before(consumed, Unread, 0)
  BY <1>b, UnreadRises
<1>4. meta.steers = consumed /\ status # "running" /\ meta.status \in Ends
  BY <1>b, <1>c DEF Settled
<1>5. Written'
  BY <1>2, <1>3, <1>4, <1>c DEF Written
<1>6. Settled'
  BY <1>b, <1>c DEF Settled
<1>7. Told' /\ Columns' /\ Recorded'
  BY <1>b, <1>c DEF Told, Columns, Recorded
<1> QED BY <1>5, <1>6, <1>7

LEMMA ContinueOnce ==
  ASSUME OnceInv, Continue
  PROVE  Columns' /\ Told' /\ Recorded' /\ Settled' /\ Written'
<1>a. /\ half \in Nat /\ meta.task \in Nat /\ Halves \subseteq Nat
  BY Values DEF OnceInv
<1>b. TypeOK /\ Columns /\ Told /\ Recorded /\ Settled /\ Written
  BY DEF OnceInv
<1>c. /\ half' = half + 1 /\ pc' = "setup" /\ pc = "off" /\ meta.status = "awaiting"
      /\ read' = 0 /\ carried' = <<>> /\ consumed' = <<>>
      /\ accepted' = accepted /\ steers' = steers /\ meta' = meta /\ kept' = kept
  BY DEF Continue
<1>1. Columns'
  <2>1. \A h \in Halves : h > half' => h > half
    BY <1>a, <1>c
  <2> QED BY <2>1, <1>b, <1>c DEF Columns
<1>2. Told'
  <2>1. 0 <= Len(<<>>)
    BY EmptyWords
  <2> QED BY <2>1, <1>c, Nothing DEF Told
<1>3. Recorded'
  <2>1. meta.task <= half /\ meta.task < half' /\ meta.task <= half'
    BY <1>a, <1>b, <1>c DEF Recorded
  <2> QED BY <2>1, <1>b, <1>c DEF Recorded
<1>4. Settled' /\ Written'
  BY <1>b, <1>c DEF Settled, Written, Ends
<1> QED BY <1>1, <1>2, <1>3, <1>4
\* Actions that write neither a column nor a cursor nor what was told.
LEMMA QuietOnce ==
  ASSUME OnceInv, UNCHANGED <<accepted, half, steers, read, carried, consumed>>, pc' # "setup"
  PROVE  Columns' /\ Told'
BY DEF OnceInv, Columns, Told

LEMMA SnapshotOnce ==
  ASSUME OnceInv, SaveSnapshot \/ \E o \in Ends \cup {"awaiting"} : Commit(o)
  PROVE  Columns' /\ Told' /\ Recorded' /\ Settled' /\ Written'
<1>a. Columns /\ Told /\ Recorded /\ Settled /\ Written
  BY DEF OnceInv
<1>b. UNCHANGED <<accepted, half, steers, read, carried, consumed, kept>> /\ pc' # "setup"
  BY DEF SaveSnapshot, Commit
<1>1. Columns' /\ Told'
  BY <1>b, QuietOnce
<1>2. Recorded'
  <2>1. CASE meta'.steers = consumed /\ meta'.task = half
    BY <2>1, <1>b, RecordOnce
  <2>2. CASE meta' = meta
    BY <2>2, <1>a, <1>b DEF Recorded
  <2> QED BY <2>1, <2>2 DEF SaveSnapshot, Commit
<1>3. Settled'
  <2>1. CASE SaveSnapshot
    BY <2>1 DEF SaveSnapshot, Settled
  <2>2. ASSUME NEW o \in Ends \cup {"awaiting"}, Commit(o) PROVE Settled'
    BY <2>2 DEF Commit, Settled, Ends
  <2> QED BY <2>1, <2>2
<1>4. Written'
  BY <1>a, <1>b DEF SaveSnapshot, Commit, Written
<1> QED BY <1>1, <1>2, <1>3, <1>4

\* What ends, points, sends or breaks changes no words.
LEMMA OtherOnce ==
  ASSUME OnceInv,
         \/ PublishFinish \/ Point \/ (\E admitted \in BOOLEAN : QueueFollowUp(admitted))
         \/ GivenUp \/ SendInsert \/ SendPoint \/ Crash \/ Reap \/ UNCHANGED vars
  PROVE  Columns' /\ Told' /\ Recorded' /\ Settled' /\ Written'
<1>a. Columns /\ Told /\ Recorded /\ Settled /\ Written
  BY DEF OnceInv
<1>m. meta \in [task : Halves, steers : Seq(1..MaxSteers),
                status : {"running"} \cup Ends \cup {"awaiting"}]
  BY DEF OnceInv, TypeOK
<1>b. UNCHANGED <<accepted, half, steers, read, carried, consumed, kept, outcome>>
  BY DEF PublishFinish, Point, QueueFollowUp, GivenUp, SendInsert, SendPoint, Crash, Reap, vars
<1>c. meta'.steers = meta.steers /\ meta'.task = meta.task
  BY <1>m DEF PublishFinish, Point, QueueFollowUp, GivenUp, SendInsert, SendPoint, Crash, Reap, vars
<1>d. pc' = "setup" => pc = "setup"
  BY DEF PublishFinish, Point, QueueFollowUp, GivenUp, SendInsert, SendPoint, Crash, Reap, vars
<1>1. Columns' /\ Told'
  BY <1>a, <1>b, <1>d DEF Columns, Told
<1>2. Recorded'
  BY <1>a, <1>b, <1>c, <1>d DEF Recorded
<1>3. Settled' /\ Written'
  <2>1. CASE PublishFinish
    BY <2>1, <1>a, <1>b DEF PublishFinish, LateSteerPlan, Settled, Written
  <2>2. CASE Point \/ \E admitted \in BOOLEAN : QueueFollowUp(admitted)
    BY <2>2, <1>a, <1>b DEF Point, QueueFollowUp, Settled, Written
  <2>3. CASE GivenUp
    BY <2>3, <1>a, <1>b DEF GivenUp, Settled, Written, Ends
  <2>4. CASE SendInsert \/ SendPoint \/ UNCHANGED vars
    BY <2>4, <1>a, <1>b DEF SendInsert, SendPoint, vars, Settled, Written
  <2>5. CASE Crash
    BY <2>5, <1>a, <1>b DEF Crash, Settled, Written
  <2>6. CASE Reap
    BY <2>6, <1>a, <1>b DEF Reap, Settled, Written
  <2> QED BY <2>1, <2>2, <2>3, <2>4, <2>5, <2>6
<1> QED BY <1>1, <1>2, <1>3

LEMMA StepOnceInv == OnceInv /\ [Next]_vars => OnceInv'
<1> SUFFICES ASSUME OnceInv, [Next]_vars PROVE OnceInv'
  OBVIOUS
<1>1. TypeOK' /\ Fits'
  BY StepTypeOK DEF OnceInv
<1>2. Columns' /\ Told' /\ Recorded' /\ Settled' /\ Written'
  BY AppendOnce, SetUpOnce, PrepareOnce, SnapshotOnce, KeepOnce, ContinueOnce, OtherOnce DEF Next
<1> QED BY <1>1, <1>2 DEF OnceInv

\* No words of the person reach the model twice, however often the turn suspends and is
\* taken over, crashes, is reaped or fails: what is told, recorded and written is each
\* steer once, and the late message holds nothing that was told.
THEOREM NeverSaidTwice == Spec => []SaidOnce
<1>1. OnceInv => SaidOnce
  <2> SUFFICES ASSUME OnceInv PROVE SaidOnce
    OBVIOUS
  <2>a. consumed \in Words /\ meta.steers \in Words /\ kept \in Words
    BY Values DEF OnceInv
  <2>b. /\ Rising(consumed) /\ Rising(meta.steers)
        /\ Rising(kept) /\ Before(consumed, kept, 0) /\ Before(meta.steers, kept, 0)
    BY Nothing DEF OnceInv, Told, Recorded, Written
  <2>1. ASSUME NEW s \in Words, Rising(s) PROVE IsInjective(s)
    <3> SUFFICES ASSUME NEW i \in 1..Len(s), NEW j \in 1..Len(s), s[i] = s[j] PROVE i = j
      BY WordsValues DEF IsInjective
    <3>1. s[i] \in Nat /\ s[j] \in Nat /\ i \in Int /\ j \in Int
      BY WordsValues
    <3>2. ~(i < j) /\ ~(j < i)
      BY <3>1, <2>1 DEF Rising
    <3> QED BY <3>1, <3>2
  <2>2. ASSUME NEW s \in Words, Before(s, kept, 0) PROVE ToSet(kept) \cap ToSet(s) = {}
    <3> SUFFICES ASSUME NEW i \in 1..Len(s), NEW j \in 1..Len(kept), s[i] = kept[j] PROVE FALSE
      BY <2>a, WordsValues DEF ToSet
    <3>1. s[i] < kept[j] /\ s[i] \in Nat
      BY <2>2, <2>a, WordsValues DEF Before
    <3> QED BY <3>1
  <2>3. \A s \in {consumed, meta.steers, kept} : IsInjective(s)
    BY <2>1, <2>a, <2>b
  <2>4. ToSet(kept) \cap ToSet(consumed) = {} /\ ToSet(kept) \cap ToSet(meta.steers) = {}
    BY <2>2, <2>a, <2>b
  <2> QED BY <2>3, <2>4 DEF SaidOnce
<1> QED BY <1>1, InitOnceInv, StepOnceInv, PTL DEF Spec

\* The late message never takes the leaf from the person's own send: the epilogue looks
\* who holds it in the statement that moves it.
THEOREM SendNotOvertaken == Spec => SendStands
<1>1. [Next]_vars => [leaf = "send" => leaf' = "send"]_vars
  BY DEF Next, vars, AppendSteer, SetUp, PrepareStep, SaveSnapshot, Commit, PublishFinish, Keep,
       Point,
     LeafFree, QueueFollowUp, Continue, GivenUp, SendInsert, SendPoint, Crash, Reap
<1> QED BY <1>1, PTL DEF Spec, SendStands
-----------------------------------------------------------------------------
(* Nothing is lost.                                                        *)

Holds(s, n) == \E i \in 1..Len(s) : s[i] = n

Prefix(p, s) == Len(p) <= Len(s) /\ \A i \in 1..Len(p) : p[i] = s[i]

\* Every steer accepted is in the column of a half.
Columned == \A n \in 1..accepted : \E h \in Halves : h <= half /\ Holds(steers[h], n)

\* The first half reads its column in order, and records a prefix of it.
FirstHalf == /\ half = 1 => carried = <<>> /\ Len(consumed) = read /\ Prefix(consumed, steers[1])
             /\ meta.task = 1 => Prefix(meta.steers, steers[1])

\* Told, carried over, or still to be read.
Reached(n) == \/ Holds(consumed, n) \/ Holds(carried, n)
              \/ \E j \in 1..Len(steers[half]) : read < j /\ steers[half][j] = n

\* A runner that is past its set-up has every steer, read or unread.
Covered == pc \in {"ready", "streaming", "publish", "keep"} => \A n \in 1..accepted : Reached(n)

\* Once the reply has ended and its late message is written, all is saved or excused.
Saved == status # "running" /\ meta.status \in Ends /\ pc \notin {"publish", "keep"}
            => Unsaved \subseteq excused

KeptInv == Columned /\ FirstHalf /\ Covered /\ Saved

LEMMA HoldsIn ==
  ASSUME NEW s \in Words
  PROVE  \A n : n \in ToSet(s) <=> Holds(s, n)
BY WordsValues DEF ToSet, Holds

LEMMA HoldsConcat ==
  ASSUME NEW s \in Words, NEW t \in Words, NEW n, Holds(s, n) \/ Holds(t, n)
  PROVE  Holds(s \o t, n)
<1>1. CASE Holds(s, n)
  <2>1. PICK i \in 1..Len(s) : s[i] = n
    BY <1>1 DEF Holds
  <2>2. i \in 1..Len(s \o t) /\ (s \o t)[i] = n
    BY <2>1, ConcatWords
  <2> QED BY <2>2 DEF Holds
<1>2. CASE Holds(t, n)
  <2>1. PICK i \in 1..Len(t) : t[i] = n
    BY <1>2 DEF Holds
  <2>2. (s \o t)[Len(s) + i] = n
    BY <2>1, ConcatWords
  <2>3. Len(s \o t) = Len(s) + Len(t) /\ Len(s) \in Nat /\ Len(t) \in Nat
    BY ConcatWords
  <2>4. Len(s) + i \in 1..Len(s \o t)
    BY <2>1, <2>3
  <2> QED BY <2>2, <2>4 DEF Holds
<1> QED BY <1>1, <1>2

LEMMA HoldsRest ==
  ASSUME NEW s \in Words, NEW n, NEW m \in Nat, NEW j \in 1..Len(s), m < j, s[j] = n
  PROVE  Holds(SubSeq(s, m + 1, Len(s)), n)
<1> DEFINE t == SubSeq(s, m + 1, Len(s))
<1>1. /\ Len(t) = (IF m <= Len(s) THEN Len(s) - m ELSE 0)
      /\ \A i \in 1..Len(t) : t[i] = s[m + i]
  BY RestOf
<1>2. Len(s) \in Nat
  BY WordsValues
<1> HIDE DEF t
<1>3. j - m \in 1..Len(t) /\ t[j - m] = s[j]
  BY <1>1, <1>2
<1>4. Holds(t, n)
  BY <1>3 DEF Holds
<1> QED BY <1>4 DEF t

\* All that is reached is told or unread.
LEMMA ReachedUnread ==
  ASSUME TypeOK, NEW n, Reached(n)
  PROVE  Holds(consumed, n) \/ Holds(Unread, n)
<1>a. carried \in Words /\ steers[half] \in Words /\ read \in Nat
  BY Values
<1> DEFINE t == SubSeq(steers[half], read + 1, Len(steers[half]))
<1>1. t \in Words
  BY <1>a, RestOf
<1>2. (\E j \in 1..Len(steers[half]) : read < j /\ steers[half][j] = n) => Holds(t, n)
  BY <1>a, HoldsRest
<1>3. Unread = carried \o t
  BY DEF Unread
<1> HIDE DEF t
<1> QED BY <1>1, <1>2, <1>3, <1>a, HoldsConcat DEF Reached

LEMMA InitKeptInv == Init => KeptInv
<1> SUFFICES ASSUME Init PROVE KeptInv
  OBVIOUS
<1>1. accepted = 0 /\ half = 1 /\ read = 0 /\ consumed = <<>> /\ carried = <<>>
      /\ meta.steers = <<>> /\ meta.task = 1 /\ pc = "setup" /\ status = "running"
  BY DEF Init
<1>2. steers[1] = <<>> /\ Len(<<>>) = 0
  BY EmptyWords, Sizes DEF Init
<1>3. Prefix(<<>>, <<>>)
  BY <1>2 DEF Prefix
<1>4. Columned
  BY <1>1 DEF Columned
<1>5. FirstHalf
  BY <1>1, <1>2, <1>3 DEF FirstHalf
<1> QED BY <1>1, <1>4, <1>5 DEF KeptInv, Covered, Saved
LEMMA AppendKept ==
  ASSUME OnceInv, KeptInv, AppendSteer
  PROVE  KeptInv'
<1>a. /\ consumed \in Words /\ meta.steers \in Words /\ \A h \in Halves : steers[h] \in Words
      /\ read \in Nat /\ accepted \in Nat /\ half \in Nat /\ half \in Halves
  BY Values DEF OnceInv
<1>b. Columned /\ FirstHalf /\ Covered /\ Saved
  BY DEF KeptInv
<1>c. /\ accepted' = accepted + 1 /\ status = "running" /\ status' = status
      /\ half' = half /\ pc' = pc /\ read' = read /\ carried' = carried /\ consumed' = consumed
      /\ meta' = meta
  BY DEF AppendSteer
<1>d. accepted + 1 \in 1..MaxSteers
  BY <1>a, Sizes DEF AppendSteer
<1> DEFINE s == Append(steers[half], accepted + 1)
<1>e. \A h \in Halves : steers'[h] = IF h = half THEN s ELSE steers[h]
  BY DEF AppendSteer, OnceInv, TypeOK
<1>f. /\ Len(steers[half]) \in Nat /\ Len(s) = Len(steers[half]) + 1
      /\ \A i \in 1..Len(steers[half]) : s[i] = steers[half][i]
      /\ s[Len(steers[half]) + 1] = accepted + 1
  BY <1>a, <1>d, AppendWords
<1> HIDE DEF s
<1>g. \A n \in 1..accepted + 1 : n \in 1..accepted \/ n = accepted + 1
  BY <1>a
<1>1. Holds(s, accepted + 1) /\ \A n : Holds(steers[half], n) => Holds(s, n)
  BY <1>f DEF Holds
<1>2. Columned'
  <2> SUFFICES ASSUME NEW n \in 1..accepted + 1
               PROVE  \E h \in Halves : h <= half /\ Holds(steers'[h], n)
    BY <1>c DEF Columned
  <2>1. CASE n = accepted + 1
    BY <2>1, <1>1, <1>a, <1>e
  <2>2. CASE n \in 1..accepted
    <3>1. PICK h \in Halves : h <= half /\ Holds(steers[h], n)
      BY <2>2, <1>b DEF Columned
    <3> QED BY <3>1, <1>1, <1>e
  <2> QED BY <2>1, <2>2, <1>g
<1>3. FirstHalf'
  <2>1. 1 \in Halves /\ Len(steers'[1]) \in Nat /\ Len(steers[1]) \in Nat
    BY <1>a, <1>e, <1>f, WordsValues, Sizes
  <2>2. Len(steers[1]) <= Len(steers'[1]) /\ \A i \in 1..Len(steers[1]) : steers'[1][i] = steers[1][i]
    BY <2>1, <1>e, <1>f
  <2>3. ASSUME NEW u \in Words, Prefix(u, steers[1]) PROVE Prefix(u, steers'[1])
    <3>1. Len(u) \in Nat
      BY WordsValues
    <3> QED BY <2>1, <2>2, <2>3, <3>1 DEF Prefix
  <2>4. Prefix(consumed, steers[1]) => Prefix(consumed, steers'[1])
    BY <2>3, <1>a
  <2>5. Prefix(meta.steers, steers[1]) => Prefix(meta.steers, steers'[1])
    BY <2>3, <1>a
  <2> QED BY <2>4, <2>5, <1>b, <1>c DEF FirstHalf
<1>4. Covered'
  <2> SUFFICES ASSUME pc \in {"ready", "streaming", "publish", "keep"}, NEW n \in 1..accepted + 1
               PROVE  Reached(n)'
    BY <1>c DEF Covered
  <2>0. steers'[half] = s
    BY <1>a, <1>e
  <2>1. CASE n = accepted + 1
    <3>1. read < Len(steers[half]) + 1 /\ Len(steers[half]) + 1 \in 1..Len(s)
      BY <1>a, <1>f DEF OnceInv, Fits
    <3> QED BY <2>0, <2>1, <3>1, <1>c, <1>f DEF Reached
  <2>2. CASE n \in 1..accepted
    <3>1. Reached(n)
      BY <2>2, <1>b DEF Covered
    <3>2. ASSUME NEW j \in 1..Len(steers[half]), read < j, steers[half][j] = n
          PROVE  \E k \in 1..Len(s) : read < k /\ s[k] = n
      BY <3>2, <1>f
    <3> QED BY <3>1, <3>2, <2>0, <1>c DEF Reached
  <2> QED BY <2>1, <2>2, <1>g
<1>5. Saved'
  BY <1>c DEF Saved
<1> QED BY <1>2, <1>3, <1>4, <1>5 DEF KeptInv

\* The only way a half is set up after another's: the second takes over the first's.
LEMMA SetUpKept ==
  ASSUME MaxHalves <= 2, OnceInv, KeptInv, SetUp
  PROVE  KeptInv'
<1>a. /\ consumed \in Words /\ meta.steers \in Words /\ \A h \in Halves : steers[h] \in Words
      /\ accepted \in Nat /\ half \in Nat /\ half \in Halves
      /\ meta.task \in Halves /\ meta.task \in Nat /\ steers[half] \in Words
  BY Values DEF OnceInv
<1>b. Columned /\ FirstHalf /\ Covered /\ Saved
  BY DEF KeptInv
<1>c. /\ pc = "setup" /\ pc' = "ready" /\ read = 0 /\ consumed = <<>> /\ carried = <<>>
      /\ accepted' = accepted /\ half' = half /\ steers' = steers /\ status' = status
      /\ read' = read /\ meta' = meta /\ kept' = kept /\ excused' = excused
  BY DEF SetUp, OnceInv, Told
<1>d. half = 1 \/ half = 2
  BY <1>a, Sizes DEF Halves
<1>1. FirstHalf'
  BY <1>b, <1>c DEF FirstHalf, SetUp
<1>2. Columned' /\ Saved'
  BY <1>b, <1>c DEF Columned, Saved, Unsaved
<1>3. Covered'
  <2> SUFFICES ASSUME NEW n \in 1..accepted PROVE Reached(n)'
    BY <1>c DEF Covered
  <2>1. PICK h \in Halves : h <= half /\ Holds(steers[h], n)
    BY <1>b DEF Columned
  <2>2. PICK j \in 1..Len(steers[h]) : steers[h][j] = n
    BY <2>1 DEF Holds
  <2>3. j \in Nat /\ 0 < j
    BY <1>a, <2>2, WordsValues
  <2>4. CASE h = half
    BY <2>2, <2>3, <2>4, <1>c DEF Reached
  <2>5. CASE h # half
    <3>1. h = 1 /\ half = 2
      <4>1. h \in Nat /\ h >= 1
        BY Sizes DEF Halves
      <4> QED BY <4>1, <2>1, <2>5, <1>d
    <3>2. meta.task = 1
      <4>1. meta.task < half
        BY <3>1, <1>c DEF OnceInv, Recorded
      <4>2. meta.task >= 1
        BY <1>a, Sizes DEF Halves
      <4> QED BY <3>1, <4>1, <4>2, <1>a
    <3>3. consumed' = meta.steers /\ carried' = CarriedFrom(meta)
      BY <3>1 DEF SetUp
    <3>4. Prefix(meta.steers, steers[1]) /\ Len(meta.steers) \in Nat
      BY <3>2, <1>a, <1>b, WordsValues DEF FirstHalf
    <3>5. CASE j <= Len(meta.steers)
      <4>1. j \in 1..Len(meta.steers)
        BY <2>3, <3>4, <3>5
      <4>2. meta.steers[j] = n
        BY <4>1, <3>1, <3>4, <2>2 DEF Prefix
      <4>3. Holds(meta.steers, n)
        BY <4>1, <4>2 DEF Holds
      <4> QED BY <4>3, <3>3 DEF Reached
    <3>6. CASE Len(meta.steers) < j
      <4>1. Holds(CarriedFrom(meta), n)
        BY <3>1, <3>2, <3>4, <3>6, <2>2, <1>a, HoldsRest DEF CarriedFrom
      <4> QED BY <4>1, <3>3 DEF Reached
    <3> QED BY <3>4, <3>5, <3>6, <2>3
  <2> QED BY <2>4, <2>5
<1> QED BY <1>1, <1>2, <1>3 DEF KeptInv

LEMMA PrepareKept ==
  ASSUME OnceInv, KeptInv, PrepareStep
  PROVE  KeptInv'
<1>a. /\ consumed \in Words /\ Unread \in Words /\ steers[half] \in Words
      /\ read \in Nat /\ TypeOK
  BY Values DEF OnceInv
<1>b. Columned /\ FirstHalf /\ Covered /\ Saved
  BY DEF KeptInv
<1>c. /\ pc \in {"ready", "streaming"} /\ pc' = "streaming"
      /\ consumed' = consumed \o Unread /\ carried' = <<>> /\ read' = Len(steers[half])
      /\ accepted' = accepted /\ half' = half /\ steers' = steers /\ status' = status
      /\ meta' = meta /\ kept' = kept /\ excused' = excused
  BY DEF PrepareStep
<1>1. FirstHalf'
  <2>1. CASE half # 1
    BY <2>1, <1>b, <1>c DEF FirstHalf
  <2>2. CASE half = 1
    <3> DEFINE t == SubSeq(steers[1], read + 1, Len(steers[1]))
    <3>1. /\ t \in Words
          /\ Len(t) = (IF read <= Len(steers[1]) THEN Len(steers[1]) - read ELSE 0)
          /\ \A i \in 1..Len(t) : t[i] = steers[1][read + i]
      BY <2>2, <1>a, RestOf
    <3>2. carried = <<>> /\ Len(consumed) = read /\ Prefix(consumed, steers[1])
      BY <2>2, <1>b DEF FirstHalf
    <3>3. Unread = t
      BY <2>2, <3>1, <3>2, ConcatEmptySeq DEF Unread, Words
    <3> HIDE DEF t
    <3>4. read <= Len(steers[1]) /\ Len(steers[1]) \in Nat
      BY <2>2, <1>a, WordsValues DEF OnceInv, Fits
    <3> DEFINE c == consumed \o t
    <3>5. /\ Len(c) = Len(consumed) + Len(t)
          /\ \A i \in 1..Len(c) : \/ i \in 1..Len(consumed) /\ c[i] = consumed[i]
                                  \/ i - Len(consumed) \in 1..Len(t) /\ c[i] = t[i - Len(consumed)]
      BY <1>a, <3>1, ConcatWords
    <3> HIDE DEF c
    <3>6. Len(c) = Len(steers[1])
      BY <3>1, <3>2, <3>4, <3>5, <1>a
    <3>7. ASSUME NEW i \in 1..Len(c) PROVE c[i] = steers[1][i]
      <4>1. CASE i \in 1..Len(consumed) /\ c[i] = consumed[i]
        BY <4>1, <3>2 DEF Prefix
      <4>2. CASE i - Len(consumed) \in 1..Len(t) /\ c[i] = t[i - Len(consumed)]
        <5>1. t[i - read] = steers[1][read + (i - read)]
          BY <4>2, <3>1, <3>2
        <5>2. read + (i - read) = i
          BY <1>a
        <5> QED BY <4>2, <5>1, <5>2, <3>2
      <4> QED BY <4>1, <4>2, <3>5
    <3>8. Prefix(c, steers[1])
      BY <3>6, <3>7, <3>4 DEF Prefix
    <3>9. consumed' = c /\ read' = Len(steers[1])
      BY <2>2, <3>3, <1>c DEF c
    <3> QED BY <2>2, <3>6, <3>8, <3>9, <1>b, <1>c DEF FirstHalf
  <2> QED BY <2>1, <2>2
<1>2. Columned' /\ Saved'
  BY <1>b, <1>c DEF Columned, Saved, Unsaved
<1>3. Covered'
  <2> SUFFICES ASSUME NEW n \in 1..accepted PROVE Reached(n)'
    BY <1>c DEF Covered
  <2>1. Reached(n)
    BY <1>b, <1>c DEF Covered
  <2>2. Holds(consumed, n) \/ Holds(Unread, n)
    BY <2>1, <1>a, ReachedUnread
  <2>3. Holds(consumed', n)
    BY <2>2, <1>a, <1>c, HoldsConcat
  <2> QED BY <2>3 DEF Reached
<1> QED BY <1>1, <1>2, <1>3 DEF KeptInv
\* The record changes only to what was told, which in the first half is a prefix.
LEMMA SnapshotKept ==
  ASSUME OnceInv, KeptInv, SaveSnapshot \/ \E o \in Ends \cup {"awaiting"} : Commit(o)
  PROVE  KeptInv'
<1>b. Columned /\ FirstHalf /\ Covered /\ Saved
  BY DEF KeptInv
<1>c. /\ accepted' = accepted /\ half' = half /\ steers' = steers /\ read' = read
      /\ carried' = carried /\ consumed' = consumed /\ kept' = kept /\ excused' = excused
      /\ pc \in {"ready", "streaming"}
      /\ \/ meta' = meta
         \/ meta'.steers = consumed /\ meta'.task = half
  BY DEF SaveSnapshot, Commit
<1>1. Columned'
  BY <1>b, <1>c DEF Columned
<1>2. FirstHalf'
  BY <1>b, <1>c DEF FirstHalf
<1>3. Covered'
  BY <1>b, <1>c DEF Covered, Reached
<1>4. Saved'
  <2>1. CASE SaveSnapshot
    BY <2>1 DEF SaveSnapshot, Saved, Ends
  <2>2. ASSUME NEW o \in Ends \cup {"awaiting"}, Commit(o) PROVE Saved'
    <3>1. CASE status = "running"
      BY <2>2, <3>1 DEF Commit, Saved
    <3>2. CASE status # "running"
      BY <2>2, <3>2, <1>b DEF Commit, Saved, Unsaved
    <3> QED BY <3>1, <3>2
  <2> QED BY <2>1, <2>2
<1> QED BY <1>1, <1>2, <1>3, <1>4 DEF KeptInv

\* The late message holds what was not told: together with the record, every steer.
LEMMA KeepKept ==
  ASSUME OnceInv, KeptInv, Keep
  PROVE  KeptInv'
<1>a. /\ consumed \in Words /\ Unread \in Words /\ kept \in Words /\ TypeOK
  BY Values DEF OnceInv
<1>b. Columned /\ FirstHalf /\ Covered /\ Saved
  BY DEF KeptInv
<1>c. /\ pc = "keep" /\ pc' \in {"off", "point"} /\ kept' = kept \o Unread
      /\ accepted' = accepted /\ half' = half /\ steers' = steers /\ read' = read
      /\ carried' = carried /\ consumed' = consumed /\ meta' = meta
  BY DEF Keep
<1>1. meta.steers = consumed
  BY <1>c DEF OnceInv, Settled
<1>2. Unsaved' = {}
  <2> SUFFICES ASSUME NEW n \in 1..accepted PROVE n \in ToSet(consumed) \cup ToSet(kept \o Unread)
    BY <1>1, <1>c DEF Unsaved
  <2>1. Reached(n)
    BY <1>b, <1>c DEF Covered
  <2>2. Holds(consumed, n) \/ Holds(Unread, n)
    BY <2>1, <1>a, ReachedUnread
  <2>3. Holds(Unread, n) => Holds(kept \o Unread, n)
    BY <1>a, HoldsConcat
  <2>4. kept \o Unread \in Words
    BY <1>a, ConcatWords
  <2> QED BY <2>2, <2>3, <2>4, <1>a, HoldsIn
<1> QED BY <1>2, <1>b, <1>c DEF KeptInv, Columned, FirstHalf, Covered, Saved

LEMMA OtherKept ==
  ASSUME OnceInv, KeptInv,
         \/ PublishFinish \/ Point \/ (\E admitted \in BOOLEAN : QueueFollowUp(admitted))
         \/ Continue \/ GivenUp \/ SendInsert \/ SendPoint \/ Crash \/ Reap \/ UNCHANGED vars
  PROVE  KeptInv'
<1>a. half \in Nat /\ Halves \subseteq Nat
  BY Values DEF OnceInv
<1>b. Columned /\ FirstHalf /\ Covered /\ Saved /\ Settled
  BY DEF KeptInv, OnceInv
<1>m. meta \in [task : Halves, steers : Seq(1..MaxSteers),
                status : {"running"} \cup Ends \cup {"awaiting"}]
  BY DEF OnceInv, TypeOK
<1>c. /\ accepted' = accepted /\ steers' = steers /\ kept' = kept
      /\ meta'.steers = meta.steers /\ meta'.task = meta.task
  BY <1>m
    DEF PublishFinish, Point, QueueFollowUp, Continue, GivenUp, SendInsert, SendPoint, Crash,
       Reap, vars
<1>d. Unsaved' = Unsaved
  BY <1>c DEF Unsaved
<1>1. CASE Continue
  <2>1. half' = half + 1 /\ status' = "running" /\ pc' = "setup"
    BY <1>1 DEF Continue
  <2>2. Columned'
    <3>1. \A h \in Halves : h <= half => h <= half'
      BY <1>a, <2>1
    <3> QED BY <3>1, <1>b, <1>c DEF Columned
  <2>3. half \in 1..MaxHalves /\ half' # 1
    <3>1. half \in 1..MaxHalves
      BY DEF OnceInv, TypeOK, Halves
    <3> QED BY <3>1, <2>1, Sizes
  <2>4. FirstHalf'
    BY <2>3, <1>b, <1>c DEF FirstHalf
  <2> QED BY <2>1, <2>2, <2>4 DEF KeptInv, Covered, Saved
<1>2. CASE ~Continue
  <2>1. /\ half' = half /\ read' = read /\ carried' = carried /\ consumed' = consumed
        /\ pc' \in {"ready", "streaming", "publish", "keep"} => pc \in {"ready", "streaming", "publish", "keep"}
    BY <1>2
      DEF PublishFinish, Point, QueueFollowUp, GivenUp, SendInsert, SendPoint, Crash, Reap, vars
  <2>2. Columned' /\ FirstHalf' /\ Covered'
    BY <2>1, <1>b, <1>c DEF Columned, FirstHalf, Covered, Reached
  <2>3. Saved'
    <3>1. CASE PublishFinish
      BY <3>1, <1>b, <1>d DEF PublishFinish, LateSteerPlan, Settled, Saved, Ends
    <3>2. CASE Point \/ (\E admitted \in BOOLEAN : QueueFollowUp(admitted)) \/ SendInsert \/ SendPoint \/ UNCHANGED vars
      BY <3>2, <1>b, <1>d DEF Point, QueueFollowUp, SendInsert, SendPoint, vars, Saved
    <3>3. CASE GivenUp \/ Crash \/ Reap
      BY <3>3, <1>d DEF GivenUp, Crash, Reap, Saved
    <3> QED BY <1>2, <3>1, <3>2, <3>3
  <2> QED BY <2>2, <2>3 DEF KeptInv
<1> QED BY <1>1, <1>2

LEMMA StepKeptInv ==
  ASSUME MaxHalves <= 2
  PROVE  OnceInv /\ KeptInv /\ [Next]_vars => KeptInv'
BY AppendKept, SetUpKept, PrepareKept, SnapshotKept, KeepKept, OtherKept DEF Next

\* Words the endpoint took for a running turn are on the reply's record or in a message
\* when it has ended, unless the turn crashed, was reaped or was given up on under them:
\* of a reply that was continued at most once.  A second continuation loses what the
\* first half's column held.
THEOREM WordsNotLost ==
  ASSUME MaxHalves <= 2
  PROVE  Spec => []SteersKept
<1>1. KeptInv => SteersKept
  BY DEF KeptInv, Saved, SteersKept
<1>2. Init => OnceInv /\ KeptInv
  BY InitOnceInv, InitKeptInv
<1>3. OnceInv /\ KeptInv /\ [Next]_vars => (OnceInv /\ KeptInv)'
  BY StepOnceInv, StepKeptInv
<1> QED BY <1>1, <1>2, <1>3, PTL DEF Spec
=============================================================================
