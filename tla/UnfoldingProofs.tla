-------------------------- MODULE UnfoldingProofs --------------------------
(***************************************************************************)
(* What a grammar reads: lemmas about the operators of UnfoldedTrace.      *)
(* Reading a token is a function on Progress (what was read, and which     *)
(* occurrence comes next), reading a block is one function after another,  *)
(* and what every reading does is proved of the set of functions that do   *)
(* it, which is closed under reading blocks and loops (Closed, Uniform).   *)
(* UnfoldedTraceProofs uses them to follow the steps of a writer.          *)
(***************************************************************************)
EXTENDS UnfoldedTrace, ThreadWriterProofs

-----------------------------------------------------------------------------
(* Induction.  What is proved by induction is that a set holds every       *)
(* natural number.                                                         *)

\* A set of naturals that is not empty has a least element.
LEMMA LeastNat ==
  ASSUME NEW T \in SUBSET Nat, T # {}
  PROVE  \E m \in T : \A k \in T : m <= k
<1> DEFINE R == {xy \in Nat \X Nat : xy[1] < xy[2]}
<1>1. Order!IsWellFoundedOn(R, Nat)
  BY Order!NatLessThanWellFounded DEF Order!OpToRel
<1>2. \A x, y \in Nat : x < y => <<x, y>> \in R
  OBVIOUS
<1> HIDE DEF R
<1>3. \E m \in T : \A k \in T : ~(<<k, m>> \in R)
  BY <1>1, Order!WFMin
<1>4. PICK m \in T : \A k \in T : ~(<<k, m>> \in R)
  BY <1>3
<1>5. ASSUME NEW k \in T PROVE m <= k
  <2>1. m \in Nat /\ k \in Nat /\ ~(<<k, m>> \in R)
    BY <1>4
  <2>2. ~(k < m)
    BY <1>2, <2>1
  <2> QED BY <2>1, <2>2
<1> QED BY <1>5

\* Induction over the members of a set: the library's theorem takes an
\* operator.
LEMMA SetInduction ==
  ASSUME NEW P, 0 \in P, \A n \in Nat : n \in P => n + 1 \in P
  PROVE  Nat \subseteq P
<1> SUFFICES ASSUME NEW x \in Nat, x \notin P PROVE FALSE
  OBVIOUS
<1> DEFINE T == {n \in Nat : n \notin P}
<1>1. PICK m \in T : \A k \in T : m <= k
  BY LeastNat
<1>2. m # 0 /\ m - 1 \in Nat
  OBVIOUS
<1>3. m - 1 \in P
  BY <1>1, <1>2
<1> QED BY <1>1, <1>2, <1>3

-----------------------------------------------------------------------------
(* Functions of the progress, applied one after the other                  *)

Readings == [Progress -> Progress]

\* r lists what the first n functions make of p.
Runs(functions, p, n, r) ==
  /\ r \in [0..n -> Progress]
  /\ r[0] = p
  /\ \A k \in 1..n : r[k] = functions[k][r[k - 1]]

\* The recursive function in Run exists for every sequence of readings.
LEMMA RunExists ==
  ASSUME NEW fs \in Seq(Readings), NEW p \in Progress
  PROVE  \E r : Runs(fs, p, Len(fs), r)
<1> DEFINE P == {n \in Nat : n <= Len(fs) => \E r : Runs(fs, p, n, r)}
<1>1. 0 \in P
  <2> DEFINE r == [k \in 0..0 |-> p]
  <2>1. Runs(fs, p, 0, r)
    BY DEF Runs
  <2> QED BY <2>1
<1>2. ASSUME NEW n \in Nat, n \in P PROVE n + 1 \in P
  <2> SUFFICES ASSUME n + 1 <= Len(fs) PROVE \E s : Runs(fs, p, n + 1, s)
    OBVIOUS
  <2>1. PICK r : Runs(fs, p, n, r)
    BY <1>2
  <2>2. fs[n + 1] \in Readings
    BY ElementOfSeq
  <2> DEFINE s == [k \in 0..(n + 1) |-> IF k = n + 1 THEN fs[n + 1][r[n]] ELSE r[k]]
  <2>3. fs[n + 1][r[n]] \in Progress
    BY <2>1, <2>2 DEF Runs, Readings
  <2>4. s \in [0..(n + 1) -> Progress]
    BY <2>1, <2>3 DEF Runs
  <2>5. s[0] = p
    BY <2>1 DEF Runs
  <2>6. ASSUME NEW k \in 1..(n + 1) PROVE s[k] = fs[k][s[k - 1]]
    <3>1. CASE k = n + 1
      BY <3>1
    <3>2. CASE k # n + 1
      <4>1. k \in 1..n /\ k - 1 \in 0..n /\ k - 1 # n + 1
        BY <3>2
      <4>2. s[k] = r[k] /\ s[k - 1] = r[k - 1]
        BY <4>1
      <4> QED BY <2>1, <4>1, <4>2 DEF Runs
    <3> QED BY <3>1, <3>2
  <2>7. Runs(fs, p, n + 1, s)
    BY <2>4, <2>5, <2>6 DEF Runs
  <2> QED BY <2>7
<1> HIDE DEF P
<1>3. Nat \subseteq P
  BY <1>1, <1>2, SetInduction
<1>4. Len(fs) \in P
  BY <1>3
<1> QED BY <1>4 DEF P

\* Run is the last of what the functions make.
LEMMA RunIs ==
  ASSUME NEW fs \in Seq(Readings), NEW p \in Progress, NEW r, Runs(fs, p, Len(fs), r)
  PROVE  Run(fs, p) = r[Len(fs)]
<1> DEFINE N == Len(fs)
           Step(f) == [k \in 0..N |-> IF k = 0 THEN p ELSE fs[k][f[k - 1]]]
           R == CHOOSE f : f = Step(f)
<1>1. r = Step(r)
  BY DEF Runs
<1>2. R = Step(R)
  BY <1>1
<1>3. Run(fs, p) = R[N]
  BY DEF Run
<1> HIDE DEF R
<1>4. R[0] = p /\ \A k \in 1..N : R[k] = fs[k][R[k - 1]]
  <2>1. \A k \in 0..N : R[k] = IF k = 0 THEN p ELSE fs[k][R[k - 1]]
    BY <1>2
  <2>2. 0 \in 0..N /\ \A k \in 1..N : k \in 0..N /\ k # 0
    OBVIOUS
  <2> QED BY <2>1, <2>2
<1> DEFINE P == {n \in Nat : n <= N => R[n] = r[n]}
<1>5. 0 \in P
  BY <1>4 DEF Runs
<1>6. ASSUME NEW n \in Nat, n \in P PROVE n + 1 \in P
  <2> SUFFICES ASSUME n + 1 <= N PROVE R[n + 1] = r[n + 1]
    OBVIOUS
  <2>1. n + 1 \in 1..N /\ (n + 1) - 1 = n
    OBVIOUS
  <2>2. R[n] = r[n]
    BY <1>6
  <2>3. R[n + 1] = fs[n + 1][R[n]]
    BY <1>4, <2>1
  <2>4. r[n + 1] = fs[n + 1][r[n]]
    BY <2>1 DEF Runs
  <2> QED BY <2>2, <2>3, <2>4
<1> HIDE DEF P
<1>7. Nat \subseteq P
  BY <1>5, <1>6, SetInduction
<1>8. N \in P
  BY <1>7
<1> QED BY <1>3, <1>8 DEF P

\* Readings applied in order lead from one progress to another.
LEMMA RunType ==
  ASSUME NEW fs \in Seq(Readings), NEW p \in Progress
  PROVE  Run(fs, p) \in Progress
<1>1. PICK r : Runs(fs, p, Len(fs), r)
  BY RunExists
<1>2. Run(fs, p) = r[Len(fs)]
  BY <1>1, RunIs
<1>3. Len(fs) \in 0..Len(fs)
  OBVIOUS
<1> QED BY <1>1, <1>2, <1>3 DEF Runs

\* Without readings nothing is read.
LEMMA RunNothing ==
  ASSUME NEW p \in Progress
  PROVE  Run(<<>>, p) = p
<1>1. <<>> \in Seq(Readings) /\ Len(<<>>) = 0
  OBVIOUS
<1>2. PICK r : Runs(<<>>, p, Len(<<>>), r)
  BY <1>1, RunExists
<1>3. Run(<<>>, p) = r[Len(<<>>)]
  BY <1>1, <1>2, RunIs
<1> QED BY <1>1, <1>2, <1>3 DEF Runs

\* The first functions make what they make alone.
LEMMA RunPrefix ==
  ASSUME NEW fs \in Seq(Readings), NEW gs \in Seq(Readings), NEW p \in Progress, NEW r,
         Len(fs) <= Len(gs), \A k \in 1..Len(fs) : gs[k] = fs[k],
         Runs(gs, p, Len(gs), r)
  PROVE  r[Len(fs)] = Run(fs, p)
<1> DEFINE s == [k \in 0..Len(fs) |-> r[k]]
<1>1. \A k \in 0..Len(fs) : k \in 0..Len(gs)
  OBVIOUS
<1>2. s \in [0..Len(fs) -> Progress]
  BY <1>1 DEF Runs
<1>3. s[0] = p
  BY DEF Runs
<1>4. ASSUME NEW k \in 1..Len(fs) PROVE s[k] = fs[k][s[k - 1]]
  <2>1. k \in 1..Len(gs) /\ k - 1 \in 0..Len(fs) /\ k \in 0..Len(fs)
    OBVIOUS
  <2>2. r[k] = gs[k][r[k - 1]]
    BY <2>1 DEF Runs
  <2> QED BY <2>1, <2>2
<1>5. Runs(fs, p, Len(fs), s)
  BY <1>2, <1>3, <1>4 DEF Runs
<1>6. Run(fs, p) = s[Len(fs)]
  BY <1>5, RunIs
<1>7. Len(fs) \in 0..Len(fs)
  OBVIOUS
<1> QED BY <1>6, <1>7

\* What follows is applied to what was made before.
LEMMA RunConcat ==
  ASSUME NEW fs \in Seq(Readings), NEW gs \in Seq(Readings), NEW p \in Progress
  PROVE  Run(fs \o gs, p) = Run(gs, Run(fs, p))
<1> DEFINE hs == fs \o gs
           m  == Len(fs)
           n  == Len(gs)
<1>1. /\ hs \in Seq(Readings) /\ Len(hs) = m + n
      /\ \A k \in 1..m : hs[k] = fs[k]
      /\ \A k \in 1..n : hs[m + k] = gs[k]
  OBVIOUS
<1>2. m \in Nat /\ n \in Nat
  OBVIOUS
<1> HIDE DEF hs
<1>3. PICK r : Runs(hs, p, Len(hs), r)
  BY <1>1, RunExists
<1>4. Run(hs, p) = r[m + n]
  BY <1>1, <1>3, RunIs
<1>5. r[m] = Run(fs, p)
  <2>1. Len(fs) <= Len(hs)
    BY <1>1, <1>2
  <2> QED BY <1>1, <1>3, <2>1, RunPrefix
<1> DEFINE s == [k \in 0..n |-> r[m + k]]
<1>6. \A k \in 0..n : m + k \in 0..Len(hs)
  BY <1>1, <1>2
<1>7. s \in [0..n -> Progress]
  BY <1>3, <1>6 DEF Runs
<1>8. s[0] = Run(fs, p)
  BY <1>2, <1>5
<1>9. ASSUME NEW k \in 1..n PROVE s[k] = gs[k][s[k - 1]]
  <2>1. m + k \in 1..Len(hs) /\ k \in 0..n /\ k - 1 \in 0..n /\ (m + k) - 1 = m + (k - 1)
    BY <1>1, <1>2
  <2>2. r[m + k] = hs[m + k][r[(m + k) - 1]]
    BY <1>3, <2>1 DEF Runs
  <2>3. r[m + k] = gs[k][r[m + (k - 1)]]
    BY <1>1, <2>1, <2>2
  <2> QED BY <2>1, <2>3
<1>10. Runs(gs, Run(fs, p), n, s)
  BY <1>7, <1>8, <1>9 DEF Runs
<1>11. Run(gs, Run(fs, p)) = s[n]
  BY <1>10, RunIs, RunType
<1>12. s[n] = r[m + n]
  BY <1>2
<1> QED BY <1>4, <1>11, <1>12 DEF hs

\* A single reading is applied once.
LEMMA RunOne ==
  ASSUME NEW f \in Readings, NEW p \in Progress
  PROVE  Run(<<f>>, p) = f[p]
<1>1. <<f>> \in Seq(Readings) /\ Len(<<f>>) = 1 /\ <<f>>[1] = f
  OBVIOUS
<1>2. PICK r : Runs(<<f>>, p, Len(<<f>>), r)
  BY <1>1, RunExists
<1>3. Run(<<f>>, p) = r[1]
  BY <1>1, <1>2, RunIs
<1>4. r[0] = p /\ r[1] = <<f>>[1][r[1 - 1]]
  BY <1>1, <1>2 DEF Runs
<1> QED BY <1>1, <1>3, <1>4

\* Readings that start in relation, and whose functions keep them in it, end so.
KeepRelated(f, g, Rel) ==
  \A p, q \in Progress : <<p, q>> \in Rel => <<f[p], g[q]>> \in Rel

\* What each reading preserves of two progresses, all of them in order
\* preserve.
LEMMA RunRelates ==
  ASSUME NEW fs \in Seq(Readings), NEW gs \in Seq(Readings), Len(fs) = Len(gs),
         NEW p \in Progress, NEW q \in Progress, NEW Rel, <<p, q>> \in Rel,
         \A k \in 1..Len(fs) : KeepRelated(fs[k], gs[k], Rel)
  PROVE  <<Run(fs, p), Run(gs, q)>> \in Rel
<1>1. PICK r : Runs(fs, p, Len(fs), r)
  BY RunExists
<1>2. PICK s : Runs(gs, q, Len(gs), s)
  BY RunExists
<1> DEFINE P == {n \in Nat : n <= Len(fs) => <<r[n], s[n]>> \in Rel}
<1>3. 0 \in P
  BY <1>1, <1>2 DEF Runs
<1>4. ASSUME NEW n \in Nat, n \in P PROVE n + 1 \in P
  <2> SUFFICES ASSUME n + 1 <= Len(fs) PROVE <<r[n + 1], s[n + 1]>> \in Rel
    OBVIOUS
  <2>1. n + 1 \in 1..Len(fs) /\ (n + 1) - 1 = n /\ n \in 0..Len(fs)
    OBVIOUS
  <2>2. <<r[n], s[n]>> \in Rel
    BY <1>4
  <2>3. r[n] \in Progress /\ s[n] \in Progress
    BY <1>1, <1>2, <2>1 DEF Runs
  <2>4. r[n + 1] = fs[n + 1][r[n]] /\ s[n + 1] = gs[n + 1][s[n]]
    BY <1>1, <1>2, <2>1 DEF Runs
  <2>5. KeepRelated(fs[n + 1], gs[n + 1], Rel)
    BY <2>1
  <2> QED BY <2>2, <2>3, <2>4, <2>5 DEF KeepRelated
<1> HIDE DEF P
<1>5. Nat \subseteq P
  BY <1>3, <1>4, SetInduction
<1>6. Len(fs) \in P
  BY <1>5
<1>7. <<r[Len(fs)], s[Len(fs)]>> \in Rel
  BY <1>6 DEF P
<1>8. Run(fs, p) = r[Len(fs)] /\ Run(gs, q) = s[Len(gs)]
  BY <1>1, <1>2, RunIs
<1> QED BY <1>7, <1>8

-----------------------------------------------------------------------------
(* The steps of a reading                                                  *)

\* The types of the fields of a progress.
LEMMA ProgressFields ==
  ASSUME NEW p \in Progress
  PROVE  p.ids \in Seq(Nat) /\ p.left \in Seq(Seq(Nat)) /\ p.entered \in Seq(Nat)
BY DEF Progress

\* Meeting an event appends its id and changes nothing else.
LEMMA MeetProps ==
  ASSUME NEW p \in Progress, NEW id \in Nat
  PROVE  /\ Meet(p, id) \in Progress
         /\ Meet(p, id).ids = Append(p.ids, id)
         /\ Meet(p, id).left = p.left
         /\ Meet(p, id).entered = p.entered
<1>1. Append(p.ids, id) \in Seq(Nat)
  BY ProgressFields, AppendProperties
<1> DEFINE s == Append(p.ids, id)
<1>2. Meet(p, id) = [p EXCEPT !.ids = s]
  BY DEF Meet
<1> HIDE DEF s
<1> QED BY <1>1, <1>2 DEF Progress, s

\* Counting n up counts nothing else.
LEMMA CountUpProps ==
  ASSUME NEW c \in Seq(Nat), NEW n \in Nat \ {0}
  PROVE  /\ CountUp(c, n) \in Seq(Nat)
         /\ \A k \in Nat : Count(CountUp(c, n), k) = Count(c, k) + (IF k = n THEN 1 ELSE 0)
         /\ \A k \in Nat : Count(c, k) \in Nat
<1> DEFINE m == IF n > Len(c) THEN n ELSE Len(c)
<1>1. m \in Nat /\ n \in 1..m /\ \A k \in 1..Len(c) : k \in 1..m
  OBVIOUS
<1>2. \A k \in Nat : Count(c, k) \in Nat
  BY DEF Count
<1>3. CountUp(c, n) = [k \in 1..m |-> Count(c, k) + (IF k = n THEN 1 ELSE 0)]
  BY DEF CountUp
<1> HIDE DEF m
<1>4. ASSUME NEW k \in 1..m
      PROVE  Count(c, k) + (IF k = n THEN 1 ELSE 0) \in Nat
  <2>1. Count(c, k) \in Nat
    BY <1>1, <1>2
  <2> QED BY <2>1
<1>5. CountUp(c, n) \in [1..m -> Nat]
  BY <1>3, <1>4
<1>6. CountUp(c, n) \in Seq(Nat) /\ DOMAIN CountUp(c, n) = 1..m
  BY <1>1, <1>5
<1>7. ASSUME NEW k \in Nat
      PROVE  Count(CountUp(c, n), k) = Count(c, k) + (IF k = n THEN 1 ELSE 0)
  <2>1. CASE k \in 1..m
    BY <1>3, <1>6, <2>1 DEF Count
  <2>2. CASE k \notin 1..m
    <3>1. k # n /\ k \notin 1..Len(c)
      BY <1>1, <2>2
    <3>2. Count(c, k) = 0
      BY <3>1 DEF Count
    <3>3. Count(CountUp(c, n), k) = 0
      BY <1>6, <2>2 DEF Count
    <3> QED BY <3>1, <3>2, <3>3
  <2> QED BY <2>1, <2>2
<1> QED BY <1>2, <1>6, <1>7

\* Entering a sequence counts it and changes nothing else.
LEMMA EnterProps ==
  ASSUME NEW p \in Progress, NEW n \in Nat \ {0}
  PROVE  /\ Enter(p, n) \in Progress
         /\ Enter(p, n).ids = p.ids
         /\ Enter(p, n).left = p.left
         /\ Enter(p, n).entered = CountUp(p.entered, n)
<1>1. CountUp(p.entered, n) \in Seq(Nat)
  BY ProgressFields, CountUpProps
<1> DEFINE s == CountUp(p.entered, n)
<1>2. Enter(p, n) = [p EXCEPT !.entered = s]
  BY DEF Enter
<1> HIDE DEF s
<1> QED BY <1>1, <1>2 DEF Progress, s

\* The counts that are left of a loop are numbers, whether the loop exists or
\* not.
LEMMA RemainingType ==
  ASSUME NEW p \in Progress, NEW l
  PROVE  Remaining(p, l) \in Seq(Nat)
<1>1. CASE l \in DOMAIN p.left
  <2>1. p.left \in Seq(Seq(Nat)) /\ l \in 1..Len(p.left)
    BY <1>1, ProgressFields
  <2>2. p.left[l] \in Seq(Nat)
    BY <2>1, ElementOfSeq
  <2> QED BY <1>1, <2>2 DEF Remaining
<1>2. CASE l \notin DOMAIN p.left
  BY <1>2 DEF Remaining
<1> QED BY <1>1, <1>2

\* Taking a count drops the first of its loop and leaves the other loops alone.
LEMMA TakeProps ==
  ASSUME NEW p \in Progress, NEW l, Remaining(p, l) # <<>>
  PROVE  /\ TakeCount(p, l) \in Progress
         /\ TakeCount(p, l).ids = p.ids
         /\ TakeCount(p, l).entered = p.entered
         /\ \A j : Remaining(TakeCount(p, l), j) =
                     IF j = l THEN Tail(Remaining(p, l)) ELSE Remaining(p, j)
<1>1. l \in DOMAIN p.left /\ Remaining(p, l) = p.left[l]
  BY DEF Remaining
<1>2. p.left \in Seq(Seq(Nat)) /\ l \in 1..Len(p.left)
  BY <1>1, ProgressFields
<1>3. p.left[l] \in Seq(Nat) /\ p.left[l] # <<>>
  BY <1>1, RemainingType
<1> DEFINE t == Tail(p.left[l])
           s == [p.left EXCEPT ![l] = t]
<1>4. t \in Seq(Nat)
  BY <1>3
<1>5. TakeCount(p, l) = [p EXCEPT !.left = s]
  BY DEF TakeCount
<1> HIDE DEF t
<1>6. /\ s \in Seq(Seq(Nat)) /\ Len(s) = Len(p.left)
      /\ \A k \in 1..Len(p.left) : s[k] = IF k = l THEN t ELSE p.left[k]
  BY <1>2, <1>4, ExceptSeq
<1>7. DOMAIN s = DOMAIN p.left
  OBVIOUS
<1> HIDE DEF s
<1>8. /\ TakeCount(p, l) \in Progress /\ TakeCount(p, l).left = s
      /\ TakeCount(p, l).ids = p.ids /\ TakeCount(p, l).entered = p.entered
  BY <1>5, <1>6 DEF Progress
<1>9. ASSUME NEW j
      PROVE  Remaining(TakeCount(p, l), j) = IF j = l THEN t ELSE Remaining(p, j)
  <2>1. CASE j \in DOMAIN p.left
    <3>1. j \in 1..Len(p.left)
      BY <1>2, <2>1
    <3> QED BY <1>6, <1>7, <1>8, <2>1, <3>1 DEF Remaining
  <2>2. CASE j \notin DOMAIN p.left
    BY <1>1, <1>7, <1>8, <2>2 DEF Remaining
  <2> QED BY <2>1, <2>2
<1>10. t = Tail(Remaining(p, l))
  BY <1>1 DEF t
<1> QED BY <1>8, <1>9, <1>10

-----------------------------------------------------------------------------
(* The meanings of tokens, blocks and sequences                            *)

Defined(table, n) == \A m \in 1..(n - 1) : table[m] \in Readings

\* An event stands for a reading.
LEMMA EventReads ==
  ASSUME NEW id \in Nat
  PROVE  EventMeaning(id) \in Readings
<1>1. \A p \in Progress : Meet(p, id) \in Progress
  BY MeetProps
<1> QED BY <1>1 DEF EventMeaning, Readings

\* The same function, n times.
Times(f, n) == [k \in 1..n |-> f]

\* n times the same reading.
LEMMA TimesProps ==
  ASSUME NEW f \in Readings, NEW n \in Nat
  PROVE  /\ Times(f, n) \in Seq(Readings)
         /\ Len(Times(f, n)) = n
         /\ \A k \in 1..n : Times(f, n)[k] = f
BY DEF Times

\* A loop stands for a reading if its body does.
LEMMA LoopReads ==
  ASSUME NEW l, NEW f \in Readings
  PROVE  LoopMeaning(l, f) \in Readings
<1>1. ASSUME NEW p \in Progress, Remaining(p, l) # <<>>
      PROVE  Run([k \in 1..Head(Remaining(p, l)) |-> f], TakeCount(p, l)) \in Progress
  <2>1. TakeCount(p, l) \in Progress
    BY <1>1, TakeProps
  <2>2. Head(Remaining(p, l)) \in Nat
    BY <1>1, RemainingType
  <2>3. Times(f, Head(Remaining(p, l))) \in Seq(Readings)
    BY <2>2, TimesProps
  <2> QED BY <2>1, <2>3, RunType DEF Times
<1>2. \A p \in Progress : Meet(p, NoEvent) \in Progress
  BY MeetProps DEF NoEvent
<1> QED BY <1>1, <1>2 DEF LoopMeaning, Readings

\* Any token stands for a reading once the sequences before it do.
LEMMA TokenReads ==
  ASSUME NEW table, NEW bodies, NEW token \in Token, NEW n \in Nat, Defined(table, n)
  PROVE  TokenMeaning(table, bodies, token, n) \in Readings
<1>1. token.id \in Nat /\ NoEvent \in Nat
  BY DEF Token, NoEvent
<1>2. EventMeaning(token.id) \in Readings /\ EventMeaning(NoEvent) \in Readings
  BY <1>1, EventReads
<1>3. \A m \in 1..(n - 1) : table[m] \in Readings
  BY DEF Defined
<1>4. CASE token.type = "Event"
  BY <1>2, <1>4 DEF TokenMeaning
<1>5. CASE token.type = "Sequence"
  BY <1>2, <1>3, <1>5 DEF TokenMeaning
<1>6. CASE token.type = "Loop" /\ token.id \in DOMAIN bodies /\ bodies[token.id] \in 1..(n - 1)
  <2>1. LoopMeaning(token.id, table[bodies[token.id]]) \in Readings
    BY <1>3, <1>6, LoopReads
  <2> QED BY <1>6, <2>1 DEF TokenMeaning
<1>7. CASE token.type \notin {"Event", "Sequence"} /\
           ~(token.type = "Loop" /\ token.id \in DOMAIN bodies /\ bodies[token.id] \in 1..(n - 1))
  BY <1>2, <1>7 DEF TokenMeaning
<1> QED BY <1>4, <1>5, <1>6, <1>7

\* The functions of the tokens of a block, in order.
TokenMeanings(table, bodies, tokens, n) ==
  [k \in DOMAIN tokens |-> TokenMeaning(table, bodies, tokens[k], n)]

\* So does each token of a block,
LEMMA TokensRead ==
  ASSUME NEW table, NEW bodies, NEW tokens \in Seq(Token), NEW n \in Nat, Defined(table, n)
  PROVE  /\ TokenMeanings(table, bodies, tokens, n) \in Seq(Readings)
         /\ Len(TokenMeanings(table, bodies, tokens, n)) = Len(tokens)
         /\ \A k \in 1..Len(tokens) : TokenMeanings(table, bodies, tokens, n)[k] =
                                        TokenMeaning(table, bodies, tokens[k], n)
<1> DEFINE T == TokenMeanings(table, bodies, tokens, n)
<1>1. \A k \in 1..Len(tokens) : tokens[k] \in Token
  BY ElementOfSeq
<1>2. \A k \in 1..Len(tokens) : TokenMeaning(table, bodies, tokens[k], n) \in Readings
  BY <1>1, TokenReads
<1>3. T = [k \in 1..Len(tokens) |-> TokenMeaning(table, bodies, tokens[k], n)]
  BY DEF TokenMeanings
<1> HIDE DEF T
<1>4. T \in [1..Len(tokens) -> Readings]
  BY <1>2, <1>3
<1> QED BY <1>3, <1>4 DEF T

\* the block,
LEMMA BlockReads ==
  ASSUME NEW table, NEW bodies, NEW tokens \in Seq(Token), NEW n \in Nat, Defined(table, n)
  PROVE  /\ BlockMeaning(table, bodies, tokens, n) \in Readings
         /\ \A p \in Progress : BlockMeaning(table, bodies, tokens, n)[p] =
                                  Run(TokenMeanings(table, bodies, tokens, n), p)
<1> DEFINE T == TokenMeanings(table, bodies, tokens, n)
<1>1. \A p \in Progress : Run(T, p) \in Progress
  BY TokensRead, RunType
<1>2. BlockMeaning(table, bodies, tokens, n) = [p \in Progress |-> Run(T, p)]
  BY DEF BlockMeaning, TokenMeanings
<1> HIDE DEF T
<1> QED BY <1>1, <1>2 DEF Readings, T

\* and a sequence, which is entered before its tokens are read.
LEMMA SequenceReads ==
  ASSUME NEW table, NEW bodies, NEW tokens \in Seq(Token), NEW n \in Nat \ {0}, Defined(table, n)
  PROVE  /\ SequenceMeaning(table, bodies, tokens, n) \in Readings
         /\ \A p \in Progress : SequenceMeaning(table, bodies, tokens, n)[p] =
                                  BlockMeaning(table, bodies, tokens, n)[Enter(p, n)]
<1> DEFINE B == BlockMeaning(table, bodies, tokens, n)
<1>1. B \in Readings
  BY BlockReads
<1>2. \A p \in Progress : Enter(p, n) \in Progress
  BY EnterProps
<1>3. SequenceMeaning(table, bodies, tokens, n) = [p \in Progress |-> B[Enter(p, n)]]
  BY DEF SequenceMeaning
<1> HIDE DEF B
<1> QED BY <1>1, <1>2, <1>3 DEF Readings, B

\* What a token of sequence n may refer to.
Refers(bodies, token, n) ==
  \/ token.type = "Event"
  \/ token.type = "Sequence" /\ token.id \in 1..(n - 1)
  \/ token.type = "Loop" /\ token.id \in DOMAIN bodies /\ bodies[token.id] \in 1..(n - 1)

\* The tables agree on the sequences before n.
Agree(table, table2, n) == \A k \in 1..(n - 1) : table[k] = table2[k]

BodiesGrow(bodies, bodies2) ==
  \A l \in DOMAIN bodies : l \in DOMAIN bodies2 /\ bodies2[l] = bodies[l]

\* Tables that agree on what a token refers to agree on the token.
LEMMA TokenGrows ==
  ASSUME NEW table, NEW bodies, NEW table2, NEW bodies2, NEW token,
         NEW n \in Nat, NEW m \in Nat, n <= m,
         Agree(table, table2, n), BodiesGrow(bodies, bodies2), Refers(bodies, token, n)
  PROVE  TokenMeaning(table, bodies, token, n) = TokenMeaning(table2, bodies2, token, m)
<1>1. CASE token.type = "Event"
  BY <1>1 DEF TokenMeaning
<1>2. CASE token.type = "Sequence"
  <2>1. token.id \in 1..(n - 1) /\ token.id \in 1..(m - 1)
    BY <1>2 DEF Refers
  <2>2. table[token.id] = table2[token.id]
    BY <2>1 DEF Agree
  <2> QED BY <1>2, <2>1, <2>2 DEF TokenMeaning
<1>3. CASE token.type = "Loop"
  <2>1. token.id \in DOMAIN bodies /\ bodies[token.id] \in 1..(n - 1)
    BY <1>3 DEF Refers
  <2>2. token.id \in DOMAIN bodies2 /\ bodies2[token.id] = bodies[token.id]
    BY <2>1 DEF BodiesGrow
  <2>3. bodies2[token.id] \in 1..(m - 1)
    BY <2>1, <2>2
  <2>4. table[bodies[token.id]] = table2[bodies[token.id]]
    BY <2>1 DEF Agree
  <2> QED BY <1>3, <2>1, <2>2, <2>3, <2>4 DEF TokenMeaning
<1> QED BY <1>1, <1>2, <1>3 DEF Refers

\* The meaning of a token of sequence n depends on the sequences before n only.
LEMMA SameToken ==
  ASSUME NEW table, NEW bodies, NEW table2, NEW token, NEW n \in Nat,
         \A k \in 1..(n - 1) : table[k] = table2[k]
  PROVE  TokenMeaning(table, bodies, token, n) = TokenMeaning(table2, bodies, token, n)
BY DEF TokenMeaning

\* Two tables that agree on each token of a block agree on the block.
LEMMA SameBlock ==
  ASSUME NEW table, NEW bodies, NEW table2, NEW bodies2, NEW tokens \in Seq(Token),
         NEW n, NEW m,
         \A k \in 1..Len(tokens) : TokenMeaning(table, bodies, tokens[k], n) =
                                     TokenMeaning(table2, bodies2, tokens[k], m)
  PROVE  BlockMeaning(table, bodies, tokens, n) = BlockMeaning(table2, bodies2, tokens, m)
<1>1. DOMAIN tokens = 1..Len(tokens)
  OBVIOUS
<1>2. [k \in DOMAIN tokens |-> TokenMeaning(table, bodies, tokens[k], n)] =
        [k \in DOMAIN tokens |-> TokenMeaning(table2, bodies2, tokens[k], m)]
  BY <1>1
<1> QED BY <1>2, Zenon DEF BlockMeaning

\* A block of a table is a sequence of tokens.
LEMMA BlockTokens ==
  ASSUME NEW blocks \in Seq(Seq(Token)), NEW n \in 1..Len(blocks)
  PROVE  blocks[n] \in Seq(Token) /\ n \in Nat \ {0}
<1>1. blocks[n] \in Seq(Token)
  BY ElementOfSeq
<1> QED BY <1>1

\* The first n sequences have meanings that fit together.
Means(blocks, bodies, n, table) ==
  /\ table \in [1..n -> Readings]
  /\ \A m \in 1..n : table[m] = SequenceMeaning(table, bodies, blocks[m], m)

\* What a sequence stands for depends on the sequences before it only.
LEMMA SameSequence ==
  ASSUME NEW table, NEW bodies, NEW table2, NEW tokens \in Seq(Token), NEW n \in Nat,
         \A k \in 1..(n - 1) : table[k] = table2[k]
  PROVE  SequenceMeaning(table, bodies, tokens, n) = SequenceMeaning(table2, bodies, tokens, n)
<1>1. \A k \in 1..Len(tokens) : TokenMeaning(table, bodies, tokens[k], n) =
                                  TokenMeaning(table2, bodies, tokens[k], n)
  BY SameToken
<1>2. BlockMeaning(table, bodies, tokens, n) = BlockMeaning(table2, bodies, tokens, n)
  BY <1>1, SameBlock
<1> QED BY <1>2, Zenon DEF SequenceMeaning

\* The recursive table of meanings exists, whatever the blocks hold.
LEMMA MeaningsExist ==
  ASSUME NEW blocks \in Seq(Seq(Token)), NEW bodies
  PROVE  \E table : Means(blocks, bodies, Len(blocks), table)
<1> DEFINE P == {n \in Nat : n <= Len(blocks) => \E table : Means(blocks, bodies, n, table)}
<1>1. 0 \in P
  <2> DEFINE t == [m \in 1..0 |-> SequenceMeaning(<<>>, bodies, <<>>, m)]
  <2>1. Means(blocks, bodies, 0, t)
    BY DEF Means
  <2> QED BY <2>1
<1>2. ASSUME NEW n \in Nat, n \in P PROVE n + 1 \in P
  <2> SUFFICES ASSUME n + 1 <= Len(blocks) PROVE \E s : Means(blocks, bodies, n + 1, s)
    OBVIOUS
  <2>1. PICK t : Means(blocks, bodies, n, t)
    BY <1>2
  <2> DEFINE new == SequenceMeaning(t, bodies, blocks[n + 1], n + 1)
             s == [m \in 1..(n + 1) |-> IF m = n + 1 THEN new ELSE t[m]]
  <2>2. Defined(t, n + 1)
    BY <2>1 DEF Means, Defined
  <2>3. blocks[n + 1] \in Seq(Token) /\ n + 1 \in Nat \ {0}
    BY BlockTokens
  <2>4. new \in Readings
    BY <2>2, <2>3, SequenceReads
  <2> HIDE DEF new
  <2>5. s \in [1..(n + 1) -> Readings]
    BY <2>1, <2>4 DEF Means
  <2>6. \A m \in 1..n : s[m] = t[m]
    OBVIOUS
  <2>7. s[n + 1] = new
    OBVIOUS
  <2> HIDE DEF s
  <2>8. ASSUME NEW m \in 1..(n + 1)
        PROVE  s[m] = SequenceMeaning(s, bodies, blocks[m], m)
    <3>1. m \in Nat /\ \A k \in 1..(m - 1) : k \in 1..n
      OBVIOUS
    <3>2. \A k \in 1..(m - 1) : t[k] = s[k]
      BY <2>6, <3>1
    <3>3. m \in 1..Len(blocks)
      OBVIOUS
    <3>4. blocks[m] \in Seq(Token)
      BY <3>3, BlockTokens
    <3>5. SequenceMeaning(t, bodies, blocks[m], m) = SequenceMeaning(s, bodies, blocks[m], m)
      BY <3>1, <3>2, <3>4, SameSequence
    <3>6. CASE m = n + 1
      BY <2>7, <3>5, <3>6 DEF new
    <3>7. CASE m # n + 1
      <4>1. m \in 1..n
        BY <3>7
      <4>2. t[m] = SequenceMeaning(t, bodies, blocks[m], m)
        BY <2>1, <4>1 DEF Means
      <4> QED BY <2>6, <3>5, <4>1, <4>2
    <3> QED BY <3>6, <3>7
  <2>9. Means(blocks, bodies, n + 1, s)
    BY <2>5, <2>8 DEF Means
  <2> QED BY <2>9
<1> HIDE DEF P
<1>3. Nat \subseteq P
  BY <1>1, <1>2, SetInduction
<1>4. Len(blocks) \in P
  BY <1>3
<1> QED BY <1>4 DEF P

\* Meanings is a table of functions, each made of those before it.
LEMMA MeaningsAre ==
  ASSUME NEW blocks \in Seq(Seq(Token)), NEW bodies
  PROVE  \A n \in 1..Len(blocks) :
           /\ Defined(Meanings(blocks, bodies), n)
           /\ Meanings(blocks, bodies)[n] \in Readings
           /\ Meanings(blocks, bodies)[n] =
                SequenceMeaning(Meanings(blocks, bodies), bodies, blocks[n], n)
<1> DEFINE N == Len(blocks)
           Step(f) == [n \in 1..N |-> SequenceMeaning(f, bodies, blocks[n], n)]
           T == CHOOSE f : f = Step(f)
<1>1. PICK t : Means(blocks, bodies, N, t)
  BY MeaningsExist
<1>2. t = Step(t)
  BY <1>1 DEF Means
<1>3. T = Step(T)
  BY <1>2
<1>4. Meanings(blocks, bodies) = T
  BY DEF Meanings
<1> HIDE DEF T
<1>5. \A n \in 1..N : T[n] = SequenceMeaning(T, bodies, blocks[n], n)
  BY <1>3
<1> DEFINE P == {n \in Nat : n <= N => Defined(T, n + 1)}
<1>6. 0 \in P
  BY DEF Defined
<1>7. ASSUME NEW n \in Nat, n \in P PROVE n + 1 \in P
  <2> SUFFICES ASSUME n + 1 <= N PROVE Defined(T, n + 2)
    OBVIOUS
  <2>1. Defined(T, n + 1)
    BY <1>7
  <2>2. blocks[n + 1] \in Seq(Token) /\ n + 1 \in Nat \ {0} /\ n + 1 \in 1..N
    BY BlockTokens
  <2>3. SequenceMeaning(T, bodies, blocks[n + 1], n + 1) \in Readings
    BY <2>1, <2>2, SequenceReads
  <2>4. T[n + 1] \in Readings
    BY <1>5, <2>2, <2>3
  <2> QED BY <2>1, <2>4 DEF Defined
<1> HIDE DEF P
<1>8. Nat \subseteq P
  BY <1>6, <1>7, SetInduction
<1>9. Defined(T, N + 1)
  <2>1. N \in P
    BY <1>8
  <2> QED BY <2>1 DEF P
<1>10. \A n \in 1..N : Defined(T, n) /\ T[n] \in Readings
  BY <1>9 DEF Defined
<1> QED BY <1>4, <1>5, <1>10

\* The tokens of the first sequences refer to sequences before them.
RefersDown(blocks, bodies) ==
  \A n \in 1..Len(blocks) : \A k \in 1..Len(blocks[n]) : Refers(bodies, blocks[n][k], n)

BlocksGrow(blocks, blocks2) ==
  Len(blocks) <= Len(blocks2) /\ \A n \in 1..Len(blocks) : blocks2[n] = blocks[n]

\* New sequences and loops change no meaning.
LEMMA MeaningsGrow ==
  ASSUME NEW blocks \in Seq(Seq(Token)), NEW blocks2 \in Seq(Seq(Token)),
         NEW bodies, NEW bodies2, BlocksGrow(blocks, blocks2),
         BodiesGrow(bodies, bodies2), RefersDown(blocks, bodies)
  PROVE  \A n \in 1..Len(blocks) : Meanings(blocks2, bodies2)[n] = Meanings(blocks, bodies)[n]
<1> DEFINE N == Len(blocks)
           T == Meanings(blocks, bodies)
           U == Meanings(blocks2, bodies2)
           P == {n \in Nat : n <= N => Agree(T, U, n + 1)}
<1>0. Len(blocks) <= Len(blocks2) /\ \A n \in 1..N : blocks2[n] = blocks[n]
  BY DEF BlocksGrow
<1>1. \A n \in 1..N : T[n] = SequenceMeaning(T, bodies, blocks[n], n)
  BY MeaningsAre
<1>2. \A n \in 1..N : U[n] = SequenceMeaning(U, bodies2, blocks[n], n)
  <2>1. \A n \in 1..N : n \in 1..Len(blocks2)
    BY <1>0
  <2> QED BY <1>0, <2>1, MeaningsAre
<1> HIDE DEF T, U
<1>3. 0 \in P
  BY DEF Agree
<1>4. ASSUME NEW n \in Nat, n \in P PROVE n + 1 \in P
  <2> SUFFICES ASSUME n + 1 <= N PROVE Agree(T, U, (n + 1) + 1)
    OBVIOUS
  <2> DEFINE tokens == blocks[n + 1]
             c == n + 1
  <2>1. Agree(T, U, n + 1)
    BY <1>4
  <2>2. c \in 1..N /\ c \in Nat /\ c <= c /\ c - 1 = n
    OBVIOUS
  <2>3. tokens \in Seq(Token)
    BY <2>2, BlockTokens
  <2>4. \A k \in 1..Len(tokens) : Refers(bodies, tokens[k], c)
    BY <2>2 DEF RefersDown
  <2>5. T[c] = SequenceMeaning(T, bodies, tokens, c) /\ U[c] = SequenceMeaning(U, bodies2, tokens, c)
    BY <1>1, <1>2, <2>2
  <2> HIDE DEF c, tokens
  <2>7. Agree(T, U, c)
    BY <2>1 DEF c
  <2>8. ASSUME NEW k \in 1..Len(tokens)
        PROVE  TokenMeaning(T, bodies, tokens[k], c) = TokenMeaning(U, bodies2, tokens[k], c)
    <3>1. Refers(bodies, tokens[k], c)
      BY <2>4
    <3> QED BY <2>2, <2>7, <3>1, TokenGrows
  <2>9. BlockMeaning(T, bodies, tokens, c) = BlockMeaning(U, bodies2, tokens, c)
    BY <2>3, <2>8, SameBlock
  <2>10. SequenceMeaning(T, bodies, tokens, c) = SequenceMeaning(U, bodies2, tokens, c)
    BY <2>9, Zenon DEF SequenceMeaning
  <2>11. T[c] = U[c]
    BY <2>5, <2>10
  <2>12. \A m \in 1..(((n + 1) + 1) - 1) : m \in 1..((n + 1) - 1) \/ m = c
    BY DEF c
  <2> QED BY <2>1, <2>11, <2>12 DEF Agree
<1> HIDE DEF P
<1>5. Nat \subseteq P
  BY <1>3, <1>4, SetInduction
<1>6. N \in P
  BY <1>5
<1>7. Agree(T, U, N + 1)
  BY <1>6 DEF P
<1> QED BY <1>7 DEF Agree, T, U

-----------------------------------------------------------------------------
(* Classes of functions that hold the meaning of every token               *)

\* G holds the meanings of events, and what they and the loops of L make of the
\* functions of G.
Closed(G, L) ==
  /\ G \subseteq Readings
  /\ \A id \in Nat : EventMeaning(id) \in G
  /\ \A fs \in Seq(G) : [p \in Progress |-> Run(fs, p)] \in G
  /\ \A f \in G : \A n \in Nat \ {0} : [p \in Progress |-> f[Enter(p, n)]] \in G
  /\ \A f \in G : \A l \in L : LoopMeaning(l, f) \in G

\* The loops that sequence n can meet are in L.
MeetsOnly(bodies, n, L) == \A l \in DOMAIN bodies : bodies[l] \in 1..(n - 1) => l \in L

Holds(G, table, n) == \A k \in 1..(n - 1) : table[k] \in G

\* A class of readings that is closed holds every token over tables in it,
LEMMA TokenInClass ==
  ASSUME NEW G, NEW L, Closed(G, L), NEW table, NEW bodies, NEW token \in Token, NEW n \in Nat,
         Holds(G, table, n), MeetsOnly(bodies, n, L)
  PROVE  TokenMeaning(table, bodies, token, n) \in G
<1>1. token.id \in Nat /\ NoEvent \in Nat
  BY DEF Token, NoEvent
<1>2. EventMeaning(token.id) \in G /\ EventMeaning(NoEvent) \in G
  BY <1>1 DEF Closed
<1>3. CASE token.type = "Event"
  BY <1>2, <1>3 DEF TokenMeaning
<1>4. CASE token.type = "Sequence"
  BY <1>2, <1>4 DEF TokenMeaning, Holds
<1>5. CASE token.type = "Loop" /\ token.id \in DOMAIN bodies /\ bodies[token.id] \in 1..(n - 1)
  <2>1. table[bodies[token.id]] \in G /\ token.id \in L
    BY <1>5 DEF Holds, MeetsOnly
  <2>2. LoopMeaning(token.id, table[bodies[token.id]]) \in G
    BY <2>1 DEF Closed
  <2> QED BY <1>5, <2>2 DEF TokenMeaning
<1>6. CASE token.type \notin {"Event", "Sequence"} /\
           ~(token.type = "Loop" /\ token.id \in DOMAIN bodies /\ bodies[token.id] \in 1..(n - 1))
  BY <1>2, <1>6 DEF TokenMeaning
<1> QED BY <1>3, <1>4, <1>5, <1>6

\* and every block.
LEMMA BlockInClass ==
  ASSUME NEW G, NEW L, Closed(G, L), NEW table, NEW bodies, NEW tokens \in Seq(Token),
         NEW n \in Nat, Holds(G, table, n), MeetsOnly(bodies, n, L)
  PROVE  BlockMeaning(table, bodies, tokens, n) \in G
<1> DEFINE T == TokenMeanings(table, bodies, tokens, n)
<1>1. \A k \in 1..Len(tokens) : tokens[k] \in Token
  BY ElementOfSeq
<1>2. \A k \in 1..Len(tokens) : TokenMeaning(table, bodies, tokens[k], n) \in G
  BY <1>1, TokenInClass
<1>3. T = [k \in 1..Len(tokens) |-> TokenMeaning(table, bodies, tokens[k], n)]
  BY DEF TokenMeanings
<1>4. BlockMeaning(table, bodies, tokens, n) = [p \in Progress |-> Run(T, p)]
  BY DEF BlockMeaning, TokenMeanings
<1> HIDE DEF T
<1>5. T \in Seq(G)
  BY <1>2, <1>3
<1> QED BY <1>4, <1>5 DEF Closed

\* The meanings of the sequences before n, and what they make of more tokens.
LEMMA TableInClass ==
  ASSUME NEW blocks \in Seq(Seq(Token)), NEW bodies, NEW G, NEW L, Closed(G, L),
         NEW n \in 1..(Len(blocks) + 1), MeetsOnly(bodies, n, L)
  PROVE  Holds(G, Meanings(blocks, bodies), n)
<1> DEFINE T == Meanings(blocks, bodies)
           P == {m \in Nat : m <= n - 1 => Holds(G, T, m + 1)}
<1>1. \A m \in 1..Len(blocks) : T[m] = SequenceMeaning(T, bodies, blocks[m], m)
  BY MeaningsAre
<1> HIDE DEF T
<1>2. 0 \in P
  BY DEF Holds
<1>3. ASSUME NEW m \in Nat, m \in P PROVE m + 1 \in P
  <2> SUFFICES ASSUME m + 1 <= n - 1 PROVE Holds(G, T, (m + 1) + 1)
    OBVIOUS
  <2> DEFINE c == m + 1
             B == BlockMeaning(T, bodies, blocks[c], c)
  <2>1. Holds(G, T, c)
    BY <1>3
  <2>2. c \in 1..Len(blocks) /\ c \in Nat \ {0} /\ \A k \in 1..(c - 1) : k \in 1..(n - 1)
    OBVIOUS
  <2> HIDE DEF c
  <2>3. MeetsOnly(bodies, c, L)
    BY <2>2 DEF MeetsOnly
  <2>4. blocks[c] \in Seq(Token)
    BY <2>2, BlockTokens
  <2>5. B \in G
    BY <2>1, <2>2, <2>3, <2>4, BlockInClass
  <2>6. SequenceMeaning(T, bodies, blocks[c], c) = [p \in Progress |-> B[Enter(p, c)]]
    BY DEF SequenceMeaning
  <2> HIDE DEF B
  <2>7. T[c] \in G
    BY <1>1, <2>2, <2>5, <2>6 DEF Closed
  <2>8. \A k \in 1..(((m + 1) + 1) - 1) : k \in 1..(c - 1) \/ k = c
    BY DEF c
  <2> QED BY <2>1, <2>7, <2>8 DEF Holds
<1> HIDE DEF P
<1>4. Nat \subseteq P
  BY <1>2, <1>3, SetInduction
<1>5. n - 1 \in P
  BY <1>4
<1>6. Holds(G, T, (n - 1) + 1)
  BY <1>5 DEF P
<1>7. (n - 1) + 1 = n
  OBVIOUS
<1> QED BY <1>6, <1>7 DEF T

\* The functions that leave a set of progresses never.
Keeps(D) == {f \in Readings : \A p \in D : f[p] \in D}

\* No step leaves D, where only the loops of L are met.
Kept(D, L) ==
  /\ D \subseteq Progress
  /\ \A p \in D : \A id \in Nat : Meet(p, id) \in D
  /\ \A p \in D : \A n \in Nat \ {0} : Enter(p, n) \in D
  /\ \A p \in D : \A l \in L : Remaining(p, l) # <<>> => TakeCount(p, l) \in D

\* Readings that stay in a set of progresses stay in it one after the other,
LEMMA RunKeeps ==
  ASSUME NEW D, D \subseteq Progress, NEW fs \in Seq(Keeps(D)), NEW p \in D
  PROVE  fs \in Seq(Readings) /\ Run(fs, p) \in D
<1> DEFINE Rel == {pq \in Progress \X Progress : pq[1] \in D}
<1>1. fs \in Seq(Readings)
  BY DEF Keeps
<1>2. ASSUME NEW k \in 1..Len(fs) PROVE KeepRelated(fs[k], fs[k], Rel)
  <2>1. fs[k] \in Keeps(D)
    BY ElementOfSeq
  <2> QED BY <2>1 DEF KeepRelated, Keeps, Readings
<1>3. <<p, p>> \in Rel
  OBVIOUS
<1> HIDE DEF Rel
<1>4. <<Run(fs, p), Run(fs, p)>> \in Rel
  BY <1>1, <1>2, <1>3, RunRelates
<1> QED BY <1>1, <1>4 DEF Rel

\* and as the body of a loop,
LEMMA LoopKeeps ==
  ASSUME NEW D, NEW L, Kept(D, L), NEW l \in L, NEW f \in Keeps(D)
  PROVE  LoopMeaning(l, f) \in Keeps(D)
<1>1. f \in Readings
  BY DEF Keeps
<1>2. LoopMeaning(l, f) \in Readings
  BY <1>1, LoopReads
<1>3. ASSUME NEW p \in D PROVE LoopMeaning(l, f)[p] \in D
  <2>1. p \in Progress /\ D \subseteq Progress
    BY DEF Kept
  <2>2. CASE Remaining(p, l) = <<>>
    <3>1. LoopMeaning(l, f)[p] = Meet(p, NoEvent)
      BY <2>1, <2>2 DEF LoopMeaning
    <3>2. NoEvent \in Nat
      BY DEF NoEvent
    <3> QED BY <3>1, <3>2 DEF Kept
  <2>3. CASE Remaining(p, l) # <<>>
    <3> DEFINE h == Head(Remaining(p, l))
    <3>1. h \in Nat
      BY <2>1, <2>3, RemainingType
    <3>2. LoopMeaning(l, f)[p] = Run(Times(f, h), TakeCount(p, l))
      BY <2>1, <2>3 DEF LoopMeaning, Times
    <3> HIDE DEF h
    <3>3. Times(f, h) \in Seq(Keeps(D))
      BY <3>1 DEF Times
    <3>4. TakeCount(p, l) \in D
      BY <2>3 DEF Kept
    <3> QED BY <2>1, <3>2, <3>3, <3>4, RunKeeps
  <2> QED BY <2>2, <2>3
<1> QED BY <1>2, <1>3 DEF Keeps

\* so that the readings that stay in a set are a closed class.
LEMMA KeepsIsClosed ==
  ASSUME NEW D, NEW L, Kept(D, L)
  PROVE  Closed(Keeps(D), L)
<1> DEFINE G == Keeps(D)
<1>0. D \subseteq Progress
  BY DEF Kept
<1>1. G \subseteq Readings
  BY DEF Keeps
<1>2. ASSUME NEW id \in Nat PROVE EventMeaning(id) \in G
  <2>1. EventMeaning(id) \in Readings
    BY EventReads
  <2>2. \A p \in D : EventMeaning(id)[p] = Meet(p, id)
    BY <1>0 DEF EventMeaning
  <2>3. \A p \in D : Meet(p, id) \in D
    BY DEF Kept
  <2> QED BY <2>1, <2>2, <2>3 DEF Keeps
<1>3. ASSUME NEW fs \in Seq(G) PROVE [p \in Progress |-> Run(fs, p)] \in G
  <2>1. fs \in Seq(Readings)
    BY DEF Keeps
  <2>2. \A p \in Progress : Run(fs, p) \in Progress
    BY <2>1, RunType
  <2>3. \A p \in D : Run(fs, p) \in D
    BY <1>0, RunKeeps
  <2> QED BY <1>0, <2>2, <2>3 DEF Keeps, Readings
<1>4. ASSUME NEW f \in G, NEW n \in Nat \ {0}
      PROVE  [p \in Progress |-> f[Enter(p, n)]] \in G
  <2>1. \A p \in Progress : Enter(p, n) \in Progress
    BY EnterProps
  <2>2. \A p \in D : Enter(p, n) \in D
    BY DEF Kept
  <2> QED BY <1>0, <2>1, <2>2 DEF Keeps, Readings
<1>5. \A f \in G : \A l \in L : LoopMeaning(l, f) \in G
  BY LoopKeeps
<1> HIDE DEF G
<1> QED BY <1>1, <1>2, <1>3, <1>4, <1>5 DEF Closed, G

-----------------------------------------------------------------------------
(* Two readings of the same tokens                                         *)

\* Everything met so far is an event.
Clean(p) == \A k \in 1..Len(p.ids) : p.ids[k] # NoEvent

\* The reading went wrong, or has used one of the last n counts of loop l.
Spent(l, n) == {p \in Progress : ~Clean(p) \/ Len(Remaining(p, l)) < n}

\* A reading that met an invalid token stays unclean.
LEMMA MeetUnclean ==
  ASSUME NEW p \in Progress, NEW id \in Nat, ~Clean(p) \/ id = NoEvent
  PROVE  ~Clean(Meet(p, id))
<1> DEFINE s == p.ids
           t == Append(s, id)
<1>1. Meet(p, id).ids = t
  BY MeetProps
<1>2. /\ s \in Seq(Nat) /\ Len(t) = Len(s) + 1
      /\ \A k \in 1..Len(s) : t[k] = s[k] /\ k \in 1..Len(t)
      /\ t[Len(s) + 1] = id /\ Len(s) + 1 \in 1..Len(t)
  BY ProgressFields
<1> HIDE DEF t
<1> QED BY <1>1, <1>2 DEF Clean

\* What a step leaves, loop by loop.
LEMMA SameRemaining ==
  ASSUME NEW p, NEW q, q.left = p.left
  PROVE  \A l : Remaining(q, l) = Remaining(p, l)
BY DEF Remaining

\* A progress in which a loop has used up its counts stays one.
LEMMA SpentKept ==
  ASSUME NEW l, NEW n \in Nat, NEW L
  PROVE  Kept(Spent(l, n), L)
<1> DEFINE D == Spent(l, n)
<1>1. D \subseteq Progress
  BY DEF Spent
<1>2. ASSUME NEW p \in D, NEW id \in Nat PROVE Meet(p, id) \in D
  <2>1. p \in Progress /\ (~Clean(p) \/ Len(Remaining(p, l)) < n)
    BY DEF Spent
  <2>2. Meet(p, id) \in Progress /\ Remaining(Meet(p, id), l) = Remaining(p, l)
    BY <2>1, MeetProps, SameRemaining
  <2>3. ~Clean(p) => ~Clean(Meet(p, id))
    BY <2>1, MeetUnclean
  <2> QED BY <2>1, <2>2, <2>3 DEF Spent
<1>3. ASSUME NEW p \in D, NEW m \in Nat \ {0} PROVE Enter(p, m) \in D
  <2>1. p \in Progress /\ (~Clean(p) \/ Len(Remaining(p, l)) < n)
    BY DEF Spent
  <2>2. /\ Enter(p, m) \in Progress /\ Enter(p, m).ids = p.ids
        /\ Remaining(Enter(p, m), l) = Remaining(p, l)
    BY <2>1, EnterProps, SameRemaining
  <2>3. Clean(Enter(p, m)) = Clean(p)
    BY <2>2 DEF Clean
  <2> QED BY <2>1, <2>2, <2>3 DEF Spent
<1>4. ASSUME NEW p \in D, NEW j \in L, Remaining(p, j) # <<>> PROVE TakeCount(p, j) \in D
  <2>1. p \in Progress /\ (~Clean(p) \/ Len(Remaining(p, l)) < n)
    BY DEF Spent
  <2>2. /\ TakeCount(p, j) \in Progress /\ TakeCount(p, j).ids = p.ids
        /\ Remaining(TakeCount(p, j), l) =
             IF l = j THEN Tail(Remaining(p, j)) ELSE Remaining(p, l)
    BY <1>4, <2>1, TakeProps
  <2>3. Clean(TakeCount(p, j)) = Clean(p)
    BY <2>2 DEF Clean
  <2>4. Remaining(p, j) \in Seq(Nat) /\ Remaining(p, l) \in Seq(Nat)
    BY <2>1, RemainingType
  <2>5. Len(Tail(Remaining(p, j))) < Len(Remaining(p, j)) /\ Len(Tail(Remaining(p, j))) \in Nat
    BY <1>4, <2>4
  <2>6. Len(Remaining(p, l)) < n => Len(Remaining(TakeCount(p, j), l)) < n
    BY <2>2, <2>4, <2>5
  <2> QED BY <2>1, <2>2, <2>3, <2>6 DEF Spent
<1> HIDE DEF D
<1> QED BY <1>1, <1>2, <1>3, <1>4 DEF Kept, D

\* q has read what p has; it has met sequence n c times more; and the counts that
\* are left of loop l end with b where those of p end with a.
Alike(p, q, l, a, b, n, c) ==
  /\ q.ids = p.ids
  /\ \A k \in Nat : Count(q.entered, k) = Count(p.entered, k) + (IF k = n THEN c ELSE 0)
  /\ \A j \in Nat : j # l => Remaining(q, j) = Remaining(p, j)
  /\ \E rest \in Seq(Nat) : Remaining(p, l) = rest \o a /\ Remaining(q, l) = rest \o b

\* Two readings are alike as long as p has used none of a.
Twins(l, a, b, n, c) ==
  {pq \in Progress \X Progress :
     pq[1] \in Spent(l, Len(a)) \/ Alike(pq[1], pq[2], l, a, b, n, c)}

TwinReadings(l, a, b, n, c) ==
  {f \in Keeps(Spent(l, Len(a))) : KeepRelated(f, f, Twins(l, a, b, n, c))}

\* Two progresses that are alike stay so when both meet an event,
LEMMA AlikeMeet ==
  ASSUME NEW p \in Progress, NEW q \in Progress, NEW l, NEW a, NEW b, NEW n, NEW c,
         Alike(p, q, l, a, b, n, c), NEW id \in Nat
  PROVE  Alike(Meet(p, id), Meet(q, id), l, a, b, n, c)
<1>1. /\ Meet(p, id).ids = Append(p.ids, id) /\ Meet(p, id).entered = p.entered
      /\ Meet(q, id).ids = Append(q.ids, id) /\ Meet(q, id).entered = q.entered
      /\ Meet(p, id).left = p.left /\ Meet(q, id).left = q.left
  BY MeetProps
<1>2. /\ \A j : Remaining(Meet(p, id), j) = Remaining(p, j)
      /\ \A j : Remaining(Meet(q, id), j) = Remaining(q, j)
  BY <1>1, SameRemaining
<1>3. q.ids = p.ids
  BY DEF Alike
<1>4. Meet(q, id).ids = Meet(p, id).ids
  BY <1>1, <1>3
<1> QED BY <1>1, <1>2, <1>4 DEF Alike

\* and when both enter a sequence.
LEMMA AlikeEnter ==
  ASSUME NEW p \in Progress, NEW q \in Progress, NEW l, NEW a, NEW b, NEW n, NEW c \in Nat,
         Alike(p, q, l, a, b, n, c), NEW m \in Nat \ {0}
  PROVE  Alike(Enter(p, m), Enter(q, m), l, a, b, n, c)
<1>1. /\ Enter(p, m).ids = p.ids /\ Enter(p, m).entered = CountUp(p.entered, m)
      /\ Enter(q, m).ids = q.ids /\ Enter(q, m).entered = CountUp(q.entered, m)
      /\ Enter(p, m).left = p.left /\ Enter(q, m).left = q.left
  BY EnterProps
<1>2. /\ \A j : Remaining(Enter(p, m), j) = Remaining(p, j)
      /\ \A j : Remaining(Enter(q, m), j) = Remaining(q, j)
  BY <1>1, SameRemaining
<1>3. ASSUME NEW k \in Nat
      PROVE  Count(Enter(q, m).entered, k) = Count(Enter(p, m).entered, k) + (IF k = n THEN c ELSE 0)
  <2>1. /\ Count(CountUp(p.entered, m), k) = Count(p.entered, k) + (IF k = m THEN 1 ELSE 0)
        /\ Count(CountUp(q.entered, m), k) = Count(q.entered, k) + (IF k = m THEN 1 ELSE 0)
        /\ Count(p.entered, k) \in Nat /\ Count(q.entered, k) \in Nat
    BY ProgressFields, CountUpProps
  <2>2. Count(q.entered, k) = Count(p.entered, k) + (IF k = n THEN c ELSE 0)
    BY DEF Alike
  <2> QED BY <1>1, <2>1, <2>2
<1> QED BY <1>1, <1>2, <1>3 DEF Alike

\* Of two readings that are alike, the first is spent, or both take the same count.
LEMMA AlikeTake ==
  ASSUME NEW p \in Progress, NEW q \in Progress, NEW l \in Nat, NEW a \in Seq(Nat), NEW b \in Seq(Nat),
         NEW n, NEW c, Alike(p, q, l, a, b, n, c), NEW j \in Nat, Remaining(p, j) # <<>>
  PROVE  \/ TakeCount(p, j) \in Spent(l, Len(a))
         \/ /\ Remaining(q, j) # <<>>
            /\ Head(Remaining(q, j)) = Head(Remaining(p, j))
            /\ Alike(TakeCount(p, j), TakeCount(q, j), l, a, b, n, c)
<1>1. /\ TakeCount(p, j) \in Progress
      /\ TakeCount(p, j).ids = p.ids /\ TakeCount(p, j).entered = p.entered
      /\ \A i : Remaining(TakeCount(p, j), i) =
                  IF i = j THEN Tail(Remaining(p, j)) ELSE Remaining(p, i)
  BY TakeProps
<1>2. PICK rest \in Seq(Nat) : Remaining(p, l) = rest \o a /\ Remaining(q, l) = rest \o b
  BY DEF Alike
<1>3. CASE j # l
  <2>1. Remaining(q, j) = Remaining(p, j)
    BY <1>3 DEF Alike
  <2>2. /\ TakeCount(q, j).ids = q.ids /\ TakeCount(q, j).entered = q.entered
        /\ \A i : Remaining(TakeCount(q, j), i) =
                    IF i = j THEN Tail(Remaining(q, j)) ELSE Remaining(q, i)
    BY <2>1, TakeProps
  <2>3. Remaining(TakeCount(p, j), l) = rest \o a /\ Remaining(TakeCount(q, j), l) = rest \o b
    BY <1>1, <1>2, <1>3, <2>2
  <2>4. \A i \in Nat : i # l => Remaining(TakeCount(q, j), i) = Remaining(TakeCount(p, j), i)
    BY <1>1, <2>1, <2>2 DEF Alike
  <2>5. Alike(TakeCount(p, j), TakeCount(q, j), l, a, b, n, c)
    BY <1>1, <2>2, <2>3, <2>4 DEF Alike
  <2> QED BY <2>1, <2>5
<1>4. CASE j = l /\ rest = <<>>
  <2>1. Remaining(p, l) = a /\ a # <<>>
    BY <1>2, <1>4
  <2>2. Remaining(TakeCount(p, j), l) = Tail(a)
    BY <1>1, <1>4, <2>1
  <2>3. Len(Tail(a)) < Len(a)
    BY <2>1
  <2> QED BY <1>1, <2>2, <2>3 DEF Spent
<1>5. CASE j = l /\ rest # <<>>
  <2>1. /\ Tail(rest) \in Seq(Nat)
        /\ Head(rest \o a) = Head(rest) /\ Tail(rest \o a) = Tail(rest) \o a
        /\ Head(rest \o b) = Head(rest) /\ Tail(rest \o b) = Tail(rest) \o b
        /\ rest \o b # <<>>
    BY <1>5
  <2>2. Remaining(q, j) # <<>> /\ Head(Remaining(q, j)) = Head(Remaining(p, j))
    BY <1>2, <1>5, <2>1
  <2>3. /\ TakeCount(q, j).ids = q.ids /\ TakeCount(q, j).entered = q.entered
        /\ \A i : Remaining(TakeCount(q, j), i) =
                    IF i = j THEN Tail(Remaining(q, j)) ELSE Remaining(q, i)
    BY <2>2, TakeProps
  <2>4. /\ Remaining(TakeCount(p, j), l) = Tail(rest) \o a
        /\ Remaining(TakeCount(q, j), l) = Tail(rest) \o b
    BY <1>1, <1>2, <1>5, <2>1, <2>3
  <2>5. \A i \in Nat : i # l => Remaining(TakeCount(q, j), i) = Remaining(TakeCount(p, j), i)
    BY <1>1, <1>5, <2>3 DEF Alike
  <2>6. Alike(TakeCount(p, j), TakeCount(q, j), l, a, b, n, c)
    BY <1>1, <2>1, <2>3, <2>4, <2>5 DEF Alike
  <2> QED BY <2>2, <2>6
<1> QED BY <1>3, <1>4, <1>5

\* Readings that keep progresses alike do so one after the other,
LEMMA RunTwins ==
  ASSUME NEW l, NEW a, NEW b, NEW n, NEW c, NEW fs \in Seq(TwinReadings(l, a, b, n, c)),
         NEW p \in Progress, NEW q \in Progress, <<p, q>> \in Twins(l, a, b, n, c)
  PROVE  <<Run(fs, p), Run(fs, q)>> \in Twins(l, a, b, n, c)
<1> DEFINE Rel == Twins(l, a, b, n, c)
<1>1. fs \in Seq(Readings)
  BY DEF TwinReadings, Keeps
<1>2. ASSUME NEW k \in 1..Len(fs) PROVE KeepRelated(fs[k], fs[k], Rel)
  <2>1. fs[k] \in TwinReadings(l, a, b, n, c)
    BY ElementOfSeq
  <2> QED BY <2>1 DEF TwinReadings
<1> HIDE DEF Rel
<1>3. <<p, q>> \in Rel
  BY DEF Rel
<1>4. <<Run(fs, p), Run(fs, q)>> \in Rel
  BY <1>1, <1>2, <1>3, RunRelates
<1> QED BY <1>4 DEF Rel

\* and as the body of a loop,
LEMMA LoopTwins ==
  ASSUME NEW l \in Nat, NEW a \in Seq(Nat), NEW b \in Seq(Nat), NEW n, NEW c,
         NEW f \in TwinReadings(l, a, b, n, c), NEW j \in Nat
  PROVE  LoopMeaning(j, f) \in TwinReadings(l, a, b, n, c)
<1> DEFINE D == Spent(l, Len(a))
<1>0. Len(a) \in Nat /\ D \subseteq Progress
  BY DEF Spent
<1>1. Kept(D, Nat)
  BY <1>0, SpentKept
<1> HIDE DEF D
<1>2. f \in Keeps(D) /\ f \in Readings
  BY DEF TwinReadings, Keeps, D
<1>3. LoopMeaning(j, f) \in Keeps(D)
  BY <1>1, <1>2, LoopKeeps
<1>4. LoopMeaning(j, f) \in Readings /\ \A p \in D : LoopMeaning(j, f)[p] \in D
  BY <1>3 DEF Keeps
<1>5. ASSUME NEW p \in Progress, NEW q \in Progress, Alike(p, q, l, a, b, n, c)
      PROVE  <<LoopMeaning(j, f)[p], LoopMeaning(j, f)[q]>> \in Twins(l, a, b, n, c)
  <2>0. LoopMeaning(j, f)[p] \in Progress /\ LoopMeaning(j, f)[q] \in Progress
    BY <1>4 DEF Readings
  <2>1. CASE Remaining(p, j) = <<>>
    <3>1. LoopMeaning(j, f)[p] = Meet(p, NoEvent)
      BY <2>1 DEF LoopMeaning
    <3>2. NoEvent \in Nat
      BY DEF NoEvent
    <3>3. ~Clean(LoopMeaning(j, f)[p])
      BY <3>1, <3>2, MeetUnclean
    <3>4. LoopMeaning(j, f)[p] \in Spent(l, Len(a))
      BY <2>0, <3>3 DEF Spent
    <3> QED BY <2>0, <3>4 DEF Twins
  <2>2. CASE Remaining(p, j) # <<>>
    <3> DEFINE h == Head(Remaining(p, j))
    <3>1. h \in Nat
      BY <2>2, RemainingType
    <3>2. LoopMeaning(j, f)[p] = Run(Times(f, h), TakeCount(p, j))
      BY <2>2 DEF LoopMeaning, Times
    <3>3. TakeCount(p, j) \in Progress
      BY <2>2, TakeProps
    <3> HIDE DEF h
    <3>4. CASE TakeCount(p, j) \in D
      <4>1. Times(f, h) \in Seq(Keeps(D))
        BY <1>2, <3>1 DEF Times
      <4>2. LoopMeaning(j, f)[p] \in D
        BY <1>0, <3>2, <3>4, <4>1, RunKeeps
      <4> QED BY <2>0, <4>2 DEF Twins, D
    <3>5. CASE TakeCount(p, j) \notin D
      <4>1. /\ Remaining(q, j) # <<>> /\ Head(Remaining(q, j)) = h
            /\ Alike(TakeCount(p, j), TakeCount(q, j), l, a, b, n, c)
        BY <1>5, <2>2, <3>5, AlikeTake DEF h, D
      <4>2. LoopMeaning(j, f)[q] = Run(Times(f, h), TakeCount(q, j))
        BY <4>1 DEF LoopMeaning, Times
      <4>3. TakeCount(q, j) \in Progress
        BY <4>1, TakeProps
      <4>4. <<TakeCount(p, j), TakeCount(q, j)>> \in Twins(l, a, b, n, c)
        BY <3>3, <4>1, <4>3 DEF Twins
      <4>5. Times(f, h) \in Seq(TwinReadings(l, a, b, n, c))
        BY <3>1 DEF Times
      <4> QED BY <3>2, <3>3, <4>2, <4>3, <4>4, <4>5, RunTwins
    <3> QED BY <3>4, <3>5
  <2> QED BY <2>1, <2>2
<1>6. KeepRelated(LoopMeaning(j, f), LoopMeaning(j, f), Twins(l, a, b, n, c))
  <2> SUFFICES ASSUME NEW p \in Progress, NEW q \in Progress, <<p, q>> \in Twins(l, a, b, n, c)
               PROVE  <<LoopMeaning(j, f)[p], LoopMeaning(j, f)[q]>> \in Twins(l, a, b, n, c)
    BY DEF KeepRelated
  <2>1. CASE Alike(p, q, l, a, b, n, c)
    BY <1>5, <2>1
  <2>2. CASE p \in D
    <3>1. LoopMeaning(j, f)[p] \in D
      BY <1>4, <2>2
    <3>2. LoopMeaning(j, f)[p] \in Progress /\ LoopMeaning(j, f)[q] \in Progress
      BY <1>4 DEF Readings
    <3> QED BY <3>1, <3>2 DEF Twins, D
  <2> QED BY <2>1, <2>2 DEF Twins, D
<1> QED BY <1>3, <1>6 DEF TwinReadings, D

\* so that they are a closed class.
LEMMA TwinsAreClosed ==
  ASSUME NEW l \in Nat, NEW a \in Seq(Nat), NEW b \in Seq(Nat), NEW n, NEW c \in Nat
  PROVE  Closed(TwinReadings(l, a, b, n, c), Nat)
<1> DEFINE D == Spent(l, Len(a))
           G == TwinReadings(l, a, b, n, c)
           Rel == Twins(l, a, b, n, c)
<1>1. Len(a) \in Nat /\ Kept(D, Nat)
  BY SpentKept
<1>2. Closed(Keeps(D), Nat)
  BY <1>1, KeepsIsClosed
<1> HIDE DEF D
<1>3. G = {f \in Keeps(D) : KeepRelated(f, f, Rel)}
  BY DEF TwinReadings, D
<1>4. \A f \in Keeps(D) : f \in Readings /\ \A p \in D : f[p] \in D
  BY DEF Keeps
<1>5. Rel = {pq \in Progress \X Progress : pq[1] \in D \/ Alike(pq[1], pq[2], l, a, b, n, c)}
  BY DEF Twins, D
<1> HIDE DEF Rel
<1>6. ASSUME NEW f \in Keeps(D),
             \A p, q \in Progress : Alike(p, q, l, a, b, n, c) => <<f[p], f[q]>> \in Rel
      PROVE  f \in G
  <2>1. ASSUME NEW p \in Progress, NEW q \in Progress, <<p, q>> \in Rel
        PROVE  <<f[p], f[q]>> \in Rel
    <3>1. CASE Alike(p, q, l, a, b, n, c)
      BY <1>6, <3>1
    <3>2. CASE p \in D
      <4>1. f[p] \in D /\ f[p] \in Progress /\ f[q] \in Progress
        BY <1>4, <3>2 DEF Readings
      <4> QED BY <1>5, <4>1
    <3> QED BY <1>5, <2>1, <3>1, <3>2
  <2>2. KeepRelated(f, f, Rel)
    BY <2>1 DEF KeepRelated
  <2> QED BY <1>3, <2>2
<1>7. ASSUME NEW id \in Nat PROVE EventMeaning(id) \in G
  <2>1. EventMeaning(id) \in Keeps(D)
    BY <1>2 DEF Closed
  <2>2. ASSUME NEW p \in Progress, NEW q \in Progress, Alike(p, q, l, a, b, n, c)
        PROVE  <<EventMeaning(id)[p], EventMeaning(id)[q]>> \in Rel
    <3>1. EventMeaning(id)[p] = Meet(p, id) /\ EventMeaning(id)[q] = Meet(q, id)
      BY DEF EventMeaning
    <3>2. Meet(p, id) \in Progress /\ Meet(q, id) \in Progress
      BY MeetProps
    <3>3. Alike(Meet(p, id), Meet(q, id), l, a, b, n, c)
      BY <2>2, AlikeMeet
    <3> QED BY <1>5, <3>1, <3>2, <3>3
  <2> QED BY <1>6, <2>1, <2>2
<1>8. ASSUME NEW fs \in Seq(G) PROVE [p \in Progress |-> Run(fs, p)] \in G
  <2> DEFINE r == [p \in Progress |-> Run(fs, p)]
  <2>1. fs \in Seq(Keeps(D))
    BY <1>3
  <2>2. r \in Keeps(D)
    BY <1>2, <2>1 DEF Closed
  <2>3. ASSUME NEW p \in Progress, NEW q \in Progress, Alike(p, q, l, a, b, n, c)
        PROVE  <<r[p], r[q]>> \in Rel
    <3>1. <<p, q>> \in Twins(l, a, b, n, c)
      BY <2>3 DEF Twins
    <3>2. <<Run(fs, p), Run(fs, q)>> \in Twins(l, a, b, n, c)
      BY <3>1, RunTwins
    <3> QED BY <3>2 DEF Rel
  <2> HIDE DEF r
  <2>4. r \in G
    BY <1>6, <2>2, <2>3
  <2> QED BY <2>4 DEF r
<1>9. ASSUME NEW f \in G, NEW m \in Nat \ {0}
      PROVE  [p \in Progress |-> f[Enter(p, m)]] \in G
  <2> DEFINE r == [p \in Progress |-> f[Enter(p, m)]]
  <2>1. f \in Keeps(D) /\ KeepRelated(f, f, Rel)
    BY <1>3
  <2>2. r \in Keeps(D)
    BY <1>2, <2>1 DEF Closed
  <2>3. ASSUME NEW p \in Progress, NEW q \in Progress, Alike(p, q, l, a, b, n, c)
        PROVE  <<r[p], r[q]>> \in Rel
    <3>1. Enter(p, m) \in Progress /\ Enter(q, m) \in Progress
      BY EnterProps
    <3>2. Alike(Enter(p, m), Enter(q, m), l, a, b, n, c)
      BY <2>3, AlikeEnter
    <3>3. <<Enter(p, m), Enter(q, m)>> \in Rel
      BY <1>5, <3>1, <3>2
    <3> QED BY <2>1, <3>1, <3>3 DEF KeepRelated
  <2> HIDE DEF r
  <2>4. r \in G
    BY <1>6, <2>2, <2>3
  <2> QED BY <2>4 DEF r
<1>10. \A f \in G : \A j \in Nat : LoopMeaning(j, f) \in G
  BY LoopTwins
<1>11. G \subseteq Readings
  BY <1>3, <1>4
<1> HIDE DEF G
<1> QED BY <1>7, <1>8, <1>9, <1>10, <1>11 DEF Closed, G

-----------------------------------------------------------------------------
(* What the rewrites do to a reading                                       *)

\* f is made of events and loops, of any loops or of any but l.
Uniform(f) == \A G : Closed(G, Nat) => f \in G
Without(l, f) == \A G : Closed(G, Nat \ {l}) => f \in G

\* A reading that does not meet some loop is uniform.
LEMMA WithoutIsUniform ==
  ASSUME NEW l, NEW f, Without(l, f)
  PROVE  Uniform(f)
<1>1. ASSUME NEW G, Closed(G, Nat) PROVE Closed(G, Nat \ {l})
  BY <1>1 DEF Closed
<1> QED BY <1>1 DEF Uniform, Without

\* A uniform reading is a reading.
LEMMA UniformReads ==
  ASSUME NEW f, Uniform(f)
  PROVE  f \in Readings
<1>1. f \in Keeps(Spent(0, 0))
  <2>1. Kept(Spent(0, 0), Nat)
    BY SpentKept
  <2>2. Closed(Keeps(Spent(0, 0)), Nat)
    BY <2>1, KeepsIsClosed
  <2> QED BY <2>2 DEF Uniform
<1> QED BY <1>1 DEF Keeps

\* A reading that went wrong stays so.
LEMMA UncleanStays ==
  ASSUME NEW f, Uniform(f), NEW p \in Progress, Clean(f[p])
  PROVE  Clean(p)
<1>1. Kept(Spent(0, 0), Nat)
  BY SpentKept
<1>2. f \in Keeps(Spent(0, 0))
  BY <1>1, KeepsIsClosed DEF Uniform
<1>3. f \in Readings
  BY UniformReads
<1>4. f[p] \in Progress
  BY <1>3 DEF Readings
<1>5. Len(Remaining(f[p], 0)) \in Nat
  BY <1>4, RemainingType
<1>6. f[p] \notin Spent(0, 0)
  BY <1>5 DEF Spent
<1>7. p \notin Spent(0, 0)
  BY <1>2, <1>6 DEF Keeps
<1> QED BY <1>7 DEF Spent

\* What has no loop l leaves its counts alone.
LEMMA QuietKept ==
  ASSUME NEW l, NEW v
  PROVE  Kept({p \in Progress : Remaining(p, l) = v}, Nat \ {l})
<1> DEFINE D == {p \in Progress : Remaining(p, l) = v}
<1>1. \A p \in D : \A id \in Nat : Meet(p, id) \in D
  BY MeetProps, SameRemaining
<1>2. \A p \in D : \A n \in Nat \ {0} : Enter(p, n) \in D
  BY EnterProps, SameRemaining
<1>3. \A p \in D : \A j \in Nat \ {l} : Remaining(p, j) # <<>> => TakeCount(p, j) \in D
  BY TakeProps
<1>4. D \subseteq Progress
  OBVIOUS
<1> HIDE DEF D
<1>5. Kept(D, Nat \ {l})
  BY <1>1, <1>2, <1>3, <1>4 DEF Kept
<1> QED BY <1>5 DEF D

\* A reading that does not meet a loop leaves its counts.
LEMMA QuietReading ==
  ASSUME NEW l, NEW f, Without(l, f), NEW p \in Progress
  PROVE  f[p] \in Progress /\ Remaining(f[p], l) = Remaining(p, l)
<1> DEFINE D == {q \in Progress : Remaining(q, l) = Remaining(p, l)}
<1>1. Kept(D, Nat \ {l})
  BY QuietKept
<1>2. f \in Keeps(D)
  <2>1. Closed(Keeps(D), Nat \ {l})
    BY <1>1, KeepsIsClosed
  <2> QED BY <2>1 DEF Without
<1>3. p \in D
  OBVIOUS
<1>4. f[p] \in D
  BY <1>2, <1>3 DEF Keeps
<1> QED BY <1>4

\* A uniform function keeps readings alike, unless the first is spent.
LEMMA UniformAlike ==
  ASSUME NEW f, Uniform(f), NEW p \in Progress, NEW q \in Progress, NEW l \in Nat,
         NEW a \in Seq(Nat), NEW b \in Seq(Nat), NEW n, NEW c \in Nat,
         Alike(p, q, l, a, b, n, c), Clean(f[p]), Len(Remaining(f[p], l)) >= Len(a)
  PROVE  Alike(f[p], f[q], l, a, b, n, c)
<1>1. f \in TwinReadings(l, a, b, n, c)
  BY TwinsAreClosed DEF Uniform
<1>2. <<p, q>> \in Twins(l, a, b, n, c)
  BY DEF Twins
<1>3. <<f[p], f[q]>> \in Twins(l, a, b, n, c)
  BY <1>1, <1>2 DEF TwinReadings, KeepRelated
<1>4. f[p] \in Progress
  BY <1>3 DEF Twins
<1>5. Len(Remaining(f[p], l)) \in Nat /\ Len(a) \in Nat
  BY <1>4, RemainingType
<1>6. f[p] \notin Spent(l, Len(a))
  BY <1>5 DEF Spent
<1> QED BY <1>3, <1>6 DEF Twins

\* Nothing went wrong, and every count of every loop was used.
Exact(p) == Clean(p) /\ \A l \in Nat : Remaining(p, l) = <<>>

\* q has read what p has, and has entered sequence n c times more.
More(p, q, n, c) ==
  /\ q.ids = p.ids
  /\ \A k \in Nat : Count(q.entered, k) = Count(p.entered, k) + (IF k = n THEN c ELSE 0)
  /\ \A j \in Nat : Remaining(q, j) = Remaining(p, j)

\* Alike without counts of its own is More.
LEMMA AlikeIsMore ==
  ASSUME NEW p \in Progress, NEW q \in Progress, NEW l \in Nat, NEW n, NEW c
  PROVE  Alike(p, q, l, <<>>, <<>>, n, c) <=> More(p, q, n, c)
<1>1. \A rest \in Seq(Nat) : rest \o <<>> = rest
  OBVIOUS
<1>2. Remaining(p, l) \in Seq(Nat)
  BY RemainingType
<1>3. ASSUME Alike(p, q, l, <<>>, <<>>, n, c) PROVE More(p, q, n, c)
  <2>1. PICK rest \in Seq(Nat) : Remaining(p, l) = rest \o <<>> /\ Remaining(q, l) = rest \o <<>>
    BY <1>3 DEF Alike
  <2>2. Remaining(q, l) = Remaining(p, l)
    BY <2>1
  <2> QED BY <1>3, <2>2 DEF Alike, More
<1>4. ASSUME More(p, q, n, c) PROVE Alike(p, q, l, <<>>, <<>>, n, c)
  <2> DEFINE rest == Remaining(p, l)
  <2>1. Remaining(p, l) = rest \o <<>> /\ Remaining(q, l) = rest \o <<>>
    BY <1>1, <1>2, <1>4 DEF More
  <2> QED BY <1>2, <1>4, <2>1 DEF Alike, More
<1> QED BY <1>3, <1>4

\* A uniform reading keeps what one progress has more than another.
LEMMA UniformMore ==
  ASSUME NEW f, Uniform(f), NEW p \in Progress, NEW q \in Progress, NEW n, NEW c \in Nat,
         More(p, q, n, c), Clean(f[p])
  PROVE  More(f[p], f[q], n, c)
<1>1. f[p] \in Progress /\ f[q] \in Progress
  BY UniformReads DEF Readings
<1>2. Alike(p, q, 0, <<>>, <<>>, n, c)
  BY AlikeIsMore
<1>3. Len(Remaining(f[p], 0)) >= Len(<<>>) /\ <<>> \in Seq(Nat)
  BY <1>1, RemainingType
<1>4. Alike(f[p], f[q], 0, <<>>, <<>>, n, c)
  BY <1>2, <1>3, UniformAlike
<1> QED BY <1>1, <1>4, AlikeIsMore

\* Entering sequence n once more.
LEMMA EnterMore ==
  ASSUME NEW p \in Progress, NEW q \in Progress, NEW n \in Nat \ {0}, NEW c \in Nat,
         More(p, q, n, c)
  PROVE  More(p, Enter(q, n), n, c + 1)
<1>1. /\ Enter(q, n).ids = q.ids /\ Enter(q, n).entered = CountUp(q.entered, n)
      /\ \A j : Remaining(Enter(q, n), j) = Remaining(q, j)
  BY EnterProps, SameRemaining
<1>2. ASSUME NEW k \in Nat
      PROVE  Count(Enter(q, n).entered, k) = Count(p.entered, k) + (IF k = n THEN c + 1 ELSE 0)
  <2>1. /\ Count(CountUp(q.entered, n), k) = Count(q.entered, k) + (IF k = n THEN 1 ELSE 0)
        /\ Count(q.entered, k) \in Nat
    BY ProgressFields, CountUpProps
  <2>2. Count(p.entered, k) \in Nat
    BY ProgressFields, CountUpProps
  <2>3. Count(q.entered, k) = Count(p.entered, k) + (IF k = n THEN c ELSE 0)
    BY DEF More
  <2> QED BY <1>1, <2>1, <2>2, <2>3
<1> QED BY <1>1, <1>2 DEF More

\* A progress has nothing more than itself.
LEMMA SameIsMore ==
  ASSUME NEW p \in Progress, NEW n
  PROVE  More(p, p, n, 0)
<1>1. \A k \in Nat : Count(p.entered, k) \in Nat
  BY ProgressFields DEF Count
<1> QED BY <1>1 DEF More

\* Sequence n as its table entry: entered, then read.
Entered(f, n) == [p \in Progress |-> f[Enter(p, n)]]

\* Entering a sequence first does not make a reading meet a loop.
LEMMA EnteredProps ==
  ASSUME NEW l, NEW f, Without(l, f), NEW n \in Nat \ {0}
  PROVE  Without(l, Entered(f, n)) /\ Entered(f, n) \in Readings
<1>1. ASSUME NEW G, Closed(G, Nat \ {l}) PROVE Entered(f, n) \in G
  BY <1>1 DEF Without, Closed, Entered
<1>2. Without(l, Entered(f, n))
  BY <1>1 DEF Without
<1> QED BY <1>2, WithoutIsUniform, UniformReads

\* The last of n + 1 times.
LEMMA OnceMore ==
  ASSUME NEW f \in Readings, NEW n \in Nat, NEW p \in Progress
  PROVE  Run(Times(f, n + 1), p) = f[Run(Times(f, n), p)]
<1> DEFINE a == Times(f, n)
           c == Times(f, n + 1)
<1>1. /\ a \in Seq(Readings) /\ Len(a) = n /\ \A k \in 1..n : a[k] = f
      /\ c \in Seq(Readings) /\ Len(c) = n + 1 /\ \A k \in 1..(n + 1) : c[k] = f
  BY TimesProps
<1> HIDE DEF a, c
<1>2. /\ <<f>> \in Seq(Readings) /\ a \o <<f>> \in Seq(Readings) /\ Len(a \o <<f>>) = n + 1
      /\ \A k \in 1..(n + 1) : (a \o <<f>>)[k] = f
  BY <1>1
<1> DEFINE e == a \o <<f>>
<1>3. e = c
  <2>1. e \in Seq(Readings) /\ Len(e) = Len(c) /\ \A k \in 1..Len(e) : e[k] = c[k]
    BY <1>1, <1>2
  <2> HIDE DEF e
  <2> QED BY <1>1, <2>1, SeqEqual
<1>4. Run(e, p) = Run(<<f>>, Run(a, p))
  BY <1>1, <1>2, RunConcat
<1>5. Run(<<f>>, Run(a, p)) = f[Run(a, p)]
  BY <1>1, RunType, RunOne
<1> QED BY <1>3, <1>4, <1>5 DEF a, c

\* A sequence with nothing behind its head has one element.
LEMMA OneLeft ==
  ASSUME NEW s \in Seq(Nat), s # <<>>, Tail(s) = <<>>
  PROVE  Len(s) = 1
<1> DEFINE t == Tail(s)
<1>1. t \in Seq(Nat) /\ Len(t) = Len(s) - 1 /\ Len(s) \in Nat
  OBVIOUS
<1> HIDE DEF t
<1>2. t = <<>>
  BY DEF t
<1>3. Len(t) = 0
  BY <1>2
<1> QED BY <1>1, <1>3

\* The last count of loop l is taken.
LEMMA TakeLast ==
  ASSUME NEW p \in Progress, NEW l, Remaining(p, l) # <<>>, Tail(Remaining(p, l)) = <<>>
  PROVE  /\ TakeCount(p, l) \in Progress
         /\ TakeCount(p, l).ids = p.ids
         /\ TakeCount(p, l).entered = p.entered
         /\ \A j : Remaining(TakeCount(p, l), j) = IF j = l THEN <<>> ELSE Remaining(p, j)
BY TakeProps

\* A uniform reading is uniform several times over,
LEMMA TimesUniform ==
  ASSUME NEW f, Uniform(f), NEW n \in Nat
  PROVE  Uniform([p \in Progress |-> Run(Times(f, n), p)])
<1>1. ASSUME NEW G, Closed(G, Nat) PROVE [p \in Progress |-> Run(Times(f, n), p)] \in G
  <2>1. f \in G
    BY <1>1 DEF Uniform
  <2>2. Times(f, n) \in Seq(G)
    BY <2>1 DEF Times
  <2> QED BY <1>1, <2>2 DEF Closed
<1> QED BY <1>1 DEF Uniform

\* and as the body of a loop.
LEMMA LoopUniform ==
  ASSUME NEW f, Uniform(f), NEW l \in Nat
  PROVE  Uniform(LoopMeaning(l, f))
<1>1. ASSUME NEW G, Closed(G, Nat) PROVE LoopMeaning(l, f) \in G
  BY <1>1 DEF Uniform, Closed
<1> QED BY <1>1 DEF Uniform

\* What a loop that is met cleanly does: it takes its next count, and reads the
\* body so many times.
LEMMA LoopMet ==
  ASSUME NEW l \in Nat, NEW f, Without(l, f), NEW p \in Progress, Clean(LoopMeaning(l, f)[p])
  PROVE  /\ Clean(p)
         /\ Remaining(p, l) # <<>>
         /\ Head(Remaining(p, l)) \in Nat
         /\ LoopMeaning(l, f)[p] = Run(Times(f, Head(Remaining(p, l))), TakeCount(p, l))
         /\ LoopMeaning(l, f)[p] \in Progress
         /\ Remaining(LoopMeaning(l, f)[p], l) = Tail(Remaining(p, l))
<1>1. Uniform(f) /\ f \in Readings
  BY WithoutIsUniform, UniformReads
<1>2. Clean(p)
  BY <1>1, LoopUniform, UncleanStays
<1>3. Remaining(p, l) # <<>>
  <2> SUFFICES ASSUME Remaining(p, l) = <<>> PROVE FALSE
    OBVIOUS
  <2>1. LoopMeaning(l, f)[p] = Meet(p, NoEvent)
    BY DEF LoopMeaning
  <2>2. NoEvent \in Nat
    BY DEF NoEvent
  <2> QED BY <2>1, <2>2, MeetUnclean
<1> DEFINE h == Head(Remaining(p, l))
<1>4. h \in Nat
  BY <1>3, RemainingType
<1>5. LoopMeaning(l, f)[p] = Run(Times(f, h), TakeCount(p, l))
  BY <1>3 DEF LoopMeaning, Times
<1>6. TakeCount(p, l) \in Progress /\ Remaining(TakeCount(p, l), l) = Tail(Remaining(p, l))
  BY <1>3, TakeProps
<1> HIDE DEF h
<1> DEFINE r == [q \in Progress |-> Run(Times(f, h), q)]
<1>7. Without(l, r)
  <2>1. ASSUME NEW G, Closed(G, Nat \ {l}) PROVE r \in G
    <3>1. f \in G
      BY <2>1 DEF Without
    <3>2. Times(f, h) \in Seq(G)
      BY <1>4, <3>1 DEF Times
    <3> QED BY <2>1, <3>2 DEF Closed
  <2> QED BY <2>1 DEF Without
<1>8. r[TakeCount(p, l)] = Run(Times(f, h), TakeCount(p, l))
  BY <1>6
<1> HIDE DEF r
<1>9. /\ r[TakeCount(p, l)] \in Progress
      /\ Remaining(r[TakeCount(p, l)], l) = Remaining(TakeCount(p, l), l)
  BY <1>6, <1>7, QuietReading
<1> QED BY <1>2, <1>3, <1>4, <1>5, <1>6, <1>8, <1>9 DEF h

\* One more iteration in the count of the loop reads as the block b did after it.
LEMMA AbsorbReads ==
  ASSUME NEW l \in Nat, NEW n \in Nat \ {0}, NEW b, Without(l, b), NEW k, Uniform(k),
         NEW p \in Progress, NEW q \in Progress, NEW m \in Nat,
         Alike(p, q, l, <<m>>, <<m + 1>>, n, 0),
         Exact(b[LoopMeaning(l, Entered(b, n))[k[p]]])
  PROVE  /\ LoopMeaning(l, Entered(b, n))[k[q]] \in Progress
         /\ More(b[LoopMeaning(l, Entered(b, n))[k[p]]], LoopMeaning(l, Entered(b, n))[k[q]], n, 1)
<1> DEFINE f == Entered(b, n)
           M == LoopMeaning(l, f)
           x == k[p]
           z == k[q]
           y == M[x]
           u == b[y]
<1>1. /\ Without(l, f) /\ f \in Readings /\ Uniform(f)
      /\ b \in Readings /\ Uniform(b)
      /\ k \in Readings
      /\ Uniform(M) /\ M \in Readings
  BY EnteredProps, WithoutIsUniform, UniformReads, LoopUniform
<1>2. x \in Progress /\ z \in Progress /\ y \in Progress /\ u \in Progress /\ M[z] \in Progress
  BY <1>1 DEF Readings
<1>3. Clean(u) /\ Remaining(u, l) = <<>>
  BY DEF Exact
<1>4. \A o \in Progress : f[o] = b[Enter(o, n)]
  BY DEF Entered
<1> HIDE DEF f, x, z
<1>5. Clean(y)
  BY <1>1, <1>2, <1>3, UncleanStays
<1>6. Remaining(y, l) = <<>>
  BY <1>2, <1>3, QuietReading
<1>7. /\ Clean(x) /\ Remaining(x, l) # <<>> /\ Head(Remaining(x, l)) \in Nat
      /\ y = Run(Times(f, Head(Remaining(x, l))), TakeCount(x, l))
      /\ Tail(Remaining(x, l)) = <<>>
  BY <1>1, <1>2, <1>5, <1>6, LoopMet
<1>8. Remaining(x, l) \in Seq(Nat) /\ Len(Remaining(x, l)) = 1
  <2>1. Remaining(x, l) \in Seq(Nat)
    BY <1>2, RemainingType
  <2> QED BY <1>7, <2>1, OneLeft
<1>9. Alike(x, z, l, <<m>>, <<m + 1>>, n, 0)
  <2> DEFINE a == <<m>>
             c == <<m + 1>>
  <2>1. a \in Seq(Nat) /\ c \in Seq(Nat) /\ Len(a) = 1
    OBVIOUS
  <2>2. Alike(p, q, l, a, c, n, 0)
    OBVIOUS
  <2> HIDE DEF a, c
  <2>3. Clean(k[p]) /\ Len(Remaining(k[p], l)) >= Len(a)
    BY <1>7, <1>8, <2>1 DEF x
  <2>4. Alike(k[p], k[q], l, a, c, n, 0)
    BY <2>1, <2>2, <2>3, UniformAlike
  <2> QED BY <2>4 DEF x, z, a, c
<1>10. Remaining(x, l) = <<m>> /\ Remaining(z, l) = <<m + 1>>
  <2>1. PICK rest \in Seq(Nat) : Remaining(x, l) = rest \o <<m>> /\ Remaining(z, l) = rest \o <<m + 1>>
    BY <1>9 DEF Alike
  <2>2. Len(rest \o <<m>>) = Len(rest) + 1
    BY <2>1
  <2>3. rest = <<>>
    BY <1>8, <2>1, <2>2
  <2> QED BY <2>1, <2>3
<1> DEFINE x1 == TakeCount(x, l)
           z1 == TakeCount(z, l)
<1>11. /\ Remaining(z, l) # <<>> /\ Head(Remaining(z, l)) = m + 1 /\ Tail(Remaining(z, l)) = <<>>
       /\ Head(Remaining(x, l)) = m
  BY <1>10
<1>12. /\ x1 \in Progress /\ x1.ids = x.ids /\ x1.entered = x.entered
       /\ \A j : Remaining(x1, j) = IF j = l THEN <<>> ELSE Remaining(x, j)
       /\ z1 \in Progress /\ z1.ids = z.ids /\ z1.entered = z.entered
       /\ \A j : Remaining(z1, j) = IF j = l THEN <<>> ELSE Remaining(z, j)
  <2>1. /\ x1 \in Progress /\ x1.ids = x.ids /\ x1.entered = x.entered
        /\ \A j : Remaining(x1, j) = IF j = l THEN <<>> ELSE Remaining(x, j)
    BY <1>2, <1>7, TakeLast
  <2>2. /\ z1 \in Progress /\ z1.ids = z.ids /\ z1.entered = z.entered
        /\ \A j : Remaining(z1, j) = IF j = l THEN <<>> ELSE Remaining(z, j)
    BY <1>2, <1>11, TakeLast
  <2> QED BY <2>1, <2>2
<1>13. More(x1, z1, n, 0)
  BY <1>9, <1>12 DEF Alike, More
<1>14. y = Run(Times(f, m), x1) /\ M[z] = Run(Times(f, m + 1), z1)
  <2>1. M[z] = Run(Times(f, Head(Remaining(z, l))), TakeCount(z, l))
    BY <1>2, <1>11 DEF LoopMeaning, Times
  <2> QED BY <1>7, <1>11, <2>1
<1> HIDE DEF x1, z1
<1> DEFINE r == [o \in Progress |-> Run(Times(f, m), o)]
<1>15. r[x1] = y /\ r[z1] = Run(Times(f, m), z1)
  BY <1>12, <1>14
<1>16. Uniform(r)
  BY <1>1, TimesUniform
<1> HIDE DEF r, y, M
<1>17. More(y, r[z1], n, 0)
  <2>1. Clean(r[x1])
    BY <1>5, <1>15
  <2>2. More(r[x1], r[z1], n, 0)
    BY <1>12, <1>13, <1>16, <2>1, UniformMore
  <2> QED BY <1>15, <2>2
<1>18. r[z1] \in Progress
  BY <1>12, <1>16, UniformReads DEF Readings
<1>19. M[z] = b[Enter(r[z1], n)]
  <2>1. Run(Times(f, m + 1), z1) = f[Run(Times(f, m), z1)]
    BY <1>1, <1>12, OnceMore
  <2> QED BY <1>4, <1>14, <1>15, <1>18, <2>1
<1>20. More(y, Enter(r[z1], n), n, 1)
  <2>1. More(y, Enter(r[z1], n), n, 0 + 1)
    BY <1>2, <1>17, <1>18, EnterMore
  <2> QED BY <2>1
<1>21. More(b[y], b[Enter(r[z1], n)], n, 1)
  <2>1. Enter(r[z1], n) \in Progress
    BY <1>18, EnterProps
  <2> QED BY <1>1, <1>2, <1>3, <1>20, <2>1, UniformMore
<1> QED BY <1>2, <1>19, <1>21 DEF y, M, f, x, z

\* A fresh occurrence of two iterations reads as the block b did twice.
LEMMA FoldReads ==
  ASSUME NEW l \in Nat, NEW n \in Nat \ {0}, NEW b, Without(l, b), NEW k, Uniform(k),
         NEW p \in Progress, NEW q \in Progress,
         Alike(p, q, l, <<>>, << 2 >>, n, 0), Exact(b[b[k[p]]])
  PROVE  /\ LoopMeaning(l, Entered(b, n))[k[q]] \in Progress
         /\ More(b[b[k[p]]], LoopMeaning(l, Entered(b, n))[k[q]], n, 2)
<1> DEFINE f == Entered(b, n)
           M == LoopMeaning(l, f)
           x == k[p]
           z == k[q]
<1>1. /\ Without(l, f) /\ f \in Readings /\ Uniform(f)
      /\ b \in Readings /\ Uniform(b)
      /\ k \in Readings
      /\ M \in Readings
  BY EnteredProps, WithoutIsUniform, UniformReads, LoopUniform
<1>2. x \in Progress /\ z \in Progress /\ b[x] \in Progress /\ b[b[x]] \in Progress
      /\ M[z] \in Progress
  BY <1>1 DEF Readings
<1>3. Clean(b[b[x]]) /\ Remaining(b[b[x]], l) = <<>>
  BY DEF Exact
<1>4. \A o \in Progress : f[o] = b[Enter(o, n)]
  BY DEF Entered
<1> HIDE DEF f, x, z
<1>5. Clean(b[x]) /\ Clean(x)
  BY <1>1, <1>2, <1>3, UncleanStays
<1>6. Remaining(x, l) = <<>>
  <2>1. Remaining(b[b[x]], l) = Remaining(b[x], l)
    BY <1>2, QuietReading
  <2>2. Remaining(b[x], l) = Remaining(x, l)
    BY <1>2, QuietReading
  <2> QED BY <1>3, <2>1, <2>2
<1>7. Alike(x, z, l, <<>>, <<2>>, n, 0)
  <2> DEFINE a == <<>>
             c == <<2>>
  <2>1. a \in Seq(Nat) /\ c \in Seq(Nat) /\ Len(a) = 0
    OBVIOUS
  <2>2. Alike(p, q, l, a, c, n, 0)
    OBVIOUS
  <2> HIDE DEF a, c
  <2>3. Len(Remaining(x, l)) \in Nat
    BY <1>2, RemainingType
  <2>4. Clean(k[p]) /\ Len(Remaining(k[p], l)) >= Len(a)
    BY <1>5, <2>1, <2>3 DEF x
  <2>5. Alike(k[p], k[q], l, a, c, n, 0)
    <3>1. n \in Nat /\ 0 \in Nat
      OBVIOUS
    <3>2. Uniform(k) /\ p \in Progress /\ q \in Progress
      OBVIOUS
    <3> QED BY <2>1, <2>2, <2>4, <3>1, <3>2, UniformAlike
  <2> QED BY <2>5 DEF x, z, a, c
<1>8. Remaining(z, l) = <<2>>
  <2>1. PICK rest \in Seq(Nat) : Remaining(x, l) = rest \o <<>> /\ Remaining(z, l) = rest \o <<2>>
    BY <1>7 DEF Alike
  <2>2. rest = <<>>
    BY <1>6, <2>1
  <2> QED BY <2>1, <2>2
<1> DEFINE z1 == TakeCount(z, l)
<1>9. Remaining(z, l) # <<>> /\ Head(Remaining(z, l)) = 2 /\ Tail(Remaining(z, l)) = <<>>
  BY <1>8
<1>10. /\ z1 \in Progress /\ z1.ids = z.ids /\ z1.entered = z.entered
       /\ \A j : Remaining(z1, j) = IF j = l THEN <<>> ELSE Remaining(z, j)
  BY <1>2, <1>9, TakeLast
<1>11. More(x, z1, n, 0)
  BY <1>6, <1>7, <1>10 DEF Alike, More
<1>12. M[z] = Run(Times(f, 2), z1)
  BY <1>2, <1>9 DEF LoopMeaning, Times
<1> HIDE DEF z1, M
<1>13. Run(Times(f, 2), z1) = f[f[z1]]
  <2>1. Run(Times(f, 0), z1) = z1
    <3>1. Times(f, 0) = <<>>
      BY DEF Times
    <3> QED BY <1>10, <3>1, RunNothing
  <2>2. Run(Times(f, 0 + 1), z1) = f[Run(Times(f, 0), z1)]
    BY <1>1, <1>10, OnceMore
  <2>3. Run(Times(f, 1 + 1), z1) = f[Run(Times(f, 1), z1)]
    BY <1>1, <1>10, OnceMore
  <2>4. 0 + 1 = 1 /\ 1 + 1 = 2
    OBVIOUS
  <2> QED BY <2>1, <2>2, <2>3, <2>4
<1>14. f[z1] \in Progress /\ f[z1] = b[Enter(z1, n)] /\ f[f[z1]] = b[Enter(f[z1], n)]
  BY <1>1, <1>4, <1>10 DEF Readings
<1>15. Enter(z1, n) \in Progress /\ Enter(f[z1], n) \in Progress
  BY <1>10, <1>14, EnterProps
<1>16. More(x, Enter(z1, n), n, 1)
  <2>1. More(x, Enter(z1, n), n, 0 + 1)
    BY <1>2, <1>10, <1>11, EnterMore
  <2> QED BY <2>1
<1>17. More(b[x], f[z1], n, 1)
  BY <1>1, <1>2, <1>5, <1>14, <1>15, <1>16, UniformMore
<1>18. More(b[x], Enter(f[z1], n), n, 2)
  <2>1. More(b[x], Enter(f[z1], n), n, 1 + 1)
    BY <1>2, <1>14, <1>17, EnterMore
  <2> QED BY <2>1
<1>19. More(b[b[x]], f[f[z1]], n, 2)
  BY <1>1, <1>2, <1>3, <1>14, <1>15, <1>18, UniformMore
<1> QED BY <1>2, <1>12, <1>13, <1>19 DEF M, f, x, z

\* A block read as a sequence of the table.
LEMMA ExitReads ==
  ASSUME NEW b, Uniform(b), NEW n \in Nat \ {0}, NEW p \in Progress, Clean(b[p])
  PROVE  Entered(b, n)[p] \in Progress /\ More(b[p], Entered(b, n)[p], n, 1)
<1>1. b \in Readings
  BY UniformReads
<1>2. Entered(b, n)[p] = b[Enter(p, n)] /\ Enter(p, n) \in Progress
  BY EnterProps DEF Entered
<1>3. More(p, Enter(p, n), n, 1)
  <2>1. More(p, p, n, 0)
    BY SameIsMore
  <2>2. More(p, Enter(p, n), n, 0 + 1)
    BY <2>1, EnterMore
  <2> QED BY <2>2
<1>4. More(b[p], b[Enter(p, n)], n, 1)
  BY <1>2, <1>3, UniformMore
<1> QED BY <1>1, <1>2, <1>4 DEF Readings

-----------------------------------------------------------------------------
(* The readings of a grammar: what tokens stand for at the end of its tables *)

BodiesOf(g) == Bodies(g.loops)
TableOf(g) == Meanings(g.sequences, BodiesOf(g))
Reading(g, tokens) == BlockMeaning(TableOf(g), BodiesOf(g), tokens, Len(g.sequences) + 1)

\* The tokens refer to what the tables of g hold.
AllBelow(E, g, tokens) ==
  \A k \in 1..Len(tokens) : Below(E, g, tokens[k], Len(g.sequences) + 1)

\* Every loop has a sequence for its body.
LEMMA BodiesProps ==
  ASSUME NEW E, NEW S, NEW F, NEW g, GoodTables(E, S, F, g)
  PROVE  /\ g.sequences \in Seq(Seq(Token)) /\ g.loops \in Seq(Loop) /\ g.tokens \in Seq(Token)
         /\ Len(g.sequences) \in Nat /\ Len(g.loops) \in Nat
         /\ DOMAIN BodiesOf(g) = 1..Len(g.loops)
         /\ \A l \in 1..Len(g.loops) : /\ BodiesOf(g)[l] = g.loops[l].repeated_token.id
                                       /\ BodiesOf(g)[l] \in 1..Len(g.sequences)
<1>1. g.sequences \in Seq(Seq(Token)) /\ g.loops \in Seq(Loop) /\ g.tokens \in Seq(Token)
  BY DEF GoodTables, Grammar
<1>2. DOMAIN g.loops = 1..Len(g.loops)
  BY <1>1
<1>3. \A l \in 1..Len(g.loops) : g.loops[l].repeated_token.id \in 1..Len(g.sequences)
  BY DEF GoodTables, GoodLoops
<1> QED BY <1>1, <1>2, <1>3 DEF BodiesOf, Bodies

\* A reference that goes down has a meaning.
LEMMA BelowRefers ==
  ASSUME NEW E, NEW S, NEW F, NEW g, GoodTables(E, S, F, g), NEW token,
         NEW n \in 1..(Len(g.sequences) + 1), Below(E, g, token, n)
  PROVE  Refers(BodiesOf(g), token, n)
<1>1. /\ Len(g.sequences) \in Nat
      /\ DOMAIN BodiesOf(g) = 1..Len(g.loops)
      /\ \A l \in 1..Len(g.loops) : /\ BodiesOf(g)[l] = g.loops[l].repeated_token.id
                                    /\ BodiesOf(g)[l] \in 1..Len(g.sequences)
  BY BodiesProps
<1>2. CASE token.type = "Event"
  BY <1>2 DEF Refers
<1>3. CASE token.type = "Sequence" /\ token.id \in 1..Len(g.sequences) /\ token.id < n
  BY <1>1, <1>3 DEF Refers
<1>4. CASE /\ token.type = "Loop"
           /\ token.id \in 1..Len(g.loops)
           /\ g.loops[token.id].repeated_token.id < n
  <2>1. BodiesOf(g)[token.id] \in 1..Len(g.sequences) /\ BodiesOf(g)[token.id] < n
    BY <1>1, <1>4
  <2>2. BodiesOf(g)[token.id] \in 1..(n - 1)
    BY <1>1, <2>1
  <2> QED BY <1>1, <1>4, <2>2 DEF Refers
<1> QED BY <1>2, <1>3, <1>4 DEF Below

\* The sequences of a good table refer down.
LEMMA TablesReferDown ==
  ASSUME NEW E, NEW S, NEW F, NEW g, GoodTables(E, S, F, g)
  PROVE  RefersDown(g.sequences, BodiesOf(g))
<1>1. Len(g.sequences) \in Nat
  BY BodiesProps
<1>2. ASSUME NEW n \in 1..Len(g.sequences), NEW k \in 1..Len(g.sequences[n])
      PROVE  Refers(BodiesOf(g), g.sequences[n][k], n)
  <2>1. Below(E, g, g.sequences[n][k], n)
    BY DEF GoodTables, GoodSequences
  <2>2. n \in 1..(Len(g.sequences) + 1)
    BY <1>1
  <2> QED BY <2>1, <2>2, BelowRefers
<1> QED BY <1>2 DEF RefersDown

\* The table of meanings, one sequence after the other.
LEMMA TableProps ==
  ASSUME NEW E, NEW S, NEW F, NEW g, GoodTables(E, S, F, g)
  PROVE  /\ \A n \in 1..(Len(g.sequences) + 1) : Defined(TableOf(g), n)
         /\ \A n \in 1..Len(g.sequences) :
              TableOf(g)[n] = SequenceMeaning(TableOf(g), BodiesOf(g), g.sequences[n], n)
<1>1. g.sequences \in Seq(Seq(Token)) /\ Len(g.sequences) \in Nat
  BY BodiesProps
<1>2. \A n \in 1..Len(g.sequences) :
        /\ TableOf(g)[n] \in Readings
        /\ TableOf(g)[n] = SequenceMeaning(TableOf(g), BodiesOf(g), g.sequences[n], n)
  BY <1>1, MeaningsAre DEF TableOf
<1>3. ASSUME NEW n \in 1..(Len(g.sequences) + 1), NEW m \in 1..(n - 1)
      PROVE  TableOf(g)[m] \in Readings
  <2>1. m \in 1..Len(g.sequences)
    BY <1>1
  <2> QED BY <1>2, <2>1
<1> QED BY <1>2, <1>3 DEF Defined

\* Tables that grow leave the meanings there are.
LEMMA TableGrows ==
  ASSUME NEW E, NEW S, NEW F, NEW g, NEW h, GoodTables(E, S, F, g), GoodTables(E, S, F, h),
         Grows(g, h)
  PROVE  /\ Agree(TableOf(g), TableOf(h), Len(g.sequences) + 1)
         /\ BodiesGrow(BodiesOf(g), BodiesOf(h))
<1>1. /\ g.sequences \in Seq(Seq(Token)) /\ Len(g.sequences) \in Nat
      /\ DOMAIN BodiesOf(g) = 1..Len(g.loops)
      /\ \A l \in 1..Len(g.loops) : BodiesOf(g)[l] = g.loops[l].repeated_token.id
  BY BodiesProps
<1>2. /\ h.sequences \in Seq(Seq(Token)) /\ Len(h.loops) \in Nat
      /\ DOMAIN BodiesOf(h) = 1..Len(h.loops)
      /\ \A l \in 1..Len(h.loops) : BodiesOf(h)[l] = h.loops[l].repeated_token.id
  BY BodiesProps
<1>3. BodiesGrow(BodiesOf(g), BodiesOf(h))
  <2>1. ASSUME NEW l \in 1..Len(g.loops)
        PROVE  l \in 1..Len(h.loops) /\ BodiesOf(h)[l] = BodiesOf(g)[l]
    <3>1. l \in 1..Len(h.loops) /\ h.loops[l].repeated_token = g.loops[l].repeated_token
      <4>1. Len(g.loops) \in Nat
        BY BodiesProps
      <4> QED BY <1>2, <4>1 DEF Grows
    <3> QED BY <1>1, <1>2, <3>1
  <2> QED BY <1>1, <1>2, <2>1 DEF BodiesGrow
<1>4. RefersDown(g.sequences, BodiesOf(g))
  BY TablesReferDown
<1>5. \A n \in 1..Len(g.sequences) : TableOf(h)[n] = TableOf(g)[n]
  <2>1. BlocksGrow(g.sequences, h.sequences)
    BY DEF Grows, BlocksGrow
  <2> QED BY <1>1, <1>2, <1>3, <1>4, <2>1, MeaningsGrow DEF TableOf
<1>6. (Len(g.sequences) + 1) - 1 = Len(g.sequences)
  BY <1>1
<1> QED BY <1>3, <1>5, <1>6 DEF Agree

\* Nor does growth change what the tokens of a frame stand for.
LEMMA ReadingGrows ==
  ASSUME NEW E, NEW S, NEW F, NEW g, NEW h, GoodTables(E, S, F, g), GoodTables(E, S, F, h),
         Grows(g, h), NEW tokens \in Seq(Token), AllBelow(E, g, tokens)
  PROVE  Reading(g, tokens) = Reading(h, tokens)
<1>1. Len(g.sequences) \in Nat /\ Len(h.sequences) \in Nat
  BY BodiesProps
<1>2. /\ Agree(TableOf(g), TableOf(h), Len(g.sequences) + 1)
      /\ BodiesGrow(BodiesOf(g), BodiesOf(h))
  BY TableGrows
<1> DEFINE n == Len(g.sequences) + 1
           m == Len(h.sequences) + 1
<1>3. n \in Nat /\ m \in Nat /\ n <= m /\ n \in 1..(Len(g.sequences) + 1)
  BY <1>1 DEF Grows
<1>4. ASSUME NEW k \in 1..Len(tokens)
      PROVE  TokenMeaning(TableOf(g), BodiesOf(g), tokens[k], n) =
               TokenMeaning(TableOf(h), BodiesOf(h), tokens[k], m)
  <2>1. Below(E, g, tokens[k], n)
    BY DEF AllBelow
  <2>2. Refers(BodiesOf(g), tokens[k], n)
    BY <1>3, <2>1, BelowRefers
  <2> HIDE DEF n, m
  <2>3. Agree(TableOf(g), TableOf(h), n)
    BY <1>2 DEF n
  <2> QED BY <1>2, <1>3, <2>2, <2>3, TokenGrows
<1> HIDE DEF n, m
<1>5. BlockMeaning(TableOf(g), BodiesOf(g), tokens, n) = BlockMeaning(TableOf(h), BodiesOf(h), tokens, m)
  BY <1>4, SameBlock
<1> QED BY <1>5 DEF Reading, n, m

\* The body of a loop means the same at the end of the tables and where it is stored.
LEMMA StoredReading ==
  ASSUME NEW E, NEW S, NEW F, NEW g, GoodTables(E, S, F, g), NEW n \in 1..Len(g.sequences)
  PROVE  Reading(g, g.sequences[n]) = BlockMeaning(TableOf(g), BodiesOf(g), g.sequences[n], n)
<1>1. g.sequences \in Seq(Seq(Token)) /\ Len(g.sequences) \in Nat
  BY BodiesProps
<1> DEFINE tokens == g.sequences[n]
           m == Len(g.sequences) + 1
<1>2. tokens \in Seq(Token)
  BY <1>1, BlockTokens
<1>3. n \in Nat /\ m \in Nat /\ n <= m /\ n \in 1..(Len(g.sequences) + 1)
  BY <1>1
<1>4. ASSUME NEW k \in 1..Len(tokens)
      PROVE  TokenMeaning(TableOf(g), BodiesOf(g), tokens[k], n) =
               TokenMeaning(TableOf(g), BodiesOf(g), tokens[k], m)
  <2>1. Below(E, g, tokens[k], n)
    BY DEF GoodTables, GoodSequences
  <2>2. Refers(BodiesOf(g), tokens[k], n)
    BY <1>3, <2>1, BelowRefers
  <2> HIDE DEF m
  <2>3. Agree(TableOf(g), TableOf(g), n) /\ BodiesGrow(BodiesOf(g), BodiesOf(g))
    BY DEF Agree, BodiesGrow
  <2> QED BY <1>3, <2>2, <2>3, TokenGrows
<1> HIDE DEF m
<1>5. BlockMeaning(TableOf(g), BodiesOf(g), tokens, n) = BlockMeaning(TableOf(g), BodiesOf(g), tokens, m)
  <2> HIDE DEF tokens
  <2> QED BY <1>2, <1>4, SameBlock
<1> QED BY <1>5 DEF Reading, m

\* A block reads the same wherever and however often it is read.
LEMMA UniformReading ==
  ASSUME NEW E, NEW S, NEW F, NEW g, GoodTables(E, S, F, g), NEW tokens \in Seq(Token)
  PROVE  Uniform(Reading(g, tokens))
<1> DEFINE n == Len(g.sequences) + 1
<1>1. /\ g.sequences \in Seq(Seq(Token)) /\ Len(g.sequences) \in Nat /\ Len(g.loops) \in Nat
      /\ DOMAIN BodiesOf(g) = 1..Len(g.loops)
  BY BodiesProps
<1>2. n \in 1..(Len(g.sequences) + 1) /\ n \in Nat
  BY <1>1
<1>3. MeetsOnly(BodiesOf(g), n, Nat)
  BY <1>1 DEF MeetsOnly
<1> HIDE DEF n
<1>4. ASSUME NEW G, Closed(G, Nat) PROVE Reading(g, tokens) \in G
  <2>1. Holds(G, TableOf(g), n)
    BY <1>1, <1>2, <1>3, <1>4, TableInClass DEF TableOf
  <2>2. BlockMeaning(TableOf(g), BodiesOf(g), tokens, n) \in G
    BY <1>2, <1>3, <1>4, <2>1, BlockInClass
  <2> QED BY <2>2 DEF Reading, n
<1> QED BY <1>4 DEF Uniform

\* The body of loop l never meets loop l.
LEMMA BodyWithout ==
  ASSUME NEW E, NEW S, NEW F, NEW g, GoodTables(E, S, F, g), NEW l \in 1..Len(g.loops)
  PROVE  Without(l, Reading(g, g.sequences[BodiesOf(g)[l]]))
<1> DEFINE n == BodiesOf(g)[l]
           tokens == g.sequences[n]
<1>1. /\ g.sequences \in Seq(Seq(Token)) /\ Len(g.sequences) \in Nat /\ Len(g.loops) \in Nat
      /\ DOMAIN BodiesOf(g) = 1..Len(g.loops)
      /\ n \in 1..Len(g.sequences)
  BY BodiesProps
<1>2. n \in 1..(Len(g.sequences) + 1) /\ n \in Nat
  BY <1>1
<1>3. MeetsOnly(BodiesOf(g), n, Nat \ {l})
  BY <1>1 DEF MeetsOnly
<1>4. tokens \in Seq(Token)
  BY <1>1, BlockTokens
<1>5. Reading(g, tokens) = BlockMeaning(TableOf(g), BodiesOf(g), tokens, n)
  BY <1>1, StoredReading
<1> HIDE DEF n, tokens
<1>6. ASSUME NEW G, Closed(G, Nat \ {l}) PROVE Reading(g, tokens) \in G
  <2>1. Holds(G, TableOf(g), n)
    BY <1>1, <1>2, <1>3, <1>6, TableInClass DEF TableOf
  <2>2. BlockMeaning(TableOf(g), BodiesOf(g), tokens, n) \in G
    BY <1>2, <1>3, <1>4, <1>6, <2>1, BlockInClass
  <2> QED BY <1>5, <2>2
<1>7. Without(l, Reading(g, tokens))
  BY <1>6 DEF Without
<1> QED BY <1>7 DEF n, tokens

\* Tokens that follow each other are read one after the other.
LEMMA ReadingSplits ==
  ASSUME NEW E, NEW S, NEW F, NEW g, GoodTables(E, S, F, g),
         NEW s \in Seq(Token), NEW t \in Seq(Token), NEW p \in Progress
  PROVE  /\ Reading(g, s)[p] \in Progress
         /\ Reading(g, s \o t)[p] = Reading(g, t)[Reading(g, s)[p]]
<1> DEFINE n == Len(g.sequences) + 1
           T == TableOf(g)
           B == BodiesOf(g)
           fs == TokenMeanings(T, B, s, n)
           gs == TokenMeanings(T, B, t, n)
           hs == TokenMeanings(T, B, s \o t, n)
<1>1. n \in Nat /\ Defined(T, n)
  <2>1. Len(g.sequences) \in Nat
    BY BodiesProps
  <2>2. n \in 1..(Len(g.sequences) + 1)
    BY <2>1
  <2> QED BY <2>1, <2>2, TableProps
<1> HIDE DEF n, T, B
<1>2. s \o t \in Seq(Token)
  OBVIOUS
<1>3. /\ BlockMeaning(T, B, s, n) \in Readings
      /\ \A q \in Progress : BlockMeaning(T, B, s, n)[q] = Run(fs, q)
      /\ \A q \in Progress : BlockMeaning(T, B, t, n)[q] = Run(gs, q)
  BY <1>1, BlockReads
<1>4. \A q \in Progress : BlockMeaning(T, B, s \o t, n)[q] = Run(hs, q)
  <2> DEFINE u == s \o t
  <2>1. u \in Seq(Token)
    OBVIOUS
  <2> HIDE DEF u
  <2>2. \A q \in Progress : BlockMeaning(T, B, u, n)[q] = Run(TokenMeanings(T, B, u, n), q)
    BY <1>1, <2>1, BlockReads
  <2> QED BY <2>2 DEF u
<1>5. /\ fs \in Seq(Readings) /\ Len(fs) = Len(s)
      /\ \A k \in 1..Len(s) : fs[k] = TokenMeaning(T, B, s[k], n)
      /\ gs \in Seq(Readings) /\ Len(gs) = Len(t)
      /\ \A k \in 1..Len(t) : gs[k] = TokenMeaning(T, B, t[k], n)
  BY <1>1, TokensRead
<1>6. /\ hs \in Seq(Readings) /\ Len(hs) = Len(s \o t)
      /\ \A k \in 1..Len(s \o t) : hs[k] = TokenMeaning(T, B, (s \o t)[k], n)
  <2> DEFINE u == s \o t
  <2>1. u \in Seq(Token)
    OBVIOUS
  <2> HIDE DEF u
  <2>2. /\ TokenMeanings(T, B, u, n) \in Seq(Readings) /\ Len(TokenMeanings(T, B, u, n)) = Len(u)
        /\ \A k \in 1..Len(u) : TokenMeanings(T, B, u, n)[k] = TokenMeaning(T, B, u[k], n)
    BY <1>1, <2>1, TokensRead
  <2> QED BY <2>2 DEF u
<1> HIDE DEF fs, gs, hs
<1>7. hs = fs \o gs
  <2> DEFINE fg == fs \o gs
  <2>1. fg \in Seq(Readings) /\ Len(fg) = Len(fs) + Len(gs)
    <3>1. fs \in Seq(Readings) /\ gs \in Seq(Readings)
      BY <1>5
    <3> QED BY <3>1, ConcatProperties
  <2>2. Len(s \o t) = Len(s) + Len(t) /\ Len(s) \in Nat /\ Len(t) \in Nat
    OBVIOUS
  <2>3. Len(hs) = Len(fg)
    BY <1>5, <1>6, <2>1, <2>2
  <2>4. ASSUME NEW k \in 1..Len(hs) PROVE hs[k] = fg[k]
    <3>1. hs[k] = TokenMeaning(T, B, (s \o t)[k], n)
      BY <1>6
    <3>2. CASE k <= Len(s)
      <4>1. k \in 1..Len(s)
        BY <1>6, <2>2, <3>2
      <4>2. (s \o t)[k] = s[k] /\ fg[k] = fs[k]
        BY <1>5, <4>1
      <4> QED BY <1>5, <3>1, <4>1, <4>2
    <3>3. CASE ~(k <= Len(s))
      <4>1. k - Len(s) \in 1..Len(t) /\ k \in 1..(Len(s) + Len(t))
        BY <1>6, <2>2, <3>3
      <4>2. (s \o t)[k] = t[k - Len(s)] /\ fg[k] = gs[k - Len(s)]
        BY <1>5, <3>3, <4>1
      <4> QED BY <1>5, <3>1, <4>1, <4>2
    <3> QED BY <3>2, <3>3
  <2> HIDE DEF fg
  <2>5. hs = fg
    BY <1>6, <2>1, <2>3, <2>4, SeqEqual
  <2> QED BY <2>5 DEF fg
<1>8. Run(fs \o gs, p) = Run(gs, Run(fs, p))
  BY <1>5, RunConcat
<1>9. Run(fs, p) \in Progress
  BY <1>5, RunType
<1> QED BY <1>3, <1>4, <1>7, <1>8, <1>9 DEF Reading, n, T, B

\* A token alone.
LEMMA ReadingOne ==
  ASSUME NEW E, NEW S, NEW F, NEW g, GoodTables(E, S, F, g), NEW token \in Token, NEW p \in Progress
  PROVE  Reading(g, <<token>>)[p] =
           TokenMeaning(TableOf(g), BodiesOf(g), token, Len(g.sequences) + 1)[p]
<1> DEFINE n == Len(g.sequences) + 1
           T == TableOf(g)
           B == BodiesOf(g)
           s == <<token>>
           f == TokenMeaning(T, B, token, n)
           fs == TokenMeanings(T, B, s, n)
<1>1. n \in Nat /\ Defined(T, n)
  <2>1. Len(g.sequences) \in Nat
    BY BodiesProps
  <2>2. n \in 1..(Len(g.sequences) + 1)
    BY <2>1
  <2> QED BY <2>1, <2>2, TableProps
<1>2. s \in Seq(Token) /\ Len(s) = 1 /\ s[1] = token
  OBVIOUS
<1> HIDE DEF n, T, B, s
<1>3. f \in Readings
  BY <1>1, TokenReads
<1>4. BlockMeaning(T, B, s, n)[p] = Run(fs, p)
  BY <1>1, <1>2, BlockReads
<1>5. fs \in Seq(Readings) /\ Len(fs) = 1 /\ fs[1] = f
  <2>1. /\ fs \in Seq(Readings) /\ Len(fs) = Len(s)
        /\ \A k \in 1..Len(s) : fs[k] = TokenMeaning(T, B, s[k], n)
    BY <1>1, <1>2, TokensRead
  <2> QED BY <1>2, <2>1
<1> HIDE DEF fs, f
<1>6. fs = <<f>>
  BY <1>3, <1>5
<1>7. Run(<<f>>, p) = f[p]
  BY <1>3, RunOne
<1> QED BY <1>4, <1>6, <1>7 DEF Reading, n, T, B, s, f

\* An event, a call and a loop at the end of the tables.
LEMMA EventRead ==
  ASSUME NEW E, NEW S, NEW F, NEW g, GoodTables(E, S, F, g), NEW id \in Nat, NEW p \in Progress
  PROVE  Reading(g, <<EventToken(id)>>)[p] = Meet(p, id)
<1> DEFINE token == EventToken(id)
<1>1. token \in Token /\ token.type = "Event" /\ token.id = id
  BY DEF EventToken, Token, TokenType
<1> HIDE DEF token
<1>2. Reading(g, <<token>>)[p] = TokenMeaning(TableOf(g), BodiesOf(g), token, Len(g.sequences) + 1)[p]
  BY <1>1, ReadingOne
<1>3. TokenMeaning(TableOf(g), BodiesOf(g), token, Len(g.sequences) + 1) = EventMeaning(id)
  BY <1>1 DEF TokenMeaning
<1> QED BY <1>2, <1>3 DEF token, EventMeaning

\* A sequence token reads the tokens of the sequence after entering it.
LEMMA SequenceRead ==
  ASSUME NEW E, NEW S, NEW F, NEW g, GoodTables(E, S, F, g), NEW n \in 1..Len(g.sequences),
         NEW p \in Progress
  PROVE  Reading(g, <<SequenceToken(n)>>)[p] = Entered(Reading(g, g.sequences[n]), n)[p]
<1> DEFINE token == SequenceToken(n)
<1>1. Len(g.sequences) \in Nat
  BY BodiesProps
<1>2. token \in Token /\ token.type = "Sequence" /\ token.id = n
  BY DEF SequenceToken, Token, TokenType
<1>3. n \in 1..((Len(g.sequences) + 1) - 1)
  BY <1>1
<1> HIDE DEF token
<1>4. Reading(g, <<token>>)[p] = TokenMeaning(TableOf(g), BodiesOf(g), token, Len(g.sequences) + 1)[p]
  BY <1>2, ReadingOne
<1>5. TokenMeaning(TableOf(g), BodiesOf(g), token, Len(g.sequences) + 1) = TableOf(g)[n]
  BY <1>2, <1>3 DEF TokenMeaning
<1>6. TableOf(g)[n] = SequenceMeaning(TableOf(g), BodiesOf(g), g.sequences[n], n)
  BY TableProps
<1>7. Reading(g, g.sequences[n]) = BlockMeaning(TableOf(g), BodiesOf(g), g.sequences[n], n)
  BY StoredReading
<1> QED BY <1>4, <1>5, <1>6, <1>7 DEF token, SequenceMeaning, Entered

\* A loop token reads its body as often as its next count says.
LEMMA LoopRead ==
  ASSUME NEW E, NEW S, NEW F, NEW g, GoodTables(E, S, F, g), NEW l \in 1..Len(g.loops),
         NEW p \in Progress
  PROVE  LET n == BodiesOf(g)[l]
         IN  Reading(g, <<LoopToken(l)>>)[p] =
               LoopMeaning(l, Entered(Reading(g, g.sequences[n]), n))[p]
<1> DEFINE n == BodiesOf(g)[l]
           token == LoopToken(l)
<1>1. /\ Len(g.sequences) \in Nat /\ DOMAIN BodiesOf(g) = 1..Len(g.loops)
      /\ n \in 1..Len(g.sequences)
  BY BodiesProps
<1>2. token \in Token /\ token.type = "Loop" /\ token.id = l
  BY DEF LoopToken, Token, TokenType
<1>3. n \in 1..((Len(g.sequences) + 1) - 1)
  BY <1>1
<1> HIDE DEF token
<1>4. Reading(g, <<token>>)[p] = TokenMeaning(TableOf(g), BodiesOf(g), token, Len(g.sequences) + 1)[p]
  BY <1>2, ReadingOne
<1>5. TokenMeaning(TableOf(g), BodiesOf(g), token, Len(g.sequences) + 1) =
        LoopMeaning(l, TableOf(g)[n])
  BY <1>1, <1>2, <1>3 DEF TokenMeaning
<1> HIDE DEF n
<1>6. TableOf(g)[n] = SequenceMeaning(TableOf(g), BodiesOf(g), g.sequences[n], n)
  BY <1>1, TableProps
<1>7. Reading(g, g.sequences[n]) = BlockMeaning(TableOf(g), BodiesOf(g), g.sequences[n], n)
  BY <1>1, StoredReading
<1>8. TableOf(g)[n] = Entered(Reading(g, g.sequences[n]), n)
  BY <1>6, <1>7 DEF SequenceMeaning, Entered
<1> QED BY <1>4, <1>5, <1>8 DEF token, n

\* Of two uniform readings one after the other.
Then(f, g) == [p \in Progress |-> g[f[p]]]

\* Two uniform readings in a row are uniform.
LEMMA ThenUniform ==
  ASSUME NEW f, Uniform(f), NEW g, Uniform(g)
  PROVE  Uniform(Then(f, g))
<1>1. f \in Readings /\ g \in Readings
  BY UniformReads
<1>2. ASSUME NEW G, Closed(G, Nat) PROVE Then(f, g) \in G
  <2> DEFINE fs == <<f>>
             gs == <<g>>
  <2>1. fs \in Seq(G) /\ gs \in Seq(G) /\ fs \o gs \in Seq(G)
    BY <1>2 DEF Uniform
  <2>2. [p \in Progress |-> Run(fs \o gs, p)] \in G
    BY <1>2, <2>1 DEF Closed
  <2>3. ASSUME NEW p \in Progress PROVE Run(fs \o gs, p) = g[f[p]]
    <3>1. fs \in Seq(Readings) /\ gs \in Seq(Readings)
      BY <1>1
    <3>2. Run(fs, p) = f[p] /\ f[p] \in Progress
      BY <1>1, RunOne DEF Readings
    <3>3. Run(gs, f[p]) = g[f[p]]
      BY <1>1, <3>2, RunOne
    <3> HIDE DEF fs, gs
    <3>4. Run(fs \o gs, p) = Run(gs, Run(fs, p))
      BY <3>1, RunConcat
    <3> QED BY <3>2, <3>3, <3>4
  <2> HIDE DEF fs, gs
  <2>4. Then(f, g) = [p \in Progress |-> Run(fs \o gs, p)]
    BY <2>3 DEF Then
  <2> QED BY <2>2, <2>4
<1> QED BY <1>2 DEF Uniform

\* The d first frames, and what they stand for.
GoodFrames(E, g, frames, d) ==
  \A k \in 1..d : frames[k - 1] \in Seq(Token) /\ AllBelow(E, g, frames[k - 1])

FrameReadings(g, frames, d) == [k \in 1..d |-> Reading(g, frames[k - 1])]

Under(g, frames, d) == [p \in Progress |-> Run(FrameReadings(g, frames, d), p)]

\* The frames below a depth read uniformly.
LEMMA UnderUniform ==
  ASSUME NEW E, NEW S, NEW F, NEW g, GoodTables(E, S, F, g), NEW d \in Nat, NEW frames,
         GoodFrames(E, g, frames, d)
  PROVE  Uniform(Under(g, frames, d))
<1>1. ASSUME NEW G, Closed(G, Nat) PROVE Under(g, frames, d) \in G
  <2>1. ASSUME NEW k \in 1..d PROVE Reading(g, frames[k - 1]) \in G
    <3>1. frames[k - 1] \in Seq(Token)
      BY DEF GoodFrames
    <3>2. Uniform(Reading(g, frames[k - 1]))
      BY <3>1, UniformReading
    <3> QED BY <1>1, <3>2 DEF Uniform
  <2>2. FrameReadings(g, frames, d) \in Seq(G)
    BY <2>1 DEF FrameReadings
  <2>3. [p \in Progress |-> Run(FrameReadings(g, frames, d), p)] \in G
    BY <1>1, <2>2 DEF Closed
  <2> QED BY <2>3 DEF Under
<1> QED BY <1>1 DEF Uniform

\* The frames below a depth stand for the same when the tables grow.
LEMMA UnderGrows ==
  ASSUME NEW E, NEW S, NEW F, NEW g, NEW h, GoodTables(E, S, F, g), GoodTables(E, S, F, h),
         Grows(g, h), NEW d \in Nat, NEW frames, NEW frames2, GoodFrames(E, g, frames, d),
         \A k \in 1..d : frames2[k - 1] = frames[k - 1]
  PROVE  Under(g, frames, d) = Under(h, frames2, d)
<1>1. ASSUME NEW k \in 1..d PROVE Reading(g, frames[k - 1]) = Reading(h, frames2[k - 1])
  <2>1. frames[k - 1] \in Seq(Token) /\ AllBelow(E, g, frames[k - 1])
    BY DEF GoodFrames
  <2>2. Reading(g, frames[k - 1]) = Reading(h, frames[k - 1])
    BY <2>1, ReadingGrows
  <2> QED BY <2>2
<1>2. FrameReadings(g, frames, d) = FrameReadings(h, frames2, d)
  BY <1>1 DEF FrameReadings
<1> QED BY <1>2 DEF Under

\* One frame more.
LEMMA UnderNext ==
  ASSUME NEW E, NEW S, NEW F, NEW g, GoodTables(E, S, F, g), NEW d \in Nat, NEW frames,
         GoodFrames(E, g, frames, d + 1), NEW p \in Progress
  PROVE  /\ Under(g, frames, d)[p] \in Progress
         /\ Under(g, frames, d + 1)[p] = Reading(g, frames[d])[Under(g, frames, d)[p]]
<1> DEFINE fs == FrameReadings(g, frames, d)
           f == Reading(g, frames[d])
           gs == FrameReadings(g, frames, d + 1)
<1>1. ASSUME NEW k \in 1..(d + 1) PROVE Reading(g, frames[k - 1]) \in Readings
  <2>1. frames[k - 1] \in Seq(Token)
    BY DEF GoodFrames
  <2> QED BY <2>1, UniformReading, UniformReads
<1>2. fs \in Seq(Readings) /\ Len(fs) = d /\ \A k \in 1..d : fs[k] = Reading(g, frames[k - 1])
  BY <1>1 DEF FrameReadings
<1>3. f \in Readings
  <2>1. d + 1 \in 1..(d + 1) /\ (d + 1) - 1 = d
    OBVIOUS
  <2> QED BY <1>1, <2>1
<1>4. gs \in Seq(Readings) /\ Len(gs) = d + 1
      /\ \A k \in 1..(d + 1) : gs[k] = Reading(g, frames[k - 1])
  BY <1>1 DEF FrameReadings
<1>5. gs[d + 1] = f
  <2>1. d + 1 \in 1..(d + 1) /\ (d + 1) - 1 = d
    OBVIOUS
  <2> QED BY <1>4, <2>1
<1> HIDE DEF fs, f, gs
<1> DEFINE one == <<f>>
<1>6. one \in Seq(Readings) /\ Len(one) = 1 /\ one[1] = f
  BY <1>3
<1>7. Run(one, Run(fs, p)) = f[Run(fs, p)] /\ Run(fs, p) \in Progress
  <2>1. Run(fs, p) \in Progress
    BY <1>2, RunType
  <2> QED BY <1>3, <2>1, RunOne
<1> HIDE DEF one
<1>8. gs = fs \o one
  <2> DEFINE hs == fs \o one
  <2>1. hs \in Seq(Readings) /\ Len(hs) = d + 1
    <3>1. fs \in Seq(Readings) /\ one \in Seq(Readings) /\ Len(fs) = d /\ Len(one) = 1
      BY <1>2, <1>6
    <3> QED BY <3>1, ConcatProperties
  <2>2. ASSUME NEW k \in 1..Len(gs) PROVE gs[k] = hs[k]
    <3>1. CASE k \in 1..d
      <4>1. hs[k] = fs[k]
        BY <1>2, <1>6, <3>1, ConcatProperties
      <4> QED BY <1>2, <1>4, <3>1, <4>1
    <3>2. CASE k = d + 1
      <4>1. hs[k] = one[1]
        BY <1>2, <1>6, <3>2, ConcatProperties
      <4> QED BY <1>5, <1>6, <3>2, <4>1
    <3>3. Len(gs) = d + 1
      BY <1>4
    <3>4. k \in 1..d \/ k = d + 1
      BY <3>3
    <3> QED BY <3>1, <3>2, <3>4
  <2> HIDE DEF hs
  <2>3. gs = hs
    BY <1>4, <2>1, <2>2, SeqEqual
  <2> QED BY <2>3 DEF hs
<1>9. Run(fs \o one, p) = Run(one, Run(fs, p))
  BY <1>2, <1>6, RunConcat
<1> QED BY <1>7, <1>8, <1>9 DEF Under, fs, gs, f

-----------------------------------------------------------------------------
(* What the rewrites put in place of what *)

\* A block is what comes before its last tokens, and those.
LEMMA SplitLast ==
  ASSUME NEW s \in Seq(Token), NEW n \in 1..Len(s)
  PROVE  s = SubSeq(s, 1, Len(s) - n) \o LastTokens(s, n)
<1> DEFINE a == SubSeq(s, 1, Len(s) - n)
           b == LastTokens(s, n)
           t == a \o b
<1>1. Len(s) \in Nat /\ Len(s) - n \in 0..Len(s) /\ n \in Nat
  OBVIOUS
<1>2. a \in Seq(Token) /\ Len(a) = Len(s) - n /\ \A k \in 1..(Len(s) - n) : a[k] = s[k]
  BY <1>1, FirstTokensProps
<1>3. b \in Seq(Token) /\ Len(b) = n /\ \A k \in 1..n : b[k] = s[Len(s) - n + k]
  BY LastTokensProps
<1> HIDE DEF a, b
<1>4. t \in Seq(Token) /\ Len(t) = Len(s)
  <2>1. a \in Seq(Token) /\ b \in Seq(Token) /\ Len(a) + Len(b) = Len(s)
    BY <1>1, <1>2, <1>3
  <2> QED BY <2>1, ConcatProperties
<1>5. ASSUME NEW k \in 1..Len(s) PROVE s[k] = t[k]
  <2>1. CASE k \in 1..(Len(s) - n)
    <3>1. t[k] = a[k]
      <4>1. a \in Seq(Token) /\ b \in Seq(Token) /\ k \in 1..Len(a)
        BY <1>2, <1>3, <2>1
      <4> QED BY <4>1, ConcatProperties
    <3> QED BY <1>2, <2>1, <3>1
  <2>2. CASE ~(k \in 1..(Len(s) - n))
    <3> DEFINE j == k - (Len(s) - n)
    <3>1. j \in 1..n /\ k = (Len(s) - n) + j
      BY <1>1, <2>2
    <3>2. t[k] = b[j]
      <4>1. a \in Seq(Token) /\ b \in Seq(Token) /\ Len(a) = Len(s) - n /\ Len(b) = n
        BY <1>2, <1>3
      <4> QED BY <1>1, <3>1, <4>1, ConcatProperties
    <3> QED BY <1>3, <3>1, <3>2
  <2> QED BY <2>1, <2>2
<1> HIDE DEF t
<1>6. s = t
  BY <1>4, <1>5, SeqEqual
<1> QED BY <1>6 DEF t, a, b

\* The first k tokens are the first k - 1 and one more.
LEMMA LastOne ==
  ASSUME NEW s \in Seq(Token), NEW k \in 1..Len(s)
  PROVE  /\ SubSeq(s, 1, k - 1) \in Seq(Token)
         /\ SubSeq(s, 1, k) = SubSeq(s, 1, k - 1) \o <<s[k]>>
<1> DEFINE a == SubSeq(s, 1, k - 1)
           u == SubSeq(s, 1, k)
           one == <<s[k]>>
           t == a \o one
<1>1. Len(s) \in Nat /\ k - 1 \in 0..Len(s) /\ k \in 0..Len(s) /\ k \in Nat
  OBVIOUS
<1>2. a \in Seq(Token) /\ Len(a) = k - 1 /\ \A i \in 1..(k - 1) : a[i] = s[i]
  BY <1>1, FirstTokensProps
<1>3. u \in Seq(Token) /\ Len(u) = k /\ \A i \in 1..k : u[i] = s[i]
  BY <1>1, FirstTokensProps
<1>4. one \in Seq(Token) /\ Len(one) = 1 /\ one[1] = s[k]
  <2>1. s[k] \in Token
    BY ElementOfSeq
  <2> QED BY <2>1
<1> HIDE DEF a, u, one
<1>5. t \in Seq(Token) /\ Len(t) = k
  <2>1. a \in Seq(Token) /\ one \in Seq(Token) /\ Len(a) + Len(one) = k
    BY <1>1, <1>2, <1>4
  <2> QED BY <2>1, ConcatProperties
<1>6. ASSUME NEW i \in 1..k PROVE u[i] = t[i]
  <2>1. CASE i \in 1..(k - 1)
    <3>1. t[i] = a[i]
      <4>1. a \in Seq(Token) /\ one \in Seq(Token) /\ i \in 1..Len(a)
        BY <1>2, <1>4, <2>1
      <4> QED BY <4>1, ConcatProperties
    <3> QED BY <1>2, <1>3, <2>1, <3>1
  <2>2. CASE i = k
    <3>1. t[k] = one[1]
      <4>1. a \in Seq(Token) /\ one \in Seq(Token) /\ Len(a) = k - 1 /\ Len(one) = 1
        BY <1>2, <1>4
      <4>2. k \in 1..(Len(a) + Len(one)) /\ ~(k <= Len(a)) /\ k - Len(a) = 1
        BY <1>1, <4>1
      <4>3. \A j \in 1..(Len(a) + Len(one)) :
              (a \o one)[j] = IF j <= Len(a) THEN a[j] ELSE one[j - Len(a)]
        BY <4>1, ConcatProperties
      <4>4. (a \o one)[k] = one[k - Len(a)]
        BY <4>2, <4>3
      <4> QED BY <4>2, <4>4
    <3> QED BY <1>3, <1>4, <2>2, <3>1
  <2>3. i \in 1..(k - 1) \/ i = k
    BY <1>1
  <2> QED BY <2>1, <2>2, <2>3
<1> HIDE DEF t
<1>7. u = t
  <2>1. Len(u) = Len(t)
    BY <1>3, <1>5
  <2> QED BY <1>3, <1>5, <1>6, <2>1, SeqEqual
<1> QED BY <1>2, <1>7 DEF t, a, u, one

\* The frame of g is pre, loop l and its body; that of h is pre and loop l.
Absorbed(g, h, l, pre) ==
  /\ l \in 1..Len(g.loops)
  /\ pre \in Seq(Token) /\ LoopToken(l) \in Token
  /\ g.tokens = (pre \o <<LoopToken(l)>>) \o g.sequences[BodiesOf(g)[l]]
  /\ h.tokens = pre \o <<LoopToken(l)>>
  /\ h.sequences = g.sequences
  /\ h.loops = AddIteration(g.loops, l)

\* An iteration that ends a frame, and the loop in front of it.
LEMMA AbsorbShape ==
  ASSUME NEW E, NEW S, NEW F, NEW g, GoodTables(E, S, F, g), GoodTokens(E, g),
         NEW n \in 1..(Len(g.tokens) - 1), EndsWithIteration(g, n)
  PROVE  \E l, pre : /\ Absorbed(g, AbsorbIteration(g, n), l, pre)
                      /\ g.sequences[BodiesOf(g)[l]] = LastTokens(g.tokens, n)
<1> DEFINE kept == Len(g.tokens) - n
           l    == g.tokens[kept].id
           h    == AbsorbIteration(g, n)
           pre  == SubSeq(g.tokens, 1, kept - 1)
<1>1. /\ g \in Grammar
      /\ g.sequences \in Seq(Seq(Token)) /\ g.loops \in Seq(Loop) /\ g.tokens \in Seq(Token)
      /\ \A k \in 1..Len(g.loops) : BodiesOf(g)[k] = g.loops[k].repeated_token.id
  <2>1. g \in Grammar
    BY DEF GoodTables
  <2> QED BY <2>1, BodiesProps
<1>2. kept \in 1..Len(g.tokens) /\ n \in 1..Len(g.tokens) /\ Len(g.tokens) - n = kept
  BY <1>1
<1>3. l \in 1..Len(g.loops)
  BY <1>2 DEF EndsWithIteration, GoodTokens, Below
<1>4. g.tokens[kept] = LoopToken(l)
  <2>1. g.tokens[kept] \in Token
    BY <1>1, <1>2, ElementOfSeq
  <2>2. g.tokens[kept].type = "Loop"
    BY <1>2 DEF EndsWithIteration
  <2> QED BY <2>1, <2>2 DEF Token, LoopToken
<1>5. LastTokens(g.tokens, n) = g.sequences[BodiesOf(g)[l]]
  <2>1. LastTokens(g.tokens, n) = BodyOf(g, l)
    BY <1>2 DEF EndsWithIteration
  <2> QED BY <1>1, <1>3, <2>1 DEF BodyOf
<1>6. g.tokens = SubSeq(g.tokens, 1, kept) \o LastTokens(g.tokens, n)
  BY <1>1, <1>2, SplitLast
<1>7. pre \in Seq(Token) /\ SubSeq(g.tokens, 1, kept) = pre \o <<g.tokens[kept]>>
  BY <1>1, <1>2, LastOne
<1>8. h.tokens = SubSeq(g.tokens, 1, kept) /\ h.sequences = g.sequences
      /\ h.loops = AddIteration(g.loops, l)
  BY <1>1 DEF AbsorbIteration, Grammar
<1>9. LoopToken(l) \in Token
  BY <1>3 DEF LoopToken, Token, TokenType
<1> HIDE DEF h, l, pre, kept
<1>10. Absorbed(g, h, l, pre)
  BY <1>3, <1>4, <1>5, <1>6, <1>7, <1>8, <1>9 DEF Absorbed
<1> QED BY <1>5, <1>10 DEF h

\* The frame of g is pre and twice the body; that of h is pre and loop l over the body.
Folded(g, h, body, sid, l, pre) ==
  /\ body \in Seq(Token) /\ pre \in Seq(Token)
  /\ sid = SequenceIdOf(g.sequences, body) /\ sid \in Nat
  /\ l = LoopIdOf(g.loops, sid)
  /\ g.tokens = (pre \o body) \o body
  /\ h.tokens = pre \o <<LoopToken(l)>>
  /\ h.sequences = WithSequence(g.sequences, body)
  /\ h.sequences[sid] = body
  /\ h.loops = AddIteration(WithLoop(g.loops, sid), l)

\* Two equal blocks that end a frame.
LEMMA FoldShape ==
  ASSUME NEW E, NEW S, NEW F, NEW g, GoodTables(E, S, F, g), NEW n \in 1..(Len(g.tokens) - 1),
         EndsWithRepeat(g, n)
  PROVE  \E body, sid, l, pre : /\ Folded(g, FoldRepeat(g, n), body, sid, l, pre)
                                 /\ body = LastTokens(g.tokens, n)
<1> DEFINE h    == FoldRepeat(g, n)
           body == LastTokens(g.tokens, n)
           sid  == SequenceIdOf(g.sequences, body)
           l    == LoopIdOf(g.loops, sid)
           before == Len(g.tokens) - 2 * n
           pre  == SubSeq(g.tokens, 1, before)
           first == SubSeq(g.tokens, 1, before + n)
<1>1. /\ g \in Grammar
      /\ g.sequences \in Seq(Seq(Token)) /\ g.loops \in Seq(Loop) /\ g.tokens \in Seq(Token)
  BY DEF GoodTables, Grammar
<1>2. /\ before \in 0..Len(g.tokens) /\ n \in 1..Len(g.tokens) /\ n < Len(g.tokens)
      /\ Len(g.tokens) = before + n + n /\ Len(g.tokens) \in Nat
      /\ Len(g.tokens) - n = before + n /\ before + n \in 1..Len(g.tokens)
  <2>1. Len(g.tokens) \in Nat /\ 2 * n <= Len(g.tokens) /\ n \in Nat \ {0}
    BY <1>1 DEF EndsWithRepeat
  <2>2. before = Len(g.tokens) - 2 * n
    OBVIOUS
  <2> HIDE DEF body, before, sid, l, h, pre, first
  <2> QED BY <2>1, <2>2, TwoBlocks
<1>3. body = SubSeq(g.tokens, before + 1, Len(g.tokens) - n)
  BY DEF EndsWithRepeat
<1>4. h = [sequences |-> WithSequence(g.sequences, body),
           loops |-> AddIteration(WithLoop(g.loops, sid), l),
           tokens |-> Append(Resize(g.tokens, before), LoopToken(l))]
  BY DEF FoldRepeat, ReplaceTokensInLoop
<1> HIDE DEF before
<1>5. body \in Seq(Token) /\ Len(body) = n /\ \A k \in 1..n : body[k] = g.tokens[Len(g.tokens) - n + k]
  BY <1>1, <1>2, LastTokensProps
<1>6. pre \in Seq(Token) /\ Len(pre) = before /\ \A k \in 1..before : pre[k] = g.tokens[k]
  BY <1>1, <1>2, FirstTokensProps
<1>7. g.tokens = first \o body
  BY <1>1, <1>2, SplitLast
<1>8. first \in Seq(Token) /\ Len(first) = before + n /\ \A k \in 1..(before + n) : first[k] = g.tokens[k]
  <2>1. before + n \in 0..Len(g.tokens)
    BY <1>2
  <2> QED BY <1>1, <2>1, FirstTokensProps
<1> HIDE DEF body, first, h, sid, l
<1>9. \A k \in 1..n : body[k] = g.tokens[before + k]
  <2> DEFINE a == before + 1
             c == before + n
  <2>1. body = SubSeq(g.tokens, a, c)
    BY <1>2, <1>3
  <2>2. a \in 1..Len(g.tokens) /\ c \in 1..Len(g.tokens) /\ a <= c
    <3>1. Len(g.tokens) \in Nat /\ before \in Nat /\ n \in Nat /\ 1 <= n
      BY <1>2
    <3>2. Len(g.tokens) = before + n + n
      BY <1>2
    <3> QED BY <3>1, <3>2
  <2>3. \A k \in 1..(c - a + 1) : body[k] = g.tokens[a + k - 1]
    <3> HIDE DEF a, c
    <3> QED BY <1>1, <2>1, <2>2
  <2>4. c - a + 1 = n /\ \A k \in 1..n : a + k - 1 = before + k
    <3>1. before \in Nat /\ n \in Nat
      BY <1>2
    <3> QED BY <3>1
  <2> QED BY <2>3, <2>4
<1>10. Resize(g.tokens, before) = pre
  BY <1>2 DEF Resize
<1> HIDE DEF pre
<1>11. first = pre \o body
  <2> DEFINE t == pre \o body
  <2>1. t \in Seq(Token) /\ Len(t) = before + n
    <3>1. pre \in Seq(Token) /\ body \in Seq(Token) /\ Len(pre) = before /\ Len(body) = n
      BY <1>5, <1>6
    <3> QED BY <3>1, ConcatProperties
  <2>2. ASSUME NEW k \in 1..(before + n) PROVE first[k] = t[k]
    <3>1. CASE k \in 1..before
      <4>1. t[k] = pre[k]
        <5>1. pre \in Seq(Token) /\ body \in Seq(Token) /\ k \in 1..Len(pre)
          BY <1>5, <1>6, <3>1
        <5> QED BY <5>1, ConcatProperties
      <4> QED BY <1>6, <1>8, <3>1, <4>1
    <3>2. CASE ~(k \in 1..before)
      <4> DEFINE j == k - before
      <4>1. j \in 1..n /\ k = before + j
        BY <1>2, <3>2
      <4>2. t[k] = body[j]
        <5>1. pre \in Seq(Token) /\ body \in Seq(Token) /\ Len(pre) = before /\ Len(body) = n
          BY <1>5, <1>6
        <5> QED BY <1>2, <4>1, <5>1, ConcatProperties
      <4> QED BY <1>8, <1>9, <4>1, <4>2
    <3> QED BY <3>1, <3>2
  <2> HIDE DEF t
  <2>3. Len(first) = Len(t)
    BY <1>8, <2>1
  <2>4. first = t
    BY <1>8, <2>1, <2>2, <2>3, SeqEqual
  <2> QED BY <2>4 DEF t
<1>12. sid \in 1..Len(WithSequence(g.sequences, body)) /\ WithSequence(g.sequences, body)[sid] = body
       /\ WithSequence(g.sequences, body) \in Seq(Seq(Token))
  BY <1>1, <1>5, WithSequenceProps DEF sid
<1>13. h.sequences = WithSequence(g.sequences, body)
       /\ h.loops = AddIteration(WithLoop(g.loops, sid), l)
       /\ h.tokens = Append(pre, LoopToken(l))
  BY <1>4, <1>10
<1>14. LoopToken(l) \in Token
  <2>1. /\ l \in 1..Len(AddIteration(WithLoop(g.loops, sid), l))
        /\ AddIteration(WithLoop(g.loops, sid), l) \in Seq(Loop)
    <3>1. sid \in Nat /\ \A k \in 1..Len(g.loops) : g.loops[k].repeated_token.type = "Sequence"
      BY <1>12 DEF GoodTables, GoodLoops
    <3> QED BY <1>1, <3>1, NewOccurrence DEF l
  <2> QED BY <2>1 DEF LoopToken, Token, TokenType
<1>15. Append(pre, LoopToken(l)) = pre \o <<LoopToken(l)>>
  BY <1>6, <1>14
<1>16. sid \in Nat
  BY <1>12
<1>17. sid = SequenceIdOf(g.sequences, body) /\ l = LoopIdOf(g.loops, sid)
  BY DEF sid, l
<1>18. Folded(g, h, body, sid, l, pre)
  BY <1>5, <1>6, <1>7, <1>11, <1>12, <1>13, <1>15, <1>16, <1>17 DEF Folded
<1>19. body = LastTokens(g.tokens, n)
  BY DEF body
<1> QED BY <1>18, <1>19 DEF h

-----------------------------------------------------------------------------
(* The counts before anything is read *)

\* Before reading, each loop has all its counts left.
LEMMA UnreadProps ==
  ASSUME NEW ls \in Seq(Loop)
  PROVE  /\ Unread(ls) \in Progress
         /\ Unread(ls).ids = <<>>
         /\ Unread(ls).entered = <<>>
         /\ \A l : Remaining(Unread(ls), l) = IF l \in 1..Len(ls) THEN ls[l].nb_iterations ELSE <<>>
<1>1. \A l \in 1..Len(ls) : ls[l].nb_iterations \in Seq(Nat)
  <2>1. \A l \in 1..Len(ls) : ls[l] \in Loop
    BY ElementOfSeq
  <2> QED BY <2>1 DEF Loop
<1> DEFINE left == [l \in DOMAIN ls |-> ls[l].nb_iterations]
<1>2. DOMAIN left = 1..Len(ls) /\ DOMAIN ls = 1..Len(ls)
  OBVIOUS
<1>3. \A l \in 1..Len(ls) : left[l] = ls[l].nb_iterations
  BY <1>2
<1>4. left \in Seq(Seq(Nat))
  BY <1>1, <1>2
<1>5. Unread(ls) = [ids |-> <<>>, left |-> left, entered |-> <<>>]
  BY DEF Unread
<1> HIDE DEF left
<1>6. Unread(ls) \in Progress
  <2>1. <<>> \in Seq(Nat)
    OBVIOUS
  <2> QED BY <1>4, <1>5, <2>1 DEF Progress
<1>7. Unread(ls).ids = <<>> /\ Unread(ls).entered = <<>> /\ Unread(ls).left = left
  BY <1>5
<1> QED BY <1>2, <1>3, <1>6, <1>7 DEF Remaining

\* One more iteration in the last count.
LEMMA UnreadBumped ==
  ASSUME NEW ls \in Seq(Loop), NEW l \in 1..Len(ls), ls[l].nb_iterations # <<>>, NEW n
  PROVE  \E m \in Nat :
           Alike(Unread(ls), Unread(AddIteration(ls, l)), l, <<m>>, <<m + 1>>, n, 0)
<1> DEFINE s == ls[l].nb_iterations
           t == BumpLast(s)
           e == Len(s)
           new == AddIteration(ls, l)
<1>1. s \in Seq(Nat)
  <2>1. ls[l] \in Loop
    BY ElementOfSeq
  <2> QED BY <2>1 DEF Loop
<1>2. /\ new \in Seq(Loop)
      /\ Len(new) = Len(ls)
      /\ \A k \in 1..Len(ls) : k # l => new[k] = ls[k]
      /\ new[l].nb_iterations = t
  BY AddIterationProps
<1>3. /\ \A j : Remaining(Unread(ls), j) = IF j \in 1..Len(ls) THEN ls[j].nb_iterations ELSE <<>>
      /\ Unread(ls).ids = <<>> /\ Unread(ls).entered = <<>>
  BY UnreadProps
<1> HIDE DEF new
<1>4. /\ \A j : Remaining(Unread(new), j) = IF j \in 1..Len(new) THEN new[j].nb_iterations ELSE <<>>
      /\ Unread(new).ids = <<>> /\ Unread(new).entered = <<>>
  BY <1>2, UnreadProps
<1>5. s # <<>>
  OBVIOUS
<1>6. Remaining(Unread(ls), l) = s /\ Remaining(Unread(new), l) = t
  BY <1>2, <1>3, <1>4
<1>7. \A j \in Nat : j # l => Remaining(Unread(new), j) = Remaining(Unread(ls), j)
  BY <1>2, <1>3, <1>4
<1> HIDE DEF s, t
<1>8. e \in Nat \ {0} /\ e \in 1..Len(s) /\ e - 1 \in Nat
  BY <1>1, <1>5
<1>9. t \in Seq(Nat) /\ Len(t) = e /\ \A k \in 1..e : t[k] = IF k = e THEN s[k] + 1 ELSE s[k]
  BY <1>1, BumpLastProps DEF t
<1> DEFINE rest == SubSeq(s, 1, e - 1)
           m == s[e]
<1>10. m \in Nat
  BY <1>1, <1>8, ElementOfSeq
<1>11. rest \in Seq(Nat) /\ Len(rest) = e - 1 /\ \A k \in 1..(e - 1) : rest[k] = s[k]
  <2> DEFINE c == e - 1
  <2>1. c \in 0..Len(s) /\ Len(s) \in Nat
    BY <1>1, <1>8
  <2>2. /\ SubSeq(s, 1, c) \in Seq(Nat) /\ Len(SubSeq(s, 1, c)) = c
        /\ \A k \in 1..c : SubSeq(s, 1, c)[k] = s[k]
    <3> HIDE DEF c
    <3> QED BY <1>1, <2>1
  <2> QED BY <2>2
<1> HIDE DEF rest, m, e
<1>12. s = rest \o <<m>> /\ t = rest \o <<m + 1>>
  <2>1. s = Append(rest, m)
    <3>1. /\ Append(rest, m) \in Seq(Nat) /\ Len(Append(rest, m)) = e
          /\ \A k \in 1..e : Append(rest, m)[k] = IF k = e THEN m ELSE rest[k]
      BY <1>8, <1>10, <1>11, AppendProperties
    <3>2. \A k \in 1..e : s[k] = Append(rest, m)[k]
      BY <1>8, <1>11, <3>1 DEF m
    <3>3. Len(s) = e
      BY DEF e
    <3> QED BY <1>1, <3>1, <3>2, <3>3, SeqEqual
  <2>2. t = Append(rest, m + 1)
    <3>1. m + 1 \in Nat
      BY <1>10
    <3>2. /\ Append(rest, m + 1) \in Seq(Nat) /\ Len(Append(rest, m + 1)) = e
          /\ \A k \in 1..e : Append(rest, m + 1)[k] = IF k = e THEN m + 1 ELSE rest[k]
      BY <1>8, <1>11, <3>1, AppendProperties
    <3>3. ASSUME NEW k \in 1..e PROVE t[k] = Append(rest, m + 1)[k]
      <4>1. CASE k = e
        BY <1>9, <3>2, <4>1 DEF m
      <4>2. CASE k # e
        <5>1. k \in 1..(e - 1)
          BY <1>8, <4>2
        <5> QED BY <1>9, <1>11, <3>2, <4>2, <5>1
      <4> QED BY <4>1, <4>2
    <3> QED BY <1>9, <3>2, <3>3, SeqEqual
  <2>3. Append(rest, m) = rest \o <<m>> /\ Append(rest, m + 1) = rest \o <<m + 1>>
    BY <1>10, <1>11
  <2> QED BY <2>1, <2>2, <2>3
<1>13. \A k \in Nat : Count(Unread(new).entered, k) =
                        Count(Unread(ls).entered, k) + (IF k = n THEN 0 ELSE 0)
  <2>1. \A k \in Nat : Count(<<>>, k) = 0
    BY DEF Count
  <2> QED BY <1>3, <1>4, <2>1
<1>14. Unread(new).ids = Unread(ls).ids
  BY <1>3, <1>4
<1>15. Alike(Unread(ls), Unread(new), l, <<m>>, <<m + 1>>, n, 0)
  BY <1>6, <1>7, <1>11, <1>12, <1>13, <1>14 DEF Alike
<1> QED BY <1>10, <1>15 DEF new

\* A new occurrence of two iterations.
LEMMA UnreadFolded ==
  ASSUME NEW ls \in Seq(Loop), NEW sid \in Nat, NEW n,
         \A k \in 1..Len(ls) : ls[k].repeated_token.type = "Sequence"
  PROVE  LET l == LoopIdOf(ls, sid)
         IN  Alike(Unread(ls), Unread(AddIteration(WithLoop(ls, sid), l)), l, <<>>, <<2>>, n, 0)
<1> DEFINE l   == LoopIdOf(ls, sid)
           new == AddIteration(WithLoop(ls, sid), l)
<1>1. /\ new \in Seq(Loop)
      /\ l \in 1..Len(new)
      /\ Len(ls) <= Len(new)
      /\ \A k \in 1..Len(ls) : k # l => new[k] = ls[k]
      /\ \A k \in 1..Len(new) : k \notin 1..Len(ls) => k = l
      /\ l \in 1..Len(ls) => new[l].nb_iterations = Append(ls[l].nb_iterations, 2)
      /\ l \notin 1..Len(ls) => new[l].nb_iterations = <<2>>
  BY NewOccurrence
<1> HIDE DEF new, l
<1>2. /\ \A j : Remaining(Unread(ls), j) = IF j \in 1..Len(ls) THEN ls[j].nb_iterations ELSE <<>>
      /\ Unread(ls).ids = <<>> /\ Unread(ls).entered = <<>> /\ Unread(ls) \in Progress
  BY UnreadProps
<1>3. /\ \A j : Remaining(Unread(new), j) = IF j \in 1..Len(new) THEN new[j].nb_iterations ELSE <<>>
      /\ Unread(new).ids = <<>> /\ Unread(new).entered = <<>>
  BY <1>1, UnreadProps
<1>4. \A j \in Nat : j # l => Remaining(Unread(new), j) = Remaining(Unread(ls), j)
  <2> SUFFICES ASSUME NEW j \in Nat, j # l
               PROVE  Remaining(Unread(new), j) = Remaining(Unread(ls), j)
    OBVIOUS
  <2>1. j \in 1..Len(new) <=> j \in 1..Len(ls)
    <3>1. Len(ls) \in Nat /\ Len(new) \in Nat
      BY <1>1
    <3> QED BY <1>1, <3>1
  <2> QED BY <1>1, <1>2, <1>3, <2>1
<1> DEFINE rest == Remaining(Unread(ls), l)
<1>5. rest \in Seq(Nat)
  BY <1>2, RemainingType
<1>6. Remaining(Unread(new), l) = Append(rest, 2)
  <2>1. CASE l \in 1..Len(ls)
    BY <1>1, <1>2, <1>3, <2>1
  <2>2. CASE l \notin 1..Len(ls)
    <3>1. rest = <<>> /\ Append(<<>>, 2) = <<2>>
      BY <1>2, <2>2
    <3> QED BY <1>1, <1>3, <2>2, <3>1
  <2> QED BY <2>1, <2>2
<1> HIDE DEF rest
<1>7. Append(rest, 2) = rest \o <<2>> /\ rest = rest \o <<>>
  BY <1>5
<1>8. \A k \in Nat : Count(Unread(new).entered, k) =
                       Count(Unread(ls).entered, k) + (IF k = n THEN 0 ELSE 0)
  <2>1. \A k \in Nat : Count(<<>>, k) = 0
    BY DEF Count
  <2> QED BY <1>2, <1>3, <2>1
<1>9. Unread(new).ids = Unread(ls).ids
  BY <1>2, <1>3
<1>10. Remaining(Unread(ls), l) = rest \o <<>> /\ Remaining(Unread(new), l) = rest \o <<2>>
  BY <1>6, <1>7 DEF rest
<1>11. Alike(Unread(ls), Unread(new), l, <<>>, <<2>>, n, 0)
  BY <1>4, <1>5, <1>8, <1>9, <1>10 DEF Alike
<1> QED BY <1>11 DEF new, l

\* A loop that is read to its end had a count.
LEMMA LoopHasCount ==
  ASSUME NEW l \in Nat, NEW n \in Nat \ {0}, NEW b, Without(l, b), NEW k, Uniform(k),
         NEW p \in Progress, Exact(b[LoopMeaning(l, Entered(b, n))[k[p]]])
  PROVE  Remaining(p, l) # <<>>
<1> DEFINE f == Entered(b, n)
           x == k[p]
           y == LoopMeaning(l, f)[x]
<1>1. Without(l, f) /\ Uniform(f) /\ Uniform(b) /\ k \in Readings
      /\ LoopMeaning(l, f) \in Readings
  BY EnteredProps, WithoutIsUniform, UniformReads, LoopUniform
<1>2. x \in Progress /\ y \in Progress
  BY <1>1 DEF Readings
<1>3. Clean(b[y])
  BY DEF Exact
<1> HIDE DEF f, x
<1>4. Clean(y)
  <2> HIDE DEF y
  <2> QED BY <1>1, <1>2, <1>3, UncleanStays
<1>5. Clean(x) /\ Remaining(x, l) # <<>>
  BY <1>1, <1>2, <1>4, LoopMet
<1>6. Remaining(x, l) \in Seq(Nat)
  BY <1>2, RemainingType
<1> SUFFICES ASSUME Remaining(p, l) = <<>> PROVE FALSE
  OBVIOUS
<1>7. p \in Spent(l, 1)
  BY DEF Spent
<1>8. k \in Keeps(Spent(l, 1))
  <2>1. 1 \in Nat
    OBVIOUS
  <2>2. Kept(Spent(l, 1), Nat)
    BY <2>1, SpentKept
  <2>3. Closed(Keeps(Spent(l, 1)), Nat)
    BY <2>2, KeepsIsClosed
  <2> QED BY <2>3 DEF Uniform
<1>9. x \in Spent(l, 1)
  BY <1>7, <1>8 DEF Keeps, x
<1>10. Len(Remaining(x, l)) < 1
  BY <1>5, <1>9 DEF Spent
<1> QED BY <1>5, <1>6, <1>10
=============================================================================
