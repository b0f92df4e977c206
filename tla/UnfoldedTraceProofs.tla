------------------------ MODULE UnfoldedTraceProofs ------------------------
(***************************************************************************)
(* The proof that a thread writer is lossless: for any events, any depth   *)
(* and any length of trace, unfolding the grammar gives back the events    *)
(* recorded, and every event has the number of occurrences that it counts. *)
(***************************************************************************)
EXTENDS UnfoldingProofs, FiniteSetTheorems

-----------------------------------------------------------------------------
(* What is read when a frame is rewritten: g.tokens is the frame at depth d, *)
(* and the frames above it are empty.                                        *)

Whole(g, frames, d) == Reading(g, g.tokens)[Under(g, frames, d)[Unread(g.loops)]]

\* q has read what p has, and has entered the sequences from m + 1 to n and all
\* those that p has.
ReadsAs(p, q, m, n) ==
  /\ q.ids = p.ids
  /\ \A k \in Nat : Count(q.entered, k) >= Count(p.entered, k)
  /\ \A k \in (m + 1)..n : Count(q.entered, k) > 0
  /\ \A j \in Nat : Remaining(q, j) = Remaining(p, j)

\* A sequence was entered a number of times, known or not.
LEMMA CountType ==
  ASSUME NEW p \in Progress, NEW k
  PROVE  Count(p.entered, k) \in Nat
<1>1. p.entered \in Seq(Nat)
  BY ProgressFields
<1>2. \A i \in DOMAIN p.entered : p.entered[i] \in Nat
  BY <1>1
<1> QED BY <1>2 DEF Count

\* Reading the same tables gives the same.
LEMMA ReadsAsReflexive ==
  ASSUME NEW p \in Progress, NEW m \in Nat
  PROVE  ReadsAs(p, p, m, m)
<1>1. \A k \in Nat : Count(p.entered, k) \in Nat
  BY CountType
<1>2. \A k \in Nat : Count(p.entered, k) >= Count(p.entered, k)
  BY <1>1
<1>3. (m + 1)..m = {}
  OBVIOUS
<1> QED BY <1>2, <1>3 DEF ReadsAs

\* What reads as what reads as a third reads as the third.
LEMMA ReadsAsThrough ==
  ASSUME NEW p \in Progress, NEW q \in Progress, NEW r \in Progress,
         NEW i \in Nat, NEW j \in Nat, NEW n \in Nat, ReadsAs(p, q, i, j), ReadsAs(q, r, j, n)
  PROVE  ReadsAs(p, r, i, n)
<1>1. \A k \in Nat : Count(p.entered, k) \in Nat /\ Count(q.entered, k) \in Nat
                     /\ Count(r.entered, k) \in Nat
  BY CountType
<1>2. /\ q.ids = p.ids
      /\ \A k \in Nat : Count(q.entered, k) >= Count(p.entered, k)
      /\ \A k \in (i + 1)..j : Count(q.entered, k) > 0
      /\ \A k \in Nat : Remaining(q, k) = Remaining(p, k)
  BY DEF ReadsAs
<1>3. /\ r.ids = q.ids
      /\ \A k \in Nat : Count(r.entered, k) >= Count(q.entered, k)
      /\ \A k \in (j + 1)..n : Count(r.entered, k) > 0
      /\ \A k \in Nat : Remaining(r, k) = Remaining(q, k)
  BY DEF ReadsAs
<1>4. \A k \in Nat : Count(r.entered, k) >= Count(p.entered, k)
  BY <1>1, <1>2, <1>3
<1>5. ASSUME NEW k \in (i + 1)..n PROVE Count(r.entered, k) > 0
  <2>1. k \in Nat /\ (k \in (i + 1)..j \/ k \in (j + 1)..n)
    OBVIOUS
  <2> QED BY <1>1, <1>2, <1>3, <2>1
<1> QED BY <1>2, <1>3, <1>4, <1>5 DEF ReadsAs

\* Additional entries of a new sequence only read as the same.
LEMMA MoreReadsAs ==
  ASSUME NEW p \in Progress, NEW q \in Progress, NEW n \in Nat, NEW c \in Nat \ {0},
         More(p, q, n, c), NEW i \in Nat, NEW j \in Nat,
         \A k \in (i + 1)..j : k = n
  PROVE  ReadsAs(p, q, i, j)
<1>1. \A k \in Nat : Count(p.entered, k) \in Nat
  BY CountType
<1>2. /\ q.ids = p.ids
      /\ \A k \in Nat : Count(q.entered, k) = Count(p.entered, k) + (IF k = n THEN c ELSE 0)
      /\ \A k \in Nat : Remaining(q, k) = Remaining(p, k)
  BY DEF More
<1>3. \A k \in Nat : Count(q.entered, k) >= Count(p.entered, k)
  BY <1>1, <1>2
<1>4. Count(q.entered, n) > 0
  BY <1>1, <1>2
<1> QED BY <1>2, <1>3, <1>4 DEF ReadsAs

\* What reads as something exact is exact.
LEMMA ExactThrough ==
  ASSUME NEW p, NEW q, NEW m, NEW n, ReadsAs(p, q, m, n), Exact(p)
  PROVE  Exact(q)
BY DEF ReadsAs, Exact, Clean

\* Frames stay good when the tables grow.
LEMMA FramesGrow ==
  ASSUME NEW E, NEW S, NEW F, NEW g, NEW h, GoodTables(E, S, F, g), GoodTables(E, S, F, h),
         Grows(g, h), NEW d \in Nat, NEW frames, GoodFrames(E, g, frames, d)
  PROVE  GoodFrames(E, h, frames, d)
<1>1. /\ g.sequences \in Seq(Seq(Token)) /\ g.loops \in Seq(Loop) /\ Len(g.sequences) \in Nat
      /\ h.sequences \in Seq(Seq(Token)) /\ h.loops \in Seq(Loop) /\ Len(h.sequences) \in Nat
  BY BodiesProps
<1> DEFINE m == Len(g.sequences) + 1
           n == Len(h.sequences) + 1
<1>2. m \in Nat /\ n \in Nat /\ m <= n
  BY <1>1 DEF Grows
<1>3. ASSUME NEW k \in 1..d, NEW i \in 1..Len(frames[k - 1])
      PROVE  Below(E, h, frames[k - 1][i], n)
  <2>1. frames[k - 1] \in Seq(Token) /\ Below(E, g, frames[k - 1][i], m)
    BY DEF GoodFrames, AllBelow
  <2>2. frames[k - 1][i] \in Token
    BY <2>1, ElementOfSeq
  <2> HIDE DEF m, n
  <2> QED BY <1>1, <1>2, <2>1, <2>2, BelowGrows
<1> QED BY <1>3 DEF GoodFrames, AllBelow

\* Reading all frames leads to a progress.
LEMMA WholeType ==
  ASSUME NEW E, NEW S, NEW F, NEW g, GoodTables(E, S, F, g), NEW d \in Nat, NEW frames,
         GoodFrames(E, g, frames, d)
  PROVE  /\ Unread(g.loops) \in Progress
         /\ Under(g, frames, d)[Unread(g.loops)] \in Progress
         /\ Whole(g, frames, d) \in Progress
<1>1. g.loops \in Seq(Loop) /\ g.tokens \in Seq(Token)
  BY BodiesProps
<1>2. Unread(g.loops) \in Progress
  BY <1>1, UnreadProps
<1>3. Under(g, frames, d) \in Readings
  BY UnderUniform, UniformReads
<1>4. Reading(g, g.tokens) \in Readings
  BY <1>1, UniformReading, UniformReads
<1> QED BY <1>2, <1>3, <1>4 DEF Readings, Whole

\* A loop at the end of a frame, in its context.
LEMMA LoopStands ==
  ASSUME NEW E, NEW S, NEW F, NEW h, GoodTables(E, S, F, h), NEW l \in 1..Len(h.loops),
         NEW pre \in Seq(Token), LoopToken(l) \in Token,
         NEW d \in Nat, NEW frames, GoodFrames(E, h, frames, d)
  PROVE  LET n == BodiesOf(h)[l]
             b == Reading(h, h.sequences[n])
             u == Under(h, frames, d)
             k == Then(u, Reading(h, pre))
         IN  /\ l \in Nat /\ n \in Nat \ {0} /\ h.sequences[n] \in Seq(Token)
             /\ Without(l, b)
             /\ Uniform(k)
             /\ \A p \in Progress :
                  /\ u[p] \in Progress
                  /\ k[p] = Reading(h, pre)[u[p]]
                  /\ Reading(h, pre \o <<LoopToken(l)>>)[u[p]] = LoopMeaning(l, Entered(b, n))[k[p]]
<1> DEFINE n == BodiesOf(h)[l]
           b == Reading(h, h.sequences[n])
           u == Under(h, frames, d)
           k == Then(u, Reading(h, pre))
           one == <<LoopToken(l)>>
<1>1. h.sequences \in Seq(Seq(Token)) /\ n \in 1..Len(h.sequences) /\ Len(h.sequences) \in Nat
      /\ Len(h.loops) \in Nat
  BY BodiesProps
<1>2. l \in Nat /\ n \in Nat \ {0} /\ h.sequences[n] \in Seq(Token)
  BY <1>1, BlockTokens
<1>3. Without(l, b)
  BY BodyWithout
<1>4. Uniform(u) /\ Uniform(Reading(h, pre)) /\ Uniform(k)
  BY UnderUniform, UniformReading, ThenUniform
<1>5. one \in Seq(Token)
  OBVIOUS
<1>6. u \in Readings
  BY <1>4, UniformReads
<1> HIDE DEF n, b, u, one
<1>7. ASSUME NEW p \in Progress
      PROVE  /\ u[p] \in Progress
             /\ k[p] = Reading(h, pre)[u[p]]
             /\ Reading(h, pre \o one)[u[p]] = LoopMeaning(l, Entered(b, n))[k[p]]
  <2>1. u[p] \in Progress
    BY <1>6 DEF Readings
  <2>2. k[p] = Reading(h, pre)[u[p]]
    BY DEF Then
  <2>3. /\ Reading(h, pre)[u[p]] \in Progress
        /\ Reading(h, pre \o one)[u[p]] = Reading(h, one)[Reading(h, pre)[u[p]]]
    BY <1>5, <2>1, ReadingSplits
  <2> HIDE DEF k
  <2>4. Reading(h, one)[k[p]] = LoopMeaning(l, Entered(b, n))[k[p]]
    BY <2>2, <2>3, LoopRead DEF n, b, one
  <2> QED BY <2>1, <2>2, <2>3, <2>4
<1> QED BY <1>2, <1>3, <1>4, <1>7 DEF n, b, u, one

\* q has read what p has, and entered the sequence of the last n tokens c times
\* more.
Gains(p, q, g, n, c) == More(p, q, SequenceIdOf(g.sequences, LastTokens(g.tokens, n)), c)

\* q is what p becomes when the search for a loop in g rewrites what it finds: an
\* iteration is read as one call more, a new loop as two.
FindGains(p, q, g) ==
  LET n == LengthFound(g)
  IN  IF Looping(g) THEN Gains(p, q, g, n, IF EndsWithIteration(g, n) THEN 1 ELSE 2)
      ELSE q = p

\* And when a block is closed: the call is one, and may complete a loop.
ExitGains(p, q, g, upper) ==
  LET id == SequenceIdOf(g.sequences, g.tokens)
      m  == [g EXCEPT !.sequences = WithSequence(@, g.tokens), !.tokens = upper]
  IN  \E r \in Progress : More(p, r, id, 1) /\ FindGains(r, q, Pushed(m, SequenceToken(id)))

\* A sequence of the table is found where it is.
LEMMA KnownId ==
  ASSUME NEW E, NEW S, NEW F, NEW g, GoodTables(E, S, F, g), NEW i \in 1..Len(g.sequences)
  PROVE  SequenceIdOf(g.sequences, g.sequences[i]) = i
<1> DEFINE s == g.sequences
<1>1. s \in Seq(Seq(Token))
  BY BodiesProps
<1>2. \A m, n \in 1..Len(s) : s[m] = s[n] => m = n
  BY DEF GoodTables, Distinct
<1> HIDE DEF s
<1>3. SequenceIdOf(s, s[i]) = i
  BY <1>1, <1>2 DEF SequenceIdOf, IsKnown, s
<1> QED BY <1>3 DEF s

\* Absorbing an iteration changes nothing of what is read.
LEMMA AbsorbStep ==
  ASSUME NEW E, NEW S, NEW F, NEW g, GoodTables(E, S, F, g), GoodTokens(E, g),
         FlatTail(S \cup F, g.tokens),
         NEW n \in 1..(Len(g.tokens) - 1), EndsWithIteration(g, n),
         NEW d \in Nat, NEW frames, GoodFrames(E, g, frames, d), Exact(Whole(g, frames, d))
  PROVE  LET h == AbsorbIteration(g, n)
         IN  /\ Whole(h, frames, d) \in Progress
             /\ ReadsAs(Whole(g, frames, d), Whole(h, frames, d), Len(g.sequences), Len(h.sequences))
             /\ Gains(Whole(g, frames, d), Whole(h, frames, d), g, n, 1)
<1> DEFINE h == AbsorbIteration(g, n)
<1>1. GoodTables(E, S, F, h) /\ Grows(g, h)
  BY AbsorbRewrites DEF Rewrites
<1> HIDE DEF h
<1>0. PICK l, pre : Absorbed(g, h, l, pre) /\ g.sequences[BodiesOf(g)[l]] = LastTokens(g.tokens, n)
  BY AbsorbShape DEF h
<1> DEFINE sid == BodiesOf(g)[l]
           body == g.sequences[sid]
           front == pre \o <<LoopToken(l)>>
<1>2. /\ l \in 1..Len(g.loops)
      /\ pre \in Seq(Token) /\ LoopToken(l) \in Token
      /\ g.tokens = front \o body
      /\ h.tokens = front
      /\ h.sequences = g.sequences
      /\ h.loops = AddIteration(g.loops, l)
  BY <1>0 DEF Absorbed
<1>3. /\ g.sequences \in Seq(Seq(Token)) /\ g.loops \in Seq(Loop) /\ g.tokens \in Seq(Token)
      /\ Len(g.sequences) \in Nat /\ sid \in 1..Len(g.sequences)
      /\ DOMAIN BodiesOf(g) = 1..Len(g.loops)
  BY <1>2, BodiesProps
<1>4. BodiesOf(h)[l] = sid /\ l \in 1..Len(h.loops)
  <2>1. BodiesGrow(BodiesOf(g), BodiesOf(h))
    BY <1>1, TableGrows
  <2>2. DOMAIN BodiesOf(h) = 1..Len(h.loops)
    BY <1>1, BodiesProps
  <2> QED BY <1>2, <1>3, <2>1, <2>2 DEF BodiesGrow
<1> HIDE DEF sid
<1> DEFINE b == Reading(h, body)
           u == Under(h, frames, d)
           k == Then(u, Reading(h, pre))
           p == Unread(g.loops)
           q == Unread(h.loops)
           M == LoopMeaning(l, Entered(b, sid))
<1>5. GoodFrames(E, h, frames, d)
  BY <1>1, FramesGrow
<1>6. /\ l \in Nat /\ sid \in Nat \ {0} /\ body \in Seq(Token)
      /\ Without(l, b)
      /\ Uniform(k)
      /\ \A o \in Progress :
           /\ u[o] \in Progress
           /\ k[o] = Reading(h, pre)[u[o]]
           /\ Reading(h, front)[u[o]] = M[k[o]]
  BY <1>1, <1>2, <1>4, <1>5, LoopStands
<1>7. p \in Progress /\ q \in Progress /\ Whole(g, frames, d) \in Progress
  BY <1>1, <1>5, WholeType
<1>8. Whole(h, frames, d) = M[k[q]]
  BY <1>2, <1>6, <1>7 DEF Whole
<1>9. Whole(g, frames, d) = b[M[k[p]]]
  <2>1. Under(g, frames, d) = u
    BY <1>1, UnderGrows
  <2>2. Reading(g, g.tokens) = Reading(h, g.tokens)
    <3>1. AllBelow(E, g, g.tokens)
      BY DEF GoodTokens, AllBelow
    <3> QED BY <1>1, <1>3, <3>1, ReadingGrows
  <2>3. front \in Seq(Token)
    BY <1>2
  <2> HIDE DEF front, u, M, k, p
  <2>4. u[p] \in Progress
    BY <1>6, <1>7
  <2>5. Reading(h, front \o body)[u[p]] = Reading(h, body)[Reading(h, front)[u[p]]]
    BY <1>1, <1>6, <2>3, <2>4, ReadingSplits
  <2>6. Reading(h, front)[u[p]] = M[k[p]]
    BY <1>6, <1>7
  <2>7. Whole(g, frames, d) = Reading(g, g.tokens)[u[p]]
    BY <2>1 DEF Whole, p
  <2> QED BY <1>2, <2>2, <2>5, <2>6, <2>7
<1> HIDE DEF b, u, k, p, q
<1>10. Exact(b[LoopMeaning(l, Entered(b, sid))[k[p]]])
  BY <1>9
<1>11. g.loops[l].nb_iterations # <<>>
  <2>1. Remaining(p, l) # <<>>
    BY <1>6, <1>7, <1>10, LoopHasCount
  <2>2. Remaining(p, l) = g.loops[l].nb_iterations
    BY <1>2, <1>3, UnreadProps DEF p
  <2> QED BY <2>1, <2>2
<1>12. PICK m \in Nat : Alike(p, q, l, <<m>>, <<m + 1>>, sid, 0)
  BY <1>2, <1>3, <1>11, UnreadBumped DEF p, q
<1>13. M[k[q]] \in Progress /\ More(b[M[k[p]]], M[k[q]], sid, 1)
  BY <1>6, <1>7, <1>10, <1>12, AbsorbReads
<1>14. ReadsAs(Whole(g, frames, d), Whole(h, frames, d), Len(g.sequences), Len(h.sequences))
  <2>1. More(Whole(g, frames, d), Whole(h, frames, d), sid, 1)
    BY <1>8, <1>9, <1>13
  <2>2. Whole(h, frames, d) \in Progress
    BY <1>8, <1>13
  <2>3. \A j \in (Len(g.sequences) + 1)..Len(h.sequences) : j = sid
    BY <1>2, <1>3
  <2> QED BY <1>2, <1>3, <1>6, <1>7, <2>1, <2>2, <2>3, MoreReadsAs
<1>15. Gains(Whole(g, frames, d), Whole(h, frames, d), g, n, 1)
  <2>1. More(Whole(g, frames, d), Whole(h, frames, d), sid, 1)
    BY <1>8, <1>9, <1>13
  <2>2. SequenceIdOf(g.sequences, g.sequences[sid]) = sid
    BY <1>3, KnownId
  <2>3. g.sequences[sid] = LastTokens(g.tokens, n)
    BY <1>0 DEF sid
  <2> HIDE DEF M
  <2> QED BY <2>1, <2>2, <2>3 DEF Gains
<1> QED BY <1>8, <1>13, <1>14, <1>15 DEF h

\* Nor does folding two equal blocks.
LEMMA FoldStep ==
  ASSUME NEW E, NEW S, NEW F, NEW g, GoodTables(E, S, F, g), GoodTokens(E, g),
         FlatTail(S \cup F, g.tokens),
         NEW n \in 1..(Len(g.tokens) - 1), EndsWithRepeat(g, n),
         Algorithm = "BasicTruncated" => n < MaxLoopLength,
         NEW d \in Nat, NEW frames, GoodFrames(E, g, frames, d), Exact(Whole(g, frames, d))
  PROVE  LET h == FoldRepeat(g, n)
         IN  /\ Whole(h, frames, d) \in Progress
             /\ ReadsAs(Whole(g, frames, d), Whole(h, frames, d), Len(g.sequences), Len(h.sequences))
             /\ Gains(Whole(g, frames, d), Whole(h, frames, d), g, n, 2)
<1> DEFINE h == FoldRepeat(g, n)
<1>1. GoodTables(E, S, F, h) /\ Grows(g, h)
  BY FoldRewrites DEF Rewrites
<1> HIDE DEF h
<1>0. PICK body, sid, l, pre : Folded(g, h, body, sid, l, pre) /\ body = LastTokens(g.tokens, n)
  BY FoldShape DEF h
<1> DEFINE front == pre \o <<LoopToken(l)>>
<1>2. /\ body \in Seq(Token) /\ pre \in Seq(Token)
      /\ sid = SequenceIdOf(g.sequences, body) /\ sid \in Nat
      /\ l = LoopIdOf(g.loops, sid)
      /\ g.tokens = (pre \o body) \o body
      /\ h.tokens = front
      /\ h.sequences = WithSequence(g.sequences, body)
      /\ h.sequences[sid] = body
      /\ h.loops = AddIteration(WithLoop(g.loops, sid), l)
  BY <1>0 DEF Folded
<1>3. /\ g.sequences \in Seq(Seq(Token)) /\ g.loops \in Seq(Loop) /\ g.tokens \in Seq(Token)
      /\ Len(g.sequences) \in Nat
      /\ Len(h.sequences) \in Nat /\ Len(h.loops) \in Nat
      /\ \A i \in 1..Len(h.loops) : BodiesOf(h)[i] = h.loops[i].repeated_token.id
  BY <1>1, BodiesProps
<1>4. \A i \in (Len(g.sequences) + 1)..Len(h.sequences) : i = sid
  <2>1. \A i \in 1..Len(h.sequences) : i \notin 1..Len(g.sequences) => i = sid
    BY <1>2, <1>3, WithSequenceProps
  <2> QED BY <1>3, <2>1
<1>5. \A i \in 1..Len(g.loops) : g.loops[i].repeated_token.type = "Sequence"
  BY DEF GoodTables, GoodLoops
<1>6. /\ l \in 1..Len(h.loops) /\ h.loops[l].repeated_token = SequenceToken(sid)
      /\ h.loops \in Seq(Loop)
  <2> DEFINE m   == LoopIdOf(g.loops, sid)
             new == AddIteration(WithLoop(g.loops, sid), m)
  <2>1. g.loops \in Seq(Loop) /\ sid \in Nat
    BY <1>2, <1>3
  <2>2. /\ new \in Seq(Loop)
        /\ m \in 1..Len(new)
        /\ new[m].repeated_token = SequenceToken(sid)
    BY <1>5, <2>1, NewOccurrence
  <2>3. l = m /\ h.loops = new
    BY <1>2
  <2> HIDE DEF m, new
  <2> QED BY <2>2, <2>3
<1>7. Alike(Unread(g.loops), Unread(h.loops), l, <<>>, <<2>>, sid, 0)
  BY <1>2, <1>3, <1>5, UnreadFolded
<1>8. BodiesOf(h)[l] = sid
  BY <1>3, <1>6 DEF SequenceToken
<1>9. LoopToken(l) \in Token
  BY <1>3, <1>6 DEF LoopToken, Token, TokenType
<1> DEFINE b == Reading(h, body)
           u == Under(h, frames, d)
           k == Then(u, Reading(h, pre))
           p == Unread(g.loops)
           q == Unread(h.loops)
           M == LoopMeaning(l, Entered(b, sid))
<1>10. GoodFrames(E, h, frames, d)
  BY <1>1, FramesGrow
<1>11. /\ l \in Nat /\ sid \in Nat \ {0}
       /\ Without(l, b)
       /\ Uniform(k)
       /\ \A o \in Progress :
            /\ u[o] \in Progress
            /\ k[o] = Reading(h, pre)[u[o]]
            /\ Reading(h, front)[u[o]] = M[k[o]]
  BY <1>1, <1>2, <1>6, <1>8, <1>9, <1>10, LoopStands
<1>12. p \in Progress /\ q \in Progress /\ Whole(g, frames, d) \in Progress
  BY <1>1, <1>10, WholeType
<1>13. Whole(h, frames, d) = M[k[q]]
  <2>1. Whole(h, frames, d) = Reading(h, front)[u[q]]
    <3>1. h.tokens = front
      BY <1>2
    <3> QED BY <3>1 DEF Whole
  <2>2. q \in Progress
    BY <1>12
  <2> HIDE DEF q, u, k, M, front
  <2>3. Reading(h, front)[u[q]] = M[k[q]]
    BY <1>11, <2>2
  <2> QED BY <2>1, <2>3
<1>14. Whole(g, frames, d) = b[b[k[p]]]
  <2>1. Under(g, frames, d) = u
    BY <1>1, UnderGrows
  <2>2. Reading(g, g.tokens) = Reading(h, g.tokens)
    <3>1. AllBelow(E, g, g.tokens)
      BY DEF GoodTokens, AllBelow
    <3> QED BY <1>1, <1>3, <3>1, ReadingGrows
  <2> DEFINE pb == pre \o body
  <2>3. pb \in Seq(Token)
    BY <1>2
  <2> HIDE DEF u, k, p
  <2>4. u[p] \in Progress /\ k[p] = Reading(h, pre)[u[p]]
    BY <1>11, <1>12
  <2>5. Reading(h, pb)[u[p]] = Reading(h, body)[Reading(h, pre)[u[p]]]
    BY <1>1, <1>2, <2>4, ReadingSplits
  <2> HIDE DEF pb
  <2>6. Reading(h, pb \o body)[u[p]] = Reading(h, body)[Reading(h, pb)[u[p]]]
    BY <1>1, <1>2, <2>3, <2>4, ReadingSplits
  <2>7. Whole(g, frames, d) = Reading(g, g.tokens)[u[p]]
    BY <2>1 DEF Whole, p
  <2>8. g.tokens = pb \o body
    BY <1>2 DEF pb
  <2> QED BY <2>2, <2>4, <2>5, <2>6, <2>7, <2>8
<1> HIDE DEF b, u, k
<1>15. M[k[q]] \in Progress /\ More(b[b[k[p]]], M[k[q]], sid, 2)
  <2>1. Exact(b[b[k[p]]])
    BY <1>14
  <2> HIDE DEF p, q
  <2>2. Alike(p, q, l, <<>>, <<2>>, sid, 0)
    BY <1>7 DEF p, q
  <2> QED BY <1>11, <1>12, <2>1, <2>2, FoldReads
<1>16. ReadsAs(Whole(g, frames, d), Whole(h, frames, d), Len(g.sequences), Len(h.sequences))
  <2>1. More(Whole(g, frames, d), Whole(h, frames, d), sid, 2)
    BY <1>13, <1>14, <1>15
  <2>2. Whole(h, frames, d) \in Progress
    BY <1>13, <1>15
  <2>3. sid \in Nat /\ 2 \in Nat \ {0}
    BY <1>11
  <2> QED BY <1>3, <1>4, <1>12, <2>1, <2>2, <2>3, MoreReadsAs
<1>17. Gains(Whole(g, frames, d), Whole(h, frames, d), g, n, 2)
  <2>1. More(Whole(g, frames, d), Whole(h, frames, d), sid, 2)
    BY <1>13, <1>14, <1>15
  <2>2. sid = SequenceIdOf(g.sequences, LastTokens(g.tokens, n))
    BY <1>0, <1>2
  <2> HIDE DEF M, p, q
  <2> QED BY <2>1, <2>2 DEF Gains
<1> QED BY <1>13, <1>15, <1>16, <1>17 DEF h

\* Nor does the search for a loop, whatever it finds.
LEMMA FindReads ==
  ASSUME Algorithm # "Filter",
         NEW E, NEW S, NEW F, NEW g, GoodTables(E, S, F, g), GoodTokens(E, g),
         FlatTail(S \cup F, g.tokens), g.tokens # <<>>,
         NEW d \in Nat, NEW frames, GoodFrames(E, g, frames, d), Exact(Whole(g, frames, d))
  PROVE  /\ Whole(FindLoop(g), frames, d) \in Progress
         /\ ReadsAs(Whole(g, frames, d), Whole(FindLoop(g), frames, d),
                    Len(g.sequences), Len(FindLoop(g).sequences))
         /\ FindGains(Whole(g, frames, d), Whole(FindLoop(g), frames, d), g)
<1>1. CASE ~Looping(g)
  <2>1. FindLoop(g) = g
    BY <1>1 DEF Looping, FindLoop, FindLoopBasic
  <2>2. Len(g.sequences) \in Nat
    BY BodiesProps
  <2>3. Whole(g, frames, d) \in Progress
    BY WholeType
  <2>4. ReadsAs(Whole(g, frames, d), Whole(g, frames, d), Len(g.sequences), Len(g.sequences))
    BY <2>2, <2>3, ReadsAsReflexive
  <2> QED BY <1>1, <2>1, <2>3, <2>4 DEF FindGains
<1>2. CASE Looping(g)
  <2> DEFINE n == LengthFound(g)
  <2>1. n \in LoopLengths(g) /\ IsShortestLoop(g, n)
    BY <1>2 DEF Looping, LengthFound
  <2>2. FindLoop(g) = RewriteLoop(g, n)
    BY <1>2 DEF Looping, LengthFound, FindLoop, FindLoopBasic
  <2>3. FindGains(Whole(g, frames, d), Whole(FindLoop(g), frames, d), g) <=>
          Gains(Whole(g, frames, d), Whole(FindLoop(g), frames, d), g, n,
                IF EndsWithIteration(g, n) THEN 1 ELSE 2)
    BY <1>2 DEF FindGains
  <2> HIDE DEF n
  <2>4. n \in 1..(Len(g.tokens) - 1) /\ (Algorithm = "BasicTruncated" => n < MaxLoopLength)
    BY <2>1 DEF LoopLengths
  <2>5. CASE EndsWithIteration(g, n)
    <3>1. FindLoop(g) = AbsorbIteration(g, n)
      BY <2>2, <2>5 DEF RewriteLoop
    <3> QED BY <2>3, <2>4, <2>5, <3>1, AbsorbStep
  <2>6. CASE ~EndsWithIteration(g, n)
    <3>1. EndsWithRepeat(g, n)
      BY <2>1, <2>6 DEF IsShortestLoop, EndsWithLoop
    <3>2. FindLoop(g) = FoldRepeat(g, n)
      BY <2>2, <2>6 DEF RewriteLoop
    <3> QED BY <2>3, <2>4, <2>6, <3>1, <3>2, FoldStep
  <2> QED BY <2>5, <2>6
<1> QED BY <1>1, <1>2

-----------------------------------------------------------------------------
(* What is read when a token is stored, and when a block is closed *)

\* Only the tables decide what tokens and frames stand for.
LEMMA SameTablesRead ==
  ASSUME NEW g, NEW h, h.sequences = g.sequences, h.loops = g.loops
  PROVE  /\ \A tokens : Reading(h, tokens) = Reading(g, tokens)
         /\ \A frames, d : Under(h, frames, d) = Under(g, frames, d)
BY DEF Reading, TableOf, BodiesOf, Under, FrameReadings

\* With a token pushed, the trace reads as before, and then the token.
LEMMA PushedRead ==
  ASSUME NEW E, NEW S, NEW F, NEW g, GoodTables(E, S, F, g), GoodTokens(E, g), NEW token \in Token,
         Below(E, g, token, Len(g.sequences) + 1),
         NEW d \in Nat, NEW frames, GoodFrames(E, g, frames, d)
  PROVE  /\ Whole(g, frames, d) \in Progress
         /\ Whole(Pushed(g, token), frames, d) = Reading(g, <<token>>)[Whole(g, frames, d)]
<1>0. /\ Pushed(g, token) \in Grammar
      /\ Pushed(g, token).sequences = g.sequences
      /\ Pushed(g, token).loops = g.loops
      /\ Pushed(g, token).tokens = Append(g.tokens, token)
      /\ GoodTables(E, S, F, Pushed(g, token))
      /\ GoodTokens(E, Pushed(g, token))
  BY PushedProps
<1> DEFINE h == Pushed(g, token)
           one == <<token>>
           x == Under(g, frames, d)[Unread(g.loops)]
<1>1. h.sequences = g.sequences /\ h.loops = g.loops /\ h.tokens = Append(g.tokens, token)
  BY <1>0
<1>2. g.tokens \in Seq(Token)
  BY BodiesProps
<1>3. Append(g.tokens, token) = g.tokens \o one /\ one \in Seq(Token)
  BY <1>2
<1>4. x \in Progress /\ Whole(g, frames, d) \in Progress
  BY WholeType
<1> HIDE DEF h, one
<1>5. Whole(h, frames, d) = Reading(g, g.tokens \o one)[x]
  BY <1>1, <1>3, SameTablesRead DEF Whole
<1>6. Whole(g, frames, d) = Reading(g, g.tokens)[x]
  BY DEF Whole
<1> HIDE DEF x
<1>7. Reading(g, g.tokens \o one)[x] = Reading(g, one)[Reading(g, g.tokens)[x]]
  BY <1>2, <1>3, <1>4, ReadingSplits
<1> QED BY <1>4, <1>5, <1>6, <1>7 DEF h, one

\* A flat tail stays flat under a token that closes nothing.
LEMMA PushedTail ==
  ASSUME NEW K, NEW tokens \in Seq(Token), NEW token \in Token, FlatTail(K, tokens),
         tokens # <<>> => ~IsMark(K, token)
  PROVE  FlatTail(K, Append(tokens, token)) /\ Append(tokens, token) # <<>>
<1> DEFINE new == Append(tokens, token)
<1>1. new \in Seq(Token) /\ Len(new) = Len(tokens) + 1 /\ Len(tokens) \in Nat
      /\ \A k \in 1..Len(tokens) : new[k] = tokens[k]
      /\ new[Len(tokens) + 1] = token
  BY AppendProperties
<1> HIDE DEF new
<1>2. ASSUME NEW k \in 2..Len(new) PROVE ~IsMark(K, new[k])
  <2>1. CASE k \in 1..Len(tokens)
    <3>1. k \in 2..Len(tokens)
      BY <1>1, <2>1
    <3> QED BY <1>1, <2>1, <3>1 DEF FlatTail
  <2>2. CASE k \notin 1..Len(tokens)
    <3>1. k = Len(tokens) + 1 /\ Len(tokens) # 0
      BY <1>1, <2>2
    <3> QED BY <1>1, <3>1
  <2> QED BY <2>1, <2>2
<1>3. new # <<>>
  <2>1. Len(new) # 0
    BY <1>1
  <2> QED BY <2>1
<1> QED BY <1>2, <1>3 DEF FlatTail, new

\* What is exact stays so when an event is met.
LEMMA ExactMeets ==
  ASSUME NEW p \in Progress, Exact(p), NEW id \in Nat \ {0}
  PROVE  Meet(p, id) \in Progress /\ Exact(Meet(p, id))
<1>1. /\ Meet(p, id) \in Progress /\ Meet(p, id).ids = Append(p.ids, id)
      /\ Meet(p, id).left = p.left
  BY MeetProps
<1>2. p.ids \in Seq(Nat)
  BY ProgressFields
<1> DEFINE new == Append(p.ids, id)
<1>3. Len(new) = Len(p.ids) + 1 /\ Len(p.ids) \in Nat
      /\ \A k \in 1..Len(p.ids) : new[k] = p.ids[k]
  BY <1>2, AppendProperties
<1>7. new[Len(p.ids) + 1] = id
  BY <1>2, AppendProperties
<1> HIDE DEF new
<1>4. ASSUME NEW k \in 1..Len(new) PROVE new[k] # NoEvent
  <2>1. k \in 1..Len(p.ids) \/ k = Len(p.ids) + 1
    BY <1>3
  <2>2. CASE k \in 1..Len(p.ids)
    BY <1>3, <2>2 DEF Exact, Clean
  <2>3. CASE k = Len(p.ids) + 1
    <3>1. new[k] = id
      BY <1>7, <2>3
    <3> QED BY <3>1 DEF NoEvent
  <2> QED BY <2>1, <2>2, <2>3
<1>5. Clean(Meet(p, id))
  BY <1>1, <1>4 DEF Clean, new
<1>6. \A l : Remaining(Meet(p, id), l) = Remaining(p, l)
  BY <1>1, SameRemaining
<1> QED BY <1>1, <1>5, <1>6 DEF Exact

\* An event that is stored is read after all others, whatever loop it completes.
LEMMA StoreReads ==
  ASSUME Algorithm # "Filter",
         NEW E, NEW S, NEW F, NEW g, GoodTables(E, S, F, g), GoodTokens(E, g),
         NEW id \in E, id \in Nat \ {0}, FlatTail(S \cup F, g.tokens),
         g.tokens # <<>> => ~IsMark(S \cup F, EventToken(id)),
         NEW d \in Nat, NEW frames, GoodFrames(E, g, frames, d), Exact(Whole(g, frames, d))
  PROVE  LET h == StoreToken(g, EventToken(id))
         IN  /\ Whole(h, frames, d) \in Progress /\ Exact(Whole(h, frames, d))
             /\ ReadsAs(Meet(Whole(g, frames, d), id), Whole(h, frames, d),
                        Len(g.sequences), Len(h.sequences))
             /\ FindGains(Meet(Whole(g, frames, d), id), Whole(h, frames, d),
                          Pushed(g, EventToken(id)))
<1> DEFINE token == EventToken(id)
           p == Pushed(g, token)
           h == StoreToken(g, token)
<1>1. token \in Token /\ Below(E, g, token, Len(g.sequences) + 1)
  BY DEF EventToken, Token, TokenType, Below
<1>2. g.tokens \in Seq(Token)
  BY BodiesProps
<1>3. h = FindLoop(p)
  BY DEF StoreToken, Pushed
<1> HIDE DEF p, h, token
<1>0. /\ Pushed(g, token) \in Grammar
      /\ Pushed(g, token).sequences = g.sequences
      /\ Pushed(g, token).loops = g.loops
      /\ Pushed(g, token).tokens = Append(g.tokens, token)
      /\ GoodTables(E, S, F, Pushed(g, token))
      /\ GoodTokens(E, Pushed(g, token))
  BY <1>1, PushedProps
<1>4. GoodTables(E, S, F, p) /\ GoodTokens(E, p) /\ p.tokens = Append(g.tokens, token)
      /\ p.sequences = g.sequences /\ p.loops = g.loops
  BY <1>0 DEF p
<1>5. FlatTail(S \cup F, p.tokens) /\ p.tokens # <<>>
  <2>1. g.tokens # <<>> => ~IsMark(S \cup F, token)
    BY DEF token
  <2> QED BY <1>1, <1>2, <1>4, <2>1, PushedTail
<1>6. GoodFrames(E, p, frames, d)
  <2>1. \A t, n : Below(E, p, t, n) <=> Below(E, g, t, n)
    BY <1>4 DEF Below
  <2> QED BY <1>4, <2>1 DEF GoodFrames, AllBelow
<1>7. Whole(g, frames, d) \in Progress /\ Whole(p, frames, d) = Meet(Whole(g, frames, d), id)
  <2>1. Whole(g, frames, d) \in Progress
        /\ Whole(p, frames, d) = Reading(g, <<token>>)[Whole(g, frames, d)]
    BY <1>1, PushedRead DEF p
  <2>2. Reading(g, <<token>>)[Whole(g, frames, d)] = Meet(Whole(g, frames, d), id)
    BY <2>1, EventRead DEF token
  <2> QED BY <2>1, <2>2
<1>8. Whole(p, frames, d) \in Progress /\ Exact(Whole(p, frames, d))
  BY <1>7, ExactMeets
<1>9. /\ Whole(h, frames, d) \in Progress
      /\ ReadsAs(Whole(p, frames, d), Whole(h, frames, d), Len(p.sequences), Len(h.sequences))
      /\ FindGains(Whole(p, frames, d), Whole(h, frames, d), p)
  BY <1>3, <1>4, <1>5, <1>6, <1>8, FindReads
<1>10. Exact(Whole(h, frames, d))
  BY <1>8, <1>9, ExactThrough
<1>11. FindGains(Meet(Whole(g, frames, d), id), Whole(h, frames, d), Pushed(g, token))
  BY <1>7, <1>9 DEF p
<1> QED BY <1>4, <1>7, <1>9, <1>10, <1>11 DEF h, token

\* A block that is closed is read as it was, now through the frame below.
LEMMA CloseReads ==
  ASSUME Algorithm # "Filter",
         NEW E, NEW S, NEW F, NEW g, GoodTables(E, S, F, g), GoodTokens(E, g),
         FlatIn(S \cup F, g.tokens) \/ BlockIn(S, F, g.tokens),
         NEW d \in Nat, NEW frames, GoodFrames(E, g, frames, d + 1), FlatTail(S \cup F, frames[d]),
         Exact(Whole(g, frames, d + 1))
  PROVE  LET h == ExitInto(g, frames[d])
         IN  /\ Whole(h, frames, d) \in Progress /\ Exact(Whole(h, frames, d))
             /\ ReadsAs(Whole(g, frames, d + 1), Whole(h, frames, d),
                        Len(g.sequences), Len(h.sequences))
             /\ ExitGains(Whole(g, frames, d + 1), Whole(h, frames, d), g, frames[d])
<1> DEFINE upper == frames[d]
           sid == SequenceIdOf(g.sequences, g.tokens)
           m == [g EXCEPT !.sequences = WithSequence(@, g.tokens), !.tokens = upper]
           token == SequenceToken(sid)
           p == Pushed(m, token)
           h == ExitInto(g, upper)
<1>1. /\ g.sequences \in Seq(Seq(Token)) /\ g.loops \in Seq(Loop) /\ g.tokens \in Seq(Token)
      /\ Len(g.sequences) \in Nat /\ g \in Grammar
  <2>1. g \in Grammar
    BY DEF GoodTables
  <2> QED BY <2>1, BodiesProps
<1>2. upper \in Seq(Token) /\ AllBelow(E, g, upper)
  <2>1. d + 1 \in 1..(d + 1) /\ (d + 1) - 1 = d
    OBVIOUS
  <2> QED BY <2>1 DEF GoodFrames
<1>3. /\ GoodTables(E, S, F, m) /\ GoodTokens(E, m) /\ Grows(g, m)
      /\ m.tokens = upper /\ m.loops = g.loops
      /\ token \in Token
      /\ Below(E, m, token, Len(m.sequences) + 1)
  BY <1>2, CloseBlock DEF AllBelow
<1>4. m.sequences = WithSequence(g.sequences, g.tokens)
  BY <1>1 DEF Grammar
<1>5. h = FindLoop(p)
  BY DEF ExitInto, StoreToken, Pushed
<1> HIDE DEF m, sid, h, upper
<1>6. /\ sid \in 1..Len(m.sequences) /\ sid \in Nat \ {0}
      /\ m.sequences[sid] = g.tokens
      /\ Len(m.sequences) \in Nat
      /\ \A n \in (Len(g.sequences) + 1)..Len(m.sequences) : n = sid
  <2>1. /\ sid \in 1..Len(WithSequence(g.sequences, g.tokens))
        /\ WithSequence(g.sequences, g.tokens)[sid] = g.tokens
        /\ \A n \in 1..Len(WithSequence(g.sequences, g.tokens)) : n \notin 1..Len(g.sequences) => n = sid
        /\ WithSequence(g.sequences, g.tokens) \in Seq(Seq(Token))
    BY <1>1, WithSequenceProps DEF sid
  <2>2. Len(WithSequence(g.sequences, g.tokens)) \in Nat
    BY <2>1
  <2> QED BY <1>1, <1>4, <2>1, <2>2
<1>7. GoodFrames(E, m, frames, d + 1) /\ GoodFrames(E, m, frames, d)
  <2>1. GoodFrames(E, m, frames, d + 1)
    <3>1. d + 1 \in Nat
      OBVIOUS
    <3> QED BY <1>3, <3>1, FramesGrow
  <2>2. \A k \in 1..d : k \in 1..(d + 1)
    OBVIOUS
  <2> QED BY <2>1, <2>2 DEF GoodFrames
<1> HIDE DEF token
<1>8. GoodTables(E, S, F, p) /\ GoodTokens(E, p) /\ p.tokens = Append(upper, token)
      /\ p.sequences = m.sequences /\ p.loops = m.loops
  <2>1. /\ Pushed(m, token) \in Grammar
        /\ Pushed(m, token).sequences = m.sequences
        /\ Pushed(m, token).loops = m.loops
        /\ Pushed(m, token).tokens = Append(m.tokens, token)
        /\ GoodTables(E, S, F, Pushed(m, token))
        /\ GoodTokens(E, Pushed(m, token))
    BY <1>3, PushedProps
  <2> QED BY <1>3, <2>1 DEF p
<1> HIDE DEF p
<1> DEFINE U == Unread(g.loops)
           b == Reading(m, g.tokens)
           x == Whole(m, frames, d)
<1>9. x \in Progress /\ Whole(p, frames, d) = Entered(b, sid)[x]
  <2>1. x \in Progress /\ Whole(p, frames, d) = Reading(m, <<token>>)[x]
    BY <1>3, <1>7, PushedRead DEF p
  <2>2. Reading(m, <<token>>)[x] = Entered(b, sid)[x]
    BY <1>3, <1>6, <2>1, SequenceRead DEF token
  <2> QED BY <2>1, <2>2
<1>10. Whole(g, frames, d + 1) = b[x]
  <2>1. AllBelow(E, g, g.tokens)
    BY DEF GoodTokens, AllBelow
  <2>2. Reading(g, g.tokens) = b
    BY <1>1, <1>3, <2>1, ReadingGrows
  <2>3. Under(g, frames, d + 1) = Under(m, frames, d + 1)
    <3>1. d + 1 \in Nat
      OBVIOUS
    <3> QED BY <1>3, <3>1, UnderGrows
  <2>4. U \in Progress
    BY <1>1, UnreadProps
  <2>5. Under(m, frames, d + 1)[U] = Reading(m, upper)[Under(m, frames, d)[U]]
    <3> HIDE DEF U
    <3> QED BY <1>3, <1>7, <2>4, UnderNext DEF upper
  <2>6. x = Reading(m, upper)[Under(m, frames, d)[U]]
    BY <1>3 DEF Whole
  <2>7. Whole(g, frames, d + 1) = Reading(g, g.tokens)[Under(g, frames, d + 1)[U]]
    BY DEF Whole
  <2> HIDE DEF b, x, U
  <2> QED BY <2>2, <2>3, <2>5, <2>6, <2>7
<1>11. Uniform(b)
  BY <1>1, <1>3, UniformReading
<1> HIDE DEF b, x
<1>12. Entered(b, sid)[x] \in Progress /\ More(b[x], Entered(b, sid)[x], sid, 1)
  <2>1. Clean(b[x])
    BY <1>10 DEF Exact
  <2> QED BY <1>6, <1>9, <1>11, <2>1, ExitReads
<1>13. b[x] \in Progress
  BY <1>9, <1>11, UniformReads DEF Readings
<1>14. ReadsAs(b[x], Whole(p, frames, d), Len(g.sequences), Len(p.sequences))
  <2>1. More(b[x], Whole(p, frames, d), sid, 1) /\ Whole(p, frames, d) \in Progress
    BY <1>9, <1>12
  <2>2. sid \in Nat /\ 1 \in Nat \ {0}
    BY <1>6
  <2>3. ReadsAs(b[x], Whole(p, frames, d), Len(g.sequences), Len(m.sequences))
    BY <1>1, <1>6, <1>13, <2>1, <2>2, MoreReadsAs
  <2> QED BY <1>8, <2>3
<1>15. Whole(p, frames, d) \in Progress /\ Exact(Whole(p, frames, d))
  BY <1>9, <1>10, <1>12, <1>14, ExactThrough
<1>16. FlatTail(S \cup F, p.tokens) /\ p.tokens # <<>>
  <2>1. ~IsMark(S \cup F, token)
    BY DEF token, SequenceToken, IsMark
  <2>2. FlatTail(S \cup F, upper)
    BY DEF upper
  <2> QED BY <1>2, <1>3, <1>8, <2>1, <2>2, PushedTail
<1>17. GoodFrames(E, p, frames, d)
  <2>1. \A t, n : Below(E, p, t, n) <=> Below(E, m, t, n)
    BY <1>8 DEF Below
  <2> QED BY <1>7, <1>8, <2>1 DEF GoodFrames, AllBelow
<1>18. /\ Whole(h, frames, d) \in Progress
       /\ ReadsAs(Whole(p, frames, d), Whole(h, frames, d), Len(p.sequences), Len(h.sequences))
       /\ FindGains(Whole(p, frames, d), Whole(h, frames, d), p)
  BY <1>5, <1>8, <1>15, <1>16, <1>17, FindReads
<1>19. Exact(Whole(h, frames, d))
  BY <1>15, <1>18, ExactThrough
<1>20. ReadsAs(b[x], Whole(h, frames, d), Len(g.sequences), Len(h.sequences))
  <2>1. Len(p.sequences) \in Nat
    BY <1>6, <1>8
  <2>2. Len(h.sequences) \in Nat
    <3>1. GoodTables(E, S, F, h)
      BY <1>5, <1>8, <1>16, FindRewrites DEF Rewrites
    <3> QED BY <3>1, BodiesProps
  <2> QED BY <1>1, <1>13, <1>14, <1>15, <1>18, <2>1, <2>2, ReadsAsThrough
<1>21. ExitGains(b[x], Whole(h, frames, d), g, upper)
  <2> DEFINE r == Whole(p, frames, d)
  <2>1. r \in Progress /\ More(b[x], r, sid, 1)
    BY <1>9, <1>12
  <2>2. FindGains(r, Whole(h, frames, d), p)
    BY <1>18
  <2> HIDE DEF r
  <2>3. FindGains(r, Whole(h, frames, d), Pushed(m, SequenceToken(sid)))
    BY <2>2 DEF p, token
  <2> QED BY <2>1, <2>3 DEF ExitGains, m, sid
<1> QED BY <1>10, <1>18, <1>19, <1>20, <1>21 DEF h, upper

-----------------------------------------------------------------------------
(* The whole trace, before and after a step *)

\* No tokens read as nothing.
LEMMA EmptyRead ==
  ASSUME NEW E, NEW S, NEW F, NEW g, GoodTables(E, S, F, g), NEW p \in Progress
  PROVE  Reading(g, <<>>)[p] = p
<1> DEFINE n == Len(g.sequences) + 1
           T == TableOf(g)
           B == BodiesOf(g)
           s == <<>>
<1>1. n \in Nat /\ Defined(T, n)
  <2>1. Len(g.sequences) \in Nat
    BY BodiesProps
  <2>2. n \in 1..(Len(g.sequences) + 1)
    BY <2>1
  <2> QED BY <2>1, <2>2, TableProps
<1>2. s \in Seq(Token) /\ s = <<>>
  OBVIOUS
<1>3. TokenMeanings(T, B, <<>>, n) = <<>>
  BY DEF TokenMeanings
<1> HIDE DEF n, T, B, s
<1>4. BlockMeaning(T, B, s, n)[p] = Run(TokenMeanings(T, B, s, n), p)
  BY <1>1, <1>2, BlockReads
<1>5. Run(<<>>, p) = p
  BY RunNothing
<1> QED BY <1>2, <1>3, <1>4, <1>5 DEF Reading, n, T, B

\* The unfolding of the trace reads the frames in use one after the other.
LEMMA UnfoldingIsWhole ==
  ASSUME NEW E, NEW S, NEW F, NEW g, GoodTables(E, S, F, g), GoodTokens(E, g),
         NEW d \in Depths, NEW frames, GoodFrames(E, g, frames, d), frames[d] = g.tokens,
         \A c \in Depths : c > d => frames[c] = <<>>
  PROVE  Run(FrameMeanings(g.sequences, Bodies(g.loops), frames), Unread(g.loops)) =
           Whole(g, frames, d)
<1> DEFINE p == Unread(g.loops)
           P == {n \in Nat : (d + 1) + n <= MaxDepth =>
                               Under(g, frames, (d + 1) + n)[p] = Under(g, frames, d + 1)[p]}
<1>1. d \in Nat /\ MaxDepth \in Nat /\ d + 1 <= MaxDepth
  BY MaxDepthAssumption DEF Depths
<1>2. g.tokens \in Seq(Token) /\ g.loops \in Seq(Loop)
  BY BodiesProps
<1>3. p \in Progress
  BY <1>2, UnreadProps
<1>4. GoodFrames(E, g, frames, MaxDepth)
  <2> SUFFICES ASSUME NEW k \in 1..MaxDepth
               PROVE  frames[k - 1] \in Seq(Token) /\ AllBelow(E, g, frames[k - 1])
    BY DEF GoodFrames
  <2>1. CASE k \in 1..d
    BY <2>1 DEF GoodFrames
  <2>2. CASE k = d + 1
    <3>1. k - 1 = d
      BY <1>1, <2>2
    <3> QED BY <1>2, <3>1 DEF GoodTokens, AllBelow
  <2>3. CASE k > d + 1
    <3>1. k - 1 \in Depths /\ k - 1 > d
      BY <1>1, <2>3 DEF Depths
    <3>2. frames[k - 1] = <<>>
      BY <3>1
    <3> QED BY <3>2 DEF AllBelow
  <2> QED BY <1>1, <2>1, <2>2, <2>3
<1>5. \A e \in 1..MaxDepth : GoodFrames(E, g, frames, e)
  <2>1. \A e \in 1..MaxDepth : \A k \in 1..e : k \in 1..MaxDepth
    BY <1>1
  <2> QED BY <1>4, <2>1 DEF GoodFrames
<1> HIDE DEF p
<1>6. 0 \in P
  <2>1. (d + 1) + 0 = d + 1
    BY <1>1
  <2> QED BY <2>1
<1>7. ASSUME NEW n \in Nat, n \in P PROVE n + 1 \in P
  <2> SUFFICES ASSUME (d + 1) + (n + 1) <= MaxDepth
               PROVE  Under(g, frames, (d + 1) + (n + 1))[p] = Under(g, frames, d + 1)[p]
    OBVIOUS
  <2> DEFINE e == (d + 1) + n
  <2>1. e \in Nat /\ e <= MaxDepth /\ e + 1 \in 1..MaxDepth /\ (d + 1) + (n + 1) = e + 1
        /\ e \in Depths /\ e > d
    BY <1>1 DEF Depths
  <2>2. Under(g, frames, e)[p] = Under(g, frames, d + 1)[p]
    BY <1>7, <2>1
  <2> HIDE DEF e
  <2>3. /\ Under(g, frames, e)[p] \in Progress
        /\ Under(g, frames, e + 1)[p] = Reading(g, frames[e])[Under(g, frames, e)[p]]
    BY <1>3, <1>5, <2>1, UnderNext
  <2>4. frames[e] = <<>>
    BY <2>1
  <2>5. Reading(g, <<>>)[Under(g, frames, e)[p]] = Under(g, frames, e)[p]
    BY <2>3, EmptyRead
  <2> QED BY <2>1, <2>2, <2>3, <2>4, <2>5
<1> HIDE DEF P
<1>8. Nat \subseteq P
  BY <1>6, <1>7, SetInduction
<1>9. Under(g, frames, MaxDepth)[p] = Under(g, frames, d + 1)[p]
  <2> DEFINE n == MaxDepth - (d + 1)
  <2>1. n \in Nat /\ (d + 1) + n = MaxDepth
    BY <1>1
  <2> HIDE DEF n
  <2>2. n \in P
    BY <1>8, <2>1
  <2>3. (d + 1) + n <= MaxDepth => Under(g, frames, (d + 1) + n)[p] = Under(g, frames, d + 1)[p]
    BY <2>2 DEF P
  <2> QED BY <1>1, <2>1, <2>3
<1>10. Under(g, frames, d + 1)[p] = Reading(g, g.tokens)[Under(g, frames, d)[p]]
  <2>1. d + 1 \in 1..MaxDepth
    BY <1>1
  <2> QED BY <1>1, <1>3, <1>5, <2>1, UnderNext
<1>11. FrameMeanings(g.sequences, Bodies(g.loops), frames) = FrameReadings(g, frames, MaxDepth)
  BY DEF FrameMeanings, FrameReadings, Reading, TableOf, BodiesOf
<1>12. Under(g, frames, MaxDepth)[p] = Run(FrameReadings(g, frames, MaxDepth), p)
  BY <1>3 DEF Under
<1> QED BY <1>9, <1>10, <1>11, <1>12 DEF Whole, p

\* The frames of the thread, for the event table after the step.
LEMMA ThreadFrames ==
  ASSUME IInv, EventsGrow, NEW g, g.sequences = sequences, g.loops = loops, NEW d \in 0..MaxDepth
  PROVE  GoodFrames(Ids', g, og_seq, d)
<1>1. TypeOK
  BY DEF IInv
<1>2. ASSUME NEW k \in 1..d
      PROVE  og_seq[k - 1] \in Seq(Token) /\ AllBelow(Ids', g, og_seq[k - 1])
  <2> DEFINE c == k - 1
  <2>1. c \in Depths
    BY MaxDepthAssumption DEF Depths
  <2> HIDE DEF c
  <2>2. /\ GrammarAt(c).sequences = sequences
        /\ GrammarAt(c).loops = loops
        /\ GrammarAt(c).tokens = og_seq[c]
        /\ og_seq[c] \in Seq(Token)
    BY <1>1, <2>1, GrammarAtProps
  <2>3. GoodTokens(Ids', GrammarAt(c))
    BY <2>1, FramesGoodForNewEvents
  <2>4. AllBelow(Ids', g, og_seq[c])
    BY <2>2, <2>3 DEF GoodTokens, AllBelow, Below
  <2> QED BY <2>2, <2>4 DEF c
<1> QED BY <1>2 DEF GoodFrames

\* What has been read before the step, from the frame that it will change.
LEMMA UnfoldingBefore ==
  ASSUME IInv, EventsGrow, NEW d \in Depths, \A c \in Depths : c > d => og_seq[c] = <<>>
  PROVE  Unfolding = Whole(GrammarAt(d), og_seq, d) /\ Unfolding \in Progress
<1> DEFINE g == GrammarAt(d)
<1>1. TypeOK
  BY DEF IInv
<1>2. /\ g.sequences = sequences /\ g.loops = loops /\ g.tokens = og_seq[d]
      /\ GoodTables(Ids', Starts', Ends', g) /\ GoodTokens(Ids', g)
  BY <1>1, GrammarAtProps, FramesGoodForNewEvents
<1> HIDE DEF g
<1>3. d \in 0..MaxDepth /\ d \in Nat
  BY MaxDepthAssumption DEF Depths
<1>4. GoodFrames(Ids', g, og_seq, d)
  BY <1>2, <1>3, ThreadFrames
<1>5. Run(FrameMeanings(g.sequences, Bodies(g.loops), og_seq), Unread(g.loops)) =
        Whole(g, og_seq, d)
  BY <1>2, <1>4, UnfoldingIsWhole
<1>6. Whole(g, og_seq, d) \in Progress
  BY <1>2, <1>3, <1>4, WholeType
<1> QED BY <1>2, <1>5, <1>6 DEF Unfolding, g

\* What is read after a step that left h at depth d, and nothing above it.
LEMMA UnfoldingAfter ==
  ASSUME IInv, EventsGrow, NEW d \in Depths, NEW h,
         GoodTables(Ids', Starts', Ends', h), GoodTokens(Ids', h), Grows(GrammarAt(d), h),
         sequences' = h.sequences, loops' = h.loops, og_seq'[d] = h.tokens,
         \A c \in Depths : c < d => og_seq'[c] = og_seq[c],
         \A c \in Depths : c > d => og_seq'[c] = <<>>
  PROVE  Unfolding' = Whole(h, og_seq, d) /\ GoodFrames(Ids', h, og_seq, d)
<1> DEFINE g == GrammarAt(d)
<1>1. TypeOK
  BY DEF IInv
<1>2. /\ g.sequences = sequences /\ g.loops = loops /\ g.tokens = og_seq[d]
      /\ GoodTables(Ids', Starts', Ends', g) /\ GoodTokens(Ids', g) /\ Grows(g, h)
  BY <1>1, GrammarAtProps, FramesGoodForNewEvents
<1> HIDE DEF g
<1>3. d \in 0..MaxDepth /\ d \in Nat
  BY MaxDepthAssumption DEF Depths
<1>4. GoodFrames(Ids', g, og_seq, d)
  BY <1>2, <1>3, ThreadFrames
<1>5. GoodFrames(Ids', h, og_seq, d)
  BY <1>2, <1>3, <1>4, FramesGrow
<1>6. \A k \in 1..d : og_seq'[k - 1] = og_seq[k - 1]
  <2>1. \A k \in 1..d : k - 1 \in Depths /\ k - 1 < d
    BY <1>3, MaxDepthAssumption DEF Depths
  <2> QED BY <2>1
<1>7. GoodFrames(Ids', h, og_seq', d)
  BY <1>5, <1>6 DEF GoodFrames
<1>8. Run(FrameMeanings(h.sequences, Bodies(h.loops), og_seq'), Unread(h.loops)) =
        Whole(h, og_seq', d)
  <2> DEFINE frames == og_seq'
  <2>1. frames[d] = h.tokens /\ (\A c \in Depths : c > d => frames[c] = <<>>)
    OBVIOUS
  <2>2. GoodFrames(Ids', h, frames, d)
    BY <1>7
  <2> HIDE DEF frames
  <2>3. Run(FrameMeanings(h.sequences, Bodies(h.loops), frames), Unread(h.loops)) =
          Whole(h, frames, d)
    BY <2>1, <2>2, UnfoldingIsWhole
  <2> QED BY <2>3 DEF frames
<1>9. Unfolding' = Run(FrameMeanings(sequences', Bodies(loops'), og_seq'), Unread(loops'))
  BY DEF Unfolding
<1>10. Under(h, og_seq, d) = Under(h, og_seq', d)
  <2>1. Grows(h, h)
    BY SameGrammar DEF GoodTables
  <2> QED BY <1>3, <1>5, <1>6, <2>1, UnderGrows
<1> QED BY <1>5, <1>8, <1>9, <1>10 DEF Whole


-----------------------------------------------------------------------------
(* The calls *)

\* storeEvent in the frame at depth d, when no frame above it is in use: the
\* event is read after all that was read before.
LEMMA StoreStep ==
  ASSUME Algorithm # "Filter", IInv, EventsGrow, NEW d \in Depths,
         \A c \in Depths : c > d => og_seq[c] = <<>>,
         NEW id, id \in Ids', FlatTail(Starts' \cup Ends', og_seq[d]),
         og_seq[d] # <<>> => ~IsMark(Starts' \cup Ends', EventToken(id)),
         SetFrame(d, StoreToken(GrammarAt(d), EventToken(id))), Exact(Unfolding)
  PROVE  /\ Unfolding' \in Progress /\ Exact(Unfolding')
         /\ ReadsAs(Meet(Unfolding, id), Unfolding', Len(sequences), Len(sequences'))
         /\ FindGains(Meet(Unfolding, id), Unfolding', Pushed(GrammarAt(d), EventToken(id)))
<1> DEFINE token == EventToken(id)
           g == GrammarAt(d)
           h == StoreToken(g, token)
<1>1. TypeOK
  BY DEF IInv
<1>2. /\ g.sequences = sequences /\ g.tokens = og_seq[d]
      /\ GoodTables(Ids', Starts', Ends', g) /\ GoodTokens(Ids', g)
  BY <1>1, GrammarAtProps, FramesGoodForNewEvents
<1>3. id \in Nat \ {0}
  BY DEF Ids, EventsGrow
<1>4. token \in Token /\ token.type = "Event" /\ token.id = id
  BY <1>3 DEF EventToken, Token, TokenType
<1>5. Below(Ids', g, token, Len(g.sequences) + 1)
  BY <1>4 DEF Below
<1>6. /\ sequences' = h.sequences /\ loops' = h.loops
      /\ og_seq' = [og_seq EXCEPT ![d] = h.tokens]
  BY DEF SetFrame
<1>7. d \in 0..MaxDepth /\ d \in Nat
  BY MaxDepthAssumption DEF Depths
<1>8. Unfolding = Whole(g, og_seq, d) /\ Unfolding \in Progress
  BY UnfoldingBefore
<1>9. GoodFrames(Ids', g, og_seq, d)
  <2>1. g.loops = loops
    BY <1>1, GrammarAtProps
  <2> HIDE DEF g
  <2> QED BY <1>2, <1>7, <2>1, ThreadFrames
<1> HIDE DEF token
<1>10. Rewrites(Ids', Starts', Ends', Pushed(g, token), h) /\ Grows(g, h)
  BY <1>2, <1>4, <1>5, StoreRewrites DEF token
<1>11. GoodTables(Ids', Starts', Ends', h) /\ GoodTokens(Ids', h)
  BY <1>10 DEF Rewrites
<1>12. /\ Whole(h, og_seq, d) \in Progress /\ Exact(Whole(h, og_seq, d))
       /\ ReadsAs(Meet(Whole(g, og_seq, d), id), Whole(h, og_seq, d),
                  Len(g.sequences), Len(h.sequences))
       /\ FindGains(Meet(Whole(g, og_seq, d), id), Whole(h, og_seq, d), Pushed(g, token))
  <2>1. Exact(Whole(g, og_seq, d))
    BY <1>8
  <2> HIDE DEF g
  <2> QED BY <1>2, <1>3, <1>7, <1>9, <2>1, StoreReads DEF token
<1> HIDE DEF h
<1>13. /\ og_seq'[d] = h.tokens
       /\ \A c \in Depths : c < d => og_seq'[c] = og_seq[c]
       /\ \A c \in Depths : c > d => og_seq'[c] = <<>>
  <2>1. \A c \in Depths : c # d => og_seq'[c] = og_seq[c]
    BY <1>1, <1>6 DEF TypeOK
  <2>2. \A c \in Depths : c < d => c # d
    BY <1>7 DEF Depths
  <2>3. \A c \in Depths : c > d => c # d
    BY <1>7 DEF Depths
  <2>4. og_seq'[d] = h.tokens
    BY <1>1, <1>6 DEF TypeOK
  <2> QED BY <2>1, <2>2, <2>3, <2>4
<1>14. Unfolding' = Whole(h, og_seq, d)
  BY <1>6, <1>10, <1>11, <1>13, UnfoldingAfter
<1>15. FindGains(Meet(Unfolding, id), Unfolding', Pushed(g, token))
  <2> HIDE DEF g
  <2> QED BY <1>8, <1>12, <1>14
<1>16. ReadsAs(Meet(Unfolding, id), Unfolding', Len(sequences), Len(sequences'))
  BY <1>2, <1>6, <1>8, <1>12, <1>14
<1>17. Unfolding' \in Progress /\ Exact(Unfolding')
  BY <1>12, <1>14
<1> QED BY <1>15, <1>16, <1>17 DEF token

\* recordExitFunction on the innermost frame, when its tokens are those of b:
\* what b read is read through the frame below.
LEMMA CloseStep ==
  ASSUME Algorithm # "Filter", IInv, EventsGrow, cur_depth \in Depths, cur_depth > 0, NEW b,
         GoodTables(Ids', Starts', Ends', b), GoodTokens(Ids', b),
         b.sequences = sequences, b.loops = loops,
         BlockIn(Starts', Ends', b.tokens), RecordExitFunction(cur_depth, b),
         Exact(Whole(b, og_seq, cur_depth))
  PROVE  /\ Unfolding' \in Progress /\ Exact(Unfolding')
         /\ ReadsAs(Whole(b, og_seq, cur_depth), Unfolding', Len(sequences), Len(sequences'))
         /\ ExitGains(Whole(b, og_seq, cur_depth), Unfolding', b, og_seq[cur_depth - 1])
<1> DEFINE d == cur_depth - 1
           upper == og_seq[d]
           g == GrammarAt(d)
           h == ExitInto(b, upper)
<1>1. TypeOK
  BY DEF IInv
<1>2. d \in Depths /\ d \in Nat /\ cur_depth = d + 1 /\ d + 1 \in 0..MaxDepth
  <2>1. d = cur_depth - 1
    OBVIOUS
  <2> HIDE DEF d, upper, g, h
  <2> QED BY <2>1, MaxDepthAssumption DEF Depths
<1>3. /\ sequences' = h.sequences /\ loops' = h.loops
      /\ og_seq' = [og_seq EXCEPT ![d] = h.tokens, ![cur_depth] = <<>>]
  BY DEF RecordExitFunction
<1> HIDE DEF d
<1>4. /\ g \in Grammar /\ g.sequences = sequences /\ g.loops = loops /\ g.tokens = upper
      /\ upper \in Seq(Token)
      /\ GoodTokens(Ids', g)
  BY <1>1, <1>2, GrammarAtProps, FramesGoodForNewEvents
<1> HIDE DEF g
<1>5. \A k \in 1..Len(upper) : Below(Ids', b, upper[k], Len(b.sequences) + 1)
  BY <1>4 DEF GoodTokens, Below
<1>6. FlatTail(Starts' \cup Ends', upper)
  <2>1. FrameShape(d) /\ d <= cur_depth
    BY <1>2 DEF IInv
  <2>2. FlatIn(Starts' \cup Ends', upper) \/ HeadIn(Starts', Ends', upper)
    BY <1>2, <2>1, ShapesStay DEF FrameShape
  <2>3. \A k \in 2..Len(upper) : k \in 1..Len(upper)
    BY <1>4
  <2> QED BY <2>2, <2>3 DEF FlatTail, HeadIn, FlatIn
<1>7. GoodFrames(Ids', b, og_seq, d + 1)
  BY <1>2, ThreadFrames
<1>8. /\ GoodTables(Ids', Starts', Ends', h) /\ GoodTokens(Ids', h) /\ Grows(b, h)
  BY <1>4, <1>5, <1>6, ExitRewrites
<1>9. Grows(g, h)
  <2> HIDE DEF h
  <2> QED BY <1>4, <1>8 DEF Grows
<1>10. /\ Whole(h, og_seq, d) \in Progress /\ Exact(Whole(h, og_seq, d))
       /\ ReadsAs(Whole(b, og_seq, d + 1), Whole(h, og_seq, d), Len(b.sequences), Len(h.sequences))
       /\ ExitGains(Whole(b, og_seq, d + 1), Whole(h, og_seq, d), b, og_seq[d])
  <2>1. Exact(Whole(b, og_seq, d + 1))
    BY <1>2
  <2> QED BY <1>2, <1>6, <1>7, <2>1, CloseReads
<1> HIDE DEF h, upper
<1>11. /\ og_seq'[d] = h.tokens
       /\ \A c \in Depths : c < d => og_seq'[c] = og_seq[c]
       /\ \A c \in Depths : c > d => og_seq'[c] = <<>>
  <2> DEFINE once == [og_seq EXCEPT ![d] = h.tokens]
  <2>1. og_seq' = [once EXCEPT ![cur_depth] = <<>>]
    BY <1>3
  <2>2. /\ DOMAIN once = Depths /\ once[d] = h.tokens
        /\ \A c \in Depths : c # d => once[c] = og_seq[c]
    BY <1>1, <1>2 DEF TypeOK
  <2> HIDE DEF once
  <2>3. /\ og_seq'[cur_depth] = <<>>
        /\ \A c \in Depths : c # cur_depth => og_seq'[c] = once[c]
    BY <2>1, <2>2
  <2>4. d # cur_depth
    BY <1>2
  <2>5. \A c \in Depths : c < d => c # d /\ c # cur_depth
    BY <1>2 DEF Depths
  <2>6. ASSUME NEW c \in Depths, c > d
        PROVE  og_seq'[c] = <<>>
    <3>1. CASE c = cur_depth
      BY <2>3, <3>1
    <3>2. CASE c # cur_depth
      <4>1. c > cur_depth /\ c # d /\ c # 0 /\ ~(c <= cur_depth)
        BY <1>2, <2>6, <3>2 DEF Depths
      <4>2. FrameShape(c)
        BY DEF IInv
      <4>3. og_seq[c] = <<>>
        BY <4>1, <4>2 DEF FrameShape
      <4> QED BY <2>2, <2>3, <3>2, <4>1, <4>3
    <3> QED BY <3>1, <3>2
  <2> QED BY <1>2, <2>2, <2>3, <2>4, <2>5, <2>6
<1>12. Unfolding' = Whole(h, og_seq, d)
  BY <1>2, <1>3, <1>8, <1>9, <1>11, UnfoldingAfter DEF g
<1>13. ExitGains(Whole(b, og_seq, cur_depth), Unfolding', b, og_seq[d])
  BY <1>2, <1>10, <1>12
<1>14. ReadsAs(Whole(b, og_seq, cur_depth), Unfolding', Len(sequences), Len(sequences'))
  BY <1>2, <1>3, <1>10, <1>12
<1> QED BY <1>10, <1>12, <1>13, <1>14 DEF d


\* The pieces of a call that ends a block: the frame with the event that ends it
\* is read as the frame was, and then the event.
LEMMA EndReads ==
  ASSUME Algorithm # "Filter", IInv, EventsGrow, NEW d \in Depths, d > 0, d <= cur_depth,
         \A c \in Depths : c > d => og_seq[c] = <<>>,
         NEW id, id \in Ends', Starts' \cap Ends' = {}, Exact(Unfolding)
  PROVE  LET b == StoreToken(GrammarAt(d), EventToken(id))
         IN  /\ GoodTables(Ids', Starts', Ends', b) /\ GoodTokens(Ids', b)
             /\ b.sequences = sequences /\ b.loops = loops
             /\ b.tokens = Append(og_seq[d], EventToken(id))
             /\ BlockIn(Starts', Ends', b.tokens)
             /\ Unfolding \in Progress
             /\ Whole(b, og_seq, d) = Meet(Unfolding, id)
             /\ Exact(Meet(Unfolding, id))
             /\ ~Looping(Pushed(GrammarAt(d), EventToken(id)))
<1> DEFINE token == EventToken(id)
           g == GrammarAt(d)
           p == Pushed(g, token)
<1>1. TypeOK
  BY DEF IInv
<1>2. /\ g \in Grammar /\ g.tokens = og_seq[d] /\ g.sequences = sequences /\ g.loops = loops
      /\ GoodTables(Ids', Starts', Ends', g) /\ GoodTokens(Ids', g)
  BY <1>1, GrammarAtProps, FramesGoodForNewEvents
<1>3. id \in Nat \ {0} /\ id \in Ids' /\ id \notin Starts'
  BY DEF Ids, EventsGrow, Ends
<1>4. /\ token \in Token /\ token.type = "Event" /\ token.id = id
      /\ IsMark(Ends', token) /\ ~IsMark(Starts', token)
  BY <1>3 DEF EventToken, Token, TokenType, IsMark
<1>5. StoreToken(g, token) = FindLoop(p)
  BY DEF StoreToken, Pushed
<1>6. Below(Ids', g, token, Len(g.sequences) + 1)
  BY <1>3, <1>4 DEF Below
<1>7. d \in 0..MaxDepth /\ d \in Nat /\ d # 0
  BY MaxDepthAssumption DEF Depths
<1>8. Unfolding = Whole(g, og_seq, d) /\ Unfolding \in Progress
  BY UnfoldingBefore
<1> HIDE DEF token, g
<1>9. GoodFrames(Ids', g, og_seq, d)
  BY <1>2, <1>7, ThreadFrames
<1>10. /\ p.sequences = g.sequences
       /\ p.loops = g.loops
       /\ p.tokens = Append(g.tokens, token)
       /\ GoodTables(Ids', Starts', Ends', p)
       /\ GoodTokens(Ids', p)
  <2>1. /\ Pushed(g, token) \in Grammar
        /\ Pushed(g, token).sequences = g.sequences
        /\ Pushed(g, token).loops = g.loops
        /\ Pushed(g, token).tokens = Append(g.tokens, token)
        /\ GoodTables(Ids', Starts', Ends', Pushed(g, token))
        /\ GoodTokens(Ids', Pushed(g, token))
    BY <1>2, <1>4, <1>6, PushedProps
  <2> QED BY <2>1
<1>11. Whole(p, og_seq, d) = Reading(g, <<token>>)[Whole(g, og_seq, d)]
  BY <1>2, <1>4, <1>6, <1>7, <1>9, PushedRead
<1>12. Reading(g, <<token>>)[Whole(g, og_seq, d)] = Meet(Whole(g, og_seq, d), id)
  <2>1. Whole(g, og_seq, d) \in Progress
    BY <1>8
  <2> QED BY <1>2, <1>3, <2>1, EventRead DEF token
<1>13. HeadIn(Starts', Ends', g.tokens)
  <2>1. FrameShape(d)
    BY DEF IInv
  <2> QED BY <1>2, <1>7, <2>1, ShapesStay DEF FrameShape
<1> HIDE DEF p
<1>14. /\ Len(p.tokens) = Len(g.tokens) + 1 /\ Len(g.tokens) \in Nat
       /\ \A k \in 1..Len(g.tokens) : p.tokens[k] = g.tokens[k]
       /\ p.tokens[Len(g.tokens) + 1] = token
       /\ p.tokens # <<>> /\ g.tokens # <<>> /\ 1 \in 1..Len(g.tokens)
  <2>1. g.tokens \in Seq(Token) /\ g.tokens # <<>>
    BY <1>2, <1>13 DEF Grammar, HeadIn
  <2> QED BY <1>4, <1>10, <2>1, AppendProperties
<1>15. BlockIn(Starts', Ends', p.tokens)
  <2>1. IsMark(Starts', p.tokens[1])
    BY <1>13, <1>14 DEF HeadIn
  <2>2. ASSUME NEW k \in 2..Len(p.tokens)
        PROVE  ~IsMark(Starts', p.tokens[k]) /\ (IsMark(Ends', p.tokens[k]) => k = Len(p.tokens))
    <3>1. CASE k \in 2..Len(g.tokens)
      <4>1. p.tokens[k] = g.tokens[k]
        BY <1>14, <3>1
      <4>2. ~IsMark(Starts' \cup Ends', g.tokens[k])
        BY <1>13, <3>1 DEF HeadIn, FlatTail
      <4> QED BY <4>1, <4>2 DEF IsMark
    <3>2. CASE k = Len(g.tokens) + 1
      BY <1>4, <1>14, <3>2
    <3> QED BY <1>14, <3>1, <3>2
  <2> QED BY <1>14, <2>1, <2>2 DEF BlockIn
<1>16. FindLoop(p) = p /\ ~Looping(p)
  <2>1. IsMark(Ends', p.tokens[Len(p.tokens)])
    BY <1>4, <1>14
  <2> QED BY <1>10, <1>15, <2>1, EndFindsNothing
<1>17. Exact(Meet(Unfolding, id))
  BY <1>3, <1>8, ExactMeets
<1>18. ~Looping(Pushed(g, token))
  BY <1>16 DEF p
<1> QED BY <1>2, <1>5, <1>8, <1>10, <1>11, <1>12, <1>15, <1>16, <1>17, <1>18 DEF g, token

-----------------------------------------------------------------------------
(* The invariant of losslessness *)

\* The reading u is that of a thread with these events, and n sequences.
Matches(u, table, n) ==
  /\ u \in Progress /\ Exact(u)
  /\ \A k \in 1..Len(u.ids) : u.ids[k] \in 1..Len(table)
  /\ \A m \in 1..n : Count(u.entered, m) > 0
  /\ \A i \in 1..Len(table) : Occurrences(u.ids, i) = table[i].nb_occurences

\* The counts of the table are those of the older one, and one more of event id.
Counted(table, table2, id) ==
  /\ Len(table) \in Nat /\ Len(table2) \in Nat /\ Len(table) <= Len(table2)
  /\ id \in 1..Len(table2)
  /\ \A i \in 1..Len(table2) :
       table2[i].nb_occurences =
         (IF i \in 1..Len(table) THEN table[i].nb_occurences ELSE 0) + (IF i = id THEN 1 ELSE 0)

\* An event that is appended occurs once more, and no other does.
LEMMA OccurrencesAppend ==
  ASSUME NEW s \in Seq(Nat), NEW id \in Nat, NEW i \in Nat
  PROVE  /\ Occurrences(s, i) \in Nat
         /\ Occurrences(Append(s, id), i) = Occurrences(s, i) + (IF i = id THEN 1 ELSE 0)
<1> DEFINE t == Append(s, id)
           n == Len(s)
           A == {k \in DOMAIN s : s[k] = i}
           B == {k \in DOMAIN t : t[k] = i}
<1>1. /\ DOMAIN s = 1..n /\ n \in Nat
      /\ \A k \in 1..n : t[k] = s[k]
  BY AppendProperties
<1>2. DOMAIN t = 1..(n + 1) /\ t[n + 1] = id
  BY AppendProperties
<1>3. Occurrences(s, i) = Cardinality(A) /\ Occurrences(t, i) = Cardinality(B)
  BY DEF Occurrences
<1> HIDE DEF t, n
<1>4. IsFiniteSet(A) /\ Cardinality(A) \in Nat
  <2>1. IsFiniteSet(1..n)
    BY <1>1, FS_Interval
  <2>2. A \subseteq 1..n
    BY <1>1
  <2> HIDE DEF A
  <2> QED BY <2>1, <2>2, FS_Subset, FS_CardinalityType
<1>5. n + 1 \notin A
  BY <1>1
<1>6. 1..(n + 1) = (1..n) \cup {n + 1}
  BY <1>1
<1>7. CASE i = id
  <2>1. B = A \cup {n + 1}
    BY <1>1, <1>2, <1>6, <1>7
  <2> HIDE DEF A, B
  <2>2. Cardinality(B) = Cardinality(A) + 1
    BY <1>4, <1>5, <2>1, FS_AddElement
  <2> QED BY <1>3, <1>4, <1>7, <2>2 DEF t
<1>8. CASE i # id
  <2>1. B = A
    BY <1>1, <1>2, <1>6, <1>8
  <2> HIDE DEF A, B
  <2> QED BY <1>3, <1>4, <1>8, <2>1 DEF t
<1> QED BY <1>7, <1>8

\* An id that no element has does not occur.
LEMMA NoOccurrence ==
  ASSUME NEW s \in Seq(Nat), NEW i, \A k \in 1..Len(s) : s[k] # i
  PROVE  Occurrences(s, i) = 0
<1>1. {k \in DOMAIN s : s[k] = i} = {}
  OBVIOUS
<1> QED BY <1>1, FS_EmptySet DEF Occurrences

\* A reading that has met one more event matches the table that has counted it.
LEMMA MatchesEvent ==
  ASSUME NEW p, NEW table, NEW m \in Nat, Matches(p, table, m),
         NEW id, NEW table2, Counted(table, table2, id),
         NEW q \in Progress, Exact(q), NEW n \in Nat, ReadsAs(Meet(p, id), q, m, n)
  PROVE  Matches(q, table2, n)
<1>1. p \in Progress /\ id \in Nat
  BY DEF Matches, Counted
<1>2. /\ Meet(p, id).ids = Append(p.ids, id) /\ Meet(p, id).entered = p.entered
      /\ Meet(p, id) \in Progress
  BY <1>1, MeetProps
<1>3. p.ids \in Seq(Nat)
  BY <1>1, ProgressFields
<1>4. q.ids = Append(p.ids, id)
  BY <1>2 DEF ReadsAs
<1> DEFINE s == Append(p.ids, id)
<1>5. /\ Len(s) = Len(p.ids) + 1 /\ Len(p.ids) \in Nat
      /\ \A k \in 1..Len(p.ids) : s[k] = p.ids[k]
  BY <1>3, AppendProperties
<1>6. s[Len(p.ids) + 1] = id
  BY <1>3, AppendProperties
<1> HIDE DEF s
<1>7. /\ Len(table) \in Nat /\ Len(table2) \in Nat /\ Len(table) <= Len(table2)
      /\ id \in 1..Len(table2)
  BY DEF Counted
<1>8. ASSUME NEW k \in 1..Len(s) PROVE s[k] \in 1..Len(table2)
  <2>1. CASE k = Len(p.ids) + 1
    BY <1>6, <1>7, <2>1
  <2>2. CASE k # Len(p.ids) + 1
    <3>1. k \in 1..Len(p.ids)
      BY <1>5, <2>2
    <3>2. s[k] \in 1..Len(table)
      BY <1>5, <3>1 DEF Matches
    <3> QED BY <1>7, <3>2
  <2> QED BY <2>1, <2>2
<1>9. ASSUME NEW k \in 1..n PROVE Count(q.entered, k) > 0
  <2>1. k \in Nat /\ Count(q.entered, k) \in Nat /\ Count(p.entered, k) \in Nat
    BY <1>1, CountType
  <2>2. CASE k \in 1..m
    <3>1. Count(p.entered, k) > 0
      BY <2>2 DEF Matches
    <3>2. Count(q.entered, k) >= Count(p.entered, k)
      BY <1>2, <2>1 DEF ReadsAs
    <3> QED BY <2>1, <3>1, <3>2
  <2>3. CASE k \notin 1..m
    <3>1. k \in (m + 1)..n
      BY <2>3
    <3> QED BY <3>1 DEF ReadsAs
  <2> QED BY <2>2, <2>3
<1>10. ASSUME NEW i \in 1..Len(table2)
       PROVE  Occurrences(s, i) = table2[i].nb_occurences
  <2>1. i \in Nat
    BY <1>7
  <2>2. /\ Occurrences(p.ids, i) \in Nat
        /\ Occurrences(s, i) = Occurrences(p.ids, i) + (IF i = id THEN 1 ELSE 0)
    BY <1>1, <1>3, <2>1, OccurrencesAppend DEF s
  <2>3. Occurrences(p.ids, i) = IF i \in 1..Len(table) THEN table[i].nb_occurences ELSE 0
    <3>1. CASE i \in 1..Len(table)
      BY <3>1 DEF Matches
    <3>2. CASE i \notin 1..Len(table)
      <4>1. \A k \in 1..Len(p.ids) : p.ids[k] # i
        BY <3>2 DEF Matches
      <4> QED BY <1>3, <3>2, <4>1, NoOccurrence
    <3> QED BY <3>1, <3>2
  <2>4. table2[i].nb_occurences =
          (IF i \in 1..Len(table) THEN table[i].nb_occurences ELSE 0) + (IF i = id THEN 1 ELSE 0)
    BY DEF Counted
  <2> QED BY <2>2, <2>3, <2>4
<1> QED BY <1>4, <1>8, <1>9, <1>10 DEF Matches, s


\* A reading that reads the same matches a table that counts the same.
LEMMA MatchesOn ==
  ASSUME NEW p, NEW table, NEW m \in Nat, Matches(p, table, m),
         NEW table2, Len(table) \in Nat, Len(table2) \in Nat, Len(table) <= Len(table2),
         \A i \in 1..Len(table2) :
           table2[i].nb_occurences = IF i \in 1..Len(table) THEN table[i].nb_occurences ELSE 0,
         NEW q \in Progress, NEW n \in Nat, ReadsAs(p, q, m, n)
  PROVE  Matches(q, table2, n)
<1>1. p \in Progress /\ Exact(p)
  BY DEF Matches
<1>2. p.ids \in Seq(Nat)
  BY <1>1, ProgressFields
<1>3. q.ids = p.ids
  BY DEF ReadsAs
<1>4. Exact(q)
  BY <1>1, ExactThrough
<1>5. ASSUME NEW k \in 1..Len(p.ids) PROVE p.ids[k] \in 1..Len(table2)
  <2>1. p.ids[k] \in 1..Len(table)
    BY DEF Matches
  <2> QED BY <2>1
<1>6. ASSUME NEW k \in 1..n PROVE Count(q.entered, k) > 0
  <2>1. k \in Nat /\ Count(q.entered, k) \in Nat /\ Count(p.entered, k) \in Nat
    BY <1>1, CountType
  <2>2. CASE k \in 1..m
    <3>1. Count(p.entered, k) > 0
      BY <2>2 DEF Matches
    <3>2. Count(q.entered, k) >= Count(p.entered, k)
      BY <2>1 DEF ReadsAs
    <3> QED BY <2>1, <3>1, <3>2
  <2>3. CASE k \notin 1..m
    <3>1. k \in (m + 1)..n
      BY <2>3
    <3> QED BY <3>1 DEF ReadsAs
  <2> QED BY <2>2, <2>3
<1>7. ASSUME NEW i \in 1..Len(table2)
      PROVE  Occurrences(p.ids, i) = table2[i].nb_occurences
  <2>1. CASE i \in 1..Len(table)
    BY <2>1 DEF Matches
  <2>2. CASE i \notin 1..Len(table)
    <3>1. \A k \in 1..Len(p.ids) : p.ids[k] # i
      BY <2>2 DEF Matches
    <3> QED BY <1>2, <2>2, <3>1, NoOccurrence
  <2> QED BY <2>1, <2>2
<1> QED BY <1>3, <1>4, <1>5, <1>6, <1>7 DEF Matches

\* getEventId adds an event that has not occurred, or nothing.
LEMMA WithEventCounts ==
  ASSUME TypeOK, NEW e \in Event
  PROVE  /\ Len(events) \in Nat /\ Len(WithEvent(e)) \in Nat
         /\ Len(events) <= Len(WithEvent(e))
         /\ \A i \in 1..Len(WithEvent(e)) :
              /\ WithEvent(e)[i].nb_occurences =
                   IF i \in 1..Len(events) THEN events[i].nb_occurences ELSE 0
              /\ WithEvent(e)[i].nb_occurences \in Nat
<1>1. events \in Seq(EventSummary)
  BY DEF TypeOK
<1>2. \A i \in 1..Len(events) : events[i].nb_occurences \in Nat
  <2>1. \A i \in 1..Len(events) : events[i] \in EventSummary
    BY <1>1, ElementOfSeq
  <2> QED BY <2>1 DEF EventSummary
<1>3. CASE IsSummarized(e)
  BY <1>1, <1>2, <1>3 DEF WithEvent
<1>4. CASE ~IsSummarized(e)
  <2> DEFINE r == [event |-> e, nb_occurences |-> 0]
             t == Append(events, r)
  <2>1. r \in EventSummary /\ r.nb_occurences = 0
    BY DEF EventSummary
  <2>2. WithEvent(e) = t
    BY <1>4 DEF WithEvent
  <2> HIDE DEF r
  <2>3. /\ Len(t) = Len(events) + 1 /\ Len(events) \in Nat
        /\ \A i \in 1..Len(events) : t[i] = events[i]
    BY <1>1, <2>1, AppendProperties
  <2>4. t[Len(events) + 1] = r
    BY <1>1, <2>1, AppendProperties
  <2> HIDE DEF t
  <2>5. ASSUME NEW i \in 1..Len(t)
        PROVE  t[i].nb_occurences = (IF i \in 1..Len(events) THEN events[i].nb_occurences ELSE 0)
               /\ t[i].nb_occurences \in Nat
    <3>1. CASE i \in 1..Len(events)
      BY <1>2, <2>3, <3>1
    <3>2. CASE i \notin 1..Len(events)
      <4>1. i = Len(events) + 1
        BY <2>3, <3>2
      <4>2. t[i].nb_occurences = 0
        BY <2>1, <2>4, <4>1
      <4> QED BY <3>2, <4>2
    <3> QED BY <3>1, <3>2
  <2> QED BY <2>2, <2>3, <2>5
<1> QED BY <1>3, <1>4

\* The summary of an event counts it.
LEMMA SummaryCounts ==
  ASSUME TypeOK, NEW e \in Event, SummarizeEvent(e)
  PROVE  Counted(events, events', EventIdOf(e))
<1> DEFINE table == WithEvent(e)
           id    == EventIdOf(e)
           r     == [table[id] EXCEPT !.nb_occurences = @ + 1]
<1>1. events' = [table EXCEPT ![id] = r]
  BY DEF SummarizeEvent, CountOccurrence
<1>2. table \in Seq(EventSummary) /\ id \in 1..Len(table)
  BY EventProps
<1>3. /\ Len(events) \in Nat /\ Len(table) \in Nat
      /\ Len(events) <= Len(table)
  BY WithEventCounts
<1>4. \A i \in 1..Len(table) :
        /\ table[i].nb_occurences = IF i \in 1..Len(events) THEN events[i].nb_occurences ELSE 0
        /\ table[i].nb_occurences \in Nat
  BY WithEventCounts
<1> HIDE DEF table, id
<1>5. table[id] \in EventSummary
  BY <1>2, ElementOfSeq
<1>6. r \in EventSummary /\ r.nb_occurences = table[id].nb_occurences + 1
  BY <1>5 DEF EventSummary
<1> HIDE DEF r
<1>7. /\ Len(events') = Len(table)
      /\ \A i \in 1..Len(table) : events'[i] = IF i = id THEN r ELSE table[i]
  BY <1>1, <1>2, <1>6, ExceptSeq
<1>8. ASSUME NEW i \in 1..Len(table)
      PROVE  events'[i].nb_occurences =
               (IF i \in 1..Len(events) THEN events[i].nb_occurences ELSE 0)
                 + (IF i = id THEN 1 ELSE 0)
  <2>1. table[i].nb_occurences \in Nat
        /\ table[i].nb_occurences = IF i \in 1..Len(events) THEN events[i].nb_occurences ELSE 0
    BY <1>4
  <2>2. CASE i = id
    <3>1. events'[i] = r
      BY <1>7, <2>2
    <3> QED BY <1>6, <2>1, <2>2, <3>1
  <2>3. CASE i # id
    <3>1. events'[i] = table[i]
      BY <1>7, <2>3
    <3> QED BY <2>1, <2>3, <3>1
  <2> QED BY <2>2, <2>3
<1> QED BY <1>2, <1>3, <1>7, <1>8 DEF Counted, id

\* What the unfolding of the grammar is, at every moment: a reading that matches
\* the event table and enters every sequence.
LInv == Matches(Unfolding, events, Len(sequences))

\* The writer just opened stands for no event, and enters no sequence.
LEMMA InitReads == Init => LInv /\ Unfolding.entered = <<>>
<1> SUFFICES ASSUME Init PROVE LInv /\ Unfolding.entered = <<>>
  OBVIOUS
<1> DEFINE g == GrammarAt(0)
           u == Unread(g.loops)
<1>1. IInv
  BY InitInvariant
<1>2. 0 \in Depths /\ TypeOK
  BY <1>1, MaxDepthAssumption DEF Depths, IInv
<1>3. /\ g.sequences = <<>> /\ g.loops = <<>> /\ g.tokens = <<>>
      /\ sequences = <<>> /\ loops = <<>> /\ events = <<>> /\ \A c \in Depths : og_seq[c] = <<>>
  BY <1>2, GrammarAtProps DEF Init
<1>4. GoodTables(Ids, Starts, Ends, g) /\ GoodTokens(Ids, g)
  BY <1>1, <1>2 DEF IInv, GoodFrame
<1> HIDE DEF g
<1>5. GoodFrames(Ids, g, og_seq, 0)
  BY DEF GoodFrames
<1>6. Unfolding = Whole(g, og_seq, 0)
  <2>1. Run(FrameMeanings(g.sequences, Bodies(g.loops), og_seq), Unread(g.loops)) =
          Whole(g, og_seq, 0)
    BY <1>2, <1>3, <1>4, <1>5, UnfoldingIsWhole
  <2> QED BY <1>3, <2>1 DEF Unfolding
<1>7. u \in Progress
  <2>1. 0 \in Nat
    OBVIOUS
  <2> QED BY <1>4, <1>5, <2>1, WholeType
<1>8. Under(g, og_seq, 0)[u] = u
  <2>1. Under(g, og_seq, 0)[u] = Run(FrameReadings(g, og_seq, 0), u)
    BY <1>7 DEF Under
  <2>2. FrameReadings(g, og_seq, 0) = <<>>
    BY DEF FrameReadings
  <2> QED BY <1>7, <2>1, <2>2, RunNothing
<1>9. Unfolding = u
  <2>1. Unfolding = Reading(g, <<>>)[Under(g, og_seq, 0)[u]]
    BY <1>3, <1>6 DEF Whole
  <2>2. Reading(g, <<>>)[u] = u
    BY <1>4, <1>7, EmptyRead
  <2> QED BY <1>8, <2>1, <2>2
<1>10. u.ids = <<>> /\ u.left = <<>> /\ u.entered = <<>>
  BY <1>3 DEF Unread
<1>11. Exact(u)
  <2>1. Clean(u)
    BY <1>10 DEF Clean
  <2>2. \A l \in Nat : Remaining(u, l) = <<>>
    BY <1>10 DEF Remaining
  <2> QED BY <2>1, <2>2 DEF Exact
<1> HIDE DEF u
<1>12. Len(<<>>) = 0 /\ 1..0 = {}
  OBVIOUS
<1> QED BY <1>3, <1>7, <1>9, <1>10, <1>11, <1>12 DEF LInv, Matches


-----------------------------------------------------------------------------
(* The heads of the frames: the events that began the open blocks *)

\* The begin events of the blocks below depth d + 1 stay where they are.
HeadsStay(d) == \A c \in 1..d : og_seq'[c][1] = og_seq[c][1]

\* The head of a frame stays when it begins a block and a token is stored.
LEMMA StoreHead ==
  ASSUME NEW S, NEW F, NEW g \in Grammar, NEW token \in Token, NEW h,
         KeepsHead(S \cup F, Pushed(g, token), h), HeadIn(S, F, g.tokens)
  PROVE  h.tokens[1] = g.tokens[1]
<1> DEFINE p == Pushed(g, token)
<1>1. p.tokens = Append(g.tokens, token) /\ g.tokens \in Seq(Token)
  BY DEF Pushed, Grammar
<1> HIDE DEF p
<1>2. h.tokens[1] = p.tokens[1] \/ ~IsMark(S \cup F, p.tokens[1])
  BY DEF KeepsHead, p
<1>3. g.tokens # <<>> /\ IsMark(S, g.tokens[1])
  BY DEF HeadIn
<1>4. p.tokens[1] = g.tokens[1]
  BY <1>1, <1>3, AppendProperties
<1>5. IsMark(S \cup F, p.tokens[1])
  BY <1>3, <1>4 DEF IsMark
<1> QED BY <1>2, <1>4, <1>5

\* The first token of a frame stays at its head when it begins a block.
LEMMA FirstHead ==
  ASSUME NEW K, NEW g \in Grammar, NEW token \in Token, NEW h,
         KeepsHead(K, Pushed(g, token), h), g.tokens = <<>>, IsMark(K, token)
  PROVE  h.tokens[1] = token
<1> DEFINE p == Pushed(g, token)
<1>1. p.tokens = Append(g.tokens, token)
  BY DEF Pushed, Grammar
<1> HIDE DEF p
<1>2. h.tokens[1] = p.tokens[1] \/ ~IsMark(K, p.tokens[1])
  BY DEF KeepsHead, p
<1>3. p.tokens[1] = token
  BY <1>1
<1> QED BY <1>2, <1>3

SameHead(tokens, tokens2) == tokens[1] = tokens2[1]

\* A block that closes keeps the head of the frame below.
LEMMA ExitHead ==
  ASSUME Algorithm # "Filter", NEW E, NEW S, NEW F, NEW g, NEW upper \in Seq(Token),
         GoodTables(E, S, F, g), GoodTokens(E, g),
         FlatIn(S \cup F, g.tokens) \/ BlockIn(S, F, g.tokens),
         AllBelow(E, g, upper), HeadIn(S, F, upper)
  PROVE  SameHead(ExitInto(g, upper).tokens, upper)
<1> DEFINE sid   == SequenceIdOf(g.sequences, g.tokens)
           token == SequenceToken(sid)
           m     == [g EXCEPT !.sequences = WithSequence(@, g.tokens), !.tokens = upper]
           h     == ExitInto(g, upper)
<1>1. /\ GoodTables(E, S, F, m) /\ GoodTokens(E, m) /\ Grows(g, m)
      /\ m.tokens = upper /\ m.loops = g.loops
      /\ token \in Token
      /\ Below(E, m, token, Len(m.sequences) + 1)
  BY CloseBlock DEF AllBelow
<1>2. h = StoreToken(m, token)
  BY DEF ExitInto
<1>3. ~IsMark(S \cup F, token)
  BY DEF IsMark, SequenceToken
<1> HIDE DEF m, token, h, sid
<1>4. FlatTail(S \cup F, m.tokens)
  BY <1>1 DEF HeadIn
<1>5. KeepsHead(S \cup F, Pushed(m, token), h)
  <2>1. Rewrites(E, S, F, Pushed(m, token), StoreToken(m, token))
    BY <1>1, <1>3, <1>4, StoreRewrites
  <2> QED BY <1>2, <2>1 DEF Rewrites
<1>6. m \in Grammar
  BY <1>1 DEF GoodTables
<1>7. h.tokens[1] = m.tokens[1]
  <2>1. HeadIn(S, F, m.tokens)
    BY <1>1
  <2> QED BY <1>1, <1>5, <1>6, <2>1, StoreHead
<1> QED BY <1>1, <1>7 DEF h, SameHead

-----------------------------------------------------------------------------
(* Every call reads on *)

\* What is common to the calls that record an event.
LEMMA RecordReads ==
  ASSUME TypeOK, LInv, NEW e \in Event, SummarizeEvent(e),
         sequences' \in Seq(Seq(Token)), Unfolding' \in Progress, Exact(Unfolding'),
         ReadsAs(Meet(Unfolding, EventIdOf(e)), Unfolding', Len(sequences), Len(sequences'))
  PROVE  LInv' /\ Unfolding'.ids = Append(Unfolding.ids, EventIdOf(e))
<1>1. Counted(events, events', EventIdOf(e))
  BY SummaryCounts
<1>2. Len(sequences) \in Nat /\ Len(sequences') \in Nat
  BY DEF TypeOK
<1>3. Matches(Unfolding', events', Len(sequences'))
  <2>1. Matches(Unfolding, events, Len(sequences))
    BY DEF LInv
  <2> QED BY <1>1, <1>2, <2>1, MatchesEvent
<1>4. Unfolding'.ids = Append(Unfolding.ids, EventIdOf(e))
  <2>1. Unfolding \in Progress /\ EventIdOf(e) \in Nat
    BY <1>1 DEF LInv, Matches, Counted
  <2>2. Meet(Unfolding, EventIdOf(e)).ids = Append(Unfolding.ids, EventIdOf(e))
    BY <2>1, MeetProps
  <2> QED BY <2>2 DEF ReadsAs
<1> QED BY <1>3, <1>4 DEF LInv

\* The frames above the current one are empty.
LEMMA NothingAbove ==
  ASSUME IInv, NEW d, d \in Int, d >= cur_depth, cur_depth \in Nat
  PROVE  \A c \in Depths : c > d => og_seq[c] = <<>>
<1> SUFFICES ASSUME NEW c \in Depths, c > d PROVE og_seq[c] = <<>>
  OBVIOUS
<1>1. c # 0 /\ ~(c <= cur_depth)
  BY MaxDepthAssumption DEF Depths
<1> QED BY <1>1 DEF IInv, FrameShape

\* The id of an event that is recorded, and its token.
LEMMA RecordedId ==
  ASSUME TypeOK, NEW e \in Event, SummarizeEvent(e)
  PROVE  LET id == EventIdOf(e)
         IN  /\ EventsGrow /\ id \in Ids' /\ events'[id].event = e
             /\ EventToken(id) \in Token /\ EventToken(id).id = id
             /\ e \in BlockStart => IsMark(Starts', EventToken(id))
             /\ e \in BlockEnd => id \in Ends'
             /\ e \in Singleton => ~IsMark(Starts' \cup Ends', EventToken(id))
             /\ Starts' \cap Ends' = {}
<1>1. EventsGrow /\ EventIdOf(e) \in Ids' /\ events'[EventIdOf(e)].event = e
  BY SummarizeProps
<1>2. /\ EventToken(EventIdOf(e)) \in Token
      /\ e \in BlockStart => IsMark(Starts', EventToken(EventIdOf(e)))
      /\ e \in BlockEnd => IsMark(Ends', EventToken(EventIdOf(e)))
      /\ e \in Singleton => ~IsMark(Starts' \cup Ends', EventToken(EventIdOf(e)))
      /\ Starts' \cap Ends' = {}
  BY <1>1, Kinds
<1>3. EventToken(EventIdOf(e)).id = EventIdOf(e)
  BY DEF EventToken
<1> QED BY <1>1, <1>2, <1>3 DEF IsMark

\* A call that begins a block is read at the end, and opens one frame.
LEMMA BlockStartReads ==
  ASSUME Algorithm # "Filter", IInv, LInv, NEW e \in BlockStart, RecordBlockStart(e)
  PROVE  /\ LInv' /\ Unfolding'.ids = Append(Unfolding.ids, EventIdOf(e))
         /\ HeadsStay(cur_depth) /\ og_seq'[cur_depth + 1][1] = EventToken(EventIdOf(e))
         /\ FindGains(Meet(Unfolding, EventIdOf(e)), Unfolding',
                      Pushed(GrammarAt(cur_depth + 1), EventToken(EventIdOf(e))))
<1> DEFINE d     == cur_depth + 1
           id    == EventIdOf(e)
           g     == GrammarAt(d)
           token == EventToken(id)
           h     == StoreToken(g, token)
<1>1. TypeOK /\ e \in Event /\ SummarizeEvent(e) /\ SetFrame(d, h)
  BY DEF IInv, Event, RecordBlockStart
<1>2. d \in Depths /\ d # 0 /\ cur_depth \in Nat /\ ~(d <= cur_depth) /\ d \in Nat /\ d >= cur_depth
      /\ d \in Int /\ d = cur_depth + 1
  <2>1. /\ cur_depth \in 0..MaxDepth /\ cur_depth + 1 < MaxDepth /\ d = cur_depth + 1
    BY <1>1 DEF RecordBlockStart, TypeOK
  <2> HIDE DEF d, g, id, token, h
  <2> QED BY <2>1, MaxDepthAssumption DEF Depths
<1>3. EventsGrow /\ id \in Ids' /\ token \in Token /\ IsMark(Starts', token) /\ token.id = id
  BY <1>1, RecordedId
<1> HIDE DEF id, d
<1>4. \A c \in Depths : c > d => og_seq[c] = <<>>
  BY <1>2, NothingAbove
<1>5. /\ g \in Grammar /\ g.tokens = og_seq[d] /\ g.sequences = sequences
      /\ GoodTables(Ids', Starts', Ends', g) /\ GoodTokens(Ids', g)
  BY <1>1, <1>2, <1>3, GrammarAtProps, FramesGoodForNewEvents
<1>6. og_seq[d] = <<>>
  BY <1>2 DEF IInv, FrameShape
<1>7. FlatTail(Starts' \cup Ends', og_seq[d])
  BY <1>6 DEF FlatTail
<1>8. Exact(Unfolding)
  BY DEF LInv, Matches
<1>9. /\ Unfolding' \in Progress /\ Exact(Unfolding')
      /\ ReadsAs(Meet(Unfolding, id), Unfolding', Len(sequences), Len(sequences'))
      /\ FindGains(Meet(Unfolding, id), Unfolding', Pushed(GrammarAt(d), EventToken(id)))
  BY <1>1, <1>2, <1>3, <1>4, <1>6, <1>7, <1>8, StoreStep
<1>10. Rewrites(Ids', Starts', Ends', Pushed(g, token), h)
  <2>1. Below(Ids', g, token, Len(g.sequences) + 1)
    BY <1>3 DEF Below, EventToken
  <2> HIDE DEF g, token
  <2> QED BY <1>3, <1>5, <1>6, <1>7, <2>1, StoreRewrites
<1>11. /\ sequences' = h.sequences
       /\ og_seq' = [og_seq EXCEPT ![d] = h.tokens]
  BY <1>1 DEF SetFrame
<1> HIDE DEF h, g, token
<1>12. h.sequences \in Seq(Seq(Token))
  BY <1>10 DEF Rewrites, GoodTables, Grammar
<1>13. LInv' /\ Unfolding'.ids = Append(Unfolding.ids, id)
  BY <1>1, <1>9, <1>11, <1>12, RecordReads DEF id
<1>14. h.tokens[1] = token
  <2>1. KeepsHead(Starts' \cup Ends', Pushed(g, token), h)
    BY <1>10 DEF Rewrites
  <2>2. g \in Grammar /\ token \in Token
    BY <1>3, <1>5
  <2>3. g.tokens = <<>> /\ IsMark(Starts' \cup Ends', token)
    BY <1>3, <1>5, <1>6 DEF IsMark
  <2> QED BY <2>1, <2>2, <2>3, FirstHead
<1>15. og_seq'[d] = h.tokens /\ \A c \in Depths : c # d => og_seq'[c] = og_seq[c]
  BY <1>1, <1>2, <1>11 DEF TypeOK
<1>16. \A c \in 1..cur_depth : c \in Depths /\ c # d
  BY <1>2, MaxDepthAssumption DEF Depths
<1>17. FindGains(Meet(Unfolding, id), Unfolding', Pushed(GrammarAt(d), EventToken(id)))
  BY <1>9
<1> QED BY <1>13, <1>14, <1>15, <1>16, <1>17 DEF HeadsStay, d, token, id

\* A call that records an event on its own is read at the end, and opens nothing.
LEMMA SingletonReads ==
  ASSUME Algorithm # "Filter", IInv, LInv, NEW e \in Singleton, RecordSingleton(e)
  PROVE  /\ LInv' /\ Unfolding'.ids = Append(Unfolding.ids, EventIdOf(e))
         /\ HeadsStay(cur_depth)
         /\ FindGains(Meet(Unfolding, EventIdOf(e)), Unfolding',
                      Pushed(GrammarAt(cur_depth), EventToken(EventIdOf(e))))
<1> DEFINE d     == cur_depth
           id    == EventIdOf(e)
           g     == GrammarAt(d)
           token == EventToken(id)
           h     == StoreToken(g, token)
<1>1. TypeOK /\ e \in Event /\ SummarizeEvent(e) /\ SetFrame(d, h)
  BY DEF IInv, Event, RecordSingleton
<1>2. d \in Depths /\ cur_depth \in Nat /\ d >= cur_depth /\ d \in Int
  BY <1>1, MaxDepthAssumption DEF RecordSingleton, TypeOK, Depths
<1>3. EventsGrow /\ id \in Ids' /\ token \in Token /\ ~IsMark(Starts' \cup Ends', token)
  BY <1>1, RecordedId
<1> HIDE DEF id
<1>4. \A c \in Depths : c > d => og_seq[c] = <<>>
  BY <1>2, NothingAbove
<1>5. /\ g \in Grammar /\ g.tokens = og_seq[d] /\ g.sequences = sequences
      /\ GoodTables(Ids', Starts', Ends', g) /\ GoodTokens(Ids', g)
  BY <1>1, <1>2, <1>3, GrammarAtProps, FramesGoodForNewEvents
<1>6. \/ d = 0 /\ FlatIn(Starts' \cup Ends', og_seq[d])
      \/ d # 0 /\ HeadIn(Starts', Ends', og_seq[d])
  <2>1. FrameShape(d) /\ d <= cur_depth
    BY <1>2 DEF IInv
  <2> QED BY <1>2, <1>3, <2>1, ShapesStay DEF FrameShape
<1>7. FlatTail(Starts' \cup Ends', og_seq[d])
  <2>1. \A k \in 2..Len(og_seq[d]) : k \in 1..Len(og_seq[d])
    BY <1>5 DEF Grammar
  <2> QED BY <1>6, <2>1 DEF FlatTail, HeadIn, FlatIn
<1>8. Exact(Unfolding)
  BY DEF LInv, Matches
<1>9. /\ Unfolding' \in Progress /\ Exact(Unfolding')
      /\ ReadsAs(Meet(Unfolding, id), Unfolding', Len(sequences), Len(sequences'))
      /\ FindGains(Meet(Unfolding, id), Unfolding', Pushed(GrammarAt(d), EventToken(id)))
  BY <1>1, <1>2, <1>3, <1>4, <1>7, <1>8, StoreStep
<1>10. Rewrites(Ids', Starts', Ends', Pushed(g, token), h)
  <2>1. Below(Ids', g, token, Len(g.sequences) + 1)
    BY <1>3 DEF Below, EventToken
  <2> HIDE DEF g, token
  <2> QED BY <1>3, <1>5, <1>7, <2>1, StoreRewrites
<1>11. /\ sequences' = h.sequences
       /\ og_seq' = [og_seq EXCEPT ![d] = h.tokens]
  BY <1>1 DEF SetFrame
<1> HIDE DEF h, g, token
<1>12. h.sequences \in Seq(Seq(Token))
  BY <1>10 DEF Rewrites, GoodTables, Grammar
<1>13. LInv' /\ Unfolding'.ids = Append(Unfolding.ids, id)
  BY <1>1, <1>9, <1>11, <1>12, RecordReads DEF id
<1>14. d # 0 => h.tokens[1] = og_seq[d][1]
  <2>1. KeepsHead(Starts' \cup Ends', Pushed(g, token), h)
    BY <1>10 DEF Rewrites
  <2>2. g \in Grammar /\ token \in Token
    BY <1>3, <1>5
  <2>3. ASSUME HeadIn(Starts', Ends', g.tokens) PROVE h.tokens[1] = g.tokens[1]
    BY <2>1, <2>2, <2>3, StoreHead
  <2> QED BY <1>5, <1>6, <2>3
<1>15. og_seq'[d] = h.tokens /\ \A c \in Depths : c # d => og_seq'[c] = og_seq[c]
  BY <1>1, <1>2, <1>11 DEF TypeOK
<1>16. \A c \in 1..cur_depth : c \in Depths /\ c # 0
  BY <1>2, MaxDepthAssumption DEF Depths
<1> HIDE DEF d
<1>17. ASSUME NEW c \in 1..cur_depth PROVE og_seq'[c][1] = og_seq[c][1]
  <2>1. CASE c = d
    BY <1>14, <1>15, <1>16, <2>1
  <2>2. CASE c # d
    BY <1>15, <1>16, <2>2
  <2> QED BY <2>1, <2>2
<1>18. FindGains(Meet(Unfolding, id), Unfolding', Pushed(GrammarAt(d), EventToken(id)))
  BY <1>9
<1> QED BY <1>13, <1>17, <1>18 DEF HeadsStay, id, d


\* The frames that stay open when a block is closed keep their heads.
LEMMA CloseHeads ==
  ASSUME Algorithm # "Filter", IInv, EventsGrow, cur_depth \in Depths, cur_depth > 0, NEW b,
         GoodTables(Ids', Starts', Ends', b), GoodTokens(Ids', b),
         b.sequences = sequences, b.loops = loops,
         BlockIn(Starts', Ends', b.tokens), RecordExitFunction(cur_depth, b)
  PROVE  HeadsStay(cur_depth - 1)
<1> DEFINE d == cur_depth - 1
           upper == og_seq[d]
           g == GrammarAt(d)
           h == ExitInto(b, upper)
<1>1. TypeOK
  BY DEF IInv
<1>2. d \in Depths /\ d \in Nat /\ cur_depth = d + 1 /\ d # cur_depth
  <2>1. d = cur_depth - 1
    OBVIOUS
  <2> HIDE DEF d, upper, g, h
  <2> QED BY <2>1, MaxDepthAssumption DEF Depths
<1>3. og_seq' = [og_seq EXCEPT ![d] = h.tokens, ![cur_depth] = <<>>]
  BY DEF RecordExitFunction
<1> HIDE DEF d
<1>4. /\ g \in Grammar /\ g.sequences = sequences /\ g.loops = loops /\ g.tokens = upper
      /\ upper \in Seq(Token)
      /\ GoodTokens(Ids', g)
  BY <1>1, <1>2, GrammarAtProps, FramesGoodForNewEvents
<1> HIDE DEF g
<1>5. AllBelow(Ids', b, upper)
  BY <1>4 DEF GoodTokens, Below, AllBelow
<1>6. ASSUME d # 0
      PROVE  h.tokens[1] = upper[1]
  <2>1. FrameShape(d) /\ d <= cur_depth
    BY <1>2 DEF IInv
  <2>2. HeadIn(Starts', Ends', upper)
    BY <1>2, <1>6, <2>1, ShapesStay DEF FrameShape
  <2>3. upper \in Seq(Token)
    BY <1>4
  <2>4. /\ GoodTables(Ids', Starts', Ends', b) /\ GoodTokens(Ids', b)
        /\ FlatIn(Starts' \cup Ends', b.tokens) \/ BlockIn(Starts', Ends', b.tokens)
    OBVIOUS
  <2> HIDE DEF upper
  <2>5. SameHead(ExitInto(b, upper).tokens, upper)
    BY <1>5, <2>2, <2>3, <2>4, ExitHead
  <2> QED BY <2>5 DEF h, SameHead
<1> HIDE DEF h
<1>7. og_seq'[d] = h.tokens /\ \A c \in Depths : c # d /\ c # cur_depth => og_seq'[c] = og_seq[c]
  <2> DEFINE once == [og_seq EXCEPT ![d] = h.tokens]
  <2>1. og_seq' = [once EXCEPT ![cur_depth] = <<>>]
    BY <1>3
  <2>2. /\ DOMAIN once = Depths /\ once[d] = h.tokens
        /\ \A c \in Depths : c # d => once[c] = og_seq[c]
    BY <1>1, <1>2 DEF TypeOK
  <2> HIDE DEF once
  <2>3. \A c \in Depths : c # cur_depth => og_seq'[c] = once[c]
    BY <2>1, <2>2
  <2> QED BY <1>2, <2>2, <2>3
<1>8. \A c \in 1..d : c \in Depths /\ c # 0 /\ c # cur_depth
  BY <1>2, MaxDepthAssumption DEF Depths
<1>9. ASSUME NEW c \in 1..d PROVE og_seq'[c][1] = og_seq[c][1]
  <2>1. CASE c = d
    BY <1>6, <1>7, <1>8, <2>1
  <2>2. CASE c # d
    BY <1>7, <1>8, <2>2
  <2> QED BY <2>1, <2>2
<1> QED BY <1>9 DEF HeadsStay, d

\* A call that ends a block is read at the end, and closes one frame.
LEMMA BlockEndReads ==
  ASSUME Algorithm # "Filter", IInv, LInv, NEW e \in BlockEnd, RecordBlockEnd(e)
  PROVE  /\ LInv' /\ Unfolding'.ids = Append(Unfolding.ids, EventIdOf(e))
         /\ HeadsStay(cur_depth - 1)
         /\ ~Looping(Pushed(GrammarAt(cur_depth), EventToken(EventIdOf(e))))
         /\ ExitGains(Meet(Unfolding, EventIdOf(e)), Unfolding',
                      StoreToken(GrammarAt(cur_depth), EventToken(EventIdOf(e))),
                      og_seq[cur_depth - 1])
<1> DEFINE d  == cur_depth
           id == EventIdOf(e)
           b  == StoreToken(GrammarAt(d), EventToken(id))
<1>1. TypeOK /\ e \in Event /\ SummarizeEvent(e) /\ RecordExitFunction(d, b)
  BY DEF IInv, Event, RecordBlockEnd
<1>2. d \in Depths /\ d > 0 /\ d <= cur_depth /\ cur_depth \in Nat /\ d >= cur_depth /\ d \in Int
  BY <1>1, MaxDepthAssumption DEF RecordBlockEnd, TypeOK, Depths
<1>3. EventsGrow /\ id \in Ends' /\ Starts' \cap Ends' = {}
  BY <1>1, RecordedId
<1> HIDE DEF id
<1>4. \A c \in Depths : c > d => og_seq[c] = <<>>
  BY <1>2, NothingAbove
<1>5. Exact(Unfolding)
  BY DEF LInv, Matches
<1>6. /\ GoodTables(Ids', Starts', Ends', b) /\ GoodTokens(Ids', b)
      /\ b.sequences = sequences /\ b.loops = loops
      /\ BlockIn(Starts', Ends', b.tokens)
      /\ Whole(b, og_seq, d) = Meet(Unfolding, id)
      /\ Exact(Meet(Unfolding, id))
      /\ ~Looping(Pushed(GrammarAt(d), EventToken(id)))
  BY <1>2, <1>3, <1>4, <1>5, EndReads
<1> HIDE DEF b
<1>7. /\ Unfolding' \in Progress /\ Exact(Unfolding')
      /\ ReadsAs(Whole(b, og_seq, d), Unfolding', Len(sequences), Len(sequences'))
      /\ ExitGains(Whole(b, og_seq, d), Unfolding', b, og_seq[cur_depth - 1])
  <2>1. Exact(Whole(b, og_seq, cur_depth))
    BY <1>6
  <2> QED BY <1>1, <1>2, <1>3, <1>6, <2>1, CloseStep
<1>8. HeadsStay(cur_depth - 1)
  BY <1>1, <1>2, <1>3, <1>6, CloseHeads
<1>9. sequences' \in Seq(Seq(Token))
  <2>1. IInv'
    BY BlockEndStep
  <2> QED BY <2>1 DEF IInv, TypeOK
<1>10. ReadsAs(Meet(Unfolding, id), Unfolding', Len(sequences), Len(sequences'))
  BY <1>6, <1>7
<1>11. LInv' /\ Unfolding'.ids = Append(Unfolding.ids, id)
  BY <1>1, <1>7, <1>9, <1>10, RecordReads DEF id
<1>12. ExitGains(Meet(Unfolding, id), Unfolding', b, og_seq[cur_depth - 1])
  BY <1>6, <1>7
<1> QED BY <1>6, <1>8, <1>11, <1>12 DEF id, b, d

\* What is common to the calls that record nothing.
LEMMA QuietReads ==
  ASSUME TypeOK, LInv, events' = events, sequences' \in Seq(Seq(Token)), Unfolding' \in Progress,
         ReadsAs(Unfolding, Unfolding', Len(sequences), Len(sequences'))
  PROVE  LInv' /\ Unfolding'.ids = Unfolding.ids
<1>1. Len(sequences) \in Nat /\ Len(sequences') \in Nat /\ Len(events) \in Nat
      /\ Len(events) <= Len(events)
  BY DEF TypeOK
<1>2. Matches(Unfolding, events, Len(sequences))
  BY DEF LInv
<1>3. \A i \in 1..Len(events) :
        events[i].nb_occurences = IF i \in 1..Len(events) THEN events[i].nb_occurences ELSE 0
  OBVIOUS
<1>4. Matches(Unfolding', events, Len(sequences'))
  BY <1>1, <1>2, <1>3, MatchesOn
<1> QED BY <1>4 DEF LInv, ReadsAs

\* A turn of the loop of threadClose reads nothing new, and closes one frame.
LEMMA UnfinishedReads ==
  ASSUME Algorithm # "Filter", IInv, LInv, CloseUnfinished
  PROVE  /\ LInv' /\ Unfolding'.ids = Unfolding.ids /\ HeadsStay(cur_depth - 1)
         /\ ExitGains(Unfolding, Unfolding', GrammarAt(cur_depth), og_seq[cur_depth - 1])
<1> DEFINE d == cur_depth
           b == GrammarAt(d)
<1>1. TypeOK /\ RecordExitFunction(d, b) /\ events' = events
  BY DEF IInv, CloseUnfinished
<1>2. d \in Depths /\ d > 0 /\ d # 0 /\ d <= cur_depth /\ cur_depth \in Nat /\ d >= cur_depth
      /\ d \in Int
  BY <1>1, MaxDepthAssumption DEF CloseUnfinished, TypeOK, Depths
<1>3. EventsGrow
  BY <1>1 DEF EventsGrow, TypeOK
<1>4. \A c \in Depths : c > d => og_seq[c] = <<>>
  BY <1>2, NothingAbove
<1>5. /\ b.tokens = og_seq[d] /\ b.sequences = sequences /\ b.loops = loops
      /\ GoodTables(Ids', Starts', Ends', b) /\ GoodTokens(Ids', b)
  BY <1>1, <1>2, <1>3, GrammarAtProps, FramesGoodForNewEvents
<1>6. Unfolding = Whole(b, og_seq, d)
  BY <1>2, <1>3, <1>4, UnfoldingBefore
<1> HIDE DEF b
<1>7. BlockIn(Starts', Ends', b.tokens)
  <2>1. FrameShape(d)
    BY <1>2 DEF IInv
  <2>2. HeadIn(Starts', Ends', b.tokens)
    BY <1>2, <1>3, <1>5, <2>1, ShapesStay DEF FrameShape
  <2>3. \A k \in 2..Len(b.tokens) : ~IsMark(Starts', b.tokens[k]) /\ ~IsMark(Ends', b.tokens[k])
    BY <2>2 DEF HeadIn, FlatTail, IsMark
  <2> QED BY <2>2, <2>3 DEF HeadIn, BlockIn
<1>8. /\ Unfolding' \in Progress
      /\ ReadsAs(Whole(b, og_seq, d), Unfolding', Len(sequences), Len(sequences'))
      /\ ExitGains(Whole(b, og_seq, d), Unfolding', b, og_seq[cur_depth - 1])
  <2>1. Exact(Whole(b, og_seq, cur_depth))
    BY <1>6 DEF LInv, Matches
  <2> QED BY <1>1, <1>2, <1>3, <1>5, <1>7, <2>1, CloseStep
<1>9. HeadsStay(cur_depth - 1)
  BY <1>1, <1>2, <1>3, <1>5, <1>7, CloseHeads
<1>10. sequences' \in Seq(Seq(Token))
  <2>1. IInv'
    BY UnfinishedStep
  <2> QED BY <2>1 DEF IInv, TypeOK
<1>11. LInv' /\ Unfolding'.ids = Unfolding.ids
  BY <1>1, <1>6, <1>8, <1>10, QuietReads
<1>12. ExitGains(Unfolding, Unfolding', b, og_seq[cur_depth - 1])
  BY <1>6, <1>8
<1> QED BY <1>9, <1>11, <1>12 DEF b, d

\* A step that leaves the tables and the frames, and may add an event that has
\* not occurred.
LEMMA SameReads ==
  ASSUME TypeOK, LInv, UNCHANGED <<sequences, loops, og_seq>>,
         Len(events) <= Len(events'), Len(events') \in Nat,
         \A i \in 1..Len(events') :
           events'[i].nb_occurences = IF i \in 1..Len(events) THEN events[i].nb_occurences ELSE 0
  PROVE  LInv' /\ Unfolding' = Unfolding
<1>1. Unfolding' = Unfolding
  BY DEF Unfolding
<1>2. Len(sequences) \in Nat /\ Len(events) \in Nat
  BY DEF TypeOK
<1>3. Matches(Unfolding, events, Len(sequences)) /\ Unfolding \in Progress
  BY DEF LInv, Matches
<1>4. ReadsAs(Unfolding, Unfolding, Len(sequences), Len(sequences))
  BY <1>2, <1>3, ReadsAsReflexive
<1>5. Matches(Unfolding, events', Len(sequences))
  BY <1>2, <1>3, <1>4, MatchesOn
<1> QED BY <1>1, <1>5 DEF LInv

\* The call that is too deep: its event got an id and does not occur.
LEMMA TooDeepReads ==
  ASSUME IInv, LInv, NEW e \in BlockStart, RecordBlockStartTooDeep(e)
  PROVE  LInv' /\ Unfolding' = Unfolding
<1>1. TypeOK /\ e \in Event
  BY DEF IInv, Event
<1>2. events' = WithEvent(e) /\ UNCHANGED <<sequences, loops, og_seq>>
  BY DEF RecordBlockStartTooDeep
<1>3. /\ Len(events) \in Nat /\ Len(WithEvent(e)) \in Nat
      /\ Len(events) <= Len(WithEvent(e))
      /\ \A i \in 1..Len(WithEvent(e)) :
           /\ WithEvent(e)[i].nb_occurences =
                IF i \in 1..Len(events) THEN events[i].nb_occurences ELSE 0
           /\ WithEvent(e)[i].nb_occurences \in Nat
  BY <1>1, WithEventCounts
<1>4. \A i \in 1..Len(WithEvent(e)) :
        WithEvent(e)[i].nb_occurences =
          IF i \in 1..Len(events) THEN events[i].nb_occurences ELSE 0
  BY <1>3
<1> QED BY <1>1, <1>2, <1>3, <1>4, SameReads

\* Every other step changes nothing that is read.
LEMMA OtherReads ==
  ASSUME IInv, LInv, ThreadClose \/ FinalizeThread \/ UNCHANGED vars
  PROVE  LInv' /\ Unfolding' = Unfolding
<1>1. TypeOK
  BY DEF IInv
<1>2. UNCHANGED <<events, sequences, loops, og_seq>>
  BY DEF ThreadClose, FinalizeThread, vars
<1>3. Len(events) \in Nat /\ Len(events) <= Len(events)
  BY <1>1 DEF TypeOK
<1>4. \A i \in 1..Len(events) :
        events[i].nb_occurences = IF i \in 1..Len(events) THEN events[i].nb_occurences ELSE 0
  OBVIOUS
<1> QED BY <1>1, <1>2, <1>3, <1>4, SameReads

\* Whatever the step, what was recorded is still what is read.
LEMMA NextReads ==
  ASSUME Algorithm # "Filter", IInv, LInv, [Next]_vars
  PROVE  LInv'
<1>1. ASSUME NEW e \in BlockStart, RecordBlockStart(e) PROVE LInv'
  BY <1>1, BlockStartReads
<1>2. ASSUME NEW e \in BlockStart, RecordBlockStartTooDeep(e) PROVE LInv'
  BY <1>2, TooDeepReads
<1>3. ASSUME NEW e \in Singleton, RecordSingleton(e) PROVE LInv'
  BY <1>3, SingletonReads
<1>4. ASSUME NEW e \in BlockEnd, RecordBlockEnd(e) PROVE LInv'
  BY <1>4, BlockEndReads
<1>5. ASSUME CloseUnfinished PROVE LInv'
  BY <1>5, UnfinishedReads
<1>6. ASSUME ThreadClose \/ FinalizeThread \/ UNCHANGED vars PROVE LInv'
  BY <1>6, OtherReads
<1> QED BY <1>1, <1>2, <1>3, <1>4, <1>5, <1>6 DEF Next, Record, Close

\* The reading of the grammar matches the event table after every call.
THEOREM ReadingMatches ==
  ASSUME Algorithm # "Filter"
  PROVE  Spec => []LInv
<1>1. Init => LInv
  BY InitReads
<1>2. IInv /\ LInv /\ [Next]_vars => LInv'
  BY NextReads
<1> QED BY <1>1, <1>2, Invariant, PTL DEF Spec

\* Every occurrence of a loop has exactly one iteration count, every event is
\* counted as often as the grammar unfolds to it, and every sequence and loop of
\* the tables is used by the trace.
THEOREM CountersMatch ==
  ASSUME Algorithm # "Filter"
  PROVE  Spec => []CountersMatchUnfolding
<1>1. IInv /\ LInv => CountersMatchUnfolding
  <2> SUFFICES ASSUME IInv, LInv PROVE CountersMatchUnfolding
    OBVIOUS
  <2>1. /\ DOMAIN events = Ids /\ DOMAIN sequences = 1..Len(sequences)
        /\ DOMAIN loops = 1..Len(loops) /\ Len(loops) \in Nat
    BY DEF IInv, TypeOK, Ids
  <2>2. Matches(Unfolding, events, Len(sequences))
    BY DEF LInv
  <2>3. /\ Exact(Unfolding) /\ Unfolding \in Progress
        /\ \A m \in 1..Len(sequences) : Count(Unfolding.entered, m) > 0
        /\ \A i \in 1..Len(events) : Occurrences(Unfolding.ids, i) = events[i].nb_occurences
    BY <2>2 DEF Matches
  <2>4. \A l \in DOMAIN loops : Remaining(Unfolding, l) = <<>>
    BY <2>1, <2>3 DEF Exact
  <2>5. \A k \in DOMAIN Unfolding.ids : Unfolding.ids[k] # NoEvent
    <3>1. Unfolding.ids \in Seq(Nat)
      BY <2>3, ProgressFields
    <3> QED BY <2>3, <3>1 DEF Exact, Clean
  <2> QED BY <2>1, <2>3, <2>4, <2>5 DEF CountersMatchUnfolding, Ids
<1> QED BY <1>1, Invariant, ReadingMatches, PTL


-----------------------------------------------------------------------------
(* The refinement of the event log *)

\* What happened, when the table of the events is ev, and which blocks are open,
\* when the frames up to depth n are.
Story(ev, ids) ==
  [k \in DOMAIN ids |-> IF ids[k] \in DOMAIN ev THEN ev[ids[k]].event ELSE "invalid"]

Blocks(ev, frames, n) == [d \in 1..n |-> ev[frames[d][1].id].event]

\* The table ev2 has every event of ev.
SameEvents(ev, ev2) ==
  /\ Len(ev) <= Len(ev2)
  /\ \A i \in 1..Len(ev) : ev2[i].event = ev[i].event

\* t goes on with e after s.
GoesOn(s, t, e) == t = Append(s, e)

\* The story goes on with the event that is appended.
LEMMA StoryAppend ==
  ASSUME NEW ev \in Seq(EventSummary), NEW ev2 \in Seq(EventSummary), SameEvents(ev, ev2),
         NEW ids \in Seq(Nat), \A k \in 1..Len(ids) : ids[k] \in 1..Len(ev),
         NEW id, id \in 1..Len(ev2), NEW e, ev2[id].event = e,
         NEW t, GoesOn(ids, t, id)
  PROVE  GoesOn(Story(ev, ids), Story(ev2, t), e)
<1> DEFINE n == Len(ids)
           s == Story(ev, ids)
           x == Story(ev2, t)
           All == {s[k] : k \in 1..n} \cup {e}
<1>0. t = Append(ids, id)
  BY DEF GoesOn
<1>1. n \in Nat /\ id \in Nat /\ DOMAIN ev = 1..Len(ev) /\ DOMAIN ev2 = 1..Len(ev2)
      /\ Len(ev) \in Nat /\ Len(ev2) \in Nat
  OBVIOUS
<1>2. /\ t \in Seq(Nat) /\ Len(t) = n + 1
      /\ \A k \in 1..n : t[k] = ids[k]
  BY <1>0, <1>1, AppendProperties
<1>3. t[n + 1] = id
  BY <1>0, <1>1, AppendProperties
<1>4. DOMAIN ids = 1..n /\ DOMAIN t = 1..(n + 1)
  BY <1>1, <1>2
<1>5. /\ DOMAIN s = 1..n
      /\ \A k \in 1..n : s[k] = ev[ids[k]].event
  BY <1>1, <1>4 DEF Story
<1>6. /\ DOMAIN x = 1..(n + 1)
      /\ \A k \in 1..n : x[k] = ev[ids[k]].event
  <2>1. ASSUME NEW k \in 1..n
        PROVE  k \in 1..(n + 1) /\ t[k] \in 1..Len(ev2) /\ ev2[t[k]].event = ev[ids[k]].event
    <3>1. t[k] = ids[k] /\ ids[k] \in 1..Len(ev)
      BY <1>2
    <3>2. ids[k] \in 1..Len(ev2)
      BY <1>1, <3>1 DEF SameEvents
    <3>3. ev2[ids[k]].event = ev[ids[k]].event
      BY <3>1 DEF SameEvents
    <3> QED BY <1>1, <3>1, <3>2, <3>3
  <2> QED BY <1>1, <1>4, <2>1 DEF Story
<1>7. x[n + 1] = e
  <2>1. n + 1 \in 1..(n + 1)
    BY <1>1
  <2> QED BY <1>1, <1>3, <1>4, <2>1 DEF Story
<1> HIDE DEF s, n
<1>8. s \in Seq(All) /\ Len(s) = n /\ e \in All
  <2>1. e \in All /\ \A k \in 1..n : s[k] \in All
    OBVIOUS
  <2>2. s = [k \in 1..n |-> s[k]]
    BY <1>5 DEF s, Story
  <2> HIDE DEF All
  <2>3. [k \in 1..n |-> s[k]] \in Seq(All)
    BY <1>1, <2>1
  <2>4. s \in Seq(All)
    BY <2>2, <2>3
  <2>5. Len(s) = n
    BY <1>1, <1>5, <2>4
  <2> QED BY <2>1, <2>4, <2>5
<1> HIDE DEF All, x
<1>9. /\ Append(s, e) \in Seq(All) /\ Len(Append(s, e)) = n + 1
      /\ \A k \in 1..n : Append(s, e)[k] = s[k]
  BY <1>8, AppendProperties
<1>10. Append(s, e)[n + 1] = e
  BY <1>8, AppendProperties
<1>11. x = [k \in 1..(n + 1) |-> x[k]]
  BY <1>4 DEF x, Story
<1> DEFINE y == Append(s, e)
<1> HIDE DEF y
<1>12. \A k \in 1..(n + 1) : x[k] = y[k]
  <2>1. \A k \in 1..n : x[k] = y[k]
    BY <1>5, <1>6, <1>9 DEF y
  <2>2. x[n + 1] = y[n + 1]
    BY <1>7, <1>10 DEF y
  <2>3. \A k \in 1..(n + 1) : k \in 1..n \/ k = n + 1
    BY <1>1
  <2> QED BY <2>1, <2>2, <2>3
<1>13. y = [k \in 1..(n + 1) |-> y[k]]
  <2>1. y \in Seq(All) /\ Len(y) = n + 1
    BY <1>9 DEF y
  <2> QED BY <2>1
<1>14. x = y
  BY <1>11, <1>12, <1>13
<1> QED BY <1>14 DEF x, y, s, GoesOn

\* It does not change when events are added that have not occurred.
LEMMA StorySame ==
  ASSUME NEW ev \in Seq(EventSummary), NEW ev2 \in Seq(EventSummary), SameEvents(ev, ev2),
         NEW ids \in Seq(Nat), \A k \in 1..Len(ids) : ids[k] \in 1..Len(ev)
  PROVE  Story(ev2, ids) = Story(ev, ids)
<1>1. DOMAIN ids = 1..Len(ids) /\ DOMAIN ev = 1..Len(ev) /\ DOMAIN ev2 = 1..Len(ev2)
      /\ Len(ev) \in Nat /\ Len(ev2) \in Nat
  OBVIOUS
<1>2. \A k \in 1..Len(ids) : ids[k] \in 1..Len(ev) /\ ids[k] \in 1..Len(ev2)
                             /\ ev2[ids[k]].event = ev[ids[k]].event
  BY <1>1 DEF SameEvents
<1> QED BY <1>1, <1>2 DEF Story

\* The blocks that are open are a list of events.
LEMMA BlocksProps ==
  ASSUME NEW ev, NEW frames, NEW n \in Nat
  PROVE  \A All : (\A k \in 1..n : ev[frames[k][1].id].event \in All) =>
           /\ Blocks(ev, frames, n) \in Seq(All)
           /\ Len(Blocks(ev, frames, n)) = n
           /\ \A k \in 1..n : Blocks(ev, frames, n)[k] = ev[frames[k][1].id].event
<1> SUFFICES ASSUME NEW All, \A k \in 1..n : ev[frames[k][1].id].event \in All
             PROVE  /\ Blocks(ev, frames, n) \in Seq(All)
                    /\ Len(Blocks(ev, frames, n)) = n
                    /\ \A k \in 1..n : Blocks(ev, frames, n)[k] = ev[frames[k][1].id].event
  OBVIOUS
<1> DEFINE b == Blocks(ev, frames, n)
<1>1. DOMAIN b = 1..n /\ \A k \in 1..n : b[k] = ev[frames[k][1].id].event
  BY DEF Blocks
<1>2. b = [k \in 1..n |-> b[k]]
  BY DEF Blocks
<1> HIDE DEF b
<1>3. [k \in 1..n |-> b[k]] \in Seq(All)
  BY <1>1
<1>4. b \in Seq(All)
  BY <1>2, <1>3
<1>5. Len(b) = n
  BY <1>1, <1>4
<1> QED BY <1>1, <1>4, <1>5 DEF b

\* The frames up to depth n stand for the blocks they stood for.
SameBlocks(ev, frames, ev2, frames2, n) ==
  \A k \in 1..n : ev2[frames2[k][1].id].event = ev[frames[k][1].id].event

\* One more frame is one more block.
LEMMA BlocksAppend ==
  ASSUME NEW ev, NEW frames, NEW ev2, NEW frames2, NEW n \in Nat,
         SameBlocks(ev, frames, ev2, frames2, n),
         NEW e, ev2[frames2[n + 1][1].id].event = e
  PROVE  Blocks(ev2, frames2, n + 1) = Append(Blocks(ev, frames, n), e)
<1> DEFINE b == Blocks(ev, frames, n)
           b2 == Blocks(ev2, frames2, n + 1)
           All == {ev[frames[k][1].id].event : k \in 1..n} \cup {e}
           y == Append(b, e)
<1>1. \A k \in 1..n : ev[frames[k][1].id].event \in All
  OBVIOUS
<1>2. e \in All
  OBVIOUS
<1> HIDE DEF All
<1>3. /\ b \in Seq(All) /\ Len(b) = n
      /\ \A k \in 1..n : b[k] = ev[frames[k][1].id].event
  BY <1>1, BlocksProps
<1>4. b2 = [k \in 1..(n + 1) |-> b2[k]]
      /\ \A k \in 1..(n + 1) : b2[k] = ev2[frames2[k][1].id].event
  BY DEF Blocks
<1> HIDE DEF b, b2
<1>5. /\ y \in Seq(All) /\ Len(y) = n + 1
      /\ \A k \in 1..n : y[k] = b[k]
  BY <1>2, <1>3, AppendProperties
<1>6. y[n + 1] = e
  BY <1>2, <1>3, AppendProperties
<1> HIDE DEF y
<1>7. y = [k \in 1..(n + 1) |-> y[k]]
  BY <1>5
<1>8. \A k \in 1..(n + 1) : b2[k] = y[k]
  <2>1. \A k \in 1..n : k \in 1..(n + 1) /\ b2[k] = y[k]
    BY <1>3, <1>4, <1>5 DEF SameBlocks
  <2>2. b2[n + 1] = y[n + 1]
    BY <1>4, <1>6
  <2>3. \A k \in 1..(n + 1) : k \in 1..n \/ k = n + 1
    OBVIOUS
  <2> QED BY <2>1, <2>2, <2>3
<1>9. b2 = y
  BY <1>4, <1>7, <1>8
<1> QED BY <1>9 DEF b, b2, y

\* One frame less is the list of blocks without its last.
LEMMA BlocksFront ==
  ASSUME NEW ev, NEW frames, NEW ev2, NEW frames2, NEW n \in Nat,
         SameBlocks(ev, frames, ev2, frames2, n)
  PROVE  /\ Blocks(ev, frames, n + 1) # <<>>
         /\ Blocks(ev2, frames2, n) = Log!Front(Blocks(ev, frames, n + 1))
<1> DEFINE b == Blocks(ev, frames, n + 1)
           b2 == Blocks(ev2, frames2, n)
           All == {ev[frames[k][1].id].event : k \in 1..(n + 1)}
           y == SubSeq(b, 1, n)
<1>1. \A k \in 1..(n + 1) : ev[frames[k][1].id].event \in All
  OBVIOUS
<1> HIDE DEF All
<1>2. /\ b \in Seq(All) /\ Len(b) = n + 1
      /\ \A k \in 1..(n + 1) : b[k] = ev[frames[k][1].id].event
  BY <1>1, BlocksProps
<1>3. b2 = [k \in 1..n |-> b2[k]]
      /\ \A k \in 1..n : b2[k] = ev2[frames2[k][1].id].event
  BY DEF Blocks
<1> HIDE DEF b, b2
<1>4. \A k \in 1..n : b2[k] = b[k]
  <2>1. \A k \in 1..n : k \in 1..(n + 1)
    OBVIOUS
  <2> QED BY <1>2, <1>3, <2>1 DEF SameBlocks
<1>5. y = [k \in 1..n |-> b[k]]
  BY <1>2
<1>6. b2 = y
  BY <1>3, <1>4, <1>5
<1>7. Log!Front(b) = y
  <2>1. Len(b) - 1 = n
    BY <1>2
  <2> QED BY <2>1 DEF Log!Front
<1>8. b # <<>>
  BY <1>2
<1> QED BY <1>6, <1>7, <1>8 DEF b, b2

\* The depths of the open blocks.
LEMMA OpenDepthsAre ==
  ASSUME NEW n \in Depths
  PROVE  {d \in Depths : d <= n} \ {0} = 1..n
BY MaxDepthAssumption DEF Depths


\* The log and the call stack that the state stands for.
LEMMA LogBefore ==
  ASSUME LInv, cur_depth \in Depths
  PROVE  /\ Happened[Unfolding.ids] = Story(events, Unfolding.ids)
         /\ OpenBlocks = Blocks(events, og_seq, cur_depth)
<1>1. Unfolding.ids \in Seq(Nat)
  <2>1. Unfolding \in Progress
    BY DEF LInv, Matches
  <2> QED BY <2>1, ProgressFields
<1>2. Happened[Unfolding.ids] = Story(events, Unfolding.ids)
  <2> DEFINE x == Unfolding.ids
  <2> HIDE DEF x
  <2>1. x \in Seq(Nat)
    BY <1>1 DEF x
  <2>2. Happened[x] = Story(events, x)
    BY <2>1 DEF Happened, Story
  <2> QED BY <2>2 DEF x
<1>3. OpenDepths \ {0} = 1..cur_depth
  BY OpenDepthsAre DEF OpenDepths
<1> QED BY <1>2, <1>3 DEF OpenBlocks, Blocks

\* The same of the next state.
LEMMA LogAfter ==
  ASSUME LInv', NEW n \in Depths, \A d \in Depths : d <= cur_depth' <=> d <= n
  PROVE  /\ Happened[Unfolding.ids]' = Story(events', Unfolding'.ids)
         /\ OpenBlocks' = Blocks(events', og_seq', n)
<1>1. Unfolding'.ids \in Seq(Nat)
  <2>1. Unfolding' \in Progress
    BY DEF LInv, Matches
  <2> QED BY <2>1, ProgressFields
<1>2. Happened[Unfolding.ids]' = Story(events', Unfolding'.ids)
  <2> DEFINE x == Unfolding'.ids
  <2> HIDE DEF x
  <2>1. x \in Seq(Nat)
    BY <1>1 DEF x
  <2>2. Happened'[x] = Story(events', x)
    BY <2>1 DEF Happened, Story
  <2> QED BY <2>2 DEF x
<1>3. OpenDepths' \ {0} = 1..n
  <2>1. {d \in Depths : d <= n} \ {0} = 1..n
    BY OpenDepthsAre
  <2>2. OpenDepths' = {d \in Depths : d <= n}
    BY DEF OpenDepths
  <2> QED BY <2>1, <2>2
<1> QED BY <1>2, <1>3 DEF OpenBlocks, Blocks

\* The frames whose heads stay stand for the blocks they stood for.
LEMMA HeadEvents ==
  ASSUME IInv, EventsGrow, NEW n \in Nat, HeadsStay(n), cur_depth \in Depths, n <= cur_depth
  PROVE  SameBlocks(events, og_seq, events', og_seq', n)
<1> SUFFICES ASSUME NEW k \in 1..n
             PROVE  events'[og_seq'[k][1].id].event = events[og_seq[k][1].id].event
  BY DEF SameBlocks
<1>1. k \in Depths /\ k # 0 /\ k <= cur_depth
  BY MaxDepthAssumption DEF Depths
<1>2. HeadIn(Starts, Ends, og_seq[k])
  BY <1>1 DEF IInv, FrameShape
<1>3. og_seq[k][1].id \in Ids
  BY <1>2 DEF HeadIn, IsMark, Starts
<1>4. og_seq'[k][1] = og_seq[k][1]
  BY DEF HeadsStay
<1> QED BY <1>3, <1>4 DEF EventsGrow

\* The story of a call that records e goes on with e.
LEMMA StoryGoesOn ==
  ASSUME IInv, LInv, NEW e \in Event, SummarizeEvent(e),
         Unfolding'.ids = Append(Unfolding.ids, EventIdOf(e))
  PROVE  Story(events', Unfolding'.ids) = Append(Story(events, Unfolding.ids), e)
<1>1. TypeOK /\ events \in Seq(EventSummary)
  BY DEF IInv, TypeOK
<1>2. EventsGrow /\ EventIdOf(e) \in Ids' /\ events'[EventIdOf(e)].event = e
  BY <1>1, SummarizeProps
<1>3. events' \in Seq(EventSummary) /\ SameEvents(events, events')
  BY <1>2 DEF EventsGrow, SameEvents, Ids
<1>4. Unfolding.ids \in Seq(Nat) /\ \A k \in 1..Len(Unfolding.ids) : Unfolding.ids[k] \in 1..Len(events)
  <2>1. Unfolding \in Progress
    BY DEF LInv, Matches
  <2> QED BY <2>1, ProgressFields DEF LInv, Matches
<1>5. EventIdOf(e) \in 1..Len(events')
  BY <1>2 DEF Ids
<1>6. Story(events', Unfolding'.ids) = Append(Story(events, Unfolding.ids), e)
  <2> DEFINE id == EventIdOf(e)
             ids == Unfolding.ids
             t == Unfolding'.ids
  <2>1. events'[id].event = e /\ id \in 1..Len(events')
    BY <1>2, <1>5
  <2>2. ids \in Seq(Nat)
    BY <1>4
  <2>3. \A k \in 1..Len(ids) : ids[k] \in 1..Len(events)
    BY <1>4
  <2>4. GoesOn(ids, t, id)
    BY DEF GoesOn
  <2> HIDE DEF id, ids, t
  <2>5. GoesOn(Story(events, ids), Story(events', t), e)
    BY <1>1, <1>3, <2>1, <2>2, <2>3, <2>4, StoryAppend
  <2> QED BY <2>5 DEF ids, t, GoesOn
<1> QED BY <1>6

\* A call that begins a block is Begin.
LEMMA BlockStartRefines ==
  ASSUME Algorithm # "Filter", IInv, LInv, NEW e \in BlockStart, RecordBlockStart(e)
  PROVE  Log!Begin(e)
<1> DEFINE n == cur_depth
<1>1. TypeOK /\ e \in Event /\ SummarizeEvent(e) /\ cur_depth' = n + 1 /\ status = "open"
      /\ status' = status /\ n + 1 < MaxDepth
  BY DEF IInv, Event, RecordBlockStart
<1>2. /\ LInv' /\ Unfolding'.ids = Append(Unfolding.ids, EventIdOf(e))
      /\ HeadsStay(n) /\ og_seq'[n + 1][1] = EventToken(EventIdOf(e))
  BY BlockStartReads
<1>3. n \in Depths /\ n \in Nat /\ n + 1 \in Depths /\ n <= cur_depth
  BY <1>1, MaxDepthAssumption DEF TypeOK, Depths
<1>4. EventsGrow /\ events'[EventIdOf(e)].event = e /\ EventToken(EventIdOf(e)).id = EventIdOf(e)
  BY <1>1, RecordedId
<1>5. Happened[Unfolding.ids] = Story(events, Unfolding.ids)
      /\ OpenBlocks = Blocks(events, og_seq, n)
  BY <1>3, LogBefore
<1>6. Happened[Unfolding.ids]' = Story(events', Unfolding'.ids)
      /\ OpenBlocks' = Blocks(events', og_seq', n + 1)
  <2>1. \A d \in Depths : d <= cur_depth' <=> d <= n + 1
    BY <1>1
  <2> QED BY <1>2, <1>3, <2>1, LogAfter
<1>7. SameBlocks(events, og_seq, events', og_seq', n)
  BY <1>2, <1>3, <1>4, HeadEvents
<1>8. events'[og_seq'[n + 1][1].id].event = e
  BY <1>2, <1>4
<1> HIDE DEF n
<1>9. Blocks(events', og_seq', n + 1) = Append(Blocks(events, og_seq, n), e)
  BY <1>3, <1>7, <1>8, BlocksAppend
<1>10. Story(events', Unfolding'.ids) = Append(Story(events, Unfolding.ids), e)
  BY <1>1, <1>2, StoryGoesOn
<1>11. Phase = "recording" /\ Phase' = Phase
  BY <1>1 DEF Phase
<1> QED BY <1>5, <1>6, <1>9, <1>10, <1>11 DEF Log!Begin

\* The same blocks are open when no frame is opened or closed.
LEMMA BlocksSame ==
  ASSUME NEW ev, NEW frames, NEW ev2, NEW frames2, NEW n,
         SameBlocks(ev, frames, ev2, frames2, n)
  PROVE  Blocks(ev2, frames2, n) = Blocks(ev, frames, n)
BY DEF Blocks, SameBlocks

\* A call that records an event on its own is Happen.
LEMMA SingletonRefines ==
  ASSUME Algorithm # "Filter", IInv, LInv, NEW e \in Singleton, RecordSingleton(e)
  PROVE  Log!Happen(e)
<1> DEFINE n == cur_depth
<1>1. TypeOK /\ e \in Event /\ SummarizeEvent(e) /\ cur_depth' = n /\ status = "open"
      /\ status' = status
  BY DEF IInv, Event, RecordSingleton
<1>2. LInv' /\ Unfolding'.ids = Append(Unfolding.ids, EventIdOf(e)) /\ HeadsStay(n)
  BY SingletonReads
<1>3. n \in Depths /\ n \in Nat /\ n <= cur_depth
  BY <1>1, MaxDepthAssumption DEF TypeOK, Depths
<1>4. EventsGrow
  BY <1>1, RecordedId
<1>5. Happened[Unfolding.ids] = Story(events, Unfolding.ids)
      /\ OpenBlocks = Blocks(events, og_seq, n)
  BY <1>3, LogBefore
<1>6. Happened[Unfolding.ids]' = Story(events', Unfolding'.ids)
      /\ OpenBlocks' = Blocks(events', og_seq', n)
  <2>1. \A d \in Depths : d <= cur_depth' <=> d <= n
    BY <1>1
  <2> QED BY <1>2, <1>3, <2>1, LogAfter
<1>7. SameBlocks(events, og_seq, events', og_seq', n)
  BY <1>2, <1>3, <1>4, HeadEvents
<1>8. Blocks(events', og_seq', n) = Blocks(events, og_seq, n)
  BY <1>7, BlocksSame
<1>9. Story(events', Unfolding'.ids) = Append(Story(events, Unfolding.ids), e)
  BY <1>1, <1>2, StoryGoesOn
<1>10. Phase = "recording" /\ Phase' = Phase
  BY <1>1 DEF Phase
<1> QED BY <1>5, <1>6, <1>8, <1>9, <1>10 DEF Log!Happen

\* A call that ends a block is End.
LEMMA BlockEndRefines ==
  ASSUME Algorithm # "Filter", IInv, LInv, NEW e \in BlockEnd, RecordBlockEnd(e)
  PROVE  Log!End(e)
<1> DEFINE n == cur_depth - 1
<1>1. TypeOK /\ e \in Event /\ SummarizeEvent(e) /\ cur_depth' = n /\ status = "open"
      /\ status' = status /\ cur_depth > 0
  BY DEF IInv, Event, RecordBlockEnd, RecordExitFunction
<1>2. LInv' /\ Unfolding'.ids = Append(Unfolding.ids, EventIdOf(e)) /\ HeadsStay(n)
  BY BlockEndReads
<1>3. cur_depth \in Depths /\ n \in Depths /\ n \in Nat /\ n <= cur_depth /\ cur_depth = n + 1
  BY <1>1, MaxDepthAssumption DEF TypeOK, Depths
<1>4. EventsGrow
  BY <1>1, RecordedId
<1>5. Happened[Unfolding.ids] = Story(events, Unfolding.ids)
      /\ OpenBlocks = Blocks(events, og_seq, cur_depth)
  BY <1>3, LogBefore
<1>6. Happened[Unfolding.ids]' = Story(events', Unfolding'.ids)
      /\ OpenBlocks' = Blocks(events', og_seq', n)
  <2>1. \A d \in Depths : d <= cur_depth' <=> d <= n
    BY <1>1
  <2> QED BY <1>2, <1>3, <2>1, LogAfter
<1>7. SameBlocks(events, og_seq, events', og_seq', n)
  BY <1>2, <1>3, <1>4, HeadEvents
<1> HIDE DEF n
<1>8. OpenBlocks # <<>> /\ Blocks(events', og_seq', n) = Log!Front(OpenBlocks)
  <2>1. /\ Blocks(events, og_seq, n + 1) # <<>>
        /\ Blocks(events', og_seq', n) = Log!Front(Blocks(events, og_seq, n + 1))
    BY <1>3, <1>7, BlocksFront
  <2> QED BY <1>3, <1>5, <2>1
<1>9. Story(events', Unfolding'.ids) = Append(Story(events, Unfolding.ids), e)
  BY <1>1, <1>2, StoryGoesOn
<1>10. Phase = "recording" /\ Phase' = Phase
  BY <1>1 DEF Phase
<1> QED BY <1>5, <1>6, <1>8, <1>9, <1>10 DEF Log!End

\* A turn of the loop of threadClose is Unwind.
LEMMA UnfinishedRefines ==
  ASSUME Algorithm # "Filter", IInv, LInv, CloseUnfinished
  PROVE  Log!Unwind
<1> DEFINE n == cur_depth - 1
<1>1. TypeOK /\ cur_depth' = n /\ status = "closing" /\ status' = status /\ cur_depth > 0
      /\ events' = events
  BY DEF IInv, CloseUnfinished, RecordExitFunction
<1>2. LInv' /\ Unfolding'.ids = Unfolding.ids /\ HeadsStay(n)
  BY UnfinishedReads
<1>3. cur_depth \in Depths /\ n \in Depths /\ n \in Nat /\ n <= cur_depth /\ cur_depth = n + 1
  BY <1>1, MaxDepthAssumption DEF TypeOK, Depths
<1>4. EventsGrow
  BY <1>1 DEF EventsGrow, TypeOK
<1>5. Happened[Unfolding.ids] = Story(events, Unfolding.ids)
      /\ OpenBlocks = Blocks(events, og_seq, cur_depth)
  BY <1>3, LogBefore
<1>6. Happened[Unfolding.ids]' = Story(events', Unfolding'.ids)
      /\ OpenBlocks' = Blocks(events', og_seq', n)
  <2>1. \A d \in Depths : d <= cur_depth' <=> d <= n
    BY <1>1
  <2> QED BY <1>2, <1>3, <2>1, LogAfter
<1>7. SameBlocks(events, og_seq, events', og_seq', n)
  BY <1>2, <1>3, <1>4, HeadEvents
<1> HIDE DEF n
<1>8. OpenBlocks # <<>> /\ Blocks(events', og_seq', n) = Log!Front(OpenBlocks)
  <2>1. /\ Blocks(events, og_seq, n + 1) # <<>>
        /\ Blocks(events', og_seq', n) = Log!Front(Blocks(events, og_seq, n + 1))
    BY <1>3, <1>7, BlocksFront
  <2> QED BY <1>3, <1>5, <2>1
<1>9. Story(events', Unfolding'.ids) = Story(events, Unfolding.ids)
  BY <1>1, <1>2
<1>10. Phase = "unwinding" /\ Phase' = Phase
  BY <1>1 DEF Phase
<1> QED BY <1>5, <1>6, <1>8, <1>9, <1>10 DEF Log!Unwind

\* The call that is too deep is Stop: the log keeps what was recorded before it.
LEMMA TooDeepRefines ==
  ASSUME IInv, LInv, NEW e \in BlockStart, RecordBlockStartTooDeep(e)
  PROVE  Log!Stop
<1> DEFINE n == cur_depth
<1>1. TypeOK /\ e \in Event /\ events' = WithEvent(e) /\ cur_depth' = n + 1 /\ status = "open"
      /\ status' = "aborted" /\ n + 1 >= MaxDepth /\ og_seq' = og_seq
  BY DEF IInv, Event, RecordBlockStartTooDeep
<1>2. LInv' /\ Unfolding' = Unfolding
  BY TooDeepReads
<1>3. n \in Depths /\ n \in Nat /\ n <= cur_depth
  BY <1>1, MaxDepthAssumption DEF TypeOK, Depths
<1>4. EventsGrow
  BY <1>1, EventProps DEF EventsGrow
<1>5. Happened[Unfolding.ids] = Story(events, Unfolding.ids)
      /\ OpenBlocks = Blocks(events, og_seq, n)
  BY <1>3, LogBefore
<1>6. Happened[Unfolding.ids]' = Story(events', Unfolding'.ids)
      /\ OpenBlocks' = Blocks(events', og_seq', n)
  <2>1. \A d \in Depths : d <= cur_depth' <=> d <= n
    BY <1>1, <1>3, MaxDepthAssumption DEF Depths
  <2> QED BY <1>2, <1>3, <2>1, LogAfter
<1>7. Blocks(events', og_seq', n) = Blocks(events, og_seq, n)
  <2>1. HeadsStay(n)
    BY <1>1 DEF HeadsStay
  <2>2. SameBlocks(events, og_seq, events', og_seq', n)
    BY <1>3, <1>4, <2>1, HeadEvents
  <2> QED BY <2>2, BlocksSame
<1>8. Story(events', Unfolding'.ids) = Story(events, Unfolding.ids)
  <2>1. events \in Seq(EventSummary) /\ events' \in Seq(EventSummary) /\ SameEvents(events, events')
    BY <1>1, <1>4 DEF EventsGrow, SameEvents, Ids, TypeOK
  <2>2. Unfolding \in Progress
        /\ \A k \in 1..Len(Unfolding.ids) : Unfolding.ids[k] \in 1..Len(events)
    BY DEF LInv, Matches
  <2>3. Unfolding.ids \in Seq(Nat)
    BY <2>2, ProgressFields
  <2>4. Story(events', Unfolding.ids) = Story(events, Unfolding.ids)
    BY <2>1, <2>2, <2>3, StorySame
  <2> QED BY <1>2, <2>4
<1>9. Phase = "recording" /\ Phase' = "over"
  BY <1>1 DEF Phase
<1> QED BY <1>5, <1>6, <1>7, <1>8, <1>9 DEF Log!Stop

\* Entering threadClose is Stop, leaving it is Finish.
LEMMA OtherRefines ==
  ASSUME IInv, LInv, [ThreadClose \/ FinalizeThread]_vars
  PROVE  [Log!Stop \/ Log!Finish]_Log!vars
<1>1. TypeOK
  BY DEF IInv
<1>2. UNCHANGED <<events, sequences, loops, og_seq, cur_depth>>
  BY DEF ThreadClose, FinalizeThread, vars
<1>3. Unfolding' = Unfolding /\ Happened' = Happened /\ OpenBlocks' = OpenBlocks
  BY <1>2 DEF Unfolding, Happened, OpenBlocks, OpenDepths
<1>4. CASE ThreadClose
  <2>1. Phase = "recording" /\ Phase' = "unwinding"
    BY <1>4 DEF ThreadClose, Phase
  <2> QED BY <1>3, <2>1 DEF Log!Stop
<1>5. CASE FinalizeThread
  <2>1. Phase = "unwinding" /\ Phase' = "over" /\ cur_depth = 0
    BY <1>5 DEF FinalizeThread, Phase
  <2>2. 0 \in Depths
    BY MaxDepthAssumption DEF Depths
  <2>3. OpenBlocks = Blocks(events, og_seq, 0)
    BY <2>1, <2>2, LogBefore
  <2>4. Blocks(events, og_seq, 0) = <<>>
    BY DEF Blocks
  <2> QED BY <1>3, <2>1, <2>3, <2>4 DEF Log!Finish
<1>6. CASE UNCHANGED vars
  <2>1. Phase' = Phase
    BY <1>6 DEF vars, Phase
  <2> QED BY <1>3, <2>1 DEF Log!vars
<1> QED BY <1>4, <1>5, <1>6

\* The log of a writer just opened is empty.
LEMMA InitRefines == Init => Log!Init
<1> SUFFICES ASSUME Init PROVE Log!Init
  OBVIOUS
<1>1. LInv /\ events = <<>> /\ cur_depth = 0 /\ status = "open"
  BY InitReads DEF Init
<1>2. 0 \in Depths
  BY MaxDepthAssumption DEF Depths
<1>3. Unfolding.ids \in Seq(Nat) /\ \A k \in 1..Len(Unfolding.ids) : Unfolding.ids[k] \in 1..Len(events)
  <2>1. Unfolding \in Progress
    BY <1>1 DEF LInv, Matches
  <2> QED BY <1>1, <2>1, ProgressFields DEF LInv, Matches
<1>4. Unfolding.ids = <<>>
  <2> DEFINE s == Unfolding.ids
  <2> HIDE DEF s
  <2>1. s \in Seq(Nat) /\ \A k \in 1..Len(s) : FALSE
    BY <1>1, <1>3 DEF s
  <2>2. s = <<>>
    BY <2>1
  <2> QED BY <2>2 DEF s
<1>5. /\ Happened[Unfolding.ids] = Story(events, Unfolding.ids)
      /\ OpenBlocks = Blocks(events, og_seq, 0)
  BY <1>1, <1>2, LogBefore
<1>6. Story(events, <<>>) = <<>>
  BY DEF Story
<1>7. Blocks(events, og_seq, 0) = <<>>
  BY DEF Blocks
<1>8. Phase = "recording"
  BY <1>1 DEF Phase
<1> QED BY <1>4, <1>5, <1>6, <1>7, <1>8 DEF Log!Init

\* Every step of the writer is a step of the log, or none.
LEMMA NextRefines ==
  ASSUME Algorithm # "Filter", IInv, LInv, [Next]_vars
  PROVE  [Log!Next]_Log!vars
<1>1. ASSUME NEW e \in BlockStart, RecordBlockStart(e) PROVE Log!Next
  BY <1>1, BlockStartRefines DEF Log!Next
<1>2. ASSUME NEW e \in BlockStart, RecordBlockStartTooDeep(e) PROVE Log!Next
  BY <1>2, TooDeepRefines DEF Log!Next
<1>3. ASSUME NEW e \in Singleton, RecordSingleton(e) PROVE Log!Next
  BY <1>3, SingletonRefines DEF Log!Next
<1>4. ASSUME NEW e \in BlockEnd, RecordBlockEnd(e) PROVE Log!Next
  BY <1>4, BlockEndRefines DEF Log!Next
<1>5. ASSUME CloseUnfinished PROVE Log!Next
  BY <1>5, UnfinishedRefines DEF Log!Next
<1>6. ASSUME [ThreadClose \/ FinalizeThread]_vars PROVE [Log!Next]_Log!vars
  BY <1>6, OtherRefines DEF Log!Next
<1> QED BY <1>1, <1>2, <1>3, <1>4, <1>5, <1>6 DEF Next, Record, Close

\* The trace is lossless: the compressed trace of a thread is, after every call
\* and whatever loops were found, the list of the events it was given.
THEOREM Lossless ==
  ASSUME Algorithm # "Filter"
  PROVE  Spec => TraceIsLossless
<1>1. Init => Log!Init
  BY InitRefines
<1>2. IInv /\ LInv /\ [Next]_vars => [Log!Next]_Log!vars
  BY NextRefines
<1>3. Spec => Log!Spec
  BY <1>1, <1>2, Invariant, ReadingMatches, PTL DEF Spec, Log!Spec
<1> QED BY <1>3 DEF TraceIsLossless
=============================================================================
