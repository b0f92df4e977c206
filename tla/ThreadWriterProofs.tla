------------------------- MODULE ThreadWriterProofs -------------------------
(***************************************************************************)
(* Proofs about ThreadWriter, for any events, any depth and any length of  *)
(* trace.                                                                  *)
(***************************************************************************)
EXTENDS ThreadWriter, SequenceTheorems, TLAPS

Order == INSTANCE WellFoundedInduction

-----------------------------------------------------------------------------
(* What the operations on a grammar return *)

\* Looking a block up gives the id it has afterwards, and changes no other.
LEMMA WithSequenceProps ==
  ASSUME NEW s \in Seq(Seq(Token)), NEW a \in Seq(Token)
  PROVE  /\ WithSequence(s, a) \in Seq(Seq(Token))
         /\ SequenceIdOf(s, a) \in 1..Len(WithSequence(s, a))
         /\ WithSequence(s, a)[SequenceIdOf(s, a)] = a
         /\ Len(s) <= Len(WithSequence(s, a))
         /\ \A n \in 1..Len(s) : WithSequence(s, a)[n] = s[n]
         /\ \A n \in 1..Len(WithSequence(s, a)) : n \notin 1..Len(s) =>
              n = SequenceIdOf(s, a) /\ n = Len(s) + 1 /\ ~IsKnown(s, a)
BY DEF WithSequence, SequenceIdOf, IsKnown

\* The last number of a sequence of numbers, and no other, grows by one.
LEMMA BumpLastProps ==
  ASSUME NEW s \in Seq(Nat)
  PROVE  /\ BumpLast(s) \in Seq(Nat)
         /\ Len(BumpLast(s)) = Len(s)
         /\ \A k \in 1..Len(s) : BumpLast(s)[k] = IF k = Len(s) THEN s[k] + 1 ELSE s[k]
<1>1. CASE s = <<>>
  <2>1. BumpLast(s) = <<>>
    BY <1>1 DEF BumpLast
  <2>2. BumpLast(s) = s /\ Len(s) = 0
    BY <1>1, <2>1
  <2> QED BY <2>2
<1>2. CASE s # <<>>
  <2>1. Len(s) \in 1..Len(s) /\ s[Len(s)] + 1 \in Nat
    BY <1>2
  <2> QED BY <2>1, ExceptSeq DEF BumpLast
<1> QED BY <1>1, <1>2

\* Loop l with its iteration counts replaced.
WithIterations(ls, l, v) == [ls EXCEPT ![l].nb_iterations = v]

\* Replacing the iteration counts of one loop leaves what it repeats, and every
\* other loop, as they were.
LEMMA WithIterationsProps ==
  ASSUME NEW ls \in Seq(Loop), NEW l \in 1..Len(ls), NEW v \in Seq(Nat)
  PROVE  LET new == WithIterations(ls, l, v)
         IN  /\ new \in Seq(Loop)
             /\ Len(new) = Len(ls)
             /\ \A k \in 1..Len(ls) : k # l => new[k] = ls[k]
             /\ new[l].repeated_token = ls[l].repeated_token
             /\ new[l].nb_iterations = v
<1> DEFINE new == WithIterations(ls, l, v)
<1>1. ls[l] \in Loop
  BY ElementOfSeq
<1>2. [ls[l] EXCEPT !.nb_iterations = v] \in Loop
  BY <1>1 DEF Loop
<1>3. new = [ls EXCEPT ![l] = [ls[l] EXCEPT !.nb_iterations = v]]
  BY DEF WithIterations
<1> HIDE DEF new
<1>4. /\ new \in Seq(Loop)
      /\ Len(new) = Len(ls)
      /\ \A k \in 1..Len(ls) : new[k] = IF k = l THEN [ls[l] EXCEPT !.nb_iterations = v] ELSE ls[k]
  BY <1>2, <1>3, ExceptSeq
<1>5. new[l] = [ls[l] EXCEPT !.nb_iterations = v]
  BY <1>4
<1>6. new[l].repeated_token = ls[l].repeated_token /\ new[l].nb_iterations = v
  BY <1>1, <1>5 DEF Loop
<1>7. /\ new \in Seq(Loop)
      /\ Len(new) = Len(ls)
      /\ \A k \in 1..Len(ls) : k # l => new[k] = ls[k]
      /\ new[l].repeated_token = ls[l].repeated_token
      /\ new[l].nb_iterations = v
  BY <1>4, <1>6
<1> QED BY <1>7 DEF new

\* One more iteration of loop l changes the last count of l and nothing else.
LEMMA AddIterationProps ==
  ASSUME NEW ls \in Seq(Loop), NEW l \in 1..Len(ls)
  PROVE  /\ AddIteration(ls, l) \in Seq(Loop)
         /\ Len(AddIteration(ls, l)) = Len(ls)
         /\ \A k \in 1..Len(ls) : k # l => AddIteration(ls, l)[k] = ls[k]
         /\ AddIteration(ls, l)[l].repeated_token = ls[l].repeated_token
         /\ AddIteration(ls, l)[l].nb_iterations = BumpLast(ls[l].nb_iterations)
<1> DEFINE v == BumpLast(ls[l].nb_iterations)
<1>1. ls[l] \in Loop
  BY ElementOfSeq
<1>2. v \in Seq(Nat)
  BY <1>1, BumpLastProps DEF Loop
<1>3. AddIteration(ls, l) = WithIterations(ls, l, v)
  BY DEF AddIteration, WithIterations
<1> HIDE DEF v
<1>4. QED
  BY <1>2, <1>3, WithIterationsProps DEF v

\* The loop that was found or made repeats the sequence asked for, and has one
\* occurrence more than before.
LEMMA WithLoopProps ==
  ASSUME NEW ls \in Seq(Loop), NEW sid \in Nat,
         \A k \in 1..Len(ls) : ls[k].repeated_token.type = "Sequence"
  PROVE  LET new == WithLoop(ls, sid)
             l   == LoopIdOf(ls, sid)
         IN  /\ new \in Seq(Loop)
             /\ l \in 1..Len(new)
             /\ Len(ls) <= Len(new)
             /\ \A k \in 1..Len(ls) : k # l => new[k] = ls[k]
             /\ \A k \in 1..Len(new) : k \notin 1..Len(ls) =>
                  k = l /\ k = Len(ls) + 1 /\ ~IsRepeated(ls, sid)
             /\ new[l].repeated_token = SequenceToken(sid)
             /\ l \in 1..Len(ls) =>
                  /\ new[l].repeated_token = ls[l].repeated_token
                  /\ new[l].nb_iterations = Append(ls[l].nb_iterations, 1)
             /\ l \notin 1..Len(ls) => new[l].nb_iterations = <<1>>
<1> DEFINE new == WithLoop(ls, sid)
           l   == LoopIdOf(ls, sid)
<1>1. CASE IsRepeated(ls, sid)
  <2>1. l \in 1..Len(ls) /\ ls[l].repeated_token.id = sid
    BY <1>1 DEF LoopIdOf, IsRepeated
  <2> DEFINE v == Append(ls[l].nb_iterations, 1)
  <2> HIDE DEF l
  <2>0. ls[l] \in Loop
    BY <2>1, ElementOfSeq
  <2>2. ls[l].nb_iterations \in Seq(Nat) /\ ls[l].repeated_token \in Token
    BY <2>0 DEF Loop
  <2>3. v \in Seq(Nat)
    BY <2>2
  <2>4. new = WithIterations(ls, l, v)
    BY <1>1 DEF WithLoop, WithIterations, l
  <2>5. ls[l].repeated_token = SequenceToken(sid)
    BY <2>1, <2>2 DEF Token, SequenceToken
  <2> HIDE DEF new, v
  <2>6. /\ new \in Seq(Loop)
        /\ Len(new) = Len(ls)
        /\ \A k \in 1..Len(ls) : k # l => new[k] = ls[k]
        /\ new[l].repeated_token = ls[l].repeated_token
        /\ new[l].nb_iterations = v
    BY <2>1, <2>3, <2>4, WithIterationsProps
  <2>7. QED
    BY <2>1, <2>5, <2>6 DEF new, l, v
<1>2. CASE ~IsRepeated(ls, sid)
  <2> DEFINE r == [repeated_token |-> SequenceToken(sid), nb_iterations |-> <<1>>]
  <2>1. r \in Loop
    BY DEF Loop, Token, TokenType, SequenceToken
  <2>2. new = Append(ls, r) /\ l = Len(ls) + 1
    BY <1>2 DEF WithLoop, LoopIdOf
  <2>3. r.repeated_token = SequenceToken(sid) /\ r.nb_iterations = <<1>>
    OBVIOUS
  <2> HIDE DEF r, new, l
  <2>4. /\ new \in Seq(Loop)
        /\ Len(new) = Len(ls) + 1
        /\ \A k \in 1..Len(ls) : new[k] = ls[k]
        /\ new[Len(ls) + 1] = r
    BY <2>1, <2>2, AppendProperties
  <2> QED BY <1>2, <2>2, <2>3, <2>4 DEF new, l
<1> QED BY <1>1, <1>2

\* A one added to a fresh occurrence makes it an occurrence of two iterations.
LEMMA SecondIteration ==
  /\ BumpLast(<<1>>) = <<2>>
  /\ \A s \in Seq(Nat) : BumpLast(Append(s, 1)) = Append(s, 2)
<1>1. ASSUME NEW s \in Seq(Nat)
      PROVE  BumpLast(Append(s, 1)) = Append(s, 2)
  <2>1. Append(s, 1) \in Seq(Nat) /\ Append(s, 2) \in Seq(Nat)
    OBVIOUS
  <2>2. /\ Len(Append(s, 1)) = Len(s) + 1
        /\ Len(Append(s, 2)) = Len(s) + 1
        /\ \A k \in 1..Len(s) + 1 : /\ Append(s, 1)[k] = IF k = Len(s) + 1 THEN 1 ELSE s[k]
                                    /\ Append(s, 2)[k] = IF k = Len(s) + 1 THEN 2 ELSE s[k]
    OBVIOUS
  <2>3. /\ BumpLast(Append(s, 1)) \in Seq(Nat)
        /\ Len(BumpLast(Append(s, 1))) = Len(s) + 1
        /\ \A k \in 1..Len(s) + 1 : BumpLast(Append(s, 1))[k] =
             IF k = Len(s) + 1 THEN Append(s, 1)[k] + 1 ELSE Append(s, 1)[k]
    BY <2>1, <2>2, BumpLastProps
  <2>4. ASSUME NEW k \in 1..Len(s) + 1
        PROVE  BumpLast(Append(s, 1))[k] = Append(s, 2)[k]
    <3>1. CASE k = Len(s) + 1
      <4>1. Append(s, 1)[k] = 1 /\ Append(s, 2)[k] = 2
        BY <2>2, <3>1, Zenon
      <4>2. BumpLast(Append(s, 1))[k] = Append(s, 1)[k] + 1
        BY <2>3, <3>1, Zenon
      <4> QED BY <4>1, <4>2
    <3>2. CASE k # Len(s) + 1
      <4>1. Append(s, 1)[k] = s[k] /\ Append(s, 2)[k] = s[k]
        BY <2>2, <3>2, Zenon
      <4>2. BumpLast(Append(s, 1))[k] = Append(s, 1)[k]
        BY <2>3, <3>2, Zenon
      <4> QED BY <4>1, <4>2, Zenon
    <3> QED BY <3>1, <3>2, Zenon
  <2> DEFINE a == BumpLast(Append(s, 1))
             b == Append(s, 2)
  <2>5. /\ a \in Seq(Nat) /\ b \in Seq(Nat)
        /\ Len(a) = Len(b)
        /\ \A k \in 1..Len(a) : a[k] = b[k]
    BY <2>1, <2>2, <2>3, <2>4
  <2> HIDE DEF a, b
  <2>6. a = b
    BY <2>5, SeqEqual
  <2> QED BY <2>6 DEF a, b
<1>2. BumpLast(<<1>>) = <<2>>
  BY DEF BumpLast
<1> QED BY <1>1, <1>2

\* What replaceTokensInLoop does to the loops: one loop, the one over the block,
\* has a new occurrence of two iterations.
LEMMA NewOccurrence ==
  ASSUME NEW ls \in Seq(Loop), NEW sid \in Nat,
         \A k \in 1..Len(ls) : ls[k].repeated_token.type = "Sequence"
  PROVE  LET l   == LoopIdOf(ls, sid)
             new == AddIteration(WithLoop(ls, sid), l)
         IN  /\ new \in Seq(Loop)
             /\ l \in 1..Len(new)
             /\ Len(ls) <= Len(new)
             /\ \A k \in 1..Len(ls) : k # l => new[k] = ls[k]
             /\ \A k \in 1..Len(new) : k \notin 1..Len(ls) =>
                  k = l /\ k = Len(ls) + 1 /\ ~IsRepeated(ls, sid)
             /\ new[l].repeated_token = SequenceToken(sid)
             /\ l \in 1..Len(ls) =>
                  /\ new[l].repeated_token = ls[l].repeated_token
                  /\ new[l].nb_iterations = Append(ls[l].nb_iterations, 2)
             /\ l \notin 1..Len(ls) => new[l].nb_iterations = <<2>>
<1> DEFINE l   == LoopIdOf(ls, sid)
           mid == WithLoop(ls, sid)
           new == AddIteration(mid, l)
<1>1. /\ mid \in Seq(Loop)
      /\ l \in 1..Len(mid)
      /\ Len(ls) <= Len(mid)
      /\ \A k \in 1..Len(ls) : k # l => mid[k] = ls[k]
      /\ \A k \in 1..Len(mid) : k \notin 1..Len(ls) =>
           k = l /\ k = Len(ls) + 1 /\ ~IsRepeated(ls, sid)
      /\ mid[l].repeated_token = SequenceToken(sid)
      /\ l \in 1..Len(ls) =>
           /\ mid[l].repeated_token = ls[l].repeated_token
           /\ mid[l].nb_iterations = Append(ls[l].nb_iterations, 1)
      /\ l \notin 1..Len(ls) => mid[l].nb_iterations = <<1>>
  BY WithLoopProps
<1> HIDE DEF mid, l
<1>2. /\ new \in Seq(Loop)
      /\ Len(new) = Len(mid)
      /\ \A k \in 1..Len(mid) : k # l => new[k] = mid[k]
      /\ new[l].repeated_token = mid[l].repeated_token
      /\ new[l].nb_iterations = BumpLast(mid[l].nb_iterations)
  BY <1>1, AddIterationProps
<1> HIDE DEF new
<1>3. ASSUME l \in 1..Len(ls)
      PROVE  ls[l].nb_iterations \in Seq(Nat)
  <2>1. ls[l] \in Loop
    BY <1>3, ElementOfSeq
  <2> QED BY <2>1 DEF Loop
<1>4. l \in 1..Len(ls) => new[l].nb_iterations = Append(ls[l].nb_iterations, 2)
  BY <1>1, <1>2, <1>3, SecondIteration
<1>5. l \notin 1..Len(ls) => new[l].nb_iterations = <<2>>
  BY <1>1, <1>2, SecondIteration
<1>6. /\ new \in Seq(Loop)
      /\ l \in 1..Len(new)
      /\ Len(ls) <= Len(new)
      /\ \A k \in 1..Len(ls) : k # l => new[k] = ls[k]
      /\ \A k \in 1..Len(new) : k \notin 1..Len(ls) =>
           k = l /\ k = Len(ls) + 1 /\ ~IsRepeated(ls, sid)
      /\ new[l].repeated_token = SequenceToken(sid)
      /\ l \in 1..Len(ls) => new[l].repeated_token = ls[l].repeated_token
  BY <1>1, <1>2
<1> QED BY <1>4, <1>5, <1>6 DEF new, mid, l

-----------------------------------------------------------------------------
(* The inductive invariant, first as a property of a grammar.  E holds the *)
(* ids of the events that exist, S those of the events that begin a block, *)
(* F those of the events that end one.                                     *)

Below(E, g, token, n) ==
  \/ token.type = "Event" /\ token.id \in E
  \/ token.type = "Sequence" /\ token.id \in 1..Len(g.sequences) /\ token.id < n
  \/ /\ token.type = "Loop"
     /\ token.id \in 1..Len(g.loops)
     /\ g.loops[token.id].repeated_token.id < n

IsMark(K, token) == token.type = "Event" /\ token.id \in K

FlatIn(K, tokens) == \A k \in 1..Len(tokens) : ~IsMark(K, tokens[k])

BlockIn(S, F, tokens) ==
  /\ tokens # <<>>
  /\ IsMark(S, tokens[1])
  /\ \A k \in 2..Len(tokens) :
       ~IsMark(S, tokens[k]) /\ (IsMark(F, tokens[k]) => k = Len(tokens))

GoodLoops(K, g) ==
  \A l \in 1..Len(g.loops) :
    /\ g.loops[l].repeated_token.type = "Sequence"
    /\ g.loops[l].repeated_token.id \in 1..Len(g.sequences)
    /\ FlatIn(K, g.sequences[g.loops[l].repeated_token.id])
    /\ Algorithm = "BasicTruncated" =>
         Len(g.sequences[g.loops[l].repeated_token.id]) < MaxLoopLength
    /\ \A k \in 1..Len(g.loops[l].nb_iterations) : g.loops[l].nb_iterations[k] >= 2

GoodSequences(E, S, F, g) ==
  \A n \in 1..Len(g.sequences) :
    /\ \A k \in 1..Len(g.sequences[n]) : Below(E, g, g.sequences[n][k], n)
    /\ FlatIn(S \cup F, g.sequences[n]) \/ BlockIn(S, F, g.sequences[n])

Distinct(g) ==
  /\ \A m, n \in 1..Len(g.sequences) : g.sequences[m] = g.sequences[n] => m = n
  /\ \A k, l \in 1..Len(g.loops) :
       g.loops[k].repeated_token.id = g.loops[l].repeated_token.id => k = l

GoodTables(E, S, F, g) ==
  /\ g \in Grammar
  /\ GoodLoops(S \cup F, g)
  /\ GoodSequences(E, S, F, g)
  /\ Distinct(g)

GoodTokens(E, g) ==
  \A k \in 1..Len(g.tokens) : Below(E, g, g.tokens[k], Len(g.sequences) + 1)

\* Only the first token may begin or end a block.
FlatTail(K, tokens) == \A k \in 2..Len(tokens) : ~IsMark(K, tokens[k])

\* The counts of a loop change only at their end.
CountsGrow(old, new) ==
  /\ Len(new) \in {Len(old), Len(old) + 1}
  /\ \A k \in 1..Len(old) :
       \/ new[k] = old[k]
       \/ k = Len(old) /\ k = Len(new) /\ new[k] = old[k] + 1

\* The tables of h are those of g after some more of the trace: see KeepsHistory.
Grows(g, h) ==
  /\ Len(g.sequences) <= Len(h.sequences)
  /\ \A n \in 1..Len(g.sequences) : h.sequences[n] = g.sequences[n]
  /\ Len(g.loops) <= Len(h.loops)
  /\ \A l \in 1..Len(g.loops) :
       /\ h.loops[l].repeated_token = g.loops[l].repeated_token
       /\ CountsGrow(g.loops[l].nb_iterations, h.loops[l].nb_iterations)

\* A reference that goes down still does when the tables have grown.
LEMMA BelowGrows ==
  ASSUME NEW E, NEW g, NEW h, NEW token \in Token, NEW m \in Nat, NEW n \in Nat, m <= n,
         g.sequences \in Seq(Seq(Token)), g.loops \in Seq(Loop),
         h.sequences \in Seq(Seq(Token)), h.loops \in Seq(Loop),
         Grows(g, h), Below(E, g, token, m)
  PROVE  Below(E, h, token, n)
<1>0. token.id \in Nat
  BY DEF Token
<1>1. CASE token.type = "Event"
  BY <1>1 DEF Below
<1>2. CASE token.type = "Sequence"
  BY <1>0, <1>2 DEF Below, Grows
<1>3. CASE token.type = "Loop"
  <2>1. token.id \in 1..Len(g.loops) /\ g.loops[token.id].repeated_token.id < m
    BY <1>3 DEF Below
  <2>2. token.id \in 1..Len(h.loops)
    BY <2>1 DEF Grows
  <2>3. h.loops[token.id].repeated_token = g.loops[token.id].repeated_token
    BY <2>1 DEF Grows
  <2>4. g.loops[token.id] \in Loop
    BY <2>1, ElementOfSeq
  <2>5. g.loops[token.id].repeated_token.id \in Nat
    BY <2>4 DEF Loop, Token
  <2>6. h.loops[token.id].repeated_token.id < n
    BY <2>1, <2>3, <2>5
  <2> QED BY <1>3, <2>2, <2>6 DEF Below
<1> QED BY <1>1, <1>2, <1>3 DEF Below

-----------------------------------------------------------------------------
(* The rewrites keep the invariant *)

\* A rewrite of the frame g.tokens keeps its first token, or puts a loop in the
\* place of one that neither begins nor ends a block; what follows is flat.
KeepsHead(K, g, h) ==
  /\ h.tokens # <<>>
  /\ h.tokens[1] = g.tokens[1] \/ (~IsMark(K, g.tokens[1]) /\ ~IsMark(K, h.tokens[1]))
  /\ FlatTail(K, h.tokens)

\* The last tokens of a frame, one by one.
LEMMA LastTokensProps ==
  ASSUME NEW s \in Seq(Token), NEW n \in 1..Len(s)
  PROVE  /\ LastTokens(s, n) \in Seq(Token)
         /\ Len(LastTokens(s, n)) = n
         /\ \A k \in 1..n : LastTokens(s, n)[k] = s[Len(s) - n + k]
<1>1. /\ Len(s) - n + 1 \in 1..Len(s) + 1
      /\ Len(s) \in Nat /\ Len(s) - n + 1 <= Len(s) + 1
  OBVIOUS
<1> QED BY <1>1, SubSeqProperties DEF LastTokens

\* The first tokens of a frame, one by one.
LEMMA FirstTokensProps ==
  ASSUME NEW s \in Seq(Token), NEW n \in 0..Len(s)
  PROVE  /\ SubSeq(s, 1, n) \in Seq(Token)
         /\ Len(SubSeq(s, 1, n)) = n
         /\ \A k \in 1..n : SubSeq(s, 1, n)[k] = s[k]
<1>1. 1 \in 1..Len(s) + 1 /\ n \in 0..Len(s) /\ n \in (1 - 1)..Len(s)
  OBVIOUS
<1> QED BY <1>1, SubSeqProperties

\* A token of a table that has grown is below what it was below before.
LEMMA SequencesStayBelow ==
  ASSUME NEW E, NEW S, NEW F, NEW g \in Grammar, NEW h \in Grammar,
         GoodSequences(E, S, F, g), Grows(g, h), NEW n \in 1..Len(g.sequences)
  PROVE  /\ \A k \in 1..Len(h.sequences[n]) : Below(E, h, h.sequences[n][k], n)
         /\ FlatIn(S \cup F, h.sequences[n]) \/ BlockIn(S, F, h.sequences[n])
<1>1. h.sequences[n] = g.sequences[n]
  BY DEF Grows
<1>2. ASSUME NEW k \in 1..Len(g.sequences[n])
      PROVE  Below(E, h, g.sequences[n][k], n)
  <2>1. Below(E, g, g.sequences[n][k], n)
    BY DEF GoodSequences
  <2>2. g.sequences[n] \in Seq(Token)
    BY ElementOfSeq DEF Grammar
  <2>3. g.sequences[n][k] \in Token
    BY <2>2, ElementOfSeq
  <2>4. n \in Nat /\ n <= n
    BY DEF Grammar
  <2>5. /\ g.sequences \in Seq(Seq(Token)) /\ g.loops \in Seq(Loop)
        /\ h.sequences \in Seq(Seq(Token)) /\ h.loops \in Seq(Loop)
    BY DEF Grammar
  <2> QED BY <2>1, <2>3, <2>4, <2>5, BelowGrows
<1>3. FlatIn(S \cup F, g.sequences[n]) \/ BlockIn(S, F, g.sequences[n])
  BY DEF GoodSequences
<1> QED BY <1>1, <1>2, <1>3

\* One more iteration is a change at the end of the counts.
LEMMA BumpGrows ==
  ASSUME NEW s \in Seq(Nat)
  PROVE  CountsGrow(s, BumpLast(s))
BY BumpLastProps DEF CountsGrow

\* A new occurrence is a change at the end of the counts.
LEMMA AppendGrows ==
  ASSUME NEW s \in Seq(Nat), NEW x \in Nat
  PROVE  CountsGrow(s, Append(s, x))
BY DEF CountsGrow

\* Counts that stay as they are have changed at most at their end.
LEMMA SameCounts ==
  ASSUME NEW s \in Seq(Nat)
  PROVE  CountsGrow(s, s)
BY DEF CountsGrow

\* What a rewrite of the end of a frame must keep, once for all rewrites.
Rewrites(E, S, F, g, h) ==
  /\ GoodTables(E, S, F, h)
  /\ GoodTokens(E, h)
  /\ Grows(g, h)
  /\ KeepsHead(S \cup F, g, h)

\* A grammar with other loops and tokens.
Rewritten(g, x, y) == [g EXCEPT !.loops = x, !.tokens = y]

\* It has those, and the sequences it had.
LEMMA RewrittenProps ==
  ASSUME NEW g \in Grammar, NEW x \in Seq(Loop), NEW y \in Seq(Token)
  PROVE  /\ Rewritten(g, x, y) \in Grammar
         /\ Rewritten(g, x, y).sequences = g.sequences
         /\ Rewritten(g, x, y).loops = x
         /\ Rewritten(g, x, y).tokens = y
BY DEF Grammar, Rewritten

\* AbsorbIteration keeps the invariant: of the tables it changes one count.
LEMMA AbsorbRewrites ==
  ASSUME NEW E, NEW S, NEW F, NEW g,
         GoodTables(E, S, F, g), GoodTokens(E, g), FlatTail(S \cup F, g.tokens),
         NEW n \in 1..(Len(g.tokens) - 1), EndsWithIteration(g, n)
  PROVE  Rewrites(E, S, F, g, AbsorbIteration(g, n))
<1> DEFINE kept == Len(g.tokens) - n
           l    == g.tokens[kept].id
           h    == AbsorbIteration(g, n)
<1>1. /\ g \in Grammar
      /\ g.sequences \in Seq(Seq(Token)) /\ g.loops \in Seq(Loop) /\ g.tokens \in Seq(Token)
  BY DEF GoodTables, Grammar
<1>2. kept \in 1..Len(g.tokens)
  BY <1>1
<1>3. l \in 1..Len(g.loops)
  BY <1>2 DEF EndsWithIteration, GoodTokens, Below
<1> DEFINE x == AddIteration(g.loops, l)
           y == SubSeq(g.tokens, 1, kept)
<1>4. h = Rewritten(g, x, y)
  BY DEF AbsorbIteration, Rewritten
<1> HIDE DEF h, l, kept
<1>5. /\ x \in Seq(Loop)
      /\ Len(x) = Len(g.loops)
      /\ \A k \in 1..Len(g.loops) : k # l => x[k] = g.loops[k]
      /\ x[l].repeated_token = g.loops[l].repeated_token
      /\ x[l].nb_iterations = BumpLast(g.loops[l].nb_iterations)
  BY <1>1, <1>3, AddIterationProps
<1>6. /\ y \in Seq(Token)
      /\ Len(y) = kept
      /\ \A k \in 1..kept : y[k] = g.tokens[k]
  BY <1>1, <1>2, FirstTokensProps
<1> HIDE DEF x, y
<1>7. h \in Grammar /\ h.sequences = g.sequences /\ h.loops = x /\ h.tokens = y
  BY <1>1, <1>4, <1>5, <1>6, RewrittenProps
<1>8. \A k \in 1..Len(g.loops) : h.loops[k].repeated_token = g.loops[k].repeated_token
  BY <1>5, <1>7
<1>9. \A k \in 1..Len(g.loops) : g.loops[k].nb_iterations \in Seq(Nat)
  <2>1. \A k \in 1..Len(g.loops) : g.loops[k] \in Loop
    BY <1>1, ElementOfSeq
  <2> QED BY <2>1 DEF Loop
<1>10. Grows(g, h)
  <2>1. ASSUME NEW k \in 1..Len(g.loops)
        PROVE  CountsGrow(g.loops[k].nb_iterations, h.loops[k].nb_iterations)
    <3>1. CASE k = l
      BY <1>5, <1>7, <1>9, <3>1, BumpGrows
    <3>2. CASE k # l
      BY <1>5, <1>7, <1>9, <3>2, SameCounts
    <3> QED BY <3>1, <3>2
  <2> QED BY <1>1, <1>5, <1>7, <1>8, <2>1 DEF Grows
<1>11. GoodLoops(S \cup F, h)
  <2> SUFFICES ASSUME NEW k \in 1..Len(g.loops)
               PROVE  \A i \in 1..Len(h.loops[k].nb_iterations) : h.loops[k].nb_iterations[i] >= 2
    BY <1>5, <1>7, <1>8 DEF GoodTables, GoodLoops
  <2>1. \A i \in 1..Len(g.loops[k].nb_iterations) : g.loops[k].nb_iterations[i] >= 2
    BY DEF GoodTables, GoodLoops
  <2>2. CASE k = l
    <3> DEFINE old == g.loops[k].nb_iterations
    <3>1. old \in Seq(Nat) /\ h.loops[k].nb_iterations = BumpLast(old)
      BY <1>5, <1>7, <1>9, <2>2
    <3> HIDE DEF old
    <3>2. /\ Len(BumpLast(old)) = Len(old)
          /\ \A i \in 1..Len(old) : BumpLast(old)[i] = IF i = Len(old) THEN old[i] + 1 ELSE old[i]
      BY <3>1, BumpLastProps
    <3>3. \A i \in 1..Len(old) : old[i] \in Nat /\ old[i] >= 2
      BY <2>1, <3>1, ElementOfSeq DEF old
    <3> QED BY <3>1, <3>2, <3>3
  <2>3. CASE k # l
    BY <1>5, <1>7, <2>1, <2>3
  <2> QED BY <2>2, <2>3
<1>12. GoodSequences(E, S, F, h)
  BY <1>1, <1>7, <1>10, SequencesStayBelow DEF GoodTables, GoodSequences
<1>13. Distinct(h)
  BY <1>5, <1>7, <1>8 DEF GoodTables, Distinct
<1>14. GoodTokens(E, h)
  <2> SUFFICES ASSUME NEW k \in 1..kept
               PROVE  Below(E, h, g.tokens[k], Len(g.sequences) + 1)
    BY <1>6, <1>7 DEF GoodTokens
  <2>1. Below(E, g, g.tokens[k], Len(g.sequences) + 1)
    BY <1>2 DEF GoodTokens
  <2>2. g.tokens[k] \in Token /\ Len(g.sequences) + 1 \in Nat
    BY <1>1, <1>2, ElementOfSeq
  <2>3. Len(g.sequences) + 1 <= Len(g.sequences) + 1
    BY <1>1
  <2> QED BY <1>1, <1>5, <1>7, <1>10, <2>1, <2>2, <2>3, BelowGrows
<1>15. KeepsHead(S \cup F, g, h)
  <2>1. h.tokens # <<>> /\ h.tokens[1] = g.tokens[1]
    BY <1>2, <1>6, <1>7
  <2>2. FlatTail(S \cup F, h.tokens)
    <3>1. \A k \in 2..Len(h.tokens) : k \in 2..Len(g.tokens) /\ h.tokens[k] = g.tokens[k]
      BY <1>1, <1>2, <1>6, <1>7
    <3> QED BY <3>1 DEF FlatTail
  <2> QED BY <2>1, <2>2 DEF KeepsHead
<1> QED BY <1>7, <1>10, <1>11, <1>12, <1>13, <1>14, <1>15 DEF Rewrites, GoodTables, h

\* Two blocks of n tokens at the end of a frame of m.
LEMMA TwoBlocks ==
  ASSUME NEW m \in Nat, NEW n \in Nat \ {0}, 2 * n <= m
  PROVE  LET before == m - 2 * n
         IN  /\ before \in 0..m /\ n \in 1..m /\ n < m
             /\ m = before + n + n
             /\ m - n = before + n /\ m - n \in 1..m
OBVIOUS

\* FoldRepeat keeps the invariant: the block it makes a sequence of is older
\* than the loop over it, and no older sequence or loop is a copy of it.
LEMMA FoldRewrites ==
  ASSUME NEW E, NEW S, NEW F, NEW g,
         GoodTables(E, S, F, g), GoodTokens(E, g), FlatTail(S \cup F, g.tokens),
         NEW n \in 1..(Len(g.tokens) - 1), EndsWithRepeat(g, n),
         Algorithm = "BasicTruncated" => n < MaxLoopLength
  PROVE  Rewrites(E, S, F, g, FoldRepeat(g, n))
<1> DEFINE body   == LastTokens(g.tokens, n)
           before == Len(g.tokens) - 2 * n
           sid    == SequenceIdOf(g.sequences, body)
           l      == LoopIdOf(g.loops, sid)
           sq     == WithSequence(g.sequences, body)
           lp     == AddIteration(WithLoop(g.loops, sid), l)
           tk     == Append(Resize(g.tokens, before), LoopToken(l))
           h      == FoldRepeat(g, n)
<1>1. /\ g \in Grammar
      /\ g.sequences \in Seq(Seq(Token)) /\ g.loops \in Seq(Loop) /\ g.tokens \in Seq(Token)
  BY DEF GoodTables, Grammar
<1>2. /\ before \in 0..Len(g.tokens) /\ n \in 1..Len(g.tokens) /\ n < Len(g.tokens)
      /\ Len(g.tokens) = before + n + n /\ Len(g.tokens) \in Nat
  <2>1. Len(g.tokens) \in Nat /\ 2 * n <= Len(g.tokens) /\ n \in Nat \ {0}
    BY <1>1 DEF EndsWithRepeat
  <2>2. before = Len(g.tokens) - 2 * n
    OBVIOUS
  <2> HIDE DEF body, before, sid, l, sq, lp, tk, h
  <2> QED BY <2>1, <2>2, TwoBlocks
<1>3. h = [sequences |-> sq, loops |-> lp, tokens |-> tk]
  BY DEF FoldRepeat, ReplaceTokensInLoop
<1> HIDE DEF before, sid, l, sq, lp, h
<1>4. h.sequences = sq /\ h.loops = lp /\ h.tokens = tk
  <2> HIDE DEF tk
  <2> QED BY <1>3
<1>5. Resize(g.tokens, before) = SubSeq(g.tokens, 1, before)
  BY <1>2 DEF Resize
<1>6. tk = Append(SubSeq(g.tokens, 1, before), LoopToken(l))
  BY <1>5
<1> HIDE DEF tk
<1>7. body \in Seq(Token) /\ Len(body) = n /\ \A k \in 1..n : body[k] = g.tokens[Len(g.tokens) - n + k]
  BY <1>1, <1>2, LastTokensProps DEF body
<1> HIDE DEF body
<1>8. /\ sq \in Seq(Seq(Token))
      /\ sid \in 1..Len(sq)
      /\ sq[sid] = body
      /\ Len(g.sequences) <= Len(sq)
      /\ \A m \in 1..Len(g.sequences) : sq[m] = g.sequences[m]
      /\ \A m \in 1..Len(sq) : m \notin 1..Len(g.sequences) =>
           m = sid /\ m = Len(g.sequences) + 1 /\ ~IsKnown(g.sequences, body)
  BY <1>1, <1>7, WithSequenceProps DEF sq, sid
<1>9. sid \in Nat /\ \A k \in 1..Len(g.loops) : g.loops[k].repeated_token.type = "Sequence"
  BY <1>8 DEF GoodTables, GoodLoops
<1>10. /\ lp \in Seq(Loop)
       /\ l \in 1..Len(lp)
       /\ Len(g.loops) <= Len(lp)
       /\ \A k \in 1..Len(g.loops) : k # l => lp[k] = g.loops[k]
       /\ \A k \in 1..Len(lp) : k \notin 1..Len(g.loops) =>
            k = l /\ k = Len(g.loops) + 1 /\ ~IsRepeated(g.loops, sid)
       /\ lp[l].repeated_token = SequenceToken(sid)
       /\ l \in 1..Len(g.loops) =>
            /\ lp[l].repeated_token = g.loops[l].repeated_token
            /\ lp[l].nb_iterations = Append(g.loops[l].nb_iterations, 2)
       /\ l \notin 1..Len(g.loops) => lp[l].nb_iterations = <<2>>
  BY <1>1, <1>9, NewOccurrence DEF lp, l
<1>11. /\ LoopToken(l) \in Token /\ LoopToken(l).type = "Loop" /\ LoopToken(l).id = l
  BY <1>10 DEF LoopToken, Token, TokenType
<1>12. /\ tk \in Seq(Token)
       /\ Len(tk) = before + 1
       /\ \A k \in 1..before : tk[k] = g.tokens[k]
       /\ tk[before + 1] = LoopToken(l)
       /\ tk # <<>>
  <2> DEFINE first == SubSeq(g.tokens, 1, before)
  <2>1. first \in Seq(Token) /\ Len(first) = before /\ \A k \in 1..before : first[k] = g.tokens[k]
    BY <1>1, <1>2, FirstTokensProps
  <2>2. tk = Append(first, LoopToken(l))
    BY <1>6
  <2> HIDE DEF first
  <2> QED BY <1>11, <2>1, <2>2, AppendProperties
<1>13. h \in Grammar
  BY <1>3, <1>8, <1>10, <1>12 DEF Grammar
<1>14. \A k \in 1..Len(g.loops) : lp[k].repeated_token = g.loops[k].repeated_token
  BY <1>10
<1>15. \A k \in 1..Len(g.loops) : g.loops[k].nb_iterations \in Seq(Nat)
  <2>1. \A k \in 1..Len(g.loops) : g.loops[k] \in Loop
    BY <1>1, ElementOfSeq
  <2> QED BY <2>1 DEF Loop
<1>16. Grows(g, h)
  <2>1. ASSUME NEW k \in 1..Len(g.loops)
        PROVE  CountsGrow(g.loops[k].nb_iterations, lp[k].nb_iterations)
    <3>1. CASE k = l
      BY <1>10, <1>15, <3>1, AppendGrows
    <3>2. CASE k # l
      BY <1>10, <1>15, <3>2, SameCounts
    <3> QED BY <3>1, <3>2
  <2> QED BY <1>4, <1>8, <1>10, <1>14, <2>1 DEF Grows
<1>17. FlatIn(S \cup F, body)
  <2>1. \A k \in 1..n : Len(g.tokens) - n + k \in 2..Len(g.tokens)
    BY <1>2
  <2> QED BY <1>7, <2>1 DEF FlatTail, FlatIn
<1>18. GoodLoops(S \cup F, h)
  <2> SUFFICES ASSUME NEW k \in 1..Len(lp)
               PROVE  /\ lp[k].repeated_token.type = "Sequence"
                      /\ lp[k].repeated_token.id \in 1..Len(sq)
                      /\ FlatIn(S \cup F, sq[lp[k].repeated_token.id])
                      /\ Algorithm = "BasicTruncated" =>
                           Len(sq[lp[k].repeated_token.id]) < MaxLoopLength
                      /\ \A i \in 1..Len(lp[k].nb_iterations) : lp[k].nb_iterations[i] >= 2
    BY <1>4 DEF GoodLoops
  <2>1. CASE k = l
    <3>1. lp[k].repeated_token.type = "Sequence" /\ lp[k].repeated_token.id = sid
      BY <1>10, <2>1 DEF SequenceToken
    <3>2. \A i \in 1..Len(lp[k].nb_iterations) : lp[k].nb_iterations[i] >= 2
      <4>1. CASE l \in 1..Len(g.loops)
        <5> DEFINE old == g.loops[l].nb_iterations
        <5>1. old \in Seq(Nat) /\ lp[k].nb_iterations = Append(old, 2)
          BY <1>10, <1>15, <2>1, <4>1
        <5>2. \A i \in 1..Len(old) : old[i] >= 2
          BY <4>1 DEF GoodTables, GoodLoops
        <5> HIDE DEF old
        <5> QED BY <5>1, <5>2, AppendProperties
      <4>2. CASE l \notin 1..Len(g.loops)
        BY <1>10, <2>1, <4>2
      <4> QED BY <4>1, <4>2
    <3> QED BY <1>7, <1>8, <1>17, <3>1, <3>2
  <2>2. CASE k # l
    <3>1. k \in 1..Len(g.loops) /\ lp[k] = g.loops[k]
      BY <1>10, <2>2
    <3>2. lp[k].repeated_token.id \in 1..Len(g.sequences)
      BY <3>1 DEF GoodTables, GoodLoops
    <3>3. sq[lp[k].repeated_token.id] = g.sequences[lp[k].repeated_token.id]
      BY <1>8, <3>2
    <3>4. lp[k].repeated_token.id \in 1..Len(sq)
      BY <1>1, <1>8, <3>2
    <3> QED BY <3>1, <3>3, <3>4 DEF GoodTables, GoodLoops
  <2> QED BY <2>1, <2>2
<1>19. ASSUME NEW k \in 1..Len(g.tokens)
       PROVE  Below(E, h, g.tokens[k], Len(g.sequences) + 1)
  <2>1. Below(E, g, g.tokens[k], Len(g.sequences) + 1)
    BY DEF GoodTokens
  <2>2. /\ g.tokens[k] \in Token
        /\ Len(g.sequences) + 1 \in Nat /\ Len(g.sequences) + 1 <= Len(g.sequences) + 1
    BY <1>1, ElementOfSeq
  <2>3. h.sequences \in Seq(Seq(Token)) /\ h.loops \in Seq(Loop)
    BY <1>13 DEF Grammar
  <2> QED BY <1>1, <1>16, <2>1, <2>2, <2>3, BelowGrows
<1>20. GoodSequences(E, S, F, h)
  <2> SUFFICES ASSUME NEW m \in 1..Len(sq)
               PROVE  /\ \A k \in 1..Len(h.sequences[m]) : Below(E, h, h.sequences[m][k], m)
                      /\ FlatIn(S \cup F, h.sequences[m]) \/ BlockIn(S, F, h.sequences[m])
    BY <1>4 DEF GoodSequences
  <2>1. CASE m \in 1..Len(g.sequences)
    BY <1>1, <1>13, <1>16, <2>1, SequencesStayBelow DEF GoodTables
  <2>2. CASE m \notin 1..Len(g.sequences)
    <3>1. m = Len(g.sequences) + 1 /\ h.sequences[m] = body
      BY <1>4, <1>8, <2>2
    <3>2. \A k \in 1..n : Len(g.tokens) - n + k \in 1..Len(g.tokens)
      BY <1>2
    <3> QED BY <1>7, <1>17, <1>19, <3>1, <3>2
  <2> QED BY <2>1, <2>2
<1>21. Distinct(h)
  <2>1. ASSUME NEW i \in 1..Len(sq), NEW j \in 1..Len(sq), sq[i] = sq[j]
        PROVE  i = j
    <3>1. ASSUME NEW m \in 1..Len(g.sequences), sq[m] = body
          PROVE  IsKnown(g.sequences, body)
      <4>1. DOMAIN g.sequences = 1..Len(g.sequences)
        BY <1>1
      <4>2. g.sequences[m] = body
        BY <1>8, <3>1
      <4> QED BY <4>1, <4>2 DEF IsKnown
    <3> QED BY <1>8, <2>1, <3>1 DEF GoodTables, Distinct
  <2>2. ASSUME NEW i \in 1..Len(lp), NEW j \in 1..Len(lp),
               lp[i].repeated_token.id = lp[j].repeated_token.id
        PROVE  i = j
    <3>1. ASSUME NEW k \in 1..Len(g.loops), lp[k].repeated_token.id = sid
          PROVE  IsRepeated(g.loops, sid)
      <4>1. DOMAIN g.loops = 1..Len(g.loops) /\ g.loops[k].repeated_token.id = sid
        BY <1>1, <1>14, <3>1
      <4> QED BY <4>1 DEF IsRepeated
    <3>2. lp[l].repeated_token.id = sid
      BY <1>10 DEF SequenceToken
    <3> QED BY <1>10, <1>14, <2>2, <3>1, <3>2 DEF GoodTables, Distinct
  <2> QED BY <1>4, <2>1, <2>2 DEF Distinct
<1>22. GoodTokens(E, h)
  <2> SUFFICES ASSUME NEW k \in 1..(before + 1)
               PROVE  Below(E, h, tk[k], Len(sq) + 1)
    BY <1>4, <1>12 DEF GoodTokens
  <2>1. CASE k \in 1..before
    <3>1. k \in 1..Len(g.tokens) /\ tk[k] = g.tokens[k]
      BY <1>2, <1>12, <2>1
    <3>2. Below(E, h, tk[k], Len(g.sequences) + 1)
      BY <1>19, <3>1
    <3>3. /\ Len(g.sequences) + 1 \in Nat /\ Len(sq) + 1 \in Nat
          /\ Len(g.sequences) + 1 <= Len(sq) + 1
      BY <1>1, <1>8
    <3>4. h.sequences \in Seq(Seq(Token)) /\ h.loops \in Seq(Loop) /\ tk[k] \in Token
      BY <1>1, <1>13, <3>1, ElementOfSeq DEF Grammar
    <3>5. Grows(h, h)
      <4>1. \A i \in 1..Len(h.loops) : h.loops[i] \in Loop
        BY <3>4, ElementOfSeq
      <4>2. \A i \in 1..Len(h.loops) : CountsGrow(h.loops[i].nb_iterations, h.loops[i].nb_iterations)
        BY <4>1, SameCounts DEF Loop
      <4> QED BY <3>4, <4>2 DEF Grows
    <3> QED BY <3>2, <3>3, <3>4, <3>5, BelowGrows
  <2>2. CASE k = before + 1
    <3>1. tk[k].type = "Loop" /\ tk[k].id \in 1..Len(h.loops)
      BY <1>4, <1>10, <1>11, <1>12, <2>2
    <3>2. h.loops[tk[k].id].repeated_token.id = sid
      BY <1>4, <1>10, <1>11, <1>12, <2>2 DEF SequenceToken
    <3> QED BY <1>8, <3>1, <3>2 DEF Below
  <2> QED BY <1>2, <2>1, <2>2
<1>23. KeepsHead(S \cup F, g, h)
  <2>1. ~IsMark(S \cup F, LoopToken(l))
    BY <1>11 DEF IsMark
  <2>2. CASE before = 0
    <3>1. h.tokens # <<>> /\ h.tokens[1] = LoopToken(l) /\ Len(h.tokens) = 1
      BY <1>4, <1>12, <2>2
    <3>2. LastTokens(g.tokens, n)[1] = g.tokens[n + 1] /\ n + 1 \in 2..Len(g.tokens)
      BY <1>2, <1>7, <2>2 DEF body
    <3>3. SubSeq(g.tokens, Len(g.tokens) - 2 * n + 1, Len(g.tokens) - n)[1] = g.tokens[1]
      <4>1. Len(g.tokens) - 2 * n + 1 = 1 /\ Len(g.tokens) - n = n
        BY <1>2, <2>2
      <4>2. n \in 0..Len(g.tokens)
        BY <1>2
      <4> QED BY <1>1, <1>2, <4>1, <4>2, FirstTokensProps
    <3>4. g.tokens[1] = g.tokens[n + 1]
      BY <3>2, <3>3 DEF EndsWithRepeat
    <3>5. ~IsMark(S \cup F, g.tokens[1])
      BY <3>2, <3>4 DEF FlatTail
    <3> QED BY <2>1, <3>1, <3>5 DEF KeepsHead, FlatTail
  <2>3. CASE before # 0
    <3>1. h.tokens # <<>> /\ h.tokens[1] = g.tokens[1]
      BY <1>2, <1>4, <1>12, <2>3
    <3>2. ASSUME NEW k \in 2..Len(h.tokens)
          PROVE  ~IsMark(S \cup F, h.tokens[k])
      <4>1. (k \in 2..before /\ k \in 2..Len(g.tokens)) \/ k = before + 1
        BY <1>2, <1>4, <1>12
      <4>2. CASE k \in 2..before /\ k \in 2..Len(g.tokens)
        <5>1. h.tokens[k] = g.tokens[k]
          BY <1>2, <1>4, <1>12, <4>2
        <5> QED BY <4>2, <5>1 DEF FlatTail
      <4>3. CASE k = before + 1
        <5>1. h.tokens[k] = LoopToken(l)
          BY <1>4, <1>12, <4>3
        <5> QED BY <2>1, <5>1
      <4> QED BY <4>1, <4>2, <4>3
    <3> QED BY <3>1, <3>2 DEF KeepsHead, FlatTail
  <2> QED BY <2>2, <2>3
<1> QED BY <1>13, <1>16, <1>18, <1>20, <1>21, <1>22, <1>23 DEF Rewrites, GoodTables, h

\* Leaving a frame as it is rewrites it.
LEMMA SameGrammar ==
  ASSUME NEW g \in Grammar
  PROVE  Grows(g, g)
<1>1. g.sequences \in Seq(Seq(Token)) /\ g.loops \in Seq(Loop)
  BY DEF Grammar
<1>2. \A l \in 1..Len(g.loops) : g.loops[l] \in Loop
  BY <1>1, ElementOfSeq
<1>3. \A l \in 1..Len(g.loops) : CountsGrow(g.loops[l].nb_iterations, g.loops[l].nb_iterations)
  BY <1>2, SameCounts DEF Loop
<1> QED BY <1>1, <1>3 DEF Grows

\* Whatever the search finds, or nothing, it keeps the invariant.
LEMMA FindRewrites ==
  ASSUME Algorithm # "Filter", NEW E, NEW S, NEW F, NEW g,
         GoodTables(E, S, F, g), GoodTokens(E, g), FlatTail(S \cup F, g.tokens),
         g.tokens # <<>>
  PROVE  Rewrites(E, S, F, g, FindLoop(g))
<1>1. Rewrites(E, S, F, g, g)
  BY SameGrammar DEF Rewrites, KeepsHead, GoodTables
<1>2. ASSUME \E n \in LoopLengths(g) : IsShortestLoop(g, n)
      PROVE  Rewrites(E, S, F, g, FindLoopBasic(g))
  <2> DEFINE n == CHOOSE i \in LoopLengths(g) : IsShortestLoop(g, i)
  <2>1. n \in LoopLengths(g) /\ IsShortestLoop(g, n)
    BY <1>2
  <2>2. FindLoopBasic(g) = RewriteLoop(g, n)
    BY <1>2 DEF FindLoopBasic
  <2> HIDE DEF n
  <2>3. n \in 1..(Len(g.tokens) - 1) /\ (Algorithm = "BasicTruncated" => n < MaxLoopLength)
    BY <2>1 DEF LoopLengths
  <2>4. n \in Int
    BY <2>3
  <2>5. Algorithm = "BasicTruncated" => n < MaxLoopLength
    BY <2>3, <2>4, MaxLoopLengthAssumption
  <2>6. CASE EndsWithIteration(g, n)
    BY <2>2, <2>3, <2>6, AbsorbRewrites DEF RewriteLoop
  <2>7. CASE ~EndsWithIteration(g, n)
    <3>1. EndsWithRepeat(g, n)
      BY <2>1, <2>7 DEF IsShortestLoop, EndsWithLoop
    <3> QED BY <2>2, <2>3, <2>5, <2>7, <3>1, FoldRewrites DEF RewriteLoop
  <2> QED BY <2>6, <2>7
<1>3. Rewrites(E, S, F, g, FindLoopBasic(g))
  <2>1. CASE \E n \in LoopLengths(g) : IsShortestLoop(g, n)
    BY <1>2, <2>1
  <2>2. CASE ~\E n \in LoopLengths(g) : IsShortestLoop(g, n)
    BY <1>1, <2>2 DEF FindLoopBasic
  <2> QED BY <2>1, <2>2
<1>4. FindLoop(g) = g \/ FindLoop(g) = FindLoopBasic(g)
  BY DEF FindLoop
<1> QED BY <1>1, <1>3, <1>4

\* The event that ends a block ends no loop: a loop holds whole calls.
LEMMA EndFindsNothing ==
  ASSUME Algorithm # "Filter", NEW E, NEW S, NEW F, S \cap F = {}, NEW g,
         GoodTables(E, S, F, g), GoodTokens(E, g),
         BlockIn(S, F, g.tokens), IsMark(F, g.tokens[Len(g.tokens)])
  PROVE  FindLoop(g) = g /\ ~Looping(g)
<1> DEFINE m == Len(g.tokens)
<1>1. g.tokens \in Seq(Token) /\ m \in Nat
  BY DEF GoodTables, Grammar
<1>2. \A k \in 1..m : IsMark(F, g.tokens[k]) => k = m
  BY <1>1 DEF BlockIn, IsMark
<1>3. ASSUME NEW n \in 1..(m - 1), EndsWithIteration(g, n)
      PROVE  FALSE
  <2> DEFINE front == g.tokens[m - n]
  <2>1. m - n \in 1..m /\ n \in 1..m
    BY <1>1
  <2>2. front.type = "Loop" /\ LastTokens(g.tokens, n) = BodyOf(g, front.id)
    BY <1>3 DEF EndsWithIteration
  <2>3. front.id \in 1..Len(g.loops)
    BY <2>1, <2>2, SMTT(30) DEF GoodTokens, Below
  <2>4. FlatIn(S \cup F, BodyOf(g, front.id))
    BY <2>3 DEF GoodTables, GoodLoops, BodyOf
  <2> HIDE DEF front
  <2>5. Len(LastTokens(g.tokens, n)) = n /\ LastTokens(g.tokens, n)[n] = g.tokens[m - n + n]
    BY <1>1, <2>1, LastTokensProps
  <2>6. n \in 1..n /\ m - n + n = m
    BY <1>1, <2>1
  <2>7. ~IsMark(S \cup F, g.tokens[m])
    BY <2>2, <2>4, <2>5, <2>6 DEF FlatIn
  <2> QED BY <2>7 DEF IsMark
<1>4. ASSUME NEW n \in 1..(m - 1), EndsWithRepeat(g, n)
      PROVE  FALSE
  <2> DEFINE x == m - 2 * n + 1
             y == m - n
  <2>1. n \in Nat \ {0} /\ 2 * n <= m
    BY <1>1, <1>4 DEF EndsWithRepeat
  <2> DEFINE before == m - 2 * n
  <2>2. before \in 0..m /\ n \in 1..m /\ n < m /\ m - n = before + n /\ m - n \in 1..m
    BY <1>1, <2>1, TwoBlocks
  <2>0. x = before + 1 /\ y = m - n
    OBVIOUS
  <2> HIDE DEF before, x, y
  <2>3. x \in Int /\ y \in Int /\ x >= 1 /\ y <= m /\ y - x + 1 = n /\ x + n - 1 = y /\ y \in 1..m /\ y # m
    BY <1>1, <2>0, <2>1, <2>2
  <2>4. LastTokens(g.tokens, n) = SubSeq(g.tokens, x, y)
    BY <1>4 DEF EndsWithRepeat, x, y
  <2>5. \A i \in x..y : g.tokens[i] \in Token
    BY <1>1, <2>3, ElementOfSeq
  <2>6. \A i \in 1..n : SubSeq(g.tokens, x, y)[i] = g.tokens[x + i - 1]
    BY <2>3, <2>5, SubSeqProperties
  <2>7. LastTokens(g.tokens, n)[n] = g.tokens[m]
    <3>1. LastTokens(g.tokens, n)[n] = g.tokens[m - n + n]
      BY <1>1, <2>2, LastTokensProps
    <3>2. m - n + n = m
      BY <1>1, <2>2
    <3> QED BY <3>1, <3>2
  <2>8. g.tokens[m] = g.tokens[y]
    <3>1. n \in 1..n /\ x + n - 1 = y
      BY <2>1, <2>3
    <3>2. SubSeq(g.tokens, x, y)[n] = g.tokens[y]
      BY <3>1, <2>6
    <3> QED BY <3>2, <2>4, <2>7
  <2> QED BY <1>2, <2>3, <2>8
<1>5. ~\E n \in LoopLengths(g) : IsShortestLoop(g, n)
  BY <1>3, <1>4 DEF LoopLengths, IsShortestLoop, EndsWithLoop
<1> QED BY <1>5 DEF FindLoop, FindLoopBasic, Looping

\* What holds of the tables does not depend on the frame they are seen with.
LEMMA SameTables ==
  ASSUME NEW E, NEW S, NEW F, NEW g, NEW h \in Grammar, GoodTables(E, S, F, g),
         h.sequences = g.sequences, h.loops = g.loops
  PROVE  GoodTables(E, S, F, h)
<1>1. \A token, n : Below(E, g, token, n) => Below(E, h, token, n)
  BY DEF Below
<1>2. GoodLoops(S \cup F, h)
  BY DEF GoodTables, GoodLoops
<1>3. GoodSequences(E, S, F, h)
  BY <1>1 DEF GoodTables, GoodSequences
<1>4. Distinct(h)
  BY DEF GoodTables, Distinct
<1> QED BY <1>2, <1>3, <1>4 DEF GoodTables

\* References stay below, and frames good, in tables that have grown.
LEMMA TokensStayBelow ==
  ASSUME NEW E, NEW g \in Grammar, NEW h \in Grammar, NEW f \in Grammar,
         GoodTokens(E, g), Grows(g, h),
         f.sequences = h.sequences, f.loops = h.loops, f.tokens = g.tokens
  PROVE  GoodTokens(E, f)
<1> SUFFICES ASSUME NEW k \in 1..Len(g.tokens)
             PROVE  Below(E, f, g.tokens[k], Len(h.sequences) + 1)
  BY DEF GoodTokens
<1>1. /\ g.sequences \in Seq(Seq(Token)) /\ g.loops \in Seq(Loop)
      /\ h.sequences \in Seq(Seq(Token)) /\ h.loops \in Seq(Loop)
      /\ g.tokens \in Seq(Token)
  BY DEF Grammar
<1>2. Below(E, g, g.tokens[k], Len(g.sequences) + 1) /\ g.tokens[k] \in Token
  BY <1>1, ElementOfSeq DEF GoodTokens
<1>3. /\ Len(g.sequences) + 1 \in Nat /\ Len(h.sequences) + 1 \in Nat
      /\ Len(g.sequences) + 1 <= Len(h.sequences) + 1
  BY <1>1 DEF Grows
<1>4. Below(E, h, g.tokens[k], Len(h.sequences) + 1)
  BY <1>1, <1>2, <1>3, BelowGrows
<1> QED BY <1>4 DEF Below

\* Pushing a token that refers below is good.
Pushed(g, token) == [g EXCEPT !.tokens = Append(@, token)]

\* The tables and the frame stay good when the token refers below.
LEMMA PushedProps ==
  ASSUME NEW E, NEW S, NEW F, NEW g, NEW token \in Token,
         GoodTables(E, S, F, g), GoodTokens(E, g), Below(E, g, token, Len(g.sequences) + 1)
  PROVE  /\ Pushed(g, token) \in Grammar
         /\ Pushed(g, token).sequences = g.sequences
         /\ Pushed(g, token).loops = g.loops
         /\ Pushed(g, token).tokens = Append(g.tokens, token)
         /\ GoodTables(E, S, F, Pushed(g, token))
         /\ GoodTokens(E, Pushed(g, token))
<1> DEFINE h == Pushed(g, token)
<1>1. g \in Grammar /\ g.tokens \in Seq(Token)
  BY DEF GoodTables, Grammar
<1>2. Append(g.tokens, token) \in Seq(Token)
  BY <1>1
<1>3. h = [g EXCEPT !.tokens = Append(g.tokens, token)]
  BY DEF Pushed
<1>4. /\ h \in Grammar /\ h.sequences = g.sequences /\ h.loops = g.loops
      /\ h.tokens = Append(g.tokens, token)
  BY <1>1, <1>2, <1>3 DEF Grammar
<1> HIDE DEF h
<1>5. GoodTables(E, S, F, h)
  BY <1>4, SameTables
<1>6. GoodTokens(E, h)
  <2>1. \A t, n : Below(E, g, t, n) => Below(E, h, t, n)
    BY <1>4 DEF Below
  <2>2. /\ Len(h.tokens) = Len(g.tokens) + 1 /\ Len(g.tokens) \in Nat
        /\ \A k \in 1..Len(g.tokens) : h.tokens[k] = g.tokens[k]
        /\ h.tokens[Len(g.tokens) + 1] = token
    BY <1>1, <1>4
  <2> QED BY <1>4, <2>1, <2>2 DEF GoodTokens
<1> QED BY <1>4, <1>5, <1>6 DEF h

\* storeToken on a frame of which only the first token may begin a block.
LEMMA StoreRewrites ==
  ASSUME Algorithm # "Filter", NEW E, NEW S, NEW F, NEW g, NEW token \in Token,
         GoodTables(E, S, F, g), GoodTokens(E, g), Below(E, g, token, Len(g.sequences) + 1),
         FlatTail(S \cup F, g.tokens),
         g.tokens # <<>> => ~IsMark(S \cup F, token)
  PROVE  /\ Rewrites(E, S, F, Pushed(g, token), StoreToken(g, token))
         /\ Grows(g, StoreToken(g, token))
<1>1. g \in Grammar /\ g.tokens \in Seq(Token)
  BY DEF GoodTables, Grammar
<1>0. /\ Pushed(g, token) \in Grammar
      /\ Pushed(g, token).sequences = g.sequences
      /\ Pushed(g, token).loops = g.loops
      /\ Pushed(g, token).tokens = Append(g.tokens, token)
      /\ GoodTables(E, S, F, Pushed(g, token))
      /\ GoodTokens(E, Pushed(g, token))
  BY PushedProps
<1> DEFINE h == Pushed(g, token)
<1> HIDE DEF h
<1>2. /\ h \in Grammar /\ h.sequences = g.sequences /\ h.loops = g.loops
      /\ h.tokens = Append(g.tokens, token)
      /\ GoodTables(E, S, F, h) /\ GoodTokens(E, h)
  BY <1>0 DEF h
<1>3. StoreToken(g, token) = FindLoop(h)
  BY DEF StoreToken, Pushed, h
<1>4. /\ h.tokens # <<>> /\ Len(h.tokens) = Len(g.tokens) + 1 /\ Len(g.tokens) \in Nat
      /\ \A k \in 1..Len(g.tokens) : h.tokens[k] = g.tokens[k]
      /\ h.tokens[Len(g.tokens) + 1] = token
  BY <1>1, <1>2, AppendProperties
<1>5. FlatTail(S \cup F, h.tokens)
  <2> SUFFICES ASSUME NEW k \in 2..Len(h.tokens)
               PROVE  ~IsMark(S \cup F, h.tokens[k])
    BY DEF FlatTail
  <2>1. CASE k \in 2..Len(g.tokens)
    <3>1. h.tokens[k] = g.tokens[k]
      BY <1>4, <2>1
    <3> QED BY <2>1, <3>1 DEF FlatTail
  <2>2. CASE k = Len(g.tokens) + 1
    <3>1. g.tokens # <<>>
      BY <1>4, <2>2
    <3> QED BY <1>4, <2>2, <3>1
  <2> QED BY <1>4, <2>1, <2>2
<1>6. Rewrites(E, S, F, h, FindLoop(h))
  BY <1>2, <1>4, <1>5, FindRewrites
<1>7. Grows(g, FindLoop(h))
  BY <1>2, <1>6 DEF Rewrites, Grows
<1> QED BY <1>3, <1>6, <1>7 DEF h

\* The token of a closed block refers below, once the block is in the table.
LEMMA CloseBlock ==
  ASSUME NEW E, NEW S, NEW F, NEW g, NEW upper \in Seq(Token),
         GoodTables(E, S, F, g), GoodTokens(E, g),
         FlatIn(S \cup F, g.tokens) \/ BlockIn(S, F, g.tokens),
         \A k \in 1..Len(upper) : Below(E, g, upper[k], Len(g.sequences) + 1)
  PROVE  LET sid == SequenceIdOf(g.sequences, g.tokens)
             h   == [g EXCEPT !.sequences = WithSequence(@, g.tokens), !.tokens = upper]
         IN  /\ GoodTables(E, S, F, h) /\ GoodTokens(E, h) /\ Grows(g, h)
             /\ h.tokens = upper /\ h.loops = g.loops
             /\ SequenceToken(sid) \in Token
             /\ Below(E, h, SequenceToken(sid), Len(h.sequences) + 1)
<1> DEFINE sid == SequenceIdOf(g.sequences, g.tokens)
           sq  == WithSequence(g.sequences, g.tokens)
           h   == [g EXCEPT !.sequences = WithSequence(@, g.tokens), !.tokens = upper]
<1>1. /\ g \in Grammar /\ g.sequences \in Seq(Seq(Token)) /\ g.loops \in Seq(Loop)
      /\ g.tokens \in Seq(Token)
  BY DEF GoodTables, Grammar
<1>2. h = [g EXCEPT !.sequences = sq, !.tokens = upper]
  OBVIOUS
<1> HIDE DEF sid, sq, h
<1>3. /\ sq \in Seq(Seq(Token))
      /\ sid \in 1..Len(sq)
      /\ sq[sid] = g.tokens
      /\ Len(g.sequences) <= Len(sq)
      /\ \A m \in 1..Len(g.sequences) : sq[m] = g.sequences[m]
      /\ \A m \in 1..Len(sq) : m \notin 1..Len(g.sequences) =>
           m = sid /\ m = Len(g.sequences) + 1 /\ ~IsKnown(g.sequences, g.tokens)
  BY <1>1, WithSequenceProps DEF sid, sq
<1>4. h \in Grammar /\ h.sequences = sq /\ h.loops = g.loops /\ h.tokens = upper
  BY <1>1, <1>2, <1>3 DEF Grammar
<1>5. Grows(g, h)
  <2>1. Grows(g, g)
    BY <1>1, SameGrammar
  <2> QED BY <1>3, <1>4, <2>1 DEF Grows
<1>6. GoodLoops(S \cup F, h)
  <2> SUFFICES ASSUME NEW l \in 1..Len(g.loops)
               PROVE  /\ g.loops[l].repeated_token.id \in 1..Len(sq)
                      /\ sq[g.loops[l].repeated_token.id] = g.sequences[g.loops[l].repeated_token.id]
    BY <1>4 DEF GoodTables, GoodLoops
  <2>1. g.loops[l].repeated_token.id \in 1..Len(g.sequences)
    BY DEF GoodTables, GoodLoops
  <2> DEFINE r == g.loops[l].repeated_token.id
  <2> HIDE DEF r
  <2>2. \A m \in 1..Len(g.sequences) : m \in 1..Len(sq)
    BY <1>1, <1>3
  <2>3. r \in 1..Len(sq) /\ sq[r] = g.sequences[r]
    BY <1>3, <2>1, <2>2 DEF r
  <2> QED BY <2>3 DEF r
<1>7. ASSUME NEW t \in Token, Below(E, g, t, Len(g.sequences) + 1), NEW n \in Nat,
             Len(g.sequences) + 1 <= n
      PROVE  Below(E, h, t, n)
  <2>1. Len(g.sequences) + 1 \in Nat /\ h.sequences \in Seq(Seq(Token)) /\ h.loops \in Seq(Loop)
    BY <1>1, <1>4 DEF Grammar
  <2> QED BY <1>1, <1>5, <1>7, <2>1, BelowGrows
<1>8. /\ Len(g.sequences) + 1 \in Nat /\ Len(sq) + 1 \in Nat
      /\ Len(g.sequences) + 1 <= Len(g.sequences) + 1
      /\ Len(g.sequences) + 1 <= Len(sq) + 1
  BY <1>1, <1>3
<1>9. GoodSequences(E, S, F, h)
  <2> SUFFICES ASSUME NEW m \in 1..Len(sq)
               PROVE  /\ \A k \in 1..Len(h.sequences[m]) : Below(E, h, h.sequences[m][k], m)
                      /\ FlatIn(S \cup F, h.sequences[m]) \/ BlockIn(S, F, h.sequences[m])
    BY <1>4 DEF GoodSequences
  <2>1. CASE m \in 1..Len(g.sequences)
    BY <1>1, <1>4, <1>5, <2>1, SequencesStayBelow DEF GoodTables
  <2>2. CASE m \notin 1..Len(g.sequences)
    <3>1. m = Len(g.sequences) + 1 /\ h.sequences[m] = g.tokens
      BY <1>3, <1>4, <2>2
    <3>2. \A k \in 1..Len(g.tokens) : g.tokens[k] \in Token /\ Below(E, g, g.tokens[k], Len(g.sequences) + 1)
      BY <1>1, ElementOfSeq DEF GoodTokens
    <3>3. \A k \in 1..Len(g.tokens) : Below(E, h, g.tokens[k], m)
      BY <1>7, <1>8, <3>1, <3>2
    <3> QED BY <3>1, <3>3
  <2> QED BY <2>1, <2>2
<1>10. Distinct(h)
  <2>1. ASSUME NEW i \in 1..Len(sq), NEW j \in 1..Len(sq), sq[i] = sq[j]
        PROVE  i = j
    <3>1. ASSUME NEW m \in 1..Len(g.sequences), sq[m] = g.tokens
          PROVE  IsKnown(g.sequences, g.tokens)
      <4>1. DOMAIN g.sequences = 1..Len(g.sequences)
        BY <1>1
      <4>2. g.sequences[m] = g.tokens
        BY <1>3, <3>1
      <4> QED BY <4>1, <4>2 DEF IsKnown
    <3> QED BY <1>3, <2>1, <3>1 DEF GoodTables, Distinct
  <2> QED BY <1>4, <2>1 DEF GoodTables, Distinct
<1>11. GoodTokens(E, h)
  <2>1. \A k \in 1..Len(upper) : upper[k] \in Token
    BY ElementOfSeq
  <2> QED BY <1>4, <1>7, <1>8, <2>1 DEF GoodTokens
<1>12. /\ SequenceToken(sid) \in Token
       /\ Below(E, h, SequenceToken(sid), Len(h.sequences) + 1)
  <2>1. sid \in Nat /\ sid < Len(sq) + 1
    BY <1>3, <1>8
  <2> QED BY <1>3, <1>4, <2>1 DEF SequenceToken, Token, TokenType, Below
<1> QED BY <1>4, <1>5, <1>6, <1>9, <1>10, <1>11, <1>12 DEF GoodTables, h, sid

\* A frame that begins a block.
HeadIn(S, F, tokens) ==
  tokens # <<>> /\ IsMark(S, tokens[1]) /\ FlatTail(S \cup F, tokens)

\* Storing a token that begins and ends no block keeps a flat frame flat, and
\* the frame of an open block that.
LEMMA ShapeKept ==
  ASSUME NEW S, NEW F, NEW g \in Grammar, NEW token \in Token, NEW h \in Grammar,
         NEW p, p.tokens = Append(g.tokens, token), KeepsHead(S \cup F, p, h),
         ~IsMark(S \cup F, token)
  PROVE  /\ FlatIn(S \cup F, g.tokens) => FlatIn(S \cup F, h.tokens)
         /\ HeadIn(S, F, g.tokens) => HeadIn(S, F, h.tokens)
<1>1. g.tokens \in Seq(Token) /\ h.tokens \in Seq(Token)
  BY DEF Grammar
<1>2. ASSUME g.tokens # <<>>
      PROVE  p.tokens[1] = g.tokens[1] /\ 1 \in 1..Len(g.tokens)
  BY <1>1, <1>2, AppendProperties
<1>3. ASSUME g.tokens = <<>>
      PROVE  p.tokens[1] = token
  BY <1>3
<1>4. h.tokens # <<>> /\ FlatTail(S \cup F, h.tokens)
  BY DEF KeepsHead
<1>5. \A k \in 1..Len(h.tokens) : k = 1 \/ k \in 2..Len(h.tokens)
  BY <1>1
<1>6. ~IsMark(S \cup F, p.tokens[1]) => ~IsMark(S \cup F, h.tokens[1])
  BY DEF KeepsHead
<1>7. ASSUME FlatIn(S \cup F, g.tokens)
      PROVE  FlatIn(S \cup F, h.tokens)
  <2>1. ~IsMark(S \cup F, p.tokens[1])
    BY <1>2, <1>3, <1>7 DEF FlatIn
  <2> QED BY <1>4, <1>5, <1>6, <2>1 DEF FlatIn, FlatTail
<1>8. ASSUME HeadIn(S, F, g.tokens)
      PROVE  HeadIn(S, F, h.tokens)
  <2>1. IsMark(S, p.tokens[1])
    BY <1>2, <1>8 DEF HeadIn
  <2>2. IsMark(S \cup F, p.tokens[1])
    BY <2>1 DEF IsMark
  <2>3. h.tokens[1] = p.tokens[1]
    BY <2>2 DEF KeepsHead
  <2> QED BY <1>4, <2>1, <2>3 DEF HeadIn
<1> QED BY <1>7, <1>8

\* What the lookup of a closed block adds to the sequences, and the rewrite of
\* the frame below to the loops, is a growth of both.
LEMMA GrowsThrough ==
  ASSUME NEW g \in Grammar, NEW m \in Grammar, NEW h \in Grammar,
         Grows(g, m), Grows(m, h), m.loops = g.loops
  PROVE  Grows(g, h)
<1>1. Len(g.sequences) \in Nat /\ Len(m.sequences) \in Nat /\ Len(h.sequences) \in Nat
  BY DEF Grammar
<1>2. Len(g.sequences) <= Len(h.sequences)
  BY <1>1 DEF Grows
<1>3. \A n \in 1..Len(g.sequences) : h.sequences[n] = g.sequences[n]
  <2>1. \A n \in 1..Len(g.sequences) : n \in 1..Len(m.sequences) /\ m.sequences[n] = g.sequences[n]
    BY <1>1 DEF Grows
  <2> QED BY <2>1 DEF Grows
<1>4. /\ Len(g.loops) <= Len(h.loops)
      /\ \A l \in 1..Len(g.loops) :
           /\ h.loops[l].repeated_token = g.loops[l].repeated_token
           /\ CountsGrow(g.loops[l].nb_iterations, h.loops[l].nb_iterations)
  BY DEF Grows
<1> QED BY <1>2, <1>3, <1>4 DEF Grows

\* The lookup of recordExitFunction and the store after it.
LEMMA ExitRewrites ==
  ASSUME Algorithm # "Filter", NEW E, NEW S, NEW F, NEW g, NEW upper \in Seq(Token),
         GoodTables(E, S, F, g), GoodTokens(E, g),
         FlatIn(S \cup F, g.tokens) \/ BlockIn(S, F, g.tokens),
         \A k \in 1..Len(upper) : Below(E, g, upper[k], Len(g.sequences) + 1),
         FlatTail(S \cup F, upper)
  PROVE  LET h == ExitInto(g, upper)
         IN  /\ GoodTables(E, S, F, h) /\ GoodTokens(E, h) /\ Grows(g, h)
             /\ FlatIn(S \cup F, upper) => FlatIn(S \cup F, h.tokens)
             /\ HeadIn(S, F, upper) => HeadIn(S, F, h.tokens)
<1> DEFINE sid   == SequenceIdOf(g.sequences, g.tokens)
           token == SequenceToken(sid)
           m     == [g EXCEPT !.sequences = WithSequence(@, g.tokens), !.tokens = upper]
           h     == ExitInto(g, upper)
<1>1. /\ GoodTables(E, S, F, m) /\ GoodTokens(E, m) /\ Grows(g, m)
      /\ m.tokens = upper /\ m.loops = g.loops
      /\ token \in Token
      /\ Below(E, m, token, Len(m.sequences) + 1)
  BY CloseBlock
<1>2. h = StoreToken(m, token)
  BY DEF ExitInto
<1>3. ~IsMark(S \cup F, token)
  BY DEF IsMark, SequenceToken
<1> HIDE DEF m, token, h, sid
<1>4. /\ Rewrites(E, S, F, Pushed(m, token), StoreToken(m, token))
      /\ Grows(m, StoreToken(m, token))
  BY <1>1, <1>3, StoreRewrites
<1>5. GoodTables(E, S, F, h) /\ GoodTokens(E, h) /\ KeepsHead(S \cup F, Pushed(m, token), h)
  BY <1>2, <1>4 DEF Rewrites
<1>6. g \in Grammar /\ m \in Grammar /\ h \in Grammar
  BY <1>1, <1>5 DEF GoodTables
<1>7. Grows(g, h)
  BY <1>1, <1>2, <1>4, <1>6, GrowsThrough
<1>8. Pushed(m, token).tokens = Append(m.tokens, token)
  BY <1>6 DEF Pushed, Grammar
<1>9. /\ FlatIn(S \cup F, m.tokens) => FlatIn(S \cup F, h.tokens)
      /\ HeadIn(S, F, m.tokens) => HeadIn(S, F, h.tokens)
  BY <1>1, <1>3, <1>5, <1>6, <1>8, ShapeKept
<1> QED BY <1>1, <1>5, <1>7, <1>9 DEF h

\* New events change nothing in the tables.
LEMMA MoreEvents ==
  ASSUME NEW E, NEW S, NEW F, NEW E2, NEW S2, NEW F2, NEW g,
         GoodTables(E, S, F, g), E \subseteq E2,
         \A i \in E : (i \in S2 <=> i \in S) /\ (i \in F2 <=> i \in F)
  PROVE  GoodTables(E2, S2, F2, g)
<1>1. ASSUME NEW token, NEW n, Below(E, g, token, n)
      PROVE  /\ Below(E2, g, token, n)
             /\ IsMark(S2, token) <=> IsMark(S, token)
             /\ IsMark(F2, token) <=> IsMark(F, token)
             /\ IsMark(S2 \cup F2, token) <=> IsMark(S \cup F, token)
  BY <1>1 DEF Below, IsMark
<1>2. \A n \in 1..Len(g.sequences) : \A k \in 1..Len(g.sequences[n]) :
        Below(E, g, g.sequences[n][k], n)
  BY DEF GoodTables, GoodSequences
<1>3. ASSUME NEW n \in 1..Len(g.sequences), FlatIn(S \cup F, g.sequences[n])
      PROVE  FlatIn(S2 \cup F2, g.sequences[n])
  BY <1>1, <1>2, <1>3 DEF FlatIn
<1>4. ASSUME NEW n \in 1..Len(g.sequences), BlockIn(S, F, g.sequences[n])
      PROVE  BlockIn(S2, F2, g.sequences[n])
  <2>1. g.sequences[n] \in Seq(Token)
    BY ElementOfSeq DEF GoodTables, Grammar
  <2>2. \A k \in 2..Len(g.sequences[n]) : k \in 1..Len(g.sequences[n])
    BY <2>1
  <2>3. g.sequences[n] # <<>> => 1 \in 1..Len(g.sequences[n])
    BY <2>1
  <2> QED BY <1>1, <1>2, <1>4, <2>2, <2>3 DEF BlockIn
<1>5. GoodSequences(E2, S2, F2, g)
  <2>1. \A n \in 1..Len(g.sequences) : FlatIn(S \cup F, g.sequences[n]) \/ BlockIn(S, F, g.sequences[n])
    BY DEF GoodTables, GoodSequences
  <2> QED BY <1>1, <1>2, <1>3, <1>4, <2>1 DEF GoodSequences
<1>6. GoodLoops(S2 \cup F2, g)
  BY <1>3 DEF GoodTables, GoodLoops
<1> QED BY <1>5, <1>6 DEF GoodTables

-----------------------------------------------------------------------------
(* The inductive invariant of the writer *)

Ids == 1..Len(events)
Starts == {i \in Ids : events[i].event \in BlockStart}
Ends == {i \in Ids : events[i].event \in BlockEnd}

GoodFrame(d) ==
  /\ GoodTables(Ids, Starts, Ends, GrammarAt(d))
  /\ GoodTokens(Ids, GrammarAt(d))

FrameShape(d) ==
  IF d = 0 THEN FlatIn(Starts \cup Ends, og_seq[d])
  ELSE IF d <= cur_depth THEN HeadIn(Starts, Ends, og_seq[d])
  ELSE og_seq[d] = <<>>

IInv == TypeOK /\ \A d \in Depths : GoodFrame(d) /\ FrameShape(d)

\* The event table after a step has every older event, unchanged but for its count.
EventsGrow ==
  /\ events' \in Seq(EventSummary)
  /\ Len(events) <= Len(events')
  /\ \A i \in Ids : events'[i].event = events[i].event

\* getEventId and the count after it.
LEMMA EventProps ==
  ASSUME TypeOK, NEW e \in Event
  PROVE  /\ WithEvent(e) \in Seq(EventSummary)
         /\ Len(events) <= Len(WithEvent(e))
         /\ \A i \in Ids : WithEvent(e)[i] = events[i]
         /\ EventIdOf(e) \in 1..Len(WithEvent(e))
         /\ WithEvent(e)[EventIdOf(e)].event = e
<1>1. events \in Seq(EventSummary)
  BY DEF TypeOK
<1>2. CASE IsSummarized(e)
  <2>1. EventIdOf(e) \in 1..Len(events) /\ events[EventIdOf(e)].event = e
    BY <1>1, <1>2 DEF IsSummarized, EventIdOf
  <2>2. WithEvent(e) = events
    BY <1>2 DEF WithEvent
  <2> QED BY <1>1, <2>1, <2>2 DEF Ids
<1>3. CASE ~IsSummarized(e)
  <2> DEFINE r == [event |-> e, nb_occurences |-> 0]
  <2>1. r \in EventSummary /\ r.event = e
    BY DEF EventSummary
  <2>2. WithEvent(e) = Append(events, r) /\ EventIdOf(e) = Len(events) + 1
    BY <1>3 DEF WithEvent, EventIdOf
  <2> HIDE DEF r
  <2>3. /\ Append(events, r) \in Seq(EventSummary)
        /\ Len(Append(events, r)) = Len(events) + 1 /\ Len(events) \in Nat
        /\ \A i \in 1..Len(events) : Append(events, r)[i] = events[i]
        /\ Append(events, r)[Len(events) + 1] = r
    BY <1>1, <2>1, AppendProperties
  <2> QED BY <2>1, <2>2, <2>3 DEF Ids
<1> QED BY <1>2, <1>3

\* The summary of an event is a table of events that has grown.
LEMMA SummarizeProps ==
  ASSUME TypeOK, NEW e \in Event, SummarizeEvent(e)
  PROVE  /\ EventsGrow
         /\ EventIdOf(e) \in Ids'
         /\ events'[EventIdOf(e)].event = e
<1> DEFINE table == WithEvent(e)
           id    == EventIdOf(e)
           r     == [table[id] EXCEPT !.nb_occurences = @ + 1]
<1>1. events' = [table EXCEPT ![id] = r]
  BY DEF SummarizeEvent, CountOccurrence
<1>2. /\ table \in Seq(EventSummary)
      /\ Len(events) <= Len(table)
      /\ \A i \in Ids : table[i] = events[i]
      /\ id \in 1..Len(table)
      /\ table[id].event = e
  BY EventProps
<1> HIDE DEF table, id
<1>3. table[id] \in EventSummary
  BY <1>2, ElementOfSeq
<1>4. r \in EventSummary /\ r.event = table[id].event
  BY <1>3 DEF EventSummary
<1> HIDE DEF r
<1>5. /\ events' \in Seq(EventSummary)
      /\ Len(events') = Len(table)
      /\ \A i \in 1..Len(table) : events'[i] = IF i = id THEN r ELSE table[i]
  BY <1>1, <1>2, <1>4, ExceptSeq
<1>6. \A i \in Ids : i \in 1..Len(table)
  BY <1>2 DEF Ids, TypeOK
<1>7. EventsGrow
  BY <1>2, <1>4, <1>5, <1>6 DEF EventsGrow
<1>8. id \in Ids' /\ events'[id].event = e
  BY <1>2, <1>4, <1>5 DEF Ids
<1> QED BY <1>7, <1>8 DEF id

\* Older ids mark what they marked.
LEMMA MarksKept ==
  ASSUME TypeOK, EventsGrow
  PROVE  /\ Ids \subseteq Ids'
         /\ \A i \in Ids : (i \in Starts' <=> i \in Starts) /\ (i \in Ends' <=> i \in Ends)
<1>1. Len(events) \in Nat /\ Len(events') \in Nat
  BY DEF TypeOK, EventsGrow
<1>2. Ids \subseteq Ids'
  BY <1>1 DEF Ids, EventsGrow
<1>3. \A i \in Ids : i \in Ids' /\ events'[i].event = events[i].event
  BY <1>2 DEF EventsGrow
<1> QED BY <1>2, <1>3 DEF Starts, Ends

\* An event begins a block, or ends one, or neither; no event does both.
LEMMA Kinds ==
  ASSUME TypeOK, NEW e \in Event, EventsGrow, EventIdOf(e) \in Ids',
         events'[EventIdOf(e)].event = e
  PROVE  LET token == EventToken(EventIdOf(e))
         IN  /\ token \in Token /\ token.type = "Event" /\ token.id \in Ids'
             /\ e \in BlockStart => IsMark(Starts', token)
             /\ e \in BlockEnd => IsMark(Ends', token) /\ ~IsMark(Starts', token)
             /\ e \in Singleton => ~IsMark(Starts' \cup Ends', token)
             /\ Starts' \cap Ends' = {}
<1> DEFINE id == EventIdOf(e)
<1>1. id \in Nat
  BY DEF Ids, EventsGrow
<1> HIDE DEF id
<1>2. /\ EventToken(id) \in Token /\ EventToken(id).type = "Event" /\ EventToken(id).id = id
  BY <1>1 DEF EventToken, Token, TokenType
<1>3. id \in Ids' /\ events'[id].event = e
  BY DEF id
<1>4. /\ e \in BlockStart => id \in Starts'
      /\ e \in BlockEnd => id \in Ends' /\ id \notin Starts'
      /\ e \in Singleton => id \notin Starts' /\ id \notin Ends'
  BY <1>3, EventAssumption DEF Starts, Ends
<1>5. Starts' \cap Ends' = {}
  BY EventAssumption DEF Starts, Ends
<1> QED BY <1>2, <1>3, <1>4, <1>5 DEF IsMark, id

\* The grammar seen from a frame, field by field.
LEMMA GrammarAtProps ==
  ASSUME TypeOK, NEW d \in Depths
  PROVE  /\ GrammarAt(d) \in Grammar
         /\ GrammarAt(d).sequences = sequences
         /\ GrammarAt(d).loops = loops
         /\ GrammarAt(d).tokens = og_seq[d]
         /\ og_seq[d] \in Seq(Token)
BY DEF TypeOK, GrammarAt, Grammar

\* Every frame of the new state is good when the rewritten one is.
LEMMA FramesStayGood ==
  ASSUME IInv, EventsGrow, NEW d \in Depths, NEW h,
         GoodTables(Ids', Starts', Ends', h), GoodTokens(Ids', h), Grows(GrammarAt(d), h),
         sequences' = h.sequences, loops' = h.loops,
         og_seq' \in [Depths -> Seq(Token)], og_seq'[d] = h.tokens,
         \A c \in Depths \ {d} : og_seq'[c] = og_seq[c] \/ og_seq'[c] = <<>>
  PROVE  \A c \in Depths : GoodFrame(c)'
<1> SUFFICES ASSUME NEW c \in Depths PROVE GoodFrame(c)'
  OBVIOUS
<1> DEFINE f == [sequences |-> sequences', loops |-> loops', tokens |-> og_seq'[c]]
<1>1. TypeOK /\ h \in Grammar
  BY DEF IInv, GoodTables
<1>2. GrammarAt(c)' = f
  BY DEF GrammarAt
<1>3. f \in Grammar /\ f.sequences = h.sequences /\ f.loops = h.loops /\ f.tokens = og_seq'[c]
  BY <1>1 DEF Grammar
<1> HIDE DEF f
<1>4. GoodTables(Ids', Starts', Ends', f)
  BY <1>3, SameTables
<1>5. GoodTokens(Ids', f)
  <2>1. CASE c = d
    BY <1>3, <2>1 DEF GoodTokens, Below
  <2>2. CASE og_seq'[c] = <<>>
    <3>1. Len(f.tokens) = 0
      BY <1>3, <2>2
    <3> QED BY <3>1 DEF GoodTokens
  <2>3. CASE c # d /\ og_seq'[c] = og_seq[c]
    <3> DEFINE g == GrammarAt(c)
               b == GrammarAt(d)
    <3>1. g \in Grammar /\ g.sequences = sequences /\ g.loops = loops /\ g.tokens = og_seq[c]
      BY <1>1, GrammarAtProps
    <3>2. b.sequences = sequences /\ b.loops = loops
      BY <1>1, GrammarAtProps
    <3>3. GoodTokens(Ids, g)
      BY DEF IInv, GoodFrame
    <3> HIDE DEF g
    <3>4. Grows(g, h)
      <4> HIDE DEF b
      <4>1. Grows(b, h)
        BY DEF b
      <4> QED BY <3>1, <3>2, <4>1 DEF Grows
    <3>5. GoodTokens(Ids', g)
      <4>1. Ids \subseteq Ids'
        BY <1>1, MarksKept
      <4> QED BY <3>3, <4>1 DEF GoodTokens, Below
    <3> QED BY <1>1, <1>3, <2>3, <3>1, <3>4, <3>5, TokensStayBelow
  <2> QED BY <2>1, <2>2, <2>3
<1> QED BY <1>2, <1>4, <1>5 DEF GoodFrame

\* The marks of a good frame are the same after new events.
LEMMA ShapesStay ==
  ASSUME IInv, EventsGrow, NEW d \in Depths
  PROVE  /\ FlatIn(Starts \cup Ends, og_seq[d]) => FlatIn(Starts' \cup Ends', og_seq[d])
         /\ HeadIn(Starts, Ends, og_seq[d]) => HeadIn(Starts', Ends', og_seq[d])
<1>1. TypeOK
  BY DEF IInv
<1>2. og_seq[d] \in Seq(Token) /\ GrammarAt(d).tokens = og_seq[d]
  BY <1>1, GrammarAtProps
<1>3. \A k \in 1..Len(og_seq[d]) : Below(Ids, GrammarAt(d), og_seq[d][k], Len(GrammarAt(d).sequences) + 1)
  BY <1>2 DEF IInv, GoodFrame, GoodTokens
<1>4. \A k \in 1..Len(og_seq[d]) : og_seq[d][k].type = "Event" => og_seq[d][k].id \in Ids
  BY <1>3 DEF Below
<1>5. \A i \in Ids : (i \in Starts' <=> i \in Starts) /\ (i \in Ends' <=> i \in Ends)
  BY <1>1, MarksKept
<1>6. \A k \in 1..Len(og_seq[d]) :
        /\ IsMark(Starts', og_seq[d][k]) <=> IsMark(Starts, og_seq[d][k])
        /\ IsMark(Starts' \cup Ends', og_seq[d][k]) <=> IsMark(Starts \cup Ends, og_seq[d][k])
  BY <1>4, <1>5 DEF IsMark
<1>7. og_seq[d] # <<>> => 1 \in 1..Len(og_seq[d])
  BY <1>2
<1>8. \A k \in 2..Len(og_seq[d]) : k \in 1..Len(og_seq[d])
  BY <1>2
<1> QED BY <1>6, <1>7, <1>8 DEF FlatIn, HeadIn, FlatTail

\* The tables seen from any frame are good for the new events as well.
LEMMA FramesGoodForNewEvents ==
  ASSUME IInv, EventsGrow, NEW d \in Depths
  PROVE  /\ GoodTables(Ids', Starts', Ends', GrammarAt(d))
         /\ GoodTokens(Ids', GrammarAt(d))
<1>1. TypeOK /\ GoodTables(Ids, Starts, Ends, GrammarAt(d)) /\ GoodTokens(Ids, GrammarAt(d))
  BY DEF IInv, GoodFrame
<1>2. /\ Ids \subseteq Ids'
      /\ \A i \in Ids : (i \in Starts' <=> i \in Starts) /\ (i \in Ends' <=> i \in Ends)
  BY <1>1, MarksKept
<1>3. GoodTokens(Ids', GrammarAt(d))
  BY <1>1, <1>2 DEF GoodTokens, Below
<1> QED BY <1>1, <1>2, <1>3, MoreEvents

-----------------------------------------------------------------------------
(* The calls *)

\* What the tables grow by is history kept.
LEMMA GrowthIsHistory ==
  ASSUME TypeOK, NEW d \in Depths, NEW h, Grows(GrammarAt(d), h),
         sequences' = h.sequences, loops' = h.loops
  PROVE  KeepsHistory
<1>1. GrammarAt(d).sequences = sequences /\ GrammarAt(d).loops = loops
  BY GrammarAtProps
<1>2. DOMAIN sequences = 1..Len(sequences) /\ DOMAIN loops = 1..Len(loops)
  BY DEF TypeOK
<1> DEFINE g == GrammarAt(d)
<1> HIDE DEF g
<1>3. /\ Len(sequences) <= Len(sequences')
      /\ \A n \in 1..Len(sequences) : sequences'[n] = sequences[n]
      /\ Len(loops) <= Len(loops')
      /\ \A l \in 1..Len(loops) :
           /\ loops'[l].repeated_token = loops[l].repeated_token
           /\ CountsGrow(loops[l].nb_iterations, loops'[l].nb_iterations)
  BY <1>1 DEF Grows
<1> QED BY <1>2, <1>3 DEF KeepsHistory, CountsGrow

\* A call that begins a block keeps the invariant and the history.
LEMMA BlockStartStep ==
  ASSUME Algorithm # "Filter", IInv, NEW e \in BlockStart, RecordBlockStart(e)
  PROVE  IInv' /\ KeepsHistory
<1> DEFINE d     == cur_depth + 1
           g     == GrammarAt(d)
           token == EventToken(EventIdOf(e))
           h     == StoreToken(g, token)
<1>1. TypeOK /\ e \in Event
  BY DEF IInv, Event
<1>2. d \in Depths /\ d # 0 /\ cur_depth \in Nat /\ cur_depth' = d /\ ~(d <= cur_depth)
  <2>1. /\ cur_depth \in 0..MaxDepth /\ cur_depth + 1 < MaxDepth
        /\ cur_depth' = cur_depth + 1 /\ d = cur_depth + 1
    BY <1>1 DEF RecordBlockStart, TypeOK
  <2> HIDE DEF d, g, token, h
  <2> QED BY <2>1, MaxDepthAssumption DEF Depths
<1>3. /\ EventsGrow /\ EventIdOf(e) \in Ids' /\ events'[EventIdOf(e)].event = e
  BY <1>1, SummarizeProps DEF RecordBlockStart
<1>4. token \in Token /\ token.type = "Event" /\ token.id \in Ids' /\ IsMark(Starts', token)
  BY <1>1, <1>3, Kinds
<1>5. sequences' = h.sequences /\ loops' = h.loops /\ og_seq' = [og_seq EXCEPT ![d] = h.tokens]
  BY DEF RecordBlockStart, SetFrame
<1> HIDE DEF d, token
<1>6. /\ g \in Grammar /\ g.tokens = og_seq[d]
      /\ GoodTables(Ids', Starts', Ends', g) /\ GoodTokens(Ids', g)
  BY <1>1, <1>2, <1>3, GrammarAtProps, FramesGoodForNewEvents
<1> HIDE DEF g
<1>7. g.tokens = <<>>
  BY <1>2, <1>6 DEF IInv, FrameShape
<1>8. FlatTail(Starts' \cup Ends', g.tokens)
  BY <1>7 DEF FlatTail
<1>9. Below(Ids', g, token, Len(g.sequences) + 1)
  BY <1>4 DEF Below
<1>10. Rewrites(Ids', Starts', Ends', Pushed(g, token), h) /\ Grows(g, h)
  BY <1>4, <1>6, <1>7, <1>8, <1>9, StoreRewrites
<1> HIDE DEF h
<1>11. /\ GoodTables(Ids', Starts', Ends', h) /\ GoodTokens(Ids', h) /\ h \in Grammar
       /\ KeepsHead(Starts' \cup Ends', Pushed(g, token), h)
  BY <1>10 DEF Rewrites, GoodTables
<1>12. h.tokens \in Seq(Token) /\ h.sequences \in Seq(Seq(Token)) /\ h.loops \in Seq(Loop)
  BY <1>11 DEF Grammar
<1>13. /\ og_seq' \in [Depths -> Seq(Token)] /\ og_seq'[d] = h.tokens
       /\ \A c \in Depths \ {d} : og_seq'[c] = og_seq[c]
  BY <1>1, <1>2, <1>5, <1>12 DEF TypeOK
<1>14. TypeOK'
  <2>1. status' = "open"
    BY DEF RecordBlockStart
  <2>2. cur_depth' \in Depths /\ cur_depth' \in 0..MaxDepth
    BY <1>2, MaxDepthAssumption DEF Depths
  <2>3. events' \in Seq(EventSummary)
    BY <1>3 DEF EventsGrow
  <2> QED BY <1>5, <1>12, <1>13, <2>1, <2>2, <2>3 DEF TypeOK, Depths
<1>15. \A c \in Depths : GoodFrame(c)'
  BY <1>2, <1>3, <1>5, <1>10, <1>11, <1>13, FramesStayGood DEF g
<1>16. HeadIn(Starts', Ends', h.tokens)
  <2>1. Pushed(g, token).tokens = Append(g.tokens, token)
    BY <1>6 DEF Pushed, Grammar
  <2>2. Pushed(g, token).tokens[1] = token
    BY <1>7, <2>1
  <2>3. IsMark(Starts' \cup Ends', token)
    BY <1>4 DEF IsMark
  <2> QED BY <1>4, <1>11, <2>2, <2>3 DEF KeepsHead, HeadIn
<1>17. ASSUME NEW c \in Depths
       PROVE  FrameShape(c)'
  <2>1. CASE c = d
    <3>1. c # 0 /\ c <= cur_depth'
      BY <1>2, <2>1, MaxDepthAssumption DEF Depths
    <3>2. HeadIn(Starts', Ends', og_seq'[c])
      BY <1>13, <1>16, <2>1
    <3> QED BY <3>1, <3>2 DEF FrameShape
  <2>2. CASE c # d
    <3>1. og_seq'[c] = og_seq[c] /\ FrameShape(c)
      BY <1>13, <2>2 DEF IInv
    <3>2. c <= cur_depth' <=> c <= cur_depth
      BY <1>2, <2>2 DEF Depths, d
    <3> QED BY <1>3, <3>1, <3>2, ShapesStay DEF FrameShape
  <2> QED BY <2>1, <2>2
<1>18. KeepsHistory
  BY <1>1, <1>2, <1>5, <1>10, GrowthIsHistory DEF g
<1> QED BY <1>14, <1>15, <1>17, <1>18 DEF IInv, Depths

\* A call that records an event on its own keeps the invariant and the history.
LEMMA SingletonStep ==
  ASSUME Algorithm # "Filter", IInv, NEW e \in Singleton, RecordSingleton(e)
  PROVE  IInv' /\ KeepsHistory
<1> DEFINE d     == cur_depth
           g     == GrammarAt(d)
           token == EventToken(EventIdOf(e))
           h     == StoreToken(g, token)
<1>1. TypeOK /\ e \in Event
  BY DEF IInv, Event
<1>2. d \in Depths /\ cur_depth' = d
  BY <1>1 DEF RecordSingleton, TypeOK
<1>3. /\ EventsGrow /\ EventIdOf(e) \in Ids' /\ events'[EventIdOf(e)].event = e
  BY <1>1, SummarizeProps DEF RecordSingleton
<1>4. /\ token \in Token /\ token.type = "Event" /\ token.id \in Ids'
      /\ ~IsMark(Starts' \cup Ends', token)
  BY <1>1, <1>3, Kinds
<1>5. sequences' = h.sequences /\ loops' = h.loops /\ og_seq' = [og_seq EXCEPT ![d] = h.tokens]
  BY DEF RecordSingleton, SetFrame
<1> HIDE DEF d, token
<1>6. /\ g \in Grammar /\ g.tokens = og_seq[d]
      /\ GoodTables(Ids', Starts', Ends', g) /\ GoodTokens(Ids', g)
  BY <1>1, <1>2, <1>3, GrammarAtProps, FramesGoodForNewEvents
<1> HIDE DEF g
<1>7. \/ d = 0 /\ FlatIn(Starts' \cup Ends', g.tokens)
      \/ d # 0 /\ HeadIn(Starts', Ends', g.tokens)
  <2>1. FrameShape(d) /\ d <= cur_depth
    BY <1>1, <1>2 DEF IInv, d, Depths
  <2> QED BY <1>2, <1>3, <1>6, <2>1, ShapesStay DEF FrameShape
<1>8. FlatTail(Starts' \cup Ends', g.tokens)
  <2>1. \A k \in 2..Len(g.tokens) : k \in 1..Len(g.tokens)
    BY <1>6 DEF Grammar
  <2> QED BY <1>7, <2>1 DEF FlatTail, HeadIn, FlatIn
<1>9. Below(Ids', g, token, Len(g.sequences) + 1)
  BY <1>4 DEF Below
<1>10. Rewrites(Ids', Starts', Ends', Pushed(g, token), h) /\ Grows(g, h)
  BY <1>4, <1>6, <1>8, <1>9, StoreRewrites
<1> HIDE DEF h
<1>11. /\ GoodTables(Ids', Starts', Ends', h) /\ GoodTokens(Ids', h) /\ h \in Grammar
       /\ KeepsHead(Starts' \cup Ends', Pushed(g, token), h)
  BY <1>10 DEF Rewrites, GoodTables
<1>12. h.tokens \in Seq(Token) /\ h.sequences \in Seq(Seq(Token)) /\ h.loops \in Seq(Loop)
  BY <1>11 DEF Grammar
<1>13. /\ og_seq' \in [Depths -> Seq(Token)] /\ og_seq'[d] = h.tokens
       /\ \A c \in Depths \ {d} : og_seq'[c] = og_seq[c]
  BY <1>1, <1>2, <1>5, <1>12 DEF TypeOK
<1>14. TypeOK'
  <2>1. status' = "open"
    BY DEF RecordSingleton
  <2>2. cur_depth' \in Depths /\ cur_depth' \in 0..MaxDepth
    BY <1>2, MaxDepthAssumption DEF Depths
  <2>3. events' \in Seq(EventSummary)
    BY <1>3 DEF EventsGrow
  <2> QED BY <1>5, <1>12, <1>13, <2>1, <2>2, <2>3 DEF TypeOK, Depths
<1>15. \A c \in Depths : GoodFrame(c)'
  BY <1>2, <1>3, <1>5, <1>10, <1>11, <1>13, FramesStayGood DEF g
<1>16. /\ FlatIn(Starts' \cup Ends', g.tokens) => FlatIn(Starts' \cup Ends', h.tokens)
       /\ HeadIn(Starts', Ends', g.tokens) => HeadIn(Starts', Ends', h.tokens)
  <2>1. Pushed(g, token).tokens = Append(g.tokens, token)
    BY <1>6 DEF Pushed, Grammar
  <2> QED BY <1>4, <1>6, <1>11, <2>1, ShapeKept
<1>17. ASSUME NEW c \in Depths
       PROVE  FrameShape(c)'
  <2>1. CASE c = d
    <3>1. c <= cur_depth'
      BY <1>2, <2>1 DEF Depths
    <3> QED BY <1>7, <1>13, <1>16, <2>1, <3>1 DEF FrameShape
  <2>2. CASE c # d
    <3>1. og_seq'[c] = og_seq[c] /\ FrameShape(c)
      BY <1>13, <2>2 DEF IInv
    <3>2. cur_depth' = cur_depth
      BY <1>2 DEF d
    <3> QED BY <1>3, <3>1, <3>2, ShapesStay DEF FrameShape
  <2> QED BY <2>1, <2>2
<1>18. KeepsHistory
  BY <1>1, <1>2, <1>5, <1>10, GrowthIsHistory DEF g
<1> QED BY <1>14, <1>15, <1>17, <1>18 DEF IInv, Depths

\* recordExitFunction on the innermost frame, when its tokens, with or without
\* the event that ends the block, are those of b.
LEMMA ExitStep ==
  ASSUME Algorithm # "Filter", IInv, EventsGrow, cur_depth \in Depths, cur_depth > 0, NEW b,
         GoodTables(Ids', Starts', Ends', b), GoodTokens(Ids', b),
         b.sequences = sequences, b.loops = loops,
         BlockIn(Starts', Ends', b.tokens), RecordExitFunction(cur_depth, b),
         status' \in {"open", "closing"}
  PROVE  IInv' /\ KeepsHistory
<1> DEFINE d == cur_depth - 1
           upper == og_seq[d]
           g     == GrammarAt(d)
           h     == ExitInto(b, upper)
<1>1. TypeOK
  BY DEF IInv
<1>2. d \in Depths /\ cur_depth # d /\ d < cur_depth /\ d \in Nat /\ cur_depth \in Nat
  <2>1. d = cur_depth - 1
    OBVIOUS
  <2> HIDE DEF d, upper, g, h
  <2> QED BY <2>1, MaxDepthAssumption DEF Depths
<1>3. /\ sequences' = h.sequences /\ loops' = h.loops /\ cur_depth' = d
      /\ og_seq' = [og_seq EXCEPT ![d] = h.tokens, ![cur_depth] = <<>>]
  BY DEF RecordExitFunction
<1>4. \A c \in Depths : c <= d <=> (c <= cur_depth /\ c # cur_depth)
  <2>1. d = cur_depth - 1
    OBVIOUS
  <2> HIDE DEF d, upper, g, h
  <2> QED BY <1>2, <2>1 DEF Depths
<1> HIDE DEF d
<1>5. /\ g \in Grammar /\ g.sequences = sequences /\ g.loops = loops /\ g.tokens = upper
      /\ upper \in Seq(Token)
      /\ GoodTokens(Ids', g)
  BY <1>1, <1>2, GrammarAtProps, FramesGoodForNewEvents
<1> HIDE DEF g
<1>6. \A k \in 1..Len(upper) : Below(Ids', b, upper[k], Len(b.sequences) + 1)
  BY <1>5 DEF GoodTokens, Below
<1>7. \/ d = 0 /\ FlatIn(Starts' \cup Ends', upper)
      \/ d # 0 /\ HeadIn(Starts', Ends', upper)
  <2>1. FrameShape(d) /\ d <= cur_depth
    BY <1>2 DEF IInv
  <2> QED BY <1>2, <2>1, ShapesStay DEF FrameShape
<1>8. FlatTail(Starts' \cup Ends', upper)
  <2>1. \A k \in 2..Len(upper) : k \in 1..Len(upper)
    BY <1>5
  <2> QED BY <1>7, <2>1 DEF FlatTail, HeadIn, FlatIn
<1> HIDE DEF upper
<1>9. /\ GoodTables(Ids', Starts', Ends', h) /\ GoodTokens(Ids', h) /\ Grows(b, h)
      /\ FlatIn(Starts' \cup Ends', upper) => FlatIn(Starts' \cup Ends', h.tokens)
      /\ HeadIn(Starts', Ends', upper) => HeadIn(Starts', Ends', h.tokens)
  BY <1>5, <1>6, <1>8, ExitRewrites
<1> HIDE DEF h
<1>10. Grows(g, h)
  BY <1>5, <1>9 DEF Grows
<1>11. h.tokens \in Seq(Token) /\ h.sequences \in Seq(Seq(Token)) /\ h.loops \in Seq(Loop)
  BY <1>9 DEF GoodTables, Grammar
<1>12. /\ og_seq' \in [Depths -> Seq(Token)] /\ og_seq'[d] = h.tokens
       /\ og_seq'[cur_depth] = <<>>
       /\ \A c \in Depths \ {d} : c # cur_depth => og_seq'[c] = og_seq[c]
  <2> DEFINE once == [og_seq EXCEPT ![d] = h.tokens]
  <2>1. og_seq' = [once EXCEPT ![cur_depth] = <<>>]
    BY <1>3
  <2>2. /\ once \in [Depths -> Seq(Token)] /\ once[d] = h.tokens
        /\ \A c \in Depths \ {d} : once[c] = og_seq[c]
    BY <1>1, <1>2, <1>11 DEF TypeOK
  <2> HIDE DEF once
  <2>3. <<>> \in Seq(Token)
    OBVIOUS
  <2> QED BY <1>2, <2>1, <2>2, <2>3
<1>13. TypeOK'
  <2>1. cur_depth' \in Depths /\ cur_depth' \in 0..MaxDepth
    BY <1>2, <1>3, MaxDepthAssumption DEF Depths
  <2>2. events' \in Seq(EventSummary)
    BY DEF EventsGrow
  <2> QED BY <1>3, <1>11, <1>12, <2>1, <2>2 DEF TypeOK, Depths
<1>14. \A c \in Depths : GoodFrame(c)'
  <2>1. \A c \in Depths \ {d} : og_seq'[c] = og_seq[c] \/ og_seq'[c] = <<>>
    BY <1>12
  <2> QED BY <1>2, <1>3, <1>9, <1>10, <1>12, <2>1, FramesStayGood DEF g
<1>15. ASSUME NEW c \in Depths
       PROVE  FrameShape(c)'
  <2>1. CASE c = d
    <3>1. c <= cur_depth'
      BY <1>2, <1>3, <2>1
    <3> QED BY <1>7, <1>9, <1>12, <2>1, <3>1 DEF FrameShape
  <2>2. CASE c = cur_depth
    <3>1. ~(c <= cur_depth') /\ c # 0
      BY <1>2, <1>3, <2>2
    <3> QED BY <1>12, <2>2, <3>1 DEF FrameShape
  <2>3. CASE c # d /\ c # cur_depth
    <3>1. og_seq'[c] = og_seq[c] /\ FrameShape(c)
      BY <1>12, <2>3 DEF IInv
    <3>2. c <= cur_depth' <=> c <= cur_depth
      BY <1>3, <1>4, <2>3
    <3> QED BY <3>1, <3>2, ShapesStay DEF FrameShape
  <2> QED BY <2>1, <2>2, <2>3
<1>16. KeepsHistory
  BY <1>1, <1>2, <1>3, <1>10, GrowthIsHistory DEF g
<1> QED BY <1>13, <1>14, <1>15, <1>16 DEF IInv, Depths

\* A call that ends a block keeps the invariant and the history.
LEMMA BlockEndStep ==
  ASSUME Algorithm # "Filter", IInv, NEW e \in BlockEnd, RecordBlockEnd(e)
  PROVE  IInv' /\ KeepsHistory
<1> DEFINE d     == cur_depth
           g     == GrammarAt(d)
           token == EventToken(EventIdOf(e))
           p     == Pushed(g, token)
<1>1. TypeOK /\ e \in Event
  BY DEF IInv, Event
<1>2. d \in Depths /\ d > 0 /\ d # 0 /\ d <= cur_depth /\ status' \in {"open", "closing"}
  BY <1>1 DEF RecordBlockEnd, TypeOK, Depths
<1>3. /\ EventsGrow /\ EventIdOf(e) \in Ids' /\ events'[EventIdOf(e)].event = e
  BY <1>1, SummarizeProps DEF RecordBlockEnd
<1>4. /\ token \in Token /\ token.type = "Event" /\ token.id \in Ids'
      /\ IsMark(Ends', token) /\ ~IsMark(Starts', token)
      /\ Starts' \cap Ends' = {}
  BY <1>1, <1>3, Kinds
<1>5. RecordExitFunction(d, StoreToken(g, token))
  BY DEF RecordBlockEnd
<1>6. StoreToken(g, token) = FindLoop(p)
  BY DEF StoreToken, Pushed
<1> HIDE DEF token, d
<1>7. /\ g \in Grammar /\ g.tokens = og_seq[d] /\ g.sequences = sequences /\ g.loops = loops
      /\ GoodTables(Ids', Starts', Ends', g) /\ GoodTokens(Ids', g)
  BY <1>1, <1>2, <1>3, GrammarAtProps, FramesGoodForNewEvents
<1> HIDE DEF g
<1>8. HeadIn(Starts', Ends', g.tokens)
  <2>1. FrameShape(d)
    BY <1>2 DEF IInv
  <2> QED BY <1>2, <1>3, <1>7, <2>1, ShapesStay DEF FrameShape
<1>9. Below(Ids', g, token, Len(g.sequences) + 1)
  BY <1>4 DEF Below
<1>10. /\ p.sequences = g.sequences
       /\ p.loops = g.loops
       /\ p.tokens = Append(g.tokens, token)
       /\ GoodTables(Ids', Starts', Ends', p)
       /\ GoodTokens(Ids', p)
  <2>1. /\ Pushed(g, token) \in Grammar
        /\ Pushed(g, token).sequences = g.sequences
        /\ Pushed(g, token).loops = g.loops
        /\ Pushed(g, token).tokens = Append(g.tokens, token)
        /\ GoodTables(Ids', Starts', Ends', Pushed(g, token))
        /\ GoodTokens(Ids', Pushed(g, token))
    BY <1>4, <1>7, <1>9, PushedProps
  <2> QED BY <2>1
<1> HIDE DEF p
<1>11. /\ Len(p.tokens) = Len(g.tokens) + 1 /\ Len(g.tokens) \in Nat
       /\ \A k \in 1..Len(g.tokens) : p.tokens[k] = g.tokens[k]
       /\ p.tokens[Len(g.tokens) + 1] = token
       /\ p.tokens # <<>> /\ g.tokens # <<>> /\ 1 \in 1..Len(g.tokens)
  <2>1. g.tokens \in Seq(Token) /\ g.tokens # <<>>
    BY <1>7, <1>8 DEF Grammar, HeadIn
  <2> QED BY <1>4, <1>10, <2>1, AppendProperties
<1>12. BlockIn(Starts', Ends', p.tokens)
  <2>1. IsMark(Starts', p.tokens[1])
    BY <1>8, <1>11 DEF HeadIn
  <2>2. ASSUME NEW k \in 2..Len(p.tokens)
        PROVE  ~IsMark(Starts', p.tokens[k]) /\ (IsMark(Ends', p.tokens[k]) => k = Len(p.tokens))
    <3>1. CASE k \in 2..Len(g.tokens)
      <4>1. p.tokens[k] = g.tokens[k]
        BY <1>11, <3>1
      <4>2. ~IsMark(Starts' \cup Ends', g.tokens[k])
        BY <1>8, <3>1 DEF HeadIn, FlatTail
      <4> QED BY <4>1, <4>2 DEF IsMark
    <3>2. CASE k = Len(g.tokens) + 1
      BY <1>4, <1>11, <3>2
    <3> QED BY <1>11, <3>1, <3>2
  <2> QED BY <1>11, <2>1, <2>2 DEF BlockIn
<1>13. IsMark(Ends', p.tokens[Len(p.tokens)])
  BY <1>4, <1>11
<1>14. FindLoop(p) = p
  BY <1>4, <1>10, <1>12, <1>13, EndFindsNothing
<1>15. RecordExitFunction(d, p)
  BY <1>5, <1>6, <1>14
<1> QED BY <1>2, <1>3, <1>7, <1>10, <1>12, <1>15, ExitStep DEF d

\* A turn of the loop of threadClose keeps the invariant and the history.
LEMMA UnfinishedStep ==
  ASSUME Algorithm # "Filter", IInv, CloseUnfinished
  PROVE  IInv' /\ KeepsHistory
<1> DEFINE d == cur_depth
           g == GrammarAt(d)
<1>1. TypeOK
  BY DEF IInv
<1>2. /\ d \in Depths /\ d > 0 /\ d # 0 /\ d <= cur_depth /\ status' \in {"open", "closing"}
      /\ events' = events
  BY <1>1 DEF CloseUnfinished, TypeOK, Depths
<1>3. RecordExitFunction(d, g)
  BY DEF CloseUnfinished
<1>4. EventsGrow
  BY <1>1, <1>2 DEF EventsGrow, TypeOK
<1> HIDE DEF d
<1>5. /\ g \in Grammar /\ g.tokens = og_seq[d] /\ g.sequences = sequences /\ g.loops = loops
      /\ GoodTables(Ids', Starts', Ends', g) /\ GoodTokens(Ids', g)
  BY <1>1, <1>2, <1>4, GrammarAtProps, FramesGoodForNewEvents
<1> HIDE DEF g
<1>6. HeadIn(Starts', Ends', g.tokens)
  <2>1. FrameShape(d)
    BY <1>2 DEF IInv
  <2> QED BY <1>2, <1>4, <1>5, <2>1, ShapesStay DEF FrameShape
<1>7. BlockIn(Starts', Ends', g.tokens)
  <2>1. \A k \in 2..Len(g.tokens) : ~IsMark(Starts', g.tokens[k]) /\ ~IsMark(Ends', g.tokens[k])
    BY <1>6 DEF HeadIn, FlatTail, IsMark
  <2> QED BY <1>6, <2>1 DEF HeadIn, BlockIn
<1> QED BY <1>2, <1>3, <1>4, <1>5, <1>7, ExitStep DEF d

\* A step that leaves the tables and the frames, and may add an event no frame
\* refers to yet.
LEMMA QuietStep ==
  ASSUME IInv, EventsGrow, UNCHANGED <<sequences, loops, og_seq>>, TypeOK',
         \A d \in Depths : d <= cur_depth' <=> d <= cur_depth
  PROVE  IInv' /\ KeepsHistory
<1>1. TypeOK
  BY DEF IInv
<1>2. \A d \in Depths : GrammarAt(d)' = GrammarAt(d)
  BY DEF GrammarAt
<1>3. ASSUME NEW d \in Depths
      PROVE  GoodFrame(d)' /\ FrameShape(d)'
  <2>1. GoodFrame(d)'
    BY <1>2, FramesGoodForNewEvents DEF GoodFrame
  <2>2. og_seq'[d] = og_seq[d] /\ FrameShape(d) /\ (d <= cur_depth' <=> d <= cur_depth)
    BY DEF IInv
  <2>3. FrameShape(d)'
    BY <2>2, ShapesStay DEF FrameShape
  <2> QED BY <2>1, <2>3
<1>4. KeepsHistory
  <2>1. 0 \in Depths
    BY MaxDepthAssumption DEF Depths
  <2>2. GrammarAt(0) \in Grammar /\ GrammarAt(0).sequences = sequences /\ GrammarAt(0).loops = loops
    BY <1>1, <2>1, GrammarAtProps
  <2>3. Grows(GrammarAt(0), GrammarAt(0))
    BY <2>2, SameGrammar
  <2> QED BY <1>1, <2>1, <2>2, <2>3, GrowthIsHistory
<1> QED BY <1>3, <1>4 DEF IInv, Depths

\* A writer just opened satisfies the invariant.
LEMMA InitInvariant == Init => IInv
<1> SUFFICES ASSUME Init PROVE IInv
  OBVIOUS
<1>1. TypeOK
  <2>1. \A d \in Depths : og_seq[d] = <<>>
    BY DEF Init
  <2>2. /\ <<>> \in Seq(Token) /\ <<>> \in Seq(Seq(Token)) /\ <<>> \in Seq(Loop)
        /\ <<>> \in Seq(EventSummary)
    OBVIOUS
  <2>3. 0 \in Depths /\ 0 \in 0..MaxDepth
    BY MaxDepthAssumption DEF Depths
  <2> QED BY <2>2, <2>3 DEF Init, TypeOK
<1>2. ASSUME NEW d \in Depths
      PROVE  GoodFrame(d) /\ FrameShape(d)
  <2>1. /\ GrammarAt(d) \in Grammar /\ GrammarAt(d).sequences = <<>>
        /\ GrammarAt(d).loops = <<>> /\ GrammarAt(d).tokens = <<>> /\ og_seq[d] = <<>>
    BY <1>1, GrammarAtProps DEF Init
  <2>2. Len(<<>>) = 0 /\ 1..0 = {}
    OBVIOUS
  <2>3. GoodFrame(d)
    BY <2>1, <2>2 DEF GoodFrame, GoodTables, GoodTokens, GoodLoops, GoodSequences, Distinct
  <2>4. FrameShape(d)
    <3>1. d > 0 => ~(d <= cur_depth)
      BY DEF Init, Depths
    <3>2. d = 0 \/ d > 0
      BY DEF Depths
    <3> QED BY <2>1, <2>2, <3>1, <3>2 DEF FrameShape, FlatIn
  <2> QED BY <2>3, <2>4
<1> QED BY <1>1, <1>2 DEF IInv

\* Every call keeps the invariant and the history.
LEMMA NextKeeps ==
  ASSUME Algorithm # "Filter", IInv, [Next]_vars
  PROVE  IInv' /\ KeepsHistory
<1>1. TypeOK
  BY DEF IInv
<1>2. ASSUME NEW e \in BlockStart, RecordBlockStart(e)
      PROVE  IInv' /\ KeepsHistory
  BY <1>2, BlockStartStep
<1>3. ASSUME NEW e \in BlockStart, RecordBlockStartTooDeep(e)
      PROVE  IInv' /\ KeepsHistory
  <2>1. e \in Event
    BY DEF Event
  <2>2. EventsGrow
    BY <1>1, <1>3, <2>1, EventProps DEF RecordBlockStartTooDeep, EventsGrow
  <2>3. /\ cur_depth \in Depths /\ cur_depth + 1 >= MaxDepth /\ cur_depth' = cur_depth + 1
        /\ status' = "aborted" /\ UNCHANGED <<sequences, loops, og_seq>>
    BY <1>1, <1>3 DEF RecordBlockStartTooDeep, TypeOK
  <2>4. cur_depth' \in 0..MaxDepth /\ \A d \in Depths : d <= cur_depth' <=> d <= cur_depth
    BY <2>3, MaxDepthAssumption DEF Depths
  <2>5. TypeOK'
    BY <1>1, <2>2, <2>3, <2>4 DEF TypeOK, EventsGrow, Depths
  <2> QED BY <2>2, <2>3, <2>4, <2>5, QuietStep
<1>4. ASSUME NEW e \in Singleton, RecordSingleton(e)
      PROVE  IInv' /\ KeepsHistory
  BY <1>4, SingletonStep
<1>5. ASSUME NEW e \in BlockEnd, RecordBlockEnd(e)
      PROVE  IInv' /\ KeepsHistory
  BY <1>5, BlockEndStep
<1>6. ASSUME CloseUnfinished
      PROVE  IInv' /\ KeepsHistory
  BY <1>6, UnfinishedStep
<1>7. ASSUME ThreadClose \/ FinalizeThread \/ UNCHANGED vars
      PROVE  IInv' /\ KeepsHistory
  <2>1. UNCHANGED <<events, sequences, loops, og_seq, cur_depth>>
    BY <1>7 DEF ThreadClose, FinalizeThread, vars
  <2>2. EventsGrow
    BY <1>1, <2>1 DEF EventsGrow, TypeOK
  <2>3. TypeOK'
    BY <1>1, <1>7 DEF ThreadClose, FinalizeThread, vars, TypeOK, Depths
  <2> QED BY <2>1, <2>2, <2>3, QuietStep
<1> QED BY <1>2, <1>3, <1>4, <1>5, <1>6, <1>7 DEF Next, Record, Close

-----------------------------------------------------------------------------
(* The theorems.  They hold for every set of events, every depth, every    *)
(* maxLoopLength, and every algorithm but the filtered one, whose rewrites *)
(* are model-checked only.                                                 *)

\* The invariant that the others are read from.
THEOREM Invariant ==
  ASSUME Algorithm # "Filter"
  PROVE  Spec => []IInv
<1>1. Init => IInv
  BY InitInvariant
<1>2. IInv /\ [Next]_vars => IInv'
  BY NextKeeps
<1> QED BY <1>1, <1>2, PTL DEF Spec

\* Every table, frame and counter of the writer keeps its type; the writer never
\* indexes a frame past the end of og_seq.
THEOREM TypeCorrect ==
  ASSUME Algorithm # "Filter"
  PROVE  Spec => []TypeOK
<1>1. IInv => TypeOK
  BY DEF IInv
<1> QED BY <1>1, Invariant, PTL

\* What a step of the writer may never change: the stored sequences, what the
\* loops repeat, and all but the last iteration count of a loop.
THEOREM HistoryFinal ==
  ASSUME Algorithm # "Filter"
  PROVE  Spec => HistoryIsFinal
<1>1. IInv /\ [Next]_vars => [KeepsHistory]_vars
  BY NextKeeps
<1> QED BY <1>1, Invariant, PTL DEF Spec, HistoryIsFinal

\* The domains that the properties speak of.
LEMMA Domains ==
  ASSUME TypeOK
  PROVE  /\ DOMAIN events = Ids /\ DOMAIN sequences = 1..Len(sequences)
         /\ DOMAIN loops = 1..Len(loops)
         /\ \A n \in 1..Len(sequences) :
              sequences[n] \in Seq(Token) /\ DOMAIN sequences[n] = 1..Len(sequences[n])
         /\ \A d \in Depths : DOMAIN og_seq[d] = 1..Len(og_seq[d])
         /\ \A l \in 1..Len(loops) :
              DOMAIN loops[l].nb_iterations = 1..Len(loops[l].nb_iterations)
<1>1. DOMAIN events = Ids /\ DOMAIN sequences = 1..Len(sequences) /\ DOMAIN loops = 1..Len(loops)
  BY DEF TypeOK, Ids
<1>2. ASSUME NEW n \in 1..Len(sequences)
      PROVE  sequences[n] \in Seq(Token) /\ DOMAIN sequences[n] = 1..Len(sequences[n])
  <2>1. sequences[n] \in Seq(Token)
    BY ElementOfSeq DEF TypeOK
  <2> QED BY <2>1
<1>3. ASSUME NEW d \in Depths
      PROVE  DOMAIN og_seq[d] = 1..Len(og_seq[d])
  <2>1. og_seq[d] \in Seq(Token)
    BY DEF TypeOK
  <2> QED BY <2>1
<1>4. ASSUME NEW l \in 1..Len(loops)
      PROVE  DOMAIN loops[l].nb_iterations = 1..Len(loops[l].nb_iterations)
  <2>1. loops[l] \in Loop
    BY ElementOfSeq DEF TypeOK
  <2>2. loops[l].nb_iterations \in Seq(Nat)
    BY <2>1 DEF Loop
  <2> QED BY <2>2
<1> QED BY <1>1, <1>2, <1>3, <1>4

\* The grammar that the main sequence is seen with, to read the tables from.
LEMMA Tables ==
  ASSUME IInv
  PROVE  /\ TypeOK /\ 0 \in Depths
         /\ GoodTables(Ids, Starts, Ends, GrammarAt(0))
         /\ GrammarAt(0).sequences = sequences /\ GrammarAt(0).loops = loops
<1>1. 0 \in Depths
  BY MaxDepthAssumption DEF Depths
<1> QED BY <1>1, GrammarAtProps DEF IInv, GoodFrame

\* A grammar that satisfies the invariant has no cycle and no dangling token.
LEMMA InvariantIsAcyclic ==
  ASSUME IInv
  PROVE  ReferencesGoDown
<1> DEFINE g == GrammarAt(0)
<1>1. /\ TypeOK /\ GoodTables(Ids, Starts, Ends, g)
      /\ g.sequences = sequences /\ g.loops = loops
  BY Tables
<1> HIDE DEF g
<1>2. ASSUME NEW f, NEW token, NEW n, f.sequences = sequences, f.loops = loops,
             Below(Ids, f, token, n)
      PROVE  RefersBelow(token, n)
  BY <1>1, <1>2, Domains DEF Below, RefersBelow
<1>3. ASSUME NEW l \in DOMAIN loops
      PROVE  /\ loops[l].repeated_token.type = "Sequence"
             /\ loops[l].repeated_token.id \in DOMAIN sequences
  BY <1>1, Domains DEF GoodTables, GoodLoops
<1>4. ASSUME NEW n \in DOMAIN sequences, NEW k \in DOMAIN sequences[n]
      PROVE  RefersBelow(sequences[n][k], n)
  <2>1. Below(Ids, g, sequences[n][k], n)
    BY <1>1, Domains DEF GoodTables, GoodSequences
  <2> QED BY <1>1, <1>2, <2>1
<1>5. ASSUME NEW d \in Depths, NEW k \in DOMAIN og_seq[d]
      PROVE  RefersBelow(og_seq[d][k], Len(sequences) + 1)
  <2> DEFINE f == GrammarAt(d)
  <2>1. f.sequences = sequences /\ f.loops = loops /\ f.tokens = og_seq[d] /\ GoodTokens(Ids, f)
    BY <1>1, GrammarAtProps DEF IInv, GoodFrame
  <2> HIDE DEF f
  <2>2. Below(Ids, f, og_seq[d][k], Len(sequences) + 1)
    BY <1>1, <2>1, Domains DEF GoodTokens
  <2> QED BY <1>2, <2>1, <2>2
<1> QED BY <1>3, <1>4, <1>5 DEF ReferencesGoDown

\* The grammar never has a cycle or a dangling token, so whoever unfolds it ends.
THEOREM GrammarIsAcyclic ==
  ASSUME Algorithm # "Filter"
  PROVE  Spec => []ReferencesGoDown
BY InvariantIsAcyclic, Invariant, PTL

\* Equal blocks have equal tokens, however the trace was folded.
THEOREM TokensAreCanonical ==
  ASSUME Algorithm # "Filter"
  PROVE  Spec => []EveryBlockHasOneToken
<1>1. ASSUME IInv
      PROVE  EveryBlockHasOneToken
  BY <1>1, Tables, Domains DEF GoodTables, Distinct, EveryBlockHasOneToken
<1> QED BY <1>1, Invariant, PTL

\* Every stored occurrence of a loop has two iterations or more.
THEOREM OccurrencesRepeat ==
  ASSUME Algorithm # "Filter"
  PROVE  Spec => []LoopsRepeat
<1>1. ASSUME IInv
      PROVE  LoopsRepeat
  BY <1>1, Tables, Domains DEF GoodTables, GoodLoops, LoopsRepeat
<1> QED BY <1>1, Invariant, PTL

\* The truncated search makes no loop longer than its bound.
THEOREM TruncationBoundsBodies ==
  ASSUME Algorithm # "Filter"
  PROVE  Spec => []BodiesStayShort
<1>1. ASSUME IInv
      PROVE  BodiesStayShort
  BY <1>1, Tables, Domains DEF GoodTables, GoodLoops, BodiesStayShort
<1> QED BY <1>1, Invariant, PTL

\* Loops hold whole calls, and the frame of an open block starts with the event
\* that opened it, for any nesting and any number of rewrites.
THEOREM BlocksStayWhole ==
  ASSUME Algorithm # "Filter"
  PROVE  Spec => []LoopsRespectBlocks
<1>1. ASSUME IInv
      PROVE  LoopsRespectBlocks
  <2> DEFINE g == GrammarAt(0)
  <2>1. /\ TypeOK /\ GoodTables(Ids, Starts, Ends, g) /\ 0 \in Depths
        /\ g.sequences = sequences /\ g.loops = loops
    BY <1>1, Tables
  <2> HIDE DEF g
  <2>2. ASSUME NEW f, NEW token, NEW n, Below(Ids, f, token, n)
        PROVE  /\ IsMark(Starts, token) <=> IsBlockStart(token)
               /\ IsMark(Ends, token) <=> IsBlockEnd(token)
               /\ IsMark(Starts \cup Ends, token) <=> (IsBlockStart(token) \/ IsBlockEnd(token))
    BY <2>2 DEF Below, IsMark, IsBlockStart, IsBlockEnd, Starts, Ends
  <2>3. ASSUME NEW n \in 1..Len(sequences)
        PROVE  /\ DOMAIN sequences[n] = 1..Len(sequences[n])
               /\ \A k \in 1..Len(sequences[n]) : Below(Ids, g, sequences[n][k], n)
               /\ sequences[n] # <<>> => 1 \in 1..Len(sequences[n])
               /\ \A k \in 2..Len(sequences[n]) : k \in 1..Len(sequences[n])
    BY <2>1, Domains DEF GoodTables, GoodSequences
  <2>4. ASSUME NEW n \in 1..Len(sequences), FlatIn(Starts \cup Ends, sequences[n])
        PROVE  IsFlat(sequences[n])
    BY <2>2, <2>3, <2>4 DEF FlatIn, IsFlat
  <2>5. ASSUME NEW n \in 1..Len(sequences), BlockIn(Starts, Ends, sequences[n])
        PROVE  IsBlock(sequences[n])
    BY <2>2, <2>3, <2>5 DEF BlockIn, IsBlock
  <2>6. ASSUME NEW l \in 1..Len(loops)
        PROVE  IsFlat(sequences[loops[l].repeated_token.id])
    BY <2>1, <2>4 DEF GoodTables, GoodLoops
  <2>7. ASSUME NEW n \in 1..Len(sequences)
        PROVE  IsFlat(sequences[n]) \/ IsBlock(sequences[n])
    BY <2>1, <2>4, <2>5 DEF GoodTables, GoodSequences
  <2>8. ASSUME NEW d \in Depths
        PROVE  /\ DOMAIN og_seq[d] = 1..Len(og_seq[d])
               /\ \A k \in 1..Len(og_seq[d]) :
                    /\ IsMark(Starts, og_seq[d][k]) <=> IsBlockStart(og_seq[d][k])
                    /\ IsMark(Ends, og_seq[d][k]) <=> IsBlockEnd(og_seq[d][k])
                    /\ IsMark(Starts \cup Ends, og_seq[d][k]) <=>
                         (IsBlockStart(og_seq[d][k]) \/ IsBlockEnd(og_seq[d][k]))
               /\ og_seq[d] \in Seq(Token)
    <3>1. DOMAIN og_seq[d] = 1..Len(og_seq[d]) /\ og_seq[d] \in Seq(Token)
      BY <2>1, Domains, GrammarAtProps
    <3>2. \A k \in 1..Len(og_seq[d]) :
            Below(Ids, GrammarAt(d), og_seq[d][k], Len(GrammarAt(d).sequences) + 1)
      BY <1>1, <2>1, GrammarAtProps DEF IInv, GoodFrame, GoodTokens
    <3> QED BY <2>2, <3>1, <3>2
  <2>9. IsFlat(og_seq[0])
    <3>1. FlatIn(Starts \cup Ends, og_seq[0])
      BY <1>1, <2>1 DEF IInv, FrameShape
    <3> QED BY <2>1, <2>8, <3>1 DEF FlatIn, IsFlat
  <2>10. ASSUME NEW d \in Depths \ {0}
         PROVE  IF d <= cur_depth
                THEN IsBlock(og_seq[d]) /\ ~IsBlockEnd(og_seq[d][Len(og_seq[d])])
                ELSE og_seq[d] = <<>>
    <3>1. CASE d <= cur_depth
      <4>1. HeadIn(Starts, Ends, og_seq[d])
        BY <1>1, <3>1 DEF IInv, FrameShape
      <4>2. /\ og_seq[d] # <<>> /\ og_seq[d] \in Seq(Token)
            /\ 1 \in 1..Len(og_seq[d]) /\ Len(og_seq[d]) \in 1..Len(og_seq[d])
            /\ \A k \in 2..Len(og_seq[d]) : k \in 1..Len(og_seq[d])
            /\ Len(og_seq[d]) = 1 \/ Len(og_seq[d]) \in 2..Len(og_seq[d])
        <5>1. og_seq[d] # <<>> /\ og_seq[d] \in Seq(Token)
          BY <2>8, <4>1 DEF HeadIn
        <5> DEFINE m == Len(og_seq[d])
        <5>2. m \in Nat \ {0}
          BY <5>1, EmptySeq
        <5> HIDE DEF m
        <5>3. /\ 1 \in 1..m /\ m \in 1..m
              /\ \A k \in 2..m : k \in 1..m
              /\ (m = 1 \/ m \in 2..m)
          BY <5>2
        <5> QED BY <5>1, <5>3 DEF m
      <4>3. IsBlockStart(og_seq[d][1])
        BY <2>8, <4>1, <4>2 DEF HeadIn
      <4>4. \A k \in 2..Len(og_seq[d]) : ~IsBlockStart(og_seq[d][k]) /\ ~IsBlockEnd(og_seq[d][k])
        BY <2>8, <4>1, <4>2 DEF HeadIn, FlatTail
      <4>5. ~IsBlockEnd(og_seq[d][1])
        BY <4>3, EventAssumption DEF IsBlockStart, IsBlockEnd
      <4>6. IsBlock(og_seq[d])
        BY <4>2, <4>3, <4>4 DEF IsBlock
      <4>7. ~IsBlockEnd(og_seq[d][Len(og_seq[d])])
        BY <4>2, <4>4, <4>5
      <4> QED BY <3>1, <4>6, <4>7
    <3>2. CASE ~(d <= cur_depth)
      BY <1>1, <3>2 DEF IInv, FrameShape
    <3> QED BY <3>1, <3>2
  <2> QED BY <2>1, <2>6, <2>7, <2>9, <2>10, Domains DEF LoopsRespectBlocks
<1> QED BY <1>1, Invariant, PTL

-----------------------------------------------------------------------------
(* What the search for loops leaves behind: none of the loops that         *)
(* findLoopBasic looks for is ever left in a frame or in a stored          *)
(* sequence, and there is never a choice between two of them.              *)

\* The search that is proved about: findLoopBasic, truncated or not.
IsBasic == Algorithm \in {"Basic", "BasicTruncated"}

-----------------------------------------------------------------------------
(* Repetitions, token by token *)

Searched(n) == Algorithm = "BasicTruncated" => n < MaxLoopLength

\* The n tokens up to position e are those before them.
RepeatAt(t, e, n) ==
  2 * n <= e /\ \A i \in (e - n + 1)..e : t[i] = t[i - n]

\* After position k comes b.
FollowedAt(t, k, b) ==
  k + Len(b) <= Len(t) /\ \A i \in 1..Len(b) : t[k + i] = b[i]

NoRepeats(t) ==
  \A e \in 1..Len(t) : \A n \in 1..e :
    t[e].type # "Loop" /\ Searched(n) => ~RepeatAt(t, e, n)

NoIterations(g, t) ==
  \A k \in 1..Len(t) : t[k].type = "Loop" => ~FollowedAt(t, k, BodyOf(g, t[k].id))

FoldedTokens(g, t) == NoRepeats(t) /\ NoIterations(g, t)

LoopsInTable(g, t) ==
  \A k \in 1..Len(t) : t[k].type = "Loop" => t[k].id \in 1..Len(g.loops)

NeatTokens(g, t) == LoopsInTable(g, t) /\ FoldedTokens(g, t)

\* Bodies of loops end with what was stored last, which is no loop.
NeatLoops(g) ==
  \A l \in 1..Len(g.loops) :
    /\ g.loops[l].repeated_token.type = "Sequence"
    /\ g.loops[l].repeated_token.id \in 1..Len(g.sequences)
    /\ BodyOf(g, l) # <<>>
    /\ Searched(Len(BodyOf(g, l)))
    /\ BodyOf(g, l)[Len(BodyOf(g, l))].type # "Loop"

NeatTables(g) ==
  /\ g \in Grammar
  /\ NeatLoops(g)
  /\ \A n \in 1..Len(g.sequences) : NeatTokens(g, g.sequences[n])

\* h has the sequences of g, and the loops of g with the same bodies.
Extends(g, h) ==
  /\ \A n \in 1..Len(g.sequences) :
       n \in 1..Len(h.sequences) /\ h.sequences[n] = g.sequences[n]
  /\ \A l \in 1..Len(g.loops) :
       l \in 1..Len(h.loops) /\ h.loops[l].repeated_token = g.loops[l].repeated_token

\* The fields of a grammar and the elements of its tables.
LEMMA GrammarTypes ==
  ASSUME NEW g \in Grammar
  PROVE  /\ g.sequences \in Seq(Seq(Token)) /\ g.loops \in Seq(Loop) /\ g.tokens \in Seq(Token)
         /\ \A n \in 1..Len(g.sequences) : g.sequences[n] \in Seq(Token)
         /\ \A l \in 1..Len(g.loops) : g.loops[l] \in Loop
<1>1. g.sequences \in Seq(Seq(Token)) /\ g.loops \in Seq(Loop) /\ g.tokens \in Seq(Token)
  BY DEF Grammar
<1> QED BY <1>1, ElementOfSeq

\* The body of a loop of neat tables is a neat sequence.
LEMMA BodyProps ==
  ASSUME NEW g, NeatTables(g), NEW l \in 1..Len(g.loops)
  PROVE  /\ BodyOf(g, l) \in Seq(Token) /\ Len(BodyOf(g, l)) \in Nat \ {0}
         /\ Searched(Len(BodyOf(g, l)))
         /\ BodyOf(g, l)[Len(BodyOf(g, l))].type # "Loop"
         /\ NeatTokens(g, BodyOf(g, l))
<1>1. g.loops[l].repeated_token.id \in 1..Len(g.sequences)
  BY DEF NeatTables, NeatLoops
<1>2. BodyOf(g, l) \in Seq(Token) /\ NeatTokens(g, BodyOf(g, l))
  BY <1>1, GrammarTypes DEF NeatTables, BodyOf
<1>3. /\ BodyOf(g, l) # <<>> /\ Searched(Len(BodyOf(g, l)))
      /\ BodyOf(g, l)[Len(BodyOf(g, l))].type # "Loop"
  BY DEF NeatTables, NeatLoops
<1> QED BY <1>2, <1>3, EmptySeq

\* Loops keep their bodies in a grammar that extends another.
LEMMA BodiesStay ==
  ASSUME NEW g, NEW h, NeatLoops(g), Extends(g, h), NEW l \in 1..Len(g.loops)
  PROVE  BodyOf(h, l) = BodyOf(g, l)
<1>1. g.loops[l].repeated_token.id \in 1..Len(g.sequences)
  BY DEF NeatLoops
<1> QED BY <1>1 DEF Extends, BodyOf

\* So what is neat in the one is neat in the other.
LEMMA TokensStayNeat ==
  ASSUME NEW g, NEW h, NeatLoops(g), Extends(g, h), NEW t, NeatTokens(g, t)
  PROVE  NeatTokens(h, t)
<1>1. LoopsInTable(h, t)
  BY DEF NeatTokens, LoopsInTable, Extends
<1>2. NoIterations(h, t)
  <2> SUFFICES ASSUME NEW k \in 1..Len(t), t[k].type = "Loop"
               PROVE  ~FollowedAt(t, k, BodyOf(h, t[k].id))
    BY DEF NoIterations
  <2>1. t[k].id \in 1..Len(g.loops)
    BY DEF NeatTokens, LoopsInTable
  <2>2. BodyOf(h, t[k].id) = BodyOf(g, t[k].id)
    BY <2>1, BodiesStay
  <2> QED BY <2>2 DEF NeatTokens, FoldedTokens, NoIterations
<1> QED BY <1>1, <1>2 DEF NeatTokens, FoldedTokens

\* A stretch of neat tokens, n of them after the first a, is neat.
LEMMA StretchIsNeat ==
  ASSUME NEW g, NeatTables(g), NEW t \in Seq(Token), NeatTokens(g, t), NEW p \in Seq(Token),
         NEW a \in Nat, a + Len(p) <= Len(t), \A i \in 1..Len(p) : p[i] = t[a + i]
  PROVE  NeatTokens(g, p)
<1>1. Len(p) \in Nat /\ Len(t) \in Nat
  OBVIOUS
<1>2. LoopsInTable(g, p)
  <2> SUFFICES ASSUME NEW k \in 1..Len(p), p[k].type = "Loop"
               PROVE  p[k].id \in 1..Len(g.loops)
    BY DEF LoopsInTable
  <2>1. a + k \in 1..Len(t) /\ p[k] = t[a + k]
    BY <1>1
  <2> QED BY <2>1 DEF NeatTokens, LoopsInTable
<1>3. NoRepeats(p)
  <2> SUFFICES ASSUME NEW e \in 1..Len(p), NEW n \in 1..e, p[e].type # "Loop", Searched(n),
                      RepeatAt(p, e, n)
               PROVE  FALSE
    BY DEF NoRepeats
  <2>1. /\ a + e \in 1..Len(t) /\ n \in 1..(a + e) /\ p[e] = t[a + e]
        /\ e \in Nat /\ n \in Nat
    BY <1>1
  <2>2. 2 * n <= e /\ \A i \in (e - n + 1)..e : p[i] = p[i - n]
    BY DEF RepeatAt
  <2>3. ASSUME NEW i \in (a + e - n + 1)..(a + e)
        PROVE  t[i] = t[i - n]
    <3>0. /\ i \in Int /\ a + e - n + 1 <= i /\ i <= a + e
          /\ e \in Nat /\ n \in Nat /\ 1 <= n /\ 2 * n <= e /\ e <= Len(p)
      BY <2>1, <2>2
    <3>1. /\ i - a \in (e - n + 1)..e /\ i - a \in 1..Len(p) /\ i - a - n \in 1..Len(p)
          /\ a + (i - a) = i /\ a + (i - a - n) = i - n
      BY <1>1, <3>0
    <3>2. p[i - a] = p[i - a - n]
      BY <2>2, <3>1
    <3>3. p[i - a] = t[a + (i - a)] /\ p[i - a - n] = t[a + (i - a - n)]
      BY <3>1
    <3> QED BY <3>1, <3>2, <3>3
  <2>4. 2 * n <= a + e
    BY <1>1, <2>1, <2>2
  <2>5. RepeatAt(t, a + e, n)
    BY <2>3, <2>4 DEF RepeatAt
  <2> QED BY <2>1, <2>5 DEF NeatTokens, FoldedTokens, NoRepeats
<1>4. NoIterations(g, p)
  <2> SUFFICES ASSUME NEW k \in 1..Len(p), p[k].type = "Loop", FollowedAt(p, k, BodyOf(g, p[k].id))
               PROVE  FALSE
    BY DEF NoIterations
  <2> DEFINE b == BodyOf(g, p[k].id)
  <2>1. a + k \in 1..Len(t) /\ p[k] = t[a + k]
    BY <1>1
  <2>2. Len(b) \in Nat
    BY <1>2, BodyProps DEF LoopsInTable
  <2> HIDE DEF b
  <2>3. k + Len(b) <= Len(p) /\ \A i \in 1..Len(b) : p[k + i] = b[i]
    BY DEF FollowedAt, b
  <2>4. ASSUME NEW i \in 1..Len(b)
        PROVE  t[a + k + i] = b[i]
    <3>1. k + i \in 1..Len(p) /\ a + (k + i) = a + k + i
      BY <1>1, <2>2, <2>3
    <3>2. p[k + i] = t[a + (k + i)]
      BY <3>1
    <3> QED BY <2>3, <3>1, <3>2
  <2>5. a + k + Len(b) <= Len(t)
    BY <1>1, <2>2, <2>3
  <2>6. FollowedAt(t, a + k, b)
    BY <2>4, <2>5 DEF FollowedAt
  <2> QED BY <2>1, <2>6 DEF NeatTokens, FoldedTokens, NoIterations, b
<1> QED BY <1>2, <1>3, <1>4 DEF NeatTokens, FoldedTokens

-----------------------------------------------------------------------------
(* The comparisons of the search, token by token *)

\* Comparing the last n tokens with b compares them one by one.
LEMMA LastTokensAre ==
  ASSUME NEW t \in Seq(Token), NEW b \in Seq(Token), NEW n \in 1..Len(t)
  PROVE  LastTokens(t, n) = b <=> Len(b) = n /\ FollowedAt(t, Len(t) - n, b)
<1> DEFINE last == LastTokens(t, n)
<1>1. /\ last \in Seq(Token) /\ Len(last) = n /\ \A k \in 1..n : last[k] = t[Len(t) - n + k]
  BY LastTokensProps
<1>2. Len(t) \in Nat /\ n \in Nat /\ Len(t) - n + n = Len(t)
  OBVIOUS
<1> HIDE DEF last
<1>3. ASSUME last = b
      PROVE  Len(b) = n /\ FollowedAt(t, Len(t) - n, b)
  BY <1>1, <1>2, <1>3 DEF FollowedAt
<1>4. ASSUME Len(b) = n, FollowedAt(t, Len(t) - n, b)
      PROVE  last = b
  <2>1. \A k \in 1..n : t[Len(t) - n + k] = b[k]
    BY <1>4 DEF FollowedAt
  <2>2. \A k \in 1..Len(last) : last[k] = b[k]
    BY <1>1, <2>1
  <2> QED BY <1>1, <1>4, <2>2, SeqEqual
<1> QED BY <1>3, <1>4 DEF last

\* An iteration: a loop is followed by its body, which is all that comes after it.
LEMMA EndsWithIterationIs ==
  ASSUME NEW g, NeatTables(g), LoopsInTable(g, g.tokens), NEW n \in 1..(Len(g.tokens) - 1),
         EndsWithIteration(g, n)
  PROVE  LET k == Len(g.tokens) - n
         IN  /\ k \in 1..Len(g.tokens) /\ g.tokens[k].type = "Loop"
             /\ g.tokens[k].id \in 1..Len(g.loops)
             /\ Len(BodyOf(g, g.tokens[k].id)) = n
             /\ FollowedAt(g.tokens, k, BodyOf(g, g.tokens[k].id))
<1> DEFINE k == Len(g.tokens) - n
           b == BodyOf(g, g.tokens[k].id)
<1>1. g.tokens \in Seq(Token)
  BY GrammarTypes DEF NeatTables
<1>2. k \in 1..Len(g.tokens) /\ n \in 1..Len(g.tokens)
  BY <1>1
<1>3. g.tokens[k].type = "Loop" /\ LastTokens(g.tokens, n) = b
  BY DEF EndsWithIteration
<1>4. g.tokens[k].id \in 1..Len(g.loops)
  BY <1>2, <1>3 DEF LoopsInTable
<1>5. b \in Seq(Token)
  BY <1>4, BodyProps
<1> HIDE DEF b
<1>6. Len(b) = n /\ FollowedAt(g.tokens, k, b)
  BY <1>1, <1>2, <1>3, <1>5, LastTokensAre
<1> QED BY <1>2, <1>3, <1>4, <1>6 DEF b

\* A loop with its body behind it, up to the end, is an iteration.
LEMMA IterationIsFound ==
  ASSUME NEW g, NeatTables(g), LoopsInTable(g, g.tokens), NEW k \in 1..Len(g.tokens),
         g.tokens[k].type = "Loop", FollowedAt(g.tokens, k, BodyOf(g, g.tokens[k].id)),
         k + Len(BodyOf(g, g.tokens[k].id)) = Len(g.tokens)
  PROVE  \E n \in LoopLengths(g) : EndsWithIteration(g, n)
<1> DEFINE b == BodyOf(g, g.tokens[k].id)
           n == Len(b)
<1>1. g.tokens \in Seq(Token)
  BY GrammarTypes DEF NeatTables
<1>2. g.tokens[k].id \in 1..Len(g.loops)
  BY DEF LoopsInTable
<1>3. b \in Seq(Token) /\ n \in Nat \ {0} /\ Searched(n)
  BY <1>2, BodyProps
<1> HIDE DEF b
<1>4. k + n = Len(g.tokens) /\ FollowedAt(g.tokens, k, b)
  BY DEF b
<1> HIDE DEF n
<1>5. /\ n \in 1..(Len(g.tokens) - 1) /\ n \in 1..Len(g.tokens)
      /\ Len(g.tokens) - n = k
  BY <1>1, <1>3, <1>4
<1>6. LastTokens(g.tokens, n) = b
  BY <1>1, <1>3, <1>4, <1>5, LastTokensAre DEF n
<1>7. EndsWithIteration(g, n)
  BY <1>5, <1>6 DEF EndsWithIteration, b
<1> QED BY <1>3, <1>5, <1>7 DEF LoopLengths, Searched

\* The tokens n + 1 to m - n before the end of a frame of m, by position.
LEMMA Positions ==
  ASSUME NEW m \in Nat, NEW n \in Nat, 1 <= n, 2 * n <= m
  PROVE  LET x == m - 2 * n + 1
             y == m - n
         IN  /\ x \in 1..m + 1 /\ y \in x..m /\ y - x + 1 = n /\ x..y \subseteq 1..m
             /\ y \in (x - 1)..m /\ n \in 1..m
             /\ \A i \in (m - n + 1)..m :
                  /\ i - (m - n) \in 1..n /\ m - n + (i - (m - n)) = i
                  /\ x + (i - (m - n)) - 1 = i - n
             /\ \A i \in 1..n : m - n + i \in (m - n + 1)..m /\ m - n + i - n = x + i - 1
OBVIOUS

\* A repetition, in both directions.
LEMMA EndsWithRepeatIs ==
  ASSUME NEW g \in Grammar, NEW n \in 1..Len(g.tokens)
  PROVE  EndsWithRepeat(g, n) <=> RepeatAt(g.tokens, Len(g.tokens), n)
<1> DEFINE t == g.tokens
           m == Len(t)
<1>1. t \in Seq(Token) /\ m \in Nat /\ n \in Nat /\ 1 <= n /\ n <= m
  BY GrammarTypes
<1>2. CASE 2 * n <= m
  <2> DEFINE x == m - 2 * n + 1
             y == m - n
             b == SubSeq(t, x, y)
  <2>1. /\ x \in 1..m + 1 /\ y \in x..m /\ y - x + 1 = n /\ x..y \subseteq 1..m
        /\ y \in (x - 1)..m /\ n \in 1..m
        /\ \A i \in (m - n + 1)..m :
             /\ i - (m - n) \in 1..n /\ m - n + (i - (m - n)) = i
             /\ x + (i - (m - n)) - 1 = i - n
        /\ \A i \in 1..n : m - n + i \in (m - n + 1)..m /\ m - n + i - n = x + i - 1
    BY <1>1, <1>2, Positions
  <2>4. EndsWithRepeat(g, n) <=> LastTokens(t, n) = b
    BY <1>2 DEF EndsWithRepeat
  <2> HIDE DEF x, y, b
  <2>2. \A i \in x..y : t[i] \in Token
    BY <1>1, <2>1, ElementOfSeq
  <2>3. b \in Seq(Token) /\ Len(b) = n /\ \A i \in 1..n : b[i] = t[x + i - 1]
    <3>1. x \in Int /\ y \in Int /\ x <= y
      BY <2>1
    <3> QED BY <1>1, <2>1, <2>2, <3>1, SubSeqProperties DEF b
  <2>5. LastTokens(t, n) = b <=> FollowedAt(t, m - n, b)
    BY <1>1, <2>1, <2>3, LastTokensAre
  <2>6. FollowedAt(t, m - n, b) <=> \A i \in 1..n : t[m - n + i] = b[i]
    BY <1>1, <2>3 DEF FollowedAt
  <2>7. ASSUME \A i \in 1..n : t[m - n + i] = b[i]
        PROVE  RepeatAt(t, m, n)
    <3> SUFFICES ASSUME NEW i \in (m - n + 1)..m
                 PROVE  t[i] = t[i - n]
      BY <1>2 DEF RepeatAt
    <3>1. i - (m - n) \in 1..n /\ m - n + (i - (m - n)) = i /\ x + (i - (m - n)) - 1 = i - n
      BY <2>1
    <3>2. t[m - n + (i - (m - n))] = b[i - (m - n)] /\ b[i - (m - n)] = t[x + (i - (m - n)) - 1]
      BY <2>3, <2>7, <3>1
    <3> QED BY <3>1, <3>2
  <2>8. ASSUME RepeatAt(t, m, n), NEW i \in 1..n
        PROVE  t[m - n + i] = b[i]
    <3>1. m - n + i \in (m - n + 1)..m /\ m - n + i - n = x + i - 1
      BY <2>1
    <3>2. t[m - n + i] = t[m - n + i - n]
      BY <2>8, <3>1 DEF RepeatAt
    <3> QED BY <2>3, <3>1, <3>2
  <2> QED BY <2>4, <2>5, <2>6, <2>7, <2>8
<1>3. CASE ~(2 * n <= m)
  BY <1>3 DEF EndsWithRepeat, RepeatAt
<1> QED BY <1>2, <1>3

\* A set of numbers has a least element.
LEMMA Least ==
  ASSUME NEW S \in SUBSET Nat, S # {}
  PROVE  \E m \in S : \A k \in S : m <= k
<1> DEFINE R == {ss \in Nat \X Nat : ss[1] < ss[2]}
<1>1. Order!IsWellFoundedOn(R, Nat)
  BY Order!NatLessThanWellFounded DEF Order!OpToRel
<1>2. \A x, y \in Nat : x < y => <<x, y>> \in R
  OBVIOUS
<1> HIDE DEF R
<1>3. \E m \in S : \A k \in S : ~(<<k, m>> \in R)
  BY <1>1, Order!WFMin
<1>4. PICK m \in S : \A k \in S : ~(<<k, m>> \in R)
  BY <1>3
<1>5. ASSUME NEW k \in S
      PROVE  m <= k
  <2>1. m \in Nat /\ k \in Nat /\ ~(<<k, m>> \in R)
    BY <1>4
  <2>2. ~(k < m)
    BY <1>2, <2>1
  <2> QED BY <2>1, <2>2
<1> QED BY <1>5

\* A search that finds a loop finds a shortest one.
LEMMA SearchFinds ==
  ASSUME NEW g, Len(g.tokens) \in Nat, NEW n \in LoopLengths(g), EndsWithLoop(g, n)
  PROVE  \E m \in LoopLengths(g) : IsShortestLoop(g, m)
<1> DEFINE S == {m \in 1..(Len(g.tokens) - 1) : EndsWithLoop(g, m)}
<1>1. n \in S /\ S \in SUBSET Nat
  BY DEF LoopLengths
<1> HIDE DEF S
<1>2. PICK m \in S : \A k \in S : m <= k
  BY <1>1, Least
<1>3. m \in 1..(Len(g.tokens) - 1) /\ EndsWithLoop(g, m) /\ m <= n
  BY <1>1, <1>2 DEF S
<1>4. m \in LoopLengths(g)
  BY <1>3, MaxLoopLengthAssumption DEF LoopLengths
<1>5. \A k \in 1..(m - 1) : ~EndsWithLoop(g, k)
  BY <1>2, <1>3 DEF S
<1> QED BY <1>3, <1>4, <1>5 DEF IsShortestLoop

-----------------------------------------------------------------------------
(* What the search leaves is neat *)

\* What ends before the last of m + 1 positions lies in the first m.
LEMMA Within ==
  ASSUME NEW m \in Nat, NEW k \in Nat, NEW c \in Nat \ {0}, 1 <= k, k + c <= m + 1, k + c # m + 1
  PROVE  k \in 1..m /\ k + c <= m /\ \A i \in 1..c : k + i \in 1..m
OBVIOUS

\* A token that ends no loop the search looks for leaves a neat frame neat.
LEMMA NothingFoundIsNeat ==
  ASSUME NEW g, NeatTables(g), NEW t \in Seq(Token), NeatTokens(g, t),
         NEW x \in Token, x.type # "Loop", g.tokens = Append(t, x),
         \A n \in LoopLengths(g) : ~EndsWithLoop(g, n)
  PROVE  NeatTokens(g, g.tokens)
<1> DEFINE p == g.tokens
<1>1. /\ p \in Seq(Token) /\ Len(t) \in Nat /\ Len(p) = Len(t) + 1
      /\ p[Len(p)] = x /\ \A i \in 1..Len(t) : p[i] = t[i]
  BY AppendProperties
<1>2. LoopsInTable(g, p)
  BY <1>1 DEF NeatTokens, LoopsInTable
<1>3. NoRepeats(p)
  <2> SUFFICES ASSUME NEW e \in 1..Len(p), NEW n \in 1..e, p[e].type # "Loop", Searched(n),
                      RepeatAt(p, e, n)
               PROVE  FALSE
    BY DEF NoRepeats
  <2>1. n \in Nat /\ e \in Nat /\ 1 <= n /\ 2 * n <= e /\ \A i \in (e - n + 1)..e : p[i] = p[i - n]
    BY DEF RepeatAt
  <2>2. CASE e = Len(p)
    <3>1. n \in 1..(Len(p) - 1) /\ n \in 1..Len(p)
      BY <1>1, <2>1, <2>2
    <3>2. n \in LoopLengths(g)
      BY <3>1 DEF LoopLengths, Searched
    <3>3. EndsWithRepeat(g, n)
      BY <2>2, <3>1, EndsWithRepeatIs DEF NeatTables
    <3> QED BY <3>2, <3>3 DEF EndsWithLoop
  <2>3. CASE e \in 1..Len(t)
    <3>1. \A i \in (e - n + 1)..e : i \in 1..Len(t) /\ i - n \in 1..Len(t)
      BY <1>1, <2>1, <2>3
    <3>2. RepeatAt(t, e, n) /\ t[e].type # "Loop"
      BY <1>1, <2>1, <2>3, <3>1 DEF RepeatAt
    <3> QED BY <2>3, <3>2 DEF NeatTokens, FoldedTokens, NoRepeats
  <2> QED BY <1>1, <2>1, <2>2, <2>3
<1>4. NoIterations(g, p)
  <2> SUFFICES ASSUME NEW k \in 1..Len(p), p[k].type = "Loop", FollowedAt(p, k, BodyOf(g, p[k].id))
               PROVE  FALSE
    BY DEF NoIterations
  <2> DEFINE b == BodyOf(g, p[k].id)
  <2>1. p[k].id \in 1..Len(g.loops)
    BY <1>2 DEF LoopsInTable
  <2>2. Len(b) \in Nat \ {0}
    BY <2>1, BodyProps
  <2>3. k \in 1..Len(t) /\ p[k] = t[k]
    BY <1>1
  <2>4. k + Len(b) # Len(p)
    <3>1. \A n \in LoopLengths(g) : ~EndsWithIteration(g, n)
      BY DEF EndsWithLoop
    <3> QED BY <1>2, <3>1, IterationIsFound
  <2> HIDE DEF b
  <2>5. k + Len(b) <= Len(p) /\ \A i \in 1..Len(b) : p[k + i] = b[i]
    BY DEF FollowedAt, b
  <2>6. k + Len(b) <= Len(t) /\ \A i \in 1..Len(b) : k + i \in 1..Len(t)
    <3>1. k \in Nat /\ 1 <= k
      BY <2>3
    <3> QED BY <1>1, <2>2, <2>4, <2>5, <3>1, Within
  <2>7. FollowedAt(t, k, b)
    BY <1>1, <2>5, <2>6 DEF FollowedAt
  <2> QED BY <2>3, <2>7 DEF NeatTokens, FoldedTokens, NoIterations, b
<1> QED BY <1>2, <1>3, <1>4 DEF NeatTokens, FoldedTokens

\* A loop pushed on a neat frame leaves it neat: no body ends with a loop.
LEMMA PushedLoopIsNeat ==
  ASSUME NEW g, NeatTables(g), NEW t \in Seq(Token), NeatTokens(g, t), NEW l \in 1..Len(g.loops)
  PROVE  NeatTokens(g, Append(t, LoopToken(l)))
<1> DEFINE p == Append(t, LoopToken(l))
<1>0. LoopToken(l) \in Token /\ LoopToken(l).type = "Loop" /\ LoopToken(l).id = l
  BY DEF LoopToken, Token, TokenType
<1>1. /\ p \in Seq(Token) /\ Len(t) \in Nat /\ Len(p) = Len(t) + 1
      /\ p[Len(p)] = LoopToken(l) /\ \A i \in 1..Len(t) : p[i] = t[i]
  BY <1>0, AppendProperties
<1> HIDE DEF p
<1>2. LoopsInTable(g, p)
  BY <1>0, <1>1 DEF NeatTokens, LoopsInTable
<1>3. NoRepeats(p)
  <2> SUFFICES ASSUME NEW e \in 1..Len(p), NEW n \in 1..e, p[e].type # "Loop", Searched(n),
                      RepeatAt(p, e, n)
               PROVE  FALSE
    BY DEF NoRepeats
  <2>1. n \in Nat /\ e \in Nat /\ 1 <= n /\ 2 * n <= e /\ \A i \in (e - n + 1)..e : p[i] = p[i - n]
    BY DEF RepeatAt
  <2>2. e \in 1..Len(t)
    BY <1>0, <1>1
  <2>3. \A i \in (e - n + 1)..e : i \in 1..Len(t) /\ i - n \in 1..Len(t)
    BY <1>1, <2>1, <2>2
  <2>4. RepeatAt(t, e, n) /\ t[e].type # "Loop"
    BY <1>1, <2>1, <2>2, <2>3 DEF RepeatAt
  <2> QED BY <2>2, <2>4 DEF NeatTokens, FoldedTokens, NoRepeats
<1>4. NoIterations(g, p)
  <2> SUFFICES ASSUME NEW k \in 1..Len(p), p[k].type = "Loop", FollowedAt(p, k, BodyOf(g, p[k].id))
               PROVE  FALSE
    BY DEF NoIterations
  <2> DEFINE b == BodyOf(g, p[k].id)
  <2>1. p[k].id \in 1..Len(g.loops)
    BY <1>2 DEF LoopsInTable
  <2>2. Len(b) \in Nat \ {0} /\ b[Len(b)].type # "Loop"
    BY <2>1, BodyProps
  <2> HIDE DEF b
  <2>3. k + Len(b) <= Len(p) /\ \A i \in 1..Len(b) : p[k + i] = b[i]
    BY DEF FollowedAt, b
  <2>4. Len(b) \in 1..Len(b) /\ p[k + Len(b)] = b[Len(b)]
    BY <2>2, <2>3
  <2>5. k + Len(b) # Len(p)
    BY <1>0, <1>1, <2>2, <2>4
  <2>6. k \in 1..Len(t) /\ k + Len(b) <= Len(t) /\ \A i \in 1..Len(b) : k + i \in 1..Len(t)
    <3>1. k \in Nat /\ 1 <= k
      BY <1>1
    <3> QED BY <1>1, <2>2, <2>3, <2>5, <3>1, Within
  <2>7. FollowedAt(t, k, b) /\ p[k] = t[k]
    BY <1>1, <2>3, <2>6 DEF FollowedAt
  <2> QED BY <2>6, <2>7 DEF NeatTokens, FoldedTokens, NoIterations, b
<1> QED BY <1>2, <1>3, <1>4 DEF NeatTokens, FoldedTokens, p

\* The first tokens of a frame to which one was pushed, but not that one.
LEMMA FrontIsNeat ==
  ASSUME NEW g, NeatTables(g), NEW t \in Seq(Token), NeatTokens(g, t), NEW x \in Token,
         NEW n \in 0..Len(t)
  PROVE  /\ SubSeq(Append(t, x), 1, n) \in Seq(Token)
         /\ NeatTokens(g, SubSeq(Append(t, x), 1, n))
<1> DEFINE p == Append(t, x)
           f == SubSeq(p, 1, n)
<1>1. /\ p \in Seq(Token) /\ Len(t) \in Nat /\ Len(p) = Len(t) + 1
      /\ \A i \in 1..Len(t) : p[i] = t[i]
  BY AppendProperties
<1> HIDE DEF p
<1>2. f \in Seq(Token) /\ Len(f) = n /\ \A i \in 1..n : f[i] = p[i]
  BY <1>1, FirstTokensProps
<1> HIDE DEF f
<1>3. 0 \in Nat /\ 0 + Len(f) <= Len(t) /\ \A i \in 1..Len(f) : f[i] = t[0 + i]
  BY <1>1, <1>2
<1>4. NeatTokens(g, f)
  BY <1>2, <1>3, StretchIsNeat
<1> QED BY <1>2, <1>4 DEF f, p

\* AbsorbIteration leaves everything neat.
LEMMA AbsorbIsNeat ==
  ASSUME NEW g, NeatTables(g), NEW t \in Seq(Token), NeatTokens(g, t), NEW x \in Token,
         x.type # "Loop", g.tokens = Append(t, x),
         NEW n \in 1..(Len(g.tokens) - 1), EndsWithIteration(g, n)
  PROVE  LET h == AbsorbIteration(g, n)
         IN  NeatTables(h) /\ NeatTokens(h, h.tokens) /\ Extends(g, h)
<1> DEFINE kept == Len(g.tokens) - n
           l    == g.tokens[kept].id
           ls   == AddIteration(g.loops, l)
           f    == SubSeq(g.tokens, 1, kept)
           h    == AbsorbIteration(g, n)
<1>1. g \in Grammar /\ g.loops \in Seq(Loop) /\ g.sequences \in Seq(Seq(Token))
  BY GrammarTypes DEF NeatTables
<1>2. Len(g.tokens) = Len(t) + 1 /\ Len(t) \in Nat /\ kept \in 1..Len(t) /\ kept \in 0..Len(t)
  BY AppendProperties
<1>3. LoopsInTable(g, g.tokens)
  BY AppendProperties DEF NeatTokens, LoopsInTable
<1>4. l \in 1..Len(g.loops)
  BY <1>3, EndsWithIterationIs
<1>5. f \in Seq(Token) /\ NeatTokens(g, f)
  BY <1>2, FrontIsNeat
<1> HIDE DEF l, f
<1>6. /\ ls \in Seq(Loop) /\ Len(ls) = Len(g.loops)
      /\ \A k \in 1..Len(g.loops) : ls[k].repeated_token = g.loops[k].repeated_token
  BY <1>1, <1>4, AddIterationProps
<1> HIDE DEF ls
<1>7. h = [g EXCEPT !.loops = ls, !.tokens = f]
  BY DEF AbsorbIteration, ls, l, f
<1>8. h \in Grammar /\ h.sequences = g.sequences /\ h.loops = ls /\ h.tokens = f
  BY <1>1, <1>5, <1>6, <1>7 DEF Grammar
<1> HIDE DEF h
<1>9. Extends(g, h) /\ NeatLoops(g)
  BY <1>6, <1>8 DEF Extends, NeatTables
<1>10. NeatLoops(h)
  <2>1. \A k \in 1..Len(g.loops) : BodyOf(h, k) = BodyOf(g, k)
    BY <1>9, BodiesStay
  <2> QED BY <1>6, <1>8, <1>9, <2>1 DEF NeatLoops
<1>11. \A k \in 1..Len(h.sequences) : NeatTokens(h, h.sequences[k])
  BY <1>8, <1>9, TokensStayNeat DEF NeatTables
<1>12. NeatTokens(h, h.tokens)
  BY <1>5, <1>8, <1>9, TokensStayNeat
<1> QED BY <1>8, <1>9, <1>10, <1>11, <1>12 DEF NeatTables, h

\* FoldRepeat leaves everything neat: the new body is a stretch of the frame as
\* it was, and ends with the token that was stored last.
LEMMA FoldIsNeat ==
  ASSUME NEW g, NeatTables(g), NEW t \in Seq(Token), NeatTokens(g, t), NEW x \in Token,
         x.type # "Loop", g.tokens = Append(t, x),
         NEW n \in 1..(Len(g.tokens) - 1), EndsWithRepeat(g, n), Searched(n)
  PROVE  LET h == FoldRepeat(g, n)
         IN  NeatTables(h) /\ NeatTokens(h, h.tokens) /\ Extends(g, h)
<1> DEFINE m      == Len(g.tokens)
           body   == LastTokens(g.tokens, n)
           before == m - 2 * n
           sid    == SequenceIdOf(g.sequences, body)
           l      == LoopIdOf(g.loops, sid)
           sq     == WithSequence(g.sequences, body)
           lp     == AddIteration(WithLoop(g.loops, sid), l)
           f      == SubSeq(g.tokens, 1, before)
           h      == FoldRepeat(g, n)
<1>1. /\ g \in Grammar /\ g.tokens \in Seq(Token)
      /\ g.loops \in Seq(Loop) /\ g.sequences \in Seq(Seq(Token))
      /\ NeatLoops(g)
  BY GrammarTypes DEF NeatTables
<1>2. /\ Len(t) \in Nat /\ m = Len(t) + 1 /\ m \in Nat /\ g.tokens[m] = x
      /\ \A i \in 1..Len(t) : g.tokens[i] = t[i]
  BY AppendProperties
<1>3. n \in Nat \ {0} /\ 2 * n <= m /\ n \in 1..m
  BY <1>2 DEF EndsWithRepeat
<1>4. before \in 0..Len(t) /\ before + n <= Len(t) /\ before + n = m - n
  BY <1>2, <1>3
<1>5. f \in Seq(Token) /\ NeatTokens(g, f)
  BY <1>4, FrontIsNeat
<1>6. body \in Seq(Token) /\ Len(body) = n /\ \A i \in 1..n : body[i] = g.tokens[m - n + i]
  BY <1>1, <1>3, LastTokensProps
<1>7. RepeatAt(g.tokens, m, n)
  BY <1>1, <1>3, EndsWithRepeatIs
<1>8. Resize(g.tokens, before) = f
  BY <1>2, <1>4 DEF Resize
<1>9. /\ h.sequences = sq /\ h.loops = lp /\ h.tokens = Append(f, LoopToken(l))
      /\ h = [sequences |-> sq, loops |-> lp, tokens |-> Append(f, LoopToken(l))]
  BY <1>8 DEF FoldRepeat, ReplaceTokensInLoop
<1> HIDE DEF f, body, h
<1>10. NeatTokens(g, body)
  <2>1. ASSUME NEW i \in 1..n
        PROVE  body[i] = t[before + i]
    <3> DEFINE j == m - n + i
    <3>0. Len(t) \in Nat /\ m = Len(t) + 1 /\ n \in Nat \ {0} /\ 2 * n <= m
      BY <1>2, <1>3
    <3> HIDE DEF m
    <3>00. i \in Int /\ 1 <= i /\ i <= n
      BY <3>0
    <3>1. j \in (m - n + 1)..m /\ j - n = before + i /\ before + i \in 1..Len(t)
      <4>1. j \in (m - n + 1)..m
        BY <3>0, <3>00
      <4>2. j - n = before + i
        BY <3>0, <3>00
      <4>3. before + i \in 1..Len(t)
        BY <3>0, <3>00
      <4> QED BY <4>1, <4>2, <4>3
    <3>2. body[i] = g.tokens[j] /\ g.tokens[before + i] = t[before + i]
      BY <1>2, <1>6, <3>1
    <3> HIDE DEF j, before
    <3>3. \A k \in (m - n + 1)..m : g.tokens[k] = g.tokens[k - n]
      BY <1>7 DEF RepeatAt
    <3>4. g.tokens[j] = g.tokens[j - n]
      BY <3>1, <3>3
    <3> QED BY <3>1, <3>2, <3>4
  <2>2. before \in Nat /\ before + Len(body) <= Len(t)
    BY <1>4, <1>6
  <2> HIDE DEF before, m
  <2> QED BY <1>6, <2>1, <2>2, StretchIsNeat
<1>11. body # <<>> /\ body[Len(body)].type # "Loop" /\ Searched(Len(body))
  <2>1. n \in 1..n /\ m - n + n = m
    BY <1>2, <1>3
  <2>2. body[n] = x
    BY <1>2, <1>6, <2>1
  <2> QED BY <1>3, <1>6, <2>2
<1> HIDE DEF m, before
<1>12. /\ sq \in Seq(Seq(Token)) /\ sid \in 1..Len(sq) /\ sq[sid] = body
       /\ \A k \in 1..Len(g.sequences) : k \in 1..Len(sq) /\ sq[k] = g.sequences[k]
       /\ \A k \in 1..Len(sq) : k \notin 1..Len(g.sequences) => k = sid
  <2>1. /\ sq \in Seq(Seq(Token)) /\ sid \in 1..Len(sq) /\ sq[sid] = body
        /\ Len(g.sequences) <= Len(sq)
        /\ \A k \in 1..Len(g.sequences) : sq[k] = g.sequences[k]
        /\ \A k \in 1..Len(sq) : k \notin 1..Len(g.sequences) => k = sid
    BY <1>1, <1>6, WithSequenceProps
  <2>2. \A k \in 1..Len(g.sequences) : k \in 1..Len(sq)
    BY <1>1, <2>1
  <2> QED BY <2>1, <2>2
<1> HIDE DEF sq, sid
<1>13. /\ lp \in Seq(Loop) /\ l \in 1..Len(lp)
       /\ \A k \in 1..Len(g.loops) :
            k \in 1..Len(lp) /\ lp[k].repeated_token = g.loops[k].repeated_token
       /\ \A k \in 1..Len(lp) : k \notin 1..Len(g.loops) =>
            lp[k].repeated_token = SequenceToken(sid)
  <2>1. sid \in Nat /\ \A k \in 1..Len(g.loops) : g.loops[k].repeated_token.type = "Sequence"
    BY <1>1, <1>12 DEF NeatLoops
  <2>2. /\ lp \in Seq(Loop) /\ l \in 1..Len(lp) /\ Len(g.loops) <= Len(lp)
        /\ \A k \in 1..Len(g.loops) : k # l => lp[k] = g.loops[k]
        /\ \A k \in 1..Len(lp) : k \notin 1..Len(g.loops) => k = l
        /\ lp[l].repeated_token = SequenceToken(sid)
        /\ l \in 1..Len(g.loops) => lp[l].repeated_token = g.loops[l].repeated_token
    BY <1>1, <2>1, NewOccurrence
  <2> HIDE DEF lp, l
  <2>3. \A k \in 1..Len(g.loops) : k \in 1..Len(lp)
    BY <1>1, <2>2
  <2> QED BY <2>2, <2>3
<1> HIDE DEF lp, l
<1>14. h \in Grammar
  <2>1. LoopToken(l) \in Token
    BY <1>13 DEF LoopToken, Token, TokenType
  <2>2. Append(f, LoopToken(l)) \in Seq(Token)
    BY <1>5, <2>1, AppendProperties
  <2> QED BY <1>9, <1>12, <1>13, <2>2 DEF Grammar
<1>15. Extends(g, h)
  BY <1>9, <1>12, <1>13 DEF Extends
<1>16. NeatLoops(h)
  <2>1. ASSUME NEW k \in 1..Len(g.loops)
        PROVE  /\ BodyOf(h, k) = BodyOf(g, k)
               /\ h.loops[k].repeated_token.type = "Sequence"
               /\ h.loops[k].repeated_token.id \in 1..Len(h.sequences)
    BY <1>1, <1>15, BodiesStay DEF Extends, NeatLoops
  <2>2. ASSUME NEW k \in 1..Len(h.loops), k \notin 1..Len(g.loops)
        PROVE  /\ BodyOf(h, k) = body
               /\ h.loops[k].repeated_token.type = "Sequence"
               /\ h.loops[k].repeated_token.id \in 1..Len(h.sequences)
    <3>1. h.loops[k].repeated_token = SequenceToken(sid)
      BY <1>9, <1>13, <2>2
    <3> QED BY <1>9, <1>12, <3>1 DEF SequenceToken, BodyOf
  <2>3. ASSUME NEW k \in 1..Len(h.loops)
        PROVE  /\ h.loops[k].repeated_token.type = "Sequence"
               /\ h.loops[k].repeated_token.id \in 1..Len(h.sequences)
               /\ BodyOf(h, k) # <<>>
               /\ Searched(Len(BodyOf(h, k)))
               /\ BodyOf(h, k)[Len(BodyOf(h, k))].type # "Loop"
    <3>1. CASE k \in 1..Len(g.loops)
      BY <1>1, <2>1, <3>1 DEF NeatLoops
    <3>2. CASE k \notin 1..Len(g.loops)
      BY <1>11, <2>2, <3>2
    <3> QED BY <3>1, <3>2
  <2> QED BY <2>3 DEF NeatLoops
<1>17. ASSUME NEW k \in 1..Len(h.sequences)
       PROVE  NeatTokens(h, h.sequences[k])
  <2>1. CASE k \in 1..Len(g.sequences)
    <3>1. NeatTokens(g, g.sequences[k])
      BY <2>1 DEF NeatTables
    <3>2. NeatTokens(h, g.sequences[k])
      BY <1>1, <1>15, <3>1, TokensStayNeat
    <3> QED BY <1>15, <2>1, <3>2 DEF Extends
  <2>2. CASE k \notin 1..Len(g.sequences)
    <3>1. h.sequences[k] = body
      BY <1>9, <1>12, <2>2
    <3> QED BY <1>1, <1>10, <1>15, <3>1, TokensStayNeat
  <2> QED BY <2>1, <2>2
<1>18. NeatTables(h)
  BY <1>14, <1>16, <1>17 DEF NeatTables
<1>19. NeatTokens(h, f)
  BY <1>1, <1>5, <1>15, TokensStayNeat
<1>20. NeatTokens(h, h.tokens)
  BY <1>5, <1>9, <1>13, <1>18, <1>19, PushedLoopIsNeat
<1> QED BY <1>15, <1>18, <1>20 DEF h


\* The tables are neat whatever frame they are seen with.
LEMMA SameNeatTables ==
  ASSUME NEW g, NeatTables(g), NEW h \in Grammar, h.sequences = g.sequences, h.loops = g.loops
  PROVE  NeatTables(h) /\ Extends(g, h)
<1>1. Extends(g, h) /\ NeatLoops(g)
  BY DEF Extends, NeatTables
<1>2. NeatLoops(h)
  BY DEF NeatTables, NeatLoops, BodyOf
<1>3. \A n \in 1..Len(h.sequences) : NeatTokens(h, h.sequences[n])
  BY <1>1, TokensStayNeat DEF NeatTables
<1> QED BY <1>1, <1>2, <1>3 DEF NeatTables

\* storeToken leaves everything neat.
LEMMA StoreIsNeat ==
  ASSUME IsBasic, NEW g, NeatTables(g), NeatTokens(g, g.tokens), NEW x \in Token,
         x.type # "Loop"
  PROVE  LET h == StoreToken(g, x)
         IN  NeatTables(h) /\ NeatTokens(h, h.tokens) /\ Extends(g, h)
<1> DEFINE t == g.tokens
           p == Pushed(g, x)
           h == FindLoopBasic(p)
<1>1. StoreToken(g, x) = h
  BY DEF StoreToken, FindLoop, IsBasic, Pushed
<1>2. g \in Grammar /\ t \in Seq(Token)
  BY GrammarTypes DEF NeatTables
<1>3. /\ p \in Grammar /\ p.sequences = g.sequences /\ p.loops = g.loops
      /\ p.tokens = Append(t, x)
  <2>1. Append(t, x) \in Seq(Token) /\ p = [g EXCEPT !.tokens = Append(t, x)]
    BY <1>2 DEF Pushed
  <2> QED BY <1>2, <2>1 DEF Grammar
<1> HIDE DEF p
<1>4. NeatTables(p) /\ Extends(g, p) /\ NeatLoops(g)
  BY <1>3, SameNeatTables DEF NeatTables
<1>5. NeatTokens(p, t)
  BY <1>4, TokensStayNeat
<1> HIDE DEF t
<1>6. NeatTables(h) /\ NeatTokens(h, h.tokens) /\ Extends(p, h)
  <2>1. CASE \E n \in LoopLengths(p) : IsShortestLoop(p, n)
    <3> DEFINE n == CHOOSE i \in LoopLengths(p) : IsShortestLoop(p, i)
    <3>1. n \in LoopLengths(p) /\ IsShortestLoop(p, n) /\ h = RewriteLoop(p, n)
      BY <2>1 DEF FindLoopBasic
    <3> HIDE DEF n, h
    <3>2. n \in 1..(Len(p.tokens) - 1) /\ Searched(n)
      BY <3>1, MaxLoopLengthAssumption DEF LoopLengths, Searched
    <3>3. CASE EndsWithIteration(p, n)
      <4>1. h = AbsorbIteration(p, n)
        BY <3>1, <3>3 DEF RewriteLoop
      <4> QED BY <1>2, <1>3, <1>4, <1>5, <3>2, <3>3, <4>1, AbsorbIsNeat DEF t
    <3>4. CASE ~EndsWithIteration(p, n)
      <4>1. h = FoldRepeat(p, n) /\ EndsWithRepeat(p, n)
        BY <3>1, <3>4 DEF RewriteLoop, IsShortestLoop, EndsWithLoop
      <4> QED BY <1>2, <1>3, <1>4, <1>5, <3>2, <4>1, FoldIsNeat DEF t
    <3> QED BY <3>3, <3>4
  <2>2. CASE ~\E n \in LoopLengths(p) : IsShortestLoop(p, n)
    <3>1. h = p
      BY <2>2 DEF FindLoopBasic
    <3> HIDE DEF h
    <3>2. Len(p.tokens) \in Nat
      BY <1>3, GrammarTypes
    <3>3. \A n \in LoopLengths(p) : ~EndsWithLoop(p, n)
      BY <2>2, <3>2, SearchFinds
    <3>4. NeatTokens(p, p.tokens)
      BY <1>2, <1>3, <1>4, <1>5, <3>3, NothingFoundIsNeat DEF t
    <3>5. Extends(p, p)
      BY DEF Extends
    <3> QED BY <1>4, <3>1, <3>4, <3>5
  <2> QED BY <2>1, <2>2
<1> HIDE DEF h
<1>7. Extends(g, h)
  BY <1>3, <1>6 DEF Extends
<1> QED BY <1>1, <1>6, <1>7

\* So does recordExitFunction: the frame that ends becomes a sequence as it is.
LEMMA ExitIsNeat ==
  ASSUME IsBasic, NEW g, NeatTables(g), NeatTokens(g, g.tokens),
         NEW upper \in Seq(Token), NeatTokens(g, upper)
  PROVE  LET h == ExitInto(g, upper)
         IN  NeatTables(h) /\ NeatTokens(h, h.tokens) /\ Extends(g, h)
<1> DEFINE sid == SequenceIdOf(g.sequences, g.tokens)
           sq  == WithSequence(g.sequences, g.tokens)
           x   == SequenceToken(sid)
           p   == [g EXCEPT !.sequences = WithSequence(@, g.tokens), !.tokens = upper]
           h   == ExitInto(g, upper)
<1>1. h = StoreToken(p, x)
  BY DEF ExitInto
<1>2. /\ g \in Grammar /\ g.tokens \in Seq(Token)
      /\ g.sequences \in Seq(Seq(Token)) /\ g.loops \in Seq(Loop) /\ NeatLoops(g)
  BY GrammarTypes DEF NeatTables
<1>3. /\ sq \in Seq(Seq(Token)) /\ sid \in 1..Len(sq) /\ Len(g.sequences) <= Len(sq)
      /\ \A n \in 1..Len(g.sequences) : sq[n] = g.sequences[n]
      /\ \A n \in 1..Len(sq) : n \notin 1..Len(g.sequences) => n = sid
      /\ sq[sid] = g.tokens
  BY <1>2, WithSequenceProps
<1>4. p = [g EXCEPT !.sequences = sq, !.tokens = upper]
  OBVIOUS
<1> HIDE DEF sq, sid, h
<1>5. p \in Grammar /\ p.sequences = sq /\ p.loops = g.loops /\ p.tokens = upper
  BY <1>2, <1>3, <1>4 DEF Grammar
<1> HIDE DEF p
<1>6. x \in Token /\ x.type # "Loop"
  BY <1>3 DEF SequenceToken, Token, TokenType
<1> HIDE DEF x
<1>7. Extends(g, p)
  <2>1. \A n \in 1..Len(g.sequences) : n \in 1..Len(sq)
    BY <1>2, <1>3
  <2> QED BY <1>3, <1>5, <2>1 DEF Extends
<1>8. NeatLoops(p)
  <2>1. \A k \in 1..Len(g.loops) : BodyOf(p, k) = BodyOf(g, k)
    BY <1>2, <1>7, BodiesStay
  <2> QED BY <1>2, <1>5, <1>7, <2>1 DEF NeatLoops, Extends
<1>9. ASSUME NEW n \in 1..Len(p.sequences)
      PROVE  NeatTokens(p, p.sequences[n])
  <2>1. CASE n \in 1..Len(g.sequences)
    <3>1. NeatTokens(g, g.sequences[n])
      BY <2>1 DEF NeatTables
    <3>2. NeatTokens(p, g.sequences[n])
      BY <1>2, <1>7, <3>1, TokensStayNeat
    <3> QED BY <1>3, <1>5, <2>1, <3>2
  <2>2. CASE n \notin 1..Len(g.sequences)
    <3>1. p.sequences[n] = g.tokens
      BY <1>3, <1>5, <2>2
    <3> QED BY <1>2, <1>7, <3>1, TokensStayNeat
  <2> QED BY <2>1, <2>2
<1>10. NeatTables(p) /\ NeatTokens(p, p.tokens)
  <2>1. NeatTokens(p, upper)
    BY <1>2, <1>7, TokensStayNeat
  <2> QED BY <1>5, <1>8, <1>9, <2>1 DEF NeatTables
<1>11. NeatTables(h) /\ NeatTokens(h, h.tokens) /\ Extends(p, h)
  BY <1>1, <1>6, <1>10, StoreIsNeat
<1>12. Extends(g, h)
  BY <1>7, <1>11 DEF Extends
<1> QED BY <1>11, <1>12 DEF h

-----------------------------------------------------------------------------
(* The calls *)

\* Everything is neat between two calls.
NInv ==
  \A d \in Depths : NeatTables(GrammarAt(d)) /\ NeatTokens(GrammarAt(d), og_seq[d])

\* An empty frame is neat.
LEMMA NoTokensAreNeat ==
  ASSUME NEW g, NEW t, t = <<>>
  PROVE  NeatTokens(g, t)
<1>1. 1..Len(t) = {}
  OBVIOUS
<1> QED BY <1>1 DEF NeatTokens, LoopsInTable, FoldedTokens, NoRepeats, NoIterations

\* Every frame of the new state is neat when the rewritten one is.
LEMMA FramesStayNeat ==
  ASSUME NInv, TypeOK, TypeOK', NEW d \in Depths, NEW h,
         NeatTables(h), NeatTokens(h, h.tokens), Extends(GrammarAt(d), h),
         sequences' = h.sequences, loops' = h.loops, og_seq'[d] = h.tokens,
         \A c \in Depths \ {d} : og_seq'[c] = og_seq[c] \/ og_seq'[c] = <<>>
  PROVE  NInv'
<1> SUFFICES ASSUME NEW c \in Depths
             PROVE  NeatTables(GrammarAt(c)') /\ NeatTokens(GrammarAt(c)', og_seq'[c])
  BY DEF NInv, Depths
<1> DEFINE f == GrammarAt(c)'
           g == GrammarAt(d)
<1>1. f \in Grammar /\ f.sequences = h.sequences /\ f.loops = h.loops
  BY DEF GrammarAt, Grammar, TypeOK
<1> HIDE DEF f
<1>2. NeatTables(f) /\ Extends(h, f) /\ NeatLoops(h)
  BY <1>1, SameNeatTables DEF NeatTables
<1>3. NeatTokens(f, og_seq'[c])
  <2>1. CASE c = d
    BY <1>2, <2>1, TokensStayNeat
  <2>2. CASE og_seq'[c] = <<>>
    BY <2>2, NoTokensAreNeat
  <2>3. CASE c # d /\ og_seq'[c] = og_seq[c]
    <3>1. /\ NeatTables(GrammarAt(c)) /\ NeatLoops(GrammarAt(c))
          /\ NeatTokens(GrammarAt(c), og_seq[c])
      BY DEF NInv, NeatTables
    <3>2. Extends(GrammarAt(c), h)
      BY DEF Extends, GrammarAt
    <3>3. NeatTokens(h, og_seq[c])
      BY <3>1, <3>2, TokensStayNeat
    <3> QED BY <1>2, <2>3, <3>3, TokensStayNeat
  <2> QED BY <2>1, <2>2, <2>3
<1> QED BY <1>2, <1>3 DEF f


\* A call that stores a token in the frame d.
LEMMA SetFrameIsNeat ==
  ASSUME IsBasic, NInv, TypeOK, TypeOK', NEW d \in Depths, NEW x \in Token, x.type # "Loop",
         SetFrame(d, StoreToken(GrammarAt(d), x))
  PROVE  NInv'
<1> DEFINE g == GrammarAt(d)
           h == StoreToken(g, x)
<1>1. NeatTables(g) /\ NeatTokens(g, g.tokens)
  BY GrammarAtProps DEF NInv
<1>2. sequences' = h.sequences /\ loops' = h.loops /\ og_seq' = [og_seq EXCEPT ![d] = h.tokens]
  BY DEF SetFrame
<1> HIDE DEF g
<1>3. NeatTables(h) /\ NeatTokens(h, h.tokens) /\ Extends(g, h)
  BY <1>1, StoreIsNeat
<1> HIDE DEF h
<1>4. og_seq'[d] = h.tokens /\ \A c \in Depths \ {d} : og_seq'[c] = og_seq[c]
  BY <1>2 DEF TypeOK
<1> QED BY <1>2, <1>3, <1>4, FramesStayNeat DEF g

\* A call that closes the frame d, whose tokens are those of b.
LEMMA RecordExitIsNeat ==
  ASSUME IsBasic, NInv, TypeOK, TypeOK', NEW d \in Depths, d > 0, NEW b,
         NeatTables(b), NeatTokens(b, b.tokens), Extends(GrammarAt(d), b),
         RecordExitFunction(d, b)
  PROVE  NInv'
<1> DEFINE c == d - 1
           upper == og_seq[c]
           h == ExitInto(b, upper)
<1>1. c \in Depths /\ c # d
  BY MaxDepthAssumption DEF Depths
<1>2. /\ sequences' = h.sequences /\ loops' = h.loops
      /\ og_seq' = [og_seq EXCEPT ![c] = h.tokens, ![d] = <<>>]
  BY DEF RecordExitFunction
<1> HIDE DEF c
<1>3. upper \in Seq(Token) /\ NeatTokens(GrammarAt(c), upper) /\ NeatLoops(GrammarAt(c))
  BY <1>1, GrammarAtProps DEF NInv, NeatTables
<1>4. Extends(GrammarAt(c), b)
  BY DEF Extends, GrammarAt
<1>5. NeatTokens(b, upper)
  BY <1>3, <1>4, TokensStayNeat
<1> HIDE DEF upper
<1>6. NeatTables(h) /\ NeatTokens(h, h.tokens) /\ Extends(b, h)
  BY <1>3, <1>5, ExitIsNeat
<1> HIDE DEF h
<1>7. Extends(GrammarAt(c), h)
  BY <1>4, <1>6 DEF Extends
<1>8. /\ og_seq'[c] = h.tokens
      /\ \A e \in Depths \ {c} : og_seq'[e] = og_seq[e] \/ og_seq'[e] = <<>>
  <2> DEFINE once == [og_seq EXCEPT ![c] = h.tokens]
  <2>1. og_seq' = [once EXCEPT ![d] = <<>>]
    BY <1>2
  <2>2. h.tokens \in Seq(Token)
    BY <1>6, GrammarTypes DEF NeatTables
  <2>3. /\ once \in [Depths -> Seq(Token)] /\ once[c] = h.tokens
        /\ \A e \in Depths \ {c} : once[e] = og_seq[e]
    BY <1>1, <2>2 DEF TypeOK
  <2> HIDE DEF once
  <2> QED BY <1>1, <2>1, <2>3
<1> QED BY <1>1, <1>2, <1>6, <1>7, <1>8, FramesStayNeat

\* The token of an event.
LEMMA EventTokenProps ==
  ASSUME TypeOK, NEW e \in Event
  PROVE  EventToken(EventIdOf(e)) \in Token /\ EventToken(EventIdOf(e)).type # "Loop"
<1>1. EventIdOf(e) \in Nat
  <2>1. EventIdOf(e) \in 1..Len(WithEvent(e))
    BY EventProps
  <2> QED BY <2>1
<1> QED BY <1>1 DEF EventToken, Token, TokenType

\* Every step of the writer leaves everything neat.
LEMMA NextIsNeat ==
  ASSUME IsBasic, NInv, TypeOK, TypeOK', [Next]_vars
  PROVE  NInv'
<1>1. ASSUME NEW e \in BlockStart, RecordBlockStart(e)
      PROVE  NInv'
  <2>1. cur_depth + 1 \in Depths
    BY <1>1, MaxDepthAssumption DEF RecordBlockStart, TypeOK, Depths
  <2>2. e \in Event
    BY DEF Event
  <2> QED BY <1>1, <2>1, <2>2, EventTokenProps, SetFrameIsNeat DEF RecordBlockStart
<1>2. ASSUME NEW e \in Singleton, RecordSingleton(e)
      PROVE  NInv'
  <2>1. cur_depth \in Depths
    BY <1>2 DEF RecordSingleton, TypeOK
  <2>2. e \in Event
    BY DEF Event
  <2> QED BY <1>2, <2>1, <2>2, EventTokenProps, SetFrameIsNeat DEF RecordSingleton
<1>3. ASSUME NEW e \in BlockEnd, RecordBlockEnd(e)
      PROVE  NInv'
  <2> DEFINE d == cur_depth
             g == GrammarAt(d)
             x == EventToken(EventIdOf(e))
             b == StoreToken(g, x)
  <2>1. d \in Depths /\ d > 0 /\ RecordExitFunction(d, b) /\ e \in Event
    BY <1>3 DEF RecordBlockEnd, TypeOK, Event
  <2> HIDE DEF d
  <2>2. x \in Token /\ x.type # "Loop"
    BY <2>1, EventTokenProps
  <2>3. NeatTables(g) /\ NeatTokens(g, g.tokens)
    BY <2>1, GrammarAtProps DEF NInv
  <2> HIDE DEF g, x
  <2>4. NeatTables(b) /\ NeatTokens(b, b.tokens) /\ Extends(g, b)
    BY <2>2, <2>3, StoreIsNeat
  <2> HIDE DEF b
  <2> QED BY <2>1, <2>4, RecordExitIsNeat DEF g
<1>4. ASSUME CloseUnfinished
      PROVE  NInv'
  <2> DEFINE d == cur_depth
             g == GrammarAt(d)
  <2>1. d \in Depths /\ d > 0 /\ RecordExitFunction(d, g)
    BY <1>4 DEF CloseUnfinished, TypeOK
  <2> HIDE DEF d
  <2>2. NeatTables(g) /\ NeatTokens(g, g.tokens) /\ Extends(g, g)
    BY <2>1, GrammarAtProps DEF NInv, Extends
  <2> QED BY <2>1, <2>2, RecordExitIsNeat
<1>5. ASSUME UNCHANGED <<sequences, loops, og_seq>>
      PROVE  NInv'
  BY <1>5 DEF NInv, GrammarAt, Depths
<1> QED
  <2>1. CASE UNCHANGED vars
    BY <1>5, <2>1 DEF vars
  <2>2. CASE \E e \in BlockStart : RecordBlockStartTooDeep(e)
    BY <1>5, <2>2 DEF RecordBlockStartTooDeep
  <2>3. CASE ThreadClose \/ FinalizeThread
    BY <1>5, <2>3 DEF ThreadClose, FinalizeThread
  <2> QED BY <1>1, <1>2, <1>3, <1>4, <2>1, <2>2, <2>3 DEF Next, Record, Close

\* Nothing is left behind, in any reachable state.
THEOREM AlwaysNeat ==
  ASSUME IsBasic
  PROVE  Spec => []NInv
<1>1. Init /\ TypeOK => NInv
  <2> SUFFICES ASSUME Init, TypeOK, NEW d \in Depths
               PROVE  NeatTables(GrammarAt(d)) /\ NeatTokens(GrammarAt(d), og_seq[d])
    BY DEF NInv
  <2>1. /\ GrammarAt(d) \in Grammar /\ GrammarAt(d).sequences = <<>>
        /\ GrammarAt(d).loops = <<>> /\ og_seq[d] = <<>>
    BY GrammarAtProps DEF Init
  <2>2. Len(<<>>) = 0 /\ 1..0 = {}
    OBVIOUS
  <2>3. NeatTables(GrammarAt(d))
    BY <2>1, <2>2 DEF NeatTables, NeatLoops
  <2> QED BY <2>1, <2>3, NoTokensAreNeat
<1>2. NInv /\ TypeOK /\ TypeOK' /\ [Next]_vars => NInv'
  BY NextIsNeat
<1>3. Algorithm # "Filter"
  BY DEF IsBasic
<1>4. Spec => []TypeOK
  BY <1>3, TypeCorrect
<1> QED BY <1>1, <1>2, <1>4, PTL DEF Spec


-----------------------------------------------------------------------------
(* What the writer leaves behind.  The theorems hold for findLoopBasic,      *)
(* truncated or not, and for every set of events, every depth and every      *)
(* maxLoopLength.                                                            *)

\* The comparison of the property, token by token.
LEMMA FollowedByBodyIs ==
  ASSUME TypeOK, NEW d \in Depths, NeatTables(GrammarAt(d)), NEW t \in Seq(Token),
         NeatTokens(GrammarAt(d), t), NEW k \in 1..Len(t)
  PROVE  ~FollowedByBody(t, k)
<1> SUFFICES ASSUME FollowedByBody(t, k)
             PROVE  FALSE
  OBVIOUS
<1> DEFINE g == GrammarAt(d)
           b == BodyOf(g, t[k].id)
           n == Len(b)
           s == SubSeq(t, k + 1, k + n)
<1>1. t[k].type = "Loop" /\ k + n <= Len(t) /\ s = b
  BY DEF FollowedByBody, BodyOf, GrammarAt
<1>2. t[k].id \in 1..Len(g.loops)
  BY <1>1 DEF NeatTokens, LoopsInTable
<1> HIDE DEF g
<1>3. b \in Seq(Token) /\ n \in Nat \ {0}
  BY <1>2, BodyProps DEF g
<1> HIDE DEF b, n
<1>4. \A i \in 1..n : s[i] = t[k + i]
  <2>1. /\ k + 1 \in Int /\ k + n \in Int /\ k + 1 <= k + n
        /\ \A i \in (k + 1)..(k + n) : i \in 1..Len(t)
    BY <1>1, <1>3
  <2>2. \A i \in (k + 1)..(k + n) : t[i] \in Token
    BY <2>1, ElementOfSeq
  <2> DEFINE x == k + 1
             y == k + n
  <2>3. /\ x \in Int /\ y \in Int /\ x <= y /\ y - x + 1 = n
        /\ \A i \in 1..n : x + i - 1 = k + i
    BY <1>3, <2>1
  <2> HIDE DEF x, y
  <2>4. \A i \in x..y : t[i] \in Token
    BY <2>2 DEF x, y
  <2>5. \A i \in 1..n : SubSeq(t, x, y)[i] = t[x + i - 1]
    BY <2>3, <2>4, SubSeqProperties
  <2> QED BY <2>3, <2>5 DEF x, y
<1>5. FollowedAt(t, k, b)
  BY <1>1, <1>4 DEF FollowedAt, n
<1> QED BY <1>1, <1>5 DEF NeatTokens, FoldedTokens, NoIterations, b, g

\* No frame and no stored sequence ever holds a loop in front of its own body: an
\* iteration that ends is always absorbed by the loop it continues.
THEOREM IterationsAreAbsorbed ==
  ASSUME IsBasic
  PROVE  Spec => []NoIterationLeftBehind
<1>1. TypeOK /\ NInv => NoIterationLeftBehind
  <2> SUFFICES ASSUME TypeOK, NInv
               PROVE  NoIterationLeftBehind
    OBVIOUS
  <2>1. ASSUME NEW d \in Depths, NEW k \in DOMAIN og_seq[d]
        PROVE  ~FollowedByBody(og_seq[d], k)
    <3>1. og_seq[d] \in Seq(Token) /\ k \in 1..Len(og_seq[d])
      BY Domains DEF TypeOK
    <3> QED BY <3>1, FollowedByBodyIs DEF NInv
  <2>2. ASSUME NEW n \in DOMAIN sequences, NEW k \in DOMAIN sequences[n]
        PROVE  ~FollowedByBody(sequences[n], k)
    <3>1. /\ n \in 1..Len(sequences) /\ sequences[n] \in Seq(Token)
          /\ k \in 1..Len(sequences[n])
      BY Domains
    <3>2. 0 \in Depths
      BY MaxDepthAssumption DEF Depths
    <3>3. NeatTables(GrammarAt(0)) /\ GrammarAt(0).sequences = sequences
      BY <3>2, GrammarAtProps DEF NInv
    <3>4. NeatTokens(GrammarAt(0), sequences[n])
      BY <3>1, <3>3 DEF NeatTables
    <3> QED BY <3>1, <3>2, <3>3, <3>4, FollowedByBodyIs
  <2> QED BY <2>1, <2>2 DEF NoIterationLeftBehind
<1>2. Algorithm # "Filter"
  BY DEF IsBasic
<1> QED BY <1>1, <1>2, TypeCorrect, AlwaysNeat, PTL

\* No frame ever ends with the same tokens twice, below maxLoopLength: a block
\* that is repeated is always folded.
THEOREM RepeatsAreFolded ==
  ASSUME IsBasic
  PROVE  Spec => []NoRepeatLeftBehind
<1>1. TypeOK /\ NInv => NoRepeatLeftBehind
  <2> SUFFICES ASSUME TypeOK, NInv, NEW d \in Depths, NEW n \in 1..(MaxLoopLength - 1),
                      EndsWithRepeat(GrammarAt(d), n), og_seq[d][Len(og_seq[d])].type # "Loop"
               PROVE  FALSE
    BY DEF NoRepeatLeftBehind, RepeatsFolded
  <2> DEFINE g == GrammarAt(d)
             t == og_seq[d]
  <2>1. g \in Grammar /\ g.tokens = t /\ t \in Seq(Token) /\ Len(t) \in Nat
    BY GrammarAtProps
  <2>2. NeatTokens(g, t)
    BY DEF NInv
  <2> HIDE DEF g, t
  <2>3. 2 * n <= Len(t) /\ n \in Nat /\ 1 <= n /\ n < MaxLoopLength
    BY <2>1, MaxLoopLengthAssumption DEF EndsWithRepeat, g
  <2>4. n \in 1..Len(t) /\ Len(t) \in 1..Len(t) /\ Searched(n)
    BY <2>1, <2>3 DEF Searched
  <2>5. RepeatAt(t, Len(t), n)
    BY <2>1, <2>4, EndsWithRepeatIs DEF g
  <2> QED BY <2>2, <2>4, <2>5 DEF NeatTokens, FoldedTokens, NoRepeats, t
<1>2. Algorithm # "Filter"
  BY DEF IsBasic
<1> QED BY <1>1, <1>2, TypeCorrect, AlwaysNeat, PTL


-----------------------------------------------------------------------------
(* There is never a choice between two loops.  Of two that end with the same *)
(* token, one shows in the tokens before it, or in a stored body, where it   *)
(* would have been found earlier.                                            *)

\* One token of a repetition, and the one it repeats.
LEMMA Repeated ==
  ASSUME NEW t, NEW e \in Nat, NEW n \in Nat, RepeatAt(t, e, n),
         NEW a \in Int, NEW c \in Int, a = c + n, e - n < a, a <= e
  PROVE  t[a] = t[c]
<1>1. a \in (e - n + 1)..e /\ a - n = c
  OBVIOUS
<1>2. \A i \in (e - n + 1)..e : t[i] = t[i - n]
  BY DEF RepeatAt
<1>3. t[a] = t[a - n]
  BY <1>1, <1>2
<1> QED BY <1>1, <1>3

\* A repetition from its tokens.
LEMMA RepeatFrom ==
  ASSUME NEW t, NEW e \in Nat, NEW n \in Nat, 2 * n <= e,
         \A i \in Int : e - n < i /\ i <= e => t[i] = t[i - n]
  PROVE  RepeatAt(t, e, n)
<1> SUFFICES ASSUME NEW i \in (e - n + 1)..e
             PROVE  t[i] = t[i - n]
  BY DEF RepeatAt
<1>1. i \in Int /\ e - n < i /\ i <= e
  OBVIOUS
<1> QED BY <1>1

\* No loop ends among the first e - 1 tokens of p.
FoldedBefore(g, p, e) ==
  /\ \A c \in 1..(e - 1) : \A n \in 1..c :
       p[c].type # "Loop" /\ Searched(n) => ~RepeatAt(p, c, n)
  /\ \A k \in 1..(e - 1) :
       LET b == BodyOf(g, p[k].id)
       IN  p[k].type = "Loop" /\ k + Len(b) <= e - 1 => \E i \in 1..Len(b) : p[k + i] # b[i]

\* That holds when a token was pushed on a neat frame.
LEMMA PushedOnFolded ==
  ASSUME NEW g, NEW t \in Seq(Token), NeatTokens(g, t),
         NEW p, Len(p) = Len(t) + 1, \A i \in 1..Len(t) : p[i] = t[i]
  PROVE  FoldedBefore(g, p, Len(p))
<1>1. Len(t) \in Nat /\ 1..(Len(p) - 1) = 1..Len(t) /\ Len(p) - 1 = Len(t)
  OBVIOUS
<1>2. ASSUME NEW c \in 1..Len(t), NEW n \in 1..c, p[c].type # "Loop", Searched(n),
             RepeatAt(p, c, n)
      PROVE  FALSE
  <2>1. c \in Nat /\ n \in Nat /\ 2 * n <= c /\ c <= Len(t) /\ 1 <= n
    BY <1>1, <1>2 DEF RepeatAt
  <2>2. ASSUME NEW i \in Int, c - n < i, i <= c
        PROVE  t[i] = t[i - n]
    <3>1. i \in 1..Len(t) /\ i - n \in 1..Len(t)
      BY <1>1, <2>1, <2>2
    <3>2. p[i] = p[i - n]
      <4>1. i - n \in Int /\ i = (i - n) + n
        BY <2>1
      <4> QED BY <1>2, <2>1, <2>2, <4>1, Repeated
    <3> QED BY <3>1, <3>2
  <2>3. RepeatAt(t, c, n)
    BY <2>1, <2>2, RepeatFrom
  <2> QED BY <1>2, <2>3 DEF NeatTokens, FoldedTokens, NoRepeats
<1>3. ASSUME NEW k \in 1..Len(t), p[k].type = "Loop",
             k + Len(BodyOf(g, p[k].id)) <= Len(t)
      PROVE  \E i \in 1..Len(BodyOf(g, p[k].id)) : p[k + i] # BodyOf(g, p[k].id)[i]
  <2> DEFINE b == BodyOf(g, p[k].id)
  <2>1. p[k] = t[k]
    OBVIOUS
  <2>2. ~FollowedAt(t, k, b)
    BY <1>3, <2>1 DEF NeatTokens, FoldedTokens, NoIterations
  <2> HIDE DEF b
  <2>3. k + Len(b) <= Len(t)
    BY <1>3 DEF b
  <2>4. PICK i \in 1..Len(b) : t[k + i] # b[i]
    BY <2>2, <2>3 DEF FollowedAt
  <2>5. k + i \in 1..Len(t)
    <3>1. i \in Int /\ 1 <= i /\ i <= Len(b) /\ Len(b) \in Int
      BY <2>3
    <3> QED BY <1>1, <2>3, <3>1
  <2> QED BY <2>4, <2>5 DEF b
<1> QED BY <1>1, <1>2, <1>3 DEF FoldedBefore

\* Two repetitions do not end with the same token.
LEMMA OneRepeat ==
  ASSUME NEW g, NEW p, NEW e \in Nat, FoldedBefore(g, p, e), p[e].type # "Loop",
         NEW n \in Nat, NEW m \in Nat, 1 <= n, n < m, Searched(m),
         RepeatAt(p, e, n), RepeatAt(p, e, m)
  PROVE  FALSE
<1>1. 2 * m <= e /\ Searched(n)
  BY MaxLoopLengthAssumption DEF RepeatAt, Searched
<1>2. CASE 2 * n <= m
  <2> DEFINE c == e - m
  <2>1. c \in 1..(e - 1) /\ c \in Nat /\ n \in 1..c /\ 2 * n <= c /\ c = e - m /\ c + m = e
    BY <1>1, <1>2
  <2> HIDE DEF c
  <2>2. p[e] = p[c]
    <3>1. e \in Int /\ c \in Int /\ e = c + m /\ e - m < e /\ e <= e
      BY <1>1, <2>1
    <3> QED BY <3>1, Repeated
  <2>3. ASSUME NEW i \in Int, c - n < i, i <= c
        PROVE  p[i] = p[i - n]
    <3>1. p[i + m] = p[i]
      <4>1. i + m \in Int /\ e - m < i + m /\ i + m <= e
        BY <1>1, <2>1, <2>3
      <4> QED BY <4>1, Repeated
    <3>2. p[i + m] = p[i + m - n]
      <4>1. i + m \in Int /\ i + m - n \in Int /\ i + m = (i + m - n) + n
            /\ e - n < i + m /\ i + m <= e
        BY <1>1, <2>1, <2>3
      <4> QED BY <4>1, Repeated
    <3>3. p[i + m - n] = p[i - n]
      <4>1. i + m - n \in Int /\ i - n \in Int /\ i + m - n = (i - n) + m
            /\ e - m < i + m - n /\ i + m - n <= e
        BY <1>1, <1>2, <2>1, <2>3
      <4> QED BY <4>1, Repeated
    <3> QED BY <3>1, <3>2, <3>3
  <2>4. RepeatAt(p, c, n)
    BY <2>1, <2>3, RepeatFrom
  <2> QED BY <1>1, <2>1, <2>2, <2>4 DEF FoldedBefore
<1>3. CASE m < 2 * n
  <2> DEFINE c == e - n
             q == m - n
  <2>1. /\ c \in 1..(e - 1) /\ c \in Nat /\ q \in 1..c /\ q \in Nat /\ 2 * q <= c
        /\ c + n = e /\ q + n = m
    BY <1>1, <1>3
  <2> HIDE DEF c, q
  <2>2. p[e] = p[c]
    <3>1. e \in Int /\ c \in Int /\ e = c + n /\ e - n < e /\ e <= e
      BY <1>1, <2>1
    <3> QED BY <3>1, Repeated
  <2>3. ASSUME NEW i \in Int, c - q < i, i <= c
        PROVE  p[i] = p[i - q]
    <3>1. p[i + n] = p[i]
      <4>1. i + n \in Int /\ e - n < i + n /\ i + n <= e
        BY <1>1, <1>3, <2>1, <2>3
      <4> QED BY <4>1, Repeated
    <3>2. p[i + n] = p[i - q]
      <4>1. i + n \in Int /\ i - q \in Int /\ i + n = (i - q) + m /\ e - m < i + n /\ i + n <= e
        BY <1>1, <1>3, <2>1, <2>3
      <4> QED BY <4>1, Repeated
    <3> QED BY <3>1, <3>2
  <2>4. RepeatAt(p, c, q)
    BY <2>1, <2>3, RepeatFrom
  <2>5. Searched(q)
    BY <2>1, MaxLoopLengthAssumption DEF Searched
  <2> QED BY <2>1, <2>2, <2>4, <2>5 DEF FoldedBefore
<1> QED BY <1>2, <1>3


\* The last j tokens of p are an iteration of the loop l, which is before them.
IterationAt(g, p, e, j, l) ==
  /\ j \in 1..(e - 1) /\ l \in 1..Len(g.loops)
  /\ p[e - j].type = "Loop" /\ p[e - j].id = l
  /\ Len(BodyOf(g, l)) = j
  /\ \A i \in 1..j : p[e - j + i] = BodyOf(g, l)[i]

\* One token of an iteration.
LEMMA Iterated ==
  ASSUME NEW g, NEW p, NEW e \in Nat, NEW j, NEW l, IterationAt(g, p, e, j, l),
         NEW a \in Int, NEW i \in Int, a = e - j + i, 1 <= i, i <= j
  PROVE  p[a] = BodyOf(g, l)[i]
<1>1. j \in Nat /\ i \in 1..j
  BY DEF IterationAt
<1>2. p[e - j + i] = BodyOf(g, l)[i]
  BY <1>1 DEF IterationAt
<1> QED BY <1>2

\* No loop is part of its own body.
NoLoopInItself(g) ==
  \A l \in 1..Len(g.loops) : \A k \in 1..Len(BodyOf(g, l)) :
    BodyOf(g, l)[k].type = "Loop" => BodyOf(g, l)[k].id # l

\* Two iterations do not end with the same token.
LEMMA OneIteration ==
  ASSUME NEW g, NeatTables(g), NEW p, NEW e \in Nat,
         NEW j, NEW l, IterationAt(g, p, e, j, l),
         NEW k, NEW m, IterationAt(g, p, e, k, m), j < k
  PROVE  FALSE
<1> DEFINE b == BodyOf(g, l)
           c == BodyOf(g, m)
<1>1. /\ j \in Nat /\ k \in Nat /\ 1 <= j /\ j < e /\ k < e
      /\ Len(b) = j /\ Len(c) = k /\ l \in 1..Len(g.loops) /\ m \in 1..Len(g.loops)
      /\ p[e - j].type = "Loop" /\ p[e - j].id = l
  BY DEF IterationAt
<1>2. c \in Seq(Token) /\ NeatTokens(g, c)
  BY <1>1, BodyProps
<1> HIDE DEF b, c
<1>3. \A i \in Int : 1 <= i /\ i <= k => p[e - k + i] = c[i]
  <2> SUFFICES ASSUME NEW i \in Int, 1 <= i, i <= k
               PROVE  p[e - k + i] = c[i]
    OBVIOUS
  <2>1. e - k + i \in Int
    BY <1>1
  <2> QED BY <2>1, Iterated DEF c
<1>4. p[e - j] = c[k - j] /\ k - j \in 1..Len(c)
  <2>1. k - j \in Int /\ 1 <= k - j /\ k - j <= k /\ e - k + (k - j) = e - j
    BY <1>1
  <2>2. p[e - k + (k - j)] = c[k - j]
    BY <1>3, <2>1
  <2> QED BY <1>1, <2>1, <2>2
<1>5. ASSUME NEW i \in 1..j
      PROVE  c[k - j + i] = b[i]
  <2>1. /\ i \in Int /\ 1 <= i /\ i <= j /\ k - j + i \in Int /\ 1 <= k - j + i /\ k - j + i <= k
        /\ e - k + (k - j + i) = e - j + i /\ e - j + i \in Int
    BY <1>1
  <2>2. p[e - k + (k - j + i)] = c[k - j + i]
    BY <1>3, <2>1
  <2>3. p[e - j + i] = b[i]
    BY <2>1, Iterated DEF b
  <2> QED BY <2>1, <2>2, <2>3
<1>6. FollowedAt(c, k - j, b)
  BY <1>1, <1>5 DEF FollowedAt
<1> QED BY <1>1, <1>2, <1>4, <1>6 DEF NeatTokens, FoldedTokens, NoIterations, b

\* An iteration and a repetition do not end with the same token.
LEMMA NoIterationAndRepeat ==
  ASSUME NEW g, NeatTables(g), NoLoopInItself(g), NEW p, NEW e \in Nat, FoldedBefore(g, p, e),
         p[e].type # "Loop", NEW j, NEW l, IterationAt(g, p, e, j, l),
         NEW n \in Nat, 1 <= n, Searched(n), RepeatAt(p, e, n)
  PROVE  FALSE
<1> DEFINE b == BodyOf(g, l)
<1>1. /\ j \in Nat /\ 1 <= j /\ j < e /\ Len(b) = j /\ l \in 1..Len(g.loops)
      /\ p[e - j].type = "Loop" /\ p[e - j].id = l
  BY DEF IterationAt
<1>2. b \in Seq(Token) /\ NeatTokens(g, b)
  BY <1>1, BodyProps
<1> HIDE DEF b
<1>3. 2 * n <= e
  BY DEF RepeatAt
<1>4. \A i \in Int : 1 <= i /\ i <= j => p[e - j + i] = b[i]
  <2> SUFFICES ASSUME NEW i \in Int, 1 <= i, i <= j
               PROVE  p[e - j + i] = b[i]
    OBVIOUS
  <2>1. e - j + i \in Int
    BY <1>1
  <2> QED BY <2>1, Iterated DEF b
<1>5. CASE j < n
  <2> DEFINE k == e - j - n
  <2>1. k \in 1..(e - 1) /\ k \in Int /\ e - j \in Int /\ e - j = k + n /\ e - n < e - j /\ e - j <= e
        /\ k + j <= e - 1
    BY <1>1, <1>3, <1>5
  <2> HIDE DEF k
  <2>2. p[e - j] = p[k]
    BY <2>1, Repeated
  <2>3. PICK i \in 1..j : p[k + i] # b[i]
    BY <1>1, <2>1, <2>2 DEF FoldedBefore, b
  <2>4. /\ i \in Int /\ 1 <= i /\ i <= j /\ k + i \in Int /\ e - j + i \in Int
        /\ e - j + i = (k + i) + n /\ e - n < e - j + i /\ e - j + i <= e
    BY <1>1, <2>1
  <2>5. p[e - j + i] = p[k + i]
    BY <2>4, Repeated
  <2> QED BY <1>4, <2>3, <2>4, <2>5
<1>6. CASE j = n
  <2>1. e \in Int /\ e - j \in Int /\ e = (e - j) + n /\ e - n < e /\ e <= e
    BY <1>1, <1>6
  <2>2. p[e] = p[e - j]
    BY <2>1, Repeated
  <2> QED BY <1>1, <2>2
<1>7. CASE n < j /\ j < 2 * n
  <2>1. /\ e - j \in Int /\ e - j + n \in Int /\ e - j + n = (e - j) + n
        /\ e - n < e - j + n /\ e - j + n <= e /\ n \in Int /\ 1 <= n /\ n <= j /\ n \in 1..j
    BY <1>1, <1>7
  <2>2. p[e - j + n] = p[e - j]
    BY <2>1, Repeated
  <2>3. b[n] = p[e - j]
    BY <1>4, <2>1, <2>2
  <2> QED BY <1>1, <2>1, <2>3 DEF NoLoopInItself, b
<1>8. CASE 2 * n <= j
  <2>1. ASSUME NEW i \in Int, j - n < i, i <= j
        PROVE  b[i] = b[i - n]
    <3>1. /\ 1 <= i /\ i - n \in Int /\ 1 <= i - n /\ i - n <= j
          /\ e - j + i \in Int /\ e - j + (i - n) \in Int /\ e - j + i = (e - j + (i - n)) + n
          /\ e - n < e - j + i /\ e - j + i <= e
      BY <1>1, <1>8, <2>1
    <3>2. p[e - j + i] = p[e - j + (i - n)]
      BY <3>1, Repeated
    <3>3. p[e - j + i] = b[i]
      BY <1>4, <2>1, <3>1
    <3>4. p[e - j + (i - n)] = b[i - n]
      BY <1>4, <3>1
    <3> QED BY <3>2, <3>3, <3>4
  <2>2. RepeatAt(b, j, n)
    BY <1>1, <1>8, <2>1, RepeatFrom
  <2>3. b[j] = p[e] /\ j \in 1..Len(b) /\ n \in 1..j
    <3>1. j \in Int /\ 1 <= j /\ j <= j /\ e - j + j = e /\ n \in 1..j /\ j \in 1..Len(b)
      BY <1>1, <1>8
    <3>2. p[e - j + j] = b[j]
      BY <1>4, <3>1
    <3> QED BY <3>1, <3>2
  <2> QED BY <1>1, <1>2, <2>2, <2>3 DEF NeatTokens, FoldedTokens, NoRepeats
<1> QED BY <1>1, <1>5, <1>6, <1>7, <1>8


\* The search sees what the two lemmas speak of.
LEMMA OneLoop ==
  ASSUME NEW g, NeatTables(g), NoLoopInItself(g), LoopsInTable(g, g.tokens),
         FoldedBefore(g, g.tokens, Len(g.tokens)), g.tokens[Len(g.tokens)].type # "Loop",
         NEW m \in LoopLengths(g), NEW n \in LoopLengths(g),
         EndsWithLoop(g, m), EndsWithLoop(g, n)
  PROVE  m = n /\ ~(EndsWithIteration(g, n) /\ EndsWithRepeat(g, n))
<1> DEFINE p == g.tokens
           e == Len(p)
<1>1. g \in Grammar /\ p \in Seq(Token) /\ e \in Nat
  BY GrammarTypes DEF NeatTables
<1>2. ASSUME NEW i \in LoopLengths(g)
      PROVE  i \in Nat /\ 1 <= i /\ i \in 1..e /\ i \in 1..(e - 1) /\ Searched(i)
  <2>1. i \in 1..(e - 1) /\ Searched(i)
    BY <1>2 DEF LoopLengths, Searched
  <2> HIDE DEF e
  <2> QED BY <1>1, <2>1
<1>3. ASSUME NEW i \in LoopLengths(g), EndsWithIteration(g, i)
      PROVE  IterationAt(g, p, e, i, p[e - i].id)
  <2>1. i \in 1..(e - 1)
    BY <1>2
  <2>2. LET k == e - i
        IN  /\ k \in 1..e /\ p[k].type = "Loop" /\ p[k].id \in 1..Len(g.loops)
            /\ Len(BodyOf(g, p[k].id)) = i /\ FollowedAt(p, k, BodyOf(g, p[k].id))
    BY <1>3, <2>1, EndsWithIterationIs
  <2> QED BY <2>1, <2>2 DEF IterationAt, FollowedAt
<1>4. ASSUME NEW i \in LoopLengths(g), EndsWithRepeat(g, i)
      PROVE  RepeatAt(p, e, i)
  BY <1>1, <1>2, <1>4, EndsWithRepeatIs
<1> HIDE DEF e, p
<1>5. FoldedBefore(g, p, e) /\ p[e].type # "Loop"
  BY DEF p, e
<1>6. ASSUME NEW i \in LoopLengths(g), NEW k \in LoopLengths(g),
             EndsWithIteration(g, i), EndsWithRepeat(g, k)
      PROVE  FALSE
  BY <1>1, <1>2, <1>3, <1>4, <1>5, <1>6, NoIterationAndRepeat
<1>7. ASSUME NEW i \in LoopLengths(g), NEW k \in LoopLengths(g),
             EndsWithIteration(g, i), EndsWithIteration(g, k)
      PROVE  ~(i < k)
  BY <1>1, <1>3, <1>7, OneIteration
<1>8. ASSUME NEW i \in LoopLengths(g), NEW k \in LoopLengths(g),
             EndsWithRepeat(g, i), EndsWithRepeat(g, k)
      PROVE  ~(i < k)
  BY <1>1, <1>2, <1>4, <1>5, <1>8, OneRepeat
<1>9. ~(m < n) /\ ~(n < m)
  BY <1>6, <1>7, <1>8 DEF EndsWithLoop
<1>10. m \in Nat /\ n \in Nat
  BY <1>2
<1>11. m = n
  BY <1>9, <1>10
<1> QED BY <1>6, <1>11

\* No loop is part of its own body, because references go down.
LEMMA LoopsGoDown ==
  ASSUME NEW E, NEW S, NEW F, NEW g, GoodTables(E, S, F, g)
  PROVE  NoLoopInItself(g)
<1> SUFFICES ASSUME NEW l \in 1..Len(g.loops), NEW k \in 1..Len(BodyOf(g, l)),
                    BodyOf(g, l)[k].type = "Loop", BodyOf(g, l)[k].id = l
             PROVE  FALSE
  BY DEF NoLoopInItself
<1> DEFINE n == g.loops[l].repeated_token.id
<1>1. n \in 1..Len(g.sequences) /\ n \in Int
  BY DEF GoodTables, GoodLoops
<1>2. Below(E, g, BodyOf(g, l)[k], n)
  BY <1>1 DEF GoodTables, GoodSequences, BodyOf
<1>3. n < n
  BY <1>2 DEF Below
<1> QED BY <1>1, <1>3

\* Whatever token is stored next in whatever frame, at most one rewrite is
\* possible: the order in which findLoopBasic tries the lengths, and an iteration
\* before a new loop, never decides what the trace looks like.
THEOREM SearchHasNoChoice ==
  ASSUME IsBasic
  PROVE  Spec => []OneLoopAtATime
<1>1. IInv /\ NInv => OneLoopAtATime
  <2> SUFFICES ASSUME IInv, NInv, NEW d \in Depths,
                      NEW x \in {EventToken(i) : i \in DOMAIN events} \cup
                                {SequenceToken(n) : n \in DOMAIN sequences},
                      NEW m \in LoopLengths(Pushed(GrammarAt(d), x)),
                      NEW n \in LoopLengths(Pushed(GrammarAt(d), x)),
                      EndsWithLoop(Pushed(GrammarAt(d), x), m),
                      EndsWithLoop(Pushed(GrammarAt(d), x), n)
               PROVE  m = n /\ ~(/\ EndsWithIteration(Pushed(GrammarAt(d), x), n)
                                 /\ EndsWithRepeat(Pushed(GrammarAt(d), x), n))
    BY DEF OneLoopAtATime, Pushed
  <2> DEFINE f == GrammarAt(d)
             t == og_seq[d]
             g == Pushed(f, x)
             p == g.tokens
  <2>1. TypeOK
    BY DEF IInv
  <2>2. x \in Token /\ x.type # "Loop"
    <3>1. DOMAIN events \subseteq Nat /\ DOMAIN sequences \subseteq Nat
      BY <2>1 DEF TypeOK
    <3> QED BY <3>1 DEF EventToken, SequenceToken, Token, TokenType
  <2>3. /\ f \in Grammar /\ f.tokens = t /\ t \in Seq(Token) /\ NeatTables(f) /\ NeatTokens(f, t)
    BY <2>1, GrammarAtProps DEF NInv
  <2>4. NoLoopInItself(f)
    BY LoopsGoDown DEF IInv, GoodFrame
  <2> HIDE DEF f, t
  <2>5. g \in Grammar /\ g.sequences = f.sequences /\ g.loops = f.loops /\ p = Append(t, x)
    <3>1. Append(t, x) \in Seq(Token) /\ g = [f EXCEPT !.tokens = Append(t, x)]
      BY <2>2, <2>3 DEF Pushed
    <3> QED BY <2>3, <3>1 DEF Grammar
  <2> HIDE DEF g
  <2>6. NeatTables(g) /\ NoLoopInItself(g) /\ NeatTokens(g, t)
    <3>1. NeatTables(g) /\ Extends(f, g)
      BY <2>3, <2>5, SameNeatTables
    <3>2. NoLoopInItself(g)
      BY <2>4, <2>5 DEF NoLoopInItself, BodyOf
    <3> QED BY <2>3, <3>1, <3>2, TokensStayNeat DEF NeatTables
  <2>7. /\ Len(t) \in Nat /\ Len(p) = Len(t) + 1 /\ p[Len(p)] = x
        /\ \A i \in 1..Len(t) : p[i] = t[i]
    BY <2>2, <2>3, <2>5, AppendProperties
  <2>8. LoopsInTable(g, p)
    BY <2>2, <2>6, <2>7 DEF NeatTokens, LoopsInTable
  <2>9. FoldedBefore(g, p, Len(p)) /\ p[Len(p)].type # "Loop"
    BY <2>2, <2>3, <2>6, <2>7, PushedOnFolded
  <2> QED BY <2>6, <2>8, <2>9, OneLoop DEF g, f
<1>2. Algorithm # "Filter"
  BY DEF IsBasic
<1> QED BY <1>1, <1>2, Invariant, AlwaysNeat, PTL
=============================================================================
