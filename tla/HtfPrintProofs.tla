--------------------------- MODULE HtfPrintProofs ---------------------------
(***************************************************************************)
(* Proofs about HtfPrint, for any events, any number of blocks open at     *)
(* once and any depth of the reader's call stack.  The first part is about *)
(* what a writer leaves in the archive: to the invariant of the writer     *)
(* (IInv) it adds that no sequence is empty, that every loop has an        *)
(* occurrence, and that every sequence has its durations, which is what    *)
(* makes a thread well-formed.  The second part is about printTrace on any *)
(* well-formed thread.  Together: reading back what was recorded is right, *)
(* with nothing assumed of the archive.                                    *)
(***************************************************************************)
EXTENDS HtfPrint, ThreadWriterProofs

-----------------------------------------------------------------------------
(* Part 1, what a writer leaves: tables and durations of a grammar g *)

SoundTables(g) ==
  /\ g \in Grammar
  /\ \A n \in 1..Len(g.sequences) : g.sequences[n] # <<>>
  /\ \A l \in 1..Len(g.loops) :
       /\ g.loops[l].repeated_token.type = "Sequence"
       /\ g.loops[l].repeated_token.id \in 1..Len(g.sequences)
       /\ g.loops[l].nb_iterations # <<>>

LoopsExist(g, tokens) ==
  \A k \in 1..Len(tokens) : tokens[k].type = "Loop" => tokens[k].id \in 1..Len(g.loops)

Sound(g) == SoundTables(g) /\ LoopsExist(g, g.tokens)

Measured(nb, g) == nb \in Seq(Nat) /\ Len(nb) = Len(g.sequences)

\* The durations that are added belong to the sequence that is looked up.
LEMMA AddDurationsProps ==
  ASSUME NEW g \in Grammar, NEW nb, Measured(nb, g), NEW a \in Seq(Token), NEW n \in Nat
  PROVE  LET after == AddDurations(nb, SequenceIdOf(g.sequences, a), n)
         IN  after \in Seq(Nat) /\ Len(after) = Len(WithSequence(g.sequences, a))
<1> DEFINE id == SequenceIdOf(g.sequences, a)
<1>1. g.sequences \in Seq(Seq(Token)) /\ nb \in Seq(Nat) /\ Len(nb) = Len(g.sequences)
  BY DEF Grammar, Measured
<1>2. CASE IsKnown(g.sequences, a)
  <2>1. id \in 1..Len(g.sequences) /\ WithSequence(g.sequences, a) = g.sequences
    BY <1>1, <1>2 DEF SequenceIdOf, IsKnown, WithSequence
  <2> HIDE DEF id
  <2>2. id \in 1..Len(nb) /\ nb[id] + n \in Nat
    BY <1>1, <2>1
  <2>3. AddDurations(nb, id, n) = [nb EXCEPT ![id] = nb[id] + n]
    <3>1. DOMAIN nb = 1..Len(nb)
      BY <1>1
    <3> QED BY <2>2, <3>1 DEF AddDurations
  <2>4. AddDurations(nb, id, n) \in Seq(Nat) /\ Len(AddDurations(nb, id, n)) = Len(nb)
    BY <1>1, <2>2, <2>3, ExceptSeq
  <2> QED BY <1>1, <2>1, <2>4 DEF id
<1>3. CASE ~IsKnown(g.sequences, a)
  <2>1. id = Len(g.sequences) + 1 /\ WithSequence(g.sequences, a) = Append(g.sequences, a)
    BY <1>3 DEF SequenceIdOf, WithSequence
  <2> HIDE DEF id
  <2>2. AddDurations(nb, id, n) = Append(nb, n)
    BY <1>1, <2>1 DEF AddDurations
  <2>3. /\ Len(Append(nb, n)) = Len(nb) + 1 /\ Append(nb, n) \in Seq(Nat)
        /\ Len(Append(g.sequences, a)) = Len(g.sequences) + 1
    BY <1>1, AppendProperties
  <2> QED BY <1>1, <2>1, <2>2, <2>3 DEF id
<1> QED BY <1>2, <1>3

\* A block that is stored leaves the tables sound.
LEMMA WithSequenceSound ==
  ASSUME NEW g, SoundTables(g), NEW a \in Seq(Token), a # <<>>, NEW t \in Seq(Token)
  PROVE  LET h == [sequences |-> WithSequence(g.sequences, a), loops |-> g.loops, tokens |-> t]
         IN  SoundTables(h) /\ Len(g.sequences) <= Len(h.sequences)
<1> DEFINE h == [sequences |-> WithSequence(g.sequences, a), loops |-> g.loops, tokens |-> t]
<1>1. g.sequences \in Seq(Seq(Token)) /\ g.loops \in Seq(Loop)
  BY DEF SoundTables, Grammar
<1> DEFINE sq == WithSequence(g.sequences, a)
           id == SequenceIdOf(g.sequences, a)
<1>2. /\ sq \in Seq(Seq(Token)) /\ Len(g.sequences) <= Len(sq)
      /\ sq[id] = a
      /\ \A n \in 1..Len(g.sequences) : sq[n] = g.sequences[n]
      /\ \A n \in 1..Len(sq) : n \notin 1..Len(g.sequences) => n = id
  BY <1>1, WithSequenceProps
<1> HIDE DEF sq, id
<1>3. h.sequences = sq /\ h.loops = g.loops /\ h \in Grammar
  BY <1>1, <1>2 DEF Grammar, sq
<1> HIDE DEF h
<1>4. \A n \in 1..Len(sq) : sq[n] # <<>>
  BY <1>2 DEF SoundTables
<1>5. \A l \in 1..Len(g.loops) :
        /\ g.loops[l].repeated_token.type = "Sequence"
        /\ g.loops[l].repeated_token.id \in 1..Len(sq)
        /\ g.loops[l].nb_iterations # <<>>
  <2>1. \A i \in 1..Len(g.sequences) : i \in 1..Len(sq)
    BY <1>1, <1>2
  <2> QED BY <2>1 DEF SoundTables
<1> QED BY <1>2, <1>3, <1>4, <1>5 DEF SoundTables, h

-----------------------------------------------------------------------------
(* The two rewrites *)

\* The tokens that a search may fold are not none.
LEMMA LastTokensBlock ==
  ASSUME NEW t \in Seq(Token), NEW n \in 1..(Len(t) - 1)
  PROVE  LastTokens(t, n) \in Seq(Token) /\ LastTokens(t, n) # <<>>
<1>1. /\ Len(t) \in Nat /\ n \in Nat \ {0} /\ n < Len(t)
      /\ Len(t) - n + 1 \in 1..(Len(t) + 1) /\ Len(t) \in 0..Len(t)
      /\ Len(t) - n + 1 <= Len(t)
  OBVIOUS
<1>2. /\ LastTokens(t, n) \in Seq(Token)
      /\ Len(LastTokens(t, n)) = Len(t) - (Len(t) - n + 1) + 1
  BY <1>1, SubSeqProperties DEF LastTokens
<1>3. Len(LastTokens(t, n)) # 0
  BY <1>1, <1>2
<1>4. QED BY <1>2, <1>3

\* Absorbing an iteration leaves sound tables, and no new sequence.
LEMMA AbsorbSound ==
  ASSUME NEW g, Sound(g), NEW n \in 1..(Len(g.tokens) - 1), EndsWithIteration(g, n)
  PROVE  LET h == AbsorbIteration(g, n)
         IN  /\ Sound(h) /\ h.tokens # <<>> /\ Len(h.loops) = Len(g.loops)
             /\ h.sequences = g.sequences
             /\ IsKnown(g.sequences, LastTokens(g.tokens, n))
<1> DEFINE kept == Len(g.tokens) - n
           l    == g.tokens[kept].id
           x    == AddIteration(g.loops, l)
           y    == SubSeq(g.tokens, 1, kept)
           h    == AbsorbIteration(g, n)
<1>1. /\ g.sequences \in Seq(Seq(Token)) /\ g.loops \in Seq(Loop) /\ g.tokens \in Seq(Token)
      /\ g \in Grammar
  BY DEF Sound, SoundTables, Grammar
<1>2. kept \in 1..Len(g.tokens)
  BY <1>1
<1>3. l \in 1..Len(g.loops) /\ LastTokens(g.tokens, n) = BodyOf(g, l)
  BY <1>2 DEF EndsWithIteration, Sound, LoopsExist
<1>4. h = Rewritten(g, x, y)
  BY DEF AbsorbIteration, Rewritten
<1> HIDE DEF h, l, kept
<1>5. /\ x \in Seq(Loop) /\ Len(x) = Len(g.loops)
      /\ \A k \in 1..Len(g.loops) : k # l => x[k] = g.loops[k]
      /\ x[l].repeated_token = g.loops[l].repeated_token
      /\ x[l].nb_iterations = BumpLast(g.loops[l].nb_iterations)
  BY <1>1, <1>3, AddIterationProps
<1>6. BumpLast(g.loops[l].nb_iterations) # <<>>
  <2>1. g.loops[l] \in Loop
    BY <1>1, <1>3, ElementOfSeq
  <2> DEFINE s == g.loops[l].nb_iterations
  <2>2. s \in Seq(Nat) /\ s # <<>>
    BY <1>3, <2>1 DEF Loop, Sound, SoundTables
  <2> HIDE DEF s
  <2>3. Len(BumpLast(s)) = Len(s) /\ Len(s) # 0
    BY <2>2, BumpLastProps
  <2>4. BumpLast(s) # <<>>
    BY <2>3
  <2> QED BY <2>4 DEF s
<1>7. y \in Seq(Token) /\ Len(y) = kept /\ \A k \in 1..kept : y[k] = g.tokens[k]
  BY <1>1, <1>2, FirstTokensProps
<1> HIDE DEF x, y
<1>8. h.sequences = g.sequences /\ h.loops = x /\ h.tokens = y /\ h \in Grammar
  BY <1>1, <1>4, <1>5, <1>7, RewrittenProps
<1>9. SoundTables(h)
  <2>1. \A k \in 1..Len(x) :
          /\ x[k].repeated_token.type = "Sequence"
          /\ x[k].repeated_token.id \in 1..Len(g.sequences)
          /\ x[k].nb_iterations # <<>>
    BY <1>3, <1>5, <1>6 DEF Sound, SoundTables
  <2> QED BY <1>8, <2>1 DEF Sound, SoundTables
<1>10. LoopsExist(h, y)
  <2>1. \A k \in 1..Len(y) : k \in 1..Len(g.tokens) /\ y[k] = g.tokens[k]
    BY <1>1, <1>2, <1>7
  <2> QED BY <1>5, <1>8, <2>1 DEF LoopsExist, Sound
<1>11. y # <<>>
  BY <1>2, <1>7
<1>12. IsKnown(g.sequences, LastTokens(g.tokens, n))
  <2>1. g.loops[l].repeated_token.id \in 1..Len(g.sequences)
    BY <1>3 DEF Sound, SoundTables
  <2> QED BY <1>1, <1>3, <2>1 DEF BodyOf, IsKnown
<1> QED BY <1>5, <1>8, <1>9, <1>10, <1>11, <1>12 DEF Sound, h

\* Folding a repetition leaves sound tables, with its body among the sequences.
LEMMA FoldSound ==
  ASSUME NEW g, Sound(g), NEW n \in 1..(Len(g.tokens) - 1), EndsWithRepeat(g, n)
  PROVE  LET h == FoldRepeat(g, n)
         IN  /\ Sound(h) /\ h.tokens # <<>> /\ Len(g.loops) <= Len(h.loops)
             /\ h.sequences = WithSequence(g.sequences, LastTokens(g.tokens, n))
<1> DEFINE body   == LastTokens(g.tokens, n)
           before == Len(g.tokens) - 2 * n
           sid    == SequenceIdOf(g.sequences, body)
           l      == LoopIdOf(g.loops, sid)
           sq     == WithSequence(g.sequences, body)
           x      == AddIteration(WithLoop(g.loops, sid), l)
           y      == Append(Resize(g.tokens, before), LoopToken(l))
           h      == FoldRepeat(g, n)
           m      == [sequences |-> sq, loops |-> g.loops, tokens |-> g.tokens]
<1>1. /\ g.sequences \in Seq(Seq(Token)) /\ g.loops \in Seq(Loop) /\ g.tokens \in Seq(Token)
      /\ SoundTables(g) /\ LoopsExist(g, g.tokens)
  BY DEF Sound, SoundTables, Grammar
<1>2. body \in Seq(Token) /\ body # <<>>
  BY <1>1, LastTokensBlock
<1>3. h = [sequences |-> sq, loops |-> x, tokens |-> y]
  BY DEF FoldRepeat, ReplaceTokensInLoop
<1>4. before \in 0..Len(g.tokens)
  <2>1. Len(g.tokens) \in Nat /\ n \in Nat /\ 2 * n <= Len(g.tokens)
    BY <1>1 DEF EndsWithRepeat
  <2> DEFINE len == Len(g.tokens)
  <2>2. len \in Nat /\ n \in Nat /\ 2 * n <= len
    BY <2>1
  <2> HIDE DEF len
  <2>3. len - 2 * n \in 0..len
    BY <2>2
  <2> QED BY <2>3 DEF len
<1> HIDE DEF body, before, h
<1>5. SoundTables(m)
  BY <1>1, <1>2, WithSequenceSound
<1>6. /\ sid \in 1..Len(sq) /\ sq \in Seq(Seq(Token))
  BY <1>1, <1>2, WithSequenceProps
<1>7. /\ m.sequences = sq /\ m.loops = g.loops /\ m \in Grammar
  BY <1>1, <1>6 DEF Grammar
<1> HIDE DEF sq, sid, m
<1>8. sid \in Nat /\ \A k \in 1..Len(g.loops) : g.loops[k].repeated_token.type = "Sequence"
  BY <1>1, <1>6 DEF SoundTables
<1>9. /\ x \in Seq(Loop)
      /\ l \in 1..Len(x)
      /\ Len(g.loops) <= Len(x)
      /\ \A k \in 1..Len(g.loops) : k # l => x[k] = g.loops[k]
      /\ \A k \in 1..Len(x) : k \notin 1..Len(g.loops) => k = l
      /\ x[l].repeated_token = SequenceToken(sid)
      /\ l \in 1..Len(g.loops) => x[l].nb_iterations = Append(g.loops[l].nb_iterations, 2)
      /\ l \notin 1..Len(g.loops) => x[l].nb_iterations = <<2>>
  BY <1>1, <1>8, NewOccurrence
<1> HIDE DEF l, x
<1>10. x[l].nb_iterations # <<>>
  <2>1. ASSUME l \in 1..Len(g.loops)
        PROVE  g.loops[l].nb_iterations \in Seq(Nat)
    <3>1. g.loops[l] \in Loop
      BY <1>1, <2>1, ElementOfSeq
    <3> QED BY <3>1 DEF Loop
  <2>2. \A s \in Seq(Nat) : Append(s, 2) # <<>>
    BY AppendProperties
  <2>3. <<2>> # <<>>
    OBVIOUS
  <2>4. CASE l \in 1..Len(g.loops)
    BY <1>9, <2>1, <2>2, <2>4
  <2>5. CASE l \notin 1..Len(g.loops)
    BY <1>9, <2>3, <2>5
  <2> QED BY <2>4, <2>5
<1>11. \A k \in 1..Len(x) :
          /\ x[k].repeated_token.type = "Sequence"
          /\ x[k].repeated_token.id \in 1..Len(sq)
          /\ x[k].nb_iterations # <<>>
  <2> SUFFICES ASSUME NEW k \in 1..Len(x)
               PROVE  /\ x[k].repeated_token.type = "Sequence"
                      /\ x[k].repeated_token.id \in 1..Len(sq)
                      /\ x[k].nb_iterations # <<>>
    OBVIOUS
  <2>1. CASE k = l
    BY <1>6, <1>9, <1>10, <2>1 DEF SequenceToken
  <2>2. CASE k # l
    <3>1. k \in 1..Len(g.loops) /\ x[k] = g.loops[k]
      BY <1>9, <2>2
    <3> QED BY <1>5, <1>7, <3>1 DEF SoundTables
  <2> QED BY <2>1, <2>2
<1>12. /\ y \in Seq(Token) /\ Len(y) = before + 1
       /\ \A k \in 1..before : y[k] = g.tokens[k]
       /\ y[before + 1] = LoopToken(l)
  <2>1. Resize(g.tokens, before) = SubSeq(g.tokens, 1, before)
    BY <1>1, <1>4 DEF Resize
  <2> DEFINE r == Resize(g.tokens, before)
  <2>2. r \in Seq(Token) /\ Len(r) = before /\ \A k \in 1..before : r[k] = g.tokens[k]
    BY <1>1, <1>4, <2>1, FirstTokensProps
  <2>3. LoopToken(l) \in Token
    BY <1>9 DEF LoopToken, Token, TokenType
  <2> HIDE DEF r
  <2>4. /\ Append(r, LoopToken(l)) \in Seq(Token) /\ Len(Append(r, LoopToken(l))) = Len(r) + 1
        /\ \A k \in 1..Len(r) : Append(r, LoopToken(l))[k] = r[k]
        /\ Append(r, LoopToken(l))[Len(r) + 1] = LoopToken(l)
    BY <2>2, <2>3, AppendProperties
  <2> QED BY <2>2, <2>4 DEF r
<1> HIDE DEF y
<1>13. h.sequences = sq /\ h.loops = x /\ h.tokens = y /\ h \in Grammar
  BY <1>3, <1>6, <1>9, <1>12 DEF Grammar
<1>14. SoundTables(h)
  BY <1>5, <1>7, <1>11, <1>13 DEF SoundTables
<1>15. LoopsExist(h, y)
  <2> SUFFICES ASSUME NEW k \in 1..Len(y), y[k].type = "Loop"
               PROVE  y[k].id \in 1..Len(x)
    BY <1>13 DEF LoopsExist
  <2>1. CASE k = before + 1
    BY <1>9, <1>12, <2>1 DEF LoopToken
  <2>2. CASE k # before + 1
    <3>1. k \in 1..Len(g.tokens) /\ y[k] = g.tokens[k]
      <4>1. Len(g.tokens) \in Nat /\ before \in 0..Len(g.tokens) /\ Len(y) = before + 1
        BY <1>1, <1>4, <1>12
      <4>2. k \in 1..before
        BY <2>2, <4>1
      <4>3. k \in 1..Len(g.tokens)
        BY <4>1, <4>2
      <4> QED BY <1>12, <4>2, <4>3
    <3>2. g.tokens[k].id \in 1..Len(g.loops)
      BY <1>1, <3>1 DEF LoopsExist
    <3> QED BY <1>1, <1>9, <3>1, <3>2
  <2> QED BY <2>1, <2>2
<1>16. y # <<>>
  BY <1>4, <1>12
<1> QED BY <1>9, <1>13, <1>14, <1>15, <1>16 DEF Sound, h, sq, body

-----------------------------------------------------------------------------
(* Storing a token, and closing a block *)

\* So does pushing a token that is no loop,
LEMMA PushedSound ==
  ASSUME NEW g, SoundTables(g), LoopsExist(g, g.tokens), NEW token \in Token,
         token.type # "Loop"
  PROVE  LET p == Pushed(g, token)
         IN  /\ Sound(p) /\ p.tokens # <<>>
             /\ p.sequences = g.sequences /\ p.loops = g.loops
             /\ p.tokens = Append(g.tokens, token)
<1> DEFINE p == Pushed(g, token)
           y == Append(g.tokens, token)
<1>1. /\ g \in Grammar /\ g.sequences \in Seq(Seq(Token)) /\ g.loops \in Seq(Loop)
      /\ g.tokens \in Seq(Token)
  BY DEF SoundTables, Grammar
<1>2. /\ y \in Seq(Token) /\ Len(y) = Len(g.tokens) + 1
      /\ \A k \in 1..Len(g.tokens) : y[k] = g.tokens[k]
      /\ y[Len(g.tokens) + 1] = token
  BY <1>1, AppendProperties
<1>3. /\ p \in Grammar /\ p.sequences = g.sequences /\ p.loops = g.loops /\ p.tokens = y
  BY <1>1, <1>2 DEF Pushed, Grammar
<1> HIDE DEF y, p
<1>4. SoundTables(p)
  BY <1>3 DEF SoundTables
<1>5. \A k \in 1..Len(y) : k \in 1..Len(g.tokens) \/ k = Len(g.tokens) + 1
  BY <1>1, <1>2
<1>6. LoopsExist(p, y)
  BY <1>2, <1>3, <1>5 DEF LoopsExist
<1>7. y # <<>>
  BY <1>1, <1>2
<1> QED BY <1>3, <1>4, <1>6, <1>7 DEF Sound, p, y

\* and the search, whatever it finds.
LEMMA FindSound ==
  ASSUME Algorithm # "Filter", NEW g, Sound(g), g.tokens # <<>>
  PROVE  LET h == FindLoop(g)
             n == LengthFound(g)
         IN  /\ Sound(h) /\ h.tokens # <<>> /\ Len(g.loops) <= Len(h.loops)
             /\ ~Looping(g) => h.sequences = g.sequences
             /\ Looping(g) => /\ LastTokens(g.tokens, n) \in Seq(Token)
                              /\ h.sequences = WithSequence(g.sequences, LastTokens(g.tokens, n))
<1> DEFINE n == LengthFound(g)
<1>1. Len(g.loops) \in Nat /\ g.tokens \in Seq(Token)
  BY DEF Sound, SoundTables, Grammar
<1>2. CASE Algorithm = "None"
  BY <1>1, <1>2 DEF FindLoop, Looping
<1>3. CASE Algorithm # "None" /\ ~(\E i \in LoopLengths(g) : IsShortestLoop(g, i))
  <2>1. FindLoop(g) = g
    BY <1>3 DEF FindLoop, FindLoopBasic
  <2> QED BY <1>1, <1>3, <2>1 DEF Looping
<1>4. CASE Algorithm # "None" /\ \E i \in LoopLengths(g) : IsShortestLoop(g, i)
  <2>1. n \in LoopLengths(g) /\ IsShortestLoop(g, n)
    BY <1>4 DEF LengthFound
  <2>2. FindLoop(g) = RewriteLoop(g, n) /\ Looping(g)
    BY <1>4 DEF FindLoop, FindLoopBasic, LengthFound, Looping
  <2> HIDE DEF n
  <2>3. n \in 1..(Len(g.tokens) - 1) /\ EndsWithLoop(g, n)
    BY <2>1 DEF LoopLengths, IsShortestLoop
  <2>4. LastTokens(g.tokens, n) \in Seq(Token)
    BY <1>1, <2>3, LastTokensBlock
  <2>5. CASE EndsWithIteration(g, n)
    <3>1. RewriteLoop(g, n) = AbsorbIteration(g, n)
      BY <2>5 DEF RewriteLoop
    <3>2. WithSequence(g.sequences, LastTokens(g.tokens, n)) = g.sequences
      BY <2>3, <2>5, AbsorbSound DEF WithSequence
    <3>3. /\ Sound(AbsorbIteration(g, n)) /\ AbsorbIteration(g, n).tokens # <<>>
          /\ Len(AbsorbIteration(g, n).loops) = Len(g.loops)
          /\ AbsorbIteration(g, n).sequences = g.sequences
      BY <2>3, <2>5, AbsorbSound
    <3> QED BY <1>1, <2>2, <2>4, <3>1, <3>2, <3>3 DEF n
  <2>6. CASE ~EndsWithIteration(g, n)
    <3>1. RewriteLoop(g, n) = FoldRepeat(g, n) /\ EndsWithRepeat(g, n)
      BY <2>3, <2>6 DEF RewriteLoop, EndsWithLoop
    <3>2. /\ Sound(FoldRepeat(g, n)) /\ FoldRepeat(g, n).tokens # <<>>
          /\ Len(g.loops) <= Len(FoldRepeat(g, n).loops)
          /\ FoldRepeat(g, n).sequences = WithSequence(g.sequences, LastTokens(g.tokens, n))
      BY <2>3, <3>1, FoldSound
    <3> QED BY <2>2, <2>4, <3>1, <3>2 DEF n
  <2> QED BY <2>5, <2>6
<1> QED BY <1>2, <1>3, <1>4

\* Storing a token keeps the tables sound, and measures the sequence that a loop
\* makes known.
LEMMA StoreSound ==
  ASSUME Algorithm # "Filter", NEW g, SoundTables(g), LoopsExist(g, g.tokens),
         NEW token \in Token, token.type # "Loop", NEW nb, Measured(nb, g)
  PROVE  LET h == StoreToken(g, token)
         IN  /\ Sound(h) /\ h.tokens # <<>> /\ Len(g.loops) <= Len(h.loops)
             /\ Measured(MeasureLoop(nb, g, token), h)
<1> DEFINE p == Pushed(g, token)
           h == StoreToken(g, token)
           n == LengthFound(p)
           a == LastTokens(p.tokens, n)
           c == IF EndsWithIteration(p, n) THEN 1 ELSE 2
<1>1. /\ Sound(p) /\ p.tokens # <<>> /\ p.sequences = g.sequences /\ p.loops = g.loops
  BY PushedSound
<1>2. h = FindLoop(p)
  BY DEF StoreToken, Pushed
<1>3. MeasureLoop(nb, g, token) =
        IF ~Looping(p) THEN nb ELSE AddDurations(nb, SequenceIdOf(p.sequences, a), c)
  BY DEF MeasureLoop, Pushed
<1> HIDE DEF p, h
<1>4. /\ Sound(h) /\ h.tokens # <<>> /\ Len(p.loops) <= Len(h.loops)
      /\ ~Looping(p) => h.sequences = p.sequences
      /\ Looping(p) => a \in Seq(Token) /\ h.sequences = WithSequence(p.sequences, a)
  BY <1>1, <1>2, FindSound
<1>5. p \in Grammar /\ Measured(nb, p) /\ c \in Nat
  BY <1>1 DEF Measured, Sound, SoundTables
<1> HIDE DEF a, c
<1>6. CASE Looping(p)
  <2>1. Measured(AddDurations(nb, SequenceIdOf(p.sequences, a), c), h)
    BY <1>4, <1>5, <1>6, AddDurationsProps DEF Measured
  <2> QED BY <1>1, <1>3, <1>4, <1>6, <2>1 DEF h
<1>7. CASE ~Looping(p)
  <2>1. Measured(nb, h)
    BY <1>4, <1>5, <1>7 DEF Measured
  <2> QED BY <1>1, <1>3, <1>4, <1>7, <2>1 DEF h
<1> QED BY <1>6, <1>7

\* So does closing a block that is not empty.
LEMMA ExitSound ==
  ASSUME Algorithm # "Filter", NEW g, Sound(g), g.tokens # <<>>,
         NEW upper \in Seq(Token), LoopsExist(g, upper), NEW nb, Measured(nb, g)
  PROVE  LET h == ExitInto(g, upper)
         IN  /\ Sound(h) /\ h.tokens # <<>> /\ Len(g.loops) <= Len(h.loops)
             /\ Measured(MeasureExit(nb, g, upper), h)
<1> DEFINE id    == SequenceIdOf(g.sequences, g.tokens)
           token == SequenceToken(id)
           sq    == WithSequence(g.sequences, g.tokens)
           m     == [g EXCEPT !.sequences = WithSequence(@, g.tokens), !.tokens = upper]
           nm    == AddDurations(nb, id, 1)
           h     == ExitInto(g, upper)
<1>1. /\ g \in Grammar /\ g.sequences \in Seq(Seq(Token)) /\ g.loops \in Seq(Loop)
      /\ g.tokens \in Seq(Token) /\ SoundTables(g)
  BY DEF Sound, SoundTables, Grammar
<1>2. m = [g EXCEPT !.sequences = sq, !.tokens = upper]
  OBVIOUS
<1>3. h = StoreToken(m, token)
  BY DEF ExitInto
<1>4. MeasureExit(nb, g, upper) = MeasureLoop(nm, m, token)
  BY DEF MeasureExit
<1>5. id \in Nat
  <2>1. id \in 1..Len(WithSequence(g.sequences, g.tokens))
    BY <1>1, WithSequenceProps
  <2> HIDE DEF id
  <2> QED BY <2>1
<1>6. nm \in Seq(Nat) /\ Len(nm) = Len(sq) /\ sq \in Seq(Seq(Token))
  <2>1. nm \in Seq(Nat) /\ Len(nm) = Len(sq)
    BY <1>1, AddDurationsProps
  <2>2. sq \in Seq(Seq(Token))
    BY <1>1, WithSequenceProps
  <2> QED BY <2>1, <2>2
<1> DEFINE r == [sequences |-> sq, loops |-> g.loops, tokens |-> upper]
<1>10. SoundTables(r)
  BY <1>1, WithSequenceSound
<1> HIDE DEF h, nm, id, m, sq
<1>11. /\ m \in Grammar /\ m.tokens = upper /\ m.loops = g.loops /\ m.sequences = sq
       /\ r.loops = g.loops /\ r.sequences = sq
  BY <1>1, <1>2, <1>6 DEF Grammar
<1> HIDE DEF r
<1>7. SoundTables(m)
  BY <1>10, <1>11 DEF SoundTables
<1>8. LoopsExist(m, m.tokens) /\ Measured(nm, m)
  BY <1>6, <1>11 DEF LoopsExist, Measured
<1>9. token \in Token /\ token.type # "Loop"
  BY <1>5 DEF SequenceToken, Token, TokenType
<1> HIDE DEF token
<1> QED BY <1>3, <1>4, <1>7, <1>8, <1>9, <1>11, StoreSound DEF h

-----------------------------------------------------------------------------
(* The inductive invariant of a recorded thread *)

RInv ==
  /\ IInv
  /\ SoundTables(GrammarAt(0))
  /\ Measured(nb_durations, GrammarAt(0))
  /\ (cur_depth = 0 /\ events # <<>>) => og_seq[0] # <<>>
  /\ StoredThreadsAreWellFormed

\* What the tables are does not depend on the frame they are seen with.
LEMMA FrameSound ==
  ASSUME IInv, SoundTables(GrammarAt(0)), Measured(nb_durations, GrammarAt(0)),
         NEW d \in Depths
  PROVE  /\ Sound(GrammarAt(d)) /\ GrammarAt(d).tokens = og_seq[d]
         /\ Measured(nb_durations, GrammarAt(d))
         /\ LoopsExist(GrammarAt(d), og_seq[d]) /\ og_seq[d] \in Seq(Token)
<1>1. TypeOK /\ GoodTokens(Ids, GrammarAt(d)) /\ 0 \in Depths
  BY Tables DEF IInv, GoodFrame
<1>2. /\ GrammarAt(d) \in Grammar /\ GrammarAt(d).sequences = sequences
      /\ GrammarAt(d).loops = loops /\ GrammarAt(d).tokens = og_seq[d]
      /\ og_seq[d] \in Seq(Token)
      /\ GrammarAt(0).sequences = sequences /\ GrammarAt(0).loops = loops
  BY <1>1, GrammarAtProps
<1>3. LoopsExist(GrammarAt(d), og_seq[d])
  BY <1>1, <1>2 DEF GoodTokens, Below, LoopsExist
<1>4. SoundTables(GrammarAt(d)) /\ Measured(nb_durations, GrammarAt(d))
  BY <1>2 DEF SoundTables, Measured
<1> QED BY <1>2, <1>3, <1>4 DEF Sound

\* The tables of the new state are sound when the rewritten ones are.
LEMMA NewTablesSound ==
  ASSUME IInv', NEW h, Sound(h), Measured(nb_durations', h),
         sequences' = h.sequences, loops' = h.loops
  PROVE  SoundTables(GrammarAt(0)') /\ Measured(nb_durations', GrammarAt(0)')
<1> DEFINE f == [sequences |-> sequences', loops |-> loops', tokens |-> og_seq'[0]]
<1>1. GrammarAt(0)' = f
  BY DEF GrammarAt
<1>2. f.sequences = h.sequences /\ f.loops = h.loops
  OBVIOUS
<1>3. f \in Grammar
  <2>1. /\ sequences' \in Seq(Seq(Token)) /\ loops' \in Seq(Loop)
        /\ og_seq' \in [Depths -> Seq(Token)] /\ 0 \in Depths
    BY MaxDepthAssumption DEF IInv, TypeOK, Depths
  <2> QED BY <2>1 DEF Grammar
<1> HIDE DEF f
<1>4. SoundTables(f) /\ Measured(nb_durations', f)
  BY <1>2, <1>3 DEF Sound, SoundTables, Measured
<1> QED BY <1>1, <1>4

\* Storing the token of an event in the frame of depth d.
LEMMA StoreMeasured ==
  ASSUME Algorithm # "Filter", RInv, IInv', NEW d \in Depths, NEW token \in Token,
         token.type # "Loop", SetFrame(d, StoreToken(GrammarAt(d), token)),
         nb_durations' = MeasureLoop(nb_durations, GrammarAt(d), token)
  PROVE  /\ SoundTables(GrammarAt(0)') /\ Measured(nb_durations', GrammarAt(0)')
         /\ og_seq'[d] # <<>>
<1> DEFINE h == StoreToken(GrammarAt(d), token)
<1>1. /\ Sound(GrammarAt(d)) /\ GrammarAt(d).tokens = og_seq[d]
      /\ Measured(nb_durations, GrammarAt(d))
  BY FrameSound DEF RInv
<1>2. Sound(h) /\ h.tokens # <<>> /\ Measured(nb_durations', h)
  BY <1>1, StoreSound DEF Sound
<1>3. sequences' = h.sequences /\ loops' = h.loops /\ og_seq' = [og_seq EXCEPT ![d] = h.tokens]
  BY DEF SetFrame
<1> HIDE DEF h
<1>4. og_seq'[d] = h.tokens
  BY <1>3 DEF RInv, IInv, TypeOK
<1> QED BY <1>2, <1>3, <1>4, NewTablesSound

\* Closing the frame of depth cur_depth, whose tokens are those of b.
LEMMA ExitMeasured ==
  ASSUME Algorithm # "Filter", RInv, IInv', cur_depth \in Depths, cur_depth > 0,
         NEW b, Sound(b), b.tokens # <<>>, NEW nb, Measured(nb, b),
         LoopsExist(b, og_seq[cur_depth - 1]),
         RecordExitFunction(cur_depth, b),
         nb_durations' = MeasureExit(nb, b, og_seq[cur_depth - 1])
  PROVE  /\ SoundTables(GrammarAt(0)') /\ Measured(nb_durations', GrammarAt(0)')
         /\ cur_depth' = 0 => og_seq'[0] # <<>>
<1> DEFINE d == cur_depth - 1
           h == ExitInto(b, og_seq[d])
<1>1. d \in Depths /\ d # cur_depth /\ cur_depth' = d
  BY MaxDepthAssumption DEF Depths, RecordExitFunction
<1>2. og_seq \in [Depths -> Seq(Token)]
  BY DEF RInv, IInv, TypeOK
<1>3. Sound(h) /\ h.tokens # <<>> /\ Measured(nb_durations', h)
  BY <1>1, <1>2, ExitSound
<1>4. /\ sequences' = h.sequences /\ loops' = h.loops
      /\ og_seq' = [og_seq EXCEPT ![d] = h.tokens, ![cur_depth] = <<>>]
  BY DEF RecordExitFunction
<1> HIDE DEF h, d
<1>5. og_seq'[d] = h.tokens
  BY <1>1, <1>2, <1>4
<1> QED BY <1>1, <1>3, <1>4, <1>5, NewTablesSound

-----------------------------------------------------------------------------
(* The thread that is written *)

\* What a writer with events stores is what the reader relies on.
LEMMA WrittenIsWellFormed ==
  ASSUME RInv, og_seq[0] # <<>>
  PROVE  IsWellFormed(WrittenThread)
<1> DEFINE t == WrittenThread
           counts == [i \in DOMAIN events |-> events[i].nb_occurences]
<1>1. /\ TypeOK /\ 0 \in Depths /\ ReferencesGoDown
      /\ GrammarAt(0).sequences = sequences /\ GrammarAt(0).loops = loops
  BY Tables, InvariantIsAcyclic DEF RInv
<1>2. /\ DOMAIN events = Ids /\ DOMAIN sequences = 1..Len(sequences)
      /\ DOMAIN loops = 1..Len(loops)
      /\ DOMAIN og_seq[0] = 1..Len(og_seq[0]) /\ og_seq[0] \in Seq(Token)
  BY <1>1, Domains DEF TypeOK
<1>3. counts \in Seq(Nat) /\ DOMAIN counts = DOMAIN events
  <2>1. Len(events) \in Nat /\ events \in Seq(EventSummary)
    BY <1>1 DEF TypeOK
  <2>2. \A i \in 1..Len(events) : events[i].nb_occurences \in Nat
    <3>1. \A i \in 1..Len(events) : events[i] \in EventSummary
      BY <2>1, ElementOfSeq
    <3> QED BY <3>1 DEF EventSummary
  <2>3. counts \in [1..Len(events) -> Nat]
    BY <1>2, <2>2 DEF Ids
  <2> QED BY <2>1, <2>3
<1>4. nb_durations \in Seq(Nat) /\ DOMAIN nb_durations = DOMAIN sequences
  BY <1>1, <1>2 DEF RInv, Measured
<1>5. /\ t.sequences = sequences /\ t.loops = loops /\ t.tokens = og_seq[0]
      /\ t.nb_occurences = counts /\ t.nb_durations = nb_durations
      /\ t \in Thread
  BY <1>1, <1>2, <1>3, <1>4 DEF WrittenThread, Thread, TypeOK
<1> HIDE DEF counts, t
<1>6. ASSUME NEW token, NEW n, RefersBelow(token, n)
      PROVE  RefersBelowIn(t, token, n)
  BY <1>3, <1>5, <1>6 DEF RefersBelow, RefersBelowIn
<1>7. /\ \A n \in 1..Len(sequences) : sequences[n] # <<>>
      /\ \A l \in 1..Len(loops) :
           /\ loops[l].repeated_token.type = "Sequence"
           /\ loops[l].repeated_token.id \in 1..Len(sequences)
           /\ loops[l].nb_iterations # <<>>
  BY <1>1 DEF RInv, SoundTables
<1>8. \A n \in DOMAIN sequences : \A k \in DOMAIN sequences[n] :
        RefersBelowIn(t, sequences[n][k], n)
  BY <1>1, <1>6 DEF ReferencesGoDown
<1>9. \A k \in DOMAIN og_seq[0] : RefersBelowIn(t, og_seq[0][k], Len(sequences) + 1)
  BY <1>1, <1>6 DEF ReferencesGoDown
<1> QED BY <1>2, <1>4, <1>5, <1>7, <1>8, <1>9 DEF IsWellFormed, t


-----------------------------------------------------------------------------
(* Every call keeps the invariant *)

\* The archive's invariant in the next state, when the archive is not written.
LEMMA SameArchive ==
  ASSUME StoredThreadsAreWellFormed, UNCHANGED archive
  PROVE  StoredThreadsAreWellFormed'
BY DEF StoredThreadsAreWellFormed

\* The token of an event is not a loop.
LEMMA EventIsToken ==
  ASSUME IInv, NEW e \in Event
  PROVE  EventToken(EventIdOf(e)) \in Token /\ EventToken(EventIdOf(e)).type # "Loop"
<1>1. EventIdOf(e) \in 1..Len(WithEvent(e)) /\ WithEvent(e) \in Seq(EventSummary)
  BY EventProps DEF IInv
<1>2. EventIdOf(e) \in Nat
  BY <1>1
<1> QED BY <1>2 DEF EventToken, Token, TokenType

\* Storing an event keeps the invariant,
LEMMA StoreKeeps ==
  ASSUME Algorithm # "Filter", RInv, IInv', NEW d \in Depths, NEW e \in Event,
         SetFrame(d, StoreToken(GrammarAt(d), EventToken(EventIdOf(e)))),
         Logged(e, MeasureEvent(d, e)), cur_depth' = d
  PROVE  RInv'
<1>1. nb_durations' = MeasureLoop(nb_durations, GrammarAt(d), EventToken(EventIdOf(e)))
  BY DEF Logged, MeasureEvent
<1>2. /\ SoundTables(GrammarAt(0)') /\ Measured(nb_durations', GrammarAt(0)')
      /\ og_seq'[d] # <<>>
  BY <1>1, EventIsToken, StoreMeasured DEF RInv
<1>3. StoredThreadsAreWellFormed'
  BY SameArchive DEF RInv, Logged
<1>4. (cur_depth' = 0 /\ events' # <<>>) => og_seq'[0] # <<>>
  BY <1>2
<1> QED BY <1>2, <1>3, <1>4 DEF RInv

\* as does the end of a block,
LEMMA BlockEndKeeps ==
  ASSUME Algorithm # "Filter", RInv, IInv', NEW e \in BlockEnd, RecordBlockEnd(e),
         Logged(e, MeasureBlockEnd(e))
  PROVE  RInv'
<1> DEFINE token == EventToken(EventIdOf(e))
           g     == GrammarAt(cur_depth)
           b     == StoreToken(g, token)
           nb    == MeasureLoop(nb_durations, g, token)
<1>1. TypeOK /\ e \in Event /\ status = "open" /\ cur_depth > 0
  BY DEF RInv, IInv, Event, RecordBlockEnd
<1>2. cur_depth \in Depths /\ cur_depth - 1 \in Depths
  BY <1>1, MaxDepthAssumption DEF TypeOK, Depths
<1>3. /\ SoundTables(g) /\ LoopsExist(g, g.tokens) /\ Measured(nb_durations, g)
  BY <1>2, FrameSound DEF RInv, Sound
<1>4. /\ LoopsExist(GrammarAt(cur_depth - 1), og_seq[cur_depth - 1])
      /\ GrammarAt(cur_depth - 1).loops = g.loops
  BY <1>1, <1>2, FrameSound, GrammarAtProps DEF RInv
<1>5. token \in Token /\ token.type # "Loop"
  BY <1>1, EventIsToken DEF RInv
<1>6. /\ RecordExitFunction(cur_depth, b)
      /\ nb_durations' = MeasureExit(nb, b, og_seq[cur_depth - 1])
  BY DEF RecordBlockEnd, Logged, MeasureBlockEnd, MeasureEvent
<1> HIDE DEF token
<1>7. Sound(b) /\ b.tokens # <<>> /\ Len(g.loops) <= Len(b.loops) /\ Measured(nb, b)
  BY <1>3, <1>5, StoreSound
<1>8. Len(g.loops) \in Nat /\ Len(b.loops) \in Nat
  BY <1>3, <1>7 DEF Sound, SoundTables, Grammar
<1> HIDE DEF b, nb, g
<1>9. LoopsExist(b, og_seq[cur_depth - 1])
  BY <1>4, <1>7, <1>8 DEF LoopsExist
<1>10. /\ SoundTables(GrammarAt(0)') /\ Measured(nb_durations', GrammarAt(0)')
       /\ cur_depth' = 0 => og_seq'[0] # <<>>
  BY <1>1, <1>2, <1>6, <1>7, <1>9, ExitMeasured
<1>11. StoredThreadsAreWellFormed'
  BY SameArchive DEF RInv, Logged
<1> QED BY <1>10, <1>11 DEF RInv

\* and a turn of the loop in threadClose.
LEMMA UnfinishedKeeps ==
  ASSUME Algorithm # "Filter", RInv, IInv', CloseUnfinished, UNCHANGED archive,
         nb_durations' = MeasureExit(nb_durations, GrammarAt(cur_depth), og_seq[cur_depth - 1])
  PROVE  RInv'
<1> DEFINE g == GrammarAt(cur_depth)
<1>1. /\ TypeOK /\ cur_depth > 0 /\ status = "closing" /\ RecordExitFunction(cur_depth, g)
  BY DEF RInv, IInv, CloseUnfinished
<1>2. cur_depth \in Depths /\ cur_depth - 1 \in Depths /\ cur_depth # 0
  BY <1>1, MaxDepthAssumption DEF TypeOK, Depths
<1>3. /\ Sound(g) /\ g.tokens = og_seq[cur_depth] /\ Measured(nb_durations, g)
  BY <1>2, FrameSound DEF RInv
<1>4. g.tokens # <<>>
  <2>1. FrameShape(cur_depth)
    BY <1>2 DEF RInv, IInv
  <2> QED BY <1>2, <1>3, <2>1 DEF FrameShape, HeadIn, Depths
<1>5. /\ LoopsExist(GrammarAt(cur_depth - 1), og_seq[cur_depth - 1])
      /\ GrammarAt(cur_depth - 1).loops = g.loops
  BY <1>1, <1>2, FrameSound, GrammarAtProps DEF RInv
<1> HIDE DEF g
<1>6. LoopsExist(g, og_seq[cur_depth - 1])
  BY <1>5 DEF LoopsExist
<1>7. /\ SoundTables(GrammarAt(0)') /\ Measured(nb_durations', GrammarAt(0)')
      /\ cur_depth' = 0 => og_seq'[0] # <<>>
  BY <1>1, <1>2, <1>3, <1>4, <1>6, ExitMeasured DEF g
<1>8. StoredThreadsAreWellFormed'
  BY SameArchive DEF RInv
<1> QED BY <1>7, <1>8 DEF RInv

\* The thread that is closed becomes the one in the archive.
LEMMA StoreThreadKeeps ==
  ASSUME RInv, IInv', StoreThread
  PROVE  RInv'
<1>1. /\ cur_depth = 0 /\ UNCHANGED <<events, sequences, loops, og_seq, cur_depth, nb_durations>>
      /\ archive' = IF events = <<>> THEN archive ELSE {WrittenThread}
  BY DEF StoreThread, FinalizeThread
<1>2. events # <<>> => IsWellFormed(WrittenThread)
  BY <1>1, WrittenIsWellFormed DEF RInv
<1>3. StoredThreadsAreWellFormed'
  BY <1>1, <1>2 DEF StoredThreadsAreWellFormed, RInv
<1>4. GrammarAt(0)' = GrammarAt(0)
  BY <1>1 DEF GrammarAt
<1> QED BY <1>1, <1>3, <1>4 DEF RInv

\* A step that leaves the tables alone keeps the invariant.
LEMMA SameTablesKeep ==
  ASSUME RInv, IInv', UNCHANGED <<events, sequences, loops, og_seq, cur_depth, nb_durations, archive>>
  PROVE  RInv'
<1>1. GrammarAt(0)' = GrammarAt(0)
  BY DEF GrammarAt
<1>2. StoredThreadsAreWellFormed'
  BY SameArchive DEF RInv
<1> QED BY <1>1, <1>2 DEF RInv

\* A new writer satisfies the invariant,
LEMMA RecordInitInvariant == RecordInit => RInv
<1> SUFFICES ASSUME RecordInit PROVE RInv
  OBVIOUS
<1>1. IInv /\ events = <<>> /\ nb_durations = <<>> /\ archive = {}
  BY InitInvariant DEF RecordInit, Init
<1>2. /\ GrammarAt(0) \in Grammar
      /\ GrammarAt(0).sequences = <<>> /\ GrammarAt(0).loops = <<>>
  BY <1>1, Tables, GrammarAtProps DEF RecordInit, Init
<1>3. /\ <<>> \in Seq(Nat) /\ Len(<<>>) = 0 /\ 1..0 = {}
  OBVIOUS
<1>4. SoundTables(GrammarAt(0)) /\ Measured(nb_durations, GrammarAt(0))
  BY <1>1, <1>2, <1>3 DEF SoundTables, Measured
<1> QED BY <1>1, <1>4 DEF RInv, StoredThreadsAreWellFormed

\* and every step keeps it.
LEMMA RecordNextKeeps ==
  ASSUME Algorithm # "Filter", RInv, [RecordNext]_recordVars
  PROVE  RInv'
<1>1. IInv'
  <2>1. [Next]_vars
    BY DEF RecordNext, StoreThread, Next, Record, Close, recordVars
  <2> QED BY <2>1, NextKeeps DEF RInv
<1>2. ASSUME NEW e \in BlockStart, RecordBlockStart(e), Logged(e, MeasureEvent(cur_depth + 1, e))
      PROVE  RInv'
  <2>1. /\ cur_depth' = cur_depth + 1 /\ e \in Event
        /\ SetFrame(cur_depth + 1, StoreToken(GrammarAt(cur_depth + 1), EventToken(EventIdOf(e))))
    BY <1>2 DEF RecordBlockStart, Event
  <2>2. cur_depth + 1 \in Depths
    BY <1>2, MaxDepthAssumption DEF RecordBlockStart, RInv, IInv, TypeOK, Depths
  <2> QED BY <1>1, <1>2, <2>1, <2>2, StoreKeeps
<1>3. ASSUME NEW e \in Singleton, RecordSingleton(e), Logged(e, MeasureEvent(cur_depth, e))
      PROVE  RInv'
  <2>1. /\ cur_depth' = cur_depth /\ e \in Event /\ cur_depth \in Depths
        /\ SetFrame(cur_depth, StoreToken(GrammarAt(cur_depth), EventToken(EventIdOf(e))))
    BY <1>3 DEF RecordSingleton, Event, RInv, IInv, TypeOK
  <2> QED BY <1>1, <1>3, <2>1, StoreKeeps
<1>4. ASSUME NEW e \in BlockEnd, RecordBlockEnd(e), Logged(e, MeasureBlockEnd(e))
      PROVE  RInv'
  BY <1>1, <1>4, BlockEndKeeps
<1>5. ASSUME \/ ThreadClose /\ UNCHANGED <<log, nb_durations, archive>>
             \/ UNCHANGED recordVars
      PROVE  RInv'
  <2>1. UNCHANGED <<events, sequences, loops, og_seq, cur_depth, nb_durations, archive>>
    BY <1>5 DEF ThreadClose, recordVars, vars
  <2> QED BY <1>1, <2>1, SameTablesKeep
<1>6. ASSUME CloseUnfinished, UNCHANGED <<log, archive>>,
             nb_durations' = MeasureExit(nb_durations, GrammarAt(cur_depth), og_seq[cur_depth - 1])
      PROVE  RInv'
  BY <1>1, <1>6, UnfinishedKeeps
<1>7. ASSUME StoreThread
      PROVE  RInv'
  BY <1>1, <1>7, StoreThreadKeeps
<1> QED BY <1>2, <1>3, <1>4, <1>5, <1>6, <1>7 DEF RecordNext

-----------------------------------------------------------------------------
(* Part 2, printTrace on a well-formed thread: the invariant *)

\* The sequence that a frame reads, itself or repeated.
BodyIdIn(t, frame) ==
  IF frame.block.type = "Loop" THEN t.loops[frame.block.id].repeated_token.id
  ELSE frame.block.id

\* What a frame other than the first is on, and how deep it can be: two frames
\* for each sequence that is newer than its own, and those that it needs itself.
WellPlaced(t, frame, k) ==
  /\ frame.block \in TokensOf(t)
  /\ IsIterable(frame.block)
  /\ k + 2 * BodyIdIn(t, frame) <= 2 * Len(t.sequences) + 3
  /\ frame.block.type = "Loop" => k + 2 * BodyIdIn(t, frame) <= 2 * Len(t.sequences) + 2

\* Of two frames above the first, the upper one reads the older sequence.
Older(t, upper, lower, adjacent) ==
  \/ BodyIdIn(t, upper) < BodyIdIn(t, lower)
  \/ adjacent /\ lower.block.type = "Loop" /\ upper.block.type # "Loop"
       /\ BodyIdIn(t, upper) = BodyIdIn(t, lower)

GoodStack(t, cs) ==
  /\ cs \in Seq(Frame)
  /\ \A k \in 1..Len(cs) : HasToken(t, cs[k])
  /\ \A k \in 1..Len(cs) : k = 1 => cs[k].block = SequenceToken(0)
  /\ \A k \in 1..Len(cs) : k > 1 =>
       cs[k].block = TokenAt(t, cs[k - 1]) /\ WellPlaced(t, cs[k], k)
  /\ \A j, k \in 1..Len(cs) : (1 < j /\ j < k) => Older(t, cs[k], cs[j], k = j + 1)

ReaderInv ==
  /\ \A t \in archive : IsWellFormed(t)
  /\ ReaderTypeOK
  /\ progress = "closed" => callstack = <<>>
  /\ progress # "closed" => IsWellFormed(thread)
  /\ GoodStack(thread, callstack)
  /\ OverrunsOnlyDeepThreads

-----------------------------------------------------------------------------
(* Sequences of frames *)

\* A set of numbers that has an upper bound has a greatest element.
LEMMA Greatest ==
  ASSUME NEW n \in Nat, NEW S \in SUBSET (1..n), S # {}
  PROVE  \E k \in S : \A j \in S : j <= k
<1> DEFINE T == {n - k : k \in S}
           R == {ss \in Nat \X Nat : ss[1] < ss[2]}
<1>1. T \subseteq Nat
  OBVIOUS
<1>2. T # {}
  <2>1. PICK k \in S : TRUE
    OBVIOUS
  <2>2. n - k \in T
    OBVIOUS
  <2> QED BY <2>2
<1>3. Order!IsWellFoundedOn(R, Nat)
  BY Order!NatLessThanWellFounded DEF Order!OpToRel
<1>4. \A x, y \in Nat : x < y => <<x, y>> \in R
  OBVIOUS
<1>5. \A k \in S : n - k \in T
  OBVIOUS
<1>6. \A x \in T : \E k \in S : x = n - k
  OBVIOUS
<1> HIDE DEF R, T
<1>7. \E x \in T : \A y \in T : ~ (<<y, x>> \in R)
  BY <1>1, <1>2, <1>3, Order!WFMin
<1>8. PICK x \in T : \A y \in T : <<y, x>> \notin R
  BY <1>7
<1>9. PICK k \in S : x = n - k
  BY <1>6
<1>10. ASSUME NEW j \in S
       PROVE  j <= k
  <2>1. n - j \in T /\ x \in Nat /\ n - j \in Nat
    BY <1>1, <1>5
  <2>2. ~(n - j < x)
    BY <1>4, <1>8, <2>1
  <2> QED BY <1>9, <2>2
<1> QED BY <1>10

\* The first k - 1 frames with one more on them.
LEMMA PrefixProps ==
  ASSUME NEW cs \in Seq(Frame), NEW k \in 1..Len(cs), NEW f \in Frame
  PROVE  LET new == Append(SubSeq(cs, 1, k - 1), f)
         IN  /\ new \in Seq(Frame)
             /\ Len(new) = k
             /\ new[k] = f
             /\ \A i \in 1..(k - 1) : new[i] = cs[i]
<1> DEFINE p == SubSeq(cs, 1, k - 1)
<1>1. \A i \in 1..(k - 1) : cs[i] \in Frame
  BY ElementOfSeq
<1>2. p \in Seq(Frame) /\ Len(p) = k - 1 /\ \A i \in 1..(k - 1) : p[i] = cs[i]
  BY <1>1, SubSeqProperties
<1> HIDE DEF p
<1>3. /\ Append(p, f) \in Seq(Frame)
      /\ Len(Append(p, f)) = k
      /\ \A i \in 1..(k - 1) : Append(p, f)[i] = p[i]
      /\ Append(p, f)[k] = f
  BY <1>2, AppendProperties
<1>4. /\ Append(p, f) \in Seq(Frame)
      /\ Len(Append(p, f)) = k
      /\ Append(p, f)[k] = f
      /\ \A i \in 1..(k - 1) : Append(p, f)[i] = cs[i]
  BY <1>2, <1>3
<1> QED BY <1>4 DEF p

-----------------------------------------------------------------------------
(* What a frame of a well-formed thread is on *)

\* The main sequence and those of the table are sequences of tokens, none empty.
LEMMA SequencesAreTyped ==
  ASSUME NEW t, IsWellFormed(t), NEW id \in 0..Len(t.sequences)
  PROVE  /\ SequenceAt(t, id) \in Seq(Token)
         /\ Len(SequenceAt(t, id)) > 0
         /\ \A k \in 1..Len(SequenceAt(t, id)) :
              RefersBelowIn(t, SequenceAt(t, id)[k], IF id = 0 THEN Len(t.sequences) + 1 ELSE id)
<1>1. t.tokens \in Seq(Token) /\ t.sequences \in Seq(Seq(Token))
  BY DEF IsWellFormed, Thread
<1>2. CASE id = 0
  <2>1. SequenceAt(t, id) = t.tokens
    BY <1>2 DEF SequenceAt
  <2>2. t.tokens # <<>> /\ \A k \in DOMAIN t.tokens : RefersBelowIn(t, t.tokens[k], Len(t.sequences) + 1)
    BY DEF IsWellFormed
  <2>3. DOMAIN t.tokens = 1..Len(t.tokens) /\ Len(t.tokens) > 0
    BY <1>1, <2>2
  <2> QED BY <1>1, <1>2, <2>1, <2>2, <2>3
<1>3. CASE id # 0
  <2>0. id \in 1..Len(t.sequences)
    BY <1>1, <1>3
  <2>1. SequenceAt(t, id) = t.sequences[id] /\ t.sequences[id] \in Seq(Token)
    BY <1>1, <1>3, <2>0, ElementOfSeq DEF SequenceAt
  <2>2. id \in DOMAIN t.sequences
    BY <1>1, <2>0
  <2>3. /\ t.sequences[id] # <<>>
        /\ \A k \in DOMAIN t.sequences[id] : RefersBelowIn(t, t.sequences[id][k], id)
    BY <2>2 DEF IsWellFormed
  <2>4. DOMAIN t.sequences[id] = 1..Len(t.sequences[id]) /\ Len(t.sequences[id]) > 0
    BY <2>1, <2>3
  <2> QED BY <1>3, <2>1, <2>3, <2>4
<1> QED BY <1>2, <1>3

\* What a loop repeats is a sequence of the table.
LEMMA LoopsAreTyped ==
  ASSUME NEW t, IsWellFormed(t), NEW l \in DOMAIN t.loops
  PROVE  /\ t.loops[l].repeated_token \in Token
         /\ t.loops[l].repeated_token.type = "Sequence"
         /\ t.loops[l].repeated_token.id \in 1..Len(t.sequences)
<1>1. t.loops \in Seq(Loop) /\ t.sequences \in Seq(Seq(Token))
  BY DEF IsWellFormed, Thread
<1>2. t.loops[l] \in Loop
  BY <1>1, ElementOfSeq
<1>3. /\ t.loops[l].repeated_token.type = "Sequence"
      /\ t.loops[l].repeated_token.id \in DOMAIN t.sequences
  BY DEF IsWellFormed
<1>4. t.loops[l].repeated_token \in Token
  BY <1>2 DEF Loop
<1>5. DOMAIN t.sequences = 1..Len(t.sequences)
  BY <1>1
<1> QED BY <1>3, <1>4, <1>5

\* A reference to something below n is a token of the thread; if there is
\* something in it, it reads a sequence older than n.
LEMMA ReferencesAreTyped ==
  ASSUME NEW t, IsWellFormed(t), NEW n, NEW token \in Token, RefersBelowIn(t, token, n)
  PROVE  /\ token \in TokensOf(t)
         /\ token.type = "Event" \/ IsIterable(token)
         /\ IsIterable(token) => BodyIdIn(t, NewFrame(token)) \in 1..Len(t.sequences)
         /\ IsIterable(token) => BodyIdIn(t, NewFrame(token)) < n
<1>1. t.sequences \in Seq(Seq(Token))
  BY DEF IsWellFormed, Thread
<1>2. CASE token.type = "Event" /\ token.id \in DOMAIN t.nb_occurences
  <2>1. token = EventToken(token.id)
    BY <1>2 DEF Token, EventToken
  <2> QED BY <1>2, <2>1 DEF TokensOf, IsIterable
<1>3. CASE token.type = "Sequence" /\ token.id \in DOMAIN t.sequences /\ token.id < n
  <2>1. token = SequenceToken(token.id)
    BY <1>3 DEF Token, SequenceToken
  <2> QED BY <1>1, <1>3, <2>1 DEF TokensOf, IsIterable, BodyIdIn, NewFrame
<1>4. CASE /\ token.type = "Loop"
           /\ token.id \in DOMAIN t.loops
           /\ t.loops[token.id].repeated_token.id < n
  <2>1. token = LoopToken(token.id)
    BY <1>4 DEF Token, LoopToken
  <2>2. t.loops[token.id].repeated_token.id \in 1..Len(t.sequences)
    BY <1>4, LoopsAreTyped
  <2> QED BY <1>4, <2>1, <2>2 DEF TokensOf, IsIterable, BodyIdIn, NewFrame
<1> QED BY <1>2, <1>3, <1>4 DEF RefersBelowIn

\* The tokens of a thread are tokens.
LEMMA TokensAreTyped ==
  ASSUME NEW t, IsWellFormed(t), NEW token \in TokensOf(t)
  PROVE  token \in Token
<1>1. /\ t.sequences \in Seq(Seq(Token)) /\ t.loops \in Seq(Loop)
      /\ t.nb_occurences \in Seq(Nat)
  BY DEF IsWellFormed, Thread
<1>2. /\ DOMAIN t.sequences \subseteq Nat /\ DOMAIN t.loops \subseteq Nat
      /\ DOMAIN t.nb_occurences \subseteq Nat
  BY <1>1
<1>3. CASE \E i \in DOMAIN t.nb_occurences : token = EventToken(i)
  BY <1>2, <1>3 DEF EventToken, Token, TokenType
<1>4. CASE \E i \in DOMAIN t.sequences : token = SequenceToken(i)
  BY <1>2, <1>4 DEF SequenceToken, Token, TokenType
<1>5. CASE \E i \in DOMAIN t.loops : token = LoopToken(i)
  BY <1>2, <1>5 DEF LoopToken, Token, TokenType
<1> QED BY <1>3, <1>4, <1>5 DEF TokensOf

\* A block of the table is a sequence or a loop of it.
LEMMA BlocksAreTyped ==
  ASSUME NEW t, IsWellFormed(t), NEW block \in TokensOf(t), IsIterable(block)
  PROVE  \/ block.type = "Sequence" /\ block.id \in 1..Len(t.sequences)
         \/ block.type = "Loop" /\ block.id \in DOMAIN t.loops
<1>1. t.sequences \in Seq(Seq(Token))
  BY DEF IsWellFormed, Thread
<1> QED BY <1>1 DEF TokensOf, IsIterable, EventToken, SequenceToken, LoopToken

\* The sequence of a block of the table has a number.
LEMMA BodyIdsAreTyped ==
  ASSUME NEW t, IsWellFormed(t), NEW frame,
         frame.block \in TokensOf(t), IsIterable(frame.block)
  PROVE  BodyIdIn(t, frame) \in Int
<1>1. \/ frame.block.type = "Sequence" /\ frame.block.id \in 1..Len(t.sequences)
      \/ frame.block.type = "Loop" /\ frame.block.id \in DOMAIN t.loops
  BY BlocksAreTyped
<1>2. frame.block.type = "Loop" =>
        t.loops[frame.block.id].repeated_token.id \in 1..Len(t.sequences)
  BY <1>1, LoopsAreTyped
<1> QED BY <1>1, <1>2 DEF BodyIdIn

-----------------------------------------------------------------------------
(* The call stack *)

\* Frames with the same block read the same sequence.
LEMMA SameBody ==
  ASSUME NEW t, NEW f, NEW g, f.block = g.block
  PROVE  BodyIdIn(t, f) = BodyIdIn(t, g)
BY DEF BodyIdIn

\* The token under the cursor of the uppermost frame: which block it can be, and
\* how much older than the frame's.
LEMMA CurTokenProps ==
  ASSUME NEW t, IsWellFormed(t), NEW cs, GoodStack(t, cs), NEW k \in 1..Len(cs)
  PROVE  LET token == TokenAt(t, cs[k])
         IN  /\ token \in TokensOf(t)
             /\ token.type = "Event" \/ IsIterable(token)
             /\ IsIterable(token) => BodyIdIn(t, NewFrame(token)) \in 1..Len(t.sequences)
             /\ (IsIterable(token) /\ k > 1) =>
                  \/ BodyIdIn(t, NewFrame(token)) < BodyIdIn(t, cs[k])
                  \/ /\ cs[k].block.type = "Loop" /\ token.type = "Sequence"
                     /\ BodyIdIn(t, NewFrame(token)) = BodyIdIn(t, cs[k])
<1> DEFINE token == TokenAt(t, cs[k])
<1>1. cs[k] \in Frame /\ HasToken(t, cs[k])
  BY ElementOfSeq DEF GoodStack
<1>A. k > 1 => WellPlaced(t, cs[k], k)
  BY DEF GoodStack
<1>B. k # 1 => k > 1 /\ cs[k].block \in TokensOf(t) /\ IsIterable(cs[k].block)
  <2>1. k # 1 => k > 1
    BY DEF GoodStack
  <2> QED BY <1>A, <2>1 DEF WellPlaced
<1>2. CASE k = 1 \/ cs[k].block.type = "Sequence"
  <2>1. cs[k].block.type = "Sequence" /\ cs[k].block.id \in 0..Len(t.sequences)
        /\ (k > 1 => cs[k].block.id # 0)
    <3>1. CASE k = 1
      <4>1. cs[k].block = SequenceToken(0)
        BY <3>1 DEF GoodStack
      <4>2. t.sequences \in Seq(Seq(Token))
        BY DEF IsWellFormed, Thread
      <4> QED BY <3>1, <4>1, <4>2 DEF SequenceToken
    <3>2. CASE k # 1
      <4>1. cs[k].block \in TokensOf(t) /\ IsIterable(cs[k].block) /\ cs[k].block.type = "Sequence"
        BY <1>B, <1>2, <3>2
      <4> QED BY <4>1, BlocksAreTyped
    <3> QED BY <3>1, <3>2
  <2> DEFINE id == cs[k].block.id
             s  == SequenceAt(t, id)
             i  == cs[k].index + 1
             n  == IF id = 0 THEN Len(t.sequences) + 1 ELSE id
  <2>2. token = s[i]
    BY <2>1 DEF TokenAt
  <2>3. s \in Seq(Token) /\ \A j \in 1..Len(s) : RefersBelowIn(t, s[j], n)
    BY <2>1, SequencesAreTyped
  <2>4. i \in 1..Len(s)
    <3>1. cs[k].index \in Nat /\ cs[k].index < Len(s)
      BY <1>1, <2>1 DEF HasToken, Frame
    <3> QED BY <2>3, <3>1
  <2> HIDE DEF s, i
  <2>5. token \in Token /\ RefersBelowIn(t, token, n)
    BY <2>2, <2>3, <2>4, ElementOfSeq
  <2> HIDE DEF token
  <2>6. /\ token \in TokensOf(t)
        /\ token.type = "Event" \/ IsIterable(token)
        /\ IsIterable(token) => BodyIdIn(t, NewFrame(token)) \in 1..Len(t.sequences)
        /\ IsIterable(token) => BodyIdIn(t, NewFrame(token)) < n
    BY <2>5, ReferencesAreTyped
  <2>7. k > 1 => n = BodyIdIn(t, cs[k])
    BY <2>1 DEF BodyIdIn
  <2> HIDE DEF n
  <2> QED BY <2>6, <2>7 DEF token
<1>3. CASE k # 1 /\ cs[k].block.type # "Sequence"
  <2> DEFINE l == cs[k].block.id
  <2>1. cs[k].block \in TokensOf(t) /\ IsIterable(cs[k].block)
    BY <1>B, <1>3
  <2>2. cs[k].block.type = "Loop" /\ l \in DOMAIN t.loops
    BY <1>3, <2>1, BlocksAreTyped
  <2>3. token = t.loops[l].repeated_token
    BY <1>3 DEF TokenAt
  <2>4. /\ token \in Token /\ token.type = "Sequence"
        /\ token.id \in 1..Len(t.sequences)
    BY <2>2, <2>3, LoopsAreTyped
  <2>5. BodyIdIn(t, cs[k]) = token.id
    BY <2>2, <2>3 DEF BodyIdIn
  <2> HIDE DEF token, l
  <2>6. token \in TokensOf(t) /\ IsIterable(token)
    <3>1. token = SequenceToken(token.id)
      BY <2>4 DEF Token, SequenceToken
    <3>2. DOMAIN t.sequences = 1..Len(t.sequences)
      BY DEF IsWellFormed, Thread
    <3> QED BY <2>4, <3>1, <3>2 DEF TokensOf, IsIterable
  <2>7. BodyIdIn(t, NewFrame(token)) = token.id
    BY <2>4 DEF BodyIdIn, NewFrame
  <2> QED BY <2>2, <2>4, <2>5, <2>6, <2>7 DEF token
<1> QED BY <1>2, <1>3

\* A stack of which the uppermost frame moved on within its block is as good.
LEMMA AdvanceKeeps ==
  ASSUME NEW t, IsWellFormed(t), NEW cs, GoodStack(t, cs),
         NEW k \in 1..Len(cs), ~IsAtEnd(t, cs[k])
  PROVE  GoodStack(t, Append(SubSeq(cs, 1, k - 1), Advance(cs[k])))
<1> DEFINE f   == Advance(cs[k])
           new == Append(SubSeq(cs, 1, k - 1), f)
<1>1. cs \in Seq(Frame) /\ cs[k] \in Frame /\ k \in Nat /\ Len(cs) \in Nat
  BY ElementOfSeq DEF GoodStack
<1>2. f \in Frame /\ f.block = cs[k].block
  BY <1>1 DEF Advance, Frame
<1>3. HasToken(t, f)
  <2>1. CASE cs[k].block.type # "Sequence"
    BY <1>2, <2>1 DEF HasToken
  <2>2. CASE cs[k].block.type = "Sequence"
    <3> DEFINE s == SequenceAt(t, cs[k].block.id)
    <3>1. ~(cs[k].index + 1 >= Len(s))
      BY <2>2 DEF IsAtEnd, IsEndOfSequence
    <3>2. cs[k].block.id \in 0..Len(t.sequences)
      <4>1. CASE k = 1
        <5>1. cs[k].block = SequenceToken(0)
          BY <4>1 DEF GoodStack
        <5>2. Len(t.sequences) \in Nat
          BY DEF IsWellFormed, Thread
        <5> QED BY <5>1, <5>2 DEF SequenceToken
      <4>2. CASE k # 1
        <5>1. k > 1
          BY <1>1, <4>2
        <5>2. WellPlaced(t, cs[k], k)
          BY <5>1 DEF GoodStack
        <5>3. cs[k].block \in TokensOf(t) /\ IsIterable(cs[k].block)
          BY <5>2 DEF WellPlaced
        <5> QED BY <2>2, <5>3, BlocksAreTyped
      <4> QED BY <4>1, <4>2
    <3>3. Len(s) \in Nat
      BY <3>2, SequencesAreTyped
    <3>4. f.index = cs[k].index + 1 /\ cs[k].index \in Nat
      BY <1>1, <2>2 DEF Advance, Frame
    <3>5. f.index < Len(s)
      BY <3>1, <3>3, <3>4
    <3> QED BY <1>2, <3>5 DEF HasToken
  <2> QED BY <2>1, <2>2
<1> HIDE DEF f
<1>4. /\ new \in Seq(Frame)
      /\ Len(new) = k
      /\ new[k] = f
      /\ \A i \in 1..(k - 1) : new[i] = cs[i]
  BY <1>1, <1>2, PrefixProps
<1> HIDE DEF new
<1>5. \A i \in 1..k : new[i].block = cs[i].block /\ BodyIdIn(t, new[i]) = BodyIdIn(t, cs[i])
  <2>1. \A i \in 1..k : new[i].block = cs[i].block
    BY <1>1, <1>2, <1>4
  <2> QED BY <2>1, SameBody
<1>6. \A i \in 1..k : HasToken(t, new[i])
  BY <1>1, <1>3, <1>4 DEF GoodStack
<1>7. \A i \in 1..k : i = 1 => new[i].block = SequenceToken(0)
  BY <1>1, <1>5 DEF GoodStack
<1>8. ASSUME NEW i \in 1..k, i > 1
      PROVE  new[i].block = TokenAt(t, new[i - 1]) /\ WellPlaced(t, new[i], i)
  <2>1. i \in 1..Len(cs) /\ i - 1 \in 1..(k - 1)
    BY <1>1, <1>8
  <2>2. cs[i].block = TokenAt(t, cs[i - 1]) /\ WellPlaced(t, cs[i], i)
    BY <1>8, <2>1 DEF GoodStack
  <2>3. new[i - 1] = cs[i - 1]
    BY <1>4, <2>1
  <2>4. WellPlaced(t, new[i], i)
    BY <1>5, <2>2 DEF WellPlaced
  <2> QED BY <1>5, <2>2, <2>3, <2>4
<1>9. ASSUME NEW i \in 1..k, NEW j \in 1..k, 1 < j, j < i
      PROVE  Older(t, new[i], new[j], i = j + 1)
  <2>1. i \in 1..Len(cs) /\ j \in 1..Len(cs)
    BY <1>1
  <2>2. Older(t, cs[i], cs[j], i = j + 1)
    BY <1>9, <2>1 DEF GoodStack
  <2> QED BY <1>5, <2>2 DEF Older
<1>10. GoodStack(t, new)
  BY <1>4, <1>6, <1>7, <1>8, <1>9 DEF GoodStack
<1> QED BY <1>10 DEF new, f

\* moveToNextToken keeps the stack good: it may leave any number of blocks.
LEMMA MoveKeeps ==
  ASSUME NEW t, IsWellFormed(t), NEW cs, GoodStack(t, cs)
  PROVE  /\ GoodStack(t, MoveToNextToken(t, cs))
         /\ Len(MoveToNextToken(t, cs)) <= Len(cs)
<1> DEFINE unfinished == {k \in DOMAIN cs : ~IsAtEnd(t, cs[k])}
<1>1. cs \in Seq(Frame) /\ Len(cs) \in Nat /\ DOMAIN cs = 1..Len(cs)
  BY DEF GoodStack
<1>2. CASE unfinished = {}
  <2>1. MoveToNextToken(t, cs) = <<>>
    BY <1>2 DEF MoveToNextToken
  <2> QED BY <1>1, <2>1 DEF GoodStack
<1>3. CASE unfinished # {}
  <2>1. unfinished \in SUBSET (1..Len(cs))
    BY <1>1
  <2> HIDE DEF unfinished
  <2>2. \E k \in unfinished : \A j \in unfinished : j <= k
    BY <1>1, <1>3, <2>1, Greatest
  <2> DEFINE k == CHOOSE k \in unfinished : \A j \in unfinished : j <= k
  <2>3. k \in unfinished
    BY <2>2
  <2>4. MoveToNextToken(t, cs) = Append(SubSeq(cs, 1, k - 1), Advance(cs[k]))
    BY <1>3 DEF MoveToNextToken, unfinished
  <2> HIDE DEF k
  <2>5. k \in 1..Len(cs) /\ ~IsAtEnd(t, cs[k])
    BY <1>1, <2>3 DEF unfinished
  <2>6. cs[k] \in Frame
    BY <1>1, <2>5, ElementOfSeq
  <2>7. Advance(cs[k]) \in Frame
    BY <2>6 DEF Advance, Frame
  <2>8. Len(Append(SubSeq(cs, 1, k - 1), Advance(cs[k]))) = k
    BY <1>1, <2>5, <2>7, PrefixProps
  <2> QED BY <1>1, <2>4, <2>5, <2>8, AdvanceKeeps
<1> QED BY <1>2, <1>3

\* A good stack that enters the block under its cursor is good, and no higher
\* than twice the number of sequences allows.
LEMMA EnterKeeps ==
  ASSUME NEW t, IsWellFormed(t), NEW cs, GoodStack(t, cs), cs # <<>>,
         IsIterable(CurToken(t, cs))
  PROVE  /\ GoodStack(t, EnterBlock(cs, CurToken(t, cs)))
         /\ Len(EnterBlock(cs, CurToken(t, cs))) = Len(cs) + 1
         /\ Len(cs) <= 2 * Len(t.sequences)
<1> DEFINE n     == Len(cs)
           token == TokenAt(t, cs[n])
           f     == NewFrame(token)
           new   == Append(cs, f)
<1>1. cs \in Seq(Frame) /\ n \in 1..n /\ n \in Nat
  BY DEF GoodStack
<1>2. CurToken(t, cs) = token /\ EnterBlock(cs, token) = new
  BY DEF CurToken, CurFrame, EnterBlock
<1>3. /\ token \in TokensOf(t) /\ IsIterable(token)
      /\ BodyIdIn(t, f) \in 1..Len(t.sequences)
      /\ n > 1 =>
           \/ BodyIdIn(t, f) < BodyIdIn(t, cs[n])
           \/ /\ cs[n].block.type = "Loop" /\ token.type = "Sequence"
              /\ BodyIdIn(t, f) = BodyIdIn(t, cs[n])
  BY <1>1, <1>2, CurTokenProps
<1>4. Len(t.sequences) \in Nat /\ t.sequences \in Seq(Seq(Token))
  BY DEF IsWellFormed, Thread
<1>5. token \in Token
  BY <1>3, TokensAreTyped
<1> HIDE DEF token
<1>6. f \in Frame /\ f.block = token
  BY <1>5 DEF NewFrame, Frame
<1>7. HasToken(t, f)
  <2>1. CASE token.type # "Sequence"
    BY <1>6, <2>1 DEF HasToken
  <2>2. CASE token.type = "Sequence"
    <3>1. token.id \in 1..Len(t.sequences)
      BY <1>3, <2>2, BlocksAreTyped
    <3>2. Len(SequenceAt(t, token.id)) > 0
      BY <1>4, <3>1, SequencesAreTyped
    <3>3. f.index = 0
      BY DEF NewFrame
    <3> QED BY <1>6, <3>2, <3>3 DEF HasToken
  <2> QED BY <2>1, <2>2
<1> HIDE DEF f
<1>8. new \in Seq(Frame) /\ Len(new) = n + 1 /\ new[n + 1] = f /\ \A i \in 1..n : new[i] = cs[i]
  BY <1>1, <1>6, AppendProperties
<1> HIDE DEF new
<1> DEFINE N == Len(t.sequences)
           b == BodyIdIn(t, f)
           c == BodyIdIn(t, cs[n])
<1>9. WellPlaced(t, f, n + 1)
  <2>1. CASE n = 1
    <3>1. n + 1 + 2 * b <= 2 * N + 2
      <4>1. b \in Int /\ b <= N /\ N \in Int
        BY <1>3, <1>4
      <4> HIDE DEF b, N
      <4> QED BY <2>1, <4>1
    <3>2. n + 1 + 2 * b <= 2 * N + 3
      <4>1. b \in Int /\ N \in Int
        BY <1>3, <1>4
      <4> HIDE DEF b, N
      <4> QED BY <1>1, <3>1, <4>1
    <3> QED BY <1>3, <1>6, <3>1, <3>2 DEF WellPlaced
  <2>2. CASE n > 1
    <3>1. WellPlaced(t, cs[n], n)
      BY <1>1, <2>2 DEF GoodStack
    <3>2. /\ cs[n].block \in TokensOf(t) /\ IsIterable(cs[n].block)
          /\ n + 2 * c <= 2 * N + 3
          /\ cs[n].block.type = "Loop" => n + 2 * c <= 2 * N + 2
      BY <3>1 DEF WellPlaced
    <3>3. c \in Int
      BY <3>2, BodyIdsAreTyped
    <3>4. \/ b < c
          \/ b = c /\ cs[n].block.type = "Loop" /\ token.type = "Sequence"
      BY <1>3, <2>2
    <3>5. b \in Int /\ N \in Int
      BY <1>3, <1>4
    <3> HIDE DEF b, c, N, n
    <3>6. n + 1 + 2 * b <= 2 * N + 3
      BY <1>1, <3>2, <3>3, <3>4, <3>5
    <3>7. token.type = "Loop" => n + 1 + 2 * b <= 2 * N + 2
      BY <1>1, <3>2, <3>3, <3>4, <3>5
    <3> QED BY <1>3, <1>6, <3>6, <3>7 DEF WellPlaced, b, N
  <2>3. n = 1 \/ n > 1
    <3> HIDE DEF n
    <3> QED BY <1>1
  <2> QED BY <2>1, <2>2, <2>3
<1>10. \A i \in 1..(n + 1) : HasToken(t, new[i])
  BY <1>1, <1>7, <1>8 DEF GoodStack
<1>11. \A i \in 1..(n + 1) : i = 1 => new[i].block = SequenceToken(0)
  BY <1>1, <1>8 DEF GoodStack
<1>12. ASSUME NEW i \in 1..(n + 1), i > 1
       PROVE  new[i].block = TokenAt(t, new[i - 1]) /\ WellPlaced(t, new[i], i)
  <2>1. CASE i = n + 1
    <3>1. new[i - 1] = cs[n] /\ new[i] = f
      BY <1>1, <1>8, <2>1
    <3> QED BY <1>6, <1>9, <2>1, <3>1 DEF token
  <2>2. CASE i # n + 1
    <3>1. i \in 1..n /\ i - 1 \in 1..n
      BY <1>1, <1>12, <2>2
    <3>2. new[i] = cs[i] /\ new[i - 1] = cs[i - 1]
      BY <1>8, <3>1
    <3> QED BY <1>12, <3>1, <3>2 DEF GoodStack
  <2> QED BY <2>1, <2>2
<1>13. ASSUME NEW i \in 1..(n + 1), NEW j \in 1..(n + 1), 1 < j, j < i
       PROVE  Older(t, new[i], new[j], i = j + 1)
  <2>1. j \in 1..n /\ new[j] = cs[j]
    BY <1>1, <1>8, <1>13
  <2>2. CASE i # n + 1
    <3>1. i \in 1..n /\ new[i] = cs[i]
      BY <1>1, <1>8, <2>2
    <3> QED BY <1>13, <2>1, <3>1 DEF GoodStack
  <2>3. CASE i = n + 1 /\ j = n
    BY <1>3, <1>6, <1>8, <1>13, <2>1, <2>3 DEF Older
  <2>4. CASE i = n + 1 /\ j # n
    <3>1. n \in 1..n /\ j < n /\ n > 1
      BY <1>1, <1>13, <2>1, <2>4
    <3>2. Older(t, cs[n], cs[j], n = j + 1)
      BY <1>13, <2>1, <3>1 DEF GoodStack
    <3>3. \A m \in {n, j} : BodyIdIn(t, cs[m]) \in Int
      <4> TAKE m \in {n, j}
      <4>1. m \in 1..n /\ m > 1
        BY <1>13, <2>1, <3>1
      <4>2. WellPlaced(t, cs[m], m)
        BY <4>1 DEF GoodStack
      <4>3. cs[m].block \in TokensOf(t) /\ IsIterable(cs[m].block)
        BY <4>2 DEF WellPlaced
      <4> QED BY <4>3, BodyIdsAreTyped
    <3>4. BodyIdIn(t, f) \in Int
      BY <1>3, <1>4
    <3>5. BodyIdIn(t, f) < BodyIdIn(t, cs[j])
      BY <1>3, <3>1, <3>2, <3>3, <3>4 DEF Older
    <3>6. new[i] = f
      BY <1>8, <2>4
    <3> QED BY <2>1, <3>5, <3>6 DEF Older
  <2> QED BY <2>2, <2>3, <2>4
<1>14. GoodStack(t, new)
  BY <1>8, <1>10, <1>11, <1>12, <1>13 DEF GoodStack
<1>15. n <= 2 * N
  <2>1. n + 1 + 2 * b <= 2 * N + 3
    BY <1>9 DEF WellPlaced
  <2>2. b \in Int /\ b >= 1 /\ N \in Int
    BY <1>3, <1>4
  <2> HIDE DEF b, N, n
  <2> QED BY <1>1, <2>1, <2>2
<1> QED BY <1>2, <1>8, <1>14, <1>15 DEF N

-----------------------------------------------------------------------------
(* The steps *)

\* The counts stay counts when an occurrence of a token is added.
LEMMA CountTokenProps ==
  ASSUME NEW S, NEW count \in [S -> Nat], NEW token
  PROVE  CountToken(count, token) \in [S -> Nat]
BY DEF CountToken, CountTokens

\* Nothing is open at first.
LEMMA InitReader ==
  ASSUME ReaderInit, \A t \in archive : IsWellFormed(t)
  PROVE  ReaderInv
<1>1. NoThread \in Thread
  <2>1. <<>> \in Seq(Seq(Token)) /\ <<>> \in Seq(Loop) /\ <<>> \in Seq(Token) /\ <<>> \in Seq(Nat)
    BY EmptySeq
  <2> QED BY <2>1 DEF NoThread, Thread
<1>2. ReaderTypeOK
  <2>1. <<>> \in Seq(Frame) /\ Len(<<>>) = 0 /\ <<>> \in Seq([token : Token, occurence : Nat])
    BY EmptySeq
  <2>2. NothingRead(NoThread) \in [TokensOf(NoThread) -> Nat]
    BY DEF NothingRead
  <2> QED BY <1>1, <2>1, <2>2, CallstackAssumption DEF ReaderInit, ReaderTypeOK
<1>3. GoodStack(thread, callstack)
  BY EmptySeq DEF ReaderInit, GoodStack
<1> QED BY <1>2, <1>3 DEF ReaderInit, ReaderInv, OverrunsOnlyDeepThreads

\* The constructor leaves the cursor on the first token of the thread.
LEMMA OpenStep ==
  ASSUME ReaderInv, NEW t \in archive, OpenThread(t)
  PROVE  ReaderInv'
<1>1. IsWellFormed(t) /\ t \in Thread
  BY DEF ReaderInv, IsWellFormed
<1>2. FirstCallstack \in Seq(Frame) /\ Len(FirstCallstack) = 1
      /\ FirstCallstack[1] = NewFrame(SequenceToken(0))
  <2>1. NewFrame(SequenceToken(0)) \in Frame
    BY DEF NewFrame, SequenceToken, Frame, Token, TokenType
  <2> QED BY <2>1 DEF FirstCallstack
<1>3. HasToken(t, NewFrame(SequenceToken(0)))
  <2>1. Len(t.sequences) \in Nat
    BY <1>1 DEF Thread
  <2>2. Len(SequenceAt(t, 0)) > 0
    BY <1>1, <2>1, SequencesAreTyped
  <2> QED BY <2>2 DEF HasToken, NewFrame, SequenceToken
<1>4. GoodStack(t, FirstCallstack)
  BY <1>2, <1>3 DEF GoodStack, NewFrame
<1>5. ReaderTypeOK'
  <2>1. NothingRead(t) \in [TokensOf(t) -> Nat]
    BY DEF NothingRead
  <2>2. <<>> \in Seq([token : Token, occurence : Nat])
    BY EmptySeq
  <2> QED BY <1>1, <1>2, <2>1, <2>2, CallstackAssumption DEF OpenThread, ReaderTypeOK
<1> QED BY <1>1, <1>4, <1>5 DEF OpenThread, ReaderInv, OverrunsOnlyDeepThreads

\* What is known when a token can be read.
LEMMA Readable ==
  ASSUME ReaderInv, CanRead
  PROVE  /\ IsWellFormed(thread) /\ ReaderTypeOK /\ GoodStack(thread, callstack)
         /\ callstack # <<>> /\ progress = "reading"
         /\ CurToken(thread, callstack) \in TokensOf(thread)
         /\ CurToken(thread, callstack) \in Token
<1>1. /\ IsWellFormed(thread) /\ ReaderTypeOK /\ GoodStack(thread, callstack)
      /\ callstack # <<>> /\ progress = "reading"
  BY DEF ReaderInv, CanRead
<1>2. Len(callstack) \in 1..Len(callstack)
  BY <1>1 DEF ReaderTypeOK
<1>3. CurToken(thread, callstack) \in TokensOf(thread)
  BY <1>1, <1>2, CurTokenProps DEF CurToken, CurFrame
<1> QED BY <1>1, <1>3, TokensAreTyped

\* An event is printed and the cursor moves on.
LEMMA PrintStep ==
  ASSUME ReaderInv, PrintEvent
  PROVE  ReaderInv'
<1> DEFINE token == CurToken(thread, callstack)
           item  == [token |-> token, occurence |-> tokenCount[token]]
<1>1. /\ IsWellFormed(thread) /\ ReaderTypeOK /\ GoodStack(thread, callstack)
      /\ progress = "reading" /\ token \in TokensOf(thread) /\ token \in Token
  BY Readable DEF PrintEvent
<1>2. /\ printed' = Append(printed, item)
      /\ tokenCount' = CountToken(tokenCount, token)
      /\ callstack' = MoveToNextToken(thread, callstack)
      /\ UNCHANGED <<archive, thread, progress>>
  BY DEF PrintEvent
<1>3. item \in [token : Token, occurence : Nat]
  BY <1>1 DEF ReaderTypeOK
<1> HIDE DEF token, item
<1>4. GoodStack(thread, callstack') /\ Len(callstack') <= Len(callstack)
  BY <1>1, <1>2, MoveKeeps
<1>5. ReaderTypeOK'
  <2>1. printed' \in Seq([token : Token, occurence : Nat])
    BY <1>1, <1>2, <1>3, AppendProperties DEF ReaderTypeOK
  <2>2. tokenCount' \in [TokensOf(thread) -> Nat]
    BY <1>1, <1>2, CountTokenProps DEF ReaderTypeOK
  <2>3. callstack' \in Seq(Frame) /\ callstack \in Seq(Frame)
    BY <1>1, <1>4 DEF GoodStack
  <2>4. Len(callstack') <= MaxCallstackDepth
    <3>1. Len(callstack) <= MaxCallstackDepth
      BY <1>1 DEF ReaderTypeOK
    <3> QED BY <1>4, <2>3, <3>1, CallstackAssumption
  <2> QED BY <1>1, <1>2, <2>1, <2>2, <2>3, <2>4 DEF ReaderTypeOK
<1> QED BY <1>1, <1>2, <1>4, <1>5 DEF ReaderInv, OverrunsOnlyDeepThreads

\* A block is entered, unless the stack is full.
LEMMA EnterStep ==
  ASSUME ReaderInv, EnterToken
  PROVE  ReaderInv'
<1> DEFINE token == CurToken(thread, callstack)
<1>1. /\ IsWellFormed(thread) /\ ReaderTypeOK /\ GoodStack(thread, callstack)
      /\ callstack # <<>> /\ progress = "reading"
  BY Readable DEF EnterToken
<1>2. /\ IsIterable(token)
      /\ Len(callstack) < MaxCallstackDepth
      /\ tokenCount' = CountToken(tokenCount, token)
      /\ callstack' = EnterBlock(callstack, token)
      /\ UNCHANGED <<archive, thread, printed, progress>>
  BY DEF EnterToken
<1>3. GoodStack(thread, callstack') /\ Len(callstack') = Len(callstack) + 1
  BY <1>1, <1>2, EnterKeeps
<1> HIDE DEF token
<1>4. ReaderTypeOK'
  <2>1. tokenCount' \in [TokensOf(thread) -> Nat]
    BY <1>1, <1>2, CountTokenProps DEF ReaderTypeOK
  <2>2. callstack' \in Seq(Frame) /\ callstack \in Seq(Frame)
    BY <1>1, <1>3 DEF GoodStack
  <2>3. Len(callstack') <= MaxCallstackDepth
    BY <1>2, <1>3, <2>2, CallstackAssumption
  <2> QED BY <1>1, <1>2, <2>1, <2>2, <2>3 DEF ReaderTypeOK
<1> QED BY <1>1, <1>2, <1>3, <1>4 DEF ReaderInv, OverrunsOnlyDeepThreads

\* A full stack that would have to grow belongs to a thread with many sequences.
LEMMA OverrunStep ==
  ASSUME ReaderInv, OverrunCallstack
  PROVE  ReaderInv'
<1>1. /\ IsWellFormed(thread) /\ ReaderTypeOK /\ GoodStack(thread, callstack)
      /\ callstack # <<>> /\ progress = "reading"
  BY Readable DEF OverrunCallstack
<1>2. /\ IsIterable(CurToken(thread, callstack))
      /\ Len(callstack) = MaxCallstackDepth
      /\ progress' = "overrun"
      /\ UNCHANGED <<archive, thread, callstack, tokenCount, printed>>
  BY DEF OverrunCallstack
<1>3. Len(callstack) <= 2 * Len(thread.sequences)
  BY <1>1, <1>2, EnterKeeps
<1>4. OverrunsOnlyDeepThreads'
  <2>1. Len(thread.sequences) \in Nat
    BY <1>1 DEF IsWellFormed, Thread
  <2> QED BY <1>2, <1>3, <2>1, CallstackAssumption DEF OverrunsOnlyDeepThreads
<1>5. ReaderTypeOK'
  BY <1>1, <1>2 DEF ReaderTypeOK
<1> QED BY <1>1, <1>2, <1>4, <1>5 DEF ReaderInv

\* Every step keeps the invariant.
LEMMA NextReader ==
  ASSUME ReaderInv, [ReaderNext]_<<archive, readerVars>>
  PROVE  ReaderInv'
<1>1. CASE \E t \in archive : OpenThread(t)
  BY <1>1, OpenStep
<1>2. CASE PrintEvent
  BY <1>2, PrintStep
<1>3. CASE EnterToken
  BY <1>3, EnterStep
<1>4. CASE OverrunCallstack
  BY <1>4, OverrunStep
<1>5. CASE FailToRead \/ EndOfTrace
  <2>1. /\ progress = "reading" /\ progress' \in {"aborted", "done"}
        /\ UNCHANGED <<archive, thread, callstack, tokenCount, printed>>
    BY <1>5 DEF FailToRead, EndOfTrace
  <2> QED BY <2>1 DEF ReaderInv, ReaderTypeOK, OverrunsOnlyDeepThreads
<1>6. CASE UNCHANGED <<archive, readerVars>>
  BY <1>6 DEF readerVars, ReaderInv, ReaderTypeOK, OverrunsOnlyDeepThreads
<1> QED BY <1>1, <1>2, <1>3, <1>4, <1>5, <1>6 DEF ReaderNext, GetNextToken

\* In the invariant, the call stack is a path ...
LEMMA InvariantIsPath ==
  ASSUME ReaderInv
  PROVE  CallstackIsPath
<1> SUFFICES ASSUME NEW k \in DOMAIN callstack
             PROVE  /\ HasToken(thread, callstack[k])
                    /\ callstack[k].block =
                         IF k = 1 THEN SequenceToken(0) ELSE TokenAt(thread, callstack[k - 1])
  BY DEF CallstackIsPath
<1>1. GoodStack(thread, callstack) /\ k \in 1..Len(callstack)
  BY DEF ReaderInv, GoodStack
<1>2. k # 1 => k > 1
  BY <1>1 DEF GoodStack
<1> QED BY <1>1, <1>2 DEF GoodStack

\* ... and goes down.
LEMMA InvariantDescends ==
  ASSUME ReaderInv
  PROVE  CallstackDescends
<1> SUFFICES ASSUME NEW j \in DOMAIN callstack, NEW k \in DOMAIN callstack, 1 < j, j < k
             PROVE  \/ SequenceIdAt(callstack[k]) < SequenceIdAt(callstack[j])
                    \/ k = j + 1 /\ callstack[j].block.type = "Loop"
  BY DEF CallstackDescends
<1>1. GoodStack(thread, callstack) /\ j \in 1..Len(callstack) /\ k \in 1..Len(callstack)
  BY DEF ReaderInv, GoodStack
<1>2. Older(thread, callstack[k], callstack[j], k = j + 1)
  BY <1>1 DEF GoodStack
<1> QED BY <1>2 DEF Older, SequenceIdAt, BodyIdIn

-----------------------------------------------------------------------------
(* The theorems about printTrace.  They hold for every depth of the call   *)
(* stack and for any threads that are well-formed.                         *)

\* The invariant that the others are read from.
THEOREM ReaderInvariant == StoredThreadsAreWellFormed /\ ReaderSpec => []ReaderInv
<1>1. ReaderInit /\ StoredThreadsAreWellFormed => ReaderInv
  BY InitReader DEF StoredThreadsAreWellFormed
<1>2. ReaderInv /\ [ReaderNext]_<<archive, readerVars>> => ReaderInv'
  BY NextReader
<1> QED BY <1>1, <1>2, PTL DEF ReaderSpec

\* The variables of the reader keep their types; in particular it never writes
\* past its call stack without the model saying so.
THEOREM ReaderTypeCorrect == StoredThreadsAreWellFormed /\ ReaderSpec => []ReaderTypeOK
<1>1. ReaderInv => ReaderTypeOK
  BY DEF ReaderInv
<1> QED BY <1>1, ReaderInvariant, PTL

\* Each frame of the call stack reads the block under the cursor of the frame
\* below it, and every cursor is on a token.
THEOREM StackIsPath == StoredThreadsAreWellFormed /\ ReaderSpec => []CallstackIsPath
BY InvariantIsPath, ReaderInvariant, PTL

\* Up the call stack the sequences get older, but for a loop and its body.
THEOREM StackDescends == StoredThreadsAreWellFormed /\ ReaderSpec => []CallstackDescends
BY InvariantDescends, ReaderInvariant, PTL

\* The reader overruns its call stack only on a thread that has at least half as
\* many sequences as the stack has frames.
THEOREM StackIsDeepEnough == StoredThreadsAreWellFormed /\ ReaderSpec => []OverrunsOnlyDeepThreads
<1>1. ReaderInv => OverrunsOnlyDeepThreads
  BY DEF ReaderInv
<1> QED BY <1>1, ReaderInvariant, PTL

-----------------------------------------------------------------------------
(* Part 3, reading back what was recorded: the three parts of a step *)

PrintInv == RInv /\ ReaderInv

\* Recording does not touch the reader, and what it stores can be read.
LEMMA RecordStep ==
  ASSUME PrintInv, RecordNext, UNCHANGED readerVars
  PROVE  PrintInv'
<1>1. RInv'
  BY SearchByLength, RecordNextKeeps DEF PrintInv
<1>2. (\A t \in archive : IsWellFormed(t))'
  BY <1>1 DEF RInv, StoredThreadsAreWellFormed
<1>3. ReaderInv'
  BY <1>2 DEF PrintInv, readerVars, ReaderInv, ReaderTypeOK, OverrunsOnlyDeepThreads
<1> QED BY <1>1, <1>3 DEF PrintInv

\* Reading does not touch the writer, nor the archive.
LEMMA ReadStep ==
  ASSUME PrintInv, ReaderNext, UNCHANGED <<vars, log, nb_durations>>
  PROVE  PrintInv'
<1>1. UNCHANGED archive
  BY DEF ReaderNext, OpenThread, GetNextToken, PrintEvent, EnterToken, OverrunCallstack,
         FailToRead, EndOfTrace
<1>2. RInv'
  <2>1. UNCHANGED recordVars
    BY <1>1 DEF recordVars
  <2> QED BY <2>1, SearchByLength, RecordNextKeeps DEF PrintInv
<1>3. ReaderInv'
  BY NextReader DEF PrintInv
<1> QED BY <1>2, <1>3 DEF PrintInv

\* print_thread reads with variables of its own.
LEMMA DisplayStep ==
  ASSUME PrintInv, PerThread!Next, UNCHANGED <<vars, log, nb_durations, readerVars>>
  PROVE  PrintInv'
<1>1. UNCHANGED archive
  BY DEF PerThread!Next, PerThread!OpenThread, PerThread!DisplaySequence, PerThread!DisplayEvent,
         PerThread!DisplayBlock, PerThread!LeaveLevel
<1>2. RInv'
  <2>1. UNCHANGED recordVars
    BY <1>1 DEF recordVars
  <2> QED BY <2>1, SearchByLength, RecordNextKeeps DEF PrintInv
<1>3. ReaderInv'
  BY <1>1, NextReader DEF PrintInv
<1> QED BY <1>2, <1>3 DEF PrintInv

-----------------------------------------------------------------------------
(* The theorems.  They hold for any events, any number of blocks open at   *)
(* once, any maxLoopLength and any depth of the reader's call stack, and   *)
(* for every search for loops but the filtered one.                        *)

\* The invariant that the others are read from.
THEOREM PrintInvariant == PrintSpec => []PrintInv
<1>1. PrintInit => PrintInv
  <2> SUFFICES ASSUME PrintInit PROVE PrintInv
    OBVIOUS
  <2>1. RInv
    BY RecordInitInvariant DEF PrintInit
  <2>2. ReaderInv
    BY <2>1, InitReader DEF PrintInit, RInv, StoredThreadsAreWellFormed
  <2> QED BY <2>1, <2>2 DEF PrintInv
<1>2. PrintInv /\ [PrintNext]_<<recordVars, readerVars, shownVars>> => PrintInv'
  <2> SUFFICES ASSUME PrintInv, [PrintNext]_<<recordVars, readerVars, shownVars>>
               PROVE  PrintInv'
    OBVIOUS
  <2>1. CASE RecordNext /\ UNCHANGED <<readerVars, shownVars>>
    BY <2>1, RecordStep
  <2>2. CASE ReaderNext /\ UNCHANGED <<vars, log, nb_durations, shownVars>>
    BY <2>2, ReadStep
  <2>3. CASE PerThread!Next /\ UNCHANGED <<vars, log, nb_durations, readerVars>>
    BY <2>3, DisplayStep
  <2>4. CASE UNCHANGED <<recordVars, readerVars, shownVars>>
    <3>1. RInv'
      BY <2>4, SearchByLength, RecordNextKeeps DEF PrintInv
    <3>2. ReaderInv'
      BY <2>4, NextReader DEF PrintInv, recordVars
    <3> QED BY <3>1, <3>2 DEF PrintInv
  <2> QED BY <2>1, <2>2, <2>3, <2>4 DEF PrintNext
<1> QED BY <1>1, <1>2, PTL DEF PrintSpec

\* What a writer leaves in the archive has no cycle, no dangling reference, no
\* empty sequence, and durations for each of its sequences: all that the readers
\* take for granted.
THEOREM WrittenThreadsAreReadable == PrintSpec => []StoredThreadsAreWellFormed
<1>1. PrintInv => StoredThreadsAreWellFormed
  BY DEF PrintInv, RInv
<1> QED BY <1>1, PrintInvariant, PTL

\* A thread that was recorded is read within the types of the reader, and never
\* past its call stack without the model saying so.
THEOREM ReadBackTypeCorrect == PrintSpec => []ReaderTypeOK
<1>1. PrintInv => ReaderTypeOK
  BY DEF PrintInv, ReaderInv
<1> QED BY <1>1, PrintInvariant, PTL

\* While a thread that was recorded is read, each frame of the call stack reads
\* the block under the cursor of the frame below it ...
THEOREM ReadBackIsPath == PrintSpec => []CallstackIsPath
<1>1. PrintInv => CallstackIsPath
  BY InvariantIsPath DEF PrintInv
<1> QED BY <1>1, PrintInvariant, PTL

\* ... the sequences get older up the call stack, so that unfolding ends ...
THEOREM ReadBackDescends == PrintSpec => []CallstackDescends
<1>1. PrintInv => CallstackDescends
  BY InvariantDescends DEF PrintInv
<1> QED BY <1>1, PrintInvariant, PTL

\* ... and the call stack is overrun only if the thread has at least half as many
\* sequences as the stack has frames.
THEOREM ReadBackIsDeepEnough == PrintSpec => []OverrunsOnlyDeepThreads
<1>1. PrintInv => OverrunsOnlyDeepThreads
  BY DEF PrintInv, ReaderInv
<1> QED BY <1>1, PrintInvariant, PTL
=============================================================================
