---------------------------- MODULE ThreadTrace ----------------------------
(***************************************************************************)
(* The compressed form of one thread's trace: tokens, the table of         *)
(* sequences and the table of loops (include/htf/htf.h), and the           *)
(* operations that rewrite a sequence of tokens into loops                 *)
(* (src/htf_write.cpp).                                                    *)
(*                                                                         *)
(* An operation works on a grammar: the two tables together with the       *)
(* tokens of the sequence being written,                                   *)
(*   [sequences |-> ..., loops |-> ..., tokens |-> ...].                   *)
(* sequences[i] is the token array of the sequence the code numbers i; the *)
(* code's sequence 0 is the main sequence of the thread, kept with the     *)
(* open frames in ThreadWriter.  Events and loops are numbered from 0 in   *)
(* the code and from 1 here.  Durations belong to another module.          *)
(***************************************************************************)
EXTENDS Integers, Sequences

CONSTANTS
  Algorithm,       \* ParameterHandler::loopFindingAlgorithm
  MaxLoopLength    \* ParameterHandler::maxLoopLength

ASSUME AlgorithmAssumption ==
  Algorithm \in {"None", "Basic", "BasicTruncated", "Filter"}

ASSUME MaxLoopLengthAssumption == MaxLoopLength \in Nat

-----------------------------------------------------------------------------
(* Tokens *)

TokenType == {"Event", "Sequence", "Loop", "Invalid"}

Token == [type : TokenType, id : Nat]

EventToken(i) == [type |-> "Event", id |-> i]
SequenceToken(i) == [type |-> "Sequence", id |-> i]
LoopToken(i) == [type |-> "Loop", id |-> i]

\* What a token is when its default constructor made it.
InvalidToken == [type |-> "Invalid", id |-> 0]

Loop == [repeated_token : Token, nb_iterations : Seq(Nat)]

Grammar == [sequences : Seq(Seq(Token)), loops : Seq(Loop), tokens : Seq(Token)]

-----------------------------------------------------------------------------
(* The table of sequences *)

\* Mutation of IsKnown: the scan starts one sequence too late.
IsKnownFromSecond(sequences, array) ==
  \E i \in 2..Len(sequences) : sequences[i] = array

IsKnown(sequences, array) == \E i \in DOMAIN sequences : sequences[i] = array

\* Mutation of SequenceIdOf: the number of sequences is counted up before it is used.
SequenceIdTooHigh(sequences, array) ==
  IF IsKnown(sequences, array)
  THEN CHOOSE i \in DOMAIN sequences : sequences[i] = array
  ELSE Len(sequences) + 2

\* The id found by comparing the array with every known sequence, or the next
\* free one.  The hash the code compares first is a function of the array, so
\* it rejects no array that the comparison after it accepts.
SequenceIdOf(sequences, array) ==
  IF IsKnown(sequences, array)
  THEN CHOOSE i \in DOMAIN sequences : sequences[i] = array
  ELSE Len(sequences) + 1

WithSequence(sequences, array) ==
  IF IsKnown(sequences, array) THEN sequences ELSE Append(sequences, array)

-----------------------------------------------------------------------------
(* The table of loops *)

BodyOf(g, l) == g.sequences[g.loops[l].repeated_token.id]

IsRepeated(loops, sid) == \E l \in DOMAIN loops : loops[l].repeated_token.id = sid

LoopIdOf(loops, sid) ==
  IF IsRepeated(loops, sid)
  THEN CHOOSE l \in DOMAIN loops : loops[l].repeated_token.id = sid
  ELSE Len(loops) + 1

\* Mutation of WithLoop: a known loop gets no new occurrence.
WithLoopOnce(loops, sid) ==
  IF IsRepeated(loops, sid) THEN loops
  ELSE Append(loops, [repeated_token |-> SequenceToken(sid), nb_iterations |-> <<1>>])

\* createLoop: a new occurrence, of one iteration, of the loop over the sequence.
WithLoop(loops, sid) ==
  IF IsRepeated(loops, sid)
  THEN [loops EXCEPT ![LoopIdOf(loops, sid)].nb_iterations = Append(@, 1)]
  ELSE Append(loops, [repeated_token |-> SequenceToken(sid), nb_iterations |-> <<1>>])

\* Mutation of BumpLast: the iteration is added to the first occurrence.
BumpFirst(s) == [s EXCEPT ![1] = @ + 1]

BumpLast(s) == [s EXCEPT ![Len(s)] = @ + 1]

\* Loop::addIteration: one more iteration of the latest occurrence of the loop.
AddIteration(loops, l) ==
  [loops EXCEPT ![l].nb_iterations = BumpLast(@)]

-----------------------------------------------------------------------------
(* Rewriting the end of a sequence *)

LastTokens(tokens, n) == SubSeq(tokens, Len(tokens) - n + 1, Len(tokens))

\* vector::resize: the tokens past the new size go, or invalid ones come.
Resize(tokens, n) ==
  IF n <= Len(tokens) THEN SubSeq(tokens, 1, n)
  ELSE tokens \o [i \in 1..(n - Len(tokens)) |-> InvalidToken]

\* Mutation of ReplaceTokensInLoop: the second block is not counted.
ReplaceWithoutCount(g, body, before) ==
  LET sid == SequenceIdOf(g.sequences, body)
  IN  [sequences |-> WithSequence(g.sequences, body),
       loops     |-> WithLoop(g.loops, sid),
       tokens    |-> Append(Resize(g.tokens, before), LoopToken(LoopIdOf(g.loops, sid)))]

\* replaceTokensInLoop: the two equal blocks, of which the first starts after
\* `before` tokens and reads `body`, become one loop of two iterations.
ReplaceTokensInLoop(g, body, before) ==
  LET sid == SequenceIdOf(g.sequences, body)
      l   == LoopIdOf(g.loops, sid)
  IN  [sequences |-> WithSequence(g.sequences, body),
       loops     |-> AddIteration(WithLoop(g.loops, sid), l),
       tokens    |-> Append(Resize(g.tokens, before), LoopToken(l))]

\* The last n tokens are one more iteration of the loop in front of them.
EndsWithIteration(g, n) ==
  LET front == g.tokens[Len(g.tokens) - n]
  IN  /\ front.type = "Loop"
      /\ LastTokens(g.tokens, n) = BodyOf(g, front.id)

\* Mutation of AbsorbIteration: the iteration goes without being counted.
AbsorbUncounted(g, n) == [g EXCEPT !.tokens = SubSeq(@, 1, Len(@) - n)]

AbsorbIteration(g, n) ==
  LET kept == Len(g.tokens) - n
  IN  [g EXCEPT !.loops = AddIteration(@, g.tokens[kept].id),
                !.tokens = SubSeq(@, 1, kept)]

\* The last 2n tokens are the same n tokens twice.
EndsWithRepeat(g, n) ==
  /\ 2 * n <= Len(g.tokens)
  /\ LastTokens(g.tokens, n) = SubSeq(g.tokens, Len(g.tokens) - 2 * n + 1, Len(g.tokens) - n)

FoldRepeat(g, n) ==
  ReplaceTokensInLoop(g, LastTokens(g.tokens, n), Len(g.tokens) - 2 * n)

-----------------------------------------------------------------------------
(* findLoopBasic: the shortest loop that ends here, an iteration before a  *)
(* new loop.                                                               *)

\* Mutations of LoopLengths: half of the sequence is searched, too little for an
\* iteration; or less than half, too little for a repetition of all of it.
LoopLengthsHalf(g) ==
  {n \in 1..(Len(g.tokens) \div 2) : Algorithm = "BasicTruncated" => n < MaxLoopLength}

LoopLengthsLessThanHalf(g) ==
  {n \in 1..((Len(g.tokens) - 1) \div 2) : Algorithm = "BasicTruncated" => n < MaxLoopLength}

LoopLengths(g) ==
  {n \in 1..(Len(g.tokens) - 1) : Algorithm = "BasicTruncated" => n < MaxLoopLength}

EndsWithLoop(g, n) == EndsWithIteration(g, n) \/ EndsWithRepeat(g, n)

IsShortestLoop(g, n) ==
  EndsWithLoop(g, n) /\ \A m \in 1..(n - 1) : ~EndsWithLoop(g, m)

\* The rest of the writer asks what the search found.
Looping(g) == Algorithm # "None" /\ \E n \in LoopLengths(g) : IsShortestLoop(g, n)
LengthFound(g) == CHOOSE n \in LoopLengths(g) : IsShortestLoop(g, n)

RewriteLoop(g, n) ==
  IF EndsWithIteration(g, n) THEN AbsorbIteration(g, n) ELSE FoldRepeat(g, n)

FindLoopBasic(g) ==
  IF \E n \in LoopLengths(g) : IsShortestLoop(g, n)
  THEN RewriteLoop(g, CHOOSE n \in LoopLengths(g) : IsShortestLoop(g, n))
  ELSE g
=============================================================================
