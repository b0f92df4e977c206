---------------------------- MODULE FilterLoops ----------------------------
(***************************************************************************)
(* findLoopFilter (src/htf_write.cpp), the loop finding algorithm that     *)
(* first collects the positions worth comparing.  It collects them, and    *)
(* the position of the last token, once; a rewrite shortens the vector and *)
(* the search goes on with the old positions.  So it works on the storage  *)
(* of the vector: `memory` holds what the positions past its end last      *)
(* held, which is what an unchecked read of them returns.                  *)
(***************************************************************************)
EXTENDS ThreadTrace, SequencesExt

\* The positions that hold the token just stored, in order.
EndingIndexes(tokens) ==
  SetToSortSeq({e \in 1..Len(tokens) : tokens[e] = tokens[Len(tokens)]}, <)

LoopIndexes(tokens) == {i \in 1..Len(tokens) : tokens[i].type = "Loop"}

\* The tokens after position e, up to cur, repeat those that end at e.
RepeatsFrom(memory, cur, e) ==
  /\ e < cur
  /\ e >= cur - e
  /\ SubSeq(memory, e + 1, cur) = SubSeq(memory, 2 * e + 1 - cur, e)

\* What the storage holds after the vector was rewritten.
Overwrite(memory, tokens) ==
  tokens \o SubSeq(memory, Len(tokens) + 1, Len(memory))

FilterFold(v, cur, e) ==
  LET g == ReplaceTokensInLoop(v.grammar, SubSeq(v.memory, e + 1, cur), 2 * e - cur)
  IN  [grammar |-> g, memory |-> Overwrite(v.memory, g.tokens)]

\* The token at position i is still that of a loop, which getLoop asserts.
HoldsLoop(v, i) == v.memory[i].type = "Loop"

\* The tokens after position i, up to cur, are an iteration of the loop at i.
IsIterationFrom(v, cur, i) ==
  /\ HoldsLoop(v, i)
  /\ SubSeq(v.memory, i + 1, cur) = BodyOf(v.grammar, v.memory[i].id)

FilterAbsorb(v, i) ==
  [v.grammar EXCEPT !.loops = AddIteration(@, v.memory[i].id), !.tokens = Resize(@, i)]

\* All repetitions of what was stored last are folded, in order.
FoldRepeats(g) ==
  LET cur == Len(g.tokens)
      step(v, e) == IF RepeatsFrom(v.memory, cur, e) THEN FilterFold(v, cur, e) ELSE v
  IN  FoldLeft(step, [grammar |-> g, memory |-> g.tokens], EndingIndexes(g.tokens))

\* The old positions at which the search for an iteration ends: an iteration
\* follows the loop, or there is no loop any more and getLoop aborts.
StopIndexes(g, v) ==
  {i \in LoopIndexes(g.tokens) : HoldsLoop(v, i) => IsIterationFrom(v, Len(g.tokens), i)}

FilterAborts(g) ==
  LET folded == FoldRepeats(g)
      stops  == StopIndexes(g, folded)
  IN  stops # {} /\ ~HoldsLoop(folded, Min(stops))

\* What the search makes of the frame, unless it aborts.
FindLoopFilter(g) ==
  LET folded == FoldRepeats(g)
      stops  == StopIndexes(g, folded)
  IN  IF stops = {} THEN folded.grammar ELSE FilterAbsorb(folded, Min(stops))
=============================================================================
