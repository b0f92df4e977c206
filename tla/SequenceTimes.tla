--------------------------- MODULE SequenceTimes ---------------------------
(***************************************************************************)
(* Whether the durations that a thread writer keeps of its sequences are   *)
(* the times that the sequences took: their occurrences in the trace are   *)
(* found by unfolding it.                                                  *)
(***************************************************************************)
EXTENDS TimedWriter

\* Op(x), written so that TLC computes x once.
At(Op(_), x) == CHOOSE y \in {Op(v) : v \in {x}} : TRUE

RECURSIVE FramesFrom(_)

\* The frames follow each other from the main sequence to the innermost block.
FramesFrom(d) == IF d \in OpenDepths THEN og_seq[d] \o FramesFrom(d + 1) ELSE <<>>

\* The occurrences of the sequences in the trace, from their first event up to
\* the first event after them.
RECURSIVE SpansIn(_, _), SpansOfTimes(_, _, _)

SpansOf(acc, token) ==
  CASE token.type = "Event"    -> [acc EXCEPT !.place = @ + 1]
    [] token.type = "Sequence" -> SpansOfTimes(acc, token.id, 1)
    [] OTHER ->
         LET l == loops[token.id]
             k == acc.met[token.id] + 1
         IN  SpansOfTimes([acc EXCEPT !.met[token.id] = k], l.repeated_token.id,
                          l.nb_iterations[k])

SpansIn(acc, tokens) ==
  IF tokens = <<>> THEN acc
  ELSE At(LAMBDA a : SpansIn(a, Tail(tokens)), SpansOf(acc, Head(tokens)))

SpansOfTimes(acc, n, times) ==
  IF times = 0 THEN acc
  ELSE At(LAMBDA a :
            SpansOfTimes([a EXCEPT !.spans[n] = Append(@, [from |-> acc.place, to |-> a.place])],
                         n, times - 1),
          SpansIn(acc, sequences[n]))

Spans ==
  SpansIn([place |-> 1,
           met   |-> [l \in DOMAIN loops |-> 0],
           spans |-> [n \in DOMAIN sequences |-> <<>>]], FramesFrom(0)).spans

\* Once another event followed it, the duration of each occurrence of sequence n
\* is the time from its first event to that one.
DurationsExact(n, spans) ==
  \A k \in DOMAIN spans :
    spans[k].to <= Len(stamps) =>
      ledger.sequences[n][k] = stamps[spans[k].to] - stamps[spans[k].from]

\* What htf.h says of the durations of a sequence.
SequenceDurationsExact ==
  LET spans == Spans
  IN  \A n \in DOMAIN sequences : DurationsExact(n, spans[n])

IsLeafCall(tokens) ==
  IsBlock(tokens) /\ \A k \in DOMAIN tokens : tokens[k].type = "Event"

\* The durations of a call that makes no call and holds no loop can be trusted,
\* as long as the clock moves between any two events: whatever is folded around
\* the call later, each occurrence has the time it took.
LeafCallsExact ==
  (\A p \in 1..(Len(stamps) - 1) : stamps[p] # stamps[p + 1]) =>
    LET spans == Spans
    IN  \A n \in DOMAIN sequences :
          IsLeafCall(sequences[n]) => DurationsExact(n, spans[n])
=============================================================================
