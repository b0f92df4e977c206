--------------------------- MODULE UnfoldedTrace ---------------------------
(***************************************************************************)
(* The events that a compressed trace stands for, and the proof obligation *)
(* of ThreadWriter: at every moment they are the events recorded so far.   *)
(*                                                                         *)
(* A token stands for a function of the progress of a reading.  The next   *)
(* time a loop is met, it stands for its body as often as the first count  *)
(* it has left: the numbers of all occurrences of a loop, in whatever      *)
(* sequences they lie, share one vector in the order in which they         *)
(* happened.                                                               *)
(***************************************************************************)
EXTENDS ThreadWriter, FiniteSets

\* How far a reading of the trace has come: the ids of the events it has met, the
\* iteration counts that are left of each loop, and how often it has entered
\* each sequence.
Progress == [ids : Seq(Nat), left : Seq(Seq(Nat)), entered : Seq(Nat)]

Count(counts, n) == IF n \in DOMAIN counts THEN counts[n] ELSE 0

CountUp(counts, n) ==
  [k \in 1..(IF n > Len(counts) THEN n ELSE Len(counts)) |->
     Count(counts, k) + (IF k = n THEN 1 ELSE 0)]

Remaining(p, l) == IF l \in DOMAIN p.left THEN p.left[l] ELSE <<>>

Meet(p, id) == [p EXCEPT !.ids = Append(@, id)]
Enter(p, n) == [p EXCEPT !.entered = CountUp(@, n)]
TakeCount(p, l) == [p EXCEPT !.left[l] = Tail(@)]

\* No event has this id; a token that stands for nothing stands for it.
NoEvent == 0

\* The functions, applied in their order.
Run(functions, p) ==
  LET r[k \in 0..Len(functions)] == IF k = 0 THEN p ELSE functions[k][r[k - 1]]
  IN  r[Len(functions)]

EventMeaning(id) == [p \in Progress |-> Meet(p, id)]

LoopMeaning(l, body) ==
  [p \in Progress |->
     IF Remaining(p, l) = <<>> THEN Meet(p, NoEvent)
     ELSE Run([k \in 1..Head(Remaining(p, l)) |-> body], TakeCount(p, l))]

\* What a token of sequence n stands for.  A sequence may refer to those before it.
TokenMeaning(table, bodies, token, n) ==
  CASE token.type = "Event" -> EventMeaning(token.id)
    [] token.type = "Sequence" /\ token.id \in 1..(n - 1) -> table[token.id]
    [] token.type = "Loop" /\ token.id \in DOMAIN bodies /\ bodies[token.id] \in 1..(n - 1) ->
         LoopMeaning(token.id, table[bodies[token.id]])
    [] OTHER -> EventMeaning(NoEvent)

BlockMeaning(table, bodies, tokens, n) ==
  [p \in Progress |-> Run([k \in DOMAIN tokens |-> TokenMeaning(table, bodies, tokens[k], n)], p)]

SequenceMeaning(table, bodies, tokens, n) ==
  [p \in Progress |-> BlockMeaning(table, bodies, tokens, n)[Enter(p, n)]]

Meanings(blocks, bodies) ==
  LET table[n \in 1..Len(blocks)] == SequenceMeaning(table, bodies, blocks[n], n)
  IN  table

Bodies(ls) == [l \in DOMAIN ls |-> ls[l].repeated_token.id]

Unread(ls) ==
  [ids |-> <<>>, left |-> [l \in DOMAIN ls |-> ls[l].nb_iterations], entered |-> <<>>]

\* The frames follow each other from the main sequence to the innermost block;
\* those above it are empty (LoopsRespectBlocks).
FrameMeanings(blocks, bodies, frames) ==
  [d \in 1..MaxDepth |->
     BlockMeaning(Meanings(blocks, bodies), bodies, frames[d - 1], Len(blocks) + 1)]

Unfolding == Run(FrameMeanings(sequences, Bodies(loops), og_seq), Unread(loops))

\* What happened, by the ids of the events.
Happened ==
  [ids \in Seq(Nat) |->
     [k \in DOMAIN ids |-> IF ids[k] \in DOMAIN events THEN events[ids[k]].event ELSE "invalid"]]

Phase ==
  CASE status = "open" -> "recording"
    [] status = "closing" -> "unwinding"
    [] OTHER -> "over"

OpenDepths == {d \in Depths : d <= cur_depth}

OpenBlocks ==
  [d \in OpenDepths \ {0} |-> events[og_seq[d][1].id].event]

Log == INSTANCE EventLog WITH
         log <- Happened[Unfolding.ids], callstack <- OpenBlocks, phase <- Phase

\* The trace is lossless: unfolding the grammar gives back every event that was
\* recorded, in order, after each call, whatever loops were found meanwhile.
TraceIsLossless == Log!Spec

Occurrences(ids, i) == Cardinality({k \in DOMAIN ids : ids[k] = i})

\* The counters agree with what the grammar stands for: each occurrence of a
\* loop has exactly one iteration count, each event was counted as often as it
\* unfolds, and no sequence or loop is left over that nothing refers to.
CountersMatchUnfolding ==
  \A u \in {Unfolding} :
      /\ \A l \in DOMAIN loops : Remaining(u, l) = <<>>
      /\ \A k \in DOMAIN u.ids : u.ids[k] # NoEvent
      /\ \A n \in DOMAIN sequences : Count(u.entered, n) > 0
      /\ \A i \in DOMAIN events : Occurrences(u.ids, i) = events[i].nb_occurences
=============================================================================
