---------------------------- MODULE ThreadWriter ----------------------------
(***************************************************************************)
(* ThreadWriter (src/htf_write.cpp): one thread records its events, one    *)
(* call at a time, into its own compressed trace.  og_seq[0] is the main   *)
(* sequence of the thread; og_seq[d] is the sequence of the open block at  *)
(* depth d.  A block that ends becomes a sequence of the table and one     *)
(* token of the frame that called it.                                      *)
(*                                                                         *)
(* A writer is used by the one thread it belongs to, so a call is one      *)
(* step.  Durations, attributes and the archive are left to other modules. *)
(***************************************************************************)
EXTENDS FilterLoops

CONSTANTS
  BlockStart,   \* events recorded as HTF_BLOCK_START: enter, thread begin, team begin
  BlockEnd,     \* events recorded as HTF_BLOCK_END: leave, thread end, team end
  Singleton,    \* events recorded as HTF_SINGLETON
  MaxDepth      \* max_depth, the size of og_seq

Event == BlockStart \cup BlockEnd \cup Singleton

ASSUME EventAssumption ==
  /\ BlockStart \cap BlockEnd = {}
  /\ BlockStart \cap Singleton = {}
  /\ BlockEnd \cap Singleton = {}

ASSUME MaxDepthAssumption == MaxDepth \in Nat \ {0}

VARIABLES
  events,      \* thread_trace.events: the distinct events and their nb_occurences
  sequences,   \* thread_trace.sequences, without sequence 0
  loops,       \* thread_trace.loops
  og_seq,      \* the sequence under construction at each depth
  cur_depth,
  status       \* "open", "closing" inside threadClose, "closed", or "aborted"

vars == <<events, sequences, loops, og_seq, cur_depth, status>>

Depths == 0..(MaxDepth - 1)

EventSummary == [event : Event, nb_occurences : Nat]

TypeOK ==
  /\ events \in Seq(EventSummary)
  /\ sequences \in Seq(Seq(Token))
  /\ loops \in Seq(Loop)
  /\ og_seq \in [Depths -> Seq(Token)]
  /\ cur_depth \in 0..MaxDepth
  /\ (status # "aborted") => (cur_depth \in Depths)
  /\ status \in {"open", "closing", "closed", "aborted"}

\* ThreadWriter::open and the constructors it runs.
Init ==
  /\ events = <<>>
  /\ sequences = <<>>
  /\ loops = <<>>
  /\ og_seq = [d \in Depths |-> <<>>]
  /\ cur_depth = 0
  /\ status = "open"

-----------------------------------------------------------------------------
(* The pieces of storeEvent *)

IsSummarized(e) == \E i \in DOMAIN events : events[i].event = e

\* getEventId
EventIdOf(e) ==
  IF IsSummarized(e) THEN CHOOSE i \in DOMAIN events : events[i].event = e
  ELSE Len(events) + 1

WithEvent(e) ==
  IF IsSummarized(e) THEN events
  ELSE Append(events, [event |-> e, nb_occurences |-> 0])

\* es->nb_occurences++
CountOccurrence(table, id) ==
  [table EXCEPT ![id].nb_occurences = @ + 1]

FindLoop(g) ==
  CASE Algorithm = "None"   -> g
    [] Algorithm = "Filter" -> FindLoopFilter(g)
    [] OTHER                -> FindLoopBasic(g)

\* The code's storeToken: push the token on its sequence, then look for a loop.
StoreToken(g, token) == FindLoop([g EXCEPT !.tokens = Append(@, token)])

GrammarAt(d) == [sequences |-> sequences, loops |-> loops, tokens |-> og_seq[d]]

\* Mutation of ExitInto: the token of the call is pushed without looking for a loop.
ExitUnsearched(g, upper) ==
  [g EXCEPT !.sequences = WithSequence(@, g.tokens),
            !.tokens = Append(upper, SequenceToken(SequenceIdOf(g.sequences, g.tokens)))]

\* The part of recordExitFunction that looks the closed sequence up, and stores
\* its token in the frame below.  g.tokens is the sequence that closes.
ExitInto(g, upper) ==
  StoreToken([g EXCEPT !.sequences = WithSequence(@, g.tokens), !.tokens = upper],
             SequenceToken(SequenceIdOf(g.sequences, g.tokens)))

\* The current frame, at depth d, now holds g.tokens.
SetFrame(d, g) ==
  /\ sequences' = g.sequences
  /\ loops' = g.loops
  /\ og_seq' = [og_seq EXCEPT ![d] = g.tokens]

\* Mutation of RecordExitFunction: the closed frame keeps its tokens.
ExitKeepsFrame(d, g) ==
  LET h == ExitInto(g, og_seq[d - 1])
  IN  /\ sequences' = h.sequences
      /\ loops' = h.loops
      /\ og_seq' = [og_seq EXCEPT ![d - 1] = h.tokens, ![d] = g.tokens]
      /\ cur_depth' = d - 1

\* recordExitFunction on frame d, whose tokens are g.tokens.
RecordExitFunction(d, g) ==
  LET h == ExitInto(g, og_seq[d - 1])
  IN  /\ sequences' = h.sequences
      /\ loops' = h.loops
      /\ og_seq' = [og_seq EXCEPT ![d - 1] = h.tokens, ![d] = <<>>]
      /\ cur_depth' = d - 1

SummarizeEvent(e) == events' = CountOccurrence(WithEvent(e), EventIdOf(e))

-----------------------------------------------------------------------------
(* The calls *)

\* htf_record_enter and the other begin events.  recordEnterFunction moves one
\* frame up, and storeEvent puts the event at the head of that frame.
RecordBlockStart(e) ==
  /\ status = "open"
  /\ cur_depth + 1 < MaxDepth
  /\ cur_depth' = cur_depth + 1
  /\ SetFrame(cur_depth + 1, StoreToken(GrammarAt(cur_depth + 1), EventToken(EventIdOf(e))))
  /\ SummarizeEvent(e)
  /\ UNCHANGED status

\* Mutation of RecordBlockStartTooDeep: the overflow is logged and recording goes on.
TooDeepGoesOn(e) ==
  /\ status = "open"
  /\ cur_depth + 1 >= MaxDepth
  /\ cur_depth' = cur_depth + 1
  /\ events' = WithEvent(e)
  /\ UNCHANGED <<sequences, loops, og_seq, status>>

\* The same call one block too deep: htf_error aborts the process, after the
\* event got its id and before its token is stored.
RecordBlockStartTooDeep(e) ==
  /\ status = "open"
  /\ cur_depth + 1 >= MaxDepth
  /\ cur_depth' = cur_depth + 1
  /\ events' = WithEvent(e)
  /\ status' = "aborted"
  /\ UNCHANGED <<sequences, loops, og_seq>>

RecordSingleton(e) ==
  /\ status = "open"
  /\ SetFrame(cur_depth, StoreToken(GrammarAt(cur_depth), EventToken(EventIdOf(e))))
  /\ SummarizeEvent(e)
  /\ UNCHANGED <<cur_depth, status>>

\* htf_record_leave and the other end events.  A caller ends only a block it
\* began; the code does not check it.
RecordBlockEnd(e) ==
  /\ status = "open"
  /\ cur_depth > 0
  /\ RecordExitFunction(cur_depth, StoreToken(GrammarAt(cur_depth), EventToken(EventIdOf(e))))
  /\ SummarizeEvent(e)
  /\ UNCHANGED status

\* threadClose is entered ...
ThreadClose ==
  /\ status = "open"
  /\ status' = "closing"
  /\ UNCHANGED <<events, sequences, loops, og_seq, cur_depth>>

\* Mutation of CloseUnfinished: the outermost block is left open.
CloseAllButOne ==
  /\ status = "closing"
  /\ cur_depth > 1
  /\ RecordExitFunction(cur_depth, GrammarAt(cur_depth))
  /\ UNCHANGED <<events, status>>

\* ... closes the blocks still open, one turn of its loop each ...
CloseUnfinished ==
  /\ status = "closing"
  /\ cur_depth > 0
  /\ RecordExitFunction(cur_depth, GrammarAt(cur_depth))
  /\ UNCHANGED <<events, status>>

\* Mutation of FinalizeThread: the thread is written before its last block ends.
FinalizeEarly ==
  /\ status = "closing"
  /\ cur_depth <= 1
  /\ status' = IF events = <<>> THEN "aborted" ELSE "closed"
  /\ UNCHANGED <<events, sequences, loops, og_seq, cur_depth>>

\* ... and writes the thread, which aborts if no event was ever recorded.
FinalizeThread ==
  /\ status = "closing"
  /\ cur_depth = 0
  /\ status' = IF events = <<>> THEN "aborted" ELSE "closed"
  /\ UNCHANGED <<events, sequences, loops, og_seq, cur_depth>>

Record ==
  \/ \E e \in BlockStart : RecordBlockStart(e) \/ RecordBlockStartTooDeep(e)
  \/ \E e \in Singleton : RecordSingleton(e)
  \/ \E e \in BlockEnd : RecordBlockEnd(e)

Close == ThreadClose \/ CloseUnfinished \/ FinalizeThread

Next == Record \/ Close

Spec == Init /\ [][Next]_vars

-----------------------------------------------------------------------------
(* Properties *)

\* A token may stand only for an existing event, or for something older than
\* the sequence numbered n it is found in.
RefersBelow(token, n) ==
  \/ token.type = "Event" /\ token.id \in DOMAIN events
  \/ token.type = "Sequence" /\ token.id \in DOMAIN sequences /\ token.id < n
  \/ /\ token.type = "Loop"
     /\ token.id \in DOMAIN loops
     /\ loops[token.id].repeated_token.id < n

\* The grammar has no cycle and no dangling token: a sequence is made only of
\* events, of older sequences and of loops over older sequences.  A reader that
\* enters every block it meets, and getTokenCount, which recurses the same way,
\* end because of this; nothing in either of them checks it.
ReferencesGoDown ==
  /\ \A l \in DOMAIN loops :
       /\ loops[l].repeated_token.type = "Sequence"
       /\ loops[l].repeated_token.id \in DOMAIN sequences
  /\ \A n \in DOMAIN sequences : \A k \in DOMAIN sequences[n] : RefersBelow(sequences[n][k], n)
  /\ \A d \in Depths : \A k \in DOMAIN og_seq[d] : RefersBelow(og_seq[d][k], Len(sequences) + 1)

\* Equal blocks get equal tokens, whatever the order they were met in: no
\* sequence is stored twice and no two loops repeat the same sequence.  A loop
\* is recognised by comparing tokens, so a second copy of a block would hide a
\* repetition from every later comparison.
EveryBlockHasOneToken ==
  /\ \A m, n \in DOMAIN sequences : sequences[m] = sequences[n] => m = n
  /\ \A k, l \in DOMAIN loops :
       loops[k].repeated_token.id = loops[l].repeated_token.id => k = l

IsBlockStart(token) == token.type = "Event" /\ events[token.id].event \in BlockStart
IsBlockEnd(token) == token.type = "Event" /\ events[token.id].event \in BlockEnd

\* Neither begins nor ends a block at its own level.
IsFlat(tokens) ==
  \A k \in DOMAIN tokens : ~IsBlockStart(tokens[k]) /\ ~IsBlockEnd(tokens[k])

\* Begins a block with its first token, and may end it with its last.
IsBlock(tokens) ==
  /\ tokens # <<>>
  /\ IsBlockStart(tokens[1])
  /\ \A k \in 2..Len(tokens) :
       ~IsBlockStart(tokens[k]) /\ (IsBlockEnd(tokens[k]) => k = Len(tokens))

\* Loops never cut across a block: the body of a loop holds whole calls only,
\* and the begin event of an open block stays at the head of its frame however
\* often that frame is rewritten, so that the block can still be closed as one.
LoopsRespectBlocks ==
  /\ \A l \in DOMAIN loops : IsFlat(sequences[loops[l].repeated_token.id])
  /\ \A n \in DOMAIN sequences : IsFlat(sequences[n]) \/ IsBlock(sequences[n])
  /\ IsFlat(og_seq[0])
  /\ \A d \in Depths \ {0} :
       IF d <= cur_depth
       THEN IsBlock(og_seq[d]) /\ ~IsBlockEnd(og_seq[d][Len(og_seq[d])])
       ELSE og_seq[d] = <<>>

\* A step never changes a stored sequence nor what a loop repeats, and of the
\* iteration counts of a loop it changes at most the last: what was recorded of
\* finished occurrences is final, though later events rewrite the frames.
KeepsHistory ==
  /\ Len(sequences) <= Len(sequences')
  /\ \A n \in DOMAIN sequences : sequences'[n] = sequences[n]
  /\ Len(loops) <= Len(loops')
  /\ \A l \in DOMAIN loops :
       LET old == loops[l].nb_iterations
           new == loops'[l].nb_iterations
       IN  /\ loops'[l].repeated_token = loops[l].repeated_token
           /\ Len(new) \in {Len(old), Len(old) + 1}
           /\ \A k \in 1..Len(old) :
                \/ new[k] = old[k]
                \/ k = Len(old) /\ k = Len(new) /\ new[k] = old[k] + 1

HistoryIsFinal == [][KeepsHistory]_vars

\* A loop in front of its own body would be an iteration that was not counted.
FollowedByBody(tokens, k) ==
  /\ tokens[k].type = "Loop"
  /\ LET body == sequences[loops[tokens[k].id].repeated_token.id]
     IN  /\ k + Len(body) <= Len(tokens)
         /\ SubSeq(tokens, k + 1, k + Len(body)) = body

\* No iteration is left out of the loop it continues, in any frame and in any
\* stored sequence: when the last token of a body arrives, no other rewrite has
\* been preferred to the loop in front of that body.
NoIterationLeftBehind ==
  /\ \A d \in Depths : \A k \in DOMAIN og_seq[d] : ~FollowedByBody(og_seq[d], k)
  /\ \A n \in DOMAIN sequences :
       \A k \in DOMAIN sequences[n] : ~FollowedByBody(sequences[n], k)

RepeatsFolded(lengths) ==
  \A d \in Depths : \A n \in lengths :
    EndsWithRepeat(GrammarAt(d), n) => og_seq[d][Len(og_seq[d])].type = "Loop"

\* No two equal adjacent blocks are left at the end of a frame: when an event or
\* a call completes the second one, both become a loop, whatever the loops that
\* were found before made of them.  The lengths are those below maxLoopLength.
NoRepeatLeftBehind == RepeatsFolded(1..(MaxLoopLength - 1))

\* Every loop has a body shorter than maxLoopLength when the search is truncated,
\* though bodies are compared after the loops inside them were folded.
BodiesStayShort ==
  Algorithm = "BasicTruncated" =>
    \A l \in DOMAIN loops : Len(sequences[loops[l].repeated_token.id]) < MaxLoopLength

\* Whatever token comes next, in whatever frame, the search has no choice: at most
\* one rewrite is possible, so that neither the order of the lengths nor trying an
\* iteration before a new loop decides what the trace looks like.
OneLoopAtATime ==
  \A d \in Depths :
    \A token \in {EventToken(i) : i \in DOMAIN events} \cup
                 {SequenceToken(n) : n \in DOMAIN sequences} :
      LET g == [GrammarAt(d) EXCEPT !.tokens = Append(@, token)]
      IN  \A m, n \in LoopLengths(g) :
            EndsWithLoop(g, m) /\ EndsWithLoop(g, n) =>
              m = n /\ ~(EndsWithIteration(g, n) /\ EndsWithRepeat(g, n))

\* Every stored occurrence of a loop repeats: between two calls no occurrence
\* has the single iteration that createLoop gives it.
LoopsRepeat ==
  \A l \in DOMAIN loops : \A k \in DOMAIN loops[l].nb_iterations : loops[l].nb_iterations[k] >= 2

\* threadClose runs to its end once the thread is in it.
FairClose == WF_vars(CloseUnfinished) /\ WF_vars(FinalizeThread)

\* A thread that closes leaves no block open, however deep it was.
ClosingEnds ==
  status = "closing" ~>
    (cur_depth = 0 /\ status = IF events = <<>> THEN "aborted" ELSE "closed")
=============================================================================
