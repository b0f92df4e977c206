---------------------------- MODULE ThreadReader ----------------------------
(***************************************************************************)
(* ThreadReader (src/htf_read.cpp): the operations with which one thread   *)
(* of a stored trace is read, as functions of the thread and of the two    *)
(* parts of the reader's state that they change, the call stack and the    *)
(* token counts.  PrintTrace and PrintThread are programs that use them.   *)
(*                                                                         *)
(* callstack[k] is frame k - 1 of the code; current_frame is Len(callstack)*)
(* - 1, and leaveBlock clears what it pops.  Token counts are functions on *)
(* all tokens of the thread; a token that std::map does not hold counts 0. *)
(* The times themselves are left out: of the durations, only how many were *)
(* stored matters here.                                                    *)
(***************************************************************************)
EXTENDS StoredThread

CONSTANT MaxCallstackDepth   \* MAX_CALLSTACK_DEPTH

ASSUME CallstackAssumption == MaxCallstackDepth \in Nat \ {0}

TokensOf(t) ==
  {EventToken(i) : i \in DOMAIN t.nb_occurences} \cup
  {SequenceToken(n) : n \in DOMAIN t.sequences} \cup
  {LoopToken(l) : l \in DOMAIN t.loops}

Frame == [block : Token, index : Nat, loop_iteration : Nat]

NewFrame(block) == [block |-> block, index |-> 0, loop_iteration |-> 0]

\* What the constructor leaves: the cursor on the first token, nothing counted.
FirstCallstack == <<NewFrame(SequenceToken(0))>>
NothingRead(t) == [token \in TokensOf(t) |-> 0]

\* The frame at current_frame.
CurFrame(callstack) == callstack[Len(callstack)]

-----------------------------------------------------------------------------
(* The token under the cursor *)

SequenceAt(t, id) == IF id = 0 THEN t.tokens ELSE t.sequences[id]

HasToken(t, frame) ==
  frame.block.type = "Sequence" => frame.index < Len(SequenceAt(t, frame.block.id))

\* getTokenInCallstack: in a loop, whatever the iteration, the repeated token.
TokenAt(t, frame) ==
  IF frame.block.type = "Sequence"
  THEN SequenceAt(t, frame.block.id)[frame.index + 1]
  ELSE t.loops[frame.block.id].repeated_token

\* Mutation of CurToken: the token is taken from the frame below.
CurTokenBelow(t, callstack) ==
  TokenAt(t, callstack[IF Len(callstack) = 1 THEN 1 ELSE Len(callstack) - 1])

CurToken(t, callstack) == TokenAt(t, CurFrame(callstack))

IsIterable(token) == token.type \in {"Sequence", "Loop"}

-----------------------------------------------------------------------------
(* Moving the cursor *)

\* Mutation of IsEndOfSequence: the sequence ends one token late.
IsPastEndOfSequence(t, index, id) == index > Len(SequenceAt(t, id))

\* Mutation of IsEndOfSequence: the last token is taken for the end.
IsLastOfSequence(t, index, id) == index + 1 >= Len(SequenceAt(t, id))

IsEndOfSequence(t, index, id) == index >= Len(SequenceAt(t, id))

\* nb_iterations.back()
LastIterations(loop) == loop.nb_iterations[Len(loop.nb_iterations)]

\* Mutation of IsEndOfLoop: the loop ends one iteration late.
IsPastEndOfLoop(t, index, l) == index > LastIterations(t.loops[l])

\* isEndOfLoop: the count of the last occurrence, whichever is being read.
IsEndOfLoop(t, index, l) == index >= LastIterations(t.loops[l])

IsAtEnd(t, frame) ==
  IF frame.block.type = "Sequence"
  THEN IsEndOfSequence(t, frame.index + 1, frame.block.id)
  ELSE IsEndOfLoop(t, frame.loop_iteration + 1, frame.block.id)

Advance(frame) ==
  IF frame.block.type = "Sequence"
  THEN [frame EXCEPT !.index = @ + 1]
  ELSE [frame EXCEPT !.loop_iteration = @ + 1]

EnterBlock(callstack, block) == Append(callstack, NewFrame(block))

LeaveBlock(callstack) == SubSeq(callstack, 1, Len(callstack) - 1)

\* Mutation of MoveToNextToken: a block that was left is not moved past.
MoveOutOnly(t, callstack) ==
  IF IsAtEnd(t, CurFrame(callstack)) THEN LeaveBlock(callstack)
  ELSE Append(LeaveBlock(callstack), Advance(CurFrame(callstack)))

\* Mutation of MoveToNextToken: the block that goes on is pushed once more.
MoveByPushing(t, callstack) ==
  LET unfinished == {k \in DOMAIN callstack : ~IsAtEnd(t, callstack[k])}
  IN  IF unfinished = {} THEN <<>>
      ELSE LET k == CHOOSE k \in unfinished : \A j \in unfinished : j <= k
           IN  Append(callstack, Advance(callstack[k]))

\* moveToNextToken leaves every block that is at its end, then moves on in the
\* innermost one that is not.  Out of the main sequence, the trace is over.
MoveToNextToken(t, callstack) ==
  LET unfinished == {k \in DOMAIN callstack : ~IsAtEnd(t, callstack[k])}
  IN  IF unfinished = {} THEN <<>>
      ELSE LET k == CHOOSE k \in unfinished : \A j \in unfinished : j <= k
           IN  Append(SubSeq(callstack, 1, k - 1), Advance(callstack[k]))

CountTokens(tokenCount, token, n) ==
  [x \in DOMAIN tokenCount |-> IF x = token THEN tokenCount[x] + n ELSE tokenCount[x]]

CountToken(tokenCount, token) == CountTokens(tokenCount, token, 1)

-----------------------------------------------------------------------------
(* Occurrences.  Reading a duration past the last one ends the program.    *)

HasSequenceOccurence(t, token, occurence) == occurence < t.nb_durations[token.id]

\* getLoopOccurence, and getLoopDuration for as many iterations as it says.
HasLoopOccurence(t, tokenCount, token) ==
  LET loop      == t.loops[token.id]
      occurence == tokenCount[token]
  IN  /\ occurence < Len(loop.nb_iterations)
      /\ tokenCount[loop.repeated_token] + loop.nb_iterations[occurence + 1]
           <= t.nb_durations[loop.repeated_token.id]

\* getOccurence of the next occurrence of the token.
HasOccurence(t, tokenCount, token) ==
  CASE token.type = "Event"    -> tokenCount[token] < t.nb_occurences[token.id]
    [] token.type = "Sequence" -> HasSequenceOccurence(t, token, tokenCount[token])
    [] token.type = "Loop"     -> HasLoopOccurence(t, tokenCount, token)
    [] OTHER                   -> FALSE

-----------------------------------------------------------------------------
(* Savestates *)

\* Savestate::Savestate copies current_frame frames: those below the current one.
Savestate(callstack, tokenCount) ==
  [callstack |-> LeaveBlock(callstack), tokenCount |-> tokenCount]

\* What a frame holds that no savestate restored.
UnknownFrame == NewFrame(InvalidToken)

\* loadSavestate reads past the frames that were saved: the current frame, and
\* those above it, come from whatever memory follows them.
LoadSavestate(savestate) == Append(savestate.callstack, UnknownFrame)

-----------------------------------------------------------------------------
(* What decides how far a thread can be read *)

\* All occurrences of a loop have as many iterations.
HasEvenLoops(t) ==
  \A l \in DOMAIN t.loops : \A k \in DOMAIN t.loops[l].nb_iterations :
    t.loops[l].nb_iterations[k] = LastIterations(t.loops[l])
=============================================================================
