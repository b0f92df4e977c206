----------------------------- MODULE PrintTrace -----------------------------
(***************************************************************************)
(* printTrace (apps/htf_print.cpp) on one thread: the program reads the    *)
(* trace from its beginning, one token at a time, and prints the events.   *)
(* One turn of its loop is one step.                                       *)
(***************************************************************************)
EXTENDS ThreadReader

VARIABLES
  thread,       \* thread_trace
  callstack,    \* callstack_sequence, callstack_index, callstack_loop_iteration
  tokenCount,
  printed,      \* the events printed so far, each with its occurrence number
  progress      \* "closed", "reading", "done", "aborted" or "overrun"

readerVars == <<thread, callstack, tokenCount, printed, progress>>

NoThread ==
  [sequences |-> <<>>, loops |-> <<>>, tokens |-> <<>>,
   nb_occurences |-> <<>>, nb_durations |-> <<>>]

ReaderInit ==
  /\ thread = NoThread
  /\ callstack = <<>>
  /\ tokenCount = NothingRead(NoThread)
  /\ printed = <<>>
  /\ progress = "closed"

\* The constructor of ThreadReader.
OpenThread(t) ==
  /\ progress = "closed"
  /\ thread' = t
  /\ callstack' = FirstCallstack
  /\ tokenCount' = NothingRead(t)
  /\ printed' = <<>>
  /\ progress' = "reading"
  /\ UNCHANGED archive

\* A token is under the cursor, and its next occurrence can be read.
CanRead ==
  /\ progress = "reading"
  /\ callstack # <<>>
  /\ HasToken(thread, CurFrame(callstack))
  /\ HasOccurence(thread, tokenCount, CurToken(thread, callstack))

PrintEvent ==
  /\ CanRead
  /\ LET token == CurToken(thread, callstack)
     IN  /\ token.type = "Event"
         /\ printed' = Append(printed, [token |-> token, occurence |-> tokenCount[token]])
         /\ tokenCount' = CountToken(tokenCount, token)
         /\ callstack' = MoveToNextToken(thread, callstack)
  /\ UNCHANGED <<archive, thread, progress>>

\* Mutation of EnterToken: the depth is checked one frame too late.
EnterTokenTooDeep ==
  /\ CanRead
  /\ Len(callstack) <= MaxCallstackDepth
  /\ LET token == CurToken(thread, callstack)
     IN  /\ IsIterable(token)
         /\ tokenCount' = CountToken(tokenCount, token)
         /\ callstack' = EnterBlock(callstack, token)
  /\ UNCHANGED <<archive, thread, printed, progress>>

\* A sequence or a loop prints nothing by itself.
EnterToken ==
  /\ CanRead
  /\ Len(callstack) < MaxCallstackDepth
  /\ LET token == CurToken(thread, callstack)
     IN  /\ IsIterable(token)
         /\ tokenCount' = CountToken(tokenCount, token)
         /\ callstack' = EnterBlock(callstack, token)
  /\ UNCHANGED <<archive, thread, printed, progress>>

\* enterBlock does not check the depth: a frame past the last one is written
\* over the arrays that follow, and nothing is known of what the reader does.
OverrunCallstack ==
  /\ CanRead
  /\ Len(callstack) = MaxCallstackDepth
  /\ IsIterable(CurToken(thread, callstack))
  /\ progress' = "overrun"
  /\ UNCHANGED <<archive, thread, callstack, tokenCount, printed>>

\* The thread has no token at all, or a duration is missing.
FailToRead ==
  /\ progress = "reading"
  /\ callstack # <<>>
  /\ ~CanRead
  /\ progress' = "aborted"
  /\ UNCHANGED <<archive, thread, callstack, tokenCount, printed>>

EndOfTrace ==
  /\ progress = "reading"
  /\ callstack = <<>>
  /\ progress' = "done"
  /\ UNCHANGED <<archive, thread, callstack, tokenCount, printed>>

GetNextToken == PrintEvent \/ EnterToken \/ OverrunCallstack \/ FailToRead \/ EndOfTrace

ReaderNext == (\E t \in archive : OpenThread(t)) \/ GetNextToken

ReaderSpec == ReaderInit /\ [][ReaderNext]_<<archive, readerVars>>

-----------------------------------------------------------------------------
(* Properties *)

ReaderTypeOK ==
  /\ thread \in Thread
  /\ callstack \in Seq(Frame)
  /\ Len(callstack) <= MaxCallstackDepth
  /\ tokenCount \in [TokensOf(thread) -> Nat]
  /\ printed \in Seq([token : Token, occurence : Nat])
  /\ progress \in {"closed", "reading", "done", "aborted", "overrun"}

\* The call stack is a path: each frame reads the block that the frame under it
\* has its cursor on, and every cursor is on a token.  enterBlock takes any
\* block, and moveToNextToken moves several frames at once.
CallstackIsPath ==
  \A k \in DOMAIN callstack :
    /\ HasToken(thread, callstack[k])
    /\ callstack[k].block =
         IF k = 1 THEN SequenceToken(0) ELSE TokenAt(thread, callstack[k - 1])

\* The sequence that a frame reads, itself or repeated.
SequenceIdAt(frame) ==
  IF frame.block.type = "Loop" THEN thread.loops[frame.block.id].repeated_token.id
  ELSE frame.block.id

\* Up the call stack the sequences get strictly older, but for a loop and its
\* body, which follow each other.
CallstackDescends ==
  \A j, k \in DOMAIN callstack :
    (1 < j /\ j < k) =>
      \/ SequenceIdAt(callstack[k]) < SequenceIdAt(callstack[j])
      \/ k = j + 1 /\ callstack[j].block.type = "Loop"

\* The arrays of the call stack are large enough for any thread that has fewer
\* sequences than half their size: enterBlock does not look, and overruns them
\* only on threads that have more.
OverrunsOnlyDeepThreads ==
  progress = "overrun" => 2 * Len(thread.sequences) >= MaxCallstackDepth

\* Reading a thread that was written fails only when some occurrence of a loop
\* has another number of iterations than the last one.
AbortsOnlyOnUnevenLoops == progress = "aborted" => ~HasEvenLoops(thread)
=============================================================================
