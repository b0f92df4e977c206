----------------------------- MODULE PrintThread -----------------------------
(***************************************************************************)
(* print_thread and display_sequence (apps/htf_print.cpp, options -T -e):  *)
(* one thread is printed level by level.  A level is read as a whole with  *)
(* readCurrentLevel; then each sequence in it, and each iteration of each  *)
(* loop in it, is displayed in the same way from the savestate that was    *)
(* made when the level was read.  display_sequence is recursive: levels    *)
(* holds what each pending call has still to show.                         *)
(***************************************************************************)
EXTENDS ThreadReader, SequencesExt

VARIABLES
  thread,       \* thread_trace
  callstack,    \* callstack_sequence, callstack_index, callstack_loop_iteration
  tokenCount,
  levels,       \* current_level of every call of display_sequence, from its loop on
  printed,      \* the events printed so far, each with its occurrence number
  progress      \* "closed", "reading", "done", "aborted" or "overrun"

displayVars == <<thread, callstack, tokenCount, levels, printed, progress>>

NoThread ==
  [sequences |-> <<>>, loops |-> <<>>, tokens |-> <<>>,
   nb_occurences |-> <<>>, nb_durations |-> <<>>]

NoSavestate == [callstack |-> <<>>, tokenCount |-> <<>>]

Init ==
  /\ thread = NoThread
  /\ callstack = <<>>
  /\ tokenCount = NothingRead(NoThread)
  /\ levels = <<>>
  /\ printed = <<>>
  /\ progress = "closed"

-----------------------------------------------------------------------------
(* readCurrentLevel *)

\* Mutation of CountRead: the sequence of a loop is counted once too often.
CountReadAndBody(t, count, token) ==
  LET loop == t.loops[token.id]
  IN  CASE token.type = "Event" -> CountToken(count, token)
        [] token.type = "Loop" /\ HasOccurence(t, count, token) ->
             CountToken(CountTokens(count, loop.repeated_token,
                                    loop.nb_iterations[count[token] + 1] + 1), token)
        [] OTHER -> count

\* The counts after a token of the level was read.  An event is counted, a loop
\* and its iterations are, but nothing inside them; a sequence is not counted.
CountRead(t, count, token) ==
  LET loop == t.loops[token.id]
  IN  CASE token.type = "Event" -> CountToken(count, token)
        [] token.type = "Loop" /\ HasOccurence(t, count, token) ->
             CountToken(CountTokens(count, loop.repeated_token,
                                    loop.nb_iterations[count[token] + 1]), token)
        [] OTHER -> count

\* Mutation of ItemsOf: only the first iteration of a loop is shown.
FirstItemOf(t, frames, count, token) ==
  CASE token.type = "Event" ->
         <<[token |-> token, occurence |-> count[token], savestate |-> NoSavestate]>>
    [] token.type = "Sequence" ->
         <<[token |-> token, occurence |-> count[token],
            savestate |-> Savestate(frames, count)]>>
    [] OTHER ->
         LET body == t.loops[token.id].repeated_token
         IN  <<[token |-> body, occurence |-> count[body],
                savestate |-> Savestate(EnterBlock(frames, token), count)]>>

\* What a token of the level is shown as: itself or, for a loop, its iterations,
\* each with the savestate from which it is displayed.
ItemsOf(t, frames, count, token) ==
  CASE token.type = "Event" ->
         <<[token |-> token, occurence |-> count[token], savestate |-> NoSavestate]>>
    [] token.type = "Sequence" ->
         <<[token |-> token, occurence |-> count[token],
            savestate |-> Savestate(frames, count)]>>
    [] OTHER ->
         LET loop == t.loops[token.id]
             body == loop.repeated_token
         IN  [j \in 1..loop.nb_iterations[count[token] + 1] |->
               [token |-> body, occurence |-> count[body] + j - 1,
                savestate |-> Savestate(EnterBlock(frames, token),
                                        CountTokens(count, body, j - 1))]]

\* The level is readable when every number and every duration that it takes is
\* there; an empty level is refused by an assertion.
ReadCurrentLevel(t, frames, count) ==
  LET tokens == SequenceAt(t, CurFrame(frames).block.id)
      counts[k \in 0..Len(tokens)] ==
        IF k = 0 THEN count ELSE CountRead(t, counts[k - 1], tokens[k])
      readable ==
        /\ tokens # <<>>
        /\ \A k \in DOMAIN tokens : HasOccurence(t, counts[k - 1], tokens[k])
  IN  [readable   |-> readable,
       tokenCount |-> counts[Len(tokens)],
       items      |-> IF readable
                      THEN FlattenSeq([k \in DOMAIN tokens |->
                                        ItemsOf(t, frames, counts[k - 1], tokens[k])])
                      ELSE <<>>]

\* The loops of the level are entered one frame above it.
FitsCallstack(t, frames) ==
  /\ Len(frames) <= MaxCallstackDepth
  /\ Len(frames) = MaxCallstackDepth =>
       \A k \in DOMAIN SequenceAt(t, CurFrame(frames).block.id) :
         SequenceAt(t, CurFrame(frames).block.id)[k].type # "Loop"

-----------------------------------------------------------------------------
(* display_sequence *)

\* A call with the reader in the given frames, from pending calls that still
\* have `pending` to show.
Display(t, frames, count, pending) ==
  LET level == ReadCurrentLevel(t, frames, count)
  IN  IF ~FitsCallstack(t, frames)
      THEN /\ progress' = "overrun"
           /\ UNCHANGED <<callstack, tokenCount, levels>>
      ELSE IF ~level.readable
      THEN /\ progress' = "aborted"
           /\ UNCHANGED <<callstack, tokenCount, levels>>
      ELSE /\ progress' = "reading"
           /\ callstack' = frames
           /\ tokenCount' = level.tokenCount
           /\ levels' = Append(pending, level.items)

\* The constructor of ThreadReader, and the call for the main sequence.
OpenThread(t) ==
  /\ progress = "closed"
  /\ thread' = t
  /\ printed' = <<>>
  /\ Display(t, FirstCallstack, NothingRead(t), <<>>)
  /\ UNCHANGED archive

HasItem(type) ==
  /\ progress = "reading"
  /\ Last(levels) # <<>>
  /\ Head(Last(levels)).token.type = type

\* What the pending calls have to show after their innermost one has moved on.
NextItems == Append(Front(levels), Tail(Last(levels)))

DisplayEvent ==
  /\ HasItem("Event")
  /\ LET item == Head(Last(levels))
     IN  printed' = Append(printed, [token |-> item.token, occurence |-> item.occurence])
  /\ levels' = NextItems
  /\ UNCHANGED <<archive, thread, callstack, tokenCount, progress>>

\* A sequence, or an iteration of a loop.
DisplayBlock ==
  /\ HasItem("Sequence")
  /\ LET item == Head(Last(levels))
     IN  Display(thread, EnterBlock(LoadSavestate(item.savestate), item.token),
                 item.savestate.tokenCount, NextItems)
  /\ UNCHANGED <<archive, thread, printed>>

\* The call returns; the last one to return is the one for the main sequence.
LeaveLevel ==
  /\ progress = "reading"
  /\ Last(levels) = <<>>
  /\ callstack' = LeaveBlock(callstack)
  /\ levels' = Front(levels)
  /\ progress' = IF Len(levels) = 1 THEN "done" ELSE "reading"
  /\ UNCHANGED <<archive, thread, tokenCount, printed>>

DisplaySequence == DisplayEvent \/ DisplayBlock \/ LeaveLevel

Next == (\E t \in archive : OpenThread(t)) \/ DisplaySequence

Spec == Init /\ [][Next]_<<archive, displayVars>>

-----------------------------------------------------------------------------
(* Properties *)

\* Whatever its loops, displaying a thread that was written never fails: the
\* counts of a savestate may fall behind, but never ask for more durations and
\* iteration counts than there are.
NeverAborts == progress # "aborted"

\* Each event is printed as the occurrence that it is: the first time as the
\* first, the next time as the next.  Its time and its attributes are looked up
\* by that number.
OccurencesInOrder ==
  \A k \in DOMAIN printed :
    printed[k].occurence =
      Len(SelectSeq(SubSeq(printed, 1, k - 1), LAMBDA p : p.token = printed[k].token))
=============================================================================
