------------------------------ MODULE HtfPrint ------------------------------
(***************************************************************************)
(* htf_print (apps/htf_print.cpp): a thread is recorded and closed, then   *)
(* the program opens the archive and prints the thread, either with        *)
(* printTrace (PrintTrace) or, under the option -T, with print_thread      *)
(* (PrintThread).  The variables of the latter begin with shown.           *)
(***************************************************************************)
EXTENDS RecordedThread, PrintTrace

CONSTANT MaxShown   \* how many events there are in what -T prints

VARIABLES
  shownThread, shownCallstack, shownTokenCount, shownLevels, shown, shownProgress

PerThread == INSTANCE PrintThread WITH
               thread     <- shownThread,
               callstack  <- shownCallstack,
               tokenCount <- shownTokenCount,
               levels     <- shownLevels,
               printed    <- shown,
               progress   <- shownProgress

shownVars == <<shownThread, shownCallstack, shownTokenCount, shownLevels, shown, shownProgress>>

PrintInit == RecordInit /\ ReaderInit /\ PerThread!Init

\* The program prints in one of the two ways.
PrintNext ==
  \/ RecordNext /\ UNCHANGED <<readerVars, shownVars>>
  \/ shownProgress = "closed" /\ ReaderNext /\ UNCHANGED <<vars, log, nb_durations, shownVars>>
  \/ /\ progress = "closed" /\ Len(log) <= MaxShown
     /\ PerThread!Next /\ UNCHANGED <<vars, log, nb_durations, readerVars>>

PrintSpec == PrintInit /\ [][PrintNext]_<<recordVars, readerVars, shownVars>>

FairPrintSpec ==
  /\ PrintSpec
  /\ WF_<<recordVars, readerVars, shownVars>>
       (GetNextToken /\ UNCHANGED <<vars, log, nb_durations, shownVars>>)
  /\ WF_<<recordVars, readerVars, shownVars>>
       (PerThread!DisplaySequence /\ UNCHANGED <<vars, log, nb_durations, readerVars>>)

-----------------------------------------------------------------------------
(* printTrace *)

EventsOf(reads) == [k \in DOMAIN reads |-> events[reads[k].token.id].event]

ReplayPhase(reading) ==
  CASE reading = "closed" -> "recording"
    [] reading = "overrun" -> "lost"
    [] OTHER -> "replaying"

Replay == INSTANCE EventReplay WITH
            Event    <- Event,
            replayed <- EventsOf(printed),
            phase    <- ReplayPhase(progress)

\* A thread whose loops are not even never counts as being replayed.
EvenReplay == INSTANCE EventReplay WITH
                Event    <- Event,
                replayed <- IF HasEvenLoops(thread) THEN EventsOf(printed) ELSE <<>>,
                phase    <- IF HasEvenLoops(thread) THEN ReplayPhase(progress) ELSE "recording"

\* What is printed are the events that were recorded, in order: printTrace of a
\* written trace implements EventReplay, as the comments of moveToNextToken say.
PrintsTheTrace == Replay!Spec

\* If every occurrence of each loop has as many iterations, what is printed are
\* the events that were recorded, in order, all of them, unless the call stack
\* overruns: printTrace and moveToNextToken implement EventReplay.
PrintsAllOfEvenTraces == EvenReplay!FairSpec

\* When printTrace is done, it has printed all that was recorded, once and in
\* order, if the loops are even: the call stack runs out with the last event,
\* however many blocks are left at once after it.
DoneWithAllEvents ==
  (progress = "done" /\ HasEvenLoops(thread)) => EventsOf(printed) = log

-----------------------------------------------------------------------------
(* print_thread *)

\* All loops lie in the main sequence itself.
HasLoopsInMainOnly(t) ==
  \A n \in DOMAIN t.sequences : \A k \in DOMAIN t.sequences[n] :
    t.sequences[n][k].type # "Loop"

\* The counts that lag behind do not show on such a thread.
IsShownWhole == HasEvenLoops(shownThread) \/ HasLoopsInMainOnly(shownThread)

ShownReplay == INSTANCE EventReplay WITH
                 Event    <- Event,
                 replayed <- IF IsShownWhole THEN EventsOf(shown) ELSE <<>>,
                 phase    <- IF IsShownWhole THEN ReplayPhase(shownProgress) ELSE "recording"

\* If every occurrence of each loop has as many iterations, or no call holds a
\* loop, what is shown are the events that were recorded, in order, all of them,
\* unless the call stack overruns: display_sequence, over savestates that are
\* only partly restored, implements EventReplay.
DisplaysAllOfTheTrace == ShownReplay!FairSpec

\* Whatever its loops, displaying a thread that was written never fails: the
\* counts of a savestate may fall behind, but never ask for more durations and
\* iteration counts than there are.
NeverAborts == PerThread!NeverAborts

\* Each event is shown as the occurrence that it is: the first time as the
\* first, the next time as the next.  Its time and its attributes are looked up
\* by that number.
OccurencesInOrder == PerThread!OccurencesInOrder
=============================================================================
