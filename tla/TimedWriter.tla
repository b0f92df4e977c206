---------------------------- MODULE TimedWriter ----------------------------
(***************************************************************************)
(* A thread writer with its clock: the calls of ThreadWriter, and the      *)
(* durations that they keep in the ledger of Durations.  storeEvent stores *)
(* the token first, which looks for loops and measures them, and the time  *)
(* of the event second.                                                    *)
(*                                                                         *)
(* The durations are given for the basic search only: the filtered one     *)
(* loses count of iterations (MCFilterWriter), and durations with them.    *)
(***************************************************************************)
EXTENDS UnfoldedTrace, Durations

CONSTANTS
  Ticks,       \* the times that may pass between two events
  Start        \* the timestamp of the first event

ASSUME TablesAssumption == NbEventDefault \in Nat \ {0} /\ NbLoopDefault \in Nat \ {0}
ASSUME ClockAssumption == Ticks \subseteq Nat /\ Start \in Nat
ASSUME BasicSearch == Algorithm # "Filter"

VARIABLES
  ledger,
  stamps       \* the timestamps of the events recorded; the code keeps none

timedVars == <<vars, ledger, stamps>>

TimedInit ==
  /\ Init
  /\ stamps = <<>>
  /\ \E pending \in {<<>>, <<Earlier>>} :
       ledger = [events |-> <<>>, sequences |-> <<>>, pending |-> pending,
                 failed |-> FALSE, crashed |-> FALSE]

-----------------------------------------------------------------------------

\* createLoop doubles the table of loops when it is full, before it looks whether
\* the loop is in it.  The table was made with new[], which puts the number of
\* loops in front of it: realloc refuses the pointer.
CreateLoop(w, g) == [w EXCEPT !.crashed = @ \/ Len(g.loops) >= NbLoopDefault]

\* The two blocks of a new loop: replaceTokensInLoop measures both, only the
\* second will be completed.
MeasureBoth(w, g, id, array) ==
  LET first == SequenceDuration(w, g, array)
  IN  MeasureAgain(AddSequenceDuration(w, id, first.sum), g, id, array)

\* What storeToken measures, when it makes a loop of the end of the frame.
MeasureLoop(w, before, token) ==
  LET g == [before EXCEPT !.tokens = Append(@, token)]
  IN  IF ~Looping(g) THEN w
      ELSE LET n     == LengthFound(g)
               after == RewriteLoop(g, n)
               array == LastTokens(g.tokens, n)
               id    == SequenceIdOf(after.sequences, array)
           IN  IF EndsWithIteration(g, n)
               THEN MeasureAgain(w, after, id, array)
               ELSE MeasureBoth(CreateLoop(w, g), after, id, array)

\* storeEvent up to the end of the block, in the frame g.
MeasureEvent(w, g, id, ts) == StoreTimestamp(MeasureLoop(w, g, EventToken(id)), id, ts)

\* recordExitFunction on frame d, whose tokens are g.tokens.
MeasureExit(w, d, g) ==
  LET known == [g EXCEPT !.sequences = WithSequence(@, g.tokens)]
      id    == SequenceIdOf(g.sequences, g.tokens)
  IN  MeasureLoop(MeasureAgain(w, known, id, g.tokens),
                  [known EXCEPT !.tokens = og_seq[d - 1]], SequenceToken(id))

NextStamps ==
  IF stamps = <<>> THEN {Start} ELSE {stamps[Len(stamps)] + tick : tick \in Ticks}

TimedStart(e, ts) ==
  /\ RecordBlockStart(e)
  /\ ledger' = MeasureEvent(ledger, GrammarAt(cur_depth + 1), EventIdOf(e), ts)
  /\ stamps' = Append(stamps, ts)

TimedTooDeep(e) == RecordBlockStartTooDeep(e) /\ UNCHANGED <<ledger, stamps>>

TimedSingleton(e, ts) ==
  /\ RecordSingleton(e)
  /\ ledger' = MeasureEvent(ledger, GrammarAt(cur_depth), EventIdOf(e), ts)
  /\ stamps' = Append(stamps, ts)

TimedEnd(e, ts) ==
  /\ RecordBlockEnd(e)
  /\ ledger' = MeasureExit(MeasureEvent(ledger, GrammarAt(cur_depth), EventIdOf(e), ts),
                           cur_depth, StoreToken(GrammarAt(cur_depth), EventToken(EventIdOf(e))))
  /\ stamps' = Append(stamps, ts)

TimedClose == ThreadClose /\ UNCHANGED <<ledger, stamps>>

TimedUnfinished ==
  /\ CloseUnfinished
  /\ ledger' = MeasureExit(ledger, cur_depth, GrammarAt(cur_depth))
  /\ UNCHANGED stamps

\* A thread without events aborts before its last timestamp is finished.
TimedFinalize ==
  /\ FinalizeThread
  /\ ledger' = IF events = <<>> THEN ledger ELSE FinishTimestamp(ledger)
  /\ UNCHANGED stamps

TimedRecord ==
  \/ \E ts \in NextStamps :
       \/ \E e \in BlockStart : TimedStart(e, ts)
       \/ \E e \in Singleton : TimedSingleton(e, ts)
       \/ \E e \in BlockEnd : TimedEnd(e, ts)
  \/ \E e \in BlockStart : TimedTooDeep(e)

TimedNext ==
  /\ ~ledger.failed /\ ~ledger.crashed
  /\ TimedRecord \/ TimedClose \/ TimedUnfinished \/ TimedFinalize

TimedSpec == TimedInit /\ [][TimedNext]_timedVars

-----------------------------------------------------------------------------
(* Properties *)

\* The places in the trace of the occurrences of an event.
PlacesIn(ids, i) == SelectSeq([p \in DOMAIN ids |-> p], LAMBDA p : ids[p] = i)

\* The time from the p-th event of the thread to the next; the last has none
\* before the thread is closed, and then 0.
Elapsed(p) == stamps[p + 1] - stamps[p]

\* Each event has one duration for each of its occurrences, in the order of the
\* trace, and it is the time that passed until the next event of the thread,
\* whatever loops were folded, blocks closed and sequences measured meanwhile.
\* The reader adds these up to tell when an event happened.
EventDurationsExact ==
  (status # "aborted") =>
    \A ids \in {Unfolding.ids} : \A i \in DOMAIN events :
          LET places == PlacesIn(ids, i)
          IN  /\ Len(ledger.events[i]) = Len(places)
              /\ \A k \in DOMAIN places :
                   ledger.events[i][k] =
                     CASE places[k] < Len(stamps) -> Elapsed(places[k])
                       [] status = "closed"       -> 0
                       [] OTHER                   -> stamps[places[k]]

\* A sequence has one duration for each time that it occurs in the trace, so
\* that the k-th duration belongs to the k-th occurrence, as the reader takes
\* it.  Three places of the writer add durations and none checks the count.
DurationPerOccurrence ==
  \A u \in {Unfolding} :
    \A n \in DOMAIN sequences : Len(ledger.sequences[n]) = Count(u.entered, n)

\* Measuring a sequence never asks for more durations of a token than the token
\* has (at() would abort the traced program).  What does kill the program is the
\* growth of the table of events or of loops (DOUBLE_MEMORY_SPACE).
FailsOnlyOnFullTables ==
  /\ ~ledger.failed
  /\ ledger.crashed => Len(events) > NbEventDefault \/ Len(loops) >= NbLoopDefault

\* What is pending first: the duration of the last event of the trace.  Before
\* the first event it may be one of a writer that was closed.
IsPendingFirst(a, ids) ==
  IF ids = <<>> THEN a = Earlier ELSE a = LastEvent(ledger, Last(ids))

\* When an event was stored, the only durations to be completed are its own,
\* first, and then those of sequences that end with it, whose last one it is.
OnlyTheLastIsPending ==
  (status # "aborted") =>
    \A ids \in {Unfolding.ids} : \A k \in DOMAIN ledger.pending :
      LET a == ledger.pending[k]
      IN  IF k = 1 THEN IsPendingFirst(a, ids)
          ELSE a.table = "sequences" /\ a.index = Len(ledger.sequences[a.id])

=============================================================================
