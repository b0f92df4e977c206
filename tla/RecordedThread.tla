--------------------------- MODULE RecordedThread ---------------------------
(***************************************************************************)
(* The writer whose trace is read back: log keeps what it was given, and   *)
(* WrittenThread is what it leaves in the archive when it is closed.  Of   *)
(* the durations that the writer adds to its sequences (TimedWriter), only *)
(* how many there are matters here.                                        *)
(***************************************************************************)
EXTENDS ThreadWriter, StoredThread

CONSTANT MaxEvents   \* the length of the traces that are recorded

ASSUME SearchByLength == Algorithm # "Filter"

VARIABLES
  log,
  nb_durations   \* durations->size of each sequence

recordVars == <<vars, log, nb_durations, archive>>

\* durations->add, n times.  A new sequence comes with a vector of its own.
AddDurations(nb, id, n) ==
  IF id \in DOMAIN nb THEN [nb EXCEPT ![id] = @ + n] ELSE Append(nb, n)

\* What storeToken adds: one duration with an iteration, two with a new loop.
MeasureLoop(nb, before, token) ==
  LET g    == [before EXCEPT !.tokens = Append(@, token)]
      n    == LengthFound(g)
      body == LastTokens(g.tokens, n)
  IN  IF ~Looping(g) THEN nb
      ELSE AddDurations(nb, SequenceIdOf(g.sequences, body),
                        IF EndsWithIteration(g, n) THEN 1 ELSE 2)

\* What recordExitFunction adds, see ExitInto.
MeasureExit(nb, g, upper) ==
  LET id == SequenceIdOf(g.sequences, g.tokens)
  IN  MeasureLoop(AddDurations(nb, id, 1),
                  [g EXCEPT !.sequences = WithSequence(@, g.tokens), !.tokens = upper],
                  SequenceToken(id))

\* What storeEvent adds, on a frame of depth d.
MeasureEvent(d, e) == MeasureLoop(nb_durations, GrammarAt(d), EventToken(EventIdOf(e)))

\* And at the end of a block.
MeasureBlockEnd(e) ==
  MeasureExit(MeasureEvent(cur_depth, e),
              StoreToken(GrammarAt(cur_depth), EventToken(EventIdOf(e))),
              og_seq[cur_depth - 1])

Logged(e, durations) ==
  /\ Len(log) < MaxEvents
  /\ log' = Append(log, e)
  /\ nb_durations' = durations
  /\ UNCHANGED archive

\* _htf_store_thread
WrittenThread ==
  [sequences     |-> sequences,
   loops         |-> loops,
   tokens        |-> og_seq[0],
   nb_occurences |-> [i \in DOMAIN events |-> events[i].nb_occurences],
   nb_durations  |-> nb_durations]

\* The thread is written to the archive when it is finalized.
StoreThread ==
  /\ FinalizeThread
  /\ archive' = IF events = <<>> THEN archive ELSE {WrittenThread}
  /\ UNCHANGED <<log, nb_durations>>

RecordInit == Init /\ log = <<>> /\ nb_durations = <<>> /\ archive = {}

RecordNext ==
  \/ \E e \in BlockStart : RecordBlockStart(e) /\ Logged(e, MeasureEvent(cur_depth + 1, e))
  \/ \E e \in Singleton : RecordSingleton(e) /\ Logged(e, MeasureEvent(cur_depth, e))
  \/ \E e \in BlockEnd : RecordBlockEnd(e) /\ Logged(e, MeasureBlockEnd(e))
  \/ ThreadClose /\ UNCHANGED <<log, nb_durations, archive>>
  \/ /\ CloseUnfinished
     /\ nb_durations' = MeasureExit(nb_durations, GrammarAt(cur_depth), og_seq[cur_depth - 1])
     /\ UNCHANGED <<log, archive>>
  \/ StoreThread
=============================================================================
