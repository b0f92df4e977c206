---------------------------- MODULE MergedTrace ----------------------------
(***************************************************************************)
(* The times of several threads, from the clock to the printed trace.      *)
(*                                                                         *)
(* The threads of a process record events, with a time of their own or     *)
(* with htf_get_timestamp (htf_timestamp.cpp), whose first timestamp they  *)
(* share without a lock.  What is stored of a time is how long it took to  *)
(* the next event: each thread of the process remembers the last event it  *)
(* recorded (timestampsToDelta), in whatever writer that was.  printTrace  *)
(* (apps/htf_print.cpp) reads what all writers left, and prints the event  *)
(* of the reader whose time, the sum of what it has read, is the least.    *)
(*                                                                         *)
(* What a writer leaves is the list of its events here: how they are       *)
(* folded and unfolded is the subject of TimedWriter and PrintTrace.       *)
(***************************************************************************)
EXTENDS Integers, Sequences, FiniteSets

CONSTANTS
  Thread,          \* the threads of the process
  NbWriters,       \* the writers, in the order of their threads in the archive
  MaxRecorded,     \* bound: the events of a writer
  MaxTime,         \* bound: the clock
  TimestampLimit   \* 2^64: a timestamp is an unsigned number

ASSUME BoundsAssumption ==
  NbWriters \in Nat /\ MaxRecorded \in Nat /\ MaxTime \in Nat \ {0}
ASSUME TimestampAssumption == TimestampLimit \in Nat /\ TimestampLimit > MaxTime

Writer == 1..NbWriters

None == "none"
ASSUME NoneAssumption == None \notin Thread

VARIABLES
  given,               \* whether the program passes times, or HTF_TIMESTAMP_INVALID
  now,                 \* the clock of the machine
  firstTimestamp,      \* 0 before it is set
  pc, writer, start, base,   \* of each thread: its call, with its variables
  pending,             \* of each thread: timestampsToDelta, of one event at most
  durations,           \* of each writer: of its events; what is pending is a timestamp
  closed,              \* the writers that were closed, and stored
  phase,
  position, referential_timestamp,   \* of each reader
  printed,             \* the events printed, each with its writer and timestamp
  taken, driver, setters, mixed   \* history, see below

clock == <<now, firstTimestamp>>
calls == <<pc, writer, start, base>>
readers == <<position, referential_timestamp, printed>>

\* What the code keeps no record of: the times of the events of each writer, the
\* thread that recorded its first one, the threads that set firstTimestamp, and
\* whether a writer was used by two threads or a thread used two open writers.
history == <<taken, driver, setters, mixed>>

vars == <<given, clock, calls, pending, durations, closed, phase, readers, history>>

NoAddress == [writer |-> 0, index |-> 0]

Init ==
  /\ given \in BOOLEAN
  /\ now = 1
  /\ firstTimestamp = 0
  /\ pc = [o \in Thread |-> "idle"]
  /\ writer = [o \in Thread |-> 0]
  /\ start = [o \in Thread |-> 0]
  /\ base = [o \in Thread |-> 0]
  /\ pending = [o \in Thread |-> NoAddress]
  /\ durations = [w \in Writer |-> <<>>]
  /\ closed = {}
  /\ phase = "recording"
  /\ position = [w \in Writer |-> 1]
  /\ referential_timestamp = [w \in Writer |-> 0]
  /\ printed = <<>>
  /\ taken = [w \in Writer |-> <<>>]
  /\ driver = [w \in Writer |-> None]
  /\ setters = {}
  /\ mixed = FALSE

-----------------------------------------------------------------------------
(* The program that is traced.                                             *)

\* A writer is not shared while a call is in it.
CanUse(o, w) ==
  /\ phase = "recording"
  /\ pc[o] = "idle"
  /\ w \notin closed
  /\ \A q \in Thread : pc[q] # "idle" => writer[q] # w

Mixes(o, w) ==
  \/ driver[w] \notin {None, o}
  \/ \E v \in Writer \ {w} : driver[v] = o /\ v \notin closed

NextMixed(o, w) == mixed' = (mixed \/ Mixes(o, w))

\* Thread o is about to store an event with writer w.
CanRecord(o, w, time) ==
  /\ CanUse(o, w)
  /\ Len(taken[w]) < MaxRecorded
  /\ time >= now

RememberEvent(o, w, time) ==
  /\ taken' = [taken EXCEPT ![w] = Append(@, time)]
  /\ driver' = [driver EXCEPT ![w] = IF @ = None THEN o ELSE @]
  /\ NextMixed(o, w)
  /\ UNCHANGED setters

\* What is written to the duration of a writer that was stored has no effect.
Assign(a, value) ==
  IF a = NoAddress \/ a.writer \in closed THEN durations
  ELSE [durations EXCEPT ![a.writer][a.index] = value]

\* storeTimestamp, htf_delta_timestamp: the event that the thread recorded last is
\* completed, and this one is pending.
StoreTimestamp(o, w, timestamp) ==
  LET a == pending[o]
      completed == IF a = NoAddress THEN durations
                   ELSE Assign(a, (timestamp - durations[a.writer][a.index]) % TimestampLimit)
  IN  /\ durations' = [completed EXCEPT ![w] = Append(@, timestamp)]
      /\ pending' = [pending EXCEPT ![o] = [writer |-> w, index |-> Len(durations[w]) + 1]]

\* htf_timestamp of a time that is given.
RecordGiven(o, w, time) ==
  /\ given
  /\ CanRecord(o, w, time)
  /\ now' = time
  /\ StoreTimestamp(o, w, time)
  /\ RememberEvent(o, w, time)
  /\ UNCHANGED <<given, firstTimestamp, calls, closed, phase, readers>>

\* htf_get_timestamp: the clock is read, ...
ReadClock(o, w, time) ==
  /\ ~given
  /\ CanRecord(o, w, time)
  /\ now' = time
  /\ writer' = [writer EXCEPT ![o] = w]
  /\ start' = [start EXCEPT ![o] = time]
  /\ pc' = [pc EXCEPT ![o] = "test"]
  /\ RememberEvent(o, w, time)
  /\ UNCHANGED <<given, firstTimestamp, base, pending, durations, closed, phase, readers>>

\* ... firstTimestamp is tested, ...
TestFirst(o) ==
  /\ pc[o] = "test"
  /\ base' = [base EXCEPT ![o] = firstTimestamp]
  /\ pc' = [pc EXCEPT ![o] = IF firstTimestamp = 0 THEN "set" ELSE "subtract"]
  /\ UNCHANGED <<given, clock, writer, start, pending, durations, closed, phase, readers, history>>

\* ... set if this was the first time, whatever other threads did meanwhile, ...
SetFirst(o) ==
  /\ pc[o] = "set"
  /\ firstTimestamp' = start[o]
  /\ base' = [base EXCEPT ![o] = start[o]]
  /\ pc' = [pc EXCEPT ![o] = "subtract"]
  /\ setters' = setters \cup {o}
  /\ UNCHANGED <<given, now, writer, start, pending, durations, closed, phase, readers,
                 taken, driver, mixed>>

\* ... and subtracted, as it was seen before or read once more: the threads are
\* not synchronised, and the build may do either.
SubtractFirst(o) ==
  /\ pc[o] = "subtract"
  /\ \E first \in {base[o], firstTimestamp} :
       StoreTimestamp(o, writer[o], (start[o] - first) % TimestampLimit)
  /\ pc' = [pc EXCEPT ![o] = "idle"]
  /\ UNCHANGED <<given, clock, writer, start, base, closed, phase, readers, history>>

\* threadClose: htf_finish_timestamp takes the thread's last event for the last
\* one of the writer, and a thread that has none reads an empty vector.
CloseWriter(o, w) ==
  /\ CanUse(o, w)
  /\ taken[w] # <<>>
  /\ IF pending[o] = NoAddress
     THEN phase' = "undefined" /\ UNCHANGED <<durations, closed>>
     ELSE /\ durations' = Assign(pending[o], 0)
          /\ closed' = closed \cup {w}
          /\ UNCHANGED phase
  /\ NextMixed(o, w)
  /\ UNCHANGED <<given, clock, calls, pending, readers, taken, driver, setters>>

-----------------------------------------------------------------------------
(* printTrace.                                                             *)

\* The writers that recorded anything were closed.  A reader begins at time 0.
OpenTrace ==
  /\ phase = "recording"
  /\ closed # {}
  /\ \A w \in Writer : taken[w] # <<>> => w \in closed
  /\ phase' = "printing"
  /\ UNCHANGED <<given, clock, calls, pending, durations, closed, readers, history>>

\* The readers that are not at the end of their threads.
Unfinished == {w \in Writer : position[w] <= Len(durations[w])}

\* Mutation: the reader that comes first.
IsFirstReader(w) == w \in Unfinished /\ \A v \in Unfinished : w <= v

\* The first of the readers whose time is the least.
IsEarliestReader(w) ==
  /\ w \in Unfinished
  /\ \A v \in Unfinished :
       \/ referential_timestamp[w] < referential_timestamp[v]
       \/ referential_timestamp[w] = referential_timestamp[v] /\ w <= v

\* getNextToken of htf_print, on an event, and print_token.
PrintNext(w) ==
  /\ phase = "printing"
  /\ IsEarliestReader(w)
  /\ printed' = Append(printed, [writer |-> w, index |-> position[w],
                                 timestamp |-> referential_timestamp[w]])
  /\ referential_timestamp' =
       [referential_timestamp EXCEPT ![w] = (@ + durations[w][position[w]]) % TimestampLimit]
  /\ position' = [position EXCEPT ![w] = @ + 1]
  /\ UNCHANGED <<given, clock, calls, pending, durations, closed, phase, history>>

EndOfTrace ==
  /\ phase = "printing"
  /\ Unfinished = {}
  /\ phase' = "done"
  /\ UNCHANGED <<given, clock, calls, pending, durations, closed, readers, history>>

-----------------------------------------------------------------------------

Record(o) ==
  \/ \E w \in Writer, time \in 1..MaxTime : RecordGiven(o, w, time) \/ ReadClock(o, w, time)
  \/ TestFirst(o) \/ SetFirst(o) \/ SubtractFirst(o)
  \/ \E w \in Writer : CloseWriter(o, w)

Next ==
  \/ \E o \in Thread : Record(o)
  \/ \E w \in Writer : PrintNext(w)
  \/ OpenTrace
  \/ EndOfTrace

Spec == Init /\ [][Next]_vars

-----------------------------------------------------------------------------
(* Properties.                                                             *)

TimeOf(p) == taken[p.writer][p.index]

\* The time of a printed event since the first event of its writer.
SinceStart(p) == TimeOf(p) - taken[p.writer][1]

\* One thread sets the first timestamp, and threads use one writer at a time and
\* do not share them.
Undisturbed == ~mixed /\ Cardinality(setters) <= 1

\* If nothing disturbs the times, then each event is printed with the time since
\* the first event of its own writer, all are merged in the order of these times,
\* in the end each writer's events were printed, all and in order, and every
\* writer could be closed.  Timestamps may wrap around in between.
MergedSinceStart ==
  Undisturbed =>
    /\ phase # "undefined"
    /\ \A i \in DOMAIN printed : printed[i].timestamp = SinceStart(printed[i])
    /\ \A i, j \in DOMAIN printed : i < j =>
         /\ SinceStart(printed[i]) <= SinceStart(printed[j])
         /\ printed[i].writer = printed[j].writer => printed[i].index < printed[j].index
    /\ phase = "done" =>
         \A w \in Writer : \A k \in DOMAIN taken[w] :
           \E i \in DOMAIN printed : printed[i].writer = w /\ printed[i].index = k

\* "Print all the events of all the threads sorted by timestamp" (printTrace),
\* when nothing disturbs the times.
PrintedInOrder ==
  Undisturbed =>
    \A i, j \in DOMAIN printed : i < j => TimeOf(printed[i]) <= TimeOf(printed[j])
=============================================================================
