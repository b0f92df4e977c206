# A TLA+ model of the Hierarchical Trace Format library

The library (`src/libraries/htf`) records what the threads of a program do.
Each thread compresses its own trace while it records it: a finished function
call becomes one token of its caller, and repetitions become loops. The trace
is written to an archive when the program ends and read back token by token.
This directory models that machinery in TLA+, checks the models with TLC on
small instances, and proves with TLAPS what can be proved for all of them.

Paths below are relative to `src/libraries/htf/` unless they begin with `src/`.

## 1. Inventory

| Component | State | Operations | Talks to |
|---|---|---|---|
| Thread writer (`src/htf_write.cpp`, `include/htf/htf_write.h`) | `og_seq[]`, `cur_depth`, the tables of its `Thread` | `open`, `htf_record_*` -> `storeEvent`, `recordEnterFunction`, `recordExitFunction`, `findLoop*`, `threadClose` | timestamps, archive, attributes |
| Thread trace (`include/htf/htf.h`, `src/htf.cpp`) | tables of events, sequences, loops; memoised token counts | lookups, `initThread`, `getTokenCount`, growth of the arrays | writer, reader, storage |
| Timestamps (`src/htf_timestamp.cpp`) | first timestamp (process), list of pending durations (thread) | `htf_delta_timestamp`, `htf_add_timestamp_to_delta`, `htf_finish_timestamp` | writer |
| Thread reader (`src/htf_read.cpp`, `include/htf/htf_read.h`) | call stack of tokens, indexes and iteration numbers; occurrence counters; current time | `getNextToken`, `moveToNextToken`, `enterBlock`, `leaveBlock`, `readCurrentLevel`, savestates | a finished trace |
| Archive (`src/htf_archive.cpp`, `include/htf/htf_archive.h`) | strings, regions, attributes, location groups, locations, threads, one mutex | `open`, `define*`, `add*`, `get*`, `close` | every writer of a process |
| Storage (`src/htf_storage.cpp`) | files; encodings of the vectors; the list of archives opened | `htf_storage_finalize*`, `htf_read_archive`, `htf_read_thread`, masking, histogram | archive, linked vectors |
| Linked vector (`src/htf_linked_vector.cpp`) | chain of fixed arrays | `add`, `at`, `[]`, `front`, `back`, iteration | durations everywhere |
| Attributes (`src/htf_attribute.cpp`, `include/htf/htf_attribute.h`) | byte buffer of lists per event | push, `storeAttributeList`, pop with a cursor | writer, reader |
| Parameter handler (`src/htf_parameter_handler.cpp`) | algorithm, maximum loop length, encodings | constructor | writer, storage |
| OTF2 interface (`src/libraries/otf2/src`) | arrays of writers and locations, a mutex | `GetEvtWriter`, `GetDefWriter`, `Write*`, `Close*` | archive, writers |
| Applications (`src/apps`) | one reader per thread | `htf_print` merges the threads by time; `htf_info` prints | reader |
| Hash, debug output | none | Murmur3; logging and abort | writer; all |

What is hard, component by component, and what makes each one correct:

- **Thread writer.** Single-threaded, but every call rewrites the structure the
  earlier calls left, so an error shows only after a long sequence of legal
  calls. Correct when the grammar always stands for exactly the events recorded,
  is acyclic and canonical, never folds across a function call, never rewrites
  what is finished, and leaves no repetition it is meant to find.
- **Timestamps and durations.** The durations of sequences are derived from
  durations that are themselves completed one event later. Correct when each
  duration is taken once and summed after it is known.
- **Thread reader.** Walks the grammar with an explicit stack. Correct when it
  yields the events that were recorded, once each, and ends; and when loading a
  savestate brings it back to where it was.
- **Archive, OTF2 interface.** Shared by all threads. Correct when registering
  and looking up are atomic with respect to the growth of the arrays and an id
  is registered once.
- **Storage.** Correct when what is read is what was written, and when opening
  a trace ends for any graph of sub-archives.
- **Linked vector, attributes, parameters.** Correct at their boundaries: full
  arrays, full buffers, missing files.

`PROJECT.json` lists these hazards at the lines where they bite.

## 2. Plan

In the order of what the program is for. Parts 1 to 5 are done, but for what
each lists as left.

1. **Writer**: `ThreadTrace`, `FilterLoops`, `ThreadWriter`, with the abstract
   specification `EventLog`, related by `UnfoldedTrace`, and the proofs in
   `ThreadWriterProofs`, `UnfoldingProofs` and `UnfoldedTraceProofs`.
2. **Reader**: `ThreadReader`, used by `PrintTrace` and `PrintThread`, the two
   ways in which `htf_print` reads a thread, over every trace that the writer can
   leave (`RecordedThread`), with the abstract specification `EventReplay` and
   the proofs in `HtfPrintProofs` and `RoundTripProofs`. Left: that reading ends for any thread (a
   measure on the call stack).
3. **Durations**: `Durations` and `TimedWriter`, which composes them with the
   calls of the writer, up to full tables. The promise is stated on the list of
   events: each has the time to the next one. `MergedTrace` adds the clock, several
   threads and writers, and the merge by time in `htf_print`.
4. **Archive and OTF2**: `OTF2Archive`, threads that register, define, look up
   and close, one step per critical section or unlocked access, with the proofs
   in `OTF2ArchiveProofs`.
5. **Storage and data structures**: `EventSummary` (linked vector, encodings,
   attribute cursor) and `OpenArchive` (files, the recursion that opens a trace).
   Left: where the parameters come from.
6. **Proofs**: of the writer and of its search, that the writer is lossless, of the
   reader's call stack, of the archive under several threads, of the merge by time,
   of opening a trace, and of `htf_print` on what a writer left, which joins writer
   and reader, up to what is printed being what was recorded, for even loops.

## 3. Modules and code

| Module | Models |
|---|---|
| `ThreadTrace` | tokens and tables of `htf.h`; `getSequenceIdFromArray`, `createLoop`, `addIteration`, `replaceTokensInLoop`, `findLoopBasic` |
| `FilterLoops` | `findLoopFilter` |
| `ThreadWriter` | `ThreadWriter::open`, the `htf_record_*` calls, `threadClose`; the properties |
| `EventLog` | what a writer promises: a list of events and a stack of open calls |
| `UnfoldedTrace` | the list of events that a grammar stands for; `ThreadWriter` implements `EventLog` |
| `MCThreadWriter` | the bound on the number of events for TLC |
| `MCFilterWriter` | the filtered search, after a pattern that was repeated |
| `ThreadWriterProofs` | theorems about `ThreadWriter`, and about what the basic searches leave behind |
| `UnfoldingProofs` | what tokens, blocks and tables stand for: lemmas about `UnfoldedTrace` |
| `UnfoldedTraceProofs` | theorems: the writer is lossless, and its counters are right |
| `ThreadReader` | `ThreadReader` and `Savestate` of `src/htf_read.cpp`: the cursor, the call stack, the counts, as functions |
| `PrintTrace` | `printTrace` and `getNextToken` of `src/apps/htf_print.cpp`, on one thread; the properties of the call stack |
| `PrintThread` | `print_thread` and `display_sequence` of `htf_print` with loops unrolled, over `readCurrentLevel` and savestates |
| `StoredThread` | a thread as `_htf_store_thread` leaves it in the archive, and what the reader relies on |
| `RecordedThread` | the writer, what it was given, how many durations its sequences have, and what it leaves in the archive |
| `EventReplay` | what reading back promises: the recorded events, in order, all of them |
| `HtfPrint` | `main` of `htf_print`: the writer and both ways to read composed; the end-to-end properties |
| `HtfPrintProofs` | theorems: what a writer stores is well-formed, `printTrace` on well-formed threads, and both joined |
| `RoundTripProofs` | theorems: `printTrace` prints what was recorded, all of it, if the loops are even |
| `Durations` | `htf_timestamp.cpp`, `getSequenceDuration`, `getTokenCount`, as functions of a ledger of durations |
| `TimedWriter` | the calls of `ThreadWriter` with the durations that they add and complete |
| `SequenceTimes` | where the sequences lie in the trace, and whether their durations are the times they took |
| `MCTimedWriter` | bounds and symmetry for TLC |
| `MergedTrace` | `htf_get_timestamp`, `timestampsToDelta` of several threads that use several writers, and how `printTrace` merges what they left |
| `MCMergedTrace` | symmetry for TLC |
| `MergedTraceProofs` | theorems about `MergedTrace` |
| `OTF2Archive` | `OTF2_Archive.c` with `ThreadWriter::open`, `Thread::initThread` and `Archive::defineLocation` below it, called by several threads |
| `MCOTF2Archive` | a bound on the number of calls for TLC |
| `OTF2ArchiveProofs` | theorems about `OTF2Archive` |
| `EventSummary` | `LinkedVector`, masking, histogram, the file of an event, the attribute cursor, as functions |
| `OpenArchive` | `_htf_store_event`, then `htf_read_archive` and all that it calls, then `getEventAttributeList` |
| `MCOpenArchive` | the traces for TLC |
| `OpenArchiveProofs` | theorems about `OpenArchive` |

**State.** `events`, `sequences` and `loops` are the tables of `struct Thread`;
`og_seq` and `cur_depth` those of `struct ThreadWriter`. Sequence 0 of the
code, the main sequence, is `og_seq[0]`; events and loops are numbered from 0
in the code and from 1 in the model. `status` says where the thread is in its
life: `threadClose` is a loop of several rewrites, so it has a state of its own.

**Data.** An event is a model value: the code compares events byte by byte, so
only equality matters. The hash of a sequence is left out because the code
compares the tokens after it. Times, durations and attributes are left out of
these modules.

**Actions.** A writer belongs to one thread, and the recursion shield drops
calls made from inside a call, so each `htf_record_*` call is one step:
`RecordBlockStart` (enter and the other begin events, at the depth they open),
`RecordSingleton`, `RecordBlockEnd`, and `RecordBlockStartTooDeep` for the call
that aborts the program in `htf_error`. Each includes the search for loops in
each frame it touches; a block end searches twice, for the event in the frame
that closes and for the token of the call in the frame below. A leave without an
enter is not an input: the code indexes `og_seq[-1]` then, and its callers pair
their calls. `ThreadClose`, `CloseUnfinished` and `FinalizeThread` are the
entry, a turn and the exit of `threadClose`; the exit writes the thread, and
`_htf_store_thread` aborts on one without events.

**Reading.** `thread`, `callstack` and `tokenCount` are the fields of
`struct ThreadReader`. `callstack` holds the frames in use as records, the three
parallel arrays of the code joined; the code's `current_frame` is its length less
one, and -1, the end of the trace, is the empty stack. Frames above
`current_frame` are never read, so leaving one drops it. `tokenCount` is total:
`get_value` and `operator[]` give 0 for what the map does not hold. Of the
durations only their number is kept (`nb_occurences`, `nb_durations`), because
`LinkedVector::at` ends the program past it. `progress` says how far the program
is: "aborted" is `htf_error` or a failed `htf_assert` (they are active in every
build of this repository, none defines `NDEBUG`), "overrun" a write past the
arrays of the call stack, after which nothing is known.

In `PrintTrace` one call of `getNextToken` is a step: `PrintEvent` reads an event
and moves on, `EnterToken` enters a sequence or a loop, the others are its ends.
In `PrintThread` the recursion of `display_sequence` is `levels`, one entry for
each call that has not returned, with what its loop has still to show: `Display`
is the entry of a call, which reads its whole level, `DisplayEvent` and
`DisplayBlock` a turn of its loop, `LeaveLevel` its return. An iteration of a loop
is shown like a sequence, so both are sequence items. `LoadSavestate` ends in
`UnknownFrame`: the memory that `memcpy` reads past a savestate. No step reads
that frame before a new one lies on it, so that one unreadable value stands for
any.

**From writer to reader.** `StoreThread` puts `WrittenThread` into `archive`, the
one variable that the two programs share; `PrintTrace` and `PrintThread` open any
thread that is there and never change it. `nb_durations` counts what `TimedWriter`
models in full: a sequence gets one duration with an iteration, two with a new loop
(`MeasureLoop`), one at the end of each block (`MeasureExit`).

**Durations.** `ledger` holds the duration vectors of events and sequences, and
`pending`, the list `timestampsToDelta`; an address in it is a table, an id and
an index. A duration that is pending is a timestamp, as in the code, where the
same word is first the one and then the other. `stamps` is what the model
remembers of the clock; the code keeps none of it. A `Timed...` action is the
action of `ThreadWriter` with what the same call does to the ledger: `storeToken`
first, which measures the blocks of a new loop (`MeasureLoop`), then the time of
the event, then, at a block end, the sequence (`MeasureExit`). `Earlier` is an
address left in the list by a writer that the same thread closed before.
`CreateLoop` and `AddEventDuration` also record in `crashed` that the program is
killed when a table is full: doubling the table of loops passes memory of `new[]` to
`realloc`, and the new half of the table of events has no duration vectors.
`createLoop` doubles before it looks whether it knows the loop, so that a full table
of loops admits not even another occurrence of a loop that is in it. `failed` is a
lookup past the end of a vector.

**Several threads.** `MergedTrace` leaves the folding to the modules before it:
what a writer holds is the list `durations` of its events. `pending` is the list
of one operating system thread, with the event that this thread recorded last, in
whatever writer. `htf_get_timestamp` takes four steps, because `firstTimestamp` is
shared without a lock: the clock, the test, the assignment, and the subtraction,
which may use the value tested or a new one. `given` programs pass times of their
own. A writer is never in two calls at once, but may go from thread to thread.
`CloseWriter` is `threadClose` with `htf_finish_timestamp`. `PrintNext` is
`getNextToken` of `htf_print` on an event, among all readers. `taken`, `driver`,
`setters` and `mixed` are what the model remembers and the code does not.

**The shared archive.** In `OTF2Archive` each process is a thread that calls the
library; `pc`, `kind`, `location`, `index` and `loaded` are the local variables of
its call. One step is one access to what threads share: taking and dropping
`archive->lock` and the lock of the archive below it, the `realloc` and the
assignment of `INCREMENT_MEMORY_SPACE`, the check for the thread id, and the two
reads of `return archive->evt_writers[i]`. `live` says whether the field of an
array points to memory in use, so that a buffer that `realloc` moved can be read
after it was freed. `writers` is one sequence for both arrays: a slot holds the
event writer and the definition writer of one location. A caller does what the
programs of the repository do: it keeps its writers, closes each once, and
defines locations from one thread. A location has 64 bits and is kept whole in
`locations`; as the id of a thread (`ThreadIdOf`) and as the id of the archive
(`GroupIdOf`) it is cut to 32.

**Files.** In `OpenArchive`, `layout` is the directory: which archives and which
thread files there are, and what they name. `file` is the file of one event,
with its encoded durations, the same in every thread. `stack` is the recursion
of the reader, whose functions call each other: `htf_read_archive` ("main"),
`_htf_read_archive` ("archive"), `_htf_get_archive` ("get"), `_htf_read_thread`
up to and after the archive it asks for ("thread", "tables"). `objects` are the
archives that were allocated, `archive_list` those that are in the list.
A byte has `ByteBase` values and a duration `WordBytes` bytes. An archive is `Missing`
if no file has the name that is looked up, for which the code has two reasons: there
is no file, or the id of the group is 2^31 or more, with which
`src/htf_storage.cpp:1017` writes a name (`%u`) that line 1064 does not look for (`%d`).
An archive of the latter kind can still be opened by its name, like any other.

**findLoopFilter** goes on with positions computed before it shortened the
vector. `FilterLoops` models the storage behind the vector (`memory`), so that
an unchecked read past the end returns what was last there, as in the build.
Where an old position no longer holds a loop, `getLoop` aborts (`FilterAborts`), and
the behaviours of `MCFilterWriter` end before that call.

## 4. Runs

The instances of the writer have one to three events beside calls: the algorithms
only compare tokens, and one caller with one kind of call in it already gives
frames, loops in frames and calls in loops. What counts is the *length*. Eight events
are enough for a loop of loops, for a loop in front of another occurrence of
itself, and for three different tokens twice, which the bound of 3 must leave
alone; the basic search, with longer bodies, writes the traces of `htf_print` and
`timed_writer`. `CHECK_DEADLOCK FALSE` in every configuration: a closed or aborted thread,
a closed archive and a trace that was read do nothing more.

| Run | Instance | Shows |
|---|---|---|
| `thread_writer` | truncated search, `maxLoopLength` 3, 8 events of two kinds and calls, depth 3 | the grammar is typed, acyclic, canonical; loops hold whole calls; no iteration and no repetition within it is missed, and whatever token comes next, the search has no choice of loops; counters match what the grammar unfolds to; it refines `EventLog`; history is final; closing ends |
| `writer_filter` | filtered search, one frame, a pattern of 8 events twice and then 6 events of three kinds | the counters do *not* match what the grammar unfolds to (expected violation) |
| `htf_print` | basic search, 9 events, depth 3, call stack of 4; up to 8 events for `print_thread` | what is stored is well-formed; the call stack is a path that descends, and is overrun only on threads of 2 sequences or more; traces with even loops come back in order and whole, and only others make `printTrace` abort; `print_thread` shows the events in order and whole with even loops, or loops in the main sequence only, and never asks for what was not stored |
| `print_trace_loops` | 7 events | a loop whose occurrences differ is *not* read back (expected violation) |
| `print_thread_counts` | 7 events | the occurrence numbers of the events are *not* in order (expected violation) |
| `timed_writer` | basic search, 9 events of up to 4 kinds, depth 3, tables of 3 events and 2 loops, 0 or 2 ticks between events, at most once 0 | events keep their times through every rewrite; a sequence has one duration per occurrence; no lookup leaves its vector, and only full tables kill the program; only the last event's duration and those that end with it are pending; calls without calls or loops are measured right |
| `timed_sequences` | the same, always 2 ticks | the durations of a sequence folded into a loop are *not* the time it took (expected violation) |
| `merged_trace` | 2 threads, 2 writers, 3 events each, 3 times, timestamps below 5 | unless two threads set the first timestamp, or writers are mixed, each event is printed with the time since the first one of its writer, all are merged by these times, and all are printed |
| `merged_order` | the same, 2 events each | events of different threads are *not* printed in the order of their times (expected violation) |
| `otf2_archive` | 2 threads, locations 0, 2, 4 with ids of 4 values, 3 calls | the locks exclude; a location has one slot; nobody gets another's writer; files name their archive; aborts are the callers' fault; every call returns |
| `otf2_writers_race` | the same | a caller may get what it reads in freed memory (expected violation) |
| `open_archive` | 2 threads, 2 location groups, every arrangement of files, every setting; up to 3 occurrences in one arrangement, 1 in the others | durations and attribute lists come back; each thread is loaded once; archives are listed once and the list is not overrun, unless a group has its own locations; opening ends |

In `writer_filter` the warm-up leaves a loop whose body holds a loop; the
counterexample is its third repetition, which is recorded up to `c a b a b`.

The reader's runs begin with the writer's: TLC records every trace up to the
bound, closes it and reads it. Nine events are enough for two loops of calls with
an event between them, a loop in a call that is itself repeated, and a loop with
two occurrences of different lengths (2 + 1 + 3 events). A call stack of
four frames makes the overrun happen within that bound; it is 100 where a
violation is expected, so that the counterexample owes nothing to it.

Nine events with a clock that moves by 0 or 2 are enough for a call that is
folded into a loop, a loop that is absorbed in another frame, and a duration of
zero before, in and after both; ticks of one size are enough because durations
are only added and subtracted. With tables of 3 and 2 entries (1000 each in the code) a fourth
kind of event finds its table full, and so does every loop that is made, known or
new, once there are two. Three times
are enough for a thread that reads the clock before another sets the first
timestamp, whose timestamps then wrap around at 5 (2^64 in the code), and for two
events of one writer around one of the other. In `otf2_archive` the locations 0 and 4 share a
thread id, as locations do that differ by 2^32; as first locations both give the
archive the id 0, which is also the id of an archive without a location; and with
three calls one thread can look a slot up, another add two,
and the array move twice. In `open_archive` a byte has 4 values and a duration 3
bytes, so that the durations 0, 1, 6 and 21 take 0 to 3 bytes; arrays of 2
elements make the third occurrence open a new one.
Location groups with no file, threads with no file, groups with locations of
their own, and groups that name themselves are all among the arrangements.

**Properties.** `TraceIsLossless` is the refinement of `EventLog`: the grammar,
unfolded, is the list of all events recorded so far, after every call, and the
open frames are the open calls. The k-th time a loop is met while unfolding, it
has the k-th number of iterations: all occurrences of a loop, in all sequences,
share one vector in the order in which they happened, which works only because
a rewrite never touches any number but the last (`HistoryIsFinal`).
`ReferencesGoDown` is what makes every reader end. `EveryBlockHasOneToken` is
what makes the comparison of tokens a comparison of events. `LoopsRespectBlocks`
says that a loop never holds half of a call. `NoIterationLeftBehind` and
`NoRepeatLeftBehind` say that what the order of the search prefers never hides
a longer loop, and `OneLoopAtATime` that there is nothing to prefer: of the loops
that could end with the next token there is never more than one.

`ClosingEnds` says that a thread closed at any depth closes all its blocks.

`PrintsAllOfEvenTraces` and `DisplaysAllOfTheTrace` are refinements of
`EventReplay`: the printed events are mapped to what was recorded. A thread for
which the code does not keep the promise (uneven loops) is mapped to a replay
that never begins, and an overrun of the call stack to one that is lost; the other
properties of the run say when these may happen. `CallstackIsPath`,
`CallstackDescends` and `OverrunsOnlyDeepThreads` are about the reader's stack of
fixed size, which `enterBlock` fills without a check. `StoredThreadsAreWellFormed`
is what joins the writer to the reader: the code of the reader rests on it without a
check.
`AbortsOnlyOnUnevenLoops` and `NeverAborts` say that the program does not die of a
missing duration, `DoneWithAllEvents` that the call stack does not run out before the
trace does.

`EventDurationsExact` is the promise of the durations: the reader adds them up
to tell when an event happened. `DurationPerOccurrence` lets the reader take the
k-th duration for the k-th occurrence; `LeafCallsExact` is what is left of the
promise for sequences (see the findings). `FailsOnlyOnFullTables` says that
measuring, with its memoised counts, never asks for a duration too many.
`MergedSinceStart` holds the whole way of a time, from the clock to the printed
line, with other threads in between; its condition names the two ways in
which it fails. `OnlyTheLastIsPending` is why
completing all that is pending is right: the list begins with the duration of that
event, or with an address that another writer left, and holds nothing but durations
that end when the event does.

`NeverAnothersWriter` is what the callers of `GetEvtWriter` rest on although it
reads the array outside the lock. `OneThreadPerLocation` needs the lock around
the search, the check of the thread id and the new slot together.
`ThreadsFindTheirArchive` relates the files of threads that were closed at
different times to the id that the archive has at last; its exception is a first
location whose id, cut to 32 bits, is 0. `AbortsOnlyOnMisuse` says that the check for
the thread id never finds the thread of the same location, only that of another one
with the same id. `EveryThreadOnce` says
that although archives read threads and threads read archives, each thread comes
with its tables and with the archive that its file names.

**Fairness.** `thread_writer` assumes that `CloseUnfinished` and
`FinalizeThread` are weakly fair, because `threadClose` is a plain loop in the
calling thread. `htf_print` and `print_trace_loops` assume it of
`GetNextToken` and `DisplaySequence`: `htf_print` is one thread that loops, or
recurses, without waiting for anything. `open_archive` assumes it of `OpenStep`
for the same reason. `otf2_archive` assumes it of `CallStep`, for each process: a
thread inside a call of the library keeps running, and its only way to wait is a
mutex; weak fairness suffices for that because the steps with a lock held are
never disabled by others and the number of calls is finite. Recording is never fair: a thread may
stop at any time, and a trace need not be printed.

**Findings.** Six have a run that TLC ends with a counterexample.

- `findLoopFilter` (`src/htf_write.cpp:280`) folds a repetition and then compares,
  at positions collected before, what it has just taken down with the body of an
  older loop. In `c a b a b`, after a loop of `c abab b ab`, it folds `ab ab` and
  then absorbs a whole iteration: 24 events are counted where 21 happened.
- `isEndOfLoop` (`src/htf_read.cpp:116`) ends every occurrence of a loop after as
  many iterations as its *last* occurrence had. `find_loop.c:112` builds such a
  trace. `printTrace` then prints events that were not recorded there, or aborts.
- `readCurrentLevel` (`src/htf_read.cpp:384`) does not count the sequences of a
  level nor what is in them, against `include/htf/htf_read.h:104`: events after a
  call are shown with the time and attributes of earlier ones.
- `replaceTokensInLoop` (`src/htf_write.cpp:167`) measures the two blocks of a new
  loop from the ends of the duration vectors, so that the first gets the durations
  of the second, and does so before the time of the last event is stored; only the
  second is completed later. The durations of nested sequences and of zero ticks
  (`if (!startingDuration)`, `src/htf_timestamp.cpp:30`) go wrong in the same way.
  `operator*` on the counts (`include/htf/htf.h:231`) returns none of the
  products it is said to compute; to repair it alone would make the lookups
  of `getSequenceDuration` leave their vectors (`FailsOnlyOnFullTables`).
- `OTF2_Archive_GetEvtWriter` and `OTF2_Archive_GetDefWriter`
  (`src/libraries/otf2/src/OTF2_Archive.c:224`) read the array after the lock was
  dropped; another thread may have moved it.
- `printTrace` is to print the events "sorted by timestamp"
  (`src/apps/htf_print.cpp:288`), but the time of a thread's first event is not
  stored, and every reader begins at 0 (`src/htf_read.cpp:29`): threads are merged
  by the time since each one's own start.

**Seen while modelling**, in definitions rather than in a run:

- `findLoopBasic` runs while `loopLength < maxLoopLength`, so it never tries the
  length that its documentation (`src/htf_write.cpp:187`,
  `include/htf/htf_parameter_handler.h:102`, `src/README.md:58`) calls the maximum
  (`LoopLengths`; `NoRepeatLeftBehind` goes up to the length before it).
- Doubling the table of loops or of events kills the traced program (`CreateLoop`,
  `AddEventDuration`).
- Two threads may both set the first timestamp (`SetFirst`); the times of the one
  that saw the other's wrap around or jump.
- The list of pending durations is of the operating system thread: one that
  alternates between two open writers completes the durations of the one with the
  times of the other, and one that closes a writer without having recorded anything
  reads an empty vector (`CloseWriter`).
- `Savestate` (`src/htf_read.cpp:404`) copies one frame too few, and
  `loadSavestate` reads past what was copied; it harms no caller.
- The histogram divides by a step that is 0 when the durations lie closer than 255
  (`StoreCrashes`), and reads with another step than it wrote with.
- The attribute lists are compressed at the level of ZSTD whatever the algorithm
  is, which aborts under the histogram (`StoreAborts`), and decompressed from a
  buffer that was never written (`src/htf_storage.cpp:595`, `ReadIsUndefined`).
- `getEventAttributeList` fails for an occurrence without a list if others of the
  same event have one (`ReadOccurence`).
- An archive that is not the main one cannot be opened if it has locations or
  groups (`TakeLocationFails`, `TakeGroupFails`). An archive of a group that has
  its own locations is listed twice, and the list is written past its end.
- A thread that is closed while its archive has the id 0, which the first location
  gives it if it is 0 or a multiple of 2^32 (`src/libraries/otf2/src/OTF2_Archive.c:175`),
  names that archive though the id is replaced later (the exception in
  `ThreadsFindTheirArchive`).
- `findLoopFilter` hands `getLoop` a token that may not be a loop any more
  (`FilterAborts`).

**Mutants.** Beside some definitions stands a mutated form ("Mutation of ..."),
what a plausible slip in that code would make of it. Put in the place of the
definition, it makes the property that `PROJECT.json` names for it fail.

## 5. Proofs

`ThreadWriterProofs` proves, for every set of events, every depth, every
`maxLoopLength` and traces of every length, under `ASSUME Algorithm # "Filter"`
and the assumptions of the modules (the three kinds of events are disjoint,
`max_depth` is positive):

| Theorem | Property |
|---|---|
| `TypeCorrect` | `[]TypeOK`; no frame past the last is ever indexed |
| `GrammarIsAcyclic` | `[]ReferencesGoDown` |
| `TokensAreCanonical` | `[]EveryBlockHasOneToken` |
| `OccurrencesRepeat` | `[]LoopsRepeat` |
| `TruncationBoundsBodies` | `[]BodiesStayShort`: no loop has a body of `maxLoopLength` tokens or more |
| `BlocksStayWhole` | `[]LoopsRespectBlocks` |
| `HistoryFinal` | `HistoryIsFinal` |

**The argument.** None of these is inductive alone. That a loop is typed needs
that the search never reads a dangling token; that needs acyclicity; that a
block end finds no loop in the frame it closes (so that the frame still begins
with the event that opened it) needs that the bodies of all loops are flat. So
one invariant, `IInv`, is proved: `TypeOK`, and for every frame `GoodFrame` (the
tables and the tokens seen from it: every reference goes down, no copies, flat
bodies, short bodies, counts of two or more) and `FrameShape` (where begin and
end events may be).

The proof follows the code. `Rewrites(g, h)` says that a rewrite of a grammar g
into h keeps it good, only grows the tables, and keeps the head of the frame.
`AbsorbRewrites` and `FoldRewrites` prove it of the two rewrites,
`FindRewrites` of the search, `StoreRewrites` of `storeToken`, `ExitRewrites` of
`recordExitFunction`; `EndFindsNothing` is the lemma about block ends. Then one
lemma per action, and `NextKeeps`.

It goes on from there, for the searches that go by length (`Algorithm` is "Basic"
or "BasicTruncated"):

| Theorem | Property |
|---|---|
| `IterationsAreAbsorbed` | `[]NoIterationLeftBehind` |
| `RepeatsAreFolded` | `[]NoRepeatLeftBehind` |
| `SearchHasNoChoice` | `[]OneLoopAtATime` |

The invariant, `NInv`, says more than the properties: in the frames *and* in the
stored sequences, at *every* position, no loop is followed by its body and no
repetition ends in anything but a loop; and no body of a loop is empty or ends with
a loop. It is needed everywhere because a rewrite uncovers older tokens, and of
stored sequences because what a frame holds becomes one. `NothingFoundIsNeat`, `AbsorbIsNeat` and
`FoldIsNeat` prove it of the three outcomes of a search, `ExitIsNeat` of a block
that becomes a sequence. The search has no choice because of two loops that end
with one token the shorter would already show in the older tokens (`OneRepeat`,
`OneIteration`, `NoIterationAndRepeat`), or in a body that is stored, or a loop
would hold itself, which acyclicity excludes.

`UnfoldedTraceProofs` proves of the same searches, for every set of events, every
`maxLoopLength`, every depth and traces of every length:

| Theorem | Property |
|---|---|
| `Lossless` | `TraceIsLossless`: `ThreadWriter` implements `EventLog` |
| `CountersMatch` | `[]CountersMatchUnfolding` |

**The argument.** In `UnfoldedTrace` a token stands for a function on `Progress`:
what was read so far, the iterations that each loop has left, and how often each
sequence was entered. A block is one function after the other, and the meaning of a
sequence is a recursive function of its number, which exists because tokens refer to
earlier sequences only (`MeaningsExist`). What is to be shown of every reading cannot
be proved by induction over the tokens with the library's theorems, which take an
operator; it is proved of a *set* of functions. `Closed(G, L)` says that G holds the
events and is closed under running in a row, entering a sequence, and repeating in a
loop of L; over acyclic tables every reading then lies in G (`BlockInClass`,
`TableInClass`), by an induction over sets of numbers (`SetInduction`). Three such
sets do the work: the readings that leave the counts of a loop alone, those that
give no loop back a count, nor make a reading that met an invalid token clean
(`Spent`), and those that, of two
progresses which differ in the last counts of one loop and the entries of one
sequence, make two that differ in the same way (`Twins`).

With them, `AbsorbReads` and `FoldReads` show that the two rewrites of the search
replace what they take from the frame by something that reads the same events,
uses up the same counts, and enters the sequence of the body once or twice more
(`More`). This needs `IInv` and that all counts of a loop are used up by what came
before (`Exact`): the number that a rewrite adds or raises must be the one
that the reader takes last. `FindReads`, `StoreReads` and `CloseReads` follow
`storeToken` and `recordExitFunction` with all frames below (`Under`), and
`NextReads` the actions. The invariant is `IInv` with `LInv`: the
unfolding is clean, all counts are used, every sequence is entered, and each event
occurs as often as it is counted. For the refinement the same lemmas say that the
ids of the unfolding only grow by what was recorded; `LogBefore` and `LogAfter` give
the list, `BlocksAppend` and `BlocksFront` the stack of open calls, and one lemma per
action (`BlockStartRefines`, ...) the step of `EventLog`: a turn of `threadClose` unwinds the
stack of calls and records nothing, and the abort at the depth limit stops the log.

`HtfPrintProofs` proves of `ReaderSpec`, for every `MAX_CALLSTACK_DEPTH` above 0 and
every archive of well-formed threads (`StoredThreadsAreWellFormed`), even and uneven
loops alike:

| Theorem | Property |
|---|---|
| `ReaderTypeCorrect` | `[]ReaderTypeOK` |
| `StackIsPath` | `[]CallstackIsPath` |
| `StackDescends` | `[]CallstackDescends` |
| `StackIsDeepEnough` | `[]OverrunsOnlyDeepThreads` |

The invariant is `GoodStack`: every cursor is on a token, each frame reads the
block under the cursor below it, sequences get older up the stack, and frame k
lies no higher than the sequences newer than its own leave room for. The last
part is what bounds the depth; it needs the exact order of loops and bodies, two
frames for one sequence. `AdvanceKeeps` proves it of a cursor that moves within
its block, `MoveKeeps` of `moveToNextToken` (from `Greatest`, which finds the
frame where the recursion stops), `EnterKeeps` of `enterBlock`; then one lemma per
action.

It then joins the writer to the reader, and proves of `PrintSpec`, the whole of `htf_print` after a writer, with no assumption on the archive, for every
set of events, `maxLoopLength`, depth and length of a trace, under
`ASSUME SearchByLength` (`Algorithm # "Filter"`):

| Theorem | Property |
|---|---|
| `WrittenThreadsAreReadable` | `[]StoredThreadsAreWellFormed` |
| `ReadBackTypeCorrect` | `[]ReaderTypeOK` |
| `ReadBackIsPath` | `[]CallstackIsPath` |
| `ReadBackDescends` | `[]CallstackDescends` |
| `ReadBackIsDeepEnough` | `[]OverrunsOnlyDeepThreads` |

Acyclicity of the writer is not enough for this: the reader also enters each
sequence without looking whether it is empty, takes the last number of iterations
of each loop, and looks durations up by sequence. `RInv` therefore adds to `IInv` that no sequence is empty and no loop is without an
occurrence (`SoundTables`), that each sequence has its vector of durations
(`Measured`), and that a main sequence with nothing above it is not empty once there
are events. `AbsorbSound` and `FoldSound` prove it of the two rewrites, `StoreSound`
of `storeToken`, `ExitSound` of `recordExitFunction`; `WrittenIsWellFormed` gets
the rest from `ReferencesGoDown`. `PrintInv` is `RInv` with the invariant of the
reader, and `RecordStep`, `ReadStep` and `DisplayStep` are the three kinds of steps.

`RoundTripProofs` joins this to what `UnfoldedTraceProofs` says of the grammar, and
proves of `PrintSpec`, under the same assumptions:

| Theorem | Property |
|---|---|
| `PrintsInOrder` | `EvenReplay!Spec`, the safety part of `PrintsAllOfEvenTraces` |
| `EvenTracesDoNotAbort` | `[]AbortsOnlyOnUnevenLoops` |
| `PrintsEverything` | `[]DoneWithAllEvents` |

**The argument.** The unfolding of the trace is a function of tables and tokens; the
reader is a cursor on a stack of frames. What relates them is the list of the tokens
that the stack has still to read (`Ahead`): the token under the cursor, then what
follows it in the block of each frame, from the top down. `MoveAhead` shows that
`moveToNextToken` goes on with the rest of this list, however many blocks it leaves
at once, and `EnterAhead` that `enterBlock` puts the tokens of the block in front of
the rest. On the side of the unfolding, `ReadOnEvent`, `ReadOnSequence` and
`ReadOnLoop` show what reading the first token of a list does: a loop is its body as
often as its next count says. The two agree because the reader takes the *last* count of
a loop for each of its occurrences, and `HasEvenLoops` makes them all the same
(`EvenCounts`). The relation, `Replaying`, says that there is a progress p that has met the
events printed, that reading the list from p ends where the whole trace ends, and that
`tokenCount` counts what p has (`Counts`). `EventIsNext`, `SequenceIsNext` and
`LoopIsNext` keep it, and conclude that the occurrence asked for exists: p only grows
(`GoneOn`), the whole trace has as many of each token as the writer stored
(`Stores`), so that what p has yet to read is there. That the writer stored as many *durations of a
sequence* as the trace enters it is a fact of the writer that no one had stated
(`Tallied`): `FindTallies` and `ExitTallies` follow the durations that `storeToken`
and `recordExitFunction` add, one with an iteration, two with a new loop, one with a
call, along the rewrites, which enter the sequence as much more often (`FindGains`,
`ExitGains`). The invariant is `RoundInv`: `PrintInv`, `Recorded` of the writer and
its archive, and `Reopened` of the reader.

`OTF2ArchiveProofs` proves, for any number of threads, any set of locations, any
width of an id and any location group:

| Theorem | Property |
|---|---|
| `TypeCorrect` | `[]ArchiveTypeOK` |
| `LocksExclude` | `[]MutualExclusion` |
| `LocationsAreDistinct` | `[]OneThreadPerLocation` |
| `WritersAreNotSwapped` | `[]NeverAnothersWriter` |
| `ArchiveIsFound` | `[]ThreadsFindTheirArchive` |
| `AbortsAreMisuse` | `[]AbortsOnlyOnMisuse` |

That two slots never share a thread needs that the slots and the threads of the
archive below agree at every step of `new_location` (`SlotsMatchThreads`), that
the search found nothing (`NothingFound`), and that only the holder of the lock
is at those steps (`HeldLocks`). That an index taken with the lock is still right
without it needs that slots are never changed (`IndicesAreRight`). The id of the
archive is that of its first location until the group replaces the id 0
(`IdOfFirstLocation`, `FilesNameTheArchive`). The thread that a check finds is
that of another location, because the search before it found no slot (`FoundIsAnother`). `IInv` is the conjunction; one lemma
per action (`AcquireKeeps`, ..., `CloseArchiveKeeps`) and `NextKeeps` prove it.

`MergedTraceProofs` proves `TimesSurvive`, `[]MergedSinceStart`, for any number of
threads, writers and events and any width of a timestamp that the clock does not
reach. Its `IInv` says what each stored number is while `Undisturbed` holds: all
durations of a writer but the last are the distances of the times that its events
were given (`DurationsInv`); the last one is the time since the first timestamp,
modulo the width, and pending in the one thread that drives the writer
(`DriversInv`); and each step of `htf_get_timestamp` has read a clock that is no
earlier than the first timestamp (`CallsInv`, `FirstInv`). The wrap-around of a
thread that sees another's first timestamp is thus shown to need two setters. When
printing, each reader stands at the time of its next event since the first of its
writer, and what was printed is in the order of these times (`ReadersInv`).

`OpenArchiveProofs` proves, for every arrangement of files (any number of groups,
locations and threads, groups that name themselves or each other), every setting
and any number of occurrences:

| Theorem | Property |
|---|---|
| `ThreadsAreReadOnce` | `[]EveryThreadOnce` |
| `ListIsExact` | `[]ArchivesAreListedOnce` |
| `ListsAreFound` | `[]AttributesAreFound` |
| `DurationsSurvive` | `[]DurationsAreRead` |

The assumptions are `LayoutAssumption`: what a file names belongs to the trace, though
its own file may be missing; and `DurationAssumption`: a duration is a word, of any
number of bytes and any number of values of a byte (`SizesAssumption`). Most of `IInv` is about the recursion. `StackOK`: which
function may have called which, and that what the loop of a frame has passed is
loaded. `PendingOK`: whatever is read but not finished (an archive with locations to
load, a thread without its archive or its tables) is on the stack, so that at the
end nothing is. `ListOK`: unless a group has locations, nothing else happens to the
list between the check for room and the archive that is put in it. `SummaryInv` and
`CursorInv`: the attribute lists are in the order of the occurrences, and those
before the cursor belong to occurrences that were read. `DeliverOK`, `NewThreadOK`,
`NewArchiveOK`, `ReturnOK` and `TablesOK` prove it of what a call does to the stack,
then one lemma per action.

That durations survive needs only a little more of the state (`DurationsInv`: each
SubVector starts where the one before it ends, and what was stored was stored without
a division by zero), and more of the operators. `WordIs`: the first bytes of a number
make the number up to what they can hold, by induction over the bytes; `BytesAreRead`:
bytes that are wide enough for all values are cut again where they were joined;
`MaskIsWide`: the mask of `_htf_masking_encode` is wide enough; `AtIs`: `at` finds
every position, where `writeToFile` finds it; `HistogramIsRead`: the reader's step is
at most the writer's, so no value is raised. The proof shows that the wrong divisor
of `_htf_histogram_read` (256 for 255) does not break what is promised.

**Only model-checked.** `PrintThread`: that it shows every event (under savestates
that are partly restored) and never aborts. Of the filtered search nothing is proved, because the
counters fail (see the findings). The durations of a thread, and those of its
sequences (the token counts and the spans are recursive). All liveness: `ClosingEnds`,
`CallsReturn`, `OpeningEnds`, and that the two replays get to their ends.

## 6. Not modelled

- **Reader**: attribute lists in `htf_print`, the option `NoTimestamps`, under
  which no duration is looked up, the options of `htf_print` that show loops once,
  and the library's own `getNextToken`, which nothing in the repository calls.
  Times and call stacks are in modules of their own: `MergedTrace` reads lists of
  events, `PrintTrace` one thread without its times.
- **Tables**: what happens after the growth of the tables of events or of loops
  has failed, which is undefined. The table of sequences grows without harm.
- **Main archives with threads of their own**, whose number the reader takes from the
  file of the main archive before it has read any of them (`src/htf_storage.cpp:1107`,
  used at 1183). No program here writes one: thread writers are opened on another archive.
- **Archive**: strings, regions, attribute definitions and location groups are
  lists that are appended to under the lock and searched by id.
- **Attributes**: the bytes of a list, which are pushed and formatted by type.
- **Parameters**: where a setting comes from. A missing configuration file makes
  the constructor return before it reads the environment.
- **OTF2 interface**: the 42800 lines of `src/libraries/otf2` are, but for the
  archive, `OTF2_EvtWriter.c`, `OTF2_DefWriter.c` and `OTF2_GlobalDefWriter.c`,
  declarations with their documentation, and functions that only call
  `NOT_IMPLEMENTED`; there is no behaviour in them to model. The event functions
  fill in an event and call the writer; the definition functions fill in a table.
  This is why the lines modelled are a small part of all the lines there are, and
  about half of those of the library itself.
- The hash (its value decides nothing), logging and formatting, `htf_info`, the
  file system, and the external compressors (zstd as the identity on bytes; sz
  and zfp not at all).
