---------------------------- MODULE OpenArchive ----------------------------
(***************************************************************************)
(* A trace on disk, written by one run of a program and read by another:   *)
(* the main archive, the archives of the location groups, and the files of *)
(* the threads (htf_storage.cpp).                                          *)
(*                                                                         *)
(* The program records an event (EventSummary) and stores it with each     *)
(* thread.  htf_read_archive then reads the main archive, which reads the  *)
(* threads of its locations, which read the archives they belong to, which *)
(* read the threads of their own locations, and so on: the calls are on    *)
(* the stack, one step is what happens between two of them.  At last the   *)
(* occurrences of the event are read with their attributes.                *)
(*                                                                         *)
(* A file holds what matters to its readers.  Main is the id               *)
(* HTF_MAIN_LOCATION_GROUP_ID.  The file of the main archive says that no  *)
(* thread was recorded with it: the programs and the OTF2 interface open   *)
(* their thread writers on another archive.                                *)
(***************************************************************************)
EXTENDS EventSummary

CONSTANTS
  Main, Missing,
  Layout,      \* the traces: [archives : id -> [locations, groups] or Missing,
               \*              threads : ThreadId -> the id of its archive, or Missing,
               \*              max_occurences : a bound on the occurrences recorded]
               \* An archive is Missing if no file has the name that is looked up:
               \* there is none, or the id has the top bit set and was written
               \* with %u and is looked up with %d.
  Duration     \* the durations of an occurrence

\* What a file names is a location or a location group of the trace, though the
\* file of that one may be missing.
ASSUME LayoutAssumption ==
  \A l \in Layout :
    /\ l.max_occurences \in Nat
    /\ \A t \in DOMAIN l.threads : l.threads[t] # Missing => l.threads[t] \in DOMAIN l.archives
    /\ \A g \in DOMAIN l.archives : l.archives[g] # Missing =>
         /\ l.archives[g].locations \in Seq(DOMAIN l.threads)
         /\ l.archives[g].groups \in Seq(DOMAIN l.archives)

\* A duration is a word.
ASSUME DurationAssumption == Duration \subseteq 0..(Weight[WordBytes] - 1)

VARIABLES
  layout, opened,          \* the trace, and the id of the archive that is opened
  settings,                \* the algorithms in use
  summary,                 \* the event as it was recorded
  file,                    \* its file in the directory of each thread
  phase,
  stack,                   \* the calls under way in the reader
  objects,                 \* the ids of the archives read; the first was opened
  threads,                 \* the threads of the main archive; the one event of each,
                           \* once its tables were read
  archive_list, nb_allocated_archives,   \* its archives; the size of that array
  overrun,                 \* whether an element was written outside the array
  cursor, results          \* the reader's place in the attributes; what it returned

disk == <<layout, opened, settings, summary, file>>
reader == <<objects, threads, archive_list, nb_allocated_archives, overrun>>
replay == <<cursor, results>>
vars == <<disk, phase, stack, reader, replay>>

Init ==
  /\ layout \in Layout
  /\ opened \in {g \in DOMAIN layout.archives : layout.archives[g] # Missing}
  /\ settings \in Settings
  /\ summary = EmptySummary
  /\ file = Missing
  /\ phase = "recording"
  /\ stack = <<>>
  /\ objects = <<>>
  /\ threads = <<>>
  /\ archive_list = <<>>
  /\ nb_allocated_archives = 1
  /\ overrun = FALSE
  /\ cursor = 1
  /\ results = <<>>

-----------------------------------------------------------------------------
(* The program that is traced.                                             *)

\* ThreadWriter::storeEvent.
RecordOccurence(d, attributed) ==
  /\ phase = "recording"
  /\ Occurences(summary) < layout.max_occurences
  /\ summary' = StoreOccurence(summary, d, attributed)
  /\ UNCHANGED <<layout, opened, settings, file, phase, stack, reader, replay>>

\* Thread::finalizeThread stores the event.  Then the reader is started, and
\* htf_read_archive reads the archive it is given.
StoreThreads ==
  /\ phase = "recording"
  /\ Occurences(summary) > 0
  /\ IF StoreAborts(summary, settings) \/ StoreCrashes(summary, settings)
     THEN /\ phase' = "store failed"
          /\ UNCHANGED <<file, stack, objects>>
     ELSE /\ phase' = "opening"
          /\ file' = EventFile(summary, settings)
          /\ objects' = <<opened>>
          /\ stack' = << [fn |-> "main", next |-> 1], [fn |-> "archive", object |-> 1, next |-> 1] >>
  /\ UNCHANGED <<layout, opened, settings, summary, threads, archive_list,
                 nb_allocated_archives, overrun, replay>>

-----------------------------------------------------------------------------
(* The reader opens the archive.                                           *)

Top == Last(stack)
Caller == Front(stack)
Running(fn) == phase = "opening" /\ Top.fn = fn

ArchiveFile(object) == layout.archives[objects[object]]

\* There is a global archive if the one that is opened is the main one.
HasGlobalArchive == opened = Main

Loaded(t) == \E i \in 1..Len(threads) : threads[i].id = t

Advance(s) == [s EXCEPT ![Len(s)].next = @ + 1]

Fail(reason) ==
  /\ phase' = reason
  /\ UNCHANGED <<disk, stack, reader, replay>>

\* Mutation: the thread is read again.
TakeLocationAgain ==
  /\ Running("archive")
  /\ Top.next <= Len(ArchiveFile(Top.object).locations)
  /\ HasGlobalArchive
  /\ LET t == ArchiveFile(Top.object).locations[Top.next] IN
       /\ layout.threads[t] # Missing
       /\ Len(threads) < 4
       /\ threads' = Append(threads, [id |-> t, archive |-> 0, events |-> <<>>])
       /\ stack' = Append(Advance(stack), [fn |-> "thread", slot |-> Len(threads) + 1])
  /\ UNCHANGED <<disk, phase, objects, archive_list, nb_allocated_archives, overrun, replay>>

\* The loop over the locations in _htf_read_archive, and htf_read_thread: a
\* thread gets its slot before its file is read, so that it is read once.
TakeLocation ==
  /\ Running("archive")
  /\ Top.next <= Len(ArchiveFile(Top.object).locations)
  /\ HasGlobalArchive
  /\ LET t == ArchiveFile(Top.object).locations[Top.next] IN
       \/ /\ Loaded(t)
          /\ stack' = Advance(stack)
          /\ UNCHANGED threads
       \/ /\ ~Loaded(t)
          /\ layout.threads[t] # Missing
          /\ threads' = Append(threads, [id |-> t, archive |-> 0, events |-> <<>>])
          /\ stack' = Append(Advance(stack), [fn |-> "thread", slot |-> Len(threads) + 1])
  /\ UNCHANGED <<disk, phase, objects, archive_list, nb_allocated_archives, overrun, replay>>

\* The file of a thread is missing (htf_error), or there is no archive to add
\* the thread to: an archive that is not the main one was opened.
TakeLocationFails ==
  /\ Running("archive")
  /\ Top.next <= Len(ArchiveFile(Top.object).locations)
  /\ \/ ~HasGlobalArchive
     \/ LET t == ArchiveFile(Top.object).locations[Top.next]
        IN ~Loaded(t) /\ layout.threads[t] = Missing
  /\ Fail("open failed")

\* Mutation: a location group whose archive is known is looked up for ever.
DeliverToThread(calls, object) ==
  IF Last(calls).fn = "thread"
  THEN /\ threads' = [threads EXCEPT ![Last(calls).slot].archive = object]
       /\ stack' = Append(Front(calls), [fn |-> "tables", slot |-> Last(calls).slot])
  ELSE /\ stack' = calls
       /\ UNCHANGED threads

\* What _htf_get_archive returns (0 for nullptr) is the archive of the thread
\* that called it; htf_read_archive ignores it and goes on.
Deliver(calls, object) ==
  IF Last(calls).fn = "thread"
  THEN /\ threads' = [threads EXCEPT ![Last(calls).slot].archive = object]
       /\ stack' = Append(Front(calls), [fn |-> "tables", slot |-> Last(calls).slot])
  ELSE /\ stack' = Advance(calls)
       /\ UNCHANGED threads

\* Mutation: the list does not grow.
SameAllocation == nb_allocated_archives

\* INCREMENT_MEMORY_SPACE until the list has room for one more archive.
GrownAllocation == Max({nb_allocated_archives, Len(archive_list) + 1})

\* _htf_get_archive, which returns an archive of the list, or none if there is no
\* file of the name it looks up, or reads the archive after it made room for it in
\* the list.
GetArchive(g) ==
  LET known == {i \in 1..Len(archive_list) : objects[archive_list[i]] = g} IN
  \/ /\ known # {}
     /\ Deliver(stack, archive_list[Min(known)])
     /\ UNCHANGED <<objects, archive_list, nb_allocated_archives, overrun>>
  \/ /\ known = {}
     /\ layout.archives[g] = Missing
     /\ Deliver(stack, 0)
     /\ UNCHANGED <<objects, archive_list, nb_allocated_archives, overrun>>
  \/ /\ known = {}
     /\ layout.archives[g] # Missing
     /\ nb_allocated_archives' = GrownAllocation
     /\ objects' = Append(objects, g)
     /\ stack' = stack \o << [fn |-> "get"],
                             [fn |-> "archive", object |-> Len(objects) + 1, next |-> 1] >>
     /\ UNCHANGED <<threads, archive_list, overrun>>

\* _htf_read_thread asks for the archive that the file names.
ThreadGetsArchive ==
  /\ Running("thread")
  /\ GetArchive(layout.threads[threads[Top.slot].id])
  /\ UNCHANGED <<disk, phase, replay>>

\* _htf_read_thread reads the tables.
ReadTables ==
  /\ Running("tables")
  /\ IF ReadIsUndefined(file, settings)
     THEN phase' = "undefined" /\ UNCHANGED <<threads, stack>>
     ELSE /\ threads' = [threads EXCEPT ![Top.slot].events = <<ReadSummary(file, settings)>>]
          /\ stack' = Caller
          /\ UNCHANGED phase
  /\ UNCHANGED <<disk, objects, archive_list, nb_allocated_archives, overrun, replay>>

\* _htf_read_archive returns: _htf_get_archive puts the archive in the list, which
\* the archives read meanwhile may have filled.
ArchiveIsRead ==
  /\ Running("archive")
  /\ Top.next > Len(ArchiveFile(Top.object).locations)
  /\ IF Last(Caller).fn = "get"
     THEN /\ archive_list' = Append(archive_list, Top.object)
          /\ overrun' = (overrun \/ Len(archive_list) >= nb_allocated_archives)
          /\ Deliver(Front(Caller), Top.object)
     ELSE /\ stack' = Caller
          /\ UNCHANGED <<archive_list, overrun, threads>>
  /\ UNCHANGED <<disk, phase, objects, nb_allocated_archives, replay>>

Groups == layout.archives[opened].groups

\* The loop over the location groups in htf_read_archive.  The one over the
\* locations before it finds all threads loaded.
TakeGroup ==
  /\ Running("main")
  /\ Top.next <= Len(Groups)
  /\ HasGlobalArchive
  /\ GetArchive(Groups[Top.next])
  /\ UNCHANGED <<disk, phase, replay>>

TakeGroupFails ==
  /\ Running("main")
  /\ Top.next <= Len(Groups)
  /\ ~HasGlobalArchive
  /\ Fail("open failed")

ArchiveIsOpened ==
  /\ Running("main")
  /\ Top.next > Len(Groups)
  /\ phase' = "opened"
  /\ stack' = <<>>
  /\ UNCHANGED <<disk, reader, replay>>

-----------------------------------------------------------------------------
(* The occurrences of the event are read, one after the other.             *)

\* ThreadReader::getEventAttributeList of the first thread: the list of the
\* occurrence, or nullptr without any list.
ReadOccurence ==
  /\ phase = "opened"
  /\ threads # <<>>
  /\ LET events == threads[1].events[1]
         occurence == Len(results)
         c == MoveCursor(events, cursor, occurence)
     IN /\ occurence < Occurences(events)
        /\ IF events.attributes = <<>>
           THEN results' = Append(results, FALSE) /\ UNCHANGED <<phase, cursor>>
           ELSE /\ cursor' = c
                /\ IF c <= Len(events.attributes) /\ events.attributes[c] = occurence
                   THEN results' = Append(results, TRUE) /\ UNCHANGED phase
                   ELSE /\ phase' = IF c > Len(events.attributes) THEN "undefined"
                                    ELSE "read failed"
                        /\ UNCHANGED results
  /\ UNCHANGED <<disk, stack, reader>>

OpenStep ==
  \/ TakeLocation \/ TakeLocationFails \/ ThreadGetsArchive \/ ReadTables
  \/ ArchiveIsRead \/ TakeGroup \/ TakeGroupFails \/ ArchiveIsOpened

Next ==
  \/ \E d \in Duration, attributed \in BOOLEAN : RecordOccurence(d, attributed)
  \/ StoreThreads
  \/ OpenStep
  \/ ReadOccurence

Spec == Init /\ [][Next]_vars

\* Opening an archive is one thread that keeps running.
FairSpec == Spec /\ WF_vars(OpenStep)

-----------------------------------------------------------------------------
(* Properties.                                                             *)

Locations == UNION {ToSet(ArchiveFile(i).locations) : i \in 1..Len(objects)}

\* The durations that a thread has after it was read are those recorded, at every
\* position of the vector, whatever the settings ("lossless").  The histogram
\* keeps them within their range and in order, and never raises one.
DurationsAreRead ==
  \A t \in 1..Len(threads) : threads[t].events # <<>> =>
    LET read(i) == At(threads[t].events[1].durations, i)
        written(i) == At(summary.durations, i)
        positions == 0..(Occurences(summary) - 1)
    IN /\ Occurences(threads[t].events[1]) = Occurences(summary)
       /\ ~IsLossy(settings) => \A i \in positions : read(i) = written(i)
       /\ \A i \in positions :
            /\ read(i) <= written(i)
            /\ \E j \in positions : written(j) <= read(i)
            /\ \A j \in positions : written(i) <= written(j) => read(i) <= read(j)

\* An occurrence is read with its attribute list.  The reader only fails on an
\* event that has lists for some occurrences but not for all, or that was
\* compressed.
AttributesAreFound ==
  LET attributed == ToSet(summary.attributes) IN
  /\ \A i \in 1..Len(results) : results[i] <=> (i - 1) \in attributed
  /\ phase \in {"read failed", "undefined"} =>
       /\ attributed # {}
       /\ settings.compression # "None" \/ Len(results) \notin attributed

\* When the archive is open, each thread of a location of an archive that was
\* read was loaded once, with its tables and with the archive that its file names.
EveryThreadOnce ==
  /\ \A i, j \in 1..Len(threads) : threads[i].id = threads[j].id => i = j
  /\ phase = "opened" =>
       /\ {threads[i].id : i \in 1..Len(threads)} = Locations
       /\ \A i \in 1..Len(threads) :
            LET named == layout.threads[threads[i].id] IN
            /\ threads[i].events # <<>>
            /\ IF layout.archives[named] = Missing
               THEN threads[i].archive = 0
               ELSE threads[i].archive # 0 /\ objects[threads[i].archive] = named

\* The list of archives has no archive twice and is not written past its end,
\* unless an archive of a location group has locations of its own.
ArchivesAreListedOnce ==
  (overrun \/ \E i, j \in 1..Len(archive_list) :
                i # j /\ objects[archive_list[i]] = objects[archive_list[j]])
  => \E i \in 2..Len(objects) : ArchiveFile(i).locations # <<>>

\* The archives and the threads that read each other come to an end.
OpeningEnds == (phase = "opening") ~> (phase # "opening")
=============================================================================
