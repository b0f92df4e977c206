---------------------------- MODULE OTF2Archive ----------------------------
(***************************************************************************)
(* OTF2_Archive (libraries/otf2/src/OTF2_Archive.c): the threads of one    *)
(* process share an archive.  Each asks it for the writers of locations;   *)
(* the first to ask for a location adds it, which opens a ThreadWriter     *)
(* (ThreadWriter::open, Thread::initThread) in the HTF archive below.      *)
(*                                                                         *)
(* Two locks are involved: archive->lock (lock) while writers are looked   *)
(* up and added, and archive->archive->lock (htf_lock) while the HTF       *)
(* archive changes.  GetEvtWriter and GetDefWriter drop the first one      *)
(* before they read the array they return an element of, so that each      *)
(* access to the arrays is a step of its own here.                         *)
(*                                                                         *)
(* Array slots are numbered from 1.  An event writer and a definition      *)
(* writer of one slot share one ThreadWriter.                              *)
(***************************************************************************)
EXTENDS Integers, Sequences

CONSTANTS
  Process,      \* the threads that call the library
  Location,     \* OTF2_LocationRef, 64 bits
  IdLimit,      \* 2^32: a ThreadId and a LocationGroupId have fewer bits than a location
  Group         \* the location group the locations are defined in

ASSUME LocationAssumption == Location \subseteq Nat
ASSUME IdLimitAssumption == IdLimit \in Nat \ {0}

\* ThreadId and LocationGroupId
Id == 0..(IdLimit - 1)

ASSUME GroupAssumption == Group \in Id

Kind == {"evt", "def"}

None == "none"
ASSUME NoneAssumption == None \notin Process

\* Mutation: the conversion of a signed number.
SignedIdOf(l) ==
  IF l % IdLimit >= IdLimit \div 2 THEN (l % IdLimit) - IdLimit ELSE l % IdLimit

\* The conversion of an OTF2_LocationRef to the ThreadId of its thread.
ThreadIdOf(l) == l % IdLimit

\* The conversion of an OTF2_LocationRef to the id of the archive.
GroupIdOf(l) == l % IdLimit

VARIABLES
  lock,          \* the holder of archive->lock
  htf_lock,      \* the holder of archive->archive->lock
  writers,       \* the locations of the slots: evt_writers[i] and def_writers[i]
  live,          \* whether the field of each array points to memory in use
  threads,       \* the ids of archive->archive->threads
  id,            \* archive->archive->id
  locations,     \* archive->archive->locations, as the references that were registered
  pc, kind, location, index,   \* the call that each process is in
  loaded,        \* whether the array that each process has read is in use
  handles,       \* the writers that each process was given
  recorded,      \* the locations whose thread has an event
  stored,        \* the archive id in the file of each thread that was closed
  file,          \* the id in the archive file, once the archive is closed
  aborted

callVars == <<pc, kind, location, index, loaded>>
arrays == <<writers, live>>
htfVars == <<threads, id, locations>>
traceVars == <<recorded, stored, file>>
vars == <<lock, htf_lock, arrays, htfVars, callVars, handles, traceVars, aborted>>

\* The steps of new_location, from its call to its return.
Adding == {"growDef", "publishDef", "growEvt", "publishEvt", "check",
           "enlist", "enlisting", "fill"}
\* The steps with archive->lock held, and those with the lock of the HTF archive.
Locked == {"search", "unlock"} \cup Adding
HtfLocked == {"enlisting", "defining"}
Defining == {"define", "defining"}
Step == {"idle", "lock", "load", "index"} \cup Locked \cup Defining

\* What is read in a buffer that was freed.
Dangling == -1
NotStored == -1
NoLocation == -1

Handle == [kind : Kind, asked : Location, got : Location \cup {Dangling}]

ArchiveTypeOK ==
  /\ lock \in Process \cup {None}
  /\ htf_lock \in Process \cup {None}
  /\ writers \in Seq(Location)
  /\ live \in [Kind -> BOOLEAN]
  /\ threads \in Seq(Id)
  /\ id \in Id
  /\ locations \in Seq(Location)
  /\ pc \in [Process -> Step]
  /\ kind \in [Process -> Kind]
  /\ location \in [Process -> Location \cup {NoLocation}]
  /\ index \in [Process -> Nat]
  /\ loaded \in [Process -> BOOLEAN]
  /\ handles \in [Process -> SUBSET Handle]
  /\ recorded \subseteq Location
  /\ stored \in [Location -> Id \cup {NotStored}]
  /\ file \in Id \cup {NotStored}
  /\ aborted \in BOOLEAN

\* OTF2_Archive_Open.  The archive has the id 0 until it has a location.
Init ==
  /\ lock = None
  /\ htf_lock = None
  /\ writers = <<>>
  /\ live = [k \in Kind |-> TRUE]
  /\ threads = <<>>
  /\ id = 0
  /\ locations = <<>>
  /\ pc = [p \in Process |-> "idle"]
  /\ kind = [p \in Process |-> "evt"]
  /\ location = [p \in Process |-> NoLocation]
  /\ index = [p \in Process |-> 0]
  /\ loaded = [p \in Process |-> FALSE]
  /\ handles = [p \in Process |-> {}]
  /\ recorded = {}
  /\ stored = [l \in Location |-> NotStored]
  /\ file = NotStored
  /\ aborted = FALSE

Open == file = NotStored /\ ~aborted

At(p, step) == ~aborted /\ pc[p] = step
GoTo(p, step) == pc' = [pc EXCEPT ![p] = step]

\* A call returns, and its local variables are gone.
Return(p) ==
  /\ GoTo(p, "idle")
  /\ kind' = [kind EXCEPT ![p] = "evt"]
  /\ location' = [location EXCEPT ![p] = NoLocation]
  /\ index' = [index EXCEPT ![p] = 0]
  /\ loaded' = [loaded EXCEPT ![p] = FALSE]

-----------------------------------------------------------------------------
(* OTF2_Archive_GetEvtWriter and OTF2_Archive_GetDefWriter.                *)

\* A thread asks for a writer, and keeps it: it asks once for each.
GetWriter(p, k, l) ==
  /\ Open
  /\ At(p, "idle")
  /\ \A h \in handles[p] : <<h.kind, h.asked>> # <<k, l>>
  /\ GoTo(p, "lock")
  /\ kind' = [kind EXCEPT ![p] = k]
  /\ location' = [location EXCEPT ![p] = l]
  /\ UNCHANGED <<lock, htf_lock, arrays, htfVars, index, loaded, handles, traceVars, aborted>>

\* Mutation: without waiting for the lock.
AcquireUnguarded(p) ==
  /\ At(p, "lock")
  /\ lock' = p
  /\ GoTo(p, "search")
  /\ UNCHANGED <<htf_lock, arrays, htfVars, kind, location, index, loaded, handles,
                 traceVars, aborted>>

Acquire(p) ==
  /\ At(p, "lock")
  /\ lock = None
  /\ lock' = p
  /\ GoTo(p, "search")
  /\ UNCHANGED <<htf_lock, arrays, htfVars, kind, location, index, loaded, handles,
                 traceVars, aborted>>

\* Mutation: the slots are searched for the id of the thread.
FoundByThreadId(p) ==
  /\ At(p, "search")
  /\ \E i \in 1..Len(writers) :
       /\ ThreadIdOf(writers[i]) = ThreadIdOf(location[p])
       /\ index' = [index EXCEPT ![p] = i]
  /\ lock' = None
  /\ GoTo(p, "load")
  /\ UNCHANGED <<htf_lock, arrays, htfVars, kind, location, loaded, handles, traceVars, aborted>>

\* The location has a slot: the lock is dropped with its index.
Found(p) ==
  /\ At(p, "search")
  /\ \E i \in 1..Len(writers) :
       /\ writers[i] = location[p]
       /\ \A j \in 1..(i - 1) : writers[j] # location[p]
       /\ index' = [index EXCEPT ![p] = i]
  /\ lock' = None
  /\ GoTo(p, "load")
  /\ UNCHANGED <<htf_lock, arrays, htfVars, kind, location, loaded, handles, traceVars, aborted>>

\* Mutation: new_location without a search.
NewLocationUnsearched(p) ==
  /\ At(p, "search")
  /\ id' = IF writers = <<>> THEN GroupIdOf(location[p]) ELSE id
  /\ index' = [index EXCEPT ![p] = Len(writers) + 1]
  /\ GoTo(p, "growDef")
  /\ UNCHANGED <<lock, htf_lock, arrays, threads, locations, kind, location, loaded, handles,
                 traceVars, aborted>>

\* new_location: the first location gives the archive its id, cut to the width of
\* a LocationGroupId.
NewLocation(p) ==
  /\ At(p, "search")
  /\ \A i \in 1..Len(writers) : writers[i] # location[p]
  /\ id' = IF writers = <<>> THEN GroupIdOf(location[p]) ELSE id
  /\ index' = [index EXCEPT ![p] = Len(writers) + 1]
  /\ GoTo(p, "growDef")
  /\ UNCHANGED <<lock, htf_lock, arrays, threads, locations, kind, location, loaded, handles,
                 traceVars, aborted>>

GrowStep == [def |-> "growDef", evt |-> "growEvt"]
PublishStep == [def |-> "publishDef", evt |-> "publishEvt"]
AfterPublish == [def |-> "growEvt", evt |-> "check"]

\* The realloc in INCREMENT_MEMORY_SPACE: the array stays where it is, or moves
\* and its memory is freed, which the field and whoever has read it still point to.
Grow(p, k) ==
  /\ At(p, GrowStep[k])
  /\ \/ UNCHANGED <<live, loaded>>
     \/ /\ live' = [live EXCEPT ![k] = FALSE]
        /\ loaded' = [q \in Process |-> loaded[q] /\ kind[q] # k]
  /\ GoTo(p, PublishStep[k])
  /\ UNCHANGED <<lock, htf_lock, writers, htfVars, kind, location, index,
                 handles, traceVars, aborted>>

\* The assignment in INCREMENT_MEMORY_SPACE.
Publish(p, k) ==
  /\ At(p, PublishStep[k])
  /\ live' = [live EXCEPT ![k] = TRUE]
  /\ GoTo(p, AfterPublish[k])
  /\ UNCHANGED <<lock, htf_lock, writers, htfVars, kind, location, index, loaded,
                 handles, traceVars, aborted>>

HasThread(t) == \E i \in 1..Len(threads) : threads[i] = t

\* Mutation: the id is not checked.
CheckNothing(p) ==
  /\ At(p, "check")
  /\ GoTo(p, "enlist")
  /\ UNCHANGED <<lock, htf_lock, arrays, htfVars, kind, location, index, loaded, handles,
                 traceVars, aborted>>

\* ThreadWriter::open asserts that no thread has the id, which is the location
\* cut to the width of a ThreadId.
CheckThread(p) ==
  /\ At(p, "check")
  /\ IF HasThread(ThreadIdOf(location[p]))
     THEN aborted' = TRUE /\ UNCHANGED pc
     ELSE GoTo(p, "enlist") /\ UNCHANGED aborted
  /\ UNCHANGED <<lock, htf_lock, arrays, htfVars, kind, location, index, loaded, handles, traceVars>>

\* Thread::initThread and Archive::defineLocation lock the HTF archive.
AcquireHtf(p) ==
  /\ htf_lock = None
  /\ htf_lock' = p
  /\ \/ At(p, "enlist") /\ GoTo(p, "enlisting")
     \/ At(p, "define") /\ GoTo(p, "defining")
  /\ UNCHANGED <<lock, arrays, htfVars, kind, location, index, loaded, handles, traceVars, aborted>>

\* Mutation: initThread returns without unlocking.
InitThreadKeepsLock(p) ==
  /\ At(p, "enlisting")
  /\ threads' = Append(threads, ThreadIdOf(location[p]))
  /\ GoTo(p, "fill")
  /\ UNCHANGED <<lock, htf_lock, arrays, id, locations, kind, location, index, loaded, handles,
                 traceVars, aborted>>

\* Thread::initThread adds the thread, and unlocks.
InitThread(p) ==
  /\ At(p, "enlisting")
  /\ threads' = Append(threads, ThreadIdOf(location[p]))
  /\ htf_lock' = None
  /\ GoTo(p, "fill")
  /\ UNCHANGED <<lock, arrays, id, locations, kind, location, index, loaded, handles,
                 traceVars, aborted>>

\* The writers of the location are in their slot.
FillSlot(p) ==
  /\ At(p, "fill")
  /\ writers' = Append(writers, location[p])
  /\ GoTo(p, "unlock")
  /\ UNCHANGED <<lock, htf_lock, live, htfVars, kind, location, index, loaded,
                 handles, traceVars, aborted>>

Release(p) ==
  /\ At(p, "unlock")
  /\ lock' = None
  /\ GoTo(p, "load")
  /\ UNCHANGED <<htf_lock, arrays, htfVars, kind, location, index, loaded, handles,
                 traceVars, aborted>>

\* `return archive->evt_writers[index]`, without the lock: first the field ...
LoadArray(p) ==
  /\ At(p, "load")
  /\ loaded' = [loaded EXCEPT ![p] = live[kind[p]]]
  /\ GoTo(p, "index")
  /\ UNCHANGED <<lock, htf_lock, arrays, htfVars, kind, location, index, handles,
                 traceVars, aborted>>

\* ... and then the element, of a buffer that may have been freed since.
ReturnWriter(p) ==
  /\ At(p, "index")
  /\ LET got == IF loaded[p] THEN writers[index[p]] ELSE Dangling
     IN handles' = [handles EXCEPT ![p] =
                      @ \cup {[kind |-> kind[p], asked |-> location[p], got |-> got]}]
  /\ Return(p)
  /\ UNCHANGED <<lock, htf_lock, arrays, htfVars, traceVars, aborted>>

-----------------------------------------------------------------------------
(* What a thread does with its writers.  What a call through a dangling    *)
(* handle does is not modelled: no action uses one.                        *)

Has(p, k, l) == \E h \in handles[p] : h.kind = k /\ h.got = l

\* An event of the location is recorded (ThreadWriter::storeEvent).
RecordEvent(p, l) ==
  /\ Open
  /\ At(p, "idle")
  /\ Has(p, "evt", l)
  /\ stored[l] = NotStored
  /\ recorded' = recorded \cup {l}
  /\ UNCHANGED <<lock, htf_lock, arrays, htfVars, callVars, handles, stored, file, aborted>>

\* OTF2_Archive_CloseEvtWriter, once per location: _htf_store_thread writes the
\* id that the archive has now, and gives up on a thread without an event.
CloseEvtWriter(p, l) ==
  /\ Open
  /\ At(p, "idle")
  /\ Has(p, "evt", l)
  /\ stored[l] = NotStored
  /\ IF l \in recorded
     THEN stored' = [stored EXCEPT ![l] = id] /\ UNCHANGED aborted
     ELSE aborted' = TRUE /\ UNCHANGED stored
  /\ UNCHANGED <<lock, htf_lock, arrays, htfVars, callVars, handles, recorded, file>>

\* Mutation: the location group replaces any id.
WriteLocationTakesId(p, l) ==
  /\ Open
  /\ At(p, "idle")
  /\ Has(p, "def", l)
  /\ \A i \in 1..Len(locations) : locations[i] # l
  /\ \A q \in Process : pc[q] \notin Defining
  /\ location' = [location EXCEPT ![p] = l]
  /\ id' = Group
  /\ GoTo(p, "define")
  /\ UNCHANGED <<lock, htf_lock, arrays, threads, locations, kind, index, loaded, handles,
                 traceVars, aborted>>

\* OTF2_DefWriter_WriteLocation up to defineLocation.  The table of the references
\* in use (_otf_register_location) has no lock and takes a location once: one
\* thread of the process defines the locations.
WriteLocation(p, l) ==
  /\ Open
  /\ At(p, "idle")
  /\ Has(p, "def", l)
  /\ \A i \in 1..Len(locations) : locations[i] # l
  /\ \A q \in Process : pc[q] \notin Defining
  /\ location' = [location EXCEPT ![p] = l]
  /\ id' = IF id = 0 THEN Group ELSE id
  /\ GoTo(p, "define")
  /\ UNCHANGED <<lock, htf_lock, arrays, threads, locations, kind, index, loaded, handles,
                 traceVars, aborted>>

\* Archive::defineLocation, with the lock.
DefineLocation(p) ==
  /\ At(p, "defining")
  /\ locations' = Append(locations, location[p])
  /\ htf_lock' = None
  /\ Return(p)
  /\ UNCHANGED <<lock, arrays, threads, id, handles, traceVars, aborted>>

\* OTF2_Archive_Close, when the threads are done with it: the file is named by
\* the id, and holds it.
CloseArchive ==
  /\ Open
  /\ \A p \in Process : pc[p] = "idle"
  /\ writers # <<>>
  /\ file' = id
  /\ UNCHANGED <<lock, htf_lock, arrays, htfVars, callVars, handles, recorded, stored, aborted>>

-----------------------------------------------------------------------------
CallStep(p) ==
  \/ Acquire(p) \/ Found(p) \/ NewLocation(p)
  \/ \E k \in Kind : Grow(p, k) \/ Publish(p, k)
  \/ CheckThread(p) \/ AcquireHtf(p) \/ InitThread(p) \/ FillSlot(p)
  \/ Release(p) \/ LoadArray(p) \/ ReturnWriter(p) \/ DefineLocation(p)

UserStep(p) ==
  \E l \in Location :
    \/ \E k \in Kind : GetWriter(p, k, l)
    \/ RecordEvent(p, l) \/ CloseEvtWriter(p, l) \/ WriteLocation(p, l)

Next == (\E p \in Process : CallStep(p) \/ UserStep(p)) \/ CloseArchive

Spec == Init /\ [][Next]_vars

\* A call that was entered keeps running.
FairSpec == Spec /\ \A p \in Process : WF_vars(CallStep(p))

-----------------------------------------------------------------------------
(* Properties.                                                             *)

\* At most one thread is between pthread_mutex_lock and pthread_mutex_unlock,
\* on either lock (GetEvtWriter, GetDefWriter; initThread, defineLocation).
MutualExclusion ==
  \A p, q \in Process : p # q =>
    /\ ~(pc[p] \in Locked /\ pc[q] \in Locked)
    /\ ~(pc[p] \in HtfLocked /\ pc[q] \in HtfLocked)

\* However many threads ask for a location at a time, new_location gives it one
\* slot, and no two slots have threads that would share a file.
OneThreadPerLocation ==
  \A i, j \in 1..Len(writers) :
    ThreadIdOf(writers[i]) = ThreadIdOf(writers[j]) => i = j

\* A thread is given the writer of the location it asked for, or (when the array
\* moved after it dropped the lock) a dangling one, and never that of another.
NeverAnothersWriter ==
  \A p \in Process : \A h \in handles[p] : h.got \in {h.asked, Dangling}

\* "Returns a local event writer handle if successful, NULL if an error occurs":
\* every handle returned is that of the location (OTF2_Archive.h).
CallersGetTheirWriter ==
  \A p \in Process : \A h \in handles[p] : h.got = h.asked

\* The file of a thread names the archive that is stored.  The exception: the
\* first location gave the archive the id 0 (it was 0, or a multiple of 2^32), and
\* the thread was closed before a call of OTF2_DefWriter_WriteLocation replaced it.
ThreadsFindTheirArchive ==
  file # NotStored =>
    \A l \in Location :
      stored[l] \in {NotStored, file} \/ (stored[l] = 0 /\ GroupIdOf(writers[1]) = 0)

\* The assertion of ThreadWriter::open is about to fail, or has failed.
FindsItsThread(p) == pc[p] = "check" /\ HasThread(ThreadIdOf(location[p]))

\* The thread that ThreadWriter::open finds under the id of a location is never one
\* that another call added for that location, but that of another location with
\* the same id.  The process is aborted for that, or for a writer that is closed
\* without an event.
AbortsOnlyOnMisuse ==
  /\ \A p \in Process : FindsItsThread(p) =>
       \E i \in 1..Len(writers) :
         /\ writers[i] # location[p]
         /\ ThreadIdOf(writers[i]) = ThreadIdOf(location[p])
  /\ aborted =>
       \/ \E p \in Process : FindsItsThread(p)
       \/ \E p \in Process, l \in Location : Has(p, "evt", l) /\ l \notin recorded

\* Every call returns, unless the process is aborted: the two locks are taken in
\* one order and always released.
CallsReturn ==
  \A p \in Process : (pc[p] # "idle") ~> (pc[p] = "idle" \/ aborted)
=============================================================================
