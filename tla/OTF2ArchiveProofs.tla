------------------------- MODULE OTF2ArchiveProofs -------------------------
(***************************************************************************)
(* Proofs about OTF2Archive, for any number of threads and locations: the  *)
(* threads of a process that ask for writers exclude each other where they *)
(* have to, give each location one thread of the trace, are never given    *)
(* the writer of another location, and store files that name the archive.  *)
(*                                                                         *)
(* The invariant says of each step of a call what it may rely on: which    *)
(* lock it holds, what the search under the lock found, and how the slots  *)
(* of the OTF2 archive match the threads of the HTF archive.               *)
(***************************************************************************)
EXTENDS OTF2Archive, TLAPS

\* The lock that each step of a call holds.
HeldLocks ==
  \A p \in Process :
    /\ pc[p] \in Locked => lock = p
    /\ pc[p] \in HtfLocked => htf_lock = p

\* A call knows its location until it returns.
CallsHaveLocations ==
  \A p \in Process : pc[p] # "idle" => location[p] \in Location

\* The slots and the threads agree, but for the thread that is being added,
\* and no two threads have one id.
SlotsMatchThreads ==
  /\ Len(writers) <= Len(threads)
  /\ Len(threads) <= Len(writers) + 1
  /\ (\A p \in Process : pc[p] # "fill") => Len(threads) = Len(writers)
  /\ \A i \in 1..Len(writers) : threads[i] = ThreadIdOf(writers[i])
  /\ \A p \in Process : pc[p] = "fill" =>
       /\ Len(threads) = Len(writers) + 1
       /\ threads[Len(writers) + 1] = ThreadIdOf(location[p])
  /\ \A i, j \in 1..Len(threads) : threads[i] = threads[j] => i = j

\* What new_location relies on: the search found no slot, the assertion no thread.
NothingFound ==
  \A p \in Process :
    /\ pc[p] \in {"growDef", "publishDef", "growEvt", "publishEvt", "check"} =>
         \A i \in 1..Len(writers) : writers[i] # location[p]
    /\ pc[p] \in {"enlist", "enlisting"} =>
         \A i \in 1..Len(threads) : threads[i] # ThreadIdOf(location[p])

\* The slot that a call returns: the next one while it is added, then one that
\* holds its location, which it keeps when the lock is dropped.
IndicesAreRight ==
  \A p \in Process :
    /\ pc[p] \in Adding => index[p] = Len(writers) + 1
    /\ pc[p] \in {"unlock", "load", "index"} =>
         /\ index[p] \in 1..Len(writers)
         /\ writers[index[p]] = location[p]

HandlesAreRight ==
  \A p \in Process : \A h \in handles[p] :
    /\ writers # <<>>
    /\ h.got \in {h.asked, Dangling}

\* The id of the archive is that of its first location, unless that is 0.
IdOfFirstLocation ==
  /\ writers # <<>> => id = GroupIdOf(writers[1]) \/ GroupIdOf(writers[1]) = 0
  /\ writers = <<>> => \A p \in Process : pc[p] \in Adding => id = GroupIdOf(location[p])

FilesNameTheArchive ==
  /\ \A l \in Location :
       /\ stored[l] \in {NotStored, id} \/ (stored[l] = 0 /\ GroupIdOf(writers[1]) = 0)
       /\ stored[l] # NotStored => writers # <<>>
  /\ file # NotStored => file = id /\ \A p \in Process : pc[p] = "idle"

\* What aborted the process can still be seen.
AbortsAreSeen ==
  aborted =>
    \/ \E p \in Process : FindsItsThread(p)
    \/ \E p \in Process, l \in Location : Has(p, "evt", l) /\ l \notin recorded

IInv ==
  /\ ArchiveTypeOK
  /\ HeldLocks
  /\ CallsHaveLocations
  /\ SlotsMatchThreads
  /\ NothingFound
  /\ IndicesAreRight
  /\ HandlesAreRight
  /\ IdOfFirstLocation
  /\ FilesNameTheArchive
  /\ AbortsAreSeen

\* Both conversions of a location give an id.
LEMMA IdsFit ==
  ASSUME NEW l \in Location
  PROVE  ThreadIdOf(l) \in Id /\ GroupIdOf(l) \in Id
<1>1. l \in Nat /\ IdLimit \in Nat \ {0}
  BY LocationAssumption, IdLimitAssumption
<1>2. l % IdLimit \in 0..(IdLimit - 1)
  BY <1>1
<1> QED BY <1>2 DEF ThreadIdOf, GroupIdOf, Id

\* A call starts: it holds nothing, and relies on nothing yet.
LEMMA GetWriterKeeps ==
  ASSUME IInv, NEW p \in Process, NEW k \in Kind, NEW l \in Location, GetWriter(p, k, l)
  PROVE  IInv'
<1>1. ArchiveTypeOK'
  BY DEF IInv, ArchiveTypeOK, At, GoTo, Step, Locked, Adding, Defining, arrays, htfVars,
      traceVars, CallsHaveLocations, GetWriter
<1>2. HeldLocks'
  BY DEF IInv, ArchiveTypeOK, At, GoTo, Locked, HtfLocked, Adding, Defining, HeldLocks,
      GetWriter
<1>3. CallsHaveLocations'
  BY DEF IInv, ArchiveTypeOK, At, GoTo, CallsHaveLocations, GetWriter
<1>4. SlotsMatchThreads'
  BY DEF IInv, ArchiveTypeOK, At, GoTo, Locked, Adding, arrays, htfVars, SlotsMatchThreads,
      GetWriter
<1>5. NothingFound'
  BY DEF IInv, ArchiveTypeOK, At, GoTo, Locked, Adding, arrays, htfVars, NothingFound,
      GetWriter
<1>6. IndicesAreRight'
  BY DEF IInv, ArchiveTypeOK, At, GoTo, Locked, Adding, arrays, IndicesAreRight, GetWriter
<1>7. HandlesAreRight'
  BY DEF IInv, HandlesAreRight, GetWriter, arrays
<1>8. IdOfFirstLocation'
  BY DEF IInv, ArchiveTypeOK, At, GoTo, Locked, Adding, arrays, htfVars, IdOfFirstLocation,
      GetWriter
<1>9. FilesNameTheArchive'
  BY DEF IInv, ArchiveTypeOK, At, GoTo, Open, arrays, htfVars, traceVars,
      FilesNameTheArchive, GetWriter
<1>10. AbortsAreSeen'
  BY DEF IInv, At, Open, AbortsAreSeen, GetWriter
<1> QED
  BY <1>1, <1>2, <1>3, <1>4, <1>5, <1>6, <1>7, <1>8, <1>9, <1>10 DEF IInv

\* The lock is free when it is taken: no other call is under it.
LEMMA AcquireKeeps ==
  ASSUME IInv, NEW p \in Process, Acquire(p)
  PROVE  IInv'
<1>1. ArchiveTypeOK'
  BY DEF IInv, ArchiveTypeOK, At, GoTo, Step, Locked, Adding, Defining, arrays, htfVars,
      traceVars, Acquire
<1>2. HeldLocks'
  BY NoneAssumption DEF IInv, ArchiveTypeOK, At, GoTo, Locked, HtfLocked, Adding, Defining,
      HeldLocks, Acquire
<1>3. CallsHaveLocations'
  BY DEF IInv, ArchiveTypeOK, At, GoTo, CallsHaveLocations, Acquire
<1>4. SlotsMatchThreads'
  BY DEF IInv, ArchiveTypeOK, At, GoTo, Locked, Adding, arrays, htfVars, SlotsMatchThreads,
      Acquire
<1>5. NothingFound'
  BY DEF IInv, ArchiveTypeOK, At, GoTo, Locked, Adding, arrays, htfVars, NothingFound, Acquire
<1>6. IndicesAreRight'
  BY DEF IInv, ArchiveTypeOK, At, GoTo, Locked, Adding, arrays, IndicesAreRight, Acquire
<1>7. HandlesAreRight'
  BY DEF IInv, arrays, HandlesAreRight, Acquire
<1>8. IdOfFirstLocation'
  BY DEF IInv, ArchiveTypeOK, At, GoTo, Locked, Adding, arrays, htfVars, IdOfFirstLocation,
      Acquire
<1>9. FilesNameTheArchive'
  BY DEF IInv, ArchiveTypeOK, At, GoTo, arrays, htfVars, traceVars, FilesNameTheArchive,
      Acquire
<1>10. AbortsAreSeen'
  BY DEF IInv, At, AbortsAreSeen, Acquire
<1> QED
  BY <1>1, <1>2, <1>3, <1>4, <1>5, <1>6, <1>7, <1>8, <1>9, <1>10 DEF IInv

\* The slot that is found holds the location.
LEMMA FoundKeeps ==
  ASSUME IInv, NEW p \in Process, Found(p)
  PROVE  IInv'
<1>1. ArchiveTypeOK'
  BY DEF IInv, ArchiveTypeOK, At, GoTo, Step, Locked, Adding, Defining, arrays, htfVars,
      traceVars, Found
<1>2. HeldLocks'
  BY DEF IInv, ArchiveTypeOK, At, GoTo, Locked, HtfLocked, Adding, Defining, HeldLocks, Found
<1>3. CallsHaveLocations'
  BY DEF IInv, ArchiveTypeOK, At, GoTo, CallsHaveLocations, Found
<1>4. SlotsMatchThreads'
  BY DEF IInv, ArchiveTypeOK, At, GoTo, Locked, Adding, arrays, htfVars, SlotsMatchThreads,
      Found
<1>5. NothingFound'
  BY DEF IInv, ArchiveTypeOK, At, GoTo, Locked, Adding, arrays, htfVars, NothingFound, Found
<1>6. IndicesAreRight'
  BY DEF IInv, ArchiveTypeOK, At, GoTo, Locked, Adding, arrays, IndicesAreRight, Found
<1>7. HandlesAreRight'
  BY DEF IInv, arrays, HandlesAreRight, Found
<1>8. IdOfFirstLocation'
  BY DEF IInv, ArchiveTypeOK, At, GoTo, Locked, Adding, arrays, htfVars, IdOfFirstLocation,
      Found
<1>9. FilesNameTheArchive'
  BY DEF IInv, ArchiveTypeOK, At, GoTo, arrays, htfVars, traceVars, FilesNameTheArchive, Found
<1>10. AbortsAreSeen'
  BY DEF IInv, At, AbortsAreSeen, Found
<1> QED
  BY <1>1, <1>2, <1>3, <1>4, <1>5, <1>6, <1>7, <1>8, <1>9, <1>10 DEF IInv

\* The search found no slot; the first location gives the archive its id.
LEMMA NewLocationKeeps ==
  ASSUME IInv, NEW p \in Process, NewLocation(p)
  PROVE  IInv'
<1>1. ArchiveTypeOK'
  <2>1. pc' \in [Process -> Step]
    BY DEF IInv, ArchiveTypeOK, GoTo, Step, Locked, Adding, NewLocation
  <2>2. id' \in Id
    <3>1. location[p] \in Location
      BY DEF IInv, At, CallsHaveLocations, NewLocation
    <3>2. GroupIdOf(location[p]) \in Id
      BY <3>1, IdsFit
    <3> QED
      BY <3>2 DEF IInv, ArchiveTypeOK, NewLocation
  <2>3. index' \in [Process -> Nat]
    BY DEF IInv, ArchiveTypeOK, NewLocation
  <2> QED
    BY <2>1, <2>2, <2>3 DEF IInv, ArchiveTypeOK, At, GoTo, Return, Open, NewLocation, arrays,
        htfVars, traceVars, callVars
<1>2. HeldLocks'
  BY DEF IInv, ArchiveTypeOK, At, GoTo, Locked, HtfLocked, Adding, Defining, HeldLocks,
      NewLocation
<1>3. CallsHaveLocations'
  BY DEF IInv, ArchiveTypeOK, At, GoTo, CallsHaveLocations, NewLocation
<1>4. SlotsMatchThreads'
  BY DEF IInv, ArchiveTypeOK, At, GoTo, Locked, Adding, arrays, SlotsMatchThreads, HeldLocks,
      NewLocation
<1>5. NothingFound'
  BY DEF IInv, ArchiveTypeOK, At, GoTo, Locked, Adding, arrays, NothingFound, NewLocation
<1>6. IndicesAreRight'
  BY DEF IInv, ArchiveTypeOK, At, GoTo, Locked, Adding, arrays, IndicesAreRight, NewLocation
<1>7. HandlesAreRight'
  BY DEF IInv, arrays, HandlesAreRight, NewLocation
<1>8. IdOfFirstLocation'
  BY DEF IInv, ArchiveTypeOK, At, GoTo, Locked, Adding, arrays, IdOfFirstLocation, HeldLocks,
      IndicesAreRight, HandlesAreRight, FilesNameTheArchive, NewLocation
<1>9. FilesNameTheArchive'
  BY DEF IInv, ArchiveTypeOK, At, GoTo, arrays, traceVars, FilesNameTheArchive, NewLocation
<1>10. AbortsAreSeen'
  BY DEF IInv, At, AbortsAreSeen, NewLocation
<1> QED
  BY <1>1, <1>2, <1>3, <1>4, <1>5, <1>6, <1>7, <1>8, <1>9, <1>10 DEF IInv

\* The arrays move, the slots in them stay the same.
LEMMA GrowKeeps ==
  ASSUME IInv, NEW p \in Process, NEW k \in Kind, Grow(p, k)
  PROVE  IInv'
<1>1. ArchiveTypeOK'
  <2>1. pc' \in [Process -> Step]
    BY DEF IInv, ArchiveTypeOK, GoTo, Step, Locked, Adding, PublishStep, Kind, Grow
  <2>2. live' \in [Kind -> BOOLEAN]
    BY DEF IInv, ArchiveTypeOK, Kind, Grow
  <2>3. loaded' \in [Process -> BOOLEAN]
    BY DEF IInv, ArchiveTypeOK, Kind, Grow
  <2> QED
    BY <2>1, <2>2, <2>3 DEF IInv, ArchiveTypeOK, At, GoTo, Return, Open, Grow, arrays,
        htfVars, traceVars, callVars
<1>2. HeldLocks'
  BY DEF IInv, ArchiveTypeOK, At, GoTo, Locked, HtfLocked, Adding, Defining, HeldLocks, Grow,
      GrowStep, PublishStep, Kind
<1>3. CallsHaveLocations'
  BY DEF IInv, ArchiveTypeOK, At, GoTo, CallsHaveLocations, Grow, GrowStep, PublishStep, Kind
<1>4. SlotsMatchThreads'
  <2>1. UNCHANGED <<writers, threads, location>>
    BY DEF Grow, htfVars
  <2>2. \A q \in Process : pc'[q] = "fill" <=> pc[q] = "fill"
    BY DEF IInv, ArchiveTypeOK, At, GoTo, Grow, GrowStep, PublishStep, Kind
  <2> QED
    BY <2>1, <2>2 DEF IInv, SlotsMatchThreads
<1>5. NothingFound'
  <2>1. UNCHANGED <<writers, threads, location>>
    BY DEF Grow, htfVars
  <2>2. pc[p] \in {"growDef", "growEvt"} /\ pc'[p] \in {"publishDef", "publishEvt"}
    BY DEF IInv, ArchiveTypeOK, At, GoTo, Grow, GrowStep, PublishStep, Kind
  <2>3. \A q \in Process : q # p => pc'[q] = pc[q]
    BY DEF IInv, ArchiveTypeOK, GoTo, Grow
  <2> QED
    BY <2>1, <2>2, <2>3 DEF IInv, NothingFound
<1>6. IndicesAreRight'
  BY DEF IInv, ArchiveTypeOK, At, GoTo, Locked, Adding, IndicesAreRight, Grow, GrowStep,
      PublishStep, Kind
<1>7. HandlesAreRight'
  BY DEF IInv, HandlesAreRight, Grow
<1>8. IdOfFirstLocation'
  BY DEF IInv, ArchiveTypeOK, At, GoTo, Locked, Adding, htfVars, IdOfFirstLocation, Grow,
      GrowStep, PublishStep, Kind
<1>9. FilesNameTheArchive'
  <2>1. UNCHANGED <<id, stored, file, writers>> /\ file = NotStored
    BY DEF IInv, ArchiveTypeOK, FilesNameTheArchive, At, Grow, htfVars, traceVars, GrowStep, PublishStep, Kind
  <2> QED
    BY <2>1 DEF IInv, FilesNameTheArchive
<1>10. AbortsAreSeen'
  BY DEF IInv, At, AbortsAreSeen, Grow, GrowStep, PublishStep, Kind
<1> QED
  BY <1>1, <1>2, <1>3, <1>4, <1>5, <1>6, <1>7, <1>8, <1>9, <1>10 DEF IInv

\* The field points to the array again.
LEMMA PublishKeeps ==
  ASSUME IInv, NEW p \in Process, NEW k \in Kind, Publish(p, k)
  PROVE  IInv'
<1>1. ArchiveTypeOK'
  BY DEF IInv, ArchiveTypeOK, At, GoTo, Step, Locked, Adding, Defining, htfVars, traceVars,
      Publish, PublishStep, AfterPublish, Kind
<1>2. HeldLocks'
  BY DEF IInv, ArchiveTypeOK, At, GoTo, Locked, HtfLocked, Adding, Defining, HeldLocks,
      Publish, PublishStep, AfterPublish, Kind
<1>3. CallsHaveLocations'
  BY DEF IInv, ArchiveTypeOK, At, GoTo, CallsHaveLocations, Publish, PublishStep,
      AfterPublish, Kind
<1>4. SlotsMatchThreads'
  BY DEF IInv, ArchiveTypeOK, At, GoTo, Locked, Adding, htfVars, SlotsMatchThreads, Publish,
      PublishStep, AfterPublish, Kind
<1>5. NothingFound'
  BY NoneAssumption, IdsFit, LocationAssumption, GroupAssumption DEF IInv,
      ArchiveTypeOK, At, GoTo, Locked, Adding, htfVars, NothingFound, HeldLocks, Publish,
      PublishStep, AfterPublish, Kind
<1>6. IndicesAreRight'
  BY DEF IInv, ArchiveTypeOK, At, GoTo, Locked, Adding, IndicesAreRight, Publish, PublishStep,
      AfterPublish, Kind
<1>7. HandlesAreRight'
  BY DEF IInv, HandlesAreRight, Publish, PublishStep, AfterPublish, Kind
<1>8. IdOfFirstLocation'
  BY DEF IInv, ArchiveTypeOK, At, GoTo, Locked, Adding, htfVars, IdOfFirstLocation, Publish,
      PublishStep, AfterPublish, Kind
<1>9. FilesNameTheArchive'
  <2>1. UNCHANGED <<id, stored, file, writers>> /\ file = NotStored
    BY DEF IInv, ArchiveTypeOK, FilesNameTheArchive, At, Publish, htfVars, traceVars, GrowStep, PublishStep, Kind
  <2> QED
    BY <2>1 DEF IInv, FilesNameTheArchive
<1>10. AbortsAreSeen'
  BY DEF IInv, At, AbortsAreSeen, Publish, PublishStep, AfterPublish, Kind
<1> QED
  BY <1>1, <1>2, <1>3, <1>4, <1>5, <1>6, <1>7, <1>8, <1>9, <1>10 DEF IInv

\* The assertion fails only when it finds a thread.
LEMMA CheckThreadKeeps ==
  ASSUME IInv, NEW p \in Process, CheckThread(p)
  PROVE  IInv'
<1>1. ArchiveTypeOK'
  BY DEF IInv, ArchiveTypeOK, At, GoTo, Step, Locked, Adding, Defining, arrays, htfVars,
      traceVars, CheckThread, HasThread
<1>2. HeldLocks'
  BY DEF IInv, ArchiveTypeOK, At, GoTo, Locked, HtfLocked, Adding, Defining, HeldLocks,
      CheckThread
<1>3. CallsHaveLocations'
  BY DEF IInv, ArchiveTypeOK, At, GoTo, CallsHaveLocations, CheckThread
<1>4. SlotsMatchThreads'
  BY DEF IInv, ArchiveTypeOK, At, GoTo, Locked, Adding, arrays, htfVars, SlotsMatchThreads,
      CheckThread
<1>5. NothingFound'
  BY DEF IInv, ArchiveTypeOK, At, GoTo, Locked, Adding, arrays, htfVars, NothingFound,
      HasThread, CheckThread
<1>6. IndicesAreRight'
  BY DEF IInv, ArchiveTypeOK, At, GoTo, Locked, Adding, arrays, IndicesAreRight, CheckThread
<1>7. HandlesAreRight'
  BY DEF IInv, arrays, HandlesAreRight, CheckThread
<1>8. IdOfFirstLocation'
  BY DEF IInv, ArchiveTypeOK, At, GoTo, Locked, Adding, arrays, htfVars, IdOfFirstLocation,
      CheckThread
<1>9. FilesNameTheArchive'
  BY DEF IInv, ArchiveTypeOK, At, GoTo, arrays, htfVars, traceVars, FilesNameTheArchive,
      CheckThread
<1>10. AbortsAreSeen'
  <2>1. CASE HasThread(ThreadIdOf(location[p]))
    <3>1. FindsItsThread(p)
      BY <2>1 DEF FindsItsThread, At, CheckThread
    <3>2. UNCHANGED <<threads, location, pc>>
      BY <2>1 DEF CheckThread, htfVars
    <3>3. FindsItsThread(p)'
      BY <3>1, <3>2 DEF FindsItsThread, HasThread
    <3> QED
      BY <3>3 DEF AbortsAreSeen
  <2>2. CASE ~HasThread(ThreadIdOf(location[p]))
    BY <2>2 DEF At, CheckThread, AbortsAreSeen
  <2> QED
    BY <2>1, <2>2
<1> QED
  BY <1>1, <1>2, <1>3, <1>4, <1>5, <1>6, <1>7, <1>8, <1>9, <1>10 DEF IInv

\* The lock of the HTF archive is free when it is taken.
LEMMA AcquireHtfKeeps ==
  ASSUME IInv, NEW p \in Process, AcquireHtf(p)
  PROVE  IInv'
<1>1. ArchiveTypeOK'
  BY DEF IInv, ArchiveTypeOK, At, GoTo, Step, Locked, Adding, Defining, arrays, htfVars,
      traceVars, AcquireHtf
<1>2. HeldLocks'
  BY NoneAssumption DEF IInv, ArchiveTypeOK, At, GoTo, Locked, HtfLocked, Adding, Defining,
      HeldLocks, AcquireHtf
<1>3. CallsHaveLocations'
  BY DEF IInv, ArchiveTypeOK, At, GoTo, CallsHaveLocations, AcquireHtf
<1>4. SlotsMatchThreads'
  BY DEF IInv, ArchiveTypeOK, At, GoTo, Locked, Adding, arrays, htfVars, SlotsMatchThreads,
      AcquireHtf
<1>5. NothingFound'
  BY DEF IInv, ArchiveTypeOK, At, GoTo, Locked, Adding, arrays, htfVars, NothingFound,
      AcquireHtf
<1>6. IndicesAreRight'
  BY DEF IInv, ArchiveTypeOK, At, GoTo, Locked, Adding, arrays, IndicesAreRight, AcquireHtf
<1>7. HandlesAreRight'
  BY DEF IInv, arrays, HandlesAreRight, AcquireHtf
<1>8. IdOfFirstLocation'
  BY DEF IInv, ArchiveTypeOK, At, GoTo, Locked, Adding, arrays, htfVars, IdOfFirstLocation,
      AcquireHtf
<1>9. FilesNameTheArchive'
  BY DEF IInv, ArchiveTypeOK, At, GoTo, arrays, htfVars, traceVars, FilesNameTheArchive,
      AcquireHtf
<1>10. AbortsAreSeen'
  BY DEF IInv, At, AbortsAreSeen, AcquireHtf
<1> QED
  BY <1>1, <1>2, <1>3, <1>4, <1>5, <1>6, <1>7, <1>8, <1>9, <1>10 DEF IInv

\* The id added is new, and one ahead of the slots until its slot is filled.
LEMMA InitThreadKeeps ==
  ASSUME IInv, NEW p \in Process, InitThread(p)
  PROVE  IInv'
<1>1. ArchiveTypeOK'
  <2>1. pc' \in [Process -> Step]
    BY DEF IInv, ArchiveTypeOK, GoTo, Step, Locked, Adding, InitThread
  <2>2. threads' \in Seq(Id)
    <3>1. location[p] \in Location
      BY DEF IInv, CallsHaveLocations, At, InitThread
    <3>2. ThreadIdOf(location[p]) \in Id
      BY <3>1, IdsFit
    <3> QED
      BY <3>2 DEF IInv, ArchiveTypeOK, InitThread
  <2> QED
    BY <2>1, <2>2 DEF IInv, ArchiveTypeOK, At, GoTo, Return, Open, InitThread, arrays,
        htfVars, traceVars, callVars, None
<1>2. HeldLocks'
  BY DEF IInv, ArchiveTypeOK, At, GoTo, Locked, HtfLocked, Adding, Defining, HeldLocks,
      InitThread
<1>3. CallsHaveLocations'
  BY DEF IInv, ArchiveTypeOK, At, GoTo, CallsHaveLocations, InitThread
<1>4. SlotsMatchThreads'
  <2>1. \A q \in Process : q # p => pc[q] # "fill" /\ pc'[q] = pc[q]
    BY DEF IInv, ArchiveTypeOK, HeldLocks, At, GoTo, InitThread, Locked, Adding
  <2>2. Len(threads) = Len(writers) /\ pc'[p] = "fill" /\ location' = location /\ writers' = writers
    BY <2>1 DEF IInv, ArchiveTypeOK, SlotsMatchThreads, At, GoTo, InitThread, arrays
  <2>3. ThreadIdOf(location[p]) \in Id
    BY IdsFit DEF IInv, CallsHaveLocations, At, InitThread
  <2>4. /\ Len(threads') = Len(threads) + 1
        /\ \A i \in 1..Len(threads) : threads'[i] = threads[i]
        /\ threads'[Len(threads) + 1] = ThreadIdOf(location[p])
    BY <2>3 DEF IInv, ArchiveTypeOK, InitThread
  <2>5. \A i \in 1..Len(threads) : threads[i] # ThreadIdOf(location[p])
    BY DEF IInv, NothingFound, At, InitThread
  <2>6. Len(writers) \in Nat /\ \A i, j \in 1..Len(threads) : threads[i] = threads[j] => i = j
    BY DEF IInv, ArchiveTypeOK, SlotsMatchThreads
  <2>7. \A i, j \in 1..Len(threads') : threads'[i] = threads'[j] => i = j
    BY <2>2, <2>4, <2>5, <2>6
  <2>8. \A i \in 1..Len(writers') : threads'[i] = ThreadIdOf(writers'[i])
    BY <2>2, <2>4 DEF IInv, SlotsMatchThreads
  <2>9. \A q \in Process : pc'[q] = "fill" => q = p
    BY <2>1
  <2> QED
    BY <2>2, <2>4, <2>6, <2>7, <2>8, <2>9 DEF SlotsMatchThreads
<1>5. NothingFound'
  BY DEF IInv, ArchiveTypeOK, At, GoTo, Locked, Adding, arrays, NothingFound, HeldLocks,
      InitThread
<1>6. IndicesAreRight'
  BY DEF IInv, ArchiveTypeOK, At, GoTo, Locked, Adding, arrays, IndicesAreRight, HeldLocks,
      InitThread
<1>7. HandlesAreRight'
  BY DEF IInv, arrays, HandlesAreRight, InitThread
<1>8. IdOfFirstLocation'
  BY DEF IInv, ArchiveTypeOK, At, GoTo, Locked, Adding, arrays, IdOfFirstLocation, HeldLocks,
      IndicesAreRight, HandlesAreRight, FilesNameTheArchive, InitThread
<1>9. FilesNameTheArchive'
  BY DEF IInv, ArchiveTypeOK, At, GoTo, arrays, traceVars, FilesNameTheArchive, InitThread
<1>10. AbortsAreSeen'
  BY DEF IInv, At, AbortsAreSeen, InitThread
<1> QED
  BY <1>1, <1>2, <1>3, <1>4, <1>5, <1>6, <1>7, <1>8, <1>9, <1>10 DEF IInv

\* The slot gets the location whose thread was added last.
LEMMA FillSlotKeeps ==
  ASSUME IInv, NEW p \in Process, FillSlot(p)
  PROVE  IInv'
<1>1. ArchiveTypeOK'
  <2>1. pc' \in [Process -> Step]
    BY DEF IInv, ArchiveTypeOK, GoTo, Step, Locked, Adding, FillSlot
  <2>2. writers' \in Seq(Location)
    BY DEF IInv, ArchiveTypeOK, At, CallsHaveLocations, FillSlot
  <2> QED
    BY <2>1, <2>2 DEF IInv, ArchiveTypeOK, At, GoTo, Return, Open, FillSlot, arrays, htfVars,
        traceVars, callVars
<1>2. HeldLocks'
  BY DEF IInv, ArchiveTypeOK, At, GoTo, Locked, HtfLocked, Adding, Defining, HeldLocks,
      FillSlot
<1>3. CallsHaveLocations'
  BY DEF IInv, ArchiveTypeOK, At, GoTo, CallsHaveLocations, FillSlot
<1>4. SlotsMatchThreads'
  BY DEF IInv, ArchiveTypeOK, At, GoTo, Locked, Adding, htfVars, SlotsMatchThreads, HeldLocks,
      FillSlot
<1>5. NothingFound'
  BY DEF IInv, ArchiveTypeOK, At, GoTo, Locked, Adding, htfVars, NothingFound, HeldLocks,
      FillSlot
<1>6. IndicesAreRight'
  BY DEF IInv, ArchiveTypeOK, At, GoTo, Locked, Adding, IndicesAreRight, HeldLocks, FillSlot
<1>7. HandlesAreRight'
  BY DEF IInv, HandlesAreRight, FillSlot
<1>8. IdOfFirstLocation'
  BY DEF IInv, ArchiveTypeOK, At, GoTo, Locked, Adding, htfVars, IdOfFirstLocation, HeldLocks,
      IndicesAreRight, HandlesAreRight, FilesNameTheArchive, FillSlot
<1>9. FilesNameTheArchive'
  <2>1. UNCHANGED <<id, stored, file>> /\ file = NotStored
    BY DEF IInv, ArchiveTypeOK, FilesNameTheArchive, At, FillSlot, htfVars, traceVars
  <2>2. writers' # <<>> /\ (writers # <<>> => writers'[1] = writers[1])
    <3>1. writers \in Seq(Location) /\ location[p] \in Location
      BY DEF IInv, ArchiveTypeOK, CallsHaveLocations, At, FillSlot
    <3>2. writers' = Append(writers, location[p])
      BY DEF FillSlot
    <3> QED
      BY <3>1, <3>2
  <2> QED
    BY <2>1, <2>2 DEF IInv, ArchiveTypeOK, FilesNameTheArchive
<1>10. AbortsAreSeen'
  BY DEF IInv, At, AbortsAreSeen, FillSlot
<1> QED
  BY <1>1, <1>2, <1>3, <1>4, <1>5, <1>6, <1>7, <1>8, <1>9, <1>10 DEF IInv

\* The lock is dropped with the slot filled.
LEMMA ReleaseKeeps ==
  ASSUME IInv, NEW p \in Process, Release(p)
  PROVE  IInv'
<1>1. ArchiveTypeOK'
  BY DEF IInv, ArchiveTypeOK, At, GoTo, Step, Locked, Adding, Defining, arrays, htfVars,
      traceVars, Release
<1>2. HeldLocks'
  BY DEF IInv, ArchiveTypeOK, At, GoTo, Locked, HtfLocked, Adding, Defining, HeldLocks,
      Release
<1>3. CallsHaveLocations'
  BY DEF IInv, ArchiveTypeOK, At, GoTo, CallsHaveLocations, Release
<1>4. SlotsMatchThreads'
  BY DEF IInv, ArchiveTypeOK, At, GoTo, Locked, Adding, arrays, htfVars, SlotsMatchThreads,
      Release
<1>5. NothingFound'
  BY DEF IInv, ArchiveTypeOK, At, GoTo, Locked, Adding, arrays, htfVars, NothingFound, Release
<1>6. IndicesAreRight'
  BY DEF IInv, ArchiveTypeOK, At, GoTo, Locked, Adding, arrays, IndicesAreRight, Release
<1>7. HandlesAreRight'
  BY DEF IInv, arrays, HandlesAreRight, Release
<1>8. IdOfFirstLocation'
  BY DEF IInv, ArchiveTypeOK, At, GoTo, Locked, Adding, arrays, htfVars, IdOfFirstLocation,
      Release
<1>9. FilesNameTheArchive'
  BY DEF IInv, ArchiveTypeOK, At, GoTo, arrays, htfVars, traceVars, FilesNameTheArchive,
      Release
<1>10. AbortsAreSeen'
  BY DEF IInv, At, AbortsAreSeen, Release
<1> QED
  BY <1>1, <1>2, <1>3, <1>4, <1>5, <1>6, <1>7, <1>8, <1>9, <1>10 DEF IInv

\* The field is read without the lock.
LEMMA LoadArrayKeeps ==
  ASSUME IInv, NEW p \in Process, LoadArray(p)
  PROVE  IInv'
<1>1. ArchiveTypeOK'
  BY DEF IInv, ArchiveTypeOK, At, GoTo, Step, Locked, Adding, Defining, arrays, htfVars,
      traceVars, LoadArray
<1>2. HeldLocks'
  BY DEF IInv, ArchiveTypeOK, At, GoTo, Locked, HtfLocked, Adding, Defining, HeldLocks,
      LoadArray
<1>3. CallsHaveLocations'
  BY DEF IInv, ArchiveTypeOK, At, GoTo, CallsHaveLocations, LoadArray
<1>4. SlotsMatchThreads'
  BY DEF IInv, ArchiveTypeOK, At, GoTo, Locked, Adding, arrays, htfVars, SlotsMatchThreads,
      LoadArray
<1>5. NothingFound'
  BY DEF IInv, ArchiveTypeOK, At, GoTo, Locked, Adding, arrays, htfVars, NothingFound,
      LoadArray
<1>6. IndicesAreRight'
  BY DEF IInv, ArchiveTypeOK, At, GoTo, Locked, Adding, arrays, IndicesAreRight, LoadArray
<1>7. HandlesAreRight'
  BY DEF IInv, arrays, HandlesAreRight, LoadArray
<1>8. IdOfFirstLocation'
  BY DEF IInv, ArchiveTypeOK, At, GoTo, Locked, Adding, arrays, htfVars, IdOfFirstLocation,
      LoadArray
<1>9. FilesNameTheArchive'
  BY DEF IInv, ArchiveTypeOK, At, GoTo, arrays, htfVars, traceVars, FilesNameTheArchive,
      LoadArray
<1>10. AbortsAreSeen'
  BY DEF IInv, At, AbortsAreSeen, LoadArray
<1> QED
  BY <1>1, <1>2, <1>3, <1>4, <1>5, <1>6, <1>7, <1>8, <1>9, <1>10 DEF IInv

\* The slot still holds the location, if the array is still in use.
LEMMA ReturnWriterKeeps ==
  ASSUME IInv, NEW p \in Process, ReturnWriter(p)
  PROVE  IInv'
<1>1. ArchiveTypeOK'
  <2>1. handles' \in [Process -> SUBSET Handle]
    <3> DEFINE got == IF loaded[p] THEN writers[index[p]] ELSE Dangling
               h == [kind |-> kind[p], asked |-> location[p], got |-> got]
    <3>1. got \in Location \cup {Dangling}
      BY DEF IInv, ArchiveTypeOK, IndicesAreRight, CallsHaveLocations, At, ReturnWriter
    <3>2. h \in Handle
      BY <3>1 DEF IInv, ArchiveTypeOK, CallsHaveLocations, At, ReturnWriter, Handle
    <3>3. handles' = [handles EXCEPT ![p] = @ \cup {h}]
      BY DEF ReturnWriter
    <3> HIDE DEF h
    <3> QED
      BY <3>2, <3>3 DEF IInv, ArchiveTypeOK
  <2>2. pc' \in [Process -> Step]
    BY DEF IInv, ArchiveTypeOK, ReturnWriter, Return, GoTo, Step
  <2>3. kind' \in [Process -> Kind] /\ location' \in [Process -> Location \cup {NoLocation}]
    BY DEF IInv, ArchiveTypeOK, ReturnWriter, Return, Kind
  <2>4. index' \in [Process -> Nat] /\ loaded' \in [Process -> BOOLEAN]
    BY DEF IInv, ArchiveTypeOK, ReturnWriter, Return
  <2> QED
    BY <2>1, <2>2, <2>3, <2>4 DEF IInv, ArchiveTypeOK, ReturnWriter, arrays, htfVars, traceVars
<1>2. HeldLocks'
  BY DEF IInv, ArchiveTypeOK, At, GoTo, Return, Locked, HtfLocked, Adding, Defining,
      HeldLocks, ReturnWriter
<1>3. CallsHaveLocations'
  BY DEF IInv, ArchiveTypeOK, At, GoTo, Return, CallsHaveLocations, ReturnWriter
<1>4. SlotsMatchThreads'
  BY DEF IInv, ArchiveTypeOK, At, GoTo, Return, Locked, Adding, arrays, htfVars,
      SlotsMatchThreads, ReturnWriter
<1>5. NothingFound'
  BY DEF IInv, ArchiveTypeOK, At, GoTo, Return, Locked, Adding, arrays, htfVars, NothingFound,
      ReturnWriter
<1>6. IndicesAreRight'
  BY DEF IInv, ArchiveTypeOK, At, GoTo, Return, Locked, Adding, arrays, IndicesAreRight,
      ReturnWriter
<1>7. HandlesAreRight'
  <2> SUFFICES ASSUME NEW q \in Process, NEW h \in handles'[q]
               PROVE  writers' # <<>> /\ h.got \in {h.asked, Dangling}
    BY DEF HandlesAreRight
  <2>1. writers' = writers
    BY DEF ReturnWriter, arrays
  <2>2. CASE h \in handles[q]
    BY <2>1, <2>2 DEF IInv, HandlesAreRight
  <2>3. CASE h \notin handles[q]
    <3> DEFINE got == IF loaded[p] THEN writers[index[p]] ELSE Dangling
    <3>1. h = [kind |-> kind[p], asked |-> location[p], got |-> got]
      BY <2>3 DEF IInv, ArchiveTypeOK, ReturnWriter
    <3>2. writers # <<>> /\ got \in {location[p], Dangling}
      BY DEF IInv, ArchiveTypeOK, IndicesAreRight, At, ReturnWriter
    <3> QED
      BY <2>1, <3>1, <3>2
  <2> QED
    BY <2>2, <2>3
<1>8. IdOfFirstLocation'
  BY DEF IInv, ArchiveTypeOK, At, GoTo, Return, Locked, Adding, arrays, htfVars,
      IdOfFirstLocation, ReturnWriter
<1>9. FilesNameTheArchive'
  BY DEF IInv, ArchiveTypeOK, At, GoTo, Return, arrays, htfVars, traceVars,
      FilesNameTheArchive, ReturnWriter
<1>10. AbortsAreSeen'
  BY DEF IInv, At, AbortsAreSeen, ReturnWriter, Dangling
<1> QED
  BY <1>1, <1>2, <1>3, <1>4, <1>5, <1>6, <1>7, <1>8, <1>9, <1>10 DEF IInv

\* An event leaves the archive alone.
LEMMA RecordEventKeeps ==
  ASSUME IInv, NEW p \in Process, NEW l \in Location, RecordEvent(p, l)
  PROVE  IInv'
<1>1. ArchiveTypeOK'
  BY DEF IInv, ArchiveTypeOK, At, Step, Locked, Adding, Defining, arrays, htfVars, callVars,
      RecordEvent, Has
<1>2. HeldLocks'
  BY DEF IInv, ArchiveTypeOK, At, Locked, HtfLocked, Adding, Defining, callVars, HeldLocks,
      RecordEvent
<1>3. CallsHaveLocations'
  BY DEF IInv, ArchiveTypeOK, At, callVars, CallsHaveLocations, RecordEvent
<1>4. SlotsMatchThreads'
  BY DEF IInv, ArchiveTypeOK, At, Locked, Adding, arrays, htfVars, callVars,
      SlotsMatchThreads, RecordEvent
<1>5. NothingFound'
  BY DEF IInv, ArchiveTypeOK, At, Locked, Adding, arrays, htfVars, callVars, NothingFound,
      RecordEvent
<1>6. IndicesAreRight'
  BY DEF IInv, ArchiveTypeOK, At, Locked, Adding, arrays, callVars, IndicesAreRight,
      RecordEvent
<1>7. HandlesAreRight'
  BY DEF IInv, arrays, HandlesAreRight, RecordEvent
<1>8. IdOfFirstLocation'
  BY DEF IInv, ArchiveTypeOK, At, Locked, Adding, arrays, htfVars, callVars,
      IdOfFirstLocation, RecordEvent
<1>9. FilesNameTheArchive'
  BY DEF IInv, ArchiveTypeOK, At, arrays, htfVars, callVars, FilesNameTheArchive, RecordEvent
<1>10. AbortsAreSeen'
  BY DEF IInv, At, Open, AbortsAreSeen, RecordEvent, Has
<1> QED
  BY <1>1, <1>2, <1>3, <1>4, <1>5, <1>6, <1>7, <1>8, <1>9, <1>10 DEF IInv

\* The file gets the current id.
LEMMA CloseEvtWriterKeeps ==
  ASSUME IInv, NEW p \in Process, NEW l \in Location, CloseEvtWriter(p, l)
  PROVE  IInv'
<1>1. ArchiveTypeOK'
  <2>1. stored' \in [Location -> Id \cup {NotStored}]
    BY DEF IInv, ArchiveTypeOK, CloseEvtWriter
  <2>2. aborted' \in BOOLEAN
    BY DEF IInv, ArchiveTypeOK, CloseEvtWriter
  <2> QED
    BY <2>1, <2>2 DEF IInv, ArchiveTypeOK, At, GoTo, Return, Open, CloseEvtWriter, arrays,
        htfVars, traceVars, callVars
<1>2. HeldLocks'
  BY DEF IInv, ArchiveTypeOK, At, Locked, HtfLocked, Adding, Defining, callVars, HeldLocks,
      CloseEvtWriter
<1>3. CallsHaveLocations'
  BY DEF IInv, ArchiveTypeOK, At, callVars, CallsHaveLocations, CloseEvtWriter
<1>4. SlotsMatchThreads'
  BY DEF IInv, ArchiveTypeOK, At, Locked, Adding, arrays, htfVars, callVars,
      SlotsMatchThreads, CloseEvtWriter
<1>5. NothingFound'
  BY DEF IInv, ArchiveTypeOK, At, Locked, Adding, arrays, htfVars, callVars, NothingFound,
      CloseEvtWriter
<1>6. IndicesAreRight'
  BY DEF IInv, ArchiveTypeOK, At, Locked, Adding, arrays, callVars, IndicesAreRight,
      CloseEvtWriter
<1>7. HandlesAreRight'
  BY DEF IInv, arrays, HandlesAreRight, CloseEvtWriter
<1>8. IdOfFirstLocation'
  BY DEF IInv, ArchiveTypeOK, At, Locked, Adding, arrays, htfVars, callVars,
      IdOfFirstLocation, CloseEvtWriter
<1>9. FilesNameTheArchive'
  <2>1. writers' = writers /\ id' = id /\ file' = file /\ pc' = pc /\ file = NotStored
    BY DEF CloseEvtWriter, arrays, htfVars, callVars, Open
  <2>2. ASSUME NEW m \in Location
        PROVE  /\ stored'[m] \in {NotStored, id} \/ (stored'[m] = 0 /\ GroupIdOf(writers[1]) = 0)
               /\ stored'[m] # NotStored => writers # <<>>
    <3>1. CASE stored'[m] = stored[m]
      BY <3>1 DEF IInv, FilesNameTheArchive
    <3>2. CASE stored'[m] # stored[m]
      <4>1. m = l /\ stored'[m] = id
        BY <3>2 DEF IInv, ArchiveTypeOK, CloseEvtWriter
      <4>2. writers # <<>>
        BY DEF IInv, HandlesAreRight, CloseEvtWriter, Has
      <4> QED
        BY <4>1, <4>2
    <3> QED
      BY <3>1, <3>2
  <2> QED
    BY <2>1, <2>2 DEF FilesNameTheArchive
<1>10. AbortsAreSeen'
  BY DEF IInv, At, Open, AbortsAreSeen, CloseEvtWriter, Has
<1> QED
  BY <1>1, <1>2, <1>3, <1>4, <1>5, <1>6, <1>7, <1>8, <1>9, <1>10 DEF IInv

\* The id changes only from 0, the id of the first location.
LEMMA WriteLocationKeeps ==
  ASSUME IInv, NEW p \in Process, NEW l \in Location, WriteLocation(p, l)
  PROVE  IInv'
<1>1. ArchiveTypeOK'
  BY NoneAssumption, IdsFit, LocationAssumption, GroupAssumption DEF IInv,
      ArchiveTypeOK, At, GoTo, Step, Locked, Adding, Defining, arrays, traceVars,
      CallsHaveLocations, WriteLocation, Has
<1>2. HeldLocks'
  BY DEF IInv, ArchiveTypeOK, At, GoTo, Locked, HtfLocked, Adding, Defining, HeldLocks,
      WriteLocation
<1>3. CallsHaveLocations'
  BY DEF IInv, ArchiveTypeOK, At, GoTo, CallsHaveLocations, WriteLocation
<1>4. SlotsMatchThreads'
  BY DEF IInv, ArchiveTypeOK, At, GoTo, Locked, Adding, arrays, SlotsMatchThreads, HeldLocks,
      WriteLocation
<1>5. NothingFound'
  BY DEF IInv, ArchiveTypeOK, At, GoTo, Locked, Adding, arrays, NothingFound, WriteLocation
<1>6. IndicesAreRight'
  BY DEF IInv, ArchiveTypeOK, At, GoTo, Locked, Adding, arrays, IndicesAreRight, WriteLocation
<1>7. HandlesAreRight'
  BY DEF IInv, arrays, HandlesAreRight, WriteLocation
<1>8. IdOfFirstLocation'
  <2>1. writers' = writers /\ writers # <<>>
    BY DEF IInv, HandlesAreRight, WriteLocation, arrays, Has
  <2>2. id' = id \/ id = 0
    BY DEF WriteLocation
  <2>3. id' = GroupIdOf(writers[1]) \/ GroupIdOf(writers[1]) = 0
    BY <2>1, <2>2 DEF IInv, IdOfFirstLocation
  <2> QED
    BY <2>1, <2>3 DEF IdOfFirstLocation
<1>9. FilesNameTheArchive'
  <2>1. writers' = writers /\ stored' = stored /\ file' = file /\ file = NotStored
    BY DEF WriteLocation, arrays, traceVars, Open
  <2>2. ASSUME NEW m \in Location
        PROVE  /\ stored[m] \in {NotStored, id'} \/ (stored[m] = 0 /\ GroupIdOf(writers[1]) = 0)
               /\ stored[m] # NotStored => writers # <<>>
    <3>1. CASE id' = id
      BY <3>1 DEF IInv, FilesNameTheArchive
    <3>2. CASE id = 0
      BY <3>2 DEF IInv, FilesNameTheArchive, IdOfFirstLocation
    <3> QED
      BY <3>1, <3>2 DEF WriteLocation
  <2> QED
    BY <2>1, <2>2 DEF FilesNameTheArchive
<1>10. AbortsAreSeen'
  BY DEF IInv, At, Open, AbortsAreSeen, WriteLocation, Has
<1> QED
  BY <1>1, <1>2, <1>3, <1>4, <1>5, <1>6, <1>7, <1>8, <1>9, <1>10 DEF IInv

\* A location is defined under the lock of the HTF archive.
LEMMA DefineLocationKeeps ==
  ASSUME IInv, NEW p \in Process, DefineLocation(p)
  PROVE  IInv'
<1>1. ArchiveTypeOK'
  <2>1. pc' \in [Process -> Step]
    BY DEF IInv, ArchiveTypeOK, GoTo, Return, Step, Locked, Adding, Defining, DefineLocation
  <2>2. locations' \in Seq(Location)
    <3>1. location[p] \in Location
      BY DEF IInv, CallsHaveLocations, At, DefineLocation
    <3> QED
      BY <3>1 DEF IInv, ArchiveTypeOK, DefineLocation
  <2>3. kind' \in [Process -> Kind] /\ location' \in [Process -> Location \cup {NoLocation}]
    BY DEF IInv, ArchiveTypeOK, Return, Kind, DefineLocation
  <2>4. index' \in [Process -> Nat] /\ loaded' \in [Process -> BOOLEAN]
    BY DEF IInv, ArchiveTypeOK, Return, Kind, DefineLocation
  <2> QED
    BY <2>1, <2>2, <2>3, <2>4 DEF IInv, ArchiveTypeOK, At, GoTo, Return, Open, DefineLocation,
        arrays, htfVars, traceVars, callVars
<1>2. HeldLocks'
  BY DEF IInv, ArchiveTypeOK, At, GoTo, Return, Locked, HtfLocked, Adding, Defining,
      HeldLocks, DefineLocation
<1>3. CallsHaveLocations'
  BY DEF IInv, ArchiveTypeOK, At, GoTo, Return, CallsHaveLocations, DefineLocation
<1>4. SlotsMatchThreads'
  BY DEF IInv, ArchiveTypeOK, At, GoTo, Return, Locked, Adding, arrays, SlotsMatchThreads,
      DefineLocation
<1>5. NothingFound'
  BY DEF IInv, ArchiveTypeOK, At, GoTo, Return, Locked, Adding, arrays, NothingFound,
      DefineLocation
<1>6. IndicesAreRight'
  BY DEF IInv, ArchiveTypeOK, At, GoTo, Return, Locked, Adding, arrays, IndicesAreRight,
      DefineLocation
<1>7. HandlesAreRight'
  BY DEF IInv, arrays, HandlesAreRight, DefineLocation
<1>8. IdOfFirstLocation'
  BY DEF IInv, ArchiveTypeOK, At, GoTo, Return, Locked, Adding, arrays, IdOfFirstLocation,
      DefineLocation
<1>9. FilesNameTheArchive'
  BY DEF IInv, ArchiveTypeOK, At, GoTo, Return, arrays, traceVars, FilesNameTheArchive,
      DefineLocation
<1>10. AbortsAreSeen'
  BY DEF IInv, At, AbortsAreSeen, DefineLocation
<1> QED
  BY <1>1, <1>2, <1>3, <1>4, <1>5, <1>6, <1>7, <1>8, <1>9, <1>10 DEF IInv

\* The archive is closed when no call is under way, and nothing is left to do.
LEMMA CloseArchiveKeeps ==
  ASSUME IInv, CloseArchive
  PROVE  IInv'
<1>1. ArchiveTypeOK'
  BY DEF IInv, ArchiveTypeOK, CloseArchive, arrays, htfVars, callVars
<1>2. HeldLocks' /\ CallsHaveLocations' /\ SlotsMatchThreads' /\ NothingFound'
  BY DEF IInv, HeldLocks, CallsHaveLocations, SlotsMatchThreads, NothingFound, CloseArchive,
         arrays, htfVars, callVars
<1>3. IndicesAreRight' /\ HandlesAreRight' /\ IdOfFirstLocation'
  BY DEF IInv, IndicesAreRight, HandlesAreRight, IdOfFirstLocation, CloseArchive,
         arrays, htfVars, callVars
<1>4. FilesNameTheArchive' /\ AbortsAreSeen'
  BY DEF IInv, FilesNameTheArchive, AbortsAreSeen, Open, CloseArchive,
         arrays, htfVars, callVars
<1> QED
  BY <1>1, <1>2, <1>3, <1>4 DEF IInv

\* The archive that OTF2_Archive_Open returns.
LEMMA InitIInv == Init => IInv
<1> SUFFICES ASSUME Init PROVE IInv
  OBVIOUS
<1>1. ArchiveTypeOK
  <2>1. <<>> \in Seq(Location) /\ <<>> \in Seq(Id)
    OBVIOUS
  <2>2. writers \in Seq(Location) /\ threads \in Seq(Id) /\ locations \in Seq(Location)
    BY <2>1 DEF Init
  <2>3. 0 \in Id
    BY IdLimitAssumption DEF Id
  <2> QED
    BY <2>2, <2>3 DEF Init, ArchiveTypeOK, Step, Locked, Adding, Defining, Kind
<1>2. HeldLocks /\ CallsHaveLocations /\ NothingFound /\ IndicesAreRight
  BY DEF Init, HeldLocks, CallsHaveLocations, NothingFound, IndicesAreRight,
         Locked, HtfLocked, Adding
<1>3. SlotsMatchThreads
  BY DEF Init, SlotsMatchThreads
<1>4. HandlesAreRight /\ IdOfFirstLocation
  BY DEF Init, HandlesAreRight, IdOfFirstLocation, Adding
<1>5. FilesNameTheArchive /\ AbortsAreSeen
  BY DEF Init, FilesNameTheArchive, AbortsAreSeen
<1> QED
  BY <1>1, <1>2, <1>3, <1>4, <1>5 DEF IInv

\* A step that changes nothing keeps the invariant.
LEMMA StutterKeeps == IInv /\ UNCHANGED vars => IInv'
BY DEF IInv, ArchiveTypeOK, HeldLocks, CallsHaveLocations, SlotsMatchThreads, NothingFound,
       IndicesAreRight, HandlesAreRight, IdOfFirstLocation, FilesNameTheArchive,
       AbortsAreSeen, FindsItsThread, HasThread, Has, vars, arrays, htfVars, callVars, traceVars

\* The invariant holds in every state that the threads can reach.
THEOREM Invariant == Spec => []IInv
<1>1. Init => IInv
  BY InitIInv
<1>2. IInv /\ [Next]_vars => IInv'
  <2> SUFFICES ASSUME IInv, [Next]_vars PROVE IInv'
    OBVIOUS
  <2>1. ASSUME NEW p \in Process, CallStep(p) PROVE IInv'
    BY <2>1, AcquireKeeps, FoundKeeps, NewLocationKeeps, GrowKeeps, PublishKeeps,
       CheckThreadKeeps, AcquireHtfKeeps, InitThreadKeeps, FillSlotKeeps, ReleaseKeeps,
       LoadArrayKeeps, ReturnWriterKeeps, DefineLocationKeeps
       DEF CallStep
  <2>2. ASSUME NEW p \in Process, UserStep(p) PROVE IInv'
    BY <2>2, GetWriterKeeps, RecordEventKeeps, CloseEvtWriterKeeps, WriteLocationKeeps
       DEF UserStep
  <2> QED
    BY <2>1, <2>2, CloseArchiveKeeps, StutterKeeps DEF Next
<1> QED
  BY <1>1, <1>2, PTL DEF Spec

\* The state of the archive, of the locks and of each call keep their types.
THEOREM TypeCorrect == Spec => []ArchiveTypeOK
<1>1. IInv => ArchiveTypeOK
  BY DEF IInv
<1> QED
  BY <1>1, Invariant, PTL

\* pthread_mutex_lock and pthread_mutex_unlock are paired on every path of
\* GetEvtWriter, GetDefWriter, initThread and defineLocation: no two threads
\* are between them.
THEOREM LocksExclude == Spec => []MutualExclusion
<1>1. IInv => MutualExclusion
  BY DEF IInv, HeldLocks, MutualExclusion
<1> QED
  BY <1>1, Invariant, PTL

\* However the calls interleave, a location has one slot, and each slot a thread
\* of its own in the trace.
THEOREM LocationsAreDistinct == Spec => []OneThreadPerLocation
<1>1. IInv => OneThreadPerLocation
  <2> SUFFICES ASSUME IInv, NEW i \in 1..Len(writers), NEW j \in 1..Len(writers),
                      ThreadIdOf(writers[i]) = ThreadIdOf(writers[j])
               PROVE  i = j
    BY DEF OneThreadPerLocation
  <2>1. i \in 1..Len(threads) /\ j \in 1..Len(threads)
    BY DEF IInv, ArchiveTypeOK, SlotsMatchThreads
  <2>2. threads[i] = threads[j]
    BY DEF IInv, SlotsMatchThreads
  <2> QED
    BY <2>1, <2>2 DEF IInv, SlotsMatchThreads
<1> QED
  BY <1>1, Invariant, PTL

\* The index found under the lock stays that of the location after it is
\* dropped: no thread is given the writer of another location.
THEOREM WritersAreNotSwapped == Spec => []NeverAnothersWriter
<1>1. IInv => NeverAnothersWriter
  BY DEF IInv, HandlesAreRight, NeverAnothersWriter
<1> QED
  BY <1>1, Invariant, PTL

\* The thread files and the archive file agree on the id of the archive, but for
\* a thread closed while the id was 0, which that of the first location then is
\* in 32 bits.
THEOREM ArchiveIsFound == Spec => []ThreadsFindTheirArchive
<1>1. IInv => ThreadsFindTheirArchive
  BY DEF IInv, FilesNameTheArchive, ThreadsFindTheirArchive
<1> QED
  BY <1>1, Invariant, PTL

\* The thread found is that of another location, since the slots and the threads
\* agree while the lock is held, and the search found no slot.
LEMMA FoundIsAnother ==
  ASSUME IInv, NEW p \in Process, FindsItsThread(p)
  PROVE  \E i \in 1..Len(writers) :
           /\ writers[i] # location[p]
           /\ ThreadIdOf(writers[i]) = ThreadIdOf(location[p])
<1>1. PICK i \in 1..Len(threads) : threads[i] = ThreadIdOf(location[p])
  BY DEF FindsItsThread, HasThread
<1>2. \A q \in Process : pc[q] # "fill"
  BY DEF IInv, HeldLocks, FindsItsThread, Locked, Adding
<1>3. i \in 1..Len(writers) /\ ThreadIdOf(writers[i]) = ThreadIdOf(location[p])
  BY <1>1, <1>2 DEF IInv, SlotsMatchThreads
<1>4. writers[i] # location[p]
  BY <1>3 DEF IInv, NothingFound, FindsItsThread
<1> QED
  BY <1>3, <1>4

\* The assertion of ThreadWriter::open only fails on two locations that are one
\* thread id, never because two threads add the same location at once.
THEOREM AbortsAreMisuse == Spec => []AbortsOnlyOnMisuse
<1>1. IInv => AbortsOnlyOnMisuse
  <2> SUFFICES ASSUME IInv PROVE AbortsOnlyOnMisuse
    OBVIOUS
  <2>1. AbortsAreSeen
    BY DEF IInv
  <2> QED
    BY <2>1, FoundIsAnother DEF AbortsOnlyOnMisuse, AbortsAreSeen
<1> QED
  BY <1>1, Invariant, PTL
=============================================================================
