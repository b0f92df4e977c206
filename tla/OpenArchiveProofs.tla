------------------------- MODULE OpenArchiveProofs -------------------------
(***************************************************************************)
(* Proofs about OpenArchive, for every layout of the files: each thread is *)
(* loaded once, the list of archives has no archive twice, attribute lists *)
(* are found, and durations are read as they were written.  The functions  *)
(* of a reader that reads archives while it reads archives are on the      *)
(* stack, so most of the invariant is about what the frames of the stack   *)
(* have done and have still to do.  The rest is about words and bytes.     *)
(***************************************************************************)
EXTENDS OpenArchive, SequenceTheorems, TLAPS

Order == INSTANCE WellFoundedInduction

ThreadId == DOMAIN layout.threads
ArchiveId == DOMAIN layout.archives
LocationsOf(g) == layout.archives[g].locations

-----------------------------------------------------------------------------
(* The stack.  obj are the objects read so far, th the threads.            *)

MainFrame == [fn : {"main"}, next : Nat \ {0}]
ArchiveFrame == [fn : {"archive"}, object : Nat \ {0}, next : Nat \ {0}]
GetFrame == [fn : {"get"}]
ThreadFrame == [fn : {"thread", "tables"}, slot : Nat \ {0}]
Frame == MainFrame \cup ArchiveFrame \cup GetFrame \cup ThreadFrame

HasThread(th, t) == \E i \in 1..Len(th) : th[i].id = t

\* The threads of the first n locations of an archive are loaded.
LoadedUpTo(th, g, n) == \A i \in 1..n : HasThread(th, LocationsOf(g)[i])

\* What a frame refers to exists, and what it has passed is loaded.
FrameOK(f, obj, th) ==
  /\ f.fn = "archive" =>
       /\ f.object \in 1..Len(obj)
       /\ f.next <= Len(LocationsOf(obj[f.object])) + 1
       /\ LoadedUpTo(th, obj[f.object], f.next - 1)
  /\ f.fn \in {"thread", "tables"} => f.slot \in 1..Len(th)

\* The frame b may be above a.  An archive that was asked for is not the first.
Calls(a, b, obj) ==
  \/ a.fn = "main" /\ b.fn \in {"archive", "get"}
  \/ /\ a.fn = "archive" /\ b.fn \in {"thread", "tables"}
     /\ LocationsOf(obj[a.object]) # <<>>
  \/ a.fn = "thread" /\ b.fn = "get"
  \/ a.fn = "get" /\ b.fn = "archive" /\ b.object >= 2

\* The archive b is read for the thread a, which called it through a get.
IsFor(a, b, obj, th) ==
  a.fn = "thread" => obj[b.object] = layout.threads[th[a.slot].id]

StackOK(s, obj, th) ==
  /\ s \in Seq(Frame)
  /\ s # <<>> => s[1].fn = "main"
  /\ \A k \in 1..Len(s) : FrameOK(s[k], obj, th)
  /\ \A k \in 1..(Len(s) - 1) : Calls(s[k], s[k + 1], obj)
  /\ \A k \in 1..(Len(s) - 2) : IsFor(s[k], s[k + 2], obj, th)

Frames(s) == {s[k] : k \in 1..Len(s)}

-----------------------------------------------------------------------------
(* The inductive invariant *)

Tables == {<<>>, <<ReadSummary(file, settings)>>}

LoadedThread == [id : ThreadId, archive : Nat, events : Tables]

TypeInv ==
  /\ layout \in Layout
  /\ opened \in ArchiveId /\ layout.archives[opened] # Missing
  /\ objects \in Seq(ArchiveId)
  /\ threads \in Seq(LoadedThread)
  /\ archive_list \in Seq(Nat)
  /\ nb_allocated_archives \in Nat

\* The phases in which the reader has a stack, or something to read from.
PhaseInv ==
  /\ phase = "recording" =>
       /\ stack = <<>> /\ objects = <<>> /\ threads = <<>> /\ archive_list = <<>>
       /\ cursor = 1 /\ results = <<>>
  /\ phase = "opening" => /\ stack # <<>> /\ Top.fn # "get" /\ objects # <<>>
                          /\ file = EventFile(summary, settings)
                          /\ cursor = 1 /\ results = <<>>
  /\ phase = "opened" => stack = <<>> /\ file = EventFile(summary, settings)

ObjectsOK(obj, list) ==
  /\ \A i \in 1..Len(obj) : layout.archives[obj[i]] # Missing
  /\ \A i \in 1..Len(list) : list[i] \in 1..Len(obj)

\* Each thread is a location of an archive that was read, and there once.
ThreadsOK(obj, th) ==
  /\ \A i, j \in 1..Len(th) : th[i].id = th[j].id => i = j
  /\ \A i \in 1..Len(th) :
       /\ layout.threads[th[i].id] \in ArchiveId
       /\ \E o \in 1..Len(obj) : \E n \in 1..Len(LocationsOf(obj[o])) :
            LocationsOf(obj[o])[n] = th[i].id

\* The archive of a thread is the one its file names.
HasItsArchive(obj, th, i) ==
  LET named == layout.threads[th[i].id]
  IN  IF layout.archives[named] = Missing THEN th[i].archive = 0
      ELSE th[i].archive \in 1..Len(obj) /\ obj[th[i].archive] = named

\* What is not done is on the stack.
PendingOK(s, obj, th) ==
  /\ \A i \in 1..Len(obj) :
       \/ \E f \in Frames(s) : f.fn = "archive" /\ f.object = i
       \/ LoadedUpTo(th, obj[i], Len(LocationsOf(obj[i])))
  /\ \A i \in 1..Len(th) :
       \/ \E f \in Frames(s) : f.fn = "thread" /\ f.slot = i
       \/ HasItsArchive(obj, th, i)
  /\ \A i \in 1..Len(th) :
       \/ \E f \in Frames(s) : f.fn \in {"thread", "tables"} /\ f.slot = i
       \/ th[i].events # <<>>

\* Only the archive that was opened has locations.
NoOwnLocations(obj) == \A i \in 2..Len(obj) : LocationsOf(obj[i]) = <<>>

\* The archive on top is read for the list of archives.
ForTheList(s) == Front(s) # <<>> /\ Last(Front(s)).fn = "get"

\* If archives of location groups have no locations, nothing happens to the list
\* between the room that is made in it for an archive and the archive.
ListOK(s, obj, list, allocated, over) ==
  NoOwnLocations(obj) =>
    /\ ~over
    /\ \A i, j \in 1..Len(list) : obj[list[i]] = obj[list[j]] => i = j
    /\ ForTheList(s) => /\ Len(list) < allocated
                        /\ \A i \in 1..Len(list) : obj[list[i]] # obj[Last(s).object]

Recorded == VectorSize(summary.durations)

\* The lists are in the order of their occurrences.
SummaryInv ==
  /\ summary.durations # <<>>
  /\ summary.durations \in Seq([starting_index : Nat, items : Seq(Duration)])
  /\ summary.attributes \in Seq(Nat)
  /\ \A i \in 1..Len(summary.attributes) : summary.attributes[i] < Recorded
  /\ \A i, j \in 1..Len(summary.attributes) :
       i < j => summary.attributes[i] < summary.attributes[j]

\* The lists before the cursor are those of occurrences that were read.
CursorInv ==
  /\ cursor \in Nat \ {0} /\ results \in Seq(BOOLEAN)
  /\ \A i \in 1..Len(summary.attributes) : i < cursor => summary.attributes[i] < Len(results)

IInv ==
  /\ TypeInv /\ PhaseInv
  /\ StackOK(stack, objects, threads) /\ PendingOK(stack, objects, threads)
  /\ ThreadsOK(objects, threads) /\ ObjectsOK(objects, archive_list)
  /\ ListOK(stack, objects, archive_list, nb_allocated_archives, overrun)
  /\ SummaryInv /\ CursorInv /\ AttributesAreFound


-----------------------------------------------------------------------------
(* What pushing and popping frames does to the stack *)

\* A stack that is not empty is its front and its top.
LEMMA TopAndRest ==
  ASSUME NEW S, NEW s \in Seq(S), s # <<>>
  PROVE  /\ Front(s) \in Seq(S) /\ Last(s) \in S /\ s = Append(Front(s), Last(s))
         /\ Len(Front(s)) = Len(s) - 1 /\ Len(s) \in Nat \ {0}
         /\ \A k \in 1..(Len(s) - 1) : Front(s)[k] = s[k]
<1>1. Len(s) \in Nat \ {0}
  BY EmptySeq
<1>2. /\ Len(s) \in 1..Len(s) /\ Len(s) - 1 \in Nat /\ 1 \in 1..Len(s) + 1
      /\ Len(s) - 1 \in (1 - 1)..Len(s)
  BY <1>1
<1>3. /\ Front(s) \in Seq(S) /\ Len(Front(s)) = Len(s) - 1
      /\ \A k \in 1..(Len(s) - 1) : Front(s)[k] = s[k]
  <2> DEFINE n == Len(s) - 1
  <2>1. n \in 0..Len(s) /\ 1 \in 1..Len(s) + 1 /\ n \in (1 - 1)..Len(s)
    BY <1>1
  <2> HIDE DEF n
  <2>2. /\ SubSeq(s, 1, n) \in Seq(S) /\ Len(SubSeq(s, 1, n)) = n
        /\ \A k \in 1..n : SubSeq(s, 1, n)[k] = s[k]
    BY <2>1, SubSeqProperties
  <2> QED BY <2>2 DEF Front, n
<1>4. Last(s) \in S /\ Last(s) = s[Len(s)]
  BY <1>2, ElementOfSeq DEF Last
<1> DEFINE f == Front(s)
           x == Last(s)
           t == Append(f, x)
<1> HIDE DEF f, x
<1>5. /\ t \in Seq(S) /\ Len(t) = Len(f) + 1 /\ t[Len(f) + 1] = x
      /\ \A k \in 1..Len(f) : t[k] = f[k]
  BY <1>3, <1>4, AppendProperties DEF f, x
<1> HIDE DEF t
<1>6. Len(t) = Len(s)
  BY <1>1, <1>3, <1>5 DEF f
<1>7. \A k \in 1..Len(s) : t[k] = s[k]
  <2> SUFFICES ASSUME NEW k \in 1..Len(s)
               PROVE  t[k] = s[k]
    OBVIOUS
  <2>1. CASE k = Len(s)
    BY <1>1, <1>3, <1>4, <1>5, <2>1 DEF f, x
  <2>2. CASE k \in 1..(Len(s) - 1)
    BY <1>3, <1>5, <2>2 DEF f
  <2> QED BY <1>1, <2>1, <2>2
<1>8. s = t
  BY <1>5, <1>6, <1>7, SeqEqual
<1> QED BY <1>1, <1>3, <1>4, <1>8 DEF f, x, t

\* What is on a stack after a frame was pushed.
LEMMA Push ==
  ASSUME NEW S, NEW s \in Seq(S), NEW f \in S
  PROVE  /\ Append(s, f) \in Seq(S) /\ Append(s, f) # <<>>
         /\ Len(Append(s, f)) = Len(s) + 1 /\ Len(s) \in Nat
         /\ Last(Append(s, f)) = f /\ Front(Append(s, f)) = s
         /\ \A k \in 1..Len(s) : Append(s, f)[k] = s[k]
         /\ Append(s, f)[Len(s) + 1] = f
         /\ Frames(Append(s, f)) = Frames(s) \cup {f}
<1> DEFINE t == Append(s, f)
<1>1. /\ t \in Seq(S) /\ Len(t) = Len(s) + 1 /\ Len(s) \in Nat
      /\ \A k \in 1..Len(s) : t[k] = s[k]
      /\ t[Len(s) + 1] = f
  BY AppendProperties
<1> HIDE DEF t
<1>2. t # <<>> /\ Last(t) = f
  BY <1>1 DEF Last
<1>3. Front(t) = s
  <2>1. /\ Front(t) \in Seq(S) /\ Len(Front(t)) = Len(s)
        /\ \A k \in 1..Len(s) : Front(t)[k] = s[k]
    BY <1>1, <1>2, TopAndRest
  <2> HIDE DEF Front
  <2> QED BY <2>1, SeqEqual
<1>4. Frames(t) = Frames(s) \cup {f}
  <2>1. 1..Len(t) = 1..Len(s) \cup {Len(s) + 1}
    BY <1>1
  <2> QED BY <1>1, <2>1 DEF Frames
<1> QED BY <1>1, <1>2, <1>3, <1>4 DEF t

\* The frames of a stack are its top and those below.
LEMMA FramesOf ==
  ASSUME NEW S, NEW s \in Seq(S), s # <<>>
  PROVE  Frames(s) = Frames(Front(s)) \cup {Last(s)}
<1> DEFINE f == Front(s)
           x == Last(s)
<1>1. f \in Seq(S) /\ x \in S /\ s = Append(f, x)
  BY TopAndRest
<1> HIDE DEF f, x
<1>2. Frames(Append(f, x)) = Frames(f) \cup {x}
  BY <1>1, Push
<1> QED BY <1>1, <1>2 DEF f, x

\* What holds of a stack holds of what is below its top.
LEMMA PopOK ==
  ASSUME NEW obj, NEW th, NEW s, StackOK(s, obj, th), s # <<>>
  PROVE  StackOK(Front(s), obj, th)
<1> DEFINE f == Front(s)
<1>1. s \in Seq(Frame)
  BY DEF StackOK
<1>2. /\ f \in Seq(Frame) /\ Len(f) = Len(s) - 1 /\ Len(s) \in Nat \ {0}
      /\ \A k \in 1..(Len(s) - 1) : f[k] = s[k]
  BY <1>1, TopAndRest
<1> HIDE DEF f
<1>3. f # <<>> => f[1].fn = "main"
  <2> SUFFICES ASSUME f # <<>>
               PROVE  f[1].fn = "main"
    OBVIOUS
  <2>1. Len(f) \in Nat \ {0} /\ 1 \in 1..(Len(s) - 1)
    BY <1>2, EmptySeq
  <2>2. s # <<>>
    BY <1>2
  <2> QED BY <1>2, <2>1, <2>2 DEF StackOK
<1>4. \A k \in 1..Len(f) : FrameOK(f[k], obj, th)
  BY <1>2 DEF StackOK
<1>5. ASSUME NEW k \in 1..(Len(f) - 1)
      PROVE  Calls(f[k], f[k + 1], obj)
  <2>1. k \in 1..(Len(s) - 1) /\ k + 1 \in 1..(Len(s) - 1)
    BY <1>2
  <2> QED BY <1>2, <2>1 DEF StackOK
<1>6. ASSUME NEW k \in 1..(Len(f) - 2)
      PROVE  IsFor(f[k], f[k + 2], obj, th)
  <2>1. k \in 1..(Len(s) - 2) /\ k \in 1..(Len(s) - 1) /\ k + 2 \in 1..(Len(s) - 1)
    BY <1>2
  <2> QED BY <1>2, <2>1 DEF StackOK
<1> QED BY <1>2, <1>3, <1>4, <1>5, <1>6 DEF StackOK, f

\* A frame may be pushed that the top may call.
LEMMA PushOK ==
  ASSUME NEW obj, NEW th, NEW s, StackOK(s, obj, th), s # <<>>, NEW f \in Frame,
         FrameOK(f, obj, th), Calls(Last(s), f, obj),
         Front(s) # <<>> => IsFor(Last(Front(s)), f, obj, th)
  PROVE  StackOK(Append(s, f), obj, th)
<1> DEFINE t == Append(s, f)
<1>1. s \in Seq(Frame)
  BY DEF StackOK
<1>2. /\ t \in Seq(Frame) /\ Len(t) = Len(s) + 1 /\ Len(s) \in Nat \ {0}
      /\ \A k \in 1..Len(s) : t[k] = s[k]
      /\ t[Len(s) + 1] = f
  BY <1>1, Push, EmptySeq
<1>3. /\ Front(s) \in Seq(Frame) /\ Len(Front(s)) = Len(s) - 1
      /\ \A k \in 1..(Len(s) - 1) : Front(s)[k] = s[k]
  BY <1>1, TopAndRest
<1> HIDE DEF t
<1>4. t[1].fn = "main"
  BY <1>2 DEF StackOK
<1>5. ASSUME NEW k \in 1..Len(t)
      PROVE  FrameOK(t[k], obj, th)
  <2>1. k \in 1..Len(s) \/ k = Len(s) + 1
    BY <1>2
  <2> QED BY <1>2, <2>1 DEF StackOK
<1>6. ASSUME NEW k \in 1..(Len(t) - 1)
      PROVE  Calls(t[k], t[k + 1], obj)
  <2>1. CASE k = Len(s)
    BY <1>2, <2>1 DEF Last
  <2>2. CASE k \in 1..(Len(s) - 1)
    <3>1. k \in 1..Len(s) /\ k + 1 \in 1..Len(s)
      BY <1>2, <2>2
    <3> QED BY <1>2, <2>2, <3>1 DEF StackOK
  <2> QED BY <1>2, <2>1, <2>2
<1>7. ASSUME NEW k \in 1..(Len(t) - 2)
      PROVE  IsFor(t[k], t[k + 2], obj, th)
  <2>1. CASE k = Len(s) - 1
    <3>1. Len(Front(s)) \in Nat \ {0} /\ Front(s) # <<>> /\ k \in 1..(Len(s) - 1) /\ k \in 1..Len(s)
      BY <1>2, <1>3, <2>1
    <3>2. Last(Front(s)) = s[k]
      BY <1>3, <2>1, <3>1 DEF Last
    <3>3. k + 2 = Len(s) + 1
      BY <1>2, <2>1
    <3> QED BY <1>2, <3>1, <3>2, <3>3
  <2>2. CASE k \in 1..(Len(s) - 2)
    <3>1. k \in 1..Len(s) /\ k + 2 \in 1..Len(s)
      BY <1>2, <2>2
    <3> QED BY <1>2, <2>2, <3>1 DEF StackOK
  <2> QED BY <1>2, <2>1, <2>2
<1> QED BY <1>2, <1>4, <1>5, <1>6, <1>7 DEF StackOK, t


\* The top frame, and what holds of it and the two frames below.
LEMMA TopOK ==
  ASSUME NEW obj, NEW th, NEW s, StackOK(s, obj, th), s # <<>>
  PROVE  /\ s \in Seq(Frame) /\ Front(s) \in Seq(Frame) /\ Last(s) \in Frame
         /\ FrameOK(Last(s), obj, th)
         /\ Front(s) = <<>> <=> Last(s).fn = "main"
         /\ Front(s) # <<>> => Calls(Last(Front(s)), Last(s), obj)
         /\ Front(s) # <<>> /\ Front(Front(s)) # <<>> =>
              IsFor(Last(Front(Front(s))), Last(s), obj, th)
<1> DEFINE f == Front(s)
           n == Len(s)
<1>1. s \in Seq(Frame)
  BY DEF StackOK
<1>2. /\ f \in Seq(Frame) /\ Last(s) \in Frame /\ Len(f) = n - 1 /\ n \in Nat \ {0}
      /\ \A k \in 1..(n - 1) : f[k] = s[k]
  BY <1>1, TopAndRest
<1> HIDE DEF f
<1>3. n \in 1..n /\ Last(s) = s[n]
  BY <1>2 DEF Last
<1>4. ASSUME f # <<>>
      PROVE  n - 1 \in 1..(n - 1) /\ Last(f) = s[n - 1] /\ Calls(s[n - 1], s[n], obj)
  <2>1. Len(f) \in Nat \ {0}
    BY <1>2, <1>4, EmptySeq
  <2>2. n - 1 \in 1..(n - 1) /\ n - 1 + 1 = n
    BY <1>2, <2>1
  <2>3. Calls(s[n - 1], s[n - 1 + 1], obj)
    BY <2>2 DEF StackOK
  <2>4. Last(f) = s[n - 1]
    BY <1>2, <2>2 DEF Last
  <2> QED BY <2>2, <2>3, <2>4
<1>5. f = <<>> <=> Last(s).fn = "main"
  <2>1. CASE f = <<>>
    <3>1. n = 1
      BY <1>2, <2>1
    <3> QED BY <1>3, <2>1, <3>1 DEF StackOK
  <2>2. CASE f # <<>>
    BY <1>3, <1>4, <2>2 DEF Calls
  <2> QED BY <2>1, <2>2
<1>6. ASSUME f # <<>>, Front(f) # <<>>
      PROVE  IsFor(Last(Front(f)), Last(s), obj, th)
  <2>1. /\ Front(f) \in Seq(Frame) /\ Len(Front(f)) = Len(f) - 1
        /\ \A k \in 1..(Len(f) - 1) : Front(f)[k] = f[k]
    BY <1>2, <1>6, TopAndRest
  <2>2. Len(Front(f)) \in Nat \ {0}
    BY <1>6, <2>1, EmptySeq
  <2>3. /\ n - 2 \in 1..(n - 2) /\ n - 2 \in 1..(Len(f) - 1) /\ n - 2 \in 1..(n - 1)
        /\ n - 2 + 2 = n /\ Len(Front(f)) = n - 2
    BY <1>2, <2>1, <2>2
  <2>4. Last(Front(f)) = s[n - 2]
    <3>1. Last(Front(f)) = Front(f)[n - 2]
      BY <2>3 DEF Last
    <3>2. Front(f)[n - 2] = f[n - 2] /\ f[n - 2] = s[n - 2]
      BY <1>2, <2>1, <2>3
    <3> QED BY <3>1, <3>2
  <2>5. IsFor(s[n - 2], s[n - 2 + 2], obj, th)
    BY <2>3 DEF StackOK
  <2> QED BY <1>3, <2>3, <2>4, <2>5
<1> QED BY <1>1, <1>2, <1>3, <1>4, <1>5, <1>6 DEF StackOK, f

\* The top may become a frame of the same function, or the tables of its thread.
LEMMA ReplaceOK ==
  ASSUME NEW obj, NEW th, NEW s, StackOK(s, obj, th), s # <<>>, NEW f \in Frame,
         FrameOK(f, obj, th),
         \/ f.fn = "main" /\ Last(s).fn = "main"
         \/ f.fn = "archive" /\ Last(s).fn = "archive" /\ f.object = Last(s).object
         \/ f.fn = "tables" /\ Last(s).fn = "thread"
  PROVE  StackOK(Append(Front(s), f), obj, th)
<1> DEFINE r == Front(s)
<1>1. /\ r \in Seq(Frame) /\ r = <<>> <=> Last(s).fn = "main"
      /\ r # <<>> => Calls(Last(r), Last(s), obj)
      /\ r # <<>> /\ Front(r) # <<>> => IsFor(Last(Front(r)), Last(s), obj, th)
  BY TopOK
<1>2. StackOK(r, obj, th)
  BY PopOK
<1> HIDE DEF r
<1>3. CASE r = <<>>
  <2>1. f.fn = "main"
    BY <1>1, <1>3
  <2>2. Append(r, f) = <<f>> /\ <<f>> \in Seq(Frame) /\ Len(<<f>>) = 1 /\ <<f>>[1] = f
    BY <1>3
  <2>3. 1..1 = {1} /\ 1..(1 - 1) = {} /\ 1..(1 - 2) = {}
    OBVIOUS
  <2> QED BY <2>1, <2>2, <2>3 DEF StackOK, r
<1>4. CASE r # <<>>
  <2>1. Calls(Last(r), f, obj)
    BY <1>1, <1>4 DEF Calls
  <2>2. ASSUME Front(r) # <<>>
        PROVE  IsFor(Last(Front(r)), f, obj, th)
    <3>1. Calls(Last(Front(r)), Last(r), obj)
      BY <1>2, <1>4, <2>2, TopOK
    <3>2. CASE f.fn = "archive"
      BY <1>1, <1>4, <2>2, <3>2 DEF IsFor
    <3>3. CASE f.fn # "archive"
      BY <2>1, <3>1, <3>3 DEF IsFor, Calls
    <3> QED BY <3>2, <3>3
  <2> QED BY <1>2, <1>4, <2>1, <2>2, PushOK DEF r
<1> QED BY <1>3, <1>4

\* s2 has the elements of s, and perhaps more.
Longer(s, s2) == Len(s) <= Len(s2) /\ \A i \in 1..Len(s) : s2[i] = s[i]

\* The recursion stays in order when more archives and threads are loaded.
LEMMA GrowOK ==
  ASSUME NEW obj \in Seq(ArchiveId), NEW obj2 \in Seq(ArchiveId),
         NEW th \in Seq(LoadedThread), NEW th2 \in Seq(LoadedThread),
         Longer(obj, obj2), Len(th) <= Len(th2), \A i \in 1..Len(th) : th2[i].id = th[i].id,
         NEW s, StackOK(s, obj, th)
  PROVE  StackOK(s, obj2, th2)
<1>1. /\ \A i \in 1..Len(obj) : i \in 1..Len(obj2) /\ obj2[i] = obj[i]
      /\ \A i \in 1..Len(th) : i \in 1..Len(th2)
  BY DEF Longer
<1>2. \A t : HasThread(th, t) => HasThread(th2, t)
  BY <1>1 DEF HasThread
<1>3. \A k \in 1..Len(s) : FrameOK(s[k], obj, th)
  BY DEF StackOK
<1>4. \A f : FrameOK(f, obj, th) => FrameOK(f, obj2, th2)
  BY <1>1, <1>2 DEF FrameOK, LoadedUpTo
<1>5. Len(s) \in Nat
  BY LenProperties DEF StackOK
<1>6. ASSUME NEW k \in 1..(Len(s) - 1)
      PROVE  Calls(s[k], s[k + 1], obj2)
  <2>1. k \in 1..Len(s) /\ Calls(s[k], s[k + 1], obj)
    BY <1>5 DEF StackOK
  <2> QED BY <1>1, <1>3, <2>1 DEF Calls, FrameOK
<1>7. ASSUME NEW k \in 1..(Len(s) - 2)
      PROVE  IsFor(s[k], s[k + 2], obj2, th2)
  <2>1. /\ k \in 1..Len(s) /\ k + 2 \in 1..Len(s) /\ k \in 1..(Len(s) - 1)
        /\ k + 1 \in 1..(Len(s) - 1) /\ k + 1 + 1 = k + 2
    BY <1>5
  <2>2. /\ IsFor(s[k], s[k + 2], obj, th) /\ Calls(s[k], s[k + 1], obj)
        /\ Calls(s[k + 1], s[k + 2], obj)
    BY <2>1 DEF StackOK
  <2> QED BY <1>1, <1>3, <2>1, <2>2 DEF IsFor, Calls, FrameOK
<1> QED BY <1>3, <1>4, <1>6, <1>7 DEF StackOK


-----------------------------------------------------------------------------
(* What the reader does to its stack, its objects and its threads *)

\* The loop of the top function takes its next turn.
LEMMA AdvanceIs ==
  ASSUME NEW s \in Seq(Frame), s # <<>>, Last(s).fn \in {"main", "archive"}
  PROVE  LET f == [Last(s) EXCEPT !.next = @ + 1]
         IN  /\ Advance(s) = Append(Front(s), f)
             /\ f \in Frame /\ f.fn = Last(s).fn /\ f.next = Last(s).next + 1
             /\ Last(s).fn = "archive" => f.object = Last(s).object
             /\ Last(s).next \in Nat \ {0}
<1> DEFINE x == Last(s)
           f == [x EXCEPT !.next = @ + 1]
           r == Front(s)
           t == Append(r, f)
           n == Len(s)
<1>1. /\ r \in Seq(Frame) /\ x \in Frame /\ Len(r) = n - 1 /\ n \in Nat \ {0}
      /\ \A k \in 1..(n - 1) : r[k] = s[k]
  BY TopAndRest
<1>2. s[n] = x
  BY DEF Last
<1> HIDE DEF x, r
<1>3. /\ f \in Frame /\ f.fn = x.fn /\ f.next = x.next + 1 /\ x.next \in Nat \ {0}
      /\ x.fn = "archive" => f.object = x.object
  <2>1. x \in MainFrame \/ x \in ArchiveFrame
    BY <1>1 DEF Frame, GetFrame, ThreadFrame, x
  <2>2. CASE x \in MainFrame
    BY <2>2 DEF Frame, MainFrame
  <2>3. CASE x \in ArchiveFrame
    BY <2>3 DEF Frame, ArchiveFrame
  <2> QED BY <2>1, <2>2, <2>3
<1>4. Advance(s) = [s EXCEPT ![n] = f]
  BY <1>2 DEF Advance
<1> HIDE DEF f
<1>5. /\ t \in Seq(Frame) /\ Len(t) = n /\ t[n] = f
      /\ \A k \in 1..(n - 1) : t[k] = s[k]
  BY <1>1, <1>3, AppendProperties
<1> HIDE DEF t
<1>6. [s EXCEPT ![n] = f] = t
  <2> DEFINE u == [s EXCEPT ![n] = f]
  <2>1. n \in 1..n
    BY <1>1
  <2>2. u \in Seq(Frame) /\ Len(u) = n /\ \A k \in 1..n : u[k] = IF k = n THEN f ELSE s[k]
    BY <1>3, <2>1, ExceptSeq
  <2> HIDE DEF u
  <2>3. \A k \in 1..n : k = n \/ k \in 1..(n - 1)
    BY <1>1
  <2>4. \A k \in 1..Len(u) : u[k] = t[k]
    BY <1>5, <2>2, <2>3
  <2> QED BY <1>5, <2>2, <2>4, SeqEqual DEF u
<1> QED BY <1>3, <1>4, <1>6 DEF f, t, x, r

\* No archive of the list is being read below the top, if only the opened archive
\* has locations.
LEMMA NotForTheListBelow ==
  ASSUME NEW obj, NEW th, NEW s, StackOK(s, obj, th), s # <<>>, NoOwnLocations(obj)
  PROVE  ~ForTheList(Front(s))
<1> SUFFICES ASSUME ForTheList(Front(s))
             PROVE  FALSE
  OBVIOUS
<1> DEFINE r == Front(s)
<1>1. StackOK(r, obj, th) /\ Front(r) # <<>> /\ Last(Front(r)).fn = "get"
  BY PopOK DEF ForTheList
<1>2. r # <<>>
  <2>1. Front(<<>>) = <<>>
    BY SubSeqEmpty DEF Front
  <2> QED BY <1>1, <2>1
<1>3. Calls(Last(r), Last(s), obj)
  BY <1>2, TopOK
<1> HIDE DEF r
<1>4. Last(r).fn = "archive" /\ Last(r).object >= 2 /\ FrameOK(Last(r), obj, th)
  BY <1>1, <1>2, TopOK DEF Calls
<1>5. Last(r).object \in 2..Len(obj)
  BY <1>4 DEF FrameOK
<1> QED BY <1>3, <1>4, <1>5 DEF Calls, NoOwnLocations

\* What is read for the list is an archive, not the first.
LEMMA ForTheListIs ==
  ASSUME NEW obj, NEW th, NEW s, StackOK(s, obj, th), s # <<>>, ForTheList(s)
  PROVE  Last(s).fn = "archive" /\ Last(s).object \in 2..Len(obj)
<1>1. Calls(Last(Front(s)), Last(s), obj) /\ FrameOK(Last(s), obj, th)
  BY TopOK DEF ForTheList
<1> QED BY <1>1 DEF ForTheList, Calls, FrameOK


\* What is on s to be done is on s2.
Carries(s, s2) ==
  \A f \in Frames(s) : \E f2 \in Frames(s2) :
    /\ f2.fn = f.fn
    /\ f.fn = "archive" => f2.object = f.object
    /\ f.fn \in {"thread", "tables"} => f2.slot = f.slot

\* A stack that carries on another has what was pending on it.
LEMMA CarriesPending ==
  ASSUME NEW s, NEW s2, Carries(s, s2), NEW obj, NEW th, PendingOK(s, obj, th)
  PROVE  PendingOK(s2, obj, th)
<1>1. \A i \in 1..Len(obj) :
        (\E f \in Frames(s) : f.fn = "archive" /\ f.object = i) =>
          \E f \in Frames(s2) : f.fn = "archive" /\ f.object = i
  BY DEF Carries
<1>2. \A i : (\E f \in Frames(s) : f.fn = "thread" /\ f.slot = i) =>
               \E f \in Frames(s2) : f.fn = "thread" /\ f.slot = i
  BY DEF Carries
<1>3. \A i : (\E f \in Frames(s) : f.fn \in {"thread", "tables"} /\ f.slot = i) =>
               \E f \in Frames(s2) : f.fn \in {"thread", "tables"} /\ f.slot = i
  BY DEF Carries
<1> QED BY <1>1, <1>2, <1>3 DEF PendingOK

\* A loop takes its next turn when what it passes is loaded.
LEMMA AdvanceOK ==
  ASSUME NEW obj, NEW th, NEW s, StackOK(s, obj, th), s # <<>>,
         \/ Last(s).fn = "main"
         \/ /\ Last(s).fn = "archive"
            /\ Last(s).next <= Len(LocationsOf(obj[Last(s).object]))
            /\ HasThread(th, LocationsOf(obj[Last(s).object])[Last(s).next])
  PROVE  LET s2 == Advance(s)
         IN  /\ StackOK(s2, obj, th) /\ Carries(s, s2) /\ s2 # <<>>
             /\ Last(s2).fn = Last(s).fn /\ Front(s2) = Front(s)
             /\ Last(s).fn = "archive" => Last(s2).object = Last(s).object
<1> DEFINE x  == Last(s)
           r  == Front(s)
           f  == [x EXCEPT !.next = @ + 1]
           s2 == Append(r, f)
<1>1. s \in Seq(Frame) /\ r \in Seq(Frame) /\ FrameOK(x, obj, th)
  BY TopOK
<1>2. /\ Advance(s) = s2 /\ f \in Frame /\ f.fn = x.fn /\ f.next = x.next + 1
      /\ x.fn = "archive" => f.object = x.object
      /\ x.next \in Nat \ {0}
  BY <1>1, AdvanceIs
<1> HIDE DEF f
<1>3. FrameOK(f, obj, th)
  <2>1. CASE x.fn = "main"
    BY <1>2, <2>1 DEF FrameOK
  <2>2. CASE x.fn = "archive"
    <3> DEFINE l == LocationsOf(obj[x.object])
    <3>1. x.object \in 1..Len(obj) /\ LoadedUpTo(th, obj[x.object], x.next - 1)
      BY <1>1, <2>2 DEF FrameOK
    <3>2. HasThread(th, l[x.next]) /\ x.next <= Len(l)
      BY <2>2
    <3> HIDE DEF l, x
    <3>3. \A i \in 1..x.next : i = x.next \/ i \in 1..(x.next - 1)
      BY <1>2
    <3>4. LoadedUpTo(th, obj[x.object], x.next)
      BY <3>1, <3>2, <3>3 DEF LoadedUpTo, l
    <3>5. f.next - 1 = x.next
      BY <1>2
    <3>6. f.next <= Len(l) + 1
      BY <1>2, <3>2
    <3> QED BY <1>2, <2>2, <3>1, <3>4, <3>5, <3>6 DEF FrameOK, l, x
  <2> QED BY <2>1, <2>2
<1>4. StackOK(s2, obj, th)
  BY <1>2, <1>3, ReplaceOK
<1> HIDE DEF x, r
<1>5. /\ Frames(s2) = Frames(r) \cup {f} /\ Frames(s) = Frames(r) \cup {x}
      /\ s2 # <<>> /\ Last(s2) = f /\ Front(s2) = r
  BY <1>1, <1>2, Push, FramesOf DEF x, r
<1>6. Carries(s, s2)
  <2>1. x.fn \in {"main", "archive"}
    BY DEF x
  <2> QED BY <1>2, <1>5, <2>1 DEF Carries
<1> QED BY <1>2, <1>4, <1>5, <1>6 DEF x, r


\* The top of s asks for the archive g.
AsksFor(s, th, g) ==
  /\ Last(s).fn \in {"main", "thread"}
  /\ Last(s).fn = "thread" => g = layout.threads[th[Last(s).slot].id]

\* The frames that _htf_get_archive pushes for an archive that it reads.
WithGet(s, o) == s \o << [fn |-> "get"], [fn |-> "archive", object |-> o, next |-> 1] >>

\* Asking for an archive keeps the recursion in order.
LEMMA PushGetOK ==
  ASSUME NEW obj, NEW th, NEW s, StackOK(s, obj, th), s # <<>>,
         NEW o \in 1..Len(obj), o >= 2, AsksFor(s, th, obj[o]), NEW s2, s2 = WithGet(s, o)
  PROVE  /\ StackOK(s2, obj, th) /\ Carries(s, s2) /\ s2 # <<>>
         /\ Last(s2).fn = "archive" /\ Last(s2).object = o
         /\ \E f \in Frames(s2) : f.fn = "archive" /\ f.object = o
<1> DEFINE g == [fn |-> "get"]
           a == [fn |-> "archive", object |-> o, next |-> 1]
           t == Append(s, g)
           u == Append(t, a)
<1>1. /\ s \in Seq(Frame) /\ Last(s).fn \in {"main", "thread"}
      /\ Last(s).fn = "thread" => obj[o] = layout.threads[th[Last(s).slot].id]
  BY DEF StackOK, AsksFor
<1>2. g \in Frame /\ g.fn = "get" /\ a \in Frame /\ a.fn = "archive" /\ a.object = o /\ a.next = 1
  BY DEF Frame, GetFrame, ArchiveFrame
<1>3. s2 = u
  BY <1>1, <1>2 DEF WithGet
<1>4. FrameOK(g, obj, th)
  BY <1>2 DEF FrameOK
<1>5. FrameOK(a, obj, th)
  <2>1. 1 <= Len(LocationsOf(obj[o])) + 1 /\ 1..(1 - 1) = {}
    BY LenProperties
  <2> QED BY <1>2, <2>1 DEF FrameOK, LoadedUpTo
<1> HIDE DEF g, a
<1>6. StackOK(t, obj, th)
  <2>1. Calls(Last(s), g, obj)
    BY <1>1, <1>2 DEF Calls
  <2>2. ASSUME Front(s) # <<>>
        PROVE  IsFor(Last(Front(s)), g, obj, th)
    <3>1. Calls(Last(Front(s)), Last(s), obj)
      BY <2>2, TopOK
    <3> QED BY <1>1, <3>1 DEF Calls, IsFor
  <2> QED BY <1>2, <1>4, <2>1, <2>2, PushOK
<1>7. /\ t \in Seq(Frame) /\ t # <<>> /\ Last(t) = g /\ Front(t) = s
      /\ Frames(t) = Frames(s) \cup {g}
  BY <1>1, <1>2, Push
<1> HIDE DEF t
<1>8. StackOK(u, obj, th)
  <2>1. Calls(Last(t), a, obj)
    BY <1>2, <1>7 DEF Calls
  <2>2. IsFor(Last(s), a, obj, th)
    BY <1>1, <1>2 DEF IsFor
  <2> QED BY <1>2, <1>5, <1>6, <1>7, <2>1, <2>2, PushOK
<1>9. u # <<>> /\ Last(u) = a /\ Frames(u) = Frames(t) \cup {a}
  BY <1>2, <1>7, Push
<1>10. Carries(s, u)
  BY <1>7, <1>9 DEF Carries
<1> QED BY <1>2, <1>3, <1>8, <1>9, <1>10 DEF g, a

\* What _htf_get_archive returns may be delivered to a thread.
Fits(o, named, obj) ==
  IF layout.archives[named] = Missing THEN o = 0 ELSE o \in 1..Len(obj) /\ obj[o] = named

\* th2 and s2 are the threads and the stack after o is delivered.
Delivered(s, o, th, th2, s2) ==
  IF Last(s).fn = "thread"
  THEN /\ th2 = [th EXCEPT ![Last(s).slot].archive = o]
       /\ s2 = Append(Front(s), [fn |-> "tables", slot |-> Last(s).slot])
  ELSE th2 = th /\ s2 = Advance(s)

\* _htf_get_archive returns to the thread or to the loop that called it.
LEMMA DeliverOK ==
  ASSUME NEW obj, NEW th \in Seq(LoadedThread), NEW s, StackOK(s, obj, th), s # <<>>,
         PendingOK(s, obj, th), ThreadsOK(obj, th), NEW o \in Nat,
         Last(s).fn = "thread" => Fits(o, layout.threads[th[Last(s).slot].id], obj),
         Last(s).fn \in {"main", "thread"}, NEW th2, NEW s2, Delivered(s, o, th, th2, s2)
  PROVE  /\ StackOK(s2, obj, th2) /\ s2 # <<>> /\ Last(s2).fn \in {"main", "tables"}
         /\ PendingOK(s2, obj, th2)
         /\ th2 \in Seq(LoadedThread) /\ Len(th2) = Len(th)
         /\ \A i \in 1..Len(th) : th2[i].id = th[i].id
<1>1. CASE Last(s).fn = "main"
  <2>1. th2 = th /\ s2 = Advance(s)
    BY <1>1 DEF Delivered
  <2>2. StackOK(s2, obj, th) /\ Carries(s, s2) /\ s2 # <<>> /\ Last(s2).fn = "main"
    BY <1>1, <2>1, AdvanceOK
  <2> QED BY <2>1, <2>2, CarriesPending
<1>2. CASE Last(s).fn = "thread"
  <2> DEFINE x == Last(s)
             k == x.slot
             r == Front(s)
             f == [fn |-> "tables", slot |-> k]
             e == [th[k] EXCEPT !.archive = o]
  <2>1. s \in Seq(Frame) /\ r \in Seq(Frame) /\ x \in Frame /\ k \in 1..Len(th) /\ k \in Nat \ {0}
    <3>1. s \in Seq(Frame) /\ r \in Seq(Frame) /\ x \in Frame /\ k \in 1..Len(th)
      BY <1>2, TopOK DEF FrameOK
    <3> QED BY <3>1
  <2>2. th2 = [th EXCEPT ![k] = e] /\ s2 = Append(r, f)
    BY <1>2 DEF Delivered
  <2>3. th[k] \in LoadedThread
    BY <2>1, ElementOfSeq
  <2>4. e \in LoadedThread /\ e.id = th[k].id /\ e.archive = o /\ e.events = th[k].events
    BY <2>3 DEF LoadedThread
  <2>5. f \in Frame /\ f.fn = "tables" /\ f.slot = k
    BY <2>1 DEF Frame, ThreadFrame
  <2> HIDE DEF f, e
  <2>6. /\ th2 \in Seq(LoadedThread) /\ Len(th2) = Len(th)
        /\ \A i \in 1..Len(th) : th2[i] = IF i = k THEN e ELSE th[i]
    BY <2>1, <2>2, <2>4, ExceptSeq
  <2>7. \A i \in 1..Len(th) : th2[i].id = th[i].id /\ th2[i].events = th[i].events
    BY <2>4, <2>6
  <2>8. StackOK(s, obj, th2)
    <3>1. /\ \A t : HasThread(th, t) <=> HasThread(th2, t)
      BY <2>6, <2>7 DEF HasThread
    <3>2. \A g : FrameOK(g, obj, th) => FrameOK(g, obj, th2)
      BY <2>6, <3>1 DEF FrameOK, LoadedUpTo
    <3>3. Len(s) \in Nat
      BY <2>1
    <3>4. ASSUME NEW i \in 1..(Len(s) - 2)
          PROVE  IsFor(s[i], s[i + 2], obj, th2)
      <4>1. i \in 1..Len(s) /\ FrameOK(s[i], obj, th) /\ IsFor(s[i], s[i + 2], obj, th)
        BY <3>3 DEF StackOK
      <4> QED BY <2>7, <4>1 DEF IsFor, FrameOK
    <3> QED BY <3>2, <3>4 DEF StackOK
  <2>9. StackOK(s2, obj, th2)
    <3>1. FrameOK(f, obj, th2)
      BY <2>1, <2>5, <2>6 DEF FrameOK
    <3> QED BY <1>2, <2>2, <2>5, <2>8, <3>1, ReplaceOK
  <2>10. /\ Frames(s2) = Frames(r) \cup {f} /\ Frames(s) = Frames(r) \cup {x}
         /\ s2 # <<>> /\ Last(s2) = f
    BY <2>1, <2>2, <2>5, Push, FramesOf
  <2>11. PendingOK(s2, obj, th2)
    <3>1. ASSUME NEW i \in 1..Len(obj)
          PROVE  \/ \E g \in Frames(s2) : g.fn = "archive" /\ g.object = i
                 \/ LoadedUpTo(th2, obj[i], Len(LocationsOf(obj[i])))
      <4>1. CASE LoadedUpTo(th, obj[i], Len(LocationsOf(obj[i])))
        BY <2>6, <2>7, <4>1 DEF LoadedUpTo, HasThread
      <4>2. CASE \E g \in Frames(s) : g.fn = "archive" /\ g.object = i
        BY <1>2, <2>10, <4>2
      <4> QED BY <4>1, <4>2 DEF PendingOK
    <3>2. ASSUME NEW i \in 1..Len(th2)
          PROVE  \/ \E g \in Frames(s2) : g.fn = "thread" /\ g.slot = i
                 \/ HasItsArchive(obj, th2, i)
      <4>0. i \in 1..Len(th)
        BY <2>6
      <4>1. CASE i = k
        BY <1>2, <2>4, <2>6, <4>0, <4>1 DEF HasItsArchive, Fits
      <4>2. CASE i # k
        <5>1. th2[i] = th[i]
          BY <2>6, <4>0, <4>2
        <5>2. CASE HasItsArchive(obj, th, i)
          BY <5>1, <5>2 DEF HasItsArchive
        <5>3. CASE \E g \in Frames(s) : g.fn = "thread" /\ g.slot = i
          BY <2>10, <4>2, <5>3
        <5> QED BY <4>0, <5>2, <5>3 DEF PendingOK
      <4> QED BY <4>1, <4>2
    <3>3. ASSUME NEW i \in 1..Len(th2)
          PROVE  \/ \E g \in Frames(s2) : g.fn \in {"thread", "tables"} /\ g.slot = i
                 \/ th2[i].events # <<>>
      <4>0. i \in 1..Len(th)
        BY <2>6
      <4>1. CASE th[i].events # <<>>
        BY <2>7, <4>0, <4>1
      <4>2. CASE \E g \in Frames(s) : g.fn \in {"thread", "tables"} /\ g.slot = i
        BY <2>5, <2>10, <4>2
      <4> QED BY <4>0, <4>1, <4>2 DEF PendingOK
    <3> QED BY <3>1, <3>2, <3>3 DEF PendingOK
  <2> QED BY <2>5, <2>6, <2>7, <2>9, <2>10, <2>11
<1> QED BY <1>1, <1>2

\* Threads stay locations of the archives that were read.
LEMMA ThreadsStayOK ==
  ASSUME NEW obj \in Seq(ArchiveId), NEW obj2 \in Seq(ArchiveId), Longer(obj, obj2),
         NEW th, NEW th2, Len(th2) = Len(th), \A i \in 1..Len(th) : th2[i].id = th[i].id,
         ThreadsOK(obj, th)
  PROVE  ThreadsOK(obj2, th2)
<1>1. \A o \in 1..Len(obj) : o \in 1..Len(obj2) /\ obj2[o] = obj[o]
  BY DEF Longer
<1>2. ASSUME NEW i \in 1..Len(th2)
      PROVE  /\ layout.threads[th2[i].id] \in ArchiveId
             /\ \E o \in 1..Len(obj2) : \E n \in 1..Len(LocationsOf(obj2[o])) :
                  LocationsOf(obj2[o])[n] = th2[i].id
  <2>1. i \in 1..Len(th) /\ th2[i].id = th[i].id
    OBVIOUS
  <2>2. PICK o \in 1..Len(obj) : \E n \in 1..Len(LocationsOf(obj[o])) :
          LocationsOf(obj[o])[n] = th[i].id
    BY <2>1 DEF ThreadsOK
  <2>3. o \in 1..Len(obj2) /\ obj2[o] = obj[o]
    BY <1>1
  <2>4. \E n \in 1..Len(LocationsOf(obj2[o])) : LocationsOf(obj2[o])[n] = th2[i].id
    BY <2>1, <2>2, <2>3
  <2> QED BY <2>1, <2>3, <2>4 DEF ThreadsOK
<1> QED BY <1>2 DEF ThreadsOK

\* A thread with its tables.
LEMMA WithTables ==
  ASSUME NEW th \in Seq(LoadedThread), NEW k \in 1..Len(th), NEW e \in Tables
  PROVE  LET th2 == [th EXCEPT ![k].events = e]
         IN  /\ th2 \in Seq(LoadedThread) /\ Len(th2) = Len(th) /\ Len(th) \in Nat
             /\ \A i \in 1..Len(th) :
                  /\ th2[i].id = th[i].id /\ th2[i].archive = th[i].archive
                  /\ th2[i].events = IF i = k THEN e ELSE th[i].events
<1> DEFINE y == [th[k] EXCEPT !.events = e]
           th2 == [th EXCEPT ![k] = y]
<1>1. th[k] \in LoadedThread
  BY ElementOfSeq
<1>2. y \in LoadedThread /\ y.id = th[k].id /\ y.archive = th[k].archive /\ y.events = e
  BY <1>1 DEF LoadedThread
<1> HIDE DEF y
<1>3. /\ th2 \in Seq(LoadedThread) /\ Len(th2) = Len(th)
      /\ \A i \in 1..Len(th) : th2[i] = IF i = k THEN y ELSE th[i]
  BY <1>2, ExceptSeq
<1> HIDE DEF th2
<1>4. Len(th) \in Nat
  BY LenProperties
<1>5. [th EXCEPT ![k].events = e] = th2
  BY DEF th2, y
<1> QED BY <1>2, <1>3, <1>4, <1>5

\* The threads after the tables of the top of s were read.
WithTablesOf(th, s, e) == [th EXCEPT ![Last(s).slot].events = e]

\* The tables of a thread were read: nothing of it is left to be done.
LEMMA TablesOK ==
  ASSUME NEW obj \in Seq(ArchiveId), NEW th \in Seq(LoadedThread), NEW s, StackOK(s, obj, th),
         s # <<>>, Last(s).fn = "tables", PendingOK(s, obj, th),
         NEW e \in Tables, e # <<>>, NEW th2, th2 = WithTablesOf(th, s, e)
  PROVE  /\ StackOK(Front(s), obj, th2) /\ Front(s) # <<>>
         /\ Last(Front(s)).fn = "archive"
         /\ PendingOK(Front(s), obj, th2)
         /\ th2 \in Seq(LoadedThread) /\ Len(th2) = Len(th)
         /\ \A i \in 1..Len(th) : th2[i].id = th[i].id
<1> DEFINE x == Last(s)
           k == x.slot
           r == Front(s)
<1>1. /\ s \in Seq(Frame) /\ r \in Seq(Frame) /\ k \in 1..Len(th)
      /\ r # <<>> /\ Last(r).fn = "archive"
  BY TopOK DEF FrameOK, Calls
<1>5. /\ th2 \in Seq(LoadedThread) /\ Len(th2) = Len(th) /\ Len(th) \in Nat
      /\ \A i \in 1..Len(th) :
           /\ th2[i].id = th[i].id /\ th2[i].archive = th[i].archive
           /\ th2[i].events = IF i = k THEN e ELSE th[i].events
  BY <1>1, WithTables DEF WithTablesOf
<1>6. \A i \in 1..Len(th) : th2[i].id = th[i].id /\ th2[i].archive = th[i].archive
  BY <1>5
<1> HIDE DEF x, k, r
<1>7. StackOK(r, obj, th2)
  <2>1. StackOK(r, obj, th)
    BY PopOK DEF r
  <2>2. Longer(obj, obj) /\ Len(th) <= Len(th2) /\ th2 \in Seq(LoadedThread)
        /\ \A i \in 1..Len(th) : th2[i].id = th[i].id
    BY <1>5, <1>6, LenProperties DEF Longer
  <2> QED BY <2>1, <2>2, GrowOK
<1>8. Frames(s) = Frames(r) \cup {x}
  BY <1>1, FramesOf DEF x, r
<1>9. PendingOK(r, obj, th2)
  <2>1. ASSUME NEW i \in 1..Len(obj)
        PROVE  \/ \E g \in Frames(r) : g.fn = "archive" /\ g.object = i
               \/ LoadedUpTo(th2, obj[i], Len(LocationsOf(obj[i])))
    <3>1. CASE LoadedUpTo(th, obj[i], Len(LocationsOf(obj[i])))
      BY <1>5, <1>6, <3>1 DEF LoadedUpTo, HasThread
    <3>2. CASE \E g \in Frames(s) : g.fn = "archive" /\ g.object = i
      BY <1>8, <3>2 DEF x
    <3> QED BY <3>1, <3>2 DEF PendingOK
  <2>2. ASSUME NEW i \in 1..Len(th2)
        PROVE  \/ \E g \in Frames(r) : g.fn = "thread" /\ g.slot = i
               \/ HasItsArchive(obj, th2, i)
    <3>1. CASE HasItsArchive(obj, th, i)
      BY <1>5, <1>6, <3>1 DEF HasItsArchive
    <3>2. CASE \E g \in Frames(s) : g.fn = "thread" /\ g.slot = i
      BY <1>8, <3>2 DEF x
    <3> QED BY <1>5, <3>1, <3>2 DEF PendingOK
  <2>3. ASSUME NEW i \in 1..Len(th2)
        PROVE  \/ \E g \in Frames(r) : g.fn \in {"thread", "tables"} /\ g.slot = i
               \/ th2[i].events # <<>>
    <3>1. CASE i = k
      BY <1>5, <3>1
    <3>2. CASE i # k
      BY <1>5, <1>8, <3>2 DEF PendingOK, x, k
    <3> QED BY <3>1, <3>2
  <2> QED BY <2>1, <2>2, <2>3 DEF PendingOK
<1> QED BY <1>1, <1>5, <1>6, <1>7, <1>9 DEF r

\* A popped archive has its threads.
LEMMA ReadArchiveOK ==
  ASSUME NEW obj \in Seq(ArchiveId), NEW th \in Seq(LoadedThread), NEW s, StackOK(s, obj, th),
         s # <<>>, Last(s).fn = "archive", PendingOK(s, obj, th),
         Len(LocationsOf(obj[Last(s).object])) \in Nat,
         Last(s).next > Len(LocationsOf(obj[Last(s).object]))
  PROVE  /\ StackOK(Front(s), obj, th) /\ Front(s) # <<>> /\ PendingOK(Front(s), obj, th)
         /\ Last(Front(s)).fn \in {"main", "get"} /\ Last(s).object \in 1..Len(obj)
<1> DEFINE x == Last(s)
           r == Front(s)
           n == Len(LocationsOf(obj[x.object]))
<1>1. /\ s \in Seq(Frame) /\ r \in Seq(Frame) /\ r # <<>> /\ x \in Frame
      /\ Last(r).fn \in {"main", "get"} /\ StackOK(r, obj, th) /\ FrameOK(x, obj, th)
  BY TopOK, PopOK DEF Calls
<1>2. /\ x.object \in 1..Len(obj) /\ x.next <= n + 1
      /\ LoadedUpTo(th, obj[x.object], x.next - 1)
  BY <1>1 DEF FrameOK
<1>3. LoadedUpTo(th, obj[x.object], n)
  <2>1. ASSUME NEW i \in 1..n
        PROVE  i \in 1..(x.next - 1)
    <3>1. x.next \in Nat
      BY <1>1 DEF Frame, MainFrame, ArchiveFrame, GetFrame, ThreadFrame
    <3>2. n \in Nat /\ i \in 1..n /\ x.next > n
      OBVIOUS
    <3> HIDE DEF n, x
    <3> QED BY <3>1, <3>2
  <2> QED BY <1>2, <2>1 DEF LoadedUpTo
<1>4. Frames(s) = Frames(r) \cup {x}
  BY <1>1, FramesOf
<1>5. PendingOK(r, obj, th)
  BY <1>3, <1>4 DEF PendingOK
<1> QED BY <1>1, <1>2, <1>5


\* What a call puts on the stack.
LEMMA PushFrame ==
  ASSUME NEW s \in Seq(Frame), NEW f \in Frame, NEW s2, s2 = Append(s, f)
  PROVE  /\ s2 # <<>> /\ Last(s2) = f /\ Front(s2) = s /\ Frames(s2) = Frames(s) \cup {f}
         /\ Carries(s, s2)
<1>1. /\ s2 # <<>> /\ Last(s2) = f /\ Front(s2) = s /\ Frames(s2) = Frames(s) \cup {f}
  BY Push
<1> QED BY <1>1 DEF Carries

\* A thread that gets its slot is to be read.
LEMMA NewThreadOK ==
  ASSUME NEW obj \in Seq(ArchiveId), NEW th \in Seq(LoadedThread), NEW s, StackOK(s, obj, th),
         s # <<>>, Last(s).fn = "archive", PendingOK(s, obj, th), ThreadsOK(obj, th),
         Last(s).next <= Len(LocationsOf(obj[Last(s).object])),
         LocationsOf(obj[Last(s).object]) # <<>>, NEW t \in ThreadId,
         t = LocationsOf(obj[Last(s).object])[Last(s).next],
         ~HasThread(th, t), layout.threads[t] \in ArchiveId,
         NEW th2, th2 = Append(th, [id |-> t, archive |-> 0, events |-> <<>>]),
         NEW s2, s2 = Append(Advance(s), [fn |-> "thread", slot |-> Len(th) + 1])
  PROVE  /\ StackOK(s2, obj, th2) /\ s2 # <<>> /\ Last(s2).fn = "thread"
         /\ PendingOK(s2, obj, th2) /\ ThreadsOK(obj, th2) /\ th2 \in Seq(LoadedThread)
<1> DEFINE y == [id |-> t, archive |-> 0, events |-> <<>>]
           n == Len(th) + 1
           f == [fn |-> "thread", slot |-> n]
           x == Last(s)
           l == LocationsOf(obj[x.object])
           s1 == Advance(s)
<1>1. y \in LoadedThread /\ y.id = t /\ y.events = <<>>
  BY DEF LoadedThread, Tables
<1>2. Len(th) \in Nat /\ n \in Nat \ {0}
  BY LenProperties
<1>3. f \in Frame /\ f.fn = "thread" /\ f.slot = n
  BY <1>2 DEF Frame, ThreadFrame
<1>4. /\ s \in Seq(Frame) /\ x \in Frame /\ FrameOK(x, obj, th)
      /\ Front(s) # <<>> => Calls(Last(Front(s)), x, obj)
  BY TopOK
<1>5. x.object \in 1..Len(obj) /\ x.next \in Nat \ {0}
  BY <1>4 DEF FrameOK, Frame, MainFrame, ArchiveFrame, GetFrame, ThreadFrame
<1> HIDE DEF y
<1>6. /\ th2 \in Seq(LoadedThread) /\ Len(th2) = n /\ th2[n] = y
      /\ \A i \in 1..Len(th) : th2[i] = th[i]
  <2>1. th2 = Append(th, y)
    BY DEF y
  <2> QED BY <1>1, <2>1, AppendProperties
<1>7. \A i : i \in 1..Len(th2) <=> i \in 1..Len(th) \/ i = n
  BY <1>2, <1>6
<1>8. /\ \A i \in 1..Len(th) : i \in 1..Len(th2) /\ th2[i].id = th[i].id
      /\ n \in 1..Len(th2) /\ Len(th) <= Len(th2)
  BY <1>2, <1>6, <1>7
<1>9. HasThread(th2, t) /\ \A u : HasThread(th, u) => HasThread(th2, u)
  BY <1>1, <1>6, <1>8 DEF HasThread
<1>10. StackOK(s, obj, th2)
  <2>1. Longer(obj, obj)
    BY LenProperties DEF Longer
  <2> QED BY <1>6, <1>8, <2>1, GrowOK
<1>11. /\ StackOK(s1, obj, th2) /\ Carries(s, s1) /\ s1 # <<>>
       /\ Last(s1).fn = "archive" /\ Front(s1) = Front(s) /\ Last(s1).object = x.object
  BY <1>9, <1>10, AdvanceOK
<1> HIDE DEF f, x, s1, n
<1>12. s2 = Append(s1, f)
  BY DEF f, s1, n
<1>13. StackOK(s2, obj, th2)
  <2>1. FrameOK(f, obj, th2)
    BY <1>3, <1>8 DEF FrameOK
  <2>2. Calls(Last(s1), f, obj)
    BY <1>3, <1>11 DEF Calls, x
  <2>3. ASSUME Front(s1) # <<>>
        PROVE  IsFor(Last(Front(s1)), f, obj, th2)
    BY <1>4, <1>11, <2>3 DEF Calls, IsFor, x
  <2> QED BY <1>3, <1>11, <1>12, <2>1, <2>2, <2>3, PushOK
<1>14. /\ s2 # <<>> /\ Last(s2) = f /\ Frames(s2) = Frames(s1) \cup {f}
  <2>1. s1 \in Seq(Frame)
    BY <1>11, TopOK
  <2> QED BY <1>3, <1>12, <2>1, PushFrame
<1>15. PendingOK(s2, obj, th2)
  <2>0. PendingOK(s1, obj, th)
    BY <1>11, CarriesPending
  <2>1. ASSUME NEW i \in 1..Len(obj)
        PROVE  \/ \E g \in Frames(s2) : g.fn = "archive" /\ g.object = i
               \/ LoadedUpTo(th2, obj[i], Len(LocationsOf(obj[i])))
    <3>1. CASE LoadedUpTo(th, obj[i], Len(LocationsOf(obj[i])))
      BY <1>9, <3>1 DEF LoadedUpTo
    <3>2. CASE \E g \in Frames(s1) : g.fn = "archive" /\ g.object = i
      BY <1>14, <3>2
    <3> QED BY <2>0, <3>1, <3>2 DEF PendingOK
  <2>2. ASSUME NEW i \in 1..Len(th2)
        PROVE  \/ \E g \in Frames(s2) : g.fn = "thread" /\ g.slot = i
               \/ HasItsArchive(obj, th2, i)
    <3>1. CASE i = n
      BY <1>3, <1>14, <3>1
    <3>2. CASE i \in 1..Len(th)
      <4>1. CASE HasItsArchive(obj, th, i)
        BY <1>6, <3>2, <4>1 DEF HasItsArchive
      <4>2. CASE \E g \in Frames(s1) : g.fn = "thread" /\ g.slot = i
        BY <1>14, <4>2
      <4> QED BY <2>0, <3>2, <4>1, <4>2 DEF PendingOK
    <3> QED BY <1>7, <3>1, <3>2
  <2>3. ASSUME NEW i \in 1..Len(th2)
        PROVE  \/ \E g \in Frames(s2) : g.fn \in {"thread", "tables"} /\ g.slot = i
               \/ th2[i].events # <<>>
    <3>1. CASE i = n
      BY <1>3, <1>14, <3>1
    <3>2. CASE i \in 1..Len(th)
      BY <1>6, <1>14, <2>0, <3>2 DEF PendingOK
    <3> QED BY <1>7, <3>1, <3>2
  <2> QED BY <2>1, <2>2, <2>3 DEF PendingOK
<1>16. ThreadsOK(obj, th2)
  <2>1. ASSUME NEW i \in 1..Len(th2), NEW j \in 1..Len(th2), th2[i].id = th2[j].id
        PROVE  i = j
    <3>1. CASE i = n /\ j = n
      BY <3>1
    <3>2. CASE i \in 1..Len(th) /\ j \in 1..Len(th)
      BY <1>6, <2>1, <3>2 DEF ThreadsOK
    <3>3. CASE i \in 1..Len(th) /\ j = n
      BY <1>1, <1>6, <2>1, <3>3 DEF HasThread
    <3>4. CASE i = n /\ j \in 1..Len(th)
      BY <1>1, <1>6, <2>1, <3>4 DEF HasThread
    <3> QED BY <1>7, <3>1, <3>2, <3>3, <3>4
  <2>2. ASSUME NEW i \in 1..Len(th2)
        PROVE  /\ layout.threads[th2[i].id] \in ArchiveId
               /\ \E o \in 1..Len(obj) : \E m \in 1..Len(LocationsOf(obj[o])) :
                    LocationsOf(obj[o])[m] = th2[i].id
    <3>1. CASE i = n
      <4>1. x.next \in 1..Len(l) /\ l[x.next] = t
        <5>1. Len(l) \in Int
          <6>1. x.next <= Len(l) /\ l # <<>>
            BY DEF x
          <6> QED BY LenProperties
        <5> QED BY <1>5 DEF x
      <4> QED BY <1>1, <1>5, <1>6, <3>1, <4>1
    <3>2. CASE i \in 1..Len(th)
      BY <1>6, <3>2 DEF ThreadsOK
    <3> QED BY <1>7, <3>1, <3>2
  <2> QED BY <2>1, <2>2 DEF ThreadsOK
<1> QED BY <1>3, <1>6, <1>13, <1>14, <1>15, <1>16


\* _htf_get_archive returns the archive that it has read.
LEMMA ReturnOK ==
  ASSUME NEW obj \in Seq(ArchiveId), NEW th \in Seq(LoadedThread), NEW s, StackOK(s, obj, th),
         s # <<>>, Last(s).fn = "archive", PendingOK(s, obj, th),
         Len(LocationsOf(obj[Last(s).object])) \in Nat,
         Last(s).next > Len(LocationsOf(obj[Last(s).object])),
         Last(Front(s)).fn = "get", \A i \in 1..Len(obj) : layout.archives[obj[i]] # Missing
  PROVE  LET calls == Front(Front(s))
         IN  /\ StackOK(calls, obj, th) /\ calls # <<>> /\ PendingOK(calls, obj, th)
             /\ Last(calls).fn \in {"main", "thread"} /\ Last(s).object \in 1..Len(obj)
             /\ Last(calls).fn = "thread" =>
                  Fits(Last(s).object, layout.threads[th[Last(calls).slot].id], obj)
<1> DEFINE r == Front(s)
           c == Front(r)
           o == Last(s).object
<1>1. /\ StackOK(r, obj, th) /\ r # <<>> /\ PendingOK(r, obj, th) /\ o \in 1..Len(obj)
  BY ReadArchiveOK
<1>2. r # <<>> /\ c # <<>> => IsFor(Last(c), Last(s), obj, th)
  BY TopOK
<1> HIDE DEF r, o
<1>3. Last(r).fn = "get"
  BY DEF r
<1>4. /\ r \in Seq(Frame) /\ c # <<>> /\ Last(c).fn \in {"main", "thread"}
      /\ StackOK(c, obj, th)
  BY <1>1, <1>3, TopOK, PopOK DEF Calls
<1>5. Frames(r) = Frames(c) \cup {Last(r)}
  BY <1>1, <1>4, FramesOf
<1>6. Carries(r, c) \/ PendingOK(c, obj, th)
  BY <1>1, <1>3, <1>5 DEF PendingOK
<1>7. PendingOK(c, obj, th)
  BY <1>1, <1>6, CarriesPending
<1>8. Last(c).fn = "thread" => Fits(o, layout.threads[th[Last(c).slot].id], obj)
  <2>1. layout.archives[obj[o]] # Missing
    BY <1>1
  <2> QED BY <1>1, <1>2, <1>4, <2>1 DEF IsFor, Fits, o
<1> QED BY <1>1, <1>4, <1>7, <1>8 DEF r, o

\* The list with one more archive, and whether that was written past the end.
WithListed(list, o) == Append(list, o)
Overruns(list, allocated, over) == over \/ Len(list) >= allocated

\* The archive that was read is put in the list.
LEMMA PutInListOK ==
  ASSUME NEW obj, NEW th, NEW list \in Seq(Nat), NEW allocated \in Nat, NEW over,
         NEW s, StackOK(s, obj, th), s # <<>>, Last(s).fn = "archive", Front(s) # <<>>,
         Last(Front(s)).fn = "get", Last(s).object \in 1..Len(obj),
         ObjectsOK(obj, list), ListOK(s, obj, list, allocated, over),
         NEW s2, ~ForTheList(s2), NEW list2, list2 = WithListed(list, Last(s).object),
         NEW over2, over2 = Overruns(list, allocated, over)
  PROVE  /\ ObjectsOK(obj, list2) /\ ListOK(s2, obj, list2, allocated, over2)
         /\ list2 \in Seq(Nat)
<1> DEFINE o == Last(s).object
           n == Len(list) + 1
<1>1. o \in 1..Len(obj) /\ o \in Nat /\ Len(list) \in Nat
  BY LenProperties
<1> HIDE DEF o
<1>2. /\ list2 \in Seq(Nat) /\ Len(list2) = n /\ list2[n] = o
      /\ \A i \in 1..Len(list) : list2[i] = list[i]
  <2>1. list2 = Append(list, o)
    BY DEF o, WithListed
  <2> QED BY <1>1, <2>1, AppendProperties
<1>3. \A i : i \in 1..Len(list2) <=> i \in 1..Len(list) \/ i = n
  BY <1>1, <1>2
<1>4. ObjectsOK(obj, list2)
  BY <1>1, <1>2, <1>3 DEF ObjectsOK
<1>5. ASSUME NoOwnLocations(obj)
      PROVE  /\ ~over2
             /\ \A i, j \in 1..Len(list2) : obj[list2[i]] = obj[list2[j]] => i = j
  <2>1. /\ ~over /\ Len(list) < allocated
        /\ \A i, j \in 1..Len(list) : obj[list[i]] = obj[list[j]] => i = j
        /\ \A i \in 1..Len(list) : obj[list[i]] # obj[o]
    BY <1>5 DEF ListOK, ForTheList, o
  <2>2. ~over2
    <3>1. ~(Len(list) >= allocated)
      BY <1>1, <2>1
    <3> QED BY <2>1, <3>1, Zenon DEF Overruns
  <2>3. ASSUME NEW i \in 1..Len(list2), NEW j \in 1..Len(list2), obj[list2[i]] = obj[list2[j]]
        PROVE  i = j
    <3>1. CASE i = n /\ j = n
      BY <3>1
    <3>2. CASE i \in 1..Len(list) /\ j \in 1..Len(list)
      BY <1>2, <2>1, <2>3, <3>2
    <3>3. CASE i \in 1..Len(list) /\ j = n
      BY <1>2, <2>1, <2>3, <3>3
    <3>4. CASE i = n /\ j \in 1..Len(list)
      BY <1>2, <2>1, <2>3, <3>4
    <3> QED BY <1>3, <3>1, <3>2, <3>3, <3>4
  <2> QED BY <2>2, <2>3
<1> QED BY <1>2, <1>4, <1>5 DEF ListOK

\* The objects with one more.
WithObject(obj, g) == Append(obj, g)

HasRoom(list, allocated) == Len(list) < allocated

Listed(obj, list, g) == \E i \in 1..Len(list) : obj[list[i]] = g

\* _htf_get_archive starts to read an archive that is not in the list.
LEMMA NewArchiveOK ==
  ASSUME NEW obj \in Seq(ArchiveId), obj # <<>>, NEW g \in ArchiveId, NEW th \in Seq(LoadedThread),
         NEW s, StackOK(s, obj, th), s # <<>>, AsksFor(s, th, g),
         PendingOK(s, obj, th), ThreadsOK(obj, th),
         layout.archives[g] # Missing, NEW list \in Seq(Nat), ObjectsOK(obj, list),
         ~Listed(obj, list, g),
         NEW allocated, NEW allocated2, HasRoom(list, allocated2),
         NEW over, ListOK(s, obj, list, allocated, over),
         NEW obj2, obj2 = WithObject(obj, g), NEW s2,
         s2 = WithGet(s, Len(obj) + 1)
  PROVE  /\ StackOK(s2, obj2, th) /\ s2 # <<>> /\ Last(s2).fn = "archive"
         /\ PendingOK(s2, obj2, th) /\ ThreadsOK(obj2, th) /\ ObjectsOK(obj2, list)
         /\ ListOK(s2, obj2, list, allocated2, over)
         /\ obj2 \in Seq(ArchiveId) /\ obj2 # <<>>
<1> DEFINE o == Len(obj) + 1
<1>1. Len(obj) \in Nat \ {0} /\ o \in Nat /\ o >= 2
  BY EmptySeq
<1>2. /\ obj2 \in Seq(ArchiveId) /\ Len(obj2) = o /\ obj2[o] = g
      /\ \A i \in 1..Len(obj) : obj2[i] = obj[i]
  BY AppendProperties DEF WithObject
<1>3. /\ \A i : i \in 1..Len(obj2) <=> i \in 1..Len(obj) \/ i = o
      /\ o \in 1..Len(obj2) /\ \A i \in 1..Len(obj) : i \in 1..Len(obj2)
      /\ obj2 # <<>> /\ Longer(obj, obj2)
  BY <1>1, <1>2 DEF Longer
<1>4. StackOK(s, obj2, th)
  <2>1. Len(th) <= Len(th) /\ \A i \in 1..Len(th) : th[i].id = th[i].id
    BY LenProperties
  <2> QED BY <1>2, <1>3, <2>1, GrowOK
<1> HIDE DEF o
<1>5. AsksFor(s, th, obj2[o])
  BY <1>2
<1>6. s2 = WithGet(s, o)
  BY DEF o
<1>7. /\ StackOK(s2, obj2, th) /\ Carries(s, s2) /\ s2 # <<>>
      /\ Last(s2).fn = "archive" /\ Last(s2).object = o
      /\ \E f \in Frames(s2) : f.fn = "archive" /\ f.object = o
  BY <1>1, <1>3, <1>4, <1>5, <1>6, PushGetOK
<1>8. PendingOK(s2, obj2, th)
  <2>1. PendingOK(s2, obj, th)
    BY <1>7, CarriesPending
  <2>2. ASSUME NEW i \in 1..Len(obj2)
        PROVE  \/ \E f \in Frames(s2) : f.fn = "archive" /\ f.object = i
               \/ LoadedUpTo(th, obj2[i], Len(LocationsOf(obj2[i])))
    <3>1. CASE i = o
      BY <1>7, <3>1
    <3>2. CASE i \in 1..Len(obj)
      BY <1>2, <2>1, <3>2 DEF PendingOK
    <3> QED BY <1>3, <3>1, <3>2
  <2>3. \A i : HasItsArchive(obj, th, i) => HasItsArchive(obj2, th, i)
    BY <1>2, <1>3 DEF HasItsArchive
  <2> QED BY <2>1, <2>2, <2>3 DEF PendingOK
<1>9. ThreadsOK(obj2, th)
  BY <1>2, <1>3, ThreadsStayOK
<1>10. ObjectsOK(obj2, list)
  BY <1>2, <1>3 DEF ObjectsOK
<1>11. ListOK(s2, obj2, list, allocated2, over)
  <2>1. ASSUME NoOwnLocations(obj2)
        PROVE  /\ ~over
               /\ \A i, j \in 1..Len(list) : obj2[list[i]] = obj2[list[j]] => i = j
               /\ \A i \in 1..Len(list) : obj2[list[i]] # g
    <3>1. \A i \in 2..Len(obj) : i \in 2..Len(obj2) /\ i \in 1..Len(obj)
      BY <1>1, <1>2 DEF o
    <3>2. NoOwnLocations(obj)
      BY <1>2, <2>1, <3>1 DEF NoOwnLocations
    <3>3. \A i \in 1..Len(list) : obj2[list[i]] = obj[list[i]]
      BY <1>2 DEF ObjectsOK
    <3>4. ~over /\ \A i, j \in 1..Len(list) : obj[list[i]] = obj[list[j]] => i = j
      BY <3>2 DEF ListOK
    <3> QED BY <3>3, <3>4 DEF Listed
  <2>2. obj2[Last(s2).object] = g
    BY <1>2, <1>7
  <2> QED BY <2>1, <2>2 DEF ListOK, HasRoom
<1> QED BY <1>2, <1>3, <1>7, <1>8, <1>9, <1>10, <1>11


-----------------------------------------------------------------------------
(* The layout stays, and so does what is said of it *)

\* The layout does not change, so that its part of the invariant may be read
\* off the new stack,
LEMMA StackInNextState ==
  ASSUME layout' = layout, StackOK(stack', objects', threads')
  PROVE  StackOK(stack, objects, threads)'
BY DEF StackOK, FrameOK, Calls, IsFor, LoadedUpTo, HasThread, LocationsOf

\* of what is pending,
LEMMA PendingInNextState ==
  ASSUME layout' = layout, PendingOK(stack', objects', threads')
  PROVE  PendingOK(stack, objects, threads)'
BY DEF PendingOK, HasItsArchive, LoadedUpTo, HasThread, LocationsOf, Frames

\* of the threads,
LEMMA ThreadsInNextState ==
  ASSUME layout' = layout, ThreadsOK(objects', threads')
  PROVE  ThreadsOK(objects, threads)'
BY DEF ThreadsOK, LocationsOf, ArchiveId

\* of the archives,
LEMMA ObjectsInNextState ==
  ASSUME layout' = layout, ObjectsOK(objects', archive_list')
  PROVE  ObjectsOK(objects, archive_list)'
BY DEF ObjectsOK

\* and of the list.
LEMMA ListInNextState ==
  ASSUME layout' = layout,
         ListOK(stack', objects', archive_list', nb_allocated_archives', overrun')
  PROVE  ListOK(stack, objects, archive_list, nb_allocated_archives, overrun)'
BY DEF ListOK, NoOwnLocations, ForTheList, LocationsOf


\* A step of the reader that goes on reading.
LEMMA ReadingGoesOn ==
  ASSUME IInv, phase = "opening", UNCHANGED <<disk, phase, replay>>,
         objects' \in Seq(ArchiveId), objects' # <<>>, threads' \in Seq(LoadedThread),
         archive_list' \in Seq(Nat), nb_allocated_archives' \in Nat,
         stack' # <<>>, Last(stack').fn # "get",
         StackOK(stack', objects', threads'), PendingOK(stack', objects', threads'),
         ThreadsOK(objects', threads'), ObjectsOK(objects', archive_list'),
         ListOK(stack', objects', archive_list', nb_allocated_archives', overrun')
  PROVE  IInv'
<1>1. layout' = layout /\ opened' = opened /\ settings' = settings /\ file' = file
      /\ summary' = summary /\ cursor' = cursor /\ results' = results /\ phase' = "opening"
  BY DEF disk, replay
<1>2. TypeInv'
  BY <1>1 DEF IInv, TypeInv, ArchiveId, LoadedThread, ThreadId, Tables
<1>3. PhaseInv'
  BY <1>1 DEF IInv, PhaseInv, Top
<1>4. StackOK(stack, objects, threads)' /\ PendingOK(stack, objects, threads)'
  BY <1>1, StackInNextState, PendingInNextState
<1>5. /\ ThreadsOK(objects, threads)' /\ ObjectsOK(objects, archive_list)'
      /\ ListOK(stack, objects, archive_list, nb_allocated_archives, overrun)'
  BY <1>1, ThreadsInNextState, ObjectsInNextState, ListInNextState
<1>6. SummaryInv' /\ CursorInv' /\ AttributesAreFound'
  BY <1>1 DEF IInv, SummaryInv, CursorInv, AttributesAreFound, Recorded, PhaseInv
<1> QED BY <1>2, <1>3, <1>4, <1>5, <1>6 DEF IInv

\* The least of a set of numbers.
LEMMA Least ==
  ASSUME NEW S \in SUBSET Nat, S # {}
  PROVE  Min(S) \in S /\ \A k \in S : Min(S) <= k
<1> DEFINE R == {ss \in Nat \X Nat : ss[1] < ss[2]}
<1>1. Order!IsWellFoundedOn(R, Nat)
  BY Order!NatLessThanWellFounded DEF Order!OpToRel
<1>2. \A x, y \in Nat : x < y => <<x, y>> \in R
  OBVIOUS
<1> HIDE DEF R
<1>3. PICK m \in S : \A k \in S : ~(<<k, m>> \in R)
  BY <1>1, Order!WFMin
<1>4. ASSUME NEW k \in S
      PROVE  m <= k
  <2>1. m \in Nat /\ k \in Nat /\ ~(<<k, m>> \in R)
    BY <1>3
  <2>2. ~(k < m)
    BY <1>2, <2>1
  <2> QED BY <2>1, <2>2
<1> QED BY <1>4 DEF Min

\* The greater of two numbers.
LEMMA GreaterOfTwo ==
  ASSUME NEW a \in Nat, NEW b \in Nat
  PROVE  Max({a, b}) \in Nat /\ Max({a, b}) >= a /\ Max({a, b}) >= b
<1>1. \E x \in {a, b} : \A y \in {a, b} : x >= y
  <2>1. CASE a >= b
    BY <2>1
  <2>2. CASE b >= a
    BY <2>2
  <2> QED BY <2>1, <2>2
<1>2. Max({a, b}) \in {a, b} /\ \A y \in {a, b} : Max({a, b}) >= y
  BY <1>1 DEF Max
<1> QED BY <1>2

\* What the loop of a frame has delivered is no archive of the list.
LEMMA DeliveredIsNotForTheList ==
  ASSUME NEW obj, NEW th, NEW s, StackOK(s, obj, th), s # <<>>, Last(s).fn # "archive"
  PROVE  ~ForTheList(s)
BY ForTheListIs

\* The list stays in order while nothing more is to be put in it.
LEMMA ListStaysOK ==
  ASSUME NEW s, NEW obj, NEW list, NEW allocated, NEW over,
         ListOK(s, obj, list, allocated, over),
         NEW s2, NoOwnLocations(obj) => ~ForTheList(s2)
  PROVE  ListOK(s2, obj, list, allocated, over)
BY DEF ListOK


\* What is returned is delivered to the calls below.
LEMMA DeliverInNextState ==
  ASSUME NEW obj, threads \in Seq(LoadedThread), NEW s, StackOK(s, obj, threads), s # <<>>,
         PendingOK(s, obj, threads), ThreadsOK(obj, threads), NEW o \in Nat,
         Last(s).fn = "thread" => Fits(o, layout.threads[threads[Last(s).slot].id], obj),
         Last(s).fn \in {"main", "thread"}, Deliver(s, o)
  PROVE  /\ StackOK(stack', obj, threads') /\ stack' # <<>> /\ Last(stack').fn # "get"
         /\ PendingOK(stack', obj, threads') /\ ~ForTheList(stack')
         /\ threads' \in Seq(LoadedThread) /\ Len(threads') = Len(threads)
         /\ \A i \in 1..Len(threads) : threads'[i].id = threads[i].id
<1>1. Delivered(s, o, threads, threads', stack')
  BY DEF Deliver, Delivered
<1>2. /\ StackOK(stack', obj, threads') /\ stack' # <<>> /\ Last(stack').fn \in {"main", "tables"}
      /\ PendingOK(stack', obj, threads')
      /\ threads' \in Seq(LoadedThread) /\ Len(threads') = Len(threads)
      /\ \A i \in 1..Len(threads) : threads'[i].id = threads[i].id
  BY <1>1, DeliverOK
<1> QED BY <1>2, DeliveredIsNotForTheList

\* _htf_get_archive keeps the invariant,
LEMMA GetArchiveKeeps ==
  ASSUME IInv, phase = "opening", UNCHANGED <<disk, phase, replay>>, NEW g \in ArchiveId,
         Top.fn \in {"main", "thread"},
         Top.fn = "thread" => g = layout.threads[threads[Top.slot].id],
         GetArchive(g)
  PROVE  IInv'
<1> DEFINE known == {i \in 1..Len(archive_list) : objects[archive_list[i]] = g}
<1>1. /\ stack # <<>> /\ objects # <<>> /\ objects \in Seq(ArchiveId)
      /\ threads \in Seq(LoadedThread) /\ archive_list \in Seq(Nat) /\ nb_allocated_archives \in Nat
      /\ StackOK(stack, objects, threads) /\ PendingOK(stack, objects, threads)
      /\ ThreadsOK(objects, threads) /\ ObjectsOK(objects, archive_list)
      /\ ListOK(stack, objects, archive_list, nb_allocated_archives, overrun)
  BY DEF IInv, PhaseInv, TypeInv
<1>2. /\ Last(stack).fn \in {"main", "thread"}
      /\ Last(stack).fn = "thread" => g = layout.threads[threads[Last(stack).slot].id]
  BY DEF Top
<1>3. ASSUME NEW o \in Nat, Fits(o, g, objects), Deliver(stack, o),
             UNCHANGED <<objects, archive_list, nb_allocated_archives, overrun>>
      PROVE  IInv'
  <2>1. /\ StackOK(stack', objects, threads') /\ stack' # <<>> /\ Last(stack').fn # "get"
        /\ PendingOK(stack', objects, threads') /\ ~ForTheList(stack')
        /\ threads' \in Seq(LoadedThread) /\ Len(threads') = Len(threads)
        /\ \A i \in 1..Len(threads) : threads'[i].id = threads[i].id
    <3>1. Last(stack).fn = "thread" =>
            Fits(o, layout.threads[threads[Last(stack).slot].id], objects)
      BY <1>2, <1>3
    <3> QED BY <1>1, <1>2, <1>3, <3>1, DeliverInNextState
  <2>2. ThreadsOK(objects, threads')
    <3>1. Longer(objects, objects)
      BY <1>1, LenProperties DEF Longer
    <3> QED BY <1>1, <2>1, <3>1, ThreadsStayOK
  <2>3. ListOK(stack', objects, archive_list, nb_allocated_archives, overrun)
    BY <1>1, <2>1, ListStaysOK
  <2>4. objects' = objects /\ archive_list' = archive_list /\ overrun' = overrun
        /\ nb_allocated_archives' = nb_allocated_archives
    BY <1>3
  <2> QED BY <1>1, <2>1, <2>2, <2>3, <2>4, ReadingGoesOn
<1>4. CASE /\ known # {}
           /\ Deliver(stack, archive_list[Min(known)])
           /\ UNCHANGED <<objects, archive_list, nb_allocated_archives, overrun>>
  <2>1. Min(known) \in known
    <3>1. known \in SUBSET Nat
      OBVIOUS
    <3> HIDE DEF known
    <3> QED BY <1>4, <3>1, Least
  <2> DEFINE o == archive_list[Min(known)]
  <2>2. Min(known) \in 1..Len(archive_list) /\ objects[o] = g
    BY <2>1
  <2>3. o \in 1..Len(objects) /\ layout.archives[g] # Missing
    BY <1>1, <2>2 DEF ObjectsOK
  <2>4. Deliver(stack, o)
    BY <1>4
  <2> HIDE DEF o, known
  <2>5. o \in Nat /\ Fits(o, g, objects)
    BY <2>2, <2>3 DEF Fits
  <2> QED BY <1>3, <1>4, <2>4, <2>5
<1>5. CASE /\ known = {}
           /\ layout.archives[g] = Missing
           /\ Deliver(stack, 0)
           /\ UNCHANGED <<objects, archive_list, nb_allocated_archives, overrun>>
  <2>1. Fits(0, g, objects)
    BY <1>5 DEF Fits
  <2> QED BY <1>3, <1>5, <2>1
<1>6. CASE /\ known = {}
           /\ layout.archives[g] # Missing
           /\ nb_allocated_archives' = GrownAllocation
           /\ objects' = Append(objects, g)
           /\ stack' = stack \o << [fn |-> "get"],
                                   [fn |-> "archive", object |-> Len(objects) + 1, next |-> 1] >>
           /\ UNCHANGED <<threads, archive_list, overrun>>
  <2>1. ~Listed(objects, archive_list, g) /\ AsksFor(stack, threads, g)
    BY <1>2, <1>6 DEF Listed, AsksFor
  <2>2. nb_allocated_archives' \in Nat /\ HasRoom(archive_list, nb_allocated_archives')
    <3>1. Len(archive_list) \in Nat
      BY <1>1, LenProperties
    <3>2. /\ GrownAllocation \in Nat /\ GrownAllocation >= Len(archive_list) + 1
      <4> DEFINE b == Len(archive_list) + 1
      <4>1. b \in Nat
        BY <3>1
      <4> HIDE DEF b
      <4>2. Max({nb_allocated_archives, b}) \in Nat /\ Max({nb_allocated_archives, b}) >= b
        BY <1>1, <4>1, GreaterOfTwo
      <4> QED BY <4>2 DEF GrownAllocation, b
    <3> QED BY <1>6, <3>1, <3>2 DEF HasRoom
  <2>3. /\ objects' = WithObject(objects, g) /\ stack' = WithGet(stack, Len(objects) + 1)
        /\ layout.archives[g] # Missing
        /\ threads' = threads /\ archive_list' = archive_list /\ overrun' = overrun
    BY <1>6 DEF WithObject, WithGet
  <2>4. /\ StackOK(stack', objects', threads) /\ stack' # <<>> /\ Last(stack').fn = "archive"
        /\ PendingOK(stack', objects', threads) /\ ThreadsOK(objects', threads)
        /\ ObjectsOK(objects', archive_list)
        /\ ListOK(stack', objects', archive_list, nb_allocated_archives', overrun)
        /\ objects' \in Seq(ArchiveId) /\ objects' # <<>>
    BY <1>1, <2>1, <2>2, <2>3, NewArchiveOK
  <2> QED BY <1>1, <2>2, <2>3, <2>4, ReadingGoesOn
<1> QED BY <1>4, <1>5, <1>6 DEF GetArchive


-----------------------------------------------------------------------------
(* The steps of the reader *)

\* What the steps need of the invariant.
LEMMA WhileReading ==
  ASSUME IInv, phase = "opening"
  PROVE  /\ stack # <<>> /\ objects # <<>> /\ objects \in Seq(ArchiveId)
         /\ threads \in Seq(LoadedThread) /\ archive_list \in Seq(Nat)
         /\ nb_allocated_archives \in Nat /\ file = EventFile(summary, settings)
         /\ results = <<>>
         /\ StackOK(stack, objects, threads) /\ PendingOK(stack, objects, threads)
         /\ ThreadsOK(objects, threads) /\ ObjectsOK(objects, archive_list)
         /\ ListOK(stack, objects, archive_list, nb_allocated_archives, overrun)
BY DEF IInv, PhaseInv, TypeInv

\* The locations and the groups of an archive are of the trace.
LEMMA NamesExist ==
  ASSUME IInv, NEW g \in ArchiveId, layout.archives[g] # Missing
  PROVE  LocationsOf(g) \in Seq(ThreadId) /\ layout.archives[g].groups \in Seq(ArchiveId)
BY LayoutAssumption DEF IInv, TypeInv, LocationsOf, ThreadId, ArchiveId

\* The archive on top has a location for its next turn.
LEMMA NextLocation ==
  ASSUME IInv, phase = "opening", Top.fn = "archive",
         Top.next <= Len(LocationsOf(objects[Top.object]))
  PROVE  LET l == LocationsOf(objects[Top.object])
         IN  /\ l # <<>> /\ l[Top.next] \in ThreadId
             /\ layout.threads[l[Top.next]] # Missing => layout.threads[l[Top.next]] \in ArchiveId
             /\ Top.object \in 1..Len(objects)
<1> DEFINE x == Top
           g == objects[x.object]
           l == LocationsOf(g)
<1>1. x \in Frame /\ FrameOK(x, objects, threads)
  BY WhileReading, TopOK DEF Top
<1>2. x.object \in 1..Len(objects) /\ x.next \in Nat \ {0}
  BY <1>1 DEF FrameOK, Frame, MainFrame, ArchiveFrame, GetFrame, ThreadFrame
<1>3. g \in ArchiveId /\ layout.archives[g] # Missing
  <2>1. objects \in Seq(ArchiveId) /\ ObjectsOK(objects, archive_list)
    BY WhileReading
  <2>2. g \in ArchiveId
    BY <1>2, <2>1, ElementOfSeq
  <2> QED BY <1>2, <2>1, <2>2 DEF ObjectsOK
<1> HIDE DEF g
<1>4. l \in Seq(ThreadId) /\ Len(l) \in Nat
  BY <1>3, NamesExist, LenProperties
<1>5. x.next <= Len(l)
  BY DEF g
<1> HIDE DEF l, x
<1>6. x.next \in 1..Len(l)
  BY <1>2, <1>4, <1>5
<1>7. l # <<>> /\ l[x.next] \in ThreadId
  <2>1. l[x.next] \in ThreadId
    BY <1>4, <1>6, ElementOfSeq
  <2>2. Len(<<>>) = 0 /\ Len(l) # 0
    BY <1>4, <1>6
  <2> QED BY <2>1, <2>2
<1>8. layout.threads[l[x.next]] # Missing => layout.threads[l[x.next]] \in ArchiveId
  BY <1>7, LayoutAssumption DEF IInv, TypeInv, ThreadId, ArchiveId
<1> QED BY <1>2, <1>7, <1>8 DEF l, g, x

\* as do the loop over the locations,
LEMMA TakeLocationKeeps ==
  ASSUME IInv, TakeLocation
  PROVE  IInv'
<1> DEFINE l == LocationsOf(objects[Top.object])
           t == l[Top.next]
<1>1. /\ phase = "opening" /\ Top.fn = "archive" /\ Top.next <= Len(l)
      /\ UNCHANGED <<disk, phase, replay>> /\ objects' = objects
      /\ archive_list' = archive_list /\ nb_allocated_archives' = nb_allocated_archives
      /\ overrun' = overrun
  BY DEF TakeLocation, Running, ArchiveFile, LocationsOf
<1>2. \/ HasThread(threads, t) /\ stack' = Advance(stack) /\ threads' = threads
      \/ /\ ~HasThread(threads, t) /\ layout.threads[t] # Missing
         /\ threads' = Append(threads, [id |-> t, archive |-> 0, events |-> <<>>])
         /\ stack' = Append(Advance(stack), [fn |-> "thread", slot |-> Len(threads) + 1])
  BY DEF TakeLocation, ArchiveFile, LocationsOf, Loaded, HasThread
<1>3. /\ stack # <<>> /\ objects # <<>> /\ objects \in Seq(ArchiveId)
      /\ threads \in Seq(LoadedThread) /\ archive_list \in Seq(Nat)
      /\ nb_allocated_archives \in Nat
      /\ StackOK(stack, objects, threads) /\ PendingOK(stack, objects, threads)
      /\ ThreadsOK(objects, threads) /\ ObjectsOK(objects, archive_list)
      /\ ListOK(stack, objects, archive_list, nb_allocated_archives, overrun)
  BY <1>1, WhileReading
<1>4. /\ l # <<>> /\ t \in ThreadId /\ Top.object \in 1..Len(objects)
      /\ layout.threads[t] # Missing => layout.threads[t] \in ArchiveId
  BY <1>1, NextLocation
<1>5. CASE HasThread(threads, t) /\ stack' = Advance(stack) /\ threads' = threads
  <2>1. /\ StackOK(stack', objects, threads) /\ Carries(stack, stack') /\ stack' # <<>>
        /\ Last(stack').fn = "archive" /\ Last(stack').object = Top.object
    BY <1>1, <1>3, <1>5, AdvanceOK DEF Top
  <2>2. PendingOK(stack', objects, threads)
    BY <1>3, <2>1, CarriesPending
  <2>3. NoOwnLocations(objects) => ~ForTheList(stack')
    BY <1>4, <2>1, ForTheListIs DEF NoOwnLocations
  <2>4. ListOK(stack', objects, archive_list, nb_allocated_archives, overrun)
    BY <1>3, <2>3, ListStaysOK
  <2> QED BY <1>1, <1>3, <1>5, <2>1, <2>2, <2>4, ReadingGoesOn
<1>6. CASE /\ ~HasThread(threads, t) /\ layout.threads[t] # Missing
           /\ threads' = Append(threads, [id |-> t, archive |-> 0, events |-> <<>>])
           /\ stack' = Append(Advance(stack), [fn |-> "thread", slot |-> Len(threads) + 1])
  <2>1. /\ StackOK(stack', objects, threads') /\ stack' # <<>> /\ Last(stack').fn = "thread"
        /\ PendingOK(stack', objects, threads') /\ ThreadsOK(objects, threads')
        /\ threads' \in Seq(LoadedThread)
    BY <1>1, <1>3, <1>4, <1>6, NewThreadOK DEF Top
  <2>2. ~ForTheList(stack')
    BY <2>1, DeliveredIsNotForTheList
  <2>3. ListOK(stack', objects, archive_list, nb_allocated_archives, overrun)
    BY <1>3, <2>2, ListStaysOK
  <2> QED BY <1>1, <1>3, <2>1, <2>3, ReadingGoesOn
<1> QED BY <1>2, <1>5, <1>6

\* the archive that a thread asks for,
LEMMA ThreadGetsArchiveKeeps ==
  ASSUME IInv, ThreadGetsArchive
  PROVE  IInv'
<1> DEFINE g == layout.threads[threads[Top.slot].id]
<1>1. phase = "opening" /\ Top.fn = "thread" /\ UNCHANGED <<disk, phase, replay>> /\ GetArchive(g)
  BY DEF ThreadGetsArchive, Running
<1>2. FrameOK(Top, objects, threads) /\ ThreadsOK(objects, threads)
  BY <1>1, WhileReading, TopOK DEF Top
<1>3. g \in ArchiveId
  BY <1>1, <1>2 DEF FrameOK, ThreadsOK
<1> HIDE DEF GetArchive
<1> QED BY <1>1, <1>3, GetArchiveKeeps

\* the loop over the groups,
LEMMA TakeGroupKeeps ==
  ASSUME IInv, TakeGroup
  PROVE  IInv'
<1>1. phase = "opening" /\ Top.fn = "main" /\ UNCHANGED <<disk, phase, replay>>
      /\ Top.next <= Len(Groups) /\ GetArchive(Groups[Top.next])
  BY DEF TakeGroup, Running
<1>2. Top.next \in Nat \ {0}
  <2>1. Top \in Frame
    BY <1>1, WhileReading, TopOK DEF Top
  <2> QED BY <1>1, <2>1 DEF Frame, MainFrame, ArchiveFrame, GetFrame, ThreadFrame
<1>3. Groups \in Seq(ArchiveId)
  BY NamesExist DEF IInv, TypeInv, Groups
<1>4. Groups[Top.next] \in ArchiveId
  BY <1>1, <1>2, <1>3, ElementOfSeq, LenProperties
<1> QED BY <1>1, <1>4, GetArchiveKeeps


\* and the return of an archive.
LEMMA ArchiveIsReadKeeps ==
  ASSUME IInv, ArchiveIsRead
  PROVE  IInv'
<1> DEFINE o == Top.object
           c == Front(Caller)
<1>1. /\ phase = "opening" /\ Top.fn = "archive"
      /\ Top.next > Len(LocationsOf(objects[o]))
      /\ UNCHANGED <<disk, phase, replay>> /\ objects' = objects
      /\ nb_allocated_archives' = nb_allocated_archives
  BY DEF ArchiveIsRead, Running, ArchiveFile, LocationsOf
<1>2. /\ stack # <<>> /\ objects # <<>> /\ objects \in Seq(ArchiveId)
      /\ threads \in Seq(LoadedThread) /\ archive_list \in Seq(Nat)
      /\ nb_allocated_archives \in Nat
      /\ StackOK(stack, objects, threads) /\ PendingOK(stack, objects, threads)
      /\ ThreadsOK(objects, threads) /\ ObjectsOK(objects, archive_list)
      /\ ListOK(stack, objects, archive_list, nb_allocated_archives, overrun)
  BY <1>1, WhileReading
<1>6. Len(LocationsOf(objects[o])) \in Nat
  <2>1. o \in 1..Len(objects)
    BY <1>1, <1>2, TopOK DEF FrameOK, Top
  <2>2. objects[o] \in ArchiveId /\ layout.archives[objects[o]] # Missing
    BY <1>2, <2>1, ElementOfSeq DEF ObjectsOK
  <2>3. LocationsOf(objects[o]) \in Seq(ThreadId)
    BY <2>2, NamesExist
  <2> QED BY <2>3, LenProperties
<1>3. /\ StackOK(Caller, objects, threads) /\ Caller # <<>> /\ PendingOK(Caller, objects, threads)
      /\ Last(Caller).fn \in {"main", "get"} /\ o \in 1..Len(objects)
  BY <1>1, <1>2, <1>6, ReadArchiveOK DEF Top, Caller
<1>4. CASE Last(Caller).fn = "get"
  <2>1. /\ archive_list' = WithListed(archive_list, o) /\ Deliver(c, o)
        /\ overrun' = Overruns(archive_list, nb_allocated_archives, overrun)
    BY <1>4 DEF ArchiveIsRead, WithListed, Overruns
  <2>2. /\ StackOK(c, objects, threads) /\ c # <<>> /\ PendingOK(c, objects, threads)
        /\ Last(c).fn \in {"main", "thread"}
        /\ Last(c).fn = "thread" => Fits(o, layout.threads[threads[Last(c).slot].id], objects)
    <3>1. \A i \in 1..Len(objects) : layout.archives[objects[i]] # Missing
      BY <1>2 DEF ObjectsOK
    <3> QED BY <1>1, <1>2, <1>4, <1>6, <3>1, ReturnOK DEF Top, Caller
  <2> HIDE DEF c
  <2>3. /\ StackOK(stack', objects, threads') /\ stack' # <<>> /\ Last(stack').fn # "get"
        /\ PendingOK(stack', objects, threads') /\ ~ForTheList(stack')
        /\ threads' \in Seq(LoadedThread) /\ Len(threads') = Len(threads)
        /\ \A i \in 1..Len(threads) : threads'[i].id = threads[i].id
    <3>1. o \in Nat
      BY <1>3
    <3> HIDE DEF o
    <3> QED BY <1>2, <2>1, <2>2, <3>1, DeliverInNextState
  <2>4. ThreadsOK(objects, threads')
    <3>1. Longer(objects, objects)
      BY <1>2, LenProperties DEF Longer
    <3> QED BY <1>2, <2>3, <3>1, ThreadsStayOK
  <2>5. /\ ObjectsOK(objects, archive_list')
        /\ ListOK(stack', objects, archive_list', nb_allocated_archives, overrun')
        /\ archive_list' \in Seq(Nat)
    BY <1>1, <1>2, <1>3, <1>4, <2>1, <2>3, PutInListOK DEF Top, Caller
  <2> QED BY <1>1, <1>2, <2>3, <2>4, <2>5, ReadingGoesOn
<1>5. CASE Last(Caller).fn # "get"
  <2>1. /\ stack' = Caller /\ archive_list' = archive_list /\ overrun' = overrun
        /\ threads' = threads
    BY <1>5 DEF ArchiveIsRead
  <2>2. NoOwnLocations(objects) => ~ForTheList(Caller)
    BY <1>2, NotForTheListBelow DEF Caller
  <2>3. ListOK(Caller, objects, archive_list, nb_allocated_archives, overrun)
    BY <1>2, <2>2, ListStaysOK
  <2> QED BY <1>1, <1>2, <1>3, <1>5, <2>1, <2>3, ReadingGoesOn
<1> QED BY <1>4, <1>5

\* The empty sequence has no positions.
LEMMA NoPositions == 1..Len(<<>>) = {}
OBVIOUS

\* A step that stops reading, with what was read so far.
LEMMA ReadingStops ==
  ASSUME IInv, UNCHANGED <<disk, reader, replay>>,
         phase' \in {"store failed", "open failed", "undefined"},
         results = <<>>, stack' = stack,
         phase' = "undefined" =>
           ToSet(summary.attributes) # {} /\ settings.compression # "None"
  PROVE  IInv'
<1>1. /\ layout' = layout /\ opened' = opened /\ settings' = settings /\ file' = file
      /\ summary' = summary /\ cursor' = cursor /\ results' = results
      /\ objects' = objects /\ threads' = threads /\ archive_list' = archive_list
      /\ nb_allocated_archives' = nb_allocated_archives /\ overrun' = overrun
  BY DEF disk, reader, replay
<1>2. TypeInv'
  BY <1>1 DEF IInv, TypeInv, ArchiveId, LoadedThread, ThreadId, Tables
<1>3. PhaseInv'
  BY DEF PhaseInv
<1>4. StackOK(stack, objects, threads)' /\ PendingOK(stack, objects, threads)'
  BY <1>1, StackInNextState, PendingInNextState DEF IInv
<1>5. /\ ThreadsOK(objects, threads)' /\ ObjectsOK(objects, archive_list)'
      /\ ListOK(stack, objects, archive_list, nb_allocated_archives, overrun)'
  BY <1>1, ThreadsInNextState, ObjectsInNextState, ListInNextState DEF IInv
<1>6. SummaryInv' /\ CursorInv'
  BY <1>1 DEF IInv, SummaryInv, CursorInv, Recorded
<1>7. AttributesAreFound'
  <2>1. results' = <<>> /\ 1..Len(<<>>) = {}
    BY <1>1, NoPositions
  <2>2. phase' \in {"read failed", "undefined"} => phase' = "undefined"
    OBVIOUS
  <2> QED BY <1>1, <2>1, <2>2 DEF AttributesAreFound
<1> QED BY <1>2, <1>3, <1>4, <1>5, <1>6, <1>7 DEF IInv

\* Reading the tables of a thread keeps the invariant.
LEMMA ReadTablesKeeps ==
  ASSUME IInv, ReadTables
  PROVE  IInv'
<1>1. /\ phase = "opening" /\ Top.fn = "tables"
      /\ layout' = layout /\ opened' = opened /\ settings' = settings /\ file' = file
      /\ summary' = summary /\ cursor' = cursor /\ results' = results
      /\ objects' = objects /\ archive_list' = archive_list
      /\ nb_allocated_archives' = nb_allocated_archives /\ overrun' = overrun
  BY DEF ReadTables, Running, disk, replay
<1>2. /\ stack # <<>> /\ objects # <<>> /\ objects \in Seq(ArchiveId)
      /\ threads \in Seq(LoadedThread) /\ archive_list \in Seq(Nat)
      /\ nb_allocated_archives \in Nat
      /\ file = EventFile(summary, settings) /\ results = <<>>
      /\ StackOK(stack, objects, threads) /\ PendingOK(stack, objects, threads)
      /\ ThreadsOK(objects, threads) /\ ObjectsOK(objects, archive_list)
      /\ ListOK(stack, objects, archive_list, nb_allocated_archives, overrun)
  BY <1>1, WhileReading
<1>3. CASE ReadIsUndefined(file, settings)
  <2>1. phase' = "undefined" /\ threads' = threads /\ stack' = stack
    BY <1>3 DEF ReadTables
  <2>2. ToSet(summary.attributes) # {} /\ settings.compression # "None"
    <3>1. summary.attributes # <<>> /\ settings.compression # "None"
      BY <1>2, <1>3 DEF ReadIsUndefined, EventFile
    <3>2. summary.attributes \in Seq(Nat)
      BY DEF IInv, SummaryInv
    <3>3. 1 \in 1..Len(summary.attributes)
      BY <3>1, <3>2, EmptySeq
    <3>4. DOMAIN summary.attributes = 1..Len(summary.attributes)
      BY <3>2
    <3> QED BY <3>1, <3>3, <3>4 DEF ToSet
  <2>3. UNCHANGED <<disk, reader, replay>>
    BY <1>1, <2>1 DEF disk, reader, replay
  <2> QED BY <1>2, <2>1, <2>2, <2>3, ReadingStops
<1>4. CASE ~ReadIsUndefined(file, settings)
  <2> DEFINE e == <<ReadSummary(file, settings)>>
  <2>1. threads' = WithTablesOf(threads, stack, e) /\ stack' = Caller /\ phase' = phase
    BY <1>4 DEF ReadTables, WithTablesOf, Top
  <2>2. e \in Tables /\ e # <<>>
    BY DEF Tables
  <2> HIDE DEF e
  <2>3. /\ StackOK(stack', objects, threads') /\ stack' # <<>>
        /\ Last(stack').fn = "archive" /\ PendingOK(stack', objects, threads')
        /\ threads' \in Seq(LoadedThread) /\ Len(threads') = Len(threads)
        /\ \A i \in 1..Len(threads) : threads'[i].id = threads[i].id
    BY <1>1, <1>2, <2>1, <2>2, TablesOK DEF Top, Caller
  <2>4. ThreadsOK(objects, threads')
    <3>1. Longer(objects, objects)
      BY <1>2, LenProperties DEF Longer
    <3> QED BY <1>2, <2>3, <3>1, ThreadsStayOK
  <2>5. NoOwnLocations(objects) => ~ForTheList(stack')
    BY <1>2, <2>1, NotForTheListBelow DEF Caller
  <2>6. ListOK(stack', objects, archive_list, nb_allocated_archives, overrun)
    BY <1>2, <2>5, ListStaysOK
  <2>7. UNCHANGED <<disk, phase, replay>>
    BY <1>1, <2>1 DEF disk, replay
  <2> QED BY <1>1, <1>2, <2>3, <2>4, <2>6, <2>7, ReadingGoesOn
<1> QED BY <1>3, <1>4

\* A program that fails keeps it.
LEMMA FailKeeps ==
  ASSUME IInv, TakeLocationFails \/ TakeGroupFails
  PROVE  IInv'
<1>1. phase = "opening" /\ phase' = "open failed" /\ stack' = stack
      /\ UNCHANGED <<disk, reader, replay>>
  BY DEF TakeLocationFails, TakeGroupFails, Running, Fail
<1> QED BY <1>1, ReadingStops, WhileReading


\* What is said of the reader stays when it does nothing.
LEMMA ReaderRests ==
  ASSUME IInv, layout' = layout, stack' = stack, UNCHANGED reader
  PROVE  /\ StackOK(stack, objects, threads)' /\ PendingOK(stack, objects, threads)'
         /\ ThreadsOK(objects, threads)' /\ ObjectsOK(objects, archive_list)'
         /\ ListOK(stack, objects, archive_list, nb_allocated_archives, overrun)'
<1>1. /\ objects' = objects /\ threads' = threads /\ archive_list' = archive_list
      /\ nb_allocated_archives' = nb_allocated_archives /\ overrun' = overrun
  BY DEF reader
<1>2. /\ StackOK(stack', objects', threads') /\ PendingOK(stack', objects', threads')
      /\ ThreadsOK(objects', threads') /\ ObjectsOK(objects', archive_list')
      /\ ListOK(stack', objects', archive_list', nb_allocated_archives', overrun')
  BY <1>1 DEF IInv
<1> QED
  BY <1>2, StackInNextState, PendingInNextState, ThreadsInNextState, ObjectsInNextState,
     ListInNextState

\* Only the first call is left when the archives of all groups are known.
LEMMA ArchiveIsOpenedKeeps ==
  ASSUME IInv, ArchiveIsOpened
  PROVE  IInv'
<1>1. /\ phase = "opening" /\ Top.fn = "main" /\ phase' = "opened" /\ stack' = <<>>
      /\ layout' = layout /\ opened' = opened /\ settings' = settings /\ file' = file
      /\ summary' = summary /\ cursor' = cursor /\ results' = results
      /\ objects' = objects /\ threads' = threads /\ archive_list' = archive_list
      /\ nb_allocated_archives' = nb_allocated_archives /\ overrun' = overrun
  BY DEF ArchiveIsOpened, Running, disk, reader, replay
<1>2. /\ stack # <<>> /\ objects \in Seq(ArchiveId)
      /\ file = EventFile(summary, settings) /\ results = <<>>
      /\ StackOK(stack, objects, threads) /\ PendingOK(stack, objects, threads)
      /\ ThreadsOK(objects, threads) /\ ObjectsOK(objects, archive_list)
      /\ ListOK(stack, objects, archive_list, nb_allocated_archives, overrun)
  BY <1>1, WhileReading
<1>3. stack \in Seq(Frame) /\ Front(stack) = <<>>
  BY <1>1, <1>2, TopOK DEF Top
<1>4. Frames(<<>>) = {}
  BY NoPositions DEF Frames
<1>5. Frames(stack) = {Top}
  BY <1>2, <1>3, <1>4, FramesOf DEF Top
<1>6. PendingOK(<<>>, objects, threads)
  BY <1>1, <1>2, <1>5 DEF PendingOK
<1>7. StackOK(<<>>, objects, threads)
  BY <1>2, <1>3, PopOK
<1>8. ListOK(<<>>, objects, archive_list, nb_allocated_archives, overrun)
  <2>1. NoOwnLocations(objects) => ~ForTheList(<<>>)
    BY <1>2, <1>3, NotForTheListBelow
  <2> QED BY <1>2, <2>1, ListStaysOK
<1>9. TypeInv'
  BY <1>1 DEF IInv, TypeInv, ArchiveId, LoadedThread, ThreadId, Tables
<1>10. PhaseInv'
  BY <1>1, <1>2 DEF PhaseInv
<1>11. StackOK(stack, objects, threads)' /\ PendingOK(stack, objects, threads)'
  BY <1>1, <1>6, <1>7, StackInNextState, PendingInNextState
<1>12. /\ ThreadsOK(objects, threads)' /\ ObjectsOK(objects, archive_list)'
       /\ ListOK(stack, objects, archive_list, nb_allocated_archives, overrun)'
  BY <1>1, <1>2, <1>8, ThreadsInNextState, ObjectsInNextState, ListInNextState
<1>13. SummaryInv' /\ CursorInv' /\ AttributesAreFound'
  BY <1>1, <1>2 DEF IInv, SummaryInv, CursorInv, AttributesAreFound, Recorded
<1> QED BY <1>9, <1>10, <1>11, <1>12, <1>13 DEF IInv

\* The stack of a reader that starts.
FirstStack == << [fn |-> "main", next |-> 1], [fn |-> "archive", object |-> 1, next |-> 1] >>

\* The stack on which opening begins.
LEMMA FirstStackOK ==
  ASSUME NEW obj, Len(obj) = 1, NEW th, NEW s, s = FirstStack
  PROVE  /\ StackOK(s, obj, th) /\ s # <<>> /\ Last(s).fn = "archive" /\ ~ForTheList(s)
         /\ \E f \in Frames(s) : f.fn = "archive" /\ f.object = 1
<1> DEFINE m == [fn |-> "main", next |-> 1]
           a == [fn |-> "archive", object |-> 1, next |-> 1]
<1>1. /\ m \in Frame /\ m.fn = "main"
      /\ a \in Frame /\ a.fn = "archive" /\ a.object = 1 /\ a.next = 1
  BY DEF Frame, MainFrame, ArchiveFrame
<1> HIDE DEF m, a
<1>2. s = <<m, a>>
  BY DEF m, a, FirstStack
<1>3. s \in Seq(Frame) /\ Len(s) = 2 /\ s[1] = m /\ s[2] = a /\ s # <<>>
  BY <1>1, <1>2
<1>4. FrameOK(m, obj, th) /\ FrameOK(a, obj, th)
  <2>1. 1 <= Len(LocationsOf(obj[1])) + 1 /\ 1..(1 - 1) = {}
    BY LenProperties
  <2> QED BY <1>1, <2>1 DEF FrameOK, LoadedUpTo
<1>5. Calls(m, a, obj)
  BY <1>1 DEF Calls
<1>6. /\ \A k \in 1..2 : k = 1 \/ k = 2
      /\ \A k \in 1..(2 - 1) : k = 1 /\ k + 1 = 2
      /\ \A k \in 1..(2 - 2) : FALSE
  OBVIOUS
<1>7. StackOK(s, obj, th)
  BY <1>1, <1>3, <1>4, <1>5, <1>6 DEF StackOK
<1>8. Last(s) = a
  BY <1>3 DEF Last
<1>9. Front(s) = <<m>>
  <2>1. /\ Front(s) \in Seq(Frame) /\ Len(Front(s)) = 1 /\ Front(s)[1] = m
    <3>1. /\ Front(s) \in Seq(Frame) /\ Len(Front(s)) = Len(s) - 1
          /\ \A k \in 1..(Len(s) - 1) : Front(s)[k] = s[k]
      BY <1>3, TopAndRest
    <3>2. 1 \in 1..(Len(s) - 1)
      BY <1>3
    <3>3. Len(s) - 1 = 1
      BY <1>3
    <3> HIDE DEF Front
    <3> QED BY <1>3, <3>1, <3>2, <3>3
  <2> HIDE DEF Front
  <2> QED BY <2>1
<1>10. ~ForTheList(s)
  BY <1>1, <1>9 DEF ForTheList, Last
<1>11. a \in Frames(s)
  BY <1>3, <1>6 DEF Frames
<1> QED BY <1>1, <1>3, <1>7, <1>8, <1>10, <1>11


\* Storing the threads keeps the invariant.
LEMMA StoreThreadsKeeps ==
  ASSUME IInv, StoreThreads
  PROVE  IInv'
<1>1. /\ phase = "recording"
      /\ layout' = layout /\ opened' = opened /\ settings' = settings /\ summary' = summary
      /\ threads' = threads /\ archive_list' = archive_list
      /\ nb_allocated_archives' = nb_allocated_archives /\ overrun' = overrun
      /\ cursor' = cursor /\ results' = results
  BY DEF StoreThreads, replay
<1>2. /\ stack = <<>> /\ objects = <<>> /\ threads = <<>> /\ archive_list = <<>>
      /\ cursor = 1 /\ results = <<>>
  BY <1>1 DEF IInv, PhaseInv
<1>3. CASE StoreAborts(summary, settings) \/ StoreCrashes(summary, settings)
  <2>1. phase' = "store failed" /\ file' = file /\ stack' = stack /\ objects' = objects
    BY <1>3 DEF StoreThreads
  <2>2. UNCHANGED <<disk, reader, replay>>
    BY <1>1, <2>1 DEF disk, reader, replay
  <2> QED BY <1>2, <2>1, <2>2, ReadingStops
<1>4. CASE ~(StoreAborts(summary, settings) \/ StoreCrashes(summary, settings))
  <2>1. /\ phase' = "opening" /\ file' = EventFile(summary, settings)
        /\ objects' = <<opened>> /\ stack' = FirstStack
    BY <1>4 DEF StoreThreads, FirstStack
  <2>2. /\ opened \in ArchiveId /\ layout.archives[opened] # Missing
        /\ objects' \in Seq(ArchiveId) /\ objects' # <<>> /\ Len(objects') = 1
        /\ objects'[1] = opened
    BY <2>1 DEF IInv, TypeInv
  <2>3. /\ StackOK(stack', objects', threads) /\ stack' # <<>> /\ Last(stack').fn = "archive"
        /\ ~ForTheList(stack') /\ \E f \in Frames(stack') : f.fn = "archive" /\ f.object = 1
    BY <2>1, <2>2, FirstStackOK
  <2>4. /\ \A i \in 1..Len(objects') : i = 1
        /\ \A i \in 1..Len(threads) : FALSE
        /\ \A i \in 1..Len(archive_list) : FALSE
    BY <1>2, <2>2, NoPositions
  <2>5. PendingOK(stack', objects', threads)
    BY <2>3, <2>4 DEF PendingOK
  <2>6. ThreadsOK(objects', threads) /\ ObjectsOK(objects', archive_list)
    BY <2>2, <2>4 DEF ThreadsOK, ObjectsOK
  <2>7. ListOK(stack', objects', archive_list, nb_allocated_archives, overrun)
    <3>1. NoOwnLocations(objects)
      BY <1>2 DEF NoOwnLocations
    <3>2. ~overrun
      BY <3>1 DEF IInv, ListOK
    <3> QED BY <2>3, <2>4, <3>2 DEF ListOK
  <2>8. TypeInv'
    BY <1>1, <1>2, <2>2 DEF IInv, TypeInv, ArchiveId
  <2>9. PhaseInv'
    BY <1>1, <1>2, <2>1, <2>2, <2>3 DEF PhaseInv, Top
  <2>10. StackOK(stack, objects, threads)' /\ PendingOK(stack, objects, threads)'
    BY <1>1, <2>3, <2>5, StackInNextState, PendingInNextState
  <2>11. /\ ThreadsOK(objects, threads)' /\ ObjectsOK(objects, archive_list)'
         /\ ListOK(stack, objects, archive_list, nb_allocated_archives, overrun)'
    BY <1>1, <2>6, <2>7, ThreadsInNextState, ObjectsInNextState, ListInNextState
  <2>12. SummaryInv' /\ CursorInv' /\ AttributesAreFound'
    BY <1>1, <1>2, <2>1 DEF IInv, SummaryInv, CursorInv, AttributesAreFound, Recorded
  <2> QED BY <2>8, <2>9, <2>10, <2>11, <2>12 DEF IInv
<1> QED BY <1>3, <1>4

-----------------------------------------------------------------------------
(* The occurrences are recorded and read *)

Vector == Seq([starting_index : Nat, items : Seq(Duration)])

\* LinkedVector::add makes the vector one longer.
LEMMA AddOK ==
  ASSUME NEW v \in Vector, v # <<>>, NEW x \in Duration
  PROVE  /\ Add(v, x) \in Vector /\ Add(v, x) # <<>> /\ VectorSize(v) \in Nat
         /\ VectorSize(Add(v, x)) = VectorSize(v) + 1
<1> DEFINE S == [starting_index : Nat, items : Seq(Duration)]
           y == Last(v)
           n == Len(v)
           one == [starting_index |-> VectorSize(v), items |-> <<x>>]
           more == [y EXCEPT !.items = Append(@, x)]
<1>1. v \in Seq(S) /\ n \in Nat \ {0} /\ n \in 1..n
  <2>1. v \in Seq(S)
    BY DEF Vector
  <2>2. n \in Nat \ {0}
    BY <2>1, EmptySeq
  <2> QED BY <2>1, <2>2
<1>2. y \in S /\ y = v[n]
  BY <1>1, ElementOfSeq DEF Last
<1>3. y.starting_index \in Nat /\ y.items \in Seq(Duration) /\ Len(y.items) \in Nat
  BY <1>2, LenProperties
<1>4. VectorSize(v) = y.starting_index + Len(y.items) /\ VectorSize(v) \in Nat
  BY <1>3 DEF VectorSize
<1>5. /\ one \in S /\ one.starting_index = VectorSize(v) /\ Len(one.items) = 1
  BY <1>4
<1>6. /\ more \in S /\ more.starting_index = y.starting_index
      /\ Len(more.items) = Len(y.items) + 1
  <2>1. /\ Append(y.items, x) \in Seq(Duration)
        /\ Len(Append(y.items, x)) = Len(y.items) + 1
    BY <1>3, AppendProperties
  <2> QED BY <1>2, <2>1
<1> HIDE DEF y, n, one, more, S
<1>7. CASE Add(v, x) = Append(v, one)
  <2>1. /\ Append(v, one) \in Seq(S) /\ Append(v, one) # <<>> /\ Last(Append(v, one)) = one
    BY <1>1, <1>5, Push
  <2>2. VectorSize(Append(v, one)) = VectorSize(v) + 1
    BY <1>5, <2>1 DEF VectorSize
  <2> QED BY <1>4, <1>7, <2>1, <2>2 DEF Vector, S
<1>8. CASE Add(v, x) = [v EXCEPT ![n] = more]
  <2> DEFINE u == [v EXCEPT ![n] = more]
  <2>1. u \in Seq(S) /\ Len(u) = n /\ \A k \in 1..n : u[k] = IF k = n THEN more ELSE v[k]
    BY <1>1, <1>6, ExceptSeq DEF n
  <2> HIDE DEF u
  <2>2. Last(u) = more /\ u # <<>>
    BY <1>1, <2>1 DEF Last
  <2>3. VectorSize(u) = VectorSize(v) + 1
    BY <1>3, <1>4, <1>6, <2>2 DEF VectorSize
  <2> QED BY <1>4, <1>8, <2>1, <2>2, <2>3 DEF Vector, S, u
<1>9. Add(v, x) = Append(v, one) \/ Add(v, x) = [v EXCEPT ![n] = more]
  <2>1. [v EXCEPT ![n].items = Append(@, x)] = [v EXCEPT ![n] = more]
    BY <1>2 DEF more
  <2> QED BY <2>1 DEF Add, n, one
<1> QED BY <1>7, <1>8, <1>9

\* So does recording an occurrence,
LEMMA RecordOccurenceKeeps ==
  ASSUME IInv, NEW d \in Duration, NEW attributed \in BOOLEAN, RecordOccurence(d, attributed)
  PROVE  IInv'
<1> DEFINE A == summary.attributes
           B == summary'.attributes
<1>1. /\ phase = "recording" /\ phase' = phase /\ stack' = stack /\ UNCHANGED <<reader, replay>>
      /\ layout' = layout /\ opened' = opened /\ settings' = settings /\ file' = file
      /\ objects' = objects /\ threads' = threads /\ archive_list' = archive_list
      /\ nb_allocated_archives' = nb_allocated_archives /\ overrun' = overrun
      /\ cursor' = cursor /\ results' = results
      /\ summary' = StoreOccurence(summary, d, attributed)
  BY DEF RecordOccurence, reader, replay
<1>2. /\ stack = <<>> /\ objects = <<>> /\ threads = <<>> /\ archive_list = <<>>
      /\ cursor = 1 /\ results = <<>>
  BY <1>1 DEF IInv, PhaseInv
<1>3. /\ summary.durations # <<>> /\ summary.durations \in Vector
      /\ A \in Seq(Nat) /\ Len(A) \in Nat
      /\ \A i \in 1..Len(A) : A[i] < Recorded
      /\ \A i, j \in 1..Len(A) : i < j => A[i] < A[j]
  BY LenProperties DEF IInv, SummaryInv, Vector
<1>4. /\ summary'.durations = Add(summary.durations, d)
      /\ B = A \/ B = Append(A, Recorded)
  BY <1>1 DEF StoreOccurence, Occurences, Recorded
<1>5. /\ summary'.durations \in Vector /\ summary'.durations # <<>>
      /\ Recorded \in Nat /\ Recorded' = Recorded + 1
  BY <1>3, <1>4, AddOK DEF Recorded
<1>6. /\ B \in Seq(Nat) /\ \A i \in 1..Len(B) : B[i] < Recorded'
      /\ \A i, j \in 1..Len(B) : i < j => B[i] < B[j]
  <2>0. \A i \in 1..Len(A) : A[i] \in Nat
    BY <1>3, ElementOfSeq
  <2>1. CASE B = A
    BY <1>3, <1>5, <2>0, <2>1
  <2>2. CASE B = Append(A, Recorded)
    <3>1. /\ B \in Seq(Nat) /\ Len(B) = Len(A) + 1 /\ B[Len(A) + 1] = Recorded
          /\ \A i \in 1..Len(A) : B[i] = A[i]
      BY <1>3, <1>5, <2>2, AppendProperties
    <3> HIDE DEF A, B
    <3>2. \A i \in 1..Len(B) : i \in 1..Len(A) \/ i = Len(A) + 1
      BY <1>3, <3>1
    <3>3. ASSUME NEW i \in 1..Len(B)
          PROVE  B[i] < Recorded'
      <4>1. CASE i \in 1..Len(A)
        <5>1. B[i] \in Nat /\ B[i] < Recorded
          BY <1>3, <2>0, <3>1, <4>1
        <5> QED BY <1>5, <5>1
      <4>2. CASE i = Len(A) + 1
        <5>1. B[i] = Recorded
          BY <3>1, <4>2
        <5> QED BY <1>5, <5>1
      <4> QED BY <3>2, <4>1, <4>2
    <3>4. ASSUME NEW i \in 1..Len(B), NEW j \in 1..Len(B), i < j
          PROVE  B[i] < B[j]
      <4>1. i \in 1..Len(A)
        BY <1>3, <3>1, <3>4
      <4>2. CASE j \in 1..Len(A)
        BY <1>3, <3>1, <3>4, <4>1, <4>2
      <4>3. CASE j = Len(A) + 1
        BY <1>3, <3>1, <4>1, <4>3
      <4> QED BY <3>2, <4>2, <4>3
    <3> QED BY <3>1, <3>3, <3>4
  <2> QED BY <1>4, <2>1, <2>2
<1>7. SummaryInv'
  BY <1>5, <1>6 DEF SummaryInv, Vector
<1>8. CursorInv'
  <2> HIDE DEF B
  <2>1. cursor' = 1 /\ results' = <<>>
    BY <1>1, <1>2
  <2>2. \A i \in 1..Len(B) : ~(i < 1)
    OBVIOUS
  <2>3. \A i \in 1..Len(B) : i < cursor' => B[i] < Len(results')
    BY <2>1, <2>2
  <2> QED BY <2>1, <2>3 DEF CursorInv, B
<1>9. AttributesAreFound'
  <2>1. results' = <<>> /\ 1..Len(<<>>) = {} /\ phase' = "recording"
    BY <1>1, <1>2, NoPositions
  <2> QED BY <2>1 DEF AttributesAreFound
<1>10. TypeInv' /\ PhaseInv'
  BY <1>1, <1>2 DEF IInv, TypeInv, PhaseInv, ArchiveId
<1>11. /\ StackOK(stack, objects, threads)' /\ PendingOK(stack, objects, threads)'
       /\ ThreadsOK(objects, threads)' /\ ObjectsOK(objects, archive_list)'
       /\ ListOK(stack, objects, archive_list, nb_allocated_archives, overrun)'
  BY <1>1, ReaderRests
<1> QED BY <1>7, <1>8, <1>9, <1>10, <1>11 DEF IInv


\* The cursor stops at the first list of an occurrence that is not before this
\* one, or after the last list.
LEMMA MoveCursorIs ==
  ASSUME NEW e, e.attributes \in Seq(Nat), NEW cur \in Nat \ {0}, NEW o \in Nat
  PROVE  LET c == MoveCursor(e, cur, o)
             n == Len(e.attributes)
         IN  /\ c \in Nat \ {0} /\ c <= n + 1
             /\ c <= n => c >= cur /\ e.attributes[c] >= o
             /\ \A i \in 1..n : i >= cur /\ i < c => e.attributes[i] < o
<1> DEFINE n == Len(e.attributes)
           R == {i \in cur..n : e.attributes[i] >= o}
           S == R \cup {n + 1}
           c == Min(S)
<1>1. n \in Nat /\ \A i \in 1..n : e.attributes[i] \in Nat
  BY ElementOfSeq, LenProperties
<1>2. S \in SUBSET Nat /\ S # {} /\ n + 1 \in S
  BY <1>1
<1>3. c \in S /\ \A k \in S : c <= k
  <2> HIDE DEF S
  <2> QED BY <1>2, Least
<1>4. c \in Nat \ {0} /\ c <= n + 1
  BY <1>1, <1>2, <1>3
<1>5. c <= n => c >= cur /\ e.attributes[c] >= o
  BY <1>1, <1>3
<1>6. ASSUME NEW i \in 1..n, i >= cur, i < c
      PROVE  e.attributes[i] < o
  <2>1. i \notin S
    BY <1>3, <1>4, <1>6
  <2>2. ~(e.attributes[i] >= o)
    BY <1>1, <1>6, <2>1
  <2>3. e.attributes[i] \in Nat
    BY <1>1
  <2> QED BY <2>2, <2>3
<1>7. MoveCursor(e, cur, o) = c
  BY DEF MoveCursor
<1> QED BY <1>4, <1>5, <1>6, <1>7

\* and reading one.
LEMMA ReadOccurenceKeeps ==
  ASSUME IInv, ReadOccurence
  PROVE  IInv'
<1> DEFINE e == threads[1].events[1]
           A == summary.attributes
           o == Len(results)
           c == MoveCursor(e, cursor, o)
           attributed == ToSet(A)
<1>1. /\ phase = "opened" /\ threads # <<>> /\ stack' = stack /\ UNCHANGED reader
      /\ layout' = layout /\ opened' = opened /\ settings' = settings /\ file' = file
      /\ summary' = summary
      /\ objects' = objects /\ threads' = threads /\ archive_list' = archive_list
      /\ nb_allocated_archives' = nb_allocated_archives /\ overrun' = overrun
  BY DEF ReadOccurence, disk, reader
<1>2. /\ stack = <<>> /\ file = EventFile(summary, settings)
      /\ threads \in Seq(LoadedThread) /\ PendingOK(stack, objects, threads)
      /\ SummaryInv /\ CursorInv /\ AttributesAreFound
  BY <1>1 DEF IInv, PhaseInv, TypeInv
<1>3. e.attributes = A
  <2>1. 1 \in 1..Len(threads) /\ threads[1] \in LoadedThread
    BY <1>1, <1>2, EmptySeq, ElementOfSeq
  <2>2. threads[1].events # <<>>
    <3>1. Frames(stack) = {}
      BY <1>2, NoPositions DEF Frames
    <3> QED BY <1>2, <2>1, <3>1 DEF PendingOK
  <2>3. threads[1].events = <<ReadSummary(file, settings)>>
    BY <2>1, <2>2 DEF LoadedThread, Tables
  <2>4. e = ReadSummary(file, settings)
    BY <2>3
  <2> QED BY <1>2, <2>4 DEF ReadSummary, EventFile
<1>4. /\ A \in Seq(Nat) /\ Len(A) \in Nat /\ \A i \in 1..Len(A) : A[i] \in Nat
      /\ \A i, j \in 1..Len(A) : i < j => A[i] < A[j]
  BY <1>2, ElementOfSeq, LenProperties DEF SummaryInv
<1>5. /\ cursor \in Nat \ {0} /\ results \in Seq(BOOLEAN) /\ o \in Nat
      /\ \A i \in 1..Len(A) : i < cursor => A[i] < o
  BY <1>2, LenProperties DEF CursorInv
<1>6. \A x : x \in attributed <=> \E i \in 1..Len(A) : A[i] = x
  <2>1. DOMAIN A = 1..Len(A)
    BY <1>4
  <2> QED BY <2>1 DEF ToSet
<1>7. /\ c \in Nat \ {0} /\ c <= Len(A) + 1
      /\ c <= Len(A) => c >= cursor /\ A[c] >= o
      /\ \A i \in 1..Len(A) : i >= cursor /\ i < c => A[i] < o
  <2> HIDE DEF e, o, A
  <2> QED BY <1>3, <1>4, <1>5, MoveCursorIs
<1>8. \/ A = <<>> /\ results' = Append(results, FALSE) /\ phase' = phase /\ cursor' = cursor
      \/ /\ A # <<>> /\ cursor' = c /\ c <= Len(A) /\ A[c] = o
         /\ results' = Append(results, TRUE) /\ phase' = phase
      \/ /\ A # <<>> /\ cursor' = c /\ ~(c <= Len(A) /\ A[c] = o)
         /\ phase' \in {"undefined", "read failed"} /\ results' = results
  <2> HIDE DEF c
  <2> QED BY <1>1, <1>3 DEF ReadOccurence, c
<1> HIDE DEF c, e
<1>9. \A i \in 1..Len(A) : i < c => A[i] < o
  <2> SUFFICES ASSUME NEW i \in 1..Len(A), i < c
               PROVE  A[i] < o
    OBVIOUS
  <2>1. i < cursor \/ i >= cursor
    BY <1>5
  <2> QED BY <1>5, <1>7, <2>1
<1>10. ASSUME NEW x \in BOOLEAN, x <=> o \in attributed, results' = Append(results, x), phase' = phase
       PROVE  AttributesAreFound' /\ results' \in Seq(BOOLEAN) /\ Len(results') = o + 1
  <2>1. /\ results' \in Seq(BOOLEAN) /\ Len(results') = o + 1 /\ results'[o + 1] = x
        /\ \A i \in 1..o : results'[i] = results[i]
    BY <1>5, <1>10, AppendProperties
  <2>2. \A i \in 1..o : results[i] <=> (i - 1) \in attributed
    BY <1>2 DEF AttributesAreFound
  <2> HIDE DEF o, A
  <2>3. ASSUME NEW i \in 1..Len(results')
        PROVE  results'[i] <=> (i - 1) \in attributed
    <3>1. CASE i \in 1..o
      <4>1. results'[i] = results[i]
        BY <2>1, <3>1
      <4>2. results[i] <=> (i - 1) \in attributed
        BY <2>2, <3>1
      <4> QED BY <4>1, <4>2, Zenon
    <3>2. CASE i = o + 1
      <4>1. i - 1 = o
        BY <1>5, <3>2
      <4>2. results'[i] = x
        BY <2>1, <3>2
      <4> QED BY <1>10, <4>1, <4>2, Zenon
    <3>3. i \in 1..o \/ i = o + 1
      BY <1>5, <2>1
    <3> QED BY <3>1, <3>2, <3>3
  <2>4. phase' \notin {"read failed", "undefined"}
    BY <1>1, <1>10
  <2>5. summary' = summary
    BY <1>1
  <2>6. \A i \in 1..Len(results') : results'[i] <=> (i - 1) \in ToSet(summary'.attributes)
    BY <2>3, <2>5, Zenon DEF A
  <2> QED BY <2>1, <2>4, <2>6, Zenon DEF AttributesAreFound
<1>11. CursorInv' /\ AttributesAreFound'
  <2>1. CASE A = <<>> /\ results' = Append(results, FALSE) /\ phase' = phase /\ cursor' = cursor
    <3>1. ~(o \in attributed) /\ 1..Len(A) = {}
      BY <1>6, <2>1, NoPositions
    <3>2. AttributesAreFound' /\ results' \in Seq(BOOLEAN)
      BY <1>10, <2>1, <3>1
    <3> QED BY <1>1, <1>5, <2>1, <3>1, <3>2 DEF CursorInv
  <2>2. CASE /\ A # <<>> /\ cursor' = c /\ c <= Len(A) /\ A[c] = o
             /\ results' = Append(results, TRUE) /\ phase' = phase
    <3>1. o \in attributed
      BY <1>4, <1>6, <1>7, <2>2
    <3>2. AttributesAreFound' /\ results' \in Seq(BOOLEAN) /\ Len(results') = o + 1
      BY <1>10, <2>2, <3>1
    <3>3. \A i \in 1..Len(A) : i < cursor' => A[i] < Len(results')
      <4> SUFFICES ASSUME NEW i \in 1..Len(A), i < cursor'
                   PROVE  A[i] < Len(results')
        OBVIOUS
      <4>1. A[i] < o /\ A[i] \in Nat
        BY <1>4, <1>9, <2>2
      <4> QED BY <1>5, <3>2, <4>1
    <3>4. cursor' \in Nat \ {0}
      BY <1>7, <2>2
    <3> QED BY <1>1, <3>2, <3>3, <3>4 DEF CursorInv
  <2>3. CASE /\ A # <<>> /\ cursor' = c /\ ~(c <= Len(A) /\ A[c] = o)
             /\ phase' \in {"undefined", "read failed"} /\ results' = results
    <3>1. o \notin attributed
      <4> SUFFICES ASSUME NEW j \in 1..Len(A), A[j] = o
                   PROVE  FALSE
        BY <1>6
      <4> HIDE DEF o, A
      <4>1. ~(j < c)
        BY <1>5, <1>9
      <4>2. c \in 1..Len(A) /\ c <= j
        BY <1>4, <1>7, <4>1
      <4>3. CASE c = j
        <5>1. c <= Len(A) /\ A[c] = o
          BY <1>4, <4>2, <4>3
        <5> QED BY <2>3, <5>1
      <4>4. CASE c < j
        <5>1. A[c] < A[j] /\ A[c] >= o /\ A[c] \in Nat
          BY <1>4, <1>7, <4>2, <4>4
        <5> QED BY <1>5, <5>1
      <4> QED BY <4>2, <4>3, <4>4
    <3>2. attributed # {}
      <4> HIDE DEF A, o
      <4>1. A # <<>>
        BY <2>3
      <4>2. Len(A) \in Nat \ {0}
        BY <1>4, <4>1, EmptySeq
      <4>3. 1 \in 1..Len(A)
        BY <4>2
      <4> QED BY <1>6, <4>3
    <3>3. AttributesAreFound'
      BY <1>1, <1>2, <2>3, <3>1, <3>2 DEF AttributesAreFound
    <3>4. \A i \in 1..Len(A) : i < cursor' => A[i] < Len(results')
      BY <1>9, <2>3
    <3>5. cursor' \in Nat \ {0} /\ results' \in Seq(BOOLEAN)
      BY <1>5, <1>7, <2>3
    <3> QED BY <1>1, <3>3, <3>4, <3>5 DEF CursorInv
  <2> QED BY <1>8, <2>1, <2>2, <2>3
<1>12. TypeInv'
  BY <1>1 DEF IInv, TypeInv, ArchiveId, LoadedThread, ThreadId, Tables
<1>13. PhaseInv'
  <2>1. phase' \in {"opened", "undefined", "read failed"}
    BY <1>1, <1>8
  <2> QED BY <1>1, <1>2, <2>1 DEF PhaseInv
<1>14. /\ StackOK(stack, objects, threads)' /\ PendingOK(stack, objects, threads)'
       /\ ThreadsOK(objects, threads)' /\ ObjectsOK(objects, archive_list)'
       /\ ListOK(stack, objects, archive_list, nb_allocated_archives, overrun)'
  BY <1>1, ReaderRests
<1>15. SummaryInv'
  BY <1>1, <1>2 DEF SummaryInv, Recorded
<1> QED BY <1>11, <1>12, <1>13, <1>14, <1>15 DEF IInv


-----------------------------------------------------------------------------
(* The theorems *)

\* The invariant holds at first,
LEMMA InitiallyOK ==
  ASSUME Init
  PROVE  IInv
<1>1. /\ layout \in Layout /\ opened \in ArchiveId /\ layout.archives[opened] # Missing
      /\ summary = EmptySummary /\ phase = "recording" /\ stack = <<>> /\ objects = <<>>
      /\ threads = <<>> /\ archive_list = <<>> /\ nb_allocated_archives = 1
      /\ overrun = FALSE /\ cursor = 1 /\ results = <<>>
  BY DEF Init, ArchiveId
<1>2. TypeInv
  BY <1>1 DEF TypeInv
<1>3. PhaseInv
  BY <1>1 DEF PhaseInv
<1>4. /\ 1..Len(<<>>) = {} /\ 1..(Len(<<>>) - 1) = {} /\ 1..(Len(<<>>) - 2) = {}
      /\ 2..Len(<<>>) = {}
  OBVIOUS
<1>5. StackOK(<<>>, <<>>, <<>>)
  BY <1>4 DEF StackOK
<1>6. /\ PendingOK(<<>>, <<>>, <<>>) /\ ThreadsOK(<<>>, <<>>) /\ ObjectsOK(<<>>, <<>>)
  BY <1>4 DEF PendingOK, ThreadsOK, ObjectsOK
<1>7. ~ForTheList(<<>>)
  <2>1. Front(<<>>) = <<>>
    BY SubSeqEmpty DEF Front
  <2> QED BY <2>1 DEF ForTheList
<1>8. ListOK(<<>>, <<>>, <<>>, 1, FALSE)
  BY <1>4, <1>7 DEF ListOK
<1>9. SummaryInv
  <2>1. /\ summary.attributes = <<>> /\ summary.durations = EmptyVector
    BY <1>1 DEF EmptySummary
  <2>2. /\ EmptyVector # <<>>
        /\ EmptyVector \in Seq([starting_index : Nat, items : Seq(Duration)])
    BY DEF EmptyVector
  <2> QED BY <1>4, <2>1, <2>2 DEF SummaryInv
<1>10. CursorInv
  <2>1. summary.attributes = <<>>
    BY <1>1 DEF EmptySummary
  <2> QED BY <1>1, <1>4, <2>1 DEF CursorInv
<1>11. AttributesAreFound
  BY <1>1, <1>4 DEF AttributesAreFound
<1> QED BY <1>1, <1>2, <1>3, <1>5, <1>6, <1>8, <1>9, <1>10, <1>11 DEF IInv

\* and every step keeps it.
LEMMA StepsKeepInvariant ==
  ASSUME IInv, [Next]_vars
  PROVE  IInv'
<1>1. ASSUME NEW d \in Duration, NEW attributed \in BOOLEAN, RecordOccurence(d, attributed)
      PROVE  IInv'
  BY <1>1, RecordOccurenceKeeps
<1>2. CASE StoreThreads
  BY <1>2, StoreThreadsKeeps
<1>3. CASE TakeLocation
  BY <1>3, TakeLocationKeeps
<1>4. CASE TakeLocationFails \/ TakeGroupFails
  BY <1>4, FailKeeps
<1>5. CASE ThreadGetsArchive
  BY <1>5, ThreadGetsArchiveKeeps
<1>6. CASE ReadTables
  BY <1>6, ReadTablesKeeps
<1>7. CASE ArchiveIsRead
  BY <1>7, ArchiveIsReadKeeps
<1>8. CASE TakeGroup
  BY <1>8, TakeGroupKeeps
<1>9. CASE ArchiveIsOpened
  BY <1>9, ArchiveIsOpenedKeeps
<1>10. CASE ReadOccurence
  BY <1>10, ReadOccurenceKeeps
<1>11. CASE UNCHANGED vars
  <2>1. /\ layout' = layout /\ opened' = opened /\ settings' = settings /\ file' = file
        /\ summary' = summary /\ cursor' = cursor /\ results' = results /\ phase' = phase
        /\ objects' = objects /\ threads' = threads /\ archive_list' = archive_list
        /\ nb_allocated_archives' = nb_allocated_archives /\ overrun' = overrun
        /\ stack' = stack /\ UNCHANGED reader
    BY <1>11 DEF vars, disk, reader, replay
  <2>2. /\ StackOK(stack, objects, threads)' /\ PendingOK(stack, objects, threads)'
        /\ ThreadsOK(objects, threads)' /\ ObjectsOK(objects, archive_list)'
        /\ ListOK(stack, objects, archive_list, nb_allocated_archives, overrun)'
    BY <2>1, ReaderRests
  <2>3. TypeInv'
    BY <2>1 DEF IInv, TypeInv, ArchiveId, LoadedThread, ThreadId, Tables
  <2>4. PhaseInv'
    BY <2>1 DEF IInv, PhaseInv, Top
  <2>5. SummaryInv' /\ CursorInv' /\ AttributesAreFound'
    BY <2>1 DEF IInv, SummaryInv, CursorInv, AttributesAreFound, Recorded
  <2> QED BY <2>2, <2>3, <2>4, <2>5 DEF IInv
<1> QED
  BY <1>1, <1>2, <1>3, <1>4, <1>5, <1>6, <1>7, <1>8, <1>9, <1>10, <1>11 DEF Next, OpenStep

\* While archives are opened, what is not yet done is on the stack of the reader.
THEOREM Invariant == Spec => []IInv
<1>1. Init => IInv
  BY InitiallyOK
<1>2. IInv /\ [Next]_vars => IInv'
  BY StepsKeepInvariant
<1> QED BY <1>1, <1>2, PTL DEF Spec

\* htf_read_thread reads each thread of the locations once, with its tables and
\* the archive that its file names, however archives and threads read each other.
THEOREM ThreadsAreReadOnce == Spec => []EveryThreadOnce
<1>1. IInv => EveryThreadOnce
  <2> SUFFICES ASSUME IInv
               PROVE  EveryThreadOnce
    OBVIOUS
  <2>1. /\ threads \in Seq(LoadedThread) /\ objects \in Seq(ArchiveId)
        /\ ThreadsOK(objects, threads) /\ ObjectsOK(objects, archive_list)
        /\ PendingOK(stack, objects, threads)
    BY DEF IInv, TypeInv
  <2>2. \A i, j \in 1..Len(threads) : threads[i].id = threads[j].id => i = j
    BY <2>1 DEF ThreadsOK
  <2>3. ASSUME phase = "opened"
        PROVE  /\ {threads[i].id : i \in 1..Len(threads)} = Locations
               /\ \A i \in 1..Len(threads) :
                    /\ threads[i].events # <<>>
                    /\ HasItsArchive(objects, threads, i)
    <3>1. Frames(stack) = {}
      BY <2>3, NoPositions DEF IInv, PhaseInv, Frames
    <3>2. /\ \A i \in 1..Len(objects) :
               LoadedUpTo(threads, objects[i], Len(LocationsOf(objects[i])))
          /\ \A i \in 1..Len(threads) :
               HasItsArchive(objects, threads, i) /\ threads[i].events # <<>>
      BY <2>1, <3>1 DEF PendingOK
    <3>3. \A t : t \in Locations <=>
            \E o \in 1..Len(objects) : \E n \in 1..Len(LocationsOf(objects[o])) :
              LocationsOf(objects[o])[n] = t
      <4>1. \A o \in 1..Len(objects) :
              /\ ArchiveFile(o).locations = LocationsOf(objects[o])
              /\ DOMAIN LocationsOf(objects[o]) = 1..Len(LocationsOf(objects[o]))
        <5> SUFFICES ASSUME NEW o \in 1..Len(objects)
                     PROVE  DOMAIN LocationsOf(objects[o]) = 1..Len(LocationsOf(objects[o]))
          BY DEF ArchiveFile, LocationsOf
        <5>1. objects[o] \in ArchiveId /\ layout.archives[objects[o]] # Missing
          BY <2>1, ElementOfSeq DEF ObjectsOK
        <5>2. LocationsOf(objects[o]) \in Seq(ThreadId)
          BY <5>1, NamesExist
        <5> QED BY <5>2, LenProperties
      <4> QED BY <4>1 DEF Locations, ToSet
    <3>4. \A t : t \in Locations <=> \E i \in 1..Len(threads) : threads[i].id = t
      <4>1. ASSUME NEW t \in Locations
            PROVE  \E i \in 1..Len(threads) : threads[i].id = t
        <5>1. PICK o \in 1..Len(objects) :
                \E n \in 1..Len(LocationsOf(objects[o])) : LocationsOf(objects[o])[n] = t
          BY <3>3
        <5>2. PICK n \in 1..Len(LocationsOf(objects[o])) : LocationsOf(objects[o])[n] = t
          BY <5>1
        <5>3. HasThread(threads, LocationsOf(objects[o])[n])
          BY <3>2 DEF LoadedUpTo
        <5> QED BY <5>2, <5>3 DEF HasThread
      <4>2. \A i \in 1..Len(threads) : threads[i].id \in Locations
        BY <2>1, <3>3 DEF ThreadsOK
      <4> QED BY <4>1, <4>2
    <3> QED BY <3>2, <3>4
  <2>4. \A i : HasItsArchive(objects, threads, i) =>
          IF layout.archives[layout.threads[threads[i].id]] = Missing
          THEN threads[i].archive = 0
          ELSE /\ threads[i].archive # 0
               /\ objects[threads[i].archive] = layout.threads[threads[i].id]
    BY DEF HasItsArchive
  <2> QED BY <2>2, <2>3, <2>4 DEF EveryThreadOnce
<1> QED BY <1>1, Invariant, PTL

\* _htf_get_archive puts each archive in the list once, and within the array, if
\* the archives of location groups have no locations.
THEOREM ListIsExact == Spec => []ArchivesAreListedOnce
<1>1. IInv => ArchivesAreListedOnce
  <2> SUFFICES ASSUME IInv, ~\E i \in 2..Len(objects) : ArchiveFile(i).locations # <<>>
               PROVE  /\ ~overrun
                      /\ \A i, j \in 1..Len(archive_list) :
                           objects[archive_list[i]] = objects[archive_list[j]] => i = j
    BY DEF ArchivesAreListedOnce
  <2>1. NoOwnLocations(objects)
    BY DEF NoOwnLocations, ArchiveFile, LocationsOf
  <2> QED BY <2>1 DEF IInv, ListOK
<1> QED BY <1>1, Invariant, PTL

\* getEventAttributeList finds the list of each occurrence that has one, and no
\* other, and only fails where some occurrence has none or the lists were compressed.
THEOREM ListsAreFound == Spec => []AttributesAreFound
<1>1. IInv => AttributesAreFound
  BY DEF IInv
<1> QED BY <1>1, Invariant, PTL

-----------------------------------------------------------------------------
(* The bytes of a word *)

\* A set with 0 and the successors of its numbers has all numbers.
LEMMA EveryNumber ==
  ASSUME NEW P, 0 \in P, \A n \in Nat : n \in P => n + 1 \in P
  PROVE  Nat \subseteq P
<1> SUFFICES ASSUME NEW x \in Nat, x \notin P PROVE FALSE
  OBVIOUS
<1> DEFINE T == {n \in Nat : n \notin P}
           m == Min(T)
<1>1. T \in SUBSET Nat /\ T # {}
  OBVIOUS
<1>2. m \in T /\ \A k \in T : m <= k
  <2> HIDE DEF T
  <2> QED BY <1>1, Least
<1>3. m # 0 /\ m - 1 \in Nat
  BY <1>2
<1>4. m - 1 \in P
  BY <1>2, <1>3
<1> QED BY <1>2, <1>3, <1>4

\* r starts with a, and each value is what a step makes of the one before.
Computes(r, n, S, a, step) ==
  /\ r \in [0..n -> S]
  /\ r[0] = a
  /\ \A k \in 1..n : r[k] = step[k][r[k - 1]]

\* A recursive function of the numbers up to N exists.
LEMMA Recursion ==
  ASSUME NEW N \in Nat, NEW S, NEW a \in S, NEW step \in [1..N -> [S -> S]]
  PROVE  \E r : Computes(r, N, S, a, step)
<1> DEFINE Good(n, r) == Computes(r, n, S, a, step)
           P == {n \in Nat : n <= N => \E r : Good(n, r)}
<1> USE DEF Computes
<1>1. 0 \in P
  <2> DEFINE r == [k \in 0..0 |-> a]
  <2>1. Good(0, r)
    OBVIOUS
  <2> QED BY <2>1
<1>2. ASSUME NEW n \in Nat, n \in P PROVE n + 1 \in P
  <2> SUFFICES ASSUME n + 1 <= N PROVE \E s : Good(n + 1, s)
    OBVIOUS
  <2>1. PICK r : Good(n, r)
    BY <1>2
  <2> DEFINE s == [k \in 0..(n + 1) |-> IF k = n + 1 THEN step[n + 1][r[n]] ELSE r[k]]
  <2>2. step[n + 1][r[n]] \in S
    BY <2>1
  <2>3. s \in [0..(n + 1) -> S] /\ s[0] = a
    BY <2>1, <2>2
  <2>4. ASSUME NEW k \in 1..(n + 1) PROVE s[k] = step[k][s[k - 1]]
    <3>1. CASE k = n + 1
      BY <3>1
    <3>2. CASE k # n + 1
      <4>1. k \in 1..n /\ k - 1 \in 0..n /\ k - 1 # n + 1
        BY <3>2
      <4>2. s[k] = r[k] /\ s[k - 1] = r[k - 1]
        BY <4>1
      <4> QED BY <2>1, <4>1, <4>2
    <3> QED BY <3>1, <3>2
  <2>5. Good(n + 1, s)
    BY <2>3, <2>4
  <2> QED BY <2>5
<1> HIDE DEF P, Computes
<1>3. N \in P
  BY <1>1, <1>2, EveryNumber
<1> QED BY <1>3 DEF P

\* Each byte of a word counts ByteBase times the one before.
LEMMA WeightIs ==
  /\ Weight[0] = 1
  /\ \A n \in 1..WordBytes : Weight[n] = ByteBase * Weight[n - 1]
  /\ \A n \in 0..WordBytes : Weight[n] \in Nat \ {0}
<1> DEFINE S == Nat \ {0}
           step == [n \in 1..WordBytes |-> [x \in S |-> ByteBase * x]]
           Of(f) == [n \in 0..WordBytes |-> IF n = 0 THEN 1 ELSE ByteBase * f[n - 1]]
           W == CHOOSE f : f = Of(f)
<1>1. WordBytes \in Nat /\ ByteBase \in Nat \ {0} /\ 1 \in S
  BY SizesAssumption
<1>2. step \in [1..WordBytes -> [S -> S]]
  <2>1. \A x \in S : ByteBase * x \in S
    BY <1>1
  <2> QED BY <2>1
<1>3. \A n \in 1..WordBytes : \A x \in S : step[n][x] = ByteBase * x
  OBVIOUS
<1> HIDE DEF step, S
<1>4. PICK r : /\ r \in [0..WordBytes -> S] /\ r[0] = 1
               /\ \A k \in 1..WordBytes : r[k] = step[k][r[k - 1]]
  <2>1. \E r : Computes(r, WordBytes, S, 1, step)
    BY <1>1, <1>2, Recursion
  <2> QED BY <2>1 DEF Computes
<1>5. r = Of(r)
  <2>1. ASSUME NEW k \in 1..WordBytes PROVE r[k] = ByteBase * r[k - 1]
    <3>1. k - 1 \in 0..WordBytes
      BY <1>1
    <3>2. r[k - 1] \in S
      BY <1>4, <3>1
    <3> QED BY <1>3, <1>4, <3>2
  <2>2. \A k \in 0..WordBytes : k = 0 \/ k \in 1..WordBytes
    BY <1>1
  <2>3. \A k \in 0..WordBytes : r[k] = Of(r)[k]
    BY <1>4, <2>1, <2>2
  <2> QED BY <1>4, <2>3
<1>6. W = Of(W)
  BY <1>5
<1>7. Weight = W
  BY DEF Weight
<1> HIDE DEF W
<1>8. W[0] = 1 /\ \A n \in 1..WordBytes : W[n] = ByteBase * W[n - 1]
  <2>1. \A n \in 0..WordBytes : W[n] = IF n = 0 THEN 1 ELSE ByteBase * W[n - 1]
    BY <1>6
  <2>2. 0 \in 0..WordBytes /\ \A n \in 1..WordBytes : n \in 0..WordBytes /\ n # 0
    BY <1>1
  <2> QED BY <2>1, <2>2
<1>9. \A n \in 0..WordBytes : W[n] \in Nat \ {0}
  <2> DEFINE P == {n \in Nat : n <= WordBytes => W[n] \in Nat \ {0}}
  <2>1. 0 \in P
    BY <1>8
  <2>2. ASSUME NEW n \in Nat, n \in P PROVE n + 1 \in P
    <3> SUFFICES ASSUME n + 1 <= WordBytes PROVE W[n + 1] \in Nat \ {0}
      OBVIOUS
    <3>1. W[n] \in Nat \ {0}
      BY <1>1, <2>2
    <3>2. W[n + 1] = ByteBase * W[n]
      BY <1>1, <1>8
    <3> QED BY <1>1, <3>1, <3>2
  <2> HIDE DEF P
  <2>3. Nat \subseteq P
    BY <2>1, <2>2, EveryNumber
  <2> QED BY <1>1, <2>3 DEF P
<1> QED BY <1>7, <1>8, <1>9

\* A number and the next byte make the number of one byte more.
LEMMA NextByte ==
  ASSUME NEW x \in Nat, NEW n \in 0..(WordBytes - 1)
  PROVE  /\ Byte(x, n) \in Nat
         /\ x % Weight[n + 1] = (x % Weight[n]) + Byte(x, n) * Weight[n]
<1> DEFINE w == Weight[n]
           q == x \div w
           r == x % w
           b == q % ByteBase
           t == q \div ByteBase
<1>1. w \in Nat \ {0} /\ ByteBase \in Nat \ {0} /\ Weight[n + 1] = ByteBase * w
  <2>1. n \in 0..WordBytes /\ n + 1 \in 1..WordBytes /\ (n + 1) - 1 = n
    BY SizesAssumption
  <2> QED BY <2>1, WeightIs, SizesAssumption
<1> HIDE DEF w
<1>2. q \in Nat /\ r \in 0..(w - 1) /\ x = q * w + r
  BY <1>1
<1> HIDE DEF q, r
<1>3. t \in Nat /\ b \in 0..(ByteBase - 1) /\ q = t * ByteBase + b
  BY <1>1, <1>2
<1>4. Byte(x, n) = b
  BY DEF Byte, b, q, w
<1> HIDE DEF b, t
<1> DEFINE m == ByteBase * w
           s == r + b * w
<1>5. m \in Nat \ {0} /\ s \in 0..(m - 1)
  <2>1. b * w \in Nat /\ b * w <= (ByteBase - 1) * w
    BY <1>1, <1>3
  <2>2. (ByteBase - 1) * w = m - w
    BY <1>1
  <2>3. m \in Nat \ {0}
    BY <1>1
  <2> HIDE DEF m
  <2>4. s \in Nat /\ s <= (w - 1) + (m - w)
    BY <1>1, <1>2, <2>1, <2>2, <2>3
  <2> QED BY <1>1, <2>3, <2>4
<1>6. x = t * m + s
  <2>1. x = (t * ByteBase + b) * w + r
    BY <1>2, <1>3
  <2>2. (t * ByteBase + b) * w = t * (ByteBase * w) + b * w
    BY <1>1, <1>3
  <2> QED BY <1>1, <1>2, <1>3, <2>1, <2>2
<1> HIDE DEF m, s
<1>7. x % m = s
  BY <1>3, <1>5, <1>6
<1>8. Byte(x, n) \in Nat /\ x % Weight[n + 1] = r + Byte(x, n) * Weight[n]
  BY <1>1, <1>3, <1>4, <1>7 DEF m, s, w
<1> QED BY <1>8 DEF r, w


\* The word of the first bytes of a number is the number, up to what they hold.
LEMMA WordIs ==
  ASSUME NEW bytes \in Seq(Nat), Len(bytes) <= WordBytes, NEW x \in Nat,
         \A k \in 1..Len(bytes) : bytes[k] = Byte(x, k - 1)
  PROVE  WordOf(bytes) = x % Weight[Len(bytes)]
<1> DEFINE N == Len(bytes)
           step == [n \in 1..N |-> [y \in Nat |-> y + bytes[n] * Weight[n - 1]]]
           Of(f) == [n \in 0..N |-> IF n = 0 THEN 0 ELSE f[n - 1] + bytes[n] * Weight[n - 1]]
           W == CHOOSE f : f = Of(f)
<1>1. N \in Nat /\ WordBytes \in Nat /\ N <= WordBytes
  BY SizesAssumption, LenProperties
<1>2. \A n \in 1..N : bytes[n] * Weight[n - 1] \in Nat
  <2> SUFFICES ASSUME NEW n \in 1..N PROVE bytes[n] * Weight[n - 1] \in Nat
    OBVIOUS
  <2>1. bytes[n] \in Nat /\ n - 1 \in 0..WordBytes
    BY <1>1, ElementOfSeq
  <2>2. Weight[n - 1] \in Nat
    BY <2>1, WeightIs
  <2> QED BY <2>1, <2>2
<1>3. step \in [1..N -> [Nat -> Nat]]
  BY <1>2
<1>4. \A n \in 1..N : \A y \in Nat : step[n][y] = y + bytes[n] * Weight[n - 1]
  OBVIOUS
<1> HIDE DEF step, N
<1>5. PICK r : r \in [0..N -> Nat] /\ r[0] = 0 /\ \A k \in 1..N : r[k] = step[k][r[k - 1]]
  <2>1. \E r : Computes(r, N, Nat, 0, step)
    BY <1>1, <1>3, Recursion
  <2> QED BY <2>1 DEF Computes
<1>6. r = Of(r)
  <2>1. ASSUME NEW k \in 1..N PROVE r[k] = r[k - 1] + bytes[k] * Weight[k - 1]
    <3>1. r[k - 1] \in Nat
      BY <1>1, <1>5
    <3> QED BY <1>4, <1>5, <3>1
  <2>2. \A k \in 0..N : k = 0 \/ k \in 1..N
    BY <1>1
  <2>3. \A k \in 0..N : r[k] = Of(r)[k]
    BY <1>5, <2>1, <2>2
  <2> QED BY <1>5, <2>3
<1>7. W = Of(W)
  BY <1>6
<1>8. WordOf(bytes) = W[N]
  BY DEF WordOf, N
<1> HIDE DEF W
<1>9. W[0] = 0 /\ \A n \in 1..N : W[n] = W[n - 1] + bytes[n] * Weight[n - 1]
  <2>1. \A n \in 0..N : W[n] = IF n = 0 THEN 0 ELSE W[n - 1] + bytes[n] * Weight[n - 1]
    BY <1>7
  <2>2. 0 \in 0..N /\ \A n \in 1..N : n \in 0..N /\ n # 0
    BY <1>1
  <2> QED BY <2>1, <2>2
<1> DEFINE P == {n \in Nat : n <= N => W[n] = x % Weight[n]}
<1>10. 0 \in P
  <2>1. Weight[0] = 1
    BY WeightIs
  <2>2. x % 1 = 0
    OBVIOUS
  <2> QED BY <1>9, <2>1, <2>2
<1>11. ASSUME NEW n \in Nat, n \in P PROVE n + 1 \in P
  <2> SUFFICES ASSUME n + 1 <= N PROVE W[n + 1] = x % Weight[n + 1]
    OBVIOUS
  <2>1. n + 1 \in 1..N /\ (n + 1) - 1 = n /\ n \in 0..(WordBytes - 1)
    BY <1>1
  <2>2. W[n] = x % Weight[n]
    BY <1>1, <1>11
  <2>3. W[n + 1] = W[n] + bytes[n + 1] * Weight[n]
    BY <1>9, <2>1
  <2>4. bytes[n + 1] = Byte(x, n)
    BY <2>1 DEF N
  <2>5. x % Weight[n + 1] = (x % Weight[n]) + Byte(x, n) * Weight[n]
    BY <2>1, NextByte
  <2> QED BY <2>2, <2>3, <2>4, <2>5
<1> HIDE DEF P
<1>12. N \in P
  BY <1>1, <1>10, <1>11, EveryNumber
<1> QED BY <1>8, <1>12 DEF P, N

\* p is the index of byte k of value i, if values have w bytes.
IsByteOf(p, w, n, i, k) ==
  p \in 1..(n * w) /\ (p - 1) \div w + 1 = i /\ (p - 1) % w = k - 1

\* The bytes of the values follow each other.
LEMMA BytePlace ==
  ASSUME NEW w \in Nat \ {0}, NEW n \in Nat, NEW i \in 1..n, NEW k \in 1..w,
         NEW p, p = (i - 1) * w + k
  PROVE  IsByteOf(p, w, n, i, k)
<1>1. (i - 1) * w \in Nat /\ (i - 1) * w + w <= n * w
  <2>1. (i - 1) * w + w = i * w
    OBVIOUS
  <2>2. i * w <= n * w
    OBVIOUS
  <2> QED BY <2>1, <2>2
<1>2. i - 1 \in Nat /\ k - 1 \in 0..(w - 1)
  OBVIOUS
<1>3. ((i - 1) * w + (k - 1)) \div w = i - 1 /\ ((i - 1) * w + (k - 1)) % w = k - 1
  BY <1>2
<1>4. (i - 1) * w + k - 1 = (i - 1) * w + (k - 1)
  BY <1>1
<1>5. (i - 1) * w + k \in 1..(n * w)
  <2> DEFINE a == (i - 1) * w
             b == n * w
  <2>1. a \in Nat /\ b \in Nat /\ a + w <= b
    BY <1>1
  <2> HIDE DEF a, b
  <2>2. a + k \in 1..b
    BY <2>1
  <2> QED BY <2>2 DEF a, b
<1> QED BY <1>3, <1>4, <1>5 DEF IsByteOf

\* Bytes that are wide enough for all values are read as these values.
LEMMA BytesAreRead ==
  ASSUME NEW a \in Seq(Nat), Len(a) > 0, NEW w \in 1..WordBytes,
         \A i \in 1..Len(a) : a[i] < Weight[w]
  PROVE  MaskingRead(Len(a), BytesOf(a, w)) = a
<1> DEFINE n == Len(a)
           all == BytesOf(a, w)
           part(i) == SubSeq(all, (i - 1) * w + 1, i * w)
<1>1. /\ n \in Nat \ {0} /\ w \in Nat \ {0} /\ w <= WordBytes /\ WordBytes \in Nat
      /\ Weight[w] \in Nat \ {0} /\ n * w \in Nat
  BY SizesAssumption, LenProperties, WeightIs
<1>2. /\ all \in Seq(Nat) /\ Len(all) = n * w
      /\ \A k \in 1..(n * w) : all[k] = Byte(a[(k - 1) \div w + 1], (k - 1) % w)
  <2>1. all = [k \in 1..(n * w) |-> Byte(a[(k - 1) \div w + 1], (k - 1) % w)]
    BY DEF BytesOf
  <2>2. ASSUME NEW k \in 1..(n * w) PROVE Byte(a[(k - 1) \div w + 1], (k - 1) % w) \in Nat
    <3> DEFINE q == (k - 1) \div w
               r == (k - 1) % w
               m == n * w
    <3>1. q \in Nat /\ r \in 0..(w - 1) /\ k - 1 = q * w + r
      BY <1>1
    <3> HIDE DEF q, r
    <3>2. q < n
      <4> SUFFICES ASSUME q >= n PROVE FALSE
        BY <1>1, <3>1
      <4>1. q * w >= n * w
        BY <1>1, <3>1
      <4> DEFINE y == q * w
                 z == n * w
      <4>2. /\ y \in Nat /\ z \in Nat /\ r \in Nat /\ k \in Nat
            /\ y >= z /\ k - 1 = y + r /\ k - 1 < z
        BY <1>1, <3>1, <4>1
      <4> HIDE DEF y, z
      <4> QED BY <4>2
    <3>3. a[q + 1] \in Nat
      BY <1>1, <3>1, <3>2, ElementOfSeq
    <3>4. r \in 0..(WordBytes - 1)
      BY <1>1, <3>1
    <3>5. Byte(a[q + 1], r) \in Nat
      BY <3>3, <3>4, NextByte
    <3> QED BY <3>5 DEF q, r
  <2> HIDE DEF n, all
  <2> QED BY <1>1, <2>1, <2>2
<1>3. Len(all) \div n = w
  BY <1>1, <1>2
<1>4. ASSUME NEW i \in 1..n PROVE WordOf(part(i)) = a[i]
  <2> DEFINE b == (i - 1) * w
             p == part(i)
  <2>1. b \in Nat /\ i * w = b + w /\ b + w <= n * w
    <3>1. i * w <= n * w /\ i * w = (i - 1) * w + w
      BY <1>1
    <3> QED BY <1>1, <3>1
  <2>2. p \in Seq(Nat) /\ Len(p) = w /\ \A k \in 1..w : p[k] = all[b + k]
    <3> HIDE DEF all, b, n
    <3> SUFFICES /\ SubSeq(all, b + 1, b + w) \in Seq(Nat)
                 /\ Len(SubSeq(all, b + 1, b + w)) = w
                 /\ \A k \in 1..w : SubSeq(all, b + 1, b + w)[k] = all[b + k]
      BY <2>1 DEF b
    <3>1. b + 1 \in 1..(Len(all) + 1) /\ b + w \in b..Len(all)
      BY <1>1, <1>2, <2>1
    <3>2. \A k \in 1..w : (b + 1) + k - 1 = b + k
      BY <1>1, <2>1
    <3>3. (b + w) - (b + 1) + 1 = w
      BY <1>1, <2>1
    <3>4. \A k \in (b + 1)..(b + w) : all[k] \in Nat
      <4>1. \A k \in (b + 1)..(b + w) : k \in 1..Len(all)
        BY <1>1, <1>2, <2>1
      <4> QED BY <1>2, <4>1, ElementOfSeq
    <3> QED BY <1>1, <1>2, <2>1, <3>1, <3>2, <3>3, <3>4
  <2>3. ASSUME NEW k \in 1..Len(p) PROVE p[k] = Byte(a[i], k - 1)
    <3>1. k \in 1..w
      BY <2>2, <2>3
    <3>2. p[k] = all[b + k]
      BY <2>2, <3>1
    <3>3. /\ b + k \in 1..(n * w) /\ (b + k - 1) \div w + 1 = i /\ (b + k - 1) % w = k - 1
      <4>1. w \in Nat \ {0} /\ n \in Nat /\ i \in 1..n /\ k \in 1..w
        BY <1>1, <3>1
      <4>2. b + k = (i - 1) * w + k
        OBVIOUS
      <4> HIDE DEF n, b
      <4>3. IsByteOf(b + k, w, n, i, k)
        BY <4>1, <4>2, BytePlace
      <4> QED BY <1>1, <2>1, <3>1, <4>3 DEF IsByteOf
    <3>4. all[b + k] = Byte(a[(b + k - 1) \div w + 1], (b + k - 1) % w)
      BY <1>2, <3>3
    <3> QED BY <3>2, <3>3, <3>4
  <2>4. a[i] \in Nat
    BY ElementOfSeq
  <2>5. WordOf(p) = a[i] % Weight[Len(p)]
    <3> HIDE DEF p
    <3> QED BY <1>1, <2>2, <2>3, <2>4, WordIs
  <2>6. a[i] % Weight[w] = a[i]
    <3> DEFINE W == Weight[w]
               y == a[i]
    <3>1. W \in Nat \ {0} /\ y \in Nat /\ y < W
      BY <1>1, <2>4
    <3> HIDE DEF W, y
    <3>2. y % W = y
      BY <3>1
    <3> QED BY <3>2 DEF W, y
  <2> QED BY <2>2, <2>5, <2>6
<1>5. MaskingRead(n, all) = [i \in 1..n |-> WordOf(part(i))]
  BY <1>3 DEF MaskingRead
<1> HIDE DEF part, all
<1>6. MaskingRead(n, all) = a
  <2>1. a = [i \in 1..n |-> a[i]]
    BY LenProperties
  <2> QED BY <1>4, <1>5, <2>1
<1> QED BY <1>6 DEF n, all


-----------------------------------------------------------------------------
(* Arrays that are compressed and read again *)

Word == 0..(Weight[WordBytes] - 1)

\* The greatest of a set of numbers that has a bound.
LEMMA Greatest ==
  ASSUME NEW S \in SUBSET Nat, S # {}, NEW m \in Nat, \A k \in S : k <= m
  PROVE  Max(S) \in S /\ \A k \in S : Max(S) >= k
<1> DEFINE R == {n \in Nat : m - n \in S}
<1>1. R \in SUBSET Nat /\ R # {}
  <2>1. PICK k \in S : TRUE
    OBVIOUS
  <2>2. k \in Nat /\ k <= m /\ m - (m - k) = k
    BY <2>1
  <2>3. m - k \in R
    BY <2>2
  <2> QED BY <2>3
<1>2. Min(R) \in R /\ \A n \in R : Min(R) <= n
  <2> HIDE DEF R
  <2> QED BY <1>1, Least
<1> DEFINE g == m - Min(R)
<1>3. g \in S /\ \A k \in S : g >= k
  <2>1. g \in S
    BY <1>2
  <2>2. ASSUME NEW k \in S PROVE g >= k
    <3>1. k \in Nat /\ k <= m /\ m - (m - k) = k
      OBVIOUS
    <3>2. m - k \in R
      BY <3>1
    <3>3. Min(R) <= m - k /\ Min(R) \in Nat
      BY <1>2, <3>2
    <3> QED BY <3>1, <3>3
  <2> QED BY <2>1, <2>2
<1> HIDE DEF g
<1> QED BY <1>3 DEF Max

\* _htf_masking_encode keeps as many bytes as the widest value has.
LEMMA MaskIsWide ==
  ASSUME NEW a \in Seq(Word), Len(a) > 0
  PROVE  LET m == MaskSize(a)
             w == IF m = 0 THEN WordBytes ELSE m
         IN  w \in 1..WordBytes /\ \A i \in 1..Len(a) : a[i] < Weight[w]
<1> DEFINE S == {n \in 0..WordBytes : \A i \in 1..Len(a) : a[i] < Weight[n]}
           m == MaskSize(a)
<1>1. WordBytes \in Nat \ {0} /\ WordBytes \in 0..WordBytes /\ Weight[WordBytes] \in Nat \ {0}
  BY SizesAssumption, WeightIs
<1>2. \A i \in 1..Len(a) : a[i] < Weight[WordBytes]
  <2> SUFFICES ASSUME NEW i \in 1..Len(a) PROVE a[i] < Weight[WordBytes]
    OBVIOUS
  <2>1. a[i] \in Word
    BY ElementOfSeq
  <2> DEFINE W == Weight[WordBytes]
  <2>2. a[i] \in 0..(W - 1) /\ W \in Nat
    BY <1>1, <2>1 DEF Word
  <2> HIDE DEF W
  <2>3. a[i] < W
    BY <2>2
  <2> QED BY <2>3 DEF W
<1>3. WordBytes \in S /\ S \in SUBSET Nat
  BY <1>1, <1>2
<1>4. m \in S
  <2>1. m = Min(S)
    BY DEF MaskSize
  <2> HIDE DEF S, m
  <2> QED BY <1>3, <2>1, Least
<1>5. m \in 0..WordBytes /\ \A i \in 1..Len(a) : a[i] < Weight[m]
  BY <1>4
<1> HIDE DEF m
<1>6. CASE m = 0
  BY <1>1, <1>2, <1>6 DEF m
<1>7. CASE m # 0
  BY <1>5, <1>7 DEF m
<1> QED BY <1>6, <1>7

\* Without a lossy algorithm, an array is read as it was written.
LEMMA ReadAsWritten ==
  ASSUME NEW a \in Seq(Word), Len(a) > 0, NEW s \in Settings, ~IsLossy(s)
  PROVE  CompressRead(Len(a), CompressWrite(a, s), s) = a
<1>1. Word \subseteq Nat /\ a \in Seq(Nat)
  <2>1. Word \subseteq Nat
    BY DEF Word
  <2>2. \A i \in 1..Len(a) : a[i] \in Nat
    BY <2>1, ElementOfSeq
  <2>3. a = [i \in 1..Len(a) |-> a[i]] /\ Len(a) \in Nat
    BY LenProperties
  <2> QED BY <2>1, <2>2, <2>3
<1> DEFINE m == MaskSize(a)
           w == IF m = 0 THEN WordBytes ELSE m
           e == IF Encoding(s) = "Masking" THEN MaskingEncode(a) ELSE BytesOf(a, WordBytes)
<1>2. MaskingRead(Len(a), e) = a
  <2>1. CASE Encoding(s) = "Masking"
    <3>1. e = BytesOf(a, w)
      BY <2>1 DEF MaskingEncode
    <3>2. w \in 1..WordBytes /\ \A i \in 1..Len(a) : a[i] < Weight[w]
      BY MaskIsWide
    <3> HIDE DEF w, e
    <3> QED BY <1>1, <3>1, <3>2, BytesAreRead
  <2>2. CASE Encoding(s) # "Masking"
    <3>1. e = BytesOf(a, WordBytes)
      BY <2>2
    <3>2. WordBytes \in 1..WordBytes /\ Weight[WordBytes] \in Nat
      BY SizesAssumption, WeightIs
    <3>3. \A i \in 1..Len(a) : a[i] < Weight[WordBytes]
      <4> SUFFICES ASSUME NEW i \in 1..Len(a) PROVE a[i] < Weight[WordBytes]
        OBVIOUS
      <4> DEFINE W == Weight[WordBytes]
      <4>1. a[i] \in 0..(W - 1) /\ W \in Nat
        BY <3>2, ElementOfSeq DEF Word
      <4> HIDE DEF W
      <4>2. a[i] < W
        BY <4>1
      <4> QED BY <4>2 DEF W
    <3> HIDE DEF e
    <3> QED BY <1>1, <3>1, <3>2, <3>3, BytesAreRead
  <2> QED BY <2>1, <2>2
<1> HIDE DEF e
<1>3. s.compression \in {"None", "ZSTD"}
  BY DEF Settings, IsLossy
<1>4. CASE s.compression = "None"
  <2>1. CompressWrite(a, s) = e
    BY <1>4 DEF CompressWrite, e
  <2> QED BY <1>2, <1>4, <2>1 DEF CompressRead
<1>5. CASE s.compression = "ZSTD"
  <2>1. CompressWrite(a, s) = ZstdCompress(e)
    BY <1>5 DEF CompressWrite, e
  <2>2. ZstdRead(ZstdCompress(e)) = e
    BY DEF ZstdRead, ZstdCompress
  <2> QED BY <1>2, <1>5, <2>1, <2>2 DEF CompressRead
<1> QED BY <1>3, <1>4, <1>5

\* What a histogram makes of an array: no value is raised, none falls below the
\* least, and they stay in order.
Flattened(a, b) ==
  \A i \in 1..Len(a) :
    /\ b[i] \in Nat /\ b[i] <= a[i]
    /\ \E j \in 1..Len(a) : a[j] <= b[i]
    /\ \A j \in 1..Len(a) : a[i] <= a[j] => b[i] <= b[j]

\* The width of the steps that the reader takes is at most that of the writer's.
LEMMA StepsOfReader ==
  ASSUME NEW d \in Nat, NEW m \in Nat \ {0}
  PROVE  d \div (m + 1) \in Nat /\ d \div m \in Nat /\ d \div (m + 1) <= d \div m
<1> DEFINE p == d \div m
           q == d \div (m + 1)
<1>1. p \in Nat /\ d < (p + 1) * m
  <2>1. p \in Nat /\ d = p * m + (d % m) /\ d % m \in 0..(m - 1)
    OBVIOUS
  <2>2. (p + 1) * m = p * m + m
    BY <2>1
  <2> HIDE DEF p
  <2> QED BY <2>1, <2>2
<1>2. q \in Nat /\ q * (m + 1) <= d
  <2> DEFINE M == m + 1
  <2>1. M \in Nat \ {0}
    OBVIOUS
  <2> HIDE DEF M
  <2>2. d \div M \in Nat /\ d = (d \div M) * M + (d % M) /\ d % M \in 0..(M - 1)
    BY <2>1
  <2> DEFINE e == d \div M
  <2> HIDE DEF e
  <2>3. e \in Nat /\ e * M <= d
    BY <2>1, <2>2 DEF e
  <2> QED BY <2>3 DEF e, M
<1> HIDE DEF p, q
<1>3. q <= p
  <2> SUFFICES ASSUME q >= p + 1 PROVE FALSE
    BY <1>1, <1>2
  <2>1. q * (m + 1) >= (p + 1) * m
    BY <1>1, <1>2
  <2> QED BY <1>1, <1>2, <2>1
<1> QED BY <1>1, <1>2, <1>3 DEF p, q

\* A lossy compression whose steps are not empty flattens the array.
LEMMA HistogramIsRead ==
  ASSUME NEW a \in Seq(Word), Len(a) > 0, HistogramStep(a) # 0
  PROVE  Flattened(a, HistogramRead(Len(a), HistogramCompress(a)))
<1> DEFINE n == Len(a)
           low == Lowest(a)
           high == Highest(a)
           d == high - low
           step == HistogramStep(a)
           small == d \div ByteBase
           f(i) == Min({MaxBit, (a[i] - low) \div step})
           b == HistogramRead(n, HistogramCompress(a))
<1>1. n \in Nat \ {0} /\ \A i \in 1..n : a[i] \in Word
  BY ElementOfSeq, LenProperties
<1>2. Weight[WordBytes] - 1 \in Nat /\ ToSet(a) \in SUBSET Nat /\ ToSet(a) # {}
      /\ ToSet(a) = {a[i] : i \in 1..n} /\ \A x \in ToSet(a) : x <= Weight[WordBytes] - 1
  <2>1. Weight[WordBytes] - 1 \in Nat
    BY SizesAssumption, WeightIs
  <2> DEFINE M == Weight[WordBytes] - 1
  <2>2. \A i \in 1..n : a[i] \in 0..M
    BY <1>1 DEF Word
  <2>3. ToSet(a) = {a[i] : i \in 1..n}
    BY LenProperties DEF ToSet
  <2>4. 1 \in 1..n
    BY <1>1
  <2> HIDE DEF M, n
  <2>5. ToSet(a) \in SUBSET Nat /\ ToSet(a) # {} /\ \A x \in ToSet(a) : x <= M
    BY <2>2, <2>3, <2>4
  <2> QED BY <2>1, <2>3, <2>5 DEF M
<1>3. /\ low \in Nat /\ high \in Nat
      /\ \E j \in 1..n : a[j] = low
      /\ \A i \in 1..n : a[i] \in Nat /\ low <= a[i] /\ a[i] <= high
  <2> DEFINE S == ToSet(a)
             M == Weight[WordBytes] - 1
  <2>1. low = Min(S) /\ high = Max(S)
    BY DEF Lowest, Highest
  <2>2. S \in SUBSET Nat /\ S # {} /\ M \in Nat /\ \A x \in S : x <= M
    BY <1>2
  <2>3. S = {a[i] : i \in 1..n}
    BY <1>2
  <2> HIDE DEF S, M
  <2>4. Min(S) \in S /\ \A k \in S : Min(S) <= k
    BY <2>2, Least
  <2>5. Max(S) \in S /\ \A k \in S : Max(S) >= k
    BY <2>2, Greatest
  <2> HIDE DEF low, high, n
  <2> QED BY <2>1, <2>2, <2>3, <2>4, <2>5
<1>4. d \in Nat /\ MaxBit \in Nat \ {0} /\ ByteBase = MaxBit + 1
  <2>1. MaxBit \in Nat \ {0} /\ ByteBase = MaxBit + 1
    BY SizesAssumption DEF MaxBit
  <2>2. \E j \in 1..n : low <= a[j] /\ a[j] <= high /\ a[j] \in Nat
    BY <1>3
  <2> HIDE DEF low, high
  <2> QED BY <1>3, <2>1, <2>2
<1>5. step = d \div MaxBit
  BY DEF HistogramStep
<1>6. step \in Nat \ {0} /\ small \in Nat /\ small <= step
  <2> HIDE DEF d
  <2>1. d \div MaxBit \in Nat /\ d \div (MaxBit + 1) \in Nat
        /\ d \div (MaxBit + 1) <= d \div MaxBit
    BY <1>4, StepsOfReader
  <2>2. step # 0
    OBVIOUS
  <2> HIDE DEF step
  <2> QED BY <1>4, <1>5, <2>1, <2>2
<1>7. \A i \in 1..n : b[i] = low + f(i) * small
  <2> DEFINE h == HistogramCompress(a)
  <2>1. /\ h.min = low /\ h.max = high
        /\ \A i \in 1..n : h.factors[i] = f(i)
    BY DEF HistogramCompress
  <2>2. b = [i \in 1..n |-> h.min + h.factors[i] * ((h.max - h.min) \div ByteBase)]
    BY DEF HistogramRead
  <2> HIDE DEF h, b, f, low, high, n
  <2> QED BY <2>1, <2>2
<1> DEFINE c(i) == (a[i] - low) \div step
<1>8. ASSUME NEW i \in 1..n
      PROVE  /\ c(i) \in Nat /\ c(i) * step <= a[i] - low
             /\ f(i) \in {MaxBit, c(i)} /\ f(i) <= MaxBit /\ f(i) <= c(i)
  <2> DEFINE x == a[i] - low
  <2>1. x \in Nat
    <3> HIDE DEF low
    <3> QED BY <1>3
  <2>2. c(i) = x \div step
    OBVIOUS
  <2> HIDE DEF x, step
  <2>3. x \div step \in Nat /\ x = (x \div step) * step + (x % step) /\ x % step \in 0..(step - 1)
    BY <1>6, <2>1
  <2> DEFINE y == x \div step
  <2>4. y \in Nat /\ y * step <= x
    <3>1. y \in Nat /\ x % step \in Nat /\ x = y * step + (x % step) /\ y * step \in Nat
      <4>1. y \in Nat /\ x % step \in Nat /\ x = y * step + (x % step)
        BY <1>6, <2>3
      <4> HIDE DEF y
      <4> QED BY <1>6, <4>1
    <3> HIDE DEF y
    <3> QED BY <2>1, <3>1
  <2>5. f(i) = Min({MaxBit, y})
    BY <2>2 DEF x
  <2> HIDE DEF y, f, c
  <2>6. {MaxBit, y} \in SUBSET Nat /\ {MaxBit, y} # {}
    BY <1>4, <2>4
  <2>7. Min({MaxBit, y}) \in {MaxBit, y} /\ \A k \in {MaxBit, y} : Min({MaxBit, y}) <= k
    BY <2>6, Least
  <2> QED BY <2>2, <2>4, <2>5, <2>7 DEF x, y
<1> HIDE DEF c, f, step, small, low, high, b, d
<1>9. \A i \in 1..n : f(i) \in Nat
  BY <1>4, <1>8
<1>10. ASSUME NEW i \in 1..n
       PROVE  b[i] \in Nat /\ b[i] <= a[i] /\ low <= b[i]
  <2>1. f(i) \in Nat /\ c(i) \in Nat /\ a[i] \in Nat
    BY <1>3, <1>8, <1>9
  <2>2. f(i) * small <= c(i) * step
    <3>1. f(i) * small <= f(i) * step
      BY <1>6, <2>1
    <3>2. f(i) * step <= c(i) * step
      <4>1. f(i) <= c(i)
        BY <1>8
      <4>2. step \in Nat
        BY <1>6
      <4> DEFINE u == f(i)
                 v == c(i)
      <4>3. u \in Nat /\ v \in Nat /\ u <= v
        BY <2>1, <4>1
      <4> HIDE DEF u, v
      <4>4. u * step <= v * step
        BY <4>2, <4>3
      <4> QED BY <4>4 DEF u, v
    <3> QED BY <1>6, <2>1, <3>1, <3>2
  <2>3. f(i) * small \in Nat /\ c(i) * step \in Nat
    BY <1>6, <2>1
  <2>4. f(i) * small <= a[i] - low
    BY <1>3, <1>8, <2>1, <2>2, <2>3
  <2>5. b[i] = low + f(i) * small
    BY <1>7
  <2> QED BY <1>3, <2>1, <2>3, <2>4, <2>5
<1>11. ASSUME NEW i \in 1..n, NEW j \in 1..n, a[i] <= a[j]
       PROVE  b[i] <= b[j]
  <2>1. c(i) <= c(j)
    <3> DEFINE x == a[i] - low
               y == a[j] - low
    <3>1. x \in Nat /\ y \in Nat /\ x <= y
      BY <1>3, <1>11
    <3>2. c(i) = x \div step /\ c(j) = y \div step
      BY DEF c
    <3> HIDE DEF x, y
    <3>3. x \div step <= y \div step
      <4> DEFINE p == x \div step
                 q == y \div step
      <4>1. p \in Nat /\ q \in Nat /\ p * step <= x /\ y < (q + 1) * step
        <5>1. /\ x = p * step + (x % step) /\ x % step \in 0..(step - 1)
              /\ y = q * step + (y % step) /\ y % step \in 0..(step - 1)
              /\ p \in Nat /\ q \in Nat
          BY <1>6, <3>1
        <5>2. (q + 1) * step = q * step + step
          BY <1>6, <5>1
        <5> HIDE DEF p, q
        <5>3. p * step <= x
          BY <1>6, <3>1, <5>1
        <5>4. y < q * step + step
          BY <1>6, <3>1, <5>1
        <5> QED BY <5>1, <5>2, <5>3, <5>4
      <4> HIDE DEF p, q
      <4>2. p <= q
        <5> SUFFICES ASSUME p >= q + 1 PROVE FALSE
          BY <4>1
        <5>1. p * step >= (q + 1) * step
          BY <1>6, <4>1
        <5> QED BY <1>6, <3>1, <4>1, <5>1
      <4> QED BY <4>2 DEF p, q
    <3> QED BY <3>2, <3>3
  <2>2. f(i) <= f(j) /\ f(i) \in Nat /\ f(j) \in Nat
    BY <1>4, <1>8, <1>9, <2>1
  <2>3. f(i) * small <= f(j) * small /\ f(i) * small \in Nat /\ f(j) * small \in Nat
    BY <1>6, <2>2
  <2>4. b[i] = low + f(i) * small /\ b[j] = low + f(j) * small
    BY <1>7
  <2> QED BY <1>3, <2>3, <2>4
<1>12. PICK j \in 1..n : a[j] = low
  BY <1>3
<1>13. \A i \in 1..n : a[j] <= b[i]
  BY <1>10, <1>12
<1>14. Flattened(a, b)
  BY <1>10, <1>11, <1>13 DEF Flattened
<1> QED BY <1>14 DEF b


-----------------------------------------------------------------------------
(* The LinkedVector of the durations *)

\* Each SubVector starts where the one before it ends.
Contiguous(v) ==
  /\ v[1].starting_index = 0
  /\ \A k \in 1..(Len(v) - 1) :
       v[k + 1].starting_index = v[k].starting_index + Len(v[k].items)

\* LinkedVector::add leaves no gap.
LEMMA AddLeavesNoGap ==
  ASSUME NEW v \in Vector, v # <<>>, NEW x \in Duration, Contiguous(v)
  PROVE  Contiguous(Add(v, x))
<1> DEFINE S == [starting_index : Nat, items : Seq(Duration)]
           n == Len(v)
           one == [starting_index |-> VectorSize(v), items |-> <<x>>]
           more == [v[n] EXCEPT !.items = Append(@, x)]
<1>1. v \in Seq(S) /\ n \in Nat \ {0} /\ Last(v) = v[n] /\ \A k \in 1..n : v[k] \in S
  <2>1. v \in Seq(S)
    BY DEF Vector
  <2>2. n \in Nat \ {0}
    BY <2>1, EmptySeq
  <2> QED BY <2>1, <2>2, ElementOfSeq DEF Last
<1>2. /\ v[1].starting_index = 0
      /\ \A k \in 1..(n - 1) : v[k + 1].starting_index = v[k].starting_index + Len(v[k].items)
  BY DEF Contiguous
<1>3. VectorSize(v) = v[n].starting_index + Len(v[n].items)
  BY <1>1 DEF VectorSize
<1>4. one.starting_index = v[n].starting_index + Len(v[n].items)
  BY <1>3
<1>5. n \in 1..n /\ v[n] \in S
  BY <1>1
<1>6. more \in S /\ more.starting_index = v[n].starting_index
  <2>1. v[n].items \in Seq(Duration)
    BY <1>5
  <2>2. Append(v[n].items, x) \in Seq(Duration)
    BY <2>1, AppendProperties
  <2> QED BY <1>5, <2>2
<1>7. one \in S
  <2>1. v[n].starting_index \in Nat /\ Len(v[n].items) \in Nat
    BY <1>5, LenProperties
  <2> QED BY <1>3, <2>1
<1>8. Add(v, x) = Append(v, one) \/ Add(v, x) = [v EXCEPT ![n] = more]
  <2>1. [v EXCEPT ![n].items = Append(@, x)] = [v EXCEPT ![n] = more]
    BY <1>1
  <2> QED BY <2>1 DEF Add
<1> HIDE DEF one, more, S, n
<1>9. CASE Add(v, x) = Append(v, one)
  <2> DEFINE u == Append(v, one)
  <2>1. Len(u) = n + 1 /\ u[n + 1] = one /\ \A k \in 1..n : u[k] = v[k]
    BY <1>1, <1>7, AppendProperties DEF n
  <2> HIDE DEF u
  <2>2. u[1].starting_index = 0
    BY <1>1, <1>2, <2>1
  <2>3. ASSUME NEW k \in 1..(Len(u) - 1)
        PROVE  u[k + 1].starting_index = u[k].starting_index + Len(u[k].items)
    <3>1. k \in 1..n /\ u[k] = v[k]
      BY <1>1, <2>1
    <3>2. CASE k = n
      BY <1>4, <2>1, <3>1, <3>2
    <3>3. CASE k # n
      <4>1. k \in 1..(n - 1) /\ k + 1 \in 1..n
        BY <1>1, <3>1, <3>3
      <4> QED BY <1>2, <2>1, <3>1, <4>1
    <3> QED BY <3>2, <3>3
  <2> QED BY <1>9, <2>2, <2>3 DEF Contiguous, u
<1>10. CASE Add(v, x) = [v EXCEPT ![n] = more]
  <2> DEFINE u == [v EXCEPT ![n] = more]
  <2>1. Len(u) = n /\ \A k \in 1..n : u[k] = IF k = n THEN more ELSE v[k]
    BY <1>1, <1>6, ExceptSeq DEF n
  <2> HIDE DEF u
  <2>2. \A k \in 1..n : u[k].starting_index = v[k].starting_index
    BY <1>6, <2>1
  <2>3. \A k \in 1..(n - 1) : k \in 1..n /\ k + 1 \in 1..n /\ u[k] = v[k]
    BY <1>1, <2>1
  <2>4. u[1].starting_index = 0
    BY <1>1, <1>2, <2>2
  <2>5. \A k \in 1..(n - 1) : u[k + 1].starting_index = u[k].starting_index + Len(u[k].items)
    BY <1>2, <2>2, <2>3
  <2> QED BY <1>10, <2>1, <2>4, <2>5 DEF Contiguous, u
<1> QED BY <1>8, <1>9, <1>10

\* LinkedVector::at finds a duration at every position, the one that is written there.
LEMMA AtIs ==
  ASSUME NEW v \in Vector, v # <<>>, Contiguous(v), NEW i \in 0..(VectorSize(v) - 1)
  PROVE  At(v, i) \in Duration /\ ToArray(v)[i + 1] = At(v, i)
<1> DEFINE n == Len(v)
           S == {k \in 1..n : v[k].starting_index <= i}
           g == Max(S)
<1>1. /\ n \in Nat \ {0} /\ VectorSize(v) \in Nat
      /\ VectorSize(v) = v[n].starting_index + Len(v[n].items)
      /\ \A k \in 1..n : v[k].starting_index \in Nat /\ v[k].items \in Seq(Duration)
  <2>1. n \in Nat \ {0}
    BY EmptySeq DEF Vector
  <2>2. \A k \in 1..n : v[k] \in [starting_index : Nat, items : Seq(Duration)]
    BY ElementOfSeq DEF Vector
  <2>3. VectorSize(v) = v[n].starting_index + Len(v[n].items)
    BY DEF VectorSize, Last
  <2>4. v[n].starting_index \in Nat /\ Len(v[n].items) \in Nat
    BY <2>1, <2>2, LenProperties
  <2> QED BY <2>1, <2>2, <2>3, <2>4
<1>2. i \in Nat /\ i < VectorSize(v)
  BY <1>1
<1>3. S \in SUBSET Nat /\ 1 \in S /\ \A k \in S : k <= n
  BY <1>1, <1>2 DEF Contiguous
<1>4. g \in S /\ \A k \in S : g >= k
  <2> HIDE DEF S, n
  <2> QED BY <1>1, <1>3, Greatest
<1>5. g \in 1..n /\ v[g].starting_index <= i
  BY <1>4
<1>6. i < v[g].starting_index + Len(v[g].items)
  <2>1. CASE g = n
    BY <1>1, <1>2, <2>1
  <2>2. CASE g # n
    <3> HIDE DEF g
    <3>1. g \in 1..(n - 1) /\ g + 1 \in 1..n /\ ~(g >= g + 1)
      BY <1>1, <1>5, <2>2
    <3>2. g + 1 \notin S
      BY <1>4, <3>1
    <3>3. ~(v[g + 1].starting_index <= i) /\ v[g + 1].starting_index \in Nat
      BY <1>1, <3>1, <3>2
    <3>4. v[g + 1].starting_index = v[g].starting_index + Len(v[g].items)
      BY <3>1 DEF Contiguous
    <3> QED BY <1>2, <3>3, <3>4
  <2> QED BY <2>1, <2>2
<1> DEFINE p == i - v[g].starting_index + 1
<1>7. p \in 1..Len(v[g].items) /\ v[g].items[p] \in Duration
  <2>1. v[g].starting_index \in Nat /\ v[g].items \in Seq(Duration) /\ Len(v[g].items) \in Nat
    BY <1>1, <1>5, LenProperties
  <2>2. p \in 1..Len(v[g].items)
    <3> HIDE DEF g
    <3> QED BY <1>2, <1>5, <1>6, <2>1
  <2> HIDE DEF p, g
  <2> QED BY <2>1, <2>2, ElementOfSeq
<1>8. At(v, i) = v[g].items[p]
  BY DEF At
<1>9. ToArray(v)[i + 1] = v[g].items[p]
  <2> DEFINE T == {k \in 1..n : v[k].starting_index < i + 1}
  <2>1. T = S
    BY <1>1, <1>2
  <2>2. i + 1 \in 1..VectorSize(v)
    BY <1>1, <1>2
  <2>3. ToArray(v)[i + 1] = v[Max(T)].items[(i + 1) - v[Max(T)].starting_index]
    BY <2>2 DEF ToArray
  <2>4. (i + 1) - v[g].starting_index = p
    <3>1. v[g].starting_index \in Nat
      BY <1>1, <1>5
    <3> HIDE DEF g
    <3> QED BY <1>2, <3>1
  <2> HIDE DEF T, S, p
  <2> QED BY <2>1, <2>3, <2>4
<1> QED BY <1>7, <1>8, <1>9

\* What is written is an array of durations.
LEMMA ArrayIs ==
  ASSUME NEW v \in Vector, v # <<>>, Contiguous(v)
  PROVE  /\ VectorSize(v) \in Nat
         /\ ToArray(v) \in Seq(Word) /\ Len(ToArray(v)) = VectorSize(v)
<1> DEFINE n == VectorSize(v)
           a == ToArray(v)
<1>1. n \in Nat
  <2>1. Last(v) \in [starting_index : Nat, items : Seq(Duration)]
    <3>1. Len(v) \in 1..Len(v)
      BY EmptySeq, LenProperties DEF Vector
    <3> QED BY <3>1, ElementOfSeq DEF Last, Vector
  <2>2. Last(v).starting_index \in Nat /\ Len(Last(v).items) \in Nat
    BY <2>1, LenProperties
  <2> QED BY <2>2 DEF VectorSize
<1>2. ASSUME NEW k \in 1..n PROVE a[k] \in Word
  <2> DEFINE i == k - 1
  <2>1. i \in 0..(n - 1) /\ i + 1 = k
    BY <1>1
  <2> HIDE DEF i, n
  <2>2. a[i + 1] \in Duration
    BY <2>1, AtIs DEF n
  <2> QED BY <2>1, <2>2, DurationAssumption DEF Word
<1>3. DOMAIN a = 1..n /\ a = [k \in 1..n |-> a[k]]
  BY DEF ToArray
<1> HIDE DEF n, a
<1>4. a \in Seq(Word) /\ Len(a) = n
  BY <1>1, <1>2, <1>3
<1> QED BY <1>1, <1>4 DEF n, a

\* A vector that is read from an array has its elements.
LEMMA AtOfArray ==
  ASSUME NEW a, NEW i \in Nat
  PROVE  At(FromArray(a), i) = a[i + 1]
<1> DEFINE v == FromArray(a)
           S == {k \in 1..Len(v) : v[k].starting_index <= i}
<1>1. Len(v) = 1 /\ v[1].starting_index = 0 /\ v[1].items = a
  BY DEF FromArray
<1> HIDE DEF v
<1>2. S \in SUBSET Nat /\ S # {} /\ \A k \in S : k = 1
  BY <1>1
<1>3. Max(S) = 1
  <2> HIDE DEF S
  <2>1. \A k \in S : k <= 1
    BY <1>2
  <2>2. Max(S) \in S
    BY <1>2, <2>1, Greatest
  <2> QED BY <1>2, <2>2
<1>4. At(v, i) = v[Max(S)].items[i - v[Max(S)].starting_index + 1]
  BY DEF At
<1> HIDE DEF S
<1>5. i - 0 + 1 = i + 1
  OBVIOUS
<1> QED BY <1>1, <1>3, <1>4, <1>5 DEF v


-----------------------------------------------------------------------------
(* The durations are read as they were written *)

\* What is read was stored, by a program that did not divide by zero.
FileInv ==
  phase = "opening" \/ threads # <<>> =>
    /\ file = EventFile(summary, settings)
    /\ Recorded > 0
    /\ ~StoreCrashes(summary, settings)

DurationsInv ==
  /\ settings \in Settings
  /\ Contiguous(summary.durations)
  /\ FileInv

\* Nothing was recorded or stored at first.
LEMMA DurationsInitially == Init => DurationsInv
<1> SUFFICES ASSUME Init PROVE DurationsInv
  OBVIOUS
<1>1. phase = "recording" /\ threads = <<>> /\ settings \in Settings /\ summary = EmptySummary
  BY DEF Init
<1>2. FileInv
  BY <1>1 DEF FileInv
<1>3. Contiguous(EmptyVector)
  <2>1. Len(EmptyVector) = 1 /\ EmptyVector[1].starting_index = 0
    BY DEF EmptyVector
  <2>2. 1..(1 - 1) = {}
    OBVIOUS
  <2> HIDE DEF EmptyVector
  <2>3. 1..(Len(EmptyVector) - 1) = {}
    BY <2>1, <2>2
  <2> QED BY <2>1, <2>3 DEF Contiguous
<1> QED BY <1>1, <1>2, <1>3 DEF DurationsInv, EmptySummary

\* A step of the reader changes nothing of what was stored.
LEMMA StoredStays ==
  ASSUME DurationsInv, UNCHANGED disk,
         phase' = "opening" \/ threads' # <<>> => phase = "opening" \/ threads # <<>>
  PROVE  DurationsInv'
BY DEF DurationsInv, FileInv, Recorded, disk

\* The program that is traced may go on until it stores the threads.
LEMMA DurationsAreKept ==
  ASSUME IInv, DurationsInv, [Next]_vars
  PROVE  DurationsInv'
<1>1. CASE UNCHANGED vars
  <2>1. UNCHANGED disk /\ phase' = phase /\ threads' = threads
    BY <1>1 DEF vars, reader
  <2> QED BY <2>1, StoredStays
<1>2. CASE OpenStep
  <2>1. phase = "opening" /\ UNCHANGED disk
    BY <1>2 DEF OpenStep, TakeLocation, TakeLocationFails, ThreadGetsArchive, ReadTables,
                ArchiveIsRead, TakeGroup, TakeGroupFails, ArchiveIsOpened, Running, Fail
  <2> QED BY <2>1, StoredStays
<1>3. CASE ReadOccurence
  <2>1. UNCHANGED disk /\ threads' = threads /\ threads # <<>>
    BY <1>3 DEF ReadOccurence, reader
  <2> QED BY <2>1, StoredStays
<1>4. CASE StoreThreads
  <2>1. phase = "recording" /\ threads' = threads /\ summary' = summary /\ settings' = settings
        /\ Occurences(summary) > 0
    BY <1>4 DEF StoreThreads
  <2>2. threads' = <<>>
    BY <2>1 DEF IInv, PhaseInv
  <2>3. FileInv'
    <3>1. CASE StoreAborts(summary, settings) \/ StoreCrashes(summary, settings)
      <4>1. phase' = "store failed"
        BY <1>4, <3>1 DEF StoreThreads
      <4> QED BY <2>2, <4>1 DEF FileInv
    <3>2. CASE ~(StoreAborts(summary, settings) \/ StoreCrashes(summary, settings))
      <4>1. file' = EventFile(summary, settings)
        BY <1>4, <3>2 DEF StoreThreads
      <4> QED BY <2>1, <3>2, <4>1 DEF FileInv, Recorded, Occurences
    <3> QED BY <3>1, <3>2
  <2> QED BY <2>1, <2>3 DEF DurationsInv
<1>5. ASSUME NEW d \in Duration, NEW attributed \in BOOLEAN, RecordOccurence(d, attributed)
      PROVE  DurationsInv'
  <2>1. /\ phase = "recording" /\ phase' = phase /\ threads' = threads /\ settings' = settings
        /\ summary'.durations = Add(summary.durations, d)
    BY <1>5 DEF RecordOccurence, reader, StoreOccurence
  <2>2. threads' = <<>>
    BY <2>1 DEF IInv, PhaseInv
  <2>3. summary.durations \in Vector /\ summary.durations # <<>>
    BY DEF IInv, SummaryInv, Vector
  <2>4. Contiguous(Add(summary.durations, d))
    BY <2>3, AddLeavesNoGap DEF DurationsInv
  <2>5. FileInv'
    BY <2>1, <2>2 DEF FileInv
  <2> QED BY <2>1, <2>4, <2>5 DEF DurationsInv
<1> QED BY <1>1, <1>2, <1>3, <1>4, <1>5 DEF Next

\* The array b is what the settings s make of a.
Survives(a, b, s) == (~IsLossy(s) => b = a) /\ Flattened(a, b)

\* What the reader gets of an array that was stored.
LEMMA WhatIsRead ==
  ASSUME NEW a \in Seq(Word), Len(a) > 0, NEW s \in Settings, ~DividesByZero(a, s)
  PROVE  Survives(a, CompressRead(Len(a), CompressWrite(a, s), s), s)
<1> DEFINE b == CompressRead(Len(a), CompressWrite(a, s), s)
<1>1. CASE ~IsLossy(s)
  <2>1. b = a
    BY <1>1, ReadAsWritten
  <2>2. \A i \in 1..Len(a) : a[i] \in Nat
    <3>1. \A i \in 1..Len(a) : a[i] \in Word
      BY ElementOfSeq
    <3>2. Word \subseteq Nat
      BY DEF Word
    <3> QED BY <3>1, <3>2
  <2>3. Flattened(a, a)
    BY <2>2 DEF Flattened
  <2> QED BY <1>1, <2>1, <2>3 DEF Survives
<1>2. CASE IsLossy(s)
  <2>1. s.compression = "Histogram"
    BY <1>2 DEF IsLossy
  <2>2. b = HistogramRead(Len(a), HistogramCompress(a))
    BY <2>1 DEF CompressRead, CompressWrite
  <2>3. HistogramStep(a) # 0
    BY <2>1 DEF DividesByZero
  <2> QED BY <1>2, <2>2, <2>3, HistogramIsRead DEF Survives
<1> QED BY <1>1, <1>2

\* The durations that a thread has after it was read are those recorded, under any
\* settings, for every array of 64-bit durations: _htf_masking_encode drops no byte
\* that is needed and _htf_masking_read puts each back, LinkedVector::writeToFile
\* leaves none out, and the histogram keeps them in their range and in order.
THEOREM DurationsSurvive == Spec => []DurationsAreRead
<1>1. IInv /\ DurationsInv => DurationsAreRead
  <2> SUFFICES ASSUME IInv, DurationsInv, NEW t \in 1..Len(threads), threads[t].events # <<>>
               PROVE
    LET read(i) == At(threads[t].events[1].durations, i)
        written(i) == At(summary.durations, i)
        positions == 0..(Occurences(summary) - 1)
    IN /\ Occurences(threads[t].events[1]) = Occurences(summary)
       /\ ~IsLossy(settings) => \A i \in positions : read(i) = written(i)
       /\ \A i \in positions :
            /\ read(i) <= written(i)
            /\ \E j \in positions : written(j) <= read(i)
            /\ \A j \in positions : written(i) <= written(j) => read(i) <= read(j)
    BY DEF DurationsAreRead
  <2> DEFINE v == summary.durations
             a == ToArray(v)
             n == Len(a)
             e == threads[t].events[1]
             b == CompressRead(n, CompressWrite(a, settings), settings)
             read(i) == At(e.durations, i)
             written(i) == At(v, i)
             positions == 0..(Occurences(summary) - 1)
  <2>1. threads # <<>> /\ threads[t].events = <<ReadSummary(file, settings)>>
    <3>1. threads \in Seq(LoadedThread)
      BY DEF IInv, TypeInv
    <3>2. threads[t] \in LoadedThread
      BY <3>1, ElementOfSeq
    <3>3. threads # <<>>
      BY NoPositions
    <3> QED BY <3>2, <3>3 DEF LoadedThread, Tables
  <2>2. file = EventFile(summary, settings) /\ ~StoreCrashes(summary, settings)
        /\ VectorSize(v) > 0 /\ Contiguous(v) /\ settings \in Settings
    BY <2>1 DEF DurationsInv, FileInv, Recorded
  <2>3. v \in Vector /\ v # <<>>
    BY DEF IInv, SummaryInv, Vector
  <2>4. n \in Nat \ {0} /\ n = VectorSize(v) /\ a \in Seq(Word)
    BY <2>2, <2>3, ArrayIs
  <2>5. e.durations = FromArray(b)
    <3>1. e = ReadSummary(EventFile(summary, settings), settings)
      BY <2>1, <2>2
    <3>2. EventFile(summary, settings).nb_occurences = n
          /\ EventFile(summary, settings).durations = CompressWrite(a, settings)
      BY <2>4 DEF EventFile, Occurences
    <3> QED BY <3>1, <3>2 DEF ReadSummary
  <2>6. (~IsLossy(settings) => b = a) /\ Flattened(a, b) /\ Len(b) = n
    <3>1. ~DividesByZero(a, settings)
      BY <2>2 DEF StoreCrashes
    <3> HIDE DEF a
    <3>2. (~IsLossy(settings) => b = a) /\ Flattened(a, b)
      BY <2>2, <2>4, <3>1, WhatIsRead DEF Survives
    <3>3. Len(b) = n
      BY <2>4 DEF CompressRead, MaskingRead, HistogramRead
    <3> QED BY <3>2, <3>3
  <2>7. Occurences(e) = n /\ Occurences(summary) = n
    <3> HIDE DEF b, e, n
    <3>1. Last(FromArray(b)) = [starting_index |-> 0, items |-> b]
      BY DEF Last, FromArray
    <3>2. VectorSize(FromArray(b)) = n
      BY <2>4, <2>6, <3>1 DEF VectorSize
    <3> QED BY <2>4, <2>5, <3>2 DEF Occurences
  <2>8. ASSUME NEW i \in positions
        PROVE  i + 1 \in 1..n /\ read(i) = b[i + 1] /\ written(i) = a[i + 1]
    <3> HIDE DEF a, b, e, n
    <3>1. i \in Nat /\ i \in 0..(VectorSize(v) - 1) /\ i + 1 \in 1..n
      BY <2>4, <2>7
    <3>2. read(i) = b[i + 1]
      BY <2>5, <3>1, AtOfArray
    <3>3. written(i) = a[i + 1]
      BY <2>2, <2>3, <3>1, AtIs DEF a
    <3> QED BY <3>1, <3>2, <3>3
  <2> HIDE DEF read, written, a, b, e, n, v
  <2>9. ~IsLossy(settings) => \A i \in positions : read(i) = written(i)
    BY <2>6, <2>8
  <2>10. ASSUME NEW i \in positions
         PROVE  /\ read(i) <= written(i)
                /\ \E j \in positions : written(j) <= read(i)
                /\ \A j \in positions : written(i) <= written(j) => read(i) <= read(j)
    <3>1. /\ b[i + 1] <= a[i + 1]
          /\ \E j \in 1..n : a[j] <= b[i + 1]
          /\ \A j \in 1..n : a[i + 1] <= a[j] => b[i + 1] <= b[j]
      BY <2>6, <2>8 DEF Flattened, n
    <3>2. PICK j \in 1..n : a[j] <= b[i + 1]
      BY <3>1
    <3>3. j - 1 \in positions /\ (j - 1) + 1 = j
      BY <2>4, <2>7
    <3>4. written(j - 1) <= read(i)
      BY <2>8, <3>2, <3>3
    <3> QED BY <2>8, <3>1, <3>3, <3>4
  <2> QED BY <2>7, <2>9, <2>10 DEF read, written, v, e
<1>2. IInv /\ DurationsInv /\ [Next]_vars => DurationsInv'
  BY DurationsAreKept
<1> QED BY <1>1, <1>2, DurationsInitially, Invariant, PTL DEF Spec
=============================================================================
