------------------------- MODULE MergedTraceProofs -------------------------
(***************************************************************************)
(* Proofs about MergedTrace, for any number of threads, writers and events *)
(* and any width of a timestamp that the clock does not reach: times that  *)
(* nothing disturbs come out of the trace as they went in.                 *)
(*                                                                         *)
(* The invariant says what each stored number is: a completed duration is  *)
(* the distance of two times, the last one of an open writer is the time   *)
(* since the first timestamp, modulo 2^64, and its thread has it pending.  *)
(***************************************************************************)
EXTENDS MergedTrace, FiniteSetTheorems, SequenceTheorems, TLAPS

Busy(o) == pc[o] # "idle"

Timestamp == 0..(TimestampLimit - 1)

\* What is pending is an event that was stored: storeTimestamp assigns to it.
PendingIsStored ==
  \A o \in Thread : pending[o] # NoAddress =>
    /\ pending[o].writer \in Writer
    /\ pending[o].index \in 1..Len(durations[pending[o].writer])

TypeInv ==
  /\ given \in BOOLEAN /\ mixed \in BOOLEAN
  /\ now \in 1..MaxTime /\ firstTimestamp \in 0..MaxTime
  /\ pc \in [Thread -> {"idle", "test", "set", "subtract"}]
  /\ writer \in [Thread -> 0..NbWriters]
  /\ \A o \in Thread : Busy(o) => writer[o] \in Writer
  /\ start \in [Thread -> 0..MaxTime]
  /\ base \in [Thread -> 0..MaxTime]
  /\ pending \in [Thread -> [writer : 0..NbWriters, index : Nat]]
  /\ durations \in [Writer -> Seq(Timestamp)]
  /\ closed \subseteq Writer
  /\ position \in [Writer -> Nat \ {0}]
  /\ referential_timestamp \in [Writer -> Timestamp]
  /\ printed \in Seq([writer : Writer, index : Nat \ {0}, timestamp : Timestamp])
  /\ taken \in [Writer -> Seq(1..MaxTime)]
  /\ driver \in [Writer -> Thread \cup {None}]
  /\ IsFiniteSet(setters)
  /\ PendingIsStored

\* A thread in htf_get_timestamp is about to store the last time of its writer.
CallsInv ==
  /\ \A o \in Thread : Busy(o) =>
       LET w == writer[o]
       IN  /\ phase = "recording" /\ ~given
           /\ w \in Writer \ closed
           /\ driver[w] = o
           /\ Len(taken[w]) = Len(durations[w]) + 1
           /\ start[o] = taken[w][Len(taken[w])]
  /\ \A w \in Writer :
       \/ Len(taken[w]) = Len(durations[w])
       \/ \E o \in Thread : Busy(o) /\ writer[o] = w

\* The first timestamp is set once, before any time is stored.
FirstInv ==
  /\ given => firstTimestamp = 0
  /\ setters = {} <=> firstTimestamp = 0
  /\ ~given /\ firstTimestamp = 0 => \A w \in Writer : durations[w] = <<>>
  /\ \A o \in Thread :
       /\ pc[o] = "set" => o \notin setters
       /\ pc[o] = "subtract" => base[o] = firstTimestamp /\ firstTimestamp # 0

\* Each writer has one thread, and each thread one open writer.
DriversInv ==
  /\ \A w \in Writer : driver[w] = None <=> taken[w] = <<>>
  /\ \A v, w \in Writer \ closed : driver[v] = driver[w] /\ driver[v] # None => v = w

\* Times of a writer grow.
TakenInv ==
  \A w \in Writer :
    /\ \A k \in 1..Len(taken[w]) : taken[w][k] <= now
    /\ \A j, k \in 1..Len(taken[w]) : j <= k => taken[w][j] <= taken[w][k]

\* What each duration is.
DurationsInv ==
  /\ \A w \in Writer : \A k \in 1..(Len(durations[w]) - 1) :
       durations[w][k] = taken[w][k + 1] - taken[w][k]
  /\ \A w \in Writer \ closed : durations[w] # <<>> =>
       LET last == Len(durations[w])
       IN  /\ durations[w][last] = (taken[w][last] - firstTimestamp) % TimestampLimit
           /\ pending[driver[w]] = [writer |-> w, index |-> last]
  /\ \A o \in Thread :
       LET a == pending[o]
       IN  a # NoAddress /\ a.writer \notin closed =>
             driver[a.writer] = o /\ a.index = Len(durations[a.writer])

PhaseInv ==
  /\ phase \in {"recording", "printing", "done"}
  /\ phase = "recording" =>
       /\ printed = <<>>
       /\ \A w \in Writer : position[w] = 1 /\ referential_timestamp[w] = 0
  /\ phase # "recording" => \A w \in Writer : taken[w] # <<>> => w \in closed
  /\ phase = "done" => Unfinished = {}

\* A reader's time is that of the event it is on, and no event that was printed
\* is later than it.
ReadersInv ==
  /\ \A w \in Unfinished : referential_timestamp[w] = taken[w][position[w]] - taken[w][1]
  /\ \A i \in 1..Len(printed) :
       LET p == printed[i]
       IN  /\ p.index < position[p.writer]
           /\ p.index <= Len(durations[p.writer])
           /\ p.timestamp = SinceStart(p)
           /\ \A w \in Unfinished : p.timestamp <= referential_timestamp[w]
  /\ \A i, j \in 1..Len(printed) : i < j =>
       /\ printed[i].timestamp <= printed[j].timestamp
       /\ printed[i].writer = printed[j].writer => printed[i].index < printed[j].index
  /\ \A w \in Writer : \A k \in 1..(position[w] - 1) :
       \E i \in 1..Len(printed) : printed[i].writer = w /\ printed[i].index = k

Good ==
  /\ CallsInv
  /\ FirstInv
  /\ DriversInv
  /\ TakenInv
  /\ DurationsInv
  /\ PhaseInv
  /\ ReadersInv

IInv == TypeInv /\ (Undisturbed => Good)
-----------------------------------------------------------------------------
(* Timestamps, which are numbers modulo TimestampLimit *)

\* What is assumed of the constants.
LEMMA LimitProperties ==
  /\ TimestampLimit \in Nat \ {0} /\ MaxTime \in Nat \ {0} /\ NbWriters \in Nat
  /\ MaxTime < TimestampLimit
BY BoundsAssumption, TimestampAssumption

\* A number modulo the width is a timestamp;
LEMMA ModRange ==
  ASSUME NEW a \in Int
  PROVE  a % TimestampLimit \in Timestamp
BY LimitProperties DEF Timestamp

\* a timestamp is itself modulo the width;
LEMMA ModSmall ==
  ASSUME NEW a \in Timestamp
  PROVE  a % TimestampLimit = a
BY LimitProperties DEF Timestamp

\* A remainder is the one number of the range that is a multiple away.
LEMMA ModUnique ==
  ASSUME NEW a \in Int, NEW q \in Int, NEW r \in Timestamp,
         a = TimestampLimit * q + r
  PROVE  a % TimestampLimit = r
BY LimitProperties DEF Timestamp

\* and any number is a multiple of the width and a timestamp.
LEMMA ModSplit ==
  ASSUME NEW a \in Int
  PROVE  \E q \in Int : a = TimestampLimit * q + (a % TimestampLimit)
<1>1. a \div TimestampLimit \in Int
  BY LimitProperties
<1>2. a = TimestampLimit * (a \div TimestampLimit) + (a % TimestampLimit)
  BY LimitProperties
<1> QED
  BY <1>1, <1>2

\* htf_delta_timestamp: the distance of two times is that of their timestamps,
\* though each may have wrapped around.
LEMMA Distance ==
  ASSUME NEW first \in Int, NEW t \in Int, NEW u \in Int, u - t \in Timestamp
  PROVE  (((u - first) % TimestampLimit) - ((t - first) % TimestampLimit)) % TimestampLimit
           = u - t
<1> DEFINE x == (u - first) % TimestampLimit
           y == (t - first) % TimestampLimit
<1>1. x \in Int /\ y \in Int
  BY ModRange, LimitProperties DEF Timestamp
<1>2. PICK p \in Int : u - first = TimestampLimit * p + x
  BY ModSplit
<1>3. PICK q \in Int : t - first = TimestampLimit * q + y
  BY ModSplit
<1>4. TimestampLimit \in Int
  BY LimitProperties
<1> HIDE DEF x, y
<1>5. x - y = TimestampLimit * (q - p) + (u - t)
  <2>1. TimestampLimit * (q - p) = TimestampLimit * q - TimestampLimit * p
    BY <1>4
  <2>2. TimestampLimit * q \in Int /\ TimestampLimit * p \in Int
    BY <1>4
  <2> QED
    BY <2>1, <2>2, <1>1, <1>2, <1>3
<1>6. q - p \in Int /\ x - y \in Int
  BY <1>1
<1>7. (x - y) % TimestampLimit = u - t
  BY <1>5, <1>6, ModUnique
<1> QED
  BY <1>7 DEF x, y

-----------------------------------------------------------------------------
(* What disturbs the times is not undone *)

\* A set has at most one element if all its elements are equal.
LEMMA AtMostOne ==
  ASSUME NEW S, IsFiniteSet(S)
  PROVE  Cardinality(S) <= 1 <=> \A x, y \in S : x = y
<1>1. Cardinality(S) \in Nat
  BY FS_CardinalityType
<1>2. ASSUME Cardinality(S) <= 1
      PROVE  \A x, y \in S : x = y
  <2>1. CASE Cardinality(S) = 0
    BY <2>1, FS_EmptySet
  <2>2. CASE Cardinality(S) = 1
    BY <2>2, FS_Singleton
  <2> QED
    BY <1>1, <1>2, <2>1, <2>2
<1>3. ASSUME \A x, y \in S : x = y
      PROVE  Cardinality(S) <= 1
  <2>1. CASE S = {}
    BY <2>1, FS_EmptySet
  <2>2. CASE S # {}
    <3>1. PICK x \in S : TRUE
      BY <2>2
    <3>2. S = {x}
      BY <3>1, <1>3
    <3> QED
      BY <3>2, FS_Singleton
  <2> QED
    BY <2>1, <2>2
<1> QED
  BY <1>2, <1>3

-----------------------------------------------------------------------------
(* storeTimestamp *)

\* A pending address has a writer and an index.
LEMMA NoAddressIsNone ==
  ASSUME TypeInv, NEW o \in Thread
  PROVE  /\ pending[o].writer \in 0..NbWriters /\ pending[o].index \in Nat
         /\ pending[o] = [writer |-> pending[o].writer, index |-> pending[o].index]
BY DEF TypeInv

\* Assigning to a duration that was stored keeps the lengths.
LEMMA AssignTypes ==
  ASSUME TypeInv, NEW o \in Thread, NEW value \in Timestamp
  PROVE  /\ Assign(pending[o], value) \in [Writer -> Seq(Timestamp)]
         /\ \A v \in Writer : Len(Assign(pending[o], value)[v]) = Len(durations[v])
<1> DEFINE a == pending[o]
<1>1. CASE a = NoAddress \/ a.writer \in closed
  BY <1>1 DEF Assign, TypeInv
<1>2. CASE ~(a = NoAddress \/ a.writer \in closed)
  <2>1. a.writer \in Writer /\ a.index \in 1..Len(durations[a.writer])
    BY <1>2 DEF TypeInv, PendingIsStored
  <2>2. Assign(a, value) = [durations EXCEPT ![a.writer] = [@ EXCEPT ![a.index] = value]]
    BY <1>2 DEF Assign
  <2>3. durations \in [Writer -> Seq(Timestamp)]
    BY DEF TypeInv
  <2>4. /\ [durations[a.writer] EXCEPT ![a.index] = value] \in Seq(Timestamp)
        /\ Len([durations[a.writer] EXCEPT ![a.index] = value]) = Len(durations[a.writer])
    BY <2>1, <2>3
  <2> QED
    BY <2>1, <2>2, <2>3, <2>4
<1> QED
  BY <1>1, <1>2

\* What the event that was pending becomes is a timestamp.
LEMMA CompletedIsTimestamp ==
  ASSUME TypeInv, NEW o \in Thread, pending[o] # NoAddress, NEW timestamp \in Timestamp
  PROVE  (timestamp - durations[pending[o].writer][pending[o].index]) % TimestampLimit
           \in Timestamp
<1> DEFINE a == pending[o]
<1>1. a.writer \in Writer /\ a.index \in 1..Len(durations[a.writer])
  BY DEF TypeInv, PendingIsStored
<1>2. durations[a.writer][a.index] \in Timestamp
  BY <1>1 DEF TypeInv
<1>3. timestamp - durations[a.writer][a.index] \in Int
  BY <1>2, LimitProperties DEF Timestamp
<1> QED
  BY <1>3, ModRange

\* A stored timestamp is one more duration of its writer, and pending.
LEMMA StoredTypes ==
  ASSUME TypeInv, NEW o \in Thread, NEW w \in Writer, NEW timestamp \in Timestamp,
         StoreTimestamp(o, w, timestamp)
  PROVE  /\ durations' \in [Writer -> Seq(Timestamp)]
         /\ Len(durations'[w]) = Len(durations[w]) + 1
         /\ \A v \in Writer \ {w} : Len(durations'[v]) = Len(durations[v])
         /\ pending' = [pending EXCEPT ![o] = [writer |-> w, index |-> Len(durations[w]) + 1]]
         /\ pending' \in [Thread -> [writer : 0..NbWriters, index : Nat]]
         /\ PendingIsStored'
<1> DEFINE a == pending[o]
           value == (timestamp - durations[a.writer][a.index]) % TimestampLimit
           completed == IF a = NoAddress THEN durations ELSE Assign(a, value)
<1>1. /\ completed \in [Writer -> Seq(Timestamp)]
      /\ \A v \in Writer : Len(completed[v]) = Len(durations[v])
  <2>1. CASE a = NoAddress
    BY <2>1 DEF TypeInv
  <2>2. CASE a # NoAddress
    BY <2>2, CompletedIsTimestamp, AssignTypes
  <2> QED
    BY <2>1, <2>2
<1>2. durations' = [completed EXCEPT ![w] = Append(@, timestamp)]
  BY DEF StoreTimestamp
<1>3. pending' = [pending EXCEPT ![o] = [writer |-> w, index |-> Len(durations[w]) + 1]]
  BY DEF StoreTimestamp
<1> HIDE DEF completed
<1>4. /\ durations' \in [Writer -> Seq(Timestamp)]
      /\ Len(durations'[w]) = Len(durations[w]) + 1
      /\ \A v \in Writer \ {w} : Len(durations'[v]) = Len(durations[v])
  BY <1>1, <1>2
<1>5. \A v \in Writer : Len(durations[v]) \in Nat
  BY DEF TypeInv
<1>6. pending' \in [Thread -> [writer : 0..NbWriters, index : Nat]]
  <2>1. w \in 0..NbWriters
    BY LimitProperties DEF Writer
  <2>2. Len(durations[w]) + 1 \in Nat
    BY <1>5
  <2>3. pending \in [Thread -> [writer : 0..NbWriters, index : Nat]]
    BY DEF TypeInv
  <2> HIDE DEF a, value
  <2> QED BY <1>3, <2>1, <2>2, <2>3
<1>7. PendingIsStored'
  <2> SUFFICES ASSUME NEW p \in Thread, pending'[p] # NoAddress
               PROVE  /\ pending'[p].writer \in Writer
                      /\ pending'[p].index \in 1..Len(durations'[pending'[p].writer])
    BY DEF PendingIsStored
  <2>1. CASE p = o
    BY <2>1, <1>3, <1>4, <1>5 DEF TypeInv
  <2>2. CASE p # o
    <3>1. pending'[p] = pending[p]
      BY <2>2, <1>3 DEF TypeInv
    <3>2. pending[p].writer \in Writer /\ pending[p].index \in 1..Len(durations[pending[p].writer])
      BY <3>1 DEF TypeInv, PendingIsStored
    <3> QED
      BY <3>1, <3>2, <1>4, <1>5
  <2> QED
    BY <2>1, <2>2
<1> QED
  BY <1>3, <1>4, <1>6, <1>7

\* If the thread uses no other open writer, then the event before this one gets
\* its duration, and this one its timestamp.
LEMMA Stored ==
  ASSUME TypeInv, NEW o \in Thread, NEW w \in Writer \ closed, NEW timestamp \in Timestamp,
         StoreTimestamp(o, w, timestamp),
         durations[w] # <<>> => pending[o] = [writer |-> w, index |-> Len(durations[w])],
         pending[o] # NoAddress /\ pending[o].writer \notin closed =>
           pending[o] = [writer |-> w, index |-> Len(durations[w])]
  PROVE  /\ \A v \in Writer \ {w} : durations'[v] = durations[v]
         /\ Len(durations'[w]) = Len(durations[w]) + 1
         /\ durations'[w][Len(durations[w]) + 1] = timestamp
         /\ \A k \in 1..(Len(durations[w]) - 1) : durations'[w][k] = durations[w][k]
         /\ durations[w] # <<>> =>
              durations'[w][Len(durations[w])] =
                (timestamp - durations[w][Len(durations[w])]) % TimestampLimit
<1> DEFINE a == pending[o]
           n == Len(durations[w])
           value == (timestamp - durations[a.writer][a.index]) % TimestampLimit
<1>1. durations \in [Writer -> Seq(Timestamp)] /\ durations[w] \in Seq(Timestamp) /\ n \in Nat
  BY DEF TypeInv
<1>2. CASE a = NoAddress \/ a.writer \in closed
  <2>1. durations[w] = <<>>
    BY <1>2, LimitProperties DEF NoAddress, Writer
  <2>2. durations' = [durations EXCEPT ![w] = Append(@, timestamp)]
    BY <1>2 DEF StoreTimestamp, Assign
  <2> QED
    BY <2>1, <2>2, <1>1
<1>3. CASE a # NoAddress /\ a.writer \notin closed
  <2>1. a.writer = w /\ a.index = n
    BY <1>3
  <2>2. n \in 1..Len(durations[w])
    BY <2>1, <1>3 DEF TypeInv, PendingIsStored
  <2>3. durations' = [[durations EXCEPT ![w] = [@ EXCEPT ![n] = value]]
                        EXCEPT ![w] = Append(@, timestamp)]
    BY <2>1, <1>3 DEF StoreTimestamp, Assign
  <2>4. value \in Timestamp
    BY <1>3, CompletedIsTimestamp
  <2>5. value = (timestamp - durations[w][n]) % TimestampLimit
    BY <2>1
  <2> HIDE DEF value
  <2>6. durations'[w] = Append([durations[w] EXCEPT ![n] = value], timestamp)
    BY <2>3, <1>1
  <2>7. /\ [durations[w] EXCEPT ![n] = value] \in Seq(Timestamp)
        /\ Len([durations[w] EXCEPT ![n] = value]) = n
        /\ \A k \in 1..n : [durations[w] EXCEPT ![n] = value][k] =
                             IF k = n THEN value ELSE durations[w][k]
    BY <1>1, <2>2, <2>4
  <2>8. \A v \in Writer \ {w} : durations'[v] = durations[v]
    BY <2>3, <1>1
  <2>9. /\ Len(durations'[w]) = n + 1
        /\ durations'[w][n + 1] = timestamp
        /\ \A k \in 1..n : durations'[w][k] = IF k = n THEN value ELSE durations[w][k]
    BY <2>6, <2>7, <1>1
  <2>10. /\ \A k \in 1..(n - 1) : durations'[w][k] = durations[w][k]
         /\ durations'[w][n] = value
    BY <2>9, <2>2, <1>1
  <2> QED
    BY <2>5, <2>8, <2>9, <2>10
<1> QED
  BY <1>2, <1>3

-----------------------------------------------------------------------------
(* The parts of the invariant that several steps disturb *)

\* A writer has no more durations than times were taken for it.
LEMMA Lengths ==
  ASSUME TypeInv, CallsInv, NEW w \in Writer
  PROVE  /\ Len(durations[w]) \in Nat /\ Len(taken[w]) \in Nat
         /\ Len(durations[w]) <= Len(taken[w])
<1>1. Len(durations[w]) \in Nat /\ Len(taken[w]) \in Nat
  BY DEF TypeInv
<1>2. \/ Len(taken[w]) = Len(durations[w])
      \/ Len(taken[w]) = Len(durations[w]) + 1
  BY DEF CallsInv
<1> QED
  BY <1>1, <1>2

\* What was taken is a time of the clock.
LEMMA TimesAreTimes ==
  ASSUME TypeInv, NEW w \in Writer, NEW k \in 1..Len(taken[w])
  PROVE  taken[w][k] \in 1..MaxTime
<1>1. taken[w] \in Seq(1..MaxTime)
  BY DEF TypeInv
<1> QED
  BY <1>1, ElementOfSeq

\* While threads record, the readers stand at the first events.
LEMMA RecordingReaders ==
  ASSUME TypeInv', CallsInv', printed' = <<>>,
         \A w \in Writer : position'[w] = 1 /\ referential_timestamp'[w] = 0
  PROVE  ReadersInv'
<1>1. ASSUME NEW w \in Unfinished'
      PROVE  referential_timestamp'[w] = taken'[w][position'[w]] - taken'[w][1]
  <2>1. w \in Writer /\ 1 <= Len(durations'[w])
    BY <1>1 DEF Unfinished
  <2>2. taken'[w] \in Seq(1..MaxTime) /\ Len(durations'[w]) \in Nat
    BY <2>1 DEF TypeInv
  <2>3. Len(taken'[w]) = Len(durations'[w]) \/ Len(taken'[w]) = Len(durations'[w]) + 1
    BY <2>1 DEF CallsInv
  <2>4. 1 \in 1..Len(taken'[w])
    BY <2>1, <2>2, <2>3
  <2>5. taken'[w][1] \in 1..MaxTime
    BY <2>2, <2>4, ElementOfSeq
  <2> QED
    BY <2>1, <2>5, LimitProperties
<1>2. 1..Len(printed') = {}
  OBVIOUS
<1>3. \A w \in Writer : 1..(position'[w] - 1) = {}
  OBVIOUS
<1> QED
  BY <1>1, <1>2, <1>3 DEF ReadersInv

\* A time that is stored after the last one of its writer.
LEMMA StoreKeepsDurations ==
  ASSUME TypeInv, Good, NEW o \in Thread, NEW w \in Writer \ closed,
         NEW timestamp \in Timestamp, StoreTimestamp(o, w, timestamp),
         closed' = closed, firstTimestamp' = firstTimestamp,
         \A v \in Writer \ {w} : taken'[v] = taken[v] /\ driver'[v] = driver[v],
         Len(taken[w]) >= Len(durations[w]),
         \A k \in 1..Len(durations[w]) : taken'[w][k] = taken[w][k],
         driver'[w] = o,
         driver[w] \in {None, o},
         \A v \in Writer \ (closed \cup {w}) : driver[v] # o,
         LET n == Len(durations[w])
         IN  /\ taken'[w][n + 1] \in 1..MaxTime
             /\ n # 0 => taken[w][n] <= taken'[w][n + 1]
             /\ timestamp = (taken'[w][n + 1] - firstTimestamp) % TimestampLimit
  PROVE  DurationsInv'
<1> DEFINE n == Len(durations[w])
<1>1. n \in Nat /\ taken[w] \in Seq(1..MaxTime) /\ durations[w] \in Seq(Timestamp)
  BY DEF TypeInv
<1>2. durations[w] # <<>> => pending[o] = [writer |-> w, index |-> n]
  <2>1. ASSUME durations[w] # <<>>
        PROVE  driver[w] = o
    BY <2>1, <1>1 DEF Good, DriversInv
  <2> QED
    BY <2>1 DEF Good, DurationsInv
<1>3. pending[o] # NoAddress /\ pending[o].writer \notin closed =>
        pending[o] = [writer |-> w, index |-> n]
  <2> SUFFICES ASSUME pending[o] # NoAddress, pending[o].writer \notin closed
               PROVE  pending[o] = [writer |-> w, index |-> n]
    OBVIOUS
  <2>1. /\ driver[pending[o].writer] = o
        /\ pending[o].index = Len(durations[pending[o].writer])
    BY DEF Good, DurationsInv
  <2>2. pending[o].writer \in Writer
    BY DEF TypeInv, PendingIsStored
  <2>3. pending[o].writer = w
    BY <2>1, <2>2
  <2> QED
    BY <2>1, <2>3, NoAddressIsNone
<1>4. /\ \A v \in Writer \ {w} : durations'[v] = durations[v]
      /\ Len(durations'[w]) = n + 1
      /\ durations'[w][n + 1] = timestamp
      /\ \A k \in 1..(n - 1) : durations'[w][k] = durations[w][k]
      /\ durations[w] # <<>> =>
           durations'[w][n] = (timestamp - durations[w][n]) % TimestampLimit
  BY <1>2, <1>3, Stored
<1>5. pending' = [pending EXCEPT ![o] = [writer |-> w, index |-> n + 1]]
  BY StoredTypes
<1>6. ASSUME NEW v \in Writer, NEW k \in 1..(Len(durations'[v]) - 1)
      PROVE  durations'[v][k] = taken'[v][k + 1] - taken'[v][k]
  <2>1. CASE v # w
    BY <2>1, <1>4, <1>6 DEF Good, DurationsInv
  <2>2. CASE v = w /\ k # n
    <3>1. k \in 1..(n - 1) /\ k \in 1..n /\ k + 1 \in 1..n
      BY <2>2, <1>4, <1>1
    <3>2. durations[w][k] = taken[w][k + 1] - taken[w][k]
      BY <3>1 DEF Good, DurationsInv
    <3> QED
      BY <2>2, <3>1, <3>2, <1>4
  <2>3. CASE v = w /\ k = n
    <3>1. n # 0 /\ durations[w] # <<>> /\ n \in 1..Len(durations[w]) /\ n \in 1..Len(taken[w])
      BY <2>3, <1>1
    <3>2. durations[w][n] = (taken[w][n] - firstTimestamp) % TimestampLimit
      BY <3>1 DEF Good, DurationsInv
    <3>3. taken[w][n] \in 1..MaxTime /\ firstTimestamp \in 0..MaxTime
      BY <3>1, TimesAreTimes DEF TypeInv
    <3>4. taken'[w][n + 1] - taken[w][n] \in Timestamp
      <4> DEFINE t == taken[w][n]
                 u == taken'[w][n + 1]
      <4>1. t \in 1..MaxTime /\ u \in 1..MaxTime /\ t <= u
        BY <3>1, <3>3
      <4> HIDE DEF t, u
      <4>2. u - t \in Timestamp
        BY <4>1, LimitProperties DEF Timestamp
      <4> QED
        BY <4>2 DEF t, u
    <3>5. taken'[w][n + 1] \in Int /\ taken[w][n] \in Int /\ firstTimestamp \in Int
      BY <3>3, LimitProperties
    <3>6. durations'[w][n] = (((taken'[w][n + 1] - firstTimestamp) % TimestampLimit)
                               - ((taken[w][n] - firstTimestamp) % TimestampLimit)) % TimestampLimit
      BY <3>1, <3>2, <1>4
    <3>7. durations'[w][n] = taken'[w][n + 1] - taken[w][n]
      BY <3>4, <3>5, <3>6, Distance
    <3> QED
      BY <2>3, <3>1, <3>7
  <2> QED
    BY <2>1, <2>2, <2>3
<1>7. ASSUME NEW v \in Writer \ closed', durations'[v] # <<>>
      PROVE  LET last == Len(durations'[v])
             IN  /\ durations'[v][last] = (taken'[v][last] - firstTimestamp') % TimestampLimit
                 /\ pending'[driver'[v]] = [writer |-> v, index |-> last]
  <2>1. CASE v # w
    <3>1. /\ durations[v] # <<>> /\ durations'[v] = durations[v]
          /\ taken'[v] = taken[v] /\ driver'[v] = driver[v] /\ driver[v] # o
      BY <2>1, <1>4, <1>7
    <3>2. pending'[driver[v]] = pending[driver[v]]
      BY <3>1, <1>5
    <3> QED
      BY <3>1, <3>2, <1>7 DEF Good, DurationsInv
  <2>2. CASE v = w
    BY <2>2, <1>4, <1>5 DEF TypeInv
  <2> QED
    BY <2>1, <2>2
<1>8. ASSUME NEW p \in Thread, pending'[p] # NoAddress, pending'[p].writer \notin closed'
      PROVE  /\ driver'[pending'[p].writer] = p
             /\ pending'[p].index = Len(durations'[pending'[p].writer])
  <2>1. CASE p = o
    BY <2>1, <1>4, <1>5 DEF TypeInv
  <2>2. CASE p # o
    <3>1. pending'[p] = pending[p]
      BY <2>2, <1>5 DEF TypeInv
    <3>2. pending[p].writer \in Writer
      BY <3>1, <1>8 DEF TypeInv, PendingIsStored
    <3>3. driver[pending[p].writer] = p /\ pending[p].index = Len(durations[pending[p].writer])
      BY <3>1, <1>8 DEF Good, DurationsInv
    <3>4. pending[p].writer # w
      BY <3>3, <2>2, NoneAssumption
    <3> QED
      BY <3>1, <3>2, <3>3, <3>4, <1>4
  <2> QED
    BY <2>1, <2>2
<1> QED
  BY <1>6, <1>7, <1>8 DEF DurationsInv

-----------------------------------------------------------------------------
(* An event is taken *)

\* What remembering an event changes.
LEMMA Remembered ==
  ASSUME TypeInv, NEW o \in Thread, NEW w \in Writer, NEW time \in 1..MaxTime,
         RememberEvent(o, w, time)
  PROVE  /\ taken' \in [Writer -> Seq(1..MaxTime)]
         /\ driver' \in [Writer -> Thread \cup {None}]
         /\ mixed' \in BOOLEAN
         /\ \A v \in Writer \ {w} : taken'[v] = taken[v] /\ driver'[v] = driver[v]
         /\ Len(taken[w]) \in Nat
         /\ Len(taken'[w]) = Len(taken[w]) + 1
         /\ taken'[w][Len(taken[w]) + 1] = time
         /\ \A k \in 1..Len(taken[w]) : taken'[w][k] = taken[w][k]
<1>1. taken \in [Writer -> Seq(1..MaxTime)] /\ taken[w] \in Seq(1..MaxTime)
  BY DEF TypeInv
<1>2. taken' = [taken EXCEPT ![w] = Append(@, time)]
  BY DEF RememberEvent
<1>3. Append(taken[w], time) \in Seq(1..MaxTime)
  BY <1>1
<1>4. taken' \in [Writer -> Seq(1..MaxTime)]
  BY <1>1, <1>2, <1>3
<1>5. taken'[w] = Append(taken[w], time)
  BY <1>1, <1>2
<1>6. /\ Len(taken[w]) \in Nat
      /\ Len(taken'[w]) = Len(taken[w]) + 1
      /\ taken'[w][Len(taken[w]) + 1] = time
      /\ \A k \in 1..Len(taken[w]) : taken'[w][k] = taken[w][k]
  BY <1>1, <1>5
<1>7. /\ driver' \in [Writer -> Thread \cup {None}]
      /\ \A v \in Writer \ {w} : taken'[v] = taken[v] /\ driver'[v] = driver[v]
  BY <1>2 DEF RememberEvent, TypeInv
<1>8. mixed' \in BOOLEAN
  BY DEF RememberEvent, NextMixed, TypeInv
<1> QED
  BY <1>4, <1>6, <1>7, <1>8

\* The writer is the thread's, and the only open one that is.
LEMMA NotMixed ==
  ASSUME TypeInv, NEW o \in Thread, NEW w \in Writer, NextMixed(o, w), Undisturbed',
         setters' = setters
  PROVE  /\ Undisturbed
         /\ driver[w] \in {None, o}
         /\ \A v \in Writer \ (closed \cup {w}) : driver[v] # o
<1>1. ~mixed'
  BY DEF Undisturbed
<1>2. ~mixed /\ ~Mixes(o, w)
  BY <1>1 DEF NextMixed, TypeInv
<1>3. Undisturbed
  BY <1>2 DEF Undisturbed
<1> QED
  BY <1>2, <1>3 DEF Mixes

\* An event of a writer that no other thread drives makes its thread the
\* driver.
LEMMA RememberKeeps ==
  ASSUME TypeInv, DriversInv, TakenInv, NEW o \in Thread, NEW w \in Writer \ closed,
         NEW time \in 1..MaxTime, time >= now, now' = time, closed' = closed,
         RememberEvent(o, w, time), driver[w] \in {None, o},
         \A v \in Writer \ (closed \cup {w}) : driver[v] # o
  PROVE  driver'[w] = o /\ DriversInv' /\ TakenInv'
<1>1. driver'[w] = o
  BY DEF RememberEvent, TypeInv
<1>2. DriversInv'
  <2>1. ASSUME NEW v \in Writer
        PROVE  driver'[v] = None <=> taken'[v] = <<>>
    <3>1. CASE v = w
      <4>1. driver'[v] # None
        BY <3>1, <1>1, NoneAssumption
      <4>2. Len(taken'[v]) # 0
        BY <3>1, Remembered
      <4>3. taken'[v] # <<>>
        BY <4>2
      <4> QED
        BY <4>1, <4>3
    <3>2. CASE v # w
      BY <3>2, Remembered DEF DriversInv
    <3> QED
      BY <3>1, <3>2
  <2>2. ASSUME NEW u \in Writer \ closed', NEW v \in Writer \ closed',
               driver'[u] = driver'[v], driver'[v] # None
        PROVE  u = v
    <3>1. CASE u = w
      BY <3>1, <1>1, <2>2, Remembered
    <3>2. CASE v = w
      BY <3>2, <1>1, <2>2, Remembered
    <3>3. CASE u # w /\ v # w
      BY <3>3, <2>2, Remembered DEF DriversInv
    <3> QED
      BY <3>1, <3>2, <3>3
  <2> QED
    BY <2>1, <2>2 DEF DriversInv
<1>3. TakenInv'
  <2> SUFFICES ASSUME NEW v \in Writer
               PROVE  /\ \A k \in 1..Len(taken'[v]) : taken'[v][k] <= time
                      /\ \A j, k \in 1..Len(taken'[v]) : j <= k => taken'[v][j] <= taken'[v][k]
    BY DEF TakenInv
  <2>1. \A k \in 1..Len(taken[v]) : taken[v][k] \in 1..MaxTime /\ taken[v][k] <= now
    BY TimesAreTimes DEF TakenInv
  <2>2. now \in Int /\ time \in Int /\ now <= time /\ MaxTime \in Int
    BY LimitProperties DEF TypeInv
  <2>3. \A k \in 1..Len(taken[v]) : taken[v][k] <= time
    BY <2>1, <2>2
  <2>4. CASE v # w
    BY <2>3, <2>4, Remembered DEF TakenInv
  <2>5. CASE v = w
    <3>1. /\ Len(taken[v]) \in Nat /\ Len(taken'[v]) = Len(taken[v]) + 1
          /\ taken'[v][Len(taken[v]) + 1] = time
          /\ \A k \in 1..Len(taken[v]) : taken'[v][k] = taken[v][k]
      BY <2>5, Remembered
    <3>2. \A k \in 1..Len(taken'[v]) : k = Len(taken[v]) + 1 \/ k \in 1..Len(taken[v])
      BY <3>1
    <3>3. \A k \in 1..Len(taken'[v]) : taken'[v][k] <= time
      BY <3>1, <3>2, <2>2, <2>3
    <3>4. ASSUME NEW j \in 1..Len(taken'[v]), NEW k \in 1..Len(taken'[v]), j <= k
          PROVE  taken'[v][j] <= taken'[v][k]
      <4>1. CASE k = Len(taken[v]) + 1
        BY <4>1, <3>1, <3>3
      <4>2. CASE k \in 1..Len(taken[v])
        <5>1. j \in 1..Len(taken[v])
          BY <4>2, <3>4, <3>1
        <5> QED
          BY <4>2, <5>1, <3>4, <3>1 DEF TakenInv
      <4> QED
        BY <4>1, <4>2, <3>2
    <3> QED
      BY <3>3, <3>4
  <2> QED
    BY <2>4, <2>5
<1> QED
  BY <1>1, <1>2, <1>3


-----------------------------------------------------------------------------
(* Each step keeps the invariant *)

\* The invariant holds at first.
LEMMA InitIInv ==
  ASSUME Init
  PROVE  IInv
<1> USE LimitProperties
<1>1. TypeInv
  <2>1. /\ now \in 1..MaxTime /\ firstTimestamp \in 0..MaxTime
        /\ writer \in [Thread -> 0..NbWriters] /\ start \in [Thread -> 0..MaxTime]
        /\ base \in [Thread -> 0..MaxTime]
    BY DEF Init
  <2>2. /\ referential_timestamp \in [Writer -> Timestamp]
        /\ position \in [Writer -> Nat \ {0}]
    BY DEF Init, Timestamp
  <2>3. /\ pending \in [Thread -> [writer : 0..NbWriters, index : Nat]]
        /\ PendingIsStored
    BY DEF Init, PendingIsStored, NoAddress
  <2>4. IsFiniteSet(setters)
    BY FS_EmptySet DEF Init
  <2>5. /\ durations \in [Writer -> Seq(Timestamp)]
        /\ taken \in [Writer -> Seq(1..MaxTime)]
        /\ printed \in Seq([writer : Writer, index : Nat \ {0}, timestamp : Timestamp])
    BY DEF Init
  <2>6. /\ given \in BOOLEAN /\ mixed \in BOOLEAN
        /\ pc \in [Thread -> {"idle", "test", "set", "subtract"}]
        /\ closed \subseteq Writer
        /\ driver \in [Writer -> Thread \cup {None}]
        /\ \A o \in Thread : ~Busy(o)
    BY DEF Init, Busy
  <2> QED
    BY <2>1, <2>2, <2>3, <2>4, <2>5, <2>6 DEF TypeInv
<1>2. CallsInv
  BY DEF Init, CallsInv, Busy
<1>3. FirstInv
  BY DEF Init, FirstInv
<1>4. DriversInv
  BY DEF Init, DriversInv
<1>5. TakenInv
  BY DEF Init, TakenInv
<1>6. DurationsInv
  BY DEF Init, DurationsInv
<1>7. PhaseInv
  BY DEF Init, PhaseInv
<1>8. ReadersInv
  <2>1. Unfinished = {} /\ 1..Len(printed) = {} /\ \A w \in Writer : 1..(position[w] - 1) = {}
    BY DEF Init, Unfinished
  <2> QED
    BY <2>1 DEF ReadersInv
<1> QED
  BY <1>1, <1>2, <1>3, <1>4, <1>5, <1>6, <1>7, <1>8 DEF IInv, Good

\* An event with a time of the program's own keeps the invariant.
LEMMA RecordGivenKeeps ==
  ASSUME IInv, NEW o \in Thread, NEW w \in Writer, NEW time \in 1..MaxTime,
         RecordGiven(o, w, time)
  PROVE  IInv'
<1> USE LimitProperties
<1>0. TypeInv
  BY DEF IInv
<1>1. /\ given /\ phase = "recording" /\ w \in Writer \ closed /\ time >= now
      /\ pc[o] = "idle"
      /\ StoreTimestamp(o, w, time) /\ RememberEvent(o, w, time) /\ now' = time
      /\ UNCHANGED <<given, firstTimestamp, calls, closed, phase, readers>>
  BY DEF RecordGiven, CanRecord, CanUse
<1>2. time \in Timestamp
  BY DEF Timestamp
<1>3. /\ setters' = setters /\ NextMixed(o, w)
  BY <1>1 DEF RememberEvent
<1>4. TypeInv'
  <2>1. \A p \in Thread : Busy(p)' => writer'[p] \in Writer
    BY <1>0, <1>1 DEF TypeInv, Busy, calls
  <2> QED
    BY <2>1, <1>0, <1>1, <1>2, <1>3, StoredTypes, Remembered DEF TypeInv, calls, readers
<1>5. SUFFICES ASSUME Undisturbed'
               PROVE  Good'
  BY <1>4 DEF IInv
<1>6. /\ Undisturbed /\ driver[w] \in {None, o}
      /\ \A v \in Writer \ (closed \cup {w}) : driver[v] # o
  BY <1>0, <1>3, <1>5, NotMixed
<1>7. Good
  BY <1>6 DEF IInv
<1>8. /\ firstTimestamp = 0
      /\ \A p \in Thread : ~Busy(p)
      /\ \A v \in Writer : Len(taken[v]) = Len(durations[v])
  BY <1>1, <1>7 DEF Good, FirstInv, CallsInv
<1>9. driver'[w] = o /\ DriversInv' /\ TakenInv'
  BY <1>0, <1>1, <1>6, <1>7, RememberKeeps DEF Good
<1>10. CallsInv'
  <2>1. \A p \in Thread : ~(Busy(p)')
    BY <1>1, <1>8 DEF Busy, calls
  <2>2. ASSUME NEW v \in Writer
        PROVE  Len(taken'[v]) = Len(durations'[v])
    <3>1. Len(taken[v]) = Len(durations[v])
      BY <1>8
    <3>2. CASE v = w
      BY <3>1, <3>2, <1>0, <1>1, <1>2, StoredTypes, Remembered
    <3>3. CASE v # w
      <4>1. Len(durations'[v]) = Len(durations[v])
        BY <3>3, <1>0, <1>1, <1>2, StoredTypes
      <4>2. taken'[v] = taken[v]
        BY <3>3, <1>0, <1>1, Remembered
      <4> QED
        BY <3>1, <4>1, <4>2
    <3> QED
      BY <3>2, <3>3
  <2> QED
    BY <2>1, <2>2 DEF CallsInv
<1>11. FirstInv'
  BY <1>1, <1>3, <1>7 DEF Good, FirstInv, calls
<1>12. DurationsInv'
  <2>1. /\ taken'[w][Len(taken[w]) + 1] = time
        /\ \A k \in 1..Len(taken[w]) : taken'[w][k] = taken[w][k]
        /\ \A v \in Writer \ {w} : taken'[v] = taken[v] /\ driver'[v] = driver[v]
    BY <1>0, <1>1, Remembered
  <2>2. Len(taken[w]) # 0 => taken[w][Len(taken[w])] <= time
    <3> SUFFICES ASSUME Len(taken[w]) # 0
                 PROVE  taken[w][Len(taken[w])] <= time
      OBVIOUS
    <3>1. Len(taken[w]) \in 1..Len(taken[w])
      BY <1>0, <1>1, Remembered
    <3>2. taken[w][Len(taken[w])] \in 1..MaxTime /\ taken[w][Len(taken[w])] <= now
      BY <1>0, <1>7, <3>1, TimesAreTimes DEF Good, TakenInv
    <3>3. now \in Int /\ now <= time
      BY <1>0, <1>1 DEF TypeInv
    <3> QED
      BY <3>2, <3>3
  <2>3. time = (time - firstTimestamp) % TimestampLimit
    BY <1>2, <1>8, ModSmall
  <2>4. Len(taken[w]) >= Len(durations[w])
    BY <1>8, <1>0, <1>1, Remembered
  <2>5. /\ taken'[w][Len(durations[w]) + 1] = time
        /\ Len(durations[w]) # 0 => taken[w][Len(durations[w])] <= time
        /\ \A k \in 1..Len(durations[w]) : taken'[w][k] = taken[w][k]
    BY <2>1, <2>2, <1>8
  <2> QED
    BY <1>0, <1>1, <1>2, <1>6, <1>7, <1>9, <2>1, <2>3, <2>4, <2>5, StoreKeepsDurations
<1>13. PhaseInv'
  BY <1>1, <1>7 DEF Good, PhaseInv, readers
<1>14. ReadersInv'
  <2>1. /\ printed' = <<>>
        /\ \A v \in Writer : position'[v] = 1 /\ referential_timestamp'[v] = 0
    BY <1>1, <1>7 DEF Good, PhaseInv, readers
  <2> QED
    BY <2>1, <1>4, <1>10, RecordingReaders
<1> QED
  BY <1>9, <1>10, <1>11, <1>12, <1>13, <1>14 DEF Good


\* So does each step of htf_get_timestamp: the clock,
LEMMA ReadClockKeeps ==
  ASSUME IInv, NEW o \in Thread, NEW w \in Writer, NEW time \in 1..MaxTime,
         ReadClock(o, w, time)
  PROVE  IInv'
<1> USE LimitProperties
<1>0. TypeInv
  BY DEF IInv
<1>1. /\ ~given /\ phase = "recording" /\ w \in Writer \ closed /\ time >= now
      /\ pc[o] = "idle" /\ \A p \in Thread : pc[p] # "idle" => writer[p] # w
      /\ RememberEvent(o, w, time) /\ now' = time
      /\ writer' = [writer EXCEPT ![o] = w]
      /\ start' = [start EXCEPT ![o] = time]
      /\ pc' = [pc EXCEPT ![o] = "test"]
      /\ UNCHANGED <<given, firstTimestamp, base, pending, durations, closed, phase, readers>>
  BY DEF ReadClock, CanRecord, CanUse
<1>2. w \in 0..NbWriters /\ time \in 0..MaxTime
  BY DEF Writer
<1>3. /\ setters' = setters /\ NextMixed(o, w)
  BY <1>1 DEF RememberEvent
<1>4. TypeInv'
  <2>1. \A p \in Thread : Busy(p)' => writer'[p] \in Writer
    BY <1>0, <1>1 DEF TypeInv, Busy
  <2> QED
    BY <2>1, <1>0, <1>1, <1>2, <1>3, Remembered DEF TypeInv, PendingIsStored, readers
<1>5. SUFFICES ASSUME Undisturbed'
               PROVE  Good'
  BY <1>4 DEF IInv
<1>6. /\ Undisturbed /\ driver[w] \in {None, o}
      /\ \A v \in Writer \ (closed \cup {w}) : driver[v] # o
  BY <1>0, <1>3, <1>5, NotMixed
<1>7. Good
  BY <1>6 DEF IInv
<1>8. driver'[w] = o /\ DriversInv' /\ TakenInv'
  BY <1>0, <1>1, <1>6, <1>7, RememberKeeps DEF Good
<1>9. Len(taken[w]) = Len(durations[w])
  BY <1>1, <1>7 DEF Good, CallsInv, Busy
<1>10. CallsInv'
  <2>1. ASSUME NEW p \in Thread, Busy(p)'
        PROVE  LET v == writer'[p]
               IN  /\ phase' = "recording" /\ ~given'
                   /\ v \in Writer \ closed'
                   /\ driver'[v] = p
                   /\ Len(taken'[v]) = Len(durations'[v]) + 1
                   /\ start'[p] = taken'[v][Len(taken'[v])]
    <3>1. CASE p = o
      <4>1. writer'[p] = w /\ start'[p] = time
        BY <3>1, <1>0, <1>1 DEF TypeInv
      <4>2. Len(taken'[w]) = Len(taken[w]) + 1 /\ taken'[w][Len(taken[w]) + 1] = time
        BY <1>0, <1>1, Remembered
      <4> QED
        BY <3>1, <4>1, <4>2, <1>1, <1>8, <1>9
    <3>2. CASE p # o
      <4>1. Busy(p) /\ writer'[p] = writer[p] /\ start'[p] = start[p]
        BY <3>2, <2>1, <1>0, <1>1 DEF TypeInv, Busy
      <4>2. writer[p] \in Writer \ {w}
        BY <4>1, <1>1, <1>7 DEF Good, CallsInv, Busy
      <4>3. taken'[writer[p]] = taken[writer[p]] /\ driver'[writer[p]] = driver[writer[p]]
        BY <4>2, <1>0, <1>1, Remembered
      <4> QED
        BY <4>1, <4>3, <1>1, <1>7 DEF Good, CallsInv
    <3> QED
      BY <3>1, <3>2
  <2>2. ASSUME NEW v \in Writer
        PROVE  \/ Len(taken'[v]) = Len(durations'[v])
               \/ \E p \in Thread : Busy(p)' /\ writer'[p] = v
    <3>1. CASE v = w
      <4>1. Busy(o)' /\ writer'[o] = w
        BY <1>0, <1>1 DEF TypeInv, Busy
      <4> QED
        BY <3>1, <4>1
    <3>2. CASE v # w /\ Len(taken[v]) = Len(durations[v])
      BY <3>2, <1>0, <1>1, Remembered
    <3>3. CASE v # w /\ Len(taken[v]) # Len(durations[v])
      <4>1. PICK p \in Thread : Busy(p) /\ writer[p] = v
        BY <3>3, <1>7 DEF Good, CallsInv
      <4>2. p # o
        BY <4>1, <1>1 DEF Busy
      <4>3. Busy(p)' /\ writer'[p] = v
        BY <4>1, <4>2, <1>0, <1>1 DEF TypeInv, Busy
      <4> QED
        BY <4>3
    <3> QED
      BY <3>1, <3>2, <3>3
  <2> QED
    BY <2>1, <2>2 DEF CallsInv
<1>11. FirstInv'
  <2>1. \A p \in Thread : pc'[p] \in {"set", "subtract"} => pc'[p] = pc[p]
    BY <1>0, <1>1 DEF TypeInv
  <2> QED
    BY <2>1, <1>1, <1>3, <1>7 DEF Good, FirstInv
<1>12. DurationsInv'
  <2>1. ASSUME NEW v \in Writer, durations[v] # <<>>
        PROVE  driver'[v] = driver[v]
    <3>1. durations[v] \in Seq(Timestamp) /\ taken[v] \in Seq(1..MaxTime)
      BY <1>0 DEF TypeInv
    <3>2. Len(durations[v]) # 0
      BY <2>1, <3>1
    <3>3. Len(taken[v]) # 0
      BY <3>2, <1>0, <1>7, Lengths DEF Good
    <3>4. taken[v] # <<>>
      BY <3>3
    <3>5. driver[v] # None
      BY <3>4, <1>7 DEF Good, DriversInv
    <3> QED
      BY <3>5, <1>0, <1>1 DEF RememberEvent, TypeInv
  <2>2. ASSUME NEW v \in Writer, NEW k \in 1..Len(durations[v])
        PROVE  taken'[v][k] = taken[v][k]
    <3>1. k \in 1..Len(taken[v])
      BY <1>0, <1>7, Lengths DEF Good
    <3> QED
      BY <3>1, <1>0, <1>1, Remembered
  <2>3. ASSUME NEW v \in Writer, NEW k \in 1..(Len(durations[v]) - 1)
        PROVE  durations[v][k] = taken'[v][k + 1] - taken'[v][k]
    <3>1. k \in 1..Len(durations[v]) /\ k + 1 \in 1..Len(durations[v])
      BY <1>0 DEF TypeInv
    <3> QED
      BY <3>1, <2>2, <1>7 DEF Good, DurationsInv
  <2>4. ASSUME NEW v \in Writer \ closed, durations[v] # <<>>
        PROVE  LET last == Len(durations[v])
               IN  /\ durations[v][last] = (taken'[v][last] - firstTimestamp) % TimestampLimit
                   /\ pending[driver'[v]] = [writer |-> v, index |-> last]
    <3>1. Len(durations[v]) \in 1..Len(durations[v])
      BY <2>4, <1>0 DEF TypeInv
    <3> QED
      BY <3>1, <2>1, <2>2, <2>4, <1>7 DEF Good, DurationsInv
  <2>5. ASSUME NEW p \in Thread, pending[p] # NoAddress, pending[p].writer \notin closed
        PROVE  /\ driver'[pending[p].writer] = p
               /\ pending[p].index = Len(durations[pending[p].writer])
    <3>1. pending[p].writer \in Writer /\ durations[pending[p].writer] # <<>>
      BY <2>5, <1>0 DEF TypeInv, PendingIsStored
    <3> QED
      BY <3>1, <2>1, <2>5, <1>7 DEF Good, DurationsInv
  <2> QED
    BY <2>3, <2>4, <2>5, <1>1 DEF DurationsInv
<1>13. PhaseInv'
  BY <1>1, <1>7 DEF Good, PhaseInv, readers
<1>14. ReadersInv'
  <2>1. /\ printed' = <<>>
        /\ \A v \in Writer : position'[v] = 1 /\ referential_timestamp'[v] = 0
    BY <1>1, <1>7 DEF Good, PhaseInv, readers
  <2> QED
    BY <2>1, <1>4, <1>10, RecordingReaders
<1> QED
  BY <1>8, <1>10, <1>11, <1>12, <1>13, <1>14 DEF Good

\* the test,
LEMMA TestFirstKeeps ==
  ASSUME IInv, NEW o \in Thread, TestFirst(o)
  PROVE  IInv'
<1>1. /\ pc[o] = "test"
      /\ base' = [base EXCEPT ![o] = firstTimestamp]
      /\ pc' = [pc EXCEPT ![o] = IF firstTimestamp = 0 THEN "set" ELSE "subtract"]
      /\ UNCHANGED <<given, clock, writer, start, pending, durations, closed, phase,
                     readers, history>>
  BY DEF TestFirst
<1>2. TypeInv /\ TypeInv'
  <2>1. \A p \in Thread : Busy(p)' => writer'[p] \in Writer
    BY <1>1 DEF IInv, TypeInv, Busy
  <2> QED
    BY <2>1, <1>1 DEF IInv, TypeInv, PendingIsStored, clock, readers, history
<1>3. SUFFICES ASSUME Undisturbed'
               PROVE  Good'
  BY <1>2 DEF IInv
<1>4. Good
  BY <1>1, <1>3 DEF IInv, Undisturbed, history
<1>5. \A p \in Thread : Busy(p)' <=> Busy(p)
  BY <1>1, <1>2 DEF TypeInv, Busy
<1>6. CallsInv'
  BY <1>1, <1>4, <1>5 DEF Good, CallsInv, history
<1>7. FirstInv'
  <2>1. ASSUME NEW p \in Thread
        PROVE  /\ pc'[p] = "set" => p \notin setters
               /\ pc'[p] = "subtract" => base'[p] = firstTimestamp /\ firstTimestamp # 0
    <3>1. CASE p # o
      BY <3>1, <1>1, <1>2, <1>4 DEF TypeInv, Good, FirstInv
    <3>2. CASE p = o
      <4>1. pc'[o] = IF firstTimestamp = 0 THEN "set" ELSE "subtract"
        BY <1>1, <1>2 DEF TypeInv
      <4>2. base'[o] = firstTimestamp
        BY <1>1, <1>2 DEF TypeInv
      <4>3. firstTimestamp = 0 => setters = {}
        BY <1>4 DEF Good, FirstInv
      <4> QED
        BY <3>2, <4>1, <4>2, <4>3
    <3> QED
      BY <3>1, <3>2
  <2> QED
    BY <2>1, <1>1, <1>4 DEF Good, FirstInv, clock, history
<1>8. DriversInv' /\ TakenInv' /\ DurationsInv' /\ PhaseInv'
  BY <1>1, <1>4 DEF Good, DriversInv, TakenInv, DurationsInv, PhaseInv, Unfinished,
                    clock, readers, history
<1>9. ReadersInv'
  BY <1>1, <1>4 DEF Good, ReadersInv, Unfinished, SinceStart, TimeOf, readers, history
<1> QED
  BY <1>6, <1>7, <1>8, <1>9 DEF Good

\* the assignment,
LEMMA SetFirstKeeps ==
  ASSUME IInv, NEW o \in Thread, SetFirst(o)
  PROVE  IInv'
<1>1. /\ pc[o] = "set"
      /\ firstTimestamp' = start[o]
      /\ base' = [base EXCEPT ![o] = start[o]]
      /\ pc' = [pc EXCEPT ![o] = "subtract"]
      /\ setters' = setters \cup {o}
      /\ UNCHANGED <<given, now, writer, start, pending, durations, closed, phase, readers,
                     taken, driver, mixed>>
  BY DEF SetFirst
<1>2. TypeInv
  BY DEF IInv
<1>3. TypeInv'
  <2>1. IsFiniteSet(setters')
    BY <1>1, <1>2, FS_AddElement DEF TypeInv
  <2>2. \A p \in Thread : Busy(p)' => writer'[p] \in Writer
    BY <1>1, <1>2 DEF TypeInv, Busy
  <2> QED
    BY <2>1, <2>2, <1>1, <1>2 DEF TypeInv, PendingIsStored, readers
<1>4. SUFFICES ASSUME Undisturbed'
               PROVE  Good'
  BY <1>3 DEF IInv
<1>5. \A x, y \in setters' : x = y
  BY <1>3, <1>4, AtMostOne DEF TypeInv, Undisturbed
<1>6. Undisturbed
  BY <1>1, <1>2, <1>4, <1>5, AtMostOne DEF TypeInv, Undisturbed
<1>7. Good
  BY <1>6 DEF IInv
<1>8. setters = {} /\ firstTimestamp = 0 /\ ~given
  <2>1. o \notin setters /\ ~given
    BY <1>1, <1>7 DEF Good, FirstInv, CallsInv, Busy
  <2>2. setters = {}
    BY <2>1, <1>1, <1>5
  <2> QED
    BY <2>1, <2>2, <1>7 DEF Good, FirstInv
<1>9. \A v \in Writer : durations[v] = <<>>
  BY <1>7, <1>8 DEF Good, FirstInv
<1>10. start[o] \in 1..MaxTime
  <2>1. /\ writer[o] \in Writer
        /\ Len(taken[writer[o]]) = Len(durations[writer[o]]) + 1
        /\ start[o] = taken[writer[o]][Len(taken[writer[o]])]
    BY <1>1, <1>7 DEF Good, CallsInv, Busy
  <2>2. Len(taken[writer[o]]) \in 1..Len(taken[writer[o]])
    BY <2>1, <1>2 DEF TypeInv
  <2> QED
    BY <2>1, <2>2, <1>2, TimesAreTimes
<1>11. \A p \in Thread : Busy(p)' <=> Busy(p)
  BY <1>1, <1>2 DEF TypeInv, Busy
<1>12. CallsInv'
  BY <1>1, <1>7, <1>11 DEF Good, CallsInv
<1>13. FirstInv'
  <2>1. firstTimestamp' # 0 /\ setters' # {} /\ ~given'
    BY <1>1, <1>8, <1>10
  <2>2. ASSUME NEW p \in Thread
        PROVE  /\ pc'[p] = "set" => p \notin setters'
               /\ pc'[p] = "subtract" => base'[p] = firstTimestamp' /\ firstTimestamp' # 0
    <3>1. CASE p = o
      BY <3>1, <2>1, <1>1, <1>2 DEF TypeInv
    <3>2. CASE p # o
      <4>1. pc'[p] = pc[p] /\ p \notin setters'
        BY <3>2, <1>1, <1>2, <1>8 DEF TypeInv
      <4>2. pc[p] # "subtract"
        BY <1>7, <1>8 DEF Good, FirstInv
      <4> QED
        BY <4>1, <4>2
    <3> QED
      BY <3>1, <3>2
  <2> QED
    BY <2>1, <2>2 DEF FirstInv
<1>14. DriversInv' /\ TakenInv'
  BY <1>1, <1>7 DEF Good, DriversInv, TakenInv
<1>15. DurationsInv'
  <2>1. \A v \in Writer : durations'[v] = <<>> /\ 1..(Len(durations'[v]) - 1) = {}
    BY <1>1, <1>9
  <2>2. \A p \in Thread : pending'[p] # NoAddress /\ pending'[p].writer \notin closed' =>
          driver'[pending'[p].writer] = p /\ pending'[p].index = Len(durations'[pending'[p].writer])
    BY <1>1, <1>7 DEF Good, DurationsInv
  <2> QED
    BY <2>1, <2>2 DEF DurationsInv
<1>16. PhaseInv'
  BY <1>1, <1>7 DEF Good, PhaseInv, Unfinished, readers
<1>17. ReadersInv'
  BY <1>1, <1>7 DEF Good, ReadersInv, Unfinished, SinceStart, TimeOf, readers
<1> QED
  BY <1>12, <1>13, <1>14, <1>15, <1>16, <1>17 DEF Good


\* and the subtraction, with which the event is stored.
LEMMA SubtractFirstKeeps ==
  ASSUME IInv, NEW o \in Thread, SubtractFirst(o)
  PROVE  IInv'
<1> DEFINE w == writer[o]
<1>1. /\ pc[o] = "subtract"
      /\ pc' = [pc EXCEPT ![o] = "idle"]
      /\ UNCHANGED <<given, clock, writer, start, base, closed, phase, readers, history>>
  BY DEF SubtractFirst
<1>2. PICK first \in {base[o], firstTimestamp} :
        StoreTimestamp(o, w, (start[o] - first) % TimestampLimit)
  BY DEF SubtractFirst
<1> DEFINE timestamp == (start[o] - first) % TimestampLimit
<1>3. TypeInv /\ Busy(o) /\ w \in Writer
  BY <1>1 DEF IInv, TypeInv, Busy
<1>4. timestamp \in Timestamp
  <2>1. start[o] \in 0..MaxTime /\ first \in 0..MaxTime
    BY <1>3 DEF TypeInv
  <2>2. start[o] - first \in Int
    BY <2>1, LimitProperties
  <2> QED
    BY <2>2, ModRange
<1> HIDE DEF timestamp
<1>5. StoreTimestamp(o, w, timestamp)
  BY <1>2 DEF timestamp
<1>6. /\ durations' \in [Writer -> Seq(Timestamp)]
      /\ Len(durations'[w]) = Len(durations[w]) + 1
      /\ \A v \in Writer \ {w} : Len(durations'[v]) = Len(durations[v])
      /\ pending' \in [Thread -> [writer : 0..NbWriters, index : Nat]]
      /\ PendingIsStored'
  BY <1>3, <1>4, <1>5, StoredTypes
<1>7. \A p \in Thread : IF p = o THEN ~(Busy(p)') ELSE (Busy(p)' <=> Busy(p)) /\ pc'[p] = pc[p]
  BY <1>1, <1>3 DEF TypeInv, Busy
<1>8. TypeInv'
  BY <1>1, <1>3, <1>6, <1>7 DEF TypeInv, clock, readers, history
<1>9. SUFFICES ASSUME Undisturbed'
               PROVE  Good'
  BY <1>8 DEF IInv
<1>10. Good
  BY <1>1, <1>9 DEF IInv, Undisturbed, history
<1>11. /\ phase = "recording" /\ ~given /\ w \in Writer \ closed /\ driver[w] = o
       /\ Len(taken[w]) = Len(durations[w]) + 1
       /\ start[o] = taken[w][Len(taken[w])]
  BY <1>3, <1>10 DEF Good, CallsInv
<1>12. first = firstTimestamp /\ firstTimestamp # 0
  BY <1>1, <1>10 DEF Good, FirstInv
<1>13. CallsInv'
  <2>1. ASSUME NEW p \in Thread, Busy(p)'
        PROVE  LET v == writer'[p]
               IN  /\ phase' = "recording" /\ ~given'
                   /\ v \in Writer \ closed'
                   /\ driver'[v] = p
                   /\ Len(taken'[v]) = Len(durations'[v]) + 1
                   /\ start'[p] = taken'[v][Len(taken'[v])]
    <3>1. p # o /\ Busy(p)
      BY <2>1, <1>7
    <3>2. writer[p] \in Writer \ {w}
      BY <3>1, <1>10, <1>11 DEF Good, CallsInv
    <3>3. Len(durations'[writer[p]]) = Len(durations[writer[p]])
      BY <3>2, <1>6
    <3> QED
      BY <3>1, <3>3, <1>1, <1>10 DEF Good, CallsInv, history
  <2>2. ASSUME NEW v \in Writer
        PROVE  \/ Len(taken'[v]) = Len(durations'[v])
               \/ \E p \in Thread : Busy(p)' /\ writer'[p] = v
    <3>1. CASE v = w
      BY <3>1, <1>1, <1>6, <1>11 DEF history
    <3>2. CASE v # w /\ Len(taken[v]) = Len(durations[v])
      BY <3>2, <1>1, <1>6 DEF history
    <3>3. CASE v # w /\ Len(taken[v]) # Len(durations[v])
      <4>1. PICK p \in Thread : Busy(p) /\ writer[p] = v
        BY <3>3, <1>10 DEF Good, CallsInv
      <4>2. Busy(p)' /\ writer'[p] = v
        BY <4>1, <3>3, <1>1, <1>7
      <4> QED
        BY <4>2
    <3> QED
      BY <3>1, <3>2, <3>3
  <2> QED
    BY <2>1, <2>2 DEF CallsInv
<1>14. FirstInv'
  <2>1. \A p \in Thread : pc'[p] \in {"set", "subtract"} => pc'[p] = pc[p]
    BY <1>1, <1>3 DEF TypeInv
  <2> QED
    BY <2>1, <1>1, <1>10, <1>12 DEF Good, FirstInv, clock, history
<1>15. DriversInv' /\ TakenInv'
  BY <1>1, <1>10 DEF Good, DriversInv, TakenInv, clock, history
<1>16. DurationsInv'
  <2> DEFINE n == Len(durations[w])
  <2>1. n \in Nat /\ Len(taken[w]) = n + 1 /\ n + 1 \in 1..Len(taken[w])
    BY <1>3, <1>11 DEF TypeInv
  <2>2. taken[w][n + 1] \in 1..MaxTime
    BY <2>1, <1>3, TimesAreTimes
  <2>3. n # 0 => taken[w][n] <= taken[w][n + 1]
    <3>1. n # 0 => n \in 1..Len(taken[w]) /\ n <= n + 1
      BY <2>1
    <3> QED
      BY <3>1, <2>1, <1>3, <1>10 DEF Good, TakenInv
  <2>4. timestamp = (taken[w][n + 1] - firstTimestamp) % TimestampLimit
    BY <2>1, <1>11, <1>12 DEF timestamp
  <2>5. \A v \in Writer \ (closed \cup {w}) : driver[v] # o
    BY <1>3, <1>10, <1>11, NoneAssumption DEF Good, DriversInv
  <2>6. /\ closed' = closed /\ firstTimestamp' = firstTimestamp
        /\ taken' = taken /\ driver' = driver
    BY <1>1 DEF clock, history
  <2>7. Len(taken[w]) >= n
    BY <2>1
  <2> QED
    BY <1>3, <1>4, <1>5, <1>10, <1>11, <2>2, <2>3, <2>4, <2>5, <2>6, <2>7, StoreKeepsDurations
<1>17. PhaseInv'
  BY <1>1, <1>10, <1>11 DEF Good, PhaseInv, readers
<1>18. ReadersInv'
  <2>1. /\ printed' = <<>>
        /\ \A v \in Writer : position'[v] = 1 /\ referential_timestamp'[v] = 0
    BY <1>1, <1>10, <1>11 DEF Good, PhaseInv, readers
  <2> QED
    BY <2>1, <1>8, <1>13, RecordingReaders
<1> QED
  BY <1>13, <1>14, <1>15, <1>16, <1>17, <1>18 DEF Good


\* The last event of a writer is the last one of its thread, when it closes it.
LEMMA CloseWriterKeeps ==
  ASSUME IInv, NEW o \in Thread, NEW w \in Writer, CloseWriter(o, w)
  PROVE  IInv'
<1> DEFINE n == Len(durations[w])
<1>1. /\ phase = "recording" /\ pc[o] = "idle" /\ w \notin closed
      /\ \A p \in Thread : pc[p] # "idle" => writer[p] # w
      /\ taken[w] # <<>> /\ NextMixed(o, w)
      /\ UNCHANGED <<given, clock, calls, pending, readers, taken, driver, setters>>
  BY DEF CloseWriter, CanUse
<1>2. \/ pending[o] = NoAddress /\ phase' = "undefined" /\ durations' = durations
           /\ closed' = closed
      \/ pending[o] # NoAddress /\ durations' = Assign(pending[o], 0)
           /\ closed' = closed \cup {w} /\ phase' = phase
  BY DEF CloseWriter
<1>3. TypeInv /\ 0 \in Timestamp
  BY LimitProperties DEF IInv, Timestamp
<1>4. /\ durations' \in [Writer -> Seq(Timestamp)]
      /\ \A v \in Writer : Len(durations'[v]) = Len(durations[v])
  <2>1. /\ Assign(pending[o], 0) \in [Writer -> Seq(Timestamp)]
        /\ \A v \in Writer : Len(Assign(pending[o], 0)[v]) = Len(durations[v])
    BY <1>3, AssignTypes
  <2> QED
    BY <2>1, <1>2, <1>3 DEF TypeInv
<1>5. \A p \in Thread : Busy(p)' <=> Busy(p)
  BY <1>1 DEF Busy, calls
<1>6. TypeInv'
  <2>1. PendingIsStored'
    BY <1>1, <1>3, <1>4 DEF TypeInv, PendingIsStored
  <2>2. mixed' \in BOOLEAN /\ closed' \subseteq Writer
    BY <1>1, <1>2, <1>3 DEF TypeInv, NextMixed
  <2> QED
    BY <2>1, <2>2, <1>1, <1>3, <1>4, <1>5 DEF TypeInv, clock, calls, readers
<1>7. SUFFICES ASSUME Undisturbed'
               PROVE  Good'
  BY <1>6 DEF IInv
<1>8. Undisturbed /\ driver[w] \in {None, o}
  BY <1>1, <1>3, <1>7, NotMixed
<1>9. Good
  BY <1>8 DEF IInv
<1>10. driver[w] = o
  BY <1>1, <1>8, <1>9 DEF Good, DriversInv
<1>11. Len(taken[w]) = n /\ n # 0 /\ n \in Nat /\ durations[w] # <<>>
  <2>1. Len(taken[w]) = n
    BY <1>1, <1>9 DEF Good, CallsInv, Busy
  <2>2. taken[w] \in Seq(1..MaxTime) /\ durations[w] \in Seq(Timestamp)
    BY <1>3 DEF TypeInv
  <2> QED
    BY <2>1, <2>2, <1>1
<1>12. pending[o] = [writer |-> w, index |-> n]
  BY <1>1, <1>9, <1>10, <1>11 DEF Good, DurationsInv
<1>13. pending[o] # NoAddress /\ pending[o].writer = w /\ pending[o].index = n
  BY <1>11, <1>12 DEF NoAddress
<1>14. /\ closed' = closed \cup {w} /\ phase' = phase
       /\ durations' = [durations EXCEPT ![w] = [@ EXCEPT ![n] = 0]]
  BY <1>1, <1>2, <1>13 DEF Assign
<1>15. /\ \A v \in Writer \ {w} : durations'[v] = durations[v]
       /\ \A k \in 1..(n - 1) : durations'[w][k] = durations[w][k]
  <2>1. durations'[w] = [durations[w] EXCEPT ![n] = 0] /\ durations[w] \in Seq(Timestamp)
    BY <1>3, <1>14 DEF TypeInv
  <2>2. \A k \in 1..(n - 1) : k \in DOMAIN durations[w] /\ k # n
    BY <2>1, <1>11
  <2>3. \A k \in 1..(n - 1) : durations'[w][k] = durations[w][k]
    BY <2>1, <2>2
  <2> QED
    BY <2>3, <1>3, <1>14 DEF TypeInv
<1>16. CallsInv'
  <2>1. \A p \in Thread : Busy(p) => writer[p] \notin closed'
    BY <1>1, <1>9, <1>14 DEF Good, CallsInv, Busy
  <2> QED
    BY <2>1, <1>1, <1>4, <1>5, <1>9, <1>14 DEF Good, CallsInv, calls
<1>17. FirstInv'
  <2>1. given \/ firstTimestamp # 0
    BY <1>9, <1>11 DEF Good, FirstInv
  <2> QED
    BY <2>1, <1>1, <1>9 DEF Good, FirstInv, calls, clock
<1>18. DriversInv' /\ TakenInv'
  BY <1>1, <1>9, <1>14 DEF Good, DriversInv, TakenInv, clock
<1>19. DurationsInv'
  <2>1. ASSUME NEW v \in Writer, NEW k \in 1..(Len(durations'[v]) - 1)
        PROVE  durations'[v][k] = taken[v][k + 1] - taken[v][k]
    <3>1. k \in 1..(Len(durations[v]) - 1)
      BY <1>4
    <3>2. durations'[v][k] = durations[v][k]
      BY <3>1, <1>15
    <3> QED
      BY <3>1, <3>2, <1>9 DEF Good, DurationsInv
  <2>2. \A v \in Writer \ closed' : v \in Writer \ closed /\ durations'[v] = durations[v]
    BY <1>14, <1>15
  <2>3. ASSUME NEW p \in Thread, pending[p] # NoAddress, pending[p].writer \notin closed'
        PROVE  /\ driver[pending[p].writer] = p
               /\ pending[p].index = Len(durations'[pending[p].writer])
    <3>1. pending[p].writer \in Writer /\ pending[p].writer \notin closed
      BY <2>3, <1>3, <1>14 DEF TypeInv, PendingIsStored
    <3> QED
      BY <3>1, <2>3, <1>4, <1>9 DEF Good, DurationsInv
  <2> QED
    BY <2>1, <2>2, <2>3, <1>1, <1>9 DEF Good, DurationsInv, clock
<1>20. PhaseInv'
  BY <1>1, <1>9, <1>14 DEF Good, PhaseInv, readers
<1>21. ReadersInv'
  <2>1. /\ printed' = <<>>
        /\ \A v \in Writer : position'[v] = 1 /\ referential_timestamp'[v] = 0
    BY <1>1, <1>9 DEF Good, PhaseInv, readers
  <2> QED
    BY <2>1, <1>6, <1>16, RecordingReaders
<1> QED
  BY <1>16, <1>17, <1>18, <1>19, <1>20, <1>21 DEF Good

\* What a step that only changes the phase keeps.
LEMMA PhaseStepKeeps ==
  ASSUME IInv, UNCHANGED <<given, clock, calls, pending, durations, closed, readers, history>>,
         Undisturbed /\ Good => PhaseInv',
         phase = "recording" => \A w \in Writer : taken[w] # <<>> => w \in closed
  PROVE  IInv'
<1>1. TypeInv /\ TypeInv'
  BY DEF IInv, TypeInv, PendingIsStored, Busy, clock, calls, readers, history
<1>2. SUFFICES ASSUME Undisturbed'
               PROVE  Good'
  BY <1>1 DEF IInv
<1>3. Undisturbed /\ Good
  BY <1>2 DEF IInv, Undisturbed, history
<1>4. \A p \in Thread : ~Busy(p) /\ ~(Busy(p)')
  <2>1. ASSUME NEW p \in Thread, Busy(p)
        PROVE  FALSE
    <3>1. /\ phase = "recording" /\ writer[p] \in Writer \ closed
          /\ Len(taken[writer[p]]) = Len(durations[writer[p]]) + 1
      BY <2>1, <1>3 DEF Good, CallsInv
    <3>2. durations[writer[p]] \in Seq(Timestamp)
      BY <3>1, <1>1 DEF TypeInv
    <3>3. taken[writer[p]] # <<>>
      BY <3>1, <3>2
    <3> QED
      BY <3>1, <3>3
  <2> QED
    BY <2>1 DEF Busy, calls
<1>5. CallsInv'
  BY <1>3, <1>4 DEF Good, CallsInv, calls, history
<1>6. FirstInv' /\ DriversInv' /\ TakenInv' /\ DurationsInv'
  BY <1>3 DEF Good, FirstInv, DriversInv, TakenInv, DurationsInv, clock, calls, history
<1>7. ReadersInv'
  BY <1>3 DEF Good, ReadersInv, Unfinished, SinceStart, TimeOf, readers, history
<1> QED
  BY <1>3, <1>5, <1>6, <1>7 DEF Good

\* Opening the trace keeps the invariant,
LEMMA OpenTraceKeeps ==
  ASSUME IInv, OpenTrace
  PROVE  IInv'
<1>1. Good => PhaseInv'
  BY DEF OpenTrace, PhaseInv, history
<1> QED
  BY <1>1, PhaseStepKeeps DEF OpenTrace

\* as do its end,
LEMMA EndOfTraceKeeps ==
  ASSUME IInv, EndOfTrace
  PROVE  IInv'
<1>1. Good => PhaseInv'
  BY DEF EndOfTrace, Good, PhaseInv, Unfinished, readers, history
<1> QED
  BY <1>1, PhaseStepKeeps DEF EndOfTrace

\* doing nothing,
LEMMA StutterKeeps ==
  ASSUME IInv, UNCHANGED vars
  PROVE  IInv'
<1>1. TypeInv /\ TypeInv'
  BY DEF IInv, TypeInv, PendingIsStored, Busy, vars, clock, calls, readers, history
<1>2. SUFFICES ASSUME Undisturbed'
               PROVE  Good'
  BY <1>1 DEF IInv
<1>3. Undisturbed /\ Good
  BY <1>2 DEF IInv, Undisturbed, vars, history
<1>4. CallsInv' /\ FirstInv'
  BY <1>3 DEF Good, CallsInv, FirstInv, Busy, vars, clock, calls, history
<1>5. DriversInv' /\ TakenInv' /\ DurationsInv' /\ PhaseInv'
  BY <1>3 DEF Good, DriversInv, TakenInv, DurationsInv, PhaseInv, Unfinished,
              vars, clock, readers, history
<1>6. ReadersInv'
  BY <1>3 DEF Good, ReadersInv, Unfinished, SinceStart, TimeOf, vars, readers, history
<1> QED
  BY <1>4, <1>5, <1>6 DEF Good


\* The time that a reader goes on to.
LEMMA NextTime ==
  ASSUME TypeInv, Good, NEW w \in Unfinished, position[w] + 1 <= Len(durations[w])
  PROVE  /\ (referential_timestamp[w] + durations[w][position[w]]) % TimestampLimit
              = taken[w][position[w] + 1] - taken[w][1]
         /\ referential_timestamp[w] <= taken[w][position[w] + 1] - taken[w][1]
<1> DEFINE k == position[w]
           t == taken[w][k]
           u == taken[w][k + 1]
           s == taken[w][1]
<1>1. /\ w \in Writer /\ k \in Nat \ {0} /\ Len(durations[w]) \in Nat
  BY DEF TypeInv, Unfinished
<1>2. /\ k \in 1..(Len(durations[w]) - 1)
      /\ k \in 1..Len(taken[w]) /\ k + 1 \in 1..Len(taken[w]) /\ 1 \in 1..Len(taken[w])
  BY <1>1, Lengths DEF Good
<1>3. t \in 1..MaxTime /\ u \in 1..MaxTime /\ s \in 1..MaxTime
  BY <1>1, <1>2, TimesAreTimes
<1>4. s <= t /\ t <= u
  <2>1. 1 <= k /\ k <= k + 1
    BY <1>1
  <2> QED
    BY <2>1, <1>1, <1>2 DEF Good, TakenInv
<1>5. durations[w][k] = u - t
  BY <1>1, <1>2 DEF Good, DurationsInv
<1>6. referential_timestamp[w] = t - s
  BY DEF Good, ReadersInv
<1> HIDE DEF k, t, u, s
<1>7. referential_timestamp[w] + durations[w][k] = u - s
  BY <1>3, <1>5, <1>6, LimitProperties
<1>8. u - s \in Timestamp /\ t - s <= u - s
  BY <1>3, <1>4, LimitProperties DEF Timestamp
<1>9. (u - s) % TimestampLimit = u - s
  BY <1>8, ModSmall
<1> QED
  BY <1>6, <1>7, <1>8, <1>9 DEF k, u, s

\* and printing the event that comes first.
LEMMA PrintNextKeeps ==
  ASSUME IInv, NEW w \in Writer, PrintNext(w)
  PROVE  IInv'
<1> DEFINE k == position[w]
           r == referential_timestamp[w]
           p == [writer |-> w, index |-> k, timestamp |-> r]
           n == Len(printed)
<1>1. /\ phase = "printing" /\ w \in Unfinished
      /\ \A v \in Unfinished : \/ r < referential_timestamp[v]
                               \/ r = referential_timestamp[v] /\ w <= v
      /\ printed' = Append(printed, p)
      /\ referential_timestamp' = [referential_timestamp EXCEPT
                                     ![w] = (@ + durations[w][k]) % TimestampLimit]
      /\ position' = [position EXCEPT ![w] = @ + 1]
      /\ UNCHANGED <<given, clock, calls, pending, durations, closed, phase, history>>
  BY DEF PrintNext, IsEarliestReader
<1>2. TypeInv
  BY DEF IInv
<1>3. /\ k \in Nat \ {0} /\ Len(durations[w]) \in Nat /\ k \in 1..Len(durations[w])
      /\ r \in Timestamp /\ durations[w][k] \in Timestamp /\ n \in Nat
  <2>1. k \in Nat \ {0} /\ durations[w] \in Seq(Timestamp) /\ r \in Timestamp /\ n \in Nat
    BY <1>2 DEF TypeInv
  <2>2. k <= Len(durations[w])
    BY <1>1 DEF Unfinished
  <2>3. k \in 1..Len(durations[w])
    BY <2>1, <2>2
  <2> QED
    BY <2>1, <2>3, ElementOfSeq
<1>4. TypeInv'
  <2>1. (r + durations[w][k]) % TimestampLimit \in Timestamp
    <3>1. r + durations[w][k] \in Int
      BY <1>3, LimitProperties DEF Timestamp
    <3> QED
      BY <3>1, ModRange
  <2>2. /\ referential_timestamp' \in [Writer -> Timestamp]
        /\ position' \in [Writer -> Nat \ {0}]
    BY <2>1, <1>1, <1>2, <1>3 DEF TypeInv
  <2>3. printed' \in Seq([writer : Writer, index : Nat \ {0}, timestamp : Timestamp])
    BY <1>1, <1>2, <1>3 DEF TypeInv
  <2> QED
    BY <2>2, <2>3, <1>1, <1>2 DEF TypeInv, PendingIsStored, Busy, clock, calls, history
<1>5. SUFFICES ASSUME Undisturbed'
               PROVE  Good'
  BY <1>4 DEF IInv
<1>6. Good
  BY <1>1, <1>5 DEF IInv, Undisturbed, history
<1>7. \A v \in Writer \ {w} : /\ position'[v] = position[v]
                              /\ referential_timestamp'[v] = referential_timestamp[v]
  BY <1>1, <1>2 DEF TypeInv
<1>8. /\ position'[w] = k + 1
      /\ referential_timestamp'[w] = (r + durations[w][k]) % TimestampLimit
  BY <1>1, <1>2 DEF TypeInv
<1>9. /\ Len(printed') = n + 1 /\ printed'[n + 1] = p
      /\ \A i \in 1..n : printed'[i] = printed[i]
      /\ \A i \in 1..(n + 1) : i = n + 1 \/ i \in 1..n
  BY <1>1, <1>2, <1>3 DEF TypeInv
<1>10. CallsInv' /\ FirstInv'
  BY <1>1, <1>6 DEF Good, CallsInv, FirstInv, Busy, clock, calls, history
<1>11. DriversInv' /\ TakenInv' /\ DurationsInv'
  BY <1>1, <1>6 DEF Good, DriversInv, TakenInv, DurationsInv, clock, history
<1>12. PhaseInv'
  BY <1>1, <1>6 DEF Good, PhaseInv, history
<1>13. \A v \in Unfinished' : v \in Unfinished
  <2> SUFFICES ASSUME NEW v \in Unfinished'
               PROVE  v \in Unfinished
    OBVIOUS
  <2>1. v \in Writer /\ position'[v] <= Len(durations[v])
    BY <1>1 DEF Unfinished
  <2>2. CASE v = w
    BY <2>2, <1>1
  <2>3. CASE v # w
    BY <2>1, <2>3, <1>7 DEF Unfinished
  <2> QED
    BY <2>2, <2>3
<1>14. ASSUME NEW v \in Unfinished'
       PROVE  /\ referential_timestamp'[v] = taken[v][position'[v]] - taken[v][1]
              /\ referential_timestamp[v] <= referential_timestamp'[v]
  <2>1. v \in Writer /\ v \in Unfinished
    BY <1>13 DEF Unfinished
  <2>2. CASE v = w
    <3>1. k + 1 <= Len(durations[w])
      BY <2>2, <1>1, <1>8 DEF Unfinished
    <3> QED
      BY <3>1, <2>2, <1>1, <1>2, <1>6, <1>8, NextTime
  <2>3. CASE v # w
    <3>1. referential_timestamp[v] \in Int
      BY <2>1, <1>2, LimitProperties DEF TypeInv, Timestamp
    <3> QED
      BY <3>1, <2>1, <2>3, <1>6, <1>7 DEF Good, ReadersInv
  <2> QED
    BY <2>2, <2>3
<1>15. ASSUME NEW v \in Unfinished'
       PROVE  /\ referential_timestamp[v] \in Int /\ referential_timestamp'[v] \in Int
              /\ r \in Int /\ r <= referential_timestamp[v]
  <2>1. v \in Writer /\ v \in Unfinished
    BY <1>13 DEF Unfinished
  <2>2. referential_timestamp[v] \in Int /\ referential_timestamp'[v] \in Int /\ r \in Int
    BY <2>1, <1>2, <1>3, <1>4, LimitProperties DEF TypeInv, Timestamp
  <2> QED
    BY <2>1, <2>2, <1>1
<1>16. ASSUME NEW i \in 1..n
       PROVE  /\ printed[i].writer \in Writer /\ printed[i].index \in Nat
              /\ printed[i].timestamp \in Int
              /\ printed[i].timestamp <= r
              /\ printed[i].index < position[printed[i].writer]
              /\ position[printed[i].writer] <= position'[printed[i].writer]
              /\ position'[printed[i].writer] \in Nat
              /\ position[printed[i].writer] \in Nat
  <2>1. printed[i] \in [writer : Writer, index : Nat \ {0}, timestamp : Timestamp]
    BY <1>2, ElementOfSeq DEF TypeInv
  <2>2. printed[i].writer \in Writer /\ printed[i].index \in Nat /\ printed[i].timestamp \in Int
    BY <2>1, LimitProperties DEF Timestamp
  <2>3. printed[i].timestamp <= r /\ printed[i].index < position[printed[i].writer]
    BY <1>1, <1>6 DEF Good, ReadersInv
  <2>4. \A v \in Writer : position[v] \in Nat /\ position'[v] \in Nat /\ position[v] <= position'[v]
    <3>1. \A v \in Writer : position[v] \in Nat /\ position'[v] \in Nat
      BY <1>2, <1>4 DEF TypeInv
    <3> QED
      BY <3>1, <1>7, <1>8
  <2> QED
    BY <2>2, <2>3, <2>4
<1>17. r = taken[w][k] - taken[w][1]
  BY <1>1, <1>6 DEF Good, ReadersInv
<1>18. ASSUME NEW i \in 1..(n + 1)
       PROVE  LET e == printed'[i]
              IN  /\ e.index < position'[e.writer]
                  /\ e.index <= Len(durations[e.writer])
                  /\ e.timestamp = taken[e.writer][e.index] - taken[e.writer][1]
                  /\ \A v \in Unfinished' : e.timestamp <= referential_timestamp'[v]
  <2>1. CASE i = n + 1
    <3>1. printed'[i] = p
      BY <2>1, <1>9
    <3>2. k < position'[w] /\ k <= Len(durations[w])
      BY <1>3, <1>8
    <3>3. \A v \in Unfinished' : r <= referential_timestamp'[v]
      BY <1>14, <1>15
    <3> QED
      BY <3>1, <3>2, <3>3, <1>17
  <2>2. CASE i \in 1..n
    <3>1. printed'[i] = printed[i]
      BY <2>2, <1>9
    <3>2. printed[i].index < position'[printed[i].writer]
      BY <2>2, <1>16
    <3>3. ASSUME NEW v \in Unfinished'
          PROVE  printed[i].timestamp <= referential_timestamp'[v]
      <4>1. printed[i].timestamp \in Int /\ printed[i].timestamp <= r
        BY <2>2, <1>16
      <4>2. r <= referential_timestamp[v] /\ referential_timestamp[v] <= referential_timestamp'[v]
        BY <3>3, <1>14, <1>15
      <4>3. /\ r \in Int /\ referential_timestamp[v] \in Int
            /\ referential_timestamp'[v] \in Int
        BY <3>3, <1>15
      <4> QED
        BY <4>1, <4>2, <4>3
    <3> QED
      BY <2>2, <3>1, <3>2, <3>3, <1>6 DEF Good, ReadersInv, SinceStart, TimeOf
  <2> QED
    BY <2>1, <2>2, <1>9
<1>19. ASSUME NEW i \in 1..(n + 1), NEW j \in 1..(n + 1), i < j
       PROVE  /\ printed'[i].timestamp <= printed'[j].timestamp
              /\ printed'[i].writer = printed'[j].writer => printed'[i].index < printed'[j].index
  <2>1. i \in 1..n /\ printed'[i] = printed[i]
    BY <1>3, <1>9, <1>19
  <2>2. CASE j = n + 1
    BY <2>1, <2>2, <1>9, <1>16
  <2>3. CASE j \in 1..n
    BY <2>1, <2>3, <1>6, <1>9, <1>19 DEF Good, ReadersInv
  <2> QED
    BY <2>2, <2>3, <1>9
<1>20. ASSUME NEW v \in Writer, NEW m \in 1..(position'[v] - 1)
       PROVE  \E i \in 1..(n + 1) : printed'[i].writer = v /\ printed'[i].index = m
  <2>1. CASE v = w /\ m = k
    <3>1. n + 1 \in 1..(n + 1) /\ printed'[n + 1] = p
      BY <1>3, <1>9
    <3> QED
      BY <3>1, <2>1
  <2>2. CASE ~(v = w /\ m = k)
    <3>1. m \in 1..(position[v] - 1)
      BY <2>2, <1>3, <1>7, <1>8
    <3>2. PICK i \in 1..n : printed[i].writer = v /\ printed[i].index = m
      BY <3>1, <1>6 DEF Good, ReadersInv
    <3> QED
      BY <3>2, <1>3, <1>9
  <2> QED
    BY <2>1, <2>2
<1>21. ReadersInv'
  <2>1. durations' = durations /\ taken' = taken
    BY <1>1 DEF history
  <2> QED
    BY <2>1, <1>9, <1>14, <1>18, <1>19, <1>20 DEF ReadersInv, SinceStart, TimeOf
<1> QED
  BY <1>10, <1>11, <1>12, <1>21 DEF Good

-----------------------------------------------------------------------------
(* The theorems *)

\* The invariant holds in every state that the program and printTrace can reach.
THEOREM Invariant == Spec => []IInv
<1>1. Init => IInv
  BY InitIInv
<1>2. IInv /\ [Next]_vars => IInv'
  <2> SUFFICES ASSUME IInv, [Next]_vars PROVE IInv'
    OBVIOUS
  <2>1. ASSUME NEW o \in Thread, Record(o) PROVE IInv'
    BY <2>1, RecordGivenKeeps, ReadClockKeeps, TestFirstKeeps, SetFirstKeeps,
       SubtractFirstKeeps, CloseWriterKeeps DEF Record
  <2>2. ASSUME NEW w \in Writer, PrintNext(w) PROVE IInv'
    BY <2>2, PrintNextKeeps
  <2> QED
    BY <2>1, <2>2, OpenTraceKeeps, EndOfTraceKeeps, StutterKeeps DEF Next
<1> QED
  BY <1>1, <1>2, PTL DEF Spec

\* If one thread sets firstTimestamp and each thread keeps to a writer of its own
\* until it closes it, then every event is printed once, with the time since the
\* first event of its writer, in the order of these times, though timestamps wrap
\* around, and threadClose never reads an empty timestampsToDelta.
THEOREM TimesSurvive == Spec => []MergedSinceStart
<1>1. IInv => MergedSinceStart
  <2> SUFFICES ASSUME IInv, Undisturbed
               PROVE  /\ phase # "undefined"
                      /\ \A i \in DOMAIN printed : printed[i].timestamp = SinceStart(printed[i])
                      /\ \A i, j \in DOMAIN printed : i < j =>
                           /\ SinceStart(printed[i]) <= SinceStart(printed[j])
                           /\ printed[i].writer = printed[j].writer =>
                                printed[i].index < printed[j].index
                      /\ phase = "done" =>
                           \A w \in Writer : \A k \in DOMAIN taken[w] :
                             \E i \in DOMAIN printed :
                               printed[i].writer = w /\ printed[i].index = k
    BY DEF MergedSinceStart
  <2>1. TypeInv /\ Good
    BY DEF IInv
  <2>2. DOMAIN printed = 1..Len(printed)
    BY <2>1 DEF TypeInv
  <2>3. phase # "undefined"
    BY <2>1 DEF Good, PhaseInv
  <2>4. \A i \in 1..Len(printed) : printed[i].timestamp = SinceStart(printed[i])
    BY <2>1 DEF Good, ReadersInv
  <2>5. \A i, j \in 1..Len(printed) : i < j =>
          /\ printed[i].timestamp <= printed[j].timestamp
          /\ printed[i].writer = printed[j].writer => printed[i].index < printed[j].index
    BY <2>1 DEF Good, ReadersInv
  <2>6. ASSUME phase = "done", NEW w \in Writer, NEW k \in DOMAIN taken[w]
        PROVE  \E i \in 1..Len(printed) : printed[i].writer = w /\ printed[i].index = k
    <3>1. Len(taken[w]) = Len(durations[w])
      BY <2>1, <2>6 DEF Good, CallsInv
    <3>2. /\ k \in 1..Len(durations[w]) /\ Len(durations[w]) \in Nat
          /\ position[w] \in Nat
      BY <2>1, <2>6, <3>1 DEF TypeInv
    <3>3. ~(position[w] <= Len(durations[w]))
      BY <2>1, <2>6 DEF Good, PhaseInv, Unfinished
    <3>4. k \in 1..(position[w] - 1)
      BY <3>2, <3>3
    <3> QED
      BY <3>4, <2>1 DEF Good, ReadersInv
  <2> QED
    BY <2>2, <2>3, <2>4, <2>5, <2>6
<1> QED
  BY <1>1, Invariant, PTL
=============================================================================
