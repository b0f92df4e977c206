----------------------------- MODULE Durations -----------------------------
(***************************************************************************)
(* How a thread writer measures time (src/htf_timestamp.cpp and            *)
(* getSequenceDuration of src/htf_write.cpp), as functions of a ledger:    *)
(*   events     the durations of each event of the thread                  *)
(*   sequences  the durations of each of its sequences                     *)
(*   pending    timestampsToDelta, the addresses of the durations that the *)
(*              next timestamp completes: a table, an id, and an index     *)
(*   failed     a lookup went past a vector, and htf_error aborts          *)
(*   crashed    a table grew, and the program crashes                      *)
(*                                                                         *)
(* A duration that is pending is a timestamp, or a sum with a timestamp in *)
(* it.  Durations are 64 bit unsigned numbers that are only ever added and *)
(* subtracted, so integers stand for them.                                 *)
(***************************************************************************)
EXTENDS ThreadTrace, SequencesExt

CONSTANTS NbEventDefault, NbLoopDefault   \* the sizes of the tables of a new thread

\* What the list may hold when a writer starts: an address in a writer that the
\* same OS thread has closed, whose last timestamp htf_finish_timestamp zeroed.
Earlier == [table |-> "earlier", id |-> 0, index |-> 0]

-----------------------------------------------------------------------------
(* The vectors of durations *)

\* durations->add: an event or a sequence that is new comes with its vector.
Extended(vectors, id, value) ==
  IF id \in DOMAIN vectors
  THEN [vectors EXCEPT ![id] = Append(@, value)]
  ELSE Append(vectors, <<value>>)

\* getEventId doubles the table of events when it is full, and htf_realloc fills
\* the new half with zeros: an event in it has a null pointer for a vector.
AddEventDuration(w, id, value) ==
  [w EXCEPT !.events = Extended(@, id, value),
            !.crashed = @ \/ id > NbEventDefault]

AddSequenceDuration(w, id, value) == [w EXCEPT !.sequences = Extended(@, id, value)]

ValueAt(w, a) ==
  CASE a.table = "events"    -> w.events[a.id][a.index]
    [] a.table = "sequences" -> w.sequences[a.id][a.index]
    [] OTHER                 -> 0

Assign(w, a, value) ==
  CASE a.table = "events"    -> [w EXCEPT !.events[a.id][a.index] = value]
    [] a.table = "sequences" -> [w EXCEPT !.sequences[a.id][a.index] = value]
    [] OTHER                 -> w

LastEvent(w, id) == [table |-> "events", id |-> id, index |-> Len(w.events[id])]
LastSequence(w, id) == [table |-> "sequences", id |-> id, index |-> Len(w.sequences[id])]

-----------------------------------------------------------------------------
(* timestampsToDelta *)

\* Mutation of DeltaTimestamp: the completed durations stay in the list.
DeltaKeepsPending(w, t, a) == [w EXCEPT !.pending = Append(@, a)]

\* Mutation of CompletePending: the first timestamp stays in the later durations.
CompleteOnlyFirst(w, t) ==
  Assign(w, Head(w.pending), t - ValueAt(w, Head(w.pending)))

\* The pass over the pending durations.  The first is a timestamp; once it is a
\* duration, the others exchange the one for the other.  taken = 0 means that
\* none was completed yet.
CompletePending(w, t) ==
  LET start == ValueAt(w, Head(w.pending))
      complete(p, a) ==
        IF p.taken = 0
        THEN LET d == t - ValueAt(p.ledger, a)
             IN  [ledger |-> Assign(p.ledger, a, d), taken |-> d]
        ELSE [p EXCEPT !.ledger = Assign(@, a, ValueAt(@, a) + p.taken - start)]
  IN  FoldLeft(complete, [ledger |-> w, taken |-> 0], w.pending).ledger

\* htf_delta_timestamp on the address a, which holds t.
DeltaTimestamp(w, t, a) ==
  IF w.pending = <<>> THEN [w EXCEPT !.pending = <<a>>]
  ELSE [CompletePending(w, t) EXCEPT !.pending = <<a>>]

\* htf_add_timestamp_to_delta, on the duration just added to a sequence.
AddTimestampToDelta(w, id) == [w EXCEPT !.pending = Append(@, LastSequence(w, id))]

\* htf_finish_timestamp: the list is not cleared.
FinishTimestamp(w) == Assign(w, Head(w.pending), 0)

\* Mutation of StoreTimestamp: the duration is not made pending.
StoreUnfinished(w, id, ts) == AddEventDuration(w, id, ts)

\* storeTimestamp
StoreTimestamp(w, id, ts) ==
  LET added == AddEventDuration(w, id, ts)
  IN  DeltaTimestamp(added, ts, LastEvent(added, id))

-----------------------------------------------------------------------------
(* getTokenCount and getSequenceDuration *)

\* A TokenCountMap; a token that it does not hold counts 0.
Tokens(g) ==
  {EventToken(i) : i \in {t.id : t \in UNION {Range(s) : s \in Range(g.sequences) \cup {g.tokens}}}} \cup
  {SequenceToken(n) : n \in DOMAIN g.sequences} \cup
  {LoopToken(l) : l \in DOMAIN g.loops}

PlusCounts(c, d) == [token \in DOMAIN c |-> c[token] + d[token]]

\* Mutation of TimesCounts: the product its comment describes.
ProductOfCounts(c, n) == [token \in DOMAIN c |-> c[token] * n]

\* TokenCountMap::operator* walks the new, empty map, so it returns no counts.
TimesCounts(c, n) == [token \in DOMAIN c |-> 0]

OneToken(g, token) == [x \in Tokens(g) |-> IF x = token THEN 1 ELSE 0]

LastIterationsOf(g, l, back) ==
  LET counts == g.loops[l].nb_iterations
  IN  IF back \in 1..Len(counts) THEN counts[Len(counts) + 1 - back] ELSE 0

\* Sequence::getTokenCount, of every sequence.  The code keeps the first answer;
\* it would be the same later, as the product drops the iteration counts.
TokenCounts(g) ==
  LET count[n \in DOMAIN g.sequences] ==
        LET add(c, token) ==
              LET seen == PlusCounts(c, OneToken(g, token))
              IN  CASE token.type = "Sequence" -> PlusCounts(seen, count[token.id])
                    [] token.type = "Loop" ->
                         PlusCounts(seen,
                           TimesCounts(count[g.loops[token.id].repeated_token.id],
                                       LastIterationsOf(g, token.id, seen[token])))
                    [] OTHER -> seen
        IN  FoldLeft(add, [x \in Tokens(g) |-> 0], Reverse(g.sequences[n]))
  IN  count

\* durations->at(durations->size - back), added to a sum.  A lookup that is out
\* of the vector is an error.
AddFromEnd(p, vectors, id, back) ==
  IF id \in DOMAIN vectors /\ back \in 1..Len(vectors[id])
  THEN [p EXCEPT !.sum = @ + vectors[id][Len(vectors[id]) + 1 - back]]
  ELSE [p EXCEPT !.failed = TRUE]

\* getSequenceDuration: each token of the array, first to last, takes the last
\* duration of its own that none has taken.
SequenceDuration(w, g, array) ==
  LET counts == TokenCounts(g)
      seen(p, token) == [p EXCEPT !.count = PlusCounts(@, OneToken(g, token))]
      addEvent(p, token) == AddFromEnd(p, w.events, token.id, p.count[token])
      addSequence(p, token) ==
        LET q == AddFromEnd(p, w.sequences, token.id, p.count[token])
        IN  [q EXCEPT !.count = PlusCounts(@, counts[token.id])]
      addLoop(p, token) ==
        LET body == g.loops[token.id].repeated_token
            n    == LastIterationsOf(g, token.id, p.count[token])
            iterate(q, j) ==
              AddFromEnd(seen(q, body), w.sequences, body.id, q.count[body] + 1)
            q    == FoldLeft(iterate, p, [j \in 1..n |-> j])
        IN  [q EXCEPT !.count = PlusCounts(@, TimesCounts(counts[body.id], n)),
                      !.failed = @ \/ p.count[token] > Len(g.loops[token.id].nb_iterations)]
      add(p, token) ==
        CASE token.type = "Event"    -> addEvent(seen(p, token), token)
          [] token.type = "Sequence" -> addSequence(seen(p, token), token)
          [] token.type = "Loop"     -> addLoop(seen(p, token), token)
          [] OTHER                   -> [p EXCEPT !.failed = TRUE]
  IN  FoldLeft(add, [sum |-> 0, count |-> [x \in Tokens(g) |-> 0], failed |-> w.failed], array)

\* Mutation of MeasureAgain: the duration is added twice.
MeasureTwice(w, g, id, array) ==
  LET d == SequenceDuration(w, g, array)
      v == AddSequenceDuration(AddSequenceDuration(w, id, d.sum), id, d.sum)
  IN  [AddTimestampToDelta(v, id) EXCEPT !.failed = d.failed]

\* One more duration of sequence id, that of the array, to be completed later.
MeasureAgain(w, g, id, array) ==
  LET d == SequenceDuration(w, g, array)
      v == AddSequenceDuration(w, id, d.sum)
  IN  [AddTimestampToDelta(v, id) EXCEPT !.failed = d.failed]
=============================================================================
