--------------------------- MODULE MCFilterWriter ---------------------------
(***************************************************************************)
(* ThreadWriter with the filtered search, for TLC.  The thread first       *)
(* repeats a pattern of eight events, which contains a loop of two         *)
(* of them, and then records anything.                                     *)
(***************************************************************************)
EXTENDS MCThreadWriter

CONSTANTS a, b, c

Pattern == <<c, a, b, a, b, b, a, b>>

Warmup == Pattern \o Pattern

\* The search after the event e fails an assertion: the call does not return.
SearchAborts(e) ==
  FilterAborts([GrammarAt(cur_depth) EXCEPT !.tokens = Append(@, EventToken(EventIdOf(e)))])

\* After the warm-up any event may come.
FilterNext ==
  /\ Recorded < MaxEvents
  /\ \E e \in Singleton :
       /\ Recorded < Len(Warmup) => e = Warmup[Recorded + 1]
       /\ ~SearchAborts(e)
       /\ RecordSingleton(e)

FilterSpec == Init /\ [][FilterNext]_vars
=============================================================================
