--------------------------- MODULE MCTimedWriter ---------------------------
(***************************************************************************)
(* TimedWriter for TLC: at most MaxEvents events are recorded, and at most *)
(* MaxStandstills of them at the time of the event before.                 *)
(***************************************************************************)
EXTENDS SequenceTimes

CONSTANTS MaxEvents, MaxStandstills

Standstills(times) ==
  {p \in 2..Len(times) : times[p] = times[p - 1]}

MCTimedNext ==
  /\ ~ledger.failed /\ ~ledger.crashed
  /\ \/ /\ Len(stamps) < MaxEvents
        /\ TimedRecord
        /\ Cardinality(Standstills(stamps')) <= MaxStandstills
     \/ TimedClose
     \/ TimedUnfinished
     \/ TimedFinalize

\* Nothing tells two events of a kind apart but their places in the trace.
SingletonSymmetry == Permutations(Singleton)

MCTimedSpec == TimedInit /\ [][MCTimedNext]_timedVars
=============================================================================
