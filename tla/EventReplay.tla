---------------------------- MODULE EventReplay ----------------------------
(***************************************************************************)
(* What reading a trace back promises: first events are recorded, then the *)
(* same events come back, in the same order, all of them, unless the       *)
(* replay is lost on the way.                                              *)
(***************************************************************************)
EXTENDS Naturals, Sequences

CONSTANT Event

VARIABLES log, replayed, phase

vars == <<log, replayed, phase>>

Init ==
  /\ log = <<>>
  /\ replayed = <<>>
  /\ phase = "recording"

Record(e) ==
  /\ phase = "recording"
  /\ log' = Append(log, e)
  /\ UNCHANGED <<replayed, phase>>

Rewind ==
  /\ phase = "recording"
  /\ phase' = "replaying"
  /\ UNCHANGED <<log, replayed>>

Replay ==
  /\ phase = "replaying"
  /\ Len(replayed) < Len(log)
  /\ replayed' = Append(replayed, log[Len(replayed) + 1])
  /\ UNCHANGED <<log, phase>>

Lose ==
  /\ phase = "replaying"
  /\ phase' = "lost"
  /\ UNCHANGED <<log, replayed>>

Next == (\E e \in Event : Record(e)) \/ Rewind \/ Replay \/ Lose

Spec == Init /\ [][Next]_vars

FairSpec == Spec /\ WF_vars(Replay)
=============================================================================
