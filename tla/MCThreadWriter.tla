--------------------------- MODULE MCThreadWriter ---------------------------
(***************************************************************************)
(* ThreadWriter for TLC: at most MaxEvents events are recorded.            *)
(***************************************************************************)
EXTENDS UnfoldedTrace

CONSTANT MaxEvents

Recorded == FoldLeft(LAMBDA n, s : n + s.nb_occurences, 0, events)

MCNext == (Recorded < MaxEvents /\ Record) \/ Close

MCSpec == Init /\ [][MCNext]_vars

MCFairSpec == MCSpec /\ FairClose
=============================================================================
