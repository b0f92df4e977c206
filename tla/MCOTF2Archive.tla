--------------------------- MODULE MCOTF2Archive ---------------------------
(***************************************************************************)
(* OTF2Archive on small instances: the threads make at most MaxCalls calls *)
(* of GetEvtWriter and GetDefWriter between them.                          *)
(***************************************************************************)
EXTENDS OTF2Archive, FiniteSets, FiniteSetsExt

CONSTANT MaxCalls

\* The calls a thread has made, with the one it is in.
Calls(p) ==
  Cardinality(handles[p]) + (IF pc[p] \in {"idle"} \cup Defining THEN 0 ELSE 1)

CallsMade == MapThenSumSet(Calls, Process)

MCNext ==
  /\ Next
  /\ (\E p \in Process : pc[p] = "idle" /\ pc'[p] = "lock") => CallsMade < MaxCalls

MCSpec == Init /\ [][MCNext]_vars
MCFairSpec == MCSpec /\ \A p \in Process : WF_vars(CallStep(p))
=============================================================================
