------------------------------ MODULE EventLog ------------------------------
(***************************************************************************)
(* What a thread writer promises: the trace of a thread is the list of the *)
(* events it was given, in order and each as often as it was given, and it *)
(* knows which blocks are open.                                            *)
(***************************************************************************)
EXTENDS SequencesExt

CONSTANTS BlockStart, BlockEnd, Singleton

VARIABLES
  log,         \* every event recorded
  callstack,   \* the begin events of the blocks that are open
  phase        \* "recording", "unwinding" or "over"

vars == <<log, callstack, phase>>

Init ==
  /\ log = <<>>
  /\ callstack = <<>>
  /\ phase = "recording"

Begin(e) ==
  /\ phase = "recording"
  /\ log' = Append(log, e)
  /\ callstack' = Append(callstack, e)
  /\ UNCHANGED phase

Happen(e) ==
  /\ phase = "recording"
  /\ log' = Append(log, e)
  /\ UNCHANGED <<callstack, phase>>

End(e) ==
  /\ phase = "recording"
  /\ callstack # <<>>
  /\ log' = Append(log, e)
  /\ callstack' = Front(callstack)
  /\ UNCHANGED phase

\* The thread is closed, or dies.
Stop ==
  /\ phase = "recording"
  /\ phase' \in {"unwinding", "over"}
  /\ UNCHANGED <<log, callstack>>

\* The innermost block still open is closed, without an event.
Unwind ==
  /\ phase = "unwinding"
  /\ callstack # <<>>
  /\ callstack' = Front(callstack)
  /\ UNCHANGED <<log, phase>>

Finish ==
  /\ phase = "unwinding"
  /\ callstack = <<>>
  /\ phase' = "over"
  /\ UNCHANGED <<log, callstack>>

Next ==
  \/ \E e \in BlockStart : Begin(e)
  \/ \E e \in Singleton : Happen(e)
  \/ \E e \in BlockEnd : End(e)
  \/ Stop
  \/ Unwind
  \/ Finish

Spec == Init /\ [][Next]_vars
=============================================================================
