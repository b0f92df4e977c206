---------------------------- MODULE StoredThread ----------------------------
(***************************************************************************)
(* A thread as _htf_store_thread (src/htf_storage.cpp) leaves it in the    *)
(* archive, where the programs that read a trace find it.                  *)
(***************************************************************************)
EXTENDS ThreadTrace

VARIABLE archive   \* the threads stored, and that can be opened

\* tokens is its main sequence, which the code numbers 0;
\* nb_occurences counts the durations of each event and nb_durations those of
\* each sequence.
Thread ==
  [sequences     : Seq(Seq(Token)),
   loops         : Seq(Loop),
   tokens        : Seq(Token),
   nb_occurences : Seq(Nat),
   nb_durations  : Seq(Nat)]

-----------------------------------------------------------------------------
(* What the reader relies on and never checks *)

RefersBelowIn(t, token, n) ==
  \/ token.type = "Event" /\ token.id \in DOMAIN t.nb_occurences
  \/ token.type = "Sequence" /\ token.id \in DOMAIN t.sequences /\ token.id < n
  \/ /\ token.type = "Loop"
     /\ token.id \in DOMAIN t.loops
     /\ t.loops[token.id].repeated_token.id < n

\* The thread is typed, its references go down, and no sequence is empty.
IsWellFormed(t) ==
  /\ t \in Thread
  /\ DOMAIN t.nb_durations = DOMAIN t.sequences
  /\ \A l \in DOMAIN t.loops :
       /\ t.loops[l].repeated_token.type = "Sequence"
       /\ t.loops[l].repeated_token.id \in DOMAIN t.sequences
       /\ t.loops[l].nb_iterations # <<>>
  /\ \A n \in DOMAIN t.sequences :
       /\ t.sequences[n] # <<>>
       /\ \A k \in DOMAIN t.sequences[n] : RefersBelowIn(t, t.sequences[n][k], n)
  /\ t.tokens # <<>>
  /\ \A k \in DOMAIN t.tokens : RefersBelowIn(t, t.tokens[k], Len(t.sequences) + 1)

\* Every thread that a writer leaves in the archive is what the reader relies on:
\* its references go down and no sequence is empty.
StoredThreadsAreWellFormed == \A t \in archive : IsWellFormed(t)
=============================================================================
