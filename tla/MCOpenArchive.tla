--------------------------- MODULE MCOpenArchive ---------------------------
(***************************************************************************)
(* OpenArchive for the traces of up to two threads and two location groups *)
(* that the programs write: the global definition writer gives the main    *)
(* archive the locations (write_benchmark, OTF2_GlobalDefWriter), or the   *)
(* archive of each group has its own (mpi_benchmark, OTF2_DefWriter), with *)
(* its group (pthread_tracer).                                             *)
(***************************************************************************)
EXTENDS OpenArchive

\* The archive that each thread belongs to, if its file is there.
ThreadFiles == [1..2 -> {"a", "b", Missing}]

\* The locations of an archive: none, or those that it is for, in order.
Own(files, g, own) == IF own THEN SelectSeq(<<1, 2>>, LAMBDA t : files[t] = g) ELSE <<>>

\* The file of an archive: "b" may be missing, or be looked up by another name.
ArchiveOf(files, main, groups, own, b) ==
  [g \in {Main, "a", "b"} |->
     CASE g = Main -> [locations |-> main, groups |-> groups]
       [] g = "b" /\ ~b -> Missing
       [] OTHER -> [locations |-> Own(files, g, own), groups |-> IF own THEN <<g>> ELSE <<>>]]

TraceOf(files, main, groups, own, b, max) ==
  [threads |-> files, archives |-> ArchiveOf(files, main, groups, own, b), max_occurences |-> max]

\* One trace has up to three occurrences; the others have one.
MCLayout ==
  {TraceOf([t \in 1..2 |-> "a"], <<1, 2>>, <<"a">>, FALSE, FALSE, 3)} \cup
  {TraceOf(files, main, groups, own, b, 1) :
     files \in ThreadFiles, main \in {<<>>, <<1, 2>>},
     groups \in {<<"a">>, <<"a", "b">>}, own \in BOOLEAN, b \in BOOLEAN}
=============================================================================
