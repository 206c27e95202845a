--------------------------- MODULE IndexAbstract ---------------------------
(***************************************************************************)
(* What building an index promises, without tree, threads or locks: every  *)
(* series of the database enters the index, one at a time and never to     *)
(* leave it, unless the program gives up because a leaf cannot be split.   *)
(* index_engine.c's buildIndex (IndexBuild here) implements this.          *)
(***************************************************************************)
EXTENDS Integers

CONSTANT Series         \* the identifiers 0 .. database_size-1

VARIABLES indexed,      \* the series the index holds
          failed        \* exit(EXIT_FAILURE) was called

vars == <<indexed, failed>>

Init == indexed = {} /\ failed = FALSE

Insert(i) ==
  /\ ~failed
  /\ i \notin indexed
  /\ indexed' = indexed \cup {i}
  /\ UNCHANGED failed

\* The program only gives up on behalf of a series that it could not place.
GiveUp ==
  /\ ~failed
  /\ indexed # Series
  /\ failed' = TRUE
  /\ UNCHANGED indexed

Next == GiveUp \/ \E i \in Series : Insert(i)

Spec == Init /\ [][Next]_vars /\ WF_vars(Next)
=============================================================================
