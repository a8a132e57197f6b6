----------------------------- MODULE SerialUndo -----------------------------
(***************************************************************************)
(* The undo module of Undo.tla when it is called the way it is meant to    *)
(* be: the calls of the threads follow one another, and nothing is undone  *)
(* while a group is open.  Nothing in src/common/undo.c enforces that; a   *)
(* history variable remembers whether it has held so far.                  *)
(***************************************************************************)
EXTENDS Undo

(* The calls of the threads follow one another. *)
Serial == \A t, u \in Threads : pc[t] # "idle" /\ pc[u] # "idle" => t = u
SerialSpec == UInit /\ [][UNext /\ Serial']_vars

VARIABLE raced  \* two threads have been in the undo module at a time, or
                \* something was undone while a group was open

Races ==
  \/ \E t, u \in Threads : t # u /\ pc[t] # "idle" /\ pc[u] # "idle"
  \/ pc[Gui] \in {"undo", "redo", "clear"} /\ \E t \in Threads : depth[t] > 0

RInit == UInit /\ raced = FALSE
RNext == UNext /\ raced' = (raced \/ Races')
RSpec == RInit /\ [][RNext]_<<vars, raced>>

(* As long as the calls of the threads follow one another, and nothing is   *)
(* undone while a group is open, groups stay whole ("create a group of item *)
(* to be handled together"), also one that a thread opens inside the group  *)
(* of another thread and closes after it.                                   *)
SerialGroupsPaired == ~raced => GroupsPaired
=============================================================================
