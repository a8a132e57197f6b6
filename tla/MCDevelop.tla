----------------------------- MODULE MCDevelop -----------------------------
(***************************************************************************)
(* Instances of Develop: one with every user operation and images that may *)
(* be unreadable, and one for the liveness of the jobs under zooms,        *)
(* resizes and changes of the image.                                       *)
(***************************************************************************)
EXTENDS Develop

============================================================================
