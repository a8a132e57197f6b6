----------------------------- MODULE MCLibrary -----------------------------
(***************************************************************************)
(* An instance of Library with three imported images.                      *)
(***************************************************************************)
EXTENDS Library
============================================================================
