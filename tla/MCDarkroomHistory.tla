------------------------- MODULE MCDarkroomHistory -------------------------
(***************************************************************************)
(* Instances of DarkroomHistory: a module of each kind (always on, on by   *)
(* default, off by default) and a preset for the last of them.             *)
(***************************************************************************)
EXTENDS DarkroomHistory

CONSTANTS rawprepare, sharpen, exposure

MCModules == {rawprepare, sharpen, exposure}
MCAlwaysOn == {rawprepare}
MCAutoOn == {sharpen}

(* The instance with an export does without the module that is on by       *)
(* default.                                                                *)
MCFewModules == {rawprepare, exposure}
MCNone == {}

MCPresets == <<[m |-> exposure, p |-> 1, en |-> TRUE]>>
=============================================================================
