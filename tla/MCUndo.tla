------------------------------- MODULE MCUndo -------------------------------
(***************************************************************************)
(* An instance of SerialUndo with two scenarios.  In the first the GUI     *)
(* thread is alone and does everything; in the second a worker records,    *)
(* too, and there is one type of change and no nesting.                    *)
(***************************************************************************)
EXTENDS SerialUndo

CONSTANT WorkerType  \* the type of the changes in the second scenario

VARIABLE alone  \* which scenario it is

MCInit ==
  RInit /\ value = [type \in Types |-> CHOOSE v \in Values : TRUE] /\ alone \in BOOLEAN

(* Only the worker stays out of the first scenario.  In the second one the *)
(* values do not matter, and time passes once.                             *)
InScenario ==
  IF alone THEN \A t \in Threads \ {Gui} : pc'[t] = "idle"
  ELSE /\ now' <= 1 /\ UNCHANGED value /\ \A t \in Threads : depth'[t] <= 1
       /\ \A t \in Threads : loc'[t].item.type \in {WorkerType, None}
       /\ pc'[Gui] # "clear"

MCNext == RNext /\ InScenario /\ UNCHANGED alone
MCSpec == MCInit /\ [][MCNext]_<<vars, alone, raced>>
=============================================================================
