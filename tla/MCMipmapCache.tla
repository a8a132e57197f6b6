--------------------------- MODULE MCMipmapCache ---------------------------
(* Small instances of MipmapCache: a finite number of operations. *)
EXTENDS MipmapCache

CONSTANT MaxOps  \* bound: the operations that are started
VARIABLE ops

MCKeys == Images \X Mips

MCInit == MInit /\ ops = 0

Starts(t) ==
  /\ ops < MaxOps /\ Start(t)
  /\ ops' = ops + 1

Continues(t) == Continue(t) /\ UNCHANGED ops

(* Nothing happens: every thread is at rest or spins in dt_cache_get or     *)
(* dt_cache_remove, which sleep and start over until they get the lock.    *)
Done ==
  /\ \A t \in Threads : (mpc[t] = "free" /\ pc[t] = "idle") \/ pc[t] \in {"get", "remove"}
  /\ UNCHANGED <<mvars, ops>>

MCNext == (\E t \in Threads : Starts(t) \/ Continues(t)) \/ Done

MCSpec == MCInit /\ [][MCNext]_<<mvars, ops>>

(* Every thread that is inside an operation goes on with it. *)
LiveSpec == MCSpec /\ \A t \in Threads : WF_<<mvars, ops>>(Continues(t))

(* Every mipmap operation ends: no thread spins for ever on an entry lock  *)
(* or on _lock_demoting in dt_cache_get or dt_cache_remove.                *)
OperationsEnd == \A t \in Threads : mpc[t] # "free" ~> mpc[t] = "free"
=============================================================================
