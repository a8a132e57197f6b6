--------------------------- MODULE MCControlJobs ---------------------------
(***************************************************************************)
(* Instances of ControlJobs.  Every one of them is finite by the number of *)
(* job addresses and the width of a priority; clients call for ever.       *)
(***************************************************************************)
EXTENDS ControlJobs, TLC

CONSTANTS
  CanQuit  \* does the program end in this instance

Symmetry == Permutations(Jobs) \cup Permutations(Workers) \cup Permutations(Kinds)

MCNext ==
  \/ \E w \in Workers : WorkerStep(w)
  \/ \E r \in Reserved : ReservedStep(r)
  \/ \E c \in Clients : ClientStep(c) \/ ClientCall(c)
  \/ KickerStep
  \/ \E j \in Jobs : Cancel(j)
  \/ CanQuit /\ (Quit \/ Shutdown)

MCSpec == JInit /\ [][MCNext]_vars

(* Every thread of the program keeps running: a worker, the kicker, a      *)
(* client inside a call and the thread that shuts down are never suspended *)
(* for ever, and job->execute() returns.  Nobody has to call.              *)
Fairness ==
  /\ \A w \in Workers : WF_vars(WorkerStep(w))
  /\ \A r \in Reserved : WF_vars(ReservedStep(r))
  /\ \A c \in Clients : WF_vars(ClientStep(c))
  /\ WF_vars(KickerStep)
  /\ WF_vars(CanQuit /\ Shutdown)

LiveSpec == MCSpec /\ Fairness

(* Every job of a FIFO queue is taken by a worker some day, however many   *)
(* jobs of a higher priority keep coming, or the program ends: heads that  *)
(* lose a round gain priority, and the kicker makes up for the wakeup a    *)
(* worker misses between its look at the queues and its sleep.             *)
FifoServed ==
  \A j \in Jobs, q \in Used \ {SYSTEM_FG} :
    (\E i \in 1 .. Len(queues[q]) : queues[q][i] = j)
      ~> ~running \/ ~(\E i \in 1 .. Len(queues[q]) : queues[q][i] = j)

(* A reserved worker takes the job in its slot some day, or the program    *)
(* ends.                                                                   *)
ReservedServed ==
  \A r \in Reserved : new_res[r] ~> ~running \/ ~new_res[r]

(* After dt_control_shutdown() the system comes to rest: running jobs end,  *)
(* the kicker ends, no worker takes another job, and each of them has ended *)
(* or is asleep.                                                            *)
QuitSettles ==
  (spc = "join")
    ~> [](kpc = "exit" /\ \A t \in Threads : pc[t] \in {"exit", "wait"})
=============================================================================
