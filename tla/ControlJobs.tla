---------------------------- MODULE ControlJobs ----------------------------
(***************************************************************************)
(* The job system of src/control/jobs.c: five queues served by a pool of   *)
(* worker threads, one slot per reserved worker, a kicker thread that      *)
(* wakes everyone every two seconds, and the stop of dt_control_quit() and *)
(* dt_control_shutdown().                                                  *)
(*                                                                         *)
(* A critical section under queue_mutex, res_mutex, cond_mutex or a job's  *)
(* state_mutex is one action.  wait_mutex is left out: only the thread     *)
(* that executes the job takes it, dt_control_job_wait() has no caller.    *)
(* A duplicate that dt_control_add_job() refuses never becomes visible to  *)
(* another thread, so it takes no place in Jobs.                           *)
(***************************************************************************)
EXTENDS Integers, Sequences

CONSTANTS
  Workers,      \* the threads of dt_control_work
  Reserved,     \* the threads of dt_control_work_res, one slot each
  Clients,      \* the threads that add and cancel jobs
  Jobs,         \* the addresses a job can have
  Kinds,        \* the classes of dt_control_job_equal() in SYSTEM_FG
  Used,         \* the queues the clients use
  Progress,     \* have the other jobs a progress indicator to cancel them
  MaxJobs,      \* DT_CONTROL_MAX_JOBS
  FgPriority,   \* DT_CONTROL_FG_PRIORITY
  PriorityMod,  \* 256: a priority is an unsigned char
  NoJob

USER_FG == 0
SYSTEM_FG == 1
USER_BG == 2
USER_EXPORT == 3
SYSTEM_BG == 4
Queues == 0 .. 4

ASSUME JobsAssumption ==
  /\ Used \subseteq Queues /\ Progress \in BOOLEAN /\ NoJob \notin Jobs
  /\ Workers \cap Reserved = {}
  /\ MaxJobs \in Nat \ {0} /\ PriorityMod \in Nat /\ FgPriority \in Nat
  /\ FgPriority < PriorityMod

VARIABLES
  running,          \* control->running
  queues,           \* control->queues
  queue_length,     \* control->queue_length
  scheduled,        \* control->job, the job each worker has taken
  export_scheduled, \* control->export_scheduled
  job_res, new_res, \* the slots of the reserved workers
  job,              \* the heap: what is at each job address
  pc, mine,         \* worker threads: program counter, local variable job
  kpc,              \* the kicker thread
  cpc, creq,        \* clients: program counter, the job being added
  spc               \* the thread that stops the program

queueVars == <<queues, queue_length, scheduled, export_scheduled>>
resVars == <<job_res, new_res>>
workVars == <<pc, mine>>
clientVars == <<cpc, creq>>
vars == <<running, queueVars, resVars, job, workVars, kpc, clientVars, spc>>

Threads == Workers \cup Reserved
AnyKind == "any"
Freed == [state |-> "freed"]
(* Only thumbnail jobs go to SYSTEM_FG, and they have no progress.  The    *)
(* jobs of the other queues are not compared.                              *)
Requests ==
  {req \in [queue : Used, kind : Kinds \cup {AnyKind}, progress : {FALSE, Progress}] :
     IF req.queue = SYSTEM_FG THEN req.kind # AnyKind /\ ~req.progress
     ELSE req.kind = AnyKind /\ req.progress = Progress}

Alive(j) == job[j] # Freed

JInit ==
  /\ running = TRUE /\ export_scheduled = FALSE
  /\ queues = [q \in Queues |-> <<>>] /\ queue_length = [q \in Queues |-> 0]
  /\ scheduled = [w \in Workers |-> NoJob]
  /\ job_res = [r \in Reserved |-> NoJob]
  /\ new_res = [r \in Reserved |-> FALSE]
  /\ job = [j \in Jobs |-> Freed]
  /\ pc = [t \in Threads |-> "top"] /\ mine = [t \in Threads |-> NoJob]
  /\ kpc = "check" /\ spc = "up"
  /\ cpc = [c \in Clients |-> "idle"]
  /\ creq = [c \in Clients |-> NoJob]

(* pthread_cond_broadcast(&control->cond) *)
Broadcast ==
  pc' = [t \in Threads |-> IF pc[t] = "wait" THEN "top" ELSE pc[t]]

Goto(t, l) == pc' = [pc EXCEPT ![t] = l]

(* dt_control_job_set_state(): the progress indicator goes with the last   *)
(* state, unless the job is running.                                       *)
SetState(j, s) ==
  job' = [job EXCEPT ![j].state = s,
            ![j].progress = @ /\ (s \in {"queued", "running"}
                                   \/ job[j].state = "running")]

-----------------------------------------------------------------------------
(* The workers. *)

LoopForever(t) ==
  /\ pc[t] = "top"
  /\ Goto(t, "schedule")
  /\ UNCHANGED <<running, queueVars, resVars, job, mine, kpc, clientVars, spc>>
(* while(dt_control_running()) *)
Loop(t) ==
  /\ pc[t] = "top"
  /\ Goto(t, IF running THEN "schedule" ELSE "exit")
  /\ UNCHANGED <<running, queueVars, resVars, job, mine, kpc, clientVars, spc>>

(* The queues dt_control_schedule_job() chooses from and its choice: the   *)
(* first one whose head has the largest priority.                          *)
Candidates ==
  {q \in Queues : queues[q] # <<>> /\ ~(export_scheduled /\ q = USER_EXPORT)}
HeadPriority(q) == job[Head(queues[q])].priority
Winner ==
  CHOOSE q \in Candidates : \A p \in Candidates :
    \/ HeadPriority(p) < HeadPriority(q)
    \/ HeadPriority(p) = HeadPriority(q) /\ q <= p

(* Every queue but the winner's has its head's priority incremented. *)
HeadsBut(win) ==
  {Head(queues[q]) : q \in {p \in Queues \ {win} : queues[p] # <<>>}}
AgedForeground(win) ==
  [j \in Jobs |-> IF j \in HeadsBut(win) /\ job[j].queue # USER_BG
                  THEN [job[j] EXCEPT !.priority = (@ + 1) % PriorityMod]
                  ELSE job[j]]
Aged(win) ==
  [j \in Jobs |-> IF j \in HeadsBut(win)
                  THEN [job[j] EXCEPT !.priority = (@ + 1) % PriorityMod]
                  ELSE job[j]]

ExportNowUnset(q) == export_scheduled' = export_scheduled
ExportNow(q) == export_scheduled' = (export_scheduled \/ q = USER_EXPORT)

(* dt_control_schedule_job() *)
Schedule(w) ==
  /\ pc[w] = "schedule" /\ Candidates # {}
  /\ LET q == Winner
         j == Head(queues[q])
     IN /\ queues' = [queues EXCEPT ![q] = Tail(@)]
        /\ queue_length' = [queue_length EXCEPT ![q] = @ - 1]
        /\ ExportNow(q)
        /\ scheduled' = [scheduled EXCEPT ![w] = j]
        /\ mine' = [mine EXCEPT ![w] = j]
        /\ job' = Aged(q)
  /\ Goto(w, "check")
  /\ UNCHANGED <<running, resVars, kpc, clientVars, spc>>

NothingToSchedule(w) ==
  /\ pc[w] = "schedule" /\ Candidates = {}
  /\ Goto(w, "sleep")
  /\ UNCHANGED <<running, queueVars, resVars, job, mine, kpc, clientVars, spc>>

(* dt_control_run_job_res(): take the job out of the slot *)
TakeReserved(r) ==
  /\ pc[r] = "schedule" /\ new_res[r]
  /\ mine' = [mine EXCEPT ![r] = job_res[r]]
  /\ job_res' = [job_res EXCEPT ![r] = NoJob]
  /\ new_res' = [new_res EXCEPT ![r] = FALSE]
  /\ Goto(r, IF job_res[r] = NoJob THEN "sleep" ELSE "check")
  /\ UNCHANGED <<running, queueVars, job, kpc, clientVars, spc>>

NothingReserved(r) ==
  /\ pc[r] = "schedule" /\ ~new_res[r]
  /\ Goto(r, "sleep")
  /\ UNCHANGED <<running, queueVars, resVars, job, mine, kpc, clientVars, spc>>

AfterJob(t) == IF t \in Workers THEN "clear" ELSE "dispose"

(* dt_control_job_get_state(job) == DT_JOB_STATE_QUEUED *)
CheckState(t) ==
  /\ pc[t] = "check"
  /\ Goto(t, IF job[mine[t]].state = "queued" THEN "start" ELSE AfterJob(t))
  /\ UNCHANGED <<running, queueVars, resVars, job, mine, kpc, clientVars, spc>>

(* dt_control_job_execute(): the state becomes RUNNING, job->execute() *)
(* runs for some time, the state becomes FINISHED                      *)
StartJob(t) ==
  /\ pc[t] = "start"
  /\ SetState(mine[t], "running")
  /\ Goto(t, "execute")
  /\ UNCHANGED <<running, queueVars, resVars, mine, kpc, clientVars, spc>>

FinishJob(t) ==
  /\ pc[t] = "execute"
  /\ SetState(mine[t], "finished")
  /\ Goto(t, AfterJob(t))
  /\ UNCHANGED <<running, queueVars, resVars, mine, kpc, clientVars, spc>>

(* dt_control_run_job(): out of the scheduled array *)
ClearKeepsScheduled(w) ==
  /\ pc[w] = "clear"
  /\ scheduled' = scheduled
  /\ export_scheduled' =
       (export_scheduled /\ job[mine[w]].queue # USER_EXPORT)
  /\ Goto(w, "dispose")
  /\ UNCHANGED <<running, queues, queue_length, resVars, job, mine, kpc,
                 clientVars, spc>>
Clear(w) ==
  /\ pc[w] = "clear"
  /\ scheduled' = [scheduled EXCEPT ![w] = NoJob]
  /\ export_scheduled' =
       (export_scheduled /\ job[mine[w]].queue # USER_EXPORT)
  /\ Goto(w, "dispose")
  /\ UNCHANGED <<running, queues, queue_length, resVars, job, mine, kpc,
                 clientVars, spc>>

(* dt_control_job_dispose() *)
Dispose(t) ==
  /\ pc[t] = "dispose"
  /\ job' = [job EXCEPT ![mine[t]] = Freed]
  /\ mine' = [mine EXCEPT ![t] = NoJob]
  /\ Goto(t, "top")
  /\ UNCHANGED <<running, queueVars, resVars, kpc, clientVars, spc>>

(* dt_pthread_cond_wait(&control->cond, ...): the queues are not looked at *)
(* again under cond_mutex before the thread goes to sleep                  *)
Sleep(t) ==
  /\ pc[t] = "sleep"
  /\ Goto(t, "wait")
  /\ UNCHANGED <<running, queueVars, resVars, job, mine, kpc, clientVars, spc>>

-----------------------------------------------------------------------------
(* The kicker. *)

KickerCheck ==
  /\ kpc = "check"
  /\ kpc' = IF running THEN "kick" ELSE "exit"
  /\ UNCHANGED <<running, queueVars, resVars, job, workVars, clientVars, spc>>

(* sleep(2) and a broadcast *)
KickNobody ==
  /\ kpc = "kick" /\ kpc' = "check"
  /\ UNCHANGED <<running, queueVars, resVars, job, workVars, clientVars, spc>>
Kick ==
  /\ kpc = "kick" /\ kpc' = "check"
  /\ Broadcast
  /\ UNCHANGED <<running, queueVars, resVars, job, mine, clientVars, spc>>

-----------------------------------------------------------------------------
(* The clients. *)

(* dt_control_add_job(): control->running is read without a mutex *)
AddJob(c, req) ==
  /\ cpc[c] = "idle" /\ running
  /\ creq' = [creq EXCEPT ![c] = req]
  /\ cpc' = [cpc EXCEPT ![c] = "insert"]
  /\ UNCHANGED <<running, queueVars, resVars, job, workVars, kpc, spc>>

(* The system is not running: the caller executes the job and disposes of  *)
(* it, no other thread sees it.                                            *)
AddJobStopped(c) ==
  /\ cpc[c] = "idle" /\ ~running
  /\ cpc' = [cpc EXCEPT ![c] = "sync"]
  /\ UNCHANGED <<running, queueVars, resVars, job, workVars, kpc, creq, spc>>

SyncEnd(c) ==
  /\ cpc[c] = "sync"
  /\ cpc' = [cpc EXCEPT ![c] = "idle"]
  /\ UNCHANGED <<running, queueVars, resVars, job, workVars, kpc, creq, spc>>

NewJob(req, priority) ==
  [state |-> "queued", priority |-> priority, queue |-> req.queue,
   kind |-> req.kind, progress |-> req.progress]

(* dt_control_job_equal() of the new job and job j *)
SameJob(req, j) == job[j].queue = req.queue /\ job[j].kind = req.kind

AlreadyScheduledUnchecked(req) == FALSE
AlreadyScheduled(req) ==
  \E w \in Workers : scheduled[w] # NoJob /\ SameJob(req, scheduled[w])

(* SYSTEM_FG, an equal job is in the hands of a worker: nothing is added,  *)
(* nobody is notified                                                      *)
InsertScheduled(c) ==
  /\ cpc[c] = "insert" /\ creq[c].queue = SYSTEM_FG
  /\ AlreadyScheduled(creq[c])
  /\ creq' = [creq EXCEPT ![c] = NoJob]
  /\ cpc' = [cpc EXCEPT ![c] = "idle"]
  /\ UNCHANGED <<running, queueVars, resVars, job, workVars, kpc, spc>>

CopiesInQueue(req) ==
  {i \in 1 .. Len(queues[SYSTEM_FG]) : SameJob(req, queues[SYSTEM_FG][i])}

(* g_list_prepend() and g_list_delete_link() *)
Prepend(s, j) == <<j>> \o s
DeleteLink(s, i) == SubSeq(s, 1, i - 1) \o SubSeq(s, i + 1, Len(s))

(* SYSTEM_FG, an equal job is in the queue: it moves to the top *)
MoveToTop(c) ==
  /\ cpc[c] = "insert" /\ creq[c].queue = SYSTEM_FG
  /\ ~AlreadyScheduled(creq[c])
  /\ \E i \in CopiesInQueue(creq[c]) :
       /\ \A k \in CopiesInQueue(creq[c]) : i <= k
       /\ queues' = [queues EXCEPT ![SYSTEM_FG] = Prepend(DeleteLink(@, i), @[i])]
       /\ SetState(queues[SYSTEM_FG][i], "queued")
  /\ creq' = [creq EXCEPT ![c] = NoJob]
  /\ cpc' = [cpc EXCEPT ![c] = "notify"]
  /\ UNCHANGED <<running, queue_length, scheduled, export_scheduled, resVars,
                 workVars, kpc, spc>>

(* SYSTEM_FG, a new job goes on top of the stack.  Of a full stack the     *)
(* last job is discarded and disposed of.                                  *)
Full == queue_length[SYSTEM_FG] >= MaxJobs
InsertTop(c, j) ==
  /\ cpc[c] = "insert" /\ creq[c].queue = SYSTEM_FG /\ ~Alive(j)
  /\ ~AlreadyScheduled(creq[c]) /\ CopiesInQueue(creq[c]) = {}
  /\ LET q == queues[SYSTEM_FG]
         new == NewJob(creq[c], FgPriority)
     IN IF Full
        THEN /\ queues' = [queues EXCEPT ![SYSTEM_FG] = Prepend(DeleteLink(q, Len(q)), j)]
             /\ job' = [job EXCEPT ![j] = new, ![q[Len(q)]] = Freed]
             /\ UNCHANGED queue_length
        ELSE /\ queues' = [queues EXCEPT ![SYSTEM_FG] = Prepend(q, j)]
             /\ job' = [job EXCEPT ![j] = new]
             /\ queue_length' = [queue_length EXCEPT ![SYSTEM_FG] = @ + 1]
  /\ creq' = [creq EXCEPT ![c] = NoJob]
  /\ cpc' = [cpc EXCEPT ![c] = "notify"]
  /\ UNCHANGED <<running, scheduled, export_scheduled, resVars, workVars, kpc,
                 spc>>

(* The other queues are FIFOs without a limit. *)
InsertLast(c, j) ==
  /\ cpc[c] = "insert" /\ creq[c].queue # SYSTEM_FG /\ ~Alive(j)
  /\ LET q == creq[c].queue
         new == NewJob(creq[c], IF q = USER_FG THEN FgPriority ELSE 0)
     IN /\ queues' = [queues EXCEPT ![q] = Append(@, j)]
        /\ queue_length' = [queue_length EXCEPT ![q] = @ + 1]
        /\ job' = [job EXCEPT ![j] = new]
  /\ creq' = [creq EXCEPT ![c] = NoJob]
  /\ cpc' = [cpc EXCEPT ![c] = "notify"]
  /\ UNCHANGED <<running, scheduled, export_scheduled, resVars, workVars, kpc,
                 spc>>

(* dt_control_add_job_res(): a job that waits in the slot is disposed of *)
AddJobRes(c, r, j) ==
  /\ cpc[c] = "idle" /\ ~Alive(j)
  /\ job' = [i \in Jobs |->
               CASE i = j -> NewJob([queue |-> USER_FG, kind |-> AnyKind,
                                     progress |-> FALSE], 0)
                 [] i = job_res[r] -> Freed
                 [] OTHER -> job[i]]
  /\ job_res' = [job_res EXCEPT ![r] = j]
  /\ new_res' = [new_res EXCEPT ![r] = TRUE]
  /\ cpc' = [cpc EXCEPT ![c] = "notify"]
  /\ UNCHANGED <<running, queueVars, workVars, kpc, creq, spc>>

(* notify workers *)
Notify(c) ==
  /\ cpc[c] = "notify"
  /\ cpc' = [cpc EXCEPT ![c] = "idle"]
  /\ Broadcast
  /\ UNCHANGED <<running, queueVars, resVars, job, mine, kpc, creq, spc>>

(* dt_control_job_cancel(), called when the user cancels the progress      *)
(* indicator of the job                                                    *)
Cancel(j) ==
  /\ Alive(j) /\ job[j].progress
  /\ SetState(j, "cancelled")
  /\ UNCHANGED <<running, queueVars, resVars, workVars, kpc, clientVars, spc>>

-----------------------------------------------------------------------------
(* The end of the program. *)

(* dt_control_quit() *)
Quit ==
  /\ spc = "up" /\ spc' = "quit"
  /\ running' = FALSE
  /\ UNCHANGED <<queueVars, resVars, job, workVars, kpc, clientVars>>

(* dt_control_shutdown() up to the joins *)
Shutdown ==
  /\ spc = "quit" /\ spc' = "join"
  /\ running' = FALSE
  /\ Broadcast
  /\ UNCHANGED <<queueVars, resVars, job, mine, kpc, clientVars>>

-----------------------------------------------------------------------------
ThreadStep(t) ==
  \/ Loop(t) \/ CheckState(t) \/ StartJob(t) \/ FinishJob(t) \/ Dispose(t)
  \/ Sleep(t)
WorkerStep(w) ==
  ThreadStep(w) \/ Schedule(w) \/ NothingToSchedule(w) \/ Clear(w)
ReservedStep(r) == ThreadStep(r) \/ TakeReserved(r) \/ NothingReserved(r)
KickerStep == KickerCheck \/ Kick
ClientStep(c) ==
  \/ SyncEnd(c) \/ InsertScheduled(c) \/ MoveToTop(c) \/ Notify(c)
  \/ \E j \in Jobs : InsertTop(c, j) \/ InsertLast(c, j)
ClientCall(c) ==
  \/ \E req \in Requests : AddJob(c, req)
  \/ AddJobStopped(c)
  \/ \E r \in Reserved, j \in Jobs : AddJobRes(c, r, j)

JNext ==
  \/ \E w \in Workers : WorkerStep(w)
  \/ \E r \in Reserved : ReservedStep(r)
  \/ \E c \in Clients : ClientStep(c) \/ ClientCall(c)
  \/ KickerStep
  \/ \E j \in Jobs : Cancel(j)
  \/ Quit \/ Shutdown

JSpec == JInit /\ [][JNext]_vars
-----------------------------------------------------------------------------
InQueue(j) == \E q \in Queues : \E i \in 1 .. Len(queues[q]) : queues[q][i] = j
InSlot(j) == \E r \in Reserved : job_res[r] = j
InHand(j) == \E t \in Threads : mine[t] = j

(* Nothing is listed twice. *)
ListedOnce ==
  /\ \A p, q \in Queues :
       \A i \in 1 .. Len(queues[p]), k \in 1 .. Len(queues[q]) :
         queues[p][i] = queues[q][k] => p = q /\ i = k
  /\ \A r, s \in Reserved : job_res[r] = job_res[s] => r = s \/ job_res[r] = NoJob
  /\ \A t, u \in Threads : mine[t] = mine[u] => t = u \/ mine[t] = NoJob

(* Every job that is allocated belongs to one queue position, one reserved *)
(* slot or one executing thread, nothing that is freed is still listed     *)
(* anywhere, and the scheduled array that dt_control_add_job() compares    *)
(* new jobs with only holds jobs their worker still owns.  So nobody       *)
(* touches a disposed job ("this job belongs to us now, the queue may not  *)
(* touch it any longer") and no job is forgotten while it waits.           *)
OneOwner ==
  /\ \A j \in Jobs :
       /\ Alive(j) <=> InQueue(j) \/ InSlot(j) \/ InHand(j)
       /\ ~(InQueue(j) /\ InSlot(j))
       /\ ~(InQueue(j) /\ InHand(j))
       /\ ~(InSlot(j) /\ InHand(j))
  /\ ListedOnce
  /\ \A w \in Workers : scheduled[w] \in {NoJob, mine[w]}

(* "only one of these jobs will ever be scheduled at a time": of all the   *)
(* workers at most one holds an export, and export_scheduled says so.      *)
Exports == {w \in Workers : scheduled[w] # NoJob
                              /\ job[scheduled[w]].queue = USER_EXPORT}
OneExport ==
  /\ \A v, w \in Exports : v = w
  /\ export_scheduled <=> Exports # {}

(* "there can't be any further copy": no two equal SYSTEM_FG jobs are in   *)
(* the queue or scheduled, so a thumbnail is never loaded twice at a time. *)
ForegroundJobs ==
  {j \in Jobs : (\E w \in Workers : scheduled[w] = j) \/ InQueue(j)}
NoCopies ==
  \A i, j \in ForegroundJobs :
    /\ job[i].queue = SYSTEM_FG /\ job[j].queue = SYSTEM_FG
    /\ job[i].kind = job[j].kind
    => i = j

=============================================================================
