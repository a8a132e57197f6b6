----------------------------- MODULE JobsProofs -----------------------------
(***************************************************************************)
(* The inductive invariant of the job system, for any number of threads,   *)
(* jobs and kinds and any limit of the stack, and what follows from it:    *)
(* every job has one owner, at most one export runs, and no two equal      *)
(* foreground jobs are known at a time.                                    *)
(***************************************************************************)
EXTENDS ControlJobs, SequenceTheorems, TLAPS

(* The leaves are for Zenon; those that need more name the SMT solver. *)
USE ZenonT(60)

-----------------------------------------------------------------------------
(* What the list operations of jobs.c do to the set of jobs in a list. *)

Members(s) == {s[i] : i \in 1 .. Len(s)}
Distinct(s) == \A i, k \in 1 .. Len(s) : s[i] = s[k] => i = k

(* Taking the head of a list takes one job out of it. *)
LEMMA TailMembers ==
  ASSUME NEW s \in Seq(Jobs), s # <<>>, Distinct(s)
  PROVE  /\ Tail(s) \in Seq(Jobs) /\ Len(Tail(s)) = Len(s) - 1
         /\ Head(s) \in Members(s)
         /\ Distinct(Tail(s)) /\ Members(Tail(s)) = Members(s) \ {Head(s)}
<1>1. /\ Tail(s) \in Seq(Jobs) /\ Len(Tail(s)) = Len(s) - 1 /\ Len(s) \in Nat \ {0}
      /\ Head(s) = s[1]
      /\ \A i \in 1 .. Len(s) - 1 : Tail(s)[i] = s[i + 1]
  BY SMTT(60)
<1>2. Head(s) \in Members(s)
  BY SMTT(60), <1>1 DEF Members
<1>3. Distinct(Tail(s))
  BY SMTT(60), <1>1 DEF Distinct
<1>4. ASSUME NEW x PROVE x \in Members(Tail(s)) <=> x \in Members(s) \ {Head(s)}
  <2>1. ASSUME x \in Members(Tail(s)) PROVE x \in Members(s) \ {Head(s)}
    BY SMTT(60), <1>1, <2>1 DEF Members, Distinct
  <2>2. ASSUME x \in Members(s), x # Head(s) PROVE x \in Members(Tail(s))
    <3>1. PICK i \in 1 .. Len(s) : x = s[i]
      BY <2>2 DEF Members
    <3>2. i - 1 \in 1 .. Len(s) - 1 /\ x = Tail(s)[i - 1]
      BY SMTT(60), <1>1, <2>2, <3>1
    <3> QED BY <1>1, <3>2 DEF Members
  <2> QED BY <2>1, <2>2
<1> QED BY <1>1, <1>2, <1>3, <1>4

(* A new job on top of a list. *)
LEMMA PrependMembers ==
  ASSUME NEW s \in Seq(Jobs), NEW j \in Jobs, Distinct(s), j \notin Members(s)
  PROVE  /\ Prepend(s, j) \in Seq(Jobs) /\ Len(Prepend(s, j)) = Len(s) + 1
         /\ Distinct(Prepend(s, j)) /\ Members(Prepend(s, j)) = Members(s) \cup {j}
<1>1. /\ Prepend(s, j) \in Seq(Jobs) /\ Len(Prepend(s, j)) = Len(s) + 1 /\ Len(s) \in Nat
      /\ Prepend(s, j)[1] = j
      /\ \A i \in 2 .. Len(s) + 1 : Prepend(s, j)[i] = s[i - 1]
  BY SMTT(60) DEF Prepend
<1>2. Distinct(Prepend(s, j))
  BY SMTT(60), <1>1 DEF Distinct, Members
<1>3. ASSUME NEW x PROVE x \in Members(Prepend(s, j)) <=> x \in Members(s) \cup {j}
  <2>1. ASSUME x \in Members(Prepend(s, j)) PROVE x \in Members(s) \cup {j}
    BY SMTT(60), <1>1, <2>1 DEF Members
  <2>2. ASSUME x \in Members(s) PROVE x \in Members(Prepend(s, j))
    <3>1. PICK i \in 1 .. Len(s) : x = s[i]
      BY <2>2 DEF Members
    <3>2. i + 1 \in 2 .. Len(s) + 1 /\ x = Prepend(s, j)[i + 1]
      BY SMTT(60), <1>1, <3>1
    <3> QED BY SMTT(60), <1>1, <3>2 DEF Members
  <2>3. j \in Members(Prepend(s, j))
    BY SMTT(60), <1>1 DEF Members
  <2> QED BY <2>1, <2>2, <2>3
<1> QED BY <1>1, <1>2, <1>3

(* A new job at the end of a list. *)
LEMMA AppendMembers ==
  ASSUME NEW s \in Seq(Jobs), NEW j \in Jobs, Distinct(s), j \notin Members(s)
  PROVE  /\ Append(s, j) \in Seq(Jobs) /\ Len(Append(s, j)) = Len(s) + 1
         /\ Distinct(Append(s, j)) /\ Members(Append(s, j)) = Members(s) \cup {j}
<1>1. /\ Append(s, j) \in Seq(Jobs) /\ Len(Append(s, j)) = Len(s) + 1 /\ Len(s) \in Nat
      /\ Append(s, j)[Len(s) + 1] = j
      /\ \A i \in 1 .. Len(s) : Append(s, j)[i] = s[i]
  BY SMTT(60)
<1>2. Distinct(Append(s, j))
  BY SMTT(60), <1>1 DEF Distinct, Members
<1>3. ASSUME NEW x PROVE x \in Members(Append(s, j)) <=> x \in Members(s) \cup {j}
  BY SMTT(60), <1>1 DEF Members
<1> QED BY <1>1, <1>2, <1>3

(* A job is taken out of a list. *)
LEMMA DeleteLinkMembers ==
  ASSUME NEW s \in Seq(Jobs), NEW i \in 1 .. Len(s), Distinct(s)
  PROVE  /\ DeleteLink(s, i) \in Seq(Jobs) /\ Len(DeleteLink(s, i)) = Len(s) - 1
         /\ s[i] \in Members(s) /\ Distinct(DeleteLink(s, i))
         /\ Members(DeleteLink(s, i)) = Members(s) \ {s[i]}
<1> DEFINE a == SubSeq(s, 1, i - 1)
           b == SubSeq(s, i + 1, Len(s))
           r == DeleteLink(s, i)
<1>1. Len(s) \in Nat /\ i \in Nat /\ 1 <= i /\ i <= Len(s)
  BY SMTT(60)
<1>2. a \in Seq(Jobs) /\ Len(a) = i - 1 /\ \A k \in 1 .. i - 1 : a[k] = s[k]
  BY SMTT(60)
<1>3. b \in Seq(Jobs) /\ Len(b) = Len(s) - i /\ \A k \in 1 .. Len(s) - i : b[k] = s[i + k]
  BY SMTT(60)
<1>4. r = a \o b
  BY DEF DeleteLink
<1> HIDE DEF a, b, r
<1>5. /\ r \in Seq(Jobs) /\ Len(r) = Len(s) - 1
      /\ \A k \in 1 .. i - 1 : r[k] = s[k]
      /\ \A k \in i .. Len(s) - 1 : r[k] = s[k + 1]
  <2>1. r \in Seq(Jobs) /\ Len(r) = Len(s) - 1
    <3>1. a \o b \in Seq(Jobs) /\ Len(a \o b) = Len(a) + Len(b)
      BY <1>2, <1>3, ConcatProperties
    <3>2. Len(a) + Len(b) = Len(s) - 1
      BY SMTT(60), <1>1, <1>2, <1>3
    <3> QED BY <1>4, <3>1, <3>2
  <2>2. ASSUME NEW k \in 1 .. i - 1 PROVE r[k] = s[k]
    BY SMTT(60), <1>1, <1>2, <1>3, <1>4
  <2>3. ASSUME NEW k \in i .. Len(s) - 1 PROVE r[k] = s[k + 1]
    <3>1. k - (i - 1) \in 1 .. Len(s) - i /\ r[k] = b[k - (i - 1)]
      BY SMTT(60), <1>1, <1>2, <1>3, <1>4
    <3> QED BY SMTT(60), <1>1, <1>3, <3>1
  <2> QED BY <2>1, <2>2, <2>3
<1>6. Distinct(r) /\ s[i] \notin Members(r)
  BY SMTT(60), <1>1, <1>5 DEF Distinct, Members
<1>7. ASSUME NEW x \in Members(s), x # s[i] PROVE x \in Members(r)
  <2>1. PICK k \in 1 .. Len(s) : x = s[k]
    BY DEF Members
  <2>2. CASE k < i
    BY SMTT(60), <1>1, <1>5, <2>1, <2>2 DEF Members
  <2>3. CASE k > i
    <3>1. k - 1 \in i .. Len(s) - 1 /\ x = r[k - 1]
      BY SMTT(60), <1>1, <1>5, <2>1, <2>3
    <3> QED BY SMTT(60), <1>1, <1>5, <3>1 DEF Members
  <2> QED BY SMTT(60), <1>7, <2>1, <2>2, <2>3
<1>8. ASSUME NEW x \in Members(r) PROVE x \in Members(s)
  BY SMTT(60), <1>1, <1>5 DEF Members
<1>9. s[i] \in Members(s)
  BY DEF Members
<1> QED BY <1>5, <1>6, <1>7, <1>8, <1>9 DEF r

(* A job moves to the top of its list. *)
LEMMA MoveMembers ==
  ASSUME NEW s \in Seq(Jobs), NEW i \in 1 .. Len(s), Distinct(s),
         NEW t, t = Prepend(DeleteLink(s, i), s[i])
  PROVE  t \in Seq(Jobs) /\ Len(t) = Len(s) /\ Distinct(t) /\ Members(t) = Members(s)
<1>1. /\ DeleteLink(s, i) \in Seq(Jobs) /\ Len(DeleteLink(s, i)) = Len(s) - 1
      /\ s[i] \in Members(s) /\ Distinct(DeleteLink(s, i))
      /\ Members(DeleteLink(s, i)) = Members(s) \ {s[i]}
  BY DeleteLinkMembers
<1>2. Len(s) \in Nat /\ s[i] \in Jobs
  BY SMTT(60)
<1>3. /\ t \in Seq(Jobs) /\ Len(t) = Len(DeleteLink(s, i)) + 1
      /\ Distinct(t) /\ Members(t) = Members(DeleteLink(s, i)) \cup {s[i]}
  BY <1>1, <1>2, PrependMembers
<1> QED BY SMTT(60), <1>1, <1>2, <1>3

-----------------------------------------------------------------------------
(* The inductive invariant. *)

JobStates == {"queued", "running", "finished", "cancelled"}
JobRecords ==
  [state : JobStates, priority : Int, queue : Queues, kind : Kinds \cup {AnyKind},
   progress : BOOLEAN]
JobOrNone == Jobs \cup {NoJob}
Labels == {"top", "schedule", "check", "start", "execute", "clear", "dispose",
           "sleep", "wait", "exit"}

(* The types of the variables that the properties read; the lengths that   *)
(* jobs.c keeps beside its lists are the lengths of the lists.             *)
ClientsOK ==
  /\ creq \in [Clients -> Requests \cup {NoJob}]
  /\ cpc \in [Clients -> {"idle", "insert", "notify", "sync"}]
  /\ \A c \in Clients : cpc[c] = "insert" => creq[c] \in Requests
JTypeOK ==
  /\ queues \in [Queues -> Seq(Jobs)]
  /\ queue_length = [q \in Queues |-> Len(queues[q])]
  /\ scheduled \in [Workers -> JobOrNone]
  /\ job_res \in [Reserved -> JobOrNone]
  /\ mine \in [Threads -> JobOrNone]
  /\ job \in [Jobs -> JobRecords \cup {Freed}]
  /\ pc \in [Threads -> Labels]
  /\ ClientsOK

(* A thread has a job in hand from the time it takes it to its disposal,   *)
(* and the scheduled array shows it until the worker clears it.            *)
HandInv ==
  /\ \A t \in Threads :
       mine[t] # NoJob <=> pc[t] \in {"check", "start", "execute", "clear", "dispose"}
  /\ \A w \in Workers :
       scheduled[w] = IF pc[w] \in {"check", "start", "execute", "clear"}
                      THEN mine[w] ELSE NoJob
  /\ \A r \in Reserved : pc[r] # "clear"

(* A queue holds a job once, and only jobs that were added to this queue. *)
Listed(j) == \E q \in Queues : j \in Members(queues[q])
ListInv ==
  \A q \in Queues :
    Distinct(queues[q]) /\ \A j \in Members(queues[q]) : job[j].queue = q

(* The ownership of OneOwner, said with the sets of listed jobs. *)
OwnInv ==
  /\ \A j \in Jobs :
       /\ Alive(j) <=> Listed(j) \/ InSlot(j) \/ InHand(j)
       /\ ~(Listed(j) /\ InSlot(j)) /\ ~(Listed(j) /\ InHand(j))
       /\ ~(InSlot(j) /\ InHand(j))
  /\ \A r, s \in Reserved : job_res[r] = job_res[s] => r = s \/ job_res[r] = NoJob
  /\ \A t, u \in Threads : mine[t] = mine[u] => t = u \/ mine[t] = NoJob

(* NoCopies, said with the sets of listed jobs. *)
Known(j) == Listed(j) \/ \E w \in Workers : scheduled[w] = j
CopyInv ==
  \A i, j \in Jobs :
    /\ Known(i) /\ Known(j)
    /\ job[i].queue = SYSTEM_FG /\ job[j].queue = SYSTEM_FG
    /\ job[i].kind = job[j].kind
    => i = j

(* OneExport, said of each worker. *)
Exporting(w) == scheduled[w] # NoJob /\ job[scheduled[w]].queue = USER_EXPORT
ExportInv ==
  /\ \A v, w \in Workers : Exporting(v) /\ Exporting(w) => v = w
  /\ export_scheduled <=> \E w \in Workers : Exporting(w)

JInv == JTypeOK /\ HandInv /\ ListInv /\ OwnInv /\ CopyInv /\ ExportInv

-----------------------------------------------------------------------------
(* A job that has a record is not a freed one. *)
LEMMA RecordAlive ==
  ASSUME NEW r \in JobRecords
  PROVE  r # Freed
<1>1. r.state # "freed"
  BY DEF JobRecords, JobStates
<1>2. Freed.state = "freed"
  BY DEF Freed
<1> QED BY <1>1, <1>2

(* The invariant implies the properties of ControlJobs. *)
LEMMA ListedIsInQueue ==
  ASSUME NEW j
  PROVE  InQueue(j) <=> Listed(j)
BY DEF InQueue, Listed, Members

(* The invariant gives the three properties. *)
LEMMA InvImplies == JInv => OneOwner /\ OneExport /\ NoCopies
<1> SUFFICES ASSUME JInv PROVE OneOwner /\ OneExport /\ NoCopies
  OBVIOUS
<1>1. ListedOnce
  <2>1. ASSUME NEW p \in Queues, NEW q \in Queues, NEW i \in 1 .. Len(queues[p]),
               NEW k \in 1 .. Len(queues[q]), queues[p][i] = queues[q][k]
        PROVE  p = q /\ i = k
    <3>1. queues[p][i] \in Members(queues[p]) /\ queues[q][k] \in Members(queues[q])
      BY DEF Members
    <3>2. p = q
      BY <2>1, <3>1 DEF JInv, ListInv
    <3> QED BY <2>1, <3>2 DEF JInv, ListInv, Distinct
  <2> QED BY <2>1 DEF ListedOnce, JInv, OwnInv
<1>2. OneOwner
  <2>1. ASSUME NEW j \in Jobs
        PROVE  /\ Alive(j) <=> InQueue(j) \/ InSlot(j) \/ InHand(j)
               /\ ~(InQueue(j) /\ InSlot(j)) /\ ~(InQueue(j) /\ InHand(j))
               /\ ~(InSlot(j) /\ InHand(j))
    BY ListedIsInQueue DEF JInv, OwnInv
  <2>2. ASSUME NEW w \in Workers PROVE scheduled[w] \in {NoJob, mine[w]}
    BY DEF JInv, HandInv
  <2> QED BY <1>1, <2>1, <2>2 DEF OneOwner
<1>3. OneExport
  BY DEF JInv, ExportInv, Exporting, OneExport, Exports
<1>4. NoCopies
  <2>1. ASSUME NEW j \in ForegroundJobs PROVE j \in Jobs /\ Known(j)
    BY ListedIsInQueue DEF ForegroundJobs, Known
  <2> QED BY <2>1 DEF JInv, CopyInv, NoCopies
<1> QED BY <1>2, <1>3, <1>4

(* Nothing is listed, held or running at the start. *)
LEMMA JobsInit == JInit => JInv
<1> SUFFICES ASSUME JInit PROVE JInv
  OBVIOUS
<1>1. \A q \in Queues : queues[q] = <<>> /\ Len(queues[q]) = 0 /\ Members(queues[q]) = {}
  BY SMTT(60) DEF JInit, Members
<1>2. JTypeOK
  <2>1. queues \in [Queues -> Seq(Jobs)] /\ queue_length = [q \in Queues |-> Len(queues[q])]
    BY SMTT(60), <1>1 DEF JInit
  <2>2. /\ scheduled \in [Workers -> JobOrNone] /\ job_res \in [Reserved -> JobOrNone]
        /\ mine \in [Threads -> JobOrNone] /\ pc \in [Threads -> Labels]
    BY DEF JInit, JobOrNone, Labels
  <2>3. job \in [Jobs -> JobRecords \cup {Freed}]
    BY DEF JInit
  <2>4. /\ creq \in [Clients -> Requests \cup {NoJob}]
        /\ cpc \in [Clients -> {"idle", "insert", "notify", "sync"}]
        /\ \A c \in Clients : cpc[c] # "insert"
    BY DEF JInit
  <2> QED BY <2>1, <2>2, <2>3, <2>4 DEF JTypeOK, ClientsOK
<1>3. HandInv
  BY DEF JInit, HandInv, Threads
<1>4. ListInv
  BY SMTT(60), <1>1 DEF ListInv, Distinct
<1>5. OwnInv
  BY <1>1, JobsAssumption DEF JInit, OwnInv, Alive, Listed, InSlot, InHand
<1>6. CopyInv
  BY <1>1, JobsAssumption DEF JInit, CopyInv, Known, Listed
<1>7. ExportInv
  BY DEF JInit, ExportInv, Exporting
<1> QED BY <1>2, <1>3, <1>4, <1>5, <1>6, <1>7 DEF JInv

(* What is in a queue, and what a worker shows, is alive. *)
LEMMA ListedAlive ==
  ASSUME JInv, NEW q \in Queues, NEW j \in Members(queues[q])
  PROVE  j \in Jobs /\ Listed(j) /\ Alive(j) /\ job[j] \in JobRecords
<1>1. j \in Jobs
  BY SMTT(60) DEF JInv, JTypeOK, Members
<1>2. Listed(j) /\ Alive(j)
  BY <1>1 DEF JInv, OwnInv, Listed
<1> QED BY <1>1, <1>2 DEF Alive, JInv, JTypeOK

(* A job in the hands of a thread is alive. *)
LEMMA HeldAlive ==
  ASSUME JInv, NEW t \in Threads, mine[t] # NoJob
  PROVE  mine[t] \in Jobs /\ Alive(mine[t]) /\ job[mine[t]] \in JobRecords
<1>1. mine[t] \in Jobs
  BY DEF JInv, JTypeOK, JobOrNone
<1>2. Alive(mine[t])
  BY <1>1 DEF JInv, OwnInv, InHand
<1> QED BY <1>1, <1>2 DEF Alive, JInv, JTypeOK

(* The job that a worker is scheduled with is in its hands, and alive. *)
LEMMA ScheduledAlive ==
  ASSUME JInv, NEW w \in Workers, scheduled[w] # NoJob
  PROVE  w \in Threads /\ scheduled[w] = mine[w] /\ scheduled[w] \in Jobs
         /\ Alive(scheduled[w])
<1>1. scheduled[w] = mine[w] /\ w \in Threads
  BY DEF JInv, HandInv, Threads
<1> QED BY <1>1, HeldAlive

(* The heap changes neither what is alive nor what dt_control_job_equal()  *)
(* and the scheduler look at.                                              *)
SameJobs ==
  \A j \in Jobs :
    /\ Alive(j)' <=> Alive(j)
    /\ Alive(j) => job'[j].queue = job[j].queue /\ job'[j].kind = job[j].kind

(* A step that moves no job between a queue, a slot and a thread, and      *)
(* neither allocates nor frees one, keeps who owns what.                   *)
LEMMA NobodyMoves ==
  ASSUME JInv, JTypeOK', HandInv', SameJobs,
         \A q \in Queues :
           Distinct(queues'[q]) /\ Members(queues'[q]) = Members(queues[q]),
         UNCHANGED <<scheduled, export_scheduled, job_res, mine>>
  PROVE  JInv'
<1>1. ASSUME NEW j \in Jobs
      PROVE  (Listed(j)' <=> Listed(j)) /\ (InSlot(j)' <=> InSlot(j))
             /\ (InHand(j)' <=> InHand(j))
  BY DEF Listed, InSlot, InHand
<1>2. ListInv'
  BY ListedAlive DEF JInv, ListInv, SameJobs
<1>3. OwnInv'
  BY <1>1 DEF JInv, OwnInv, SameJobs
<1>4. CopyInv'
  <2>1. ASSUME NEW j \in Jobs, Known(j)'
        PROVE  Known(j) /\ Alive(j)
    <3>1. Known(j)
      BY <1>1, <2>1 DEF Known
    <3> QED BY <3>1, ListedAlive, ScheduledAlive, JobsAssumption DEF Known, Listed
  <2> QED BY <2>1 DEF JInv, CopyInv, SameJobs
<1>5. ExportInv'
  BY ScheduledAlive DEF JInv, ExportInv, Exporting, SameJobs
<1> QED BY <1>2, <1>3, <1>4, <1>5 DEF JInv

(* A step of the program counters alone. *)
LEMMA CountersMove ==
  ASSUME JInv, UNCHANGED <<queueVars, resVars, job, mine, creq>>, HandInv',
         pc' \in [Threads -> Labels],
         cpc' \in [Clients -> {"idle", "insert", "notify", "sync"}],
         \A c \in Clients : cpc'[c] = "insert" => cpc[c] = "insert"
  PROVE  JInv'
<1>1. JTypeOK'
  BY DEF JInv, JTypeOK, ClientsOK, queueVars, resVars
<1>2. \A q \in Queues : Distinct(queues'[q]) /\ Members(queues'[q]) = Members(queues[q])
  BY DEF JInv, ListInv, queueVars
<1>3. SameJobs
  BY DEF SameJobs, Alive
<1>4. UNCHANGED <<scheduled, export_scheduled, job_res, mine>>
  BY DEF queueVars, resVars
<1> QED BY <1>1, <1>2, <1>3, <1>4, NobodyMoves

(* A record with another state, and another progress, is one of the same *)
(* class.                                                                *)
LEMMA RecordUpdate ==
  ASSUME NEW r \in JobRecords, NEW s \in JobStates, NEW p \in BOOLEAN
  PROVE  /\ [r EXCEPT !.state = s, !.progress = p] \in JobRecords
         /\ [r EXCEPT !.state = s, !.progress = p].queue = r.queue
         /\ [r EXCEPT !.state = s, !.progress = p].kind = r.kind
<1>1. [r EXCEPT !.state = s, !.progress = p] \in JobRecords
  BY DEF JobRecords
<1>2. /\ [r EXCEPT !.state = s, !.progress = p].queue = r.queue
      /\ [r EXCEPT !.state = s, !.progress = p].kind = r.kind
  BY DEF JobRecords
<1> QED BY <1>1, <1>2

(* dt_control_job_set_state() changes neither the owner nor the class. *)
LEMMA SetStateKeeps ==
  ASSUME JTypeOK, NEW j \in Jobs, Alive(j), NEW s \in JobStates, SetState(j, s)
  PROVE  /\ job' \in [Jobs -> JobRecords \cup {Freed}]
         /\ SameJobs
<1> DEFINE p == job[j].progress /\ (s \in {"queued", "running"} \/ job[j].state = "running")
<1>1. job[j] \in JobRecords /\ job \in [Jobs -> JobRecords \cup {Freed}]
  BY DEF JTypeOK, Alive
<1>2. job' = [job EXCEPT ![j] = [job[j] EXCEPT !.state = s, !.progress = p]]
  BY <1>1 DEF SetState
<1>3. p \in BOOLEAN
  OBVIOUS
<1> HIDE DEF p
<1>4. /\ [job[j] EXCEPT !.state = s, !.progress = p] \in JobRecords
      /\ [job[j] EXCEPT !.state = s, !.progress = p].queue = job[j].queue
      /\ [job[j] EXCEPT !.state = s, !.progress = p].kind = job[j].kind
  BY <1>1, <1>3, RecordUpdate
<1>5. /\ job' \in [Jobs -> JobRecords \cup {Freed}]
      /\ \A i \in Jobs \ {j} : job'[i] = job[i]
      /\ job'[j] = [job[j] EXCEPT !.state = s, !.progress = p]
  BY <1>1, <1>2, <1>4
<1>6. Alive(j) /\ Alive(j)'
  BY <1>4, <1>5, RecordAlive DEF Alive
<1> QED BY <1>4, <1>5, <1>6 DEF Alive, SameJobs

-----------------------------------------------------------------------------
(* The steps of the threads. *)

(* One list and its length change. *)
LEMMA QueueUpdate ==
  ASSUME JTypeOK, NEW q \in Queues, NEW s \in Seq(Jobs),
         queues' = [queues EXCEPT ![q] = s],
         queue_length' = [queue_length EXCEPT ![q] = Len(s)]
  PROVE  /\ queues' \in [Queues -> Seq(Jobs)]
         /\ queue_length' = [p \in Queues |-> Len(queues'[p])]
         /\ queues'[q] = s /\ \A p \in Queues \ {q} : queues'[p] = queues[p]
<1>1. queues \in [Queues -> Seq(Jobs)] /\ queue_length = [p \in Queues |-> Len(queues[p])]
  BY DEF JTypeOK
<1>2. /\ queues' \in [Queues -> Seq(Jobs)]
      /\ queues'[q] = s /\ \A p \in Queues \ {q} : queues'[p] = queues[p]
  BY <1>1
<1>3. queue_length' = [p \in Queues |-> Len(queues'[p])]
  <2>1. queue_length' = [p \in Queues |-> queue_length'[p]]
    BY <1>1
  <2>2. ASSUME NEW p \in Queues PROVE queue_length'[p] = Len(queues'[p])
    <3>1. CASE p = q
      BY <1>1, <1>2, <3>1
    <3>2. CASE p # q
      <4>1. queue_length'[p] = queue_length[p]
        BY <1>1, <3>2
      <4>2. queue_length[p] = Len(queues[p])
        BY <1>1
      <4> QED BY <1>2, <3>2, <4>1, <4>2
    <3> QED BY <3>1, <3>2
  <2> QED BY <2>1, <2>2
<1> QED BY <1>2, <1>3

(* One thread moves on, with the same job in hand or without one. *)
LEMMA HandStays ==
  ASSUME JInv, NEW t \in Threads, NEW l \in Labels, Goto(t, l),
         UNCHANGED <<scheduled, mine>>,
         \/ pc[t] \in {"check", "start"} /\ l \in {"start", "execute"}
         \/ pc[t] \in {"check", "execute"} /\ l = AfterJob(t)
         \/ pc[t] \in {"top", "schedule", "sleep"} /\ l \in {"schedule", "exit", "sleep", "wait"}
  PROVE  pc' \in [Threads -> Labels] /\ HandInv'
<1>1. pc' \in [Threads -> Labels] /\ pc'[t] = l /\ \A u \in Threads \ {t} : pc'[u] = pc[u]
  BY DEF Goto, JInv, JTypeOK
<1>2. Workers \subseteq Threads /\ Reserved \subseteq Threads
  BY DEF Threads
<1>3. ASSUME NEW u \in Threads
      PROVE  mine[u] # NoJob <=> pc'[u] \in {"check", "start", "execute", "clear", "dispose"}
  BY <1>1 DEF AfterJob, JInv, HandInv
<1>4. ASSUME NEW w \in Workers
      PROVE  scheduled[w] = IF pc'[w] \in {"check", "start", "execute", "clear"}
                            THEN mine[w] ELSE NoJob
  BY <1>1, <1>2 DEF AfterJob, JInv, HandInv
<1>5. ASSUME NEW r \in Reserved PROVE pc'[r] # "clear"
  BY <1>1, <1>2, JobsAssumption DEF AfterJob, JInv, HandInv
<1> QED BY <1>1, <1>3, <1>4, <1>5 DEF HandInv

(* Steps that look and move on. *)
LEMMA LookKeeps ==
  ASSUME JInv, NEW t \in Threads,
         \/ Loop(t) \/ CheckState(t) \/ Sleep(t)
         \/ NothingToSchedule(t) \/ NothingReserved(t)
  PROVE  JInv'
<1>1. PICK l \in Labels :
        /\ Goto(t, l)
        /\ \/ pc[t] = "check" /\ l = "start"
           \/ pc[t] = "check" /\ l = AfterJob(t)
           \/ pc[t] \in {"top", "schedule", "sleep"} /\ l \in {"schedule", "exit", "sleep", "wait"}
  BY DEF Loop, CheckState, Sleep, NothingToSchedule, NothingReserved, Labels, AfterJob
<1>2. UNCHANGED <<queueVars, resVars, job, mine, clientVars>>
  BY DEF Loop, CheckState, Sleep, NothingToSchedule, NothingReserved
<1>3. pc' \in [Threads -> Labels] /\ HandInv'
  BY <1>1, <1>2, HandStays DEF queueVars
<1>4. cpc' = cpc /\ UNCHANGED <<queueVars, resVars, job, mine, creq>>
  BY <1>2 DEF clientVars
<1> QED BY <1>3, <1>4, CountersMove DEF JInv, JTypeOK, ClientsOK

(* A broadcast wakes threads that have nothing in hand. *)
LEMMA BroadcastKeeps ==
  ASSUME JInv, Broadcast, UNCHANGED <<queueVars, mine>>
  PROVE  pc' \in [Threads -> Labels] /\ HandInv'
<1>1. pc' \in [Threads -> Labels]
  BY DEF Broadcast, JInv, JTypeOK, Labels
<1>2. \A t \in Threads : pc'[t] = pc[t] \/ (pc[t] = "wait" /\ pc'[t] = "top")
  BY DEF Broadcast
<1>3. Workers \subseteq Threads /\ Reserved \subseteq Threads
  BY DEF Threads
<1> QED BY <1>1, <1>2, <1>3 DEF JInv, HandInv, queueVars

(* A job that starts, or ends, stays in the hand of its thread. *)
LEMMA ExecuteKeeps ==
  ASSUME JInv, NEW t \in Threads, StartJob(t) \/ FinishJob(t)
  PROVE  JInv'
<1>1. mine[t] \in Jobs /\ Alive(mine[t])
  BY HeldAlive DEF StartJob, FinishJob, JInv, HandInv
<1>2. PICK s \in JobStates : SetState(mine[t], s)
  BY DEF StartJob, FinishJob, JobStates
<1>3. /\ job' \in [Jobs -> JobRecords \cup {Freed}]
      /\ SameJobs
  BY <1>1, <1>2, SetStateKeeps DEF JInv
<1>4. UNCHANGED <<queueVars, resVars, mine, clientVars>>
  BY DEF StartJob, FinishJob
<1>5. pc' \in [Threads -> Labels] /\ HandInv'
  <2>1. CASE StartJob(t)
    <3>1. "execute" \in Labels /\ Goto(t, "execute") /\ pc[t] = "start"
      BY <2>1 DEF StartJob, Labels
    <3> QED BY <1>4, <3>1, HandStays DEF queueVars
  <2>2. CASE FinishJob(t)
    <3>1. AfterJob(t) \in Labels /\ Goto(t, AfterJob(t)) /\ pc[t] = "execute"
      BY <2>2 DEF FinishJob, AfterJob, Labels
    <3> QED BY <1>4, <3>1, HandStays DEF queueVars
  <2> QED BY <2>1, <2>2
<1>6. JTypeOK'
  BY <1>3, <1>4, <1>5 DEF JInv, JTypeOK, ClientsOK, queueVars, resVars, clientVars
<1>7. \A q \in Queues : Distinct(queues'[q]) /\ Members(queues'[q]) = Members(queues[q])
  BY <1>4 DEF JInv, ListInv, queueVars
<1>8. UNCHANGED <<scheduled, export_scheduled, job_res, mine>>
  BY <1>4 DEF queueVars, resVars
<1> QED BY <1>3, <1>5, <1>6, <1>7, <1>8, NobodyMoves

(* A step that neither lists nor takes a job, but of the workers' jobs     *)
(* shows only some: dt_control_run_job() takes its job out of the          *)
(* scheduled array, and the export is over when it was one.                *)
LEMMA ClearKeeps ==
  ASSUME JInv, NEW w \in Workers, Clear(w)
  PROVE  JInv'
<1>1. /\ w \in Threads /\ pc[w] = "clear" /\ scheduled[w] = mine[w] /\ mine[w] # NoJob
  BY DEF Clear, JInv, HandInv, Threads
<1>2. /\ UNCHANGED <<queues, queue_length, job_res, job, mine, creq, cpc>>
      /\ Goto(w, "dispose")
      /\ scheduled' = [scheduled EXCEPT ![w] = NoJob]
      /\ export_scheduled' = (export_scheduled /\ job[mine[w]].queue # USER_EXPORT)
  BY DEF Clear, resVars, clientVars
<1>3. JTypeOK'
  BY <1>1, <1>2 DEF JInv, JTypeOK, ClientsOK, Goto, Labels, JobOrNone
<1>4. HandInv'
  <2>1. pc'[w] = "dispose" /\ \A u \in Threads \ {w} : pc'[u] = pc[u]
    BY <1>1, <1>2 DEF Goto, JInv, JTypeOK
  <2>2. Workers \subseteq Threads /\ Reserved \subseteq Threads /\ w \notin Reserved
    BY JobsAssumption DEF Threads
  <2>3. scheduled'[w] = NoJob /\ \A v \in Workers \ {w} : scheduled'[v] = scheduled[v]
    BY <1>2 DEF JInv, JTypeOK
  <2> QED BY <1>1, <1>2, <2>1, <2>2, <2>3 DEF JInv, HandInv
<1>5. ListInv'
  BY <1>2 DEF JInv, ListInv
<1>6. OwnInv'
  BY <1>2 DEF JInv, OwnInv, Alive, Listed, InSlot, InHand
<1>7. ASSUME NEW v \in Workers
      PROVE  scheduled'[v] = IF v = w THEN NoJob ELSE scheduled[v]
  BY <1>2 DEF JInv, JTypeOK
<1>8. CopyInv'
  <2>1. ASSUME NEW j \in Jobs, Known(j)' PROVE Known(j)
    BY <1>2, <1>7, <2>1, JobsAssumption DEF Known, Listed
  <2> QED BY <1>2, <2>1 DEF JInv, CopyInv
<1>9. ExportInv'
  <2>1. ASSUME NEW v \in Workers PROVE Exporting(v)' <=> Exporting(v) /\ v # w
    BY <1>2, <1>7 DEF Exporting
  <2>2. Exporting(w) <=> job[mine[w]].queue = USER_EXPORT
    BY <1>1 DEF Exporting
  <2>3. CASE Exporting(w)
    <3>1. \A v \in Workers : ~Exporting(v)'
      BY <2>1, <2>3 DEF JInv, ExportInv
    <3>2. ~export_scheduled'
      BY <1>2, <2>2, <2>3
    <3> QED BY <3>1, <3>2 DEF ExportInv
  <2>4. CASE ~Exporting(w)
    <3>1. \A v \in Workers : Exporting(v)' <=> Exporting(v)
      BY <2>1, <2>4
    <3>2. export_scheduled' <=> export_scheduled
      BY <1>2, <2>2, <2>4
    <3> QED BY <3>1, <3>2 DEF JInv, ExportInv
  <2> QED BY <2>3, <2>4
<1> QED BY <1>3, <1>4, <1>5, <1>6, <1>8, <1>9 DEF JInv

-----------------------------------------------------------------------------
(* The scheduler. *)

(* Of some queues one has the first of the largest priorities. *)
LEMMA FirstLargest ==
  ASSUME NEW C \in SUBSET Queues, C # {}, NEW h \in [C -> Int]
  PROVE  \E q \in C : \A p \in C : h[p] < h[q] \/ (h[p] = h[q] /\ q <= p)
<1> DEFINE Best(q, n) == /\ q \in C /\ q <= n
                         /\ \A p \in C : p <= n => h[p] < h[q] \/ (h[p] = h[q] /\ q <= p)
           Upto(n) == (\A p \in C : p > n) \/ \E q \in C : Best(q, n)
<1>1. ASSUME NEW n \in 0 .. 3, Upto(n) PROVE Upto(n + 1)
  <2>1. CASE n + 1 \notin C
    BY SMTT(60), <1>1, <2>1 DEF Queues
  <2>2. CASE n + 1 \in C /\ \A p \in C : p > n
    <3>1. Best(n + 1, n + 1)
      BY SMTT(60), <2>2 DEF Queues
    <3> QED BY <2>2, <3>1
  <2>3. ASSUME n + 1 \in C, NEW q \in C, Best(q, n) PROVE Upto(n + 1)
    <3>1. CASE h[n + 1] <= h[q]
      <4>1. Best(q, n + 1)
        BY SMTT(60), <2>3, <3>1 DEF Queues
      <4> QED BY <4>1
    <3>2. CASE h[n + 1] > h[q]
      <4>1. ASSUME NEW p \in C, p <= n + 1
            PROVE  h[p] < h[n + 1] \/ (h[p] = h[n + 1] /\ n + 1 <= p)
        <5>1. h[p] \in Int /\ h[q] \in Int /\ h[n + 1] \in Int /\ p \in Int
          BY SMTT(60), <2>3 DEF Queues
        <5>2. CASE p = n + 1
          BY SMTT(60), <5>1, <5>2
        <5>3. CASE p <= n
          <6>1. h[p] < h[q] \/ h[p] = h[q]
            BY <2>3, <5>3
          <6> QED BY SMTT(60), <3>2, <5>1, <6>1
        <5> QED BY SMTT(60), <4>1, <5>1, <5>2, <5>3
      <4>2. Best(n + 1, n + 1)
        BY SMTT(60), <2>3, <4>1
      <4> QED BY <2>3, <4>2
    <3> QED BY SMTT(60), <2>3, <3>1, <3>2
  <2> QED BY <1>1, <2>1, <2>2, <2>3
<1>2. Upto(0)
  BY SMTT(60) DEF Queues
<1>3. Upto(4)
  <2> HIDE DEF Upto
  <2>1. Upto(1)
    BY SMTT(60), <1>1, <1>2
  <2>2. Upto(2)
    BY SMTT(60), <1>1, <2>1
  <2>3. Upto(3)
    BY SMTT(60), <1>1, <2>2
  <2> QED BY SMTT(60), <1>1, <2>3
<1>4. \A p \in C : p <= 4 /\ ~(p > 4)
  BY SMTT(60) DEF Queues
<1>5. PICK q \in C : Best(q, 4)
  BY <1>3, <1>4
<1> QED BY <1>4, <1>5

(* dt_control_schedule_job() takes a job from a queue that has one. *)
LEMMA WinnerIsCandidate ==
  ASSUME JInv, Candidates # {}
  PROVE  Winner \in Candidates
<1> DEFINE h == [q \in Candidates |-> HeadPriority(q)]
<1>1. ASSUME NEW q \in Candidates PROVE HeadPriority(q) \in Int
  <2>1. q \in Queues /\ queues[q] \in Seq(Jobs) /\ queues[q] # <<>> /\ Distinct(queues[q])
    BY DEF Candidates, JInv, JTypeOK, ListInv
  <2>2. Head(queues[q]) \in Members(queues[q])
    BY <2>1, TailMembers
  <2>3. job[Head(queues[q])] \in JobRecords
    BY <2>1, <2>2, ListedAlive
  <2> QED BY <2>3 DEF HeadPriority, JobRecords
<1>2. h \in [Candidates -> Int] /\ Candidates \in SUBSET Queues
  BY <1>1 DEF Candidates
<1>3. \E q \in Candidates : \A p \in Candidates : h[p] < h[q] \/ (h[p] = h[q] /\ q <= p)
  <2> HIDE DEF h
  <2> QED BY <1>2, FirstLargest
<1>4. \E q \in Candidates : \A p \in Candidates :
        \/ HeadPriority(p) < HeadPriority(q)
        \/ HeadPriority(p) = HeadPriority(q) /\ q <= p
  <2>1. \A q \in Candidates : h[q] = HeadPriority(q)
    OBVIOUS
  <2> HIDE DEF h
  <2> QED BY <1>3, <2>1
<1> QED BY <1>4 DEF Winner

(* The heads that lose a round gain priority and stay what they are. *)
LEMMA AgedKeeps ==
  ASSUME JInv, NEW q \in Queues, job' = Aged(q)
  PROVE  job' \in [Jobs -> JobRecords \cup {Freed}] /\ SameJobs
<1>1. ASSUME NEW j \in HeadsBut(q) PROVE j \in Jobs /\ job[j] \in JobRecords /\ Alive(j)
  <2>1. PICK p \in Queues : queues[p] # <<>> /\ j = Head(queues[p])
    BY DEF HeadsBut
  <2>2. queues[p] \in Seq(Jobs) /\ Distinct(queues[p])
    BY DEF JInv, JTypeOK, ListInv
  <2>3. j \in Members(queues[p])
    BY <2>1, <2>2, TailMembers
  <2> QED BY <2>3, ListedAlive
<1>2. ASSUME NEW r \in JobRecords
      PROVE  /\ [r EXCEPT !.priority = (r.priority + 1) % PriorityMod] \in JobRecords
             /\ [r EXCEPT !.priority = (r.priority + 1) % PriorityMod].queue = r.queue
             /\ [r EXCEPT !.priority = (r.priority + 1) % PriorityMod].kind = r.kind
  <2>1. (r.priority + 1) % PriorityMod \in Int
    BY SMTT(60), JobsAssumption DEF JobRecords
  <2>2. ASSUME NEW n \in Int
        PROVE  /\ [r EXCEPT !.priority = n] \in JobRecords
               /\ [r EXCEPT !.priority = n].queue = r.queue
               /\ [r EXCEPT !.priority = n].kind = r.kind
    BY DEF JobRecords
  <2> QED BY <2>1, <2>2
<1>3. ASSUME NEW j \in Jobs
      PROVE  /\ job'[j] \in JobRecords \cup {Freed}
             /\ Alive(j)' <=> Alive(j)
             /\ Alive(j) => job'[j].queue = job[j].queue /\ job'[j].kind = job[j].kind
  <2>1. CASE j \in HeadsBut(q)
    <3>1. job'[j] = [job[j] EXCEPT !.priority = (job[j].priority + 1) % PriorityMod]
      BY <2>1 DEF Aged
    <3>2. job[j] \in JobRecords /\ Alive(j)
      BY <1>1, <2>1
    <3>3. /\ job'[j] \in JobRecords
          /\ job'[j].queue = job[j].queue /\ job'[j].kind = job[j].kind
      BY <1>2, <3>1, <3>2
    <3>4. Alive(j)'
      BY <3>3, RecordAlive DEF Alive
    <3> QED BY <3>2, <3>3, <3>4
  <2>2. CASE j \notin HeadsBut(q)
    <3>1. job'[j] = job[j]
      BY <2>2 DEF Aged
    <3> QED BY <3>1 DEF Alive, JInv, JTypeOK
  <2> QED BY <2>1, <2>2
<1>4. job' = [j \in Jobs |-> job'[j]]
  BY DEF Aged
<1> QED BY <1>3, <1>4 DEF SameJobs

(* dt_control_schedule_job(): the head of a queue goes to a worker that *)
(* has nothing in hand.                                                 *)
LEMMA ScheduleKeeps ==
  ASSUME JInv, NEW w \in Workers, Schedule(w)
  PROVE  JInv'
<1> DEFINE q == Winner
           j == Head(queues[q])
<1>1. /\ pc[w] = "schedule" /\ Candidates # {}
      /\ queues' = [queues EXCEPT ![q] = Tail(queues[q])]
      /\ queue_length' = [queue_length EXCEPT ![q] = queue_length[q] - 1]
      /\ export_scheduled' = (export_scheduled \/ q = USER_EXPORT)
      /\ scheduled' = [scheduled EXCEPT ![w] = j]
      /\ mine' = [mine EXCEPT ![w] = j]
      /\ job' = Aged(q)
      /\ Goto(w, "check")
      /\ UNCHANGED <<job_res, creq, cpc>>
  BY DEF Schedule, ExportNow, resVars, clientVars
<1>2. /\ q \in Queues /\ queues[q] # <<>> /\ (q = USER_EXPORT => ~export_scheduled)
      /\ queues[q] \in Seq(Jobs) /\ Distinct(queues[q])
  <2>1. q \in Candidates
    BY <1>1, WinnerIsCandidate
  <2> HIDE DEF q
  <2> QED BY <2>1 DEF Candidates, JInv, JTypeOK, ListInv
<1> HIDE DEF q
<1>3. /\ Tail(queues[q]) \in Seq(Jobs) /\ Len(Tail(queues[q])) = Len(queues[q]) - 1
      /\ j \in Members(queues[q]) /\ Distinct(Tail(queues[q]))
      /\ Members(Tail(queues[q])) = Members(queues[q]) \ {j}
  BY <1>2, TailMembers
<1> HIDE DEF j
<1>4. j \in Jobs /\ Listed(j) /\ Alive(j) /\ job[j].queue = q /\ j # NoJob
  BY <1>2, <1>3, ListedAlive, JobsAssumption DEF JInv, ListInv
<1>5. /\ w \in Threads /\ w \notin Reserved /\ mine[w] = NoJob /\ scheduled[w] = NoJob
      /\ Workers \subseteq Threads /\ Reserved \subseteq Threads
  BY <1>1, JobsAssumption DEF JInv, HandInv, Threads
<1>6. job' \in [Jobs -> JobRecords \cup {Freed}] /\ SameJobs
  BY <1>1, <1>2, AgedKeeps
<1>7. /\ queues' \in [Queues -> Seq(Jobs)]
      /\ queue_length' = [p \in Queues |-> Len(queues'[p])]
      /\ queues'[q] = Tail(queues[q]) /\ \A p \in Queues \ {q} : queues'[p] = queues[p]
  <2>1. queue_length[q] - 1 = Len(Tail(queues[q]))
    BY <1>2, <1>3 DEF JInv, JTypeOK
  <2>2. queue_length' = [queue_length EXCEPT ![q] = Len(Tail(queues[q]))]
    BY <1>1, <2>1
  <2> QED BY <1>1, <1>2, <1>3, <2>2, QueueUpdate DEF JInv
<1>8. /\ scheduled' \in [Workers -> JobOrNone] /\ mine' \in [Threads -> JobOrNone]
      /\ pc' \in [Threads -> Labels]
      /\ \A v \in Workers : scheduled'[v] = IF v = w THEN j ELSE scheduled[v]
      /\ \A t \in Threads : mine'[t] = IF t = w THEN j ELSE mine[t]
      /\ \A t \in Threads : pc'[t] = IF t = w THEN "check" ELSE pc[t]
  BY <1>1, <1>4, <1>5 DEF JInv, JTypeOK, JobOrNone, Labels, Goto
<1>9. JTypeOK'
  <2>1. ClientsOK' /\ job_res' \in [Reserved -> JobOrNone]
    BY <1>1 DEF JInv, JTypeOK, ClientsOK
  <2> QED BY <1>6, <1>7, <1>8, <2>1 DEF JTypeOK
<1>10. HandInv'
  BY <1>4, <1>5, <1>8 DEF JInv, HandInv
<1>11. ASSUME NEW p \in Queues
       PROVE  /\ Distinct(queues'[p])
              /\ Members(queues'[p]) = IF p = q THEN Members(queues[q]) \ {j}
                                       ELSE Members(queues[p])
  BY <1>3, <1>7 DEF JInv, ListInv
<1>12. ListInv'
  <2>1. ASSUME NEW p \in Queues, NEW i \in Members(queues'[p])
        PROVE  job'[i].queue = p
    <3>1. i \in Members(queues[p])
      BY <1>11
    <3> QED BY <1>6, <3>1, ListedAlive DEF JInv, ListInv, SameJobs
  <2> QED BY <1>11, <2>1 DEF ListInv
<1>13. ASSUME NEW i \in Jobs
       PROVE  (Listed(i)' <=> Listed(i) /\ i # j) /\ (InSlot(i)' <=> InSlot(i))
              /\ (InHand(i)' <=> InHand(i) \/ i = j)
  <2>1. Listed(i)' <=> Listed(i) /\ i # j
    <3>1. ASSUME NEW p \in Queues PROVE i \in Members(queues'[p]) <=> i \in Members(queues[p]) /\ i # j
      BY <1>3, <1>4, <1>11 DEF JInv, ListInv
    <3> QED BY <3>1 DEF Listed
  <2>2. InHand(i)' <=> InHand(i) \/ i = j
    BY <1>5, <1>8, JobsAssumption DEF InHand
  <2>3. InSlot(i)' <=> InSlot(i)
    BY <1>1 DEF InSlot
  <2> QED BY <2>1, <2>2, <2>3
<1>14. OwnInv'
  <2>1. ASSUME NEW i \in Jobs
        PROVE  /\ Alive(i)' <=> Listed(i)' \/ InSlot(i)' \/ InHand(i)'
               /\ ~(Listed(i)' /\ InSlot(i)') /\ ~(Listed(i)' /\ InHand(i)')
               /\ ~(InSlot(i)' /\ InHand(i)')
    BY <1>4, <1>6, <1>13 DEF JInv, OwnInv, SameJobs
  <2>2. \A t \in Threads : mine[t] # j
    BY <1>4 DEF JInv, OwnInv, InHand
  <2>3. \A t, u \in Threads : mine'[t] = mine'[u] => t = u \/ mine'[t] = NoJob
    BY SMTT(60), <1>8, <2>2 DEF JInv, OwnInv
  <2> QED BY <1>1, <2>1, <2>3 DEF JInv, OwnInv
<1>15. CopyInv'
  <2>1. ASSUME NEW i \in Jobs, Known(i)' PROVE Known(i) /\ Alive(i)
    <3>1. Known(i)
      BY <1>4, <1>8, <1>13, <2>1 DEF Known
    <3> QED BY <3>1, ListedAlive, ScheduledAlive, JobsAssumption DEF Known, Listed
  <2> QED BY <1>6, <2>1 DEF JInv, CopyInv, SameJobs
<1>16. ExportInv'
  <2>1. ASSUME NEW v \in Workers
        PROVE  Exporting(v)' <=> IF v = w THEN q = USER_EXPORT ELSE Exporting(v)
    <3>1. CASE v = w
      BY <1>4, <1>6, <1>8, <3>1 DEF Exporting, SameJobs
    <3>2. CASE v # w
      BY SMTT(60), <1>6, <1>8, <3>2, ScheduledAlive DEF Exporting, SameJobs
    <3> QED BY <3>1, <3>2
  <2>2. ~Exporting(w)
    BY <1>5 DEF Exporting
  <2>3. CASE q = USER_EXPORT
    <3>1. ~export_scheduled /\ \A v \in Workers : ~Exporting(v)
      BY <1>2, <2>3 DEF JInv, ExportInv
    <3>2. export_scheduled' /\ \A v \in Workers : Exporting(v)' <=> v = w
      BY <1>1, <2>1, <2>3, <3>1
    <3> QED BY <3>2 DEF ExportInv
  <2>4. CASE q # USER_EXPORT
    <3>1. export_scheduled' <=> export_scheduled
      BY <1>1, <2>4
    <3>2. \A v \in Workers : Exporting(v)' <=> Exporting(v)
      BY <2>1, <2>2, <2>4
    <3> QED BY <3>1, <3>2 DEF JInv, ExportInv
  <2> QED BY <2>3, <2>4
<1> QED BY <1>9, <1>10, <1>12, <1>14, <1>15, <1>16 DEF JInv

(* dt_control_job_dispose(): the thread frees the job that only it has. *)
LEMMA DisposeKeeps ==
  ASSUME JInv, NEW t \in Threads, Dispose(t)
  PROVE  JInv'
<1> DEFINE j == mine[t]
<1>1. /\ pc[t] = "dispose" /\ job' = [job EXCEPT ![j] = Freed]
      /\ mine' = [mine EXCEPT ![t] = NoJob] /\ Goto(t, "top")
      /\ UNCHANGED <<queues, queue_length, scheduled, export_scheduled, job_res, creq, cpc>>
  BY DEF Dispose, queueVars, resVars, clientVars
<1>2. j # NoJob /\ j \in Jobs /\ Alive(j) /\ InHand(j) /\ ~Listed(j) /\ ~InSlot(j)
  <2>1. j # NoJob
    BY <1>1 DEF JInv, HandInv
  <2>2. InHand(j)
    BY DEF InHand
  <2> QED BY <2>1, <2>2, HeldAlive DEF JInv, OwnInv
<1>3. \A u \in Threads \ {t} : mine[u] # j
  BY <1>2 DEF JInv, OwnInv
<1> HIDE DEF j
<1>4. /\ job' \in [Jobs -> JobRecords \cup {Freed}]
      /\ job'[j] = Freed /\ \A i \in Jobs \ {j} : job'[i] = job[i]
  BY <1>1, <1>2 DEF JInv, JTypeOK
<1>5. /\ mine' \in [Threads -> JobOrNone] /\ pc' \in [Threads -> Labels]
      /\ \A u \in Threads : mine'[u] = IF u = t THEN NoJob ELSE mine[u]
      /\ \A u \in Threads : pc'[u] = IF u = t THEN "top" ELSE pc[u]
  BY <1>1 DEF JInv, JTypeOK, JobOrNone, Labels, Goto
<1>6. JTypeOK'
  <2>1. /\ ClientsOK' /\ job_res' \in [Reserved -> JobOrNone]
        /\ scheduled' \in [Workers -> JobOrNone]
    BY <1>1 DEF JInv, JTypeOK, ClientsOK
  <2>2. /\ queues' \in [Queues -> Seq(Jobs)]
        /\ queue_length' = [q \in Queues |-> Len(queues'[q])]
    BY <1>1 DEF JInv, JTypeOK
  <2> QED BY <1>4, <1>5, <2>1, <2>2 DEF JTypeOK
<1>7. Workers \subseteq Threads /\ Reserved \subseteq Threads
  BY DEF Threads
<1>8. HandInv'
  BY <1>1, <1>5, <1>7 DEF JInv, HandInv
<1>9. ASSUME NEW q \in Queues, NEW i \in Members(queues[q])
      PROVE  i \in Jobs \ {j}
  BY <1>2, ListedAlive DEF Listed
<1>10. ASSUME NEW w \in Workers, scheduled[w] # NoJob
       PROVE  scheduled[w] \in Jobs \ {j}
  <2>1. w # t
    BY <1>1, <1>10 DEF JInv, HandInv
  <2> QED BY <1>3, <1>10, <2>1, ScheduledAlive
<1>11. ListInv'
  BY <1>1, <1>4, <1>9 DEF JInv, ListInv
<1>12. OwnInv'
  <2>1. ASSUME NEW i \in Jobs
        PROVE  /\ Listed(i)' <=> Listed(i)
               /\ InSlot(i)' <=> InSlot(i)
               /\ InHand(i)' <=> InHand(i) /\ i # j
               /\ Alive(i)' <=> Alive(i) /\ i # j
    <3>1. (Listed(i)' <=> Listed(i)) /\ (InSlot(i)' <=> InSlot(i))
      BY <1>1 DEF Listed, InSlot
    <3>2. InHand(i)' <=> InHand(i) /\ i # j
      BY <1>3, <1>5, JobsAssumption DEF InHand, j
    <3>3. Alive(i)' <=> Alive(i) /\ i # j
      BY <1>4 DEF Alive
    <3> QED BY <3>1, <3>2, <3>3
  <2>2. \A u, v \in Threads : mine'[u] = mine'[v] => u = v \/ mine'[u] = NoJob
    BY <1>5 DEF JInv, OwnInv
  <2>3. ASSUME NEW i \in Jobs
        PROVE  /\ Alive(i)' <=> Listed(i)' \/ InSlot(i)' \/ InHand(i)'
               /\ ~(Listed(i)' /\ InSlot(i)') /\ ~(Listed(i)' /\ InHand(i)')
               /\ ~(InSlot(i)' /\ InHand(i)')
    BY <1>2, <2>1 DEF JInv, OwnInv
  <2> QED BY <1>1, <2>2, <2>3 DEF JInv, OwnInv
<1>13. CopyInv'
  <2>1. ASSUME NEW i \in Jobs, Known(i)' PROVE Known(i) /\ i # j
    BY <1>1, <1>9, <1>10, <2>1, JobsAssumption DEF Known, Listed
  <2> QED BY <1>4, <2>1 DEF JInv, CopyInv
<1>14. ExportInv'
  <2>1. ASSUME NEW w \in Workers PROVE Exporting(w)' <=> Exporting(w)
    BY <1>1, <1>4, <1>10 DEF Exporting
  <2> QED BY <1>1, <2>1 DEF JInv, ExportInv
<1> QED BY <1>6, <1>8, <1>11, <1>12, <1>13, <1>14 DEF JInv

(* dt_control_run_job_res(): the job in the slot goes to its thread, which *)
(* has nothing in hand.                                                    *)
LEMMA TakeReservedKeeps ==
  ASSUME JInv, NEW r \in Reserved, TakeReserved(r)
  PROVE  JInv'
<1> DEFINE j == job_res[r]
<1>1. /\ pc[r] = "schedule"
      /\ mine' = [mine EXCEPT ![r] = j] /\ job_res' = [job_res EXCEPT ![r] = NoJob]
      /\ Goto(r, IF j = NoJob THEN "sleep" ELSE "check")
      /\ UNCHANGED <<queues, queue_length, scheduled, export_scheduled, job, creq, cpc>>
  BY DEF TakeReserved, queueVars, clientVars
<1>2. /\ r \in Threads /\ r \notin Workers /\ mine[r] = NoJob /\ j \in JobOrNone
      /\ Workers \subseteq Threads /\ Reserved \subseteq Threads
  <2>1. /\ r \in Threads /\ r \notin Workers
        /\ Workers \subseteq Threads /\ Reserved \subseteq Threads
    BY JobsAssumption DEF Threads
  <2>2. mine[r] = NoJob
    BY <1>1, <2>1 DEF JInv, HandInv
  <2>3. j \in JobOrNone
    BY DEF JInv, JTypeOK
  <2> QED BY <2>1, <2>2, <2>3
<1>3. \A s \in Reserved \ {r} : job_res[s] # j \/ j = NoJob
  BY DEF JInv, OwnInv
<1>4. j # NoJob => InSlot(j) /\ \A t \in Threads : mine[t] # j
  BY <1>2 DEF JInv, OwnInv, InSlot, InHand, JobOrNone
<1> HIDE DEF j
<1>5. /\ mine' \in [Threads -> JobOrNone] /\ pc' \in [Threads -> Labels]
      /\ job_res' \in [Reserved -> JobOrNone]
      /\ \A u \in Threads : mine'[u] = IF u = r THEN j ELSE mine[u]
      /\ \A s \in Reserved : job_res'[s] = IF s = r THEN NoJob ELSE job_res[s]
      /\ \A u \in Threads \ {r} : pc'[u] = pc[u]
      /\ pc'[r] = IF j = NoJob THEN "sleep" ELSE "check"
  BY <1>1, <1>2 DEF JInv, JTypeOK, JobOrNone, Labels, Goto
<1>6. JTypeOK'
  <2>1. ClientsOK' /\ scheduled' \in [Workers -> JobOrNone]
    BY <1>1 DEF JInv, JTypeOK, ClientsOK
  <2>2. /\ queues' \in [Queues -> Seq(Jobs)]
        /\ queue_length' = [q \in Queues |-> Len(queues'[q])]
        /\ job' \in [Jobs -> JobRecords \cup {Freed}]
    BY <1>1 DEF JInv, JTypeOK
  <2> QED BY <1>5, <2>1, <2>2 DEF JTypeOK
<1>7. HandInv'
  BY SMTT(60), <1>1, <1>2, <1>5 DEF JInv, HandInv
<1>8. ListInv' /\ CopyInv' /\ ExportInv'
  <2>1. ListInv'
    BY <1>1 DEF JInv, ListInv
  <2>2. CopyInv'
    BY <1>1 DEF JInv, CopyInv, Known, Listed
  <2>3. ExportInv'
    BY <1>1 DEF JInv, ExportInv, Exporting
  <2> QED BY <2>1, <2>2, <2>3
<1>9. OwnInv'
  <2>1. ASSUME NEW i \in Jobs
        PROVE  /\ Listed(i)' <=> Listed(i)
               /\ InSlot(i)' <=> InSlot(i) /\ i # j
               /\ InHand(i)' <=> InHand(i) \/ i = j
               /\ Alive(i)' <=> Alive(i)
    <3>1. (Listed(i)' <=> Listed(i)) /\ (Alive(i)' <=> Alive(i))
      BY <1>1 DEF Listed, Alive
    <3>2. InHand(i)' <=> InHand(i) \/ i = j
      BY <1>2, <1>5, JobsAssumption DEF InHand
    <3>3. InSlot(i)' <=> InSlot(i) /\ i # j
      BY <1>3, <1>5, JobsAssumption DEF InSlot, j
    <3> QED BY <3>1, <3>2, <3>3
  <2>2. \A u, v \in Threads : mine'[u] = mine'[v] => u = v \/ mine'[u] = NoJob
    BY SMTT(60), <1>4, <1>5 DEF JInv, OwnInv
  <2>3. \A s, u \in Reserved : job_res'[s] = job_res'[u] => s = u \/ job_res'[s] = NoJob
    BY SMTT(60), <1>5 DEF JInv, OwnInv
  <2>4. ASSUME NEW i \in Jobs
        PROVE  /\ Alive(i)' <=> Listed(i)' \/ InSlot(i)' \/ InHand(i)'
               /\ ~(Listed(i)' /\ InSlot(i)') /\ ~(Listed(i)' /\ InHand(i)')
               /\ ~(InSlot(i)' /\ InHand(i)')
    <3>1. i = j => InSlot(i)
      BY <1>4, JobsAssumption
    <3> QED BY <2>1, <3>1 DEF JInv, OwnInv
  <2> QED BY <2>2, <2>3, <2>4 DEF OwnInv
<1> QED BY <1>6, <1>7, <1>8, <1>9 DEF JInv

-----------------------------------------------------------------------------
(* The steps of the clients. *)

(* What a client asks for becomes the record of a job of this class. *)
LEMMA NewJobRecord ==
  ASSUME NEW req, NEW n \in Int, req.queue \in Queues, req.kind \in Kinds \cup {AnyKind},
         req.progress \in BOOLEAN
  PROVE  /\ NewJob(req, n) \in JobRecords
         /\ NewJob(req, n).queue = req.queue /\ NewJob(req, n).kind = req.kind
<1>1. NewJob(req, n) \in JobRecords
  <2>1. "queued" \in JobStates
    BY DEF JobStates
  <2> QED BY <2>1 DEF NewJob, JobRecords
<1>2. NewJob(req, n).queue = req.queue /\ NewJob(req, n).kind = req.kind
  BY DEF NewJob
<1> QED BY <1>1, <1>2

(* The job made for a request has the queue and the kind requested. *)
LEMMA RequestRecord ==
  ASSUME NEW req \in Requests, NEW n \in Int
  PROVE  /\ NewJob(req, n) \in JobRecords /\ req.queue \in Queues
         /\ NewJob(req, n).queue = req.queue /\ NewJob(req, n).kind = req.kind
<1>1. req \in [queue : Used, kind : Kinds \cup {AnyKind}, progress : {FALSE, Progress}]
  BY DEF Requests
<1>2. req.queue \in Used /\ req.kind \in Kinds \cup {AnyKind} /\ req.progress \in {FALSE, Progress}
  BY <1>1
<1>3. req.queue \in Queues
  BY <1>2, JobsAssumption
<1>4. req.progress \in BOOLEAN
  BY <1>2, JobsAssumption
<1> QED BY <1>2, <1>3, <1>4, NewJobRecord

(* A client that has inserted its job, or found a copy of it. *)
LEMMA ClientMoves ==
  ASSUME JInv, NEW c \in Clients, NEW l \in {"idle", "notify"},
         creq' = [creq EXCEPT ![c] = NoJob], cpc' = [cpc EXCEPT ![c] = l]
  PROVE  ClientsOK'
BY DEF JInv, JTypeOK, ClientsOK

(* The new job j, which is rec, joins list q, which becomes s.  The jobs   *)
(* of D are discarded and freed.  A foreground job has no copy.            *)
Joined(q, j, rec, s, D) ==
  /\ ~Alive(j) /\ rec.queue = q
  /\ Distinct(s) /\ Members(s) = (Members(queues[q]) \ D) \cup {j}
  /\ queues' = [queues EXCEPT ![q] = s]
  /\ queue_length' = [queue_length EXCEPT ![q] = Len(s)]
  /\ job' \in [Jobs -> JobRecords \cup {Freed}]
  /\ \A i \in Jobs :
       job'[i] = IF i = j THEN rec ELSE IF i \in D THEN Freed ELSE job[i]
  /\ UNCHANGED <<scheduled, export_scheduled, job_res, mine, pc>>
  /\ ClientsOK'
  /\ q = SYSTEM_FG =>
       \A i \in Jobs : Known(i) /\ job[i].queue = q => job[i].kind # rec.kind

(* A job that joins its queue, and those it discards, keep the invariant. *)
LEMMA Joins ==
  ASSUME JInv, NEW q \in Queues, NEW j \in Jobs, NEW rec \in JobRecords,
         NEW s \in Seq(Jobs), NEW D \in SUBSET Members(queues[q]), Joined(q, j, rec, s, D)
  PROVE  JInv'
<1>a. ~Alive(j) /\ rec.queue = q
  BY DEF Joined
<1>b. /\ Distinct(s) /\ Members(s) = (Members(queues[q]) \ D) \cup {j}
      /\ queues' = [queues EXCEPT ![q] = s]
      /\ queue_length' = [queue_length EXCEPT ![q] = Len(s)]
  BY DEF Joined
<1>c. /\ job' \in [Jobs -> JobRecords \cup {Freed}] /\ job'[j] = rec
      /\ \A i \in Jobs : i # j /\ i \in D => job'[i] = Freed
      /\ \A i \in Jobs : i # j /\ i \notin D => job'[i] = job[i]
  BY DEF Joined
<1>d. UNCHANGED <<scheduled, export_scheduled, job_res, mine, pc>> /\ ClientsOK'
  BY DEF Joined
<1>e. q = SYSTEM_FG =>
        \A i \in Jobs : Known(i) /\ job[i].queue = q => job[i].kind # rec.kind
  BY DEF Joined
<1>1. /\ queues' \in [Queues -> Seq(Jobs)]
      /\ queue_length' = [p \in Queues |-> Len(queues'[p])]
      /\ queues'[q] = s /\ \A p \in Queues \ {q} : queues'[p] = queues[p]
  BY <1>b, QueueUpdate DEF JInv
<1>2. JTypeOK'
  <2>1. /\ scheduled' \in [Workers -> JobOrNone] /\ job_res' \in [Reserved -> JobOrNone]
        /\ mine' \in [Threads -> JobOrNone] /\ pc' \in [Threads -> Labels]
    BY <1>d DEF JInv, JTypeOK
  <2> QED BY <1>1, <1>c, <1>d, <2>1 DEF JTypeOK
<1>3. HandInv'
  BY <1>d DEF JInv, HandInv
<1>4. ~Listed(j) /\ ~InSlot(j) /\ ~InHand(j)
  BY <1>a DEF JInv, OwnInv
<1>5. ASSUME NEW i \in D PROVE i \in Jobs /\ Alive(i) /\ Listed(i) /\ job[i].queue = q
  <2>1. i \in Members(queues[q])
    OBVIOUS
  <2> QED BY <2>1, ListedAlive DEF JInv, ListInv
<1>6. j \notin D
  BY <1>a, <1>5
<1>7. ASSUME NEW p \in Queues, NEW i
      PROVE  i \in Members(queues'[p]) <=>
               (i \in Members(queues[p]) /\ i \notin D) \/ (i = j /\ p = q)
  <2>1. CASE p = q
    BY <1>1, <1>b, <2>1
  <2>2. CASE p # q
    <3>1. queues'[p] = queues[p]
      BY <1>1, <2>2
    <3>2. i \in D => i \notin Members(queues[p])
      BY <1>5, <2>2 DEF JInv, ListInv
    <3> QED BY <2>2, <3>1, <3>2
  <2> QED BY <2>1, <2>2
<1>8. ASSUME NEW i \in Jobs
      PROVE  /\ Listed(i)' <=> (Listed(i) /\ i \notin D) \/ i = j
             /\ InSlot(i)' <=> InSlot(i)
             /\ InHand(i)' <=> InHand(i)
             /\ Alive(i)' <=> (Alive(i) /\ i \notin D) \/ i = j
  <2>1. Listed(i)' <=> (Listed(i) /\ i \notin D) \/ i = j
    BY <1>7 DEF Listed
  <2>2. (InSlot(i)' <=> InSlot(i)) /\ (InHand(i)' <=> InHand(i))
    BY <1>d DEF InSlot, InHand
  <2>3. Alive(i)' <=> (Alive(i) /\ i \notin D) \/ i = j
    BY <1>6, <1>c, RecordAlive DEF Alive
  <2> QED BY <2>1, <2>2, <2>3
<1>9. ListInv'
  <2>1. ASSUME NEW p \in Queues PROVE Distinct(queues'[p])
    BY <1>1, <1>b DEF JInv, ListInv
  <2>2. ASSUME NEW p \in Queues, NEW i \in Members(queues'[p]) PROVE job'[i].queue = p
    <3>1. CASE i = j
      <4>1. p = q
        BY <1>4, <1>7, <3>1 DEF Listed
      <4> QED BY <1>a, <1>c, <3>1, <4>1
    <3>2. CASE i # j
      <4>1. i \in Members(queues[p]) /\ i \notin D
        BY <1>7, <3>2
      <4>2. i \in Jobs
        BY <4>1, ListedAlive
      <4> QED BY <1>c, <3>2, <4>1, <4>2 DEF JInv, ListInv
    <3> QED BY <3>1, <3>2
  <2> QED BY <2>1, <2>2 DEF ListInv
<1>10. OwnInv'
  <2>1. ASSUME NEW i \in Jobs
        PROVE  /\ Alive(i)' <=> Listed(i)' \/ InSlot(i)' \/ InHand(i)'
               /\ ~(Listed(i)' /\ InSlot(i)') /\ ~(Listed(i)' /\ InHand(i)')
               /\ ~(InSlot(i)' /\ InHand(i)')
    <3>1. i \in D => Listed(i)
      BY <1>5
    <3> QED BY <1>4, <1>8, <3>1 DEF JInv, OwnInv
  <2> QED BY <1>d, <2>1 DEF JInv, OwnInv
<1>11. ASSUME NEW w \in Workers, scheduled[w] # NoJob
       PROVE  scheduled[w] \in Jobs /\ job'[scheduled[w]] = job[scheduled[w]]
  <2>1. scheduled[w] \in Jobs /\ InHand(scheduled[w])
    BY <1>11, ScheduledAlive DEF InHand
  <2>2. scheduled[w] # j /\ scheduled[w] \notin D
    BY <1>4, <1>5, <2>1 DEF JInv, OwnInv
  <2> QED BY <1>c, <2>1, <2>2
<1>12. CopyInv'
  <2>1. ASSUME NEW i \in Jobs, Known(i)'
        PROVE  i = j \/ (Known(i) /\ job'[i] = job[i])
    <3>1. CASE Listed(i)'
      BY <1>8, <1>c, <3>1 DEF Known
    <3>2. ASSUME NEW w \in Workers, scheduled'[w] = i
          PROVE  Known(i) /\ job'[i] = job[i]
      BY <1>11, <1>d, <3>2, JobsAssumption DEF Known
    <3> QED BY <2>1, <3>1, <3>2 DEF Known
  <2>2. ASSUME NEW i \in Jobs, NEW k \in Jobs, Known(i)', Known(k)',
               job'[i].queue = SYSTEM_FG, job'[k].queue = SYSTEM_FG,
               job'[i].kind = job'[k].kind
        PROVE  i = k
    <3>1. CASE i # j /\ k # j
      BY <2>1, <2>2, <3>1 DEF JInv, CopyInv
    <3>2. CASE i = j /\ k # j
      BY <1>a, <1>c, <1>e, <2>1, <2>2, <3>2
    <3>3. CASE i # j /\ k = j
      BY <1>a, <1>c, <1>e, <2>1, <2>2, <3>3
    <3> QED BY <3>1, <3>2, <3>3
  <2> QED BY <2>2 DEF CopyInv
<1>13. ExportInv'
  <2>1. ASSUME NEW w \in Workers PROVE Exporting(w)' <=> Exporting(w)
    BY <1>11, <1>d DEF Exporting
  <2> QED BY <1>d, <2>1 DEF JInv, ExportInv
<1> QED BY <1>2, <1>3, <1>9, <1>10, <1>12, <1>13 DEF JInv

(* dt_control_add_job() finds no copy: no job it knows is equal. *)
LEMMA NoCopyFound ==
  ASSUME JInv, NEW req, req.queue = SYSTEM_FG, ~AlreadyScheduled(req),
         CopiesInQueue(req) = {}, NEW i \in Jobs, Known(i), job[i].queue = SYSTEM_FG
  PROVE  job[i].kind # req.kind
<1>1. CASE Listed(i)
  <2>1. PICK q \in Queues : i \in Members(queues[q])
    BY <1>1 DEF Listed
  <2>2. q = SYSTEM_FG
    BY <2>1 DEF JInv, ListInv
  <2>3. PICK n \in 1 .. Len(queues[SYSTEM_FG]) : queues[SYSTEM_FG][n] = i
    BY <2>1, <2>2 DEF Members
  <2> QED BY <2>3 DEF CopiesInQueue, SameJob
<1>2. ASSUME NEW w \in Workers, scheduled[w] = i PROVE job[i].kind # req.kind
  BY <1>2, JobsAssumption DEF AlreadyScheduled, SameJob
<1> QED BY <1>1, <1>2 DEF Known

(* A new job goes on top of the stack, of which the last one may have to go. *)
LEMMA InsertTopKeeps ==
  ASSUME JInv, NEW c \in Clients, NEW j \in Jobs, InsertTop(c, j)
  PROVE  JInv'
<1> DEFINE q == queues[SYSTEM_FG]
           rec == NewJob(creq[c], FgPriority)
<1>1. /\ creq[c] \in Requests /\ creq[c].queue = SYSTEM_FG /\ ~Alive(j)
      /\ ~AlreadyScheduled(creq[c]) /\ CopiesInQueue(creq[c]) = {}
  BY DEF InsertTop, JInv, JTypeOK, ClientsOK
<1>2. rec \in JobRecords /\ rec.queue = SYSTEM_FG /\ rec.kind = creq[c].kind
  BY SMTT(60), <1>1, RequestRecord, JobsAssumption
<1>3. SYSTEM_FG \in Queues /\ q \in Seq(Jobs) /\ Distinct(q) /\ queue_length[SYSTEM_FG] = Len(q)
  BY SMTT(60) DEF Queues, SYSTEM_FG, JInv, JTypeOK, ListInv
<1>4. j \notin Members(q)
  BY <1>1, <1>3, ListedAlive
<1>5. ClientsOK'
  <2>1. /\ creq' = [creq EXCEPT ![c] = NoJob] /\ cpc' = [cpc EXCEPT ![c] = "notify"]
        /\ "notify" \in {"idle", "notify"}
    BY DEF InsertTop
  <2> QED BY <2>1, ClientMoves
<1>6. UNCHANGED <<scheduled, export_scheduled, job_res, mine, pc>>
  BY DEF InsertTop, resVars, workVars
<1>7. \A i \in Jobs : Known(i) /\ job[i].queue = SYSTEM_FG => job[i].kind # rec.kind
  BY <1>1, <1>2, NoCopyFound
<1>8. job \in [Jobs -> JobRecords \cup {Freed}]
  BY DEF JInv, JTypeOK
<1>9. CASE Full
  <2>1. /\ queues' = [queues EXCEPT ![SYSTEM_FG] = Prepend(DeleteLink(q, Len(q)), j)]
        /\ job' = [job EXCEPT ![j] = rec, ![q[Len(q)]] = Freed]
        /\ queue_length' = queue_length
    BY <1>9 DEF InsertTop
  <2>2. Len(q) > 0
    BY SMTT(60), <1>3, <1>9, JobsAssumption DEF Full
  <2>3. /\ DeleteLink(q, Len(q)) \in Seq(Jobs) /\ Len(DeleteLink(q, Len(q))) = Len(q) - 1 /\ q[Len(q)] \in Members(q)
        /\ Distinct(DeleteLink(q, Len(q))) /\ Members(DeleteLink(q, Len(q))) = Members(q) \ {q[Len(q)]}
    <3>1. Len(q) \in 1 .. Len(q)
      BY SMTT(60), <1>3, <2>2
    <3> QED BY <1>3, <3>1, DeleteLinkMembers
  <2>4. /\ Prepend(DeleteLink(q, Len(q)), j) \in Seq(Jobs) /\ Len(Prepend(DeleteLink(q, Len(q)), j)) = Len(DeleteLink(q, Len(q))) + 1
        /\ Distinct(Prepend(DeleteLink(q, Len(q)), j))
        /\ Members(Prepend(DeleteLink(q, Len(q)), j)) = (Members(q) \ {q[Len(q)]}) \cup {j}
    BY <1>4, <2>3, PrependMembers
  <2>5. queue_length' = [queue_length EXCEPT ![SYSTEM_FG] = Len(Prepend(DeleteLink(q, Len(q)), j))]
    <3>1. Len(Prepend(DeleteLink(q, Len(q)), j)) = queue_length[SYSTEM_FG]
      BY SMTT(60), <1>3, <2>2, <2>3, <2>4
    <3>2. queue_length = [p \in Queues |-> Len(queues[p])]
      BY DEF JInv, JTypeOK
    <3>3. queue_length = [queue_length EXCEPT ![SYSTEM_FG] = queue_length[SYSTEM_FG]]
      BY <3>2
    <3> QED BY <2>1, <3>1, <3>3
  <2>6. q[Len(q)] \in Jobs /\ q[Len(q)] # j
    BY <1>3, <1>4, <2>3, ListedAlive
  <2> HIDE DEF q, rec
  <2>7. /\ job' \in [Jobs -> JobRecords \cup {Freed}]
        /\ \A i \in Jobs :
             job'[i] = IF i = j THEN rec ELSE IF i \in {q[Len(q)]} THEN Freed ELSE job[i]
    BY <1>2, <1>8, <2>1, <2>6
  <2>8. {q[Len(q)]} \in SUBSET Members(queues[SYSTEM_FG])
    BY <2>3 DEF q
  <2>9. Joined(SYSTEM_FG, j, rec, Prepend(DeleteLink(q, Len(q)), j), {q[Len(q)]})
    BY <1>1, <1>2, <1>5, <1>6, <1>7, <2>1, <2>4, <2>5, <2>7 DEF Joined, q
  <2> QED BY <1>2, <1>3, <2>4, <2>8, <2>9, Joins
<1>10. CASE ~Full
  <2>1. /\ queues' = [queues EXCEPT ![SYSTEM_FG] = Prepend(q, j)]
        /\ job' = [job EXCEPT ![j] = rec]
        /\ queue_length' = [queue_length EXCEPT ![SYSTEM_FG] = queue_length[SYSTEM_FG] + 1]
    BY <1>10 DEF InsertTop
  <2>2. /\ Prepend(q, j) \in Seq(Jobs) /\ Len(Prepend(q, j)) = Len(q) + 1
        /\ Distinct(Prepend(q, j)) /\ Members(Prepend(q, j)) = Members(q) \cup {j}
    BY <1>3, <1>4, PrependMembers
  <2>3. queue_length' = [queue_length EXCEPT ![SYSTEM_FG] = Len(Prepend(q, j))]
    BY <1>3, <2>1, <2>2
  <2> HIDE DEF q, rec
  <2>4. /\ job' \in [Jobs -> JobRecords \cup {Freed}]
        /\ \A i \in Jobs :
             job'[i] = IF i = j THEN rec ELSE IF i \in {} THEN Freed ELSE job[i]
    BY <1>2, <1>8, <2>1
  <2>5. Members(Prepend(q, j)) = (Members(queues[SYSTEM_FG]) \ {}) \cup {j}
    BY <2>2 DEF q
  <2>6. Joined(SYSTEM_FG, j, rec, Prepend(q, j), {})
    BY <1>1, <1>2, <1>5, <1>6, <1>7, <2>1, <2>2, <2>3, <2>4, <2>5 DEF Joined
  <2>7. {} \in SUBSET Members(queues[SYSTEM_FG])
    OBVIOUS
  <2> QED BY <1>2, <1>3, <2>2, <2>6, <2>7, Joins
<1> QED BY <1>9, <1>10

(* A new job goes to the end of another queue. *)
LEMMA InsertLastKeeps ==
  ASSUME JInv, NEW c \in Clients, NEW j \in Jobs, InsertLast(c, j)
  PROVE  JInv'
<1> DEFINE q == creq[c].queue
           n == IF q = USER_FG THEN FgPriority ELSE 0
           rec == NewJob(creq[c], n)
           s == Append(queues[q], j)
<1>1. creq[c] \in Requests /\ q # SYSTEM_FG /\ ~Alive(j)
  BY DEF InsertLast, JInv, JTypeOK, ClientsOK
<1>2. n \in Int
  BY SMTT(60), JobsAssumption
<1>3. rec \in JobRecords /\ rec.queue = q /\ q \in Queues
  <2> HIDE DEF n
  <2> QED BY <1>1, <1>2, RequestRecord
<1>4. /\ queues' = [queues EXCEPT ![q] = s] /\ job' = [job EXCEPT ![j] = rec]
      /\ queue_length' = [queue_length EXCEPT ![q] = queue_length[q] + 1]
  BY DEF InsertLast
<1>5. queues[q] \in Seq(Jobs) /\ Distinct(queues[q]) /\ queue_length[q] = Len(queues[q])
  BY <1>3 DEF JInv, JTypeOK, ListInv
<1>6. j \notin Members(queues[q])
  BY <1>1, <1>3, ListedAlive
<1>7. ClientsOK'
  <2>1. /\ creq' = [creq EXCEPT ![c] = NoJob] /\ cpc' = [cpc EXCEPT ![c] = "notify"]
        /\ "notify" \in {"idle", "notify"}
    BY DEF InsertLast
  <2> QED BY <2>1, ClientMoves
<1>8. UNCHANGED <<scheduled, export_scheduled, job_res, mine, pc>>
  BY DEF InsertLast, resVars, workVars
<1>9. job \in [Jobs -> JobRecords \cup {Freed}]
  BY DEF JInv, JTypeOK
<1>10. /\ s \in Seq(Jobs) /\ Len(s) = Len(queues[q]) + 1
       /\ Distinct(s) /\ Members(s) = (Members(queues[q]) \ {}) \cup {j}
  BY <1>5, <1>6, AppendMembers
<1> HIDE DEF q, rec, s
<1>11. queue_length' = [queue_length EXCEPT ![q] = Len(s)]
  BY <1>4, <1>5, <1>10
<1>12. /\ job' \in [Jobs -> JobRecords \cup {Freed}]
       /\ \A i \in Jobs :
            job'[i] = IF i = j THEN rec ELSE IF i \in {} THEN Freed ELSE job[i]
  BY <1>3, <1>4, <1>9
<1>13. Joined(q, j, rec, s, {})
  BY <1>1, <1>3, <1>4, <1>7, <1>8, <1>10, <1>11, <1>12 DEF Joined
<1>14. {} \in SUBSET Members(queues[q])
  OBVIOUS
<1> QED BY <1>3, <1>10, <1>13, <1>14, Joins

(* An equal job in the stack moves to the top. *)
LEMMA MoveToTopKeeps ==
  ASSUME JInv, NEW c \in Clients, MoveToTop(c)
  PROVE  JInv'
<1> DEFINE q == queues[SYSTEM_FG]
<1>1. SYSTEM_FG \in Queues /\ q \in Seq(Jobs) /\ Distinct(q)
  BY SMTT(60) DEF Queues, SYSTEM_FG, JInv, JTypeOK, ListInv
<1>2. PICK i \in 1 .. Len(q) :
        /\ queues' = [queues EXCEPT ![SYSTEM_FG] = Prepend(DeleteLink(q, i), q[i])]
        /\ SetState(q[i], "queued")
  BY DEF MoveToTop, CopiesInQueue
<1> DEFINE s == Prepend(DeleteLink(q, i), q[i])
<1>3. s \in Seq(Jobs) /\ Len(s) = Len(q) /\ Distinct(s) /\ Members(s) = Members(q)
  BY <1>1, MoveMembers
<1>4. q[i] \in Jobs /\ Alive(q[i])
  <2>1. q[i] \in Members(q)
    BY DEF Members
  <2> QED BY <1>1, <2>1, ListedAlive
<1>5. job' \in [Jobs -> JobRecords \cup {Freed}] /\ SameJobs
  <2>1. "queued" \in JobStates
    BY DEF JobStates
  <2> QED BY <1>2, <1>4, <2>1, SetStateKeeps DEF JInv
<1>6. /\ UNCHANGED <<scheduled, export_scheduled, job_res, mine>>
      /\ UNCHANGED <<queue_length, pc>>
  BY DEF MoveToTop, resVars, workVars
<1>7. ClientsOK'
  <2>1. /\ creq' = [creq EXCEPT ![c] = NoJob] /\ cpc' = [cpc EXCEPT ![c] = "notify"]
        /\ "notify" \in {"idle", "notify"}
    BY DEF MoveToTop
  <2> QED BY <2>1, ClientMoves
<1>8. queue_length' = [queue_length EXCEPT ![SYSTEM_FG] = Len(s)]
  <2>1. queue_length = [p \in Queues |-> Len(queues[p])]
    BY DEF JInv, JTypeOK
  <2>2. Len(s) = queue_length[SYSTEM_FG]
    BY <1>1, <1>3, <2>1
  <2> HIDE DEF s
  <2>3. queue_length = [queue_length EXCEPT ![SYSTEM_FG] = queue_length[SYSTEM_FG]]
    BY <2>1
  <2> QED BY <1>6, <2>2, <2>3
<1>9. /\ queues' \in [Queues -> Seq(Jobs)]
      /\ queue_length' = [p \in Queues |-> Len(queues'[p])]
      /\ queues'[SYSTEM_FG] = s /\ \A p \in Queues \ {SYSTEM_FG} : queues'[p] = queues[p]
  BY <1>1, <1>2, <1>3, <1>8, QueueUpdate DEF JInv
<1>10. JTypeOK'
  <2>1. /\ scheduled' \in [Workers -> JobOrNone] /\ job_res' \in [Reserved -> JobOrNone]
        /\ mine' \in [Threads -> JobOrNone] /\ pc' \in [Threads -> Labels]
    BY <1>6 DEF JInv, JTypeOK
  <2> QED BY <1>5, <1>7, <1>9, <2>1 DEF JTypeOK
<1>11. HandInv'
  BY <1>6 DEF JInv, HandInv
<1>12. \A p \in Queues : Distinct(queues'[p]) /\ Members(queues'[p]) = Members(queues[p])
  <2> HIDE DEF s
  <2> QED BY <1>3, <1>9 DEF JInv, ListInv
<1> QED BY <1>5, <1>6, <1>10, <1>11, <1>12, NobodyMoves

(* dt_control_add_job_res(): a new job takes the slot, the one that waited *)
(* there is freed.                                                         *)
LEMMA AddJobResKeeps ==
  ASSUME JInv, NEW c \in Clients, NEW r \in Reserved, NEW j \in Jobs, AddJobRes(c, r, j)
  PROVE  JInv'
<1> DEFINE old == job_res[r]
           req == [queue |-> USER_FG, kind |-> AnyKind, progress |-> FALSE]
           rec == NewJob(req, 0)
<1>1. /\ ~Alive(j) /\ job_res' = [job_res EXCEPT ![r] = j]
      /\ job' = [i \in Jobs |-> CASE i = j -> rec [] i = old -> Freed [] OTHER -> job[i]]
      /\ cpc' = [cpc EXCEPT ![c] = "notify"]
      /\ UNCHANGED <<queues, queue_length, scheduled, export_scheduled, pc, mine, creq>>
  BY DEF AddJobRes, queueVars, workVars
<1>2. rec \in JobRecords
  <2>1. req.queue \in Queues /\ req.kind \in Kinds \cup {AnyKind}
    BY SMTT(60) DEF USER_FG, Queues
  <2>2. req.progress \in BOOLEAN
    OBVIOUS
  <2> HIDE DEF req
  <2> QED BY SMTT(60), <2>1, <2>2, NewJobRecord
<1>3. ~Listed(j) /\ ~InSlot(j) /\ ~InHand(j) /\ old # j
  BY <1>1 DEF JInv, OwnInv, InSlot
<1>4. /\ old \in Jobs => InSlot(old) /\ ~Listed(old) /\ ~InHand(old)
      /\ \A s \in Reserved \ {r} : job_res[s] # old \/ old = NoJob
  BY DEF JInv, OwnInv, InSlot
<1>5. /\ job_res' \in [Reserved -> JobOrNone]
      /\ \A s \in Reserved : job_res'[s] = IF s = r THEN j ELSE job_res[s]
  BY <1>1 DEF JInv, JTypeOK, JobOrNone
<1>6. ASSUME NEW i \in Jobs
      PROVE  /\ i = j => job'[i] = rec
             /\ i # j /\ i = old => job'[i] = Freed
             /\ i # j /\ i # old => job'[i] = job[i]
  <2> HIDE DEF rec, old
  <2> QED BY <1>1, <1>3
<1> HIDE DEF rec, old
<1>7. job' \in [Jobs -> JobRecords \cup {Freed}]
  <2>1. ASSUME NEW i \in Jobs PROVE job'[i] \in JobRecords \cup {Freed}
    BY <1>2, <1>6 DEF JInv, JTypeOK
  <2>2. job' = [i \in Jobs |-> job'[i]]
    BY SMTT(60), <1>1
  <2> QED BY <2>1, <2>2
<1>8. JTypeOK'
  <2>1. ClientsOK'
    BY <1>1 DEF JInv, JTypeOK, ClientsOK
  <2>2. /\ queues' \in [Queues -> Seq(Jobs)]
        /\ queue_length' = [q \in Queues |-> Len(queues'[q])]
        /\ scheduled' \in [Workers -> JobOrNone] /\ mine' \in [Threads -> JobOrNone]
        /\ pc' \in [Threads -> Labels]
    BY <1>1 DEF JInv, JTypeOK
  <2> QED BY <1>5, <1>7, <2>1, <2>2 DEF JTypeOK
<1>9. HandInv'
  BY <1>1 DEF JInv, HandInv
<1>10. ASSUME NEW i \in Jobs, Listed(i) \/ InHand(i) PROVE job'[i] = job[i]
  BY <1>3, <1>4, <1>6, <1>10
<1>11. ListInv'
  <2>1. ASSUME NEW q \in Queues, NEW i \in Members(queues[q]) PROVE job'[i] = job[i]
    BY <1>10, ListedAlive
  <2> QED BY SMTT(60), <1>1, <2>1 DEF JInv, ListInv
<1>12. OwnInv'
  <2>1. ASSUME NEW i \in Jobs
        PROVE  /\ Listed(i)' <=> Listed(i)
               /\ InHand(i)' <=> InHand(i)
               /\ InSlot(i)' <=> (InSlot(i) /\ i # old) \/ i = j
               /\ Alive(i)' <=> (Alive(i) /\ i # old) \/ i = j
    <3>1. (Listed(i)' <=> Listed(i)) /\ (InHand(i)' <=> InHand(i))
      BY <1>1 DEF Listed, InHand
    <3>2. InSlot(i)' <=> (InSlot(i) /\ i # old) \/ i = j
      BY <1>4, <1>5, JobsAssumption DEF InSlot, old
    <3>3. Alive(i)' <=> (Alive(i) /\ i # old) \/ i = j
      BY <1>2, <1>6, RecordAlive DEF Alive
    <3> QED BY <3>1, <3>2, <3>3
  <2>2. \A s, u \in Reserved : job_res'[s] = job_res'[u] => s = u \/ job_res'[s] = NoJob
    BY SMTT(60), <1>3, <1>5 DEF JInv, OwnInv, InSlot
  <2>3. ASSUME NEW i \in Jobs
        PROVE  /\ Alive(i)' <=> Listed(i)' \/ InSlot(i)' \/ InHand(i)'
               /\ ~(Listed(i)' /\ InSlot(i)') /\ ~(Listed(i)' /\ InHand(i)')
               /\ ~(InSlot(i)' /\ InHand(i)')
    BY <1>3, <1>4, <2>1 DEF JInv, OwnInv
  <2> QED BY <1>1, <2>2, <2>3 DEF JInv, OwnInv
<1>13. ASSUME NEW w \in Workers, scheduled[w] # NoJob
       PROVE  scheduled[w] \in Jobs /\ job'[scheduled[w]] = job[scheduled[w]]
  <2>1. scheduled[w] \in Jobs /\ InHand(scheduled[w])
    BY <1>13, ScheduledAlive DEF InHand
  <2> QED BY <1>10, <2>1
<1>14. CopyInv'
  <2>1. ASSUME NEW i \in Jobs, Known(i)' PROVE Known(i) /\ job'[i] = job[i]
    BY SMTT(60), <1>1, <1>10, <1>13, <2>1, JobsAssumption DEF Known, Listed
  <2> QED BY <2>1 DEF JInv, CopyInv
<1>15. ExportInv'
  <2>1. ASSUME NEW w \in Workers PROVE Exporting(w)' <=> Exporting(w)
    BY <1>1, <1>13 DEF Exporting
  <2> QED BY <1>1, <2>1 DEF JInv, ExportInv
<1> QED BY <1>8, <1>9, <1>11, <1>12, <1>14, <1>15 DEF JInv

(* dt_control_job_cancel() changes the state of a job wherever it is. *)
LEMMA CancelKeeps ==
  ASSUME JInv, NEW j \in Jobs, Cancel(j)
  PROVE  JInv'
<1>1. job' \in [Jobs -> JobRecords \cup {Freed}] /\ SameJobs
  <2>1. "cancelled" \in JobStates /\ Alive(j) /\ SetState(j, "cancelled")
    BY DEF Cancel, JobStates
  <2> QED BY <2>1, SetStateKeeps DEF JInv
<1>2. UNCHANGED <<queueVars, resVars, workVars, clientVars>>
  BY DEF Cancel
<1>3. HandInv'
  BY <1>2 DEF JInv, HandInv, queueVars, workVars
<1>4. JTypeOK'
  BY <1>1, <1>2
  DEF JInv, JTypeOK, ClientsOK, queueVars, resVars, workVars, clientVars
<1>5. \A q \in Queues : Distinct(queues'[q]) /\ Members(queues'[q]) = Members(queues[q])
  BY <1>2 DEF JInv, ListInv, queueVars
<1>6. UNCHANGED <<scheduled, export_scheduled, job_res, mine>>
  BY <1>2 DEF queueVars, resVars, workVars
<1> QED BY <1>1, <1>3, <1>4, <1>5, <1>6, NobodyMoves

(* The steps of a client that touch no job. *)
LEMMA ClientWaits ==
  ASSUME JInv, NEW c \in Clients,
         \/ SyncEnd(c) \/ InsertScheduled(c) \/ AddJobStopped(c)
         \/ \E req \in Requests : AddJob(c, req)
  PROVE  JInv'
<1>1. UNCHANGED <<queueVars, resVars, job, workVars>>
  BY DEF SyncEnd, InsertScheduled, AddJobStopped, AddJob
<1>2. ClientsOK'
  <2>1. CASE SyncEnd(c) \/ AddJobStopped(c)
    BY <2>1 DEF SyncEnd, AddJobStopped, JInv, JTypeOK, ClientsOK
  <2>2. CASE InsertScheduled(c)
    BY <2>2 DEF InsertScheduled, JInv, JTypeOK, ClientsOK
  <2>3. ASSUME NEW req \in Requests, AddJob(c, req) PROVE ClientsOK'
    BY <2>3 DEF AddJob, JInv, JTypeOK, ClientsOK
  <2> QED BY <2>1, <2>2, <2>3
<1>3. JTypeOK' /\ HandInv'
  BY <1>1, <1>2 DEF JInv, JTypeOK, HandInv, queueVars, resVars, workVars
<1>4. SameJobs
  BY <1>1 DEF SameJobs, Alive
<1>5. \A q \in Queues : Distinct(queues'[q]) /\ Members(queues'[q]) = Members(queues[q])
  BY <1>1 DEF JInv, ListInv, queueVars
<1>6. UNCHANGED <<scheduled, export_scheduled, job_res, mine>>
  BY <1>1 DEF queueVars, resVars, workVars
<1> QED BY <1>3, <1>4, <1>5, <1>6, NobodyMoves

(* The wakeups, and the steps of the kicker and of the thread that stops *)
(* the program.                                                          *)
LEMMA WakeupKeeps ==
  ASSUME JInv,
         \/ Kick \/ KickerCheck \/ Quit \/ Shutdown \/ UNCHANGED vars
         \/ \E c \in Clients : Notify(c)
  PROVE  JInv'
<1>1. UNCHANGED <<queueVars, resVars, job, mine, creq>>
  BY DEF Kick, KickerCheck, Quit, Shutdown, Notify, workVars, clientVars, vars
<1>2. pc' \in [Threads -> Labels] /\ HandInv'
  <2>1. CASE Broadcast
    BY <1>1, <2>1, BroadcastKeeps
  <2>2. CASE pc' = pc
    BY <1>1, <2>2 DEF JInv, JTypeOK, HandInv, queueVars
  <2>3. Broadcast \/ pc' = pc
    BY DEF Kick, KickerCheck, Quit, Shutdown, Notify, workVars, vars
  <2> QED BY <2>1, <2>2, <2>3
<1>3. /\ cpc' \in [Clients -> {"idle", "insert", "notify", "sync"}]
      /\ \A c \in Clients : cpc'[c] = "insert" => cpc[c] = "insert"
  <2>1. cpc' = cpc \/ \E c \in Clients : cpc' = [cpc EXCEPT ![c] = "idle"]
    BY DEF Kick, KickerCheck, Quit, Shutdown, Notify, clientVars, vars
  <2> QED BY <2>1 DEF JInv, JTypeOK, ClientsOK
<1> QED BY <1>1, <1>2, <1>3, CountersMove

-----------------------------------------------------------------------------
(* Every step keeps the invariant. *)
LEMMA StepKeeps == JInv /\ [JNext]_vars => JInv'
<1> SUFFICES ASSUME JInv, [JNext]_vars PROVE JInv'
  OBVIOUS
<1>1. ASSUME NEW t \in Threads, ThreadStep(t) PROVE JInv'
  BY <1>1, LookKeeps, ExecuteKeeps, DisposeKeeps DEF ThreadStep
<1>2. ASSUME NEW w \in Workers, WorkerStep(w) PROVE JInv'
  <2>1. w \in Threads
    BY DEF Threads
  <2> QED BY <1>1, <1>2, <2>1, LookKeeps, ScheduleKeeps, ClearKeeps DEF WorkerStep
<1>3. ASSUME NEW r \in Reserved, ReservedStep(r) PROVE JInv'
  <2>1. r \in Threads
    BY DEF Threads
  <2> QED BY <1>1, <1>3, <2>1, LookKeeps, TakeReservedKeeps DEF ReservedStep
<1>4. ASSUME NEW c \in Clients, ClientStep(c) PROVE JInv'
  BY <1>4, ClientWaits, MoveToTopKeeps, InsertTopKeeps, InsertLastKeeps, WakeupKeeps
  DEF ClientStep
<1>5. ASSUME NEW c \in Clients, ClientCall(c) PROVE JInv'
  BY <1>5, ClientWaits, AddJobResKeeps DEF ClientCall
<1> QED BY <1>2, <1>3, <1>4, <1>5, CancelKeeps, WakeupKeeps DEF JNext, KickerStep

(* The invariant holds throughout. *)
LEMMA InvHolds == JSpec => []JInv
BY JobsInit, StepKeeps, PTL DEF JSpec

(* Every job of the job system has exactly one owner: a queue position, a  *)
(* reserved slot or a thread.  None is freed while it is listed, none is   *)
(* forgotten, and the scheduled array of dt_control_add_job() names only   *)
(* jobs their worker still owns.                                           *)
THEOREM JobsOwned == JSpec => []OneOwner
BY InvHolds, InvImplies, PTL

(* Of all the workers at most one holds an export, and export_scheduled is *)
(* set exactly while one does.                                             *)
THEOREM OneExportAtATime == JSpec => []OneExport
BY InvHolds, InvImplies, PTL

(* No two equal foreground jobs are queued or scheduled at a time. *)
THEOREM NoForegroundCopies == JSpec => []NoCopies
BY InvHolds, InvImplies, PTL
=============================================================================
