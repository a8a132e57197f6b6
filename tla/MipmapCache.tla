---------------------------- MODULE MipmapCache ----------------------------
(***************************************************************************)
(* The thumbnail cache of src/common/mipmap_cache.c (mip_thumbs, the sizes *)
(* below DT_MIPMAP_F) on top of Cache: its callbacks run inside the        *)
(* cache's critical sections (allocate_dynamic inside Alloc,               *)
(* deallocate_dynamic inside GcDelete and RemoveFound), and its operations *)
(* are sequences of calls of the cache.  Every action is an action of      *)
(* Cache or leaves Cache's variables alone.                                *)
(*                                                                         *)
(* Pixels are abstracted to where they come from: Junk before generation,  *)
(* Zero for the zero-sized result of a failed generation, Skull for the    *)
(* 8x8 dead image, or the version of the edits the thumbnail shows.        *)
(***************************************************************************)
EXTENDS Cache

CONSTANTS
  Images,        \* image ids
  MaxMip,        \* the largest thumbnail size, DT_MIPMAP_8
  Readers,       \* the threads that ask with mode 'r', the others use 'w'
  DiskBackend,   \* cache_disk_backend
  CanFail,       \* may generating, reading or writing a thumbnail fail
  Ops,           \* the operations clients use
  MaxVersion,    \* bound: the edits of an image
  NoFile, Junk, Zero, Skull

Mips == 0 .. MaxMip
Versions == 0 .. MaxVersion

ASSUME MipmapAssumption ==
  /\ Images \subseteq Nat \ {0} /\ MaxMip \in Nat
  /\ Keys = Images \X Mips
  /\ Readers \subseteq Threads /\ DiskBackend \in BOOLEAN /\ CanFail \in BOOLEAN
  /\ Ops \subseteq {"blocking", "best", "edit", "evict"} /\ MaxVersion \in Nat
  /\ HasAllocate = TRUE  \* mip_thumbs has the allocate callback
  /\ NoFile \notin Versions \cup {Junk, Zero, Skull}
  /\ Junk \notin Versions \cup {Zero, Skull} /\ Zero \notin Versions \cup {Skull}
  /\ Skull \notin Versions

VARIABLES
  gen, inval,    \* dsc->flags of an entry: GENERATE, INVALIDATE
  pix,           \* what the buffer of an entry shows
  disk,          \* the jpg backing of a key
  edit,          \* the version of an image's edits in the database
  mpc,           \* per thread: the place in a mipmap operation
  req,           \* per thread: the key and mode asked for
  cur,           \* per thread: the loop variable k of the operation
  snap,          \* per thread: the version the running export read
  wanted         \* keys with a queued load job

dscVars == <<gen, inval, pix>>
cliVars == <<mpc, req, cur, snap>>
mvars == <<vars, dscVars, disk, edit, cliVars, wanted>>

MPCs == {"free", "block", "larger", "copy", "export", "generated", "drop",
         "reget", "regot", "use", "down", "up", "remove", "inval", "unlink",
         "rm", "evict"}

MTypeOK ==
  /\ gen \in [Entries -> BOOLEAN] /\ inval \in [Entries -> BOOLEAN]
  /\ pix \in [Entries -> Versions \cup {Junk, Zero, Skull}]
  /\ disk \in [Keys -> Versions \cup {NoFile, Junk, Zero, Skull}]
  /\ edit \in [Images -> Versions]
  /\ mpc \in [Threads -> MPCs]
  /\ req \in [Threads -> [k : Keys, m : Modes]]
  /\ cur \in [Threads -> Int]
  /\ snap \in [Threads -> Versions]
  /\ wanted \in SUBSET Keys

MInit ==
  /\ Init
  /\ gen = [e \in Entries |-> FALSE] /\ inval = [e \in Entries |-> FALSE]
  /\ pix = [e \in Entries |-> Junk]
  /\ disk = [k \in Keys |-> NoFile]
  /\ edit = [i \in Images |-> 0]
  /\ mpc = [t \in Threads |-> "free"]
  /\ req = arg
  /\ cur = [t \in Threads |-> 0] /\ snap = [t \in Threads |-> 0]
  /\ wanted = {}

Goto(t, p) == mpc' = [mpc EXCEPT ![t] = p]
-----------------------------------------------------------------------------
(* The callbacks. *)

(* allocate_dynamic: load the jpg; one that cannot be read is unlinked.    *)
AllocateDynamic(e, k) ==
  \E loaded \in BOOLEAN :
    /\ loaded => DiskBackend /\ disk[k] # NoFile
    /\ ~loaded => ~DiskBackend \/ disk[k] = NoFile \/ CanFail
    /\ pix' = [pix EXCEPT ![e] = IF loaded THEN disk[k] ELSE Junk]
    /\ gen' = [gen EXCEPT ![e] = ~loaded]
    /\ inval' = [inval EXCEPT ![e] = FALSE]
    /\ disk' = IF DiskBackend /\ ~loaded THEN [disk EXCEPT ![k] = NoFile] ELSE disk

(* Mutant: dead images are written too. *)
DeallocateSkulls(e) ==
  disk' = [disk EXCEPT ![key[e]] =
             IF inval[e] THEN NoFile ELSE IF @ = NoFile THEN pix[e] ELSE @]

(* deallocate_dynamic: no skulls; unlink if invalidated, else write the    *)
(* buffer unless there is a file.                                          *)
DeallocateDynamic(e) ==
  LET k == key[e] IN
  \/ /\ pix[e] \in {Zero, Skull} \/ (~inval[e] /\ (~DiskBackend \/ CanFail))
     /\ UNCHANGED disk
  \/ /\ pix[e] \notin {Zero, Skull} /\ inval[e]
     /\ disk' = [disk EXCEPT ![k] = NoFile]
  \/ /\ pix[e] \notin {Zero, Skull} /\ ~inval[e] /\ DiskBackend
     /\ disk' = [disk EXCEPT ![k] = IF @ = NoFile THEN pix[e] ELSE @]

(* A step inside dt_cache_get or dt_cache_remove, with its callback. *)
InCache(t) ==
  /\ \/ GetFound(t) \/ GetMiss(t) \/ GcDone(t) \/ GcSkip(t) \/ RemoveMiss(t)
  /\ UNCHANGED <<dscVars, disk>>

InAlloc(t) ==
  \E e \in Entries, c \in Costs : Alloc(t, e, c) /\ AllocateDynamic(e, arg[t].k)

InDelete(t) ==
  /\ \/ GcDelete(t) /\ DeallocateDynamic(lru[gcpos])
     \/ RemoveFound(t) /\ DeallocateDynamic(table[arg[t].k])
  /\ UNCHANGED dscVars

CacheWork(t) ==
  /\ InCache(t) \/ InAlloc(t) \/ InDelete(t)
  /\ UNCHANGED <<edit, cliVars, wanted>>
-----------------------------------------------------------------------------
(* dt_mipmap_cache_get with DT_MIPMAP_BLOCKING. *)

(* A client with nothing in hand starts, or a worker runs a queued load    *)
(* job.                                                                    *)
Blocking(t, k, m) ==
  /\ "blocking" \in Ops /\ mpc[t] = "free" /\ held[t] = {}
  /\ m = "r" => t \in Readers
  /\ CallGet(t, k, m)
  /\ Goto(t, "block") /\ req' = [req EXCEPT ![t] = [k |-> k, m |-> m]]
  /\ wanted' = wanted \ {k}
  /\ UNCHANGED <<dscVars, disk, edit, cur, snap>>

Got(t) == pc[t] = "idle" /\ mpc[t] = "block"

(* Loaded already. *)
GotLoaded(t) ==
  /\ Got(t) /\ ~gen[ret[t]]
  /\ Goto(t, "generated")
  /\ UNCHANGED <<vars, dscVars, disk, edit, req, cur, snap, wanted>>

(* _init_8 looks for a larger thumbnail first; the entry to fill is the    *)
(* one of the key asked for, locked by t.                                  *)
GotGenerate(t) ==
  /\ Got(t) /\ gen[ret[t]]
  /\ Goto(t, "larger") /\ cur' = [cur EXCEPT ![t] = req[t].k[2] + 1]
  /\ UNCHANGED <<vars, dscVars, disk, edit, req, snap, wanted>>

Target(t) == CHOOSE e \in held[t] : key[e] = req[t].k

TryLarger(t) ==
  /\ mpc[t] = "larger" /\ cur[t] <= MaxMip
  /\ TestGet(t, <<req[t].k[1], cur[t]>>, "r")
  /\ IF ret'[t] # NoEntry
     THEN Goto(t, "copy") /\ UNCHANGED cur
     ELSE cur' = [cur EXCEPT ![t] = @ + 1] /\ UNCHANGED mpc
  /\ UNCHANGED <<dscVars, disk, edit, req, snap, wanted>>

Fill(t, p) ==
  /\ pix' = [pix EXCEPT ![Target(t)] = p]
  /\ gen' = [gen EXCEPT ![Target(t)] = FALSE]
  /\ UNCHANGED inval

(* The image file is not there. *)
FileMissing(t) ==
  /\ Got(t) /\ gen[ret[t]] /\ CanFail
  /\ Fill(t, Zero)
  /\ Goto(t, "generated")
  /\ UNCHANGED <<vars, disk, edit, req, cur, snap, wanted>>

(* Mutant: the larger thumbnail is not released. *)
CopyLargerLeaks(t) ==
  /\ mpc[t] = "copy"
  /\ Fill(t, pix[ret[t]]) /\ UNCHANGED vars
  /\ Goto(t, "generated")
  /\ UNCHANGED <<disk, edit, req, cur, snap, wanted>>

CopyLarger(t) ==
  /\ mpc[t] = "copy"
  /\ Fill(t, pix[ret[t]]) /\ Release(t, ret[t])
  /\ Goto(t, "generated")
  /\ UNCHANGED <<disk, edit, req, cur, snap, wanted>>

(* The export loads the history, processes, and fills the buffer.          *)
ExportStart(t) ==
  /\ mpc[t] = "larger" /\ cur[t] > MaxMip
  /\ Goto(t, "export") /\ snap' = [snap EXCEPT ![t] = edit[req[t].k[1]]]
  /\ UNCHANGED <<vars, dscVars, disk, edit, req, cur, wanted>>

ExportEnd(t) ==
  /\ mpc[t] = "export"
  /\ Fill(t, snap[t]) \/ (CanFail /\ Fill(t, Zero))
  /\ Goto(t, "generated")
  /\ UNCHANGED <<vars, disk, edit, req, cur, snap, wanted>>

(* Mutant: the window is not announced. *)
DemoteUnflagged(t) ==
  /\ mpc[t] = "generated" /\ req[t].m = "r"
  /\ Goto(t, "drop")
  /\ UNCHANGED <<vars, dscVars, disk, edit, req, cur, snap, wanted>>

(* The demotion w -> r: flag, release, get again, clear the flag. *)
Demote(t) ==
  /\ mpc[t] = "generated" /\ req[t].m = "r"
  /\ SetDemoting(t, Target(t), TRUE)
  /\ Goto(t, "drop")
  /\ UNCHANGED <<dscVars, disk, edit, req, cur, snap, wanted>>

Drop(t) ==
  /\ mpc[t] = "drop"
  /\ Release(t, Target(t))
  /\ Goto(t, "reget")
  /\ UNCHANGED <<dscVars, disk, edit, req, cur, snap, wanted>>

Reget(t) ==
  /\ mpc[t] = "reget" /\ CallGet(t, req[t].k, "r")
  /\ Goto(t, "regot")
  /\ UNCHANGED <<dscVars, disk, edit, req, cur, snap, wanted>>

(* A zero-sized result becomes the dead image in place. *)
DeadImage(e) ==
  pix' = [pix EXCEPT ![e] = IF @ = Zero THEN Skull ELSE @]

Regot(t) ==
  /\ mpc[t] = "regot" /\ pc[t] = "idle"
  /\ SetDemoting(t, Target(t), FALSE)
  /\ DeadImage(Target(t))
  /\ Goto(t, "use")
  /\ UNCHANGED <<gen, inval, disk, edit, req, cur, snap, wanted>>

KeepWrite(t) ==
  /\ mpc[t] = "generated" /\ req[t].m = "w"
  /\ DeadImage(Target(t))
  /\ Goto(t, "use")
  /\ UNCHANGED <<vars, gen, inval, disk, edit, req, cur, snap, wanted>>

(* dt_mipmap_cache_release of the buffer in use. *)
MRelease(t) ==
  /\ mpc[t] = "use"
  /\ Release(t, Target(t))
  /\ Goto(t, "free")
  /\ UNCHANGED <<dscVars, disk, edit, req, cur, snap, wanted>>
-----------------------------------------------------------------------------
(* dt_mipmap_cache_get with DT_MIPMAP_BEST_EFFORT: DT_MIPMAP_TESTLOCK for  *)
(* the size asked for, then the smaller ones, then the larger ones.        *)
BestEffort(t, k) ==
  /\ "best" \in Ops /\ t \in Readers
  /\ mpc[t] = "free" /\ pc[t] = "idle" /\ held[t] = {}
  /\ Goto(t, "down") /\ req' = [req EXCEPT ![t] = [k |-> k, m |-> "r"]]
  /\ cur' = [cur EXCEPT ![t] = k[2]]
  /\ UNCHANGED <<vars, dscVars, disk, edit, snap, wanted>>

(* A buffer with a size is returned; anything else moves on by d. *)
TestLock(t, d, miss) ==
  LET k == <<req[t].k[1], cur[t]>> IN
  /\ TestGet(t, k, "r")
  /\ IF ret'[t] # NoEntry /\ pix[table[k]] # Zero
     THEN /\ Goto(t, "use") /\ req' = [req EXCEPT ![t].k = k]
          /\ UNCHANGED <<cur, wanted>>
     ELSE /\ cur' = [cur EXCEPT ![t] = @ + d] /\ wanted' = wanted \cup miss
          /\ UNCHANGED <<mpc, req>>
  /\ UNCHANGED <<dscVars, disk, edit, snap>>

(* The first miss queues a load job (DT_MIPMAP_PREFETCH). *)
TestDown(t) ==
  /\ mpc[t] = "down" /\ cur[t] >= 0
  /\ TestLock(t, -1, IF cur[t] = req[t].k[2] THEN {req[t].k} ELSE {})

TurnUp(t) ==
  /\ mpc[t] = "down" /\ cur[t] < 0
  /\ Goto(t, "up") /\ cur' = [cur EXCEPT ![t] = req[t].k[2] + 1]
  /\ UNCHANGED <<vars, dscVars, disk, edit, req, snap, wanted>>

TestUp(t) == mpc[t] = "up" /\ cur[t] <= MaxMip /\ TestLock(t, 1, {})

(* Nothing found.  The file whose presence lets DT_MIPMAP_PREFETCH_DISK    *)
(* queue a job for size 0 is named after the key, size << 28 | imgid - 1,  *)
(* where all other file names hold the image id: it is the file of image   *)
(* imgid - 1 for size 0 and nobody's for other sizes.                      *)
FileNamedByKey(k) ==
  k[2] = 0 /\ k[1] - 1 \in Images /\ disk[<<k[1] - 1, 0>>] # NoFile

NothingFound(t) ==
  /\ mpc[t] = "up" /\ cur[t] > MaxMip
  /\ wanted' = IF FileNamedByKey(req[t].k) THEN wanted \cup {req[t].k} ELSE wanted
  /\ Goto(t, "free")
  /\ UNCHANGED <<vars, dscVars, disk, edit, req, cur, snap>>
-----------------------------------------------------------------------------
(* An edit of image i is stored, and dt_mipmap_cache_remove, which every   *)
(* editing operation calls then, goes through the sizes.                   *)
Edit(t, i) ==
  /\ "edit" \in Ops /\ mpc[t] = "free" /\ pc[t] = "idle" /\ held[t] = {}
  /\ edit[i] < MaxVersion /\ edit' = [edit EXCEPT ![i] = @ + 1]
  /\ Goto(t, "remove") /\ cur' = [cur EXCEPT ![t] = 0]
  /\ req' = [req EXCEPT ![t].k = <<i, 0>>]
  /\ UNCHANGED <<vars, dscVars, disk, snap, wanted>>

CurKey(t) == <<req[t].k[1], cur[t]>>

(* Mutant: the entry is not locked while it is flagged and released. *)
RemoveTestUnlocked(t) ==
  /\ mpc[t] = "remove" /\ cur[t] <= MaxMip /\ pc[t] = "idle" /\ mutex = NoThread
  /\ ret' = [ret EXCEPT ![t] = table[CurKey(t)]]
  /\ Goto(t, IF ret'[t] # NoEntry THEN "inval" ELSE "unlink")
  /\ UNCHANGED <<mutex, table, lru, cost, heapVars, demoting, lockVars, gcpos, pc,
                 arg, dscVars, disk, edit, req, cur, snap, wanted>>

(* dt_mipmap_cache_remove_at_size: an entry that can be write locked is    *)
(* flagged, released and removed; else only the file is unlinked.          *)
RemoveTest(t) ==
  /\ mpc[t] = "remove" /\ cur[t] <= MaxMip
  /\ TestGet(t, CurKey(t), "w")
  /\ Goto(t, IF ret'[t] # NoEntry THEN "inval" ELSE "unlink")
  /\ UNCHANGED <<dscVars, disk, edit, req, cur, snap, wanted>>

Invalidate(t) ==
  /\ mpc[t] = "inval"
  /\ inval' = [inval EXCEPT ![ret[t]] = TRUE] /\ Release(t, ret[t])
  /\ Goto(t, "rm")
  /\ UNCHANGED <<gen, pix, disk, edit, req, cur, snap, wanted>>

RemoveEntry(t) ==
  /\ mpc[t] = "rm" /\ CallRemove(t, CurKey(t))
  /\ Goto(t, "remove") /\ cur' = [cur EXCEPT ![t] = @ + 1]
  /\ UNCHANGED <<dscVars, disk, edit, req, snap, wanted>>

Unlink(t) ==
  /\ mpc[t] = "unlink"
  /\ disk' = [disk EXCEPT ![CurKey(t)] = NoFile]
  /\ Goto(t, "remove") /\ cur' = [cur EXCEPT ![t] = @ + 1]
  /\ UNCHANGED <<vars, dscVars, edit, req, snap, wanted>>

(* dt_mimap_cache_evict: dt_cache_remove for each size. *)
Evict(t, i) ==
  /\ "evict" \in Ops /\ mpc[t] = "free" /\ pc[t] = "idle" /\ held[t] = {}
  /\ Goto(t, "evict") /\ cur' = [cur EXCEPT ![t] = 0]
  /\ req' = [req EXCEPT ![t].k = <<i, 0>>]
  /\ UNCHANGED <<vars, dscVars, disk, edit, snap, wanted>>

EvictNext(t) ==
  /\ mpc[t] = "evict" /\ cur[t] <= MaxMip
  /\ CallRemove(t, CurKey(t)) /\ cur' = [cur EXCEPT ![t] = @ + 1]
  /\ UNCHANGED <<dscVars, disk, edit, mpc, req, snap, wanted>>

LoopEnd(t) ==
  /\ mpc[t] \in {"remove", "evict"} /\ cur[t] > MaxMip /\ pc[t] = "idle"
  /\ Goto(t, "free")
  /\ UNCHANGED <<vars, dscVars, disk, edit, req, cur, snap, wanted>>
-----------------------------------------------------------------------------
(* A client starts an operation; a thread goes on with the one it is in.   *)
Start(t) ==
  \/ \E k \in Keys, m \in Modes : Blocking(t, k, m)
  \/ \E k \in Keys : BestEffort(t, k)
  \/ \E i \in Images : Edit(t, i) \/ Evict(t, i)

Continue(t) ==
  \/ CacheWork(t)
  \/ GotLoaded(t) \/ GotGenerate(t) \/ FileMissing(t) \/ TryLarger(t)
  \/ CopyLarger(t) \/ ExportStart(t) \/ ExportEnd(t)
  \/ Demote(t) \/ Drop(t) \/ Reget(t) \/ Regot(t) \/ KeepWrite(t) \/ MRelease(t)
  \/ TestDown(t) \/ TurnUp(t) \/ TestUp(t) \/ NothingFound(t)
  \/ RemoveTest(t) \/ Invalidate(t) \/ RemoveEntry(t) \/ Unlink(t)
  \/ EvictNext(t) \/ LoopEnd(t)

MNext == \E t \in Threads : Start(t) \/ Continue(t)

MSpec == MInit /\ [][MNext]_mvars
-----------------------------------------------------------------------------
(* The loops over the sizes stay inside them, so that they only ask the    *)
(* cache for keys that exist, and the entry a step is about to release is  *)
(* one the thread holds.                                                   *)
LoopsInRange ==
  \A t \in Threads :
    /\ mpc[t] \in {"larger", "up", "remove", "evict", "inval", "unlink", "rm"} => cur[t] >= 0
    /\ mpc[t] \in {"down", "inval", "unlink", "rm"} => cur[t] <= MaxMip
    /\ mpc[t] \in {"copy", "inval"} => pc[t] = "idle" /\ ret[t] \in held[t]

(* The inductive invariant of the proofs. *)
MIInv == IInv /\ MTypeOK /\ LoopsInRange

(* DT_MIPMAP_BLOCKING "only return[s] when the requested buffer is         *)
(* loaded": a buffer a client uses has been generated or loaded, although  *)
(* the demotion gives the entry up in between.                             *)
LoadedWhenUsed ==
  \A t \in Threads :
    mpc[t] = "use" => ~gen[Target(t)] /\ pix[Target(t)] \notin {Junk, Zero}

(* The jpg backing holds thumbnails: never a buffer that was not filled    *)
(* yet, never a dead image.                                                *)
DiskClean == \A k \in Keys : disk[k] \notin {Junk, Zero, Skull}

(* No operation leaves an entry lock behind: a client that was given no    *)
(* buffer, or has released it, holds nothing.                              *)
NothingLeaked == \A t \in Threads : mpc[t] = "free" => held[t] = {}

(* The demotion's window: between the release and the second get the entry *)
(* stays in the cache, protected by _lock_demoting alone.                  *)
DemotionKeepsEntry ==
  \A t \in Threads :
    mpc[t] \in {"reget", "regot"} =>
      table[req[t].k] # NoEntry /\ ~gen[table[req[t].k]]

=============================================================================
