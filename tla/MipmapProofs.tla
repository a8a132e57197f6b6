---------------------------- MODULE MipmapProofs ----------------------------
(***************************************************************************)
(* The mipmap cache uses dt_cache_t only through its operations: every     *)
(* step of MipmapCache is a step of Cache or leaves the cache alone.  So   *)
(* what CacheProofs proves of the cache holds below the mipmap cache, for  *)
(* any number of threads, images and sizes.                                *)
(***************************************************************************)
EXTENDS MipmapCache, CacheProofs

(* The leaves are for Zenon; those that need more name the SMT solver. *)
USE ZenonT(60)

(* The key a loop of mipmap_cache.c builds from an image and a size is one *)
(* of the keys of the cache.                                               *)
LEMMA KeyOfSize ==
  ASSUME NEW k \in Keys, NEW n \in Int, 0 <= n, n <= MaxMip
  PROVE  <<k[1], n>> \in Keys
<1>1. k[1] \in Images /\ n \in Mips
  BY SMTT(60), MipmapAssumption DEF Mips
<1> QED BY <1>1, MipmapAssumption

(* Releasing, or flagging, an entry is a step of the cache: only an entry  *)
(* in hand can be released or flagged.                                     *)
LEMMA ReleaseIsStep ==
  ASSUME IInv, NEW t \in Threads, NEW e, Release(t, e)
  PROVE  ThreadNext(t)
<1>1. e \in Entries
  BY DEF Release, IInv, TypeOK
<1> QED BY <1>1 DEF ThreadNext

(* So is the demotion flag, which only the holder of an entry sets. *)
LEMMA SetDemotingIsStep ==
  ASSUME IInv, NEW t \in Threads, NEW e, NEW b \in BOOLEAN, SetDemoting(t, e, b)
  PROVE  ThreadNext(t)
<1>1. e \in Entries
  BY DEF SetDemoting, IInv, TypeOK
<1> QED BY <1>1 DEF ThreadNext

(* Every step of the mipmap cache is a step of the cache or leaves it      *)
(* alone.                                                                  *)
LEMMA StepIsCacheStep ==
  ASSUME MIInv, NEW t \in Threads, Start(t) \/ Continue(t)
  PROVE  ThreadNext(t) \/ UNCHANGED vars
<1> USE DEF MIInv
<1>2. /\ req[t].k \in Keys /\ req[t].m \in Modes /\ cur[t] \in Int
      /\ MaxMip \in Nat
  BY MipmapAssumption DEF MTypeOK
<1>3. ASSUME cur[t] >= 0, cur[t] <= MaxMip
      PROVE  CurKey(t) \in Keys /\ <<req[t].k[1], cur[t]>> \in Keys
  BY <1>2, <1>3, KeyOfSize DEF CurKey
<1>4. "r" \in Modes /\ "w" \in Modes
  BY DEF Modes
<1>5. CASE Start(t)
  <2>1. ASSUME NEW k \in Keys, NEW m \in Modes, Blocking(t, k, m)
        PROVE  ThreadNext(t)
    BY <2>1 DEF Blocking, ThreadNext
  <2>2. ASSUME NEW k \in Keys, BestEffort(t, k)
        PROVE  UNCHANGED vars
    BY <2>2 DEF BestEffort
  <2>3. ASSUME NEW i \in Images, Edit(t, i) \/ Evict(t, i)
        PROVE  UNCHANGED vars
    BY <2>3 DEF Edit, Evict
  <2> QED BY <1>5, <2>1, <2>2, <2>3 DEF Start
<1>6. CASE CacheWork(t)
  <2>1. CacheStep(t)
    BY <1>6 DEF CacheWork, InCache, InAlloc, InDelete, CacheStep
  <2> QED BY <2>1 DEF ThreadNext
<1>7. CASE GotLoaded(t) \/ GotGenerate(t) \/ FileMissing(t) \/ ExportStart(t)
           \/ ExportEnd(t) \/ KeepWrite(t) \/ TurnUp(t) \/ NothingFound(t)
           \/ Unlink(t) \/ LoopEnd(t)
  BY <1>7 DEF GotLoaded, GotGenerate, FileMissing, ExportStart, ExportEnd, KeepWrite,
              TurnUp, NothingFound, Unlink, LoopEnd
<1>8. CASE CopyLarger(t) \/ Drop(t) \/ MRelease(t) \/ Invalidate(t)
  BY <1>8, ReleaseIsStep DEF CopyLarger, Drop, MRelease, Invalidate
<1>9. CASE Demote(t) \/ Regot(t)
  BY <1>9, SetDemotingIsStep DEF Demote, Regot
<1>10. CASE TryLarger(t)
  <2>1. <<req[t].k[1], cur[t]>> \in Keys
    BY <1>3, <1>10 DEF TryLarger, LoopsInRange
  <2> QED BY <1>4, <1>10, <2>1 DEF TryLarger, ThreadNext
<1>11. CASE Reget(t)
  BY <1>2, <1>4, <1>11 DEF Reget, ThreadNext
<1>12. CASE TestDown(t) \/ TestUp(t)
  <2>1. cur[t] >= 0 /\ cur[t] <= MaxMip
    BY <1>12 DEF TestDown, TestUp, LoopsInRange
  <2>2. TestGet(t, <<req[t].k[1], cur[t]>>, "r")
    BY <1>12 DEF TestDown, TestUp, TestLock
  <2> QED BY <1>3, <1>4, <2>1, <2>2 DEF ThreadNext
<1>13. CASE RemoveTest(t)
  <2>1. CurKey(t) \in Keys
    BY <1>3, <1>13 DEF RemoveTest, LoopsInRange
  <2> QED BY <1>4, <1>13, <2>1 DEF RemoveTest, ThreadNext
<1>14. CASE RemoveEntry(t) \/ EvictNext(t)
  <2>1. CurKey(t) \in Keys
    BY <1>3, <1>14 DEF RemoveEntry, EvictNext, LoopsInRange
  <2> QED BY <1>14, <2>1 DEF RemoveEntry, EvictNext, ThreadNext
<1> QED
  BY <1>5, <1>6, <1>7, <1>8, <1>9, <1>10, <1>11, <1>12, <1>13, <1>14
  DEF Continue

-----------------------------------------------------------------------------
(* What a step stores keeps the types: in particular a file that is loaded *)
(* exists, and the larger thumbnail that is copied is an entry.            *)
LEMMA StepKeepsTypes ==
  ASSUME MIInv, NEW t \in Threads, Start(t) \/ Continue(t)
  PROVE  MTypeOK'
<1> USE DEF MTypeOK, dscVars, cliVars, MPCs, Goto
<1>2. MTypeOK /\ LoopsInRange /\ IInv
  BY DEF MIInv
<1>3. /\ req[t].k \in Keys /\ req[t].m \in Modes /\ cur[t] \in Int /\ snap[t] \in Versions
      /\ req[t].k[1] \in Images /\ req[t].k[2] \in Int /\ MaxMip \in Nat
  BY SMTT(60), <1>2, MipmapAssumption DEF Mips
<1>4. CASE Start(t)
  <2>1. ASSUME NEW k \in Keys, NEW m \in Modes, Blocking(t, k, m)
        PROVE  MTypeOK'
    BY <1>2, <2>1 DEF Blocking
  <2>2. ASSUME NEW k \in Keys, BestEffort(t, k)
        PROVE  MTypeOK'
    <3>1. k[2] \in Int
      BY SMTT(60), MipmapAssumption DEF Mips
    <3> QED BY <1>2, <2>2, <3>1 DEF BestEffort, Modes
  <2>3. ASSUME NEW i \in Images, Edit(t, i) \/ Evict(t, i)
        PROVE  MTypeOK'
    <3>1. <<i, 0>> \in Keys
      BY SMTT(60), MipmapAssumption DEF Mips
    <3>2. ASSUME edit[i] < MaxVersion PROVE edit[i] + 1 \in Versions
      BY SMTT(60), <1>2, <3>2, MipmapAssumption DEF Versions
    <3>3. req' = [req EXCEPT ![t].k = <<i, 0>>]
      BY <2>3 DEF Edit, Evict
    <3>4. req' \in [Threads -> [k : Keys, m : Modes]]
      BY SMTT(60), <1>2, <3>1, <3>3
    <3>5. CASE Edit(t, i)
      BY SMTT(60), <1>2, <3>2, <3>4, <3>5 DEF Edit
    <3>6. CASE Evict(t, i)
      BY SMTT(60), <1>2, <3>4, <3>6 DEF Evict
    <3> QED BY <2>3, <3>5, <3>6
  <2> QED BY <1>4, <2>1, <2>2, <2>3 DEF Start
<1>5. CASE CacheWork(t)
  <2>1. CASE InCache(t)
    BY <1>2, <1>5, <2>1 DEF CacheWork, InCache
  <2>2. CASE InAlloc(t)
    <3>1. PICK e \in Entries, c \in Costs : Alloc(t, e, c) /\ AllocateDynamic(e, arg[t].k)
      BY <2>2 DEF InAlloc
    <3>2. arg[t].k \in Keys
      BY <1>2 DEF IInv, TypeOK
    <3> QED BY SMTT(60), <1>2, <1>5, <3>1, <3>2 DEF CacheWork, AllocateDynamic
  <2>3. CASE InDelete(t)
    <3>1. PICK e : DeallocateDynamic(e) /\ e \in Entries
      <4>1. CASE GcDelete(t) /\ DeallocateDynamic(lru[gcpos])
        BY SMTT(60), <1>2, <4>1 DEF GcDelete, IInv, TypeOK
      <4>2. CASE RemoveFound(t) /\ DeallocateDynamic(table[arg[t].k])
        BY <1>2, <4>2 DEF RemoveFound, IInv, TypeOK
      <4> QED BY <2>3, <4>1, <4>2 DEF InDelete
    <3>2. PICK d \in Versions \cup {NoFile, Junk, Zero, Skull} :
            disk' = disk \/ disk' = [disk EXCEPT ![key[e]] = d]
      <4>1. CASE UNCHANGED disk
        BY <4>1
      <4>2. CASE disk' = [disk EXCEPT ![key[e]] = NoFile]
        BY <4>2
      <4>3. CASE disk' = [disk EXCEPT ![key[e]] = IF @ = NoFile THEN pix[e] ELSE @]
        <5>1. key[e] \in Keys
          BY <1>2, <3>1 DEF IInv, TypeOK
        <5> QED BY <1>2, <3>1, <4>3, <5>1
      <4> QED BY <3>1, <4>1, <4>2, <4>3 DEF DeallocateDynamic
    <3>3. disk' \in [Keys -> Versions \cup {NoFile, Junk, Zero, Skull}]
      BY <1>2, <3>2
    <3> QED BY <1>2, <1>5, <2>3, <3>3 DEF CacheWork, InDelete
  <2> QED BY <1>5, <2>1, <2>2, <2>3 DEF CacheWork
<1>6. CASE GotLoaded(t) \/ GotGenerate(t) \/ ExportStart(t) \/ TurnUp(t) \/ LoopEnd(t)
           \/ NothingFound(t) \/ Unlink(t)
  <2>1. CASE GotLoaded(t) \/ LoopEnd(t)
    BY <1>2, <2>1 DEF GotLoaded, LoopEnd
  <2>2. CASE GotGenerate(t) \/ TurnUp(t)
    BY SMTT(60), <1>2, <1>3, <2>2 DEF GotGenerate, TurnUp
  <2>3. CASE ExportStart(t)
    BY <1>2, <1>3, <2>3 DEF ExportStart
  <2>4. CASE NothingFound(t)
    BY <1>2, <1>3, <2>4 DEF NothingFound
  <2>5. CASE Unlink(t)
    <3>1. [disk EXCEPT ![CurKey(t)] = NoFile] \in [Keys -> Versions \cup {NoFile, Junk, Zero, Skull}]
      BY <1>2
    <3>2. [cur EXCEPT ![t] = @ + 1] \in [Threads -> Int]
      BY SMTT(60), <1>2
    <3> QED BY <1>2, <2>5, <3>1, <3>2 DEF Unlink
  <2> QED BY <1>6, <2>1, <2>2, <2>3, <2>4, <2>5
<1>7. CASE FileMissing(t) \/ ExportEnd(t)
  BY <1>2, <1>3, <1>7 DEF FileMissing, ExportEnd, Fill
<1>8. CASE CopyLarger(t)
  <2>1. ret[t] \in Entries
    BY <1>2, <1>8 DEF CopyLarger, LoopsInRange, IInv, TypeOK
  <2> QED BY <1>2, <1>8, <2>1 DEF CopyLarger, Fill
<1>9. CASE Demote(t) \/ Drop(t) \/ Reget(t) \/ MRelease(t)
  BY <1>2, <1>9 DEF Demote, Drop, Reget, MRelease
<1>10. CASE Regot(t) \/ KeepWrite(t)
  BY <1>2, <1>10 DEF Regot, KeepWrite, DeadImage
<1>11. CASE TryLarger(t)
  BY SMTT(60), <1>2, <1>3, <1>11 DEF TryLarger
<1>12. CASE TestDown(t) \/ TestUp(t)
  <2>1. <<req[t].k[1], cur[t]>> \in Keys
    BY <1>2, <1>3, <1>12, KeyOfSize DEF TestDown, TestUp, LoopsInRange
  <2>2. ASSUME NEW d \in Int, NEW miss \in SUBSET Keys, TestLock(t, d, miss)
        PROVE  MTypeOK'
    <3>1. [req EXCEPT ![t].k = <<req[t].k[1], cur[t]>>] \in [Threads -> [k : Keys, m : Modes]]
      BY <1>2, <2>1
    <3>2. [cur EXCEPT ![t] = @ + d] \in [Threads -> Int]
      BY SMTT(60), <1>2
    <3>3. mpc' \in [Threads -> MPCs] /\ req' \in [Threads -> [k : Keys, m : Modes]]
          /\ cur' \in [Threads -> Int] /\ wanted' \in SUBSET Keys
      BY <1>2, <2>2, <3>1, <3>2 DEF TestLock
    <3> QED BY <1>2, <2>2, <3>3 DEF TestLock
  <2>3. CASE TestDown(t)
    <3>1. (IF cur[t] = req[t].k[2] THEN {req[t].k} ELSE {}) \in SUBSET Keys
      BY <1>3
    <3> QED BY SMTT(60), <2>2, <2>3, <3>1 DEF TestDown
  <2>4. CASE TestUp(t)
    BY SMTT(60), <2>2, <2>4 DEF TestUp
  <2> QED BY <1>12, <2>3, <2>4
<1>13. CASE RemoveTest(t) \/ RemoveEntry(t) \/ EvictNext(t)
  BY SMTT(60), <1>2, <1>3, <1>13 DEF RemoveTest, RemoveEntry, EvictNext
<1>14. CASE Invalidate(t)
  BY <1>2, <1>14 DEF Invalidate
<1> QED
  BY <1>4, <1>5, <1>6, <1>7, <1>8, <1>9, <1>10, <1>11, <1>12, <1>13, <1>14
  DEF Continue
-----------------------------------------------------------------------------
(* The loops over the sizes stay in range. *)
LEMMA StepKeepsLoops ==
  ASSUME MIInv, NEW t \in Threads, Start(t) \/ Continue(t)
  PROVE  LoopsInRange'
<1> DEFINE Loop(u) ==
      /\ mpc[u] \in {"larger", "up", "remove", "evict", "inval", "unlink", "rm"} => cur[u] >= 0
      /\ mpc[u] \in {"down", "inval", "unlink", "rm"} => cur[u] <= MaxMip
      /\ mpc[u] \in {"copy", "inval"} => pc[u] = "idle" /\ ret[u] \in held[u]
<1>1. MTypeOK /\ LoopsInRange /\ IInv /\ Loop(t)
  BY DEF MIInv, LoopsInRange
<1>2. mpc \in [Threads -> MPCs] /\ cur \in [Threads -> Int] /\ MaxMip \in Nat
      /\ req[t].k[2] \in 0 .. MaxMip /\ cur[t] \in Int
  BY <1>1, MipmapAssumption DEF MTypeOK, Mips
<1>3. /\ pc \in [Threads -> PCs] /\ ret \in [Threads -> Entries \cup {NoEntry}]
      /\ held \in [Threads -> SUBSET Entries]
  BY <1>1 DEF IInv, TypeOK
<1>4. ASSUME NEW u \in Threads, u # t
      PROVE  Loop(u)'
  <2>1. pc'[u] = pc[u] /\ ret'[u] = ret[u] /\ held'[u] = held[u]
    BY <1>1, <1>4, StepIsCacheStep, OthersUntouched DEF vars, lockVars
  <2>2. mpc'[u] = mpc[u] /\ cur'[u] = cur[u]
    <3> USE DEF Goto, cliVars
    <3>1. CASE Start(t)
      BY <1>2, <1>4, <3>1 DEF Start, Blocking, BestEffort, Edit, Evict
    <3>2. CASE CacheWork(t) \/ GotLoaded(t) \/ GotGenerate(t) \/ FileMissing(t)
               \/ CopyLarger(t) \/ ExportStart(t) \/ ExportEnd(t)
      BY <1>2, <1>4, <3>2
      DEF CacheWork, GotLoaded, GotGenerate, FileMissing, CopyLarger,
          ExportStart, ExportEnd
    <3>3. CASE Demote(t) \/ Drop(t) \/ Reget(t) \/ Regot(t) \/ KeepWrite(t) \/ MRelease(t)
      BY <1>2, <1>4, <3>3 DEF Demote, Drop, Reget, Regot, KeepWrite, MRelease
    <3>4. CASE TryLarger(t) \/ TestDown(t) \/ TestUp(t)
      BY <1>2, <1>4, <3>4 DEF TryLarger, TestDown, TestUp, TestLock
    <3>5. CASE TurnUp(t) \/ NothingFound(t) \/ RemoveTest(t) \/ Invalidate(t)
      BY <1>2, <1>4, <3>5 DEF TurnUp, NothingFound, RemoveTest, Invalidate
    <3>6. CASE RemoveEntry(t) \/ Unlink(t) \/ EvictNext(t) \/ LoopEnd(t)
      BY <1>2, <1>4, <3>6 DEF RemoveEntry, Unlink, EvictNext, LoopEnd
    <3> QED BY <3>1, <3>2, <3>3, <3>4, <3>5, <3>6 DEF Continue
  <2> QED BY <1>1, <2>1, <2>2 DEF LoopsInRange
<1>5. Loop(t)'
  <2> USE DEF Goto
  <2>1. CASE Start(t)
    <3>1. ASSUME NEW k \in Keys, BestEffort(t, k)
          PROVE  Loop(t)'
      <4>1. k[2] \in 0 .. MaxMip
        BY MipmapAssumption DEF Mips
      <4> QED BY SMTT(60), <1>2, <3>1, <4>1 DEF BestEffort
    <3>2. ASSUME NEW k \in Keys, NEW m \in Modes, Blocking(t, k, m)
          PROVE  Loop(t)'
      BY <1>2, <3>2 DEF Blocking
    <3>3. ASSUME NEW i \in Images, Edit(t, i) \/ Evict(t, i)
          PROVE  Loop(t)'
      BY SMTT(60), <1>2, <3>3 DEF Edit, Evict
    <3> QED BY <2>1, <3>1, <3>2, <3>3 DEF Start
  <2>2. CASE CacheWork(t)
    <3>1. ASSUME InCache(t) PROVE pc[t] # "idle"
      BY <3>1 DEF InCache, GetFound, GetMiss, GcDone, GcSkip, RemoveMiss
    <3>2. ASSUME InAlloc(t) PROVE pc[t] # "idle"
      BY <3>2 DEF InAlloc, Alloc
    <3>3. ASSUME InDelete(t) PROVE pc[t] # "idle"
      BY <3>3 DEF InDelete, GcDelete, RemoveFound
    <3>4. pc[t] # "idle"
      BY <2>2, <3>1, <3>2, <3>3 DEF CacheWork
    <3>5. mpc' = mpc /\ cur' = cur
      BY <2>2 DEF CacheWork, cliVars
    <3> QED BY <1>1, <3>4, <3>5
  <2> HIDE DEF Loop
  <2>a. ASSUME mpc'[t] \in {"generated", "export", "drop", "reget", "regot", "use", "free"}
        PROVE  Loop(t)'
    BY <2>a DEF Loop
  <2>3. CASE GotLoaded(t) \/ FileMissing(t) \/ CopyLarger(t) \/ ExportStart(t) \/ ExportEnd(t)
    <3>1. mpc'[t] \in {"generated", "export"}
      BY <1>2, <2>3 DEF GotLoaded, FileMissing, CopyLarger, ExportStart, ExportEnd
    <3> QED BY <2>a, <3>1
  <2>b. CASE GotGenerate(t)
    <3>1. mpc'[t] = "larger" /\ cur'[t] = req[t].k[2] + 1
      BY <1>2, <2>b DEF GotGenerate
    <3>2. cur'[t] >= 0
      BY SMTT(60), <1>2, <3>1
    <3> QED BY <3>1, <3>2 DEF Loop
  <2>4. CASE Demote(t) \/ Drop(t) \/ Reget(t) \/ Regot(t) \/ KeepWrite(t) \/ MRelease(t)
    <3>1. mpc'[t] \in {"drop", "reget", "regot", "use", "free"}
      BY <1>2, <2>4 DEF Demote, Drop, Reget, Regot, KeepWrite, MRelease
    <3> QED BY <2>a, <3>1
  <2> USE DEF Loop
  <2>5. ASSUME NEW k, NEW m, TestGet(t, k, m)
        PROVE  pc'[t] = "idle" /\ (ret'[t] # NoEntry => ret'[t] \in held'[t])
    BY SMTT(60), <1>3, <2>5 DEF TestGet, MayCall, Lock
  <2>6. CASE TryLarger(t)
    <3>1. cur[t] >= 0 /\ pc'[t] = "idle" /\ (ret'[t] # NoEntry => ret'[t] \in held'[t])
      BY <1>1, <2>5, <2>6 DEF TryLarger
    <3>2. CASE ret'[t] # NoEntry
      <4>1. mpc'[t] = "copy"
        BY <1>2, <2>6, <3>2 DEF TryLarger
      <4> QED BY <3>1, <3>2, <4>1
    <3>3. CASE ret'[t] = NoEntry
      <4>1. mpc'[t] = "larger" /\ cur'[t] = cur[t] + 1
        BY <1>2, <2>6, <3>3 DEF TryLarger
      <4> QED BY SMTT(60), <1>2, <3>1, <4>1
    <3> QED BY <3>2, <3>3
  <2>7. CASE TestDown(t)
    BY SMTT(60), <1>1, <1>2, <2>7 DEF TestDown, TestLock
  <2>8. CASE TestUp(t)
    BY SMTT(60), <1>1, <1>2, <2>8 DEF TestUp, TestLock
  <2>9. CASE TurnUp(t) \/ NothingFound(t) \/ LoopEnd(t)
    BY SMTT(60), <1>2, <2>9 DEF TurnUp, NothingFound, LoopEnd
  <2>10. CASE RemoveTest(t)
    BY <1>1, <1>2, <2>5, <2>10 DEF RemoveTest
  <2>11. CASE Invalidate(t)
    BY <1>1, <1>2, <2>11 DEF Invalidate
  <2>12. CASE RemoveEntry(t) \/ Unlink(t) \/ EvictNext(t)
    <3>1. mpc[t] \in {"rm", "unlink", "evict"} /\ cur'[t] = cur[t] + 1
      BY <1>2, <2>12 DEF RemoveEntry, Unlink, EvictNext
    <3>2. mpc'[t] \in {"remove", "evict"}
      BY <1>2, <2>12 DEF RemoveEntry, Unlink, EvictNext
    <3>3. cur'[t] >= 0
      BY SMTT(60), <1>1, <1>2, <3>1
    <3> QED BY <3>2, <3>3
  <2> QED
    BY <2>1, <2>2, <2>3, <2>b, <2>4, <2>6, <2>7, <2>8, <2>9, <2>10, <2>11, <2>12 DEF Continue
<1> QED BY <1>4, <1>5 DEF LoopsInRange

-----------------------------------------------------------------------------
(* The inductive invariant of the mipmap cache. *)
LEMMA MInitIInv == MInit => MIInv
<1> SUFFICES ASSUME MInit PROVE MIInv
  OBVIOUS
<1>1. IInv
  BY InitIInv DEF MInit
<1>2. arg \in [Threads -> [k : Keys, m : Modes]] /\ 0 \in Versions
  BY SMTT(60), <1>1, MipmapAssumption DEF IInv, TypeOK, Versions
<1>3. MTypeOK
  BY SMTT(60), <1>2 DEF MInit, MTypeOK, MPCs
<1>4. LoopsInRange
  BY DEF MInit, LoopsInRange
<1> QED BY <1>1, <1>3, <1>4 DEF MIInv

(* Every step of the mipmap cache keeps its invariant, and is a step of   *)
(* the cache below it or none.                                             *)
LEMMA MNextIInv == MIInv /\ [MNext]_mvars => MIInv' /\ [Next]_vars
<1> SUFFICES ASSUME MIInv, [MNext]_mvars PROVE MIInv' /\ [Next]_vars
  OBVIOUS
<1>1. CASE UNCHANGED mvars
  <2>1. UNCHANGED vars
    BY <1>1 DEF mvars
  <2>2. IInv'
    BY <2>1, NextIInv DEF MIInv
  <2>3. MTypeOK' /\ LoopsInRange'
    BY <1>1 DEF mvars, vars, lockVars, dscVars, cliVars, MIInv, MTypeOK, LoopsInRange
  <2> QED BY <2>1, <2>2, <2>3 DEF MIInv
<1>2. ASSUME NEW t \in Threads, Start(t) \/ Continue(t)
      PROVE  MIInv' /\ [Next]_vars
  <2>1. [Next]_vars
    BY <1>2, StepIsCacheStep DEF Next
  <2>2. IInv'
    BY <2>1, NextIInv DEF MIInv
  <2> QED BY <1>2, <2>1, <2>2, StepKeepsTypes, StepKeepsLoops DEF MIInv
<1> QED BY <1>1, <1>2 DEF MNext

(* The mipmap cache's variables keep their types, its loops stay in range  *)
(* and the cache below keeps its invariant.                                *)
THEOREM MipmapInvariant == MSpec => []MIInv
  BY MInitIInv, MNextIInv, PTL DEF MSpec

(* The mipmap cache uses the cache as the cache's specification allows.    *)
THEOREM MipmapImplementsCache == MSpec => Spec
<1>1. MInit => Init
  BY DEF MInit
<1> QED BY <1>1, MInitIInv, MNextIInv, PTL DEF MSpec, Spec

(* No thumbnail buffer is used after it was freed: an entry a thread has   *)
(* locked, for its client, for copying from or for removing, is allocated. *)
THEOREM ThumbnailsAlive == MSpec => []HeldAlive
  BY MipmapImplementsCache, NoUseAfterFree, PTL

-----------------------------------------------------------------------------
(* What clients of the thumbnail cache rely on, for any number of threads, *)
(* images and sizes, when one thread at a time reads thumbnails.           *)

(* The thumbnails are read by one thread. *)
OneReader == \A t, u \in Readers : t = u

(* The entry of the key thread t asked for. *)
At(t) == table[req[t].k]

(* What a thread has locked at each place of an operation. *)
Hand(t) ==
  \/ /\ mpc[t] \in {"free", "down", "up", "rm", "unlink", "reget"}
     /\ held[t] = {} /\ pc[t] = "idle"
  \/ /\ mpc[t] \in {"remove", "evict"}
     /\ held[t] = {} /\ pc[t] \in {"idle", "remove"}
  \/ mpc[t] = "inval" /\ held[t] = {ret[t]} /\ pc[t] = "idle"
  \/ /\ mpc[t] \in {"larger", "export", "generated", "drop", "use"}
     /\ held[t] = {At(t)} /\ pc[t] = "idle"
  \/ /\ mpc[t] = "copy"
     /\ held[t] = {At(t), ret[t]} /\ ret[t] # At(t) /\ pc[t] = "idle"
  \/ /\ mpc[t] \in {"block", "regot"}
     /\ held[t] = {At(t)} /\ ret[t] = At(t) /\ pc[t] = "idle"
  \/ /\ mpc[t] \in {"block", "regot"}
     /\ held[t] = {} /\ arg[t].k = req[t].k /\ pc[t] \in {"get", "gc", "alloc"}
HandInv == \A t \in Threads : Hand(t)

(* Only the readers demote, and only they take what they find. *)
Mode(t) ==
  /\ mpc[t] \in {"down", "up"} => t \in Readers
  /\ mpc[t] \in {"block", "larger", "copy", "export", "generated"} /\ req[t].m = "r"
       => t \in Readers
ModeInv == \A t \in Threads : Mode(t)

(* An entry that is still to be generated is write locked by the thread    *)
(* that generates it.                                                      *)
Filling(t) == mpc[t] \in {"block", "larger", "copy", "export"} /\ pc[t] = "idle"
Claim(e) == wr[e] \in Threads /\ Filling(wr[e]) /\ At(wr[e]) = e
ClaimInv == \A e \in live : gen[e] => Claim(e)
FillInv ==
  \A t \in Threads : mpc[t] \in {"larger", "copy", "export"} => gen[At(t)]

(* Nothing is generated with what was in the buffer before. *)
JunkInv == \A e \in live : ~gen[e] => pix[e] # Junk

(* A zero-sized result is on its way to become a dead image: in the hands  *)
(* of the thread that generated it, or in a reader's demotion.             *)
Mends(t, e) ==
  /\ At(t) = e
  /\ \/ mpc[t] = "generated" /\ wr[e] = t
     \/ /\ t \in Readers /\ req[t].m = "r"
        /\ mpc[t] \in {"generated", "drop", "reget", "regot"}
ZeroInv == \A e \in live : pix[e] = Zero => \E t \in Threads : Mends(t, e)

(* The window of a demotion: _lock_demoting keeps the entry. *)
Window(t) ==
  mpc[t] \in {"drop", "reget", "regot"} =>
    /\ t \in Readers /\ req[t].m = "r"
    /\ At(t) # NoEntry /\ demoting[At(t)] /\ ~gen[At(t)]
DemoteInv == \A t \in Threads : Window(t)

(* A buffer in use has a size. *)
UseInv == \A t \in Threads : mpc[t] = "use" => pix[At(t)] # Zero

(* The inductive invariant. *)
SInv ==
  /\ MIInv /\ HandInv /\ ModeInv /\ ClaimInv /\ FillInv /\ JunkInv /\ ZeroInv
  /\ DemoteInv /\ UseInv /\ DiskClean
-----------------------------------------------------------------------------
(* The entry of the key asked for, once in hand, is the target. *)
LEMMA TargetIsAt ==
  ASSUME IInv, MTypeOK, NEW t \in Threads, At(t) \in held[t]
  PROVE  /\ Target(t) = At(t) /\ At(t) \in live /\ At(t) \in Entries
         /\ key[At(t)] = req[t].k /\ req[t].k \in Keys
<1>1. req[t].k \in Keys /\ held[t] \subseteq Entries
  BY DEF IInv, TypeOK, MTypeOK
<1>2. \A e \in held[t] : e \in live /\ table[key[e]] = e
  BY DEF IInv, HeldAlive, IndexConsistent
<1>3. key[At(t)] = req[t].k
  BY <1>1, <1>2, CacheAssumption DEF At, IInv, IndexConsistent
<1>4. \A e \in held[t] : key[e] = req[t].k => e = At(t)
  BY <1>2 DEF At
<1> QED BY <1>1, <1>2, <1>3, <1>4 DEF Target

(* A thread that holds an entry still to be generated is generating it. *)
LEMMA HolderFills ==
  ASSUME IInv, ClaimInv, NEW t \in Threads, NEW e \in held[t], gen[e]
  PROVE  wr[e] = t /\ Filling(t) /\ At(t) = e
<1>1. e \in live /\ e \in Entries /\ (wr[e] = t \/ t \in rd[e])
  BY DEF IInv, HeldAlive, TypeOK
<1>2. wr[e] \in Threads /\ Filling(wr[e]) /\ At(wr[e]) = e
  BY <1>1 DEF ClaimInv, Claim
<1>3. wr[e] = t
  BY <1>1, <1>2, CacheAssumption DEF IInv, LockOwners
<1> QED BY <1>2, <1>3

(* A step of t leaves what another thread asked for, has in hand and is    *)
(* doing alone, and keeps the entry it has in hand or demotes.             *)
LEMMA OthersKept ==
  ASSUME MIInv, NEW t \in Threads, Start(t) \/ Continue(t), NEW u \in Threads, u # t
  PROVE  /\ mpc'[u] = mpc[u] /\ req'[u] = req[u] /\ pc'[u] = pc[u] /\ arg'[u] = arg[u]
         /\ ret'[u] = ret[u] /\ held'[u] = held[u]
         /\ \A e \in Entries : wr[e] = u => wr'[e] = u
         /\ At(u) \in held[u] => At(u)' = At(u)
         /\ At(u) # NoEntry /\ demoting[At(u)] => At(u)' = At(u)
<1>1. IInv /\ MTypeOK /\ (ThreadNext(t) \/ UNCHANGED vars)
  BY StepIsCacheStep DEF MIInv
<1>2. mpc \in [Threads -> MPCs] /\ req \in [Threads -> [k : Keys, m : Modes]]
      /\ req[u].k \in Keys
  BY <1>1 DEF MTypeOK
<1>3. mpc'[u] = mpc[u] /\ req'[u] = req[u]
  <2> USE DEF Goto, cliVars
  <2>1. CASE Start(t)
    BY <1>2, <2>1 DEF Start, Blocking, BestEffort, Edit, Evict
  <2>2. CASE CacheWork(t) \/ GotLoaded(t) \/ GotGenerate(t) \/ FileMissing(t)
             \/ CopyLarger(t) \/ ExportStart(t) \/ ExportEnd(t)
    BY <1>2, <2>2
    DEF CacheWork, GotLoaded, GotGenerate, FileMissing, CopyLarger, ExportStart, ExportEnd
  <2>3. CASE Demote(t) \/ Drop(t) \/ Reget(t) \/ Regot(t) \/ KeepWrite(t) \/ MRelease(t)
    BY <1>2, <2>3 DEF Demote, Drop, Reget, Regot, KeepWrite, MRelease
  <2>4. CASE TryLarger(t) \/ TestDown(t) \/ TestUp(t)
    BY <1>2, <2>4 DEF TryLarger, TestDown, TestUp, TestLock
  <2>5. CASE TurnUp(t) \/ NothingFound(t) \/ RemoveTest(t) \/ Invalidate(t)
    BY <1>2, <2>5 DEF TurnUp, NothingFound, RemoveTest, Invalidate
  <2>6. CASE RemoveEntry(t) \/ Unlink(t) \/ EvictNext(t) \/ LoopEnd(t)
    BY <1>2, <2>6 DEF RemoveEntry, Unlink, EvictNext, LoopEnd
  <2> QED BY <2>1, <2>2, <2>3, <2>4, <2>5, <2>6 DEF Continue
<1>4. CASE UNCHANGED vars
  BY <1>3, <1>4 DEF vars, lockVars, At
<1>5. CASE ThreadNext(t)
  <2>1. /\ pc'[u] = pc[u] /\ ret'[u] = ret[u] /\ held'[u] = held[u] /\ arg'[u] = arg[u]
        /\ \A e \in Entries : wr[e] = u => wr'[e] = u
    BY <1>1, <1>5, OthersUntouched, WriterKept
  <2>2. At(u)' = table'[req[u].k]
    BY <1>3 DEF At
  <2>3. ASSUME At(u) \in held[u] PROVE At(u)' = At(u)
    <3>1. At(u) # NoEntry
      BY <1>1, <2>3, CacheAssumption DEF IInv, TypeOK
    <3> QED BY <1>1, <1>2, <1>5, <2>2, <2>3, <3>1, TableKept DEF At
  <2>4. ASSUME At(u) # NoEntry, demoting[At(u)] PROVE At(u)' = At(u)
    BY <1>1, <1>2, <1>5, <2>2, <2>4, TableKept DEF At
  <2> QED BY <1>3, <2>1, <2>3, <2>4
<1> QED BY <1>1, <1>4, <1>5

(* What the other threads have locked stays as their place says. *)
LEMMA HandOfOthers ==
  ASSUME MIInv, HandInv, NEW t \in Threads, Start(t) \/ Continue(t),
         NEW u \in Threads, u # t
  PROVE  Hand(u)'
<1>1. Hand(u)
  BY DEF HandInv
<1>2. /\ mpc'[u] = mpc[u] /\ req'[u] = req[u] /\ pc'[u] = pc[u] /\ arg'[u] = arg[u]
      /\ ret'[u] = ret[u] /\ held'[u] = held[u]
      /\ At(u) \in held[u] => At(u)' = At(u)
  BY OthersKept
<1>3. At(u)' = At(u) \/ At(u) \notin held[u]
  BY <1>2
<1> QED BY <1>1, <1>2, <1>3 DEF Hand

-----------------------------------------------------------------------------
(* A zero-sized result that can be read locked is in the window of another *)
(* reader's demotion: with one reader, a testget finds none.               *)
LEMMA NoZeroFound ==
  ASSUME IInv, ZeroInv, ModeInv, OneReader, NEW t \in Threads, mpc[t] \in {"down", "up"},
         NEW e \in live, CanRead(e)
  PROVE  pix[e] # Zero
<1> SUFFICES ASSUME pix[e] = Zero PROVE FALSE
  OBVIOUS
<1>1. PICK u \in Threads : Mends(u, e)
  BY DEF ZeroInv
<1>2. t \in Readers /\ wr[e] # u
  BY CacheAssumption DEF CanRead, ModeInv, Mode
<1>3. u \in Readers /\ mpc[u] \in {"generated", "drop", "reget", "regot"}
  BY <1>1, <1>2 DEF Mends
<1>4. u = t
  BY <1>2, <1>3 DEF OneReader
<1> QED BY <1>3, <1>4

(* Where a step leads its own thread, and what the thread has locked then. *)
LEMMA HandOfMover ==
  ASSUME MIInv, HandInv, ZeroInv, ModeInv, OneReader, NEW t \in Threads,
         Start(t) \/ Continue(t)
  PROVE  Hand(t)'
<1>a. IInv /\ Hand(t) /\ LoopsInRange /\ MTypeOK
  BY DEF MIInv, HandInv
<1>b. /\ mpc \in [Threads -> MPCs] /\ req \in [Threads -> [k : Keys, m : Modes]]
      /\ cur[t] \in Int /\ req[t].k \in Keys
  BY <1>a DEF MTypeOK
<1>c. /\ pc \in [Threads -> PCs] /\ arg \in [Threads -> [k : Keys, m : Modes]]
      /\ held \in [Threads -> SUBSET Entries] /\ ret \in [Threads -> Entries \cup {NoEntry}]
      /\ table \in [Keys -> Entries \cup {NoEntry}]
  BY <1>a DEF IInv, TypeOK
<1> USE <1>a, <1>b, <1>c DEF Goto, lockVars
<1>1. CASE Start(t)
  <2>1. ASSUME NEW k \in Keys, NEW m \in Modes, Blocking(t, k, m)
        PROVE  /\ mpc'[t] = "block" /\ held'[t] = {} /\ pc'[t] = "get"
               /\ arg'[t].k = k /\ req'[t].k = k
    BY <2>1 DEF Blocking, CallGet, Call
  <2>2. ASSUME NEW k \in Keys, BestEffort(t, k)
        PROVE  mpc'[t] = "down" /\ held'[t] = {} /\ pc'[t] = "idle"
    BY <2>2 DEF BestEffort, vars
  <2>3. ASSUME NEW i \in Images, Edit(t, i) \/ Evict(t, i)
        PROVE  mpc'[t] \in {"remove", "evict"} /\ held'[t] = {} /\ pc'[t] = "idle"
    BY <2>3 DEF Edit, Evict, vars
  <2> QED BY <1>1, <2>1, <2>2, <2>3 DEF Start, Hand
<1>2. CASE CacheWork(t)
  <2>1. mpc' = mpc /\ req' = req
    BY <1>2 DEF CacheWork, cliVars
  <2>2. CASE GetFound(t)
    <3>1. pc[t] = "get" /\ pc'[t] = "idle" /\ ret'[t] = table[arg[t].k] /\ table' = table
          /\ held'[t] = held[t] \cup {table[arg[t].k]}
      BY <2>2 DEF GetFound, Lock
    <3> QED BY <2>1, <3>1 DEF Hand, At
  <2>3. CASE GetMiss(t) \/ GcDone(t) \/ GcSkip(t) \/ GcDelete(t)
    <3>1. pc[t] \in {"get", "gc"} /\ pc'[t] \in {"get", "gc", "alloc"}
          /\ held' = held /\ arg' = arg
      BY <2>3 DEF GetMiss, GcDone, GcSkip, GcDelete
    <3> QED BY <2>1, <3>1 DEF Hand
  <2>4. CASE RemoveMiss(t) \/ RemoveFound(t)
    <3>1. pc[t] = "remove" /\ pc'[t] = "idle" /\ held' = held
      BY <2>4 DEF RemoveMiss, RemoveFound
    <3> QED BY <2>1, <3>1 DEF Hand
  <2>5. ASSUME NEW e \in Entries, NEW c \in Costs, Alloc(t, e, c) PROVE Hand(t)'
    <3>1. pc[t] = "alloc" /\ pc'[t] = "idle" /\ ret'[t] = e /\ table'[arg[t].k] = e
          /\ held'[t] = held[t] \cup {e}
      BY <2>5 DEF Alloc, Lock
    <3> QED BY <2>1, <3>1 DEF Hand, At
  <2> QED
    BY <1>2, <2>2, <2>3, <2>4, <2>5 DEF CacheWork, InCache, InAlloc, InDelete
<1>3. ASSUME UNCHANGED vars, req' = req, NEW p, mpc'[t] = p,
             \/ mpc[t] \in {"block", "larger", "export", "generated"} /\ pc[t] = "idle"
                /\ mpc[t] # "free"
                /\ p \in {"larger", "export", "generated", "use"}
             \/ mpc[t] \in {"down", "up", "unlink", "remove", "evict"} /\ pc[t] = "idle"
                /\ p \in {"up", "free", "remove"}
      PROVE  Hand(t)'
  BY <1>3 DEF vars, Hand, At
<1>4. CASE GotLoaded(t) \/ GotGenerate(t) \/ FileMissing(t)
  BY <1>3, <1>4 DEF GotLoaded, GotGenerate, FileMissing, Got
<1>5. CASE ExportStart(t) \/ ExportEnd(t) \/ KeepWrite(t)
  <2>1. pc[t] = "idle"
    BY <1>5 DEF ExportStart, ExportEnd, KeepWrite, Hand
  <2> QED BY <1>3, <1>5, <2>1 DEF ExportStart, ExportEnd, KeepWrite
<1>6. CASE TurnUp(t) \/ NothingFound(t) \/ Unlink(t) \/ LoopEnd(t)
  <2>1. pc[t] = "idle"
    BY <1>6 DEF TurnUp, NothingFound, Unlink, LoopEnd, Hand
  <2> QED BY <1>3, <1>6, <2>1 DEF TurnUp, NothingFound, Unlink, LoopEnd
<1>7. CASE Reget(t)
  BY <1>7 DEF Reget, CallGet, Call, Hand
<1>8. CASE RemoveEntry(t) \/ EvictNext(t)
  BY <1>8 DEF RemoveEntry, EvictNext, CallRemove, Call, Hand
<1>9. CASE CopyLarger(t)
  <2>1. held[t] = {At(t), ret[t]} /\ ret[t] # At(t)
    BY <1>9 DEF CopyLarger, Hand
  <2>2. /\ pc' = pc /\ pc[t] = "idle" /\ table' = table /\ held'[t] = held[t] \ {ret[t]}
        /\ mpc'[t] = "generated" /\ req' = req
    BY <1>9, ReleaseHand DEF CopyLarger
  <2> QED BY <2>1, <2>2 DEF Hand, At
<1>10. CASE Drop(t) \/ MRelease(t)
  <2>1. held[t] = {At(t)}
    BY <1>10 DEF Drop, MRelease, Hand
  <2>2. /\ pc'[t] = "idle" /\ held'[t] = held[t] \ {At(t)}
        /\ mpc'[t] \in {"reget", "free"}
    BY SMT, <1>10, <2>1, TargetIsAt, ReleaseHand DEF Drop, MRelease
  <2> QED BY <2>1, <2>2 DEF Hand
<1>11. CASE Invalidate(t)
  <2>1. held[t] = {ret[t]}
    BY <1>11 DEF Invalidate, Hand
  <2>2. pc'[t] = "idle" /\ held'[t] = held[t] \ {ret[t]} /\ mpc'[t] = "rm"
    BY <1>11, ReleaseHand DEF Invalidate
  <2> QED BY <2>1, <2>2 DEF Hand
<1>12. CASE Demote(t) \/ Regot(t)
  <2>1. held[t] = {At(t)} /\ pc[t] = "idle"
    BY <1>12 DEF Demote, Regot, Hand
  <2>2. pc' = pc /\ held' = held /\ table' = table /\ req' = req
        /\ mpc'[t] \in {"drop", "use"}
    BY <1>12 DEF Demote, Regot, SetDemoting
  <2> QED BY <2>1, <2>2 DEF Hand, At
<1>13. CASE TryLarger(t)
  <2>1. PICK k \in Keys : TestGet(t, k, "r")
    BY <1>13, KeyOfSize DEF TryLarger, LoopsInRange
  <2>2. held[t] = {At(t)} /\ req' = req
    BY <1>13 DEF TryLarger, Hand
  <2>3. pc'[t] = "idle" /\ table' = table
        /\ \/ ret'[t] = NoEntry /\ held'[t] = held[t]
           \/ ret'[t] # NoEntry /\ held'[t] = held[t] \cup {ret'[t]} /\ ret'[t] \notin held[t]
    BY <2>1, TestGetHand DEF Modes
  <2>4. mpc'[t] = IF ret'[t] # NoEntry THEN "copy" ELSE "larger"
    BY <1>13 DEF TryLarger
  <2> QED BY <2>2, <2>3, <2>4 DEF Hand, At
<1>14. CASE TestDown(t) \/ TestUp(t)
  <2>1. PICK d, miss : TestLock(t, d, miss)
    BY <1>14 DEF TestDown, TestUp
  <2>2. PICK k \in Keys : k = <<req[t].k[1], cur[t]>>
    BY <1>14, KeyOfSize DEF TestDown, TestUp, LoopsInRange
  <2>3. held[t] = {} /\ mpc[t] \in {"down", "up"}
    BY <1>14 DEF TestDown, TestUp, Hand
  <2>4. TestGet(t, k, "r") /\ "r" \in Modes
    BY <2>1, <2>2 DEF TestLock, Modes
  <2>5. CASE ret'[t] = NoEntry
    BY <2>1, <2>3, <2>4, <2>5, TestGetHand DEF TestLock, Hand
  <2>6. CASE ret'[t] # NoEntry
    <3>1. /\ table[k] \in live /\ CanRead(table[k]) /\ held'[t] = {table[k]}
          /\ pc'[t] = "idle" /\ table' = table
      BY SMT, <2>3, <2>4, <2>6, TestGetHand DEF CanLock
    <3>2. pix[table[k]] # Zero
      BY <2>3, <3>1, NoZeroFound
    <3>3. mpc'[t] = "use" /\ req'[t].k = k
      BY SMT, <2>1, <2>2, <2>6, <3>2 DEF TestLock
    <3> QED BY <3>1, <3>3 DEF Hand, At
  <2> QED BY <2>5, <2>6
<1>15. CASE RemoveTest(t)
  <2>1. PICK k \in Keys : TestGet(t, k, "w")
    BY <1>15, KeyOfSize DEF RemoveTest, LoopsInRange, CurKey
  <2>2. held[t] = {}
    BY <1>15 DEF RemoveTest, Hand
  <2>3. pc'[t] = "idle"
        /\ \/ ret'[t] = NoEntry /\ held'[t] = {}
           \/ ret'[t] # NoEntry /\ held'[t] = {ret'[t]}
    BY <2>1, <2>2, TestGetHand DEF Modes
  <2>4. mpc'[t] = IF ret'[t] # NoEntry THEN "inval" ELSE "unlink"
    BY <1>15 DEF RemoveTest
  <2> QED BY <2>3, <2>4 DEF Hand
<1> QED
  BY <1>1, <1>2, <1>4, <1>5, <1>6, <1>7, <1>8, <1>9, <1>10, <1>11, <1>12, <1>13, <1>14, <1>15
  DEF Continue

(* Only a reader gets to the places of a reader. *)
LEMMA ModeKept ==
  ASSUME MIInv, ModeInv, NEW t \in Threads, Start(t) \/ Continue(t)
  PROVE  ModeInv'
<1>1. /\ mpc \in [Threads -> MPCs] /\ req \in [Threads -> [k : Keys, m : Modes]]
  BY DEF MIInv, MTypeOK
<1>2. ASSUME NEW u \in Threads, u # t PROVE Mode(u)'
  <2>1. mpc'[u] = mpc[u] /\ req'[u] = req[u] /\ Mode(u)
    BY <1>2, OthersKept DEF ModeInv
  <2> QED BY <2>1 DEF Mode
<1>3. Mode(t)'
  <2> USE <1>1 DEF Goto, cliVars
  <2>1. Mode(t)
    BY DEF ModeInv
  <2>2. CASE Start(t)
    <3>1. ASSUME NEW k \in Keys, NEW m \in Modes, Blocking(t, k, m) PROVE Mode(t)'
      BY <3>1 DEF Blocking, Mode
    <3>2. ASSUME NEW k \in Keys, BestEffort(t, k) PROVE Mode(t)'
      BY <3>2 DEF BestEffort, Mode
    <3>3. ASSUME NEW i \in Images, Edit(t, i) \/ Evict(t, i) PROVE Mode(t)'
      BY <3>3 DEF Edit, Evict, Mode
    <3> QED BY <2>2, <3>1, <3>2, <3>3 DEF Start
  <2>3. CASE CacheWork(t)
    BY <2>1, <2>3 DEF CacheWork, Mode
  <2>4. ASSUME req' = req, mpc'[t] \in {"larger", "copy", "export", "generated"},
               mpc[t] \in {"block", "larger", "copy", "export"}
        PROVE  Mode(t)'
    BY <2>1, <2>4 DEF Mode
  <2>5. ASSUME mpc'[t] \notin {"down", "up", "block", "larger", "copy", "export", "generated"}
        PROVE  Mode(t)'
    BY <2>5 DEF Mode
  <2>6. CASE GotLoaded(t) \/ GotGenerate(t) \/ FileMissing(t) \/ CopyLarger(t)
    BY <2>4, <2>6 DEF GotLoaded, GotGenerate, FileMissing, CopyLarger, Got
  <2>7. CASE ExportStart(t) \/ ExportEnd(t) \/ TryLarger(t)
    BY <2>4, <2>7 DEF ExportStart, ExportEnd, TryLarger
  <2>8. CASE Demote(t) \/ Drop(t) \/ Reget(t) \/ Regot(t) \/ KeepWrite(t) \/ MRelease(t)
    BY <2>5, <2>8 DEF Demote, Drop, Reget, Regot, KeepWrite, MRelease
  <2>9. CASE TestDown(t) \/ TestUp(t)
    BY <2>1, <2>9 DEF TestDown, TestUp, TestLock, Mode
  <2>10. CASE TurnUp(t) \/ NothingFound(t)
    BY <2>1, <2>10 DEF TurnUp, NothingFound, Mode
  <2>11. CASE RemoveTest(t) \/ Invalidate(t) \/ RemoveEntry(t)
    BY <2>5, <2>11 DEF RemoveTest, Invalidate, RemoveEntry
  <2>12. CASE Unlink(t) \/ EvictNext(t) \/ LoopEnd(t)
    BY <2>5, <2>12 DEF Unlink, EvictNext, LoopEnd
  <2> QED BY <2>2, <2>3, <2>6, <2>7, <2>8, <2>9, <2>10, <2>11, <2>12 DEF Continue
<1> QED BY <1>2, <1>3 DEF ModeInv
-----------------------------------------------------------------------------
(* What a step of t does to the buffers: nothing but freeing some; fill    *)
(* the one asked for; put the dead image into it; or allocate it.          *)
Quiet == gen' = gen /\ pix' = pix /\ live' \subseteq live
Fills(t) ==
  /\ mpc[t] \in {"block", "copy", "export"} /\ pc[t] = "idle"
  /\ At(t) \in held[t] /\ gen[At(t)]
  /\ gen' = [gen EXCEPT ![At(t)] = FALSE]
  /\ \E p : p # Junk /\ pix' = [pix EXCEPT ![At(t)] = p]
  /\ live' = live /\ mpc'[t] = "generated" /\ At(t)' = At(t) /\ wr'[At(t)] = t
Buries(t) ==
  /\ mpc[t] \in {"generated", "regot"}
  /\ gen' = gen /\ live' = live
  /\ pix' = [pix EXCEPT ![At(t)] = IF @ = Zero THEN Skull ELSE @]
  /\ mpc'[t] = "use" /\ At(t)' = At(t) /\ At(t) \in Entries
Allocates(t) ==
  /\ pc[t] = "alloc" /\ pc'[t] = "idle" /\ mpc[t] = "block" /\ mpc'[t] = "block"
  /\ \E e, x :
       /\ e \in Entries /\ e \notin live /\ live' = live \cup {e}
       /\ At(t)' = e /\ wr'[e] = t
       /\ gen' = [gen EXCEPT ![e] = x.gen] /\ pix' = [pix EXCEPT ![e] = x.pix]
       /\ demoting' = [demoting EXCEPT ![e] = FALSE]
       /\ x.pix # Zero /\ (~x.gen => x.pix # Junk)

(* The places an action leads from and to. *)
LEMMA Places ==
  ASSUME MTypeOK, NEW t \in Threads
  PROVE  /\ Start(t) => mpc[t] = "free" /\ mpc'[t] \in {"block", "down", "remove", "evict"}
         /\ CacheWork(t) => pc[t] # "idle" /\ mpc' = mpc /\ req' = req
         /\ GotLoaded(t) \/ FileMissing(t) => mpc[t] = "block" /\ mpc'[t] = "generated"
         /\ CopyLarger(t) => mpc[t] = "copy" /\ mpc'[t] = "generated"
         /\ ExportEnd(t) => mpc[t] = "export" /\ mpc'[t] = "generated"
         /\ Demote(t) => mpc[t] = "generated" /\ mpc'[t] = "drop"
         /\ Drop(t) => mpc[t] = "drop" /\ mpc'[t] = "reget"
         /\ Reget(t) => mpc[t] = "reget" /\ mpc'[t] = "regot"
         /\ Regot(t) \/ KeepWrite(t) => mpc[t] \in {"regot", "generated"} /\ mpc'[t] = "use"
         /\ MRelease(t) \/ NothingFound(t) =>
              mpc[t] \in {"use", "up"} /\ mpc'[t] = "free"
         /\ TestDown(t) \/ TestUp(t) \/ TurnUp(t) =>
              mpc[t] \in {"down", "up"} /\ mpc'[t] \in {"down", "up", "use"}
         /\ RemoveTest(t) \/ Invalidate(t) \/ RemoveEntry(t) =>
              /\ mpc[t] \in {"remove", "inval", "rm"}
              /\ mpc'[t] \in {"remove", "inval", "rm", "unlink"}
         /\ Unlink(t) \/ EvictNext(t) \/ LoopEnd(t) =>
              /\ mpc[t] \in {"unlink", "remove", "evict"}
              /\ mpc'[t] \in {"remove", "evict", "free"}
<1>1. mpc \in [Threads -> MPCs]
  BY DEF MTypeOK
<1> USE <1>1 DEF Goto
<1>2. Start(t) => mpc[t] = "free" /\ mpc'[t] \in {"block", "down", "remove", "evict"}
  BY DEF Start, Blocking, BestEffort, Edit, Evict
<1>3. CacheWork(t) => pc[t] # "idle" /\ mpc' = mpc /\ req' = req
  <2>1. InCache(t) \/ InAlloc(t) \/ InDelete(t) => pc[t] # "idle"
    BY DEF InCache, InAlloc, InDelete, GetFound, GetMiss, GcDone, GcSkip, GcDelete,
           RemoveMiss, RemoveFound, Alloc
  <2> QED BY <2>1 DEF CacheWork, cliVars
<1>4. GotLoaded(t) \/ FileMissing(t) => mpc[t] = "block" /\ mpc'[t] = "generated"
  BY DEF GotLoaded, FileMissing, Got
<1>5. CopyLarger(t) => mpc[t] = "copy" /\ mpc'[t] = "generated"
  BY DEF CopyLarger
<1>6. ExportEnd(t) => mpc[t] = "export" /\ mpc'[t] = "generated"
  BY DEF ExportEnd
<1>7. Demote(t) => mpc[t] = "generated" /\ mpc'[t] = "drop"
  BY DEF Demote
<1>8. Drop(t) => mpc[t] = "drop" /\ mpc'[t] = "reget"
  BY DEF Drop
<1>9. Reget(t) => mpc[t] = "reget" /\ mpc'[t] = "regot"
  BY DEF Reget
<1>10. Regot(t) \/ KeepWrite(t) => mpc[t] \in {"regot", "generated"} /\ mpc'[t] = "use"
  BY DEF Regot, KeepWrite
<1>11. MRelease(t) \/ NothingFound(t) => mpc[t] \in {"use", "up"} /\ mpc'[t] = "free"
  BY DEF MRelease, NothingFound
<1>12. TestDown(t) \/ TestUp(t) \/ TurnUp(t) =>
         mpc[t] \in {"down", "up"} /\ mpc'[t] \in {"down", "up", "use"}
  BY DEF TestDown, TestUp, TurnUp, TestLock
<1>13. RemoveTest(t) \/ Invalidate(t) \/ RemoveEntry(t) =>
         /\ mpc[t] \in {"remove", "inval", "rm"}
         /\ mpc'[t] \in {"remove", "inval", "rm", "unlink"}
  BY DEF RemoveTest, Invalidate, RemoveEntry
<1>14. Unlink(t) \/ EvictNext(t) \/ LoopEnd(t) =>
         /\ mpc[t] \in {"unlink", "remove", "evict"}
         /\ mpc'[t] \in {"remove", "evict", "free"}
  BY DEF Unlink, EvictNext, LoopEnd
<1> QED
  BY <1>2, <1>3, <1>4, <1>5, <1>6, <1>7, <1>8, <1>9, <1>10, <1>11, <1>12, <1>13, <1>14

(* The entries a step can delete are live. *)
LEMMA LiveShrinks ==
  ASSUME IInv, NEW t \in Threads, ThreadNext(t)
  PROVE  live' \subseteq live \/ pc[t] = "alloc"
  BY DEF ThreadNext, CacheStep, GetFound, GetMiss, GcDone, GcSkip, GcDelete, Delete, Alloc,
         RemoveMiss, RemoveFound, CallGet, CallRemove, Call, TestGet, Release,
         SetDemoting, heapVars

(* Every step has one of these effects. *)
LEMMA Effects ==
  ASSUME SInv, NEW t \in Threads, Start(t) \/ Continue(t)
  PROVE  /\ Quiet \/ Fills(t) \/ Buries(t) \/ Allocates(t)
         /\ FileMissing(t) \/ CopyLarger(t) \/ ExportEnd(t) => Fills(t)
         /\ Regot(t) \/ KeepWrite(t) => Buries(t)
<1>a. IInv /\ MTypeOK /\ Hand(t) /\ Window(t) /\ MIInv
  BY DEF SInv, MIInv, HandInv, DemoteInv
<1>b. /\ gen \in [Entries -> BOOLEAN] /\ req[t].k \in Keys /\ snap[t] \in Versions
      /\ mpc \in [Threads -> MPCs] /\ held[t] \subseteq Entries
      /\ arg \in [Threads -> [k : Keys, m : Modes]] /\ table \in [Keys -> Entries \cup {NoEntry}]
      /\ wr \in [Entries -> Threads \cup {NoThread}] /\ pc \in [Threads -> PCs]
  BY <1>a DEF MTypeOK, IInv, TypeOK
<1> USE <1>a, <1>b DEF Goto, lockVars
<1>1. ASSUME UNCHANGED dscVars, pc[t] # "alloc" PROVE Quiet
  BY <1>1, StepIsCacheStep, LiveShrinks DEF Quiet, dscVars, vars, heapVars
<1>2. ASSUME NEW p, p # Junk, Fill(t, p), At(t) \in held[t], gen[At(t)], UNCHANGED vars, req' = req,
             mpc'[t] = "generated", mpc[t] \in {"block", "export"}
      PROVE  Fills(t)
  <2>1. wr[At(t)] = t /\ pc[t] = "idle"
    BY <1>2, HolderFills DEF SInv, Filling
  <2>2. Target(t) = At(t) /\ At(t)' = At(t)
    BY <1>2, TargetIsAt DEF At, vars
  <2> QED BY <1>2, <2>1, <2>2 DEF Fill, Fills, vars, heapVars
<1>3. ASSUME FileMissing(t) PROVE Fills(t)
  <2>1. At(t) \in held[t] /\ gen[At(t)]
    BY <1>3 DEF FileMissing, Got, Hand
  <2> QED BY <1>2, <1>3, <2>1, MipmapAssumption DEF FileMissing, Got
<1>4. ASSUME ExportEnd(t) PROVE Fills(t)
  <2>1. At(t) \in held[t] /\ gen[At(t)]
    BY <1>4 DEF ExportEnd, Hand, SInv, FillInv
  <2>2. PICK p : p # Junk /\ Fill(t, p)
    BY <1>4, MipmapAssumption DEF ExportEnd
  <2> QED BY <1>2, <1>4, <2>1, <2>2 DEF ExportEnd
<1>5. ASSUME CopyLarger(t) PROVE Fills(t)
  <2>1. /\ At(t) \in held[t] /\ ret[t] \in held[t] /\ ret[t] # At(t) /\ pc[t] = "idle"
        /\ gen[At(t)]
    BY <1>5 DEF CopyLarger, Hand, SInv, FillInv
  <2>2. wr[At(t)] = t /\ At(t) \in Entries /\ Target(t) = At(t)
    BY <2>1, HolderFills, TargetIsAt DEF SInv
  <2>3. pix[ret[t]] # Junk
    <3>1. ~gen[ret[t]] /\ ret[t] \in live
      BY <2>1, HolderFills DEF SInv, IInv, HeldAlive
    <3> QED BY <3>1 DEF SInv, JunkInv
  <2>4. /\ At(t)' = At(t) /\ live' = live /\ wr'[At(t)] = t /\ mpc'[t] = "generated"
    BY <1>5, <2>1, <2>2 DEF CopyLarger, Release, At, heapVars
  <2> QED BY <1>5, <2>1, <2>2, <2>3, <2>4 DEF CopyLarger, Fill, Fills
<1>6. ASSUME Regot(t) \/ KeepWrite(t) PROVE Buries(t)
  <2>1. At(t) \in held[t] /\ mpc[t] \in {"generated", "regot"}
    BY <1>6 DEF Regot, KeepWrite, Hand
  <2>2. Target(t) = At(t) /\ At(t) \in Entries
    BY <2>1, TargetIsAt
  <2>3. live' = live /\ At(t)' = At(t) /\ mpc'[t] = "use" /\ gen' = gen
    BY <1>6 DEF Regot, KeepWrite, SetDemoting, At, vars, heapVars
  <2> QED BY <1>6, <2>1, <2>2, <2>3 DEF Regot, KeepWrite, DeadImage, Buries
<1>7. ASSUME CacheWork(t) PROVE Quiet \/ Allocates(t)
  <2>1. CASE InAlloc(t)
    <3>1. PICK e \in Entries, c \in Costs : Alloc(t, e, c) /\ AllocateDynamic(e, arg[t].k)
      BY <2>1 DEF InAlloc
    <3>2. mpc[t] = "block" /\ mpc' = mpc /\ req' = req /\ arg[t].k = req[t].k /\ pc[t] = "alloc"
      <4>1. pc[t] = "alloc" /\ mpc' = mpc /\ req' = req
        BY <1>7, <3>1 DEF Alloc, CacheWork, cliVars
      <4>2. arg[t].k = req[t].k /\ mpc[t] \in {"block", "regot"}
        BY <4>1 DEF Hand
      <4>3. At(t) = NoEntry
        BY <4>1, <4>2 DEF At, IInv, MissStillMissing
      <4> QED BY <4>1, <4>2, <4>3 DEF Window
    <3>3. /\ e \notin live /\ live' = live \cup {e} /\ pc'[t] = "idle" /\ At(t)' = e
          /\ wr'[e] = t /\ demoting' = [demoting EXCEPT ![e] = FALSE]
      BY <3>1, <3>2, MipmapAssumption DEF Alloc, Lock, At
    <3>4. PICK x : /\ gen' = [gen EXCEPT ![e] = x.gen] /\ pix' = [pix EXCEPT ![e] = x.pix]
                   /\ x.pix # Zero /\ (~x.gen => x.pix # Junk)
      <4>1. PICK l \in BOOLEAN :
              /\ pix' = [pix EXCEPT ![e] = IF l THEN disk[arg[t].k] ELSE Junk]
              /\ gen' = [gen EXCEPT ![e] = ~l]
        BY <3>1 DEF AllocateDynamic
      <4>2. disk[arg[t].k] \notin {Junk, Zero} /\ Junk # Zero
        BY MipmapAssumption DEF SInv, DiskClean
      <4> DEFINE y == [gen |-> ~l, pix |-> IF l THEN disk[arg[t].k] ELSE Junk]
      <4>3. y.gen = ~l /\ y.pix = IF l THEN disk[arg[t].k] ELSE Junk
        OBVIOUS
      <4> HIDE DEF y
      <4>4. y.pix # Zero /\ (~y.gen => y.pix # Junk)
        BY <4>2, <4>3
      <4> QED BY <4>1, <4>3, <4>4
    <3> QED BY <3>2, <3>3, <3>4 DEF Allocates
  <2>2. CASE InCache(t) \/ InDelete(t)
    <3>1. UNCHANGED dscVars /\ pc[t] # "alloc"
      BY <2>2 DEF InCache, InDelete, GetFound, GetMiss, GcDone, GcSkip, GcDelete,
                  RemoveMiss, RemoveFound
    <3> QED BY <1>1, <3>1
  <2> QED BY <1>7, <2>1, <2>2 DEF CacheWork
<1>8. ASSUME Invalidate(t) PROVE Quiet
  BY <1>8, ReleaseHand DEF Invalidate, Quiet
<1>9. ASSUME Start(t) PROVE Quiet
  <2>1. UNCHANGED dscVars /\ pc[t] = "idle"
    BY <1>9 DEF Start, Blocking, BestEffort, Edit, Evict, CallGet, MayCall
  <2> QED BY <1>1, <2>1
<1>10. ASSUME \/ GotLoaded(t) \/ GotGenerate(t) \/ TryLarger(t) \/ ExportStart(t)
              \/ Demote(t) \/ Drop(t) \/ Reget(t) \/ MRelease(t)
              \/ TestDown(t) \/ TurnUp(t) \/ TestUp(t) \/ NothingFound(t)
       PROVE  Quiet
  <2>1. UNCHANGED dscVars
    BY <1>10 DEF GotLoaded, GotGenerate, TryLarger, ExportStart, Demote, Drop, Reget,
                 MRelease, TestDown, TurnUp, TestUp, TestLock, NothingFound
  <2>2. pc[t] # "alloc"
    <3>1. CASE GotLoaded(t) \/ GotGenerate(t) \/ Demote(t) \/ Drop(t) \/ Reget(t) \/ MRelease(t)
      BY <3>1 DEF GotLoaded, GotGenerate, Got, Demote, Drop, Reget, MRelease,
                  SetDemoting, Release, CallGet, MayCall
    <3>2. mpc[t] \in {"larger", "down", "up"} => pc[t] = "idle"
      BY DEF Hand
    <3> QED BY <1>10, <3>1, <3>2 DEF TryLarger, ExportStart, TestDown, TurnUp, TestUp, NothingFound
  <2> QED BY <1>1, <2>1, <2>2
<1>11. ASSUME RemoveTest(t) \/ RemoveEntry(t) \/ Unlink(t) \/ EvictNext(t) \/ LoopEnd(t)
       PROVE  Quiet
  <2>1. UNCHANGED dscVars
    BY <1>11 DEF RemoveTest, RemoveEntry, Unlink, EvictNext, LoopEnd
  <2>2. mpc[t] \in {"remove", "rm", "unlink", "evict"}
    BY <1>11 DEF RemoveTest, RemoveEntry, Unlink, EvictNext, LoopEnd
  <2>3. pc[t] # "alloc"
    BY <2>2 DEF Hand
  <2> QED BY <1>1, <2>1, <2>3
<1> QED
  BY <1>3, <1>4, <1>5, <1>6, <1>7, <1>8, <1>9, <1>10, <1>11 DEF Continue
-----------------------------------------------------------------------------
(* What a thread has in hand, or is demoting, stays the entry of its key.  *)
LEMMA AtKept ==
  ASSUME SInv, NEW t \in Threads, Start(t) \/ Continue(t), NEW u \in Threads, u # t,
         At(u) \in held[u] \/ mpc[u] \in {"reget", "regot"}
  PROVE  At(u)' = At(u) /\ At(u) \in live /\ At(u) \in Entries
<1>1. IInv /\ MTypeOK /\ MIInv /\ Window(u)
  BY DEF SInv, MIInv, DemoteInv
<1>2. At(u)' = At(u)
  BY <1>1, OthersKept DEF Window
<1>3. At(u) \in Entries => At(u) \in live
  BY <1>1, CacheAssumption DEF At, MTypeOK, IInv, IndexConsistent
<1>4. At(u) \in Entries
  BY <1>1 DEF At, Window, MTypeOK, IInv, TypeOK
<1> QED BY <1>2, <1>3, <1>4

(* While t fills its entry, nobody else has it in hand. *)
LEMMA FillsAlone ==
  ASSUME SInv, NEW t \in Threads, Fills(t), NEW u \in Threads, u # t
  PROVE  At(t) \notin held[u] /\ wr[At(t)] = t
<1>1. IInv /\ wr[At(t)] = t
  BY HolderFills DEF SInv, MIInv, Fills
<1> QED BY <1>1, WriterOnly

(* What t has claimed and does not fill yet, it goes on claiming. *)
LEMMA FillingStep ==
  ASSUME SInv, NEW t \in Threads, Start(t) \/ Continue(t), Filling(t), gen[At(t)], gen' = gen
  PROVE  Filling(t)' /\ At(t)' = At(t) /\ wr' = wr
<1>1. IInv /\ MTypeOK /\ Hand(t) /\ mpc \in [Threads -> MPCs] /\ gen \in [Entries -> BOOLEAN]
  BY DEF SInv, MIInv, MTypeOK, HandInv
<1>2. At(t) \in held[t] /\ (mpc[t] = "block" => ret[t] = At(t))
  BY <1>1 DEF Filling, Hand
<1>3. At(t) \in Entries
  BY <1>1, <1>2 DEF IInv, TypeOK
<1>4. ~Fills(t)
  BY <1>1, <1>3 DEF Fills
<1>5. ~GotLoaded(t)
  BY <1>2 DEF GotLoaded, Got
<1>6. GotGenerate(t) \/ TryLarger(t) \/ ExportStart(t)
  BY <1>1, <1>4, <1>5, Effects, Places DEF Filling, Continue
<1>7. CASE GotGenerate(t) \/ ExportStart(t)
  BY <1>1, <1>7 DEF GotGenerate, Got, ExportStart, Filling, Goto, At, vars, lockVars
<1>8. CASE TryLarger(t)
  BY <1>1, <1>8 DEF TryLarger, Filling, Goto, At, TestGet, Lock, lockVars
<1> QED BY <1>6, <1>7, <1>8

(* The claims of the threads that are generating stay. *)
LEMMA ClaimKept ==
  ASSUME SInv, NEW t \in Threads, Start(t) \/ Continue(t)
  PROVE  ClaimInv'
<1>1. IInv /\ MIInv /\ Hand(t) /\ gen \in [Entries -> BOOLEAN] /\ live \subseteq Entries
  BY DEF SInv, MIInv, IInv, TypeOK, MTypeOK, HandInv
<1>2. ASSUME NEW e \in live, gen[e], wr[e] # t
      PROVE  Claim(e)'
  <2>1. PICK u \in Threads : u = wr[e] /\ Filling(u) /\ At(u) = e
    BY <1>2 DEF SInv, ClaimInv, Claim
  <2>2. At(u) \in held[u] /\ e \in Entries
    BY SMTT(30), <1>1, <2>1 DEF IInv, LockOwners
  <2>3. wr'[e] = u /\ At(u)' = e /\ mpc'[u] = mpc[u] /\ pc'[u] = pc[u]
    BY SMT, <1>1, <1>2, <2>1, <2>2, OthersKept
  <2> QED BY <2>1, <2>3 DEF Claim, Filling, At
<1>3. ASSUME gen' = gen, NEW e \in live, gen[e], wr[e] = t
      PROVE  Claim(e)'
  <2>1. Filling(t) /\ At(t) = e
    BY <1>3 DEF SInv, ClaimInv, Claim
  <2>2. wr'[e] = t /\ Filling(t)' /\ At(t)' = e
    BY <1>3, <2>1, FillingStep
  <2> QED BY <2>2 DEF Claim, Filling, At
<1>4. CASE Quiet
  BY <1>2, <1>3, <1>4 DEF Quiet, ClaimInv
<1>5. CASE Buries(t)
  BY <1>2, <1>3, <1>5 DEF Buries, ClaimInv
<1>6. CASE Fills(t)
  <2> SUFFICES ASSUME NEW e \in live, gen'[e]
               PROVE  Claim(e)'
    BY <1>6 DEF Fills, ClaimInv
  <2>1. e # At(t) /\ gen[e]
    BY <1>1, <1>6 DEF Fills
  <2>2. wr[e] # t
    BY <2>1 DEF SInv, ClaimInv, Claim
  <2> QED BY <1>2, <2>1, <2>2
<1>7. CASE Allocates(t)
  <2>1. PICK x, y :
          /\ x \in Entries /\ x \notin live /\ live' = live \cup {x} /\ At(t)' = x /\ wr'[x] = t
          /\ gen' = [gen EXCEPT ![x] = y.gen]
    BY <1>7 DEF Allocates
  <2>2. Filling(t)' /\ pc[t] # "idle"
    BY <1>7 DEF Allocates, Filling
  <2> SUFFICES ASSUME NEW e \in live', gen'[e]
               PROVE  Claim(e)'
    BY DEF ClaimInv, Claim
  <2>3. CASE e = x
    BY <2>1, <2>2, <2>3 DEF Claim, Filling, At
  <2>4. CASE e # x
    <3>1. e \in live /\ gen[e]
      BY <1>1, <2>1, <2>4
    <3>2. wr[e] # t
      BY <2>2, <3>1 DEF SInv, ClaimInv, Claim, Filling
    <3> QED BY <1>2, <3>1, <3>2
  <2> QED BY <2>3, <2>4
<1> QED BY <1>4, <1>5, <1>6, <1>7, Effects

(* Who is about to fill an entry has one that is still to be filled. *)
LEMMA FillKept ==
  ASSUME SInv, NEW t \in Threads, Start(t) \/ Continue(t)
  PROVE  FillInv'
<1>1. IInv /\ MIInv /\ gen \in [Entries -> BOOLEAN] /\ MTypeOK /\ Hand(t)
  BY DEF SInv, MIInv, MTypeOK, HandInv
<1>2. ASSUME NEW u \in Threads, u # t, mpc'[u] \in {"larger", "copy", "export"}
      PROVE  gen'[At(u)']
  <2>1. mpc[u] \in {"larger", "copy", "export"} /\ gen[At(u)]
    BY <1>1, <1>2, OthersKept DEF SInv, FillInv
  <2>2. At(u) \in held[u]
    BY <2>1 DEF SInv, HandInv, Hand
  <2>3. At(u)' = At(u) /\ At(u) \in live /\ At(u) \in Entries
    BY <1>2, <2>2, AtKept
  <2>4. ASSUME Fills(t) PROVE At(u) # At(t)
    BY <1>2, <2>2, <2>4, FillsAlone
  <2>5. gen'[At(u)] = gen[At(u)]
    <3>1. CASE Fills(t)
      BY <1>1, <2>3, <2>4, <3>1 DEF Fills
    <3>2. CASE Allocates(t)
      BY <1>1, <2>3, <3>2 DEF Allocates
    <3> QED BY <3>1, <3>2, Effects DEF Quiet, Buries
  <2> QED BY <2>1, <2>3, <2>5
<1>3. ASSUME mpc'[t] \in {"larger", "copy", "export"}
      PROVE  gen'[At(t)']
  <2>1. CASE CacheWork(t)
    BY <1>1, <1>3, <2>1, Places DEF Hand
  <2>2. CASE GotGenerate(t) \/ TryLarger(t) \/ ExportStart(t)
    <3>1. Filling(t) /\ gen[At(t)] /\ gen' = gen
      <4>1. /\ Filling(t) /\ mpc[t] \in {"larger", "block"}
            /\ mpc[t] = "block" => gen[ret[t]]
        <5>1. CASE GotGenerate(t)
          BY <5>1 DEF GotGenerate, Got, Filling
        <5>2. CASE TryLarger(t) \/ ExportStart(t)
          <6>1. mpc[t] = "larger"
            BY <5>2 DEF TryLarger, ExportStart
          <6>2. pc[t] = "idle"
            BY <1>1, <6>1 DEF Hand
          <6> QED BY <6>1, <6>2 DEF Filling
        <5> QED BY <2>2, <5>1, <5>2
      <4>2. gen' = gen
        BY <2>2 DEF GotGenerate, TryLarger, ExportStart, dscVars
      <4>3. mpc[t] = "block" => ret[t] = At(t)
        BY <1>1, <4>1 DEF Hand, Filling
      <4> QED BY <4>1, <4>2, <4>3 DEF SInv, FillInv
    <3> QED BY <3>1, FillingStep
  <2>3. GotGenerate(t) \/ TryLarger(t) \/ ExportStart(t) \/ CacheWork(t)
    BY <1>1, <1>3, Places DEF Continue
  <2> QED BY <2>1, <2>2, <2>3
<1> QED BY <1>2, <1>3 DEF FillInv

(* What is not to be generated any more shows something. *)
LEMMA JunkKept ==
  ASSUME SInv, NEW t \in Threads, Start(t) \/ Continue(t)
  PROVE  JunkInv'
<1>1. /\ gen \in [Entries -> BOOLEAN] /\ live \subseteq Entries /\ JunkInv /\ DOMAIN pix = Entries
  BY DEF SInv, MIInv, IInv, TypeOK, MTypeOK
<1>2. CASE Quiet
  BY <1>1, <1>2 DEF Quiet, JunkInv
<1>3. CASE Fills(t)
  <2>1. PICK p : p # Junk /\ pix' = [pix EXCEPT ![At(t)] = p]
    BY <1>3 DEF Fills
  <2>2. ASSUME NEW e \in live, ~gen'[e] PROVE pix'[e] # Junk
    <3>1. CASE e = At(t)
      BY <1>1, <2>1, <3>1
    <3>2. CASE e # At(t)
      BY <1>1, <1>3, <2>1, <2>2, <3>2 DEF Fills, JunkInv
    <3> QED BY <3>1, <3>2
  <2> QED BY <1>3, <2>2 DEF Fills, JunkInv
<1>4. CASE Buries(t)
  <2>1. Skull # Junk
    BY MipmapAssumption
  <2>2. ASSUME NEW e \in live, ~gen[e] PROVE pix'[e] # Junk
    <3>1. pix[e] # Junk
      BY <1>1, <2>2 DEF JunkInv
    <3> QED BY <1>1, <1>4, <2>1, <3>1 DEF Buries
  <2> QED BY <1>4, <2>2 DEF Buries, JunkInv
<1>5. CASE Allocates(t)
  <2>1. PICK x, y :
          /\ x \in Entries /\ live' = live \cup {x} /\ gen' = [gen EXCEPT ![x] = y.gen]
          /\ pix' = [pix EXCEPT ![x] = y.pix] /\ (~y.gen => y.pix # Junk)
    BY <1>5 DEF Allocates
  <2>2. ASSUME NEW e \in live', ~gen'[e] PROVE pix'[e] # Junk
    <3>1. CASE e = x
      BY <1>1, <2>1, <2>2, <3>1
    <3>2. CASE e # x
      BY <1>1, <2>1, <2>2, <3>2 DEF JunkInv
    <3> QED BY <3>1, <3>2
  <2> QED BY <2>2 DEF JunkInv
<1> QED BY <1>2, <1>3, <1>4, <1>5, Effects

(* What a step leaves of a zero-sized result somebody else is mending. *)
LEMMA MendsKept ==
  ASSUME SInv, NEW t \in Threads, Start(t) \/ Continue(t), NEW u \in Threads, u # t,
         NEW e \in live, Mends(u, e)
  PROVE  Mends(u, e)'
<1>1. MIInv /\ IInv /\ Hand(u) /\ At(u) = e /\ e \in Entries
  BY DEF SInv, MIInv, HandInv, Mends, IInv, TypeOK
<1>2. At(u) \in held[u] \/ mpc[u] \in {"reget", "regot"}
  BY <1>1 DEF Mends, Hand
<1>3. At(u)' = e /\ mpc'[u] = mpc[u] /\ req'[u] = req[u] /\ (wr[e] = u => wr'[e] = u)
  BY <1>1, <1>2, AtKept, OthersKept
<1> QED BY <1>3 DEF Mends

(* A thread that is mending goes on, or puts the dead image there. *)
LEMMA MenderStep ==
  ASSUME SInv, NEW t \in Threads, Start(t) \/ Continue(t), NEW e \in live, Mends(t, e)
  PROVE  Mends(t, e)' \/ Buries(t)
<1>1. MIInv /\ IInv /\ MTypeOK /\ Hand(t) /\ Mode(t) /\ Window(t) /\ At(t) = e /\ e \in Entries
  BY DEF SInv, MIInv, HandInv, ModeInv, DemoteInv, Mends, IInv, TypeOK
<1>2. CASE Demote(t)
  <2>1. req[t].m = "r" /\ mpc'[t] = "drop" /\ req' = req /\ table' = table
    BY <1>1, <1>2, Places DEF Demote, SetDemoting
  <2>2. t \in Readers
    BY <1>1, <1>2, <2>1 DEF Mode, Demote
  <2> QED BY <1>1, <2>1, <2>2 DEF Mends, At
<1>3. CASE Drop(t) \/ Reget(t)
  <2>1. t \in Readers /\ req[t].m = "r"
    BY <1>1, <1>3, Places DEF Window
  <2>2. mpc'[t] \in {"reget", "regot"} /\ req' = req /\ table' = table
    BY <1>1, <1>3, Places DEF Drop, Release, Reget, CallGet, Call
  <2> QED BY <1>1, <2>1, <2>2 DEF Mends, At
<1>4. CASE CacheWork(t)
  <2>1. mpc' = mpc /\ req' = req /\ mpc[t] = "regot"
    BY <1>1, <1>4, Places DEF Mends, Hand
  <2>2. t \in Readers /\ req[t].m = "r" /\ demoting[At(t)] /\ At(t) # NoEntry
    BY <1>1, <2>1 DEF Window
  <2>3. req[t].k \in Keys /\ (ThreadNext(t) \/ table' = table)
    BY <1>1, StepIsCacheStep DEF MTypeOK, vars
  <2>4. table'[req[t].k] = e
    BY <1>1, <2>2, <2>3, TableKept DEF At
  <2> QED BY <1>1, <2>1, <2>2, <2>4 DEF Mends, At
<1>5. CASE Regot(t) \/ KeepWrite(t)
  BY <1>5, Effects
<1>6. Demote(t) \/ Drop(t) \/ Reget(t) \/ Regot(t) \/ KeepWrite(t) \/ CacheWork(t)
  <2>1. mpc[t] \in {"generated", "drop", "reget", "regot"}
    BY DEF Mends
  <2>2. ~(GotGenerate(t) \/ TryLarger(t) \/ ExportStart(t))
    BY <2>1 DEF GotGenerate, Got, TryLarger, ExportStart
  <2> QED BY <1>1, <2>1, <2>2, Places DEF Continue
<1> QED BY <1>2, <1>3, <1>4, <1>5, <1>6

(* Zero-sized results are being mended. *)
LEMMA ZeroKept ==
  ASSUME SInv, NEW t \in Threads, Start(t) \/ Continue(t)
  PROVE  ZeroInv'
<1>1. live \subseteq Entries /\ DOMAIN pix = Entries /\ Skull # Zero
  BY MipmapAssumption DEF SInv, MIInv, IInv, TypeOK, MTypeOK
<1>2. ASSUME NEW e \in live, pix[e] = Zero
      PROVE  (\E u \in Threads : Mends(u, e)') \/ (Buries(t) /\ At(t) = e)
  <2>1. PICK u \in Threads : Mends(u, e)
    BY <1>2 DEF SInv, ZeroInv
  <2>2. CASE u # t
    <3>1. Mends(u, e)'
      BY <2>1, <2>2, MendsKept
    <3> QED BY <3>1 DEF Mends, At
  <2>3. CASE u = t
    BY <2>1, <2>3, MenderStep DEF Mends
  <2> QED BY <2>2, <2>3
<1>3. CASE Quiet
  <2>1. ~Buries(t) \/ \A e \in live : pix[e] = Zero => At(t) # e
    BY <1>1, <1>3 DEF Quiet, Buries
  <2> QED BY <1>2, <1>3, <2>1 DEF Quiet, ZeroInv
<1>4. CASE Buries(t)
  <2>1. ASSUME NEW e \in live, pix'[e] = Zero
        PROVE  pix[e] = Zero /\ At(t) # e
    BY <1>1, <1>4, <2>1 DEF Buries
  <2> QED BY <1>2, <1>4, <2>1 DEF Buries, ZeroInv
<1>5. CASE Fills(t)
  <2>1. Mends(t, At(t))'
    BY <1>5 DEF Fills, Mends, At
  <2>2. ASSUME NEW e \in live, pix'[e] = Zero, e # At(t)
        PROVE  pix[e] = Zero
    BY <1>1, <1>5, <2>2 DEF Fills
  <2>3. ASSUME NEW e \in live, pix'[e] = Zero
        PROVE  \E u \in Threads : Mends(u, e)'
    <3>1. CASE e = At(t)
      BY <1>5, <2>1, <3>1 DEF Fills, Mends, At
    <3>2. CASE e # At(t)
      BY <1>2, <2>2, <2>3, <3>2
    <3> QED BY <3>1, <3>2
  <2> QED BY <1>5, <2>3 DEF Fills, ZeroInv
<1>6. CASE Allocates(t)
  <2>1. PICK x, y :
          /\ x \in Entries /\ live' = live \cup {x} /\ pix' = [pix EXCEPT ![x] = y.pix] /\ y.pix # Zero
    BY <1>6 DEF Allocates
  <2>2. ASSUME NEW e \in live', pix'[e] = Zero
        PROVE  e \in live /\ pix[e] = Zero
    BY <1>1, <2>1, <2>2
  <2>3. ~Buries(t)
    BY <1>6 DEF Allocates, Buries
  <2> QED BY <1>2, <2>2, <2>3 DEF ZeroInv
<1> QED BY <1>3, <1>4, <1>5, <1>6, Effects
-----------------------------------------------------------------------------
(* The steps that write the demoting flags. *)
LEMMA DemotingSteps ==
  ASSUME SInv, NEW t \in Threads, Start(t) \/ Continue(t)
  PROVE  Regot(t) \/ Demote(t) \/ Allocates(t) \/ demoting' = demoting
<1> USE DEF lockVars
<1>1. CASE UNCHANGED vars
  BY <1>1 DEF vars
<1>2. CASE Start(t)
  BY <1>2 DEF Start, Blocking, BestEffort, Edit, Evict, CallGet, Call, vars
<1>3. CASE CacheWork(t)
  <2>1. CASE InAlloc(t)
    <3>1. ~Quiet /\ ~Fills(t) /\ ~Buries(t)
      BY <2>1 DEF InAlloc, Alloc, Quiet, Fills, Buries, SInv, MIInv, IInv, TypeOK
    <3> QED BY <3>1, Effects
  <2>2. CASE InCache(t) \/ InDelete(t)
    BY <2>2 DEF InCache, InDelete, GetFound, GetMiss, GcDone, GcSkip, GcDelete,
                RemoveMiss, RemoveFound
  <2> QED BY <1>3, <2>1, <2>2 DEF CacheWork
<1>4. CASE CopyLarger(t) \/ Drop(t) \/ MRelease(t) \/ Invalidate(t)
  BY <1>4 DEF CopyLarger, Drop, MRelease, Invalidate, Release
<1>5. CASE TryLarger(t) \/ RemoveTest(t) \/ TestDown(t) \/ TestUp(t)
  BY <1>5 DEF TryLarger, RemoveTest, TestDown, TestUp, TestLock, TestGet
<1>6. CASE Reget(t) \/ RemoveEntry(t) \/ EvictNext(t)
  BY <1>6 DEF Reget, RemoveEntry, EvictNext, CallGet, CallRemove, Call
<1>7. CASE GotLoaded(t) \/ GotGenerate(t) \/ FileMissing(t) \/ ExportStart(t)
           \/ ExportEnd(t) \/ KeepWrite(t) \/ TurnUp(t) \/ NothingFound(t)
           \/ Unlink(t) \/ LoopEnd(t)
  BY <1>1, <1>7 DEF GotLoaded, GotGenerate, FileMissing, ExportStart, ExportEnd, KeepWrite,
              TurnUp, NothingFound, Unlink, LoopEnd
<1> QED BY <1>2, <1>3, <1>4, <1>5, <1>6, <1>7 DEF Continue

(* The windows of the demotions stay closed to gc and remove. *)
LEMMA DemoteKept ==
  ASSUME SInv, OneReader, NEW t \in Threads, Start(t) \/ Continue(t)
  PROVE  DemoteInv'
<1>1. /\ MIInv /\ IInv /\ MTypeOK /\ Hand(t) /\ Mode(t) /\ Window(t)
      /\ gen \in [Entries -> BOOLEAN] /\ demoting \in [Entries -> BOOLEAN]
      /\ mpc \in [Threads -> MPCs]
  BY DEF SInv, MIInv, HandInv, ModeInv, DemoteInv, IInv, TypeOK, MTypeOK
<1>2. ASSUME NEW e \in live, ~gen[e], e \in Entries PROVE ~gen'[e]
  <2>1. CASE Fills(t)
    BY <1>1, <1>2, <2>1 DEF Fills
  <2>2. CASE Allocates(t)
    BY <1>1, <1>2, <2>2 DEF Allocates
  <2> QED BY <1>2, <2>1, <2>2, Effects DEF Quiet, Buries
<1>3. ASSUME NEW e \in live, demoting[e], ~(Regot(t) /\ e = At(t)) PROVE demoting'[e]
  <2>1. e \in Entries
    BY <1>1 DEF IInv, TypeOK
  <2>2. CASE Regot(t)
    <3>1. Target(t) = At(t)
      BY <1>1, <2>2, TargetIsAt DEF Regot, Hand
    <3> QED BY <1>1, <1>3, <2>1, <2>2, <3>1 DEF Regot, SetDemoting
  <2>3. CASE Demote(t)
    BY <1>1, <1>3, <2>1, <2>3 DEF Demote, SetDemoting
  <2>4. CASE Allocates(t)
    BY <1>1, <1>3, <2>1, <2>4 DEF Allocates
  <2>5. Regot(t) \/ Demote(t) \/ Allocates(t) \/ demoting' = demoting
    BY <1>1, DemotingSteps
  <2> QED BY <1>3, <2>2, <2>3, <2>4, <2>5
<1>4. ASSUME NEW u \in Threads, u # t PROVE Window(u)'
  <2> SUFFICES ASSUME mpc'[u] \in {"drop", "reget", "regot"}
               PROVE  /\ u \in Readers /\ req'[u].m = "r"
                      /\ At(u)' # NoEntry /\ demoting'[At(u)'] /\ ~gen'[At(u)']
    BY DEF Window
  <2>1. mpc[u] \in {"drop", "reget", "regot"} /\ req'[u] = req[u] /\ Window(u) /\ Hand(u)
    BY <1>1, <1>4, OthersKept DEF SInv, DemoteInv, HandInv
  <2>2. At(u) \in held[u] \/ mpc[u] \in {"reget", "regot"}
    BY <2>1 DEF Hand
  <2>3. At(u)' = At(u) /\ At(u) \in live /\ At(u) \in Entries
    BY <1>4, <2>2, AtKept
  <2>4. u \in Readers /\ req[u].m = "r" /\ demoting[At(u)] /\ ~gen[At(u)] /\ At(u) # NoEntry
    BY <2>1 DEF Window
  <2>5. ~Regot(t)
    BY <1>1, <1>4, <2>4 DEF Regot, Window, OneReader
  <2> QED BY <1>2, <1>3, <2>1, <2>3, <2>4, <2>5
<1>5. Window(t)'
  <2> SUFFICES ASSUME mpc'[t] \in {"drop", "reget", "regot"}
               PROVE  /\ t \in Readers /\ req'[t].m = "r"
                      /\ At(t)' # NoEntry /\ demoting'[At(t)'] /\ ~gen'[At(t)']
    BY DEF Window
  <2>1. CASE Demote(t)
    <3>1. At(t) \in held[t] /\ mpc[t] = "generated" /\ req[t].m = "r"
      BY <1>1, <2>1 DEF Demote, Hand
    <3>2. t \in Readers
      BY <1>1, <3>1 DEF Mode
    <3>3. ~gen[At(t)]
      BY <1>1, <3>1, HolderFills DEF SInv, Filling
    <3>4. Target(t) = At(t) /\ At(t) \in live /\ At(t) \in Entries
      BY <1>1, <3>1, TargetIsAt
    <3>5. req' = req /\ At(t)' = At(t) /\ demoting'[At(t)] /\ gen' = gen
      BY <1>1, <2>1, <3>4 DEF Demote, SetDemoting, dscVars, At
    <3> QED BY <3>1, <3>2, <3>3, <3>4, <3>5, CacheAssumption
  <2>2. ASSUME mpc[t] \in {"drop", "reget", "regot"}, req' = req, At(t)' = At(t), ~Regot(t)
        PROVE  /\ t \in Readers /\ req'[t].m = "r"
               /\ At(t)' # NoEntry /\ demoting'[At(t)'] /\ ~gen'[At(t)']
    <3>1. t \in Readers /\ req[t].m = "r" /\ At(t) # NoEntry /\ demoting[At(t)] /\ ~gen[At(t)]
      BY <1>1, <2>2 DEF Window
    <3>2. At(t) \in live /\ At(t) \in Entries
      BY <1>1, <3>1 DEF At, MTypeOK, IInv, TypeOK, IndexConsistent
    <3> QED BY <1>2, <1>3, <2>2, <3>1, <3>2
  <2>3. CASE Drop(t) \/ Reget(t)
    <3>1. req' = req /\ At(t)' = At(t) /\ mpc[t] \in {"drop", "reget"}
      BY <2>3 DEF Drop, Release, Reget, CallGet, Call, At
    <3>2. ~Regot(t)
      BY <3>1 DEF Regot
    <3> QED BY <2>2, <3>1, <3>2
  <2>4. CASE CacheWork(t)
    <3>1. mpc[t] \in {"drop", "reget", "regot"} /\ req' = req /\ pc[t] # "idle"
      BY <1>1, <2>4, Places
    <3>2. req[t].k \in Keys /\ (ThreadNext(t) \/ table' = table) /\ At(t) # NoEntry /\ demoting[At(t)]
      BY <1>1, <3>1, StepIsCacheStep DEF MTypeOK, vars, Window
    <3>3. At(t)' = At(t)
      BY <1>1, <3>1, <3>2, TableKept DEF At
    <3>4. ~Regot(t)
      BY <3>1 DEF Regot
    <3> QED BY <2>2, <3>1, <3>3, <3>4
  <2>5. Demote(t) \/ Drop(t) \/ Reget(t) \/ CacheWork(t)
    <3>1. ~(GotGenerate(t) \/ TryLarger(t) \/ ExportStart(t))
      BY <1>1 DEF GotGenerate, TryLarger, ExportStart, Goto
    <3> QED BY <1>1, <3>1, Places DEF Continue
  <2> QED BY <2>1, <2>3, <2>4, <2>5
<1> QED BY <1>4, <1>5 DEF DemoteInv

(* A buffer in use keeps its size. *)
LEMMA UseKept ==
  ASSUME SInv, OneReader, NEW t \in Threads, Start(t) \/ Continue(t)
  PROVE  UseInv'
<1>1. /\ MIInv /\ IInv /\ MTypeOK /\ Hand(t) /\ DOMAIN pix = Entries /\ Skull # Zero
      /\ mpc \in [Threads -> MPCs] /\ req \in [Threads -> [k : Keys, m : Modes]]
      /\ cur[t] \in Int /\ LoopsInRange /\ req[t].k \in Keys
  BY MipmapAssumption DEF SInv, MIInv, HandInv, IInv, TypeOK, MTypeOK
<1>2. ASSUME NEW u \in Threads, u # t, mpc'[u] = "use"
      PROVE  pix'[At(u)'] # Zero
  <2>1. mpc[u] = "use" /\ pix[At(u)] # Zero /\ At(u) \in held[u]
    BY <1>1, <1>2, OthersKept DEF SInv, UseInv, HandInv, Hand
  <2>2. At(u)' = At(u) /\ At(u) \in live /\ At(u) \in Entries
    BY <1>2, <2>1, AtKept
  <2>3. pix'[At(u)] # Zero
    <3>1. CASE Fills(t)
      BY <1>1, <1>2, <2>1, <2>2, <3>1, FillsAlone DEF Fills
    <3>2. CASE Allocates(t)
      BY <1>1, <2>1, <2>2, <3>2 DEF Allocates
    <3>3. CASE Buries(t)
      BY <1>1, <2>1, <2>2, <3>3 DEF Buries
    <3> QED BY <2>1, <3>1, <3>2, <3>3, Effects DEF Quiet
  <2> QED BY <2>2, <2>3
<1>3. ASSUME mpc'[t] = "use" PROVE pix'[At(t)'] # Zero
  <2>1. CASE Regot(t) \/ KeepWrite(t)
    <3>1. Buries(t)
      BY <2>1, Effects
    <3> QED BY <1>1, <3>1 DEF Buries
  <2>2. CASE TestDown(t) \/ TestUp(t)
    <3>1. PICK d, miss : TestLock(t, d, miss)
      BY <2>2 DEF TestDown, TestUp
    <3>2. mpc[t] # "use"
      BY <2>2 DEF TestDown, TestUp
    <3>3. PICK k \in Keys : k = <<req[t].k[1], cur[t]>>
      BY <1>1, <2>2, KeyOfSize DEF TestDown, TestUp, LoopsInRange
    <3>4. pix[table[k]] # Zero /\ req'[t].k = k /\ table' = table /\ pix' = pix
      BY <1>1, <1>3, <3>1, <3>2, <3>3 DEF TestLock, TestGet, dscVars, Goto
    <3> QED BY <3>4 DEF At
  <2>3. CASE CacheWork(t)
    BY <1>1, <1>3, <2>3, Places DEF Hand
  <2>4. Regot(t) \/ KeepWrite(t) \/ TestDown(t) \/ TestUp(t) \/ CacheWork(t)
    <3>1. ~(GotGenerate(t) \/ TryLarger(t) \/ ExportStart(t) \/ TurnUp(t))
      BY <1>1, <1>3 DEF GotGenerate, TryLarger, ExportStart, TurnUp, Goto
    <3> QED BY <1>1, <1>3, <3>1, Places DEF Continue
  <2> QED BY <2>1, <2>2, <2>3, <2>4
<1> QED BY <1>2, <1>3 DEF UseInv

(* Only what was generated, and is no dead image, is written to disk. *)
LEMMA DiskKept ==
  ASSUME SInv, NEW t \in Threads, Start(t) \/ Continue(t)
  PROVE  DiskClean'
<1>1. /\ MIInv /\ IInv /\ DiskClean /\ DOMAIN disk = Keys /\ key \in [Entries -> Keys]
      /\ live \subseteq Entries /\ NoFile \notin {Junk, Zero, Skull}
  BY MipmapAssumption DEF SInv, MIInv, IInv, TypeOK, MTypeOK
<1>2. CASE UNCHANGED disk
  BY <1>1, <1>2 DEF DiskClean
<1>3. ASSUME NEW k, disk' = [disk EXCEPT ![k] = NoFile] PROVE DiskClean'
  BY <1>1, <1>3 DEF DiskClean
<1>4. ASSUME NEW e \in live, CanWrite(e), DeallocateDynamic(e) PROVE DiskClean'
  <2>1. pix[e] # Junk
    <3>1. ~gen[e]
      BY <1>4, CacheAssumption DEF CanWrite, SInv, ClaimInv, Claim
    <3> QED BY <3>1 DEF SInv, JunkInv
  <2>2. CASE /\ pix[e] \notin {Zero, Skull}
             /\ disk' = [disk EXCEPT ![key[e]] = IF @ = NoFile THEN pix[e] ELSE @]
    BY <1>1, <2>1, <2>2 DEF DiskClean
  <2> QED BY <1>2, <1>3, <1>4, <2>2 DEF DeallocateDynamic
<1>5. CASE CacheWork(t)
  <2>1. CASE InCache(t)
    BY <1>2, <2>1 DEF InCache
  <2>2. CASE InAlloc(t)
    BY <1>2, <1>3, <2>2 DEF InAlloc, AllocateDynamic
  <2>3. CASE GcDelete(t) /\ DeallocateDynamic(lru[gcpos])
    <3>1. lru[gcpos] \in live
      BY SMT, <1>1, <2>3 DEF GcDelete, IInv, TypeOK, IndexConsistent, Linked
    <3> QED BY <1>4, <2>3, <3>1 DEF GcDelete
  <2>4. CASE RemoveFound(t) /\ DeallocateDynamic(table[arg[t].k])
    <3>1. table[arg[t].k] \in live
      BY <1>1, <2>4 DEF RemoveFound, IInv, TypeOK, IndexConsistent
    <3> QED BY <1>4, <2>4, <3>1 DEF RemoveFound
  <2> QED BY <1>5, <2>1, <2>2, <2>3, <2>4 DEF CacheWork, InDelete
<1>6. CASE Unlink(t)
  BY <1>3, <1>6 DEF Unlink
<1>7. CASE Start(t)
  BY <1>2, <1>7 DEF Start, Blocking, BestEffort, Edit, Evict
<1>8. CASE GotLoaded(t) \/ GotGenerate(t) \/ FileMissing(t) \/ TryLarger(t)
           \/ CopyLarger(t) \/ ExportStart(t) \/ ExportEnd(t)
  BY <1>2, <1>8 DEF GotLoaded, GotGenerate, FileMissing, TryLarger, CopyLarger, ExportStart,
                    ExportEnd
<1>9. CASE Demote(t) \/ Drop(t) \/ Reget(t) \/ Regot(t) \/ KeepWrite(t) \/ MRelease(t)
  BY <1>2, <1>9 DEF Demote, Drop, Reget, Regot, KeepWrite, MRelease
<1>10. CASE TestDown(t) \/ TurnUp(t) \/ TestUp(t) \/ NothingFound(t)
  BY <1>2, <1>10 DEF TestDown, TurnUp, TestUp, TestLock, NothingFound
<1>11. CASE RemoveTest(t) \/ Invalidate(t) \/ RemoveEntry(t) \/ EvictNext(t) \/ LoopEnd(t)
  BY <1>2, <1>11 DEF RemoveTest, Invalidate, RemoveEntry, EvictNext, LoopEnd
<1> QED BY <1>5, <1>6, <1>7, <1>8, <1>9, <1>10, <1>11 DEF Continue
-----------------------------------------------------------------------------
(* It holds initially. *)
LEMMA InitSInv == MInit => SInv
<1> SUFFICES ASSUME MInit PROVE SInv
  OBVIOUS
<1>1. MIInv
  BY MInitIInv
<1>2. HandInv /\ ModeInv /\ FillInv /\ DemoteInv /\ UseInv
  BY DEF MInit, Init, HandInv, Hand, ModeInv, Mode, FillInv, DemoteInv, Window, UseInv
<1>3. ClaimInv /\ JunkInv /\ ZeroInv
  BY DEF MInit, Init, ClaimInv, JunkInv, ZeroInv
<1>4. DiskClean
  BY MipmapAssumption DEF MInit, DiskClean
<1> QED BY <1>1, <1>2, <1>3, <1>4 DEF SInv

(* Every step keeps it. *)
LEMMA NextSInv ==
  ASSUME OneReader
  PROVE  SInv /\ [MNext]_mvars => SInv'
<1> SUFFICES ASSUME SInv, [MNext]_mvars PROVE SInv'
  OBVIOUS
<1>1. MIInv /\ MIInv'
  BY MNextIInv DEF SInv
<1>2. CASE UNCHANGED mvars
  <2> USE <1>2 DEF mvars, vars, lockVars, heapVars, dscVars, cliVars, SInv
  <2>1. HandInv' /\ ModeInv'
    BY DEF HandInv, Hand, At, ModeInv, Mode
  <2>2. ClaimInv' /\ FillInv' /\ JunkInv'
    BY DEF ClaimInv, Claim, Filling, At, FillInv, JunkInv
  <2>3. ZeroInv'
    <3>1. \A u, e : Mends(u, e)' <=> Mends(u, e)
      BY DEF Mends, At
    <3> QED BY <3>1 DEF ZeroInv
  <2>4. DemoteInv' /\ UseInv' /\ DiskClean'
    BY DEF DemoteInv, Window, At, UseInv, DiskClean
  <2> QED BY <1>1, <2>1, <2>2, <2>3, <2>4
<1>3. ASSUME NEW t \in Threads, Start(t) \/ Continue(t) PROVE SInv'
  <2>1. HandInv'
    <3>1. ASSUME NEW u \in Threads PROVE Hand(u)'
      BY <1>1, <1>3, HandOfOthers, HandOfMover DEF SInv
    <3> QED BY <3>1 DEF HandInv
  <2>2. ModeInv' /\ ClaimInv' /\ FillInv' /\ JunkInv'
    BY <1>1, <1>3, ModeKept, ClaimKept, FillKept, JunkKept DEF SInv
  <2>3. ZeroInv' /\ DemoteInv' /\ UseInv' /\ DiskClean'
    BY <1>3, ZeroKept, DemoteKept, UseKept, DiskKept
  <2> QED BY <1>1, <2>1, <2>2, <2>3 DEF SInv
<1> QED BY <1>2, <1>3 DEF MNext

(* So it holds in every reachable state. *)
THEOREM SafetyInvariant ==
  ASSUME OneReader
  PROVE  MSpec => []SInv
  BY InitSInv, NextSInv, PTL DEF MSpec

(* DT_MIPMAP_BLOCKING only returns when the buffer is loaded: what a       *)
(* client uses has been generated or read from disk, and has a size.       *)
THEOREM BlockingReturnsLoaded ==
  ASSUME OneReader
  PROVE  MSpec => []LoadedWhenUsed
<1>1. SInv => LoadedWhenUsed
  <2> SUFFICES ASSUME SInv, NEW t \in Threads, mpc[t] = "use"
               PROVE  ~gen[Target(t)] /\ pix[Target(t)] \notin {Junk, Zero}
    BY DEF LoadedWhenUsed
  <2>1. IInv /\ MTypeOK /\ At(t) \in held[t]
    BY DEF SInv, MIInv, HandInv, Hand
  <2>2. Target(t) = At(t) /\ At(t) \in live
    BY <2>1, TargetIsAt
  <2>3. ~gen[At(t)]
    BY <2>1, HolderFills DEF SInv, Filling
  <2> QED BY <2>2, <2>3 DEF SInv, JunkInv, UseInv
<1> QED BY <1>1, SafetyInvariant, PTL

(* The jpg backing never holds an unfilled buffer or a dead image. *)
THEOREM DiskStaysClean ==
  ASSUME OneReader
  PROVE  MSpec => []DiskClean
<1>1. SInv => DiskClean
  BY DEF SInv
<1> QED BY <1>1, SafetyInvariant, PTL

(* An operation that is over has left no entry lock behind. *)
THEOREM LocksGivenBack ==
  ASSUME OneReader
  PROVE  MSpec => []NothingLeaked
<1>1. SInv => NothingLeaked
  BY DEF SInv, HandInv, Hand, NothingLeaked
<1> QED BY <1>1, SafetyInvariant, PTL

(* Between the release and the second get of a demotion the entry stays in *)
(* the cache.                                                              *)
THEOREM DemotionSafe ==
  ASSUME OneReader
  PROVE  MSpec => []DemotionKeepsEntry
<1>1. SInv => DemotionKeepsEntry
  BY DEF SInv, DemoteInv, Window, At, DemotionKeepsEntry
<1> QED BY <1>1, SafetyInvariant, PTL
=============================================================================
