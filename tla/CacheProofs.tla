---------------------------- MODULE CacheProofs -----------------------------
(***************************************************************************)
(* Safety of the LRU cache for any number of threads, keys and entries,    *)
(* any quota and any costs: the inductive invariant IInv, and from it the  *)
(* properties that the run of MCCache checks on a small instance.          *)
(*                                                                         *)
(* The accounting of cache->cost: the lru list carries running totals that *)
(* end in cache->cost, and every operation turns them into running totals  *)
(* of the new list.                                                        *)
(*                                                                         *)
(* The quota: what the collector cannot delete is pinned, and only so much *)
(* can be pinned.                                                          *)
(*                                                                         *)
(* The cache implements KeyedLocks, one read/write lock per key: every     *)
(* operation that locks, releases, inserts or deletes an entry maps to the *)
(* abstract step on the key of that entry, and every other step to none.   *)
(***************************************************************************)
EXTENDS Cache, FiniteSetTheorems, WellFoundedInduction, TLAPS

(* The leaves are for Zenon; those that need more name the SMT solver. *)
USE ZenonT(60)

-----------------------------------------------------------------------------
(* What the list, the lock and the deletion operators of the cache         *)
(* preserve, and that dt_cache_init establishes the invariant.             *)

(* Unlinking the i-th element of a list shifts the later ones down. *)
LEMMA DeleteLinkElements ==
  ASSUME NEW S, NEW s \in Seq(S), NEW i \in 1 .. Len(s)
  PROVE  /\ DeleteLink(s, i) \in Seq(S)
         /\ Len(DeleteLink(s, i)) = Len(s) - 1
         /\ \A j \in 1 .. Len(s) - 1 :
              DeleteLink(s, i)[j] = IF j < i THEN s[j] ELSE s[j + 1]
<1>1. Len(s) \in Nat /\ i \in Nat /\ i >= 1 /\ i <= Len(s)
  BY SMTT(60)
<1>2. PICK a : a = SubSeq(s, 1, i - 1)
  OBVIOUS
<1>3. PICK b : b = SubSeq(s, i + 1, Len(s))
  OBVIOUS
<1>4. a \in Seq(S) /\ Len(a) = i - 1 /\ \A j \in 1 .. i - 1 : a[j] = s[j]
  BY SMTT(60), <1>1, <1>2
<1>5. b \in Seq(S) /\ Len(b) = Len(s) - i
      /\ \A j \in 1 .. Len(s) - i : b[j] = s[i + j]
  BY SMTT(60), <1>1, <1>3
<1>6. a \o b \in Seq(S) /\ Len(a \o b) = Len(s) - 1
  BY SMTT(60), <1>1, <1>4, <1>5
<1>7. ASSUME NEW j \in 1 .. Len(s) - 1
      PROVE  (a \o b)[j] = IF j < i THEN s[j] ELSE s[j + 1]
  BY SMTT(60), <1>1, <1>4, <1>5
<1> QED
  BY <1>2, <1>3, <1>6, <1>7 DEF DeleteLink

(* Unlinking takes exactly that element out of a list without repetitions. *)
LEMMA DeleteLinkSet ==
  ASSUME NEW S, NEW s \in Seq(S), IsInjective(s), NEW i \in 1 .. Len(s)
  PROVE  /\ DeleteLink(s, i) \in Seq(S)
         /\ IsInjective(DeleteLink(s, i))
         /\ Linked(DeleteLink(s, i)) = Linked(s) \ {s[i]}
<1>1. PICK r \in Seq(S) :
        /\ r = DeleteLink(s, i) /\ Len(r) = Len(s) - 1
        /\ \A j \in 1 .. Len(s) - 1 : r[j] = IF j < i THEN s[j] ELSE s[j + 1]
  BY DeleteLinkElements
<1>2. Len(s) \in Nat /\ i \in Nat /\ 1 <= i /\ i <= Len(s)
      /\ DOMAIN s = 1 .. Len(s) /\ DOMAIN r = 1 .. Len(s) - 1
  BY SMTT(60), <1>1
<1>3. \A a, b \in 1 .. Len(s) : s[a] = s[b] => a = b
  BY <1>2 DEF IsInjective
<1>4. ASSUME NEW a \in 1 .. Len(s) - 1, NEW b \in 1 .. Len(s) - 1, r[a] = r[b]
      PROVE  a = b
  BY SMTT(60), <1>1, <1>2, <1>3, <1>4
<1>5. ASSUME NEW j \in 1 .. Len(s) - 1
      PROVE  r[j] \in Linked(s) /\ r[j] # s[i]
  BY SMTT(60), <1>1, <1>2, <1>3 DEF Linked
<1>6. ASSUME NEW j \in 1 .. Len(s), s[j] # s[i]
      PROVE  \E k \in 1 .. Len(s) - 1 : r[k] = s[j]
  <2>1. CASE j < i
    <3>1. j \in 1 .. Len(s) - 1 /\ r[j] = s[j]
      BY SMTT(60), <1>1, <1>2, <2>1
    <3> QED BY <3>1
  <2>2. CASE j > i
    <3>1. j - 1 \in 1 .. Len(s) - 1 /\ r[j - 1] = s[j]
      BY SMTT(60), <1>1, <1>2, <2>2
    <3> QED BY <3>1
  <2> QED BY SMTT(60), <1>2, <1>6, <2>1, <2>2
<1>7. IsInjective(r)
  BY <1>2, <1>4 DEF IsInjective
<1>8. Linked(r) = Linked(s) \ {s[i]}
  <2>1. ASSUME NEW x \in Linked(r) PROVE x \in Linked(s) \ {s[i]}
    BY <1>2, <1>5 DEF Linked
  <2>2. ASSUME NEW x \in Linked(s) \ {s[i]} PROVE x \in Linked(r)
    BY <1>2, <1>6 DEF Linked
  <2> QED BY <2>1, <2>2
<1> QED
  BY <1>1, <1>7, <1>8

(* Linking a new element at the end of a list. *)
LEMMA AppendSet ==
  ASSUME NEW S, NEW s \in Seq(S), IsInjective(s), NEW e \in S, e \notin Linked(s)
  PROVE  /\ Append(s, e) \in Seq(S)
         /\ IsInjective(Append(s, e))
         /\ Linked(Append(s, e)) = Linked(s) \cup {e}
<1>0. PICK r : r = Append(s, e)
  OBVIOUS
<1>1. /\ r \in Seq(S) /\ r = Append(s, e)
      /\ Len(r) = Len(s) + 1 /\ r[Len(s) + 1] = e
      /\ \A j \in 1 .. Len(s) : r[j] = s[j]
  BY SMTT(60), <1>0
<1>2. Len(s) \in Nat /\ DOMAIN s = 1 .. Len(s) /\ DOMAIN r = 1 .. Len(s) + 1
  BY SMTT(60), <1>1
<1>3. \A j \in 1 .. Len(s) : s[j] # e
  BY <1>2 DEF Linked
<1>4. IsInjective(r)
  BY SMTT(60), <1>1, <1>2, <1>3 DEF IsInjective
<1>5. Linked(r) = Linked(s) \cup {e}
  BY SMTT(60), <1>1, <1>2 DEF Linked
<1> QED
  BY <1>1, <1>4, <1>5
-----------------------------------------------------------------------------
(* A cached entry is found on the list. *)
LEMMA PositionFound ==
  ASSUME TypeOK, IndexConsistent, NEW e \in live
  PROVE  Position(e) \in 1 .. Len(lru) /\ lru[Position(e)] = e
<1>1. \E i \in 1 .. Len(lru) : lru[i] = e
  BY SMTT(60) DEF IndexConsistent, Linked, TypeOK
<1> QED
  BY <1>1 DEF Position

(* Bubbling up permutes the list: no entry is lost or linked twice. *)
LEMMA BubbleUpSet ==
  ASSUME TypeOK, IndexConsistent, NEW e \in live, BubbleUp(e)
  PROVE  lru' \in Seq(Entries) /\ Linked(lru') = Linked(lru) /\ IsInjective(lru')
<1>2. Position(e) \in 1 .. Len(lru) /\ lru[Position(e)] = e
  BY PositionFound
<1>3. PICK r : r = DeleteLink(lru, Position(e))
  OBVIOUS
<1>4. r \in Seq(Entries) /\ IsInjective(r) /\ Linked(r) = Linked(lru) \ {e}
  BY SMTT(60), <1>2, <1>3, DeleteLinkSet DEF TypeOK, IndexConsistent
<1>5. e \in Entries /\ e \notin Linked(r) /\ e \in Linked(lru)
  BY <1>4 DEF TypeOK, IndexConsistent
<1>6. lru' = Append(r, e)
  BY <1>3 DEF BubbleUp
<1>7. lru' \in Seq(Entries) /\ IsInjective(lru') /\ Linked(lru') = Linked(r) \cup {e}
  BY SMTT(60), <1>4, <1>5, <1>6, AppendSet
<1> QED
  BY <1>4, <1>5, <1>7

(* Deleting an unlocked entry keeps the index consistent, and nobody has   *)
(* the deleted entry in hand.                                              *)
LEMMA DeleteSafe ==
  ASSUME IInv, NEW i \in 1 .. Len(lru), CanWrite(lru[i]), Delete(i),
         UNCHANGED <<key, ecost, lockVars>>
  PROVE  /\ IndexConsistent' /\ HeldAlive'
         /\ table' \in [Keys -> Entries \cup {NoEntry}]
         /\ lru' \in Seq(Entries) /\ cost' \in Int /\ live' \in SUBSET Entries
<1> DEFINE e == lru[i]
<1>1. e \in Entries /\ e \in live /\ key[e] \in Keys
  BY SMTT(60) DEF IInv, TypeOK, IndexConsistent, Linked
<1>2. lru' \in Seq(Entries) /\ IsInjective(lru') /\ Linked(lru') = Linked(lru) \ {e}
  BY SMTT(60), DeleteLinkSet DEF IInv, TypeOK, IndexConsistent, Delete
<1>3. live' = live \ {e} /\ table' = [table EXCEPT ![key[e]] = NoEntry]
      /\ key' = key /\ wr' = wr /\ rd' = rd /\ held' = held
  BY DEF Delete, lockVars
<1>4. ASSUME NEW t \in Threads PROVE e \notin held[t]
  BY <1>1, CacheAssumption DEF IInv, HeldAlive, CanWrite
<1>5. HeldAlive'
  BY <1>3, <1>4 DEF IInv, HeldAlive
<1>6. table' \in [Keys -> Entries \cup {NoEntry}]
  BY <1>1, <1>3 DEF IInv, TypeOK
<1>7. IndexConsistent'
  <2>1. \A x \in live' : table'[key'[x]] = x
    BY SMTT(60), <1>1, <1>3 DEF IInv, TypeOK, IndexConsistent
  <2>2. \A k \in Keys :
          table'[k] # NoEntry => table'[k] \in live' /\ key'[table'[k]] = k
    BY SMTT(60), <1>1, <1>3 DEF IInv, TypeOK, IndexConsistent
  <2> QED
    BY <1>2, <1>3, <2>1, <2>2 DEF IInv, IndexConsistent
<1>8. cost' \in Int
  BY SMTT(60), <1>1 DEF Delete, IInv, TypeOK
<1> QED
  BY <1>2, <1>3, <1>5, <1>6, <1>7, <1>8 DEF IInv, TypeOK

(* dt_cache_init establishes the invariant. *)
LEMMA InitIInv == Init => IInv
<1> SUFFICES ASSUME Init PROVE IInv
  OBVIOUS
<1>1. TypeOK
  BY SMTT(60), CacheAssumption DEF Init, TypeOK, PCs, Modes
<1>2. Linked(lru) = {} /\ IsInjective(lru)
  BY SMTT(60) DEF Init, Linked, IsInjective
<1> QED
  BY <1>1, <1>2, CacheAssumption
  DEF Init, IInv, MutexInv, HeldAlive, LockOwners, IndexConsistent,
      MissStillMissing

(* A get that finds its entry, and a testget that does, lock it and bubble *)
(* it up.                                                                  *)
LEMMA LockSafe ==
  ASSUME IInv, NEW t \in Threads, NEW e \in live, NEW m \in Modes,
         CanLock(e, m), Lock(t, e, m), BubbleUp(e),
         UNCHANGED <<table, live, key>>
  PROVE  /\ IndexConsistent' /\ HeldAlive' /\ LockOwners'
         /\ lru' \in Seq(Entries) /\ ret' \in [Threads -> Entries \cup {NoEntry}]
         /\ wr' \in [Entries -> Threads \cup {NoThread}]
         /\ rd' \in [Entries -> SUBSET Threads]
         /\ held' \in [Threads -> SUBSET Entries]
<1>1. e \in Entries
  BY DEF IInv, TypeOK
<1>2. lru' \in Seq(Entries) /\ Linked(lru') = Linked(lru) /\ IsInjective(lru')
  BY BubbleUpSet DEF IInv
<1>3. IndexConsistent'
  BY <1>2 DEF IInv, IndexConsistent
<1>4. HeldAlive'
  BY SMTT(60), <1>1, CacheAssumption
  DEF IInv, TypeOK, HeldAlive, Lock, CanLock, CanRead, CanWrite
<1>5. LockOwners'
  BY <1>1, CacheAssumption
  DEF IInv, TypeOK, LockOwners, Lock, CanLock, CanRead, CanWrite
<1> QED
  BY <1>1, <1>2, <1>3, <1>4, <1>5 DEF IInv, TypeOK, Lock
-----------------------------------------------------------------------------
(* Every step keeps the invariant. *)
LEMMA NextIInv == IInv /\ [Next]_vars => IInv'
<1> SUFFICES ASSUME IInv, [Next]_vars PROVE IInv'
  OBVIOUS
<1> USE DEF heapVars, lockVars
<1>1. CASE UNCHANGED vars
  BY <1>1 DEF vars, IInv, TypeOK, MutexInv, HeldAlive, LockOwners,
              IndexConsistent, MissStillMissing
<1>2. ASSUME NEW t \in Threads, NEW k \in Keys, NEW m \in Modes,
             NEW p \in {"get", "remove"}, MayCall(t, k), Call(t, p, k, m)
      PROVE  IInv'
  <2>1. TypeOK'
    BY <1>2 DEF IInv, TypeOK, Call, PCs, Modes
  <2>2. MutexInv' /\ MissStillMissing'
    BY <1>2 DEF IInv, TypeOK, MutexInv, MissStillMissing, Call, MayCall
  <2>3. HeldAlive' /\ LockOwners' /\ IndexConsistent'
    BY <1>2 DEF IInv, HeldAlive, LockOwners, IndexConsistent, Call
  <2> QED BY <2>1, <2>2, <2>3 DEF IInv
<1>3. ASSUME NEW t \in Threads, GetFound(t)
      PROVE  IInv'
  <2> DEFINE e == table[arg[t].k]
  <2>1. arg[t].k \in Keys /\ arg[t].m \in Modes /\ e \in live
    BY <1>3 DEF GetFound, IInv, TypeOK, IndexConsistent
  <2>2. /\ IndexConsistent' /\ HeldAlive' /\ LockOwners'
        /\ lru' \in Seq(Entries) /\ ret' \in [Threads -> Entries \cup {NoEntry}]
        /\ wr' \in [Entries -> Threads \cup {NoThread}]
        /\ rd' \in [Entries -> SUBSET Threads]
        /\ held' \in [Threads -> SUBSET Entries]
    BY <1>3, <2>1, LockSafe DEF GetFound
  <2>3. TypeOK'
    BY <1>3, <2>2 DEF GetFound, IInv, TypeOK, PCs
  <2>4. MutexInv' /\ MissStillMissing'
    BY <1>3 DEF GetFound, IInv, TypeOK, MutexInv, MissStillMissing
  <2> QED BY <2>2, <2>3, <2>4 DEF IInv
<1>4. ASSUME NEW t \in Threads, GetMiss(t)
      PROVE  IInv'
  <2>1. TypeOK'
    BY SMTT(60), <1>4 DEF GetMiss, IInv, TypeOK, PCs
  <2>2. MutexInv'
    BY <1>4, CacheAssumption DEF GetMiss, IInv, TypeOK, MutexInv
  <2>3. MissStillMissing'
    BY <1>4 DEF GetMiss, IInv, TypeOK, MissStillMissing
  <2>4. HeldAlive' /\ LockOwners' /\ IndexConsistent'
    BY <1>4 DEF GetMiss, IInv, HeldAlive, LockOwners, IndexConsistent
  <2> QED BY <2>1, <2>2, <2>3, <2>4 DEF IInv
<1>5. ASSUME NEW t \in Threads, GcDone(t) \/ GcSkip(t)
      PROVE  IInv'
  <2>0. gcpos' \in Nat \ {0}
    BY SMTT(60), <1>5 DEF GcDone, GcSkip, IInv, TypeOK
  <2>1. TypeOK'
    <3>1. CASE GcDone(t)
      BY <2>0, <3>1 DEF GcDone, IInv, TypeOK, PCs
    <3>2. CASE GcSkip(t)
      BY <2>0, <3>2 DEF GcSkip, IInv, TypeOK
    <3> QED BY <1>5, <3>1, <3>2
  <2>2. MutexInv'
    BY SMTT(60), <1>5 DEF GcDone, GcSkip, IInv, TypeOK, MutexInv
  <2>4. MissStillMissing'
    BY <1>5 DEF GcDone, GcSkip, IInv, TypeOK, MissStillMissing
  <2>3. HeldAlive' /\ LockOwners' /\ IndexConsistent'
    BY SMTT(60), <1>5 DEF GcDone, GcSkip, IInv, HeldAlive, LockOwners, IndexConsistent
  <2> QED BY <2>1, <2>2, <2>3, <2>4 DEF IInv
<1>6. ASSUME NEW t \in Threads, GcDelete(t)
      PROVE  IInv'
  <2>1. gcpos \in 1 .. Len(lru) /\ CanWrite(lru[gcpos]) /\ Delete(gcpos)
    BY SMTT(60), <1>6 DEF GcDelete, IInv, TypeOK
  <2>2. /\ IndexConsistent' /\ HeldAlive'
        /\ table' \in [Keys -> Entries \cup {NoEntry}]
        /\ lru' \in Seq(Entries) /\ cost' \in Int /\ live' \in SUBSET Entries
    BY <1>6, <2>1, DeleteSafe DEF GcDelete
  <2>3. TypeOK'
    BY <1>6, <2>2 DEF GcDelete, IInv, TypeOK
  <2>4. MissStillMissing'
    BY <1>6, <2>1 DEF GcDelete, Delete, IInv, TypeOK, MissStillMissing
  <2>5. MutexInv' /\ LockOwners'
    BY <1>6 DEF GcDelete, IInv, MutexInv, LockOwners
  <2> QED BY <2>2, <2>3, <2>4, <2>5 DEF IInv
<1>7. ASSUME NEW t \in Threads, NEW e \in Entries, NEW c \in Costs, Alloc(t, e, c)
      PROVE  IInv'
  <2> DEFINE k == arg[t].k
             m == IF HasAllocate THEN "w" ELSE arg[t].m
  <2>1. /\ k \in Keys /\ m \in Modes /\ table[k] = NoEntry /\ mutex = t
        /\ e \notin live /\ wr[e] = NoThread /\ rd[e] = {}
    BY SMTT(60), <1>7, CacheAssumption
    DEF Alloc, IInv, TypeOK, MissStillMissing, MutexInv, LockOwners, HeldAlive, Modes
  <2>2. lru' \in Seq(Entries) /\ IsInjective(lru') /\ Linked(lru') = Linked(lru) \cup {e}
    BY SMTT(60), <1>7, <2>1, AppendSet DEF Alloc, IInv, TypeOK, IndexConsistent
  <2>3. Lock(t, e, m) /\ live' = live \cup {e}
    BY <1>7 DEF Alloc
  <2>4. HeldAlive'
    BY SMTT(60), <2>1, <2>3, CacheAssumption DEF Lock, IInv, TypeOK, HeldAlive
  <2>5. LockOwners'
    BY SMTT(60), <2>1, <2>3, CacheAssumption DEF Lock, IInv, TypeOK, LockOwners
  <2>6. IndexConsistent'
    <3>1. ASSUME NEW x \in live' PROVE table'[key'[x]] = x
      <4>1. CASE x = e
        BY <1>7, <2>1, <4>1 DEF Alloc, IInv, TypeOK
      <4>2. CASE x # e
        <5>1. x \in live /\ x \in Entries /\ key[x] # k /\ table[key[x]] = x
          BY SMTT(60), <2>1, <2>3, <4>2, CacheAssumption DEF IInv, TypeOK, IndexConsistent
        <5> QED
          BY <1>7, <2>1, <4>2, <5>1 DEF Alloc, IInv, TypeOK
      <4> QED BY <4>1, <4>2
    <3>2. \A kk \in Keys :
            table'[kk] # NoEntry => table'[kk] \in live' /\ key'[table'[kk]] = kk
      BY SMTT(60), <1>7, <2>1, CacheAssumption DEF Alloc, IInv, TypeOK, IndexConsistent
    <3> QED
      BY <2>2, <2>3, <3>1, <3>2 DEF IInv, IndexConsistent
  <2>7. MutexInv' /\ MissStillMissing'
    BY <1>7, <2>1, CacheAssumption
    DEF Alloc, IInv, TypeOK, MutexInv, MissStillMissing
  <2>8. ecost' \in [Entries -> Nat] /\ cost' \in Int
    BY SMTT(60), <1>7, CacheAssumption DEF Alloc, IInv, TypeOK
  <2>9. TypeOK'
    BY SMTT(60), <1>7, <2>1, <2>2, <2>8 DEF Alloc, Lock, IInv, TypeOK, PCs
  <2> QED BY <2>4, <2>5, <2>6, <2>7, <2>9 DEF IInv
<1>8. ASSUME NEW t \in Threads, NEW k \in Keys, NEW m \in Modes, TestGet(t, k, m)
      PROVE  IInv'
  <2> DEFINE e == table[k]
  <2>1. /\ IndexConsistent' /\ HeldAlive' /\ LockOwners'
        /\ lru' \in Seq(Entries) /\ ret' \in [Threads -> Entries \cup {NoEntry}]
        /\ wr' \in [Entries -> Threads \cup {NoThread}]
        /\ rd' \in [Entries -> SUBSET Threads]
        /\ held' \in [Threads -> SUBSET Entries]
    <3>1. CASE e # NoEntry /\ CanLock(e, m)
      <4>1. e \in live
        BY <3>1 DEF IInv, TypeOK, IndexConsistent
      <4> QED
        BY <1>8, <3>1, <4>1, LockSafe DEF TestGet
    <3>2. CASE ~(e # NoEntry /\ CanLock(e, m))
      <4>1. /\ ret' = [ret EXCEPT ![t] = NoEntry]
            /\ UNCHANGED <<wr, rd, held, lru, table, live, key>>
        BY <1>8, <3>2 DEF TestGet
      <4>2. IndexConsistent' /\ HeldAlive' /\ LockOwners'
        BY <4>1 DEF IInv, IndexConsistent, HeldAlive, LockOwners
      <4> QED
        BY <4>1, <4>2 DEF IInv, TypeOK
    <3> QED BY <3>1, <3>2
  <2>2. TypeOK'
    BY <1>8, <2>1 DEF TestGet, IInv, TypeOK
  <2>3. MutexInv' /\ MissStillMissing'
    BY <1>8 DEF TestGet, MayCall, IInv, TypeOK, MutexInv, MissStillMissing
  <2> QED BY <2>1, <2>2, <2>3 DEF IInv
<1>9. ASSUME NEW t \in Threads, RemoveMiss(t)
      PROVE  IInv'
  <2>1. TypeOK' /\ MutexInv' /\ MissStillMissing'
    BY <1>9 DEF RemoveMiss, IInv, TypeOK, MutexInv, MissStillMissing, PCs
  <2>2. HeldAlive' /\ LockOwners' /\ IndexConsistent'
    BY <1>9 DEF RemoveMiss, IInv, HeldAlive, LockOwners, IndexConsistent
  <2> QED BY <2>1, <2>2 DEF IInv
<1>10. ASSUME NEW t \in Threads, RemoveFound(t)
       PROVE  IInv'
  <2> DEFINE e == table[arg[t].k]
             i == Position(e)
  <2>1. e \in live
    BY <1>10 DEF RemoveFound, IInv, TypeOK, IndexConsistent
  <2>2. i \in 1 .. Len(lru) /\ lru[i] = e
    BY <2>1, PositionFound DEF IInv
  <2>3. CanWrite(lru[i]) /\ Delete(i)
    BY <1>10, <2>2 DEF RemoveFound
  <2>4. /\ IndexConsistent' /\ HeldAlive'
        /\ table' \in [Keys -> Entries \cup {NoEntry}]
        /\ lru' \in Seq(Entries) /\ cost' \in Int /\ live' \in SUBSET Entries
    BY <1>10, <2>2, <2>3, DeleteSafe DEF RemoveFound
  <2>5. TypeOK'
    BY <1>10, <2>4 DEF RemoveFound, IInv, TypeOK, PCs
  <2>6. MutexInv' /\ LockOwners'
    BY <1>10 DEF RemoveFound, IInv, TypeOK, MutexInv, LockOwners
  <2>7. MissStillMissing'
    <3>1. \A u \in Threads : pc[u] \notin {"gc", "alloc"}
      BY <1>10, CacheAssumption DEF RemoveFound, IInv, MutexInv
    <3>2. \A u \in Threads : pc'[u] \notin {"gc", "alloc"}
      BY <1>10, <3>1 DEF RemoveFound, IInv, TypeOK
    <3> QED BY <3>2 DEF MissStillMissing
  <2> QED BY <2>4, <2>5, <2>6, <2>7 DEF IInv
<1>11. ASSUME NEW t \in Threads, NEW e \in Entries, Release(t, e)
       PROVE  IInv'
  <2>1. TypeOK' /\ MutexInv' /\ MissStillMissing'
    BY <1>11 DEF Release, IInv, TypeOK, MutexInv, MissStillMissing
  <2>2. HeldAlive' /\ LockOwners'
    BY SMTT(60), <1>11, CacheAssumption DEF Release, IInv, TypeOK, HeldAlive, LockOwners
  <2>3. IndexConsistent'
    BY <1>11 DEF Release, IInv, IndexConsistent
  <2> QED BY <2>1, <2>2, <2>3 DEF IInv
<1>12. ASSUME NEW t \in Threads, NEW e \in Entries, NEW b \in BOOLEAN,
              SetDemoting(t, e, b)
       PROVE  IInv'
  <2>1. TypeOK' /\ MutexInv' /\ MissStillMissing'
    BY <1>12 DEF SetDemoting, IInv, TypeOK, MutexInv, MissStillMissing
  <2>2. HeldAlive' /\ LockOwners' /\ IndexConsistent'
    BY <1>12 DEF SetDemoting, IInv, HeldAlive, LockOwners, IndexConsistent
  <2> QED BY <2>1, <2>2 DEF IInv
<1> QED
  BY <1>1, <1>2, <1>3, <1>4, <1>5, <1>6, <1>7, <1>8, <1>9, <1>10, <1>11, <1>12
  DEF Next, ThreadNext, CacheStep, CallGet, CallRemove, Modes

(* The inductive invariant holds in every reachable state. *)
THEOREM InvariantHolds == Spec => []IInv
  BY InitIInv, NextIInv, PTL DEF Spec

(* Every variable keeps its type. *)
THEOREM TypeCorrect == Spec => []TypeOK
<1>1. IInv => TypeOK
  BY DEF IInv
<1> QED BY <1>1, InvariantHolds, PTL

(* No use after free: what dt_cache_get or dt_cache_testget returned stays *)
(* allocated and locked until dt_cache_release, in spite of gc and remove. *)
THEOREM NoUseAfterFree == Spec => []HeldAlive
<1>1. IInv => HeldAlive
  BY DEF IInv
<1> QED BY <1>1, InvariantHolds, PTL

(* A thread with a write lock on an entry shares it with nobody. *)
THEOREM WriterExclusion == Spec => []WriterAlone
<1>1. IInv => WriterAlone
  <2> SUFFICES ASSUME IInv, NEW t \in Threads, NEW u \in Threads,
                      NEW e \in held[t], e \in held[u], wr[e] = t
               PROVE  t = u
    BY DEF WriterAlone
  <2>1. e \in Entries /\ (wr[e] = u \/ u \in rd[e])
    BY DEF IInv, TypeOK, HeldAlive
  <2>2. rd[e] = {}
    BY <2>1, CacheAssumption DEF IInv, LockOwners
  <2> QED BY <2>1, <2>2
<1> QED BY <1>1, InvariantHolds, PTL

(* hashtable, lru list and heap agree: one linked entry per cached key. *)
THEOREM IndexCorrect == Spec => []IndexConsistent
<1>1. IInv => IndexConsistent
  BY DEF IInv
<1> QED BY <1>1, InvariantHolds, PTL
-----------------------------------------------------------------------------
(* What a step of one thread leaves alone. *)

(* A step changes what its own thread holds and has got, and nobody        *)
(* else's, and a step that is not inside the cache leaves an idle thread   *)
(* idle.                                                                   *)
LEMMA OthersUntouched ==
  ASSUME IInv, NEW t \in Threads, NEW u \in Threads, u # t,
         ThreadNext(t)
  PROVE  pc'[u] = pc[u] /\ ret'[u] = ret[u] /\ held'[u] = held[u]
<1> USE DEF lockVars
<1>1. pc \in [Threads -> PCs] /\ ret \in [Threads -> Entries \cup {NoEntry}]
      /\ held \in [Threads -> SUBSET Entries]
  BY DEF IInv, TypeOK
<1>2. CASE CacheStep(t)
  <2>1. CASE GetFound(t) \/ GetMiss(t)
    BY <1>1, <2>1 DEF GetFound, GetMiss, Lock
  <2>2. CASE GcDone(t) \/ GcSkip(t) \/ GcDelete(t)
    BY <1>1, <2>2 DEF GcDone, GcSkip, GcDelete
  <2>3. CASE \E e \in Entries, c \in Costs : Alloc(t, e, c)
    BY <1>1, <2>3 DEF Alloc, Lock
  <2>4. CASE RemoveMiss(t) \/ RemoveFound(t)
    BY <1>1, <2>4 DEF RemoveMiss, RemoveFound
  <2> QED BY <1>2, <2>1, <2>2, <2>3, <2>4 DEF CacheStep
<1>3. ASSUME NEW k \in Keys, NEW m \in Modes, CallGet(t, k, m) \/ TestGet(t, k, m)
      PROVE  pc'[u] = pc[u] /\ ret'[u] = ret[u] /\ held'[u] = held[u]
  BY <1>1, <1>3 DEF CallGet, Call, TestGet, Lock
<1>4. ASSUME NEW k \in Keys, CallRemove(t, k)
      PROVE  pc'[u] = pc[u] /\ ret'[u] = ret[u] /\ held'[u] = held[u]
  BY <1>1, <1>4 DEF CallRemove, Call
<1>5. ASSUME NEW e \in Entries, Release(t, e)
      PROVE  pc'[u] = pc[u] /\ ret'[u] = ret[u] /\ held'[u] = held[u]
  BY <1>1, <1>5 DEF Release
<1>6. ASSUME NEW e \in Entries, NEW b \in BOOLEAN, SetDemoting(t, e, b)
      PROVE  pc'[u] = pc[u] /\ ret'[u] = ret[u] /\ held'[u] = held[u]
  BY <1>6 DEF SetDemoting
<1> QED BY <1>2, <1>3, <1>4, <1>5, <1>6 DEF ThreadNext

(* A write locked entry is in the hands of its writer alone. *)
LEMMA WriterOnly ==
  ASSUME IInv, NEW t \in Threads, NEW u \in Threads, NEW e \in held[u], wr[e] = t
  PROVE  u = t
<1>1. e \in Entries /\ (wr[e] = u \/ u \in rd[e])
  BY DEF IInv, HeldAlive, TypeOK
<1> QED BY <1>1, CacheAssumption DEF IInv, LockOwners

(* No step of the cache takes an entry out of the table that somebody has  *)
(* in hand or that is being demoted.                                       *)
LEMMA TableKept ==
  ASSUME IInv, NEW t \in Threads, ThreadNext(t), NEW k \in Keys, table[k] # NoEntry,
         (\E u \in Threads : table[k] \in held[u]) \/ demoting[table[k]]
  PROVE  table'[k] = table[k]
<1> DEFINE x == table[k]
<1>1. x \in live /\ key[x] = k /\ x \in Entries
  BY DEF IInv, TypeOK, IndexConsistent
<1>2. ASSUME NEW e \in live, CanWrite(e), ~demoting[e]
      PROVE  x # e
  <2>1. \A u \in Threads : e \notin held[u]
    BY <1>2, CacheAssumption DEF CanWrite, IInv, HeldAlive
  <2> QED BY <1>2, <2>1
<1>3. ASSUME NEW e \in live, CanWrite(e), ~demoting[e],
             table' = [table EXCEPT ![key[e]] = NoEntry]
      PROVE  table'[k] = table[k]
  <2>1. key[e] # k /\ table \in [Keys -> Entries \cup {NoEntry}]
    BY <1>2, <1>3 DEF IInv, TypeOK, IndexConsistent
  <2> QED BY <1>3, <2>1
<1>4. CASE GcDelete(t)
  <2>1. PICK e \in live : e = lru[gcpos]
    BY SMTT(60), <1>4 DEF GcDelete, IInv, TypeOK, IndexConsistent, Linked
  <2>2. CanWrite(e) /\ ~demoting[e] /\ table' = [table EXCEPT ![key[e]] = NoEntry]
    BY <1>4, <2>1 DEF GcDelete, Delete
  <2> QED BY <1>3, <2>2
<1>5. CASE RemoveFound(t)
  <2>1. PICK e \in live : e = table[arg[t].k]
    BY <1>5 DEF RemoveFound, IInv, TypeOK, IndexConsistent
  <2>2. lru[Position(e)] = e
    BY <2>1, PositionFound DEF IInv
  <2>3. CanWrite(e) /\ ~demoting[e] /\ table' = [table EXCEPT ![key[e]] = NoEntry]
    BY <1>5, <2>1, <2>2 DEF RemoveFound, Delete
  <2> QED BY <1>3, <2>3
<1>6. ASSUME NEW e \in Entries, NEW c \in Costs, Alloc(t, e, c)
      PROVE  table'[k] = table[k]
  <2>1. arg[t].k # k /\ table \in [Keys -> Entries \cup {NoEntry}]
    BY <1>6 DEF Alloc, IInv, TypeOK, MissStillMissing
  <2> QED BY <1>6, <2>1 DEF Alloc
<1>7. CASE UNCHANGED table
  BY <1>7
<1> QED
  BY <1>4, <1>5, <1>6, <1>7
  DEF ThreadNext, CacheStep, CallGet, CallRemove, Call, TestGet, GetFound, GetMiss,
      GcDone, GcSkip, RemoveMiss, Release, SetDemoting

(* A step of t neither takes nor gives the write lock of another thread,   *)
(* and leaves that thread's call alone.                                    *)
LEMMA WriterKept ==
  ASSUME IInv, NEW t \in Threads, ThreadNext(t), NEW u \in Threads, u # t
  PROVE  arg'[u] = arg[u] /\ \A e \in Entries : wr[e] = u => wr'[e] = u
<1> USE DEF lockVars
<1>1. /\ arg \in [Threads -> [k : Keys, m : Modes]]
      /\ wr \in [Entries -> Threads \cup {NoThread}]
      /\ NoThread \notin Threads
  BY CacheAssumption DEF IInv, TypeOK
<1>2. CASE GetFound(t)
  BY <1>1, <1>2 DEF GetFound, Lock, CanLock, CanWrite, CanRead
<1>3. CASE GetMiss(t) \/ GcDone(t) \/ GcSkip(t) \/ GcDelete(t)
  BY <1>3 DEF GetMiss, GcDone, GcSkip, GcDelete
<1>4. CASE RemoveMiss(t) \/ RemoveFound(t)
  BY <1>4 DEF RemoveMiss, RemoveFound
<1>5. ASSUME NEW e \in Entries, NEW c \in Costs, Alloc(t, e, c)
      PROVE  arg'[u] = arg[u] /\ \A x \in Entries : wr[x] = u => wr'[x] = u
  <2>1. wr[e] # u
    BY <1>5 DEF Alloc, IInv, LockOwners, HeldAlive
  <2> QED BY <1>1, <1>5, <2>1 DEF Alloc, Lock
<1>6. ASSUME NEW k \in Keys, NEW m \in Modes, CallGet(t, k, m) \/ CallRemove(t, k)
      PROVE  arg'[u] = arg[u] /\ \A x \in Entries : wr[x] = u => wr'[x] = u
  BY <1>1, <1>6 DEF CallGet, CallRemove, Call
<1>7. ASSUME NEW k \in Keys, NEW m \in Modes, TestGet(t, k, m)
      PROVE  arg'[u] = arg[u] /\ \A x \in Entries : wr[x] = u => wr'[x] = u
  BY <1>1, <1>7 DEF TestGet, Lock, CanLock, CanWrite, CanRead
<1>8. ASSUME NEW e \in Entries, Release(t, e)
      PROVE  arg'[u] = arg[u] /\ \A x \in Entries : wr[x] = u => wr'[x] = u
  BY <1>1, <1>8 DEF Release
<1>9. ASSUME NEW e \in Entries, NEW b \in BOOLEAN, SetDemoting(t, e, b)
      PROVE  arg'[u] = arg[u] /\ \A x \in Entries : wr[x] = u => wr'[x] = u
  BY <1>9 DEF SetDemoting
<1> QED
  BY <1>2, <1>3, <1>4, <1>5, <1>6, <1>7, <1>8, <1>9
  DEF ThreadNext, CacheStep, Modes


(* What a testget does to its caller. *)
LEMMA TestGetHand ==
  ASSUME IInv, NEW t \in Threads, NEW k \in Keys, NEW m \in Modes, TestGet(t, k, m)
  PROVE  /\ pc[t] = "idle" /\ pc'[t] = "idle" /\ table' = table /\ live' = live
         /\ \/ /\ ret'[t] = NoEntry /\ held'[t] = held[t]
            \/ /\ ret'[t] = table[k] /\ table[k] \in live /\ key[table[k]] = k
               /\ ret'[t] # NoEntry /\ CanLock(table[k], m)
               /\ held'[t] = held[t] \cup {table[k]}
               /\ table[k] \notin held[t]
<1> USE DEF lockVars, heapVars
<1>1. pc[t] = "idle" /\ pc' = pc /\ table' = table /\ live' = live
      /\ \A e \in held[t] : key[e] # k
  BY DEF TestGet, MayCall
<1>2. ret \in [Threads -> Entries \cup {NoEntry}] /\ held \in [Threads -> SUBSET Entries]
  BY DEF IInv, TypeOK
<1>3. CASE table[k] # NoEntry /\ CanLock(table[k], m)
  <2>1. table[k] \in live /\ key[table[k]] = k
    BY <1>3 DEF IInv, IndexConsistent
  <2>2. ret'[t] = table[k] /\ held'[t] = held[t] \cup {table[k]}
    BY <1>2, <1>3 DEF TestGet, Lock
  <2> QED BY <1>1, <1>3, <2>1, <2>2
<1>4. CASE ~(table[k] # NoEntry /\ CanLock(table[k], m))
  BY <1>1, <1>2, <1>4 DEF TestGet
<1> QED BY <1>3, <1>4

(* What a release does to its caller. *)
LEMMA ReleaseHand ==
  ASSUME IInv, NEW t \in Threads, NEW e, Release(t, e)
  PROVE  /\ pc[t] = "idle" /\ pc' = pc /\ table' = table /\ live' = live /\ ret' = ret
         /\ held'[t] = held[t] \ {e} /\ demoting' = demoting
  BY DEF Release, IInv, TypeOK, heapVars
-----------------------------------------------------------------------------
(* A set of naturals that is not empty has a least element. *)
LEMMA LeastElement ==
  ASSUME NEW T, T \subseteq Nat, T # {}
  PROVE  \E x \in T : \A y \in T : x <= y
<1>1. PICK R : R = OpToRel(<, Nat)
  OBVIOUS
<1>2. IsWellFoundedOn(R, Nat)
  BY <1>1, NatLessThanWellFounded
<1>3. PICK x \in T : \A y \in T : ~ (<<y, x>> \in R)
  BY <1>2, WFMin
<1>4. ASSUME NEW y \in T, y < x PROVE FALSE
  <2>1. <<y, x>> \in Nat \X Nat /\ <<y, x>>[1] < <<y, x>>[2]
    BY <1>4
  <2>2. <<y, x>> \in R
    BY <2>1, <1>1 DEF OpToRel
  <2> QED BY <2>2, <1>3
<1> QED BY SMTT(60), <1>4

(* p holds the running totals of w over 1 .. N. *)
Totals(p, w, N) ==
  /\ p \in [0 .. N -> Nat] /\ p[0] = 0
  /\ \A i \in 1 .. N : p[i] = p[i - 1] + w[i]

(* The costs c of the elements of the list s, and that they add up to n. *)
CostsOf(s, c) == [i \in 1 .. Len(s) |-> c[s[i]]]
SumsTo(s, c, n) == \E p : Totals(p, CostsOf(s, c), Len(s)) /\ p[Len(s)] = n

(* Running totals of one more number. *)
LEMMA TotalsAppend ==
  ASSUME NEW N \in Nat, NEW w \in [1 .. N -> Nat], NEW v \in [1 .. N + 1 -> Nat],
         \A j \in 1 .. N : v[j] = w[j], NEW p, Totals(p, w, N)
  PROVE  \E q : Totals(q, v, N + 1) /\ q[N + 1] = p[N] + v[N + 1]
<1>1. PICK x \in Nat : x = v[N + 1]
  BY SMTT(60)
<1>2. PICK y \in Nat : y = p[N]
  BY SMTT(60) DEF Totals
<1>3. PICK q : q = [j \in 0 .. N + 1 |-> IF j <= N THEN p[j] ELSE y + x]
  OBVIOUS
<1>4. \A j \in 0 .. N : q[j] = p[j] /\ p[j] \in Nat
  BY SMTT(60), <1>3 DEF Totals
<1>5. q[N + 1] = y + x
  BY SMTT(60), <1>3
<1>6. q \in [0 .. N + 1 -> Nat]
  BY SMTT(60), <1>1, <1>2, <1>3, <1>4
<1>7. ASSUME NEW j \in 1 .. N + 1 PROVE q[j] = q[j - 1] + v[j]
  <2>1. CASE j = N + 1
    BY SMTT(60), <1>1, <1>2, <1>4, <1>5, <2>1
  <2>2. CASE j # N + 1
    <3>1. j \in 1 .. N /\ j \in 0 .. N /\ j - 1 \in 0 .. N
      BY SMTT(60), <2>2
    <3> QED BY <1>4, <3>1 DEF Totals
  <2> QED BY <2>1, <2>2
<1>8. q[0] = 0
  BY SMTT(60), <1>4 DEF Totals
<1>9. Totals(q, v, N + 1)
  BY <1>6, <1>7, <1>8 DEF Totals
<1> QED BY <1>1, <1>2, <1>5, <1>9

(* v is w without the i-th number. *)
Without(v, w, i, N) ==
  /\ N \in Nat /\ i \in 1 .. N
  /\ w \in [1 .. N -> Nat] /\ v \in [1 .. N - 1 -> Nat]
  /\ \A j \in 1 .. N - 1 : v[j] = IF j < i THEN w[j] ELSE w[j + 1]

(* Running totals without the i-th number: the later totals are less by    *)
(* that number, and none of them was smaller.                              *)
LEMMA TotalsDelete ==
  ASSUME NEW N, NEW w, NEW i, NEW v, Without(v, w, i, N),
         NEW p, Totals(p, w, N)
  PROVE  \E q : Totals(q, v, N - 1) /\ q[N - 1] = p[N] - w[i]
<1>0. N \in Nat /\ i \in 1 .. N /\ w \in [1 .. N -> Nat]
  BY DEF Without
<1>1. PICK x \in Nat : x = w[i]
  BY <1>0
<1>2. \A j \in 0 .. N : p[j] \in Nat
  BY <1>0 DEF Totals
<1>3. \A j \in 1 .. N : p[j] = p[j - 1] + w[j] /\ w[j] \in Nat
  BY <1>0 DEF Totals
<1>4. ASSUME NEW k \in i .. N, p[k] < x PROVE FALSE
  <2>1. PICK T : T = {j \in i .. N : p[j] < x}
    OBVIOUS
  <2>2. T \subseteq Nat /\ T # {}
    BY SMTT(60), <1>0, <1>4, <2>1
  <2>3. PICK j \in T : \A y \in T : j <= y
    BY <1>0, <2>2, LeastElement
  <2>4. j \in i .. N /\ p[j] < x
    BY <1>0, <2>1, <2>3
  <2>5. p[i] = p[i - 1] + x /\ p[i - 1] \in Nat
    BY SMTT(60), <1>0, <1>1, <1>2, <1>3
  <2>6. j # i
    BY SMTT(60), <1>0, <2>4, <2>5
  <2>7. j - 1 \in i .. N /\ j \in 1 .. N /\ j - 1 \in 0 .. N
    BY SMTT(60), <1>0, <2>4, <2>6
  <2>8. ~(p[j - 1] < x)
    BY SMTT(60), <1>0, <2>1, <2>3, <2>7
  <2> QED BY SMTT(60), <1>0, <1>2, <1>3, <2>4, <2>7, <2>8
<1>5. PICK q : q = [j \in 0 .. N - 1 |-> IF j < i THEN p[j] ELSE p[j + 1] - x]
  OBVIOUS
<1>6. ASSUME NEW j \in 0 .. N - 1, j < i PROVE q[j] = p[j] /\ q[j] \in Nat
  BY SMTT(60), <1>0, <1>2, <1>5, <1>6
<1>7. ASSUME NEW j \in 0 .. N - 1, i <= j
      PROVE  q[j] = p[j + 1] - x /\ q[j] \in Nat
  <2>1. j + 1 \in i .. N /\ j + 1 \in 0 .. N
    BY SMTT(60), <1>0, <1>7
  <2>2. q[j] = p[j + 1] - x
    BY SMTT(60), <1>0, <1>5, <1>7
  <2> QED BY SMTT(60), <1>0, <1>2, <1>4, <2>1, <2>2
<1>8. \A j \in 0 .. N - 1 : q[j] \in Nat
  BY SMTT(60), <1>0, <1>6, <1>7
<1>9. q \in [0 .. N - 1 -> Nat]
  BY <1>0, <1>5, <1>8
<1>10. q[0] = 0
  BY SMTT(60), <1>0, <1>6 DEF Totals
<1>11. q[N - 1] = p[N] - x
  <2>1. CASE i = N
    <3>1. q[N - 1] = p[N - 1]
      BY SMTT(60), <1>0, <1>6, <2>1
    <3>2. p[N] = p[N - 1] + x /\ p[N - 1] \in Nat
      BY SMTT(60), <1>0, <1>1, <1>2, <1>3, <2>1
    <3> QED BY SMTT(60), <1>0, <1>1, <3>1, <3>2
  <2>2. CASE i # N
    BY SMTT(60), <1>0, <1>7, <2>2
  <2> QED BY <1>0, <2>1, <2>2
<1>12. ASSUME NEW j \in 1 .. N - 1 PROVE q[j] = q[j - 1] + v[j]
  <2>0. j \in 0 .. N - 1 /\ j - 1 \in 0 .. N - 1 /\ j \in 1 .. N /\ j + 1 \in 1 .. N
    BY SMTT(60), <1>0
  <2>1. CASE j < i
    <3>1. q[j] = p[j] /\ q[j - 1] = p[j - 1] /\ v[j] = w[j]
      BY SMTT(60), <1>0, <1>6, <2>0, <2>1 DEF Without
    <3> QED BY <1>0, <1>3, <2>0, <3>1
  <2>2. CASE j = i
    <3>0. v[j] = w[i + 1]
      BY SMTT(60), <1>0, <2>2 DEF Without
    <3>1. q[j] = p[i + 1] - x /\ q[j - 1] = p[i - 1]
      BY SMTT(60), <1>0, <1>6, <1>7, <2>0, <2>2
    <3>2. p[i + 1] = p[i] + w[i + 1] /\ p[i] = p[i - 1] + x
      BY SMTT(60), <1>0, <1>1, <1>3, <2>0, <2>2
    <3>3. p[i - 1] \in Nat /\ p[i] \in Nat /\ w[i + 1] \in Nat
      BY SMTT(60), <1>0, <1>2, <1>3, <2>0, <2>2
    <3> QED BY SMTT(60), <1>0, <3>0, <3>1, <3>2, <3>3
  <2>3. CASE j > i
    <3>1. q[j] = p[j + 1] - x /\ q[j - 1] = p[j] - x /\ v[j] = w[j + 1]
      BY SMTT(60), <1>0, <1>7, <2>0, <2>3 DEF Without
    <3>2. p[j + 1] = p[j] + w[j + 1] /\ p[j] \in Nat /\ w[j + 1] \in Nat
      BY SMTT(60), <1>0, <1>2, <1>3, <2>0
    <3> QED BY SMTT(60), <1>0, <3>1, <3>2
  <2> QED BY SMTT(60), <1>0, <2>1, <2>2, <2>3
<1>13. Totals(q, v, N - 1)
  BY <1>0, <1>9, <1>10, <1>12 DEF Totals
<1> QED BY <1>0, <1>1, <1>11, <1>13

(* The costs of a list are numbers, one per element. *)
LEMMA CostsOfType ==
  ASSUME NEW S, NEW s \in Seq(S), NEW c \in [S -> Nat]
  PROVE  /\ Len(s) \in Nat /\ CostsOf(s, c) \in [1 .. Len(s) -> Nat]
         /\ \A i \in 1 .. Len(s) : CostsOf(s, c)[i] = c[s[i]]
  BY SMTT(60) DEF CostsOf

(* The totals of a list depend on the costs of its elements only. *)
LEMMA SumsToSame ==
  ASSUME NEW S, NEW s \in Seq(S), NEW c \in [S -> Nat], NEW d \in [S -> Nat], NEW n,
         SumsTo(s, c, n), \A i \in 1 .. Len(s) : c[s[i]] = d[s[i]]
  PROVE  SumsTo(s, d, n)
<1>1. CostsOf(s, c) = CostsOf(s, d)
  BY DEF CostsOf
<1> QED BY <1>1 DEF SumsTo

(* Linking an element at the end adds its cost. *)
LEMMA SumsToAppend ==
  ASSUME NEW S, NEW s \in Seq(S), NEW c \in [S -> Nat], NEW n, NEW e \in S,
         SumsTo(s, c, n)
  PROVE  SumsTo(Append(s, e), c, n + c[e])
<1>1. PICK r : r = Append(s, e)
  OBVIOUS
<1>2. /\ r \in Seq(S) /\ Len(r) = Len(s) + 1 /\ r[Len(s) + 1] = e
      /\ \A j \in 1 .. Len(s) : r[j] = s[j]
  BY SMTT(60), <1>1
<1>3. PICK w : w = CostsOf(s, c)
  OBVIOUS
<1>4. PICK v : v = CostsOf(r, c)
  OBVIOUS
<1>5. PICK N : N = Len(s)
  OBVIOUS
<1>6. /\ N \in Nat /\ w \in [1 .. N -> Nat]
      /\ \A j \in 1 .. N : w[j] = c[s[j]]
  BY <1>3, <1>5, CostsOfType
<1>7. /\ v \in [1 .. N + 1 -> Nat]
      /\ \A j \in 1 .. N + 1 : v[j] = c[r[j]]
  <2>1. /\ v \in [1 .. Len(r) -> Nat]
        /\ \A j \in 1 .. Len(r) : v[j] = c[r[j]]
    BY <1>2, <1>4, CostsOfType
  <2>2. Len(r) = N + 1
    BY <1>2, <1>5
  <2> QED BY <2>1, <2>2
<1>8. v[N + 1] = c[e] /\ \A j \in 1 .. N : v[j] = w[j]
  <2>1. \A j \in 1 .. N : j \in 1 .. N + 1
    BY SMTT(60), <1>6
  <2>2. N + 1 \in 1 .. N + 1
    BY SMTT(60), <1>6
  <2>3. v[N + 1] = c[r[N + 1]] /\ r[N + 1] = e
    BY <1>2, <1>5, <1>7, <2>2
  <2>4. ASSUME NEW j \in 1 .. N PROVE v[j] = w[j]
    <3>1. v[j] = c[r[j]] /\ w[j] = c[s[j]]
      BY <1>6, <1>7, <2>1
    <3>2. r[j] = s[j]
      BY <1>2, <1>5
    <3> QED BY <3>1, <3>2
  <2> QED BY <2>3, <2>4
<1>9. PICK p : Totals(p, w, N) /\ p[N] = n
  BY <1>3, <1>5 DEF SumsTo
<1>10. \E q : Totals(q, v, N + 1) /\ q[N + 1] = p[N] + v[N + 1]
  BY <1>6, <1>7, <1>8, <1>9, TotalsAppend
<1> QED BY <1>1, <1>2, <1>4, <1>5, <1>8, <1>9, <1>10 DEF SumsTo

(* Unlinking an element takes its cost off. *)
LEMMA SumsToDeleteLink ==
  ASSUME NEW S, NEW s \in Seq(S), NEW c \in [S -> Nat], NEW n,
         NEW i \in 1 .. Len(s), SumsTo(s, c, n)
  PROVE  SumsTo(DeleteLink(s, i), c, n - c[s[i]])
<1>1. PICK r : r = DeleteLink(s, i)
  OBVIOUS
<1>2. /\ r \in Seq(S) /\ Len(r) = Len(s) - 1
      /\ \A j \in 1 .. Len(s) - 1 : r[j] = IF j < i THEN s[j] ELSE s[j + 1]
  BY <1>1, DeleteLinkElements
<1>3. PICK w : w = CostsOf(s, c)
  OBVIOUS
<1>4. PICK v : v = CostsOf(r, c)
  OBVIOUS
<1>5. PICK N : N = Len(s)
  OBVIOUS
<1>6. /\ N \in Nat /\ w \in [1 .. N -> Nat] /\ i \in 1 .. N
      /\ \A j \in 1 .. N : w[j] = c[s[j]]
  BY <1>3, <1>5, CostsOfType
<1>7. /\ v \in [1 .. N - 1 -> Nat]
      /\ \A j \in 1 .. N - 1 : v[j] = c[r[j]]
  <2>1. /\ v \in [1 .. Len(r) -> Nat]
        /\ \A j \in 1 .. Len(r) : v[j] = c[r[j]]
    BY <1>2, <1>4, CostsOfType
  <2>2. Len(r) = N - 1
    BY <1>2, <1>5
  <2> QED BY <2>1, <2>2
<1>8. ASSUME NEW j \in 1 .. N - 1
      PROVE  v[j] = IF j < i THEN w[j] ELSE w[j + 1]
  <2>1. j \in 1 .. N /\ j + 1 \in 1 .. N
    BY SMTT(60), <1>6
  <2> QED BY <1>2, <1>5, <1>6, <1>7, <2>1
<1>9. PICK p : Totals(p, w, N) /\ p[N] = n
  BY <1>3, <1>5 DEF SumsTo
<1>10. \E q : Totals(q, v, N - 1) /\ q[N - 1] = p[N] - w[i]
  <2>1. \A j \in 1 .. N - 1 : v[j] = IF j < i THEN w[j] ELSE w[j + 1]
    BY <1>8
  <2>2. Without(v, w, i, N)
    BY <1>6, <1>7, <2>1 DEF Without
  <2> QED BY SMTT(60), <1>9, <2>2, TotalsDelete
<1> QED BY <1>1, <1>2, <1>4, <1>5, <1>6, <1>9, <1>10 DEF SumsTo

(* What SumsTo says in terms of CostUpTo. *)
LEMMA SumsToCost ==
  ASSUME TypeOK, SumsTo(lru, ecost, cost)
  PROVE  CostExact
<1>1. PICK w : w = CostsOf(lru, ecost)
  OBVIOUS
<1>2. PICK N : N = Len(lru)
  OBVIOUS
<1>3. /\ N \in Nat /\ w \in [1 .. N -> Nat]
      /\ \A i \in 1 .. N : w[i] = ecost[lru[i]]
  <2>1. lru \in Seq(Entries) /\ ecost \in [Entries -> Nat]
    BY DEF TypeOK
  <2> QED BY <1>1, <1>2, <2>1, CostsOfType
<1>4. PICK p : Totals(p, w, N) /\ p[N] = cost
  BY <1>1, <1>2 DEF SumsTo
<1> DEFINE P(g) == g = [i \in 0 .. N |-> IF i = 0 THEN 0 ELSE g[i - 1] + ecost[lru[i]]]
<1>5. P(p)
  BY SMTT(60), <1>3, <1>4 DEF Totals
<1>6. PICK f : f = CostUpTo
  OBVIOUS
<1>7. P(f)
  <2>1. P(CHOOSE g : P(g))
    BY <1>5
  <2>2. CostUpTo = CHOOSE g : P(g)
    BY <1>2 DEF CostUpTo
  <2> HIDE DEF P
  <2> QED BY <1>6, <2>1, <2>2
<1>8. ASSUME NEW j \in 0 .. N, f[j] # p[j] PROVE FALSE
  <2>1. PICK T : T = {i \in 0 .. N : f[i] # p[i]}
    OBVIOUS
  <2>2. T \subseteq Nat /\ T # {}
    BY SMTT(60), <1>3, <1>8, <2>1
  <2>3. PICK i \in T : \A y \in T : i <= y
    BY <2>2, LeastElement
  <2>4. i \in 0 .. N /\ f[i] # p[i]
    BY <2>1, <2>3
  <2>5. i # 0
    BY <1>3, <1>5, <1>7, <2>4
  <2>6. i - 1 \in 0 .. N
    BY SMTT(60), <1>3, <2>4, <2>5
  <2>7. f[i - 1] = p[i - 1]
    BY SMTT(60), <2>1, <2>2, <2>3, <2>6
  <2>8. p[i] = p[i - 1] + ecost[lru[i]]
    BY <1>5, <2>4, <2>5
  <2>9. f[i] = f[i - 1] + ecost[lru[i]]
    BY <1>7, <2>4, <2>5
  <2> QED BY <2>4, <2>7, <2>8, <2>9
<1>9. f[N] = cost /\ cost \in Nat
  BY SMTT(60), <1>3, <1>4, <1>8 DEF Totals
<1> QED BY SMTT(60), <1>2, <1>6, <1>9 DEF CostExact
-----------------------------------------------------------------------------
(* The inductive form of CostExact. *)
CostInv == SumsTo(lru, ecost, cost)

(* Bubbling an entry up moves its cost to the end of the list. *)
LEMMA CostBubbleUp ==
  ASSUME TypeOK, IndexConsistent, CostInv, NEW e \in live, BubbleUp(e),
         UNCHANGED <<ecost, cost>>
  PROVE  CostInv'
<1>1. Position(e) \in 1 .. Len(lru) /\ lru[Position(e)] = e
  BY PositionFound
<1>2. PICK r : r = DeleteLink(lru, Position(e))
  OBVIOUS
<1>3. e \in Entries /\ lru \in Seq(Entries) /\ ecost \in [Entries -> Nat]
      /\ cost \in Int /\ r \in Seq(Entries)
  BY <1>1, <1>2, DeleteLinkElements DEF TypeOK
<1>4. SumsTo(r, ecost, cost - ecost[e])
  <2>1. SumsTo(DeleteLink(lru, Position(e)), ecost, cost - ecost[lru[Position(e)]])
    BY <1>1, <1>3, SumsToDeleteLink DEF CostInv
  <2> QED BY <1>1, <1>2, <2>1
<1>5. SumsTo(Append(r, e), ecost, cost - ecost[e] + ecost[e])
  BY <1>3, <1>4, SumsToAppend
<1>6. cost - ecost[e] + ecost[e] = cost
  BY SMTT(60), <1>3
<1>7. lru' = Append(r, e)
  BY <1>2 DEF BubbleUp
<1> QED BY <1>5, <1>6, <1>7 DEF CostInv

(* Deleting an entry takes off what it had added. *)
LEMMA CostDelete ==
  ASSUME TypeOK, CostInv, NEW i \in 1 .. Len(lru), Delete(i), UNCHANGED ecost
  PROVE  CostInv'
<1>1. SumsTo(DeleteLink(lru, i), ecost, cost - ecost[lru[i]])
  BY SumsToDeleteLink DEF CostInv, TypeOK
<1> QED BY <1>1 DEF CostInv, Delete

(* Every step keeps the cost in step with the list. *)
LEMMA NextCostInv == IInv /\ CostInv /\ [Next]_vars => CostInv'
<1> SUFFICES ASSUME IInv, CostInv, [Next]_vars PROVE CostInv'
  OBVIOUS
<1> USE DEF heapVars, lockVars
<1>1. ASSUME UNCHANGED <<lru, ecost, cost>> PROVE CostInv'
  BY <1>1 DEF CostInv
<1>2. ASSUME NEW t \in Threads, GetFound(t) PROVE CostInv'
  <2>1. table[arg[t].k] \in live
    BY <1>2 DEF GetFound, IInv, TypeOK, IndexConsistent
  <2> QED BY <1>2, <2>1, CostBubbleUp DEF GetFound, IInv
<1>3. ASSUME NEW t \in Threads, NEW k \in Keys, NEW m \in Modes, TestGet(t, k, m)
      PROVE  CostInv'
  <2>1. CASE table[k] # NoEntry /\ CanLock(table[k], m)
    <3>1. table[k] \in live
      BY <2>1 DEF IInv, TypeOK, IndexConsistent
    <3> QED BY <1>3, <2>1, <3>1, CostBubbleUp DEF TestGet, IInv
  <2>2. CASE ~(table[k] # NoEntry /\ CanLock(table[k], m))
    BY <1>3, <2>2, <1>1 DEF TestGet
  <2> QED BY <2>1, <2>2
<1>4. ASSUME NEW t \in Threads, GcDelete(t) PROVE CostInv'
  <2>1. gcpos \in 1 .. Len(lru)
    BY SMTT(60), <1>4 DEF GcDelete, IInv, TypeOK
  <2> QED BY <1>4, <2>1, CostDelete DEF GcDelete, IInv
<1>5. ASSUME NEW t \in Threads, RemoveFound(t) PROVE CostInv'
  <2>1. table[arg[t].k] \in live
    BY <1>5 DEF RemoveFound, IInv, TypeOK, IndexConsistent
  <2>2. Position(table[arg[t].k]) \in 1 .. Len(lru)
    BY <2>1, PositionFound DEF IInv
  <2> QED BY <1>5, <2>2, CostDelete DEF RemoveFound, IInv
<1>6. ASSUME NEW t \in Threads, NEW e \in Entries, NEW c \in Costs, Alloc(t, e, c)
      PROVE  CostInv'
  <2>1. /\ lru \in Seq(Entries) /\ ecost \in [Entries -> Nat] /\ cost \in Int
        /\ ecost' \in [Entries -> Nat] /\ e \notin live
    BY <1>6, CacheAssumption DEF Alloc, IInv, TypeOK
  <2>2. \A i \in 1 .. Len(lru) : ecost[lru[i]] = ecost'[lru[i]]
    <3>1. \A i \in 1 .. Len(lru) : lru[i] \in Entries /\ lru[i] # e
      BY SMTT(60), <2>1 DEF IInv, IndexConsistent, Linked
    <3> QED BY <1>6, <2>1, <3>1 DEF Alloc
  <2>3. SumsTo(lru, ecost', cost)
    BY <2>1, <2>2, SumsToSame DEF CostInv
  <2>4. SumsTo(Append(lru, e), ecost', cost + ecost'[e])
    BY <2>1, <2>3, SumsToAppend
  <2> QED BY <1>6, <2>4 DEF Alloc, CostInv
<1>7. CASE UNCHANGED vars
  BY <1>1, <1>7 DEF vars
<1> QED
  BY SMTT(60), <1>1, <1>2, <1>3, <1>4, <1>5, <1>6, <1>7
  DEF Next, ThreadNext, CacheStep, CallGet, CallRemove, Call, Modes, GetMiss,
      GcDone, GcSkip, RemoveMiss, Release, SetDemoting

(* The empty cache costs nothing. *)
LEMMA InitCostInv == Init => CostInv
<1> SUFFICES ASSUME Init PROVE CostInv
  OBVIOUS
<1>1. Len(lru) = 0 /\ cost = 0
  BY DEF Init
<1>2. PICK p : p = [i \in 0 .. 0 |-> 0]
  OBVIOUS
<1>3. Totals(p, CostsOf(lru, ecost), 0) /\ p[0] = 0
  BY SMTT(60), <1>2 DEF Totals
<1> QED BY <1>1, <1>3 DEF CostInv, SumsTo

(* cache->cost never drifts from what is cached, and never wraps. *)
THEOREM CostCorrect == Spec => []CostExact
<1>1. IInv /\ CostInv => CostExact
  BY SumsToCost DEF IInv, CostInv
<1> QED BY <1>1, InitCostInv, NextCostInv, InitIInv, NextIInv, PTL DEF Spec
-----------------------------------------------------------------------------
(* The quota is soft.  The entries that the collector may not delete: locked *)
(* by a thread, or about to be locked again by a thread that demotes its     *)
(* lock.                                                                     *)
Pins == {e \in live : demoting[e] \/ \E t \in Threads : e \in held[t]}

(* While the collector runs its thread waits for one more entry, so fewer    *)
(* entries are pinned than threads may pin.                                  *)
FewPins ==
  (\E t \in Threads : pc[t] = "gc") =>
    IsFiniteSet(Pins) /\ Cardinality(Pins) < Cardinality(Threads) * MaxHeld

(* The costs of entries have an upper bound. *)
BoundedCosts == \E m \in Nat : \A c \in Costs : c <= m

(* A set of numbers that has an upper bound has a greatest element. *)
LEMMA GreatestElement ==
  ASSUME NEW S, S \subseteq Nat, NEW x \in S, NEW m \in Nat, \A c \in S : c <= m
  PROVE  Max(S) \in S /\ \A c \in S : c <= Max(S)
<1> DEFINE U == {k \in Nat : \A c \in S : c <= k}
<1>1. U \subseteq Nat /\ U # {}
  OBVIOUS
<1>2. PICK k \in U : \A y \in U : k <= y
  BY <1>1, LeastElement
<1>3. k \in Nat /\ \A c \in S : c <= k
  BY <1>2
<1>4. k \in S
  <2> SUFFICES ASSUME k \notin S PROVE FALSE
    OBVIOUS
  <2>1. \A c \in S : c <= k - 1
    BY SMTT(60), <1>3
  <2>2. k - 1 \in Nat
    BY SMTT(60), <1>3, <2>1
  <2>3. k - 1 \in U
    BY <2>1, <2>2
  <2>4. k <= k - 1
    BY <1>2, <2>3
  <2> QED BY SMTT(60), <1>3, <2>4
<1>5. \E z \in S : \A y \in S : z >= y
  BY SMTT(60), <1>3, <1>4
<1>6. Max(S) \in S /\ \A y \in S : Max(S) >= y
  BY <1>5 DEF Max
<1>7. PICK z : z = Max(S)
  OBVIOUS
<1>8. \A c \in S : c <= z
  BY SMTT(60), <1>6, <1>7
<1> QED BY <1>6, <1>7, <1>8

(* MaxCost bounds the cost of an entry. *)
LEMMA MaxCostBounds ==
  ASSUME BoundedCosts
  PROVE  MaxCost \in Nat /\ 1 <= MaxCost /\ \A c \in Costs : c <= MaxCost
<1>1. PICK m \in Nat : \A c \in Costs : c <= m
  BY DEF BoundedCosts
<1>2. PICK S : S = Costs \cup {1}
  OBVIOUS
<1>3. S \subseteq Nat /\ 1 \in S /\ m + 1 \in Nat /\ \A c \in S : c <= m + 1
  BY SMTT(60), <1>1, <1>2, CacheAssumption
<1>4. Max(S) \in S /\ \A c \in S : c <= Max(S)
  BY <1>3, GreatestElement
<1> QED BY <1>2, <1>3, <1>4 DEF MaxCost

(* Products. *)
LEMMA Products ==
  ASSUME NEW a \in Int, NEW b \in Int, NEW m \in Nat, a <= b
  PROVE  a * m <= b * m /\ (a + 1) * m = a * m + m /\ a * m \in Int
  BY SMTT(60)

(* The costs of a list add up to no more than as many times the greatest. *)
LEMMA SumsToBound ==
  ASSUME NEW S, NEW s \in Seq(S), NEW c \in [S -> Nat], NEW n, SumsTo(s, c, n),
         NEW m \in Nat, \A e \in S : c[e] <= m
  PROVE  n <= Len(s) * m
<1>1. PICK w, N : w = CostsOf(s, c) /\ N = Len(s)
  OBVIOUS
<1>2. /\ N \in Nat /\ w \in [1 .. N -> Nat]
      /\ \A i \in 1 .. N : w[i] = c[s[i]]
  BY <1>1, CostsOfType
<1>3. PICK p : Totals(p, w, N) /\ p[N] = n
  BY <1>1 DEF SumsTo
<1>4. \A i \in 1 .. N : w[i] <= m /\ w[i] \in Nat
  <2>1. \A i \in 1 .. N : s[i] \in S
    BY SMTT(60), <1>1
  <2> QED BY <1>2, <2>1
<1> DEFINE Bad == {i \in 0 .. N : ~(p[i] <= i * m)}
<1>5. Bad = {}
  <2> SUFFICES ASSUME Bad # {} PROVE FALSE
    OBVIOUS
  <2>1. Bad \subseteq Nat
    BY SMTT(60), <1>2
  <2>2. PICK i \in Bad : \A y \in Bad : i <= y
    BY <2>1, LeastElement
  <2>3. i \in 0 .. N /\ ~(p[i] <= i * m)
    BY <2>2
  <2>4. i # 0
    <3>1. p[0] = 0 /\ 0 * m = 0
      BY SMTT(60), <1>3 DEF Totals
    <3> QED BY SMTT(60), <2>3, <3>1
  <2>5. i - 1 \in 0 .. N /\ i \in 1 .. N /\ ~(i <= i - 1) /\ i - 1 \in Int
    BY SMTT(60), <1>2, <2>3, <2>4
  <2>6. p[i - 1] <= (i - 1) * m
    BY <2>2, <2>5
  <2>7. p[i] = p[i - 1] + w[i] /\ p[i - 1] \in Nat /\ w[i] \in Nat /\ w[i] <= m
    BY <1>3, <1>4, <2>5 DEF Totals
  <2>8. PICK j \in Int : j = i - 1 /\ j + 1 = i
    BY SMTT(60), <2>5
  <2>9. (j + 1) * m = j * m + m /\ j * m \in Int
    <3>1. j <= j
      BY SMTT(60), <2>8
    <3> QED BY <2>8, <3>1, Products
  <2>10. PICK x, y : x = p[i - 1] /\ y = j * m
    OBVIOUS
  <2>11. x + w[i] <= y + m
    BY SMTT(60), <2>6, <2>7, <2>8, <2>9, <2>10
  <2> QED BY <2>3, <2>7, <2>8, <2>9, <2>10, <2>11
<1>6. N \in 0 .. N
  BY SMTT(60), <1>2
<1> QED BY <1>1, <1>3, <1>5, <1>6
-----------------------------------------------------------------------------
(* The entries that the collector has passed. *)
Passed == {lru[i] : i \in 1 .. gcpos - 1}

(* The collector ends at the end of the list with no more than the pinned   *)
(* entries, or with room.                                                   *)
Limit == Max({4 * Quota, 5 * Pinnable})
Walks ==
  /\ gcpos - 1 <= Len(lru)
  /\ IsFiniteSet(Passed \cup Pins)
  /\ Cardinality(Passed \cup Pins) < Cardinality(Threads) * MaxHeld
BInv ==
  /\ \A e \in Entries : ecost[e] <= MaxCost
  /\ CostBounded
  /\ \A t \in Threads : pc[t] = "gc" => Walks
  /\ \A t \in Threads : pc[t] = "alloc" => 5 * cost <= Limit

(* The limit. *)
LEMMA LimitBounds ==
  ASSUME BoundedCosts, IsFiniteSet(Threads)
  PROVE  /\ Limit \in Int /\ 4 * Quota <= Limit /\ 5 * Pinnable <= Limit
         /\ Pinnable \in Int /\ Cardinality(Threads) * MaxHeld \in Nat
         /\ Pinnable = (Cardinality(Threads) * MaxHeld - 1) * MaxCost
<1>1. MaxCost \in Nat /\ Quota \in Nat /\ MaxHeld \in Nat /\ Cardinality(Threads) \in Nat
  BY MaxCostBounds, CacheAssumption, FS_CardinalityType
<1>2. PICK k : k = Cardinality(Threads)
  OBVIOUS
<1>3. Pinnable = (k * MaxHeld - 1) * MaxCost
  BY <1>2 DEF Pinnable
<1>4. k * MaxHeld \in Nat
  BY SMTT(60), <1>1, <1>2
<1>5. Pinnable \in Int
  BY SMTT(60), <1>1, <1>3, <1>4
<1>6. PICK a, b : a = 4 * Quota /\ b = 5 * Pinnable
  OBVIOUS
<1>7. a \in Int /\ b \in Int
  BY SMTT(60), <1>1, <1>5, <1>6
<1>8. \E x \in {a, b} : \A y \in {a, b} : x >= y
  BY SMTT(60), <1>7
<1>9. Max({a, b}) \in {a, b} /\ \A y \in {a, b} : Max({a, b}) >= y
  BY <1>8 DEF Max
<1>10. PICK x : x = Max({a, b})
  OBVIOUS
<1>11. x \in Int /\ a <= x /\ b <= x
  BY SMTT(60), <1>7, <1>9, <1>10
<1> QED BY <1>2, <1>3, <1>4, <1>5, <1>6, <1>10, <1>11 DEF Limit
-----------------------------------------------------------------------------
(* The walk goes on while no entry becomes pinned and only pinned entries    *)
(* are passed.                                                               *)
LEMMA WalkGoesOn ==
  ASSUME IsFiniteSet(Threads), BoundedCosts, Walks, gcpos' - 1 <= Len(lru'),
         Pins' \subseteq Pins, Passed' \subseteq Passed \cup Pins
  PROVE  Walks'
<1>1. PICK A, B : A = Passed \cup Pins /\ B = Passed' \cup Pins'
  OBVIOUS
<1>2. PICK K : K = Cardinality(Threads) * MaxHeld
  OBVIOUS
<1>3. IsFiniteSet(A) /\ Cardinality(A) < K
  BY <1>1, <1>2 DEF Walks
<1>4. B \in SUBSET A
  BY <1>1
<1>5. IsFiniteSet(B) /\ Cardinality(B) <= Cardinality(A)
  BY <1>3, <1>4, FS_Subset
<1>6. Cardinality(A) \in Nat /\ Cardinality(B) \in Nat /\ K \in Nat
  BY <1>2, <1>3, <1>5, FS_CardinalityType, LimitBounds
<1>7. Cardinality(B) < K
  BY SMTT(60), <1>3, <1>5, <1>6
<1> QED BY <1>1, <1>2, <1>5, <1>7 DEF Walks

(* Only deleted entries leave the heap, only locked ones are pinned. *)
LEMMA PinsShrink ==
  ASSUME live' \subseteq live, \A u \in Threads : held'[u] \subseteq held[u],
         \A e \in live : demoting'[e] => e \in Pins
  PROVE  Pins' \subseteq Pins
<1> SUFFICES ASSUME NEW e \in Pins' PROVE e \in Pins
  OBVIOUS
<1>1. e \in live' /\ (demoting'[e] \/ \E t \in Threads : e \in held'[t])
  BY DEF Pins
<1>2. e \in live
  BY <1>1
<1>3. CASE demoting'[e]
  BY <1>2, <1>3
<1>4. CASE \E t \in Threads : e \in held'[t]
  <2>1. PICK t \in Threads : e \in held'[t]
    BY <1>4
  <2>2. e \in held[t]
    BY <2>1
  <2> QED BY <1>2, <2>2 DEF Pins
<1> QED BY <1>1, <1>3, <1>4

(* A step that leaves the list alone, pins nothing and starts no walk. *)
LEMMA QuietStep ==
  ASSUME IsFiniteSet(Threads), BoundedCosts, BInv,
         UNCHANGED <<lru, cost, ecost, gcpos>>, Pins' \subseteq Pins,
         \A t \in Threads : pc'[t] \in {"gc", "alloc"} => pc'[t] = pc[t]
  PROVE  BInv'
<1>1. (\A e \in Entries : ecost[e] <= MaxCost)' /\ CostBounded'
  BY DEF BInv, CostBounded
<1>2. ASSUME NEW t \in Threads, pc'[t] = "gc" PROVE Walks'
  <2>1. pc[t] = "gc"
    BY <1>2
  <2>2. Walks
    BY <2>1 DEF BInv
  <2>3. Passed' = Passed
    BY DEF Passed
  <2>4. gcpos' - 1 <= Len(lru')
    BY <2>2 DEF Walks
  <2> QED BY <2>2, <2>3, <2>4, WalkGoesOn
<1>3. ASSUME NEW t \in Threads, pc'[t] = "alloc" PROVE (5 * cost <= Limit)'
  <2>1. pc[t] = "alloc"
    BY <1>3
  <2> QED BY <2>1 DEF BInv, Limit
<1> QED BY <1>1, <1>2, <1>3 DEF BInv

(* A step after which nobody has the mutex: nobody is in the slow path. *)
LEMMA MutexFree ==
  ASSUME IInv', mutex' = NoThread,
         (\A e \in Entries : ecost[e] <= MaxCost)', CostBounded'
  PROVE  BInv'
<1>1. ASSUME NEW t \in Threads PROVE pc'[t] \notin {"gc", "alloc"}
  BY CacheAssumption DEF IInv, MutexInv
<1> QED BY <1>1 DEF BInv

(* A step of the thread that has the mutex: only it is in the slow path. *)
LEMMA MutexMine ==
  ASSUME IInv', NEW t \in Threads, mutex' = t,
         (\A e \in Entries : ecost[e] <= MaxCost)', CostBounded',
         pc'[t] = "gc" => Walks', pc'[t] = "alloc" => (5 * cost <= Limit)'
  PROVE  BInv'
<1>1. ASSUME NEW u \in Threads, pc'[u] \in {"gc", "alloc"} PROVE u = t
  BY <1>1 DEF IInv, MutexInv
<1> QED BY <1>1 DEF BInv

(* A collection that came to the end of the list left pinned entries only. *)
LEMMA OnlyPinned ==
  ASSUME IsFiniteSet(Threads), BoundedCosts, IInv, CostInv, BInv, Walks,
         gcpos > Len(lru)
  PROVE  5 * cost <= Limit
<1>1. PICK n, K : n = Len(lru) /\ K = Cardinality(Threads) * MaxHeld
  OBVIOUS
<1>2. /\ lru \in Seq(Entries) /\ IsInjective(lru) /\ gcpos \in Nat
      /\ ecost \in [Entries -> Nat] /\ cost \in Int
  BY SMTT(60) DEF IInv, IndexConsistent, TypeOK
<1>3. n \in Nat /\ DOMAIN lru = 1 .. n /\ gcpos - 1 = n
  BY SMTT(60), <1>1, <1>2 DEF Walks
<1>4. PICK A : A = Passed \cup Pins
  OBVIOUS
<1>5. IsFiniteSet(A) /\ Cardinality(A) < K
  BY <1>1, <1>4 DEF Walks
<1>6. \A i \in 1 .. n : lru[i] \in A
  BY <1>3, <1>4 DEF Passed
<1>7. lru \in [1 .. n -> A]
  <2>1. lru = [i \in 1 .. n |-> lru[i]]
    BY SMTT(60), <1>1, <1>2
  <2> QED BY <1>6, <2>1
<1>8. lru \in Injection(1 .. n, A)
  <2>1. \A a, b \in 1 .. n : lru[a] = lru[b] => a = b
    BY <1>2, <1>3 DEF IsInjective
  <2> QED BY <1>7, <2>1 DEF Injection, IsInjective
<1>9. Cardinality(1 .. n) <= Cardinality(A)
  BY <1>5, <1>8, FS_Injection
<1>10. Cardinality(1 .. n) = n
  <2>1. 1 \in Int /\ n \in Int
    BY SMTT(60), <1>3
  <2>2. Cardinality(1 .. n) = IF 1 > n THEN 0 ELSE n - 1 + 1
    BY <2>1, FS_Interval
  <2> QED BY SMTT(60), <1>3, <2>2
<1>11. K \in Nat /\ Cardinality(A) \in Nat
  BY <1>1, <1>5, LimitBounds, FS_CardinalityType
<1>12. n \in Int /\ K - 1 \in Int /\ n <= K - 1
  BY SMTT(60), <1>3, <1>5, <1>9, <1>10, <1>11
<1>13. MaxCost \in Nat /\ \A e \in Entries : ecost[e] <= MaxCost
  BY MaxCostBounds DEF BInv
<1>14. cost <= n * MaxCost
  BY <1>1, <1>2, <1>13, SumsToBound DEF CostInv
<1>15. n * MaxCost <= (K - 1) * MaxCost /\ n * MaxCost \in Int
  BY <1>12, <1>13, Products
<1>16. /\ Limit \in Int /\ 5 * Pinnable <= Limit /\ Pinnable \in Int
       /\ Pinnable = (K - 1) * MaxCost
  BY <1>1, LimitBounds
<1>17. PICK x, y : x = n * MaxCost /\ y = Pinnable
  OBVIOUS
<1>18. cost <= x /\ x <= y /\ x \in Int /\ y \in Int /\ 5 * y <= Limit
  BY <1>14, <1>15, <1>16, <1>17
<1>19. PICK l : l = Limit
  OBVIOUS
<1>20. 5 * cost <= l
  BY SMTT(60), <1>2, <1>16, <1>18, <1>19
<1> QED BY <1>19, <1>20
-----------------------------------------------------------------------------
(* The bound in numbers. *)
LEMMA LessIsBounded ==
  ASSUME NEW x \in Int, NEW y \in Int, NEW m \in Int, NEW l \in Int,
         y <= x, 5 * (x - m) <= l
  PROVE  5 * (y - m) <= l
  BY SMTT(60)

(* The cost stays bounded when it does not grow. *)
LEMMA NoGrowth ==
  ASSUME IsFiniteSet(Threads), BoundedCosts, CostBounded, cost \in Int,
         cost' \in Int, cost' <= cost
  PROVE  CostBounded'
<1>1. MaxCost \in Nat /\ Limit \in Int
  BY MaxCostBounds, LimitBounds
<1>2. PICK m \in Nat, l \in Int : m = MaxCost /\ l = Limit
  BY <1>1
<1>3. 5 * (cost - m) <= l
  BY <1>2 DEF CostBounded, Limit
<1>4. m \in Int
  BY SMTT(60)
<1>5. 5 * (cost' - m) <= l
  BY <1>3, <1>4, LessIsBounded
<1> QED BY <1>2, <1>5 DEF CostBounded, Limit

(* The entry that the collector skips is pinned. *)
LEMMA SkipPinned ==
  ASSUME IInv, NEW t \in Threads, GcSkip(t)
  PROVE  lru[gcpos] \in Pins /\ gcpos \in 1 .. Len(lru)
<1>1. gcpos \in 1 .. Len(lru)
  BY SMTT(60) DEF GcSkip, IInv, TypeOK
<1>2. PICK e : e = lru[gcpos]
  OBVIOUS
<1>3. lru \in Seq(Entries) /\ live = Linked(lru)
  BY DEF IInv, TypeOK, IndexConsistent
<1>4. e \in Entries /\ e \in live
  BY SMTT(60), <1>1, <1>2, <1>3 DEF Linked
<1>5. CASE demoting[e]
  BY <1>1, <1>2, <1>4, <1>5 DEF Pins
<1>6. CASE wr[e] # NoThread
  <2>1. wr[e] \in Threads
    BY <1>4, <1>6 DEF IInv, TypeOK
  <2>2. e \in held[wr[e]]
    BY <1>4, <2>1 DEF IInv, LockOwners
  <2> QED BY <1>1, <1>2, <1>4, <2>1, <2>2 DEF Pins
<1>7. CASE rd[e] # {}
  <2>1. PICK u \in rd[e] : u \in Threads
    BY <1>4, <1>7 DEF IInv, TypeOK
  <2>2. e \in held[u]
    BY <1>4, <2>1 DEF IInv, LockOwners
  <2> QED BY <1>1, <1>2, <1>4, <2>1, <2>2 DEF Pins
<1> QED BY <1>2, <1>5, <1>6, <1>7 DEF GcSkip, CanWrite

(* Skipping it keeps the count. *)
LEMMA SkipStep ==
  ASSUME IsFiniteSet(Threads), BoundedCosts, IInv, IInv', BInv,
         NEW t \in Threads, GcSkip(t)
  PROVE  BInv'
<1> USE DEF heapVars, lockVars
<1>1. /\ UNCHANGED <<mutex, lru, cost, ecost, live, demoting, held, pc>>
      /\ pc[t] = "gc" /\ gcpos' = gcpos + 1
  BY DEF GcSkip
<1>2. lru[gcpos] \in Pins /\ gcpos \in 1 .. Len(lru)
  BY SkipPinned
<1>3. Pins' = Pins
  BY <1>1 DEF Pins
<1>4. Walks
  BY <1>1 DEF BInv
<1>5. Passed' \subseteq Passed \cup Pins
  <2> SUFFICES ASSUME NEW i \in 1 .. gcpos' - 1 PROVE lru[i] \in Passed \cup Pins
    BY <1>1 DEF Passed
  <2>1. i = gcpos \/ i \in 1 .. gcpos - 1
    BY SMTT(60), <1>1, <1>2
  <2> QED BY <1>2, <2>1 DEF Passed
<1>6. gcpos' - 1 <= Len(lru')
  BY SMTT(60), <1>1, <1>2
<1>7. Walks'
  BY <1>3, <1>4, <1>5, <1>6, WalkGoesOn
<1>8. mutex' = t
  BY <1>1 DEF IInv, MutexInv
<1>9. (\A e \in Entries : ecost[e] <= MaxCost)' /\ CostBounded'
  BY <1>1 DEF BInv, CostBounded
<1>10. pc'[t] # "alloc"
  BY <1>1
<1> QED BY <1>7, <1>8, <1>9, <1>10, MutexMine

(* Deleting an entry leaves the ones passed where they are. *)
LEMMA DeleteStep ==
  ASSUME IsFiniteSet(Threads), BoundedCosts, IInv, IInv', BInv,
         NEW t \in Threads, GcDelete(t)
  PROVE  BInv'
<1> USE DEF heapVars, lockVars
<1>1. /\ UNCHANGED <<mutex, ecost, demoting, held, pc, gcpos>>
      /\ pc[t] = "gc" /\ Delete(gcpos)
  BY DEF GcDelete
<1>2. /\ lru \in Seq(Entries) /\ gcpos \in 1 .. Len(lru) /\ Len(lru) \in Nat
      /\ ecost \in [Entries -> Nat] /\ cost \in Int
  BY SMTT(60) DEF GcDelete, IInv, TypeOK
<1>3. PICK e : e = lru[gcpos] /\ e \in Entries
  BY SMTT(60), <1>2
<1>4. /\ lru' = DeleteLink(lru, gcpos) /\ live' = live \ {e}
      /\ cost' = cost - ecost[e]
  BY <1>1, <1>3 DEF Delete
<1>5. /\ Len(lru') = Len(lru) - 1
      /\ \A j \in 1 .. Len(lru) - 1 :
           lru'[j] = IF j < gcpos THEN lru[j] ELSE lru[j + 1]
  BY <1>2, <1>4, DeleteLinkElements
<1>6. Pins' \subseteq Pins
  <2>1. live' \subseteq live /\ \A u \in Threads : held'[u] \subseteq held[u]
    BY <1>1, <1>4
  <2>2. \A x \in live : demoting'[x] => x \in Pins
    BY <1>1 DEF Pins
  <2> QED BY <2>1, <2>2, PinsShrink
<1>7. Passed' \subseteq Passed \cup Pins
  <2> SUFFICES ASSUME NEW i \in 1 .. gcpos - 1 PROVE lru'[i] \in Passed
    BY <1>1 DEF Passed
  <2>1. i \in 1 .. Len(lru) - 1 /\ i < gcpos
    BY SMTT(60), <1>2
  <2>2. lru'[i] = lru[i]
    BY <1>5, <2>1
  <2> QED BY <2>2 DEF Passed
<1>8. gcpos' - 1 <= Len(lru')
  BY SMTT(60), <1>1, <1>2, <1>5
<1>9. Walks
  BY <1>1 DEF BInv
<1>10. Walks'
  BY <1>6, <1>7, <1>8, <1>9, WalkGoesOn
<1>11. cost' \in Int /\ cost' <= cost
  <2>1. ecost[e] \in Nat
    BY <1>2, <1>3
  <2> QED BY SMTT(60), <1>2, <1>4, <2>1
<1>12. CostBounded'
  BY <1>2, <1>11, NoGrowth DEF BInv
<1>13. (\A x \in Entries : ecost[x] <= MaxCost)'
  BY <1>1 DEF BInv
<1>14. mutex' = t /\ pc'[t] # "alloc"
  BY <1>1 DEF IInv, MutexInv
<1> QED BY <1>10, <1>12, <1>13, <1>14, MutexMine

(* The end of a collection. *)
LEMMA DoneStep ==
  ASSUME IsFiniteSet(Threads), BoundedCosts, IInv, CostInv, IInv', BInv,
         NEW t \in Threads, GcDone(t)
  PROVE  BInv'
<1> USE DEF heapVars, lockVars
<1>1. /\ UNCHANGED <<mutex, lru, cost, ecost>> /\ pc[t] = "gc"
      /\ pc' = [pc EXCEPT ![t] = "alloc"]
  BY DEF GcDone
<1>2. Walks
  BY <1>1 DEF BInv
<1>3. 5 * cost <= Limit
  <2>1. CASE gcpos > Len(lru)
    BY <1>2, <2>1, OnlyPinned
  <2>2. CASE UnderFill
    <3>1. PICK l : l = Limit
      OBVIOUS
    <3>2. 4 * Quota <= l /\ l \in Int /\ Quota \in Nat /\ cost \in Int
      BY <3>1, LimitBounds, CacheAssumption DEF IInv, TypeOK
    <3>3. 5 * cost <= l
      BY SMTT(60), <2>2, <3>2 DEF UnderFill
    <3> QED BY <3>1, <3>3
  <2> QED BY <2>1, <2>2 DEF GcDone
<1>4. (5 * cost <= Limit)'
  BY <1>1, <1>3 DEF Limit
<1>5. mutex' = t
  BY <1>1 DEF IInv, MutexInv
<1>6. (\A e \in Entries : ecost[e] <= MaxCost)' /\ CostBounded'
  BY <1>1 DEF BInv, CostBounded
<1>7. pc'[t] # "gc"
  <2>1. pc \in [Threads -> PCs]
    BY DEF IInv, TypeOK
  <2> QED BY <1>1, <2>1
<1> QED BY <1>4, <1>5, <1>6, <1>7, MutexMine

(* A miss starts a collection at the head of the list, or has room. *)
LEMMA MissStep ==
  ASSUME IsFiniteSet(Threads), BoundedCosts, IInv, IInv', BInv, FewPins',
         NEW t \in Threads, GetMiss(t)
  PROVE  BInv'
<1> USE DEF heapVars, lockVars
<1>1. /\ UNCHANGED <<lru, cost, ecost>> /\ mutex' = t /\ gcpos' = 1
      /\ pc' = [pc EXCEPT ![t] = IF OverFill THEN "gc" ELSE "alloc"]
  BY DEF GetMiss
<1>2. pc'[t] = IF OverFill THEN "gc" ELSE "alloc"
  <2>1. pc \in [Threads -> PCs]
    BY DEF IInv, TypeOK
  <2> QED BY <1>1, <2>1
<1>3. (\A e \in Entries : ecost[e] <= MaxCost)' /\ CostBounded'
  BY <1>1 DEF BInv, CostBounded
<1>4. ASSUME pc'[t] = "gc" PROVE Walks'
  <2>1. IsFiniteSet(Pins') /\ Cardinality(Pins') < Cardinality(Threads) * MaxHeld
    BY <1>4 DEF FewPins
  <2>2. Passed' = {}
    <3>1. \A i \in 1 .. gcpos' - 1 : FALSE
      BY SMTT(60), <1>1
    <3> QED BY <3>1 DEF Passed
  <2>3. Passed' \cup Pins' = Pins'
    BY <2>2
  <2>4. gcpos' - 1 <= Len(lru')
    BY SMTT(60), <1>1 DEF IInv, TypeOK
  <2> QED BY <2>1, <2>3, <2>4 DEF Walks
<1>5. ASSUME pc'[t] = "alloc" PROVE (5 * cost <= Limit)'
  <2>1. ~OverFill
    BY <1>2, <1>5
  <2>2. PICK l : l = Limit
    OBVIOUS
  <2>3. 4 * Quota <= l /\ l \in Int /\ Quota \in Nat /\ cost \in Int
    BY <2>2, LimitBounds, CacheAssumption DEF IInv, TypeOK
  <2>4. 5 * cost <= l
    BY SMTT(60), <2>1, <2>3 DEF OverFill
  <2> QED BY <1>1, <2>2, <2>4 DEF Limit
<1> QED BY <1>1, <1>3, <1>4, <1>5, MutexMine

(* The new entry is the one by which the limit may be exceeded. *)
LEMMA AllocStep ==
  ASSUME IsFiniteSet(Threads), BoundedCosts, IInv, IInv', BInv,
         NEW t \in Threads, NEW e \in Entries, NEW c \in Costs, Alloc(t, e, c)
  PROVE  BInv'
<1>1. /\ pc[t] = "alloc" /\ mutex' = NoThread /\ cost' = cost + ecost'[e]
      /\ ecost' = [ecost EXCEPT ![e] = IF HasAllocate THEN c ELSE 1]
  BY DEF Alloc
<1>2. ecost \in [Entries -> Nat] /\ cost \in Int
  BY DEF IInv, TypeOK
<1>3. MaxCost \in Nat /\ 1 <= MaxCost /\ c <= MaxCost /\ c \in Nat
  BY MaxCostBounds, CacheAssumption
<1>4. ecost'[e] \in Nat /\ ecost'[e] <= MaxCost
  BY SMTT(60), <1>1, <1>2, <1>3
<1>5. \A x \in Entries : ecost'[x] <= MaxCost
  <2> SUFFICES ASSUME NEW x \in Entries PROVE ecost'[x] <= MaxCost
    OBVIOUS
  <2>1. x # e => ecost'[x] = ecost[x]
    BY <1>1, <1>2
  <2> QED BY <1>4, <2>1 DEF BInv
<1>6. 5 * cost <= Limit /\ Limit \in Int
  BY <1>1, LimitBounds DEF BInv
<1>7. PICK m, l, x : m = MaxCost /\ l = Limit /\ x = ecost'[e]
  OBVIOUS
<1>8. 5 * (cost' - m) <= l
  BY SMTT(60), <1>1, <1>2, <1>3, <1>4, <1>6, <1>7
<1>9. CostBounded'
  BY <1>7, <1>8 DEF CostBounded, Limit
<1> QED BY <1>1, <1>5, <1>9, MutexFree

(* Every step keeps the bound, as long as few entries are pinned. *)
LEMMA NextBInv ==
  ASSUME IsFiniteSet(Threads), BoundedCosts
  PROVE  IInv /\ IInv' /\ CostInv /\ BInv /\ FewPins' /\ [Next]_vars => BInv'
<1> SUFFICES ASSUME IInv, IInv', CostInv, BInv, FewPins', [Next]_vars PROVE BInv'
  OBVIOUS
<1> USE DEF heapVars, lockVars
<1>0. /\ pc \in [Threads -> PCs] /\ held \in [Threads -> SUBSET Entries]
      /\ demoting \in [Entries -> BOOLEAN] /\ cost \in Int /\ cost' \in Int
      /\ ecost \in [Entries -> Nat] /\ live \subseteq Entries
  BY DEF IInv, TypeOK
<1>1. ASSUME UNCHANGED <<lru, cost, ecost, gcpos, live, demoting, held>>,
             \A t \in Threads : pc'[t] \in {"gc", "alloc"} => pc'[t] = pc[t]
      PROVE  BInv'
  <2>1. Pins' \subseteq Pins
    BY <1>1 DEF Pins
  <2> QED BY <1>1, <2>1, QuietStep
<1>2. ASSUME mutex' = NoThread, UNCHANGED <<ecost, cost>> PROVE BInv'
  <2>1. (\A e \in Entries : ecost[e] <= MaxCost)' /\ CostBounded'
    BY <1>2 DEF BInv, CostBounded
  <2> QED BY <1>2, <2>1, MutexFree
<1>3. ASSUME NEW t \in Threads, NEW k \in Keys, NEW m \in Modes,
             CallGet(t, k, m) \/ TestGet(t, k, m)
      PROVE  BInv'
  <2>1. CASE CallGet(t, k, m)
    <3>1. \A u \in Threads : pc'[u] \in {"gc", "alloc"} => pc'[u] = pc[u]
      BY <1>0, <2>1 DEF CallGet, Call
    <3> QED BY <1>1, <2>1, <3>1 DEF CallGet, Call
  <2>2. CASE TestGet(t, k, m)
    BY <1>2, <2>2 DEF TestGet
  <2> QED BY <1>3, <2>1, <2>2
<1>4. ASSUME NEW t \in Threads, NEW k \in Keys, CallRemove(t, k) PROVE BInv'
  <2>1. \A u \in Threads : pc'[u] \in {"gc", "alloc"} => pc'[u] = pc[u]
    BY <1>0, <1>4 DEF CallRemove, Call
  <2> QED BY <1>1, <1>4, <2>1 DEF CallRemove, Call
<1>5. ASSUME NEW t \in Threads, NEW e \in Entries, Release(t, e) PROVE BInv'
  <2>1. /\ UNCHANGED <<lru, cost, ecost, gcpos, live, demoting, pc>>
        /\ held' = [held EXCEPT ![t] = @ \ {e}]
    BY <1>5 DEF Release
  <2>2. \A u \in Threads : held'[u] \subseteq held[u]
    BY <1>0, <2>1
  <2>3. live' \subseteq live /\ \A x \in live : demoting'[x] => x \in Pins
    BY <2>1 DEF Pins
  <2>4. Pins' \subseteq Pins
    BY <2>2, <2>3, PinsShrink
  <2>5. \A u \in Threads : pc'[u] \in {"gc", "alloc"} => pc'[u] = pc[u]
    BY <2>1
  <2> QED BY <2>1, <2>4, <2>5, QuietStep
<1>6. ASSUME NEW t \in Threads, NEW e \in Entries, NEW b \in BOOLEAN,
             SetDemoting(t, e, b)
      PROVE  BInv'
  <2>1. /\ UNCHANGED <<lru, cost, ecost, gcpos, live, held, pc>>
        /\ demoting' = [demoting EXCEPT ![e] = b] /\ e \in held[t]
    BY <1>6 DEF SetDemoting
  <2>2. ASSUME NEW x \in live, demoting'[x] PROVE x \in Pins
    <3>1. CASE x = e
      BY <2>1, <3>1 DEF Pins
    <3>2. CASE x # e
      <4>1. demoting[x]
        BY <1>0, <2>1, <2>2, <3>2
      <4> QED BY <4>1 DEF Pins
    <3> QED BY <3>1, <3>2
  <2>3. live' \subseteq live /\ \A u \in Threads : held'[u] \subseteq held[u]
    BY <2>1
  <2>4. Pins' \subseteq Pins
    BY <2>2, <2>3, PinsShrink
  <2>5. \A u \in Threads : pc'[u] \in {"gc", "alloc"} => pc'[u] = pc[u]
    BY <2>1
  <2> QED BY <2>1, <2>4, <2>5, QuietStep
<1>7. ASSUME NEW t \in Threads, GetFound(t) PROVE BInv'
  BY <1>2, <1>7 DEF GetFound
<1>8. ASSUME NEW t \in Threads, RemoveMiss(t) PROVE BInv'
  BY <1>2, <1>8 DEF RemoveMiss
<1>9. ASSUME NEW t \in Threads, RemoveFound(t) PROVE BInv'
  <2>1. PICK e : e = table[arg[t].k]
    OBVIOUS
  <2>2. e \in live
    BY <1>9, <2>1 DEF RemoveFound, IInv, TypeOK, IndexConsistent
  <2>3. lru[Position(e)] = e /\ e \in Entries
    BY <1>0, <2>2, PositionFound DEF IInv
  <2>4. /\ mutex' = NoThread /\ UNCHANGED ecost /\ cost' = cost - ecost[e]
    BY <1>9, <2>1, <2>3 DEF RemoveFound, Delete
  <2>5. cost' <= cost
    <3>1. ecost[e] \in Nat
      BY <1>0, <2>3
    <3> QED BY SMTT(60), <1>0, <2>4, <3>1
  <2>6. CostBounded'
    BY <1>0, <2>5, NoGrowth DEF BInv
  <2>7. (\A x \in Entries : ecost[x] <= MaxCost)'
    BY <2>4 DEF BInv
  <2> QED BY <2>4, <2>6, <2>7, MutexFree
<1>10. ASSUME NEW t \in Threads, CacheStep(t) PROVE BInv'
  BY <1>7, <1>8, <1>9, <1>10, MissStep, SkipStep, DeleteStep, DoneStep, AllocStep
  DEF CacheStep
<1>11. CASE UNCHANGED vars
  <2>1. UNCHANGED <<lru, cost, ecost, gcpos, live, demoting, held, pc>>
    BY <1>11 DEF vars
  <2>2. \A u \in Threads : pc'[u] \in {"gc", "alloc"} => pc'[u] = pc[u]
    BY <2>1
  <2> QED BY <1>1, <2>1, <2>2
<1>12. CASE Next
  <2>1. PICK t \in Threads : ThreadNext(t)
    BY <1>12 DEF Next
  <2> QED BY <2>1, <1>3, <1>4, <1>5, <1>6, <1>10 DEF ThreadNext
<1> QED BY <1>11, <1>12

(* The bound holds of the empty cache. *)
LEMMA InitBInv ==
  ASSUME IsFiniteSet(Threads), BoundedCosts
  PROVE  Init => BInv
<1> SUFFICES ASSUME Init PROVE BInv
  OBVIOUS
<1>1. MaxCost \in Nat /\ Limit \in Int /\ 4 * Quota <= Limit /\ Quota \in Nat
  BY MaxCostBounds, LimitBounds, CacheAssumption
<1>2. PICK m \in Nat, l \in Int : m = MaxCost /\ l = Limit /\ 4 * Quota <= l
  BY <1>1
<1>3. 5 * (0 - m) <= l
  BY SMTT(60), <1>1, <1>2
<1>4. CostBounded
  BY <1>2, <1>3 DEF CostBounded, Limit, Init
<1>5. \A e \in Entries : ecost[e] <= MaxCost
  <2>1. 0 <= MaxCost
    BY SMTT(60), <1>1
  <2> QED BY <2>1 DEF Init
<1>6. \A t \in Threads : pc[t] = "idle"
  BY DEF Init
<1> QED BY <1>4, <1>5, <1>6 DEF BInv
-----------------------------------------------------------------------------
(* Two finite sets together have no more elements than each for itself. *)
LEMMA UnionCount ==
  ASSUME NEW A, NEW B, IsFiniteSet(A), IsFiniteSet(B)
  PROVE  /\ IsFiniteSet(A \cup B)
         /\ Cardinality(A \cup B) <= Cardinality(A) + Cardinality(B)
<1>1. /\ IsFiniteSet(A \cup B)
      /\ Cardinality(A \cup B)
           = Cardinality(A) + Cardinality(B) - Cardinality(A \cap B)
  BY FS_Union
<1>2. A \cap B \in SUBSET A
  OBVIOUS
<1>3. IsFiniteSet(A \cap B)
  BY <1>2, FS_Subset
<1>4. PICK a, b, c, d : /\ a = Cardinality(A) /\ b = Cardinality(B)
                        /\ c = Cardinality(A \cap B) /\ d = Cardinality(A \cup B)
  OBVIOUS
<1>5. a \in Nat /\ b \in Nat /\ c \in Nat /\ d = a + b - c
  BY <1>1, <1>3, <1>4, FS_CardinalityType
<1>6. d <= a + b
  BY SMTT(60), <1>5
<1> QED BY <1>1, <1>4, <1>6

(* The entries in the hands of threads; a thread with a call under way has  *)
(* a hand free.                                                             *)
InHands(T) == UNION {held[t] : t \in T}
Hands ==
  \A t \in Threads :
    /\ IsFiniteSet(held[t]) /\ Cardinality(held[t]) <= MaxHeld
    /\ pc[t] # "idle" => Cardinality(held[t]) < MaxHeld

(* The entries in the hands of k threads are at most k times MaxHeld. *)
LEMMA HandsCount ==
  ASSUME Hands, NEW T \in SUBSET Threads, IsFiniteSet(T)
  PROVE  IsFiniteSet(InHands(T)) /\ Cardinality(InHands(T)) <= Cardinality(T) * MaxHeld
<1> DEFINE Good(U) == /\ IsFiniteSet(InHands(U))
                      /\ Cardinality(InHands(U)) <= Cardinality(U) * MaxHeld
           Bad == {n \in Nat : \E U \in SUBSET Threads :
                     IsFiniteSet(U) /\ Cardinality(U) = n /\ ~Good(U)}
<1> HIDE DEF Good
<1>1. Bad = {}
  <2> SUFFICES ASSUME Bad # {} PROVE FALSE
    OBVIOUS
  <2>1. Bad \subseteq Nat
    OBVIOUS
  <2>2. PICK n \in Bad : \A y \in Bad : n <= y
    BY <2>1, LeastElement
  <2> HIDE DEF Good
  <2>3. PICK U \in SUBSET Threads : IsFiniteSet(U) /\ Cardinality(U) = n /\ ~Good(U)
    BY <2>2
  <2>4. n \in Nat /\ MaxHeld \in Nat
    BY <2>2, CacheAssumption
  <2>5. CASE U = {}
    <3>1. InHands(U) = {}
      BY <2>5 DEF InHands
    <3>2. n = 0 /\ 0 * MaxHeld = 0 /\ 0 <= 0
      <4>1. Cardinality(U) = 0
        BY <2>5, FS_EmptySet
      <4> QED BY SMTT(60), <2>3, <2>4, <4>1
    <3>3. Good(U)
      BY <2>3, <3>1, <3>2, FS_EmptySet DEF Good
    <3> QED BY <2>3, <3>3
  <2>6. CASE U # {}
    <3>1. PICK t \in U : t \in Threads
      BY <2>6
    <3>2. PICK V : V = U \ {t}
      OBVIOUS
    <3>3. V \in SUBSET Threads /\ IsFiniteSet(V) /\ Cardinality(V) = n - 1
      BY <2>3, <3>1, <3>2, FS_RemoveElement
    <3>4. Cardinality(V) \in Nat
      BY <3>3, FS_CardinalityType
    <3>5. n - 1 \in Nat /\ ~(n <= n - 1)
      BY SMTT(60), <2>4, <3>3, <3>4
    <3>6. Good(V)
      BY <2>2, <3>3, <3>5
    <3>7. InHands(U) = InHands(V) \cup held[t]
      BY <3>1, <3>2 DEF InHands
    <3>8. IsFiniteSet(held[t]) /\ Cardinality(held[t]) <= MaxHeld
      BY <3>1 DEF Hands
    <3>9. PICK A, B : A = InHands(V) /\ B = held[t]
      OBVIOUS
    <3>10. IsFiniteSet(A) /\ Cardinality(A) <= (n - 1) * MaxHeld
      BY <3>3, <3>6, <3>9 DEF Good
    <3>11. IsFiniteSet(B) /\ Cardinality(B) <= MaxHeld
      BY <3>8, <3>9
    <3>12. IsFiniteSet(A \cup B) /\ Cardinality(A \cup B) <= Cardinality(A) + Cardinality(B)
      BY <3>10, <3>11, UnionCount
    <3>13. /\ Cardinality(A) \in Nat /\ Cardinality(B) \in Nat
           /\ Cardinality(A \cup B) \in Nat
      BY <3>10, <3>11, <3>12, FS_CardinalityType
    <3>14. PICK j \in Nat : j = n - 1 /\ n = j + 1
      BY SMTT(60), <2>4, <3>5
    <3>15. (j + 1) * MaxHeld = j * MaxHeld + MaxHeld /\ j * MaxHeld \in Int
      <4>1. j \in Int /\ j <= j
        BY SMTT(60), <3>14
      <4> QED BY <2>4, <4>1, Products
    <3>16. PICK y \in Int : y = j * MaxHeld /\ n * MaxHeld = y + MaxHeld
      BY <3>14, <3>15
    <3>17. Cardinality(A) <= y
      BY <3>10, <3>14, <3>16
    <3>18. Cardinality(A \cup B) <= y + MaxHeld
      BY SMTT(60), <2>4, <3>11, <3>12, <3>13, <3>16, <3>17
    <3>19. Good(U)
      BY <2>3, <3>7, <3>9, <3>12, <3>16, <3>18 DEF Good
    <3> QED BY <2>3, <3>19
  <2> QED BY <2>5, <2>6
<1>2. Cardinality(T) \in Nat
  BY FS_CardinalityType
<1>3. Good(T)
  BY <1>1, <1>2
<1> QED BY <1>3 DEF Good

(* No client demotes a lock. *)
NobodyDemotes == \A e \in Entries : ~demoting[e]

(* Then a thread that collects has a hand free for the entry it wants. *)
LEMMA HandsPin ==
  ASSUME IsFiniteSet(Threads), IInv, Hands, NobodyDemotes
  PROVE  FewPins
<1> SUFFICES ASSUME NEW t \in Threads, pc[t] = "gc"
             PROVE  /\ IsFiniteSet(Pins)
                    /\ Cardinality(Pins) < Cardinality(Threads) * MaxHeld
  BY DEF FewPins
<1>1. PICK V : V = Threads \ {t}
  OBVIOUS
<1>2. /\ V \in SUBSET Threads /\ IsFiniteSet(V)
      /\ Cardinality(V) = Cardinality(Threads) - 1
  BY <1>1, FS_RemoveElement
<1>3. PICK A, B : A = InHands(V) /\ B = held[t]
  OBVIOUS
<1>4. IsFiniteSet(A) /\ Cardinality(A) <= Cardinality(V) * MaxHeld
  BY <1>2, <1>3, HandsCount
<1>5. IsFiniteSet(B) /\ Cardinality(B) < MaxHeld
  BY <1>3 DEF Hands
<1>6. IsFiniteSet(A \cup B) /\ Cardinality(A \cup B) <= Cardinality(A) + Cardinality(B)
  BY <1>4, <1>5, UnionCount
<1>7. Pins \in SUBSET (A \cup B)
  <2> SUFFICES ASSUME NEW e \in Pins PROVE e \in A \cup B
    OBVIOUS
  <2>1. e \in Entries
    BY DEF Pins, IInv, TypeOK
  <2>2. PICK u \in Threads : e \in held[u]
    BY <2>1 DEF Pins, NobodyDemotes
  <2> QED BY <1>1, <1>3, <2>2 DEF InHands
<1>8. IsFiniteSet(Pins) /\ Cardinality(Pins) <= Cardinality(A \cup B)
  BY <1>6, <1>7, FS_Subset
<1>9. /\ Cardinality(A) \in Nat /\ Cardinality(B) \in Nat /\ MaxHeld \in Nat
      /\ Cardinality(A \cup B) \in Nat /\ Cardinality(Pins) \in Nat
      /\ Cardinality(V) \in Nat /\ Cardinality(Threads) \in Nat
  BY <1>2, <1>4, <1>5, <1>6, <1>8, FS_CardinalityType, CacheAssumption
<1>10. PICK j \in Nat : j = Cardinality(V) /\ Cardinality(Threads) = j + 1
  BY SMTT(60), <1>2, <1>9
<1>11. (j + 1) * MaxHeld = j * MaxHeld + MaxHeld /\ j * MaxHeld \in Int
  <2>1. j \in Int /\ j <= j
    BY SMTT(60), <1>10
  <2> QED BY <1>9, <2>1, Products
<1>12. PICK y \in Int : /\ y = j * MaxHeld
                        /\ Cardinality(Threads) * MaxHeld = y + MaxHeld
  BY <1>10, <1>11
<1>13. Cardinality(A) <= y
  BY <1>4, <1>10, <1>12
<1>14. Cardinality(Pins) < y + MaxHeld
  BY SMTT(60), <1>5, <1>6, <1>8, <1>9, <1>12, <1>13
<1> QED BY <1>8, <1>12, <1>14

(* A call is made with a hand free, and fills it when it returns. *)
LEMMA NextHands == IInv /\ Hands /\ [Next]_vars => Hands'
<1> SUFFICES ASSUME IInv, Hands, [Next]_vars PROVE Hands'
  OBVIOUS
<1> USE DEF heapVars, lockVars
<1>0. pc \in [Threads -> PCs] /\ held \in [Threads -> SUBSET Entries]
  BY DEF IInv, TypeOK
<1>1. ASSUME UNCHANGED held,
             \A u \in Threads : pc'[u] # "idle" =>
               pc[u] # "idle" \/ Cardinality(held[u]) < MaxHeld
      PROVE  Hands'
  BY <1>1 DEF Hands
<1>2. ASSUME NEW t \in Threads, NEW e, NEW m, Lock(t, e, m),
             Cardinality(held[t]) < MaxHeld, pc'[t] = "idle",
             \A u \in Threads \ {t} : pc'[u] = pc[u]
      PROVE  Hands'
  <2> SUFFICES ASSUME NEW u \in Threads
               PROVE  /\ IsFiniteSet(held'[u]) /\ Cardinality(held'[u]) <= MaxHeld
                      /\ pc'[u] # "idle" => Cardinality(held'[u]) < MaxHeld
    BY DEF Hands
  <2>1. held' = [held EXCEPT ![t] = @ \cup {e}]
    BY <1>2 DEF Lock
  <2>2. CASE u = t
    <3>1. held'[u] = held[t] \cup {e}
      BY <1>0, <2>1, <2>2
    <3>2. IsFiniteSet(held[t])
      BY DEF Hands
    <3>3. PICK A, B : A = held[t] /\ B = held[t] \cup {e}
      OBVIOUS
    <3>4. IsFiniteSet(A)
      BY <3>2, <3>3
    <3>5. IsFiniteSet(B) /\ (Cardinality(B) = Cardinality(A) \/ Cardinality(B) = Cardinality(A) + 1)
      BY <3>3, <3>4, FS_AddElement
    <3>6. Cardinality(A) \in Nat /\ Cardinality(A) < MaxHeld /\ MaxHeld \in Nat
      BY <1>2, <3>3, <3>4, FS_CardinalityType, CacheAssumption
    <3>7. Cardinality(B) <= MaxHeld
      BY SMTT(60), <3>5, <3>6
    <3> QED BY <1>2, <2>2, <3>1, <3>3, <3>5, <3>7
  <2>3. CASE u # t
    <3>1. held'[u] = held[u] /\ pc'[u] = pc[u]
      BY <1>0, <1>2, <2>1, <2>3
    <3> QED BY <3>1 DEF Hands
  <2> QED BY <2>2, <2>3
<1>3. ASSUME NEW t \in Threads, NEW k \in Keys, NEW m \in Modes, TestGet(t, k, m)
      PROVE  Hands'
  <2>1. Cardinality(held[t]) < MaxHeld /\ pc[t] = "idle" /\ pc' = pc
    BY <1>3 DEF TestGet, MayCall
  <2>2. CASE table[k] # NoEntry /\ CanLock(table[k], m)
    <3>1. Lock(t, table[k], m)
      BY <1>3, <2>2 DEF TestGet
    <3> QED BY <1>2, <2>1, <3>1
  <2>3. CASE ~(table[k] # NoEntry /\ CanLock(table[k], m))
    <3>1. UNCHANGED held
      BY <1>3, <2>3 DEF TestGet
    <3> QED BY <1>1, <2>1, <3>1
  <2> QED BY <2>2, <2>3
<1>4. ASSUME NEW t \in Threads, NEW k \in Keys, NEW m, NEW p,
             MayCall(t, k) /\ Call(t, p, k, m)
      PROVE  Hands'
  <2>1. Cardinality(held[t]) < MaxHeld
    BY <1>4 DEF MayCall
  <2>2. UNCHANGED held /\ pc' = [pc EXCEPT ![t] = p]
    BY <1>4 DEF Call
  <2>3. \A u \in Threads : u # t => pc'[u] = pc[u]
    BY <1>0, <2>2
  <2> QED BY <1>1, <2>1, <2>2, <2>3
<1>5. ASSUME NEW t \in Threads, GetFound(t) PROVE Hands'
  <2>1. pc[t] = "get" /\ pc' = [pc EXCEPT ![t] = "idle"]
        /\ Lock(t, table[arg[t].k], arg[t].m)
    BY <1>5 DEF GetFound
  <2>2. pc'[t] = "idle" /\ \A u \in Threads \ {t} : pc'[u] = pc[u]
    BY <1>0, <2>1
  <2>3. pc[t] # "idle"
    BY <2>1
  <2>4. Cardinality(held[t]) < MaxHeld
    BY <2>3 DEF Hands
  <2> QED BY <1>2, <2>1, <2>2, <2>4
<1>6. ASSUME NEW t \in Threads, NEW e \in Entries, NEW c \in Costs, Alloc(t, e, c)
      PROVE  Hands'
  <2>1. pc[t] = "alloc" /\ pc' = [pc EXCEPT ![t] = "idle"]
        /\ Lock(t, e, IF HasAllocate THEN "w" ELSE arg[t].m)
    BY <1>6 DEF Alloc
  <2>2. pc'[t] = "idle" /\ \A u \in Threads \ {t} : pc'[u] = pc[u]
    BY <1>0, <2>1
  <2>3. pc[t] # "idle"
    BY <2>1
  <2>4. Cardinality(held[t]) < MaxHeld
    BY <2>3 DEF Hands
  <2> QED BY <1>2, <2>1, <2>2, <2>4
<1>7. ASSUME NEW t \in Threads, NEW e \in Entries, Release(t, e) PROVE Hands'
  <2> SUFFICES ASSUME NEW u \in Threads
               PROVE  /\ IsFiniteSet(held'[u]) /\ Cardinality(held'[u]) <= MaxHeld
                      /\ pc'[u] # "idle" => Cardinality(held'[u]) < MaxHeld
    BY DEF Hands
  <2>1. held' = [held EXCEPT ![t] = @ \ {e}] /\ pc' = pc
    BY <1>7 DEF Release
  <2>2. PICK A, B : A = held[u] /\ B = held'[u]
    OBVIOUS
  <2>3. B \in SUBSET A
    BY <1>0, <2>1, <2>2
  <2>4. IsFiniteSet(A) /\ Cardinality(A) <= MaxHeld /\ (pc[u] # "idle" => Cardinality(A) < MaxHeld)
    BY <2>2 DEF Hands
  <2>5. IsFiniteSet(B) /\ Cardinality(B) <= Cardinality(A)
    BY <2>3, <2>4, FS_Subset
  <2>6. Cardinality(A) \in Nat /\ Cardinality(B) \in Nat /\ MaxHeld \in Nat
    BY <2>4, <2>5, FS_CardinalityType, CacheAssumption
  <2>7. Cardinality(B) <= MaxHeld /\ (Cardinality(A) < MaxHeld => Cardinality(B) < MaxHeld)
    BY SMTT(60), <2>4, <2>5, <2>6
  <2> QED BY <2>1, <2>2, <2>4, <2>5, <2>7
<1>8. ASSUME NEW t \in Threads, NEW p, UNCHANGED held, pc[t] # "idle",
             pc' = [pc EXCEPT ![t] = p]
      PROVE  Hands'
  <2>1. \A u \in Threads : u # t => pc'[u] = pc[u]
    BY <1>0, <1>8
  <2> QED BY <1>1, <1>8, <2>1
<1>9. ASSUME NEW t \in Threads, CacheStep(t) PROVE Hands'
  <2>1. CASE GetMiss(t)
    <3>1. pc[t] # "idle"
      BY <2>1 DEF GetMiss
    <3> QED BY <1>8, <2>1, <3>1 DEF GetMiss
  <2>2. CASE GcDone(t)
    <3>1. pc[t] # "idle"
      BY <2>2 DEF GcDone
    <3> QED BY <1>8, <2>2, <3>1 DEF GcDone
  <2>3. CASE GcSkip(t) \/ GcDelete(t)
    <3>1. UNCHANGED <<held, pc>>
      BY <2>3 DEF GcSkip, GcDelete
    <3> QED BY <1>1, <3>1
  <2>4. CASE RemoveMiss(t)
    <3>1. pc[t] # "idle"
      BY <2>4 DEF RemoveMiss
    <3> QED BY <1>8, <2>4, <3>1 DEF RemoveMiss
  <2>5. CASE RemoveFound(t)
    <3>1. pc[t] # "idle"
      BY <2>5 DEF RemoveFound
    <3> QED BY <1>8, <2>5, <3>1 DEF RemoveFound
  <2> QED BY <1>5, <1>6, <1>9, <2>1, <2>2, <2>3, <2>4, <2>5 DEF CacheStep
<1>10. ASSUME UNCHANGED <<held, pc>> PROVE Hands'
  BY <1>1, <1>10
<1>11. CASE UNCHANGED vars
  BY <1>10, <1>11 DEF vars
<1>12. CASE Next
  <2>1. PICK t \in Threads : ThreadNext(t)
    BY <1>12 DEF Next
  <2>2. ASSUME NEW e \in Entries, NEW b \in BOOLEAN, SetDemoting(t, e, b)
        PROVE  Hands'
    BY <1>10, <2>2 DEF SetDemoting
  <2> QED
    BY <2>1, <2>2, <1>3, <1>4, <1>7, <1>9 DEF ThreadNext, CallGet, CallRemove
<1> QED BY <1>11, <1>12

(* The overrun of the quota is bounded for every client that keeps fewer    *)
(* entries pinned than its threads may pin while one of them collects,      *)
(* whether it demotes locks or not.                                         *)
THEOREM FewPinsBounded ==
  ASSUME IsFiniteSet(Threads), BoundedCosts
  PROVE  Spec /\ []FewPins => []CostBounded
<1>1. Init => BInv
  BY InitBInv
<1>2. IInv /\ IInv' /\ CostInv /\ BInv /\ FewPins' /\ [Next]_vars => BInv'
  BY NextBInv
<1>3. BInv => CostBounded
  BY DEF BInv
<1> QED BY <1>1, <1>2, <1>3, InitCostInv, NextCostInv, InitIInv, NextIInv, PTL DEF Spec

(* The overrun of the quota is bounded for every client that never demotes  *)
(* a lock, as the image cache.                                              *)
THEOREM QuotaOverrunBounded ==
  ASSUME IsFiniteSet(Threads), BoundedCosts
  PROVE  Spec /\ []NobodyDemotes => []CostBounded
<1>1. Init => Hands
  <2> SUFFICES ASSUME Init, NEW t \in Threads
               PROVE  /\ IsFiniteSet(held[t]) /\ Cardinality(held[t]) <= MaxHeld
                      /\ pc[t] = "idle"
    BY DEF Hands
  <2>1. held[t] = {} /\ pc[t] = "idle"
    BY DEF Init
  <2>2. IsFiniteSet(held[t]) /\ Cardinality(held[t]) = 0
    BY <2>1, FS_EmptySet
  <2>3. 0 <= MaxHeld
    BY SMTT(60), CacheAssumption
  <2> QED BY <2>1, <2>2, <2>3
<1>2. IInv /\ Hands /\ NobodyDemotes => FewPins
  BY HandsPin
<1> QED BY <1>1, <1>2, NextHands, InvariantHolds, InitIInv, NextIInv, FewPinsBounded, PTL DEF Spec
-----------------------------------------------------------------------------
(* The steps that leave hashtable and entry locks alone are stuttering     *)
(* steps of the abstract cache.                                            *)
LEMMA StutterMaps ==
  ASSUME UNCHANGED <<table, wr, rd>>
  PROVE  UNCHANGED Locks!vars
  BY DEF Locks!vars, KeyPresent, KeyWriter, KeyReaders

(* A function that differs from f at k only, where it is v. *)
LEMMA UpdatedAt ==
  ASSUME NEW S, NEW f, f = [x \in S |-> f[x]], NEW g, g = [x \in S |-> g[x]],
         NEW k \in S, NEW v, g[k] = v, \A j \in S : j # k => g[j] = f[j]
  PROVE  g = [f EXCEPT ![k] = v]
  OBVIOUS

(* The abstract locks of two states, key by key. *)
LEMMA LocksPointwise ==
  /\ KeyWriter = [k \in Keys |-> KeyWriter[k]]
  /\ KeyReaders = [k \in Keys |-> KeyReaders[k]]
  /\ KeyWriter' = [k \in Keys |-> KeyWriter'[k]]
  /\ KeyReaders' = [k \in Keys |-> KeyReaders'[k]]
  BY DEF KeyWriter, KeyReaders

(* Locking the entry of a cached key takes the abstract lock of that key:  *)
(* no other key has that entry.                                            *)
LEMMA LockMaps ==
  ASSUME IInv, NEW t \in Threads, NEW k \in Keys, NEW m \in Modes,
         table[k] # NoEntry, CanLock(table[k], m), Lock(t, table[k], m),
         UNCHANGED table
  PROVE  Locks!Write(t, k) \/ Locks!Read(t, k)
<1> DEFINE e == table[k]
<1>1. e \in Entries /\ \A j \in Keys : j # k => table[j] # e
  BY DEF IInv, TypeOK, IndexConsistent
<1>2. KeyPresent' = KeyPresent /\ KeyPresent = KeyPresent \cup {k}
  BY DEF KeyPresent
<1>3. CASE m = "w"
  <2>1. wr' = [wr EXCEPT ![e] = t] /\ rd' = rd /\ wr[e] = NoThread /\ rd[e] = {}
    BY <1>3 DEF CanLock, CanWrite, Lock
  <2>2. KeyWriter' = [KeyWriter EXCEPT ![k] = t] /\ KeyReaders' = KeyReaders
    <3>1. KeyWriter'[k] = t /\ \A j \in Keys : j # k => KeyWriter'[j] = KeyWriter[j]
      BY <1>1, <2>1 DEF KeyWriter, IInv, TypeOK
    <3>2. KeyReaders' = KeyReaders
      BY <2>1 DEF KeyReaders
    <3>3. KeyWriter' = [KeyWriter EXCEPT ![k] = t]
      BY <3>1, LocksPointwise, UpdatedAt
    <3> QED BY <3>2, <3>3
  <2>3. KeyWriter[k] = NoThread /\ KeyReaders[k] = {}
    BY <2>1 DEF KeyWriter, KeyReaders
  <2> QED
    BY <1>2, <2>2, <2>3 DEF Locks!Write, Locks!Free
<1>4. CASE m # "w"
  <2>1. rd' = [rd EXCEPT ![e] = @ \cup {t}] /\ wr' = wr /\ wr[e] = NoThread
    BY <1>4 DEF CanLock, CanRead, Lock
  <2>2. KeyReaders' = [KeyReaders EXCEPT ![k] = KeyReaders[k] \cup {t}]
        /\ KeyWriter' = KeyWriter
    <3>1. /\ KeyReaders'[k] = KeyReaders[k] \cup {t}
          /\ \A j \in Keys : j # k => KeyReaders'[j] = KeyReaders[j]
      BY <1>1, <2>1 DEF KeyReaders, IInv, TypeOK
    <3>2. KeyWriter' = KeyWriter
      BY <2>1 DEF KeyWriter
    <3>3. KeyReaders' = [KeyReaders EXCEPT ![k] = KeyReaders[k] \cup {t}]
      BY <3>1, LocksPointwise, UpdatedAt
    <3> QED BY <3>2, <3>3
  <2>3. KeyWriter[k] = NoThread
    BY <2>1 DEF KeyWriter
  <2> QED
    BY <1>2, <2>2, <2>3 DEF Locks!Read
<1> QED BY <1>3, <1>4

(* Deleting an unlocked entry forgets a key that nobody holds. *)
LEMMA DeleteMaps ==
  ASSUME IInv, NEW i \in 1 .. Len(lru), CanWrite(lru[i]), Delete(i),
         UNCHANGED lockVars
  PROVE  \E k \in Keys : Locks!Forget(k)
<1> DEFINE e == lru[i]
           k == key[e]
<1>1. e \in Entries /\ e \in live /\ k \in Keys /\ table[k] = e
  BY SMTT(60) DEF IInv, TypeOK, IndexConsistent, Linked
<1>2. /\ table' = [table EXCEPT ![k] = NoEntry] /\ wr' = wr /\ rd' = rd
      /\ wr[e] = NoThread /\ rd[e] = {}
  BY DEF Delete, CanWrite, lockVars
<1>3. KeyPresent' = KeyPresent \ {k} /\ k \in KeyPresent
  BY <1>1, <1>2, CacheAssumption DEF KeyPresent, IInv, TypeOK
<1>4. KeyWriter' = KeyWriter /\ KeyReaders' = KeyReaders
  <2>1. ASSUME NEW j \in Keys
        PROVE  KeyWriter'[j] = KeyWriter[j] /\ KeyReaders'[j] = KeyReaders[j]
    <3>1. CASE j = k
      <4>1. table'[j] = NoEntry /\ table[j] = e
        BY <1>1, <1>2, <3>1 DEF IInv, TypeOK
      <4> QED BY <1>2, <4>1 DEF KeyWriter, KeyReaders
    <3>2. CASE j # k
      <4>1. table'[j] = table[j]
        BY <1>2, <3>2 DEF IInv, TypeOK
      <4> QED BY SMTT(60), <1>2, <4>1 DEF KeyWriter, KeyReaders
    <3> QED BY <3>1, <3>2
  <2> QED BY <2>1, LocksPointwise
<1>5. KeyWriter[k] = NoThread /\ KeyReaders[k] = {}
  BY <1>1, <1>2 DEF KeyWriter, KeyReaders
<1> QED
  BY <1>1, <1>3, <1>4, <1>5 DEF Locks!Forget, Locks!Free

(* Inserting a new entry for a key that is not cached takes its lock. *)
LEMMA AllocMaps ==
  ASSUME IInv, NEW t \in Threads, NEW e \in Entries, NEW c \in Costs,
         Alloc(t, e, c)
  PROVE  \E k \in Keys : Locks!Write(t, k) \/ Locks!Read(t, k)
<1> DEFINE k == arg[t].k
           m == IF HasAllocate THEN "w" ELSE arg[t].m
<1>1. /\ k \in Keys /\ table[k] = NoEntry /\ e # NoEntry
      /\ wr[e] = NoThread /\ rd[e] = {}
  BY SMTT(60), CacheAssumption
  DEF Alloc, IInv, TypeOK, MissStillMissing, LockOwners, HeldAlive
<1>2. table' = [table EXCEPT ![k] = e] /\ Lock(t, e, m)
  BY DEF Alloc
<1>3. \A j \in Keys : table[j] # e
  BY <1>1 DEF Alloc, IInv, IndexConsistent
<1> HIDE DEF k, m
<1>8. table'[k] = e /\ \A j \in Keys : j # k => table'[j] = table[j]
  BY <1>1, <1>2 DEF IInv, TypeOK
<1>4. KeyPresent' = KeyPresent \cup {k}
  BY <1>1, <1>2 DEF KeyPresent, IInv, TypeOK
<1>5. KeyWriter[k] = NoThread /\ KeyReaders[k] = {}
  BY <1>1 DEF KeyWriter, KeyReaders
<1>6. CASE m = "w"
  <2>1. wr' = [wr EXCEPT ![e] = t] /\ rd' = rd
    BY <1>2, <1>6 DEF Lock
  <2>2. /\ KeyWriter'[k] = t
        /\ \A j \in Keys : j # k => KeyWriter'[j] = KeyWriter[j]
        /\ \A j \in Keys : KeyReaders'[j] = KeyReaders[j]
    <3>1. KeyWriter'[k] = t /\ KeyReaders'[k] = KeyReaders[k]
      <4>1. wr'[e] = t /\ rd'[e] = {}
        BY <1>1, <2>1 DEF IInv, TypeOK
      <4>2. KeyWriter'[k] = wr'[e] /\ KeyReaders'[k] = rd'[e]
        BY <1>1, <1>8 DEF KeyWriter, KeyReaders
      <4> QED BY <1>5, <4>1, <4>2
    <3>2. ASSUME NEW j \in Keys, j # k
          PROVE  KeyWriter'[j] = KeyWriter[j] /\ KeyReaders'[j] = KeyReaders[j]
      <4>1. table'[j] = table[j] /\ table[j] # e
        BY <1>3, <1>8, <3>2
      <4>2. table[j] # NoEntry => wr'[table[j]] = wr[table[j]]
        BY <2>1, <4>1 DEF IInv, TypeOK
      <4> QED BY <2>1, <4>1, <4>2 DEF KeyWriter, KeyReaders
    <3> QED BY <3>1, <3>2
  <2>3. KeyWriter' = [KeyWriter EXCEPT ![k] = t]
    BY <1>1, <2>2, LocksPointwise, UpdatedAt
  <2>4. KeyReaders' = KeyReaders
    BY <2>2, LocksPointwise
  <2>5. Locks!Write(t, k)
    BY <1>4, <1>5, <2>3, <2>4 DEF Locks!Write, Locks!Free
  <2> QED BY <1>1, <2>5
<1>7. CASE m # "w"
  <2>1. rd' = [rd EXCEPT ![e] = @ \cup {t}] /\ wr' = wr
    BY <1>2, <1>7 DEF Lock
  <2>2. /\ KeyReaders'[k] = KeyReaders[k] \cup {t}
        /\ \A j \in Keys : j # k => KeyReaders'[j] = KeyReaders[j]
        /\ \A j \in Keys : KeyWriter'[j] = KeyWriter[j]
    BY SMTT(60), <1>1, <1>3, <1>8, <2>1 DEF KeyWriter, KeyReaders, IInv, TypeOK
  <2>3. KeyReaders' = [KeyReaders EXCEPT ![k] = KeyReaders[k] \cup {t}]
    BY <1>1, <2>2, LocksPointwise, UpdatedAt
  <2>4. KeyWriter' = KeyWriter
    BY <2>2, LocksPointwise
  <2>5. Locks!Read(t, k)
    BY <1>4, <1>5, <2>3, <2>4 DEF Locks!Read
  <2> QED BY <1>1, <2>5
<1> QED BY <1>6, <1>7

(* Releasing an entry gives back the lock of its key. *)
LEMMA ReleaseMaps ==
  ASSUME IInv, NEW t \in Threads, NEW e \in Entries, Release(t, e)
  PROVE  \E k \in Keys : Locks!Release(t, k)
<1> DEFINE k == key[e]
<1>1. e \in live /\ (wr[e] = t \/ t \in rd[e])
  BY DEF Release, IInv, HeldAlive
<1>2. k \in Keys /\ table[k] = e /\ e # NoEntry /\ \A j \in Keys : j # k => table[j] # e
  BY SMTT(60), <1>1, CacheAssumption DEF IInv, TypeOK, IndexConsistent
<1>3. /\ wr' = [wr EXCEPT ![e] = IF @ = t THEN NoThread ELSE @]
      /\ rd' = [rd EXCEPT ![e] = @ \ {t}] /\ table' = table
  BY DEF Release
<1>4. /\ KeyWriter'[k] = (IF KeyWriter[k] = t THEN NoThread ELSE KeyWriter[k])
      /\ KeyReaders'[k] = KeyReaders[k] \ {t}
  BY <1>2, <1>3 DEF KeyWriter, KeyReaders, IInv, TypeOK
<1>5. ASSUME NEW j \in Keys, j # k
      PROVE  KeyWriter'[j] = KeyWriter[j] /\ KeyReaders'[j] = KeyReaders[j]
  BY <1>2, <1>3, <1>5 DEF KeyWriter, KeyReaders, IInv, TypeOK
<1>6. KeyWriter' =
        [KeyWriter EXCEPT ![k] = IF KeyWriter[k] = t THEN NoThread ELSE KeyWriter[k]]
  BY <1>2, <1>4, <1>5, LocksPointwise, UpdatedAt
<1>7. KeyReaders' = [KeyReaders EXCEPT ![k] = KeyReaders[k] \ {t}]
  BY <1>2, <1>4, <1>5, LocksPointwise, UpdatedAt
<1>8. KeyPresent' = KeyPresent
  BY <1>3 DEF KeyPresent
<1>9. KeyWriter[k] = t \/ t \in KeyReaders[k]
  BY <1>1, <1>2 DEF KeyWriter, KeyReaders
<1>10. Locks!Release(t, k)
  BY <1>6, <1>7, <1>8, <1>9 DEF Locks!Release
<1> QED BY <1>2, <1>10

(* Every step of the cache is a step of the abstract one, or none. *)
LEMMA NextMaps == IInv /\ [Next]_vars => [Locks!Next]_Locks!vars
<1> SUFFICES ASSUME IInv, [Next]_vars PROVE [Locks!Next]_Locks!vars
  OBVIOUS
<1>1. CASE UNCHANGED <<table, wr, rd>>
  BY <1>1, StutterMaps
<1>2. ASSUME NEW t \in Threads, GetFound(t)
      PROVE  Locks!Next
  <2>1. arg[t].k \in Keys /\ arg[t].m \in Modes
    BY DEF IInv, TypeOK
  <2>2. Locks!Write(t, arg[t].k) \/ Locks!Read(t, arg[t].k)
    BY <1>2, <2>1, LockMaps DEF GetFound
  <2> QED BY <2>1, <2>2 DEF Locks!Next
<1>3. ASSUME NEW t \in Threads, NEW k \in Keys, NEW m \in Modes, TestGet(t, k, m)
      PROVE  [Locks!Next]_Locks!vars
  <2>1. CASE table[k] # NoEntry /\ CanLock(table[k], m)
    <3>1. Locks!Write(t, k) \/ Locks!Read(t, k)
      BY <1>3, <2>1, LockMaps DEF TestGet
    <3> QED BY <3>1 DEF Locks!Next
  <2>2. CASE ~(table[k] # NoEntry /\ CanLock(table[k], m))
    BY <1>3, <2>2, StutterMaps DEF TestGet, lockVars
  <2> QED BY <2>1, <2>2
<1>4. ASSUME NEW t \in Threads, GcDelete(t)
      PROVE  Locks!Next
  <2>1. gcpos \in 1 .. Len(lru) /\ CanWrite(lru[gcpos]) /\ Delete(gcpos)
        /\ UNCHANGED lockVars
    BY SMTT(60), <1>4 DEF GcDelete, IInv, TypeOK
  <2> QED BY <2>1, DeleteMaps DEF Locks!Next
<1>5. ASSUME NEW t \in Threads, RemoveFound(t)
      PROVE  Locks!Next
  <2> DEFINE i == Position(table[arg[t].k])
  <2>1. table[arg[t].k] \in live
    BY <1>5 DEF RemoveFound, IInv, TypeOK, IndexConsistent
  <2>2. i \in 1 .. Len(lru) /\ lru[i] = table[arg[t].k]
    BY <2>1, PositionFound DEF IInv
  <2>3. CanWrite(lru[i]) /\ Delete(i) /\ UNCHANGED lockVars
    BY <1>5, <2>2 DEF RemoveFound
  <2> QED BY <2>2, <2>3, DeleteMaps DEF Locks!Next
<1>6. ASSUME NEW t \in Threads, NEW e \in Entries, NEW c \in Costs, Alloc(t, e, c)
      PROVE  Locks!Next
  BY <1>6, AllocMaps DEF Locks!Next
<1>7. ASSUME NEW t \in Threads, NEW e \in Entries, Release(t, e)
      PROVE  Locks!Next
  BY <1>7, ReleaseMaps DEF Locks!Next
<1>8. CASE Next
  <2>1. PICK t \in Threads : ThreadNext(t)
    BY <1>8 DEF Next
  <2>2. CASE \E e \in Entries, b \in BOOLEAN : SetDemoting(t, e, b)
    BY <1>1, <2>2 DEF SetDemoting, lockVars
  <2>3. CASE \E k \in Keys, m \in Modes : CallGet(t, k, m)
    BY <1>1, <2>3 DEF CallGet, Call, lockVars
  <2>4. CASE \E k \in Keys : CallRemove(t, k)
    BY <1>1, <2>4 DEF CallRemove, Call, lockVars
  <2>5. CASE GetMiss(t) \/ GcDone(t) \/ GcSkip(t) \/ RemoveMiss(t)
    BY <1>1, <2>5 DEF GetMiss, GcDone, GcSkip, RemoveMiss, lockVars
  <2> QED
    BY <1>2, <1>3, <1>4, <1>5, <1>6, <1>7, <2>1, <2>2, <2>3, <2>4, <2>5
    DEF ThreadNext, CacheStep
<1> QED
  BY <1>1, <1>8 DEF vars, lockVars

(* The cache implements one read/write lock per key, whatever the number   *)
(* of threads, keys and entries: what dt_cache_get promises its clients.   *)
THEOREM CacheImplementsLocks == Spec => LocksPerKey
<1>1. Init => Locks!Init
  <2> SUFFICES ASSUME Init PROVE Locks!Init
    OBVIOUS
  <2>1. \A k \in Keys : table[k] = NoEntry
    BY DEF Init
  <2>2. KeyPresent = {}
    BY <2>1 DEF KeyPresent
  <2>3. KeyWriter = [k \in Keys |-> NoThread]
    BY <2>1 DEF KeyWriter
  <2>4. KeyReaders = [k \in Keys |-> {}]
    BY <2>1 DEF KeyReaders
  <2> QED BY <2>2, <2>3, <2>4 DEF Locks!Init
<1> QED
  BY <1>1, InvariantHolds, NextMaps, PTL DEF Spec, LocksPerKey, Locks!Spec
=============================================================================
