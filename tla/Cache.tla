------------------------------- MODULE Cache -------------------------------
(***************************************************************************)
(* The concurrent LRU cache of src/common/cache.c (dt_cache_t).            *)
(*                                                                         *)
(* Every lookup, insertion, removal and garbage collection runs under one  *)
(* mutex, cache->lock.  Every entry has a read/write lock of its own; it   *)
(* is only ever tried under the mutex, but it is released, and the field   *)
(* _lock_demoting is written, without it.  A critical section that tries   *)
(* one entry lock is one action.  A garbage collection tries the locks of  *)
(* many entries, so it is one action per visited entry, and the mutex is   *)
(* held by its thread in between while other threads release locks.        *)
(*                                                                         *)
(* A failed try in get and remove gives the mutex back, sleeps and starts  *)
(* over: it changes nothing, so it is the action not being enabled.        *)
(***************************************************************************)
EXTENDS Integers, Sequences, FiniteSets, FiniteSetsExt

CONSTANTS
  Threads,      \* the threads that use the cache
  Keys,         \* uint32_t keys
  Entries,      \* the addresses g_slice_alloc can return for an entry
  Quota,        \* cost_quota
  Costs,        \* the costs an entry can have
  HasAllocate,  \* is there an allocate callback
  MaxHeld,      \* bound: entries a thread keeps locked at a time
  NoThread, NoEntry

ASSUME CacheAssumption ==
  /\ Quota \in Nat /\ Costs \subseteq Nat /\ HasAllocate \in BOOLEAN
  /\ MaxHeld \in Nat /\ NoThread \notin Threads /\ NoEntry \notin Entries

VARIABLES
  mutex,      \* owner of cache->lock between two actions
  table,      \* cache->hashtable
  lru,        \* cache->lru, the last element is the most recently used
  cost,       \* cache->cost
  live,       \* the entries that are allocated
  key, ecost, demoting,  \* entry->key, entry->cost, entry->_lock_demoting
  wr, rd,     \* entry->lock: its writer, its readers
  gcpos,      \* the list cursor l of the running gc, as an index into lru
  pc, arg,    \* per thread: the call it is in and its arguments
  ret,        \* per thread: the entry the last call returned
  held        \* per thread: the entries it has got and not released

heapVars == <<live, key, ecost>>
lockVars == <<wr, rd, held>>
vars == <<mutex, table, lru, cost, heapVars, demoting, lockVars, gcpos, pc,
          arg, ret>>

Modes == {"r", "w"}
PCs == {"idle", "get", "gc", "alloc", "remove"}

TypeOK ==
  /\ mutex \in Threads \cup {NoThread}
  /\ table \in [Keys -> Entries \cup {NoEntry}]
  /\ lru \in Seq(Entries)
  /\ cost \in Int
  /\ live \in SUBSET Entries
  /\ key \in [Entries -> Keys]
  /\ ecost \in [Entries -> Nat]
  /\ demoting \in [Entries -> BOOLEAN]
  /\ wr \in [Entries -> Threads \cup {NoThread}]
  /\ rd \in [Entries -> SUBSET Threads]
  /\ gcpos \in Nat \ {0}
  /\ pc \in [Threads -> PCs]
  /\ arg \in [Threads -> [k : Keys, m : Modes]]
  /\ ret \in [Threads -> Entries \cup {NoEntry}]
  /\ held \in [Threads -> SUBSET Entries]

(* dt_cache_init: the fields of an unallocated entry mean nothing. *)
Init ==
  /\ mutex = NoThread /\ gcpos = 1
  /\ table = [k \in Keys |-> NoEntry] /\ lru = <<>> /\ cost = 0
  /\ live = {} /\ key \in {[e \in Entries |-> k] : k \in Keys}
  /\ ecost = [e \in Entries |-> 0] /\ demoting = [e \in Entries |-> FALSE]
  /\ wr = [e \in Entries |-> NoThread] /\ rd = [e \in Entries |-> {}]
  /\ pc = [t \in Threads |-> "idle"]
  /\ arg \in {[t \in Threads |-> [k |-> k, m |-> "r"]] : k \in Keys}
  /\ ret = [t \in Threads |-> NoEntry] /\ held = [t \in Threads |-> {}]
-----------------------------------------------------------------------------
(* cache->cost against 0.8f * cache->cost_quota. *)
OverFill == 5 * cost > 4 * Quota
UnderFill == 5 * cost < 4 * Quota

(* Mutant: a write lock granted in spite of readers. *)
CanWriteOverReaders(e) == wr[e] = NoThread

(* dt_pthread_rwlock_trywrlock and _tryrdlock succeed. *)
CanWrite(e) == wr[e] = NoThread /\ rd[e] = {}
CanRead(e) == wr[e] = NoThread
CanLock(e, m) == IF m = "w" THEN CanWrite(e) ELSE CanRead(e)

Lock(t, e, m) ==
  /\ wr' = IF m = "w" THEN [wr EXCEPT ![e] = t] ELSE wr
  /\ rd' = IF m = "w" THEN rd ELSE [rd EXCEPT ![e] = @ \cup {t}]
  /\ held' = [held EXCEPT ![t] = @ \cup {e}]
  /\ ret' = [ret EXCEPT ![t] = e]

(* g_list_delete_link() *)
DeleteLink(s, i) == SubSeq(s, 1, i - 1) \o SubSeq(s, i + 1, Len(s))

(* g_list_remove_link then g_list_concat: e becomes most recently used. *)
Position(e) == CHOOSE i \in 1 .. Len(lru) : lru[i] = e
BubbleUp(e) == lru' = Append(DeleteLink(lru, Position(e)), e)

(* Mutant: the cost is not taken off. *)
DeleteKeepsCost(i) ==
  /\ table' = [table EXCEPT ![key[lru[i]]] = NoEntry]
  /\ live' = live \ {lru[i]}
  /\ lru' = DeleteLink(lru, i) /\ UNCHANGED cost

(* The part remove and gc share: unlink the entry at position i of the lru *)
(* from hashtable and list, take its cost off and free it.                 *)
Delete(i) ==
  /\ table' = [table EXCEPT ![key[lru[i]]] = NoEntry]
  /\ cost' = cost - ecost[lru[i]]
  /\ live' = live \ {lru[i]}
  /\ lru' = DeleteLink(lru, i)

(* An idle thread that may call for key k: it does not hold it already,    *)
(* and it keeps fewer than MaxHeld entries locked meanwhile.               *)
MayCall(t, k) ==
  /\ pc[t] = "idle"
  /\ Cardinality(held[t]) < MaxHeld
  /\ \A e \in held[t] : key[e] # k

Call(t, p, k, m) ==
  /\ pc' = [pc EXCEPT ![t] = p]
  /\ arg' = [arg EXCEPT ![t] = [k |-> k, m |-> m]]
  /\ UNCHANGED <<mutex, table, lru, cost, heapVars, demoting, lockVars, gcpos,
                 ret>>
-----------------------------------------------------------------------------
CallGet(t, k, m) == MayCall(t, k) /\ Call(t, "get", k, m)

(* dt_cache_get: found, and the entry lock is free for this mode. *)
GetFound(t) ==
  LET e == table[arg[t].k] IN
  /\ pc[t] = "get" /\ mutex = NoThread
  /\ e # NoEntry /\ CanLock(e, arg[t].m)
  /\ Lock(t, e, arg[t].m) /\ BubbleUp(e)
  /\ pc' = [pc EXCEPT ![t] = "idle"]
  /\ UNCHANGED <<mutex, table, cost, heapVars, demoting, gcpos, arg>>

(* Mutant: the mutex is given up between the lookup and the insertion. *)
GetMissUnlocked(t) ==
  /\ pc[t] = "get" /\ mutex = NoThread
  /\ table[arg[t].k] = NoEntry
  /\ gcpos' = 1
  /\ pc' = [pc EXCEPT ![t] = IF OverFill THEN "gc" ELSE "alloc"]
  /\ UNCHANGED <<mutex, table, lru, cost, heapVars, demoting, lockVars, arg, ret>>

(* dt_cache_get: not found; keep the mutex, collect first if too full. *)
GetMiss(t) ==
  /\ pc[t] = "get" /\ mutex = NoThread
  /\ table[arg[t].k] = NoEntry
  /\ mutex' = t /\ gcpos' = 1
  /\ pc' = [pc EXCEPT ![t] = IF OverFill THEN "gc" ELSE "alloc"]
  /\ UNCHANGED <<table, lru, cost, heapVars, demoting, lockVars, arg, ret>>

(* dt_cache_gc: the walk is over at the end of the list or once there is   *)
(* room; a locked or demoting entry is skipped; any other is deleted.      *)
GcDone(t) ==
  /\ pc[t] = "gc"
  /\ gcpos > Len(lru) \/ UnderFill
  /\ pc' = [pc EXCEPT ![t] = "alloc"]
  /\ UNCHANGED <<mutex, table, lru, cost, heapVars, demoting, lockVars, gcpos,
                 arg, ret>>

(* Mutant: the walk ends at the first entry it may not delete. *)
GcSkipGivesUp(t) ==
  /\ pc[t] = "gc"
  /\ gcpos <= Len(lru) /\ ~UnderFill
  /\ ~CanWrite(lru[gcpos]) \/ demoting[lru[gcpos]]
  /\ pc' = [pc EXCEPT ![t] = "alloc"]
  /\ UNCHANGED <<mutex, table, lru, cost, heapVars, demoting, lockVars, gcpos,
                 arg, ret>>

GcSkip(t) ==
  /\ pc[t] = "gc"
  /\ gcpos <= Len(lru) /\ ~UnderFill
  /\ ~CanWrite(lru[gcpos]) \/ demoting[lru[gcpos]]
  /\ gcpos' = gcpos + 1
  /\ UNCHANGED <<mutex, table, lru, cost, heapVars, demoting, lockVars, pc,
                 arg, ret>>

GcDelete(t) ==
  /\ pc[t] = "gc"
  /\ gcpos <= Len(lru) /\ ~UnderFill
  /\ CanWrite(lru[gcpos]) /\ ~demoting[lru[gcpos]]
  /\ Delete(gcpos)
  /\ UNCHANGED <<mutex, key, ecost, demoting, lockVars, gcpos, pc, arg, ret>>

(* dt_cache_get: a new entry, whose cost the callback may set, write       *)
(* locked if asked for or if there is a callback.                          *)
Alloc(t, e, c) ==
  /\ pc[t] = "alloc"
  /\ e \notin live
  /\ table' = [table EXCEPT ![arg[t].k] = e]
  /\ live' = live \cup {e}
  /\ key' = [key EXCEPT ![e] = arg[t].k]
  /\ ecost' = [ecost EXCEPT ![e] = IF HasAllocate THEN c ELSE 1]
  /\ demoting' = [demoting EXCEPT ![e] = FALSE]
  /\ Lock(t, e, IF HasAllocate THEN "w" ELSE arg[t].m)
  /\ cost' = cost + ecost'[e]
  /\ lru' = Append(lru, e)
  /\ mutex' = NoThread
  /\ pc' = [pc EXCEPT ![t] = "idle"]
  /\ UNCHANGED <<gcpos, arg>>

(* dt_cache_testget: one try, 0 if the key is absent or the lock is taken. *)
TestGet(t, k, m) ==
  LET e == table[k] IN
  /\ MayCall(t, k) /\ mutex = NoThread
  /\ IF e # NoEntry /\ CanLock(e, m)
     THEN Lock(t, e, m) /\ BubbleUp(e)
     ELSE ret' = [ret EXCEPT ![t] = NoEntry] /\ UNCHANGED <<lockVars, lru>>
  /\ arg' = [arg EXCEPT ![t] = [k |-> k, m |-> m]]
  /\ UNCHANGED <<mutex, table, cost, heapVars, demoting, gcpos, pc>>

CallRemove(t, k) == MayCall(t, k) /\ Call(t, "remove", k, "w")

(* Mutant: a removal that does not find its key starts over, too. *)
RemoveMissRestarts(t) ==
  /\ pc[t] = "remove" /\ mutex = NoThread
  /\ table[arg[t].k] = NoEntry
  /\ UNCHANGED vars

(* dt_cache_remove returns 1: the key is not in the cache. *)
RemoveMiss(t) ==
  /\ pc[t] = "remove" /\ mutex = NoThread
  /\ table[arg[t].k] = NoEntry
  /\ pc' = [pc EXCEPT ![t] = "idle"]
  /\ UNCHANGED <<mutex, table, lru, cost, heapVars, demoting, lockVars, gcpos,
                 arg, ret>>

(* Mutant: _lock_demoting is not looked at. *)
RemoveFoundDemoting(t) ==
  LET e == table[arg[t].k] IN
  /\ pc[t] = "remove" /\ mutex = NoThread
  /\ e # NoEntry /\ CanWrite(e)
  /\ Delete(Position(e))
  /\ pc' = [pc EXCEPT ![t] = "idle"]
  /\ UNCHANGED <<mutex, key, ecost, demoting, lockVars, gcpos, arg, ret>>

(* dt_cache_remove returns 0: nobody holds the entry and nobody demotes it. *)
RemoveFound(t) ==
  LET e == table[arg[t].k] IN
  /\ pc[t] = "remove" /\ mutex = NoThread
  /\ e # NoEntry /\ CanWrite(e) /\ ~demoting[e]
  /\ Delete(Position(e))
  /\ pc' = [pc EXCEPT ![t] = "idle"]
  /\ UNCHANGED <<mutex, key, ecost, demoting, lockVars, gcpos, arg, ret>>

(* Mutant: a read lock is not given back. *)
ReleaseWriterOnly(t, e) ==
  /\ pc[t] = "idle" /\ e \in held[t]
  /\ wr' = [wr EXCEPT ![e] = IF @ = t THEN NoThread ELSE @]
  /\ held' = [held EXCEPT ![t] = @ \ {e}]
  /\ UNCHANGED <<mutex, table, lru, cost, heapVars, demoting, rd, gcpos, pc, arg,
                 ret>>

(* dt_cache_release: no mutex. *)
Release(t, e) ==
  /\ pc[t] = "idle" /\ e \in held[t]
  /\ wr' = [wr EXCEPT ![e] = IF @ = t THEN NoThread ELSE @]
  /\ rd' = [rd EXCEPT ![e] = @ \ {t}]
  /\ held' = [held EXCEPT ![t] = @ \ {e}]
  /\ UNCHANGED <<mutex, table, lru, cost, heapVars, demoting, gcpos, pc, arg,
                 ret>>

(* A client writes entry->_lock_demoting of an entry it has locked. *)
SetDemoting(t, e, b) ==
  /\ pc[t] = "idle" /\ e \in held[t]
  /\ demoting' = [demoting EXCEPT ![e] = b]
  /\ UNCHANGED <<mutex, table, lru, cost, heapVars, lockVars, gcpos, pc, arg,
                 ret>>

CacheStep(t) ==
  \/ GetFound(t) \/ GetMiss(t)
  \/ GcDone(t) \/ GcSkip(t) \/ GcDelete(t)
  \/ \E e \in Entries, c \in Costs : Alloc(t, e, c)
  \/ RemoveMiss(t) \/ RemoveFound(t)

ThreadNext(t) ==
  \/ CacheStep(t)
  \/ \E k \in Keys, m \in Modes : CallGet(t, k, m) \/ TestGet(t, k, m)
  \/ \E k \in Keys : CallRemove(t, k)
  \/ \E e \in Entries : Release(t, e)
  \/ \E e \in Entries, b \in BOOLEAN : SetDemoting(t, e, b)

Next == \E t \in Threads : ThreadNext(t)

Spec == Init /\ [][Next]_vars
-----------------------------------------------------------------------------
(* The mutex is held between two actions exactly by the thread inside the  *)
(* slow path of dt_cache_get, so there is only one such thread.            *)
MutexInv ==
  \A t \in Threads : pc[t] \in {"gc", "alloc"} <=> mutex = t

(* No use after free: an entry some thread got and has not released is     *)
(* still allocated and still locked for that thread, whatever gc and       *)
(* remove did meanwhile.                                                   *)
HeldAlive ==
  \A t \in Threads : \A e \in held[t] :
    e \in live /\ (wr[e] = t \/ t \in rd[e])

(* The read/write locks exclude: a writer of an entry is alone with it.    *)
WriterAlone ==
  \A t, u \in Threads : \A e \in held[t] \cap held[u] :
    wr[e] = t => t = u

Linked(s) == {s[i] : i \in DOMAIN s}

(* hashtable and lru list agree with the heap: each allocated entry is the *)
(* entry of its key and is linked exactly once; nothing else is linked.    *)
IndexConsistent ==
  /\ \A e \in live : table[key[e]] = e
  /\ \A k \in Keys : table[k] # NoEntry => table[k] \in live /\ key[table[k]] = k
  /\ live = Linked(lru) /\ IsInjective(lru)

(* The entry locks say who holds what: a lock owner has the entry in hand, *)
(* and a write locked entry has no reader.                                 *)
LockOwners ==
  \A e \in Entries :
    /\ \A t \in Threads : wr[e] = t \/ t \in rd[e] => e \in held[t]
    /\ wr[e] # NoThread => rd[e] = {}

(* The slow path of dt_cache_get inserts a key that is not in the table:   *)
(* the mutex is not given up between the lookup and the insertion.         *)
MissStillMissing ==
  \A t \in Threads : pc[t] \in {"gc", "alloc"} => table[arg[t].k] = NoEntry

(* The inductive invariant of the proofs. *)
IInv ==
  /\ TypeOK /\ MutexInv /\ HeldAlive /\ LockOwners /\ IndexConsistent
  /\ MissStillMissing

(* The cost of the first i entries of the list. *)
CostUpTo[i \in 0 .. Len(lru)] ==
  IF i = 0 THEN 0 ELSE CostUpTo[i - 1] + ecost[lru[i]]

(* cache->cost, adjusted one entry at a time in gc, remove and get, is the *)
(* cost of what is cached: a size_t that never wraps below zero.           *)
CostExact == cost = CostUpTo[Len(lru)] /\ cost >= 0

(* The quota is soft, but the overrun is bounded: beyond 80% of the quota  *)
(* (plus the entry being added) only entries that threads had pinned when  *)
(* the collector passed them can add to the cost.                          *)
MaxCost == Max(Costs \cup {1})
Pinnable == (Cardinality(Threads) * MaxHeld - 1) * MaxCost
CostBounded ==
  5 * (cost - MaxCost) <= Max({4 * Quota, 5 * Pinnable})

-----------------------------------------------------------------------------
(* What the cache looks like by key: the locks of the entry a key has. *)
KeyPresent == {k \in Keys : table[k] # NoEntry}
KeyWriter ==
  [k \in Keys |-> IF table[k] = NoEntry THEN NoThread ELSE wr[table[k]]]
KeyReaders ==
  [k \in Keys |-> IF table[k] = NoEntry THEN {} ELSE rd[table[k]]]

Locks == INSTANCE KeyedLocks
           WITH present <- KeyPresent, writer <- KeyWriter, readers <- KeyReaders

(* The detailed cache implements one read/write lock per key: no           *)
(* interleaving of lookups, collections, removals and releases lets a      *)
(* client see a second entry of a key it holds, lose its lock, or find its *)
(* key gone.                                                               *)
LocksPerKey == Locks!Spec
=============================================================================
