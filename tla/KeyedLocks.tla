----------------------------- MODULE KeyedLocks -----------------------------
(***************************************************************************)
(* What dt_cache_t promises its clients: a read/write lock per key.  A key *)
(* is taken to read or to write; taking it brings it into the cache; and   *)
(* the cache forgets a key, to make room or on request, only while nobody  *)
(* holds it.  There is no mutex, no list, no cost and no heap here.        *)
(***************************************************************************)
CONSTANTS Threads, Keys, NoThread

VARIABLES
  present,  \* the keys that are cached
  writer,   \* per key: the thread that holds it for writing
  readers   \* per key: the threads that hold it for reading

vars == <<present, writer, readers>>

Init ==
  /\ present = {}
  /\ writer = [k \in Keys |-> NoThread]
  /\ readers = [k \in Keys |-> {}]

Free(k) == writer[k] = NoThread /\ readers[k] = {}

(* dt_cache_get or dt_cache_testget returns the entry of k to t. *)
Write(t, k) ==
  /\ Free(k)
  /\ present' = present \cup {k}
  /\ writer' = [writer EXCEPT ![k] = t]
  /\ UNCHANGED readers

Read(t, k) ==
  /\ writer[k] = NoThread
  /\ present' = present \cup {k}
  /\ readers' = [readers EXCEPT ![k] = @ \cup {t}]
  /\ UNCHANGED writer

(* dt_cache_release, by a thread that holds the key. *)
Release(t, k) ==
  /\ writer[k] = t \/ t \in readers[k]
  /\ writer' = [writer EXCEPT ![k] = IF @ = t THEN NoThread ELSE @]
  /\ readers' = [readers EXCEPT ![k] = @ \ {t}]
  /\ UNCHANGED present

(* The garbage collector or dt_cache_remove. *)
Forget(k) ==
  /\ k \in present /\ Free(k)
  /\ present' = present \ {k}
  /\ UNCHANGED <<writer, readers>>

Next ==
  \E k \in Keys :
    \/ \E t \in Threads : Write(t, k) \/ Read(t, k) \/ Release(t, k)
    \/ Forget(k)

Spec == Init /\ [][Next]_vars
=============================================================================
