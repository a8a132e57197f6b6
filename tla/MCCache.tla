------------------------------ MODULE MCCache ------------------------------
(* Small instances of Cache: a finite number of calls per thread. *)
EXTENDS Cache

CONSTANT MaxCalls  \* bound: the calls a thread issues
VARIABLE calls

MCInit == Init /\ calls = [t \in Threads |-> 0]

Calls(t) ==
  /\ calls[t] < MaxCalls
  /\ \/ \E k \in Keys, m \in Modes : CallGet(t, k, m) \/ TestGet(t, k, m)
     \/ \E k \in Keys : CallRemove(t, k)
  /\ calls' = [calls EXCEPT ![t] = @ + 1]

Steps(t) ==
  /\ CacheStep(t) \/ \E e \in Entries : Release(t, e)
  /\ UNCHANGED calls

(* Everything is given back and the calls are used up. *)
Done ==
  /\ \A t \in Threads : pc[t] = "idle" /\ held[t] = {} /\ calls[t] = MaxCalls
  /\ UNCHANGED <<vars, calls>>

MCNext == (\E t \in Threads : Calls(t) \/ Steps(t)) \/ Done

MCSpec == MCInit /\ [][MCNext]_<<vars, calls>>

(* A thread inside a call keeps trying, and a client releases what it got. *)
LiveSpec == MCSpec /\ \A t \in Threads : WF_<<vars, calls>>(Steps(t))

(* Every call returns: the busy waiting of get and remove always ends when *)
(* each thread locks one entry at a time and gives it back.                *)
AllCallsReturn == \A t \in Threads : pc[t] # "idle" ~> pc[t] = "idle"
=============================================================================
