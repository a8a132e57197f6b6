-------------------------------- MODULE Undo --------------------------------
(***************************************************************************)
(* The undo and redo lists of src/common/undo.c and the changes that are   *)
(* recorded in them.                                                       *)
(*                                                                         *)
(* The lists are protected by self->mutex, but `locked', which is TRUE     *)
(* while somebody holds the mutex, and the open group are read and written *)
(* without it.  Every unprotected read or write is an action of its own,   *)
(* and so is the LOCK at the head of a critical section: while a callback  *)
(* of an undo runs, other threads see `locked'.                            *)
(*                                                                         *)
(* What the recorded operations change is one value per type of change;    *)
(* an item knows the value before and after, as the undo data does.        *)
(* dt_undo_disable_next() has no caller.                                   *)
(***************************************************************************)
EXTENDS Integers, Sequences, FiniteSetsExt

CONSTANTS
  Threads,   \* the threads that record changes
  Gui,       \* the one that undoes, redoes and clears
  Types,     \* dt_undo_type_t of the changes
  Filter,    \* the filter the view passes to undo and redo
  Filters,   \* the filters the views pass to clear
  Values,    \* what a change can set a value to
  Period,    \* MAX_TIME_PERIOD
  MaxTime,   \* bound: the clock
  MaxItems,  \* bound: recorded items
  MaxDepth,  \* bound: nested groups of one thread
  MaxIndent, \* bound: group_indent, which drifts when threads race
  None       \* DT_UNDO_NONE

ASSUME UndoAssumption ==
  /\ Gui \in Threads /\ Filter \subseteq Types /\ Filters \subseteq SUBSET Types
  /\ None \notin Types /\ None \notin Threads /\ None \notin Values
  /\ {Period, MaxTime, MaxItems, MaxDepth, MaxIndent} \subseteq Nat

VARIABLES
  undo_list, redo_list,   \* the head is the first item of the GList
  group, group_indent,    \* self->group, self->group_indent
  locked, mutex,          \* self->locked, the holder of self->mutex
  value,                  \* the program's data
  now,                    \* dt_get_wtime()
  pc, depth,              \* per thread: program counter, open groups
  loc                     \* per thread: the local variables of its call

listVars == <<undo_list, redo_list>>
groupVars == <<group, group_indent>>
vars == <<listVars, groupVars, locked, mutex, value, now, pc, depth, loc>>

Item(type, is_group, before, after) ==
  [type |-> type, ts |-> 0, is_group |-> is_group, before |-> before,
   after |-> after]
Local(open, indent, item, ends) ==
  [group |-> open, indent |-> indent, item |-> item, ends |-> ends]
NoItem == Item(None, FALSE, None, None)
NoLocal == Local(None, 0, NoItem, FALSE)

(* dt_undo_init() *)
UInit ==
  /\ undo_list = <<>> /\ redo_list = <<>>
  /\ group = None /\ group_indent = 0
  /\ locked = FALSE /\ mutex = None
  /\ value \in [Types -> Values] /\ now = 0
  /\ pc = [t \in Threads |-> "idle"] /\ depth = [t \in Threads |-> 0]
  /\ loc = [t \in Threads |-> NoLocal]

(* Everything recorded, oldest first: the undo list is its past, the redo  *)
(* list its future.                                                        *)
Timeline ==
  LET n == Len(undo_list)
  IN [k \in 1 .. n + Len(redo_list) |->
        IF k <= n THEN undo_list[n - k + 1] ELSE redo_list[k - n]]

Goto(t, l) == pc' = [pc EXCEPT ![t] = l]
Marker(type) == Item(type, TRUE, None, None)

-----------------------------------------------------------------------------
(* Groups. *)

(* dt_undo_start_group(): the reads *)
StartGroup(t, type) ==
  /\ pc[t] = "idle" /\ depth[t] < MaxDepth
  /\ Len(Timeline) < MaxItems /\ group_indent < MaxIndent
  /\ loc' = [loc EXCEPT ![t] = Local(group, group_indent, Marker(type), FALSE)]
  /\ Goto(t, "start")
  /\ UNCHANGED <<listVars, groupVars, locked, mutex, value, now, depth>>

\* a group inside a group is not counted
StartedGroupResets(t) ==
  /\ pc[t] = "start"
  /\ depth' = [depth EXCEPT ![t] = @ + 1]
  /\ group' = loc[t].item.type /\ group_indent' = 1
  /\ Goto(t, "record")
  /\ UNCHANGED <<listVars, locked, mutex, value, now, loc>>

(* ... and the writes *)
StartedGroup(t) ==
  /\ pc[t] = "start"
  /\ depth' = [depth EXCEPT ![t] = @ + 1]
  /\ IF loc[t].group = None
     THEN /\ group' = loc[t].item.type /\ group_indent' = 1
          /\ Goto(t, "record") /\ UNCHANGED loc
     ELSE /\ group_indent' = loc[t].indent + 1 /\ UNCHANGED group
          /\ Goto(t, "idle") /\ loc' = [loc EXCEPT ![t] = NoLocal]
  /\ UNCHANGED <<listVars, locked, mutex, value, now>>

(* dt_undo_end_group(): the reads *)
EndGroup(t) ==
  /\ pc[t] = "idle" /\ depth[t] > 0
  /\ loc' = [loc EXCEPT ![t].indent = group_indent]
  /\ Goto(t, "end")
  /\ UNCHANGED <<listVars, groupVars, locked, mutex, value, now, depth>>

(* ... and the writes; a failed assertion ends the program *)
EndedGroup(t) ==
  /\ pc[t] = "end" /\ loc[t].indent > 0
  /\ depth' = [depth EXCEPT ![t] = @ - 1]
  /\ group_indent' = loc[t].indent - 1
  /\ IF loc[t].indent = 1
     THEN /\ loc' = [loc EXCEPT ![t] = Local(None, 0, Marker(group), TRUE)]
          /\ Goto(t, "record")
     ELSE loc' = [loc EXCEPT ![t] = NoLocal] /\ Goto(t, "idle")
  /\ UNCHANGED <<listVars, group, locked, mutex, value, now>>

-----------------------------------------------------------------------------
(* Records. *)

(* an operation changes a value and calls dt_undo_record() *)
Change(t, type, v) ==
  /\ pc[t] = "idle" /\ Len(Timeline) < MaxItems
  /\ value' = [value EXCEPT ![type] = v]
  /\ loc' = [loc EXCEPT ![t].item = Item(type, FALSE, value[type], v)]
  /\ Goto(t, "record")
  /\ UNCHANGED <<listVars, groupVars, locked, mutex, now, depth>>

(* the end of _undo_record() and, for the last marker of a group, of       *)
(* dt_undo_end_group()                                                     *)
Return(t) ==
  /\ group' = IF loc[t].ends THEN None ELSE group
  /\ loc' = [loc EXCEPT ![t] = NoLocal]
  /\ Goto(t, "idle")

(* _undo_record(): `locked' is tested without the mutex *)
RecordAsked(t) ==
  /\ pc[t] = "record" /\ ~locked
  /\ Goto(t, "lock")
  /\ UNCHANGED <<listVars, groupVars, locked, mutex, value, now, depth, loc>>

RecordSkipped(t) ==
  /\ pc[t] = "record" /\ locked
  /\ Return(t)
  /\ UNCHANGED <<listVars, group_indent, locked, mutex, value, now, depth>>

RecordLock(t) ==
  /\ pc[t] = "lock" /\ mutex = None
  /\ mutex' = t /\ locked' = TRUE
  /\ Goto(t, "insert")
  /\ UNCHANGED <<listVars, groupVars, value, now, depth, loc>>

InsertKeepsRedo(t) ==
  /\ pc[t] = "insert"
  /\ undo_list' = <<[loc[t].item EXCEPT !.ts = now]>> \o undo_list
  /\ redo_list' = redo_list
  /\ mutex' = None /\ locked' = FALSE
  /\ Return(t)
  /\ UNCHANGED <<group_indent, value, now, depth>>
Insert(t) ==
  /\ pc[t] = "insert"
  /\ undo_list' = <<[loc[t].item EXCEPT !.ts = now]>> \o undo_list
  /\ redo_list' = <<>>
  /\ mutex' = None /\ locked' = FALSE
  /\ Return(t)
  /\ UNCHANGED <<group_indent, value, now, depth>>

-----------------------------------------------------------------------------
(* Undo and redo: the user's thread is in none of its own groups. *)

Call(t, l) ==
  /\ pc[t] = "idle" /\ depth[t] = 0 /\ mutex = None
  /\ mutex' = t /\ locked' = TRUE
  /\ Goto(t, l)
  /\ UNCHANGED <<listVars, groupVars, value, now, depth, loc>>

(* The items from[First(from)] .. from[Last(from)] are moved. *)
Matching(from) == {i \in 1 .. Len(from) : from[i].type \in Filter}
First(from) == Min(Matching(from))

(* a group: up to the next marker *)
GroupLast(from, s) ==
  Min({k \in s + 1 .. Len(from) : from[k].is_group} \cup {Len(from)})

(* no group: the items of the same period, and of groups met on the way *)
InGroup(from, s, k) ==
  Cardinality({i \in s .. k : from[i].is_group}) % 2 = 1
Near(a, b) == IF a.ts < b.ts THEN b.ts - a.ts < Period ELSE a.ts - b.ts < Period
Continues(from, s, k) ==
  /\ k < Len(from) /\ from[k + 1].type \in Filter
  /\ InGroup(from, s, k) \/ Near(from[k + 1], from[s])
PeriodLast(from, s) ==
  Min({k \in s .. Len(from) : ~Continues(from, s, k)})

LastItem(from) ==
  LET s == First(from)
  IN IF from[s].is_group THEN GroupLast(from, s) ELSE PeriodLast(from, s)

(* Each item is put first in the other list. *)
MovedBackwards(from) == SubSeq(from, First(from), LastItem(from))
Moved(from) ==
  [k \in 1 .. LastItem(from) - First(from) + 1 |-> from[LastItem(from) - k + 1]]
Left(from) ==
  SubSeq(from, 1, First(from) - 1) \o SubSeq(from, LastItem(from) + 1, Len(from))

(* The callbacks run in the order of the list: the last one wins. *)
Restored(action, item) == IF action = "undo" THEN item.before ELSE item.after
Applied(from, action) ==
  [type \in Types |->
     LET mine == {i \in First(from) .. LastItem(from) :
                    from[i].type = type /\ ~from[i].is_group}
     IN IF mine = {} THEN value[type] ELSE Restored(action, from[Max(mine)])]

(* _undo_do_undo_redo() from the LOCK, with the callbacks, to the UNLOCK *)
UndoEnd(t) ==
  /\ pc[t] = "undo"
  /\ IF Matching(undo_list) = {}
     THEN UNCHANGED <<listVars, value>>
     ELSE /\ redo_list' = Moved(undo_list) \o redo_list
          /\ undo_list' = Left(undo_list)
          /\ value' = Applied(undo_list, "undo")
  /\ mutex' = None /\ locked' = FALSE
  /\ Goto(t, "idle")
  /\ UNCHANGED <<groupVars, now, depth, loc>>

RedoEnd(t) ==
  /\ pc[t] = "redo"
  /\ IF Matching(redo_list) = {}
     THEN UNCHANGED <<listVars, value>>
     ELSE /\ undo_list' = Moved(redo_list) \o undo_list
          /\ redo_list' = Left(redo_list)
          /\ value' = Applied(redo_list, "redo")
  /\ mutex' = None /\ locked' = FALSE
  /\ Goto(t, "idle")
  /\ UNCHANGED <<groupVars, now, depth, loc>>

(* dt_undo_clear(): the items of the filter are freed, then both lists are *)
(* set to NULL                                                             *)
ClearEnd(t, filter) ==
  /\ pc[t] = "clear"
  /\ undo_list' = <<>> /\ redo_list' = <<>>
  /\ mutex' = None /\ locked' = FALSE
  /\ Goto(t, "idle")
  /\ UNCHANGED <<groupVars, value, now, depth, loc>>

(* half of MAX_TIME_PERIOD goes by *)
Tick ==
  /\ now < MaxTime /\ now' = now + 1
  /\ UNCHANGED <<listVars, groupVars, locked, mutex, value, pc, depth, loc>>

-----------------------------------------------------------------------------
UNext ==
  \/ \E t \in Threads :
       \/ \E type \in Types : StartGroup(t, type)
       \/ \E type \in Types, v \in Values : Change(t, type, v)
       \/ StartedGroup(t) \/ EndGroup(t) \/ EndedGroup(t)
       \/ RecordAsked(t) \/ RecordSkipped(t) \/ RecordLock(t) \/ Insert(t)
  \/ Call(Gui, "undo") \/ UndoEnd(Gui)
  \/ Call(Gui, "redo") \/ RedoEnd(Gui)
  \/ Filters # {} /\ Call(Gui, "clear")
  \/ \E filter \in Filters : ClearEnd(Gui, filter)
  \/ Tick

USpec == UInit /\ [][UNext]_vars
-----------------------------------------------------------------------------
(* Undo and redo never reorder what was recorded, not even when the groups *)
(* of two threads are mixed up: along the undo list and on through the     *)
(* redo list the time of the items that undo and redo look for only goes   *)
(* forward.                                                                *)
Chronological ==
  LET line == Timeline
  IN \A i, j \in 1 .. Len(line) :
       i < j /\ line[i].type \in Filter /\ line[j].type \in Filter
         => line[i].ts <= line[j].ts

(* The changes of a type fit together: the first one of the list starts    *)
(* from the value v and each of the others from where the one before it    *)
(* ends.                                                                   *)
Sets(item, type) == item.type = type /\ ~item.is_group
NextSet(list, type, j, k) ==
  j < k /\ Sets(list[k], type) /\ \A i \in j + 1 .. k - 1 : ~Sets(list[i], type)
Chained(list, type, v, start, end) ==
  /\ \A k \in 1 .. Len(list) : NextSet(list, type, 0, k) => list[k][start] = v
  /\ \A j, k \in 1 .. Len(list) :
       Sets(list[j], type) /\ NextSet(list, type, j, k)
         => list[k][start] = list[j][end]

(* For every type of change that undo and redo look for, the undo list     *)
(* leads back from the program's current value and the redo list leads on  *)
(* from it, change by change: whatever was undone, redone and recorded     *)
(* since, the next undo or redo starts from the state it was recorded in.  *)
Consistent ==
  (\A t \in Threads : pc[t] \notin {"record", "lock", "insert"}) =>
  \A type \in Filter :
    /\ Chained(undo_list, type, value[type], "after", "before")
    /\ Chained(redo_list, type, value[type], "before", "after")

(* Between calls of a single thread the markers in each list come in       *)
(* pairs, so that no undo starts in the middle of a group, and an open     *)
(* group has its first marker in the undo list ("create a group of item to *)
(* be handled together").                                                  *)
Markers(list) == Cardinality({i \in 1 .. Len(list) : list[i].is_group})
GroupsPaired ==
  (\A t \in Threads : pc[t] \notin {"start", "end", "record", "lock", "insert"})
    => /\ Markers(redo_list) % 2 = 0
       /\ (Markers(undo_list) % 2 = 0 <=> \A t \in Threads : depth[t] = 0)

=============================================================================
