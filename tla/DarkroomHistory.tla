-------------------------- MODULE DarkroomHistory --------------------------
(***************************************************************************)
(* The history stack of an image, in the darkroom and in the database:     *)
(* src/develop/develop.c (adding, popping, reading, writing), the history  *)
(* panel src/libs/history.c (its undo records, compress, truncate, reset), *)
(* entering, leaving and changing the image in src/views/darkroom.c, the   *)
(* statements of src/common/history.c these run, and an export thread,     *)
(* which begins by writing the history of the darkroom.                    *)
(*                                                                         *)
(* A call that runs SQL is a program: the sequence of its statements, each *)
(* of them committed on its own unless the code opens a transaction.  An   *)
(* actor takes the next statement of its program in one step, so that the  *)
(* other actor and a crash of the process can come between any two.  An    *)
(* edit only changes memory and is one step.  Signals are synchronous:     *)
(* "will" and "change" stand for DT_SIGNAL_DEVELOP_HISTORY_WILL_CHANGE and *)
(* _CHANGE with their handler, the recorder of the history panel.          *)
(*                                                                         *)
(* There is one instance per module; masks and the module order, which     *)
(* travel with the rows, are left out.                                     *)
(***************************************************************************)
EXTENDS Integers, Sequences, FiniteSets, SequencesExt

CONSTANTS
  Images, NoImage,
  Modules,
  AlwaysOn,    \* modules with default_enabled and hide_enable_button
  AutoOn,      \* modules with default_enabled only
  Params, Default,
  Presets,     \* the items auto presets add to an image
  Thumbnails,  \* are thumbnails rendered while the darkroom is closed
  MaxOps, MaxCrashes, MaxExports  \* bounds on what the environment does

ASSUME HistoryAssumption ==
  /\ NoImage \notin Images /\ Default \in Params
  /\ AlwaysOn \cup AutoOn \subseteq Modules /\ AlwaysOn \cap AutoOn = {}
  /\ Thumbnails \in BOOLEAN /\ MaxOps \in Nat /\ MaxCrashes \in Nat /\ MaxExports \in Nat

VARIABLES
  db,       \* per image: rows of main.history, history_end, the flag
            \* AUTO_PRESETS_APPLIED, current_hash and mipmap_hash
  staging,  \* memory.history, a table of the one shared connection
  dev,      \* per actor its dt_develop_t: image_storage.id, history and
            \* history_end ("gui": darktable.develop)
  mods,     \* params and enabled of the modules shown in the darkroom
  rec,      \* the recorder: record_undo, record_history_level and the
            \* previous snapshot
  undo, redo,  \* the undo lists, the last undo and the first redo come next
  lock,     \* per image: the owner of its entry of db_image
  safe,     \* the owner of darktable.dev_threadsafe
  run,      \* per actor: the rest of its program and its local variables
  thumb,    \* per image: the hash of the stack its thumbnail shows
  n,        \* how much the environment has done so far
  saved,    \* history variable, per image: what the darkroom last committed
  torn,     \* history variable: images a crash caught in a rewrite
  goal      \* history variable: what the last call has to bring back

vars == <<db, staging, dev, mods, rec, undo, redo, lock, safe, run, thumb, n,
          saved, torn, goal>>

Actors == {"gui", "export"}
Nobody == "nobody"
NoHash == <<>>
NoThumb == {}

DefaultOn == AlwaysOn \cup AutoOn
DefaultState == [m \in Modules |-> [p |-> Default, en |-> m \in DefaultOn]]

(* dt_dev_pop_history_items_ext: what the first cnt items make of the      *)
(* modules.                                                                *)
Shown(h, cnt) ==
  [m \in Modules |->
     LET S == {k \in 1..Len(h) : k <= cnt /\ h[k].m = m}
     IN  IF S = {} THEN DefaultState[m]
         ELSE [p |-> h[Max(S)].p, en |-> h[Max(S)].en]]

Ordered(rows) == SortSeq(rows, LAMBDA r, s : r.num < s.num)
ItemsOf(rows) == [k \in 1..Len(rows) |-> Ordered(rows)[k].it]
ShownInDb(i) == Shown(ItemsOf(db[i].rows), db[i].end)

(* _history_hash_compute_from_db: num <= history_end. *)
Hash(d) ==
  LET on == SelectSeq(Ordered(d.rows), LAMBDA r : r.it.en /\ r.num <= d.end)
  IN  [k \in 1..Len(on) |-> <<on[k].it.m, on[k].it.p>>]

(* dt_history_hash_write_from_history: nothing is written for an image     *)
(* without enabled items.                                                  *)
Hashed(d) == IF Hash(d) = NoHash THEN d ELSE [d EXCEPT !.cur = Hash(d)]

Closed == [img |-> NoImage, hist |-> <<>>, end |-> 0]
Idle == [todo |-> <<>>, img |-> NoImage, src |-> "gui", row |-> 0, cnt |-> 0,
         next |-> NoImage]
NoGoal == [op |-> "none", act |-> DefaultState]
QuietRecorder == [on |-> TRUE, level |-> 0, prev |-> [h |-> <<>>, e |-> 0]]

Init ==
  /\ db = [i \in Images |-> [rows |-> <<>>, end |-> 0, applied |-> FALSE,
                             cur |-> NoHash, mip |-> NoHash]]
  /\ staging = <<>>
  /\ dev = [a \in Actors |-> Closed]
  /\ mods = DefaultState
  /\ rec = QuietRecorder
  /\ undo = <<>> /\ redo = <<>>
  /\ lock = [i \in Images |-> Nobody] /\ safe = Nobody
  /\ run = [a \in Actors |-> Idle]
  /\ thumb = [i \in Images |-> NoThumb]
  /\ n = [ops |-> 0, crashes |-> 0, exports |-> 0]
  /\ saved = [i \in Images |-> DefaultState]
  /\ torn = {} /\ goal = NoGoal
-----------------------------------------------------------------------------
(* Programs. *)

(* Mutant: the image stays locked. *)
WriteHistoryKeepsLock == <<"lock", "delete", "rows", "end">>

(* dt_dev_write_history_ext. *)
WriteHistory == <<"lock", "delete", "rows", "end", "unlock">>

(* Mutants: no CHANGE, no rewriting. *)
ReadHistorySilent ==
  <<"will", "clear", "defaults", "presets", "shift", "shiftend", "insert", "load",
    "delete", "rows", "hash">>
ReadHistoryUnnumbered ==
  <<"will", "clear", "defaults", "presets", "shift", "shiftend", "insert", "load",
    "change", "hash">>

(* dt_dev_read_history_ext without its lock: the default modules and the   *)
(* auto presets go through memory.history into main.history, the rows are  *)
(* read, and written back.                                                 *)
Merge == <<"clear", "defaults", "presets", "shift", "shiftend", "insert">>
ReadHistory == <<"will">> \o Merge \o <<"load", "change", "delete", "rows", "hash">>
ReadDetached == Merge \o <<"load", "delete", "rows", "hash">>

(* dt_dev_load_image; dt_dev_reload_history_items. *)
LoadImage(read) == <<"lock", "safe">> \o read \o <<"unsafe", "unlock">>
ReloadItems == <<"pop0">> \o ReadHistory \o <<"popend">>
ReloadHistory == <<"lock">> \o ReloadItems \o <<"unlock">>

(* dt_history_delete_on_image_ext, for the image in the darkroom. *)
DeleteRows == <<"delete", "reset", "unflag">> \o ReloadItems \o <<"unthumb">>
DeleteHistory == <<"lock">> \o DeleteRows \o <<"unlock", "hash">>

(* Mutants: the history is committed after it was freed; the thumbnail is  *)
(* looked at before the history is committed.                              *)
LeaveProgramFreed == <<"thumb", "free">> \o WriteHistory \o <<"close">>
LeaveProgramThumbFirst == <<"thumb">> \o WriteHistory \o <<"free", "close">>

(* leave, dt_dev_change_image. *)
LeaveProgram == WriteHistory \o <<"thumb", "free", "close">>
ChangeProgram ==
  WriteHistory \o <<"thumb", "free", "reopen", "lock">> \o ReadHistory
    \o <<"unlock", "popend">>

(* _lib_history_truncate, with dt_history_compress_on_image or             *)
(* dt_history_truncate_on_image.                                           *)
TruncateProgram(how) ==
  <<"will">> \o WriteHistory \o <<how>> \o ReloadHistory \o WriteHistory
    \o <<"settop">> \o ReloadHistory \o <<"change">>

-----------------------------------------------------------------------------
(* Statements. *)

I(a) == run[a].img
At(a, op) == run[a].todo # <<>> /\ Head(run[a].todo) = op
Goto(a, r) == run' = [run EXCEPT ![a] = r]
Done(a) == Goto(a, [run[a] EXCEPT !.todo = Tail(@)])

panelVars == <<mods, rec, undo, redo>>
lockVars == <<lock, safe>>
noteVars == <<n, saved, torn, goal>>

(* dt_lock_image, dt_unlock_image, and darktable.dev_threadsafe. *)
LockImage(a) ==
  /\ At(a, "lock") /\ lock[I(a)] = Nobody
  /\ lock' = [lock EXCEPT ![I(a)] = a]
  /\ Done(a)
  /\ UNCHANGED <<db, staging, dev, panelVars, safe, thumb, noteVars>>

UnlockImage(a) ==
  /\ At(a, "unlock")
  /\ lock' = [lock EXCEPT ![I(a)] = Nobody]
  /\ Done(a)
  /\ UNCHANGED <<db, staging, dev, panelVars, safe, thumb, noteVars>>

Threadsafe(a) ==
  /\ \/ At(a, "safe") /\ safe = Nobody /\ safe' = a
     \/ At(a, "unsafe") /\ safe' = Nobody
  /\ Done(a)
  /\ UNCHANGED <<db, staging, dev, panelVars, lock, thumb, noteVars>>

(* A statement on the rows of the actor's image. *)
Sql(a, op, d) ==
  /\ At(a, op)
  /\ db' = [db EXCEPT ![I(a)] = d]
  /\ Done(a)
  /\ UNCHANGED <<staging, dev, panelVars, lockVars, thumb, noteVars>>

(* _cleanup_history. *)
CleanupHistory(a) == Sql(a, "delete", [db[I(a)] EXCEPT !.rows = <<>>])

(* The loop over dev->history with dt_dev_write_history_item. *)
WriteItem(a) ==
  LET h == dev[run[a].src].hist
      k == run[a].row
  IN  /\ At(a, "rows")
      /\ IF k < Len(h)
         THEN /\ db' = [db EXCEPT ![I(a)].rows =
                          Append(@, [num |-> k, it |-> h[k + 1]])]
              /\ Goto(a, [run[a] EXCEPT !.row = k + 1])
         ELSE Goto(a, [run[a] EXCEPT !.row = 0, !.todo = Tail(@)]) /\ UNCHANGED db
      /\ UNCHANGED <<staging, dev, panelVars, lockVars, thumb, noteVars>>

WriteEnd(a) ==
  LET d == dev[run[a].src]
  IN  /\ At(a, "end")
      /\ db' = [db EXCEPT ![I(a)] = Hashed([@ EXCEPT !.end = d.end])]
      /\ saved' = IF a # "gui" THEN saved
                  ELSE [saved EXCEPT ![I(a)] = IF goal.op = "commit" THEN goal.act
                                               ELSE Shown(d.hist, d.end)]
      /\ torn' = IF a = "gui" THEN torn \ {I(a)} ELSE torn
      /\ Done(a)
      /\ UNCHANGED <<staging, dev, panelVars, lockVars, thumb, n, goal>>

(* dt_history_hash_write_from_history, on its own. *)
WriteHash(a) == Sql(a, "hash", Hashed(db[I(a)]))

(* DELETE FROM memory.history; _dev_add_default_modules. *)
Stage(a) ==
  LET missing(S) ==
        SetToSeq({m \in S : ~ \E k \in DOMAIN db[I(a)].rows : db[I(a)].rows[k].it.m = m})
      add == missing(AlwaysOn) \o missing(AutoOn)
  IN  /\ \/ At(a, "clear") /\ staging' = <<>>
         \/ /\ At(a, "defaults")
            /\ staging' = staging \o
                 [k \in 1..Len(add) |->
                    [img |-> I(a), num |-> 0,
                     it |-> [m |-> add[k], p |-> Default, en |-> TRUE]]]
      /\ Done(a)
      /\ UNCHANGED <<db, dev, panelVars, lockVars, thumb, noteVars>>

(* _dev_auto_apply_presets, once per image. *)
ApplyPresets(a) ==
  /\ At(a, "presets")
  /\ IF db[I(a)].applied
     THEN UNCHANGED <<db, staging, saved>>
     ELSE /\ db' = [db EXCEPT ![I(a)].applied = TRUE]
          /\ staging' = staging \o [k \in 1..Len(Presets) |->
                                      [img |-> I(a), num |-> 0, it |-> Presets[k]]]
          /\ saved' = [saved EXCEPT ![I(a)] = Shown(Presets, Len(Presets))]
  /\ Done(a)
  /\ UNCHANGED <<dev, panelVars, lockVars, thumb, n, torn, goal>>

(* _dev_merge_history: the rows are counted and numbered, main.history     *)
(* makes room for so many, and what memory.history then holds is inserted. *)
MergeShift(a) ==
  /\ At(a, "shift")
  /\ db' = [db EXCEPT ![I(a)].rows =
              [k \in DOMAIN @ |-> [@[k] EXCEPT !.num = @ + Len(staging)]]]
  /\ staging' = [k \in DOMAIN staging |-> [staging[k] EXCEPT !.num = k - 1]]
  /\ Goto(a, [run[a] EXCEPT !.cnt = Len(staging), !.todo = Tail(@)])
  /\ UNCHANGED <<dev, panelVars, lockVars, thumb, noteVars>>

MergeEnd(a) == Sql(a, "shiftend", [db[I(a)] EXCEPT !.end = @ + run[a].cnt])

MergeInsert(a) ==
  LET new(i) == SelectSeq(staging, LAMBDA r : r.img = i)
  IN  /\ At(a, "insert")
      /\ db' = [i \in Images |-> [db[i] EXCEPT !.rows = @ \o
                  [k \in DOMAIN new(i) |-> [num |-> new(i)[k].num, it |-> new(i)[k].it]]]]
      /\ Done(a)
      /\ UNCHANGED <<staging, dev, panelVars, lockVars, thumb, noteVars>>

(* The rows, in the order of num, become dev->history; always-on modules   *)
(* are always on.                                                          *)
LoadItems(a) ==
  LET h == ItemsOf(db[I(a)].rows)
  IN  /\ At(a, "load")
      /\ dev' = [dev EXCEPT
           ![a].hist = @ \o [k \in DOMAIN h |->
                               [h[k] EXCEPT !.en = @ \/ h[k].m \in AlwaysOn]],
           ![a].end = db[I(a)].end]
      /\ Done(a)
      /\ UNCHANGED <<db, staging, panelVars, lockVars, thumb, noteVars>>

(* dt_dev_pop_history_items to the end, and to 0 with the freeing of the   *)
(* items in dt_dev_reload_history_items; the freeing in leave and change,  *)
(* which leaves history_end alone.                                         *)
PopItems(a) ==
  LET d == dev["gui"]
  IN  /\ \/ /\ At(a, "popend")
            /\ mods' = Shown(d.hist, d.end) /\ UNCHANGED dev
         \/ /\ At(a, "pop0")
            /\ mods' = DefaultState
            /\ dev' = [dev EXCEPT !["gui"].hist = <<>>, !["gui"].end = 0]
         \/ /\ At(a, "free")
            /\ dev' = [dev EXCEPT !["gui"].hist = <<>>] /\ UNCHANGED mods
      /\ Done(a)
      /\ UNCHANGED <<db, staging, rec, undo, redo, lockVars, thumb, noteVars>>

(* The end of leave; dt_dev_reload_image with the next image. *)
SwitchImage(a) ==
  /\ \/ /\ At(a, "close")
        /\ dev' = [dev EXCEPT !["gui"].img = NoImage] /\ Goto(a, Idle)
     \/ /\ At(a, "reopen")
        /\ dev' = [dev EXCEPT !["gui"].img = run[a].next]
        /\ Goto(a, [run[a] EXCEPT !.img = run[a].next, !.todo = Tail(@)])
  /\ UNCHANGED <<db, staging, panelVars, lockVars, thumb, noteVars>>

(* dt_history_hash_is_mipmap_synced, dt_mipmap_cache_remove and            *)
(* dt_history_hash_set_mipmap.                                             *)
Synced(d) == d.cur # NoHash /\ d.mip = d.cur
RefreshThumb(a) ==
  /\ At(a, "thumb")
  /\ IF Synced(db[I(a)]) THEN UNCHANGED <<db, thumb>>
     ELSE /\ thumb' = [thumb EXCEPT ![I(a)] = NoThumb]
          /\ db' = [db EXCEPT ![I(a)].mip = db[I(a)].cur]
  /\ Done(a)
  /\ UNCHANGED <<staging, dev, panelVars, lockVars, noteVars>>

(* The statements of dt_history_delete_on_image_ext after the deletion. *)
ResetEnd(a) == Sql(a, "reset", [db[I(a)] EXCEPT !.end = 0, !.cur = NoHash, !.mip = NoHash])

RemovePresetFlag(a) ==
  /\ At(a, "unflag")
  /\ db' = [db EXCEPT ![I(a)].applied = FALSE]
  /\ saved' = [saved EXCEPT ![I(a)] = DefaultState]
  /\ torn' = torn \ {I(a)}
  /\ Done(a)
  /\ UNCHANGED <<staging, dev, panelVars, lockVars, thumb, n, goal>>

RemoveThumb(a) ==
  /\ At(a, "unthumb")
  /\ thumb' = [thumb EXCEPT ![I(a)] = NoThumb]
  /\ Done(a)
  /\ UNCHANGED <<db, staging, dev, panelVars, lockVars, noteVars>>

(* Mutant: the item above history_end counts too. *)
CompressedOneMore(d) ==
  SelectSeq(d.rows, LAMBDA r :
    /\ r.num <= d.end
    /\ \A k \in DOMAIN d.rows :
         d.rows[k].num <= d.end /\ d.rows[k].it.m = r.it.m => d.rows[k].num <= r.num)

(* dt_history_compress_on_image and dt_history_truncate_on_image, each one *)
(* transaction, or the deletion of the history when its end is 0, during   *)
(* which the image stays locked.                                           *)
Compressed(d) ==
  SelectSeq(d.rows, LAMBDA r :
    /\ r.num < d.end
    /\ \A k \in DOMAIN d.rows :
         d.rows[k].num < d.end /\ d.rows[k].it.m = r.it.m => d.rows[k].num <= r.num)

Truncated(d, end) == SelectSeq(d.rows, LAMBDA r : r.num < end)

Shorten(a) ==
  LET d == db[I(a)]
      shorter == IF At(a, "compress") THEN [d EXCEPT !.rows = Compressed(d)]
                 ELSE [d EXCEPT !.rows = Truncated(d, dev["gui"].end),
                                !.end = dev["gui"].end]
  IN  /\ At(a, "compress") \/ At(a, "truncate")
      /\ lock[I(a)] = Nobody
      /\ IF (IF At(a, "compress") THEN d.end ELSE dev["gui"].end) = 0
         THEN /\ lock' = [lock EXCEPT ![I(a)] = a]
              /\ Goto(a, [run[a] EXCEPT !.todo =
                            DeleteRows \o <<"hash", "unlock">> \o Tail(@)])
              /\ UNCHANGED db
         ELSE /\ db' = [db EXCEPT ![I(a)] = Hashed(shorter)]
              /\ Done(a) /\ UNCHANGED lock
      /\ UNCHANGED <<staging, dev, panelVars, safe, thumb, noteVars>>

(* The new history_end of _lib_history_truncate: MAX(num) + 1. *)
SetTop(a) ==
  LET rows == db[I(a)].rows
      top == Max({0} \cup {rows[k].num + 1 : k \in DOMAIN rows})
  IN  /\ At(a, "settop")
      /\ dev' = [dev EXCEPT !["gui"].end = top]
      /\ db' = [db EXCEPT ![I(a)].end = top]
      /\ Done(a)
      /\ UNCHANGED <<staging, panelVars, lockVars, thumb, noteVars>>

(* _lib_history_will_change_callback, _lib_history_change_callback. *)
Willed(r, d) ==
  [r EXCEPT !.prev = IF r.on /\ r.level = 0 THEN [h |-> d.hist, e |-> d.end] ELSE @,
            !.level = @ + 1]
Records(r) == r.on /\ r.level = 1
Changed(r) == [r EXCEPT !.level = @ - 1, !.on = TRUE]
UndoItem(r, d) == [before |-> r.prev, after |-> [h |-> d.hist, e |-> d.end]]

WillChange(a) ==
  /\ At(a, "will")
  /\ rec' = Willed(rec, dev["gui"])
  /\ Done(a)
  /\ UNCHANGED <<db, staging, dev, mods, undo, redo, lockVars, thumb, noteVars>>

Change(a) ==
  /\ At(a, "change")
  /\ rec' = Changed(rec)
  /\ IF Records(rec) THEN undo' = Append(undo, UndoItem(rec, dev["gui"])) /\ redo' = <<>>
     ELSE UNCHANGED <<undo, redo>>
  /\ Done(a)
  /\ UNCHANGED <<db, staging, dev, mods, lockVars, thumb, noteVars>>

Statement(a) ==
  \/ LockImage(a) \/ UnlockImage(a) \/ Threadsafe(a)
  \/ CleanupHistory(a) \/ WriteItem(a) \/ WriteEnd(a) \/ WriteHash(a)
  \/ Stage(a) \/ ApplyPresets(a) \/ MergeShift(a) \/ MergeEnd(a) \/ MergeInsert(a)
  \/ LoadItems(a)

PanelStatement(a) ==
  \/ PopItems(a) \/ SwitchImage(a) \/ RefreshThumb(a) \/ ResetEnd(a)
  \/ RemovePresetFlag(a) \/ RemoveThumb(a) \/ Shorten(a) \/ SetTop(a)
  \/ WillChange(a) \/ Change(a)

-----------------------------------------------------------------------------
(* What the user does in the darkroom. *)

Ready == run["gui"].todo = <<>> /\ n.ops < MaxOps
InDarkroom == Ready /\ dev["gui"].img # NoImage
Calls(todo, next) ==
  /\ run' = [run EXCEPT !["gui"] =
               [Idle EXCEPT !.todo = todo, !.img = dev'["gui"].img, !.next = next]]
  /\ n' = [n EXCEPT !.ops = @ + 1]

(* try_enter and enter. *)
Enter(i) ==
  /\ Ready /\ dev["gui"].img = NoImage
  /\ dev' = [dev EXCEPT !["gui"].img = i]
  /\ undo' = <<>> /\ redo' = <<>>
  /\ Calls(LoadImage(ReadHistory) \o <<"popend">>, NoImage)
  /\ goal' = NoGoal
  /\ UNCHANGED <<db, staging, mods, rec, lockVars, thumb, saved, torn>>

Leave ==
  /\ InDarkroom /\ UNCHANGED dev
  /\ Calls(LeaveProgram, NoImage)
  /\ goal' = [op |-> "commit", act |-> Shown(dev["gui"].hist, dev["gui"].end)]
  /\ UNCHANGED <<db, staging, panelVars, lockVars, thumb, saved, torn>>

ChangeImage(i) ==
  /\ InDarkroom /\ i # dev["gui"].img /\ UNCHANGED dev
  /\ undo' = <<>> /\ redo' = <<>>
  /\ Calls(ChangeProgram, i)
  /\ goal' = [op |-> "commit", act |-> Shown(dev["gui"].hist, dev["gui"].end)]
  /\ UNCHANGED <<db, staging, mods, rec, lockVars, thumb, saved, torn>>

(* _dev_add_history_item_ext: items above history_end go, but those of     *)
(* default modules stay and become active; the item of the same module on  *)
(* top is overwritten unless the module was focused again and differs.     *)
Added(d, m, s, enable, refocused) ==
  LET low == SubSeq(d.hist, 1, Min({d.end, Len(d.hist)}))
      kept == SelectSeq(SubSeq(d.hist, d.end + 1, Len(d.hist)),
                        LAMBDA it : it.m \in DefaultOn)
      h == low \o kept
      top == h[Len(h)]
      push == h = <<>> \/ top.m # m \/ (refocused /\ top.p # s.p)
      en == IF push THEN enable \/ s.en ELSE s.en \/ ~top.en
      it == [m |-> m, p |-> s.p, en |-> en]
  IN  [hist |-> IF push THEN Append(h, it) ELSE [h EXCEPT ![Len(h)] = it],
       en |-> en]

(* dt_dev_add_history_item for a module whose controls stand at s. *)
AddHistoryItem(m, s, enable, refocused) ==
  LET d == dev["gui"]
      new == Added(d, m, s, enable, refocused)
      r == Willed(rec, d)
  IN  /\ InDarkroom
      /\ dev' = [dev EXCEPT !["gui"].hist = new.hist, !["gui"].end = Len(new.hist)]
      /\ mods' = [mods EXCEPT ![m] = [p |-> s.p, en |-> new.en]]
      /\ rec' = Changed(r)
      /\ IF Records(r) THEN undo' = Append(undo, UndoItem(r, dev'["gui"])) /\ redo' = <<>>
         ELSE UNCHANGED <<undo, redo>>
      /\ n' = [n EXCEPT !.ops = @ + 1]
      /\ goal' = NoGoal
      /\ UNCHANGED <<db, staging, lockVars, run, thumb, saved, torn>>

Edit(m, p, refocused) == AddHistoryItem(m, [mods[m] EXCEPT !.p = p], TRUE, refocused)

(* dt_iop_gui_off_callback. *)
Toggle(m, refocused) ==
  m \notin AlwaysOn /\ AddHistoryItem(m, [mods[m] EXCEPT !.en = ~@], FALSE, refocused)

(* _lib_history_button_clicked_callback; there is a button for "original"  *)
(* and one for every enabled item.                                         *)
PopTo(cnt) ==
  LET d == dev["gui"]
      r == Willed(rec, d)
  IN  /\ InDarkroom
      /\ cnt > 0 => d.hist[cnt].en
      /\ dev' = [dev EXCEPT !["gui"].end = cnt]
      /\ mods' = Shown(d.hist, cnt)
      /\ rec' = Changed(r)
      /\ IF Records(r) THEN undo' = Append(undo, UndoItem(r, dev'["gui"])) /\ redo' = <<>>
         ELSE UNCHANGED <<undo, redo>>
      /\ n' = [n EXCEPT !.ops = @ + 1]
      /\ goal' = NoGoal
      /\ UNCHANGED <<db, staging, lockVars, run, thumb, saved, torn>>

(* Mutant: the snapshot is not written before the reload. *)
RestoreUnwritten(s) ==
  /\ dev' = [dev EXCEPT !["gui"].hist = s.h, !["gui"].end = s.e]
  /\ rec' = [rec EXCEPT !.on = FALSE]
  /\ Calls(ReloadHistory, NoImage)
  /\ goal' = [op |-> "undo", act |-> Shown(s.h, s.e)]
  /\ UNCHANGED <<db, staging, mods, lockVars, thumb, saved, torn>>

(* _pop_undo: the snapshot replaces the stack, is written and read again. *)
Restore(s) ==
  /\ dev' = [dev EXCEPT !["gui"].hist = s.h, !["gui"].end = s.e]
  /\ rec' = [rec EXCEPT !.on = FALSE]
  /\ Calls(WriteHistory \o ReloadHistory, NoImage)
  /\ goal' = [op |-> "undo", act |-> Shown(s.h, s.e)]
  /\ UNCHANGED <<db, staging, mods, lockVars, thumb, saved, torn>>

Undo ==
  /\ InDarkroom /\ undo # <<>>
  /\ undo' = Front(undo) /\ redo' = <<Last(undo)>> \o redo
  /\ Restore(Last(undo).before)

Redo ==
  /\ InDarkroom /\ redo # <<>>
  /\ undo' = Append(undo, Head(redo)) /\ redo' = Tail(redo)
  /\ Restore(Head(redo).after)

(* The compress button, with and without ctrl, and the reset of the panel. *)
Truncate(how) ==
  /\ InDarkroom /\ UNCHANGED dev
  /\ Calls(TruncateProgram(how), NoImage)
  /\ goal' = [op |-> IF dev["gui"].end = 0 THEN "original" ELSE "compress",
              act |-> Shown(dev["gui"].hist, dev["gui"].end)]
  /\ UNCHANGED <<db, staging, panelVars, lockVars, thumb, saved, torn>>

Reset ==
  /\ InDarkroom /\ UNCHANGED dev
  /\ Calls(<<"will">> \o DeleteHistory \o <<"change">>, NoImage)
  /\ goal' = NoGoal
  /\ UNCHANGED <<db, staging, panelVars, lockVars, thumb, saved, torn>>

-----------------------------------------------------------------------------
(* The lighttable renders a missing thumbnail; it is told apart by the     *)
(* hash of the stack it was rendered from.                                 *)
MakeThumb(i) ==
  /\ Thumbnails /\ dev["gui"].img = NoImage /\ thumb[i] = NoThumb
  /\ thumb' = [thumb EXCEPT ![i] = {Hash(db[i])}]
  /\ UNCHANGED <<db, staging, dev, panelVars, lockVars, run, noteVars>>

(* dt_imageio_export_with_flags in a worker: the history of the darkroom   *)
(* is written, then the image to export is loaded into a dt_develop_t of   *)
(* its own.                                                                *)
Export(i) ==
  /\ run["export"].todo = <<>> /\ n.exports < MaxExports
  /\ run' = [run EXCEPT !["export"] =
       [Idle EXCEPT !.todo = (IF dev["gui"].img = NoImage THEN <<>> ELSE WriteHistory)
                               \o <<"own">> \o LoadImage(ReadDetached),
                    !.img = dev["gui"].img, !.next = i]]
  /\ n' = [n EXCEPT !.exports = @ + 1]
  /\ UNCHANGED <<db, staging, dev, panelVars, lockVars, thumb, saved, torn, goal>>

OwnDevelop ==
  /\ At("export", "own")
  /\ Goto("export", [run["export"] EXCEPT !.img = run["export"].next, !.src = "export",
                                          !.todo = Tail(@)])
  /\ dev' = [dev EXCEPT !["export"] = [Closed EXCEPT !.img = run["export"].next]]
  /\ UNCHANGED <<db, staging, panelVars, lockVars, thumb, noteVars>>

(* The process dies: the database is what is left. *)
InRewrite(a) ==
  \/ At(a, "rows") \/ At(a, "end") \/ At(a, "reset") \/ At(a, "unflag")
  \/ staging # <<>> /\ (At(a, "shift") \/ At(a, "shiftend") \/ At(a, "insert"))

Crash ==
  /\ n.crashes < MaxCrashes
  /\ n' = [n EXCEPT !.crashes = @ + 1]
  /\ torn' = torn \cup {I(a) : a \in {b \in Actors : InRewrite(b)}}
  /\ staging' = <<>> /\ dev' = [a \in Actors |-> Closed] /\ mods' = DefaultState
  /\ rec' = QuietRecorder /\ undo' = <<>> /\ redo' = <<>>
  /\ lock' = [i \in Images |-> Nobody] /\ safe' = Nobody
  /\ run' = [a \in Actors |-> Idle]
  /\ goal' = NoGoal
  /\ UNCHANGED <<db, thumb, saved>>

User ==
  \/ \E i \in Images : Enter(i) \/ ChangeImage(i)
  \/ \E m \in Modules, f \in BOOLEAN : Toggle(m, f) \/ \E p \in Params : Edit(m, p, f)
  \/ \E cnt \in 0..Len(dev["gui"].hist) : PopTo(cnt)
  \/ Leave \/ Undo \/ Redo \/ Truncate("compress") \/ Truncate("truncate") \/ Reset

Next ==
  \/ User
  \/ \E a \in Actors : Statement(a)
  \/ PanelStatement("gui")
  \/ \E i \in Images : MakeThumb(i) \/ Export(i)
  \/ OwnDevelop
  \/ Crash

Spec == Init /\ [][Next]_vars

(* A thread that is inside a call keeps running. *)
Fairness ==
  /\ \A a \in Actors : WF_vars(Statement(a))
  /\ WF_vars(PanelStatement("gui")) /\ WF_vars(OwnDevelop)
LiveSpec == Spec /\ Fairness

-----------------------------------------------------------------------------
(* Properties. *)

GuiIdle == run["gui"].todo = <<>>
Settled == GuiIdle /\ dev["gui"].img # NoImage /\ lock[dev["gui"].img] = Nobody
Rewriting(i) == \E a \in Actors : I(a) = i /\ run[a].todo # <<>>

(* "commit image ops to db" in leave and dt_dev_change_image: the stack    *)
(* the user left the image with is what the database makes of it, until    *)
(* the image is opened again; also after crashes, unless one of them       *)
(* interrupted a rewrite of that very image.                               *)
CommittedKept ==
  \A i \in Images :
    i # dev["gui"].img /\ ~Rewriting(i) /\ i \notin torn => ShownInDb(i) = saved[i]

(* _pop_undo: undo and redo end with the modules as they were in the       *)
(* snapshot, in the stack, in the controls and in the database, although   *)
(* the reading in between adds default modules and shifts history_end.     *)
UndoRestores ==
  GuiIdle /\ goal.op = "undo" =>
    /\ Shown(dev["gui"].hist, dev["gui"].end) = goal.act
    /\ mods = goal.act
    /\ Settled => ShownInDb(dev["gui"].img) = goal.act

(* The tooltip of the compress button: "create a minimal history stack     *)
(* which produces the same image".  With history_end = 0 the history is    *)
(* deleted instead and the auto presets come back, so that case is left    *)
(* out.                                                                    *)
CompressKeepsImage ==
  GuiIdle /\ goal.op = "compress" =>
    /\ Shown(dev["gui"].hist, dev["gui"].end) = goal.act
    /\ Settled => ShownInDb(dev["gui"].img) = goal.act

(* Undo and redo always start from what is shown: the last record leads to *)
(* the present stack and the next redo starts from it; and the nested      *)
(* signals are balanced, so that the recorder takes the next change too.   *)
UndoChain ==
  GuiIdle /\ dev["gui"].img # NoImage =>
    LET now == Shown(dev["gui"].hist, dev["gui"].end)
    IN  /\ rec.on /\ rec.level = 0
        /\ undo # <<>> => Shown(Last(undo).after.h, Last(undo).after.e) = now
        /\ redo # <<>> => Shown(Head(redo).before.h, Head(redo).before.e) = now

(* "all history are properly numbered without a gap" (src/libs/history.c): *)
(* the rows of the image in an idle darkroom are numbered from 0, whatever *)
(* was compressed, merged or interrupted before.                           *)
NumberedFromZero ==
  Settled =>
    LET rows == db[dev["gui"].img].rows
    IN  {rows[k].num : k \in DOMAIN rows} = 0..(Len(rows) - 1)

(* leave: "be sure light table will regenerate the thumbnail".  Back in    *)
(* the lighttable, a thumbnail stands for a stack with the hash of the one *)
(* in the database, whatever was done and undone in between.  (A crash in  *)
(* the darkroom leaves the old one until the next visit.)                  *)
ThumbnailInStep ==
  \A i \in Images :
    dev["gui"].img = NoImage /\ ~Rewriting(i) /\ n.crashes = 0 =>
      thumb[i] \subseteq {Hash(db[i])}

(* The image locks and dev_threadsafe, which the darkroom and an export    *)
(* take around the same reads and writes, never leave one of them waiting  *)
(* for ever.                                                               *)
CallsReturn == \A a \in Actors : run[a].todo # <<>> ~> run[a].todo = <<>>

=============================================================================
