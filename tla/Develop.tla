------------------------------ MODULE Develop ------------------------------
(***************************************************************************)
(* The darkroom: how the GUI thread and the jobs of the full and of the     *)
(* preview pipe agree on what has to be rendered again.  Sources are        *)
(* src/develop/develop.c, src/develop/pixelpipe_hb.c, src/develop/imageop.c *)
(* and src/views/darkroom.c.                                                *)
(*                                                                         *)
(* The history stack, with the image it belongs to and the GUI state of the*)
(* modules that is committed with it, is a version number; zoom numbers the*)
(* visible region.  A job holds the mutex of its pipe from JobLock to its  *)
(* end.  The flags it shares with the GUI thread (status, changed,         *)
(* timestamps, loading flags) are not protected, so a job is cut into steps*)
(* between its accesses to them.  The reserved worker of a pipe has room   *)
(* for one waiting job; a second request replaces the first. The second    *)
(* preview, of a second window, follows the code of the first and is left  *)
(* out.                                                                    *)
(*                                                                         *)
(* While a job holds its pipe neither dev->gui_leaving nor pipe->shutdown   *)
(* can become set, because both are set with the mutexes of the pipes held; *)
(* the tests for them inside a run are therefore left out.                  *)
(***************************************************************************)
EXTENDS Integers

CONSTANTS
    Ops,        \* what the user does
    MaxTime,    \* bound on dev->timestamp
    MipReady,   \* whether the preview's input may be in the mipmap cache
    Readable    \* whether the image file can always be read

Pipes == {"full", "preview"}

ASSUME DevelopAssumption ==
    /\ Ops \subseteq {"edit", "zoom", "configure", "refresh", "reload",
                      "change", "leave"}
    /\ MaxTime \in Nat
    /\ MipReady \in SUBSET BOOLEAN \ {{}}
    /\ Readable \in BOOLEAN

VARIABLES
    history, zoom, timestamp,          \* what should be shown
    changed, committed, input_stamp,   \* of each pipe
    status,                            \* image_status and preview_status
    pending, pc, work, err, shown,     \* of each pipe: job, run and backbuf
    processing,                        \* dev->pipe->processing
    image_loading, image_force_reload, preview_loading, preview_input_changed,
    mipf,                              \* the preview's input is loaded
    redraw, gui

pipeVars == <<changed, committed, input_stamp, status, pending, pc, work, err,
              shown, processing>>
loadVars == <<image_loading, image_force_reload, preview_loading,
              preview_input_changed, mipf>>
userVars == <<history, zoom, timestamp>>
vars == <<pipeVars, loadVars, userVars, redraw, gui>>

(* A pipe that has been created but not synched shows the modules' defaults. *)
Defaults == 0

(* enter() of the darkroom has loaded the image and popped its history.     *)
Init ==
    /\ history = 1 /\ zoom = 0 /\ timestamp = 1
    /\ changed = [p \in Pipes |-> {"synch"}]
    /\ committed = [p \in Pipes |-> Defaults]
    /\ input_stamp = [p \in Pipes |-> 0]
    /\ status = [p \in Pipes |-> "dirty"]
    /\ pending = [p \in Pipes |-> FALSE]
    /\ pc = [p \in Pipes |-> "idle"]
    /\ work = [p \in Pipes |-> [history |-> Defaults, zoom |-> 0]]
    /\ err = [p \in Pipes |-> FALSE]
    /\ shown = [p \in Pipes |-> [history |-> Defaults, zoom |-> 0]]
    /\ processing = FALSE
    /\ image_loading = TRUE /\ preview_loading = TRUE
    /\ image_force_reload = FALSE /\ preview_input_changed = FALSE
    /\ mipf \in MipReady
    /\ redraw = TRUE /\ gui = "darkroom"

----------------------------------------------------------------------------
(* The GUI thread.                                                         *)

\* the preview is forgotten
FlaggedFull(flag, pipes) ==
    [p \in Pipes |-> IF p = "full" THEN changed[p] \cup {flag} ELSE changed[p]]

Flagged(flag, pipes) ==
    [p \in Pipes |-> IF p \in pipes THEN changed[p] \cup {flag} ELSE changed[p]]

\* the stamp of the preview is left alone
InvalidateImageOnly ==
    /\ status' = [status EXCEPT !["full"] = "dirty"]
    /\ timestamp' = timestamp + 1
    /\ UNCHANGED input_stamp

(* dt_dev_invalidate *)
Invalidate ==
    /\ status' = [status EXCEPT !["full"] = "dirty"]
    /\ timestamp' = timestamp + 1
    /\ input_stamp' = [input_stamp EXCEPT !["preview"] = timestamp + 1]

(* dt_dev_invalidate_all *)
InvalidateAll ==
    /\ status' = [p \in Pipes |-> "dirty"]
    /\ timestamp' = timestamp + 1
    /\ UNCHANGED input_stamp

User(op) ==
    /\ op \in Ops /\ gui = "darkroom" /\ timestamp < MaxTime
    /\ redraw' = TRUE
    /\ UNCHANGED <<committed, pending, pc, work, err, shown, processing, gui>>

(* dt_dev_add_history_item; the other ways to change the history (undo,     *)
(* masks, going back in the stack) raise the same flags.                    *)
Edit ==
    /\ User("edit")
    /\ history' = history + 1
    /\ changed' = Flagged("synch", Pipes)
    /\ InvalidateAll
    /\ UNCHANGED <<loadVars, zoom>>

(* Panning or zooming the centre image. *)
Zoom ==
    /\ User("zoom")
    /\ zoom' = zoom + 1
    /\ Invalidate
    /\ UNCHANGED <<changed, loadVars, history>>

(* dt_dev_configure: the window has another size. *)
Configure ==
    /\ User("configure")
    /\ zoom' = zoom + 1
    /\ changed' = Flagged("zoomed", Pipes)
    /\ Invalidate
    /\ UNCHANGED <<loadVars, history>>

(* dt_iop_refresh_preview after the GUI state of a module has changed; it   *)
(* flags the full pipe only.                                                *)
RefreshPreview ==
    /\ User("refresh")
    /\ history' = history + 1
    /\ changed' = Flagged("synch", {"full"})
    /\ InvalidateAll
    /\ UNCHANGED <<loadVars, zoom>>

(* dt_dev_reload_image, when a style is applied to the open image.          *)
ReloadImage ==
    /\ User("reload")
    /\ image_force_reload' = TRUE /\ image_loading' = TRUE
    /\ preview_loading' = TRUE
    /\ changed' = Flagged("synch", {"full"})
    /\ Invalidate
    /\ UNCHANGED <<preview_input_changed, mipf, history, zoom>>

(* No job holds the mutex of the pipe. *)
Unlocked(p) == pc[p] \in {"idle", "want"}

(* dt_dev_change_image gives up when a pipe is busy; otherwise it reloads,  *)
(* recreates the nodes of the pipes, and reads and pops the new history.    *)
ChangeImage ==
    /\ "change" \in Ops /\ gui = "darkroom" /\ timestamp + 2 < MaxTime
    /\ ~image_loading /\ \A p \in Pipes : Unlocked(p)
    /\ image_force_reload' = TRUE /\ image_loading' = TRUE
    /\ preview_loading' = TRUE /\ mipf' \in MipReady
    /\ history' = history + 1
    /\ committed' = [p \in Pipes |-> Defaults]
    /\ changed' = Flagged("synch", Pipes)
    /\ timestamp' = timestamp + 3
    /\ input_stamp' = [input_stamp EXCEPT !["preview"] = timestamp + 1]
    /\ status' = [p \in Pipes |-> "dirty"]
    /\ redraw' = TRUE
    /\ UNCHANGED <<zoom, pending, pc, work, err, shown, processing,
                   preview_input_changed, gui>>

(* leave() waits for the preview's mutex and, holding it, for the mutex of  *)
(* the full pipe.  Then it frees the modules.                               *)
LeaveWaits ==
    /\ "leave" \in Ops /\ gui = "darkroom" /\ Unlocked("preview")
    /\ gui' = "leaving"
    /\ UNCHANGED <<pipeVars, loadVars, userVars, redraw>>

Leave ==
    /\ gui = "leaving" /\ Unlocked("full")
    /\ gui' = "left"
    /\ committed' = [p \in Pipes |-> Defaults]
    /\ UNCHANGED <<changed, input_stamp, status, pending, pc, work, err, shown,
                   processing, loadVars, userVars, redraw>>

Outdated(p) == status[p] \in {"dirty", "invalid"}

(* expose() of the darkroom asks for the runs that are due; the full pipe   *)
(* is not asked while it is processing.                                     *)
Expose ==
    /\ redraw /\ gui = "darkroom"
    /\ redraw' = FALSE
    /\ pending' = [p \in Pipes |->
         \/ pending[p]
         \/ /\ p = "full" /\ ~processing
            /\ \/ Outdated("full")
               \/ input_stamp["full"] < input_stamp["preview"]
         \/ /\ p = "preview"
            /\ \/ Outdated("preview")
               \/ input_stamp["full"] > input_stamp["preview"]]
    /\ UNCHANGED <<changed, committed, input_stamp, status, pc, work, err,
                   shown, processing, loadVars, userVars, gui>>

----------------------------------------------------------------------------
(* The jobs of the pipes.                                                  *)

Goto(p, l) == pc' = [pc EXCEPT ![p] = l]

(* The worker takes the waiting job.  The preview gives up, before it asks  *)
(* for its mutex, while the image is loading.                               *)
JobPick(p) ==
    /\ pending[p] /\ pc[p] = "idle"
    /\ pending' = [pending EXCEPT ![p] = FALSE]
    /\ Goto(p, IF p = "preview" /\ image_loading THEN "idle" ELSE "want")
    /\ UNCHANGED <<changed, committed, input_stamp, status, work, err, shown,
                   processing, loadVars, userVars, redraw, gui>>

\* a job that waited while the darkroom was left goes on
JobLockLeft(p) ==
    /\ pc[p] = "want"
    /\ p = "preview" => gui # "leaving"
    /\ status' = [status EXCEPT ![p] = "running"]
    /\ Goto(p, "load")
    /\ UNCHANGED <<changed, committed, input_stamp, pending, work, err, shown,
                   processing, loadVars, userVars, redraw, gui>>

(* The job gets the mutex of its pipe; it ends at once when the darkroom    *)
(* has been left meanwhile.                                                 *)
JobLock(p) ==
    /\ pc[p] = "want"
    /\ p = "preview" => gui # "leaving"
    /\ IF gui = "left"
       THEN Goto(p, "idle") /\ UNCHANGED <<status, input_stamp>>
       ELSE /\ Goto(p, "load")
            /\ status' = [status EXCEPT ![p] = "running"]
            /\ input_stamp' = IF p = "preview"
                              THEN [input_stamp EXCEPT ![p] = timestamp]
                              ELSE input_stamp
    /\ UNCHANGED <<changed, committed, pending, work, err, shown, processing,
                   loadVars, userVars, redraw, gui>>

(* The full image is there.  While the image is loading the nodes of the    *)
(* pipe are created anew and the preview is told to follow.                 *)
FullLoaded ==
    /\ pc["full"] = "load"
    /\ IF image_loading
       THEN /\ committed' = [committed EXCEPT !["full"] = Defaults]
            /\ image_force_reload' = FALSE
            /\ preview_input_changed' = TRUE
            /\ status' = [status EXCEPT !["preview"] = "dirty"]
            /\ changed' = Flagged("synch", Pipes)
       ELSE UNCHANGED <<committed, image_force_reload, preview_input_changed,
                        status, changed>>
    /\ Goto("full", "restart")
    /\ UNCHANGED <<input_stamp, pending, work, err, shown, processing,
                   image_loading, preview_loading, mipf, userVars, redraw, gui>>

(* The input of the preview is there. *)
PreviewLoaded ==
    /\ pc["preview"] = "load" /\ mipf
    /\ committed' = IF preview_loading
                    THEN [committed EXCEPT !["preview"] = Defaults]
                    ELSE committed
    /\ preview_loading' = FALSE /\ preview_input_changed' = FALSE
    /\ Goto("preview", "restart")
    /\ UNCHANGED <<changed, input_stamp, status, pending, work, err, shown,
                   processing, image_loading, image_force_reload, mipf,
                   userVars, redraw, gui>>

(* There is no input: dt_control_log_busy_leave has the centre redrawn ...  *)
NotLoaded(p) ==
    /\ pc[p] = "load"
    /\ IF p = "full" THEN ~Readable ELSE ~mipf
    /\ redraw' = TRUE /\ Goto(p, "unloaded")
    /\ UNCHANGED <<changed, committed, input_stamp, status, pending, work, err,
                   shown, processing, loadVars, userVars, gui>>

(* ... before the job marks its result as outdated and ends.                *)
JobFailed(p) ==
    /\ pc[p] \in {"unloaded", "interrupted"}
    /\ status' = [status EXCEPT
                    ![p] = IF pc[p] = "unloaded" THEN "dirty" ELSE "invalid"]
    /\ Goto(p, "idle")
    /\ UNCHANGED <<changed, committed, input_stamp, pending, work, err, shown,
                   processing, loadVars, userVars, redraw, gui>>

(* The load job that was started meanwhile finishes; nobody in the darkroom *)
(* listens to the signal it raises.                                         *)
MipLoaded ==
    /\ ~mipf /\ mipf' = TRUE
    /\ UNCHANGED <<pipeVars, image_loading, image_force_reload, preview_loading,
                   preview_input_changed, userVars, redraw, gui>>

(* restart: the full pipe notes the time of its input.                      *)
Restart(p) ==
    /\ pc[p] = "restart"
    /\ input_stamp' = IF p = "full"
                      THEN [input_stamp EXCEPT ![p] = timestamp]
                      ELSE input_stamp
    /\ Goto(p, "commit")
    /\ UNCHANGED <<changed, committed, status, pending, work, err, shown,
                   processing, loadVars, userVars, redraw, gui>>

\* the flags stay
ChangeKeepsFlags(p) ==
    /\ committed' = IF "synch" \in changed[p]
                    THEN [committed EXCEPT ![p] = history] ELSE committed
    /\ UNCHANGED changed

(* dt_dev_pixelpipe_change, under the history mutex: a flagged pipe gets    *)
(* the parameters of the history, and the flags are cleared.                *)
Change(p) ==
    /\ committed' = IF "synch" \in changed[p]
                    THEN [committed EXCEPT ![p] = history] ELSE committed
    /\ changed' = [changed EXCEPT ![p] = {}]

Commit(p) ==
    /\ pc[p] = "commit"
    /\ Change(p)
    /\ Goto(p, "begin")
    /\ UNCHANGED <<input_stamp, status, pending, work, err, shown, processing,
                   loadVars, userVars, redraw, gui>>

(* The region to render is worked out and dt_dev_pixelpipe_process starts.  *)
Begin(p) ==
    /\ pc[p] = "begin"
    /\ work' = [work EXCEPT ![p] =
                  [history |-> committed[p],
                   zoom |-> IF p = "full" THEN zoom ELSE 0]]
    /\ processing' = (processing \/ p = "full")
    /\ Goto(p, "look")
    /\ UNCHANGED <<changed, committed, input_stamp, status, pending, err, shown,
                   loadVars, userVars, redraw, gui>>

(* dt_iop_breakpoint and the tests that follow it in process_rec.           *)
Interrupted(p) ==
    \/ "synch" \in changed[p]
    \/ p = "full" /\ (changed[p] = {"zoomed"} \/ image_force_reload)
    \/ p = "preview" /\ preview_loading

(* The way down of the recursion tests for an interruption before any pixel *)
(* is computed.                                                             *)
Look(p) ==
    /\ pc[p] = "look"
    /\ err' = [err EXCEPT ![p] = Interrupted(p)]
    /\ Goto(p, "render")
    /\ UNCHANGED <<changed, committed, input_stamp, status, pending, work, shown,
                   processing, loadVars, userVars, redraw, gui>>

(* The pixels are computed; then dt_dev_pixelpipe_process calls             *)
(* dt_dev_pixelpipe_change once more and publishes the buffer.              *)
Render(p) ==
    /\ pc[p] = "render"
    /\ Change(p)
    /\ shown' = IF err[p] THEN shown ELSE [shown EXCEPT ![p] = work[p]]
    /\ processing' = (processing /\ p # "full")
    /\ Goto(p, "check")
    /\ UNCHANGED <<input_stamp, status, pending, work, err, loadVars, userVars,
                   redraw, gui>>

(* The job decides whether to start again.  An interrupted one ends when    *)
(* the image was changed, with the redraw asked for before the status is    *)
(* set; a finished run of the full pipe starts again when it was flagged.   *)
Check(p) ==
    LET reload == IF p = "full" THEN image_force_reload
                  ELSE preview_loading \/ preview_input_changed
        flagged == p = "full" /\ changed[p] # {}
    IN  /\ pc[p] = "check"
        /\ redraw' = (redraw \/ (err[p] /\ reload))
        /\ Goto(p, IF err[p] THEN IF reload THEN "interrupted" ELSE "restart"
                   ELSE IF flagged THEN "restart" ELSE "done")
        /\ UNCHANGED <<changed, committed, input_stamp, status, pending, work,
                       err, shown, processing, loadVars, userVars, gui>>

(* cool, we got a new image *)
JobDone(p) ==
    /\ pc[p] = "done"
    /\ status' = [status EXCEPT ![p] = "valid"]
    /\ image_loading' = (image_loading /\ p # "full")
    /\ redraw' = TRUE
    /\ Goto(p, "idle")
    /\ UNCHANGED <<changed, committed, input_stamp, pending, work, err, shown,
                   processing, image_force_reload, preview_loading,
                   preview_input_changed, mipf, userVars, gui>>

JobStep(p) ==
    \/ JobPick(p) \/ JobLock(p) \/ NotLoaded(p) \/ JobFailed(p)
    \/ Restart(p) \/ Commit(p) \/ Begin(p) \/ Look(p) \/ Render(p)
    \/ Check(p) \/ JobDone(p)

UserStep ==
    \/ Edit \/ Zoom \/ Configure \/ RefreshPreview \/ ReloadImage \/ ChangeImage
    \/ LeaveWaits

Next ==
    \/ UserStep \/ Leave \/ Expose
    \/ FullLoaded \/ PreviewLoaded \/ MipLoaded
    \/ \E p \in Pipes : JobStep(p)

Spec == Init /\ [][Next]_vars

(* The worker threads, the main loop and the load job keep going; the user  *)
(* need not do anything.                                                    *)
Fairness ==
    /\ WF_vars(Expose) /\ WF_vars(Leave) /\ WF_vars(MipLoaded)
    /\ WF_vars(FullLoaded) /\ WF_vars(PreviewLoaded)
    /\ \A p \in Pipes : WF_vars(JobStep(p))

LiveSpec == Spec /\ Fairness

----------------------------------------------------------------------------
(* Properties.                                                             *)

(* leave() frees the modules and the history: from then on no job is past   *)
(* the test of gui_leaving that follows its lock.                           *)
NoRunAfterLeave == gui = "left" => \A p \in Pipes : Unlocked(p)

(* The timestamps tell the truth about the region: when the full pipe is    *)
(* done and its stamp is not behind the preview's, expose() asks for no new *)
(* run, and indeed the region on the screen is the one the user chose.      *)
StampedRegionShown ==
    /\ Unlocked("full") /\ status["full"] = "valid"
    /\ input_stamp["full"] >= input_stamp["preview"]
    => shown["full"].zoom = zoom

(* A backbuf is never made of the default parameters of freshly created     *)
(* nodes: whoever creates the nodes of a pipe also has them synched with    *)
(* the history before the run.                                              *)
NeverDefaults ==
    \A p \in Pipes : status[p] = "valid" => shown[p].history # Defaults

(* The jobs come to an end, however often they were interrupted and started *)
(* again, once the user pauses.                                             *)
JobsEnd == <>[](\A p \in Pipes : pc[p] = "idle" /\ ~pending[p])

(* After the user has panned, zoomed, resized the window or gone on to      *)
(* another image, the full pipe ends up with that image and region.         *)
RegionShown == <>[](shown["full"] = [history |-> history, zoom |-> zoom])

============================================================================
