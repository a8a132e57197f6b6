--------------------------- MODULE DevelopProofs ---------------------------
(***************************************************************************)
(* Proofs about the darkroom's jobs, for any number of user operations:    *)
(* what the timestamps say of the region on the screen, that no job is in  *)
(* a pipe whose modules leave() has freed, and that no default parameters   *)
(* are shown.                                                              *)
(***************************************************************************)
EXTENDS Develop, TLAPS

(* The leaves are for Zenon; those that need more name the SMT solver. *)
USE ZenonT(60)

Labels == {"idle", "want", "load", "unloaded", "restart", "commit", "begin",
           "look", "render", "check", "interrupted", "done"}
Regions == [history : Nat, zoom : Nat]

(* What the proofs need of the types. *)
DTypeOK ==
  /\ history \in Nat \ {0} /\ zoom \in Nat /\ timestamp \in Nat
  /\ changed \in [Pipes -> SUBSET {"synch", "zoomed"}]
  /\ committed \in [Pipes -> Nat] /\ input_stamp \in [Pipes -> Nat]
  /\ status \in [Pipes -> {"dirty", "running", "valid", "invalid"}]
  /\ pc \in [Pipes -> Labels]
  /\ work \in [Pipes -> Regions] /\ shown \in [Pipes -> Regions]
  /\ err \in [Pipes -> BOOLEAN]

-----------------------------------------------------------------------------
(* The types hold initially. *)
LEMMA TypeInit == Init => DTypeOK
BY SMTT(60) DEF Init, DTypeOK, Pipes, Labels, Regions, Defaults

(* The GUI thread keeps the types. *)
LEMMA UserTypes == ASSUME DTypeOK, UserStep \/ Leave \/ Expose PROVE DTypeOK'
<1>1. CASE Edit
  BY SMTT(60), <1>1 DEF DTypeOK, Edit, User, Flagged, InvalidateAll, Pipes
<1>2. CASE Zoom
  BY SMTT(60), <1>2 DEF DTypeOK, Zoom, User, Invalidate, Pipes
<1>3. CASE Configure
  BY SMTT(60), <1>3 DEF DTypeOK, Configure, User, Flagged, Invalidate, Pipes
<1>4. CASE RefreshPreview
  BY SMTT(60), <1>4 DEF DTypeOK, RefreshPreview, User, Flagged, InvalidateAll, Pipes
<1>5. CASE ReloadImage
  BY SMTT(60), <1>5 DEF DTypeOK, ReloadImage, User, Flagged, Invalidate, Pipes
<1>6. CASE ChangeImage
  BY SMTT(60), <1>6 DEF DTypeOK, ChangeImage, Flagged, Pipes, Defaults
<1>7. CASE LeaveWaits \/ Leave \/ Expose
  BY SMTT(60), <1>7 DEF DTypeOK, LeaveWaits, Leave, Expose, Pipes, Defaults, pipeVars, userVars
<1> QED BY <1>1, <1>2, <1>3, <1>4, <1>5, <1>6, <1>7 DEF UserStep

(* The jobs and the loading keep the types. *)
LEMMA JobTypes ==
  ASSUME DTypeOK, FullLoaded \/ PreviewLoaded \/ MipLoaded \/ \E p \in Pipes : JobStep(p)
  PROVE  DTypeOK'
<1>1. CASE FullLoaded
  BY SMTT(60), <1>1 DEF DTypeOK, FullLoaded, Flagged, Goto, Labels, Pipes, Defaults, userVars
<1>2. CASE PreviewLoaded
  BY <1>2 DEF DTypeOK, PreviewLoaded, Goto, Labels, Pipes, Defaults, userVars
<1>3. CASE MipLoaded
  BY <1>3 DEF DTypeOK, MipLoaded, pipeVars, userVars
<1>4. ASSUME NEW p \in Pipes, JobStep(p) PROVE DTypeOK'
  <2>1. CASE JobPick(p) \/ JobLock(p)
    BY SMTT(60), <2>1 DEF DTypeOK, JobPick, JobLock, Goto, Labels, userVars
  <2>2. CASE NotLoaded(p) \/ JobFailed(p) \/ JobDone(p)
    BY <2>2 DEF DTypeOK, NotLoaded, JobFailed, JobDone, Goto, Labels, userVars
  <2>3. CASE Restart(p)
    BY <2>3 DEF DTypeOK, Restart, Goto, Labels, userVars
  <2>4. CASE Commit(p)
    BY <2>4 DEF DTypeOK, Commit, Change, Goto, Labels, userVars
  <2>5. CASE Begin(p)
    BY <2>5 DEF DTypeOK, Begin, Goto, Labels, Regions, userVars
  <2>6. CASE Look(p)
    BY <2>6 DEF DTypeOK, Look, Interrupted, Goto, Labels, userVars
  <2>7. CASE Render(p)
    BY <2>7 DEF DTypeOK, Render, Change, Goto, Labels, userVars
  <2>8. CASE Check(p)
    BY <2>8 DEF DTypeOK, Check, Goto, Labels, userVars
  <2> QED BY <1>4, <2>1, <2>2, <2>3, <2>4, <2>5, <2>6, <2>7, <2>8 DEF JobStep
<1> QED BY <1>1, <1>2, <1>3, <1>4

(* The types hold throughout. *)
LEMMA TypeStep == ASSUME DTypeOK, [Next]_vars PROVE DTypeOK'
<1>1. CASE UNCHANGED vars
  BY <1>1 DEF DTypeOK, vars, pipeVars, userVars
<1> QED BY <1>1, UserTypes, JobTypes DEF Next

-----------------------------------------------------------------------------
(* While leave() waits it holds the mutex of the preview, and once it has   *)
(* left no job is past its lock.                                            *)
LeaveInv ==
  /\ gui \in {"leaving", "left"} => Unlocked("preview")
  /\ gui = "left" => Unlocked("full")

(* The stamp of the full pipe has caught up with the preview's. *)
CaughtUp == input_stamp["full"] >= input_stamp["preview"]

(* No stamp is ahead of the clock, and a run whose stamp has caught up works*)
(* on, and then has published, the region the user chose.                   *)
RegionInv ==
  /\ \A p \in Pipes : input_stamp[p] <= timestamp
  /\ CaughtUp =>
       /\ pc["full"] \in {"look", "render"} => work["full"].zoom = zoom
       /\ pc["full"] = "check" /\ ~err["full"] => shown["full"].zoom = zoom
       /\ pc["full"] = "done" => shown["full"].zoom = zoom
       /\ Unlocked("full") /\ status["full"] = "valid" => shown["full"].zoom = zoom
  /\ ~Unlocked("full") => status["full"] # "valid"

(* Nodes with default parameters are flagged until they are synched, and    *)
(* only a pipe without a job, or with one that has not loaded its input, can*)
(* be waiting for new nodes.  A run past its commit works on a history.     *)
DefaultsInv ==
  /\ gui # "left" => \A p \in Pipes : committed[p] = Defaults => "synch" \in changed[p]
  /\ preview_loading => /\ "synch" \in changed["preview"]
                        /\ pc["preview"] \in {"idle", "want", "load", "unloaded"}
  /\ \A p \in Pipes :
       /\ pc[p] \in {"begin", "look", "render", "check", "done"} => committed[p] # Defaults
       /\ pc[p] \in {"look", "render"} => work[p].history # Defaults
       /\ pc[p] = "check" /\ ~err[p] => shown[p].history # Defaults
       /\ pc[p] = "done" => shown[p].history # Defaults
       /\ status[p] = "valid" => shown[p].history # Defaults

(* A job that wants its pipe ends once the darkroom is left. *)
LEMMA LeaveStep ==
  ASSUME DTypeOK, LeaveInv, [Next]_vars PROVE LeaveInv'
<1> USE DEF DTypeOK, LeaveInv, Unlocked, Pipes
<1>1. CASE Edit
  BY <1>1 DEF Edit, User, Flagged, InvalidateAll
<1>2. CASE Zoom
  BY <1>2 DEF Zoom, User, Invalidate
<1>3. CASE Configure
  BY <1>3 DEF Configure, User, Flagged, Invalidate
<1>4. CASE RefreshPreview
  BY <1>4 DEF RefreshPreview, User, Flagged, InvalidateAll
<1>5. CASE ReloadImage
  BY <1>5 DEF ReloadImage, User, Flagged, Invalidate
<1>6. CASE ChangeImage
  BY <1>6 DEF ChangeImage, Flagged, Defaults
<1>7. CASE LeaveWaits
  BY <1>7 DEF LeaveWaits, pipeVars, userVars, loadVars
<1>8. CASE Leave
  BY <1>8 DEF Leave, userVars, loadVars
<1>9. CASE Expose
  BY <1>9 DEF Expose, userVars, loadVars
<1>10. CASE FullLoaded
  BY <1>10 DEF FullLoaded, Flagged, Goto, userVars, Defaults
<1>11. CASE PreviewLoaded
  BY <1>11 DEF PreviewLoaded, Goto, userVars, Defaults
<1>12. CASE MipLoaded
  BY <1>12 DEF MipLoaded, pipeVars, userVars
<1>13. ASSUME NEW p \in Pipes, JobStep(p) PROVE LeaveInv'
  <2>1. CASE JobPick(p)
    BY <2>1 DEF JobPick, Goto, userVars, loadVars
  <2>2. CASE JobLock(p)
    BY <2>2 DEF JobLock, Goto, userVars, loadVars
  <2>3. CASE NotLoaded(p)
    BY <2>3 DEF NotLoaded, Goto, userVars, loadVars
  <2>4. CASE JobFailed(p)
    BY <2>4 DEF JobFailed, Goto, userVars, loadVars
  <2>5. CASE Restart(p)
    BY <2>5 DEF Restart, Goto, userVars, loadVars
  <2>6. CASE Commit(p)
    BY <2>6 DEF Commit, Goto, userVars, loadVars, Change
  <2>7. CASE Begin(p)
    BY <2>7 DEF Begin, Goto, userVars, loadVars
  <2>8. CASE Look(p)
    BY <2>8 DEF Look, Goto, userVars, loadVars
  <2>9. CASE Render(p)
    BY <2>9 DEF Render, Goto, userVars, loadVars, Change
  <2>10. CASE Check(p)
    BY <2>10 DEF Check, Goto, userVars, loadVars
  <2>11. CASE JobDone(p)
    BY <2>11 DEF JobDone, Goto, userVars, loadVars
  <2> HIDE DEF DTypeOK, LeaveInv, Unlocked, Pipes
  <2> QED BY <1>13, <2>1, <2>2, <2>3, <2>4, <2>5, <2>6, <2>7, <2>8, <2>9, <2>10, <2>11 DEF JobStep
<1>14. CASE UNCHANGED vars
  BY <1>14 DEF vars, pipeVars, userVars, loadVars
<1> HIDE DEF DTypeOK, LeaveInv, Unlocked, Pipes
<1> QED BY <1>1, <1>2, <1>3, <1>4, <1>5, <1>6, <1>7, <1>8, <1>9, <1>10, <1>11, <1>12, <1>13, <1>14 DEF Next, UserStep

(* Whatever moves the region moves the preview's stamp past the full pipe's. *)
LEMMA RegionStep ==
  ASSUME DTypeOK, RegionInv, [Next]_vars PROVE RegionInv'
<1> USE DEF DTypeOK, RegionInv, CaughtUp, Unlocked, Pipes, Labels, Regions
<1>1. CASE Edit
  BY SMTT(60), <1>1 DEF Edit, User, Flagged, InvalidateAll
<1>2. CASE Zoom
  BY SMTT(60), <1>2 DEF Zoom, User, Invalidate
<1>3. CASE Configure
  BY SMTT(60), <1>3 DEF Configure, User, Flagged, Invalidate
<1>4. CASE RefreshPreview
  BY SMTT(60), <1>4 DEF RefreshPreview, User, Flagged, InvalidateAll
<1>5. CASE ReloadImage
  BY SMTT(60), <1>5 DEF ReloadImage, User, Flagged, Invalidate
<1>6. CASE ChangeImage
  BY SMTT(60), <1>6 DEF ChangeImage, Flagged, Defaults
<1>7. CASE LeaveWaits
  BY <1>7 DEF LeaveWaits, pipeVars, userVars, loadVars
<1>8. CASE Leave
  BY <1>8 DEF Leave, userVars, loadVars
<1>9. CASE Expose
  BY <1>9 DEF Expose, userVars, loadVars
<1>10. CASE FullLoaded
  BY <1>10 DEF FullLoaded, Flagged, Goto, userVars, Defaults
<1>11. CASE PreviewLoaded
  BY <1>11 DEF PreviewLoaded, Goto, userVars, Defaults
<1>12. CASE MipLoaded
  BY <1>12 DEF MipLoaded, pipeVars, userVars
<1>13. ASSUME NEW p \in Pipes, JobStep(p) PROVE RegionInv'
  <2>1. CASE JobPick(p)
    BY <2>1 DEF JobPick, Goto, userVars, loadVars
  <2>2. CASE JobLock(p)
    BY SMTT(60), <2>2 DEF JobLock, Goto, userVars, loadVars
  <2>3. CASE NotLoaded(p)
    BY <2>3 DEF NotLoaded, Goto, userVars, loadVars
  <2>4. CASE JobFailed(p)
    BY <2>4 DEF JobFailed, Goto, userVars, loadVars
  <2>5. CASE Restart(p)
    BY SMTT(60), <2>5 DEF Restart, Goto, userVars, loadVars
  <2>6. CASE Commit(p)
    BY <2>6 DEF Commit, Goto, userVars, loadVars, Change
  <2>7. CASE Begin(p)
    BY <2>7 DEF Begin, Goto, userVars, loadVars
  <2>8. CASE Look(p)
    BY <2>8 DEF Look, Goto, userVars, loadVars
  <2>9. CASE Render(p)
    BY <2>9 DEF Render, Goto, userVars, loadVars, Change
  <2>10. CASE Check(p)
    BY <2>10 DEF Check, Goto, userVars, loadVars
  <2>11. CASE JobDone(p)
    BY <2>11 DEF JobDone, Goto, userVars, loadVars
  <2> HIDE DEF DTypeOK, RegionInv, CaughtUp, Unlocked, Pipes, Labels, Regions
  <2> QED BY <1>13, <2>1, <2>2, <2>3, <2>4, <2>5, <2>6, <2>7, <2>8, <2>9, <2>10, <2>11 DEF JobStep
<1>14. CASE UNCHANGED vars
  BY <1>14 DEF vars, pipeVars, userVars, loadVars
<1> HIDE DEF DTypeOK, RegionInv, CaughtUp, Unlocked, Pipes, Labels, Regions
<1> QED BY <1>1, <1>2, <1>3, <1>4, <1>5, <1>6, <1>7, <1>8, <1>9, <1>10, <1>11, <1>12, <1>13, <1>14 DEF Next, UserStep

(* Whoever creates nodes has flagged them, unless the image is reloaded. *)
LEMMA DefaultsStep ==
  ASSUME DTypeOK, "reload" \notin Ops, LeaveInv, DefaultsInv, [Next]_vars PROVE DefaultsInv'
<1> USE DEF DTypeOK, DefaultsInv, Unlocked, Pipes, Labels, Regions, Defaults
<1>1. CASE Edit
  BY <1>1 DEF Edit, User, loadVars, Flagged, InvalidateAll
<1>2. CASE Zoom
  BY <1>2 DEF Zoom, User, loadVars, Invalidate
<1>3. CASE Configure
  BY <1>3 DEF Configure, User, loadVars, Flagged, Invalidate
<1>4. CASE RefreshPreview
  BY <1>4 DEF RefreshPreview, User, loadVars, Flagged, InvalidateAll
<1>5. CASE ReloadImage
  BY <1>5 DEF ReloadImage, User, Flagged, Invalidate
<1>6. CASE ChangeImage
  BY <1>6 DEF ChangeImage, Flagged
<1>7. CASE LeaveWaits
  BY <1>7 DEF LeaveWaits, pipeVars, userVars, loadVars
<1>8. CASE Leave
  BY <1>8 DEF Leave, LeaveInv, userVars, loadVars
<1>9. CASE Expose
  BY <1>9 DEF Expose, userVars, loadVars
<1>10. CASE FullLoaded
  BY SMTT(60), <1>10 DEF FullLoaded, Flagged, Goto, userVars
<1>11. CASE PreviewLoaded
  BY <1>11 DEF PreviewLoaded, Goto, userVars
<1>12. CASE MipLoaded
  BY <1>12 DEF MipLoaded, pipeVars, userVars
<1>13. ASSUME NEW p \in Pipes, JobStep(p) PROVE DefaultsInv'
  <2>1. CASE JobPick(p)
    BY SMTT(60), <2>1 DEF JobPick, Goto, userVars, loadVars
  <2>2. CASE JobLock(p)
    BY SMTT(60), <2>2 DEF JobLock, Goto, userVars, loadVars
  <2>3. CASE NotLoaded(p)
    BY SMTT(60), <2>3 DEF NotLoaded, Goto, userVars, loadVars
  <2>4. CASE JobFailed(p)
    BY SMTT(60), <2>4 DEF JobFailed, Goto, userVars, loadVars
  <2>5. CASE Restart(p)
    BY SMTT(60), <2>5 DEF Restart, Goto, userVars, loadVars
  <2>6. CASE Commit(p)
    BY SMTT(60), <2>6 DEF Commit, LeaveInv, Goto, userVars, loadVars, Change
  <2>7. CASE Begin(p)
    BY SMTT(60), <2>7 DEF Begin, Goto, userVars, loadVars
  <2>8. CASE Look(p)
    BY SMTT(60), <2>8 DEF Look, Goto, userVars, loadVars
  <2>9. CASE Render(p)
    BY SMTT(60), <2>9 DEF Render, Goto, userVars, loadVars, Change
  <2>10. CASE Check(p)
    BY SMTT(60), <2>10 DEF Check, Goto, userVars, loadVars
  <2>11. CASE JobDone(p)
    BY SMTT(60), <2>11 DEF JobDone, Goto, userVars, loadVars
  <2> HIDE DEF DTypeOK, DefaultsInv, Unlocked, Pipes, Labels, Regions, Defaults
  <2> QED BY <1>13, <2>1, <2>2, <2>3, <2>4, <2>5, <2>6, <2>7, <2>8, <2>9, <2>10, <2>11 DEF JobStep
<1>14. CASE UNCHANGED vars
  BY <1>14 DEF vars, pipeVars, userVars, loadVars
<1> HIDE DEF DTypeOK, DefaultsInv, Unlocked, Pipes, Labels, Regions, Defaults
<1> QED BY <1>1, <1>2, <1>3, <1>4, <1>5, <1>6, <1>7, <1>8, <1>9, <1>10, <1>11, <1>12, <1>13, <1>14 DEF Next, UserStep


-----------------------------------------------------------------------------
(* What holds of the darkroom whatever the user does. *)
DInv == DTypeOK /\ LeaveInv /\ RegionInv

(* The invariant of the darkroom holds throughout, for every set of user    *)
(* operations and any number of them.                                       *)
THEOREM DarkroomInvariant == Spec => []DInv
<1>1. Init => DInv
  BY SMTT(60), TypeInit DEF Init, DInv, LeaveInv, RegionInv, CaughtUp, Unlocked, Pipes, Defaults
<1>2. DInv /\ [Next]_vars => DInv'
  BY TypeStep, LeaveStep, RegionStep DEF DInv
<1> QED BY <1>1, <1>2, PTL DEF Spec

(* Once leave() has freed the modules no job is past its test of            *)
(* gui_leaving, in any interleaving of the two jobs with the GUI thread.    *)
THEOREM LeftDarkroomIdle == Spec => []NoRunAfterLeave
<1>1. DInv => NoRunAfterLeave
  BY DEF DInv, LeaveInv, NoRunAfterLeave, Pipes
<1> QED BY <1>1, DarkroomInvariant, PTL

(* When expose() sees a valid result whose stamp has caught up, the region  *)
(* on the screen is the one the user chose last, however many pans, zooms,  *)
(* resizes and restarts came before.                                        *)
THEOREM StampsTellTheRegion == Spec => []StampedRegionShown
<1>1. DInv => StampedRegionShown
  BY DEF DInv, RegionInv, CaughtUp, StampedRegionShown
<1> QED BY <1>1, DarkroomInvariant, PTL

(* Unless the image is reloaded under a running job, no valid result is made*)
(* of the defaults of freshly created nodes.                                *)
THEOREM DefaultsNeverShown ==
  ASSUME "reload" \notin Ops
  PROVE  Spec => []NeverDefaults
<1>1. Init => DefaultsInv
  BY SMTT(60) DEF Init, DefaultsInv, Pipes, Defaults
<1>2. DInv /\ DefaultsInv /\ [Next]_vars => DefaultsInv'
  BY DefaultsStep DEF DInv
<1>3. DefaultsInv => NeverDefaults
  BY DEF DefaultsInv, NeverDefaults
<1> QED BY <1>1, <1>2, <1>3, DarkroomInvariant, PTL DEF Spec
=============================================================================
