------------------------------ MODULE Library ------------------------------
(***************************************************************************)
(* The library seen from the lighttable: the tables main.images,           *)
(* main.color_labels, main.selected_images and memory.collected_images,    *)
(* the groups with their representatives and the one expanded group, the   *)
(* thumbnails and what each of them remembers of its image, and undo and   *)
(* redo of ratings and colour labels.  The handlers of the GUI thread run  *)
(* against the job that removes images, whose statements are steps of      *)
(* their own and whose signals reach the GUI thread later.                 *)
(*                                                                         *)
(* Image structs are written through to the database, and the struct of a  *)
(* removed image stays cached: dt_image_remove() drops it and then caches  *)
(* it again by leaving the group.  The image cache is taken to be large    *)
(* enough, the table of thumbnails to show the whole collection, and the   *)
(* mark that hides a single image while it is removed is left out.  Each   *)
(* call of a handler is one group of the undo list, see Undo.              *)
(***************************************************************************)
EXTENDS Integers, Sequences, FiniteSetsExt

CONSTANTS
  Imported,   \* the number of images that were imported
  MaxId,      \* bound on the ids of duplicates
  Ratings,    \* the stars the user gives
  Colors,     \* the colour labels the user sets
  DoubleTap,  \* preference rating_one_double_tap
  MaxOps      \* bound on the operations of the user

ASSUME LibraryConstants ==
  /\ Imported \in 1 .. MaxId /\ MaxId \in Nat /\ MaxOps \in Nat
  /\ Ratings \subseteq 1 .. 5 /\ DoubleTap \in BOOLEAN

VARIABLES
  rows,       \* the ids in main.images
  img,        \* group_id and flags of every id ever used
  labels,     \* main.color_labels
  selected,   \* main.selected_images
  collected,  \* memory.collected_images
  thumbs,     \* per thumbnail shown: groupid, rating and is_grouped
  grouping, expanded,  \* of darktable.gui
  posted,     \* signals of the job that wait for the main loop
  job,        \* the job that removes images
  undo, redo, \* the lists of dt_undo_t, last change last
  n,          \* operations of the user so far
  met,        \* history variable: a handler met a removal, see Meets
  blind       \* history variable: images given stars while rejected

vars == <<rows, img, labels, selected, collected, thumbs, grouping, expanded,
          posted, job, undo, redo, n, met, blind>>

None == 0     \* -1 in the code
Reject == 6
Idle == [ids |-> {}, left |-> {}, pc |-> "idle", old |-> None, new |-> None]

(* dt_ratings_get *)
View(x) == IF x.rejected THEN Reject ELSE x.stars

(* The images of a group, for the group_id in gr *)
Members(gr, R, g) == {j \in R : gr[j] = g}

----------------------------------------------------------------------------
(* The collection and the thumbnails.                                      *)

(* Everything but rejected images. *)
NoGroup(im, R) == {i \in R : ~im.flags[i].rejected}

(* The representative, or the image nearest to it that is not filtered out. *)
Distance(im, i) ==
  LET d == i - im.group[i] IN IF d < 0 THEN 2 * (-d) + 1 ELSE 2 * d

Nearest(im, R) ==
  {i \in NoGroup(im, R) :
     \A j \in Members(im.group, NoGroup(im, R), im.group[i]) :
       Distance(im, i) <= Distance(im, j)}

Query(im, R, e, grp) ==
  IF grp
  THEN Members(im.group, NoGroup(im, R), e) \cup Nearest(im, R) \cup (R \cap {e})
  ELSE NoGroup(im, R)

(* _image_get_infos *)
Look(im, R, i) ==
  [group |-> im.group[i], rating |-> View(im.flags[i]),
   is_grouped |-> i \in R /\ Members(im.group, R, im.group[i]) # {i}]

(* DT_SIGNAL_IMAGE_INFO_CHANGED reaches the thumbnails. *)
InfoChanged(th, im, R, ids) ==
  [i \in DOMAIN th |-> IF i \in ids THEN Look(im, R, i) ELSE th[i]]

(* DT_SIGNAL_COLLECTION_CHANGED: thumbnails that are still shown are kept,  *)
(* and only those in the list of the signal look at their images again.     *)
CollectionChanged(th, im, R, c, ids) ==
  [i \in c |-> IF i \in DOMAIN th \ ids THEN th[i] ELSE Look(im, R, i)]

(* dt_collection_update_query in the GUI thread, after a handler that made  *)
(* the images im, the rows R, the selection sel and the thumbnails th.      *)
UpdateQuery(im, R, sel, th, e, grp, ids) ==
  /\ img' = im /\ rows' = R /\ expanded' = e /\ grouping' = grp
  /\ selected' = sel \cap NoGroup(im, R)
  /\ collected' = Query(im, R, e, grp)
  /\ thumbs' = CollectionChanged(th, im, R, collected', ids)

(* A library that may have groups already, each led by its first image. *)
Init ==
  /\ rows = 1 .. Imported
  /\ \E g \in {h \in [rows -> rows] :
             \A i \in rows : h[i] <= i /\ h[h[i]] = h[i]} :
       img = [group |-> g,
              flags |-> [i \in rows |-> [stars |-> 0, rejected |-> FALSE]]]
  /\ labels = {} /\ selected = {}
  /\ grouping \in BOOLEAN /\ expanded = None
  /\ collected = Query(img, rows, expanded, grouping)
  /\ thumbs = [i \in collected |-> Look(img, rows, i)]
  /\ posted = <<>> /\ job = Idle
  /\ undo = <<>> /\ redo = <<>>
  /\ n = 0 /\ met = FALSE /\ blind = {}

(* The user does something. *)
Op == n < MaxOps /\ n' = n + 1

----------------------------------------------------------------------------
(* Groups.                                                                 *)

(* What dt_grouping_remove_from_group makes of group_id, the images that it *)
(* signals as changed, and the group of the others, which it returns.       *)
LeaveOnly(gr, i) ==
  [group |-> [gr EXCEPT ![i] = i], info |-> {i, gr[i]}, new |-> gr[i]]

RemoveFromGroup(gr, i) ==
  LET others == Members(gr, rows, i) \ {i}
      new == IF others = {} THEN None ELSE Min(others)
  IN IF gr[i] = i
     THEN [group |-> [j \in DOMAIN gr |-> IF j \in others THEN new ELSE gr[j]],
           info |-> others, new |-> new]
     ELSE LeaveOnly(gr, i)

Grouped(gr) == [img EXCEPT !.group = gr]

(* The same, and dt_grouping_add_to_group, in the GUI thread, where signals *)
(* arrive at once.  A state has the groups and the thumbnails.              *)
Leave(s, i) ==
  LET r == RemoveFromGroup(s.group, i)
  IN [group |-> r.group, th |-> InfoChanged(s.th, Grouped(r.group), rows, r.info)]

AddToGroup(s, g, i) ==
  LET t == Leave(s, i)
      gr == [t.group EXCEPT ![i] = g]
  IN [group |-> gr, th |-> InfoChanged(t.th, Grouped(gr), rows, {i})]

Now == [group |-> img.group, th |-> thumbs]

(* The images in S, one after the other, join the group g, or leave theirs. *)
Move(s, g, i) == IF g = None THEN Leave(s, i) ELSE AddToGroup(s, g, i)
MoveAll(S, g) ==
  LET f[i \in 0 .. MaxId] ==
        IF i = 0 THEN Now ELSE IF i \in S THEN Move(f[i - 1], g, i) ELSE f[i - 1]
  IN f[MaxId]

(* A handler is overtaken by a removal: it falls between the steps of      *)
(* dt_image_remove(), or works on images that are gone, or on a thumbnail  *)
(* that has not heard yet that its group has another representative.       *)
Meets(ids) ==
  \/ job.pc \in {"expand", "delete"}
  \/ \E i \in ids : \/ i \notin rows
                    \/ i \in DOMAIN thumbs /\ thumbs[i].group # img.group[i]

(* _group_helper_function *)
Group ==
  LET g == IF expanded # None \/ selected = {} THEN expanded ELSE Min(selected)
      s == MoveAll(selected, g)
  IN /\ Op
     /\ UpdateQuery(Grouped(s.group), rows, selected, s.th,
                    IF grouping THEN g ELSE None, grouping, selected)
     /\ met' = (met \/ Meets(selected))
     /\ UNCHANGED <<labels, posted, job, undo, redo, blind>>

(* _ungroup_helper_function *)
Ungroup ==
  LET s == MoveAll(selected, None)
  IN /\ Op
     /\ UpdateQuery(Grouped(s.group), rows, selected, s.th, None, grouping,
                    selected)
     /\ met' = (met \/ Meets(selected))
     /\ UNCHANGED <<labels, posted, job, undo, redo, blind>>

(* dt_grouping_change_representative *)
Led(i) ==
  LET all == Members(img.group, rows, img.group[i])
      gr == [j \in DOMAIN img.group |-> IF j \in all THEN i ELSE img.group[j]]
  IN [group |-> gr, th |-> InfoChanged(thumbs, Grouped(gr), rows, all)]

(* _event_grouping_release: a click on the group button of a thumbnail      *)
(* collapses the group, gives it another representative or expands it.      *)
GroupButton(i) ==
  LET here == ~grouping \/ thumbs[i].group = expanded
      collapse == here /\ i = expanded /\ grouping
      s == IF here /\ ~collapse THEN Led(i) ELSE Now
      e == IF collapse THEN None ELSE IF here THEN i ELSE thumbs[i].group
  IN /\ Op /\ thumbs[i].is_grouped
     /\ UpdateQuery(Grouped(s.group), rows, selected, s.th, e, grouping, {})
     /\ met' = (met \/ Meets({i}))
     /\ UNCHANGED <<labels, posted, job, undo, redo, blind>>

(* The same with shift or control. *)
GroupButtonSelects(i) ==
  /\ Op /\ thumbs[i].is_grouped
  /\ UpdateQuery(img, rows, selected \cup Members(img.group, rows, thumbs[i].group),
                 thumbs, expanded, grouping, {})
  /\ UNCHANGED <<labels, posted, job, undo, redo, met, blind>>

(* _lib_filter_grouping_button_clicked *)
GroupingButton ==
  /\ Op
  /\ UpdateQuery(img, rows, selected, thumbs, None, ~grouping, {})
  /\ UNCHANGED <<labels, posted, job, undo, redo, met, blind>>

(* dt_image_duplicate_with_version *)
Duplicate(i) ==
  LET new == Max(DOMAIN img.flags) + 1
      g == img.group[i]
      R == rows \cup {new}
      Copied(f) == [j \in 1 .. new |-> IF j = new THEN f[i] ELSE f[j]]
      im == [group |-> Copied(img.group), flags |-> Copied(img.flags)]
      th == InfoChanged(thumbs, [im EXCEPT !.group[new] = new], R, {g})
  IN /\ Op /\ new <= MaxId
     /\ labels' = labels \cup {<<new, c>> : c \in {d \in Colors : <<i, d>> \in labels}}
     /\ UpdateQuery(im, R, selected, th, IF grouping THEN g ELSE expanded,
                    grouping, {})
     /\ met' = (met \/ Meets({i}))
     /\ UNCHANGED <<posted, job, undo, redo, blind>>

----------------------------------------------------------------------------
(* The selection.                                                          *)

Collapsed(i) == grouping /\ expanded # img.group[i]

(* _selection_select *)
Selects(i) ==
  IF Collapsed(i) THEN Members(img.group, NoGroup(img, rows), img.group[i]) ELSE {i}

(* dt_selection_deselect *)
Deselects(i) ==
  IF Collapsed(i) THEN Members(img.group, rows, img.group[i]) ELSE {i}

SetSelection(S) ==
  /\ Op /\ selected' = S
  /\ UNCHANGED <<rows, img, labels, collected, thumbs, grouping, expanded,
                 posted, job, undo, redo, met, blind>>

(* dt_selection_select_single, dt_selection_toggle, dt_selection_select_all *)
(* and dt_selection_clear *)
SelectSingle(i) == SetSelection(Selects(i))
Toggle(i) == SetSelection(IF i \in selected THEN selected \ Deselects(i)
                          ELSE selected \cup Selects(i))
SelectAll == SetSelection(NoGroup(img, rows))
SelectNone == selected # {} /\ SetSelection({})

(* dt_view_get_images_to_act_on with the mouse over the image m or none.    *)
(* For a collapsed group the format of the query is NULL, and there is no   *)
(* query and nothing to act on.                                             *)
ToActOn(m) ==
  {i \in IF m = None \/ m \in selected THEN collected \cap selected ELSE {m} :
     ~Collapsed(i)}

----------------------------------------------------------------------------
(* Ratings and colour labels.  A change has, per image, what the undo list *)
(* records: before and after.  What the image was and what it was left     *)
(* with are history variables.                                             *)

(* _ratings_apply_to_image *)
Rated(x, r) ==
  IF r = Reject THEN [x EXCEPT !.rejected = ~@]
  ELSE [x EXCEPT !.rejected = FALSE,
                 !.stars = IF ~DoubleTap /\ View(x) = 1 /\ r = 1 THEN 0 ELSE r]

(* _ratings_apply *)
RatingStars(x, r) == [before |-> x.stars, after |-> r, was |-> x, left |-> Rated(x, r)]
Rating(x, r) == [before |-> View(x), after |-> r, was |-> x, left |-> Rated(x, r)]

ApplyRatings(r) ==
  [img EXCEPT !.flags = [i \in DOMAIN img.flags |->
     IF i \in DOMAIN r THEN Rated(img.flags[i], r[i]) ELSE img.flags[i]]]

(* dt_undo_record *)
Record(kind, of) == undo' = Append(undo, [kind |-> kind, of |-> of]) /\ redo' = <<>>

(* _event_rating_release with dt_ratings_apply_on_image *)
Rate(i, rating) ==
  LET r == IF ~DoubleTap /\ View(img.flags[i]) = 1 /\ rating = 1 THEN 0 ELSE rating
      all == {i} \cup IF Collapsed(i) THEN Members(img.group, rows, img.group[i]) ELSE {}
  IN /\ Op
     /\ Record("rating", [j \in all |-> Rating(img.flags[j], r)])
     /\ UpdateQuery(ApplyRatings([j \in all |-> r]), rows, selected, thumbs,
                    expanded, grouping, {i})
     /\ met' = (met \/ Meets({i}))
     /\ blind' = blind \cup {j \in all : r # Reject /\ img.flags[j].rejected}
     /\ UNCHANGED <<labels, posted, job>>

(* dt_colorlabels_get_labels *)
LabelsOf(i) == {c \in Colors : <<i, c>> \in labels}

(* _pop_undo_execute for the images of a change *)
ApplyLabels(ids, before, after) ==
  labels' = (labels \cup UNION {{i} \X (after[i] \ before[i]) : i \in ids})
            \ UNION {{i} \X (before[i] \ after[i]) : i \in ids}

(* dt_colorlabels_toggle_label_on_list *)
ToggleLabel(ids, c) ==
  LET before == [i \in ids |-> LabelsOf(i)]
      after == [i \in ids |-> IF c \in before[i] THEN before[i] \ {c}
                              ELSE before[i] \cup {c}]
  IN /\ Op
     /\ ApplyLabels(ids, before, after)
     /\ Record("label", [i \in ids |-> [before |-> before[i], after |-> after[i],
                                        was |-> before[i], left |-> after[i]]])
     /\ UpdateQuery(img, rows, selected, thumbs, expanded, grouping, ids)
     /\ UNCHANGED <<posted, job, met, blind>>

(* _pop_undo of ratings and of labels, and the end of _undo_do_undo_redo    *)
(* with the images it lists for the update of the collection.               *)
PopListed(change, f, t, listed) ==
  LET ids == DOMAIN change.of
      im == IF change.kind = "rating" THEN ApplyRatings(t) ELSE img
  IN /\ IF change.kind = "label" THEN ApplyLabels(ids, f, t) ELSE UNCHANGED labels
     /\ UpdateQuery(im, rows, selected, thumbs, expanded, grouping, listed)
     /\ met' = (met \/ Meets(ids))
     /\ UNCHANGED <<posted, job, blind>>

PopUnlisted(change, f, t) == PopListed(change, f, t, {})
Pop(change, f, t) == PopListed(change, f, t, DOMAIN change.of)

Before(change) == [i \in DOMAIN change.of |-> change.of[i].before]
After(change) == [i \in DOMAIN change.of |-> change.of[i].after]

Undo ==
  LET change == undo[Len(undo)]
  IN /\ Op /\ undo # <<>>
     /\ Pop(change, After(change), Before(change))
     /\ undo' = SubSeq(undo, 1, Len(undo) - 1) /\ redo' = Append(redo, change)

Redo ==
  LET change == redo[Len(redo)]
  IN /\ Op /\ redo # <<>>
     /\ Pop(change, Before(change), After(change))
     /\ redo' = SubSeq(redo, 1, Len(redo) - 1) /\ undo' = Append(undo, change)

----------------------------------------------------------------------------
(* The job that removes images: dt_image_remove() for one after the other. *)

(* dt_control_remove_images *)
RemoveImages(ids) ==
  /\ Op /\ job = Idle /\ ids # {}
  /\ job' = [Idle EXCEPT !.ids = ids, !.left = ids, !.pc = "regroup"]
  /\ UNCHANGED <<rows, img, labels, selected, collected, thumbs, grouping,
                 expanded, posted, undo, redo, met, blind>>

Post(kind, ids) == posted' = Append(posted, [kind |-> kind, ids |-> ids])

Regroup ==
  LET i == Min(job.left)
      r == RemoveFromGroup(img.group, i)
  IN /\ job.pc = "regroup"
     /\ img' = Grouped(r.group)
     /\ Post("info", r.info)
     /\ job' = [job EXCEPT !.pc = "expand", !.old = img.group[i], !.new = r.new]
     /\ UNCHANGED <<rows, labels, selected, collected, thumbs, grouping,
                    expanded, undo, redo, n, met, blind>>

ReexpandKeeps ==
  /\ job.pc = "expand"
  /\ job' = [job EXCEPT !.pc = "delete"]
  /\ UNCHANGED <<rows, img, labels, selected, collected, thumbs, grouping,
                 expanded, posted, undo, redo, n, met, blind>>

Reexpand ==
  /\ job.pc = "expand"
  /\ expanded' = IF expanded = job.old THEN job.new ELSE expanded
  /\ job' = [job EXCEPT !.pc = "delete"]
  /\ UNCHANGED <<rows, img, labels, selected, collected, thumbs, grouping,
                 posted, undo, redo, n, met, blind>>

Delete ==
  LET i == Min(job.left)
      left == job.left \ {i}
  IN /\ job.pc = "delete"
     /\ rows' = rows \ {i}
     /\ labels' = labels \ ({i} \X Colors)
     /\ selected' = selected \ {i}
     /\ job' = [job EXCEPT !.left = left,
                           !.pc = IF left = {} THEN "end" ELSE "regroup"]
     /\ UNCHANGED <<img, collected, thumbs, grouping, expanded, posted, undo,
                    redo, n, met, blind>>

(* dt_collection_update_query in the job's thread *)
Finish ==
  /\ job.pc = "end"
  /\ selected' = selected \cap NoGroup(img, rows)
  /\ collected' = Query(img, rows, expanded, grouping)
  /\ Post("collection", job.ids)
  /\ job' = Idle
  /\ UNCHANGED <<rows, img, labels, thumbs, grouping, expanded, undo, redo, n,
                 met, blind>>

(* The main loop delivers a signal. *)
Deliver ==
  LET s == Head(posted)
  IN /\ posted # <<>> /\ posted' = Tail(posted)
     /\ thumbs' = IF s.kind = "info" THEN InfoChanged(thumbs, img, rows, s.ids)
                  ELSE CollectionChanged(thumbs, img, rows, collected, s.ids)
     /\ UNCHANGED <<rows, img, labels, selected, collected, grouping, expanded,
                    job, undo, redo, n, met, blind>>

User ==
  \/ Group \/ Ungroup \/ GroupingButton \/ SelectAll \/ SelectNone
  \/ Undo \/ Redo
  \/ \E i \in rows : Duplicate(i)
  \/ \E i \in DOMAIN thumbs :
       \/ GroupButton(i) \/ GroupButtonSelects(i) \/ SelectSingle(i) \/ Toggle(i)
       \/ \E r \in Ratings \cup {Reject} : Rate(i, r)
  \/ \E m \in DOMAIN thumbs \cup {None} :
       \/ RemoveImages(ToActOn(m))
       \/ \E c \in Colors : ToggleLabel(ToActOn(m), c)

Job == Regroup \/ Reexpand \/ Delete \/ Finish

Next == User \/ Job \/ Deliver

Spec == Init /\ [][Next]_vars

----------------------------------------------------------------------------
(* Properties.                                                             *)

(* Every image is in a group whose representative exists and represents    *)
(* itself, and so is the expanded group named by it, unless a handler met  *)
(* a removal: whichever way groups are made, left, taken apart image by    *)
(* image or given another representative, and also when the job removes    *)
(* the representative of the expanded group.  Otherwise images would be in *)
(* no group that can be shown, and the next to be grouped would join them. *)
GroupsLed ==
  ~met => \A g \in {img.group[i] : i \in rows} \cup ({expanded} \ {None}) :
            g \in rows /\ img.group[g] = g

(* When the job is over and its signals have arrived, the thumbnails are    *)
(* those of the collection, and each has the present group and rating of    *)
(* its image, although only the images named by a signal are looked at.     *)
ThumbsTrue ==
  ~met /\ job = Idle /\ posted = <<>> =>
    /\ DOMAIN thumbs = collected
    /\ \A i \in collected : /\ thumbs[i].group = img.group[i]
                            /\ thumbs[i].rating = View(img.flags[i])

(* Undo and redo bring back what was: the stars and the reject flag of an   *)
(* image, and its labels, are those its last change left it with, and those *)
(* its next change to be redone has started from, although a rating is      *)
(* recorded as the key pressed and rejecting and the first star are         *)
(* toggles.  An image that is given stars while it is rejected is left out: *)
(* undoing that hides the new stars under the reject flag again.            *)
Seen(kind, i) == IF kind = "rating" THEN img.flags[i] ELSE LabelsOf(i)
About(change, kind, i) == change.kind = kind /\ i \in DOMAIN change.of
LastOf(list, kind, i) ==
  {k \in 1 .. Len(list) :
     About(list[k], kind, i) /\ \A l \in k + 1 .. Len(list) : ~About(list[l], kind, i)}
UndoSeen ==
  \A i \in rows, kind \in {"rating", "label"} :
    kind = "label" \/ i \notin blind =>
      /\ \A k \in LastOf(undo, kind, i) : undo[k].of[i].left = Seen(kind, i)
      /\ \A k \in LastOf(redo, kind, i) : redo[k].of[i].was = Seen(kind, i)

============================================================================
