--------------------------- MODULE LibraryProofs ---------------------------
(***************************************************************************)
(* Undo and redo of ratings and colour labels bring back what was, groups  *)
(* keep their representatives, and the thumbnails show what the images     *)
(* are, for any number of images and operations, with the removing job in  *)
(* between.                                                                *)
(***************************************************************************)
EXTENDS Library, SequenceTheorems, WellFoundedInduction, TLAPS

(* The leaves are for Zenon; those that need more name the SMT solver. *)
USE ZenonT(60)

Kinds == {"rating", "label"}
Flags == [stars : 0 .. 5, rejected : BOOLEAN]
RatingEntries == [before : 0 .. Reject, after : 0 .. Reject, was : Flags, left : Flags]
LabelSets == SUBSET Colors
LabelEntries ==
  [before : LabelSets, after : LabelSets, was : LabelSets, left : LabelSets]

(* The ids ever used. *)
Ids == DOMAIN img.flags

(* What the undo list records of an image fits what the image was and was  *)
(* left with.                                                              *)
FairRating(e, i, B) ==
  /\ e \in RatingEntries
  /\ e.before = View(e.was) /\ e.left = Rated(e.was, e.after)
  /\ i \in B \/ ~e.was.rejected \/ e.after = Reject
FairLabel(e) == e \in LabelEntries /\ e.before = e.was /\ e.after = e.left
Fair(c, D, B) ==
  /\ c.kind \in Kinds /\ DOMAIN c.of \subseteq D
  /\ c.kind = "rating" => \A i \in DOMAIN c.of : FairRating(c.of[i], i, B)
  /\ c.kind = "label" => \A i \in DOMAIN c.of : FairLabel(c.of[i])
IsList(s) == s \in Seq({s[k] : k \in 1 .. Len(s)}) /\ Len(s) \in Nat
FairList(s, D, B) == IsList(s) /\ \A k \in 1 .. Len(s) : Fair(s[k], D, B)

(* The changes of an image follow one another: k and l are two of them     *)
(* with none between them.                                                 *)
Follows(s, kind, i, k, l) ==
  /\ k < l /\ About(s[k], kind, i) /\ About(s[l], kind, i)
  /\ \A j \in k + 1 .. l - 1 : ~About(s[j], kind, i)
UndoChain(s, kind, i, v) ==
  /\ \A k \in LastOf(s, kind, i) : s[k].of[i].left = v
  /\ \A k, l \in 1 .. Len(s) :
       Follows(s, kind, i, k, l) => s[k].of[i].left = s[l].of[i].was
RedoChain(s, kind, i, v) ==
  /\ \A k \in LastOf(s, kind, i) : s[k].of[i].was = v
  /\ \A k, l \in 1 .. Len(s) :
       Follows(s, kind, i, k, l) => s[k].of[i].was = s[l].of[i].left

Shape ==
  /\ img = [group |-> img.group, flags |-> img.flags]
  /\ \E m \in Nat \ {0} : Ids = 1 .. m
  /\ img.flags \in [Ids -> Flags]
  /\ rows \subseteq Ids /\ collected \subseteq Ids /\ DOMAIN thumbs \subseteq Ids
Chains ==
  \A i \in rows, kind \in Kinds : kind = "label" \/ i \notin blind =>
    UndoChain(undo, kind, i, Seen(kind, i)) /\ RedoChain(redo, kind, i, Seen(kind, i))
LInv ==
  Shape /\ FairList(undo, Ids, blind) /\ FairList(redo, Ids, blind) /\ Chains
-----------------------------------------------------------------------------
(* What recording and popping do to a list. *)
Front(s) == SubSeq(s, 1, Len(s) - 1)
Last(s) == s[Len(s)]

(* Recording a change puts it last and keeps the others. *)
LEMMA Appended ==
  ASSUME NEW s, NEW c, IsList(s)
  PROVE  /\ IsList(Append(s, c)) /\ Len(Append(s, c)) = Len(s) + 1
         /\ Append(s, c)[Len(s) + 1] = c
         /\ \A k \in 1 .. Len(s) : Append(s, c)[k] = s[k]
<1> DEFINE S == {s[k] : k \in 1 .. Len(s)}
           T == S \cup {c}
           a == Append(s, c)
<1>1. s \in Seq(T) /\ c \in T /\ Len(s) \in Nat
  BY SMTT(60) DEF IsList
<1> HIDE DEF T, S
<1>2. /\ a \in Seq(T) /\ Len(a) = Len(s) + 1 /\ a[Len(s) + 1] = c
      /\ \A k \in 1 .. Len(s) : a[k] = s[k]
  BY SMTT(60), <1>1
<1>3. a \in Seq({a[k] : k \in 1 .. Len(a)}) /\ Len(a) \in Nat
  BY SMTT(60), <1>2
<1> QED BY <1>2, <1>3 DEF IsList

(* Popping takes the last change and keeps the others. *)
LEMMA Popped ==
  ASSUME NEW s, IsList(s), s # <<>>
  PROVE  /\ IsList(Front(s)) /\ Len(Front(s)) = Len(s) - 1
         /\ Last(s) = s[Len(s)] /\ Len(s) \in Nat \ {0}
         /\ \A k \in 1 .. Len(s) - 1 : Front(s)[k] = s[k]
<1> DEFINE S == {s[k] : k \in 1 .. Len(s)}
           a == Front(s)
<1>1. s \in Seq(S) /\ Len(s) \in Nat
  BY DEF IsList
<1> HIDE DEF S
<1>2. Len(s) # 0
  BY SMTT(60), <1>1
<1>3. a = SubSeq(s, 1, Len(s) - 1)
  BY DEF Front
<1>4. /\ a \in Seq(S) /\ Len(a) = Len(s) - 1
      /\ \A k \in 1 .. Len(s) - 1 : a[k] = s[k]
  <2> DEFINE N == Len(s) - 1
             b == SubSeq(s, 1, N)
  <2>1. N \in Nat
    BY SMTT(60), <1>1, <1>2
  <2>2. \A k \in 1 .. N : s[k] \in S
    BY SMTT(60), <1>1, <2>1
  <2>3. a = b
    BY <1>3
  <2> HIDE DEF N, a
  <2>4. 1 \in Int /\ N \in Int
    BY SMTT(60), <2>1
  <2>5. /\ b \in Seq(S) /\ Len(b) = IF 1 <= N THEN N - 1 + 1 ELSE 0
        /\ \A k \in 1 .. N - 1 + 1 : b[k] = s[1 + k - 1]
    BY SMTT(60), <2>2, <2>4, SubSeqProperties
  <2> HIDE DEF b
  <2>6. Len(b) = N
    BY SMTT(60), <2>1, <2>5
  <2>7. \A k \in 1 .. N : b[k] = s[k]
    BY SMTT(60), <2>1, <2>5
  <2> QED BY <2>3, <2>5, <2>6, <2>7 DEF N
<1>5. a \in Seq({a[k] : k \in 1 .. Len(a)}) /\ Len(a) \in Nat
  BY SMTT(60), <1>1, <1>2, <1>4
<1>6. Last(s) = s[Len(s)] /\ Len(s) \in Nat \ {0}
  BY <1>1, <1>2 DEF Last
<1> QED BY <1>4, <1>5, <1>6 DEF IsList

(* A change is recorded, undone or done again: the chain goes on with it   *)
(* if it starts from where the chain ends.                                 *)
LEMMA UndoPushed ==
  ASSUME NEW s, NEW c, NEW kind, NEW i, NEW v, NEW w, IsList(s),
         UndoChain(s, kind, i, v),
         About(c, kind, i) => c.of[i].was = v /\ c.of[i].left = w,
         ~About(c, kind, i) => w = v
  PROVE  UndoChain(Append(s, c), kind, i, w)
<1> DEFINE a == Append(s, c)
           N == Len(s) + 1
<1>1. /\ Len(a) = N /\ a[N] = c /\ Len(s) \in Nat
      /\ \A k \in 1 .. Len(s) : a[k] = s[k]
  BY Appended DEF IsList
<1> HIDE DEF a
<1>2. ASSUME NEW k \in LastOf(a, kind, i) PROVE a[k].of[i].left = w
  <2>1. k \in 1 .. N /\ About(a[k], kind, i) /\ \A l \in k + 1 .. N : ~About(a[l], kind, i)
    BY <1>1, <1>2 DEF LastOf
  <2>2. CASE k = N
    BY <1>1, <2>1, <2>2
  <2>3. CASE k # N
    <3>1. k \in 1 .. Len(s) /\ N \in k + 1 .. N /\ \A l \in k + 1 .. Len(s) : l \in 1 .. Len(s) /\ l \in k + 1 .. N
      BY SMTT(60), <1>1, <2>1, <2>3
    <3>2. k \in LastOf(s, kind, i) /\ ~About(c, kind, i)
      BY <1>1, <2>1, <3>1 DEF LastOf
    <3> QED BY <1>1, <3>1, <3>2 DEF UndoChain
  <2> QED BY <2>2, <2>3
<1>3. ASSUME NEW k \in 1 .. Len(a), NEW l \in 1 .. Len(a), Follows(a, kind, i, k, l)
      PROVE  a[k].of[i].left = a[l].of[i].was
  <2>1. k < l /\ About(a[k], kind, i) /\ About(a[l], kind, i)
        /\ \A j \in k + 1 .. l - 1 : ~About(a[j], kind, i)
    BY <1>3 DEF Follows
  <2>2. k \in 1 .. Len(s) /\ (l = N \/ l \in 1 .. Len(s)) /\ \A j \in k + 1 .. l - 1 : j \in 1 .. Len(s)
    BY SMTT(60), <1>1, <2>1
  <2>3. CASE l \in 1 .. Len(s)
    <3>1. Follows(s, kind, i, k, l)
      BY <1>1, <2>1, <2>2, <2>3 DEF Follows
    <3> QED BY <1>1, <2>2, <2>3, <3>1 DEF UndoChain
  <2>4. CASE l = N
    <3>1. \A j \in k + 1 .. Len(s) : j \in k + 1 .. l - 1
      BY SMTT(60), <1>1, <2>2, <2>4
    <3>2. k \in LastOf(s, kind, i)
      BY <1>1, <2>1, <2>2, <3>1 DEF LastOf
    <3> QED BY <1>1, <2>1, <2>2, <2>4, <3>2 DEF UndoChain
  <2> QED BY <2>2, <2>3, <2>4
<1> QED BY <1>2, <1>3 DEF UndoChain, a

(* After an undo the list goes on with what the change had started from. *)
LEMMA UndoPopped ==
  ASSUME NEW s, NEW kind, NEW i, NEW v, NEW w, IsList(s), s # <<>>,
         UndoChain(s, kind, i, v),
         About(Last(s), kind, i) => Last(s).of[i].was = w,
         ~About(Last(s), kind, i) => w = v
  PROVE  /\ UndoChain(Front(s), kind, i, w)
         /\ About(Last(s), kind, i) => Last(s).of[i].left = v
<1> DEFINE a == Front(s)
           N == Len(s)
           c == Last(s)
<1>1. /\ Len(a) = N - 1 /\ s[N] = c /\ N \in Nat \ {0}
      /\ \A k \in 1 .. N - 1 : a[k] = s[k]
  BY Popped DEF IsList
<1>a. About(c, kind, i) => c.of[i].was = w
  OBVIOUS
<1>b. ~About(c, kind, i) => w = v
  OBVIOUS
<1> HIDE DEF a, c, N
<1>2. About(c, kind, i) => c.of[i].left = v
  <2>1. N \in 1 .. N /\ N + 1 .. N = {}
    BY SMTT(60), <1>1
  <2>2. About(c, kind, i) => N \in LastOf(s, kind, i)
    BY <1>1, <2>1 DEF LastOf, N
  <2> QED BY <1>1, <2>2 DEF UndoChain
<1>3. ASSUME NEW k \in LastOf(a, kind, i) PROVE a[k].of[i].left = w
  <2>1. k \in 1 .. N - 1 /\ About(s[k], kind, i) /\ a[k] = s[k]
        /\ \A l \in k + 1 .. N - 1 : ~About(a[l], kind, i)
    BY <1>1, <1>3 DEF LastOf
  <2>2. /\ k \in 1 .. N /\ N \in 1 .. N /\ k < N
        /\ \A l \in k + 1 .. N - 1 : l \in 1 .. N - 1
        /\ \A l \in k + 1 .. N : l = N \/ l \in k + 1 .. N - 1
    BY SMTT(60), <1>1, <2>1
  <2>3. CASE About(c, kind, i)
    <3>1. Follows(s, kind, i, k, N)
      BY <1>1, <2>1, <2>2, <2>3 DEF Follows
    <3> QED BY <1>1, <1>a, <2>1, <2>2, <2>3, <3>1 DEF UndoChain, N
  <2>4. CASE ~About(c, kind, i)
    <3>1. k \in LastOf(s, kind, i)
      BY <1>1, <2>1, <2>2, <2>4 DEF LastOf, N
    <3> QED BY <1>b, <2>1, <2>4, <3>1 DEF UndoChain
  <2> QED BY <2>3, <2>4
<1>4. ASSUME NEW k \in 1 .. Len(a), NEW l \in 1 .. Len(a), Follows(a, kind, i, k, l)
      PROVE  a[k].of[i].left = a[l].of[i].was
  <2>1. k \in 1 .. N - 1 /\ l \in 1 .. N - 1
    BY <1>1
  <2>2. k \in 1 .. N /\ l \in 1 .. N /\ \A j \in k + 1 .. l - 1 : j \in 1 .. N - 1
    BY SMTT(60), <1>1, <2>1
  <2>3. Follows(s, kind, i, k, l)
    BY <1>1, <1>4, <2>1, <2>2 DEF Follows
  <2> QED BY <1>1, <2>1, <2>2, <2>3 DEF UndoChain, N
<1>5. UndoChain(a, kind, i, w)
  BY <1>3, <1>4 DEF UndoChain
<1> QED BY <1>2, <1>5 DEF a, c

(* An undone change is the next to be redone. *)
LEMMA RedoPushed ==
  ASSUME NEW s, NEW c, NEW kind, NEW i, NEW v, NEW w, IsList(s),
         RedoChain(s, kind, i, v),
         About(c, kind, i) => c.of[i].left = v /\ c.of[i].was = w,
         ~About(c, kind, i) => w = v
  PROVE  RedoChain(Append(s, c), kind, i, w)
<1> DEFINE a == Append(s, c)
           N == Len(s) + 1
<1>1. /\ Len(a) = N /\ a[N] = c /\ Len(s) \in Nat
      /\ \A k \in 1 .. Len(s) : a[k] = s[k]
  BY Appended DEF IsList
<1> HIDE DEF a
<1>2. ASSUME NEW k \in LastOf(a, kind, i) PROVE a[k].of[i].was = w
  <2>1. k \in 1 .. N /\ About(a[k], kind, i) /\ \A l \in k + 1 .. N : ~About(a[l], kind, i)
    BY <1>1, <1>2 DEF LastOf
  <2>2. CASE k = N
    BY <1>1, <2>1, <2>2
  <2>3. CASE k # N
    <3>1. k \in 1 .. Len(s) /\ N \in k + 1 .. N /\ \A l \in k + 1 .. Len(s) : l \in 1 .. Len(s) /\ l \in k + 1 .. N
      BY SMTT(60), <1>1, <2>1, <2>3
    <3>2. k \in LastOf(s, kind, i) /\ ~About(c, kind, i)
      BY <1>1, <2>1, <3>1 DEF LastOf
    <3> QED BY <1>1, <3>1, <3>2 DEF RedoChain
  <2> QED BY <2>2, <2>3
<1>3. ASSUME NEW k \in 1 .. Len(a), NEW l \in 1 .. Len(a), Follows(a, kind, i, k, l)
      PROVE  a[k].of[i].was = a[l].of[i].left
  <2>1. k < l /\ About(a[k], kind, i) /\ About(a[l], kind, i)
        /\ \A j \in k + 1 .. l - 1 : ~About(a[j], kind, i)
    BY <1>3 DEF Follows
  <2>2. k \in 1 .. Len(s) /\ (l = N \/ l \in 1 .. Len(s)) /\ \A j \in k + 1 .. l - 1 : j \in 1 .. Len(s)
    BY SMTT(60), <1>1, <2>1
  <2>3. CASE l \in 1 .. Len(s)
    <3>1. Follows(s, kind, i, k, l)
      BY <1>1, <2>1, <2>2, <2>3 DEF Follows
    <3> QED BY <1>1, <2>2, <2>3, <3>1 DEF RedoChain
  <2>4. CASE l = N
    <3>1. \A j \in k + 1 .. Len(s) : j \in k + 1 .. l - 1
      BY SMTT(60), <1>1, <2>2, <2>4
    <3>2. k \in LastOf(s, kind, i)
      BY <1>1, <2>1, <2>2, <3>1 DEF LastOf
    <3> QED BY <1>1, <2>1, <2>2, <2>4, <3>2 DEF RedoChain
  <2> QED BY <2>2, <2>3, <2>4
<1> QED BY <1>2, <1>3 DEF RedoChain, a

(* After a redo the list goes on with what the change has left. *)
LEMMA RedoPopped ==
  ASSUME NEW s, NEW kind, NEW i, NEW v, NEW w, IsList(s), s # <<>>,
         RedoChain(s, kind, i, v),
         About(Last(s), kind, i) => Last(s).of[i].left = w,
         ~About(Last(s), kind, i) => w = v
  PROVE  /\ RedoChain(Front(s), kind, i, w)
         /\ About(Last(s), kind, i) => Last(s).of[i].was = v
<1> DEFINE a == Front(s)
           N == Len(s)
           c == Last(s)
<1>1. /\ Len(a) = N - 1 /\ s[N] = c /\ N \in Nat \ {0}
      /\ \A k \in 1 .. N - 1 : a[k] = s[k]
  BY Popped DEF IsList
<1>a. About(c, kind, i) => c.of[i].left = w
  OBVIOUS
<1>b. ~About(c, kind, i) => w = v
  OBVIOUS
<1> HIDE DEF a, c, N
<1>2. About(c, kind, i) => c.of[i].was = v
  <2>1. N \in 1 .. N /\ N + 1 .. N = {}
    BY SMTT(60), <1>1
  <2>2. About(c, kind, i) => N \in LastOf(s, kind, i)
    BY <1>1, <2>1 DEF LastOf, N
  <2> QED BY <1>1, <2>2 DEF RedoChain
<1>3. ASSUME NEW k \in LastOf(a, kind, i) PROVE a[k].of[i].was = w
  <2>1. k \in 1 .. N - 1 /\ About(s[k], kind, i) /\ a[k] = s[k]
        /\ \A l \in k + 1 .. N - 1 : ~About(a[l], kind, i)
    BY <1>1, <1>3 DEF LastOf
  <2>2. /\ k \in 1 .. N /\ N \in 1 .. N /\ k < N
        /\ \A l \in k + 1 .. N - 1 : l \in 1 .. N - 1
        /\ \A l \in k + 1 .. N : l = N \/ l \in k + 1 .. N - 1
    BY SMTT(60), <1>1, <2>1
  <2>3. CASE About(c, kind, i)
    <3>1. Follows(s, kind, i, k, N)
      BY <1>1, <2>1, <2>2, <2>3 DEF Follows
    <3> QED BY <1>1, <1>a, <2>1, <2>2, <2>3, <3>1 DEF RedoChain, N
  <2>4. CASE ~About(c, kind, i)
    <3>1. k \in LastOf(s, kind, i)
      BY <1>1, <2>1, <2>2, <2>4 DEF LastOf, N
    <3> QED BY <1>b, <2>1, <2>4, <3>1 DEF RedoChain
  <2> QED BY <2>3, <2>4
<1>4. ASSUME NEW k \in 1 .. Len(a), NEW l \in 1 .. Len(a), Follows(a, kind, i, k, l)
      PROVE  a[k].of[i].was = a[l].of[i].left
  <2>1. k \in 1 .. N - 1 /\ l \in 1 .. N - 1
    BY <1>1
  <2>2. k \in 1 .. N /\ l \in 1 .. N /\ \A j \in k + 1 .. l - 1 : j \in 1 .. N - 1
    BY SMTT(60), <1>1, <2>1
  <2>3. Follows(s, kind, i, k, l)
    BY <1>1, <1>4, <2>1, <2>2 DEF Follows
  <2> QED BY <1>1, <2>1, <2>2, <2>3 DEF RedoChain, N
<1>5. RedoChain(a, kind, i, w)
  BY <1>3, <1>4 DEF RedoChain
<1> QED BY <1>2, <1>5 DEF a, c

(* Lists stay fair when there are more images, when they grow by a fair     *)
(* change and when they lose the last.                                      *)
LEMMA FairMore ==
  ASSUME NEW s, NEW D, NEW B, NEW E, NEW C, FairList(s, D, B),
         D \subseteq E, B \subseteq C
  PROVE  FairList(s, E, C)
<1>1. ASSUME NEW k \in 1 .. Len(s) PROVE Fair(s[k], E, C)
  <2>1. Fair(s[k], D, B)
    BY DEF FairList
  <2>2. ASSUME NEW e, NEW i, FairRating(e, i, B) PROVE FairRating(e, i, C)
    BY <2>2 DEF FairRating
  <2> QED BY <2>1, <2>2 DEF Fair
<1> QED BY <1>1 DEF FairList

(* A record that fits its images is added to a list of such records. *)
LEMMA FairAppended ==
  ASSUME NEW s, NEW D, NEW B, NEW c, FairList(s, D, B), Fair(c, D, B)
  PROVE  FairList(Append(s, c), D, B)
<1> DEFINE a == Append(s, c)
<1>1. /\ IsList(a) /\ Len(a) = Len(s) + 1 /\ a[Len(s) + 1] = c /\ Len(s) \in Nat
      /\ \A k \in 1 .. Len(s) : a[k] = s[k]
  BY Appended DEF FairList, IsList
<1> HIDE DEF a
<1>2. \A k \in 1 .. Len(a) : k \in 1 .. Len(s) \/ k = Len(s) + 1
  BY SMTT(60), <1>1
<1>3. FairList(a, D, B)
  BY <1>1, <1>2 DEF FairList
<1> QED BY <1>3 DEF a

(* Every record that is popped fits its images. *)
LEMMA FairPopped ==
  ASSUME NEW s, NEW D, NEW B, FairList(s, D, B), s # <<>>
  PROVE  FairList(Front(s), D, B) /\ Fair(Last(s), D, B)
<1>1. /\ IsList(Front(s)) /\ Len(Front(s)) = Len(s) - 1
      /\ Last(s) = s[Len(s)] /\ Len(s) \in Nat \ {0}
      /\ \A k \in 1 .. Len(s) - 1 : Front(s)[k] = s[k]
  BY Popped DEF FairList
<1>2. Len(s) \in 1 .. Len(s) /\ \A k \in 1 .. Len(s) - 1 : k \in 1 .. Len(s)
  BY SMTT(60), <1>1
<1> QED BY <1>1, <1>2 DEF FairList

(* At the start there is nothing to undo or redo. *)
LEMMA EmptyLists ==
  ASSUME NEW D, NEW B, NEW kind, NEW i, NEW v
  PROVE  /\ FairList(<<>>, D, B)
         /\ UndoChain(<<>>, kind, i, v) /\ RedoChain(<<>>, kind, i, v)
<1>1. <<>> \in Seq({}) /\ Len(<<>>) = 0 /\ 0 \in Nat /\ 1 .. Len(<<>>) = {}
  BY SMTT(60)
<1>2. <<>> \in Seq({<<>>[k] : k \in 1 .. Len(<<>>)})
  BY SMTT(60)
<1> QED BY <1>1, <1>2 DEF FairList, IsList, UndoChain, RedoChain, LastOf

(* Rating an image as it was seen before takes the rating back: the reject  *)
(* flag and the first star are toggled twice.                               *)
LEMMA IsFlags ==
  ASSUME NEW a \in 0 .. 5, NEW b \in BOOLEAN
  PROVE  [stars |-> a, rejected |-> b] \in Flags
BY DEF Flags

(* Records of ratings are of their type. *)
LEMMA IsRatingEntry ==
  ASSUME NEW a \in 0 .. Reject, NEW b \in 0 .. Reject, NEW c \in Flags, NEW d \in Flags
  PROVE  [before |-> a, after |-> b, was |-> c, left |-> d] \in RatingEntries
BY DEF RatingEntries

(* Records of labels are of their type. *)
LEMMA IsLabelEntry ==
  ASSUME NEW a \in LabelSets, NEW b \in LabelSets, NEW c \in LabelSets, NEW d \in LabelSets
  PROVE  [before |-> a, after |-> b, was |-> c, left |-> d] \in LabelEntries
BY DEF LabelEntries

(* Ratings keep the flags of an image in their range. *)
LEMMA RatedType ==
  ASSUME NEW x \in Flags, NEW r \in 0 .. Reject
  PROVE  Rated(x, r) \in Flags /\ View(x) \in 0 .. Reject
<1>1. x = [stars |-> x.stars, rejected |-> x.rejected] /\ x.stars \in 0 .. 5 /\ x.rejected \in BOOLEAN
  BY DEF Flags
<1>2. View(x) \in 0 .. Reject
  BY SMTT(60), <1>1 DEF View, Reject
<1>3. r # Reject => r \in 0 .. 5 /\ 0 \in 0 .. 5
  BY SMTT(60) DEF Reject
<1>4. r = Reject => Rated(x, r) = [stars |-> x.stars, rejected |-> ~x.rejected]
  BY <1>1 DEF Rated
<1>5. r = Reject => Rated(x, r) \in Flags
  <2>1. (~x.rejected) \in BOOLEAN
    BY <1>1
  <2> QED BY <1>1, <1>4, <2>1, IsFlags
<1> DEFINE q == IF ~DoubleTap /\ View(x) = 1 /\ r = 1 THEN 0 ELSE r
<1>6. r # Reject => Rated(x, r) = [stars |-> q, rejected |-> FALSE]
  BY <1>1 DEF Rated
<1>7. r # Reject => q \in 0 .. 5
  BY <1>3
<1> HIDE DEF q
<1>8. r # Reject => Rated(x, r) \in Flags
  <2>1. FALSE \in BOOLEAN
    OBVIOUS
  <2> QED BY <1>6, <1>7, <2>1, IsFlags
<1> QED BY <1>2, <1>5, <1>8

(* Applying the rating that was seen before takes a rating back. *)
LEMMA RatedBack ==
  ASSUME NEW x \in Flags, NEW r \in 0 .. Reject, ~x.rejected \/ r = Reject
  PROVE  Rated(Rated(x, r), View(x)) = x
<1>1. x = [stars |-> x.stars, rejected |-> x.rejected] /\ x.stars \in 0 .. 5 /\ x.rejected \in BOOLEAN
  BY DEF Flags
<1>2. CASE r = Reject /\ x.rejected
  <2>1. Rated(x, r) = [stars |-> x.stars, rejected |-> FALSE]
    BY <1>1, <1>2 DEF Rated
  <2>2. View(x) = Reject
    BY <1>2 DEF View
  <2> QED BY <1>1, <1>2, <2>1, <2>2 DEF Rated
<1>3. CASE r = Reject /\ ~x.rejected
  <2>1. Rated(x, r) = [stars |-> x.stars, rejected |-> TRUE]
    BY <1>1, <1>3 DEF Rated
  <2>2. View(x) = x.stars /\ View(Rated(x, r)) = Reject /\ x.stars # Reject /\ Reject # 1
    BY SMTT(60), <1>1, <1>3, <2>1 DEF View, Reject
  <2> QED BY <1>1, <1>3, <2>1, <2>2 DEF Rated
<1>4. CASE r # Reject
  <2>1. ~x.rejected /\ View(x) = x.stars /\ x.stars # Reject /\ 1 # 0
    BY SMTT(60), <1>1, <1>4 DEF View, Reject
  <2> DEFINE q == IF ~DoubleTap /\ x.stars = 1 /\ r = 1 THEN 0 ELSE r
  <2>2. Rated(x, r) = [stars |-> q, rejected |-> FALSE]
    BY <1>1, <1>4, <2>1 DEF Rated
  <2>3. ~(~DoubleTap /\ q = 1 /\ x.stars = 1)
    BY <2>1
  <2> HIDE DEF q
  <2>4. View(Rated(x, r)) = q
    <3>1. Rated(x, r).rejected = FALSE /\ Rated(x, r).stars = q
      BY SMTT(60), <2>2
    <3> QED BY <3>1 DEF View
  <2> QED BY <1>1, <2>1, <2>2, <2>3, <2>4 DEF Rated
<1> QED BY <1>2, <1>3, <1>4

(* What _pop_undo_execute makes of the labels of an image. *)
Pairs(ids, g, h) == UNION {{j} \X (g[j] \ h[j]) : j \in ids}

(* The rows added or removed for an image are those of its own labels. *)
LEMMA PairsOf ==
  ASSUME NEW ids, NEW g, NEW h, NEW i, NEW c
  PROVE  <<i, c>> \in Pairs(ids, g, h) <=> i \in ids /\ c \in g[i] \ h[i]
<1>1. \A j : <<i, c>> \in {j} \X (g[j] \ h[j]) <=> j = i /\ c \in g[j] \ h[j]
  BY SMTT(60)
<1>2. <<i, c>> \in Pairs(ids, g, h) <=> \E j \in ids : <<i, c>> \in {j} \X (g[j] \ h[j])
  BY DEF Pairs
<1> QED BY <1>1, <1>2

(* The images of a change get the labels of its other side, no others. *)
LEMMA LabelsApplied ==
  ASSUME NEW ids, NEW f, NEW t, ApplyLabels(ids, f, t), NEW i
  PROVE  /\ i \notin ids => LabelsOf(i)' = LabelsOf(i)
         /\ i \in ids /\ f[i] = LabelsOf(i) /\ t[i] \in LabelSets => LabelsOf(i)' = t[i]
<1>1. labels' = (labels \cup Pairs(ids, t, f)) \ Pairs(ids, f, t)
  BY DEF ApplyLabels, Pairs
<1>2. ASSUME NEW c
      PROVE  <<i, c>> \in labels' <=>
               /\ <<i, c>> \in labels \/ (i \in ids /\ c \in t[i] \ f[i])
               /\ ~(i \in ids /\ c \in f[i] \ t[i])
  BY <1>1, PairsOf
<1>3. LabelsOf(i)' = {c \in Colors : <<i, c>> \in labels'}
  BY DEF LabelsOf
<1>4. i \notin ids => LabelsOf(i)' = LabelsOf(i)
  BY <1>2, <1>3 DEF LabelsOf
<1>5. ASSUME i \in ids, f[i] = LabelsOf(i), t[i] \in LabelSets PROVE LabelsOf(i)' = t[i]
  <2>1. \A c \in Colors : <<i, c>> \in labels <=> c \in f[i]
    BY <1>5 DEF LabelsOf
  <2>2. \A c \in Colors : <<i, c>> \in labels' <=> c \in t[i]
    BY <1>2, <1>5, <2>1
  <2> QED BY <1>3, <1>5, <2>2 DEF LabelSets
<1> QED BY <1>4, <1>5

-----------------------------------------------------------------------------
(* What the collection is made of, and what an update of it leaves alone. *)
LEMMA Updated ==
  ASSUME NEW im, NEW R, NEW sel, NEW th, NEW e, NEW grp, NEW ids,
         UpdateQuery(im, R, sel, th, e, grp, ids)
  PROVE  img' = im /\ rows' = R /\ collected' \subseteq R /\ DOMAIN thumbs' \subseteq R
<1>1. img' = im /\ rows' = R /\ collected' = Query(im, R, e, grp)
      /\ thumbs' = CollectionChanged(th, im, R, collected', ids)
  BY DEF UpdateQuery
<1>2. Query(im, R, e, grp) \subseteq R
  BY DEF Query, Members, Nearest, NoGroup
<1>3. DOMAIN thumbs' = collected'
  BY <1>1 DEF CollectionChanged
<1> QED BY <1>1, <1>2, <1>3

(* Steps that change neither flags nor labels nor the undo list, though     *)
(* they may remove rows.                                                    *)
LEMMA Quiet ==
  ASSUME LInv, undo' = undo, redo' = redo, blind' = blind,
         img'.flags = img.flags, img' = [group |-> img'.group, flags |-> img'.flags],
         rows' \subseteq rows, collected' \subseteq Ids, DOMAIN thumbs' \subseteq Ids,
         \A i \in rows' : LabelsOf(i)' = LabelsOf(i)
  PROVE  LInv'
<1>1. Shape /\ FairList(undo, Ids, blind) /\ FairList(redo, Ids, blind) /\ Chains
  BY DEF LInv
<1>2. Ids' = Ids
  BY DEF Ids
<1>3. Shape'
  BY <1>1, <1>2 DEF Shape
<1>4. ASSUME NEW i \in rows', NEW kind \in Kinds PROVE Seen(kind, i)' = Seen(kind, i)
  BY DEF Seen
<1>5. Chains'
  BY <1>1, <1>4 DEF Chains
<1>6. FairList(undo, Ids, blind)' /\ FairList(redo, Ids, blind)'
  BY <1>1, <1>2
<1> QED BY <1>3, <1>5, <1>6 DEF LInv

(* The same for handlers that end with an update of the collection. *)
LEMMA QuietUpdate ==
  ASSUME LInv, NEW gr, NEW sel, NEW th, NEW e, NEW grp, NEW ids,
         UpdateQuery(Grouped(gr), rows, sel, th, e, grp, ids),
         UNCHANGED <<labels, undo, redo, blind>>
  PROVE  LInv'
<1>1. img' = Grouped(gr) /\ rows' = rows /\ collected' \subseteq rows
      /\ DOMAIN thumbs' \subseteq rows
  BY Updated
<1>2. img = [group |-> img.group, flags |-> img.flags] /\ rows \subseteq Ids
  BY DEF LInv, Shape
<1>3. img' = [group |-> gr, flags |-> img.flags]
  BY <1>1, <1>2 DEF Grouped
<1>4. \A i \in rows' : LabelsOf(i)' = LabelsOf(i)
  BY DEF LabelsOf
<1>5. img'.flags = img.flags /\ img'.group = gr
  BY <1>3
<1>6. img' = [group |-> img'.group, flags |-> img'.flags]
  BY <1>3, <1>5
<1>7. rows' \subseteq rows /\ collected' \subseteq Ids /\ DOMAIN thumbs' \subseteq Ids
  BY <1>1, <1>2
<1> QED BY <1>4, <1>5, <1>6, <1>7, Quiet

(* Handlers that change groups, the selection or what is shown. *)
LEMMA GroupSteps ==
  ASSUME LInv, Group \/ Ungroup \/ GroupingButton
         \/ (\E i \in DOMAIN thumbs : GroupButton(i) \/ GroupButtonSelects(i))
  PROVE  LInv'
<1>0. Grouped(img.group) = img
  BY DEF LInv, Shape, Grouped
<1>1. CASE Group
  <2>1. PICK gr, th, e : UpdateQuery(Grouped(gr), rows, selected, th, e, grouping, selected)
    BY <1>1 DEF Group
  <2>2. UNCHANGED <<labels, undo, redo, blind>>
    BY <1>1 DEF Group
  <2> QED BY <2>1, <2>2, QuietUpdate
<1>2. CASE Ungroup
  <2>1. PICK gr, th : UpdateQuery(Grouped(gr), rows, selected, th, None, grouping, selected)
    BY <1>2 DEF Ungroup
  <2>2. UNCHANGED <<labels, undo, redo, blind>>
    BY <1>2 DEF Ungroup
  <2> QED BY <2>1, <2>2, QuietUpdate
<1>3. CASE GroupingButton
  <2>1. UpdateQuery(Grouped(img.group), rows, selected, thumbs, None, ~grouping, {})
        /\ UNCHANGED <<labels, undo, redo, blind>>
    BY <1>0, <1>3 DEF GroupingButton
  <2> QED BY <2>1, QuietUpdate
<1>4. CASE \E i \in DOMAIN thumbs : GroupButton(i) \/ GroupButtonSelects(i)
  <2>1. PICK i \in DOMAIN thumbs : GroupButton(i) \/ GroupButtonSelects(i)
    BY <1>4
  <2>2. CASE GroupButton(i)
    <3>1. PICK gr, th, e : UpdateQuery(Grouped(gr), rows, selected, th, e, grouping, {})
      BY <2>2 DEF GroupButton
    <3>2. UNCHANGED <<labels, undo, redo, blind>>
      BY <2>2 DEF GroupButton
    <3> QED BY <3>1, <3>2, QuietUpdate
  <2>3. CASE GroupButtonSelects(i)
    <3>1. PICK sel : UpdateQuery(Grouped(img.group), rows, sel, thumbs, expanded, grouping, {})
      BY <1>0, <2>3 DEF GroupButtonSelects
    <3>2. UNCHANGED <<labels, undo, redo, blind>>
      BY <2>3 DEF GroupButtonSelects
    <3> QED BY <3>1, <3>2, QuietUpdate
  <2> QED BY <2>1, <2>2, <2>3
<1> QED BY <1>1, <1>2, <1>3, <1>4

(* The selection, the job and the main loop. *)
LEMMA OtherSteps ==
  ASSUME LInv, \/ \E S : SetSelection(S)
               \/ \E S : RemoveImages(S)
               \/ Regroup \/ Reexpand \/ Delete \/ Finish \/ Deliver \/ UNCHANGED vars
  PROVE  LInv'
<1>0. /\ img = [group |-> img.group, flags |-> img.flags]
      /\ rows \subseteq Ids /\ collected \subseteq Ids /\ DOMAIN thumbs \subseteq Ids
  BY DEF LInv, Shape
<1>1. CASE \/ \E S : SetSelection(S)
           \/ \E S : RemoveImages(S)
           \/ Reexpand \/ UNCHANGED vars
  <2>1. UNCHANGED <<undo, redo, blind, img, rows, collected, thumbs, labels>>
    BY <1>1 DEF SetSelection, RemoveImages, Reexpand, vars
  <2>2. \A i \in rows' : LabelsOf(i)' = LabelsOf(i)
    BY <2>1 DEF LabelsOf
  <2> QED BY <1>0, <2>1, <2>2, Quiet
<1>2. CASE Regroup
  <2>1. PICK gr : img' = Grouped(gr)
    BY <1>2 DEF Regroup
  <2>2. UNCHANGED <<undo, redo, blind, rows, collected, thumbs, labels>>
    BY <1>2 DEF Regroup
  <2>3. img' = [group |-> gr, flags |-> img.flags]
    BY <1>0, <2>1 DEF Grouped
  <2>4. \A i \in rows' : LabelsOf(i)' = LabelsOf(i)
    BY <2>2 DEF LabelsOf
  <2> QED BY <1>0, <2>2, <2>3, <2>4, Quiet
<1>3. CASE Delete
  <2>1. UNCHANGED <<undo, redo, blind, img, collected, thumbs>>
    BY <1>3 DEF Delete
  <2>2. PICK d : rows' = rows \ {d} /\ labels' = labels \ ({d} \X Colors)
    BY <1>3 DEF Delete
  <2>3. ASSUME NEW i \in rows' PROVE LabelsOf(i)' = LabelsOf(i)
    <3>1. i # d
      BY <2>2, <2>3
    <3>2. \A c \in Colors : <<i, c>> \notin {d} \X Colors
      BY SMTT(60), <3>1
    <3> QED BY <2>2, <3>2 DEF LabelsOf
  <2>4. rows' \subseteq rows
    BY <2>2
  <2> QED BY <1>0, <2>1, <2>3, <2>4, Quiet
<1>4. CASE Finish
  <2>1. UNCHANGED <<undo, redo, blind, img, rows, thumbs, labels>>
        /\ collected' = Query(img, rows, expanded, grouping)
    BY <1>4 DEF Finish
  <2>2. collected' \subseteq rows
    BY <2>1 DEF Query, Members, Nearest, NoGroup
  <2>3. \A i \in rows' : LabelsOf(i)' = LabelsOf(i)
    BY <2>1 DEF LabelsOf
  <2> QED BY <1>0, <2>1, <2>2, <2>3, Quiet
<1>5. CASE Deliver
  <2>1. UNCHANGED <<undo, redo, blind, img, rows, collected, labels>>
    BY <1>5 DEF Deliver
  <2>2. DOMAIN thumbs' \subseteq DOMAIN thumbs \cup collected
    BY <1>5 DEF Deliver, InfoChanged, CollectionChanged
  <2>3. \A i \in rows' : LabelsOf(i)' = LabelsOf(i)
    BY <2>1 DEF LabelsOf
  <2>4. DOMAIN thumbs' \subseteq Ids
    BY <1>0, <2>2
  <2> QED BY <1>0, <2>1, <2>3, <2>4, Quiet
<1> QED BY <1>1, <1>2, <1>3, <1>4, <1>5

(* A duplicate gets an id that no change in the lists is about. *)
LEMMA DuplicateStep ==
  ASSUME LInv, NEW i \in rows, Duplicate(i)
  PROVE  LInv'
<1> DEFINE new == Max(Ids) + 1
           fl == [j \in 1 .. new |-> IF j = new THEN img.flags[i] ELSE img.flags[j]]
<1>1. /\ Shape /\ FairList(undo, Ids, blind) /\ FairList(redo, Ids, blind) /\ Chains
      /\ rows \subseteq Ids /\ img.flags \in [Ids -> Flags]
  BY DEF LInv, Shape
<1>2. PICK gr, th, e : UpdateQuery([group |-> gr, flags |-> fl], rows \cup {new},
                                   selected, th, e, grouping, {})
  BY DEF Duplicate, Ids
<1>3. /\ labels' = labels \cup {<<new, c>> : c \in {d \in Colors : <<i, d>> \in labels}}
      /\ UNCHANGED <<undo, redo, blind>>
  BY DEF Duplicate, Ids
<1>4. /\ img' = [group |-> gr, flags |-> fl] /\ rows' = rows \cup {new}
      /\ collected' \subseteq rows \cup {new} /\ DOMAIN thumbs' \subseteq rows \cup {new}
  BY <1>2, Updated
<1>5. PICK m \in Nat \ {0} : Ids = 1 .. m
  BY <1>1 DEF Shape
<1>6. Max(Ids) = m
  <2>1. m \in Ids /\ \A y \in Ids : m >= y
    BY SMTT(60), <1>5
  <2>2. \A x \in Ids : (\A y \in Ids : x >= y) => x = m
    BY SMTT(60), <1>5, <2>1
  <2> QED BY <2>1, <2>2 DEF Max
<1>7. new = m + 1 /\ new \in Nat \ {0} /\ 1 .. new = Ids \cup {new} /\ new \notin Ids
  BY SMTT(60), <1>5, <1>6
<1>8. fl \in [Ids \cup {new} -> Flags] /\ \A j \in Ids : fl[j] = img.flags[j]
  BY <1>1, <1>7
<1> HIDE DEF fl, new
<1>9. img'.flags = fl /\ img'.group = gr
  BY <1>4
<1>10. Ids' = Ids \cup {new} /\ Ids' = 1 .. new
  BY <1>7, <1>8, <1>9 DEF Ids
<1>11. Shape'
  <2>1. rows' \subseteq Ids' /\ collected' \subseteq Ids' /\ DOMAIN thumbs' \subseteq Ids'
    BY <1>1, <1>4, <1>10
  <2>2. img' = [group |-> img'.group, flags |-> img'.flags]
    BY <1>4, <1>9
  <2>3. img'.flags \in [Ids' -> Flags]
    BY <1>8, <1>9, <1>10
  <2>4. \E k \in Nat \ {0} : Ids' = 1 .. k
    BY <1>7, <1>10
  <2> QED BY <2>1, <2>2, <2>3, <2>4 DEF Shape
<1>12. FairList(undo', Ids', blind') /\ FairList(redo', Ids', blind')
  BY <1>1, <1>3, <1>10, FairMore
<1>13. ASSUME NEW j \in rows', NEW kind \in Kinds, kind = "label" \/ j \notin blind'
       PROVE  UndoChain(undo', kind, j, Seen(kind, j)') /\ RedoChain(redo', kind, j, Seen(kind, j)')
  <2>1. CASE j \in rows
    <3>1. j # new /\ j \in Ids
      BY <1>1, <1>7, <2>1
    <3>2. \A c, d : <<j, c>> # <<new, d>>
      BY SMTT(60), <3>1
    <3>3. LabelsOf(j)' = LabelsOf(j)
      BY <1>3, <3>2 DEF LabelsOf
    <3>4. Seen(kind, j)' = Seen(kind, j)
      BY <1>8, <1>9, <3>1, <3>3 DEF Seen
    <3> QED BY <1>1, <1>3, <1>13, <2>1, <3>4 DEF Chains
  <2>2. CASE j = new
    <3>1. \A k \in 1 .. Len(undo) : ~About(undo[k], kind, j)
      BY <1>1, <1>7, <2>2 DEF FairList, Fair, About
    <3>2. \A k \in 1 .. Len(redo) : ~About(redo[k], kind, j)
      BY <1>1, <1>7, <2>2 DEF FairList, Fair, About
    <3> QED BY <1>3, <3>1, <3>2 DEF UndoChain, RedoChain, LastOf, Follows
  <2> QED BY <1>4, <2>1, <2>2
<1>14. Chains'
  BY <1>13 DEF Chains
<1> QED BY <1>11, <1>12, <1>14 DEF LInv

(* A change c is recorded: it starts from what is seen of its images and    *)
(* leaves them with what is seen next, and nothing else changes.            *)
LEMMA Recorded ==
  ASSUME LInv, Shape', Ids' = Ids, rows' = rows, blind \subseteq blind', NEW c,
         Fair(c, Ids, blind'), undo' = Append(undo, c), redo' = <<>>,
         \A i \in rows, kind \in Kinds :
           /\ About(c, kind, i) =>
                c.of[i].was = Seen(kind, i) /\ c.of[i].left = Seen(kind, i)'
           /\ ~About(c, kind, i) => Seen(kind, i)' = Seen(kind, i)
  PROVE  LInv'
<1>1. FairList(undo, Ids, blind) /\ Chains
  BY DEF LInv
<1>2. FairList(undo', Ids', blind')
  <2>1. FairList(undo, Ids, blind')
    BY <1>1, FairMore
  <2> QED BY <2>1, FairAppended
<1>3. FairList(redo', Ids', blind')
  BY EmptyLists
<1>4. ASSUME NEW i \in rows', NEW kind \in Kinds, kind = "label" \/ i \notin blind'
      PROVE  UndoChain(undo', kind, i, Seen(kind, i)') /\ RedoChain(redo', kind, i, Seen(kind, i)')
  <2>1. UndoChain(undo, kind, i, Seen(kind, i))
    BY <1>1, <1>4 DEF Chains
  <2>2. UndoChain(undo', kind, i, Seen(kind, i)')
    BY <1>1, <2>1, UndoPushed DEF FairList
  <2>3. RedoChain(redo', kind, i, Seen(kind, i)')
    BY EmptyLists
  <2> QED BY <2>2, <2>3
<1>5. Chains'
  BY <1>4 DEF Chains
<1> QED BY <1>2, <1>3, <1>5 DEF LInv

(* What a rating of the images in r makes of the flags. *)
LEMMA RatingsApplied ==
  ASSUME Shape, NEW r, \A i \in DOMAIN r : r[i] \in 0 .. Reject,
         img' = ApplyRatings(r), rows' = rows, collected' \subseteq rows,
         DOMAIN thumbs' \subseteq rows
  PROVE  /\ Shape' /\ Ids' = Ids
         /\ \A i \in Ids : img'.flags[i] =
              IF i \in DOMAIN r THEN Rated(img.flags[i], r[i]) ELSE img.flags[i]
<1> DEFINE fl == [i \in Ids |-> IF i \in DOMAIN r THEN Rated(img.flags[i], r[i])
                                ELSE img.flags[i]]
<1>1. /\ img = [group |-> img.group, flags |-> img.flags]
      /\ img.flags \in [Ids -> Flags] /\ rows \subseteq Ids /\ \E m \in Nat \ {0} : Ids = 1 .. m
  BY DEF Shape
<1>2. img' = [group |-> img.group, flags |-> fl]
  BY <1>1 DEF ApplyRatings, Ids
<1>3. fl \in [Ids -> Flags]
  <2>1. ASSUME NEW i \in Ids
        PROVE  (IF i \in DOMAIN r THEN Rated(img.flags[i], r[i]) ELSE img.flags[i]) \in Flags
    BY <1>1, RatedType
  <2> QED BY <2>1
<1>4. \A i \in Ids : fl[i] =
        IF i \in DOMAIN r THEN Rated(img.flags[i], r[i]) ELSE img.flags[i]
  OBVIOUS
<1> HIDE DEF fl
<1>5. img'.flags = fl /\ img'.group = img.group
  BY SMTT(60), <1>2
<1>6. Ids' = Ids
  BY <1>3, <1>5 DEF Ids
<1>7. Shape'
  <2>1. img' = [group |-> img'.group, flags |-> img'.flags]
    BY <1>2, <1>5
  <2>2. img'.flags \in [Ids' -> Flags] /\ \E m \in Nat \ {0} : Ids' = 1 .. m
    BY <1>1, <1>3, <1>5, <1>6
  <2>3. rows' \subseteq Ids' /\ collected' \subseteq Ids' /\ DOMAIN thumbs' \subseteq Ids'
    BY <1>1, <1>6
  <2> QED BY <2>1, <2>2, <2>3 DEF Shape
<1> QED BY <1>4, <1>5, <1>6, <1>7

(* _event_rating_release *)
LEMMA RateStep ==
  ASSUME LInv, NEW i \in DOMAIN thumbs, NEW rating \in Ratings \cup {Reject}, Rate(i, rating)
  PROVE  LInv'
<1> DEFINE r == IF ~DoubleTap /\ View(img.flags[i]) = 1 /\ rating = 1 THEN 0 ELSE rating
           all == {i} \cup IF Collapsed(i) THEN Members(img.group, rows, img.group[i]) ELSE {}
           of == [j \in all |-> Rating(img.flags[j], r)]
           c == [kind |-> "rating", of |-> of]
           rs == [j \in all |-> r]
<1>1. Shape /\ rows \subseteq Ids /\ DOMAIN thumbs \subseteq Ids /\ img.flags \in [Ids -> Flags]
  BY DEF LInv, Shape
<1>2. /\ undo' = Append(undo, c) /\ redo' = <<>>
      /\ UpdateQuery(ApplyRatings(rs), rows, selected, thumbs, expanded, grouping, {i})
      /\ blind' = blind \cup {j \in all : r # Reject /\ img.flags[j].rejected}
      /\ labels' = labels
  BY DEF Rate, Record
<1>3. r \in 0 .. Reject
  <2>1. rating \in 0 .. Reject /\ 0 \in 0 .. Reject
    BY SMTT(60), LibraryConstants DEF Reject
  <2> QED BY <2>1
<1>4. all \subseteq Ids
  BY <1>1 DEF Members
<1>5. /\ c.kind = "rating" /\ c.of = of /\ DOMAIN of = all /\ DOMAIN rs = all
      /\ \A j \in all : of[j] = Rating(img.flags[j], r) /\ rs[j] = r
  OBVIOUS
<1> HIDE DEF c, of, rs, all, r
<1>6. img' = ApplyRatings(rs) /\ rows' = rows /\ collected' \subseteq rows
      /\ DOMAIN thumbs' \subseteq rows
  BY <1>2, Updated
<1>7. \A j \in DOMAIN rs : rs[j] \in 0 .. Reject
  BY <1>3, <1>5
<1>8. /\ Shape' /\ Ids' = Ids
      /\ \A j \in Ids : img'.flags[j] =
           IF j \in DOMAIN rs THEN Rated(img.flags[j], rs[j]) ELSE img.flags[j]
  BY <1>1, <1>6, <1>7, RatingsApplied
<1>9. ASSUME NEW j \in all
      PROVE  FairRating(of[j], j, blind')
  <2> DEFINE x == img.flags[j]
  <2>1. x \in Flags
    BY <1>1, <1>4
  <2>2. j \in blind' \/ ~x.rejected \/ r = Reject
    BY <1>2
  <2> HIDE DEF x
  <2>3. of[j] = [before |-> View(x), after |-> r, was |-> x, left |-> Rated(x, r)]
    BY <1>5 DEF Rating, x
  <2>4. Rated(x, r) \in Flags /\ View(x) \in 0 .. Reject
    BY <1>3, <2>1, RatedType
  <2>5. /\ of[j].before = View(x) /\ of[j].after = r /\ of[j].was = x
        /\ of[j].left = Rated(x, r)
    BY SMTT(60), <2>3
  <2>6. of[j] \in RatingEntries
    BY <1>3, <2>1, <2>3, <2>4, IsRatingEntry
  <2> QED BY <2>2, <2>5, <2>6 DEF FairRating
<1>10. Fair(c, Ids, blind')
  BY <1>4, <1>5, <1>9 DEF Fair, Kinds
<1>11. ASSUME NEW j \in rows, NEW kind \in Kinds
       PROVE  /\ About(c, kind, j) =>
                   c.of[j].was = Seen(kind, j) /\ c.of[j].left = Seen(kind, j)'
              /\ ~About(c, kind, j) => Seen(kind, j)' = Seen(kind, j)
  <2>1. CASE kind = "rating"
    <3>1. Seen(kind, j) = img.flags[j] /\ Seen(kind, j)' = img'.flags[j]
      BY <2>1 DEF Seen
    <3>2. About(c, kind, j) <=> j \in all
      BY <1>5, <2>1 DEF About
    <3>3. j \in all => of[j].was = img.flags[j] /\ of[j].left = Rated(img.flags[j], r)
      BY SMTT(60), <1>5 DEF Rating
    <3>4. j \in Ids
      BY <1>1
    <3> QED BY <1>5, <1>8, <3>1, <3>2, <3>3, <3>4
  <2>2. CASE kind = "label"
    <3>1. Seen(kind, j)' = Seen(kind, j)
      BY <1>2, <2>2 DEF Seen, LabelsOf
    <3>2. ~About(c, kind, j)
      BY <1>5, <2>2 DEF About
    <3> QED BY <3>1, <3>2
  <2> QED BY <2>1, <2>2 DEF Kinds
<1>12. blind \subseteq blind'
  BY <1>2
<1> QED BY <1>2, <1>6, <1>8, <1>10, <1>11, <1>12, Recorded

(* dt_colorlabels_toggle_label_on_list *)
LEMMA ToggleStep ==
  ASSUME LInv, NEW m \in DOMAIN thumbs \cup {None}, NEW col \in Colors,
         ToggleLabel(ToActOn(m), col)
  PROVE  LInv'
<1> DEFINE ids == ToActOn(m)
           f == [i \in ids |-> LabelsOf(i)]
           t == [i \in ids |-> IF col \in f[i] THEN f[i] \ {col} ELSE f[i] \cup {col}]
           of == [i \in ids |-> [before |-> f[i], after |-> t[i], was |-> f[i], left |-> t[i]]]
           c == [kind |-> "label", of |-> of]
<1>1. /\ Shape /\ rows \subseteq Ids /\ collected \subseteq Ids /\ DOMAIN thumbs \subseteq Ids
      /\ img = [group |-> img.group, flags |-> img.flags]
  BY DEF LInv, Shape
<1>2. /\ ApplyLabels(ids, f, t) /\ undo' = Append(undo, c) /\ redo' = <<>>
      /\ UpdateQuery(img, rows, selected, thumbs, expanded, grouping, ids)
      /\ blind' = blind
  BY DEF ToggleLabel, Record
<1>3. ids \subseteq Ids
  BY <1>1 DEF ToActOn
<1>4. /\ c.kind = "label" /\ c.of = of /\ DOMAIN of = ids
      /\ \A i \in ids : /\ f[i] = LabelsOf(i)
                        /\ of[i] = [before |-> f[i], after |-> t[i], was |-> f[i], left |-> t[i]]
  OBVIOUS
<1>5. \A i \in ids : f[i] \in LabelSets /\ t[i] \in LabelSets
  BY DEF LabelsOf, LabelSets
<1> HIDE DEF c, of, t, f, ids
<1>6. img' = img /\ rows' = rows /\ collected' \subseteq rows /\ DOMAIN thumbs' \subseteq rows
  BY <1>2, Updated
<1>7. Ids' = Ids
  BY <1>6 DEF Ids
<1>8. Shape'
  BY <1>1, <1>6, <1>7 DEF Shape
<1>9. \A i \in ids : /\ of[i].before = f[i] /\ of[i].was = f[i]
                     /\ of[i].after = t[i] /\ of[i].left = t[i]
  BY SMTT(60), <1>4
<1>10. ASSUME NEW i \in ids PROVE of[i] \in LabelEntries
  <2>1. f[i] \in LabelSets /\ t[i] \in LabelSets
    BY <1>5
  <2>2. [before |-> f[i], after |-> t[i], was |-> f[i], left |-> t[i]] \in LabelEntries
    BY <2>1, IsLabelEntry
  <2> QED BY <1>4, <2>2
<1>11. Fair(c, Ids, blind')
  BY <1>3, <1>4, <1>9, <1>10 DEF Fair, FairLabel, Kinds
<1>12. ASSUME NEW j \in rows, NEW kind \in Kinds
       PROVE  /\ About(c, kind, j) =>
                   c.of[j].was = Seen(kind, j) /\ c.of[j].left = Seen(kind, j)'
              /\ ~About(c, kind, j) => Seen(kind, j)' = Seen(kind, j)
  <2>1. CASE kind = "rating"
    <3>1. Seen(kind, j)' = Seen(kind, j)
      BY <1>6, <2>1 DEF Seen
    <3>2. ~About(c, kind, j)
      BY <1>4, <2>1 DEF About
    <3> QED BY <3>1, <3>2
  <2>2. CASE kind = "label"
    <3>1. Seen(kind, j) = LabelsOf(j) /\ Seen(kind, j)' = LabelsOf(j)'
      BY <2>2 DEF Seen
    <3>2. About(c, kind, j) <=> j \in ids
      BY <1>4, <2>2 DEF About
    <3>3. /\ j \notin ids => LabelsOf(j)' = LabelsOf(j)
          /\ j \in ids => LabelsOf(j)' = t[j]
      <4>1. ApplyLabels(ids, f, t)
        BY <1>2
      <4>2. j \in ids => f[j] = LabelsOf(j) /\ t[j] \in LabelSets
        BY <1>4, <1>5
      <4>3. /\ j \notin ids => LabelsOf(j)' = LabelsOf(j)
            /\ j \in ids /\ f[j] = LabelsOf(j) /\ t[j] \in LabelSets => LabelsOf(j)' = t[j]
        BY SMTT(60), <4>1, LabelsApplied
      <4> QED BY <4>2, <4>3
    <3> QED BY <1>4, <1>9, <3>1, <3>2, <3>3
  <2> QED BY <2>1, <2>2 DEF Kinds
<1> QED BY <1>2, <1>6, <1>7, <1>8, <1>11, <1>12, Recorded

(* A change is taken back or done again: f is what is recorded of what it   *)
(* finds, t of what it brings back.                                         *)
Brings(c, f, t) ==
  /\ Shape' /\ Ids' = Ids /\ rows' = rows /\ blind' = blind
  /\ \A i \in rows, kind \in Kinds :
       /\ ~About(c, kind, i) => Seen(kind, i)' = Seen(kind, i)
       /\ About(c, kind, i) /\ kind = "rating" =>
            Seen(kind, i)' = Rated(Seen(kind, i), t[i])
       /\ About(c, kind, i) /\ kind = "label" /\ f[i] = Seen(kind, i) =>
            Seen(kind, i)' = t[i]

(* Undo and redo do to what is seen of an image what the change says. *)
LEMMA PoppedSeen ==
  ASSUME LInv, NEW c, Fair(c, Ids, blind), NEW f, NEW t, Pop(c, f, t),
         DOMAIN t = DOMAIN c.of,
         c.kind = "rating" => \A i \in DOMAIN t : t[i] \in 0 .. Reject,
         c.kind = "label" => \A i \in DOMAIN t : t[i] \in LabelSets
  PROVE  Brings(c, f, t)
<1>1. Shape /\ rows \subseteq Ids /\ c.kind \in Kinds
  BY DEF LInv, Shape, Fair
<1>2. PICK im, listed :
        /\ im = IF c.kind = "rating" THEN ApplyRatings(t) ELSE img
        /\ UpdateQuery(im, rows, selected, thumbs, expanded, grouping, listed)
  BY DEF Pop, PopListed
<1>3. /\ c.kind = "label" => ApplyLabels(DOMAIN c.of, f, t)
      /\ c.kind # "label" => labels' = labels
      /\ blind' = blind
  BY DEF Pop, PopListed
<1>4. img' = im /\ rows' = rows /\ collected' \subseteq rows /\ DOMAIN thumbs' \subseteq rows
  <2>1. UpdateQuery(im, rows, selected, thumbs, expanded, grouping, listed)
    BY <1>2
  <2> QED BY <2>1, Updated
<1>5. CASE c.kind = "rating"
  <2>1. img' = ApplyRatings(t)
    BY <1>2, <1>4, <1>5
  <2>2. /\ Shape' /\ Ids' = Ids
        /\ \A i \in Ids : img'.flags[i] =
             IF i \in DOMAIN t THEN Rated(img.flags[i], t[i]) ELSE img.flags[i]
    BY <1>1, <1>4, <1>5, <2>1, RatingsApplied
  <2>3. labels' = labels
    BY <1>3, <1>5
  <2>4. ASSUME NEW i \in rows
        PROVE  /\ Seen("rating", i)' = IF i \in DOMAIN c.of THEN Rated(Seen("rating", i), t[i])
                                       ELSE Seen("rating", i)
               /\ Seen("label", i)' = Seen("label", i)
    <3>1. Seen("rating", i) = img.flags[i] /\ Seen("rating", i)' = img'.flags[i]
      BY DEF Seen
    <3>2. Seen("label", i)' = Seen("label", i)
      BY <2>3 DEF Seen, LabelsOf
    <3>3. i \in Ids
      BY <1>1
    <3> QED BY <2>2, <3>1, <3>2, <3>3
  <2>5. \A i \in rows, kind \in Kinds :
              /\ ~About(c, kind, i) => Seen(kind, i)' = Seen(kind, i)
              /\ About(c, kind, i) /\ kind = "rating" =>
                   Seen(kind, i)' = Rated(Seen(kind, i), t[i])
              /\ ~(About(c, kind, i) /\ kind = "label")
    BY <1>5, <2>4 DEF About, Kinds
  <2> QED BY <1>3, <1>4, <2>2, <2>5 DEF Brings
<1>6. CASE c.kind = "label"
  <2>1. img' = img
    BY <1>2, <1>4, <1>6
  <2>2. Ids' = Ids
    BY <2>1 DEF Ids
  <2>3. Shape'
    BY <1>1, <1>4, <2>1, <2>2 DEF Shape
  <2>4. ASSUME NEW i \in rows
        PROVE  /\ Seen("rating", i)' = Seen("rating", i)
               /\ i \notin DOMAIN c.of => Seen("label", i)' = Seen("label", i)
               /\ i \in DOMAIN c.of /\ f[i] = Seen("label", i) => Seen("label", i)' = t[i]
    <3>1. Seen("rating", i)' = Seen("rating", i)
      BY <2>1 DEF Seen
    <3>2. Seen("label", i) = LabelsOf(i) /\ Seen("label", i)' = LabelsOf(i)'
      BY DEF Seen
    <3>3. /\ i \notin DOMAIN c.of => LabelsOf(i)' = LabelsOf(i)
          /\ i \in DOMAIN c.of /\ f[i] = LabelsOf(i) => LabelsOf(i)' = t[i]
      <4> DEFINE ids == DOMAIN c.of
      <4>1. ApplyLabels(ids, f, t)
        BY <1>3, <1>6
      <4>2. i \in ids => t[i] \in LabelSets
        BY <1>6
      <4> HIDE DEF ids
      <4>3. /\ i \notin ids => LabelsOf(i)' = LabelsOf(i)
            /\ i \in ids /\ f[i] = LabelsOf(i) /\ t[i] \in LabelSets => LabelsOf(i)' = t[i]
        BY SMTT(60), <4>1, LabelsApplied
      <4> QED BY <4>2, <4>3 DEF ids
    <3> QED BY <3>1, <3>2, <3>3
  <2>5. \A i \in rows, kind \in Kinds :
              /\ ~About(c, kind, i) => Seen(kind, i)' = Seen(kind, i)
              /\ ~(About(c, kind, i) /\ kind = "rating")
              /\ About(c, kind, i) /\ kind = "label" /\ f[i] = Seen(kind, i) =>
                   Seen(kind, i)' = t[i]
    BY <1>6, <2>4 DEF About, Kinds
  <2> QED BY <1>3, <1>4, <2>2, <2>3, <2>5 DEF Brings
<1> QED BY <1>1, <1>5, <1>6 DEF Kinds

(* What the lists record of the images of a change. *)
LEMMA Recalled ==
  ASSUME NEW c, NEW D, NEW B, Fair(c, D, B)
  PROVE  /\ DOMAIN Before(c) = DOMAIN c.of /\ DOMAIN After(c) = DOMAIN c.of
         /\ c.kind = "rating" => \A i \in DOMAIN c.of :
              /\ Before(c)[i] \in 0 .. Reject /\ After(c)[i] \in 0 .. Reject
              /\ After(c)[i] = c.of[i].after /\ Before(c)[i] = View(c.of[i].was)
              /\ c.of[i].was \in Flags /\ c.of[i].left = Rated(c.of[i].was, After(c)[i])
              /\ i \in B \/ ~c.of[i].was.rejected \/ After(c)[i] = Reject
         /\ c.kind = "label" => \A i \in DOMAIN c.of :
              /\ Before(c)[i] \in LabelSets /\ After(c)[i] \in LabelSets
              /\ Before(c)[i] = c.of[i].was /\ After(c)[i] = c.of[i].left
<1>1. /\ DOMAIN Before(c) = DOMAIN c.of /\ DOMAIN After(c) = DOMAIN c.of
      /\ \A i \in DOMAIN c.of : Before(c)[i] = c.of[i].before /\ After(c)[i] = c.of[i].after
  BY DEF Before, After
<1>2. ASSUME c.kind = "rating", NEW i \in DOMAIN c.of
      PROVE  /\ c.of[i].before \in 0 .. Reject /\ c.of[i].after \in 0 .. Reject
             /\ c.of[i].was \in Flags /\ c.of[i].before = View(c.of[i].was)
             /\ c.of[i].left = Rated(c.of[i].was, c.of[i].after)
             /\ i \in B \/ ~c.of[i].was.rejected \/ c.of[i].after = Reject
  BY <1>2 DEF Fair, FairRating, RatingEntries
<1>3. ASSUME c.kind = "label", NEW i \in DOMAIN c.of
      PROVE  /\ c.of[i].before \in LabelSets /\ c.of[i].after \in LabelSets
             /\ c.of[i].before = c.of[i].was /\ c.of[i].after = c.of[i].left
  BY <1>3 DEF Fair, FairLabel, LabelEntries
<1> QED BY <1>1, <1>2, <1>3

(* Undo takes the last change back: its images are what they were. *)
LEMMA UndoStep ==
  ASSUME LInv, Undo
  PROVE  LInv'
<1>1. FairList(undo, Ids, blind) /\ FairList(redo, Ids, blind) /\ Chains
  BY DEF LInv
<1>2. PICK c : /\ c = Last(undo) /\ undo # <<>> /\ Pop(c, After(c), Before(c))
               /\ undo' = Front(undo) /\ redo' = Append(redo, c)
  BY DEF Undo, Front, Last
<1>3. FairList(Front(undo), Ids, blind) /\ Fair(c, Ids, blind)
  BY <1>1, <1>2, FairPopped
<1>4. /\ DOMAIN Before(c) = DOMAIN c.of
      /\ c.kind = "rating" => \A i \in DOMAIN Before(c) : Before(c)[i] \in 0 .. Reject
      /\ c.kind = "label" => \A i \in DOMAIN Before(c) : Before(c)[i] \in LabelSets
  BY <1>3, Recalled
<1>5. /\ Shape' /\ Ids' = Ids /\ rows' = rows /\ blind' = blind
      /\ \A i \in rows, kind \in Kinds :
           /\ ~About(c, kind, i) => Seen(kind, i)' = Seen(kind, i)
           /\ About(c, kind, i) /\ kind = "rating" =>
                Seen(kind, i)' = Rated(Seen(kind, i), Before(c)[i])
           /\ About(c, kind, i) /\ kind = "label" /\ After(c)[i] = Seen(kind, i) =>
                Seen(kind, i)' = Before(c)[i]
  <2>1. Brings(c, After(c), Before(c))
    BY <1>2, <1>3, <1>4, PoppedSeen
  <2> QED BY <2>1 DEF Brings
<1>6. ASSUME NEW i \in rows', NEW kind \in Kinds, kind = "label" \/ i \notin blind'
      PROVE  UndoChain(undo', kind, i, Seen(kind, i)') /\ RedoChain(redo', kind, i, Seen(kind, i)')
  <2>1. /\ UndoChain(undo, kind, i, Seen(kind, i)) /\ RedoChain(redo, kind, i, Seen(kind, i))
        /\ i \in rows /\ (kind = "label" \/ i \notin blind)
    BY <1>1, <1>5, <1>6 DEF Chains
  <2>2. PICK w : /\ About(c, kind, i) => w = c.of[i].was
                 /\ ~About(c, kind, i) => w = Seen(kind, i)
    OBVIOUS
  <2>3. /\ UndoChain(undo', kind, i, w)
        /\ About(c, kind, i) => c.of[i].left = Seen(kind, i)
    BY <1>1, <1>2, <2>1, <2>2, UndoPopped DEF FairList
  <2>4. Seen(kind, i)' = w
    <3>1. CASE ~About(c, kind, i)
      BY <1>5, <2>1, <2>2, <3>1
    <3>2. CASE About(c, kind, i) /\ kind = "rating"
      <4>1. c.kind = "rating" /\ i \in DOMAIN c.of
        BY <3>2 DEF About
      <4> DEFINE x == c.of[i].was
                 r == After(c)[i]
      <4>2. /\ x \in Flags /\ r \in 0 .. Reject /\ Before(c)[i] = View(x)
            /\ c.of[i].left = Rated(x, r) /\ (i \in blind \/ ~x.rejected \/ r = Reject)
        BY <1>3, <4>1, Recalled
      <4>3. w = x /\ Rated(x, r) = Seen(kind, i) /\ i \notin blind
            /\ Seen(kind, i)' = Rated(Seen(kind, i), View(x))
        BY <1>5, <2>1, <2>2, <2>3, <3>2, <4>2
      <4> HIDE DEF x, r
      <4>4. ~x.rejected \/ r = Reject
        BY <4>2, <4>3
      <4>5. Rated(Rated(x, r), View(x)) = x
        BY <4>2, <4>4, RatedBack
      <4> QED BY <4>3, <4>5
    <3>3. CASE About(c, kind, i) /\ kind = "label"
      <4>1. c.kind = "label" /\ i \in DOMAIN c.of
        BY <3>3 DEF About
      <4>2. Before(c)[i] = c.of[i].was /\ After(c)[i] = c.of[i].left
        BY <1>3, <4>1, Recalled
      <4> QED BY <1>5, <2>1, <2>2, <2>3, <3>3, <4>2
    <3> QED BY <3>1, <3>2, <3>3 DEF Kinds
  <2>5. RedoChain(redo', kind, i, w)
    <3>1. About(c, kind, i) => c.of[i].left = Seen(kind, i) /\ c.of[i].was = w
      BY <2>2, <2>3
    <3>2. IsList(redo)
      BY <1>1 DEF FairList
    <3> QED BY <1>2, <2>1, <2>2, <3>1, <3>2, RedoPushed
  <2> QED BY <2>3, <2>4, <2>5
<1>7. Chains'
  BY <1>6 DEF Chains
<1>8. FairList(undo', Ids', blind') /\ FairList(redo', Ids', blind')
  BY <1>1, <1>2, <1>3, <1>5, FairAppended
<1> QED BY <1>5, <1>7, <1>8 DEF LInv

(* Redo does the next change again, from where it started. *)
LEMMA RedoStep ==
  ASSUME LInv, Redo
  PROVE  LInv'
<1>1. FairList(undo, Ids, blind) /\ FairList(redo, Ids, blind) /\ Chains
  BY DEF LInv
<1>2. PICK c : /\ c = Last(redo) /\ redo # <<>> /\ Pop(c, Before(c), After(c))
               /\ redo' = Front(redo) /\ undo' = Append(undo, c)
  BY DEF Redo, Front, Last
<1>3. FairList(Front(redo), Ids, blind) /\ Fair(c, Ids, blind)
  BY <1>1, <1>2, FairPopped
<1>4. /\ DOMAIN After(c) = DOMAIN c.of
      /\ c.kind = "rating" => \A i \in DOMAIN After(c) : After(c)[i] \in 0 .. Reject
      /\ c.kind = "label" => \A i \in DOMAIN After(c) : After(c)[i] \in LabelSets
  BY <1>3, Recalled
<1>5. /\ Shape' /\ Ids' = Ids /\ rows' = rows /\ blind' = blind
      /\ \A i \in rows, kind \in Kinds :
           /\ ~About(c, kind, i) => Seen(kind, i)' = Seen(kind, i)
           /\ About(c, kind, i) /\ kind = "rating" =>
                Seen(kind, i)' = Rated(Seen(kind, i), After(c)[i])
           /\ About(c, kind, i) /\ kind = "label" /\ Before(c)[i] = Seen(kind, i) =>
                Seen(kind, i)' = After(c)[i]
  <2>1. Brings(c, Before(c), After(c))
    BY <1>2, <1>3, <1>4, PoppedSeen
  <2> QED BY <2>1 DEF Brings
<1>6. ASSUME NEW i \in rows', NEW kind \in Kinds, kind = "label" \/ i \notin blind'
      PROVE  UndoChain(undo', kind, i, Seen(kind, i)') /\ RedoChain(redo', kind, i, Seen(kind, i)')
  <2>1. /\ UndoChain(undo, kind, i, Seen(kind, i)) /\ RedoChain(redo, kind, i, Seen(kind, i))
        /\ i \in rows
    BY <1>1, <1>5, <1>6 DEF Chains
  <2>2. PICK w : /\ About(c, kind, i) => w = c.of[i].left
                 /\ ~About(c, kind, i) => w = Seen(kind, i)
    OBVIOUS
  <2>3. /\ RedoChain(redo', kind, i, w)
        /\ About(c, kind, i) => c.of[i].was = Seen(kind, i)
    BY <1>1, <1>2, <2>1, <2>2, RedoPopped DEF FairList
  <2>4. Seen(kind, i)' = w
    <3>1. CASE ~About(c, kind, i)
      BY <1>5, <2>1, <2>2, <3>1
    <3>2. CASE About(c, kind, i) /\ kind = "rating"
      <4>1. c.kind = "rating" /\ i \in DOMAIN c.of
        BY <3>2 DEF About
      <4>2. c.of[i].left = Rated(c.of[i].was, After(c)[i])
        BY <1>3, <4>1, Recalled
      <4> QED BY <1>5, <2>1, <2>2, <2>3, <3>2, <4>2
    <3>3. CASE About(c, kind, i) /\ kind = "label"
      <4>1. c.kind = "label" /\ i \in DOMAIN c.of
        BY <3>3 DEF About
      <4>2. Before(c)[i] = c.of[i].was /\ After(c)[i] = c.of[i].left
        BY <1>3, <4>1, Recalled
      <4> QED BY <1>5, <2>1, <2>2, <2>3, <3>3, <4>2
    <3> QED BY <3>1, <3>2, <3>3 DEF Kinds
  <2>5. UndoChain(undo', kind, i, w)
    <3>1. About(c, kind, i) => c.of[i].was = Seen(kind, i) /\ c.of[i].left = w
      BY <2>2, <2>3
    <3>2. IsList(undo)
      BY <1>1 DEF FairList
    <3> QED BY <1>2, <2>1, <2>2, <3>1, <3>2, UndoPushed
  <2> QED BY <2>3, <2>4, <2>5
<1>7. Chains'
  BY <1>6 DEF Chains
<1>8. FairList(undo', Ids', blind') /\ FairList(redo', Ids', blind')
  BY <1>1, <1>2, <1>3, <1>5, FairAppended
<1> QED BY <1>5, <1>7, <1>8 DEF LInv
-----------------------------------------------------------------------------
(* The invariant holds of a library that was just opened. *)
LEMMA LibraryInit == Init => LInv
<1> SUFFICES ASSUME Init PROVE LInv
  OBVIOUS
<1>1. PICK g : img = [group |-> g, flags |-> [i \in rows |-> [stars |-> 0, rejected |-> FALSE]]]
  BY DEF Init
<1>2. /\ rows = 1 .. Imported /\ collected = Query(img, rows, expanded, grouping)
      /\ thumbs = [i \in collected |-> Look(img, rows, i)]
      /\ undo = <<>> /\ redo = <<>>
  BY DEF Init
<1>3. [stars |-> 0, rejected |-> FALSE] \in Flags
  <2>1. 0 \in 0 .. 5 /\ FALSE \in BOOLEAN
    BY SMTT(60)
  <2> QED BY <2>1, IsFlags
<1>4. Imported \in Nat \ {0}
  BY SMTT(60), LibraryConstants
<1>5. collected \subseteq rows
  BY <1>2 DEF Query, Members, Nearest, NoGroup
<1>6. img.flags = [i \in rows |-> [stars |-> 0, rejected |-> FALSE]] /\ img.group = g
  BY SMTT(60), <1>1
<1>7. Ids = rows
  BY <1>6 DEF Ids
<1>8. img.flags \in [Ids -> Flags]
  BY <1>3, <1>6, <1>7
<1>9. img = [group |-> img.group, flags |-> img.flags]
  BY <1>1, <1>6
<1>10. Shape
  BY <1>2, <1>4, <1>5, <1>7, <1>8, <1>9 DEF Shape
<1>11. FairList(undo, Ids, blind) /\ FairList(redo, Ids, blind) /\ Chains
  BY <1>2, EmptyLists DEF Chains
<1> QED BY <1>10, <1>11 DEF LInv

(* Every step of the user, of the job and of the main loop keeps it. *)
LEMMA LibraryStep == LInv /\ [Next]_vars => LInv'
<1> SUFFICES ASSUME LInv, [Next]_vars PROVE LInv'
  OBVIOUS
<1>1. CASE Undo
  BY <1>1, UndoStep
<1>2. CASE Redo
  BY <1>2, RedoStep
<1>3. CASE \E i \in rows : Duplicate(i)
  BY <1>3, DuplicateStep
<1>4. CASE \E i \in DOMAIN thumbs, r \in Ratings \cup {Reject} : Rate(i, r)
  BY <1>4, RateStep
<1>5. CASE \E m \in DOMAIN thumbs \cup {None}, c \in Colors : ToggleLabel(ToActOn(m), c)
  BY <1>5, ToggleStep
<1>6. CASE Group \/ Ungroup \/ GroupingButton
           \/ (\E i \in DOMAIN thumbs : GroupButton(i) \/ GroupButtonSelects(i))
  BY <1>6, GroupSteps
<1>7. CASE \/ \E S : SetSelection(S)
           \/ \E S : RemoveImages(S)
           \/ Regroup \/ Reexpand \/ Delete \/ Finish \/ Deliver \/ UNCHANGED vars
  BY <1>7, OtherSteps
<1>8. SelectAll \/ SelectNone \/ (\E i \in DOMAIN thumbs : SelectSingle(i) \/ Toggle(i))
        => \E S : SetSelection(S)
  BY DEF SelectAll, SelectNone, SelectSingle, Toggle
<1>9. (\E m \in DOMAIN thumbs \cup {None} : RemoveImages(ToActOn(m))) => \E S : RemoveImages(S)
  OBVIOUS
<1> QED BY <1>1, <1>2, <1>3, <1>4, <1>5, <1>6, <1>7, <1>8, <1>9 DEF Next, User, Job

(* The changes of every image follow one another in the lists: each starts  *)
(* from what the one before it left, the last undo from what is seen now.   *)
THEOREM UndoInvariant == Spec => []LInv
BY LibraryInit, LibraryStep, PTL DEF Spec

(* Undo and redo bring back what was, for any number of images, ratings,    *)
(* labels and operations: what is seen of an image is what the last change  *)
(* in the undo list left and what the next in the redo list started from.   *)
THEOREM UndoBringsBack == Spec => []UndoSeen
<1>1. LInv => UndoSeen
  BY DEF LInv, Chains, UndoSeen, UndoChain, RedoChain, Kinds
<1> QED BY <1>1, UndoInvariant, PTL
-----------------------------------------------------------------------------
(* Groups.  Every group of the images in R is led by one of them. *)
Leads(gr, D, R) ==
  /\ gr = [j \in D |-> gr[j]]
  /\ \A i \in R : gr[i] \in R /\ gr[gr[i]] = gr[i]

(* The image the job is at, and that nobody else is in its group. *)
At == Min(job.left)
Alone == \A j \in rows : img.group[j] = At => j = At

JobParts == {"ids", "left", "pc", "old", "new"}
IsJob(j) == j = [x \in JobParts |-> j[x]]
JobShape ==
  /\ Ids \subseteq 1 .. MaxId /\ IsJob(job)
  /\ job.left \subseteq Ids
  /\ job.pc \in {"regroup", "expand", "delete"} => job.left # {}

(* Between its statements the job knows the group it has taken its image    *)
(* from, and a representative for the rest of it.                           *)
Expanding ==
  /\ Alone
  /\ \/ job.new = None \/ job.new = job.old
     \/ job.new \in rows /\ img.group[job.new] = job.new
  /\ expanded # None /\ expanded = At => job.old = At
  /\ job.new # At
Deleting == Alone /\ (expanded # None => expanded # At)
LedInv ==
  ~met =>
    /\ Leads(img.group, Ids, rows)
    /\ expanded # None => expanded \in rows /\ img.group[expanded] = expanded
    /\ job.pc = "expand" => Expanding
    /\ job.pc = "delete" => Deleting
GInv == LInv /\ JobShape /\ LedInv

(* A set of ids that is not empty has a least id. *)
LEMMA LeastId ==
  ASSUME NEW T, T \subseteq Nat, T # {}
  PROVE  Min(T) \in T /\ \A y \in T : Min(T) <= y
<1>1. PICK R : R = OpToRel(<, Nat)
  OBVIOUS
<1>2. IsWellFoundedOn(R, Nat)
  BY <1>1, NatLessThanWellFounded
<1>3. PICK x \in T : \A y \in T : ~ (<<y, x>> \in R)
  BY <1>2, WFMin
<1>4. ASSUME NEW y \in T, y < x PROVE FALSE
  <2>1. <<y, x>> \in Nat \X Nat /\ <<y, x>>[1] < <<y, x>>[2]
    BY <1>4
  <2>2. <<y, x>> \in R
    BY <2>1, <1>1 DEF OpToRel
  <2> QED BY <2>2, <1>3
<1>5. \A y \in T : x <= y
  BY SMTT(60), <1>4
<1> QED BY <1>5 DEF Min

(* The image i has left its group. *)
Left(gr, D, i, r) ==
  /\ Leads(r.group, D, rows) /\ r.group[i] = i
  /\ \A j \in rows : r.group[j] = i => j = i
  /\ \A g \in D : gr[g] = g => r.group[g] = g
  /\ \/ r.new = None \/ r.new = gr[i]
     \/ r.new \in rows /\ r.group[r.new] = r.new
  /\ r.new # i

(* dt_grouping_remove_from_group leaves every group with a representative,  *)
(* and the image alone in its own.                                          *)
LEMMA LeaveGroup ==
  ASSUME NEW D, D \subseteq Nat \ {0}, rows \subseteq D, NEW gr, Leads(gr, D, rows),
         NEW i \in D, NEW r, r = RemoveFromGroup(gr, i)
  PROVE  Left(gr, D, i, r)
<1> DEFINE others == Members(gr, rows, i) \ {i}
           new == IF others = {} THEN None ELSE Min(others)
<1>1. /\ DOMAIN gr = D /\ gr = [j \in D |-> gr[j]] /\ None # i
      /\ \A j \in rows : gr[j] \in rows /\ gr[gr[j]] = gr[j] /\ j \in D
  BY SMTT(60) DEF Leads, None
<1>2. \A j : j \in others <=> j \in rows /\ gr[j] = i /\ j # i
  BY DEF Members
<1>3. others # {} => new \in others
  <2>1. others \subseteq Nat
    BY <1>2
  <2> HIDE DEF others
  <2> QED BY <2>1, LeastId
<1>4. others = {} => new = None
  OBVIOUS
<1>5. CASE gr[i] = i
  <2> DEFINE h == [j \in DOMAIN gr |-> IF j \in others THEN new ELSE gr[j]]
  <2>1. r = [group |-> h, info |-> others, new |-> new]
    BY <1>5 DEF RemoveFromGroup
  <2> HIDE DEF others, new
  <2>2. h = [j \in D |-> h[j]] /\ \A j \in D : h[j] = IF j \in others THEN new ELSE gr[j]
    BY <1>1
  <2> HIDE DEF h
  <2>3. r.group = h /\ r.new = new
    BY SMTT(60), <2>1
  <2>4. ASSUME NEW j \in rows PROVE h[j] \in rows /\ h[h[j]] = h[j]
    <3>1. CASE j \in others
      BY <1>1, <1>2, <1>3, <2>2, <3>1
    <3>2. CASE j \notin others
      <4>1. h[j] = gr[j] /\ gr[j] \in rows /\ gr[j] \in D
        BY <1>1, <2>2, <3>2
      <4>2. gr[j] \notin others
        BY <1>1, <1>2
      <4> QED BY <1>1, <2>2, <4>1, <4>2
    <3> QED BY <3>1, <3>2
  <2>5. i \notin others /\ h[i] = i
    BY <1>2, <1>5, <2>2
  <2>6. ASSUME NEW j \in rows, h[j] = i PROVE j = i
    BY <1>1, <1>2, <1>3, <2>2, <2>6
  <2>7. ASSUME NEW g \in D, gr[g] = g PROVE h[g] = g
    BY <1>2, <2>2, <2>7
  <2>8. new = None \/ (new \in rows /\ h[new] = new)
    BY <1>1, <1>2, <1>3, <1>4, <2>2
  <2>9. new # i
    BY <1>1, <1>2, <1>3, <1>4
  <2> QED BY <2>2, <2>3, <2>4, <2>5, <2>6, <2>7, <2>8, <2>9 DEF Leads, Left
<1>6. CASE gr[i] # i
  <2> DEFINE h == [gr EXCEPT ![i] = i]
  <2>1. r = [group |-> h, info |-> {i, gr[i]}, new |-> gr[i]]
    BY <1>6 DEF RemoveFromGroup, LeaveOnly
  <2>2. h = [j \in D |-> h[j]] /\ \A j \in D : h[j] = IF j = i THEN i ELSE gr[j]
    BY <1>1
  <2> HIDE DEF h
  <2>3. r.group = h /\ r.new = gr[i]
    BY SMTT(60), <2>1
  <2>4. ASSUME NEW j \in rows PROVE h[j] \in rows /\ h[h[j]] = h[j]
    <3>1. CASE j = i
      BY <2>2, <3>1
    <3>2. CASE j # i
      <4>1. h[j] = gr[j] /\ gr[j] \in rows /\ gr[j] \in D
        BY <1>1, <2>2, <3>2
      <4>2. gr[j] # i
        BY <1>1, <1>6
      <4> QED BY <1>1, <2>2, <4>1, <4>2
    <3> QED BY <3>1, <3>2
  <2>5. h[i] = i
    BY <2>2
  <2>6. ASSUME NEW j \in rows, h[j] = i PROVE j = i
    BY <1>1, <1>6, <2>2, <2>6
  <2>7. ASSUME NEW g \in D, gr[g] = g PROVE h[g] = g
    BY <2>2, <2>7
  <2> QED BY <1>6, <2>2, <2>3, <2>4, <2>5, <2>6, <2>7 DEF Leads, Left
<1> QED BY <1>5, <1>6

(* The image i can join the group g, if one is given, and has joined it. *)
Joinable(gr, g, i) == g # None => g \in rows /\ (gr[g] = g \/ g = i)
Joined(gr, D, g) == Leads(gr, D, rows) /\ (g # None => gr[g] = g)

(* dt_grouping_add_to_group, for a group that exists or the image's own. *)
LEMMA Moved ==
  ASSUME NEW D, D \subseteq Nat \ {0}, rows \subseteq D, NEW s, Leads(s.group, D, rows),
         NEW i \in D, NEW g, Joinable(s.group, g, i), NEW t, t = Move(s, g, i)
  PROVE  Joined(t.group, D, g)
<1>1. PICK r : r = RemoveFromGroup(s.group, i)
  OBVIOUS
<1>2. /\ Leads(r.group, D, rows) /\ r.group[i] = i
      /\ \A j \in rows : r.group[j] = i => j = i
      /\ \A h \in D : s.group[h] = h => r.group[h] = h
  <2>1. Left(s.group, D, i, r)
    BY <1>1, LeaveGroup
  <2> QED BY <2>1 DEF Left
<1>3. Leave(s, i).group = r.group
  BY <1>1 DEF Leave
<1>4. CASE g = None
  BY <1>2, <1>3, <1>4 DEF Move, Joined
<1>5. CASE g # None
  <2> DEFINE h == [r.group EXCEPT ![i] = g]
  <2>1. t.group = h
    BY <1>3, <1>5 DEF Move, AddToGroup
  <2>2. h = [j \in D |-> h[j]] /\ \A j \in D : h[j] = IF j = i THEN g ELSE r.group[j]
    BY <1>2 DEF Leads
  <2> HIDE DEF h
  <2>3. g \in D /\ g \in rows /\ h[g] = g
    BY <1>2, <1>5, <2>2 DEF Joinable
  <2>4. ASSUME NEW j \in rows PROVE h[j] \in rows /\ h[h[j]] = h[j]
    <3>1. CASE j = i
      BY <2>2, <2>3, <3>1
    <3>2. CASE j # i
      <4>1. /\ h[j] = r.group[j] /\ r.group[j] \in rows /\ r.group[j] \in D
            /\ r.group[r.group[j]] = r.group[j]
        BY <1>2, <2>2, <3>2 DEF Leads
      <4>2. r.group[j] # i
        BY <1>2, <3>2
      <4> QED BY <2>2, <4>1, <4>2
    <3> QED BY <3>1, <3>2
  <2> QED BY <2>1, <2>2, <2>3, <2>4 DEF Leads, Joined
<1> QED BY <1>4, <1>5
-----------------------------------------------------------------------------
(* Images are moved one after the other. *)
MoveStep(f, S, g, i) ==
  IF i = 0 THEN Now ELSE IF i \in S THEN Move(f[i - 1], g, i) ELSE f[i - 1]
Moves(f, S, g, N) == f = [i \in 0 .. N |-> MoveStep(f, S, g, i)]

(* The loop over the selected images is well defined. *)
LEMMA MovesExist ==
  ASSUME NEW S, NEW g, NEW N \in Nat
  PROVE  \E f : Moves(f, S, g, N)
<1> DEFINE Bad == {k \in Nat : ~ \E f : Moves(f, S, g, k)}
<1>1. SUFFICES ASSUME Bad # {} PROVE FALSE
  OBVIOUS
<1>2. PICK k \in Bad : \A y \in Bad : k <= y
  BY <1>1, LeastId
<1>3. CASE k = 0
  <2> DEFINE f == [i \in 0 .. 0 |-> Now]
  <2>1. \A i \in 0 .. 0 : i = 0
    BY SMTT(60)
  <2>2. \A i \in 0 .. 0 : MoveStep(f, S, g, i) = Now
    BY <2>1 DEF MoveStep
  <2>3. Moves(f, S, g, 0)
    BY <2>2 DEF Moves
  <2> QED BY <1>3, <2>3
<1>4. CASE k # 0
  <2>1. k - 1 \in Nat /\ ~(k <= k - 1) /\ k \in Nat
    BY SMTT(60), <1>4
  <2>2. PICK f : Moves(f, S, g, k - 1)
    BY <1>2, <2>1
  <2> DEFINE h == [i \in 0 .. k |-> IF i = k THEN MoveStep(f, S, g, k) ELSE f[i]]
  <2>3. ASSUME NEW i \in 0 .. k PROVE h[i] = MoveStep(h, S, g, i)
    <3>1. i # 0 => i - 1 \in 0 .. k /\ i - 1 # k
      BY SMTT(60), <2>1
    <3>2. i # 0 => h[i - 1] = f[i - 1]
      BY <3>1
    <3>6. h[i] = IF i = k THEN MoveStep(f, S, g, k) ELSE f[i]
      OBVIOUS
    <3> HIDE DEF h
    <3>3. MoveStep(h, S, g, i) = MoveStep(f, S, g, i)
      <4>1. CASE i = 0
        BY <4>1 DEF MoveStep
      <4>2. CASE i # 0
        BY <3>2, <4>2 DEF MoveStep
      <4> QED BY <4>1, <4>2
    <3>4. CASE i = k
      BY <3>3, <3>4, <3>6
    <3>5. CASE i # k
      <4>1. i \in 0 .. k - 1
        BY SMTT(60), <2>1, <3>5
      <4>2. f[i] = MoveStep(f, S, g, i)
        BY <2>2, <4>1 DEF Moves
      <4> QED BY <3>3, <3>5, <3>6, <4>2
    <3> QED BY <3>4, <3>5
  <2>4. Moves(h, S, g, k)
    BY <2>3 DEF Moves
  <2> QED BY <2>4
<1> QED BY <1>3, <1>4

(* The group that the images in S join has a leader, or gets its first one. *)
Leader(S, g) ==
  g # None => \/ g \in rows /\ img.group[g] = g
              \/ g \in S /\ \A i \in S : g <= i

(* Group and ungroup leave every group led, the one that is joined too. *)
LEMMA AllMoved ==
  ASSUME NEW D, D \subseteq 1 .. MaxId, rows \subseteq D, Leads(img.group, D, rows),
         NEW S, S \subseteq rows, NEW g, Leader(S, g), NEW t, t = MoveAll(S, g)
  PROVE  Joined(t.group, D, g)
<1>0. MaxId \in Nat /\ D \subseteq Nat \ {0}
  BY SMTT(60), LibraryConstants
<1>1. PICK f : Moves(f, S, g, MaxId) /\ t = f[MaxId]
  <2>1. \E f : Moves(f, S, g, MaxId)
    BY <1>0, MovesExist
  <2>2. PICK f : f = CHOOSE h : Moves(h, S, g, MaxId)
    OBVIOUS
  <2>3. Moves(f, S, g, MaxId)
    BY <2>1, <2>2
  <2>4. t = f[MaxId]
    BY <2>2 DEF MoveAll, Moves, MoveStep
  <2> QED BY <2>3, <2>4
<1> DEFINE Good(k) ==
      /\ Leads(f[k].group, D, rows)
      /\ g # None /\ img.group[g] = g => f[k].group[g] = g
      /\ g # None /\ img.group[g] # g => f[k].group[g] = g \/ k < g
    Bad == {k \in 0 .. MaxId : ~Good(k)}
<1>2. g # None => g \in rows /\ g \in D /\ g \in 1 .. MaxId
  BY DEF Leader
<1>3. Bad = {}
  <2> SUFFICES ASSUME Bad # {} PROVE FALSE
    OBVIOUS
  <2>1. Bad \subseteq Nat
    BY SMTT(60), <1>0
  <2>2. PICK k \in Bad : \A y \in Bad : k <= y
    BY <2>1, LeastId
  <2>3. k \in 0 .. MaxId /\ ~Good(k) /\ f[k] = MoveStep(f, S, g, k)
    BY <1>1 DEF Moves
  <2>4. CASE k = 0
    <3>1. f[k].group = img.group
      <4>1. f[k] = Now
        BY <2>3, <2>4 DEF MoveStep
      <4>2. Now.group = img.group
        BY DEF Now
      <4> QED BY <4>1, <4>2
    <3>2. g # None => k < g
      BY SMTT(60), <1>2, <2>4
    <3> QED BY <2>3, <3>1, <3>2
  <2>5. CASE k # 0
    <3>1. k - 1 \in 0 .. MaxId /\ ~(k <= k - 1)
      BY SMTT(60), <1>0, <2>3, <2>5
    <3>2. Good(k - 1)
      BY <2>2, <3>1
    <3>3. CASE k \in S
      <4>1. f[k] = Move(f[k - 1], g, k) /\ k \in D
        BY <2>3, <2>5, <3>3 DEF MoveStep
      <4>2. g # None => g \in rows /\ (f[k - 1].group[g] = g \/ g = k)
        <5>1. g # None /\ img.group[g] # g /\ k - 1 < g => g = k
          <6>1. g # None /\ img.group[g] # g => g <= k
            BY <3>3 DEF Leader
          <6> QED BY SMTT(60), <1>2, <2>3, <6>1
        <5> QED BY <1>2, <3>2, <5>1
      <4>3. Leads(f[k].group, D, rows) /\ (g # None => f[k].group[g] = g)
        <5>1. PICK s, u : s = f[k - 1] /\ u = f[k]
          OBVIOUS
        <5>2. Leads(s.group, D, rows) /\ u = Move(s, g, k)
          BY <3>2, <4>1, <5>1
        <5>3. Joinable(s.group, g, k)
          BY <4>2, <5>1 DEF Joinable
        <5>4. Joined(u.group, D, g)
          BY <1>0, <4>1, <5>2, <5>3, Moved
        <5> QED BY <5>1, <5>4 DEF Joined
      <4> QED BY <2>3, <4>3
    <3>4. CASE k \notin S
      <4>1. f[k] = f[k - 1]
        BY <2>3, <2>5, <3>4 DEF MoveStep
      <4>2. g # None /\ img.group[g] # g /\ k - 1 < g => k < g
        <5>1. g # None /\ img.group[g] # g => g # k
          BY <3>4 DEF Leader
        <5> QED BY SMTT(60), <1>2, <2>3, <5>1
      <4> QED BY <2>3, <3>2, <4>1, <4>2
    <3> QED BY <3>3, <3>4
  <2> QED BY <2>4, <2>5
<1>4. Good(MaxId)
  <2>1. MaxId \in 0 .. MaxId
    BY SMTT(60), <1>0
  <2> QED BY <1>3, <2>1
<1>5. g # None => ~(MaxId < g)
  BY SMTT(60), <1>0, <1>2
<1> QED BY <1>1, <1>4, <1>5 DEF Joined
-----------------------------------------------------------------------------
(* Steps that leave the groups alone, and at most collapse the expanded one. *)
LEMMA SameGroups ==
  ASSUME GInv, Ids' = Ids, img'.group = img.group, rows' = rows, job' = job,
         met => met', expanded' = expanded \/ expanded' = None
  PROVE  JobShape' /\ LedInv'
<1>1. JobShape /\ LedInv
  BY DEF GInv
<1>2. JobShape'
  BY <1>1 DEF JobShape
<1>3. At' = At
  BY DEF At
<1>4. ASSUME ~met' PROVE /\ Leads(img.group, Ids, rows)'
                         /\ (expanded # None => expanded \in rows /\ img.group[expanded] = expanded)'
                         /\ (job.pc = "expand" => Expanding)'
                         /\ (job.pc = "delete" => Deleting)'
  <2>1. /\ Leads(img.group, Ids, rows)
        /\ expanded # None => expanded \in rows /\ img.group[expanded] = expanded
        /\ job.pc = "expand" => Expanding
        /\ job.pc = "delete" => Deleting
    BY <1>1, <1>4 DEF LedInv
  <2>2. Alone => Alone'
    BY <1>3 DEF Alone
  <2>3. Expanding => Expanding'
    BY <1>3, <2>2 DEF Expanding
  <2>4. Deleting => Deleting'
    BY <1>3, <2>2 DEF Deleting
  <2> QED BY <2>1, <2>3, <2>4
<1> QED BY <1>2, <1>4 DEF LedInv

(* The groups are gr and the expanded group is e, or none: all have a       *)
(* representative.                                                          *)
AllLed(gr, D, R, e) == Leads(gr, D, R) /\ (e # None => e \in R /\ gr[e] = e)

(* Handlers that make other groups, away from the statements of the job. *)
LEMMA NewGroups ==
  ASSUME JobShape', NEW S, met' = (met \/ Meets(S)), job' = job,
         ~met' => AllLed(img'.group, Ids', rows', expanded')
  PROVE  LedInv'
<1>1. ~met' => job'.pc # "expand" /\ job'.pc # "delete"
  BY DEF Meets
<1> QED BY <1>1 DEF LedInv, AllLed

(* The same for handlers that end with an update of the collection. *)
LEMMA Regrouped ==
  ASSUME GInv, NEW gr, NEW sel, NEW th, NEW e, NEW grp, NEW ids, NEW S,
         UpdateQuery(Grouped(gr), rows, sel, th, e, grp, ids),
         met' = (met \/ Meets(S)), job' = job,
         ~met /\ ~Meets(S) => AllLed(gr, Ids, rows, e)
  PROVE  JobShape' /\ LedInv'
<1>1. img' = Grouped(gr) /\ rows' = rows /\ expanded' = e
  BY DEF UpdateQuery
<1>2. img = [group |-> img.group, flags |-> img.flags] /\ JobShape
  BY DEF GInv, LInv, Shape
<1>3. img' = [group |-> gr, flags |-> img.flags]
  BY <1>1, <1>2 DEF Grouped
<1>4. img'.flags = img.flags /\ img'.group = gr
  BY <1>3
<1>5. Ids' = Ids
  BY <1>4 DEF Ids
<1>6. JobShape'
  BY <1>2, <1>5 DEF JobShape
<1>7. ~met' => AllLed(img'.group, Ids', rows', expanded')
  BY <1>1, <1>4, <1>5
<1> QED BY <1>6, <1>7, NewGroups

(* A representative given by the user leads the whole group. *)
LEMMA GivenLeader ==
  ASSUME NEW D, rows \subseteq D, Leads(img.group, D, rows), NEW i \in rows,
         NEW s, s = Led(i)
  PROVE  AllLed(s.group, D, rows, i)
<1> DEFINE all == Members(img.group, rows, img.group[i])
           h == [j \in DOMAIN img.group |-> IF j \in all THEN i ELSE img.group[j]]
<1>1. /\ DOMAIN img.group = D
      /\ \A j \in rows : img.group[j] \in rows /\ img.group[img.group[j]] = img.group[j]
  BY DEF Leads
<1>2. \A j : j \in all <=> j \in rows /\ img.group[j] = img.group[i]
  BY DEF Members
<1>3. s.group = h
  BY DEF Led
<1> HIDE DEF all
<1>4. h = [j \in D |-> h[j]] /\ \A j \in D : h[j] = IF j \in all THEN i ELSE img.group[j]
  BY <1>1
<1> HIDE DEF h
<1>5. i \in D /\ h[i] = i
  BY <1>2, <1>4
<1>6. ASSUME NEW j \in rows PROVE h[j] \in rows /\ h[h[j]] = h[j]
  <2>1. CASE j \in all
    BY <1>4, <1>5, <2>1
  <2>2. CASE j \notin all
    <3>1. /\ h[j] = img.group[j] /\ img.group[j] \in rows
          /\ img.group[img.group[j]] = img.group[j] /\ img.group[j] \in D
      BY <1>1, <1>4, <2>2
    <3>2. img.group[j] \notin all
      BY <1>2, <2>2, <3>1
    <3> QED BY <1>4, <3>1, <3>2
  <2> QED BY <2>1, <2>2
<1> QED BY <1>3, <1>4, <1>5, <1>6 DEF AllLed, Leads

(* _group_helper_function, _ungroup_helper_function and the group button. *)
LEMMA GroupingLed ==
  ASSUME GInv, Group \/ Ungroup \/ \E i \in DOMAIN thumbs : GroupButton(i)
  PROVE  JobShape' /\ LedInv'
<1>0. /\ Ids \subseteq 1 .. MaxId /\ rows \subseteq Ids
      /\ ~met => AllLed(img.group, Ids, rows, expanded)
  BY DEF GInv, LInv, Shape, JobShape, LedInv, AllLed
<1>1. CASE Group
  <2>1. PICK g : g = IF expanded # None \/ selected = {} THEN expanded ELSE Min(selected)
    OBVIOUS
  <2>2. PICK t : t = MoveAll(selected, g)
    OBVIOUS
  <2>3. PICK e : e = IF grouping THEN g ELSE None
    OBVIOUS
  <2>4. /\ UpdateQuery(Grouped(t.group), rows, selected, t.th, e, grouping, selected)
        /\ met' = (met \/ Meets(selected)) /\ job' = job
    BY <1>1, <2>1, <2>2, <2>3 DEF Group
  <2>5. ASSUME ~met, ~Meets(selected) PROVE AllLed(t.group, Ids, rows, e)
    <3>1. selected \subseteq rows /\ AllLed(img.group, Ids, rows, expanded)
      BY <1>0, <2>5 DEF Meets
    <3>2. Leader(selected, g)
      <4>1. CASE expanded # None \/ selected = {}
        BY <2>1, <3>1, <4>1 DEF Leader, AllLed
      <4>2. CASE ~(expanded # None \/ selected = {})
        <5>1. g = Min(selected) /\ selected # {}
          BY <2>1, <4>2
        <5>2. selected \subseteq Nat
          <6>1. 1 .. MaxId \subseteq Nat
            BY SMTT(60), LibraryConstants
          <6> QED BY <1>0, <3>1, <6>1
        <5>3. g \in selected /\ \A y \in selected : g <= y
          BY <5>1, <5>2, LeastId
        <5> QED BY <5>3 DEF Leader
      <4> QED BY <4>1, <4>2
    <3>3. Leads(img.group, Ids, rows)
      BY <3>1 DEF AllLed
    <3>4. Joined(t.group, Ids, g)
      BY <1>0, <2>2, <3>1, <3>2, <3>3, AllMoved
    <3>5. g # None => g \in rows
      BY <3>1, <3>2 DEF Leader
    <3> QED BY <2>3, <3>4, <3>5 DEF AllLed, Joined
  <2> QED BY <2>4, <2>5, Regrouped
<1>2. CASE Ungroup
  <2>1. PICK t : t = MoveAll(selected, None)
    OBVIOUS
  <2>2. /\ UpdateQuery(Grouped(t.group), rows, selected, t.th, None, grouping, selected)
        /\ met' = (met \/ Meets(selected)) /\ job' = job
    BY <1>2, <2>1 DEF Ungroup
  <2>3. ASSUME ~met, ~Meets(selected) PROVE AllLed(t.group, Ids, rows, None)
    <3>1. selected \subseteq rows /\ Leads(img.group, Ids, rows)
      BY <1>0, <2>3 DEF Meets, AllLed
    <3>2. Leader(selected, None)
      BY DEF Leader
    <3>3. Joined(t.group, Ids, None)
      BY <1>0, <2>1, <3>1, <3>2, AllMoved
    <3> QED BY <3>3 DEF AllLed, Joined
  <2> QED BY <2>2, <2>3, Regrouped
<1>3. CASE \E i \in DOMAIN thumbs : GroupButton(i)
  <2>1. PICK i \in DOMAIN thumbs : GroupButton(i)
    BY <1>3
  <2> DEFINE here == ~grouping \/ thumbs[i].group = expanded
             collapse == here /\ i = expanded /\ grouping
  <2>2. PICK s : s = IF here /\ ~collapse THEN Led(i) ELSE Now
    OBVIOUS
  <2>3. PICK e : e = IF collapse THEN None ELSE IF here THEN i ELSE thumbs[i].group
    OBVIOUS
  <2>4. /\ UpdateQuery(Grouped(s.group), rows, selected, s.th, e, grouping, {})
        /\ met' = (met \/ Meets({i})) /\ job' = job
    BY <2>1, <2>2, <2>3 DEF GroupButton
  <2> HIDE DEF here, collapse
  <2>5. ASSUME ~met, ~Meets({i}) PROVE AllLed(s.group, Ids, rows, e)
    <3>1. i \in rows /\ thumbs[i].group = img.group[i] /\ Leads(img.group, Ids, rows)
      BY <1>0, <2>5 DEF Meets, AllLed
    <3>2. CASE here /\ ~collapse
      BY <1>0, <2>2, <2>3, <3>1, <3>2, GivenLeader
    <3>3. CASE ~(here /\ ~collapse)
      <4>1. s.group = img.group
        BY <2>2, <3>3 DEF Now
      <4>2. e # None => e = img.group[i]
        BY <2>3, <3>1, <3>3
      <4> QED BY <3>1, <4>1, <4>2 DEF AllLed, Leads
    <3> QED BY <3>2, <3>3
  <2> QED BY <2>4, <2>5, Regrouped
<1> QED BY <1>1, <1>2, <1>3

(* A duplicate joins the group of the image, and that group is expanded. *)
LEMMA DuplicateLed ==
  ASSUME GInv, NEW i \in rows, Duplicate(i)
  PROVE  JobShape' /\ LedInv'
<1> DEFINE new == Max(Ids) + 1
           gr == [j \in 1 .. new |-> IF j = new THEN img.group[i] ELSE img.group[j]]
           fl == [j \in 1 .. new |-> IF j = new THEN img.flags[i] ELSE img.flags[j]]
<1>1. /\ JobShape /\ rows \subseteq Ids
      /\ ~met => AllLed(img.group, Ids, rows, expanded)
  BY DEF GInv, LInv, Shape, LedInv, AllLed
<1>2. PICK e, th : /\ UpdateQuery([group |-> gr, flags |-> fl], rows \cup {new}, selected,
                                   th, e, grouping, {})
                   /\ e = img.group[i] \/ e = expanded
  BY DEF Duplicate, Ids
<1>3. new <= MaxId /\ met' = (met \/ Meets({i})) /\ job' = job
  BY DEF Duplicate, Ids
<1>4. /\ img' = [group |-> gr, flags |-> fl]
      /\ rows' = rows \cup {new} /\ expanded' = e
  BY <1>2 DEF UpdateQuery
<1>5. PICK m \in Nat \ {0} : Ids = 1 .. m
  BY DEF GInv, LInv, Shape
<1>6. Max(Ids) = m
  <2>1. m \in Ids /\ \A y \in Ids : m >= y
    BY SMTT(60), <1>5
  <2>2. \A x \in Ids : (\A y \in Ids : x >= y) => x = m
    BY SMTT(60), <1>5, <2>1
  <2> QED BY <2>1, <2>2 DEF Max
<1>7. 1 .. new = Ids \cup {new} /\ new \notin Ids /\ 1 .. new \subseteq 1 .. MaxId
  BY SMTT(60), <1>3, <1>5, <1>6, LibraryConstants
<1>8. gr = [j \in 1 .. new |-> gr[j]] /\ gr[new] = img.group[i]
      /\ (\A j \in Ids : gr[j] = img.group[j]) /\ DOMAIN fl = 1 .. new
  BY <1>7
<1> HIDE DEF gr, fl, new
<1>9. img'.flags = fl /\ img'.group = gr
  BY <1>4
<1>10. Ids' = 1 .. new
  BY <1>8, <1>9 DEF Ids
<1>11. JobShape'
  BY <1>1, <1>3, <1>7, <1>10 DEF JobShape
<1>12. ASSUME ~met' PROVE AllLed(img'.group, Ids', rows', expanded')
  <2>1. AllLed(img.group, Ids, rows, expanded)
    BY <1>1, <1>3, <1>12
  <2>2. \A j \in rows : /\ img.group[j] \in rows /\ gr[j] = img.group[j]
                        /\ gr[img.group[j]] = img.group[j]
    BY <1>1, <1>8, <2>1 DEF AllLed, Leads
  <2>3. ASSUME NEW j \in rows' PROVE gr[j] \in rows' /\ gr[gr[j]] = gr[j]
    BY <1>4, <1>8, <2>2
  <2>4. e # None => e \in rows' /\ gr[e] = e
    BY <1>1, <1>2, <1>4, <1>8, <2>1, <2>2 DEF AllLed
  <2> QED BY <1>4, <1>8, <1>9, <1>10, <2>3, <2>4 DEF AllLed, Leads
<1> QED BY <1>3, <1>11, <1>12, NewGroups

(* Ratings, labels, the selection and the main loop are not about groups. *)
LEMMA OthersLed ==
  ASSUME GInv,
         \/ GroupingButton \/ Undo \/ Redo \/ Deliver \/ UNCHANGED vars
         \/ \E S : SetSelection(S)
         \/ \E S, c : ToggleLabel(S, c)
         \/ \E i : GroupButtonSelects(i)
         \/ \E i, r : Rate(i, r)
  PROVE  JobShape' /\ LedInv'
<1>1. img = [group |-> img.group, flags |-> img.flags]
  BY DEF GInv, LInv, Shape
<1>2. \A r : ApplyRatings(r).group = img.group /\ DOMAIN ApplyRatings(r).flags = Ids
  <2> TAKE r
  <2> DEFINE fl == [i \in DOMAIN img.flags |->
                      IF i \in DOMAIN r THEN Rated(img.flags[i], r[i]) ELSE img.flags[i]]
  <2>1. ApplyRatings(r) = [img EXCEPT !.flags = fl]
    BY DEF ApplyRatings
  <2>2. DOMAIN fl = Ids
    BY DEF Ids
  <2> HIDE DEF fl
  <2>3. ApplyRatings(r) = [group |-> img.group, flags |-> fl]
    BY <1>1, <2>1
  <2>4. ApplyRatings(r).group = img.group /\ ApplyRatings(r).flags = fl
    BY SMTT(60), <2>3
  <2> QED BY <2>2, <2>4
<1>3. ASSUME NEW im, im = img \/ \E r : im = ApplyRatings(r), NEW sel, NEW th, NEW e,
             NEW grp, NEW ids, UpdateQuery(im, rows, sel, th, e, grp, ids)
      PROVE  img'.group = img.group /\ Ids' = Ids /\ rows' = rows /\ expanded' = e
  <2>1. img' = im /\ rows' = rows /\ expanded' = e
    BY <1>3 DEF UpdateQuery
  <2> QED BY <1>2, <1>3, <2>1 DEF Ids
<1>4. CASE GroupingButton
  <2>1. UpdateQuery(img, rows, selected, thumbs, None, ~grouping, {}) /\ job' = job /\ met' = met
    BY <1>4 DEF GroupingButton
  <2> QED BY <1>3, <2>1, SameGroups
<1>5. CASE Undo \/ Redo
  <2>1. PICK c, f, t : Pop(c, f, t)
    BY <1>5 DEF Undo, Redo
  <2>2. PICK im, ids : /\ im = img \/ \E r : im = ApplyRatings(r)
                       /\ UpdateQuery(im, rows, selected, thumbs, expanded, grouping, ids)
                       /\ job' = job /\ (met => met')
    BY <2>1 DEF Pop, PopListed
  <2> QED BY <1>3, <2>2, SameGroups
<1>6. CASE Deliver \/ UNCHANGED vars \/ \E S : SetSelection(S)
  <2>1. UNCHANGED <<img, rows, expanded, job, met>>
    BY <1>6 DEF Deliver, SetSelection, vars
  <2>2. Ids' = Ids
    BY <2>1 DEF Ids
  <2> QED BY <2>1, <2>2, SameGroups
<1>7. CASE \E S, c : ToggleLabel(S, c)
  <2>1. PICK S : UpdateQuery(img, rows, selected, thumbs, expanded, grouping, S)
                 /\ job' = job /\ met' = met
    BY <1>7 DEF ToggleLabel
  <2> QED BY <1>3, <2>1, SameGroups
<1>8. CASE \E i : GroupButtonSelects(i)
  <2>1. PICK sel : UpdateQuery(img, rows, sel, thumbs, expanded, grouping, {})
                   /\ job' = job /\ met' = met
    BY <1>8 DEF GroupButtonSelects
  <2> QED BY <1>3, <2>1, SameGroups
<1>9. CASE \E i, r : Rate(i, r)
  <2>1. PICK r, ids : UpdateQuery(ApplyRatings(r), rows, selected, thumbs, expanded, grouping, ids)
                      /\ job' = job /\ (met => met')
    BY <1>9 DEF Rate
  <2> QED BY <1>3, <2>1, SameGroups
<1> QED BY <1>4, <1>5, <1>6, <1>7, <1>8, <1>9

(* The fields of a job that is idle or starts. *)
LEMMA JobStarts ==
  ASSUME NEW j, NEW a, NEW b, NEW c, NEW d, NEW e,
         j = [ids |-> a, left |-> b, pc |-> c, old |-> d, new |-> e]
  PROVE  IsJob(j) /\ j.left = b /\ j.pc = c
<1>1. IsJob(j)
  BY DEF IsJob, JobParts
<1>2. j.left = b /\ j.pc = c
  BY SMTT(60)
<1> QED BY <1>1, <1>2

(* The job takes an image out of its group, lets the group stay expanded    *)
(* under its new representative, and only then deletes the row.             *)
LEMMA JobLed ==
  ASSUME GInv, \/ \E m \in DOMAIN thumbs \cup {None} : RemoveImages(ToActOn(m))
               \/ Regroup \/ Reexpand \/ Delete \/ Finish
  PROVE  JobShape' /\ LedInv'
<1>0. /\ img = [group |-> img.group, flags |-> img.flags]
      /\ rows \subseteq Ids /\ collected \subseteq Ids /\ DOMAIN thumbs \subseteq Ids
      /\ Ids \subseteq Nat \ {0} /\ Ids \subseteq 1 .. MaxId
      /\ job.left \subseteq Ids /\ JobShape
  <2>1. Ids \subseteq 1 .. MaxId
    BY DEF GInv, JobShape
  <2>2. 1 .. MaxId \subseteq Nat \ {0}
    BY SMTT(60), LibraryConstants
  <2> QED BY <2>1, <2>2 DEF GInv, JobShape, LInv, Shape
<1>1. ~met => /\ Leads(img.group, Ids, rows)
              /\ expanded # None => expanded \in rows /\ img.group[expanded] = expanded
              /\ job.pc = "expand" => Expanding
              /\ job.pc = "delete" => Deleting
  BY DEF GInv, LedInv
<1>2. CASE \E m \in DOMAIN thumbs \cup {None} : RemoveImages(ToActOn(m))
  <2>1. PICK m \in DOMAIN thumbs \cup {None} : RemoveImages(ToActOn(m))
    BY <1>2
  <2>2. PICK S : S = ToActOn(m)
    OBVIOUS
  <2>3. S \subseteq Ids
    BY <1>0, <2>2 DEF ToActOn
  <2>4. /\ S # {} /\ UNCHANGED <<img, rows, expanded, met>>
        /\ job' = [ids |-> S, left |-> S, pc |-> "regroup", old |-> None, new |-> None]
    BY <2>1, <2>2 DEF RemoveImages, Idle
  <2>5. IsJob(job') /\ job'.left = S /\ job'.pc = "regroup"
    BY <2>4, JobStarts
  <2>6. Ids' = Ids
    BY <2>4 DEF Ids
  <2>7. JobShape'
    BY <1>0, <2>3, <2>4, <2>5, <2>6 DEF JobShape
  <2>8. job'.pc # "expand" /\ job'.pc # "delete"
    BY <2>5
  <2> QED BY <1>1, <2>4, <2>6, <2>7, <2>8 DEF LedInv
<1>3. CASE Finish
  <2>1. UNCHANGED <<img, rows, expanded, met>> /\ job' = Idle
    BY <1>3 DEF Finish
  <2>2. IsJob(job') /\ job'.left = {} /\ job'.pc = "idle"
    BY <2>1, JobStarts DEF Idle
  <2>3. Ids' = Ids
    BY <2>1 DEF Ids
  <2>4. job'.pc \notin {"regroup", "expand", "delete"}
    BY <2>2
  <2>5. JobShape'
    BY <1>0, <2>2, <2>3, <2>4 DEF JobShape
  <2> QED BY <1>1, <2>1, <2>3, <2>4, <2>5 DEF LedInv
<1>4. CASE Regroup
  <2>1. PICK r : r = RemoveFromGroup(img.group, At)
    OBVIOUS
  <2>2. /\ job.pc = "regroup" /\ img' = Grouped(r.group)
        /\ job' = [job EXCEPT !.pc = "expand", !.old = img.group[At], !.new = r.new]
        /\ UNCHANGED <<rows, expanded, met>>
    BY <1>4, <2>1 DEF Regroup, At
  <2>3. IsJob(job)
    BY <1>0 DEF JobShape
  <2>4. /\ IsJob(job') /\ job'.left = job.left /\ job'.pc = "expand"
        /\ job'.old = img.group[At] /\ job'.new = r.new
    <3>1. PICK k, p, o, v : /\ k = job' /\ p = "expand" /\ o = img.group[At] /\ v = r.new
      OBVIOUS
    <3>2. k = [job EXCEPT !.pc = p, !.old = o, !.new = v]
      BY <2>2, <3>1
    <3>3. IsJob(k)
      BY <2>3, <3>2 DEF IsJob, JobParts
    <3>4. k.left = job.left /\ k.pc = p /\ k.old = o /\ k.new = v
      BY SMTT(60), <2>3, <3>2 DEF IsJob, JobParts
    <3> QED BY <3>1, <3>3, <3>4
  <2>5. img' = [group |-> r.group, flags |-> img.flags]
    BY <1>0, <2>2 DEF Grouped
  <2>6. img'.group = r.group /\ img'.flags = img.flags
    BY <2>5
  <2>7. Ids' = Ids /\ At' = At
    BY <2>4, <2>6 DEF Ids, At
  <2>8. job.left # {}
    BY <1>0, <2>2 DEF JobShape
  <2>9. JobShape'
    BY <1>0, <2>4, <2>7, <2>8 DEF JobShape
  <2>10. At \in Ids
    BY <1>0, <2>8, LeastId DEF At
  <2>11. ASSUME ~met PROVE /\ Leads(img.group, Ids, rows)'
                           /\ (expanded # None => expanded \in rows /\ img.group[expanded] = expanded)'
                           /\ Expanding'
    <3>1. Left(img.group, Ids, At, r)
      BY <1>0, <1>1, <2>1, <2>10, <2>11, LeaveGroup
    <3>2. Leads(img'.group, Ids', rows')
      BY <2>2, <2>6, <2>7, <3>1 DEF Left
    <3>3. expanded' # None => expanded' \in rows' /\ img'.group[expanded'] = expanded'
      BY <1>0, <1>1, <2>2, <2>6, <2>11, <3>1 DEF Left
    <3>4. Alone'
      BY <2>2, <2>6, <2>7, <3>1 DEF Left, Alone
    <3>5. \/ job'.new = None \/ job'.new = job'.old
          \/ job'.new \in rows' /\ img'.group[job'.new] = job'.new
      <4>1. \/ r.new = None \/ r.new = img.group[At]
            \/ r.new \in rows /\ r.group[r.new] = r.new
        BY <3>1 DEF Left
      <4>2. /\ job'.new = r.new /\ job'.old = img.group[At] /\ img'.group = r.group
            /\ rows' = rows
        BY <2>2, <2>4, <2>6
      <4> QED BY <4>1, <4>2
    <3>6. expanded' # None /\ expanded' = At' => job'.old = At'
      BY <1>1, <2>2, <2>4, <2>7, <2>11
    <3>7. job'.new # At'
      BY <2>4, <2>7, <3>1 DEF Left
    <3>8. Expanding'
      BY <3>4, <3>5, <3>6, <3>7 DEF Expanding
    <3> QED BY <3>2, <3>3, <3>8
  <2>12. job'.pc # "delete"
    BY <2>4
  <2> QED BY <2>2, <2>9, <2>11, <2>12 DEF LedInv
<1>5. CASE Reexpand
  <2>1. /\ job.pc = "expand" /\ job' = [job EXCEPT !.pc = "delete"]
        /\ expanded' = IF expanded = job.old THEN job.new ELSE expanded
        /\ UNCHANGED <<rows, img, met>>
    BY <1>5 DEF Reexpand
  <2>2. IsJob(job)
    BY <1>0 DEF JobShape
  <2>3. IsJob(job') /\ job'.left = job.left /\ job'.pc = "delete"
    <3>1. PICK k : k = job'
      OBVIOUS
    <3>2. k = [job EXCEPT !.pc = "delete"]
      BY <2>1, <3>1
    <3>3. IsJob(k)
      BY <2>2, <3>2 DEF IsJob, JobParts
    <3>4. k.left = job.left /\ k.pc = "delete"
      BY SMTT(60), <2>2, <3>2 DEF IsJob, JobParts
    <3> QED BY <3>1, <3>3, <3>4
  <2>4. Ids' = Ids /\ At' = At
    BY <2>1, <2>3 DEF Ids, At
  <2>5. JobShape'
    BY <1>0, <2>1, <2>3, <2>4 DEF JobShape
  <2>6. ASSUME ~met PROVE /\ Leads(img.group, Ids, rows)'
                          /\ (expanded # None => expanded \in rows /\ img.group[expanded] = expanded)'
                          /\ Deleting'
    <3>1. /\ Leads(img.group, Ids, rows) /\ Expanding
          /\ expanded # None => expanded \in rows /\ img.group[expanded] = expanded
      BY <1>1, <2>1, <2>6
    <3>2. Leads(img'.group, Ids', rows')
      BY <2>1, <2>4, <3>1
    <3>3. expanded' # None => expanded' \in rows /\ img.group[expanded'] = expanded'
      BY <2>1, <3>1 DEF Expanding
    <3>4. expanded' # None => expanded' # At
      BY <2>1, <3>1 DEF Expanding
    <3>5. Alone'
      BY <2>1, <2>4, <3>1 DEF Expanding, Alone
    <3>6. Deleting'
      BY <2>4, <3>4, <3>5 DEF Deleting
    <3> QED BY <2>1, <3>2, <3>3, <3>6
  <2>7. job'.pc # "expand"
    BY <2>3
  <2> QED BY <2>1, <2>5, <2>6, <2>7 DEF LedInv
<1>6. CASE Delete
  <2>1. PICK pc : pc = IF job.left \ {At} = {} THEN "end" ELSE "regroup"
    OBVIOUS
  <2>2. /\ job.pc = "delete" /\ rows' = rows \ {At}
        /\ job' = [job EXCEPT !.left = job.left \ {At}, !.pc = pc]
        /\ UNCHANGED <<img, expanded, met>>
    BY <1>6, <2>1 DEF Delete, At
  <2>3. IsJob(job)
    BY <1>0 DEF JobShape
  <2>4. IsJob(job') /\ job'.left = job.left \ {At} /\ job'.pc = pc
    <3>1. PICK k, l : k = job' /\ l = job.left \ {At}
      OBVIOUS
    <3>2. k = [job EXCEPT !.left = l, !.pc = pc]
      BY <2>2, <3>1
    <3>3. IsJob(k)
      BY <2>3, <3>2 DEF IsJob, JobParts
    <3>4. k.left = l /\ k.pc = pc
      BY SMTT(60), <2>3, <3>2 DEF IsJob, JobParts
    <3> QED BY <3>1, <3>3, <3>4
  <2>5. Ids' = Ids
    BY <2>2 DEF Ids
  <2>6. /\ job'.pc # "expand" /\ job'.pc # "delete"
        /\ job'.pc = "regroup" => job'.left # {}
    BY <2>1, <2>4
  <2>7. JobShape'
    BY <1>0, <2>3, <2>4, <2>5, <2>6 DEF JobShape
  <2>8. ASSUME ~met PROVE /\ Leads(img.group, Ids, rows)'
                          /\ (expanded # None => expanded \in rows /\ img.group[expanded] = expanded)'
    <3>1. /\ Leads(img.group, Ids, rows) /\ Deleting
          /\ expanded # None => expanded \in rows /\ img.group[expanded] = expanded
      BY <1>1, <2>2, <2>8
    <3>2. Leads(img.group, Ids, rows \ {At})
      BY <3>1 DEF Leads, Deleting, Alone
    <3>3. expanded # None => expanded \in rows \ {At}
      BY <3>1 DEF Deleting
    <3> QED BY <2>2, <2>5, <3>1, <3>2, <3>3
  <2> QED BY <2>2, <2>6, <2>7, <2>8 DEF LedInv
<1> QED BY <1>2, <1>3, <1>4, <1>5, <1>6

(* A library that was just opened has its groups led. *)
LEMMA GroupsInit == Init => GInv
<1> SUFFICES ASSUME Init PROVE GInv
  OBVIOUS
<1>1. PICK g \in [rows -> rows] :
        /\ \A i \in rows : g[g[i]] = g[i]
        /\ img = [group |-> g, flags |-> [i \in rows |-> [stars |-> 0, rejected |-> FALSE]]]
  BY DEF Init
<1>2. img.flags = [i \in rows |-> [stars |-> 0, rejected |-> FALSE]] /\ img.group = g
  BY SMTT(60), <1>1
<1>3. Ids = rows
  BY <1>2 DEF Ids
<1>4. rows = 1 .. Imported /\ job = Idle /\ expanded = None
  BY DEF Init
<1>5. 1 .. Imported \subseteq 1 .. MaxId
  BY SMTT(60), LibraryConstants
<1>6. IsJob(job) /\ job.left = {} /\ job.pc = "idle"
  BY <1>4, JobStarts DEF Idle
<1>7. job.pc \notin {"regroup", "expand", "delete"}
  BY <1>6
<1>8. JobShape
  BY <1>3, <1>4, <1>5, <1>6, <1>7 DEF JobShape
<1>9. Leads(img.group, Ids, rows)
  BY <1>1, <1>2, <1>3 DEF Leads
<1>10. LedInv
  BY <1>4, <1>7, <1>9 DEF LedInv
<1> QED BY <1>8, <1>10, LibraryInit DEF GInv

(* Every step of the user, of the job and of the main loop keeps them so. *)
LEMMA GroupsStep == GInv /\ [Next]_vars => GInv'
<1> SUFFICES ASSUME GInv, [Next]_vars PROVE GInv'
  OBVIOUS
<1>1. LInv'
  BY LibraryStep DEF GInv
<1>2. JobShape' /\ LedInv'
  <2>1. CASE Group \/ Ungroup \/ \E i \in DOMAIN thumbs : GroupButton(i)
    BY <2>1, GroupingLed
  <2>2. CASE \E i \in rows : Duplicate(i)
    BY <2>2, DuplicateLed
  <2>3. CASE \/ \E m \in DOMAIN thumbs \cup {None} : RemoveImages(ToActOn(m))
             \/ Regroup \/ Reexpand \/ Delete \/ Finish
    BY <2>3, JobLed
  <2>4. CASE \/ GroupingButton \/ Undo \/ Redo \/ Deliver \/ UNCHANGED vars
             \/ \E S : SetSelection(S)
             \/ \E S, c : ToggleLabel(S, c)
             \/ \E i : GroupButtonSelects(i)
             \/ \E i, r : Rate(i, r)
    BY <2>4, OthersLed
  <2>5. SelectAll \/ SelectNone \/ (\E i \in DOMAIN thumbs : SelectSingle(i) \/ Toggle(i))
          => \E S : SetSelection(S)
    BY DEF SelectAll, SelectNone, SelectSingle, Toggle
  <2> QED BY <2>1, <2>2, <2>3, <2>4, <2>5 DEF Next, User, Job
<1> QED BY <1>1, <1>2 DEF GInv

(* Every image is in a group whose representative exists and represents     *)
(* itself, and so is the expanded group, whatever is grouped, taken apart,  *)
(* duplicated and removed, as long as no handler has met a removal: for any *)
(* number of images and operations.                                         *)
THEOREM GroupsStayLed == Spec => []GroupsLed
<1>1. GInv => GroupsLed
  BY DEF GInv, LedInv, Leads, GroupsLed
<1> QED BY <1>1, GroupsInit, GroupsStep, PTL DEF Spec
-----------------------------------------------------------------------------
(* Thumbnails.  The images named by a signal that has not arrived yet. *)
Awaited == UNION {posted[k].ids : k \in 1 .. Len(posted)}

(* The thumbnails have yet to hear that the collection has changed. *)
Outdated == \E k \in 1 .. Len(posted) : posted[k].kind = "collection"

(* What the thumbnails th remember of the groups gr and the flags fl is     *)
(* true, but for the groups of images in P.                                 *)
AgreesAt(x, gr, fl, P, i) ==
  x.rating = View(fl[i]) /\ (x.group = gr[i] \/ i \in P)
Agrees(th, gr, fl, P) == \A i \in DOMAIN th : AgreesAt(th[i], gr, fl, P, i)

(* The group that is expanded, once the job has let the group old, if it is *)
(* that one, stay expanded as new.                                          *)
Stays(e, old, new) == IF e = old THEN new ELSE e
Showing == IF job.pc = "expand" THEN Stays(expanded, job.old, job.new) ELSE expanded

(* A group that is not expanded is shown by one image. *)
Single(S, R, gr, e, grp) ==
  grp => \A i, j \in S \cap R : gr[i] = gr[j] /\ gr[i] # e => i = j

(* The job knows, before it lets the group stay expanded, whether its image *)
(* was the representative.                                                  *)
Knows == job.pc = "expand" => job.old = At \/ job.new = job.old

ThumbInv ==
  /\ IsList(posted)
  /\ DOMAIN thumbs = collected \/ Outdated
  /\ Agrees(thumbs, img.group, img.flags, Awaited)
  /\ Single(DOMAIN thumbs, rows, img.group, Showing, grouping)
  /\ Single(collected, rows, img.group, Showing, grouping)
  /\ Knows
TInv == GInv /\ (~met => ThumbInv)

(* What a thumbnail sees when it looks at its image is true. *)
LEMMA LooksTrue ==
  ASSUME NEW im, NEW R, NEW i, NEW P
  PROVE  AgreesAt(Look(im, R, i), im.group, im.flags, P, i)
<1> DEFINE a == im.group[i]
           b == View(im.flags[i])
           c == i \in R /\ Members(im.group, R, im.group[i]) # {i}
           x == Look(im, R, i)
<1>1. x = [group |-> a, rating |-> b, is_grouped |-> c]
  BY DEF Look
<1> HIDE DEF a, b, c, x
<1>2. x.group = a /\ x.rating = b
  BY SMTT(60), <1>1
<1> QED BY <1>2 DEF AgreesAt, a, b, x

(* What the thumbnails th remember of the images im is true, but for the    *)
(* images that a signal is going to name.                                   *)
Ready(th, im, ids, P) ==
  \A j \in DOMAIN th \ ids : AgreesAt(th[j], im.group, im.flags, P, j)

(* Thumbnails of the images in S that are true, but for groups in P. *)
Tracks(th, S, im, P) == DOMAIN th = S /\ Agrees(th, im.group, im.flags, P)

(* After DT_SIGNAL_IMAGE_INFO_CHANGED about the images that changed the     *)
(* thumbnails are as true as before.                                        *)
LEMMA InfoAgrees ==
  ASSUME NEW th, NEW P, NEW im, NEW R, NEW ids, NEW t,
         Ready(th, im, ids, P), t = InfoChanged(th, im, R, ids)
  PROVE  Tracks(t, DOMAIN th, im, P)
<1>1. /\ DOMAIN t = DOMAIN th
      /\ \A i \in DOMAIN th : t[i] = IF i \in ids THEN Look(im, R, i) ELSE th[i]
  BY DEF InfoChanged
<1>2. ASSUME NEW i \in DOMAIN th PROVE AgreesAt(t[i], im.group, im.flags, P, i)
  <2>1. CASE i \in ids
    BY <1>1, <2>1, LooksTrue
  <2>2. CASE i \notin ids
    BY <1>1, <2>2 DEF Ready
  <2> QED BY <2>1, <2>2
<1> QED BY <1>1, <1>2 DEF Agrees, Tracks

(* The same for an update of the collection that names them. *)
LEMMA CollectionAgrees ==
  ASSUME NEW th, NEW P, NEW im, NEW R, NEW c, NEW ids, NEW t,
         Ready(th, im, ids, P), t = CollectionChanged(th, im, R, c, ids)
  PROVE  Tracks(t, c, im, P)
<1>1. /\ DOMAIN t = c
      /\ \A i \in c : t[i] = IF i \in DOMAIN th \ ids THEN th[i] ELSE Look(im, R, i)
  BY DEF CollectionChanged
<1>2. ASSUME NEW i \in c PROVE AgreesAt(t[i], im.group, im.flags, P, i)
  <2>1. CASE i \notin DOMAIN th \ ids
    BY <1>1, <2>1, LooksTrue
  <2>2. CASE i \in DOMAIN th \ ids
    BY <1>1, <2>2 DEF Ready
  <2> QED BY <2>1, <2>2
<1> QED BY <1>1, <1>2 DEF Agrees, Tracks

(* Within a group the distances to the representative differ. *)
LEMMA DistancesDiffer ==
  ASSUME NEW im, NEW i \in Nat, NEW j \in Nat, im.group[i] \in Nat,
         im.group[i] = im.group[j],
         Distance(im, i) <= Distance(im, j), Distance(im, j) <= Distance(im, i)
  PROVE  i = j
<1> DEFINE g == im.group[i]
           D(d) == IF d < 0 THEN 2 * (-d) + 1 ELSE 2 * d
<1>1. Distance(im, i) = D(i - g) /\ Distance(im, j) = D(j - g)
  BY DEF Distance
<1>2. g \in Nat
  OBVIOUS
<1> HIDE DEF g
<1> QED BY SMTT(60), <1>1, <1>2

(* Of the group that is expanded all images are shown, and what will be the *)
(* expanded group is that one, unless it has one image.                     *)
Shows(gr, R, e, show) == show = e \/ \A j \in R : gr[j] = e => j = e

(* The collection shows one image of a group that is not expanded. *)
LEMMA QuerySingle ==
  ASSUME NEW im, NEW D, D \subseteq Nat \ {0}, NEW R, R \subseteq D, NEW e,
         AllLed(im.group, D, R, e), NEW show, Shows(im.group, R, e, show), NEW grp
  PROVE  Single(Query(im, R, e, grp), R, im.group, show, grp)
<1>1. SUFFICES ASSUME grp, NEW i \in Query(im, R, e, grp) \cap R, NEW j \in Query(im, R, e, grp) \cap R,
                      im.group[i] = im.group[j], im.group[i] # show
               PROVE  i = j
  BY DEF Single
<1>2. CASE im.group[i] = e
  BY <1>1, <1>2 DEF Shows
<1>3. CASE im.group[i] # e
  <2>0. None \notin R
    BY SMTT(60) DEF None
  <2>1. i # e /\ j # e
    BY <1>1, <1>3, <2>0 DEF AllLed
  <2>2. i \in Nearest(im, R) /\ j \in Nearest(im, R)
    BY <1>1, <1>3, <2>1 DEF Query, Members
  <2>3. /\ i \in Members(im.group, NoGroup(im, R), im.group[j])
        /\ j \in Members(im.group, NoGroup(im, R), im.group[i])
    BY <1>1, <2>2 DEF Nearest, Members
  <2>4. Distance(im, i) <= Distance(im, j) /\ Distance(im, j) <= Distance(im, i)
    BY <2>2, <2>3 DEF Nearest
  <2>5. i \in Nat /\ j \in Nat /\ im.group[i] \in Nat
    BY <1>1 DEF AllLed, Leads
  <2> QED BY <1>1, <2>4, <2>5, DistancesDiffer
<1> QED BY <1>2, <1>3

(* A collection that was just asked for shows one image of each group. *)
LEMMA FreshSingle ==
  ASSUME GInv', ~met', Knows'
  PROVE  Single(Query(img', rows', expanded', grouping'), rows', img'.group, Showing', grouping')
<1>1. /\ Ids' \subseteq Nat \ {0} /\ rows' \subseteq Ids'
      /\ AllLed(img'.group, Ids', rows', expanded') /\ (job'.pc = "expand" => Alone')
  <2>1. 1 .. MaxId \subseteq Nat \ {0}
    BY SMTT(60), LibraryConstants
  <2> QED BY <2>1 DEF GInv, LInv, Shape, JobShape, LedInv, AllLed, Expanding
<1>2. Shows(img'.group, rows', expanded', Showing')
  BY <1>1 DEF Shows, Showing, Stays, Knows, Alone
<1> QED BY <1>1, <1>2, QuerySingle

(* After a handler that ends with an update of the collection, which names  *)
(* the images whose thumbnails it has not told.                             *)
LEMMA Shown ==
  ASSUME GInv', ~met', Knows', IsList(posted), posted' = posted,
         NEW im, NEW R, NEW sel, NEW th, NEW e, NEW grp, NEW ids,
         UpdateQuery(im, R, sel, th, e, grp, ids),
         Ready(th, im, ids, Awaited)
  PROVE  ThumbInv'
<1>1. /\ img' = im /\ rows' = R /\ expanded' = e /\ grouping' = grp
      /\ collected' = Query(im, R, e, grp)
      /\ thumbs' = CollectionChanged(th, im, R, collected', ids)
  BY DEF UpdateQuery
<1>2. DOMAIN thumbs' = collected' /\ Agrees(thumbs', im.group, im.flags, Awaited)
  <2>1. PICK c, t, P : c = collected' /\ t = thumbs' /\ P = Awaited
    OBVIOUS
  <2>2. Ready(th, im, ids, P) /\ t = CollectionChanged(th, im, R, c, ids)
    BY <1>1, <2>1
  <2>3. Tracks(t, c, im, P)
    BY <2>2, CollectionAgrees
  <2> QED BY <2>1, <2>3 DEF Tracks
<1>3. Single(collected', rows', img'.group, Showing', grouping')
  BY <1>1, FreshSingle
<1>4. Awaited' = Awaited
  BY DEF Awaited
<1>5. Agrees(thumbs', img'.group, img'.flags, Awaited')
  BY <1>1, <1>2, <1>4
<1> QED BY <1>2, <1>3, <1>5 DEF ThumbInv

-----------------------------------------------------------------------------
(* The images of a library with other groups. *)
LEMMA GroupedFields ==
  ASSUME Shape, NEW gr
  PROVE  Grouped(gr).group = gr /\ Grouped(gr).flags = img.flags
<1>0. img = [group |-> img.group, flags |-> img.flags]
  BY DEF Shape
<1>1. PICK im, x, a, fl : im = img /\ x = Grouped(gr) /\ a = img.group /\ fl = img.flags
  OBVIOUS
<1>2. im = [group |-> a, flags |-> fl] /\ x = [im EXCEPT !.group = gr]
  BY <1>0, <1>1 DEF Grouped
<1>3. x = [group |-> gr, flags |-> fl]
  BY SMTT(60), <1>2
<1>4. x.group = gr /\ x.flags = fl
  BY SMTT(60), <1>3
<1> QED BY <1>1, <1>4

(* The images named are those whose group has changed. *)
Tells(gr, D, r) ==
  r.group = [j \in D |-> r.group[j]] /\ \A j \in D : j \notin r.info => r.group[j] = gr[j]

(* dt_grouping_remove_from_group names the images that it changes. *)
LEMMA LeaveTells ==
  ASSUME NEW D, NEW gr, gr = [j \in D |-> gr[j]], NEW i \in D, NEW r,
         r = RemoveFromGroup(gr, i)
  PROVE  Tells(gr, D, r)
<1>0. DOMAIN gr = D
  OBVIOUS
<1>1. CASE gr[i] = i
  <2>1. PICK others, new :
          r = [group |-> [j \in DOMAIN gr |-> IF j \in others THEN new ELSE gr[j]],
               info |-> others, new |-> new]
    BY <1>1 DEF RemoveFromGroup
  <2>2. PICK h : h = [j \in D |-> IF j \in others THEN new ELSE gr[j]]
    OBVIOUS
  <2>3. r = [group |-> h, info |-> others, new |-> new]
    BY <1>0, <2>1, <2>2
  <2>4. r.group = h /\ r.info = others
    BY SMTT(60), <2>3
  <2>5. h = [j \in D |-> h[j]] /\ \A j \in D : j \notin others => h[j] = gr[j]
    BY <2>2
  <2> QED BY <2>4, <2>5 DEF Tells
<1>2. CASE gr[i] # i
  <2>1. PICK h : h = [gr EXCEPT ![i] = i]
    OBVIOUS
  <2>2. PICK g : g = gr[i]
    OBVIOUS
  <2>3. r = [group |-> h, info |-> {i, g}, new |-> g]
    BY <1>2, <2>1, <2>2 DEF RemoveFromGroup, LeaveOnly
  <2>4. r.group = h /\ r.info = {i, g}
    BY SMTT(60), <2>3
  <2>5. h = [j \in D |-> h[j]] /\ \A j \in D : j # i => h[j] = gr[j]
    BY <1>0, <2>1
  <2> QED BY <2>4, <2>5 DEF Tells
<1> QED BY <1>1, <1>2

(* Between two steps of a loop over images: the thumbnails are still there  *)
(* and true.                                                                *)
Kept(gr, th, D, T, P) ==
  /\ gr = [j \in D |-> gr[j]] /\ DOMAIN th = T /\ T \subseteq D
  /\ Agrees(th, gr, img.flags, P)

(* Groups change, and a signal names the images. *)
LEMMA Signalled ==
  ASSUME Shape, NEW gr, NEW th, NEW D, NEW T, NEW P, Kept(gr, th, D, T, P), NEW h,
         h = [j \in D |-> h[j]], NEW ids, \A j \in D : j \notin ids => h[j] = gr[j]
  PROVE  Kept(h, InfoChanged(th, Grouped(h), rows, ids), D, T, P)
<1>1. PICK im : im = Grouped(h)
  OBVIOUS
<1>2. im.group = h /\ im.flags = img.flags
  BY <1>1, GroupedFields
<1>3. Agrees(th, gr, img.flags, P) /\ DOMAIN th = T /\ T \subseteq D
  BY DEF Kept
<1>4. Ready(th, im, ids, P)
  BY <1>2, <1>3 DEF Ready, Agrees, AgreesAt
<1>5. PICK t : t = InfoChanged(th, im, rows, ids)
  OBVIOUS
<1>6. Tracks(t, DOMAIN th, im, P)
  BY <1>4, <1>5, InfoAgrees
<1> QED BY <1>1, <1>2, <1>3, <1>5, <1>6 DEF Kept, Tracks

(* An image leaves its group or joins another in the GUI thread. *)
LEMMA MoveKeeps ==
  ASSUME Shape, NEW s, NEW D, NEW T, NEW P, Kept(s.group, s.th, D, T, P), NEW i \in D,
         NEW g, NEW t, t = Move(s, g, i)
  PROVE  Kept(t.group, t.th, D, T, P)
<1>1. PICK r : r = RemoveFromGroup(s.group, i)
  OBVIOUS
<1>2. Tells(s.group, D, r)
  <2>1. PICK gr : gr = s.group
    OBVIOUS
  <2>2. gr = [j \in D |-> gr[j]] /\ r = RemoveFromGroup(gr, i)
    BY <1>1, <2>1 DEF Kept
  <2> QED BY <2>1, <2>2, LeaveTells
<1>3. PICK u : u = Leave(s, i)
  OBVIOUS
<1>4. u.group = r.group /\ u.th = InfoChanged(s.th, Grouped(r.group), rows, r.info)
  BY <1>1, <1>3 DEF Leave
<1>5. Kept(u.group, u.th, D, T, P)
  <2>1. PICK gr, th, h, ids : gr = s.group /\ th = s.th /\ h = r.group /\ ids = r.info
    OBVIOUS
  <2>2. /\ Kept(gr, th, D, T, P) /\ h = [j \in D |-> h[j]]
        /\ \A j \in D : j \notin ids => h[j] = gr[j]
    BY <1>2, <2>1 DEF Tells
  <2>3. Kept(h, InfoChanged(th, Grouped(h), rows, ids), D, T, P)
    BY <2>2, Signalled
  <2> QED BY <1>4, <2>1, <2>3
<1>6. CASE g = None
  BY <1>3, <1>5, <1>6 DEF Move
<1>7. CASE g # None
  <2>1. PICK gr, th, h : gr = u.group /\ th = u.th /\ h = [u.group EXCEPT ![i] = g]
    OBVIOUS
  <2>2. t.group = h /\ t.th = InfoChanged(th, Grouped(h), rows, {i})
    BY <1>3, <1>7, <2>1 DEF Move, AddToGroup
  <2>3. Kept(gr, th, D, T, P)
    BY <1>5, <2>1
  <2>4. h = [j \in D |-> h[j]] /\ \A j \in D : j \notin {i} => h[j] = gr[j]
    BY <2>1, <2>3 DEF Kept
  <2>5. Kept(h, InfoChanged(th, Grouped(h), rows, {i}), D, T, P)
    BY <2>3, <2>4, Signalled
  <2> QED BY <2>2, <2>5
<1> QED BY <1>6, <1>7

(* So do all images in S, one after the other. *)
LEMMA AllKept ==
  ASSUME Shape, NEW D, NEW T, NEW P, Kept(img.group, thumbs, D, T, P),
         NEW S, S \subseteq D, NEW g, NEW t, t = MoveAll(S, g)
  PROVE  Kept(t.group, t.th, D, T, P)
<1>0. MaxId \in Nat
  BY LibraryConstants
<1>1. PICK f : Moves(f, S, g, MaxId) /\ t = f[MaxId]
  <2>1. \E f : Moves(f, S, g, MaxId)
    BY <1>0, MovesExist
  <2>2. PICK f : f = CHOOSE h : Moves(h, S, g, MaxId)
    OBVIOUS
  <2>3. Moves(f, S, g, MaxId)
    BY <2>1, <2>2
  <2>4. t = f[MaxId]
    BY <2>2 DEF MoveAll, Moves, MoveStep
  <2> QED BY <2>3, <2>4
<1> DEFINE Bad == {k \in 0 .. MaxId : ~Kept(f[k].group, f[k].th, D, T, P)}
<1>2. Bad = {}
  <2> SUFFICES ASSUME Bad # {} PROVE FALSE
    OBVIOUS
  <2>1. Bad \subseteq Nat
    BY SMTT(60), <1>0
  <2>2. PICK k \in Bad : \A y \in Bad : k <= y
    BY <2>1, LeastId
  <2>3. k \in 0 .. MaxId /\ ~Kept(f[k].group, f[k].th, D, T, P) /\ f[k] = MoveStep(f, S, g, k)
    BY <1>1 DEF Moves
  <2>4. CASE k = 0
    <3>1. f[k] = Now
      BY <2>3, <2>4 DEF MoveStep
    <3>2. Now.group = img.group /\ Now.th = thumbs
      BY DEF Now
    <3> QED BY <2>3, <3>1, <3>2
  <2>5. CASE k # 0
    <3>1. k - 1 \in 0 .. MaxId /\ ~(k <= k - 1)
      BY SMTT(60), <1>0, <2>3, <2>5
    <3>2. Kept(f[k - 1].group, f[k - 1].th, D, T, P)
      BY <2>2, <3>1
    <3>3. CASE k \in S
      <4>1. PICK s, u : s = f[k - 1] /\ u = f[k]
        OBVIOUS
      <4>2. Kept(s.group, s.th, D, T, P) /\ u = Move(s, g, k) /\ k \in D
        BY <2>3, <2>5, <3>2, <3>3, <4>1 DEF MoveStep
      <4>3. Kept(u.group, u.th, D, T, P)
        BY <4>2, MoveKeeps
      <4> QED BY <2>3, <4>1, <4>3
    <3>4. CASE k \notin S
      <4>1. f[k] = f[k - 1]
        BY <2>3, <2>5, <3>4 DEF MoveStep
      <4> QED BY <2>3, <3>2, <4>1
    <3> QED BY <3>3, <3>4
  <2> QED BY <2>4, <2>5
<1>3. MaxId \in 0 .. MaxId
  BY SMTT(60), <1>0
<1> QED BY <1>1, <1>2, <1>3

-----------------------------------------------------------------------------
(* A handler that meets no removal does not fall between the statements of   *)
(* the job.                                                                  *)
LEMMA HandlerKnows ==
  ASSUME NEW S, met' = (met \/ Meets(S)), ~met', job' = job
  PROVE  Knows'
<1>1. job'.pc # "expand"
  BY DEF Meets
<1> QED BY <1>1 DEF Knows

(* Handlers that made other groups and have told the thumbnails of them. *)
LEMMA GroupsShown ==
  ASSUME Shape, GInv', ~met', IsList(posted), posted' = posted, job' = job,
         NEW gr, NEW sel, NEW th, NEW e, NEW ids, NEW S, NEW D, NEW T,
         UpdateQuery(Grouped(gr), rows, sel, th, e, grouping, ids),
         met' = (met \/ Meets(S)), Kept(gr, th, D, T, Awaited)
  PROVE  ThumbInv'
<1>1. PICK im : im = Grouped(gr)
  OBVIOUS
<1>2. im.group = gr /\ im.flags = img.flags
  BY <1>1, GroupedFields
<1>3. Ready(th, im, ids, Awaited)
  BY <1>2 DEF Ready, Kept, Agrees
<1>4. Knows'
  BY HandlerKnows
<1>5. UpdateQuery(im, rows, sel, th, e, grouping, ids)
  BY <1>1
<1> QED BY <1>3, <1>4, <1>5, Shown

(* _group_helper_function, _ungroup_helper_function and the group button. *)
LEMMA GroupingTrue ==
  ASSUME GInv, ThumbInv, ~met, GInv', ~met',
         Group \/ Ungroup \/ \E i \in DOMAIN thumbs : GroupButton(i)
  PROVE  ThumbInv'
<1>1. /\ Shape /\ IsList(posted) /\ rows \subseteq Ids
      /\ img.group = [j \in Ids |-> img.group[j]]
  BY DEF GInv, LInv, Shape, LedInv, Leads, ThumbInv
<1>2. Kept(img.group, thumbs, Ids, DOMAIN thumbs, Awaited)
  BY <1>1 DEF Kept, ThumbInv, Shape
<1>3. CASE Group \/ Ungroup
  <2>1. PICK t, g, e :
          /\ t = MoveAll(selected, g)
          /\ UpdateQuery(Grouped(t.group), rows, selected, t.th, e, grouping, selected)
    BY <1>3 DEF Group, Ungroup
  <2>2. met' = (met \/ Meets(selected)) /\ posted' = posted /\ job' = job
    BY <1>3 DEF Group, Ungroup
  <2>3. selected \subseteq Ids
    BY <1>1, <2>2 DEF Meets
  <2>4. Kept(t.group, t.th, Ids, DOMAIN thumbs, Awaited)
    BY <1>1, <1>2, <2>1, <2>3, AllKept
  <2> QED BY <1>1, <2>1, <2>2, <2>4, GroupsShown
<1>4. CASE \E i \in DOMAIN thumbs : GroupButton(i)
  <2>1. PICK i \in DOMAIN thumbs : GroupButton(i)
    BY <1>4
  <2>2. PICK s, e : /\ s = Led(i) \/ s = Now
                    /\ UpdateQuery(Grouped(s.group), rows, selected, s.th, e, grouping, {})
    BY <2>1 DEF GroupButton
  <2>3. met' = (met \/ Meets({i})) /\ posted' = posted /\ job' = job
    BY <2>1 DEF GroupButton
  <2>4. Kept(s.group, s.th, Ids, DOMAIN thumbs, Awaited)
    <3>1. CASE s = Now
      <4>1. s.group = img.group /\ s.th = thumbs
        BY <3>1 DEF Now
      <4> QED BY <1>2, <4>1
    <3>2. CASE s = Led(i)
      <4>1. PICK all, h :
              /\ all = Members(img.group, rows, img.group[i])
              /\ h = [j \in DOMAIN img.group |-> IF j \in all THEN i ELSE img.group[j]]
        OBVIOUS
      <4>2. s.group = h /\ s.th = InfoChanged(thumbs, Grouped(h), rows, all)
        BY <3>2, <4>1 DEF Led
      <4>3. h = [j \in Ids |-> h[j]] /\ \A j \in Ids : j \notin all => h[j] = img.group[j]
        BY <1>1, <4>1
      <4>4. Kept(h, InfoChanged(thumbs, Grouped(h), rows, all), Ids, DOMAIN thumbs, Awaited)
        BY <1>1, <1>2, <4>3, Signalled
      <4> QED BY <4>2, <4>4
    <3> QED BY <2>2, <3>1, <3>2
  <2> QED BY <1>1, <2>2, <2>3, <2>4, GroupsShown
<1> QED BY <1>3, <1>4

(* Handlers that do not change what a thumbnail shows. *)
LEMMA LabelsTrue ==
  ASSUME GInv, ThumbInv, ~met, GInv', ~met',
         \/ GroupingButton
         \/ \E S, c : ToggleLabel(S, c)
         \/ \E i : GroupButtonSelects(i)
  PROVE  ThumbInv'
<1>1. PICK sel, e, grp, ids : UpdateQuery(img, rows, sel, thumbs, e, grp, ids)
  BY DEF GroupingButton, ToggleLabel, GroupButtonSelects
<1>2. posted' = posted /\ job' = job
  BY DEF GroupingButton, ToggleLabel, GroupButtonSelects
<1>3. Ready(thumbs, img, ids, Awaited) /\ IsList(posted) /\ Knows
  BY DEF ThumbInv, Agrees, Ready
<1>4. At' = At
  BY <1>2 DEF At
<1>5. Knows'
  BY <1>2, <1>3, <1>4 DEF Knows
<1> QED BY <1>1, <1>2, <1>3, <1>5, Shown

(* What a rating makes of the images. *)
LEMMA RatingsFields ==
  ASSUME Shape, NEW r
  PROVE  /\ ApplyRatings(r).group = img.group
         /\ \A j \in Ids : j \notin DOMAIN r => ApplyRatings(r).flags[j] = img.flags[j]
<1>0. img = [group |-> img.group, flags |-> img.flags]
  BY DEF Shape
<1>1. PICK im, x, a, b, fl :
        /\ im = img /\ x = ApplyRatings(r) /\ a = img.group /\ b = img.flags
        /\ fl = [i \in DOMAIN img.flags |->
                   IF i \in DOMAIN r THEN Rated(img.flags[i], r[i]) ELSE img.flags[i]]
  OBVIOUS
<1>2. im = [group |-> a, flags |-> b] /\ x = [im EXCEPT !.flags = fl]
  BY <1>0, <1>1 DEF ApplyRatings
<1>3. x = [group |-> a, flags |-> fl]
  BY SMTT(60), <1>2
<1>4. x.group = a /\ x.flags = fl
  BY SMTT(60), <1>3
<1>5. \A j \in Ids : j \notin DOMAIN r => fl[j] = img.flags[j]
  BY <1>1 DEF Ids
<1> QED BY <1>1, <1>4, <1>5

(* Ratings are given, taken back or given again, and the thumbnails that    *)
(* show one of the images are named.                                        *)
LEMMA RatingsShown ==
  ASSUME GInv, ThumbInv, ~met, GInv', ~met', posted' = posted, job' = job,
         NEW S, met' = (met \/ Meets(S)), NEW r, NEW sel, NEW e, NEW grp, NEW ids,
         UpdateQuery(ApplyRatings(r), rows, sel, thumbs, e, grp, ids),
         DOMAIN thumbs \cap DOMAIN r \subseteq ids
  PROVE  ThumbInv'
<1>1. Shape /\ DOMAIN thumbs \subseteq Ids /\ IsList(posted) /\ Agrees(thumbs, img.group, img.flags, Awaited)
  BY DEF GInv, LInv, Shape, ThumbInv
<1>2. PICK im : im = ApplyRatings(r)
  OBVIOUS
<1>3. im.group = img.group /\ \A j \in Ids : j \notin DOMAIN r => im.flags[j] = img.flags[j]
  BY <1>1, <1>2, RatingsFields
<1>4. Ready(thumbs, im, ids, Awaited)
  BY <1>1, <1>3 DEF Ready, Agrees, AgreesAt
<1>5. Knows'
  BY HandlerKnows
<1>6. UpdateQuery(im, rows, sel, thumbs, e, grp, ids)
  BY <1>2
<1> QED BY <1>1, <1>4, <1>5, <1>6, Shown

(* A click on the stars rates all images of a collapsed group, and only the *)
(* thumbnail clicked at looks again: no other shows one of them.            *)
LEMMA RateTrue ==
  ASSUME GInv, ThumbInv, ~met, GInv', ~met', NEW i \in DOMAIN thumbs, NEW rating,
         Rate(i, rating)
  PROVE  ThumbInv'
<1> DEFINE all == {i} \cup IF Collapsed(i) THEN Members(img.group, rows, img.group[i]) ELSE {}
<1>1. PICK v : UpdateQuery(ApplyRatings([j \in all |-> v]), rows, selected, thumbs, expanded,
                           grouping, {i})
  BY DEF Rate
<1>2. met' = (met \/ Meets({i})) /\ posted' = posted /\ job' = job
  BY DEF Rate
<1>3. PICK r : r = [j \in all |-> v]
  OBVIOUS
<1>4. i \in rows /\ Showing = expanded
  BY <1>2 DEF Meets, Showing
<1>5. ASSUME NEW j \in DOMAIN thumbs, j \in all PROVE j = i
  <2> SUFFICES ASSUME Collapsed(i), j \in Members(img.group, rows, img.group[i])
               PROVE  j = i
    BY <1>5
  <2>1. grouping /\ expanded # img.group[i] /\ j \in rows /\ img.group[j] = img.group[i]
    BY DEF Collapsed, Members
  <2> QED BY <1>4, <2>1 DEF ThumbInv, Single
<1>6. DOMAIN thumbs \cap DOMAIN r \subseteq {i}
  BY <1>3, <1>5
<1>7. UpdateQuery(ApplyRatings(r), rows, selected, thumbs, expanded, grouping, {i})
  BY <1>1, <1>3
<1> QED BY <1>2, <1>6, <1>7, RatingsShown

(* Undo and redo name all images of the change. *)
LEMMA PopTrue ==
  ASSUME GInv, ThumbInv, ~met, GInv', ~met', Undo \/ Redo
  PROVE  ThumbInv'
<1>1. PICK c, f, t : Pop(c, f, t) /\ DOMAIN t = DOMAIN c.of
  <2>1. \A c : DOMAIN Before(c) = DOMAIN c.of /\ DOMAIN After(c) = DOMAIN c.of
    BY DEF Before, After
  <2> QED BY <2>1 DEF Undo, Redo
<1>2. /\ met' = (met \/ Meets(DOMAIN c.of)) /\ posted' = posted /\ job' = job
      /\ UpdateQuery(IF c.kind = "rating" THEN ApplyRatings(t) ELSE img, rows, selected, thumbs,
                     expanded, grouping, DOMAIN c.of)
  BY <1>1 DEF Pop, PopListed
<1>3. CASE c.kind = "rating"
  <2>1. UpdateQuery(ApplyRatings(t), rows, selected, thumbs, expanded, grouping, DOMAIN c.of)
    BY <1>2, <1>3
  <2>2. DOMAIN thumbs \cap DOMAIN t \subseteq DOMAIN c.of
    BY <1>1
  <2> QED BY <1>2, <2>1, <2>2, RatingsShown
<1>4. CASE c.kind # "rating"
  <2>1. UpdateQuery(img, rows, selected, thumbs, expanded, grouping, DOMAIN c.of)
    BY <1>2, <1>4
  <2>2. Ready(thumbs, img, DOMAIN c.of, Awaited) /\ IsList(posted)
    BY DEF ThumbInv, Agrees, Ready
  <2>3. Knows'
    BY <1>2, HandlerKnows
  <2> QED BY <1>2, <2>1, <2>2, <2>3, Shown
<1> QED BY <1>3, <1>4

(* A duplicate is in no thumbnail yet, and the others keep their groups. *)
LEMMA DuplicateTrue ==
  ASSUME GInv, ThumbInv, ~met, GInv', ~met', NEW i \in rows, Duplicate(i)
  PROVE  ThumbInv'
<1> DEFINE new == Max(Ids) + 1
           g == img.group[i]
           gr == [j \in 1 .. new |-> IF j = new THEN img.group[i] ELSE img.group[j]]
           fl == [j \in 1 .. new |-> IF j = new THEN img.flags[i] ELSE img.flags[j]]
           R == rows \cup {new}
<1>1. /\ DOMAIN thumbs \subseteq Ids /\ IsList(posted)
      /\ Agrees(thumbs, img.group, img.flags, Awaited)
  BY DEF GInv, LInv, Shape, ThumbInv
<1>2. PICK m \in Nat \ {0} : Ids = 1 .. m
  BY DEF GInv, LInv, Shape
<1>3. Max(Ids) = m
  <2>1. m \in Ids /\ \A y \in Ids : m >= y
    BY SMTT(60), <1>2
  <2>2. \A x \in Ids : (\A y \in Ids : x >= y) => x = m
    BY SMTT(60), <1>2, <2>1
  <2> QED BY <2>1, <2>2 DEF Max
<1>4. 1 .. new = Ids \cup {new} /\ new \notin Ids
  BY SMTT(60), <1>2, <1>3
<1>5. PICK im, at, th, e :
        /\ im = [group |-> gr, flags |-> fl] /\ at = [im EXCEPT !.group[new] = new]
        /\ th = InfoChanged(thumbs, at, R, {g})
        /\ UpdateQuery(im, R, selected, th, e, grouping, {})
  BY DEF Duplicate, Ids
<1>6. met' = (met \/ Meets({i})) /\ posted' = posted /\ job' = job
  BY DEF Duplicate
<1>7. \A j \in Ids : gr[j] = img.group[j] /\ fl[j] = img.flags[j] /\ j # new
  BY <1>4
<1>8. DOMAIN gr = 1 .. new
  OBVIOUS
<1> HIDE DEF gr, fl, new, g, R
<1>9. /\ im.group = gr /\ im.flags = fl /\ at.flags = fl
      /\ \A j \in Ids : at.group[j] = gr[j]
  <2>1. im.group = gr /\ im.flags = fl
    BY SMTT(60), <1>5
  <2>2. PICK h : h = [gr EXCEPT ![new] = new]
    OBVIOUS
  <2>3. at = [group |-> h, flags |-> fl]
    BY <1>5, <2>1, <2>2
  <2>4. at.group = h /\ at.flags = fl
    BY SMTT(60), <2>3
  <2>5. \A j \in Ids : h[j] = gr[j]
    BY <1>4, <1>7, <1>8, <2>2
  <2> QED BY <2>1, <2>4, <2>5
<1>10. Ready(thumbs, at, {g}, Awaited)
  BY <1>1, <1>7, <1>9 DEF Ready, Agrees, AgreesAt
<1>11. Tracks(th, DOMAIN thumbs, at, Awaited)
  BY <1>5, <1>10, InfoAgrees
<1>12. Ready(th, im, {}, Awaited)
  BY <1>1, <1>9, <1>11 DEF Tracks, Ready, Agrees, AgreesAt
<1>13. Knows'
  BY <1>6, HandlerKnows
<1> QED BY <1>1, <1>5, <1>6, <1>12, <1>13, Shown

-----------------------------------------------------------------------------
(* A signal that the job posts waits with the others. *)
LEMMA Posted ==
  ASSUME IsList(posted), NEW kind, NEW ids, Post(kind, ids)
  PROVE  /\ IsList(posted') /\ Awaited \subseteq Awaited' /\ ids \subseteq Awaited'
         /\ Outdated => Outdated'
         /\ kind = "collection" => Outdated'
<1>1. PICK c, a : /\ c = [kind |-> kind, ids |-> ids] /\ a = Append(posted, c)
                  /\ posted' = a
  BY DEF Post
<1>2. /\ IsList(a) /\ Len(a) = Len(posted) + 1 /\ a[Len(posted) + 1] = c
      /\ \A k \in 1 .. Len(posted) : a[k] = posted[k]
  BY <1>1, Appended
<1>3. Len(posted) \in Nat
  BY DEF IsList
<1>4. Len(a) \in 1 .. Len(a) /\ a[Len(a)] = c /\ \A k \in 1 .. Len(posted) : k \in 1 .. Len(a)
  <2>1. Len(a) \in 1 .. Len(a) /\ \A k \in 1 .. Len(posted) : k \in 1 .. Len(a)
    BY SMTT(60), <1>2, <1>3
  <2> QED BY <1>2, <2>1
<1>5. c.kind = kind /\ c.ids = ids
  BY SMTT(60), <1>1
<1>6. Awaited' = UNION {a[k].ids : k \in 1 .. Len(a)}
  BY <1>1 DEF Awaited
<1>7. Awaited \subseteq Awaited'
  BY <1>2, <1>4, <1>6 DEF Awaited
<1>8. ids \subseteq Awaited'
  BY <1>4, <1>5, <1>6
<1>9. Outdated' <=> \E k \in 1 .. Len(a) : a[k].kind = "collection"
  BY <1>1 DEF Outdated
<1> QED BY <1>1, <1>2, <1>4, <1>5, <1>7, <1>8, <1>9 DEF Outdated

(* Thumbnails that wait for more signals are no less true. *)
LEMMA AwaitMore ==
  ASSUME NEW th, NEW gr, NEW fl, NEW P, NEW Q, P \subseteq Q, Agrees(th, gr, fl, P)
  PROVE  Agrees(th, gr, fl, Q)
BY DEF Agrees, AgreesAt

(* A group that is not expanded is still shown by one image when the job    *)
(* takes an image out of its group.                                         *)
LEMMA SingleLeaves ==
  ASSUME NEW D, D \subseteq Nat \ {0}, rows \subseteq D, NEW gr, Leads(gr, D, rows),
         NEW i \in D, NEW r, r = RemoveFromGroup(gr, i), NEW S, NEW e, NEW grp,
         Single(S, rows, gr, e, grp)
  PROVE  /\ Single(S, rows, r.group, Stays(e, gr[i], r.new), grp)
         /\ gr[i] = i \/ r.new = gr[i]
<1> DEFINE others == Members(gr, rows, i) \ {i}
           new == IF others = {} THEN None ELSE Min(others)
           T == S \cap rows
<1>1. /\ DOMAIN gr = D
      /\ \A j \in rows : gr[j] \in rows /\ gr[gr[j]] = gr[j] /\ j \in D
  BY DEF Leads
<1>2. \A j : j \in others <=> j \in rows /\ gr[j] = i /\ j # i
  BY DEF Members
<1>3. others # {} => new \in others
  <2>1. others \subseteq Nat
    BY <1>2
  <2> HIDE DEF others
  <2> QED BY <2>1, LeastId
<1>4. grp => \A j, k \in T : gr[j] = gr[k] /\ gr[j] # e => j = k
  BY DEF Single
<1>5. CASE gr[i] = i
  <2> DEFINE h == [j \in DOMAIN gr |-> IF j \in others THEN new ELSE gr[j]]
  <2>1. r = [group |-> h, info |-> others, new |-> new]
    BY <1>5 DEF RemoveFromGroup
  <2> HIDE DEF others, new
  <2>2. \A j \in D : h[j] = IF j \in others THEN new ELSE gr[j]
    BY <1>1
  <2> HIDE DEF h
  <2>3. r.group = h /\ r.new = new
    BY SMTT(60), <2>1
  <2>4. ASSUME grp, NEW j \in T, NEW k \in T, h[j] = h[k], h[j] # Stays(e, i, new)
        PROVE  j = k
    <3>0. j \in rows /\ k \in rows /\ j \in D /\ k \in D
      BY <1>1, <2>4
    <3>1. CASE j \in others /\ k \in others
      <4>1. e # i
        BY <2>2, <2>4, <3>0, <3>1 DEF Stays
      <4> QED BY <1>2, <1>4, <2>4, <3>1, <4>1
    <3>2. ASSUME NEW a \in rows, NEW b \in rows, a \in others, b \notin others, h[a] = h[b]
          PROVE  FALSE
      <4>1. new = gr[b] /\ new \in others
        BY <1>1, <1>3, <2>2, <3>2
      <4> QED BY <1>1, <1>2, <3>2, <4>1
    <3>3. CASE j \notin others /\ k \notin others
      <4>1. h[j] = gr[j] /\ h[k] = gr[k]
        BY <2>2, <3>0, <3>3
      <4>2. CASE gr[j] = i
        BY <1>2, <2>4, <3>0, <3>3, <4>1, <4>2
      <4>3. CASE gr[j] # i
        <5>1. gr[j] # e
          BY <2>4, <4>1, <4>3 DEF Stays
        <5> QED BY <1>4, <2>4, <4>1, <5>1
      <4> QED BY <4>2, <4>3
    <3> QED BY <2>4, <3>0, <3>1, <3>2, <3>3
  <2> QED BY <1>5, <2>3, <2>4 DEF Single
<1>6. CASE gr[i] # i
  <2> DEFINE h == [gr EXCEPT ![i] = i]
  <2>1. r = [group |-> h, info |-> {i, gr[i]}, new |-> gr[i]]
    BY <1>6 DEF RemoveFromGroup, LeaveOnly
  <2>2. \A j \in D : h[j] = IF j = i THEN i ELSE gr[j]
    BY <1>1
  <2> HIDE DEF h
  <2>3. r.group = h /\ r.new = gr[i]
    BY SMTT(60), <2>1
  <2>4. Stays(e, gr[i], gr[i]) = e
    BY DEF Stays
  <2>5. \A j \in rows : gr[j] # i
    BY <1>1, <1>6
  <2>6. ASSUME grp, NEW j \in T, NEW k \in T, h[j] = h[k], h[j] # e
        PROVE  j = k
    <3>0. j \in rows /\ k \in rows /\ j \in D /\ k \in D
      BY <1>1, <2>6
    <3> QED BY <1>4, <2>2, <2>5, <2>6, <3>0
  <2> QED BY <2>3, <2>4, <2>6 DEF Single
<1> QED BY <1>5, <1>6

(* Steps that leave what is shown alone, though rows may go. *)
LEMMA SameShown ==
  ASSUME ThumbInv, rows' \subseteq rows, Showing' = Showing, Knows',
         UNCHANGED <<img, collected, thumbs, grouping, posted>>
  PROVE  ThumbInv'
<1>1. Awaited' = Awaited /\ Outdated' = Outdated
  BY DEF Awaited, Outdated
<1>2. ASSUME NEW S, Single(S, rows, img.group, Showing, grouping)
      PROVE  Single(S, rows', img'.group, Showing', grouping')
  BY <1>2 DEF Single
<1> QED BY <1>1, <1>2 DEF ThumbInv

(* The job that removes images. *)
LEMMA JobTrue ==
  ASSUME GInv, ThumbInv, ~met, GInv', ~met',
         (\E S : RemoveImages(S)) \/ Regroup \/ Reexpand \/ Delete \/ Finish
  PROVE  ThumbInv'
<1>0. /\ Shape /\ rows \subseteq Ids /\ DOMAIN thumbs \subseteq Ids /\ Ids \subseteq Nat \ {0}
      /\ job.left \subseteq Ids /\ JobShape /\ IsJob(job) /\ Leads(img.group, Ids, rows)
  <2>1. Ids \subseteq 1 .. MaxId
    BY DEF GInv, JobShape
  <2>2. 1 .. MaxId \subseteq Nat \ {0}
    BY SMTT(60), LibraryConstants
  <2> QED BY <2>1, <2>2 DEF GInv, JobShape, LInv, LedInv, Shape
<1>1. CASE \E S : RemoveImages(S)
  <2>1. PICK S : RemoveImages(S)
    BY <1>1
  <2>2. /\ UNCHANGED <<rows, img, collected, thumbs, grouping, expanded, posted>>
        /\ job = Idle
        /\ job' = [ids |-> S, left |-> S, pc |-> "regroup", old |-> None, new |-> None]
    BY <2>1 DEF RemoveImages, Idle
  <2>3. job'.pc = "regroup"
    BY <2>2, JobStarts
  <2>4. job.pc = "idle"
    BY <2>2, JobStarts DEF Idle
  <2>5. Showing' = Showing /\ Knows'
    BY <2>2, <2>3, <2>4 DEF Showing, Knows
  <2> QED BY <2>2, <2>5, SameShown
<1>2. CASE Regroup
  <2>1. PICK r : r = RemoveFromGroup(img.group, At)
    OBVIOUS
  <2>2. /\ job.pc = "regroup" /\ img' = Grouped(r.group) /\ Post("info", r.info)
        /\ job' = [job EXCEPT !.pc = "expand", !.old = img.group[At], !.new = r.new]
        /\ UNCHANGED <<rows, expanded, grouping, collected, thumbs>>
    BY <1>2, <2>1 DEF Regroup, At
  <2>3. /\ job'.left = job.left /\ job'.pc = "expand"
        /\ job'.old = img.group[At] /\ job'.new = r.new
    <3>1. PICK k, p, o, v : /\ k = job' /\ p = "expand" /\ o = img.group[At] /\ v = r.new
      OBVIOUS
    <3>2. k = [job EXCEPT !.pc = p, !.old = o, !.new = v]
      BY <2>2, <3>1
    <3>3. k.left = job.left /\ k.pc = p /\ k.old = o /\ k.new = v
      BY SMTT(60), <1>0, <3>2 DEF IsJob, JobParts
    <3> QED BY <3>1, <3>3
  <2>4. img'.group = r.group /\ img'.flags = img.flags
    BY <1>0, <2>2, GroupedFields
  <2>5. At' = At /\ At \in Ids
    <3>1. job.left # {}
      BY <1>0, <2>2 DEF JobShape
    <3> QED BY <1>0, <2>3, <3>1, LeastId DEF At
  <2>6. /\ IsList(posted') /\ Awaited \subseteq Awaited' /\ r.info \subseteq Awaited'
        /\ Outdated => Outdated'
    <3>1. IsList(posted)
      BY DEF ThumbInv
    <3> QED BY <2>2, <3>1, Posted
  <2>7. Showing = expanded /\ Showing' = Stays(expanded, img.group[At], r.new)
    BY <2>2, <2>3 DEF Showing
  <2>8. ASSUME NEW S, Single(S, rows, img.group, Showing, grouping)
        PROVE  /\ Single(S, rows', img'.group, Showing', grouping')
               /\ img.group[At] = At \/ r.new = img.group[At]
    <3>1. PICK gr, i, e, grp : gr = img.group /\ i = At /\ e = expanded /\ grp = grouping
      OBVIOUS
    <3>2. /\ Leads(gr, Ids, rows) /\ i \in Ids /\ r = RemoveFromGroup(gr, i)
          /\ Single(S, rows, gr, e, grp)
      BY <1>0, <2>1, <2>5, <2>7, <2>8, <3>1
    <3>3. Single(S, rows, r.group, Stays(e, gr[i], r.new), grp) /\ (gr[i] = i \/ r.new = gr[i])
      BY <1>0, <3>2, SingleLeaves
    <3> QED BY <2>2, <2>4, <2>7, <3>1, <3>3
  <2>9. Knows'
    BY <2>3, <2>5, <2>8 DEF Knows, ThumbInv
  <2>10. Tells(img.group, Ids, r)
    <3>1. PICK gr : gr = img.group
      OBVIOUS
    <3>2. gr = [j \in Ids |-> gr[j]] /\ r = RemoveFromGroup(gr, At)
      BY <1>0, <2>1, <3>1 DEF Leads
    <3> QED BY <2>5, <3>1, <3>2, LeaveTells
  <2>11. Agrees(thumbs', img'.group, img'.flags, Awaited')
    <3>1. ASSUME NEW j \in DOMAIN thumbs
          PROVE  AgreesAt(thumbs[j], r.group, img.flags, Awaited', j)
      BY <1>0, <2>6, <2>10 DEF Tells, ThumbInv, Agrees, AgreesAt
    <3> QED BY <2>2, <2>4, <3>1 DEF Agrees
  <2>12. DOMAIN thumbs' = collected' \/ Outdated'
    BY <2>2, <2>6 DEF ThumbInv
  <2> QED BY <2>2, <2>6, <2>8, <2>9, <2>11, <2>12 DEF ThumbInv
<1>3. CASE Reexpand
  <2>1. /\ job.pc = "expand" /\ job' = [job EXCEPT !.pc = "delete"]
        /\ expanded' = Stays(expanded, job.old, job.new)
        /\ UNCHANGED <<rows, img, collected, thumbs, grouping, posted>>
    BY <1>3 DEF Reexpand, Stays
  <2>2. job'.pc = "delete"
    <3>1. PICK k : k = job'
      OBVIOUS
    <3>2. k = [job EXCEPT !.pc = "delete"]
      BY <2>1, <3>1
    <3>3. k.pc = "delete"
      BY SMTT(60), <1>0, <3>2 DEF IsJob, JobParts
    <3> QED BY <3>1, <3>3
  <2>3. Showing' = Showing /\ Knows'
    BY <2>1, <2>2 DEF Showing, Knows
  <2> QED BY <2>1, <2>3, SameShown
<1>4. CASE Delete
  <2>1. PICK pc, l : /\ pc # "expand" /\ job' = [job EXCEPT !.left = l, !.pc = pc]
    <3>1. PICK pc : pc = IF job.left \ {At} = {} THEN "end" ELSE "regroup"
      OBVIOUS
    <3> QED BY <1>4, <3>1 DEF Delete, At
  <2>2. /\ job.pc = "delete" /\ rows' \subseteq rows
        /\ UNCHANGED <<img, collected, thumbs, grouping, expanded, posted>>
    BY <1>4 DEF Delete
  <2>3. job'.pc = pc
    <3>1. PICK k : k = job'
      OBVIOUS
    <3>2. k = [job EXCEPT !.left = l, !.pc = pc]
      BY <2>1, <3>1
    <3>3. k.pc = pc
      BY SMTT(60), <1>0, <3>2 DEF IsJob, JobParts
    <3> QED BY <3>1, <3>3
  <2>4. Showing' = Showing /\ Knows'
    BY <2>1, <2>2, <2>3 DEF Showing, Knows
  <2> QED BY <2>2, <2>4, SameShown
<1>5. CASE Finish
  <2>1. /\ job.pc = "end" /\ job' = Idle /\ Post("collection", job.ids)
        /\ collected' = Query(img, rows, expanded, grouping)
        /\ UNCHANGED <<rows, img, thumbs, grouping, expanded>>
    BY <1>5 DEF Finish
  <2>2. job'.pc = "idle"
    BY <2>1, JobStarts DEF Idle
  <2>3. Showing = expanded /\ Showing' = expanded /\ Knows'
    BY <2>1, <2>2 DEF Showing, Knows
  <2>4. IsList(posted') /\ Awaited \subseteq Awaited' /\ Outdated'
    <3>1. IsList(posted)
      BY DEF ThumbInv
    <3> QED BY <2>1, <3>1, Posted
  <2>5. Single(collected', rows', img'.group, Showing', grouping')
    <3>1. Single(Query(img', rows', expanded', grouping'), rows', img'.group, Showing', grouping')
      BY <2>3, FreshSingle
    <3> QED BY <2>1, <3>1
  <2>6. Single(DOMAIN thumbs', rows', img'.group, Showing', grouping')
    BY <2>1, <2>3 DEF ThumbInv
  <2>7. Agrees(thumbs', img'.group, img'.flags, Awaited')
    <3>1. Agrees(thumbs, img.group, img.flags, Awaited)
      BY DEF ThumbInv
    <3>2. Agrees(thumbs, img.group, img.flags, Awaited')
      BY <2>4, <3>1, AwaitMore
    <3> QED BY <2>1, <3>2
  <2> QED BY <2>3, <2>4, <2>5, <2>6, <2>7 DEF ThumbInv
<1> QED BY <1>1, <1>2, <1>3, <1>4, <1>5

(* The signals that remain when the first has been delivered. *)
LEMMA Delivered ==
  ASSUME NEW s, IsList(s), s # <<>>
  PROVE  /\ IsList(Tail(s)) /\ Head(s) = s[1]
         /\ \A k \in 1 .. Len(s) :
              k = 1 \/ (k - 1 \in 1 .. Len(Tail(s)) /\ Tail(s)[k - 1] = s[k])
<1> DEFINE S == {s[k] : k \in 1 .. Len(s)}
<1>1. s \in Seq(S) /\ Len(s) \in Nat
  BY DEF IsList
<1>2. PICK t : t = Tail(s)
  OBVIOUS
<1> HIDE DEF S
<1>3. /\ t \in Seq(S) /\ Len(t) = Len(s) - 1 /\ Len(t) \in Nat /\ Head(s) = s[1]
      /\ \A k \in 1 .. Len(t) : t[k] = s[k + 1]
  BY SMTT(60), <1>1, <1>2
<1>4. t \in Seq({t[k] : k \in 1 .. Len(t)})
  BY SMTT(60), <1>3
<1>5. \A k \in 1 .. Len(s) : k = 1 \/ (k - 1 \in 1 .. Len(t) /\ t[k - 1] = s[k])
  BY SMTT(60), <1>1, <1>3
<1> QED BY <1>2, <1>3, <1>4, <1>5 DEF IsList

(* The main loop delivers a signal of the job to the thumbnails. *)
LEMMA DeliverTrue ==
  ASSUME GInv, ThumbInv, Deliver
  PROVE  ThumbInv'
<1>1. PICK s, p : s = Head(posted) /\ p = Tail(posted)
  OBVIOUS
<1>2. /\ posted # <<>> /\ posted' = p
      /\ thumbs' = IF s.kind = "info" THEN InfoChanged(thumbs, img, rows, s.ids)
                   ELSE CollectionChanged(thumbs, img, rows, collected, s.ids)
      /\ UNCHANGED <<rows, img, collected, grouping, expanded, job>>
  BY <1>1 DEF Deliver
<1>3. /\ IsList(p) /\ s = posted[1]
      /\ \A k \in 1 .. Len(posted) :
           k = 1 \/ (k - 1 \in 1 .. Len(p) /\ p[k - 1] = posted[k])
  <2>1. IsList(posted)
    BY DEF ThumbInv
  <2> QED BY <1>1, <1>2, <2>1, Delivered
<1>4. Awaited' = UNION {p[k].ids : k \in 1 .. Len(p)}
      /\ (Outdated' <=> \E k \in 1 .. Len(p) : p[k].kind = "collection")
  BY <1>2 DEF Awaited, Outdated
<1>5. Awaited \subseteq s.ids \cup Awaited'
  BY <1>3, <1>4 DEF Awaited
<1>6. s.kind = "info" /\ Outdated => Outdated'
  BY <1>3, <1>4 DEF Outdated
<1>7. Showing' = Showing /\ Knows'
  <2>1. At' = At
    BY <1>2 DEF At
  <2> QED BY <1>2, <2>1 DEF Showing, Knows, ThumbInv
<1>8. Ready(thumbs, img, s.ids, Awaited')
  BY <1>5 DEF ThumbInv, Agrees, AgreesAt, Ready
<1>9. PICK t, P, ids : t = thumbs' /\ P = Awaited' /\ ids = s.ids
  OBVIOUS
<1>10. CASE s.kind = "info"
  <2>1. Ready(thumbs, img, ids, P) /\ t = InfoChanged(thumbs, img, rows, ids)
    BY <1>2, <1>8, <1>9, <1>10
  <2>2. Tracks(t, DOMAIN thumbs, img, P)
    BY <2>1, InfoAgrees
  <2>3. DOMAIN thumbs' = DOMAIN thumbs /\ Agrees(thumbs', img'.group, img'.flags, Awaited')
    BY <1>2, <1>9, <2>2 DEF Tracks
  <2> QED BY <1>2, <1>3, <1>6, <1>7, <1>10, <2>3 DEF ThumbInv
<1>11. CASE s.kind # "info"
  <2>1. Ready(thumbs, img, ids, P) /\ t = CollectionChanged(thumbs, img, rows, collected, ids)
    BY <1>2, <1>8, <1>9, <1>11
  <2>2. Tracks(t, collected, img, P)
    BY <2>1, CollectionAgrees
  <2>3. DOMAIN thumbs' = collected' /\ Agrees(thumbs', img'.group, img'.flags, Awaited')
    BY <1>2, <1>9, <2>2 DEF Tracks
  <2> QED BY <1>2, <1>3, <1>7, <2>3 DEF ThumbInv
<1> QED BY <1>10, <1>11

-----------------------------------------------------------------------------
(* The thumbnails of a library that was just opened are true. *)
LEMMA ThumbsInit == Init => TInv
<1> SUFFICES ASSUME Init PROVE TInv
  OBVIOUS
<1>1. GInv
  BY GroupsInit
<1>2. /\ collected = Query(img, rows, expanded, grouping) /\ job = Idle /\ posted = <<>>
      /\ thumbs = [i \in collected |-> Look(img, rows, i)] /\ ~met
  BY DEF Init
<1>3. job.pc = "idle"
  BY <1>2, JobStarts DEF Idle
<1>4. Showing = expanded /\ Knows
  BY <1>3 DEF Showing, Knows
<1>5. IsList(posted)
  BY <1>2, EmptyLists DEF FairList
<1>6. DOMAIN thumbs = collected /\ Agrees(thumbs, img.group, img.flags, Awaited)
  BY <1>2, LooksTrue DEF Agrees
<1>7. /\ Ids \subseteq Nat \ {0} /\ rows \subseteq Ids
      /\ AllLed(img.group, Ids, rows, expanded)
  <2>1. 1 .. MaxId \subseteq Nat \ {0}
    BY SMTT(60), LibraryConstants
  <2> QED BY <1>1, <1>2, <2>1 DEF GInv, LInv, Shape, JobShape, LedInv, AllLed
<1>8. Single(collected, rows, img.group, Showing, grouping)
  <2>1. Shows(img.group, rows, expanded, expanded)
    BY DEF Shows
  <2> QED BY <1>2, <1>4, <1>7, <2>1, QuerySingle
<1> QED BY <1>1, <1>4, <1>5, <1>6, <1>8 DEF TInv, ThumbInv

(* Every step of the user, of the job and of the main loop keeps them so. *)
LEMMA ThumbsStep == TInv /\ [Next]_vars => TInv'
<1> SUFFICES ASSUME TInv, [Next]_vars PROVE TInv'
  OBVIOUS
<1>1. GInv /\ GInv'
  BY GroupsStep DEF TInv
<1>2. ASSUME ~met' PROVE ThumbInv'
  <2>1. SelectAll \/ SelectNone \/ (\E i \in DOMAIN thumbs : SelectSingle(i) \/ Toggle(i))
          => \E S : SetSelection(S)
    BY DEF SelectAll, SelectNone, SelectSingle, Toggle
  <2>2. \/ Group \/ Ungroup \/ \E i \in DOMAIN thumbs : GroupButton(i)
        \/ GroupingButton \/ (\E S, c : ToggleLabel(S, c)) \/ (\E i : GroupButtonSelects(i))
        \/ \E i \in DOMAIN thumbs, r \in Ratings \cup {Reject} : Rate(i, r)
        \/ Undo \/ Redo
        \/ \E i \in rows : Duplicate(i)
        \/ (\E S : RemoveImages(S)) \/ Regroup \/ Reexpand \/ Delete \/ Finish
        \/ Deliver
        \/ (\E S : SetSelection(S)) \/ UNCHANGED vars
    BY <2>1 DEF Next, User, Job
  <2>3. ~met
    BY <1>2, <2>2 DEF Group, Ungroup, GroupButton, GroupingButton, ToggleLabel,
       GroupButtonSelects, Rate, Undo, Redo, Pop, PopListed, Duplicate, RemoveImages, Regroup,
       Reexpand, Delete, Finish, Deliver, SetSelection, vars
  <2>4. ThumbInv
    BY <2>3 DEF TInv
  <2>5. CASE Group \/ Ungroup \/ \E i \in DOMAIN thumbs : GroupButton(i)
    BY <1>1, <1>2, <2>3, <2>4, <2>5, GroupingTrue
  <2>6. CASE GroupingButton \/ (\E S, c : ToggleLabel(S, c)) \/ \E i : GroupButtonSelects(i)
    BY <1>1, <1>2, <2>3, <2>4, <2>6, LabelsTrue
  <2>7. CASE \E i \in DOMAIN thumbs, r \in Ratings \cup {Reject} : Rate(i, r)
    BY <1>1, <1>2, <2>3, <2>4, <2>7, RateTrue
  <2>8. CASE Undo \/ Redo
    BY <1>1, <1>2, <2>3, <2>4, <2>8, PopTrue
  <2>9. CASE \E i \in rows : Duplicate(i)
    BY <1>1, <1>2, <2>3, <2>4, <2>9, DuplicateTrue
  <2>10. CASE (\E S : RemoveImages(S)) \/ Regroup \/ Reexpand \/ Delete \/ Finish
    BY <1>1, <1>2, <2>3, <2>4, <2>10, JobTrue
  <2>11. CASE Deliver
    BY <1>1, <2>4, <2>11, DeliverTrue
  <2>12. CASE (\E S : SetSelection(S)) \/ UNCHANGED vars
    <3>1. UNCHANGED <<rows, img, collected, thumbs, grouping, expanded, posted, job>>
      BY <2>12 DEF SetSelection, vars
    <3>2. At' = At /\ Showing' = Showing
      BY <3>1 DEF At, Showing
    <3>3. Knows'
      BY <2>4, <3>1, <3>2 DEF Knows, ThumbInv
    <3> QED BY <2>4, <3>1, <3>2, <3>3, SameShown
  <2> QED BY <2>2, <2>5, <2>6, <2>7, <2>8, <2>9, <2>10, <2>11, <2>12
<1> QED BY <1>1, <1>2 DEF TInv

(* When no job runs and its signals have arrived, the thumbnails are those  *)
(* of the collection, and each has the present group and rating of its      *)
(* image, for any number of images and operations, as long as no handler    *)
(* has met a removal: every handler and every step of the job names the     *)
(* images whose thumbnails must look again.                                 *)
THEOREM ThumbnailsTrue == Spec => []ThumbsTrue
<1>1. TInv => ThumbsTrue
  <2> SUFFICES ASSUME ThumbInv, posted = <<>>
               PROVE  /\ DOMAIN thumbs = collected
                      /\ \A i \in collected : /\ thumbs[i].group = img.group[i]
                                              /\ thumbs[i].rating = View(img.flags[i])
    BY DEF TInv, ThumbsTrue
  <2>1. 1 .. Len(posted) = {}
    BY SMTT(60)
  <2>2. Awaited = {} /\ ~Outdated
    BY <2>1 DEF Awaited, Outdated
  <2> QED BY <2>2 DEF ThumbInv, Agrees, AgreesAt
<1> QED BY <1>1, ThumbsInit, ThumbsStep, PTL DEF Spec
=============================================================================
