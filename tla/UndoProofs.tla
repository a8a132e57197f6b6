---------------------------- MODULE UndoProofs ----------------------------
(***************************************************************************)
(* What undo and redo keep, for any number of threads, types and items:    *)
(* the order of time however the threads race, the agreement of the lists  *)
(* with the values when calls follow one another, and whole groups when,   *)
(* in addition, nothing is undone while a group is open.                   *)
(***************************************************************************)
EXTENDS SerialUndo, SequenceTheorems, FiniteSetTheorems, TLAPS

(* The leaves are for Zenon; those that need more name the SMT solver. *)
USE ZenonT(60)

Items ==
  [type : Types \cup {None}, ts : Nat, is_group : BOOLEAN,
   before : Values \cup {None}, after : Values \cup {None}]
Locals ==
  [group : Types \cup {None}, indent : Int, item : Items, ends : BOOLEAN]
Lists == Seq(Items)
-----------------------------------------------------------------------------
(* What moving and recording do to the lists. *)

(* The list r is the part s .. l of the list f turned round, before the    *)
(* list t.                                                                 *)
Turned(r, f, s, l, t) ==
  /\ r \in Lists /\ Len(r) = l - s + 1 + Len(t)
  /\ \A k \in 1 .. l - s + 1 : r[k] = f[l - k + 1]
  /\ \A k \in 1 .. Len(t) : r[l - s + 1 + k] = t[k]

(* The list r is the list f without its part s .. l. *)
Without(r, f, s, l) ==
  /\ r \in Lists /\ Len(r) = Len(f) - (l - s + 1)
  /\ \A k \in 1 .. s - 1 : r[k] = f[k]
  /\ \A k \in s .. Len(r) : r[k] = f[k + (l - s + 1)]

(* The list r is the list f with e put first. *)
Put(r, e, f) ==
  /\ r \in Lists /\ Len(r) = Len(f) + 1 /\ r[1] = e
  /\ \A k \in 1 .. Len(f) : r[k + 1] = f[k]

(* s .. l is a part of the list f. *)
Part(f, s, l) == s \in Nat /\ l \in Nat /\ 1 <= s /\ s <= l /\ l <= Len(f)

(* The items of a list. *)
LEMMA ItemsOf ==
  ASSUME NEW f \in Lists
  PROVE  Len(f) \in Nat /\ \A k \in 1 .. Len(f) : f[k] \in Items
<1> HIDE DEF Items
<1> QED BY SMTT(60) DEF Lists

(* Items that are moved come to the other list in the opposite order. *)
LEMMA TurnedRound ==
  ASSUME NEW f \in Lists, NEW t \in Lists, NEW s, NEW l, Part(f, s, l)
  PROVE  Turned([k \in 1 .. l - s + 1 |-> f[l - k + 1]] \o t, f, s, l, t)
<1> USE DEF Lists
<1> DEFINE S == Items
           n == l - s + 1
           c == [k \in 1 .. n |-> f[l - k + 1]]
           r == c \o t
<1>1. /\ f \in Seq(S) /\ t \in Seq(S) /\ Len(f) \in Nat /\ Len(t) \in Nat
      /\ s \in Nat /\ l \in Nat /\ 1 <= s /\ s <= l /\ l <= Len(f)
  BY ItemsOf DEF Part
<1>2. n \in Nat /\ \A k \in 1 .. n : f[l - k + 1] \in S
  <2>1. n \in Nat /\ \A k \in 1 .. n : l - k + 1 \in 1 .. Len(f)
    BY SMTT(60), <1>1
  <2> QED BY <2>1, ItemsOf
<1> HIDE DEF S, n
<1>3. c \in Seq(S) /\ Len(c) = n /\ \A k \in 1 .. n : c[k] = f[l - k + 1]
  BY SMTT(60), <1>2
<1> HIDE DEF c
<1>4. /\ r \in Seq(S) /\ Len(r) = Len(c) + Len(t)
      /\ \A k \in 1 .. Len(c) + Len(t) :
           r[k] = IF k <= Len(c) THEN c[k] ELSE t[k - Len(c)]
  BY <1>1, <1>3, ConcatProperties
<1> HIDE DEF r
<1>5. /\ r \in Seq(S) /\ Len(r) = n + Len(t)
      /\ \A k \in 1 .. n : r[k] = c[k]
      /\ \A k \in 1 .. Len(t) : r[n + k] = t[k]
  BY SMTT(60), <1>1, <1>2, <1>3, <1>4
<1>6. Turned(r, f, s, l, t)
  BY <1>3, <1>5 DEF Turned, n, S
<1> QED BY <1>6 DEF r, c, n

(* The other items stay in order. *)
LEMMA TakenOut ==
  ASSUME NEW f \in Lists, NEW s, NEW l, Part(f, s, l)
  PROVE  Without(SubSeq(f, 1, s - 1) \o SubSeq(f, l + 1, Len(f)), f, s, l)
<1> USE DEF Lists
<1> DEFINE S == Items
           N == Len(f)
           b == SubSeq(f, 1, s - 1)
           c == SubSeq(f, l + 1, N)
           r == b \o c
<1>1. f \in Seq(S) /\ N \in Nat
  BY ItemsOf
<1>2. \A k \in 1 .. N : f[k] \in S
  BY ItemsOf
<1>3. s \in Nat /\ l \in Nat /\ 1 <= s /\ s <= l /\ l <= N
  BY DEF Part
<1> HIDE DEF S, N
<1>4. /\ b \in Seq(S) /\ Len(b) = IF 1 <= s - 1 THEN s - 1 - 1 + 1 ELSE 0
      /\ \A k \in 1 .. s - 1 - 1 + 1 : b[k] = f[1 + k - 1]
  <2>1. 1 \in Int /\ s - 1 \in Int /\ \A k \in 1 .. s - 1 : f[k] \in S
    BY SMTT(60), <1>1, <1>2, <1>3
  <2> QED BY SMTT(60), <2>1, SubSeqProperties
<1>5. /\ c \in Seq(S) /\ Len(c) = IF l + 1 <= N THEN N - (l + 1) + 1 ELSE 0
      /\ \A k \in 1 .. N - (l + 1) + 1 : c[k] = f[l + 1 + k - 1]
  <2>1. l + 1 \in Int /\ N \in Int /\ \A k \in l + 1 .. N : f[k] \in S
    BY SMTT(60), <1>1, <1>2, <1>3
  <2> QED BY SMTT(60), <2>1, SubSeqProperties
<1> HIDE DEF b, c
<1>6. Len(b) = s - 1 /\ \A k \in 1 .. s - 1 : b[k] = f[k]
  BY SMTT(60), <1>3, <1>4
<1>7. Len(c) = N - l /\ \A k \in 1 .. N - l : c[k] = f[l + k]
  BY SMTT(60), <1>1, <1>3, <1>5
<1>8. /\ r \in Seq(S) /\ Len(r) = Len(b) + Len(c)
      /\ \A k \in 1 .. Len(b) + Len(c) :
           r[k] = IF k <= Len(b) THEN b[k] ELSE c[k - Len(b)]
  BY <1>4, <1>5, ConcatProperties
<1> HIDE DEF r
<1>10. Len(r) = N - (l - s + 1)
  BY SMTT(60), <1>1, <1>3, <1>6, <1>7, <1>8
<1>11. \A k \in 1 .. s - 1 : r[k] = f[k]
  BY SMTT(60), <1>1, <1>3, <1>6, <1>7, <1>8
<1>12. \A k \in s .. Len(r) : r[k] = f[k + (l - s + 1)]
  <2> SUFFICES ASSUME NEW k \in s .. Len(r)
               PROVE  r[k] = f[k + (l - s + 1)]
    OBVIOUS
  <2>1. /\ k \in 1 .. Len(b) + Len(c) /\ ~(k <= Len(b))
        /\ k - Len(b) \in 1 .. N - l /\ l + (k - Len(b)) = k + (l - s + 1)
    BY SMTT(60), <1>1, <1>3, <1>6, <1>7, <1>10
  <2> QED BY <1>7, <1>8, <2>1
<1>13. Without(r, f, s, l)
  BY <1>8, <1>10, <1>11, <1>12 DEF Without, N, S
<1> QED BY <1>13 DEF r, b, c, N

(* Recording puts an item first. *)
LEMMA Recorded ==
  ASSUME NEW f \in Lists, NEW e \in Items
  PROVE  Put(<<e>> \o f, e, f)
<1> USE DEF Lists
<1> DEFINE S == Items
           b == <<e>>
           r == b \o f
<1>1. f \in Seq(S) /\ Len(f) \in Nat /\ e \in S
  BY ItemsOf
<1> HIDE DEF S
<1>2. b \in Seq(S) /\ Len(b) = 1 /\ b[1] = e
  BY SMTT(60), <1>1
<1> HIDE DEF b
<1>3. /\ r \in Seq(S) /\ Len(r) = Len(b) + Len(f)
      /\ \A k \in 1 .. Len(b) + Len(f) :
           r[k] = IF k <= Len(b) THEN b[k] ELSE f[k - Len(b)]
  BY <1>1, <1>2, ConcatProperties
<1> HIDE DEF r
<1>4. /\ Len(r) = Len(f) + 1 /\ r[1] = e
      /\ \A k \in 1 .. Len(f) : r[k + 1] = f[k]
  BY SMTT(60), <1>1, <1>2, <1>3
<1>5. Put(r, e, f)
  BY <1>3, <1>4 DEF Put, S
<1> QED BY <1>5 DEF r, b
-----------------------------------------------------------------------------
(* Which items are moved. *)

(* A nonempty set of numbers has a least one. *)
LEMMA Least ==
  ASSUME NEW T, T \subseteq Nat, T # {}
  PROVE  Min(T) \in T /\ \A y \in T : Min(T) <= y
<1>1. PICK x \in T : \A y \in Nat : <<y, x>> \in OpToRel(<, Nat) => y \notin T
  BY NatLessThanWellFounded, WFMin
<1>2. \A y \in T : x <= y
  <2> SUFFICES ASSUME NEW y \in T, ~(x <= y)
               PROVE  FALSE
    OBVIOUS
  <2>1. y \in Nat /\ x \in Nat /\ y < x
    BY SMTT(60)
  <2>2. <<y, x>> \in OpToRel(<, Nat)
    BY <2>1 DEF OpToRel
  <2> QED BY <1>1, <2>1, <2>2
<1> QED BY <1>1, <1>2 DEF Min

(* A nonempty set of positions has a greatest one. *)
LEMMA Greatest ==
  ASSUME NEW n \in Nat, NEW T, T \subseteq 1 .. n, T # {}
  PROVE  Max(T) \in T /\ \A y \in T : y <= Max(T)
<1> DEFINE D == {n - y : y \in T}
<1>1. D \subseteq Nat /\ D # {}
  <2>1. \A y \in T : n - y \in Nat
    BY SMTT(60)
  <2> QED BY <2>1
<1>2. Min(D) \in D /\ \A d \in D : Min(D) <= d
  BY <1>1, Least
<1>3. PICK x \in T : Min(D) = n - x
  BY <1>2
<1>4. ASSUME NEW y \in T
      PROVE  x >= y
  <2>1. n - x <= n - y
    BY <1>2, <1>3, <1>4
  <2>2. x \in 1 .. n /\ y \in 1 .. n
    BY <1>4
  <2> QED BY SMTT(60), <2>1, <2>2
<1>5. Max(T) \in T /\ \A y \in T : Max(T) >= y
  BY <1>4 DEF Max
<1>6. Max(T) \in 1 .. n
  BY <1>5
<1> HIDE DEF D
<1>7. ASSUME NEW y \in T
      PROVE  y <= Max(T)
  <2>1. y \in 1 .. n /\ Max(T) >= y
    BY <1>5, <1>7
  <2> QED BY SMTT(60), <1>6, <2>1
<1> QED BY <1>5, <1>7

(* The first item that is moved is the first one undo and redo look for;   *)
(* those before it are others.                                             *)
Segment(f, s, l) ==
  /\ Part(f, s, l) /\ f[s].type \in Filter
  /\ \A k \in 1 .. s - 1 : f[k].type \notin Filter

(* That is what First() and LastItem() find: the moved items are a part of
   the list that starts with the first item of the filter. *)
LEMMA SegmentMoved ==
  ASSUME NEW f \in Lists, Matching(f) # {}
  PROVE  Segment(f, First(f), LastItem(f))
<1> DEFINE s == First(f)
           l == LastItem(f)
           N == Len(f)
           M == Matching(f)
<1>1. N \in Nat
  BY ItemsOf
<1>2. M \subseteq Nat /\ M # {} /\ M \subseteq 1 .. N
  BY SMTT(60), <1>1 DEF Matching
<1>3. s \in M /\ \A y \in M : s <= y
  BY <1>2, Least DEF First
<1>4. s \in 1 .. N /\ f[s].type \in Filter
  BY <1>3 DEF Matching
<1>5. \A k \in 1 .. s - 1 : f[k].type \notin Filter
  <2> SUFFICES ASSUME NEW k \in 1 .. s - 1, f[k].type \in Filter
               PROVE  FALSE
    OBVIOUS
  <2>1. k \in 1 .. N /\ ~(s <= k)
    BY SMTT(60), <1>1, <1>4
  <2>2. k \in M
    BY <2>1 DEF Matching
  <2> QED BY <1>3, <2>1, <2>2
<1>6. l \in s .. N
  <2> DEFINE G == {k \in s + 1 .. N : f[k].is_group} \cup {N}
             P == {k \in s .. N : ~Continues(f, s, k)}
  <2>1. G \subseteq s .. N /\ G \subseteq Nat /\ G # {}
    BY SMTT(60), <1>1, <1>4
  <2>2. Min(G) \in s .. N
    BY <2>1, Least
  <2>3. ~Continues(f, s, N)
    <3>1. ~(N < N)
      BY SMTT(60), <1>1
    <3> QED BY <3>1 DEF Continues
  <2>4. N \in s .. N /\ s .. N \subseteq Nat
    BY SMTT(60), <1>1, <1>4
  <2>5. P \subseteq Nat /\ P # {} /\ P \subseteq s .. N
    BY <2>3, <2>4
  <2>6. Min(P) \in s .. N
    BY <2>5, Least
  <2>7. GroupLast(f, s) = Min(G) /\ PeriodLast(f, s) = Min(P)
    BY DEF GroupLast, PeriodLast
  <2> QED BY <2>2, <2>6, <2>7 DEF LastItem
<1> HIDE DEF s, l, M
<1>7. Part(f, s, l)
  BY SMTT(60), <1>1, <1>4, <1>6 DEF Part
<1>8. Segment(f, s, l)
  BY <1>4, <1>5, <1>7 DEF Segment
<1> QED BY <1>8 DEF s, l
-----------------------------------------------------------------------------
(* The order of the items that undo and redo look for.  The list that      *)
(* items are moved from runs one way and the list they are moved to the    *)
(* other way; `up' says which one is the undo list.                        *)
NotAfter(up, a, b) == IF up THEN a.ts <= b.ts ELSE b.ts <= a.ts
Looked(a, b) == a.type \in Filter /\ b.type \in Filter
Falls(f, up) ==
  \A i, j \in 1 .. Len(f) :
    i < j /\ Looked(f[i], f[j]) => NotAfter(up, f[j], f[i])
Rises(t, up) ==
  \A i, j \in 1 .. Len(t) :
    i < j /\ Looked(t[i], t[j]) => NotAfter(up, t[i], t[j])
Meets(f, t, up) ==
  \A i \in 1 .. Len(f), j \in 1 .. Len(t) :
    Looked(f[i], t[j]) => NotAfter(up, f[i], t[j])
Ordered(f, t, up) == Falls(f, up) /\ Rises(t, up) /\ Meets(f, t, up)

(* Moving items keeps the order. *)
LEMMA OrderedMoved ==
  ASSUME NEW f \in Lists, NEW t \in Lists, NEW s, NEW l, NEW g, NEW u, NEW up,
         Segment(f, s, l), Without(g, f, s, l), Turned(u, f, s, l, t),
         Ordered(f, t, up)
  PROVE  Ordered(g, u, up)
<1> DEFINE n == l - s + 1
           N == Len(f)
           M == Len(t)
<1>1. /\ N \in Nat /\ M \in Nat /\ s \in Nat /\ l \in Nat
      /\ 1 <= s /\ s <= l /\ l <= N
  BY ItemsOf DEF Segment, Part
<1>2. n \in Nat /\ n = l - s + 1
  BY SMTT(60), <1>1
<1>3. /\ Len(g) = N - n /\ Len(u) = n + M
      /\ \A k \in 1 .. s - 1 : g[k] = f[k]
      /\ \A k \in s .. N - n : g[k] = f[k + n]
      /\ \A k \in 1 .. n : u[k] = f[l - k + 1]
      /\ \A k \in 1 .. M : u[n + k] = t[k]
  BY DEF Without, Turned
<1>4. \A k \in 1 .. s - 1 : f[k].type \notin Filter
  BY DEF Segment
<1> HIDE DEF n, N, M
<1>5. ASSUME NEW i \in 1 .. N - n, g[i].type \in Filter
      PROVE  i >= s /\ i + n \in l + 1 .. N /\ g[i] = f[i + n]
  <2>1. ~(i \in 1 .. s - 1)
    BY <1>3, <1>4, <1>5
  <2>2. i \in s .. N - n
    BY SMTT(60), <1>1, <1>2, <2>1
  <2> QED BY SMTT(60), <1>1, <1>2, <1>3, <2>2
<1>6. ASSUME NEW j \in 1 .. n + M
      PROVE  \/ j <= n /\ l - j + 1 \in s .. l /\ u[j] = f[l - j + 1]
             \/ j > n /\ j - n \in 1 .. M /\ u[j] = t[j - n]
  <2>1. CASE j <= n
    <3>1. j \in 1 .. n /\ l - j + 1 \in s .. l
      BY SMTT(60), <1>1, <1>2, <2>1
    <3> QED BY <1>3, <2>1, <3>1
  <2>2. CASE ~(j <= n)
    <3>1. j > n /\ j - n \in 1 .. M /\ n + (j - n) = j
      BY SMTT(60), <1>1, <1>2, <2>2
    <3>2. u[n + (j - n)] = t[j - n]
      BY <1>3, <3>1
    <3> QED BY <3>1, <3>2
  <2> QED BY <2>1, <2>2
<1>7. Falls(g, up)
  <2> SUFFICES ASSUME NEW i \in 1 .. N - n, NEW j \in 1 .. N - n, i < j,
                      Looked(g[i], g[j])
               PROVE  NotAfter(up, g[j], g[i])
    BY <1>3 DEF Falls
  <2>1. /\ i >= s /\ i + n \in l + 1 .. N /\ g[i] = f[i + n]
        /\ j >= s /\ j + n \in l + 1 .. N /\ g[j] = f[j + n]
    BY <1>5 DEF Looked
  <2>2. i + n \in 1 .. N /\ j + n \in 1 .. N /\ i + n < j + n
    BY SMTT(60), <1>1, <1>2, <2>1
  <2> QED BY <2>1, <2>2 DEF Ordered, Falls, N
<1>8. Rises(u, up)
  <2> SUFFICES ASSUME NEW i \in 1 .. n + M, NEW j \in 1 .. n + M, i < j,
                      Looked(u[i], u[j])
               PROVE  NotAfter(up, u[i], u[j])
    BY <1>3 DEF Rises
  <2> DEFINE p == l - i + 1
             q == l - j + 1
             x == i - n
             y == j - n
  <2>1. \/ i <= n /\ p \in s .. l /\ u[i] = f[p]
        \/ i > n /\ x \in 1 .. M /\ u[i] = t[x]
    BY <1>6
  <2>2. \/ j <= n /\ q \in s .. l /\ u[j] = f[q]
        \/ j > n /\ y \in 1 .. M /\ u[j] = t[y]
    BY <1>6
  <2>3. /\ q < p /\ x < y /\ ~(i > n /\ j <= n)
        /\ p \in s .. l => p \in 1 .. N
        /\ q \in s .. l => q \in 1 .. N
    BY SMTT(60), <1>1, <1>2
  <2> HIDE DEF p, q, x, y
  <2>4. CASE j <= n /\ q \in s .. l /\ u[j] = f[q]
    <3>1. p \in 1 .. N /\ q \in 1 .. N /\ u[i] = f[p]
      BY <2>1, <2>3, <2>4
    <3> QED BY <2>3, <2>4, <3>1 DEF Ordered, Falls, Looked, N
  <2>5. CASE j > n /\ y \in 1 .. M /\ u[j] = t[y]
    BY <2>1, <2>3, <2>5 DEF Ordered, Rises, Meets, N, M
  <2> QED BY <2>2, <2>4, <2>5
<1>9. Meets(g, u, up)
  <2> SUFFICES ASSUME NEW i \in 1 .. N - n, NEW j \in 1 .. n + M,
                      Looked(g[i], u[j])
               PROVE  NotAfter(up, g[i], u[j])
    BY <1>3 DEF Meets
  <2> DEFINE p == i + n
             q == l - j + 1
             y == j - n
  <2>1. i >= s /\ p \in l + 1 .. N /\ g[i] = f[p]
    BY <1>5 DEF Looked
  <2>2. \/ j <= n /\ q \in s .. l /\ u[j] = f[q]
        \/ j > n /\ y \in 1 .. M /\ u[j] = t[y]
    BY <1>6
  <2>3. /\ p \in 1 .. N
        /\ q \in s .. l => q \in 1 .. N /\ q < p
    BY SMTT(60), <1>1, <1>2, <2>1
  <2> HIDE DEF p, q, y
  <2>4. Looked(f[p], u[j]) /\ Looked(u[j], f[p])
    BY <2>1 DEF Looked
  <2> QED BY <2>1, <2>2, <2>3, <2>4 DEF Ordered, Falls, Meets, N, M
<1> QED BY <1>7, <1>8, <1>9 DEF Ordered

(* Seen from the other list, it is the same order. *)
LEMMA OrderedBothWays ==
  ASSUME NEW f, NEW t
  PROVE  Ordered(f, t, TRUE) <=> Ordered(t, f, FALSE)
<1>1. ASSUME NEW a, NEW b
      PROVE  /\ NotAfter(TRUE, a, b) <=> NotAfter(FALSE, b, a)
             /\ Looked(a, b) <=> Looked(b, a)
  BY DEF NotAfter, Looked
<1>2. Falls(f, TRUE) <=> Rises(f, FALSE)
  BY <1>1 DEF Falls, Rises
<1>3. Rises(t, TRUE) <=> Falls(t, FALSE)
  BY <1>1 DEF Falls, Rises
<1>4. Meets(f, t, TRUE) <=> Meets(t, f, FALSE)
  BY <1>1 DEF Meets
<1> QED BY <1>2, <1>3, <1>4 DEF Ordered

(* Nothing is recorded later than now. *)
Timed(f, n) == \A k \in 1 .. Len(f) : f[k].ts <= n

(* Moving items does not change their time. *)
LEMMA TimedMoved ==
  ASSUME NEW f \in Lists, NEW t \in Lists, NEW s, NEW l, NEW g, NEW u, NEW n,
         Segment(f, s, l), Without(g, f, s, l), Turned(u, f, s, l, t),
         Timed(f, n), Timed(t, n)
  PROVE  Timed(g, n) /\ Timed(u, n)
<1> DEFINE d == l - s + 1
<1>1. /\ Len(f) \in Nat /\ Len(t) \in Nat /\ s \in Nat /\ l \in Nat
      /\ 1 <= s /\ s <= l /\ l <= Len(f)
  BY ItemsOf DEF Segment, Part
<1>2. d \in Nat /\ d = l - s + 1
  BY SMTT(60), <1>1
<1>3. /\ Len(g) = Len(f) - d /\ Len(u) = d + Len(t)
      /\ \A k \in 1 .. s - 1 : g[k] = f[k]
      /\ \A k \in s .. Len(g) : g[k] = f[k + d]
      /\ \A k \in 1 .. d : u[k] = f[l - k + 1]
      /\ \A k \in 1 .. Len(t) : u[d + k] = t[k]
  BY DEF Without, Turned
<1> HIDE DEF d
<1>4. ASSUME NEW k \in 1 .. Len(g)
      PROVE  g[k].ts <= n
  <2>1. CASE k \in 1 .. s - 1
    <3>1. k \in 1 .. Len(f) /\ g[k] = f[k]
      BY SMTT(60), <1>1, <1>3, <2>1
    <3> QED BY <3>1 DEF Timed
  <2>2. CASE ~(k \in 1 .. s - 1)
    <3>1. k \in s .. Len(g) /\ k + d \in 1 .. Len(f)
      BY SMTT(60), <1>1, <1>2, <1>3, <2>2
    <3> QED BY <1>3, <3>1 DEF Timed
  <2> QED BY <2>1, <2>2
<1>5. ASSUME NEW k \in 1 .. Len(u)
      PROVE  u[k].ts <= n
  <2>1. CASE k <= d
    <3>1. k \in 1 .. d /\ l - k + 1 \in 1 .. Len(f)
      BY SMTT(60), <1>1, <1>2, <1>3, <2>1
    <3> QED BY <1>3, <3>1 DEF Timed
  <2>2. CASE ~(k <= d)
    <3>1. k - d \in 1 .. Len(t) /\ d + (k - d) = k
      BY SMTT(60), <1>1, <1>2, <1>3, <2>2
    <3>2. u[d + (k - d)] = t[k - d]
      BY <1>3, <3>1
    <3> QED BY <3>1, <3>2 DEF Timed
  <2> QED BY <2>1, <2>2
<1> QED BY <1>4, <1>5 DEF Timed

(* What is recorded now comes after everything recorded before. *)
LEMMA OrderedRecorded ==
  ASSUME NEW f \in Lists, NEW e \in Items, NEW r, Put(r, e, f),
         Falls(f, TRUE), Timed(f, e.ts)
  PROVE  Ordered(r, <<>>, TRUE) /\ Timed(r, e.ts)
<1> DEFINE N == Len(f)
<1>1. /\ N \in Nat /\ Len(r) = N + 1 /\ r[1] = e
      /\ \A k \in 1 .. N : r[k + 1] = f[k]
  BY ItemsOf DEF Put
<1>2. \A k \in 1 .. N : f[k].ts <= e.ts
  BY DEF Timed
<1>3. e.ts \in Nat /\ e.ts <= e.ts
  <2>1. e.ts \in Nat
    BY DEF Items
  <2> QED BY SMTT(60), <2>1
<1> HIDE DEF N
<1>4. ASSUME NEW k \in 1 .. N + 1, k # 1
      PROVE  k - 1 \in 1 .. N /\ r[k] = f[k - 1]
  <2>1. k - 1 \in 1 .. N /\ (k - 1) + 1 = k
    BY SMTT(60), <1>1, <1>4
  <2> QED BY <1>1, <2>1
<1>5. Timed(r, e.ts)
  <2> SUFFICES ASSUME NEW k \in 1 .. N + 1
               PROVE  r[k].ts <= e.ts
    BY <1>1 DEF Timed
  <2> QED BY <1>1, <1>2, <1>3, <1>4
<1>6. Falls(r, TRUE)
  <2> SUFFICES ASSUME NEW i \in 1 .. N + 1, NEW j \in 1 .. N + 1, i < j,
                      Looked(r[i], r[j])
               PROVE  NotAfter(TRUE, r[j], r[i])
    BY <1>1 DEF Falls
  <2>1. j # 1 /\ j - 1 \in 1 .. N /\ r[j] = f[j - 1]
    <3>1. j # 1
      BY SMTT(60), <1>1
    <3> QED BY <1>4, <3>1
  <2>2. CASE i = 1
    BY <1>1, <1>2, <2>1, <2>2 DEF NotAfter
  <2>3. CASE i # 1
    <3>1. i - 1 \in 1 .. N /\ r[i] = f[i - 1]
      BY <1>4, <2>3
    <3>2. i - 1 < j - 1
      BY SMTT(60), <1>1
    <3> QED BY <2>1, <3>1, <3>2 DEF Falls, N
  <2> QED BY <2>2, <2>3
<1>7. \A k \in 1 .. Len(<<>>) : FALSE
  BY SMTT(60)
<1>8. Rises(<<>>, TRUE) /\ Meets(r, <<>>, TRUE)
  BY <1>7 DEF Rises, Meets
<1> QED BY <1>5, <1>6, <1>8 DEF Ordered
-----------------------------------------------------------------------------
(* The type invariant. *)
Pcs == {"idle", "start", "end", "record", "lock", "insert", "undo", "redo", "clear"}
UTypeOK ==
  /\ undo_list \in Lists /\ redo_list \in Lists
  /\ group \in Types \cup {None} /\ group_indent \in Int
  /\ locked \in BOOLEAN /\ mutex \in Threads \cup {None}
  /\ value \in [Types -> Values \cup {None}] /\ now \in Nat
  /\ pc \in [Threads -> Pcs] /\ depth \in [Threads -> Int]
  /\ loc \in [Threads -> Locals]

(* The items that are built. *)
LEMMA Built ==
  ASSUME NEW type \in Types \cup {None}, NEW g \in BOOLEAN,
         NEW b \in Values \cup {None}, NEW a \in Values \cup {None}
  PROVE  /\ Item(type, g, b, a) \in Items
         /\ Item(type, g, b, a).type = type /\ Item(type, g, b, a).is_group = g
         /\ Item(type, g, b, a).before = b /\ Item(type, g, b, a).after = a
BY SMTT(60) DEF Item, Items

(* The local variables that are built. *)
LEMMA BuiltLocal ==
  ASSUME NEW g \in Types \cup {None}, NEW n \in Int, NEW i \in Items,
         NEW b \in BOOLEAN
  PROVE  /\ Local(g, n, i, b) \in Locals
         /\ Local(g, n, i, b).item = i /\ Local(g, n, i, b).ends = b
<1> HIDE DEF Items
<1> QED BY SMTT(60) DEF Local, Locals

(* The local variables between calls. *)
LEMMA Nothing ==
  NoItem \in Items /\ ~NoItem.is_group /\ NoItem.type = None
    /\ NoLocal \in Locals /\ NoLocal.item = NoItem /\ ~NoLocal.ends
<1>1. NoItem \in Items /\ NoItem.is_group = FALSE /\ NoItem.type = None
  BY SMTT(60) DEF NoItem, Item, Items
<1>2. 0 \in Int
  BY SMTT(60)
<1> QED BY <1>1, <1>2, BuiltLocal DEF NoLocal

(* A recorded item is the one that was asked for, with the time. *)
LEMMA Stamped ==
  ASSUME NEW i \in Items, NEW n \in Nat
  PROVE  /\ [i EXCEPT !.ts = n] \in Items /\ [i EXCEPT !.ts = n].ts = n
         /\ [i EXCEPT !.ts = n].type = i.type
         /\ [i EXCEPT !.ts = n].is_group = i.is_group
         /\ [i EXCEPT !.ts = n].before = i.before
         /\ [i EXCEPT !.ts = n].after = i.after
BY SMTT(60) DEF Items

(* What undo and redo do to the lists. *)
Moves(f, t, g, u, s, l) ==
  Segment(f, s, l) /\ Without(g, f, s, l) /\ Turned(u, f, s, l, t)

(* Left() is the list without the moved items, and they come first, turned
   round, in the other list. *)
LEMMA MovedLists ==
  ASSUME NEW f \in Lists, NEW t \in Lists, Matching(f) # {}
  PROVE  Moves(f, t, Left(f), Moved(f) \o t, First(f), LastItem(f))
<1> DEFINE s == First(f)
           l == LastItem(f)
<1>1. Segment(f, s, l)
  BY SegmentMoved
<1> HIDE DEF s, l
<1>2. Part(f, s, l)
  BY <1>1 DEF Segment
<1>3. /\ Turned([k \in 1 .. l - s + 1 |-> f[l - k + 1]] \o t, f, s, l, t)
      /\ Without(SubSeq(f, 1, s - 1) \o SubSeq(f, l + 1, Len(f)), f, s, l)
  BY <1>2, TurnedRound, TakenOut
<1>4. /\ Moved(f) = [k \in 1 .. l - s + 1 |-> f[l - k + 1]]
      /\ Left(f) = SubSeq(f, 1, s - 1) \o SubSeq(f, l + 1, Len(f))
  BY DEF Moved, Left, s, l
<1>5. Moves(f, t, Left(f), Moved(f) \o t, s, l)
  BY <1>1, <1>3, <1>4 DEF Moves
<1> QED BY <1>5 DEF s, l

(* The changes of a type among the items that are moved. *)
Mine(f, s, l, type) == {i \in s .. l : f[i].type = type /\ ~f[i].is_group}

(* The last of them, which is the one whose callback wins. *)
LEMMA LastOfMine ==
  ASSUME NEW f \in Lists, NEW s, NEW l, NEW type, Part(f, s, l),
         Mine(f, s, l, type) # {}
  PROVE  /\ Max(Mine(f, s, l, type)) \in Mine(f, s, l, type)
         /\ Max(Mine(f, s, l, type)) \in 1 .. Len(f)
         /\ \A y \in Mine(f, s, l, type) : y <= Max(Mine(f, s, l, type))
<1> DEFINE T == Mine(f, s, l, type)
<1>1. Len(f) \in Nat /\ s .. l \subseteq 1 .. Len(f)
  BY SMTT(60), ItemsOf DEF Part
<1>2. T \subseteq 1 .. Len(f) /\ T # {}
  BY <1>1 DEF Mine
<1> HIDE DEF T
<1>3. Max(T) \in T /\ \A y \in T : y <= Max(T)
  BY <1>1, <1>2, Greatest
<1>4. Max(T) \in 1 .. Len(f)
  BY <1>2, <1>3
<1> QED BY <1>3, <1>4 DEF T

(* What the callbacks set the values to. *)
Brings(f, s, l, type, action, v, w) ==
  IF Mine(f, s, l, type) = {} THEN w = v
  ELSE w = Restored(action, f[Max(Mine(f, s, l, type))])

(* That is what Applied() computes. *)
LEMMA AppliedValues ==
  ASSUME NEW f \in Lists, Matching(f) # {}, NEW action,
         value \in [Types -> Values \cup {None}]
  PROVE  /\ Applied(f, action) \in [Types -> Values \cup {None}]
         /\ \A type \in Types :
              Brings(f, First(f), LastItem(f), type, action, value[type],
                     Applied(f, action)[type])
<1> DEFINE s == First(f)
           l == LastItem(f)
           V == Values \cup {None}
           a == Applied(f, action)
<1>1. Part(f, s, l)
  BY SegmentMoved DEF Segment
<1>2. a = [type \in Types |->
             IF Mine(f, s, l, type) = {} THEN value[type]
             ELSE Restored(action, f[Max(Mine(f, s, l, type))])]
  BY DEF Applied, Mine
<1> HIDE DEF s, l, a
<1>3. ASSUME NEW type \in Types
      PROVE  a[type] \in V /\ Brings(f, s, l, type, action, value[type], a[type])
  <2>1. a[type] = IF Mine(f, s, l, type) = {} THEN value[type]
                  ELSE Restored(action, f[Max(Mine(f, s, l, type))])
    BY <1>2
  <2>2. Brings(f, s, l, type, action, value[type], a[type])
    BY <2>1 DEF Brings
  <2>3. CASE Mine(f, s, l, type) = {}
    BY <2>1, <2>2, <2>3
  <2>4. CASE Mine(f, s, l, type) # {}
    <3> DEFINE e == f[Max(Mine(f, s, l, type))]
    <3>1. e \in Items
      BY <1>1, <2>4, LastOfMine, ItemsOf
    <3> HIDE DEF e
    <3>2. e.before \in V /\ e.after \in V
      BY <3>1 DEF Items
    <3>3. a[type] = Restored(action, e)
      BY <2>1, <2>4 DEF e
    <3> QED BY <2>2, <3>2, <3>3 DEF Restored
  <2> QED BY <2>3, <2>4
<1>4. a \in [Types -> V]
  <2>1. \A type \in Types : a[type] \in V
    BY <1>3
  <2>2. a = [type \in Types |-> a[type]]
    BY <1>2
  <2> QED BY <2>1, <2>2
<1>5. \A type \in Types : Brings(f, s, l, type, action, value[type], a[type])
  BY <1>3
<1> QED BY <1>4, <1>5 DEF s, l, a

(* Every step keeps the types. *)
LEMMA TypeStep ==
  ASSUME UTypeOK, UNext
  PROVE  UTypeOK'
<1> USE DEF UTypeOK, listVars, groupVars
<1> HIDE DEF Items, Locals, Lists, Pcs
<1>0. {"idle", "start", "end", "record", "lock", "insert", "undo", "redo",
       "clear"} \subseteq Pcs
  BY DEF Pcs
<1>1. ASSUME NEW t \in Threads, NEW l \in Pcs, Goto(t, l)
      PROVE  pc' \in [Threads -> Pcs]
  BY <1>1 DEF Goto
<1>2. ASSUME NEW t \in Threads, NEW x \in Locals, loc' = [loc EXCEPT ![t] = x]
      PROVE  loc' \in [Threads -> Locals]
  BY <1>2
<1>3. ASSUME NEW t \in Threads, NEW n \in Int, depth' = [depth EXCEPT ![t] = n]
      PROVE  depth' \in [Threads -> Int]
  BY <1>3
<1>4. ASSUME NEW type \in Types \cup {None}
      PROVE  Marker(type) \in Items
  BY <1>4, Built DEF Marker
<1>5. ASSUME NEW t \in Threads
      PROVE  /\ loc[t] \in Locals /\ loc[t].group \in Types \cup {None}
             /\ loc[t].indent \in Int /\ loc[t].item \in Items
             /\ loc[t].item.type \in Types \cup {None} /\ depth[t] \in Int
             /\ depth[t] + 1 \in Int /\ depth[t] - 1 \in Int
             /\ loc[t].indent + 1 \in Int /\ loc[t].indent - 1 \in Int
  <2>1. loc[t] \in Locals /\ depth[t] \in Int
    OBVIOUS
  <2>2. /\ loc[t].group \in Types \cup {None}
        /\ loc[t].indent \in Int /\ loc[t].item \in Items
    BY <2>1 DEF Locals
  <2>3. loc[t].item.type \in Types \cup {None}
    BY <2>2 DEF Items
  <2>4. /\ depth[t] + 1 \in Int /\ depth[t] - 1 \in Int
        /\ loc[t].indent + 1 \in Int /\ loc[t].indent - 1 \in Int
    BY SMTT(60), <2>1, <2>2
  <2> QED BY <2>1, <2>2, <2>3, <2>4
<1>6. ASSUME NEW t \in Threads, NEW type \in Types, StartGroup(t, type)
      PROVE  UTypeOK'
  <2>1. Local(group, group_indent, Marker(type), FALSE) \in Locals
    BY <1>4, BuiltLocal
  <2> QED BY <1>0, <1>1, <1>2, <1>6, <2>1 DEF StartGroup
<1>7. ASSUME NEW t \in Threads, NEW type \in Types, NEW v \in Values,
             Change(t, type, v)
      PROVE  UTypeOK'
  <2>1. Item(type, FALSE, value[type], v) \in Items
    BY Built
  <2>2. \A x : loc' = [loc EXCEPT ![t].item = x] /\ x \in Items
                => loc' \in [Threads -> Locals]
    BY SMTT(60) DEF Locals
  <2>3. value' \in [Types -> Values \cup {None}]
    BY <1>7 DEF Change
  <2> QED BY <1>0, <1>1, <1>7, <2>1, <2>2, <2>3 DEF Change
<1>8. ASSUME NEW t \in Threads, StartedGroup(t)
      PROVE  UTypeOK'
  <2>1. depth' \in [Threads -> Int]
    BY <1>3, <1>5, <1>8 DEF StartedGroup
  <2>2. 1 \in Int
    BY SMTT(60)
  <2>3. CASE loc[t].group = None
    BY <1>0, <1>1, <1>5, <1>8, <2>1, <2>2, <2>3 DEF StartedGroup
  <2>4. CASE loc[t].group # None
    BY <1>0, <1>1, <1>2, <1>5, <1>8, <2>1, <2>4, Nothing DEF StartedGroup
  <2> QED BY <2>3, <2>4
<1>9. ASSUME NEW t \in Threads, EndGroup(t)
      PROVE  UTypeOK'
  <2>1. \A x : loc' = [loc EXCEPT ![t].indent = x] /\ x \in Int
            => loc' \in [Threads -> Locals]
    BY SMTT(60) DEF Locals
  <2> QED BY <1>0, <1>1, <1>9, <2>1 DEF EndGroup
<1>10. ASSUME NEW t \in Threads, EndedGroup(t)
       PROVE  UTypeOK'
  <2>1. depth' \in [Threads -> Int] /\ group_indent' \in Int
    BY <1>3, <1>5, <1>10 DEF EndedGroup
  <2>2. Local(None, 0, Marker(group), TRUE) \in Locals
    <3>1. 0 \in Int
      BY SMTT(60)
    <3> QED BY <3>1, <1>4, BuiltLocal
  <2>3. CASE loc[t].indent = 1
    BY <1>0, <1>1, <1>2, <1>10, <2>1, <2>2, <2>3 DEF EndedGroup
  <2>4. CASE loc[t].indent # 1
    BY <1>0, <1>1, <1>2, <1>10, <2>1, <2>4, Nothing DEF EndedGroup
  <2> QED BY <2>3, <2>4
<1>11. ASSUME NEW t \in Threads, RecordAsked(t)
       PROVE  UTypeOK'
  BY <1>0, <1>1, <1>11 DEF RecordAsked
<1>12. ASSUME NEW t \in Threads, Return(t)
       PROVE  /\ pc' \in [Threads -> Pcs] /\ loc' \in [Threads -> Locals]
              /\ group' \in Types \cup {None}
  BY <1>0, <1>1, <1>2, <1>12, Nothing DEF Return
<1>13. ASSUME NEW t \in Threads, RecordSkipped(t)
       PROVE  UTypeOK'
  BY <1>12, <1>13 DEF RecordSkipped
<1>14. ASSUME NEW t \in Threads, RecordLock(t)
       PROVE  UTypeOK'
  BY <1>0, <1>1, <1>14 DEF RecordLock
<1>15. <<>> \in Lists
  BY SMTT(60) DEF Lists
<1>16. ASSUME NEW t \in Threads, Insert(t)
       PROVE  UTypeOK'
  <2> DEFINE e == [loc[t].item EXCEPT !.ts = now]
  <2>1. e \in Items
    BY <1>5, Stamped
  <2> HIDE DEF e
  <2>2. <<e>> \o undo_list \in Lists
    BY <2>1, Recorded DEF Put
  <2>3. undo_list' \in Lists
    BY <1>16, <2>2 DEF Insert, e
  <2> QED BY <1>12, <1>15, <1>16, <2>3 DEF Insert
<1>17. Gui \in Threads
  BY UndoAssumption
<1>18. ASSUME NEW l \in Pcs, Call(Gui, l)
       PROVE  UTypeOK'
  BY <1>1, <1>17, <1>18 DEF Call
<1>19. CASE UndoEnd(Gui)
  <2>1. CASE Matching(undo_list) = {}
    BY <1>0, <1>1, <1>17, <1>19, <2>1 DEF UndoEnd
  <2>2. CASE Matching(undo_list) # {}
    <3>1. Left(undo_list) \in Lists /\ Moved(undo_list) \o redo_list \in Lists
      BY <2>2, MovedLists DEF Moves, Without, Turned
    <3>2. value' \in [Types -> Values \cup {None}]
      <4>1. Applied(undo_list, "undo") \in [Types -> Values \cup {None}]
        BY <1>1, <2>2, AppliedValues
      <4>2. value' = Applied(undo_list, "undo")
        BY <1>19, <2>2 DEF UndoEnd
      <4> QED BY <4>1, <4>2
    <3> QED BY <1>0, <1>1, <1>17, <1>19, <2>2, <3>1, <3>2 DEF UndoEnd
  <2> QED BY <2>1, <2>2
<1>20. CASE RedoEnd(Gui)
  <2>1. CASE Matching(redo_list) = {}
    BY <1>0, <1>1, <1>17, <1>20, <2>1 DEF RedoEnd
  <2>2. CASE Matching(redo_list) # {}
    <3>1. Left(redo_list) \in Lists /\ Moved(redo_list) \o undo_list \in Lists
      BY <2>2, MovedLists DEF Moves, Without, Turned
    <3>2. value' \in [Types -> Values \cup {None}]
      <4>1. Applied(redo_list, "redo") \in [Types -> Values \cup {None}]
        BY <1>1, <2>2, AppliedValues
      <4>2. value' = Applied(redo_list, "redo")
        BY <1>20, <2>2 DEF RedoEnd
      <4> QED BY <4>1, <4>2
    <3> QED BY <1>0, <1>1, <1>17, <1>20, <2>2, <3>1, <3>2 DEF RedoEnd
  <2> QED BY <2>1, <2>2
<1>21. ASSUME NEW filter, ClearEnd(Gui, filter)
       PROVE  UTypeOK'
  BY <1>0, <1>1, <1>15, <1>17, <1>21 DEF ClearEnd
<1>22. CASE Tick
  <2>1. now + 1 \in Nat
    BY SMTT(60)
  <2> QED BY <1>22, <2>1 DEF Tick
<1> QED
  BY <1>0, <1>6, <1>7, <1>8, <1>9, <1>10, <1>11, <1>13, <1>14, <1>16, <1>18,
     <1>19, <1>20, <1>21, <1>22 DEF UNext

(* The initial state. *)
LEMMA TypeInit ==
  ASSUME UInit
  PROVE  UTypeOK
<1>1. <<>> \in Lists /\ 0 \in Int /\ 0 \in Nat
  BY SMTT(60) DEF Lists
<1>2. "idle" \in Pcs
  BY DEF Pcs
<1> HIDE DEF Locals, Lists, Pcs
<1>3. value \in [Types -> Values \cup {None}]
  BY DEF UInit
<1> QED BY <1>1, <1>2, <1>3, Nothing DEF UInit, UTypeOK
-----------------------------------------------------------------------------
(* Chronological is not inductive: a record puts its item behind the whole *)
(* undo list, so the lists must also hold nothing later than now.          *)
CInv ==
  /\ UTypeOK /\ Timed(undo_list, now) /\ Timed(redo_list, now)
  /\ Ordered(undo_list, redo_list, TRUE)

(* The items of the timeline are those of the two lists. *)
LEMMA TimelineItems ==
  ASSUME undo_list \in Lists, redo_list \in Lists
  PROVE  /\ Len(Timeline) = Len(undo_list) + Len(redo_list)
         /\ \A k \in 1 .. Len(undo_list) :
              Timeline[k] = undo_list[Len(undo_list) - k + 1]
         /\ \A k \in 1 .. Len(redo_list) :
              Timeline[Len(undo_list) + k] = redo_list[k]
<1> DEFINE N == Len(undo_list)
           M == Len(redo_list)
<1>1. N \in Nat /\ M \in Nat
  BY ItemsOf
<1>2. Timeline = [k \in 1 .. N + M |->
                    IF k <= N THEN undo_list[N - k + 1] ELSE redo_list[k - N]]
  BY DEF Timeline
<1> HIDE DEF N, M
<1>3. /\ Len(Timeline) = N + M
      /\ \A k \in 1 .. N : Timeline[k] = undo_list[N - k + 1]
      /\ \A k \in 1 .. M : Timeline[N + k] = redo_list[k]
  BY SMTT(60), <1>1, <1>2
<1> QED BY <1>3 DEF N, M

(* The inductive invariant says that time only goes forward. *)
LEMMA CInvChronological ==
  ASSUME CInv
  PROVE  Chronological
<1> DEFINE N == Len(undo_list)
           M == Len(redo_list)
           line == Timeline
<1>1. undo_list \in Lists /\ redo_list \in Lists
  BY DEF CInv, UTypeOK
<1>2. N \in Nat /\ M \in Nat
  BY <1>1, ItemsOf
<1>3. /\ Len(line) = N + M
      /\ \A k \in 1 .. N : line[k] = undo_list[N - k + 1]
      /\ \A k \in 1 .. M : line[N + k] = redo_list[k]
  BY <1>1, TimelineItems
<1> HIDE DEF N, M, line
<1>4. ASSUME NEW k \in 1 .. N + M
      PROVE  \/ k <= N /\ N - k + 1 \in 1 .. N /\ line[k] = undo_list[N - k + 1]
             \/ k > N /\ k - N \in 1 .. M /\ line[k] = redo_list[k - N]
  <2>1. CASE k <= N
    <3>1. k \in 1 .. N /\ N - k + 1 \in 1 .. N
      BY SMTT(60), <1>2, <2>1
    <3> QED BY <1>3, <2>1, <3>1
  <2>2. CASE ~(k <= N)
    <3>1. k > N /\ k - N \in 1 .. M /\ N + (k - N) = k
      BY SMTT(60), <1>2, <2>2
    <3>2. line[N + (k - N)] = redo_list[k - N]
      BY <1>3, <3>1
    <3> QED BY <3>1, <3>2
  <2> QED BY <2>1, <2>2
<1>5. ASSUME NEW i \in 1 .. N + M, NEW j \in 1 .. N + M, i < j,
             Looked(line[i], line[j])
      PROVE  NotAfter(TRUE, line[i], line[j])
  <2> DEFINE p == N - i + 1
             q == N - j + 1
             x == i - N
             y == j - N
  <2>1. /\ \/ i <= N /\ p \in 1 .. N /\ line[i] = undo_list[p]
           \/ i > N /\ x \in 1 .. M /\ line[i] = redo_list[x]
        /\ \/ j <= N /\ q \in 1 .. N /\ line[j] = undo_list[q]
           \/ j > N /\ y \in 1 .. M /\ line[j] = redo_list[y]
    BY <1>4
  <2>2. q < p /\ x < y /\ ~(i > N /\ j <= N)
    BY SMTT(60), <1>2, <1>5
  <2>3. Looked(line[j], line[i])
    BY <1>5 DEF Looked
  <2> HIDE DEF p, q, x, y
  <2> QED
    BY <1>5, <2>1, <2>2, <2>3 DEF CInv, Ordered, Falls, Rises, Meets, N, M
<1>6. \A i, j \in 1 .. Len(line) :
        i < j /\ line[i].type \in Filter /\ line[j].type \in Filter
          => line[i].ts <= line[j].ts
  BY <1>3, <1>5 DEF Looked, NotAfter
<1> QED BY <1>6 DEF Chronological, line

(* Every step of any thread keeps the order of time. *)
LEMMA CInvStep ==
  ASSUME CInv, [UNext]_vars
  PROVE  CInv'
<1> USE DEF listVars
<1>1. UTypeOK /\ undo_list \in Lists /\ redo_list \in Lists /\ now \in Nat
  BY DEF CInv, UTypeOK
<1>2. UTypeOK'
  <2>1. CASE UNext
    BY <1>1, <2>1, TypeStep
  <2>2. CASE UNCHANGED vars
    BY <1>1, <2>2 DEF UTypeOK, vars, groupVars
  <2> QED BY <2>1, <2>2
<1>3. CASE UNCHANGED <<listVars, now>>
  BY <1>2, <1>3 DEF CInv
<1>4. ASSUME NEW t \in Threads, Insert(t)
      PROVE  CInv'
  <2> DEFINE e == [loc[t].item EXCEPT !.ts = now]
  <2>1. e \in Items /\ e.ts = now
    <3>1. loc[t].item \in Items
      BY <1>1 DEF UTypeOK, Locals
    <3> QED BY <1>1, <3>1, Stamped
  <2>2. undo_list' = <<e>> \o undo_list /\ redo_list' = <<>> /\ now' = now
    BY <1>4 DEF Insert
  <2> HIDE DEF e
  <2>3. Put(<<e>> \o undo_list, e, undo_list)
    BY <1>1, <2>1, Recorded
  <2>4. Falls(undo_list, TRUE) /\ Timed(undo_list, e.ts)
    BY <2>1 DEF CInv, Ordered
  <2>5. Ordered(<<e>> \o undo_list, <<>>, TRUE) /\ Timed(<<e>> \o undo_list, e.ts)
    BY <1>1, <2>1, <2>3, <2>4, OrderedRecorded
  <2>6. Timed(<<>>, now)
    <3>1. \A k \in 1 .. Len(<<>>) : FALSE
      BY SMTT(60)
    <3> QED BY <3>1 DEF Timed
  <2> QED BY <1>2, <2>1, <2>2, <2>5, <2>6 DEF CInv
<1>5. CASE UndoEnd(Gui) /\ Matching(undo_list) # {}
  <2> DEFINE f == undo_list
             t == redo_list
             g == Left(f)
             u == Moved(f) \o t
  <2>1. undo_list' = g /\ redo_list' = u /\ now' = now
    BY <1>5 DEF UndoEnd
  <2> HIDE DEF g, u
  <2>2. PICK s, l : Moves(f, t, g, u, s, l)
    BY <1>1, <1>5, MovedLists DEF g, u
  <2>3. Ordered(f, t, TRUE) /\ Timed(f, now) /\ Timed(t, now)
    BY DEF CInv
  <2>4. Ordered(g, u, TRUE)
    BY <1>1, <2>2, <2>3, OrderedMoved DEF Moves
  <2>5. Timed(g, now) /\ Timed(u, now)
    BY <1>1, <2>2, <2>3, TimedMoved DEF Moves
  <2> QED BY <1>2, <2>1, <2>4, <2>5 DEF CInv
<1>6. CASE RedoEnd(Gui) /\ Matching(redo_list) # {}
  <2> DEFINE f == redo_list
             t == undo_list
             g == Left(f)
             u == Moved(f) \o t
  <2>1. redo_list' = g /\ undo_list' = u /\ now' = now
    BY <1>6 DEF RedoEnd
  <2> HIDE DEF g, u
  <2>2. PICK s, l : Moves(f, t, g, u, s, l)
    BY <1>1, <1>6, MovedLists DEF g, u
  <2>3. Ordered(f, t, FALSE) /\ Timed(f, now) /\ Timed(t, now)
    BY OrderedBothWays DEF CInv
  <2>4. Ordered(g, u, FALSE)
    BY <1>1, <2>2, <2>3, OrderedMoved DEF Moves
  <2>5. Timed(g, now) /\ Timed(u, now)
    BY <1>1, <2>2, <2>3, TimedMoved DEF Moves
  <2>6. Ordered(u, g, TRUE)
    BY <2>4, OrderedBothWays
  <2> QED BY <1>2, <2>1, <2>5, <2>6 DEF CInv
<1>7. ASSUME NEW filter, ClearEnd(Gui, filter)
      PROVE  CInv'
  <2>1. \A k \in 1 .. Len(<<>>) : FALSE
    BY SMTT(60)
  <2>2. Ordered(<<>>, <<>>, TRUE) /\ Timed(<<>>, now)
    BY <2>1 DEF Ordered, Falls, Rises, Meets, Timed
  <2> QED BY <1>2, <1>7, <2>2 DEF CInv, ClearEnd
<1>8. CASE Tick
  <2>1. ASSUME NEW f \in Lists, Timed(f, now)
        PROVE  Timed(f, now + 1)
    <3> SUFFICES ASSUME NEW k \in 1 .. Len(f)
                 PROVE  f[k].ts <= now + 1
      BY DEF Timed
    <3>1. f[k] \in Items /\ f[k].ts <= now
      BY <2>1, ItemsOf DEF Timed
    <3>2. f[k].ts \in Nat
      BY <3>1 DEF Items
    <3> QED BY SMTT(60), <1>1, <3>1, <3>2
  <2>2. undo_list' = undo_list /\ redo_list' = redo_list /\ now' = now + 1
    BY <1>8 DEF Tick
  <2> QED BY <1>1, <1>2, <2>1, <2>2 DEF CInv
<1>9. UNCHANGED <<listVars, now>> \/ (\E t \in Threads : Insert(t))
        \/ (UndoEnd(Gui) /\ Matching(undo_list) # {})
        \/ (RedoEnd(Gui) /\ Matching(redo_list) # {})
        \/ (\E filter \in Filters : ClearEnd(Gui, filter)) \/ Tick
  <2>1. CASE UNCHANGED vars
    BY <2>1 DEF vars
  <2>2. ASSUME NEW t \in Threads, NEW type \in Types, StartGroup(t, type)
        PROVE  UNCHANGED <<listVars, now>>
    BY <2>2 DEF StartGroup
  <2>3. ASSUME NEW t \in Threads, NEW type \in Types, NEW v, Change(t, type, v)
        PROVE  UNCHANGED <<listVars, now>>
    BY <2>3 DEF Change
  <2>4. ASSUME NEW t \in Threads,
               StartedGroup(t) \/ EndGroup(t) \/ EndedGroup(t) \/ RecordAsked(t)
                 \/ RecordSkipped(t) \/ RecordLock(t)
        PROVE  UNCHANGED <<listVars, now>>
    BY <2>4 DEF StartedGroup, EndGroup, EndedGroup, RecordAsked, RecordSkipped, RecordLock
  <2>5. ASSUME NEW l, Call(Gui, l)
        PROVE  UNCHANGED <<listVars, now>>
    BY <2>5 DEF Call
  <2>6. ASSUME UndoEnd(Gui), Matching(undo_list) = {}
        PROVE  UNCHANGED <<listVars, now>>
    BY <2>6 DEF UndoEnd
  <2>7. ASSUME RedoEnd(Gui), Matching(redo_list) = {}
        PROVE  UNCHANGED <<listVars, now>>
    BY <2>7 DEF RedoEnd
  <2> QED BY <2>1, <2>2, <2>3, <2>4, <2>5, <2>6, <2>7 DEF UNext
<1> QED BY <1>3, <1>4, <1>5, <1>6, <1>7, <1>8, <1>9

(* Undo and redo never reorder what was recorded (_undo_do_undo_redo()     *)
(* moves a whole run of items), whatever threads, groups, filter and clock *)
(* there are.                                                              *)
THEOREM UndoChronological == USpec => []Chronological
<1>1. UInit => CInv
  <2> SUFFICES ASSUME UInit
               PROVE  CInv
    OBVIOUS
  <2>1. \A k \in 1 .. Len(<<>>) : FALSE
    BY SMTT(60)
  <2>2. Ordered(<<>>, <<>>, TRUE) /\ Timed(<<>>, now)
    BY <2>1 DEF Ordered, Falls, Rises, Meets, Timed
  <2> QED BY <2>2, TypeInit DEF CInv, UInit
<1>2. CInv /\ [UNext]_vars => CInv'
  BY CInvStep
<1>3. CInv => Chronological
  BY CInvChronological
<1> QED BY <1>1, <1>2, <1>3, PTL DEF USpec
-----------------------------------------------------------------------------
(* The chains of changes. *)

(* Recording a change of the type lengthens its chain, if it starts from   *)
(* where the chain starts.                                                 *)
LEMMA ChainedRecorded ==
  ASSUME NEW f \in Lists, NEW e \in Items, NEW r, Put(r, e, f), NEW type,
         NEW v, NEW w, NEW start, NEW end, Chained(f, type, v, start, end),
         Sets(e, type) => e[start] = w /\ e[end] = v,
         ~Sets(e, type) => w = v
  PROVE  Chained(r, type, w, start, end)
<1> DEFINE N == Len(f)
<1>1. /\ N \in Nat /\ Len(r) = N + 1 /\ r[1] = e
      /\ \A k \in 1 .. N : r[k + 1] = f[k]
  BY ItemsOf DEF Put
<1>2. /\ \A k \in 1 .. N : NextSet(f, type, 0, k) => f[k][start] = v
      /\ \A j, k \in 1 .. N : Sets(f[j], type) /\ NextSet(f, type, j, k)
                               => f[k][start] = f[j][end]
  BY DEF Chained
<1> HIDE DEF N
<1>3. ASSUME NEW k \in 1 .. N + 1, k # 1
      PROVE  k - 1 \in 1 .. N /\ r[k] = f[k - 1]
  <2>1. k - 1 \in 1 .. N /\ (k - 1) + 1 = k
    BY SMTT(60), <1>1, <1>3
  <2> QED BY <1>1, <2>1
<1>4. ASSUME NEW j \in 0 .. N + 1, NEW k \in 1 .. N + 1, j >= 1,
             NextSet(r, type, j, k)
      PROVE  /\ k # 1 /\ k - 1 \in 1 .. N /\ r[k] = f[k - 1]
             /\ NextSet(f, type, j - 1, k - 1)
  <2>1. j < k /\ Sets(r[k], type) /\ \A i \in j + 1 .. k - 1 : ~Sets(r[i], type)
    BY <1>4 DEF NextSet
  <2>2. k # 1 /\ j - 1 < k - 1
    BY SMTT(60), <1>1, <1>4, <2>1
  <2>3. k - 1 \in 1 .. N /\ r[k] = f[k - 1]
    BY <1>3, <2>2
  <2>4. ASSUME NEW i \in (j - 1) + 1 .. (k - 1) - 1
        PROVE  ~Sets(f[i], type)
    <3>1. i + 1 \in j + 1 .. k - 1 /\ i \in 1 .. N
      BY SMTT(60), <1>1, <1>4
    <3> QED BY <1>1, <2>1, <3>1
  <2> QED BY <2>1, <2>2, <2>3, <2>4 DEF NextSet
<1>5. ASSUME NEW k \in 1 .. N + 1, NextSet(r, type, 0, k)
      PROVE  r[k][start] = w
  <2>1. CASE k = 1
    BY <1>1, <1>5, <2>1 DEF NextSet
  <2>2. CASE k # 1
    <3>1. 1 \in 0 + 1 .. k - 1
      BY SMTT(60), <1>1, <2>2
    <3>2. ~Sets(e, type) /\ Sets(r[k], type)
      BY <1>1, <1>5, <3>1 DEF NextSet
    <3>3. NextSet(r, type, 1, k)
      <4>1. 1 < k /\ \A i \in 1 + 1 .. k - 1 : i \in 0 + 1 .. k - 1
        BY SMTT(60), <1>1, <2>2
      <4> QED BY <1>5, <4>1 DEF NextSet
    <3>4. 1 \in 0 .. N + 1 /\ 1 >= 1 /\ 1 - 1 = 0
      BY SMTT(60), <1>1
    <3>5. k - 1 \in 1 .. N /\ r[k] = f[k - 1] /\ NextSet(f, type, 0, k - 1)
      BY <1>4, <3>3, <3>4
    <3> QED BY <1>2, <3>2, <3>5
  <2> QED BY <2>1, <2>2
<1>6. ASSUME NEW j \in 1 .. N + 1, NEW k \in 1 .. N + 1, Sets(r[j], type),
             NextSet(r, type, j, k)
      PROVE  r[k][start] = r[j][end]
  <2>1. j \in 0 .. N + 1 /\ j >= 1
    BY SMTT(60), <1>1
  <2>2. k - 1 \in 1 .. N /\ r[k] = f[k - 1] /\ NextSet(f, type, j - 1, k - 1)
    BY <1>4, <1>6, <2>1
  <2>3. CASE j = 1
    <3>1. j - 1 = 0
      BY SMTT(60), <2>3
    <3>2. NextSet(f, type, 0, k - 1)
      BY <2>2, <3>1
    <3> QED BY <1>1, <1>2, <1>6, <2>2, <2>3, <3>2
  <2>4. CASE j # 1
    BY <1>2, <1>3, <1>6, <2>2, <2>4
  <2> QED BY <2>3, <2>4
<1> QED BY <1>1, <1>5, <1>6 DEF Chained

(* Two lists lead away from a value, and what the callbacks bring. *)
Joined(f, t, type, v, start, end) ==
  Chained(f, type, v, start, end) /\ Chained(t, type, v, end, start)
Carries(f, s, l, type, v, w, end) ==
  /\ Mine(f, s, l, type) = {} => w = v
  /\ Mine(f, s, l, type) # {} => w = f[Max(Mine(f, s, l, type))][end]

(* Moving changes shortens the chain they leave and lengthens the other:   *)
(* both lead away from the value that the last callback sets.              *)
LEMMA ChainedMoved ==
  ASSUME NEW f \in Lists, NEW t \in Lists, NEW s, NEW l, NEW g, NEW u,
         Moves(f, t, g, u, s, l), NEW type \in Filter, NEW v, NEW w,
         NEW start, NEW end,
         Joined(f, t, type, v, start, end), Carries(f, s, l, type, v, w, end)
  PROVE  Joined(g, u, type, w, start, end)
<1> DEFINE n == l - s + 1
           N == Len(f)
           M == Len(t)
           T == Mine(f, s, l, type)
<1>1. /\ N \in Nat /\ M \in Nat /\ s \in Nat /\ l \in Nat
      /\ 1 <= s /\ s <= l /\ l <= N
  BY ItemsOf DEF Moves, Segment, Part
<1>2. n \in Nat /\ n = l - s + 1
  BY SMTT(60), <1>1
<1>3. /\ Len(g) = N - n /\ Len(u) = n + M
      /\ \A k \in 1 .. s - 1 : g[k] = f[k]
      /\ \A k \in s .. N - n : g[k] = f[k + n]
      /\ \A k \in 1 .. n : u[k] = f[l - k + 1]
      /\ \A k \in 1 .. M : u[n + k] = t[k]
  BY DEF Moves, Without, Turned
<1>4. \A k \in 1 .. s - 1 : ~Sets(f[k], type)
  BY DEF Moves, Segment, Sets
<1>5. /\ \A k \in 1 .. N : NextSet(f, type, 0, k) => f[k][start] = v
      /\ \A j, k \in 1 .. N : Sets(f[j], type) /\ NextSet(f, type, j, k)
                               => f[k][start] = f[j][end]
      /\ \A k \in 1 .. M : NextSet(t, type, 0, k) => t[k][end] = v
      /\ \A j, k \in 1 .. M : Sets(t[j], type) /\ NextSet(t, type, j, k)
                               => t[k][end] = t[j][start]
  BY DEF Joined, Chained
<1>6. \A i \in s .. l : Sets(f[i], type) <=> i \in T
  BY DEF Mine, Sets
<1>7. T # {} => /\ Max(T) \in T /\ Max(T) \in 1 .. N /\ Max(T) \in s .. l
                /\ \A y \in T : y <= Max(T)
  <2>1. Part(f, s, l)
    BY DEF Moves, Segment
  <2>2. T \subseteq s .. l
    BY DEF Mine
  <2> QED BY <2>1, <2>2, LastOfMine
<1>8. (T = {} => w = v) /\ (T # {} => w = f[Max(T)][end])
  BY DEF Carries
<1> HIDE DEF n, N, M, T
<1>9. ASSUME NEW i \in 1 .. N - n, Sets(g[i], type)
      PROVE  i \in s .. N - n /\ i + n \in l + 1 .. N /\ g[i] = f[i + n]
  <2>1. ~(i \in 1 .. s - 1)
    BY <1>3, <1>4, <1>9
  <2>2. i \in s .. N - n
    BY SMTT(60), <1>1, <1>2, <2>1
  <2> QED BY SMTT(60), <1>1, <1>2, <1>3, <2>2
<1>10. ASSUME NEW j \in s - 1 .. N - n, NEW k \in s .. N - n,
              NextSet(g, type, j, k)
       PROVE  NextSet(f, type, j + n, k + n)
  <2>1. /\ j < k /\ Sets(g[k], type)
        /\ \A i \in j + 1 .. k - 1 : ~Sets(g[i], type)
    BY <1>10 DEF NextSet
  <2>2. j + n < k + n /\ Sets(f[k + n], type)
    <3>1. j + n < k + n
      BY SMTT(60), <1>1, <1>2, <2>1
    <3> QED BY <1>3, <2>1, <3>1
  <2>3. ASSUME NEW i \in (j + n) + 1 .. (k + n) - 1
        PROVE  ~Sets(f[i], type)
    <3>1. i - n \in j + 1 .. k - 1 /\ i - n \in s .. N - n /\ (i - n) + n = i
      BY SMTT(60), <1>1, <1>2
    <3>2. g[i - n] = f[i]
      BY <1>3, <3>1
    <3> QED BY <2>1, <3>1, <3>2
  <2> QED BY <2>2, <2>3 DEF NextSet
<1>11. ASSUME NEW k \in 1 .. N - n, NextSet(g, type, 0, k)
       PROVE  g[k][start] = w
  <2>1. Sets(g[k], type) /\ \A i \in 0 + 1 .. k - 1 : ~Sets(g[i], type)
    BY <1>11 DEF NextSet
  <2>2. k \in s .. N - n /\ k + n \in l + 1 .. N /\ g[k] = f[k + n]
    BY <1>9, <2>1
  <2>3. NextSet(g, type, s - 1, k)
    <3>1. s - 1 < k /\ \A i \in (s - 1) + 1 .. k - 1 : i \in 0 + 1 .. k - 1
      BY SMTT(60), <1>1, <2>2
    <3> QED BY <2>1, <3>1 DEF NextSet
  <2>4. NextSet(f, type, l, k + n)
    <3>1. s - 1 \in s - 1 .. N - n /\ s - 1 + n = l
      BY SMTT(60), <1>1, <1>2
    <3>2. NextSet(f, type, s - 1 + n, k + n)
      BY <1>10, <2>2, <2>3, <3>1
    <3> QED BY <3>1, <3>2
  <2>5. /\ l < k + n /\ Sets(f[k + n], type)
        /\ \A i \in l + 1 .. (k + n) - 1 : ~Sets(f[i], type)
    BY <2>4 DEF NextSet
  <2>6. k + n \in 1 .. N
    BY SMTT(60), <1>1, <2>2
  <2>7. CASE T = {}
    <3>1. ASSUME NEW i \in 0 + 1 .. (k + n) - 1
          PROVE  ~Sets(f[i], type)
      <4>1. i \in 1 .. s - 1 \/ i \in s .. l \/ i \in l + 1 .. (k + n) - 1
        BY SMTT(60), <1>1, <1>2
      <4> QED BY <1>4, <1>6, <2>5, <2>7, <4>1
    <3>2. 0 < k + n
      BY SMTT(60), <1>1, <2>2
    <3>3. NextSet(f, type, 0, k + n)
      BY <2>5, <3>1, <3>2 DEF NextSet
    <3> QED BY <1>5, <1>8, <2>2, <2>6, <2>7, <3>3
  <2>8. CASE T # {}
    <3> DEFINE m == Max(T)
    <3>1. /\ m \in T /\ m \in 1 .. N /\ m \in s .. l /\ w = f[m][end]
          /\ \A y \in T : y <= m
      BY <1>7, <1>8, <2>8
    <3> HIDE DEF m
    <3>2. ASSUME NEW i \in m + 1 .. (k + n) - 1
          PROVE  ~Sets(f[i], type)
      <4>1. (i \in s .. l /\ ~(i <= m)) \/ i \in l + 1 .. (k + n) - 1
        BY SMTT(60), <1>1, <1>2, <2>2, <3>1
      <4> QED BY <1>6, <2>5, <3>1, <4>1
    <3>3. m < k + n
      BY SMTT(60), <1>1, <2>2, <3>1
    <3>4. NextSet(f, type, m, k + n) /\ Sets(f[m], type)
      BY <1>6, <2>5, <3>1, <3>2, <3>3 DEF NextSet
    <3> QED BY <1>5, <2>2, <2>6, <3>1, <3>4
  <2> QED BY <2>7, <2>8
<1>12. ASSUME NEW j \in 1 .. N - n, NEW k \in 1 .. N - n, Sets(g[j], type),
              NextSet(g, type, j, k)
       PROVE  g[k][start] = g[j][end]
  <2>1. Sets(g[k], type)
    BY <1>12 DEF NextSet
  <2>2. /\ j \in s .. N - n /\ j + n \in l + 1 .. N /\ g[j] = f[j + n]
        /\ k \in s .. N - n /\ k + n \in l + 1 .. N /\ g[k] = f[k + n]
    BY <1>9, <1>12, <2>1
  <2>3. j \in s - 1 .. N - n /\ j + n \in 1 .. N /\ k + n \in 1 .. N
    BY SMTT(60), <1>1, <2>2
  <2>4. NextSet(f, type, j + n, k + n)
    BY <1>10, <1>12, <2>2, <2>3
  <2> QED BY <1>5, <1>12, <2>2, <2>3, <2>4
<1>13. Chained(g, type, w, start, end)
  BY <1>3, <1>11, <1>12 DEF Chained
<1>14. ASSUME NEW j \in 1 .. n + M
       PROVE  \/ j <= n /\ l - j + 1 \in s .. l /\ u[j] = f[l - j + 1]
              \/ j > n /\ j - n \in 1 .. M /\ u[j] = t[j - n]
  <2>1. CASE j <= n
    <3>1. j \in 1 .. n /\ l - j + 1 \in s .. l
      BY SMTT(60), <1>1, <1>2, <2>1
    <3> QED BY <1>3, <2>1, <3>1
  <2>2. CASE ~(j <= n)
    <3>1. j > n /\ j - n \in 1 .. M /\ n + (j - n) = j
      BY SMTT(60), <1>1, <1>2, <2>2
    <3>2. u[n + (j - n)] = t[j - n]
      BY <1>3, <3>1
    <3> QED BY <3>1, <3>2
  <2> QED BY <2>1, <2>2
<1>15. ASSUME NEW i \in s .. l
       PROVE  l - i + 1 \in 1 .. n /\ u[l - i + 1] = f[i]
  <2>1. l - i + 1 \in 1 .. n /\ l - (l - i + 1) + 1 = i
    BY SMTT(60), <1>1, <1>2
  <2>2. u[l - i + 1] = f[l - (l - i + 1) + 1]
    BY <1>3, <2>1
  <2> QED BY <2>1, <2>2
<1>16. ASSUME NEW j \in n .. n + M, NEW k \in n + 1 .. n + M,
              NextSet(u, type, j, k)
       PROVE  NextSet(t, type, j - n, k - n)
  <2>1. /\ j < k /\ Sets(u[k], type)
        /\ \A i \in j + 1 .. k - 1 : ~Sets(u[i], type)
    BY <1>16 DEF NextSet
  <2>2. j - n < k - n /\ k - n \in 1 .. M /\ n + (k - n) = k
    BY SMTT(60), <1>1, <1>2, <2>1
  <2>3. Sets(t[k - n], type)
    BY <1>3, <2>1, <2>2
  <2>4. ASSUME NEW i \in (j - n) + 1 .. (k - n) - 1
        PROVE  ~Sets(t[i], type)
    <3>1. n + i \in j + 1 .. k - 1 /\ i \in 1 .. M
      BY SMTT(60), <1>1, <1>2
    <3> QED BY <1>3, <2>1, <3>1
  <2> QED BY <2>2, <2>3, <2>4 DEF NextSet
<1>17. ASSUME NEW k \in 1 .. n + M, NextSet(u, type, 0, k)
       PROVE  u[k][end] = w
  <2>1. Sets(u[k], type) /\ \A i \in 0 + 1 .. k - 1 : ~Sets(u[i], type)
    BY <1>17 DEF NextSet
  <2>2. CASE k <= n
    <3> DEFINE p == l - k + 1
    <3>1. p \in s .. l /\ u[k] = f[p]
      <4>1. ~(k > n)
        BY SMTT(60), <1>2, <2>2
      <4> QED BY <1>14, <4>1
    <3>2. p \in T
      BY <1>6, <2>1, <3>1
    <3>3. ASSUME NEW y \in T, y \in s .. l, ~(y <= p)
          PROVE  FALSE
      <4>1. l - y + 1 \in 0 + 1 .. k - 1
        BY SMTT(60), <1>1, <1>2, <3>3
      <4> QED BY <1>6, <1>15, <2>1, <3>3, <4>1
    <3>4. T # {}
      BY <3>2
    <3>5. /\ Max(T) \in T /\ Max(T) \in s .. l /\ w = f[Max(T)][end]
          /\ p <= Max(T)
      BY <1>7, <1>8, <3>2, <3>4
    <3>6. Max(T) <= p
      BY <3>3, <3>5
    <3> HIDE DEF p
    <3>7. Max(T) = p
      BY SMTT(60), <1>1, <3>1, <3>5, <3>6
    <3> QED BY <3>1, <3>5, <3>7
  <2>3. CASE ~(k <= n)
    <3>1. k \in n + 1 .. n + M /\ n \in n .. n + M /\ k - n \in 1 .. M
      BY SMTT(60), <1>1, <1>2, <2>3
    <3>2. u[k] = t[k - n]
      BY <1>14, <2>3
    <3>3. T = {}
      <4> SUFFICES ASSUME NEW y \in T
                   PROVE  FALSE
        OBVIOUS
      <4>1. y \in s .. l
        BY DEF T, Mine
      <4>2. l - y + 1 \in 1 .. n /\ u[l - y + 1] = f[y] /\ Sets(f[y], type)
        BY <1>6, <1>15, <4>1
      <4>3. l - y + 1 \in 0 + 1 .. k - 1
        BY SMTT(60), <1>1, <1>2, <2>3, <4>1, <4>2
      <4> QED BY <2>1, <4>2, <4>3
    <3>4. NextSet(u, type, n, k)
      <4>1. n < k /\ \A i \in n + 1 .. k - 1 : i \in 0 + 1 .. k - 1
        BY SMTT(60), <1>1, <1>2, <2>3
      <4> QED BY <2>1, <4>1 DEF NextSet
    <3>5. NextSet(t, type, 0, k - n)
      <4>1. n - n = 0
        BY SMTT(60), <1>2
      <4>2. NextSet(t, type, n - n, k - n)
        BY <1>16, <3>1, <3>4
      <4> QED BY <4>1, <4>2
    <3> QED BY <1>5, <1>8, <3>1, <3>2, <3>3, <3>5
  <2> QED BY <2>2, <2>3
<1>18. ASSUME NEW j \in 1 .. n + M, NEW k \in 1 .. n + M, Sets(u[j], type),
              NextSet(u, type, j, k)
       PROVE  u[k][end] = u[j][start]
  <2> DEFINE p == l - j + 1
             q == l - k + 1
  <2>1. /\ j < k /\ Sets(u[k], type)
        /\ \A i \in j + 1 .. k - 1 : ~Sets(u[i], type)
    BY <1>18 DEF NextSet
  <2>2. CASE k <= n
    <3>1. ~(k > n) /\ ~(j > n) /\ q < p
      BY SMTT(60), <1>1, <1>2, <2>1, <2>2
    <3>2. p \in s .. l /\ u[j] = f[p] /\ q \in s .. l /\ u[k] = f[q]
      BY <1>14, <3>1
    <3>3. p \in 1 .. N /\ q \in 1 .. N
      BY SMTT(60), <1>1, <3>2
    <3>4. ASSUME NEW i \in q + 1 .. p - 1
          PROVE  ~Sets(f[i], type)
      <4>1. i \in s .. l /\ l - i + 1 \in j + 1 .. k - 1
        BY SMTT(60), <1>1, <1>2, <2>1, <2>2, <3>2
      <4> QED BY <1>15, <2>1, <4>1
    <3> HIDE DEF p, q
    <3>5. NextSet(f, type, q, p) /\ Sets(f[q], type)
      BY <1>18, <2>1, <3>1, <3>2, <3>4 DEF NextSet
    <3> QED BY <1>5, <3>2, <3>3, <3>5
  <2>3. CASE j <= n /\ ~(k <= n)
    <3>1. p \in s .. l /\ u[j] = f[p] /\ k - n \in 1 .. M /\ u[k] = t[k - n]
      <4>1. ~(j > n)
        BY SMTT(60), <1>2, <2>3
      <4> QED BY <1>14, <2>3, <4>1
    <3>2. p \in 1 .. N /\ 0 < p
      BY SMTT(60), <1>1, <3>1
    <3>3. ASSUME NEW i \in 0 + 1 .. p - 1
          PROVE  ~Sets(f[i], type)
      <4>1. i \in 1 .. s - 1 \/ (i \in s .. l /\ l - i + 1 \in j + 1 .. k - 1)
        BY SMTT(60), <1>1, <1>2, <2>3, <3>1
      <4> QED BY <1>4, <1>15, <2>1, <4>1
    <3> HIDE DEF p
    <3>4. NextSet(f, type, 0, p)
      BY <1>18, <3>1, <3>2, <3>3 DEF NextSet
    <3>5. f[p][start] = v
      BY <1>5, <3>2, <3>4
    <3>6. k \in n + 1 .. n + M /\ n \in n .. n + M /\ n - n = 0
      BY SMTT(60), <1>1, <1>2, <2>3
    <3>7. NextSet(u, type, n, k)
      <4>1. n < k /\ \A i \in n + 1 .. k - 1 : i \in j + 1 .. k - 1
        BY SMTT(60), <1>1, <1>2, <2>3
      <4> QED BY <2>1, <4>1 DEF NextSet
    <3>8. NextSet(t, type, n - n, k - n)
      BY <1>16, <3>6, <3>7
    <3>9. t[k - n][end] = v
      BY <1>5, <3>1, <3>6, <3>8
    <3> QED BY <3>1, <3>5, <3>9
  <2>4. CASE ~(j <= n)
    <3>1. /\ j > n /\ k > n /\ j \in n .. n + M /\ k \in n + 1 .. n + M
          /\ ~(k <= n)
      BY SMTT(60), <1>1, <1>2, <2>1, <2>4
    <3>2. /\ j - n \in 1 .. M /\ u[j] = t[j - n]
          /\ k - n \in 1 .. M /\ u[k] = t[k - n]
      BY <1>14, <2>4, <3>1
    <3>3. NextSet(t, type, j - n, k - n)
      BY <1>16, <1>18, <3>1
    <3> QED BY <1>5, <1>18, <3>2, <3>3
  <2> QED BY <2>2, <2>3, <2>4
<1>19. Chained(u, type, w, end, start)
  BY <1>3, <1>17, <1>18 DEF Chained
<1> QED BY <1>13, <1>19 DEF Joined
-----------------------------------------------------------------------------
(* Consistent is not inductive either: while a thread has changed a value  *)
(* and not recorded it, the lists still lead away from the value before.   *)
Pending == {"record", "lock", "insert"}
Holding == {"insert", "undo", "redo", "clear"}
Fits(u, r, v) ==
  \A type \in Filter :
    /\ Chained(u, type, v[type], "after", "before")
    /\ Chained(r, type, v[type], "before", "after")
Was(item, v) ==
  [type \in Types |-> IF Sets(item, type) THEN item.before ELSE v[type]]
Ends(item, v) == \A type \in Types : Sets(item, type) => item.after = v[type]
Fine(p, item, u, r, v) ==
  /\ p \notin Pending => Fits(u, r, v)
  /\ p \in Pending => Fits(u, r, Was(item, v)) /\ Ends(item, v)
  /\ p = "start" => item.is_group
Alone(t) == \A u \in Threads : u # t => pc[u] = "idle"
SInv ==
  /\ UTypeOK /\ Serial
  /\ locked => \E t \in Threads : pc[t] \in Holding
  /\ \A t \in Threads : Alone(t) => Fine(pc[t], loc[t].item, undo_list, redo_list, value)

(* A marker changes no value. *)
LEMMA MarkerFits ==
  ASSUME NEW item, item.is_group, NEW u, NEW r, NEW v, Fits(u, r, v)
  PROVE  Fits(u, r, Was(item, v)) /\ Ends(item, v)
<1>1. \A type \in Types : ~Sets(item, type)
  BY DEF Sets
<1>2. \A type \in Filter : Was(item, v)[type] = v[type]
  BY <1>1, UndoAssumption DEF Was
<1> QED BY <1>1, <1>2 DEF Fits, Ends

(* Of a thread that is in a call, or comes into one, the others are idle. *)
LEMMA AloneStep ==
  ASSUME Serial, Serial', NEW t \in Threads, NEW l, pc \in [Threads -> Pcs],
         Goto(t, l), pc[t] # "idle" \/ l # "idle"
  PROVE  Alone(t) /\ Alone(t)' /\ pc'[t] = l
<1>1. pc'[t] = l /\ \A u \in Threads : u # t => pc'[u] = pc[u]
  BY DEF Goto
<1>2. ASSUME NEW u \in Threads, u # t
      PROVE  pc[u] = "idle"
  BY <1>1, <1>2 DEF Serial
<1> QED BY <1>1, <1>2 DEF Alone

(* So it is enough to look at that thread. *)
LEMMA FineStep ==
  ASSUME NEW t \in Threads, UTypeOK', Serial', Alone(t)',
         locked' => \E u \in Threads : pc'[u] \in Holding,
         Fine(pc'[t], loc'[t].item, undo_list', redo_list', value')
  PROVE  SInv'
<1> SUFFICES ASSUME NEW w \in Threads, Alone(w)', w # t
             PROVE  Fine(pc'[w], loc'[w].item, undo_list', redo_list', value')
  BY DEF SInv
<1>1. pc'[t] = "idle" /\ pc'[w] = "idle"
  BY DEF Alone
<1>2. "idle" \notin Pending
  BY DEF Pending
<1>3. Fits(undo_list', redo_list', value')
  BY <1>1, <1>2 DEF Fine
<1> QED BY <1>1, <1>2, <1>3 DEF Fine

(* After an undo or a redo the lists fit the values that were brought      *)
(* back.                                                                   *)
LEMMA UndoFits ==
  ASSUME NEW f \in Lists, NEW t \in Lists, Matching(f) # {}, Fits(f, t, value),
         value \in [Types -> Values \cup {None}]
  PROVE  Fits(Left(f), Moved(f) \o t, Applied(f, "undo"))
<1> DEFINE s == First(f)
           l == LastItem(f)
           g == Left(f)
           u == Moved(f) \o t
           a == Applied(f, "undo")
<1>1. Moves(f, t, g, u, s, l)
  BY MovedLists
<1>2. \A type \in Types : Brings(f, s, l, type, "undo", value[type], a[type])
  BY AppliedValues
<1> HIDE DEF s, l, g, u, a
<1>3. ASSUME NEW type \in Filter
      PROVE  /\ Chained(g, type, a[type], "after", "before")
             /\ Chained(u, type, a[type], "before", "after")
  <2>1. type \in Types
    BY UndoAssumption
  <2>2. /\ Mine(f, s, l, type) = {} => a[type] = value[type]
        /\ Mine(f, s, l, type) # {} =>
             a[type] = f[Max(Mine(f, s, l, type))]["before"]
    BY <1>2, <2>1 DEF Brings, Restored
  <2> DEFINE v == value[type]
             w == a[type]
  <2>3. Joined(f, t, type, v, "after", "before")
    BY DEF Fits, Joined
  <2>4. Carries(f, s, l, type, v, w, "before")
    BY <2>2 DEF Carries
  <2> HIDE DEF v, w
  <2>5. Joined(g, u, type, w, "after", "before")
    BY <1>1, <2>3, <2>4, ChainedMoved
  <2> QED BY <2>5 DEF w, Joined
<1> QED BY <1>3 DEF Fits, g, u, a

(* The same for a redo, with the lists and the values exchanged. *)
LEMMA RedoFits ==
  ASSUME NEW f \in Lists, NEW t \in Lists, Matching(f) # {}, Fits(t, f, value),
         value \in [Types -> Values \cup {None}]
  PROVE  Fits(Moved(f) \o t, Left(f), Applied(f, "redo"))
<1> DEFINE s == First(f)
           l == LastItem(f)
           g == Left(f)
           u == Moved(f) \o t
           a == Applied(f, "redo")
<1>1. Moves(f, t, g, u, s, l)
  BY MovedLists
<1>2. \A type \in Types : Brings(f, s, l, type, "redo", value[type], a[type])
  BY AppliedValues
<1> HIDE DEF s, l, g, u, a
<1>3. ASSUME NEW type \in Filter
      PROVE  /\ Chained(g, type, a[type], "before", "after")
             /\ Chained(u, type, a[type], "after", "before")
  <2>1. type \in Types
    BY UndoAssumption
  <2>2. /\ Mine(f, s, l, type) = {} => a[type] = value[type]
        /\ Mine(f, s, l, type) # {} =>
             a[type] = f[Max(Mine(f, s, l, type))]["after"]
    BY <1>2, <2>1 DEF Brings, Restored
  <2> DEFINE v == value[type]
             w == a[type]
  <2>3. Joined(f, t, type, v, "before", "after")
    BY DEF Fits, Joined
  <2>4. Carries(f, s, l, type, v, w, "after")
    BY <2>2 DEF Carries
  <2> HIDE DEF v, w
  <2>5. Joined(g, u, type, w, "before", "after")
    BY <1>1, <2>3, <2>4, ChainedMoved
  <2> QED BY <2>5 DEF w, Joined
<1> QED BY <1>3 DEF Fits, g, u, a

(* Nothing follows from empty lists. *)
LEMMA EmptyFits ==
  ASSUME NEW type, NEW v, NEW start, NEW end
  PROVE  Chained(<<>>, type, v, start, end)
<1>1. \A k \in 1 .. Len(<<>>) : FALSE
  BY SMTT(60)
<1> QED BY <1>1 DEF Chained

(* A recorded change leads back to the value before it. *)
LEMMA RecordFits ==
  ASSUME NEW u \in Lists, NEW r, NEW e \in Items, NEW v,
         Fits(u, r, Was(e, v)), Ends(e, v)
  PROVE  Fits(<<e>> \o u, <<>>, v)
<1> DEFINE g == <<e>> \o u
<1>1. Put(g, e, u)
  BY Recorded
<1> HIDE DEF g
<1>2. ASSUME NEW type \in Filter
      PROVE  Chained(g, type, v[type], "after", "before")
  <2> DEFINE b == Was(e, v)[type]
             w == v[type]
  <2>1. type \in Types
    BY UndoAssumption
  <2>2. b = IF Sets(e, type) THEN e.before ELSE v[type]
    BY <2>1 DEF Was
  <2>3. Chained(u, type, b, "after", "before")
    BY DEF Fits
  <2>4. Sets(e, type) => e["after"] = w /\ e["before"] = b
    BY <2>1, <2>2 DEF Ends
  <2>5. ~Sets(e, type) => w = b
    BY <2>2
  <2> HIDE DEF b, w
  <2>6. Chained(g, type, w, "after", "before")
    BY <1>1, <2>3, <2>4, <2>5, ChainedRecorded
  <2> QED BY <2>6 DEF w
<1> QED BY <1>2, EmptyFits DEF Fits, g

(* A step after which at most one thread is in a call keeps the lists in
   agreement with the values. *)
LEMMA SInvStep ==
  ASSUME SInv, [UNext /\ Serial']_vars
  PROVE  SInv'
<1> USE DEF listVars, groupVars
<1>1. /\ UTypeOK /\ Serial /\ undo_list \in Lists /\ redo_list \in Lists
      /\ now \in Nat /\ pc \in [Threads -> Pcs] /\ loc \in [Threads -> Locals]
      /\ value \in [Types -> Values \cup {None}]
      /\ locked => \E t \in Threads : pc[t] \in Holding
  BY DEF SInv, UTypeOK
<1>2. CASE UNCHANGED vars
  BY <1>2 DEF vars, SInv, UTypeOK, Serial, Alone, Holding
<1>3. UNext => UTypeOK'
  BY <1>1, TypeStep
<1> SUFFICES ASSUME UNext, Serial'
             PROVE  SInv'
  BY <1>2
<1>4. ASSUME NEW t \in Threads, Alone(t)
      PROVE  Fine(pc[t], loc[t].item, undo_list, redo_list, value)
  BY <1>4 DEF SInv
<1>5. ASSUME NEW t \in Threads
      PROVE  loc[t] \in Locals /\ loc[t].item \in Items
  <2>1. loc[t] \in Locals
    BY <1>1
  <2> QED BY <2>1 DEF Locals
<1>6. /\ {"idle", "start", "end", "undo", "redo", "clear"} \cap Pending = {}
      /\ {"record", "lock", "insert"} = Pending
      /\ {"idle", "start", "end", "record", "lock"} \cap Holding = {}
      /\ {"insert", "undo", "redo", "clear"} = Holding
  BY DEF Pending, Holding
(* the lock stays with its holder *)
<1>7. ASSUME NEW t \in Threads, NEW l, Goto(t, l), pc[t] \notin Holding,
             locked' = locked
      PROVE  locked' => \E u \in Threads : pc'[u] \in Holding
  <2> SUFFICES ASSUME NEW u \in Threads, pc[u] \in Holding
               PROVE  pc'[u] \in Holding
    BY <1>1, <1>7
  <2> QED BY <1>1, <1>7 DEF Goto
<1>8. ASSUME NEW t \in Threads, NEW type \in Types, StartGroup(t, type)
      PROVE  SInv'
  <2>1. pc[t] = "idle" /\ Goto(t, "start")
    BY <1>8 DEF StartGroup
  <2>2. Alone(t) /\ Alone(t)' /\ pc'[t] = "start"
    BY <1>1, <2>1, AloneStep
  <2>3. Fits(undo_list, redo_list, value)
    BY <1>4, <1>6, <2>1, <2>2 DEF Fine
  <2>4. loc'[t].item.is_group
    <3>1. loc'[t] = Local(group, group_indent, Marker(type), FALSE)
      BY <1>1, <1>8 DEF StartGroup
    <3>2. loc'[t].item = Marker(type)
      BY SMTT(60), <3>1 DEF Local
    <3>3. Marker(type).is_group
      BY SMTT(60) DEF Marker, Item
    <3> QED BY <3>2, <3>3
  <2>5. Fine(pc'[t], loc'[t].item, undo_list', redo_list', value')
    BY <1>6, <1>8, <2>2, <2>3, <2>4 DEF Fine, StartGroup
  <2>6. locked' => \E u \in Threads : pc'[u] \in Holding
    BY <1>6, <1>7, <1>8, <2>1 DEF StartGroup
  <2> QED BY <1>3, <2>2, <2>5, <2>6, FineStep
<1>9. ASSUME NEW t \in Threads, NEW type \in Types, NEW v \in Values,
             Change(t, type, v)
      PROVE  SInv'
  <2> DEFINE e == Item(type, FALSE, value[type], v)
  <2>1. pc[t] = "idle" /\ Goto(t, "record")
    BY <1>9 DEF Change
  <2>2. Alone(t) /\ Alone(t)' /\ pc'[t] = "record"
    BY <1>1, <2>1, AloneStep
  <2>3. Fits(undo_list, redo_list, value)
    BY <1>4, <1>6, <2>1, <2>2 DEF Fine
  <2>4. e \in Items /\ e.type = type /\ ~e.is_group /\ e.before = value[type] /\ e.after = v
    <3>1. /\ type \in Types \cup {None} /\ FALSE \in BOOLEAN
          /\ value[type] \in Values \cup {None} /\ v \in Values \cup {None}
      BY <1>1
    <3>2. /\ e \in Items /\ e.type = type /\ e.is_group = FALSE
          /\ e.before = value[type] /\ e.after = v
      BY SMTT(60), <3>1 DEF e, Item, Items
    <3> QED BY <3>2
  <2> HIDE DEF e
  <2>5. loc'[t].item = e
    <3>1. loc' = [loc EXCEPT ![t].item = e]
      BY <1>9 DEF Change, e
    <3>2. loc[t] \in Locals
      BY <1>5
    <3>3. loc' = [loc EXCEPT ![t] = [loc[t] EXCEPT !.item = e]]
      BY <3>1
    <3>4. loc'[t] = [loc[t] EXCEPT !.item = e]
      BY <1>1, <3>3
    <3> HIDE DEF Items
    <3> QED BY SMTT(60), <3>2, <3>4 DEF Locals
  <2>6. /\ value' = [value EXCEPT ![type] = v]
        /\ undo_list' = undo_list /\ redo_list' = redo_list /\ locked' = locked
    BY <1>9 DEF Change
  <2>7. \A ty \in Types : Sets(e, ty) <=> ty = type
    BY <2>4 DEF Sets
  <2>8. \A ty \in Types : Was(e, value')[ty] = value[ty]
    BY <1>1, <2>4, <2>6, <2>7 DEF Was
  <2>9. Ends(e, value')
    BY <1>1, <2>4, <2>6, <2>7 DEF Ends
  <2>10. Fits(undo_list, redo_list, Was(e, value'))
    BY <2>3, <2>8, UndoAssumption DEF Fits
  <2>11. Fine(pc'[t], loc'[t].item, undo_list', redo_list', value')
    BY <1>6, <2>2, <2>5, <2>6, <2>9, <2>10 DEF Fine
  <2>12. locked' => \E u \in Threads : pc'[u] \in Holding
    BY <1>6, <1>7, <2>1, <2>6
  <2> QED BY <1>3, <2>2, <2>11, <2>12, FineStep
<1>10. ASSUME NEW t \in Threads, StartedGroup(t)
       PROVE  SInv'
  <2>1. /\ pc[t] = "start" /\ locked' = locked /\ undo_list' = undo_list
        /\ redo_list' = redo_list /\ value' = value
    BY <1>10 DEF StartedGroup
  <2>2. CASE loc[t].group = None
    <3>1. Goto(t, "record") /\ loc' = loc
      BY <1>10, <2>2 DEF StartedGroup
    <3>2. Alone(t) /\ Alone(t)' /\ pc'[t] = "record"
      BY <1>1, <2>1, <3>1, AloneStep
    <3>3. Fits(undo_list, redo_list, value) /\ loc[t].item.is_group
      BY <1>4, <1>6, <2>1, <3>2 DEF Fine
    <3>4. Fine(pc'[t], loc'[t].item, undo_list', redo_list', value')
      BY <1>6, <2>1, <3>1, <3>2, <3>3, MarkerFits DEF Fine
    <3> QED BY <1>3, <1>6, <1>7, <2>1, <3>1, <3>2, <3>4, FineStep
  <2>3. CASE loc[t].group # None
    <3>1. Goto(t, "idle")
      BY <1>10, <2>3 DEF StartedGroup
    <3>2. Alone(t) /\ Alone(t)' /\ pc'[t] = "idle"
      BY <1>1, <2>1, <3>1, AloneStep
    <3>3. Fits(undo_list, redo_list, value)
      BY <1>4, <1>6, <2>1, <3>2 DEF Fine
    <3>4. Fine(pc'[t], loc'[t].item, undo_list', redo_list', value')
      BY <1>6, <2>1, <3>2, <3>3 DEF Fine
    <3> QED BY <1>3, <1>6, <1>7, <2>1, <3>1, <3>2, <3>4, FineStep
  <2> QED BY <2>2, <2>3
<1>11. ASSUME NEW t \in Threads, EndGroup(t)
       PROVE  SInv'
  <2>1. /\ pc[t] = "idle" /\ Goto(t, "end") /\ locked' = locked
        /\ undo_list' = undo_list /\ redo_list' = redo_list /\ value' = value
    BY <1>11 DEF EndGroup
  <2>2. Alone(t) /\ Alone(t)' /\ pc'[t] = "end"
    BY <1>1, <2>1, AloneStep
  <2>3. Fits(undo_list, redo_list, value)
    BY <1>4, <1>6, <2>1, <2>2 DEF Fine
  <2>4. Fine(pc'[t], loc'[t].item, undo_list', redo_list', value')
    BY <1>6, <2>1, <2>2, <2>3 DEF Fine
  <2> QED BY <1>3, <1>6, <1>7, <2>1, <2>2, <2>4, FineStep
<1>12. ASSUME NEW t \in Threads, EndedGroup(t)
       PROVE  SInv'
  <2>1. /\ pc[t] = "end" /\ locked' = locked /\ undo_list' = undo_list
        /\ redo_list' = redo_list /\ value' = value
    BY <1>12 DEF EndedGroup
  <2>2. CASE loc[t].indent = 1
    <3>1. Goto(t, "record") /\ loc' = [loc EXCEPT ![t] = Local(None, 0, Marker(group), TRUE)]
      BY <1>12, <2>2 DEF EndedGroup
    <3>2. Alone(t) /\ Alone(t)' /\ pc'[t] = "record"
      BY <1>1, <2>1, <3>1, AloneStep
    <3>3. Fits(undo_list, redo_list, value)
      BY <1>4, <1>6, <2>1, <3>2 DEF Fine
    <3>4. loc'[t].item.is_group
      <4>1. loc'[t] = Local(None, 0, Marker(group), TRUE)
        BY <1>1, <3>1
      <4>2. loc'[t].item = Marker(group)
        BY SMTT(60), <4>1 DEF Local
      <4>3. Marker(group).is_group
        BY SMTT(60) DEF Marker, Item
      <4> QED BY <4>2, <4>3
    <3>5. Fine(pc'[t], loc'[t].item, undo_list', redo_list', value')
      BY <1>6, <2>1, <3>2, <3>3, <3>4, MarkerFits DEF Fine
    <3> QED BY <1>3, <1>6, <1>7, <2>1, <3>1, <3>2, <3>5, FineStep
  <2>3. CASE loc[t].indent # 1
    <3>1. Goto(t, "idle")
      BY <1>12, <2>3 DEF EndedGroup
    <3>2. Alone(t) /\ Alone(t)' /\ pc'[t] = "idle"
      BY <1>1, <2>1, <3>1, AloneStep
    <3>3. Fits(undo_list, redo_list, value)
      BY <1>4, <1>6, <2>1, <3>2 DEF Fine
    <3>4. Fine(pc'[t], loc'[t].item, undo_list', redo_list', value')
      BY <1>6, <2>1, <3>2, <3>3 DEF Fine
    <3> QED BY <1>3, <1>6, <1>7, <2>1, <3>1, <3>2, <3>4, FineStep
  <2> QED BY <2>2, <2>3
<1>13. ASSUME NEW t \in Threads, RecordAsked(t)
       PROVE  SInv'
  <2>1. /\ pc[t] = "record" /\ Goto(t, "lock") /\ locked' = locked /\ loc' = loc
        /\ undo_list' = undo_list /\ redo_list' = redo_list /\ value' = value
    BY <1>13 DEF RecordAsked
  <2>2. Alone(t) /\ Alone(t)' /\ pc'[t] = "lock"
    BY <1>1, <2>1, AloneStep
  <2>3. Fine(pc'[t], loc'[t].item, undo_list', redo_list', value')
    BY <1>4, <1>6, <2>1, <2>2 DEF Fine
  <2> QED BY <1>3, <1>6, <1>7, <2>1, <2>2, <2>3, FineStep
(* nobody else holds the lock *)
<1>14. ASSUME NEW t \in Threads, RecordSkipped(t)
       PROVE  SInv'
  <2>1. pc[t] = "record" /\ locked
    BY <1>14 DEF RecordSkipped
  <2>2. PICK u \in Threads : pc[u] \in Holding
    BY <1>1, <2>1
  <2>3. pc[u] # "idle" /\ u # t
    BY <1>6, <2>1, <2>2
  <2> QED BY <1>1, <2>1, <2>3 DEF Serial
<1>15. ASSUME NEW t \in Threads, RecordLock(t)
       PROVE  SInv'
  <2>1. /\ pc[t] = "lock" /\ Goto(t, "insert") /\ loc' = loc
        /\ undo_list' = undo_list /\ redo_list' = redo_list /\ value' = value
    BY <1>15 DEF RecordLock
  <2>2. Alone(t) /\ Alone(t)' /\ pc'[t] = "insert"
    BY <1>1, <2>1, AloneStep
  <2>3. Fine(pc'[t], loc'[t].item, undo_list', redo_list', value')
    BY <1>4, <1>6, <2>1, <2>2 DEF Fine
  <2> QED BY <1>3, <1>6, <2>2, <2>3, FineStep
<1>16. ASSUME NEW t \in Threads, Insert(t)
       PROVE  SInv'
  <2> DEFINE e == [loc[t].item EXCEPT !.ts = now]
             b == loc[t].item
  <2>1. /\ pc[t] = "insert" /\ Goto(t, "idle") /\ ~locked' /\ value' = value
        /\ undo_list' = <<e>> \o undo_list /\ redo_list' = <<>>
    BY <1>16 DEF Insert, Return
  <2>2. Alone(t) /\ Alone(t)' /\ pc'[t] = "idle"
    BY <1>1, <2>1, AloneStep
  <2>3. Fits(undo_list, redo_list, Was(b, value)) /\ Ends(b, value)
    BY <1>4, <1>6, <2>1, <2>2 DEF Fine
  <2>4. /\ e \in Items /\ e.type = b.type /\ e.is_group = b.is_group
        /\ e.before = b.before /\ e.after = b.after
    BY <1>1, <1>5, Stamped
  <2> HIDE DEF e, b
  <2>5. Was(e, value) = Was(b, value) /\ Ends(e, value)
    BY <2>3, <2>4 DEF Was, Ends, Sets
  <2>6. Fits(<<e>> \o undo_list, <<>>, value)
    BY <1>1, <2>3, <2>4, <2>5, RecordFits
  <2>7. Fine(pc'[t], loc'[t].item, undo_list', redo_list', value')
    BY <1>6, <2>1, <2>2, <2>6 DEF Fine
  <2> QED BY <1>3, <2>1, <2>2, <2>7, FineStep
<1>17. Gui \in Threads
  BY UndoAssumption
<1>18. ASSUME NEW l \in {"undo", "redo", "clear"}, Call(Gui, l)
       PROVE  SInv'
  <2>1. /\ pc[Gui] = "idle" /\ Goto(Gui, l) /\ l # "idle"
        /\ undo_list' = undo_list /\ redo_list' = redo_list /\ value' = value
    BY <1>18 DEF Call
  <2>2. Alone(Gui) /\ Alone(Gui)' /\ pc'[Gui] = l
    BY <1>1, <1>17, <2>1, AloneStep
  <2>3. Fits(undo_list, redo_list, value)
    BY <1>4, <1>6, <1>17, <2>1, <2>2 DEF Fine
  <2>4. l \notin Pending /\ l # "start" /\ l \in Holding
    BY <1>6, <1>18
  <2>5. Fine(pc'[Gui], loc'[Gui].item, undo_list', redo_list', value')
    BY <2>1, <2>2, <2>3, <2>4 DEF Fine
  <2> QED BY <1>3, <1>17, <2>2, <2>4, <2>5, FineStep
(* the ends of undo, redo and clear *)
<1>19. ASSUME pc[Gui] \in {"undo", "redo", "clear"}, Goto(Gui, "idle"), ~locked',
              Fits(undo_list, redo_list, value) =>
                Fits(undo_list', redo_list', value')
       PROVE  SInv'
  <2>1. pc[Gui] # "idle"
    BY <1>19
  <2>2. Alone(Gui) /\ Alone(Gui)' /\ pc'[Gui] = "idle"
    BY <1>1, <1>17, <1>19, <2>1, AloneStep
  <2>3. Fits(undo_list, redo_list, value)
    BY <1>4, <1>6, <1>17, <1>19, <2>2 DEF Fine
  <2>4. Fine(pc'[Gui], loc'[Gui].item, undo_list', redo_list', value')
    BY <1>6, <1>19, <2>2, <2>3 DEF Fine
  <2> QED BY <1>3, <1>17, <1>19, <2>2, <2>4, FineStep
<1>20. CASE UndoEnd(Gui)
  <2>1. pc[Gui] = "undo" /\ Goto(Gui, "idle") /\ ~locked'
    BY <1>20 DEF UndoEnd
  <2>2. ASSUME Fits(undo_list, redo_list, value)
        PROVE  Fits(undo_list', redo_list', value')
    <3>1. CASE Matching(undo_list) = {}
      BY <1>20, <2>2, <3>1 DEF UndoEnd
    <3>2. CASE Matching(undo_list) # {}
      BY <1>1, <1>20, <2>2, <3>2, UndoFits DEF UndoEnd
    <3> QED BY <3>1, <3>2
  <2> QED BY <1>19, <2>1, <2>2
<1>21. CASE RedoEnd(Gui)
  <2>1. pc[Gui] = "redo" /\ Goto(Gui, "idle") /\ ~locked'
    BY <1>21 DEF RedoEnd
  <2>2. ASSUME Fits(undo_list, redo_list, value)
        PROVE  Fits(undo_list', redo_list', value')
    <3>1. CASE Matching(redo_list) = {}
      BY <1>21, <2>2, <3>1 DEF RedoEnd
    <3>2. CASE Matching(redo_list) # {}
      BY <1>1, <1>21, <2>2, <3>2, RedoFits DEF RedoEnd
    <3> QED BY <3>1, <3>2
  <2> QED BY <1>19, <2>1, <2>2
<1>22. ASSUME NEW filter, ClearEnd(Gui, filter)
       PROVE  SInv'
  <2>1. /\ pc[Gui] = "clear" /\ Goto(Gui, "idle") /\ ~locked'
        /\ undo_list' = <<>> /\ redo_list' = <<>>
    BY <1>22 DEF ClearEnd
  <2>2. Fits(undo_list', redo_list', value')
    BY <2>1, EmptyFits DEF Fits
  <2> QED BY <1>19, <2>1, <2>2
<1>23. CASE Tick
  <2>1. /\ undo_list' = undo_list /\ redo_list' = redo_list /\ value' = value
        /\ pc' = pc /\ loc' = loc /\ locked' = locked
    BY <1>23 DEF Tick
  <2> QED BY <1>1, <1>3, <2>1 DEF SInv, Alone
<1> QED
  BY <1>8, <1>9, <1>10, <1>11, <1>12, <1>13, <1>14, <1>15, <1>16, <1>18, <1>20,
     <1>21, <1>22, <1>23 DEF UNext

(* Whatever is recorded, undone and redone, the next undo or redo starts   *)
(* from the state it was recorded in, for any number of threads, types and *)
(* items and any filter, as long as the calls of the threads follow one    *)
(* another.                                                                *)
THEOREM SerialConsistent == SerialSpec => []Consistent
<1>1. UInit => SInv
  <2> SUFFICES ASSUME UInit
               PROVE  SInv
    OBVIOUS
  <2>1. UTypeOK
    BY TypeInit
  <2>2. \A t \in Threads : pc[t] = "idle"
    BY DEF UInit
  <2>3. "idle" \notin Pending
    BY DEF Pending
  <2>4. Fits(undo_list, redo_list, value)
    BY EmptyFits DEF UInit, Fits
  <2> QED BY <2>1, <2>2, <2>3, <2>4 DEF SInv, Serial, Fine, UInit
<1>2. SInv /\ [UNext /\ Serial']_vars => SInv'
  BY SInvStep
<1>3. SInv => Consistent
  <2> SUFFICES ASSUME SInv, \A t \in Threads : pc[t] \notin Pending
               PROVE  Fits(undo_list, redo_list, value)
    BY DEF Consistent, Fits, Pending
  <2>1. ASSUME NEW t \in Threads, Alone(t)
        PROVE  Fits(undo_list, redo_list, value)
    BY <2>1 DEF SInv, Fine
  <2>2. CASE \A t \in Threads : pc[t] = "idle"
    BY <2>1, <2>2, UndoAssumption DEF Alone
  <2>3. ASSUME NEW t \in Threads, pc[t] # "idle"
        PROVE  Alone(t)
    BY <2>3 DEF SInv, Serial, Alone
  <2> QED BY <2>1, <2>2, <2>3
<1> QED BY <1>1, <1>2, <1>3, PTL DEF SerialSpec

-----------------------------------------------------------------------------
(* The markers of a part of a list, and how many they are. *)
MarkersIn(f, a, b) == {i \in a .. b : f[i].is_group}
Count(f, a, b) == Cardinality(MarkersIn(f, a, b))

(* They are finitely many. *)
LEMMA CountIsNat ==
  ASSUME NEW f, NEW a \in Int, NEW b \in Int
  PROVE  IsFiniteSet(MarkersIn(f, a, b)) /\ Count(f, a, b) \in Nat
<1>1. IsFiniteSet(a .. b)
  BY FS_Interval
<1>2. MarkersIn(f, a, b) \in SUBSET (a .. b)
  BY DEF MarkersIn
<1>3. IsFiniteSet(MarkersIn(f, a, b))
  BY <1>1, <1>2, FS_Subset
<1> QED BY <1>3, FS_CardinalityType DEF Count

(* Counting a part and the rest counts all. *)
Between(a, m, b) ==
  a \in Int /\ m \in Int /\ b \in Int /\ a <= m + 1 /\ m <= b
Adds(f, a, m, b) == Count(f, a, b) = Count(f, a, m) + Count(f, m + 1, b)
LEMMA CountSplit ==
  ASSUME NEW f, NEW a, NEW m, NEW b, Between(a, m, b)
  PROVE  Adds(f, a, m, b)
<1> DEFINE A == MarkersIn(f, a, m)
           B == MarkersIn(f, m + 1, b)
<1>0. a \in Int /\ m \in Int /\ b \in Int /\ a <= m + 1 /\ m <= b
  BY DEF Between
<1>1. IsFiniteSet(A) /\ Cardinality(A) \in Nat
  BY <1>0, CountIsNat DEF Count
<1>2. m + 1 \in Int /\ b \in Int
  BY SMTT(60), <1>0
<1>3. IsFiniteSet(B) /\ Cardinality(B) \in Nat
  BY <1>2, CountIsNat DEF Count
<1>4. \A i : i \in a .. b <=> i \in a .. m \/ i \in m + 1 .. b
  BY SMTT(60), <1>0
<1>5. MarkersIn(f, a, b) = A \cup B
  BY <1>4 DEF MarkersIn
<1>6. A \cap B = {}
  <2>1. \A i : ~(i \in a .. m /\ i \in m + 1 .. b)
    BY SMTT(60), <1>0
  <2> QED BY <2>1 DEF MarkersIn
<1> HIDE DEF A, B
<1>7. Cardinality(A \cup B) = Cardinality(A) + Cardinality(B) - Cardinality(A \cap B)
  BY <1>1, <1>3, FS_Union
<1>8. Cardinality(A \cap B) = 0
  BY <1>6, FS_EmptySet
<1>9. Cardinality(A \cup B) = Cardinality(A) + Cardinality(B)
  BY SMTT(60), <1>1, <1>3, <1>7, <1>8
<1> QED BY <1>5, <1>9 DEF Adds, Count, A, B

(* The part a .. b of g is the part p .. q of f, moved along by d, or turned
   round. *)
Along(g, a, b, f, p, q, d) ==
  /\ a \in Int /\ b \in Int /\ d \in Int /\ p = a + d /\ q = b + d
  /\ \A i \in a .. b : g[i] = f[i + d]
Round(g, a, b, f, p, q, c) ==
  /\ a \in Int /\ b \in Int /\ c \in Int /\ p = c - b /\ q = c - a
  /\ \A i \in a .. b : g[i] = f[c - i]
Same(g, a, b, f, p, q) == Count(g, a, b) = Count(f, p, q)

(* Moving a part along does not change the count. *)
LEMMA CountShifted ==
  ASSUME NEW f, NEW g, NEW a, NEW b, NEW d, NEW p, NEW q,
         Along(g, a, b, f, p, q, d)
  PROVE  Same(g, a, b, f, p, q)
<1> DEFINE S == MarkersIn(g, a, b)
           T == MarkersIn(f, p, q)
           h == [i \in S |-> i + d]
<1>0. a \in Int /\ b \in Int /\ d \in Int /\ p = a + d /\ q = b + d
  BY DEF Along
<1>1. IsFiniteSet(S)
  BY <1>0, CountIsNat
<1>2. \A i \in S : i \in a .. b /\ i + d \in T
  <2>1. \A i \in a .. b : i + d \in p .. q
    BY SMTT(60), <1>0
  <2> QED BY <2>1 DEF MarkersIn, Along
<1>3. h \in Injection(S, T)
  <2>1. \A i, j \in a .. b : i + d = j + d => i = j
    BY SMTT(60), <1>0
  <2> QED BY <1>2, <2>1 DEF Injection, IsInjective
<1>4. h \in Surjection(S, T)
  <2>1. ASSUME NEW k \in T
        PROVE  k - d \in S /\ h[k - d] = k
    <3>1. k \in p .. q /\ f[k].is_group
      BY DEF MarkersIn
    <3>2. k - d \in a .. b /\ (k - d) + d = k
      BY SMTT(60), <1>0, <3>1
    <3>3. k - d \in S
      BY <3>1, <3>2 DEF MarkersIn, Along
    <3> QED BY <3>2, <3>3
  <2>2. h \in [S -> T]
    BY <1>2
  <2> HIDE DEF h, S, T
  <2> QED BY <2>1, <2>2 DEF Surjection
<1>5. ExistsBijection(S, T)
  BY <1>3, <1>4 DEF ExistsBijection, Bijection
<1>6. Cardinality(T) = Cardinality(S)
  BY <1>1, <1>5, FS_Bijection
<1> QED BY <1>6 DEF Count, Same

(* Nor does turning it round. *)
LEMMA CountTurned ==
  ASSUME NEW f, NEW g, NEW a, NEW b, NEW c, NEW p, NEW q,
         Round(g, a, b, f, p, q, c)
  PROVE  Same(g, a, b, f, p, q)
<1> DEFINE S == MarkersIn(g, a, b)
           T == MarkersIn(f, p, q)
           h == [i \in S |-> c - i]
<1>0. a \in Int /\ b \in Int /\ c \in Int /\ p = c - b /\ q = c - a
  BY DEF Round
<1>1. IsFiniteSet(S)
  BY <1>0, CountIsNat
<1>2. \A i \in S : i \in a .. b /\ c - i \in T
  <2>1. \A i \in a .. b : c - i \in p .. q
    BY SMTT(60), <1>0
  <2> QED BY <2>1 DEF MarkersIn, Round
<1>3. h \in Injection(S, T)
  <2>1. \A i, j \in a .. b : c - i = c - j => i = j
    BY SMTT(60), <1>0
  <2> QED BY <1>2, <2>1 DEF Injection, IsInjective
<1>4. h \in Surjection(S, T)
  <2>1. ASSUME NEW k \in T
        PROVE  c - k \in S /\ h[c - k] = k
    <3>1. k \in p .. q /\ f[k].is_group
      BY DEF MarkersIn
    <3>2. c - k \in a .. b /\ c - (c - k) = k
      BY SMTT(60), <1>0, <3>1
    <3>3. c - k \in S
      BY <3>1, <3>2 DEF MarkersIn, Round
    <3> QED BY <3>2, <3>3
  <2>2. h \in [S -> T]
    BY <1>2
  <2> HIDE DEF h, S, T
  <2> QED BY <2>1, <2>2 DEF Surjection
<1>5. ExistsBijection(S, T)
  BY <1>3, <1>4 DEF ExistsBijection, Bijection
<1>6. Cardinality(T) = Cardinality(S)
  BY <1>1, <1>5, FS_Bijection
<1> QED BY <1>6 DEF Count, Same

(* Even and odd numbers. *)
LEMMA Parity ==
  ASSUME NEW a \in Nat, NEW b \in Nat
  PROVE  /\ (a % 2 = 0 /\ b % 2 = 0) => (a + b) % 2 = 0
         /\ (a % 2 = 0 /\ (a + b) % 2 = 0) => b % 2 = 0
         /\ (a % 2 = 0 <=> ~((a + 1) % 2 = 0))
         /\ (a % 2 = 0 <=> ~(a % 2 = 1))
BY SMTT(60)

(* A part of one item. *)
LEMMA CountOne ==
  ASSUME NEW f, NEW a \in Int
  PROVE  Count(f, a, a) = IF f[a].is_group THEN 1 ELSE 0
<1>1. a .. a = {a}
  BY SMTT(60)
<1>2. MarkersIn(f, a, a) = IF f[a].is_group THEN {a} ELSE {}
  BY <1>1 DEF MarkersIn
<1> QED BY <1>2, FS_Singleton, FS_EmptySet DEF Count

(* A part without markers. *)
LEMMA CountNone ==
  ASSUME NEW f, NEW a, NEW b, \A i \in a .. b : ~f[i].is_group
  PROVE  Count(f, a, b) = 0
<1>1. MarkersIn(f, a, b) = {}
  BY DEF MarkersIn
<1> QED BY <1>1, FS_EmptySet DEF Count

(* The lists undo and redo look all through, and the groups in them. *)
All(f) == Count(f, 1, Len(f))
AllLooked(f) == \A k \in 1 .. Len(f) : f[k].type \in Filter
Whole(f) == AllLooked(f) /\ All(f) % 2 = 0

(* What is moved from a list of whole groups are whole groups. *)
LEMMA WholeSegment ==
  ASSUME NEW f \in Lists, Matching(f) # {}, Whole(f)
  PROVE  First(f) = 1 /\ Count(f, 1, LastItem(f)) % 2 = 0
<1> DEFINE s == First(f)
           l == LastItem(f)
           N == Len(f)
<1>1. Segment(f, s, l)
  BY SegmentMoved
<1>2. /\ N \in Nat /\ s \in Nat /\ l \in Nat /\ 1 <= s /\ s <= l /\ l <= N
  BY <1>1, ItemsOf DEF Segment, Part
<1>3. \A k \in 1 .. N : f[k].type \in Filter
  BY DEF Whole, AllLooked
<1>4. s = 1
  <2>1. CASE s # 1
    <3>1. 1 \in 1 .. s - 1 /\ 1 \in 1 .. N
      BY SMTT(60), <1>2, <2>1
    <3> QED BY <1>1, <1>3, <3>1 DEF Segment
  <2> QED BY <2>1
<1>5. Count(f, 1, N) % 2 = 0
  BY DEF Whole, All
<1>6. l = IF f[s].is_group THEN GroupLast(f, s) ELSE PeriodLast(f, s)
  BY DEF LastItem
<1> HIDE DEF s, l
<1>7. CASE f[1].is_group
  <2> DEFINE K == {k \in 1 + 1 .. N : f[k].is_group}
             G == K \cup {N}
  <2>1. l = Min(G)
    BY <1>4, <1>6, <1>7 DEF GroupLast
  <2>2. G \subseteq Nat /\ G # {}
    BY SMTT(60), <1>2
  <2>3. l \in G /\ \A y \in G : l <= y
    BY <2>1, <2>2, Least
  <2>4. Count(f, 1, 1) = 1
    <3>1. 1 \in Int
      BY SMTT(60)
    <3> QED BY <1>7, <3>1, CountOne
  <2>5. K # {}
    <3> SUFFICES ASSUME K = {}
                 PROVE  FALSE
      OBVIOUS
    <3>1. Count(f, 1 + 1, N) = 0
      BY CountNone
    <3>2. Count(f, 1, N) = Count(f, 1, 1) + Count(f, 1 + 1, N)
      <4>1. Between(1, 1, N)
        BY SMTT(60), <1>2, <1>4 DEF Between
      <4>2. Adds(f, 1, 1, N)
        BY <4>1, CountSplit
      <4> QED BY <4>2 DEF Adds
    <3> QED BY SMTT(60), <1>5, <2>4, <3>1, <3>2
  <2>6. PICK k \in K : TRUE
    BY <2>5
  <2>7. k \in 2 .. N /\ l <= k /\ k \in G
    <3>1. k \in 1 + 1 .. N /\ k \in G
      OBVIOUS
    <3>2. l <= k
      BY <2>3, <3>1
    <3> QED BY SMTT(60), <3>1, <3>2
  <2>8. l \in K
    <3>1. CASE l = N
      <4>1. k = N
        BY SMTT(60), <1>2, <2>7, <3>1
      <4> QED BY <3>1, <4>1
    <3> QED BY <2>3, <3>1
  <2>9. l \in 2 .. N /\ f[l].is_group
    <3>1. l \in 1 + 1 .. N /\ f[l].is_group
      BY <2>8
    <3> QED BY SMTT(60), <3>1
  <2>10. \A i \in 2 .. l - 1 : ~f[i].is_group
    <3> SUFFICES ASSUME NEW i \in 2 .. l - 1, f[i].is_group
                 PROVE  FALSE
      OBVIOUS
    <3>1. i \in 1 + 1 .. N /\ ~(l <= i)
      BY SMTT(60), <1>2, <2>9
    <3>2. i \in G
      BY <3>1
    <3> QED BY <2>3, <3>1, <3>2
  <2> HIDE DEF G, K
  <2>11. Count(f, 1, l) = Count(f, 1, 1) + Count(f, 2, l)
    <3>1. Between(1, 1, l)
      BY SMTT(60), <1>2, <1>4 DEF Between
    <3>2. Adds(f, 1, 1, l)
      BY <3>1, CountSplit
    <3>3. 1 + 1 = 2
      BY SMTT(60)
    <3> QED BY <3>2, <3>3 DEF Adds
  <2>12. Count(f, 2, l) = Count(f, 2, l - 1) + Count(f, l, l)
    <3>1. Between(2, l - 1, l)
      BY SMTT(60), <2>9 DEF Between
    <3>2. Adds(f, 2, l - 1, l)
      BY <3>1, CountSplit
    <3>3. (l - 1) + 1 = l
      BY SMTT(60), <2>9
    <3> QED BY <3>2, <3>3 DEF Adds
  <2>13. Count(f, 2, l - 1) = 0
    BY <2>10, CountNone
  <2>14. Count(f, l, l) = 1
    <3>1. l \in Int
      BY SMTT(60), <1>2
    <3> QED BY <2>9, <3>1, CountOne
  <2>15. Count(f, 1, l) % 2 = 0
    BY SMTT(60), <2>4, <2>11, <2>12, <2>13, <2>14
  <2> QED BY <1>4, <2>15 DEF s, l
<1>8. CASE ~f[1].is_group
  <2> DEFINE P == {k \in s .. N : ~Continues(f, s, k)}
  <2>1. l = Min(P)
    BY <1>4, <1>6, <1>8 DEF PeriodLast
  <2>2. P \subseteq Nat /\ P # {}
    <3>1. N \in s .. N /\ s .. N \subseteq Nat /\ ~(N < N)
      BY SMTT(60), <1>2
    <3>2. ~Continues(f, s, N)
      BY <3>1 DEF Continues
    <3> QED BY <3>1, <3>2
  <2>3. l \in P
    BY <2>1, <2>2, Least
  <2>4. ~Continues(f, s, l) /\ l \in s .. N
    BY <2>3
  <2>5. CASE l = N
    BY <1>4, <1>5, <2>5 DEF s, l
  <2>6. CASE l # N
    <3>1. l < N /\ l + 1 \in 1 .. N
      BY SMTT(60), <1>2, <2>4, <2>6
    <3>2. ~InGroup(f, s, l)
      BY <1>3, <2>4, <3>1 DEF Continues
    <3>3. ~(Count(f, 1, l) % 2 = 1)
      BY <1>4, <3>2 DEF InGroup, Count, MarkersIn
    <3>4. Count(f, 1, l) \in Nat
      <4>1. 1 \in Int /\ l \in Int
        BY SMTT(60), <1>2
      <4> QED BY <4>1, CountIsNat
    <3>5. Count(f, 1, l) % 2 = 0
      BY <3>3, <3>4, Parity
    <3> QED BY <1>4, <3>5 DEF s, l
  <2> QED BY <2>5, <2>6
<1> QED BY <1>7, <1>8

(* Undo and redo leave whole groups in both lists. *)
LEMMA WholeMoved ==
  ASSUME NEW f \in Lists, NEW t \in Lists, Matching(f) # {}, Whole(f), Whole(t)
  PROVE  Whole(Left(f)) /\ Whole(Moved(f) \o t)
<1> DEFINE l == LastItem(f)
           N == Len(f)
           M == Len(t)
           g == Left(f)
           u == Moved(f) \o t
<1>1. First(f) = 1 /\ Count(f, 1, l) % 2 = 0
  BY WholeSegment
<1>2. Moves(f, t, g, u, 1, l)
  BY <1>1, MovedLists
<1> HIDE DEF l, g, u
<1>3. N \in Nat /\ M \in Nat /\ l \in Nat /\ 1 <= l /\ l <= N
  BY <1>2, ItemsOf DEF Moves, Segment, Part
<1>4. l - 1 + 1 = l
  BY SMTT(60), <1>3
<1>5. /\ Len(g) = N - l /\ Len(u) = l + M
      /\ \A k \in 1 .. N - l : g[k] = f[k + l]
      /\ \A k \in 1 .. l : u[k] = f[l - k + 1]
      /\ \A k \in 1 .. M : u[l + k] = t[k]
  BY <1>2, <1>4 DEF Moves, Without, Turned
<1>6. /\ \A k \in 1 .. N : f[k].type \in Filter
      /\ \A k \in 1 .. M : t[k].type \in Filter
      /\ Count(f, 1, N) % 2 = 0 /\ Count(t, 1, M) % 2 = 0
  BY DEF Whole, AllLooked, All
<1> HIDE DEF N, M
<1>7. AllLooked(g)
  <2> SUFFICES ASSUME NEW k \in 1 .. N - l
               PROVE  g[k].type \in Filter
    BY <1>5 DEF AllLooked
  <2>1. k + l \in 1 .. N
    BY SMTT(60), <1>3
  <2> QED BY <1>5, <1>6, <2>1
<1>8. AllLooked(u)
  <2> SUFFICES ASSUME NEW k \in 1 .. l + M
               PROVE  u[k].type \in Filter
    BY <1>5 DEF AllLooked
  <2>1. CASE k <= l
    <3>1. k \in 1 .. l /\ l - k + 1 \in 1 .. N
      BY SMTT(60), <1>3, <2>1
    <3> QED BY <1>5, <1>6, <3>1
  <2>2. CASE ~(k <= l)
    <3>1. k - l \in 1 .. M /\ l + (k - l) = k
      BY SMTT(60), <1>3, <2>2
    <3>2. u[l + (k - l)] = t[k - l]
      BY <1>5, <3>1
    <3> QED BY <1>6, <3>1, <3>2
  <2> QED BY <2>1, <2>2
<1>9. /\ 1 \in Int /\ l \in Int /\ N \in Int /\ M \in Int /\ N - l \in Int
      /\ l + M \in Int /\ l + 1 \in Int
  BY SMTT(60), <1>3
<1>0. /\ N = (N - l) + l /\ l + 1 = 1 + l /\ l + M = M + l
      /\ 1 = (l + 1) - l /\ l = (l + 1) - 1
  BY SMTT(60), <1>3
<1>10. /\ Count(f, 1, l) \in Nat /\ Count(f, l + 1, N) \in Nat
       /\ Count(t, 1, M) \in Nat
  <2>1. \A h, a, b : a \in Int /\ b \in Int => Count(h, a, b) \in Nat
    BY CountIsNat
  <2> QED BY <1>9, <2>1
<1>11. Adds(f, 1, l, N)
  <2>1. Between(1, l, N)
    BY SMTT(60), <1>3 DEF Between
  <2> QED BY <2>1, CountSplit
<1>12. Count(f, l + 1, N) % 2 = 0
  <2> DEFINE x == Count(f, 1, l)
             y == Count(f, l + 1, N)
             z == Count(f, 1, N)
  <2>1. x \in Nat /\ y \in Nat /\ z = x + y /\ x % 2 = 0 /\ z % 2 = 0
    BY <1>1, <1>6, <1>10, <1>11 DEF Adds
  <2> HIDE DEF x, y, z
  <2>2. y % 2 = 0
    BY SMTT(60), <2>1
  <2> QED BY <2>2 DEF y
<1>13. Count(g, 1, N - l) = Count(f, l + 1, N)
  <2>1. Along(g, 1, N - l, f, l + 1, N, l)
    BY <1>0, <1>5, <1>9 DEF Along
  <2>2. Same(g, 1, N - l, f, l + 1, N)
    BY <2>1, CountShifted
  <2> QED BY <2>2 DEF Same
<1>14. Adds(u, 1, l, l + M)
  <2>1. Between(1, l, l + M)
    BY SMTT(60), <1>3 DEF Between
  <2> QED BY <2>1, CountSplit
<1>15. Count(u, 1, l) = Count(f, 1, l)
  <2>1. Round(u, 1, l, f, 1, l, l + 1)
    <3>1. \A i \in 1 .. l : (l + 1) - i = l - i + 1
      BY SMTT(60), <1>3
    <3> QED BY <1>0, <1>5, <1>9, <3>1 DEF Round
  <2>2. Same(u, 1, l, f, 1, l)
    BY <2>1, CountTurned
  <2> QED BY <2>2 DEF Same
<1>16. Count(u, l + 1, l + M) = Count(t, 1, M)
  <2>1. Along(t, 1, M, u, l + 1, l + M, l)
    <3>1. \A i \in 1 .. M : i + l = l + i
      BY SMTT(60), <1>3
    <3> QED BY <1>0, <1>5, <1>9, <3>1 DEF Along
  <2>2. Same(t, 1, M, u, l + 1, l + M)
    BY <2>1, CountShifted
  <2> QED BY <2>2 DEF Same
<1>17. Count(u, 1, l + M) % 2 = 0
  <2> DEFINE x == Count(f, 1, l)
             y == Count(t, 1, M)
             z == Count(u, 1, l + M)
  <2>1. x \in Nat /\ y \in Nat /\ z = x + y /\ x % 2 = 0 /\ y % 2 = 0
    BY <1>1, <1>6, <1>10, <1>14, <1>15, <1>16 DEF Adds
  <2> HIDE DEF x, y, z
  <2>2. z % 2 = 0
    BY SMTT(60), <2>1
  <2> QED BY <2>2 DEF z
<1>18. Whole(g) /\ Whole(u)
  BY <1>5, <1>7, <1>8, <1>12, <1>13, <1>17 DEF Whole, All
<1> QED BY <1>18 DEF g, u

(* Recording counts a marker. *)
LEMMA CountRecorded ==
  ASSUME NEW f \in Lists, NEW e \in Items, e.type \in Filter, AllLooked(f)
  PROVE  /\ AllLooked(<<e>> \o f) /\ All(f) \in Nat
         /\ All(<<e>> \o f) = All(f) + IF e.is_group THEN 1 ELSE 0
<1> DEFINE N == Len(f)
           r == <<e>> \o f
<1>1. Put(r, e, f)
  BY Recorded
<1> HIDE DEF r
<1>2. /\ N \in Nat /\ Len(r) = N + 1 /\ r[1] = e
      /\ \A k \in 1 .. N : r[k + 1] = f[k]
  BY <1>1, ItemsOf DEF Put
<1>3. \A k \in 1 .. N : f[k].type \in Filter
  BY DEF AllLooked
<1> HIDE DEF N
<1>4. AllLooked(r)
  <2> SUFFICES ASSUME NEW k \in 1 .. N + 1
               PROVE  r[k].type \in Filter
    BY <1>2 DEF AllLooked
  <2>1. CASE k = 1
    BY <1>2, <2>1
  <2>2. CASE k # 1
    <3>1. k - 1 \in 1 .. N /\ (k - 1) + 1 = k
      BY SMTT(60), <1>2, <2>2
    <3>2. r[(k - 1) + 1] = f[k - 1]
      BY <1>2, <3>1
    <3> QED BY <1>3, <3>1, <3>2
  <2> QED BY <2>1, <2>2
<1>5. 1 \in Int /\ N \in Int /\ N + 1 \in Int
  BY SMTT(60), <1>2
<1>6. Count(r, 1, N + 1) = Count(r, 1, 1) + Count(r, 1 + 1, N + 1)
  <2>1. Between(1, 1, N + 1)
    BY SMTT(60), <1>2 DEF Between
  <2>2. Adds(r, 1, 1, N + 1)
    BY <2>1, CountSplit
  <2> QED BY <2>2 DEF Adds
<1>7. Count(r, 1, 1) = IF e.is_group THEN 1 ELSE 0
  BY <1>2, <1>5, CountOne
<1>8. Count(f, 1, N) = Count(r, 1 + 1, N + 1)
  <2>1. Along(f, 1, N, r, 1 + 1, N + 1, 1)
    BY <1>2, <1>5 DEF Along
  <2>2. Same(f, 1, N, r, 1 + 1, N + 1)
    BY <2>1, CountShifted
  <2> QED BY <2>2 DEF Same
<1>9. Count(f, 1, N) \in Nat
  BY <1>5, CountIsNat
<1> DEFINE x == Count(f, 1, N)
           y == Count(r, 1, N + 1)
           z == IF e.is_group THEN 1 ELSE 0
<1>10. y = z + x /\ x \in Nat /\ z \in Nat
  BY SMTT(60), <1>6, <1>7, <1>8, <1>9
<1> HIDE DEF x, y, z
<1>11. y = x + z
  BY SMTT(60), <1>10
<1>12. AllLooked(r) /\ All(f) \in Nat /\ All(r) = All(f) + z
  BY <1>2, <1>4, <1>10, <1>11 DEF All, x, y, N
<1> QED BY <1>12 DEF r, z

-----------------------------------------------------------------------------
(* The groups that are open, and how many they are. *)
Open(d) == {x \in Threads \X Nat : x[2] < d[x[1]]}
Tally(d, n) ==
  d \in [Threads -> Nat] /\ IsFiniteSet(Open(d)) /\ Cardinality(Open(d)) = n

Even(f) == All(f) % 2 = 0

(* Between calls a group is open when its first marker is in the undo list  *)
(* and its last one is not, and group_indent counts what is open.           *)
Steady(u, g, n) == (g = None <=> n = 0) /\ (Even(u) <=> g = None)

(* A recorded item is a change, or the first or the last marker of a group. *)
Due(item, ends, u, g, n) ==
  /\ item.type \in Types
  /\ \/ ~item.is_group /\ ~ends /\ Steady(u, g, n)
     \/ item.is_group /\ ~ends /\ g # None /\ n # 0 /\ Even(u)
     \/ item.is_group /\ ends /\ g # None /\ n = 0 /\ ~Even(u)

(* What a thread that is alone in the undo module sees. *)
Sound(p, l, d, u, g, n) ==
  /\ p \notin Pending => Steady(u, g, n)
  /\ p = "start" => /\ l.group = g /\ l.indent = n
                    /\ l.item.is_group /\ l.item.type \in Types
  /\ p = "end" => l.indent = n /\ d > 0
  /\ p \in Pending => Due(l.item, l.ends, u, g, n)

PState ==
  /\ ~Races
  /\ locked => \E t \in Threads : pc[t] \in Holding
  /\ AllLooked(undo_list) /\ AllLooked(redo_list) /\ Even(redo_list)
  /\ Tally(depth, group_indent)
  /\ \A t \in Threads : loc[t].ends => pc[t] \in Pending
  /\ \A t \in Threads :
       Alone(t) => Sound(pc[t], loc[t], depth[t], undo_list, group, group_indent)
PInv == UTypeOK /\ (~raced => PState)

(* Opening a group counts one more. *)
LEMMA TallyMore ==
  ASSUME NEW d, NEW n, Tally(d, n), NEW t \in Threads
  PROVE  n \in Nat /\ Tally([d EXCEPT ![t] = @ + 1], n + 1)
<1> DEFINE e == [d EXCEPT ![t] = @ + 1]
           x == <<t, d[t]>>
<1>1. d \in [Threads -> Nat] /\ IsFiniteSet(Open(d)) /\ Cardinality(Open(d)) = n
  BY DEF Tally
<1>2. d[t] \in Nat /\ d[t] + 1 \in Nat /\ ~(d[t] < d[t])
      /\ \A k \in Nat : k < d[t] + 1 <=> k < d[t] \/ k = d[t]
  BY SMTT(60), <1>1
<1>3. e \in [Threads -> Nat] /\ e[t] = d[t] + 1
      /\ \A u \in Threads : u # t => e[u] = d[u]
  BY <1>1, <1>2
<1>4. x \notin Open(d)
  BY <1>2 DEF Open
<1> HIDE DEF e
<1>5. ASSUME NEW u \in Threads, NEW k \in Nat
      PROVE  <<u, k>> \in Open(e) <=> <<u, k>> \in Open(d) \/ <<u, k>> = x
  <2>1. k < e[u] <=> k < d[u] \/ (u = t /\ k = d[t])
    BY <1>2, <1>3
  <2>2. <<u, k>> = x <=> u = t /\ k = d[t]
    BY SMTT(60)
  <2>3. \A f : <<u, k>> \in Open(f) <=> k < f[u]
    BY DEF Open
  <2> HIDE DEF x
  <2> QED BY <2>1, <2>2, <2>3
<1>6. x \in Threads \X Nat
  BY <1>2
<1>7. Open(e) = Open(d) \cup {x}
  <2>1. Open(e) \subseteq Threads \X Nat /\ Open(d) \subseteq Threads \X Nat
    BY DEF Open
  <2>2. ASSUME NEW y \in Threads \X Nat
        PROVE  y \in Open(e) <=> y \in Open(d) \/ y = x
    <3>1. PICK u \in Threads, k \in Nat : y = <<u, k>>
      BY SMTT(60)
    <3> HIDE DEF x
    <3> QED BY <1>5, <3>1
  <2> HIDE DEF x
  <2> QED BY <1>6, <2>1, <2>2
<1> HIDE DEF x
<1>8. IsFiniteSet(Open(e)) /\ Cardinality(Open(e)) = Cardinality(Open(d)) + 1
  BY <1>1, <1>4, <1>7, FS_AddElement
<1>9. n \in Nat
  BY <1>1, FS_CardinalityType
<1> QED BY <1>1, <1>3, <1>8, <1>9 DEF Tally, e

(* Closing one counts one less. *)
LEMMA TallyLess ==
  ASSUME NEW d, NEW n, Tally(d, n), NEW t \in Threads, d[t] > 0
  PROVE  n \in Nat /\ n # 0 /\ Tally([d EXCEPT ![t] = @ - 1], n - 1)
<1> DEFINE e == [d EXCEPT ![t] = @ - 1]
           x == <<t, d[t] - 1>>
<1>1. d \in [Threads -> Nat] /\ IsFiniteSet(Open(d)) /\ Cardinality(Open(d)) = n
  BY DEF Tally
<1>2. d[t] \in Nat /\ d[t] - 1 \in Nat /\ d[t] - 1 < d[t]
      /\ \A k \in Nat : k < d[t] - 1 <=> k < d[t] /\ k # d[t] - 1
  BY SMTT(60), <1>1
<1>3. e \in [Threads -> Nat] /\ e[t] = d[t] - 1
      /\ \A u \in Threads : u # t => e[u] = d[u]
  BY <1>1, <1>2
<1>4. x \in Open(d)
  BY <1>2 DEF Open
<1> HIDE DEF e
<1>5. ASSUME NEW u \in Threads, NEW k \in Nat
      PROVE  <<u, k>> \in Open(e) <=> <<u, k>> \in Open(d) /\ <<u, k>> # x
  <2>1. k < e[u] <=> k < d[u] /\ ~(u = t /\ k = d[t] - 1)
    BY <1>2, <1>3
  <2>2. <<u, k>> = x <=> u = t /\ k = d[t] - 1
    BY SMTT(60)
  <2>3. \A f : <<u, k>> \in Open(f) <=> k < f[u]
    BY DEF Open
  <2> HIDE DEF x
  <2> QED BY <2>1, <2>2, <2>3
<1>7. Open(e) = Open(d) \ {x}
  <2>1. Open(e) \subseteq Threads \X Nat /\ Open(d) \subseteq Threads \X Nat
    BY DEF Open
  <2>2. ASSUME NEW y \in Threads \X Nat
        PROVE  y \in Open(e) <=> y \in Open(d) /\ y # x
    <3>1. PICK u \in Threads, k \in Nat : y = <<u, k>>
      BY SMTT(60)
    <3> HIDE DEF x
    <3> QED BY <1>5, <3>1
  <2> HIDE DEF x
  <2> QED BY <2>1, <2>2
<1> HIDE DEF x
<1>8. IsFiniteSet(Open(e)) /\ Cardinality(Open(e)) = Cardinality(Open(d)) - 1
  BY <1>1, <1>4, <1>7, FS_RemoveElement
<1>9. n \in Nat /\ n # 0
  BY <1>1, <1>4, FS_CardinalityType, FS_EmptySet
<1> QED BY <1>1, <1>3, <1>8, <1>9 DEF Tally, e

(* None is counted when none is open. *)
LEMMA TallyNone ==
  ASSUME NEW d, NEW n, Tally(d, n)
  PROVE  n = 0 <=> \A t \in Threads : d[t] = 0
<1>1. d \in [Threads -> Nat] /\ IsFiniteSet(Open(d)) /\ Cardinality(Open(d)) = n
  BY DEF Tally
<1>2. n = 0 <=> Open(d) = {}
  BY <1>1, FS_EmptySet
<1>3. \A t \in Threads : d[t] \in Nat
  BY <1>1
<1>4. \A m \in Nat : 0 \in Nat /\ (m # 0 => 0 < m) /\ (\A k \in Nat : k < m => m # 0)
  BY SMTT(60)
<1>5. ASSUME NEW t \in Threads, d[t] # 0
      PROVE  Open(d) # {}
  <2>1. <<t, 0>> \in Open(d)
    BY <1>3, <1>4, <1>5 DEF Open
  <2> QED BY <2>1
<1>6. ASSUME \A t \in Threads : d[t] = 0
      PROVE  Open(d) = {}
  <2> SUFFICES ASSUME NEW x \in Open(d)
               PROVE  FALSE
    OBVIOUS
  <2>1. x[1] \in Threads /\ x[2] \in Nat /\ x[2] < d[x[1]]
    BY SMTT(60) DEF Open
  <2>2. d[x[1]] # 0
    BY <1>3, <1>4, <2>1
  <2> QED BY <1>6, <2>1, <2>2
<1> QED BY <1>2, <1>5, <1>6

-----------------------------------------------------------------------------
(* Without races the calls follow one another. *)
LEMMA SerialCalls ==
  ASSUME ~Races
  PROVE  Serial
BY DEF Races, Serial

(* And so they do after a step without a race. *)
LEMMA SerialCallsAfter ==
  ASSUME ~Races'
  PROVE  Serial'
BY DEF Races, Serial

(* What has to be shown of a step of the thread t to l. *)
Passes(t, l) ==
  /\ Goto(t, l) /\ (pc[t] # "idle" \/ l # "idle")
  /\ \A u \in Threads : u # t => loc'[u] = loc[u]
  /\ loc'[t].ends => l \in Pending
  /\ locked' => l \in Holding \/ (locked /\ pc[t] \notin Holding)
  /\ AllLooked(undo_list') /\ AllLooked(redo_list') /\ Even(redo_list')
  /\ Tally(depth', group_indent')
  /\ Sound(l, loc'[t], depth'[t], undo_list', group', group_indent')

(* It is enough to look at the thread that takes the step. *)
LEMMA PassesStep ==
  ASSUME UTypeOK, PState, ~Races', NEW t \in Threads, NEW l, Passes(t, l)
  PROVE  PState'
<1>1. /\ Goto(t, l) /\ (pc[t] # "idle" \/ l # "idle")
      /\ \A u \in Threads : u # t => loc'[u] = loc[u]
      /\ loc'[t].ends => l \in Pending
      /\ locked' => l \in Holding \/ (locked /\ pc[t] \notin Holding)
      /\ Sound(l, loc'[t], depth'[t], undo_list', group', group_indent')
  BY DEF Passes
<1>2. Serial /\ Serial' /\ pc \in [Threads -> Pcs]
  BY SerialCalls, SerialCallsAfter DEF PState, UTypeOK
<1>3. Alone(t) /\ Alone(t)' /\ pc'[t] = l
  BY <1>1, <1>2, AloneStep
<1>4. locked' => \E u \in Threads : pc'[u] \in Holding
  <2>1. CASE l \in Holding
    BY <1>3, <2>1
  <2>2. CASE locked /\ pc[t] \notin Holding
    <3>1. PICK u \in Threads : pc[u] \in Holding
      BY <2>2 DEF PState
    <3>2. pc'[u] = pc[u]
      BY <1>1, <1>2, <2>2, <3>1 DEF Goto
    <3> QED BY <3>1, <3>2
  <2> QED BY <1>1, <2>1, <2>2
<1>5. ASSUME NEW u \in Threads, loc'[u].ends
      PROVE  pc'[u] \in Pending
  <2>1. CASE u = t
    BY <1>1, <1>3, <1>5, <2>1
  <2>2. CASE u # t
    <3>1. pc'[u] = pc[u] /\ loc'[u] = loc[u]
      BY <1>1, <1>2, <2>2 DEF Goto
    <3> QED BY <1>5, <3>1 DEF PState
  <2> QED BY <2>1, <2>2
<1>6. ASSUME NEW w \in Threads, Alone(w)'
      PROVE  Sound(pc'[w], loc'[w], depth'[w], undo_list', group', group_indent')
  <2>1. CASE w = t
    BY <1>1, <1>3, <2>1
  <2>2. CASE w # t
    <3>1. l = "idle" /\ pc'[w] = "idle"
      BY <1>3, <1>6, <2>2 DEF Alone
    <3>2. "idle" \notin Pending /\ "idle" # "start" /\ "idle" # "end"
      BY DEF Pending
    <3>3. Steady(undo_list', group', group_indent')
      BY <1>1, <3>1, <3>2 DEF Sound
    <3> QED BY <3>1, <3>2, <3>3 DEF Sound
  <2> QED BY <2>1, <2>2
<1>7. /\ AllLooked(undo_list') /\ AllLooked(redo_list') /\ Even(redo_list')
      /\ Tally(depth', group_indent')
  BY DEF Passes
<1> QED BY <1>4, <1>5, <1>6, <1>7 DEF PState

(* What is known of the thread that takes a step. *)
LEMMA SoundNow ==
  ASSUME UTypeOK, PState, ~Races', NEW t \in Threads, NEW l, Goto(t, l),
         pc[t] # "idle" \/ l # "idle"
  PROVE  Sound(pc[t], loc[t], depth[t], undo_list, group, group_indent)
<1>1. Serial /\ Serial' /\ pc \in [Threads -> Pcs]
  BY SerialCalls, SerialCallsAfter DEF PState, UTypeOK
<1>2. Alone(t)
  BY <1>1, AloneStep
<1> QED BY <1>2 DEF PState

(* There is no marker in an empty list. *)
LEMMA EmptyWhole == AllLooked(<<>>) /\ Even(<<>>) /\ Whole(<<>>)
<1>1. \A k \in 1 .. Len(<<>>) : FALSE
  BY SMTT(60)
<1>2. All(<<>>) = 0
  BY <1>1, CountNone DEF All
<1>3. 0 % 2 = 0
  BY SMTT(60)
<1> QED BY <1>1, <1>2, <1>3 DEF AllLooked, Even, Whole

(* What a marker is. *)
LEMMA MarkerFields ==
  ASSUME NEW type
  PROVE  Marker(type).is_group /\ Marker(type).type = type
BY SMTT(60) DEF Marker, Item

(* A step that keeps to the rules keeps groups whole. *)
LEMMA PStateStep ==
  ASSUME Filter = Types, UTypeOK, PState, UNext, ~Races'
  PROVE  PState'
<1> USE DEF listVars, groupVars
<1>1. /\ undo_list \in Lists /\ redo_list \in Lists /\ now \in Nat
      /\ pc \in [Threads -> Pcs] /\ loc \in [Threads -> Locals]
      /\ group \in Types \cup {None} /\ group_indent \in Int
  BY DEF UTypeOK
<1>2. /\ AllLooked(undo_list) /\ AllLooked(redo_list) /\ Even(redo_list)
      /\ Tally(depth, group_indent)
      /\ \A t \in Threads : loc[t].ends => pc[t] \in Pending
      /\ locked => \E t \in Threads : pc[t] \in Holding
  BY DEF PState
<1>3. /\ {"idle", "start", "end", "undo", "redo", "clear"} \cap Pending = {}
      /\ {"record", "lock", "insert"} = Pending
      /\ {"idle", "start", "end", "record", "lock"} \cap Holding = {}
      /\ {"insert", "undo", "redo", "clear"} = Holding
  BY DEF Pending, Holding
<1>4. ASSUME NEW t \in Threads
      PROVE  loc[t] \in Locals /\ loc[t].item \in Items
  <2>1. loc[t] \in Locals
    BY <1>1
  <2> QED BY <2>1 DEF Locals
<1>5. NoLocal.ends = FALSE
  BY SMTT(60) DEF NoLocal, Local
<1>6. ASSUME NEW t \in Threads, NEW type \in Types, StartGroup(t, type)
      PROVE  PState'
  <2>1. /\ pc[t] = "idle" /\ Goto(t, "start")
        /\ undo_list' = undo_list /\ redo_list' = redo_list /\ locked' = locked
        /\ group' = group /\ group_indent' = group_indent /\ depth' = depth
        /\ loc' = [loc EXCEPT ![t] = Local(group, group_indent, Marker(type), FALSE)]
    BY <1>6 DEF StartGroup
  <2>2. Sound("idle", loc[t], depth[t], undo_list, group, group_indent)
    BY <2>1, SoundNow
  <2>3. Steady(undo_list, group, group_indent)
    BY <1>3, <2>2 DEF Sound
  <2>4. /\ loc'[t].group = group /\ loc'[t].indent = group_indent
        /\ loc'[t].item = Marker(type) /\ loc'[t].ends = FALSE
    <3>1. loc'[t] = Local(group, group_indent, Marker(type), FALSE)
      BY <1>1, <2>1
    <3> QED BY SMTT(60), <3>1 DEF Local
  <2>5. Sound("start", loc'[t], depth'[t], undo_list', group', group_indent')
    BY <1>3, <2>1, <2>3, <2>4, MarkerFields DEF Sound
  <2>6. \A u \in Threads : u # t => loc'[u] = loc[u]
    BY <1>1, <2>1
  <2>7. Passes(t, "start")
    BY <1>2, <1>3, <2>1, <2>4, <2>5, <2>6 DEF Passes
  <2> QED BY <2>7, PassesStep
<1>7. ASSUME NEW t \in Threads, NEW type \in Types, NEW v \in Values,
             Change(t, type, v)
      PROVE  PState'
  <2> DEFINE e == Item(type, FALSE, value[type], v)
  <2>1. /\ pc[t] = "idle" /\ Goto(t, "record")
        /\ undo_list' = undo_list /\ redo_list' = redo_list /\ locked' = locked
        /\ group' = group /\ group_indent' = group_indent /\ depth' = depth
        /\ loc' = [loc EXCEPT ![t].item = e]
    BY <1>7 DEF Change
  <2>2. Sound("idle", loc[t], depth[t], undo_list, group, group_indent)
    BY <2>1, SoundNow
  <2>3. Steady(undo_list, group, group_indent) /\ ~loc[t].ends
    BY <1>2, <1>3, <2>1, <2>2 DEF Sound
  <2>4. e.type = type /\ e.is_group = FALSE
    BY SMTT(60) DEF Item
  <2> HIDE DEF e
  <2>5. loc'[t].item = e /\ loc'[t].ends = loc[t].ends
    <3>1. loc'[t] = [loc[t] EXCEPT !.item = e]
      BY <1>1, <2>1
    <3>2. loc[t] \in Locals
      BY <1>4
    <3> HIDE DEF Items
    <3> QED BY SMTT(60), <3>1, <3>2 DEF Locals
  <2>6. Due(e, FALSE, undo_list, group, group_indent)
    BY <2>3, <2>4 DEF Due
  <2>7. Sound("record", loc'[t], depth'[t], undo_list', group', group_indent')
    <3>1. Due(loc'[t].item, loc'[t].ends, undo_list', group', group_indent')
      BY <2>1, <2>3, <2>4, <2>5 DEF Due
    <3> QED BY <1>3, <3>1 DEF Sound
  <2>8. \A u \in Threads : u # t => loc'[u] = loc[u]
    BY <1>1, <2>1
  <2>9. Passes(t, "record")
    BY <1>2, <1>3, <2>1, <2>3, <2>5, <2>7, <2>8 DEF Passes
  <2> QED BY <2>9, PassesStep
<1>8. ASSUME NEW t \in Threads, StartedGroup(t)
      PROVE  PState'
  <2>1. /\ pc[t] = "start" /\ locked' = locked /\ undo_list' = undo_list
        /\ redo_list' = redo_list /\ depth' = [depth EXCEPT ![t] = @ + 1]
    BY <1>8 DEF StartedGroup
  <2>2. PICK l : Goto(t, l)
    BY <1>8 DEF StartedGroup
  <2>3. Sound("start", loc[t], depth[t], undo_list, group, group_indent)
    <3>1. pc[t] # "idle"
      BY <2>1
    <3> QED BY <2>1, <2>2, <3>1, SoundNow
  <2>4. /\ Steady(undo_list, group, group_indent) /\ ~loc[t].ends
        /\ loc[t].group = group /\ loc[t].indent = group_indent
        /\ loc[t].item.is_group /\ loc[t].item.type \in Types
    BY <1>2, <1>3, <2>1, <2>3 DEF Sound
  <2>5. group_indent \in Nat /\ Tally(depth', group_indent + 1)
    BY <1>2, <2>1, TallyMore
  <2>6. 0 + 1 = 1 /\ group_indent + 1 # 0 /\ 1 # 0
    BY SMTT(60), <2>5
  <2>7. CASE loc[t].group = None
    <3>1. /\ Goto(t, "record") /\ loc' = loc /\ group' = loc[t].item.type
          /\ group_indent' = 1
      BY <1>8, <2>7 DEF StartedGroup
    <3>2. group_indent = 0 /\ Even(undo_list)
      BY <2>4, <2>7 DEF Steady
    <3>3. Tally(depth', group_indent')
      BY <2>5, <2>6, <3>1, <3>2
    <3>4. group' # None
      BY <2>4, <3>1, UndoAssumption
    <3>5. Due(loc'[t].item, loc'[t].ends, undo_list', group', group_indent')
      BY <2>1, <2>4, <2>6, <3>1, <3>2, <3>4 DEF Due
    <3>6. Sound("record", loc'[t], depth'[t], undo_list', group', group_indent')
      BY <1>3, <3>5 DEF Sound
    <3>7. Passes(t, "record")
      BY <1>2, <1>3, <2>1, <2>4, <3>1, <3>3, <3>6 DEF Passes
    <3> QED BY <3>7, PassesStep
  <2>8. CASE loc[t].group # None
    <3>1. /\ Goto(t, "idle") /\ loc' = [loc EXCEPT ![t] = NoLocal] /\ group' = group
          /\ group_indent' = group_indent + 1
      BY <1>8, <2>4, <2>8 DEF StartedGroup
    <3>2. Steady(undo_list', group', group_indent')
      BY <2>1, <2>4, <2>6, <2>8, <3>1 DEF Steady
    <3>3. Sound("idle", loc'[t], depth'[t], undo_list', group', group_indent')
      BY <1>3, <3>2 DEF Sound
    <3>4. loc'[t] = NoLocal /\ \A u \in Threads : u # t => loc'[u] = loc[u]
      BY <1>1, <3>1
    <3>5. Tally(depth', group_indent')
      BY <2>5, <3>1
    <3>6. Passes(t, "idle")
      BY <1>2, <1>3, <1>5, <2>1, <3>1, <3>3, <3>4, <3>5 DEF Passes
    <3> QED BY <3>6, PassesStep
  <2> QED BY <2>7, <2>8
<1>9. ASSUME NEW t \in Threads, EndGroup(t)
      PROVE  PState'
  <2>1. /\ pc[t] = "idle" /\ Goto(t, "end") /\ depth[t] > 0
        /\ undo_list' = undo_list /\ redo_list' = redo_list /\ locked' = locked
        /\ group' = group /\ group_indent' = group_indent /\ depth' = depth
        /\ loc' = [loc EXCEPT ![t].indent = group_indent]
    BY <1>9 DEF EndGroup
  <2>2. Sound("idle", loc[t], depth[t], undo_list, group, group_indent)
    BY <2>1, SoundNow
  <2>3. Steady(undo_list, group, group_indent) /\ ~loc[t].ends
    BY <1>2, <1>3, <2>1, <2>2 DEF Sound
  <2>4. loc'[t].indent = group_indent /\ loc'[t].ends = loc[t].ends
    <3>1. loc'[t] = [loc[t] EXCEPT !.indent = group_indent]
      BY <1>1, <2>1
    <3>2. loc[t] \in Locals
      BY <1>4
    <3> HIDE DEF Items
    <3> QED BY SMTT(60), <3>1, <3>2 DEF Locals
  <2>5. Sound("end", loc'[t], depth'[t], undo_list', group', group_indent')
    BY <1>3, <2>1, <2>3, <2>4 DEF Sound
  <2>6. \A u \in Threads : u # t => loc'[u] = loc[u]
    BY <1>1, <2>1
  <2>7. Passes(t, "end")
    BY <1>2, <1>3, <2>1, <2>3, <2>4, <2>5, <2>6 DEF Passes
  <2> QED BY <2>7, PassesStep
<1>10. ASSUME NEW t \in Threads, EndedGroup(t)
       PROVE  PState'
  <2>1. /\ pc[t] = "end" /\ locked' = locked /\ undo_list' = undo_list
        /\ redo_list' = redo_list /\ depth' = [depth EXCEPT ![t] = @ - 1]
        /\ group' = group /\ group_indent' = loc[t].indent - 1
    BY <1>10 DEF EndedGroup
  <2>2. PICK l : Goto(t, l)
    BY <1>10 DEF EndedGroup
  <2>3. Sound("end", loc[t], depth[t], undo_list, group, group_indent)
    <3>1. pc[t] # "idle"
      BY <2>1
    <3> QED BY <2>1, <2>2, <3>1, SoundNow
  <2>4. /\ Steady(undo_list, group, group_indent)
        /\ loc[t].indent = group_indent /\ depth[t] > 0
    BY <1>3, <2>3 DEF Sound
  <2>5. group_indent \in Nat /\ group_indent # 0 /\ Tally(depth', group_indent - 1)
    BY <1>2, <2>1, <2>4, TallyLess
  <2>6. group # None /\ ~Even(undo_list)
    BY <2>4, <2>5 DEF Steady
  <2>7. Tally(depth', group_indent')
    BY <2>1, <2>4, <2>5
  <2>8. CASE loc[t].indent = 1
    <3>1. /\ Goto(t, "record")
          /\ loc' = [loc EXCEPT ![t] = Local(None, 0, Marker(group), TRUE)]
      BY <1>10, <2>8 DEF EndedGroup
    <3>2. group_indent' = 0
      BY SMTT(60), <2>1, <2>8
    <3>3. loc'[t].item = Marker(group) /\ loc'[t].ends = TRUE
      <4>1. loc'[t] = Local(None, 0, Marker(group), TRUE)
        BY <1>1, <3>1
      <4> QED BY SMTT(60), <4>1 DEF Local
    <3>4. group \in Types
      BY <1>1, <2>6
    <3>5. Due(loc'[t].item, loc'[t].ends, undo_list', group', group_indent')
      BY <2>1, <2>6, <3>2, <3>3, <3>4, MarkerFields DEF Due
    <3>6. Sound("record", loc'[t], depth'[t], undo_list', group', group_indent')
      BY <1>3, <3>5 DEF Sound
    <3>7. \A u \in Threads : u # t => loc'[u] = loc[u]
      BY <1>1, <3>1
    <3>8. Passes(t, "record")
      BY <1>2, <1>3, <2>1, <2>7, <3>1, <3>6, <3>7 DEF Passes
    <3> QED BY <3>8, PassesStep
  <2>9. CASE loc[t].indent # 1
    <3>1. Goto(t, "idle") /\ loc' = [loc EXCEPT ![t] = NoLocal]
      BY <1>10, <2>9 DEF EndedGroup
    <3>2. group_indent' # 0
      BY SMTT(60), <2>1, <2>4, <2>5, <2>9
    <3>3. Steady(undo_list', group', group_indent')
      BY <2>1, <2>6, <3>2 DEF Steady
    <3>4. Sound("idle", loc'[t], depth'[t], undo_list', group', group_indent')
      BY <1>3, <3>3 DEF Sound
    <3>5. loc'[t] = NoLocal /\ \A u \in Threads : u # t => loc'[u] = loc[u]
      BY <1>1, <3>1
    <3>6. Passes(t, "idle")
      BY <1>2, <1>3, <1>5, <2>1, <2>7, <3>1, <3>4, <3>5 DEF Passes
    <3> QED BY <3>6, PassesStep
  <2> QED BY <2>8, <2>9
<1>11. ASSUME NEW t \in Threads, RecordAsked(t)
       PROVE  PState'
  <2>1. /\ pc[t] = "record" /\ Goto(t, "lock") /\ loc' = loc
        /\ undo_list' = undo_list /\ redo_list' = redo_list /\ locked' = locked
        /\ group' = group /\ group_indent' = group_indent /\ depth' = depth
    BY <1>11 DEF RecordAsked
  <2>2. Sound("record", loc[t], depth[t], undo_list, group, group_indent)
    BY <2>1, SoundNow
  <2>3. Sound("lock", loc'[t], depth'[t], undo_list', group', group_indent')
    BY <1>3, <2>1, <2>2 DEF Sound
  <2>4. Passes(t, "lock")
    BY <1>2, <1>3, <2>1, <2>3 DEF Passes
  <2> QED BY <2>4, PassesStep
(* nobody else holds the lock *)
<1>12. ASSUME NEW t \in Threads, RecordSkipped(t)
       PROVE  PState'
  <2>1. pc[t] = "record" /\ locked
    BY <1>12 DEF RecordSkipped
  <2>2. PICK u \in Threads : pc[u] \in Holding
    BY <1>2, <2>1
  <2>3. pc[u] # "idle" /\ u # t /\ Serial
    BY <1>3, <2>1, <2>2, SerialCalls DEF PState
  <2> QED BY <2>1, <2>3 DEF Serial
<1>13. ASSUME NEW t \in Threads, RecordLock(t)
       PROVE  PState'
  <2>1. /\ pc[t] = "lock" /\ Goto(t, "insert") /\ loc' = loc
        /\ undo_list' = undo_list /\ redo_list' = redo_list
        /\ group' = group /\ group_indent' = group_indent /\ depth' = depth
    BY <1>13 DEF RecordLock
  <2>2. Sound("lock", loc[t], depth[t], undo_list, group, group_indent)
    BY <2>1, SoundNow
  <2>3. Sound("insert", loc'[t], depth'[t], undo_list', group', group_indent')
    BY <1>3, <2>1, <2>2 DEF Sound
  <2>4. Passes(t, "insert")
    BY <1>2, <1>3, <2>1, <2>3 DEF Passes
  <2> QED BY <2>4, PassesStep
<1>14. ASSUME NEW t \in Threads, Insert(t)
       PROVE  PState'
  <2> DEFINE b == loc[t].item
             e == [loc[t].item EXCEPT !.ts = now]
  <2>1. /\ pc[t] = "insert" /\ Goto(t, "idle") /\ ~locked'
        /\ undo_list' = <<e>> \o undo_list /\ redo_list' = <<>>
        /\ loc' = [loc EXCEPT ![t] = NoLocal]
        /\ group' = IF loc[t].ends THEN None ELSE group
        /\ group_indent' = group_indent /\ depth' = depth
    BY <1>14 DEF Insert, Return
  <2>2. Sound("insert", loc[t], depth[t], undo_list, group, group_indent)
    <3>1. pc[t] # "idle"
      BY <2>1
    <3> QED BY <2>1, <3>1, SoundNow
  <2>3. Due(b, loc[t].ends, undo_list, group, group_indent)
    BY <1>3, <2>2 DEF Sound
  <2>4. e \in Items /\ e.type = b.type /\ e.is_group = b.is_group
    BY <1>1, <1>4, Stamped
  <2> HIDE DEF e, b
  <2>5. e.type \in Filter
    BY <2>3, <2>4 DEF Due
  <2>6. /\ AllLooked(<<e>> \o undo_list) /\ All(undo_list) \in Nat
        /\ All(<<e>> \o undo_list) = All(undo_list) + IF e.is_group THEN 1 ELSE 0
    BY <1>1, <1>2, <2>4, <2>5, CountRecorded
  <2> DEFINE x == All(undo_list)
             y == All(undo_list')
  <2>7. x \in Nat /\ (b.is_group => y = x + 1) /\ (~b.is_group => y = x + 0)
    BY <2>1, <2>4, <2>6
  <2> HIDE DEF x, y
  <2>8. /\ b.is_group => (y % 2 = 0 <=> ~(x % 2 = 0))
        /\ ~b.is_group => (y % 2 = 0 <=> x % 2 = 0)
    BY SMTT(60), <2>7
  <2>9. /\ b.is_group => (Even(undo_list') <=> ~Even(undo_list))
        /\ ~b.is_group => (Even(undo_list') <=> Even(undo_list))
    BY <2>8 DEF Even, x, y
  <2>10. Steady(undo_list', group', group_indent')
    <3>1. CASE ~b.is_group /\ ~loc[t].ends /\ Steady(undo_list, group, group_indent)
      BY <2>1, <2>9, <3>1 DEF Steady
    <3>2. CASE b.is_group /\ ~loc[t].ends /\ group # None /\ group_indent # 0
               /\ Even(undo_list)
      BY <2>1, <2>9, <3>2 DEF Steady
    <3>3. CASE b.is_group /\ loc[t].ends /\ group # None /\ group_indent = 0
               /\ ~Even(undo_list)
      BY <2>1, <2>9, <3>3 DEF Steady
    <3> QED BY <2>3, <3>1, <3>2, <3>3 DEF Due
  <2>11. Sound("idle", loc'[t], depth'[t], undo_list', group', group_indent')
    BY <1>3, <2>10 DEF Sound
  <2>12. loc'[t] = NoLocal /\ \A u \in Threads : u # t => loc'[u] = loc[u]
    BY <1>1, <2>1
  <2>13. Passes(t, "idle")
    <3>1. pc[t] # "idle"
      BY <2>1
    <3> QED BY <1>2, <1>5, <2>1, <2>6, <2>11, <2>12, <3>1, EmptyWhole DEF Passes
  <2> QED BY <2>13, PassesStep
<1>15. Gui \in Threads
  BY UndoAssumption
<1>16. ASSUME NEW l \in {"undo", "redo", "clear"}, Call(Gui, l)
       PROVE  PState'
  <2>1. /\ pc[Gui] = "idle" /\ Goto(Gui, l) /\ loc' = loc
        /\ undo_list' = undo_list /\ redo_list' = redo_list
        /\ group' = group /\ group_indent' = group_indent /\ depth' = depth
    BY <1>16 DEF Call
  <2>2. /\ l \notin Pending /\ l # "idle" /\ l # "start" /\ l # "end"
        /\ l \in Holding /\ "idle" \notin Pending
    BY <1>3, <1>16
  <2>3. Sound("idle", loc[Gui], depth[Gui], undo_list, group, group_indent)
    BY <1>15, <2>1, <2>2, SoundNow
  <2>4. Sound(l, loc'[Gui], depth'[Gui], undo_list', group', group_indent')
    BY <2>1, <2>2, <2>3 DEF Sound
  <2>5. loc'[Gui].ends => l \in Pending
    BY <1>2, <1>15, <2>1, <2>2
  <2>6. Passes(Gui, l)
    BY <1>2, <2>1, <2>2, <2>4, <2>5 DEF Passes
  <2> QED BY <1>15, <2>6, PassesStep
(* undo, redo and clear find no group open *)
<1>17. ASSUME pc[Gui] \in {"undo", "redo", "clear"}, Goto(Gui, "idle"), ~locked',
              Whole(undo_list) /\ Whole(redo_list)
                => Whole(undo_list') /\ Whole(redo_list'),
              group' = group, group_indent' = group_indent, depth' = depth,
              loc' = loc
       PROVE  PState'
  <2>1. pc[Gui] # "idle" /\ pc[Gui] \notin Pending
    BY <1>3, <1>17
  <2>2. Sound(pc[Gui], loc[Gui], depth[Gui], undo_list, group, group_indent)
    BY <1>15, <1>17, <2>1, SoundNow
  <2>3. Steady(undo_list, group, group_indent)
    BY <2>1, <2>2 DEF Sound
  <2>4. group_indent = 0
    <3>1. \A t \in Threads : ~(depth[t] > 0)
      BY <1>17 DEF PState, Races
    <3>2. \A t \in Threads : depth[t] \in Nat
      BY <1>2 DEF Tally
    <3>3. \A n \in Nat : ~(n > 0) => n = 0
      BY SMTT(60)
    <3>4. \A t \in Threads : depth[t] = 0
      BY <3>1, <3>2, <3>3
    <3>5. Tally(depth, group_indent)
      BY <1>2
    <3>6. group_indent = 0 <=> \A t \in Threads : depth[t] = 0
      BY <3>5, TallyNone
    <3> QED BY <3>4, <3>6
  <2>5. group = None /\ Whole(undo_list) /\ Whole(redo_list)
    BY <1>2, <2>3, <2>4 DEF Steady, Whole, Even
  <2>6. Whole(undo_list') /\ Whole(redo_list')
    BY <1>17, <2>5
  <2>7. /\ AllLooked(undo_list') /\ AllLooked(redo_list') /\ Even(redo_list')
        /\ Steady(undo_list', group', group_indent')
    BY <1>17, <2>4, <2>5, <2>6 DEF Steady, Whole, Even
  <2>8. Sound("idle", loc'[Gui], depth'[Gui], undo_list', group', group_indent')
    BY <1>3, <2>7 DEF Sound
  <2>9. loc'[Gui].ends => "idle" \in Pending
    BY <1>2, <1>15, <1>17, <2>1
  <2>10. Passes(Gui, "idle")
    BY <1>2, <1>17, <2>1, <2>7, <2>8, <2>9 DEF Passes
  <2> QED BY <1>15, <2>10, PassesStep
<1>18. CASE UndoEnd(Gui)
  <2>1. /\ pc[Gui] = "undo" /\ Goto(Gui, "idle") /\ ~locked'
        /\ group' = group /\ group_indent' = group_indent /\ depth' = depth
        /\ loc' = loc
    BY <1>18 DEF UndoEnd
  <2>2. ASSUME Whole(undo_list), Whole(redo_list)
        PROVE  Whole(undo_list') /\ Whole(redo_list')
    <3>1. CASE Matching(undo_list) = {}
      BY <1>18, <2>2, <3>1 DEF UndoEnd
    <3>2. CASE Matching(undo_list) # {}
      BY <1>1, <1>18, <2>2, <3>2, WholeMoved DEF UndoEnd
    <3> QED BY <3>1, <3>2
  <2> QED BY <1>17, <2>1, <2>2
<1>19. CASE RedoEnd(Gui)
  <2>1. /\ pc[Gui] = "redo" /\ Goto(Gui, "idle") /\ ~locked'
        /\ group' = group /\ group_indent' = group_indent /\ depth' = depth
        /\ loc' = loc
    BY <1>19 DEF RedoEnd
  <2>2. ASSUME Whole(undo_list), Whole(redo_list)
        PROVE  Whole(undo_list') /\ Whole(redo_list')
    <3>1. CASE Matching(redo_list) = {}
      BY <1>19, <2>2, <3>1 DEF RedoEnd
    <3>2. CASE Matching(redo_list) # {}
      BY <1>1, <1>19, <2>2, <3>2, WholeMoved DEF RedoEnd
    <3> QED BY <3>1, <3>2
  <2> QED BY <1>17, <2>1, <2>2
<1>20. ASSUME NEW filter, ClearEnd(Gui, filter)
       PROVE  PState'
  <2>1. /\ pc[Gui] = "clear" /\ Goto(Gui, "idle") /\ ~locked'
        /\ group' = group /\ group_indent' = group_indent /\ depth' = depth
        /\ loc' = loc /\ undo_list' = <<>> /\ redo_list' = <<>>
    BY <1>20 DEF ClearEnd
  <2>2. Whole(undo_list') /\ Whole(redo_list')
    BY <2>1, EmptyWhole DEF Whole, Even
  <2> QED BY <1>17, <2>1, <2>2
<1>21. CASE Tick
  <2>1. /\ undo_list' = undo_list /\ redo_list' = redo_list /\ pc' = pc /\ loc' = loc
        /\ locked' = locked /\ group' = group /\ group_indent' = group_indent
        /\ depth' = depth
    BY <1>21 DEF Tick
  <2> QED BY <2>1 DEF PState, Alone
<1> QED
  BY <1>6, <1>7, <1>8, <1>9, <1>10, <1>11, <1>12, <1>13, <1>14, <1>16, <1>18,
     <1>19, <1>20, <1>21 DEF UNext

(* For any number of threads, types and items groups stay whole as long as  *)
(* the calls follow one another, nothing is undone in an open group, and    *)
(* undo and redo look for every type: with a filter that leaves a type out  *)
(* a group of two types is cut in two.                                      *)
THEOREM UndoGroupsPaired ==
  ASSUME Filter = Types
  PROVE  RSpec => []SerialGroupsPaired
<1>1. RInit => PInv
  <2> SUFFICES ASSUME RInit
               PROVE  PInv
    OBVIOUS
  <2>1. UTypeOK
    BY TypeInit DEF RInit
  <2>2. /\ undo_list = <<>> /\ redo_list = <<>> /\ group = None /\ group_indent = 0
        /\ \A t \in Threads : pc[t] = "idle" /\ depth[t] = 0 /\ loc[t] = NoLocal
        /\ depth = [t \in Threads |-> 0] /\ locked = FALSE
    BY DEF RInit, UInit
  <2>3. ~Races
    <3>1. ~(0 > 0)
      BY SMTT(60)
    <3> QED BY <2>2, <3>1, UndoAssumption DEF Races
  <2>4. Tally(depth, group_indent)
    <3>1. depth \in [Threads -> Nat]
      <4>1. 0 \in Nat
        BY SMTT(60)
      <4> QED BY <2>2, <4>1
    <3>2. Open(depth) = {}
      <4>1. \A k \in Nat : ~(k < 0)
        BY SMTT(60)
      <4>2. \A x \in Threads \X Nat : x[1] \in Threads /\ x[2] \in Nat
        BY SMTT(60)
      <4> QED BY <2>2, <4>1, <4>2 DEF Open
    <3> QED BY <2>2, <3>1, <3>2, FS_EmptySet DEF Tally
  <2>5. ~NoLocal.ends
    BY SMTT(60) DEF NoLocal, Local
  <2>6. "idle" \notin Pending
    BY DEF Pending
  <2>7. AllLooked(undo_list) /\ AllLooked(redo_list) /\ Even(redo_list) /\ Even(undo_list)
    BY <2>2, EmptyWhole
  <2>8. Steady(undo_list, group, group_indent)
    BY <2>2, <2>7 DEF Steady
  <2>9. \A t \in Threads :
          Sound(pc[t], loc[t], depth[t], undo_list, group, group_indent)
    BY <2>2, <2>6, <2>8 DEF Sound
  <2> QED BY <2>1, <2>2, <2>3, <2>4, <2>5, <2>7, <2>9 DEF PInv, PState
<1>2. PInv /\ [RNext]_<<vars, raced>> => PInv'
  <2> SUFFICES ASSUME PInv, [RNext]_<<vars, raced>>
               PROVE  PInv'
    OBVIOUS
  <2>1. CASE UNCHANGED <<vars, raced>>
    BY <2>1 DEF vars, listVars, groupVars, PInv, PState, UTypeOK, Races, Alone
  <2>2. CASE RNext
    <3>1. UTypeOK'
      BY <2>2, TypeStep DEF PInv, RNext
    <3>2. ASSUME ~raced'
          PROVE  PState'
      <4>1. ~raced /\ ~Races' /\ UNext
        BY <2>2, <3>2 DEF RNext
      <4> QED BY <4>1, PStateStep DEF PInv
    <3> QED BY <3>1, <3>2 DEF PInv
  <2> QED BY <2>1, <2>2
<1>3. PInv => SerialGroupsPaired
  <2> SUFFICES ASSUME PInv, ~raced,
                      \A t \in Threads : pc[t] \notin {"start", "end", "record", "lock", "insert"}
               PROVE  /\ Markers(redo_list) % 2 = 0
                      /\ (Markers(undo_list) % 2 = 0 <=> \A t \in Threads : depth[t] = 0)
    BY DEF SerialGroupsPaired, GroupsPaired
  <2>1. PState /\ Serial
    BY SerialCalls DEF PInv, PState
  <2>2. ASSUME NEW t \in Threads, Alone(t)
        PROVE  Steady(undo_list, group, group_indent)
    BY <2>1, <2>2 DEF PState, Sound, Pending
  <2>3. ASSUME \A t \in Threads : pc[t] = "idle"
        PROVE  Alone(Gui) /\ Gui \in Threads
    BY <2>3, UndoAssumption DEF Alone
  <2>4. ASSUME NEW t \in Threads, pc[t] # "idle"
        PROVE  Alone(t)
    BY <2>1, <2>4 DEF Serial, Alone
  <2>5. Steady(undo_list, group, group_indent)
    BY <2>2, <2>3, <2>4
  <2>6. group_indent = 0 <=> \A t \in Threads : depth[t] = 0
    BY <2>1, TallyNone DEF PState
  <2>7. \A f : Markers(f) = All(f)
    BY DEF Markers, All, Count, MarkersIn
  <2> QED BY <2>1, <2>5, <2>6, <2>7 DEF Steady, Even, PState
<1> QED BY <1>1, <1>2, <1>3, PTL DEF RSpec
=============================================================================
