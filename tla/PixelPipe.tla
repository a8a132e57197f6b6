----------------------------- MODULE PixelPipe -----------------------------
(***************************************************************************)
(* One pixel pipe and its buffer cache: src/develop/pixelpipe_cache.c and   *)
(* its use by dt_dev_pixelpipe_process (src/develop/pixelpipe_hb.c), with   *)
(* the refresh of a module from the GUI thread (src/develop/imageop.c).     *)
(*                                                                         *)
(* A run of the pipe recurses from the last module down to the base buffer, *)
(* then returns upwards: module number pos reads the buffer of pos - 1 and  *)
(* writes a cache line it asked for under the hash of the module stack up   *)
(* to pos.  The hash stands for the stack, so it is the pair of pos and the *)
(* version of the parameters committed to the pipe; the region of interest  *)
(* does not change during a run and is left out, which makes basichash and  *)
(* hash the same value.  The pixels are ghost state: a buffer contains the  *)
(* image of a hash or garbage.                                             *)
(*                                                                         *)
(* Neither the cache nor its users take a lock against the GUI thread, so   *)
(* the loops over the cache lines are split into one step per line.         *)
(***************************************************************************)
EXTENDS Naturals, Integers, FiniteSets, FiniteSetsExt

CONSTANTS
    Entries,      \* number of cache lines of the pipe
    Modules,      \* number of enabled modules of the pipe
    Sizes,        \* bytes needed by the output of each position, base first
    InitSize,     \* bytes the lines are created with, 0 to allocate on demand
    Focus,        \* position of the focused module, 0 when there is none
    Important,    \* position whose output is asked for as important
    Refreshed,    \* positions the GUI thread may refresh
    Buffers,      \* addresses the allocator hands out
    AllocFails,   \* whether an allocation may fail
    MaxVersion,   \* bound on the number of parameter changes
    Raw,          \* address of the input image of the pipe
    NoBuf, NoHash, Garbage

Lines == 0 .. Entries - 1
Positions == 0 .. Modules
Versions == 0 .. MaxVersion
Hashes == Positions \X Versions

ASSUME PipeAssumption ==
    /\ Entries \in Nat \ {0} /\ Modules \in Nat \ {0} /\ MaxVersion \in Nat
    /\ Sizes \in [Positions -> Nat \ {0}]
    /\ InitSize \in Nat
    /\ Focus \in Positions /\ Important \in Positions
    /\ Refreshed \subseteq 1 .. Modules
    /\ AllocFails \in BOOLEAN
    /\ Raw \notin Buffers /\ NoBuf \notin Buffers \cup {Raw}
    /\ {NoHash, Garbage} \cap Hashes = {}

VARIABLES
    data, size, hash, used,   \* the cache lines
    capacity, content,        \* ghost: allocated bytes and pixels of a buffer
    pc, pos,                  \* step and recursion depth of the pipe thread
    input, output,            \* buffers of the module at pos
    scan,                     \* locals of dt_dev_pixelpipe_cache_get_weighted
    err,                      \* result of the recursion
    committed,                \* version of the parameters in the pipe's pieces
    version, changed,         \* version in the history, pipe->changed
    shown,                    \* ghost: what output_backbuf holds
    refresh,                  \* the GUI thread's loop in flush_all_but
    spared,                   \* ghost: the line made important, gets since then
    touched                   \* ghost: a refresh met the current run

cacheVars == <<data, size, hash, used>>
memVars == <<capacity, content>>
runVars == <<pc, pos, input, output, scan, err>>
guiVars == <<version, changed, refresh, touched>>
vars == <<cacheVars, memVars, runVars, guiVars, committed, shown, spared>>

(* dt_dev_pixelpipe_cache_basichash: the base buffer has no module below    *)
(* it, so its hash holds no parameters.                                     *)
HashOf(p) == <<p, IF p = 0 THEN 0 ELSE committed>>
NoScan == [line |-> 0, max |-> 0, maxUsed |-> -1, hit |-> NoBuf, sz |-> 0]
NoRefresh == [line |-> Entries, keep |-> NoHash]
NotSpared == [line |-> 0, gets |-> Entries]

----------------------------------------------------------------------------
(* dt_dev_pixelpipe_cache_init; each line has its own buffer from the start *)
(* when the size is known.                                                  *)
Init ==
    /\ IF InitSize = 0
       THEN data = [k \in Lines |-> NoBuf]
       ELSE data \in {d \in [Lines -> Buffers] :
                        \A j, k \in Lines : j # k => d[j] # d[k]}
    /\ size = [k \in Lines |-> InitSize]
    /\ hash = [k \in Lines |-> NoHash]
    /\ used = [k \in Lines |-> 0]
    /\ capacity = [b \in Buffers |->
                     IF \E k \in Lines : data[k] = b THEN InitSize ELSE 0]
    /\ content = [b \in Buffers \cup {Raw} |->
                     IF b = Raw THEN <<0, 0>> ELSE Garbage]
    /\ pc = "idle" /\ pos = 0 /\ input = NoBuf /\ output = NoBuf
    /\ scan = NoScan /\ err = FALSE
    /\ committed = 0 /\ version = 0 /\ changed = FALSE
    /\ shown = NoHash /\ refresh = NoRefresh /\ spared = NotSpared
    /\ touched = FALSE

----------------------------------------------------------------------------
(* The cache.                                                              *)

Available(h) == \E k \in Lines : hash[k] = h

(* A module of the pipe asks for a line under the weight of its output.     *)
Weight(p) == IF p # 0 /\ p = Important THEN -Entries ELSE 0

\* the comparison of ScanLine with the sense of "older" turned round
ScanLineYoungest ==
    LET k == scan.line
        younger == used[k] < scan.maxUsed \/ scan.maxUsed = -1
    IN  /\ pc = "scan" /\ k < Entries
        /\ scan' = [scan EXCEPT !.line = k + 1,
                                !.max = IF younger THEN k ELSE @,
                                !.maxUsed = IF younger THEN used[k] ELSE @]
        /\ used' = [used EXCEPT ![k] = @ + 1]
        /\ UNCHANGED <<data, size, hash, memVars, pc, pos, input, output, err,
                       guiVars, committed, shown, spared>>

(* One iteration of the loop of dt_dev_pixelpipe_cache_get_weighted: it     *)
(* remembers the first line with the largest age, ages the line, and takes  *)
(* a line with the wanted hash as a hit.                                    *)
ScanLine ==
    LET k == scan.line
        older == used[k] > scan.maxUsed
        found == hash[k] = HashOf(pos)
    IN  /\ pc = "scan" /\ k < Entries
        /\ scan' = [line |-> k + 1,
                    max |-> IF older THEN k ELSE scan.max,
                    maxUsed |-> IF older THEN used[k] ELSE scan.maxUsed,
                    hit |-> IF found THEN data[k] ELSE scan.hit,
                    sz |-> IF found THEN size[k] ELSE scan.sz]
        /\ used' = [used EXCEPT ![k] = IF found THEN Weight(pos) ELSE @ + 1]
        /\ UNCHANGED <<data, size, hash, memVars, pc, pos, input, output, err,
                       guiVars, committed, shown, spared>>

Free == {b \in Buffers : \A k \in Lines : data[k] # b}

(* The address the allocator returns after the line's buffer is freed; it   *)
(* may be the one just freed.                                               *)
Allocated(k) ==
    ((Free \cup {data[k]}) \ {NoBuf}) \cup (IF AllocFails THEN {NoBuf} ELSE {})

\* the line's size is not brought up to date with its new buffer
GrownForgetsSize(k, b) ==
    /\ data' = [data EXCEPT ![k] = b]
    /\ UNCHANGED size
    /\ capacity' = [capacity EXCEPT ![b] = Sizes[pos]]
    /\ content' = [content EXCEPT ![b] = Garbage]

(* The buffer the get leaves in *data, with the buffers' bytes and pixels.  *)
(* An allocation records the new size whether it succeeded or not.          *)
Grown(k, b) ==
    /\ data' = [data EXCEPT ![k] = b]
    /\ size' = [size EXCEPT ![k] = Sizes[pos]]
    /\ capacity' = [c \in Buffers |->
                      IF c = b THEN Sizes[pos]
                      ELSE IF c = data[k] THEN 0 ELSE capacity[c]]
    /\ content' = [c \in Buffers \cup {Raw} |->
                      IF c \in {b, data[k]} \ {Raw} THEN Garbage ELSE content[c]]

\* a line that is too small is handed out as it is
TooSmallInverted(k) == size[k] > Sizes[pos]

TooSmall(k) == size[k] < Sizes[pos]

(* dt_dev_pixelpipe_process_rec returns the buffer b: it is the input of    *)
(* the module one position up, or the result of the run.                    *)
Returned(b) ==
    IF pos = Modules
    THEN pc' = "flush" /\ output' = b /\ UNCHANGED <<pos, input>>
    ELSE pc' = "get" /\ input' = b /\ output' = NoBuf /\ pos' = pos + 1

(* The rest of dt_dev_pixelpipe_cache_get_weighted after the loop.  On a    *)
(* miss the oldest line is resized if need be and renamed, and the base     *)
(* buffer is filled from the input image of the pipe.                       *)
Take ==
    LET k == scan.max
        miss == scan.hit = NoBuf \/ scan.sz < Sizes[pos]
    IN  /\ pc = "scan" /\ scan.line = Entries
        /\ scan' = NoScan
        /\ IF miss
           THEN /\ IF TooSmall(k)
                   THEN \E b \in Allocated(k) : Grown(k, b)
                   ELSE UNCHANGED <<data, size, memVars>>
                /\ hash' = [hash EXCEPT ![k] = HashOf(pos)]
                /\ used' = [used EXCEPT ![k] = Weight(pos)]
                /\ output' = data'[k] /\ pc' = "process"
                /\ UNCHANGED <<pos, input>>
           ELSE /\ Returned(scan.hit)
                /\ UNCHANGED <<cacheVars, memVars>>
        /\ spared' = [spared EXCEPT !.gets = IF @ < Entries THEN @ + 1 ELSE @]
        /\ UNCHANGED <<err, guiVars, committed, shown>>

(* dt_dev_pixelpipe_cache_flush *)
Flushed ==
    /\ hash' = [k \in Lines |-> NoHash]
    /\ used' = [k \in Lines |-> 0]

\* the reweighted line becomes the next victim
ReweightedOldest(b) == [k \in Lines |-> IF data[k] = b THEN Entries ELSE used[k]]

(* dt_dev_pixelpipe_cache_reweight *)
Reweighted(b) == [k \in Lines |-> IF data[k] = b THEN -Entries ELSE used[k]]

----------------------------------------------------------------------------
(* The pipe thread.                                                        *)

(* dt_dev_pixelpipe_change commits the history to the pieces of the pipe    *)
(* and clears pipe->changed; the job does it before a run.                  *)
Start ==
    /\ pc = "idle" /\ (changed \/ shown = NoHash)
    /\ committed' = version /\ changed' = FALSE
    /\ pos' = Modules /\ pc' = "look" /\ err' = FALSE
    /\ touched' = (refresh # NoRefresh)
    /\ UNCHANGED <<cacheVars, memVars, input, output, scan, version, refresh,
                   shown, spared>>

(* The way down of dt_dev_pixelpipe_process_rec: a buffer in the cache is   *)
(* used, a changed pipe ends the run, otherwise the module below is asked.  *)
(* The base is the input image itself when the full buffer is wanted.       *)
Look ==
    /\ pc = "look"
    /\ IF Available(HashOf(pos))
       THEN pc' = "scan" /\ UNCHANGED <<pos, input, output, err>>
       ELSE IF changed
       THEN pc' = "flush" /\ err' = TRUE /\ UNCHANGED <<pos, input, output>>
       ELSE IF pos > 0
       THEN pos' = pos - 1 /\ UNCHANGED <<pc, input, output, err>>
       ELSE /\ \/ pc' = "scan" /\ UNCHANGED <<pos, input, output>>
               \/ Returned(Raw)
            /\ UNCHANGED err
    /\ UNCHANGED <<cacheVars, memVars, scan, guiVars, committed, shown, spared>>

(* The way up: the module at pos asks for its output buffer.                *)
Get ==
    /\ pc = "get" /\ pc' = "scan"
    /\ UNCHANGED <<cacheVars, memVars, pos, input, output, scan, err, guiVars,
                   committed, shown, spared>>

(* The pixels that the module at pos leaves in its output: those of its     *)
(* hash when it read those of the stack below from another buffer.          *)
Rendered ==
    IF pos = 0 THEN HashOf(0)
    ELSE IF input \notin {output, NoBuf} /\ content[input] = HashOf(pos - 1)
    THEN HashOf(pos) ELSE Garbage

(* The base buffer is filled or the module processes its input; then the    *)
(* focused module has its input reweighted and the recursion returns.       *)
Process ==
    /\ pc = "process"
    /\ content' = IF output = NoBuf THEN content
                  ELSE [content EXCEPT ![output] = Rendered]
    /\ IF pos # 0 /\ pos = Focus
       THEN /\ used' = Reweighted(input)
            /\ spared' = IF \E k \in Lines : data[k] = input
                         THEN [line |-> CHOOSE k \in Lines : data[k] = input,
                               gets |-> 0]
                         ELSE spared
       ELSE UNCHANGED <<used, spared>>
    /\ Returned(output)
    /\ UNCHANGED <<data, size, hash, capacity, scan, err, guiVars, committed,
                   shown>>

(* After the recursion dt_dev_pixelpipe_process flushes the cache ...       *)
Flush ==
    /\ pc = "flush" /\ pc' = "publish"
    /\ Flushed /\ spared' = NotSpared
    /\ UNCHANGED <<data, size, memVars, pos, input, output, scan, err, guiVars,
                   committed, shown>>

(* ... commits the history again, and copies the last output to the buffer  *)
(* that the GUI draws, unless the run was interrupted.                      *)
Publish ==
    /\ pc = "publish" /\ pc' = "idle"
    /\ committed' = version /\ changed' = FALSE
    /\ shown' = IF err THEN shown
                ELSE IF output = NoBuf THEN Garbage ELSE content[output]
    /\ pos' = 0 /\ input' = NoBuf /\ output' = NoBuf /\ err' = FALSE
    /\ UNCHANGED <<cacheVars, memVars, scan, version, refresh, touched, spared>>

----------------------------------------------------------------------------
(* The GUI thread.                                                         *)

(* A history item is added or changed. *)
Edit ==
    /\ version < MaxVersion /\ refresh = NoRefresh
    /\ version' = version + 1 /\ changed' = TRUE
    /\ UNCHANGED <<cacheVars, memVars, runVars, refresh, touched, committed,
                   shown, spared>>

(* dt_iop_refresh_center looks up the hash of the module before p ...       *)
Refresh(p) ==
    /\ refresh = NoRefresh /\ p \in Refreshed /\ version < MaxVersion
    /\ refresh' = [line |-> 0, keep |-> IF p = 1 THEN NoHash ELSE HashOf(p - 1)]
    /\ touched' = TRUE
    /\ UNCHANGED <<cacheVars, memVars, runVars, version, changed, committed,
                   shown, spared>>

(* ... and dt_dev_pixelpipe_cache_flush_all_but drops the other lines one   *)
(* by one.                                                                  *)
RefreshLine ==
    LET k == refresh.line
        dropped == hash[k] # refresh.keep
    IN  /\ k < Entries
        /\ hash' = [hash EXCEPT ![k] = IF dropped THEN NoHash ELSE @]
        /\ used' = [used EXCEPT ![k] = IF dropped THEN 0 ELSE @]
        /\ refresh' = IF k + 1 = Entries THEN NoRefresh
                      ELSE [refresh EXCEPT !.line = k + 1]
        /\ changed' = (changed \/ k + 1 = Entries)
        /\ version' = IF k + 1 = Entries THEN version + 1 ELSE version
        /\ UNCHANGED <<data, size, memVars, runVars, touched, committed, shown,
                       spared>>

Next ==
    \/ Start \/ Look \/ Get \/ ScanLine \/ Take \/ Process \/ Flush \/ Publish
    \/ Edit \/ RefreshLine
    \/ \E p \in Refreshed : Refresh(p)

Spec == Init /\ [][Next]_vars

----------------------------------------------------------------------------
Labels == {"idle", "look", "get", "scan", "process", "flush", "publish"}
Addresses == Buffers \cup {Raw, NoBuf}
Scans == [line : 0 .. Entries, max : Lines, maxUsed : Int,
          hit : Buffers \cup {NoBuf}, sz : Nat]
Refreshes == [line : 0 .. Entries, keep : Hashes \cup {NoHash}]

FlagsOK == err \in BOOLEAN /\ changed \in BOOLEAN /\ touched \in BOOLEAN

(* The variables keep their types: the lines of dt_dev_pixelpipe_cache_t,   *)
(* the locals of the recursion and the ghost state.                         *)
PTypeOK ==
    /\ data \in [Lines -> Buffers \cup {NoBuf}]
    /\ size \in [Lines -> Nat]
    /\ hash \in [Lines -> Hashes \cup {NoHash}]
    /\ used \in [Lines -> Int]
    /\ capacity \in [Buffers -> Nat]
    /\ content \in [Buffers \cup {Raw} -> Hashes \cup {Garbage}]
    /\ pc \in Labels /\ pos \in Positions
    /\ input \in Addresses /\ output \in Addresses /\ scan \in Scans
    /\ FlagsOK
    /\ committed \in Versions /\ version \in Versions
    /\ shown \in Hashes \cup {NoHash, Garbage}
    /\ refresh \in Refreshes
    /\ spared \in [line : Lines, gets : 0 .. Entries]

(* When a module of the pipe processes, its input still holds the pixels of *)
(* the stack below it and is not the buffer it writes: "safe for others to  *)
(* mess with the pipe now", once a run is over and not before.              *)
InputIntact ==
    pc = "process" /\ pos > 0 =>
        /\ input \notin {output, NoBuf}
        /\ content[input] = HashOf(pos - 1)

(* The get of an output buffer never takes the line that holds the module's *)
(* input as long as no refresh meets the run, whatever the runs before met  *)
(* and wherever they were interrupted.  Nothing pins the input in           *)
(* pixelpipe_cache.c; only its age protects it.                             *)
AgeProtectsInput == ~touched => InputIntact

(* The buffer a module writes was allocated with the bytes its region       *)
(* needs, whatever sizes the line was used with before.                     *)
OutputFits ==
    pc = "process" => output \in Buffers /\ capacity[output] >= Sizes[pos]

(* No two cache lines own the same buffer, so that resizing one never frees *)
(* the pixels of another, and a line with a buffer knows its size.          *)
LinesOwnBuffers ==
    /\ \A j, k \in Lines : data[j] = data[k] => j = k \/ data[j] = NoBuf
    /\ \A k \in Lines : data[k] # NoBuf => capacity[data[k]] = size[k]

(* "makes this buffer very important after it has been pulled from the      *)
(* cache": the reweighted input of the focused module outlives as many      *)
(* further gets of the run as the cache has lines, unless a refresh meets   *)
(* the run.                                                                 *)
FocusSpared ==
    ~touched /\ spared.gets < Entries =>
        hash[spared.line] = HashOf(Focus - 1)

============================================================================
