----------------------------- MODULE PipeProofs -----------------------------
(***************************************************************************)
(* Proofs about the buffer cache of a pixel pipe, for any number of lines, *)
(* modules, sizes and refreshes by the GUI thread: what every step keeps   *)
(* of who owns which buffer, that a module is given a large enough one,    *)
(* and, from the ages of the lines, that it keeps its input.               *)
(***************************************************************************)
EXTENDS PixelPipe, TLAPS

(* The leaves are for Zenon; those that need more name the SMT solver. *)
USE ZenonT(60)

(* A line that claims bytes has a buffer, unless an allocation failed. *)
ClaimsBacked == AllocFails \/ \A k \in Lines : size[k] > 0 => data[k] # NoBuf

(* The output of the module that is processing is the buffer of a line     *)
(* that claims enough bytes.                                               *)
OutputOwned ==
  pc = "process" => \E k \in Lines : data[k] = output /\ size[k] >= Sizes[pos]

(* A refresh ends with a new version, for which there is room. *)
RefreshCounted == refresh.line < Entries => version < MaxVersion

PInv == PTypeOK /\ RefreshCounted /\ LinesOwnBuffers /\ ClaimsBacked /\ OutputOwned

-----------------------------------------------------------------------------
(* dt_dev_pixelpipe_cache_basichash gives hashes. *)
LEMMA HashOfType ==
  ASSUME PTypeOK, NEW p \in Positions
  PROVE  HashOf(p) \in Hashes
<1>1. 0 \in Versions /\ committed \in Versions
  BY SMTT(60), PipeAssumption DEF PTypeOK, Versions
<1> QED BY <1>1 DEF HashOf, Hashes

(* The return of process_rec keeps the types of the locals it sets. *)
LEMMA ReturnedType ==
  ASSUME PTypeOK, NEW b \in Addresses, Returned(b)
  PROVE  /\ pc' \in {"flush", "get"} /\ pos' \in Positions
         /\ input' \in Addresses /\ output' \in Addresses
BY SMTT(60), PipeAssumption DEF PTypeOK, Returned, Positions, Addresses

(* A step that touches no line and does not go to "process" keeps what is  *)
(* said of the lines.                                                      *)
LEMMA LinesUntouched ==
  ASSUME PInv, UNCHANGED <<data, size, capacity>>,
         pc' # "process" \/ UNCHANGED <<pc, pos, output>>
  PROVE  LinesOwnBuffers' /\ ClaimsBacked' /\ OutputOwned'
BY DEF PInv, LinesOwnBuffers, ClaimsBacked, OutputOwned

-----------------------------------------------------------------------------
(* An empty pipe satisfies the invariant. *)
LEMMA PipeInit == Init => PInv
<1> SUFFICES ASSUME Init PROVE PInv
  OBVIOUS
<1>1. data \in [Lines -> Buffers \cup {NoBuf}]
  BY DEF Init
<1>2. PTypeOK
  <2>1. /\ size \in [Lines -> Nat] /\ hash \in [Lines -> Hashes \cup {NoHash}]
        /\ used \in [Lines -> Int]
    BY SMTT(60), PipeAssumption DEF Init
  <2>2. capacity \in [Buffers -> Nat]
    BY PipeAssumption DEF Init
  <2>3. content \in [Buffers \cup {Raw} -> Hashes \cup {Garbage}]
    <3>1. <<0, 0>> \in Hashes
      BY SMTT(60), PipeAssumption DEF Hashes, Positions, Versions
    <3> QED BY <3>1 DEF Init
  <2>4. /\ scan \in Scans
        /\ refresh \in Refreshes
        /\ spared \in [line : Lines, gets : 0 .. Entries]
    BY SMTT(60), PipeAssumption DEF Init, NoScan, NoRefresh, NotSpared, Lines, Scans, Refreshes
  <2>5. /\ pos \in Positions /\ committed \in Versions /\ version \in Versions
        /\ shown \in Hashes \cup {NoHash, Garbage}
    BY SMTT(60), PipeAssumption DEF Init, Positions, Versions
  <2>6. /\ pc \in Labels
        /\ input \in Addresses /\ output \in Addresses
    BY DEF Init, Labels, Addresses
  <2>7. FlagsOK
    BY DEF Init, FlagsOK
  <2> QED BY <1>1, <2>1, <2>2, <2>3, <2>4, <2>5, <2>6, <2>7 DEF PTypeOK
<1>3. RefreshCounted
  BY SMTT(60), PipeAssumption DEF Init, NoRefresh, RefreshCounted
<1>4. LinesOwnBuffers /\ ClaimsBacked /\ OutputOwned
  <2>1. CASE InitSize = 0
    BY SMTT(60), <2>1, PipeAssumption DEF Init, LinesOwnBuffers, ClaimsBacked, OutputOwned
  <2>2. CASE InitSize # 0
    BY SMTT(60), <2>2, PipeAssumption DEF Init, LinesOwnBuffers, ClaimsBacked, OutputOwned
  <2> QED BY <2>1, <2>2
<1> QED BY <1>2, <1>3, <1>4 DEF PInv
-----------------------------------------------------------------------------
(* The thread of the pipe. *)

(* dt_dev_pixelpipe_process starts at the top module. *)
LEMMA StartKeeps == ASSUME PInv, Start PROVE PInv'
<1>1. LinesOwnBuffers' /\ ClaimsBacked' /\ OutputOwned'
  BY LinesUntouched DEF Start, cacheVars, memVars
<1>2. RefreshCounted'
  BY DEF Start, PInv, RefreshCounted
<1>3. pos' \in Positions /\ committed' \in Versions
  BY SMTT(60), PipeAssumption DEF Start, PInv, PTypeOK, Positions, Versions
<1>4. FlagsOK'
  BY DEF Start, FlagsOK
<1>5. pc' \in Labels
  BY DEF Start, Labels
<1>6. PTypeOK'
  BY <1>3, <1>4, <1>5 DEF Start, PInv, PTypeOK, cacheVars, memVars
<1> QED BY <1>1, <1>2, <1>6 DEF PInv

(* process_rec looks for a cached line and goes down, or returns. *)
LEMMA LookKeeps == ASSUME PInv, Look PROVE PInv'
<1>1. pc' \in {"scan", "flush", "look", "get"}
  BY DEF Look, Returned
<1>2. LinesOwnBuffers' /\ ClaimsBacked' /\ OutputOwned'
  BY <1>1, LinesUntouched DEF Look, cacheVars, memVars
<1>3. RefreshCounted'
  BY DEF Look, guiVars, PInv, RefreshCounted
<1>4. /\ pos' \in Positions /\ input' \in Addresses /\ output' \in Addresses
  BY SMTT(60), ReturnedType, PipeAssumption DEF Look, PInv, PTypeOK, Positions, Addresses
<1>5. pc' \in Labels
  BY <1>1 DEF Labels
<1>6. FlagsOK'
  BY DEF Look, guiVars, PInv, PTypeOK, FlagsOK
<1>7. PTypeOK'
  BY <1>4, <1>5, <1>6 DEF Look, PInv, PTypeOK, cacheVars, memVars, guiVars
<1> QED BY <1>2, <1>3, <1>7 DEF PInv

(* process_rec asks the cache for an output line. *)
LEMMA GetKeeps == ASSUME PInv, Get PROVE PInv'
<1>1. LinesOwnBuffers' /\ ClaimsBacked' /\ OutputOwned'
  BY LinesUntouched DEF Get, cacheVars, memVars
<1>2. RefreshCounted'
  BY DEF Get, guiVars, PInv, RefreshCounted
<1>3. PTypeOK'
  BY DEF Get, PInv, PTypeOK, FlagsOK, Labels, cacheVars, memVars, guiVars
<1> QED BY <1>1, <1>2, <1>3 DEF PInv

(* One turn of the loop of get_weighted, which ages a line. *)
LEMMA ScanLineKeeps == ASSUME PInv, ScanLine PROVE PInv'
<1>1. LinesOwnBuffers' /\ ClaimsBacked' /\ OutputOwned'
  BY LinesUntouched DEF ScanLine, memVars
<1>2. RefreshCounted'
  BY DEF ScanLine, guiVars, PInv, RefreshCounted
<1>3. scan.line \in Lines /\ Weight(pos) \in Int
  BY SMTT(60), PipeAssumption DEF ScanLine, PInv, PTypeOK, Lines, Weight, Scans
<1>4. used' \in [Lines -> Int]
  BY SMTT(60), <1>3 DEF ScanLine, PInv, PTypeOK
<1>5. scan' \in Scans
  <2>1. scan.line + 1 \in 0 .. Entries
    BY SMTT(60), <1>3, PipeAssumption DEF Lines
  <2>2. /\ used[scan.line] \in Int /\ size[scan.line] \in Nat
        /\ data[scan.line] \in Buffers \cup {NoBuf}
    BY <1>3 DEF PInv, PTypeOK
  <2>3. /\ scan.max \in Lines /\ scan.maxUsed \in Int
        /\ scan.hit \in Buffers \cup {NoBuf} /\ scan.sz \in Nat
    BY DEF PInv, PTypeOK, Scans
  <2> QED BY <1>3, <2>1, <2>2, <2>3 DEF ScanLine, Scans
<1>6. FlagsOK'
  BY DEF ScanLine, PInv, PTypeOK, FlagsOK, guiVars
<1>7. PTypeOK'
  BY <1>4, <1>5, <1>6 DEF ScanLine, PInv, PTypeOK, memVars, guiVars
<1> QED BY <1>1, <1>2, <1>7 DEF PInv

(* Take, the part of the get after the loop.  The only step that gives a   *)
(* line another buffer: the new one belongs to no other line.              *)
LEMMA GrownKeeps ==
  ASSUME PInv, NEW k \in Lines, NEW b \in Allocated(k), Grown(k, b)
  PROVE  /\ data' \in [Lines -> Buffers \cup {NoBuf}] /\ size' \in [Lines -> Nat]
         /\ capacity' \in [Buffers -> Nat]
         /\ content' \in [Buffers \cup {Raw} -> Hashes \cup {Garbage}]
         /\ LinesOwnBuffers' /\ ClaimsBacked'
         /\ data'[k] = b /\ size'[k] = Sizes[pos]
<1>1. b \in Buffers \cup {NoBuf} /\ \A j \in Lines : j # k => data[j] # b \/ b = NoBuf
  BY SMTT(60) DEF Allocated, Free, PInv, PTypeOK, LinesOwnBuffers
<1>2. AllocFails \/ b # NoBuf
  BY DEF Allocated, Free, PInv, PTypeOK
<1>3. Sizes[pos] \in Nat
  BY PipeAssumption DEF PInv, PTypeOK
<1>4. data' \in [Lines -> Buffers \cup {NoBuf}] /\ size' \in [Lines -> Nat]
  BY <1>1, <1>3 DEF Grown, PInv, PTypeOK
<1>5. capacity' \in [Buffers -> Nat]
  BY <1>3 DEF Grown, PInv, PTypeOK
<1>6. content' \in [Buffers \cup {Raw} -> Hashes \cup {Garbage}]
  BY DEF Grown, PInv, PTypeOK
<1>7. /\ data'[k] = b /\ size'[k] = Sizes[pos]
      /\ \A j \in Lines \ {k} : data'[j] = data[j] /\ size'[j] = size[j]
  BY DEF Grown, PInv, PTypeOK
<1>8. LinesOwnBuffers'
  <2>1. ASSUME NEW j \in Lines, NEW i \in Lines, data'[j] = data'[i], j # i
        PROVE  data'[j] = NoBuf
    BY SMTT(60), <1>1, <1>7, <2>1 DEF PInv, LinesOwnBuffers
  <2>2. ASSUME NEW j \in Lines, data'[j] # NoBuf
        PROVE  capacity'[data'[j]] = size'[j]
    <3>1. CASE j = k
      BY SMTT(60), <1>1, <1>7, <2>2, <3>1 DEF Grown
    <3>2. CASE j # k
      <4>1. data[j] \in Buffers /\ data[j] # b /\ data[j] # data[k]
        BY <1>1, <1>7, <2>2, <3>2 DEF PInv, PTypeOK, LinesOwnBuffers
      <4>2. capacity'[data[j]] = capacity[data[j]]
        BY <4>1 DEF Grown
      <4> QED BY <1>7, <2>2, <3>2, <4>2 DEF PInv, LinesOwnBuffers
    <3> QED BY <3>1, <3>2
  <2> QED BY <2>1, <2>2 DEF LinesOwnBuffers
<1>9. ClaimsBacked'
  BY <1>2, <1>7 DEF PInv, ClaimsBacked
<1> QED BY <1>4, <1>5, <1>6, <1>7, <1>8, <1>9

(* The end of get_weighted takes the oldest line. *)
LEMMA TakeKeeps == ASSUME PInv, Take PROVE PInv'
<1> DEFINE k == scan.max
           miss == scan.hit = NoBuf \/ scan.sz < Sizes[pos]
<1>1. k \in Lines /\ scan.hit \in Addresses
  BY DEF PInv, PTypeOK, Scans, Addresses
<1>2. RefreshCounted'
  BY DEF Take, guiVars, PInv, RefreshCounted
<1>3. FlagsOK'
  BY DEF Take, guiVars, PInv, PTypeOK, FlagsOK
<1>4. scan' \in Scans
  BY SMTT(60), PipeAssumption DEF Take, NoScan, Scans, Lines
<1>5. spared' \in [line : Lines, gets : 0 .. Entries]
  BY SMTT(60), PipeAssumption DEF Take, PInv, PTypeOK
<1>6. CASE ~miss
  <2>1. Returned(scan.hit) /\ UNCHANGED <<cacheVars, memVars>>
    BY <1>6 DEF Take
  <2>2. LinesOwnBuffers' /\ ClaimsBacked' /\ OutputOwned'
    BY <2>1, LinesUntouched DEF Returned, cacheVars, memVars
  <2>3. /\ pc' \in Labels /\ pos' \in Positions
        /\ input' \in Addresses /\ output' \in Addresses
    BY <1>1, <2>1, ReturnedType DEF PInv, Labels
  <2>4. PTypeOK'
    BY <1>3, <1>4, <1>5, <2>1, <2>3 DEF Take, PInv, PTypeOK, cacheVars, memVars, guiVars
  <2> QED BY <1>2, <2>2, <2>4 DEF PInv
<1>7. CASE miss
  <2>1. /\ IF TooSmall(k) THEN \E b \in Allocated(k) : Grown(k, b)
           ELSE UNCHANGED <<data, size, memVars>>
        /\ hash' = [hash EXCEPT ![k] = HashOf(pos)]
        /\ used' = [used EXCEPT ![k] = Weight(pos)]
        /\ output' = data'[k] /\ pc' = "process" /\ UNCHANGED <<pos, input>>
    BY <1>7 DEF Take
  <2>2. /\ data' \in [Lines -> Buffers \cup {NoBuf}] /\ size' \in [Lines -> Nat]
        /\ capacity' \in [Buffers -> Nat]
        /\ content' \in [Buffers \cup {Raw} -> Hashes \cup {Garbage}]
        /\ LinesOwnBuffers' /\ ClaimsBacked' /\ size'[k] >= Sizes[pos]
    <3>1. Sizes[pos] \in Nat
      BY PipeAssumption DEF PInv, PTypeOK
    <3>2. CASE TooSmall(k)
      <4>1. PICK b \in Allocated(k) : Grown(k, b)
        BY <2>1, <3>2
      <4>2. /\ data' \in [Lines -> Buffers \cup {NoBuf}] /\ size' \in [Lines -> Nat]
            /\ capacity' \in [Buffers -> Nat]
            /\ content' \in [Buffers \cup {Raw} -> Hashes \cup {Garbage}]
            /\ LinesOwnBuffers' /\ ClaimsBacked' /\ size'[k] = Sizes[pos]
        BY <1>1, <4>1, GrownKeeps
      <4> QED BY SMTT(60), <3>1, <4>2
    <3>3. CASE ~TooSmall(k)
      BY SMTT(60), <1>1, <2>1, <3>1, <3>3
      DEF TooSmall, memVars, PInv, PTypeOK, LinesOwnBuffers, ClaimsBacked
    <3> QED BY <3>2, <3>3
  <2>3. OutputOwned'
    BY <1>1, <2>1, <2>2 DEF OutputOwned
  <2>4. hash' \in [Lines -> Hashes \cup {NoHash}] /\ used' \in [Lines -> Int]
    <3>1. HashOf(pos) \in Hashes /\ Weight(pos) \in Int
      BY SMTT(60), HashOfType, PipeAssumption DEF PInv, PTypeOK, Weight
    <3> QED BY <1>1, <2>1, <3>1 DEF PInv, PTypeOK
  <2>5. /\ pc' \in Labels /\ pos' \in Positions
        /\ input' \in Addresses /\ output' \in Addresses
    <3>1. data'[k] \in Addresses
      BY <1>1, <2>2 DEF Addresses
    <3> QED BY <2>1, <3>1 DEF PInv, PTypeOK, Labels
  <2>6. PTypeOK'
    BY <1>3, <1>4, <1>5, <2>2, <2>4, <2>5 DEF Take, PInv, PTypeOK, guiVars
  <2> QED BY <1>2, <2>2, <2>3, <2>6 DEF PInv
<1> QED BY <1>6, <1>7

(* A module writes its output and process_rec returns. *)
LEMMA ProcessKeeps == ASSUME PInv, Process PROVE PInv'
<1>1. output \in Addresses /\ Returned(output)
  BY DEF Process, PInv, PTypeOK
<1>2. LinesOwnBuffers' /\ ClaimsBacked' /\ OutputOwned'
  BY <1>1, LinesUntouched DEF Process, Returned
<1>3. RefreshCounted'
  BY DEF Process, guiVars, PInv, RefreshCounted
<1>4. FlagsOK'
  BY DEF Process, guiVars, PInv, PTypeOK, FlagsOK
<1>5. /\ pc' \in Labels /\ pos' \in Positions
      /\ input' \in Addresses /\ output' \in Addresses
  BY <1>1, ReturnedType DEF PInv, Labels
<1>6. content' \in [Buffers \cup {Raw} -> Hashes \cup {Garbage}]
  <2>1. HashOf(0) \in Hashes /\ HashOf(pos) \in Hashes
    BY SMTT(60), HashOfType, PipeAssumption DEF PInv, PTypeOK, Positions
  <2>2. Rendered \in Hashes \cup {Garbage}
    BY <2>1 DEF Rendered
  <2> QED BY <2>2 DEF Process, PInv, PTypeOK, Addresses
<1>7. used' \in [Lines -> Int]
  BY SMTT(60), PipeAssumption DEF Process, Reweighted, PInv, PTypeOK
<1>8. spared' \in [line : Lines, gets : 0 .. Entries]
  <2>1. (\E k \in Lines : data[k] = input) => (CHOOSE k \in Lines : data[k] = input) \in Lines
    OBVIOUS
  <2>2. 0 \in 0 .. Entries
    BY SMTT(60), PipeAssumption
  <2> QED BY SMTT(60), <2>1, <2>2 DEF Process, PInv, PTypeOK
<1>9. PTypeOK'
  BY <1>4, <1>5, <1>6, <1>7, <1>8 DEF Process, PInv, PTypeOK, guiVars
<1> QED BY <1>2, <1>3, <1>9 DEF PInv

(* The end of a run forgets all lines and keeps their buffers. *)
LEMMA FlushKeeps == ASSUME PInv, Flush PROVE PInv'
<1>1. LinesOwnBuffers' /\ ClaimsBacked' /\ OutputOwned'
  BY LinesUntouched DEF Flush, memVars
<1>2. RefreshCounted'
  BY DEF Flush, guiVars, PInv, RefreshCounted
<1>3. FlagsOK'
  BY DEF Flush, guiVars, PInv, PTypeOK, FlagsOK
<1>4. spared' \in [line : Lines, gets : 0 .. Entries]
  BY SMTT(60), PipeAssumption DEF Flush, NotSpared, Lines
<1>5. PTypeOK'
  BY SMTT(60), <1>3, <1>4 DEF Flush, Flushed, PInv, PTypeOK, Labels, memVars, guiVars
<1> QED BY <1>1, <1>2, <1>5 DEF PInv

(* The result goes to the backbuf. *)
LEMMA PublishKeeps == ASSUME PInv, Publish PROVE PInv'
<1>1. LinesOwnBuffers' /\ ClaimsBacked' /\ OutputOwned'
  BY LinesUntouched DEF Publish, cacheVars, memVars
<1>2. RefreshCounted'
  BY DEF Publish, PInv, RefreshCounted
<1>3. FlagsOK'
  BY DEF Publish, PInv, PTypeOK, FlagsOK
<1>4. shown' \in Hashes \cup {NoHash, Garbage}
  BY DEF Publish, PInv, PTypeOK, Addresses
<1>5. pos' \in Positions /\ input' \in Addresses /\ output' \in Addresses /\ pc' \in Labels
  BY SMTT(60), PipeAssumption DEF Publish, Positions, Addresses, Labels
<1>6. PTypeOK'
  BY <1>3, <1>4, <1>5 DEF Publish, PInv, PTypeOK, cacheVars, memVars
<1> QED BY <1>1, <1>2, <1>6 DEF PInv

-----------------------------------------------------------------------------
(* The GUI thread, at any moment of a run. *)

(* An edit raises the version of a module's parameters. *)
LEMMA EditKeeps == ASSUME PInv, Edit PROVE PInv'
<1>1. LinesOwnBuffers' /\ ClaimsBacked' /\ OutputOwned'
  BY LinesUntouched DEF Edit, cacheVars, memVars, runVars
<1>2. version' \in Versions /\ RefreshCounted'
  BY SMTT(60), PipeAssumption DEF Edit, PInv, PTypeOK, RefreshCounted, Versions, NoRefresh
<1>3. FlagsOK'
  BY DEF Edit, runVars, PInv, PTypeOK, FlagsOK
<1>4. PTypeOK'
  BY <1>2, <1>3 DEF Edit, PInv, PTypeOK, cacheVars, memVars, runVars
<1> QED BY <1>1, <1>2, <1>4 DEF PInv

(* dt_iop_refresh_center begins to flush the cache of the pipe. *)
LEMMA RefreshKeeps == ASSUME PInv, NEW p \in Refreshed, Refresh(p) PROVE PInv'
<1>1. LinesOwnBuffers' /\ ClaimsBacked' /\ OutputOwned'
  BY LinesUntouched DEF Refresh, cacheVars, memVars, runVars
<1>2. RefreshCounted'
  BY DEF Refresh, RefreshCounted
<1>3. FlagsOK'
  BY DEF Refresh, runVars, PInv, PTypeOK, FlagsOK
<1>4. refresh' \in Refreshes
  <2>1. p - 1 \in Positions
    BY SMTT(60), PipeAssumption DEF Positions
  <2>2. HashOf(p - 1) \in Hashes
    BY <2>1, HashOfType DEF PInv
  <2> QED BY SMTT(60), <2>2, PipeAssumption DEF Refresh, Refreshes
<1>5. PTypeOK'
  BY <1>3, <1>4 DEF Refresh, PInv, PTypeOK, cacheVars, memVars, runVars
<1> QED BY <1>1, <1>2, <1>5 DEF PInv

(* flush_all_but resets a line; its buffer stays. *)
LEMMA RefreshLineKeeps == ASSUME PInv, RefreshLine PROVE PInv'
<1>1. LinesOwnBuffers' /\ ClaimsBacked' /\ OutputOwned'
  BY LinesUntouched DEF RefreshLine, memVars, runVars
<1>2. refresh.line \in Lines /\ refresh.line + 1 \in 0 .. Entries
  BY SMTT(60), PipeAssumption DEF RefreshLine, PInv, PTypeOK, Refreshes, Lines
<1>3. version' \in Versions
  BY SMTT(60), PipeAssumption DEF RefreshLine, PInv, PTypeOK, RefreshCounted, Versions
<1>4. refresh' \in Refreshes
  BY <1>2, PipeAssumption DEF RefreshLine, PInv, PTypeOK, Refreshes, NoRefresh
<1>5. RefreshCounted'
  BY SMTT(60), <1>2, PipeAssumption
  DEF RefreshLine, PInv, PTypeOK, Refreshes, NoRefresh, RefreshCounted
<1>6. FlagsOK'
  BY DEF RefreshLine, runVars, PInv, PTypeOK, FlagsOK
<1>7. hash' \in [Lines -> Hashes \cup {NoHash}] /\ used' \in [Lines -> Int]
  BY SMTT(60), <1>2 DEF RefreshLine, PInv, PTypeOK
<1>8. PTypeOK'
  BY <1>3, <1>4, <1>6, <1>7 DEF RefreshLine, PInv, PTypeOK, memVars, runVars
<1> QED BY <1>1, <1>5, <1>8 DEF PInv

-----------------------------------------------------------------------------
(* Nothing happens to the pipe. *)
LEMMA StutterKeeps == ASSUME PInv, UNCHANGED vars PROVE PInv'
<1>1. LinesOwnBuffers' /\ ClaimsBacked' /\ OutputOwned'
  BY LinesUntouched DEF vars, cacheVars, memVars, runVars
<1>2. RefreshCounted'
  BY DEF vars, guiVars, PInv, RefreshCounted
<1>3. PTypeOK'
  BY DEF vars, cacheVars, memVars, runVars, guiVars, PInv, PTypeOK, FlagsOK
<1> QED BY <1>1, <1>2, <1>3 DEF PInv

(* The inductive invariant holds of every pipe. *)
THEOREM PipeInvariant == Spec => []PInv
<1>1. PInv /\ [Next]_vars => PInv'
  BY StartKeeps, LookKeeps, GetKeeps, ScanLineKeeps, TakeKeeps, ProcessKeeps, FlushKeeps,
     PublishKeeps, EditKeeps, RefreshKeeps, RefreshLineKeeps, StutterKeeps
  DEF Next
<1> QED BY <1>1, PipeInit, PTL DEF Spec

(* dt_dev_pixelpipe_cache_get_weighted and the flushes of the GUI thread   *)
(* never make two lines own one buffer, and a line's size is that of its   *)
(* buffer, also when allocations fail.                                     *)
THEOREM BuffersOwned == Spec => []LinesOwnBuffers
<1>1. PInv => LinesOwnBuffers
  BY DEF PInv
<1> QED BY <1>1, PipeInvariant, PTL

(* As long as dt_alloc_align gives what it is asked for, no module writes  *)
(* past its output, whatever the GUI thread refreshes meanwhile.           *)
THEOREM OutputsFit == ASSUME ~AllocFails PROVE Spec => []OutputFits
<1>1. PInv => OutputFits
  <2> SUFFICES ASSUME PInv, pc = "process"
      PROVE  output \in Buffers /\ capacity[output] >= Sizes[pos]
    BY DEF OutputFits
  <2>1. PICK k \in Lines : data[k] = output /\ size[k] >= Sizes[pos]
    BY DEF PInv, OutputOwned
  <2>2. Sizes[pos] \in Nat /\ Sizes[pos] > 0 /\ size[k] \in Nat
    BY SMTT(60), PipeAssumption DEF PInv, PTypeOK
  <2>3. data[k] # NoBuf
    BY SMTT(60), <2>1, <2>2 DEF PInv, ClaimsBacked
  <2> QED BY <2>1, <2>3 DEF PInv, PTypeOK, LinesOwnBuffers
<1> QED BY <1>1, PipeInvariant, PTL
-----------------------------------------------------------------------------
(* The positions whose buffers the run makes important before its end: the *)
(* important output, unless it is the last, and the input of the focus.    *)
Favoured(p) == p < Modules /\ ((p # 0 /\ p = Important) \/ p + 1 = Focus)

(* The cache has a line for the input of a module, one for its output and  *)
(* one for each important buffer.  The export and thumbnail pipes have two *)
(* lines and no important buffer, the preview has five, the full pipe has  *)
(* eight.                                                                  *)
EnoughLines ==
  \/ Entries >= 4
  \/ Entries >= 3 /\ \A p, q \in Positions : Favoured(p) /\ Favoured(q) => p = q
  \/ Entries >= 2 /\ \A p \in Positions : ~Favoured(p)

(* A refresh that is under way has met the run. *)
RefreshSeen == refresh # NoRefresh => touched

(* The locals of the get start anew, and nobody writes to the input image. *)
ScanReset == pc # "scan" => scan = NoScan
RawKept == content[Raw] = <<0, 0>>

(* A run starts with a flushed cache. *)
Clean == \A k \in Lines : hash[k] = NoHash /\ used[k] = 0
RestInv ==
  pc \in {"idle", "publish"} \/ (pc = "look" /\ ~touched) => Clean /\ spared = NotSpared

(* The age a line had when the current get began. *)
Age(k) == used[k] - (IF k < scan.line THEN 1 ELSE 0)

(* The last position that has been given a line, and its line; the lines   *)
(* of the important buffers.                                               *)
Top == IF pc = "process" THEN pos ELSE pos - 1
Newest(k) == \E p \in Positions : p = Top /\ hash[k] = HashOf(p)
Fav(k) == \E p \in Positions : Favoured(p) /\ hash[k] = HashOf(p)

(* On the way up the lines hold positions below, each one once. *)
HashInv ==
  /\ \A k \in Lines : hash[k] # NoHash => \E p \in Positions : p <= Top /\ hash[k] = HashOf(p)
  /\ \A j, k \in Lines : hash[j] = hash[k] => j = k \/ hash[j] = NoHash

(* The newest line is younger than every line that is not important. *)
AgeInv ==
  /\ \A k \in Lines : Newest(k) => Age(k) <= 0
  /\ \A k \in Lines : ~Fav(k) => Age(k) >= 0
  /\ \A j, k \in Lines : ~Fav(k) /\ ~Newest(k) /\ hash[j] # NoHash => Age(k) >= 1

(* The input of a module is the input image or the line of the module      *)
(* below; its output is its own line.                                      *)
InputInv ==
  /\ pos > 0 =>
       \/ input = Raw /\ pos = 1
       \/ /\ input # NoBuf /\ content[input] = HashOf(pos - 1)
          /\ \E k \in Lines : data[k] = input /\ hash[k] = HashOf(pos - 1)
  /\ pc = "process" => \E k \in Lines : data[k] = output /\ hash[k] = HashOf(pos)
RunInv ==
  ~touched /\ pc \in {"get", "scan", "process"} =>
    HashInv /\ InputInv /\ (Top < Modules => AgeInv)

(* The loop of the get finds no line with the hash, and remembers the      *)
(* oldest.                                                                 *)
ScanInv ==
  ~touched /\ pc = "scan" =>
    /\ scan.hit = NoBuf
    /\ \A k \in Lines : k < scan.line => Age(k) <= scan.maxUsed
    /\ scan.maxUsed # -1 => Age(scan.max) = scan.maxUsed /\ scan.max < scan.line

(* A line made important ages with every get. *)
SpareInv ==
  ~touched /\ spared.gets < Entries =>
    /\ Focus > 0 /\ hash[spared.line] = HashOf(Focus - 1)
    /\ pc # "flush" => Age(spared.line) <= spared.gets - Entries

AInv ==
  /\ PInv /\ RefreshSeen /\ ScanReset /\ RawKept /\ RestInv
  /\ RunInv /\ ScanInv /\ SpareInv
-----------------------------------------------------------------------------
(* dt_dev_pixelpipe_cache_basichash tells the positions apart. *)
LEMMA HashesDiffer ==
  ASSUME PTypeOK, NEW p \in Positions, NEW q \in Positions
  PROVE  HashOf(p) # NoHash /\ (HashOf(p) = HashOf(q) => p = q)
<1>1. HashOf(p) # NoHash
  BY HashOfType, PipeAssumption
<1>2. HashOf(p) = HashOf(q) => p = q
  BY SMTT(60) DEF HashOf
<1> QED BY <1>1, <1>2

(* Outside the loop the age of a line is its used field. *)
LEMMA AgeIsUsed ==
  ASSUME PTypeOK, scan = NoScan, NEW k \in Lines
  PROVE  Age(k) = used[k]
BY SMTT(60) DEF Age, NoScan, Lines, PTypeOK

(* Nothing is said of a run that a refresh meets. *)
LEMMA TouchedRun == ASSUME touched' PROVE RunInv' /\ ScanInv' /\ SpareInv'
BY DEF RunInv, ScanInv, SpareInv

(* What the run goes by does not change. *)
LEMMA RunUntouched ==
  ASSUME AInv, UNCHANGED <<cacheVars, memVars, runVars, committed, spared, touched>>
  PROVE  RunInv' /\ ScanInv' /\ SpareInv'
<1>1. UNCHANGED <<data, hash, used, content, pc, pos, input, output, scan, committed, spared,
                  touched>>
  BY DEF cacheVars, memVars, runVars
<1>2. /\ Top' = Top /\ (\A p : HashOf(p)' = HashOf(p))
      /\ \A k : Age(k)' = Age(k)
  BY <1>1 DEF Top, HashOf, Age
<1>3. \A k : Newest(k)' = Newest(k) /\ Fav(k)' = Fav(k)
  BY <1>1, <1>2 DEF Newest, Fav
<1>4. (HashInv => HashInv') /\ (AgeInv => AgeInv') /\ (InputInv => InputInv')
  BY <1>1, <1>2, <1>3 DEF HashInv, AgeInv, InputInv
<1>5. RunInv'
  BY SMTT(60), <1>1, <1>2, <1>4 DEF AInv, RunInv
<1>6. ScanInv' /\ SpareInv'
  BY SMTT(60), <1>1, <1>2 DEF AInv, ScanInv, SpareInv, Age
<1> QED BY <1>5, <1>6

(* With a flushed cache the run has no line to lose. *)
LEMMA CleanRun ==
  ASSUME PInv', Clean', spared' = NotSpared, scan' = NoScan, RawKept',
         pc' \in {"idle", "look", "publish", "flush"}
         \/ (pc' = "scan" /\ pos' = 0)
         \/ (pc' = "get" /\ pos' = 1 /\ input' = Raw)
  PROVE  RunInv' /\ ScanInv' /\ SpareInv'
<1>1. SpareInv'
  BY SMTT(60), PipeAssumption DEF SpareInv, NotSpared
<1>2. ScanInv'
  BY SMTT(60) DEF ScanInv, NoScan, Lines
<1>3. (\A k \in Lines : Age(k) = used[k])'
  BY SMTT(60) DEF Age, NoScan, Lines, PInv, PTypeOK, Clean
<1>4. (\A k \in Lines : \A p \in Positions : hash[k] # HashOf(p))'
  <2>1. 0 \in Versions /\ committed' \in Versions
    BY SMTT(60), PipeAssumption DEF PInv, PTypeOK, Versions
  <2>2. \A p \in Positions : HashOf(p)' \in Hashes
    BY <2>1 DEF HashOf, Hashes
  <2> QED BY <2>2, PipeAssumption DEF Clean
<1>5. HashInv'
  BY DEF HashInv, Clean
<1>6. AgeInv'
  <2>1. (\A k \in Lines : ~Newest(k))'
    BY <1>4 DEF Newest
  <2>2. (\A k \in Lines : Age(k) >= 0 /\ hash[k] = NoHash)'
    BY SMTT(60), <1>3 DEF Clean
  <2> QED BY <2>1, <2>2 DEF AgeInv
<1>7. pc' \in {"scan", "get"} => InputInv'
  BY SMTT(60) DEF InputInv
<1>8. RunInv'
  BY <1>5, <1>6, <1>7 DEF RunInv
<1> QED BY <1>1, <1>2, <1>8
-----------------------------------------------------------------------------
(* The flushed cache of a new pipe. *)
LEMMA AgeInit == Init => AInv
<1> SUFFICES ASSUME Init PROVE AInv
  OBVIOUS
<1>1. PInv
  BY PipeInit
<1>2. RefreshSeen /\ ScanReset /\ RestInv
  BY DEF Init, RefreshSeen, ScanReset, RestInv, Clean
<1>3. RawKept
  BY DEF Init, RawKept
<1>4. RunInv /\ ScanInv
  BY DEF Init, RunInv, ScanInv
<1>5. SpareInv
  BY SMTT(60), PipeAssumption DEF Init, SpareInv, NotSpared
<1> QED BY <1>1, <1>2, <1>3, <1>4, <1>5 DEF AInv

(* dt_dev_pixelpipe_process starts on a flushed cache. *)
LEMMA StartAges == ASSUME AInv, PInv', Start PROVE AInv'
<1>1. RefreshSeen' /\ ScanReset' /\ RawKept'
  <2>1. RefreshSeen'
    BY DEF Start, RefreshSeen
  <2>2. ScanReset' /\ RawKept'
    BY DEF Start, AInv, ScanReset, RawKept, memVars
  <2> QED BY <2>1, <2>2
<1>2. Clean' /\ spared' = NotSpared /\ scan' = NoScan /\ pc' = "look"
  BY DEF Start, AInv, RestInv, Clean, ScanReset, cacheVars
<1>3. RunInv' /\ ScanInv' /\ SpareInv'
  BY <1>1, <1>2, CleanRun
<1> QED BY <1>1, <1>2, <1>3 DEF AInv, RestInv

(* On the way down an untouched run finds nothing in the cache. *)
LEMMA LookAges == ASSUME AInv, PInv', Look PROVE AInv'
<1>1. RefreshSeen' /\ RawKept' /\ touched' = touched
  BY DEF Look, AInv, RefreshSeen, RawKept, memVars, guiVars
<1>2. scan = NoScan /\ scan' = NoScan
  BY DEF Look, AInv, ScanReset
<1>3. pc' \in {"scan", "flush", "look", "get"}
  BY DEF Look, Returned
<1>4. CASE touched
  BY <1>1, <1>2, <1>3, <1>4, TouchedRun DEF AInv, RestInv, ScanReset
<1>5. CASE ~touched
  <2>1. Clean /\ spared = NotSpared /\ Clean' /\ spared' = NotSpared
    BY <1>5 DEF Look, AInv, RestInv, Clean, cacheVars
  <2>2. ~Available(HashOf(pos))
    BY <2>1, HashesDiffer DEF Available, Clean, AInv, PInv, PTypeOK
  <2>3. \/ pc' \in {"flush", "look"}
        \/ pos = 0 /\ ((pc' = "scan" /\ pos' = pos) \/ Returned(Raw))
    <3>1. pos \in Nat
      BY SMTT(60) DEF AInv, PInv, PTypeOK, Positions
    <3>2. pos > 0 \/ pos = 0
      BY SMTT(60), <3>1
    <3> QED BY <2>2, <3>2 DEF Look
  <2>4. pos = 0 /\ Returned(Raw) => pc' = "get" /\ pos' = 1 /\ input' = Raw
    BY SMTT(60), PipeAssumption DEF Returned
  <2>5. RunInv' /\ ScanInv' /\ SpareInv'
    BY <1>1, <1>2, <2>1, <2>3, <2>4, CleanRun
  <2> QED BY <1>1, <1>2, <2>1, <2>5 DEF AInv, RestInv, ScanReset
<1> QED BY <1>4, <1>5

(* A get starts its loop. *)
LEMMA GetAges == ASSUME AInv, PInv', Get PROVE AInv'
<1>1. RefreshSeen' /\ RawKept' /\ RestInv' /\ ScanReset'
  BY DEF Get, AInv, RefreshSeen, RawKept, RestInv, ScanReset, memVars, guiVars
<1>2. UNCHANGED <<data, hash, used, content, pos, input, output, scan, committed, spared,
                  touched>>
  BY DEF Get, cacheVars, memVars, guiVars
<1>3. scan = NoScan /\ pc = "get" /\ pc' = "scan"
  BY DEF Get, AInv, ScanReset
<1>4. /\ Top' = Top /\ (\A p : HashOf(p)' = HashOf(p))
      /\ \A k : Age(k)' = Age(k)
  BY <1>2, <1>3 DEF Top, HashOf, Age
<1>5. \A k : Newest(k)' = Newest(k) /\ Fav(k)' = Fav(k)
  BY <1>2, <1>4 DEF Newest, Fav
<1>6. (HashInv => HashInv') /\ (AgeInv => AgeInv') /\ (InputInv => InputInv')
  BY <1>2, <1>3, <1>4, <1>5 DEF HashInv, AgeInv, InputInv
<1>7. RunInv'
  BY <1>2, <1>3, <1>4, <1>6 DEF AInv, RunInv
<1>8. ScanInv'
  BY SMTT(60), <1>2, <1>3 DEF ScanInv, NoScan, Lines
<1>9. SpareInv'
  BY <1>2, <1>3, <1>4 DEF AInv, SpareInv
<1> QED BY <1>1, <1>7, <1>8, <1>9 DEF AInv

(* One line of the loop: it has not the hash, and it ages. *)
LEMMA ScanLineAges == ASSUME AInv, PInv', ScanLine PROVE AInv'
<1> DEFINE i == scan.line
           older == used[i] > scan.maxUsed
<1>1. RefreshSeen' /\ RawKept' /\ RestInv' /\ ScanReset' /\ touched' = touched
  BY DEF ScanLine, AInv, RefreshSeen, RawKept, RestInv, ScanReset, memVars, guiVars
<1>2. CASE touched
  BY <1>1, <1>2, TouchedRun DEF AInv
<1>3. CASE ~touched
  <2>1. /\ UNCHANGED <<data, hash, content, pc, pos, input, output, committed, spared, touched>>
        /\ pc = "scan"
    BY DEF ScanLine, memVars, guiVars
  <2>2. HashInv /\ InputInv /\ (Top < Modules => AgeInv) /\ Top = pos - 1
    BY <1>3, <2>1 DEF AInv, RunInv, Top
  <2>3. i \in Lines /\ pos \in Positions /\ PTypeOK
    BY SMTT(60) DEF ScanLine, AInv, PInv, PTypeOK, Scans, Lines
  <2>4. hash[i] # HashOf(pos)
    <3>1. SUFFICES ASSUME hash[i] = HashOf(pos) PROVE FALSE
      OBVIOUS
    <3>2. PICK p \in Positions : p <= Top /\ hash[i] = HashOf(p)
      BY <2>2, <2>3, <3>1, HashesDiffer DEF HashInv
    <3>3. p = pos
      <4>1. HashOf(p) = HashOf(pos)
        BY <3>1, <3>2
      <4> QED BY <2>3, <4>1, HashesDiffer
    <3> QED BY SMTT(60), <2>2, <2>3, <3>2, <3>3 DEF Positions
  <2>5. /\ scan' = [line |-> i + 1,
                    max |-> IF older THEN i ELSE scan.max,
                    maxUsed |-> IF older THEN used[i] ELSE scan.maxUsed,
                    hit |-> scan.hit, sz |-> scan.sz]
        /\ used' = [used EXCEPT ![i] = @ + 1]
    BY <2>4 DEF ScanLine
  <2>6. \A k \in Lines : Age(k)' = Age(k)
    <3> SUFFICES ASSUME NEW k \in Lines PROVE Age(k)' = Age(k)
      OBVIOUS
    <3>1. used \in [Lines -> Int] /\ scan'.line = i + 1
      BY SMTT(60), <2>3, <2>5 DEF PTypeOK
    <3>2. k \in Int /\ i \in Int /\ used[k] \in Int
      BY SMTT(60), <2>3, <3>1, PipeAssumption DEF Lines
    <3>3. used'[k] = IF k = i THEN used[k] + 1 ELSE used[k]
      BY <2>3, <2>5, <3>1
    <3> QED BY SMTT(60), <3>1, <3>2, <3>3 DEF Age
  <2>7. Top' = Top /\ (\A p : HashOf(p)' = HashOf(p))
    BY <2>1 DEF Top, HashOf
  <2>8. \A k : Newest(k)' = Newest(k) /\ Fav(k)' = Fav(k)
    BY <2>1, <2>7 DEF Newest, Fav
  <2>9. HashInv' /\ InputInv' /\ (AgeInv => AgeInv')
    BY <2>1, <2>2, <2>6, <2>7, <2>8 DEF HashInv, InputInv, AgeInv
  <2>10. RunInv'
    BY <2>2, <2>7, <2>9 DEF RunInv
  <2>11. SpareInv'
    <3>1. spared.line \in Lines
      BY DEF AInv, PInv, PTypeOK
    <3> QED BY <2>1, <2>6, <2>7, <3>1 DEF AInv, SpareInv
  <2>12. ScanInv'
    <3>1. /\ scan.hit = NoBuf
          /\ \A k \in Lines : k < i => Age(k) <= scan.maxUsed
          /\ scan.maxUsed # -1 => Age(scan.max) = scan.maxUsed /\ scan.max < i
      BY <1>3, <2>1 DEF AInv, ScanInv
    <3>2. /\ scan'.hit = scan.hit /\ scan'.line = i + 1
          /\ scan'.max = IF older THEN i ELSE scan.max
          /\ scan'.maxUsed = IF older THEN used[i] ELSE scan.maxUsed
      BY SMTT(60), <2>5
    <3>3. Age(i) = used[i] /\ used[i] \in Int /\ scan.maxUsed \in Int /\ scan.max \in Lines
          /\ \A k \in Lines : Age(k) \in Int
      <4>1. used \in [Lines -> Int] /\ scan.maxUsed \in Int /\ scan.max \in Lines
        BY <2>3 DEF PTypeOK, Scans
      <4>2. i \in Int
        BY SMTT(60), <2>3, PipeAssumption DEF Lines
      <4> QED BY SMTT(60), <2>3, <4>1, <4>2 DEF Age
    <3>4. \A k \in Lines : k < i + 1 => Age(k) <= scan'.maxUsed
      <4> SUFFICES ASSUME NEW k \in Lines, k < i + 1 PROVE Age(k) <= scan'.maxUsed
        OBVIOUS
      <4>1. k = i \/ k < i
        BY SMTT(60), <2>3 DEF Lines
      <4> QED BY SMTT(60), <3>1, <3>2, <3>3, <4>1
    <3>5. scan'.maxUsed # -1 => Age(scan'.max) = scan'.maxUsed /\ scan'.max < i + 1
      BY SMTT(60), <2>3, <3>1, <3>2, <3>3 DEF Lines
    <3>6. scan'.max \in Lines /\ Age(scan.max)' = Age(scan'.max)
      <4>1. scan'.max \in Lines
        BY <2>3, <3>2, <3>3
      <4>2. PICK m \in Lines : m = scan'.max
        BY <4>1
      <4>3. Age(scan.max)' = Age(m)'
        BY <4>2 DEF Age
      <4> QED BY <2>6, <4>1, <4>2, <4>3
    <3>7. (\A k \in Lines : k < scan.line => Age(k) <= scan.maxUsed)'
      BY <2>6, <3>2, <3>4
    <3>8. (scan.maxUsed # -1 => Age(scan.max) = scan.maxUsed /\ scan.max < scan.line)'
      BY <3>2, <3>5, <3>6
    <3> QED BY <3>1, <3>2, <3>7, <3>8 DEF ScanInv
  <2> QED BY <1>1, <2>10, <2>11, <2>12 DEF AInv
<1> QED BY <1>2, <1>3

(* Some line is neither the newest nor important. *)
LEMMA SpareLine ==
  ASSUME PTypeOK, EnoughLines, HashInv, Top \in Int
  PROVE  \E k \in Lines : ~Newest(k) /\ ~Fav(k)
<1> SUFFICES ASSUME \A k \in Lines : Newest(k) \/ Fav(k) PROVE FALSE
  OBVIOUS
<1> DEFINE Holds(k, p) == (p = Top \/ Favoured(p)) /\ hash[k] = HashOf(p)
<1>1. \A k \in Lines : \E p \in Positions : Holds(k, p)
  BY DEF Newest, Fav
<1>2. \A j, k \in Lines : \A p, q \in Positions : j # k /\ Holds(j, p) /\ Holds(k, q) => p # q
  BY HashesDiffer DEF HashInv
<1>3. \A k \in Lines : \A p \in Positions : Holds(k, p) => p = Top \/ Favoured(p)
  OBVIOUS
<1> HIDE DEF Holds
<1>4. \A p \in Positions : p \in Int /\ (Favoured(p) => p = Important \/ p + 1 = Focus)
  BY SMTT(60) DEF Favoured, Positions
<1>5. Entries >= 2
  BY SMTT(60), PipeAssumption DEF EnoughLines
<1>6. 0 \in Lines /\ 1 \in Lines /\ 0 # 1
  BY SMTT(60), <1>5, PipeAssumption DEF Lines
<1>7. PICK p0 \in Positions : Holds(0, p0)
  BY <1>1, <1>6
<1>8. PICK p1 \in Positions : Holds(1, p1)
  BY <1>1, <1>6
<1>9. p0 # p1
  BY <1>2, <1>6, <1>7, <1>8
<1>10. CASE \A p \in Positions : ~Favoured(p)
  BY <1>3, <1>6, <1>7, <1>8, <1>9, <1>10
<1>11. CASE Entries >= 3
  <2>1. 2 \in Lines /\ 2 # 0 /\ 2 # 1
    BY SMTT(60), <1>11, PipeAssumption DEF Lines
  <2>2. PICK p2 \in Positions : Holds(2, p2)
    BY <1>1, <2>1
  <2>3. p0 # p2 /\ p1 # p2
    BY <1>2, <1>6, <1>7, <1>8, <2>1, <2>2
  <2>4. CASE \A p, q \in Positions : Favoured(p) /\ Favoured(q) => p = q
    BY <1>3, <1>6, <1>7, <1>8, <1>9, <2>1, <2>2, <2>3, <2>4
  <2>5. CASE Entries >= 4
    <3>1. 3 \in Lines /\ 3 # 0 /\ 3 # 1 /\ 3 # 2
      BY SMTT(60), <2>5, PipeAssumption DEF Lines
    <3>2. PICK p3 \in Positions : Holds(3, p3)
      BY <1>1, <3>1
    <3>3. p0 # p3 /\ p1 # p3 /\ p2 # p3
      BY <1>2, <1>6, <1>7, <1>8, <2>1, <2>2, <3>1, <3>2
    <3>4. \A p \in {p0, p1, p2, p3} :
            p \in Int /\ (p = Top \/ p = Important \/ p + 1 = Focus)
      BY <1>3, <1>4, <1>6, <1>7, <1>8, <2>1, <2>2, <3>1, <3>2
    <3> QED BY SMTT(60), <1>9, <2>3, <3>3, <3>4, PipeAssumption DEF Positions
  <2> QED BY <1>9, <2>3, <2>4, <2>5, <1>11 DEF EnoughLines
<1>12. Entries >= 4 => Entries >= 3
  BY SMTT(60), PipeAssumption
<1> QED BY <1>10, <1>11, <1>12 DEF EnoughLines

(* The line that the get takes on a miss is neither the line of the input  *)
(* nor one whose importance has not worn off.                              *)
LEMMA VictimIsOld ==
  ASSUME AInv, EnoughLines, ~touched, pc = "scan", scan.line = Entries
  PROVE  /\ \A k \in Lines : Age(k) \in Int /\ used[k] = Age(k) + 1
         /\ \A k \in Lines : pos > 0 /\ hash[k] = HashOf(pos - 1) => k # scan.max
         /\ \A k \in Lines : Age(k) < 0 => k # scan.max
<1>1. /\ PTypeOK /\ HashInv /\ Top = pos - 1 /\ pos \in 0 .. Modules
      /\ Top < Modules => AgeInv
  BY DEF AInv, PInv, RunInv, Top, PTypeOK, Positions
<1>2. Top \in Int /\ Top < Modules
  BY SMTT(60), <1>1, PipeAssumption
<1>3. AgeInv
  BY <1>1, <1>2
<1>4. \A k \in Lines : Age(k) \in Int /\ used[k] = Age(k) + 1 /\ k < scan.line
  <2>1. used \in [Lines -> Int]
    BY <1>1 DEF PTypeOK
  <2> QED BY SMTT(60), <2>1, PipeAssumption DEF Age, Lines
<1>5. /\ \A k \in Lines : Age(k) <= scan.maxUsed
      /\ scan.maxUsed # -1 => Age(scan.max) = scan.maxUsed
      /\ scan.maxUsed \in Int /\ scan.max \in Lines
  BY <1>1, <1>4 DEF AInv, ScanInv, PTypeOK, Scans
<1>6. PICK j \in Lines : ~Newest(j) /\ ~Fav(j)
  BY <1>1, <1>2, SpareLine
<1>7. Age(j) >= 0 /\ \A k \in Lines : hash[k] # NoHash => Age(j) >= 1
  BY <1>3, <1>6 DEF AgeInv
<1>8. scan.maxUsed >= 0 /\ Age(scan.max) = scan.maxUsed
  BY SMTT(60), <1>4, <1>5, <1>7
<1>9. ASSUME NEW k \in Lines, pos > 0, hash[k] = HashOf(pos - 1) PROVE k # scan.max
  <2>1. pos - 1 \in Positions
    BY SMTT(60), <1>1, <1>9, PipeAssumption DEF Positions
  <2>2. Newest(k) /\ hash[k] # NoHash
    BY <1>1, <1>9, <2>1, HashesDiffer DEF Newest
  <2>3. Age(k) <= 0 /\ Age(j) >= 1
    BY <1>3, <1>7, <2>2 DEF AgeInv
  <2> QED BY SMTT(60), <1>4, <1>5, <1>8, <2>3
<1>10. ASSUME NEW k \in Lines, Age(k) < 0 PROVE k # scan.max
  BY SMTT(60), <1>4, <1>8, <1>10
<1> QED BY <1>4, <1>9, <1>10

(* The end of a get changes the buffer of the line it takes and no other. *)
LEMMA TakeSpares ==
  ASSUME PInv, Take
  PROVE  /\ content'[Raw] = content[Raw]
         /\ \A k \in Lines \ {scan.max} :
              /\ data'[k] = data[k]
              /\ data[k] # NoBuf => content'[data[k]] = content[data[k]]
<1> DEFINE m == scan.max
           Kept == /\ content'[Raw] = content[Raw]
                   /\ \A k \in Lines \ {m} :
                        /\ data'[k] = data[k]
                        /\ data[k] # NoBuf => content'[data[k]] = content[data[k]]
<1>1. m \in Lines /\ data \in [Lines -> Buffers \cup {NoBuf}] /\ LinesOwnBuffers
  BY DEF PInv, PTypeOK, Scans
<1>2. ASSUME UNCHANGED <<data, content>> PROVE Kept
  BY <1>2
<1>3. ASSUME NEW b \in Allocated(m), Grown(m, b) PROVE Kept
  <2>1. \A c \in Buffers \cup {Raw} : c \notin {b, data[m]} \ {Raw} => content'[c] = content[c]
    BY <1>3 DEF Grown
  <2>2. b \in Free \/ b = data[m] \/ b = NoBuf
    BY DEF Allocated
  <2>3. ASSUME NEW k \in Lines \ {m}
        PROVE  data[k] # NoBuf => data[k] \in Buffers /\ data[k] # b /\ data[k] # data[m]
    BY <1>1, <2>2 DEF Free, LinesOwnBuffers
  <2>4. \A k \in Lines \ {m} : data'[k] = data[k]
    BY <1>1, <1>3 DEF Grown
  <2> QED BY <2>1, <2>3, <2>4
<1> HIDE DEF Kept
<1>4. \/ UNCHANGED <<cacheVars, memVars>>
      \/ UNCHANGED <<data, size, memVars>>
      \/ \E b \in Allocated(m) : Grown(m, b)
  BY DEF Take
<1>5. Kept
  BY <1>2, <1>3, <1>4 DEF cacheVars, memVars
<1> QED BY <1>5 DEF Kept

(* The end of a get that found nothing. *)
LEMMA TakeAges == ASSUME AInv, PInv', EnoughLines, Take PROVE AInv'
<1> DEFINE m == scan.max
<1>1. /\ RefreshSeen' /\ ScanReset' /\ touched' = touched
      /\ pc = "scan" /\ scan.line = Entries /\ scan' = NoScan
  BY DEF Take, AInv, RefreshSeen, ScanReset, guiVars
<1>2. /\ PInv /\ PTypeOK /\ PTypeOK' /\ m \in Lines /\ LinesOwnBuffers
      /\ pos \in Positions /\ hash \in [Lines -> Hashes \cup {NoHash}]
      /\ used \in [Lines -> Int] /\ spared \in [line : Lines, gets : 0 .. Entries]
  BY DEF AInv, PInv, PTypeOK, Scans
<1>3. RestInv'
  <2>1. pc' \in {"process", "flush", "get"}
    BY DEF Take, Returned
  <2> QED BY <2>1 DEF RestInv
<1>4. RawKept'
  BY <1>2, TakeSpares DEF AInv, RawKept
<1>5. CASE touched
  BY <1>1, <1>3, <1>4, <1>5, TouchedRun DEF AInv
<1>6. CASE ~touched
  <2>1. scan.hit = NoBuf
    BY <1>1, <1>6 DEF AInv, ScanInv
  <2>2. /\ hash' = [hash EXCEPT ![m] = HashOf(pos)]
        /\ used' = [used EXCEPT ![m] = Weight(pos)]
        /\ output' = data'[m] /\ pc' = "process" /\ pos' = pos /\ input' = input
        /\ committed' = committed
    BY <2>1 DEF Take
  <2>3. HashInv /\ InputInv /\ Top = pos - 1 /\ (Top < Modules => AgeInv)
    BY <1>1, <1>6 DEF AInv, RunInv, Top
  <2>4. Top' = pos /\ (\A p : HashOf(p)' = HashOf(p))
    BY <2>2 DEF Top, HashOf
  <2>5. /\ \A k \in Lines : Age(k) \in Int /\ used[k] = Age(k) + 1
        /\ \A k \in Lines : pos > 0 /\ hash[k] = HashOf(pos - 1) => k # m
        /\ \A k \in Lines : Age(k) < 0 => k # m
    BY <1>1, <1>6, VictimIsOld
  <2>6. Weight(pos) \in Int /\ Weight(pos) <= 0
    BY SMTT(60), PipeAssumption DEF Weight
  <2>7. /\ \A k \in Lines \ {m} : hash'[k] = hash[k] /\ used'[k] = used[k]
        /\ hash'[m] = HashOf(pos) /\ used'[m] = Weight(pos)
    BY <1>2, <2>2
  <2>8. \A k \in Lines : Age(k)' = used'[k]
    <3>1. used' \in [Lines -> Int]
      BY <1>2 DEF PTypeOK
    <3> QED BY SMTT(60), <1>1, <3>1 DEF Age, NoScan, Lines
  <2>9. pos \in Int /\ \A p \in Positions : p <= pos - 1 => p <= pos /\ p # pos
    BY SMTT(60), <1>2, PipeAssumption DEF Positions
  <2>10. \A k \in Lines \ {m} : hash[k] # HashOf(pos)
    <3> SUFFICES ASSUME NEW k \in Lines \ {m}, hash[k] = HashOf(pos) PROVE FALSE
      OBVIOUS
    <3>1. hash[k] # NoHash
      BY <1>2, HashesDiffer
    <3>2. PICK p \in Positions : p <= pos - 1 /\ hash[k] = HashOf(p)
      BY <2>3, <3>1 DEF HashInv
    <3>3. HashOf(p) = HashOf(pos)
      BY <3>2
    <3> QED BY <1>2, <2>9, <3>2, <3>3, HashesDiffer
  <2>11. HashInv'
    <3>1. ASSUME NEW k \in Lines, hash'[k] # NoHash
          PROVE  \E p \in Positions : p <= pos /\ hash'[k] = HashOf(p)
      <4>1. CASE k = m
        BY SMTT(60), <1>2, <2>7, <2>9, <4>1
      <4>2. CASE k # m
        BY <2>3, <2>7, <2>9, <3>1, <4>2 DEF HashInv
      <4> QED BY <4>1, <4>2
    <3>2. ASSUME NEW j \in Lines, NEW k \in Lines, hash'[j] = hash'[k], j # k
          PROVE  hash'[j] = NoHash
      BY <2>3, <2>7, <2>10, <3>2 DEF HashInv
    <3> QED BY <2>4, <3>1, <3>2 DEF HashInv
  <2>12. InputInv'
    <3>1. \E k \in Lines : data'[k] = output' /\ hash'[k] = HashOf(pos)
      BY <1>2, <2>2, <2>7
    <3>2. ASSUME pos > 0, ~(input = Raw /\ pos = 1)
          PROVE  /\ input # NoBuf /\ content'[input] = HashOf(pos - 1)
                 /\ \E k \in Lines : data'[k] = input /\ hash'[k] = HashOf(pos - 1)
      <4>1. /\ input # NoBuf /\ content[input] = HashOf(pos - 1)
            /\ \E k \in Lines : data[k] = input /\ hash[k] = HashOf(pos - 1)
        BY <2>3, <3>2 DEF InputInv
      <4>2. PICK k \in Lines : data[k] = input /\ hash[k] = HashOf(pos - 1)
        BY <4>1
      <4>3. k \in Lines \ {m}
        BY <2>5, <3>2, <4>2
      <4>4. data'[k] = data[k] /\ content'[input] = content[input]
        BY <1>2, <4>1, <4>2, <4>3, TakeSpares
      <4> QED BY <2>7, <4>1, <4>2, <4>3, <4>4
    <3> QED BY <2>2, <2>4, <3>1, <3>2 DEF InputInv
  <2>13. ASSUME Top' < Modules PROVE AgeInv'
    <3>1. pos < Modules
      BY <2>4, <2>13
    <3>2. AgeInv
      BY SMTT(60), <2>3, <2>9, <3>1, PipeAssumption
    <3>3. ASSUME NEW k \in Lines, Newest(k)' PROVE used'[k] <= 0
      <4>1. hash'[k] = HashOf(pos)
        BY <2>4, <3>3 DEF Newest
      <4>2. k = m
        BY <2>7, <2>10, <4>1
      <4> QED BY <2>6, <2>7, <4>2
    <3>4. ASSUME NEW k \in Lines, ~Fav(k)'
          PROVE  used'[k] >= 0 /\ (~Newest(k)' => used'[k] >= 1)
      <4>1. CASE k = m
        <5>1. Newest(k)' /\ ~Favoured(pos)
          BY <1>2, <2>4, <2>7, <3>4, <4>1 DEF Newest, Fav
        <5>2. Weight(pos) = 0
          BY SMTT(60), <1>2, <3>1, <5>1 DEF Favoured, Weight
        <5> QED BY SMTT(60), <2>7, <4>1, <5>1, <5>2
      <4>2. CASE k # m
        <5>1. ~Fav(k)
          BY <2>4, <2>7, <3>4, <4>2 DEF Fav
        <5>2. Age(k) >= 0
          BY <3>2, <5>1 DEF AgeInv
        <5> QED BY SMTT(60), <2>5, <2>7, <4>2, <5>2
      <4> QED BY <4>1, <4>2
    <3> QED BY <2>8, <3>3, <3>4 DEF AgeInv
  <2>14. RunInv'
    BY <2>11, <2>12, <2>13 DEF RunInv
  <2>15. ScanInv'
    BY <2>2 DEF ScanInv
  <2>16. SpareInv'
    <3>1. PICK s \in Lines : s = spared.line
      BY <1>2
    <3>2. /\ spared'.line = s /\ spared.gets \in 0 .. Entries
          /\ spared'.gets = IF spared.gets < Entries THEN spared.gets + 1 ELSE spared.gets
      BY <1>2, <3>1 DEF Take
    <3>3. Age(spared.line)' = used'[s]
      BY <2>8, <3>2 DEF Age
    <3>4. ASSUME spared'.gets < Entries
          PROVE  /\ Focus > 0 /\ hash'[s] = HashOf(Focus - 1)
                 /\ used'[s] <= spared'.gets - Entries
      <4>1. spared.gets < Entries
        BY SMTT(60), <3>2, <3>4, PipeAssumption
      <4>2. /\ Focus > 0 /\ hash[s] = HashOf(Focus - 1)
            /\ Age(s) <= spared.gets - Entries
        BY <1>1, <1>6, <3>1, <4>1 DEF AInv, SpareInv
      <4>3. Age(s) < 0 /\ Age(s) + 1 <= spared'.gets - Entries
        BY SMTT(60), <2>5, <3>2, <4>1, <4>2, PipeAssumption
      <4>4. s \in Lines \ {m}
        BY <2>5, <4>3
      <4> QED BY <2>5, <2>7, <4>2, <4>3, <4>4
    <3> QED BY <2>4, <3>2, <3>3, <3>4 DEF SpareInv
  <2> QED BY <1>1, <1>3, <1>4, <2>14, <2>15, <2>16 DEF AInv
<1> QED BY <1>5, <1>6

(* In an untouched run the input of a module holds the stack below it. *)
LEMMA InputsIntact == ASSUME AInv PROVE AgeProtectsInput
<1> SUFFICES ASSUME ~touched, pc = "process", pos > 0
    PROVE  input \notin {output, NoBuf} /\ content[input] = HashOf(pos - 1)
  BY DEF AgeProtectsInput, InputIntact
<1>1. /\ HashInv /\ InputInv /\ PTypeOK /\ LinesOwnBuffers /\ pos \in Positions
      /\ data \in [Lines -> Buffers \cup {NoBuf}]
  BY DEF AInv, RunInv, PInv, PTypeOK
<1>2. PICK o \in Lines : data[o] = output /\ hash[o] = HashOf(pos)
  BY <1>1 DEF InputInv
<1>3. CASE input = Raw /\ pos = 1
  <2>1. pos - 1 = 0
    BY SMTT(60), <1>3
  <2>2. HashOf(pos - 1) = <<0, 0>>
    BY <2>1 DEF HashOf
  <2> QED BY <1>1, <1>2, <1>3, <2>2, PipeAssumption DEF AInv, RawKept
<1>4. CASE ~(input = Raw /\ pos = 1)
  <2>1. input # NoBuf /\ content[input] = HashOf(pos - 1)
        /\ \E k \in Lines : data[k] = input /\ hash[k] = HashOf(pos - 1)
    BY <1>1, <1>4 DEF InputInv
  <2>2. PICK k \in Lines : data[k] = input /\ hash[k] = HashOf(pos - 1)
    BY <2>1
  <2>3. pos - 1 \in Positions /\ pos - 1 # pos
    BY SMTT(60), <1>1, PipeAssumption DEF Positions
  <2>4. k # o
    BY <1>1, <1>2, <2>2, <2>3, HashesDiffer
  <2> QED BY <1>1, <1>2, <2>1, <2>2, <2>4 DEF LinesOwnBuffers
<1> QED BY <1>3, <1>4

(* A module writes its output; the focused one has its input reweighted. *)
LEMMA ProcessAges == ASSUME AInv, PInv', ~AllocFails, Process PROVE AInv'
<1>1. /\ RefreshSeen' /\ touched' = touched /\ committed' = committed
      /\ data' = data /\ hash' = hash
      /\ scan = NoScan /\ scan' = NoScan /\ pc' \in {"flush", "get"}
  BY DEF Process, Returned, AInv, RefreshSeen, ScanReset, guiVars
<1>2. /\ PInv /\ PTypeOK /\ pos \in Positions /\ LinesOwnBuffers
      /\ data \in [Lines -> Buffers \cup {NoBuf}]
      /\ used \in [Lines -> Int] /\ spared \in [line : Lines, gets : 0 .. Entries]
      /\ content \in [Buffers \cup {Raw} -> Hashes \cup {Garbage}]
  BY DEF AInv, PInv, PTypeOK
<1>3. ScanReset' /\ RestInv'
  BY <1>1 DEF ScanReset, RestInv
<1>4. output \in Buffers
  <2>1. PICK k \in Lines : data[k] = output /\ size[k] >= Sizes[pos]
    BY <1>2 DEF Process, PInv, OutputOwned
  <2>2. size[k] > 0
    BY SMTT(60), <1>2, <2>1, PipeAssumption DEF PTypeOK
  <2> QED BY <1>2, <2>1, <2>2 DEF PInv, ClaimsBacked
<1>5. /\ content'[output] = Rendered
      /\ \A c \in Buffers \cup {Raw} : c # output => content'[c] = content[c]
  BY <1>2, <1>4, PipeAssumption DEF Process
<1>6. RawKept'
  BY <1>4, <1>5, PipeAssumption DEF AInv, RawKept
<1>7. CASE touched
  BY <1>1, <1>3, <1>6, <1>7, TouchedRun DEF AInv
<1>8. CASE ~touched
  <2>1. HashInv /\ InputInv /\ Top = pos /\ (Top < Modules => AgeInv)
    BY <1>8 DEF AInv, RunInv, Top, Process
  <2>2. \A p : HashOf(p)' = HashOf(p)
    BY <1>1 DEF HashOf
  <2>3. pos > 0 => input \notin {output, NoBuf} /\ content[input] = HashOf(pos - 1)
    BY <1>8, InputsIntact DEF AgeProtectsInput, InputIntact, Process
  <2>4. Rendered = HashOf(pos)
    <3>1. pos = 0 \/ pos > 0
      BY SMTT(60), <1>2, PipeAssumption DEF Positions
    <3> QED BY <2>3, <3>1 DEF Rendered
  <2>5. \A k \in Lines : Age(k) = used[k] /\ Age(k)' = used'[k]
    <3>1. used' \in [Lines -> Int]
      BY DEF PInv, PTypeOK
    <3> QED BY SMTT(60), <1>1, <1>2, <3>1 DEF Age, NoScan, Lines
  <2>6. ASSUME NEW k \in Lines
        PROVE  \/ used'[k] = used[k]
               \/ used'[k] = -Entries /\ pos > 0 /\ pos = Focus /\ data[k] = input
                  /\ hash[k] = HashOf(Focus - 1)
    <3>1. CASE pos # 0 /\ pos = Focus /\ data[k] = input
      <4>1. pos > 0
        BY SMTT(60), <1>2, <3>1, PipeAssumption DEF Positions
      <4>2. used'[k] = -Entries
        BY <3>1 DEF Process, Reweighted
      <4>3. input # Raw /\ input # NoBuf
        BY <1>2, <2>3, <3>1, <4>1, PipeAssumption
      <4>4. PICK j \in Lines : data[j] = input /\ hash[j] = HashOf(pos - 1)
        BY <2>1, <4>1, <4>3 DEF InputInv
      <4>5. j = k
        BY <1>2, <3>1, <4>3, <4>4 DEF LinesOwnBuffers
      <4> QED BY <3>1, <4>1, <4>2, <4>4, <4>5
    <3>2. CASE ~(pos # 0 /\ pos = Focus /\ data[k] = input)
      BY <3>2 DEF Process, Reweighted
    <3> QED BY <3>1, <3>2
  <2>7. SpareInv'
    <3>1. CASE spared' = spared
      <4>1. PICK s \in Lines : s = spared.line
        BY <1>2
      <4>2. Age(spared.line)' = used'[s]
        BY <2>5, <3>1, <4>1 DEF Age
      <4>3. ASSUME spared.gets < Entries
            PROVE  /\ Focus > 0 /\ hash[s] = HashOf(Focus - 1)
                   /\ used'[s] <= spared.gets - Entries
        <5>1. /\ Focus > 0 /\ hash[s] = HashOf(Focus - 1)
              /\ Age(s) <= spared.gets - Entries
          BY <1>8, <4>1, <4>3 DEF AInv, SpareInv, Process
        <5>2. spared.gets \in Nat
          BY SMTT(60), <1>2, PipeAssumption
        <5>3. used'[s] = used[s] \/ used'[s] = -Entries
          BY <2>6
        <5> QED BY SMTT(60), <1>2, <2>5, <5>1, <5>2, <5>3, PipeAssumption
      <4> QED BY <1>1, <2>2, <3>1, <4>1, <4>2, <4>3 DEF SpareInv
    <3>2. CASE spared' # spared
      <4>1. /\ pos # 0 /\ pos = Focus /\ \E k \in Lines : data[k] = input
            /\ spared' = [line |-> CHOOSE k \in Lines : data[k] = input, gets |-> 0]
            /\ used' = Reweighted(input)
        BY <3>2 DEF Process
      <4>2. PICK s \in Lines : data[s] = input /\ s = CHOOSE k \in Lines : data[k] = input
        BY <4>1
      <4>3. spared'.line = s /\ spared'.gets = 0
        BY <4>1, <4>2
      <4>4. used'[s] = -Entries
        BY <4>1, <4>2 DEF Reweighted
      <4>5. pos > 0 /\ input # NoBuf /\ input # Raw
        <5>1. pos > 0
          BY SMTT(60), <1>2, <4>1, PipeAssumption DEF Positions
        <5> QED BY <1>2, <2>3, <4>2, <5>1, PipeAssumption
      <4>6. hash[s] = HashOf(Focus - 1)
        <5>1. PICK j \in Lines : data[j] = input /\ hash[j] = HashOf(pos - 1)
          BY <2>1, <4>5 DEF InputInv
        <5>2. j = s
          BY <1>2, <4>2, <4>5, <5>1 DEF LinesOwnBuffers
        <5> QED BY <4>1, <5>1, <5>2
      <4>7. Age(spared.line)' = used'[s]
        BY <2>5, <4>3 DEF Age
      <4>8. -Entries <= 0 - Entries
        BY SMTT(60), PipeAssumption
      <4> QED BY <1>1, <2>2, <4>1, <4>3, <4>4, <4>5, <4>6, <4>7, <4>8 DEF SpareInv
    <3> QED BY <3>1, <3>2
  <2>8. CASE pos = Modules
    <3>1. pc' = "flush"
      BY <2>8 DEF Process, Returned
    <3> QED BY <1>1, <1>3, <1>6, <2>7, <3>1 DEF AInv, RunInv, ScanInv
  <2>9. CASE pos # Modules
    <3>1. pc' = "get" /\ input' = output /\ pos' = pos + 1
      BY <2>9 DEF Process, Returned
    <3>2. Top' = pos /\ pos' - 1 = pos /\ pos < Modules
      BY SMTT(60), <1>2, <2>9, <3>1, PipeAssumption DEF Top, Positions
    <3>3. HashInv'
      BY <1>1, <2>1, <2>2, <3>2 DEF HashInv
    <3>4. InputInv'
      <4>1. \E k \in Lines : data[k] = output /\ hash[k] = HashOf(pos)
        BY <2>1 DEF InputInv, Process
      <4>2. output # NoBuf /\ content'[output] = HashOf(pos)
        BY <1>4, <1>5, <2>4, PipeAssumption
      <4>3. HashOf(pos - 1)' = HashOf(pos)
        BY <2>2, <3>2 DEF HashOf
      <4> QED BY <1>1, <3>1, <4>1, <4>2, <4>3 DEF InputInv
    <3>5. AgeInv'
      <4>1. AgeInv
        BY <2>1, <3>2
      <4>2. \A k \in Lines : Newest(k)' = Newest(k) /\ Fav(k)' = Fav(k)
        BY <1>1, <2>1, <2>2, <3>2 DEF Newest, Fav
      <4>3. ASSUME NEW k \in Lines, used'[k] # used[k]
            PROVE  Fav(k) /\ used'[k] = -Entries
        <5>1. used'[k] = -Entries /\ pos > 0 /\ pos = Focus /\ hash[k] = HashOf(Focus - 1)
          BY <2>6, <4>3
        <5>2. Focus - 1 \in Positions /\ Favoured(Focus - 1)
          BY SMTT(60), <1>2, <5>1, PipeAssumption DEF Positions, Favoured
        <5> QED BY <5>1, <5>2 DEF Fav
      <4>4. -Entries <= 0
        BY SMTT(60), PipeAssumption
      <4>5. \A k \in Lines : Newest(k)' => Age(k)' <= 0
        BY <2>5, <4>1, <4>2, <4>3, <4>4 DEF AgeInv
      <4>6. \A k \in Lines : ~Fav(k)' => Age(k)' = Age(k)
        BY <2>5, <4>2, <4>3
      <4> QED BY <1>1, <4>1, <4>2, <4>5, <4>6 DEF AgeInv
    <3>6. RunInv' /\ ScanInv'
      BY <3>1, <3>3, <3>4, <3>5 DEF RunInv, ScanInv
    <3> QED BY <1>1, <1>3, <1>6, <2>7, <3>6 DEF AInv
  <2> QED BY <2>8, <2>9
<1> QED BY <1>7, <1>8

(* The end of the run flushes the cache. *)
LEMMA FlushAges == ASSUME AInv, PInv', Flush PROVE AInv'
<1>1. RefreshSeen' /\ RawKept' /\ ScanReset' /\ pc' = "publish" /\ scan' = NoScan
  BY DEF Flush, AInv, RefreshSeen, RawKept, ScanReset, memVars, guiVars
<1>2. Clean' /\ spared' = NotSpared
  BY DEF Flush, Flushed, Clean
<1>3. RunInv' /\ ScanInv' /\ SpareInv'
  BY <1>1, <1>2, CleanRun
<1> QED BY <1>1, <1>2, <1>3 DEF AInv, RestInv

(* The result is published from a flushed cache. *)
LEMMA PublishAges == ASSUME AInv, PInv', Publish PROVE AInv'
<1>1. RefreshSeen' /\ RawKept' /\ ScanReset' /\ pc' = "idle" /\ scan' = NoScan
  BY DEF Publish, AInv, RefreshSeen, RawKept, ScanReset, memVars
<1>2. Clean' /\ spared' = NotSpared
  BY DEF Publish, AInv, RestInv, Clean, cacheVars
<1>3. RunInv' /\ ScanInv' /\ SpareInv'
  BY <1>1, <1>2, CleanRun
<1> QED BY <1>1, <1>2, <1>3 DEF AInv, RestInv

(* An edit does not reach into the cache. *)
LEMMA EditAges == ASSUME AInv, PInv', Edit PROVE AInv'
<1>1. RefreshSeen' /\ RawKept' /\ ScanReset'
  BY DEF Edit, AInv, RefreshSeen, RawKept, ScanReset, memVars, runVars
<1>2. RestInv'
  BY DEF Edit, AInv, RestInv, Clean, cacheVars, runVars
<1>3. RunInv' /\ ScanInv' /\ SpareInv'
  BY RunUntouched DEF Edit
<1> QED BY <1>1, <1>2, <1>3 DEF AInv

(* A refresh meets the run. *)
LEMMA RefreshAges == ASSUME AInv, PInv', NEW p \in Refreshed, Refresh(p) PROVE AInv'
<1>1. RefreshSeen' /\ RawKept' /\ ScanReset' /\ touched'
  BY DEF Refresh, AInv, RefreshSeen, RawKept, ScanReset, memVars, runVars
<1>2. RestInv'
  BY <1>1 DEF Refresh, AInv, RestInv, Clean, cacheVars, runVars
<1> QED BY <1>1, <1>2, TouchedRun DEF AInv

(* A refresh leaves a flushed line flushed. *)
LEMMA RefreshLineAges == ASSUME AInv, PInv', RefreshLine PROVE AInv'
<1>1. touched
  BY SMTT(60), PipeAssumption DEF RefreshLine, NoRefresh, AInv, RefreshSeen
<1>2. touched' /\ RawKept' /\ ScanReset' /\ RefreshSeen'
  BY <1>1 DEF RefreshLine, AInv, RefreshSeen, RawKept, ScanReset, memVars, runVars
<1>3. RestInv'
  <2>1. hash \in [Lines -> Hashes \cup {NoHash}] /\ used \in [Lines -> Int]
    BY DEF AInv, PInv, PTypeOK
  <2>2. Clean => Clean'
    BY <2>1 DEF RefreshLine, Clean
  <2> QED BY <1>2, <2>2 DEF RefreshLine, AInv, RestInv, runVars
<1> QED BY <1>2, <1>3, TouchedRun DEF AInv

(* Nothing happens to the pipe. *)
LEMMA StutterAges == ASSUME AInv, PInv', UNCHANGED vars PROVE AInv'
<1>1. RefreshSeen' /\ RawKept' /\ ScanReset'
  BY DEF vars, AInv, RefreshSeen, RawKept, ScanReset, memVars, runVars, guiVars
<1>2. RestInv'
  BY DEF vars, AInv, RestInv, Clean, cacheVars, runVars, guiVars
<1>3. RunInv' /\ ScanInv' /\ SpareInv'
  BY RunUntouched DEF vars, guiVars
<1> QED BY <1>1, <1>2, <1>3 DEF AInv

(* The ages keep the lines apart in every run that no refresh meets. *)
THEOREM AgeInvariant == ASSUME EnoughLines, ~AllocFails PROVE Spec => []AInv
<1>1. PInv /\ [Next]_vars => PInv'
  BY StartKeeps, LookKeeps, GetKeeps, ScanLineKeeps, TakeKeeps, ProcessKeeps, FlushKeeps,
     PublishKeeps, EditKeeps, RefreshKeeps, RefreshLineKeeps, StutterKeeps
  DEF Next
<1>2. AInv /\ PInv' /\ [Next]_vars => AInv'
  BY StartAges, LookAges, GetAges, ScanLineAges, TakeAges, ProcessAges, FlushAges,
     PublishAges, EditAges, RefreshAges, RefreshLineAges, StutterAges
  DEF Next
<1>3. AInv => PInv
  BY DEF AInv
<1> QED BY <1>1, <1>2, <1>3, AgeInit, PTL DEF Spec

(* dt_dev_pixelpipe_cache_get_weighted never takes the line that holds the *)
(* input of the module it serves: with a line for each important buffer    *)
(* and two to spare, age alone protects the input of every module in every *)
(* run that no refresh meets, wherever the runs before were interrupted.   *)
THEOREM InputProtected ==
  ASSUME EnoughLines, ~AllocFails PROVE Spec => []AgeProtectsInput
<1>1. AInv => AgeProtectsInput
  BY InputsIntact
<1> QED BY <1>1, AgeInvariant, PTL

(* The input of the focused module, made important by                      *)
(* dt_dev_pixelpipe_cache_reweight, outlives as many gets as the cache has *)
(* lines.                                                                  *)
THEOREM FocusKept == ASSUME EnoughLines, ~AllocFails PROVE Spec => []FocusSpared
<1>1. AInv => FocusSpared
  BY DEF AInv, SpareInv, FocusSpared
<1> QED BY <1>1, AgeInvariant, PTL
=============================================================================
