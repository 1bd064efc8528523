---------------------------- MODULE VDFuseProofs ----------------------------
(***************************************************************************)
(* The safety invariants of VDFuse, proved for any number of threads,      *)
(* handles and partitions, any layouts of sector 0 and any disk size.      *)
(*                                                                         *)
(* The argument: a thread that reads the table again holds part_mutex and  *)
(* has seen the count reach zero, and the count is the number of live      *)
(* handles; a transfer belongs to a live handle.  So the two never meet,   *)
(* and what a transfer learnt of its partition stays true.                 *)
(***************************************************************************)
EXTENDS VDFuse, FiniteSetTheorems, TLAPS

-----------------------------------------------------------------------------
(* The inductive invariant.                                                *)

\* A thread that re-reads the table owns part_mutex, and no file is open.
ReleaseInv ==
    \A t \in Threads : pc[t] \in ReleasePCs => part_mutex = t /\ opened = 0

\* A thread between two requests has none; one inside VD_open is alone with a
\* handle that is being opened; one inside the other callbacks has a live one.
RequestInv ==
    \A t \in Threads :
       /\ pc[t] \in {"idle"} \cup ReleasePCs => req[t] = NoRequest
       /\ pc[t] \in OpenPCs =>
             /\ req[t].h \in Handles /\ handle[req[t].h].st = "opening"
             /\ \A s \in Threads \ {t} : req[s].h # req[t].h
       /\ pc[t] \in IOPCs \cup {"flush"} =>
             req[t].h \in Handles /\ handle[req[t].h].st = "live"

\* Entry k of the table is partition k or unallocated.
NumberInv == \A k \in Files : table[k].no \in {k, UNALLOCATED}

\* What a transfer learnt of its file still holds: the entry is allocated and,
\* once the length is clamped, the transfer ends inside it.
TransferInv ==
    \A t \in Threads :
       /\ pc[t] \in IOPCs => table[FileOf(t)].no = FileOf(t) /\ req[t].len > 0
       /\ pc[t] \in {"io_lock", "io_disk"} =>
             req[t].off + req[t].len <= table[FileOf(t)].size

IInv ==
    /\ TypeOK
    /\ OpenCountMatches
    /\ ReleaseInv
    /\ RequestInv
    /\ NumberInv
    /\ TransferInv
    /\ ExitOnlyQuiescent

-----------------------------------------------------------------------------
(* Lemmas.                                                                 *)

\* What initialisePartitionTable makes of a layout is a table, entry by entry.
LEMMA ParsedTableType ==
    ASSUME NEW m \in Layouts
    PROVE  /\ ParsedTable(m) \in [Files -> Entry]
           /\ \A k \in Files : ParsedTable(m)[k].no \in {k, UNALLOCATED}
<1>1. m \in Layout
  BY ConstantsAssumption
<1>2. /\ EntireEntry \in Entry /\ EntireEntry.no = 0
      /\ Unallocated \in Entry /\ Unallocated.no = UNALLOCATED
  BY ConstantsAssumption DEF EntireEntry, Entry, Unallocated, Files
<1>3. \A k \in Partitions : /\ [m.part[k] EXCEPT !.no = k] \in Entry
                            /\ [m.part[k] EXCEPT !.no = k].no = k
  BY <1>1 DEF Layout, Entry, Files
<1>4. Allocated(m) \subseteq Partitions
  BY DEF Allocated
<1>5. \A k \in Files : /\ ParsedTable(m)[k] \in Entry
                       /\ ParsedTable(m)[k].no \in {k, UNALLOCATED}
  BY <1>2, <1>3, <1>4 DEF ParsedTable, Files
<1>6. ParsedTable(m) = [k \in Files |-> ParsedTable(m)[k]]
  BY DEF ParsedTable
<1>7. QED
  BY <1>5, <1>6

\* lastPartition stays the number of a file.
LEMMA ParsedLastType ==
    ASSUME NEW m \in Layouts, NEW old \in Files
    PROVE  ParsedLast(m, old) \in Files
<1>1. Allocated(m) \in SUBSET Partitions
  BY DEF Allocated
<1>2. CASE Allocated(m) = {}
  BY <1>2 DEF ParsedLast
<1>3. CASE Allocated(m) # {}
  <2>1. \E k \in Allocated(m) : \A j \in Allocated(m) : j <= k
    BY <1>1, <1>3, ConstantsAssumption
  <2>2. ParsedLast(m, old) \in Allocated(m)
    BY <1>3, <2>1 DEF ParsedLast
  <2>3. QED
    BY <1>1, <2>2 DEF Files
<1>4. QED
  BY <1>2, <1>3

\* A read of sector 0 failed or did not.
LEMMA MisreadType == MisreadOutcomes \subseteq BOOLEAN
BY DEF MisreadOutcomes

\* The wiped table, and the one that lists EntireDisk alone.
LEMMA WipedTableType ==
    /\ WipedTable \in [Files -> Entry]
    /\ \A k \in Files : WipedTable[k].no \in {k, UNALLOCATED}
BY DEF WipedTable, Unallocated, Entry

\* No handle is live exactly when the count is zero.
LEMMA CountZero ==
    ASSUME OpenCountMatches
    PROVE  /\ IsFiniteSet(Live)
           /\ opened = 0 <=> Live = {}
<1>1. IsFiniteSet(Live)
  <2>1. Live \subseteq Handles
    BY DEF Live
  <2>2. QED
    BY <2>1, ConstantsAssumption, FS_Subset
<1>2. QED
  BY <1>1, FS_EmptySet DEF OpenCountMatches

\* While a thread has a transfer or a flush in progress, no thread re-reads the
\* table.
LEMMA NoReleaseDuringIO ==
    ASSUME IInv, NEW t \in Threads, pc[t] \in IOPCs \cup {"flush"}
    PROVE  \A s \in Threads : pc[s] \notin ReleasePCs
<1>1. req[t].h \in Live
  BY DEF IInv, RequestInv, Live
<1>2. opened # 0
  BY <1>1, CountZero DEF IInv
<1>3. QED
  BY <1>2 DEF IInv, ReleaseInv

-----------------------------------------------------------------------------
\* When main mounts the image no file is open and the table is just read.
LEMMA InitIInv == Init => IInv
<1> SUFFICES ASSUME Init PROVE IInv
  OBVIOUS
<1>1. /\ mbr \in Layouts
      /\ \E m \in Layouts : table = ParsedTable(m) /\ lastPartition = ParsedLast(m, 0)
  BY DEF Init, SectorRead
<1>2. Live = {} /\ \A t \in Threads : pc[t] = "idle" /\ req[t] = NoRequest
  BY DEF Init, Live, Free
<1>3. TypeOK
  <2>1. 0 \in Files
    BY DEF Files
  <2>2. /\ table \in [Files -> Entry]
        /\ lastPartition \in Files
    BY <1>1, <2>1, ParsedTableType, ParsedLastType
  <2>3. handle \in [Handles -> Handle]
    BY <2>1 DEF Init, Free, Handle
  <2>4. req \in [Threads -> Request]
    BY DEF Init, NoRequest, On, Request
  <2>5. QED
    BY <1>1, <2>2, <2>3, <2>4, MisreadType DEF Init, TypeOK, PCs
<1>4. OpenCountMatches
  BY <1>2, FS_EmptySet DEF Init, OpenCountMatches
<1>5. NumberInv
  BY <1>1, ParsedTableType DEF NumberInv
<1>6. ReleaseInv /\ RequestInv /\ TransferInv /\ ExitOnlyQuiescent
  BY <1>2 DEF Init, ReleaseInv, RequestInv, TransferInv, ExitOnlyQuiescent,
              ReleasePCs, OpenPCs, IOPCs
<1>7. QED
  BY <1>3, <1>4, <1>5, <1>6 DEF IInv

-----------------------------------------------------------------------------
(* VD_open.                                                                *)

\* VD_open, the lookup: the handle was free, so no other thread is about it.
LEMMA OpenFindIInv ==
    ASSUME IInv, NEW t \in Threads, NEW h \in Handles, NEW f \in Files,
           NEW w \in BOOLEAN, VD_open_find(t, h, f, w)
    PROVE  IInv'
<1> USE DEF VD_open_find, Take, Goto, tableVars, flagVars, NoRequest, On
<1>1. TypeOK'
  BY DEF IInv, TypeOK, Handle, Request, NoRequest, PCs, OpenPCs
<1>2. Live' = Live
  BY DEF IInv, TypeOK, Live
<1>3. OpenCountMatches'
  BY <1>2 DEF IInv, OpenCountMatches
<1>4. ReleaseInv'
  BY DEF IInv, TypeOK, ReleaseInv, ReleasePCs
<1>5. RequestInv'
  <2>1. \A s \in Threads : req[s].h # h
    BY ConstantsAssumption DEF IInv, TypeOK, RequestInv, PCs
  <2>2. QED
    BY <2>1 DEF IInv, TypeOK, RequestInv, ReleasePCs, OpenPCs, IOPCs
<1>6. TransferInv'
  BY DEF IInv, TypeOK, TransferInv, RequestInv, FileOf, IOPCs, OpenPCs, NoRequest, Request
<1>7. NumberInv' /\ ExitOnlyQuiescent'
  BY <1>2 DEF IInv, NumberInv, ExitOnlyQuiescent
<1>8. QED
  BY <1>1, <1>3, <1>4, <1>5, <1>6, <1>7 DEF IInv

\* VD_open, refused: the handle is free again and was never counted.
LEMMA OpenRefuseIInv ==
    ASSUME IInv, NEW t \in Threads, VD_open_refuse(t)
    PROVE  IInv'
<1> USE DEF VD_open_refuse, Reply, Goto, tableVars, flagVars, NoRequest, On
<1>1. /\ req[t].h \in Handles /\ handle[req[t].h].st = "opening"
      /\ \A s \in Threads \ {t} : req[s].h # req[t].h
  BY DEF IInv, RequestInv, OpenPCs
<1>2. TypeOK'
  BY <1>1 DEF IInv, TypeOK, Handle, Free, Request, PCs, Files
<1>3. Live' = Live
  BY <1>1 DEF IInv, TypeOK, Live, Free
<1>4. OpenCountMatches'
  BY <1>3 DEF IInv, OpenCountMatches
<1>5. ReleaseInv'
  BY DEF IInv, TypeOK, ReleaseInv, ReleasePCs
<1>6. RequestInv'
  BY <1>1, ConstantsAssumption
     DEF IInv, TypeOK, RequestInv, ReleasePCs, OpenPCs, IOPCs
<1>7. TransferInv'
  BY <1>1 DEF IInv, TypeOK, TransferInv, RequestInv, FileOf, IOPCs
<1>8. NumberInv' /\ ExitOnlyQuiescent'
  BY <1>3 DEF IInv, NumberInv, ExitOnlyQuiescent
<1>9. QED
  BY <1>2, <1>4, <1>5, <1>6, <1>7, <1>8 DEF IInv

\* VD_open, the check passed and the flag set: only the thread moves on.
LEMMA OpenMoveIInv ==
    ASSUME IInv, NEW t \in Threads, VD_open_check(t) \/ VD_open_set(t)
    PROVE  IInv'
<1> USE DEF VD_open_check, VD_open_set, Goto, tableVars, flagVars
<1>1. TypeOK'
  BY DEF IInv, TypeOK, PCs, OpenPCs
<1>2. Live' = Live
  BY DEF Live
<1>3. OpenCountMatches' /\ NumberInv' /\ ExitOnlyQuiescent'
  BY <1>2 DEF IInv, OpenCountMatches, NumberInv, ExitOnlyQuiescent
<1>4. ReleaseInv'
  BY DEF IInv, TypeOK, ReleaseInv, ReleasePCs
<1>5. RequestInv'
  BY DEF IInv, TypeOK, RequestInv, ReleasePCs, OpenPCs, IOPCs
<1>6. TransferInv'
  BY DEF IInv, TypeOK, TransferInv, FileOf, IOPCs
<1>7. QED
  BY <1>1, <1>3, <1>4, <1>5, <1>6 DEF IInv

\* VD_open, the count: one more live handle, and part_mutex was free.
LEMMA OpenCountIInv ==
    ASSUME IInv, NEW t \in Threads, VD_open_count(t)
    PROVE  IInv'
<1> USE DEF VD_open_count, Reply, Goto, tableVars, flagVars, NoRequest, On
<1>1. /\ req[t].h \in Handles /\ handle[req[t].h].st = "opening"
      /\ \A s \in Threads \ {t} : req[s].h # req[t].h
  BY DEF IInv, RequestInv, OpenPCs
<1>2. TypeOK'
  BY <1>1 DEF IInv, TypeOK, Handle, Request, PCs
<1>3. Live' = Live \cup {req[t].h} /\ req[t].h \notin Live
  BY <1>1 DEF IInv, TypeOK, Handle, Live
<1>4. OpenCountMatches'
  BY <1>3, CountZero, FS_AddElement DEF IInv, OpenCountMatches
<1>5. ReleaseInv'
  BY ConstantsAssumption DEF IInv, TypeOK, ReleaseInv, ReleasePCs
<1>6. RequestInv'
  BY <1>1, ConstantsAssumption
     DEF IInv, TypeOK, Handle, RequestInv, ReleasePCs, OpenPCs, IOPCs
<1>7. TransferInv'
  BY <1>1 DEF IInv, TypeOK, Handle, TransferInv, RequestInv, FileOf, IOPCs
<1>8. NumberInv' /\ ExitOnlyQuiescent'
  BY DEF IInv, NumberInv, ExitOnlyQuiescent
<1>9. QED
  BY <1>2, <1>4, <1>5, <1>6, <1>7, <1>8 DEF IInv

-----------------------------------------------------------------------------
(* The close of a file and VD_release.                                     *)

\* The kernel drops a handle: it still counts as live.
LEMMA KernelCloseIInv ==
    ASSUME IInv, NEW h \in Handles, KernelClose(h)
    PROVE  IInv'
<1> USE DEF KernelClose, tableVars, flagVars
<1>1. TypeOK'
  BY DEF IInv, TypeOK, Handle
<1>2. Live' = Live
  BY DEF IInv, TypeOK, Handle, Live
<1>3. OpenCountMatches' /\ NumberInv' /\ ReleaseInv' /\ ExitOnlyQuiescent'
  BY <1>2 DEF IInv, OpenCountMatches, NumberInv, ReleaseInv, ExitOnlyQuiescent
<1>4. RequestInv'
  BY DEF IInv, TypeOK, Handle, RequestInv
<1>5. TransferInv'
  BY DEF IInv, TypeOK, Handle, TransferInv, RequestInv, FileOf, IOPCs
<1>6. QED
  BY <1>1, <1>3, <1>4, <1>5 DEF IInv

\* VD_release, the count: the thread that takes it to zero keeps part_mutex.
LEMMA ReleaseIInv ==
    ASSUME IInv, NEW t \in Threads, NEW h \in Handles, VD_release(t, h)
    PROVE  IInv'
<1> USE DEF VD_release, Goto, tableVars, flagVars
<1>1. h \in Live /\ Live' = Live \ {h}
  BY DEF IInv, TypeOK, Live, Free
<1>2. opened > 0 /\ opened' \in Nat
  <2>1. opened \in Nat /\ opened # 0
    BY <1>1, CountZero DEF IInv, TypeOK
  <2>2. QED
    BY <2>1
<1>3. TypeOK'
  BY <1>2 DEF IInv, TypeOK, Handle, Free, PCs, ReleasePCs, Files
<1>4. OpenCountMatches'
  BY <1>1, CountZero, FS_RemoveElement DEF IInv, OpenCountMatches
<1>5. ReleaseInv'
  BY <1>2, ConstantsAssumption DEF IInv, TypeOK, ReleaseInv, ReleasePCs
<1>6. RequestInv'
  BY DEF IInv, TypeOK, RequestInv, ReleasePCs, OpenPCs, IOPCs
<1>7. TransferInv'
  BY DEF IInv, TypeOK, TransferInv, RequestInv, FileOf, IOPCs
<1>8. NumberInv' /\ ExitOnlyQuiescent'
  BY DEF IInv, NumberInv, ExitOnlyQuiescent
<1>9. QED
  BY <1>3, <1>4, <1>5, <1>6, <1>7, <1>8 DEF IInv

\* The steps that rewrite the table: no transfer is in progress meanwhile.
LEMMA ReleaseTableIInv ==
    ASSUME IInv, NEW t \in Threads,
           VD_release_wipe(t) \/ VD_release_entire(t) \/ VD_release_parse(t)
    PROVE  IInv'
<1> USE DEF VD_release_wipe, VD_release_entire, VD_release_parse, Goto, flagVars
<1>1. \A s \in Threads : pc[s] \notin IOPCs
  BY NoReleaseDuringIO DEF ReleasePCs
<1>2. /\ table' \in [Files -> Entry]
      /\ lastPartition' \in Files
      /\ NumberInv'
  <2>1. CASE VD_release_wipe(t)
    BY <2>1, WipedTableType DEF IInv, TypeOK, NumberInv
  <2>2. CASE VD_release_entire(t)
    <3>1. EntireEntry \in Entry /\ EntireEntry.no = 0
      BY ConstantsAssumption DEF EntireEntry, Entry, Files
    <3>2. QED
      BY <2>2, <3>1 DEF IInv, TypeOK, NumberInv
  <2>3. CASE VD_release_parse(t)
    <3>1. PICK m \in Layouts : /\ table' = ParsedTable(m)
                               /\ lastPartition' = ParsedLast(m, lastPartition)
      BY <2>3 DEF IInv, TypeOK, SectorRead
    <3>2. QED
      BY <3>1, ParsedTableType, ParsedLastType DEF IInv, TypeOK, NumberInv
  <2>4. QED
    BY <2>1, <2>2, <2>3
<1>3. /\ pc' \in [Threads -> PCs]
      /\ \A s \in Threads : pc'[s] \in ReleasePCs <=> pc[s] \in ReleasePCs
      /\ \A s \in Threads \ {t} : pc'[s] = pc[s]
      /\ pc'[t] \in ReleasePCs /\ pc'[t] \notin IOPCs /\ pc'[t] \notin OpenPCs
  BY DEF IInv, TypeOK, PCs, ReleasePCs, IOPCs, OpenPCs
<1>4. UNCHANGED <<mbr, entireDiskOpened, partitionOpened, opened, part_mutex,
                  disk_mutex, handle, req, daemon>>
  OBVIOUS
<1>5. TypeOK'
  <2>1. misread' = misread \/ misread' \in MisreadOutcomes
    OBVIOUS
  <2>2. misread' \in BOOLEAN
    BY <2>1, MisreadType DEF IInv, TypeOK
  <2>3. QED
    BY <1>2, <1>3, <1>4, <2>2 DEF IInv, TypeOK
<1>6. OpenCountMatches'
  BY <1>4 DEF IInv, OpenCountMatches, Live
<1>7. ReleaseInv'
  BY <1>3, <1>4 DEF IInv, ReleaseInv
<1>8. RequestInv'
  BY <1>3, <1>4 DEF IInv, RequestInv, ReleasePCs, IOPCs
<1>9. TransferInv'
  BY <1>1, <1>3 DEF TransferInv, IOPCs
<1>10. ExitOnlyQuiescent'
  BY <1>4 DEF ExitOnlyQuiescent
<1>11. QED
  BY <1>2, <1>5, <1>6, <1>7, <1>8, <1>9, <1>10 DEF IInv

\* usageAndExit inside VD_release: no file is open.
LEMMA ReleaseExitIInv ==
    ASSUME IInv, NEW t \in Threads, VD_release_exit(t)
    PROVE  IInv'
<1> USE DEF VD_release_exit, tableVars, flagVars
<1>1. pc[t] \in ReleasePCs
  BY DEF ReleasePCs
<1>2. \A s \in Threads : pc[s] \notin IOPCs \cup {"flush"}
  BY <1>1, NoReleaseDuringIO
<1>3. Live = {}
  BY <1>1, CountZero DEF IInv, ReleaseInv
<1>4. ExitOnlyQuiescent'
  BY <1>2, <1>3 DEF ExitOnlyQuiescent, Live
<1>5. TypeOK'
  BY DEF IInv, TypeOK
<1>6. (/\ OpenCountMatches /\ ReleaseInv /\ RequestInv /\ NumberInv /\ TransferInv)'
  BY DEF IInv, OpenCountMatches, Live, ReleaseInv, RequestInv, NumberInv,
         TransferInv, FileOf
<1>7. QED
  BY <1>4, <1>5, <1>6 DEF IInv

\* VD_release, the two resets; the second gives part_mutex back.
LEMMA ReleaseFlagsIInv ==
    ASSUME IInv, NEW t \in Threads, VD_release_flag0(t) \/ VD_release_flag1(t)
    PROVE  IInv'
<1> USE DEF VD_release_flag0, VD_release_flag1, Goto, tableVars
<1>1. TypeOK'
  BY DEF IInv, TypeOK, PCs, ReleasePCs
<1>2. OpenCountMatches' /\ NumberInv' /\ ExitOnlyQuiescent'
  BY DEF IInv, OpenCountMatches, Live, NumberInv, ExitOnlyQuiescent
<1>3. ReleaseInv'
  BY DEF IInv, TypeOK, ReleaseInv, ReleasePCs
<1>4. RequestInv'
  BY DEF IInv, TypeOK, RequestInv, ReleasePCs, OpenPCs, IOPCs
<1>5. TransferInv'
  BY DEF IInv, TypeOK, TransferInv, FileOf, IOPCs
<1>6. QED
  BY <1>1, <1>2, <1>3, <1>4, <1>5 DEF IInv

-----------------------------------------------------------------------------
(* VD_read, VD_write and VD_flush.                                         *)

\* VD_read and VD_write, the lookup: the entry found is allocated.
LEMMA IOFindIInv ==
    ASSUME IInv, NEW t \in Threads, NEW h \in Handles, NEW o \in {"read", "write"},
           NEW x \in 0..DiskSize, NEW n \in 1..MaxLen, VD_io_find(t, h, o, x, n)
    PROVE  IInv'
<1> USE DEF VD_io_find, Take, Goto, tableVars, flagVars
<1>1. TypeOK'
  BY ConstantsAssumption DEF IInv, TypeOK, Request, PCs, IOPCs
<1>2. OpenCountMatches' /\ NumberInv' /\ ExitOnlyQuiescent'
  BY DEF IInv, OpenCountMatches, Live, NumberInv, ExitOnlyQuiescent
<1>3. ReleaseInv'
  BY DEF IInv, TypeOK, ReleaseInv, ReleasePCs
<1>4. RequestInv'
  BY DEF IInv, TypeOK, RequestInv, ReleasePCs, OpenPCs, IOPCs
<1>5. table[handle[h].file].no = handle[h].file
  <2>1. handle[h].file \in Files
    BY DEF IInv, TypeOK, Handle
  <2>2. QED
    BY <2>1 DEF IInv, NumberInv, findPartition
<1>6. TransferInv'
  BY <1>5, ConstantsAssumption DEF IInv, TypeOK, TransferInv, FileOf, IOPCs
<1>7. QED
  BY <1>1, <1>2, <1>3, <1>4, <1>6 DEF IInv

\* VD_read and VD_write, the check and the lock: only the thread moves on.
LEMMA IOMoveIInv ==
    ASSUME IInv, NEW t \in Threads, VD_io_check(t) \/ VD_io_lock(t)
    PROVE  IInv'
<1> USE DEF VD_io_check, VD_io_lock, Goto, tableVars, flagVars
<1>1. TypeOK'
  BY DEF IInv, TypeOK, PCs, IOPCs
<1>2. OpenCountMatches' /\ NumberInv' /\ ExitOnlyQuiescent'
  BY DEF IInv, OpenCountMatches, Live, NumberInv, ExitOnlyQuiescent
<1>3. ReleaseInv'
  BY DEF IInv, TypeOK, ReleaseInv, ReleasePCs
<1>4. RequestInv'
  BY DEF IInv, TypeOK, RequestInv, ReleasePCs, OpenPCs, IOPCs
<1>5. TransferInv'
  BY DEF IInv, TypeOK, TransferInv, FileOf, IOPCs
<1>6. QED
  BY <1>1, <1>2, <1>3, <1>4, <1>5 DEF IInv

\* VD_read and VD_write, the clamp: a positive length that ends in the file.
LEMMA IOClampIInv ==
    ASSUME IInv, NEW t \in Threads, VD_io_clamp(t)
    PROVE  IInv'
<1> USE DEF VD_io_clamp, Goto, tableVars, flagVars
<1>1. /\ req[t].h \in Handles
      /\ req[t].off \in Nat /\ req[t].len \in Nat /\ req[t].len > 0
      /\ table[FileOf(t)].size \in Nat
  <2>1. req[t].h \in Handles /\ req[t].len > 0
    BY DEF IInv, RequestInv, TransferInv, IOPCs
  <2>2. FileOf(t) \in Files
    BY <2>1 DEF IInv, TypeOK, Handle, FileOf
  <2>3. QED
    BY <2>1, <2>2 DEF IInv, TypeOK, Request, Entry
<1> DEFINE n == ClampedLen(req[t], table[FileOf(t)].size)
<1>2. n \in Nat /\ n > 0 /\ req[t].off + n <= table[FileOf(t)].size
  BY <1>1 DEF ClampedLen
<1> HIDE DEF n
<1>3. /\ req' = [req EXCEPT ![t].len = n]
      /\ UNCHANGED <<mbr, table, lastPartition, entireDiskOpened, partitionOpened,
                     opened, part_mutex, disk_mutex, handle, daemon>>
  BY DEF n
<1>4. /\ req'[t].h = req[t].h /\ req'[t].off = req[t].off /\ req'[t].len = n
      /\ \A s \in Threads \ {t} : req'[s] = req[s]
      /\ req' \in [Threads -> Request]
  BY <1>2, <1>3, SMTT(40) DEF IInv, TypeOK, Request
<1>5. TypeOK'
  BY <1>3, <1>4 DEF IInv, TypeOK, PCs, IOPCs
<1>6. OpenCountMatches' /\ NumberInv' /\ ExitOnlyQuiescent'
  BY <1>3 DEF IInv, OpenCountMatches, Live, NumberInv, ExitOnlyQuiescent
<1>7. ReleaseInv'
  BY DEF IInv, TypeOK, ReleaseInv, ReleasePCs
<1>8. RequestInv'
  BY <1>3, <1>4 DEF IInv, TypeOK, RequestInv, ReleasePCs, OpenPCs, IOPCs
<1>9. TransferInv'
  <2> SUFFICES ASSUME NEW s \in Threads
               PROVE  /\ pc'[s] \in IOPCs => table'[FileOf(s)'].no = FileOf(s)' /\ req'[s].len > 0
                      /\ pc'[s] \in {"io_lock", "io_disk"} =>
                            req'[s].off + req'[s].len <= table'[FileOf(s)'].size
    BY DEF TransferInv
  <2>1. FileOf(s)' = FileOf(s) /\ table' = table
    BY <1>3, <1>4 DEF FileOf
  <2>2. /\ pc[s] \in IOPCs => table[FileOf(s)].no = FileOf(s) /\ req[s].len > 0
        /\ pc[s] \in {"io_lock", "io_disk"} => req[s].off + req[s].len <= table[FileOf(s)].size
    BY DEF IInv, TransferInv
  <2>3. CASE s = t
    <3>1. pc[t] \in IOPCs
      BY DEF IOPCs
    <3>2. QED
      BY <1>2, <1>4, <2>1, <2>2, <2>3, <3>1
  <2>4. CASE s # t
    <3>1. pc'[s] = pc[s] /\ req'[s] = req[s]
      BY <1>4, <2>4 DEF IInv, TypeOK
    <3>2. QED
      BY <2>1, <2>2, <3>1
  <2>5. QED
    BY <2>3, <2>4
<1>10. QED
  BY <1>5, <1>6, <1>7, <1>8, <1>9 DEF IInv

\* The steps that answer a read, a write or a flush.
LEMMA IOReplyIInv ==
    ASSUME IInv, NEW t \in Threads,
           VD_io_refuse(t) \/ VD_io_eof(t) \/ VD_io_disk(t) \/ VD_flush_done(t)
    PROVE  IInv'
<1> USE DEF VD_io_refuse, VD_io_eof, VD_io_disk, VD_flush_done, Reply, Goto,
            tableVars, flagVars, NoRequest, On
<1>1. mbr' \in Layouts
  BY DEF IInv, TypeOK, SectorAfter
<1>2. TypeOK'
  BY <1>1, SMTT(40) DEF IInv, TypeOK, PCs, Request
<1>3. OpenCountMatches' /\ NumberInv' /\ ExitOnlyQuiescent'
  BY DEF IInv, OpenCountMatches, Live, NumberInv, ExitOnlyQuiescent
<1>4. ReleaseInv'
  BY DEF IInv, TypeOK, ReleaseInv, ReleasePCs
<1>5. RequestInv'
  BY ConstantsAssumption DEF IInv, TypeOK, RequestInv, ReleasePCs, OpenPCs, IOPCs
<1>6. TransferInv'
  BY DEF IInv, TypeOK, TransferInv, FileOf, IOPCs
<1>7. QED
  BY <1>2, <1>3, <1>4, <1>5, <1>6 DEF IInv

\* VD_flush: a request on a live handle.
LEMMA FlushIInv ==
    ASSUME IInv, NEW t \in Threads, NEW h \in Handles, VD_flush(t, h)
    PROVE  IInv'
<1> USE DEF VD_flush, Take, Goto, tableVars, flagVars, On
<1>1. TypeOK'
  BY DEF IInv, TypeOK, Request, PCs
<1>2. OpenCountMatches' /\ NumberInv' /\ ExitOnlyQuiescent'
  BY DEF IInv, OpenCountMatches, Live, NumberInv, ExitOnlyQuiescent
<1>3. ReleaseInv'
  BY DEF IInv, TypeOK, ReleaseInv, ReleasePCs
<1>4. RequestInv'
  BY DEF IInv, TypeOK, RequestInv, ReleasePCs, OpenPCs, IOPCs
<1>5. TransferInv'
  BY DEF IInv, TypeOK, TransferInv, FileOf, IOPCs
<1>6. QED
  BY <1>1, <1>2, <1>3, <1>4, <1>5 DEF IInv

-----------------------------------------------------------------------------
(* The invariant is inductive.                                             *)

\* A stuttering step.
LEMMA UnchangedIInv ==
    ASSUME IInv, UNCHANGED vars
    PROVE  IInv'
BY DEF vars, IInv, TypeOK, OpenCountMatches, Live, ReleaseInv, RequestInv,
       NumberInv, TransferInv, FileOf, ExitOnlyQuiescent

\* VD_destroy: every thread is idle, and the daemon is closed, not exited.
LEMMA DestroyIInv ==
    ASSUME IInv, VD_destroy
    PROVE  IInv'
BY DEF VD_destroy, tableVars, flagVars, IInv, TypeOK, OpenCountMatches, Live,
       ReleaseInv, RequestInv, NumberInv, TransferInv, FileOf, ExitOnlyQuiescent

\* Every step preserves the invariant, action by action.
LEMMA NextIInv == IInv /\ [Next]_vars => IInv'
<1> SUFFICES ASSUME IInv, [Next]_vars PROVE IInv'
  OBVIOUS
<1>1. ASSUME NEW t \in Threads, Step(t) PROVE IInv'
  BY <1>1, OpenRefuseIInv, OpenMoveIInv, OpenCountIInv, ReleaseTableIInv,
     ReleaseExitIInv, ReleaseFlagsIInv, IOMoveIInv, IOClampIInv, IOReplyIInv
     DEF Step
<1>2. ASSUME NEW t \in Threads, NEW h \in Handles, Begin(t, h) PROVE IInv'
  BY <1>2, OpenFindIInv, ReleaseIInv, IOFindIInv, FlushIInv DEF Begin
<1>3. ASSUME NEW h \in Handles, KernelClose(h) PROVE IInv'
  BY <1>3, KernelCloseIInv
<1>4. QED
  BY <1>1, <1>2, <1>3, DestroyIInv, UnchangedIInv DEF Next, Ended

\* IInv is an invariant of the daemon.
THEOREM Invariance == Spec => []IInv
<1>1. Init => IInv
  BY InitIInv
<1>2. IInv /\ [Next]_vars => IInv'
  BY NextIInv
<1>3. QED
  BY <1>1, <1>2, PTL DEF Spec

\* Every variable keeps its type; in particular VD_release never takes the count
\* of opened files below zero and VD_read and VD_write never compute a negative
\* length.
THEOREM TypeCorrect == Spec => []TypeOK
<1>1. IInv => TypeOK
  BY DEF IInv
<1>2. QED
  BY <1>1, Invariance, PTL

\* `opened' is the number of live handles.
THEOREM CountCorrect == Spec => []OpenCountMatches
<1>1. IInv => OpenCountMatches
  BY DEF IInv
<1>2. QED
  BY <1>1, Invariance, PTL

\* The table is read again by one thread at a time, with no file open and no
\* transfer in progress.
THEOREM TableReadAloneCorrect == Spec => []TableReadAlone
<1>1. ASSUME IInv PROVE TableReadAlone
  <2> SUFFICES ASSUME NEW t \in Threads, pc[t] \in ReleasePCs
               PROVE  /\ Live = {}
                      /\ \A s \in Threads \ {t} : pc[s] \notin ReleasePCs \cup IOPCs
    BY DEF TableReadAlone
  <2>1. Live = {}
    BY <1>1, CountZero DEF IInv, ReleaseInv
  <2>2. \A s \in Threads : pc[s] \notin IOPCs
    BY <1>1, NoReleaseDuringIO
  <2>3. \A s \in Threads \ {t} : pc[s] \notin ReleasePCs
    BY <1>1 DEF IInv, ReleaseInv
  <2>4. QED
    BY <2>1, <2>2, <2>3
<1>2. QED
  BY <1>1, Invariance, PTL

\* A transfer stays inside its partition, as the table describes it at the time
\* of the DISKread or DISKwrite.
THEOREM TransferCorrect == Spec => []IOInBounds
<1>1. ASSUME IInv PROVE IOInBounds
  <2> SUFFICES ASSUME NEW t \in Threads, pc[t] \in {"io_lock", "io_disk"}
               PROVE  LET p == table[FileOf(t)]
                      IN  /\ p.no = FileOf(t)
                          /\ Extent(t) # {}
                          /\ \A u \in Extent(t) : p.offset <= u /\ u < p.offset + p.size
    BY DEF IOInBounds
  <2>1. req[t].h \in Handles /\ FileOf(t) \in Files
    BY <1>1 DEF IInv, TypeOK, RequestInv, IOPCs, Handle, FileOf
  <2>2. /\ req[t].off \in Nat /\ req[t].len \in Nat
        /\ table[FileOf(t)].offset \in Nat /\ table[FileOf(t)].size \in Nat
    BY <1>1, <2>1 DEF IInv, TypeOK, Request, Entry
  <2>3. /\ table[FileOf(t)].no = FileOf(t) /\ req[t].len > 0
        /\ req[t].off + req[t].len <= table[FileOf(t)].size
    BY <1>1 DEF IInv, TransferInv, IOPCs
  <2>4. QED
    BY <2>2, <2>3 DEF Extent
<1>2. QED
  BY <1>1, Invariance, PTL

\* The daemon exits from VD_release only when nobody has a file open.
THEOREM ExitCorrect == Spec => []ExitOnlyQuiescent
<1>1. IInv => ExitOnlyQuiescent
  BY DEF IInv
<1>2. QED
  BY <1>1, Invariance, PTL

-----------------------------------------------------------------------------
(* With -r nothing is written.                                             *)

\* No handle that passed the check of VD_open is opened for writing, and every
\* transfer is a read.
ReadonlyInv ==
    readonly =>
       /\ \A h \in Live : ~handle[h].wr
       /\ \A t \in Threads :
             pc[t] \in {"open_set", "open_count"} => ~handle[req[t].h].wr
       /\ \A t \in Threads : pc[t] \in IOPCs => req[t].op = "read"

\* Every step preserves it: VD_open refuses a writer, and the kernel sends no
\* write for a handle that is not opened for writing.
LEMMA ReadonlyStep == IInv /\ ReadonlyInv /\ [Next]_vars => ReadonlyInv'
<1> SUFFICES ASSUME readonly, IInv, ReadonlyInv, [Next]_vars PROVE ReadonlyInv'
  BY DEF ReadonlyInv
<1> USE DEF ReadonlyInv, Live, Goto, tableVars, flagVars
<1>1. ASSUME NEW t \in Threads,
             \/ VD_open_check(t) \/ VD_open_set(t) \/ VD_io_check(t) \/ VD_io_lock(t)
             \/ VD_release_wipe(t) \/ VD_release_entire(t) \/ VD_release_parse(t)
             \/ VD_release_exit(t) \/ VD_release_flag0(t) \/ VD_release_flag1(t)
      PROVE  ReadonlyInv'
  <2>1. UNCHANGED <<handle, req>>
    BY <1>1 DEF VD_open_check, VD_open_set, VD_io_check, VD_io_lock, VD_release_wipe,
                VD_release_entire, VD_release_parse, VD_release_exit,
                VD_release_flag0, VD_release_flag1
  <2>2. \A s \in Threads :
           /\ pc'[s] \in {"open_set", "open_count"} => ~handle[req[s].h].wr
           /\ pc'[s] \in IOPCs => pc[s] \in IOPCs
    BY <1>1 DEF IInv, TypeOK, VD_open_check, VD_open_set, VD_io_check, VD_io_lock,
                VD_release_wipe, VD_release_entire, VD_release_parse,
                VD_release_exit, VD_release_flag0, VD_release_flag1, OpenRefused, IOPCs
  <2>3. QED
    BY <2>1, <2>2
<1>2. ASSUME NEW t \in Threads,
             VD_io_refuse(t) \/ VD_io_eof(t) \/ VD_io_disk(t) \/ VD_flush_done(t)
      PROVE  ReadonlyInv'
  BY <1>2 DEF IInv, TypeOK, VD_io_refuse, VD_io_eof, VD_io_disk, VD_flush_done, Reply,
              IOPCs
<1>3. ASSUME NEW t \in Threads, VD_io_clamp(t) PROVE ReadonlyInv'
  <2>1. \A s \in Threads : req'[s].op = req[s].op /\ req'[s].h = req[s].h
    BY <1>3 DEF IInv, TypeOK, Request, VD_io_clamp
  <2>2. QED
    BY <1>3, <2>1 DEF IInv, TypeOK, VD_io_clamp, IOPCs
<1>4. ASSUME NEW t \in Threads, VD_open_refuse(t) PROVE ReadonlyInv'
  <2>1. /\ req[t].h \in Handles /\ handle[req[t].h].st = "opening"
        /\ \A s \in Threads \ {t} : req[s].h # req[t].h
    BY <1>4 DEF IInv, RequestInv, OpenPCs, VD_open_refuse, Reply
  <2>2. QED
    BY <1>4, <2>1 DEF IInv, TypeOK, VD_open_refuse, Reply, Free, IOPCs
<1>5. ASSUME NEW t \in Threads, VD_open_count(t) PROVE ReadonlyInv'
  <2>1. /\ req[t].h \in Handles /\ ~handle[req[t].h].wr
        /\ \A s \in Threads \ {t} : req[s].h # req[t].h
    BY <1>5 DEF IInv, RequestInv, OpenPCs, VD_open_count, Reply
  <2>2. \A h \in Handles : handle'[h].wr = handle[h].wr
    BY <1>5, <2>1 DEF IInv, TypeOK, Handle, VD_open_count
  <2>3. \A h \in Handles \ {req[t].h} : handle'[h] = handle[h]
    BY <1>5, <2>1 DEF IInv, TypeOK, VD_open_count
  <2>4. \A s \in Threads : pc'[s] \in {"open_set", "open_count"} =>
           req'[s].h \in Handles /\ ~handle'[req'[s].h].wr
    BY <1>5, <2>2 DEF IInv, TypeOK, RequestInv, OpenPCs, VD_open_count, Reply
  <2>5. \A s \in Threads : pc'[s] \in IOPCs => req'[s].op = "read"
    BY <1>5 DEF IInv, TypeOK, VD_open_count, Reply, IOPCs
  <2>6. QED
    BY <2>1, <2>2, <2>3, <2>4, <2>5
<1>6. ASSUME NEW t \in Threads, NEW h \in Handles, NEW f \in Files, NEW w \in BOOLEAN,
             VD_open_find(t, h, f, w)
      PROVE  ReadonlyInv'
  <2>1. \A s \in Threads : pc[s] \in OpenPCs => req[s].h # h
    BY <1>6 DEF IInv, RequestInv, VD_open_find
  <2>2. QED
    BY <1>6, <2>1 DEF IInv, TypeOK, VD_open_find, Take, On, OpenPCs, IOPCs
<1>7. ASSUME NEW t \in Threads, NEW h \in Handles, VD_release(t, h) PROVE ReadonlyInv'
  <2>1. \A s \in Threads : pc[s] \in OpenPCs => req[s].h # h
    BY <1>7 DEF IInv, RequestInv, VD_release
  <2>2. QED
    BY <1>7, <2>1 DEF IInv, TypeOK, VD_release, Free, OpenPCs, IOPCs
<1>8. ASSUME NEW t \in Threads, NEW h \in Handles, NEW o \in {"read", "write"},
             NEW x \in 0..DiskSize, NEW n \in 1..MaxLen, VD_io_find(t, h, o, x, n)
      PROVE  ReadonlyInv'
  BY <1>8 DEF IInv, TypeOK, VD_io_find, Take, IOPCs
<1>9. ASSUME NEW t \in Threads, NEW h \in Handles, VD_flush(t, h) PROVE ReadonlyInv'
  BY <1>9 DEF IInv, TypeOK, VD_flush, Take, On, IOPCs
<1>10. ASSUME NEW h \in Handles, KernelClose(h) PROVE ReadonlyInv'
  <2>1. \A g \in Handles : handle'[g].wr = handle[g].wr
    BY <1>10 DEF IInv, TypeOK, Handle, KernelClose
  <2>2. \A g \in Handles : g # h => handle'[g] = handle[g]
    BY <1>10 DEF IInv, TypeOK, KernelClose
  <2>3. \A s \in Threads : pc[s] \in {"open_set", "open_count"} => req[s].h \in Handles
    BY DEF IInv, RequestInv, OpenPCs
  <2>4. QED
    BY <1>10, <2>1, <2>2, <2>3 DEF KernelClose
<1>11. ASSUME VD_destroy \/ UNCHANGED vars PROVE ReadonlyInv'
  BY <1>11 DEF VD_destroy, vars
<1>12. QED
  BY <1>1, <1>2, <1>3, <1>4, <1>5, <1>6, <1>7, <1>8, <1>9, <1>10, <1>11
     DEF Next, Step, Begin, Ended

\* With -r no thread is ever inside a write.
THEOREM ReadonlyCorrect == Spec => []ReadonlyNoWrite
<1>1. Init => ReadonlyInv
  BY DEF Init, ReadonlyInv, Live, Free, IOPCs
<1>2. ReadonlyInv => ReadonlyNoWrite
  BY DEF ReadonlyInv, ReadonlyNoWrite
<1>3. QED
  BY <1>1, <1>2, ReadonlyStep, Invariance, PTL DEF Spec

-----------------------------------------------------------------------------
(***************************************************************************)
(* What the last VD_release leaves behind: a table that is fresh and no    *)
(* flag that locks anything out.                                           *)
(*                                                                         *)
(* The argument: sector 0 changes only under a live handle, the last of    *)
(* which is released by a thread that goes on to read the table again; a   *)
(* flag that is set has an open behind it, which will be counted and       *)
(* released, or a release that has still to reset it.                      *)
(***************************************************************************)
\* The steps of a release during which the table is not what sector 0 says.
RereadPCs == {"rel_wipe", "rel_entire", "rel_parse"}

\* With no file open, no thread re-reading it and sector 0 read well, the table is
\* fresh.
FreshInv ==
    ~misread /\ Live = {} /\ (\A t \in Threads : pc[t] \notin RereadPCs)
       => table = ParsedTable(mbr)

\* A flag is set only while a file is open, about to be counted, or the release
\* that is going to reset it has not done so.
FlagInv ==
    LET counting == \E t \in Threads : pc[t] = "open_count"
    IN  /\ partitionOpened =>
              Live # {} \/ counting \/ \E t \in Threads : pc[t] \in ReleasePCs
        /\ entireDiskOpened =>
              Live # {} \/ counting
                 \/ \E t \in Threads : pc[t] \in ReleasePCs \ {"rel_flag1"}

LingerInv == FreshInv /\ FlagInv

-----------------------------------------------------------------------------
(* Every step preserves it.                                                *)

\* What a thread's step within a callback does to where the threads are.
LEMMA GotoPC ==
  ASSUME IInv, NEW t \in Threads, NEW a, NEW b, Goto(t, a, b)
  PROVE  /\ pc[t] = a /\ pc'[t] = b
         /\ \A s \in Threads : s # t => pc'[s] = pc[s]
  BY DEF IInv, TypeOK, Goto

\* The steps that leave the table, sector 0, the flags and the set of live
\* handles alone, and do not leave a release or the counting of an open.
LEMMA LingerQuiet ==
  ASSUME IInv, LingerInv, NEW t \in Threads, NEW a, NEW b, Goto(t, a, b),
         a \notin ReleasePCs, a # "open_count",
         b \notin RereadPCs, Live' = Live,
         UNCHANGED <<mbr, table, misread, entireDiskOpened, partitionOpened>>
  PROVE  LingerInv'
  <1>1. /\ pc[t] = a /\ pc'[t] = b
        /\ \A s \in Threads : s # t => pc'[s] = pc[s]
    BY GotoPC
  <1>2. FreshInv'
    <2>1. (\A s \in Threads : pc'[s] \notin RereadPCs)
             => \A s \in Threads : pc[s] \notin RereadPCs
      BY <1>1 DEF RereadPCs, ReleasePCs
    <2>2. ParsedTable(mbr)' = ParsedTable(mbr)
      BY DEF ParsedTable, Allocated, EntireEntry
    <2>3. QED
      BY <2>1, <2>2 DEF LingerInv, FreshInv
  <1>3. FlagInv'
    BY <1>1 DEF LingerInv, FlagInv, ReleasePCs
  <1>4. QED
    BY <1>2, <1>3 DEF LingerInv

\* While a file is open the invariant asks for nothing.
LEMMA LingerLive ==
  ASSUME LingerInv, Live' # {}
  PROVE  LingerInv'
  BY DEF LingerInv, FreshInv, FlagInv

\* Every step preserves both.
LEMMA LingerStep == IInv /\ LingerInv /\ [Next]_vars => LingerInv'
<1> SUFFICES ASSUME IInv, LingerInv, [Next]_vars PROVE LingerInv'
  OBVIOUS
<1>0. IInv'
  BY NextIInv
<1>1. ASSUME NEW t \in Threads,
             \/ VD_open_check(t) \/ VD_io_check(t) \/ VD_io_lock(t)
             \/ VD_io_refuse(t) \/ VD_io_eof(t) \/ VD_io_clamp(t) \/ VD_flush_done(t)
      PROVE  LingerInv'
  <2>1. UNCHANGED <<mbr, table, misread, entireDiskOpened, partitionOpened, handle>>
    BY <1>1 DEF VD_open_check, VD_io_check, VD_io_lock, VD_io_refuse, VD_io_eof,
                VD_io_clamp, VD_flush_done, tableVars, flagVars
  <2>2. Live' = Live
    BY <2>1 DEF Live
  <2>3. \E a \in PCs \ (ReleasePCs \cup {"open_count"}), b \in PCs \ RereadPCs : Goto(t, a, b)
    BY <1>1 DEF VD_open_check, VD_io_check, VD_io_lock, VD_io_refuse, VD_io_eof,
                VD_io_clamp, VD_flush_done, Reply, PCs, ReleasePCs, OpenPCs, IOPCs,
                RereadPCs
  <2>4. QED
    BY <2>1, <2>2, <2>3, LingerQuiet
<1>2. ASSUME NEW t \in Threads, VD_open_refuse(t) PROVE LingerInv'
  <2>1. req[t].h \in Handles /\ handle[req[t].h].st = "opening"
    BY <1>2 DEF IInv, RequestInv, OpenPCs, VD_open_refuse, Reply, Goto
  <2>2. Live' = Live
    BY <1>2, <2>1 DEF IInv, TypeOK, VD_open_refuse, Live, Free
  <2>3. Goto(t, "open_check", "idle")
        /\ UNCHANGED <<mbr, table, misread, entireDiskOpened, partitionOpened>>
    BY <1>2 DEF VD_open_refuse, Reply, tableVars, flagVars
  <2>4. QED
    BY <2>2, <2>3, LingerQuiet DEF ReleasePCs, RereadPCs
<1>3. ASSUME NEW t \in Threads, VD_open_set(t) PROVE LingerInv'
  <2>1. /\ pc[t] = "open_set" /\ pc'[t] = "open_count"
        /\ \A s \in Threads : s # t => pc'[s] = pc[s]
    BY <1>3, GotoPC DEF VD_open_set
  <2>2. FlagInv'
    BY <2>1 DEF FlagInv
  <2>3. (\A s \in Threads : pc'[s] \notin RereadPCs)
           => \A s \in Threads : pc[s] \notin RereadPCs
    BY <2>1 DEF RereadPCs
  <2>4. UNCHANGED <<mbr, table, misread, handle>>
    BY <1>3 DEF VD_open_set, tableVars
  <2>5. Live' = Live /\ ParsedTable(mbr)' = ParsedTable(mbr)
    BY <2>4 DEF Live, ParsedTable, Allocated, EntireEntry
  <2>6. FreshInv'
    BY <2>3, <2>4, <2>5 DEF LingerInv, FreshInv
  <2>7. QED
    BY <2>2, <2>6 DEF LingerInv
<1>4. ASSUME NEW t \in Threads, VD_open_count(t) PROVE LingerInv'
  <2>1. req[t].h \in Handles
    BY <1>4 DEF IInv, RequestInv, OpenPCs, VD_open_count, Reply, Goto
  <2>2. req[t].h \in Live'
    BY <1>4, <2>1 DEF IInv, TypeOK, Handle, VD_open_count, Live
  <2>3. QED
    BY <2>2, LingerLive
<1>5. ASSUME NEW t \in Threads,
             VD_release_wipe(t) \/ VD_release_entire(t)
      PROVE  LingerInv'
  <2>1. \E b \in {"rel_entire", "rel_parse"} : pc'[t] = b
    BY <1>5, GotoPC DEF VD_release_wipe, VD_release_entire
  <2>2. QED
    BY <2>1 DEF LingerInv, FreshInv, FlagInv, RereadPCs, ReleasePCs
<1>6. ASSUME NEW t \in Threads, VD_release_parse(t) PROVE LingerInv'
  <2>1. pc'[t] = "rel_flag0"
    BY <1>6, GotoPC DEF VD_release_parse
  <2>2. FlagInv'
    BY <2>1 DEF FlagInv, ReleasePCs
  <2>3. ~misread' => table' = ParsedTable(mbr) /\ mbr' = mbr
    BY <1>6 DEF VD_release_parse, SectorRead
  <2>4. ~misread' => ParsedTable(mbr)' = ParsedTable(mbr)
    BY <2>3 DEF ParsedTable, Allocated, EntireEntry
  <2>5. QED
    BY <2>2, <2>3, <2>4 DEF LingerInv, FreshInv
<1>7. ASSUME NEW t \in Threads, VD_release_flag0(t) PROVE LingerInv'
  <2>1. /\ pc[t] = "rel_flag0" /\ pc'[t] = "rel_flag1"
        /\ \A s \in Threads : s # t => pc'[s] = pc[s]
    BY <1>7, GotoPC DEF VD_release_flag0
  <2>2. FlagInv'
    BY <1>7, <2>1 DEF VD_release_flag0, FlagInv, ReleasePCs
  <2>3. (\A s \in Threads : pc'[s] \notin RereadPCs)
           => \A s \in Threads : pc[s] \notin RereadPCs
    BY <2>1 DEF RereadPCs
  <2>4. UNCHANGED <<mbr, table, misread, handle>>
    BY <1>7 DEF VD_release_flag0, tableVars
  <2>5. Live' = Live /\ ParsedTable(mbr)' = ParsedTable(mbr)
    BY <2>4 DEF Live, ParsedTable, Allocated, EntireEntry
  <2>6. QED
    BY <2>2, <2>3, <2>4, <2>5 DEF LingerInv, FreshInv
<1>8. ASSUME NEW t \in Threads, VD_release_flag1(t) PROVE LingerInv'
  <2>1. /\ pc[t] = "rel_flag1" /\ pc'[t] = "idle"
        /\ \A s \in Threads : s # t => pc'[s] = pc[s]
    BY <1>8, GotoPC DEF VD_release_flag1
  <2>2. UNCHANGED <<mbr, table, misread, handle, entireDiskOpened>> /\ ~partitionOpened'
    BY <1>8 DEF VD_release_flag1, tableVars
  <2>3. Live' = Live /\ ParsedTable(mbr)' = ParsedTable(mbr)
    BY <2>2 DEF Live, ParsedTable, Allocated, EntireEntry
  <2>4. FlagInv'
    BY <2>1, <2>2, <2>3 DEF LingerInv, FlagInv, ReleasePCs
  <2>5. (\A s \in Threads : pc'[s] \notin RereadPCs)
           => \A s \in Threads : pc[s] \notin RereadPCs
    BY <2>1 DEF RereadPCs
  <2>6. QED
    BY <2>2, <2>3, <2>4, <2>5 DEF LingerInv, FreshInv
<1>9. ASSUME NEW t \in Threads, VD_release_exit(t) PROVE LingerInv'
  <2>1. UNCHANGED <<mbr, table, misread, handle, entireDiskOpened, partitionOpened, pc>>
    BY <1>9 DEF VD_release_exit, tableVars, flagVars
  <2>2. QED
    BY <2>1 DEF LingerInv, FreshInv, FlagInv, Live, ParsedTable, Allocated, EntireEntry
<1>10. ASSUME NEW t \in Threads, VD_io_disk(t) PROVE LingerInv'
  <2>1. req[t].h \in Handles /\ handle[req[t].h].st = "live"
    BY <1>10 DEF IInv, RequestInv, IOPCs, VD_io_disk, Reply, Goto
  <2>2. req[t].h \in Live'
    BY <1>10, <2>1 DEF VD_io_disk, Live
  <2>3. QED
    BY <2>2, LingerLive
<1>11. ASSUME NEW t \in Threads, NEW h \in Handles, NEW f \in Files, NEW w \in BOOLEAN,
              VD_open_find(t, h, f, w)
       PROVE  LingerInv'
  <2>1. Live' = Live
    BY <1>11 DEF IInv, TypeOK, VD_open_find, Live
  <2>2. Goto(t, "idle", "open_check")
        /\ UNCHANGED <<mbr, table, misread, entireDiskOpened, partitionOpened>>
    BY <1>11 DEF VD_open_find, Take, tableVars, flagVars
  <2>3. QED
    BY <2>1, <2>2, LingerQuiet DEF ReleasePCs, RereadPCs
<1>12. ASSUME NEW t \in Threads, NEW h \in Handles, VD_release(t, h) PROVE LingerInv'
  <2>1. CASE opened' = 0
    <3>1. pc'[t] = "rel_wipe"
      BY <1>12, <2>1, GotoPC DEF VD_release
    <3>2. QED
      BY <3>1 DEF LingerInv, FreshInv, FlagInv, RereadPCs, ReleasePCs
  <2>2. CASE opened' # 0
    <3>1. Live' # {}
      BY <1>0, <2>2, FS_EmptySet DEF IInv, OpenCountMatches
    <3>2. QED
      BY <3>1, LingerLive
  <2>3. QED
    BY <2>1, <2>2
<1>13. ASSUME NEW t \in Threads, NEW h \in Handles,
              \/ VD_flush(t, h)
              \/ \E o \in {"read", "write"}, x \in 0..DiskSize, n \in 1..MaxLen :
                    VD_io_find(t, h, o, x, n)
       PROVE  LingerInv'
  <2>1. /\ Goto(t, "idle", "flush") \/ Goto(t, "idle", "io_check")
        /\ UNCHANGED <<mbr, table, misread, entireDiskOpened, partitionOpened, handle>>
    BY <1>13 DEF VD_flush, VD_io_find, Take, tableVars, flagVars
  <2>2. Live' = Live
    BY <2>1 DEF Live
  <2>3. QED
    BY <2>1, <2>2, LingerQuiet DEF ReleasePCs, RereadPCs
<1>14. ASSUME NEW h \in Handles, KernelClose(h) PROVE LingerInv'
  <2>1. h \in Live'
    BY <1>14 DEF IInv, TypeOK, Handle, KernelClose, Live
  <2>2. QED
    BY <2>1, LingerLive
<1>15. ASSUME VD_destroy \/ UNCHANGED vars PROVE LingerInv'
  <2>1. UNCHANGED <<mbr, table, misread, handle, entireDiskOpened, partitionOpened, pc>>
    BY <1>15 DEF VD_destroy, vars, tableVars, flagVars
  <2>2. QED
    BY <2>1 DEF LingerInv, FreshInv, FlagInv, Live, ParsedTable, Allocated, EntireEntry
<1>16. QED
  BY <1>1, <1>2, <1>3, <1>4, <1>5, <1>6, <1>7, <1>8, <1>9, <1>10, <1>11, <1>12, <1>13,
     <1>14, <1>15
     DEF Next, Step, Begin, Ended

\* In every reachable state the table is fresh or a file is open or a thread
\* re-reads it, and every flag has a reason.
THEOREM LingerInvariance == Spec => []LingerInv
<1>1. Init => LingerInv
  BY DEF Init, SectorRead, LingerInv, FreshInv, FlagInv, ParsedTable, Allocated, EntireEntry
<1>2. QED
  BY <1>1, LingerStep, Invariance, PTL DEF Spec

\* Whenever no file is open and no release runs, the table is what sector 0 says
\* now, unless the last read of sector 0 failed.
THEOREM FreshCorrect == Spec => []TableFresh
<1>1. LingerInv => TableFresh
  BY DEF LingerInv, FreshInv, TableFresh, RereadPCs, ReleasePCs
<1>2. QED
  BY <1>1, LingerInvariance, PTL

\* Once every file is closed the last release resets both flags: no lock-out
\* outlives the files that caused it.
THEOREM LockoutCorrect == Spec => []NoStaleLockout
<1>1. ASSUME IInv, LingerInv PROVE NoStaleLockout
  <2> SUFFICES ASSUME \A h \in Handles : handle[h].st = "free",
                      \A t \in Threads : pc[t] \notin ReleasePCs
               PROVE  ~entireDiskOpened /\ ~partitionOpened
    BY DEF NoStaleLockout
  <2>1. Live = {}
    BY DEF Live
  <2>2. \A t \in Threads : pc[t] # "open_count"
    BY <1>1 DEF IInv, RequestInv, OpenPCs
  <2>3. QED
    BY <1>1, <2>1, <2>2 DEF LingerInv, FlagInv, ReleasePCs
<1>2. QED
  BY <1>1, LingerInvariance, Invariance, PTL

-----------------------------------------------------------------------------
(***************************************************************************)
(* VDFuse implements VDServer, with any number of threads.                 *)
(*                                                                         *)
(* The argument: the table is written only by a release that has seen the  *)
(* count at zero, so it stands still while a file is held; the first open  *)
(* is counted under part_mutex, after such a release is over, when the     *)
(* table is fresh; and a transfer keeps a live handle from the clamping of *)
(* its length to its end.                                                  *)
(***************************************************************************)
\* The steps of a thread whose transfer VDServer sees.
MovingPCs == {"io_lock", "io_disk"}

\* A file is held exactly when a handle is live.
LEMMA NoneHeldIsNoneLive ==
  ASSUME IInv
  PROVE  /\ Server!NoneHeld <=> Live = {}
         /\ \A h \in Handles : HeldBar[h] # UNALLOCATED <=> h \in Live
  <1>1. \A h \in Handles : handle[h].file # UNALLOCATED
    BY ConstantsAssumption DEF IInv, TypeOK, Handle, Files, UNALLOCATED
  <1>2. QED
    BY <1>1 DEF HeldBar, Live, Server!NoneHeld

\* A thread's transfer stays the same while it moves on, or is none.
LEMMA BusySame ==
  ASSUME IInv,
         \A s \in Threads : pc'[s] \in MovingPCs <=> pc[s] \in MovingPCs,
         \A s \in Threads : pc[s] \in MovingPCs => req'[s] = req[s],
         \A h \in Handles : handle[h].st = "live" => handle'[h].file = handle[h].file,
         Live # {} => table' = table
  PROVE  BusyBar' = BusyBar
  <1>1. \A s \in Threads : pc[s] \in MovingPCs =>
           req[s].h \in Handles /\ handle[req[s].h].st = "live"
    BY DEF IInv, RequestInv, MovingPCs, IOPCs
  <1>2. \A s \in Threads : pc[s] \in MovingPCs => FileOf(s)' = FileOf(s) /\ table' = table
    BY <1>1 DEF FileOf, Live
  <1>3. \A s \in Threads : pc[s] \in MovingPCs => TransferOf(s)' = TransferOf(s)
    BY <1>2 DEF TransferOf
  <1>4. QED
    BY <1>3 DEF BusyBar, MovingPCs

\* The same for a step of one thread within a callback.
LEMMA BusyGoto ==
  ASSUME IInv, NEW t \in Threads, NEW a, NEW b, Goto(t, a, b),
         a \in MovingPCs <=> b \in MovingPCs,
         a \in MovingPCs => req'[t] = req[t],
         \A s \in Threads \ {t} : req'[s] = req[s],
         \A h \in Handles : handle[h].st = "live" => handle'[h].file = handle[h].file,
         Live # {} => table' = table
  PROVE  BusyBar' = BusyBar
  <1>1. /\ pc[t] = a /\ pc'[t] = b
        /\ \A s \in Threads : s # t => pc'[s] = pc[s]
    BY GotoPC
  <1>2. QED
    BY <1>1, BusySame

\* What leaves the server alone.
LEMMA ServerQuiet ==
  ASSUME Live' = Live, \A h \in Live : handle'[h].file = handle[h].file,
         Live # {} => table' = table, BusyBar' = BusyBar,
         UNCHANGED <<mbr, misread, daemon>>
  PROVE  UNCHANGED Server!vars
  <1>1. HeldBar' = HeldBar
    BY DEF HeldBar
  <1>2. ViewBar' = ViewBar
    BY DEF ViewBar, WipedTable
  <1>3. ParsedTable(mbr)' = ParsedTable(mbr)
    BY DEF ParsedTable, Allocated, EntireEntry
  <1>4. QED
    BY <1>1, <1>2, <1>3 DEF Server!vars

\* VD_open is counted: an open of the server.
LEMMA ServerOpen ==
  ASSUME IInv, LingerInv, NEW t \in Threads, VD_open_count(t)
  PROVE  \E h \in Handles, f \in Files : Server!Open(h, f)
  <1> DEFINE g == req[t].h
  <1>1. /\ pc[t] = "open_count" /\ pc'[t] = "idle" /\ Goto(t, "open_count", "idle")
        /\ daemon = "running" /\ daemon' = daemon
        /\ UNCHANGED <<mbr, table, misread>>
        /\ \A s \in Threads \ {t} : req'[s] = req[s]
    BY GotoPC DEF IInv, TypeOK, VD_open_count, Reply, Goto, tableVars
  <1>2. g \in Handles /\ handle[g].st = "opening" /\ g \notin Live
    BY <1>1 DEF IInv, RequestInv, OpenPCs, Live
  <1>3. /\ \A h \in Handles \ {g} : handle'[h] = handle[h]
        /\ handle'[g].st = "live" /\ handle'[g].file = handle[g].file
    BY <1>2 DEF IInv, TypeOK, Handle, VD_open_count
  <1>4. Live' = Live \cup {g}
    BY <1>2, <1>3 DEF Live
  <1>5. BusyBar' = BusyBar
    <2>1. \A h \in Handles : handle'[h].file = handle[h].file
      BY <1>3
    <2>2. QED
      BY <1>1, <2>1, BusyGoto DEF MovingPCs
  <1>6. HeldBar[g] = UNALLOCATED /\ HeldBar' = [HeldBar EXCEPT ![g] = handle[g].file]
    BY <1>2, <1>3, <1>4 DEF HeldBar
  <1>7. ViewBar' = table
    BY <1>1, <1>4 DEF ViewBar
  <1>8. ViewBar' \in IF ~Server!NoneHeld THEN {ViewBar}
                     ELSE IF ~misread THEN {ParsedTable(mbr)} ELSE [Files -> Entry]
    <2>1. CASE Live # {}
      BY <1>7, <2>1, NoneHeldIsNoneLive DEF ViewBar
    <2>2. CASE Live = {}
      <3>1. \A s \in Threads : pc[s] \notin ReleasePCs
        BY ConstantsAssumption DEF IInv, ReleaseInv, VD_open_count
      <3>2. ~misread => table = ParsedTable(mbr)
        BY <2>2, <3>1 DEF LingerInv, FreshInv, RereadPCs, ReleasePCs
      <3>3. table \in [Files -> Entry]
        BY DEF IInv, TypeOK
      <3>4. QED
        BY <1>7, <2>2, <3>2, <3>3, NoneHeldIsNoneLive
    <2>3. QED
      BY <2>1, <2>2
  <1>9. UNCHANGED <<BusyBar, ParsedTable(mbr), ~misread, daemon>>
    BY <1>1, <1>5 DEF ParsedTable, Allocated, EntireEntry
  <1>10. handle[g].file \in Files
    BY <1>2 DEF IInv, TypeOK, Handle
  <1>11. Server!Open(g, handle[g].file)
    BY <1>1, <1>6, <1>8, <1>9 DEF Server!Open
  <1>12. QED
    BY <1>2, <1>10, <1>11

\* VD_release: a close of the server.
LEMMA ServerClose ==
  ASSUME IInv, NEW t \in Threads, NEW h \in Handles, VD_release(t, h)
  PROVE  Server!Close(h)
  <1>1. /\ \E b \in {"idle", "rel_wipe"} : Goto(t, "idle", b)
        /\ daemon = "running" /\ daemon' = daemon
        /\ UNCHANGED <<mbr, table, misread, req>>
    BY DEF VD_release, Goto, tableVars
  <1>2. /\ handle[h].st = "closing" /\ handle'[h].st = "free"
        /\ \A g \in Handles \ {h} : handle'[g] = handle[g]
    BY DEF IInv, TypeOK, Free, VD_release
  <1>3. h \in Live /\ Live' = Live \ {h}
    BY <1>2 DEF Live
  <1>4. BusyBar' = BusyBar
    <2>1. \A g \in Handles : handle[g].st = "live" => handle'[g].file = handle[g].file
      BY <1>2
    <2>2. QED
      BY <1>1, <2>1, BusyGoto DEF MovingPCs
  <1>5. \A s \in Threads : BusyBar[s].h # h
    <2>1. \A s \in Threads : pc[s] \in MovingPCs => req[s].h # h
      BY <1>2 DEF IInv, RequestInv, MovingPCs, IOPCs
    <2>2. QED
      BY <2>1, ConstantsAssumption DEF BusyBar, TransferOf, NoTransfer, MovingPCs
  <1>6. HeldBar[h] # UNALLOCATED
    BY <1>3, NoneHeldIsNoneLive
  <1>7. HeldBar' = [HeldBar EXCEPT ![h] = UNALLOCATED]
    BY <1>2, <1>3 DEF HeldBar
  <1>8. (\A g \in Handles \ {h} : HeldBar[g] = UNALLOCATED) <=> Live' = {}
    BY <1>3, NoneHeldIsNoneLive DEF Live
  <1>9. ViewBar' = IF \A g \in Handles \ {h} : HeldBar[g] = UNALLOCATED
                   THEN WipedTable ELSE ViewBar
    BY <1>1, <1>3, <1>8 DEF ViewBar, WipedTable
  <1>10. UNCHANGED <<BusyBar, ParsedTable(mbr), ~misread, daemon>>
    BY <1>1, <1>4 DEF ParsedTable, Allocated, EntireEntry
  <1>11. QED
    BY <1>1, <1>5, <1>6, <1>7, <1>9, <1>10 DEF Server!Close

\* The length is clamped: a transfer begins, inside its file as the view has it.
LEMMA ServerBegin ==
  ASSUME IInv, NEW t \in Threads, VD_io_clamp(t)
  PROVE  Server!Begin(t)
  <1>0. IInv'
    BY NextIInv DEF Next, Step
  <1>1. /\ pc[t] = "io_clamp" /\ pc'[t] = "io_lock"
        /\ \A s \in Threads \ {t} : pc'[s] = pc[s] /\ req'[s] = req[s]
        /\ daemon = "running" /\ daemon' = daemon
        /\ UNCHANGED <<mbr, table, misread, handle>>
    BY GotoPC DEF IInv, TypeOK, VD_io_clamp, Goto, tableVars
  <1>2. req'[t].h = req[t].h /\ req'[t].off = req[t].off /\ req'[t].op = req[t].op
    BY DEF IInv, TypeOK, Request, VD_io_clamp
  <1>3. req[t].h \in Handles /\ req[t].h \in Live
    BY <1>1 DEF IInv, RequestInv, IOPCs, Live
  <1>4. FileOf(t)' = FileOf(t) /\ HeldBar[req[t].h] = FileOf(t)
    BY <1>1, <1>2, <1>3 DEF FileOf, HeldBar
  <1>5. UNCHANGED <<HeldBar, ViewBar, ParsedTable(mbr), ~misread, daemon>> /\ ViewBar = table
    BY <1>1, <1>3 DEF HeldBar, ViewBar, Live, ParsedTable, Allocated, EntireEntry
  <1> DEFINE p == table[FileOf(t)]
             x == [h |-> req[t].h, start |-> p.offset + req[t].off,
                   len |-> req'[t].len, wr |-> req[t].op = "write"]
  <1>6. BusyBar[t] = NoTransfer /\ BusyBar'[t] = x
    BY <1>1, <1>2, <1>4 DEF BusyBar, TransferOf
  <1>7. BusyBar' = [BusyBar EXCEPT ![t] = x]
    <2>1. \A s \in Threads \ {t} : BusyBar'[s] = BusyBar[s]
      BY <1>1 DEF BusyBar, TransferOf, FileOf
    <2>2. QED
      BY <1>6, <2>1 DEF BusyBar
  <1>8. /\ p.no = FileOf(t) /\ req'[t].len > 0 /\ req[t].off + req'[t].len <= p.size
        /\ req'[t].len \in Nat /\ req[t].off \in Nat /\ p.offset \in Nat /\ p.size \in Nat
    <2>1. req'[t].len > 0 /\ req'[t].off + req'[t].len <= table'[FileOf(t)'].size
      BY <1>0, <1>1 DEF IInv, TransferInv, IOPCs
    <2>2. p.no = FileOf(t)
      BY <1>1 DEF IInv, TransferInv, IOPCs
    <2>3. p \in Entry
      BY <1>3 DEF IInv, TypeOK, Handle, FileOf
    <2>4. req[t] \in Request /\ req'[t] \in Request
      BY <1>0 DEF IInv, TypeOK
    <2>5. QED
      BY <1>1, <1>2, <1>4, <2>1, <2>2, <2>3, <2>4 DEF Entry, Request
  <1>9. x \in Server!Transfer
    BY <1>3, <1>8 DEF Server!Transfer
  <1>10. x.len > 0 /\ Server!Inside(x.start, x.len, p)
    BY <1>8 DEF Server!Inside
  <1>11. HeldBar[x.h] # UNALLOCATED
    BY <1>3, NoneHeldIsNoneLive
  <1>12. x.h = req[t].h
    OBVIOUS
  <1> HIDE DEF x
  <1>13. ViewBar[HeldBar[x.h]] = p
    BY <1>4, <1>5, <1>12
  <1>14. QED
    BY <1>1, <1>4, <1>5, <1>6, <1>7, <1>8, <1>9, <1>10, <1>11, <1>12, <1>13 DEF Server!Begin

\* The transfer is over.
LEMMA ServerFinish ==
  ASSUME IInv, NEW t \in Threads, VD_io_disk(t)
  PROVE  Server!Finish(t)
  <1>0. IInv'
    BY NextIInv DEF Next, Step
  <1>1. /\ pc[t] = "io_disk" /\ pc'[t] = "idle"
        /\ \A s \in Threads \ {t} : pc'[s] = pc[s] /\ req'[s] = req[s]
        /\ daemon = "running" /\ daemon' = daemon
        /\ UNCHANGED <<table, misread, handle>>
    BY GotoPC DEF IInv, TypeOK, VD_io_disk, Reply, Goto, tableVars
  <1>2. req[t].h \in Handles /\ req[t] \in Request /\ handle[req[t].h].st = "live"
    BY <1>1 DEF IInv, RequestInv, TypeOK, IOPCs
  <1>3. UNCHANGED <<HeldBar, ViewBar, ~misread, daemon>>
    BY <1>1 DEF HeldBar, ViewBar, Live, WipedTable
  <1>4. BusyBar[t] = TransferOf(t) /\ BusyBar[t] # NoTransfer /\ BusyBar'[t] = NoTransfer
    <2>1. req[t].h # NoHandle
      BY <1>2, ConstantsAssumption
    <2>2. BusyBar[t] = TransferOf(t) /\ BusyBar'[t] = NoTransfer
      BY <1>1 DEF BusyBar
    <2>3. TransferOf(t).h = req[t].h /\ NoTransfer.h = NoHandle
      BY DEF TransferOf, NoTransfer
    <2>4. QED
      BY <2>1, <2>2, <2>3
  <1>5. BusyBar' = [BusyBar EXCEPT ![t] = NoTransfer]
    <2>1. \A s \in Threads \ {t} : BusyBar'[s] = BusyBar[s]
      BY <1>1 DEF BusyBar, TransferOf, FileOf
    <2>2. QED
      BY <1>4, <2>1 DEF BusyBar
  <1>6. ParsedTable(mbr)' \in [Files -> Entry]
    BY <1>0, ParsedTableType DEF IInv, TypeOK
  <1>7. mbr' = mbr \/ (req[t].op = "write" /\ 0 \in Extent(t))
    BY DEF VD_io_disk, SectorAfter
  <1>8. 0 \in Extent(t) => TransferOf(t).start = 0
    <2>1. table[FileOf(t)].offset \in Nat /\ req[t].off \in Nat
      BY <1>2 DEF IInv, TypeOK, Handle, FileOf, Entry, Request
    <2>2. QED
      BY <2>1 DEF Extent, TransferOf
  <1>9. req[t].op = "write" => TransferOf(t).wr
    BY DEF TransferOf
  <1>10. mbr' = mbr => ParsedTable(mbr)' = ParsedTable(mbr)
    BY DEF ParsedTable, Allocated, EntireEntry
  <1>11. ParsedTable(mbr)' \in IF BusyBar[t].wr /\ BusyBar[t].start = 0
                               THEN [Files -> Entry] ELSE {ParsedTable(mbr)}
    BY <1>4, <1>6, <1>7, <1>8, <1>9, <1>10
  <1>12. QED
    BY <1>1, <1>3, <1>4, <1>5, <1>11 DEF Server!Finish

\* Every step of vdfuse is a step of the server or leaves it alone.
LEMMA ServerStep == IInv /\ LingerInv /\ [Next]_vars => [Server!Next]_(Server!vars)
<1> SUFFICES ASSUME IInv, LingerInv, [Next]_vars PROVE [Server!Next]_(Server!vars)
  OBVIOUS
<1>1. ASSUME NEW t \in Threads,
             \/ VD_open_check(t) \/ VD_open_set(t) \/ VD_io_refuse(t) \/ VD_io_check(t)
             \/ VD_io_eof(t) \/ VD_io_lock(t) \/ VD_flush_done(t)
             \/ VD_release_wipe(t) \/ VD_release_entire(t)
             \/ VD_release_flag0(t) \/ VD_release_flag1(t)
      PROVE  UNCHANGED Server!vars
  <2>1. UNCHANGED <<mbr, misread, handle, daemon>>
    BY <1>1 DEF VD_open_check, VD_open_set, VD_io_refuse, VD_io_check, VD_io_eof, VD_io_lock,
                VD_flush_done, VD_release_wipe, VD_release_entire, VD_release_flag0,
                VD_release_flag1, Reply, Goto, tableVars
  <2>2. Live # {} => table' = table
    <3>1. CASE VD_release_wipe(t) \/ VD_release_entire(t)
      <4>1. pc[t] \in ReleasePCs
        BY <3>1 DEF VD_release_wipe, VD_release_entire, Goto, ReleasePCs
      <4>2. Live = {}
        BY <4>1, CountZero DEF IInv, ReleaseInv
      <4>3. QED
        BY <4>2
    <3>2. CASE ~(VD_release_wipe(t) \/ VD_release_entire(t))
      BY <1>1, <3>2 DEF VD_open_check, VD_open_set, VD_io_refuse, VD_io_check, VD_io_eof,
         VD_io_lock, VD_flush_done, VD_release_flag0, VD_release_flag1, tableVars
    <3>3. QED
      BY <3>1, <3>2
  <2>3. BusyBar' = BusyBar
    <3>1. CASE VD_io_lock(t)
      <4>1. Goto(t, "io_lock", "io_disk") /\ req' = req
        BY <3>1 DEF VD_io_lock
      <4>2. QED
        BY <2>1, <2>2, <4>1, BusyGoto DEF MovingPCs
    <3>2. CASE ~VD_io_lock(t)
      <4>1. \E a, b \in PCs \ MovingPCs : Goto(t, a, b)
        BY <1>1, <3>2
           DEF VD_open_check, VD_open_set, VD_io_refuse, VD_io_check, VD_io_eof, VD_flush_done,
               VD_release_wipe, VD_release_entire, VD_release_flag0, VD_release_flag1,
               Reply, PCs, IOPCs, OpenPCs, ReleasePCs, MovingPCs
      <4>2. \A s \in Threads \ {t} : req'[s] = req[s]
        BY <1>1, <3>2
           DEF IInv, TypeOK, VD_open_check, VD_open_set, VD_io_refuse, VD_io_check, VD_io_eof,
               VD_flush_done, VD_release_wipe, VD_release_entire, VD_release_flag0,
               VD_release_flag1, Reply
      <4>3. QED
        BY <2>1, <2>2, <4>1, <4>2, BusyGoto
    <3>3. QED
      BY <3>1, <3>2
  <2>4. Live' = Live
    BY <2>1 DEF Live
  <2>5. QED
    BY <2>1, <2>2, <2>3, <2>4, ServerQuiet
<1>2. ASSUME NEW t \in Threads,
             \/ VD_open_refuse(t)
             \/ \E h \in Handles, f \in Files, w \in BOOLEAN : VD_open_find(t, h, f, w)
      PROVE  UNCHANGED Server!vars
  <2>1. /\ Live' = Live
        /\ \A h \in Live : handle'[h] = handle[h]
    <3>1. CASE VD_open_refuse(t)
      <4>1. req[t].h \in Handles /\ handle[req[t].h].st = "opening"
        BY <3>1 DEF IInv, RequestInv, OpenPCs, VD_open_refuse, Reply, Goto
      <4>2. QED
        BY <3>1, <4>1 DEF IInv, TypeOK, VD_open_refuse, Live, Free
    <3>2. CASE \E h \in Handles, f \in Files, w \in BOOLEAN : VD_open_find(t, h, f, w)
      BY <3>2 DEF IInv, TypeOK, VD_open_find, Live
    <3>3. QED
      BY <1>2, <3>1, <3>2
  <2>2. /\ UNCHANGED <<mbr, table, misread, daemon>>
        /\ Goto(t, "open_check", "idle") \/ Goto(t, "idle", "open_check")
        /\ \A s \in Threads \ {t} : req'[s] = req[s]
    BY <1>2 DEF IInv, TypeOK, VD_open_refuse, VD_open_find, Reply, Take, Goto, tableVars
  <2>3. \A h \in Handles : handle[h].st = "live" => handle'[h].file = handle[h].file
    BY <2>1 DEF Live
  <2>4. BusyBar' = BusyBar
    BY <2>2, <2>3, BusyGoto DEF MovingPCs
  <2>5. QED
    BY <2>1, <2>2, <2>4, ServerQuiet
<1>3. ASSUME NEW t \in Threads, NEW h \in Handles,
             \/ VD_flush(t, h)
             \/ \E o \in {"read", "write"}, x \in 0..DiskSize, n \in 1..MaxLen :
                   VD_io_find(t, h, o, x, n)
      PROVE  UNCHANGED Server!vars
  <2>1. /\ UNCHANGED <<mbr, table, misread, handle, daemon>>
        /\ Goto(t, "idle", "flush") \/ Goto(t, "idle", "io_check")
        /\ \A s \in Threads \ {t} : req'[s] = req[s]
    BY <1>3 DEF IInv, TypeOK, VD_flush, VD_io_find, Take, Goto, tableVars
  <2>2. BusyBar' = BusyBar
    BY <2>1, BusyGoto DEF MovingPCs
  <2>3. Live' = Live
    BY <2>1 DEF Live
  <2>4. QED
    BY <2>1, <2>2, <2>3, ServerQuiet
<1>4. ASSUME NEW h \in Handles, KernelClose(h) PROVE UNCHANGED Server!vars
  <2>1. /\ \A g \in Handles : handle'[g].file = handle[g].file
        /\ handle[h].st = "live" /\ handle'[h].st = "closing"
        /\ \A g \in Handles \ {h} : handle'[g] = handle[g]
    BY <1>4 DEF IInv, TypeOK, Handle, KernelClose
  <2>2. UNCHANGED <<mbr, table, misread, daemon, pc, req>>
    BY <1>4 DEF KernelClose, tableVars
  <2>3. BusyBar' = BusyBar
    BY <2>1, <2>2, BusySame
  <2>4. Live' = Live
    BY <2>1 DEF Live
  <2>5. \A g \in Live : handle'[g].file = handle[g].file
    BY <2>1 DEF Live
  <2>6. QED
    BY <2>2, <2>3, <2>4, <2>5, ServerQuiet
<1>5. ASSUME NEW t \in Threads, VD_release_parse(t) PROVE Server!Reread
  <2>1. /\ Goto(t, "rel_parse", "rel_flag0") /\ daemon = "running"
        /\ UNCHANGED <<mbr, handle, req, daemon>>
        /\ pc[t] \in ReleasePCs
    BY <1>5 DEF VD_release_parse, Goto, ReleasePCs
  <2>2. Live = {} /\ Live' = {}
    BY <2>1, CountZero DEF IInv, ReleaseInv, Live
  <2>3. BusyBar' = BusyBar
    BY <2>1, <2>2, BusyGoto DEF MovingPCs
  <2>4. UNCHANGED <<HeldBar, ViewBar, BusyBar, ParsedTable(mbr), daemon>>
    BY <2>1, <2>2, <2>3 DEF HeldBar, ViewBar, WipedTable, ParsedTable, Allocated, EntireEntry
  <2>5. (~misread') \in BOOLEAN
    OBVIOUS
  <2>6. QED
    BY <2>1, <2>2, <2>4, <2>5, NoneHeldIsNoneLive DEF Server!Reread
<1>6. ASSUME NEW t \in Threads, VD_release_exit(t) PROVE Server!Exit
  <2>1. /\ daemon = "running" /\ daemon' = "exited" /\ pc[t] \in ReleasePCs
        /\ UNCHANGED <<mbr, table, misread, handle, pc, req>>
    BY <1>6 DEF VD_release_exit, ReleasePCs, tableVars
  <2>2. Live = {}
    BY <2>1, CountZero DEF IInv, ReleaseInv
  <2>3. \A s \in Threads : pc[s] \notin MovingPCs
    BY <2>1, NoReleaseDuringIO DEF MovingPCs, IOPCs
  <2>4. \A s \in Threads : BusyBar[s] = NoTransfer
    BY <2>3 DEF BusyBar, MovingPCs
  <2>5. UNCHANGED <<HeldBar, ViewBar, BusyBar, ParsedTable(mbr), ~misread>>
    BY <2>1 DEF HeldBar, ViewBar, BusyBar, TransferOf, FileOf, Live, WipedTable, ParsedTable,
                Allocated, EntireEntry
  <2>6. QED
    BY <2>1, <2>2, <2>4, <2>5, NoneHeldIsNoneLive DEF Server!Exit, Server!Quiet
<1>7. ASSUME VD_destroy PROVE Server!Unmount
  <2>1. /\ daemon = "running" /\ daemon' = "closed"
        /\ \A s \in Threads : pc[s] = "idle"
        /\ UNCHANGED <<mbr, table, misread, handle, pc, req>>
    BY <1>7 DEF VD_destroy, tableVars
  <2>2. \A s \in Threads : BusyBar[s] = NoTransfer
    BY <2>1 DEF BusyBar
  <2>3. UNCHANGED <<HeldBar, ViewBar, BusyBar, ParsedTable(mbr), ~misread>>
    BY <2>1 DEF HeldBar, ViewBar, BusyBar, TransferOf, FileOf, Live, WipedTable, ParsedTable,
                Allocated, EntireEntry
  <2>4. QED
    BY <2>1, <2>2, <2>3 DEF Server!Unmount, Server!Quiet
<1>8. ASSUME UNCHANGED vars PROVE UNCHANGED Server!vars
  <2>1. UNCHANGED <<mbr, table, misread, handle, pc, req, daemon>>
    BY <1>8 DEF vars
  <2>2. QED
    BY <2>1 DEF Server!vars, HeldBar, ViewBar, BusyBar, TransferOf, FileOf, Live, WipedTable,
                ParsedTable, Allocated, EntireEntry
<1>9. QED
  BY <1>1, <1>2, <1>3, <1>4, <1>5, <1>6, <1>7, <1>8, ServerOpen, ServerClose, ServerBegin,
     ServerFinish
     DEF Next, Step, Begin, Ended, Server!Next

\* The multithreaded callbacks implement VDServer: from the first open to the
\* last close clients are served one table, the one sector 0 described, every
\* transfer lies inside its file in it, and the daemon never goes away under one.
THEOREM ServerImplemented == Spec => ImplementsServer
<1>1. Init => Server!Init
  <2> SUFFICES ASSUME Init PROVE Server!Init
    OBVIOUS
  <2>1. Live = {} /\ \A t \in Threads : pc[t] = "idle"
    BY DEF Init, Live, Free
  <2>2. HeldBar = [h \in Handles |-> UNALLOCATED] /\ ViewBar = WipedTable
        /\ BusyBar = [t \in Threads |-> NoTransfer]
    BY <2>1 DEF HeldBar, ViewBar, BusyBar
  <2>3. ParsedTable(mbr) \in [Files -> Entry]
    BY ParsedTableType DEF Init
  <2>4. QED
    BY <2>2, <2>3 DEF Init, Server!Init
<1>2. QED
  BY <1>1, ServerStep, Invariance, LingerInvariance, PTL
     DEF Spec, ImplementsServer, Server!Spec
=============================================================================
