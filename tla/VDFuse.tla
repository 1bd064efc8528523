------------------------------- MODULE VDFuse -------------------------------
(***************************************************************************)
(* The FUSE callbacks of vdfuse (vdfuseloop/vdfuse/src/vdfuse.c).          *)
(*                                                                         *)
(* fuse_main runs the multithreaded loop, so several worker threads are    *)
(* inside VD_open, VD_release, VD_read, VD_write and VD_flush at once.     *)
(* They share the partition table, the two interlock flags and the count   *)
(* of opened files; only the count is guarded (part_mutex), and only the   *)
(* disk transfer of a read or a write is (disk_mutex).  Every access to a  *)
(* shared variable outside a mutex is a step of its own here.              *)
(*                                                                         *)
(* The mount shows one file per entry of the table: file 0 is EntireDisk,  *)
(* file k is Partitionk.  The kernel holds open file descriptions          *)
(* ("handles"): it sends READ, WRITE and FLUSH only for a live handle, and *)
(* one RELEASE when the last reference goes, after every request on the    *)
(* handle was answered.                                                    *)
(***************************************************************************)
EXTENDS Integers, FiniteSets

CONSTANTS
    Threads,       \* worker threads of the FUSE loop
    Handles,       \* open file descriptions the kernel may hold
    Partitions,    \* partition numbers that can occur in a table
    Layouts,       \* what sector 0 of the image may hold
    DiskSize,      \* size of the image, in transfer units
    MaxLen,        \* bound: longest transfer asked for
    readonly,      \* the -r option
    ReadMayFail,   \* whether reading sector 0 may fail (its result is ignored)
    NoThread,      \* the owner of a free mutex
    NoHandle       \* the handle of a thread with no request

UNALLOCATED == -1
Files       == {0} \cup Partitions
Unallocated == [no |-> UNALLOCATED, offset |-> 0, size |-> 0]
Entry       == [no : {UNALLOCATED} \cup Files, offset : Nat, size : Nat]

\* A layout is what initialisePartitionTable makes of the image: no signature
\* ("blank"), partitions ("mbr"), or anything for which it exits ("bad": a
\* foreign signature, two extended partitions, a broken chain of EBRs).
Layout == [sig : {"blank", "mbr", "bad"}, part : [Partitions -> Entry]]

ASSUME ConstantsAssumption ==
    /\ Partitions \subseteq Nat \ {0}
    /\ \A S \in SUBSET Partitions : S # {} => \E k \in S : \A j \in S : j <= k
    /\ Layouts \subseteq Layout
    /\ DiskSize \in Nat \ {0}
    /\ MaxLen \in Nat \ {0}
    /\ readonly \in BOOLEAN
    /\ ReadMayFail \in BOOLEAN
    /\ NoThread \notin Threads
    /\ NoHandle \notin Handles
    /\ IsFiniteSet(Handles)

VARIABLES
    mbr,               \* the layout sector 0 of the image holds now
    table,             \* partitionTable
    lastPartition,
    misread,           \* history: the last DISKread of sector 0 failed
    entireDiskOpened,
    partitionOpened,
    opened,
    part_mutex,        \* its owner, or NoThread
    disk_mutex,
    handle,            \* the kernel's view of each open file description
    pc,                \* where each thread is
    req,               \* the request each thread is answering
    daemon             \* "running", "closed" (VD_destroy) or "exited"

tableVars == <<table, lastPartition, misread>>
flagVars  == <<entireDiskOpened, partitionOpened>>
vars == <<mbr, table, lastPartition, misread, entireDiskOpened,
          partitionOpened, opened, part_mutex, disk_mutex, handle, pc, req,
          daemon>>

\* A handle: its state, the file it is opened on, and whether the flags of
\* the open hold O_WRONLY or O_RDWR.
Handle == [st : {"free", "opening", "live", "closing"}, file : Files, wr : BOOLEAN]
Free   == [st |-> "free", file |-> 0, wr |-> FALSE]

\* A request: the handle it is about and, for a transfer, what is asked for.
Request   == [h : Handles \cup {NoHandle}, op : {"none", "read", "write"},
              off : Nat, len : Nat]
On(h)     == [h |-> h, op |-> "none", off |-> 0, len |-> 0]
NoRequest == On(NoHandle)

OpenPCs    == {"open_check", "open_set", "open_count"}
ReleasePCs == {"rel_wipe", "rel_entire", "rel_parse", "rel_flag0", "rel_flag1"}
IOPCs      == {"io_check", "io_clamp", "io_lock", "io_disk"}
PCs        == {"idle", "flush"} \cup OpenPCs \cup ReleasePCs \cup IOPCs

-----------------------------------------------------------------------------
(* initialisePartitionTable: what its memset, its first entry and its       *)
(* reading of sector 0 leave in the table.                                  *)

EntireEntry == [no |-> 0, offset |-> 0, size |-> DiskSize]

WipedTable == [k \in Files |-> Unallocated]

Allocated(m) == IF m.sig = "mbr"
                THEN {k \in Partitions : m.part[k].no # UNALLOCATED}
                ELSE {}

ParsedTable(m) ==
    [k \in Files |-> IF k = 0 THEN EntireEntry
                     ELSE IF k \in Allocated(m)
                          THEN [m.part[k] EXCEPT !.no = k]
                          ELSE Unallocated]

\* lastPartition is assigned for every partition found and reset nowhere.
ParsedLast(m, old) ==
    IF Allocated(m) = {} THEN old
    ELSE CHOOSE k \in Allocated(m) : \A j \in Allocated(m) : j <= k

\* findPartition: entry k alone can carry the name of file k.
findPartition(f) ==
    IF f <= lastPartition /\ table[f].no # UNALLOCATED THEN f ELSE -1

\* The result of DISKread is not looked at: when the read of sector 0 fails the
\* buffer on the stack holds anything.
MisreadOutcomes    == IF ReadMayFail THEN BOOLEAN ELSE {FALSE}
SectorRead(failed) == IF failed THEN Layouts ELSE {mbr}

-----------------------------------------------------------------------------
Init ==
    /\ mbr \in Layouts
    /\ misread \in MisreadOutcomes
    /\ \E m \in SectorRead(misread) :
          /\ m.sig # "bad"
          /\ table = ParsedTable(m)
          /\ lastPartition = ParsedLast(m, 0)
    /\ entireDiskOpened = FALSE /\ partitionOpened = FALSE
    /\ opened = 0
    /\ part_mutex = NoThread /\ disk_mutex = NoThread
    /\ handle = [h \in Handles |-> Free]
    /\ pc = [t \in Threads |-> "idle"]
    /\ req = [t \in Threads |-> NoRequest]
    /\ daemon = "running"

\* Thread t moves within the callback it is in.
Goto(t, from, to) ==
    /\ daemon = "running"
    /\ pc[t] = from
    /\ pc' = [pc EXCEPT ![t] = to]
    /\ UNCHANGED daemon

\* Thread t takes a request from the kernel; thread t answers it.
Take(t, to, r) == Goto(t, "idle", to) /\ req' = [req EXCEPT ![t] = r]
Reply(t, from) == Goto(t, from, "idle") /\ req' = [req EXCEPT ![t] = NoRequest]

\* The file that thread t's request is about.
FileOf(t) == handle[req[t].h].file

-----------------------------------------------------------------------------
(* VD_open.  A name that is not in the table is answered ENOENT and changes *)
(* nothing.                                                                 *)

VD_open_find(t, h, f, w) ==
    /\ Take(t, "open_check", On(h))
    /\ handle[h].st = "free"
    /\ findPartition(f) # -1
    /\ handle' = [handle EXCEPT ![h] = [st |-> "opening", file |-> f, wr |-> w]]
    /\ UNCHANGED <<mbr, tableVars, flagVars, opened, part_mutex, disk_mutex>>

\* The interlock refuses with ENOENT, -r refuses a writer with EROFS.
OpenRefused(f, w) ==
    \/ entireDiskOpened /\ f > 0
    \/ partitionOpened /\ f = 0
    \/ readonly /\ w

\* Mutant: the count goes up before the open is refused.
VD_open_refuse_counted(t) ==
    /\ Reply(t, "open_check")
    /\ OpenRefused(FileOf(t), handle[req[t].h].wr)
    /\ handle' = [handle EXCEPT ![req[t].h] = Free]
    /\ opened' = opened + 1
    /\ UNCHANGED <<mbr, tableVars, flagVars, part_mutex, disk_mutex>>

VD_open_refuse(t) ==
    /\ Reply(t, "open_check")
    /\ OpenRefused(FileOf(t), handle[req[t].h].wr)
    /\ handle' = [handle EXCEPT ![req[t].h] = Free]
    /\ UNCHANGED <<mbr, tableVars, flagVars, opened, part_mutex, disk_mutex>>

VD_open_check(t) ==
    /\ Goto(t, "open_check", "open_set")
    /\ ~OpenRefused(FileOf(t), handle[req[t].h].wr)
    /\ UNCHANGED <<mbr, tableVars, flagVars, opened, part_mutex, disk_mutex,
                   handle, req>>

VD_open_set(t) ==
    /\ Goto(t, "open_set", "open_count")
    /\ entireDiskOpened' = (entireDiskOpened \/ FileOf(t) = 0)
    /\ partitionOpened' = (partitionOpened \/ FileOf(t) > 0)
    /\ UNCHANGED <<mbr, tableVars, opened, part_mutex, disk_mutex, handle, req>>

VD_open_count(t) ==
    /\ Reply(t, "open_count")
    /\ part_mutex = NoThread
    /\ opened' = opened + 1
    /\ handle' = [handle EXCEPT ![req[t].h].st = "live"]
    /\ UNCHANGED <<mbr, tableVars, flagVars, part_mutex, disk_mutex>>

-----------------------------------------------------------------------------
(* VD_release.                                                              *)

\* The kernel drops the last reference once no request on h is in progress.
KernelClose(h) ==
    /\ daemon = "running"
    /\ handle[h].st = "live"
    /\ \A t \in Threads : req[t].h # h
    /\ handle' = [handle EXCEPT ![h].st = "closing"]
    /\ UNCHANGED <<mbr, tableVars, flagVars, opened, part_mutex, disk_mutex,
                   pc, req, daemon>>

\* Mutant: every close reads the table again.
VD_release_every(t, h) ==
    /\ handle[h].st = "closing"
    /\ part_mutex = NoThread
    /\ opened' = opened - 1
    /\ handle' = [handle EXCEPT ![h] = Free]
    /\ Goto(t, "idle", "rel_wipe")
    /\ part_mutex' = t
    /\ UNCHANGED <<mbr, tableVars, flagVars, disk_mutex, req>>

\* Mutant: the last close resets the flags and leaves the table as it is.
VD_release_noread(t, h) ==
    /\ handle[h].st = "closing"
    /\ part_mutex = NoThread
    /\ opened' = opened - 1
    /\ handle' = [handle EXCEPT ![h] = Free]
    /\ IF opened' = 0
       THEN Goto(t, "idle", "rel_flag0") /\ part_mutex' = t
       ELSE Goto(t, "idle", "idle") /\ UNCHANGED part_mutex
    /\ UNCHANGED <<mbr, tableVars, flagVars, disk_mutex, req>>

\* Mutant: the last release unlocks part_mutex before it reads the table.
VD_release_unlocked(t, h) ==
    /\ handle[h].st = "closing"
    /\ part_mutex = NoThread
    /\ opened' = opened - 1
    /\ handle' = [handle EXCEPT ![h] = Free]
    /\ Goto(t, "idle", IF opened' = 0 THEN "rel_wipe" ELSE "idle")
    /\ UNCHANGED <<mbr, tableVars, flagVars, part_mutex, disk_mutex, req>>

\* Under part_mutex the count goes down; the last file closed keeps the mutex
\* while the table is read again.
VD_release(t, h) ==
    /\ handle[h].st = "closing"
    /\ part_mutex = NoThread
    /\ opened' = opened - 1
    /\ handle' = [handle EXCEPT ![h] = Free]
    /\ IF opened' = 0
       THEN Goto(t, "idle", "rel_wipe") /\ part_mutex' = t
       ELSE Goto(t, "idle", "idle") /\ UNCHANGED part_mutex
    /\ UNCHANGED <<mbr, tableVars, flagVars, disk_mutex, req>>

\* The memset and the loop that marks every entry unallocated ...
VD_release_wipe(t) ==
    /\ Goto(t, "rel_wipe", "rel_entire")
    /\ table' = WipedTable
    /\ UNCHANGED <<mbr, lastPartition, misread, flagVars, opened, part_mutex,
                   disk_mutex, handle, req>>

\* ... the descriptor of EntireDisk ...
VD_release_entire(t) ==
    /\ Goto(t, "rel_entire", "rel_parse")
    /\ table' = [table EXCEPT ![0] = EntireEntry]
    /\ UNCHANGED <<mbr, lastPartition, misread, flagVars, opened, part_mutex,
                   disk_mutex, handle, req>>

\* ... then sector 0 is read.
VD_release_parse(t) ==
    /\ Goto(t, "rel_parse", "rel_flag0")
    /\ misread' \in MisreadOutcomes
    /\ \E m \in SectorRead(misread') :
          /\ m.sig # "bad"
          /\ table' = ParsedTable(m)
          /\ lastPartition' = ParsedLast(m, lastPartition)
    /\ UNCHANGED <<mbr, flagVars, opened, part_mutex, disk_mutex, handle, req>>

\* Mutant: a foreign signature makes the release start over.
VD_release_exit_retry(t) ==
    /\ Goto(t, "rel_parse", "rel_wipe")
    /\ \E failed \in MisreadOutcomes : \E m \in SectorRead(failed) : m.sig = "bad"
    /\ UNCHANGED <<mbr, tableVars, flagVars, opened, part_mutex, disk_mutex,
                   handle, req>>

\* usageAndExit from within VD_release: the process is gone.
VD_release_exit(t) ==
    /\ daemon = "running"
    /\ pc[t] = "rel_parse"
    /\ \E failed \in MisreadOutcomes : \E m \in SectorRead(failed) : m.sig = "bad"
    /\ daemon' = "exited"
    /\ UNCHANGED <<mbr, tableVars, flagVars, opened, part_mutex, disk_mutex,
                   handle, pc, req>>

VD_release_flag0(t) ==
    /\ Goto(t, "rel_flag0", "rel_flag1")
    /\ entireDiskOpened' = FALSE
    /\ UNCHANGED <<mbr, tableVars, partitionOpened, opened, part_mutex,
                   disk_mutex, handle, req>>

\* Mutant: partitionOpened is not reset.
VD_release_flag1_kept(t) ==
    /\ Goto(t, "rel_flag1", "idle")
    /\ part_mutex' = NoThread
    /\ UNCHANGED <<mbr, tableVars, flagVars, opened, disk_mutex, handle, req>>

VD_release_flag1(t) ==
    /\ Goto(t, "rel_flag1", "idle")
    /\ partitionOpened' = FALSE
    /\ part_mutex' = NoThread
    /\ UNCHANGED <<mbr, tableVars, entireDiskOpened, opened, disk_mutex,
                   handle, req>>

-----------------------------------------------------------------------------
(* VD_read and VD_write.  A file that is no longer in the table is answered *)
(* ENOENT and changes nothing.  The kernel sends a WRITE only for a handle  *)
(* opened for writing.                                                      *)

VD_io_find(t, h, o, x, n) ==
    /\ Take(t, "io_check", [h |-> h, op |-> o, off |-> x, len |-> n])
    /\ handle[h].st = "live"
    /\ o = "write" => handle[h].wr
    /\ findPartition(handle[h].file) # -1
    /\ UNCHANGED <<mbr, tableVars, flagVars, opened, part_mutex, disk_mutex,
                   handle>>

IORefused(f) == IF f = 0 THEN partitionOpened ELSE entireDiskOpened

VD_io_refuse(t) ==
    /\ Reply(t, "io_check")
    /\ IORefused(FileOf(t))
    /\ UNCHANGED <<mbr, tableVars, flagVars, opened, part_mutex, disk_mutex,
                   handle>>

VD_io_check(t) ==
    /\ Goto(t, "io_check", "io_clamp")
    /\ ~IORefused(FileOf(t))
    /\ UNCHANGED <<mbr, tableVars, flagVars, opened, part_mutex, disk_mutex,
                   handle, req>>

\* At or past the end of the file nothing is transferred.
VD_io_eof(t) ==
    /\ Reply(t, "io_clamp")
    /\ req[t].off >= table[FileOf(t)].size
    /\ UNCHANGED <<mbr, tableVars, flagVars, opened, part_mutex, disk_mutex,
                   handle>>

ClampedLen(r, size) == IF r.off + r.len > size THEN size - r.off ELSE r.len

\* Mutant: the test for the end of the file is missing.
VD_io_clamp_noeof(t) ==
    /\ Goto(t, "io_clamp", "io_lock")
    /\ req' = [req EXCEPT ![t].len = ClampedLen(req[t], table[FileOf(t)].size)]
    /\ UNCHANGED <<mbr, tableVars, flagVars, opened, part_mutex, disk_mutex,
                   handle>>

VD_io_clamp(t) ==
    /\ Goto(t, "io_clamp", "io_lock")
    /\ req[t].off < table[FileOf(t)].size
    /\ req' = [req EXCEPT ![t].len = ClampedLen(req[t], table[FileOf(t)].size)]
    /\ UNCHANGED <<mbr, tableVars, flagVars, opened, part_mutex, disk_mutex,
                   handle>>

VD_io_lock(t) ==
    /\ Goto(t, "io_lock", "io_disk")
    /\ disk_mutex = NoThread
    /\ disk_mutex' = t
    /\ UNCHANGED <<mbr, tableVars, flagVars, opened, part_mutex, handle, req>>

\* The units of the image that the transfer of thread t covers.
Extent(t) ==
    LET start == table[FileOf(t)].offset + req[t].off
    IN  start .. (start + req[t].len - 1)

\* What sector 0 may hold once the transfer of thread t is over: a write that
\* covers it stores any layout, unless the transfer fails (EIO).
SectorAfter(t) ==
    {mbr} \cup (IF req[t].op = "write" /\ 0 \in Extent(t) THEN Layouts ELSE {})

\* DISKread or DISKwrite, then the unlock.
VD_io_disk(t) ==
    /\ Reply(t, "io_disk")
    /\ disk_mutex' = NoThread
    /\ mbr' \in SectorAfter(t)
    /\ UNCHANGED <<tableVars, flagVars, opened, part_mutex, handle>>

-----------------------------------------------------------------------------
(* VD_flush calls DISKflush under no mutex and ignores its result.          *)

VD_flush(t, h) ==
    /\ Take(t, "flush", On(h))
    /\ handle[h].st = "live"
    /\ UNCHANGED <<mbr, tableVars, flagVars, opened, part_mutex, disk_mutex,
                   handle>>

VD_flush_done(t) ==
    /\ Reply(t, "flush")
    /\ UNCHANGED <<mbr, tableVars, flagVars, opened, part_mutex, disk_mutex,
                   handle>>

\* The loop ends on an unmount or on a signal (files may then be open); the
\* workers finish the callback they are in before VD_destroy closes the image.
VD_destroy ==
    /\ daemon = "running"
    /\ \A t \in Threads : pc[t] = "idle"
    /\ daemon' = "closed"
    /\ UNCHANGED <<mbr, tableVars, flagVars, opened, part_mutex, disk_mutex,
                   handle, pc, req>>

\* The process has ended.
Ended == daemon # "running" /\ UNCHANGED vars

-----------------------------------------------------------------------------
\* What a thread does on its own once it has taken a request.
Step(t) ==
    \/ VD_open_refuse(t) \/ VD_open_check(t) \/ VD_open_set(t)
    \/ VD_open_count(t)
    \/ VD_release_wipe(t) \/ VD_release_entire(t) \/ VD_release_parse(t)
    \/ VD_release_exit(t) \/ VD_release_flag0(t) \/ VD_release_flag1(t)
    \/ VD_io_refuse(t) \/ VD_io_check(t) \/ VD_io_eof(t) \/ VD_io_clamp(t)
    \/ VD_io_lock(t) \/ VD_io_disk(t)
    \/ VD_flush_done(t)

\* A thread takes a request.
Begin(t, h) ==
    \/ \E f \in Files, w \in BOOLEAN : VD_open_find(t, h, f, w)
    \/ VD_release(t, h)
    \/ \E o \in {"read", "write"}, x \in 0..DiskSize, n \in 1..MaxLen :
          VD_io_find(t, h, o, x, n)
    \/ VD_flush(t, h)

Next ==
    \/ \E t \in Threads : Step(t)
    \/ \E t \in Threads, h \in Handles : Begin(t, h)
    \/ \E h \in Handles : KernelClose(h)
    \/ VD_destroy
    \/ Ended

Spec == Init /\ [][Next]_vars

\* A thread that can run is eventually scheduled.  The kernel's queue of
\* requests is first-in first-out and a mutex is handed on when it is released,
\* so a RELEASE that waits, and an open that waits for part_mutex, get their
\* turn however many other requests come.
Fairness ==
    /\ \A t \in Threads : WF_vars(Step(t)) /\ SF_vars(VD_open_count(t))
    /\ \A h \in Handles : SF_vars(\E t \in Threads : VD_release(t, h))

FairSpec == Spec /\ Fairness

-----------------------------------------------------------------------------
(* Properties.                                                              *)

\* Every variable holds a value of its type: in particular no transfer has a
\* negative length (len is a size_t) and the count of opened files does not
\* go below zero.
TypeOK ==
    /\ mbr \in Layouts
    /\ table \in [Files -> Entry]
    /\ lastPartition \in Files
    /\ misread \in BOOLEAN
    /\ entireDiskOpened \in BOOLEAN
    /\ partitionOpened \in BOOLEAN
    /\ opened \in Nat
    /\ part_mutex \in Threads \cup {NoThread}
    /\ disk_mutex \in Threads \cup {NoThread}
    /\ handle \in [Handles -> Handle]
    /\ pc \in [Threads -> PCs]
    /\ req \in [Threads -> Request]
    /\ daemon \in {"running", "closed", "exited"}

\* The handles whose open was answered with success and whose release has not
\* run yet.
Live == {h \in Handles : handle[h].st \in {"live", "closing"}}

\* `opened' counts exactly the live handles, whatever the interleaving of
\* VD_open and VD_release: "how many opened instances are there".
OpenCountMatches == opened = Cardinality(Live)

\* VD_release reads the partition table again only while no file is open, and
\* one thread at a time.
TableReadAlone ==
    \A t \in Threads :
       pc[t] \in ReleasePCs =>
          /\ Live = {}
          /\ \A s \in Threads \ {t} : pc[s] \notin ReleasePCs \cup IOPCs

\* VD_read and VD_write hold a pointer into the table from findPartition to the
\* end of the transfer, under no lock of the table.  All the same the transfer
\* stays inside the partition as the table describes it when DISKread or
\* DISKwrite is called.
IOInBounds ==
    \A t \in Threads :
       pc[t] \in {"io_lock", "io_disk"} =>
          LET p == table[FileOf(t)]
          IN  /\ p.no = FileOf(t)
              /\ Extent(t) # {}
              /\ \A u \in Extent(t) : p.offset <= u /\ u < p.offset + p.size

\* usageAndExit from within VD_release ends the daemon only when no client has
\* a file open and no transfer is in progress.
ExitOnlyQuiescent ==
    daemon = "exited" =>
       /\ Live = {}
       /\ \A t \in Threads : pc[t] \notin IOPCs \cup {"flush"}

\* A lock-out ends with its cause: a flag is set only while a file is open or
\* about to be (or the last release is still resetting the flags).
NoStaleLockout ==
    (\A h \in Handles : handle[h].st = "free")
       => \/ ~entireDiskOpened /\ ~partitionOpened
          \/ \E t \in Threads : pc[t] \in ReleasePCs

\* Whenever no file is open the table is what sector 0 says now, even when a
\* client has rewritten it through EntireDisk, unless the last read of sector 0
\* failed: a failed read is made good by the next last close.
TableFresh ==
    (~misread /\ Live = {} /\ \A t \in Threads : pc[t] \notin ReleasePCs)
       => table = ParsedTable(mbr)

\* With -r no write reaches the disk.
ReadonlyNoWrite ==
    readonly => \A t \in Threads : pc[t] \in IOPCs => req[t].op = "read"

\* A mutex that is taken is released, or the process ends.
LocksReleased ==
    /\ part_mutex # NoThread ~> (part_mutex = NoThread \/ daemon # "running")
    /\ disk_mutex # NoThread ~> (disk_mutex = NoThread \/ daemon # "running")

\* Every VD_open and every VD_release is answered, or the process ends.
OpenAndReleaseAnswered ==
    \A h \in Handles :
       /\ handle[h].st = "opening"
             ~> (handle[h].st # "opening" \/ daemon # "running")
       /\ handle[h].st = "closing"
             ~> (handle[h].st # "closing" \/ daemon # "running")

\* The README of vdfuse: "If you open EntireDisk then all further I/O to the
\* PartitionN files will fail", and the converse.  A transfer passes the check
\* of VD_read or VD_write only when no file of the other kind is open.
OtherKindLive(f) == \E h \in Live : (handle[h].file = 0) # (f = 0)

IOInterlock ==
    [][\A t \in Threads : pc[t] = "io_check" /\ pc'[t] = "io_clamp"
                             => ~OtherKindLive(FileOf(t))]_vars

-----------------------------------------------------------------------------
\* VDFuse as an implementation of VDServer: a handle is held from the end of
\* VD_open to its release, the view is the table while a file is held, and a
\* worker transfers from the clamped length to the end of DISKread or DISKwrite.
HeldBar == [h \in Handles |-> IF h \in Live THEN handle[h].file ELSE UNALLOCATED]

ViewBar == IF Live = {} THEN WipedTable ELSE table

NoTransfer == [h |-> NoHandle, start |-> 0, len |-> 0, wr |-> FALSE]

TransferOf(t) ==
    [h |-> req[t].h, start |-> table[FileOf(t)].offset + req[t].off,
     len |-> req[t].len, wr |-> req[t].op = "write"]

BusyBar == [t \in Threads |-> IF pc[t] \in {"io_lock", "io_disk"}
                              THEN TransferOf(t) ELSE NoTransfer]

Server == INSTANCE VDServer
             WITH Workers <- Threads, Tables <- [Files -> Entry], Closed <- UNALLOCATED,
                  Nothing <- WipedTable, Idle <- NoTransfer,
                  held <- HeldBar, view <- ViewBar, busy <- BusyBar,
                  disk <- ParsedTable(mbr), good <- ~misread, state <- daemon

\* What clients can rely on although VD_open, VD_read and VD_write look at the
\* table under no lock and any last close writes it again: from the first open to
\* the last close they are served one table, the one sector 0 described at the
\* first open, every transfer lies inside its file as that table has it, and the
\* daemon neither exits under an open file nor stops under a transfer.
ImplementsServer == Server!Spec
=============================================================================
