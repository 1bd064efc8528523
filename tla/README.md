# VHD-Boot in TLA+

VHD-Boot boots a Linux system whose root file system lives inside a virtual disk
image (VHD, VDI, VMDK) that is itself a file on a host partition, usually NTFS.
This directory holds TLA+ models of its code, TLC configurations that check them
on small instances, and TLAPS proofs for every instance. Paths below are relative
to `src/`, the repository's root; `vdfuse.c` is
`vdfuseloop/vdfuse/src/vdfuse.c`.

## 1. The system

| Part | Code | State it keeps | Operations |
|---|---|---|---|
| vdfuse callbacks | `vdfuse.c` 550-726 | partition table, `lastPartition`, two lock-out flags, count of opened files, two mutexes | open, release, read, write, flush, destroy, getattr, readdir |
| vdfuse partition table | `vdfuse.c` 401-524 | the table, `lastPartition` | `initialisePartitionTable` (at start and after every last close), `findPartition` |
| vdfuse start-up | `vdfuse.c` 186-322, 527-548 | options, list of differencing images, chain of opened images | option loop, validation, type detection, opening, mount |
| VirtualBox VD library, FUSE | outside the repository | the image; open file descriptions, request queue | `VDRead`, `VDWrite`, `VDOpen`, ...; requests to the callbacks |
| dracut module vdfuseloop | `vdfuseloop/90vdfuseloop/*.sh` | mounts, loop device, `/dev/rootfsloop`, udev rule, initqueue job | parse the command line, mount host + image + loop, mount root, unwind at shutdown |
| dracut script vhdmount | `10-vhdmount.sh`, `kloop/10-vhdmount-kloop.sh`, `vloop/05-vhdmount-vloop.sh` | `root`, `HOSTDEV`, mounts, loop and mapper devices | four ways to the root: upperdir, squashfs, kloop, vloop |
| Arch initramfs | `kloop/arch-kloop/init`, `vloop/arch-vloop/init` | as above | the same inside mkinitcpio's init |
| Debian initramfs | `kloop/debain-kloop/*`, `vloop/debain-vloop/*` | as above, `mountroot_status` | the same inside initramfs-tools' scripts |
| ntfs-3g | `kloop/ntfs-3g_ntfsprogs-2017.3.23-fixed` | node table of its FUSE library; volume bitmap, zones, runlists and mapping pairs | third-party, one line changed so that the process survives shutdown: lookups, forgets, renames, unlinks; allocation and freeing of clusters; mapping, filling, enlarging and cutting an attribute |

How they interact: a dracut job (or a person) mounts the host partition with
ntfs-3g, starts vdfuse on the image file, binds a loop device to the file
`PartitionN` of vdfuse's mount and mounts that as the root. From then on every
access to the root is a request of the kernel to one of vdfuse's worker threads,
and from there a call into the VirtualBox library. At shutdown the chain is
undone in the opposite order.

What is hard here:

* `fuse_main` runs callbacks on several threads. Only the open count is under
  `part_mutex` and only the transfer itself under `disk_mutex`; the table, the
  flags and the pointers into the table are under neither.
* The table is wiped and filled again by the last close, because a client may
  have written a new one through `EntireDisk`.
* The results of all reads of the table are ignored; every inconsistency is an
  `exit` from inside a callback, with the mount in place.
* The scripts check almost no result, wait for devices with a fixed sleep, and
  their unwinding relies on the order in which daemons end.
* The image is a file of the host's NTFS: a cluster given out twice, a runlist that
  is one cluster off or mapping pairs that say something else than the runlist
  damage it, and show up at the next boot.

`PROJECT.json` lists these as hazards, each at its line with the properties that
would catch it, or with the reason why none does.

## 2. Modules

| Module | What it is |
|---|---|
| `VDFuse` | the callbacks, one action per access to shared state |
| `VDServer` | abstract: what clients of a mounted image can rely on, from the first open to the last close |
| `PartitionTable` | `initialisePartitionTable`, statement by statement |
| `VDMain` | `main` and `detectDiskType` |
| `VDFuseLoop` | the dracut module around vdfuse, boot and shutdown, with the life of the two daemons |
| `VhdMount` | the dracut hook `10-vhdmount.sh` |
| `InitramfsMount` | the blocks added to the Arch and Debian scripts, four flavours |
| `MountTable` | the kernel's mount table, as these scripts use it (external) |
| `FuseNodes` | the node table of libfuse-lite, on which ntfs-3g runs |
| `BitmapRun` | `ntfs_bitmap_set_bits_in_run`, the steps of one call |
| `LcnAlloc` | the cluster allocator; instantiates `BitmapRun` for the freeing of runs |
| `RunList` | the operators of `runlist.c`: merge, truncate, mapping pairs |
| `AttrRunlist` | one attribute over time: its runlist in memory and its extents on the disk |
| `MCVDFuse`, `MCPartitionTable`, `MCVDMain`, `MCVhdMount`, `MCFuseNodes` | instances for TLC |
| `VDFuseProofs`, `PartitionTableProofs`, `VDMainProofs`, `InitramfsMountProofs`, `FuseNodesProofs` | theorems and proofs about the module of that name |
| `DracutProofs` | theorems about `VhdMount` and `VDFuseLoop` |
| `ClusterProofs` | theorems about `LcnAlloc` with `BitmapRun`, and about the operators of `RunList` |
| `MountTableProofs` | lemmas about mount tables, for the two modules of mount scripts |

Definitions whose comment starts with "Mutant:" (or that stand under the heading
"Mutations") are deliberately wrong variants of
the definition that follows them. No specification uses them; put in the place of
the definition each one makes TLC report the property named for it in
`PROJECT.json`, which shows that the property depends on that code.

### VDFuse

State: `table`, `lastPartition`, `entireDiskOpened`, `partitionOpened`, `opened`
are the globals (152-179); the mutexes hold their owner; `pc` and `req` are each
thread's place in its callback and the request it answers; `handle` is the
kernel's open file descriptions; `mbr` is what sector 0 holds; `daemon` is whether
the process runs, was closed by `VD_destroy`, or called `exit`.

| Code | Actions |
|---|---|
| `VD_open` 619-639 | `VD_open_find` (lookup), `VD_open_refuse` / `VD_open_check` (624-627), `VD_open_set` (629-632), `VD_open_count` (634-638) |
| `VD_release` 641-658 | `VD_release` (lock, count), `_wipe`, `_entire`, `_parse` or `_exit` (`initialisePartitionTable`), `_flag0`, `_flag1` (652-655) |
| `VD_read`, `VD_write` | `VD_io_find`, `VD_io_refuse` / `_check`, `VD_io_eof` / `_clamp`, `VD_io_lock`, `VD_io_disk` |
| `VD_flush` | `VD_flush`, `VD_flush_done` |
| `VD_destroy` | `VD_destroy` |
| kernel | `KernelClose`: the last reference to a handle goes, once its requests are answered |

Abstractions. Transfers and positions are counted in a few units, unit 0 being
sector 0. A layout stands for what `initialisePartitionTable` makes of the image
(the routine itself is `PartitionTable`). A write that covers unit 0 stores any
layout. A read of sector 0 that fails gives any layout (`ReadMayFail`), since the
code ignores the result; the history variable `misread` says so until the next read.
A refusal with ENOENT at the lookup changes nothing and
is no action. `VD_getattr` and `VD_readdir` change nothing, no callback depends on
what they answer, and they are not in the model.

### VDServer

There are no locks, counts, flags or threads inside callbacks here, only handles,
the table that clients are served from (`view`), the transfers in progress, and what
sector 0 describes. The first open takes the view from sector 0, or from anything when
it could not be read; it then stays until the last close. A transfer lies inside its
file as the view has it; only a write that starts at unit 0 changes what sector 0
describes; the daemon exits on a foreign table only while nothing is open, and an
unmount waits for the transfers. `VDFuse` maps to it with `HeldBar` (a handle is held
from the end of `VD_open` to its release), `ViewBar` (the table while a file is held),
`BusyBar` (from the clamped length to the end of the transfer) and `~misread`. This is
what the multithreaded daemon does keep; the interlock of `EntireDisk` against
`PartitionN`, which it does not, is `IOInterlock`.

### PartitionTable

One action per statement group of `initialisePartitionTable`, with a program
counter, run again and again on images that a client may have rewritten
(`Reread`). Positions are bytes, descriptors blocks, as in the code. The buffer
`ebr` starts as anything in `Garbage` and keeps its content when a read past the
end of the disk fails. Sector 0 is readable here; its failure is in `VDFuse`. The
loop at 410 stores one slot past the table: undefined in C. In the project's
default build the bytes belong to a field of `disk_mutex` that a mutex of its kind
does not use, and this outcome (no effect) is the one modelled.
So `TypeOK` is about the stores of partitions (445-486), which go to slots of the table,
and not about the wipe. `FormatTable` is the reference: what the DOS format says the
table should be. `PrimariesDescribed` compares with the format what the routine does
read rightly, `EntireDisk` and the four primary entries; `LogicalsServed` is what the
comments of the routine say of the rest, and is violated.

### VDMain

The option loop takes any sequence of options up to `MaxOptions`; `Validate`,
`Detect`, `OpenImage`, `OpenDifferencing`, `Mount` follow `main` in order, and every
`usageAndExit` is the state `exited`. A file has a `Header` (what its first bytes
say) and a `Format` (what it is); of a file with fewer than eight bytes the type
detected is any, as the buffer is not initialised. `VDOpen` succeeds only for the
right format and may fail for any reason.

### VDFuseLoop

`Parse` is `parse-vdfuseloop.sh`, `Uevent` the udev rule, `StartJob`, `StartNtfs`,
`StartVdfuse`, `BindLoop` the parts of `vdfuseloop.sh`, `MountRoot` `mount-loop.sh`,
`UmountOldroot`, `DetachLoops`, `UmountVdhost`, `UmountHost` the commands of
`shutdown-vdfuseloop.sh`. dracut's initqueue (`QueueEnds`, `QueueTimeout`), systemd's
killing of everything without an `@` (`KillAll`) and vdfuse ending after its unmount
(`VdfuseEnds`) are external. The initial state says what is wrong: options missing or
illegal, the device absent or mounted elsewhere, ntfs-3g, vdfuse, `losetup -f` or the
binding of the loop device broken. The `continue` at `parse-vdfuseloop.sh:41` stands in
no loop; it does nothing (bash, since 4.4, says so and goes on), so that an illegal
device gives a rule without a match key, which every device matches (`RuleFor`), and
whose job tries to mount that device in the place of the host. When `losetup` cannot bind,
`/dev/rootfsloop` is linked to the unused device all the same (57).
The names that other modules use too begin with `Loop` here (`LoopInit`, `LoopNext`,
`LoopSpec`, `LoopTypeOK`), so that one module of proofs can extend this one and
`VhdMount`.

### VhdMount, InitramfsMount, MountTable

`VhdMount` runs the blocks of `10-vhdmount.sh` one after another, each through
`host` (the variables, the unmount of the new root, the host's mount), `overlay` or
`attach`/`wait`/`probe`/`real`, and `bind`. No result is looked at. What may fail at any
time is the umount of the new root (`ClearNewRoot`), the mount of the host partition,
`kpartx` and `vgchange`; the mounts of the new root fail when the host, the file or the
node they need is missing, and an umount of a busy root fails. A device node appears
between a request for it and the second wait; with a root on the disk itself the node may
be there from the start. `InitramfsMount` has the same for the scripts that move mounts
instead of binding them and that look for an init before they leave; the flavour is part
of the initial state. Its scripts test their options one after another, so that a
command line with several of them would run several blocks; one method to a boot is
modelled. A mount table is a
sequence of mounts; a later mount at a place covers an earlier one.

### FuseNodes

A handler of `fuse.c` is one step, for ntfs-3g uses the single-threaded
`fuse_loop`. The table maps node ids to name, parent, lookup count, reference count
and open count; the kernel's side is how many lookups it has to give back, how many
files it has open, and which object it meant. Ids are taken from a space of
`IdSpace` and wrap. `get_path` is a recursive function on the nodes of the table: the
path of a node is walked in the file system at once, so that its value is the object
found there. `Below` (a directory cannot be moved into itself) is the closure of the
directory's entries. The rename, the hiding of an open file and the unlink of a hidden
file by its last release may fail. The last one's result is ignored (`fuse.c:1781`), and
the hidden name stays: the history variable `left` has the files for which that
happened, and `HiddenIsOpen` is about all others. Clients make no hard links
(`fuse_lib_link` is left out).

### LcnAlloc and BitmapRun

A call of `ntfs_cluster_alloc` is a sequence of steps, one per turn of its loop
(`Scan`, `SkipScan`), per `zone_pass_done` and per `done_zones_check`; freeing goes
run by run, and inside a run window by window through `BitmapRun`. One read or write
of the bitmap may fail, also the read of a buffer in the middle of a search
(`ScanFails`), after which the clusters taken so far are given back. The bits in a byte, the bytes in a buffer and the clusters
skipped are parameters, since the arithmetic uses none of their values.

### RunList and AttrRunlist

`RunList` translates `runlist.c`: an array with a terminator is a sequence, and the
four ways of merging keep the code's arithmetic with its indices. `AttrRunlist` puts
it to work as `attrib.c` does: extents are mapped in any order (`Map`), a write fills
holes (`FillHole`), appends behind the end (`AppendHole`) and ends or fails
(`WriteEnds`, `WriteFails`), the attribute is enlarged (`Expand`), cut (`Shrink`) and
reopened. The mapping pairs are really encoded and decoded, with a byte of
`ByteBits` bits. An MFT record has `Room` bytes for them; when new records cannot be
had (`MayFail`) the rollbacks run. Only NTFS 3.0 holes and attributes that are not
compressed; data fills the allocated clusters. Whether a sparse attribute has become
dense is decided from the data size, which is still the old one while the attribute is
enlarged (`SparseChanged`).

## 3. Runs

| Run | Checks | Shows |
|---|---|---|
| `vdfuse_concurrent` | `TypeOK`, `OpenCountMatches`, `TableReadAlone`, `IOInBounds`, `ExitOnlyQuiescent`, `NoStaleLockout`, `TableFresh`, `ImplementsServer` | although the table is under no lock that readers take, it is refilled only when nobody can be using it; transfers stay in their partition; the table is fresh, unless the read of sector 0 failed, and no lock-out is left once the last file is closed; all of it together implements `VDServer`. Reads of sector 0 may fail |
| `vdfuse_live` | `LocksReleased`, `OpenAndReleaseAnswered` | no thread waits for ever, the locks included |
| `vdfuse_race` | `IOInterlock`, violated | the interlock of `EntireDisk` and `PartitionN` does not hold: see the findings |
| `partition_table` | `TypeOK`, `AllVisible`, `PrimariesDescribed`, `Terminates` | on 17 images, in any order of re-reading |
| `partition_logical` | `LogicalsServed`, violated | a disk with proper logical partitions is refused: see the findings |
| `main` | `TypeOK`, `ChainAsGiven`, `WritesAllowed` | every command line of up to four options over four files |
| `vdfuseloop` | `RootServed`, `GoodBoots`, `BootDecided`, `ImageReleased` | a mounted root is never deprived of a layer below it; a good configuration boots whatever the number of uevents; every boot is decided; a shutdown closes the image |
| `vhdmount` | `NoForeignRoot`, `HostShown`, `VloopRootFound` | every command line with up to two methods; umounts, mounts of the host and `kpartx` fail or not |
| `initramfs` | `ImageNotHost`, `HostMoved` | the four Arch and Debian flavours with all their methods, one to a boot: with the image there the host is never booted in its place, and it is shown in the image's root |
| `fusenodes` | `RefsExact`, `OneNodePerName`, `OpenReachable`, `HiddenIsOpen` | node table, kernel and file system agree after any lookups, forgets, opens, renames and unlinks, some of which fail; forgets of several lookups at once only in the theorems (`MaxLookups` is 1 here) |
| `clusters` | `NotSharedNorLost`, `FreeCountExact`, `AllocatedAsAsked`, `RunExactlySet`, `SearchComplete` | no cluster is given out twice or lost, with one failing access to the bitmap; every search ends |
| `runlist` | `RunlistTrue`, `NeverRefused`, `DiskTrue` | the runlist in memory and the extents on the disk both stay the attribute, under partial mapping, delayed updates and failing updates |

Findings (quoted in full in `PROJECT.json`):

1. The lock-out of `EntireDisk` against `PartitionN` is tested and set outside
   `part_mutex`, and reset by a release that does not know of opens in progress: two
   threads can get both kinds open, with I/O admitted, against vdfuse's README. vdfuse
   never asks libfuse for a single thread (299-315).
2. `vdfuse.c:471` reads an EBR 446 bytes behind its place, for `EBRentry` already has
   these bytes as its first field, and 492 takes an offset in blocks for bytes. A DOS
   disk with logical partitions is refused, although the comment at 454 says that the
   chain of EBRs is processed.

What else the code does that a reader may not expect. The models have it as the code
has it, and the properties are stated so that they say what does hold:

* `vdfuse.c:269`: `-t raw`, offered by the usage text (350), is refused; 534: a fixed
  VHD has its cookie in the footer only and is not detected, and the boot scripts
  never pass `-t`.
* `vdfuse.c:410` stores one slot past the table; see `PartitionTable` above. 571:
  `VD_flush` calls the library without `disk_mutex`.
* `vdfuse.c:466-493`: bytes at the wrong place that look like an EBR are believed, and
  after a failed read the buffer of the EBR before is; `PrimariesDescribed` says nothing
  of the slots that such a chain fills.
* `10-vhdmount.sh:41`, 70, 103, 155: the result of the umount is not tested; when it
  fails with a root of before on the new root's place and the method fails too, the
  system boots from that root. `NoForeignRoot` says that nothing else leaves it there.
  150: with `kloop=` and `vloop=` both given the second takes the host from what the
  first has put in `root`; `HostShown` is about command lines with one of them.
* `shutdown-vdfuseloop.sh:26`: the unmount of the host may find vdfuse still closing
  the image, is only logged, and the host stays mounted.
* `10-vhdmount.sh:133`: the kloop block probes the type before its second wait, so
  that a late node of another type than ext4 is not mounted (`VloopRootFound` is
  about the vloop block, which waits first); 36: `$"WORKDIR"` is never empty.
* `vloop/debain-vloop/local:275` tests a status that was never assigned and panics on
  an ntfs host; `vloop/arch-vloop/init:62` tests a string without spaces around `=`
  and takes every host for ntfs; `kloop/debain-kloop/ntfs_3g:11` is rejected by the
  shell.
* `lcnalloc.c:338`: the loop over a buffer ends with the buffer, not with the zone, so
  that data may get clusters of the MFT zone in spite of the reservation (231).
* `lcnalloc.c:347` takes one range of free clusters from a buffer and goes on: a zone
  is marked full, and ENOSPC returned, while free clusters remain. Hence
  `NoSpaceIsReal` is about a search for one cluster with no zone marked. 426: after
  the look at a requested cluster the search goes on at the zone's position, but `pass`
  is 2 by then when the request was for the start of a zone (295) or behind the bitmap
  (448), and the zone before its position is not searched; `NoSpaceIsReal` leaves these
  requests out. (The attempt to prove it showed the case, which needs zones of more than
  one cluster; the run's volume has them since.) Only the first cluster of a freed run unmarks its zone. 739: a run of which only a part
  could be cleared stays so (`leaked` in the model).
* `runlist.c:640` looks for the end of a merged list from where it was before the
  merge; when the list got shorter the end marker goes to a stale terminator and the
  real one stays "not mapped". `RunlistTrue` allows both at the end of the list. 262:
  `ntfs_rl_append` may look at the element behind the list.
* `attrib.c:6397`: the rollback of an enlargement writes the pairs from VCN 0, which
  fails when the head of the list is not mapped, and leaves the extents half
  rewritten; 2318 does the same with the result ignored. `DiskTrue` states the
  rollback for fully mapped lists.

Bounds. `VDFuse`: two threads and two handles, because every race of this code is
between two callbacks (a third could only repeat one of the two roles); a disk of
two units, and a layout that moves and shrinks the partition, so that a transfer
can lie inside, across and beyond an end that changes; requests of one or two units
(`MaxLen`). Threads and handles are symmetric in the runs without liveness.
`PartitionTable`: a table for three logical partitions, so that chains of one, two
and a full circle occur; block and header sizes as in the code. `VDMain`: two
differencing images (`DIFFERENCING_MAX`) and four options, one more than fills the
array together with `-f`. `VDFuseLoop`: three uevents, so that a job can run before,
during and after another. `VhdMount`: two methods on a command line (a third meets the
same state as the second), two types of the real root, of which one is the default.
`FuseNodes`: two names (symmetric), three objects, five ids, two hidden names: enough
for a directory with an open file that is replaced by another while the id counter
wraps.
`LcnAlloc`: seven clusters, zones of three, two and two, buffers of two bytes of two
bits, so that zones start inside and between buffers and a run spans three bytes of the
bitmap; requests for a cluster inside a zone, at a zone's start and behind the bitmap.
`AttrRunlist`: four clusters, bytes of two bits and six bytes for the pairs, so that
numbers need one or two bytes with either sign, and an attribute has several extents.

Fairness. A thread inside a callback goes on (weak fairness of `Step`): threads are
scheduled by the kernel and no loop of the callbacks is unbounded. A thread that
waits for `part_mutex` in `VD_open`, and a RELEASE that waits in the kernel's queue,
are treated strongly fairly, because a mutex that is given back again and again and
a first-in first-out queue do not pass over a waiter for ever. Nothing is assumed of
clients: they need not read, write or close. `PartitionTable` is one thread that
waits for nobody (weak fairness of `Step`). `VDFuseLoop`: the scripts and dracut's loop
go on (weak fairness of `Work`; each waits for nothing but the initqueue's timeout,
which is part of it), udev reports a device that is there, and an unmounted vdfuse
ends. Nobody needs to shut the system down.

Deadlock is checked in all runs but `fusenodes` and `runlist`; where a process or a
script has ended the models stutter explicitly (`Ended`, `Exited`, `Done`). In
`fusenodes` and `runlist` the bounds on objects, ids and clusters, or a history
variable that says that the state is beyond repair, end the behaviour.

## 4. Proofs

The proofs hold for any sets of threads, handles (finite), partitions, layouts,
images, command lines and clusters and for any sizes. What is assumed of the
constants is `ConstantsAssumption` (`VDFuse`), `ImageAssumption` (`PartitionTable`),
`MainAssumption`, `VhdAssumption`, `LoopAssumption`, `FlavorAssumption`,
`FuseNodesAssumption` and `LcnAllocAssumption`, and TLC evaluates each on a run. Every inductive invariant was checked with TLC on the
instance of its run before it was proved.

`VDFuseProofs` (`TypeCorrect`, `CountCorrect`, `TableReadAloneCorrect`,
`TransferCorrect`, `ExitCorrect`). None of the properties is inductive alone: that
transfers stay in bounds needs that the table does not change under them, which
needs that a re-read happens with no live handle, which needs that the count is the
number of live handles and that the re-reading thread holds `part_mutex`. `IInv`
is the conjunction:

* `OpenCountMatches`: `opened` = number of live handles;
* `ReleaseInv`: a thread in the re-read owns `part_mutex`, and `opened = 0`;
* `RequestInv`: which handle a thread is about, by where it is;
* `NumberInv`, `TransferInv`: what a transfer learnt of its entry still holds.

`ReadonlyCorrect` adds `ReadonlyInv`: a handle past the check of `VD_open` is not
open for writing, and no transfer is a write.

`FreshCorrect` and `LockoutCorrect` add `LingerInv`: with no
file open and no thread re-reading, the table is fresh (unless the last read of sector 0
failed, `misread`); and every flag that is set has a live handle, an open about to be counted or a
release about to reset it behind it. Finding 1 does not contradict it: the race makes
a flag disappear too early, never too late.

`ServerImplemented` is the refinement `ImplementsServer`, for any number of threads and
handles: under `IInv` and `LingerInv` every step of `VDFuse` is a step of `VDServer` or a
stutter (`ServerStep`). Only the end of an open (`ServerOpen`), the count in a release
(`ServerClose`), the clamp of a transfer that has something to transfer (`ServerBegin`),
its end (`ServerFinish`), a re-read and the end of the daemon are visible. That the first
open finds the view `VDServer` asks for is `FreshInv`; that a close hides the table only
when no other handle is live is the count.

`PartitionTableProofs` (`TypeCorrect`, `VisibleCorrect`): slots are filled in
ascending order, each store raising `lastPartition` to its slot, so nothing in use
lies above it, although `lastPartition` is never reset.

`TypeCorrect` also says where partitions are stored: in slots 1 to 4 while the primary
entries are read, and behind them while the chain is (`IndexInv`).

`DiskDescribed` is `PrimariesDescribed` on every disk. `DInv`: the table holds what the
primary entries read so far give and nothing behind them (`PrimaryInv`), the flag says
which of them is extended (`FlagInv`), and the chain, wherever it leads and whatever it
reads, stores only behind the fourth slot (`ChainInv`). What the slots behind hold is not
proved, and what the format says of them is not true of the code (finding 2).

`VDMainProofs` (`TypeCorrect`, `ChainIsAsGiven`, `WritesAreAllowed`), for any number of
options and differencing images. `IInv`: the variables hold what the options read so
far give (`OptionsInv`: the last `-f`, the differencing images in their order), what
`Validate` accepted stays so (`ValidInv`), and the chain is the image followed by the
differencing images opened so far (`ChainInv`).

`DracutProofs` (`LoopTypeCorrect`, `RootServedCorrect`), for any number of uevents and
any set of faults. That the root is served is not inductive: the kill spares a daemon
only because its name begins with `@` (`SparedInv`), the root is mounted only from a
link that is bound, which means a loop device on a live vdfuse on a live host, also when
jobs run for other devices than the host's (`StackInv`), and the number of loop devices is bounded by the uevents because every
job has a uevent of its own (`JobsInv`).

`MountTableProofs` says what `Mount`, `Umount` and moving a mount do to what is seen at
a place: the last mount there. "The last" is a maximum over positions; that it exists
is the least-number principle, which comes from the library's theorems on well-founded
relations (`LeastNumber`), and not from an induction theorem.

`DracutProofs` again (`TypeCorrect`, `NoForeignRootLeft`, `HostIsShown`,
`VloopRootIsFound`), for any set of command lines, so for any number of methods on
them. `IInv`: the script is only inside a block that the command line asks for
(`BlockInv`); `root` names something other than the host partition only after a loop
block (`RootInv`), hence the later blocks look for the host where it is (`HostInv`);
the first block that is entered takes what was mounted at the new root away for good,
unless its umount fails (`NewInv`); between blocks the bind mount of the last block is the last mount
(`ShownInv`); the type of the real root is right once the probe ran on a node that is
there (`VloopInv`).

`InitramfsMountProofs` (`TypeCorrect`, `ImageNotHostCorrect`, `HostIsMoved`), for all four
flavours. `IInv`: which methods get to which step (`MethodInv`), the mounts until the
host is used (`StartInv`), what may have been mounted at `/host` and at the new root by
each step, and that the host has left the new root once the image is there
(`PlacesInv`), a device node exists only for an image on a mounted host
(`NodeInv`), what is seen at the new root (`ShownInv`) and what is left when `init` is
started (`BootInv`).

`ClusterProofs` (`RunIsExactlySet`, `ClustersHeldOnce`, `FreeIsCounted`,
`AllocatesAsAsked`, `SearchIsComplete`, `PositionsInZones`), for any volume, zones, buffer and byte sizes and any number of
faults. First lemmas about one call of `ntfs_bitmap_set_bits_in_run`: after each window
(`WindowStep`) the bits before the window are what was asked for and all others as
before, and a window that fails leaves them so (`WindowFailsStep`). Then lemmas about the
allocator's steps: appending a cluster to the runlist adds exactly that cluster
(`AppendRunStep`), and the cluster that the scan takes was free in the buffer, which
agrees with the disk (`ScanStep`). `IInv`:

* `StateInv`, `CallsInv`: which call is under way, and its ranges;
* `AskedInv`: the clusters taken in a call and those still asked for add up;
* `ClearInv`: while a run is being freed, the bits up to the window are clear;
* `DiskInv`: the bitmap marks what files and the system keep, and what is held but for
  the bits already cleared, and nothing else;
* `CountInv`: every cluster is free, just freed, held or kept, which gives the count.

That the search ends and leaves nothing out has an invariant of its own, `SInv`, on top
of `IInv`:

* `PosInv`: each zone's position is a cluster of the zone, unless the zone has none;
* `TurnsInv`: the turns taken, those that the rest of this zone may take, and two passes
  for each zone still to come stay within the bound; `Order` lists in which order the
  zones are visited (from DATA2 the search comes back to DATA2);
* `CoverInv`: for a search as `NoSpaceIsReal` describes it, every zone done is in use
  altogether, and so is what the pass in progress has left behind: from the position on
  in the first pass, from the zone's start on and behind the position in the second.
  No bit changes while such a search has found nothing, so what was seen stays true.

`PositionsInZones` is the type invariant; the bound on `vol->free_clusters` follows from
`CountInv`, and after a failure to free from `FreeBound`.

The second part of `ClusterProofs` is about the operators of `RunList`, for lists of any
length. `IsRunlist` says what a list in good order is: runs that follow each other
without gaps, then a terminator. No induction is used: a list is its chain of runs
(`Chain`) and its terminator, `Says` is what a chain says of a VCN, and lemmas take
chains apart and put them together (`Splits`).

* `TruncateCorrect`: `ntfs_rl_truncate` gives a list in good order that ends at the
  given VCN and maps all VCNs before it as the list did.
* `MergeCorrect`: `ntfs_runlists_merge(drl, srl)` gives a list in good order in which
  the VCNs that `srl` maps are found as `srl` has them, and all others as `drl` has
  them; what lies between the end of `drl` and the start of `srl` is not mapped. The
  proof goes through the four ways of merging (`ntfs_rl_replace`, `_insert`, `_append`,
  `_split`) inside a run, and through the three that occur behind the end, each with
  the joining of neighbours.

The conditions of `MergeCorrect`: `srl` is, like newly allocated clusters or a decoded
extent, runs that are not mapped and then runs that are (`Source`), and its mapped part
lies behind `drl` or inside one hole or unmapped run of it (`Room`). A list that ends
with LCN_ENOENT must not fill that run to its end: the code does not take such a list
for one that finishes the run. Lists with a run that is not mapped behind the mapped
ones, such as the first extent of an attribute that has several, are not covered.

`FuseNodesProofs` (`RefsExactCorrect`, `OneNodePerNameCorrect`, `OpenReachableCorrect`,
`HiddenIsOpenCorrect`), for any names, ids, objects, any nesting of directories and any
order of requests. `IInv` has three parts:

* `GoodTable`: the table is consistent by itself: parents exist (`TableOK`), reference
  counts are what refers to a node (`RefsOK`), and no two nodes have the same name in the
  same directory (`HashOK`);
* `Kernel`: every node has the lookups and opens that the kernel knows of;
* `Mirror`: the table is a picture of the file system. A named node stands for the entry
  of its name in its parent's directory, unless it is a hidden file that its last release
  removed (`NamesOK`); no two nodes stand for the same object (`ObjectsOK`); open files are
  there, and hidden names are those of open files that were unlinked, but for `left` and
  what an earlier mount left (`OpenOK`, `HiddenOK`);
  going up from node to parent does not go round (`Founded`).

What every path leads to follows from the mirror (`PathIs`), with `Founded` in the place
of an induction over the depth: the set of nodes whose path would lead elsewhere is closed
upwards, hence empty. Each request is then followed in the table (`Hash`, `Unhash`, `Drop`,
`Relink`) and in the file system (`MakeMirror`, `AddMirror`, `RemoveMirror`, `MoveMirror`)
side by side. A rename keeps `Founded` because the file system refuses to move a directory
into itself (`Below`).

Model-checked only:

* liveness (`PartitionTable`, `VDFuse`, `VDFuseLoop`): the prover has no rules for
  fairness;
* `AttrRunlist` (`RunlistTrue`, `NeverRefused`, `DiskTrue`): they are about mapping pairs,
  encoded and decoded byte by byte with folds, and what folds compute needs induction over
  data. `MergeCorrect` and `TruncateCorrect` are the steps that need none.

## 5. Not modelled, and plan

Left out:

* Most of ntfs-3g. With its utilities it is over 120000 of the repository's lines,
  third-party, and changed by this repository in one assignment. Modelled is what the
  boot stands on: the node table, the cluster allocator, the bitmap and the runlists.
  Not modelled are directories and indexes, MFT records and attribute lists beyond
  what `AttrRunlist` needs, the log file, security descriptors, ACLs, compression,
  reparse points, extended attributes, Unicode, and the programs of `ntfsprogs`
  (mkntfs, ntfsresize, ntfsclone, ...), which the boot does not run. The share of
  the repository's lines that the map covers is small for this reason; of the code
  that is the repository's own it covers most of vdfuse and of the mount scripts.
* The distributions' own parts of `init`, `local` and `mkinitramfs`, and
  `module-setup.sh`, which only copies files.
* The VirtualBox library and the kernel's side of FUSE (outside the repository;
  modelled only as vdfuse sees them), message formats, permission bits and verbose
  output (no property is about them); `VD_getattr` and `VD_readdir`.

Next:

1. `MergeCorrect` for lists with an unmapped run behind the mapped ones.
2. The actions `Map` and `Shrink` of `AttrRunlist` from `MergeCorrect` and
   `TruncateCorrect`, with the decoding of an extent as an assumption of the step.
