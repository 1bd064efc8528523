------------------------------ MODULE VhdMount ------------------------------
(***************************************************************************)
(* 10-vhdmount.sh, the dracut hook that finds the root file system in a    *)
(* file on a host partition: four blocks, for upperdir=, squashfs=, kloop= *)
(* and vloop=, each entered when its option is given.  The scripts of the  *)
(* kloop and vloop directories consist of the first three blocks and of    *)
(* the last one.                                                           *)
(*                                                                         *)
(* No result of a command is looked at.  The umount of the new root, the   *)
(* mount of the host partition, kpartx and vgchange may fail at any time;  *)
(* the mounts of the new root fail when what they need is missing.  Device *)
(* nodes appear some time after kpartx or vgchange asked for them; the two *)
(* sleeps of a block together are assumed to be long enough, one is not.   *)
(***************************************************************************)
EXTENDS MountTable

CONSTANTS
    Script,          \* the blocks, in their order
    CommandLines,    \* what the kernel command line may ask for
    RealTypes,       \* the type of the file system in the image
    MayFail          \* whether umount, mounting the host and kpartx may fail

CombinedScript == <<"upper", "squash", "kloop", "vloop">>
KloopScript == <<"upper", "squash", "kloop">>
VloopScript == <<"vloop">>

\* kloop= and vloop= name a file, or are just set when the root is on the disk
\* itself; fstype says whether kloopfstype= or vloopfstype= is given.
CommandLine ==
    [upper : BOOLEAN, work : BOOLEAN, squash : BOOLEAN,
     kloop : {"no", "file", "disk"}, vloop : {"no", "file", "disk"},
     klvm : BOOLEAN, fstype : BOOLEAN, hidden : BOOLEAN]

ASSUME VhdAssumption ==
    /\ Script \in {CombinedScript, KloopScript, VloopScript}
    /\ CommandLines \subseteq CommandLine
    /\ MayFail \in BOOLEAN

VARIABLES
    cmd, realType,
    root,        \* dracut's variable: the host partition or the real root
    HOSTDEV,
    fstype,      \* KLOOPFSTYPE or VLOOPFSTYPE, "" while it is not set
    mounts,
    refused,     \* history: an umount failed to take away the root of before
    asked,       \* whether kpartx or vgchange has asked for the node
    node,        \* whether the node of the real root exists
    block,       \* the position in Script
    pc

given == <<cmd, realType>>
vars == <<given, root, HOSTDEV, fstype, mounts, refused, asked, node, block, pc>>

Init ==
    /\ cmd \in CommandLines
    /\ realType \in RealTypes
    /\ root = "host" /\ HOSTDEV = "host"
    /\ fstype = ""
    /\ mounts \in {<<>>, Mount(<<>>, "host", "new")}
    /\ refused = FALSE /\ asked = FALSE /\ node = FALSE
    /\ block = 1
    /\ pc = "block"

Here == Script[block]
Loop == Here \in {"kloop", "vloop"}
Goto(from, to) == pc = from /\ pc' = to

\* The test at the head of each block.  The test of upperdir= also looks at the
\* string "WORKDIR", which is never empty.
Requested(b) ==
    \/ b = "upper" /\ cmd.upper
    \/ b = "squash" /\ cmd.squash
    \/ b = "kloop" /\ cmd.kloop # "no"
    \/ b = "vloop" /\ cmd.vloop # "no"

Skip ==
    /\ pc = "block" /\ block <= Len(Script) /\ ~Requested(Here)
    /\ block' = block + 1
    /\ UNCHANGED <<given, root, HOSTDEV, fstype, mounts, refused, asked, node, pc>>

\* A mounted new root is unmounted; whether that worked is not looked at.
ClearNewRoot_kept == UNCHANGED <<mounts, refused>>
ClearNewRoot ==
    \/ mounts' = Umount(mounts, "new") /\ UNCHANGED refused
    \/ /\ MayFail /\ Mounted(mounts, "new")
       /\ refused' = IF Visible(mounts, "new") = "host" THEN TRUE ELSE refused
       /\ UNCHANGED mounts

\* The head of a block; the loop blocks set root to the device of the real root.
Enter ==
    /\ block <= Len(Script) /\ Requested(Here)
    /\ Goto("block", "host")
    /\ root' = IF Loop THEN "real" ELSE root
    /\ HOSTDEV' = root
    /\ ClearNewRoot
    /\ fstype' = IF Loop /\ cmd.fstype THEN realType ELSE ""
    /\ UNCHANGED <<given, asked, node, block>>

\* The host partition is mounted on /host with the type that blkid reports (or
\* ntfs-3g).
MountHost ==
    /\ Goto("host", IF Loop THEN "attach" ELSE "overlay")
    /\ \/ mounts' = Mount(mounts, HOSTDEV, "host")
       \/ MayFail /\ UNCHANGED mounts
    /\ UNCHANGED <<given, root, HOSTDEV, fstype, refused, asked, node, block>>

HostThere == Visible(mounts, "host") = "host"

\* The overlay of upperdir= needs both directories on the host; the one of
\* squashfs= mounts the file first, and is made of empty directories when that
\* fails.
MountOverlay ==
    /\ Goto("overlay", "bind")
    /\ mounts' =
         IF Here = "upper"
         THEN IF HostThere /\ cmd.work THEN Mount(mounts, "overlay", "new") ELSE mounts
         ELSE IF HostThere THEN Mount(Mount(mounts, "squash", "lower"), "overlay", "new")
         ELSE Mount(mounts, "empty", "new")
    /\ UNCHANGED <<given, root, HOSTDEV, fstype, refused, asked, node, block>>

-----------------------------------------------------------------------------
(* kloop and vloop.                                                         *)

\* What follows the attachment: kloop= looks at the type of the real root and
\* then waits once more for its node, vloop= waits first.
Order_probe(b) == [attach |-> "probe", probe |-> "wait", wait |-> "real"]
Order(b) ==
    IF b = "kloop" THEN [attach |-> "probe", probe |-> "wait", wait |-> "real"]
    ELSE [attach |-> "wait", wait |-> "probe", probe |-> "real"]

Proceed(from) == Goto(from, Order(Here)[from])

\* kpartx on the file, vgchange for kloop= with klvm=; the first sleep.  A root
\* on the disk itself may lie on a device whose node is there already.
Attach ==
    /\ Proceed("attach")
    /\ \/ asked' = (asked \/ (cmd[Here] = "file" /\ HostThere)
                          \/ (Here = "kloop" /\ cmd.kloop = "disk" /\ cmd.klvm))
       \/ MayFail /\ UNCHANGED asked
    /\ node' \in IF cmd[Here] = "disk" THEN {node, TRUE} ELSE {node}
    /\ UNCHANGED <<given, root, HOSTDEV, fstype, mounts, refused, block>>

NodeAppears ==
    /\ asked /\ ~node
    /\ node' = TRUE
    /\ UNCHANGED <<given, root, HOSTDEV, fstype, mounts, refused, asked, block, pc>>

\* [ -e "$realroot" ] || sleep 3, for the second time.
WaitAgain ==
    /\ asked => node
    /\ Proceed("wait")
    /\ UNCHANGED <<given, root, HOSTDEV, fstype, mounts, refused, asked, node, block>>

\* blkid says nothing of a node that is not there, and the type is then ext4.
Probe ==
    /\ Proceed("probe")
    /\ fstype' = IF fstype # "" THEN fstype ELSE IF node THEN realType ELSE "ext4"
    /\ UNCHANGED <<given, root, HOSTDEV, mounts, refused, asked, node, block>>

MountReal ==
    /\ Goto("real", "bind")
    /\ mounts' = IF node /\ fstype = realType THEN Mount(mounts, "real", "new") ELSE mounts
    /\ UNCHANGED <<given, root, HOSTDEV, fstype, refused, asked, node, block>>

\* /host is shown as the directory host of the new root, whatever that is:
\* mount -R shows what is seen at /host, be it the initramfs itself.
BindHost_early(m) ==
    <<[fs |-> IF Mounted(m, "host") THEN Visible(m, "host") ELSE "initramfs",
       at |-> "new/host"]>> \o m
BindHost(m) ==
    Mount(m, IF Mounted(m, "host") THEN Visible(m, "host") ELSE "initramfs", "new/host")

ShowHost ==
    /\ Goto("bind", "block")
    /\ block' = block + 1
    /\ mounts' = IF cmd.hidden /\ Here # "vloop" THEN mounts ELSE BindHost(mounts)
    /\ UNCHANGED <<given, root, HOSTDEV, fstype, refused, asked, node>>

Finish ==
    /\ block > Len(Script) /\ Goto("block", "done")
    /\ UNCHANGED <<given, root, HOSTDEV, fstype, mounts, refused, asked, node, block>>

Done == pc = "done" /\ UNCHANGED vars

Next ==
    \/ Skip \/ Enter \/ MountHost \/ MountOverlay
    \/ Attach \/ NodeAppears \/ Probe \/ WaitAgain \/ MountReal
    \/ ShowHost \/ Finish \/ Done

Spec == Init /\ [][Next]_vars

-----------------------------------------------------------------------------
(* Properties.                                                              *)

TypeOK ==
    /\ cmd \in CommandLines /\ realType \in RealTypes
    /\ root \in {"host", "real"} /\ HOSTDEV \in {"host", "real"}
    /\ fstype \in RealTypes \cup {"", "ext4"}
    /\ mounts \in Tables /\ refused \in BOOLEAN
    /\ asked \in BOOLEAN /\ node \in BOOLEAN
    /\ block \in 1..(Len(Script) + 1)
    /\ pc \in {"block", "host", "overlay", "attach", "wait", "probe", "real", "bind", "done"}

Methods == {b \in {Script[j] : j \in 1..Len(Script)} : Requested(b)}
OneLoop == ~({"kloop", "vloop"} \subseteq Methods)

\* When a method was asked for, the hook leaves on the new root what was mounted
\* there before it ran only if umount failed to take it away: otherwise the
\* system boots from a root that a method mounted, or from none (and dracut
\* stops), however many umounts of later blocks fail or find the root busy.
NoForeignRoot ==
    (pc = "done" /\ Methods # {} /\ ~refused) => Visible(mounts, "new") # "host"

\* The host partition can be reached at /host of the root that the hook mounted:
\* no later mount of the root covers the bind mount of a block.
HostShown ==
    (/\ pc = "done" /\ Methods # {} /\ OneLoop /\ ~cmd.hidden
     /\ Mounted(mounts, "new") /\ Mounted(mounts, "host"))
    => Visible(mounts, "new/host") = "host"

RootFound(b) ==
    (pc = "done" /\ Methods = {b} /\ (asked \/ node)) => Visible(mounts, "new") = "real"

\* "mount the realroot / in vhd-file on $NEWROOT": with vloop= alone, an image
\* whose node appears while the block waits is mounted, whatever its type, and so
\* is a root whose node was there before.
VloopRootFound == RootFound("vloop")
=============================================================================
