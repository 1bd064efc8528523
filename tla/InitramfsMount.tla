--------------------------- MODULE InitramfsMount ---------------------------
(***************************************************************************)
(* The Arch and the Debian initramfs scripts: mkinitcpio's init and        *)
(* initramfs-tools' local with blocks added for kloop and vloop.  Other    *)
(* than the dracut hook they move mounts instead of binding them, mount    *)
(* root= before the block (except Arch for kloop= and squashfs=, and for   *)
(* vloop=), and look for an init before they leave the initramfs.          *)
(*                                                                         *)
(* The blocks of a script are tests of their own, so that a command line   *)
(* with several options would run several of them; one method per boot is  *)
(* modelled, the others' options are not given.                            *)
(*                                                                         *)
(* A panic or an emergency shell ends the model.  Nodes appear as in       *)
(* VhdMount.  The kernel refuses to mount a file system where it is        *)
(* mounted already, and ntfs-3g to open a partition twice.                 *)
(***************************************************************************)
EXTENDS MountTable

CONSTANTS
    Flavors,      \* the scripts
    RealTypes     \* the type of the file system in the image

Methods(f) ==
    CASE f = "arch-kloop" -> {"none", "kloop", "squash", "upper"}
      [] f = "arch-vloop" -> {"none", "vloop"}
      [] f = "debian-kloop" -> {"none", "kloop", "squash", "upper", "nbd"}
      [] f = "debian-vloop" -> {"none", "vloop", "loop"}

ASSUME FlavorAssumption ==
    Flavors \subseteq {"arch-kloop", "arch-vloop", "debian-kloop", "debian-vloop"}

VARIABLES
    flavor, method,
    hostType,     \* "ext4" or "ntfs"
    hostInit,     \* whether the host partition has an init of its own
    has,          \* whether the image or directory is on the host partition
    hostDir,      \* whether the root in the image has a directory host
    hidden, kroot, realType,
    mounts,
    status,       \* mountroot_status, "" when it was not assigned
    fstype, asked, node,
    pc

given == <<flavor, method, hostType, hostInit, has, hostDir, hidden, kroot, realType>>
vars == <<given, mounts, status, fstype, asked, node, pc>>

Arch == flavor \in {"arch-kloop", "arch-vloop"}

\* root= is not mounted first: Arch's tests of kloop= and squashfs=, and vloop=.
Bare == Arch /\ method \in {"kloop", "squash", "vloop"}

Init ==
    /\ flavor \in Flavors /\ method \in Methods(flavor)
    /\ hostType \in {"ext4", "ntfs"} /\ hostInit \in BOOLEAN
    /\ has \in BOOLEAN /\ hostDir \in BOOLEAN
    /\ hidden \in BOOLEAN /\ kroot \in BOOLEAN
    /\ realType \in RealTypes
    /\ mounts = <<>> /\ status = "" /\ fstype = ""
    /\ asked = FALSE /\ node = FALSE
    /\ pc = IF Bare THEN "host" ELSE "root"

Goto(from, to) == pc = from /\ pc' = to

\* The distribution's mount of root=; a failure is a panic.
MountRoot ==
    /\ \/ /\ Goto("root", CASE ~Arch /\ method \in {"none", "loop"} -> "again"
                            [] ~Arch /\ method = "vloop" -> "check"
                            [] method = "none" -> "init"
                            [] OTHER -> "host")
          /\ mounts' = Mount(mounts, "host", "new")
       \/ Goto("root", "panic") /\ UNCHANGED mounts
    /\ UNCHANGED <<given, status, fstype, asked, node>>

\* Debian: the added lines mount root= once more.
MountAgain ==
    /\ Goto("again", IF method = "none" THEN "init" ELSE "check")
    /\ status' = IF Visible(mounts, "new") = "host" THEN "busy" ELSE "0"
    /\ UNCHANGED <<given, mounts, fstype, asked, node>>

\* Debian, vloop= and loop=: "Could not mount the partition".
CheckStatus ==
    /\ Goto("check", IF status # "0" /\ hostType = "ntfs" THEN "refused" ELSE "host")
    /\ UNCHANGED <<given, mounts, status, fstype, asked, node>>

\* The host partition is moved away from the place of the new root: always for
\* vloop= and loop=, else when the file or directory is found on it.
MovesHost_vloop == method \in {"vloop", "loop"}
MovesHost ==
    method \in {"vloop", "loop"} \/ (Visible(mounts, "new") = "host" /\ has)

\* The type of the host is tested right everywhere but in Arch's vloop, where it
\* is ntfs-3g for every partition.
HostMountable ==
    /\ ~(hostType = "ntfs" /\ Visible(mounts, "new") = "host")
    /\ flavor = "arch-vloop" => hostType = "ntfs"

HostAt ==
    /\ pc = "host"
    /\ mounts' = IF MovesHost /\ ~Bare THEN Move(mounts, "new", "host")
                 ELSE IF HostMountable THEN Mount(mounts, "host", "host")
                 ELSE mounts
    /\ pc' = CASE method = "loop" -> IF has THEN "real" ELSE "panic"
               [] method \in {"squash", "upper"} -> "overlay"
               [] OTHER -> "attach"
    /\ UNCHANGED <<given, status, fstype, asked, node>>

HostThere == Visible(mounts, "host") = "host" /\ has

MountOverlay ==
    /\ Goto("overlay", "bind")
    /\ mounts' = IF HostThere THEN Mount(mounts, "overlay", "new")
                 ELSE IF method = "squash" THEN Mount(mounts, "empty", "new")
                 ELSE mounts
    /\ UNCHANGED <<given, status, fstype, asked, node>>

\* kpartx or partx; qemu-nbd= has no node for the root unless kroot= names it.
Attach ==
    /\ Goto("attach", IF method = "vloop" THEN "wait" ELSE "probe")
    /\ asked' = (HostThere /\ (method = "nbd" => kroot))
    /\ UNCHANGED <<given, mounts, status, fstype, node>>

NodeAppears ==
    /\ asked /\ ~node /\ node' = TRUE
    /\ UNCHANGED <<given, mounts, status, fstype, asked, pc>>

Wait ==
    /\ asked => node
    /\ Goto("wait", IF method = "vloop" THEN "probe" ELSE "real")
    /\ UNCHANGED <<given, mounts, status, fstype, asked, node>>

Fallback == "ext4"

Probe ==
    /\ Goto("probe", IF method = "vloop" THEN "real" ELSE "wait")
    /\ fstype' = IF node THEN realType ELSE Fallback
    /\ UNCHANGED <<given, mounts, status, asked, node>>

\* The root in the image is mounted: by the block, by mount -o loop, or (Arch,
\* vloop=) as root= by the distribution, which looks at the result.
MountReal ==
    LET done == IF method = "loop" THEN HostThere ELSE node /\ fstype = realType
    IN  /\ Goto("real", IF ~done /\ flavor = "arch-vloop" THEN "panic" ELSE "bind")
        /\ mounts' = IF done THEN Mount(mounts, "real", "new") ELSE mounts
        /\ UNCHANGED <<given, status, fstype, asked, node>>

\* /host is moved to the directory host of the new root.  The blocks of kloop
\* make the directory, the others want it to be there.
Moved_before(m) == <<[fs |-> Visible(m, "host"), at |-> "new/host"]>> \o m
Moved(m) == Move(m, "host", "new/host")

Shows ==
    /\ Mounted(mounts, "host")
    /\ IF method \in {"vloop", "loop"} THEN Visible(mounts, "new") = "real" /\ hostDir
       ELSE ~(Arch /\ hidden)

ShowHost ==
    /\ Goto("bind", "init")
    /\ mounts' = IF Shows THEN Moved(mounts) ELSE mounts
    /\ UNCHANGED <<given, status, fstype, asked, node>>

\* The last test before the switch to the new root: something is mounted there
\* and it has an init.
Bootable ==
    Visible(mounts, "new") \in {"real", "overlay"} \cup (IF hostInit THEN {"host"} ELSE {})

CheckInit ==
    /\ Goto("init", IF Bootable THEN "switched" ELSE "shell")
    /\ UNCHANGED <<given, mounts, status, fstype, asked, node>>

Ended == pc \in {"switched", "shell", "panic", "refused"} /\ UNCHANGED vars

Next ==
    \/ MountRoot \/ MountAgain \/ CheckStatus \/ HostAt \/ MountOverlay
    \/ Attach \/ NodeAppears \/ Wait \/ Probe \/ MountReal \/ ShowHost
    \/ CheckInit \/ Ended

Spec == Init /\ [][Next]_vars

-----------------------------------------------------------------------------
(* Properties.                                                              *)

TypeOK ==
    /\ flavor \in Flavors /\ method \in Methods(flavor)
    /\ realType \in RealTypes
    /\ mounts \in Tables
    /\ status \in {"", "0", "busy"}
    /\ fstype \in RealTypes \cup {"", "ext4"}
    /\ asked \in BOOLEAN /\ node \in BOOLEAN
    /\ pc \in {"root", "again", "check", "host", "overlay", "attach", "wait", "probe",
               "real", "bind", "init", "switched", "shell", "panic", "refused"}

Wanted ==
    CASE method = "none" -> "host"
      [] method \in {"squash", "upper"} -> "overlay"
      [] OTHER -> "real"

\* When the image or directory that a method names is on the host partition, the
\* system leaves the initramfs for the root in it and for no other, also when the
\* host partition holds a system of its own: root= was mounted as the new root by
\* the distribution, and must be gone from there when the mount of the root in
\* the image fails.
ImageNotHost ==
    (pc = "switched" /\ method # "none" /\ has) => Visible(mounts, "new") = Wanted

\* A root from an image shows the host partition in its directory host, in
\* spite of the root that is mounted over the place in between; and the host
\* partition is not left on the place of the new root as well: it was moved.
HostMoved ==
    /\ (/\ pc = "switched" /\ Visible(mounts, "new") \in {"real", "overlay"}
        /\ hostDir /\ ~hidden)
       => Visible(mounts, "new/host") = "host"
    /\ (Visible(mounts, "new") = "real" /\ has)
       => \A j \in 1..Len(mounts) : mounts[j].fs = "host" => mounts[j].at # "new"
=============================================================================
