----------------------------- MODULE MountTable -----------------------------
(***************************************************************************)
(* The kernel's mount table as the boot scripts use it: a sequence of      *)
(* mounts, each a file system at a mount point, in the order they were     *)
(* made.  A later mount at a mount point covers an earlier one, and what   *)
(* was mounted below the mount point before.                               *)
(***************************************************************************)
EXTENDS Naturals, Sequences

\* The mount points the scripts use: /host, the new root, its directory host,
\* and the lower directory of an overlay.
MountPoints == {"host", "new", "new/host", "lower"}

\* What the scripts mount: the host partition, the root in the image, overlays
\* and their parts; "initramfs" is what a bind of an unused /host shows.
FileSystems == {"host", "real", "overlay", "squash", "empty", "initramfs"}

Entries == [fs : FileSystems, at : MountPoints]
Tables == Seq(Entries)

\* The mounts at p, as positions in m; those below the new root count only when
\* no later mount covers them.
At(m, p) ==
    {j \in 1..Len(m) :
        /\ m[j].at = p
        /\ p = "new/host" => \A k \in (j + 1)..Len(m) : m[k].at # "new"}

\* The file system that is seen at p.
Visible(m, p) ==
    IF At(m, p) = {} THEN "none"
    ELSE m[CHOOSE j \in At(m, p) : \A k \in At(m, p) : k <= j].fs

Mounted(m, p) == At(m, p) # {}

Mount(m, fs, p) == Append(m, [fs |-> fs, at |-> p])

Without(m, j) == [k \in 1..(Len(m) - 1) |-> IF k < j THEN m[k] ELSE m[k + 1]]

Top(m, p) == CHOOSE j \in At(m, p) : \A k \in At(m, p) : k <= j

\* umount(8): the mount seen at p goes, unless something is mounted below it.
Busy(m, p) == p = "new" /\ Mounted(m, "new/host")
Umount(m, p) ==
    IF Mounted(m, p) /\ ~Busy(m, p) THEN Without(m, Top(m, p)) ELSE m

\* mount --move: the mount seen at p is now at q; nothing happens when p is no
\* mount point.
Move(m, p, q) ==
    IF Mounted(m, p)
    THEN Append(Without(m, Top(m, p)), [fs |-> Visible(m, p), at |-> q])
    ELSE m
=============================================================================
