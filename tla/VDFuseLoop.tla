----------------------------- MODULE VDFuseLoop -----------------------------
(***************************************************************************)
(* The dracut module 90vdfuseloop: the boot and the shutdown around a root *)
(* file system that lives in a virtual disk.  ntfs-3g serves the host      *)
(* partition, vdfuse serves the virtual disk in a file of it, a loop       *)
(* device serves the root from a file of vdfuse.                           *)
(*                                                                         *)
(* dracut's initqueue, udev, systemd's killing of processes and the        *)
(* kernel's refusal to unmount what is in use are external.                *)
(***************************************************************************)
EXTENDS Naturals, FiniteSets

CONSTANTS
    MaxEvents,      \* how many uevents the rule sees
    Faults          \* what may be broken: ntfs-3g, vdfuse, losetup -f, losetup

ASSUME LoopAssumption ==
    /\ MaxEvents \in Nat \ {0}
    /\ Faults \subseteq {"ntfs", "vdfuse", "losetup", "bind"}

\* The device that rd.hostdev= means, and every other device.
Devices == {"host", "alien"}

VARIABLES
    opts,        \* the rd. options: "ok", "missing" or "illegal"
    present,     \* whether the host's device is there
    elsewhere,   \* whether it was mounted before the job, on another directory
    broken,      \* the members of Faults that are
    rule, waits, \* what the udev rule matches; whether the initqueue waits
    events, jobs, job,
    host, vd,    \* the daemons: "no", "alive", "closing" (unmounted), "dead";
                 \* host is "alien" when another device is mounted on /dev/host
    spared,      \* the daemons whose name begins with @
    loops,       \* the number of loop devices bound to the file of vdfuse
    link,        \* /dev/rootfsloop: "none", "bound" or "unbound"
    needShutdown,
    sysroot,     \* whether the root file system is mounted
    straggler,   \* whether a process that was not killed uses the root
    phase

world == <<opts, present, elsewhere, broken>>
loopvars == <<world, rule, waits, events, jobs, job, host, vd, spared, loops, link,
              needShutdown, sysroot, straggler, phase>>

LoopInit ==
    /\ opts \in {"ok", "missing", "illegal"}
    /\ present \in BOOLEAN
    /\ elsewhere \in BOOLEAN /\ (elsewhere => present)
    /\ broken \in SUBSET Faults
    /\ rule = "none" /\ waits = FALSE
    /\ events = 0 /\ jobs = [d \in Devices |-> 0] /\ job = "idle"
    /\ host = "no" /\ vd = "no" /\ spared = {}
    /\ loops = 0 /\ link = "none"
    /\ needShutdown = FALSE
    /\ sysroot = FALSE /\ straggler \in BOOLEAN
    /\ phase = "cmdline"

To(from, to) == phase = from /\ phase' = to
Job(from, to) == phase = "initqueue" /\ job = from /\ job' = to /\ UNCHANGED phase

\* parse_vdfuseloop: a missing option ends it before the rule and the wait.  For
\* an illegal device the continue at line 41 stands outside of any loop and does
\* nothing: the rule is written without a match key, and matches every device.
RuleFor == [ok |-> "host", missing |-> "none", illegal |-> "any"]

Parse_nowait ==
    /\ To("cmdline", "initqueue")
    /\ rule' = RuleFor[opts]
    /\ waits' = FALSE
    /\ UNCHANGED <<world, events, jobs, job, host, vd, spared, loops, link,
                   needShutdown, sysroot, straggler>>
Parse ==
    /\ To("cmdline", "initqueue")
    /\ rule' = RuleFor[opts]
    /\ waits' = (opts # "missing")
    /\ UNCHANGED <<world, events, jobs, job, host, vd, spared, loops, link,
                   needShutdown, sysroot, straggler>>

Uevent ==
    /\ phase = "initqueue" /\ events < MaxEvents
    /\ \E d \in Devices :
          /\ IF d = "host" THEN rule # "none" /\ present ELSE rule = "any"
          /\ jobs' = [jobs EXCEPT ![d] = @ + 1]
    /\ events' = events + 1
    /\ UNCHANGED <<world, rule, waits, job, host, vd, spared, loops, link,
                   needShutdown, sysroot, straggler, phase>>

\* A settled, one-time job: mount_vdfuseloop for the device of a uevent.
StartJob ==
    /\ \E d \in Devices :
          /\ jobs[d] > 0 /\ Job("idle", d)
          /\ jobs' = [jobs EXCEPT ![d] = @ - 1]
    /\ UNCHANGED <<world, rule, waits, events, host, vd, spared, loops, link,
                   needShutdown, sysroot, straggler>>

\* exec -a @...: the daemon's name begins with @.
Spare_plain(d) == UNCHANGED spared
Spare(d) == spared' = spared \cup {d}

\* ntfs-3g on /dev/host, unless the device is mounted somewhere; it fails when
\* something is mounted there already, and on a device that is not NTFS.
StartNtfs ==
    /\ \/ /\ Job("host", "vdfuse")
          /\ host' = IF host # "no" \/ elsewhere \/ "ntfs" \in broken THEN host ELSE "alive"
       \/ /\ Job("alien", "vdfuse")
          /\ host' \in IF host # "no" \/ "ntfs" \in broken THEN {host} ELSE {host, "alien"}
    /\ Spare("ntfs-3g")
    /\ UNCHANGED <<world, rule, waits, events, jobs, vd, loops, link,
                   needShutdown, sysroot, straggler>>

\* vdfuse on /dev/vdhost; a second one ends, for the mount point is not empty.
StartVdfuse_foreground ==
    /\ phase = "initqueue" /\ job = "vdfuse"
    /\ IF host = "alive" /\ "vdfuse" \notin broken
       THEN vd' = "alive" /\ UNCHANGED job ELSE job' = "loop" /\ UNCHANGED vd
    /\ UNCHANGED <<world, rule, waits, events, jobs, host, spared, loops, link,
                   needShutdown, sysroot, straggler, phase>>
StartVdfuse ==
    /\ Job("vdfuse", "loop")
    /\ vd' = IF host = "alive" /\ "vdfuse" \notin broken THEN "alive" ELSE vd
    /\ Spare("vdfuse")
    /\ UNCHANGED <<world, rule, waits, events, jobs, host, loops, link,
                   needShutdown, sysroot, straggler>>

\* losetup binds the first unused loop device to the file of vdfuse, if that is
\* there; a link is made to the device in any case.  An existing link stays, but
\* the unused device it leads to may be bound by a later job.  losetup -f finding
\* no device leaves nothing to link to.
Binds == vd = "alive" /\ broken \cap {"losetup", "bind"} = {}
BindLoop ==
    /\ Job("loop", "idle")
    /\ loops' = IF Binds THEN loops + 1 ELSE loops
    /\ link' = IF Binds THEN "bound"
               ELSE IF link = "none" /\ "losetup" \notin broken THEN "unbound" ELSE link
    /\ needShutdown' = TRUE
    /\ UNCHANGED <<world, rule, waits, events, jobs, host, vd, spared, sysroot, straggler>>

\* The initqueue ends, between two jobs, when what it waits for is there.
QueueEnds ==
    /\ job = "idle" /\ (waits => link # "none")
    /\ To("initqueue", "mount")
    /\ UNCHANGED <<world, rule, waits, events, jobs, job, host, vd, spared, loops,
                   link, needShutdown, sysroot, straggler>>

\* The initqueue gives up when no job is left that could make the link.
QueueTimeout ==
    /\ waits /\ link = "none" /\ job = "idle" /\ \A d \in Devices : jobs[d] = 0
    /\ (rule = "host" /\ ~present) \/ events > 0
    /\ To("initqueue", "emergency")
    /\ UNCHANGED <<world, rule, waits, events, jobs, job, host, vd, spared, loops,
                   link, needShutdown, sysroot, straggler>>

\* mount-loop.sh.
MountRoot ==
    /\ sysroot' = (link = "bound")
    /\ To("mount", IF sysroot' THEN "running" ELSE "emergency")
    /\ UNCHANGED <<world, rule, waits, events, jobs, job, host, vd, spared, loops,
                   link, needShutdown, straggler>>

-----------------------------------------------------------------------------
(* Shutdown.                                                                *)

\* systemd kills every process that has no @, and hands over to the initramfs
\* when that was asked for.
KillAll ==
    /\ needShutdown /\ To("running", "oldroot")
    /\ host' = IF "ntfs-3g" \in spared THEN host ELSE "dead"
    /\ vd' = IF "vdfuse" \in spared THEN vd ELSE "dead"
    /\ UNCHANGED <<world, rule, waits, events, jobs, job, spared, loops, link,
                   needShutdown, sysroot, straggler>>

hook == <<world, rule, waits, events, jobs, job, spared, link, needShutdown, straggler>>

\* umount_vdfuseloop: each command is tried, its result only logged.
UmountOldroot ==
    /\ To("oldroot", "losetup")
    /\ sysroot' = (sysroot /\ straggler)
    /\ UNCHANGED <<hook, host, vd, loops>>

DetachLoops ==
    /\ To("losetup", "vdhost")
    /\ loops' = IF sysroot THEN loops ELSE 0
    /\ UNCHANGED <<hook, host, vd, sysroot>>

UmountVdhost_early ==
    /\ To("vdhost", "host")
    /\ UNCHANGED <<hook, host, vd, loops, sysroot>>
UmountVdhost ==
    /\ To("vdhost", "host")
    /\ vd' = IF loops = 0 /\ vd = "alive" THEN "closing" ELSE vd
    /\ UNCHANGED <<hook, host, loops, sysroot>>

ImageOpen == vd \in {"alive", "closing"}

UmountHost ==
    /\ To("host", "off")
    /\ host' = IF ImageOpen THEN host ELSE "dead"
    /\ UNCHANGED <<hook, vd, loops, sysroot>>

\* The unmounted vdfuse closes the image and ends in its own time.
VdfuseEnds ==
    /\ vd = "closing" /\ vd' = "dead"
    /\ UNCHANGED <<hook, host, loops, sysroot, phase>>

Ended == phase \in {"emergency", "off"} /\ UNCHANGED loopvars

Work ==
    \/ Parse \/ StartJob \/ StartNtfs \/ StartVdfuse \/ BindLoop
    \/ MountRoot \/ QueueTimeout \/ QueueEnds
    \/ UmountOldroot \/ DetachLoops \/ UmountVdhost \/ UmountHost

LoopNext == Work \/ Uevent \/ KillAll \/ VdfuseEnds \/ Ended

\* The scripts and dracut's loop go on, a device that is there and matches the
\* rule is reported (there are always other devices than the host's), an unmounted
\* vdfuse ends.  Nobody needs to shut the system down.
Fairness == WF_loopvars(Work) /\ WF_loopvars(Uevent) /\ WF_loopvars(VdfuseEnds)

LoopSpec == LoopInit /\ [][LoopNext]_loopvars /\ Fairness

-----------------------------------------------------------------------------
(* Properties.                                                              *)

LoopTypeOK ==
    /\ opts \in {"ok", "missing", "illegal"}
    /\ rule \in {"none", "host", "any"} /\ waits \in BOOLEAN /\ needShutdown \in BOOLEAN
    /\ events \in 0..MaxEvents /\ jobs \in [Devices -> 0..MaxEvents]
    /\ job \in {"idle", "host", "alien", "vdfuse", "loop"}
    /\ host \in {"no", "alive", "alien", "dead"} /\ vd \in {"no", "alive", "closing", "dead"}
    /\ spared \subseteq {"ntfs-3g", "vdfuse"}
    /\ loops \in 0..MaxEvents /\ link \in {"none", "bound", "unbound"}
    /\ sysroot \in BOOLEAN /\ straggler \in BOOLEAN
    /\ phase \in {"cmdline", "initqueue", "mount", "emergency", "running", "oldroot",
                  "losetup", "vdhost", "host", "off"}

\* While the root is mounted everything below it is alive: a loop device bound to
\* the file of vdfuse, vdfuse, and ntfs-3g under it.  Neither a job that runs
\* twice, nor the killing of all processes, nor a failed command of the shutdown
\* hook takes a lower layer away first.
RootServed == sysroot => (loops > 0 /\ vd = "alive" /\ host = "alive")

\* With good options, a host device that is there and not in use, and nothing
\* broken, the system boots, however often the device is reported.
GoodBoots ==
    (phase = "cmdline" /\ opts = "ok" /\ present /\ ~elsewhere /\ broken = {})
        ~> (phase = "running")

\* Whatever is wrong, a missing or illegal option, a device or daemon that is not
\* there, jobs of other devices, the boot comes to an end: the root is mounted or
\* dracut goes to its emergency shell.
BootDecided == <>(phase \in {"running", "emergency"})

\* A shutdown of an unused root leaves no image open for ever.
ImageReleased == (phase = "oldroot" /\ ~straggler) ~> ~ImageOpen
=============================================================================
