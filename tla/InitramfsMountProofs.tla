------------------------ MODULE InitramfsMountProofs ------------------------
(***************************************************************************)
(* Proofs about InitramfsMount, for any of the four scripts and any types  *)
(* of root file system: the system leaves the initramfs for the root in    *)
(* the image that is there, and the host partition is moved below it.      *)
(***************************************************************************)
EXTENDS InitramfsMount, MountTableProofs

RealMethods == {"kloop", "vloop", "nbd", "loop"}
OverlayMethods == {"squash", "upper"}

\* What may have been mounted as the new root.
Allowed ==
    {f \in FileSystems : /\ f = "real" => method \in RealMethods
                         /\ f = "overlay" => method \in OverlayMethods}

HostOnNew == Mount(<<>>, "host", "new")

\* Which methods get to which step.
MethodInv ==
    /\ method \in {"none"} \cup RealMethods \cup OverlayMethods
    /\ pc = "again" => method \in {"none", "loop"}
    /\ pc = "check" => method \in {"vloop", "loop"}
    /\ pc = "host" => method # "none"
    /\ pc \in {"attach", "wait", "probe"} => method \in RealMethods \ {"loop"}
    /\ pc = "real" => method \in RealMethods
    /\ pc = "overlay" => method \in OverlayMethods

\* The mounts until /host is used: none, or root= as the new root.
StartInv ==
    /\ pc = "root" => mounts = <<>>
    /\ pc \in {"again", "check"} => mounts = HostOnNew
    /\ pc \in {"root", "again", "check"} => ~Bare
    /\ pc = "host" => mounts = IF Bare THEN <<>> ELSE HostOnNew

\* What was mounted at /host and as the new root.  When the partition has the
\* image it is not on the new root any more once the image is attached.
PlacesInv ==
    /\ OnlyAt(mounts, "host", {"host"})
    /\ OnlyAt(mounts, "new", Allowed)
    /\ pc \in {"overlay", "attach", "wait", "probe", "real"} => OnlyAt(mounts, "new", {"host"})
    /\ (pc \in {"overlay", "attach", "wait", "probe", "real"} /\ has) => OnlyAt(mounts, "new", {})
    /\ (pc \in {"bind", "init", "switched"} /\ has /\ method # "none")
          => OnlyAt(mounts, "new", FileSystems \ {"host"})
    /\ (Visible(mounts, "new") = "real" /\ has) => OnlyAt(mounts, "new", FileSystems \ {"host"})

\* A node is there only for an image on a host partition that is at /host.
NodeInv ==
    /\ node => asked
    /\ pc \in {"root", "again", "check", "host", "overlay", "attach"} => ~asked
    /\ (asked /\ pc \in {"wait", "probe", "real"}) => Visible(mounts, "host") = "host"

\* A root from an image is mounted while the host partition is at /host.
ShownInv ==
    Visible(mounts, "new") \in {"real", "overlay"} =>
       /\ pc = "bind" => Visible(mounts, "host") = "host"
       /\ (pc \in {"init", "switched"} /\ hostDir /\ ~hidden) => Visible(mounts, "new/host") = "host"

BootInv == pc = "switched" => Bootable

IInv ==
    /\ TypeOK /\ MethodInv /\ StartInv /\ PlacesInv /\ NodeInv /\ ShownInv /\ BootInv

-----------------------------------------------------------------------------
LEMMA MethodNames ==
    \A f \in Flavors : Methods(f) \subseteq {"none"} \cup RealMethods \cup OverlayMethods
<1> SUFFICES ASSUME NEW f \in Flavors, NEW x \in Methods(f)
             PROVE  x \in {"none"} \cup RealMethods \cup OverlayMethods
  OBVIOUS
<1> QED
  BY FlavorAssumption DEF Methods, RealMethods, OverlayMethods

\* The scripts do not change what they are given.
LEMMA GivenSame == [Next]_vars => UNCHANGED given
BY DEF Next, MountRoot, MountAgain, CheckStatus, HostAt, MountOverlay, Attach, NodeAppears, Wait,
       Probe, MountReal, ShowHost, CheckInit, Ended, vars

\* The table with root= as the new root.
LEMMA Start ==
    /\ <<>> \in Tables /\ \A p, S : OnlyAt(<<>>, p, S)
    /\ HostOnNew \in Tables /\ Visible(HostOnNew, "new") = "host" /\ Mounted(HostOnNew, "new")
    /\ OnlyAt(HostOnNew, "new", {"host"}) /\ OnlyAt(HostOnNew, "host", {})
    /\ Move(HostOnNew, "new", "host") = Mount(<<>>, "host", "host")
<1>1. <<>> \in Tables
  BY DEF Tables
<1>2. \A p, S : OnlyAt(<<>>, p, S)
  BY DEF OnlyAt
<1>3. "host" \in FileSystems /\ "new" \in MountPoints
  BY DEF FileSystems, MountPoints
<1>4. /\ HostOnNew \in Tables /\ Visible(HostOnNew, "new") = "host"
      /\ Mounted(HostOnNew, "new")
  BY <1>1, <1>3, MountAppends, MountSeen DEF HostOnNew
<1>5. OnlyAt(HostOnNew, "new", {"host"}) /\ OnlyAt(HostOnNew, "host", {})
  BY <1>1, <1>2, <1>3, OnlyMount DEF HostOnNew
<1>6. Move(HostOnNew, "new", "host") = Mount(<<>>, "host", "host")
  <2>1. HostOnNew = <<[fs |-> "host", at |-> "new"]>>
    BY DEF HostOnNew, Mount
  <2>2. Len(HostOnNew) = 1 /\ HostOnNew[1].at = "new"
    BY <2>1
  <2>3. At(HostOnNew, "new") = {1}
    BY <2>2 DEF At
  <2>4. Top(HostOnNew, "new") = 1
    BY <2>3 DEF Top
  <2>5. Without(HostOnNew, 1) = <<>>
    BY <2>2 DEF Without
  <2> QED
    BY <1>4, <2>4, <2>5 DEF Move, Mount
<1> QED
  BY <1>1, <1>2, <1>4, <1>5, <1>6

-----------------------------------------------------------------------------
(* Types and steps.                                                         *)

LEMMA MethodStep == TypeOK /\ MethodInv /\ [Next]_vars => MethodInv'
<1> SUFFICES ASSUME TypeOK, MethodInv, [Next]_vars PROVE MethodInv'
  OBVIOUS
<1>1. method' = method /\ flavor' = flavor
  BY GivenSame DEF given
<1>2. CASE MountRoot
  BY <1>1, <1>2 DEF MountRoot, Goto, MethodInv, RealMethods, OverlayMethods
<1>3. CASE MountAgain \/ CheckStatus
  BY <1>1, <1>3 DEF MountAgain, CheckStatus, Goto, MethodInv
<1>4. CASE HostAt
  BY <1>1, <1>4 DEF HostAt, MethodInv, RealMethods, OverlayMethods
<1>5. CASE MountOverlay \/ Attach \/ NodeAppears \/ Wait \/ Probe \/ MountReal
  BY <1>1, <1>5 DEF MountOverlay, Attach, NodeAppears, Wait, Probe, MountReal, Goto, MethodInv
<1>6. CASE ShowHost \/ CheckInit \/ UNCHANGED vars
  BY <1>1, <1>6 DEF ShowHost, CheckInit, vars, Goto, MethodInv
<1> QED
  BY <1>2, <1>3, <1>4, <1>5, <1>6 DEF Next, Ended

\* What a step makes of the mount table.
LEMMA MountsStep ==
    ASSUME TypeOK, [Next]_vars
    PROVE  /\ mounts' \in Tables
           /\ \/ mounts' = mounts
              \/ MountRoot /\ mounts' = Mount(mounts, "host", "new")
              \/ HostAt /\ Mounted(mounts, "new") /\ mounts' = Move(mounts, "new", "host")
              \/ HostAt /\ mounts' = Mount(mounts, "host", "host")
              \/ MountOverlay /\ HostThere /\ mounts' = Mount(mounts, "overlay", "new")
              \/ MountOverlay /\ mounts' = Mount(mounts, "empty", "new")
              \/ MountReal /\ mounts' = Mount(mounts, "real", "new")
              \/ ShowHost /\ Mounted(mounts, "host") /\ mounts' = Move(mounts, "host", "new/host")
<1>1. mounts \in Tables
  BY DEF TypeOK
<1>2. \A f \in FileSystems, p \in MountPoints : Mount(mounts, f, p) \in Tables
  BY <1>1, MountAppends
<1>3. Mounted(mounts, "new") => Move(mounts, "new", "host") \in Tables
  BY <1>1, MoveTable DEF MountPoints
<1>4. Mounted(mounts, "host") => Move(mounts, "host", "new/host") \in Tables
  BY <1>1, MoveTable DEF MountPoints
<1>5. CASE MountRoot
  BY <1>1, <1>2, <1>5 DEF MountRoot, FileSystems, MountPoints
<1>6. CASE HostAt
  <2>1. ~Mounted(mounts, "new") => Move(mounts, "new", "host") = mounts
    BY DEF Move
  <2>2. Mount(mounts, "host", "host") \in Tables
    BY <1>2 DEF FileSystems, MountPoints
  <2>3. \/ mounts' = Move(mounts, "new", "host")
        \/ mounts' = Mount(mounts, "host", "host") \/ mounts' = mounts
    BY <1>6 DEF HostAt
  <2> QED
    BY <1>1, <1>3, <1>6, <2>1, <2>2, <2>3
<1>7. CASE MountOverlay
  BY <1>1, <1>2, <1>7 DEF MountOverlay, FileSystems, MountPoints
<1>8. CASE MountReal
  BY <1>1, <1>2, <1>8 DEF MountReal, FileSystems, MountPoints
<1>9. CASE ShowHost
  BY <1>1, <1>4, <1>9 DEF ShowHost, Shows, Moved
<1>10. CASE MountAgain \/ CheckStatus \/ Attach \/ NodeAppears \/ Wait \/ Probe \/ CheckInit
              \/ UNCHANGED vars
  BY <1>1, <1>10 DEF MountAgain, CheckStatus, Attach, NodeAppears, Wait, Probe, CheckInit, vars
<1> QED
  BY <1>5, <1>6, <1>7, <1>8, <1>9, <1>10 DEF Next, Ended

LEMMA TypeStep == TypeOK /\ [Next]_vars => TypeOK'
<1> SUFFICES ASSUME TypeOK, [Next]_vars PROVE TypeOK'
  OBVIOUS
<1>1. flavor' = flavor /\ method' = method /\ realType' = realType
  BY GivenSame DEF given
<1>2. mounts' \in Tables
  BY MountsStep
<1>3. status' \in {"", "0", "busy"} /\ fstype' \in RealTypes \cup {"", "ext4"}
  BY DEF TypeOK, Next, MountRoot, MountAgain, CheckStatus, HostAt, MountOverlay, Attach,
         NodeAppears, Wait, Probe, Fallback, MountReal, ShowHost, CheckInit, Ended, vars
<1>4. asked' \in BOOLEAN
  <2>1. CASE Attach
    BY Zenon, <2>1 DEF Attach
  <2>2. CASE ~Attach
    BY <2>2 DEF TypeOK, Next, MountRoot, MountAgain, CheckStatus, HostAt, MountOverlay,
         NodeAppears, Wait, Probe, MountReal, ShowHost, CheckInit, Ended, vars
  <2> QED
    BY <2>1, <2>2
<1>5. node' \in BOOLEAN
  BY DEF TypeOK, Next, MountRoot, MountAgain, CheckStatus, HostAt, MountOverlay, Attach,
         NodeAppears, Wait, Probe, MountReal, ShowHost, CheckInit, Ended, vars
<1>6. pc' \in {"root", "again", "check", "host", "overlay", "attach", "wait", "probe",
               "real", "bind", "init", "switched", "shell", "panic", "refused"}
  <2>1. CASE MountRoot
    BY <2>1 DEF MountRoot, Goto
  <2>2. CASE HostAt
    BY <2>2 DEF HostAt
  <2>3. CASE ~MountRoot /\ ~HostAt
    BY <2>3 DEF TypeOK, Next, MountAgain, CheckStatus, MountOverlay, Attach, Goto,
         NodeAppears, Wait, Probe, MountReal, ShowHost, CheckInit, Ended, vars
  <2> QED
    BY <2>1, <2>2, <2>3
<1> QED
  BY <1>1, <1>2, <1>3, <1>4, <1>5, <1>6 DEF TypeOK

-----------------------------------------------------------------------------
(* The parts of the invariant.                                              *)

LEMMA StartStep == StartInv /\ [Next]_vars => StartInv'
<1> SUFFICES ASSUME StartInv, [Next]_vars PROVE StartInv'
  OBVIOUS
<1>1. Bare' = Bare
  BY GivenSame DEF Bare, Arch, given
<1>2. CASE MountRoot
  BY <1>1, <1>2 DEF MountRoot, Goto, StartInv, HostOnNew
<1>3. CASE MountAgain \/ CheckStatus
  BY <1>1, <1>3 DEF MountAgain, CheckStatus, Goto, StartInv
<1>4. CASE HostAt
  BY <1>4 DEF HostAt, StartInv
<1>5. CASE MountOverlay \/ Attach \/ Wait \/ Probe \/ MountReal \/ ShowHost \/ CheckInit
  BY <1>5 DEF MountOverlay, Attach, Wait, Probe, MountReal, ShowHost, CheckInit, Goto, StartInv
<1>6. CASE NodeAppears \/ UNCHANGED vars
  BY <1>1, <1>6 DEF NodeAppears, vars, StartInv
<1> QED
  BY <1>2, <1>3, <1>4, <1>5, <1>6 DEF Next, Ended

\* What /host and the new root are after HostAt.
LEMMA HostAtPlaces ==
    ASSUME TypeOK, StartInv, HostAt
    PROVE  /\ OnlyAt(mounts', "host", {"host"}) /\ OnlyAt(mounts', "new", {"host"})
           /\ has => OnlyAt(mounts', "new", {})
<1>1. "host" \in FileSystems /\ "host" \in MountPoints
  BY DEF FileSystems, MountPoints
<1> DEFINE h == Mount(<<>>, "host", "host")
<1>2. OnlyAt(h, "host", {"host"}) /\ OnlyAt(h, "new", {}) /\ OnlyAt(h, "new", {"host"})
  BY <1>1, Start, OnlyMount
<1>3. OnlyAt(HostOnNew, "host", {"host"})
  BY Start, OnlyWider
<1> DEFINE b == Mount(HostOnNew, "host", "host")
<1>4. OnlyAt(b, "host", {"host"}) /\ OnlyAt(b, "new", {"host"})
  BY <1>1, <1>3, Start, OnlyMount
<1> HIDE DEF h, b
<1>5. CASE Bare
  <2>1. mounts = <<>>
    BY <1>5 DEF HostAt, StartInv
  <2>2. mounts' = h \/ mounts' = <<>>
    BY <1>5, <2>1 DEF HostAt, h
  <2> QED
    BY <1>2, <2>2, Start
<1>6. CASE ~Bare
  <2>1. mounts = HostOnNew
    BY <1>6 DEF HostAt, StartInv
  <2>2. CASE MovesHost
    <3>1. mounts' = h
      BY <1>6, <2>1, <2>2, Start DEF HostAt, h
    <3> QED
      BY <1>2, <3>1
  <2>3. CASE ~MovesHost
    <3>1. ~has
      BY <2>1, <2>3, Start DEF MovesHost
    <3>2. mounts' = b \/ mounts' = HostOnNew
      BY <2>1, <2>3 DEF HostAt, b
    <3> QED
      BY <1>3, <1>4, <3>1, <3>2, Start
  <2> QED
    BY <2>2, <2>3
<1> QED
  BY <1>5, <1>6

LEMMA PlacesStep ==
    TypeOK /\ MethodInv /\ StartInv /\ PlacesInv /\ [Next]_vars => PlacesInv'
<1> SUFFICES ASSUME TypeOK, MethodInv, StartInv, PlacesInv, [Next]_vars PROVE PlacesInv'
  OBVIOUS
<1>1. /\ mounts \in Tables /\ mounts' \in Tables /\ has' = has /\ method' = method
      /\ Allowed' = Allowed /\ "host" \in Allowed /\ "empty" \in Allowed
  BY GivenSame, MountsStep DEF TypeOK, given, Allowed, FileSystems
<1>2. /\ "host" \in FileSystems /\ "real" \in FileSystems /\ "overlay" \in FileSystems
      /\ "empty" \in FileSystems
      /\ "new" \in MountPoints /\ "host" \in MountPoints /\ "new/host" \in MountPoints
  BY DEF FileSystems, MountPoints
<1>3. CASE MountRoot
  <2>1. mounts' = HostOnNew \/ mounts' = <<>>
    BY <1>3 DEF MountRoot, Goto, StartInv, HostOnNew
  <2>2. OnlyAt(mounts', "new", {"host"}) /\ OnlyAt(mounts', "host", {})
    BY <2>1, Start
  <2>3. OnlyAt(mounts', "new", Allowed) /\ OnlyAt(mounts', "host", {"host"})
    BY <1>1, <2>2, OnlyWider
  <2>4. Visible(mounts', "new") \in {"host"} \cup {"none"}
    BY <1>1, <2>2, OnlySeen
  <2>5. /\ pc' \notin {"overlay", "attach", "wait", "probe", "real", "bind", "switched"}
        /\ pc' = "init" => method = "none"
    BY <1>3 DEF MountRoot, Goto
  <2> QED
    BY <1>1, <2>3, <2>4, <2>5 DEF PlacesInv
<1>4. CASE HostAt
  <2>1. /\ OnlyAt(mounts', "host", {"host"}) /\ OnlyAt(mounts', "new", {"host"})
        /\ has => OnlyAt(mounts', "new", {})
    BY <1>4, HostAtPlaces
  <2>2. OnlyAt(mounts', "new", Allowed)
    BY <1>1, <2>1, OnlyWider
  <2>3. Visible(mounts', "new") \in {"host"} \cup {"none"}
    BY <1>1, <2>1, OnlySeen
  <2>4. pc' \notin {"bind", "init", "switched"}
    BY <1>4 DEF HostAt
  <2> QED
    BY <1>1, <2>1, <2>2, <2>3, <2>4 DEF PlacesInv
<1>5. CASE MountOverlay
  <2>1. /\ pc = "overlay" /\ pc' = "bind" /\ "overlay" \in Allowed
        /\ OnlyAt(mounts, "new", {"host"}) /\ (has => OnlyAt(mounts, "new", {}))
    BY <1>5 DEF MountOverlay, Goto, MethodInv, PlacesInv, Allowed, OverlayMethods, FileSystems
  <2>4. has => OnlyAt(mounts, "new", FileSystems \ {"host"})
    BY <2>1, OnlyWider
  <2>2. CASE mounts' = mounts
    <3>1. Visible(mounts', "new") \in {"host"} \cup {"none"}
      BY <1>1, <2>1, <2>2, OnlySeen
    <3> QED
      BY <1>1, <2>1, <2>2, <2>4, <3>1 DEF PlacesInv
  <2>3. ASSUME NEW f \in {"overlay", "empty"}, mounts' = Mount(mounts, f, "new") PROVE PlacesInv'
    <3>1. OnlyAt(mounts', "new", Allowed) /\ OnlyAt(mounts', "host", {"host"})
      BY <1>1, <1>2, <2>1, <2>3, OnlyMount DEF PlacesInv
    <3>2. Visible(mounts', "new") = f
      BY <1>1, <1>2, <2>3, MountSeen
    <3>3. has => OnlyAt(mounts', "new", FileSystems \ {"host"})
      BY <1>1, <1>2, <2>3, <2>4, OnlyMount
    <3> QED
      BY <1>1, <2>1, <3>1, <3>2, <3>3 DEF PlacesInv
  <2> QED
    BY <1>5, <2>2, <2>3 DEF MountOverlay
<1>6. CASE MountReal
  <2>1. /\ pc = "real" /\ pc' \in {"bind", "panic"} /\ "real" \in Allowed
        /\ OnlyAt(mounts, "new", {"host"}) /\ (has => OnlyAt(mounts, "new", {}))
    BY <1>6 DEF MountReal, Goto, MethodInv, PlacesInv, Allowed, RealMethods, FileSystems
  <2>4. has => OnlyAt(mounts, "new", FileSystems \ {"host"})
    BY <2>1, OnlyWider
  <2>2. CASE mounts' = mounts
    <3>1. Visible(mounts', "new") \in {"host"} \cup {"none"}
      BY <1>1, <2>1, <2>2, OnlySeen
    <3> QED
      BY <1>1, <2>1, <2>2, <2>4, <3>1 DEF PlacesInv
  <2>3. CASE mounts' = Mount(mounts, "real", "new")
    <3>1. OnlyAt(mounts', "new", Allowed) /\ OnlyAt(mounts', "host", {"host"})
      BY <1>1, <1>2, <2>1, <2>3, OnlyMount DEF PlacesInv
    <3>2. ASSUME has PROVE OnlyAt(mounts', "new", FileSystems \ {"host"})
      BY <1>1, <1>2, <2>3, <2>4, <3>2, OnlyMount
    <3> QED
      BY <1>1, <2>1, <3>1, <3>2 DEF PlacesInv
  <2> QED
    BY <1>6, <2>2, <2>3 DEF MountReal
<1>7. CASE ShowHost
  <2>1. pc = "bind" /\ pc' = "init"
    BY <1>7 DEF ShowHost, Goto
  <2>2. CASE mounts' = mounts
    BY <1>1, <2>1, <2>2 DEF PlacesInv
  <2>3. CASE Mounted(mounts, "host") /\ mounts' = Move(mounts, "host", "new/host")
    <3>1. \A S : OnlyAt(mounts, "new", S) => OnlyAt(mounts', "new", S)
      BY <1>1, <1>2, <2>3, MoveTable
    <3>2. OnlyAt(mounts', "host", {"host"})
      BY <1>1, <1>2, <2>3, MoveTable DEF PlacesInv
    <3>3. Visible(mounts', "new") = Visible(mounts, "new")
      BY <1>1, <1>2, <2>3, MoveTable
    <3> QED
      BY <1>1, <2>1, <3>1, <3>2, <3>3 DEF PlacesInv
  <2> QED
    BY <1>7, <2>2, <2>3 DEF ShowHost, Shows, Moved
<1>8. CASE Attach \/ Wait \/ Probe
  BY <1>1, <1>8 DEF Attach, Wait, Probe, Goto, PlacesInv
<1>9. CASE MountAgain \/ CheckStatus \/ CheckInit
  BY <1>1, <1>9 DEF MountAgain, CheckStatus, CheckInit, Goto, PlacesInv
<1>10. CASE NodeAppears \/ UNCHANGED vars
  BY <1>1, <1>10 DEF NodeAppears, vars, PlacesInv
<1> QED
  BY <1>3, <1>4, <1>5, <1>6, <1>7, <1>8, <1>9, <1>10 DEF Next, Ended

LEMMA NodeStep == TypeOK /\ NodeInv /\ [Next]_vars => NodeInv'
<1> SUFFICES ASSUME TypeOK, NodeInv, [Next]_vars PROVE NodeInv'
  OBVIOUS
<1>1. CASE MountRoot \/ HostAt
  <2>1. ~asked /\ ~node /\ asked' = asked /\ node' = node
    BY <1>1 DEF MountRoot, HostAt, Goto, NodeInv, TypeOK
  <2> QED
    BY <2>1 DEF NodeInv
<1>2. CASE Attach
  <2>1. /\ ~node /\ node' = node /\ pc' \in {"wait", "probe"} /\ mounts' = mounts
        /\ asked' => Visible(mounts, "host") = "host"
    BY <1>2 DEF Attach, HostThere, Goto, NodeInv, TypeOK
  <2> QED
    BY <2>1 DEF NodeInv
<1>3. CASE MountAgain \/ CheckStatus \/ Wait \/ Probe \/ NodeAppears
  BY <1>3 DEF MountAgain, CheckStatus, Wait, Probe, NodeAppears, Goto, NodeInv
<1>4. CASE MountOverlay \/ MountReal \/ ShowHost \/ CheckInit
  BY <1>4 DEF MountOverlay, MountReal, ShowHost, CheckInit, Goto, NodeInv
<1>5. CASE UNCHANGED vars
  BY <1>5 DEF vars, NodeInv
<1> QED
  BY <1>1, <1>2, <1>3, <1>4, <1>5 DEF Next, Ended

\* A root from an image is mounted only when the host partition is at /host.
LEMMA RealOnHost ==
    ASSUME NodeInv, MountReal, mounts' # mounts
    PROVE  Visible(mounts, "host") = "host" /\ mounts' = Mount(mounts, "real", "new")
BY DEF MountReal, HostThere, Goto, NodeInv

LEMMA ShownStep ==
    TypeOK /\ MethodInv /\ StartInv /\ PlacesInv /\ NodeInv /\ ShownInv /\ [Next]_vars => ShownInv'
<1> SUFFICES ASSUME TypeOK, MethodInv, StartInv, PlacesInv, NodeInv, ShownInv, [Next]_vars,
                    Visible(mounts', "new") \in {"real", "overlay"}
             PROVE  /\ pc' = "bind" => Visible(mounts', "host") = "host"
                    /\ (pc' \in {"init", "switched"} /\ hostDir' /\ ~hidden') =>
                          Visible(mounts', "new/host") = "host"
  BY DEF ShownInv
<1>1. mounts \in Tables /\ hostDir' = hostDir /\ hidden' = hidden
  BY GivenSame DEF TypeOK, given
<1>2. /\ "real" \in FileSystems /\ "overlay" \in FileSystems /\ "empty" \in FileSystems
      /\ "new" \in MountPoints /\ "host" \in MountPoints /\ "new/host" \in MountPoints
  BY DEF FileSystems, MountPoints
<1>3. \A f \in FileSystems : /\ Visible(Mount(mounts, f, "new"), "host") = Visible(mounts, "host")
                             /\ Visible(Mount(mounts, f, "new"), "new") = f
  BY <1>1, <1>2, MountElsewhere, MountSeen
<1>4. OnlyAt(mounts, "new", {"host"}) => Visible(mounts, "new") \in {"host"} \cup {"none"}
  BY <1>1, OnlySeen
<1>5. CASE MountRoot
  <2>1. mounts' = <<>> \/ mounts' = HostOnNew
    BY <1>5 DEF MountRoot, Goto, StartInv, HostOnNew
  <2>2. Visible(<<>>, "new") \in {} \cup {"none"}
    BY Start, OnlySeen
  <2> QED
    BY <2>1, <2>2, Start
<1>6. CASE MountAgain
  <2>1. mounts' = HostOnNew
    BY <1>6 DEF MountAgain, Goto, StartInv
  <2> QED
    BY <2>1, Start
<1>7. CASE HostAt
  BY <1>7 DEF HostAt
<1>8. CASE MountOverlay
  <2>1. OnlyAt(mounts, "new", {"host"}) /\ pc' = "bind"
    BY <1>8 DEF MountOverlay, Goto, PlacesInv
  <2>2. mounts' # mounts /\ mounts' # Mount(mounts, "empty", "new")
    BY <1>2, <1>3, <1>4, <2>1
  <2>3. HostThere /\ mounts' = Mount(mounts, "overlay", "new")
    BY <1>8, <2>2 DEF MountOverlay
  <2> QED
    BY <1>2, <1>3, <2>1, <2>3 DEF HostThere
<1>9. CASE MountReal
  <2>1. OnlyAt(mounts, "new", {"host"}) /\ pc' \in {"bind", "panic"}
    BY <1>9 DEF MountReal, Goto, PlacesInv
  <2>2. mounts' # mounts
    BY <1>4, <2>1
  <2> QED
    BY <1>2, <1>3, <1>9, <2>1, <2>2, RealOnHost
<1>10. CASE ShowHost
  <2>1. pc = "bind" /\ pc' = "init"
    BY <1>10 DEF ShowHost, Goto
  <2>2. Mounted(mounts, "host") => Visible(Moved(mounts), "new") = Visible(mounts, "new")
    BY <1>1, <1>2, MoveTable DEF Moved
  <2>3. Visible(mounts, "new") \in {"real", "overlay"}
    BY <1>10, <2>2 DEF ShowHost, Shows
  <2>4. Visible(mounts, "host") = "host"
    BY <2>1, <2>3 DEF ShownInv
  <2>5. Mounted(mounts, "host")
    BY <1>1, <2>4, NoneSeen
  <2>6. Visible(mounts, "new") \in Allowed \cup {"none"}
    BY <1>1, OnlySeen DEF PlacesInv
  <2>7. ASSUME hostDir, ~hidden PROVE Shows
    <3>1. method \in {"vloop", "loop"} => Visible(mounts, "new") = "real"
      BY <2>3, <2>6 DEF Allowed, OverlayMethods
    <3> QED
      BY <2>5, <2>7, <3>1 DEF Shows
  <2>8. Visible(Moved(mounts), "new/host") = "host"
    BY <1>1, <1>2, <2>4, <2>5, MoveTable DEF Moved
  <2> QED
    BY <1>1, <1>10, <2>1, <2>7, <2>8 DEF ShowHost
<1>11. CASE CheckInit
  BY <1>1, <1>11 DEF CheckInit, Goto, ShownInv
<1>12. CASE CheckStatus \/ Attach \/ Wait \/ Probe
  BY <1>12 DEF CheckStatus, Attach, Wait, Probe, Goto
<1>13. CASE NodeAppears \/ UNCHANGED vars
  BY <1>1, <1>13 DEF NodeAppears, vars, ShownInv
<1> QED
  BY <1>5, <1>6, <1>7, <1>8, <1>9, <1>10, <1>11, <1>12, <1>13 DEF Next, Ended

LEMMA BootStep == BootInv /\ [Next]_vars => BootInv'
<1> SUFFICES ASSUME BootInv, [Next]_vars, pc' = "switched" PROVE Bootable'
  BY DEF BootInv
<1>1. hostInit' = hostInit
  BY GivenSame DEF given
<1>2. mounts' = mounts /\ Bootable
  <2>1. ~MountRoot
    BY DEF MountRoot, Goto
  <2>2. ~HostAt
    BY DEF HostAt
  <2> QED
    BY <2>1, <2>2 DEF Next, MountAgain, CheckStatus, MountOverlay, Attach, NodeAppears, Wait, Probe,
           MountReal, ShowHost, CheckInit, Ended, vars, Goto, BootInv
<1> QED
  BY <1>1, <1>2 DEF Bootable

-----------------------------------------------------------------------------
LEMMA InvInit == Init => IInv
<1> SUFFICES ASSUME Init PROVE IInv
  OBVIOUS
<1>1. TypeOK
  <2>1. pc \in {"root", "host"}
    BY DEF Init
  <2> QED
    BY <2>1, Start DEF Init, TypeOK
<1>2. MethodInv
  <2>1. method \in {"none"} \cup RealMethods \cup OverlayMethods
    BY MethodNames DEF Init
  <2>2. pc = "root" \/ (pc = "host" /\ Bare)
    BY DEF Init
  <2> QED
    BY <2>1, <2>2 DEF MethodInv, Bare
<1>3. StartInv
  BY DEF Init, StartInv
<1>4. Visible(mounts, "new") \in {} \cup {"none"}
  BY Start, OnlySeen DEF Init
<1>5. PlacesInv /\ NodeInv /\ ShownInv /\ BootInv
  BY <1>4, Start DEF Init, PlacesInv, NodeInv, ShownInv, BootInv
<1> QED
  BY <1>1, <1>2, <1>3, <1>5 DEF IInv

LEMMA Invariance == Spec => []IInv
<1>1. IInv /\ [Next]_vars => IInv'
  BY TypeStep, MethodStep, StartStep, PlacesStep, NodeStep, ShownStep, BootStep DEF IInv
<1> QED
  BY <1>1, InvInit, PTL DEF Spec

\* Every variable of the scripts keeps its type.
THEOREM TypeCorrect == Spec => []TypeOK
<1>1. IInv => TypeOK
  BY DEF IInv
<1> QED
  BY <1>1, Invariance, PTL

\* The root the system switches to is the one in the image or directory that the
\* command line names, when that is on the host partition, even if the partition
\* has an init of its own.
THEOREM ImageNotHostCorrect == Spec => []ImageNotHost
<1>1. IInv => ImageNotHost
  <2> SUFFICES ASSUME IInv, pc = "switched", method # "none", has
               PROVE  Visible(mounts, "new") = Wanted
    BY DEF ImageNotHost
  <2>1. Visible(mounts, "new") \in (FileSystems \ {"host"}) \cup {"none"}
    BY OnlySeen DEF IInv, TypeOK, PlacesInv
  <2>2. Visible(mounts, "new") \in {"real", "overlay"}
    BY <2>1 DEF IInv, BootInv, Bootable
  <2>3. Visible(mounts, "new") \in Allowed \cup {"none"}
    BY OnlySeen DEF IInv, TypeOK, PlacesInv
  <2>4. CASE Visible(mounts, "new") = "real"
    BY <2>3, <2>4 DEF Allowed, RealMethods, Wanted
  <2>5. CASE Visible(mounts, "new") = "overlay"
    BY <2>3, <2>5 DEF Allowed, OverlayMethods, Wanted
  <2> QED
    BY <2>2, <2>4, <2>5
<1> QED
  BY <1>1, Invariance, PTL

\* The host partition is moved below the root from an image, and does not stay on
\* the place of the new root under it.
THEOREM HostIsMoved == Spec => []HostMoved
<1>1. IInv => HostMoved
  <2> SUFFICES ASSUME IInv PROVE HostMoved
    OBVIOUS
  <2>1. (/\ pc = "switched" /\ Visible(mounts, "new") \in {"real", "overlay"}
         /\ hostDir /\ ~hidden)
        => Visible(mounts, "new/host") = "host"
    BY DEF IInv, ShownInv
  <2>2. (Visible(mounts, "new") = "real" /\ has)
        => \A j \in 1..Len(mounts) : mounts[j].fs = "host" => mounts[j].at # "new"
    BY DEF IInv, PlacesInv, OnlyAt
  <2> QED
    BY <2>1, <2>2 DEF HostMoved
<1> QED
  BY <1>1, Invariance, PTL
=============================================================================
