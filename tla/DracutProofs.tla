---------------------------- MODULE DracutProofs ----------------------------
(***************************************************************************)
(* Proofs about the two dracut modules of the repository.  First VhdMount, *)
(* for each of the three scripts, any set of command lines and any types   *)
(* of root file system, with failing commands or without; then VDFuseLoop. *)
(***************************************************************************)
EXTENDS VhdMount, VDFuseLoop, MountTableProofs

InBlock == pc \notin {"block", "done"}

\* The block at position j of the script has been entered.
Entered(j) ==
    /\ j \in 1..Len(Script) /\ Requested(Script[j])
    /\ j < block \/ (j = block /\ InBlock)

SomeEntered == \E j \in 1..Len(Script) : Entered(j)

\* The script is inside a block that is asked for.
BlockInv ==
    /\ InBlock => block <= Len(Script) /\ Requested(Here)
    /\ pc \in {"attach", "wait", "probe", "real"} => Loop
    /\ pc = "done" => block > Len(Script)

\* root is no more the host partition only after a loop block; so a block gets
\* it wrong only after another loop block.
RootInv ==
    /\ root = "real" => \E j \in 1..Len(Script) : Entered(j) /\ Script[j] \in {"kloop", "vloop"}
    /\ HOSTDEV = "real" => ~OneLoop

HostInv ==
    OneLoop => OnlyAt(mounts, "host", {"host"})

\* Unless umount fails, the first block that is entered takes the foreign root
\* away for good.
NewInv ==
    \/ refused
    \/ ~SomeEntered /\ mounts \in {<<>>, Mount(<<>>, "host", "new")}
    \/ OnlyAt(mounts, "new", FileSystems \ {"host"})

\* Between blocks the bind mount of the last block is the last mount.
ShownInv ==
    (~InBlock /\ SomeEntered /\ ~cmd.hidden) =>
       /\ Len(mounts) > 0
       /\ mounts[Len(mounts)].at = "new/host"
       /\ Mounted(mounts, "host") => mounts[Len(mounts)].fs = Visible(mounts, "host")

\* The vloop block alone: its type is empty or right until the probe, and right
\* after it when the node is there, as it is after the wait.
VloopInv ==
    Methods = {"vloop"} =>
       /\ pc \in {"host", "attach", "wait", "probe"} => fstype \in {"", realType}
       /\ asked \/ node =>
             /\ pc \notin {"host", "attach", "overlay"}
             /\ pc = "block" => block > Len(Script)
             /\ pc \in {"probe", "real"} => node
             /\ pc = "real" => fstype = realType
             /\ pc \in {"bind", "block", "done"} => Visible(mounts, "new") = "real"

IInv ==
    /\ TypeOK /\ BlockInv /\ RootInv /\ HostInv /\ NewInv /\ ShownInv /\ VloopInv

-----------------------------------------------------------------------------
\* The blocks of a script: only vloop may follow a loop block, and it is last.
LEMMA ScriptFacts ==
    /\ Len(Script) \in Nat
    /\ \A j \in 1..Len(Script) : Script[j] \in {"upper", "squash", "kloop", "vloop"}
    /\ \A i, j \in 1..Len(Script) : (Script[i] \in {"kloop", "vloop"} /\ i < j) =>
          Script[i] = "kloop" /\ Script[j] = "vloop"
    /\ \A j \in 1..Len(Script) : Script[j] = "vloop" => j = Len(Script)
<1>1. CASE Script = CombinedScript
  BY <1>1 DEF CombinedScript
<1>2. CASE Script = KloopScript
  BY <1>2 DEF KloopScript
<1>3. CASE Script = VloopScript
  BY <1>3 DEF VloopScript
<1> QED
  BY <1>1, <1>2, <1>3, VhdAssumption

\* What the command line asks for does not change.
LEMMA AskedSame ==
    ASSUME UNCHANGED given
    PROVE  /\ cmd' = cmd /\ realType' = realType
           /\ \A b : Requested(b)' = Requested(b)
           /\ Methods' = Methods /\ OneLoop' = OneLoop
<1>1. cmd' = cmd /\ realType' = realType
  BY DEF given
<1>2. \A b : Requested(b)' = Requested(b)
  BY <1>1 DEF Requested
<1>3. Methods' = Methods
  BY <1>2 DEF Methods
<1> QED
  BY <1>1, <1>2, <1>3 DEF OneLoop

LEMMA GivenSame == [Next]_vars => UNCHANGED given
BY DEF Next, Skip, Enter, MountHost, MountOverlay, Attach, NodeAppears, Probe, WaitAgain, MountReal,
       ShowHost, Finish, Done, vars

-----------------------------------------------------------------------------
(* Types.                                                                   *)

LEMMA TypeInit == Init => TypeOK
<1> SUFFICES ASSUME Init PROVE TypeOK
  OBVIOUS
<1>1. <<>> \in Tables
  BY DEF Tables
<1>2. Mount(<<>>, "host", "new") \in Tables
  BY <1>1, MountAppends DEF FileSystems, MountPoints
<1>3. block \in 1..(Len(Script) + 1)
  <2>1. Len(Script) \in Nat /\ block = 1
    BY ScriptFacts DEF Init
  <2> QED
    BY <2>1
<1> QED
  BY <1>1, <1>2, <1>3 DEF Init, TypeOK

\* What a step makes of the mount table.
LEMMA MountsStep ==
    ASSUME TypeOK, [Next]_vars
    PROVE  /\ mounts' \in Tables
           /\ \/ mounts' = mounts
              \/ Enter /\ mounts' = Umount(mounts, "new")
              \/ MountHost /\ mounts' = Mount(mounts, HOSTDEV, "host")
              \/ MountOverlay /\ mounts' = Mount(mounts, "overlay", "new")
              \/ MountOverlay /\ mounts' = Mount(mounts, "empty", "new")
              \/ MountOverlay /\ mounts' = Mount(Mount(mounts, "squash", "lower"), "overlay", "new")
              \/ MountReal /\ mounts' = Mount(mounts, "real", "new")
              \/ ShowHost /\ mounts' = BindHost(mounts)
<1>1. mounts \in Tables /\ HOSTDEV \in FileSystems
  BY DEF TypeOK, FileSystems
<1>2. \A f \in FileSystems, p \in MountPoints : Mount(mounts, f, p) \in Tables
  BY <1>1, MountAppends
<1>3. Mount(Mount(mounts, "squash", "lower"), "overlay", "new") \in Tables
  BY <1>2, MountAppends DEF FileSystems, MountPoints
<1>4. BindHost(mounts) \in Tables
  BY <1>1, <1>2, SeenIsMounted DEF BindHost, FileSystems, MountPoints
<1>5. Umount(mounts, "new") \in Tables
  BY <1>1, UmountTable
<1>6. CASE Enter
  BY <1>1, <1>5, <1>6 DEF Enter, ClearNewRoot
<1>7. CASE MountHost
  BY <1>1, <1>2, <1>7 DEF MountHost, MountPoints
<1>8. CASE MountOverlay
  BY <1>1, <1>2, <1>3, <1>8 DEF MountOverlay, MountPoints, FileSystems
<1>9. CASE MountReal
  BY <1>1, <1>2, <1>9 DEF MountReal, MountPoints, FileSystems
<1>10. CASE ShowHost
  BY <1>1, <1>4, <1>10 DEF ShowHost
<1>11. CASE Skip \/ Attach \/ NodeAppears \/ Probe \/ WaitAgain \/ Finish \/ UNCHANGED vars
  BY <1>1, <1>11 DEF Skip, Attach, NodeAppears, Probe, WaitAgain, Finish, vars
<1> QED
  BY <1>6, <1>7, <1>8, <1>9, <1>10, <1>11 DEF Next, Done

\* Where a block goes from its steps.
LEMMA Orders ==
    /\ \A b : /\ Order(b)["attach"] \in {"probe", "wait"}
              /\ Order(b)["wait"] \in {"probe", "real"}
              /\ Order(b)["probe"] \in {"wait", "real"}
    /\ Order("vloop")["attach"] = "wait"
    /\ Order("vloop")["wait"] = "probe"
    /\ Order("vloop")["probe"] = "real"
BY DEF Order

\* How the position in the script changes.
LEMMA BlockStep ==
    ASSUME TypeOK, BlockInv, [Next]_vars
    PROVE  \/ block' = block /\ (InBlock' = InBlock \/ Enter)
           \/ block' = block + 1 /\ ~InBlock' /\ block <= Len(Script)
                 /\ (ShowHost \/ (~InBlock /\ ~Requested(Here)))
BY Orders DEF Next, Skip, Enter, MountHost, MountOverlay, Attach, NodeAppears, Probe, WaitAgain,
       MountReal, ShowHost, Finish, Done, vars, Proceed, Goto, InBlock, BlockInv

LEMMA TypeStep == TypeOK /\ BlockInv /\ [Next]_vars => TypeOK'
<1> SUFFICES ASSUME TypeOK, BlockInv, [Next]_vars PROVE TypeOK'
  OBVIOUS
<1>1. cmd' \in CommandLines /\ realType' \in RealTypes
  BY GivenSame, AskedSame DEF TypeOK
<1>2. mounts' \in Tables
  BY MountsStep
<1>3. block' \in 1..(Len(Script) + 1)
  <2>1. block \in 1..(Len(Script) + 1) /\ Len(Script) \in Nat
    BY ScriptFacts DEF TypeOK
  <2>2. block' = block \/ (block' = block + 1 /\ block <= Len(Script))
    BY BlockStep
  <2> QED
    BY <2>1, <2>2
<1>4. root' \in {"host", "real"} /\ HOSTDEV' \in {"host", "real"}
  BY DEF TypeOK, Next, Skip, Enter, MountHost, MountOverlay, Attach, NodeAppears, Probe,
         WaitAgain, MountReal, ShowHost, Finish, Done, vars
<1>5. fstype' \in RealTypes \cup {"", "ext4"}
  BY DEF TypeOK, Next, Skip, Enter, MountHost, MountOverlay, Attach, NodeAppears, Probe,
         WaitAgain, MountReal, ShowHost, Finish, Done, vars
<1>6. asked' \in BOOLEAN
  <2>1. CASE Attach
    BY Zenon, <2>1 DEF TypeOK, Attach
  <2>2. CASE ~Attach
    BY <2>2 DEF TypeOK, Next, Skip, Enter, MountHost, MountOverlay, NodeAppears, Probe, WaitAgain,
                MountReal, ShowHost, Finish, Done, vars
  <2> QED
    BY <2>1, <2>2
<1>7. node' \in BOOLEAN
  BY DEF TypeOK, Next, Skip, Enter, MountHost, MountOverlay, Attach, NodeAppears, Probe, WaitAgain,
         MountReal, ShowHost, Finish, Done, vars
<1>9. refused' \in BOOLEAN
  BY DEF TypeOK, Next, Skip, Enter, ClearNewRoot, MountHost, MountOverlay, Attach, NodeAppears,
         Probe, WaitAgain, MountReal, ShowHost, Finish, Done, vars
<1>8. pc' \in {"block", "host", "overlay", "attach", "wait", "probe", "real", "bind", "done"}
  BY Orders DEF TypeOK, Next, Skip, Enter, MountHost, MountOverlay, Attach, NodeAppears, Probe,
         WaitAgain, MountReal, ShowHost, Finish, Done, vars, Proceed, Goto
<1> QED
  BY <1>1, <1>2, <1>3, <1>4, <1>5, <1>6, <1>7, <1>8, <1>9 DEF TypeOK

-----------------------------------------------------------------------------
(* The blocks.                                                              *)

LEMMA BlockInvStep == TypeOK /\ BlockInv /\ [Next]_vars => BlockInv'
<1> SUFFICES ASSUME TypeOK, BlockInv, [Next]_vars PROVE BlockInv'
  OBVIOUS
<1>1. \A b : Requested(b)' = Requested(b)
  BY GivenSame, AskedSame
<1>2. CASE Enter
  BY <1>1, <1>2 DEF Enter, Goto, BlockInv, InBlock, Here
<1>3. CASE MountHost
  BY <1>1, <1>3 DEF MountHost, Goto, BlockInv, InBlock, Here, Loop
<1>4. CASE MountOverlay \/ MountReal
  BY <1>1, <1>4 DEF MountOverlay, MountReal, Goto, BlockInv, InBlock, Here, Loop
<1>5. CASE Attach \/ Probe \/ WaitAgain
  BY <1>1, <1>5, Orders DEF Attach, Probe, WaitAgain, Proceed, Goto, BlockInv, InBlock, Here, Loop
<1>6. CASE ShowHost \/ Skip \/ Finish
  BY <1>6 DEF ShowHost, Skip, Finish, Goto, BlockInv, InBlock
<1>7. CASE NodeAppears \/ UNCHANGED vars
  BY <1>1, <1>7 DEF NodeAppears, vars, BlockInv, InBlock, Here, Loop
<1> QED
  BY <1>2, <1>3, <1>4, <1>5, <1>6, <1>7 DEF Next, Done

\* A block stays entered, and only Enter enters another one.
LEMMA EnteredStep ==
    ASSUME TypeOK, BlockInv, [Next]_vars
    PROVE  /\ \A j : Entered(j) => Entered(j)'
           /\ ~Enter => \A j : Entered(j)' => Entered(j)
           /\ \A j : (Enter /\ j = block) => Entered(j)'
<1>1. \A b : Requested(b)' = Requested(b)
  BY GivenSame, AskedSame
<1>2. block \in 1..(Len(Script) + 1) /\ Len(Script) \in Nat
  BY ScriptFacts DEF TypeOK
<1>3. CASE Enter
  <2>1. /\ block' = block /\ ~InBlock /\ InBlock' /\ block <= Len(Script)
        /\ Requested(Script[block])
    BY <1>3 DEF Enter, Goto, InBlock, Here
  <2> QED
    BY <1>1, <1>2, <1>3, <2>1 DEF Entered
<1>4. CASE ~Enter /\ block' = block
  <2>1. InBlock' = InBlock
    BY <1>2, <1>4, BlockStep
  <2> QED
    BY <1>1, <1>4, <2>1 DEF Entered
<1>5. CASE ~Enter /\ block' = block + 1
  <2>1. /\ ~InBlock' /\ block <= Len(Script)
        /\ InBlock \/ ~Requested(Script[block])
    BY <1>2, <1>5, BlockStep DEF ShowHost, Goto, InBlock, Here
  <2>2. ASSUME NEW j PROVE Entered(j) <=> Entered(j)'
    <3>1. CASE j \in 1..Len(Script)
      <4>1. j < block + 1 <=> j < block \/ j = block
        BY <1>2, <3>1
      <4> QED
        BY <1>1, <1>5, <2>1, <4>1 DEF Entered, BlockInv, Here
    <3>2. CASE j \notin 1..Len(Script)
      BY <3>2 DEF Entered
    <3> QED
      BY <3>1, <3>2
  <2> QED
    BY <1>5, <2>2
<1> QED
  BY <1>3, <1>4, <1>5, BlockStep

LEMMA BlockRange ==
    ASSUME TypeOK, block <= Len(Script)
    PROVE  block \in 1..Len(Script)
<1>1. block \in 1..(Len(Script) + 1) /\ Len(Script) \in Nat
  BY ScriptFacts DEF TypeOK
<1> QED
  BY <1>1

LEMMA SomeEnteredStep ==
    ASSUME TypeOK, BlockInv, [Next]_vars
    PROVE  /\ SomeEntered => SomeEntered'
           /\ ~Enter => (SomeEntered' <=> SomeEntered)
<1>1. SomeEntered => SomeEntered'
  BY EnteredStep DEF SomeEntered
<1>2. ~Enter => (SomeEntered' => SomeEntered)
  BY EnteredStep DEF SomeEntered
<1> QED
  BY <1>1, <1>2

\* Inside a block it is this block that has been entered.
LEMMA InsideEntered == TypeOK /\ BlockInv /\ InBlock => Entered(block) /\ SomeEntered
<1> SUFFICES ASSUME TypeOK, BlockInv, InBlock PROVE Entered(block) /\ SomeEntered
  OBVIOUS
<1>1. block \in 1..Len(Script)
  BY BlockRange DEF BlockInv
<1> QED
  BY <1>1 DEF BlockInv, Entered, SomeEntered, Here

\* At the end every block that is asked for has been entered.
LEMMA DoneEntered ==
    ASSUME TypeOK, BlockInv, pc = "done", Methods # {}
    PROVE  SomeEntered
<1>1. PICK j \in 1..Len(Script) : Requested(Script[j])
  BY DEF Methods
<1>2. block > Len(Script) /\ block \in 1..(Len(Script) + 1) /\ Len(Script) \in Nat
  BY ScriptFacts DEF BlockInv, TypeOK
<1>3. j < block
  BY <1>2
<1> QED
  BY <1>1, <1>3 DEF SomeEntered, Entered

LEMMA RootStep == TypeOK /\ BlockInv /\ RootInv /\ [Next]_vars => RootInv'
<1> SUFFICES ASSUME TypeOK, BlockInv, RootInv, [Next]_vars PROVE RootInv'
  OBVIOUS
<1>1. OneLoop' = OneLoop
  BY GivenSame, AskedSame
<1>2. CASE Enter
  <2>1. /\ HOSTDEV' = root /\ block' = block /\ ~InBlock
        /\ root' = IF Loop THEN "real" ELSE root
    BY <1>2 DEF Enter, Goto, InBlock
  <2>2. block \in 1..Len(Script) /\ Requested(Script[block])
    BY <1>2, BlockRange DEF Enter, Here
  <2>3. ASSUME root = "real" PROVE ~OneLoop
    <3>1. PICK j \in 1..Len(Script) : Entered(j) /\ Script[j] \in {"kloop", "vloop"}
      BY <2>3 DEF RootInv
    <3>2. j < block /\ Requested(Script[j])
      BY <2>1, <3>1 DEF Entered
    <3>3. Script[j] = "kloop" /\ Script[block] = "vloop"
      BY <2>2, <3>1, <3>2, ScriptFacts
    <3> QED
      BY <2>2, <3>1, <3>2, <3>3 DEF OneLoop, Methods
  <2>4. ASSUME root' = "real"
        PROVE  \E j \in 1..Len(Script) : Entered(j)' /\ Script[j] \in {"kloop", "vloop"}
    <3>1. CASE Loop
      <4>1. Script[block] \in {"kloop", "vloop"}
        BY <3>1 DEF Loop, Here
      <4>2. \A j : j = block => Entered(j)'
        BY <1>2, EnteredStep
      <4> QED
        BY <2>2, <4>1, <4>2
    <3>2. CASE ~Loop
      BY <2>1, <2>4, <3>2, EnteredStep DEF RootInv
    <3> QED
      BY <3>1, <3>2
  <2> QED
    BY <1>1, <2>1, <2>3, <2>4 DEF RootInv
<1>3. CASE ~Enter
  <2>1. root' = root /\ HOSTDEV' = HOSTDEV
    BY <1>3 DEF Next, Skip, MountHost, MountOverlay, Attach, NodeAppears, Probe, WaitAgain,
                MountReal, ShowHost, Finish, Done, vars
  <2>2. \A j \in 1..Len(Script) : Entered(j) => Entered(j)'
    BY EnteredStep
  <2> QED
    BY <1>1, <2>1, <2>2 DEF RootInv
<1> QED
  BY <1>2, <1>3

-----------------------------------------------------------------------------
(* The mounts.                                                              *)

LEMMA HostStep == TypeOK /\ RootInv /\ HostInv /\ [Next]_vars => HostInv'
<1> SUFFICES ASSUME TypeOK, RootInv, HostInv, [Next]_vars, OneLoop'
             PROVE  OnlyAt(mounts', "host", {"host"})
  BY DEF HostInv
<1> DEFINE H(m) == OnlyAt(m, "host", {"host"})
<1>1. OneLoop /\ H(mounts) /\ mounts \in Tables
  BY GivenSame, AskedSame DEF HostInv, TypeOK
<1>2. HOSTDEV = "host"
  BY <1>1 DEF RootInv, TypeOK
<1>3. \A f \in FileSystems : H(Mount(mounts, f, "new")) /\ H(Mount(mounts, f, "lower"))
                             /\ H(Mount(mounts, f, "new/host"))
  BY <1>1, OnlyMount DEF MountPoints
<1>4. H(Mount(Mount(mounts, "squash", "lower"), "overlay", "new"))
  <2>1. Mount(mounts, "squash", "lower") \in Tables
    BY <1>1, MountAppends DEF FileSystems, MountPoints
  <2> QED
    BY <1>3, <2>1, OnlyMount DEF FileSystems, MountPoints
<1>5. H(BindHost(mounts))
  BY <1>1, <1>3, SeenIsMounted DEF BindHost, FileSystems
<1>6. H(Umount(mounts, "new"))
  BY <1>1, OnlyUmount
<1>7. H(Mount(mounts, "host", "host"))
  BY <1>1, OnlyMount DEF FileSystems, MountPoints
<1> HIDE DEF H
<1>8. H(mounts')
  BY <1>1, <1>2, <1>3, <1>4, <1>5, <1>6, <1>7, MountsStep DEF FileSystems
<1> QED
  BY <1>8 DEF H

LEMMA NewStep == TypeOK /\ BlockInv /\ NewInv /\ [Next]_vars => NewInv'
<1> SUFFICES ASSUME TypeOK, BlockInv, NewInv, [Next]_vars PROVE NewInv'
  OBVIOUS
<1> DEFINE N(m) == OnlyAt(m, "new", FileSystems \ {"host"})
<1>1. mounts \in Tables /\ HOSTDEV \in FileSystems
  BY DEF TypeOK, FileSystems
<1>2. CASE N(mounts)
  <2>1. \A f \in FileSystems : N(Mount(mounts, f, "host")) /\ N(Mount(mounts, f, "lower"))
                               /\ N(Mount(mounts, f, "new/host"))
    BY <1>1, <1>2, OnlyMount DEF MountPoints
  <2>2. \A f \in FileSystems \ {"host"} : N(Mount(mounts, f, "new"))
    BY <1>1, <1>2, OnlyMount DEF MountPoints
  <2>3. N(Mount(Mount(mounts, "squash", "lower"), "overlay", "new"))
    <3>1. Mount(mounts, "squash", "lower") \in Tables
      BY <1>1, MountAppends DEF FileSystems, MountPoints
    <3> QED
      BY <2>1, <3>1, OnlyMount DEF FileSystems, MountPoints
  <2>4. N(BindHost(mounts))
    BY <1>1, <2>1, SeenIsMounted DEF BindHost, FileSystems
  <2>5. N(Umount(mounts, "new"))
    BY <1>1, <1>2, OnlyUmount
  <2> HIDE DEF N
  <2>6. N(mounts')
    BY <1>1, <1>2, <2>1, <2>2, <2>3, <2>4, <2>5, MountsStep DEF FileSystems
  <2> QED
    BY <2>6 DEF NewInv, N
<1>3. CASE ~SomeEntered /\ mounts \in {<<>>, Mount(<<>>, "host", "new")}
  <2>1. ~InBlock
    BY <1>3, InsideEntered
  <2>2. CASE Enter
    <3>1. \/ mounts' = Umount(mounts, "new")
          \/ Mounted(mounts, "new") /\ (Visible(mounts, "new") = "host" => refused')
      BY <2>2 DEF Enter, ClearNewRoot
    <3>4. Mounted(mounts, "new") => Visible(mounts, "new") = "host"
      <4>1. CASE mounts = <<>>
        BY <4>1 DEF Mounted, At
      <4>2. CASE mounts = Mount(<<>>, "host", "new")
        <5>1. <<>> \in Tables
          BY DEF Tables
        <5> QED
          BY <4>2, <5>1, MountSeen DEF FileSystems, MountPoints
      <4> QED
        BY <1>3, <4>1, <4>2
    <3>2. Umount(mounts, "new") = <<>>
      <4>1. CASE mounts = <<>>
        BY <4>1 DEF Umount, Mounted, At
      <4>2. CASE mounts = Mount(<<>>, "host", "new")
        <5>1. mounts = <<[fs |-> "host", at |-> "new"]>>
          BY <4>2 DEF Mount
        <5>2. Len(mounts) = 1 /\ mounts[1].at = "new"
          BY <5>1
        <5>3. At(mounts, "new") = {1} /\ At(mounts, "new/host") = {}
          BY <5>2 DEF At
        <5>4. Top(mounts, "new") = 1
          BY <5>3 DEF Top
        <5>5. Without(mounts, 1) = <<>>
          BY <5>2 DEF Without
        <5> QED
          BY <5>3, <5>4, <5>5 DEF Umount, Mounted, Busy
      <4> QED
        BY <1>3, <4>1, <4>2
    <3>3. OnlyAt(<<>>, "new", FileSystems \ {"host"})
      BY DEF OnlyAt
    <3> QED
      BY <3>1, <3>2, <3>3, <3>4 DEF NewInv
  <2>3. CASE ~Enter
    <3>1. mounts' = mounts
      BY <2>1, <2>3 DEF Next, Skip, MountHost, MountOverlay, Attach, NodeAppears, Probe, WaitAgain,
                        MountReal, ShowHost, Finish, Done, vars, Proceed, Goto, InBlock
    <3>2. ~SomeEntered'
      BY <1>3, <2>3, SomeEnteredStep
    <3> QED
      BY <1>3, <3>1, <3>2 DEF NewInv
  <2> QED
    BY <2>2, <2>3
<1>4. CASE refused
  <2>1. refused'
    BY <1>4 DEF Next, Skip, Enter, ClearNewRoot, MountHost, MountOverlay, Attach, NodeAppears,
                Probe, WaitAgain, MountReal, ShowHost, Finish, Done, vars
  <2> QED
    BY <2>1 DEF NewInv
<1> QED
  BY <1>2, <1>3, <1>4 DEF NewInv

\* A bind mount changes what is seen at no other place.
LEMMA BindElsewhere ==
    ASSUME NEW m \in Tables, NEW q \in {"host", "new"}
    PROVE  /\ Visible(BindHost(m), q) = Visible(m, q)
           /\ Mounted(BindHost(m), q) = Mounted(m, q)
           /\ Len(BindHost(m)) > 0
           /\ BindHost(m)[Len(BindHost(m))].at = "new/host"
           /\ Mounted(m, "host") => BindHost(m)[Len(BindHost(m))].fs = Visible(m, "host")
<1> DEFINE f == IF Mounted(m, "host") THEN Visible(m, "host") ELSE "initramfs"
           n == Mount(m, f, "new/host")
<1>1. f \in FileSystems
  BY SeenIsMounted DEF FileSystems
<1>2. BindHost(m) = n
  BY DEF BindHost
<1> HIDE DEF f
<1>3. Visible(n, q) = Visible(m, q) /\ Mounted(n, q) = Mounted(m, q)
  BY <1>1, MountElsewhere DEF MountPoints
<1>4. /\ Len(n) = Len(m) + 1 /\ Len(m) \in Nat
      /\ n[Len(m) + 1] = [fs |-> f, at |-> "new/host"]
  BY <1>1, MountAppends DEF MountPoints
<1> HIDE DEF n
<1>5. Len(n) > 0 /\ n[Len(n)].at = "new/host" /\ n[Len(n)].fs = f
  BY <1>4
<1> QED
  BY <1>2, <1>3, <1>5 DEF f

LEMMA ShownStep == TypeOK /\ BlockInv /\ ShownInv /\ [Next]_vars => ShownInv'
<1> SUFFICES ASSUME TypeOK, BlockInv, ShownInv, [Next]_vars,
                    ~InBlock', SomeEntered', ~cmd'.hidden
             PROVE  /\ Len(mounts') > 0
                    /\ mounts'[Len(mounts')].at = "new/host"
                    /\ Mounted(mounts', "host") =>
                          mounts'[Len(mounts')].fs = Visible(mounts', "host")
  BY DEF ShownInv
<1>1. ~cmd.hidden /\ mounts \in Tables
  BY GivenSame, AskedSame DEF TypeOK
<1>2. CASE ShowHost
  <2>1. mounts' = BindHost(mounts)
    BY <1>1, <1>2 DEF ShowHost
  <2> QED
    BY <1>1, <2>1, BindElsewhere
<1>3. CASE ~ShowHost
  <2>1. ~Enter
    BY DEF Enter, Goto, InBlock
  <2>2. SomeEntered
    BY <2>1, SomeEnteredStep
  <2>3. ~InBlock /\ mounts' = mounts
    BY <1>3, <2>1, Orders DEF Next, Skip, MountHost, MountOverlay, Attach, NodeAppears, Probe,
             WaitAgain, MountReal, Finish, Done, vars, Proceed, Goto, InBlock
  <2> QED
    BY <1>1, <2>2, <2>3 DEF ShownInv
<1> QED
  BY <1>2, <1>3

\* When vloop is the only method, its block is the one that is entered.
LEMMA OnlyVloop ==
    ASSUME TypeOK, BlockInv, Methods = {"vloop"}, InBlock
    PROVE  Here = "vloop" /\ block = Len(Script) /\ Len(Script) \in Nat
<1>1. block \in 1..Len(Script) /\ Requested(Here)
  BY BlockRange DEF BlockInv
<1>2. Here \in Methods
  BY <1>1 DEF Methods, Here
<1> QED
  BY <1>1, <1>2, ScriptFacts DEF Here

LEMMA VloopStep == TypeOK /\ BlockInv /\ VloopInv /\ [Next]_vars => VloopInv'
<1> SUFFICES ASSUME TypeOK, BlockInv, VloopInv, [Next]_vars, Methods' = {"vloop"}
             PROVE  VloopInv'
  BY DEF VloopInv
<1>1. Methods = {"vloop"} /\ realType' = realType /\ mounts \in Tables
  BY GivenSame, AskedSame DEF TypeOK
<1>2. CASE Skip
  <2>1. ~asked /\ ~node
    <3>1. block \in 1..Len(Script) /\ Len(Script) \in Nat /\ pc = "block"
      BY <1>2, BlockRange, ScriptFacts DEF Skip
    <3>2. ~(block > Len(Script))
      BY <3>1
    <3> QED
      BY <1>1, <3>1, <3>2 DEF VloopInv
  <2> QED
    BY <1>2, <2>1 DEF Skip, VloopInv
<1>3. CASE Enter
  <2>1. ~asked /\ ~node
    <3>1. block \in 1..Len(Script) /\ Len(Script) \in Nat /\ pc = "block"
      BY <1>3, BlockRange, ScriptFacts DEF Enter, Goto
    <3>2. ~(block > Len(Script))
      BY <3>1
    <3> QED
      BY <1>1, <3>1, <3>2 DEF VloopInv
  <2> QED
    BY <1>1, <1>3, <2>1 DEF Enter, Goto, VloopInv
<1>4. CASE MountHost
  <2>1. Loop
    BY <1>1, <1>4, OnlyVloop DEF MountHost, Goto, InBlock, Loop
  <2> QED
    BY <1>1, <1>4, <2>1 DEF MountHost, Goto, VloopInv
<1>5. CASE MountOverlay
  BY <1>1, <1>5 DEF MountOverlay, Goto, VloopInv
<1>6. CASE Attach \/ WaitAgain \/ Probe
  <2>1. Here = "vloop"
    BY <1>1, <1>6, OnlyVloop DEF Attach, WaitAgain, Probe, Proceed, Goto, InBlock
  <2>2. CASE Attach
    BY <1>1, <2>1, <2>2, Orders DEF Attach, Proceed, Goto, VloopInv
  <2>3. CASE WaitAgain
    BY <1>1, <2>1, <2>3, Orders DEF WaitAgain, Proceed, Goto, VloopInv
  <2>4. CASE Probe
    BY <1>1, <2>1, <2>4, Orders DEF Probe, Proceed, Goto, VloopInv
  <2> QED
    BY <1>6, <2>2, <2>3, <2>4
<1>7. CASE NodeAppears
  BY <1>1, <1>7 DEF NodeAppears, VloopInv
<1>8. CASE MountReal
  <2>1. asked \/ node => Visible(mounts', "new") = "real"
    <3> SUFFICES ASSUME asked \/ node PROVE Visible(mounts', "new") = "real"
      OBVIOUS
    <3>1. mounts' = Mount(mounts, "real", "new")
      BY <1>1, <1>8 DEF MountReal, Goto, VloopInv
    <3> QED
      BY <1>1, <3>1, MountSeen DEF FileSystems, MountPoints
  <2> QED
    BY <1>8, <2>1 DEF MountReal, Goto, VloopInv
<1>9. CASE ShowHost
  <2>1. Visible(mounts', "new") = Visible(mounts, "new")
    BY <1>1, <1>9, BindElsewhere DEF ShowHost
  <2>2. block = Len(Script) /\ Len(Script) \in Nat
    BY <1>1, <1>9, OnlyVloop DEF ShowHost, Goto, InBlock
  <2>3. block' > Len(Script)
    BY <1>9, <2>2 DEF ShowHost
  <2> QED
    BY <1>1, <1>9, <2>1, <2>3 DEF ShowHost, Goto, VloopInv
<1>10. CASE Finish
  BY <1>1, <1>10 DEF Finish, Goto, VloopInv
<1>11. CASE UNCHANGED vars
  BY <1>1, <1>11 DEF vars, VloopInv
<1> QED
  BY <1>2, <1>3, <1>4, <1>5, <1>6, <1>7, <1>8, <1>9, <1>10, <1>11 DEF Next, Done

-----------------------------------------------------------------------------
LEMMA InvInit == Init => IInv
<1> SUFFICES ASSUME Init PROVE IInv
  OBVIOUS
<1>1. ~InBlock /\ ~SomeEntered
  <2>1. ~InBlock /\ block = 1
    BY DEF Init, InBlock
  <2>2. \A j \in 1..Len(Script) : ~(j < 1)
    BY ScriptFacts
  <2> QED
    BY <2>1, <2>2 DEF SomeEntered, Entered
<1>2. OnlyAt(mounts, "host", {"host"})
  <2>1. <<>> \in Tables /\ OnlyAt(<<>>, "host", {"host"})
    BY DEF Tables, OnlyAt
  <2>2. OnlyAt(Mount(<<>>, "host", "new"), "host", {"host"})
    BY <2>1, OnlyMount DEF FileSystems, MountPoints
  <2> QED
    BY <2>1, <2>2 DEF Init
<1>3. BlockInv /\ RootInv /\ VloopInv
  BY <1>1 DEF Init, BlockInv, RootInv, VloopInv
<1>4. HostInv /\ NewInv /\ ShownInv
  BY <1>1, <1>2 DEF Init, HostInv, NewInv, ShownInv
<1> QED
  BY <1>3, <1>4, TypeInit DEF IInv

LEMMA Invariance == Spec => []IInv
<1>1. IInv /\ [Next]_vars => IInv'
  BY TypeStep, BlockInvStep, RootStep, HostStep, NewStep, ShownStep, VloopStep DEF IInv
<1> QED
  BY <1>1, InvInit, PTL DEF Spec

\* Every variable of the hook keeps its type.
THEOREM TypeCorrect == Spec => []TypeOK
<1>1. IInv => TypeOK
  BY DEF IInv
<1> QED
  BY <1>1, Invariance, PTL

\* When a method was asked for, the hook ends with the root that was mounted
\* before it ran only if umount failed on it, whatever else fails.
THEOREM NoForeignRootLeft == Spec => []NoForeignRoot
<1>1. IInv => NoForeignRoot
  <2> SUFFICES ASSUME IInv, pc = "done", Methods # {}, ~refused PROVE Visible(mounts, "new") # "host"
    BY DEF NoForeignRoot
  <2>1. SomeEntered
    BY DoneEntered DEF IInv
  <2>2. mounts \in Tables /\ OnlyAt(mounts, "new", FileSystems \ {"host"})
    BY <2>1 DEF IInv, NewInv, TypeOK
  <2>3. Visible(mounts, "new") \in (FileSystems \ {"host"}) \cup {"none"}
    BY <2>2, OnlySeen
  <2> QED
    BY <2>3
<1> QED
  BY <1>1, Invariance, PTL

\* A root that the hook mounted shows the host partition in its directory host.
THEOREM HostIsShown == Spec => []HostShown
<1>1. IInv => HostShown
  <2> SUFFICES ASSUME IInv, pc = "done", Methods # {}, OneLoop, ~cmd.hidden,
                      Mounted(mounts, "host")
               PROVE  Visible(mounts, "new/host") = "host"
    BY DEF HostShown
  <2>1. SomeEntered
    BY DoneEntered DEF IInv
  <2>2. mounts \in Tables /\ Visible(mounts, "host") = "host"
    <3>1. mounts \in Tables /\ OnlyAt(mounts, "host", {"host"})
      BY DEF IInv, TypeOK, HostInv
    <3>2. Visible(mounts, "host") \in {"host"} \cup {"none"}
      BY <3>1, OnlySeen
    <3> QED
      BY <3>1, <3>2, NoneSeen
  <2> DEFINE l == Len(mounts)
  <2>3. l > 0 /\ l \in Nat /\ mounts[l].at = "new/host" /\ mounts[l].fs = "host"
    BY <2>1, <2>2 DEF IInv, ShownInv, InBlock, Tables
  <2>4. At(mounts, "new/host") \subseteq Nat /\ l \in At(mounts, "new/host")
    BY <2>3 DEF At
  <2>5. \A k \in At(mounts, "new/host") : k <= l
    BY <2>3 DEF At
  <2> QED
    BY <2>3, <2>4, <2>5, SeenIsLast
<1> QED
  BY <1>1, Invariance, PTL

\* With vloop= alone, the root in an image that was attached is mounted as the
\* new root, whatever its type and whenever its node appears.
THEOREM VloopRootIsFound == Spec => []VloopRootFound
<1>1. IInv => VloopRootFound
  BY DEF IInv, VloopInv, VloopRootFound, RootFound
<1> QED
  BY <1>1, Invariance, PTL

-----------------------------------------------------------------------------
(***************************************************************************)
(* The module 90vdfuseloop, for any number of uevents and any faults: the  *)
(* type invariant, and that a mounted root is served by every layer below. *)
(***************************************************************************)

Boot == {"cmdline", "initqueue", "mount", "running"}

\* Every loop device was bound by a job of its own, every job has its uevent.
JobsInv == loops + jobs["host"] + jobs["alien"] + (IF job = "idle" THEN 0 ELSE 1) <= events

\* A daemon that runs has a name that begins with @.
SparedInv ==
    /\ host = "alive" => "ntfs-3g" \in spared
    /\ vd = "alive" => "vdfuse" \in spared

\* Until the shutdown, a layer that is there stands on the one below.
StackInv ==
    phase \in Boot =>
        /\ vd = "alive" => host = "alive"
        /\ link = "bound" => loops > 0 /\ vd = "alive"

SysrootInv == sysroot => phase \notin {"cmdline", "initqueue", "mount", "emergency"}

LoopInv == LoopTypeOK /\ JobsInv /\ SparedInv /\ StackInv /\ SysrootInv /\ RootServed

\* The two halves of TypeOK: the flags, and everything else.
FlagsOK ==
    /\ waits \in BOOLEAN /\ needShutdown \in BOOLEAN
    /\ sysroot \in BOOLEAN /\ straggler \in BOOLEAN

RestOK ==
    /\ opts \in {"ok", "missing", "illegal"} /\ rule \in {"none", "host", "any"}
    /\ events \in 0..MaxEvents /\ jobs \in [Devices -> 0..MaxEvents]
    /\ job \in {"idle", "host", "alien", "vdfuse", "loop"}
    /\ host \in {"no", "alive", "alien", "dead"} /\ vd \in {"no", "alive", "closing", "dead"}
    /\ spared \subseteq {"ntfs-3g", "vdfuse"}
    /\ loops \in 0..MaxEvents /\ link \in {"none", "bound", "unbound"}
    /\ phase \in {"cmdline", "initqueue", "mount", "emergency", "running", "oldroot",
                  "losetup", "vdhost", "host", "off"}

USE DEF To, Job, Spare, world, hook

LEMMA LoopTypeParts == (LoopTypeOK <=> FlagsOK /\ RestOK) /\ (LoopTypeOK' <=> FlagsOK' /\ RestOK')
BY DEF LoopTypeOK, FlagsOK, RestOK

LEMMA FlagsStep == FlagsOK /\ [LoopNext]_loopvars => FlagsOK'
<1> SUFFICES ASSUME FlagsOK, [LoopNext]_loopvars PROVE FlagsOK'
  OBVIOUS
<1>1. CASE Parse
  BY <1>1, Zenon DEF Parse, FlagsOK
<1>2. CASE BindLoop
  BY <1>2, Zenon DEF BindLoop, FlagsOK
<1>3. CASE MountRoot
  BY <1>3, Zenon DEF MountRoot, FlagsOK
<1>4. CASE UmountOldroot
  BY <1>4, Zenon DEF UmountOldroot, FlagsOK
<1>5. CASE StartJob \/ StartNtfs \/ StartVdfuse \/ QueueTimeout \/ QueueEnds \/ Uevent
  BY <1>5, Zenon DEF StartJob, StartNtfs, StartVdfuse, QueueTimeout, QueueEnds, Uevent, FlagsOK
<1>6. CASE DetachLoops \/ UmountVdhost \/ UmountHost \/ KillAll \/ VdfuseEnds
  BY <1>6, Zenon DEF DetachLoops, UmountVdhost, UmountHost, KillAll, VdfuseEnds, FlagsOK
<1>7. CASE UNCHANGED loopvars
  BY <1>7, Zenon DEF loopvars, FlagsOK
<1> QED
  BY <1>1, <1>2, <1>3, <1>4, <1>5, <1>6, <1>7 DEF LoopNext, Work, Ended

LEMMA RestStep == RestOK /\ JobsInv /\ [LoopNext]_loopvars => RestOK' /\ JobsInv'
<1> SUFFICES ASSUME RestOK, JobsInv, [LoopNext]_loopvars PROVE RestOK' /\ JobsInv'
  OBVIOUS
<1> USE LoopAssumption DEF RestOK, JobsInv, Devices
<1>1. CASE Parse
  <2>1. RuleFor[opts] \in {"none", "host", "any"} /\ UNCHANGED <<events, jobs, job, host, vd,
           spared, loops, link>>
    BY <1>1 DEF Parse, RuleFor
  <2> QED
    BY <1>1, <2>1 DEF Parse
<1>2. CASE StartJob
  BY <1>2 DEF StartJob
<1>3. CASE StartNtfs
  BY <1>3 DEF StartNtfs
<1>4. CASE StartVdfuse
  BY <1>4 DEF StartVdfuse
<1>5. CASE BindLoop
  BY <1>5 DEF BindLoop
<1>6. CASE MountRoot
  BY <1>6 DEF MountRoot
<1>7. CASE QueueTimeout \/ QueueEnds
  BY <1>7 DEF QueueTimeout, QueueEnds
<1>8. CASE UmountOldroot
  BY <1>8 DEF UmountOldroot
<1>9. CASE DetachLoops
  BY <1>9 DEF DetachLoops
<1>10. CASE UmountVdhost \/ UmountHost
  <2>1. UNCHANGED <<opts, rule, events, jobs, job, spared, loops, link>>
    BY <1>10 DEF UmountVdhost, UmountHost
  <2>2. /\ vd' \in {vd, "closing"} /\ host' \in {host, "dead"} /\ phase' \in {"host", "off"}
    BY <1>10 DEF UmountVdhost, UmountHost
  <2> QED
    BY <2>1, <2>2
<1>11. CASE Uevent
  <2>1. PICK d \in Devices : jobs' = [jobs EXCEPT ![d] = @ + 1]
    BY <1>11 DEF Uevent
  <2>2. /\ events < MaxEvents /\ events' = events + 1
        /\ UNCHANGED <<opts, rule, job, host, vd, spared, loops, link, phase>>
    BY <1>11 DEF Uevent
  <2>3. jobs'["host"] + jobs'["alien"] = jobs["host"] + jobs["alien"] + 1
    BY <2>1
  <2>4. jobs'["host"] \in 0..MaxEvents /\ jobs'["alien"] \in 0..MaxEvents
    BY <2>1, <2>2
  <2>5. jobs' \in [Devices -> 0..MaxEvents]
    BY <2>1, <2>4
  <2> QED
    BY <2>2, <2>3, <2>5
<1>12. CASE KillAll \/ VdfuseEnds
  <2>1. UNCHANGED <<opts, rule, events, jobs, job, spared, loops, link>>
    BY <1>12 DEF KillAll, VdfuseEnds
  <2>2. vd' \in {vd, "dead"} /\ host' \in {host, "dead"} /\ phase' \in {phase, "oldroot"}
    BY <1>12 DEF KillAll, VdfuseEnds
  <2> QED
    BY <2>1, <2>2
<1>13. CASE UNCHANGED loopvars
  BY <1>13 DEF loopvars
<1> QED
  BY <1>1, <1>2, <1>3, <1>4, <1>5, <1>6, <1>7, <1>8, <1>9, <1>10, <1>11,
     <1>12, <1>13
     DEF LoopNext, Work, Ended

\* One step per action: what each layer of the stack may lose, and when.
LEMMA StackStep ==
    LoopInv /\ [LoopNext]_loopvars => SparedInv' /\ StackInv' /\ SysrootInv' /\ RootServed'
<1> SUFFICES ASSUME LoopInv, [LoopNext]_loopvars
             PROVE  SparedInv' /\ StackInv' /\ SysrootInv' /\ RootServed'
  OBVIOUS
<1> USE DEF LoopInv, LoopTypeOK, SparedInv, StackInv, SysrootInv, RootServed, Boot
<1>1. CASE Parse
  BY <1>1 DEF Parse
<1>2. CASE StartJob
  BY <1>2 DEF StartJob
<1>3. CASE StartNtfs
  BY <1>3 DEF StartNtfs
<1>4. CASE StartVdfuse
  BY <1>4 DEF StartVdfuse
<1>5. CASE BindLoop
  BY <1>5 DEF BindLoop, Binds
<1>6. CASE MountRoot
  BY <1>6 DEF MountRoot
<1>7. CASE QueueTimeout \/ QueueEnds
  BY <1>7 DEF QueueTimeout, QueueEnds
<1>8. CASE UmountOldroot
  BY <1>8 DEF UmountOldroot
<1>9. CASE DetachLoops
  BY <1>9 DEF DetachLoops
\* The unmount of vdfuse needs that no loop device is bound to its file.
<1>10. CASE UmountVdhost
  BY <1>10 DEF UmountVdhost
\* The unmount of the host needs that vdfuse does not have the image open.
<1>11. CASE UmountHost
  BY <1>11 DEF UmountHost, ImageOpen
<1>12. CASE Uevent
  BY <1>12 DEF Uevent
<1>13. CASE KillAll
  BY <1>13 DEF KillAll
<1>14. CASE VdfuseEnds
  BY <1>14 DEF VdfuseEnds
<1>15. CASE UNCHANGED loopvars
  BY <1>15 DEF loopvars
<1> QED
  BY <1>1, <1>2, <1>3, <1>4, <1>5, <1>6, <1>7, <1>8, <1>9, <1>10, <1>11, <1>12,
     <1>13, <1>14, <1>15
     DEF LoopNext, Work, Ended

LEMMA LoopInvariance == LoopSpec => []LoopInv
<1>1. LoopInit => LoopInv
  <2> SUFFICES ASSUME LoopInit PROVE LoopInv
    OBVIOUS
  <2>1. FlagsOK
    BY Zenon DEF LoopInit, FlagsOK
  <2>2. RestOK /\ JobsInv
    BY LoopAssumption DEF LoopInit, RestOK, JobsInv, Devices
  <2>3. ~sysroot
    BY Zenon DEF LoopInit
  <2>4. SparedInv /\ StackInv
    BY DEF LoopInit, SparedInv, StackInv
  <2> QED
    BY <2>1, <2>2, <2>3, <2>4, LoopTypeParts DEF LoopInv, SysrootInv, RootServed
<1>2. LoopInv /\ [LoopNext]_loopvars => LoopInv'
  BY LoopTypeParts, FlagsStep, RestStep, StackStep DEF LoopInv
<1> QED
  BY <1>1, <1>2, PTL DEF LoopSpec

\* The state of the boot and shutdown scripts has its type; in particular there
\* are never more loop devices than uevents that the rule matched.
THEOREM LoopTypeCorrect == LoopSpec => []LoopTypeOK
BY LoopInvariance, PTL DEF LoopInv

\* While the root is mounted, the loop device, vdfuse and ntfs-3g below it are
\* alive, whatever fails in vdfuseloop.sh and in shutdown-vdfuseloop.sh.
THEOREM RootServedCorrect == LoopSpec => []RootServed
BY LoopInvariance, PTL DEF LoopInv
=============================================================================
