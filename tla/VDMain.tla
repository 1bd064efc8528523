------------------------------- MODULE VDMain -------------------------------
(***************************************************************************)
(* main of vdfuse (vdfuseloop/vdfuse/src/vdfuse.c): the options, their     *)
(* validation, the detection of the image's type, the opening of the image *)
(* and of its differencing images, and the mount.  Any failure is a call   *)
(* of usageAndExit.                                                        *)
(***************************************************************************)
EXTENDS Naturals, Sequences

CONSTANTS
    ImageFiles,         \* names that -f and -s may give
    Header,             \* what the first bytes of each file say
    Format,             \* the format each file really has
    Readable, Writable, \* what access(2) grants
    DIFFERENCING_MAX,
    MaxOptions,         \* bound: how many options the command line has
    NoFile

Headers == {"conectix", "VMDK", "KDMV", "<<<", "other", "short"}
Types   == {"VDI", "VMDK", "VHD"}

ASSUME MainAssumption ==
    /\ Header \in [ImageFiles -> Headers]
    /\ Format \in [ImageFiles -> Types \cup {"raw"}]
    /\ Readable \subseteq ImageFiles /\ Writable \subseteq ImageFiles
    /\ DIFFERENCING_MAX \in Nat /\ MaxOptions \in Nat
    /\ NoFile \notin ImageFiles

\* An option: its letter and its argument.  -a, -g, -v, -w and -d ("other")
\* only change permissions, output and what is passed on to fuse_main.
Option ==
    ({"r", "other", "h", "?"} \X {NoFile}) \cup ({"f", "s"} \X ImageFiles)
       \cup ({"t"} \X (Types \cup {"auto", "raw", "bogus"}))

VARIABLES
    args,              \* the options getopt has returned so far
    readonly, diskType, imagefilename, differencing,
    chain,             \* the images VDOpen has opened: file, type and mode
    pc

vars == <<args, readonly, diskType, imagefilename, differencing, chain, pc>>
optionVars == <<args, readonly, diskType, imagefilename, differencing>>

Range(s) == {s[j] : j \in 1..Len(s)}

Init ==
    /\ args = <<>>
    /\ readonly = FALSE
    /\ diskType = "auto"
    /\ imagefilename = NoFile
    /\ differencing = <<>>
    /\ chain = <<>>
    /\ pc = "options"

Goto(from, to) == pc = from /\ pc' = to

-----------------------------------------------------------------------------
\* Mutant: one differencing disk too many is taken.
TooMany_late(o) == o = "s" /\ Len(differencing) > DIFFERENCING_MAX

TooMany(o) == o = "s" /\ Len(differencing) = DIFFERENCING_MAX

\* One turn of the getopt loop.
GetOption(o, v) ==
    /\ pc = "options" /\ Len(args) < MaxOptions
    /\ args' = Append(args, <<o, v>>)
    /\ IF o \in {"h", "?"} \/ TooMany(o)
       THEN /\ pc' = "exited"
            /\ UNCHANGED <<readonly, diskType, imagefilename, differencing>>
       ELSE /\ pc' = "options"
            /\ readonly' = (readonly \/ o = "r")
            /\ diskType' = IF o = "t" THEN v ELSE diskType
            /\ imagefilename' = IF o = "f" THEN v ELSE imagefilename
            /\ differencing' = IF o = "s" THEN Append(differencing, v) ELSE differencing
    /\ UNCHANGED chain

\* access(2) with R_OK, and W_OK unless -r.
Accessible(f) == f \in Readable /\ (readonly \/ f \in Writable)

\* The command line also names one mountpoint (else the program exits).
Valid ==
    /\ imagefilename # NoFile
    /\ Accessible(imagefilename)
    /\ \A f \in Range(differencing) : Accessible(f)
    /\ diskType \in Types \cup {"auto"}

Validate ==
    /\ Goto("options", IF Valid THEN "detect" ELSE "exited")
    /\ UNCHANGED <<optionVars, chain>>

WrongMountpoint == Goto("options", "exited") /\ UNCHANGED <<optionVars, chain>>

\* detectDiskType: the types it may return; none when it exits.  Of a file with
\* fewer than eight bytes the buffer keeps what was on the stack.
DetectedTypes(f) ==
    LET h == Header[f]
    IN  {t \in Types : \/ h = "short"
                       \/ t = "VHD"  /\ h = "conectix"
                       \/ t = "VMDK" /\ h \in {"VMDK", "KDMV"}
                       \/ t = "VDI"  /\ h = "<<<"}

UndetectedExit(f, from) ==
    /\ Goto(from, "exited")
    /\ DetectedTypes(f) = {} \/ Header[f] = "short"
    /\ UNCHANGED <<optionVars, chain>>

Detect ==
    /\ Goto("detect", "open")
    /\ diskType' \in IF diskType = "auto" THEN DetectedTypes(imagefilename) ELSE {diskType}
    /\ UNCHANGED <<args, readonly, imagefilename, differencing, chain>>

DetectExit == diskType = "auto" /\ UndetectedExit(imagefilename, "detect")

\* Mutant: -r is not passed on to VDOpen.
DISKopen_rw(f, t) == chain' = Append(chain, [file |-> f, type |-> t, ro |-> FALSE])

\* DISKopen: VDOpen adds an image to the chain, in the mode -r asks for.
DISKopen(f, t) == chain' = Append(chain, [file |-> f, type |-> t, ro |-> readonly])

\* VDOpen accepts a file of the type it is told (and may fail for any reason).
OpenImage ==
    /\ Goto("open", "differencing")
    /\ Format[imagefilename] = diskType
    /\ DISKopen(imagefilename, diskType)
    /\ UNCHANGED optionVars

\* Mutant: the differencing images are stacked in the opposite order.
NextDifferencing_last == differencing[Len(differencing) + 1 - Len(chain)]

\* The differencing image to be opened next.
NextDifferencing == differencing[Len(chain)]

OpenDifferencing ==
    /\ pc = "differencing" /\ Len(chain) <= Len(differencing)
    /\ \E t \in DetectedTypes(NextDifferencing) :
          /\ Format[NextDifferencing] = t
          /\ DISKopen(NextDifferencing, t)
    /\ UNCHANGED <<optionVars, pc>>

DifferencingExit ==
    /\ pc = "differencing" /\ Len(chain) <= Len(differencing)
    /\ UndetectedExit(NextDifferencing, "differencing")

\* The VD interface cannot be set up, VDOpen fails, or the partition table of
\* the image is refused.
LibraryExit ==
    /\ pc \in {"open", "differencing", "table"} /\ pc' = "exited"
    /\ UNCHANGED <<optionVars, chain>>

OpenedAll ==
    /\ Len(chain) > Len(differencing)
    /\ Goto("differencing", "table")
    /\ UNCHANGED <<optionVars, chain>>

\* initialisePartitionTable returned; fuse_main mounts.
Mount == Goto("table", "mounted") /\ UNCHANGED <<optionVars, chain>>

Ended == pc \in {"mounted", "exited"} /\ UNCHANGED vars

Next ==
    \/ \E x \in Option : GetOption(x[1], x[2])
    \/ Validate \/ WrongMountpoint
    \/ Detect \/ DetectExit
    \/ OpenImage \/ OpenDifferencing \/ DifferencingExit \/ LibraryExit \/ OpenedAll
    \/ Mount
    \/ Ended

Spec == Init /\ [][Next]_vars

-----------------------------------------------------------------------------
(* Properties.                                                              *)

\* Every variable holds a value of its type; `differencing' is an array of
\* DIFFERENCING_MAX names and is never filled further.
TypeOK ==
    /\ args \in Seq(Option)
    /\ readonly \in BOOLEAN
    /\ diskType \in Types \cup {"auto", "raw", "bogus"}
    /\ imagefilename \in ImageFiles \cup {NoFile}
    /\ differencing \in Seq(ImageFiles) /\ Len(differencing) <= DIFFERENCING_MAX
    /\ chain \in Seq([file : ImageFiles, type : Types, ro : BOOLEAN])
    /\ pc \in {"options", "detect", "open", "differencing", "table", "mounted", "exited"}

\* The sequence files is what the options o among opts give, in their order: p
\* says which option each of them is from.
GivenInOrder(files, o, opts) ==
    \E p \in [1..Len(files) -> 1..Len(opts)] :
       /\ \A j, k \in 1..Len(files) : j < k => p[j] < p[k]
       /\ \A j \in 1..Len(files) : opts[p[j]] = <<o, files[j]>>
       /\ \A n \in 1..Len(opts) : opts[n][1] = o => \E j \in 1..Len(files) : p[j] = n

\* The last option o among opts gives f.
GivenLast(f, o, opts) ==
    \E n \in 1..Len(opts) :
       opts[n] = <<o, f>> /\ \A k \in (n + 1)..Len(opts) : opts[k][1] # o

Given(o, opts) == \E n \in 1..Len(opts) : opts[n][1] = o

\* What is mounted is what the command line asked for: the image of the last -f
\* under the images of every -s, in their order, each opened as the format it
\* has.
ChainAsGiven ==
    pc = "mounted" =>
       /\ Len(chain) > 0 /\ GivenLast(chain[1].file, "f", args)
       /\ GivenInOrder([j \in 1..(Len(chain) - 1) |-> chain[j + 1].file], "s", args)
       /\ \A j \in 1..Len(chain) : chain[j].type = Format[chain[j].file]

\* An image is opened for writing only when -r is given nowhere on the command
\* line, not even after -f, and only when the file may be written.
WritesAllowed ==
    \A j \in 1..Len(chain) : ~chain[j].ro => ~Given("r", args) /\ chain[j].file \in Writable
=============================================================================
