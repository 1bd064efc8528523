---------------------------- MODULE VDMainProofs ----------------------------
(***************************************************************************)
(* Proofs about VDMain, for any files, any limit of differencing images    *)
(* and command lines of any length: type correctness, that the chain is    *)
(* what the command line gives, and that nothing is opened for writing     *)
(* that must not be.                                                       *)
(*                                                                         *)
(* The argument: while options are read the variables are what the options *)
(* so far give; afterwards neither changes, every name in them has passed  *)
(* access(2), and the chain grows along `differencing'.                    *)
(***************************************************************************)
EXTENDS VDMain, TLAPS

\* The variables hold what the options give.
OptionsInv ==
    pc # "exited" =>
       /\ imagefilename # NoFile => GivenLast(imagefilename, "f", args)
       /\ GivenInOrder(differencing, "s", args)
       /\ Given("r", args) => readonly

\* What was validated stays so.
ValidInv ==
    pc \notin {"options", "exited"} =>
       /\ imagefilename \in ImageFiles /\ Accessible(imagefilename)
       /\ \A j \in 1..Len(differencing) : Accessible(differencing[j])
       /\ diskType \in Types \cup {"auto"}
       /\ pc # "detect" => diskType \in Types

\* The chain is the image and the differencing images opened so far.
ChainInv ==
    /\ pc \in {"options", "detect", "open"} => chain = <<>>
    /\ pc \in {"differencing", "table", "mounted"} =>
          /\ 0 < Len(chain) /\ Len(chain) <= Len(differencing) + 1
          /\ chain[1].file = imagefilename
          /\ \A j \in 2..Len(chain) : chain[j].file = differencing[j - 1]
          /\ \A j \in 1..Len(chain) : chain[j].type = Format[chain[j].file]
    /\ pc \in {"table", "mounted"} => Len(chain) = Len(differencing) + 1

IInv == TypeOK /\ OptionsInv /\ ValidInv /\ ChainInv /\ WritesAllowed

PCs == {"options", "detect", "open", "differencing", "table", "mounted", "exited"}
Images == [file : ImageFiles, type : Types, ro : BOOLEAN]

-----------------------------------------------------------------------------
\* What detectDiskType returns is a type of image.
LEMMA DetectedTypesType == \A f \in ImageFiles : DetectedTypes(f) \subseteq Types
BY MainAssumption DEF DetectedTypes, Types, Headers

\* The steps that change neither the options nor the chain.
Moves == UNCHANGED <<optionVars, chain>>

LEMMA QuietSteps ==
    ASSUME Validate \/ WrongMountpoint \/ DetectExit \/ DifferencingExit \/ LibraryExit
             \/ OpenedAll \/ Mount \/ UNCHANGED vars
    PROVE  Moves
BY DEF Validate, WrongMountpoint, DetectExit, DifferencingExit, LibraryExit, OpenedAll, Mount,
       UndetectedExit, vars, Moves, optionVars

-----------------------------------------------------------------------------
(* Types.                                                                   *)

LEMMA TypeInit == Init => TypeOK
<1> SUFFICES ASSUME Init PROVE TypeOK
  OBVIOUS
<1>1. /\ args \in Seq(Option) /\ differencing \in Seq(ImageFiles)
      /\ chain \in Seq([file : ImageFiles, type : Types, ro : BOOLEAN])
  BY DEF Init
<1>2. Len(differencing) <= DIFFERENCING_MAX
  BY MainAssumption DEF Init
<1>3. /\ diskType \in Types \cup {"auto", "raw", "bogus"}
      /\ imagefilename \in ImageFiles \cup {NoFile}
      /\ pc \in {"options", "detect", "open", "differencing", "table", "mounted", "exited"}
  BY DEF Init
<1> QED
  BY <1>1, <1>2, <1>3 DEF Init, TypeOK

\* The parts of an option.
LEMMA OptionParts ==
    ASSUME NEW x \in Option
    PROVE  /\ x = <<x[1], x[2]>>
           /\ x[1] \in {"f", "s"} => x[2] \in ImageFiles
           /\ x[1] = "t" => x[2] \in Types \cup {"auto", "raw", "bogus"}
<1>1. CASE x \in {"r", "other", "h", "?"} \X {NoFile}
  BY <1>1
<1>2. CASE x \in {"f", "s"} \X ImageFiles
  BY <1>2
<1>3. CASE x \in {"t"} \X (Types \cup {"auto", "raw", "bogus"})
  BY <1>3
<1> QED
  BY <1>1, <1>2, <1>3 DEF Option

LEMMA TypeGetOption ==
    ASSUME TypeOK, NEW x \in Option, GetOption(x[1], x[2])
    PROVE  TypeOK'
<1> USE OptionParts, MainAssumption
<1>1. args' \in Seq(Option)
  <2>1. args' = Append(args, x)
    BY DEF GetOption
  <2> QED
    BY <2>1 DEF TypeOK
<1>2. readonly' \in BOOLEAN
  BY Zenon DEF TypeOK, GetOption
<1>3. diskType' \in Types \cup {"auto", "raw", "bogus"}
  BY DEF TypeOK, GetOption
<1>4. imagefilename' \in ImageFiles \cup {NoFile}
  BY DEF TypeOK, GetOption
<1>5. differencing' \in Seq(ImageFiles) /\ Len(differencing') <= DIFFERENCING_MAX
  <2>1. CASE x[1] = "s" /\ Len(differencing) # DIFFERENCING_MAX
    <3>1. differencing' = Append(differencing, x[2]) /\ x[2] \in ImageFiles
      BY <2>1 DEF GetOption, TooMany
    <3> QED
      BY <2>1, <3>1 DEF TypeOK
  <2>2. CASE x[1] # "s" \/ Len(differencing) = DIFFERENCING_MAX
    <3>1. differencing' = differencing
      BY <2>2 DEF GetOption, TooMany
    <3> QED
      BY <3>1 DEF TypeOK
  <2> QED
    BY <2>1, <2>2
<1>6. chain' = chain /\ pc' \in PCs
  BY DEF TypeOK, GetOption, PCs
<1> QED
  BY <1>1, <1>2, <1>3, <1>4, <1>5, <1>6 DEF TypeOK, PCs

\* DISKopen adds an image to the chain.
LEMMA TypeOpen ==
    ASSUME TypeOK, NEW f \in ImageFiles, NEW t \in Types, DISKopen(f, t)
    PROVE  chain' \in Seq(Images)
<1>1. [file |-> f, type |-> t, ro |-> readonly] \in Images
  BY DEF TypeOK, Images
<1> QED
  BY <1>1 DEF TypeOK, DISKopen, Images

LEMMA TypeStep == TypeOK /\ ValidInv /\ ChainInv /\ [Next]_vars => TypeOK'
<1> SUFFICES ASSUME TypeOK, ValidInv, ChainInv, [Next]_vars PROVE TypeOK'
  OBVIOUS
<1>1. CASE \E x \in Option : GetOption(x[1], x[2])
  BY <1>1, TypeGetOption
<1>2. CASE Detect
  <2>1. diskType' \in Types
    BY <1>2, DetectedTypesType DEF Detect, Goto, ValidInv
  <2> QED
    BY <1>2, <2>1 DEF Detect, Goto, TypeOK
<1>3. CASE OpenImage
  <2>1. imagefilename \in ImageFiles /\ diskType \in Types
    BY <1>3 DEF OpenImage, Goto, ValidInv
  <2> QED
    BY <1>3, <2>1, TypeOpen DEF OpenImage, Goto, TypeOK, optionVars, Images
<1>4. CASE OpenDifferencing
  <2>1. NextDifferencing \in ImageFiles
    BY <1>4 DEF OpenDifferencing, NextDifferencing, TypeOK, ChainInv
  <2> QED
    BY <1>4, <2>1, TypeOpen, DetectedTypesType DEF OpenDifferencing, TypeOK, optionVars, Images
<1>5. ASSUME Moves, pc' \in PCs PROVE TypeOK'
  BY <1>5 DEF Moves, optionVars, TypeOK, PCs
<1>6. CASE Validate \/ WrongMountpoint \/ DetectExit \/ DifferencingExit \/ LibraryExit
             \/ OpenedAll \/ Mount \/ UNCHANGED vars
  <2>1. pc' \in PCs
    BY <1>6 DEF Validate, WrongMountpoint, DetectExit, DifferencingExit, LibraryExit, OpenedAll,
                Mount, UndetectedExit, Goto, PCs, vars, TypeOK
  <2> QED
    BY <1>5, <1>6, <2>1, QuietSteps
<1> QED
  BY <1>1, <1>2, <1>3, <1>4, <1>6 DEF Next, Ended

-----------------------------------------------------------------------------
(* What one more option x makes of what the options opts give.              *)

\* An option of another letter changes nothing.
LEMMA OtherOption ==
    ASSUME NEW opts \in Seq(Option), NEW x \in Option, NEW o, x[1] # o
    PROVE  /\ \A f : GivenLast(f, o, opts) => GivenLast(f, o, Append(opts, x))
           /\ Given(o, Append(opts, x)) => Given(o, opts)
           /\ \A files : GivenInOrder(files, o, opts) => GivenInOrder(files, o, Append(opts, x))
<1> DEFINE new == Append(opts, x)
<1>1. /\ Len(opts) \in Nat /\ Len(new) = Len(opts) + 1
      /\ \A n \in 1..Len(opts) : new[n] = opts[n]
      /\ new[Len(opts) + 1] = x
  OBVIOUS
<1> HIDE DEF new
<1>2. ASSUME NEW f, GivenLast(f, o, opts) PROVE GivenLast(f, o, new)
  <2>1. PICK n \in 1..Len(opts) :
           opts[n] = <<o, f>> /\ \A k \in (n + 1)..Len(opts) : opts[k][1] # o
    BY <1>2 DEF GivenLast
  <2>2. n \in 1..Len(new) /\ new[n] = <<o, f>>
    BY <1>1, <2>1
  <2>3. ASSUME NEW k \in (n + 1)..Len(new) PROVE new[k][1] # o
    <3>1. \/ k \in 1..Len(opts) /\ k \in (n + 1)..Len(opts)
          \/ k = Len(opts) + 1
      BY <1>1
    <3> QED
      BY <1>1, <2>1, <3>1
  <2> QED
    BY <2>2, <2>3 DEF GivenLast
<1>3. Given(o, new) => Given(o, opts)
  <2> SUFFICES ASSUME NEW n \in 1..Len(new), new[n][1] = o PROVE Given(o, opts)
    BY DEF Given
  <2>1. n \in 1..Len(opts)
    BY <1>1
  <2> QED
    BY <1>1, <2>1 DEF Given
<1>4. ASSUME NEW files, GivenInOrder(files, o, opts) PROVE GivenInOrder(files, o, new)
  <2>1. PICK p \in [1..Len(files) -> 1..Len(opts)] :
           /\ \A j, k \in 1..Len(files) : j < k => p[j] < p[k]
           /\ \A j \in 1..Len(files) : opts[p[j]] = <<o, files[j]>>
           /\ \A n \in 1..Len(opts) : opts[n][1] = o => \E j \in 1..Len(files) : p[j] = n
    BY <1>4 DEF GivenInOrder
  <2>2. 1..Len(opts) \subseteq 1..Len(new)
    BY <1>1
  <2>3. p \in [1..Len(files) -> 1..Len(new)]
    BY <2>2
  <2>4. \A j \in 1..Len(files) : new[p[j]] = <<o, files[j]>>
    BY <1>1, <2>1
  <2>5. ASSUME NEW n \in 1..Len(new), new[n][1] = o PROVE \E j \in 1..Len(files) : p[j] = n
    <3>1. n \in 1..Len(opts)
      BY <1>1, <2>5
    <3> QED
      BY <1>1, <2>1, <2>5, <3>1
  <2> QED
    BY <2>1, <2>3, <2>4, <2>5 DEF GivenInOrder
<1> QED
  BY <1>2, <1>3, <1>4 DEF new

\* An option of the letter o is the last one, and its file the last of them.
LEMMA SameOption ==
    ASSUME NEW opts \in Seq(Option), NEW o, NEW f \in ImageFiles
    PROVE  /\ GivenLast(f, o, Append(opts, <<o, f>>))
           /\ \A files \in Seq(ImageFiles) : GivenInOrder(files, o, opts) =>
                 GivenInOrder(Append(files, f), o, Append(opts, <<o, f>>))
<1> DEFINE new == Append(opts, <<o, f>>)
<1>1. /\ Len(opts) \in Nat /\ Len(new) = Len(opts) + 1
      /\ \A n \in 1..Len(opts) : new[n] = opts[n]
      /\ new[Len(opts) + 1] = <<o, f>>
  OBVIOUS
<1> HIDE DEF new
<1>2. GivenLast(f, o, new)
  BY <1>1 DEF GivenLast
<1>3. ASSUME NEW files \in Seq(ImageFiles), GivenInOrder(files, o, opts)
      PROVE  GivenInOrder(Append(files, f), o, new)
  <2> DEFINE more == Append(files, f)
             q(p) == [j \in 1..Len(more) |-> IF j \in 1..Len(files) THEN p[j] ELSE Len(new)]
  <2>1. PICK p \in [1..Len(files) -> 1..Len(opts)] :
           /\ \A j, k \in 1..Len(files) : j < k => p[j] < p[k]
           /\ \A j \in 1..Len(files) : opts[p[j]] = <<o, files[j]>>
           /\ \A n \in 1..Len(opts) : opts[n][1] = o => \E j \in 1..Len(files) : p[j] = n
    BY <1>3 DEF GivenInOrder
  <2>2. /\ Len(files) \in Nat /\ Len(more) = Len(files) + 1
        /\ \A j \in 1..Len(files) : more[j] = files[j]
        /\ more[Len(files) + 1] = f
    OBVIOUS
  <2> HIDE DEF more
  <2>3. q(p) \in [1..Len(more) -> 1..Len(new)]
    BY <1>1, <2>1, <2>2
  <2>4. ASSUME NEW j \in 1..Len(more), NEW k \in 1..Len(more), j < k PROVE q(p)[j] < q(p)[k]
    <3>1. j \in 1..Len(files) /\ p[j] \in 1..Len(opts)
      BY <2>2, <2>4
    <3> QED
      BY <1>1, <2>1, <2>2, <2>4, <3>1
  <2>5. ASSUME NEW j \in 1..Len(more) PROVE new[q(p)[j]] = <<o, more[j]>>
    <3>1. CASE j \in 1..Len(files)
      BY <1>1, <2>1, <2>2, <3>1
    <3>2. CASE j = Len(files) + 1
      BY <1>1, <2>2, <3>2
    <3> QED
      BY <2>2, <3>1, <3>2
  <2>6. ASSUME NEW n \in 1..Len(new), new[n][1] = o PROVE \E j \in 1..Len(more) : q(p)[j] = n
    <3>1. CASE n \in 1..Len(opts)
      <4>1. PICK j \in 1..Len(files) : p[j] = n
        BY <1>1, <2>1, <2>6, <3>1
      <4> QED
        BY <2>2, <4>1
    <3>2. CASE n = Len(new)
      BY <2>2, <3>2
    <3> QED
      BY <1>1, <3>1, <3>2
  <2> HIDE DEF q
  <2> QED
    BY <2>3, <2>4, <2>5, <2>6 DEF GivenInOrder, more
<1> QED
  BY <1>2, <1>3 DEF new

-----------------------------------------------------------------------------
(* The parts of the invariant.                                              *)

LEMMA InvInit == Init => OptionsInv /\ ValidInv /\ ChainInv /\ WritesAllowed
<1> SUFFICES ASSUME Init PROVE OptionsInv /\ ValidInv /\ ChainInv /\ WritesAllowed
  OBVIOUS
<1>1. Len(args) = 0 /\ Len(differencing) = 0 /\ Len(chain) = 0
  BY DEF Init
<1>2. GivenInOrder(differencing, "s", args)
  <2>1. [j \in {} |-> 0] \in [1..Len(differencing) -> 1..Len(args)]
    BY <1>1
  <2> QED
    BY <1>1, <2>1 DEF GivenInOrder
<1>3. ~Given("r", args)
  BY <1>1 DEF Given
<1>4. OptionsInv
  BY <1>2, <1>3 DEF Init, OptionsInv
<1>5. ValidInv /\ ChainInv
  BY DEF Init, ValidInv, ChainInv
<1>6. WritesAllowed
  BY <1>1 DEF WritesAllowed
<1> QED
  BY <1>4, <1>5, <1>6

\* The options after one turn of the getopt loop.
LEMMA OptionsGetOption ==
    ASSUME TypeOK, OptionsInv, NEW x \in Option, GetOption(x[1], x[2])
    PROVE  OptionsInv'
<1> SUFFICES ASSUME pc' # "exited"
             PROVE  /\ imagefilename' # NoFile => GivenLast(imagefilename', "f", args')
                    /\ GivenInOrder(differencing', "s", args')
                    /\ Given("r", args') => readonly'
  BY DEF OptionsInv
<1>1. /\ args \in Seq(Option) /\ differencing \in Seq(ImageFiles)
      /\ args' = Append(args, x) /\ x = <<x[1], x[2]>>
      /\ x[1] \in {"f", "s"} => x[2] \in ImageFiles
  BY OptionParts DEF TypeOK, GetOption
<1>2. /\ readonly' = (readonly \/ x[1] = "r")
      /\ imagefilename' = IF x[1] = "f" THEN x[2] ELSE imagefilename
      /\ differencing' = IF x[1] = "s" THEN Append(differencing, x[2]) ELSE differencing
  BY Zenon DEF GetOption
<1>3. /\ imagefilename # NoFile => GivenLast(imagefilename, "f", args)
      /\ GivenInOrder(differencing, "s", args)
      /\ Given("r", args) => readonly
  BY Zenon DEF OptionsInv, GetOption
<1>4. imagefilename' # NoFile => GivenLast(imagefilename', "f", args')
  <2>1. CASE x[1] = "f"
    BY <1>1, <1>2, <2>1, SameOption
  <2>2. CASE x[1] # "f"
    BY <1>1, <1>2, <1>3, <2>2, OtherOption
  <2> QED
    BY <2>1, <2>2
<1>5. GivenInOrder(differencing', "s", args')
  <2>1. CASE x[1] = "s"
    BY <1>1, <1>2, <1>3, <2>1, SameOption
  <2>2. CASE x[1] # "s"
    BY <1>1, <1>2, <1>3, <2>2, OtherOption
  <2> QED
    BY <2>1, <2>2
<1>6. Given("r", args') => readonly'
  <2>1. CASE x[1] = "r"
    BY Zenon, <1>2, <2>1
  <2>2. CASE x[1] # "r"
    <3>1. Given("r", args') => Given("r", args)
      BY <1>1, <2>2, OtherOption
    <3> QED
      BY Zenon, <1>2, <1>3, <3>1
  <2> QED
    BY <2>1, <2>2
<1> QED
  BY <1>4, <1>5, <1>6

LEMMA OptionsStep == IInv /\ [Next]_vars => OptionsInv'
<1> SUFFICES ASSUME IInv, [Next]_vars PROVE OptionsInv'
  OBVIOUS
<1>1. CASE \E x \in Option : GetOption(x[1], x[2])
  BY <1>1, OptionsGetOption DEF IInv
<1>2. ASSUME UNCHANGED <<args, readonly, imagefilename, differencing>>,
             pc' # "exited" => pc # "exited"
      PROVE  OptionsInv'
  BY <1>2 DEF IInv, OptionsInv
<1>3. CASE Detect \/ OpenImage \/ OpenDifferencing
  BY <1>2, <1>3 DEF Detect, OpenImage, OpenDifferencing, Goto, optionVars
<1>4. CASE Validate \/ WrongMountpoint \/ DetectExit \/ DifferencingExit \/ LibraryExit
             \/ OpenedAll \/ Mount \/ UNCHANGED vars
  <2>1. Moves
    BY <1>4, QuietSteps
  <2>2. pc' # "exited" => pc # "exited"
    BY <1>4 DEF Validate, WrongMountpoint, DetectExit, DifferencingExit, LibraryExit, OpenedAll,
                Mount, UndetectedExit, Goto, vars
  <2> QED
    BY <1>2, <2>1, <2>2 DEF Moves, optionVars
<1> QED
  BY <1>1, <1>3, <1>4 DEF Next, Ended

LEMMA ValidStep == IInv /\ [Next]_vars => ValidInv'
<1> SUFFICES ASSUME IInv, [Next]_vars, pc' \notin {"options", "exited"} PROVE ValidInv'
  BY DEF ValidInv
<1>1. CASE \E x \in Option : GetOption(x[1], x[2])
  BY <1>1 DEF GetOption
<1>2. CASE Validate
  <2>1. Valid /\ pc' = "detect" /\ Moves
    BY <1>2, QuietSteps DEF Validate, Goto
  <2>2. \A j \in 1..Len(differencing) : Accessible(differencing[j])
    BY <2>1 DEF Valid, Range
  <2>3. imagefilename \in ImageFiles
    BY <2>1 DEF Valid, IInv, TypeOK
  <2> QED
    BY <2>1, <2>2, <2>3 DEF Valid, ValidInv, Accessible, Moves, optionVars
<1>3. CASE Detect
  <2>1. diskType' \in Types
    BY <1>3, DetectedTypesType DEF Detect, Goto, ValidInv, IInv
  <2> QED
    BY <1>3, <2>1 DEF Detect, Goto, ValidInv, IInv, Accessible
<1>4. ASSUME UNCHANGED optionVars, pc \notin {"options", "exited"}, pc' # "detect",
             pc # "detect"
      PROVE  ValidInv'
  BY <1>4 DEF ValidInv, IInv, Accessible, optionVars
<1>5. CASE OpenImage \/ OpenDifferencing \/ OpenedAll \/ Mount
  BY <1>4, <1>5 DEF OpenImage, OpenDifferencing, OpenedAll, Mount, Goto
<1>6. CASE WrongMountpoint \/ DetectExit \/ DifferencingExit \/ LibraryExit
  BY <1>6 DEF WrongMountpoint, DetectExit, DifferencingExit, LibraryExit, UndetectedExit, Goto
<1>7. CASE UNCHANGED vars
  BY <1>7 DEF ValidInv, IInv, Accessible, vars
<1> QED
  BY <1>1, <1>2, <1>3, <1>5, <1>6, <1>7 DEF Next, Ended

\* What DISKopen appends, and that the rest of the chain stays.
LEMMA Appended ==
    ASSUME TypeOK, NEW f \in ImageFiles, NEW t \in Types, DISKopen(f, t)
    PROVE  /\ Len(chain') = Len(chain) + 1 /\ Len(chain) \in Nat
           /\ \A j \in 1..Len(chain) : chain'[j] = chain[j]
           /\ chain'[Len(chain) + 1] = [file |-> f, type |-> t, ro |-> readonly]
<1> DEFINE new == [file |-> f, type |-> t, ro |-> readonly]
<1>1. new \in Images
  BY DEF TypeOK, Images
<1>2. chain \in Seq(Images) /\ chain' = Append(chain, new)
  BY DEF TypeOK, DISKopen, Images
<1> HIDE DEF new
<1>3. /\ Len(chain') = Len(chain) + 1 /\ Len(chain) \in Nat
      /\ \A j \in 1..Len(chain) : chain'[j] = chain[j]
      /\ chain'[Len(chain) + 1] = new
  BY <1>1, <1>2
<1> QED
  BY <1>3 DEF new

\* Which image a step opens.
LEMMA Opens ==
    ASSUME IInv, OpenImage \/ OpenDifferencing
    PROVE  \E f \in ImageFiles, t \in Types :
              /\ DISKopen(f, t) /\ Accessible(f) /\ Format[f] = t
              /\ OpenImage => f = imagefilename /\ chain = <<>>
              /\ OpenDifferencing => f = differencing[Len(chain)]
<1>1. CASE OpenImage
  <2>1. /\ imagefilename \in ImageFiles /\ diskType \in Types
        /\ Accessible(imagefilename) /\ chain = <<>>
    BY <1>1 DEF OpenImage, Goto, ValidInv, ChainInv, IInv
  <2>2. ~OpenDifferencing
    BY <1>1 DEF OpenImage, OpenDifferencing, Goto
  <2> QED
    BY <1>1, <2>1, <2>2 DEF OpenImage
<1>2. CASE OpenDifferencing
  <2>1. Len(chain) \in 1..Len(differencing)
    BY <1>2 DEF OpenDifferencing, IInv, ChainInv, TypeOK
  <2>2. NextDifferencing \in ImageFiles /\ Accessible(NextDifferencing)
    BY <1>2, <2>1 DEF OpenDifferencing, NextDifferencing, IInv, ValidInv, TypeOK
  <2>3. ~OpenImage
    BY <1>2 DEF OpenImage, OpenDifferencing, Goto
  <2>4. PICK t \in DetectedTypes(NextDifferencing) :
           Format[NextDifferencing] = t /\ DISKopen(NextDifferencing, t)
    BY <1>2 DEF OpenDifferencing
  <2> QED
    BY <2>2, <2>3, <2>4, DetectedTypesType DEF NextDifferencing
<1> QED
  BY <1>1, <1>2

LEMMA ChainOpen ==
    ASSUME IInv, OpenImage \/ OpenDifferencing
    PROVE  ChainInv'
<1>1. PICK f \in ImageFiles, t \in Types :
         /\ DISKopen(f, t) /\ Accessible(f) /\ Format[f] = t
         /\ OpenImage => f = imagefilename /\ chain = <<>>
         /\ OpenDifferencing => f = differencing[Len(chain)]
  BY Opens
<1>2. /\ Len(chain') = Len(chain) + 1 /\ Len(chain) \in Nat
      /\ \A j \in 1..Len(chain) : chain'[j] = chain[j]
      /\ chain'[Len(chain) + 1] = [file |-> f, type |-> t, ro |-> readonly]
  BY <1>1, Appended DEF IInv
<1>3. /\ imagefilename' = imagefilename /\ differencing' = differencing
      /\ pc' = "differencing" /\ Len(differencing) \in Nat
  BY DEF OpenImage, OpenDifferencing, Goto, optionVars, IInv, TypeOK
<1>4. CASE OpenImage
  <2>1. Len(chain) = 0
    BY <1>1, <1>4
  <2> QED
    BY <1>1, <1>2, <1>3, <1>4, <2>1 DEF ChainInv
<1>5. CASE OpenDifferencing
  <2>1. /\ 0 < Len(chain) /\ Len(chain) <= Len(differencing)
        /\ chain[1].file = imagefilename
        /\ \A j \in 2..Len(chain) : chain[j].file = differencing[j - 1]
        /\ \A j \in 1..Len(chain) : chain[j].type = Format[chain[j].file]
    BY <1>5 DEF OpenDifferencing, IInv, ChainInv
  <2>2. \A j \in 2..Len(chain') : chain'[j].file = differencing[j - 1]
    <3> SUFFICES ASSUME NEW j \in 2..Len(chain') PROVE chain'[j].file = differencing[j - 1]
      OBVIOUS
    <3>1. CASE j \in 2..Len(chain)
      BY <1>2, <2>1, <3>1
    <3>2. CASE j = Len(chain) + 1
      BY <1>1, <1>2, <1>5, <3>2
    <3> QED
      BY <1>2, <3>1, <3>2
  <2>3. \A j \in 1..Len(chain') : chain'[j].type = Format[chain'[j].file]
    <3> SUFFICES ASSUME NEW j \in 1..Len(chain') PROVE chain'[j].type = Format[chain'[j].file]
      OBVIOUS
    <3>1. CASE j \in 1..Len(chain)
      BY <1>2, <2>1, <3>1
    <3>2. CASE j = Len(chain) + 1
      BY <1>1, <1>2, <3>2
    <3> QED
      BY <1>2, <3>1, <3>2
  <2>4. chain'[1].file = imagefilename
    BY <1>2, <2>1
  <2> QED
    BY <1>2, <1>3, <2>1, <2>2, <2>3, <2>4 DEF ChainInv
<1> QED
  BY <1>4, <1>5

LEMMA ChainStep == IInv /\ [Next]_vars => ChainInv'
<1> SUFFICES ASSUME IInv, [Next]_vars PROVE ChainInv'
  OBVIOUS
<1>1. CASE OpenImage \/ OpenDifferencing
  BY <1>1, ChainOpen
<1>2. CASE (\E x \in Option : GetOption(x[1], x[2])) \/ Validate \/ Detect
  BY <1>2 DEF GetOption, Validate, Detect, Goto, IInv, ChainInv
<1>3. CASE WrongMountpoint \/ DetectExit \/ DifferencingExit \/ LibraryExit
  <2>1. pc' = "exited"
    BY <1>3 DEF WrongMountpoint, DetectExit, DifferencingExit, LibraryExit, UndetectedExit, Goto
  <2> QED
    BY <2>1 DEF ChainInv
<1>4. CASE OpenedAll
  <2>1. Len(chain) = Len(differencing) + 1
    BY <1>4 DEF OpenedAll, Goto, IInv, ChainInv, TypeOK
  <2> QED
    BY <1>4, <2>1 DEF OpenedAll, Goto, optionVars, IInv, ChainInv
<1>5. CASE Mount \/ UNCHANGED vars
  BY <1>5 DEF Mount, Goto, optionVars, vars, IInv, ChainInv
<1> QED
  BY <1>1, <1>2, <1>3, <1>4, <1>5 DEF Next, Ended

\* An image is opened only after access(2) granted what DISKopen asks for.
LEMMA WritesStep == IInv /\ [Next]_vars => WritesAllowed'
<1> SUFFICES ASSUME IInv, [Next]_vars PROVE WritesAllowed'
  OBVIOUS
<1>1. CASE OpenImage \/ OpenDifferencing
  <2>1. PICK f \in ImageFiles, t \in Types : DISKopen(f, t) /\ Accessible(f)
    BY <1>1, Opens
  <2>2. /\ Len(chain') = Len(chain) + 1 /\ Len(chain) \in Nat
        /\ \A j \in 1..Len(chain) : chain'[j] = chain[j]
        /\ chain'[Len(chain) + 1] = [file |-> f, type |-> t, ro |-> readonly]
    BY <2>1, Appended DEF IInv
  <2>3. args' = args /\ (~readonly => ~Given("r", args) /\ f \in Writable)
    BY Zenon, <1>1, <2>1 DEF OpenImage, OpenDifferencing, Goto, optionVars, IInv, OptionsInv,
                             Accessible
  <2> SUFFICES ASSUME NEW j \in 1..Len(chain'), ~chain'[j].ro
               PROVE  ~Given("r", args) /\ chain'[j].file \in Writable
    BY <2>3 DEF WritesAllowed
  <2>4. CASE j \in 1..Len(chain)
    BY <2>2, <2>4 DEF IInv, WritesAllowed
  <2>5. CASE j = Len(chain) + 1
    BY <2>2, <2>3, <2>5
  <2> QED
    BY <2>2, <2>4, <2>5
<1>2. CASE \E x \in Option : GetOption(x[1], x[2])
  <2>1. Len(chain') = 0
    BY <1>2 DEF GetOption, IInv, ChainInv
  <2> QED
    BY <2>1 DEF WritesAllowed
<1>3. ASSUME args' = args, chain' = chain PROVE WritesAllowed'
  BY <1>3 DEF IInv, WritesAllowed
<1>4. CASE Detect
  BY <1>3, <1>4 DEF Detect
<1>5. CASE Validate \/ WrongMountpoint \/ DetectExit \/ DifferencingExit \/ LibraryExit
             \/ OpenedAll \/ Mount \/ UNCHANGED vars
  BY <1>3, <1>5, QuietSteps DEF Moves, optionVars
<1> QED
  BY <1>1, <1>2, <1>4, <1>5 DEF Next, Ended

-----------------------------------------------------------------------------
LEMMA Invariance == Spec => []IInv
<1>1. Init => IInv
  BY TypeInit, InvInit DEF IInv
<1>2. IInv /\ [Next]_vars => IInv'
  BY TypeStep, OptionsStep, ValidStep, ChainStep, WritesStep DEF IInv
<1> QED
  BY <1>1, <1>2, PTL DEF Spec

\* Every variable of main keeps its type; the array of differencing images is
\* never filled beyond DIFFERENCING_MAX, however many -s are given.
THEOREM TypeCorrect == Spec => []TypeOK
<1>1. IInv => TypeOK
  BY DEF IInv
<1> QED
  BY <1>1, Invariance, PTL

\* The mounted chain is the image of the last -f under those of every -s in the
\* order given, each opened as the format it has.
THEOREM ChainIsAsGiven == Spec => []ChainAsGiven
<1>1. IInv => ChainAsGiven
  <2> SUFFICES ASSUME IInv, pc = "mounted"
               PROVE  /\ Len(chain) > 0 /\ GivenLast(chain[1].file, "f", args)
                      /\ GivenInOrder([j \in 1..(Len(chain) - 1) |-> chain[j + 1].file], "s", args)
                      /\ \A j \in 1..Len(chain) : chain[j].type = Format[chain[j].file]
    BY DEF ChainAsGiven
  <2>1. /\ Len(chain) = Len(differencing) + 1 /\ Len(differencing) \in Nat
        /\ chain[1].file = imagefilename
        /\ \A j \in 2..Len(chain) : chain[j].file = differencing[j - 1]
        /\ \A j \in 1..Len(chain) : chain[j].type = Format[chain[j].file]
    BY DEF IInv, ChainInv, TypeOK
  <2>2. imagefilename # NoFile
    BY MainAssumption DEF IInv, ValidInv
  <2>3. GivenLast(imagefilename, "f", args) /\ GivenInOrder(differencing, "s", args)
    BY <2>2 DEF IInv, OptionsInv
  <2>4. [j \in 1..(Len(chain) - 1) |-> chain[j + 1].file] = differencing
    <3>1. differencing = [j \in 1..Len(differencing) |-> differencing[j]]
      BY DEF IInv, TypeOK
    <3>2. ASSUME NEW j \in 1..Len(differencing) PROVE chain[j + 1].file = differencing[j]
      <4>1. j + 1 \in 2..Len(chain) /\ (j + 1) - 1 = j
        BY <2>1
      <4> QED
        BY <2>1, <4>1
    <3>3. Len(chain) - 1 = Len(differencing)
      BY <2>1
    <3> QED
      BY <3>1, <3>2, <3>3
  <2>5. GivenInOrder([j \in 1..(Len(chain) - 1) |-> chain[j + 1].file], "s", args)
    BY Zenon, <2>3, <2>4
  <2>6. Len(chain) > 0
    BY <2>1
  <2> QED
    BY <2>1, <2>3, <2>5, <2>6
<1> QED
  BY <1>1, Invariance, PTL

\* Whatever is opened for writing is a file access(2) lets main write, and -r was
\* given nowhere on the command line.
THEOREM WritesAreAllowed == Spec => []WritesAllowed
<1>1. IInv => WritesAllowed
  BY DEF IInv
<1> QED
  BY <1>1, Invariance, PTL
=============================================================================
