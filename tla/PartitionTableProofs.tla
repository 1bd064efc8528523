------------------------ MODULE PartitionTableProofs ------------------------
(***************************************************************************)
(* Type correctness, AllVisible and PrimariesDescribed of PartitionTable,  *)
(* for every set of images, size of the disk and size of the table.        *)
(*                                                                         *)
(* The argument: the slots are filled in ascending order, each store       *)
(* raising lastPartition to the slot, so that nothing allocated lies above *)
(* it; and the loop that names the slots goes up to lastPartition.  While  *)
(* the primary entries are looked at, the table holds what those seen so   *)
(* far say; the chain of EBRs stores behind them only.                     *)
(***************************************************************************)
EXTENDS PartitionTable, TLAPS

InUse(k) == table[k].no # UNALLOCATED

\* After the table was wiped, slot 0 is EntireDisk and stays so.
DiskInv == pc # "start" => table[0] = EntireDisk

\* Until the primary entries are looked at nothing else is in use.
WipedInv == pc = "mbr" => \A k \in Slots : InUse(k) => k = 0

\* While slots are filled those in use lie below the next one ...
FillInv ==
    pc \in {"primary", "extended", "chain", "ebr"}
       => i > 0 /\ \A k \in Slots : InUse(k) => k < i

\* ... and nothing in use lies above lastPartition.
LastInv == pc # "start" => \A k \in Slots : InUse(k) => k <= lastPartition

\* The loops stay in the table.
IndexInv ==
    /\ pc = "primary" => i \in 1..5
    /\ pc = "extended" => i = 5
    /\ pc = "chain" => i >= 5
    /\ pc = "ebr" => i \in 5..HOSTPARTITION_MAX
    /\ pc \in {"chain", "ebr"} => entendedFlag \in 1..4

IInv == TypeOK /\ DiskInv /\ WipedInv /\ FillInv /\ LastInv /\ IndexInv /\ AllVisible

-----------------------------------------------------------------------------
\* What BlockAt returns is an EBR.
LEMMA BlockAtType ==
    ASSUME NEW m \in Images, NEW x \in Nat
    PROVE  BlockAt(m, x) \in EBRentry
<1>1. Zeroes \in EBRentry
  BY DEF Zeroes, NoPartition, EBRentry, Descriptor, Signatures, Types
<1>2. QED
  BY <1>1, ImageAssumption DEF BlockAt, IsImage

\* The entry made for a slot is an entry in use, not named yet.
LEMMA FoundType ==
    ASSUME NEW k \in Slots, NEW d \in Descriptor, NEW base \in Nat
    PROVE  Found(k, d, base) \in Entry /\ Found(k, d, base).no = k
<1>1. d.offset \in Nat /\ d.size \in Nat
  BY DEF Descriptor
<1>2. d.offset * BLOCKSIZE \in Nat /\ d.size * BLOCKSIZE \in Nat
  BY <1>1, ImageAssumption
<1>3. base + d.offset * BLOCKSIZE \in Nat
  BY <1>2
<1>4. QED
  BY <1>2, <1>3 DEF Found, Entry

\* The descriptors of the first block of an image.
LEMMA PrimaryType ==
    ASSUME NEW m \in Images, NEW k \in 1..4
    PROVE  m.mbr.descriptor[k] \in Descriptor
<1>1. m.mbr \in MBRblock
  BY ImageAssumption DEF IsImage
<1>2. QED
  BY <1>1 DEF MBRblock

\* Before the first run the invariant asks for types only.
LEMMA InitIInv == Init => IInv
<1> SUFFICES ASSUME Init PROVE IInv
  OBVIOUS
<1>1. Zeroes \in EBRentry
  BY DEF Zeroes, NoPartition, EBRentry, Descriptor, Signatures, Types
<1>2. table \in [Slots -> Entry]
  BY ImageAssumption DEF Init, Entry, Slots
<1>3. TypeOK
  BY <1>1, <1>2 DEF Init, TypeOK, PCs
<1>4. QED
  BY <1>3 DEF Init, IInv, DiskInv, WipedInv, FillInv, LastInv, IndexInv, AllVisible

-----------------------------------------------------------------------------
\* The wipe leaves EntireDisk alone, with its name.
LEMMA BeginIInv == ASSUME IInv, Begin PROVE IInv'
<1> USE DEF Begin, Goto
<1>1. EntireDisk \in Entry /\ Unallocated \in Entry /\ EntireDisk.no = 0
      /\ EntireDisk.named /\ Unallocated.no = UNALLOCATED /\ 0 \in Slots
  BY ImageAssumption DEF EntireDisk, Unallocated, Entry, Slots
<1>2. TypeOK'
  BY <1>1 DEF IInv, TypeOK, PCs
<1>3. \A k \in Slots : table'[k].no # UNALLOCATED => k = 0
  BY <1>1
<1>4. QED
  BY <1>1, <1>2, <1>3 DEF IInv, TypeOK, DiskInv, WipedInv, FillInv, LastInv, IndexInv,
                          AllVisible, InUse

\* The steps that leave the table and lastPartition alone.
LEMMA QuietIInv ==
    ASSUME IInv, \/ Unformatted \/ InvalidMBR \/ ValidMBR \/ PrimaryEmpty
                 \/ PrimaryExtended \/ SecondExtended \/ PrimaryEnd
                 \/ NoExtended \/ NoStart \/ ChainFull \/ InvalidEBR
    PROVE  IInv'
<1> USE DEF Unformatted, InvalidMBR, ValidMBR, PrimaryEmpty, PrimaryExtended,
            SecondExtended, PrimaryEnd, NoExtended, NoStart, ChainFull,
            InvalidEBR, Turn, Exit, Goto
<1>1. UNCHANGED <<image, table, lastPartition, ebr, uOffset>>
  OBVIOUS
<1>2. TypeOK'
  <2>1. pc' = "primary" => i' \in 1..5
    BY DEF IInv, TypeOK, IndexInv
  <2>2. pc' = "primary" /\ i' <= 4 => i' \in Slots \ {0}
    BY <2>1, ImageAssumption DEF Slots
  <2>3. pc' # "ebr"
    OBVIOUS
  <2>4. QED
    BY <1>1, <2>2, <2>3 DEF IInv, TypeOK, PCs, IndexInv
<1>3. DiskInv' /\ WipedInv' /\ LastInv'
  BY <1>1 DEF IInv, DiskInv, WipedInv, LastInv, InUse
<1>4. FillInv'
  BY <1>1 DEF IInv, TypeOK, WipedInv, FillInv, InUse, Slots
<1>5. IndexInv'
  BY <1>1 DEF IInv, TypeOK, IndexInv
<1>6. AllVisible'
  BY <1>1 DEF IInv, AllVisible, WipedInv, DiskInv, EntireDisk, LastInv, InUse
<1>7. QED
  BY <1>2, <1>3, <1>4, <1>5, <1>6 DEF IInv

\* The steps that fill slot i.
LEMMA FillIInv ==
    ASSUME IInv, PrimaryData \/ LastLogical \/ BrokenChain \/ NextLogical
    PROVE  IInv'
<1> USE DEF PrimaryData, LastLogical, BrokenChain, NextLogical, TakeEBR, Turn, Goto
<1>1. i \in Slots /\ i > 0
  BY ImageAssumption DEF IInv, TypeOK, IndexInv, Slots
<1>2. PICK e \in Entry : e.no = i /\ table' = [table EXCEPT ![i] = e]
  <2>1. CASE PrimaryData
    <3>1. i \in 1..4 /\ image \in Images
      BY <2>1 DEF IInv, TypeOK, IndexInv
    <3>2. image.mbr.descriptor[i] \in Descriptor
      BY <3>1, PrimaryType
    <3>3. Found(i, image.mbr.descriptor[i], 0) \in Entry
          /\ Found(i, image.mbr.descriptor[i], 0).no = i
      BY <1>1, <3>2, FoundType
    <3>4. QED
      BY <2>1, <3>3
  <2>2. CASE LastLogical \/ BrokenChain \/ NextLogical
    <3>1. ebr.descriptor \in Descriptor
      BY DEF IInv, TypeOK, EBRentry
    <3>2. image.mbr.descriptor[entendedFlag] \in Descriptor
      BY <2>2, PrimaryType DEF IInv, TypeOK, IndexInv
    <3>3. image.mbr.descriptor[entendedFlag].offset \in Nat
      BY <3>2 DEF Descriptor
    <3>4. uStart \in Nat
      BY <3>3, ImageAssumption DEF uStart
    <3>5. uStart + uOffset \in Nat
      BY <3>4 DEF IInv, TypeOK
    <3>6. Found(i, ebr.descriptor, uStart + uOffset) \in Entry
          /\ Found(i, ebr.descriptor, uStart + uOffset).no = i
      BY <1>1, <3>1, <3>5, FoundType
    <3>7. QED
      BY <2>2, <3>6
  <2>3. QED
    BY <2>1, <2>2
<1>3. /\ lastPartition' = i
      /\ \A k \in Slots : table'[k].no # UNALLOCATED => k <= i
      /\ table'[0] = table[0]
  BY <1>1, <1>2 DEF IInv, TypeOK, FillInv, InUse, Slots
<1>4. /\ pc \in {"primary", "ebr"} /\ pc' \in {"primary", "names", "exited", "chain"}
      /\ pc' \in {"primary", "chain"} => i' = i + 1
      /\ pc' = "primary" => i \in 1..4
      /\ pc' = "chain" => i \in 5..HOSTPARTITION_MAX /\ entendedFlag' \in 1..4
  BY DEF IInv, TypeOK, IndexInv
<1>5. TypeOK'
  <2>1. uOffset' \in Nat
    BY DEF IInv, TypeOK, EBRentry, Descriptor
  <2>2. i' \in Nat
    BY DEF IInv, TypeOK
  <2>3. table' \in [Slots -> Entry]
    BY <1>2 DEF IInv, TypeOK
  <2>4. QED
    BY <1>1, <1>3, <1>4, <2>1, <2>2, <2>3, ImageAssumption DEF IInv, TypeOK, IndexInv, PCs, Slots
<1>6. QED
  BY <1>1, <1>3, <1>4, <1>5 DEF IInv, TypeOK, DiskInv, WipedInv, FillInv, LastInv, IndexInv,
                                AllVisible, InUse, Slots

\* Entering the chain and reading an EBR store nothing in the table.
LEMMA ChainIInv == ASSUME IInv, EnterChain \/ ReadEBR PROVE IInv'
<1> USE DEF EnterChain, ReadEBR, Goto
<1>1. ebr' \in EBRentry
  <2>1. CASE EnterChain
    BY <2>1, ImageAssumption
  <2>2. CASE ReadEBR
    <3>1. image.mbr.descriptor[entendedFlag] \in Descriptor
      BY <2>2, PrimaryType DEF IInv, TypeOK, IndexInv
    <3>2. image.mbr.descriptor[entendedFlag].offset \in Nat
      BY <3>1 DEF Descriptor
    <3>3. uStart \in Nat
      BY <3>2, ImageAssumption DEF uStart
    <3>4. uStart + uOffset + EBR_START \in Nat
      BY <3>3, ImageAssumption DEF IInv, TypeOK
    <3>5. QED
      BY <2>2, <3>4, BlockAtType DEF IInv, TypeOK
  <2>3. QED
    BY <2>1, <2>2
<1>2. TypeOK'
  BY <1>1, ImageAssumption DEF IInv, TypeOK, IndexInv, PCs, Slots
<1>3. QED
  BY <1>2 DEF IInv, TypeOK, DiskInv, WipedInv, FillInv, LastInv, IndexInv, AllVisible,
              InUse, Slots

\* The last loop names every slot up to lastPartition.
LEMMA NamesIInv == ASSUME IInv, Names PROVE IInv'
<1> USE DEF Names, Goto
<1>1. \A k \in Slots : /\ table'[k] \in Entry
                       /\ table'[k].no = table[k].no
                       /\ table[k].named => table'[k].named
                       /\ k \in 1..lastPartition /\ InUse(k) => table'[k].named
  BY DEF IInv, TypeOK, Entry, InUse, Named
<1>2. table' \in [Slots -> Entry]
  BY <1>1
<1>3. TypeOK'
  BY <1>2 DEF IInv, TypeOK, PCs
<1>4. table'[0] = EntireDisk /\ table'[0].named /\ 0 \in Slots
  BY ImageAssumption DEF IInv, TypeOK, DiskInv, EntireDisk, Slots
<1>5. AllVisible'
  BY <1>1, <1>4 DEF IInv, TypeOK, LastInv, AllVisible, InUse, Slots
<1>6. QED
  BY <1>1, <1>3, <1>4, <1>5 DEF IInv, DiskInv, WipedInv, FillInv, LastInv, IndexInv, InUse

\* Every step preserves the invariant, action by action.
LEMMA NextIInv == IInv /\ [Next]_vars => IInv'
<1> SUFFICES ASSUME IInv, [Next]_vars PROVE IInv'
  OBVIOUS
<1>1. CASE Step
  BY <1>1, BeginIInv, QuietIInv, FillIInv, ChainIInv, NamesIInv DEF Step
<1>2. CASE Reread
  BY <1>2 DEF Reread, Goto, IInv, TypeOK, PCs, DiskInv, WipedInv, FillInv, LastInv,
              IndexInv, AllVisible
<1>3. CASE UNCHANGED vars
  BY <1>3 DEF vars, IInv, TypeOK, DiskInv, WipedInv, FillInv, LastInv, IndexInv,
              AllVisible, InUse
<1>4. QED
  BY <1>1, <1>2, <1>3 DEF Next, Exited

\* IInv is an invariant of the routine.
THEOREM Invariance == Spec => []IInv
<1>1. QED
  BY InitIInv, NextIInv, PTL DEF Spec

\* Every variable of initialisePartitionTable keeps its type, and whatever the
\* image and its chain of EBRs, a partition is stored in a slot of the table.
THEOREM TypeCorrect == Spec => []TypeOK
<1>1. IInv => TypeOK
  BY DEF IInv
<1>2. QED
  BY <1>1, Invariance, PTL

\* When initialisePartitionTable returns, findPartition and VD_readdir see every
\* partition it found.
THEOREM VisibleCorrect == Spec => []AllVisible
<1>1. IInv => AllVisible
  BY DEF IInv
<1>2. QED
  BY <1>1, Invariance, PTL

-----------------------------------------------------------------------------
(* What an accepted table describes.                                        *)

\* EntireDisk and the primary entries below n, as the table holds them before they
\* are named.
Primaries(n) ==
    /\ table[0] = EntireDisk
    /\ \A k \in 1..4 :
          table[k] = IF k < n /\ image.mbr.descriptor[k].type = "data"
                     THEN Found(k, image.mbr.descriptor[k], 0) ELSE Unallocated

\* Nothing is stored behind the primary entries.
NoLogical == \A k \in Slots : k > 4 => table[k] = Unallocated

\* Before the chain the table holds the primary entries seen so far ...
PrimaryInv ==
    /\ pc = "mbr" => Primaries(0) /\ NoLogical
    /\ pc \in {"primary", "extended"} =>
          Primaries(i) /\ NoLogical /\ image.mbr.signature = "dos"

\* ... an extended one among them is what the flag is set for ...
FlagInv ==
    /\ pc = "mbr" => entendedFlag = UNALLOCATED
    /\ pc \in {"primary", "extended"} /\ entendedFlag # UNALLOCATED =>
          entendedFlag \in ExtendedOf(image)
    /\ pc \in {"primary", "extended"} /\ entendedFlag = UNALLOCATED =>
          \A k \in 1..4 : k < i => image.mbr.descriptor[k].type # "extended"

\* ... and the chain, which only such an entry starts, leaves them alone.
ChainInv ==
    /\ pc \in {"chain", "ebr", "names"} => Primaries(5) /\ image.mbr.signature = "dos"
    /\ pc \in {"chain", "ebr"} => ExtendedOf(image) # {}
    /\ pc = "names" /\ ExtendedOf(image) = {} => NoLogical

DInv == PrimaryInv /\ FlagInv /\ ChainInv /\ PrimariesDescribed

\* The slots of the primary entries.
LEMMA PrimarySlots == 0..4 \subseteq Slots /\ Slots \subseteq Nat
BY ImageAssumption DEF Slots

\* The wipe, and the two ways on from the signature.
LEMMA StartDInv ==
    ASSUME IInv, DInv, Begin \/ Unformatted \/ ValidMBR
    PROVE  DInv'
<1> USE DEF Goto
<1>1. CASE Begin
  <2>1. Primaries(0)' /\ NoLogical' /\ pc' = "mbr" /\ entendedFlag' = UNALLOCATED
    BY <1>1, PrimarySlots DEF Begin, Primaries, NoLogical
  <2>2. QED
    BY <2>1 DEF DInv, PrimaryInv, FlagInv, ChainInv, PrimariesDescribed
<1>2. CASE Unformatted
  <2>1. pc = "mbr" /\ pc' = "done" /\ UNCHANGED <<image, table>> /\ image.mbr.signature = "none"
    BY <1>2 DEF Unformatted
  <2>2. Primaries(0) /\ NoLogical
    BY <2>1 DEF DInv, PrimaryInv
  <2>3. PrimariesDescribed'
    BY <2>1, <2>2 DEF PrimariesDescribed, Primaries, NoLogical
  <2>4. QED
    BY <2>1, <2>3 DEF DInv, PrimaryInv, FlagInv, ChainInv
<1>3. CASE ValidMBR
  <2>1. /\ pc = "mbr" /\ pc' = "primary" /\ i' = 1 /\ UNCHANGED <<image, table, entendedFlag>>
        /\ image.mbr.signature = "dos"
    BY <1>3 DEF ValidMBR
  <2>2. Primaries(i)' /\ NoLogical'
    BY <2>1 DEF DInv, PrimaryInv, Primaries, NoLogical
  <2>3. FlagInv'
    BY <2>1 DEF DInv, FlagInv
  <2>4. QED
    BY <2>1, <2>2, <2>3 DEF DInv, PrimaryInv, ChainInv, PrimariesDescribed
<1>4. QED
  BY <1>1, <1>2, <1>3

\* One turn of the loop over the primary entries, and its end.
LEMMA PrimaryDInv ==
    ASSUME IInv, DInv, PrimaryEmpty \/ PrimaryExtended \/ PrimaryData \/ PrimaryEnd
    PROVE  DInv'
<1> USE DEF Goto
<1>1. CASE PrimaryEnd
  <2>1. /\ pc = "primary" /\ pc' = "extended" /\ UNCHANGED <<image, table, entendedFlag, i>>
    BY <1>1 DEF PrimaryEnd
  <2>2. QED
    BY <2>1 DEF DInv, PrimaryInv, FlagInv, ChainInv, PrimariesDescribed, Primaries, NoLogical
<1>2. CASE PrimaryEmpty \/ PrimaryExtended \/ PrimaryData
  <2>1. /\ i \in 1..4 /\ i' = i + 1 /\ pc' = "primary" /\ pc = "primary" /\ image' = image
        /\ Primaries(i) /\ NoLogical /\ image.mbr.signature = "dos"
    BY <1>2 DEF PrimaryEmpty, PrimaryExtended, PrimaryData, Turn, IInv, IndexInv, DInv, PrimaryInv
  <2>2. \A k \in 1..4 : k < i + 1 <=> k < i \/ k = i
    BY <2>1
  <2>3. Primaries(i)' /\ NoLogical'
    <3>1. CASE PrimaryEmpty \/ PrimaryExtended
      <4>1. table' = table /\ image.mbr.descriptor[i].type # "data"
        BY <3>1 DEF PrimaryEmpty, PrimaryExtended, Turn
      <4>2. QED
        BY <2>1, <2>2, <4>1 DEF Primaries, NoLogical
    <3>2. CASE PrimaryData
      <4>1. /\ table' = [table EXCEPT ![i] = Found(i, image.mbr.descriptor[i], 0)]
            /\ image.mbr.descriptor[i].type = "data"
        BY <3>2 DEF PrimaryData, Turn
      <4>2. /\ table'[i] = Found(i, image.mbr.descriptor[i], 0)
            /\ \A k \in Slots \ {i} : table'[k] = table[k]
        BY <2>1, <4>1, PrimarySlots DEF IInv, TypeOK
      <4>3. QED
        BY <2>1, <2>2, <4>1, <4>2, PrimarySlots DEF Primaries, NoLogical
    <3>3. QED
      BY <1>2, <3>1, <3>2
  <2>4. FlagInv'
    <3>1. CASE PrimaryExtended
      <4>1. entendedFlag' = i /\ image.mbr.descriptor[i].type = "extended" /\ i # UNALLOCATED
        BY <2>1, <3>1 DEF PrimaryExtended, Turn, UNALLOCATED
      <4>2. QED
        BY <2>1, <4>1 DEF FlagInv, ExtendedOf
    <3>2. CASE PrimaryEmpty \/ PrimaryData
      <4>1. entendedFlag' = entendedFlag /\ image.mbr.descriptor[i].type # "extended"
        BY <3>2 DEF PrimaryEmpty, PrimaryData, Turn
      <4>2. QED
        BY <2>1, <2>2, <4>1 DEF DInv, FlagInv, ExtendedOf
    <3>3. QED
      BY <1>2, <3>1, <3>2
  <2>5. QED
    BY <2>1, <2>3, <2>4 DEF DInv, PrimaryInv, ChainInv, PrimariesDescribed
<1>3. QED
  BY <1>1, <1>2

\* The steps of the chain, and the names.
LEMMA ChainDInv ==
    ASSUME IInv, DInv, \/ NoExtended \/ EnterChain \/ ReadEBR \/ ChainFull
                       \/ LastLogical \/ NextLogical \/ Names
    PROVE  DInv'
<1> USE DEF Goto
<1>1. CASE NoExtended
  <2>1. /\ pc = "extended" /\ pc' = "names" /\ i = 5 /\ UNCHANGED <<image, table>>
        /\ entendedFlag = UNALLOCATED
    BY <1>1 DEF NoExtended, IInv, IndexInv
  <2>2. QED
    BY <2>1 DEF DInv, PrimaryInv, FlagInv, ChainInv, PrimariesDescribed, Primaries, NoLogical
<1>2. CASE EnterChain
  <2>1. /\ pc = "extended" /\ pc' = "chain" /\ i = 5 /\ UNCHANGED <<image, table>>
        /\ entendedFlag # UNALLOCATED
    BY <1>2 DEF EnterChain, IInv, IndexInv
  <2>2. QED
    BY <2>1 DEF DInv, PrimaryInv, FlagInv, ChainInv, PrimariesDescribed, Primaries
<1>3. CASE ReadEBR \/ ChainFull
  <2>1. pc = "chain" /\ pc' \in {"ebr", "names"} /\ UNCHANGED <<image, table>>
    BY <1>3 DEF ReadEBR, ChainFull
  <2>2. QED
    BY <2>1 DEF DInv, PrimaryInv, FlagInv, ChainInv, PrimariesDescribed, Primaries
<1>4. CASE LastLogical \/ NextLogical
  <2>1. /\ pc = "ebr" /\ pc' \in {"names", "chain"} /\ image' = image
        /\ \E e : table' = [table EXCEPT ![i] = e]
    BY <1>4 DEF LastLogical, NextLogical, TakeEBR
  <2>2. \A k \in 0..4 : table'[k] = table[k]
    BY <2>1, PrimarySlots DEF IInv, TypeOK, IndexInv
  <2>3. Primaries(5)' /\ ExtendedOf(image)' # {}
    BY <2>1, <2>2 DEF DInv, ChainInv, Primaries, ExtendedOf
  <2>4. image'.mbr.signature = "dos"
    BY <2>1 DEF DInv, ChainInv
  <2>5. QED
    BY <2>1, <2>3, <2>4 DEF DInv, PrimaryInv, FlagInv, ChainInv, PrimariesDescribed
<1>5. CASE Names
  <2>1. /\ pc = "names" /\ pc' = "done" /\ image.mbr.signature = "dos" /\ image' = image
        /\ Primaries(5)
    BY <1>5 DEF Names, DInv, ChainInv
  <2>2. \A k \in Slots : table'[k] = IF k \in 1..lastPartition /\ table[k].no # UNALLOCATED
                                     THEN Named(table[k]) ELSE table[k]
    BY <1>5 DEF Names
  <2>3. table'[0] = EntireDisk
    BY <2>1, <2>2, PrimarySlots DEF Primaries
  <2>4. ASSUME NEW k \in 1..4
        PROVE  table'[k] = IF image.mbr.descriptor[k].type = "data"
                           THEN Named(Found(k, image.mbr.descriptor[k], 0)) ELSE Unallocated
    <3>1. CASE image.mbr.descriptor[k].type = "data"
      <4>1. table[k] = Found(k, image.mbr.descriptor[k], 0)
        BY <2>1, <3>1 DEF Primaries
      <4>2. table[k].no = k /\ k # UNALLOCATED
        BY <4>1 DEF Found, UNALLOCATED
      <4>3. k \in 1..lastPartition
        BY <2>1, <4>2, PrimarySlots DEF IInv, TypeOK, LastInv, InUse
      <4>4. QED
        BY <2>2, <3>1, <4>1, <4>2, <4>3, PrimarySlots
    <3>2. CASE image.mbr.descriptor[k].type # "data"
      <4>1. table[k] = Unallocated /\ table[k].no = UNALLOCATED
        BY <2>1, <3>2 DEF Primaries, Unallocated
      <4>2. QED
        BY <2>2, <3>2, <4>1, PrimarySlots
    <3>3. QED
      BY <3>1, <3>2
  <2>5. NoLogical => NoLogical'
    <3>1. Unallocated.no = UNALLOCATED
      BY DEF Unallocated
    <3>2. QED
      BY <2>2, <3>1 DEF NoLogical
  <2>6. PrimariesDescribed'
    BY <2>1, <2>3, <2>4, <2>5 DEF PrimariesDescribed, DInv, ChainInv, NoLogical, ExtendedOf
  <2>7. QED
    BY <2>1, <2>6 DEF DInv, PrimaryInv, FlagInv, ChainInv
<1>6. QED
  BY <1>1, <1>2, <1>3, <1>4, <1>5

\* DInv is an invariant together with IInv.
LEMMA NextDInv == IInv /\ DInv /\ [Next]_vars => DInv'
<1> SUFFICES ASSUME IInv, DInv, [Next]_vars PROVE DInv'
  OBVIOUS
<1>1. CASE InvalidMBR \/ SecondExtended \/ NoStart \/ InvalidEBR \/ BrokenChain
  <2>1. pc' = "exited"
    BY <1>1 DEF InvalidMBR, SecondExtended, NoStart, InvalidEBR, BrokenChain, Exit, Goto
  <2>2. QED
    BY <2>1 DEF DInv, PrimaryInv, FlagInv, ChainInv, PrimariesDescribed
<1>2. CASE Reread
  BY <1>2 DEF Reread, Goto, DInv, PrimaryInv, FlagInv, ChainInv, PrimariesDescribed
<1>3. CASE UNCHANGED vars
  BY <1>3 DEF vars, DInv, PrimaryInv, FlagInv, ChainInv, PrimariesDescribed, Primaries,
              NoLogical
<1>4. QED
  BY <1>1, <1>2, <1>3, StartDInv, PrimaryDInv, ChainDInv DEF Next, Step, Exited

\* A table that initialisePartitionTable accepts describes the primary entries of
\* the disk as it is now, for any images, any size of the disk and of the table and
\* any re-reading, also beside a chain of EBRs; it holds nothing else when the disk
\* has no extended partition.
THEOREM DiskDescribed == Spec => []PrimariesDescribed
<1>1. Init => DInv
  BY DEF Init, DInv, PrimaryInv, FlagInv, ChainInv, PrimariesDescribed
<1>2. DInv => PrimariesDescribed
  BY DEF DInv
<1>3. QED
  BY <1>1, <1>2, NextDInv, Invariance, PTL DEF Spec
=============================================================================
