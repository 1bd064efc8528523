--------------------------- MODULE PartitionTable ---------------------------
(***************************************************************************)
(* initialisePartitionTable of vdfuse (vdfuseloop/vdfuse/src/vdfuse.c):    *)
(* from the master boot record, and the chain of extended boot records     *)
(* (EBRs) it points to, it fills the table that the FUSE callbacks search. *)
(* It runs once before the mount and again after every last close, when a  *)
(* client may have rewritten the image.                                    *)
(*                                                                         *)
(* Positions on the image are bytes; the offsets and sizes in descriptors  *)
(* are blocks.  A partition type is "empty" (0), "extended" (0x05, 0x0f or *)
(* 0x85) or "data" (any other); a signature is "none" (0), "dos" (0xaa55)  *)
(* or "other".                                                             *)
(***************************************************************************)
EXTENDS Integers, FiniteSets

CONSTANTS
    Images,              \* what the image may hold
    Garbage,             \* what the buffer `ebr' on the stack may hold at first
    DiskBytes,           \* DISKsize
    HOSTPARTITION_MAX,
    BLOCKSIZE,
    EBR_START            \* where the descriptors of a boot record start

UNALLOCATED == -1
Slots       == 0..HOSTPARTITION_MAX
Types       == {"empty", "data", "extended"}
Signatures  == {"none", "dos", "other"}

Descriptor == [type : Types, offset : Nat, size : Nat]
MBRblock   == [signature : Signatures, descriptor : [1..4 -> Descriptor]]
EBRentry   == [signature : Signatures, descriptor : Descriptor, chain : Descriptor]

\* An image: its first block, and the positions from where a read of one block
\* finds an EBR.
IsImage(m) ==
    /\ m.mbr \in MBRblock
    /\ DOMAIN m.ebr \subseteq Nat
    /\ \A x \in DOMAIN m.ebr : m.ebr[x] \in EBRentry

NoPartition == [type |-> "empty", offset |-> 0, size |-> 0]
Zeroes == [signature |-> "none", descriptor |-> NoPartition, chain |-> NoPartition]

\* What a block read from position x holds; elsewhere the image is zero.
BlockAt(m, x) == IF x \in DOMAIN m.ebr THEN m.ebr[x] ELSE Zeroes

ASSUME ImageAssumption ==
    /\ \A m \in Images : IsImage(m)
    /\ Garbage \subseteq EBRentry
    /\ DiskBytes \in Nat
    /\ HOSTPARTITION_MAX \in Nat /\ HOSTPARTITION_MAX >= 4
    /\ BLOCKSIZE \in Nat \ {0}
    /\ EBR_START \in Nat

VARIABLES
    image,
    table,           \* partitionTable
    lastPartition,
    entendedFlag,    \* the slot of the extended partition
    i,               \* the loop counter
    uOffset,
    ebr,
    pc               \* where the routine is

vars == <<image, table, lastPartition, entendedFlag, i, uOffset, ebr, pc>>

\* An entry of the table; `named' once its name is filled in.
Entry == [no : {UNALLOCATED} \cup Slots, offset : Nat, size : Nat, named : BOOLEAN]
Unallocated == [no |-> UNALLOCATED, offset |-> 0, size |-> 0, named |-> FALSE]
EntireDisk == [no |-> 0, offset |-> 0, size |-> DiskBytes, named |-> TRUE]

PCs == {"start", "mbr", "primary", "extended", "chain", "ebr", "names", "done",
        "exited"}

\* Static storage: all zero.
Init ==
    /\ image \in Images
    /\ table = [k \in Slots |-> [no |-> 0, offset |-> 0, size |-> 0, named |-> FALSE]]
    /\ lastPartition = 0
    /\ entendedFlag = UNALLOCATED
    /\ i = 0
    /\ uOffset = 0
    /\ ebr = Zeroes
    /\ pc = "start"

Goto(from, to) == pc = from /\ pc' = to

\* usageAndExit
Exit(from) ==
    /\ Goto(from, "exited")
    /\ UNCHANGED <<image, table, lastPartition, entendedFlag, i, uOffset, ebr>>

-----------------------------------------------------------------------------
\* Mutant: the table keeps the entries of the run before.
Begin_kept ==
    /\ Goto("start", "mbr")
    /\ table' = [table EXCEPT ![0] = EntireDisk]
    /\ entendedFlag' = UNALLOCATED
    /\ UNCHANGED <<image, lastPartition, i, uOffset, ebr>>

\* memset, the loop that marks every slot unallocated, and the entry of
\* EntireDisk.  (The loop runs one slot too far: in the default build the store
\* falls into unused bytes of the object after the table, and changes nothing.)
Begin ==
    /\ Goto("start", "mbr")
    /\ table' = [k \in Slots |-> IF k = 0 THEN EntireDisk ELSE Unallocated]
    /\ entendedFlag' = UNALLOCATED
    /\ UNCHANGED <<image, lastPartition, i, uOffset, ebr>>

Unformatted ==
    /\ image.mbr.signature = "none"
    /\ Goto("mbr", "done")
    /\ UNCHANGED <<image, table, lastPartition, entendedFlag, i, uOffset, ebr>>

InvalidMBR == image.mbr.signature = "other" /\ Exit("mbr")

ValidMBR ==
    /\ image.mbr.signature = "dos"
    /\ Goto("mbr", "primary")
    /\ i' = 1
    /\ UNCHANGED <<image, table, lastPartition, entendedFlag, uOffset, ebr>>

\* One turn of the loop over the four primary entries.
Turn(type) ==
    /\ Goto("primary", "primary")
    /\ i <= 4 /\ image.mbr.descriptor[i].type = type
    /\ i' = i + 1
    /\ UNCHANGED <<image, uOffset, ebr>>

PrimaryEmpty == Turn("empty") /\ UNCHANGED <<table, lastPartition, entendedFlag>>

PrimaryExtended ==
    /\ Turn("extended")
    /\ entendedFlag = UNALLOCATED
    /\ entendedFlag' = i
    /\ UNCHANGED <<table, lastPartition>>

SecondExtended ==
    /\ Exit("primary")
    /\ i <= 4 /\ image.mbr.descriptor[i].type = "extended"
    /\ entendedFlag # UNALLOCATED

\* The entry for slot k: descriptor d, found `base' bytes into the image.
Found(k, d, base) == [no |-> k, offset |-> base + d.offset * BLOCKSIZE,
                      size |-> d.size * BLOCKSIZE, named |-> FALSE]

PrimaryData ==
    /\ Turn("data")
    /\ table' = [table EXCEPT ![i] = Found(i, image.mbr.descriptor[i], 0)]
    /\ lastPartition' = i
    /\ UNCHANGED entendedFlag

PrimaryEnd ==
    /\ i > 4
    /\ Goto("primary", "extended")
    /\ UNCHANGED <<image, table, lastPartition, entendedFlag, i, uOffset, ebr>>

-----------------------------------------------------------------------------
(* The chain of EBRs.                                                       *)

uStart == image.mbr.descriptor[entendedFlag].offset * BLOCKSIZE

NoExtended ==
    /\ entendedFlag = UNALLOCATED
    /\ Goto("extended", "names")
    /\ UNCHANGED <<image, table, lastPartition, entendedFlag, i, uOffset, ebr>>

NoStart == entendedFlag # UNALLOCATED /\ uStart = 0 /\ Exit("extended")

EnterChain ==
    /\ entendedFlag # UNALLOCATED /\ uStart # 0
    /\ Goto("extended", "chain")
    /\ i' = 5
    /\ uOffset' = 0
    /\ ebr' \in Garbage
    /\ UNCHANGED <<image, table, lastPartition, entendedFlag>>

\* Mutant: the loop over the chain runs one slot too far.
ReadEBR_over ==
    /\ i <= HOSTPARTITION_MAX + 1
    /\ Goto("chain", "ebr")
    /\ lastPartition' = lastPartition + 1
    /\ LET x == uStart + uOffset + EBR_START
       IN  ebr' = IF x + BLOCKSIZE <= DiskBytes THEN BlockAt(image, x) ELSE ebr
    /\ UNCHANGED <<image, table, entendedFlag, i, uOffset>>

\* DISKread of one EBR.  Its result is not looked at: past the end of the disk
\* the read fails and the buffer keeps what it held.
ReadEBR ==
    /\ i <= HOSTPARTITION_MAX
    /\ Goto("chain", "ebr")
    /\ lastPartition' = lastPartition + 1
    /\ LET x == uStart + uOffset + EBR_START
       IN  ebr' = IF x + BLOCKSIZE <= DiskBytes THEN BlockAt(image, x) ELSE ebr
    /\ UNCHANGED <<image, table, entendedFlag, i, uOffset>>

ChainFull ==
    /\ i > HOSTPARTITION_MAX
    /\ Goto("chain", "names")
    /\ UNCHANGED <<image, table, lastPartition, entendedFlag, i, uOffset, ebr>>

ValidEBR(e) ==
    /\ e.signature = "dos"
    /\ e.descriptor.type # "empty"
    /\ e.descriptor.offset # 0

InvalidEBR == ~ValidEBR(ebr) /\ Exit("ebr")

\* Mutant: lastPartition only counts the entries.
TakeEBR_counted ==
    /\ ValidEBR(ebr)
    /\ table' = [table EXCEPT ![i] = Found(i, ebr.descriptor, uStart + uOffset)]
    /\ UNCHANGED <<image, lastPartition, entendedFlag, ebr>>

\* What the three ways to leave a valid EBR have in common: the entry is stored.
TakeEBR ==
    /\ ValidEBR(ebr)
    /\ table' = [table EXCEPT ![i] = Found(i, ebr.descriptor, uStart + uOffset)]
    /\ lastPartition' = i
    /\ UNCHANGED <<image, entendedFlag, ebr>>

LastLogical ==
    /\ ebr.chain.type = "empty"
    /\ Goto("ebr", "names")
    /\ TakeEBR
    /\ UNCHANGED <<i, uOffset>>

BrokenChain ==
    /\ ebr.chain.type = "data"
    /\ Goto("ebr", "exited")
    /\ TakeEBR
    /\ UNCHANGED <<i, uOffset>>

\* Mutant: the slot is not advanced, so that nothing bounds the loop.
NextLogical_unbounded ==
    /\ ebr.chain.type = "extended"
    /\ Goto("ebr", "chain")
    /\ TakeEBR
    /\ uOffset' = ebr.chain.offset
    /\ i' = i

\* The chain's offset, in blocks, becomes uOffset, in bytes.
NextLogical ==
    /\ ebr.chain.type = "extended"
    /\ Goto("ebr", "chain")
    /\ TakeEBR
    /\ uOffset' = ebr.chain.offset
    /\ i' = i + 1

-----------------------------------------------------------------------------
Named(e) == [no |-> e.no, offset |-> e.offset, size |-> e.size, named |-> TRUE]

\* The last loop fills in the names.
Names ==
    /\ Goto("names", "done")
    /\ table' = [k \in Slots |->
                   IF k \in 1..lastPartition /\ table[k].no # UNALLOCATED
                   THEN Named(table[k]) ELSE table[k]]
    /\ UNCHANGED <<image, lastPartition, entendedFlag, i, uOffset, ebr>>

\* The last file is closed; by then a client may have rewritten the image.
Reread ==
    /\ Goto("done", "start")
    /\ image' \in Images
    /\ UNCHANGED <<table, lastPartition, entendedFlag, i, uOffset, ebr>>

Exited == pc = "exited" /\ UNCHANGED vars

Step ==
    \/ Begin
    \/ Unformatted \/ InvalidMBR \/ ValidMBR
    \/ PrimaryEmpty \/ PrimaryExtended \/ SecondExtended \/ PrimaryData \/ PrimaryEnd
    \/ NoExtended \/ NoStart \/ EnterChain
    \/ ReadEBR \/ ChainFull \/ InvalidEBR
    \/ LastLogical \/ BrokenChain \/ NextLogical
    \/ Names

Next == Step \/ Reread \/ Exited

Spec == Init /\ [][Next]_vars

\* The routine runs to its end: it waits for nobody.
FairSpec == Spec /\ WF_vars(Step)

-----------------------------------------------------------------------------
(* The DOS partition format, as a definition of what the table should hold. *)

ExtendedOf(m) == {k \in 1..4 : m.mbr.descriptor[k].type = "extended"}
StartOf(m) == m.mbr.descriptor[CHOOSE k \in ExtendedOf(m) : TRUE].offset

\* The block of the n-th EBR: the chain counts from the extended partition.
EBRBlock(m) ==
    LET b[n \in Nat] ==
          IF n = 0 THEN StartOf(m)
          ELSE StartOf(m) + BlockAt(m, b[n - 1] * BLOCKSIZE).chain.offset
    IN  b

EBROf(m, n) == BlockAt(m, EBRBlock(m)[n] * BLOCKSIZE)

\* The n such that the chain of m ends properly with its n-th EBR.
ChainEnds(m) ==
    {n \in 0..(HOSTPARTITION_MAX - 5) :
        /\ EBROf(m, n).chain.type = "empty"
        /\ \A j \in 0..n : ValidEBR(EBROf(m, j))
        /\ \A j \in 0..(n - 1) : EBROf(m, j).chain.type = "extended"}

IsDos(m) ==
    /\ m.mbr.signature = "dos"
    /\ \/ ExtendedOf(m) = {}
       \/ Cardinality(ExtendedOf(m)) = 1 /\ StartOf(m) # 0 /\ ChainEnds(m) # {}

Logicals(m) == IF ExtendedOf(m) = {} THEN {}
               ELSE 0..(CHOOSE n \in ChainEnds(m) : TRUE)

FormatTable(m) ==
    [k \in Slots |->
       IF k = 0 THEN EntireDisk
       ELSE IF k \in 1..4 /\ m.mbr.descriptor[k].type = "data"
            THEN Named(Found(k, m.mbr.descriptor[k], 0))
       ELSE IF k > 4 /\ (k - 5) \in Logicals(m)
            THEN Named(Found(k, EBROf(m, k - 5).descriptor,
                             EBRBlock(m)[k - 5] * BLOCKSIZE))
       ELSE Unallocated]

-----------------------------------------------------------------------------
(* Properties.                                                              *)

\* Every variable holds a value of its type, and the slot that a partition is about
\* to be stored in is one of the table behind EntireDisk's, on every chain of EBRs.
\* (The wipe's own store past the table is not a state of its own here: see Begin.)
TypeOK ==
    /\ image \in Images
    /\ table \in [Slots -> Entry]
    /\ lastPartition \in Nat
    /\ entendedFlag \in {UNALLOCATED} \cup 1..4
    /\ i \in Nat
    /\ uOffset \in Nat
    /\ ebr \in EBRentry
    /\ pc \in PCs
    /\ pc = "primary" /\ i <= 4 => i \in Slots \ {0}
    /\ pc = "ebr" => i \in Slots \ 0..4

\* When the routine returns, findPartition and VD_readdir, which stop at
\* lastPartition and compare names, see every partition it found: also the
\* logical ones behind unused slots, and with the lastPartition of an earlier
\* run left in place.
AllVisible ==
    pc = "done" => \A k \in Slots : table[k].no # UNALLOCATED =>
                                       k <= lastPartition /\ table[k].named

\* A table that was accepted describes EntireDisk and the four primary entries of
\* the disk as it is now, whatever an earlier run left in the table and whatever the
\* chain of EBRs stored, and nothing else when there is no extended partition.
PrimariesDescribed ==
    pc = "done" =>
       /\ table[0] = EntireDisk
       /\ \A k \in 1..4 :
             LET d == image.mbr.descriptor[k]
             IN  table[k] = IF image.mbr.signature = "dos" /\ d.type = "data"
                            THEN Named(Found(k, d, 0)) ELSE Unallocated
       /\ image.mbr.signature = "none" \/ ExtendedOf(image) = {} =>
             \A k \in Slots : k > 4 => table[k] = Unallocated

\* The comment in initialisePartitionTable: "Now chain down any EBRs to process the
\* logical partition entries".  A DOS disk whose chain of EBRs is as the format
\* says is not refused, and is served with its logical partitions.
LogicalsServed ==
    IsDos(image) => /\ pc # "exited"
                    /\ pc = "done" => table = FormatTable(image)

\* The routine ends on every image, also when the chain of EBRs runs in a circle.
Terminates == pc = "start" ~> pc \in {"done", "exited"}
=============================================================================
