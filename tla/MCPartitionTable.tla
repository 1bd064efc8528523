-------------------------- MODULE MCPartitionTable --------------------------
(* Instances of PartitionTable for TLC: a disk of 16 blocks and a table with  *)
(* room for three logical partitions.                                         *)
EXTENDS PartitionTable, TLC

D(t, o, s) == [type |-> t, offset |-> o, size |-> s]
None == NoPartition

Mbr(sig, d1, d2, d3, d4) ==
    [signature |-> sig, descriptor |-> <<d1, d2, d3, d4>>]
Ebr(d, c) == [signature |-> "dos", descriptor |-> d, chain |-> c]

Disk(m, e) == [mbr |-> m, ebr |-> e]
NoEbr == [x \in {} |-> Zeroes]

\* Disks with primary partitions only, unformatted and foreign disks.
Plain ==
    {Disk(Mbr("none", None, None, None, None), NoEbr),
     Disk(Mbr("other", None, None, None, None), NoEbr),
     Disk(Mbr("dos", None, None, None, None), NoEbr),
     Disk(Mbr("dos", D("data", 1, 4), None, None, None), NoEbr),
     Disk(Mbr("dos", None, D("data", 2, 3), None, D("data", 6, 2)), NoEbr)}

\* An extended partition at block 4 in slot 2, beside a primary one.
WithExtended(e) ==
    Disk(Mbr("dos", D("data", 1, 2), D("extended", 4, 10), None, None), e)

\* The chains that the format allows: EBRs at the start of a block.
DosChains ==
    {WithExtended(4 * BLOCKSIZE :> Ebr(D("data", 1, 2), None)),
     WithExtended(4 * BLOCKSIZE :> Ebr(D("data", 1, 2), D("extended", 5, 4))
                  @@ 9 * BLOCKSIZE :> Ebr(D("data", 1, 3), None))}

\* Images with something like an EBR where the routine looks for one.
At(o) == 4 * BLOCKSIZE + o + EBR_START

OddChains ==
    {WithExtended(At(0) :> Ebr(D("data", 1, 2), None)),                    \* one
     WithExtended(At(0) :> Ebr(D("data", 1, 2), D("extended", 5, 4))       \* two
                  @@ At(5) :> Ebr(D("data", 1, 3), None)),
     WithExtended(At(0) :> Ebr(D("data", 1, 2), D("extended", 5, 4))       \* a circle
                  @@ At(5) :> Ebr(D("data", 1, 3), D("extended", 5, 4))),
     WithExtended(At(0) :> Ebr(D("data", 1, 2), D("extended", 9999, 4))),  \* off the disk
     WithExtended(At(0) :> Ebr(D("data", 1, 2), D("data", 5, 4))),         \* broken
     WithExtended(At(0) :> Ebr(D("empty", 1, 2), None)),
     WithExtended(At(0) :> Ebr(D("data", 0, 2), None)),
     Disk(Mbr("dos", D("extended", 4, 2), None, D("extended", 8, 2), None), NoEbr),
     Disk(Mbr("dos", D("extended", 0, 2), None, None, None), NoEbr),
     Disk(Mbr("dos", D("extended", 9999, 2), None, None, None), NoEbr)}

MCImages == Plain \cup DosChains \cup OddChains
MCGarbage == {Zeroes, Ebr(D("data", 7, 1), D("extended", 3, 1))}
=============================================================================
