------------------------------ MODULE MCVDFuse ------------------------------
(* Instances of VDFuse for TLC: an image of DiskSize units whose sector 0 is  *)
(* unit 0.                                                                    *)
EXTENDS VDFuse, TLC

\* Layouts over Partitions = {1}: a partition over the whole of a disk of two
\* units, the same partition moved and shrunk to one unit, an unformatted disk, a
\* foreign signature.
OnePartition(o, s) ==
    [sig |-> "mbr", part |-> [k \in Partitions |-> [no |-> k, offset |-> o, size |-> s]]]

NoPartition(g) == [sig |-> g, part |-> [k \in Partitions |-> Unallocated]]

MCLayouts == {OnePartition(0, 2), OnePartition(1, 1), NoPartition("blank"),
              NoPartition("bad")}

\* For the liveness run: a table that is read back, or found to be foreign.
MCLiveLayouts == {OnePartition(0, 1), NoPartition("bad")}

MCSymmetry == Permutations(Threads) \cup Permutations(Handles)
=============================================================================
