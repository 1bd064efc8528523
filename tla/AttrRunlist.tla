---------------------------- MODULE AttrRunlist ----------------------------
(***************************************************************************)
(* A non-resident attribute of ntfs-3g (libntfs-3g/attrib.c): its clusters *)
(* are recorded on the disk in extents of mapping pairs, one to an MFT     *)
(* record, and in memory in a runlist that is completed extent by extent,  *)
(* as parts of the attribute are used.  Writing into a hole and changing   *)
(* the size merge into, or cut, the runlist in memory and bring the        *)
(* extents up to date, from the extent of the first change on.             *)
(***************************************************************************)
EXTENDS RunList, FiniteSets

CONSTANTS
    MaxClusters,    \* bound: clusters of the attribute
    Lcns,           \* clusters of the volume that it may get
    Room,           \* bytes for mapping pairs in an MFT record
    MayFail         \* whether no new MFT record may be had

ASSUME AttrAssumption ==
    /\ MaxClusters \in Nat \ {0} /\ Room \in Nat /\ MayFail \in BOOLEAN
    /\ Lcns \subseteq Nat /\ IsFiniteSet(Lcns) /\ Cardinality(Lcns) >= MaxClusters

VARIABLES
    na,         \* the open attribute: its runlist rl, the flag FullyMapped,
                \* allocated_size and compressed_size in clusters, the sparse
                \* flag, the flag RunlistDirty
    disk,       \* its extents and the allocated_size of the base extent
    write,      \* a write in progress: update_from (-1: none) and the size to
                \* go back to (-1: none)
    file,       \* history: the LCN of each cluster, or LCN_HOLE
    refused,    \* history: a list could not be mapped or merged
    lost        \* history: what left the extents as they are after an update of
                \* the mapping pairs that failed ("no": nothing did)

vars == <<na, disk, write, file, refused, lost>>

NoWrite == [on |-> FALSE, update_from |-> -1, undo |-> -1]

Extent(v, h, p) == [lowest |-> v, highest |-> h, pairs |-> p]

Free == Lcns \ {file[j] : j \in 1 .. Len(file)}

\* ntfs_attr_open: nothing is mapped yet.
Opened(a, s, c) ==
    [rl |-> NULL, full |-> FALSE, alloc |-> a, sparse |-> s, csize |-> c, dirty |-> FALSE]

\* An attribute of one cluster.
Init ==
    /\ \E l \in Lcns :
          /\ file = <<l>>
          /\ disk = [ext |-> <<Extent(0, 0, <<Pair(<<Run(0, l, 1)>>, 1)>>)>>, alloc |-> 1]
    /\ na = Opened(1, FALSE, 0)
    /\ write = NoWrite
    /\ refused = FALSE /\ lost = "no"

-----------------------------------------------------------------------------
(***************************************************************************)
(* Mapping, from the extents d.  Each operator gives the attribute a      *)
(* afterwards, with ok; one that fails leaves it alone.                    *)
(***************************************************************************)
\* ntfs_attr_lookup with a lowest_vcn.
Lookup(d, vcn) ==
    CHOOSE i \in 1 .. Len(d.ext) :
       /\ d.ext[i].lowest <= vcn
       /\ i < Len(d.ext) => d.ext[i + 1].lowest > vcn

\* The list new of an extent merged into rl.
MergedInto(rl, new) == IF new = NULL THEN NULL ELSE ntfs_runlists_merge(rl, new)
Decompressed(d, rl, i) == MergedInto(rl, ntfs_mapping_pairs_decompress(d.ext[i], d.alloc))

WithList(a, rl) == [ok |-> rl # NULL, a |-> IF rl = NULL THEN a ELSE [a EXCEPT !.rl = rl]]

ntfs_attr_map_runlist(a, d, vcn) ==
    IF ntfs_rl_vcn_to_lcn(a.rl, vcn) # LCN_RL_NOT_MAPPED THEN [ok |-> TRUE, a |-> a]
    ELSE WithList(a, Decompressed(d, a.rl, Lookup(d, vcn)))

\* Mutant: an extent that is mapped is mapped again.
NotMapped_always(rl, vcn) == TRUE

\* Only what is not in the list yet is decoded and merged.
NotMapped(rl, vcn) == ntfs_rl_vcn_to_lcn(rl, vcn) = LCN_RL_NOT_MAPPED

\* From the extent of vcn to the end: s is the state of the loop, e an extent
\* (its list new if it was not mapped), rl the list with it.
PartialStep(s, e, last, new, rl) ==
    [rl |-> IF new /\ e.highest < s.needed /\ e.highest + 1 < last THEN NULL ELSE rl,
     seen |-> TRUE, done |-> e.highest < s.needed, new |-> new, needed |-> e.highest + 1,
     startseen |-> s.startseen \/ e.lowest = 0]

PartiallyMapped(a, s) ==
    IF s.rl = NULL \/ (s.done /\ s.new /\ s.needed < a.alloc) THEN [ok |-> FALSE, a |-> a]
    ELSE [ok |-> TRUE, a |-> [a EXCEPT !.rl = s.rl, !.full = @ \/ s.startseen]]

ntfs_attr_map_partial_runlist(a, d, vcn) ==
    LET first == Lookup(d, vcn)
        Step(s, i) ==
           IF s.done \/ (s.seen /\ (s.rl = NULL \/ s.needed >= a.alloc)) THEN s
           ELSE PartialStep(s, d.ext[i], a.alloc, NotMapped(s.rl, s.needed),
                            IF NotMapped(s.rl, s.needed) THEN Decompressed(d, s.rl, i) ELSE s.rl)
    IN  IF a.full THEN [ok |-> TRUE, a |-> a]
        ELSE PartiallyMapped(a,
                FoldLeft(Step, [rl |-> a.rl, seen |-> FALSE, done |-> FALSE, new |-> FALSE,
                                needed |-> vcn, startseen |-> FALSE],
                         [k \in 1 .. Len(d.ext) + 1 - first |-> first + k - 1]))

WhollyMapped(a, d, s) ==
    IF s.rl = NULL \/ (NotMapped(s.rl, s.next) /\ s.next # 1 /\ s.next # d.alloc)
    THEN [ok |-> FALSE, a |-> a]
    ELSE [ok |-> TRUE, a |-> [a EXCEPT !.rl = s.rl, !.full = TRUE]]

ntfs_attr_map_whole_runlist(a, d) ==
    LET Step(s, i) ==
           IF i > 1 /\ s.rl = NULL THEN s
           ELSE [rl |-> IF NotMapped(s.rl, s.next) THEN Decompressed(d, s.rl, i) ELSE s.rl,
                 next |-> d.ext[i].highest + 1]
    IN  IF a.full THEN [ok |-> TRUE, a |-> a]
        ELSE WhollyMapped(a, d, FoldLeft(Step, [rl |-> a.rl, next |-> 0],
                                         [i \in 1 .. Len(d.ext) |-> i]))

-----------------------------------------------------------------------------
(***************************************************************************)
(* ntfs_attr_update_mapping_pairs: the attribute and the disk afterwards,  *)
(* with ok.  more says whether new MFT records can be had.                 *)
(***************************************************************************)
Allocated(rl) == FoldLeft(LAMBDA n, r : IF r.lcn >= 0 THEN n + r.length ELSE n, 0, rl)

\* "For a file just been made sparse, we will have to reformat the first
\* extent", and for one that is not sparse any more: the clusters data_size of its
\* data are all allocated.
SparseChanged(a, data_size) ==
    IF a.sparse THEN a.csize = data_size
    ELSE \E i \in 1 .. Len(a.rl) : a.rl[i].length # 0 /\ a.rl[i].lcn = LCN_HOLE

\* ntfs_attr_update_meta, for the base extent.
UpdateMeta(a) ==
    LET s == ntfs_rl_sparse(a.rl) = 1
    IN  [a EXCEPT !.sparse = s, !.csize = IF a.full /\ s THEN Allocated(a.rl) ELSE @]

\* The record of an extent that starts at vcn, in room bytes.
Record(vcn, b) == [err |-> b.err, e |-> Extent(vcn, b.stop - 1, b.pairs), stop |-> b.stop]
Sized(rl, vcn, size, room) ==
    IF size <= 0 THEN [err |-> "EINVAL"]
    ELSE Record(vcn, ntfs_mapping_pairs_build(rl, vcn, IF size < room THEN size ELSE room))
Build(rl, vcn, room) == Sized(rl, vcn, ntfs_get_size_for_mapping_pairs(rl, vcn, room), room)

\* One extent is written, with the record b; rest is what there is from it on.
Rebuilt(s, rest, b) ==
    IF b.err = "EINVAL" THEN [s EXCEPT !.err = b.err, !.ext = @ \o rest]
    ELSE [err |-> b.err, fin |-> b.err = "", stop |-> b.stop, ext |-> Append(s.ext, b.e)]
WriteExtent(s, rl, rest) ==
    IF s.fin \/ s.err \notin {"", "ENOSPC"} THEN s
    ELSE Rebuilt(s, rest, Build(rl, s.stop, Room))

\* The extents there are from the one that starts at stop,
OldExtents(a, d, first, from, stop) ==
    FoldLeft(LAMBDA s, i : WriteExtent(s, a.rl, SubSeq(d.ext, i, Len(d.ext))),
             [err |-> IF first = 1 /\ ntfs_rl_sparse(a.rl) = -1 THEN "EIO" ELSE "",
              fin |-> /\ from # 0
                      /\ ntfs_rl_vcn_to_lcn(a.rl, stop) \in {LCN_ENOENT, LCN_RL_NOT_MAPPED},
              stop |-> stop, ext |-> SubSeq(d.ext, 1, first - 1)],
             [k \in 1 .. Len(d.ext) + 1 - first |-> first + k - 1])
\* and new ones.
NewExtents(a, s) ==
    FoldLeft(LAMBDA t, i : WriteExtent(t, a.rl, <<>>), s, [i \in 1 .. a.alloc |-> i])

\* m is the attribute before, a the one after its sizes and flags are set.
Updated(m, a, d, s) ==
    IF s.err = "EIO" THEN [ok |-> FALSE, a |-> m, disk |-> [d EXCEPT !.alloc = a.alloc]]
    ELSE [ok |-> s.fin, a |-> [a EXCEPT !.dirty = @ /\ ~s.fin],
          disk |-> [ext |-> s.ext, alloc |-> a.alloc]]

UpdateFirst(m, a, d, first, from, more) ==
    LET old == OldExtents(a, d, first, from, IF from = 0 THEN 0 ELSE d.ext[first].lowest)
    IN  Updated(m, a, d, IF more THEN NewExtents(a, old) ELSE old)

UpdateMapped(m, d, from, first, more) ==
    IF m.ok THEN UpdateFirst(m.a, IF first = 1 THEN UpdateMeta(m.a) ELSE m.a, d, first, from, more)
    ELSE [ok |-> FALSE, a |-> m.a, disk |-> d]

\* a has data_size clusters of data: while its size changes, the old size.
Update(a, data_size, d, from, more) ==
    IF (~a.full \/ from # 0) /\ SparseChanged(a, data_size)
    THEN UpdateMapped(ntfs_attr_map_whole_runlist(a, d), d, 0, 1, more)
    ELSE UpdateMapped([ok |-> TRUE, a |-> a], d, from, Lookup(d, from), more)

-----------------------------------------------------------------------------
\* What ntfs_cluster_alloc returns for clusters from vcn on: contiguous
\* clusters are one run, and the end is not mapped.
AllocatedRuns(vcn, lcns) ==
    LET add(rl, l) ==
           IF rl # <<>> /\ Last(rl).lcn + Last(rl).length = l
           THEN [rl EXCEPT ![Len(rl)].length = @ + 1]
           ELSE Append(rl, Run(IF rl = <<>> THEN vcn ELSE EndOf(Last(rl)), l, 1))
    IN  Append(FoldLeft(add, <<>>, lcns), Run(vcn + Len(lcns), LCN_RL_NOT_MAPPED, 0))

FreeChoices(n) == {s \in [1 .. n -> Free] : \A i, j \in 1 .. n : s[i] = s[j] => i = j}

(***************************************************************************)
(* The operations on the attribute.                                        *)
(***************************************************************************)
\* A part of the attribute is used: ntfs_attr_find_vcn maps its extent.
Map(vcn) ==
    /\ vcn < na.alloc
    /\ ntfs_rl_vcn_to_lcn(na.rl, vcn) = LCN_RL_NOT_MAPPED
    /\ \E m \in {ntfs_attr_map_runlist(na, disk, vcn)} :
          na' = m.a /\ refused' = (refused \/ ~m.ok)
    /\ UNCHANGED <<disk, write, file, lost>>

\* Mutant: the update starts behind the cluster that was filled in.
UpdateFrom_behind(vcn) == IF write.update_from = -1 THEN vcn + 1 ELSE write.update_from

UpdateFrom(vcn) ==
    IF write.update_from = -1 \/ vcn < write.update_from THEN vcn ELSE write.update_from

\* "Now LCN shoudn't be less than 0": of the run of cur, or of the next.
FoundIn(rl, cur) ==
    \E j \in 1 .. Len(rl) :
       /\ rl[j].vcn <= cur /\ cur < EndOf(rl[j])
       /\ rl[j].lcn >= 0 \/ rl[j + 1].lcn >= 0

\* ntfs_attr_fill_hole, for a write of the clusters from vcn on: they are in the
\* hole hole of the list.
FillHole(hole, vcn, lcns) ==
    /\ hole.length # 0 /\ hole.lcn = LCN_HOLE
    /\ hole.vcn <= vcn /\ vcn + Len(lcns) <= EndOf(hole)
    /\ \E m \in {ntfs_attr_map_partial_runlist(na, disk,
                                               IF hole.vcn > 0 THEN hole.vcn - 1 ELSE 0)} :
          /\ na' = [m.a EXCEPT !.rl = ntfs_runlists_merge(@, AllocatedRuns(vcn, lcns)),
                               !.dirty = TRUE,
                               !.csize = IF m.a.sparse THEN @ + Len(lcns) ELSE @]
          /\ refused' = (refused \/ ~m.ok \/ ~FoundIn(na'.rl, hole.vcn))
    /\ file' = [v \in 1 .. Len(file) |->
                   IF v > vcn /\ v <= vcn + Len(lcns) THEN lcns[v - vcn] ELSE file[v]]
    /\ write' = [write EXCEPT !.on = TRUE, !.update_from = UpdateFrom(vcn)]
    /\ UNCHANGED <<disk, lost>>

\* The list that ntfs_non_resident_attr_expand merges in.
NewRuns(lcns) ==
    IF Head(lcns) = LCN_HOLE
    THEN <<Run(na.alloc, LCN_HOLE, Len(lcns)), Run(na.alloc + Len(lcns), LCN_ENOENT, 0)>>
    ELSE AllocatedRuns(na.alloc, lcns)

\* The end of the attribute is mapped, and the list extended by lcns.
ExtendedBy(m, runs, n) ==
    [ok |-> m.ok, a |-> [m.a EXCEPT !.rl = ntfs_runlists_merge(@, runs), !.alloc = @ + n,
                                    !.dirty = TRUE]]
Extended(lcns) ==
    ExtendedBy(ntfs_attr_map_partial_runlist(na, disk, na.alloc - 1), NewRuns(lcns), Len(lcns))

\* The list is cut to n clusters, rl, and the mapping pairs are written anew.
Cut(a, data_size, d, n, rl, more) ==
    [refused |-> rl = NULL,
     u |-> Update([a EXCEPT !.rl = rl, !.alloc = n, !.dirty = TRUE], data_size, d, 0, more)]
CutTo(a, data_size, d, n, more) == Cut(a, data_size, d, n, ntfs_rl_truncate(a.rl, n), more)

\* What an update u leaves, in the operation op.
Settled(u, op) == na' = u.a /\ disk' = u.disk /\ lost' = IF u.ok THEN lost ELSE op

\* ntfs_non_resident_attr_expand with HOLES_OK (holes) or HOLES_NO (clusters).
\* When the mapping pairs cannot be written the list is cut again and the old
\* pairs are restored.
Expand(lcns, more) ==
    /\ ~write.on
    /\ \E x \in {Extended(lcns)} : \E u \in {Update(x.a, na.alloc, disk, na.alloc - 1, more)} :
       \E e \in {IF u.ok THEN [refused |-> FALSE, u |-> u]
                ELSE CutTo(u.a, na.alloc, u.disk, na.alloc, more)} :
          /\ refused' = (refused \/ ~x.ok \/ x.a.rl = NULL \/ e.refused)
          /\ Settled(e.u, "expand")
          /\ file' = IF u.ok THEN file \o lcns ELSE file
    /\ UNCHANGED write

\* ntfs_attr_pwrite at a place pos behind the data: the attribute is enlarged with
\* HOLES_DELAY, its mapping pairs are left for later.
AppendHole(n, pos) ==
    LET holes == [j \in 1 .. n |-> LCN_HOLE]
        begin == IF pos > 0 THEN pos - 1 ELSE 0
    IN  /\ ~write.on
        /\ na.alloc - 1 <= pos /\ pos < na.alloc + n
        /\ \E x \in {Extended(holes)} : \E m \in {ntfs_attr_map_partial_runlist(x.a, disk, begin)} :
              /\ refused' = (refused \/ ~x.ok \/ x.a.rl = NULL \/ ~m.ok)
              /\ na' = m.a
        /\ file' = file \o holes
        /\ write' = [on |-> TRUE, update_from |-> begin, undo |-> na.alloc]
        /\ UNCHANGED <<disk, lost>>

\* ntfs_attr_pwrite ends.
WriteEnds(more) ==
    /\ write.on
    /\ \E u \in {Update(na, na.alloc, disk,
                         IF write.update_from < 0 THEN 0 ELSE write.update_from, more)} :
          Settled(u, "write")
    /\ write' = NoWrite
    /\ UNCHANGED <<file, refused>>

\* ntfs_non_resident_attr_shrink to n clusters, of the whole list m.
ShrinkTo(m, d, n, more) ==
    /\ \E s \in {CutTo(m.a, m.a.alloc, d, n, more)} :
          Settled(s.u, "shrink") /\ refused' = (refused \/ ~m.ok \/ s.refused)
    /\ file' = SubSeq(file, 1, n)

Shrink(n, more) ==
    /\ ~write.on
    /\ 0 < n /\ n < na.alloc
    /\ ShrinkTo(ntfs_attr_map_whole_runlist(na, disk), disk, n, more)
    /\ UNCHANGED write

\* ntfs_attr_pwrite fails: the pairs are brought up to date from the start, with
\* whatever result, and the old size is restored.
WriteFails(more) ==
    /\ write.on
    /\ \E u \in {Update(na, na.alloc, disk, 0, more)} :
          IF write.undo >= 0 /\ write.undo < na.alloc
          THEN ShrinkTo(ntfs_attr_map_whole_runlist(u.a, u.disk), u.disk, write.undo, more)
          ELSE Settled(u, "write") /\ UNCHANGED <<refused, file>>
    /\ write' = NoWrite

\* The attribute is closed and opened again.
Reopen ==
    /\ ~write.on
    /\ na' = Opened(disk.alloc, na.sparse, IF na.sparse THEN na.csize ELSE 0)
    /\ UNCHANGED <<disk, write, file, refused, lost>>

More == IF MayFail THEN BOOLEAN ELSE {TRUE}

Next ==
    /\ lost = "no" /\ ~refused
    /\ \/ \E v \in 0 .. MaxClusters - 1 : Map(v)
       \/ \E i \in 1 .. Len(na.rl), v \in 0 .. MaxClusters - 1, n \in 1 .. MaxClusters :
             \E lcns \in FreeChoices(n) : FillHole(na.rl[i], v, lcns)
       \/ \E n \in 1 .. MaxClusters - na.alloc, more \in More :
             \E lcns \in FreeChoices(n) \cup {[j \in 1 .. n |-> LCN_HOLE]} : Expand(lcns, more)
       \/ \E n \in 1 .. MaxClusters - na.alloc, pos \in 0 .. MaxClusters : AppendHole(n, pos)
       \/ \E more \in More : WriteEnds(more) \/ WriteFails(more)
       \/ \E n \in 1 .. MaxClusters, more \in More : Shrink(n, more)
       \/ Reopen

Spec == Init /\ [][Next]_vars

-----------------------------------------------------------------------------
WellFormed(rl) ==
    /\ rl[1].vcn = 0 /\ Last(rl).length = 0
    /\ Last(rl).lcn \in {LCN_ENOENT, LCN_RL_NOT_MAPPED}
    /\ \A i \in 1 .. Len(rl) - 1 : rl[i].length > 0 /\ EndOf(rl[i]) = rl[i + 1].vcn

\* The runlist in memory is one list without gaps or overlaps that gives every
\* cluster its place, or says that the place is not known yet, in whatever order
\* extents were mapped, holes filled, and the attribute enlarged and cut; and
\* once the list counts as fully mapped nothing in it is unknown.
RunlistTrue ==
    na.rl # NULL =>
       /\ WellFormed(na.rl)
       /\ \A v \in 0 .. na.alloc - 1 :
             \/ ntfs_rl_vcn_to_lcn(na.rl, v) = file[v + 1]
             \/ ~na.full /\ ntfs_rl_vcn_to_lcn(na.rl, v) = LCN_RL_NOT_MAPPED
       /\ ntfs_rl_vcn_to_lcn(na.rl, na.alloc) \in {LCN_ENOENT, LCN_RL_NOT_MAPPED}

\* No list that the code itself made is refused: as overlapping, as unmapped, as
\* corrupt, or as too short to be cut.
NeverRefused == ~refused

\* What the extents say, cluster by cluster.
Recorded(v) ==
    LET e == disk.ext[Lookup(disk, v)]
    IN  ntfs_rl_vcn_to_lcn(ntfs_mapping_pairs_decompress(e, disk.alloc), v)

\* After every operation that could write the mapping pairs, the extents are the
\* attribute: they follow one another, and reading them back gives every cluster
\* its place, also when only the later extents were rewritten.  And an
\* enlargement that fails for want of an MFT record puts back the extents as they
\* were, provided the runlist was fully mapped.
DiskTrue ==
    /\ lost = "expand" => ~na.full
    /\ ~write.on /\ lost = "no" =>
       /\ ~na.dirty
       /\ disk.alloc = Len(file) /\ na.alloc = Len(file)
       /\ disk.ext[1].lowest = 0 /\ Last(disk.ext).highest = Len(file) - 1
       /\ \A i \in 1 .. Len(disk.ext) - 1 : disk.ext[i].highest + 1 = disk.ext[i + 1].lowest
       /\ \A v \in 0 .. Len(file) - 1 : Recorded(v) = file[v + 1]
=============================================================================
