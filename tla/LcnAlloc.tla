------------------------------ MODULE LcnAlloc ------------------------------
(***************************************************************************)
(* The cluster allocator of libntfs-3g (lcnalloc.c): ntfs_cluster_alloc    *)
(* reads the volume bitmap one buffer at a time, takes one range of free   *)
(* clusters from each, and goes from zone to zone (MFT, DATA1 behind it,   *)
(* DATA2 before it); ntfs_cluster_free and its variants give runs back,    *)
(* through the steps of BitmapRun.  The volume keeps a position in each    *)
(* zone, the set of zones it takes for full and the number of free         *)
(* clusters.                                                               *)
(*                                                                         *)
(* The library is called by one thread; a call is a sequence of steps, one *)
(* per turn of the loop, so that its termination is a property.            *)
(***************************************************************************)
EXTENDS Integers, Sequences, FiniteSetsExt

CONSTANTS
    NrClusters,      \* vol->nr_clusters
    ByteBits,        \* bits of a byte of the bitmap (8 in the code)
    BufBytes,        \* NTFS_LCNALLOC_BSIZE
    Skip,            \* NTFS_LCNALLOC_SKIP
    BufCap,          \* bytes of the buffer of ntfs_bitmap_set_bits_in_run
    BmpBytes,        \* bytes of $Bitmap; the bits behind the volume are set
    mft_lcn, mft_zone_start, mft_zone_end,
    System,          \* clusters of the file system's own files, never freed
    MaxCount,        \* bound: the most clusters asked for in one call
    Hints,           \* the start_lcn arguments of calls, besides -1 (none)
    Faults           \* bound: failing reads and writes of the bitmap

Zones == {"MFT", "DATA1", "DATA2"}
Clusters == 0 .. NrClusters - 1
BmpBits == BmpBytes * ByteBits

\* The MFT zone (ntfs_volume_startup) is an eighth of the volume from the MFT on, halved
\* until the volume goes on behind it, and may begin before the MFT.
ASSUME LcnAllocAssumption ==
    /\ {NrClusters, ByteBits, BufBytes, Skip, BufCap, BmpBytes, MaxCount, Faults} \subseteq Nat
    /\ {mft_lcn, mft_zone_start, mft_zone_end} \cup Hints \subseteq Nat
    /\ 0 <= mft_zone_start /\ mft_zone_start <= mft_lcn
    /\ mft_lcn < mft_zone_end /\ mft_zone_end < NrClusters
    /\ NrClusters <= BmpBits /\ ByteBits > 0 /\ BufBytes > 0 /\ BufCap > 0 /\ Skip >= 0
    /\ System \subseteq Clusters

VARIABLES
    disk,       \* the bits of $Bitmap: whether a cluster is in use
    owned,      \* the clusters that runs of files describe
    pos,        \* mft_zone_pos, data1_zone_pos and data2_zone_pos
    full_zones, \* the zones taken for full
    free,       \* vol->free_clusters
    faults,     \* reads and writes of the bitmap that may still fail
    leaked,     \* whether giving clusters back has failed
    pc,         \* "idle"; "scan", "pass" (zone_pass_done), "zone" (done_zones_check),
                \* "done" (done_ret); "free": runs are given back
    al,         \* the local variables of ntfs_cluster_alloc
    fr,         \* the runs still to give back, and the clusters given back
    loc         \* the local variables of ntfs_bitmap_set_bits_in_run

vars == <<disk, owned, pos, full_zones, free, faults, leaked, pc, al, fr, loc>>

B == INSTANCE BitmapRun WITH Bits <- ByteBits, Bytes <- BmpBytes

used == {b \in 0 .. BmpBits - 1 : disk[b]}
Padding == NrClusters .. BmpBits - 1
ZoneFirst == [MFT |-> mft_zone_start, DATA1 |-> mft_zone_end, DATA2 |-> 0]
ZoneEnd == [MFT |-> mft_zone_end, DATA1 |-> NrClusters, DATA2 |-> mft_zone_start]

\* The zone of a cluster, or of a start_lcn behind the volume.
ZoneOf(lcn) ==
    IF lcn < mft_zone_start THEN "DATA2" ELSE IF lcn < mft_zone_end THEN "MFT" ELSE "DATA1"

NoAlloc == [count |-> 0, rl |-> <<>>]
NoFree == [rl |-> <<>>, owner |-> {}, nr_freed |-> 0]

\* The volume as it is mounted: ntfs_volume_startup sets the zones up and the
\* free clusters are counted.
Mounted ==
    /\ disk' = [b \in 0 .. BmpBits - 1 |-> b \in owned \cup System \cup Padding]
    /\ pos' = [MFT |-> mft_lcn, DATA1 |-> mft_zone_end, DATA2 |-> 0]
    /\ full_zones' = {}
    /\ free' = Cardinality(Clusters \ (owned \cup System))

\* Any clusters may be in use.
Init ==
    /\ owned \in SUBSET (Clusters \ System)
    /\ disk = [b \in 0 .. BmpBits - 1 |-> b \in owned \cup System \cup Padding]
    /\ pos = [MFT |-> mft_lcn, DATA1 |-> mft_zone_end, DATA2 |-> 0]
    /\ full_zones = {}
    /\ free = Cardinality(Clusters \ used)
    /\ faults = Faults /\ leaked = FALSE
    /\ pc = "idle" /\ al = NoAlloc /\ fr = NoFree /\ loc = B!NoCall

(***************************************************************************)
(* Mutations of the definitions below, for checking that the properties    *)
(* can fail.                                                               *)
(***************************************************************************)
\* Clusters that follow the last run start a run of their own.
Append_run_apart(rl, lcn, n) ==
    Append(rl, [vcn |-> IF rl = <<>> THEN 0 ELSE rl[Len(rl)].vcn + rl[Len(rl)].length,
                lcn |-> lcn, length |-> n])
\* The buffer is not written back.
Writeback_not(taken, rl, then) == pc' = then /\ UNCHANGED <<disk, faults, fr>>
\* The zone is done after one pass.
ZonePassDone_once ==
    /\ pc = "pass" /\ pc' = "zone"
    /\ UNCHANGED <<disk, owned, pos, full_zones, free, faults, leaked, al, fr, loc>>
\* Runs are counted instead of clusters.
Freed_run(r) == 1

\* ntfs_cluster_update_zone_pos: the positions after the search in a zone
\* has come to cluster tc.
set_zone_pos(p, zone, tc) ==
    LET start == IF zone = "MFT" THEN mft_lcn ELSE ZoneFirst[zone]
    IN  IF tc >= ZoneEnd[zone] THEN [p EXCEPT ![zone] = start]
        ELSE IF tc >= start THEN [p EXCEPT ![zone] = tc] ELSE p

\* The first of the longest ranges of free clusters in `size' bits from `base', -1 if none.
max_empty_bit_range(base, size) ==
    LET bits == base .. base + size - 1
        FreeRun(l, n) == l + n <= base + size /\ \A k \in l .. l + n - 1 : ~disk[k]
        lengths == {n \in 1 .. size : \E l \in bits : FreeRun(l, n)}
    IN  IF lengths = {} THEN -1 ELSE Min({l \in bits : FreeRun(l, Max(lengths))})

\* The runlist with n clusters from lcn added: to its last run when they follow it.
Append_run(rl, lcn, n) ==
    LET last == rl[Len(rl)]
    IN  IF rl # <<>> /\ last.lcn + last.length = lcn
        THEN [rl EXCEPT ![Len(rl)].length = @ + n]
        ELSE Append(rl, [vcn |-> IF rl = <<>> THEN 0 ELSE last.vcn + last.length,
                         lcn |-> lcn, length |-> n])

RunClusters(r) == r.lcn .. r.lcn + r.length - 1
ClustersOf(rl) == UNION {RunClusters(rl[i]) : i \in DOMAIN rl}

\* Whether a position is where a zone starts, so that one pass covers it.
AtStart(lcn) == lcn \in {0, mft_zone_start, mft_zone_end}

(***************************************************************************)
(* ntfs_cluster_alloc: the search starts at the requested cluster, or at   *)
(* the position of the requested zone.                                     *)
(***************************************************************************)
Alloc(count, start_lcn, zone) ==
    LET from == IF start_lcn >= 0 THEN start_lcn
                ELSE IF zone = "DATA" THEN pos["DATA1"] ELSE pos["MFT"]
        z == ZoneOf(from)
    IN  /\ pc = "idle"
        /\ al' = [count |-> count, start_lcn |-> start_lcn, rl |-> <<>>, clusters |-> count,
                  zone_start |-> from, zone_end |-> ZoneEnd[z], bmp_pos |-> from,
                  pass |-> IF AtStart(from) THEN 2 ELSE 1,
                  search |-> z, done_zones |-> {},
                  has_guess |-> start_lcn >= 0, used_zone_pos |-> start_lcn < 0,
                  \* history: turns of the loop; full zones and free clusters at the call
                  turns |-> 0, flagged |-> full_zones,
                  avail |-> Cardinality(Clusters \ used)]
        /\ pc' = "scan"
        /\ UNCHANGED <<disk, owned, pos, full_zones, free, faults, leaked, fr, loc>>

\* Runs are going to be given back, to `owner' if that is where they come from.
GiveBack(rl, owner) ==
    /\ pc' = "free"
    /\ fr' = [rl |-> rl, owner |-> owner, nr_freed |-> 0]

\* bitmap_writeback of the clusters taken; when it fails nothing is written
\* and the list so far is given back.
Writeback(taken, rl, then) ==
    \/ /\ disk' = [b \in DOMAIN disk |-> disk[b] \/ b \in taken]
       /\ pc' = then /\ UNCHANGED <<faults, fr>>
    \/ /\ taken # {} /\ faults > 0
       /\ faults' = faults - 1
       /\ GiveBack(rl, {}) /\ UNCHANGED disk

\* Where the search goes on after a buffer that ends at `end'.
Onward(a, end) ==
    IF a.used_zone_pos THEN [a EXCEPT !.bmp_pos = end]
    ELSE LET p == pos[a.search]
         IN  [a EXCEPT !.used_zone_pos = TRUE, !.zone_start = p, !.bmp_pos = p,
                       !.pass = IF AtStart(p) THEN 2 ELSE @]

(***************************************************************************)
(* One turn of the loop: a buffer of the bitmap is read, one range of free *)
(* clusters is taken from it and the buffer is written back.               *)
(***************************************************************************)
Scan ==
    LET first == al.bmp_pos \div ByteBits
        base == first * ByteBits
        br   == Max({0, Min({BufBytes, BmpBytes - first})})
        end  == base + br * ByteBits
        at   == IF al.has_guess THEN (IF disk[al.bmp_pos] THEN -1 ELSE al.bmp_pos)
                ELSE max_empty_bit_range(base, br * ByteBits)
        stop == Min({k \in at .. end : k = end \/ disk[k]})
        n    == IF at = -1 THEN 0 ELSE Min({al.clusters, stop - at})
        got  == [al EXCEPT !.turns = @ + 1, !.clusters = @ - n,
                           !.rl = IF n = 0 THEN @ ELSE Append_run(@, at, n),
                           !.has_guess = at # -1 /\ stop = end]
    IN  /\ pc = "scan"
        /\ al.search \notin full_zones /\ br > 0
        /\ free' = Max({0, free - n})
        /\ \/ /\ got.clusters = 0
              /\ al' = got
              /\ pos' = IF al.used_zone_pos
                        THEN set_zone_pos(pos, al.search, at + n + Skip) ELSE pos
              /\ Writeback(at .. at + n - 1, got.rl, "done")
           \/ /\ got.clusters # 0
              /\ al' = Onward(got, end)
              /\ Writeback(IF n = 0 THEN {} ELSE at .. at + n - 1, got.rl,
                           IF al'.bmp_pos < al.zone_end THEN "scan" ELSE "pass")
              /\ UNCHANGED pos
        /\ UNCHANGED <<owned, full_zones, leaked, loc>>

\* The buffer cannot be read: what has been allocated so far is given back.
ScanFails ==
    /\ pc = "scan"
    /\ al.search \notin full_zones /\ al.bmp_pos \div ByteBits < BmpBytes
    /\ faults > 0 /\ faults' = faults - 1
    /\ GiveBack(al.rl, {})
    /\ UNCHANGED <<disk, owned, pos, full_zones, free, leaked, al, loc>>

\* The zone is taken for full, or the position is behind the bitmap.
SkipScan ==
    /\ pc = "scan"
    /\ al.search \in full_zones \/ al.bmp_pos \div ByteBits >= BmpBytes
    /\ pc' = "pass" /\ al' = [al EXCEPT !.turns = @ + 1]
    /\ UNCHANGED <<disk, owned, pos, full_zones, free, faults, leaked, fr, loc>>

\* zone_pass_done: after the first pass the start of the zone is searched.
ZonePassDone ==
    /\ pc = "pass"
    /\ \/ /\ al.pass = 1
          /\ LET s == ZoneFirst[al.search]
             IN  al' = [al EXCEPT !.pass = 2, !.zone_start = s, !.bmp_pos = s,
                                  !.zone_end = Max({al.zone_start, s})]
          /\ pc' = "scan"
       \/ /\ al.pass = 2
          /\ pc' = "zone" /\ UNCHANGED al
    /\ UNCHANGED <<disk, owned, pos, full_zones, free, faults, leaked, fr, loc>>

\* The zone searched after this one.
NextZone(zone, done) ==
    CASE zone = "MFT" -> "DATA1"
      [] zone = "DATA1" -> "DATA2"
      [] zone = "DATA2" -> IF "DATA1" \in done THEN "MFT" ELSE "DATA1"

\* done_zones_check: the zone is marked full and the search goes to the next
\* one; when all have been searched there is no space.
ZoneDone ==
    LET done == al.done_zones \cup {al.search}
        last == al.rl[Len(al.rl)]
        moved == IF al.rl # <<>> /\ al.used_zone_pos
                 THEN set_zone_pos(pos, al.search, last.lcn + last.length + Skip) ELSE pos
        next == NextZone(al.search, done)
    IN  /\ pc = "zone"
        /\ full_zones' = full_zones \cup {al.search}
        /\ \/ /\ done = Zones
              /\ GiveBack(al.rl, {})
              /\ UNCHANGED <<pos, al>>
           \/ /\ done # Zones
              /\ pos' = moved
              /\ al' = [al EXCEPT !.done_zones = done, !.search = next,
                                  !.zone_start = moved[next], !.bmp_pos = moved[next],
                                  !.zone_end = ZoneEnd[next],
                                  !.pass = IF moved[next] = ZoneFirst[next] THEN 2 ELSE 1]
              /\ pc' = IF moved[next] = ZoneEnd[next] THEN "zone" ELSE "scan"
              /\ UNCHANGED fr
        /\ UNCHANGED <<disk, owned, free, faults, leaked, loc>>

\* done_ret: the caller keeps the clusters.
Return ==
    /\ pc = "done"
    /\ owned' = owned \cup ClustersOf(al.rl)
    /\ pc' = "idle" /\ al' = NoAlloc
    /\ UNCHANGED <<disk, pos, full_zones, free, faults, leaked, fr, loc>>

\* ntfs_cluster_free, ntfs_cluster_free_basic and ntfs_cluster_free_from_rl,
\* called for runs of a file.
Free(rl) ==
    /\ pc = "idle"
    /\ GiveBack(rl, ClustersOf(rl))
    /\ UNCHANGED <<disk, owned, pos, full_zones, free, faults, leaked, al, loc>>

\* A zone taken for full is searched again, from the freed cluster on.
update_full_status(lcn) ==
    LET z == ZoneOf(lcn)
    IN  /\ full_zones' = full_zones \ {z}
        /\ pos' = IF z \in full_zones THEN set_zone_pos(pos, z, lcn) ELSE pos

\* ntfs_bitmap_clear_run for the next run of the list.
FreeRun ==
    LET r == Head(fr.rl)
    IN  /\ pc = "free" /\ fr.rl # <<>>
        /\ \/ B!Begin(r.lcn, r.length, FALSE) /\ UNCHANGED faults
           \/ B!BeginFails(r.lcn, r.length, FALSE) /\ faults > 0 /\ faults' = faults - 1
        /\ update_full_status(r.lcn)
        /\ UNCHANGED <<owned, free, leaked, pc, al, fr>>

FreeWindow ==
    /\ \/ B!Window /\ UNCHANGED faults
       \/ B!WindowFails /\ faults > 0 /\ faults' = faults - 1
    /\ UNCHANGED <<owned, pos, full_zones, free, leaked, pc, al, fr>>

\* The clusters that count as free again when a run is cleared.
Freed(r) == r.length

\* The run has been cleared, or the rest of the list is dropped.
FreeRunDone ==
    LET r == Head(fr.rl)
    IN  /\ pc = "free" /\ loc.pc \in {"ok", "error", "bug"}
        /\ loc' = B!NoCall
        /\ \/ /\ loc.pc = "ok"
              /\ fr' = [fr EXCEPT !.rl = Tail(@), !.nr_freed = @ + Freed(r)]
              /\ UNCHANGED leaked
           \/ /\ loc.pc # "ok"
              /\ fr' = [fr EXCEPT !.rl = <<>>, !.owner = {}]
              /\ leaked' = TRUE
        /\ UNCHANGED <<disk, owned, pos, full_zones, free, faults, pc, al>>

\* The number of free clusters is brought up to date.  A file whose runs could
\* not be freed keeps them in its runlist.
FreeReturn ==
    /\ pc = "free" /\ fr.rl = <<>> /\ loc.pc = "idle"
    /\ free' = free + fr.nr_freed
    /\ owned' = owned \ fr.owner
    /\ pc' = "idle" /\ al' = NoAlloc /\ fr' = NoFree
    /\ UNCHANGED <<disk, pos, full_zones, faults, leaked, loc>>

\* Clusters of a file could not be given back: the volume is unmounted and
\* repaired, and mounted again.
Repair ==
    /\ pc = "idle" /\ leaked
    /\ Mounted /\ leaked' = FALSE
    /\ UNCHANGED <<owned, faults, pc, al, fr, loc>>

\* Runs of a file: a range of its clusters, or two single ones.
Runs == {r \in [vcn : {0}, lcn : Clusters, length : 1 .. MaxCount] : RunClusters(r) \subseteq owned}
RunLists == {<<r>> : r \in Runs}
    \cup {<<[vcn |-> 0, lcn |-> p[1], length |-> 1], [vcn |-> 1, lcn |-> p[2], length |-> 1]>> :
             p \in {q \in owned \X owned : q[1] < q[2]}}

Next ==
    \/ /\ ~leaked
       /\ \/ \E count \in 1 .. MaxCount, start_lcn \in Hints \cup {-1}, zone \in {"MFT", "DATA"} :
                Alloc(count, start_lcn, zone)
          \/ \E rl \in RunLists : Free(rl)
    \/ Repair
    \/ Scan \/ ScanFails \/ SkipScan \/ ZonePassDone \/ ZoneDone \/ Return
    \/ FreeRun \/ FreeWindow \/ FreeRunDone \/ FreeReturn

Spec == Init /\ [][Next]_vars

(***************************************************************************)
(* Properties.                                                             *)
(***************************************************************************)
\* The position of every zone is inside the zone, so that each pass of a
\* search starts where it should.
TypeOK ==
    /\ disk \in [0 .. BmpBits - 1 -> BOOLEAN] /\ owned \subseteq Clusters
    /\ \A z \in Zones : pos[z] \in ZoneFirst[z] .. ZoneEnd[z]
    /\ full_zones \subseteq Zones
    /\ free \in 0 .. NrClusters
    /\ pc \in {"idle", "scan", "pass", "zone", "done", "free"}

Taken == IF pc = "free" THEN {} ELSE ClustersOf(al.rl)

\* A cluster is never given out twice: what a file or the file system holds
\* is marked in the bitmap, and an allocation in progress has taken none of
\* it, nor anything behind the volume.  (Clearing bits of a file that keeps
\* them, the "FIXME: Eeek! We need rollback!" of ntfs_cluster_free, is the
\* one way to break it.)
NotSharedNorLost ==
    ~leaked => /\ owned \subseteq used \cup (IF pc = "free" THEN fr.owner ELSE {})
               /\ System \cup Padding \subseteq used
               /\ Taken \cap (owned \cup System \cup Padding) = {}
               /\ pc = "idle" => used = owned \cup System \cup Padding

\* Between calls vol->free_clusters, which statfs reports, is the number of
\* clear bits, also after allocations that gave up halfway and gave back
\* what they had.
FreeCountExact == pc = "idle" /\ ~leaked => free = Cardinality(Clusters \ used)

\* What ntfs_cluster_alloc returns is the number of clusters asked for, in
\* runs that follow each other in the file and could not have been merged,
\* with no cluster in two of them.
AllocatedAsAsked ==
    pc = "done" =>
        LET rl == al.rl
        IN  /\ Cardinality(ClustersOf(rl)) = al.count
            /\ \A i \in DOMAIN rl :
                   /\ rl[i].length > 0
                   /\ i < Len(rl) => /\ rl[i+1].vcn = rl[i].vcn + rl[i].length
                                     /\ rl[i+1].lcn # rl[i].lcn + rl[i].length
            /\ rl[Len(rl)].vcn + rl[Len(rl)].length = al.count

\* Freeing changes no bit of another file (BitmapRun).
RunExactlySet == B!OnlyTheRun /\ B!RunIsSet

\* An allocation ends.  Each of the two passes over a zone reads a byte of the bitmap
\* at most once and may end with a turn that reads nothing; the search goes to four
\* zones at most (from DATA2 it comes back to DATA2), after it has looked at the
\* requested cluster.  (No step waits: a call that takes finitely many steps returns.)
AllocEnds == pc \notin {"idle", "free"} => al.turns <= 8 * (BmpBytes + 1) + 1

\* A search for one cluster that starts with no zone taken for full gives up
\* ("All zones are finished, no space on device") only when no cluster is
\* free: the two passes over each zone leave none out.  (Unless the search was asked
\* to start where a zone starts, or behind the bitmap: after the look at the requested
\* cluster it goes on at the zone's position, but `pass' is 2 by then, and the zone
\* before its position is not searched.)
NoSpaceIsReal ==
    /\ pc = "zone" /\ al.done_zones \cup {al.search} = Zones
    /\ al.count = 1 /\ al.flagged = {}
    /\ ~AtStart(al.start_lcn) /\ al.start_lcn < BmpBits
    => al.avail = 0

\* The search of the zones ends, and not before every zone has been searched.
SearchComplete == AllocEnds /\ NoSpaceIsReal
=============================================================================
