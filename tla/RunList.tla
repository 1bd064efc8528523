------------------------------ MODULE RunList ------------------------------
(***************************************************************************)
(* The runlists of ntfs-3g (libntfs-3g/runlist.c): which clusters of the   *)
(* volume (LCNs) hold the clusters of an attribute (VCNs).  A runlist is   *)
(* an array of runs closed by one of length 0; NULL is the empty sequence. *)
(* An array of C with index i is a sequence with index i + 1.              *)
(***************************************************************************)
EXTENDS Integers, SequencesExt

CONSTANT ByteBits       \* bits in a byte of the mapping pairs (8 in the code)

ASSUME ByteBitsAssumption == ByteBits \in Nat \ {0}

LCN_HOLE == -1
LCN_RL_NOT_MAPPED == -2
LCN_ENOENT == -3

NULL == <<>>

Run(v, l, n) == [vcn |-> v, lcn |-> l, length |-> n]
EndOf(r) == r.vcn + r.length
One(x) == IF x THEN 1 ELSE 0

\* The terminator: the first run of length 0 at or behind i.
EndIndex(rl, i) == CHOOSE j \in i .. Len(rl) :
                      rl[j].length = 0 /\ \A k \in i .. j - 1 : rl[k].length # 0

(***************************************************************************)
(* Merging a list src, without its terminator, into a list dst at its run  *)
(* loc.  The four ways differ in what becomes of the hole at loc.          *)
(***************************************************************************)
ntfs_rl_are_mergeable(d, s) ==
    \/ d.lcn = LCN_RL_NOT_MAPPED /\ s.lcn = LCN_RL_NOT_MAPPED
    \/ /\ EndOf(d) = s.vcn
       /\ \/ d.lcn >= 0 /\ s.lcn >= 0 /\ d.lcn + d.length = s.lcn
          \/ d.lcn = LCN_HOLE /\ s.lcn = LCN_HOLE

ntfs_rl_merge(d, s) == [d EXCEPT !.length = @ + s.length]

MergesRight(dst, src, loc) == loc < Len(dst) /\ ntfs_rl_are_mergeable(Last(src), dst[loc + 1])
MergesLeft(dst, src, loc) == loc > 1 /\ ntfs_rl_are_mergeable(dst[loc - 1], src[1])

\* The runs of src, the last joined with the run behind it where it can be.
JoinedRight(dst, src, loc) ==
    IF MergesRight(dst, src, loc)
    THEN [src EXCEPT ![Len(src)] = ntfs_rl_merge(@, dst[loc + 1])]
    ELSE src

\* The runs of dst before loc, the last joined with src where it can be.
JoinedLeft(dst, src, loc) ==
    IF MergesLeft(dst, src, loc)
    THEN [SubSeq(dst, 1, loc - 1) EXCEPT ![loc - 1] = ntfs_rl_merge(@, src[1])]
    ELSE SubSeq(dst, 1, loc - 1)

\* "We may have changed the length of the file, so fix the end marker".
FixEndMarker(rl, i) ==
    IF i <= Len(rl) /\ rl[i].lcn = LCN_ENOENT
    THEN [rl EXCEPT ![i].vcn = EndOf(rl[i - 1])]
    ELSE rl

\* The run at i ends where the next one starts.
FillUpTo(rl, i) == [rl EXCEPT ![i].length = rl[i + 1].vcn - rl[i].vcn]

ntfs_rl_append(dst, src, loc) ==
    FixEndMarker(FillUpTo(SubSeq(dst, 1, loc) \o JoinedRight(dst, src, loc)
                            \o SubSeq(dst, loc + 1 + One(MergesRight(dst, src, loc)), Len(dst)),
                          loc),
                 loc + Len(src) + 1)

\* Mutant: the run behind the inserted ones keeps its place and length.
ntfs_rl_insert_unmoved(dst, src, loc) ==
    JoinedLeft(dst, src, loc) \o SubSeq(src, 1 + One(MergesLeft(dst, src, loc)), Len(src))
      \o SubSeq(dst, loc, Len(dst))

\* What is not known between VCN end and the first of the inserted runs.
Gap(end, v) == IF v > end THEN <<Run(end, LCN_RL_NOT_MAPPED, v - end)>> ELSE <<>>

\* Run i of rl starts where the one before it ends.
Moved(rl, i) == [rl EXCEPT ![i].vcn = EndOf(rl[i - 1])]

\* The same for the run behind the inserted ones; a hole keeps its end.
MovedRun(rl, i) ==
    IF rl[i].lcn \in {LCN_HOLE, LCN_RL_NOT_MAPPED} THEN FillUpTo(Moved(rl, i), i)
    ELSE Moved(rl, i)

Inserted(head, gap, src, tail) ==
    MovedRun(head \o gap \o src \o tail, Len(head) + Len(gap) + Len(src) + 1)

ntfs_rl_insert(dst, src, loc) ==
    LET head == JoinedLeft(dst, src, loc)
    IN  Inserted(head, Gap(IF loc = 1 THEN 0 ELSE EndOf(Last(head)), src[1].vcn),
                 SubSeq(src, 1 + One(MergesLeft(dst, src, loc)), Len(src)),
                 SubSeq(dst, loc, Len(dst)))

\* The rest of ntfs_rl_replace, for a list src joined with the run behind it.
Replaced(dst, src, loc, right) ==
    LET left == One(MergesLeft(dst, src, loc))
    IN  FixEndMarker(JoinedLeft(dst, src, loc) \o SubSeq(src, 1 + left, Len(src))
                       \o SubSeq(dst, loc + right + 1, Len(dst)),
                     loc + Len(src) - left)

ntfs_rl_replace(dst, src, loc) ==
    Replaced(dst, JoinedRight(dst, src, loc), loc, One(MergesRight(dst, src, loc)))

ntfs_rl_split(dst, src, loc) ==
    LET rest == loc + Len(src) + 1
    IN  FillUpTo(Moved(FillUpTo(SubSeq(dst, 1, loc) \o src \o SubSeq(dst, loc, Len(dst)), loc),
                       rest), rest)

(***************************************************************************)
(* What the code calls its marker code: srl, when its terminator end says  *)
(* that the attribute ends there, may reach further than the merged list.  *)
(* The end of the list is looked for from where it was before the merge,   *)
(* place was: behind the end of a list that got shorter there is only a    *)
(* stale terminator.                                                       *)
(***************************************************************************)
\* The list without its terminator, unmapped up to VCN mv.
UpTo(rl, mv) ==
    IF Last(rl).lcn = LCN_RL_NOT_MAPPED
    THEN [rl EXCEPT ![Len(rl)].length = mv - Last(rl).vcn]
    ELSE rl \o <<Run(EndOf(Last(rl)), LCN_RL_NOT_MAPPED, mv - EndOf(Last(rl)))>>

WithMarker(rl, end, was) ==
    IF end.lcn # LCN_ENOENT \/ Len(rl) < was \/ Last(rl).vcn > end.vcn THEN rl
    ELSE IF Last(rl).vcn = end.vcn THEN [rl EXCEPT ![Len(rl)].lcn = LCN_ENOENT]
    ELSE UpTo(IF Last(rl).lcn = LCN_ENOENT THEN Front(rl) ELSE rl, end.vcn)
           \o <<Run(end.vcn, LCN_ENOENT, 0)>>

\* srl reaches the end of the hole at dins.
ReachesEnd(drl, srl, dins, send) ==
    /\ drl[dins].lcn >= LCN_RL_NOT_MAPPED
    /\ EndOf(drl[dins]) <= EndOf(srl[send - 1])

\* Where the runs of srl that are mapped start and end, and where they go in drl.
FirstMapped(srl) ==
    CHOOSE j \in 1 .. Len(srl) :
       /\ srl[j].length = 0 \/ srl[j].lcn >= LCN_HOLE
       /\ \A k \in 1 .. j - 1 : srl[k].length # 0 /\ srl[k].lcn < LCN_HOLE
LastMapped(srl, send) ==
    CHOOSE j \in 1 .. send :
       srl[j].lcn >= LCN_HOLE /\ \A k \in j + 1 .. send : srl[k].lcn < LCN_HOLE
PlaceFor(drl, vcn) ==
    CHOOSE j \in 1 .. Len(drl) :
       /\ drl[j].length = 0 \/ EndOf(drl[j]) > vcn
       /\ \A k \in 1 .. j - 1 : drl[k].length # 0 /\ EndOf(drl[k]) <= vcn

\* The run at loc is replaced at its start, at its finish, at both or inside.
Merged(dst, src, loc, start, finish) ==
    CASE start /\ finish -> ntfs_rl_replace(dst, src, loc)
      [] start /\ ~finish -> ntfs_rl_insert(dst, src, loc)
      [] ~start /\ finish -> ntfs_rl_append(dst, src, loc)
      [] ~start /\ ~finish -> ntfs_rl_split(dst, src, loc)

MergedAt(drl, srl, sstart, send, dins) ==
    LET dend   == EndIndex(drl, dins)
        start  == drl[dins].lcn < LCN_RL_NOT_MAPPED \/ drl[dins].vcn = srl[sstart].vcn
        ends   == ReachesEnd(drl, srl, dins, send)
        finish == ends /\ ~(srl[send].lcn = LCN_ENOENT /\ EndOf(drl[dins]) > srl[send - 1].vcn)
        \* "Or we'll lose an end marker"
        sfinal == LastMapped(srl, send) + One(ends /\ drl[dins].length = 0)
    IN  IF drl[dins].vcn = srl[sstart].vcn /\ drl[dins].lcn >= 0 /\ srl[sstart].lcn >= 0
        THEN NULL
        ELSE WithMarker(Merged(SubSeq(drl, 1, dend), SubSeq(srl, sstart, sfinal), dins,
                               start, finish),
                        srl[send], dend)

MergedFrom(drl, srl, sstart) ==
    IF srl[sstart].length = 0 THEN NULL
    ELSE MergedAt(drl, srl, sstart, EndIndex(srl, sstart), PlaceFor(drl, srl[sstart].vcn))

\* ntfs_runlists_merge: NULL when the lists cannot be merged.
ntfs_runlists_merge(drl, srl) ==
    IF drl = NULL THEN srl ELSE MergedFrom(drl, srl, FirstMapped(srl))

ntfs_rl_vcn_to_lcn(rl, vcn) ==
    IF rl = NULL THEN LCN_RL_NOT_MAPPED
    ELSE LET i == CHOOSE j \in 1 .. Len(rl) :
                     /\ rl[j].length = 0 \/ vcn < rl[j + 1].vcn
                     /\ \A k \in 1 .. j - 1 : rl[k].length # 0 /\ vcn >= rl[k + 1].vcn
         IN  IF rl[i].length # 0 /\ rl[i].lcn >= 0 THEN rl[i].lcn + (vcn - rl[i].vcn)
             ELSE IF rl[i].lcn < 0 THEN rl[i].lcn
             ELSE LCN_ENOENT

\* ntfs_rl_truncate: NULL when start is behind the last run.
ntfs_rl_truncate(rl, start) ==
    LET i == CHOOSE j \in 1 .. Len(rl) :
                /\ rl[j].length = 0 \/ start < rl[j + 1].vcn
                /\ \A k \in 1 .. j - 1 : rl[k].length # 0 /\ start >= rl[k + 1].vcn
    IN  IF rl[i].length = 0 THEN NULL
        ELSE SubSeq(rl, 1, i - 1)
               \o (IF start > rl[i].vcn THEN <<[rl[i] EXCEPT !.length = start - rl[i].vcn]>> ELSE <<>>)
               \o <<Run(start, LCN_ENOENT, 0)>>

\* ntfs_rl_sparse: -1 for a list with a run that is not mapped before any hole.
ntfs_rl_sparse(rl) ==
    LET neg == {i \in 1 .. EndIndex(rl, 1) - 1 : rl[i].lcn < 0}
    IN  IF neg = {} THEN 0
        ELSE IF rl[CHOOSE i \in neg : \A j \in neg : i <= j].lcn = LCN_HOLE THEN 1
        ELSE -1

(***************************************************************************)
(* Mapping pairs: a run is stored as its length and its distance from the  *)
(* previous one, each in as few bytes as a signed number needs, with a     *)
(* header byte; a hole has no distance (NTFS 3.0 and later).  A zero byte  *)
(* ends them.                                                              *)
(***************************************************************************)
Base == 2 ^ ByteBits
Half == 2 ^ (ByteBits - 1)

Shifts[l \in Nat] == IF l = 0 THEN 0 ELSE 1 + Shifts[l \div Base]

ntfs_get_nr_significant_bytes(n) ==
    LET l == IF n < 0 THEN -n - 1 ELSE n
    IN  IF l >= Half THEN 2 + Shifts[(l \div Half) \div Base] ELSE 1

ntfs_write_significant_bytes[l \in Int] ==
    <<l % Base>> \o (IF l > Half - 1 \/ l < -Half
                     THEN ntfs_write_significant_bytes[l \div Base] ELSE <<>>)

\* The bytes of a number, read with the sign of the last one.
ReadBytes(b) ==
    FoldLeft(LAMBDA v, d : v * Base + d,
             IF Last(b) >= Half THEN Last(b) - Base ELSE Last(b), Reverse(Front(b)))

\* The runs from VCN v on, the first one cut when v is inside it.
RunsFrom(rl, v) ==
    LET e  == EndIndex(rl, 1)
        i  == CHOOSE j \in 1 .. e :
                 (j = e \/ v < rl[j + 1].vcn) /\ \A k \in 1 .. j - 1 : v >= rl[k + 1].vcn
        cut(r) == Run(v, IF r.lcn >= 0 THEN r.lcn + (v - r.vcn) ELSE r.lcn, EndOf(r) - v)
    IN  [k \in 1 .. e - i |-> IF k = 1 THEN cut(rl[i]) ELSE rl[i + k - 1]]

\* The LCN that the distance of run i is taken from.
PrevLcn(runs, i) ==
    LET real == {j \in 1 .. i - 1 : runs[j].lcn >= 0}
    IN  IF real = {} THEN 0 ELSE runs[CHOOSE j \in real : \A k \in real : k <= j].lcn

PairSize(runs, i) ==
    1 + ntfs_get_nr_significant_bytes(runs[i].length)
      + (IF runs[i].lcn >= 0
         THEN ntfs_get_nr_significant_bytes(runs[i].lcn - PrevLcn(runs, i)) ELSE 0)

\* ntfs_get_size_for_mapping_pairs: -1 for runs that are not mapped.
SizeOf(runs, max) ==
    LET add(s, i) == IF s = -1 \/ s > max THEN s
                     ELSE IF runs[i].lcn < LCN_HOLE THEN -1
                     ELSE s + PairSize(runs, i)
    IN  FoldLeft(add, 1, [i \in 1 .. Len(runs) |-> i])
ntfs_get_size_for_mapping_pairs(rl, v, max) == SizeOf(RunsFrom(rl, v), max)

Pair(runs, i) ==
    [len |-> ntfs_write_significant_bytes[runs[i].length],
     lcn |-> IF runs[i].lcn >= 0
             THEN ntfs_write_significant_bytes[runs[i].lcn - PrevLcn(runs, i)] ELSE <<>>]

PairBytes(p) == 1 + Len(p.len) + Len(p.lcn)

AddPair(a, run, p, dst_len) ==
    IF a.err # "" THEN a
    ELSE IF run.lcn < LCN_HOLE THEN [a EXCEPT !.err = "EINVAL"]
    ELSE IF a.used + PairBytes(p) > dst_len - 1
         THEN [a EXCEPT !.err = "ENOSPC", !.stop = run.vcn]
    ELSE [a EXCEPT !.used = @ + PairBytes(p), !.pairs = Append(@, p)]
PairsOf(runs, end, dst_len) ==
    LET add(a, i) == AddPair(a, runs[i], Pair(runs, i), dst_len)
    IN  FoldLeft(add, [err |-> "", used |-> 0, pairs |-> <<>>, stop |-> end],
                 [i \in 1 .. Len(runs) |-> i])
\* ntfs_mapping_pairs_build into dst_len bytes: the pairs, how it ended and
\* where the pairs that did not fit begin.
ntfs_mapping_pairs_build(rl, v, dst_len) == PairsOf(RunsFrom(rl, v), Last(rl).vcn, dst_len)

\* One pair decoded: a run of n clusters at l, or a hole.
Decoded(s, n, hole, l) ==
    [vcn |-> s.vcn + n, lcn |-> l,
     runs |-> Append(s.runs, Run(s.vcn, IF hole THEN LCN_HOLE ELSE l, n))]

\* ntfs_mapping_pairs_decompress without an old list: the runlist of the extent
\* a of an attribute whose base extent gives it clusters clusters; NULL when it
\* is corrupt.
DecodedList(a, clusters, d) ==
    IF \/ \E j \in 1 .. Len(d.runs) :
             d.runs[j].vcn >= a.lowest /\ (d.runs[j].length < 0 \/ d.runs[j].lcn < LCN_HOLE)
       \/ a.highest # 0 /\ d.vcn - 1 # a.highest
    THEN NULL
    ELSE IF a.lowest > 0 THEN d.runs \o <<Run(d.vcn, LCN_RL_NOT_MAPPED, 0)>>
    ELSE IF d.vcn > clusters THEN NULL
    ELSE d.runs \o Gap(d.vcn, clusters) \o <<Run(clusters, LCN_ENOENT, 0)>>
ntfs_mapping_pairs_decompress(a, clusters) ==
    LET add(s, p) == Decoded(s, ReadBytes(p.len), p.lcn = <<>>,
                             IF p.lcn = <<>> THEN s.lcn ELSE s.lcn + ReadBytes(p.lcn))
    IN  DecodedList(a, clusters,
                    FoldLeft(add, [vcn |-> a.lowest, lcn |-> 0, runs |-> Gap(0, a.lowest)], a.pairs))
=============================================================================
