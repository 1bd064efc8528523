-------------------------- MODULE MountTableProofs --------------------------
(***************************************************************************)
(* What the operators of MountTable do to a mount table of any length: the *)
(* lemmas on which the proofs about the boot scripts rest.                 *)
(*                                                                         *)
(* What is seen at a mount point is its last mount.  That there is a last  *)
(* one follows from the least-number principle, which is derived here from *)
(* the theorems on finite sets.                                            *)
(***************************************************************************)
EXTENDS MountTable, FiniteSetTheorems, TLAPS

\* A set of natural numbers that is not empty has a least element.
LEMMA LeastNumber ==
    ASSUME NEW T \in SUBSET Nat, T # {}
    PROVE  \E n \in T : \A k \in T : n <= k
<1> DEFINE R == StrictSubsetOrdering(Nat)
           F == {0..n : n \in T}
<1>1. IsWellFoundedOn(R, FiniteSubsetsOf(Nat))
  BY FS_StrictSubsetOrderingWellFounded
<1>2. F \subseteq FiniteSubsetsOf(Nat)
  <2> SUFFICES ASSUME NEW n \in T PROVE 0..n \in FiniteSubsetsOf(Nat)
    OBVIOUS
  <2>1. IsFiniteSet(0..n)
    BY FS_Interval
  <2> QED
    BY <2>1 DEF FiniteSubsetsOf
<1>3. F # {}
  OBVIOUS
<1>4. PICK U \in F : \A V \in F : ~(<<V, U>> \in R)
  <2> HIDE DEF R, F
  <2> QED
    BY <1>1, <1>2, <1>3, WFMin
<1>5. PICK n \in T : U = 0..n
  OBVIOUS
<1>6. ASSUME NEW k \in T PROVE n <= k
  <2> SUFFICES ASSUME k < n PROVE FALSE
    OBVIOUS
  <2>1. 0..k \in F /\ 0..k \subseteq 0..n /\ n \in 0..n /\ n \notin 0..k
    OBVIOUS
  <2>2. <<0..k, U>> \in R
    BY <1>5, <2>1 DEF StrictSubsetOrdering
  <2> QED
    BY <1>4, <2>1, <2>2
<1> QED
  BY <1>6

\* A set of positions that is not empty has a last one.
LEMMA LastPosition ==
    ASSUME NEW n \in Nat, NEW S \in SUBSET (1..n), S # {}
    PROVE  \E j \in S : \A k \in S : k <= j
<1> DEFINE T == {n - k : k \in S}
<1>1. T \in SUBSET Nat
  OBVIOUS
<1> T # {}
  OBVIOUS
<1>2. PICK t \in T : \A u \in T : t <= u
  BY <1>1, LeastNumber
<1>3. PICK j \in S : t = n - j
  BY <1>2
<1>4. ASSUME NEW k \in S PROVE k <= j
  <2>1. t <= n - k
    BY <1>2
  <2> QED
    BY <1>3, <2>1
<1> QED
  BY <1>4

-----------------------------------------------------------------------------
(* What is seen at a mount point.                                           *)

\* The last of the mounts at p is the one that is seen.
LEMMA SeenIsLast ==
    ASSUME NEW m, NEW p, NEW j \in At(m, p), \A k \in At(m, p) : k <= j, At(m, p) \subseteq Nat
    PROVE  Visible(m, p) = m[j].fs /\ Top(m, p) = j
<1>1. \A i \in At(m, p) : (\A k \in At(m, p) : k <= i) => i = j
  OBVIOUS
<1>2. Top(m, p) = j
  BY <1>1 DEF Top
<1>3. Visible(m, p) = m[Top(m, p)].fs
  BY DEF Visible, Top
<1> QED
  BY <1>2, <1>3

\* Where something is mounted, a mount of the table is seen, the last one there.
LEMMA SeenIsMounted ==
    ASSUME NEW m \in Tables, NEW p, Mounted(m, p)
    PROVE  /\ Top(m, p) \in At(m, p) /\ Top(m, p) \in 1..Len(m)
           /\ m[Top(m, p)].at = p
           /\ Visible(m, p) = m[Top(m, p)].fs /\ Visible(m, p) \in FileSystems
           /\ \A k \in At(m, p) : k <= Top(m, p)
<1>1. At(m, p) \in SUBSET (1..Len(m)) /\ Len(m) \in Nat
  BY DEF At, Tables
<1>2. PICK j \in At(m, p) : \A k \in At(m, p) : k <= j
  BY <1>1, LastPosition DEF Mounted
<1>3. Visible(m, p) = m[j].fs /\ Top(m, p) = j
  BY <1>1, <1>2, SeenIsLast
<1>4. m[j].at = p /\ j \in 1..Len(m)
  BY DEF At
<1>5. m[j].fs \in FileSystems
  <2>1. m[j] \in Entries
    BY <1>4 DEF Tables
  <2> QED
    BY <2>1 DEF Entries
<1> QED
  BY <1>2, <1>3, <1>4, <1>5

\* Where nothing is mounted, nothing is seen, and only there.
LEMMA NoneSeen ==
    ASSUME NEW m \in Tables, NEW p
    PROVE  Visible(m, p) = "none" <=> ~Mounted(m, p)
<1>1. ~Mounted(m, p) => Visible(m, p) = "none"
  BY DEF Mounted, Visible
<1>2. Mounted(m, p) => Visible(m, p) \in FileSystems
  BY SeenIsMounted
<1> QED
  BY <1>1, <1>2 DEF FileSystems

\* What is seen is one of the mounts made there.
LEMMA SeenWasMounted ==
    ASSUME NEW m \in Tables, NEW p, Visible(m, p) # "none"
    PROVE  \E j \in 1..Len(m) : m[j].at = p /\ m[j].fs = Visible(m, p)
BY NoneSeen, SeenIsMounted

-----------------------------------------------------------------------------
(* Mount.                                                                   *)

LEMMA MountAppends ==
    ASSUME NEW m \in Tables, NEW f \in FileSystems, NEW p \in MountPoints
    PROVE  /\ Mount(m, f, p) \in Tables /\ Len(m) \in Nat
           /\ Len(Mount(m, f, p)) = Len(m) + 1
           /\ \A j \in 1..Len(m) : Mount(m, f, p)[j] = m[j]
           /\ Mount(m, f, p)[Len(m) + 1] = [fs |-> f, at |-> p]
<1> DEFINE e == [fs |-> f, at |-> p]
<1>1. e \in Entries
  BY DEF Entries
<1>2. Mount(m, f, p) = Append(m, e)
  BY DEF Mount
<1> HIDE DEF e
<1>3. /\ Mount(m, f, p) \in Tables /\ Len(m) \in Nat
      /\ Len(Mount(m, f, p)) = Len(m) + 1
      /\ \A j \in 1..Len(m) : Mount(m, f, p)[j] = m[j]
      /\ Mount(m, f, p)[Len(m) + 1] = e
  BY <1>1, <1>2 DEF Tables
<1> QED
  BY <1>3 DEF e

\* The new mount is what is seen at its place.
LEMMA MountSeen ==
    ASSUME NEW m \in Tables, NEW f \in FileSystems, NEW p \in MountPoints
    PROVE  Visible(Mount(m, f, p), p) = f /\ Mounted(Mount(m, f, p), p)
<1> DEFINE n == Mount(m, f, p)
<1>1. /\ n \in Tables /\ Len(n) = Len(m) + 1 /\ Len(m) \in Nat
      /\ n[Len(n)] = [fs |-> f, at |-> p]
  BY MountAppends
<1> HIDE DEF n
<1>2. Len(n) \in At(n, p) /\ \A k \in At(n, p) : k <= Len(n)
  BY <1>1 DEF At
<1>3. At(n, p) \subseteq Nat
  BY <1>1 DEF At
<1>4. Visible(n, p) = n[Len(n)].fs
  BY <1>2, <1>3, SeenIsLast
<1> QED
  BY <1>1, <1>2, <1>4 DEF Mounted, n

\* At another place nothing changes, unless the new mount covers it.
LEMMA MountElsewhere ==
    ASSUME NEW m \in Tables, NEW f \in FileSystems, NEW p \in MountPoints,
           NEW q \in MountPoints, p # q, ~(p = "new" /\ q = "new/host")
    PROVE  /\ Visible(Mount(m, f, p), q) = Visible(m, q)
           /\ Mounted(Mount(m, f, p), q) = Mounted(m, q)
<1> DEFINE n == Mount(m, f, p)
<1>1. /\ n \in Tables /\ Len(n) = Len(m) + 1 /\ Len(m) \in Nat
      /\ \A j \in 1..Len(m) : n[j] = m[j]
      /\ n[Len(m) + 1].at = p
  <2>1. n[Len(m) + 1] = [fs |-> f, at |-> p]
    BY MountAppends
  <2>2. n[Len(m) + 1].at = p
    BY <2>1
  <2> HIDE DEF n
  <2> QED
    BY <2>2, MountAppends, ZenonT(60) DEF n
<1> HIDE DEF n
<1>2. ASSUME NEW j PROVE j \in At(n, q) <=> j \in At(m, q)
  <2>1. ASSUME j \in At(m, q) PROVE j \in At(n, q)
    <3>1. j \in 1..Len(m) /\ n[j].at = q /\ j \in 1..Len(n)
      BY <1>1, <2>1 DEF At
    <3>2. ASSUME q = "new/host", NEW k \in (j + 1)..Len(n) PROVE n[k].at # "new"
      <4>1. k \in (j + 1)..Len(m) \/ k = Len(m) + 1
        BY <1>1, <3>1
      <4>2. CASE k \in (j + 1)..Len(m)
        <5>1. n[k] = m[k]
          BY <1>1, <3>1, <4>2
        <5> QED
          BY <2>1, <3>2, <4>2, <5>1 DEF At
      <4> QED
        BY <1>1, <3>2, <4>1, <4>2
    <3> QED
      BY <3>1, <3>2 DEF At
  <2>2. ASSUME j \in At(n, q) PROVE j \in At(m, q)
    <3>1. j \in 1..Len(m) /\ m[j].at = q
      BY <1>1, <2>2 DEF At
    <3>2. ASSUME q = "new/host", NEW k \in (j + 1)..Len(m) PROVE m[k].at # "new"
      <4>1. k \in (j + 1)..Len(n) /\ n[k] = m[k]
        BY <1>1, <3>1
      <4> QED
        BY <2>2, <3>2, <4>1 DEF At
    <3> QED
      BY <3>1, <3>2 DEF At
  <2> QED
    BY <2>1, <2>2
<1>3. At(n, q) = At(m, q)
  BY <1>2
<1>4. Mounted(n, q) = Mounted(m, q)
  BY <1>3 DEF Mounted
<1>5. CASE Mounted(m, q)
  <2>1. /\ Top(m, q) \in At(m, q) /\ Top(m, q) \in 1..Len(m)
        /\ Visible(m, q) = m[Top(m, q)].fs
        /\ \A k \in At(m, q) : k <= Top(m, q)
    BY <1>5, SeenIsMounted
  <2>2. At(n, q) \subseteq Nat
    BY <1>1 DEF At
  <2>3. Visible(n, q) = n[Top(m, q)].fs
    BY <1>3, <2>1, <2>2, SeenIsLast
  <2> QED
    BY <1>1, <1>4, <2>1, <2>3 DEF n
<1>6. CASE ~Mounted(m, q)
  BY <1>1, <1>4, <1>6, NoneSeen DEF n
<1> QED
  BY <1>5, <1>6

-----------------------------------------------------------------------------
(* Taking a mount away: umount and mount --move.                            *)

LEMMA WithoutTable ==
    ASSUME NEW m \in Tables, NEW j \in 1..Len(m)
    PROVE  /\ Without(m, j) \in Tables /\ Len(m) \in Nat
           /\ Len(Without(m, j)) = Len(m) - 1
           /\ \A k \in 1..(Len(m) - 1) :
                 Without(m, j)[k] = IF k < j THEN m[k] ELSE m[k + 1]
<1> DEFINE w == [k \in 1..(Len(m) - 1) |-> IF k < j THEN m[k] ELSE m[k + 1]]
<1>1. Len(m) \in Nat /\ Len(m) - 1 \in Nat /\ \A k \in 1..Len(m) : m[k] \in Entries
  BY DEF Tables
<1>2. \A k \in 1..(Len(m) - 1) : (IF k < j THEN m[k] ELSE m[k + 1]) \in Entries
  BY <1>1
<1>3. w \in Seq(Entries) /\ Len(w) = Len(m) - 1
  BY <1>1, <1>2
<1> QED
  BY <1>1, <1>3 DEF Without, Tables

\* What is seen elsewhere stays (the places below the new root set aside).
LEMMA WithoutElsewhere ==
    ASSUME NEW m \in Tables, NEW j \in 1..Len(m),
           NEW q \in MountPoints, m[j].at # q, q # "new/host"
    PROVE  Visible(Without(m, j), q) = Visible(m, q)
<1> DEFINE w == Without(m, j)
           F(k) == IF k < j THEN k ELSE k + 1
           G(k) == IF k < j THEN k ELSE k - 1
<1>1. /\ w \in Tables /\ Len(m) \in Nat /\ Len(w) = Len(m) - 1
      /\ \A k \in 1..Len(w) : w[k] = m[F(k)]
  BY WithoutTable
<1> HIDE DEF w
<1>2. ASSUME NEW k \in At(w, q) PROVE F(k) \in At(m, q)
  BY <1>1 DEF At
<1>3. ASSUME NEW k \in At(m, q)
      PROVE  G(k) \in At(w, q) /\ w[G(k)] = m[k] /\ F(G(k)) = k
  <2>1. k \in 1..Len(m) /\ k # j /\ m[k].at = q
    BY DEF At
  <2>2. G(k) \in 1..Len(w) /\ F(G(k)) = k
    BY <1>1, <2>1
  <2> HIDE DEF F, G
  <2>3. w[G(k)] = m[k]
    BY <1>1, <2>2
  <2> QED
    BY <2>1, <2>2, <2>3 DEF At
<1>4. CASE Mounted(m, q)
  <2> DEFINE t == Top(m, q)
  <2>1. t \in At(m, q) /\ Visible(m, q) = m[t].fs /\ \A k \in At(m, q) : k <= t
    BY <1>4, SeenIsMounted
  <2> HIDE DEF t
  <2>2. G(t) \in At(w, q) /\ w[G(t)] = m[t] /\ F(G(t)) = t
    BY <1>3, <2>1
  <2>3. At(w, q) \subseteq Nat /\ At(m, q) \subseteq Nat
    BY <1>1 DEF At
  <2>4. ASSUME NEW k \in At(w, q) PROVE k <= G(t)
    <3>1. F(k) <= t
      BY <1>2, <2>1
    <3> QED
      BY <2>1, <2>2, <2>3, <3>1
  <2>5. Visible(w, q) = w[G(t)].fs
    BY <2>2, <2>3, <2>4, SeenIsLast
  <2> QED
    BY <2>1, <2>2, <2>5 DEF w
<1>5. CASE ~Mounted(m, q)
  <2>1. ~Mounted(w, q)
    BY <1>2, <1>5 DEF Mounted
  <2> QED
    BY <1>1, <1>5, <2>1, NoneSeen DEF w
<1> QED
  BY <1>4, <1>5

\* umount leaves mounts that were there before, and of the others places what is
\* seen.
LEMMA UmountTable ==
    ASSUME NEW m \in Tables
    PROVE  /\ Umount(m, "new") \in Tables
           /\ \A k \in 1..Len(Umount(m, "new")) : \E i \in 1..Len(m) : Umount(m, "new")[k] = m[i]
           /\ \A q \in MountPoints \ {"new", "new/host"} :
                 Visible(Umount(m, "new"), q) = Visible(m, q)
<1>1. CASE Mounted(m, "new") /\ ~Busy(m, "new")
  <2> DEFINE t == Top(m, "new")
             w == Without(m, t)
  <2>1. t \in 1..Len(m) /\ m[t].at = "new"
    BY <1>1, SeenIsMounted
  <2>2. Umount(m, "new") = w
    BY <1>1 DEF Umount
  <2> HIDE DEF t
  <2>3. /\ w \in Tables /\ Len(m) \in Nat /\ Len(w) = Len(m) - 1
        /\ \A k \in 1..(Len(m) - 1) : w[k] = IF k < t THEN m[k] ELSE m[k + 1]
    BY <2>1, WithoutTable
  <2>4. \A q \in MountPoints \ {"new", "new/host"} : Visible(w, q) = Visible(m, q)
    BY <2>1, WithoutElsewhere
  <2> HIDE DEF w
  <2>5. ASSUME NEW k \in 1..Len(w) PROVE \E i \in 1..Len(m) : w[k] = m[i]
    BY <2>3
  <2> QED
    BY <2>2, <2>3, <2>4, <2>5
<1>2. CASE ~(Mounted(m, "new") /\ ~Busy(m, "new"))
  <2>1. Umount(m, "new") = m
    BY <1>2 DEF Umount
  <2> QED
    BY <2>1
<1> QED
  BY <1>1, <1>2

-----------------------------------------------------------------------------
(* Which file systems were ever mounted at a place.                         *)

OnlyAt(m, p, S) == \A k \in 1..Len(m) : m[k].at = p => m[k].fs \in S

LEMMA OnlyWider ==
    ASSUME NEW m, NEW p, NEW S, NEW T, S \subseteq T, OnlyAt(m, p, S)
    PROVE  OnlyAt(m, p, T)
BY DEF OnlyAt

LEMMA OnlySeen ==
    ASSUME NEW m \in Tables, NEW p, NEW S, OnlyAt(m, p, S)
    PROVE  Visible(m, p) \in S \cup {"none"}
BY SeenWasMounted DEF OnlyAt

LEMMA OnlyMount ==
    ASSUME NEW m \in Tables, NEW f \in FileSystems, NEW q \in MountPoints,
           NEW p, NEW S, OnlyAt(m, p, S), q = p => f \in S
    PROVE  OnlyAt(Mount(m, f, q), p, S)
<1> DEFINE n == Mount(m, f, q)
<1>1. /\ Len(n) = Len(m) + 1 /\ Len(m) \in Nat
      /\ \A j \in 1..Len(m) : n[j] = m[j]
      /\ n[Len(m) + 1] = [fs |-> f, at |-> q]
  BY MountAppends
<1> HIDE DEF n
<1>2. ASSUME NEW k \in 1..Len(n), n[k].at = p PROVE n[k].fs \in S
  <2>1. CASE k \in 1..Len(m)
    BY <1>1, <1>2, <2>1 DEF OnlyAt
  <2>2. CASE k = Len(m) + 1
    BY <1>1, <1>2, <2>2
  <2> QED
    BY <1>1, <2>1, <2>2
<1> QED
  BY <1>2 DEF OnlyAt, n

LEMMA OnlyUmount ==
    ASSUME NEW m \in Tables, NEW p, NEW S, OnlyAt(m, p, S)
    PROVE  OnlyAt(Umount(m, "new"), p, S)
BY UmountTable DEF OnlyAt

\* mount --move: what was seen at p is seen at q; elsewhere nothing changes (the
\* places below the new root set aside).
LEMMA MoveTable ==
    ASSUME NEW m \in Tables, NEW p \in MountPoints, NEW q \in MountPoints \ {"new"}, p # q,
           Mounted(m, p)
    PROVE  /\ Move(m, p, q) \in Tables
           /\ Visible(Move(m, p, q), q) = Visible(m, p)
           /\ \A r \in MountPoints \ {p, q, "new/host"} :
                 Visible(Move(m, p, q), r) = Visible(m, r)
           /\ \A r, S : OnlyAt(m, r, S) /\ (r = q => Visible(m, p) \in S)
                           => OnlyAt(Move(m, p, q), r, S)
<1> DEFINE t == Top(m, p)
           w == Without(m, t)
           v == Visible(m, p)
<1>1. t \in 1..Len(m) /\ m[t].at = p /\ v \in FileSystems
  BY SeenIsMounted
<1>2. Move(m, p, q) = Mount(w, v, q)
  BY DEF Move, Mount
<1> HIDE DEF t, v
<1>3. /\ w \in Tables /\ Len(m) \in Nat /\ Len(w) = Len(m) - 1
      /\ \A k \in 1..(Len(m) - 1) : w[k] = IF k < t THEN m[k] ELSE m[k + 1]
  BY <1>1, WithoutTable
<1>4. \A r \in MountPoints \ {p, q, "new/host"} : Visible(w, r) = Visible(m, r)
  BY <1>1, WithoutElsewhere
<1> HIDE DEF w
<1>5. Mount(w, v, q) \in Tables /\ Visible(Mount(w, v, q), q) = v
  <2>1. w \in Tables /\ v \in FileSystems /\ q \in MountPoints
    BY <1>1, <1>3
  <2> QED
    BY <2>1, MountAppends, MountSeen
<1>6. ASSUME NEW r \in MountPoints \ {p, q, "new/host"}
      PROVE  Visible(Mount(w, v, q), r) = Visible(m, r)
  <2>1. w \in Tables /\ v \in FileSystems /\ q \in MountPoints /\ r \in MountPoints /\ q # r
    BY <1>1, <1>3
  <2>2. Visible(Mount(w, v, q), r) = Visible(w, r)
    BY <2>1, MountElsewhere
  <2> QED
    BY <1>4, <2>2
<1>7. ASSUME NEW r, NEW S, OnlyAt(m, r, S), r = q => v \in S PROVE OnlyAt(Mount(w, v, q), r, S)
  <2>1. OnlyAt(w, r, S)
    BY <1>1, <1>3, <1>7 DEF OnlyAt
  <2> QED
    BY <1>1, <1>3, <1>7, <2>1, OnlyMount
<1> QED
  BY <1>2, <1>5, <1>6, <1>7 DEF v
=============================================================================
