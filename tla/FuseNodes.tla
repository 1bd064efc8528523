----------------------------- MODULE FuseNodes ------------------------------
(***************************************************************************)
(* The node table of libfuse-lite (fuse.c), on which ntfs-3g serves the    *)
(* host partition: the kernel names files by node ids, ntfs-3g by paths.   *)
(* A node has a name in its parent, counts the kernel's lookups, the       *)
(* references to it and the open files; an open file that is unlinked or   *)
(* replaced is renamed to a hidden name and removed by its last release.   *)
(*                                                                         *)
(* ntfs-3g runs fuse_loop, one request at a time, so that every handler is *)
(* one step.  The kernel and the file system under the table (a set of     *)
(* directory entries) are external.  Clients leave hidden names alone, and *)
(* make no hard links: fuse_lib_link is left out.                          *)
(***************************************************************************)
EXTENDS Integers, FiniteSets

CONSTANTS
    Names,           \* the names clients use
    MaxHide,         \* bound on hidectr
    IdSpace,         \* ids are 1..IdSpace; the last stands for FUSE_UNKNOWN_INO
    MaxObjects,      \* bound on the files ever made
    MaxLookups,      \* bound on the lookups of a node
    MaxHandles,      \* bound on the open files of a node
    MayFail          \* whether rename, and the unlink of a hidden file, may fail

Root == 1
NoName == <<>>
Hidden(k) == <<k>>              \* the hidden name with number k
Leftover == MaxObjects + 1      \* a file that was hidden when an earlier mount ended

ASSUME FuseNodesAssumption ==
    /\ {MaxHide, IdSpace, MaxObjects, MaxLookups, MaxHandles} \subseteq Nat
    /\ IdSpace > 1 /\ MaxHide > 0
    /\ MayFail \in BOOLEAN
    /\ \A nm \in Names : nm # NoName /\ \A k \in 1..MaxHide : nm # Hidden(k)

VARIABLES
    fs,          \* the entries [dir, name, obj] of the file system; its root is 0
    dirs,        \* the objects that are directories
    made,        \* the number of objects made
    tab,         \* the node table: node id -> node
    ctr, hidectr,
    known,       \* node id -> the number of lookups the kernel has to forget
    handles,     \* node id -> the number of files the kernel has open
    of,          \* node id -> the object that was looked up
    left         \* history: the hidden files whose last release could not unlink them

vars == <<fs, dirs, made, tab, ctr, hidectr, known, handles, of, left>>
kernel == <<known, handles, of>>

\* A node that has been looked up once, before it gets a name.
NewNode == [name |-> NoName, parent |-> 0, nlookup |-> 1, refctr |-> 1,
            open |-> 0, hidden |-> FALSE]

Init ==
    /\ fs \in {{}, {[dir |-> 0, name |-> Hidden(1), obj |-> Leftover]}}
    /\ dirs = {} /\ made = 0
    /\ tab = [n \in {Root} |-> NewNode]
    /\ ctr = Root /\ hidectr = 0
    /\ known = [n \in {Root} |-> 1] /\ handles = [n \in {Root} |-> 0]
    /\ of = [n \in {Root} |-> 0]
    /\ left = {}

-----------------------------------------------------------------------------
(* The file system: its entries.                                            *)

Entry(s, d, nm) == {e \in s : e.dir = d /\ e.name = nm}
NoFile == -1
ObjOf(found) == IF found = {} THEN NoFile ELSE (CHOOSE e \in found : TRUE).obj

-----------------------------------------------------------------------------
(* The node table.                                                          *)

lookup_node(t, p, nm) == {n \in DOMAIN t \ {Root} : t[n].parent = p /\ t[n].name = nm}

Without(f, n) == [k \in DOMAIN f \ {n} |-> f[k]]
With(f, n, v) == [k \in DOMAIN f \cup {n} |-> IF k = n THEN v ELSE f[k]]

unref_node(t, n) ==
    IF t[n].refctr = 1 THEN Without(t, n) ELSE [t EXCEPT ![n].refctr = @ - 1]

unhash_name(t, n) ==
    IF t[n].name = NoName THEN t
    ELSE unref_node([t EXCEPT ![n].name = NoName, ![n].parent = 0], t[n].parent)

hash_name(t, n, p, nm) ==
    [t EXCEPT ![p].refctr = @ + 1, ![n].name = nm, ![n].parent = p]

next_id(t) ==
    LET Later(k) == ((ctr + k - 1) % (IdSpace - 1)) + 1
        k == CHOOSE j \in 1..IdSpace :
                /\ Later(j) \notin DOMAIN t
                /\ \A i \in 1..(j - 1) : Later(i) \in DOMAIN t
    IN  Later(k)
Free(t) == DOMAIN t # 1..(IdSpace - 1)

\* find_node: the id of the node for a name, and the table with its lookup.
FoundId(t, p, nm) ==
    IF lookup_node(t, p, nm) # {} THEN CHOOSE n \in lookup_node(t, p, nm) : TRUE
    ELSE next_id(t)
find_node(t, p, nm) ==
    LET n == FoundId(t, p, nm)
    IN  IF lookup_node(t, p, nm) # {} THEN [t EXCEPT ![n].nlookup = @ + 1]
        ELSE hash_name(With(t, n, NewNode), n, p, nm)

forget_node_named(t, n, k) ==
    IF t[n].nlookup # k THEN [t EXCEPT ![n].nlookup = @ - k]
    ELSE unref_node([t EXCEPT ![n].nlookup = 0], n)
forget_node(t, n, k) ==
    IF t[n].nlookup # k THEN [t EXCEPT ![n].nlookup = @ - k]
    ELSE unref_node(unhash_name([t EXCEPT ![n].nlookup = 0], n), n)

remove_node(t, p, nm) ==
    IF lookup_node(t, p, nm) = {} THEN t
    ELSE unhash_name(t, CHOOSE n \in lookup_node(t, p, nm) : TRUE)

rename_node_kept(t, p, nm, q, new, hide) ==
    LET node == CHOOSE n \in lookup_node(t, p, nm) : TRUE
        t1 == hash_name(unhash_name(t, node), node, q, new)
    IN  IF hide THEN [t1 EXCEPT ![node].hidden = TRUE] ELSE t1
rename_node(t, p, nm, q, new, hide) ==
    LET node == CHOOSE n \in lookup_node(t, p, nm) : TRUE
        t1 == hash_name(unhash_name(remove_node(t, q, new), node), node, q, new)
    IN  IF lookup_node(t, p, nm) = {} THEN t
        ELSE IF hide THEN [t1 EXCEPT ![node].hidden = TRUE] ELSE t1

\* get_path_name, and what the file system finds at that path: it has the names from
\* the root down, unless a node on the way has lost its name.
NoPath == -2
get_path[n \in DOMAIN tab] ==
    IF n = Root THEN 0
    ELSE IF tab[n].name = NoName THEN NoPath
    ELSE LET up == get_path[tab[n].parent]
         IN  IF up = NoPath THEN NoPath ELSE ObjOf(Entry(fs, up, tab[n].name))

HasPath(p) == get_path[p] # NoPath
DirOf(p) == get_path[p]
At(p, nm) == ObjOf(Entry(fs, DirOf(p), nm))

-----------------------------------------------------------------------------
(* The requests.                                                            *)

\* The directories whose node the kernel holds, and the names it may use there.
Held == {p \in DOMAIN known : of[p] = 0 \/ of[p] \in dirs}

\* The kernel looks a name up, or has it from before, before it unlinks or renames
\* the file, and before it puts another one in its place.
Seen(p, nm) == lookup_node(tab, p, nm) \cap DOMAIN known # {}

Count(f, n) == IF n \in DOMAIN f THEN f[n] ELSE 0

\* The kernel gets the reply to an entry, or the caller was interrupted and the
\* lookup is taken back at once.
Reply(t, p, nm, obj) ==
    LET n == FoundId(t, p, nm)
        t1 == find_node(t, p, nm)
    IN  /\ lookup_node(t, p, nm) # {} \/ Free(t)
        /\ ctr' = IF lookup_node(t, p, nm) # {} THEN ctr ELSE n
        /\ \/ /\ t1[n].nlookup <= MaxLookups
              /\ tab' = t1
              /\ known' = With(known, n, Count(known, n) + 1)
              /\ handles' = With(handles, n, Count(handles, n))
              /\ of' = With(of, n, obj)
           \/ tab' = forget_node(t1, n, 1) /\ UNCHANGED kernel

Lookup(p, nm) ==
    /\ At(p, nm) # NoFile
    /\ Reply(tab, p, nm, At(p, nm))
    /\ UNCHANGED <<fs, dirs, made, hidectr, left>>

\* mknod and symlink, and mkdir.
Make(p, nm, isDir) ==
    /\ made < MaxObjects /\ HasPath(p) /\ At(p, nm) = NoFile
    /\ made' = made + 1
    /\ fs' = fs \cup {[dir |-> DirOf(p), name |-> nm, obj |-> made']}
    /\ dirs' = IF isDir THEN dirs \cup {made'} ELSE dirs
    /\ Reply(tab, p, nm, made')
    /\ UNCHANGED <<hidectr, left>>

\* create, which also opens; an interrupted one is released and forgotten.
Create(p, nm) ==
    LET n == FoundId(tab, p, nm)
        t1 == find_node(tab, p, nm)
    IN  /\ made < MaxObjects /\ HasPath(p) /\ At(p, nm) = NoFile
        /\ lookup_node(tab, p, nm) # {} \/ Free(tab)
        /\ made' = made + 1
        /\ fs' = fs \cup {[dir |-> DirOf(p), name |-> nm, obj |-> made']}
        /\ ctr' = IF lookup_node(tab, p, nm) # {} THEN ctr ELSE n
        /\ \/ /\ t1[n].nlookup <= MaxLookups
              /\ tab' = [t1 EXCEPT ![n].open = @ + 1]
              /\ known' = With(known, n, Count(known, n) + 1)
              /\ handles' = With(handles, n, Count(handles, n) + 1)
              /\ of' = With(of, n, made')
           \/ tab' = forget_node(t1, n, 1) /\ UNCHANGED kernel
        /\ UNCHANGED <<dirs, hidectr, left>>

Open(n) ==
    /\ n # Root /\ of[n] \notin dirs /\ HasPath(n) /\ DirOf(n) # NoFile
    /\ handles[n] < MaxHandles
    /\ tab' = [tab EXCEPT ![n].open = @ + 1]
    /\ handles' = [handles EXCEPT ![n] = @ + 1]
    /\ UNCHANGED <<fs, dirs, made, ctr, hidectr, known, of, left>>

\* fuse_do_release: the last one of a hidden file unlinks it.  Nobody looks at the
\* result, and the node is hidden no more in any case.
Release_kept(n) ==
    /\ handles[n] > 0
    /\ handles' = [handles EXCEPT ![n] = @ - 1]
    /\ tab' = [tab EXCEPT ![n].open = @ - 1, ![n].hidden = @ /\ tab[n].open > 1]
    /\ UNCHANGED <<fs, dirs, made, ctr, hidectr, known, of, left>>
Release(n) ==
    LET last == tab[n].hidden /\ tab[n].open = 1
    IN  /\ handles[n] > 0
        /\ handles' = [handles EXCEPT ![n] = @ - 1]
        /\ tab' = [tab EXCEPT ![n].open = @ - 1, ![n].hidden = @ /\ ~last]
        /\ \/ /\ fs' = IF last /\ HasPath(n) THEN {e \in fs : e.obj # get_path[n]} ELSE fs
              /\ UNCHANGED left
           \/ /\ MayFail /\ last
              /\ left' = left \cup {of[n]} /\ UNCHANGED fs
        /\ UNCHANGED <<dirs, made, ctr, hidectr, known, of>>

\* The kernel forgets a node with all its lookups; one with open files, or with
\* nodes below it, it keeps.
Forget(n) ==
    /\ n # Root /\ handles[n] = 0
    /\ \A c \in DOMAIN known : tab[c].parent # n
    /\ tab' = forget_node(tab, n, known[n])
    /\ known' = Without(known, n) /\ handles' = Without(handles, n) /\ of' = Without(of, n)
    /\ UNCHANGED <<fs, dirs, made, ctr, hidectr, left>>

is_open_never(p, nm) == FALSE
is_open(p, nm) == \E n \in lookup_node(tab, p, nm) : tab[n].open > 0

\* hidden_name: the next name that neither the table nor the file system has.
HiddenName(p) ==
    LET Taken(k) == \/ lookup_node(tab, p, Hidden(k)) # {}
                    \/ Entry(fs, DirOf(p), Hidden(k)) # {}
    IN  {k \in (hidectr + 1)..MaxHide : ~Taken(k) /\ \A j \in (hidectr + 1)..(k - 1) : Taken(j)}

Renamed(s, d, nm, e, new) ==
    {IF x.dir = d /\ x.name = nm THEN [x EXCEPT !.dir = e, !.name = new] ELSE x :
        x \in {y \in s : ~(y.dir = e /\ y.name = new)}}

\* unlink and rmdir: an open file is hidden, another one removed.  The number of a
\* hidden name is used up also when the file system cannot give the name.
Unlink(p, nm) ==
    LET obj == At(p, nm)
        d == DirOf(p)
    IN  /\ Seen(p, nm) /\ obj # NoFile
        /\ obj \in dirs => \A e \in fs : e.dir # obj
        /\ IF is_open(p, nm)
           THEN \E k \in HiddenName(p) :
                  /\ hidectr' = k
                  /\ \/ /\ fs' = Renamed(fs, d, nm, d, Hidden(k))
                        /\ tab' = rename_node(tab, p, nm, p, Hidden(k), TRUE)
                     \/ MayFail /\ UNCHANGED <<fs, tab>>
           ELSE /\ fs' = fs \ Entry(fs, d, nm)
                /\ tab' = remove_node(tab, p, nm)
                /\ UNCHANGED hidectr
        /\ UNCHANGED <<dirs, made, ctr, left, kernel>>

\* The directory d is o or below it, so that o may not be moved there.
Below(d, o) ==
    \A S \in SUBSET ({d} \cup {e.dir : e \in fs}) :
        (d \in S /\ \A e \in fs : e.obj \in S => e.dir \in S) => o \in S

\* rename: an open target is hidden first, and stays so when the rename fails; when it
\* cannot be hidden there is no rename.  The kernel lets a directory replace only an
\* empty directory, and a file only a file.
Rename(p, nm, q, new) ==
    LET obj == At(p, nm)
        target == At(q, new)
        t1(k) == rename_node(tab, q, new, q, Hidden(k), TRUE)
        fs1(k) == Renamed(fs, DirOf(q), new, DirOf(q), Hidden(k))
        Then(t, s) ==
            \/ /\ fs' = Renamed(s, DirOf(p), nm, DirOf(q), new)
               /\ tab' = rename_node(t, p, nm, q, new, FALSE)
            \/ MayFail /\ fs' = s /\ tab' = t
    IN  /\ Seen(p, nm) /\ obj # NoFile
        /\ HasPath(q) /\ obj # target /\ (target # NoFile => Seen(q, new))
        /\ target # NoFile => (obj \in dirs <=> target \in dirs)
        /\ target \in dirs => \A e \in fs : e.dir # target
        /\ ~Below(DirOf(q), obj)
        /\ IF is_open(q, new)
           THEN \E k \in HiddenName(q) :
                  /\ hidectr' = k
                  /\ Then(t1(k), fs1(k)) \/ (MayFail /\ UNCHANGED <<fs, tab>>)
           ELSE UNCHANGED hidectr /\ Then(tab, fs)
        /\ UNCHANGED <<dirs, made, ctr, left, kernel>>

Next ==
    \/ \E p \in Held, nm \in Names :
          \/ Lookup(p, nm) \/ Create(p, nm) \/ Unlink(p, nm)
          \/ \E b \in BOOLEAN : Make(p, nm, b)
          \/ \E q \in Held, new \in Names : Rename(p, nm, q, new)
    \/ \E n \in DOMAIN known : Open(n) \/ Release(n) \/ Forget(n)

Spec == Init /\ [][Next]_vars

-----------------------------------------------------------------------------
(* Properties.                                                              *)

\* Every node that the kernel may name is in the table with exactly the lookups
\* the kernel has to give back and the open files it has: get_node never ends the
\* process with "node not found", and no assertion on the counts fails.
KernelKnown ==
    /\ DOMAIN known = DOMAIN handles /\ DOMAIN known \subseteq DOMAIN tab
    /\ \A n \in DOMAIN known : tab[n].nlookup = known[n] /\ tab[n].open = handles[n]

\* A node lives as long as the kernel's lookups of it or a named node below it:
\* the count of references is exactly that, and no node is left over.
RefsExact ==
    /\ KernelKnown
    /\ \A n \in DOMAIN tab :
        tab[n].refctr = Cardinality({c \in DOMAIN tab : tab[c].name # NoName /\ tab[c].parent = n})
                        + (IF tab[n].nlookup > 0 THEN 1 ELSE 0)

\* No two nodes have the same name in the same directory.
OneNodePerName ==
    \A n, c \in DOMAIN tab \ {Root} :
        (tab[n].name # NoName /\ tab[n].name = tab[c].name /\ tab[n].parent = tab[c].parent)
        => n = c

\* An open file can be reached: whatever was unlinked, renamed or replaced above
\* or instead of it, the path of its node leads to the very file that was opened.
OpenReachable ==
    \A n \in DOMAIN known : handles[n] > 0 =>
        HasPath(n) /\ get_path[n] = of[n]

\* A hidden name in the file system is that of an open file, or of one whose last
\* release could not unlink it, or is left from an earlier mount: no other order of
\* unlinks, renames, failed hides, releases and forgets leaves a hidden file behind.
HiddenIsOpen ==
    \A e \in fs :
        (e.name \in {Hidden(k) : k \in 1..MaxHide} /\ e.obj \notin left \cup {Leftover}) =>
            \E n \in DOMAIN known : tab[n].hidden /\ handles[n] > 0 /\ of[n] = e.obj
=============================================================================
