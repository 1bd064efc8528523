--------------------------- MODULE FuseNodesProofs --------------------------
(***************************************************************************)
(* Proofs about FuseNodes, for any names, ids, objects and bounds, any     *)
(* nesting of directories and any order of requests.                       *)
(*                                                                         *)
(* The argument: the table is consistent by itself (one node per name, as  *)
(* many references as there are named nodes below, plus one); every node   *)
(* has the lookups and the open files that the kernel knows of; and the    *)
(* table mirrors the file system: a node with a name stands for the entry  *)
(* with that name in its parent's directory, unless it is a hidden file    *)
(* that its last release removed, and going up from a node never goes      *)
(* round.  From the mirror it follows what the path of every node leads    *)
(* to, so each request can be followed in the table and in the file        *)
(* system side by side.                                                    *)
(***************************************************************************)
EXTENDS FuseNodes, FiniteSetTheorems, TLAPS

-----------------------------------------------------------------------------
(* The table alone.                                                        *)

HiddenNames == {Hidden(k) : k \in 1..MaxHide}
AllNames == Names \cup HiddenNames

Node == [name : AllNames \cup {NoName}, parent : Nat, nlookup : Nat, refctr : Nat,
         open : Nat, hidden : BOOLEAN]

\* The named nodes in a directory.
Children(t, n) == {c \in DOMAIN t : t[c].name # NoName /\ t[c].parent = n}

TableOK(t) ==
    /\ DOMAIN t \subseteq 1..(IdSpace - 1) /\ Root \in DOMAIN t
    /\ t \in [DOMAIN t -> Node]

\* The count of references of a node with lookups.
RefsOK(t) == \A n \in DOMAIN t : t[n].refctr = Cardinality(Children(t, n)) + 1

\* Named nodes have a parent in the table, and no two of them the same name in it.
HashOK(t) ==
    /\ t[Root].name = NoName
    /\ \A n \in DOMAIN t : t[n].name # NoName => t[n].parent \in DOMAIN t
    /\ \A n \in DOMAIN t : t[n].name = NoName => t[n].parent = 0
    /\ \A n, c \in DOMAIN t \ {Root} :
          (t[n].name # NoName /\ t[n].name = t[c].name /\ t[n].parent = t[c].parent) => n = c

GoodTable(t) == TableOK(t) /\ RefsOK(t) /\ HashOK(t)

\* What u has of t: everything but the names, the parents and the counts of references
\* of its nodes.
SameCounts(t, u) ==
    /\ DOMAIN u = DOMAIN t
    /\ \A m \in DOMAIN t : /\ u[m].nlookup = t[m].nlookup /\ u[m].open = t[m].open
                           /\ u[m].hidden = t[m].hidden

\* The table u is t with another name and parent for node n.
Moved(t, u, n, nm, p) ==
    /\ SameCounts(t, u)
    /\ u[n].name = nm /\ u[n].parent = p
    /\ \A m \in DOMAIN t \ {n} : u[m].name = t[m].name /\ u[m].parent = t[m].parent

\* No file has the empty name, and no client uses a hidden one.
LEMMA NameFacts == NoName \notin AllNames /\ Names \cap HiddenNames = {}
<1>1. \A k \in 1..MaxHide : Hidden(k) # NoName
  BY DEF Hidden, NoName
<1> QED
  BY <1>1, FuseNodesAssumption DEF AllNames, HiddenNames

\* The nodes below a node are finitely many.
LEMMA ChildrenFinite ==
  ASSUME NEW t, TableOK(t), NEW n
  PROVE  IsFiniteSet(Children(t, n)) /\ Cardinality(Children(t, n)) \in Nat
<1>1. IsFiniteSet(1..(IdSpace - 1))
  BY FS_Interval, FuseNodesAssumption
<1>2. Children(t, n) \in SUBSET (1..(IdSpace - 1))
  BY DEF Children, TableOK
<1> QED
  BY <1>1, <1>2, FS_Subset, FS_CardinalityType

\* A node with children has at least two references.
LEMMA ParentRefs ==
  ASSUME NEW t, GoodTable(t), NEW n \in DOMAIN t, t[n].name # NoName
  PROVE  /\ t[n].parent \in DOMAIN t
         /\ Cardinality(Children(t, t[n].parent)) \in Nat \ {0}
         /\ t[t[n].parent].refctr = Cardinality(Children(t, t[n].parent)) + 1
<1>1. t[n].parent \in DOMAIN t /\ n \in Children(t, t[n].parent)
  BY DEF GoodTable, HashOK, Children
<1> QED
  BY <1>1, ChildrenFinite, FS_EmptySet DEF GoodTable, RefsOK

\* The fields of a node.
LEMMA NodeType ==
  ASSUME NEW r \in Node
  PROVE  /\ r.name \in AllNames \cup {NoName} /\ r.parent \in Nat /\ r.nlookup \in Nat
         /\ r.refctr \in Nat /\ r.open \in Nat /\ r.hidden \in BOOLEAN
  BY DEF Node

\* A table that differs from a good one in the name of one node, and in the count of its
\* old parent and its new one, is good again.
LEMMA MovedHash ==
  ASSUME NEW t, GoodTable(t), NEW u, NEW n \in DOMAIN t \ {Root}, NEW nm, NEW p,
         Moved(t, u, n, nm, p),
         nm = NoName => p = 0,
         nm # NoName => p \in DOMAIN t /\ \A c \in lookup_node(t, p, nm) : c = n
  PROVE  HashOK(u)
<1>1. DOMAIN u = DOMAIN t /\ u[n].name = nm /\ u[n].parent = p
  BY DEF Moved, SameCounts
<1>2. \A m \in DOMAIN t : m # n => u[m].name = t[m].name /\ u[m].parent = t[m].parent
  BY DEF Moved
<1>3. u[Root].name = NoName
  BY <1>2 DEF GoodTable, TableOK, HashOK
<1>4. \A m \in DOMAIN u : u[m].name # NoName => u[m].parent \in DOMAIN u
  BY <1>1, <1>2 DEF GoodTable, HashOK
<1>5. \A m \in DOMAIN u : u[m].name = NoName => u[m].parent = 0
  BY <1>1, <1>2 DEF GoodTable, HashOK
<1>6. ASSUME NEW m \in DOMAIN t \ {Root}, NEW c \in DOMAIN t \ {Root},
             u[m].name # NoName, u[m].name = u[c].name, u[m].parent = u[c].parent
      PROVE  m = c
  <2>1. CASE m # n /\ c # n
    BY <1>2, <1>6, <2>1 DEF GoodTable, HashOK
  <2>2. CASE m = n /\ c # n
    BY <1>1, <1>2, <1>6, <2>2 DEF lookup_node
  <2>3. CASE m # n /\ c = n
    BY <1>1, <1>2, <1>6, <2>3 DEF lookup_node
  <2> QED
    BY <2>1, <2>2, <2>3
<1> QED
  BY <1>1, <1>3, <1>4, <1>5, <1>6 DEF HashOK

\* unhash_name takes the name from the node and a reference from its parent, which is
\* never the last one.
LEMMA Unhash ==
  ASSUME NEW t, GoodTable(t), NEW n \in DOMAIN t \ {Root}
  PROVE  GoodTable(unhash_name(t, n)) /\ Moved(t, unhash_name(t, n), n, NoName, 0)
<1>1. CASE t[n].name = NoName
  BY <1>1 DEF unhash_name, Moved, SameCounts, GoodTable, HashOK
<1>2. CASE t[n].name # NoName
  <2>1. PICK p : p = t[n].parent
    OBVIOUS
  <2>2. PICK t1 : t1 = [t EXCEPT ![n].name = NoName, ![n].parent = 0]
    OBVIOUS
  <2>3. PICK u : u = unhash_name(t, n)
    OBVIOUS
  <2>4. p \in DOMAIN t /\ t[p].refctr \in Nat /\ t[p].refctr - 1 \in Nat \ {0}
    BY <1>2, <2>1, ParentRefs
  <2>5. \A m \in DOMAIN t : t[m] \in Node
    BY DEF GoodTable, TableOK
  <2>6. /\ DOMAIN t1 = DOMAIN t
        /\ t1[n] = [t[n] EXCEPT !.name = NoName, !.parent = 0]
        /\ \A m \in DOMAIN t \ {n} : t1[m] = t[m]
    BY <2>2
  <2>8. /\ t1[n] \in Node /\ t1[n].name = NoName /\ t1[n].parent = 0
        /\ t1[n].nlookup = t[n].nlookup /\ t1[n].refctr = t[n].refctr
        /\ t1[n].open = t[n].open /\ t1[n].hidden = t[n].hidden
    <3>1. PICK r \in Node : r = t[n]
      BY <2>5
    <3>2. PICK v : v = [r EXCEPT !.name = NoName, !.parent = 0]
      OBVIOUS
    <3>3. /\ v \in Node /\ v.name = NoName /\ v.parent = 0
          /\ v.nlookup = r.nlookup /\ v.refctr = r.refctr
          /\ v.open = r.open /\ v.hidden = r.hidden
      BY <3>2 DEF Node
    <3> QED
      BY <2>6, <3>1, <3>2, <3>3
  <2>7. \A m \in DOMAIN t :
           /\ t1[m] \in Node /\ t1[m].nlookup = t[m].nlookup /\ t1[m].refctr = t[m].refctr
           /\ t1[m].open = t[m].open /\ t1[m].hidden = t[m].hidden
    BY <2>5, <2>6, <2>8
  <2>9. u = [t1 EXCEPT ![p].refctr = @ - 1]
    BY <1>2, <2>1, <2>2, <2>3, <2>4, <2>7 DEF unhash_name, unref_node
  <2>10. /\ DOMAIN u = DOMAIN t
         /\ u[p] = [t1[p] EXCEPT !.refctr = t[p].refctr - 1]
         /\ \A m \in DOMAIN t \ {p} : u[m] = t1[m]
    BY <2>4, <2>6, <2>7, <2>9
  <2>11. \A m \in DOMAIN t :
           /\ u[m] \in Node /\ u[m].name = t1[m].name /\ u[m].parent = t1[m].parent
           /\ u[m].nlookup = t1[m].nlookup /\ u[m].open = t1[m].open
           /\ u[m].hidden = t1[m].hidden
           /\ u[m].refctr = IF m = p THEN t[m].refctr - 1 ELSE t[m].refctr
    <3>1. /\ u[p] \in Node /\ u[p].name = t1[p].name /\ u[p].parent = t1[p].parent
          /\ u[p].nlookup = t1[p].nlookup /\ u[p].open = t1[p].open
          /\ u[p].hidden = t1[p].hidden /\ u[p].refctr = t[p].refctr - 1
      BY <2>4, <2>7, <2>10 DEF Node
    <3> QED
      BY <2>7, <2>10, <3>1
  <2>12. Moved(t, u, n, NoName, 0)
    <3>1. \A m \in DOMAIN t \ {n} : t1[m].name = t[m].name /\ t1[m].parent = t[m].parent
      BY <2>6
    <3>2. SameCounts(t, u)
      BY <2>7, <2>10, <2>11 DEF SameCounts
    <3> QED
      BY <2>8, <2>11, <3>1, <3>2 DEF Moved
  <2>13. TableOK(u)
    <3>1. u = [m \in DOMAIN t |-> u[m]]
      BY <2>6, <2>9
    <3> QED
      BY <2>10, <2>11, <3>1 DEF GoodTable, TableOK
  <2>14. HashOK(u)
    BY <2>12, MovedHash
  <2>15. RefsOK(u)
    <3> SUFFICES ASSUME NEW m \in DOMAIN t PROVE u[m].refctr = Cardinality(Children(u, m)) + 1
      BY <2>10 DEF RefsOK
    <3>1. Children(u, m) = IF m = p THEN Children(t, m) \ {n} ELSE Children(t, m)
      BY <2>1, <2>12 DEF Children, Moved, SameCounts
    <3>2. IsFiniteSet(Children(t, m)) /\ Cardinality(Children(t, m)) \in Nat
      BY ChildrenFinite DEF GoodTable
    <3>3. t[m].refctr = Cardinality(Children(t, m)) + 1 /\ (m = p => n \in Children(t, m))
      BY <1>2, <2>1 DEF GoodTable, RefsOK, Children
    <3>4. Cardinality(Children(t, m) \ {n}) =
             IF n \in Children(t, m) THEN Cardinality(Children(t, m)) - 1
             ELSE Cardinality(Children(t, m))
      BY <3>2, FS_RemoveElement
    <3> QED
      BY <2>11, <3>1, <3>2, <3>3, <3>4
  <2> QED
    BY <2>3, <2>12, <2>13, <2>14, <2>15 DEF GoodTable
<1> QED
  BY <1>1, <1>2

\* hash_name gives a node without a name one that is free, and its parent a reference.
LEMMA Hash ==
  ASSUME NEW t, GoodTable(t), NEW n \in DOMAIN t \ {Root}, NEW p \in DOMAIN t,
         NEW nm \in AllNames, t[n].name = NoName, lookup_node(t, p, nm) = {}
  PROVE  GoodTable(hash_name(t, n, p, nm)) /\ Moved(t, hash_name(t, n, p, nm), n, nm, p)
<1>1. PICK u : u = hash_name(t, n, p, nm)
  OBVIOUS
<1>2. PICK t1 : t1 = [t EXCEPT ![p].refctr = @ + 1]
  OBVIOUS
<1>3. t \in [DOMAIN t -> Node] /\ \A m \in DOMAIN t : t[m] \in Node
  BY DEF GoodTable, TableOK
<1>4. p \in Nat /\ nm # NoName /\ t[p].refctr + 1 \in Nat
  <2>1. p \in Nat
    BY FuseNodesAssumption DEF GoodTable, TableOK
  <2> QED
    BY <1>3, <2>1, NodeType, NameFacts
<1>5. /\ DOMAIN t1 = DOMAIN t
      /\ t1[p] = [t[p] EXCEPT !.refctr = t[p].refctr + 1]
      /\ \A m \in DOMAIN t \ {p} : t1[m] = t[m]
  BY <1>2
<1>6. \A m \in DOMAIN t :
         /\ t1[m] \in Node /\ t1[m].name = t[m].name /\ t1[m].parent = t[m].parent
         /\ t1[m].nlookup = t[m].nlookup
         /\ t1[m].open = t[m].open /\ t1[m].hidden = t[m].hidden
         /\ t1[m].refctr = IF m = p THEN t[m].refctr + 1 ELSE t[m].refctr
  <2>1. /\ t1[p] \in Node /\ t1[p].name = t[p].name /\ t1[p].parent = t[p].parent
        /\ t1[p].nlookup = t[p].nlookup /\ t1[p].refctr = t[p].refctr + 1
        /\ t1[p].open = t[p].open /\ t1[p].hidden = t[p].hidden
    BY <1>3, <1>4, <1>5 DEF Node
  <2> QED
    BY <1>3, <1>5, <2>1
<1>7. u = [t1 EXCEPT ![n].name = nm, ![n].parent = p]
  BY <1>1, <1>2 DEF hash_name
<1>8. /\ DOMAIN u = DOMAIN t
      /\ u[n] = [t1[n] EXCEPT !.name = nm, !.parent = p]
      /\ \A m \in DOMAIN t \ {n} : u[m] = t1[m]
  BY <1>5, <1>7
<1>9. /\ u[n] \in Node /\ u[n].name = nm /\ u[n].parent = p
      /\ u[n].nlookup = t1[n].nlookup /\ u[n].refctr = t1[n].refctr
      /\ u[n].open = t1[n].open /\ u[n].hidden = t1[n].hidden
  BY <1>4, <1>6, <1>8, ZenonT(60) DEF Node
<1>10. \A m \in DOMAIN t :
         /\ u[m] \in Node /\ u[m].nlookup = t1[m].nlookup /\ u[m].refctr = t1[m].refctr
         /\ u[m].open = t1[m].open /\ u[m].hidden = t1[m].hidden
  BY <1>6, <1>8, <1>9
<1>11. Moved(t, u, n, nm, p)
  BY <1>6, <1>8, <1>9, <1>10 DEF Moved, SameCounts
<1>12. TableOK(u)
  <2>1. u = [m \in DOMAIN t |-> u[m]]
    BY <1>5, <1>7
  <2> QED
    BY <1>8, <1>10, <2>1 DEF GoodTable, TableOK
<1>13. HashOK(u)
  BY <1>4, <1>11, MovedHash
<1>14. RefsOK(u)
  <2> SUFFICES ASSUME NEW m \in DOMAIN t PROVE u[m].refctr = Cardinality(Children(u, m)) + 1
    BY <1>8 DEF RefsOK
  <2>1. Children(u, m) = IF m = p THEN Children(t, m) \cup {n} ELSE Children(t, m)
    BY <1>4, <1>11 DEF Children, Moved, SameCounts
  <2>2. IsFiniteSet(Children(t, m)) /\ Cardinality(Children(t, m)) \in Nat
    BY ChildrenFinite DEF GoodTable
  <2>3. t[m].refctr = Cardinality(Children(t, m)) + 1 /\ n \notin Children(t, m)
    BY DEF GoodTable, RefsOK, Children
  <2>4. Cardinality(Children(t, m) \cup {n}) = Cardinality(Children(t, m)) + 1
    BY <2>2, <2>3, FS_AddElement
  <2> QED
    BY <1>6, <1>10, <2>1, <2>2, <2>3, <2>4
<1> QED
  BY <1>1, <1>11, <1>12, <1>13, <1>14 DEF GoodTable

\* Node m of u is node m of t, but for the count of references.
Like(t, u, m) ==
    /\ u[m].name = t[m].name /\ u[m].parent = t[m].parent
    /\ u[m].nlookup = t[m].nlookup /\ u[m].open = t[m].open /\ u[m].hidden = t[m].hidden

\* Node n of u has other counts of lookups and of open files, and nothing else differs.
Counted(t, u, n, lookups, open, hidden) ==
    /\ DOMAIN u = DOMAIN t
    /\ u[n].name = t[n].name /\ u[n].parent = t[n].parent
    /\ u[n].nlookup = lookups /\ u[n].open = open /\ u[n].hidden = hidden
    /\ \A m \in DOMAIN t \ {n} : Like(t, u, m)

\* Node n is new in u, looked up once.
Added(t, u, n, nm, p) ==
    /\ DOMAIN u = DOMAIN t \cup {n}
    /\ u[n].name = nm /\ u[n].parent = p
    /\ u[n].nlookup = 1 /\ u[n].open = 0 /\ u[n].hidden = FALSE
    /\ \A m \in DOMAIN t : Like(t, u, m)

\* Node n is no more in u.
Dropped(t, u, n) ==
    /\ DOMAIN u = DOMAIN t \ {n}
    /\ \A m \in DOMAIN t \ {n} : Like(t, u, m)

\* Node n has another name and parent in u, and perhaps has become a hidden file.
Relinked(t, u, n, nm, p, hidden) ==
    /\ DOMAIN u = DOMAIN t
    /\ u[n].name = nm /\ u[n].parent = p
    /\ u[n].nlookup = t[n].nlookup /\ u[n].open = t[n].open /\ u[n].hidden = hidden
    /\ \A m \in DOMAIN t \ {n} : Like(t, u, m)

\* Good tables of the same nodes differ in nothing.
LEMMA SameTable ==
  ASSUME NEW t, GoodTable(t), NEW u, GoodTable(u), DOMAIN u = DOMAIN t,
         \A m \in DOMAIN t : Like(t, u, m)
  PROVE  u = t
<1>1. \A m \in DOMAIN t : Children(u, m) = Children(t, m)
  BY DEF Children, Like
<1>2. ASSUME NEW m \in DOMAIN t PROVE u[m] = t[m]
  <2>1. PICK a, b : a = u[m] /\ b = t[m]
    OBVIOUS
  <2>2. a.refctr = b.refctr
    BY <1>1, <2>1 DEF GoodTable, RefsOK
  <2>3. a \in Node /\ b \in Node
    BY <2>1 DEF GoodTable, TableOK
  <2>4. /\ a.name = b.name /\ a.parent = b.parent /\ a.nlookup = b.nlookup
        /\ a.open = b.open /\ a.hidden = b.hidden
    BY <2>1 DEF Like
  <2>5. a = b
    BY <2>2, <2>3, <2>4 DEF Node
  <2> QED
    BY <2>1, <2>5
<1>3. t \in [DOMAIN t -> Node] /\ u \in [DOMAIN t -> Node]
  BY DEF GoodTable, TableOK
<1> QED
  BY <1>2, <1>3

\* A table in which the counts of a node are changed is good.
LEMMA SetCounts ==
  ASSUME NEW t, GoodTable(t), NEW n \in DOMAIN t, NEW v \in Node,
         v.name = t[n].name, v.parent = t[n].parent, v.refctr = t[n].refctr
  PROVE  LET u == [t EXCEPT ![n] = v]
         IN  GoodTable(u) /\ Counted(t, u, n, v.nlookup, v.open, v.hidden)
<1>1. PICK u : u = [t EXCEPT ![n] = v]
  OBVIOUS
<1>2. t \in [DOMAIN t -> Node] /\ \A m \in DOMAIN t : t[m] \in Node
  BY DEF GoodTable, TableOK
<1>3. /\ DOMAIN u = DOMAIN t /\ u \in [DOMAIN t -> Node] /\ u[n] = v
      /\ \A m \in DOMAIN t \ {n} : u[m] = t[m]
  BY <1>1, <1>2
<1>4. TableOK(u)
  BY <1>3 DEF GoodTable, TableOK
<1>5. \A m \in DOMAIN t : /\ u[m].name = t[m].name /\ u[m].parent = t[m].parent
                          /\ u[m].refctr = t[m].refctr
  BY <1>3
<1>6. \A m \in DOMAIN t : Children(u, m) = Children(t, m)
  BY <1>3, <1>5 DEF Children
<1>7. RefsOK(u)
  BY <1>3, <1>5, <1>6 DEF GoodTable, RefsOK
<1>8. HashOK(u)
  BY <1>3, <1>5 DEF GoodTable, HashOK, TableOK
<1>9. Counted(t, u, n, v.nlookup, v.open, v.hidden)
  BY <1>3 DEF Counted, Like
<1> QED
  BY <1>1, <1>4, <1>7, <1>8, <1>9 DEF GoodTable

LEMMA SetLookups ==
  ASSUME NEW t, GoodTable(t), NEW n \in DOMAIN t, NEW k \in Nat
  PROVE  LET u == [t EXCEPT ![n].nlookup = k]
         IN  GoodTable(u) /\ Counted(t, u, n, k, t[n].open, t[n].hidden)
<1>1. PICK r \in Node : r = t[n]
  BY DEF GoodTable, TableOK
<1>2. PICK v : v = [r EXCEPT !.nlookup = k]
  OBVIOUS
<1>3. /\ v \in Node /\ v.name = r.name /\ v.parent = r.parent /\ v.nlookup = k
      /\ v.refctr = r.refctr /\ v.open = r.open /\ v.hidden = r.hidden
  BY <1>2 DEF Node
<1>4. [t EXCEPT ![n].nlookup = k] = [t EXCEPT ![n] = v]
  BY <1>1, <1>2
<1> QED
  BY <1>1, <1>3, <1>4, SetCounts

LEMMA SetOpen ==
  ASSUME NEW t, GoodTable(t), NEW n \in DOMAIN t, NEW k \in Nat, NEW b \in BOOLEAN
  PROVE  LET u == [t EXCEPT ![n].open = k, ![n].hidden = b]
         IN  GoodTable(u) /\ Counted(t, u, n, t[n].nlookup, k, b)
<1>1. PICK r \in Node : r = t[n]
  BY DEF GoodTable, TableOK
<1>2. PICK v : v = [r EXCEPT !.open = k, !.hidden = b]
  OBVIOUS
<1>3. /\ v \in Node /\ v.name = r.name /\ v.parent = r.parent /\ v.nlookup = r.nlookup
      /\ v.refctr = r.refctr /\ v.open = k /\ v.hidden = b
  BY <1>2 DEF Node
<1>4. [t EXCEPT ![n].open = k, ![n].hidden = b] = [t EXCEPT ![n] = v]
  BY <1>1, <1>2
<1> QED
  BY <1>1, <1>3, <1>4, SetCounts

LEMMA SetOpenOnly ==
  ASSUME NEW t, GoodTable(t), NEW n \in DOMAIN t, NEW k \in Nat
  PROVE  LET u == [t EXCEPT ![n].open = k]
         IN  GoodTable(u) /\ Counted(t, u, n, t[n].nlookup, k, t[n].hidden)
<1>1. PICK r \in Node : r = t[n]
  BY DEF GoodTable, TableOK
<1>2. PICK v : v = [r EXCEPT !.open = k]
  OBVIOUS
<1>3. /\ v \in Node /\ v.name = r.name /\ v.parent = r.parent /\ v.nlookup = r.nlookup
      /\ v.refctr = r.refctr /\ v.open = k /\ v.hidden = r.hidden
  BY <1>2 DEF Node
<1>4. [t EXCEPT ![n].open = k] = [t EXCEPT ![n] = v]
  BY <1>1, <1>2
<1> QED
  BY <1>1, <1>3, <1>4, SetCounts

LEMMA SetHidden ==
  ASSUME NEW t, GoodTable(t), NEW n \in DOMAIN t, NEW b \in BOOLEAN
  PROVE  LET u == [t EXCEPT ![n].hidden = b]
         IN  GoodTable(u) /\ Counted(t, u, n, t[n].nlookup, t[n].open, b)
<1>1. PICK r \in Node : r = t[n]
  BY DEF GoodTable, TableOK
<1>2. PICK v : v = [r EXCEPT !.hidden = b]
  OBVIOUS
<1>3. /\ v \in Node /\ v.name = r.name /\ v.parent = r.parent /\ v.nlookup = r.nlookup
      /\ v.refctr = r.refctr /\ v.open = r.open /\ v.hidden = b
  BY <1>2 DEF Node
<1>4. [t EXCEPT ![n].hidden = b] = [t EXCEPT ![n] = v]
  BY <1>1, <1>2
<1> QED
  BY <1>1, <1>3, <1>4, SetCounts

\* A name that is looked up belongs to one node.
LEMMA OneFound ==
  ASSUME NEW t, GoodTable(t), NEW p, NEW nm, nm # NoName, NEW n \in lookup_node(t, p, nm)
  PROVE  /\ lookup_node(t, p, nm) = {n} /\ (CHOOSE m \in lookup_node(t, p, nm) : TRUE) = n
         /\ n \in DOMAIN t \ {Root} /\ t[n].name = nm /\ t[n].parent = p /\ p \in DOMAIN t
<1>1. lookup_node(t, p, nm) = {n}
  BY DEF GoodTable, HashOK, lookup_node
<1> QED
  BY <1>1 DEF GoodTable, HashOK, lookup_node

-----------------------------------------------------------------------------
(* Nodes that come and go.                                                 *)

\* A set of natural numbers that is not empty has a least element.
LEMMA LeastNumber ==
  ASSUME NEW T \in SUBSET Nat, T # {}
  PROVE  \E n \in T : \A k \in T : n <= k
<1> DEFINE R == StrictSubsetOrdering(Nat)
           F == {0..n : n \in T}
<1>1. F \subseteq FiniteSubsetsOf(Nat) /\ F # {}
  <2>1. \A n \in T : 0..n \in FiniteSubsetsOf(Nat)
    BY FS_Interval DEF FiniteSubsetsOf
  <2> QED
    BY <2>1
<1>2. PICK U \in F : \A V \in F : ~(<<V, U>> \in R)
  <2>1. IsWellFoundedOn(R, FiniteSubsetsOf(Nat))
    BY FS_StrictSubsetOrderingWellFounded
  <2> HIDE DEF R, F
  <2> QED
    BY <1>1, <2>1, WFMin
<1>3. PICK n \in T : U = 0..n
  OBVIOUS
<1>4. ASSUME NEW k \in T, k < n PROVE FALSE
  <2>1. 0..k \in F /\ 0..k \subseteq 0..n /\ n \in 0..n /\ n \notin 0..k
    BY <1>4
  <2>2. <<0..k, U>> \in R
    BY <1>3, <2>1 DEF StrictSubsetOrdering
  <2> QED
    BY <1>2, <2>1, <2>2
<1> QED
  BY <1>4

\* A remainder is what it should be.
LEMMA Remainder ==
  ASSUME NEW x \in Int, NEW b \in Nat \ {0}, NEW r \in 0..(b - 1), x = r \/ x = b + r
  PROVE  x % b = r
<1>1. CASE x = r
  BY <1>1
<1>2. CASE x = b + r
  BY <1>2
<1> QED
  BY <1>1, <1>2

\* next_id goes round all ids but the last, and finds one that is free.
LEMMA NextId ==
  ASSUME NEW t, TableOK(t), ctr \in 1..(IdSpace - 1), Free(t)
  PROVE  next_id(t) \in 1..(IdSpace - 1) /\ next_id(t) \notin DOMAIN t
<1> DEFINE N == IdSpace - 1
           Later(k) == ((ctr + k - 1) % (IdSpace - 1)) + 1
           J == {j \in 1..IdSpace : Later(j) \notin DOMAIN t}
           Good(j) == Later(j) \notin DOMAIN t /\ \A i \in 1..(j - 1) : Later(i) \in DOMAIN t
<1>1. N \in Nat \ {0} /\ IdSpace = N + 1
  BY FuseNodesAssumption
<1>2. \A k \in 1..IdSpace : Later(k) \in 1..N
  BY <1>1
<1>3. PICK x \in 1..N : x \notin DOMAIN t
  BY DEF Free, TableOK
<1>4. \E j \in 1..IdSpace : Later(j) = x
  <2>1. CASE x > ctr
    <3>1. PICK j \in 1..IdSpace : j = x - ctr
      BY <1>1, <2>1
    <3>2. ctr + j - 1 = x - 1 /\ x - 1 \in 0..(N - 1) /\ ctr + j - 1 \in Int
      BY <1>1, <3>1
    <3>3. (ctr + j - 1) % N = x - 1
      BY <1>1, <3>2, Remainder
    <3> QED
      BY <3>1, <3>3
  <2>2. CASE x <= ctr
    <3>1. PICK j \in 1..IdSpace : j = N + x - ctr
      BY <1>1, <2>2
    <3>2. ctr + j - 1 = N + (x - 1) /\ x - 1 \in 0..(N - 1) /\ ctr + j - 1 \in Int
      BY <1>1, <3>1
    <3>3. (ctr + j - 1) % N = x - 1
      BY <1>1, <3>2, Remainder
    <3> QED
      BY <3>1, <3>3
  <2> QED
    BY <1>1, <2>1, <2>2
<1>5. \E j \in 1..IdSpace : Good(j)
  <2>1. J \in SUBSET Nat /\ J # {}
    BY <1>3, <1>4
  <2>2. PICK j \in J : \A i \in J : j <= i
    <3> HIDE DEF J
    <3> QED
      BY <2>1, LeastNumber
  <2>3. j \in 1..IdSpace /\ Later(j) \notin DOMAIN t
    OBVIOUS
  <2>4. ASSUME NEW i \in 1..(j - 1) PROVE Later(i) \in DOMAIN t
    <3>1. i \in 1..IdSpace /\ ~(j <= i)
      BY <1>1, <2>3
    <3> HIDE DEF Later
    <3> QED
      BY <2>2, <3>1
  <2> QED
    BY <2>3, <2>4
<1> DEFINE k == CHOOSE j \in 1..IdSpace : Good(j)
<1>6. next_id(t) = Later(k)
  BY DEF next_id
<1>7. k \in 1..IdSpace /\ Good(k)
  <2> HIDE DEF Good
  <2> QED
    BY <1>5
<1> HIDE DEF k, Later
<1> QED
  BY <1>2, <1>6, <1>7

\* A node that next_id made, and that gets its name at once.
LEMMA NewHash ==
  ASSUME NEW t, GoodTable(t), NEW n \in 1..(IdSpace - 1), n \notin DOMAIN t,
         NEW p \in DOMAIN t, NEW nm \in AllNames, lookup_node(t, p, nm) = {}
  PROVE  LET u == hash_name(With(t, n, NewNode), n, p, nm)
         IN  GoodTable(u) /\ Added(t, u, n, nm, p)
<1>1. PICK w : w = With(t, n, NewNode)
  OBVIOUS
<1>2. PICK u : u = hash_name(w, n, p, nm)
  OBVIOUS
<1>3. /\ NewNode \in Node /\ NewNode.name = NoName /\ NewNode.parent = 0
      /\ NewNode.nlookup = 1 /\ NewNode.refctr = 1
      /\ NewNode.open = 0 /\ NewNode.hidden = FALSE
  BY DEF NewNode, Node
<1>4. /\ DOMAIN w = DOMAIN t \cup {n} /\ w[n] = NewNode
      /\ \A m \in DOMAIN t : w[m] = t[m]
  BY <1>1 DEF With
<1>5. TableOK(w)
  <2>1. w = [m \in DOMAIN t \cup {n} |-> w[m]]
    BY <1>1 DEF With
  <2>2. \A m \in DOMAIN t \cup {n} : w[m] \in Node
    BY <1>3, <1>4 DEF GoodTable, TableOK
  <2> QED
    BY <1>4, <2>1, <2>2 DEF GoodTable, TableOK
<1>6. n # Root /\ n # 0
  BY DEF GoodTable, TableOK
<1>7. HashOK(w)
  <2>1. w[Root].name = NoName
    BY <1>4 DEF GoodTable, TableOK, HashOK
  <2>2. \A m \in DOMAIN w : w[m].name # NoName => w[m].parent \in DOMAIN w
    BY <1>3, <1>4 DEF GoodTable, HashOK
  <2>3. \A m \in DOMAIN w : w[m].name = NoName => w[m].parent = 0
    BY <1>3, <1>4 DEF GoodTable, HashOK
  <2>4. \A m, c \in DOMAIN w \ {Root} :
          (w[m].name # NoName /\ w[m].name = w[c].name /\ w[m].parent = w[c].parent) => m = c
    BY <1>3, <1>4 DEF GoodTable, HashOK
  <2> QED
    BY <2>1, <2>2, <2>3, <2>4 DEF HashOK
<1>8. RefsOK(w)
  <2>1. \A m \in DOMAIN t : Children(w, m) = Children(t, m)
    BY <1>3, <1>4 DEF Children
  <2>2. Children(w, n) = {}
    BY <1>3, <1>4 DEF Children, GoodTable, HashOK
  <2>3. w[n].refctr = Cardinality(Children(w, n)) + 1
    BY <1>3, <1>4, <2>2, FS_EmptySet
  <2> QED
    BY <1>4, <2>1, <2>3 DEF GoodTable, RefsOK
<1>9. lookup_node(w, p, nm) = {}
  BY <1>3, <1>4, NameFacts DEF lookup_node
<1>10. GoodTable(u) /\ Moved(w, u, n, nm, p)
  <2>1. GoodTable(w) /\ n \in DOMAIN w \ {Root} /\ p \in DOMAIN w /\ w[n].name = NoName
    BY <1>3, <1>4, <1>5, <1>6, <1>7, <1>8 DEF GoodTable
  <2> QED
    BY <1>2, <1>9, <2>1, Hash
<1>11. Added(t, u, n, nm, p)
  <2>1. \A m \in DOMAIN t : m # n
    OBVIOUS
  <2> QED
    BY <1>3, <1>4, <1>10, <2>1 DEF Added, Like, Moved, SameCounts
<1> QED
  BY <1>1, <1>2, <1>10, <1>11

\* A node without nodes below it is gone once all its lookups are forgotten.
LEMMA Drop ==
  ASSUME NEW t, GoodTable(t), NEW n \in DOMAIN t \ {Root}, Children(t, n) = {}
  PROVE  LET u == forget_node(t, n, t[n].nlookup)
         IN  GoodTable(u) /\ Dropped(t, u, n)
<1>1. PICK t0 : t0 = [t EXCEPT ![n].nlookup = 0]
  OBVIOUS
<1>2. GoodTable(t0) /\ Counted(t, t0, n, 0, t[n].open, t[n].hidden)
  BY <1>1, SetLookups
<1>3. PICK t1 : t1 = unhash_name(t0, n)
  OBVIOUS
<1>4. GoodTable(t1) /\ Moved(t0, t1, n, NoName, 0)
  <2>1. n \in DOMAIN t0 \ {Root}
    BY <1>2 DEF Counted
  <2> QED
    BY <1>2, <1>3, <2>1, Unhash
<1>5. DOMAIN t1 = DOMAIN t /\ \A m \in DOMAIN t \ {n} : Like(t, t1, m)
  BY <1>2, <1>4 DEF Counted, Moved, SameCounts, Like
<1>6. t1[n].name = NoName
  BY <1>4 DEF Moved
<1>7. Children(t1, n) = {}
  BY <1>5, <1>6 DEF Children, Like
<1>8. t1[n].refctr = 1
  BY <1>4, <1>5, <1>7, FS_EmptySet DEF GoodTable, RefsOK
<1>9. PICK u : u = forget_node(t, n, t[n].nlookup)
  OBVIOUS
<1>10. u = Without(t1, n)
  BY <1>1, <1>3, <1>8, <1>9 DEF forget_node, unref_node
<1>11. DOMAIN u = DOMAIN t \ {n} /\ \A m \in DOMAIN t \ {n} : u[m] = t1[m]
  BY <1>5, <1>10 DEF Without
<1>12. TableOK(u)
  <2>1. u = [m \in DOMAIN u |-> u[m]]
    BY <1>10 DEF Without
  <2>2. \A m \in DOMAIN u : u[m] \in Node
    BY <1>4, <1>5, <1>11 DEF GoodTable, TableOK
  <2> QED
    BY <1>11, <2>1, <2>2 DEF GoodTable, TableOK
<1>13. \A m \in DOMAIN u : Children(u, m) = Children(t1, m)
  BY <1>5, <1>6, <1>11 DEF Children
<1>14. RefsOK(u)
  BY <1>4, <1>5, <1>11, <1>13 DEF GoodTable, RefsOK
<1>15. HashOK(u)
  <2>1. u[Root].name = NoName
    BY <1>4, <1>11 DEF GoodTable, TableOK, HashOK
  <2>2. \A m \in DOMAIN u : u[m].name # NoName => u[m].parent \in DOMAIN u
    <3>1. \A m \in DOMAIN u : u[m].name # NoName => u[m].parent \in DOMAIN t1
      BY <1>4, <1>5, <1>11 DEF GoodTable, HashOK
    <3>2. \A m \in DOMAIN u : u[m].name # NoName => u[m].parent # n
      BY <1>5, <1>7, <1>11 DEF Children
    <3> QED
      BY <1>5, <1>11, <3>1, <3>2
  <2>3. \A m \in DOMAIN u : u[m].name = NoName => u[m].parent = 0
    BY <1>4, <1>5, <1>11 DEF GoodTable, HashOK
  <2>4. \A m, c \in DOMAIN u \ {Root} :
          (u[m].name # NoName /\ u[m].name = u[c].name /\ u[m].parent = u[c].parent) => m = c
    BY <1>4, <1>5, <1>11 DEF GoodTable, HashOK
  <2> QED
    BY <2>1, <2>2, <2>3, <2>4 DEF HashOK
<1>16. Dropped(t, u, n)
  BY <1>5, <1>11 DEF Dropped, Like
<1> QED
  BY <1>9, <1>12, <1>14, <1>15, <1>16 DEF GoodTable

\* find_node: a known name is looked up once more, an unknown one gets a node.
LEMMA FindOld ==
  ASSUME NEW t, GoodTable(t), NEW p, NEW nm, nm # NoName, NEW n \in lookup_node(t, p, nm)
  PROVE  LET u == find_node(t, p, nm)
         IN  /\ FoundId(t, p, nm) = n /\ n \in DOMAIN t \ {Root}
             /\ GoodTable(u) /\ Counted(t, u, n, t[n].nlookup + 1, t[n].open, t[n].hidden)
<1>1. /\ lookup_node(t, p, nm) # {} /\ (CHOOSE m \in lookup_node(t, p, nm) : TRUE) = n
      /\ n \in DOMAIN t \ {Root}
  BY OneFound
<1>2. FoundId(t, p, nm) = n /\ find_node(t, p, nm) = [t EXCEPT ![n].nlookup = @ + 1]
  BY <1>1 DEF FoundId, find_node
<1>3. PICK k \in Nat : k = t[n].nlookup + 1
  BY <1>1, NodeType DEF GoodTable, TableOK
<1>4. PICK u : u = [t EXCEPT ![n].nlookup = k]
  OBVIOUS
<1>5. GoodTable(u) /\ Counted(t, u, n, k, t[n].open, t[n].hidden)
  BY <1>1, <1>4, SetLookups
<1>6. find_node(t, p, nm) = u
  BY <1>2, <1>3, <1>4
<1> QED
  BY <1>1, <1>2, <1>3, <1>5, <1>6

LEMMA FindNew ==
  ASSUME NEW t, GoodTable(t), ctr \in 1..(IdSpace - 1), Free(t),
         NEW p \in DOMAIN t, NEW nm \in AllNames, lookup_node(t, p, nm) = {}
  PROVE  LET n == FoundId(t, p, nm)
             u == find_node(t, p, nm)
         IN  /\ n \in 1..(IdSpace - 1) /\ n \notin DOMAIN t
             /\ GoodTable(u) /\ Added(t, u, n, nm, p)
<1>1. PICK n : n = next_id(t)
  OBVIOUS
<1>2. FoundId(t, p, nm) = n
  BY <1>1 DEF FoundId
<1>3. find_node(t, p, nm) = hash_name(With(t, n, NewNode), n, p, nm)
  BY <1>2 DEF find_node
<1>4. n \in 1..(IdSpace - 1) /\ n \notin DOMAIN t
  BY <1>1, NextId DEF GoodTable
<1> QED
  BY <1>2, <1>3, <1>4, NewHash

\* A reply that is taken back leaves the table as it was.
LEMMA TakenBackOld ==
  ASSUME NEW t, GoodTable(t), NEW p, NEW nm, nm # NoName, NEW n \in lookup_node(t, p, nm),
         t[n].nlookup > 0
  PROVE  forget_node(find_node(t, p, nm), n, 1) = t
<1>1. PICK u : u = find_node(t, p, nm)
  OBVIOUS
<1>2. GoodTable(u) /\ Counted(t, u, n, t[n].nlookup + 1, t[n].open, t[n].hidden)
      /\ n \in DOMAIN t
  BY <1>1, FindOld
<1>3. t[n].nlookup \in Nat
  BY <1>2, NodeType DEF GoodTable, TableOK
<1>4. n \in DOMAIN u /\ u[n].nlookup = t[n].nlookup + 1
  BY <1>2 DEF Counted
<1>5. u[n].nlookup # 1 /\ u[n].nlookup - 1 = t[n].nlookup
  BY <1>3, <1>4
<1>6. PICK v : v = [u EXCEPT ![n].nlookup = t[n].nlookup]
  OBVIOUS
<1>7. forget_node(u, n, 1) = v
  BY <1>5, <1>6 DEF forget_node
<1>8. GoodTable(v) /\ Counted(u, v, n, t[n].nlookup, u[n].open, u[n].hidden)
  BY <1>2, <1>3, <1>4, <1>6, SetLookups
<1>9. DOMAIN v = DOMAIN t /\ \A m \in DOMAIN t : Like(t, v, m)
  BY <1>2, <1>8 DEF Counted, Like
<1> QED
  BY <1>1, <1>7, <1>8, <1>9, SameTable

LEMMA TakenBackNew ==
  ASSUME NEW t, GoodTable(t), NEW u, GoodTable(u), NEW n, n \notin DOMAIN t,
         NEW p \in DOMAIN t, NEW nm, Added(t, u, n, nm, p)
  PROVE  forget_node(u, n, 1) = t
<1>1. n \in DOMAIN u \ {Root} /\ u[n].nlookup = 1
  BY DEF Added, GoodTable, TableOK
<1>2. Children(u, n) = {}
  <2>1. \A c \in DOMAIN t : t[c].name # NoName => t[c].parent # n
    BY DEF GoodTable, HashOK
  <2> QED
    BY <2>1 DEF Children, Added, Like
<1>3. PICK v : v = forget_node(u, n, 1)
  OBVIOUS
<1>4. GoodTable(v) /\ Dropped(u, v, n)
  BY <1>1, <1>2, <1>3, Drop
<1>5. DOMAIN v = DOMAIN t /\ \A m \in DOMAIN t : Like(t, v, m)
  <2>1. DOMAIN v = DOMAIN t
    BY <1>4 DEF Dropped, Added
  <2>2. \A m \in DOMAIN t : Like(u, v, m) /\ Like(t, u, m)
    BY <1>4, <2>1 DEF Dropped, Added
  <2> QED
    BY <2>1, <2>2 DEF Like
<1> QED
  BY <1>3, <1>4, <1>5, SameTable

\* remove_node takes a name away.
LEMMA Remove ==
  ASSUME NEW t, GoodTable(t), NEW p, NEW nm, nm # NoName, NEW n \in lookup_node(t, p, nm)
  PROVE  LET u == remove_node(t, p, nm)
         IN  GoodTable(u) /\ Relinked(t, u, n, NoName, 0, t[n].hidden)
<1>1. /\ lookup_node(t, p, nm) # {} /\ (CHOOSE m \in lookup_node(t, p, nm) : TRUE) = n
      /\ n \in DOMAIN t \ {Root}
  BY OneFound
<1>2. remove_node(t, p, nm) = unhash_name(t, n)
  BY <1>1 DEF remove_node
<1>3. GoodTable(unhash_name(t, n)) /\ Moved(t, unhash_name(t, n), n, NoName, 0)
  BY <1>1, Unhash
<1> QED
  BY <1>1, <1>2, <1>3 DEF Relinked, Moved, SameCounts, Like

\* Another name for a node, in a directory that does not have it.
LEMMA Relink ==
  ASSUME NEW t, GoodTable(t), NEW n \in DOMAIN t \ {Root}, NEW q \in DOMAIN t,
         NEW new \in AllNames, lookup_node(t, q, new) = {}
  PROVE  LET u == hash_name(unhash_name(t, n), n, q, new)
         IN  GoodTable(u) /\ Relinked(t, u, n, new, q, t[n].hidden)
<1>1. PICK t1 : t1 = unhash_name(t, n)
  OBVIOUS
<1>2. PICK u : u = hash_name(t1, n, q, new)
  OBVIOUS
<1>3. GoodTable(t1) /\ Moved(t, t1, n, NoName, 0)
  BY <1>1, Unhash
<1>4. /\ n \in DOMAIN t1 \ {Root} /\ q \in DOMAIN t1 /\ t1[n].name = NoName
      /\ DOMAIN t1 = DOMAIN t
  BY <1>3 DEF Moved, SameCounts
<1>5. lookup_node(t1, q, new) = {}
  BY <1>3, <1>4, NameFacts DEF lookup_node, Moved
<1>6. GoodTable(u) /\ Moved(t1, u, n, new, q)
  BY <1>2, <1>3, <1>4, <1>5, Hash
<1>7. Relinked(t, u, n, new, q, t[n].hidden)
  <2>1. \A m \in DOMAIN t \ {n} : Like(t, u, m)
    BY <1>3, <1>4, <1>6 DEF Moved, SameCounts, Like
  <2> QED
    BY <1>3, <1>4, <1>6, <2>1 DEF Relinked, Moved, SameCounts
<1> QED
  BY <1>1, <1>2, <1>6, <1>7

\* rename_node with nothing in the way; a file that is hidden is marked so.
LEMMA RenameFree ==
  ASSUME NEW t, GoodTable(t), NEW p, NEW nm, nm # NoName, NEW n \in lookup_node(t, p, nm),
         NEW q \in DOMAIN t, NEW new \in AllNames, lookup_node(t, q, new) = {},
         NEW hide \in BOOLEAN
  PROVE  LET u == rename_node(t, p, nm, q, new, hide)
         IN  GoodTable(u) /\ Relinked(t, u, n, new, q, IF hide THEN TRUE ELSE t[n].hidden)
<1>1. /\ lookup_node(t, p, nm) # {} /\ (CHOOSE m \in lookup_node(t, p, nm) : TRUE) = n
      /\ n \in DOMAIN t \ {Root}
  BY OneFound
<1>2. PICK t1 : t1 = hash_name(unhash_name(t, n), n, q, new)
  OBVIOUS
<1>3. GoodTable(t1) /\ Relinked(t, t1, n, new, q, t[n].hidden)
  BY <1>1, <1>2, Relink
<1>4. remove_node(t, q, new) = t
  BY DEF remove_node
<1>5. CASE ~hide
  <2>1. rename_node(t, p, nm, q, new, hide) = t1
    BY <1>1, <1>2, <1>4, <1>5 DEF rename_node
  <2> QED
    BY <1>3, <1>5, <2>1
<1>6. CASE hide
  <2>1. PICK u : u = [t1 EXCEPT ![n].hidden = TRUE]
    OBVIOUS
  <2>2. rename_node(t, p, nm, q, new, hide) = u
    BY <1>1, <1>2, <1>4, <1>6, <2>1 DEF rename_node
  <2>3. GoodTable(u) /\ Counted(t1, u, n, t1[n].nlookup, t1[n].open, TRUE)
    BY <1>1, <1>3, <2>1, SetHidden DEF Relinked
  <2>4. Relinked(t, u, n, new, q, TRUE)
    BY <1>3, <2>3 DEF Relinked, Counted, Like
  <2> QED
    BY <1>6, <2>2, <2>3, <2>4
<1> QED
  BY <1>5, <1>6

\* rename_node for a rename, and for a file that is hidden.
ToName(t, p, nm, q, new) == rename_node(t, p, nm, q, new, FALSE)
ToHidden(t, p, nm, new) == rename_node(t, p, nm, p, new, TRUE)

\* rename_node over a node that has the name: that one loses it first.
LEMMA RenameOver ==
  ASSUME NEW t, GoodTable(t), NEW p, NEW nm, nm # NoName, NEW n \in lookup_node(t, p, nm),
         NEW q, NEW new \in AllNames, NEW c \in lookup_node(t, q, new), c # n
  PROVE  ToName(t, p, nm, q, new) = ToName(remove_node(t, q, new), p, nm, q, new)
<1>1. PICK w : w = remove_node(t, q, new)
  OBVIOUS
<1>2. new # NoName
  BY NameFacts
<1>3. GoodTable(w) /\ Relinked(t, w, c, NoName, 0, t[c].hidden)
  BY <1>1, <1>2, Remove
<1>4. lookup_node(t, q, new) = {c}
  BY <1>2, OneFound
<1>5. n \in lookup_node(w, p, nm)
  BY <1>3 DEF lookup_node, Relinked, Like
<1>6. lookup_node(w, q, new) = {}
  BY <1>2, <1>3, <1>4 DEF lookup_node, Relinked, Like
<1>7. remove_node(w, q, new) = w
  BY <1>6 DEF remove_node
<1>8. /\ (CHOOSE m \in lookup_node(w, p, nm) : TRUE) = n
      /\ (CHOOSE m \in lookup_node(t, p, nm) : TRUE) = n
      /\ lookup_node(w, p, nm) # {} /\ lookup_node(t, p, nm) # {}
  BY <1>3, <1>5, OneFound
<1>9. rename_node(t, p, nm, q, new, FALSE) = rename_node(w, p, nm, q, new, FALSE)
  BY <1>1, <1>7, <1>8 DEF rename_node
<1> QED
  BY <1>1, <1>9 DEF ToName

-----------------------------------------------------------------------------
(* The table, the objects of its nodes and the file system.                *)

EntryFor(dir, nm, x) == [dir |-> dir, name |-> nm, obj |-> x]

\* The node has a name, under which the file system has its object.
Alive(t, s, o, n) ==
    \/ n = Root
    \/ t[n].name # NoName /\ EntryFor(o[t[n].parent], t[n].name, o[n]) \in s

\* Objects, directories and entries; no object has two entries.
ObjectsType(t, o, d, mk) ==
    /\ mk \in 0..MaxObjects /\ d \subseteq 1..mk
    /\ o \in [DOMAIN t -> 0..mk]
    /\ \A n \in DOMAIN t : o[n] = 0 <=> n = Root

EntriesOK(s, d, mk) ==
    /\ s \subseteq [dir : {0} \cup d, name : AllNames, obj : (1..mk) \cup {Leftover}]
    /\ \A e, f \in s : ((e.dir = f.dir /\ e.name = f.name) \/ e.obj = f.obj) => e = f
    /\ \A e \in s : e.obj = Leftover => e.name \in HiddenNames

\* A named node is in a directory; if the file system does not have its object under
\* this name, it is a hidden file that was removed by its last release.
NamesOK(t, s, o, d) ==
    \A n \in DOMAIN t \ {Root} : t[n].name # NoName =>
        /\ o[t[n].parent] \in {0} \cup d
        /\ Alive(t, s, o, n) => Alive(t, s, o, t[n].parent)
        /\ ~Alive(t, s, o, n) =>
              /\ t[n].name \in HiddenNames /\ o[n] \notin d
              /\ Alive(t, s, o, t[n].parent) =>
                    \A e \in s : ~(e.dir = o[t[n].parent] /\ e.name = t[n].name)

\* The objects of the other nodes are gone, and no two nodes are for the same object.
ObjectsOK(t, s, o) ==
    /\ \A n \in DOMAIN t : ~Alive(t, s, o, n) => \A e \in s : e.obj # o[n]
    /\ \A n, c \in DOMAIN t : Alive(t, s, o, n) /\ Alive(t, s, o, c) /\ o[n] = o[c] => n = c

\* Open files are there; a hidden one is open, and has a hidden name.
OpenOK(t, s, o, d) ==
    /\ \A n \in DOMAIN t : t[n].open > 0 => n # Root /\ Alive(t, s, o, n) /\ o[n] \notin d
    /\ \A n \in DOMAIN t : t[n].hidden => t[n].open > 0
    /\ \A n \in DOMAIN t \ {Root} :
          Alive(t, s, o, n) /\ t[n].hidden => t[n].name \in HiddenNames

\* A hidden name is that of a hidden file, or of one that could not be unlinked, or is
\* left from an earlier mount.
HiddenOK(t, s, o, lf) ==
    \A e \in s : (e.name \in HiddenNames /\ e.obj \notin lf \cup {Leftover}) =>
        \E n \in DOMAIN t \ {Root} : t[n].hidden /\ Alive(t, s, o, n) /\ o[n] = e.obj

\* Going up from a node does not go round.
Founded(t) ==
    \A S \in SUBSET (DOMAIN t \ {Root}) :
        (\A n \in S : t[n].name # NoName /\ t[n].parent \in S) => S = {}

Mirror(t, s, o, d, mk, lf) ==
    /\ ObjectsType(t, o, d, mk) /\ EntriesOK(s, d, mk) /\ NamesOK(t, s, o, d)
    /\ ObjectsOK(t, s, o) /\ OpenOK(t, s, o, d) /\ HiddenOK(t, s, o, lf) /\ Founded(t)

\* The parts of an entry.
LEMMA EntryParts ==
  ASSUME NEW a, NEW nm, NEW x
  PROVE  /\ EntryFor(a, nm, x).dir = a /\ EntryFor(a, nm, x).name = nm
         /\ EntryFor(a, nm, x).obj = x
  BY DEF EntryFor

LEMMA EntryType ==
  ASSUME NEW s, NEW d, NEW mk, EntriesOK(s, d, mk), NEW e \in s
  PROVE  /\ e = EntryFor(e.dir, e.name, e.obj)
         /\ e.dir \in {0} \cup d /\ e.name \in AllNames /\ e.obj \in (1..mk) \cup {Leftover}
  BY DEF EntriesOK, EntryFor

\* The file system finds at a name what the entry with this name has, if there is one.
LEMMA FoundThere ==
  ASSUME NEW s, NEW d, NEW mk, EntriesOK(s, d, mk), NEW a, NEW nm, NEW x,
         EntryFor(a, nm, x) \in s
  PROVE  Entry(s, a, nm) = {EntryFor(a, nm, x)} /\ ObjOf(Entry(s, a, nm)) = x
<1>1. Entry(s, a, nm) = {EntryFor(a, nm, x)}
  BY EntryParts DEF Entry, EntriesOK
<1>2. (CHOOSE e \in {EntryFor(a, nm, x)} : TRUE) = EntryFor(a, nm, x)
  OBVIOUS
<1> QED
  BY <1>1, <1>2, EntryParts DEF ObjOf

LEMMA FoundNothing ==
  ASSUME NEW s, NEW a, NEW nm, \A e \in s : ~(e.dir = a /\ e.name = nm)
  PROVE  Entry(s, a, nm) = {} /\ ObjOf(Entry(s, a, nm)) = NoFile
  BY DEF Entry, ObjOf

\* What is found is an entry.
LEMMA FoundEntry ==
  ASSUME NEW s, NEW d, NEW mk, EntriesOK(s, d, mk), NEW a, NEW nm,
         ObjOf(Entry(s, a, nm)) # NoFile
  PROVE  EntryFor(a, nm, ObjOf(Entry(s, a, nm))) \in s
<1>1. PICK e \in s : e.dir = a /\ e.name = nm
  BY FoundNothing
<1>2. EntryFor(a, nm, e.obj) \in s
  BY <1>1, EntryType
<1> QED
  BY <1>2, FoundThere

-----------------------------------------------------------------------------
(* Where paths lead.                                                       *)

\* What the file system finds at the path of each node: its object, or nothing under the
\* name of a hidden file that was removed; other nodes have no path.
Leads ==
    [n \in DOMAIN tab |->
        IF Alive(tab, fs, of, n) THEN of[n]
        ELSE IF tab[n].name # NoName /\ Alive(tab, fs, of, tab[n].parent) THEN NoFile
        ELSE NoPath]

\* One step up the path of a node, given where the paths lead.
Up(f, n) ==
    IF n = Root THEN 0
    ELSE IF tab[n].name = NoName THEN NoPath
    ELSE IF f[tab[n].parent] = NoPath THEN NoPath
         ELSE ObjOf(Entry(fs, f[tab[n].parent], tab[n].name))

\* get_path goes up step by step, as soon as some function does.
LEMMA PathUnfolds ==
  ASSUME NEW W, W = [n \in DOMAIN tab |-> Up(W, n)]
  PROVE  get_path = [n \in DOMAIN tab |-> Up(get_path, n)]
<1> DEFINE E(f) == [n \in DOMAIN tab |-> Up(f, n)]
<1>1. get_path = CHOOSE f : f = E(f)
  BY DEF get_path, Up
<1>2. W = E(W)
  OBVIOUS
<1> HIDE DEF E
<1>3. get_path = E(get_path)
  BY <1>1, <1>2
<1> QED
  BY <1>3 DEF E

\* A node in a directory that is gone, or that never had a name, has no path.
LEMMA DeadDirectory ==
  ASSUME GoodTable(tab), Mirror(tab, fs, of, dirs, made, left), NEW n \in DOMAIN tab,
         of[n] \in {0} \cup dirs, ~Alive(tab, fs, of, n)
  PROVE  n # Root /\ tab[n].name = NoName /\ Leads[n] = NoPath
<1>1. n # Root /\ of[n] # 0
  BY DEF Alive, Mirror, ObjectsType
<1>2. tab[n].name = NoName
  BY <1>1 DEF Mirror, NamesOK
<1> QED
  BY <1>1, <1>2 DEF Leads

LEMMA LeadsUp ==
  ASSUME GoodTable(tab), Mirror(tab, fs, of, dirs, made, left), NEW n \in DOMAIN tab
  PROVE  Leads[n] = Up(Leads, n)
<1>1. CASE n = Root
  BY <1>1 DEF Leads, Alive, Up, Mirror, ObjectsType
<1>2. CASE n # Root /\ tab[n].name = NoName
  BY <1>2 DEF Leads, Alive, Up
<1>3. CASE n # Root /\ tab[n].name # NoName
  <2>1. PICK p : p = tab[n].parent
    OBVIOUS
  <2>2. p \in DOMAIN tab /\ of[p] \in {0} \cup dirs /\ of[p] \in Nat
    BY <1>3, <2>1 DEF GoodTable, HashOK, Mirror, NamesOK, ObjectsType
  <2>3. CASE Alive(tab, fs, of, p)
    <3>1. Leads[p] = of[p] /\ of[p] # NoPath
      BY <2>2, <2>3 DEF Leads, NoPath
    <3>2. Up(Leads, n) = ObjOf(Entry(fs, of[p], tab[n].name))
      BY <1>3, <2>1, <3>1 DEF Up
    <3>3. CASE Alive(tab, fs, of, n)
      <4>1. EntryFor(of[p], tab[n].name, of[n]) \in fs
        BY <1>3, <2>1, <3>3 DEF Alive
      <4>2. ObjOf(Entry(fs, of[p], tab[n].name)) = of[n]
        BY <4>1, FoundThere DEF Mirror
      <4> QED
        BY <3>2, <3>3, <4>2 DEF Leads
    <3>4. CASE ~Alive(tab, fs, of, n)
      <4>1. \A e \in fs : ~(e.dir = of[p] /\ e.name = tab[n].name)
        BY <1>3, <2>1, <2>3, <3>4 DEF Mirror, NamesOK
      <4>2. ObjOf(Entry(fs, of[p], tab[n].name)) = NoFile
        BY <4>1, FoundNothing
      <4> QED
        BY <1>3, <2>1, <2>3, <3>2, <3>4, <4>2 DEF Leads
    <3> QED
      BY <3>3, <3>4
  <2>4. CASE ~Alive(tab, fs, of, p)
    <3>1. Leads[p] = NoPath
      BY <2>2, <2>4, DeadDirectory
    <3>2. ~Alive(tab, fs, of, n)
      BY <1>3, <2>1, <2>4 DEF Mirror, NamesOK
    <3> QED
      BY <1>3, <2>1, <2>4, <3>1, <3>2 DEF Leads, Up
  <2> QED
    BY <2>3, <2>4
<1> QED
  BY <1>1, <1>2, <1>3

\* The path of a node that the file system has leads to its object.
LEMMA PathIs ==
  ASSUME GoodTable(tab), Mirror(tab, fs, of, dirs, made, left)
  PROVE  \A n \in DOMAIN tab : get_path[n] = Leads[n]
<1>1. Leads = [n \in DOMAIN tab |-> Up(Leads, n)]
  <2>1. Leads = [n \in DOMAIN tab |-> Leads[n]]
    BY DEF Leads
  <2> QED
    BY <2>1, LeadsUp
<1>2. \A n \in DOMAIN tab : get_path[n] = Up(get_path, n)
  <2>1. get_path = [n \in DOMAIN tab |-> Up(get_path, n)]
    BY <1>1, PathUnfolds
  <2> QED
    BY <2>1
<1>3. \A n \in DOMAIN tab : Leads[n] = Up(Leads, n)
  BY LeadsUp
<1> DEFINE S == {n \in DOMAIN tab \ {Root} : get_path[n] # Leads[n]}
<1>4. get_path[Root] = Leads[Root]
  BY <1>2, <1>3 DEF Up, GoodTable, TableOK
<1>5. ASSUME NEW n \in S PROVE tab[n].name # NoName /\ tab[n].parent \in S
  <2>1. n \in DOMAIN tab \ {Root} /\ get_path[n] # Leads[n]
    OBVIOUS
  <2>2. tab[n].name # NoName
    BY <1>2, <1>3, <2>1 DEF Up
  <2>3. tab[n].parent \in DOMAIN tab
    BY <2>1, <2>2 DEF GoodTable, HashOK
  <2>4. get_path[tab[n].parent] # Leads[tab[n].parent]
    BY <1>2, <1>3, <2>1, <2>2 DEF Up
  <2> QED
    BY <1>4, <2>2, <2>3, <2>4
<1>6. S = {}
  <2>1. S \in SUBSET (DOMAIN tab \ {Root})
    OBVIOUS
  <2> HIDE DEF S
  <2> QED
    BY <1>5, <2>1 DEF Mirror, Founded
<1> QED
  BY <1>4, <1>6

\* A held directory has a path when the file system has it, and the path leads there.
LEMMA DirPath ==
  ASSUME GoodTable(tab), Mirror(tab, fs, of, dirs, made, left), NEW p \in DOMAIN tab,
         of[p] = 0 \/ of[p] \in dirs
  PROVE  /\ HasPath(p) <=> Alive(tab, fs, of, p)
         /\ Alive(tab, fs, of, p) => DirOf(p) = of[p]
         /\ ~Alive(tab, fs, of, p) => DirOf(p) = NoPath
<1>1. of[p] \in {0} \cup dirs /\ of[p] \in Nat
  BY DEF Mirror, ObjectsType
<1>2. get_path[p] = Leads[p]
  BY PathIs
<1>3. CASE Alive(tab, fs, of, p)
  BY <1>1, <1>2, <1>3 DEF Leads, HasPath, DirOf, NoPath
<1>4. CASE ~Alive(tab, fs, of, p)
  BY <1>1, <1>2, <1>4, DeadDirectory DEF HasPath, DirOf
<1> QED
  BY <1>3, <1>4

\* What is found in a held directory is an entry of it, and the directory is there.
LEMMA AtEntry ==
  ASSUME GoodTable(tab), Mirror(tab, fs, of, dirs, made, left), NEW p \in DOMAIN tab,
         of[p] = 0 \/ of[p] \in dirs, NEW nm
  PROVE  /\ At(p, nm) # NoFile => /\ Alive(tab, fs, of, p)
                                  /\ EntryFor(of[p], nm, At(p, nm)) \in fs
         /\ Alive(tab, fs, of, p) =>
               /\ At(p, nm) = ObjOf(Entry(fs, of[p], nm)) /\ DirOf(p) = of[p]
               /\ At(p, nm) = NoFile => \A e \in fs : ~(e.dir = of[p] /\ e.name = nm)
<1>1. EntriesOK(fs, dirs, made)
  BY DEF Mirror
<1>2. ASSUME ~Alive(tab, fs, of, p) PROVE At(p, nm) = NoFile
  <2>1. DirOf(p) = NoPath
    BY <1>2, DirPath
  <2>2. \A e \in fs : e.dir # NoPath
    BY <1>1, EntryType DEF NoPath, Mirror, ObjectsType
  <2> QED
    BY <2>1, <2>2, FoundNothing DEF At
<1>3. ASSUME Alive(tab, fs, of, p)
      PROVE  At(p, nm) = ObjOf(Entry(fs, of[p], nm)) /\ DirOf(p) = of[p]
  BY <1>3, DirPath DEF At
<1>4. ASSUME At(p, nm) # NoFile PROVE EntryFor(of[p], nm, At(p, nm)) \in fs
  BY <1>1, <1>2, <1>3, <1>4, FoundEntry
<1>5. ASSUME Alive(tab, fs, of, p), At(p, nm) = NoFile
      PROVE  \A e \in fs : ~(e.dir = of[p] /\ e.name = nm)
  <2> SUFFICES ASSUME NEW e \in fs, e.dir = of[p], e.name = nm PROVE FALSE
    OBVIOUS
  <2>1. EntryFor(of[p], nm, e.obj) \in fs /\ e.obj \in (1..made) \cup {Leftover}
    BY <1>1, EntryType
  <2>2. ObjOf(Entry(fs, of[p], nm)) = e.obj
    BY <1>1, <2>1, FoundThere
  <2>3. e.obj # NoFile
    BY <2>1, FuseNodesAssumption DEF NoFile, Leftover, Mirror, ObjectsType
  <2> QED
    BY <1>3, <1>5, <2>2, <2>3
<1> QED
  BY <1>2, <1>3, <1>4, <1>5

-----------------------------------------------------------------------------
(* Steps of the table and of the file system, side by side.                *)

\* Lookups and open files of a node: an opened one is a file that is there.
LEMMA CountMirror ==
  ASSUME NEW t, GoodTable(t), NEW s, NEW o, NEW d, NEW mk, NEW lf,
         Mirror(t, s, o, d, mk, lf),
         NEW n \in DOMAIN t, NEW u, NEW l, NEW k, Counted(t, u, n, l, k, t[n].hidden),
         k > 0 => n # Root /\ Alive(t, s, o, n) /\ o[n] \notin d,
         t[n].hidden => k > 0
  PROVE  Mirror(u, s, o, d, mk, lf)
<1>1. DOMAIN u = DOMAIN t
  BY DEF Counted
<1>2. \A m \in DOMAIN t : /\ u[m].name = t[m].name /\ u[m].parent = t[m].parent
                          /\ u[m].hidden = t[m].hidden
  BY DEF Counted, Like
<1>3. \A m \in DOMAIN t : Alive(u, s, o, m) <=> Alive(t, s, o, m)
  BY <1>2 DEF Alive
<1>4. u[n].open = k /\ \A m \in DOMAIN t \ {n} : u[m].open = t[m].open
  BY DEF Counted, Like
<1>5. ObjectsType(u, o, d, mk) /\ EntriesOK(s, d, mk)
  BY <1>1 DEF Mirror, ObjectsType
<1>6. NamesOK(u, s, o, d)
  <2>1. \A m \in DOMAIN t : t[m].name # NoName => t[m].parent \in DOMAIN t
    BY DEF GoodTable, HashOK
  <2> QED
    BY <1>1, <1>2, <1>3, <2>1 DEF Mirror, NamesOK
<1>7. ObjectsOK(u, s, o)
  BY <1>1, <1>3 DEF Mirror, ObjectsOK
<1>8. OpenOK(u, s, o, d)
  <2>1. OpenOK(t, s, o, d)
    BY DEF Mirror
  <2>2. \A m \in DOMAIN t : u[m].open > 0 => m # Root /\ Alive(u, s, o, m) /\ o[m] \notin d
    BY <1>3, <1>4, <2>1 DEF OpenOK
  <2>3. \A m \in DOMAIN t : u[m].hidden => u[m].open > 0
    BY <1>2, <1>4, <2>1 DEF OpenOK
  <2>4. \A m \in DOMAIN t \ {Root} :
           Alive(u, s, o, m) /\ u[m].hidden => u[m].name \in HiddenNames
    BY <1>2, <1>3, <2>1 DEF OpenOK
  <2> QED
    BY <1>1, <2>2, <2>3, <2>4 DEF OpenOK
<1>9. HiddenOK(u, s, o, lf)
  BY <1>1, <1>2, <1>3 DEF Mirror, HiddenOK
<1>10. Founded(u)
  BY <1>1, <1>2 DEF Mirror, Founded
<1> QED
  BY <1>5, <1>6, <1>7, <1>8, <1>9, <1>10 DEF Mirror

\* A new object, under a client's name that is free.
LEMMA MakeMirror ==
  ASSUME NEW t, GoodTable(t), NEW s, NEW o, NEW d, NEW mk, NEW lf,
         Mirror(t, s, o, d, mk, lf),
         mk < MaxObjects, NEW a \in {0} \cup d, NEW nm \in Names,
         \A e \in s : ~(e.dir = a /\ e.name = nm),
         NEW d1, d1 = d \/ d1 = d \cup {mk + 1}
  PROVE  Mirror(t, s \cup {EntryFor(a, nm, mk + 1)}, o, d1, mk + 1, lf)
<1> USE FuseNodesAssumption
<1>1. PICK e1 : e1 = EntryFor(a, nm, mk + 1)
  OBVIOUS
<1>2. PICK s1 : s1 = s \cup {e1}
  OBVIOUS
<1>3. e1.dir = a /\ e1.name = nm /\ e1.obj = mk + 1
  BY <1>1, EntryParts
<1>4. mk \in Nat /\ MaxObjects \in Nat /\ nm \in AllNames /\ nm \notin HiddenNames
      /\ Leftover = MaxObjects + 1
  BY NameFacts DEF Mirror, ObjectsType, AllNames, Leftover
<1>5. \A e \in s : /\ e = EntryFor(e.dir, e.name, e.obj) /\ e.dir \in {0} \cup d
                   /\ e.name \in AllNames /\ e.obj \in (1..mk) \cup {Leftover}
  BY EntryType DEF Mirror
<1>6. \A e \in s : e.obj # mk + 1
  BY <1>4, <1>5
<1>7. \A m \in DOMAIN t : o[m] \in 0..mk
  BY DEF Mirror, ObjectsType
<1>8. ObjectsType(t, o, d1, mk + 1)
  <2>1. mk + 1 \in 0..MaxObjects /\ d1 \subseteq 1..(mk + 1)
    <3>1. d \subseteq 1..mk
      BY DEF Mirror, ObjectsType
    <3>2. /\ mk + 1 \in 0..MaxObjects /\ mk + 1 \in 1..(mk + 1)
          /\ \A y \in 1..mk : y \in 1..(mk + 1)
      BY <1>4
    <3> QED
      BY <3>1, <3>2
  <2>2. o \in [DOMAIN t -> 0..(mk + 1)]
    BY <1>4 DEF Mirror, ObjectsType
  <2> QED
    BY <2>1, <2>2 DEF Mirror, ObjectsType
<1>9. EntriesOK(s1, d1, mk + 1)
  <2>1. s \subseteq [dir : {0} \cup d1, name : AllNames, obj : (1..(mk + 1)) \cup {Leftover}]
    BY <1>4, <1>5 DEF EntryFor
  <2>2. e1 \in [dir : {0} \cup d1, name : AllNames, obj : (1..(mk + 1)) \cup {Leftover}]
    BY <1>1, <1>4 DEF EntryFor
  <2>3. \A e, f \in s1 : ((e.dir = f.dir /\ e.name = f.name) \/ e.obj = f.obj) => e = f
    BY <1>2, <1>3, <1>6 DEF Mirror, EntriesOK
  <2>4. \A e \in s1 : e.obj = Leftover => e.name \in HiddenNames
    BY <1>2, <1>3, <1>4 DEF Mirror, EntriesOK
  <2> QED
    BY <1>2, <2>1, <2>2, <2>3, <2>4 DEF EntriesOK
<1>10. \A m \in DOMAIN t : Alive(t, s1, o, m) <=> Alive(t, s, o, m)
  <2>1. ASSUME NEW m \in DOMAIN t, EntryFor(o[t[m].parent], t[m].name, o[m]) \in s1
        PROVE  EntryFor(o[t[m].parent], t[m].name, o[m]) \in s
    <3>1. EntryFor(o[t[m].parent], t[m].name, o[m]).obj = o[m]
      BY EntryParts
    <3> QED
      BY <1>2, <1>3, <1>4, <1>7, <2>1, <3>1
  <2> QED
    BY <1>2, <2>1 DEF Alive
<1>11. NamesOK(t, s1, o, d1)
  <2> SUFFICES ASSUME NEW m \in DOMAIN t \ {Root}, t[m].name # NoName
               PROVE  /\ o[t[m].parent] \in {0} \cup d1
                      /\ Alive(t, s1, o, m) => Alive(t, s1, o, t[m].parent)
                      /\ ~Alive(t, s1, o, m) =>
                          /\ t[m].name \in HiddenNames /\ o[m] \notin d1
                          /\ Alive(t, s1, o, t[m].parent) =>
                              \A e \in s1 : ~(e.dir = o[t[m].parent] /\ e.name = t[m].name)
    BY DEF NamesOK
  <2>1. t[m].parent \in DOMAIN t
    BY DEF GoodTable, HashOK
  <2>2. /\ o[t[m].parent] \in {0} \cup d
        /\ Alive(t, s, o, m) => Alive(t, s, o, t[m].parent)
        /\ ~Alive(t, s, o, m) =>
            /\ t[m].name \in HiddenNames /\ o[m] \notin d
            /\ Alive(t, s, o, t[m].parent) =>
                \A e \in s : ~(e.dir = o[t[m].parent] /\ e.name = t[m].name)
    BY DEF Mirror, NamesOK
  <2>3. o[m] # mk + 1
    BY <1>4, <1>7
  <2> QED
    BY <1>2, <1>3, <1>4, <1>10, <2>1, <2>2, <2>3
<1>12. ObjectsOK(t, s1, o)
  <2>1. \A m \in DOMAIN t : e1.obj # o[m]
    BY <1>3, <1>4, <1>7
  <2> QED
    BY <1>2, <1>10, <2>1 DEF Mirror, ObjectsOK
<1>13. OpenOK(t, s1, o, d1)
  <2>1. \A m \in DOMAIN t : o[m] # mk + 1
    BY <1>4, <1>7
  <2> QED
    BY <1>10, <2>1 DEF Mirror, OpenOK
<1>14. HiddenOK(t, s1, o, lf)
  BY <1>2, <1>3, <1>4, <1>10 DEF Mirror, HiddenOK
<1> QED
  BY <1>1, <1>2, <1>8, <1>9, <1>11, <1>12, <1>13, <1>14 DEF Mirror

\* A new node, for an entry in a directory that is there.
LEMMA AddMirror ==
  ASSUME NEW t, GoodTable(t), NEW s, NEW o, NEW d, NEW mk, NEW lf,
         Mirror(t, s, o, d, mk, lf),
         NEW p \in DOMAIN t, Alive(t, s, o, p), o[p] \in {0} \cup d, NEW nm \in Names,
         NEW x, EntryFor(o[p], nm, x) \in s, lookup_node(t, p, nm) = {},
         NEW n, n \notin DOMAIN t, NEW u, Added(t, u, n, nm, p)
  PROVE  Mirror(u, s, With(o, n, x), d, mk, lf)
<1> USE FuseNodesAssumption
<1>1. PICK o1 : o1 = With(o, n, x)
  OBVIOUS
<1>2. PICK e1 \in s : e1 = EntryFor(o[p], nm, x)
  OBVIOUS
<1>3. e1.dir = o[p] /\ e1.name = nm /\ e1.obj = x
  BY <1>2, EntryParts
<1>4. nm \in AllNames /\ nm \notin HiddenNames /\ nm # NoName
  BY NameFacts DEF AllNames
<1>5. x \in 1..mk /\ mk \in Nat /\ n # Root /\ p # n
  <2>1. x \in (1..mk) \cup {Leftover} /\ x # Leftover
    BY <1>3, <1>4, EntryType DEF Mirror, EntriesOK
  <2> QED
    BY <2>1 DEF Mirror, ObjectsType, GoodTable, TableOK
<1>6. DOMAIN o = DOMAIN t /\ o \in [DOMAIN t -> 0..mk]
  BY DEF Mirror, ObjectsType
<1>7. /\ DOMAIN o1 = DOMAIN t \cup {n} /\ o1[n] = x /\ DOMAIN u = DOMAIN t \cup {n}
      /\ \A m \in DOMAIN t : o1[m] = o[m] /\ m # n
  BY <1>1, <1>6 DEF With, Added
<1>8. /\ u[n].name = nm /\ u[n].parent = p /\ u[n].open = 0 /\ u[n].hidden = FALSE
      /\ \A m \in DOMAIN t : /\ u[m].name = t[m].name /\ u[m].parent = t[m].parent
                             /\ u[m].open = t[m].open /\ u[m].hidden = t[m].hidden
  BY DEF Added, Like
<1>9. \A m \in DOMAIN t : t[m].name # NoName => t[m].parent \in DOMAIN t
  BY DEF GoodTable, HashOK
<1>10. \A m \in DOMAIN t : Alive(u, s, o1, m) <=> Alive(t, s, o, m)
  BY <1>7, <1>8, <1>9 DEF Alive
<1>11. Alive(u, s, o1, n) /\ Alive(u, s, o1, p)
  BY <1>2, <1>4, <1>7, <1>8, <1>10 DEF Alive
\* No node was for the object before.
<1>12. ASSUME NEW m \in DOMAIN t, Alive(t, s, o, m) PROVE o[m] # x
  <2> SUFFICES ASSUME o[m] = x PROVE FALSE
    OBVIOUS
  <2>1. m # Root
    BY <1>5 DEF Mirror, ObjectsType
  <2>2. PICK e \in s : e = EntryFor(o[t[m].parent], t[m].name, o[m]) /\ t[m].name # NoName
    BY <1>12, <2>1 DEF Alive
  <2>3. e.dir = o[t[m].parent] /\ e.name = t[m].name /\ e.obj = x
    BY <2>2, EntryParts
  <2>4. e = e1
    BY <1>3, <2>3 DEF Mirror, EntriesOK
  <2>5. Alive(t, s, o, t[m].parent) /\ t[m].parent \in DOMAIN t
    BY <1>9, <1>12, <2>1, <2>2 DEF Mirror, NamesOK
  <2>6. t[m].parent = p /\ t[m].name = nm
    BY <1>3, <2>3, <2>4, <2>5 DEF Mirror, ObjectsOK
  <2> QED
    BY <2>1, <2>6 DEF lookup_node
<1>13. ObjectsType(u, o1, d, mk)
  <2>1. o1 = [m \in DOMAIN u |-> o1[m]]
    BY <1>1, <1>6, <1>7 DEF With
  <2>2. \A m \in DOMAIN u : o1[m] \in 0..mk /\ (o1[m] = 0 <=> m = Root)
    BY <1>5, <1>6, <1>7 DEF Mirror, ObjectsType
  <2> QED
    BY <2>1, <2>2 DEF Mirror, ObjectsType
<1>14. NamesOK(u, s, o1, d)
  <2> SUFFICES ASSUME NEW m \in DOMAIN u \ {Root}, u[m].name # NoName
               PROVE  /\ o1[u[m].parent] \in {0} \cup d
                      /\ Alive(u, s, o1, m) => Alive(u, s, o1, u[m].parent)
                      /\ ~Alive(u, s, o1, m) =>
                          /\ u[m].name \in HiddenNames /\ o1[m] \notin d
                          /\ Alive(u, s, o1, u[m].parent) =>
                              \A e \in s : ~(e.dir = o1[u[m].parent] /\ e.name = u[m].name)
    BY DEF NamesOK
  <2>1. CASE m = n
    BY <1>7, <1>8, <1>11, <2>1
  <2>2. CASE m # n
    <3>1. m \in DOMAIN t \ {Root} /\ t[m].name # NoName /\ t[m].parent \in DOMAIN t
      BY <1>7, <1>8, <1>9, <2>2
    <3>2. /\ o[t[m].parent] \in {0} \cup d
          /\ Alive(t, s, o, m) => Alive(t, s, o, t[m].parent)
          /\ ~Alive(t, s, o, m) =>
              /\ t[m].name \in HiddenNames /\ o[m] \notin d
              /\ Alive(t, s, o, t[m].parent) =>
                  \A e \in s : ~(e.dir = o[t[m].parent] /\ e.name = t[m].name)
      BY <3>1 DEF Mirror, NamesOK
    <3> QED
      BY <1>7, <1>8, <1>10, <3>1, <3>2
  <2> QED
    BY <2>1, <2>2
<1>15. ObjectsOK(u, s, o1)
  <2>1. \A m \in DOMAIN u : ~Alive(u, s, o1, m) => \A e \in s : e.obj # o1[m]
    BY <1>7, <1>10, <1>11 DEF Mirror, ObjectsOK
  <2>2. \A m, c \in DOMAIN u :
          Alive(u, s, o1, m) /\ Alive(u, s, o1, c) /\ o1[m] = o1[c] => m = c
    BY <1>7, <1>10, <1>12 DEF Mirror, ObjectsOK
  <2> QED
    BY <2>1, <2>2 DEF ObjectsOK
<1>16. OpenOK(u, s, o1, d)
  <2>1. \A m \in DOMAIN u : u[m].open > 0 => m # Root /\ Alive(u, s, o1, m) /\ o1[m] \notin d
    BY <1>7, <1>8, <1>10 DEF Mirror, OpenOK
  <2>2. \A m \in DOMAIN u : u[m].hidden => u[m].open > 0
    BY <1>7, <1>8 DEF Mirror, OpenOK
  <2>3. \A m \in DOMAIN u \ {Root} :
          Alive(u, s, o1, m) /\ u[m].hidden => u[m].name \in HiddenNames
    BY <1>4, <1>7, <1>8, <1>10 DEF Mirror, OpenOK
  <2> QED
    BY <2>1, <2>2, <2>3 DEF OpenOK
<1>17. HiddenOK(u, s, o1, lf)
  <2> SUFFICES ASSUME NEW e \in s, e.name \in HiddenNames, e.obj \notin lf \cup {Leftover}
               PROVE  \E m \in DOMAIN u \ {Root} :
                        u[m].hidden /\ Alive(u, s, o1, m) /\ o1[m] = e.obj
    BY DEF HiddenOK
  <2>1. PICK m \in DOMAIN t \ {Root} : t[m].hidden /\ Alive(t, s, o, m) /\ o[m] = e.obj
    BY DEF Mirror, HiddenOK
  <2> QED
    BY <1>7, <1>8, <1>10, <2>1
<1>18. Founded(u)
  <2> SUFFICES ASSUME NEW S \in SUBSET (DOMAIN u \ {Root}),
                      \A m \in S : u[m].name # NoName /\ u[m].parent \in S
               PROVE  S = {}
    BY DEF Founded
  <2> DEFINE T == S \ {n}
  <2>1. T \in SUBSET (DOMAIN t \ {Root})
    BY <1>7
  <2>2. \A m \in T : t[m].name # NoName /\ t[m].parent \in T
    BY <1>7, <1>8, <1>9
  <2>3. T = {}
    BY <2>1, <2>2 DEF Mirror, Founded
  <2>4. n \notin S
    BY <1>5, <1>8, <2>3
  <2> QED
    BY <2>3, <2>4
<1> QED
  BY <1>1, <1>13, <1>14, <1>15, <1>16, <1>17, <1>18 DEF Mirror

\* The object of a node that the file system has, has no other entry.
LEMMA OwnEntry ==
  ASSUME NEW t, NEW s, NEW o, NEW d, NEW mk, NEW lf, Mirror(t, s, o, d, mk, lf),
         NEW n \in DOMAIN t \ {Root}, Alive(t, s, o, n)
  PROVE  /\ t[n].name # NoName /\ EntryFor(o[t[n].parent], t[n].name, o[n]) \in s
         /\ \A e \in s :
               (e.obj = o[n] \/ (e.dir = o[t[n].parent] /\ e.name = t[n].name))
               => e = EntryFor(o[t[n].parent], t[n].name, o[n])
<1>1. t[n].name # NoName /\ EntryFor(o[t[n].parent], t[n].name, o[n]) \in s
  BY DEF Alive
<1> QED
  BY <1>1, EntryParts DEF Mirror, EntriesOK

\* The last release of a hidden file: its entry goes, the node keeps its name.
LEMMA ReleaseMirror ==
  ASSUME NEW t, GoodTable(t), NEW s, NEW o, NEW d, NEW mk, NEW lf,
         Mirror(t, s, o, d, mk, lf),
         NEW n \in DOMAIN t, t[n].hidden, NEW u, NEW l,
         NEW b \in BOOLEAN, ~b, Counted(t, u, n, l, 0, b),
         NEW s1, s1 = {e \in s : e.obj # o[n]}
  PROVE  Mirror(u, s1, o, d, mk, lf)
<1>1. s1 = {e \in s : e.obj # o[n]}
  OBVIOUS
<1>2. n # Root /\ Alive(t, s, o, n) /\ o[n] \notin d /\ t[n].name \in HiddenNames
  BY DEF Mirror, OpenOK
<1>3. o[n] # 0 /\ o[n] \notin {0} \cup d
  BY <1>2 DEF Mirror, ObjectsType
<1>4. DOMAIN u = DOMAIN t /\ u[n].open = 0 /\ ~u[n].hidden
  BY DEF Counted
<1>5. \A m \in DOMAIN t : u[m].name = t[m].name /\ u[m].parent = t[m].parent
  BY DEF Counted, Like
<1>6. \A m \in DOMAIN t \ {n} : u[m].open = t[m].open /\ u[m].hidden = t[m].hidden
  BY DEF Counted, Like
<1>7. ASSUME NEW m \in DOMAIN t \ {n} PROVE Alive(u, s1, o, m) <=> Alive(t, s, o, m)
  <2>1. ASSUME Alive(t, s, o, m) PROVE o[m] # o[n]
    BY <1>2, <2>1 DEF Mirror, ObjectsOK
  <2> QED
    BY <1>1, <1>5, <2>1, EntryParts DEF Alive
<1>8. ~Alive(u, s1, o, n)
  BY <1>1, <1>2, <1>5, EntryParts DEF Alive
\* There is no named node below a file.
<1>9. \A m \in DOMAIN t \ {Root} : t[m].name # NoName => t[m].parent \in DOMAIN t \ {n}
  BY <1>3 DEF Mirror, NamesOK, GoodTable, HashOK
<1>10. ObjectsType(u, o, d, mk)
  BY <1>4 DEF Mirror, ObjectsType
<1>11. EntriesOK(s1, d, mk)
  BY <1>1 DEF Mirror, EntriesOK
<1>12. NamesOK(u, s1, o, d)
  <2> SUFFICES ASSUME NEW m \in DOMAIN t \ {Root}, t[m].name # NoName
               PROVE  /\ o[t[m].parent] \in {0} \cup d
                      /\ Alive(u, s1, o, m) => Alive(u, s1, o, t[m].parent)
                      /\ ~Alive(u, s1, o, m) =>
                          /\ t[m].name \in HiddenNames /\ o[m] \notin d
                          /\ Alive(u, s1, o, t[m].parent) =>
                              \A e \in s1 : ~(e.dir = o[t[m].parent] /\ e.name = t[m].name)
    BY <1>4, <1>5 DEF NamesOK
  <2>1. /\ o[t[m].parent] \in {0} \cup d
        /\ Alive(t, s, o, m) => Alive(t, s, o, t[m].parent)
        /\ ~Alive(t, s, o, m) =>
            /\ t[m].name \in HiddenNames /\ o[m] \notin d
            /\ Alive(t, s, o, t[m].parent) =>
                \A e \in s : ~(e.dir = o[t[m].parent] /\ e.name = t[m].name)
    BY DEF Mirror, NamesOK
  <2>2. CASE m # n
    BY <1>1, <1>7, <1>9, <2>1, <2>2
  <2>3. CASE m = n
    <3>1. \A e \in s1 : ~(e.dir = o[t[n].parent] /\ e.name = t[n].name)
      BY <1>1, <1>2, OwnEntry, EntryParts
    <3> QED
      BY <1>2, <1>8, <2>1, <2>3, <3>1
  <2> QED
    BY <2>2, <2>3
<1>13. ObjectsOK(u, s1, o)
  BY <1>1, <1>4, <1>7, <1>8 DEF Mirror, ObjectsOK
<1>14. OpenOK(u, s1, o, d)
  <2>1. \A m \in DOMAIN u :
          u[m].open > 0 => m # Root /\ Alive(u, s1, o, m) /\ o[m] \notin d
    BY <1>4, <1>6, <1>7 DEF Mirror, OpenOK
  <2>2. \A m \in DOMAIN u : u[m].hidden => u[m].open > 0
    BY <1>4, <1>6 DEF Mirror, OpenOK
  <2>3. \A m \in DOMAIN u \ {Root} :
          Alive(u, s1, o, m) /\ u[m].hidden => u[m].name \in HiddenNames
    BY <1>4, <1>5, <1>6, <1>7, <1>8 DEF Mirror, OpenOK
  <2> QED
    BY <2>1, <2>2, <2>3 DEF OpenOK
<1>15. HiddenOK(u, s1, o, lf)
  <2> SUFFICES ASSUME NEW e \in s1, e.name \in HiddenNames, e.obj \notin lf \cup {Leftover}
               PROVE  \E m \in DOMAIN t \ {Root} :
                        u[m].hidden /\ Alive(u, s1, o, m) /\ o[m] = e.obj
    BY <1>4 DEF HiddenOK
  <2>1. e \in s /\ e.obj # o[n]
    BY <1>1
  <2>2. PICK m \in DOMAIN t \ {Root} : t[m].hidden /\ Alive(t, s, o, m) /\ o[m] = e.obj
    BY <2>1 DEF Mirror, HiddenOK
  <2> QED
    BY <1>6, <1>7, <2>1, <2>2
<1>16. Founded(u)
  BY <1>4, <1>5 DEF Mirror, Founded
<1> QED
  BY <1>1, <1>10, <1>11, <1>12, <1>13, <1>14, <1>15, <1>16 DEF Mirror

\* The last release of a hidden file whose unlink fails: the entry is left, with a node
\* that is hidden no more.
LEMMA ReleaseKeptMirror ==
  ASSUME NEW t, GoodTable(t), NEW s, NEW o, NEW d, NEW mk, NEW lf,
         Mirror(t, s, o, d, mk, lf),
         NEW n \in DOMAIN t, t[n].hidden, NEW u, NEW l,
         NEW b \in BOOLEAN, ~b, Counted(t, u, n, l, 0, b),
         NEW lf1, lf1 = lf \cup {o[n]}
  PROVE  Mirror(u, s, o, d, mk, lf1)
<1>1. DOMAIN u = DOMAIN t /\ u[n].open = 0 /\ ~u[n].hidden
  BY DEF Counted
<1>2. \A m \in DOMAIN t : u[m].name = t[m].name /\ u[m].parent = t[m].parent
  BY DEF Counted, Like
<1>3. \A m \in DOMAIN t \ {n} : u[m].open = t[m].open /\ u[m].hidden = t[m].hidden
  BY DEF Counted, Like
<1>4. \A m \in DOMAIN t : Alive(u, s, o, m) <=> Alive(t, s, o, m)
  BY <1>2 DEF Alive
<1>5. ObjectsType(u, o, d, mk) /\ EntriesOK(s, d, mk)
  BY <1>1 DEF Mirror, ObjectsType
<1>6. NamesOK(u, s, o, d)
  <2>1. \A m \in DOMAIN t : t[m].name # NoName => t[m].parent \in DOMAIN t
    BY DEF GoodTable, HashOK
  <2> QED
    BY <1>1, <1>2, <1>4, <2>1 DEF Mirror, NamesOK
<1>7. ObjectsOK(u, s, o)
  BY <1>1, <1>4 DEF Mirror, ObjectsOK
<1>8. OpenOK(u, s, o, d)
  <2>1. \A m \in DOMAIN u : u[m].open > 0 => m # Root /\ Alive(u, s, o, m) /\ o[m] \notin d
    BY <1>1, <1>3, <1>4 DEF Mirror, OpenOK
  <2>2. \A m \in DOMAIN u : u[m].hidden => u[m].open > 0
    BY <1>1, <1>3 DEF Mirror, OpenOK
  <2>3. \A m \in DOMAIN u \ {Root} :
          Alive(u, s, o, m) /\ u[m].hidden => u[m].name \in HiddenNames
    BY <1>1, <1>2, <1>3, <1>4 DEF Mirror, OpenOK
  <2> QED
    BY <2>1, <2>2, <2>3 DEF OpenOK
<1>9. HiddenOK(u, s, o, lf1)
  <2> SUFFICES ASSUME NEW e \in s, e.name \in HiddenNames, e.obj \notin lf1 \cup {Leftover}
               PROVE  \E m \in DOMAIN t \ {Root} :
                        u[m].hidden /\ Alive(u, s, o, m) /\ o[m] = e.obj
    BY <1>1 DEF HiddenOK
  <2>1. e.obj \notin lf \cup {Leftover} /\ e.obj # o[n]
    OBVIOUS
  <2>2. PICK m \in DOMAIN t \ {Root} : t[m].hidden /\ Alive(t, s, o, m) /\ o[m] = e.obj
    BY <2>1 DEF Mirror, HiddenOK
  <2> QED
    BY <1>3, <1>4, <2>1, <2>2
<1>10. Founded(u)
  BY <1>1, <1>2 DEF Mirror, Founded
<1> QED
  BY <1>5, <1>6, <1>7, <1>8, <1>9, <1>10 DEF Mirror

\* A node that is forgotten, without open files and without nodes below it.
LEMMA DropMirror ==
  ASSUME NEW t, GoodTable(t), NEW s, NEW o, NEW d, NEW mk, NEW lf,
         Mirror(t, s, o, d, mk, lf),
         NEW n \in DOMAIN t \ {Root}, t[n].open = 0, Children(t, n) = {},
         NEW u, Dropped(t, u, n)
  PROVE  Mirror(u, s, Without(o, n), d, mk, lf)
<1>1. PICK o1 : o1 = Without(o, n)
  OBVIOUS
<1>2. DOMAIN o = DOMAIN t /\ o \in [DOMAIN t -> 0..mk]
  BY DEF Mirror, ObjectsType
<1>3. /\ DOMAIN o1 = DOMAIN t \ {n} /\ DOMAIN u = DOMAIN t \ {n}
      /\ \A m \in DOMAIN u : o1[m] = o[m]
  BY <1>1, <1>2 DEF Without, Dropped
<1>4. \A m \in DOMAIN u : /\ u[m].name = t[m].name /\ u[m].parent = t[m].parent
                          /\ u[m].open = t[m].open /\ u[m].hidden = t[m].hidden
  BY <1>3 DEF Dropped, Like
<1>5. \A m \in DOMAIN u : t[m].name # NoName => t[m].parent \in DOMAIN u
  BY <1>3 DEF GoodTable, HashOK, Children
<1>6. \A m \in DOMAIN u : Alive(u, s, o1, m) <=> Alive(t, s, o, m)
  BY <1>3, <1>4, <1>5 DEF Alive
<1>7. ObjectsType(u, o1, d, mk)
  <2>1. o1 = [m \in DOMAIN u |-> o1[m]]
    BY <1>1, <1>2, <1>3 DEF Without
  <2>2. \A m \in DOMAIN u : o1[m] \in 0..mk /\ (o1[m] = 0 <=> m = Root)
    BY <1>2, <1>3 DEF Mirror, ObjectsType
  <2> QED
    BY <2>1, <2>2 DEF Mirror, ObjectsType
<1>8. NamesOK(u, s, o1, d)
  BY <1>3, <1>4, <1>5, <1>6 DEF Mirror, NamesOK
<1>9. ObjectsOK(u, s, o1)
  BY <1>3, <1>6 DEF Mirror, ObjectsOK
<1>10. OpenOK(u, s, o1, d)
  BY <1>3, <1>4, <1>6 DEF Mirror, OpenOK
<1>11. HiddenOK(u, s, o1, lf)
  <2> SUFFICES ASSUME NEW e \in s, e.name \in HiddenNames, e.obj \notin lf \cup {Leftover}
               PROVE  \E m \in DOMAIN u \ {Root} :
                        u[m].hidden /\ Alive(u, s, o1, m) /\ o1[m] = e.obj
    BY DEF HiddenOK
  <2>1. PICK m \in DOMAIN t \ {Root} : t[m].hidden /\ Alive(t, s, o, m) /\ o[m] = e.obj
    BY DEF Mirror, HiddenOK
  <2>2. m # n
    BY <2>1 DEF Mirror, OpenOK
  <2> QED
    BY <1>3, <1>4, <1>6, <2>1, <2>2
<1>12. Founded(u)
  BY <1>3, <1>4 DEF Mirror, Founded
<1> QED
  BY <1>1, <1>7, <1>8, <1>9, <1>10, <1>11, <1>12 DEF Mirror

\* A file or an empty directory that is removed: its entry goes, the node loses its name.
LEMMA RemoveMirror ==
  ASSUME NEW t, GoodTable(t), NEW s, NEW o, NEW d, NEW mk, NEW lf,
         Mirror(t, s, o, d, mk, lf),
         NEW n \in DOMAIN t \ {Root}, Alive(t, s, o, n), t[n].open = 0,
         \A e \in s : e.dir # o[n],
         NEW u, Relinked(t, u, n, NoName, 0, t[n].hidden)
  PROVE  Mirror(u, s \ {EntryFor(o[t[n].parent], t[n].name, o[n])}, o, d, mk, lf)
<1>1. PICK e1 : e1 = EntryFor(o[t[n].parent], t[n].name, o[n])
  OBVIOUS
<1>2. PICK s1 : s1 = s \ {e1}
  OBVIOUS
<1>3. e1 \in s /\ e1.obj = o[n] /\ \A e \in s : e.obj = o[n] => e = e1
  BY <1>1, OwnEntry, EntryParts
<1>4. /\ DOMAIN u = DOMAIN t /\ u[n].name = NoName
      /\ \A m \in DOMAIN t \ {n} : u[m].name = t[m].name /\ u[m].parent = t[m].parent
      /\ \A m \in DOMAIN t : u[m].open = t[m].open /\ u[m].hidden = t[m].hidden
  BY DEF Relinked, Like
<1>5. ASSUME NEW m \in DOMAIN t \ {n} PROVE Alive(u, s1, o, m) <=> Alive(t, s, o, m)
  <2>1. ASSUME m # Root, Alive(t, s, o, m)
        PROVE  EntryFor(o[t[m].parent], t[m].name, o[m]) # e1
    BY <1>3, <2>1, EntryParts DEF Mirror, ObjectsOK
  <2> QED
    BY <1>2, <1>4, <2>1 DEF Alive
<1>6. ~Alive(u, s1, o, n)
  BY <1>4 DEF Alive
<1>7. ObjectsType(u, o, d, mk)
  BY <1>4 DEF Mirror, ObjectsType
<1>8. EntriesOK(s1, d, mk)
  BY <1>2 DEF Mirror, EntriesOK
<1>9. NamesOK(u, s1, o, d)
  <2> SUFFICES ASSUME NEW m \in DOMAIN t \ {Root}, m # n, t[m].name # NoName
               PROVE  /\ o[t[m].parent] \in {0} \cup d
                      /\ Alive(u, s1, o, m) => Alive(u, s1, o, t[m].parent)
                      /\ ~Alive(u, s1, o, m) =>
                          /\ t[m].name \in HiddenNames /\ o[m] \notin d
                          /\ Alive(u, s1, o, t[m].parent) =>
                              \A e \in s1 : ~(e.dir = o[t[m].parent] /\ e.name = t[m].name)
    BY <1>4 DEF NamesOK
  <2>1. /\ o[t[m].parent] \in {0} \cup d
        /\ Alive(t, s, o, m) => Alive(t, s, o, t[m].parent)
        /\ ~Alive(t, s, o, m) =>
            /\ t[m].name \in HiddenNames /\ o[m] \notin d
            /\ Alive(t, s, o, t[m].parent) =>
                \A e \in s : ~(e.dir = o[t[m].parent] /\ e.name = t[m].name)
    BY DEF Mirror, NamesOK
  <2>2. t[m].parent \in DOMAIN t
    BY DEF GoodTable, HashOK
  <2>3. CASE t[m].parent # n
    BY <1>2, <1>5, <2>1, <2>2, <2>3
  <2>4. CASE t[m].parent = n
    <3>1. ~Alive(t, s, o, m)
      BY <2>4, EntryParts DEF Alive
    <3> QED
      BY <1>5, <1>6, <2>1, <2>4, <3>1
  <2> QED
    BY <2>3, <2>4
<1>10. ObjectsOK(u, s1, o)
  BY <1>2, <1>3, <1>4, <1>5, <1>6 DEF Mirror, ObjectsOK
<1>11. OpenOK(u, s1, o, d)
  <2>1. \A m \in DOMAIN t : u[m].open > 0 => m # n
    BY <1>4
  <2>2. \A m \in DOMAIN u : u[m].open > 0 => m # Root /\ Alive(u, s1, o, m) /\ o[m] \notin d
    BY <1>4, <1>5, <2>1 DEF Mirror, OpenOK
  <2>3. \A m \in DOMAIN u : u[m].hidden => u[m].open > 0
    BY <1>4 DEF Mirror, OpenOK
  <2>4. \A m \in DOMAIN u \ {Root} :
          Alive(u, s1, o, m) /\ u[m].hidden => u[m].name \in HiddenNames
    BY <1>4, <1>5, <1>6 DEF Mirror, OpenOK
  <2> QED
    BY <2>2, <2>3, <2>4 DEF OpenOK
<1>12. HiddenOK(u, s1, o, lf)
  <2> SUFFICES ASSUME NEW e \in s1, e.name \in HiddenNames, e.obj \notin lf \cup {Leftover}
               PROVE  \E m \in DOMAIN t \ {Root} :
                        u[m].hidden /\ Alive(u, s1, o, m) /\ o[m] = e.obj
    BY <1>4 DEF HiddenOK
  <2>1. e \in s /\ e.obj # o[n]
    BY <1>2, <1>3
  <2>2. PICK m \in DOMAIN t \ {Root} : t[m].hidden /\ Alive(t, s, o, m) /\ o[m] = e.obj
    BY <2>1 DEF Mirror, HiddenOK
  <2> QED
    BY <1>4, <1>5, <2>1, <2>2
<1>13. Founded(u)
  <2> SUFFICES ASSUME NEW S \in SUBSET (DOMAIN t \ {Root}),
                      \A m \in S : u[m].name # NoName /\ u[m].parent \in S
               PROVE  S = {}
    BY <1>4 DEF Founded
  <2>1. \A m \in S : t[m].name # NoName /\ t[m].parent \in S
    BY <1>4
  <2> QED
    BY <2>1 DEF Mirror, Founded
<1> QED
  BY <1>1, <1>2, <1>7, <1>8, <1>9, <1>10, <1>11, <1>12, <1>13 DEF Mirror

\* A node and its entry that move to a name that is free, in a directory that is not
\* below the node: U is closed upwards, and has the directory but not the node's object.
LEMMA MoveMirror ==
  ASSUME NEW t, GoodTable(t), NEW s, NEW o, NEW d, NEW mk, NEW lf,
         Mirror(t, s, o, d, mk, lf),
         NEW n \in DOMAIN t \ {Root}, Alive(t, s, o, n),
         NEW q \in DOMAIN t, Alive(t, s, o, q), o[q] \in {0} \cup d,
         NEW new \in AllNames, lookup_node(t, q, new) = {},
         \A e \in s : ~(e.dir = o[q] /\ e.name = new),
         NEW U, o[q] \in U, o[n] \notin U, \A e \in s : e.obj \in U => e.dir \in U,
         NEW b \in BOOLEAN, b <=> new \in HiddenNames, b => t[n].open > 0,
         NEW u, Relinked(t, u, n, new, q, b)
  PROVE  Mirror(u, (s \ {EntryFor(o[t[n].parent], t[n].name, o[n])})
                   \cup {EntryFor(o[q], new, o[n])}, o, d, mk, lf)
<1>1. PICK e1 : e1 = EntryFor(o[t[n].parent], t[n].name, o[n])
  OBVIOUS
<1>2. PICK e2 : e2 = EntryFor(o[q], new, o[n])
  OBVIOUS
<1>3. PICK s1 : s1 = (s \ {e1}) \cup {e2}
  OBVIOUS
<1>4. e1 \in s /\ e1.obj = o[n] /\ \A e \in s : e.obj = o[n] => e = e1
  BY <1>1, OwnEntry, EntryParts
<1>5. e2.dir = o[q] /\ e2.name = new /\ e2.obj = o[n] /\ e2 \notin s
  BY <1>2, EntryParts
<1>6. q # n /\ new # NoName
  BY NameFacts
<1>7. /\ DOMAIN u = DOMAIN t /\ u[n].name = new /\ u[n].parent = q /\ u[n].hidden = b
      /\ \A m \in DOMAIN t \ {n} : /\ u[m].name = t[m].name /\ u[m].parent = t[m].parent
                                   /\ u[m].hidden = t[m].hidden
      /\ \A m \in DOMAIN t : u[m].open = t[m].open
  BY DEF Relinked, Like
<1>8. Alive(u, s1, o, n)
  BY <1>2, <1>3, <1>6, <1>7 DEF Alive
<1>9. ASSUME NEW m \in DOMAIN t \ {n} PROVE Alive(u, s1, o, m) <=> Alive(t, s, o, m)
  <2>1. PICK f : f = EntryFor(o[t[m].parent], t[m].name, o[m])
    OBVIOUS
  <2>2. f.obj = o[m]
    BY <2>1, EntryParts
  <2>3. ASSUME m # Root, Alive(t, s, o, m) PROVE f # e1
    BY <1>4, <2>2, <2>3 DEF Mirror, ObjectsOK
  <2>4. ASSUME ~Alive(t, s, o, m) PROVE f # e2
    BY <1>4, <1>5, <2>2, <2>4 DEF Mirror, ObjectsOK
  <2> QED
    BY <1>3, <1>7, <2>1, <2>3, <2>4 DEF Alive
<1>10. \A m \in DOMAIN t : Alive(u, s1, o, m) <=> Alive(t, s, o, m)
  BY <1>8, <1>9
<1>11. ObjectsType(u, o, d, mk)
  BY <1>7 DEF Mirror, ObjectsType
<1>12. EntriesOK(s1, d, mk)
  <2>1. e2 \in [dir : {0} \cup d, name : AllNames, obj : (1..mk) \cup {Leftover}]
    <3>1. o[n] \in (1..mk) \cup {Leftover}
      BY <1>4, EntryType DEF Mirror
    <3> QED
      BY <1>2, <3>1 DEF EntryFor
  <2>2. \A e, f \in s1 : ((e.dir = f.dir /\ e.name = f.name) \/ e.obj = f.obj) => e = f
    <3>1. \A e \in s1 : e # e2 =>
             /\ e \in s /\ e # e1 /\ e.obj # o[n] /\ ~(e.dir = o[q] /\ e.name = new)
      BY <1>3, <1>4
    <3> QED
      BY <1>5, <3>1 DEF Mirror, EntriesOK
  <2>3. \A e \in s1 : e.obj = Leftover => e.name \in HiddenNames
    <3>1. o[n] # Leftover
      BY FuseNodesAssumption DEF Mirror, ObjectsType, Leftover
    <3> QED
      BY <1>3, <1>5, <3>1 DEF Mirror, EntriesOK
  <2> QED
    BY <1>3, <2>1, <2>2, <2>3 DEF Mirror, EntriesOK
<1>13. NamesOK(u, s1, o, d)
  <2> SUFFICES ASSUME NEW m \in DOMAIN t \ {Root}, u[m].name # NoName
               PROVE  /\ o[u[m].parent] \in {0} \cup d
                      /\ Alive(u, s1, o, m) => Alive(u, s1, o, u[m].parent)
                      /\ ~Alive(u, s1, o, m) =>
                          /\ u[m].name \in HiddenNames /\ o[m] \notin d
                          /\ Alive(u, s1, o, u[m].parent) =>
                              \A e \in s1 : ~(e.dir = o[u[m].parent] /\ e.name = u[m].name)
    BY <1>7 DEF NamesOK
  <2>1. CASE m = n
    BY <1>7, <1>8, <1>10, <2>1
  <2>2. CASE m # n
    <3>1. t[m].name # NoName /\ u[m].name = t[m].name /\ u[m].parent = t[m].parent
      BY <1>7, <2>2
    <3>2. /\ o[t[m].parent] \in {0} \cup d
          /\ Alive(t, s, o, m) => Alive(t, s, o, t[m].parent)
          /\ ~Alive(t, s, o, m) =>
              /\ t[m].name \in HiddenNames /\ o[m] \notin d
              /\ Alive(t, s, o, t[m].parent) =>
                  \A e \in s : ~(e.dir = o[t[m].parent] /\ e.name = t[m].name)
      BY <3>1 DEF Mirror, NamesOK
    <3>3. t[m].parent \in DOMAIN t
      BY <3>1 DEF GoodTable, HashOK
    <3>4. ASSUME Alive(t, s, o, t[m].parent)
          PROVE  ~(o[q] = o[t[m].parent] /\ new = t[m].name)
      BY <3>3, <3>4 DEF Mirror, ObjectsOK, lookup_node
    <3> QED
      BY <1>3, <1>5, <1>10, <3>1, <3>2, <3>3, <3>4
  <2> QED
    BY <2>1, <2>2
<1>14. ObjectsOK(u, s1, o)
  <2>1. ASSUME NEW m \in DOMAIN t, ~Alive(t, s, o, m), NEW e \in s1 PROVE e.obj # o[m]
    <3>1. o[m] # o[n]
      BY <1>4, <2>1 DEF Mirror, ObjectsOK
    <3> QED
      BY <1>3, <1>5, <2>1, <3>1 DEF Mirror, ObjectsOK
  <2> QED
    BY <1>7, <1>10, <2>1 DEF Mirror, ObjectsOK
<1>15. OpenOK(u, s1, o, d)
  <2>1. \A m \in DOMAIN u : u[m].open > 0 => m # Root /\ Alive(u, s1, o, m) /\ o[m] \notin d
    BY <1>7, <1>10 DEF Mirror, OpenOK
  <2>2. \A m \in DOMAIN u : u[m].hidden => u[m].open > 0
    BY <1>7 DEF Mirror, OpenOK
  <2>3. \A m \in DOMAIN u \ {Root} :
          Alive(u, s1, o, m) /\ u[m].hidden => u[m].name \in HiddenNames
    BY <1>7, <1>10 DEF Mirror, OpenOK
  <2> QED
    BY <2>1, <2>2, <2>3 DEF OpenOK
<1>16. HiddenOK(u, s1, o, lf)
  <2> SUFFICES ASSUME NEW e \in s1, e.name \in HiddenNames, e.obj \notin lf \cup {Leftover}
               PROVE  \E m \in DOMAIN t \ {Root} :
                        u[m].hidden /\ Alive(u, s1, o, m) /\ o[m] = e.obj
    BY <1>7 DEF HiddenOK
  <2>1. CASE e = e2
    BY <1>5, <1>7, <1>8, <2>1
  <2>2. CASE e # e2
    <3>1. e \in s /\ e.obj # o[n]
      BY <1>3, <1>4, <2>2
    <3>2. PICK m \in DOMAIN t \ {Root} : t[m].hidden /\ Alive(t, s, o, m) /\ o[m] = e.obj
      BY <3>1 DEF Mirror, HiddenOK
    <3> QED
      BY <1>7, <1>10, <3>1, <3>2
  <2> QED
    BY <2>1, <2>2
<1>17. Founded(u)
  <2> SUFFICES ASSUME NEW S \in SUBSET (DOMAIN t \ {Root}),
                      \A m \in S : u[m].name # NoName /\ u[m].parent \in S
               PROVE  S = {}
    BY <1>7 DEF Founded
  <2>1. CASE n \notin S
    <3>1. \A m \in S : t[m].name # NoName /\ t[m].parent \in S
      BY <1>7, <2>1
    <3> QED
      BY <3>1 DEF Mirror, Founded
  <2>2. CASE n \in S
    <3> DEFINE T == {m \in S : o[m] \in U /\ Alive(t, s, o, m)}
    <3>1. q \in T
      BY <1>7, <2>2
    <3>2. ASSUME NEW m \in T PROVE t[m].name # NoName /\ t[m].parent \in T
      <4>1. m \in S /\ o[m] \in U /\ Alive(t, s, o, m) /\ m # n /\ m \in DOMAIN t \ {Root}
        OBVIOUS
      <4>2. t[m].name # NoName /\ t[m].parent \in S
        BY <1>7, <4>1
      <4>3. EntryFor(o[t[m].parent], t[m].name, o[m]) \in s /\ Alive(t, s, o, t[m].parent)
        BY <4>1, <4>2, OwnEntry DEF Mirror, NamesOK
      <4>4. o[t[m].parent] \in U
        BY <4>1, <4>3, EntryParts
      <4> QED
        BY <4>2, <4>3, <4>4
    <3>3. T \in SUBSET (DOMAIN t \ {Root})
      OBVIOUS
    <3> HIDE DEF T
    <3>4. T = {}
      BY <3>2, <3>3 DEF Mirror, Founded
    <3> QED
      BY <3>1, <3>4
  <2> QED
    BY <2>1, <2>2
<1> QED
  BY <1>1, <1>2, <1>3, <1>11, <1>12, <1>13, <1>14, <1>15, <1>16, <1>17 DEF Mirror

-----------------------------------------------------------------------------
(* The inductive invariant and the requests.                               *)

\* Every node has the lookups and the open files that the kernel knows of.
Kernel(t, lookups, opens) ==
    /\ DOMAIN lookups = DOMAIN t /\ DOMAIN opens = DOMAIN t
    /\ \A n \in DOMAIN t : /\ lookups[n] = t[n].nlookup /\ opens[n] = t[n].open
                           /\ t[n].nlookup > 0

Counters == ctr \in 1..(IdSpace - 1) /\ hidectr \in Nat

IInv ==
    /\ GoodTable(tab) /\ Kernel(tab, known, handles) /\ Counters
    /\ Mirror(tab, fs, of, dirs, made, left)

\* A node that a client's name is looked up with stands for the entry with that name.
LEMMA NodeEntry ==
  ASSUME NEW t, GoodTable(t), NEW s, NEW o, NEW d, NEW mk, NEW lf,
         Mirror(t, s, o, d, mk, lf),
         NEW p, NEW nm \in Names, NEW n \in lookup_node(t, p, nm)
  PROVE  /\ n \in DOMAIN t \ {Root} /\ t[n].name = nm /\ t[n].parent = p
         /\ Alive(t, s, o, n) /\ Alive(t, s, o, p) /\ ~t[n].hidden
         /\ o[p] \in {0} \cup d
         /\ EntryFor(o[p], nm, o[n]) \in s
         /\ Entry(s, o[p], nm) = {EntryFor(o[p], nm, o[n])}
         /\ ObjOf(Entry(s, o[p], nm)) = o[n]
<1>1. nm # NoName /\ nm \notin HiddenNames
  BY NameFacts DEF AllNames
<1>2. n \in DOMAIN t \ {Root} /\ t[n].name = nm /\ t[n].parent = p
  BY DEF lookup_node
<1>3. Alive(t, s, o, n) /\ Alive(t, s, o, p) /\ o[p] \in {0} \cup d
  BY <1>1, <1>2 DEF Mirror, NamesOK
<1>4. ~t[n].hidden
  BY <1>1, <1>2, <1>3 DEF Mirror, OpenOK
<1>5. EntryFor(o[p], nm, o[n]) \in s
  BY <1>2, <1>3 DEF Alive
<1> QED
  BY <1>2, <1>3, <1>4, <1>5, FoundThere DEF Mirror

\* A held node is in the table, and is for a directory.
LEMMA HeldNode ==
  ASSUME IInv, NEW p \in Held
  PROVE  p \in DOMAIN tab /\ (of[p] = 0 \/ of[p] \in dirs) /\ of[p] \in {0} \cup dirs
  BY DEF IInv, Kernel, Held

\* find_node for an entry that has no node.
LEMMA NewNodeStep ==
  ASSUME IInv, Free(tab), NEW s, NEW d, NEW mk, NEW lf, Mirror(tab, s, of, d, mk, lf),
         NEW p \in DOMAIN tab, Alive(tab, s, of, p), of[p] \in {0} \cup d,
         NEW nm \in Names, NEW x, EntryFor(of[p], nm, x) \in s, lookup_node(tab, p, nm) = {},
         NEW n, n = FoundId(tab, p, nm), NEW u, u = find_node(tab, p, nm)
  PROVE  /\ n \in 1..(IdSpace - 1) /\ n \notin DOMAIN tab
         /\ GoodTable(u) /\ Added(tab, u, n, nm, p)
         /\ Mirror(u, s, With(of, n, x), d, mk, lf) /\ Alive(u, s, With(of, n, x), n)
         /\ forget_node(u, n, 1) = tab
<1>1. /\ n \in 1..(IdSpace - 1) /\ n \notin DOMAIN tab
      /\ GoodTable(u) /\ Added(tab, u, n, nm, p)
  BY FindNew DEF IInv, Counters, AllNames
<1>2. Mirror(u, s, With(of, n, x), d, mk, lf)
  BY <1>1, AddMirror DEF IInv
<1>3. forget_node(u, n, 1) = tab
  BY <1>1, TakenBackNew DEF IInv
<1>4. Alive(u, s, With(of, n, x), n)
  <2>1. PICK o1 : o1 = With(of, n, x)
    OBVIOUS
  <2>2. DOMAIN of = DOMAIN tab
    BY DEF IInv, Mirror, ObjectsType
  <2>3. o1[n] = x /\ o1[p] = of[p]
    BY <1>1, <2>1, <2>2 DEF With
  <2>4. u[n].name = nm /\ u[n].parent = p /\ nm # NoName
    BY <1>1, NameFacts DEF Added, AllNames
  <2> QED
    BY <2>1, <2>3, <2>4 DEF Alive
<1> QED
  BY <1>1, <1>2, <1>3, <1>4

\* The kernel's counts after a reply.
LEMMA ReplyCounts ==
  ASSUME NEW t, NEW lookups, NEW opens, Kernel(t, lookups, opens), NEW u, GoodTable(u), NEW n,
         NEW l \in Nat \ {0}, NEW k,
         DOMAIN u = DOMAIN t \cup {n}, u[n].nlookup = l, u[n].open = k,
         \A m \in DOMAIN t \ {n} : u[m].nlookup = t[m].nlookup /\ u[m].open = t[m].open
  PROVE  Kernel(u, With(lookups, n, l), With(opens, n, k))
<1>1. PICK l1, k1 : l1 = With(lookups, n, l) /\ k1 = With(opens, n, k)
  OBVIOUS
<1>2. DOMAIN l1 = DOMAIN u /\ DOMAIN k1 = DOMAIN u
  BY <1>1 DEF Kernel, With
<1>3. /\ l1[n] = l /\ k1[n] = k
      /\ \A m \in DOMAIN t \ {n} : l1[m] = lookups[m] /\ k1[m] = opens[m]
  BY <1>1 DEF With, Kernel
<1>4. \A m \in DOMAIN u : l1[m] = u[m].nlookup /\ k1[m] = u[m].open /\ u[m].nlookup > 0
  BY <1>3 DEF Kernel
<1> QED
  BY <1>1, <1>2, <1>4 DEF Kernel

\* The reply to an entry that the file system has.
LEMMA ReplyStep ==
  ASSUME IInv, NEW s, NEW d, NEW mk, NEW lf, Mirror(tab, s, of, d, mk, lf),
         NEW p \in DOMAIN tab, Alive(tab, s, of, p), of[p] \in {0} \cup d,
         NEW nm \in Names, NEW x, EntryFor(of[p], nm, x) \in s, Reply(tab, p, nm, x)
  PROVE  /\ GoodTable(tab') /\ Kernel(tab', known', handles') /\ ctr' \in 1..(IdSpace - 1)
         /\ Mirror(tab', s, of', d, mk, lf)
<1>1. PICK n : n = FoundId(tab, p, nm)
  OBVIOUS
<1>2. PICK u : u = find_node(tab, p, nm)
  OBVIOUS
<1>3. /\ lookup_node(tab, p, nm) # {} \/ Free(tab)
      /\ ctr' = IF lookup_node(tab, p, nm) # {} THEN ctr ELSE n
      /\ \/ /\ tab' = u
            /\ known' = With(known, n, Count(known, n) + 1)
            /\ handles' = With(handles, n, Count(handles, n))
            /\ of' = With(of, n, x)
         \/ tab' = forget_node(u, n, 1) /\ known' = known /\ handles' = handles /\ of' = of
  BY <1>1, <1>2 DEF Reply, kernel
<1>4. /\ GoodTable(tab) /\ Kernel(tab, known, handles) /\ ctr \in 1..(IdSpace - 1)
      /\ DOMAIN of = DOMAIN tab /\ of \in [DOMAIN tab -> 0..made]
  BY DEF IInv, Counters, Mirror, ObjectsType
<1>5. CASE lookup_node(tab, p, nm) = {}
  <2>1. /\ n \in 1..(IdSpace - 1) /\ n \notin DOMAIN tab
        /\ GoodTable(u) /\ Added(tab, u, n, nm, p)
        /\ Mirror(u, s, With(of, n, x), d, mk, lf) /\ forget_node(u, n, 1) = tab
    BY <1>1, <1>2, <1>3, <1>5, NewNodeStep
  <2>2. Kernel(u, With(known, n, 1), With(handles, n, 0))
    BY <1>4, <2>1, ReplyCounts DEF Added, Like
  <2>3. Count(known, n) = 0 /\ Count(handles, n) = 0
    BY <1>4, <2>1 DEF Count, Kernel
  <2> QED
    BY <1>3, <1>4, <1>5, <2>1, <2>2, <2>3
<1>6. ASSUME NEW c \in lookup_node(tab, p, nm)
      PROVE  /\ GoodTable(tab') /\ Kernel(tab', known', handles') /\ ctr' \in 1..(IdSpace - 1)
             /\ Mirror(tab', s, of', d, mk, lf)
  <2>1. nm # NoName
    BY NameFacts DEF AllNames
  <2>2. /\ n = c /\ n \in DOMAIN tab \ {Root} /\ GoodTable(u)
        /\ Counted(tab, u, n, tab[n].nlookup + 1, tab[n].open, tab[n].hidden)
    BY <1>1, <1>2, <1>4, <1>6, <2>1, FindOld
  <2>3. of[n] = x
    <3>1. ObjOf(Entry(s, of[p], nm)) = of[n]
      BY <1>4, <1>6, <2>2, NodeEntry
    <3>2. ObjOf(Entry(s, of[p], nm)) = x
      BY FoundThere DEF Mirror
    <3> QED
      BY <3>1, <3>2
  <2>4. With(of, n, x) = of
    BY <1>4, <2>2, <2>3 DEF With
  <2>5. tab[n].nlookup > 0 /\ tab[n].nlookup \in Nat /\ tab[n].open \in Nat
    BY <1>4, <2>2, NodeType DEF Kernel, GoodTable, TableOK
  <2>6. forget_node(u, n, 1) = tab
    BY <1>2, <1>4, <1>6, <2>1, <2>2, <2>5, TakenBackOld
  <2>7. Kernel(u, With(known, n, tab[n].nlookup + 1), With(handles, n, tab[n].open))
    <3>1. PICK l \in Nat \ {0} : l = tab[n].nlookup + 1
      BY <2>5
    <3>2. PICK k : k = tab[n].open
      OBVIOUS
    <3>3. /\ DOMAIN u = DOMAIN tab \cup {n} /\ u[n].nlookup = l /\ u[n].open = k
          /\ \A m \in DOMAIN tab \ {n} : u[m].nlookup = tab[m].nlookup /\ u[m].open = tab[m].open
      BY <2>2, <3>1, <3>2 DEF Counted, Like
    <3>4. Kernel(u, With(known, n, l), With(handles, n, k))
      BY <1>4, <2>2, <3>3, ReplyCounts
    <3> QED
      BY <3>1, <3>2, <3>4
  <2>8. Count(known, n) = tab[n].nlookup /\ Count(handles, n) = tab[n].open
    BY <1>4, <2>2 DEF Count, Kernel
  <2>9. Mirror(u, s, of, d, mk, lf)
    <3>1. /\ tab[n].open > 0 => n # Root /\ Alive(tab, s, of, n) /\ of[n] \notin d
          /\ tab[n].hidden => tab[n].open > 0
      BY <2>2 DEF Mirror, OpenOK
    <3> QED
      BY <1>4, <2>2, <3>1, CountMirror
  <2> QED
    BY <1>3, <1>4, <1>6, <2>2, <2>4, <2>6, <2>7, <2>8, <2>9
<1> QED
  BY <1>5, <1>6

LEMMA LookupStep ==
  ASSUME IInv, NEW p \in Held, NEW nm \in Names, Lookup(p, nm)
  PROVE  IInv'
<1>1. p \in DOMAIN tab /\ (of[p] = 0 \/ of[p] \in dirs) /\ of[p] \in {0} \cup dirs
  BY HeldNode
<1>2. Alive(tab, fs, of, p) /\ EntryFor(of[p], nm, At(p, nm)) \in fs
  BY <1>1, AtEntry DEF Lookup, IInv
<1>3. Mirror(tab, fs, of, dirs, made, left) /\ Reply(tab, p, nm, At(p, nm))
  BY DEF IInv, Lookup
<1>4. /\ GoodTable(tab') /\ Kernel(tab', known', handles') /\ ctr' \in 1..(IdSpace - 1)
      /\ Mirror(tab', fs, of', dirs, made, left)
  BY <1>1, <1>2, <1>3, ReplyStep
<1>5. fs' = fs /\ dirs' = dirs /\ made' = made /\ hidectr' = hidectr /\ left' = left
  BY DEF Lookup
<1> QED
  BY <1>4, <1>5 DEF IInv, Counters

\* A new object and its entry, for mknod, symlink, mkdir and create.
LEMMA MadeThere ==
  ASSUME IInv, NEW p \in Held, NEW nm \in Names, made < MaxObjects, HasPath(p),
         At(p, nm) = NoFile, NEW d1, d1 = dirs \/ d1 = dirs \cup {made + 1}
  PROVE  /\ p \in DOMAIN tab /\ of[p] \in {0} \cup d1 /\ DirOf(p) = of[p]
         /\ lookup_node(tab, p, nm) = {}
         /\ LET s1 == fs \cup {EntryFor(of[p], nm, made + 1)}
            IN  Mirror(tab, s1, of, d1, made + 1, left) /\ Alive(tab, s1, of, p)
<1>1. p \in DOMAIN tab /\ (of[p] = 0 \/ of[p] \in dirs) /\ of[p] \in {0} \cup dirs
  BY HeldNode
<1>2. GoodTable(tab) /\ Mirror(tab, fs, of, dirs, made, left)
  BY DEF IInv
<1>3. Alive(tab, fs, of, p)
  BY <1>1, <1>2, DirPath
<1>4. DirOf(p) = of[p] /\ \A e \in fs : ~(e.dir = of[p] /\ e.name = nm)
  BY <1>1, <1>2, <1>3, AtEntry
<1>5. lookup_node(tab, p, nm) = {}
  <2> SUFFICES ASSUME NEW n \in lookup_node(tab, p, nm) PROVE FALSE
    OBVIOUS
  <2>1. EntryFor(of[p], nm, of[n]) \in fs
    BY <1>2, NodeEntry
  <2> QED
    BY <1>4, <2>1, EntryParts
<1>6. PICK s1 : s1 = fs \cup {EntryFor(of[p], nm, made + 1)}
  OBVIOUS
<1>7. Mirror(tab, s1, of, d1, made + 1, left)
  BY <1>1, <1>2, <1>4, <1>6, MakeMirror
<1>8. Alive(tab, s1, of, p)
  BY <1>3, <1>6 DEF Alive
<1> QED
  BY <1>1, <1>4, <1>5, <1>6, <1>7, <1>8

LEMMA MakeStep ==
  ASSUME IInv, NEW p \in Held, NEW nm \in Names, NEW isDir \in BOOLEAN, Make(p, nm, isDir)
  PROVE  IInv'
<1>1. PICK d1 : d1 = dirs'
  OBVIOUS
<1>2. PICK s1 : s1 = fs \cup {EntryFor(of[p], nm, made + 1)}
  OBVIOUS
<1>3. /\ made < MaxObjects /\ HasPath(p) /\ At(p, nm) = NoFile
      /\ made' = made + 1 /\ (d1 = dirs \/ d1 = dirs \cup {made + 1})
      /\ Reply(tab, p, nm, made + 1) /\ hidectr' = hidectr /\ left' = left
  BY <1>1 DEF Make
<1>4. /\ p \in DOMAIN tab /\ of[p] \in {0} \cup d1 /\ DirOf(p) = of[p]
      /\ Mirror(tab, s1, of, d1, made + 1, left) /\ Alive(tab, s1, of, p)
  BY <1>2, <1>3, MadeThere
<1>5. fs' = s1
  BY <1>2, <1>3, <1>4 DEF Make, EntryFor
<1>6. /\ GoodTable(tab') /\ Kernel(tab', known', handles') /\ ctr' \in 1..(IdSpace - 1)
      /\ Mirror(tab', s1, of', d1, made + 1, left)
  BY <1>2, <1>3, <1>4, ReplyStep
<1> QED
  BY <1>1, <1>3, <1>5, <1>6 DEF IInv, Counters

LEMMA CreateStep ==
  ASSUME IInv, NEW p \in Held, NEW nm \in Names, Create(p, nm)
  PROVE  IInv'
<1>1. PICK n : n = FoundId(tab, p, nm)
  OBVIOUS
<1>2. PICK u : u = find_node(tab, p, nm)
  OBVIOUS
<1>3. PICK s1 : s1 = fs \cup {EntryFor(of[p], nm, made + 1)}
  OBVIOUS
<1>4. PICK x : x = made + 1
  OBVIOUS
<1>5. /\ made < MaxObjects /\ HasPath(p) /\ At(p, nm) = NoFile
      /\ lookup_node(tab, p, nm) # {} \/ Free(tab)
      /\ made' = x /\ dirs' = dirs /\ hidectr' = hidectr /\ left' = left
      /\ ctr' = IF lookup_node(tab, p, nm) # {} THEN ctr ELSE n
  BY <1>1, <1>4 DEF Create
<1>6. /\ p \in DOMAIN tab /\ of[p] \in {0} \cup dirs /\ DirOf(p) = of[p]
      /\ lookup_node(tab, p, nm) = {}
      /\ Mirror(tab, s1, of, dirs, x, left) /\ Alive(tab, s1, of, p)
  BY <1>3, <1>4, <1>5, MadeThere
<1>7. fs' = s1
  BY <1>3, <1>6 DEF Create, EntryFor
<1>8. /\ n \in 1..(IdSpace - 1) /\ n \notin DOMAIN tab
      /\ GoodTable(u) /\ Added(tab, u, n, nm, p)
      /\ Mirror(u, s1, With(of, n, x), dirs, x, left) /\ Alive(u, s1, With(of, n, x), n)
      /\ forget_node(u, n, 1) = tab
  <2>1. EntryFor(of[p], nm, x) \in s1
    BY <1>3, <1>4
  <2> QED
    BY <1>1, <1>2, <1>5, <1>6, <2>1, NewNodeStep
<1>9. /\ GoodTable(tab) /\ Kernel(tab, known, handles) /\ DOMAIN of = DOMAIN tab
  BY DEF IInv, Mirror, ObjectsType
<1>10. CASE /\ tab' = [u EXCEPT ![n].open = @ + 1]
            /\ known' = With(known, n, Count(known, n) + 1)
            /\ handles' = With(handles, n, Count(handles, n) + 1)
            /\ of' = With(of, n, x)
  <2>1. n \in DOMAIN u /\ u[n].open = 0 /\ u[n].hidden = FALSE /\ u[n].nlookup = 1
    BY <1>8 DEF Added
  <2>2. PICK v : v = [u EXCEPT ![n].open = 1]
    OBVIOUS
  <2>3. GoodTable(v) /\ Counted(u, v, n, 1, 1, u[n].hidden)
    BY <1>8, <2>1, <2>2, SetOpenOnly
  <2>4. tab' = v
    BY <1>10, <2>1, <2>2
  <2>5. PICK o1 : o1 = With(of, n, x)
    OBVIOUS
  <2>6. o1[n] = x /\ x \notin dirs
    BY <1>4, <1>9, <2>5 DEF With, IInv, Mirror, ObjectsType
  <2>7. Mirror(v, s1, o1, dirs, x, left)
    <3>1. n # Root
      BY <1>8, <1>9 DEF GoodTable, TableOK
    <3> QED
      BY <1>8, <2>1, <2>3, <2>5, <2>6, <3>1, CountMirror
  <2>8. Kernel(v, With(known, n, 1), With(handles, n, 1))
    <3>1. /\ DOMAIN v = DOMAIN tab \cup {n} /\ v[n].nlookup = 1 /\ v[n].open = 1
          /\ \A m \in DOMAIN tab \ {n} : v[m].nlookup = tab[m].nlookup /\ v[m].open = tab[m].open
      BY <1>8, <2>3 DEF Counted, Added, Like
    <3> QED
      BY <1>9, <2>3, <3>1, ReplyCounts
  <2>9. Count(known, n) + 1 = 1 /\ Count(handles, n) + 1 = 1
    BY <1>8, <1>9 DEF Count, Kernel
  <2>10. Kernel(tab', known', handles')
    BY <1>10, <2>4, <2>8, <2>9
  <2>11. Mirror(tab', fs', of', dirs', made', left')
    BY <1>5, <1>7, <1>10, <2>4, <2>5, <2>7
  <2>12. Counters'
    BY <1>5, <1>6, <1>8 DEF IInv, Counters
  <2> QED
    BY <2>3, <2>4, <2>10, <2>11, <2>12 DEF IInv
<1>11. CASE tab' = forget_node(u, n, 1) /\ UNCHANGED kernel
  BY <1>5, <1>6, <1>7, <1>8, <1>9, <1>11 DEF kernel, IInv, Counters
<1> QED
  BY <1>1, <1>2, <1>4, <1>5, <1>10, <1>11 DEF Create

LEMMA OpenStep ==
  ASSUME IInv, NEW n \in DOMAIN known, Open(n)
  PROVE  IInv'
<1>1. n \in DOMAIN tab /\ GoodTable(tab) /\ Mirror(tab, fs, of, dirs, made, left)
      /\ Kernel(tab, known, handles)
  BY DEF IInv, Kernel
<1>2. Alive(tab, fs, of, n) /\ n # Root /\ of[n] \notin dirs
  BY <1>1, PathIs DEF Open, HasPath, DirOf, Leads
<1>3. tab[n].open \in Nat /\ tab[n].hidden \in BOOLEAN
  BY <1>1, NodeType DEF GoodTable, TableOK
<1>4. PICK k \in Nat : k = tab[n].open + 1 /\ k > 0
  BY <1>3
<1>5. PICK u : u = [tab EXCEPT ![n].open = k]
  OBVIOUS
<1>6. GoodTable(u) /\ Counted(tab, u, n, tab[n].nlookup, k, tab[n].hidden)
  BY <1>1, <1>5, SetOpenOnly
<1>7. tab' = u /\ handles' = [handles EXCEPT ![n] = @ + 1] /\ known' = known
  BY <1>4, <1>5 DEF Open
<1>8. Mirror(u, fs, of, dirs, made, left)
  BY <1>1, <1>2, <1>4, <1>6, CountMirror
<1>9. Kernel(tab', known', handles')
  BY <1>1, <1>4, <1>6, <1>7 DEF Kernel, Counted, Like
<1> QED
  BY <1>6, <1>7, <1>8, <1>9 DEF Open, IInv, Counters

LEMMA ReleaseStep ==
  ASSUME IInv, NEW n \in DOMAIN known, Release(n)
  PROVE  IInv'
<1>1. n \in DOMAIN tab /\ GoodTable(tab) /\ Mirror(tab, fs, of, dirs, made, left)
      /\ Kernel(tab, known, handles)
  BY DEF IInv, Kernel
<1>2. tab[n].open \in Nat /\ tab[n].hidden \in BOOLEAN /\ tab[n].open > 0
  BY <1>1, NodeType DEF GoodTable, TableOK, Release, Kernel
<1>3. PICK k \in Nat : k = tab[n].open - 1
  BY <1>2
<1>4. PICK b \in BOOLEAN : b <=> (tab[n].hidden /\ tab[n].open # 1)
  OBVIOUS
<1>5. PICK u : u = [tab EXCEPT ![n].open = k, ![n].hidden = b]
  OBVIOUS
<1>6. GoodTable(u) /\ Counted(tab, u, n, tab[n].nlookup, k, b)
  BY <1>1, <1>5, SetOpen
<1>7. tab' = u
  <2>1. (tab[n].hidden /\ ~(tab[n].hidden /\ tab[n].open = 1)) = b
    BY <1>2, <1>4
  <2>2. tab' = [tab EXCEPT ![n].open = @ - 1,
                           ![n].hidden = @ /\ ~(tab[n].hidden /\ tab[n].open = 1)]
    BY DEF Release
  <2> QED
    BY <1>1, <1>3, <1>5, <2>1, <2>2
<1>8. Kernel(tab', known', handles')
  <2>1. handles' = [handles EXCEPT ![n] = @ - 1] /\ known' = known
    BY DEF Release
  <2> QED
    BY <1>1, <1>3, <1>6, <1>7, <2>1 DEF Kernel, Counted, Like
<1>9. Mirror(tab', fs', of', dirs', made', left')
  <2>1. of' = of /\ dirs' = dirs /\ made' = made
    BY DEF Release
  <2>2. n # Root /\ Alive(tab, fs, of, n) /\ of[n] \notin dirs
    BY <1>1, <1>2 DEF Mirror, OpenOK
  <2>3. CASE tab[n].hidden /\ tab[n].open = 1
    <3>1. get_path[n] = of[n] /\ of[n] \in Nat
      BY <1>1, <2>2, PathIs DEF Leads, Mirror, ObjectsType
    <3>2. HasPath(n)
      BY <3>1 DEF HasPath, NoPath
    <3>3. \/ fs' = {e \in fs : e.obj # get_path[n]} /\ left' = left
          \/ fs' = fs /\ left' = left \cup {of[n]}
      BY <2>3, <3>2 DEF Release
    <3>4. \/ fs' = {e \in fs : e.obj # of[n]} /\ left' = left
          \/ fs' = fs /\ left' = left \cup {of[n]}
      BY <3>1, <3>3
    <3>5. k = 0 /\ ~b
      BY <1>3, <1>4, <2>3
    <3>6. Counted(tab, u, n, tab[n].nlookup, 0, b)
      BY <1>6, <3>5
    <3>7. PICK s1 : s1 = {e \in fs : e.obj # of[n]}
      OBVIOUS
    <3>8. Mirror(u, s1, of, dirs, made, left)
      BY <1>1, <2>3, <3>5, <3>6, <3>7, ReleaseMirror
    <3>9. PICK lf1 : lf1 = left \cup {of[n]}
      OBVIOUS
    <3>10. Mirror(u, fs, of, dirs, made, lf1)
      BY <1>1, <2>3, <3>5, <3>6, <3>9, ReleaseKeptMirror
    <3> QED
      BY <1>7, <2>1, <3>4, <3>7, <3>8, <3>9, <3>10
  <2>4. CASE ~(tab[n].hidden /\ tab[n].open = 1)
    <3>1. fs' = fs /\ left' = left
      BY <2>4 DEF Release
    <3>2. b = tab[n].hidden
      BY <1>2, <1>4, <2>4
    <3>3. Counted(tab, u, n, tab[n].nlookup, k, tab[n].hidden)
      BY <1>6, <3>2
    <3>4. tab[n].hidden => k > 0
      BY <1>2, <1>3, <2>4
    <3> QED
      BY <1>1, <1>7, <2>1, <2>2, <3>1, <3>3, <3>4, CountMirror
  <2> QED
    BY <2>3, <2>4
<1> QED
  BY <1>6, <1>7, <1>8, <1>9 DEF Release, IInv, Counters

LEMMA ForgetStep ==
  ASSUME IInv, NEW n \in DOMAIN known, Forget(n)
  PROVE  IInv'
<1>1. n \in DOMAIN tab \ {Root} /\ GoodTable(tab) /\ Mirror(tab, fs, of, dirs, made, left)
      /\ Kernel(tab, known, handles)
  BY DEF IInv, Kernel, Forget
<1>2. tab[n].open = 0 /\ Children(tab, n) = {} /\ known[n] = tab[n].nlookup
  BY <1>1 DEF Kernel, Forget, Children
<1>3. PICK u : u = forget_node(tab, n, tab[n].nlookup)
  OBVIOUS
<1>4. GoodTable(u) /\ Dropped(tab, u, n)
  BY <1>1, <1>2, <1>3, Drop
<1>5. tab' = u /\ known' = Without(known, n) /\ handles' = Without(handles, n)
      /\ of' = Without(of, n)
  BY <1>2, <1>3 DEF Forget
<1>6. Kernel(tab', known', handles')
  BY <1>1, <1>4, <1>5 DEF Kernel, Dropped, Like, Without
<1>7. Mirror(u, fs, Without(of, n), dirs, made, left)
  BY <1>1, <1>2, <1>4, DropMirror
<1> QED
  BY <1>4, <1>5, <1>6, <1>7 DEF Forget, IInv, Counters

\* A rename to a name that is free moves the entry.
LEMMA RenamedFree ==
  ASSUME NEW s, NEW d, NEW mk, EntriesOK(s, d, mk), NEW a, NEW nm, NEW x,
         EntryFor(a, nm, x) \in s, NEW b, NEW new, \A e \in s : ~(e.dir = b /\ e.name = new)
  PROVE  Renamed(s, a, nm, b, new) = (s \ {EntryFor(a, nm, x)}) \cup {EntryFor(b, new, x)}
<1>1. PICK e1 \in s : e1 = EntryFor(a, nm, x)
  OBVIOUS
<1>2. PICK e2 : e2 = EntryFor(b, new, x)
  OBVIOUS
<1>3. [e1 EXCEPT !.dir = b, !.name = new] = e2
  <2>1. e1 \in [dir : {a}, name : {nm}, obj : {x}]
    BY <1>1 DEF EntryFor
  <2>2. PICK f : f = [e1 EXCEPT !.dir = b, !.name = new]
    OBVIOUS
  <2>3. f \in [dir : {b}, name : {new}, obj : {x}]
    BY <2>1, <2>2
  <2>4. f = [dir |-> b, name |-> new, obj |-> x]
    BY <2>3
  <2> QED
    BY <1>2, <2>2, <2>4 DEF EntryFor
<1>4. \A e \in s : (e.dir = a /\ e.name = nm) <=> e = e1
  BY <1>1, EntryParts DEF EntriesOK
<1>5. {y \in s : ~(y.dir = b /\ y.name = new)} = s
  OBVIOUS
<1> DEFINE F(y) == IF y.dir = a /\ y.name = nm THEN [y EXCEPT !.dir = b, !.name = new] ELSE y
<1>6. Renamed(s, a, nm, b, new) = {F(y) : y \in s}
  BY <1>5 DEF Renamed
<1>7. F(e1) = e2 /\ \A y \in s \ {e1} : F(y) = y
  BY <1>3, <1>4
<1> HIDE DEF F
<1>8. {F(y) : y \in s} = (s \ {e1}) \cup {e2}
  BY <1>7
<1> QED
  BY <1>1, <1>2, <1>6, <1>8

\* A rename to a name that is taken removes what has the name, and moves the entry.
LEMMA RenamedOver ==
  ASSUME NEW s, NEW a, NEW nm, NEW b, NEW new
  PROVE  Renamed(s, a, nm, b, new) = Renamed(s \ Entry(s, b, new), a, nm, b, new)
<1>1. {y \in s : ~(y.dir = b /\ y.name = new)}
      = {y \in s \ Entry(s, b, new) : ~(y.dir = b /\ y.name = new)}
  BY DEF Entry
<1> QED
  BY <1>1 DEF Renamed

\* Another name of one node leaves the kernel's counts what they are.
LEMMA RelinkedCounts ==
  ASSUME NEW t, NEW lookups, NEW opens, Kernel(t, lookups, opens), NEW u, NEW n \in DOMAIN t,
         NEW nm, NEW p, NEW b, Relinked(t, u, n, nm, p, b)
  PROVE  Kernel(u, lookups, opens)
<1>1. DOMAIN u = DOMAIN t
  BY DEF Relinked
<1>2. \A m \in DOMAIN t : u[m].nlookup = t[m].nlookup /\ u[m].open = t[m].open
  BY DEF Relinked, Like
<1> QED
  BY <1>1, <1>2 DEF Kernel

\* A node is still there when the entry of another object goes.
LEMMA StillThere ==
  ASSUME NEW t, NEW u, NEW s, NEW s1, NEW o, NEW q, Alive(t, s, o, q),
         u[q].name = t[q].name, u[q].parent = t[q].parent,
         NEW x, x # o[q], NEW a, NEW nm, s \ {EntryFor(a, nm, x)} \subseteq s1
  PROVE  Alive(u, s1, o, q)
<1>1. CASE q = Root
  BY <1>1 DEF Alive
<1>2. CASE q # Root
  <2>1. PICK e \in s : e = EntryFor(o[t[q].parent], t[q].name, o[q])
    BY <1>2 DEF Alive
  <2>2. e # EntryFor(a, nm, x)
    BY <2>1, EntryParts
  <2>3. e \in s1
    BY <2>2
  <2> QED
    BY <1>2, <2>1, <2>3 DEF Alive
<1> QED
  BY <1>1, <1>2

\* rename_node and the rename of the file system, to a name that is free.
LEMMA MoveStep ==
  ASSUME NEW t, GoodTable(t), NEW s, NEW o, NEW d, NEW mk, NEW lf,
         Mirror(t, s, o, d, mk, lf),
         NEW p, NEW nm \in Names, NEW n \in lookup_node(t, p, nm),
         NEW q \in DOMAIN t, Alive(t, s, o, q), o[q] \in {0} \cup d,
         NEW new \in Names, lookup_node(t, q, new) = {},
         \A e \in s : ~(e.dir = o[q] /\ e.name = new),
         NEW U, o[q] \in U, o[n] \notin U, \A e \in s : e.obj \in U => e.dir \in U,
         NEW u, u = ToName(t, p, nm, q, new),
         NEW s1, s1 = Renamed(s, o[p], nm, o[q], new)
  PROVE  /\ GoodTable(u) /\ Mirror(u, s1, o, d, mk, lf) /\ Relinked(t, u, n, new, q, t[n].hidden)
         /\ s1 = (s \ {EntryFor(o[p], nm, o[n])}) \cup {EntryFor(o[q], new, o[n])}
<1>1. /\ n \in DOMAIN t \ {Root} /\ t[n].name = nm /\ t[n].parent = p
      /\ Alive(t, s, o, n) /\ ~t[n].hidden /\ EntryFor(o[p], nm, o[n]) \in s
  BY NodeEntry
<1>2. t[n].hidden \in BOOLEAN
  BY <1>1, NodeType DEF GoodTable, TableOK
<1>3. nm # NoName /\ new \in AllNames /\ new \notin HiddenNames
  BY NameFacts DEF AllNames
<1>4. PICK hide \in BOOLEAN : hide = FALSE
  OBVIOUS
<1>5. PICK b : b = IF hide THEN TRUE ELSE t[n].hidden
  OBVIOUS
<1>6. GoodTable(u) /\ Relinked(t, u, n, new, q, b) /\ b = t[n].hidden
  <2>1. u = rename_node(t, p, nm, q, new, hide)
    BY <1>4 DEF ToName
  <2> QED
    BY <1>3, <1>4, <1>5, <2>1, RenameFree, ZenonT(60)
<1>7. s1 = (s \ {EntryFor(o[p], nm, o[n])}) \cup {EntryFor(o[q], new, o[n])}
  BY <1>1, RenamedFree DEF Mirror
<1>8. Mirror(u, (s \ {EntryFor(o[t[n].parent], t[n].name, o[n])})
                \cup {EntryFor(o[q], new, o[n])}, o, d, mk, lf)
  BY <1>1, <1>2, <1>3, <1>6, MoveMirror
<1> QED
  BY <1>1, <1>6, <1>7, <1>8

\* hide_node: an open file gets a hidden name that is free.
LEMMA HideStep ==
  ASSUME IInv, NEW p, NEW nm \in Names, NEW n \in lookup_node(tab, p, nm),
         tab[n].open > 0, NEW k \in HiddenName(p),
         NEW u, u = ToHidden(tab, p, nm, Hidden(k)),
         NEW s1, s1 = Renamed(fs, DirOf(p), nm, DirOf(p), Hidden(k))
  PROVE  /\ k \in Nat /\ Hidden(k) \in HiddenNames /\ of[n] \notin {0} \cup dirs
         /\ GoodTable(u) /\ Mirror(u, s1, of, dirs, made, left) /\ Kernel(u, known, handles)
         /\ DOMAIN u = DOMAIN tab /\ u[n].name = Hidden(k)
         /\ \A m \in DOMAIN tab \ {n} : u[m].name = tab[m].name /\ u[m].parent = tab[m].parent
         /\ s1 = (fs \ {EntryFor(of[p], nm, of[n])}) \cup {EntryFor(of[p], Hidden(k), of[n])}
<1>1. GoodTable(tab) /\ Mirror(tab, fs, of, dirs, made, left) /\ hidectr \in Nat
  BY DEF IInv, Counters
<1>2. /\ n \in DOMAIN tab \ {Root} /\ tab[n].parent = p /\ tab[n].name = nm
      /\ Alive(tab, fs, of, p) /\ of[p] \in {0} \cup dirs
  BY <1>1, NodeEntry
<1>3. p \in DOMAIN tab
  <2>1. nm # NoName
    BY NameFacts DEF AllNames
  <2> QED
    BY <1>1, <1>2, <2>1 DEF GoodTable, HashOK
<1>4. DirOf(p) = of[p]
  BY <1>1, <1>2, <1>3, DirPath
<1>5. /\ k \in (hidectr + 1)..MaxHide /\ lookup_node(tab, p, Hidden(k)) = {}
      /\ Entry(fs, of[p], Hidden(k)) = {}
  BY <1>4 DEF HiddenName
<1>6. k \in Nat /\ k \in 1..MaxHide
  BY <1>1, <1>5, FuseNodesAssumption
<1>7. Hidden(k) \in HiddenNames /\ Hidden(k) \in AllNames
  BY <1>6 DEF HiddenNames, AllNames
<1>8. of[n] \notin {0} \cup dirs
  BY <1>1, <1>2 DEF Mirror, OpenOK, ObjectsType
<1>9. \A e \in fs : e.dir \in {0} \cup dirs /\ ~(e.dir = of[p] /\ e.name = Hidden(k))
  BY <1>1, <1>5, EntryType DEF Mirror, Entry
<1>10. PICK new : new = Hidden(k)
  OBVIOUS
<1>11. PICK hide \in BOOLEAN : hide
  OBVIOUS
<1>12. hide = TRUE
  BY <1>11
<1>13. u = rename_node(tab, p, nm, p, new, hide) /\ s1 = Renamed(fs, of[p], nm, of[p], new)
  BY <1>4, <1>10, <1>12 DEF ToHidden
<1>14. PICK U : U = {0} \cup dirs
  OBVIOUS
<1>15. /\ of[p] \in U /\ of[n] \notin U /\ \A e \in fs : e.obj \in U => e.dir \in U
       /\ \A e \in fs : ~(e.dir = of[p] /\ e.name = new)
       /\ new \in AllNames /\ lookup_node(tab, p, new) = {}
       /\ (hide <=> new \in HiddenNames) /\ (hide => tab[n].open > 0)
  BY <1>2, <1>5, <1>7, <1>8, <1>9, <1>10, <1>11, <1>14
<1>16. GoodTable(u) /\ Relinked(tab, u, n, new, p, hide)
  <2>1. nm # NoName
    BY NameFacts DEF AllNames
  <2>2. PICK b : b = IF hide THEN TRUE ELSE tab[n].hidden
    OBVIOUS
  <2>3. GoodTable(u) /\ Relinked(tab, u, n, new, p, b)
    BY <1>1, <1>3, <1>13, <1>15, <2>1, <2>2, RenameFree, ZenonT(60)
  <2>4. b = hide
    BY <1>12, <2>2
  <2> QED
    BY <2>3, <2>4
<1>17. s1 = (fs \ {EntryFor(of[p], nm, of[n])}) \cup {EntryFor(of[p], new, of[n])}
  BY <1>1, <1>13, <1>15, NodeEntry, RenamedFree DEF Mirror
<1>18. Mirror(u, s1, of, dirs, made, left)
  <2>1. Alive(tab, fs, of, n)
    BY <1>1, NodeEntry
  <2>2. Mirror(u, (fs \ {EntryFor(of[tab[n].parent], tab[n].name, of[n])})
                  \cup {EntryFor(of[p], new, of[n])}, of, dirs, made, left)
    BY <1>1, <1>2, <1>3, <1>15, <1>16, <2>1, MoveMirror, ZenonT(60)
  <2> QED
    BY <1>2, <1>17, <2>2
<1>19. Kernel(u, known, handles)
  BY <1>2, <1>16, RelinkedCounts DEF IInv
<1> QED
  BY <1>6, <1>7, <1>8, <1>10, <1>16, <1>17, <1>18, <1>19 DEF Relinked, Like

\* What a client's name in a held directory leads to, when the kernel has seen it.
LEMMA SeenNode ==
  ASSUME IInv, NEW p \in Held, NEW nm \in Names, Seen(p, nm)
  PROVE  /\ p \in DOMAIN tab /\ Alive(tab, fs, of, p) /\ DirOf(p) = of[p]
         /\ \E n \in lookup_node(tab, p, nm) :
               At(p, nm) = of[n] /\ lookup_node(tab, p, nm) = {n}
<1>1. p \in DOMAIN tab /\ (of[p] = 0 \/ of[p] \in dirs)
  BY HeldNode
<1>2. GoodTable(tab) /\ Mirror(tab, fs, of, dirs, made, left)
  BY DEF IInv
<1>3. PICK n : n \in lookup_node(tab, p, nm)
  BY DEF Seen
<1>4. Alive(tab, fs, of, p) /\ ObjOf(Entry(fs, of[p], nm)) = of[n]
  BY <1>2, <1>3, NodeEntry
<1>5. DirOf(p) = of[p] /\ At(p, nm) = of[n]
  BY <1>1, <1>2, <1>4, AtEntry
<1>6. lookup_node(tab, p, nm) = {n}
  <2>1. nm # NoName
    BY NameFacts DEF AllNames
  <2> QED
    BY <1>2, <1>3, <2>1, OneFound
<1> QED
  BY <1>1, <1>3, <1>4, <1>5, <1>6

\* remove_node and unlink or rmdir, for a node that is not open.
LEMMA RemoveStep ==
  ASSUME IInv, NEW p, NEW nm \in Names, NEW n \in lookup_node(tab, p, nm),
         ~(tab[n].open > 0), \A e \in fs : e.dir # of[n],
         NEW u, u = remove_node(tab, p, nm), NEW s1, s1 = fs \ Entry(fs, of[p], nm)
  PROVE  /\ GoodTable(u) /\ Mirror(u, s1, of, dirs, made, left) /\ Kernel(u, known, handles)
         /\ DOMAIN u = DOMAIN tab /\ s1 = fs \ {EntryFor(of[p], nm, of[n])}
         /\ \A m \in DOMAIN tab \ {n} : u[m].name = tab[m].name /\ u[m].parent = tab[m].parent
<1>1. GoodTable(tab) /\ Mirror(tab, fs, of, dirs, made, left) /\ Kernel(tab, known, handles)
  BY DEF IInv
<1>2. /\ n \in DOMAIN tab \ {Root} /\ tab[n].parent = p /\ tab[n].name = nm
      /\ Alive(tab, fs, of, n) /\ Entry(fs, of[p], nm) = {EntryFor(of[p], nm, of[n])}
  BY <1>1, NodeEntry
<1>3. tab[n].open = 0
  <2>1. tab[n].open \in Nat
    BY <1>1, <1>2, NodeType DEF GoodTable, TableOK
  <2> QED
    BY <2>1
<1>4. GoodTable(u) /\ Relinked(tab, u, n, NoName, 0, tab[n].hidden)
  <2>1. nm # NoName
    BY NameFacts DEF AllNames
  <2> QED
    BY <1>1, <2>1, Remove
<1>5. Mirror(u, fs \ {EntryFor(of[tab[n].parent], tab[n].name, of[n])}, of, dirs, made, left)
  BY <1>1, <1>2, <1>3, <1>4, RemoveMirror
<1>6. s1 = fs \ {EntryFor(of[p], nm, of[n])}
  BY <1>2
<1>7. Mirror(u, s1, of, dirs, made, left)
  BY <1>2, <1>5, <1>6
<1>8. Kernel(u, known, handles)
  BY <1>1, <1>2, <1>4, RelinkedCounts
<1> QED
  BY <1>4, <1>6, <1>7, <1>8 DEF Relinked, Like

LEMMA UnlinkStep ==
  ASSUME IInv, NEW p \in Held, NEW nm \in Names, Unlink(p, nm)
  PROVE  IInv'
<1>1. /\ Seen(p, nm) /\ At(p, nm) # NoFile
      /\ At(p, nm) \in dirs => \A e \in fs : e.dir # At(p, nm)
      /\ dirs' = dirs /\ made' = made /\ ctr' = ctr /\ left' = left
      /\ known' = known /\ handles' = handles /\ of' = of
  BY DEF Unlink, kernel
<1>2. GoodTable(tab) /\ Mirror(tab, fs, of, dirs, made, left) /\ Counters
  BY DEF IInv
<1>3. /\ p \in DOMAIN tab /\ DirOf(p) = of[p]
      /\ \E m \in lookup_node(tab, p, nm) :
            At(p, nm) = of[m] /\ lookup_node(tab, p, nm) = {m}
  BY <1>1, SeenNode
<1>4. PICK n \in lookup_node(tab, p, nm) : At(p, nm) = of[n] /\ lookup_node(tab, p, nm) = {n}
  BY <1>3
<1>5. is_open(p, nm) <=> tab[n].open > 0
  BY <1>4 DEF is_open
<1>6. CASE is_open(p, nm)
  <2>1. PICK k \in HiddenName(p) :
          /\ hidectr' = k
          /\ \/ /\ fs' = Renamed(fs, DirOf(p), nm, DirOf(p), Hidden(k))
                /\ tab' = rename_node(tab, p, nm, p, Hidden(k), TRUE)
             \/ fs' = fs /\ tab' = tab
    BY <1>6 DEF Unlink
  <2>2. PICK u : u = ToHidden(tab, p, nm, Hidden(k))
    OBVIOUS
  <2>3. PICK s1 : s1 = Renamed(fs, DirOf(p), nm, DirOf(p), Hidden(k))
    OBVIOUS
  <2>4. /\ k \in Nat /\ GoodTable(u) /\ Mirror(u, s1, of, dirs, made, left)
        /\ Kernel(u, known, handles)
    BY <1>5, <1>6, <2>2, <2>3, HideStep
  <2>5. (tab' = u /\ fs' = s1) \/ (tab' = tab /\ fs' = fs)
    BY <2>1, <2>2, <2>3 DEF ToHidden
  <2>6. Kernel(tab, known, handles)
    BY DEF IInv
  <2> QED
    BY <1>1, <1>2, <2>1, <2>4, <2>5, <2>6 DEF IInv, Counters
<1>7. CASE ~is_open(p, nm)
  <2>1. /\ fs' = fs \ Entry(fs, of[p], nm) /\ tab' = remove_node(tab, p, nm)
        /\ hidectr' = hidectr
    BY <1>3, <1>7 DEF Unlink
  <2>2. \A e \in fs : e.dir # of[n]
    <3>1. of[n] # 0
      BY <1>2, <1>4 DEF lookup_node, Mirror, ObjectsType
    <3>2. \A e \in fs : e.dir \in {0} \cup dirs
      BY <1>2, EntryType DEF Mirror
    <3> QED
      BY <1>1, <1>4, <3>1, <3>2
  <2>3. PICK u : u = remove_node(tab, p, nm)
    OBVIOUS
  <2>4. PICK s1 : s1 = fs \ Entry(fs, of[p], nm)
    OBVIOUS
  <2>5. GoodTable(u) /\ Mirror(u, s1, of, dirs, made, left) /\ Kernel(u, known, handles)
    BY <1>5, <1>7, <2>2, <2>3, <2>4, RemoveStep
  <2>6. tab' = u /\ fs' = s1
    BY <2>1, <2>3, <2>4
  <2> QED
    BY <1>1, <1>2, <2>1, <2>5, <2>6 DEF IInv, Counters
<1> QED
  BY <1>6, <1>7

\* The rename proper, once the name it goes to is free in the table t and in s: it is the
\* second step of the request when the target was hidden or removed before.
LEMMA RenameTo ==
  ASSUME IInv, NEW p, NEW nm \in Names, NEW n \in lookup_node(tab, p, nm),
         NEW q \in DOMAIN tab, Alive(tab, fs, of, q), of[q] \in {0} \cup dirs,
         NEW new \in Names, NEW U, of[q] \in U, of[n] \notin U,
         \A e \in fs : e.obj \in U => e.dir \in U,
         NEW c \in lookup_node(tab, q, new), c # n, of[c] # of[q],
         NEW t, GoodTable(t), Kernel(t, known, handles), DOMAIN t = DOMAIN tab,
         t[c].name # new,
         \A m \in DOMAIN tab \ {c} : t[m].name = tab[m].name /\ t[m].parent = tab[m].parent,
         NEW s, Mirror(t, s, of, dirs, made, left), NEW e1, e1 = EntryFor(of[q], new, of[c]),
         fs \ {e1} \subseteq s,
         \A e \in s \ (fs \ {e1}) : e.dir = of[q] /\ e.name # new,
         NEW u, u = ToName(t, p, nm, q, new),
         NEW s1, s1 = Renamed(s, of[p], nm, of[q], new)
  PROVE  GoodTable(u) /\ Mirror(u, s1, of, dirs, made, left) /\ Kernel(u, known, handles)
<1>1. GoodTable(tab) /\ Mirror(tab, fs, of, dirs, made, left)
  BY DEF IInv
<1>2. new # NoName
  BY NameFacts DEF AllNames
<1>3. lookup_node(tab, q, new) = {c} /\ c \in DOMAIN tab \ {Root} /\ n \in DOMAIN tab \ {Root}
  <2>1. lookup_node(tab, q, new) = {c}
    BY <1>1, <1>2, OneFound
  <2> QED
    BY <2>1 DEF lookup_node
<1>4. n \in lookup_node(t, p, nm)
  BY <1>3 DEF lookup_node
<1>5. lookup_node(t, q, new) = {}
  <2> SUFFICES ASSUME NEW m \in lookup_node(t, q, new) PROVE FALSE
    OBVIOUS
  <2>1. m \in DOMAIN tab \ {Root} /\ t[m].name = new /\ t[m].parent = q /\ m # c
    BY DEF lookup_node
  <2>2. m \in lookup_node(tab, q, new)
    BY <2>1 DEF lookup_node
  <2> QED
    BY <1>3, <2>1, <2>2
<1>6. of[c] # of[q] /\ q # c
  OBVIOUS
<1>7. Alive(t, s, of, q)
  BY <1>6, StillThere
<1>8. \A e \in s : ~(e.dir = of[q] /\ e.name = new)
  <2>1. Entry(fs, of[q], new) = {e1}
    BY <1>1, NodeEntry
  <2>2. \A e \in fs : e.dir = of[q] /\ e.name = new => e = e1
    BY <2>1 DEF Entry
  <2> QED
    BY <2>2
<1>9. \A e \in s : e.obj \in U => e.dir \in U
  OBVIOUS
<1>10. /\ GoodTable(u) /\ Mirror(u, s1, of, dirs, made, left)
       /\ Relinked(t, u, n, new, q, t[n].hidden)
  BY <1>4, <1>5, <1>7, <1>8, <1>9, MoveStep
<1>11. Kernel(u, known, handles)
  BY <1>3, <1>10, RelinkedCounts
<1> QED
  BY <1>10, <1>11

\* The target is open: it is hidden, and then the rename succeeds or fails.
LEMMA RenameOpen ==
  ASSUME IInv, NEW p, NEW nm \in Names, NEW n \in lookup_node(tab, p, nm),
         NEW q \in DOMAIN tab, Alive(tab, fs, of, q), of[q] \in {0} \cup dirs,
         NEW new \in Names, NEW U, of[q] \in U, of[n] \notin U,
         \A e \in fs : e.obj \in U => e.dir \in U,
         NEW c \in lookup_node(tab, q, new), c # n, tab[c].open > 0, NEW k \in HiddenName(q),
         NEW t, t = ToHidden(tab, q, new, Hidden(k)),
         NEW s, s = Renamed(fs, DirOf(q), new, DirOf(q), Hidden(k)),
         NEW u, u = ToName(t, p, nm, q, new),
         NEW s1, s1 = Renamed(s, of[p], nm, of[q], new)
  PROVE  /\ k \in Nat
         /\ GoodTable(t) /\ Mirror(t, s, of, dirs, made, left) /\ Kernel(t, known, handles)
         /\ GoodTable(u) /\ Mirror(u, s1, of, dirs, made, left) /\ Kernel(u, known, handles)
<1>1. PICK e1 : e1 = EntryFor(of[q], new, of[c])
  OBVIOUS
<1>2. PICK e2 : e2 = EntryFor(of[q], Hidden(k), of[c])
  OBVIOUS
<1>3. /\ k \in Nat /\ Hidden(k) \in HiddenNames /\ of[c] \notin {0} \cup dirs
      /\ GoodTable(t) /\ Mirror(t, s, of, dirs, made, left) /\ Kernel(t, known, handles)
      /\ DOMAIN t = DOMAIN tab /\ t[c].name = Hidden(k)
      /\ \A m \in DOMAIN tab \ {c} : t[m].name = tab[m].name /\ t[m].parent = tab[m].parent
      /\ s = (fs \ {e1}) \cup {e2}
  BY <1>1, <1>2, HideStep
<1>4. Hidden(k) # new
  BY <1>3, NameFacts
<1>5. e2.dir = of[q] /\ e2.name # new
  BY <1>2, <1>4, EntryParts
<1>6. /\ t[c].name # new /\ fs \ {e1} \subseteq s
      /\ \A e \in s \ (fs \ {e1}) : e.dir = of[q] /\ e.name # new
  BY <1>3, <1>4, <1>5
<1>7. of[c] # of[q]
  BY <1>3
<1>8. GoodTable(u) /\ Mirror(u, s1, of, dirs, made, left) /\ Kernel(u, known, handles)
  BY <1>1, <1>3, <1>6, <1>7, RenameTo
<1> QED
  BY <1>3, <1>8

\* The target is there and not open: it is removed by the rename.
LEMMA RenameClosed ==
  ASSUME IInv, NEW p, NEW nm \in Names, NEW n \in lookup_node(tab, p, nm),
         NEW q \in DOMAIN tab, Alive(tab, fs, of, q), of[q] \in {0} \cup dirs,
         NEW new \in Names, NEW U, of[q] \in U, of[n] \notin U,
         \A e \in fs : e.obj \in U => e.dir \in U,
         NEW c \in lookup_node(tab, q, new), c # n, ~(tab[c].open > 0),
         \A e \in fs : e.dir # of[c],
         NEW u, u = ToName(tab, p, nm, q, new),
         NEW s1, s1 = Renamed(fs, of[p], nm, of[q], new)
  PROVE  GoodTable(u) /\ Mirror(u, s1, of, dirs, made, left) /\ Kernel(u, known, handles)
<1>1. GoodTable(tab) /\ Mirror(tab, fs, of, dirs, made, left)
  BY DEF IInv
<1>2. nm # NoName /\ new # NoName /\ new \in AllNames
  BY NameFacts DEF AllNames
<1>3. PICK t : t = remove_node(tab, q, new)
  OBVIOUS
<1>4. PICK s : s = fs \ Entry(fs, of[q], new)
  OBVIOUS
<1>5. of[c] # of[q]
  <2>1. EntryFor(of[q], new, of[c]) \in fs
    BY <1>1, NodeEntry
  <2> QED
    BY <2>1, EntryParts
<1>6. \A e \in fs : e.dir # of[c]
  OBVIOUS
<1>7. PICK e1 : e1 = EntryFor(of[q], new, of[c])
  OBVIOUS
<1>8. /\ GoodTable(t) /\ Mirror(t, s, of, dirs, made, left) /\ Kernel(t, known, handles)
      /\ DOMAIN t = DOMAIN tab /\ s = fs \ {e1}
      /\ \A m \in DOMAIN tab \ {c} : t[m].name = tab[m].name /\ t[m].parent = tab[m].parent
  <2>1. \A e \in fs : e.dir # of[c]
    BY <1>6
  <2>2. ~(tab[c].open > 0)
    OBVIOUS
  <2>3. GoodTable(t) /\ Mirror(t, s, of, dirs, made, left) /\ Kernel(t, known, handles)
    BY <1>3, <1>4, <2>1, <2>2, RemoveStep, ZenonT(60)
  <2>4. s = fs \ {EntryFor(of[q], new, of[c])}
    BY <1>3, <1>4, <2>1, <2>2, RemoveStep, SMTT(60)
  <2>5. /\ DOMAIN t = DOMAIN tab
        /\ \A m \in DOMAIN tab \ {c} : t[m].name = tab[m].name /\ t[m].parent = tab[m].parent
    BY <1>1, <1>2, <1>3, Remove DEF Relinked, Like
  <2> QED
    BY <1>7, <2>3, <2>4, <2>5
<1>9. t[c].name # new
  BY <1>1, <1>2, <1>3, Remove DEF Relinked
<1>10. u = ToName(t, p, nm, q, new)
  BY <1>1, <1>2, <1>3, RenameOver
<1>11. s1 = Renamed(s, of[p], nm, of[q], new)
  BY <1>4, RenamedOver
<1>12. fs \ {e1} \subseteq s /\ \A e \in s \ (fs \ {e1}) : e.dir = of[q] /\ e.name # new
  BY <1>8
<1> QED
  BY <1>5, <1>7, <1>8, <1>9, <1>10, <1>11, <1>12, RenameTo

LEMMA RenameStep ==
  ASSUME IInv, NEW p \in Held, NEW nm \in Names, NEW q \in Held, NEW new \in Names,
         Rename(p, nm, q, new)
  PROVE  IInv'
<1>1. GoodTable(tab) /\ Mirror(tab, fs, of, dirs, made, left) /\ Kernel(tab, known, handles)
      /\ Counters
  BY DEF IInv
<1>2. /\ Seen(p, nm) /\ At(p, nm) # NoFile /\ HasPath(q) /\ At(p, nm) # At(q, new)
      /\ At(q, new) # NoFile => Seen(q, new)
      /\ At(q, new) \in dirs => \A e \in fs : e.dir # At(q, new)
      /\ ~Below(DirOf(q), At(p, nm))
      /\ dirs' = dirs /\ made' = made /\ ctr' = ctr /\ left' = left
      /\ known' = known /\ handles' = handles /\ of' = of
  BY DEF Rename, kernel
<1>3. /\ p \in DOMAIN tab /\ DirOf(p) = of[p]
      /\ \E m \in lookup_node(tab, p, nm) :
            At(p, nm) = of[m] /\ lookup_node(tab, p, nm) = {m}
  BY <1>2, SeenNode
<1>4. PICK n \in lookup_node(tab, p, nm) : At(p, nm) = of[n]
  BY <1>3
<1>5. q \in DOMAIN tab /\ (of[q] = 0 \/ of[q] \in dirs) /\ of[q] \in {0} \cup dirs
  BY HeldNode
<1>6. Alive(tab, fs, of, q) /\ DirOf(q) = of[q]
  BY <1>1, <1>2, <1>5, DirPath
<1>7. PICK U : /\ of[q] \in U /\ of[n] \notin U
               /\ \A e \in fs : e.obj \in U => e.dir \in U
  BY <1>2, <1>4, <1>6 DEF Below
\* A node for the target is for another object.
<1>8. ASSUME NEW c \in lookup_node(tab, q, new)
      PROVE  At(q, new) = of[c] /\ c # n /\ lookup_node(tab, q, new) = {c}
  <2>1. ObjOf(Entry(fs, of[q], new)) = of[c]
    BY <1>1, NodeEntry
  <2>2. At(q, new) = of[c]
    BY <1>6, <2>1 DEF At
  <2>3. new # NoName
    BY NameFacts DEF AllNames
  <2>4. lookup_node(tab, q, new) = {c}
    BY <1>1, <2>3, OneFound
  <2> QED
    BY <1>2, <1>4, <2>2, <2>4
\* What the request does to a table t and a file system s.
<1> DEFINE Done(t, s) ==
             \/ /\ fs' = Renamed(s, of[p], nm, of[q], new)
                /\ tab' = ToName(t, p, nm, q, new)
             \/ fs' = s /\ tab' = t
<1>9. CASE is_open(q, new)
  <2>1. PICK c \in lookup_node(tab, q, new) : tab[c].open > 0
    BY <1>9 DEF is_open
  <2>2. PICK k \in HiddenName(q) :
          /\ hidectr' = k
          /\ \/ Done(ToHidden(tab, q, new, Hidden(k)),
                     Renamed(fs, DirOf(q), new, DirOf(q), Hidden(k)))
             \/ fs' = fs /\ tab' = tab
    BY <1>3, <1>6, <1>9 DEF Rename, ToHidden, ToName
  <2>3. PICK t : t = ToHidden(tab, q, new, Hidden(k))
    OBVIOUS
  <2>4. PICK s : s = Renamed(fs, DirOf(q), new, DirOf(q), Hidden(k))
    OBVIOUS
  <2>5. PICK u : u = ToName(t, p, nm, q, new)
    OBVIOUS
  <2>6. PICK s1 : s1 = Renamed(s, of[p], nm, of[q], new)
    OBVIOUS
  <2>7. c # n
    BY <1>8
  <2>8. /\ k \in Nat
        /\ GoodTable(t) /\ Mirror(t, s, of, dirs, made, left) /\ Kernel(t, known, handles)
        /\ GoodTable(u) /\ Mirror(u, s1, of, dirs, made, left) /\ Kernel(u, known, handles)
    BY <1>5, <1>6, <1>7, <2>1, <2>3, <2>4, <2>5, <2>6, <2>7, RenameOpen
  <2>9. (fs' = s1 /\ tab' = u) \/ (fs' = s /\ tab' = t) \/ (fs' = fs /\ tab' = tab)
    BY <2>2, <2>3, <2>4, <2>5, <2>6
  <2>10. Counters'
    BY <1>1, <1>2, <2>2, <2>8 DEF Counters
  <2> HIDE DEF Done
  <2>11. GoodTable(tab') /\ Kernel(tab', known', handles')
    BY <1>1, <1>2, <2>8, <2>9
  <2>12. Mirror(tab', fs', of', dirs', made', left')
    BY <1>1, <1>2, <2>8, <2>9
  <2> QED
    BY <2>10, <2>11, <2>12 DEF IInv
<1>10. CASE ~is_open(q, new)
  <2>1. hidectr' = hidectr /\ Done(tab, fs)
    BY <1>3, <1>6, <1>10 DEF Rename, ToName
  <2>2. PICK u : u = ToName(tab, p, nm, q, new)
    OBVIOUS
  <2>3. PICK s1 : s1 = Renamed(fs, of[p], nm, of[q], new)
    OBVIOUS
  <2>4. (fs' = s1 /\ tab' = u) \/ (fs' = fs /\ tab' = tab)
    BY <2>1, <2>2, <2>3
  <2> HIDE DEF Done
  <2>5. GoodTable(u) /\ Mirror(u, s1, of, dirs, made, left) /\ Kernel(u, known, handles)
    <3>1. CASE lookup_node(tab, q, new) = {}
      <4>1. At(q, new) = NoFile
        BY <1>2, <3>1 DEF Seen
      <4>2. \A e \in fs : ~(e.dir = of[q] /\ e.name = new)
        BY <1>1, <1>5, <1>6, <4>1, AtEntry
      <4>3. GoodTable(u) /\ Mirror(u, s1, of, dirs, made, left)
            /\ Relinked(tab, u, n, new, q, tab[n].hidden)
        BY <1>1, <1>5, <1>6, <1>7, <2>2, <2>3, <3>1, <4>2, MoveStep
      <4>4. n \in DOMAIN tab
        BY DEF lookup_node
      <4> QED
        BY <1>1, <4>3, <4>4, RelinkedCounts
    <3>2. CASE lookup_node(tab, q, new) # {}
      <4>1. PICK c : c \in lookup_node(tab, q, new)
        BY <3>2
      <4>2. c # n /\ At(q, new) = of[c] /\ ~(tab[c].open > 0)
        BY <1>8, <1>10, <4>1 DEF is_open
      <4>3. \A e \in fs : e.dir # of[c]
        <5>1. of[c] # 0
          BY <1>1, <4>1 DEF lookup_node, Mirror, ObjectsType
        <5>2. \A e \in fs : e.dir \in {0} \cup dirs
          BY <1>1, EntryType DEF Mirror
        <5> QED
          BY <1>2, <4>2, <5>1, <5>2
      <4> QED
        BY <1>5, <1>6, <1>7, <2>2, <2>3, <4>1, <4>2, <4>3, RenameClosed
    <3> QED
      BY <3>1, <3>2
  <2>6. Counters'
    BY <1>1, <1>2, <2>1 DEF Counters
  <2>7. GoodTable(tab') /\ Kernel(tab', known', handles')
    BY <1>1, <1>2, <2>4, <2>5
  <2>8. Mirror(tab', fs', of', dirs', made', left')
    BY <1>1, <1>2, <2>4, <2>5
  <2> QED
    BY <2>6, <2>7, <2>8 DEF IInv
<1> QED
  BY <1>9, <1>10

-----------------------------------------------------------------------------
(* The theorems.                                                           *)

LEMMA InitStep == Init => IInv
<1> SUFFICES ASSUME Init PROVE IInv
  OBVIOUS
<1> USE FuseNodesAssumption DEF Root
<1>1. /\ NewNode.name = NoName /\ NewNode.parent = 0 /\ NewNode.nlookup = 1
      /\ NewNode.refctr = 1 /\ NewNode.open = 0 /\ NewNode.hidden = FALSE /\ NewNode \in Node
  BY DEF NewNode, Node
<1>2. DOMAIN tab = {1} /\ tab[1] = NewNode /\ tab \in [DOMAIN tab -> Node]
  BY <1>1 DEF Init
<1>3. TableOK(tab)
  BY <1>2 DEF TableOK
<1>4. RefsOK(tab)
  <2>1. \A n \in DOMAIN tab : Children(tab, n) = {}
    BY <1>1, <1>2 DEF Children
  <2>2. Cardinality({}) = 0
    BY FS_EmptySet
  <2> QED
    BY <1>1, <1>2, <2>1, <2>2 DEF RefsOK
<1>5. HashOK(tab)
  BY <1>1, <1>2 DEF HashOK
<1>6. Kernel(tab, known, handles)
  BY <1>1, <1>2 DEF Kernel, Init
<1>7. Counters
  BY DEF Counters, Init
<1>8. Mirror(tab, fs, of, dirs, made, left)
  <2>1. DOMAIN of = {1} /\ of[1] = 0 /\ of \in [DOMAIN tab -> 0..0] /\ dirs = {} /\ made = 0
    BY <1>2 DEF Init
  <2>2. Alive(tab, fs, of, 1)
    BY DEF Alive
  <2>3. ObjectsType(tab, of, dirs, made)
    BY <1>2, <2>1 DEF ObjectsType
  <2>4. \A e \in fs : e = EntryFor(0, Hidden(1), Leftover)
    BY DEF Init, EntryFor
  <2>5. EntriesOK(fs, dirs, made)
    <3>1. fs # {} => Hidden(1) \in HiddenNames
      <4>1. 1 \in 1..MaxHide
        OBVIOUS
      <4> QED
        BY <4>1 DEF HiddenNames
    <3>2. fs # {} => EntryFor(0, Hidden(1), Leftover)
                     \in [dir : {0} \cup dirs, name : AllNames, obj : (1..made) \cup {Leftover}]
      BY <3>1 DEF EntryFor, AllNames
    <3>3. fs \subseteq [dir : {0} \cup dirs, name : AllNames, obj : (1..made) \cup {Leftover}]
      BY <2>4, <3>2
    <3>4. \A e \in fs : e.name \in HiddenNames
      BY <2>4, <3>1, EntryParts
    <3> QED
      BY <2>4, <3>3, <3>4 DEF EntriesOK
  <2>6. NamesOK(tab, fs, of, dirs)
    BY <1>2 DEF NamesOK
  <2>7. ObjectsOK(tab, fs, of)
    BY <1>2, <2>2 DEF ObjectsOK
  <2>8. OpenOK(tab, fs, of, dirs)
    BY <1>1, <1>2 DEF OpenOK
  <2>9. HiddenOK(tab, fs, of, left)
    BY <2>4, EntryParts DEF HiddenOK
  <2>10. Founded(tab)
    BY <1>2 DEF Founded
  <2> QED
    BY <2>3, <2>5, <2>6, <2>7, <2>8, <2>9, <2>10 DEF Mirror
<1> QED
  BY <1>3, <1>4, <1>5, <1>6, <1>7, <1>8 DEF IInv, GoodTable

\* The invariant holds in every state, whatever requests come in whatever order.
THEOREM Invariance == Spec => []IInv
<1>1. Init => IInv
  BY InitStep
<1>2. IInv /\ [Next]_vars => IInv'
  <2> SUFFICES ASSUME IInv, [Next]_vars PROVE IInv'
    OBVIOUS
  <2>1. ASSUME NEW p \in Held, NEW nm \in Names, Lookup(p, nm) PROVE IInv'
    BY <2>1, LookupStep
  <2>2. ASSUME NEW p \in Held, NEW nm \in Names, Create(p, nm) PROVE IInv'
    BY <2>2, CreateStep
  <2>3. ASSUME NEW p \in Held, NEW nm \in Names, Unlink(p, nm) PROVE IInv'
    BY <2>3, UnlinkStep
  <2>4. ASSUME NEW p \in Held, NEW nm \in Names, NEW b \in BOOLEAN, Make(p, nm, b) PROVE IInv'
    BY <2>4, MakeStep
  <2>5. ASSUME NEW p \in Held, NEW nm \in Names, NEW q \in Held, NEW new \in Names,
               Rename(p, nm, q, new)
        PROVE  IInv'
    BY <2>5, RenameStep
  <2>6. ASSUME NEW n \in DOMAIN known, Open(n) PROVE IInv'
    BY <2>6, OpenStep
  <2>7. ASSUME NEW n \in DOMAIN known, Release(n) PROVE IInv'
    BY <2>7, ReleaseStep
  <2>8. ASSUME NEW n \in DOMAIN known, Forget(n) PROVE IInv'
    BY <2>8, ForgetStep
  <2>9. CASE UNCHANGED vars
    BY <2>9 DEF vars, IInv, Counters
  <2> QED
    BY <2>1, <2>2, <2>3, <2>4, <2>5, <2>6, <2>7, <2>8, <2>9 DEF Next
<1> QED
  BY <1>1, <1>2, PTL DEF Spec

\* A node lives exactly as long as the kernel's lookups of it or a named node below it
\* (ref_node, unref_node), and has the lookups and open files that the kernel knows of:
\* no request meets a node that is gone, and none is left over.
THEOREM RefsExactCorrect == Spec => []RefsExact
<1>1. IInv => RefsExact
  <2> SUFFICES ASSUME IInv PROVE RefsExact
    OBVIOUS
  <2>1. KernelKnown
    BY DEF KernelKnown, IInv, Kernel
  <2>2. ASSUME NEW n \in DOMAIN tab
        PROVE  tab[n].refctr =
                 Cardinality({c \in DOMAIN tab : tab[c].name # NoName /\ tab[c].parent = n})
                 + (IF tab[n].nlookup > 0 THEN 1 ELSE 0)
    <3>1. tab[n].refctr = Cardinality(Children(tab, n)) + 1
      BY DEF IInv, GoodTable, RefsOK
    <3>2. tab[n].nlookup > 0
      BY DEF IInv, Kernel
    <3> QED
      BY <3>1, <3>2 DEF Children
  <2> QED
    BY <2>1, <2>2 DEF RefsExact
<1> QED
  BY <1>1, Invariance, PTL

\* No two nodes have the same name in the same directory, so lookup_node finds the one.
THEOREM OneNodePerNameCorrect == Spec => []OneNodePerName
<1>1. IInv => OneNodePerName
  BY DEF IInv, GoodTable, HashOK, OneNodePerName
<1> QED
  BY <1>1, Invariance, PTL

\* The path that get_path_name puts together for an open file leads to the very file that
\* was opened, whatever was unlinked, renamed or replaced above or instead of it.
THEOREM OpenReachableCorrect == Spec => []OpenReachable
<1>1. IInv => OpenReachable
  <2> SUFFICES ASSUME IInv, NEW n \in DOMAIN known, handles[n] > 0
               PROVE  HasPath(n) /\ get_path[n] = of[n]
    BY DEF OpenReachable
  <2>1. n \in DOMAIN tab /\ tab[n].open > 0
    BY DEF IInv, Kernel
  <2>2. GoodTable(tab) /\ Mirror(tab, fs, of, dirs, made, left)
    BY DEF IInv
  <2>3. Alive(tab, fs, of, n) /\ of[n] \in Nat
    BY <2>1, <2>2 DEF Mirror, OpenOK, ObjectsType
  <2>4. get_path[n] = of[n]
    BY <2>1, <2>2, <2>3, PathIs DEF Leads
  <2> QED
    BY <2>3, <2>4 DEF HasPath, NoPath
<1> QED
  BY <1>1, Invariance, PTL

\* The last release of a hidden file removes it, if it can (fuse_do_release): a hidden name
\* in the file system is that of an open file, or of one whose unlink failed in its last
\* release, or is left from an earlier mount.
THEOREM HiddenIsOpenCorrect == Spec => []HiddenIsOpen
<1>1. IInv => HiddenIsOpen
  <2> SUFFICES ASSUME IInv, NEW e \in fs, e.name \in HiddenNames,
                      e.obj \notin left \cup {Leftover}
               PROVE  \E n \in DOMAIN known : tab[n].hidden /\ handles[n] > 0 /\ of[n] = e.obj
    BY DEF HiddenIsOpen, HiddenNames
  <2>1. Mirror(tab, fs, of, dirs, made, left) /\ Kernel(tab, known, handles)
    BY DEF IInv
  <2>2. PICK n \in DOMAIN tab \ {Root} : tab[n].hidden /\ of[n] = e.obj
    BY <2>1 DEF Mirror, HiddenOK
  <2>3. tab[n].open > 0
    BY <2>1, <2>2 DEF Mirror, OpenOK
  <2> QED
    BY <2>1, <2>2, <2>3 DEF Kernel
<1> QED
  BY <1>1, Invariance, PTL
=============================================================================
