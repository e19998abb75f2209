---------------------------- MODULE TomlProofs ----------------------------
(***************************************************************************)
(* Proofs about TomlParser and Config for every text: whatever the         *)
(* statements, the document is a tree, the parser's pointer into it is the *)
(* table that a reader finds under the last header, a statement changes    *)
(* nothing but what it names, what it assigns is read as it was written,   *)
(* and a supported path reads what it denotes.                             *)
(*                                                                         *)
(* A document is seen as its places, each in an object, and the nodes at   *)
(* them.  The argument for the pointer is about sets of objects that are   *)
(* closed upwards: the objects above the table that the parser stands in   *)
(* are such a set, and a change below the table leaves them alone.  That   *)
(* for values is by their depth: what a reader of the values below finds   *)
(* in them, it finds in the array or table that is made of them.           *)
(***************************************************************************)
EXTENDS Config, SequenceProofs

\* The object that a place is in.
Owner(p) == Node(IF p[1] = "table" THEN "Table" ELSE "Array", p[2])

Root == Node("Table", root)

Objects(d) ==
  {Node("Table", t) : t \in DOMAIN d.tables} \cup {Node("Array", a) : a \in DOMAIN d.arrays}

\* The nodes that a walk in a document can come to.
Nodes(d) == {n \in NodeSet : IsObject(n) => n \in Objects(d)}

\* The object is there, and in no place yet.
Free(d, n) == n \in Objects(d) \ {Root} /\ \A p \in Places(d) : NodeAt(d, p) # n

\* No object outside of C holds one of C.
Guarded(d, C) == \A p \in Places(d) : NodeAt(d, p) \in C => Owner(p) \in C

\* The objects of C are the same in both documents.
Same(d, e, C) ==
  \A p \in Places(d) \cup Places(e) :
    Owner(p) \in C => p \in Places(d) /\ p \in Places(e) /\ NodeAt(e, p) = NodeAt(d, p)
--------------------------------------------------------------------------------
(* Recursive functions on numbers *)

\* A set that holds 0, and with each number up to m the next one, holds all up to m.
LEMMA BoundedInduction ==
  ASSUME NEW T, NEW m \in Nat, 0 \in T, \A n \in 1 .. m : n - 1 \in T => n \in T
  PROVE  \A n \in 0 .. m : n \in T
<1> DEFINE U == {n \in Nat : n <= m => n \in T}
<1>1. 0 \in U
  OBVIOUS
<1>2. ASSUME NEW n \in Nat, n \in U PROVE n + 1 \in U
  <2>1. CASE n + 1 <= m
    <3>1. n + 1 \in 1 .. m /\ (n + 1) - 1 = n /\ n \in T
      BY <1>2, <2>1
    <3> QED
      BY <3>1
  <2>2. CASE ~(n + 1 <= m)
    BY <2>2
  <2> QED
    BY <2>1, <2>2
<1> HIDE DEF U
<1>3. \A n \in Nat : n \in U
  BY <1>1, <1>2, Induction
<1> QED
  BY <1>3 DEF U

\* The function g starts at a and goes on by F, up to m.
Follows(g, F, a, m) == g[0] = a /\ \A n \in 1 .. m : g[n] = F[<<g[n - 1], n>>]

\* Whoever goes on from a in S by a function that stays in S comes to S.
LEMMA Recursion ==
  ASSUME NEW S, NEW a \in S, NEW m \in Nat, NEW F \in [S \X (1 .. m) -> S]
  PROVE  \E g \in [0 .. m -> S] : Follows(g, F, a, m)
<1> USE DEF Follows
<1> DEFINE Def(g, k) == g \in [0 .. k -> S] /\ Follows(g, F, a, k)
           T == {k \in 0 .. m : \E g : Def(g, k)}
<1>1. 0 \in T
  <2> DEFINE g == [n \in 0 .. 0 |-> a]
  <2>1. Def(g, 0)
    OBVIOUS
  <2> HIDE DEF g, Def
  <2> QED
    BY <2>1
<1>2. ASSUME NEW k \in 1 .. m, k - 1 \in T PROVE k \in T
  <2>1. PICK f : Def(f, k - 1)
    BY <1>2
  <2> DEFINE g == [n \in 0 .. k |-> IF n < k THEN f[n] ELSE F[<<f[k - 1], k>>]]
  <2>2. f[k - 1] \in S
    BY <2>1
  <2>3. F[<<f[k - 1], k>>] \in S
    BY <2>2
  <2>4. g \in [0 .. k -> S]
    BY <2>1, <2>3
  <2>5. (\A n \in 0 .. k - 1 : g[n] = f[n]) /\ g[k] = F[<<f[k - 1], k>>]
    BY <2>1
  <2> HIDE DEF g
  <2>6. ASSUME NEW n \in 1 .. k PROVE g[n] = F[<<g[n - 1], n>>]
    <3>1. CASE n \in 1 .. k - 1
      <4>1. n - 1 \in 0 .. k - 1 /\ n \in 0 .. k - 1
        BY <3>1
      <4> QED
        BY <2>1, <2>5, <3>1, <4>1
    <3>2. CASE n = k
      <4>1. k - 1 \in 0 .. k - 1
        OBVIOUS
      <4> QED
        BY <2>5, <3>2, <4>1
    <3> QED
      BY <3>1, <3>2
  <2>7. Def(g, k)
    BY <2>1, <2>4, <2>5, <2>6
  <2> HIDE DEF Def
  <2> QED
    BY <2>7
<1> HIDE DEF T
<1>3. m \in T
  BY <1>1, <1>2, BoundedInduction
<1> QED
  BY <1>3 DEF T

--------------------------------------------------------------------------------
(* The places of a document *)

\* The places in a table or array of a document, and no others.
LEMMA InTable ==
  ASSUME NEW d \in Docs, NEW t \in DOMAIN d.tables, NEW k \in Keys
  PROVE  /\ <<"table", t, k>> \in Places(d)
         /\ NodeAt(d, <<"table", t, k>>) = d.tables[t][k]
         /\ Owner(<<"table", t, k>>) = Node("Table", t)
         /\ d.tables[t][k] \in NodeSet
BY DEF Places, NodeAt, Owner, Docs

LEMMA InArray ==
  ASSUME NEW d \in Docs, NEW a \in DOMAIN d.arrays, NEW i \in DOMAIN d.arrays[a]
  PROVE  /\ <<"array", a, i>> \in Places(d)
         /\ NodeAt(d, <<"array", a, i>>) = d.arrays[a][i]
         /\ Owner(<<"array", a, i>>) = Node("Array", a)
         /\ d.arrays[a][i] \in NodeSet
<1>1. <<"array", a, i>> \in
        UNION {{<<"array", b, j>> : j \in DOMAIN d.arrays[b]} : b \in DOMAIN d.arrays}
  OBVIOUS
<1>2. d.arrays[a] \in Seq(NodeSet)
  BY DEF Docs
<1> QED
  BY <1>1, <1>2 DEF Places, NodeAt, Owner

LEMMA PlaceIs ==
  ASSUME NEW d \in Docs, NEW p \in Places(d)
  PROVE  \/ \E t \in DOMAIN d.tables, k \in Keys : p = <<"table", t, k>>
         \/ \E a \in DOMAIN d.arrays : \E i \in DOMAIN d.arrays[a] : p = <<"array", a, i>>
BY DEF Places

LEMMA PlaceTypes ==
  ASSUME NEW d \in Docs, NEW p \in Places(d)
  PROVE  /\ NodeAt(d, p) \in NodeSet
         /\ Owner(p) \in Objects(d)
         /\ p[1] = "array" <=> Owner(p).type = "Array"
<1>1. CASE \E t \in DOMAIN d.tables, k \in Keys : p = <<"table", t, k>>
  <2>1. PICK t \in DOMAIN d.tables, k \in Keys : p = <<"table", t, k>>
    BY <1>1
  <2>2. NodeAt(d, p) \in NodeSet /\ Owner(p) = Node("Table", t) /\ p[1] = "table"
    BY <2>1, InTable
  <2>3. Owner(p) \in Objects(d)
    BY <2>2 DEF Objects
  <2> QED
    BY <2>2, <2>3 DEF Node
<1>2. CASE \E a \in DOMAIN d.arrays : \E i \in DOMAIN d.arrays[a] : p = <<"array", a, i>>
  <2>1. PICK a \in DOMAIN d.arrays : \E i \in DOMAIN d.arrays[a] : p = <<"array", a, i>>
    BY <1>2
  <2>2. PICK i \in DOMAIN d.arrays[a] : p = <<"array", a, i>>
    BY <2>1
  <2>3. NodeAt(d, p) \in NodeSet /\ Owner(p) = Node("Array", a) /\ p[1] = "array"
    BY <2>2, InArray
  <2>4. Owner(p) \in Objects(d)
    BY <2>3 DEF Objects
  <2> QED
    BY <2>3, <2>4 DEF Node
<1> QED
  BY <1>1, <1>2, PlaceIs

\* An object is a table or an array that the document has.
LEMMA ObjectIs ==
  ASSUME NEW d \in Docs
  PROVE  /\ \A n \in Objects(d) : n \in NodeSet /\ IsObject(n)
         /\ \A t : Node("Table", t) \in Objects(d) <=> t \in DOMAIN d.tables
         /\ \A a : Node("Array", a) \in Objects(d) <=> a \in DOMAIN d.arrays
         /\ \A n \in NodeSet : Exists(d, n) <=> n \in Objects(d) \ {Root}
         /\ NoNode \notin Objects(d)
         /\ \A n \in NodeSet : IsObject(n) =>
              (n = Node("Table", n.ref) \/ n = Node("Array", n.ref))
<1>1. DOMAIN d.tables \subseteq Nat /\ DOMAIN d.arrays \subseteq Nat
  BY DEF Docs
<1>2. \A t, u : Node("Table", t) = Node("Table", u) <=> t = u
  BY DEF Node
<1>3. \A t, u : Node("Array", t) = Node("Array", u) <=> t = u
  BY DEF Node
<1>4. \A t, u : Node("Array", t) # Node("Table", u)
  BY DEF Node
<1>5. /\ \A t : Node("Table", t) \in Objects(d) <=> t \in DOMAIN d.tables
      /\ \A a : Node("Array", a) \in Objects(d) <=> a \in DOMAIN d.arrays
  BY <1>2, <1>3, <1>4 DEF Objects
<1>6. \A n \in Objects(d) : n \in NodeSet /\ IsObject(n)
  BY <1>1 DEF Objects, Node, NodeSet, IsObject
<1>7. \A n \in NodeSet : n = Node(n.type, n.ref)
  BY DEF NodeSet, Node
<1>8. NoNode \notin Objects(d)
  BY <1>6 DEF NoNode, Node, IsObject
<1>9. ASSUME NEW n \in NodeSet PROVE Exists(d, n) <=> n \in Objects(d) \ {Root}
  <2>1. CASE n.type = "Table"
    <3>1. n = Node("Table", n.ref)
      BY <1>7, <2>1
    <3>2. n = Root <=> n.ref = root
      BY <3>1, <1>2 DEF Root
    <3> QED
      BY <2>1, <3>1, <3>2, <1>5 DEF Exists
  <2>2. CASE n.type = "Array"
    <3>1. n = Node("Array", n.ref)
      BY <1>7, <2>2
    <3>2. n # Root
      BY <3>1, <1>4 DEF Root
    <3> QED
      BY <2>2, <3>1, <3>2, <1>5 DEF Exists
  <2>3. CASE n.type \notin {"Table", "Array"}
    BY <2>3, <1>6 DEF Exists, IsObject
  <2> QED
    BY <2>1, <2>2, <2>3
<1> QED
  BY <1>5, <1>6, <1>7, <1>8, <1>9 DEF IsObject

\* What it is to be a tree, in these terms.
LEMMA TreeIs ==
  ASSUME NEW d, IsTree(d)
  PROVE  /\ d \in Docs /\ Root \in Objects(d)
         /\ \A p \in Places(d) :
              /\ NodeAt(d, p) \in Nodes(d) /\ NodeAt(d, p) # Root
              /\ Owner(p).type = "Array" => NodeAt(d, p).type # "None"
              /\ IsObject(NodeAt(d, p)) =>
                   \A q \in Places(d) : NodeAt(d, q) = NodeAt(d, p) => q = p
<1>1. d \in Docs /\ Root \in Objects(d)
  BY ObjectIs DEF IsTree, Root
<1>2. IsObject(Root)
  BY DEF Root, Node, IsObject
<1> SUFFICES ASSUME NEW p \in Places(d)
             PROVE  /\ NodeAt(d, p) \in Nodes(d) /\ NodeAt(d, p) # Root
                    /\ Owner(p).type = "Array" => NodeAt(d, p).type # "None"
                    /\ IsObject(NodeAt(d, p)) =>
                         \A q \in Places(d) : NodeAt(d, q) = NodeAt(d, p) => q = p
  BY <1>1
<1>3. IsObject(NodeAt(d, p)) => Exists(d, NodeAt(d, p))
  BY DEF IsTree
<1>4. NodeAt(d, p) \in NodeSet
  BY <1>1, PlaceTypes
<1>5. NodeAt(d, p) \in Nodes(d) /\ NodeAt(d, p) # Root
  BY <1>1, <1>2, <1>3, <1>4, ObjectIs DEF Nodes
<1>6. p[1] = "array" => NodeAt(d, p).type # "None"
  BY DEF IsTree
<1>7. Owner(p).type = "Array" => NodeAt(d, p).type # "None"
  BY <1>1, <1>6, PlaceTypes
<1>8. IsObject(NodeAt(d, p)) => \A q \in Places(d) : NodeAt(d, q) = NodeAt(d, p) => q = p
  BY DEF IsTree
<1> QED
  BY <1>5, <1>7, <1>8

\* A tree in which some places get new nodes, each object a free one and in one of
\* them, and others are new and empty, is a tree again.
LEMMA Regrown ==
  ASSUME NEW d, IsTree(d), NEW e \in Docs, Objects(d) \subseteq Objects(e), NEW P,
         \A p \in Places(e) \ P :
           \/ p \in Places(d) /\ NodeAt(e, p) = NodeAt(d, p)
           \/ Owner(p).type = "Table" /\ NodeAt(e, p) = NoNode,
         \A p \in Places(e) \cap P :
           /\ Owner(p).type = "Array" => NodeAt(e, p).type # "None"
           /\ IsObject(NodeAt(e, p)) =>
                /\ NodeAt(e, p) \in Objects(e) \ {Root}
                /\ \A q \in Places(d) : NodeAt(d, q) # NodeAt(e, p)
                /\ \A q \in Places(e) \cap P : NodeAt(e, q) = NodeAt(e, p) => q = p
  PROVE  IsTree(e)
<1>1. root \in DOMAIN e.tables
  BY TreeIs, ObjectIs DEF Root
<1>2. d \in Docs
  BY TreeIs
<1>3. ~IsObject(NoNode)
  BY DEF NoNode, Node, IsObject
<1>4. ASSUME NEW p \in Places(e)
      PROVE  /\ IsObject(NodeAt(e, p)) => Exists(e, NodeAt(e, p))
             /\ p[1] = "array" => NodeAt(e, p).type # "None"
             /\ IsObject(NodeAt(e, p)) =>
                  \A q \in Places(e) : NodeAt(e, q) = NodeAt(e, p) => q = p
  <2>1. NodeAt(e, p) \in NodeSet /\ (p[1] = "array" <=> Owner(p).type = "Array")
    BY PlaceTypes
  <2>2. CASE p \in P
    <3>1. IsObject(NodeAt(e, p)) => Exists(e, NodeAt(e, p))
      BY <2>1, <2>2, ObjectIs
    <3>2. ASSUME IsObject(NodeAt(e, p)), NEW q \in Places(e), NodeAt(e, q) = NodeAt(e, p)
          PROVE  q = p
      BY <1>3, <2>2, <3>2
    <3> QED
      BY <2>1, <2>2, <3>1, <3>2
  <2>3. CASE p \notin P /\ p \in Places(d) /\ NodeAt(e, p) = NodeAt(d, p)
    <3>1. /\ Owner(p).type = "Array" => NodeAt(d, p).type # "None"
          /\ IsObject(NodeAt(d, p)) => NodeAt(d, p) \in Objects(d) \ {Root}
      BY <2>3, TreeIs DEF Nodes
    <3>2. IsObject(NodeAt(e, p)) => Exists(e, NodeAt(e, p))
      BY <2>1, <2>3, <3>1, ObjectIs
    <3>3. ASSUME IsObject(NodeAt(e, p)), NEW q \in Places(e), NodeAt(e, q) = NodeAt(e, p)
          PROVE  q = p
      <4>1. q \notin P
        BY <2>3, <3>3
      <4>2. q \in Places(d) /\ NodeAt(e, q) = NodeAt(d, q)
        BY <1>3, <3>3, <4>1
      <4> QED
        BY <2>3, <3>3, <4>2, TreeIs
    <3> QED
      BY <2>1, <2>3, <3>1, <3>2, <3>3
  <2>4. CASE Owner(p).type = "Table" /\ NodeAt(e, p) = NoNode
    BY <1>3, <2>1, <2>4
  <2> QED
    BY <2>2, <2>3, <2>4
<1> QED
  BY <1>1, <1>4 DEF IsTree

--------------------------------------------------------------------------------
(* What the ways to change a document do to its objects and places *)

LEMMA OtherTables ==
  ASSUME NEW d \in Docs, NEW tables \in Seq([Keys -> NodeSet])
  PROVE  LET e == [d EXCEPT !.tables = tables] IN
         e \in Docs /\ e.tables = tables /\ e.arrays = d.arrays
BY DEF Docs

LEMMA OtherArrays ==
  ASSUME NEW d \in Docs, NEW arrays \in Seq(Seq(NodeSet))
  PROVE  LET e == [d EXCEPT !.arrays = arrays] IN
         e \in Docs /\ e.arrays = arrays /\ e.tables = d.tables
BY DEF Docs

LEMMA PutDoes ==
  ASSUME NEW d \in Docs, NEW t \in DOMAIN d.tables, NEW k \in Keys, NEW node \in NodeSet
  PROVE  LET e == Put(d, t, k, node) IN
         /\ e \in Docs /\ e.arrays = d.arrays
         /\ Objects(e) = Objects(d) /\ Places(e) = Places(d)
         /\ NodeAt(e, <<"table", t, k>>) = node
         /\ \A p \in Places(d) : p # <<"table", t, k>> => NodeAt(e, p) = NodeAt(d, p)
<1> DEFINE e == Put(d, t, k, node)
<1>1. d.tables \in Seq([Keys -> NodeSet]) /\ d.arrays \in Seq(Seq(NodeSet))
  BY DEF Docs
<1> DEFINE tables == [d.tables EXCEPT ![t][k] = node]
<1>2. tables \in Seq([Keys -> NodeSet]) /\ DOMAIN tables = DOMAIN d.tables
  BY <1>1
<1>3. e = [d EXCEPT !.tables = tables]
  BY DEF Put
<1> HIDE DEF e, tables
<1>4. e \in Docs /\ e.arrays = d.arrays /\ e.tables = tables
  BY <1>2, <1>3, OtherTables
<1>5. /\ e \in Docs /\ e.arrays = d.arrays /\ DOMAIN e.tables = DOMAIN d.tables
      /\ e.tables = [d.tables EXCEPT ![t][k] = node]
  BY <1>2, <1>4 DEF tables
<1>6. e.tables[t][k] = node
  BY <1>1, <1>5
<1>7. \A u \in DOMAIN d.tables, j \in Keys : ~(u = t /\ j = k) => e.tables[u][j] = d.tables[u][j]
  BY <1>1, <1>5
<1>8. Objects(e) = Objects(d) /\ Places(e) = Places(d)
  BY <1>5 DEF Objects, Places
<1>9. NodeAt(e, <<"table", t, k>>) = node
  BY <1>6 DEF NodeAt
<1>10. ASSUME NEW p \in Places(d), p # <<"table", t, k>>
      PROVE  NodeAt(e, p) = NodeAt(d, p)
  <2>1. CASE \E u \in DOMAIN d.tables, j \in Keys : p = <<"table", u, j>>
    BY <1>7, <1>10, <2>1 DEF NodeAt
  <2>2. CASE \E a \in DOMAIN d.arrays : \E i \in DOMAIN d.arrays[a] : p = <<"array", a, i>>
    BY <1>5, <2>2 DEF NodeAt
  <2> QED
    BY <2>1, <2>2, PlaceIs
<1> QED
  BY <1>5, <1>8, <1>9, <1>10 DEF e

LEMMA PutIs ==
  ASSUME NEW d \in Docs, NEW t \in DOMAIN d.tables, NEW k \in Keys, NEW node \in NodeSet,
         NEW e, e = Put(d, t, k, node)
  PROVE  /\ Objects(e) = Objects(d) /\ Places(e) = Places(d)
         /\ \A p \in Places(d) : p # <<"table", t, k>> => NodeAt(e, p) = NodeAt(d, p)
BY PutDoes

LEMMA NewTableDoes ==
  ASSUME NEW d \in Docs
  PROVE  LET e == NewTable(d)
             new == Node("Table", Len(e.tables))
         IN /\ e \in Docs /\ e.arrays = d.arrays /\ Len(e.tables) = Len(d.tables) + 1
            /\ new \in NodeSet \ Objects(d) /\ Objects(e) = Objects(d) \cup {new}
            /\ \A p \in Places(d) : p \in Places(e) /\ NodeAt(e, p) = NodeAt(d, p)
            /\ \A p \in Places(e) \ Places(d) : Owner(p) = new /\ NodeAt(e, p) = NoNode
            /\ \A t \in DOMAIN d.tables : e.tables[t] = d.tables[t]
<1> DEFINE e == NewTable(d)
           new == Node("Table", Len(e.tables))
<1>1. d.tables \in Seq([Keys -> NodeSet]) /\ d.arrays \in Seq(Seq(NodeSet))
  BY DEF Docs
<1>2. Empty \in [Keys -> NodeSet] /\ \A k \in Keys : Empty[k] = NoNode
  BY DEF Empty, NodeSet, NoNode, Node
<1>3. Append(d.tables, Empty) \in Seq([Keys -> NodeSet])
  BY <1>1, <1>2
<1>4. e \in Docs /\ e.arrays = d.arrays /\ e.tables = Append(d.tables, Empty)
  BY <1>3, OtherTables DEF NewTable
<1>5. /\ Len(e.tables) = Len(d.tables) + 1 /\ Len(d.tables) \in Nat
      /\ DOMAIN d.tables = 1 .. Len(d.tables) /\ DOMAIN e.tables = 1 .. Len(e.tables)
      /\ \A t \in DOMAIN d.tables : e.tables[t] = d.tables[t]
      /\ e.tables[Len(e.tables)] = Empty
  BY <1>1, <1>2, <1>4
<1>6. e \in Docs
  BY <1>4
<1> HIDE DEF e
<1>7. /\ DOMAIN e.tables = DOMAIN d.tables \cup {Len(e.tables)}
      /\ Len(e.tables) \notin DOMAIN d.tables
  BY <1>5
<1>8. Objects(e) = Objects(d) \cup {new}
  BY <1>4, <1>7 DEF Objects
<1>9. new \in NodeSet \ Objects(d)
  BY <1>5, <1>7, ObjectIs DEF NodeSet, Node
<1>10. ASSUME NEW p \in Places(d) PROVE p \in Places(e) /\ NodeAt(e, p) = NodeAt(d, p)
  <2>1. CASE \E u \in DOMAIN d.tables, j \in Keys : p = <<"table", u, j>>
    BY <1>5, <1>6, <1>7, <2>1, InTable DEF NodeAt
  <2>2. CASE \E a \in DOMAIN d.arrays : \E i \in DOMAIN d.arrays[a] : p = <<"array", a, i>>
    BY <1>4, <1>6, <2>2, InArray DEF NodeAt
  <2> QED
    BY <2>1, <2>2, PlaceIs
<1>11. ASSUME NEW p \in Places(e) \ Places(d) PROVE Owner(p) = new /\ NodeAt(e, p) = NoNode
  <2>1. CASE \E u \in DOMAIN e.tables, j \in Keys : p = <<"table", u, j>>
    <3>1. PICK u \in DOMAIN e.tables, j \in Keys : p = <<"table", u, j>>
      BY <2>1
    <3>2. u \notin DOMAIN d.tables
      BY <1>11, <3>1, InTable
    <3>3. u = Len(e.tables)
      BY <1>7, <3>2
    <3> QED
      BY <1>2, <1>5, <1>6, <3>1, <3>3, InTable
  <2>2. CASE \E a \in DOMAIN e.arrays : \E i \in DOMAIN e.arrays[a] : p = <<"array", a, i>>
    BY <1>4, <1>11, <2>2, InArray
  <2> QED
    BY <1>6, <2>1, <2>2, PlaceIs
<1> QED
  BY <1>4, <1>5, <1>6, <1>8, <1>9, <1>10, <1>11 DEF e

\* One more array, with the nodes as its elements.
WithArray(d, nodes) == [d EXCEPT !.arrays = Append(@, nodes)]

LEMMA NewArrayDoes ==
  ASSUME NEW d \in Docs, NEW nodes \in Seq(NodeSet), NEW e, e = WithArray(d, nodes),
         NEW a, a = Len(d.arrays) + 1, NEW new, new = Node("Array", a)
  PROVE  /\ e \in Docs /\ e.tables = d.tables
         /\ Len(e.arrays) = a /\ e.arrays[a] = nodes
         /\ new \in NodeSet \ Objects(d) /\ Objects(e) = Objects(d) \cup {new}
         /\ \A p \in Places(d) : p \in Places(e) /\ NodeAt(e, p) = NodeAt(d, p)
         /\ \A p \in Places(e) \ Places(d) :
              /\ Owner(p) = new
              /\ \E i \in DOMAIN nodes : p = <<"array", a, i>> /\ NodeAt(e, p) = nodes[i]
<1> DEFINE arrays == Append(d.arrays, nodes)
<1>1. d.arrays \in Seq(Seq(NodeSet))
  BY DEF Docs
<1>2. /\ arrays \in Seq(Seq(NodeSet)) /\ Len(arrays) = a /\ arrays[a] = nodes
      /\ Len(d.arrays) \in Nat /\ DOMAIN d.arrays = 1 .. Len(d.arrays) /\ DOMAIN arrays = 1 .. a
      /\ \A b \in DOMAIN d.arrays : arrays[b] = d.arrays[b]
  BY <1>1
<1>3. e = [d EXCEPT !.arrays = arrays]
  BY DEF WithArray
<1> HIDE DEF arrays
<1>4. e \in Docs /\ e.arrays = arrays /\ e.tables = d.tables
  BY <1>2, <1>3, OtherArrays
<1>5. DOMAIN e.arrays = DOMAIN d.arrays \cup {a} /\ a \notin DOMAIN d.arrays
  BY <1>2, <1>4
<1>6. Objects(e) = Objects(d) \cup {new}
  BY <1>4, <1>5 DEF Objects
<1>7. new \in NodeSet \ Objects(d)
  BY <1>2, <1>5, ObjectIs DEF NodeSet, Node
<1>8. ASSUME NEW p \in Places(d) PROVE p \in Places(e) /\ NodeAt(e, p) = NodeAt(d, p)
  <2>1. CASE \E u \in DOMAIN d.tables, j \in Keys : p = <<"table", u, j>>
    BY <1>4, <2>1, InTable DEF NodeAt
  <2>2. CASE \E b \in DOMAIN d.arrays : \E i \in DOMAIN d.arrays[b] : p = <<"array", b, i>>
    <3>1. PICK b \in DOMAIN d.arrays : \E i \in DOMAIN d.arrays[b] : p = <<"array", b, i>>
      BY <2>2
    <3>2. PICK i \in DOMAIN d.arrays[b] : p = <<"array", b, i>>
      BY <3>1
    <3>3. b \in DOMAIN e.arrays /\ e.arrays[b] = d.arrays[b]
      BY <1>2, <1>4, <1>5
    <3>4. i \in DOMAIN e.arrays[b]
      BY <3>3
    <3> QED
      BY <1>4, <3>2, <3>3, <3>4, InArray
  <2> QED
    BY <2>1, <2>2, PlaceIs
<1>9. ASSUME NEW p \in Places(e) \ Places(d)
      PROVE  /\ Owner(p) = new
             /\ \E i \in DOMAIN nodes : p = <<"array", a, i>> /\ NodeAt(e, p) = nodes[i]
  <2>1. CASE \E u \in DOMAIN e.tables, j \in Keys : p = <<"table", u, j>>
    BY <1>4, <1>9, <2>1, InTable
  <2>2. CASE \E b \in DOMAIN e.arrays : \E i \in DOMAIN e.arrays[b] : p = <<"array", b, i>>
    <3>1. PICK b \in DOMAIN e.arrays : \E i \in DOMAIN e.arrays[b] : p = <<"array", b, i>>
      BY <2>2
    <3>2. PICK i \in DOMAIN e.arrays[b] : p = <<"array", b, i>>
      BY <3>1
    <3>3. b \notin DOMAIN d.arrays
      BY <1>2, <1>4, <1>9, <3>2, InArray
    <3>4. b = a /\ e.arrays[b] = nodes
      BY <1>2, <1>4, <1>5, <3>3
    <3> QED
      BY <1>4, <3>2, <3>4, InArray
  <2> QED
    BY <1>4, <2>1, <2>2, PlaceIs
<1> QED
  BY <1>2, <1>4, <1>6, <1>7, <1>8, <1>9

\* push_back
Pushed(d, a, node) == [d EXCEPT !.arrays[a] = Append(@, node)]

LEMMA PushDoes ==
  ASSUME NEW d \in Docs, NEW a \in DOMAIN d.arrays, NEW node \in NodeSet
  PROVE  LET e == Pushed(d, a, node)
             n == Len(d.arrays[a]) + 1
         IN /\ e \in Docs /\ e.tables = d.tables /\ Objects(e) = Objects(d)
            /\ e.arrays[a] = Append(d.arrays[a], node)
            /\ <<"array", a, n>> \notin Places(d) /\ NodeAt(e, <<"array", a, n>>) = node
            /\ Places(e) = Places(d) \cup {<<"array", a, n>>}
            /\ \A p \in Places(d) : NodeAt(e, p) = NodeAt(d, p)
<1> DEFINE nodes == Append(d.arrays[a], node)
           arrays == [d.arrays EXCEPT ![a] = nodes]
           e == Pushed(d, a, node)
           n == Len(d.arrays[a]) + 1
           P == <<"array", a, n>>
<1>1. d.arrays \in Seq(Seq(NodeSet)) /\ d.arrays[a] \in Seq(NodeSet)
  BY DEF Docs
<1>2. /\ nodes \in Seq(NodeSet) /\ n \in Nat /\ n > 0
      /\ DOMAIN d.arrays[a] = 1 .. n - 1 /\ DOMAIN nodes = 1 .. n
      /\ nodes[n] = node /\ \A i \in DOMAIN d.arrays[a] : nodes[i] = d.arrays[a][i]
  BY <1>1
<1> HIDE DEF nodes, n
<1>3. /\ arrays \in Seq(Seq(NodeSet)) /\ DOMAIN arrays = DOMAIN d.arrays /\ arrays[a] = nodes
      /\ \A b \in DOMAIN d.arrays : b # a => arrays[b] = d.arrays[b]
  BY <1>1, <1>2
<1>4. e = [d EXCEPT !.arrays = arrays]
  BY DEF nodes, Pushed
<1> HIDE DEF e, arrays
<1>5. e \in Docs /\ e.arrays = arrays /\ e.tables = d.tables
  BY <1>3, <1>4, OtherArrays
<1>6. Objects(e) = Objects(d)
  BY <1>3, <1>5 DEF Objects
<1>7. DOMAIN nodes = DOMAIN d.arrays[a] \cup {n} /\ n \notin DOMAIN d.arrays[a]
  BY <1>2
<1>8. P \in Places(e) /\ NodeAt(e, P) = node
  BY <1>2, <1>3, <1>5, <1>7, InArray
<1>9. P \notin Places(d)
  BY <1>7 DEF Places
<1>10. ASSUME NEW p \in Places(d) PROVE p \in Places(e) /\ NodeAt(e, p) = NodeAt(d, p)
  <2>1. CASE \E u \in DOMAIN d.tables, j \in Keys : p = <<"table", u, j>>
    BY <1>5, <2>1, InTable DEF NodeAt
  <2>2. CASE \E b \in DOMAIN d.arrays : \E i \in DOMAIN d.arrays[b] : p = <<"array", b, i>>
    <3>1. PICK b \in DOMAIN d.arrays : \E i \in DOMAIN d.arrays[b] : p = <<"array", b, i>>
      BY <2>2
    <3>2. PICK i \in DOMAIN d.arrays[b] : p = <<"array", b, i>>
      BY <3>1
    <3>3. b \in DOMAIN e.arrays /\ i \in DOMAIN e.arrays[b] /\ e.arrays[b][i] = d.arrays[b][i]
      BY <1>2, <1>3, <1>5, <1>7
    <3> QED
      BY <1>5, <3>2, <3>3, InArray
  <2> QED
    BY <2>1, <2>2, PlaceIs
<1>11. ASSUME NEW p \in Places(e), p # P PROVE p \in Places(d)
  <2>1. CASE \E u \in DOMAIN e.tables, j \in Keys : p = <<"table", u, j>>
    BY <1>5, <2>1, InTable
  <2>2. CASE \E b \in DOMAIN e.arrays : \E i \in DOMAIN e.arrays[b] : p = <<"array", b, i>>
    <3>1. PICK b \in DOMAIN e.arrays : \E i \in DOMAIN e.arrays[b] : p = <<"array", b, i>>
      BY <2>2
    <3>2. PICK i \in DOMAIN e.arrays[b] : p = <<"array", b, i>>
      BY <3>1
    <3>3. b \in DOMAIN d.arrays /\ i \in DOMAIN d.arrays[b]
      BY <1>3, <1>5, <1>7, <1>11, <3>2
    <3> QED
      BY <3>2, <3>3, InArray
  <2> QED
    BY <1>5, <2>1, <2>2, PlaceIs
<1> QED
  BY <1>3, <1>5, <1>6, <1>8, <1>9, <1>10, <1>11 DEF e, n, nodes

--------------------------------------------------------------------------------
(* What a change of a tree leaves alone *)

\* From tree d came tree e by changes at and below n and in new objects, which put
\* none of the objects there were into a place, but for those of M.
Leaves(d, e, n, M) ==
  /\ IsTree(e) /\ Objects(d) \subseteq Objects(e)
  /\ \A m : Free(d, m) /\ m \notin M => Free(e, m)
  /\ \A C \in SUBSET Objects(d) :
       Guarded(d, C) /\ n \notin C /\ C \cap M = {} => Same(d, e, C) /\ Guarded(e, C)

LEMMA LeavesWhen ==
  ASSUME NEW d, IsTree(d), NEW e, IsTree(e), Objects(d) \subseteq Objects(e), NEW n, NEW M,
         \A p \in Places(d) : p \in Places(e),
         \A p \in Places(e) :
           \/ p \in Places(d) /\ NodeAt(e, p) = NodeAt(d, p)
           \/ /\ Owner(p) = n \/ Owner(p) \notin Objects(d)
              /\ NodeAt(e, p) \in M \/ NodeAt(e, p) \notin Objects(d)
  PROVE  Leaves(d, e, n, M)
<1>1. ASSUME NEW m, Free(d, m), m \notin M PROVE Free(e, m)
  BY <1>1 DEF Free
<1>2. ASSUME NEW C \in SUBSET Objects(d), Guarded(d, C), n \notin C, C \cap M = {}
      PROVE  Same(d, e, C) /\ Guarded(e, C)
  <2>1. Same(d, e, C)
    BY <1>2 DEF Same
  <2>2. Guarded(e, C)
    BY <1>2 DEF Guarded
  <2> QED
    BY <2>1, <2>2
<1> QED
  BY <1>1, <1>2 DEF Leaves

LEMMA LeavesItself ==
  ASSUME NEW d, IsTree(d), NEW n
  PROVE  Leaves(d, d, n, {})
BY LeavesWhen

LEMMA SameThrough ==
  ASSUME NEW d, NEW e, NEW f, NEW C, Same(d, e, C), Same(e, f, C)
  PROVE  Same(d, f, C)
BY DEF Same

LEMMA LeavesThrough ==
  ASSUME NEW d, NEW e, NEW f, NEW n, NEW m, NEW M, Leaves(d, e, n, {}), Leaves(e, f, m, M),
         \A C \in SUBSET Objects(d) : Guarded(d, C) /\ n \notin C => m \notin C
  PROVE  Leaves(d, f, n, M \cap Objects(d))
<1>1. IsTree(f) /\ Objects(d) \subseteq Objects(f)
  BY DEF Leaves
<1>2. ASSUME NEW k, Free(d, k), k \notin M \cap Objects(d) PROVE Free(f, k)
  <2>1. k \in Objects(d) /\ Free(e, k)
    BY <1>2 DEF Leaves, Free
  <2> QED
    BY <1>2, <2>1 DEF Leaves
<1>3. ASSUME NEW C \in SUBSET Objects(d), Guarded(d, C), n \notin C,
             C \cap (M \cap Objects(d)) = {}
      PROVE  Same(d, f, C) /\ Guarded(f, C)
  <2>1. Same(d, e, C) /\ Guarded(e, C) /\ C \in SUBSET Objects(e)
    BY <1>3 DEF Leaves
  <2>2. m \notin C /\ C \cap M = {}
    BY <1>3
  <2>3. Same(e, f, C) /\ Guarded(f, C)
    BY <2>1, <2>2 DEF Leaves
  <2> QED
    BY <2>1, <2>3, SameThrough
<1> QED
  BY <1>1, <1>2, <1>3 DEF Leaves

\* A node that may be put into a place: a scalar, or an object in none.
Usable(d, node) == node \in Nodes(d) /\ (IsObject(node) => Free(d, node))

LEMMA PutLeaves ==
  ASSUME NEW d, IsTree(d), NEW t \in DOMAIN d.tables, NEW k \in Keys, NEW node,
         Usable(d, node)
  PROVE  Leaves(d, Put(d, t, k, node), Node("Table", t), {node})
<1> DEFINE e == Put(d, t, k, node)
           P == <<"table", t, k>>
<1>1. d \in Docs /\ node \in NodeSet
  BY TreeIs DEF Usable, Nodes
<1>2. /\ e \in Docs /\ Objects(e) = Objects(d) /\ Places(e) = Places(d)
      /\ NodeAt(e, P) = node /\ \A p \in Places(d) : p # P => NodeAt(e, p) = NodeAt(d, p)
  BY <1>1, PutDoes
<1>3. Owner(P) = Node("Table", t) /\ Owner(P).type = "Table"
  BY <1>1, InTable DEF Node
<1> HIDE DEF e, P
<1>4. /\ Owner(P).type # "Array"
      /\ IsObject(node) => /\ node \in Objects(e) \ {Root}
                           /\ \A q \in Places(d) : NodeAt(d, q) # node
  BY <1>2, <1>3 DEF Usable, Free
<1>5. IsTree(e)
  <2>1. \A p \in Places(e) \ {P} :
          \/ p \in Places(d) /\ NodeAt(e, p) = NodeAt(d, p)
          \/ Owner(p).type = "Table" /\ NodeAt(e, p) = NoNode
    BY <1>2
  <2>2. \A p \in Places(e) \cap {P} :
          /\ Owner(p).type = "Array" => NodeAt(e, p).type # "None"
          /\ IsObject(NodeAt(e, p)) =>
               /\ NodeAt(e, p) \in Objects(e) \ {Root}
               /\ \A q \in Places(d) : NodeAt(d, q) # NodeAt(e, p)
               /\ \A q \in Places(e) \cap {P} : NodeAt(e, q) = NodeAt(e, p) => q = p
    BY <1>2, <1>4
  <2>3. Objects(d) \subseteq Objects(e)
    BY <1>2
  <2> QED
    BY <1>2, <2>1, <2>2, <2>3, Regrown
<1>6. Leaves(d, e, Node("Table", t), {node})
  BY <1>2, <1>3, <1>5, LeavesWhen
<1> QED
  BY <1>6 DEF e

\* A new table, which is in no place yet.
LEMMA NewTableLeaves ==
  ASSUME NEW d, IsTree(d), NEW n
  PROVE  LET e == NewTable(d) IN
         /\ Leaves(d, e, n, {}) /\ Len(e.tables) \in DOMAIN e.tables
         /\ Free(e, Node("Table", Len(e.tables)))
         /\ Node("Table", Len(e.tables)) \notin Objects(d)
<1> DEFINE e == NewTable(d)
           new == Node("Table", Len(e.tables))
<1>1. d \in Docs
  BY TreeIs
<1>2. /\ e \in Docs /\ new \in NodeSet \ Objects(d) /\ Objects(e) = Objects(d) \cup {new}
      /\ \A p \in Places(d) : p \in Places(e) /\ NodeAt(e, p) = NodeAt(d, p)
      /\ \A p \in Places(e) \ Places(d) : Owner(p) = new /\ NodeAt(e, p) = NoNode
  BY <1>1, NewTableDoes
<1>3. new.type = "Table" /\ NoNode \notin Objects(e) /\ Root \in Objects(d)
  BY <1>1, <1>2, ObjectIs, TreeIs DEF Node
<1> HIDE DEF e, new
<1>4. IsTree(e)
  <2>1. \A p \in Places(e) \ {} :
          \/ p \in Places(d) /\ NodeAt(e, p) = NodeAt(d, p)
          \/ Owner(p).type = "Table" /\ NodeAt(e, p) = NoNode
    BY <1>2, <1>3
  <2>2. \A p \in Places(e) \cap {} :
          /\ Owner(p).type = "Array" => NodeAt(e, p).type # "None"
          /\ IsObject(NodeAt(e, p)) =>
               /\ NodeAt(e, p) \in Objects(e) \ {Root}
               /\ \A q \in Places(d) : NodeAt(d, q) # NodeAt(e, p)
               /\ \A q \in Places(e) \cap {} : NodeAt(e, q) = NodeAt(e, p) => q = p
    OBVIOUS
  <2>3. e \in Docs /\ Objects(d) \subseteq Objects(e)
    BY <1>2
  <2> QED
    BY <2>1, <2>2, <2>3, Regrown
<1>5. Leaves(d, e, n, {})
  BY <1>2, <1>3, <1>4, LeavesWhen
<1>6. \A p \in Places(e) : NodeAt(e, p) # new
  <2> SUFFICES ASSUME NEW p \in Places(e), NodeAt(e, p) = new PROVE FALSE
    OBVIOUS
  <2>1. CASE p \in Places(d)
    BY <1>2, <1>3, <2>1, ObjectIs, TreeIs DEF Nodes, IsObject
  <2>2. CASE p \notin Places(d)
    BY <1>2, <1>3, <2>2
  <2> QED
    BY <2>1, <2>2
<1>7. Free(e, new)
  BY <1>2, <1>3, <1>6 DEF Free
<1>8. Len(e.tables) \in DOMAIN e.tables
  BY <1>2, ObjectIs DEF new
<1> QED
  BY <1>2, <1>5, <1>7, <1>8 DEF e, new

--------------------------------------------------------------------------------
(* Walks that make the tables that are missing *)

Walks == [doc : Docs, at : Nat, ok : BOOLEAN]

\* Where a walk stands.
Stand(w) == Node("Table", w.at)

\* The walks in a tree.
Standing == {w \in Walks : IsTree(w.doc) /\ Stand(w) \in Objects(w.doc)}

\* Whatever is in a place stays there.
Keeps(d, e) ==
  \A p \in Places(d) :
    NodeAt(d, p).type # "None" => p \in Places(e) /\ NodeAt(e, p) = NodeAt(d, p)

LEMMA KeepsThrough ==
  ASSUME NEW d, NEW e, NEW f, Keeps(d, e), Keeps(e, f)
  PROVE  Keeps(d, f)
BY DEF Keeps

\* Nothing but new tables has been added.
Grows(d, e) ==
  /\ Keeps(d, e) /\ Objects(d) \subseteq Objects(e)
  /\ \A p \in Places(e) :
       \/ p \in Places(d) /\ NodeAt(e, p) = NodeAt(d, p)
       \/ /\ p \in Places(d) => NodeAt(d, p).type = "None"
          /\ NodeAt(e, p).type \in {"None", "Table"} /\ NodeAt(e, p) \notin Objects(d)

LEMMA GrowsThrough ==
  ASSUME NEW d, NEW e, NEW f, Grows(d, e), Grows(e, f)
  PROVE  Grows(d, f)
<1>1. ASSUME NEW p \in Places(f), ~(p \in Places(e) /\ NodeAt(f, p) = NodeAt(e, p)),
             p \in Places(d)
      PROVE  NodeAt(d, p).type = "None"
  BY <1>1 DEF Grows, Keeps
<1>2. ASSUME NEW p \in Places(f)
      PROVE  \/ p \in Places(d) /\ NodeAt(f, p) = NodeAt(d, p)
             \/ /\ p \in Places(d) => NodeAt(d, p).type = "None"
                /\ NodeAt(f, p).type \in {"None", "Table"} /\ NodeAt(f, p) \notin Objects(d)
  <2>1. CASE p \in Places(e) /\ NodeAt(f, p) = NodeAt(e, p)
    BY <2>1 DEF Grows
  <2>2. CASE ~(p \in Places(e) /\ NodeAt(f, p) = NodeAt(e, p))
    BY <1>1, <2>2 DEF Grows
  <2> QED
    BY <2>1, <2>2
<1>3. Keeps(d, f) /\ Objects(d) \subseteq Objects(f)
  BY KeepsThrough DEF Grows
<1> QED
  BY <1>2, <1>3 DEF Grows

\* The walks from n in tree d: they add to d, and stand, at and below n only.
Walking(d, n) ==
  {w \in Standing :
     /\ Leaves(d, w.doc, n, {}) /\ Grows(d, w.doc)
     /\ \A C \in SUBSET Objects(d) : Guarded(d, C) /\ n \notin C => Stand(w) \notin C}

LEMMA WalkingOn ==
  ASSUME NEW d, NEW n, NEW w \in Walking(d, n), NEW v \in Walking(w.doc, Stand(w))
  PROVE  v \in Walking(d, n)
<1>1. Leaves(d, w.doc, n, {}) /\ Leaves(w.doc, v.doc, Stand(w), {})
  BY DEF Walking
<1>2. Leaves(d, v.doc, n, {} \cap Objects(d))
  BY <1>1, LeavesThrough DEF Walking
<1>3. ASSUME NEW C \in SUBSET Objects(d), Guarded(d, C), n \notin C
      PROVE  Stand(v) \notin C
  <2>1. C \in SUBSET Objects(w.doc) /\ Guarded(w.doc, C)
    BY <1>1, <1>3 DEF Leaves
  <2>2. Stand(w) \notin C
    BY <1>3 DEF Walking
  <2> QED
    BY <2>1, <2>2 DEF Walking
<1>4. Leaves(d, v.doc, n, {})
  BY <1>2
<1>5. Grows(d, v.doc)
  BY GrowsThrough DEF Walking
<1> QED
  BY <1>3, <1>4, <1>5 DEF Walking

LEMMA WalkingHere ==
  ASSUME NEW w \in Standing
  PROVE  w \in Walking(w.doc, Stand(w))
BY LeavesItself DEF Walking, Standing, Grows, Keeps

\* What a table holds is not among the objects that are guarded from it.
LEMMA Below ==
  ASSUME NEW d \in Docs, NEW t \in DOMAIN d.tables, NEW k \in Keys
  PROVE  \A C : Guarded(d, C) /\ Node("Table", t) \notin C => d.tables[t][k] \notin C
BY InTable DEF Guarded

LEMMA EnsureTableWalks ==
  ASSUME NEW w \in Standing, NEW key \in Keys
  PROVE  LET v == EnsureTable(w, key) IN
         /\ v \in Walking(w.doc, Stand(w)) /\ (v.ok => w.ok)
         /\ v.ok => Child(v.doc, w.at, key) = Stand(v)
<1> DEFINE v == EnsureTable(w, key)
           d == w.doc
           t == w.at
           child == Child(d, t, key)
<1>1. w \in Walks /\ IsTree(d) /\ d \in Docs /\ t \in DOMAIN d.tables
  BY TreeIs, ObjectIs DEF Standing, Stand
<1>2. /\ child = d.tables[t][key] /\ child \in Nodes(d)
      /\ \A C : Guarded(d, C) /\ Stand(w) \notin C => child \notin C
  <2>1. child = d.tables[t][key]
    BY DEF Child
  <2>2. child = NodeAt(d, <<"table", t, key>>) /\ <<"table", t, key>> \in Places(d)
    BY <1>1, <2>1, InTable
  <2>3. child \in Nodes(d)
    BY <1>1, <2>2, TreeIs
  <2> HIDE DEF child
  <2>4. \A C : Guarded(d, C) /\ Stand(w) \notin C => child \notin C
    BY <1>1, <2>1, Below DEF Stand
  <2> QED
    BY <2>1, <2>3, <2>4
<1>3. CASE child.type = "None"
  <2> DEFINE made == NewTable(d)
             new == Node("Table", Len(made.tables))
             e == Put(made, t, key, new)
  <2>1. v = Walk(e, Len(made.tables), w.ok)
    BY <1>3 DEF EnsureTable
  <2>2. /\ Leaves(d, made, Stand(w), {}) /\ Len(made.tables) \in DOMAIN made.tables
        /\ Free(made, new) /\ new \notin Objects(d)
    BY <1>1, NewTableLeaves
  <2>3. /\ IsTree(made) /\ made \in Docs /\ t \in DOMAIN made.tables
        /\ new \in Objects(made) /\ new \in NodeSet /\ Len(made.tables) \in Nat
    <3>1. IsTree(made) /\ made \in Docs
      BY <2>2, TreeIs DEF Leaves
    <3>2. Stand(w) \in Objects(made) /\ new \in Objects(made)
      BY <2>2 DEF Leaves, Free, Standing
    <3>3. new \in NodeSet /\ t \in DOMAIN made.tables /\ Len(made.tables) \in Nat
      BY <3>1, <3>2, ObjectIs DEF Stand, Docs
    <3> QED
      BY <3>1, <3>2, <3>3
  <2> HIDE DEF made, new
  <2>4. Usable(made, new)
    BY <2>2, <2>3 DEF Usable, Nodes
  <2>5. Leaves(made, e, Stand(w), {new})
    BY <2>3, <2>4, PutLeaves DEF Stand
  <2>6. Leaves(d, e, Stand(w), {new} \cap Objects(d))
    BY <2>2, <2>5, LeavesThrough
  <2>7. Leaves(d, e, Stand(w), {})
    <3>1. {new} \cap Objects(d) = {}
      BY <2>2
    <3> QED
      BY <2>6, <3>1
  <2>8. e \in Docs /\ e.tables[t][key] = new
    <3>1. e \in Docs /\ NodeAt(e, <<"table", t, key>>) = new
      BY <2>3, PutDoes
    <3> QED
      BY <3>1 DEF NodeAt
  <2>9. v \in Walks /\ v.doc = e /\ Stand(v) = new /\ v.ok = w.ok
    BY <1>1, <2>1, <2>3, <2>8 DEF Walks, Walk, Stand, new
  <2>10. Grows(d, e)
    <3>1. Keeps(d, made)
      BY <1>1, NewTableDoes DEF Keeps, made
    <3>2. \A p \in Places(made) :
            p \in Places(e) /\ (p # <<"table", t, key>> => NodeAt(e, p) = NodeAt(made, p))
      BY <2>3, PutDoes
    <3>3. NodeAt(d, <<"table", t, key>>).type = "None"
      BY <1>1, <1>2, <1>3, InTable
    <3>4. ASSUME NEW p \in Places(d), NodeAt(d, p).type # "None"
          PROVE  p \in Places(e) /\ NodeAt(e, p) = NodeAt(d, p)
      BY <3>1, <3>2, <3>3, <3>4 DEF Keeps
    <3>5. Keeps(d, e) /\ Objects(d) \subseteq Objects(e)
      BY <2>7, <3>4 DEF Keeps, Leaves
    <3>6. NodeAt(e, <<"table", t, key>>) = new /\ new.type = "Table" /\ Places(e) = Places(made)
      BY <2>3, PutDoes DEF new, Node
    <3>7. \A p \in Places(made) :
            \/ p \in Places(d) /\ NodeAt(made, p) = NodeAt(d, p)
            \/ p \notin Places(d) /\ NodeAt(made, p) = NoNode
      BY <1>1, NewTableDoes DEF made
    <3>8. NoNode \notin Objects(d) /\ NoNode.type = "None"
      BY <1>1, ObjectIs DEF NoNode, Node
    <3>9. ASSUME NEW p \in Places(e)
          PROVE  \/ p \in Places(d) /\ NodeAt(e, p) = NodeAt(d, p)
                 \/ /\ p \in Places(d) => NodeAt(d, p).type = "None"
                    /\ NodeAt(e, p).type \in {"None", "Table"} /\ NodeAt(e, p) \notin Objects(d)
      <4>1. CASE p = <<"table", t, key>>
        BY <2>2, <3>3, <3>6, <4>1
      <4>2. CASE p # <<"table", t, key>>
        BY <3>2, <3>6, <3>7, <3>8, <4>2
      <4> QED
        BY <4>1, <4>2
    <3> QED
      BY <3>5, <3>9 DEF Grows
  <2> HIDE DEF e, v
  <2>11. v \in Standing
    BY <2>3, <2>7, <2>9, <2>5 DEF Standing, Leaves
  <2>12. v \in Walking(d, Stand(w))
    BY <2>2, <2>7, <2>9, <2>11, <2>10 DEF Walking
  <2> QED
    BY <2>8, <2>9, <2>12 DEF Child, v
<1>4. CASE child.type = "Table"
  <2>1. v = [w EXCEPT !.at = child.ref]
    BY <1>3, <1>4 DEF EnsureTable
  <2>2. child = Node("Table", child.ref) /\ child \in Objects(d) /\ child.ref \in Nat
    BY <1>1, <1>2, <1>4, ObjectIs DEF Nodes, IsObject, NodeSet, Node
  <2>3. v \in Walks /\ v.doc = d /\ Stand(v) = child /\ v.ok = w.ok
    BY <1>1, <2>1, <2>2 DEF Walks, Stand
  <2>4. Leaves(d, d, Stand(w), {})
    BY <1>1, LeavesItself
  <2>5. v \in Walking(d, Stand(w))
    BY <1>1, <1>2, <2>2, <2>3, <2>4 DEF Walking, Standing, Grows, Keeps
  <2> QED
    BY <2>3, <2>5
<1>5. CASE child.type \notin {"None", "Table"}
  <2>1. v = Failed(w)
    BY <1>5 DEF EnsureTable
  <2>2. v \in Walks /\ v.doc = d /\ Stand(v) = Stand(w) /\ v.ok = FALSE
    BY <1>1, <2>1 DEF Walks, Stand, Failed
  <2>3. Leaves(d, d, Stand(w), {})
    BY <1>1, LeavesItself
  <2>4. v \in Walking(d, Stand(w))
    BY <2>2, <2>3 DEF Walking, Standing, Grows, Keeps
  <2> QED
    BY <2>2, <2>4
<1> QED
  BY <1>3, <1>4, <1>5

\* Along all keys but the last, what is found on the way is made.
LEMMA EnsureAlong ==
  ASSUME NEW w \in Standing, NEW keys \in Seq(Keys) \ {<<>>}
  PROVE  LET v == Along(EnsureTable, w, keys) IN
         v \in Walking(w.doc, Stand(w)) /\ (v.ok => w.ok)
<1> DEFINE S == {v \in Walking(w.doc, Stand(w)) : v.ok => w.ok}
           m == Len(keys) - 1
           on(v, n) == IF v.ok THEN EnsureTable(v, keys[n]) ELSE v
           walk[n \in 0 .. m] == IF n = 0 THEN w ELSE on(walk[n - 1], n)
           F == [x \in S \X (1 .. m) |-> on(x[1], x[2])]
<1>1. Along(EnsureTable, w, keys) = walk[m]
  BY DEF Along
<1>2. m \in Nat /\ \A n \in 1 .. m : keys[n] \in Keys
  OBVIOUS
<1>3. w \in S
  BY WalkingHere
<1>4. ASSUME NEW v \in S, NEW n \in 1 .. m PROVE on(v, n) \in S
  <2>1. v \in Standing /\ keys[n] \in Keys
    BY <1>2 DEF Walking
  <2>2. EnsureTable(v, keys[n]) \in Walking(v.doc, Stand(v))
    BY <2>1, EnsureTableWalks
  <2>3. EnsureTable(v, keys[n]) \in S
    BY <2>1, <2>2, WalkingOn, EnsureTableWalks
  <2> QED
    BY <2>3
<1> HIDE DEF S, on, m
<1>5. F \in [S \X (1 .. m) -> S] /\ \A v \in S, n \in 1 .. m : F[<<v, n>>] = on(v, n)
  BY <1>4
<1> HIDE DEF F
<1>6. PICK g \in [0 .. m -> S] : Follows(g, F, w, m)
  BY <1>2, <1>3, <1>5, Recursion
<1>7. g = [n \in 0 .. m |-> IF n = 0 THEN w ELSE on(g[n - 1], n)]
  <2>1. ASSUME NEW n \in 1 .. m PROVE n - 1 \in 0 .. m
    BY <1>2
  <2>2. \A n \in 1 .. m : g[n] = on(g[n - 1], n)
    BY <1>5, <1>6, <2>1 DEF Follows
  <2> QED
    BY <1>2, <1>6, <2>2 DEF Follows
<1>8. walk = [n \in 0 .. m |-> IF n = 0 THEN w ELSE on(walk[n - 1], n)]
  BY <1>7
<1> HIDE DEF walk
<1> DEFINE T == {n \in 0 .. m : walk[n] \in S}
<1>9. 0 \in T
  BY <1>2, <1>3, <1>8
<1>10. ASSUME NEW n \in 1 .. m, n - 1 \in T PROVE n \in T
  <2>1. walk[n] = on(walk[n - 1], n)
    BY <1>2, <1>8
  <2> QED
    BY <1>4, <1>10, <2>1
<1>11. \A n \in 0 .. m : n \in T
  <2> HIDE DEF T
  <2> QED
    BY <1>2, <1>9, <1>10, BoundedInduction
<1> QED
  BY <1>1, <1>2, <1>11 DEF S

--------------------------------------------------------------------------------
(* Values *)

\* What parse_value returns.
Results == [doc : Docs, node : NodeSet, ok : BOOLEAN]

\* Tree e is d with new objects beside it, which hold none of those of d.
Beside(d, e) ==
  /\ IsTree(e) /\ Objects(d) \subseteq Objects(e)
  /\ Same(d, e, Objects(d)) /\ Guarded(e, Objects(d))

\* The value is new, but for scalars, and d is as it was.
Good(d, r) ==
  /\ r \in Results /\ Beside(d, r.doc)
  /\ r.node \notin Objects(d)
  /\ r.ok => Usable(r.doc, r.node) /\ r.node.type # "None"

LEMMA BesideLeaves ==
  ASSUME NEW d, NEW e, Beside(d, e), NEW n, NEW M
  PROVE  Leaves(d, e, n, M)
<1>1. ASSUME NEW m, Free(d, m) PROVE Free(e, m)
  <2>1. m \in Objects(d) /\ m \in Objects(e) \ {Root}
    BY <1>1 DEF Free, Beside
  <2>2. ASSUME NEW p \in Places(e), NodeAt(e, p) = m PROVE FALSE
    <3>1. Owner(p) \in Objects(d)
      BY <2>1, <2>2 DEF Beside, Guarded
    <3>2. p \in Places(d) /\ NodeAt(d, p) = m
      BY <2>2, <3>1 DEF Beside, Same
    <3> QED
      BY <1>1, <3>2 DEF Free
  <2> QED
    BY <2>1, <2>2 DEF Free
<1>2. ASSUME NEW C \in SUBSET Objects(d), Guarded(d, C)
      PROVE  Same(d, e, C) /\ Guarded(e, C)
  <2>1. Same(d, e, C)
    BY DEF Same, Beside
  <2>2. ASSUME NEW p \in Places(e), NodeAt(e, p) \in C PROVE Owner(p) \in C
    <3>1. Owner(p) \in Objects(d)
      BY <2>2 DEF Beside, Guarded
    <3>2. p \in Places(d) /\ NodeAt(d, p) = NodeAt(e, p)
      BY <3>1 DEF Beside, Same
    <3> QED
      BY <1>2, <2>2, <3>2 DEF Guarded
  <2> QED
    BY <2>1, <2>2 DEF Guarded
<1> QED
  BY <1>1, <1>2 DEF Leaves, Beside

LEMMA BesideItself ==
  ASSUME NEW d, IsTree(d)
  PROVE  Beside(d, d)
<1>1. d \in Docs
  BY TreeIs
<1> QED
  BY <1>1, PlaceTypes DEF Beside, Same, Guarded

LEMMA BesideThrough ==
  ASSUME NEW d, NEW e, NEW f, Beside(d, e), Beside(e, f)
  PROVE  Beside(d, f)
<1>1. ASSUME NEW p \in Places(d) \cup Places(f), Owner(p) \in Objects(d)
      PROVE  p \in Places(d) /\ p \in Places(f) /\ NodeAt(f, p) = NodeAt(d, p)
  <2>1. Owner(p) \in Objects(e)
    BY <1>1 DEF Beside
  <2>2. p \in Places(e)
    BY <1>1, <2>1 DEF Beside, Same
  <2> QED
    BY <1>1, <2>1, <2>2 DEF Beside, Same
<1>2. ASSUME NEW p \in Places(f), NodeAt(f, p) \in Objects(d) PROVE Owner(p) \in Objects(d)
  <2>1. Owner(p) \in Objects(e)
    BY <1>2 DEF Beside, Guarded
  <2>2. p \in Places(e) /\ NodeAt(e, p) = NodeAt(f, p)
    BY <2>1 DEF Beside, Same
  <2> QED
    BY <1>2, <2>2 DEF Beside, Guarded
<1> QED
  BY <1>1, <1>2 DEF Beside, Same, Guarded

LEMMA UsableStill ==
  ASSUME NEW d, NEW e, NEW n, NEW M, NEW node, Leaves(d, e, n, M), Usable(d, node), node \notin M
  PROVE  Usable(e, node)
BY DEF Usable, Nodes, Leaves

\* An assignment changes what is at and below the table that it starts at, and puts
\* the value in a place.
LEMMA AssignLeaves ==
  ASSUME NEW value \in Results, IsTree(value.doc),
         NEW w \in Walks, Stand(w) \in Objects(value.doc),
         NEW keys \in Seq(Keys) \ {<<>>}, value.ok => Usable(value.doc, value.node)
  PROVE  LET v == Assign(w, keys, value) IN
         /\ v \in Standing /\ (v.ok => v.at = w.at)
         /\ Leaves(value.doc, v.doc, Stand(w), {value.node})
         /\ \A C \in SUBSET Objects(value.doc) :
              Guarded(value.doc, C) /\ Stand(w) \notin C => Stand(v) \notin C
<1> DEFINE d == value.doc
           from == Walk(d, w.at, value.ok)
           target == Along(EnsureTable, from, keys)
           e == Put(target.doc, target.at, Last(keys), value.node)
           v == Assign(w, keys, value)
<1>1. from \in Standing /\ from.doc = d /\ Stand(from) = Stand(w) /\ from.ok = value.ok
  BY DEF Standing, Walks, Walk, Stand, Results
<1>2. target \in Walking(d, Stand(w)) /\ (target.ok => value.ok)
  BY <1>1, EnsureAlong
<1>3. v = IF target.ok THEN Walk(e, w.at, TRUE) ELSE target
  BY DEF Assign
<1> HIDE DEF target, v
<1>4. target \in Standing /\ Leaves(d, target.doc, Stand(w), {})
  BY <1>2 DEF Walking
<1>5. CASE ~target.ok
  <2>1. Leaves(d, target.doc, Stand(w), {value.node})
    BY <1>4 DEF Leaves
  <2> QED
    BY <1>2, <1>3, <1>4, <1>5, <2>1 DEF Walking, v
<1>6. CASE target.ok
  <2>1. /\ IsTree(target.doc) /\ target.doc \in Docs /\ target.at \in DOMAIN target.doc.tables
        /\ Last(keys) \in Keys
    BY <1>4, TreeIs, ObjectIs DEF Standing, Stand, Last
  <2>2. Usable(target.doc, value.node)
    BY <1>2, <1>4, <1>6, UsableStill
  <2>3. Leaves(target.doc, e, Stand(target), {value.node})
    BY <2>1, <2>2, PutLeaves DEF Stand
  <2> HIDE DEF e
  <2>4. Leaves(d, e, Stand(w), {value.node} \cap Objects(d))
    BY <1>2, <1>4, <2>3, LeavesThrough DEF Walking
  <2>5. Leaves(d, e, Stand(w), {value.node})
    BY <2>4 DEF Leaves
  <2>6. v = Walk(e, w.at, TRUE)
    BY <1>3, <1>6
  <2>7. e \in Docs
    BY <2>5, TreeIs DEF Leaves
  <2>8. v \in Walks /\ v.doc = e /\ Stand(v) = Stand(w) /\ v.at = w.at
    BY <2>6, <2>7 DEF Walk, Walks, Stand
  <2>9. v \in Standing
    BY <2>5, <2>8 DEF Standing, Leaves
  <2> QED
    BY <2>5, <2>8, <2>9 DEF v
<1> QED
  BY <1>5, <1>6

LEMMA BesideAfter ==
  ASSUME NEW d, NEW e, NEW f, NEW n, NEW M, Beside(d, e), Leaves(e, f, n, M),
         n \notin Objects(d), M \cap Objects(d) = {}
  PROVE  Beside(d, f)
<1>1. Objects(d) \in SUBSET Objects(e) /\ Guarded(e, Objects(d)) /\ Same(d, e, Objects(d))
  BY DEF Beside
<1>2. Objects(d) \cap M = {}
  OBVIOUS
<1>3. /\ Same(e, f, Objects(d)) /\ Guarded(f, Objects(d))
      /\ IsTree(f) /\ Objects(e) \subseteq Objects(f)
  BY <1>1, <1>2 DEF Leaves
<1>4. Same(d, f, Objects(d))
  BY <1>1, <1>3, SameThrough
<1> QED
  BY <1>1, <1>3, <1>4 DEF Beside

\* A reader of values, of any depth.
Reader(read) == \A d \in Docs, lit \in Values : IsTree(d) => Good(d, read[d, lit])

\* The entries of an inline table are put into the walk from, one after the other.
EntriesAlong(g, read, from, lit) ==
  /\ g[0] = from
  /\ \A n \in 1 .. Len(lit.keys) :
       g[n] = IF g[n - 1].ok
              THEN Assign(g[n - 1], lit.keys[n], read[g[n - 1].doc, lit.vals[n]])
              ELSE g[n - 1]

\* Walks that fill a new table beside tree d.
Filling(d, table) ==
  {v \in Standing : /\ Beside(d, v.doc) /\ Stand(v) \notin Objects(d) /\ Free(v.doc, table)
                    /\ v.ok => Stand(v) = table}

LEMMA NewTableFills ==
  ASSUME NEW d, IsTree(d), NEW new, new = NewTable(d),
         NEW from, from = Walk(new, Len(new.tables), TRUE)
  PROVE  from \in Filling(d, Stand(from)) /\ Stand(from) \in NodeSet
<1>1. /\ Leaves(d, new, Stand(from), {}) /\ Free(new, Stand(from))
      /\ Stand(from) \notin Objects(d)
  BY NewTableLeaves DEF Stand, Walk
<1>2. Beside(d, new)
  <2>1. Beside(d, d) /\ {} \cap Objects(d) = {}
    BY BesideItself
  <2> QED
    BY <1>1, <2>1, BesideAfter
<1>3. IsTree(new) /\ new \in Docs /\ Stand(from) \in NodeSet
  BY <1>1, <1>2, TreeIs, ObjectIs DEF Beside, Free
<1>4. from \in Standing /\ from.doc = new
  BY <1>1, <1>3 DEF Standing, Walks, Walk, Free, Docs
<1> QED
  BY <1>1, <1>2, <1>3, <1>4 DEF Filling

LEMMA EntriesSteps ==
  ASSUME NEW read, Reader(read), NEW d, IsTree(d), NEW lit \in Values, lit.type = "Table",
         NEW table, NEW from \in Filling(d, table)
  PROVE  \E g : /\ EntriesAlong(g, read, from, lit)
                /\ \A n \in 0 .. Len(lit.keys) : g[n] \in Filling(d, table)
                /\ Entries(read, from, lit) = g[Len(lit.keys)]
<1> DEFINE S == Filling(d, table)
           m == Len(lit.keys)
           on(v, n) == IF v.ok THEN Assign(v, lit.keys[n], read[v.doc, lit.vals[n]]) ELSE v
           entries[n \in 0 .. m] == IF n = 0 THEN from ELSE on(entries[n - 1], n)
           F == [x \in S \X (1 .. m) |-> on(x[1], x[2])]
<1>1. Entries(read, from, lit) = entries[m]
  BY DEF Entries
<1>2. /\ lit.keys \in Seq(Seq(Keys) \ {<<>>}) /\ lit.vals \in Seq(Values)
      /\ Len(lit.keys) = Len(lit.vals)
  BY TomlAssumption
<1>3. m \in Nat /\ \A n \in 1 .. m : lit.keys[n] \in Seq(Keys) \ {<<>>} /\ lit.vals[n] \in Values
  BY <1>2
<1>4. from \in S
  OBVIOUS
<1>5. ASSUME NEW v \in S, NEW n \in 1 .. m PROVE on(v, n) \in S
  <2> DEFINE value == read[v.doc, lit.vals[n]]
             u == Assign(v, lit.keys[n], value)
  <2>1. /\ v \in Walks /\ IsTree(v.doc) /\ v.doc \in Docs /\ Stand(v) \in Objects(v.doc)
        /\ Beside(d, v.doc) /\ Stand(v) \notin Objects(d) /\ Free(v.doc, table)
        /\ v.ok => Stand(v) = table
    BY TreeIs DEF Standing, Filling
  <2>2. Good(v.doc, value)
    BY <1>3, <2>1 DEF Reader
  <2> HIDE DEF value
  <2>3. /\ value \in Results /\ IsTree(value.doc) /\ Stand(v) \in Objects(value.doc)
        /\ value.ok => Usable(value.doc, value.node)
    BY <2>1, <2>2 DEF Good, Beside
  <2>4. /\ u \in Standing /\ (u.ok => u.at = v.at)
        /\ Leaves(value.doc, u.doc, Stand(v), {value.node})
        /\ \A C \in SUBSET Objects(value.doc) :
             Guarded(value.doc, C) /\ Stand(v) \notin C => Stand(u) \notin C
    BY <1>3, <2>1, <2>3, AssignLeaves
  <2> HIDE DEF u
  <2>5. Beside(d, value.doc)
    BY <2>1, <2>2, BesideThrough DEF Good
  <2>6. {value.node} \cap Objects(d) = {}
    BY <2>1, <2>2 DEF Good, Beside
  <2>7. Beside(d, u.doc)
    BY <2>1, <2>4, <2>5, <2>6, BesideAfter
  <2>8. Stand(u) \notin Objects(d)
    BY <2>1, <2>4, <2>5 DEF Beside
  <2>9. Free(u.doc, table)
    <3>1. table \in Objects(v.doc) /\ Free(v.doc, table)
      BY <2>1 DEF Free
    <3>2. Leaves(v.doc, value.doc, Stand(v), {})
      BY <2>2, BesideLeaves DEF Good
    <3>3. Free(value.doc, table) /\ table # value.node
      BY <2>2, <3>1, <3>2 DEF Leaves, Good
    <3> QED
      BY <2>4, <3>3 DEF Leaves
  <2>10. v.ok => u \in S
    BY <2>1, <2>4, <2>7, <2>8, <2>9 DEF Filling, Stand
  <2> QED
    BY <2>10 DEF u, value
<1> HIDE DEF S, on, m
<1>6. F \in [S \X (1 .. m) -> S] /\ \A v \in S, n \in 1 .. m : F[<<v, n>>] = on(v, n)
  BY <1>5
<1> HIDE DEF F
<1>7. PICK g \in [0 .. m -> S] : Follows(g, F, from, m)
  BY <1>3, <1>4, <1>6, Recursion
<1>8. g = [n \in 0 .. m |-> IF n = 0 THEN from ELSE on(g[n - 1], n)]
  <2>1. ASSUME NEW n \in 1 .. m PROVE n - 1 \in 0 .. m
    BY <1>3
  <2>2. \A n \in 1 .. m : g[n] = on(g[n - 1], n)
    BY <1>6, <1>7, <2>1 DEF Follows
  <2> QED
    BY <1>3, <1>7, <2>2 DEF Follows
<1>9. entries = [n \in 0 .. m |-> IF n = 0 THEN from ELSE on(entries[n - 1], n)]
  BY <1>8
<1> HIDE DEF entries
<1> DEFINE T == {n \in 0 .. m : entries[n] \in S}
<1>10. 0 \in T
  BY <1>3, <1>4, <1>9
<1>11. ASSUME NEW n \in 1 .. m, n - 1 \in T PROVE n \in T
  <2>1. n \in 0 .. m /\ n # 0
    BY <1>3
  <2>2. entries[n] = on(entries[n - 1], n)
    BY <1>9, <2>1
  <2> QED
    BY <1>5, <1>11, <2>1, <2>2
<1>12. \A n \in 0 .. m : n \in T
  <2> HIDE DEF T
  <2> QED
    BY <1>3, <1>10, <1>11, BoundedInduction
<1>13. entries[0] = from /\ \A n \in 1 .. m : entries[n] = on(entries[n - 1], n)
  <2>1. ASSUME NEW n \in 1 .. m PROVE entries[n] = on(entries[n - 1], n)
    <3>1. n \in 0 .. m /\ n # 0
      BY <1>3
    <3> QED
      BY <1>9, <3>1
  <2>2. 0 \in 0 .. m
    BY <1>3
  <2> QED
    BY <1>9, <2>1, <2>2
<1>14. EntriesAlong(entries, read, from, lit)
  BY <1>13 DEF EntriesAlong, on, m
<1> QED
  BY <1>1, <1>12, <1>14 DEF S, m

\* An inline table is a new table with new objects below it.
LEMMA EntriesGood ==
  ASSUME NEW read, Reader(read), NEW d, IsTree(d), NEW lit \in Values, lit.type = "Table"
  PROVE  Good(d, Reading(read, d, lit))
<1> DEFINE new == NewTable(d)
           from == Walk(new, Len(new.tables), TRUE)
           w == Entries(read, from, lit)
<1>1. Reading(read, d, lit) = Parsed(w.doc, Stand(from), w.ok)
  BY DEF Reading, Stand, Walk
<1>2. from \in Filling(d, Stand(from)) /\ Stand(from) \in NodeSet
  BY NewTableFills
<1>3. Stand(from) \notin Objects(d)
  BY <1>2 DEF Filling
<1> HIDE DEF from, new
<1>4. PICK g : /\ \A n \in 0 .. Len(lit.keys) : g[n] \in Filling(d, Stand(from))
               /\ w = g[Len(lit.keys)]
  BY <1>2, EntriesSteps
<1>5. w \in Filling(d, Stand(from))
  BY <1>4, TomlAssumption
<1> HIDE DEF w
<1>6. w.doc \in Docs /\ w.ok \in BOOLEAN /\ Beside(d, w.doc) /\ Free(w.doc, Stand(from))
  BY <1>5 DEF Filling, Standing, Walks
<1>7. Usable(w.doc, Stand(from))
  BY <1>2, <1>6 DEF Usable, Nodes, Free
<1>8. Parsed(w.doc, Stand(from), w.ok) \in Results
  BY <1>2, <1>6, Zenon DEF Parsed, Results
<1>9. Stand(from).type # "None"
  BY DEF Stand, Node
<1> QED
  BY <1>1, <1>3, <1>6, <1>7, <1>8, <1>9 DEF Good, Parsed
\* Nodes that can be the elements of a new array.
Elementary(d, nodes) ==
  /\ nodes \in Seq(NodeSet)
  /\ \A i \in DOMAIN nodes : Usable(d, nodes[i]) /\ nodes[i].type # "None"
  /\ \A i, j \in DOMAIN nodes : nodes[i] = nodes[j] /\ IsObject(nodes[i]) => i = j

LEMMA NewArrayLeaves ==
  ASSUME NEW d, IsTree(d), NEW nodes, Elementary(d, nodes), NEW n
  PROVE  LET e == [d EXCEPT !.arrays = Append(@, nodes)]
             new == Node("Array", Len(d.arrays) + 1)
         IN /\ Leaves(d, e, n, Range(nodes))
            /\ Free(e, new) /\ new \in NodeSet \ Objects(d)
<1> DEFINE e == [d EXCEPT !.arrays = Append(@, nodes)]
           a == Len(d.arrays) + 1
           new == Node("Array", a)
           M == Range(nodes)
<1>1. d \in Docs /\ nodes \in Seq(NodeSet)
  BY TreeIs DEF Elementary
<1>2. /\ e \in Docs /\ new \in NodeSet \ Objects(d) /\ Objects(e) = Objects(d) \cup {new}
      /\ \A p \in Places(d) : p \in Places(e) /\ NodeAt(e, p) = NodeAt(d, p)
      /\ \A p \in Places(e) \ Places(d) :
           /\ Owner(p) = new
           /\ \E i \in DOMAIN nodes : p = <<"array", a, i>> /\ NodeAt(e, p) = nodes[i]
  <2>1. e = WithArray(d, nodes) /\ a = Len(d.arrays) + 1 /\ new = Node("Array", a)
    BY DEF WithArray
  <2> HIDE DEF e, a, new
  <2> QED
    BY <1>1, <2>1, NewArrayDoes
<1>3. Root \in Objects(d) /\ new # Root /\ IsObject(new)
  BY <1>2, TreeIs DEF Node, IsObject
<1> HIDE DEF e, new
<1>4. \A i \in DOMAIN nodes :
        /\ nodes[i] # new /\ nodes[i].type # "None"
        /\ IsObject(nodes[i]) => /\ nodes[i] \in Objects(e) \ {Root}
                                 /\ \A q \in Places(d) : NodeAt(d, q) # nodes[i]
  BY <1>2, <1>3 DEF Elementary, Usable, Nodes, Free
<1>5. ASSUME NEW p \in Places(e) \ Places(d)
      PROVE  /\ NodeAt(e, p).type # "None"
             /\ IsObject(NodeAt(e, p)) =>
                  /\ NodeAt(e, p) \in Objects(e) \ {Root}
                  /\ \A q \in Places(d) : NodeAt(d, q) # NodeAt(e, p)
                  /\ \A q \in Places(e) \ Places(d) : NodeAt(e, q) = NodeAt(e, p) => q = p
  <2>1. PICK i \in DOMAIN nodes : p = <<"array", a, i>> /\ NodeAt(e, p) = nodes[i]
    BY <1>2
  <2>2. ASSUME IsObject(NodeAt(e, p)), NEW q \in Places(e) \ Places(d),
               NodeAt(e, q) = NodeAt(e, p)
        PROVE  q = p
    <3>1. PICK j \in DOMAIN nodes : q = <<"array", a, j>> /\ NodeAt(e, q) = nodes[j]
      BY <1>2
    <3> QED
      BY <2>1, <2>2, <3>1 DEF Elementary
  <2> QED
    BY <1>4, <2>1, <2>2
<1>6. IsTree(e)
  <2> DEFINE P == Places(e) \ Places(d)
  <2>1. \A p \in Places(e) \ P :
          \/ p \in Places(d) /\ NodeAt(e, p) = NodeAt(d, p)
          \/ Owner(p).type = "Table" /\ NodeAt(e, p) = NoNode
    BY <1>2
  <2>2. \A p \in Places(e) \cap P :
          /\ Owner(p).type = "Array" => NodeAt(e, p).type # "None"
          /\ IsObject(NodeAt(e, p)) =>
               /\ NodeAt(e, p) \in Objects(e) \ {Root}
               /\ \A q \in Places(d) : NodeAt(d, q) # NodeAt(e, p)
               /\ \A q \in Places(e) \cap P : NodeAt(e, q) = NodeAt(e, p) => q = p
    BY <1>5
  <2>3. e \in Docs /\ Objects(d) \subseteq Objects(e)
    BY <1>2
  <2> HIDE DEF P
  <2> QED
    BY <2>1, <2>2, <2>3, Regrown
<1>7. Leaves(d, e, n, M)
  <2>1. \A p \in Places(e) :
          \/ p \in Places(d) /\ NodeAt(e, p) = NodeAt(d, p)
          \/ /\ Owner(p) = n \/ Owner(p) \notin Objects(d)
             /\ NodeAt(e, p) \in M \/ NodeAt(e, p) \notin Objects(d)
    BY <1>2 DEF Range
  <2>2. Objects(d) \subseteq Objects(e) /\ \A p \in Places(d) : p \in Places(e)
    BY <1>2
  <2> HIDE DEF M
  <2> QED
    BY <1>6, <2>1, <2>2, LeavesWhen
<1>8. ASSUME NEW p \in Places(e), NodeAt(e, p) = new PROVE FALSE
  <2>1. CASE p \in Places(d)
    BY <1>2, <1>3, <1>8, <2>1, TreeIs DEF Nodes
  <2>2. CASE p \notin Places(d)
    BY <1>2, <1>4, <1>8, <2>2
  <2> QED
    BY <2>1, <2>2
<1>9. Free(e, new)
  BY <1>2, <1>3, <1>8 DEF Free
<1> QED
  BY <1>2, <1>7, <1>9 DEF e, new

\* One element more, unless there has been an error.
NextElement(e, value) ==
  IF ~e.ok THEN e
  ELSE [doc |-> value.doc, ok |-> value.ok,
        nodes |-> IF value.ok THEN Append(e.nodes, value.node) ELSE e.nodes]

ElementsAlong(g, read, d, lits) ==
  /\ g[0] = [doc |-> d, nodes |-> <<>>, ok |-> TRUE]
  /\ \A n \in 1 .. Len(lits) : g[n] = NextElement(g[n - 1], read[g[n - 1].doc, lits[n]])

\* The elements so far are new objects, or scalars.
Gathering(d) ==
  {e \in [doc : Docs, nodes : Seq(NodeSet), ok : BOOLEAN] :
     /\ Beside(d, e.doc) /\ Elementary(e.doc, e.nodes)
     /\ \A i \in DOMAIN e.nodes : e.nodes[i] \notin Objects(d)}

LEMMA ElementsSteps ==
  ASSUME NEW read, Reader(read), NEW d, IsTree(d), NEW lit \in Values, lit.type = "Array"
  PROVE  \E g : /\ ElementsAlong(g, read, d, lit.vals)
                /\ \A n \in 0 .. Len(lit.vals) : g[n] \in Gathering(d)
                /\ ReadElements(read, d, lit.vals) = g[Len(lit.vals)]
<1> DEFINE from == [doc |-> d, nodes |-> <<>>, ok |-> TRUE]
           lits == lit.vals
           S == Gathering(d)
           m == Len(lits)
           on(e, n) == NextElement(e, read[e.doc, lits[n]])
           elements[n \in 0 .. m] == IF n = 0 THEN from ELSE on(elements[n - 1], n)
           F == [x \in S \X (1 .. m) |-> on(x[1], x[2])]
<1>1. ReadElements(read, d, lits) = elements[m]
  BY DEF ReadElements, NextElement
<1>2. m \in Nat /\ \A n \in 1 .. m : lits[n] \in Values
  BY TomlAssumption
<1>3. from \in S
  <2>1. d \in Docs /\ Beside(d, d)
    BY TreeIs, BesideItself
  <2>2. Elementary(d, <<>>)
    BY DEF Elementary
  <2> QED
    BY <2>1, <2>2 DEF Gathering
<1>4. ASSUME NEW e \in S, NEW n \in 1 .. m PROVE on(e, n) \in S
  <2> DEFINE value == read[e.doc, lits[n]]
  <2>1. /\ e.doc \in Docs /\ IsTree(e.doc) /\ e.nodes \in Seq(NodeSet) /\ Beside(d, e.doc)
        /\ Elementary(e.doc, e.nodes) /\ \A i \in DOMAIN e.nodes : e.nodes[i] \notin Objects(d)
        /\ e.ok \in BOOLEAN
    BY DEF Beside, Gathering
  <2>2. Good(e.doc, value)
    BY <1>2, <2>1 DEF Reader
  <2> HIDE DEF value
  <2>3. /\ value \in Results /\ Beside(e.doc, value.doc) /\ Beside(d, value.doc)
        /\ value.node \notin Objects(e.doc) /\ value.node \notin Objects(d)
    BY <2>1, <2>2, BesideThrough DEF Good, Beside
  <2>4. Elementary(value.doc, e.nodes)
    <3>1. Leaves(e.doc, value.doc, Root, {})
      BY <2>3, BesideLeaves
    <3> QED
      BY <2>1, <3>1, UsableStill DEF Elementary
  <2>5. CASE e.ok /\ value.ok
    <3> DEFINE nodes == Append(e.nodes, value.node)
               k == Len(e.nodes)
    <3>1. value.node \in NodeSet /\ Usable(value.doc, value.node) /\ value.node.type # "None"
      BY <2>2, <2>3, <2>5 DEF Good, Results
    <3>2. /\ nodes \in Seq(NodeSet) /\ DOMAIN nodes = 1 .. k + 1 /\ DOMAIN e.nodes = 1 .. k
          /\ nodes[k + 1] = value.node /\ \A i \in 1 .. k : nodes[i] = e.nodes[i]
          /\ k \in Nat
      BY <2>1, <3>1
    <3> HIDE DEF nodes, k
    <3>3. \A i \in 1 .. k : IsObject(e.nodes[i]) => e.nodes[i] # value.node
      BY <2>1, <2>3, <3>2 DEF Elementary, Usable, Free
    <3>4. Elementary(value.doc, nodes)
      <4>1. \A i \in 1 .. k + 1 : Usable(value.doc, nodes[i]) /\ nodes[i].type # "None"
        BY <2>4, <3>1, <3>2 DEF Elementary
      <4>2. ASSUME NEW i \in 1 .. k + 1, NEW j \in 1 .. k + 1, nodes[i] = nodes[j],
                   IsObject(nodes[i])
            PROVE  i = j
        <5>1. CASE i \in 1 .. k /\ j \in 1 .. k
          BY <2>4, <3>2, <4>2, <5>1 DEF Elementary
        <5>2. CASE i = k + 1 \/ j = k + 1
          BY <3>2, <3>3, <4>2, <5>2
        <5> QED
          BY <3>2, <5>1, <5>2
      <4> QED
        BY <3>2, <4>1, <4>2 DEF Elementary
    <3>5. \A i \in DOMAIN nodes : nodes[i] \notin Objects(d)
      BY <2>1, <2>3, <3>2
    <3>6. on(e, n) = [doc |-> value.doc, ok |-> value.ok, nodes |-> nodes]
      BY <2>5 DEF value, nodes, NextElement
    <3> HIDE DEF on
    <3> QED
      BY <2>3, <3>2, <3>4, <3>5, <3>6 DEF Results, Gathering
  <2>6. CASE e.ok /\ ~value.ok
    <3>1. on(e, n) = [doc |-> value.doc, ok |-> value.ok, nodes |-> e.nodes]
      BY <2>6 DEF value, NextElement
    <3> HIDE DEF on
    <3> QED
      BY <2>1, <2>3, <2>4, <3>1 DEF Results, Gathering
  <2>7. CASE ~e.ok
    BY <2>7 DEF NextElement
  <2> QED
    BY <2>5, <2>6, <2>7
<1> HIDE DEF S, on, m, from
<1>5. F \in [S \X (1 .. m) -> S] /\ \A v \in S, n \in 1 .. m : F[<<v, n>>] = on(v, n)
  BY <1>4
<1> HIDE DEF F
<1>6. PICK g \in [0 .. m -> S] : Follows(g, F, from, m)
  BY <1>2, <1>3, <1>5, Recursion
<1>7. g = [n \in 0 .. m |-> IF n = 0 THEN from ELSE on(g[n - 1], n)]
  <2>1. ASSUME NEW n \in 1 .. m PROVE n - 1 \in 0 .. m
    BY <1>2
  <2>2. \A n \in 1 .. m : g[n] = on(g[n - 1], n)
    BY <1>5, <1>6, <2>1 DEF Follows
  <2> QED
    BY <1>2, <1>6, <2>2 DEF Follows
<1>8. elements = [n \in 0 .. m |-> IF n = 0 THEN from ELSE on(elements[n - 1], n)]
  BY <1>7
<1> HIDE DEF elements
<1> DEFINE T == {n \in 0 .. m : elements[n] \in S}
<1>9. 0 \in T
  BY <1>2, <1>3, <1>8
<1>10. ASSUME NEW n \in 1 .. m, n - 1 \in T PROVE n \in T
  <2>1. n \in 0 .. m /\ n # 0
    BY <1>2
  <2>2. elements[n] = on(elements[n - 1], n)
    BY <1>8, <2>1
  <2> QED
    BY <1>4, <1>10, <2>1, <2>2
<1>11. \A n \in 0 .. m : n \in T
  <2> HIDE DEF T
  <2> QED
    BY <1>2, <1>9, <1>10, BoundedInduction
<1>12. elements[0] = from /\ \A n \in 1 .. m : elements[n] = on(elements[n - 1], n)
  <2>1. ASSUME NEW n \in 1 .. m PROVE elements[n] = on(elements[n - 1], n)
    <3>1. n \in 0 .. m /\ n # 0
      BY <1>2
    <3> QED
      BY <1>8, <3>1
  <2>2. 0 \in 0 .. m
    BY <1>2
  <2> QED
    BY <1>8, <2>1, <2>2
<1>13. ElementsAlong(elements, read, d, lits)
  BY <1>12 DEF ElementsAlong, on, m, from
<1> QED
  BY <1>1, <1>11, <1>13 DEF S, m

\* An array is a new array of new elements.
LEMMA ElementsGood ==
  ASSUME NEW read, Reader(read), NEW d, IsTree(d), NEW lit \in Values, lit.type = "Array"
  PROVE  Good(d, Reading(read, d, lit))
<1> DEFINE r == ReadElements(read, d, lit.vals)
           array == Node("Array", Len(r.doc.arrays) + 1)
           M == Range(r.nodes)
           f == [r.doc EXCEPT !.arrays = Append(@, r.nodes)]
<1>1. Reading(read, d, lit) = Parsed(f, array, r.ok)
  BY DEF Reading
<1>2. r \in Gathering(d)
  <2>1. PICK g : /\ \A n \in 0 .. Len(lit.vals) : g[n] \in Gathering(d)
                 /\ r = g[Len(lit.vals)]
    BY ElementsSteps
  <2> QED
    BY <2>1, TomlAssumption
<1> HIDE DEF r
<1>3. /\ Beside(d, r.doc) /\ IsTree(r.doc) /\ Elementary(r.doc, r.nodes)
       /\ r.ok \in BOOLEAN /\ M \cap Objects(d) = {}
  BY <1>2 DEF Gathering, Beside, Range
<1>4. Leaves(r.doc, f, array, M) /\ Free(f, array) /\ array \in NodeSet \ Objects(r.doc)
  BY <1>3, NewArrayLeaves
<1> HIDE DEF f, array
<1>5. array \notin Objects(d)
  BY <1>3, <1>4 DEF Beside
<1>6. Beside(d, f)
  BY <1>3, <1>4, <1>5, BesideAfter
<1>7. f \in Docs
  BY <1>6, TreeIs DEF Beside
<1>8. Parsed(f, array, r.ok) \in Results
  BY <1>3, <1>4, <1>7, Zenon DEF Parsed, Results
<1>9. Usable(f, array) /\ array.type # "None"
  <2>1. array.type # "None"
    BY DEF array, Node
  <2> QED
    BY <1>4, <2>1 DEF Usable, Nodes, Free
<1> QED
  BY <1>1, <1>5, <1>6, <1>8, <1>9 DEF Good, Parsed, f

LEMMA ReadingGood ==
  ASSUME NEW read, Reader(read), NEW d, IsTree(d), NEW lit \in Values
  PROVE  Good(d, Reading(read, d, lit))
<1>1. CASE lit.type = "Scalar"
  <2> DEFINE node == Node("Scalar", lit.vals)
  <2>1. d \in Docs /\ lit.vals \in Nat
    BY <1>1, TreeIs, TomlAssumption
  <2>2. node \in NodeSet /\ ~IsObject(node) /\ node.type # "None"
    BY <2>1 DEF Node, NodeSet, IsObject
  <2>3. Reading(read, d, lit) = Parsed(d, node, TRUE)
    BY <1>1 DEF Reading
  <2> HIDE DEF node
  <2>4. node \notin Objects(d) /\ Usable(d, node)
    BY <2>1, <2>2, ObjectIs DEF Usable, Nodes
  <2>5. Parsed(d, node, TRUE) \in Results
    BY <2>1, <2>2 DEF Parsed, Results
  <2> QED
    BY <2>2, <2>3, <2>4, <2>5, BesideItself DEF Good, Parsed
<1>2. CASE lit.type # "Scalar"
  <2>1. lit.type = "Array" \/ lit.type = "Table"
    BY <1>2, TomlAssumption
  <2> QED
    BY <2>1, ElementsGood, EntriesGood
<1> QED
  BY <1>1, <1>2

LEMMA FailedGood ==
  ASSUME NEW d, IsTree(d)
  PROVE  Good(d, Parsed(d, NoNode, FALSE))
<1>1. d \in Docs /\ NoNode \in NodeSet /\ NoNode \notin Objects(d)
  BY TreeIs, ObjectIs DEF NoNode, Node, NodeSet
<1>2. Parsed(d, NoNode, FALSE) \in Results
  BY <1>1 DEF Parsed, Results
<1>3. Parsed(d, NoNode, FALSE).doc = d /\ Parsed(d, NoNode, FALSE).node = NoNode
  BY DEF Parsed
<1>4. ~Parsed(d, NoNode, FALSE).ok
  BY DEF Parsed
<1> QED
  BY <1>1, <1>2, <1>3, <1>4, BesideItself DEF Good

\* A reader of each depth, from the reader of the depth below.
ParseAlong(parse, m) ==
  \A d \in Docs, lit \in Values :
    /\ parse[0][d, lit] = Parsed(d, NoNode, FALSE)
    /\ \A n \in 1 .. m : parse[n][d, lit] = Reading(parse[n - 1], d, lit)

LEMMA ParseSteps ==
  ASSUME NEW d \in Docs, NEW lit \in Values
  PROVE  \E parse : /\ ParseAlong(parse, Depth[lit] + 1)
                    /\ ParseValue(d, lit) = parse[Depth[lit] + 1][d, lit]
<1> DEFINE on(f, n) ==
             [x \in Docs \X Values |->
                IF n = 0 THEN Parsed(x[1], NoNode, FALSE) ELSE Reading(f[n - 1], x[1], x[2])]
           m == Depth[lit] + 1
           parse[n \in 0 .. m] == on(parse, n)
           Def(f, k) == f = [n \in 0 .. k |-> on(f, n)]
           U == {k \in 0 .. m : \E f : Def(f, k)}
<1>1. ParseValue(d, lit) = parse[m][d, lit]
  BY DEF ParseValue
<1>2. m \in Nat
  BY TomlAssumption
<1> HIDE DEF m
<1>3. 0 \in U
  <2> DEFINE g == [n \in 0 .. 0 |-> on(<<>>, 0)]
  <2>1. on(g, 0) = on(<<>>, 0)
    OBVIOUS
  <2> HIDE DEF on
  <2>2. Def(g, 0)
    BY <2>1
  <2> HIDE DEF g, Def
  <2> QED
    BY <1>2, <2>2
<1>4. ASSUME NEW k \in 1 .. m, k - 1 \in U PROVE k \in U
  <2>1. PICK f : Def(f, k - 1)
    <3> HIDE DEF Def
    <3> QED
      BY <1>4
  <2> DEFINE g == [n \in 0 .. k |-> IF n < k THEN f[n] ELSE on(f, k)]
  <2>2. (\A n \in 0 .. k - 1 : g[n] = f[n]) /\ \A n \in 0 .. k - 1 : f[n] = on(f, n)
    <3> HIDE DEF on
    <3> QED
      BY <1>2, <2>1
  <2>3. g[k] = on(f, k)
    <3> HIDE DEF on
    <3> QED
      BY <1>2
  <2> HIDE DEF g
  <2>4. ASSUME NEW n \in 0 .. k PROVE on(g, n) = on(f, n)
    <3>1. CASE n = 0
      BY <3>1
    <3>2. CASE n # 0
      <4>1. n - 1 \in 0 .. k - 1
        BY <1>2, <3>2
      <4>2. g[n - 1] = f[n - 1]
        <5> HIDE DEF on
        <5> QED
          BY <2>2, <4>1
      <4> QED
        BY <3>2, <4>2
    <3> QED
      BY <3>1, <3>2
  <2> HIDE DEF on
  <2>5. ASSUME NEW n \in 0 .. k PROVE g[n] = on(g, n)
    <3>1. n \in 0 .. k - 1 \/ n = k
      BY <1>2
    <3> QED
      BY <2>2, <2>3, <2>4, <3>1
  <2>6. g = [n \in 0 .. k |-> on(g, n)]
    <3>1. g = [n \in 0 .. k |-> g[n]]
      BY DEF g
    <3> QED
      BY <2>5, <3>1
  <2>7. Def(g, k)
    BY <2>6
  <2> HIDE DEF Def
  <2> QED
    BY <1>2, <2>7
<1>5. \E f : Def(f, m)
  <2> HIDE DEF U
  <2>1. m \in U
    BY <1>2, <1>3, <1>4, BoundedInduction
  <2> HIDE DEF Def
  <2> QED
    BY <2>1 DEF U
<1>6. parse = [n \in 0 .. m |-> on(parse, n)]
  <2> HIDE DEF on
  <2> QED
    BY <1>5
<1> HIDE DEF parse
<1>7. ASSUME NEW e \in Docs, NEW l \in Values
      PROVE  /\ parse[0][e, l] = Parsed(e, NoNode, FALSE)
             /\ \A n \in 1 .. m : parse[n][e, l] = Reading(parse[n - 1], e, l)
  <2>1. parse[0][e, l] = Parsed(e, NoNode, FALSE)
    <3>1. parse[0] = on(parse, 0)
      <4> HIDE DEF on
      <4> QED
        BY <1>2, <1>6
    <3>2. on(parse, 0)[e, l] = Parsed(e, NoNode, FALSE)
      OBVIOUS
    <3> QED
      BY <3>1, <3>2
  <2>2. ASSUME NEW n \in 1 .. m PROVE parse[n][e, l] = Reading(parse[n - 1], e, l)
    <3>1. n \in 0 .. m /\ n # 0
      BY <1>2
    <3>2. parse[n] = on(parse, n)
      <4> HIDE DEF on
      <4> QED
        BY <1>6, <3>1
    <3>3. on(parse, n)[e, l] = Reading(parse[n - 1], e, l)
      BY <3>1
    <3> QED
      BY <3>2, <3>3
  <2> QED
    BY <2>1, <2>2
<1>8. ParseAlong(parse, m)
  BY <1>7 DEF ParseAlong
<1> QED
  BY <1>1, <1>8 DEF m

\* parse_value: whatever is in the literal, the value is new and the rest as it was.
LEMMA ParseValueGood ==
  ASSUME NEW d, IsTree(d), NEW lit \in Values
  PROVE  Good(d, ParseValue(d, lit))
<1> DEFINE m == Depth[lit] + 1
<1>1. m \in Nat /\ d \in Docs
  BY TreeIs, TomlAssumption
<1>2. PICK parse : ParseAlong(parse, m) /\ ParseValue(d, lit) = parse[m][d, lit]
  BY <1>1, ParseSteps
<1> HIDE DEF m
<1> DEFINE T == {n \in 0 .. m : Reader(parse[n])}
<1>3. 0 \in T
  <2>1. ASSUME NEW e \in Docs, NEW l \in Values, IsTree(e) PROVE Good(e, parse[0][e, l])
    <3>1. parse[0][e, l] = Parsed(e, NoNode, FALSE)
      BY <1>2 DEF ParseAlong
    <3> QED
      BY <2>1, <3>1, FailedGood
  <2>2. Reader(parse[0])
    BY <2>1 DEF Reader
  <2> QED
    BY <1>1, <2>2
<1>4. ASSUME NEW n \in 1 .. m, n - 1 \in T PROVE n \in T
  <2>1. n \in 0 .. m
    BY <1>1
  <2>2. ASSUME NEW e \in Docs, NEW l \in Values, IsTree(e) PROVE Good(e, parse[n][e, l])
    <3>1. parse[n][e, l] = Reading(parse[n - 1], e, l)
      BY <1>2 DEF ParseAlong
    <3> QED
      BY <1>4, <2>2, <3>1, ReadingGood
  <2>3. Reader(parse[n])
    BY <2>2 DEF Reader
  <2> QED
    BY <2>1, <2>3
<1>5. \A n \in 0 .. m : n \in T
  <2> HIDE DEF T
  <2> QED
    BY <1>1, <1>3, <1>4, BoundedInduction
<1>6. Reader(parse[m])
  BY <1>1, <1>5
<1> QED
  BY <1>1, <1>2, <1>6 DEF Reader

--------------------------------------------------------------------------------
(* What a reader finds *)

\* Segments with any integers as indices.
Segs == [key : Keys, idx : Seq(Int)]

ChildOf(d, node, key) == IF node.type = "Table" THEN Child(d, node.ref, key) ELSE NoNode

LEMMA ChildOfIs ==
  ASSUME NEW d, IsTree(d), NEW node \in Nodes(d), NEW key \in Keys
  PROVE  ChildOf(d, node, key) \in Nodes(d)
<1>1. d \in Docs /\ NoNode \in Nodes(d)
  BY TreeIs DEF Nodes, NoNode, Node, NodeSet, IsObject
<1>2. CASE node.type = "Table"
  <2>1. node = Node("Table", node.ref) /\ node \in Objects(d)
    BY <1>1, <1>2, ObjectIs DEF Nodes, IsObject, NodeSet, Node
  <2>2. node.ref \in DOMAIN d.tables
    BY <1>1, <2>1, ObjectIs
  <2>3. ChildOf(d, node, key) = NodeAt(d, <<"table", node.ref, key>>)
    BY <1>1, <1>2, <2>2, InTable DEF ChildOf, Child
  <2> QED
    BY <1>1, <2>2, <2>3, InTable, TreeIs
<1>3. CASE node.type # "Table"
  BY <1>1, <1>3 DEF ChildOf
<1> QED
  BY <1>2, <1>3

LEMMA ElementIs ==
  ASSUME NEW d, IsTree(d), NEW node \in Nodes(d), NEW i
  PROVE  Element(d, node, i) \in Nodes(d)
<1>1. d \in Docs /\ NoNode \in Nodes(d)
  BY TreeIs DEF Nodes, NoNode, Node, NodeSet, IsObject
<1>2. CASE node.type = "Array" /\ i + 1 \in DOMAIN d.arrays[node.ref]
  <2>1. node = Node("Array", node.ref) /\ node \in Objects(d)
    BY <1>1, <1>2, ObjectIs DEF Nodes, IsObject, NodeSet, Node
  <2>2. node.ref \in DOMAIN d.arrays
    BY <1>1, <2>1, ObjectIs
  <2>3. Element(d, node, i) = NodeAt(d, <<"array", node.ref, i + 1>>)
    BY <1>1, <1>2, <2>2, InArray DEF Element
  <2> QED
    BY <1>1, <1>2, <2>2, <2>3, InArray, TreeIs
<1>3. CASE ~(node.type = "Array" /\ i + 1 \in DOMAIN d.arrays[node.ref])
  BY <1>1, <1>3 DEF Element
<1> QED
  BY <1>2, <1>3

\* The nodes that a reader comes to along the indices of a segment.
Passed(at, d, node, segment) ==
  /\ at[0] = ChildOf(d, node, segment.key)
  /\ \A n \in 1 .. Len(segment.idx) : at[n] = Element(d, at[n - 1], segment.idx[n])

LEMMA SegmentPasses ==
  ASSUME NEW d, IsTree(d), NEW node \in Nodes(d), NEW segment \in Segs
  PROVE  \E at \in [0 .. Len(segment.idx) -> Nodes(d)] :
           Passed(at, d, node, segment) /\ SegmentOf(d, node, segment) = at[Len(segment.idx)]
<1> DEFINE S == Nodes(d)
           child == ChildOf(d, node, segment.key)
           m == Len(segment.idx)
           on(v, n) == Element(d, v, segment.idx[n])
           at[n \in 0 .. m] == IF n > 0 THEN on(at[n - 1], n) ELSE child
           F == [x \in S \X (1 .. m) |-> on(x[1], x[2])]
<1>1. SegmentOf(d, node, segment) = at[m]
  BY DEF SegmentOf, ChildOf
<1>2. m \in Nat /\ segment.key \in Keys
  BY DEF Segs
<1>3. child \in S
  BY <1>2, ChildOfIs
<1>4. ASSUME NEW v \in S, NEW n \in 1 .. m PROVE on(v, n) \in S
  BY ElementIs
<1> HIDE DEF S, on, m, child
<1>5. F \in [S \X (1 .. m) -> S] /\ \A v \in S, n \in 1 .. m : F[<<v, n>>] = on(v, n)
  BY <1>4
<1> HIDE DEF F
<1>6. PICK g \in [0 .. m -> S] : Follows(g, F, child, m)
  BY <1>2, <1>3, <1>5, Recursion
<1>7. g = [n \in 0 .. m |-> IF n > 0 THEN on(g[n - 1], n) ELSE child]
  <2>1. ASSUME NEW n \in 1 .. m PROVE n - 1 \in 0 .. m
    BY <1>2
  <2>2. \A n \in 1 .. m : g[n] = on(g[n - 1], n)
    BY <1>5, <1>6, <2>1 DEF Follows
  <2> QED
    BY <1>2, <1>6, <2>2 DEF Follows
<1>8. at = [n \in 0 .. m |-> IF n > 0 THEN on(at[n - 1], n) ELSE child]
  BY <1>7
<1> HIDE DEF at
<1> DEFINE T == {n \in 0 .. m : at[n] \in S}
<1>9. at[0] = child /\ 0 \in T
  BY <1>2, <1>3, <1>8
<1>10. ASSUME NEW n \in 1 .. m PROVE at[n] = on(at[n - 1], n)
  <2>1. n \in 0 .. m /\ n > 0
    BY <1>2
  <2> QED
    BY <1>8, <2>1
<1>11. ASSUME NEW n \in 1 .. m, n - 1 \in T PROVE n \in T
  BY <1>2, <1>4, <1>10, <1>11
<1>12. \A n \in 0 .. m : n \in T
  <2> HIDE DEF T
  <2> QED
    BY <1>2, <1>9, <1>11, BoundedInduction
<1>13. at \in [0 .. m -> S]
  BY <1>8, <1>12
<1>14. Passed(at, d, node, segment)
  BY <1>9, <1>10 DEF Passed, on, m, child
<1> QED
  BY <1>1, <1>13, <1>14 DEF S, m

\* A segment leads to a child, to an element of it, and in general to some node.
LEMMA SegmentOfIs ==
  ASSUME NEW d, IsTree(d), NEW node \in Nodes(d), NEW segment \in Segs
  PROVE  LET child == ChildOf(d, node, segment.key) IN
         /\ SegmentOf(d, node, segment) \in Nodes(d)
         /\ Len(segment.idx) = 0 => SegmentOf(d, node, segment) = child
         /\ Len(segment.idx) = 1 =>
              SegmentOf(d, node, segment) = Element(d, child, segment.idx[1])
<1>1. PICK at \in [0 .. Len(segment.idx) -> Nodes(d)] :
        Passed(at, d, node, segment) /\ SegmentOf(d, node, segment) = at[Len(segment.idx)]
  BY SegmentPasses
<1>2. Len(segment.idx) \in Nat
  BY DEF Segs
<1>3. at[Len(segment.idx)] \in Nodes(d)
  BY <1>2
<1> QED
  BY <1>1, <1>2, <1>3 DEF Passed

\* The nodes that a reader comes to along a path.
Visited(at, d, path) ==
  /\ at[0] = Root
  /\ \A n \in 1 .. Len(path) : at[n] = SegmentOf(d, at[n - 1], path[n])

LEMMA ResolveVisits ==
  ASSUME NEW d, IsTree(d), NEW path \in Seq(Segs)
  PROVE  \E at \in [0 .. Len(path) -> Nodes(d)] :
           Visited(at, d, path) /\ Resolve(d, path) = at[Len(path)]
<1> DEFINE S == Nodes(d)
           m == Len(path)
           on(v, n) == SegmentOf(d, v, path[n])
           at[n \in 0 .. m] == IF n = 0 THEN Root ELSE on(at[n - 1], n)
           F == [x \in S \X (1 .. m) |-> on(x[1], x[2])]
<1>1. Resolve(d, path) = at[m]
  BY DEF Resolve, Root
<1>2. m \in Nat /\ \A n \in 1 .. m : path[n] \in Segs
  OBVIOUS
<1>3. Root \in S
  BY TreeIs, ObjectIs DEF Nodes
<1>4. ASSUME NEW v \in S, NEW n \in 1 .. m PROVE on(v, n) \in S
  BY <1>2, SegmentOfIs
<1> HIDE DEF S, on, m
<1>5. F \in [S \X (1 .. m) -> S] /\ \A v \in S, n \in 1 .. m : F[<<v, n>>] = on(v, n)
  BY <1>4
<1> HIDE DEF F
<1>6. PICK g \in [0 .. m -> S] : Follows(g, F, Root, m)
  BY <1>2, <1>3, <1>5, Recursion
<1>7. g = [n \in 0 .. m |-> IF n = 0 THEN Root ELSE on(g[n - 1], n)]
  <2>1. ASSUME NEW n \in 1 .. m PROVE n - 1 \in 0 .. m
    BY <1>2
  <2>2. \A n \in 1 .. m : g[n] = on(g[n - 1], n)
    BY <1>5, <1>6, <2>1 DEF Follows
  <2> QED
    BY <1>2, <1>6, <2>2 DEF Follows
<1>8. at = [n \in 0 .. m |-> IF n = 0 THEN Root ELSE on(at[n - 1], n)]
  BY <1>7
<1> HIDE DEF at
<1> DEFINE T == {n \in 0 .. m : at[n] \in S}
<1>9. at[0] = Root /\ 0 \in T
  BY <1>2, <1>3, <1>8
<1>10. ASSUME NEW n \in 1 .. m PROVE at[n] = on(at[n - 1], n)
  <2>1. n \in 0 .. m /\ n # 0
    BY <1>2
  <2> QED
    BY <1>8, <2>1
<1>11. ASSUME NEW n \in 1 .. m, n - 1 \in T PROVE n \in T
  BY <1>2, <1>4, <1>10, <1>11
<1>12. \A n \in 0 .. m : n \in T
  <2> HIDE DEF T
  <2> QED
    BY <1>2, <1>9, <1>11, BoundedInduction
<1>13. at \in [0 .. m -> S]
  BY <1>8, <1>12
<1>14. Visited(at, d, path)
  BY <1>9, <1>10 DEF Visited, on, m
<1> QED
  BY <1>1, <1>13, <1>14 DEF S, m

LEMMA ResolveIs ==
  ASSUME NEW d, IsTree(d), NEW path \in Seq(Segs)
  PROVE  /\ Resolve(d, path) \in Nodes(d)
         /\ Resolve(d, <<>>) = Root
<1>1. Resolve(d, path) \in Nodes(d)
  <2>1. PICK at \in [0 .. Len(path) -> Nodes(d)] :
          Visited(at, d, path) /\ Resolve(d, path) = at[Len(path)]
    BY ResolveVisits
  <2>2. Len(path) \in 0 .. Len(path)
    OBVIOUS
  <2> QED
    BY <2>1, <2>2
<1>2. Resolve(d, <<>>) = Root
  <2>1. <<>> \in Seq(Segs) /\ Len(<<>>) = 0
    OBVIOUS
  <2>2. PICK at \in [0 .. Len(<<>>) -> Nodes(d)] :
          Visited(at, d, <<>>) /\ Resolve(d, <<>>) = at[Len(<<>>)]
    BY <2>1, ResolveVisits
  <2> QED
    BY <2>1, <2>2 DEF Visited
<1> QED
  BY <1>1, <1>2

LEMMA ResolveAppend ==
  ASSUME NEW d, IsTree(d), NEW path \in Seq(Segs), NEW segment \in Segs
  PROVE  Resolve(d, Append(path, segment)) = SegmentOf(d, Resolve(d, path), segment)
<1> DEFINE longer == Append(path, segment)
           m == Len(path)
<1>1. /\ longer \in Seq(Segs) /\ Len(longer) = m + 1 /\ longer[m + 1] = segment /\ m \in Nat
      /\ \A n \in 1 .. m : longer[n] = path[n]
  OBVIOUS
<1> HIDE DEF longer
<1>2. PICK a \in [0 .. Len(path) -> Nodes(d)] :
        Visited(a, d, path) /\ Resolve(d, path) = a[Len(path)]
  BY ResolveVisits
<1>3. PICK b \in [0 .. Len(longer) -> Nodes(d)] :
        Visited(b, d, longer) /\ Resolve(d, longer) = b[Len(longer)]
  BY <1>1, ResolveVisits
<1> HIDE DEF m
<1> DEFINE T == {n \in 0 .. m : a[n] = b[n]}
<1>4. 0 \in T
  BY <1>1, <1>2, <1>3 DEF Visited
<1>5. ASSUME NEW n \in 1 .. m, n - 1 \in T PROVE n \in T
  <2>1. a[n] = SegmentOf(d, a[n - 1], path[n])
    BY <1>2 DEF Visited, m
  <2>2. n \in 1 .. m + 1 /\ n \in 0 .. m
    BY <1>1
  <2>3. b[n] = SegmentOf(d, b[n - 1], path[n])
    BY <1>1, <1>3, <2>2 DEF Visited
  <2> QED
    BY <1>5, <2>1, <2>2, <2>3
<1>6. \A n \in 0 .. m : n \in T
  <2> HIDE DEF T
  <2> QED
    BY <1>1, <1>4, <1>5, BoundedInduction
<1>7. a[m] = b[m]
  BY <1>1, <1>6
<1>8. b[m + 1] = SegmentOf(d, b[m], segment)
  <2>1. m + 1 \in 1 .. m + 1 /\ (m + 1) - 1 = m
    BY <1>1
  <2> QED
    BY <1>1, <1>3, <2>1 DEF Visited
<1> QED
  BY <1>1, <1>2, <1>3, <1>7, <1>8 DEF longer, m

\* The path along one key more.
Further(d, above, key) ==
  LET node == Resolve(d, Append(above, Segment(key, <<>>)))
      idx == IF node.type = "Array" THEN <<Len(d.arrays[node.ref]) - 1>> ELSE <<>>
  IN Append(above, Segment(key, idx))

LEMMA FurtherIs ==
  ASSUME NEW d, IsTree(d), NEW above \in Seq(Segs), NEW key \in Keys
  PROVE  LET child == ChildOf(d, Resolve(d, above), key)
             last == Len(d.arrays[child.ref]) - 1
             path == Further(d, above, key)
         IN /\ path \in Seq(Segs)
            /\ child.type # "Array" =>
                 path = Append(above, Segment(key, <<>>)) /\ Resolve(d, path) = child
            /\ child.type = "Array" =>
                 /\ path = Append(above, Segment(key, <<last>>))
                 /\ Resolve(d, path) = Element(d, child, last)
<1> DEFINE node == Resolve(d, above)
           child == ChildOf(d, node, key)
           last == Len(d.arrays[child.ref]) - 1
           path == Further(d, above, key)
<1>1. d \in Docs /\ node \in Nodes(d)
  BY TreeIs, ResolveIs
<1>2. child \in Nodes(d)
  BY <1>1, ChildOfIs
<1>3. /\ Segment(key, <<>>) \in Segs /\ Segment(key, <<>>).key = key
      /\ Len(Segment(key, <<>>).idx) = 0
  BY DEF Segment, Segs
<1>4. Resolve(d, Append(above, Segment(key, <<>>))) = child
  <2>1. SegmentOf(d, node, Segment(key, <<>>)) = child
    BY <1>1, <1>3, SegmentOfIs
  <2> QED
    BY <1>3, <2>1, ResolveAppend
<1>5. CASE child.type # "Array"
  <2>1. path = Append(above, Segment(key, <<>>))
    BY <1>4, <1>5 DEF Further
  <2> QED
    BY <1>3, <1>4, <1>5, <2>1
<1>6. CASE child.type = "Array"
  <2>1. path = Append(above, Segment(key, <<last>>))
    BY <1>4, <1>6 DEF Further
  <2>2. last \in Int
    <3>1. child = Node("Array", child.ref) /\ child \in Objects(d)
      BY <1>1, <1>2, <1>6, ObjectIs DEF Nodes, IsObject, NodeSet, Node
    <3>2. child.ref \in DOMAIN d.arrays
      BY <1>1, <3>1, ObjectIs
    <3> QED
      BY <1>1, <3>2 DEF Docs
  <2> HIDE DEF child, last
  <2>3. /\ Segment(key, <<last>>) \in Segs /\ Segment(key, <<last>>).key = key
        /\ Len(Segment(key, <<last>>).idx) = 1 /\ Segment(key, <<last>>).idx[1] = last
    BY <2>2 DEF Segment, Segs
  <2>4. SegmentOf(d, node, Segment(key, <<last>>)) = Element(d, child, last)
    BY <1>1, <2>3, SegmentOfIs DEF child
  <2>5. Resolve(d, path) = Element(d, child, last)
    BY <2>1, <2>3, <2>4, ResolveAppend
  <2> QED
    BY <1>6, <2>1, <2>3, <2>5 DEF child, last
<1> QED
  BY <1>5, <1>6

LEMMA PathAlongIs ==
  ASSUME NEW d, IsTree(d), NEW keys \in Seq(Keys)
  PROVE  /\ PathAlong(d, keys)[0] = <<>>
         /\ \A n \in 0 .. Len(keys) : PathAlong(d, keys)[n] \in Seq(Segs)
         /\ \A n \in 1 .. Len(keys) :
              PathAlong(d, keys)[n] = Further(d, PathAlong(d, keys)[n - 1], keys[n])
<1> DEFINE S == Seq(Segs)
           m == Len(keys)
           on(v, n) == Further(d, v, keys[n])
           path[n \in 0 .. m] == IF n = 0 THEN <<>> ELSE on(path[n - 1], n)
           F == [x \in S \X (1 .. m) |-> on(x[1], x[2])]
<1>1. PathAlong(d, keys) = path
  BY DEF PathAlong, Further
<1>2. m \in Nat /\ \A n \in 1 .. m : keys[n] \in Keys
  OBVIOUS
<1>3. <<>> \in S
  OBVIOUS
<1>4. ASSUME NEW v \in S, NEW n \in 1 .. m PROVE on(v, n) \in S
  BY <1>2, FurtherIs
<1> HIDE DEF S, on, m
<1>5. F \in [S \X (1 .. m) -> S] /\ \A v \in S, n \in 1 .. m : F[<<v, n>>] = on(v, n)
  BY <1>4
<1> HIDE DEF F
<1>6. PICK g \in [0 .. m -> S] : Follows(g, F, <<>>, m)
  BY <1>2, <1>3, <1>5, Recursion
<1>7. g = [n \in 0 .. m |-> IF n = 0 THEN <<>> ELSE on(g[n - 1], n)]
  <2>1. ASSUME NEW n \in 1 .. m PROVE n - 1 \in 0 .. m
    BY <1>2
  <2>2. \A n \in 1 .. m : g[n] = on(g[n - 1], n)
    BY <1>5, <1>6, <2>1 DEF Follows
  <2> QED
    BY <1>2, <1>6, <2>2 DEF Follows
<1>8. path = [n \in 0 .. m |-> IF n = 0 THEN <<>> ELSE on(path[n - 1], n)]
  BY <1>7
<1> HIDE DEF path
<1> DEFINE T == {n \in 0 .. m : path[n] \in S}
<1>9. path[0] = <<>> /\ 0 \in T
  BY <1>2, <1>3, <1>8
<1>10. ASSUME NEW n \in 1 .. m PROVE path[n] = on(path[n - 1], n)
  <2>1. n \in 0 .. m /\ n # 0
    BY <1>2
  <2> QED
    BY <1>8, <2>1
<1>11. ASSUME NEW n \in 1 .. m, n - 1 \in T PROVE n \in T
  BY <1>2, <1>4, <1>10, <1>11
<1>12. \A n \in 0 .. m : n \in T
  <2> HIDE DEF T
  <2> QED
    BY <1>2, <1>9, <1>11, BoundedInduction
<1> QED
  BY <1>1, <1>9, <1>10, <1>12 DEF S, m, on

--------------------------------------------------------------------------------
(* What is above a node *)

LEMMA SameTable ==
  ASSUME NEW d \in Docs, NEW e \in Docs, NEW C, Same(d, e, C), NEW t \in DOMAIN d.tables,
         Node("Table", t) \in C, NEW k \in Keys
  PROVE  t \in DOMAIN e.tables /\ e.tables[t][k] = d.tables[t][k]
<1> DEFINE p == <<"table", t, k>>
<1>1. p \in Places(d) /\ NodeAt(d, p) = d.tables[t][k] /\ Owner(p) = Node("Table", t)
  BY InTable
<1>2. NodeAt(e, p) = e.tables[t][k]
  BY DEF NodeAt
<1> HIDE DEF p
<1>3. p \in Places(e) /\ NodeAt(e, p) = NodeAt(d, p)
  BY <1>1 DEF Same
<1>4. Node("Table", t) \in Objects(e)
  BY <1>1, <1>3, PlaceTypes
<1> QED
  BY <1>1, <1>2, <1>3, <1>4, ObjectIs

LEMMA SameArray ==
  ASSUME NEW d \in Docs, NEW e \in Docs, NEW C, Same(d, e, C), NEW a \in DOMAIN d.arrays,
         a \in DOMAIN e.arrays, Node("Array", a) \in C
  PROVE  e.arrays[a] = d.arrays[a]
<1>1. d.arrays[a] \in Seq(NodeSet) /\ e.arrays[a] \in Seq(NodeSet)
  BY DEF Docs
<1>2. ASSUME NEW i \in DOMAIN d.arrays[a]
      PROVE  i \in DOMAIN e.arrays[a] /\ e.arrays[a][i] = d.arrays[a][i]
  <2> DEFINE p == <<"array", a, i>>
  <2>1. p \in Places(d) /\ NodeAt(d, p) = d.arrays[a][i] /\ Owner(p) = Node("Array", a)
    BY InArray
  <2>2. NodeAt(e, p) = e.arrays[a][i]
    BY DEF NodeAt
  <2>3. p \in Places(e) => i \in DOMAIN e.arrays[a]
    BY DEF Places
  <2> HIDE DEF p
  <2> QED
    BY <2>1, <2>2, <2>3 DEF Same
<1>3. ASSUME NEW i \in DOMAIN e.arrays[a]
      PROVE  i \in DOMAIN d.arrays[a]
  <2> DEFINE p == <<"array", a, i>>
  <2>1. p \in Places(e) /\ Owner(p) = Node("Array", a)
    BY InArray
  <2>2. p \in Places(d) => i \in DOMAIN d.arrays[a]
    BY DEF Places
  <2> HIDE DEF p
  <2> QED
    BY <2>1, <2>2 DEF Same
<1>4. DOMAIN d.arrays[a] = DOMAIN e.arrays[a]
  BY <1>2, <1>3
<1> QED
  BY <1>1, <1>2, <1>4

\* C is a set of objects that is closed upwards, n is not in it, and all that is above
\* n is.
Safe(d, n, C) ==
  /\ Guarded(d, C) /\ n \in Objects(d) \ C
  /\ n = Root \/ \E p \in Places(d) : NodeAt(d, p) = n /\ Owner(p) \in C

LEMMA SafeDown ==
  ASSUME NEW d, IsTree(d), NEW n, NEW C, Safe(d, n, C), NEW p \in Places(d), Owner(p) = n,
         NodeAt(d, p) \in Objects(d)
  PROVE  Safe(d, NodeAt(d, p), C \cup {n})
<1> DEFINE m == NodeAt(d, p)
<1>1. d \in Docs /\ \A k \in Objects(d) : IsObject(k)
  BY TreeIs, ObjectIs
<1>2. n = Root \/ \E q \in Places(d) : NodeAt(d, q) = n /\ Owner(q) \in C
  BY DEF Safe
<1>3. Guarded(d, C \cup {n})
  <2> SUFFICES ASSUME NEW q \in Places(d), NodeAt(d, q) \in C \cup {n}
               PROVE  Owner(q) \in C \cup {n}
    BY DEF Guarded
  <2>1. CASE NodeAt(d, q) \in C
    BY <2>1 DEF Guarded, Safe
  <2>2. CASE NodeAt(d, q) = n
    <3>1. n # Root /\ IsObject(n)
      BY <1>1, <2>2, TreeIs DEF Safe
    <3>2. PICK r \in Places(d) : NodeAt(d, r) = n /\ Owner(r) \in C
      BY <1>2, <3>1
    <3>3. r = q
      BY <2>2, <3>1, <3>2, TreeIs
    <3> QED
      BY <3>2, <3>3
  <2> QED
    BY <2>1, <2>2
<1>4. m \notin C
  BY DEF Safe, Guarded
<1>5. m # n
  <2> SUFFICES ASSUME m = n PROVE FALSE
    OBVIOUS
  <2>1. n # Root /\ IsObject(n)
    BY <1>1, TreeIs DEF Safe
  <2>2. PICK r \in Places(d) : NodeAt(d, r) = n /\ Owner(r) \in C
    BY <1>2, <2>1
  <2>3. r = p
    BY <2>1, <2>2, TreeIs
  <2> QED
    BY <2>2, <2>3 DEF Safe
<1> QED
  BY <1>3, <1>4, <1>5 DEF Safe

LEMMA SafeAfter ==
  ASSUME NEW d, NEW e, NEW n, NEW M, NEW C \in SUBSET Objects(d), Safe(d, n, C),
         Leaves(d, e, n, M), C \cap M = {}
  PROVE  Safe(e, n, C) /\ Same(d, e, C) /\ C \in SUBSET Objects(e)
<1>1. Same(d, e, C) /\ Guarded(e, C) /\ Objects(d) \subseteq Objects(e)
  BY DEF Leaves, Safe
<1>2. n = Root \/ \E p \in Places(e) : NodeAt(e, p) = n /\ Owner(p) \in C
  BY <1>1 DEF Safe, Same
<1> QED
  BY <1>1, <1>2 DEF Safe

\* The first n keys lead to a node, in every document that is the same above it.
Leads(d, keys, n, node) ==
  \E C \in SUBSET Objects(d) :
    /\ Safe(d, node, C)
    /\ PathAlong(d, keys)[n] \in Seq(SegmentSet)
    /\ \A e \in Docs : IsTree(e) /\ Same(d, e, C) =>
         /\ PathAlong(e, keys)[n] = PathAlong(d, keys)[n]
         /\ Resolve(e, PathAlong(d, keys)[n]) = node

LEMMA LeadsStart ==
  ASSUME NEW d, IsTree(d), NEW keys \in Seq(Keys)
  PROVE  Leads(d, keys, 0, Root)
<1>1. d \in Docs /\ Root \in Objects(d)
  BY TreeIs
<1>2. Safe(d, Root, {})
  BY <1>1 DEF Safe, Guarded
<1>3. ASSUME NEW e, IsTree(e)
      PROVE  PathAlong(e, keys)[0] = <<>> /\ Resolve(e, <<>>) = Root
  <2>1. <<>> \in Seq(Segs)
    OBVIOUS
  <2> QED
    BY <1>3, <2>1, PathAlongIs, ResolveIs
<1>4. <<>> \in Seq(SegmentSet)
  OBVIOUS
<1> QED
  BY <1>2, <1>3, <1>4 DEF Leads

\* One key further, in a document that has changed below the table only: to a table
\* that is there, or to the last element of an array.
LEMMA LeadsOn ==
  ASSUME NEW d, IsTree(d), NEW keys \in Seq(Keys), NEW n \in 1 .. Len(keys), NEW t,
         Leads(d, keys, n - 1, Node("Table", t)), NEW e, Leaves(d, e, Node("Table", t), {}),
         NEW u,
         LET child == Child(e, t, keys[n]) IN
         \/ child = Node("Table", u)
         \/ /\ child.type = "Array" /\ e.arrays[child.ref] # <<>>
            /\ LastElement(e, child.ref) = Node("Table", u)
  PROVE  Leads(e, keys, n, Node("Table", u))
<1> DEFINE key == keys[n]
           child == Child(e, t, key)
           above == PathAlong(d, keys)[n - 1]
           here1 == Node("Table", t)
           there == Node("Table", u)
           p == <<"table", t, key>>
<1>1. PICK C \in SUBSET Objects(d) :
        /\ Safe(d, here1, C) /\ above \in Seq(SegmentSet)
        /\ \A f \in Docs : IsTree(f) /\ Same(d, f, C) =>
             PathAlong(f, keys)[n - 1] = above /\ Resolve(f, above) = here1
  BY DEF Leads
<1>2. Safe(e, here1, C) /\ Same(d, e, C) /\ C \in SUBSET Objects(e)
  <2>1. C \cap {} = {}
    OBVIOUS
  <2> QED
    BY <1>1, <2>1, SafeAfter
<1>3. IsTree(e) /\ e \in Docs /\ t \in DOMAIN e.tables /\ key \in Keys
  <2>1. IsTree(e) /\ e \in Docs
    BY TreeIs DEF Leaves
  <2> QED
    BY <1>2, <2>1, ObjectIs DEF Safe
<1>4. p \in Places(e) /\ NodeAt(e, p) = child /\ Owner(p) = here1 /\ child = e.tables[t][key]
  BY <1>3, InTable DEF Child
<1>5. above \in Seq(Segs)
  <2>1. SegmentSet \subseteq Segs
    BY DEF SegmentSet, Segs
  <2>2. above \in Seq(SegmentSet)
    BY <1>1
  <2> HIDE DEF above
  <2> QED
    BY <2>1, <2>2
<1> HIDE DEF p, child
<1> DEFINE D == C \cup {here1}
<1>6. D \in SUBSET Objects(e)
  BY <1>2 DEF Safe
\* In a document that is the same above the child
<1>7. ASSUME NEW f \in Docs, IsTree(f), Same(e, f, D)
      PROVE  /\ PathAlong(f, keys)[n] = Further(f, above, key)
             /\ ChildOf(f, Resolve(f, above), key) = child
  <2>1. Same(d, f, C)
    <3>1. Same(e, f, C)
      BY <1>7 DEF Same
    <3> QED
      BY <1>2, <3>1, SameThrough
  <2>2. PathAlong(f, keys)[n - 1] = above /\ Resolve(f, above) = here1
    BY <1>1, <1>7, <2>1
  <2>3. f.tables[t][key] = child
    BY <1>3, <1>4, <1>7, SameTable
  <2>4. ChildOf(f, here1, key) = child
    BY <1>3, <2>3 DEF ChildOf, Child, Node
  <2>5. PathAlong(f, keys)[n] = Further(f, above, key)
    BY <1>7, <2>2, PathAlongIs
  <2> QED
    BY <2>2, <2>4, <2>5
<1>8. Same(e, e, D)
  BY DEF Same
<1> HIDE DEF D
<1>9. CASE child = there
  <2>1. there \in Objects(e) /\ child.type # "Array"
    BY <1>3, <1>4, <1>9, TreeIs DEF Nodes, IsObject, Node
  <2>2. Safe(e, there, D)
    BY <1>2, <1>3, <1>4, <1>9, <2>1, SafeDown DEF D
  <2> DEFINE path == Append(above, Segment(key, <<>>))
  <2>3. ASSUME NEW f \in Docs, IsTree(f), Same(e, f, D)
        PROVE  PathAlong(f, keys)[n] = path /\ Resolve(f, path) = there
    <3> DEFINE found == ChildOf(f, Resolve(f, above), key)
    <3>1. found = child /\ found.type # "Array" /\ PathAlong(f, keys)[n] = Further(f, above, key)
      BY <1>7, <1>9, <2>1, <2>3
    <3> HIDE DEF above
    <3>2. found.type # "Array" =>
            /\ Further(f, above, key) = Append(above, Segment(key, <<>>))
            /\ Resolve(f, Further(f, above, key)) = found
      BY <1>3, <1>5, <2>3, FurtherIs
    <3> QED
      BY <1>9, <3>1, <3>2
  <2>4. path \in Seq(SegmentSet)
    BY <1>1, <1>3 DEF Segment, SegmentSet
  <2> HIDE DEF path
  <2>5. PathAlong(e, keys)[n] = path
    BY <1>3, <1>8, <2>3
  <2> QED
    BY <1>6, <2>2, <2>3, <2>4, <2>5 DEF Leads
<1>10. CASE child.type = "Array" /\ e.arrays[child.ref] # <<>>
            /\ LastElement(e, child.ref) = there
  <2> DEFINE a == child.ref
             last == Len(e.arrays[a]) - 1
             q == <<"array", a, last + 1>>
             D2 == D \cup {child}
             path == Append(above, Segment(key, <<last>>))
  <2>1. child = Node("Array", a) /\ child \in Objects(e) /\ a \in DOMAIN e.arrays
    <3>1. child \in Nodes(e)
      BY <1>3, <1>4, TreeIs
    <3>2. child = Node("Array", a) /\ child \in Objects(e)
      BY <1>3, <1>10, <3>1, ObjectIs DEF Nodes, IsObject, NodeSet, Node
    <3> QED
      BY <1>3, <3>2, ObjectIs
  <2>2. Safe(e, child, D)
    BY <1>2, <1>3, <1>4, <2>1, SafeDown DEF D
  <2>3. e.arrays[a] \in Seq(NodeSet) /\ last + 1 \in DOMAIN e.arrays[a] /\ last \in Nat
    <3>1. e.arrays[a] \in Seq(NodeSet) /\ e.arrays[a] # <<>>
      BY <1>3, <1>10, <2>1 DEF Docs
    <3> QED
      BY <3>1
  <2>4. q \in Places(e) /\ NodeAt(e, q) = there /\ Owner(q) = child
    <3>1. e.arrays[a][last + 1] = there
      BY <1>10, <2>3 DEF LastElement, Last
    <3> QED
      BY <1>3, <2>1, <2>3, <3>1, InArray
  <2> HIDE DEF q
  <2>5. there \in Objects(e)
    BY <1>3, <2>4, TreeIs DEF Nodes, IsObject, Node
  <2>6. Safe(e, there, D2)
    BY <1>3, <2>2, <2>4, <2>5, SafeDown
  <2>7. ASSUME NEW f \in Docs, IsTree(f), Same(e, f, D2)
        PROVE  PathAlong(f, keys)[n] = path /\ Resolve(f, path) = there
    <3>1. Same(e, f, D)
      BY <2>7 DEF Same
    <3>2. /\ PathAlong(f, keys)[n] = Further(f, above, key)
          /\ ChildOf(f, Resolve(f, above), key) = child
      BY <1>7, <2>7, <3>1
    <3>3. a \in DOMAIN f.arrays
      <4>1. q \in Places(f)
        BY <2>4, <2>7 DEF Same
      <4>2. child \in Objects(f)
        BY <2>4, <2>7, <4>1, PlaceTypes
      <4> QED
        BY <2>1, <2>7, <4>2, ObjectIs
    <3>4. f.arrays[a] = e.arrays[a]
      <4>1. Node("Array", a) \in D2
        BY <2>1
      <4> QED
        BY <1>3, <2>1, <2>7, <3>3, <4>1, SameArray
    <3>5. Element(f, child, last) = there
      BY <1>10, <2>3, <3>4 DEF Element, LastElement, Last
    <3>6. /\ Further(f, above, key) = path
          /\ Resolve(f, Further(f, above, key)) = Element(f, child, last)
      <4> DEFINE found == ChildOf(f, Resolve(f, above), key)
                 end == Len(f.arrays[found.ref]) - 1
      <4>1. found = child /\ found.type = "Array" /\ end = last
        BY <1>10, <3>2, <3>4
      <4> HIDE DEF above
      <4>2. found.type = "Array" =>
              /\ Further(f, above, key) = Append(above, Segment(key, <<end>>))
              /\ Resolve(f, Further(f, above, key)) = Element(f, found, end)
        BY <1>3, <1>5, <2>7, FurtherIs
      <4> QED
        BY <4>1, <4>2
    <3> QED
      BY <3>2, <3>5, <3>6
  <2>8. path \in Seq(SegmentSet)
    BY <1>1, <1>3, <2>3 DEF Segment, SegmentSet
  <2>9. D2 \in SUBSET Objects(e) /\ Same(e, e, D2)
    BY <1>6, <2>1 DEF Same
  <2> HIDE DEF path, D2
  <2>10. PathAlong(e, keys)[n] = path
    BY <1>3, <2>7, <2>9
  <2> QED
    BY <2>6, <2>7, <2>8, <2>9, <2>10 DEF Leads
<1> QED
  BY <1>9, <1>10 DEF child

--------------------------------------------------------------------------------
(* Headers *)

\* The key leads from the table to another, by itself or through the last element.
LeadsTo(d, t, key, node) ==
  LET child == Child(d, t, key) IN
  \/ child = node
  \/ child.type = "Array" /\ d.arrays[child.ref] # <<>> /\ LastElement(d, child.ref) = node

\* A step of a header's walk.
Stepped(w, key, v) ==
  /\ v \in Standing /\ Leaves(w.doc, v.doc, Stand(w), {}) /\ Keeps(w.doc, v.doc)
  /\ v.ok => w.ok /\ LeadsTo(v.doc, w.at, key, Stand(v))

LEMMA EnsureTableSteps ==
  ASSUME NEW w \in Standing, NEW key \in Keys
  PROVE  Stepped(w, key, EnsureTable(w, key))
<1> DEFINE v == EnsureTable(w, key)
<1>1. /\ v \in Walking(w.doc, Stand(w)) /\ (v.ok => w.ok)
      /\ v.ok => Child(v.doc, w.at, key) = Stand(v)
  BY EnsureTableWalks
<1> HIDE DEF v
<1> QED
  BY <1>1 DEF Stepped, LeadsTo, Walking, Grows, v

LEMMA DescendSteps ==
  ASSUME NEW w \in Standing, NEW key \in Keys
  PROVE  Stepped(w, key, Descend(w, key))
<1> DEFINE v == Descend(w, key)
           d == w.doc
           child == Child(d, w.at, key)
           element == LastElement(d, child.ref)
<1>1. w \in Walks /\ IsTree(d) /\ d \in Docs /\ w.at \in DOMAIN d.tables
  BY TreeIs, ObjectIs DEF Standing, Stand
<1>2. Leaves(d, d, Stand(w), {}) /\ Keeps(d, d)
  BY <1>1, LeavesItself DEF Keeps
<1>3. CASE child.type # "Array"
  BY <1>3, EnsureTableSteps DEF Descend
<1>4. CASE child.type = "Array" /\ d.arrays[child.ref] # <<>> /\ element.type = "Table"
  <2>1. v = [w EXCEPT !.at = element.ref]
    BY <1>4 DEF Descend
  <2>2. child \in Nodes(d)
    <3>1. child = NodeAt(d, <<"table", w.at, key>>) /\ <<"table", w.at, key>> \in Places(d)
      BY <1>1, InTable DEF Child
    <3> QED
      BY <1>1, <3>1, TreeIs
  <2>3. child.ref \in DOMAIN d.arrays
    <3>1. child = Node("Array", child.ref) /\ child \in Objects(d)
      BY <1>1, <1>4, <2>2, ObjectIs DEF Nodes, IsObject, NodeSet, Node
    <3> QED
      BY <1>1, <3>1, ObjectIs
  <2>4. element \in Nodes(d)
    <3> DEFINE a == child.ref
               n == Len(d.arrays[a])
    <3>1. d.arrays[a] \in Seq(NodeSet) /\ n \in DOMAIN d.arrays[a] /\ element = d.arrays[a][n]
      <4>1. d.arrays[a] \in Seq(NodeSet) /\ d.arrays[a] # <<>>
        BY <1>1, <1>4, <2>3 DEF Docs
      <4> QED
        BY <4>1 DEF LastElement, Last
    <3>2. element = NodeAt(d, <<"array", a, n>>) /\ <<"array", a, n>> \in Places(d)
      BY <1>1, <2>3, <3>1, InArray
    <3> QED
      BY <1>1, <3>2, TreeIs
  <2> HIDE DEF child, element
  <2>5. element = Node("Table", element.ref) /\ element \in Objects(d) /\ element.ref \in Nat
    BY <1>1, <1>4, <2>4, ObjectIs DEF Nodes, IsObject, NodeSet, Node
  <2>6. v \in Walks /\ v.doc = d /\ Stand(v) = element /\ v.ok = w.ok
    BY <1>1, <2>1, <2>5 DEF Walks, Stand
  <2>7. LeadsTo(d, w.at, key, element)
    BY <1>4 DEF LeadsTo, child, element
  <2> QED
    BY <1>1, <1>2, <2>5, <2>6, <2>7 DEF Stepped, Standing, v
<1>5. CASE /\ child.type = "Array"
           /\ d.arrays[child.ref] = <<>> \/ element.type # "Table"
  <2>1. v = Failed(w)
    BY <1>5 DEF Descend
  <2>2. v \in Walks /\ v.doc = d /\ Stand(v) = Stand(w) /\ v.ok = FALSE
    BY <1>1, <2>1 DEF Walks, Stand, Failed
  <2> HIDE DEF v
  <2> QED
    BY <1>2, <2>2 DEF Stepped, Standing, v
<1> QED
  BY <1>3, <1>4, <1>5

\* navigate_to_parent: where it ends is where a reader of all keys but the last ends.
LEMMA NavigateLeads ==
  ASSUME NEW d, IsTree(d), NEW keys \in Seq(Keys) \ {<<>>}
  PROVE  LET w == Along(Descend, Walk(d, root, TRUE), keys) IN
         /\ w \in Standing /\ Keeps(d, w.doc)
         /\ w.ok => Leads(w.doc, keys, Len(keys) - 1, Stand(w))
<1> DEFINE from == Walk(d, root, TRUE)
           S == {v \in Standing : Keeps(d, v.doc)}
           m == Len(keys) - 1
           on(v, n) == IF v.ok THEN Descend(v, keys[n]) ELSE v
           walk[n \in 0 .. m] == IF n = 0 THEN from ELSE on(walk[n - 1], n)
           F == [x \in S \X (1 .. m) |-> on(x[1], x[2])]
<1>1. Along(Descend, from, keys) = walk[m]
  BY DEF Along
<1>2. /\ m \in Nat /\ keys \in Seq(Keys)
      /\ \A n \in 1 .. m : keys[n] \in Keys /\ n \in 1 .. Len(keys)
  OBVIOUS
<1>3. from \in S /\ from.doc = d /\ Stand(from) = Root
  <2>1. d \in Docs /\ Root \in Objects(d) /\ root \in Nat
    BY TreeIs DEF root
  <2> QED
    BY <2>1 DEF Standing, Walks, Walk, Stand, Root, Keeps
<1> HIDE DEF from
<1>4. ASSUME NEW v \in S, NEW n \in 1 .. m PROVE on(v, n) \in S
  <2>1. Stepped(v, keys[n], Descend(v, keys[n]))
    BY <1>2, DescendSteps
  <2>2. Descend(v, keys[n]) \in S
    BY <2>1, KeepsThrough DEF Stepped
  <2> QED
    BY <2>2
<1> HIDE DEF S, on, m
<1>5. F \in [S \X (1 .. m) -> S] /\ \A v \in S, n \in 1 .. m : F[<<v, n>>] = on(v, n)
  BY <1>4
<1> HIDE DEF F
<1>6. PICK g \in [0 .. m -> S] : Follows(g, F, from, m)
  BY <1>2, <1>3, <1>5, Recursion
<1>7. g = [n \in 0 .. m |-> IF n = 0 THEN from ELSE on(g[n - 1], n)]
  <2>1. ASSUME NEW n \in 1 .. m PROVE n - 1 \in 0 .. m
    BY <1>2
  <2>2. \A n \in 1 .. m : g[n] = on(g[n - 1], n)
    BY <1>5, <1>6, <2>1 DEF Follows
  <2> QED
    BY <1>2, <1>6, <2>2 DEF Follows
<1>8. walk = [n \in 0 .. m |-> IF n = 0 THEN from ELSE on(walk[n - 1], n)]
  BY <1>7
<1> HIDE DEF walk
<1> DEFINE Arrived(v, n) == v \in S /\ (v.ok => Leads(v.doc, keys, n, Stand(v)))
           T == {n \in 0 .. m : Arrived(walk[n], n)}
<1>9. 0 \in T
  <2>1. Leads(d, keys, 0, Root)
    BY <1>2, LeadsStart
  <2>2. walk[0] = from
    BY <1>2, <1>8
  <2> QED
    BY <1>2, <1>3, <2>1, <2>2
<1>10. ASSUME NEW n \in 1 .. m, n - 1 \in T PROVE n \in T
  <2> DEFINE v == walk[n - 1]
             u == Descend(v, keys[n])
  <2>1. n \in 0 .. m /\ n # 0
    BY <1>2
  <2>2. walk[n] = IF v.ok THEN u ELSE v
    BY <1>8, <2>1 DEF on
  <2>3. v \in S /\ (v.ok => Leads(v.doc, keys, n - 1, Stand(v)))
    BY <1>10
  <2> HIDE DEF v
  <2>4. v \in Standing /\ IsTree(v.doc) /\ keys[n] \in Keys /\ n \in 1 .. Len(keys)
    BY <1>2, <2>3 DEF S, Standing
  <2>5. CASE ~v.ok
    BY <2>1, <2>2, <2>3, <2>5
  <2>6. CASE v.ok
    <3>1. walk[n] = u /\ u \in S
      BY <1>4, <2>2, <2>3, <2>6 DEF on
    <3>2. Stepped(v, keys[n], u)
      BY <2>4, DescendSteps
    <3> HIDE DEF u
    <3>3. ASSUME u.ok PROVE Leads(u.doc, keys, n, Stand(u))
      <4>1. LET child == Child(u.doc, v.at, keys[n]) IN
              \/ child = Node("Table", u.at)
              \/ /\ child.type = "Array" /\ u.doc.arrays[child.ref] # <<>>
                 /\ LastElement(u.doc, child.ref) = Node("Table", u.at)
        BY <3>2, <3>3 DEF Stepped, LeadsTo, Stand
      <4>2. /\ Leads(v.doc, keys, n - 1, Node("Table", v.at))
            /\ Leaves(v.doc, u.doc, Node("Table", v.at), {})
        BY <2>3, <2>6, <3>2 DEF Stepped, Stand
      <4>3. Leads(u.doc, keys, n, Node("Table", u.at))
        BY <1>2, <2>4, <4>1, <4>2, LeadsOn
      <4> QED
        BY <4>3 DEF Stand
    <3> QED
      BY <2>1, <3>1, <3>3
  <2> QED
    BY <2>5, <2>6
<1>11. \A n \in 0 .. m : n \in T
  <2> HIDE DEF T
  <2> QED
    BY <1>2, <1>9, <1>10, BoundedInduction
<1>12. Arrived(walk[m], m)
  BY <1>2, <1>11
<1> QED
  BY <1>1, <1>12 DEF S, m, from


\* A new table at the end of an array.
LEMMA AppendedLeaves ==
  ASSUME NEW d, IsTree(d), NEW a \in DOMAIN d.arrays
  PROVE  LET e == Appended(d, a)
             new == Node("Table", Len(e.tables))
         IN /\ Leaves(d, e, Node("Array", a), {}) /\ Keeps(d, e)
            /\ new \in Objects(e) /\ Len(e.tables) \in Nat
            /\ e.arrays[a] # <<>> /\ LastElement(e, a) = new
<1> DEFINE made == NewTable(d)
           new == Node("Table", Len(made.tables))
           e == Appended(d, a)
           n == Len(d.arrays[a]) + 1
           q == <<"array", a, n>>
<1>1. d \in Docs /\ d.arrays[a] \in Seq(NodeSet)
  BY TreeIs DEF Docs
<1>2. /\ made \in Docs /\ made.arrays = d.arrays
      /\ new \in NodeSet \ Objects(d) /\ Objects(made) = Objects(d) \cup {new}
      /\ \A p \in Places(d) : p \in Places(made) /\ NodeAt(made, p) = NodeAt(d, p)
      /\ \A p \in Places(made) \ Places(d) : Owner(p) = new /\ NodeAt(made, p) = NoNode
  BY <1>1, NewTableDoes
<1>3. IsTree(made) /\ Free(made, new)
  BY NewTableLeaves DEF Leaves
<1>4. new.type = "Table" /\ new # Root /\ NoNode \notin Objects(d)
  BY <1>1, <1>3, ObjectIs DEF Free, Node
<1>5. Len(made.tables) \in Nat
  BY <1>2 DEF Docs
<1>6. e = Pushed(made, a, new)
  BY DEF Appended, Pushed
<1> HIDE DEF e, made
<1>7. new \in NodeSet /\ a \in DOMAIN made.arrays /\ made.arrays[a] = d.arrays[a]
  BY <1>2
<1> HIDE DEF new
<1>8. /\ e \in Docs /\ e.tables = made.tables /\ Objects(e) = Objects(made)
      /\ e.arrays[a] = Append(d.arrays[a], new)
      /\ q \notin Places(made) /\ NodeAt(e, q) = new
      /\ Places(e) = Places(made) \cup {q}
      /\ \A p \in Places(made) : NodeAt(e, p) = NodeAt(made, p)
  BY <1>2, <1>6, <1>7, PushDoes
<1>9. Owner(q) = Node("Array", a)
  BY DEF Owner
<1> HIDE DEF q
<1>10. IsTree(e)
  <2>1. \A p \in Places(e) \ {q} :
          \/ p \in Places(made) /\ NodeAt(e, p) = NodeAt(made, p)
          \/ Owner(p).type = "Table" /\ NodeAt(e, p) = NoNode
    BY <1>8
  <2>2. \A p \in Places(e) \cap {q} :
          /\ Owner(p).type = "Array" => NodeAt(e, p).type # "None"
          /\ IsObject(NodeAt(e, p)) =>
               /\ NodeAt(e, p) \in Objects(e) \ {Root}
               /\ \A r \in Places(made) : NodeAt(made, r) # NodeAt(e, p)
               /\ \A r \in Places(e) \cap {q} : NodeAt(e, r) = NodeAt(e, p) => r = p
    BY <1>3, <1>4, <1>8 DEF Free
  <2>3. Objects(made) \subseteq Objects(e)
    BY <1>8
  <2> QED
    BY <1>3, <1>8, <2>1, <2>2, <2>3, Regrown
<1>11. Leaves(d, e, Node("Array", a), {})
  <2>1. Objects(d) \subseteq Objects(e) /\ \A p \in Places(d) : p \in Places(e)
    BY <1>2, <1>8
  <2>2. ASSUME NEW p \in Places(e)
        PROVE  \/ p \in Places(d) /\ NodeAt(e, p) = NodeAt(d, p)
               \/ /\ Owner(p) = Node("Array", a) \/ Owner(p) \notin Objects(d)
                  /\ NodeAt(e, p) \in {} \/ NodeAt(e, p) \notin Objects(d)
    BY <1>2, <1>4, <1>8, <1>9
  <2> QED
    BY <1>10, <2>1, <2>2, LeavesWhen
<1>12. Keeps(d, e)
  BY <1>2, <1>8 DEF Keeps
<1>13. e.arrays[a] # <<>> /\ LastElement(e, a) = new
  BY <1>1, <1>8 DEF LastElement, Last
<1> QED
  BY <1>2, <1>5, <1>8, <1>11, <1>12, <1>13 DEF new, e

LEMMA AppendElementSteps ==
  ASSUME NEW w \in Standing, NEW key \in Keys
  PROVE  Stepped(w, key, AppendElement(w, key))
<1> DEFINE v == AppendElement(w, key)
           d == w.doc
           t == w.at
           child == Child(d, t, key)
           place == <<"table", t, key>>
<1>1. w \in Walks /\ IsTree(d) /\ d \in Docs /\ t \in DOMAIN d.tables
  BY TreeIs, ObjectIs DEF Standing, Stand
<1>2. /\ child = d.tables[t][key] /\ child \in Nodes(d)
      /\ place \in Places(d) /\ NodeAt(d, place) = child
      /\ \A C \in SUBSET Objects(d) : Guarded(d, C) /\ Stand(w) \notin C => child \notin C
  <2>1. child = d.tables[t][key]
    BY DEF Child
  <2>2. child = NodeAt(d, place) /\ place \in Places(d)
    BY <1>1, <2>1, InTable
  <2>3. child \in Nodes(d)
    BY <1>1, <2>2, TreeIs
  <2> HIDE DEF child
  <2>4. \A C : Guarded(d, C) /\ Stand(w) \notin C => child \notin C
    BY <1>1, <2>1, Below DEF Stand
  <2> QED
    BY <2>1, <2>2, <2>3, <2>4
\* The walk ends at the last element of an array under the key.
<1>3. ASSUME NEW f, IsTree(f), NEW a \in DOMAIN f.arrays, Leaves(d, f, Stand(w), {}), Keeps(d, f),
             \A C \in SUBSET Objects(d) :
               Guarded(d, C) /\ Stand(w) \notin C => Node("Array", a) \notin C,
             place \in Places(f), NodeAt(f, place) = Node("Array", a),
             v = Walk(Appended(f, a), Len(Appended(f, a).tables), w.ok)
      PROVE  Stepped(w, key, v)
  <2> DEFINE e == Appended(f, a)
             new == Node("Table", Len(e.tables))
  <2>1. /\ Leaves(f, e, Node("Array", a), {}) /\ Keeps(f, e)
        /\ new \in Objects(e) /\ Len(e.tables) \in Nat
        /\ e.arrays[a] # <<>> /\ LastElement(e, a) = new
    BY <1>3, AppendedLeaves
  <2> HIDE DEF e, v
  <2>2. Leaves(d, e, Stand(w), {} \cap Objects(d))
    BY <1>3, <2>1, LeavesThrough
  <2>3. Leaves(d, e, Stand(w), {})
    BY <2>2
  <2>4. Keeps(d, e)
    BY <1>3, <2>1, KeepsThrough
  <2>5. IsTree(e) /\ e \in Docs
    BY <2>3, TreeIs DEF Leaves
  <2>6. v = Walk(e, Len(e.tables), w.ok)
    BY <1>3 DEF e
  <2>7. v \in Walks /\ v.doc = e /\ Stand(v) = new /\ v.ok = w.ok
    BY <1>1, <2>1, <2>5, <2>6 DEF Walk, Walks, Stand
  <2>8. Child(e, t, key) = Node("Array", a)
    <3>1. NodeAt(e, place) = Node("Array", a)
      BY <1>3, <2>1 DEF Keeps, Node
    <3> QED
      BY <3>1 DEF NodeAt, Child
  <2>9. LeadsTo(e, t, key, new)
    BY <2>1, <2>8 DEF LeadsTo, Node
  <2> QED
    BY <2>1, <2>3, <2>4, <2>5, <2>7, <2>9 DEF Stepped, Standing
<1>4. CASE child.type = "None"
  <2> DEFINE made == [d EXCEPT !.arrays = Append(@, <<>>)]
             a == Len(d.arrays) + 1
             new == Node("Array", a)
             f == Put(made, t, key, new)
  <2>1. /\ Len(made.arrays) = a /\ made \in Docs
        /\ \A p \in Places(d) : p \in Places(made) /\ NodeAt(made, p) = NodeAt(d, p)
    <3> DEFINE nodes == <<>>
    <3>1. /\ nodes \in Seq(NodeSet) /\ made = WithArray(d, nodes)
          /\ a = Len(d.arrays) + 1 /\ new = Node("Array", a)
      BY DEF WithArray
    <3> HIDE DEF nodes, made, a, new
    <3> QED
      BY <1>1, <3>1, NewArrayDoes
  <2>2. Leaves(d, made, Stand(w), {}) /\ Free(made, new) /\ new \in NodeSet \ Objects(d)
    <3>1. Elementary(d, <<>>) /\ Range(<<>>) = {}
      BY DEF Elementary, Range
    <3>2. /\ Leaves(d, made, Stand(w), Range(<<>>)) /\ Free(made, new)
          /\ new \in NodeSet \ Objects(d)
      BY <1>1, <3>1, NewArrayLeaves
    <3> QED
      BY <3>1, <3>2
  <2>3. v = Walk(Appended(f, a), Len(Appended(f, a).tables), w.ok)
    BY <1>4, <2>1 DEF AppendElement
  <2> HIDE DEF made, v, child
  <2>4. Usable(made, new)
    BY <2>2 DEF Usable, Nodes, Free
  <2>5. IsTree(made) /\ t \in DOMAIN made.tables
    <3>1. IsTree(made) /\ Stand(w) \in Objects(made)
      BY <2>2 DEF Leaves, Standing
    <3> QED
      BY <2>1, <3>1, ObjectIs DEF Stand
  <2>6. Leaves(made, f, Stand(w), {new})
    BY <2>4, <2>5, PutLeaves DEF Stand
  <2>7. /\ Objects(f) = Objects(made) /\ Places(f) = Places(made) /\ NodeAt(f, place) = new
        /\ f \in Docs /\ \A p \in Places(made) : p # place => NodeAt(f, p) = NodeAt(made, p)
    BY <2>1, <2>2, <2>5, PutDoes
  <2> HIDE DEF f, a
  <2>8. Leaves(d, f, Stand(w), {new} \cap Objects(d))
    BY <2>2, <2>6, LeavesThrough
  <2>9. Leaves(d, f, Stand(w), {}) /\ IsTree(f)
    <3>1. {new} \cap Objects(d) = {}
      BY <2>2
    <3>2. Leaves(d, f, Stand(w), {})
      BY <2>8, <3>1
    <3> QED
      BY <3>2 DEF Leaves
  <2>10. Keeps(d, f)
    BY <1>2, <1>4, <2>1, <2>7 DEF Keeps
  <2>11. a \in DOMAIN f.arrays
    BY <2>2, <2>7, ObjectIs DEF Free
  <2>12. \A C \in SUBSET Objects(d) : Guarded(d, C) /\ Stand(w) \notin C => new \notin C
    BY <2>2
  <2>13. place \in Places(f)
    BY <1>2, <2>1, <2>7
  <2> QED
    BY <1>3, <2>3, <2>7, <2>9, <2>10, <2>11, <2>12, <2>13 DEF v, new
<1>5. CASE child.type = "Array"
  <2> DEFINE a == child.ref
  <2>1. v = Walk(Appended(d, a), Len(Appended(d, a).tables), w.ok)
    BY <1>4, <1>5 DEF AppendElement
  <2> HIDE DEF v, child
  <2>2. child = Node("Array", a) /\ a \in DOMAIN d.arrays
    <3>1. child = Node("Array", child.ref) /\ child \in Objects(d)
      BY <1>1, <1>2, <1>5, ObjectIs DEF Nodes, IsObject, NodeSet, Node
    <3> QED
      BY <1>1, <3>1, ObjectIs
  <2>3. Leaves(d, d, Stand(w), {}) /\ Keeps(d, d)
    BY <1>1, LeavesItself DEF Keeps
  <2> QED
    BY <1>1, <1>2, <1>3, <2>1, <2>2, <2>3 DEF v
<1>6. CASE child.type \notin {"None", "Array"}
  <2>1. v = Failed(w)
    BY <1>6 DEF AppendElement
  <2>2. v \in Walks /\ v.doc = d /\ Stand(v) = Stand(w) /\ v.ok = FALSE
    BY <1>1, <2>1 DEF Walks, Stand, Failed
  <2>3. Leaves(d, d, Stand(w), {}) /\ Keeps(d, d)
    BY <1>1, LeavesItself DEF Keeps
  <2> HIDE DEF v
  <2> QED
    BY <2>2, <2>3 DEF Stepped, Standing, v
<1> QED
  BY <1>4, <1>5, <1>6

--------------------------------------------------------------------------------
(* What paths denote when a document changes *)

\* A set that holds the empty sequence, and with each sequence all that are longer by
\* one element, holds all.
LEMMA SequenceInduction ==
  ASSUME NEW S, NEW T, <<>> \in T,
         \A s \in Seq(S), x \in S : s \in T => Append(s, x) \in T
  PROVE  \A s \in Seq(S) : s \in T
<1> DEFINE U == {n \in Nat : \A s \in Seq(S) : Len(s) = n => s \in T}
<1>1. 0 \in U
  <2>1. \A s \in Seq(S) : Len(s) = 0 => s = <<>>
    BY EmptySeq
  <2> QED
    BY <2>1
<1>2. ASSUME NEW n \in Nat, n \in U PROVE n + 1 \in U
  <2>1. ASSUME NEW s \in Seq(S), Len(s) = n + 1 PROVE s \in T
    <3>1. s # <<>>
      BY <2>1
    <3>2. PICK t \in Seq(S), x \in S : s = Append(t, x)
      BY <3>1, SequenceEmptyOrAppend
    <3>3. Len(t) = n
      BY <2>1, <3>2
    <3> QED
      BY <1>2, <3>2, <3>3
  <2> QED
    BY <2>1
<1> HIDE DEF U
<1>3. \A n \in Nat : n \in U
  BY <1>1, <1>2, Induction
<1> QED
  BY <1>3 DEF U

\* One index after the other.
LEMMA SegmentAppend ==
  ASSUME NEW d, IsTree(d), NEW node \in Nodes(d), NEW key \in Keys, NEW idx \in Seq(Int)
  PROVE  /\ SegmentOf(d, node, Segment(key, <<>>)) = ChildOf(d, node, key)
         /\ \A i \in Int : SegmentOf(d, node, Segment(key, Append(idx, i))) =
                             Element(d, SegmentOf(d, node, Segment(key, idx)), i)
<1>1. SegmentOf(d, node, Segment(key, <<>>)) = ChildOf(d, node, key)
  <2> DEFINE segment == Segment(key, <<>>)
  <2>1. segment \in Segs /\ segment.key = key /\ Len(segment.idx) = 0
    BY DEF Segment, Segs
  <2> HIDE DEF segment
  <2>2. SegmentOf(d, node, segment) = ChildOf(d, node, key)
    BY <2>1, SegmentOfIs
  <2> QED
    BY <2>2 DEF segment
<1>2. ASSUME NEW i \in Int
      PROVE  SegmentOf(d, node, Segment(key, Append(idx, i))) =
               Element(d, SegmentOf(d, node, Segment(key, idx)), i)
  <2> DEFINE shorter == Segment(key, idx)
             longer == Segment(key, Append(idx, i))
             m == Len(idx)
  <2>1. /\ shorter \in Segs /\ shorter.key = key /\ shorter.idx = idx
        /\ longer \in Segs /\ longer.key = key /\ longer.idx = Append(idx, i)
    BY DEF Segment, Segs
  <2>2. /\ m \in Nat /\ Len(longer.idx) = m + 1 /\ longer.idx[m + 1] = i
        /\ \A n \in 1 .. m : longer.idx[n] = idx[n]
    BY <2>1
  <2> HIDE DEF shorter, longer
  <2>3. PICK a \in [0 .. Len(shorter.idx) -> Nodes(d)] :
          Passed(a, d, node, shorter) /\ SegmentOf(d, node, shorter) = a[Len(shorter.idx)]
    BY <2>1, SegmentPasses
  <2>4. PICK b \in [0 .. Len(longer.idx) -> Nodes(d)] :
          Passed(b, d, node, longer) /\ SegmentOf(d, node, longer) = b[Len(longer.idx)]
    BY <2>1, SegmentPasses
  <2> HIDE DEF m
  <2> DEFINE T == {n \in 0 .. m : a[n] = b[n]}
  <2>5. 0 \in T
    BY <2>1, <2>2, <2>3, <2>4 DEF Passed
  <2>6. ASSUME NEW n \in 1 .. m, n - 1 \in T PROVE n \in T
    <3>1. a[n] = Element(d, a[n - 1], idx[n])
      BY <2>1, <2>3 DEF Passed, m
    <3>2. n \in 1 .. m + 1 /\ n \in 0 .. m
      BY <2>2
    <3>3. b[n] = Element(d, b[n - 1], idx[n])
      BY <2>2, <2>4, <3>2 DEF Passed
    <3> QED
      BY <2>6, <3>1, <3>2, <3>3
  <2>7. \A n \in 0 .. m : n \in T
    <3> HIDE DEF T
    <3> QED
      BY <2>2, <2>5, <2>6, BoundedInduction
  <2>8. a[m] = b[m]
    BY <2>2, <2>7
  <2>9. b[m + 1] = Element(d, b[m], i)
    <3>1. m + 1 \in 1 .. m + 1 /\ (m + 1) - 1 = m
      BY <2>2
    <3> QED
      BY <2>2, <2>4, <3>1 DEF Passed
  <2> QED
    BY <2>1, <2>2, <2>3, <2>4, <2>8, <2>9 DEF shorter, longer, m
<1> QED
  BY <1>1, <1>2

LEMMA SegmentParts ==
  ASSUME NEW segment \in Segs
  PROVE  segment = Segment(segment.key, segment.idx) /\ segment.key \in Keys
         /\ segment.idx \in Seq(Int)
BY DEF Segs, Segment

\* Where a child or an element is.
LEMMA ChildPlace ==
  ASSUME NEW d, IsTree(d), NEW node \in Nodes(d), NEW key \in Keys,
         ChildOf(d, node, key).type # "None"
  PROVE  /\ <<"table", node.ref, key>> \in Places(d)
         /\ NodeAt(d, <<"table", node.ref, key>>) = ChildOf(d, node, key)
         /\ node = Node("Table", node.ref) /\ node.ref \in DOMAIN d.tables
<1>1. d \in Docs
  BY TreeIs
<1>2. node.type = "Table"
  BY DEF ChildOf, NoNode, Node
<1>3. node = Node("Table", node.ref) /\ node \in Objects(d)
  BY <1>1, <1>2, ObjectIs DEF Nodes, IsObject, NodeSet, Node
<1>4. node.ref \in DOMAIN d.tables
  BY <1>1, <1>3, ObjectIs
<1> QED
  BY <1>1, <1>2, <1>3, <1>4, InTable DEF ChildOf, Child

LEMMA ElementPlace ==
  ASSUME NEW d, IsTree(d), NEW node \in Nodes(d), NEW i, Element(d, node, i).type # "None"
  PROVE  /\ <<"array", node.ref, i + 1>> \in Places(d)
         /\ NodeAt(d, <<"array", node.ref, i + 1>>) = Element(d, node, i)
         /\ node = Node("Array", node.ref) /\ node.ref \in DOMAIN d.arrays
         /\ i + 1 \in DOMAIN d.arrays[node.ref]
<1>1. d \in Docs
  BY TreeIs
<1>2. node.type = "Array" /\ i + 1 \in DOMAIN d.arrays[node.ref]
  BY DEF Element, NoNode, Node
<1>3. node = Node("Array", node.ref) /\ node \in Objects(d)
  BY <1>1, <1>2, ObjectIs DEF Nodes, IsObject, NodeSet, Node
<1>4. node.ref \in DOMAIN d.arrays
  BY <1>1, <1>3, ObjectIs
<1> QED
  BY <1>1, <1>2, <1>3, <1>4, InArray DEF Element

\* A segment leads to a node in a place, and from a table only.
LEMMA SegmentFrom ==
  ASSUME NEW d, IsTree(d), NEW node \in Nodes(d), NEW segment \in Segs,
         SegmentOf(d, node, segment).type # "None"
  PROVE  /\ node.type = "Table"
         /\ \E p \in Places(d) : NodeAt(d, p) = SegmentOf(d, node, segment)
<1> DEFINE key == segment.key
           at(idx) == SegmentOf(d, node, Segment(key, idx))
           Fine(n) == n.type # "None" =>
                        node.type = "Table" /\ \E p \in Places(d) : NodeAt(d, p) = n
           T == {idx \in Seq(Int) : Fine(at(idx))}
<1>1. key \in Keys /\ segment.idx \in Seq(Int) /\ segment = Segment(key, segment.idx)
  BY SegmentParts
<1> HIDE DEF key
<1>2. <<>> \in T
  <2>1. at(<<>>) = ChildOf(d, node, key)
    BY <1>1, SegmentAppend
  <2>2. ChildOf(d, node, key).type # "None" =>
          /\ node = Node("Table", node.ref)
          /\ \E p \in Places(d) : NodeAt(d, p) = ChildOf(d, node, key)
    BY <1>1, ChildPlace
  <2>3. node = Node("Table", node.ref) => node.type = "Table"
    BY DEF Node
  <2> HIDE DEF at
  <2> QED
    BY <2>1, <2>2, <2>3
<1>3. ASSUME NEW idx \in Seq(Int), NEW i \in Int, idx \in T PROVE Append(idx, i) \in T
  <2>1. at(Append(idx, i)) = Element(d, at(idx), i)
    BY <1>1, SegmentAppend
  <2>2. at(idx) \in Nodes(d)
    <3>1. Segment(key, idx) \in Segs
      BY <1>1 DEF Segment, Segs
    <3> QED
      BY <3>1, SegmentOfIs
  <2> HIDE DEF at
  <2>3. Element(d, at(idx), i).type # "None" =>
          /\ at(idx) = Node("Array", at(idx).ref)
          /\ \E p \in Places(d) : NodeAt(d, p) = Element(d, at(idx), i)
    BY <2>2, ElementPlace
  <2>4. at(idx) = Node("Array", at(idx).ref) => at(idx).type # "None"
    BY DEF Node
  <2> QED
    BY <1>3, <2>1, <2>3, <2>4
<1>4. \A idx \in Seq(Int) : idx \in T
  <2> HIDE DEF T
  <2> QED
    BY <1>2, <1>3, SequenceInduction
<1>5. Fine(at(segment.idx))
  BY <1>1, <1>4
<1> QED
  BY <1>1, <1>5

\* What is found stays found where everything in a place stays there.
LEMMA SegmentKeeps ==
  ASSUME NEW d, IsTree(d), NEW e, IsTree(e), Keeps(d, e),
         NEW node \in Nodes(d), node \in Nodes(e),
         NEW segment \in Segs, SegmentOf(d, node, segment).type # "None"
  PROVE  SegmentOf(e, node, segment) = SegmentOf(d, node, segment)
<1> DEFINE key == segment.key
           at(f, idx) == SegmentOf(f, node, Segment(key, idx))
           T == {idx \in Seq(Int) : at(d, idx).type # "None" => at(e, idx) = at(d, idx)}
<1>1. key \in Keys /\ segment.idx \in Seq(Int) /\ segment = Segment(key, segment.idx)
  BY SegmentParts
<1>2. <<>> \in Seq(Int) /\ d \in Docs /\ e \in Docs
  BY TreeIs
<1> HIDE DEF key
<1>3. <<>> \in T
  <2>1. at(d, <<>>) = ChildOf(d, node, key) /\ at(e, <<>>) = ChildOf(e, node, key)
    BY <1>1, <1>2, SegmentAppend
  <2> HIDE DEF at
  <2>2. ASSUME ChildOf(d, node, key).type # "None"
        PROVE  ChildOf(e, node, key) = ChildOf(d, node, key)
    <3> DEFINE p == <<"table", node.ref, key>>
    <3>1. /\ p \in Places(d) /\ NodeAt(d, p) = ChildOf(d, node, key)
          /\ node = Node("Table", node.ref)
      BY <1>1, <2>2, ChildPlace
    <3>2. NodeAt(e, p) = NodeAt(d, p)
      BY <2>2, <3>1 DEF Keeps
    <3>3. node.type = "Table"
      BY <3>1 DEF Node
    <3>4. ChildOf(e, node, key) = NodeAt(e, p)
      BY <1>1, <3>3 DEF ChildOf, Child, NodeAt
    <3> QED
      BY <3>1, <3>2, <3>4
  <2> QED
    BY <1>2, <2>1, <2>2
<1>4. ASSUME NEW idx \in Seq(Int), NEW i \in Int, idx \in T PROVE Append(idx, i) \in T
  <2>1. /\ at(d, Append(idx, i)) = Element(d, at(d, idx), i)
        /\ at(e, Append(idx, i)) = Element(e, at(e, idx), i)
    BY <1>1, SegmentAppend
  <2>2. at(d, idx) \in Nodes(d)
    <3>1. Segment(key, idx) \in Segs
      BY <1>1 DEF Segment, Segs
    <3> QED
      BY <3>1, SegmentOfIs
  <2> HIDE DEF at
  <2>3. ASSUME Element(d, at(d, idx), i).type # "None"
        PROVE  Element(e, at(e, idx), i) = Element(d, at(d, idx), i)
    <3> DEFINE array == at(d, idx)
               p == <<"array", array.ref, i + 1>>
    <3>1. /\ p \in Places(d) /\ NodeAt(d, p) = Element(d, array, i)
          /\ array = Node("Array", array.ref)
      BY <2>2, <2>3, ElementPlace
    <3>2. p \in Places(e) /\ NodeAt(e, p) = NodeAt(d, p)
      BY <2>3, <3>1 DEF Keeps
    <3>3. array.type = "Array"
      BY <3>1 DEF Node
    <3>4. array.ref \in DOMAIN e.arrays /\ i + 1 \in DOMAIN e.arrays[array.ref]
      BY <3>2 DEF Places
    <3>5. Element(e, array, i) = NodeAt(e, p)
      BY <3>3, <3>4 DEF Element, NodeAt
    <3>6. at(e, idx) = array
      BY <1>4, <3>3
    <3> QED
      BY <3>1, <3>2, <3>5, <3>6
  <2> QED
    BY <2>1, <2>3
<1>5. \A idx \in Seq(Int) : idx \in T
  <2> HIDE DEF T
  <2> QED
    BY <1>3, <1>4, SequenceInduction
<1> QED
  BY <1>1, <1>5


--------------------------------------------------------------------------------
(* Reading from any node *)

\* Where F leads from a along a sequence.
Folded(F, a, s) ==
  LET at[n \in 0 .. Len(s)] == IF n = 0 THEN a ELSE F[<<at[n - 1], s[n]>>]
  IN at[Len(s)]

FoldedThrough(at, F, a, s) ==
  at[0] = a /\ \A n \in 1 .. Len(s) : at[n] = F[<<at[n - 1], s[n]>>]

Leading(F, S, X) == F \in [S \X X -> S]

LEMMA FoldedPasses ==
  ASSUME NEW S, NEW X, NEW F, Leading(F, S, X), NEW a \in S, NEW s \in Seq(X)
  PROVE  \E at \in [0 .. Len(s) -> S] : FoldedThrough(at, F, a, s) /\ Folded(F, a, s) = at[Len(s)]
<1> DEFINE m == Len(s)
           on(v, n) == F[<<v, s[n]>>]
           at[n \in 0 .. m] == IF n = 0 THEN a ELSE on(at[n - 1], n)
           G == [x \in S \X (1 .. m) |-> on(x[1], x[2])]
<1>1. Folded(F, a, s) = at[m]
  BY DEF Folded
<1>2. m \in Nat /\ \A n \in 1 .. m : s[n] \in X
  OBVIOUS
<1>3. ASSUME NEW v \in S, NEW n \in 1 .. m PROVE on(v, n) \in S
  BY <1>2 DEF Leading
<1> HIDE DEF on, m
<1>4. G \in [S \X (1 .. m) -> S] /\ \A v \in S, n \in 1 .. m : G[<<v, n>>] = on(v, n)
  BY <1>3
<1> HIDE DEF G
<1>5. PICK g \in [0 .. m -> S] : Follows(g, G, a, m)
  BY <1>2, <1>4, Recursion
<1>6. g = [n \in 0 .. m |-> IF n = 0 THEN a ELSE on(g[n - 1], n)]
  <2>1. ASSUME NEW n \in 1 .. m PROVE n - 1 \in 0 .. m
    BY <1>2
  <2>2. \A n \in 1 .. m : g[n] = on(g[n - 1], n)
    BY <1>4, <1>5, <2>1 DEF Follows
  <2> QED
    BY <1>2, <1>5, <2>2 DEF Follows
<1>7. at = [n \in 0 .. m |-> IF n = 0 THEN a ELSE on(at[n - 1], n)]
  BY <1>6
<1> HIDE DEF at
<1> DEFINE T == {n \in 0 .. m : at[n] \in S}
<1>8. at[0] = a /\ 0 \in T
  BY <1>2, <1>7
<1>9. ASSUME NEW n \in 1 .. m PROVE at[n] = on(at[n - 1], n)
  <2>1. n \in 0 .. m /\ n # 0
    BY <1>2
  <2> QED
    BY <1>7, <2>1
<1>10. ASSUME NEW n \in 1 .. m, n - 1 \in T PROVE n \in T
  BY <1>2, <1>3, <1>9, <1>10
<1>11. \A n \in 0 .. m : n \in T
  <2> HIDE DEF T
  <2> QED
    BY <1>2, <1>8, <1>10, BoundedInduction
<1>12. at \in [0 .. m -> S]
  BY <1>7, <1>11
<1>13. FoldedThrough(at, F, a, s)
  BY <1>8, <1>9 DEF FoldedThrough, on, m
<1> QED
  BY <1>1, <1>12, <1>13 DEF m

LEMMA FoldedIs ==
  ASSUME NEW S, NEW X, NEW F, Leading(F, S, X), NEW a \in S, NEW s \in Seq(X)
  PROVE  /\ Folded(F, a, s) \in S /\ Folded(F, a, <<>>) = a
         /\ \A x \in X : Folded(F, a, Append(s, x)) = F[<<Folded(F, a, s), x>>]
<1>1. PICK at \in [0 .. Len(s) -> S] :
        FoldedThrough(at, F, a, s) /\ Folded(F, a, s) = at[Len(s)]
  BY FoldedPasses
<1>2. Folded(F, a, s) \in S
  <2>1. Len(s) \in 0 .. Len(s)
    OBVIOUS
  <2> QED
    BY <1>1, <2>1
<1>3. Folded(F, a, <<>>) = a
  <2>1. <<>> \in Seq(X) /\ Len(<<>>) = 0
    OBVIOUS
  <2>2. PICK none \in [0 .. Len(<<>>) -> S] :
          FoldedThrough(none, F, a, <<>>) /\ Folded(F, a, <<>>) = none[Len(<<>>)]
    BY <2>1, FoldedPasses
  <2> QED
    BY <2>1, <2>2 DEF FoldedThrough
<1>4. ASSUME NEW x \in X PROVE Folded(F, a, Append(s, x)) = F[<<Folded(F, a, s), x>>]
  <2> DEFINE longer == Append(s, x)
             m == Len(s)
  <2>1. /\ longer \in Seq(X) /\ Len(longer) = m + 1 /\ longer[m + 1] = x /\ m \in Nat
        /\ \A n \in 1 .. m : longer[n] = s[n]
    OBVIOUS
  <2> HIDE DEF longer
  <2>2. PICK b \in [0 .. Len(longer) -> S] :
          FoldedThrough(b, F, a, longer) /\ Folded(F, a, longer) = b[Len(longer)]
    BY <2>1, FoldedPasses
  <2> HIDE DEF m
  <2> DEFINE T == {n \in 0 .. m : at[n] = b[n]}
  <2>3. 0 \in T
    BY <1>1, <2>1, <2>2 DEF FoldedThrough
  <2>4. ASSUME NEW n \in 1 .. m, n - 1 \in T PROVE n \in T
    <3>1. at[n] = F[<<at[n - 1], s[n]>>]
      BY <1>1 DEF FoldedThrough, m
    <3>2. n \in 1 .. m + 1 /\ n \in 0 .. m
      BY <2>1
    <3>3. b[n] = F[<<b[n - 1], s[n]>>]
      BY <2>1, <2>2, <3>2 DEF FoldedThrough
    <3> QED
      BY <2>4, <3>1, <3>2, <3>3
  <2>5. \A n \in 0 .. m : n \in T
    <3> HIDE DEF T
    <3> QED
      BY <2>1, <2>3, <2>4, BoundedInduction
  <2>6. at[m] = b[m]
    BY <2>1, <2>5
  <2>7. b[m + 1] = F[<<b[m], x>>]
    <3>1. m + 1 \in 1 .. m + 1 /\ (m + 1) - 1 = m
      BY <2>1
    <3> QED
      BY <2>1, <2>2, <3>1 DEF FoldedThrough
  <2> QED
    BY <1>1, <2>1, <2>2, <2>6, <2>7 DEF longer, m
<1> QED
  BY <1>2, <1>3, <1>4

\* A path from a node, and indices into a node.
From(d, top, path) == Folded([x \in Nodes(d) \X Segs |-> SegmentOf(d, x[1], x[2])], top, path)
Inside(d, node, idx) == Folded([x \in Nodes(d) \X Int |-> Element(d, x[1], x[2])], node, idx)

LEMMA FromIs ==
  ASSUME NEW d, IsTree(d), NEW top \in Nodes(d), NEW path \in Seq(Segs)
  PROVE  /\ From(d, top, path) \in Nodes(d) /\ From(d, top, <<>>) = top
         /\ \A segment \in Segs :
              From(d, top, Append(path, segment)) = SegmentOf(d, From(d, top, path), segment)
<1> DEFINE F == [x \in Nodes(d) \X Segs |-> SegmentOf(d, x[1], x[2])]
<1>1. /\ Leading(F, Nodes(d), Segs)
      /\ \A v \in Nodes(d), segment \in Segs : F[<<v, segment>>] = SegmentOf(d, v, segment)
  <2>1. \A v \in Nodes(d), segment \in Segs : SegmentOf(d, v, segment) \in Nodes(d)
    BY SegmentOfIs
  <2> QED
    BY <2>1 DEF Leading
<1>2. \A p : From(d, top, p) = Folded(F, top, p)
  BY DEF From
<1> HIDE DEF F
<1>3. /\ Folded(F, top, path) \in Nodes(d) /\ Folded(F, top, <<>>) = top
      /\ \A segment \in Segs :
           Folded(F, top, Append(path, segment)) = F[<<Folded(F, top, path), segment>>]
  BY <1>1, FoldedIs
<1> QED
  BY <1>1, <1>2, <1>3

LEMMA InsideIs ==
  ASSUME NEW d, IsTree(d), NEW node \in Nodes(d), NEW idx \in Seq(Int)
  PROVE  /\ Inside(d, node, idx) \in Nodes(d) /\ Inside(d, node, <<>>) = node
         /\ \A i \in Int : Inside(d, node, Append(idx, i)) = Element(d, Inside(d, node, idx), i)
<1> DEFINE F == [x \in Nodes(d) \X Int |-> Element(d, x[1], x[2])]
<1>1. /\ Leading(F, Nodes(d), Int)
      /\ \A v \in Nodes(d), i \in Int : F[<<v, i>>] = Element(d, v, i)
  <2>1. \A v \in Nodes(d), i \in Int : Element(d, v, i) \in Nodes(d)
    BY ElementIs
  <2> QED
    BY <2>1 DEF Leading
<1>2. \A s : Inside(d, node, s) = Folded(F, node, s)
  BY DEF Inside
<1> HIDE DEF F
<1>3. /\ Folded(F, node, idx) \in Nodes(d) /\ Folded(F, node, <<>>) = node
      /\ \A i \in Int : Folded(F, node, Append(idx, i)) = F[<<Folded(F, node, idx), i>>]
  BY <1>1, FoldedIs
<1> QED
  BY <1>1, <1>2, <1>3

\* A reader of the document starts at its root.
LEMMA FromRoot ==
  ASSUME NEW d, IsTree(d), NEW path \in Seq(Segs)
  PROVE  From(d, Root, path) = Resolve(d, path) /\ Root \in Nodes(d)
<1> DEFINE T == {p \in Seq(Segs) : From(d, Root, p) = Resolve(d, p)}
<1>1. Root \in Nodes(d) /\ <<>> \in Seq(Segs)
  BY TreeIs, ObjectIs DEF Nodes
<1>2. <<>> \in T
  BY <1>1, FromIs, ResolveIs
<1>3. ASSUME NEW p \in Seq(Segs), NEW s \in Segs, p \in T PROVE Append(p, s) \in T
  <2>1. Append(p, s) \in Seq(Segs)
    OBVIOUS
  <2>2. From(d, Root, Append(p, s)) = SegmentOf(d, From(d, Root, p), s)
    BY <1>1, FromIs
  <2>3. Resolve(d, Append(p, s)) = SegmentOf(d, Resolve(d, p), s)
    BY ResolveAppend
  <2> QED
    BY <1>3, <2>1, <2>2, <2>3
<1>4. \A p \in Seq(Segs) : p \in T
  <2> HIDE DEF T
  <2> QED
    BY <1>2, <1>3, SequenceInduction
<1> QED
  BY <1>1, <1>4

\* A segment is its key and then its indices.
LEMMA SegmentInside ==
  ASSUME NEW d, IsTree(d), NEW node \in Nodes(d), NEW segment \in Segs
  PROVE  /\ SegmentOf(d, node, segment) = Inside(d, ChildOf(d, node, segment.key), segment.idx)
         /\ ChildOf(d, node, segment.key) \in Nodes(d)
<1> DEFINE key == segment.key
           child == ChildOf(d, node, key)
           at(idx) == SegmentOf(d, node, Segment(key, idx))
           T == {idx \in Seq(Int) : at(idx) = Inside(d, child, idx)}
<1>1. key \in Keys /\ segment.idx \in Seq(Int) /\ segment = Segment(key, segment.idx)
  BY SegmentParts
<1>2. child \in Nodes(d) /\ <<>> \in Seq(Int)
  BY <1>1, ChildOfIs
<1> HIDE DEF key
<1>3. <<>> \in T
  <2>1. at(<<>>) = child
    BY <1>1, <1>2, SegmentAppend
  <2> HIDE DEF at, child
  <2> QED
    BY <1>2, <2>1, InsideIs
<1>4. ASSUME NEW idx \in Seq(Int), NEW i \in Int, idx \in T PROVE Append(idx, i) \in T
  <2>1. at(Append(idx, i)) = Element(d, at(idx), i) /\ Append(idx, i) \in Seq(Int)
    BY <1>1, SegmentAppend
  <2> HIDE DEF at, child
  <2>2. Inside(d, child, Append(idx, i)) = Element(d, Inside(d, child, idx), i)
    BY <1>2, InsideIs
  <2> QED
    BY <1>4, <2>1, <2>2
<1>5. \A idx \in Seq(Int) : idx \in T
  <2> HIDE DEF T
  <2> QED
    BY <1>3, <1>4, SequenceInduction
<1>6. at(segment.idx) = Inside(d, child, segment.idx)
  BY <1>1, <1>5
<1>7. at(segment.idx) = SegmentOf(d, node, segment)
  BY <1>1
<1> QED
  BY <1>2, <1>6, <1>7 DEF key

\* Two sequences are followed one after the other.
LEMMA FromOn ==
  ASSUME NEW d, IsTree(d), NEW top \in Nodes(d), NEW p \in Seq(Segs), NEW q \in Seq(Segs)
  PROVE  From(d, top, p \o q) = From(d, From(d, top, p), q)
<1> DEFINE node == From(d, top, p)
           T == {s \in Seq(Segs) : From(d, top, p \o s) = From(d, node, s)}
<1>1. node \in Nodes(d) /\ <<>> \in Seq(Segs)
  BY FromIs
<1>2. <<>> \in T
  <2>1. p \o <<>> = p
    OBVIOUS
  <2> QED
    BY <1>1, <2>1, FromIs
<1>3. ASSUME NEW s \in Seq(Segs), NEW x \in Segs, s \in T PROVE Append(s, x) \in T
  <2>1. /\ p \o Append(s, x) = Append(p \o s, x)
        /\ p \o s \in Seq(Segs) /\ Append(s, x) \in Seq(Segs)
    OBVIOUS
  <2> HIDE DEF node
  <2>2. From(d, node, Append(s, x)) = SegmentOf(d, From(d, node, s), x)
    BY <1>1, FromIs
  <2> DEFINE ps == p \o s
  <2>3. ps \in Seq(Segs) /\ Append(ps, x) = p \o Append(s, x)
    BY <2>1
  <2> HIDE DEF ps
  <2>4. From(d, top, Append(ps, x)) = SegmentOf(d, From(d, top, ps), x)
    BY <2>3, FromIs
  <2> QED
    BY <1>3, <2>1, <2>2, <2>3, <2>4 DEF ps
<1>4. \A s \in Seq(Segs) : s \in T
  <2> HIDE DEF T
  <2> QED
    BY <1>2, <1>3, SequenceInduction
<1> QED
  BY <1>4

LEMMA InsideFirst ==
  ASSUME NEW d, IsTree(d), NEW node \in Nodes(d), NEW i \in Int, NEW idx \in Seq(Int)
  PROVE  Inside(d, node, <<i>> \o idx) = Inside(d, Element(d, node, i), idx)
<1> DEFINE element == Element(d, node, i)
           T == {s \in Seq(Int) : Inside(d, node, <<i>> \o s) = Inside(d, element, s)}
<1>1. element \in Nodes(d) /\ <<>> \in Seq(Int)
  BY ElementIs
<1>2. <<>> \in T
  <2>1. <<i>> \o <<>> = Append(<<>>, i)
    OBVIOUS
  <2>2. Inside(d, node, Append(<<>>, i)) = Element(d, Inside(d, node, <<>>), i)
    BY <1>1, InsideIs
  <2>3. Inside(d, node, <<>>) = node /\ Inside(d, element, <<>>) = element
    BY <1>1, InsideIs
  <2> QED
    BY <1>1, <2>1, <2>2, <2>3
<1>3. ASSUME NEW s \in Seq(Int), NEW x \in Int, s \in T PROVE Append(s, x) \in T
  <2>1. /\ <<i>> \o Append(s, x) = Append(<<i>> \o s, x) /\ <<i>> \o s \in Seq(Int)
        /\ Append(s, x) \in Seq(Int)
    OBVIOUS
  <2> HIDE DEF element
  <2>2. Inside(d, element, Append(s, x)) = Element(d, Inside(d, element, s), x)
    BY <1>1, InsideIs
  <2> DEFINE is == <<i>> \o s
  <2>3. is \in Seq(Int) /\ Append(is, x) = <<i>> \o Append(s, x)
    BY <2>1
  <2> HIDE DEF is
  <2>4. Inside(d, node, Append(is, x)) = Element(d, Inside(d, node, is), x)
    BY <2>3, InsideIs
  <2> QED
    BY <1>3, <2>1, <2>2, <2>3, <2>4 DEF is
<1>4. \A s \in Seq(Int) : s \in T
  <2> HIDE DEF T
  <2> QED
    BY <1>2, <1>3, SequenceInduction
<1> QED
  BY <1>4

\* What is found stays found where everything in a place stays there.
LEMMA FromKeeps ==
  ASSUME NEW d, IsTree(d), NEW e, IsTree(e), Keeps(d, e),
         NEW top \in Nodes(d), top \in Nodes(e),
         NEW path \in Seq(Segs), From(d, top, path).type # "None"
  PROVE  From(e, top, path) = From(d, top, path)
<1> DEFINE T == {p \in Seq(Segs) : From(d, top, p).type # "None" =>
                                    From(e, top, p) = From(d, top, p)}
<1>1. <<>> \in T
  <2>1. <<>> \in Seq(Segs)
    OBVIOUS
  <2> QED
    BY <2>1, FromIs
<1>2. ASSUME NEW p \in Seq(Segs), NEW segment \in Segs, p \in T PROVE Append(p, segment) \in T
  <2> DEFINE node == From(d, top, p)
  <2>1. /\ From(d, top, Append(p, segment)) = SegmentOf(d, node, segment)
        /\ From(e, top, Append(p, segment)) = SegmentOf(e, From(e, top, p), segment)
    BY FromIs
  <2>2. node \in Nodes(d) /\ From(e, top, p) \in Nodes(e)
    BY FromIs
  <2>3. p \in T => (node.type # "None" => From(e, top, p) = node)
    OBVIOUS
  <2> HIDE DEF node
  <2>4. ASSUME SegmentOf(d, node, segment).type # "None"
        PROVE  SegmentOf(e, From(e, top, p), segment) = SegmentOf(d, node, segment)
    <3>1. node.type # "None"
      BY <2>2, <2>4, SegmentFrom
    <3> QED
      BY <1>2, <2>2, <2>3, <2>4, <3>1, SegmentKeeps
  <2>5. Append(p, segment) \in Seq(Segs)
    OBVIOUS
  <2> QED
    BY <2>1, <2>4, <2>5
<1>3. \A p \in Seq(Segs) : p \in T
  <2> HIDE DEF T
  <2> QED
    BY <1>1, <1>2, SequenceInduction
<1> QED
  BY <1>3

\* The root, or an object that is not in a place yet.
Top(d, n) == n = Root \/ Free(d, n)

LEMMA TopIs ==
  ASSUME NEW d, IsTree(d), NEW n, Top(d, n)
  PROVE  /\ n \in Nodes(d) /\ n \in Objects(d) /\ IsObject(n)
         /\ \A p \in Places(d) : NodeAt(d, p) # n
<1>1. Root \in Objects(d) /\ \A p \in Places(d) : NodeAt(d, p) # Root
  BY TreeIs, ObjectIs DEF Root
<1>2. n \in Objects(d) /\ \A p \in Places(d) : NodeAt(d, p) # n
  BY <1>1 DEF Top, Free
<1>3. n \in NodeSet /\ IsObject(n)
  BY <1>2, TreeIs, ObjectIs
<1> QED
  BY <1>2, <1>3 DEF Nodes

LEMMA TopStays ==
  ASSUME NEW d, NEW e, NEW n, NEW M, Leaves(d, e, n, M), NEW top, Top(d, top), top \notin M
  PROVE  Top(e, top)
BY DEF Top, Leaves

\* In a tree there is one way to an object.
LEMMA SegmentUnique ==
  ASSUME NEW d, IsTree(d), NEW n1 \in Nodes(d), NEW n2 \in Nodes(d),
         NEW s1 \in Segs, NEW s2 \in Segs, IsObject(SegmentOf(d, n1, s1)),
         SegmentOf(d, n1, s1) = SegmentOf(d, n2, s2)
  PROVE  n1 = n2 /\ s1 = s2
<1> DEFINE k1 == s1.key
           k2 == s2.key
           one(idx) == SegmentOf(d, n1, Segment(k1, idx))
           two(idx) == SegmentOf(d, n2, Segment(k2, idx))
           Alike(i, j) == IsObject(one(i)) /\ one(i) = two(j) => n1 = n2 /\ k1 = k2 /\ i = j
           T == {i \in Seq(Int) : \A j \in Seq(Int) : Alike(i, j)}
<1>1. /\ k1 \in Keys /\ s1.idx \in Seq(Int) /\ s1 = Segment(k1, s1.idx)
      /\ k2 \in Keys /\ s2.idx \in Seq(Int) /\ s2 = Segment(k2, s2.idx)
  BY SegmentParts
<1> HIDE DEF k1, k2
<1>2. one(<<>>) = ChildOf(d, n1, k1) /\ two(<<>>) = ChildOf(d, n2, k2)
  BY <1>1, SegmentAppend
<1>3. ASSUME NEW i \in Seq(Int), NEW x \in Int
      PROVE  /\ one(Append(i, x)) = Element(d, one(i), x) /\ one(i) \in Nodes(d)
             /\ two(Append(i, x)) = Element(d, two(i), x) /\ two(i) \in Nodes(d)
  <2>1. Segment(k1, i) \in Segs /\ Segment(k2, i) \in Segs
    BY <1>1 DEF Segment, Segs
  <2> QED
    BY <1>1, <2>1, SegmentAppend, SegmentOfIs
<1> HIDE DEF one, two
<1>4. \A n : IsObject(n) => n.type # "None"
  BY DEF IsObject
\* An object under a key has no other place.
<1>5. ASSUME NEW m1 \in Nodes(d), NEW m2 \in Nodes(d), NEW k \in Keys, NEW l \in Keys,
             IsObject(ChildOf(d, m1, k)), ChildOf(d, m1, k) = ChildOf(d, m2, l)
      PROVE  m1 = m2 /\ k = l
  <2>1. /\ <<"table", m1.ref, k>> \in Places(d) /\ m1 = Node("Table", m1.ref)
        /\ NodeAt(d, <<"table", m1.ref, k>>) = ChildOf(d, m1, k)
    BY <1>4, <1>5, ChildPlace
  <2>2. /\ <<"table", m2.ref, l>> \in Places(d) /\ m2 = Node("Table", m2.ref)
        /\ NodeAt(d, <<"table", m2.ref, l>>) = ChildOf(d, m1, k)
    BY <1>4, <1>5, ChildPlace
  <2>3. <<"table", m1.ref, k>> = <<"table", m2.ref, l>>
    BY <1>5, <2>1, <2>2, TreeIs
  <2> QED
    BY <2>1, <2>2, <2>3
<1>6. ASSUME NEW m1 \in Nodes(d), NEW m2 \in Nodes(d), NEW k \in Keys, NEW x \in Int,
             IsObject(ChildOf(d, m1, k)), ChildOf(d, m1, k) = Element(d, m2, x)
      PROVE  FALSE
  <2>1. /\ <<"table", m1.ref, k>> \in Places(d)
        /\ NodeAt(d, <<"table", m1.ref, k>>) = ChildOf(d, m1, k)
    BY <1>4, <1>6, ChildPlace
  <2>2. /\ <<"array", m2.ref, x + 1>> \in Places(d)
        /\ NodeAt(d, <<"array", m2.ref, x + 1>>) = ChildOf(d, m1, k)
    BY <1>4, <1>6, ElementPlace
  <2>3. <<"table", m1.ref, k>> = <<"array", m2.ref, x + 1>>
    BY <1>6, <2>1, <2>2, TreeIs
  <2> QED
    BY <2>3
<1>7. ASSUME NEW m1 \in Nodes(d), NEW m2 \in Nodes(d), NEW x \in Int, NEW y \in Int,
             IsObject(Element(d, m1, x)), Element(d, m1, x) = Element(d, m2, y)
      PROVE  m1 = m2 /\ x = y /\ IsObject(m1)
  <2>1. /\ <<"array", m1.ref, x + 1>> \in Places(d) /\ m1 = Node("Array", m1.ref)
        /\ NodeAt(d, <<"array", m1.ref, x + 1>>) = Element(d, m1, x)
    BY <1>4, <1>7, ElementPlace
  <2>2. /\ <<"array", m2.ref, y + 1>> \in Places(d) /\ m2 = Node("Array", m2.ref)
        /\ NodeAt(d, <<"array", m2.ref, y + 1>>) = Element(d, m1, x)
    BY <1>4, <1>7, ElementPlace
  <2>3. <<"array", m1.ref, x + 1>> = <<"array", m2.ref, y + 1>>
    BY <1>7, <2>1, <2>2, TreeIs
  <2>4. m1.ref = m2.ref /\ x = y
    BY <2>3
  <2>5. IsObject(m1)
    BY <2>1 DEF Node, IsObject
  <2> QED
    BY <2>1, <2>2, <2>4, <2>5
<1>8. <<>> \in T
  <2>1. ASSUME NEW j \in Seq(Int), IsObject(one(<<>>)), one(<<>>) = two(j)
        PROVE  n1 = n2 /\ k1 = k2 /\ <<>> = j
    <3>1. CASE j = <<>>
      BY <1>1, <1>2, <1>5, <2>1, <3>1
    <3>2. CASE j # <<>>
      <4>1. PICK t \in Seq(Int), y \in Int : j = Append(t, y)
        BY <3>2, SequenceEmptyOrAppend
      <4> QED
        BY <1>1, <1>2, <1>3, <1>6, <2>1, <4>1
    <3> QED
      BY <3>1, <3>2
  <2>2. <<>> \in Seq(Int)
    OBVIOUS
  <2> QED
    BY <2>1, <2>2
<1>9. ASSUME NEW i \in Seq(Int), NEW x \in Int, i \in T PROVE Append(i, x) \in T
  <2>1. ASSUME NEW j \in Seq(Int), IsObject(one(Append(i, x))), one(Append(i, x)) = two(j)
        PROVE  n1 = n2 /\ k1 = k2 /\ Append(i, x) = j
    <3>1. CASE j = <<>>
      BY <1>1, <1>2, <1>3, <1>6, <2>1, <3>1
    <3>2. CASE j # <<>>
      <4>1. PICK t \in Seq(Int), y \in Int : j = Append(t, y)
        BY <3>2, SequenceEmptyOrAppend
      <4>2. /\ one(Append(i, x)) = Element(d, one(i), x) /\ one(i) \in Nodes(d)
            /\ two(j) = Element(d, two(t), y) /\ two(t) \in Nodes(d)
        BY <1>3, <4>1
      <4> DEFINE m1 == one(i)
                 m2 == two(t)
      <4>3. /\ IsObject(Element(d, m1, x)) /\ Element(d, m1, x) = Element(d, m2, y)
            /\ m1 \in Nodes(d) /\ m2 \in Nodes(d)
        BY <2>1, <4>2
      <4>4. Alike(i, t)
        BY <1>9
      <4>5. m1 = m2 /\ IsObject(m1) => n1 = n2 /\ k1 = k2 /\ i = t
        BY <4>4
      <4> HIDE DEF m1, m2
      <4>6. m1 = m2 /\ x = y /\ IsObject(m1)
        BY <1>7, <4>3
      <4> QED
        BY <4>1, <4>5, <4>6
    <3> QED
      BY <3>1, <3>2
  <2>2. Append(i, x) \in Seq(Int)
    OBVIOUS
  <2> QED
    BY <2>1, <2>2
<1>10. \A i \in Seq(Int) : i \in T
  <2> HIDE DEF T
  <2> QED
    BY <1>8, <1>9, SequenceInduction
<1>11. Alike(s1.idx, s2.idx)
  BY <1>1, <1>10
<1> QED
  BY <1>1, <1>11 DEF one, two

LEMMA FromUnique ==
  ASSUME NEW d, IsTree(d), NEW top, Top(d, top), NEW p \in Seq(Segs), NEW q \in Seq(Segs),
         IsObject(From(d, top, p)), From(d, top, p) = From(d, top, q)
  PROVE  p = q
<1> DEFINE Alike(a, b) == IsObject(From(d, top, a)) /\ From(d, top, a) = From(d, top, b) => a = b
           T == {a \in Seq(Segs) : \A b \in Seq(Segs) : Alike(a, b)}
<1>1. \A n : IsObject(n) => n.type # "None"
  BY DEF IsObject
<1>2. top \in Nodes(d) /\ IsObject(top) /\ \A place \in Places(d) : NodeAt(d, place) # top
  BY TopIs
<1>3. ASSUME NEW a \in Seq(Segs), NEW s \in Segs
      PROVE  /\ From(d, top, Append(a, s)) = SegmentOf(d, From(d, top, a), s)
             /\ From(d, top, a) \in Nodes(d)
  BY <1>2, FromIs
<1>4. ASSUME NEW a \in Seq(Segs), NEW s \in Segs PROVE From(d, top, Append(a, s)) # top
  <2> SUFFICES ASSUME SegmentOf(d, From(d, top, a), s) = top PROVE FALSE
    BY <1>3
  <2>1. top.type # "None"
    BY <1>2, <1>1
  <2>2. PICK place \in Places(d) : NodeAt(d, place) = top
    BY <1>3, <2>1, SegmentFrom
  <2> QED
    BY <1>2, <2>2
<1>5. <<>> \in Seq(Segs) /\ From(d, top, <<>>) = top
  <2>1. <<>> \in Seq(Segs)
    OBVIOUS
  <2> QED
    BY <1>2, <2>1, FromIs
<1>6. <<>> \in T
  <2>1. ASSUME NEW b \in Seq(Segs), From(d, top, <<>>) = From(d, top, b) PROVE <<>> = b
    <3> SUFFICES ASSUME b # <<>> PROVE FALSE
      OBVIOUS
    <3>1. PICK a \in Seq(Segs), s \in Segs : b = Append(a, s)
      BY SequenceEmptyOrAppend
    <3> QED
      BY <1>4, <1>5, <2>1, <3>1
  <2> QED
    BY <1>5, <2>1
<1>7. ASSUME NEW a \in Seq(Segs), NEW s \in Segs, a \in T PROVE Append(a, s) \in T
  <2>1. ASSUME NEW b \in Seq(Segs), IsObject(From(d, top, Append(a, s))),
               From(d, top, Append(a, s)) = From(d, top, b)
        PROVE  Append(a, s) = b
    <3>1. b # <<>>
      BY <1>4, <1>5, <2>1
    <3>2. PICK c \in Seq(Segs), t \in Segs : b = Append(c, t)
      BY <3>1, SequenceEmptyOrAppend
    <3> DEFINE n1 == From(d, top, a)
               n2 == From(d, top, c)
    <3>3. /\ IsObject(SegmentOf(d, n1, s)) /\ SegmentOf(d, n1, s) = SegmentOf(d, n2, t)
          /\ n1 \in Nodes(d) /\ n2 \in Nodes(d)
      BY <1>3, <2>1, <3>2
    <3>4. Alike(a, c)
      BY <1>7
    <3>5. n1 = n2 /\ IsObject(n1) => a = c
      BY <3>4
    <3> HIDE DEF n1, n2
    <3>6. n1 = n2 /\ s = t
      BY <3>3, SegmentUnique
    <3>7. n1.type = "Table"
      BY <1>1, <3>3, SegmentFrom
    <3> QED
      BY <3>2, <3>5, <3>6, <3>7 DEF IsObject
  <2>2. Append(a, s) \in Seq(Segs)
    OBVIOUS
  <2> QED
    BY <2>1, <2>2
<1>8. \A a \in Seq(Segs) : a \in T
  <2> HIDE DEF T
  <2> QED
    BY <1>6, <1>7, SequenceInduction
<1> QED
  BY <1>8

\* The reader's paths.
LEMMA SegmentSetIs ==
  /\ SegmentSet \subseteq Segs
  /\ \A path \in Seq(SegmentSet) : path \in Seq(Segs)
<1>1. Seq(Nat) \subseteq Seq(Int)
  OBVIOUS
<1>2. SegmentSet \subseteq Segs
  BY <1>1 DEF SegmentSet, Segs
<1> QED
  BY <1>2, SeqMonotonic

\* A path that leads through a place under a key of a table.
Passes(d, top, path, t, key) ==
  \E n \in 1 .. Len(path) :
    From(d, top, SubSeq(path, 1, n - 1)) = Node("Table", t) /\ path[n].key = key

\* The start of a sequence, and of one with one more element.
LEMMA Starts ==
  ASSUME NEW S, NEW s \in Seq(S), NEW x \in S
  PROVE  /\ \A n \in 1 .. Len(s) : SubSeq(s, 1, n) = Append(SubSeq(s, 1, n - 1), s[n])
         /\ \A n \in 0 .. Len(s) : /\ SubSeq(s, 1, n) \in Seq(S)
                                   /\ SubSeq(Append(s, x), 1, n) = SubSeq(s, 1, n)
         /\ SubSeq(s, 1, Len(s)) = s
OBVIOUS

LEMMA PassesOn ==
  ASSUME NEW d, NEW top, NEW t, NEW key, NEW path \in Seq(Segs), NEW segment \in Segs,
         \/ Passes(d, top, path, t, key)
         \/ From(d, top, path) = Node("Table", t) /\ segment.key = key
  PROVE  Passes(d, top, Append(path, segment), t, key)
<1> DEFINE longer == Append(path, segment)
<1>1. /\ Len(path) \in Nat /\ Len(longer) = Len(path) + 1 /\ longer[Len(path) + 1] = segment
      /\ \A n \in 1 .. Len(path) : longer[n] = path[n] /\ n - 1 \in 0 .. Len(path)
OBVIOUS
<1>2. /\ \A n \in 0 .. Len(path) : SubSeq(longer, 1, n) = SubSeq(path, 1, n)
      /\ SubSeq(path, 1, Len(path)) = path
  BY Starts
<1> HIDE DEF longer
<1>3. CASE Passes(d, top, path, t, key)
  <2>1. PICK n \in 1 .. Len(path) :
          From(d, top, SubSeq(path, 1, n - 1)) = Node("Table", t) /\ path[n].key = key
    BY <1>3 DEF Passes
  <2>2. SubSeq(longer, 1, n - 1) = SubSeq(path, 1, n - 1) /\ longer[n] = path[n]
    BY <1>1, <1>2
  <2>3. n \in 1 .. Len(longer)
    BY <1>1
  <2> QED
    BY <2>1, <2>2, <2>3 DEF Passes, longer
<1>4. CASE From(d, top, path) = Node("Table", t) /\ segment.key = key
  <2>1. Len(path) + 1 \in 1 .. Len(longer) /\ (Len(path) + 1) - 1 = Len(path)
    BY <1>1
  <2>2. SubSeq(longer, 1, (Len(path) + 1) - 1) = path
    BY <1>1, <1>2
  <2> QED
    BY <1>1, <1>4, <2>1, <2>2 DEF Passes, longer
<1> QED
  BY <1>3, <1>4

\* Only what lies under the key of the table is changed.
LEMMA SegmentPut ==
  ASSUME NEW d, IsTree(d), NEW t \in DOMAIN d.tables, NEW k \in Keys, NEW new \in NodeSet,
         NEW e, e = Put(d, t, k, new), IsTree(e),
         NEW node \in Nodes(d), NEW segment \in Segs,
         ~(node = Node("Table", t) /\ segment.key = k)
  PROVE  SegmentOf(e, node, segment) = SegmentOf(d, node, segment)
<1> DEFINE key == segment.key
           at(f, idx) == SegmentOf(f, node, Segment(key, idx))
           T == {idx \in Seq(Int) : at(e, idx) = at(d, idx)}
<1>1. key \in Keys /\ segment.idx \in Seq(Int) /\ segment = Segment(key, segment.idx)
  BY SegmentParts
<1>2. d \in Docs
  BY TreeIs
<1>3. /\ e \in Docs /\ e.arrays = d.arrays /\ Objects(e) = Objects(d)
      /\ \A p \in Places(d) : p # <<"table", t, k>> => NodeAt(e, p) = NodeAt(d, p)
  BY <1>2, PutDoes
<1>4. node \in Nodes(e)
  BY <1>3 DEF Nodes
<1> HIDE DEF key
<1>5. ChildOf(e, node, key) = ChildOf(d, node, key)
  <2>1. CASE node.type = "Table"
    <3> DEFINE p == <<"table", node.ref, key>>
    <3>1. node = Node("Table", node.ref) /\ node \in Objects(d)
      BY <1>2, <2>1, ObjectIs DEF Nodes, IsObject, NodeSet, Node
    <3>2. node.ref \in DOMAIN d.tables
      BY <1>2, <3>1, ObjectIs
    <3>3. p \in Places(d)
      BY <1>1, <1>2, <3>2, InTable
    <3>4. p # <<"table", t, k>>
      BY <3>1 DEF key
    <3>5. NodeAt(e, p) = NodeAt(d, p)
      BY <1>3, <3>3, <3>4
    <3> QED
      BY <1>1, <2>1, <3>5 DEF ChildOf, Child, NodeAt
  <2>2. CASE node.type # "Table"
    BY <2>2 DEF ChildOf
  <2> QED
    BY <2>1, <2>2
<1>6. <<>> \in T
  <2>1. <<>> \in Seq(Int)
    OBVIOUS
  <2>2. at(d, <<>>) = ChildOf(d, node, key) /\ at(e, <<>>) = ChildOf(e, node, key)
    BY <1>1, <1>4, <2>1, SegmentAppend
  <2> QED
    BY <1>5, <2>1, <2>2
<1>7. ASSUME NEW idx \in Seq(Int), NEW i \in Int, idx \in T PROVE Append(idx, i) \in T
  <2>1. /\ at(d, Append(idx, i)) = Element(d, at(d, idx), i)
        /\ at(e, Append(idx, i)) = Element(e, at(e, idx), i)
    BY <1>1, <1>4, SegmentAppend
  <2>2. at(e, idx) = at(d, idx) /\ Append(idx, i) \in Seq(Int)
    BY <1>7
  <2> HIDE DEF at
  <2>3. Element(e, at(d, idx), i) = Element(d, at(d, idx), i)
    BY <1>3 DEF Element
  <2> QED
    BY <2>1, <2>2, <2>3
<1>8. \A idx \in Seq(Int) : idx \in T
  <2> HIDE DEF T
  <2> QED
    BY <1>6, <1>7, SequenceInduction
<1> QED
  BY <1>1, <1>8

LEMMA FromPut ==
  ASSUME NEW d, IsTree(d), NEW t \in DOMAIN d.tables, NEW k \in Keys, NEW new \in NodeSet,
         NEW e, e = Put(d, t, k, new), IsTree(e), NEW top \in Nodes(d), NEW path \in Seq(Segs)
  PROVE  From(e, top, path) = From(d, top, path) \/ Passes(d, top, path, t, k)
<1> DEFINE T == {p \in Seq(Segs) : From(e, top, p) = From(d, top, p) \/ Passes(d, top, p, t, k)}
<1>1. top \in Nodes(e)
  <2>1. d \in Docs
    BY TreeIs
  <2>2. Objects(e) = Objects(d)
    BY <2>1, PutDoes
  <2> QED
    BY <2>2 DEF Nodes
<1>2. <<>> \in T
  <2>1. <<>> \in Seq(Segs)
    OBVIOUS
  <2> QED
    BY <1>1, <2>1, FromIs
<1>3. ASSUME NEW p \in Seq(Segs), NEW segment \in Segs, p \in T PROVE Append(p, segment) \in T
  <2> DEFINE longer == Append(p, segment)
             node == From(d, top, p)
  <2>1. /\ From(d, top, longer) = SegmentOf(d, node, segment)
        /\ From(e, top, longer) = SegmentOf(e, From(e, top, p), segment)
    BY <1>1, FromIs
  <2>2. node \in Nodes(d) /\ longer \in Seq(Segs)
    BY <1>1, FromIs
  <2>3. CASE Passes(d, top, p, t, k) \/ (node = Node("Table", t) /\ segment.key = k)
    <3>1. Passes(d, top, longer, t, k)
      BY <2>3, PassesOn
    <3> QED
      BY <2>2, <3>1
  <2>4. CASE ~Passes(d, top, p, t, k) /\ ~(node = Node("Table", t) /\ segment.key = k)
    <3>1. From(e, top, p) = node
      BY <1>3, <2>4
    <3> HIDE DEF node, longer
    <3>2. SegmentOf(e, node, segment) = SegmentOf(d, node, segment)
      BY <2>2, <2>4, SegmentPut
    <3> QED
      BY <2>1, <2>2, <3>1, <3>2 DEF longer
  <2> QED
    BY <2>3, <2>4
<1>4. \A p \in Seq(Segs) : p \in T
  <2> HIDE DEF T
  <2> QED
    BY <1>2, <1>3, SequenceInduction
<1> QED
  BY <1>4

LEMMA PlainIs ==
  ASSUME NEW keys \in Seq(Keys)
  PROVE  /\ Plain(keys) \in Seq(Segs) /\ Len(Plain(keys)) = Len(keys)
         /\ \A n \in 1 .. Len(keys) : Plain(keys)[n] = Segment(keys[n], <<>>)
<1> DEFINE n == Len(keys)
<1>1. n \in Nat /\ DOMAIN keys = 1 .. n /\ \A i \in 1 .. n : keys[i] \in Keys
  OBVIOUS
<1>2. <<>> \in Seq(Int)
  OBVIOUS
<1>3. \A i \in 1 .. n : Segment(keys[i], <<>>) \in Segs
  BY <1>1, <1>2 DEF Segment, Segs
<1>4. Plain(keys) = [i \in 1 .. n |-> Segment(keys[i], <<>>)]
  BY <1>1 DEF Plain
<1> DEFINE plain == Plain(keys)
<1>5. plain \in [1 .. n -> Segs]
  BY <1>3, <1>4
<1> HIDE DEF plain, n
<1>6. plain \in Seq(Segs) /\ Len(plain) = n
  BY <1>1, <1>5, SeqDef
<1> QED
  BY <1>4, <1>6 DEF n, plain

\* A walk along keys makes nothing but what is missing, and ends where a path along
\* them leads.
LEMMA AlongLeads ==
  ASSUME NEW w \in Standing, NEW top \in Nodes(w.doc),
         NEW keys \in Seq(Keys) \ {<<>>}, NEW above \in Seq(Segs),
         From(w.doc, top, above) = Stand(w)
  PROVE  LET v == Along(EnsureTable, w, keys)
             full == above \o Plain(keys)
         IN /\ Grows(w.doc, v.doc)
            /\ v.ok => From(v.doc, top, SubSeq(full, 1, Len(full) - 1)) = Stand(v)
<1> DEFINE S == {v \in Standing : Grows(w.doc, v.doc)}
           m == Len(keys) - 1
           full == above \o Plain(keys)
           base == Len(above)
           on(v, n) == IF v.ok THEN EnsureTable(v, keys[n]) ELSE v
           walk[n \in 0 .. m] == IF n = 0 THEN w ELSE on(walk[n - 1], n)
           F == [x \in S \X (1 .. m) |-> on(x[1], x[2])]
<1>1. Along(EnsureTable, w, keys) = walk[m]
  BY DEF Along
<1>2. /\ m \in Nat /\ base \in Nat /\ \A n \in 1 .. m : keys[n] \in Keys
      /\ full \in Seq(Segs) /\ Len(full) = base + m + 1 /\ SubSeq(full, 1, base) = above
      /\ \A n \in 1 .. m : full[base + n] = Segment(keys[n], <<>>)
  <2>1. Plain(keys) \in Seq(Segs) /\ Len(Plain(keys)) = m + 1
    BY PlainIs
  <2>2. \A n \in 1 .. m : Plain(keys)[n] = Segment(keys[n], <<>>)
    BY PlainIs
  <2>3. m \in Nat /\ base \in Nat /\ \A n \in 1 .. m : keys[n] \in Keys
    OBVIOUS
  <2> DEFINE plain == Plain(keys)
  <2> HIDE DEF plain, m
  <2>4. plain \in Seq(Segs) /\ Len(plain) = m + 1
    BY <2>1 DEF plain
  <2>5. /\ above \o plain \in Seq(Segs) /\ Len(above \o plain) = base + m + 1
        /\ \A n \in 1 .. m : (above \o plain)[base + n] = plain[n]
    BY <2>3, <2>4
  <2>6. SubSeq(above \o plain, 1, base) = above
    BY <2>3, <2>4
  <2> QED
    BY <2>2, <2>3, <2>5, <2>6 DEF plain
<1>3. w \in S
  BY DEF Grows, Keeps, Standing
<1>4. ASSUME NEW v \in S, NEW n \in 1 .. m PROVE on(v, n) \in S
  <2>1. EnsureTable(v, keys[n]) \in Walking(v.doc, Stand(v))
    BY <1>2, EnsureTableWalks
  <2>2. EnsureTable(v, keys[n]) \in S
    BY <2>1, GrowsThrough DEF Walking
  <2> QED
    BY <2>2
<1> HIDE DEF S, on, m, full, base
<1>5. F \in [S \X (1 .. m) -> S] /\ \A v \in S, n \in 1 .. m : F[<<v, n>>] = on(v, n)
  BY <1>4
<1> HIDE DEF F
<1>6. PICK g \in [0 .. m -> S] : Follows(g, F, w, m)
  BY <1>2, <1>3, <1>5, Recursion
<1>7. g = [n \in 0 .. m |-> IF n = 0 THEN w ELSE on(g[n - 1], n)]
  <2>1. ASSUME NEW n \in 1 .. m PROVE n - 1 \in 0 .. m
    BY <1>2
  <2>2. \A n \in 1 .. m : g[n] = on(g[n - 1], n)
    BY <1>5, <1>6, <2>1 DEF Follows
  <2> QED
    BY <1>2, <1>6, <2>2 DEF Follows
<1>8. walk = [n \in 0 .. m |-> IF n = 0 THEN w ELSE on(walk[n - 1], n)]
  BY <1>7
<1> HIDE DEF walk
<1> DEFINE Arrived(v, n) ==
             v \in S /\ (v.ok => From(v.doc, top, SubSeq(full, 1, base + n)) = Stand(v))
           T == {n \in 0 .. m : Arrived(walk[n], n)}
<1>9. 0 \in T
  <2>1. 0 \in 0 .. m /\ base + 0 = base
    BY <1>2
  <2>2. walk[0] = w
    BY <1>8, <2>1
  <2>3. From(w.doc, top, SubSeq(full, 1, base + 0)) = Stand(w)
    BY <1>2, <2>1
  <2> QED
    BY <1>3, <2>1, <2>2, <2>3
<1>10. ASSUME NEW n \in 1 .. m, n - 1 \in T PROVE n \in T
  <2> DEFINE v == walk[n - 1]
             u == EnsureTable(v, keys[n])
             before == SubSeq(full, 1, base + (n - 1))
             behind == SubSeq(full, 1, base + n)
             last == Segment(keys[n], <<>>)
  <2>1. n \in 0 .. m /\ n # 0
    BY <1>2
  <2>2. walk[n] = IF v.ok THEN u ELSE v
    BY <1>8, <2>1 DEF on
  <2>3. v \in S /\ (v.ok => From(v.doc, top, before) = Stand(v))
    BY <1>10
  <2>4. before \in Seq(Segs) /\ last \in Segs /\ behind = Append(before, last)
    <3>1. base + n \in 1 .. Len(full) /\ (base + n) - 1 = base + (n - 1)
      BY <1>2
    <3>2. behind = Append(SubSeq(full, 1, (base + n) - 1), full[base + n])
      <4>1. full[base + n] \in Segs
        BY <1>2, <3>1
      <4> QED
        BY <1>2, <3>1, <4>1, Starts
    <3>3. before \in Seq(Segs)
      BY <1>2
    <3>4. full[base + n] = last /\ full[base + n] \in Segs
      BY <1>2, <3>1
    <3> QED
      BY <3>1, <3>2, <3>3, <3>4
  <2> HIDE DEF v, before, behind
  <2>5. v \in Standing /\ IsTree(v.doc) /\ keys[n] \in Keys /\ top \in Nodes(v.doc)
    BY <1>2, <2>3 DEF S, Standing, Grows, Nodes
  <2>6. CASE ~v.ok
    BY <2>1, <2>2, <2>3, <2>6
  <2>7. CASE v.ok
    <3>1. walk[n] = u /\ u \in S
      BY <1>4, <2>2, <2>3, <2>7 DEF on
    <3>2. u \in Walking(v.doc, Stand(v)) /\ (u.ok => Child(u.doc, v.at, keys[n]) = Stand(u))
      BY <2>5, EnsureTableWalks
    <3> HIDE DEF u
    <3>3. ASSUME u.ok PROVE From(u.doc, top, behind) = Stand(u)
      <4>1. IsTree(u.doc) /\ Keeps(v.doc, u.doc) /\ top \in Nodes(u.doc)
        BY <3>1, <3>2 DEF Walking, Standing, S, Grows, Nodes
      <4>2. From(v.doc, top, before) = Stand(v) /\ Stand(v).type = "Table" /\ Stand(v).ref = v.at
        BY <2>3, <2>7 DEF Stand, Node
      <4>3. From(u.doc, top, before) = Stand(v)
        BY <2>4, <2>5, <4>1, <4>2, FromKeeps
      <4>4. Stand(v) \in Nodes(u.doc)
        BY <2>4, <4>1, <4>3, FromIs
      <4>5. From(u.doc, top, Append(before, last)) = SegmentOf(u.doc, Stand(v), last)
        BY <2>4, <4>1, <4>3, FromIs
      <4>6. <<>> \in Seq(Int)
        OBVIOUS
      <4>7. SegmentOf(u.doc, Stand(v), last) = ChildOf(u.doc, Stand(v), keys[n])
        BY <2>5, <4>1, <4>4, <4>6, SegmentAppend
      <4>8. ChildOf(u.doc, Stand(v), keys[n]) = Stand(u)
        BY <3>2, <3>3, <4>2 DEF ChildOf
      <4> QED
        BY <2>4, <4>5, <4>7, <4>8
    <3> QED
      BY <2>1, <3>1, <3>3 DEF behind
  <2> QED
    BY <2>6, <2>7
<1>11. \A n \in 0 .. m : n \in T
  <2> HIDE DEF T
  <2> QED
    BY <1>2, <1>9, <1>10, BoundedInduction
<1>12. Arrived(walk[m], m)
  BY <1>2, <1>11
<1>13. Len(full) - 1 = base + m
  BY <1>2
<1> QED
  BY <1>1, <1>12, <1>13 DEF S, full

\* Objects beside those of a document take nothing out of its places.
LEMMA BesideKeeps ==
  ASSUME NEW d, IsTree(d), NEW e, Beside(d, e)
  PROVE  Keeps(d, e)
<1>1. d \in Docs
  BY TreeIs
<1>2. \A p \in Places(d) : Owner(p) \in Objects(d)
  BY <1>1, PlaceTypes
<1> QED
  BY <1>2 DEF Beside, Same, Keeps

\* A path that passes where another ends goes on under it.
LEMMA PassesUnder ==
  ASSUME NEW d, IsTree(d), NEW top, Top(d, top), NEW t, NEW path \in Seq(Segs),
         NEW full \in Seq(Segs) \ {<<>>},
         From(d, top, SubSeq(full, 1, Len(full) - 1)) = Node("Table", t),
         Passes(d, top, path, t, Last(full).key)
  PROVE  Under(full, path)
<1> DEFINE front == SubSeq(full, 1, Len(full) - 1)
<1>1. front \in Seq(Segs) /\ Len(front) = Len(full) - 1 /\ Len(full) \in Nat \ {0}
      /\ Front(full) = front
  <2>1. Len(full) \in Nat \ {0}
    OBVIOUS
  <2>2. Len(full) - 1 \in 0 .. Len(full)
    BY <2>1
  <2>3. front \in Seq(Segs)
    BY <2>2, Starts, full[1] \in Segs
  <2>4. Len(front) = Len(full) - 1
    <3> DEFINE m == Len(full) - 1
               long == Len(front)
    <3>1. m \in Nat /\ 1 \in Int /\ m \in Int /\ \A i \in 1 .. m : full[i] \in Segs
      BY <2>1
    <3>2. long = IF 1 <= m THEN m - 1 + 1 ELSE 0
      BY <3>1, SubSeqProperties
    <3> HIDE DEF m, long
    <3>3. long = m
      BY <3>1, <3>2
    <3> QED
      BY <3>3 DEF m, long
  <2> QED
    BY <2>1, <2>3, <2>4 DEF Front
<1>2. PICK n \in 1 .. Len(path) :
        From(d, top, SubSeq(path, 1, n - 1)) = Node("Table", t) /\ path[n].key = Last(full).key
  BY DEF Passes
<1> DEFINE start == SubSeq(path, 1, n - 1)
<1>3. start \in Seq(Segs) /\ Len(start) = n - 1
  OBVIOUS
<1>4. IsObject(Node("Table", t))
  BY DEF IsObject, Node
<1>5. From(d, top, front) = Node("Table", t) /\ From(d, top, start) = Node("Table", t)
  BY <1>2
<1> HIDE DEF front, start
<1>6. start = front
  BY <1>1, <1>3, <1>4, <1>5, FromUnique
<1>7. n = Len(full)
  BY <1>1, <1>3, <1>6
<1>8. IsPrefix(front, path)
  <2>1. SubSeq(path, 1, Len(front)) = front /\ Len(front) <= Len(path)
    BY <1>1, <1>3, <1>6, <1>7 DEF start
  <2>2. SubSeq(front, 1, Len(front)) = front
    BY <1>1, Starts
  <2> QED
    BY <2>1, <2>2 DEF IsPrefix
<1> QED
  BY <1>1, <1>2, <1>7, <1>8 DEF Under

\* An assignment puts its value in tree f under the last key of the path full, into the
\* table u, which gives e.
Placed(value, t, top, full, f, u, e) ==
  /\ value.ok /\ IsTree(f) /\ Grows(value.doc, f) /\ Leaves(value.doc, f, Node("Table", t), {})
  /\ \A C \in SUBSET Objects(value.doc) :
       Guarded(value.doc, C) /\ Node("Table", t) \notin C => Node("Table", u) \notin C
  /\ Top(f, top) /\ u \in DOMAIN f.tables
  /\ From(f, top, SubSeq(full, 1, Len(full) - 1)) = Node("Table", u)
  /\ Usable(f, value.node) /\ value.node \in NodeSet /\ Last(full).key \in Keys
  /\ IsTree(e) /\ e = Put(f, u, Last(full).key, value.node)

LEMMA LastPlain ==
  ASSUME NEW above \in Seq(Segs), NEW keys \in Seq(Keys) \ {<<>>}
  PROVE  LET full == above \o Plain(keys) IN
         /\ full \in Seq(Segs) \ {<<>>} /\ Last(full).key = Last(keys) /\ Last(keys) \in Keys
         /\ Len(full) = Len(above) + Len(keys)
<1> DEFINE full == above \o Plain(keys)
<1>1. Plain(keys) \in Seq(Segs) /\ Len(Plain(keys)) = Len(keys) /\ Len(keys) \in Nat \ {0}
  BY PlainIs
<1>2. Plain(keys)[Len(keys)].key = keys[Len(keys)]
  <2>1. Plain(keys)[Len(keys)] = Segment(keys[Len(keys)], <<>>)
    BY <1>1, PlainIs
  <2> QED
    BY <2>1 DEF Segment
<1> DEFINE plain == Plain(keys)
<1> HIDE DEF plain
<1>3. plain \in Seq(Segs) /\ Len(plain) = Len(keys) /\ plain[Len(keys)].key = keys[Len(keys)]
  BY <1>1, <1>2 DEF plain
<1>4. /\ above \o plain \in Seq(Segs) /\ Len(above \o plain) = Len(above) + Len(keys)
      /\ (above \o plain)[Len(above) + Len(keys)] = plain[Len(keys)]
  BY <1>1, <1>3
<1>5. full = above \o plain
  BY DEF plain
<1> HIDE DEF full
<1>6. /\ full \in Seq(Segs) \ {<<>>} /\ Last(full).key = Last(keys) /\ Last(keys) \in Keys
      /\ Len(full) = Len(above) + Len(keys)
  BY <1>1, <1>3, <1>4, <1>5 DEF Last
<1> QED
  BY <1>6 DEF full

LEMMA AssignmentPlaces ==
  ASSUME NEW d, IsTree(d), NEW top, Top(d, top), NEW t \in Nat, NEW above \in Seq(Segs),
         From(d, top, above) = Node("Table", t), NEW keys \in Seq(Keys) \ {<<>>},
         NEW value, Good(d, value), Assign(Walk(d, t, TRUE), keys, value).ok
  PROVE  LET v == Assign(Walk(d, t, TRUE), keys, value) IN
         \E f \in Docs, u \in Nat : Placed(value, t, top, above \o Plain(keys), f, u, v.doc)
<1> DEFINE from == Walk(value.doc, t, value.ok)
           target == Along(EnsureTable, from, keys)
           full == above \o Plain(keys)
           f == target.doc
           e == Put(f, target.at, Last(keys), value.node)
           v == Assign(Walk(d, t, TRUE), keys, value)
<1>1. v = IF target.ok THEN Walk(e, t, TRUE) ELSE target
  BY DEF Assign, Walk
<1>2. target.ok /\ v.doc = e
  BY <1>1 DEF Walk
<1> HIDE DEF v
<1>3. value \in Results /\ Beside(d, value.doc) /\ IsTree(value.doc) /\ Keeps(d, value.doc)
  BY BesideKeeps DEF Good, Beside
<1>4. Top(value.doc, top)
  <2>1. Leaves(d, value.doc, Root, {})
    BY <1>3, BesideLeaves
  <2> QED
    BY <2>1, TopStays
<1>5. top \in Nodes(d) /\ top \in Nodes(value.doc)
  BY <1>3, <1>4, TopIs
<1>6. From(value.doc, top, above) = Node("Table", t)
  <2>1. Node("Table", t).type # "None"
    BY DEF Node
  <2> QED
    BY <1>3, <1>5, <2>1, FromKeeps
<1>7. from \in Standing /\ from.doc = value.doc /\ Stand(from) = Node("Table", t)
  <2>1. Node("Table", t) \in Nodes(value.doc)
    BY <1>3, <1>5, <1>6, FromIs
  <2>2. Node("Table", t) \in Objects(value.doc)
    BY <2>1 DEF Nodes, IsObject, Node
  <2> QED
    BY <1>3, <2>2 DEF Standing, Walks, Walk, Stand, Results, Beside, IsTree
<1>8. target \in Walking(from.doc, Stand(from)) /\ (target.ok => from.ok)
  BY <1>7, EnsureAlong
<1>9. /\ Grows(from.doc, target.doc)
      /\ target.ok => From(target.doc, top, SubSeq(full, 1, Len(full) - 1)) = Stand(target)
  <2>1. top \in Nodes(from.doc) /\ From(from.doc, top, above) = Stand(from) /\ from \in Standing
    BY <1>5, <1>6, <1>7
  <2> HIDE DEF from
  <2> QED
    BY <2>1, AlongLeads
<1>10. from.ok = value.ok
  BY DEF Walk
<1>11. Last(full).key = Last(keys) /\ Last(keys) \in Keys
  BY LastPlain
<1> HIDE DEF from, target, full
<1>12. /\ IsTree(f) /\ f \in Docs /\ target.at \in DOMAIN f.tables /\ target.at \in Nat
       /\ Leaves(value.doc, f, Node("Table", t), {})
       /\ From(f, top, SubSeq(full, 1, Len(full) - 1)) = Node("Table", target.at)
  <2>1. target \in Standing /\ IsTree(f) /\ f \in Docs /\ target.at \in Nat
    BY <1>8, TreeIs DEF Walking, Standing, Walks
  <2>2. target.at \in DOMAIN f.tables
    BY <2>1, ObjectIs DEF Standing, Stand
  <2> QED
    BY <1>2, <1>7, <1>8, <1>9, <2>1, <2>2 DEF Stand, Walking
<1>13. Top(f, top)
  BY <1>4, <1>12, TopStays
<1>14. value.node \in NodeSet /\ IsTree(e) /\ Usable(f, value.node)
  <2>1. Usable(value.doc, value.node)
    BY <1>2, <1>8, <1>10 DEF Good
  <2>2. Usable(f, value.node)
    BY <1>12, <2>1, UsableStill
  <2>3. Leaves(f, e, Node("Table", target.at), {value.node})
    BY <1>11, <1>12, <2>2, PutLeaves
  <2> QED
    BY <1>3, <2>2, <2>3 DEF Leaves, Results
<1>15. \A C \in SUBSET Objects(value.doc) :
         Guarded(value.doc, C) /\ Node("Table", t) \notin C => Node("Table", target.at) \notin C
  BY <1>7, <1>8 DEF Walking, Stand
<1>16. Placed(value, t, top, full, f, target.at, e)
  BY <1>2, <1>7, <1>8, <1>9, <1>10, <1>11, <1>12, <1>13, <1>14, <1>15 DEF Placed
<1> QED
  BY <1>2, <1>12, <1>16 DEF full, v

\* v is a tree d after an assignment of value to the keys, from the table t that the
\* segments above lead to from the table top.
Assigns(d, top, t, above, keys, value, v) ==
  /\ IsTree(d) /\ Top(d, top) /\ t \in Nat /\ above \in Seq(Segs)
  /\ From(d, top, above) = Node("Table", t) /\ keys \in Seq(Keys) \ {<<>>}
  /\ Good(d, value) /\ v = Assign(Walk(d, t, TRUE), keys, value) /\ v.ok

\* An assignment changes what is at and below its path, and nothing else.
LEMMA AssignmentKeepsFrom ==
  ASSUME NEW d, NEW top, NEW t, NEW above, NEW keys, NEW value, NEW v,
         Assigns(d, top, t, above, keys, value, v),
         NEW path \in Seq(Segs), From(d, top, path).type # "None"
  PROVE  From(v.doc, top, path) = From(d, top, path) \/ Under(above \o Plain(keys), path)
<1> IsTree(d) /\ Top(d, top) /\ t \in Nat /\ above \in Seq(Segs)
  BY DEF Assigns
<1> /\ From(d, top, above) = Node("Table", t) /\ keys \in Seq(Keys) \ {<<>>}
    /\ Good(d, value) /\ v = Assign(Walk(d, t, TRUE), keys, value) /\ v.ok
  BY DEF Assigns
<1> DEFINE full == above \o Plain(keys)
           e == v.doc
           key == Last(full).key
<1>1. PICK f \in Docs, u \in Nat : Placed(value, t, top, full, f, u, e)
  BY AssignmentPlaces
<1>2. full \in Seq(Segs) \ {<<>>}
  BY LastPlain
<1> HIDE DEF full, e
<1>3. Keeps(d, value.doc) /\ Keeps(value.doc, f)
  BY <1>1, BesideKeeps DEF Good, Placed, Grows
<1>4. /\ IsTree(f) /\ Top(f, top) /\ u \in DOMAIN f.tables /\ key \in Keys
      /\ value.node \in NodeSet /\ IsTree(e) /\ e = Put(f, u, key, value.node)
      /\ From(f, top, SubSeq(full, 1, Len(full) - 1)) = Node("Table", u)
  BY <1>1 DEF Placed
<1> HIDE DEF key
<1>5. top \in Nodes(d) /\ top \in Nodes(f)
  BY <1>4, TopIs
<1>6. From(f, top, path) = From(d, top, path)
  <2>1. Keeps(d, f)
    BY <1>3, KeepsThrough
  <2> QED
    BY <1>4, <1>5, <2>1, FromKeeps
<1>7. From(e, top, path) = From(f, top, path) \/ Passes(f, top, path, u, key)
  BY <1>4, <1>5, FromPut
<1>8. Passes(f, top, path, u, key) => Under(full, path)
  BY <1>2, <1>4, PassesUnder DEF key
<1> QED
  BY <1>6, <1>7, <1>8 DEF full, e

LEMMA AssignmentKeeps ==
  ASSUME NEW d, NEW t, NEW above, NEW keys, NEW value, NEW v,
         Assigns(d, Root, t, above, keys, value, v), IsTree(v.doc),
         NEW path \in Seq(Segs), Resolve(d, path).type # "None"
  PROVE  Resolve(v.doc, path) = Resolve(d, path) \/ Under(above \o Plain(keys), path)
<1>1. From(d, Root, path) = Resolve(d, path) /\ From(v.doc, Root, path) = Resolve(v.doc, path)
  BY FromRoot DEF Assigns
<1>2. From(v.doc, Root, path) = From(d, Root, path) \/ Under(above \o Plain(keys), path)
  BY <1>1, AssignmentKeepsFrom
<1> QED
  BY <1>1, <1>2

--------------------------------------------------------------------------------
(* What is read at a node *)

Scalar(n) == IF n.type = "Scalar" THEN n ELSE NoNode

\* Read at a node by indices and then along a path.
ReadAt(d, node, idx, path) == Scalar(From(d, Inside(d, node, idx), path))

\* Walks in two documents that are related stay so with each key and each index.
Simulates(R, d, e) ==
  \A m \in Nodes(d), n \in Nodes(e) : <<m, n>> \in R =>
    /\ \A k \in Keys : <<ChildOf(d, m, k), ChildOf(e, n, k)>> \in R
    /\ \A i \in Int : <<Element(d, m, i), Element(e, n, i)>> \in R

LEMMA Simulated ==
  ASSUME NEW d, IsTree(d), NEW e, IsTree(e), NEW R, Simulates(R, d, e),
         NEW m \in Nodes(d), NEW n \in Nodes(e), <<m, n>> \in R
  PROVE  /\ \A idx \in Seq(Int) : <<Inside(d, m, idx), Inside(e, n, idx)>> \in R
         /\ \A path \in Seq(Segs) : <<From(d, m, path), From(e, n, path)>> \in R
<1>1. ASSUME NEW a \in Nodes(d), NEW b \in Nodes(e), <<a, b>> \in R, NEW idx \in Seq(Int)
      PROVE  <<Inside(d, a, idx), Inside(e, b, idx)>> \in R
  <2> DEFINE T == {i \in Seq(Int) : <<Inside(d, a, i), Inside(e, b, i)>> \in R}
  <2>1. <<>> \in T
    <3>1. <<>> \in Seq(Int)
      OBVIOUS
    <3> QED
      BY <1>1, <3>1, InsideIs
  <2>2. ASSUME NEW i \in Seq(Int), NEW x \in Int, i \in T PROVE Append(i, x) \in T
    <3>1. Inside(d, a, i) \in Nodes(d) /\ Inside(e, b, i) \in Nodes(e)
      BY InsideIs
    <3>2. /\ Inside(d, a, Append(i, x)) = Element(d, Inside(d, a, i), x)
          /\ Inside(e, b, Append(i, x)) = Element(e, Inside(e, b, i), x)
      BY InsideIs
    <3>3. Append(i, x) \in Seq(Int)
      OBVIOUS
    <3> QED
      BY <2>2, <3>1, <3>2, <3>3 DEF Simulates
  <2>3. \A i \in Seq(Int) : i \in T
    <3> HIDE DEF T
    <3> QED
      BY <2>1, <2>2, SequenceInduction
  <2> QED
    BY <2>3
<1>2. ASSUME NEW path \in Seq(Segs)
      PROVE  <<From(d, m, path), From(e, n, path)>> \in R
  <2> DEFINE T == {p \in Seq(Segs) : <<From(d, m, p), From(e, n, p)>> \in R}
  <2>1. <<>> \in T
    <3>1. <<>> \in Seq(Segs)
      OBVIOUS
    <3> QED
      BY <3>1, FromIs
  <2>2. ASSUME NEW p \in Seq(Segs), NEW s \in Segs, p \in T PROVE Append(p, s) \in T
    <3> DEFINE a == From(d, m, p)
               b == From(e, n, p)
               key == s.key
    <3>1. /\ From(d, m, Append(p, s)) = SegmentOf(d, a, s) /\ a \in Nodes(d)
          /\ From(e, n, Append(p, s)) = SegmentOf(e, b, s) /\ b \in Nodes(e)
      BY FromIs
    <3>2. <<a, b>> \in R /\ Append(p, s) \in Seq(Segs)
      BY <2>2
    <3>3. key \in Keys /\ s.idx \in Seq(Int)
      BY SegmentParts
    <3> HIDE DEF a, b
    <3>4. /\ SegmentOf(d, a, s) = Inside(d, ChildOf(d, a, key), s.idx)
          /\ SegmentOf(e, b, s) = Inside(e, ChildOf(e, b, key), s.idx)
          /\ ChildOf(d, a, key) \in Nodes(d) /\ ChildOf(e, b, key) \in Nodes(e)
      BY <3>1, SegmentInside
    <3> HIDE DEF key
    <3>5. <<ChildOf(d, a, key), ChildOf(e, b, key)>> \in R
      BY <3>1, <3>2, <3>3 DEF Simulates
    <3>6. <<Inside(d, ChildOf(d, a, key), s.idx), Inside(e, ChildOf(e, b, key), s.idx)>> \in R
      BY <1>1, <3>3, <3>4, <3>5
    <3> QED
      BY <3>1, <3>2, <3>4, <3>6
  <2>3. \A p \in Seq(Segs) : p \in T
    <3> HIDE DEF T
    <3> QED
      BY <2>1, <2>2, SequenceInduction
  <2> QED
    BY <2>3
<1> QED
  BY <1>1, <1>2

\* Behind what is no table, or no array, there is nothing.
LEMMA FromOff ==
  ASSUME NEW d, IsTree(d), NEW node \in Nodes(d), node.type # "Table"
  PROVE  \A path \in Seq(Segs) : path # <<>> => From(d, node, path).type = "None"
<1> DEFINE Off(p) == /\ From(d, node, p).type # "Table"
                     /\ p # <<>> => From(d, node, p).type = "None"
           T == {p \in Seq(Segs) : Off(p)}
<1>1. <<>> \in T
  <2>1. <<>> \in Seq(Segs)
    OBVIOUS
  <2> QED
    BY <2>1, FromIs
<1>2. ASSUME NEW p \in Seq(Segs), NEW s \in Segs, p \in T PROVE Append(p, s) \in T
  <2>1. From(d, node, Append(p, s)) = SegmentOf(d, From(d, node, p), s)
        /\ From(d, node, p) \in Nodes(d)
    BY FromIs
  <2>2. From(d, node, p).type # "Table" /\ Append(p, s) \in Seq(Segs)
    BY <1>2
  <2>3. SegmentOf(d, From(d, node, p), s).type = "None"
    BY <2>1, <2>2, SegmentFrom
  <2> QED
    BY <2>1, <2>2, <2>3
<1>3. \A p \in Seq(Segs) : p \in T
  <2> HIDE DEF T
  <2> QED
    BY <1>1, <1>2, SequenceInduction
<1> QED
  BY <1>3

LEMMA InsideOff ==
  ASSUME NEW d, IsTree(d), NEW node \in Nodes(d), node.type # "Array"
  PROVE  \A idx \in Seq(Int) : idx # <<>> => Inside(d, node, idx).type = "None"
<1> DEFINE Off(i) == /\ Inside(d, node, i).type # "Array"
                     /\ i # <<>> => Inside(d, node, i).type = "None"
           T == {i \in Seq(Int) : Off(i)}
<1>1. <<>> \in T
  <2>1. <<>> \in Seq(Int)
    OBVIOUS
  <2> QED
    BY <2>1, InsideIs
<1>2. ASSUME NEW i \in Seq(Int), NEW x \in Int, i \in T PROVE Append(i, x) \in T
  <2>1. Inside(d, node, Append(i, x)) = Element(d, Inside(d, node, i), x)
        /\ Inside(d, node, i) \in Nodes(d)
    BY InsideIs
  <2>2. Inside(d, node, i).type # "Array" /\ Append(i, x) \in Seq(Int)
    BY <1>2
  <2>3. Element(d, Inside(d, node, i), x).type = "None"
    BY <2>2 DEF Element, NoNode, Node
  <2> QED
    BY <2>1, <2>2, <2>3
<1>3. \A i \in Seq(Int) : i \in T
  <2> HIDE DEF T
  <2> QED
    BY <1>1, <1>2, SequenceInduction
<1> QED
  BY <1>3

\* The node of a table's key, and of an array's index.
LEMMA ChildAt ==
  ASSUME NEW d, IsTree(d), NEW node \in Nodes(d), NEW key \in Keys
  PROVE  /\ node.type = "Table" =>
              /\ node \in Objects(d) /\ <<"table", node.ref, key>> \in Places(d)
              /\ Owner(<<"table", node.ref, key>>) = node
              /\ ChildOf(d, node, key) = NodeAt(d, <<"table", node.ref, key>>)
         /\ node.type # "Table" => ChildOf(d, node, key) = NoNode
<1>1. d \in Docs
  BY TreeIs
<1>2. ASSUME node.type = "Table"
      PROVE  node = Node("Table", node.ref) /\ node \in Objects(d) /\ node.ref \in DOMAIN d.tables
  <2>1. node = Node("Table", node.ref) /\ node \in Objects(d)
    BY <1>1, <1>2, ObjectIs DEF Nodes, IsObject, NodeSet, Node
  <2> QED
    BY <1>1, <2>1, ObjectIs
<1> QED
  BY <1>1, <1>2, InTable DEF ChildOf, Child

LEMMA ElementAtIs ==
  ASSUME NEW d, IsTree(d), NEW node \in Nodes(d), NEW i \in Int
  PROVE  LET p == <<"array", node.ref, i + 1>> IN
         /\ node.type = "Array" => node \in Objects(d)
         /\ node.type = "Array" /\ p \in Places(d) =>
              Owner(p) = node /\ Element(d, node, i) = NodeAt(d, p)
         /\ ~(node.type = "Array" /\ p \in Places(d)) => Element(d, node, i) = NoNode
<1> DEFINE p == <<"array", node.ref, i + 1>>
<1>1. d \in Docs
  BY TreeIs
<1>2. ASSUME node.type = "Array"
      PROVE  node = Node("Array", node.ref) /\ node \in Objects(d) /\ node.ref \in DOMAIN d.arrays
  <2>1. node = Node("Array", node.ref) /\ node \in Objects(d)
    BY <1>1, <1>2, ObjectIs DEF Nodes, IsObject, NodeSet, Node
  <2> QED
    BY <1>1, <2>1, ObjectIs
<1>3. ASSUME node.type = "Array"
      PROVE  p \in Places(d) <=> i + 1 \in DOMAIN d.arrays[node.ref]
  <2>1. i + 1 \in DOMAIN d.arrays[node.ref] => p \in Places(d)
    BY <1>1, <1>2, <1>3, InArray
  <2>2. p \in Places(d) => i + 1 \in DOMAIN d.arrays[node.ref]
    BY DEF Places
  <2> QED
    BY <2>1, <2>2
<1>4. node.type = "Array" /\ p \in Places(d) => Owner(p) = node
  BY <1>2 DEF Owner, Node
<1> QED
  BY <1>2, <1>3, <1>4 DEF Element, NodeAt

\* New tables hold no scalars.
LEMMA GrowsReads ==
  ASSUME NEW d, IsTree(d), NEW e, IsTree(e), Grows(d, e), NEW node \in Nodes(d)
  PROVE  \A path \in Seq(Segs) : Scalar(From(e, node, path)) = Scalar(From(d, node, path))
<1> DEFINE Alike(m, n) ==
             \/ n = m
             \/ m.type = "None" /\ n.type \in {"None", "Table"} /\ n \notin Objects(d)
           R == {x \in Nodes(d) \X Nodes(e) : Alike(x[1], x[2])}
<1>1. d \in Docs /\ e \in Docs /\ NoNode \in Nodes(d) /\ NoNode \in Nodes(e)
      /\ NoNode.type = "None" /\ NoNode \notin Objects(d)
  BY TreeIs, ObjectIs DEF Nodes, NoNode, Node, NodeSet, IsObject
<1>2. \A m, n : <<m, n>> \in R <=> m \in Nodes(d) /\ n \in Nodes(e) /\ Alike(m, n)
  OBVIOUS
<1>3. ASSUME NEW m \in Nodes(d), NEW n \in Nodes(e), Alike(m, n), NEW k \in Keys
      PROVE  Alike(ChildOf(d, m, k), ChildOf(e, n, k))
  <2> DEFINE p == <<"table", n.ref, k>>
  <2>1. CASE n = m /\ m.type = "Table"
    <3>1. /\ p \in Places(d) /\ p \in Places(e)
          /\ ChildOf(d, m, k) = NodeAt(d, p) /\ ChildOf(e, n, k) = NodeAt(e, p)
      BY <2>1, ChildAt
    <3> HIDE DEF p
    <3> QED
      BY <3>1 DEF Grows
  <2>2. CASE n = m /\ m.type # "Table"
    BY <2>2, ChildAt
  <2>3. CASE m.type = "None" /\ n.type = "Table" /\ n \notin Objects(d)
    <3>1. p \in Places(e) /\ ChildOf(e, n, k) = NodeAt(e, p) /\ Owner(p) = n
      BY <2>3, ChildAt
    <3>2. ChildOf(d, m, k) = NoNode
      BY <2>3, ChildAt
    <3> HIDE DEF p
    <3>3. p \notin Places(d)
      BY <1>1, <2>3, <3>1, PlaceTypes
    <3> QED
      BY <1>1, <3>1, <3>2, <3>3 DEF Grows
  <2>4. CASE m.type = "None" /\ n.type = "None"
    BY <2>4, ChildAt
  <2> QED
    BY <1>3, <2>1, <2>2, <2>3, <2>4
<1>4. ASSUME NEW m \in Nodes(d), NEW n \in Nodes(e), Alike(m, n), NEW i \in Int
      PROVE  Alike(Element(d, m, i), Element(e, n, i))
  <2> DEFINE p == <<"array", n.ref, i + 1>>
  <2>1. CASE n = m /\ m.type = "Array"
    <3>1. /\ m \in Objects(d)
          /\ p \in Places(d) => Owner(p) = m /\ Element(d, m, i) = NodeAt(d, p)
          /\ p \notin Places(d) => Element(d, m, i) = NoNode
          /\ p \in Places(e) => Element(e, n, i) = NodeAt(e, p)
          /\ p \notin Places(e) => Element(e, n, i) = NoNode
      BY <2>1, ElementAtIs
    <3> HIDE DEF p
    <3>2. p \in Places(d) => NodeAt(d, p).type # "None"
      BY <2>1, <3>1, TreeIs
    <3>3. p \in Places(d) => p \in Places(e) /\ NodeAt(e, p) = NodeAt(d, p)
      BY <3>2 DEF Grows, Keeps
    <3>4. p \in Places(e) /\ p \notin Places(d) =>
            NodeAt(e, p).type \in {"None", "Table"} /\ NodeAt(e, p) \notin Objects(d)
      BY DEF Grows
    <3> QED
      BY <1>1, <3>1, <3>3, <3>4
  <2>2. CASE n = m /\ m.type # "Array"
    BY <2>2, ElementAtIs
  <2>3. CASE m.type = "None" /\ n.type \in {"None", "Table"}
    <3>1. Element(d, m, i) = NoNode /\ Element(e, n, i) = NoNode
      BY <2>3, ElementAtIs
    <3> QED
      BY <3>1
  <2> QED
    BY <1>4, <2>1, <2>2, <2>3
<1>5. \A m \in Nodes(d), n \in Nodes(e) :
        /\ \A k \in Keys : ChildOf(d, m, k) \in Nodes(d) /\ ChildOf(e, n, k) \in Nodes(e)
        /\ \A i \in Int : Element(d, m, i) \in Nodes(d) /\ Element(e, n, i) \in Nodes(e)
  BY ChildOfIs, ElementIs
<1>6. node \in Nodes(e) /\ Alike(node, node)
  BY DEF Nodes, Grows
<1> HIDE DEF R
<1>7. <<node, node>> \in R
  BY <1>2, <1>6
<1>8. Simulates(R, d, e)
  <2> HIDE DEF Alike
  <2>1. ASSUME NEW m \in Nodes(d), NEW n \in Nodes(e), <<m, n>> \in R, NEW k \in Keys
        PROVE  <<ChildOf(d, m, k), ChildOf(e, n, k)>> \in R
    <3>1. Alike(m, n)
      BY <1>2, <2>1
    <3>2. Alike(ChildOf(d, m, k), ChildOf(e, n, k))
      BY <1>3, <3>1
    <3>3. ChildOf(d, m, k) \in Nodes(d) /\ ChildOf(e, n, k) \in Nodes(e)
      BY <1>5
    <3> QED
      BY <1>2, <3>2, <3>3
  <2>2. ASSUME NEW m \in Nodes(d), NEW n \in Nodes(e), <<m, n>> \in R, NEW i \in Int
        PROVE  <<Element(d, m, i), Element(e, n, i)>> \in R
    <3>1. Alike(m, n)
      BY <1>2, <2>2
    <3>2. Alike(Element(d, m, i), Element(e, n, i))
      BY <1>4, <3>1
    <3>3. Element(d, m, i) \in Nodes(d) /\ Element(e, n, i) \in Nodes(e)
      BY <1>5
    <3> QED
      BY <1>2, <3>2, <3>3
  <2> QED
    BY <2>1, <2>2 DEF Simulates
<1>9. \A path \in Seq(Segs) : <<From(d, node, path), From(e, node, path)>> \in R
  BY <1>6, <1>7, <1>8, Simulated
<1>10. \A path \in Seq(Segs) : Alike(From(d, node, path), From(e, node, path))
  <2> HIDE DEF Alike
  <2> QED
    BY <1>2, <1>9
<1> QED
  BY <1>10 DEF Scalar

\* A set of objects that hold objects of the set only, the same in both documents.
Within(C, n) == IsObject(n) => n \in C
Region(d, e, C) ==
  /\ Same(d, e, C) /\ C \subseteq Objects(d) /\ C \subseteq Objects(e)
  /\ \A p \in Places(d) : Owner(p) \in C => Within(C, NodeAt(d, p))

\* Nothing changes for who reads in it.
LEMMA RegionReads ==
  ASSUME NEW d, IsTree(d), NEW e, IsTree(e), NEW C, Region(d, e, C),
         NEW node \in Nodes(d), Within(C, node)
  PROVE  /\ node \in Nodes(e)
         /\ \A path \in Seq(Segs) : From(e, node, path) = From(d, node, path)
         /\ \A idx \in Seq(Int) :
              /\ Inside(e, node, idx) = Inside(d, node, idx)
              /\ \A path \in Seq(Segs) : ReadAt(e, node, idx, path) = ReadAt(d, node, idx, path)
<1> DEFINE R == {x \in Nodes(d) \X Nodes(e) : x[1] = x[2] /\ Within(C, x[1])}
<1>1. \A m, n : <<m, n>> \in R <=> m \in Nodes(d) /\ n \in Nodes(e) /\ m = n /\ Within(C, m)
  OBVIOUS
<1>2. ~IsObject(NoNode)
  BY DEF IsObject, NoNode, Node
<1>3. ASSUME NEW m \in Nodes(d), m \in Nodes(e), Within(C, m), NEW k \in Keys
      PROVE  ChildOf(e, m, k) = ChildOf(d, m, k) /\ Within(C, ChildOf(d, m, k))
  <2>1. CASE m.type = "Table"
    <3> DEFINE p == <<"table", m.ref, k>>
    <3>1. /\ p \in Places(d) /\ p \in Places(e) /\ Owner(p) = m
          /\ ChildOf(d, m, k) = NodeAt(d, p) /\ ChildOf(e, m, k) = NodeAt(e, p)
      BY <1>3, <2>1, ChildAt
    <3>2. m \in C
      BY <1>3, <2>1 DEF Within, IsObject
    <3> HIDE DEF p
    <3> QED
      BY <3>1, <3>2 DEF Region, Same
  <2>2. CASE m.type # "Table"
    BY <1>2, <1>3, <2>2, ChildAt DEF Within
  <2> QED
    BY <2>1, <2>2
<1>4. ASSUME NEW m \in Nodes(d), m \in Nodes(e), Within(C, m), NEW i \in Int
      PROVE  Element(e, m, i) = Element(d, m, i) /\ Within(C, Element(d, m, i))
  <2> DEFINE p == <<"array", m.ref, i + 1>>
  <2>1. /\ m.type = "Array" /\ p \in Places(d) =>
             Owner(p) = m /\ Element(d, m, i) = NodeAt(d, p)
        /\ ~(m.type = "Array" /\ p \in Places(d)) => Element(d, m, i) = NoNode
        /\ m.type = "Array" /\ p \in Places(e) =>
             Owner(p) = m /\ Element(e, m, i) = NodeAt(e, p)
        /\ ~(m.type = "Array" /\ p \in Places(e)) => Element(e, m, i) = NoNode
    BY <1>4, ElementAtIs
  <2>2. m.type = "Array" => m \in C
    BY <1>4 DEF Within, IsObject
  <2> HIDE DEF p
  <2>3. m.type = "Array" /\ p \in Places(d) =>
          p \in Places(e) /\ NodeAt(e, p) = NodeAt(d, p) /\ Within(C, NodeAt(d, p))
    BY <2>1, <2>2 DEF Region, Same
  <2>4. m.type = "Array" /\ p \in Places(e) => p \in Places(d)
    BY <2>1, <2>2 DEF Region, Same
  <2> QED
    BY <1>2, <2>1, <2>3, <2>4 DEF Within
<1>5. \A m \in Nodes(d) :
        /\ \A k \in Keys : ChildOf(d, m, k) \in Nodes(d)
        /\ \A i \in Int : Element(d, m, i) \in Nodes(d)
  BY ChildOfIs, ElementIs
<1>6. \A m \in Nodes(d) : Within(C, m) => m \in Nodes(e)
  BY DEF Nodes, Within, Region
<1> HIDE DEF R
<1>7. <<node, node>> \in R
  BY <1>1, <1>6
<1>8. Simulates(R, d, e)
  <2>1. ASSUME NEW m \in Nodes(d), NEW n \in Nodes(e), <<m, n>> \in R, NEW k \in Keys
        PROVE  <<ChildOf(d, m, k), ChildOf(e, n, k)>> \in R
    <3>1. n = m /\ Within(C, m) /\ m \in Nodes(e)
      BY <1>1, <2>1
    <3>2. ChildOf(e, m, k) = ChildOf(d, m, k) /\ Within(C, ChildOf(d, m, k))
      BY <1>3, <3>1
    <3>3. ChildOf(d, m, k) \in Nodes(d)
      BY <1>5
    <3> QED
      BY <1>1, <1>6, <3>1, <3>2, <3>3
  <2>2. ASSUME NEW m \in Nodes(d), NEW n \in Nodes(e), <<m, n>> \in R, NEW i \in Int
        PROVE  <<Element(d, m, i), Element(e, n, i)>> \in R
    <3>1. n = m /\ Within(C, m) /\ m \in Nodes(e)
      BY <1>1, <2>2
    <3>2. Element(e, m, i) = Element(d, m, i) /\ Within(C, Element(d, m, i))
      BY <1>4, <3>1
    <3>3. Element(d, m, i) \in Nodes(d)
      BY <1>5
    <3> QED
      BY <1>1, <1>6, <3>1, <3>2, <3>3
  <2> QED
    BY <2>1, <2>2 DEF Simulates
<1>9. node \in Nodes(e)
  BY <1>6
<1>10. /\ \A idx \in Seq(Int) : <<Inside(d, node, idx), Inside(e, node, idx)>> \in R
       /\ \A path \in Seq(Segs) : <<From(d, node, path), From(e, node, path)>> \in R
  BY <1>7, <1>8, <1>9, Simulated
<1>11. ASSUME NEW idx \in Seq(Int), NEW path \in Seq(Segs)
       PROVE  ReadAt(e, node, idx, path) = ReadAt(d, node, idx, path)
  <2> DEFINE m == Inside(d, node, idx)
  <2>1. <<m, Inside(e, node, idx)>> \in R
    BY <1>10
  <2>2. m \in Nodes(d) /\ m \in Nodes(e) /\ Inside(e, node, idx) = m /\ <<m, m>> \in R
    BY <1>1, <2>1
  <2> HIDE DEF m
  <2>3. <<From(d, m, path), From(e, m, path)>> \in R
    BY <1>8, <2>2, Simulated
  <2>4. From(e, m, path) = From(d, m, path)
    BY <1>1, <2>3
  <2> QED
    BY <2>2, <2>4 DEF ReadAt, m
<1>12. ASSUME NEW path \in Seq(Segs) PROVE From(e, node, path) = From(d, node, path)
  <2>1. <<From(d, node, path), From(e, node, path)>> \in R
    BY <1>10
  <2> QED
    BY <1>1, <2>1
<1>13. ASSUME NEW idx \in Seq(Int) PROVE Inside(e, node, idx) = Inside(d, node, idx)
  <2>1. <<Inside(d, node, idx), Inside(e, node, idx)>> \in R
    BY <1>10
  <2> QED
    BY <1>1, <2>1
<1> QED
  BY <1>9, <1>11, <1>12, <1>13

\* Beside a document nothing of it changes, and what is new holds only what is new.
LEMMA BesideRegion ==
  ASSUME NEW d, IsTree(d), NEW e, Beside(d, e)
  PROVE  LET C == Objects(e) \ Objects(d) IN
         /\ Region(d, e, Objects(d)) /\ \A n \in Nodes(d) : Within(Objects(d), n)
         /\ Guarded(e, C) /\ \A p \in Places(e) : Owner(p) \in C => Within(C, NodeAt(e, p))
<1> DEFINE C == Objects(e) \ Objects(d)
<1>1. d \in Docs /\ e \in Docs /\ IsTree(e)
  BY TreeIs DEF Beside
<1>2. \A n \in Nodes(d) : Within(Objects(d), n)
  BY DEF Nodes, Within
<1>3. Region(d, e, Objects(d))
  BY <1>1, <1>2, TreeIs DEF Region, Beside
<1>4. ASSUME NEW p \in Places(e), NodeAt(e, p) \in C PROVE Owner(p) \in C
  <2>1. Owner(p) \in Objects(e) /\ IsObject(NodeAt(e, p))
    BY <1>1, <1>4, PlaceTypes, ObjectIs
  <2>2. ASSUME Owner(p) \in Objects(d) PROVE FALSE
    <3>1. p \in Places(d) /\ NodeAt(e, p) = NodeAt(d, p)
      BY <2>2 DEF Beside, Same
    <3>2. NodeAt(d, p) \in Nodes(d)
      BY <3>1, TreeIs
    <3> QED
      BY <1>4, <2>1, <3>1, <3>2 DEF Nodes
  <2> QED
    BY <2>1, <2>2
<1>5. ASSUME NEW p \in Places(e), Owner(p) \in C PROVE Within(C, NodeAt(e, p))
  <2>1. NodeAt(e, p) \in Nodes(e)
    BY <1>1, TreeIs
  <2>2. NodeAt(e, p) \notin Objects(d)
    BY <1>5 DEF Beside, Guarded
  <2> QED
    BY <2>1, <2>2 DEF Within, Nodes
<1> QED
  BY <1>2, <1>3, <1>4, <1>5 DEF Guarded

\* What an assignment leaves of the value that it puts into its place.
LEMMA PlacedRegion ==
  ASSUME NEW d, IsTree(d), NEW t, Node("Table", t) \in Objects(d),
         NEW value, Good(d, value), NEW top, NEW full, NEW f, NEW u, NEW e,
         Placed(value, t, top, full, f, u, e)
  PROVE  LET C == Objects(value.doc) \ Objects(d) IN
         Region(value.doc, e, C) /\ Within(C, value.node) /\ value.node \in Nodes(value.doc)
<1> DEFINE C == Objects(value.doc) \ Objects(d)
           key == Last(full).key
           P == <<"table", u, key>>
<1>1. /\ value.ok /\ IsTree(f) /\ Leaves(value.doc, f, Node("Table", t), {})
      /\ (Guarded(value.doc, C) /\ Node("Table", t) \notin C => Node("Table", u) \notin C)
      /\ u \in DOMAIN f.tables /\ key \in Keys /\ value.node \in NodeSet
      /\ e = Put(f, u, key, value.node)
  BY DEF Placed
<1>2. Beside(d, value.doc)
  BY DEF Good
<1>3. /\ Guarded(value.doc, C)
      /\ \A p \in Places(value.doc) : Owner(p) \in C => Within(C, NodeAt(value.doc, p))
  BY <1>2, BesideRegion
<1>4. Node("Table", t) \notin C /\ Node("Table", u) \notin C
  BY <1>1, <1>3
<1>5. Same(value.doc, f, C) /\ C \subseteq Objects(f)
  <2>1. C \in SUBSET Objects(value.doc) /\ C \cap {} = {}
    OBVIOUS
  <2> HIDE DEF C
  <2> QED
    BY <1>1, <1>3, <1>4, <2>1 DEF Leaves
<1> HIDE DEF C, key, P
<1>6. /\ Objects(e) = Objects(f) /\ Places(e) = Places(f)
      /\ \A p \in Places(f) : p # P => NodeAt(e, p) = NodeAt(f, p)
  <2>1. f \in Docs
    BY <1>1, TreeIs
  <2> QED
    BY <1>1, <2>1, PutIs DEF P
<1>7. Owner(P) = Node("Table", u)
  BY DEF Owner, P
<1>8. Same(f, e, C)
  BY <1>4, <1>6, <1>7 DEF Same
<1>9. Same(value.doc, e, C)
  BY <1>5, <1>8, SameThrough
<1>10. C \subseteq Objects(value.doc)
  BY DEF C
<1>11. Region(value.doc, e, C)
  BY <1>3, <1>5, <1>6, <1>9, <1>10 DEF Region
<1>12. value.node \in Nodes(value.doc) /\ value.node \notin Objects(d)
  BY <1>1 DEF Good, Usable
<1>13. Within(C, value.node)
  BY <1>12 DEF Within, Nodes, C
<1> QED
  BY <1>11, <1>12, <1>13 DEF C

\* A path in two parts.
LEMMA PathParts ==
  ASSUME NEW path \in Seq(Segs), NEW n \in 1 .. Len(path)
  PROVE  /\ SubSeq(path, 1, n - 1) \in Seq(Segs) /\ Len(SubSeq(path, 1, n - 1)) = n - 1
         /\ path[n] \in Segs /\ path[n].key \in Keys /\ path[n].idx \in Seq(Int)
         /\ SubSeq(path, n + 1, Len(path)) \in Seq(Segs)
         /\ path = Append(SubSeq(path, 1, n - 1), path[n]) \o SubSeq(path, n + 1, Len(path))
<1>1. path[n] \in Segs
  OBVIOUS
<1>2. path[n].key \in Keys /\ path[n].idx \in Seq(Int)
  BY <1>1, SegmentParts
<1>3. SubSeq(path, 1, n - 1) \in Seq(Segs) /\ Len(SubSeq(path, 1, n - 1)) = n - 1
  OBVIOUS
<1>4. SubSeq(path, n + 1, Len(path)) \in Seq(Segs)
  OBVIOUS
<1> DEFINE start == SubSeq(path, 1, n - 1)
           rest == SubSeq(path, n + 1, Len(path))
           l == Len(path)
           whole == Append(start, path[n]) \o rest
<1>5. /\ l \in Nat /\ Len(start) = n - 1 /\ Len(rest) = l - n
      /\ \A i \in 1 .. n - 1 : start[i] = path[i]
      /\ \A i \in 1 .. l - n : rest[i] = path[n + i]
  OBVIOUS
<1> HIDE DEF start, rest
<1>6. start \in Seq(Segs) /\ rest \in Seq(Segs)
  BY <1>3, <1>4 DEF start, rest
<1> DEFINE before == Append(start, path[n])
<1>7. /\ before \in Seq(Segs) /\ Len(before) = n /\ before[n] = path[n]
      /\ \A i \in 1 .. n - 1 : before[i] = path[i]
  BY <1>1, <1>5, <1>6
<1> HIDE DEF before, l
<1>8. /\ whole \in Seq(Segs) /\ Len(whole) = l
      /\ \A i \in 1 .. l : whole[i] = path[i]
  <2>1. l = Len(path)
    BY DEF l
  <2> DEFINE long == before \o rest
  <2>2. /\ long \in Seq(Segs) /\ Len(long) = l
        /\ \A i \in 1 .. l : long[i] = IF i <= n THEN before[i] ELSE rest[i - n]
    <3>1. before \in Seq(Segs) /\ rest \in Seq(Segs) /\ Len(before) = n /\ Len(rest) = l - n
      BY <1>5, <1>6, <1>7
    <3>2. /\ long \in Seq(Segs) /\ Len(long) = Len(before) + Len(rest)
          /\ \A i \in 1 .. Len(before) + Len(rest) :
               long[i] = IF i <= Len(before) THEN before[i] ELSE rest[i - Len(before)]
      BY <3>1, ConcatProperties
    <3> HIDE DEF long
    <3>3. n + (l - n) = l
      BY <1>5
    <3> QED
      BY <3>1, <3>2, <3>3
  <2>3. whole = long
    BY DEF before
  <2> HIDE DEF whole, long
  <2>4. ASSUME NEW i \in 1 .. l PROVE long[i] = path[i]
    <3>1. CASE i <= n
      <4>1. i = n \/ i \in 1 .. n - 1
        BY <1>5, <3>1
      <4>2. long[i] = before[i]
        BY <2>2, <3>1
      <4> QED
        BY <1>7, <4>1, <4>2
    <3>2. CASE ~(i <= n)
      <4>1. i - n \in 1 .. l - n /\ n + (i - n) = i
        BY <1>5, <3>2
      <4>2. long[i] = rest[i - n]
        BY <2>2, <3>2
      <4> QED
        BY <1>5, <4>1, <4>2
    <3> QED
      BY <3>1, <3>2
  <2> QED
    BY <2>2, <2>3, <2>4
<1> HIDE DEF whole
<1>9. path = whole
  BY <1>8 DEF l
<1> QED
  BY <1>1, <1>2, <1>3, <1>4, <1>9 DEF start, rest, whole

\* A path that is not under the one assigned to reads what it read.
LEMMA AssignmentBeside ==
  ASSUME NEW d, NEW top, NEW t, NEW above, NEW keys, NEW value, NEW v,
         Assigns(d, top, t, above, keys, value, v),
         NEW path \in Seq(Segs)
  PROVE  \/ Scalar(From(v.doc, top, path)) = Scalar(From(d, top, path))
         \/ Under(above \o Plain(keys), path)
<1> IsTree(d) /\ Top(d, top) /\ t \in Nat /\ above \in Seq(Segs)
  BY DEF Assigns
<1> /\ From(d, top, above) = Node("Table", t) /\ keys \in Seq(Keys) \ {<<>>}
    /\ Good(d, value) /\ v = Assign(Walk(d, t, TRUE), keys, value) /\ v.ok
  BY DEF Assigns
<1> DEFINE full == above \o Plain(keys)
           e == v.doc
           key == Last(full).key
<1>1. PICK f \in Docs, u \in Nat : Placed(value, t, top, full, f, u, e)
  BY AssignmentPlaces
<1>2. full \in Seq(Segs) \ {<<>>}
  BY LastPlain
<1> HIDE DEF full, e
<1> SUFFICES ASSUME ~Under(full, path)
             PROVE  Scalar(From(e, top, path)) = Scalar(From(d, top, path))
  BY DEF full, e
<1>3. /\ IsTree(f) /\ Top(f, top) /\ u \in DOMAIN f.tables /\ key \in Keys
      /\ value.node \in NodeSet /\ IsTree(e) /\ e = Put(f, u, key, value.node)
      /\ From(f, top, SubSeq(full, 1, Len(full) - 1)) = Node("Table", u)
      /\ Grows(value.doc, f)
  BY <1>1 DEF Placed
<1> HIDE DEF key
<1>4. top \in Nodes(d) /\ top \in Nodes(f)
  BY <1>3, TopIs
<1>5. From(e, top, path) = From(f, top, path)
  <2>1. From(e, top, path) = From(f, top, path) \/ Passes(f, top, path, u, key)
    BY <1>3, <1>4, FromPut
  <2>2. Passes(f, top, path, u, key) => Under(full, path)
    BY <1>2, <1>3, PassesUnder DEF key
  <2> QED
    BY <1>2, <2>1, <2>2
<1>6. IsTree(value.doc) /\ Region(d, value.doc, Objects(d)) /\ Within(Objects(d), top)
  <2>1. Beside(d, value.doc)
    BY DEF Good
  <2> QED
    BY <1>4, <2>1, BesideRegion DEF Beside
<1>7. top \in Nodes(value.doc) /\ From(value.doc, top, path) = From(d, top, path)
  BY <1>4, <1>6, RegionReads
<1>8. Scalar(From(f, top, path)) = Scalar(From(value.doc, top, path))
  BY <1>3, <1>6, <1>7, GrowsReads
<1> QED
  BY <1>5, <1>7, <1>8 DEF e

\* A path under the one assigned to reads what the value holds.
LEMMA AssignmentUnder ==
  ASSUME NEW d, NEW top, NEW t, NEW above, NEW keys, NEW value, NEW v,
         Assigns(d, top, t, above, keys, value, v),
         NEW path \in Seq(Segs), NEW n, n = Len(above) + Len(keys)
  PROVE  Under(above \o Plain(keys), path) =>
           Scalar(From(v.doc, top, path)) =
             ReadAt(value.doc, value.node, path[n].idx, SubSeq(path, n + 1, Len(path)))
<1> IsTree(d) /\ Top(d, top) /\ t \in Nat /\ above \in Seq(Segs)
  BY DEF Assigns
<1> /\ From(d, top, above) = Node("Table", t) /\ keys \in Seq(Keys) \ {<<>>}
    /\ Good(d, value) /\ v = Assign(Walk(d, t, TRUE), keys, value) /\ v.ok
  BY DEF Assigns
<1> DEFINE full == above \o Plain(keys)
           e == v.doc
           key == Last(full).key
<1> SUFFICES ASSUME Under(full, path)
             PROVE  Scalar(From(e, top, path)) =
                      ReadAt(value.doc, value.node, path[n].idx, SubSeq(path, n + 1, Len(path)))
  OBVIOUS
<1>1. PICK f \in Docs, u \in Nat : Placed(value, t, top, full, f, u, e)
  BY AssignmentPlaces
<1>2. full \in Seq(Segs) \ {<<>>} /\ Under(full, path) /\ Len(full) = n /\ n \in Nat \ {0}
  <2>1. full \in Seq(Segs) \ {<<>>} /\ Len(full) = n
    BY LastPlain
  <2> HIDE DEF full
  <2> QED
    BY <2>1, EmptySeq DEF full
<1> HIDE DEF full, e
<1>3. /\ IsTree(f) /\ Top(f, top) /\ u \in DOMAIN f.tables /\ key \in Keys
      /\ value.node \in NodeSet /\ IsTree(e) /\ e = Put(f, u, key, value.node)
      /\ From(f, top, SubSeq(full, 1, Len(full) - 1)) = Node("Table", u)
  BY <1>1 DEF Placed
<1>4. Node("Table", t) \in Objects(d)
  <2>1. top \in Nodes(d)
    BY TopIs
  <2>2. Node("Table", t) \in Nodes(d)
    BY <2>1, FromIs
  <2> QED
    BY <2>2 DEF Nodes, IsObject, Node
<1> DEFINE start == SubSeq(path, 1, n - 1)
           rest == SubSeq(path, n + 1, Len(path))
           idx == path[n].idx
<1>5. n \in 1 .. Len(path) /\ path[n].key = key /\ start = SubSeq(full, 1, Len(full) - 1)
  <2>1. n <= Len(path) /\ path[n].key = key /\ IsPrefix(Front(full), path)
    BY <1>2 DEF Under
  <2> DEFINE front == SubSeq(full, 1, n - 1)
  <2>2. n - 1 \in 0 .. Len(full) /\ full \in Seq(Segs) /\ full[1] \in Segs /\ Len(path) \in Nat
    BY <1>2
  <2>3. front \in Seq(Segs) /\ Len(front) = n - 1 /\ Front(full) = front
    <3>1. front \in Seq(Segs)
      BY <2>2, Starts
    <3>2. Len(front) = n - 1
      BY <1>2, <2>2
    <3> QED
      BY <1>2, <3>1, <3>2 DEF Front
  <2>4. SubSeq(front, 1, Len(front)) = front
    BY <2>2, <2>3, Starts
  <2>5. SubSeq(front, 1, Len(front)) = SubSeq(path, 1, Len(front))
    BY <2>1, <2>3 DEF IsPrefix
  <2> HIDE DEF front
  <2>6. start = front
    BY <2>3, <2>4, <2>5
  <2> QED
    BY <1>2, <2>1, <2>2, <2>6 DEF front
<1>6. /\ start \in Seq(Segs) /\ Len(start) = n - 1 /\ path[n] \in Segs /\ rest \in Seq(Segs)
      /\ idx \in Seq(Int) /\ path = Append(start, path[n]) \o rest
  BY <1>5, PathParts
<1> HIDE DEF key, start, rest, idx
<1>7. top \in Nodes(f) /\ top \in Nodes(e)
  <2>1. top \in Nodes(f)
    BY <1>3, TopIs
  <2>2. f \in Docs
    OBVIOUS
  <2>3. Objects(e) = Objects(f)
    BY <1>3, PutIs
  <2> QED
    BY <2>1, <2>3 DEF Nodes
<1>8. From(e, top, start) = Node("Table", u)
  <2>1. From(e, top, start) = From(f, top, start) \/ Passes(f, top, start, u, key)
    BY <1>3, <1>6, <1>7, FromPut
  <2>2. Passes(f, top, start, u, key) => Under(full, start)
    BY <1>2, <1>3, <1>6, PassesUnder DEF key
  <2>3. ~Under(full, start)
    BY <1>2, <1>6 DEF Under
  <2> QED
    BY <1>3, <1>5, <2>1, <2>2, <2>3
<1> DEFINE table == Node("Table", u)
           child == ChildOf(e, table, key)
<1>9. table \in Nodes(e)
  BY <1>3, <1>6, <1>7, <1>8, FromIs
<1>10. child = value.node
  <2>1. e.tables[u][key] = value.node
    BY <1>3 DEF Put, IsTree, Docs
  <2> QED
    BY <1>3, <2>1 DEF ChildOf, Child, Node
<1> HIDE DEF table, child
<1>11. From(e, top, Append(start, path[n])) = Inside(e, value.node, idx)
  <2>1. From(e, top, Append(start, path[n])) = SegmentOf(e, table, path[n])
    BY <1>3, <1>6, <1>7, <1>8, FromIs DEF table
  <2>2. SegmentOf(e, table, path[n]) = Inside(e, ChildOf(e, table, path[n].key), path[n].idx)
    BY <1>3, <1>6, <1>9, SegmentInside
  <2> QED
    BY <1>5, <1>10, <2>1, <2>2 DEF child, idx
<1>12. From(e, top, path) = From(e, Inside(e, value.node, idx), rest)
  <2> DEFINE before == Append(start, path[n])
  <2>1. before \in Seq(Segs)
    BY <1>6
  <2> HIDE DEF before
  <2>2. From(e, top, before \o rest) = From(e, From(e, top, before), rest)
    BY <1>3, <1>6, <1>7, <2>1, FromOn
  <2> QED
    BY <1>6, <1>11, <2>2 DEF before
<1>13. Scalar(From(e, top, path)) = ReadAt(e, value.node, idx, rest)
  BY <1>12 DEF ReadAt
<1>14. ReadAt(e, value.node, idx, rest) = ReadAt(value.doc, value.node, idx, rest)
  <2> DEFINE C == Objects(value.doc) \ Objects(d)
  <2>1. Region(value.doc, e, C) /\ Within(C, value.node) /\ value.node \in Nodes(value.doc)
    BY <1>1, <1>4, PlacedRegion
  <2>2. IsTree(value.doc)
    BY DEF Good, Beside
  <2> HIDE DEF C
  <2> QED
    BY <1>3, <1>6, <2>1, <2>2, RegionReads
<1> QED
  BY <1>13, <1>14 DEF e, rest, idx

\* Both for every path at once.
ReadsBeside(d, e, top, full) ==
  \A path \in Seq(Segs) :
    Scalar(From(e, top, path)) = Scalar(From(d, top, path)) \/ Under(full, path)

ReadsUnder(e, top, full, n, value) ==
  \A path \in Seq(Segs) :
    Under(full, path) =>
      Scalar(From(e, top, path)) =
        ReadAt(value.doc, value.node, path[n].idx, SubSeq(path, n + 1, Len(path)))

LEMMA AssignmentReads ==
  ASSUME NEW d, NEW top, NEW t, NEW above, NEW keys, NEW value, NEW v,
         Assigns(d, top, t, above, keys, value, v)
  PROVE  /\ ReadsBeside(d, v.doc, top, above \o Plain(keys))
         /\ ReadsUnder(v.doc, top, above \o Plain(keys), Len(above) + Len(keys), value)
<1>1. ReadsBeside(d, v.doc, top, above \o Plain(keys))
  BY AssignmentBeside DEF ReadsBeside
<1>2. ReadsUnder(v.doc, top, above \o Plain(keys), Len(above) + Len(keys), value)
  BY AssignmentUnder DEF ReadsUnder
<1> QED
  BY <1>1, <1>2
--------------------------------------------------------------------------------
(* Values are read as they were written *)

\* Where the node has nothing at the indices or along the path.
LEMMA ReadNothing ==
  ASSUME NEW d, IsTree(d), NEW node \in Nodes(d), NEW idx \in Seq(Int), NEW path \in Seq(Segs),
         \/ idx # <<>> /\ node.type # "Array"
         \/ idx = <<>> /\ path # <<>> /\ node.type # "Table"
         \/ idx = <<>> /\ path = <<>> /\ node.type # "Scalar"
  PROVE  ReadAt(d, node, idx, path) = NoNode
<1> DEFINE n == Inside(d, node, idx)
           s == From(d, n, path)
<1>1. n \in Nodes(d) /\ (idx = <<>> => n = node)
  BY InsideIs
<1>2. idx # <<>> /\ node.type # "Array" => n.type = "None"
  BY InsideOff
<1> HIDE DEF n
<1>3. path = <<>> => s = n
  BY <1>1, FromIs
<1>4. path # <<>> /\ n.type # "Table" => s.type = "None"
  BY <1>1, FromOff
<1>5. s.type # "Scalar"
  BY <1>1, <1>2, <1>3, <1>4
<1> QED
  BY <1>5 DEF ReadAt, Scalar, n

\* The node reads as the literal does by denote.
Finds(denote, d, node, lit) ==
  \A idx \in Seq(Nat), path \in Seq(SegmentSet) :
    ReadAt(d, node, idx, path) = denote[lit, idx, path]

Faithful(read, denote) ==
  \A d \in Docs, lit \in Values :
    IsTree(d) /\ read[d, lit].ok => Finds(denote, read[d, lit].doc, read[d, lit].node, lit)

LEMMA ReaderPaths ==
  ASSUME NEW idx \in Seq(Nat), NEW path \in Seq(SegmentSet)
  PROVE  idx \in Seq(Int) /\ path \in Seq(Segs)
<1>1. Nat \subseteq Int
  OBVIOUS
<1> QED
  BY <1>1, SegmentSetIs, SeqMonotonic

LEMMA ScalarFinds ==
  ASSUME NEW read, NEW inside, NEW d, IsTree(d), NEW lit \in Values, lit.type = "Scalar",
         NEW r, r = Reading(read, d, lit), NEW idx \in Seq(Nat), NEW path \in Seq(SegmentSet)
  PROVE  ReadAt(r.doc, r.node, idx, path) = DenotedBy(inside, lit, idx, path)
<1> DEFINE node == Node("Scalar", lit.vals)
<1>1. r.doc = d /\ r.node = node
  BY DEF Reading, Parsed
<1>2. lit.vals \in Nat
  BY TomlAssumption
<1>3. node \in Nodes(d) /\ node.type = "Scalar"
  BY <1>2 DEF Node, NodeSet, Nodes, IsObject
<1>4. idx \in Seq(Int) /\ path \in Seq(Segs)
  BY ReaderPaths
<1>5. CASE idx = <<>> /\ path = <<>>
  <2>1. Inside(d, node, idx) = node /\ From(d, node, path) = node
    BY <1>3, <1>4, <1>5, InsideIs, FromIs
  <2>2. ReadAt(d, node, idx, path) = node
    BY <1>3, <2>1 DEF ReadAt, Scalar
  <2>3. DenotedBy(inside, lit, idx, path) = node
    BY <1>5 DEF DenotedBy
  <2> QED
    BY <1>1, <2>2, <2>3
<1>6. CASE ~(idx = <<>> /\ path = <<>>)
  <2> HIDE DEF node
  <2>1. ReadAt(d, node, idx, path) = NoNode
    BY <1>3, <1>4, <1>6, ReadNothing
  <2>2. DenotedBy(inside, lit, idx, path) = NoNode
    BY <1>6 DEF DenotedBy
  <2> QED
    BY <1>1, <2>1, <2>2
<1> QED
  BY <1>5, <1>6

\* The elements of an array.
LEMMA ElementsFind ==
  ASSUME NEW read, Reader(read), NEW inside, Faithful(read, inside),
         NEW d, IsTree(d), NEW lit \in Values, lit.type = "Array",
         NEW e, e = ReadElements(read, d, lit.vals), e.ok
  PROVE  /\ IsTree(e.doc) /\ Elementary(e.doc, e.nodes) /\ Len(e.nodes) = Len(lit.vals)
         /\ \A i \in 1 .. Len(lit.vals) : Finds(inside, e.doc, e.nodes[i], lit.vals[i])
<1> DEFINE lits == lit.vals
           m == Len(lits)
           Done(x, n) ==
             x.ok => /\ Len(x.nodes) = n
                     /\ \A i \in 1 .. n : Finds(inside, x.doc, x.nodes[i], lits[i])
<1>1. PICK g : /\ ElementsAlong(g, read, d, lits)
               /\ \A n \in 0 .. m : g[n] \in Gathering(d)
               /\ e = g[m]
  BY ElementsSteps
<1>2. m \in Nat /\ \A n \in 1 .. m : lits[n] \in Values
  BY TomlAssumption
<1> DEFINE T == {n \in 0 .. m : Done(g[n], n)}
<1>3. 0 \in T
  <2> DEFINE start == [doc |-> d, nodes |-> <<>>, ok |-> TRUE]
  <2>1. g[0] = start
    BY <1>1, Zenon DEF ElementsAlong
  <2>2. start.nodes = <<>>
    BY Zenon
  <2> HIDE DEF start
  <2>3. Len(g[0].nodes) = 0
    BY <2>1, <2>2
  <2>4. \A i \in 1 .. 0 : FALSE
    OBVIOUS
  <2> QED
    BY <1>2, <2>3, <2>4
<1>4. ASSUME NEW n \in 1 .. m, n - 1 \in T PROVE n \in T
  <2> DEFINE x == g[n - 1]
             value == read[x.doc, lits[n]]
  <2>1. n \in 0 .. m /\ n - 1 \in 0 .. m
    BY <1>2
  <2>2. g[n] = NextElement(x, value)
    BY <1>1 DEF ElementsAlong
  <2>3. x \in Gathering(d) /\ Done(x, n - 1)
    BY <1>1, <1>4, <2>1
  <2>4. SUFFICES ASSUME g[n].ok PROVE Done(g[n], n)
    BY <2>1
  <2> HIDE DEF x, Done
  <2>5. x.doc \in Docs /\ IsTree(x.doc) /\ x.nodes \in Seq(NodeSet) /\ Elementary(x.doc, x.nodes)
    BY <2>3 DEF Gathering, Beside
  <2>6. Good(x.doc, value) /\ (value.ok => Finds(inside, value.doc, value.node, lits[n]))
    BY <1>2, <2>5 DEF Reader, Faithful
  <2> HIDE DEF value
  <2>7. /\ x.ok /\ value.ok
        /\ g[n] = [doc |-> value.doc, ok |-> TRUE, nodes |-> Append(x.nodes, value.node)]
    <3>1. x.ok
      BY <2>2, <2>4 DEF NextElement
    <3>2. value.ok
      BY <2>2, <2>4, <3>1 DEF NextElement
    <3>3. value.ok = TRUE
      BY <2>6, <3>2 DEF Good, Results
    <3> QED
      BY <2>2, <3>1, <3>2, <3>3 DEF NextElement
  <2> DEFINE nodes == Append(x.nodes, value.node)
  <2>8. Len(x.nodes) = n - 1 /\ \A i \in 1 .. n - 1 : Finds(inside, x.doc, x.nodes[i], lits[i])
    BY <2>3, <2>7 DEF Done
  <2>9. Len(nodes) = n /\ nodes[n] = value.node /\ \A i \in 1 .. n - 1 : nodes[i] = x.nodes[i]
    <3>1. value.node \in NodeSet
      BY <2>6 DEF Good, Results
    <3> QED
      BY <2>5, <2>8, <3>1
  <2>10. ASSUME NEW i \in 1 .. n - 1 PROVE Finds(inside, value.doc, x.nodes[i], lits[i])
    <3> DEFINE node == x.nodes[i]
    <3>1. node \in Nodes(x.doc)
      BY <2>5, <2>8, <2>10 DEF Elementary, Usable
    <3>2. /\ IsTree(value.doc) /\ Region(x.doc, value.doc, Objects(x.doc))
          /\ Within(Objects(x.doc), node)
      <4>1. Beside(x.doc, value.doc)
        BY <2>6 DEF Good
      <4> HIDE DEF node
      <4> QED
        BY <2>5, <3>1, <4>1, BesideRegion DEF Beside
    <3>3. Finds(inside, x.doc, node, lits[i])
      BY <2>8
    <3> HIDE DEF node
    <3>4. ASSUME NEW idx \in Seq(Nat), NEW path \in Seq(SegmentSet)
          PROVE  ReadAt(value.doc, node, idx, path) = inside[lits[i], idx, path]
      <4>1. idx \in Seq(Int) /\ path \in Seq(Segs)
        BY ReaderPaths
      <4>2. ReadAt(value.doc, node, idx, path) = ReadAt(x.doc, node, idx, path)
        BY <2>5, <3>1, <3>2, <4>1, RegionReads
      <4> QED
        BY <3>3, <4>2 DEF Finds
    <3> QED
      BY <3>4 DEF Finds, node
  <2> HIDE DEF nodes
  <2>11. ASSUME NEW i \in 1 .. n PROVE Finds(inside, value.doc, nodes[i], lits[i])
    <3>1. i = n \/ i \in 1 .. n - 1
      OBVIOUS
    <3> QED
      BY <2>6, <2>7, <2>9, <2>10, <3>1
  <2> QED
    BY <2>7, <2>9, <2>11 DEF Done, nodes
<1>5. \A n \in 0 .. m : n \in T
  <2> HIDE DEF T
  <2> QED
    BY <1>2, <1>3, <1>4, BoundedInduction
<1>6. Done(e, m) /\ e \in Gathering(d)
  BY <1>1, <1>2, <1>5
<1> QED
  BY <1>6 DEF Gathering, Beside

LEMMA NewArrayRegion ==
  ASSUME NEW d, IsTree(d), NEW nodes, Elementary(d, nodes),
         NEW e, e = WithArray(d, nodes),
         NEW array, array = Node("Array", Len(d.arrays) + 1)
  PROVE  /\ IsTree(e) /\ Region(d, e, Objects(d)) /\ array \in Nodes(e)
         /\ e.arrays[array.ref] = nodes
<1>1. d \in Docs /\ nodes \in Seq(NodeSet)
  BY TreeIs DEF Elementary
<1> DEFINE a == Len(d.arrays) + 1
<1>2. array = Node("Array", a) /\ array.ref = a
  BY DEF Node
<1> HIDE DEF a
<1>3. /\ Objects(e) = Objects(d) \cup {array} /\ array \in NodeSet \ Objects(d)
      /\ \A p \in Places(d) : p \in Places(e) /\ NodeAt(e, p) = NodeAt(d, p)
      /\ \A p \in Places(e) \ Places(d) : Owner(p) = array
      /\ e.arrays[a] = nodes
  BY <1>1, <1>2, NewArrayDoes DEF a
<1>4. IsTree(e)
  BY NewArrayLeaves DEF Leaves, WithArray
<1>5. Same(d, e, Objects(d))
  BY <1>3 DEF Same
<1>6. \A p \in Places(d) : Owner(p) \in Objects(d) => Within(Objects(d), NodeAt(d, p))
  BY TreeIs DEF Nodes, Within
<1>7. Region(d, e, Objects(d))
  BY <1>3, <1>5, <1>6 DEF Region
<1> QED
  BY <1>2, <1>3, <1>4, <1>7 DEF Nodes

\* An index finds the element that was written there, and no index anything else.
LEMMA ArrayFinds ==
  ASSUME NEW read, Reader(read), NEW inside, Faithful(read, inside),
         NEW d, IsTree(d), NEW lit \in Values, lit.type = "Array",
         NEW r, r = Reading(read, d, lit), r.ok,
         NEW idx \in Seq(Nat), NEW path \in Seq(SegmentSet)
  PROVE  ReadAt(r.doc, r.node, idx, path) = DenotedBy(inside, lit, idx, path)
<1> DEFINE e == ReadElements(read, d, lit.vals)
           f == [e.doc EXCEPT !.arrays = Append(@, e.nodes)]
           array == Node("Array", Len(e.doc.arrays) + 1)
           m == Len(lit.vals)
<1>1. r.doc = f /\ r.node = array /\ e.ok
  BY DEF Reading, Parsed
<1>2. array.type = "Array"
  BY DEF Node
<1>3. idx \in Seq(Int) /\ path \in Seq(Segs) /\ m \in Nat
  BY ReaderPaths, TomlAssumption
<1>4. /\ IsTree(e.doc) /\ Elementary(e.doc, e.nodes) /\ Len(e.nodes) = m
      /\ \A i \in 1 .. m : Finds(inside, e.doc, e.nodes[i], lit.vals[i])
  BY <1>1, ElementsFind
<1> HIDE DEF e, m
<1>5. /\ IsTree(f) /\ Region(e.doc, f, Objects(e.doc)) /\ array \in Nodes(f)
      /\ f.arrays[array.ref] = e.nodes
  <2> DEFINE old == e.doc
             nodes == e.nodes
  <2> HIDE DEF old, nodes
  <2>1. f = WithArray(old, nodes) /\ array = Node("Array", Len(old.arrays) + 1)
    BY DEF old, nodes, WithArray
  <2>2. IsTree(old) /\ Elementary(old, nodes)
    BY <1>4 DEF old, nodes
  <2> HIDE DEF f, array
  <2>3. /\ IsTree(f) /\ Region(old, f, Objects(old)) /\ array \in Nodes(f)
        /\ f.arrays[array.ref] = nodes
    BY <2>1, <2>2, NewArrayRegion
  <2> QED
    BY <2>3 DEF old, nodes
<1> HIDE DEF f, array
<1>6. CASE idx = <<>>
  <2>1. ReadAt(f, array, idx, path) = NoNode
    BY <1>2, <1>3, <1>5, <1>6, ReadNothing
  <2>2. DenotedBy(inside, lit, idx, path) = NoNode
    BY <1>6 DEF DenotedBy
  <2> QED
    BY <1>1, <2>1, <2>2
<1>7. CASE idx # <<>>
  <2> DEFINE i == Head(idx)
             t == Tail(idx)
             element == Element(f, array, i)
  <2>1. i \in Nat /\ t \in Seq(Nat) /\ idx = <<i>> \o t
    BY <1>7, HeadTailProperties
  <2> HIDE DEF i, t
  <2>2. t \in Seq(Int) /\ i \in Int
    BY <2>1, ReaderPaths
  <2>3. element \in Nodes(f) /\ Inside(f, array, idx) = Inside(f, element, t)
    BY <1>5, <2>1, <2>2, InsideFirst, ElementIs
  <2>4. ReadAt(f, array, idx, path) = ReadAt(f, element, t, path)
    BY <2>3 DEF ReadAt
  <2>5. e.nodes \in Seq(NodeSet) /\ DOMAIN e.nodes = 1 .. m
    BY <1>4 DEF Elementary
  <2>6. CASE i < m
    <3> DEFINE node == e.nodes[i + 1]
    <3>1. i + 1 \in 1 .. m
      BY <1>3, <2>1, <2>6
    <3>2. element = node /\ node \in Nodes(e.doc)
      BY <1>2, <1>4, <1>5, <2>5, <3>1 DEF Element, Elementary, Usable
    <3>3. Finds(inside, e.doc, node, lit.vals[i + 1])
      BY <1>4, <3>1
    <3> HIDE DEF node
    <3>4. Within(Objects(e.doc), node)
      BY <3>2 DEF Within, Nodes
    <3>5. ReadAt(f, node, t, path) = ReadAt(e.doc, node, t, path)
      BY <1>3, <1>4, <1>5, <2>2, <3>2, <3>4, RegionReads
    <3>6. ReadAt(e.doc, node, t, path) = inside[lit.vals[i + 1], t, path]
      BY <2>1, <3>3 DEF Finds
    <3>7. DenotedBy(inside, lit, idx, path) = inside[lit.vals[i + 1], t, path]
      BY <1>7, <2>6 DEF DenotedBy, i, t, m
    <3> QED
      BY <1>1, <2>4, <3>2, <3>5, <3>6, <3>7
  <2>7. CASE ~(i < m)
    <3>1. element = NoNode
      BY <1>3, <1>5, <2>1, <2>5, <2>7 DEF Element
    <3>2. NoNode.type = "None"
      BY DEF NoNode, Node
    <3> HIDE DEF element
    <3>3. ReadAt(f, element, t, path) = NoNode
      BY <1>3, <1>5, <2>2, <2>3, <3>1, <3>2, ReadNothing
    <3>4. DenotedBy(inside, lit, idx, path) = NoNode
      BY <1>7, <2>7 DEF DenotedBy, i, m
    <3> QED
      BY <1>1, <2>4, <3>3, <3>4
  <2> QED
    BY <2>6, <2>7
<1> QED
  BY <1>6, <1>7

\* A table without keys.
LEMMA EmptyReads ==
  ASSUME NEW d, IsTree(d), NEW table \in Nodes(d), table.type = "Table",
         \A k \in Keys : ChildOf(d, table, k) = NoNode
  PROVE  \A path \in Seq(Segs) : Scalar(From(d, table, path)) = NoNode
<1> DEFINE T == {p \in Seq(Segs) : \/ p = <<>> /\ From(d, table, p) = table
                                   \/ From(d, table, p).type = "None"}
<1>1. <<>> \in T
  <2>1. <<>> \in Seq(Segs)
    OBVIOUS
  <2> QED
    BY <2>1, FromIs
<1>2. ASSUME NEW p \in Seq(Segs), NEW s \in Segs, p \in T PROVE Append(p, s) \in T
  <2> DEFINE n == From(d, table, p)
  <2>1. From(d, table, Append(p, s)) = SegmentOf(d, n, s) /\ n \in Nodes(d)
    BY FromIs
  <2>2. n = table \/ n.type = "None"
    BY <1>2
  <2> HIDE DEF n
  <2>3. SegmentOf(d, n, s).type = "None"
    <3>1. CASE n.type = "None"
      BY <2>1, <3>1, SegmentFrom
    <3>2. CASE n = table
      <4>1. s.key \in Keys /\ s.idx \in Seq(Int)
        BY SegmentParts
      <4>2. SegmentOf(d, table, s) = Inside(d, NoNode, s.idx) /\ NoNode \in Nodes(d)
        <5>1. ChildOf(d, table, s.key) = NoNode
          BY <4>1
        <5> QED
          BY <5>1, SegmentInside
      <4>3. NoNode.type = "None"
        BY DEF NoNode, Node
      <4>4. Inside(d, NoNode, s.idx).type = "None"
        <5>1. CASE s.idx = <<>>
          BY <4>1, <4>2, <4>3, <5>1, InsideIs
        <5>2. CASE s.idx # <<>>
          BY <4>1, <4>2, <4>3, <5>2, InsideOff
        <5> QED
          BY <5>1, <5>2
      <4> QED
        BY <3>2, <4>2, <4>4
    <3> QED
      BY <2>2, <3>1, <3>2
  <2>4. Append(p, s) \in Seq(Segs)
    OBVIOUS
  <2> QED
    BY <2>1, <2>3, <2>4
<1>3. \A p \in Seq(Segs) : p \in T
  <2> HIDE DEF T
  <2> QED
    BY <1>1, <1>2, SequenceInduction
<1> QED
  BY <1>3 DEF Scalar

\* What a path reads in entry i of a table, and r is what it reads in the first j of
\* them: in the last of those that lead to it.
OfEntry(inside, lit, i, path) ==
  LET n == Len(lit.keys[i])
  IN inside[lit.vals[i], path[n].idx, SubSeq(path, n + 1, Len(path))]

OfEntries(inside, lit, j, path, r) ==
  \/ (\A i \in 1 .. j : ~Under(Plain(lit.keys[i]), path)) /\ r = NoNode
  \/ \E i \in 1 .. j : /\ Under(Plain(lit.keys[i]), path)
                       /\ \A k \in i + 1 .. j : ~Under(Plain(lit.keys[k]), path)
                       /\ r = OfEntry(inside, lit, i, path)

LEMMA MaxIs ==
  ASSUME NEW S \in SUBSET Nat, NEW i \in S, \A k \in S : i >= k
  PROVE  Max(S) = i
<1> DEFINE max == CHOOSE x \in S : \A y \in S : x >= y
<1>1. \E x \in S : \A y \in S : x >= y
  OBVIOUS
<1>2. max \in S /\ \A y \in S : max >= y
  BY <1>1
<1>3. Max(S) = max
  BY DEF Max
<1> HIDE DEF max
<1>4. max \in Nat /\ i \in Nat /\ i >= max /\ max >= i
  BY <1>2
<1>5. max = i
  BY <1>4
<1> QED
  BY <1>3, <1>5

LEMMA AllEntries ==
  ASSUME NEW inside, NEW lit \in Values, lit.type = "Table", NEW path, NEW r,
         OfEntries(inside, lit, Len(lit.keys), path, r)
  PROVE  r = DenotedBy(inside, lit, <<>>, path)
<1> DEFINE m == Len(lit.keys)
           leads == {i \in DOMAIN lit.keys : Under(Plain(lit.keys[i]), path)}
<1>1. DOMAIN lit.keys = 1 .. m /\ m \in Nat
  BY TomlAssumption
<1>2. DenotedBy(inside, lit, <<>>, path) =
        IF leads # {} THEN OfEntry(inside, lit, Max(leads), path) ELSE NoNode
  BY DEF DenotedBy, OfEntry
<1>3. \A i : i \in leads <=> i \in 1 .. m /\ Under(Plain(lit.keys[i]), path)
  BY <1>1
<1> HIDE DEF leads, m
<1>4. CASE (\A i \in 1 .. m : ~Under(Plain(lit.keys[i]), path)) /\ r = NoNode
  <2>1. leads = {}
    BY <1>3, <1>4
  <2> QED
    BY <1>2, <1>4, <2>1
<1>5. ASSUME NEW i \in 1 .. m, Under(Plain(lit.keys[i]), path),
             \A k \in i + 1 .. m : ~Under(Plain(lit.keys[k]), path),
             r = OfEntry(inside, lit, i, path)
      PROVE  r = DenotedBy(inside, lit, <<>>, path)
  <2>1. i \in leads /\ leads \in SUBSET Nat
    BY <1>1, <1>3, <1>5
  <2>2. ASSUME NEW k \in leads PROVE i >= k
    <3>1. k \in 1 .. m /\ k \notin i + 1 .. m
      BY <1>3, <1>5
    <3> QED
      BY <1>1, <3>1
  <2>3. Max(leads) = i
    BY <2>1, <2>2, MaxIs
  <2> QED
    BY <1>2, <1>5, <2>1, <2>3
<1> QED
  BY <1>4, <1>5 DEF OfEntries, m

\* Each entry of an inline table is read where it was written, and as it was.
LEMMA EntryFinds ==
  ASSUME NEW inside, NEW lit, NEW j \in Nat \ {0}, NEW keys, keys = lit.keys[j],
         keys \in Seq(Keys) \ {<<>>},
         NEW d, IsTree(d), NEW t \in Nat, NEW table, table = Node("Table", t), Free(d, table),
         NEW value, Good(d, value),
         value.ok => Finds(inside, value.doc, value.node, lit.vals[j]),
         NEW v, v = Assign(Walk(d, t, TRUE), keys, value), v.ok,
         NEW path \in Seq(SegmentSet),
         OfEntries(inside, lit, j - 1, path, Scalar(From(d, table, path)))
  PROVE  OfEntries(inside, lit, j, path, Scalar(From(v.doc, table, path)))
<1>1. Len(keys) \in Nat \ {0}
  BY EmptySeq
<1>2. Top(d, table) /\ table \in Nodes(d)
  BY TopIs DEF Top
<1> DEFINE above == <<>>
<1>3. /\ above \in Seq(Segs) /\ From(d, table, above) = Node("Table", t) /\ path \in Seq(Segs)
      /\ Len(above) = 0
  <2>1. above \in Seq(Segs) /\ Len(above) = 0
    OBVIOUS
  <2>2. path \in Seq(Segs)
    BY SegmentSetIs
  <2> QED
    BY <1>2, <2>1, <2>2, FromIs
<1>4. above \o Plain(keys) = Plain(keys)
  <2>1. Plain(keys) \in Seq(Segs)
    BY <1>1, PlainIs
  <2> QED
    BY <2>1, ConcatEmptySeq
<1> HIDE DEF above
<1> DEFINE e == v.doc
<1> HIDE DEF e
<1>5. ReadsBeside(d, e, table, Plain(keys)) /\ ReadsUnder(e, table, Plain(keys), Len(keys), value)
  <2>1. Assigns(d, table, t, above, keys, value, v)
    BY <1>2, <1>3 DEF Assigns
  <2>2. /\ ReadsBeside(d, e, table, above \o Plain(keys))
        /\ ReadsUnder(e, table, above \o Plain(keys), Len(above) + Len(keys), value)
    BY <2>1, AssignmentReads DEF e
  <2>3. Len(above) + Len(keys) = Len(keys)
    BY <1>1, <1>3
  <2> QED
    BY <1>4, <2>2, <2>3
<1>6. CASE ~Under(Plain(keys), path)
  <2>1. Scalar(From(v.doc, table, path)) = Scalar(From(d, table, path))
    BY <1>3, <1>6, <1>5 DEF ReadsBeside, e
  <2> DEFINE r == Scalar(From(d, table, path))
  <2>2. OfEntries(inside, lit, j - 1, path, r)
    OBVIOUS
  <2> HIDE DEF r
  <2>3. ~Under(Plain(lit.keys[j]), path)
    BY <1>6
  <2>4. OfEntries(inside, lit, j, path, r)
    <3>1. CASE (\A i \in 1 .. j - 1 : ~Under(Plain(lit.keys[i]), path)) /\ r = NoNode
      <4>1. \A i \in 1 .. j : i \in 1 .. j - 1 \/ i = j
        BY <1>1
      <4> QED
        BY <2>3, <3>1, <4>1 DEF OfEntries
    <3>2. ASSUME NEW i \in 1 .. j - 1, Under(Plain(lit.keys[i]), path),
                 \A k \in i + 1 .. j - 1 : ~Under(Plain(lit.keys[k]), path),
                 r = OfEntry(inside, lit, i, path)
          PROVE  OfEntries(inside, lit, j, path, r)
      <4>1. i \in 1 .. j /\ \A k \in i + 1 .. j : k \in i + 1 .. j - 1 \/ k = j
        BY <1>1
      <4> QED
        BY <2>3, <3>2, <4>1 DEF OfEntries
    <3> QED
      BY <2>2, <3>1, <3>2 DEF OfEntries
  <2> QED
    BY <2>1, <2>4 DEF r
<1>7. CASE Under(Plain(keys), path)
  <2> DEFINE n == Len(keys)
             idx == path[n].idx
             rest == SubSeq(path, n + 1, Len(path))
  <2>1. Scalar(From(v.doc, table, path)) = ReadAt(value.doc, value.node, idx, rest)
    BY <1>3, <1>7, <1>5 DEF ReadsUnder, e
  <2>2. n \in 1 .. Len(path)
    <3>1. Len(Plain(keys)) = n
      BY <1>1, PlainIs
    <3>2. n <= Len(path)
      BY <1>7, <3>1 DEF Under
    <3> QED
      BY <1>1, <3>2
  <2>3. idx \in Seq(Nat) /\ rest \in Seq(SegmentSet)
    <3> HIDE DEF n
    <3>1. path[n] \in SegmentSet
      BY <2>2
    <3>2. rest \in Seq(SegmentSet)
      BY <2>2
    <3> QED
      BY <3>1, <3>2 DEF SegmentSet
  <2>4. value.ok
    <3>1. \E f \in Docs, u \in Nat : Placed(value, t, table, above \o Plain(keys), f, u, v.doc)
      BY <1>1, <1>2, <1>3, AssignmentPlaces
    <3> QED
      BY <3>1 DEF Placed
  <2>5. Finds(inside, value.doc, value.node, lit.vals[j])
    BY <2>4
  <2>6. ReadAt(value.doc, value.node, idx, rest) = inside[lit.vals[j], idx, rest]
    BY <2>3, <2>5 DEF Finds
  <2>7. inside[lit.vals[j], idx, rest] = OfEntry(inside, lit, j, path)
    BY DEF OfEntry
  <2> HIDE DEF n, idx, rest
  <2>8. j \in 1 .. j /\ \A k \in j + 1 .. j : FALSE
    BY <1>1
  <2> QED
    BY <1>7, <2>1, <2>6, <2>7, <2>8 DEF OfEntries
<1> QED
  BY <1>6, <1>7

LEMMA NewTableReads ==
  ASSUME NEW d, IsTree(d), NEW new, new = NewTable(d), NEW n, n = Len(new.tables)
  PROVE  \A k \in Keys : ChildOf(new, Node("Table", n), k) = NoNode
<1>1. d \in Docs
  BY TreeIs
<1>2. new.tables = Append(d.tables, Empty)
  BY <1>1 DEF NewTable, Docs
<1>3. d.tables \in Seq([Keys -> NodeSet])
  BY <1>1 DEF Docs
<1>4. new.tables[n] = Empty
  BY <1>2, <1>3
<1>5. Node("Table", n).type = "Table" /\ Node("Table", n).ref = n
  BY DEF Node
<1> QED
  BY <1>4, <1>5 DEF ChildOf, Child, Empty

\* An inline table.
LEMMA TableFinds ==
  ASSUME NEW read, Reader(read), NEW inside, Faithful(read, inside),
         NEW d, IsTree(d), NEW lit \in Values, lit.type = "Table",
         NEW r, r = Reading(read, d, lit), r.ok,
         NEW idx \in Seq(Nat), NEW path \in Seq(SegmentSet)
  PROVE  ReadAt(r.doc, r.node, idx, path) = DenotedBy(inside, lit, idx, path)
<1> DEFINE new == NewTable(d)
           from == Walk(new, Len(new.tables), TRUE)
           w == Entries(read, from, lit)
           t == Len(new.tables)
           table == Node("Table", t)
           m == Len(lit.keys)
           Done(v, n) ==
             v.ok => \A p \in Seq(SegmentSet) :
                       OfEntries(inside, lit, n, p, Scalar(From(v.doc, table, p)))
<1>1. r = Parsed(w.doc, table, w.ok)
  BY DEF Reading
<1>2. from \in Filling(d, table) /\ table \in NodeSet
  <2>1. Stand(from) = table
    BY DEF Stand, Walk
  <2> QED
    BY <2>1, NewTableFills
<1>3. from.doc = new /\ \A k \in Keys : ChildOf(new, table, k) = NoNode
  BY NewTableReads DEF Walk
<1>4. table.type = "Table" /\ table.ref = t
  BY DEF Node
<1>5. t \in Nat
  BY <1>2, <1>4 DEF NodeSet
<1>6. m \in Nat /\ \A n \in 1 .. m : lit.keys[n] \in Seq(Keys) \ {<<>>} /\ lit.vals[n] \in Values
  <2>1. /\ lit.keys \in Seq(Seq(Keys) \ {<<>>}) /\ lit.vals \in Seq(Values)
        /\ Len(lit.keys) = Len(lit.vals)
    BY TomlAssumption
  <2> QED
    BY <2>1
<1> HIDE DEF from, new, t
<1>7. PICK g : /\ EntriesAlong(g, read, from, lit)
               /\ \A n \in 0 .. m : g[n] \in Filling(d, table)
               /\ w = g[m]
  BY <1>2, EntriesSteps
<1> DEFINE T == {n \in 0 .. m : Done(g[n], n)}
<1>8. 0 \in T
  <2>1. g[0] = from /\ IsTree(new) /\ table \in Nodes(new)
    <3>1. g[0] = from
      BY <1>7 DEF EntriesAlong
    <3>2. IsTree(new) /\ Free(new, table)
      BY <1>2, <1>3 DEF Filling, Standing
    <3> QED
      BY <1>2, <3>1, <3>2 DEF Nodes, Free
  <2> HIDE DEF table
  <2>2. \A p \in Seq(Segs) : Scalar(From(new, table, p)) = NoNode
    BY <1>3, <1>4, <2>1, EmptyReads
  <2>3. ASSUME NEW p \in Seq(SegmentSet)
        PROVE  OfEntries(inside, lit, 0, p, Scalar(From(new, table, p)))
    <3>1. p \in Seq(Segs)
      BY SegmentSetIs
    <3>2. \A i \in 1 .. 0 : FALSE
      OBVIOUS
    <3> QED
      BY <2>2, <3>1, <3>2 DEF OfEntries
  <2>4. 0 \in 0 .. m
    BY <1>6
  <2> QED
    BY <1>3, <2>1, <2>3, <2>4
<1>9. ASSUME NEW n \in 1 .. m, n - 1 \in T PROVE n \in T
  <2> DEFINE x == g[n - 1]
             value == read[x.doc, lit.vals[n]]
             keys == lit.keys[n]
             v == Assign(Walk(x.doc, t, TRUE), keys, value)
  <2>1. n \in 0 .. m /\ n - 1 \in 0 .. m /\ n \in Nat \ {0}
    BY <1>6
  <2>2. g[n] = IF x.ok THEN Assign(x, keys, value) ELSE x
    BY <1>7 DEF EntriesAlong
  <2>3. x \in Filling(d, table) /\ Done(x, n - 1)
    BY <1>7, <1>9, <2>1
  <2>4. SUFFICES ASSUME g[n].ok PROVE Done(g[n], n)
    BY <2>1
  <2> HIDE DEF x, Done, keys
  <2>5. x.ok
    <3> HIDE DEF value
    <3> QED
      BY <2>2, <2>4
  <2>6. x \in Walks /\ x.doc \in Docs /\ IsTree(x.doc) /\ Free(x.doc, table) /\ Stand(x) = table
    BY <2>3, <2>5, TreeIs DEF Filling, Standing
  <2>7. Good(x.doc, value) /\ (value.ok => Finds(inside, value.doc, value.node, lit.vals[n]))
    BY <1>6, <2>6 DEF Reader, Faithful
  <2> HIDE DEF value
  <2>8. x = Walk(x.doc, t, TRUE)
    <3>1. x.at = t
      BY <2>6 DEF Stand, Node
    <3>2. x.ok = TRUE
      BY <2>5, <2>6 DEF Walks
    <3> QED
      BY <2>6, <3>1, <3>2 DEF Walks, Walk
  <2>9. g[n] = v /\ v.ok
    BY <2>2, <2>4, <2>5, <2>8
  <2>10. keys = lit.keys[n] /\ keys \in Seq(Keys) \ {<<>>}
    BY <1>6 DEF keys
  <2> HIDE DEF v
  <2>11. ASSUME NEW p \in Seq(SegmentSet)
         PROVE  OfEntries(inside, lit, n, p, Scalar(From(v.doc, table, p)))
    <3>1. OfEntries(inside, lit, n - 1, p, Scalar(From(x.doc, table, p)))
      BY <2>3, <2>5 DEF Done
    <3>2. table = Node("Table", t) /\ v = Assign(Walk(x.doc, t, TRUE), keys, value)
      BY DEF v
    <3> HIDE DEF table
    <3> QED
      BY <1>5, <2>1, <2>6, <2>7, <2>9, <2>10, <3>1, <3>2, EntryFinds
  <2> QED
    BY <2>9, <2>11 DEF Done
<1>10. \A n \in 0 .. m : n \in T
  <2> HIDE DEF T
  <2> QED
    BY <1>6, <1>8, <1>9, BoundedInduction
<1>11. w \in Filling(d, table) /\ Done(w, m)
  <2>1. m \in 0 .. m
    BY <1>6
  <2> QED
    BY <1>7, <1>10, <2>1
<1> HIDE DEF w
<1>12. /\ r.doc = w.doc /\ r.node = table /\ w.ok
       /\ IsTree(w.doc) /\ table \in Nodes(w.doc)
  BY <1>1, <1>2, <1>11 DEF Parsed, Filling, Standing, Nodes, Free
<1>13. CASE idx # <<>>
  <2>1. idx \in Seq(Int) /\ path \in Seq(Segs)
    BY ReaderPaths
  <2> HIDE DEF table
  <2>2. ReadAt(w.doc, table, idx, path) = NoNode
    BY <1>4, <1>12, <1>13, <2>1, ReadNothing
  <2>3. DenotedBy(inside, lit, idx, path) = NoNode
    BY <1>13 DEF DenotedBy
  <2> QED
    BY <1>12, <2>2, <2>3
<1>14. CASE idx = <<>>
  <2> HIDE DEF table
  <2>1. ReadAt(w.doc, table, idx, path) = Scalar(From(w.doc, table, path))
    <3>1. <<>> \in Seq(Int)
      OBVIOUS
    <3>2. Inside(w.doc, table, idx) = table
      BY <3>1, <1>12, <1>14, InsideIs
    <3> QED
      BY <3>2 DEF ReadAt
  <2>2. OfEntries(inside, lit, m, path, Scalar(From(w.doc, table, path)))
    BY <1>11, <1>12
  <2>3. Scalar(From(w.doc, table, path)) = DenotedBy(inside, lit, <<>>, path)
    BY <2>2, AllEntries
  <2> QED
    BY <1>12, <1>14, <2>1, <2>3
<1> QED
  BY <1>13, <1>14

\* What the paths read in literals of each depth, from those of the depth below.
DenotedAlong(denoted, m) ==
  \A lit \in Values, idx \in Seq(Nat), path \in Seq(SegmentSet) :
    \A n \in 1 .. m : denoted[n][lit, idx, path] = DenotedBy(denoted[n - 1], lit, idx, path)

LEMMA DenotedSteps ==
  ASSUME NEW lit \in Values
  PROVE  \E denoted : /\ DenotedAlong(denoted, Depth[lit] + 1)
                      /\ \A idx, path : Denoted(lit, idx, path) =
                                         denoted[Depth[lit] + 1][lit, idx, path]
<1> DEFINE on(f, n) ==
             [x \in Values \X Seq(Nat) \X Seq(SegmentSet) |->
                IF n = 0 THEN NoNode ELSE DenotedBy(f[n - 1], x[1], x[2], x[3])]
           m == Depth[lit] + 1
           denoted[n \in 0 .. m] == on(denoted, n)
           Def(f, k) == f = [n \in 0 .. k |-> on(f, n)]
           U == {k \in 0 .. m : \E f : Def(f, k)}
<1>1. ASSUME NEW idx, NEW path PROVE Denoted(lit, idx, path) = denoted[m][lit, idx, path]
  BY DEF Denoted
<1>2. m \in Nat
  BY TomlAssumption
<1> HIDE DEF m
<1>3. 0 \in U
  <2> DEFINE g == [n \in 0 .. 0 |-> on(<<>>, 0)]
  <2>1. on(g, 0) = on(<<>>, 0)
    OBVIOUS
  <2> HIDE DEF on
  <2>2. Def(g, 0)
    BY <2>1
  <2> HIDE DEF g, Def
  <2> QED
    BY <1>2, <2>2
<1>4. ASSUME NEW k \in 1 .. m, k - 1 \in U PROVE k \in U
  <2>1. PICK f : Def(f, k - 1)
    <3> HIDE DEF Def
    <3> QED
      BY <1>4
  <2> DEFINE g == [n \in 0 .. k |-> IF n < k THEN f[n] ELSE on(f, k)]
  <2>2. (\A n \in 0 .. k - 1 : g[n] = f[n]) /\ \A n \in 0 .. k - 1 : f[n] = on(f, n)
    <3> HIDE DEF on
    <3> QED
      BY <1>2, <2>1
  <2>3. g[k] = on(f, k)
    <3> HIDE DEF on
    <3> QED
      BY <1>2
  <2> HIDE DEF g
  <2>4. ASSUME NEW n \in 0 .. k PROVE on(g, n) = on(f, n)
    <3>1. CASE n = 0
      BY <3>1
    <3>2. CASE n # 0
      <4>1. n - 1 \in 0 .. k - 1
        BY <1>2, <3>2
      <4>2. g[n - 1] = f[n - 1]
        <5> HIDE DEF on
        <5> QED
          BY <2>2, <4>1
      <4> QED
        BY <3>2, <4>2
    <3> QED
      BY <3>1, <3>2
  <2> HIDE DEF on
  <2>5. ASSUME NEW n \in 0 .. k PROVE g[n] = on(g, n)
    <3>1. n \in 0 .. k - 1 \/ n = k
      BY <1>2
    <3> QED
      BY <2>2, <2>3, <2>4, <3>1
  <2>6. g = [n \in 0 .. k |-> on(g, n)]
    <3>1. g = [n \in 0 .. k |-> g[n]]
      BY DEF g
    <3> QED
      BY <2>5, <3>1
  <2>7. Def(g, k)
    BY <2>6
  <2> HIDE DEF Def
  <2> QED
    BY <1>2, <2>7
<1>5. \E f : Def(f, m)
  <2> HIDE DEF U
  <2>1. m \in U
    BY <1>2, <1>3, <1>4, BoundedInduction
  <2> HIDE DEF Def
  <2> QED
    BY <2>1 DEF U
<1>6. denoted = [n \in 0 .. m |-> on(denoted, n)]
  <2> HIDE DEF on
  <2> QED
    BY <1>5
<1> HIDE DEF denoted
<1>7. ASSUME NEW l \in Values, NEW idx \in Seq(Nat), NEW path \in Seq(SegmentSet),
             NEW n \in 1 .. m
      PROVE  denoted[n][l, idx, path] = DenotedBy(denoted[n - 1], l, idx, path)
  <2>1. n \in 0 .. m /\ n # 0
    BY <1>2
  <2>2. denoted[n] = on(denoted, n)
    <3> HIDE DEF on
    <3> QED
      BY <1>6, <2>1
  <2>3. on(denoted, n)[l, idx, path] = DenotedBy(denoted[n - 1], l, idx, path)
    BY <2>1
  <2> QED
    BY <2>2, <2>3
<1>8. DenotedAlong(denoted, m)
  BY <1>7 DEF DenotedAlong
<1> QED
  BY <1>1, <1>8 DEF m

FindsIn(inside, r, lit) ==
  \A idx \in Seq(Nat), path \in Seq(SegmentSet) :
    ReadAt(r.doc, r.node, idx, path) = DenotedBy(inside, lit, idx, path)

LEMMA ReadingFinds ==
  ASSUME NEW read, Reader(read), NEW inside, Faithful(read, inside),
         NEW d, IsTree(d), NEW lit \in Values, NEW r, r = Reading(read, d, lit), r.ok
  PROVE  FindsIn(inside, r, lit)
<1>1. lit.type = "Scalar" \/ lit.type = "Array" \/ lit.type = "Table"
  BY TomlAssumption
<1> QED
  BY <1>1, ScalarFinds, ArrayFinds, TableFinds DEF FindsIn

\* parse_value: what a path reads in the value is what it reads in the literal.
LEMMA ParseValueFinds ==
  ASSUME NEW d, IsTree(d), NEW lit \in Values,
         NEW value, value = ParseValue(d, lit), value.ok,
         NEW idx \in Seq(Nat), NEW path \in Seq(SegmentSet)
  PROVE  ReadAt(value.doc, value.node, idx, path) = Denoted(lit, idx, path)
<1> DEFINE m == Depth[lit] + 1
<1>1. m \in Nat /\ d \in Docs
  BY TreeIs, TomlAssumption
<1>2. PICK parse : ParseAlong(parse, m) /\ ParseValue(d, lit) = parse[m][d, lit]
  BY <1>1, ParseSteps
<1>3. PICK denoted : /\ DenotedAlong(denoted, m)
                     /\ \A i, p : Denoted(lit, i, p) = denoted[m][lit, i, p]
  BY DenotedSteps
<1> HIDE DEF m
<1> DEFINE T == {n \in 0 .. m : Reader(parse[n]) /\ Faithful(parse[n], denoted[n])}
<1>4. 0 \in T
  <2>1. ASSUME NEW e \in Docs, NEW l \in Values
        PROVE  parse[0][e, l] = Parsed(e, NoNode, FALSE) /\ ~parse[0][e, l].ok
    <3>1. parse[0][e, l] = Parsed(e, NoNode, FALSE)
      BY <1>2 DEF ParseAlong
    <3>2. ~Parsed(e, NoNode, FALSE).ok
      BY DEF Parsed
    <3> QED
      BY <3>1, <3>2
  <2>2. ASSUME NEW e \in Docs, NEW l \in Values, IsTree(e) PROVE Good(e, parse[0][e, l])
    BY <2>1, <2>2, FailedGood
  <2>3. Reader(parse[0])
    BY <2>2 DEF Reader
  <2>4. Faithful(parse[0], denoted[0])
    BY <2>1 DEF Faithful
  <2> QED
    BY <1>1, <2>3, <2>4
<1>5. ASSUME NEW n \in 1 .. m, n - 1 \in T PROVE n \in T
  <2> DEFINE read == parse[n - 1]
             inside == denoted[n - 1]
  <2>1. n \in 0 .. m /\ Reader(read) /\ Faithful(read, inside)
    BY <1>1, <1>5
  <2>2. ASSUME NEW e \in Docs, NEW l \in Values, IsTree(e)
        PROVE  parse[n][e, l] = Reading(read, e, l) /\ Good(e, parse[n][e, l])
    <3>1. parse[n][e, l] = Reading(read, e, l)
      BY <1>2 DEF ParseAlong
    <3> QED
      BY <2>1, <2>2, <3>1, ReadingGood
  <2>3. ASSUME NEW e \in Docs, NEW l \in Values, IsTree(e), parse[n][e, l].ok
        PROVE  Finds(denoted[n], parse[n][e, l].doc, parse[n][e, l].node, l)
    <3> DEFINE r == Reading(read, e, l)
    <3>1. parse[n][e, l] = r /\ r.ok
      BY <2>2, <2>3
    <3> HIDE DEF r
    <3>2. r = Reading(read, e, l)
      BY DEF r
    <3> HIDE DEF read, inside
    <3>3. ASSUME NEW i \in Seq(Nat), NEW p \in Seq(SegmentSet)
          PROVE  ReadAt(r.doc, r.node, i, p) = denoted[n][l, i, p]
      <4>1. ReadAt(r.doc, r.node, i, p) = DenotedBy(inside, l, i, p)
        <5>1. FindsIn(inside, r, l)
          BY <2>1, <2>3, <3>1, <3>2, ReadingFinds
        <5> QED
          BY <5>1 DEF FindsIn
      <4>2. denoted[n][l, i, p] = DenotedBy(inside, l, i, p)
        BY <1>3 DEF DenotedAlong, inside
      <4> QED
        BY <4>1, <4>2
    <3>4. Finds(denoted[n], r.doc, r.node, l)
      BY <3>3 DEF Finds
    <3> QED
      BY <3>1, <3>4
  <2>4. Reader(parse[n])
    BY <2>2 DEF Reader
  <2>5. Faithful(parse[n], denoted[n])
    BY <2>3 DEF Faithful
  <2> QED
    BY <2>1, <2>4, <2>5
<1>6. \A n \in 0 .. m : n \in T
  <2> HIDE DEF T
  <2> QED
    BY <1>1, <1>4, <1>5, BoundedInduction
<1>7. Faithful(parse[m], denoted[m])
  BY <1>1, <1>6
<1>8. Finds(denoted[m], value.doc, value.node, lit)
  BY <1>1, <1>2, <1>7 DEF Faithful
<1> QED
  BY <1>3, <1>8 DEF Finds

--------------------------------------------------------------------------------
(* The statements *)

\* The path leads to the node, in every document that is the same above it.
Found(d, path, node) ==
  \E C \in SUBSET Objects(d) :
    /\ Safe(d, node, C)
    /\ \A e \in Docs : IsTree(e) /\ Same(d, e, C) => Resolve(e, path) = node

\* A header that does not fail finds its table where its keys lead.
LEMMA HeaderFinds ==
  ASSUME NEW d, IsTree(d), NEW keys \in Seq(Keys) \ {<<>>}, NEW v,
         Stepped(Along(Descend, Walk(d, root, TRUE), keys), Last(keys), v),
         v.ok
  PROVE  LET path == PathAlong(v.doc, keys)[Len(keys)] IN
         /\ v \in Standing /\ Keeps(d, v.doc)
         /\ path \in Seq(SegmentSet) /\ Found(v.doc, path, Stand(v))
<1> DEFINE w == Along(Descend, Walk(d, root, TRUE), keys)
           n == Len(keys)
<1>1. w \in Standing /\ Keeps(d, w.doc) /\ (w.ok => Leads(w.doc, keys, n - 1, Stand(w)))
  BY NavigateLeads
<1> HIDE DEF w
<1>2. Stepped(w, Last(keys), v)
  BY DEF w
<1>3. keys \in Seq(Keys) /\ n \in 1 .. Len(keys) /\ Last(keys) = keys[n]
  BY DEF Last
<1>4. LET child == Child(v.doc, w.at, keys[n]) IN
        \/ child = Node("Table", v.at)
        \/ /\ child.type = "Array" /\ v.doc.arrays[child.ref] # <<>>
           /\ LastElement(v.doc, child.ref) = Node("Table", v.at)
  BY <1>2, <1>3 DEF Stepped, LeadsTo, Stand
<1>5. /\ IsTree(w.doc) /\ Leads(w.doc, keys, n - 1, Node("Table", w.at))
      /\ Leaves(w.doc, v.doc, Node("Table", w.at), {})
  BY <1>1, <1>2 DEF Stepped, Stand, Standing
<1>6. Leads(v.doc, keys, n, Node("Table", v.at))
  BY <1>3, <1>4, <1>5, LeadsOn
<1>7. v \in Standing /\ Keeps(d, v.doc)
  BY <1>1, <1>2, KeepsThrough DEF Stepped
<1> QED
  BY <1>6, <1>7 DEF Leads, Found, Stand

\* An assignment below a table that is found does not change how it is found.
LEMMA AssignmentKeepsFound ==
  ASSUME NEW d, IsTree(d), NEW t \in Nat, NEW path, Found(d, path, Node("Table", t)),
         NEW keys \in Seq(Keys) \ {<<>>}, NEW lit \in Values
  PROVE  LET v == Assign(Walk(d, t, TRUE), keys, ParseValue(d, lit)) IN
         /\ v \in Standing
         /\ v.ok => v.at = t /\ Found(v.doc, path, Node("Table", t))
<1> DEFINE w == Walk(d, t, TRUE)
           value == ParseValue(d, lit)
           v == Assign(w, keys, value)
           table == Node("Table", t)
<1>1. PICK C \in SUBSET Objects(d) :
        /\ Safe(d, table, C)
        /\ \A e \in Docs : IsTree(e) /\ Same(d, e, C) => Resolve(e, path) = table
  BY DEF Found
<1>2. Good(d, value)
  BY ParseValueGood
<1>3. d \in Docs
  BY TreeIs
<1>4. w \in Walks /\ Stand(w) = table /\ w.at = t
  BY <1>3 DEF Walks, Walk, Stand
<1> HIDE DEF w, value, table
<1>5. /\ value \in Results /\ IsTree(value.doc)
      /\ value.ok => Usable(value.doc, value.node)
      /\ Leaves(d, value.doc, table, {})
  BY <1>2, BesideLeaves DEF Good, Beside
<1>6. Safe(value.doc, table, C) /\ Same(d, value.doc, C) /\ C \in SUBSET Objects(value.doc)
  <2>1. C \cap {} = {}
    OBVIOUS
  <2> QED
    BY <1>1, <1>5, <2>1, SafeAfter
<1>7. /\ v \in Standing /\ (v.ok => v.at = t)
      /\ Leaves(value.doc, v.doc, table, {value.node})
  <2>1. Stand(w) \in Objects(value.doc)
    BY <1>4, <1>6 DEF Safe
  <2> QED
    BY <1>4, <1>5, <2>1, AssignLeaves
<1> HIDE DEF v
<1>8. Safe(v.doc, table, C) /\ Same(value.doc, v.doc, C) /\ C \in SUBSET Objects(v.doc)
  <2>1. C \cap {value.node} = {}
    BY <1>2 DEF Good
  <2> QED
    BY <1>6, <1>7, <2>1, SafeAfter
<1>9. Same(d, v.doc, C)
  BY <1>6, <1>8, SameThrough
<1>10. ASSUME NEW e \in Docs, IsTree(e), Same(v.doc, e, C) PROVE Resolve(e, path) = table
  BY <1>1, <1>9, <1>10, SameThrough
<1>11. Found(v.doc, path, table)
  BY <1>8, <1>10 DEF Found
<1> QED
  BY <1>7, <1>11 DEF v, w, value, table

--------------------------------------------------------------------------------
(* The theorems *)

\* The inductive invariant: the table of the last header is found under it, by the
\* reader of any document that differs from this one at and below the table only.
IInv == TypeOK /\ (state # "threw" => Found(doc, here, Node("Table", cur)))

LEMMA InitIInv == Init => IInv
<1> SUFFICES ASSUME Init PROVE IInv
  OBVIOUS
<1> USE DEF Init
<1>1. Empty \in [Keys -> NodeSet] /\ \A k \in Keys : Empty[k] = NoNode
  BY DEF Empty, NoNode, Node, NodeSet
<1>2. /\ doc \in Docs /\ doc.tables = <<Empty>> /\ doc.arrays = <<>>
      /\ DOMAIN doc.tables = {1} /\ DOMAIN doc.arrays = {}
  BY <1>1 DEF Docs
<1>3. \A p \in Places(doc) : p[1] = "table" /\ NodeAt(doc, p) = NoNode
  BY <1>1, <1>2 DEF Places, NodeAt
<1>4. IsTree(doc)
  BY <1>2, <1>3 DEF IsTree, root, NoNode, Node, IsObject
<1>5. TypeOK
  BY <1>2, <1>4, TomlAssumption DEF TypeOK, root
<1>6. Found(doc, here, Node("Table", cur))
  <2>1. Root = Node("Table", cur)
    BY DEF Root
  <2>2. Safe(doc, Root, {})
    BY <1>4, TreeIs DEF Safe, Guarded
  <2>3. \A e \in Docs : IsTree(e) => Resolve(e, here) = Root
    <3>1. <<>> \in Seq(Segs)
      OBVIOUS
    <3> QED
      BY <3>1, ResolveIs
  <2> QED
    BY <2>1, <2>2, <2>3 DEF Found
<1> QED
  BY <1>5, <1>6 DEF IInv

\* What a header leaves behind, if it does not fail.
LEMMA HeaderStep ==
  ASSUME IInv, NEW keys \in Headers, NEW v, NextStatement, After(v), Here(keys),
         v.ok => Stepped(NavigateToParent(keys), Last(keys), v)
  PROVE  IInv' /\ (state' # "threw" => Keeps(doc, doc'))
<1>1. keys \in Seq(Keys) \ {<<>>}
  BY TomlAssumption
<1>2. IsTree(doc) /\ state = "parsing"
  BY DEF IInv, TypeOK, NextStatement
<1>3. count' \in 0 .. MaxStatements
  BY TomlAssumption DEF IInv, TypeOK, NextStatement
<1>4. CASE v.ok
  <2>1. doc' = v.doc /\ cur' = v.at /\ state' = "parsing"
    BY <1>2, <1>4 DEF After
  <2>2. here' = PathAlong(doc', keys)[Len(keys)]
    BY <2>1 DEF Here
  <2>3. Stepped(Along(Descend, Walk(doc, root, TRUE), keys), Last(keys), v)
    BY <1>4 DEF NavigateToParent
  <2>4. /\ v \in Standing /\ Keeps(doc, v.doc)
        /\ PathAlong(v.doc, keys)[Len(keys)] \in Seq(SegmentSet)
        /\ Found(v.doc, PathAlong(v.doc, keys)[Len(keys)], Stand(v))
    BY <1>1, <1>2, <1>4, <2>3, HeaderFinds
  <2>5. IsTree(v.doc) /\ v.at \in DOMAIN v.doc.tables
    BY <2>4, TreeIs, ObjectIs DEF Standing, Stand
  <2>6. TypeOK'
    BY <1>3, <2>1, <2>2, <2>4, <2>5 DEF TypeOK
  <2>7. Found(doc, here, Node("Table", cur))'
    BY <2>1, <2>2, <2>4 DEF Stand
  <2> QED
    BY <2>1, <2>4, <2>6, <2>7 DEF IInv
<1>5. CASE ~v.ok
  <2>1. state' = "threw" /\ UNCHANGED <<doc, cur, here>>
    BY <1>5 DEF After, Here
  <2> QED
    BY <1>3, <2>1 DEF IInv, TypeOK
<1> QED
  BY <1>4, <1>5

LEMMA HeaderSteps ==
  ASSUME IInv, NEW keys \in Headers, TableHeader(keys) \/ ArrayHeader(keys)
  PROVE  IInv' /\ (state' # "threw" => Keeps(doc, doc'))
<1> DEFINE w == NavigateToParent(keys)
           v == IF w.ok THEN EnsureTable(w, Last(keys)) ELSE w
           u == IF w.ok THEN AppendElement(w, Last(keys)) ELSE w
<1>1. keys \in Seq(Keys) \ {<<>>} /\ Last(keys) \in Keys
  BY TomlAssumption DEF Last
<1>2. IsTree(doc)
  BY DEF IInv, TypeOK
<1>3. w \in Standing
  BY <1>1, <1>2, NavigateLeads DEF NavigateToParent
<1> HIDE DEF w
<1>4. /\ v.ok => Stepped(w, Last(keys), v)
      /\ u.ok => Stepped(w, Last(keys), u)
  BY <1>1, <1>3, EnsureTableSteps, AppendElementSteps
<1>5. NextStatement /\ (After(v) \/ After(u)) /\ Here(keys)
  BY DEF TableHeader, ArrayHeader, w
<1> HIDE DEF v, u
<1> QED
  BY <1>4, <1>5, HeaderStep DEF w

LEMMA NextIInv == IInv /\ [Next]_vars => IInv'
<1> SUFFICES ASSUME IInv, [Next]_vars PROVE IInv'
  OBVIOUS
<1> USE TomlAssumption
<1>1. IsTree(doc) /\ cur \in Nat
  BY ObjectIs DEF IInv, TypeOK, IsTree, Docs
<1>2. ASSUME NEW keys \in Headers, TableHeader(keys) \/ ArrayHeader(keys) PROVE IInv'
  BY <1>2, HeaderSteps
<1>3. ASSUME NEW keys \in KeyPaths, NEW lit \in Literals, KeyValue(keys, lit) PROVE IInv'
  <2> DEFINE v == Assign(Walk(doc, cur, TRUE), keys, ParseValue(doc, lit))
  <2>1. keys \in Seq(Keys) \ {<<>>} /\ lit \in Values
    OBVIOUS
  <2>2. Found(doc, here, Node("Table", cur)) /\ state = "parsing"
    BY <1>3 DEF IInv, KeyValue, NextStatement
  <2>3. /\ v \in Standing
        /\ v.ok => v.at = cur /\ Found(v.doc, here, Node("Table", cur))
    BY <1>1, <2>1, <2>2, AssignmentKeepsFound
  <2>4. After(v) /\ here' = here
    BY <1>3 DEF KeyValue
  <2>5. count' \in 0 .. MaxStatements
    BY <1>3 DEF IInv, TypeOK, KeyValue, NextStatement
  <2> HIDE DEF v
  <2>6. CASE v.ok
    <3>1. doc' = v.doc /\ cur' = v.at /\ state' = "parsing"
      BY <2>2, <2>4, <2>6 DEF After
    <3>2. IsTree(v.doc) /\ v.at \in DOMAIN v.doc.tables
      BY <2>3, TreeIs, ObjectIs DEF Standing, Stand
    <3>3. TypeOK'
      BY <2>4, <2>5, <3>1, <3>2 DEF IInv, TypeOK
    <3>4. Found(doc, here, Node("Table", cur))'
      BY <2>3, <2>4, <2>6, <3>1
    <3> QED
      BY <3>3, <3>4 DEF IInv
  <2>7. CASE ~v.ok
    <3>1. state' = "threw" /\ UNCHANGED <<doc, cur, here>>
      BY <2>4, <2>7 DEF After
    <3> QED
      BY <2>5, <3>1 DEF IInv, TypeOK
  <2> QED
    BY <2>6, <2>7
<1>4. CASE SyntaxError
  BY <1>4 DEF SyntaxError, IInv, TypeOK
<1>5. CASE ParseReturns
  BY <1>5 DEF ParseReturns, IInv, TypeOK
<1>6. CASE UNCHANGED vars
  BY <1>6 DEF vars, IInv, TypeOK
<1> QED
  BY <1>2, <1>3, <1>4, <1>5, <1>6 DEF Next, Ended

\* The inductive invariant holds of every text.
THEOREM Inductive == Spec => []IInv
BY InitIInv, NextIInv, PTL DEF Spec

\* Whatever a text says, the document stays a tree of tables and arrays, none of
\* them shared or lost from under a node, and the parser's pointer is into it.
THEOREM TypeCorrect == Spec => []TypeOK
<1>1. IInv => TypeOK
  BY DEF IInv
<1> QED
  BY <1>1, Inductive, PTL

LEMMA IInvFinds == IInv => CurIsHere
<1> SUFFICES ASSUME IInv, state # "threw" PROVE Resolve(doc, here) = Node("Table", cur)
  BY DEF CurIsHere
<1>1. doc \in Docs /\ IsTree(doc)
  BY TreeIs DEF IInv, TypeOK
<1>2. \A C : Same(doc, doc, C)
  BY DEF Same
<1> QED
  BY <1>1, <1>2 DEF IInv, Found

\* The table that the parser assigns to is the one that a reader finds under the
\* last header, in the last elements of arrays.
THEOREM PointerIsHere == Spec => []CurIsHere
BY IInvFinds, Inductive, PTL

\* What a statement that does not fail keeps of what its predecessors have said.
LEMMA StepKeeps ==
  ASSUME IInv, [Next]_vars, count' # count, state' # "threw",
         NEW p \in Seq(Segs), Resolve(doc, p).type # "None"
  PROVE  \/ Resolve(doc', p) = Resolve(doc, p)
         \/ assigned' # Nothing /\ Under(assigned'.path, p)
<1>1. IsTree(doc) /\ cur \in Nat /\ here \in Seq(Segs)
  <2>1. IsTree(doc) /\ cur \in Nat /\ here \in Seq(SegmentSet)
    BY ObjectIs DEF IInv, TypeOK, IsTree, Docs
  <2> QED
    BY <2>1, SegmentSetIs
<1>2. ASSUME NEW keys \in Headers, TableHeader(keys) \/ ArrayHeader(keys)
      PROVE  Resolve(doc', p) = Resolve(doc, p)
  <2>1. IInv' /\ Keeps(doc, doc')
    BY <1>2, HeaderSteps
  <2>2. IsTree(doc')
    BY <2>1 DEF IInv, TypeOK
  <2>3. /\ From(doc, Root, p) = Resolve(doc, p) /\ Root \in Nodes(doc)
        /\ From(doc', Root, p) = Resolve(doc', p) /\ Root \in Nodes(doc')
    BY <1>1, <2>2, FromRoot
  <2> QED
    BY <1>1, <2>1, <2>2, <2>3, FromKeeps
<1>3. ASSUME NEW keys \in KeyPaths, NEW lit \in Literals, KeyValue(keys, lit)
      PROVE  \/ Resolve(doc', p) = Resolve(doc, p)
             \/ assigned' # Nothing /\ Under(assigned'.path, p)
  <2> DEFINE v == Assign(Walk(doc, cur, TRUE), keys, ParseValue(doc, lit))
             full == here \o Plain(keys)
  <2>1. keys \in Seq(Keys) \ {<<>>} /\ lit \in Values
    BY TomlAssumption
  <2>2. Resolve(doc, here) = Node("Table", cur)
    <3>1. state = "parsing"
      BY <1>3 DEF KeyValue, NextStatement
    <3> QED
      BY <3>1, IInvFinds DEF CurIsHere
  <2>3. v.ok /\ doc' = v.doc
    BY <1>3 DEF KeyValue, After
  <2>4. Resolve(v.doc, p) = Resolve(doc, p) \/ Under(full, p)
    <3>1. Good(doc, ParseValue(doc, lit))
      BY <1>1, <2>1, ParseValueGood
    <3>2. IsTree(v.doc)
      <4>1. IInv'
        BY NextIInv
      <4> QED
        BY <2>3, <4>1 DEF IInv, TypeOK
    <3> DEFINE value == ParseValue(doc, lit)
    <3>3. v = Assign(Walk(doc, cur, TRUE), keys, value)
      OBVIOUS
    <3>4. Top(doc, Root) /\ From(doc, Root, here) = Node("Table", cur)
      BY <1>1, <2>2, FromRoot DEF Top
    <3> HIDE DEF v, value
    <3>5. Assigns(doc, Root, cur, here, keys, value, v)
      BY <1>1, <2>1, <2>3, <3>1, <3>3, <3>4 DEF Assigns, value
    <3> QED
      BY <3>2, <3>5, AssignmentKeeps
  <2>5. assigned'.path = full
    BY <1>3 DEF KeyValue, Assigned
  <2>6. full # <<>>
    BY <1>1, <2>1, PlainIs
  <2>7. assigned' # Nothing
    BY <2>5, <2>6 DEF Nothing, Assigned
  <2> QED
    BY <2>3, <2>4, <2>5, <2>7
<1>4. ~SyntaxError /\ ~ParseReturns /\ ~UNCHANGED vars
  BY DEF SyntaxError, ParseReturns, vars
<1> QED
  BY <1>2, <1>3, <1>4 DEF Next, Ended

\* A header keeps everything that a path denotes, an assignment all that is neither at
\* nor below its path: what is replaced or added reaches no further.
THEOREM StatementsKept == Spec => StatementsKeep
<1>1. ASSUME IInv, [Next]_vars
      PROVE  [count' # count /\ state' # "threw" =>
                \A p \in Paths : Resolve(doc, p).type = "Scalar" =>
                  \/ Resolve(doc', p) = Resolve(doc, p)
                  \/ assigned' # Nothing /\ Under(assigned'.path, p)]_vars
  <2>1. \A p \in Paths : p \in Seq(Segs)
    BY ConfigAssumption, SegmentSetIs
  <2> QED
    BY <1>1, <2>1, StepKeeps
<1> QED
  BY <1>1, Inductive, PTL DEF Spec, StatementsKeep

--------------------------------------------------------------------------------
(* Reading by a path *)

LEMMA Extremes ==
  ASSUME NEW m \in Nat, NEW S \in SUBSET (1 .. m), S # {}
  PROVE  /\ \E x \in S : \A y \in S : x <= y
         /\ \E x \in S : \A y \in S : x >= y
<1> DEFINE Has(U) == /\ \E x \in U : \A y \in U : x <= y
                     /\ \E x \in U : \A y \in U : x >= y
           T == {n \in 0 .. m : \A U \in SUBSET (1 .. n) : U # {} => Has(U)}
<1>1. 0 \in T
  <2>1. \A U \in SUBSET (1 .. 0) : U = {}
    OBVIOUS
  <2>2. 0 \in 0 .. m
    OBVIOUS
  <2> HIDE DEF Has
  <2> QED
    BY <2>1, <2>2
<1>2. ASSUME NEW n \in 1 .. m, n - 1 \in T PROVE n \in T
  <2>1. ASSUME NEW U \in SUBSET (1 .. n), U # {} PROVE Has(U)
    <3> DEFINE V == U \ {n}
    <3>1. V \in SUBSET (1 .. n - 1) /\ \A x \in U : x \in 1 .. n
      OBVIOUS
    <3>2. CASE V = {}
      <4>1. U = {n}
        BY <2>1, <3>2
      <4> QED
        BY <4>1
    <3>3. CASE V # {}
      <4>1. Has(V)
        BY <1>2, <3>1, <3>3
      <4>2. PICK x \in V : \A y \in V : x <= y
        BY <4>1
      <4>3. \A y \in U : x <= y
        BY <3>1, <4>2
      <4>4. PICK z \in V : \A y \in V : z >= y
        BY <4>1
      <4>5. \E u \in U : \A y \in U : u >= y
        <5>1. CASE n \in U
          BY <3>1, <5>1
        <5>2. CASE n \notin U
          <6>1. U = V
            BY <5>2
          <6> QED
            BY <4>4, <6>1
        <5> QED
          BY <5>1, <5>2
      <4> QED
        BY <4>2, <4>3, <4>5
    <3> QED
      BY <3>2, <3>3
  <2> QED
    BY <2>1
<1>3. \A n \in 0 .. m : n \in T
  <2> HIDE DEF T
  <2> QED
    BY <1>1, <1>2, BoundedInduction
<1>4. m \in 0 .. m
  OBVIOUS
<1> QED
  BY <1>3, <1>4

\* The first segment has no bracket, those with one are the next ones.
LEMMA SupportedIs ==
  ASSUME NEW path \in Seq(SegmentSet), Supported(path)
  PROVE  /\ \A i \in 1 .. Len(path) : path[i].idx # <<>> => i > 1 /\ Len(path[i].idx) = 1
         /\ \A i \in 1 .. Len(path) : path[i].idx # <<>> =>
              \A j \in 2 .. i : path[j].idx # <<>>
<1> DEFINE b == Bracketed(path)
           m == Len(path)
<1>1. m \in Nat /\ b \in SUBSET (1 .. m) /\ \A i \in 1 .. m : i \in b <=> path[i].idx # <<>>
  BY DEF Bracketed
<1>2. /\ \A i \in b : Len(path[i].idx) = 1
      /\ b = {} \/ (Min(b) = 2 /\ \A i \in 2 .. Max(b) : i \in b)
  BY DEF Supported
<1> HIDE DEF b, m
<1>3. ASSUME NEW i \in b PROVE i > 1 /\ \A j \in 2 .. i : j \in b
  <2>1. /\ \E x \in b : \A y \in b : x <= y
        /\ \E x \in b : \A y \in b : x >= y
    BY <1>1, <1>3, Extremes
  <2>2. Min(b) <= i
    BY <2>1 DEF Min
  <2>3. Max(b) >= i /\ Max(b) \in b
    BY <2>1 DEF Max
  <2> QED
    BY <1>1, <1>2, <1>3, <2>2, <2>3
<1>4. \A i \in 1 .. m : \A j \in 2 .. i : j \in 1 .. m
  BY <1>1
<1> QED
  BY <1>1, <1>2, <1>3, <1>4 DEF m

LEMMA RoundsSuffice ==
  ASSUME NEW path \in Seq(SegmentSet)
  PROVE  Rounds(path) \in Nat /\ Rounds(path) >= Len(path)
<1> DEFINE m == Len(path)
           on(x, n) == x + 1 + Len(path[n].idx)
           rounds[n \in 0 .. m] == IF n = 0 THEN 0 ELSE on(rounds[n - 1], n)
           F == [x \in Nat \X (1 .. m) |-> on(x[1], x[2])]
<1>1. Rounds(path) = rounds[m]
  BY DEF Rounds
<1>2. m \in Nat
  OBVIOUS
<1>3. ASSUME NEW x \in Nat, NEW n \in 1 .. m PROVE on(x, n) \in Nat /\ on(x, n) > x
  <2>1. path[n] \in SegmentSet
    OBVIOUS
  <2> DEFINE more == Len(path[n].idx)
  <2>2. more \in Nat
    BY <2>1 DEF SegmentSet
  <2> HIDE DEF more
  <2>3. x + 1 + more \in Nat /\ x + 1 + more > x
    BY <2>2
  <2> QED
    BY <2>3 DEF more
<1> HIDE DEF on, m
<1>4. F \in [Nat \X (1 .. m) -> Nat] /\ \A x \in Nat, n \in 1 .. m : F[<<x, n>>] = on(x, n)
  BY <1>3
<1> HIDE DEF F
<1>5. PICK g \in [0 .. m -> Nat] : Follows(g, F, 0, m)
  BY <1>2, <1>4, Recursion
<1>6. g = [n \in 0 .. m |-> IF n = 0 THEN 0 ELSE on(g[n - 1], n)]
  <2>1. ASSUME NEW n \in 1 .. m PROVE n - 1 \in 0 .. m
    BY <1>2
  <2>2. \A n \in 1 .. m : g[n] = on(g[n - 1], n)
    BY <1>4, <1>5, <2>1 DEF Follows
  <2> QED
    BY <1>2, <1>5, <2>2 DEF Follows
<1>7. rounds = [n \in 0 .. m |-> IF n = 0 THEN 0 ELSE on(rounds[n - 1], n)]
  BY <1>6
<1> HIDE DEF rounds
<1> DEFINE T == {n \in 0 .. m : rounds[n] \in Nat /\ rounds[n] >= n}
<1>8. 0 \in T
  BY <1>2, <1>7
<1>9. ASSUME NEW n \in 1 .. m, n - 1 \in T PROVE n \in T
  <2>1. n \in 0 .. m /\ n # 0
    BY <1>2
  <2>2. rounds[n] = on(rounds[n - 1], n)
    BY <1>7, <2>1
  <2> QED
    BY <1>3, <1>9, <2>1, <2>2
<1>10. \A n \in 0 .. m : n \in T
  <2> HIDE DEF T
  <2> QED
    BY <1>2, <1>8, <1>9, BoundedInduction
<1> QED
  BY <1>1, <1>2, <1>10 DEF m

\* Where a supported path has come to after its first n segments.
Reached(path, n) ==
  [node |-> Resolve(doc, SubSeq(path, 1, n)), rest |-> SubSeq(path, n + 1, Len(path))]

LEMMA RoundReads ==
  ASSUME IsTree(doc), NEW path \in Seq(SegmentSet), Supported(path), NEW n \in 1 .. Len(path) - 1
  PROVE  Round(Reached(path, n)) = Reached(path, n + 1)
<1> DEFINE m == Len(path)
           node == Resolve(doc, SubSeq(path, 1, n))
           rest == SubSeq(path, n + 1, m)
           segment == path[n + 1]
           child == ChildOf(doc, node, segment.key)
           b == Bracketed(rest)
<1>1. /\ m \in Nat /\ n + 1 \in 1 .. m /\ n \in 1 .. m /\ segment \in SegmentSet
      /\ path \in Seq(Segs) /\ segment \in Segs
  BY SegmentSetIs
<1>2. /\ rest \in Seq(SegmentSet) /\ rest # <<>> /\ Len(rest) = m - n
      /\ \A i \in 1 .. m - n : rest[i] = path[n + i]
      /\ Head(rest) = segment /\ Tail(rest) = SubSeq(path, n + 2, m)
      /\ SubSeq(rest, 2, Len(rest)) = Tail(rest)
  <2>1. \A i \in n + 1 .. m : path[i] \in SegmentSet
    BY <1>1
  <2>2. /\ rest \in Seq(SegmentSet)
        /\ Len(rest) = IF n + 1 <= m THEN m - (n + 1) + 1 ELSE 0
        /\ \A i \in 1 .. m - (n + 1) + 1 : rest[i] = path[n + 1 + i - 1]
    BY <1>1, <2>1, SubSeqProperties
  <2>3. Head(rest) = path[n + 1] /\ Tail(rest) = SubSeq(path, (n + 1) + 1, m)
    BY <1>1, HeadTailOfSubSeq
  <2> HIDE DEF m, rest
  <2>4. Len(rest) = m - n /\ \A i \in 1 .. m - n : rest[i] = path[n + i]
    BY <1>1, <2>2
  <2>5. rest # <<>> /\ (n + 1) + 1 = n + 2
    BY <1>1, <2>4
  <2>6. SubSeq(rest, 2, Len(rest)) = Tail(rest)
    BY <2>2, <2>5, TailIsSubSeq
  <2> QED
    BY <2>2, <2>3, <2>4, <2>5, <2>6
<1>3. /\ Resolve(doc, SubSeq(path, 1, n + 1)) = SegmentOf(doc, node, segment)
      /\ node \in Nodes(doc)
  <2>1. SubSeq(path, 1, n + 1) = Append(SubSeq(path, 1, (n + 1) - 1), path[n + 1])
    BY <1>1, Starts
  <2>2. SubSeq(path, 1, n) \in Seq(Segs) /\ (n + 1) - 1 = n
    BY <1>1
  <2> DEFINE before == SubSeq(path, 1, n)
  <2>3. Resolve(doc, Append(before, segment)) = SegmentOf(doc, Resolve(doc, before), segment)
    BY <1>1, <2>2, ResolveAppend
  <2>4. Resolve(doc, before) \in Nodes(doc)
    BY <2>2, ResolveIs
  <2> QED
    BY <2>1, <2>2, <2>3, <2>4
<1>4. \A i \in 1 .. m - n : i \in b <=> path[n + i].idx # <<>>
  BY <1>1, <1>2 DEF Bracketed
<1>5. b \subseteq 1 .. m - n
  BY <1>2 DEF Bracketed
<1> DEFINE s == Reached(path, n)
<1>6. s.node = node /\ s.rest = rest
  BY DEF Reached
<1>7. Reached(path, n + 1) = [node |-> SegmentOf(doc, node, segment), rest |-> Tail(rest)]
  <2>1. (n + 1) + 1 = n + 2
    BY <1>1
  <2> HIDE DEF rest, node, segment
  <2> QED
    BY <1>2, <1>3, <2>1 DEF Reached, m
<1> HIDE DEF s, node, rest, b
<1>8. Round(s) = IF b = {} THEN [node |-> child, rest |-> Tail(rest)]
                 ELSE [node |-> ElementAt(child, Head(rest[Min(b)].idx)),
                       rest |-> BehindBracket(rest, Min(b))]
  BY <1>2, <1>6 DEF Round, ChildOf, b
<1>9. CASE segment.idx = <<>>
  <2>1. b = {}
    <3> SUFFICES ASSUME NEW i \in b PROVE FALSE
      OBVIOUS
    <3>1. i \in 1 .. m - n /\ n + i \in 1 .. m /\ n + 1 \in 2 .. n + i
      BY <1>1, <1>5
    <3> QED
      BY <1>4, <1>9, <3>1, SupportedIs
  <2>2. SegmentOf(doc, node, segment) = child
    BY <1>1, <1>3, <1>9, SegmentOfIs
  <2> QED
    BY <1>7, <1>8, <2>1, <2>2 DEF s
<1>10. CASE segment.idx # <<>>
  <2>1. Len(segment.idx) = 1 /\ segment.idx \in Seq(Nat)
    BY <1>1, <1>10, SupportedIs DEF SegmentSet
  <2>2. Head(segment.idx) = segment.idx[1] /\ segment.idx[1] \in Nat /\ Tail(segment.idx) = <<>>
    <3> DEFINE idx == segment.idx
    <3> HIDE DEF idx
    <3>1. idx \in Seq(Nat) /\ Len(idx) = 1
      BY <2>1 DEF idx
    <3>2. idx # <<>>
      BY <1>10 DEF idx
    <3>3. Tail(idx) \in Seq(Nat) /\ Len(Tail(idx)) = 0
      BY <3>1, <3>2, HeadTailProperties
    <3>4. Tail(idx) = <<>>
      BY <3>3, EmptySeq
    <3>5. idx[1] \in Nat
      <4>1. 1 \in 1 .. Len(idx)
        BY <3>1
      <4> QED
        BY <3>1, <4>1, ElementOfSeq
    <3>6. Head(idx) = idx[1]
      BY <3>1, <3>2
    <3> QED
      BY <3>4, <3>5, <3>6 DEF idx
  <2>3. 1 \in b
    BY <1>1, <1>4, <1>10
  <2>4. Min(b) = 1
    <3>1. \A i \in b : i \in Int /\ 1 <= i
      BY <1>1, <1>5
    <3>2. \A i \in b : (\A y \in b : i <= y) <=> i = 1
      BY <2>3, <3>1
    <3> QED
      BY <2>3, <3>2 DEF Min
  <2>5. rest[1] = segment
    BY <1>1, <1>2
  <2>6. BehindBracket(rest, 1) = Tail(rest)
    BY <1>2, <2>2, <2>5 DEF BehindBracket
  <2>7. SegmentOf(doc, node, segment) = Element(doc, child, segment.idx[1])
    BY <1>1, <1>3, <2>1, SegmentOfIs
  <2>8. ElementAt(child, segment.idx[1]) = Element(doc, child, segment.idx[1])
    BY <2>2 DEF ElementAt, Element
  <2> QED
    BY <1>7, <1>8, <2>2, <2>3, <2>4, <2>5, <2>6, <2>7, <2>8 DEF s
<1> QED
  BY <1>9, <1>10

LEMMA LookupResolves ==
  ASSUME IsTree(doc), NEW path \in Seq(SegmentSet) \ {<<>>}, Supported(path)
  PROVE  Lookup(path) = IF state = "returned" THEN Resolve(doc, path) ELSE NoNode
<1> DEFINE m == Len(path)
           total == Rounds(path)
           start == [node |-> Child(doc, root, Head(path).key), rest |-> Tail(path)]
           after[n \in 0 .. total] == IF n = 0 THEN start ELSE Round(after[n - 1])
           S == {Reached(path, n) : n \in 1 .. m}
           F == [x \in S \X (1 .. total) |-> Round(x[1])]
<1>1. m \in Nat \ {0} /\ total \in Nat /\ total >= m
  BY RoundsSuffice
<1>2. Head(path).idx = <<>>
  BY <1>1, SupportedIs
<1>3. Lookup(path) = IF state # "returned" THEN NoNode ELSE after[total].node
  BY <1>2 DEF Lookup
<1>4. start = Reached(path, 1)
  <2>1. /\ SubSeq(path, 1, 1) = Append(<<>>, path[1]) /\ Head(path) = path[1]
        /\ Tail(path) = SubSeq(path, 2, m) /\ path[1] \in Segs /\ <<>> \in Seq(Segs)
    <3>1. 1 \in 1 .. m /\ path[1] \in SegmentSet /\ path[1] \in Segs
      BY <1>1, SegmentSetIs
    <3>2. SubSeq(path, 1, 1) = Append(SubSeq(path, 1, 1 - 1), path[1])
      BY <3>1, Starts
    <3>3. SubSeq(path, 1, 1 - 1) = <<>>
      BY SubSeqEmpty
    <3>4. Tail(path) = SubSeq(path, 2, m)
      BY TailIsSubSeq
    <3>5. Head(path) = path[1] /\ <<>> \in Seq(Segs)
      OBVIOUS
    <3> QED
      BY <3>1, <3>2, <3>3, <3>4, <3>5
  <2>2. Resolve(doc, SubSeq(path, 1, 1)) = SegmentOf(doc, Root, path[1]) /\ Root \in Nodes(doc)
    BY <2>1, ResolveAppend, ResolveIs
  <2>3. SegmentOf(doc, Root, path[1]) = ChildOf(doc, Root, path[1].key)
    BY <1>2, <2>1, <2>2, SegmentOfIs
  <2>4. ChildOf(doc, Root, path[1].key) = Child(doc, root, path[1].key)
    BY DEF ChildOf, Root, Node
  <2>5. Resolve(doc, SubSeq(path, 1, 1)) = Child(doc, root, Head(path).key)
    BY <2>1, <2>2, <2>3, <2>4
  <2>6. 1 + 1 = 2
    OBVIOUS
  <2> QED
    BY <2>1, <2>5, <2>6 DEF Reached
<1>5. Round(Reached(path, m)) = Reached(path, m)
  <2>1. SubSeq(path, m + 1, m) = <<>>
    BY <1>1
  <2> QED
    BY <2>1 DEF Reached, Round
<1>6. ASSUME NEW n \in 1 .. m
      PROVE  Round(Reached(path, n)) = Reached(path, IF n = m THEN m ELSE n + 1)
  BY <1>1, <1>5, RoundReads
<1> HIDE DEF m, total, start
<1>7. ASSUME NEW s \in S PROVE Round(s) \in S
  <2>1. PICK n \in 1 .. m : s = Reached(path, n)
    OBVIOUS
  <2>2. (IF n = m THEN m ELSE n + 1) \in 1 .. m
    BY <1>1
  <2> QED
    BY <1>6, <2>1, <2>2
<1>8. start \in S
  BY <1>1, <1>4
<1> HIDE DEF S
<1>9. F \in [S \X (1 .. total) -> S] /\ \A s \in S, n \in 1 .. total : F[<<s, n>>] = Round(s)
  BY <1>7
<1> HIDE DEF F
<1>10. PICK g \in [0 .. total -> S] : Follows(g, F, start, total)
  BY <1>1, <1>8, <1>9, Recursion
<1>11. g = [n \in 0 .. total |-> IF n = 0 THEN start ELSE Round(g[n - 1])]
  <2>1. ASSUME NEW n \in 1 .. total PROVE n - 1 \in 0 .. total
    BY <1>1
  <2>2. \A n \in 1 .. total : g[n] = Round(g[n - 1])
    BY <1>9, <1>10, <2>1 DEF Follows
  <2> QED
    BY <1>1, <1>10, <2>2 DEF Follows
<1>12. after = [n \in 0 .. total |-> IF n = 0 THEN start ELSE Round(after[n - 1])]
  BY <1>11
<1> HIDE DEF after
<1> DEFINE T == {n \in 0 .. total : after[n] = Reached(path, IF n + 1 > m THEN m ELSE n + 1)}
<1>13. 0 \in T
  BY <1>1, <1>4, <1>12
<1>14. ASSUME NEW n \in 1 .. total, n - 1 \in T PROVE n \in T
  <2>1. n \in 0 .. total /\ n # 0
    BY <1>1
  <2>2. after[n] = Round(after[n - 1])
    BY <1>12, <2>1
  <2> DEFINE i == IF (n - 1) + 1 > m THEN m ELSE (n - 1) + 1
  <2>3. after[n - 1] = Reached(path, i) /\ i \in 1 .. m
    BY <1>1, <1>14
  <2>4. (IF i = m THEN m ELSE i + 1) = IF n + 1 > m THEN m ELSE n + 1
    BY <1>1
  <2> HIDE DEF i
  <2> QED
    BY <1>6, <2>1, <2>2, <2>3, <2>4
<1>15. \A n \in 0 .. total : n \in T
  <2> HIDE DEF T
  <2> QED
    BY <1>1, <1>13, <1>14, BoundedInduction
<1>16. after[total] = Reached(path, m)
  BY <1>1, <1>15
<1>17. SubSeq(path, 1, m) = path
  BY Starts DEF m
<1>18. Reached(path, m).node = Resolve(doc, SubSeq(path, 1, m))
  BY DEF Reached
<1> QED
  BY <1>3, <1>16, <1>17, <1>18

\* Of a text that has been parsed, a path whose brackets, one pair in a segment, are in
\* the second segment and those that follow without a gap reads the scalar that it
\* denotes, and the default if it denotes none; of a text that has not, the default.
THEOREM SupportedRead == Spec => []SupportedPathsRead
<1>1. IInv => SupportedPathsRead
  <2> SUFFICES ASSUME IsTree(doc), NEW p \in Paths, Supported(p)
               PROVE  GetOr(p, 0) = IF state = "returned" /\ Resolve(doc, p).type = "Scalar"
                                    THEN Resolve(doc, p) ELSE Node("Scalar", 0)
    BY DEF IInv, TypeOK, SupportedPathsRead
  <2>1. Lookup(p) = IF state = "returned" THEN Resolve(doc, p) ELSE NoNode
    BY ConfigAssumption, LookupResolves
  <2>2. NoNode.type = "None"
    BY DEF NoNode, Node
  <2> QED
    BY <2>1, <2>2 DEF GetOr, Get
<1> QED
  BY <1>1, Inductive, PTL

\* Every path under the one given reads what it reads in the literal.
AsWritten(d, path, lit) ==
  \A p \in Seq(SegmentSet) : Under(path, p) =>
    Scalar(Resolve(d, p)) =
      Denoted(lit, p[Len(path)].idx, SubSeq(p, Len(path) + 1, Len(p)))

\* What was assigned last is read as it was written.
ReadAsWritten ==
  Len(assigned.path) > 0 /\ state # "threw" => AsWritten(doc, assigned.path, assigned.lit)

LEMMA AssignmentIsRead ==
  ASSUME NEW d, IsTree(d), NEW t \in Nat, NEW above \in Seq(Segs),
         Resolve(d, above) = Node("Table", t),
         NEW keys \in Seq(Keys) \ {<<>>}, NEW lit \in Values,
         NEW value, value = ParseValue(d, lit),
         NEW v, v = Assign(Walk(d, t, TRUE), keys, value), v.ok, IsTree(v.doc),
         NEW full, full = above \o Plain(keys)
  PROVE  AsWritten(v.doc, full, lit)
<1> SUFFICES ASSUME NEW p \in Seq(SegmentSet), Under(full, p)
             PROVE  Scalar(Resolve(v.doc, p)) =
                      Denoted(lit, p[Len(full)].idx, SubSeq(p, Len(full) + 1, Len(p)))
  BY DEF AsWritten
<1> DEFINE n == Len(full)
           idx == p[n].idx
           rest == SubSeq(p, n + 1, Len(p))
<1>1. Good(d, value)
  BY ParseValueGood
<1>2. From(d, Root, above) = Node("Table", t) /\ Top(d, Root)
  BY FromRoot DEF Top
<1>3. full \in Seq(Segs) /\ n = Len(above) + Len(keys) /\ n \in Nat \ {0}
  <2>1. Len(keys) \in Nat \ {0} /\ Len(above) \in Nat
    BY EmptySeq
  <2>2. full \in Seq(Segs) \ {<<>>} /\ Len(full) = Len(above) + Len(keys)
    BY LastPlain
  <2> QED
    BY <2>1, <2>2
<1>4. Assigns(d, Root, t, above, keys, value, v)
  BY <1>1, <1>2 DEF Assigns
<1>5. ReadsUnder(v.doc, Root, full, n, value)
  BY <1>3, <1>4, AssignmentReads
<1>6. p \in Seq(Segs) /\ From(v.doc, Root, p) = Resolve(v.doc, p)
  BY SegmentSetIs, FromRoot
<1>7. Scalar(Resolve(v.doc, p)) = ReadAt(value.doc, value.node, idx, rest)
  <2>1. Scalar(From(v.doc, Root, p)) = ReadAt(value.doc, value.node, idx, rest)
    BY <1>5, <1>6 DEF ReadsUnder
  <2> QED
    BY <1>6, <2>1
<1>8. n \in 1 .. Len(p)
  BY <1>3 DEF Under
<1>9. idx \in Seq(Nat) /\ rest \in Seq(SegmentSet)
  <2> HIDE DEF n
  <2>1. p[n] \in SegmentSet /\ rest \in Seq(SegmentSet)
    BY <1>8
  <2> QED
    BY <2>1 DEF SegmentSet
<1>10. value.ok
  <2>1. Assigns(d, Root, t, above, keys, value, v) => value.ok
    <3>1. \E f \in Docs, u \in Nat : Placed(value, t, Root, full, f, u, v.doc)
      BY <1>1, <1>2, AssignmentPlaces
    <3> QED
      BY <3>1 DEF Placed
  <2> QED
    BY <1>4, <2>1
<1> HIDE DEF idx, rest, n
<1>11. ReadAt(value.doc, value.node, idx, rest) = Denoted(lit, idx, rest)
  BY <1>9, <1>10, ParseValueFinds
<1> QED
  BY <1>7, <1>11 DEF idx, rest, n

LEMMA NextRead ==
  ASSUME IInv, ReadAsWritten, [Next]_vars
  PROVE  ReadAsWritten'
<1>1. CASE assigned' = Nothing
  <2>1. assigned'.path = <<>>
    BY <1>1 DEF Nothing, Assigned
  <2> QED
    BY <2>1 DEF ReadAsWritten
<1>2. CASE UNCHANGED <<doc, assigned>> /\ (state = "threw" => state' = "threw")
  BY <1>2 DEF ReadAsWritten
<1>3. ASSUME NEW keys \in KeyPaths, NEW lit \in Literals, KeyValue(keys, lit)
      PROVE  ReadAsWritten'
  <2> DEFINE value == ParseValue(doc, lit)
             v == Assign(Walk(doc, cur, TRUE), keys, value)
             full == here \o Plain(keys)
  <2> SUFFICES ASSUME state' # "threw"
               PROVE  AsWritten(doc', assigned'.path, assigned'.lit)
    BY DEF ReadAsWritten, AsWritten
  <2>1. keys \in Seq(Keys) \ {<<>>} /\ lit \in Values
    BY TomlAssumption
  <2>2. IsTree(doc) /\ cur \in Nat /\ here \in Seq(Segs)
    <3>1. IsTree(doc) /\ cur \in Nat /\ here \in Seq(SegmentSet)
      BY ObjectIs DEF IInv, TypeOK, IsTree, Docs
    <3> QED
      BY <3>1, SegmentSetIs
  <2>3. Resolve(doc, here) = Node("Table", cur)
    <3>1. state = "parsing"
      BY <1>3 DEF KeyValue, NextStatement
    <3> QED
      BY <3>1, IInvFinds DEF CurIsHere
  <2>4. v.ok /\ doc' = v.doc
    BY <1>3 DEF KeyValue, After
  <2>5. IsTree(v.doc)
    <3>1. IInv'
      BY NextIInv
    <3> QED
      BY <2>4, <3>1 DEF IInv, TypeOK
  <2>6. assigned'.path = full /\ assigned'.lit = lit
    BY <1>3 DEF KeyValue, Assigned
  <2>7. v = Assign(Walk(doc, cur, TRUE), keys, value) /\ value = ParseValue(doc, lit)
    OBVIOUS
  <2>8. full = here \o Plain(keys)
    OBVIOUS
  <2> HIDE DEF v, value, full
  <2>9. AsWritten(v.doc, full, lit)
    BY <2>1, <2>2, <2>3, <2>4, <2>5, <2>7, <2>8, AssignmentIsRead
  <2> QED
    BY <2>4, <2>6, <2>9
<1>4. ASSUME NEW keys \in Headers, TableHeader(keys) \/ ArrayHeader(keys)
      PROVE  assigned' = Nothing
  BY <1>4 DEF TableHeader, ArrayHeader, Here
<1>5. ASSUME SyntaxError \/ ParseReturns \/ UNCHANGED vars
      PROVE  UNCHANGED <<doc, assigned>> /\ (state = "threw" => state' = "threw")
  BY <1>5 DEF SyntaxError, ParseReturns, vars
<1> QED
  BY <1>1, <1>2, <1>3, <1>4, <1>5 DEF Next, Ended

\* Until the next statement, and of a text that ends with it ever after, every path
\* under the one assigned to reads exactly what the literal has there, through its
\* arrays, inline tables and their dotted keys, and nothing of what was there before.
THEOREM LastAssignmentRead == Spec => []AssignedRead
<1>1. Init => ReadAsWritten
  <2>1. Init => assigned.path = <<>>
    BY DEF Init, Nothing, Assigned
  <2> QED
    BY <2>1 DEF ReadAsWritten
<1>2. IInv /\ ReadAsWritten /\ [Next]_vars => ReadAsWritten'
  BY NextRead
<1>3. ReadAsWritten => AssignedRead
  <2>1. \A p \in Paths : p \in Seq(SegmentSet)
    BY ConfigAssumption
  <2> QED
    BY <2>1 DEF ReadAsWritten, AsWritten, AssignedRead, Scalar
<1> QED
  BY <1>1, <1>2, <1>3, Inductive, PTL DEF Spec
================================================================================
