-------------------------------- MODULE TomlParser --------------------------------
(***************************************************************************)
(* tangbase::TomlParser (src/util/toml.hpp): how the statements of a TOML  *)
(* text, [a.b], [[a.b]] and a.b = value, build the tree of tables and      *)
(* arrays.  The text has been split into statements and values; how strings *)
(* and numbers are read is in TomlString and TomlNumber.                    *)
(*                                                                         *)
(* A table or array is an object behind a shared_ptr, which the parser     *)
(* also holds plain pointers to: here its index in doc.tables or           *)
(* doc.arrays.                                                             *)
(***************************************************************************)
EXTENDS Integers, SequencesExt

CONSTANTS
  Keys,
  Headers,          \* the dotted keys in [...] and [[...]]
  KeyPaths,         \* the dotted keys on the left of =
  Literals,         \* the values on the right of it
  Values, Depth,    \* these and what is in them, and how deep each is nested
  MaxStatements     \* bound: statements of the text

(***************************************************************************)
(* A literal is written [type, keys, vals]: a scalar is its vals, a number; *)
(* an array has literals as vals, an inline table its dotted keys as well.  *)
(***************************************************************************)
ASSUME TomlAssumption ==
  /\ Headers \cup KeyPaths \subseteq Seq(Keys) \ {<<>>}
  /\ Literals \subseteq Values
  /\ Depth \in [Values -> Nat]
  /\ \A lit \in Values :
       \/ lit.type = "Scalar" /\ lit.vals \in Nat
       \/ /\ lit.type \in {"Array", "Table"} /\ lit.vals \in Seq(Values)
          /\ \A i \in DOMAIN lit.vals : Depth[lit.vals[i]] < Depth[lit]
          /\ lit.type = "Table" =>
               lit.keys \in Seq(Seq(Keys) \ {<<>>}) /\ Len(lit.keys) = Len(lit.vals)
  /\ MaxStatements \in Nat

VARIABLES
  doc,       \* the objects: [tables, arrays]
  cur,       \* the table of the last header
  state,     \* parse is at work, has returned, or has thrown a TomlError
  here,      \* history: how a reader of the document gets to the last header's table
  assigned,  \* history: the path the last statement assigned to, and what; a header, none
  count      \* statements so far

vars == <<doc, cur, state, here, assigned, count>>

\* A TomlNode.  A scalar's ref is its value, another's the index of its object.
Node(type, ref) == [type |-> type, ref |-> ref]
NoNode == Node("None", 0)
NodeSet == [type : {"None", "Scalar", "Table", "Array"}, ref : Nat]

\* The objects.  A table has NoNode under the keys that are not in the map.
Docs == [tables : Seq([Keys -> NodeSet]), arrays : Seq(Seq(NodeSet))]

root == 1

\* What a walk from table to table has come to: the objects, the table, no error.
Walk(d, table, ok) == [doc |-> d, at |-> table, ok |-> ok]
Failed(w) == [w EXCEPT !.ok = FALSE]

Child(d, table, key) == IF key \in Keys THEN d.tables[table][key] ELSE NoNode

\* A mutant of the next definition: map::emplace in the place of operator[].
PutNewOnly(d, table, key, node) ==
  IF Child(d, table, key) # NoNode THEN d ELSE [d EXCEPT !.tables[table][key] = node]

\* (*table)[key] = node
Put(d, table, key, node) == [d EXCEPT !.tables[table][key] = node]

Empty == [k \in Keys |-> NoNode]
NewTable(d) == [d EXCEPT !.tables = Append(@, Empty)]

--------------------------------------------------------------------------------
(* Mutants: the definitions below as a plausible slip would write them.  No *)
(* definition uses them; PROJECT.json says which property rejects which.    *)

\* A header makes its table anew, whatever was there.
EnsureAnew(w, key) ==
  LET d == NewTable(w.doc) IN
  Walk(Put(d, w.at, key, Node("Table", Len(d.tables))), Len(d.tables), TRUE)

\* The first element of a table array in the place of the last.
LastElementFirst(d, array) == Head(d.arrays[array])

\* The new element is the table that was made before it.
AppendedShared(d, array) ==
  [d EXCEPT !.arrays[array] = Append(@, Node("Table", Len(d.tables)))]
--------------------------------------------------------------------------------
(* Walking along keys *)

\* ensure_table: a table, made when nothing is there.
EnsureTable(w, key) ==
  LET child == Child(w.doc, w.at, key)
      d == NewTable(w.doc)
  IN IF child.type = "None"
     THEN Walk(Put(d, w.at, key, Node("Table", Len(d.tables))), Len(d.tables), w.ok)
     ELSE IF child.type = "Table" THEN [w EXCEPT !.at = child.ref]
     ELSE Failed(w)

LastElement(d, array) == Last(d.arrays[array])

\* One key of navigate_to_parent: of an array, the last element.
Descend(w, key) ==
  LET child == Child(w.doc, w.at, key) IN
  IF child.type # "Array" THEN EnsureTable(w, key)
  ELSE IF w.doc.arrays[child.ref] = <<>> THEN Failed(w)
  ELSE LET element == LastElement(w.doc, child.ref)
       IN IF element.type = "Table" THEN [w EXCEPT !.at = element.ref] ELSE Failed(w)

\* Along all keys but the last; whoever has failed goes nowhere any more.
Along(step(_, _), w, keys) ==
  LET walk[n \in 0 .. Len(keys) - 1] ==
        IF n = 0 THEN w
        ELSE LET v == walk[n - 1] IN IF v.ok THEN step(v, keys[n]) ELSE v
  IN walk[Len(keys) - 1]

NavigateToParent(keys) == Along(Descend, Walk(doc, root, TRUE), keys)

\* What parse_value has come to: the objects, the node, no error.
Parsed(d, node, ok) == [doc |-> d, node |-> node, ok |-> ok]

(***************************************************************************)
(* read[d, lit] is parse_value as it calls itself, on what is in a literal *)
(***************************************************************************)

\* The elements of an array, one after the other: the objects, the nodes, no error.
ReadElements(read, d, lits) ==
  LET elements[n \in 0 .. Len(lits)] ==
        IF n = 0 THEN [doc |-> d, nodes |-> <<>>, ok |-> TRUE]
        ELSE LET e == elements[n - 1]
                 value == read[e.doc, lits[n]]
             IN IF ~e.ok THEN e
                ELSE [doc |-> value.doc, ok |-> value.ok,
                      nodes |-> IF value.ok THEN Append(e.nodes, value.node) ELSE e.nodes]
  IN elements[Len(lits)]

\* keys = value: under its last key, over whatever is there; in a text or an inline table.
Assign(w, keys, value) ==
  LET target == Along(EnsureTable, Walk(value.doc, w.at, value.ok), keys)
  IN IF target.ok THEN Walk(Put(target.doc, target.at, Last(keys), value.node), w.at, TRUE)
     ELSE target

\* The entries of an inline table, each of which is read before its key is followed.
Entries(read, w, lit) ==
  LET entries[n \in 0 .. Len(lit.keys)] ==
        IF n = 0 THEN w
        ELSE LET v == entries[n - 1]
             IN IF v.ok THEN Assign(v, lit.keys[n], read[v.doc, lit.vals[n]]) ELSE v
  IN entries[Len(lit.keys)]

\* parse_value: an array or inline table is a new object.
Reading(read, d, lit) ==
  IF lit.type = "Scalar" THEN Parsed(d, Node("Scalar", lit.vals), TRUE)
  ELSE IF lit.type = "Array"
  THEN LET e == ReadElements(read, d, lit.vals)
       IN Parsed([e.doc EXCEPT !.arrays = Append(@, e.nodes)],
                 Node("Array", Len(e.doc.arrays) + 1), e.ok)
  ELSE LET new == NewTable(d)
           w == Entries(read, Walk(new, Len(new.tables), TRUE), lit)
       IN Parsed(w.doc, Node("Table", Len(new.tables)), w.ok)

ParseValue(d, lit) ==
  LET parse[n \in 0 .. Depth[lit] + 1] ==
        [x \in Docs \X Values |->
           IF n = 0 THEN Parsed(x[1], NoNode, FALSE) ELSE Reading(parse[n - 1], x[1], x[2])]
  IN parse[Depth[lit] + 1][d, lit]
--------------------------------------------------------------------------------
(* A reader's paths, independent of the parser: keys and indices *)

Segment(key, idx) == [key |-> key, idx |-> idx]

Element(d, node, i) ==
  IF node.type = "Array" /\ i + 1 \in DOMAIN d.arrays[node.ref] THEN d.arrays[node.ref][i + 1]
  ELSE NoNode

SegmentOf(d, node, segment) ==
  LET at[n \in 0 .. Len(segment.idx)] ==
        IF n > 0 THEN Element(d, at[n - 1], segment.idx[n])
        ELSE IF node.type = "Table" THEN Child(d, node.ref, segment.key)
        ELSE NoNode
  IN at[Len(segment.idx)]

\* What a path denotes in a document: the documented syntax of Config.
Resolve(d, path) ==
  LET at[n \in 0 .. Len(path)] ==
        IF n = 0 THEN Node("Table", root) ELSE SegmentOf(d, at[n - 1], path[n])
  IN at[Len(path)]

\* The paths along the first n keys, through the last elements of table arrays.
PathAlong(d, keys) ==
  LET path[n \in 0 .. Len(keys)] ==
        IF n = 0 THEN <<>>
        ELSE LET above == path[n - 1]
                 node == Resolve(d, Append(above, Segment(keys[n], <<>>)))
                 idx == IF node.type = "Array" THEN <<Len(d.arrays[node.ref]) - 1>> ELSE <<>>
             IN Append(above, Segment(keys[n], idx))
  IN path

\* The path leads through what lies at another, or into an array there.
Under(above, path) ==
  /\ Len(above) <= Len(path)
  /\ IsPrefix(Front(above), path)
  /\ path[Len(above)].key = Last(above).key

Assigned(path, lit) == [path |-> path, lit |-> lit]
Nothing == Assigned(<<>>, <<>>)

Plain(keys) == [i \in DOMAIN keys |-> Segment(keys[i], <<>>)]
--------------------------------------------------------------------------------
(* parse: one action for each kind of statement *)

Init ==
  /\ doc = [tables |-> <<Empty>>, arrays |-> <<>>]
  /\ cur = root
  /\ state = "parsing"
  /\ here = <<>> /\ assigned = Nothing
  /\ count = 0

\* A statement ends where its walk has come to, or the parser throws.
After(w) ==
  IF w.ok THEN doc' = w.doc /\ cur' = w.at /\ UNCHANGED state
  ELSE state' = "threw" /\ UNCHANGED <<doc, cur>>

NextStatement == state = "parsing" /\ count < MaxStatements /\ count' = count + 1

Here(keys) ==
  /\ here' = IF state' = "parsing" THEN PathAlong(doc', keys)[Len(keys)] ELSE here
  /\ assigned' = Nothing

\* [keys]
TableHeader(keys) ==
  /\ NextStatement
  /\ After(LET parent == NavigateToParent(keys)
           IN IF parent.ok THEN EnsureTable(parent, Last(keys)) ELSE parent)
  /\ Here(keys)

\* arr_ptr->push_back of the table that was made last
Appended(d, array) ==
  LET made == NewTable(d)
  IN [made EXCEPT !.arrays[array] = Append(@, Node("Table", Len(made.tables)))]

\* The last key of [[keys]]: one more element, of a new array if there is none;
\* an array that was written as a value is extended like any other.
AppendElement(w, key) ==
  LET child == Child(w.doc, w.at, key)
      made == [w.doc EXCEPT !.arrays = Append(@, <<>>)]
      new == Len(made.arrays)
  IN IF child.type = "None"
     THEN LET d == Appended(Put(made, w.at, key, Node("Array", new)), new)
          IN Walk(d, Len(d.tables), w.ok)
     ELSE IF child.type = "Array"
     THEN LET d == Appended(w.doc, child.ref) IN Walk(d, Len(d.tables), w.ok)
     ELSE Failed(w)

\* [[keys]]
ArrayHeader(keys) ==
  /\ NextStatement
  /\ After(LET parent == NavigateToParent(keys)
           IN IF parent.ok THEN AppendElement(parent, Last(keys)) ELSE parent)
  /\ Here(keys)

\* keys = value: into the table of the header; what was there is replaced.
KeyValue(keys, lit) ==
  /\ NextStatement
  /\ After(Assign(Walk(doc, cur, TRUE), keys, ParseValue(doc, lit)))
  /\ assigned' = Assigned(here \o Plain(keys), lit)
  /\ UNCHANGED here

\* The text breaks off or is malformed in the middle of a statement.
SyntaxError ==
  /\ state = "parsing"
  /\ state' = "threw"
  /\ UNCHANGED <<doc, cur, here, assigned, count>>

ParseReturns ==
  /\ state = "parsing"
  /\ state' = "returned"
  /\ UNCHANGED <<doc, cur, here, assigned, count>>

Ended == state # "parsing" /\ UNCHANGED vars

Next ==
  \/ \E keys \in Headers : TableHeader(keys) \/ ArrayHeader(keys)
  \/ \E keys \in KeyPaths, lit \in Literals : KeyValue(keys, lit)
  \/ SyntaxError \/ ParseReturns \/ Ended

Spec == Init /\ [][Next]_vars
--------------------------------------------------------------------------------
(* Properties *)

\* Where a node can be: under a key of a table, or at an index of an array.
Places(d) ==
  {<<"table", t, k>> : t \in DOMAIN d.tables, k \in Keys}
    \cup UNION {{<<"array", a, i>> : i \in DOMAIN d.arrays[a]} : a \in DOMAIN d.arrays}

NodeAt(d, p) == IF p[1] = "table" THEN d.tables[p[2]][p[3]] ELSE d.arrays[p[2]][p[3]]

\* An object that the document has, the root aside.
Exists(d, node) ==
  \/ node.type = "Table" /\ node.ref \in DOMAIN d.tables \ {root}
  \/ node.type = "Array" /\ node.ref \in DOMAIN d.arrays

IsObject(node) == node.type \in {"Table", "Array"}

\* Nodes denote scalars or objects, and no object is in two places.
IsTree(d) ==
  /\ d \in Docs /\ root \in DOMAIN d.tables
  /\ \A p \in Places(d) :
       LET node == NodeAt(d, p) IN
       /\ IsObject(node) => Exists(d, node)
       /\ p[1] = "array" => node.type # "None"
       /\ IsObject(node) => \A q \in Places(d) : NodeAt(d, q) = node => q = p

SegmentSet == [key : Keys, idx : Seq(Nat)]

\* A document is a tree, and the parser goes on at one of its tables.
TypeOK ==
  /\ state \in {"parsing", "returned", "threw"}
  /\ count \in 0 .. MaxStatements
  /\ IsTree(doc) /\ cur \in DOMAIN doc.tables
  /\ here \in Seq(SegmentSet)

\* The parser goes on through a plain pointer into the table of the last header:
\* it is the table that a reader of the document finds under that header (of an
\* array, in its last element), whatever the statements before have built,
\* replaced and extended, and not one that has been cut off or another element.
CurIsHere == state # "threw" => Resolve(doc, here) = Node("Table", cur)
================================================================================
