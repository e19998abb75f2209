---------------------------------- MODULE Config ----------------------------------
(***************************************************************************)
(* tangbase::Config (src/config.hpp): reading a value out of a parsed TOML *)
(* text by its path.  A path is a sequence of segments that the dots of    *)
(* the text part, each a key and the indices in brackets behind it.        *)
(***************************************************************************)
EXTENDS TomlParser

CONSTANTS
  Paths,       \* the paths that are read
  NoKey        \* the empty key, in front of a second pair of brackets

ASSUME ConfigAssumption == Paths \subseteq Seq(SegmentSet) \ {<<>>}

--------------------------------------------------------------------------------
(* Mutants: the definitions below as a plausible slip would write them.  No *)
(* definition uses them; PROJECT.json says which property rejects which.    *)

\* arr->at(idx - 1): indices that count from one.
FoundAt(node, i) ==
  IF node.type # "Array" \/ i = 0 \/ i > Len(doc.arrays[node.ref]) THEN NoNode
  ELSE doc.arrays[node.ref][i]
--------------------------------------------------------------------------------
(* lookup *)

\* The element of an array, which is checked against its size.
ElementAt(node, i) ==
  IF node.type # "Array" \/ i >= Len(doc.arrays[node.ref]) THEN NoNode
  ELSE doc.arrays[node.ref][i + 1]

\* The segments whose text has a bracket.
Bracketed(rest) == {i \in DOMAIN rest : rest[i].idx # <<>>}

\* What is left of the text behind the first closing bracket.
BehindBracket(rest, b) ==
  (IF Tail(rest[b].idx) = <<>> THEN <<>> ELSE <<Segment(NoKey, Tail(rest[b].idx))>>)
    \o SubSeq(rest, b + 1, Len(rest))

\* One round of the loop.  The bracket is the first in all of the rest, be it in
\* this segment or in a later one; the key ends at the first dot or bracket.
Round(s) ==
  IF s.rest = <<>> THEN s
  ELSE LET child == IF s.node.type = "Table" THEN Child(doc, s.node.ref, Head(s.rest).key)
                    ELSE NoNode
           b == Min(Bracketed(s.rest))
       IN IF Bracketed(s.rest) = {} THEN [node |-> child, rest |-> Tail(s.rest)]
          ELSE [node |-> ElementAt(child, Head(s.rest[b].idx)),
                rest |-> BehindBracket(s.rest, b)]

\* Each round takes a key or a pair of brackets off the rest: as many as will do.
Rounds(path) ==
  LET rounds[n \in 0 .. Len(path)] ==
        IF n = 0 THEN 0 ELSE rounds[n - 1] + 1 + Len(path[n].idx)
  IN rounds[Len(path)]

\* The first segment is looked up as it is written, its brackets included: no bare
\* key has any.
Lookup(path) ==
  LET after[n \in 0 .. Rounds(path)] ==
        IF n = 0 THEN [node |-> Child(doc, root, Head(path).key), rest |-> Tail(path)]
        ELSE Round(after[n - 1])
  IN IF state # "returned" \/ Head(path).idx # <<>> THEN NoNode
     ELSE after[Rounds(path)].node

\* get_string and the other typed getters: a scalar, or nothing.
Get(path) == IF Lookup(path).type = "Scalar" THEN Lookup(path) ELSE NoNode

\* get_string_or and the others
GetOr(path, def) == IF Get(path) = NoNode THEN Node("Scalar", def) ELSE Get(path)
--------------------------------------------------------------------------------
(* Properties *)

\* Paths whose brackets, one pair in a segment, are in the second segment and those
\* that follow it without a gap.
Supported(path) ==
  LET b == Bracketed(path) IN
  /\ \A i \in b : Len(path[i].idx) = 1
  /\ b = {} \/ (Min(b) = 2 /\ \A i \in 2 .. Max(b) : i \in b)

\* Of a text that has been parsed, a supported path reads the scalar that it
\* denotes, and only a path that denotes none gives the default; of one that has
\* not, every path does.
SupportedPathsRead ==
  \A p \in Paths : Supported(p) =>
    GetOr(p, 0) = IF state = "returned" /\ Resolve(doc, p).type = "Scalar"
                  THEN Resolve(doc, p) ELSE Node("Scalar", 0)

\* docs/README.md 224: "section.key or section.array[n], nesting as in a.b.c[0].d
\* is supported": every path of that form, the array at any depth, reads what it
\* denotes.
DocumentedPathsRead ==
  state = "returned" =>
    \A p \in Paths : Head(p).idx = <<>> /\ Resolve(doc, p).type = "Scalar" =>
      Get(p) = Resolve(doc, p)

\* What a path reads in a literal: indices into its arrays, then segments into its
\* tables, where the last of the keys that lead to it counts.  inside is what it reads
\* in what is in the literal.
DenotedBy(inside, lit, idx, path) ==
  LET leads == {i \in DOMAIN lit.keys : Under(Plain(lit.keys[i]), path)}
      last == Max(leads)
      n == Len(lit.keys[last])
  IN IF idx # <<>>
     THEN IF lit.type = "Array" /\ Head(idx) < Len(lit.vals)
          THEN inside[lit.vals[Head(idx) + 1], Tail(idx), path]
          ELSE NoNode
     ELSE IF lit.type = "Scalar" /\ path = <<>> THEN Node("Scalar", lit.vals)
     ELSE IF lit.type = "Table" /\ leads # {}
     THEN inside[lit.vals[last], path[n].idx, SubSeq(path, n + 1, Len(path))]
     ELSE NoNode

Denoted(lit, idx, path) ==
  LET denoted[n \in 0 .. Depth[lit] + 1] ==
        [x \in Values \X Seq(Nat) \X Seq(SegmentSet) |->
           IF n = 0 THEN NoNode ELSE DenotedBy(denoted[n - 1], x[1], x[2], x[3])]
  IN denoted[Depth[lit] + 1][lit, idx, path]

\* A value is read where it has been assigned, and as it was written, with its arrays,
\* inline tables and their dotted keys; nothing of what was there before shows through.
AssignedRead ==
  LET n == Len(assigned.path) IN
  n > 0 /\ state # "threw" =>
    \A p \in Paths : Under(assigned.path, p) =>
      Denoted(assigned.lit, p[n].idx, SubSeq(p, n + 1, Len(p))) =
        IF Resolve(doc, p).type = "Scalar" THEN Resolve(doc, p) ELSE NoNode

\* A statement keeps what those before it have said: a header keeps every scalar
\* that a path denotes, an assignment those that are not at or below its path.
StatementsKeep ==
  [][count' # count /\ state' # "threw" =>
       \A p \in Paths : Resolve(doc, p).type = "Scalar" =>
         \/ Resolve(doc', p) = Resolve(doc, p)
         \/ assigned' # Nothing /\ Under(assigned'.path, p)]_vars
================================================================================
