-------------------------------- MODULE MCConfig --------------------------------
(***************************************************************************)
(* Config and TomlParser on all texts of a few statements over two keys,   *)
(* and the functions of one text (numbers and strings of the parser,       *)
(* format, the string utilities) on all short texts, once each: in the     *)
(* initial state.                                                          *)
(***************************************************************************)
EXTENDS Config, TomlNumber, TomlString, Format, Strings

MCHeaders == {<<"a">>, <<"b">>, <<"a", "b">>}

Literal(type, keys, vals) == [type |-> type, keys |-> keys, vals |-> vals]

Number(n) == Literal("Scalar", <<>>, n)
Array(vals) == Literal("Array", <<>>, vals)
A == <<"a">>
AB == <<"a", "b">>

\* 1 and 2; [1, [2]] and []; [{b = 1}]; {a.b = 1, a.a = 2, a.b = 2} and
\* {a = 1, a.b = 2}, of which the second is an error.
MCLiterals ==
  {Number(1), Number(2), Array(<<Number(1), Array(<<Number(2)>>)>>), Array(<<>>),
   Array(<<Literal("Table", <<<<"b">>>>, <<Number(1)>>)>>),
   Literal("Table", <<AB, <<"a", "a">>, AB>>, <<Number(1), Number(2), Number(2)>>),
   Literal("Table", <<A, AB>>, <<Number(1), Number(2)>>)}

\* The literals and what is in them.
MCValues ==
  MCLiterals \cup {Array(<<Number(2)>>), Literal("Table", <<<<"b">>>>, <<Number(1)>>)}

MCDepth ==
  LET depth[lit \in MCValues] ==
        IF lit.type = "Scalar" \/ lit.vals = <<>> THEN 0
        ELSE 1 + Max({depth[lit.vals[i]] : i \in DOMAIN lit.vals})
  IN depth

\* Up to three segments, each with one index, two of them, or none.
Segments == {Segment(key, idx) : key \in Keys, idx \in {<<>>, <<0>>, <<1>>, <<0, 0>>}}

MCPaths == UNION {[1 .. n -> Segments] : n \in 1 .. 3}

\* A sign or none; prefixes, digits and underscores in any order.
NumberTexts ==
  {sign \o s : sign \in {<<>>, <<"-">>, <<"+">>},
              s \in TextsOver({"0", "1", "7", "b", "f", "_", "x", "o"}, 5)}

StringTexts == TextsOver({DQ, SQ, BS, LF, CR, "n"}, 4)

\* Two below each code point where the encoding changes to two above.
CodePoints == UNION {b - 2 .. b + 2 : b \in {2, 128, 2048, 55296, 57344, 65536, 1114112}}

\* None, one that looks like a placeholder, two.
FormatArgs == {<<>>, <<"{}">>, <<"x", "{">>}

\* The first and the last letter in either case, and the characters beside them.
CaseCodes == {64, 65, 90, 91, 96, 97, 122, 123}

\* Every integer the parser reads is the number that is written, or an error
\* (TomlNumber: NumberRead), for a word of Bits bits.
NumbersRead == count = 0 => \A s \in NumberTexts : NumberRead(s)

\* Every text is read back from each of its writings as a string or a key, and every
\* code point from its escapes (TomlString: StringRead, UnicodeRead).
StringsRead ==
  count = 0 => /\ \A v \in StringTexts : StringRead(v)
               /\ \A cp \in CodePoints : UnicodeRead(cp)

\* Format strings of up to five braces, placeholders and letters give their output
\* or throw (Format: FormatRead).
FormatReads == count = 0 => \A args \in FormatArgs : FormatRead(5, args)

\* The string utilities obey their laws on all short texts (Strings).
StringsObey ==
  count = 0 =>
    /\ \A s \in TextsOver({"a", "b", " "}, 5) : SplitRight(s) /\ TrimRight(s)
    /\ \A s, t \in TextsOver(CaseCodes, 2) : CaseRight(s, t)
    /\ \A s \in TextsOver({"a", "b"}, 6), t \in TextsOver({"a", "b"}, 3) :
         /\ EndsRight(s, t)
         /\ \A new \in {<<>>, <<"a">>, <<"b", "a">>} : ReplaceRight(s, t, new)
================================================================================
