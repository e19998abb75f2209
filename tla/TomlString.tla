-------------------------------- MODULE TomlString --------------------------------
(***************************************************************************)
(* tangbase::TomlParser (src/util/toml.hpp): how parse_value reads the     *)
(* four kinds of strings, and parse_simple_key a key.  The bytes that \u   *)
(* and \U write stand in the text as numbers.                              *)
(***************************************************************************)
EXTENDS Text

DQ == "dquote"
SQ == "quote"
BS == "backslash"
CR == "cr"
LF == "lf"

\* What each of these characters means behind a backslash.
Escapes == {<<"n", LF>>, <<"r", CR>>, <<"t", "tab">>, <<"b", "bs">>, <<"f", "ff">>, <<DQ, DQ>>, <<BS, BS>>}
Escaped == [c \in {e[1] : e \in Escapes} |-> (CHOOSE e \in Escapes : e[1] = c)[2]]

\* The content of a string and the position behind it, or an exception.
Str(val, next) == [val |-> val, next |-> next, ok |-> TRUE]
NoStr == [val |-> <<>>, next |-> 0, ok |-> FALSE]
Before(chars, str) == IF str.ok THEN [str EXCEPT !.val = chars \o @] ELSE str

--------------------------------------------------------------------------------
(* Mutants: the definitions below as a plausible slip would write them.  No *)
(* definition uses them; PROJECT.json says which property rejects which.    *)

\* An escape ends with its backslash: a quote behind it closes the string.
EscapeShort(s, i) ==
  IF At(s, i + 1) \in DOMAIN Escaped THEN Str(<<Escaped[s[i + 1]]>>, i + 1) ELSE NoStr
--------------------------------------------------------------------------------
SmallHex == <<"0", "1", "2", "3", "4", "5", "6", "7", "8", "9", "a", "b", "c", "d", "e", "f">>
CapitalHex == SubSeq(SmallHex, 1, 10) \o <<"A", "B", "C", "D", "E", "F">>
HexDigit ==
  [c \in Range(SmallHex) \cup Range(CapitalHex) |->
     CHOOSE v \in 0 .. 15 : c \in {SmallHex[v + 1], CapitalHex[v + 1]}]

\* parse_unicode_escape: the code point of exactly n digits from position i on; -1 for
\* an error.
CodePoint(s, i, n) ==
  LET digits == SubSeq(s, i, i + n - 1) IN
  IF i + n - 1 > Len(s) \/ ~(Range(digits) \subseteq DOMAIN HexDigit) THEN -1
  ELSE FoldLeft(LAMBDA cp, c : 16 * cp + HexDigit[c], 0, digits)

\* append_utf8
Utf8(cp) ==
  IF cp <= 127 THEN <<cp>>
  ELSE IF cp <= 2047 THEN <<192 + (cp \div 64), 128 + (cp % 64)>>
  ELSE IF cp <= 65535 THEN <<224 + (cp \div 4096), 128 + ((cp \div 64) % 64), 128 + (cp % 64)>>
  ELSE <<240 + (cp \div 262144), 128 + ((cp \div 4096) % 64), 128 + ((cp \div 64) % 64), 128 + (cp % 64)>>

\* parse_string_escape at the backslash: what is written, and the position behind it.
\* Neither a surrogate nor what is behind the last code point is accepted.
Escape(s, i) ==
  LET c == At(s, i + 1)
      n == IF c = "u" THEN 4 ELSE 8
      cp == CodePoint(s, i + 2, n)
  IN IF c \in DOMAIN Escaped THEN Str(<<Escaped[c]>>, i + 2)
     ELSE IF c \in {"u", "U"} /\ (cp \in 0 .. 55295 \/ cp \in 57344 .. 1114111)
     THEN Str(Utf8(cp), i + 2 + n)
     ELSE NoStr

\* In a multi-line string, where a line that ends in a backslash goes on; 0 if the
\* backslash at i is not at the end of a line.
Continued(s, i) ==
  LET k == Behind(s, i + 1, {" ", "tab"})
  IN IF At(s, k) = LF THEN k + 1
     ELSE IF Word(s, k, <<CR, LF>>) THEN k + 2
     ELSE 0

\* The loops of the four kinds, from position i on.  A string may lack its closing
\* quote, and a multi-line string loses its line breaks.
Content(s, from, quote, multi) ==
  LET rest[i \in 1 .. Len(s) + 3] ==
        IF i > Len(s) THEN Str(<<>>, Len(s) + 1)
        ELSE IF Word(s, i, IF multi THEN <<quote, quote, quote>> ELSE <<quote>>)
        THEN Str(<<>>, IF multi THEN i + 3 ELSE i + 1)
        ELSE IF quote = DQ /\ s[i] = BS /\ multi /\ Continued(s, i) # 0 THEN rest[Continued(s, i)]
        ELSE IF quote = DQ /\ s[i] = BS /\ (multi \/ i < Len(s))
        THEN IF Escape(s, i).ok THEN Before(Escape(s, i).val, rest[Escape(s, i).next]) ELSE NoStr
        ELSE IF multi /\ (s[i] = LF \/ Word(s, i, <<CR, LF>>)) THEN rest[i + 1]
        ELSE Before(<<s[i]>>, rest[i + 1])
  IN rest[from]

\* parse_value at a quote; a line break right behind three of them is skipped.
ReadString(s) ==
  LET quote == Head(s)
      multi == Word(s, 1, <<quote, quote, quote>>)
  IN Content(s, IF ~multi THEN 2 ELSE IF At(s, 4) = LF THEN 5 ELSE IF Word(s, 4, <<CR, LF>>) THEN 6 ELSE 4,
             quote, multi)

BareChars == {"a", "n", "1", "-", "_"}

\* parse_simple_key: a key in quotes is a string of one line; a bare one has at least
\* one character.
SimpleKey(s) ==
  IF At(s, 1) \in {DQ, SQ} THEN Content(s, 2, Head(s), FALSE)
  ELSE LET end == Behind(s, 1, BareChars)
       IN IF end = 1 THEN NoStr ELSE Str(SubSeq(s, 1, end - 1), end)
--------------------------------------------------------------------------------
(* Properties *)

\* A text as the content of a basic string, each quote, backslash and line break
\* behind a backslash.
Quoted(v) ==
  FlattenSeq([k \in DOMAIN v |->
    IF \E e \in Escapes : e[2] = v[k] THEN <<BS, (CHOOSE e \in Escapes : e[2] = v[k])[1]>>
    ELSE <<v[k]>>])

\* The ways to write the text v as a TOML string.
Writings(v) ==
  {<<DQ>> \o Quoted(v) \o <<DQ>>,
   <<DQ, DQ, DQ>> \o Quoted(v) \o <<DQ, DQ, DQ>>,
   <<DQ, DQ, DQ, LF>> \o Quoted(v) \o <<BS, " ", CR, LF, DQ, DQ, DQ>>}
    \cup (IF SQ \in Range(v) THEN {} ELSE {<<SQ>> \o v \o <<SQ>>})
    \cup (IF find(v, <<SQ, SQ, SQ>>, 1) # 0 \/ (v # <<>> /\ Last(v) = SQ) \/ LF \in Range(v) THEN {}
          ELSE {<<SQ, SQ, SQ, CR, LF>> \o v \o <<SQ, SQ, SQ>>})

\* The ways to write it as a key.
KeyWritings(v) ==
  {<<DQ>> \o Quoted(v) \o <<DQ>>}
    \cup (IF SQ \in Range(v) THEN {} ELSE {<<SQ>> \o v \o <<SQ>>})
    \cup (IF v # <<>> /\ Range(v) \subseteq BareChars THEN {v} ELSE {})

\* Every text is read back from each way to write it, whatever quotes, backslashes
\* and line breaks it consists of, as a value and as a key, and the parser goes on
\* right behind it.
StringRead(v) ==
  \A behind \in {<<>>, <<" ">>, <<BS>>} :
    /\ \A w \in Writings(v) : ReadString(w \o behind) = Str(v, Len(w) + 1)
    /\ \A w \in KeyWritings(v) : SimpleKey(w \o behind) = Str(v, Len(w) + 1)

\* What a UTF-8 sequence of n bytes encodes, and the least code point that needs n.
Decoded(bytes) ==
  LET marked == IF Len(bytes) = 1 THEN 1 ELSE Len(bytes) + 1
  IN FoldLeft(LAMBDA cp, byte : 64 * cp + (byte % 64), Head(bytes) % 2 ^ (8 - marked), Tail(bytes))
Least(n) == CASE n = 1 -> 0 [] n = 2 -> 128 [] n = 3 -> 2048 [] OTHER -> 65536

\* The ways to write a code point as an escape: the digits of either case.
HexText(cp, n, digits) == [k \in 1 .. n |-> digits[((cp \div 16 ^ (n - k)) % 16) + 1]]
Escapings(cp) ==
  UNION {{<<BS, "U">> \o HexText(cp, 8, digits)}
           \cup (IF cp > 65535 THEN {} ELSE {<<BS, "u">> \o HexText(cp, 4, digits)})
           : digits \in {SmallHex, CapitalHex}}

\* The shortest sequence of bytes that decodes to the code point.
Encodes(bytes, cp) ==
  /\ Decoded(bytes) = cp
  /\ Len(bytes) \in 1 .. 4 /\ Least(Len(bytes)) <= cp
  /\ \A k \in 2 .. Len(bytes) : bytes[k] \in 128 .. 191

\* A code point is read from each of its escapes, as many digits as belong to it, and
\* encoded in the shortest way; it is an error if it is a surrogate or too large, or if
\* a digit is missing.
UnicodeRead(cp) ==
  \A e \in Escapings(cp) :
    LET w == <<DQ>> \o e \o <<"a", DQ>>
        read == ReadString(w)
    IN /\ IF cp \in 55296 .. 57343 \/ cp > 1114111 THEN ~read.ok
          ELSE /\ read.ok /\ read.next = Len(w) + 1 /\ Last(read.val) = "a"
               /\ Encodes(Front(read.val), cp)
       /\ \A closing \in {<<>>, <<DQ>>} : ~ReadString(<<DQ>> \o Front(e) \o closing).ok
================================================================================
