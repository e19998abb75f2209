-------------------------------- MODULE TomlNumber --------------------------------
(***************************************************************************)
(* tangbase::TomlParser (src/util/toml.hpp): how parse_value reads a       *)
(* number.  A text is a sequence of characters that begins with the value; *)
(* letters are in lower case.  int64_t is a word of Bits bits.  Of a float *)
(* the model keeps the characters that go to sscanf, and not its value.    *)
(***************************************************************************)
EXTENDS Text

CONSTANT Bits      \* the width of an integer

ASSUME TomlNumberAssumption == Bits \in Nat /\ Bits > 5

Value == [c \in {"0", "1", "7", "a", "b", "e", "f"} |->
            CASE c = "0" -> 0 [] c = "1" -> 1 [] c = "7" -> 7
              [] c = "a" -> 10 [] c = "b" -> 11 [] c = "e" -> 14 [] OTHER -> 15]

Base == [p \in {"x", "o", "b"} |-> IF p = "x" THEN 16 ELSE IF p = "o" THEN 8 ELSE 2]
Digits(base) == {c \in DOMAIN Value : Value[c] < base}

Signs == {"+", "-"}
MaxInt == 2 ^ (Bits - 1) - 1

\* What parse_value returns, with the position behind it; or it throws.
Read(type, val, next) == [type |-> type, val |-> val, next |-> next]
Thrown == Read("Error", 0, 0)

--------------------------------------------------------------------------------
(* Mutants: the definitions below as a plausible slip would write them.  No *)
(* definition uses them; PROJECT.json says which property rejects which.    *)

\* A test without the division: the step that follows may go over the edge.
AccumulateTooFar(base, digits) ==
  FoldLeft(LAMBDA uv, c :
             IF uv = -1 \/ uv > MaxInt THEN -1 ELSE (uv * base + Value[c]) % 2 ^ Bits,
           0, digits)
--------------------------------------------------------------------------------
strip_underscores(num) == SelectSeq(num, LAMBDA c : c # "_")

\* No underscore at either end, and no two in a row.
Separated(num) ==
  /\ At(num, 1) # "_" /\ At(num, Len(num)) # "_"
  /\ \A k \in 2 .. Len(num) : ~(num[k] = "_" /\ num[k - 1] = "_")

\* validate_underscores: nor beside a sign, a point or an exponent.
validate_underscores(num) ==
  /\ Separated(num)
  /\ \A k \in DOMAIN num : num[k] = "_" =>
       {At(num, k - 1), At(num, k + 1)} \cap (Signs \cup {".", "e"}) = {}

Overflow == -1

\* The uint64_t in which hexadecimal, octal and binary digits are summed up, and
\* the test in front of each step.
Accumulate(base, digits) ==
  FoldLeft(LAMBDA uv, c :
             IF uv = Overflow \/ uv > (2 * MaxInt - Value[c]) \div base THEN Overflow
             ELSE (uv * base + Value[c]) % 2 ^ Bits,
           0, digits)

\* 0x, 0o, 0b at position i.
Prefixed(s, i, negative) ==
  LET base == Base[s[i + 1]]
      end == Behind(s, i + 2, Digits(base) \cup {"_"})
      raw == SubSeq(s, i + 2, end - 1)
      uv == Accumulate(base, strip_underscores(raw))
      fits == uv # Overflow /\ uv <= (IF negative THEN MaxInt + 1 ELSE MaxInt)
  IN IF At(s, end) \in {".", "e"} \/ ~Separated(raw) \/ strip_underscores(raw) = <<>> \/ ~fits
     THEN Thrown
     ELSE Read("Int", IF negative THEN -uv ELSE uv, end)

\* std::stoll, which throws for a sign without digits and for what does not fit.
stoll(num, next) ==
  LET digits == SelectSeq(num, LAMBDA c : c \notin Signs)
      abs == FoldLeft(LAMBDA n, c : 10 * n + Value[c], 0, digits)
      val == IF Head(num) = "-" THEN -abs ELSE abs
  IN IF digits = <<>> \/ val \notin -MaxInt - 1 .. MaxInt THEN Thrown
     ELSE Read("Int", val, next)

\* Where a decimal ends whose sign, if any, is in front of i: digits, a fraction,
\* an exponent; each may be empty.
Decimals == Digits(10) \cup {"_"}
Fraction(s, i) ==
  LET int == Behind(s, i, Decimals)
  IN IF At(s, int) = "." THEN Behind(s, int + 1, Decimals) ELSE int
Exponent(s, i) ==
  IF At(s, i) # "e" THEN i
  ELSE Behind(s, IF At(s, i + 1) \in Signs THEN i + 2 ELSE i + 1, Decimals)

Decimal(s, i) ==
  LET end == Exponent(s, Fraction(s, i))
      raw == SubSeq(s, 1, end - 1)
      num == strip_underscores(raw)
  IN IF ~validate_underscores(raw) THEN Thrown
     ELSE IF end # Behind(s, i, Decimals) THEN Read("Float", num, end)
     ELSE IF Len(num) > 1 /\ num[1] = "0" THEN Thrown
     ELSE stoll(num, end)

\* inf and nan, with a sign or without; the i of a signed inf is not looked at.
Name(s) ==
  CASE Word(s, 1, <<"i", "n", "f">>) -> Read("Float", <<"i", "n", "f">>, 4)
    [] Word(s, 1, <<"n", "a", "n">>) -> Read("Float", <<"n", "a", "n">>, 4)
    [] At(s, 1) \in Signs /\ Word(s, 3, <<"n", "f">>) -> Read("Float", <<s[1], "i", "n", "f">>, 5)
    [] At(s, 1) \in Signs /\ Word(s, 2, <<"n", "a", "n">>) -> Read("Float", <<s[1], "n", "a", "n">>, 5)
    [] OTHER -> Thrown

\* parse_value, from inf and nan on.
ReadNumber(s) ==
  LET i == IF At(s, 1) \in Signs THEN 2 ELSE 1
  IN IF Name(s) # Thrown THEN Name(s)
     ELSE IF At(s, 1) \notin Signs \cup Digits(10) THEN Thrown
     ELSE IF At(s, i) = "0" /\ At(s, i + 1) \in DOMAIN Base THEN Prefixed(s, i, At(s, 1) = "-")
     ELSE Decimal(s, i)
--------------------------------------------------------------------------------
(* Properties *)

(***************************************************************************)
(* Numerals, and how they are written: a sign or none, a base with its     *)
(* prefix or none, and digits with underscores between them.               *)
(***************************************************************************)
Numeral(s) ==
  LET i == IF At(s, 1) \in Signs THEN 2 ELSE 1
      prefixed == At(s, i) = "0" /\ At(s, i + 1) \in DOMAIN Base
  IN [negative |-> At(s, 1) = "-", signed |-> i = 2,
      base |-> IF prefixed THEN Base[s[i + 1]] ELSE 10,
      digits |-> SubSeq(s, IF prefixed THEN i + 2 ELSE i, Len(s))]

\* Of digits and underscores only, a digit first.
Integral(lit) ==
  lit.digits # <<>> /\ Range(lit.digits) \subseteq Digits(lit.base) \cup {"_"}

\* Each underscore has a digit on either side.
WellWritten(lit) ==
  \A k \in DOMAIN lit.digits : lit.digits[k] = "_" =>
    {At(lit.digits, k - 1), At(lit.digits, k + 1)} \subseteq Digits(lit.base)

\* The number a literal denotes: the digits weighed by the powers of the base.
Denotes(lit) ==
  LET ds == SelectSeq(lit.digits, LAMBDA c : c # "_")
      abs == FoldLeft(LAMBDA n, k : n + Value[ds[k]] * lit.base ^ (Len(ds) - k),
                      0, [k \in DOMAIN ds |-> k])
  IN IF lit.negative THEN -abs ELSE abs

\* What toml.hpp 706 forbids in decimal integers.
LeadingZero(lit) == lit.base = 10 /\ Head(lit.digits) = "0" /\ Len(lit.digits) > 1

\* An integer of any base is read as the number it denotes, to its last digit, if
\* that fits a word, down to the least number there is, and is an error if not: it
\* never wraps, nor is it cut at an underscore; an underscore that is not between
\* two digits is an error as well, and so is a leading zero.  Nothing is said of
\* leading zeros behind a sign: they are forbidden too, and the code accepts them.
NumberRead(s) ==
  LET lit == Numeral(s) IN
  Integral(lit) /\ ~(lit.signed /\ LeadingZero(lit)) =>
    ReadNumber(s) =
      IF WellWritten(lit) /\ ~LeadingZero(lit) /\ Denotes(lit) \in -MaxInt - 1 .. MaxInt
      THEN Read("Int", Denotes(lit), Len(s) + 1)
      ELSE Thrown
================================================================================
