---------------------------- MODULE SequenceProofs ----------------------------
(***************************************************************************)
(* Facts about sequences: about Filtered (Subsequence), by induction over  *)
(* the length, and the laws of trim, starts_with, ends_with and the case   *)
(* conversions (Strings) for texts of every length over every alphabet.    *)
(***************************************************************************)
EXTENDS Subsequence, Strings, TLAPS, SequenceTheorems, WellFoundedInduction

\* A set of numbers that is not empty has a least element.
LEMMA Least ==
  ASSUME NEW T, T \subseteq Nat, T # {}
  PROVE  \E x \in T : \A y \in T : x <= y
<1>1. PICK x \in T : \A y \in T : ~(<<y, x>> \in OpToRel(<, Nat))
  <2> HIDE DEF OpToRel
  <2>1. IsWellFoundedOn(OpToRel(<, Nat), Nat)
    BY NatLessThanWellFounded
  <2> QED
    BY <2>1, WFMin
<1>2. \A y \in T : ~(y < x)
  BY <1>1 DEF OpToRel
<1> QED
  BY <1>2

\* A set that holds 0, and with each number the next one, holds all: induction, for a
\* property that is given as the set of the numbers that have it.
LEMMA Induction ==
  ASSUME NEW T, 0 \in T, \A n \in Nat : n \in T => n + 1 \in T
  PROVE  \A n \in Nat : n \in T
<1> SUFFICES ASSUME NEW n \in Nat, n \notin T PROVE FALSE
  OBVIOUS
<1>1. PICK m \in Nat \ T : \A k \in Nat \ T : m <= k
  BY Least
<1>2. m # 0 /\ m - 1 \in Nat /\ ~(m <= m - 1)
  BY <1>1
<1>3. m - 1 \in T
  BY <1>1, <1>2
<1> QED
  BY <1>1, <1>2, <1>3

\* The recursive function that Kept is exists.
LEMMA KeptDefined ==
  ASSUME NEW s, Len(s) \in Nat, NEW S
  PROVE  Kept(s, S) = [n \in 0 .. Len(s) |->
           IF n = 0 THEN <<>>
           ELSE IF s[n] \in S THEN Append(Kept(s, S)[n - 1], s[n]) ELSE Kept(s, S)[n - 1]]
<1> DEFINE Def(f, m) == f = [n \in 0 .. m |->
             IF n = 0 THEN <<>> ELSE IF s[n] \in S THEN Append(f[n - 1], s[n]) ELSE f[n - 1]]
           T == {m \in Nat : \E f : Def(f, m)}
<1>1. 0 \in T
  <2>1. Def([n \in 0 .. 0 |-> <<>>], 0)
    OBVIOUS
  <2> QED
    BY <2>1
<1>2. ASSUME NEW m \in Nat, m \in T PROVE m + 1 \in T
  <2>1. PICK f : Def(f, m)
    BY <1>2
  <2> DEFINE g == [n \in 0 .. m + 1 |->
               IF n <= m THEN f[n] ELSE IF s[n] \in S THEN Append(f[n - 1], s[n]) ELSE f[n - 1]]
  <2>2. Def(g, m + 1)
    <3>1. \A n \in 0 .. m : g[n] = f[n]
      OBVIOUS
    <3>2. ASSUME NEW n \in 0 .. m + 1
          PROVE  g[n] = IF n = 0 THEN <<>>
                        ELSE IF s[n] \in S THEN Append(g[n - 1], s[n]) ELSE g[n - 1]
      <4>1. CASE n = 0
        BY <2>1, <3>1, <4>1
      <4>2. CASE n \in 1 .. m
        <5>1. n - 1 \in 0 .. m /\ n \in 0 .. m /\ n # 0
          BY <4>2
        <5>2. f[n] = IF s[n] \in S THEN Append(f[n - 1], s[n]) ELSE f[n - 1]
          BY <2>1, <5>1
        <5> QED
          BY <3>1, <5>1, <5>2
      <4>3. CASE n = m + 1
        <5>1. n - 1 = m /\ n # 0 /\ ~(n <= m) /\ m \in 0 .. m
          BY <4>3
        <5> QED
          BY <3>1, <5>1
      <4> QED
        BY <4>1, <4>2, <4>3
    <3> QED
      BY <3>2
  <2> HIDE DEF Def, g
  <2> QED
    BY <2>2
<1> HIDE DEF T
<1>3. Len(s) \in T
  BY <1>1, <1>2, Induction
<1>4. \E f : Def(f, Len(s))
  BY <1>3 DEF T
<1> QED
  BY <1>4 DEF Kept

--------------------------------------------------------------------------------
\* Any two elements of s, the earlier one first, are in the relation R.
Lined(s, R) == \A i, j \in 1 .. Len(s) : i < j => <<s[i], s[j]>> \in R

Elements(s, n) == {s[i] : i \in 1 .. n}

LEMMA RangeIsElements ==
  ASSUME NEW A, NEW s \in Seq(A)
  PROVE  Range(s) = Elements(s, Len(s)) /\ Range(s) \subseteq A
BY DEF Range, Elements

\* One more element at the end keeps a sequence in line when all before it allow it.
LEMMA AppendLined ==
  ASSUME NEW A, NEW s \in Seq(A), NEW x \in A, NEW R, Lined(s, R),
         \A y \in Range(s) : <<y, x>> \in R
  PROVE  Lined(Append(s, x), R)
<1>1. Len(Append(s, x)) = Len(s) + 1 /\ Len(s) \in Nat
  OBVIOUS
<1>2. \A i \in 1 .. Len(s) : Append(s, x)[i] = s[i] /\ s[i] \in Range(s)
  BY DEF Range
<1>3. Append(s, x)[Len(s) + 1] = x
  OBVIOUS
<1> SUFFICES ASSUME NEW i \in 1 .. Len(s) + 1, NEW j \in 1 .. Len(s) + 1, i < j
             PROVE  <<Append(s, x)[i], Append(s, x)[j]>> \in R
  BY <1>1 DEF Lined
<1>4. i \in 1 .. Len(s)
  BY <1>1
<1>5. CASE j \in 1 .. Len(s)
  BY <1>2, <1>4, <1>5 DEF Lined
<1>6. CASE j = Len(s) + 1
  BY <1>2, <1>3, <1>4, <1>6
<1> QED
  BY <1>1, <1>5, <1>6

\* The elements of a sequence that got one more.
LEMMA AppendRange ==
  ASSUME NEW A, NEW s \in Seq(A), NEW x \in A
  PROVE  Range(Append(s, x)) = Range(s) \cup {x}
<1>1. Len(Append(s, x)) = Len(s) + 1 /\ Len(s) \in Nat
  OBVIOUS
<1>2. \A i \in 1 .. Len(s) : Append(s, x)[i] = s[i]
  OBVIOUS
<1>3. Append(s, x)[Len(s) + 1] = x
  OBVIOUS
<1>4. 1 .. Len(s) + 1 = (1 .. Len(s)) \cup {Len(s) + 1}
  BY <1>1
<1>5. Elements(Append(s, x), Len(Append(s, x))) = Elements(s, Len(s)) \cup {x}
  BY <1>1, <1>2, <1>3, <1>4 DEF Elements
<1>6. Append(s, x) \in Seq(A)
  OBVIOUS
<1> QED
  BY <1>5, <1>6, RangeIsElements

\* What is kept of the first n elements.
LEMMA KeptIs ==
  ASSUME NEW A, NEW s \in Seq(A), NEW S, NEW R, Lined(s, R)
  PROVE  \A n \in 0 .. Len(s) :
           /\ Kept(s, S)[n] \in Seq(A)
           /\ Elements(Kept(s, S)[n], Len(Kept(s, S)[n])) = Elements(s, n) \cap S
           /\ Lined(Kept(s, S)[n], R)
<1> DEFINE K == Kept(s, S)
           Good(n) == /\ K[n] \in Seq(A)
                      /\ Elements(K[n], Len(K[n])) = Elements(s, n) \cap S
                      /\ Lined(K[n], R)
           T == {n \in Nat : n <= Len(s) => Good(n)}
<1>1. Len(s) \in Nat /\ \A i \in 1 .. Len(s) : s[i] \in A
  OBVIOUS
<1> HIDE DEF T, Good, K
<1>2. K = [n \in 0 .. Len(s) |->
             IF n = 0 THEN <<>>
             ELSE IF s[n] \in S THEN Append(K[n - 1], s[n]) ELSE K[n - 1]]
  BY <1>1, KeptDefined DEF K
<1>3. 0 \in T
  <2>1. K[0] = <<>> /\ 1 .. 0 = {}
    BY <1>1, <1>2
  <2>2. K[0] \in Seq(A) /\ Len(K[0]) = 0
    BY <2>1
  <2>3. Elements(K[0], Len(K[0])) = Elements(s, 0) \cap S
    BY <2>1, <2>2 DEF Elements
  <2>4. Lined(K[0], R)
    BY <2>1, <2>2 DEF Lined
  <2> QED
    BY <2>2, <2>3, <2>4 DEF T, Good
<1>4. ASSUME NEW n \in Nat, n \in T PROVE n + 1 \in T
  <2> SUFFICES ASSUME n + 1 <= Len(s) PROVE Good(n + 1)
    BY DEF T
  <2>1. n \in 0 .. Len(s) /\ n + 1 \in 1 .. Len(s) /\ n + 1 \in 0 .. Len(s)
    BY <1>1
  <2>2. /\ K[n] \in Seq(A)
        /\ Elements(K[n], Len(K[n])) = Elements(s, n) \cap S
        /\ Lined(K[n], R)
        /\ s[n + 1] \in A
    BY <1>1, <1>4, <2>1 DEF T, Good
  <2>3. Elements(s, n + 1) = Elements(s, n) \cup {s[n + 1]}
    <3>1. 1 .. n + 1 = (1 .. n) \cup {n + 1}
      OBVIOUS
    <3> QED
      BY <3>1 DEF Elements
  <2>6. K[n + 1] = IF s[n + 1] \in S THEN Append(K[n], s[n + 1]) ELSE K[n]
    <3>1. n + 1 # 0 /\ (n + 1) - 1 = n
      OBVIOUS
    <3> QED
      BY <1>2, <2>1, <3>1
  <2>4. CASE s[n + 1] \in S
    <3>1. K[n + 1] = Append(K[n], s[n + 1])
      BY <2>4, <2>6
    <3>2. \A y \in Elements(s, n) : <<y, s[n + 1]>> \in R
      BY <1>1, <2>1 DEF Elements, Lined
    <3>3. Lined(Append(K[n], s[n + 1]), R)
      <4>1. \A y \in Range(K[n]) : <<y, s[n + 1]>> \in R
        BY <2>2, <3>2, RangeIsElements
      <4> QED
        BY <2>2, <4>1, AppendLined
    <3>4. Elements(Append(K[n], s[n + 1]), Len(Append(K[n], s[n + 1])))
            = Elements(K[n], Len(K[n])) \cup {s[n + 1]}
      <4> DEFINE k == K[n]
                 x == s[n + 1]
      <4>1. k \in Seq(A) /\ x \in A
        BY <2>2
      <4> HIDE DEF k, x
      <4>2. Append(k, x) \in Seq(A) /\ Range(Append(k, x)) = Range(k) \cup {x}
        BY <4>1, AppendRange
      <4>3. Elements(Append(k, x), Len(Append(k, x))) = Elements(k, Len(k)) \cup {x}
        BY <4>1, <4>2, RangeIsElements
      <4> QED
        BY <4>3 DEF k, x
    <3> QED
      BY <2>2, <2>3, <2>4, <3>1, <3>3, <3>4 DEF Good
  <2>5. CASE s[n + 1] \notin S
    <3>1. K[n + 1] = K[n]
      BY <2>5, <2>6
    <3> QED
      BY <2>2, <2>3, <2>5, <3>1 DEF Good
  <2> QED
    BY <2>4, <2>5
<1>5. \A n \in Nat : n \in T
  BY <1>3, <1>4, Induction
<1> QED
  BY <1>1, <1>5 DEF T, Good, K

\* The loop keeps exactly the elements in the set.
LEMMA FilteredRange ==
  ASSUME NEW A, NEW s \in Seq(A), NEW S
  PROVE  /\ Filtered(s, S) \in Seq(A)
         /\ Range(Filtered(s, S)) = Range(s) \cap S
<1> DEFINE R == A \X A
<1>1. Lined(s, R) /\ Len(s) \in 0 .. Len(s)
  BY DEF Lined
<1> HIDE DEF R
<1>2. \A n \in 0 .. Len(s) :
        /\ Kept(s, S)[n] \in Seq(A)
        /\ Elements(Kept(s, S)[n], Len(Kept(s, S)[n])) = Elements(s, n) \cap S
        /\ Lined(Kept(s, S)[n], R)
  BY <1>1, KeptIs
<1>3. /\ Filtered(s, S) \in Seq(A)
      /\ Elements(Filtered(s, S), Len(Filtered(s, S))) = Elements(s, Len(s)) \cap S
  BY <1>1, <1>2 DEF Filtered
<1> QED
  BY <1>3, RangeIsElements

\* It changes no order: whatever holds of each element and the later ones, still does.
LEMMA FilteredLined ==
  ASSUME NEW A, NEW s \in Seq(A), NEW S, NEW R, Lined(s, R)
  PROVE  Lined(Filtered(s, S), R)
<1>1. Len(s) \in 0 .. Len(s)
  OBVIOUS
<1> QED
  BY <1>1, KeptIs DEF Filtered

\* A sequence is its first element and, in line with it, the others.
LEMMA TailLined ==
  ASSUME NEW A, NEW s \in Seq(A), s # <<>>, NEW R, Lined(s, R)
  PROVE  /\ Head(s) \in A /\ Tail(s) \in Seq(A) /\ Lined(Tail(s), R)
         /\ \A later \in Range(Tail(s)) : <<Head(s), later>> \in R
         /\ Range(s) = {Head(s)} \cup Range(Tail(s))
<1>1. /\ Head(s) = s[1] /\ Head(s) \in A /\ Tail(s) \in Seq(A)
      /\ Len(s) \in Nat \ {0} /\ Len(Tail(s)) = Len(s) - 1
      /\ \A i \in 1 .. Len(s) - 1 : Tail(s)[i] = s[i + 1]
  OBVIOUS
<1>2. Range(Tail(s)) = {s[i + 1] : i \in 1 .. Len(s) - 1}
  <2>1. DOMAIN Tail(s) = 1 .. Len(s) - 1
    BY <1>1
  <2> QED
    BY <1>1, <2>1 DEF Range
<1>3. Lined(Tail(s), R)
  BY <1>1 DEF Lined
<1>4. \A later \in Range(Tail(s)) : <<Head(s), later>> \in R
  BY <1>1, <1>2 DEF Lined
<1>5. Range(s) = {Head(s)} \cup Range(Tail(s))
  <2>1. DOMAIN s = 1 .. Len(s)
    BY <1>1
  <2>2. Range(s) \subseteq {Head(s)} \cup Range(Tail(s))
    <3> SUFFICES ASSUME NEW i \in 1 .. Len(s) PROVE s[i] \in {Head(s)} \cup Range(Tail(s))
      BY <2>1 DEF Range
    <3>1. CASE i = 1
      BY <1>1, <3>1
    <3>2. CASE i # 1
      <4>1. i - 1 \in 1 .. Len(s) - 1 /\ (i - 1) + 1 = i
        BY <1>1, <3>2
      <4>2. s[(i - 1) + 1] \in Range(Tail(s))
        BY <1>2, <4>1
      <4> QED
        BY <4>1, <4>2
    <3> QED
      BY <3>1, <3>2
  <2>3. {Head(s)} \cup Range(Tail(s)) \subseteq Range(s)
    <3>1. 1 \in DOMAIN s /\ \A i \in 1 .. Len(s) - 1 : i + 1 \in DOMAIN s
      BY <1>1, <2>1
    <3> QED
      BY <1>1, <1>2, <3>1 DEF Range
  <2> QED
    BY <2>2, <2>3
<1> QED
  BY <1>1, <1>3, <1>4, <1>5

--------------------------------------------------------------------------------
(* Sequences without repetition *)

Unequal(A) == {pair \in A \X A : pair[1] # pair[2]}

LEMMA InjectiveIsLined ==
  ASSUME NEW A, NEW s \in Seq(A)
  PROVE  IsInjective(s) <=> Lined(s, Unequal(A))
<1>1. DOMAIN s = 1 .. Len(s) /\ Len(s) \in Nat /\ \A i \in 1 .. Len(s) : s[i] \in A
  OBVIOUS
<1>2. ASSUME IsInjective(s) PROVE Lined(s, Unequal(A))
  BY <1>1, <1>2 DEF IsInjective, Lined, Unequal
<1>3. ASSUME Lined(s, Unequal(A)) PROVE IsInjective(s)
  <2>1. \A i, j \in 1 .. Len(s) : i < j => s[i] # s[j]
    BY <1>3 DEF Lined, Unequal
  <2>2. \A i, j \in 1 .. Len(s) : i < j \/ j < i \/ i = j
    BY <1>1
  <2>3. \A i, j \in 1 .. Len(s) : s[i] = s[j] => i = j
    BY <2>1, <2>2
  <2> QED
    BY <1>1, <2>3 DEF IsInjective
<1> QED
  BY <1>2, <1>3

\* What is appended to a list that does not have it.
LEMMA AppendNew ==
  ASSUME NEW A, NEW s \in Seq(A), NEW x \in A, IsInjective(s), x \notin Range(s)
  PROVE  /\ Append(s, x) \in Seq(A) /\ IsInjective(Append(s, x))
         /\ Range(Append(s, x)) = Range(s) \cup {x}
<1>1. Lined(s, Unequal(A)) /\ \A y \in Range(s) : <<y, x>> \in Unequal(A)
  BY InjectiveIsLined, RangeIsElements DEF Unequal
<1>2. Lined(Append(s, x), Unequal(A))
  BY <1>1, AppendLined
<1>3. Append(s, x) \in Seq(A)
  OBVIOUS
<1>4. Range(Append(s, x)) = Range(s) \cup {x}
  BY AppendRange
<1>5. IsInjective(Append(s, x))
  BY <1>2, <1>3, InjectiveIsLined
<1> QED
  BY <1>3, <1>4, <1>5

\* What is kept of a list.
LEMMA FilteredInjective ==
  ASSUME NEW A, NEW s \in Seq(A), IsInjective(s), NEW S
  PROVE  /\ Filtered(s, S) \in Seq(A) /\ IsInjective(Filtered(s, S))
         /\ Range(Filtered(s, S)) = Range(s) \cap S
<1>1. Lined(s, Unequal(A))
  BY InjectiveIsLined
<1>2. Lined(Filtered(s, S), Unequal(A))
  BY <1>1, FilteredLined
<1> QED
  BY <1>2, FilteredRange, InjectiveIsLined

\* What is left of a list behind its first element.
LEMMA TailInjective ==
  ASSUME NEW A, NEW s \in Seq(A), IsInjective(s), s # <<>>
  PROVE  /\ Head(s) \in A /\ Tail(s) \in Seq(A) /\ IsInjective(Tail(s))
         /\ Head(s) \notin Range(Tail(s))
         /\ Range(s) = {Head(s)} \cup Range(Tail(s))
<1>1. Lined(s, Unequal(A))
  BY InjectiveIsLined
<1>2. /\ Head(s) \in A /\ Tail(s) \in Seq(A) /\ Lined(Tail(s), Unequal(A))
      /\ \A later \in Range(Tail(s)) : <<Head(s), later>> \in Unequal(A)
      /\ Range(s) = {Head(s)} \cup Range(Tail(s))
  BY <1>1, TailLined
<1> QED
  BY <1>2, InjectiveIsLined DEF Unequal

--------------------------------------------------------------------------------
\* s[i] up to s[j] is what is left of s without the blanks at both ends.
Cut(s, i, j) ==
  /\ i \in 1 .. Len(s) + 1 /\ j \in i - 1 .. Len(s)
  /\ \A k \in 1 .. i - 1 : s[k] \in Blanks
  /\ \A k \in j + 1 .. Len(s) : s[k] \in Blanks
  /\ i <= j => s[i] \notin Blanks /\ s[j] \notin Blanks
  /\ i > j => i = Len(s) + 1

\* The least element of a set of numbers is what Min takes.
LEMMA LeastIs ==
  ASSUME NEW T \in SUBSET Nat, NEW x \in T, \A y \in T : x <= y
  PROVE  Min(T) = x
<1> DEFINE least == CHOOSE y \in T : \A z \in T : y <= z
<1>1. least \in T /\ \A z \in T : least <= z
  OBVIOUS
<1>2. Min(T) = least
  BY DEF Min
<1> HIDE DEF least
<1>3. least \in Nat /\ x \in Nat /\ least <= x /\ x <= least
  BY <1>1
<1> QED
  BY <1>2, <1>3

\* The greatest one is what Max takes.
LEMMA GreatestIs ==
  ASSUME NEW T \in SUBSET Nat, NEW x \in T, \A y \in T : x >= y
  PROVE  Max(T) = x
<1> DEFINE greatest == CHOOSE y \in T : \A z \in T : y >= z
<1>1. greatest \in T /\ \A z \in T : greatest >= z
  OBVIOUS
<1>2. Max(T) = greatest
  BY DEF Max
<1> HIDE DEF greatest
<1>3. greatest \in Nat /\ x \in Nat /\ greatest >= x /\ x >= greatest
  BY <1>1
<1> QED
  BY <1>2, <1>3

\* A set of numbers up to n that is not empty has a greatest one.
LEMMA Greatest ==
  ASSUME NEW n \in Nat, NEW T, T \subseteq 0 .. n, T # {}
  PROVE  \E x \in T : \A y \in T : x >= y
<1> DEFINE U == {k \in 0 .. n : n - k \in T}
<1>1. U # {} /\ U \subseteq Nat
  <2>1. PICK x \in T : TRUE
    OBVIOUS
  <2>2. x \in 0 .. n /\ n - x \in 0 .. n /\ n - (n - x) = x
    BY <2>1
  <2>3. n - x \in U
    BY <2>1, <2>2
  <2>4. U \subseteq Nat
    OBVIOUS
  <2> HIDE DEF U
  <2> QED
    BY <2>3, <2>4
<1>2. PICK k \in U : \A l \in U : k <= l
  <2> HIDE DEF U
  <2> QED
    BY <1>1, Least
<1>3. ASSUME NEW y \in T PROVE n - k >= y
  <2>1. n - y \in U /\ y \in Nat /\ k \in Nat
    OBVIOUS
  <2>2. k <= n - y
    BY <1>2, <2>1
  <2> QED
    BY <2>1, <2>2
<1> QED
  BY <1>2, <1>3

\* The loop over the blanks at the start stops at the first other character.
LEMMA BehindIs ==
  ASSUME NEW C, NEW s \in Seq(C), NEW i \in 1 .. Len(s) + 1,
         \A k \in 1 .. i - 1 : s[k] \in Blanks, i <= Len(s) => s[i] \notin Blanks
  PROVE  Behind(s, 1, Blanks) = i
<1> DEFINE T == {j \in 1 .. Len(s) + 1 : At(s, j) \notin Blanks}
<1>1. i \in T /\ T \subseteq Nat
  <2>1. "end" \notin Blanks
    BY DEF Blanks
  <2>2. At(s, i) \notin Blanks
    <3>1. CASE i <= Len(s)
      BY <3>1 DEF At
    <3>2. CASE ~(i <= Len(s))
      BY <2>1, <3>2 DEF At
    <3> QED
      BY <3>1, <3>2
  <2> QED
    BY <2>2
<1>2. ASSUME NEW j \in T PROVE i <= j
  <2>1. j \in 1 .. Len(s) + 1 /\ (j \in 1 .. Len(s) => s[j] \notin Blanks)
    BY DEF At
  <2>2. j \in Nat /\ ~(j \in 1 .. i - 1)
    BY <2>1
  <2> QED
    BY <2>1, <2>2
<1> HIDE DEF T
<1>3. Min(T) = i
  BY <1>1, <1>2, LeastIs
<1> QED
  BY <1>3 DEF Behind, T

\* The loop over the blanks at the end stops behind the last other character, or at
\* start.
LEMMA EndFromIs ==
  ASSUME NEW C, NEW s \in Seq(C), NEW start \in 1 .. Len(s) + 1, NEW e \in start - 1 .. Len(s),
         \A k \in e + 1 .. Len(s) : s[k] \in Blanks, e >= start => s[e] \notin Blanks
  PROVE  EndFrom(s, start) = e
<1> DEFINE T == {start - 1} \cup {j \in start .. Len(s) : s[j] \notin Blanks}
<1>1. e \in T /\ T \subseteq Nat
  OBVIOUS
<1>2. ASSUME NEW j \in T PROVE e >= j
  <2>1. j = start - 1 \/ (j \in start .. Len(s) /\ ~(j \in e + 1 .. Len(s)))
    OBVIOUS
  <2> QED
    BY <2>1
<1> HIDE DEF T
<1>3. Max(T) = e
  BY <1>1, <1>2, GreatestIs
<1> QED
  BY <1>3 DEF EndFrom, T

\* Every text can be cut; one of blanks only is cut at its end.
LEMMA CutExists ==
  ASSUME NEW C, NEW s \in Seq(C)
  PROVE  \E i \in Nat, j \in Nat : Cut(s, i, j)
<1> DEFINE n == Len(s)
           T == {k \in 1 .. n : s[k] \notin Blanks}
<1>1. n \in Nat /\ T \subseteq Nat /\ T \subseteq 0 .. n
  OBVIOUS
<1>2. CASE T = {}
  <2>1. \A k \in 1 .. n : s[k] \in Blanks
    BY <1>2
  <2>2. Cut(s, n + 1, n)
    BY <1>1, <2>1 DEF Cut
  <2> QED
    BY <1>1, <2>2
<1>3. CASE T # {}
  <2>1. \A k \in 1 .. n : k \in T <=> s[k] \notin Blanks
    OBVIOUS
  <2>2. T \subseteq 1 .. n
    OBVIOUS
  <2> HIDE DEF T
  <2>3. PICK i \in T : \A k \in T : i <= k
    BY <1>1, <1>3, Least
  <2>4. PICK j \in T : \A k \in T : j >= k
    BY <1>1, <1>3, Greatest
  <2>5. i \in 1 .. n /\ j \in 1 .. n /\ i <= j
    BY <2>2, <2>3, <2>4
  <2>6. \A k \in 1 .. i - 1 : k \in 1 .. n /\ k \notin T
    BY <1>1, <2>3, <2>5
  <2>7. \A k \in j + 1 .. n : k \in 1 .. n /\ k \notin T
    BY <1>1, <2>4, <2>5
  <2>8. Cut(s, i, j)
    BY <1>1, <2>1, <2>5, <2>6, <2>7 DEF Cut
  <2> QED
    BY <1>1, <2>5, <2>8
<1> QED
  BY <1>2, <1>3

\* The three functions, by what is cut.
LEMMA TrimsIs ==
  ASSUME NEW C, NEW s \in Seq(C), NEW i \in Nat, NEW j \in Nat, Cut(s, i, j)
  PROVE  /\ trim_start(s) = SubSeq(s, i, Len(s))
         /\ trim_end(s) = SubSeq(s, 1, IF i <= j THEN j ELSE 0)
         /\ trim(s) = SubSeq(s, i, j)
<1> DEFINE n == Len(s)
           e == IF i <= j THEN j ELSE 0
<1>1. n \in Nat /\ i \in 1 .. n + 1 /\ j \in i - 1 .. n
  BY DEF Cut
<1>2. Behind(s, 1, Blanks) = i
  <2>1. \A k \in 1 .. i - 1 : s[k] \in Blanks
    BY DEF Cut
  <2>2. i <= n => s[i] \notin Blanks
    BY <1>1 DEF Cut
  <2> QED
    BY <1>1, <2>1, <2>2, BehindIs
<1>3. EndFrom(s, i) = j
  <2>1. \A k \in j + 1 .. n : s[k] \in Blanks
    BY DEF Cut
  <2>2. j >= i => s[j] \notin Blanks
    BY DEF Cut
  <2> QED
    BY <1>1, <2>1, <2>2, EndFromIs
<1>4. EndFrom(s, 1) = e
  <2>1. 1 \in 1 .. n + 1 /\ e \in 1 - 1 .. n
    BY <1>1
  <2>2. \A k \in e + 1 .. n : s[k] \in Blanks
    BY <1>1 DEF Cut
  <2>3. e >= 1 => s[e] \notin Blanks
    BY <1>1 DEF Cut
  <2> HIDE DEF e
  <2> QED
    BY <1>1, <2>1, <2>2, <2>3, EndFromIs
<1> QED
  BY <1>2, <1>3, <1>4 DEF trim_start, trim_end, trim

\* Both ends are trimmed by trimming one and then the other, in either order.
LEMMA TrimEnds ==
  ASSUME NEW C, NEW s \in Seq(C), NEW i \in Nat, NEW j \in Nat, Cut(s, i, j)
  PROVE  trim(s) = trim_end(trim_start(s)) /\ trim(s) = trim_start(trim_end(s))
<1> DEFINE n == Len(s)
           e == IF i <= j THEN j ELSE 0
           u == SubSeq(s, i, n)
           v == SubSeq(s, 1, e)
<1>1. n \in Nat /\ i \in 1 .. n + 1 /\ j \in i - 1 .. n /\ e \in 0 .. n
  BY DEF Cut
<1>2. trim_start(s) = u /\ trim_end(s) = v /\ trim(s) = SubSeq(s, i, j)
  BY TrimsIs
<1>3. \A k \in 1 .. n : s[k] \in C
  OBVIOUS
<1>4. CASE i > j
  <2>1. i = n + 1 /\ j = n /\ e = 0
    BY <1>1, <1>4 DEF Cut
  <2>2. u = <<>> /\ v = <<>> /\ SubSeq(s, i, j) = <<>>
    BY <1>1, <2>1, SubSeqEmpty
  <2> DEFINE empty == <<>>
             one == 1
             zero == 0
  <2>3. empty \in Seq(C) /\ Len(empty) = 0 /\ one \in Nat /\ zero \in Nat
    OBVIOUS
  <2>4. Cut(empty, one, zero)
    BY <2>3 DEF Cut
  <2>5. /\ trim_start(empty) = SubSeq(empty, 1, 0)
        /\ trim_end(empty) = SubSeq(empty, 1, 0)
    <3>1. (IF one <= zero THEN zero ELSE 0) = 0
      OBVIOUS
    <3> HIDE DEF empty, one, zero
    <3>2. /\ trim_start(empty) = SubSeq(empty, one, Len(empty))
          /\ trim_end(empty) = SubSeq(empty, 1, IF one <= zero THEN zero ELSE 0)
      BY <2>3, <2>4, TrimsIs
    <3> QED
      BY <2>3, <3>1, <3>2 DEF one
  <2> HIDE DEF empty, one, zero
  <2>6. SubSeq(empty, 1, 0) = <<>>
    BY SubSeqEmpty
  <2> QED
    BY <1>2, <2>2, <2>5, <2>6 DEF empty
<1>5. CASE i <= j
  <2>1. i \in 1 .. n /\ j \in 1 .. n /\ i \in 1 .. j /\ e = j
    BY <1>1, <1>5
  <2>2. /\ u \in Seq(C) /\ Len(u) = n - i + 1
        /\ \A k \in 1 .. n - i + 1 : u[k] = s[i + k - 1]
    BY <1>1, <1>3, <2>1, SubSeqProperties
  <2>3. /\ v \in Seq(C) /\ Len(v) = j
        /\ \A k \in 1 .. j : v[k] = s[k]
    <3>1. /\ v \in Seq(C) /\ Len(v) = j - 1 + 1
          /\ \A k \in 1 .. j - 1 + 1 : v[k] = s[1 + k - 1]
      BY <1>1, <1>3, <2>1, SubSeqProperties
    <3> HIDE DEF v
    <3> QED
      BY <2>1, <3>1
  <2> DEFINE m == j - i + 1
  <2>4. Cut(u, 1, m)
    <3> HIDE DEF u
    <3>1. 1 \in 1 .. Len(u) + 1 /\ m \in 1 - 1 .. Len(u) /\ m \in 1 .. Len(u)
      BY <2>1, <2>2
    <3>2. u[1] = s[i] /\ u[m] = s[j]
      BY <2>1, <2>2
    <3>3. ASSUME NEW k \in m + 1 .. Len(u) PROVE u[k] \in Blanks
      <4>1. k \in 1 .. n - i + 1 /\ i + k - 1 \in j + 1 .. n
        BY <2>1, <2>2
      <4>2. u[k] = s[i + k - 1]
        BY <2>2, <4>1
      <4> QED
        BY <4>1, <4>2 DEF Cut
    <3>4. s[i] \notin Blanks /\ s[j] \notin Blanks
      BY <1>5 DEF Cut
    <3> HIDE DEF m
    <3> QED
      BY <3>1, <3>2, <3>3, <3>4 DEF Cut
  <2>5. Cut(v, i, j)
    <3> HIDE DEF v
    <3>1. \A k \in 1 .. i - 1 : v[k] \in Blanks
      BY <2>1, <2>3 DEF Cut
    <3>2. v[i] \notin Blanks /\ v[j] \notin Blanks
      BY <1>5, <2>1, <2>3 DEF Cut
    <3> QED
      BY <1>1, <2>1, <2>3, <3>1, <3>2 DEF Cut
  <2>6. trim_end(u) = SubSeq(u, 1, m)
    <3>1. trim_end(u) = SubSeq(u, 1, IF 1 <= m THEN m ELSE 0) /\ 1 <= m
      <4>1. m \in Nat /\ 1 <= m
        BY <2>1
      <4> HIDE DEF u, m
      <4> QED
        BY <2>2, <2>4, <4>1, TrimsIs
    <3> QED
      BY <3>1
  <2>7. trim_start(v) = SubSeq(v, i, j)
    <3> HIDE DEF v
    <3> QED
      BY <2>3, <2>5, TrimsIs
  <2>8. SubSeq(u, 1, m) = SubSeq(s, i, j)
    <3> DEFINE x == SubSeq(u, 1, m)
               y == SubSeq(s, i, j)
    <3>1. /\ y \in Seq(C) /\ Len(y) = m
          /\ \A k \in 1 .. m : y[k] = s[i + k - 1]
      BY <1>1, <1>3, <2>1, SubSeqProperties
    <3>2. \A k \in 1 .. m : u[k] \in C
      BY <2>1, <2>2
    <3> HIDE DEF u
    <3>3. /\ x \in Seq(C) /\ Len(x) = IF 1 <= m THEN m - 1 + 1 ELSE 0
          /\ \A k \in 1 .. m - 1 + 1 : x[k] = u[1 + k - 1]
      BY <2>1, <3>2, SubSeqProperties
    <3> HIDE DEF x, y
    <3>4. Len(x) = m /\ \A k \in 1 .. m : x[k] = s[i + k - 1]
      BY <2>1, <2>2, <3>3
    <3>5. \A k \in 1 .. Len(x) : x[k] = y[k]
      BY <3>1, <3>4
    <3>6. x = y
      BY <3>1, <3>3, <3>4, <3>5, SeqEqual
    <3> QED
      BY <3>6 DEF x, y
  <2>9. SubSeq(v, i, j) = SubSeq(s, i, j)
    <3> DEFINE x == SubSeq(v, i, j)
               y == SubSeq(s, i, j)
    <3>1. /\ y \in Seq(C) /\ Len(y) = j - i + 1
          /\ \A k \in 1 .. j - i + 1 : y[k] = s[i + k - 1]
      BY <1>1, <1>3, <2>1, SubSeqProperties
    <3>2. \A k \in i .. j : v[k] \in C
      BY <2>1, <2>3
    <3> HIDE DEF v
    <3>3. /\ x \in Seq(C) /\ Len(x) = IF i <= j THEN j - i + 1 ELSE 0
          /\ \A k \in 1 .. j - i + 1 : x[k] = v[i + k - 1]
      BY <2>1, <3>2, SubSeqProperties
    <3> HIDE DEF x, y
    <3>4. Len(x) = j - i + 1 /\ \A k \in 1 .. j - i + 1 : x[k] = s[i + k - 1]
      BY <2>1, <2>3, <3>3
    <3>5. \A k \in 1 .. Len(x) : x[k] = y[k]
      BY <3>1, <3>4
    <3>6. x = y
      BY <3>1, <3>3, <3>4, <3>5, SeqEqual
    <3> QED
      BY <3>6 DEF x, y
  <2> QED
    BY <1>2, <2>6, <2>7, <2>8, <2>9
<1> QED
  BY <1>1, <1>4, <1>5

\* is_blank, by positions.
LEMMA BlankIs ==
  ASSUME NEW C, NEW s \in Seq(C)
  PROVE  is_blank(s) <=> \A k \in 1 .. Len(s) : s[k] \in Blanks
BY DEF is_blank

\* trim takes the blanks off both ends and nothing else, of every text.
THEOREM TrimObeys ==
  ASSUME NEW C, NEW s \in Seq(C)
  PROVE  TrimRight(s)
<1> DEFINE n == Len(s)
<1>1. PICK i \in Nat, j \in Nat : Cut(s, i, j)
  BY CutExists
<1>2. n \in Nat /\ i \in 1 .. n + 1 /\ j \in i - 1 .. n
  BY <1>1 DEF Cut
<1>3. trim(s) = SubSeq(s, i, j)
  BY <1>1, TrimsIs
<1>4. \A k \in 1 .. n : s[k] \in C
  OBVIOUS
<1>5. trim(s) = trim_end(trim_start(s)) /\ trim(s) = trim_start(trim_end(s))
  BY <1>1, TrimEnds
<1> DEFINE t == SubSeq(s, i, j)
           before == SubSeq(s, 1, i - 1)
           behind == SubSeq(s, j + 1, n)
<1>6. /\ t \in Seq(C) /\ Len(t) = IF i <= j THEN j - i + 1 ELSE 0
      /\ \A k \in 1 .. j - i + 1 : t[k] = s[i + k - 1]
  BY <1>2, <1>4, SubSeqProperties
<1>7. is_blank(s) <=> t = <<>>
  <2>1. CASE i <= j
    <3>1. i \in 1 .. n /\ s[i] \notin Blanks
      BY <1>1, <1>2, <2>1 DEF Cut
    <3>2. Len(t) # 0
      BY <1>2, <1>6, <2>1
    <3> HIDE DEF t
    <3>3. t # <<>>
      BY <3>2
    <3> QED
      BY <3>1, <3>3, BlankIs
  <2>2. CASE i > j
    <3>1. t = <<>>
      BY <1>2, <2>2, SubSeqEmpty
    <3>2. \A k \in 1 .. n : k \in 1 .. i - 1
      BY <1>1, <1>2, <2>2 DEF Cut
    <3>3. \A k \in 1 .. n : s[k] \in Blanks
      BY <1>1, <3>2 DEF Cut
    <3> QED
      BY <3>1, <3>3, BlankIs
  <2>3. i <= j \/ i > j
    BY <1>2
  <2> HIDE DEF t
  <2> QED
    BY <2>1, <2>2, <2>3
<1>8. /\ s = SubSeq(s, 1, i - 1) \o t \o SubSeq(s, j + 1, n)
      /\ is_blank(SubSeq(s, 1, i - 1)) /\ is_blank(SubSeq(s, j + 1, n))
  <2>1. before \o t = SubSeq(s, 1, j)
    <3>1. 1 \in 1 .. n + 1 /\ i - 1 \in 1 - 1 .. n /\ j \in i - 1 .. n /\ (i - 1) + 1 = i
      BY <1>2
    <3> QED
      BY <3>1, ConcatAdjacentSubSeq
  <2>2. SubSeq(s, 1, j) \o behind = SubSeq(s, 1, n)
    <3>1. 1 \in 1 .. n + 1 /\ j \in 1 - 1 .. n /\ n \in j .. n
      BY <1>2
    <3> QED
      BY <3>1, ConcatAdjacentSubSeq
  <2>3. SubSeq(s, 1, n) = s
    BY SubSeqFull
  <2>4. is_blank(before)
    <3>1. /\ before \in Seq(C) /\ Len(before) = IF 1 <= i - 1 THEN (i - 1) - 1 + 1 ELSE 0
          /\ \A k \in 1 .. (i - 1) - 1 + 1 : before[k] = s[1 + k - 1]
      BY <1>2, <1>4, SubSeqProperties
    <3> HIDE DEF before
    <3>2. Len(before) = i - 1 /\ \A k \in 1 .. i - 1 : before[k] = s[k]
      BY <1>2, <3>1
    <3>3. \A k \in 1 .. Len(before) : before[k] \in Blanks
      BY <1>1, <3>2 DEF Cut
    <3> QED
      BY <3>1, <3>3, BlankIs
  <2>5. is_blank(behind)
    <3>1. \A k \in j + 1 .. n : s[k] \in C
      BY <1>2, <1>4
    <3>2. /\ behind \in Seq(C) /\ Len(behind) = IF j + 1 <= n THEN n - (j + 1) + 1 ELSE 0
          /\ \A k \in 1 .. n - (j + 1) + 1 : behind[k] = s[(j + 1) + k - 1]
      BY <1>2, <3>1, SubSeqProperties
    <3> HIDE DEF behind
    <3>3. ASSUME NEW k \in 1 .. Len(behind) PROVE behind[k] \in Blanks
      <4>1. k \in 1 .. n - (j + 1) + 1 /\ (j + 1) + k - 1 \in j + 1 .. n
        BY <1>2, <3>2
      <4> QED
        BY <1>1, <3>2, <4>1 DEF Cut
    <3> QED
      BY <3>2, <3>3, BlankIs
  <2> QED
    BY <2>1, <2>2, <2>3, <2>4, <2>5
<1>9. t # <<>> => Head(t) \notin Blanks /\ Last(t) \notin Blanks
  <2> SUFFICES ASSUME t # <<>> PROVE Head(t) \notin Blanks /\ Last(t) \notin Blanks
    OBVIOUS
  <2>1. i <= j
    BY <1>2, SubSeqEmpty
  <2>2. s[i] \notin Blanks /\ s[j] \notin Blanks
    BY <1>1, <2>1 DEF Cut
  <2>3. Len(t) = j - i + 1 /\ t[1] = s[i] /\ t[j - i + 1] = s[j]
    BY <1>2, <1>6, <2>1
  <2>4. Head(t) = t[1] /\ Last(t) = t[Len(t)]
    BY <1>6 DEF Last
  <2> HIDE DEF t
  <2> QED
    BY <2>2, <2>3, <2>4
<1>10. \E k, l \in 0 .. n :
         /\ s = SubSeq(s, 1, k) \o t \o SubSeq(s, l + 1, n)
         /\ is_blank(SubSeq(s, 1, k)) /\ is_blank(SubSeq(s, l + 1, n))
  <2>1. i - 1 \in 0 .. n /\ j \in 0 .. n
    BY <1>2
  <2> HIDE DEF t
  <2> QED
    BY <1>8, <2>1
<1> HIDE DEF t
<1> QED
  BY <1>3, <1>5, <1>7, <1>9, <1>10 DEF TrimRight, t

\* What the conversions make of one character: of a text they convert each one by itself.
LEMMA CaseOf ==
  ASSUME NEW s \in Seq(Int)
  PROVE  /\ to_lower(s) \in Seq(Int) /\ Len(to_lower(s)) = Len(s)
         /\ to_upper(s) \in Seq(Int) /\ Len(to_upper(s)) = Len(s)
         /\ \A i \in 1 .. Len(s) :
              /\ s[i] \in Int
              /\ to_lower(s)[i] = IF 65 <= s[i] /\ s[i] <= 90 THEN s[i] + 32 ELSE s[i]
              /\ to_upper(s)[i] = IF 97 <= s[i] /\ s[i] <= 122 THEN s[i] - 32 ELSE s[i]
<1>1. DOMAIN s = 1 .. Len(s) /\ Len(s) \in Nat /\ \A i \in 1 .. Len(s) : s[i] \in Int
  OBVIOUS
<1>2. to_lower(s) \in Seq(Int) /\ Len(to_lower(s)) = Len(s)
  BY <1>1 DEF to_lower
<1>3. to_upper(s) \in Seq(Int) /\ Len(to_upper(s)) = Len(s)
  BY <1>1 DEF to_upper
<1>4. \A i \in 1 .. Len(s) :
        /\ to_lower(s)[i] = IF 65 <= s[i] /\ s[i] <= 90 THEN s[i] + 32 ELSE s[i]
        /\ to_upper(s)[i] = IF 97 <= s[i] /\ s[i] <= 122 THEN s[i] - 32 ELSE s[i]
  BY <1>1 DEF to_lower, to_upper
<1> QED
  BY <1>1, <1>2, <1>3, <1>4

\* Two texts are the same if they are as long and have the same characters.
LEMMA SameText ==
  ASSUME NEW s \in Seq(Int), NEW t \in Seq(Int)
  PROVE  s = t <=> Len(s) = Len(t) /\ \A i \in 1 .. Len(s) : s[i] = t[i]
<1>1. s = [i \in 1 .. Len(s) |-> s[i]] /\ t = [i \in 1 .. Len(t) |-> t[i]]
  OBVIOUS
<1> QED
  BY <1>1

\* Two texts, of whatever length and of whatever characters, differ in case only when
\* both conversions say so, and each conversion undoes the other one: the two ranges of
\* codes, which the code tests apart from each other, fit.
THEOREM CaseObeys ==
  ASSUME NEW s \in Seq(Int), NEW t \in Seq(Int)
  PROVE  CaseRight(s, t)
<1>1. to_lower(s) = to_lower(t) <=> to_upper(s) = to_upper(t)
  <2>1. to_lower(s) = to_lower(t)
          <=> Len(s) = Len(t) /\ \A i \in 1 .. Len(s) : to_lower(s)[i] = to_lower(t)[i]
    <3> DEFINE f == to_lower(s)
               g == to_lower(t)
    <3>1. f \in Seq(Int) /\ g \in Seq(Int) /\ Len(f) = Len(s) /\ Len(g) = Len(t)
      BY CaseOf
    <3> HIDE DEF f, g
    <3>2. f = g <=> Len(f) = Len(g) /\ \A i \in 1 .. Len(f) : f[i] = g[i]
      BY <3>1, SameText
    <3> QED
      BY <3>1, <3>2 DEF f, g
  <2>2. to_upper(s) = to_upper(t)
          <=> Len(s) = Len(t) /\ \A i \in 1 .. Len(s) : to_upper(s)[i] = to_upper(t)[i]
    <3> DEFINE f == to_upper(s)
               g == to_upper(t)
    <3>1. f \in Seq(Int) /\ g \in Seq(Int) /\ Len(f) = Len(s) /\ Len(g) = Len(t)
      BY CaseOf
    <3> HIDE DEF f, g
    <3>2. f = g <=> Len(f) = Len(g) /\ \A i \in 1 .. Len(f) : f[i] = g[i]
      BY <3>1, SameText
    <3> QED
      BY <3>1, <3>2 DEF f, g
  <2>3. ASSUME Len(s) = Len(t), NEW i \in 1 .. Len(s)
        PROVE  to_lower(s)[i] = to_lower(t)[i] <=> to_upper(s)[i] = to_upper(t)[i]
    <3>1. i \in 1 .. Len(t)
      BY <2>3
    <3>2. /\ s[i] \in Int
          /\ to_lower(s)[i] = IF 65 <= s[i] /\ s[i] <= 90 THEN s[i] + 32 ELSE s[i]
          /\ to_upper(s)[i] = IF 97 <= s[i] /\ s[i] <= 122 THEN s[i] - 32 ELSE s[i]
      BY CaseOf
    <3>3. /\ t[i] \in Int
          /\ to_lower(t)[i] = IF 65 <= t[i] /\ t[i] <= 90 THEN t[i] + 32 ELSE t[i]
          /\ to_upper(t)[i] = IF 97 <= t[i] /\ t[i] <= 122 THEN t[i] - 32 ELSE t[i]
      BY <3>1, CaseOf
    <3> DEFINE a == s[i]
               b == t[i]
               al == to_lower(s)[i]
               bl == to_lower(t)[i]
               au == to_upper(s)[i]
               bu == to_upper(t)[i]
    <3>4. /\ a \in Int /\ b \in Int
          /\ al = IF 65 <= a /\ a <= 90 THEN a + 32 ELSE a
          /\ bl = IF 65 <= b /\ b <= 90 THEN b + 32 ELSE b
          /\ au = IF 97 <= a /\ a <= 122 THEN a - 32 ELSE a
          /\ bu = IF 97 <= b /\ b <= 122 THEN b - 32 ELSE b
      BY <3>2, <3>3
    <3> HIDE DEF a, b, al, bl, au, bu
    <3>5. al = bl <=> au = bu
      BY <3>4
    <3> QED
      BY <3>5 DEF al, bl, au, bu
  <2> QED
    BY <2>1, <2>2, <2>3
<1>2. to_lower(to_upper(s)) = to_lower(s)
  <2> DEFINE u == to_upper(s)
  <2>1. u \in Seq(Int) /\ Len(u) = Len(s)
    BY CaseOf
  <2>2. \A i \in 1 .. Len(s) :
          /\ s[i] \in Int
          /\ u[i] = IF 97 <= s[i] /\ s[i] <= 122 THEN s[i] - 32 ELSE s[i]
    BY CaseOf
  <2> HIDE DEF u
  <2> DEFINE f == to_lower(u)
             g == to_lower(s)
  <2>3. /\ f \in Seq(Int) /\ Len(f) = Len(s)
        /\ \A i \in 1 .. Len(s) : f[i] = IF 65 <= u[i] /\ u[i] <= 90 THEN u[i] + 32 ELSE u[i]
    BY <2>1, CaseOf
  <2>4. /\ g \in Seq(Int) /\ Len(g) = Len(s)
        /\ \A i \in 1 .. Len(s) : g[i] = IF 65 <= s[i] /\ s[i] <= 90 THEN s[i] + 32 ELSE s[i]
    BY CaseOf
  <2> HIDE DEF f, g
  <2>5. ASSUME NEW i \in 1 .. Len(s) PROVE f[i] = g[i]
    <3> DEFINE a == s[i]
               b == u[i]
    <3>1. /\ a \in Int
          /\ b = IF 97 <= a /\ a <= 122 THEN a - 32 ELSE a
      BY <2>2
    <3>2. f[i] = IF 65 <= b /\ b <= 90 THEN b + 32 ELSE b
      BY <2>3
    <3>3. g[i] = IF 65 <= a /\ a <= 90 THEN a + 32 ELSE a
      BY <2>4
    <3> HIDE DEF a, b
    <3> QED
      BY <3>1, <3>2, <3>3
  <2>6. f = g
    BY <2>3, <2>4, <2>5, SameText
  <2> QED
    BY <2>6 DEF f, g, u
<1>3. to_upper(to_lower(s)) = to_upper(s)
  <2> DEFINE u == to_lower(s)
  <2>1. u \in Seq(Int) /\ Len(u) = Len(s)
    BY CaseOf
  <2>2. \A i \in 1 .. Len(s) :
          /\ s[i] \in Int
          /\ u[i] = IF 65 <= s[i] /\ s[i] <= 90 THEN s[i] + 32 ELSE s[i]
    BY CaseOf
  <2> HIDE DEF u
  <2> DEFINE f == to_upper(u)
             g == to_upper(s)
  <2>3. /\ f \in Seq(Int) /\ Len(f) = Len(s)
        /\ \A i \in 1 .. Len(s) : f[i] = IF 97 <= u[i] /\ u[i] <= 122 THEN u[i] - 32 ELSE u[i]
    BY <2>1, CaseOf
  <2>4. /\ g \in Seq(Int) /\ Len(g) = Len(s)
        /\ \A i \in 1 .. Len(s) : g[i] = IF 97 <= s[i] /\ s[i] <= 122 THEN s[i] - 32 ELSE s[i]
    BY CaseOf
  <2> HIDE DEF f, g
  <2>5. ASSUME NEW i \in 1 .. Len(s) PROVE f[i] = g[i]
    <3> DEFINE a == s[i]
               b == u[i]
    <3>1. /\ a \in Int
          /\ b = IF 65 <= a /\ a <= 90 THEN a + 32 ELSE a
      BY <2>2
    <3>2. f[i] = IF 97 <= b /\ b <= 122 THEN b - 32 ELSE b
      BY <2>3
    <3>3. g[i] = IF 97 <= a /\ a <= 122 THEN a - 32 ELSE a
      BY <2>4
    <3> HIDE DEF a, b
    <3> QED
      BY <3>1, <3>2, <3>3
  <2>6. f = g
    BY <2>3, <2>4, <2>5, SameText
  <2> QED
    BY <2>6 DEF f, g, u
<1> QED
  BY <1>1, <1>2, <1>3 DEF CaseRight

\* What a text is made of is what it starts and ends with, whatever the two texts.
THEOREM EndsObey ==
  ASSUME NEW C, NEW s \in Seq(C), NEW t \in Seq(C)
  PROVE  EndsRight(s, t)
<1> DEFINE n == Len(s)
           m == Len(t)
<1>1. /\ n \in Nat /\ m \in Nat
      /\ \A k \in 1 .. n : s[k] \in C
      /\ \A k \in 1 .. m : t[k] \in C
  OBVIOUS
<1>2. ASSUME starts_with(s, t) PROVE \E i \in 0 .. n : s = t \o SubSeq(s, i + 1, n)
  <2>1. m <= n /\ SubSeq(s, 1, m) = t
    BY <1>2 DEF starts_with
  <2>2. SubSeq(s, 1, m) \o SubSeq(s, m + 1, n) = SubSeq(s, 1, n)
    <3>1. 1 \in 1 .. n + 1 /\ m \in 1 - 1 .. n /\ n \in m .. n
      BY <1>1, <2>1
    <3> QED
      BY <3>1, ConcatAdjacentSubSeq
  <2>3. SubSeq(s, 1, n) = s
    BY SubSeqFull
  <2>4. m \in 0 .. n
    BY <1>1, <2>1
  <2> DEFINE v == SubSeq(s, m + 1, n)
             w == SubSeq(s, 1, m)
  <2>5. w = t /\ w \o v = s
    BY <2>1, <2>2, <2>3
  <2>6. t \o v = s
    <3> HIDE DEF v, w
    <3> QED
      BY <2>5
  <2> HIDE DEF m
  <2> QED
    BY <2>4, <2>6
<1>3. ASSUME NEW i \in 0 .. n, s = t \o SubSeq(s, i + 1, n) PROVE starts_with(s, t)
  <2> DEFINE u == SubSeq(s, i + 1, n)
             v == SubSeq(s, 1, m)
  <2>1. u \in Seq(C)
    <3>1. \A k \in i + 1 .. n : s[k] \in C
      BY <1>1
    <3> QED
      BY <1>1, <3>1, SubSeqProperties
  <2> HIDE DEF u
  <2>2. /\ Len(t \o u) = m + Len(u) /\ Len(u) \in Nat
        /\ \A k \in 1 .. m : (t \o u)[k] = t[k]
    BY <1>1, <2>1, ConcatProperties
  <2>3. m <= n /\ \A k \in 1 .. m : s[k] = t[k]
    BY <1>1, <1>3, <2>2 DEF u
  <2>4. \A k \in 1 .. m : s[k] \in C
    BY <1>1, <2>3
  <2>5. v \in Seq(C) /\ Len(v) = m /\ \A k \in 1 .. m : v[k] = s[k]
    <3>1. /\ v \in Seq(C) /\ Len(v) = IF 1 <= m THEN m - 1 + 1 ELSE 0
          /\ \A k \in 1 .. m - 1 + 1 : v[k] = s[1 + k - 1]
      BY <1>1, <2>3, <2>4, SubSeqProperties
    <3> HIDE DEF v
    <3> QED
      BY <1>1, <3>1
  <2> HIDE DEF v
  <2>6. v = t
    BY <1>1, <2>3, <2>5, SeqEqual
  <2> QED
    BY <2>3, <2>6 DEF starts_with, v
<1>4. ASSUME ends_with(s, t) PROVE \E i \in 0 .. n : s = SubSeq(s, 1, i) \o t
  <2>1. m <= n /\ SubSeq(s, n - m + 1, n) = t
    BY <1>4 DEF ends_with
  <2>2. SubSeq(s, 1, n - m) \o SubSeq(s, (n - m) + 1, n) = SubSeq(s, 1, n)
    <3>1. 1 \in 1 .. n + 1 /\ n - m \in 1 - 1 .. n /\ n \in n - m .. n
      BY <1>1, <2>1
    <3> QED
      BY <3>1, ConcatAdjacentSubSeq
  <2>3. SubSeq(s, 1, n) = s
    BY SubSeqFull
  <2>4. n - m \in 0 .. n
    BY <1>1, <2>1
  <2> QED
    BY <2>1, <2>2, <2>3, <2>4
<1>5. ASSUME NEW i \in 0 .. n, s = SubSeq(s, 1, i) \o t PROVE ends_with(s, t)
  <2> DEFINE u == SubSeq(s, 1, i)
             v == SubSeq(s, n - m + 1, n)
  <2>1. u \in Seq(C)
    <3>1. \A k \in 1 .. i : s[k] \in C
      BY <1>1
    <3> QED
      BY <1>1, <3>1, SubSeqProperties
  <2> HIDE DEF u
  <2>2. /\ Len(u \o t) = Len(u) + m /\ Len(u) \in Nat
        /\ \A k \in Len(u) + 1 .. Len(u) + m : (u \o t)[k] = t[k - Len(u)]
    BY <1>1, <2>1, ConcatProperties
  <2>3. m <= n /\ Len(u) = n - m /\ \A k \in n - m + 1 .. n : s[k] = t[k - (n - m)]
    BY <1>1, <1>5, <2>2 DEF u
  <2>4. \A k \in n - m + 1 .. n : s[k] \in C
    BY <1>1, <2>3
  <2>5. v \in Seq(C) /\ Len(v) = m /\ \A k \in 1 .. m : v[k] = s[(n - m) + k]
    <3>1. /\ v \in Seq(C) /\ Len(v) = IF n - m + 1 <= n THEN n - (n - m + 1) + 1 ELSE 0
          /\ \A k \in 1 .. n - (n - m + 1) + 1 : v[k] = s[(n - m + 1) + k - 1]
      BY <1>1, <2>3, <2>4, SubSeqProperties
    <3> DEFINE d == n - m
    <3>2. /\ d \in Nat /\ n = d + m /\ v \in Seq(C)
          /\ Len(v) = IF d + 1 <= n THEN n - (d + 1) + 1 ELSE 0
          /\ \A k \in 1 .. n - (d + 1) + 1 : v[k] = s[(d + 1) + k - 1]
      BY <1>1, <2>3, <3>1
    <3> HIDE DEF v, d
    <3>3. Len(v) = m
      BY <1>1, <3>2
    <3>4. ASSUME NEW k \in 1 .. m PROVE v[k] = s[d + k]
      <4>1. k \in 1 .. n - (d + 1) + 1 /\ (d + 1) + k - 1 = d + k
        BY <1>1, <3>2
      <4> QED
        BY <3>2, <4>1
    <3> QED
      BY <3>2, <3>3, <3>4 DEF d
  <2>6. ASSUME NEW k \in 1 .. m PROVE v[k] = t[k]
    <3>1. (n - m) + k \in n - m + 1 .. n /\ ((n - m) + k) - (n - m) = k
      BY <1>1, <2>3
    <3> HIDE DEF v
    <3> QED
      BY <2>3, <2>5, <3>1
  <2> HIDE DEF v
  <2>7. v = t
    BY <1>1, <2>5, <2>6, SeqEqual
  <2> QED
    BY <2>3, <2>7 DEF ends_with, v
<1> QED
  BY <1>2, <1>3, <1>4, <1>5 DEF EndsRight
================================================================================
